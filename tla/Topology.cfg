SPECIFICATION Spec
CONSTANTS
  Hosts <- SmallHosts
  Views <- SmallViews
  SeedLists <- SmallSeedLists
  SetNames = {"rs", "other"}
  MaxServers = 6
  MaxCalls = 2
  Null = Null
INVARIANTS ServersBounded MembersUsable NoStrayCandidate OneSet
PROPERTY Terminates
CHECK_DEADLOCK FALSE
