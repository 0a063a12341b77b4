SPECIFICATION Spec
CONSTANTS
  Specs <- SmallSpecs
  UrlOptions <- SmallUrlOptions
  ArrOptions <- SmallArrOptions
  MaxOptions = 2
  MaxServers = 16
  Pids <- SmallPids
  Null = Null
INVARIANTS ServersAgree LastGivenWins HashIsIdentity HashRoom
CHECK_DEADLOCK FALSE
