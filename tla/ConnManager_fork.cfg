SPECIFICATION FairSpec
CONSTANTS
  Null = Null
  h1 = h1
  Hosts = {h1}
  Defs <- OneDef
  Accounts <- AllAccounts
  Replies <- FewReplies
  Threads = {t1}
  Addrs = {a1, a2}
  Cursors = {c1, c2}
  MaxPid = 2
  PingInterval = 2
  IsMasterInterval = 2
  Kinds = {"SEED", "FOUND"}
INVARIANTS RegisteredAlive CallbacksMatch
PROPERTIES ForkSafety ImplementsCache BlacklistExpires Recovers
CHECK_DEADLOCK FALSE
