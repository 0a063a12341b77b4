SPECIFICATION Spec
CONSTANTS
  Null = Null
  h1 = h1
  Hosts = {h1}
  Defs <- OneDef
  Accounts <- AllAccounts
  Replies <- FewReplies
  Threads = {t1}
  Addrs = {a1, a2}
  Cursors = {}
  MaxPid = 1
  PingInterval = 1
  IsMasterInterval = 2
  Kinds = {"MULTI"}
INVARIANTS RegisteredAlive
SYMMETRY Symmetric
CHECK_DEADLOCK FALSE
