SPECIFICATION Spec
CONSTANTS
  Null = Null
  h1 = h1
  Hosts = {h1}
  Defs <- OneHostDefs
  Accounts <- AllAccounts
  Replies <- SetReplies
  Threads = {t1}
  Addrs = {a1, a2}
  Cursors = {}
  MaxPid = 1
  PingInterval = 1
  IsMasterInterval = 2
  Kinds = {"SEED", "FOUND", "MULTI"}
INVARIANTS TypeOK HashIsUnique
PROPERTIES ReturnedIsChecked ReturnedIsAuthenticated
SYMMETRY Symmetric
CHECK_DEADLOCK FALSE
