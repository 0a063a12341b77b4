SPECIFICATION Spec
CONSTANTS
  c1 = c1
  a = a
  None = None
  Slots = {1, 2, 3}
  PSlots = {9}
  Contexts = {c1}
  Pids = {a}
  MaxId = 4
  MaxRefs = 2
  MaxRequests = 2
INVARIANTS NothingFreedTwice NothingDangles NoneLeaks
PROPERTY CallsReturn
CHECK_DEADLOCK FALSE
