SPECIFICATION Spec
CONSTANTS
  Null = Null
  MyPid = 1
  IntBits = 6
  rs1 = rs1
  rs2 = rs2
  u1 = u1
  u2 = u2
  Registries <- SmallRegistries
  Requests <- SmallRequests
INVARIANTS PickIsPromised OutcomeIsDue ReturnsMine
CHECK_DEADLOCK FALSE
