SPECIFICATION Spec
CONSTANTS
  Modes = {"read", "write"}
  FilterKinds = {"through", "pairs", "hoard", "refuse"}
  MaxFilters = 2
  Arrivals = 4
  Writes = 4
  Room = 3
  ChunkSize = 2
  Counts = {1, 3}
  Delims <- SmallDelims
INVARIANTS Conserved EndIsWhole
CHECK_DEADLOCK FALSE
