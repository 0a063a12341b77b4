SPECIFICATION Spec
CONSTANTS
  Capacity = 4
  SpillAt = 3
  ChunkSize = 2
  PageSize = 4096
  None = None
  Kinds = {"memory", "temp", "file", "append", "pipe", "user", "forward"}
  Contents <- SmallContents
  LineEnds = {"detect"}
  Texts <- SmallTexts
  Counts = {3}
  Delims <- SmallDelims
  Offsets <- SmallOffsets
  Sizes = {3}
  Chunks = {1}
  Rooms = {2, 9}
INVARIANTS InSync EofHonest RecordHasNoDelim
PROPERTIES LineIsOneLine Implements
CHECK_DEADLOCK FALSE
