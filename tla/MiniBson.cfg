SPECIFICATION Spec
CONSTANTS
  Words <- SmallWords
  Documents <- PlainReplies
  Prealloc = 7
  Absent = Absent
INVARIANTS PacketWellFormed FindsFirst ArrayWhole
PROPERTY WalkEnds
