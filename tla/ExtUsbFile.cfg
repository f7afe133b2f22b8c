SPECIFICATION FairSpec
CONSTANTS
  Line = 2
  MaxSize = 4
  OffsetMod = 5
  MaxLen = 4
  Seeks <- SmallSeeks
INVARIANTS AnswerCountsMoved TransfersAreAligned PointerInFile EntryIsSize
PROPERTIES CallsReturn
