SPECIFICATION FairSpec
CONSTANTS
  NumBuffers = 3
  BufSize = 2
  FileLen = 5
  ReadFaults = TRUE
  WriteFaults = TRUE
INVARIANTS BuffersAccounted InOrder NoLostWakeup StarvesOnlyAfterWriteError
PROPERTIES CopiesStream CopyEndsOrStarves
