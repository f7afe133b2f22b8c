SPECIFICATION FairSpec
CONSTANTS
  NumBuffers = 2
  BufSize = 2
  FileLen = 7
  ReadFaults = FALSE
  WriteFaults = TRUE
PROPERTIES CopyEnds
