SPECIFICATION Spec
CONSTANTS
  NumSectors = 3
  CacheSize = 2
  MaxFlush = 2
  MaxRequest = 2
  IOFaults = FALSE
  Values = {v1, v2}
  Garbage = garbage
INVARIANTS ReadsReturnContents
CHECK_DEADLOCK FALSE
