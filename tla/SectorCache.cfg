SPECIFICATION Spec
CONSTANTS
  NumSectors = 4
  CacheSize = 3
  MaxFlush = 2
  MaxRequest = 2
  IOFaults = TRUE
  Values = {v1, v2}
  Garbage = garbage
INVARIANTS CacheIsConsistent NoZeroFlush CleanIsOnDisk
PROPERTIES IsStore
VIEW SlotsByPlace
SYMMETRY Symmetry
CHECK_DEADLOCK FALSE
