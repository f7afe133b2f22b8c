SPECIFICATION Spec
CONSTANTS
  SS = 4
  fatbase = 2
  fsize = 3
  n_fats = 2
  csize = 1
  LastSector = 8
  n_fatent <- LinkCounts
  Digit = {0, 1, 2, 3, 15}
  Clusters = {2, 5, 6}
  Values <- TwoValues
  Contents <- TwoContents
  Formatted <- SomeFiles
  Types = {"FAT12", "FAT16", "FAT32"}
  DiskFaults = TRUE
INVARIANTS WindowIsConsistent
PROPERTIES IsVolumeImage
VIEW Relevant
