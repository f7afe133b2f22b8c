SPECIFICATION Spec
CONSTANT MaxEntries = 2
INVARIANTS VolumeIsBacked FreedIsLeftAlone
PROPERTY MainEnds
CHECK_DEADLOCK FALSE
