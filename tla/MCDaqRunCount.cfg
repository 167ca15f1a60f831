CONSTANTS
  Capacity = 3
  Chunk = 2
  maxevts = 1
  MAX_FILE_SIZE = 9
  FlakyDisk = FALSE
  MaxPed = 0
  MaxInFile = 9
SPECIFICATION Spec
CHECK_DEADLOCK FALSE
INVARIANT EventCountRight
