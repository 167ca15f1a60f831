CONSTANTS
  Capacity = 2
  Chunk = 2
  maxevts = 1
  MAX_FILE_SIZE = 2
  FlakyDisk = TRUE
  MaxPed = 1
  MaxInFile = 3
SPECIFICATION FairSpec
CHECK_DEADLOCK FALSE
INVARIANTS TypeOK SpillsAreLocked SpillsAreAccounted HeadersAddUp QuotaKept
PROPERTIES AbortEndsReadout WritersEnd
