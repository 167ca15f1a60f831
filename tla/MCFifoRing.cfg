CONSTANTS
  Size = 6
  EventSizes = {3, 4, 5}
  Chunk = 4
  MAXSM = 0
  JunkSizes = {}
  FlakyDisk = TRUE
  MaxWords = 11
  MaxFile = 10
SPECIFICATION Spec
CHECK_DEADLOCK FALSE
INVARIANTS TypeOK DataIntact EmptyMeansDrained FullMeansNoRoom OccupancyNearest NoWordSkipped
