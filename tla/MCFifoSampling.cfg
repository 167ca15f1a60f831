CONSTANTS
  Size = 7
  EventSizes = {3, 4, 5}
  Chunk = 4
  MAXSM = 1
  JunkSizes = {0, 3, 9}
  FlakyDisk = FALSE
  MaxWords = 22
  MaxFile = 22
SPECIFICATION Spec
CHECK_DEADLOCK FALSE
INVARIANTS AlignedNeverFails
PROPERTIES ImplementsQueue AlignedStaysAligned 
