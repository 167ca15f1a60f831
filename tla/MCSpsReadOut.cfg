CONSTANTS
  NQdc = 2
  NTdc = 1
  Fraction = 2
  MaxStrobes = 4
  MaxNoise = 1
SPECIFICATION FairSpec
CHECK_DEADLOCK FALSE
INVARIANTS TypeOK SlipsAreMarked AlignedWithFers PedestalsKeepFraction
PROPERTIES AbortEndsRun
