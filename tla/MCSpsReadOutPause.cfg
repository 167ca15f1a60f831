CONSTANTS
  NQdc = 2
  NTdc = 1
  Fraction = 2
  MaxStrobes = 3
  MaxNoise = 1
SPECIFICATION Spec
CHECK_DEADLOCK FALSE
INVARIANT PausedMeansVetoed
