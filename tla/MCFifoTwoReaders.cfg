CONSTANTS
  Writers = {w1}
  Readers = {r1, r2}
  Samplers = {}
  MAXSM = 2
  Overlap = FALSE
  Killable = {}
SPECIFICATION Spec
CHECK_DEADLOCK FALSE
INVARIANTS OneReader
