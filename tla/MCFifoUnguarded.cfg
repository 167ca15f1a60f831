CONSTANTS
  Writers = {w1}
  Readers = {r1}
  Samplers = {}
  MAXSM = 2
  Overlap = TRUE
  Killable = {}
SPECIFICATION Spec
CHECK_DEADLOCK FALSE
INVARIANTS InitGuarded
