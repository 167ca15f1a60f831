CONSTANTS
  Writers = {w1, w2}
  Readers = {r1, r2}
  Samplers = {s1}
  MAXSM = 2
  Overlap = FALSE
  Killable = {r2}
SPECIFICATION Spec
CHECK_DEADLOCK FALSE
INVARIANTS TypeOK SameFifo InitGuarded FlagsHaveOwners LeavesNothing OneOfEach
