CONSTANTS
  Writer = W
  Reader = R
  s1 = s1
  s2 = s2
  Samplers <- MCSamplers
  sam_ind <- MCSlots
  MAXSM = 2
  Interruptible = {W}
SPECIFICATION Spec
CHECK_DEADLOCK FALSE
INVARIANTS LockWordGuarded
