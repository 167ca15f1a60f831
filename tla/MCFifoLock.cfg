CONSTANTS
  Writer = W
  Reader = R
  s1 = s1
  s2 = s2
  Samplers <- MCSamplers
  sam_ind <- MCSlots
  MAXSM = 2
  Interruptible = {}
SPECIFICATION FairSpec
INVARIANTS TypeOK LockWordGuarded MutualExclusion HolderNamed
PROPERTIES ImplementsMutex NoDeadlock
