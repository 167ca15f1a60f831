CONSTANTS
  RatioBeam = 3
  RatioPed = 2
  maxevts = 3
  NQdc = 1
  CounterSize = 3
  MaxGates = 4
  MaxNoise = 1
SPECIFICATION FairSpec
CHECK_DEADLOCK FALSE
INVARIANTS TypeOK PedestalsFollowRatio EveryGateAnswered DataMatchTriggers AlarmTells
PROPERTIES TriggersAnswered
