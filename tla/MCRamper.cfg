CONSTANTS
  StartTps = 5
  IncrementTps = 10
  LoadInterval = 2
  RecoveryInterval = 2
  SLO = 1
  WindowLen = 3
  BlockHistory = 2
  MaxTime = 9
SPECIFICATION Spec
CHECK_DEADLOCK FALSE
INVARIANTS
  LimitInv
  PassedWasDriven
  VerdictIsRecent
PROPERTIES
  ViolationEndsRamp
