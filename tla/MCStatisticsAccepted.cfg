CONSTANTS
  s1 = s1
  s2 = s2
  Prewarm = Prewarm
  Scenario <- MCScenarios
  Latency = {1, 2}
  History = 2
  TpsWindow = 2
  BlockHistory = 2
  Word = 128
  UnixToInternal = 16
  MaxDuration = 25
  Header <- MCHeaders
  Block <- MCBlocks
  Plan <- MCSendsOnly
  MaxTime = 3
SPECIFICATION Spec
SYMMETRY MCSymmetry
CHECK_DEADLOCK FALSE
INVARIANTS
  AcceptedIsAccepted
