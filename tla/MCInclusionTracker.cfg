CONSTANTS
  x1 = x1
  x2 = x2
  Tx <- MCTx2
  MaxInflight = 1
  ReapAfter = 1
  FetchTimeout = 1
  MaxTime = 3
  MaxBlock = 3
  MaxHeads = 1
SPECIFICATION Spec
SYMMETRY MCSymmetry
CHECK_DEADLOCK FALSE
INVARIANTS
  RegistryInv
  NeverMiscounted
  SummaryIsFinal
  HeadsAccounted
PROPERTIES
  ReapedOnTime
