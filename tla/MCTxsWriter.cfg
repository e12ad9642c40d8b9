CONSTANTS
  a1 = a1
  a2 = a2
  u1 = u1
  Addr <- MCAddr
  Tracked <- MCTracked
  Gas <- MCGas
  GasPerBlock = 3
  NumBlocks = 2
  StartHeight = 10
  MaxTxs = 6
SPECIFICATION Spec
SYMMETRY MCSymmetry
INVARIANTS
  WriterInv
  Replayable
  BlocksLimited
