CONSTANTS
  a1 = a1
  a2 = a2
  u1 = u1
  t1 = t1
  t2 = t2
  t3 = t3
  NoAddr = NoAddr
  Addr <- MCAll
  Tracked <- MCPair
  Task <- MCTasks3
  Capacity = 2
  MaxNonce = 3
  Permits = 1
  MaxDrift = 1
  StartNonces <- MCAtZero
  Timed = TRUE
SPECIFICATION SafeSpec
SYMMETRY MCSymmetry
INVARIANTS
  OneTaskPerAccount
  TaskHoldsHead
  NoStrandedAccount
  DrainedMeansIdle
  SenderStateOK
  HeadMatchesChain
