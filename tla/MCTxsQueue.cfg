CONSTANTS
  a1 = a1
  a2 = a2
  u1 = u1
  Addr <- MCAddr
  Tracked <- MCTracked
  Capacity = 3
  MaxNonce = 3
SPECIFICATION QueueSpec
SYMMETRY MCSymmetry
INVARIANTS
  QueueIsExact
  NoLostWakeup
