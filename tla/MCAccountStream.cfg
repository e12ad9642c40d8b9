CONSTANTS
  a1 = a1
  a2 = a2
  u1 = u1
  t1 = t1
  t2 = t2
  t3 = t3
  NoAddr = NoAddr
  Addr <- MCWithNew
  Tracked <- MCPool
  Task <- MCTasks2
  Capacity = 2
  MaxNonce = 2
  Permits = 1
  MaxDrift = 0
  StartNonces <- MCAtZero
  Timed = FALSE
SPECIFICATION Spec
PROPERTIES
  ImplementsStream
  PrewarmEnds
  ShutdownCompletes
