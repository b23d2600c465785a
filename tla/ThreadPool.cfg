SPECIFICATION Spec
CONSTANTS
  w1 = w1
  w2 = w2
  w3 = w3
  c1 = c1
  c2 = c2
  k1 = k1
  k2 = k2
  k3 = k3
  NoTask = NoTask
  Worker = {w1, w2, w3}
  Client = {c1, c2}
  Task = {k1, k2, k3}
INVARIANTS
  PermitAccounting
  NoEarlyExit
  DrainedWhenJoined
PROPERTIES
  ImplementsTaskExecutor
  SyncReturns
CHECK_DEADLOCK FALSE
