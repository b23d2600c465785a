SPECIFICATION Spec
CONSTANTS
  s1 = s1
  s2 = s2
  t1 = t1
  t2 = t2
  t3 = t3
  f1 = f1
  f2 = f2
  f3 = f3
  f4 = f4
  NULL = NULL
  MaxTcpClient = 2
  Session <- TwoSessions
  Thread <- ThreeThreads
  Fd <- FourFds
  ClientTimeout = 1
  MaxBacklog = 1
  MaySignal = FALSE
SYMMETRY TcpSymmetry
INVARIANTS
  StaleOnlyAtTrace
  SocketExclusive
  NothingStray
CHECK_DEADLOCK FALSE
