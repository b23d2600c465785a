SPECIFICATION Spec
CONSTANTS
  t1 = t1
  t2 = t2
  t3 = t3
  t4 = t4
  Caller <- MCCaller
  MaxPost = 2
  MaxCount = 4
INVARIANTS
  NoLostWakeup
PROPERTY
  ImplementsCountingSemaphore
