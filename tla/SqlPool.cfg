SPECIFICATION Spec
CONSTANTS
  c1 = c1
  x = x
  o1 = o1
  o2 = o2
  a = a
  b = b
  NULL = NULL
  Object <- Connections
  Thread <- Threads
  Client <- Clients
  Exec = x
  Statement <- Statements
  WithPercent <- Troublesome
  Rejected <- Troublesome
  MaxPoolSize = 1
  TryCount = 3
  MaxOutages = 2
INVARIANTS
  OnePlace
  DeadPoolIsEmpty
  OneRetryEach
PROPERTIES
  EventuallyRun
CHECK_DEADLOCK FALSE
