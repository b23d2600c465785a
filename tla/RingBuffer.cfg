SPECIFICATION Spec
CONSTANTS
  p1 = p1
  r1 = r1
  r2 = r2
  d1 = d1
  d2 = d2
  d3 = d3
  NULL = NULL
  Poller = {p1}
  Reader = {r1, r2}
  Dispatcher = {d1, d2, d3}
  MaxSize = 2
  MaxWrites = 3
INVARIANTS
  InOrder
  ReaderIsServed
PROPERTIES
  ImplementsFeed
  EverythingArrives
CHECK_DEADLOCK FALSE
