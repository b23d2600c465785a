SPECIFICATION Spec
CONSTANTS
  t1 = t1
  t2 = t2
  k1 = k1
  k2 = k2
  c1 = c1
  c2 = c2
  NULL = NULL
  Thread = {t1, t2}
  Key = {k1, k2}
  Context = {c1, c2}
  MAX_QUEUE_SIZE = 1
  MaxLength = 1
  MaxPops = 1
  MaxTroubles = 2
INVARIANTS
  TypeOK
  FaultNeedsOverlap
  RightDb
  CountIsLength
PROPERTIES
  CallsEnd
CHECK_DEADLOCK FALSE
