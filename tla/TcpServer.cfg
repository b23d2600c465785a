SPECIFICATION Spec
CONSTANTS
  p1 = p1
  p2 = p2
  s1 = s1
  s2 = s2
  MAIN = MAIN
  NULL = NULL
  Poller = {p1, p2}
  Primary = p1
  Session = {s1, s2}
INVARIANTS
  RemovalIsAlone
PROPERTIES
  ToldBeforeItLeaves
  ManagedWhileServed
  EverythingEnds
CHECK_DEADLOCK FALSE
