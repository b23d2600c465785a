SPECIFICATION Spec
CONSTANTS
  t1 = t1
  t2 = t2
  e1 = e1
  e2 = e2
  d4 = d4
  l1 = l1
  l2 = l2
  d1 = d1
  d2 = d2
  d3 = d3
  g1 = g1
  g2 = g2
  NULL = NULL
  Event = {e1, e2}
  Tag = {g1, g2}
  Listener = {l1, l2}
  TagOf <- Tags
  Dispatcher = {d1, d2, d3, d4}
  Thread = {t1, t2}
INVARIANTS
  ReachedUnlessRaced
  NobodyIsSkipped
PROPERTIES
  CallsReturn
