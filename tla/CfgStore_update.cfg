SPECIFICATION Spec
CONSTANTS
  p1 = p1
  p2 = p2
  a1 = a1
  a2 = a2
  k1 = k1
  k2 = k2
  v1 = v1
  NULL = NULL
  Program <- TwoPrograms
  Actor <- TwoActors
  ProgramOf <- OneEach
  Key <- TwoKeys
  Value <- OneValue
  InitialDisks <- SomeFile
  MaxCrash = 0
PROPERTIES
  NoUpdateIsLost
