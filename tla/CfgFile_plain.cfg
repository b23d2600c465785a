SPECIFICATION Spec
CONSTANTS
  s1 = s1
  s2 = s2
  k1 = k1
  k2 = k2
  v1 = v1
  v2 = v2
  NULL = NULL
  Section <- TwoSections
  Key <- TwoKeys
  Value <- TwoValues
  InitialFiles <- PlainFiles
  Chunk = 2
  MaxEntries = 4
INVARIANTS
  TypeOK
  SavedIsRead
PROPERTIES
  ImplementsSettings
  EditsReachTheirItem
SYMMETRY Renaming
CHECK_DEADLOCK FALSE
