\* Two tabs on one session, whose requests may fail between any two steps.
SPECIFICATION Spec
CONSTANTS
  Tabs = {t1, t2}
  Docs = {d1, d2, d3, d4, l1, l2, l3, l4}
  Uploads <- ThreeAndOne
  Imports <- Twice
  Scenes <- TextOrJson
  Failures = TRUE
  None = None
  d1 = d1
  d2 = d2
  d3 = d3
  d4 = d4
  l1 = l1
  l2 = l2
  l3 = l3
  l4 = l4
SYMMETRY TabSymmetry
INVARIANTS
  TypeOK
  OrderlyIndices
  LegacyImportedOnce
PROPERTIES
  OrderKept
CHECK_DEADLOCK FALSE
