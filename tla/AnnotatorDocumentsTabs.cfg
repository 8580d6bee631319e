\* Two tabs on one session, one of which shows a page loaded earlier.
SPECIFICATION Spec
CONSTANTS
  Tabs = {t1, t2}
  Docs = {d1, d2, d3, d4}
  Uploads <- TwoAndOne
  Imports <- Never
  Scenes <- TextOnly
  Failures = FALSE
  None = None
  d1 = d1
  d2 = d2
  d3 = d3
  d4 = d4
  l1 = l1
  l2 = l2
  l3 = l3
  l4 = l4
SYMMETRY TabSymmetry
INVARIANTS
  RemovesIntended
CHECK_DEADLOCK FALSE
