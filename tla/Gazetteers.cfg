SPECIFICATION Spec
CHECK_DEADLOCK FALSE
SYMMETRY Symmetry
CONSTANTS
  None = None
  Builders = {b1, b2}
  Threads = {t1, t2}
  MaxBuilds = 2
  MaxOpened = 3
INVARIANTS
  TypeOK
  InstalledWhole
  AnswersCurrent
  OneArtifactPerCall
