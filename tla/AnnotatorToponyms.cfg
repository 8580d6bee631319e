\* A document with three mentions of a name and one request at a time, and four
\* smaller ones with two requests at once; requests fail between any two steps.
SPECIFICATION Spec
CONSTANTS
  Senders = {s1, s2}
  Mentions <- ThreeNames
  TextOf <- Texts
  Scenes <- OneOrTwoSenders
  Places = {l1, l2}
  Unlinked = Unlinked
  NoSuitable = NoSuitable
  OneSense = TRUE
  Failures = TRUE
  None = None
  same = same
  other = other
  l1 = l1
  l2 = l2
SYMMETRY SenderSymmetry
INVARIANTS
  TypeOK
  RemovalsHold
PROPERTIES
  OverlapsOnlyToRaces
  ParseComplete
  LinksSurvive
  OneSenseCompletes
CHECK_DEADLOCK FALSE
