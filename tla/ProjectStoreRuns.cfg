\* Two clients run a recognizer and a resolver, each twice, on the two documents
\* of one project that may be deleted under them.
SPECIFICATION Spec
CONSTANTS
  Clients = {c1, c2}
  Projects = {p1}
  Docs = {d1, d2}
  HomeOf <- OneProject
  Recognizers = {r1}
  Resolvers = {s1}
  Spans = {b1}
  Features = {f1, f2}
  Installed = {f1}
  Tags = {latest}
  Latest = latest
  Unavailable = Unavailable
  Spotted <- Answers
  Located <- SurePlaces
  None = None
  MaxRuns = 2
  p1 = p1
  d1 = d1
  d2 = d2
  r1 = r1
  s1 = s1
  f1 = f1
  f2 = f2
  b1 = b1
SYMMETRY ClientSymmetry
INVARIANTS
  TypeOK
  RowsAnchored
  ReferencesMarked
  ProcessedOnce
  ProcessedBeforeTagging
CHECK_DEADLOCK FALSE
