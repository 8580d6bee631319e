\* A resolver that knows no location for a reference.
SPECIFICATION Spec
CONSTANTS
  Clients = {c1}
  Projects = {p1}
  Docs = {d1}
  HomeOf <- OneDocument
  Recognizers = {r1}
  Resolvers = {s1}
  Spans = {b1}
  Features = {f1, f2}
  Installed = {f1}
  Tags = {latest}
  Latest = latest
  Unavailable = Unavailable
  Spotted <- Finds
  Located <- Places
  None = None
  MaxRuns = 2
  p1 = p1
  d1 = d1
  d2 = d2
  r1 = r1
  s1 = s1
  f1 = f1
  f2 = f2
  b1 = b1
PROPERTIES
  EveryAttemptMarked
CHECK_DEADLOCK FALSE
