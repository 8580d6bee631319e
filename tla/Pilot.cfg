\* A pilot and a parse at once, with the same modules, in one database.
SPECIFICATION PilotSpec
CONSTANTS
  Clients = {c1, c2}
  Projects = {p1, p2}
  Docs = {d1, d2, d3}
  HomeOf <- Homes
  Recognizers = {r1}
  Resolvers = {s1}
  Spans = {b1, b2}
  Features = {f1, f2}
  Installed = {f1, f2}
  Tags = {latest}
  Latest = latest
  Unavailable = Unavailable
  Spotted <- Answers
  Located <- Places
  None = None
  MaxRuns = 2
  Pilots = {c1}
  Cases = {d1, d2}
  Gold <- GoldStandard
  NoPlace = None
  PointOf <- Points
  Km <- Distances
  UnresolvedKm = 4
  MaxErrorKm = 4
  ThresholdKm = 1
  Log <- Logarithm
  c1 = c1
  p1 = p1
  p2 = p2
  d1 = d1
  d2 = d2
  d3 = d3
  r1 = r1
  s1 = s1
  f1 = f1
  f2 = f2
  b1 = b1
  b2 = b2
  x1 = x1
  x2 = x2
INVARIANTS
  ParsesDisjoint
  AggregateOfDocuments
  SilenceNeverPays
PROPERTIES
  ImplementsStatelessParse
  ResultsPersist
CHECK_DEADLOCK FALSE
