\* Two scripts load annotation files, run another recognizer or read results
\* under one label, in a project that both open by name.
SPECIFICATION AnnotationsSpec
CONSTANTS
  Clients = {c1, c2}
  Projects = {p1, p2}
  Docs = {d1, d2}
  HomeOf <- Homes
  Recognizers = {rm, rx}
  Resolvers = {sm}
  Spans = {b1, b2}
  Features = {f1, f2}
  Installed = {f1, f2}
  Tags = {latest, gold}
  Latest = latest
  Unavailable = Unavailable
  Spotted <- Answers
  Located <- NoPlaces
  None = None
  MaxRuns = 2
  Texts = {t1, t2, r2}
  Normalized <- LineEnds
  TextOf <- DocTexts
  Files = {e1, e2, e3}
  Entries <- FileEntries
  Labels = {gold}
  RecognizerOf <- LabelRecognizer
  ResolverOf <- LabelResolver
  Scripts <- AllScripts
  c1 = c1
  c2 = c2
  p1 = p1
  p2 = p2
  d1 = d1
  d2 = d2
  t1 = t1
  t2 = t2
  r2 = r2
  rm = rm
  rx = rx
  sm = sm
  f1 = f1
  f2 = f2
  b1 = b1
  b2 = b2
  e1 = e1
  e2 = e2
  e3 = e3
  gold = gold
INVARIANTS
  ReferentsMarked
  LoadsShown
  LoadsFound
PROPERTIES
  ColumnsIndependent
CHECK_DEADLOCK FALSE
