\* Two processes that are given one command at two commits; one of them stops.
SPECIFICATION Spec
CONSTANTS
  Runners = {r1, r2}
  Commits = {first, second}
  Dirty = Dirty
  Commands <- CommandLines
  Languages <- EnglishThenFrench
  RowsOf <- Rows
  Raw <- RawReports
  Documented <- Claims
  BatchSize <- Batches
  Absent = Absent
  Empty = Empty
  Mixed = Mixed
  None = None
  MaxEdits = 1
  MaxStops = 1
  MaxOverlaps = 1
  first = first
  second = second
INVARIANTS
  TypeOK
  ResumedLikeFresh
  TotalsOfAllSentences
  Resumable
PROPERTIES
  Finishes
CHECK_DEADLOCK FALSE
