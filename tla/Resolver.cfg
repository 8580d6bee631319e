SPECIFICATION Spec
CHECK_DEADLOCK FALSE
CONSTANTS
  None = None
  berns = berns
  bern = bern
  quoted = quoted
  Documents <- MCDocuments
  MaxSeqLength = 5
  Kinds <- AllKinds
  Names = {berns, bern, quoted}
  Features = {1, 2, 3}
  Normal <- MCNormal
  Trimmed <- MCTrimmed
  Scores <- MCScores
  Limit = 2
  MaxTiers = 2
  MaxVersions = 2
  Similarities <- MCSimilarities
  MinSimilarity = 1
  Prior <- MCPrior
  Shortlisted = 2
  Reranked <- MCReranked
  Batches <- MCBatches
  MaxCalls = 2
INVARIANTS
  TypeOK
  ContextsCentred
  NothingMissing
  ResultsAlone
