SPECIFICATION Spec
CONSTANTS
  Requests = {r1, r2, r3}
  NoRequest = NoRequest
  TextDelta = TextDelta
  NotAsked = NotAsked
  Asks <- MixedAsks
  PromptLength = 3
  ChunkSize = 2
  BatchSize = 3
SYMMETRY Symmetry
\* Every request may be over.
CHECK_DEADLOCK FALSE
INVARIANTS RowsAreOwn ProcessorsSeeAll
