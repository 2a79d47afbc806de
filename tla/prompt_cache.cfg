SPECIFICATION Spec
CONSTANTS
  ChunkSize = 2
  Workloads <- MCWorkloads
  Window = 3
  Size <- UnitSize
  FinalBudgets = {0, 3}
  Prompt <- MCPrompts
  Ids <- MCIds
  Spans <- MCSpans
  ImageToken = "i"
  Key = {k1, k2, k3}
  MaxLength = 4
\* Both stores stop once they are closed.
CHECK_DEADLOCK FALSE
INVARIANTS StoreConsistent RestoresLongest RestoredPrefixMatches FileTiled
PROPERTIES CommitKeepsPrefix ImplementsMap
