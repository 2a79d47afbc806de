SPECIFICATION Spec
CONSTANTS
  NoReq = NoReq
  Req = {r1, r2}
  MaxSeqNums = 2
  PromptSteps = 2
  MaxTokens = 2
  MaxStoreJobs = 0
  FatalErrors = FALSE
SYMMETRY Symmetry
\* A kit that was shut down, or never called again, may stop.
CHECK_DEADLOCK FALSE
INVARIANTS StreamsAreRight RowsMatchActive NoIdleHotCache
