SPECIFICATION Spec
CONSTANTS
  NoReq = NoReq
  Req = {r1, r2}
  MaxSeqNums = 1
  PromptSteps = 1
  MaxTokens = 1
  MaxStoreJobs = 1
  FatalErrors = TRUE
\* A kit that was shut down, or never called again, may stop.
CHECK_DEADLOCK FALSE
INVARIANTS RequestsAccounted StoreClosedLast
PROPERTIES EveryRequestAnswered SavesAreDone NoOvertaking CancelTakesEffect ImplementsService
