SPECIFICATION Spec
CONSTANTS
  Req = {r1, r2}
  PromptSteps = 1
  MaxTokens = 2
  FatalErrors = TRUE
\* A kit that was shut down, or never called again, may stop.
CHECK_DEADLOCK FALSE
INVARIANTS RowsMatchResults StreamInOrder
PROPERTIES CallsReturn ImplementsService
