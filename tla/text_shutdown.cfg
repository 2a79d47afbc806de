SPECIFICATION Spec
CONSTANTS
  Req = {r1}
  PromptSteps = 0
  MaxTokens = 1
  FatalErrors = FALSE
\* A kit that was shut down, or never called again, may stop.
CHECK_DEADLOCK FALSE
PROPERTIES
  ShutdownReleasesPending
