SPECIFICATION MCSpec
CONSTANTS
  MinContext = 8
  Reserve = 1
  Candidates <- MCCandidates
  Chunk = 3
  Models <- MCModels
  Requests <- MCRequests
  Families <- AllFamilies
  Prompts <- AllPrompts
  Window = 4
\* A prompt is refused, or prefilled, and that is all.
CHECK_DEADLOCK FALSE
INVARIANTS SafeCuts BestCuts ArgumentsRight
PROPERTIES Prefilled
