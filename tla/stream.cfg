SPECIFICATION Spec
CONSTANTS
  Tokens <- MCTokens
  Bytes <- MCBytes
  EosTokens <- MCEnds
  Stops <- MCStops
  MaxTokens = 5
\* The stream ends.
CHECK_DEADLOCK FALSE
INVARIANTS ShownText EndsOnce NothingLeftRunning
