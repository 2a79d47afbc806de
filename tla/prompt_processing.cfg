SPECIFICATION Spec
CONSTANTS
  Tokens = {"a", "b"}
  Prompts <- MCPrompts
  ChunkSize = 2
  Capacity = 2
  Models <- MCModels
  DraftModels = {d1, d2}
  NoDraft = NoDraft
  MaxLive = 5
  MaxTotal = 5
  MaxShown = 2
SYMMETRY Interchangeable
\* A prompt may be the last one.
CHECK_DEADLOCK FALSE
INVARIANTS CachesTrue
PROPERTIES PrefillKept ProgressTold
