SPECIFICATION Spec
CONSTANTS
  Req = {r1}
  MaxTokens = 3
  Nobody = Nobody
\* Callers may stop calling.
CHECK_DEADLOCK FALSE
PROPERTIES
  CallersReleased
