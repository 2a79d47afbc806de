SPECIFICATION Spec
CONSTANTS
  Req = {r1, r2}
  MaxTokens = 1
  Nobody = Nobody
SYMMETRY Interchangeable
\* Callers may stop calling.
CHECK_DEADLOCK FALSE
INVARIANTS NothingLeaks
PROPERTIES ImplementsService
