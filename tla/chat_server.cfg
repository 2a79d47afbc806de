SPECIFICATION Spec
CONSTANTS
  Sessions = {s1}
  MaxTexts = 2
  Signals = 1
  Protocols <- MCProtocols
  Prompts <- MCPrompts
  NoToken = NoToken
  NoMatcher = NoMatcher
  MaxText = 7
\* The server exits, and a text ends at a stop token.
CHECK_DEADLOCK FALSE
INVARIANTS RequestsEndWell GuardKeepsUp
PROPERTIES EarlyCancelHolds ShutdownCompletes ImplementsProtocol
