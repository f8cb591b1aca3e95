CONSTANTS
  Numbers <- MCFewNumbers
  Signs <- MCFewSigns
  MaxTokens = 6
  Continuations = {}
SPECIFICATION Spec
CHECK_DEADLOCK FALSE
INVARIANTS
  MalformedRefused
