CONSTANTS
  Names <- MCNames
  Openable = {"a", "b"}
  Initially <- MCInitially
  Arguments <- MCArguments
  Randoms <- MCRandoms
  Numbers <- MCNumbers
  Signs <- Binary
  Width <- MCWidth
  MaxWidth = 2
  MaxTokens = 40
  Continuations = {}
  Modulus = 64
SPECIFICATION GeneratedSpec
CHECK_DEADLOCK FALSE
INVARIANTS
  TwiceTheSize
