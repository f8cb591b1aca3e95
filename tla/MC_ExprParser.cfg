CONSTANTS
  Numbers <- MCNumbers
  Signs <- Binary
  MaxTokens = 8
  Continuations <- MCContinuations
SPECIFICATION Spec
CHECK_DEADLOCK FALSE
INVARIANTS
  EvaluatesRight
  RefusesHopelessOnly
  ValueIsBalanced
  MarkerAtBottom
  StackOrdered
