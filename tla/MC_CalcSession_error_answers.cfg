CONSTANTS
  w1 = w1
  w2 = w2
  digit = digit
  cr = cr
  Bad = Bad
  End = End
  NoWorker = NoWorker
  CarriageReturn = cr
  Workers <- MCWorkers
  Payload <- MCPayload
  Parts <- MCParts
  MaxText = 6
  MaxParts = 6
  SpawnMayFail = FALSE
  BufferSize = 2
  Scripts <- Erroneous
  Faults = {}
SPECIFICATION SessionSpec
CHECK_DEADLOCK FALSE
INVARIANTS
  AnswersRight
