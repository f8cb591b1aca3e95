CONSTANTS
  w1 = w1
  w2 = w2
  digit = digit
  cr = cr
  Bad = Bad
  End = End
  NoWorker = NoWorker
  CarriageReturn = cr
  Workers <- MCWorkers
  Payload <- MCPayload
  Parts <- MCParts
  MaxText = 6
  MaxParts = 6
  SpawnMayFail = TRUE
  BufferSize = 2
  Scripts <- AnyRequest
  Faults = {"stop", "reset"}
SPECIFICATION SessionSpec
SYMMETRY Threads
CHECK_DEADLOCK FALSE
INVARIANTS
  SessionTypeOK
  NoStrayThread
  RunningIsWorked
