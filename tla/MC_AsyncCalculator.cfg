CONSTANTS
  w1 = w1
  digit = digit
  Bad = Bad
  End = End
  NoWorker = NoWorker
  Workers <- MCWorkers
  Payload <- MCPayload
  Parts <- MCParts
  MaxText = 4
  MaxParts = 3
  SpawnMayFail = TRUE
SPECIFICATION FairSpec
CHECK_DEADLOCK TRUE
INVARIANTS
  TypeOK
  ResultIsWhole
  InvalidJustified
  AbortedOnlyWhenAsked
  SettledWhenReady
  AssertHolds
PROPERTIES
  Settles
  ImplementsContract
