CONSTANTS
  s1 = s1
  s2 = s2
  s3 = s3
  s4 = s4
  NoSession = NoSession
  Sessions <- MCSessions
  MaxSessions = 2
  Faults = {"accept", "reset", "spawn", "unruly"}
SPECIFICATION Spec
SYMMETRY Objects
CHECK_DEADLOCK FALSE
INVARIANTS
  TypeOK
  LimitKept
  OneConnectionPerSession
  ServesUntilStopped
