CONSTANTS
  s1 = s1
  s2 = s2
  s3 = s3
  s4 = s4
  NoSession = NoSession
  Sessions <- MCSessions
  MaxSessions = 2
  Faults = {"spawn"}
SPECIFICATION FairSpec
CHECK_DEADLOCK FALSE
PROPERTIES
  KeepsAccepting
  StopEnds
  LoneClientServed
