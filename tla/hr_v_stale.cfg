SPECIFICATION Spec
CONSTANTS
  s1 = s1
  s2 = s2
  s3 = s3
  NoSession = NoSession
  Sessions <- MCSessions
  FaultSets = {{}}
  Platforms = {"linux"}
  MaxInbox = 2
INVARIANTS
  CancelledStopReaches
CHECK_DEADLOCK FALSE
