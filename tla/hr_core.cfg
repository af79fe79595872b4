SPECIFICATION FairSpec
CONSTANTS
  s1 = s1
  s2 = s2
  s3 = s3
  NoSession = NoSession
  Sessions <- MCSessions
  FaultSets <- MCFaultSets
  Platforms = {"linux", "windows"}
  MaxInbox = 2
CHECK_DEADLOCK FALSE
INVARIANTS TypeOK StopReaches IdleHasNoSession OneChain
PROPERTIES StopEnds
