SPECIFICATION FairSpec
CONSTANTS
  c1 = c1
  c2 = c2
  None = None
  Calls = {1}
  Children <- MCChildren
CHECK_DEADLOCK FALSE
INVARIANTS OneBridge
PROPERTIES BridgeReturns CallsInFlightFail
