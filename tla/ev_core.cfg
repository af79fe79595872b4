SPECIFICATION Spec
CONSTANTS
  Buffer = 2
  MaxConcurrent = 3
  Pipe = 2
  SubIds = {"i1", "i2"}
  Urls = {"a", "b"}
  Offered <- MCOffered
  Manual = {"s1", "s2"}
  Servers = {"s1", "s2", "s3", "s4"}
  Reachable = {"s2", "s4"}
  Chunk = 3
  Cap = 3
  TailLimit = 2
  Keep = 3
  Scenarios <- MCScenarios
CHECK_DEADLOCK FALSE
INVARIANTS TypeOK NothingLeftBehind DashFollows ConnectAsAsked LogTabFaithful
PROPERTIES WorkersFollow FlowEnds
