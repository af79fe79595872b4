SPECIFICATION FairSpec
CONSTANTS
  Workers = {w1, w2}
  Servers = {s1}
  NoWorker = NoWorker
  NoServer = NoServer
  NoJob = NoJob
  FaultSets = {{"rpc", "set"}}
PROPERTIES ControllerSettles DropReported
