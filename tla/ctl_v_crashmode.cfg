SPECIFICATION Spec
CONSTANTS
  Workers = {w1, w2}
  Servers = {s1}
  NoWorker = NoWorker
  NoServer = NoServer
  NoJob = NoJob
  FaultSets = {{"clear"}}
SYMMETRY Symmetry
INVARIANT DisconnectClearsProxy
