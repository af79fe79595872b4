SPECIFICATION Spec
CONSTANTS
  Workers = {w1, w2}
  Servers = {s1}
  NoWorker = NoWorker
  NoServer = NoServer
  NoJob = NoJob
  FaultSets = {{"set", "partial", "clear", "save", "store"},
               {"rpc", "set", "dirty", "save", "store"},
               {"rpc", "set", "partial", "clear", "dirty", "exit", "late", "store"}}
SYMMETRY Symmetry
INVARIANTS OneAttempt PolledSessionRecorded NoStaleConnected IdleIsClean
PROPERTIES KillSwitchHeld
