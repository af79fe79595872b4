SPECIFICATION Spec
CONSTANTS
  Sessions = {s1, s2}
  NoSession = nosession
  Overrides = {TRUE, FALSE}
  FaultSets = {{"start", "restore"},
               {"start", "restore", "rollback", "half", "kill", "reboot", "stop"},
               {"start", "restore", "recover", "kill", "reboot"}}
SYMMETRY Symmetry
CHECK_DEADLOCK FALSE
INVARIANTS HostOwed OwesReal PublishedRecovered
