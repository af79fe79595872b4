SPECIFICATION HelperFairSpec
CONSTANTS
  Conns = {c1, c2}
  Sessions = {s1}
  Sig = sig
  Nobody = nobody
  NoSession = nosession
PROPERTIES DaemonSettles
CHECK_DEADLOCK FALSE
