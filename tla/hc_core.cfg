SPECIFICATION StatusSpec
CONSTANTS
  Conns = {c1, c2}
  Sessions = {s1, s2}
  Sig = sig
  Nobody = nobody
  NoSession = nosession
SYMMETRY Symmetry
CHECK_DEADLOCK FALSE
INVARIANTS SessionsApart StatusTruthful
PROPERTIES TornDownForCause ServiceSpec
