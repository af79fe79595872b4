------------------------- MODULE MCBridgeSupervisor -------------------------
(* A small instance of BridgeSupervisor: two slots for bridge processes.    *)
(* No symmetry, because the run checks liveness.                            *)
EXTENDS BridgeSupervisor, TLC

CONSTANTS c1, c2

MCChildren == {c1, c2}
=============================================================================
