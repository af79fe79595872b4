------------------------- MODULE MCChainController -------------------------
(* Instances of ChainController for TLC.  Goroutine slots are              *)
(* interchangeable, and so are servers; the symmetry is used by the runs   *)
(* that check safety only.                                                 *)
EXTENDS ChainController, TLC

Symmetry == Permutations(Workers) \cup Permutations(Servers)
=============================================================================
