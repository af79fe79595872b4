--------------------------- MODULE MCHelperChain ---------------------------
(* HelperChain for TLC: connections and session ids are interchangeable. *)
EXTENDS HelperChain, TLC

Symmetry == Permutations(Conns) \cup Permutations(Sessions)
=============================================================================
