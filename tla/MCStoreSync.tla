---------------------------- MODULE MCStoreSync ----------------------------
(* StoreSync for TLC: the goroutines, the URLs and the connections of a     *)
(* list are interchangeable.                                                *)
EXTENDS StoreSync, TLC

Symmetry == Permutations(Procs) \cup Permutations(Urls) \cup Permutations(Keys)
=============================================================================
