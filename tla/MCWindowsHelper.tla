-------------------------- MODULE MCWindowsHelper --------------------------
(* WindowsHelper for TLC: session ids are interchangeable. *)
EXTENDS WindowsHelper, TLC

Symmetry == Permutations(Sessions)
=============================================================================
