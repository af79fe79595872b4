-------------------------- MODULE MCHelperRouting --------------------------
(* A small instance of HelperRouting: both platforms, three session ids     *)
(* and every combination of faults that the properties tell apart.          *)
EXTENDS HelperRouting

CONSTANTS s1, s2, s3

MCSessions == {s1, s2, s3}
MCFaultSets == {{}, {"refuse", "dirty", "restart"}, {"lost", "restart"},
                {"lost", "late"}, {"lost", "dirty", "exit"}}
=============================================================================
