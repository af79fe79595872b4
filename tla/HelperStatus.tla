---------------------------- MODULE HelperStatus ----------------------------
(***************************************************************************)
(* HelperChain with a history variable: the states the helper was in while *)
(* a ServiceStatus call was reading its flags.                             *)
(***************************************************************************)
EXTENDS HelperChain, TLC

VARIABLE seen

Symmetry == Permutations(Conns) \cup Permutations(Sessions)

State == IF active = NoSession THEN "down"
         ELSE IF stopping[active] THEN "dirty" ELSE "up"

InCall(c) == at[c] \in {"alive", "pending"}

StatusInit == HelperInit /\ seen = [c \in Conns |-> {}]

StatusNext ==
  /\ HelperNext
  /\ seen' = [c \in Conns |-> CASE ~InCall(c) /\ InCall(c)' -> {State'}
                                [] InCall(c) -> seen[c] \cup {State'}
                                [] ~InCall(c) /\ at'[c] = "count" -> seen[c]
                                [] OTHER -> {}]

StatusSpec == StatusInit /\ [][StatusNext]_<<helperVars, seen>>

\* How the controller reads the two flags of an answer.
Answered(c) == IF rep[c].pending THEN "dirty"
               ELSE IF rep[c].active THEN "up" ELSE "down"

\* The flags are read in two critical sections, but together they tell a
\* state the helper was in during the call: no drop is made up and no
\* incomplete cleanup is reported as a clean stop.
StatusTruthful == \A c \in Conns : at[c] = "count" => Answered(c) \in seen[c]
=============================================================================
