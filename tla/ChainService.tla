---------------------------- MODULE ChainService ----------------------------
(***************************************************************************)
(* What the helper promises its callers about the one chain it can hold:   *)
(* the view the controller has of it through StartChain, StopChain and     *)
(* ServiceStatus.  A session starts only when there is none, under an id   *)
(* that no earlier session had; it ends, or it stays with its cleanup      *)
(* incomplete until that is finished.  It never comes back.                *)
(***************************************************************************)
CONSTANTS Sessions, NoSession

VARIABLES
  sess,   \* the session the helper holds
  state,  \* what ServiceStatus says of it
  past    \* the sessions that have ended

States == {"down", "up", "dirty"}

Init == sess = NoSession /\ state = "down" /\ past = {}

Started(s) ==
  /\ state = "down" /\ s \notin past
  /\ sess' = s /\ state' = "up"
  /\ UNCHANGED past

Ended ==
  /\ state # "down"
  /\ sess' = NoSession /\ state' = "down"
  /\ past' = past \cup {sess}

\* A teardown that could not finish; the session is refused to newcomers
\* until a later teardown does.
Incomplete ==
  /\ state = "up"
  /\ state' = "dirty"
  /\ UNCHANGED <<sess, past>>

Next == (\E s \in Sessions : Started(s)) \/ Ended \/ Incomplete

Spec == Init /\ [][Next]_<<sess, state, past>>
=============================================================================
