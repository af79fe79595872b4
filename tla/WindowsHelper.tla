--------------------------- MODULE WindowsHelper ---------------------------
(***************************************************************************)
(* The helper service of Windows (internal/helper/server/chain_windows.go, *)
(* cmd/itgray-helper/service_windows.go): what a chain session changes on  *)
(* the host, how StartChain rolls back, how a teardown that fails in part  *)
(* is retried, and how the undo journal is replayed after a crash.         *)
(*                                                                         *)
(* chainMu is held from the first step of StartChain, StopChain or a       *)
(* teardown to its last: pc = "free" says that it is not.  The watcher's   *)
(* two critical sections come to one condition, that the session it was    *)
(* launched for is still the active one and not stopping; HelperChain has  *)
(* them apart.  All sessions are to one server, over a network whose       *)
(* gateway may change.                                                     *)
(***************************************************************************)
EXTENDS Naturals, Sequences

CONSTANTS
  Sessions,   \* session ids; bounds the StartChain requests
  NoSession,  \* activeSess = nil
  Overrides,  \* the values of "a DNS override was asked for"
  FaultSets   \* the combinations of faults that this instance admits

\* start: a step of StartChain fails; restore: a step of a teardown fails;
\* rollback: a step of StartChain's rollback fails; half: AddNrptRule fails
\* with its rule in the registry, or dns.Set after its first address;
\* recover: a step of the recovery fails;
\* kill: the process dies; reboot: the machine restarts; stop: the service
\* is told to stop.
FaultKinds == {"start", "restore", "rollback", "half", "recover", "kill",
               "reboot", "stop"}

ASSUME SessionAssumption == NoSession \notin Sessions
ASSUME FaultAssumption == FaultSets \subseteq SUBSET FaultKinds
ASSUME OverrideAssumption == Overrides \subseteq BOOLEAN

\* What a session does to the host.  "routes": a route of the snapshot that
\* has gone; the others are there because the session put them there.
Ops == {"routes", "peer", "dns", "singbox", "xray", "nrpt"}
Change(o, s) == [op |-> o, of |-> s]
Changes == [op: Ops, of: Sessions]

VARIABLES
  svc,       \* the service process
  pc, step,  \* where the holder of chainMu is
  sess,      \* the chainState object: its id, its mode, whether it sets DNS
  owes,      \* what that object still has to undo
  active, stopping, errs,
  host,      \* the changes that are in place on the host
  journal,   \* undo.json: the changes whose prior state it holds
  used, pub, \* the session ids drawn, and those whose start succeeded
  faults     \* the faults of this behaviour; drawn once

place == <<svc, pc, step>>
state == <<sess, owes>>
fields == <<active, stopping, errs>>
ids == <<used, pub, faults>>
vars == <<place, state, fields, host, journal, ids>>

\* The order of StartChain's steps, of its rollback and of a teardown.
StartOrder == <<"routes", "peer", "dns", "singbox", "tun", "xray", "nrpt", "save">>
UndoOrder  == <<"xray", "singbox", "nrpt", "dns", "peer">>
TearOrder  == <<{"singbox", "xray"}, {"dns"}, {"nrpt"}, {"peer"}, {"routes"}>>

Cores == {"singbox", "xray"}
Journalled == {"routes", "dns"}
NoSess == [id |-> NoSession, tun |-> FALSE, dns |-> FALSE]

TypeOK ==
  /\ svc \in {"run", "stopping", "tearing", "cancelled", "down", "boot"}
  /\ pc \in {"free", "start", "rollback", "tear", "recover", "forget"}
  /\ step \in 1..8
  /\ sess \in [id: Sessions \cup {NoSession}, tun: BOOLEAN, dns: BOOLEAN]
  /\ owes \subseteq Ops
  /\ active \in Sessions \cup {NoSession}
  /\ stopping \in BOOLEAN /\ errs \in BOOLEAN
  /\ host \subseteq Changes
  /\ journal \subseteq [op: Journalled, of: Sessions]
  /\ pub \subseteq used /\ used \subseteq Sessions

Init ==
  /\ svc = "run" /\ pc = "free" /\ step = 1
  /\ sess = NoSess /\ owes = {}
  /\ active = NoSession /\ stopping = FALSE /\ errs = FALSE
  /\ host = {} /\ journal = {} /\ used = {} /\ pub = {}
  /\ faults \in FaultSets

Serving == svc \in {"run", "stopping", "tearing", "cancelled"}
Of(ops) == {Change(o, sess.id) : o \in ops}
Free == pc' = "free" /\ step' = 1

(***************************************************************************)
(* StartChain.                                                             *)
(***************************************************************************)
StartChain(s, tun, dns) ==
  /\ Serving /\ pc = "free" /\ active = NoSession /\ s \notin used
  /\ sess' = [id |-> s, tun |-> tun, dns |-> dns /\ tun]
  /\ used' = used \cup {s}
  /\ pc' = "start" /\ step' = 1
  /\ UNCHANGED <<svc, owes, fields, host, journal, pub, faults>>

\* In system-proxy mode only the cores are started.
Applies(o) ==
  CASE o \in Cores \cup {"save"} -> TRUE
    [] o = "dns" -> sess.dns
    [] OTHER     -> sess.tun

\* One step of the sequence: the snapshot of the routes is only taken, the
\* adapter of the TUN only found, everything else changes the host.
StartStep(o) ==
  /\ pc = "start" /\ o = StartOrder[step] /\ o # "save"
  /\ IF Applies(o)
       THEN /\ owes' = owes \cup ({o} \cap Ops)
            /\ host' = host \cup Of({o} \cap (Ops \ {"routes"}))
       ELSE UNCHANGED <<owes, host>>
  /\ step' = step + 1
  /\ UNCHANGED <<svc, pc, sess, fields, journal, ids>>

\* The rule for the resolver is best effort: a failure does not end the
\* start, and leaves the session without the rule's name.
AddNrptFails ==
  /\ pc = "start" /\ StartOrder[step] = "nrpt" /\ Applies("nrpt")
  /\ \/ "start" \in faults /\ UNCHANGED host
     \/ "half" \in faults /\ host' = host \cup Of({"nrpt"})
  /\ step' = step + 1
  /\ UNCHANGED <<svc, pc, state, fields, journal, ids>>

\* Adding a route that exists is an error, and a session that was cut off
\* may have left it: unless the gateway is another one by now, it is refused.
PeerLeft == StartOrder[step] = "peer" /\ \E c \in host : c.op = "peer"

StartFails ==
  /\ pc = "start" /\ StartOrder[step] # "nrpt" /\ Applies(StartOrder[step])
  /\ \/ ("start" \in faults \/ PeerLeft) /\ UNCHANGED host
     \/ /\ "half" \in faults /\ StartOrder[step] = "dns"
        /\ host' = host \cup Of({"dns"})
  /\ pc' = "rollback" /\ step' = 1
  /\ UNCHANGED <<svc, state, fields, journal, ids>>

\* The journal is written last; then the session is the active one.
SaveJournal ==
  /\ pc = "start" /\ StartOrder[step] = "save"
  /\ journal' = Of(owes \cap Journalled)
  /\ active' = sess.id /\ pub' = pub \cup {sess.id}
  /\ stopping' = FALSE
  /\ Free
  /\ UNCHANGED <<svc, state, errs, host, used, faults>>

Reset == sess' = NoSess /\ owes' = {}

\* Variant: the rollback forgets the resolver rule.
RollbackNoNrpt ==
  /\ pc = "rollback"
  /\ IF step > Len(UndoOrder)
       THEN Reset /\ Free /\ UNCHANGED host
       ELSE LET o == UndoOrder[step] IN
            /\ owes' = owes \ {o} /\ UNCHANGED sess
            /\ IF o \in owes /\ o # "nrpt" THEN host' = host \ Of({o})
                                           ELSE UNCHANGED host
            /\ step' = step + 1 /\ UNCHANGED pc
  /\ UNCHANGED <<svc, fields, journal, ids>>

\* Only what was done is undone; an undo that fails is logged and forgotten.
Rollback ==
  /\ pc = "rollback"
  /\ IF step > Len(UndoOrder)
       THEN Reset /\ Free /\ UNCHANGED host
       ELSE LET o == UndoOrder[step] IN
            /\ owes' = owes \ {o} /\ UNCHANGED sess
            /\ \/ host' = IF o \in owes THEN host \ Of({o}) ELSE host
               \/ "rollback" \in faults /\ o \notin Cores /\ UNCHANGED host
            /\ step' = step + 1 /\ UNCHANGED pc
  /\ UNCHANGED <<svc, fields, journal, ids>>

(***************************************************************************)
(* The teardown, stopActiveChainLocked, for StopChain, the watcher or the  *)
(* service control manager.                                                *)
(***************************************************************************)
Tear ==
  /\ stopping' = TRUE /\ errs' = FALSE
  /\ pc' = "tear" /\ step' = 1
  /\ UNCHANGED <<state, active, host, journal, ids>>

StopChain ==
  /\ Serving /\ pc = "free" /\ active # NoSession
  /\ Tear /\ UNCHANGED svc

WatchExit ==
  /\ Serving /\ pc = "free" /\ active # NoSession /\ ~stopping
  /\ \E o \in Cores : Change(o, active) \notin host
  /\ Tear /\ UNCHANGED svc

\* Variant: what was restored is not forgotten.
TearStepRepeats ==
  /\ pc = "tear" /\ step <= Len(TearOrder)
  /\ LET ops == TearOrder[step] \cap owes IN
     \/ host' = host \ Of(ops) /\ UNCHANGED errs
     \/ /\ ops # {} /\ ops \cap Cores = {} /\ "restore" \in faults
        /\ errs' = TRUE /\ UNCHANGED host
  /\ step' = step + 1
  /\ UNCHANGED <<svc, pc, state, active, stopping, journal, ids>>

\* Each part that succeeds is crossed off, each that fails is an error and
\* stays.  Child.Stop does not fail; RemoveNrptRule may fail with the rule
\* already gone.
TearStep ==
  /\ pc = "tear" /\ step <= Len(TearOrder)
  /\ LET ops == TearOrder[step] \cap owes IN
     \/ host' = host \ Of(ops) /\ owes' = owes \ ops /\ UNCHANGED errs
     \/ /\ ops # {} /\ ops \cap Cores = {} /\ "restore" \in faults
        /\ errs' = TRUE /\ UNCHANGED owes
        /\ \/ UNCHANGED host
           \/ "nrpt" \in ops /\ host' = host \ Of(ops)
  /\ step' = step + 1
  /\ UNCHANGED <<svc, pc, sess, active, stopping, journal, ids>>

\* Variant: the journal is cleared whatever failed.
TearEndClears ==
  /\ pc = "tear" /\ step > Len(TearOrder)
  /\ journal' = {}
  /\ IF errs THEN UNCHANGED <<active, state>> ELSE active' = NoSession /\ Reset
  /\ svc' = IF svc = "tearing" THEN "cancelled" ELSE svc
  /\ Free
  /\ UNCHANGED <<stopping, errs, host, ids>>

\* Without an error the journal is cleared and the session ends; otherwise
\* both are kept for another StopChain.
TearEnd ==
  /\ pc = "tear" /\ step > Len(TearOrder)
  /\ \/ ~errs /\ journal' = {} /\ active' = NoSession /\ Reset
     \/ (errs \/ "restore" \in faults) /\ UNCHANGED <<journal, active, state>>
  /\ svc' = IF svc = "tearing" THEN "cancelled" ELSE svc
  /\ Free
  /\ UNCHANGED <<stopping, errs, host, ids>>

(***************************************************************************)
(* The service process: Execute and recoverFromUndo.                       *)
(***************************************************************************)
ScmStop ==
  /\ svc = "run" /\ "stop" \in faults
  /\ svc' = "stopping"
  /\ UNCHANGED <<pc, step, state, fields, host, journal, ids>>

\* StopActiveChain waits for chainMu; cancel() ends the listener, not the
\* handlers that are running.
ScmTear ==
  /\ svc = "stopping" /\ pc = "free"
  /\ IF active = NoSession
       THEN /\ svc' = "cancelled"
            /\ UNCHANGED <<pc, step, state, fields, host, journal, ids>>
       ELSE svc' = "tearing" /\ Tear

\* Nothing in memory outlives the process; the cores do.
Down ==
  /\ svc' = "down" /\ Free /\ Reset
  /\ active' = NoSession /\ stopping' = FALSE /\ errs' = FALSE
  /\ UNCHANGED <<journal, ids>>

ScmExit == svc = "cancelled" /\ Down /\ UNCHANGED host

Kill == svc # "down" /\ "kill" \in faults /\ Down /\ UNCHANGED host

\* A restart of the machine ends the cores and drops routes that are not
\* persistent; DNS settings and resolver rules are in the registry.
Reboot ==
  /\ "reboot" \in faults /\ Down
  /\ host' = {c \in host : c.op \in {"dns", "nrpt"}}

\* recoverFromUndo runs before the listener does.
Boot ==
  /\ svc = "down"
  /\ svc' = "boot" /\ pc' = IF journal = {} THEN "forget" ELSE "recover"
  /\ UNCHANGED <<step, state, fields, host, journal, ids>>

\* Variant: the journal's DNS settings are not replayed.
RecoverRoutes ==
  /\ pc = "recover"
  /\ host' = {c \in host : c.op = "dns" \/ c \notin journal}
  /\ pc' = "forget"
  /\ UNCHANGED <<svc, step, state, fields, journal, ids>>

Recover ==
  /\ pc = "recover"
  /\ \E failed \in SUBSET (IF "recover" \in faults THEN journal ELSE {}) :
       host' = host \ (journal \ failed)
  /\ pc' = "forget"
  /\ UNCHANGED <<svc, step, state, fields, journal, ids>>

\* The journal is cleared whatever the recovery achieved.
RecoverClear ==
  /\ pc = "forget"
  /\ journal' = {} \/ ("recover" \in faults /\ UNCHANGED journal)
  /\ svc' = "run" /\ Free
  /\ UNCHANGED <<state, fields, host, ids>>

(***************************************************************************)
(* The host.                                                               *)
(***************************************************************************)
CoreExit(c) ==
  /\ c \in host /\ c.op \in Cores
  /\ host' = host \ {c}
  /\ UNCHANGED <<place, state, fields, journal, ids>>

\* While sing-box runs, a route of the snapshot may go.
RouteLost ==
  /\ "routes" \in owes /\ Change("singbox", sess.id) \in host
  /\ host' = host \cup Of({"routes"})
  /\ UNCHANGED <<place, state, fields, journal, ids>>

Next ==
  \/ \E s \in Sessions, tun \in BOOLEAN, dns \in Overrides : StartChain(s, tun, dns)
  \/ \E o \in Ops \cup {"tun"} : StartStep(o)
  \/ AddNrptFails \/ StartFails \/ SaveJournal \/ Rollback
  \/ StopChain \/ WatchExit \/ TearStep \/ TearEnd
  \/ ScmStop \/ ScmTear \/ ScmExit \/ Kill \/ Reboot
  \/ Boot \/ Recover \/ RecoverClear
  \/ \E c \in host : CoreExit(c)
  \/ RouteLost

Spec == Init /\ [][Next]_vars

(***************************************************************************)
(* Properties.                                                             *)
(***************************************************************************)
\* Every change on the host is on the list of the session that made it, and
\* that session is the one the service holds: a failed start takes back what
\* it did and a teardown that failed in part remembers what is left
\* (StartChain's rollback flags, stopActiveChainLocked).  Routes are left
\* out: the rollback of a start does not replay the snapshot.  The other
\* faults are out of the reach of the list.
HostOwed ==
  faults \subseteq {"start", "restore"} =>
    \A c \in host : c.op # "routes" => c.of = sess.id /\ c.op \in owes

\* A part that was restored is off the list, so that another StopChain does
\* not overwrite what the user has set since.
OwesReal == \A o \in owes \cap {"dns", "peer"} : Change(o, sess.id) \in host

\* A session that was reported as started leaves no DNS setting and no route
\* behind once the service is up again, wherever it was cut off: running,
\* in the middle of a teardown, after a teardown that failed, as long as the
\* recovery itself does not fail.
PublishedRecovered ==
  "recover" \notin faults /\ svc = "run" =>
    \A c \in host : c.op \in Journalled /\ c.of # sess.id => c.of \notin pub

\* The journal drops a change only when it is no longer in place, as long as
\* the recovery does not fail.
JournalClearedLast ==
  []["recover" \notin faults => \A c \in journal \ journal' : c \notin host']_vars

\* "Journal is one snapshot of all currently-pending Helper-side mutations."
\* TLC refutes it without any fault: the resolver rule and the peer route
\* are not in the journal.
JournalNamesPending ==
  active # NoSession => \A c \in host : c.op \in Cores \/ c \in journal

\* Once the service has stopped on request, no core is left.
NoOrphanCores ==
  svc = "down" => \A c \in host : c.op \notin Cores
=============================================================================
