------------------------ MODULE WindowsHelper_proofs ------------------------
(***************************************************************************)
(* Proofs about WindowsHelper: what a session changes on the host and what *)
(* its journal holds, for every set of sessions and of faults.             *)
(***************************************************************************)
EXTENDS WindowsHelper, TLAPS

\* TypeOK in three parts, each small enough for one leaf.
FlowType ==
  /\ svc \in {"run", "stopping", "tearing", "cancelled", "down", "boot"}
  /\ pc \in {"free", "start", "rollback", "tear", "recover", "forget"}
  /\ step \in 1..8
SessType ==
  /\ sess \in [id: Sessions \cup {NoSession}, tun: BOOLEAN, dns: BOOLEAN]
  /\ active \in Sessions \cup {NoSession}
  /\ stopping \in BOOLEAN /\ errs \in BOOLEAN
HostType ==
  /\ owes \subseteq Ops
  /\ host \subseteq Changes
  /\ journal \subseteq [op: Journalled, of: Sessions]
  /\ pub \subseteq used /\ used \subseteq Sessions

\* The parts make up TypeOK.
LEMMA TypeParts == TypeOK <=> FlowType /\ SessType /\ HostType
BY DEF TypeOK, FlowType, SessType, HostType

\* How far the holder of chainMu can be.
Places ==
  /\ pc \in {"rollback", "tear"} => step <= 6
  /\ pc \in {"start", "rollback"} =>
       active = NoSession /\ sess.id \in used \ pub
  /\ pc = "tear" => active # NoSession
  /\ pc = "free" => active # NoSession \/ (sess = NoSess /\ owes = {})
  /\ pc \in {"recover", "forget"} =>
       svc = "boot" /\ active = NoSession /\ sess = NoSess /\ owes = {}
  /\ svc \in {"down", "boot"} => active = NoSession /\ sess = NoSess /\ owes = {}
  /\ svc = "down" => pc = "free"
  /\ svc = "boot" => pc \in {"recover", "forget"}
  /\ active # NoSession => active = sess.id /\ active \in pub

\* Ids are fresh: the host and the journal know drawn and published ones.
Fresh ==
  /\ \A c \in host : c.of \in used
  /\ \A c \in journal : c.of \in pub

\* What the session changed of the kinds the journal knows is on its list,
\* and a published session's list is in the journal.
Listed ==
  /\ pc # "rollback" =>
       \A c \in host : c.of = sess.id /\ c.op \in Journalled => c.op \in owes
  /\ active # NoSession => Of(owes \cap Journalled) \subseteq journal

\* What a teardown without an error has passed is off the list.
Passed ==
  pc = "tear" /\ ~errs => \A i \in 1..5 : i < step => TearOrder[i] \cap owes = {}

\* A published session's change of these kinds is in the journal, and only
\* the active session has any once the service is up.
Covered ==
  \A c \in host : c.op \in Journalled /\ c.of \in pub =>
    /\ c \in journal /\ pc # "forget"
    /\ c.of = active \/ svc \in {"down", "boot"}

Base == TypeOK /\ Places /\ Fresh /\ Listed /\ Passed
Inv == Base /\ Covered

\* The facts about the three fixed orders that the steps below use.
LEMMA Orders ==
  /\ Len(UndoOrder) = 5 /\ Len(TearOrder) = 5
  /\ StartOrder[8] = "save"
  /\ \A i \in 1..5 : UndoOrder[i] \in Ops /\ TearOrder[i] \subseteq Ops
  /\ TearOrder[2] = {"dns"} /\ TearOrder[5] = {"routes"}
BY DEF StartOrder, UndoOrder, TearOrder, Ops

\* StartChain takes chainMu for a new session.
LEMMA StartChainKeeps ==
  ASSUME NEW s \in Sessions, NEW tun \in BOOLEAN, NEW dns \in BOOLEAN, Base, StartChain(s, tun, dns)
  PROVE  Base'
<1>1. FlowType'
  BY DEF Base, FlowType, StartChain, Serving
<1>2. SessType'
  BY DEF Base, SessType, TypeOK, StartChain, fields
<1>3. HostType'
  BY DEF Base, HostType, TypeOK, StartChain
<1>4. Places'
  BY DEF Base, Places, TypeOK, StartChain, Serving, fields
<1>5. Fresh'
  BY DEF Base, Fresh, StartChain
<1>6. Listed'
  BY DEF Base, Listed, Fresh, StartChain, fields
<1>7. Passed'
  BY DEF Base, Passed, StartChain
<1>8. QED BY <1>1, <1>2, <1>3, <1>4, <1>5, <1>6, <1>7
  DEF Base, TypeOK, FlowType, SessType, HostType

\* A step of StartChain takes effect.
LEMMA StartStepKeeps ==
  ASSUME NEW o \in Ops \cup {"tun"}, Base, StartStep(o)
  PROVE  Base'
<1>1. FlowType'
  BY Orders DEF Base, FlowType, TypeOK, StartStep
<1>2. SessType'
  BY DEF Base, SessType, TypeOK, StartStep, fields
<1>3. HostType'
  <2>1. /\ owes' \subseteq owes \cup ({o} \cap Ops)
        /\ host' \subseteq host \cup Of({o} \cap Ops)
    BY DEF StartStep, Of
  <2>2. Of({o} \cap Ops) \subseteq Changes
    BY DEF StartStep, Base, TypeOK, Places, Of, Change, Changes
  <2>3. UNCHANGED <<journal, used, pub>>
    BY DEF StartStep, ids
  <2>4. QED BY <2>1, <2>2, <2>3 DEF Base, TypeOK, HostType
<1>4. Places'
  BY DEF Base, Places, StartStep, fields, ids
<1>5. Fresh'
  BY DEF Base, Fresh, Places, Of, Change, StartStep, ids
<1>6. Listed'
  <2>1. active' = NoSession
    BY DEF StartStep, Base, Places, fields
  <2>2. ASSUME NEW c \in host', c.of = sess'.id, c.op \in Journalled
        PROVE  c.op \in owes'
    <3>1. sess' = sess /\ owes \subseteq owes'
      BY DEF StartStep
    <3>2. CASE c \in host
      BY <2>2, <3>1, <3>2 DEF StartStep, Base, Listed
    <3>3. CASE c \notin host
      <4>1. o \in owes' /\ c \in Of({o})
        BY <2>2, <3>3 DEF StartStep, Of
      <4>2. QED BY <4>1 DEF Of, Change
    <3>4. QED BY <3>2, <3>3
  <2>3. QED BY <2>1, <2>2 DEF Listed
<1>7. Passed'
  BY DEF Base, Passed, StartStep
<1>8. QED BY <1>1, <1>2, <1>3, <1>4, <1>5, <1>6, <1>7
  DEF Base, TypeOK, FlowType, SessType, HostType

\* AddNrptRule fails with its rule written.
LEMMA AddNrptFailsKeeps ==
  ASSUME Base, AddNrptFails
  PROVE  Base'
<1>1. FlowType'
  BY Orders DEF Base, FlowType, TypeOK, AddNrptFails
<1>2. SessType'
  BY DEF Base, SessType, TypeOK, AddNrptFails, state, fields
<1>3. HostType'
  BY DEF Base, HostType, TypeOK, Places, Changes, Change, Of, Ops,
     AddNrptFails, state, ids
<1>4. Places'
  BY DEF Base, Places, AddNrptFails, state, fields, ids
<1>5. Fresh'
  BY DEF Base, Fresh, Places, Of, Change, AddNrptFails, ids
<1>6. Listed'
  BY DEF Base, Listed, Of, Change, Journalled, AddNrptFails, state,
     fields
<1>7. Passed'
  BY DEF Base, Passed, AddNrptFails
<1>8. QED BY <1>1, <1>2, <1>3, <1>4, <1>5, <1>6, <1>7
  DEF Base, TypeOK, FlowType, SessType, HostType

\* A step of StartChain fails and changes nothing.
LEMMA StartFailsKeeps ==
  ASSUME Base, StartFails
  PROVE  Base'
<1>1. FlowType'
  BY DEF Base, FlowType, TypeOK, StartFails
<1>2. SessType'
  BY DEF Base, SessType, TypeOK, StartFails, state, fields
<1>3. HostType'
  BY DEF Base, HostType, TypeOK, Places, Changes, Change, Of, Ops,
     StartFails, state, ids
<1>4. Places'
  BY DEF Base, Places, StartFails, state, fields, ids
<1>5. Fresh'
  BY DEF Base, Fresh, Places, Of, Change, StartFails, ids
<1>6. Listed'
  BY DEF Base, Listed, Of, StartFails, state, fields
<1>7. Passed'
  BY DEF Base, Passed, StartFails
<1>8. QED BY <1>1, <1>2, <1>3, <1>4, <1>5, <1>6, <1>7
  DEF Base, TypeOK, FlowType, SessType, HostType

\* StartChain writes the journal and publishes its session.
LEMMA SaveJournalKeeps ==
  ASSUME Base, SaveJournal
  PROVE  Base'
<1>1. FlowType'
  BY DEF Base, FlowType, TypeOK, SaveJournal, Free
<1>2. SessType'
  BY DEF Base, SessType, TypeOK, SaveJournal, state
<1>3. HostType'
  BY DEF Base, HostType, TypeOK, Places, Change, Of, SaveJournal, state
<1>4. Places'
  BY SessionAssumption DEF Base, Places, TypeOK, SaveJournal, Free,
     state
<1>5. Fresh'
  BY DEF Base, Fresh, Of, Change, SaveJournal
<1>6. Listed'
  BY DEF Base, Listed, Of, SaveJournal, state
<1>7. Passed'
  BY DEF Base, Passed, SaveJournal, Free
<1>8. QED BY <1>1, <1>2, <1>3, <1>4, <1>5, <1>6, <1>7
  DEF Base, TypeOK, FlowType, SessType, HostType

\* A step of a failed start's rollback.
LEMMA RollbackKeeps ==
  ASSUME Base, Rollback
  PROVE  Base'
<1>1. FlowType'
  BY DEF Base, FlowType, TypeOK, Places, Rollback, Free
<1>2. SessType'
  <2>1. sess' \in {sess, NoSess}
    BY DEF Rollback, Reset
  <2>2. UNCHANGED <<active, stopping, errs>>
    BY DEF Rollback, fields
  <2>3. NoSess \in [id: Sessions \cup {NoSession}, tun: BOOLEAN, dns: BOOLEAN]
    BY DEF NoSess
  <2>4. QED BY <2>1, <2>2, <2>3 DEF Base, TypeOK, SessType
<1>3. HostType'
  <2>1. owes' \subseteq owes /\ host' \subseteq host
    BY DEF Rollback, Reset
  <2>2. UNCHANGED <<journal, used, pub>>
    BY DEF Rollback, ids
  <2>3. QED BY <2>1, <2>2 DEF Base, TypeOK, HostType
<1>4. Places'
  BY Orders DEF Base, Places, TypeOK, Rollback, Reset, Free, fields, ids
<1>5. Fresh'
  BY DEF Base, Fresh, Rollback, ids
<1>6. Listed'
  BY SessionAssumption DEF Base, Listed, TypeOK, Of, Changes, Rollback,
     Reset, NoSess, fields
<1>7. Passed'
  BY DEF Base, Passed, Rollback, Reset
<1>8. QED BY <1>1, <1>2, <1>3, <1>4, <1>5, <1>6, <1>7
  DEF Base, TypeOK, FlowType, SessType, HostType

\* StopChain enters the teardown.
LEMMA StopChainKeeps ==
  ASSUME Base, StopChain
  PROVE  Base'
<1>1. FlowType'
  BY DEF Base, FlowType, StopChain, Tear, Serving
<1>2. SessType'
  BY DEF Base, SessType, TypeOK, StopChain, Tear, state
<1>3. HostType'
  BY DEF Base, HostType, TypeOK, StopChain, Tear, state, ids
<1>4. Places'
  BY DEF Base, Places, StopChain, Tear, state, ids
<1>5. Fresh'
  BY DEF Base, Fresh, StopChain, Tear, ids
<1>6. Listed'
  BY DEF Base, Listed, Of, StopChain, Tear, state
<1>7. Passed'
  BY DEF Base, Passed, StopChain, Tear
<1>8. QED BY <1>1, <1>2, <1>3, <1>4, <1>5, <1>6, <1>7
  DEF Base, TypeOK, FlowType, SessType, HostType

\* The watcher of the cores enters the teardown.
LEMMA WatchExitKeeps ==
  ASSUME Base, WatchExit
  PROVE  Base'
<1>1. FlowType'
  BY DEF Base, FlowType, WatchExit, Tear, Serving
<1>2. SessType'
  BY DEF Base, SessType, TypeOK, WatchExit, Tear, state
<1>3. HostType'
  BY DEF Base, HostType, TypeOK, WatchExit, Tear, state, ids
<1>4. Places'
  BY DEF Base, Places, WatchExit, Tear, state, ids
<1>5. Fresh'
  BY DEF Base, Fresh, WatchExit, Tear, ids
<1>6. Listed'
  BY DEF Base, Listed, Of, WatchExit, Tear, state
<1>7. Passed'
  BY DEF Base, Passed, WatchExit, Tear
<1>8. QED BY <1>1, <1>2, <1>3, <1>4, <1>5, <1>6, <1>7
  DEF Base, TypeOK, FlowType, SessType, HostType

\* A step of the teardown, done or failed.
LEMMA TearStepKeeps ==
  ASSUME Base, TearStep
  PROVE  Base'
<1>1. FlowType'
  BY DEF Base, FlowType, TypeOK, Places, TearStep
<1>2. SessType'
  BY DEF Base, SessType, TypeOK, TearStep
<1>3. HostType'
  BY DEF Base, HostType, TypeOK, TearStep, ids
<1>4. Places'
  BY Orders DEF Base, Places, TypeOK, TearStep, ids
<1>5. Fresh'
  BY DEF Base, Fresh, TearStep, ids
<1>6. Listed'
  BY DEF Base, Listed, TypeOK, Of, Change, Changes, TearStep
<1>7. Passed'
  BY DEF Base, Passed, TypeOK, TearStep
<1>8. QED BY <1>1, <1>2, <1>3, <1>4, <1>5, <1>6, <1>7
  DEF Base, TypeOK, FlowType, SessType, HostType

\* The teardown ends: the session is over, or stays for another attempt.
LEMMA TearEndKeeps ==
  ASSUME Base, TearEnd
  PROVE  Base'
<1>1. FlowType'
  BY DEF Base, FlowType, TypeOK, TearEnd, Free
<1>2. SessType'
  <2>1. sess' \in {sess, NoSess} /\ active' \in {active, NoSession}
    BY DEF TearEnd, Reset, state
  <2>2. UNCHANGED <<stopping, errs>>
    BY DEF TearEnd
  <2>3. NoSess \in [id: Sessions \cup {NoSession}, tun: BOOLEAN, dns: BOOLEAN]
    BY DEF NoSess
  <2>4. QED BY <2>1, <2>2, <2>3 DEF Base, TypeOK, SessType
<1>3. HostType'
  BY DEF Base, HostType, TypeOK, TearEnd, Reset, state, ids
<1>4. Places'
  BY DEF Base, Places, TearEnd, Reset, Free, state, ids
<1>5. Fresh'
  BY DEF Base, Fresh, TearEnd, ids
<1>6. Listed'
  BY SessionAssumption DEF Base, Listed, TypeOK, Of, Changes, TearEnd,
     Reset, NoSess, state
<1>7. Passed'
  BY DEF Base, Passed, TearEnd, Free
<1>8. QED BY <1>1, <1>2, <1>3, <1>4, <1>5, <1>6, <1>7
  DEF Base, TypeOK, FlowType, SessType, HostType

\* The service manager asks the service to stop.
LEMMA ScmStopKeeps ==
  ASSUME Base, ScmStop
  PROVE  Base'
<1>1. FlowType'
  BY DEF Base, FlowType, TypeOK, ScmStop
<1>2. SessType'
  BY DEF Base, SessType, TypeOK, ScmStop, state, fields
<1>3. HostType'
  BY DEF Base, HostType, TypeOK, ScmStop, state, ids
<1>4. Places'
  BY DEF Base, Places, ScmStop, state, fields, ids
<1>5. Fresh'
  BY DEF Base, Fresh, ScmStop, ids
<1>6. Listed'
  BY DEF Base, Listed, Of, ScmStop, state, fields
<1>7. Passed'
  BY DEF Base, Passed, ScmStop, state, fields
<1>8. QED BY <1>1, <1>2, <1>3, <1>4, <1>5, <1>6, <1>7
  DEF Base, TypeOK, FlowType, SessType, HostType

\* The stopping service tears the active session down.
LEMMA ScmTearKeeps ==
  ASSUME Base, ScmTear
  PROVE  Base'
<1>1. FlowType'
  BY DEF Base, FlowType, TypeOK, ScmTear, Tear
<1>2. SessType'
  BY DEF Base, SessType, TypeOK, ScmTear, Tear, state, fields
<1>3. HostType'
  BY DEF Base, HostType, TypeOK, ScmTear, Tear, state, ids
<1>4. Places'
  BY DEF Base, Places, ScmTear, Tear, state, fields, ids
<1>5. Fresh'
  BY DEF Base, Fresh, ScmTear, Tear, ids
<1>6. Listed'
  BY DEF Base, Listed, Of, ScmTear, Tear, state, fields
<1>7. Passed'
  BY DEF Base, Passed, ScmTear, Tear
<1>8. QED BY <1>1, <1>2, <1>3, <1>4, <1>5, <1>6, <1>7
  DEF Base, TypeOK, FlowType, SessType, HostType

\* The process is gone, and nothing was added to the host.
LEMMA DownKeeps ==
  ASSUME Base, Down /\ host' \subseteq host
  PROVE  Base'
<1>1. FlowType'
  BY DEF Base, FlowType, Down, Free
<1>2. SessType'
  BY DEF Base, SessType, NoSess, Down, Reset
<1>3. HostType'
  BY DEF Base, HostType, TypeOK, Down, Reset, ids
<1>4. Places'
  BY DEF Base, Places, Down, Reset, Free
<1>5. Fresh'
  BY DEF Base, Fresh, Down, ids
<1>6. Listed'
  BY SessionAssumption DEF Base, Listed, TypeOK, Changes, Down, Reset,
     NoSess
<1>7. Passed'
  BY DEF Base, Passed, Down, Reset
<1>8. QED BY <1>1, <1>2, <1>3, <1>4, <1>5, <1>6, <1>7
  DEF Base, TypeOK, FlowType, SessType, HostType

\* The service starts again and reads the journal.
LEMMA BootKeeps ==
  ASSUME Base, Boot
  PROVE  Base'
<1>1. FlowType'
  BY DEF Base, FlowType, TypeOK, Boot
<1>2. SessType'
  BY DEF Base, SessType, TypeOK, Boot, state, fields
<1>3. HostType'
  BY DEF Base, HostType, TypeOK, Boot, state, ids
<1>4. Places'
  BY DEF Base, Places, Boot, state, fields
<1>5. Fresh'
  BY DEF Base, Fresh, Boot, ids
<1>6. Listed'
  BY DEF Base, Listed, Places, Of, Boot, state
<1>7. Passed'
  BY DEF Base, Passed, Boot
<1>8. QED BY <1>1, <1>2, <1>3, <1>4, <1>5, <1>6, <1>7
  DEF Base, TypeOK, FlowType, SessType, HostType

\* The recovery restores an entry of the journal, or fails to.
LEMMA RecoverKeeps ==
  ASSUME Base, Recover
  PROVE  Base'
<1>1. FlowType'
  BY DEF Base, FlowType, TypeOK, Recover
<1>2. SessType'
  BY DEF Base, SessType, TypeOK, Recover, state, fields
<1>3. HostType'
  BY DEF Base, HostType, TypeOK, Recover, state, ids
<1>4. Places'
  BY DEF Base, Places, Recover, state, fields
<1>5. Fresh'
  BY DEF Base, Fresh, Recover, ids
<1>6. Listed'
  BY DEF Base, Listed, Of, Recover, state, fields
<1>7. Passed'
  BY DEF Base, Passed, Recover
<1>8. QED BY <1>1, <1>2, <1>3, <1>4, <1>5, <1>6, <1>7
  DEF Base, TypeOK, FlowType, SessType, HostType

\* The recovery empties the journal and the service serves.
LEMMA RecoverClearKeeps ==
  ASSUME Base, RecoverClear
  PROVE  Base'
<1>1. FlowType'
  BY DEF Base, FlowType, RecoverClear, Free
<1>2. SessType'
  BY DEF Base, SessType, TypeOK, RecoverClear, state, fields
<1>3. HostType'
  BY DEF Base, HostType, TypeOK, RecoverClear, state, ids
<1>4. Places'
  BY DEF Base, Places, RecoverClear, Free, state, fields
<1>5. Fresh'
  BY DEF Base, Fresh, RecoverClear, ids
<1>6. Listed'
  BY DEF Base, Listed, Places, Of, RecoverClear, state
<1>7. Passed'
  BY DEF Base, Passed, RecoverClear, Free
<1>8. QED BY <1>1, <1>2, <1>3, <1>4, <1>5, <1>6, <1>7
  DEF Base, TypeOK, FlowType, SessType, HostType

\* A core exits by itself.
LEMMA CoreExitKeeps ==
  ASSUME NEW c \in host, Base, CoreExit(c)
  PROVE  Base'
<1>1. FlowType'
  BY DEF Base, FlowType, TypeOK, CoreExit, place
<1>2. SessType'
  BY DEF Base, SessType, TypeOK, CoreExit, state, fields
<1>3. HostType'
  BY DEF Base, HostType, TypeOK, CoreExit, state, ids
<1>4. Places'
  BY DEF Base, Places, CoreExit, place, state, fields, ids
<1>5. Fresh'
  BY DEF Base, Fresh, CoreExit, ids
<1>6. Listed'
  BY DEF Base, Listed, Of, CoreExit, place, state, fields
<1>7. Passed'
  BY DEF Base, Passed, CoreExit, place, state, fields
<1>8. QED BY <1>1, <1>2, <1>3, <1>4, <1>5, <1>6, <1>7
  DEF Base, TypeOK, FlowType, SessType, HostType

\* The routes go with sing-box's interface.
LEMMA RouteLostKeeps ==
  ASSUME Base, RouteLost
  PROVE  Base'
<1>1. FlowType'
  BY DEF Base, FlowType, TypeOK, RouteLost, place
<1>2. SessType'
  BY DEF Base, SessType, TypeOK, RouteLost, state, fields
<1>3. HostType'
  BY DEF Base, HostType, TypeOK, Changes, Change, Of, RouteLost, state,
     ids
<1>4. Places'
  BY DEF Base, Places, RouteLost, place, state, fields, ids
<1>5. Fresh'
  BY DEF Base, Fresh, Of, Change, RouteLost, ids
<1>6. Listed'
  BY DEF Base, Listed, Of, Change, RouteLost, place, state, fields
<1>7. Passed'
  BY DEF Base, Passed, RouteLost, place, state, fields
<1>8. QED BY <1>1, <1>2, <1>3, <1>4, <1>5, <1>6, <1>7
  DEF Base, TypeOK, FlowType, SessType, HostType

\* A fresh host satisfies Base.
LEMMA BaseInit == Init => Base
<1> SUFFICES ASSUME Init PROVE Base
  OBVIOUS
<1>1. FlowType
  BY DEF Init, FlowType
<1>2. SessType
  BY DEF Init, SessType, NoSess
<1>3. HostType
  BY DEF Init, HostType
<1>4. Places /\ Passed
  BY DEF Init, Places, Passed
<1>5. Fresh /\ Listed
  BY DEF Init, Fresh, Listed
<1>6. QED BY <1>1, <1>2, <1>3, <1>4, <1>5, TypeParts DEF Base

\* Every step keeps Base.
LEMMA BaseStep == Base /\ [Next]_vars => Base'
<1> SUFFICES ASSUME Base, [Next]_vars PROVE Base'
  OBVIOUS
<1>1. ASSUME NEW s \in Sessions, NEW tun \in BOOLEAN, NEW dns \in Overrides,
             StartChain(s, tun, dns)
      PROVE  Base'
  BY <1>1, StartChainKeeps, OverrideAssumption
<1>2. CASE \E o \in Ops \cup {"tun"} : StartStep(o)
  BY <1>2, StartStepKeeps
<1>3. CASE AddNrptFails \/ StartFails \/ SaveJournal \/ Rollback
  BY <1>3, AddNrptFailsKeeps, StartFailsKeeps, SaveJournalKeeps, RollbackKeeps
<1>4. CASE StopChain \/ WatchExit \/ TearStep \/ TearEnd
  BY <1>4, StopChainKeeps, WatchExitKeeps, TearStepKeeps, TearEndKeeps
<1>5. CASE ScmStop \/ ScmTear
  BY <1>5, ScmStopKeeps, ScmTearKeeps
<1>6. CASE ScmExit \/ Kill \/ Reboot
  BY <1>6, DownKeeps DEF ScmExit, Kill, Reboot
<1>7. CASE Boot \/ Recover \/ RecoverClear
  BY <1>7, BootKeeps, RecoverKeeps, RecoverClearKeeps
<1>8. CASE RouteLost \/ \E c \in host : CoreExit(c)
  BY <1>8, RouteLostKeeps, CoreExitKeeps
<1>9. CASE UNCHANGED vars
  BY <1>9 DEF vars, place, state, fields, ids, Base, TypeOK, Places, Fresh, Listed,
     Passed, Of
<1>10. QED BY <1>1, <1>2, <1>3, <1>4, <1>5, <1>6, <1>7, <1>8, <1>9 DEF Next

\* The service's fields, the host and the journal hold values of their types,
\* for all sessions and all faults.
THEOREM TypeCorrect == Spec => []TypeOK
<1>1. Base => TypeOK BY DEF Base
<1>2. QED BY <1>1, BaseInit, BaseStep, PTL DEF Spec

(***************************************************************************)
(* The journal, as long as the recovery itself does not fail.              *)
(***************************************************************************)
LEMMA CoveredInit == Init => Covered
BY DEF Init, Covered

\* The journal holds changes of its kinds, of published sessions.
LEMMA JournalKinds ==
  ASSUME Base PROVE \A c \in journal : c.op \in Journalled /\ c.of \in pub
BY DEF Base, TypeOK, Fresh

\* A published session is the active one as long as the service holds it.
LEMMA HeldIsActive ==
  ASSUME Base PROVE /\ NoSession \notin pub
                    /\ sess.id \in pub => active = sess.id
                    /\ active # NoSession => active = sess.id
<1>1. NoSession \notin pub
  BY SessionAssumption DEF Base, TypeOK
<1>2. QED BY <1>1 DEF Base, TypeOK, Places, NoSess

\* While a session is being started no published one has a change left.
LEMMA StartsClean ==
  ASSUME Base, Covered, pc = "start"
  PROVE  \A c \in host : c.op \in Journalled => c.of \notin pub
BY HeldIsActive DEF Base, Covered, Places

\* Whoever frees chainMu without a session has restored what it published.
LEMMA Restored ==
  ASSUME Base, Covered, pc = "tear", step > Len(TearOrder), ~errs
  PROVE  \A c \in host : c.op \in Journalled => c.of \notin pub
<1>1. owes \cap Journalled = {}
  BY Orders DEF Base, Passed, TypeOK, Places, Journalled
<1>2. QED BY <1>1 DEF Base, Covered, Listed, Places, TypeOK

\* Which faults a behaviour has is drawn once.
LEMMA FaultsFixed == [Next]_vars => faults' = faults
BY DEF Next, vars, ids, StartChain, StartStep, AddNrptFails, StartFails, SaveJournal,
   Rollback, StopChain, WatchExit, TearStep, TearEnd, ScmStop, ScmTear, ScmExit, Kill,
   Reboot, Boot, Recover, RecoverClear, CoreExit, RouteLost, Down, Tear

\* Every step keeps Covered when no restore of the recovery fails.
LEMMA CoveredStep ==
  ASSUME "recover" \notin faults, Base, Covered, [Next]_vars
  PROVE  Covered'
<1>1. ASSUME NEW s \in Sessions, NEW tun \in BOOLEAN, NEW dns \in Overrides,
             StartChain(s, tun, dns)
      PROVE  Covered'
  BY <1>1 DEF StartChain, Covered, Serving, fields
<1>2. ASSUME NEW o \in Ops \cup {"tun"}, StartStep(o) PROVE Covered'
  <2>1. host' \subseteq host \cup Of({o})
    BY <1>2 DEF StartStep, Of
  <2>2. \A c \in Of({o}) : c.of \notin pub
    BY <1>2 DEF StartStep, Of, Change, Base, Places
  <2>3. QED BY <1>2, <2>1, <2>2 DEF StartStep, Covered, fields, ids
<1>3. CASE AddNrptFails \/ StartFails
  <2>1. host' \subseteq host \cup Of({"nrpt", "dns"})
    BY <1>3 DEF AddNrptFails, StartFails, Of
  <2>2. \A c \in Of({"nrpt", "dns"}) : c.of \notin pub
    BY <1>3 DEF AddNrptFails, StartFails, Of, Change, Base, Places
  <2>3. QED BY <1>3, <2>1, <2>2 DEF AddNrptFails, StartFails, Covered, fields, ids
<1>4. CASE SaveJournal
  <2>1. \A c \in host : c.op \in Journalled => c.of \notin pub
    BY <1>4, StartsClean DEF SaveJournal
  <2>2. ASSUME NEW c \in host, c.op \in Journalled, c.of \in pub'
        PROVE  c \in journal' /\ c.of = active'
    <3>1. c.of = sess.id
      BY <1>4, <2>1, <2>2 DEF SaveJournal
    <3>2. c.op \in owes
      BY <1>4, <2>2, <3>1 DEF SaveJournal, Base, Listed
    <3>3. c = Change(c.op, sess.id)
      BY <3>1 DEF Base, TypeOK, Changes, Change
    <3>4. QED BY <1>4, <2>2, <3>1, <3>2, <3>3 DEF SaveJournal, Of
  <2>3. QED BY <1>4, <2>2 DEF SaveJournal, Covered, Free
<1>5. CASE Rollback
  BY <1>5 DEF Rollback, Covered, Free, fields, ids
<1>6. CASE StopChain \/ WatchExit \/ ScmTear
  BY <1>6 DEF StopChain, WatchExit, ScmTear, Tear, Covered, fields, ids, Serving
<1>7. CASE TearStep
  BY <1>7 DEF TearStep, Covered, ids
<1>8. CASE TearEnd
  <2>1. UNCHANGED <<host, pub>> /\ pc' = "free"
    BY <1>8 DEF TearEnd, ids, Free
  <2>2. CASE ~errs /\ journal' = {} /\ active' = NoSession /\ Reset
    BY <1>8, <2>1, <2>2, Restored DEF TearEnd, Covered
  <2>3. CASE UNCHANGED <<journal, active, state>>
    BY <1>8, <2>1, <2>3 DEF TearEnd, Covered, Base, Places
  <2>4. QED BY <1>8, <2>2, <2>3 DEF TearEnd
<1>9. CASE ScmStop
  BY <1>9 DEF ScmStop, Covered, fields, ids
<1>10. CASE ScmExit \/ Kill \/ Reboot
  BY <1>10 DEF ScmExit, Kill, Reboot, Down, Free, Covered, ids
<1>11. CASE Boot
  BY <1>11 DEF Boot, Covered, fields, ids
<1>12. CASE Recover
  <2>1. host' = host \ journal
    BY <1>12 DEF Recover
  <2>2. QED BY <1>12, <2>1 DEF Recover, Covered, ids
<1>13. CASE RecoverClear
  BY <1>13 DEF RecoverClear, Covered, ids
<1>14. CASE \E c \in host : CoreExit(c)
  BY <1>14 DEF CoreExit, Covered, place, fields, ids
<1>15. CASE RouteLost
  <2>1. \A c \in Of({"routes"}) : c.of \in pub => c \in journal /\ c.of = active
    BY <1>15, HeldIsActive DEF RouteLost, Of, Change, Base, Listed, Journalled
  <2>2. pc # "forget"
    BY <1>15 DEF RouteLost, Base, Places
  <2>3. QED BY <1>15, <2>1, <2>2 DEF RouteLost, Covered, place, fields, ids
<1>16. CASE UNCHANGED vars
  BY <1>16 DEF vars, place, fields, ids, Covered
<1>17. QED
  BY <1>1, <1>2, <1>3, <1>4, <1>5, <1>6, <1>7, <1>8, <1>9, <1>10, <1>11, <1>12,
     <1>13, <1>14, <1>15, <1>16 DEF Next

\* A session that was reported as started leaves no DNS setting and no route
\* behind once the service is up again, wherever the process was killed, the
\* machine restarted or the service stopped, for all sessions and all faults
\* but those of the recovery.
THEOREM PublishedSessionsRecovered ==
  Spec => []PublishedRecovered
<1> DEFINE Kept == "recover" \notin faults => Covered
<1>1. Init => Kept
  BY CoveredInit
<1>2. Base /\ Kept => PublishedRecovered
  BY HeldIsActive DEF Covered, PublishedRecovered
<1>3. Kept /\ Base /\ [Next]_vars => Kept'
  BY CoveredStep, FaultsFixed
<1> HIDE DEF Kept
<1>4. QED BY <1>1, <1>2, <1>3, BaseInit, BaseStep, PTL DEF Spec

\* The journal drops a change only when it is no longer in place, with the
\* same exception.
THEOREM JournalForgetsLast == Spec => JournalClearedLast
<1> DEFINE Kept == "recover" \notin faults => Covered
<1>1. ASSUME "recover" \notin faults, Base, Covered, [Next]_vars
      PROVE  \A c \in journal \ journal' : c \notin host'
  <2>1. CASE UNCHANGED journal
    BY <2>1
  <2>2. CASE SaveJournal
    BY <1>1, <2>2, JournalKinds, StartsClean DEF SaveJournal
  <2>3. CASE TearEnd
    BY <1>1, <2>3, JournalKinds, Restored DEF TearEnd
  <2>4. CASE RecoverClear
    BY <1>1, <2>4, JournalKinds DEF RecoverClear, Covered
  <2>5. QED
    BY <1>1, <2>1, <2>2, <2>3, <2>4 DEF Next, StartChain, StartStep, AddNrptFails,
       StartFails, Rollback, StopChain, WatchExit, ScmTear, Tear, TearStep, ScmStop,
       ScmExit, Kill, Reboot, Down, Boot, Recover, CoreExit, RouteLost, vars
<1>2. Init => Kept
  BY CoveredInit
<1>3. Kept /\ Base /\ [Next]_vars => Kept'
  BY CoveredStep, FaultsFixed
<1>4. Base /\ Kept /\ [Next]_vars =>
        ["recover" \notin faults => \A c \in journal \ journal' : c \notin host']_vars
  BY <1>1
<1> HIDE DEF Kept
<1>5. QED BY <1>2, <1>3, <1>4, BaseInit, BaseStep, PTL DEF Spec, JournalClearedLast

(***************************************************************************)
(* The host, as long as the process lives and its undo steps do not lie:   *)
(* steps of a start or of a teardown may fail, nothing else does.          *)
(***************************************************************************)
\* What a rollback has passed is off the list.
Owed ==
  /\ svc = "run" /\ HostOwed
  /\ pc = "rollback" => \A i \in 1..5 : i < step => UndoOrder[i] \notin owes

\* A fresh host owes nothing.
LEMMA OwedInit == Init => Owed
BY DEF Init, Owed, HostOwed

\* Every step keeps Owed, under the section's assumption.
LEMMA OwedStep ==
  ASSUME faults \subseteq {"start", "restore"}, Base, Owed, [Next]_vars
  PROVE  Owed'
<1>1. ASSUME NEW s \in Sessions, NEW tun \in BOOLEAN, NEW dns \in Overrides,
             StartChain(s, tun, dns)
      PROVE  Owed'
  BY <1>1 DEF StartChain, Owed, HostOwed, Base, Places
<1>2. ASSUME NEW o \in Ops \cup {"tun"}, StartStep(o) PROVE Owed'
  <2>1. \A c \in host' \ host : c.of = sess.id /\ c.op \in owes'
    BY <1>2 DEF StartStep, Of, Change
  <2>2. QED BY <1>2, <2>1 DEF StartStep, Owed, HostOwed
<1>3. CASE AddNrptFails \/ StartFails
  BY <1>3 DEF AddNrptFails, StartFails, Owed, HostOwed, state, Base, TypeOK
<1>4. CASE SaveJournal
  BY <1>4 DEF SaveJournal, Owed, HostOwed, state, Free
<1>5. CASE Rollback
  <2>1. CASE step > Len(UndoOrder)
    <3>1. \A c \in host : c.op = "routes"
      <4>1. \A o \in Ops : o # "routes" => \E i \in 1..5 : o = UndoOrder[i]
        BY DEF Ops, UndoOrder
      <4>2. \A i \in 1..5 : UndoOrder[i] \notin owes
        BY <1>5, <2>1, Orders DEF Rollback, Owed, Base, TypeOK
      <4>3. QED BY <4>1, <4>2 DEF Owed, HostOwed, Base, TypeOK
    <3>2. QED BY <1>5, <2>1, <3>1 DEF Rollback, Free, Owed, HostOwed
  <2>2. CASE ~(step > Len(UndoOrder))
    <3>1. /\ UNCHANGED <<svc, sess>> /\ owes' = owes \ {UndoOrder[step]}
          /\ host' = IF UndoOrder[step] \in owes
                       THEN host \ Of({UndoOrder[step]}) ELSE host
          /\ step' = step + 1
      BY <1>5, <2>2 DEF Rollback
    <3>2. HostOwed'
      <4>1. ASSUME NEW c \in host', c.op # "routes"
            PROVE  c.of = sess'.id /\ c.op \in owes'
        <5>1. c \in host /\ c.of = sess.id /\ c.op \in owes
          BY <3>1, <4>1 DEF Owed, HostOwed
        <5>2. c = Change(c.op, sess.id)
          BY <5>1 DEF Base, TypeOK, Changes, Change
        <5>3. c.op # UndoOrder[step]
          BY <3>1, <4>1, <5>1, <5>2 DEF Of
        <5>4. QED BY <3>1, <5>1, <5>3
      <4>2. QED BY <4>1 DEF HostOwed
    <3>3. \A i \in 1..5 : i < step' => UndoOrder[i] \notin owes'
      BY <1>5, <3>1 DEF Rollback, Owed, Base, TypeOK
    <3>4. QED BY <3>1, <3>2, <3>3 DEF Owed
  <2>3. QED BY <2>1, <2>2
<1>6. CASE StopChain \/ WatchExit
  BY <1>6 DEF StopChain, WatchExit, Tear, Owed, HostOwed, state
<1>7. CASE TearStep
  <2>1. /\ UNCHANGED <<svc, sess, pc>> /\ pc = "tear"
        /\ \/ host' = host \ Of(TearOrder[step] \cap owes)
              /\ owes' = owes \ (TearOrder[step] \cap owes)
           \/ host' \subseteq host /\ UNCHANGED owes
    BY <1>7 DEF TearStep
  <2>2. ASSUME NEW c \in host', c.op # "routes"
        PROVE  c.of = sess'.id /\ c.op \in owes'
    <3>1. c \in host /\ c.of = sess.id /\ c.op \in owes
      BY <2>1, <2>2 DEF Owed, HostOwed
    <3>2. c = Change(c.op, sess.id)
      BY <3>1 DEF Base, TypeOK, Changes, Change
    <3>3. QED BY <2>1, <2>2, <3>1, <3>2 DEF Of
  <2>3. QED BY <2>1, <2>2 DEF Owed, HostOwed
<1>8. CASE TearEnd
  <2>1. UNCHANGED host /\ svc' = "run" /\ pc' = "free"
    BY <1>8 DEF TearEnd, Owed, Free
  <2>2. CASE ~errs
    <3>1. \A o \in Ops : \E i \in 1..5 : o \in TearOrder[i]
      BY DEF Ops, TearOrder
    <3>2. \A i \in 1..5 : TearOrder[i] \cap owes = {}
      BY <1>8, <2>2, Orders DEF TearEnd, Base, Passed, TypeOK
    <3>3. owes = {}
      BY <3>1, <3>2 DEF Base, TypeOK
    <3>4. QED BY <2>1, <3>3 DEF Owed, HostOwed
  <2>3. CASE errs
    BY <1>8, <2>1, <2>3 DEF TearEnd, Owed, HostOwed, state
  <2>4. QED BY <2>2, <2>3
<1>9. CASE ScmStop \/ ScmTear \/ ScmExit \/ Kill \/ Reboot \/ Boot \/ Recover \/ RecoverClear
  BY <1>9 DEF ScmStop, ScmTear, ScmExit, Kill, Reboot, Boot, Recover, RecoverClear,
     Owed, Base, Places
<1>10. CASE \E c \in host : CoreExit(c)
  BY <1>10 DEF CoreExit, Owed, HostOwed, place, state
<1>11. CASE RouteLost
  BY <1>11 DEF RouteLost, Owed, HostOwed, place, state, Of, Change
<1>12. CASE UNCHANGED vars
  BY <1>12 DEF vars, place, state, Owed, HostOwed
<1>13. QED
  BY <1>1, <1>2, <1>3, <1>4, <1>5, <1>6, <1>7, <1>8, <1>9, <1>10, <1>11, <1>12
     DEF Next

\* Every change on the host is on the list of the session that made it, when
\* steps of starts and teardowns may fail at any point but the process lives:
\* no failed start and no failed teardown loses track of what it did.
THEOREM NothingForgotten == Spec => []HostOwed
<1> DEFINE Kept == faults \subseteq {"start", "restore"} => Owed
<1>1. Init => Kept
  BY OwedInit
<1>2. Kept => HostOwed
  BY DEF Owed, HostOwed
<1>3. Kept /\ Base /\ [Next]_vars => Kept'
  BY OwedStep, FaultsFixed
<1> HIDE DEF Kept
<1>4. QED BY <1>1, <1>2, <1>3, BaseInit, BaseStep, PTL DEF Spec

(***************************************************************************)
(* The list itself: it never asks for an undo of what is no longer there.  *)
(***************************************************************************)
\* Two changes of one session are the same only when they are of one kind.
LEMMA OneKind ==
  ASSUME NEW ops, NEW o, o \notin ops
  PROVE  Change(o, sess.id) \notin Of(ops)
<1>1. ASSUME NEW p \in ops, Change(o, sess.id) = Change(p, sess.id) PROVE FALSE
  <2>1. Change(o, sess.id).op = o /\ Change(p, sess.id).op = p
    BY DEF Change
  <2> QED BY <1>1, <2>1
<1> QED BY <1>1 DEF Of

\* A session that owes nothing owes nothing unreal.
LEMMA OwesNothing == ASSUME owes' = {} PROVE OwesReal'
BY DEF OwesReal

\* Every step keeps OwesReal.
LEMMA OwesRealStep ==
  ASSUME Base, OwesReal, [Next]_vars
  PROVE  OwesReal'
<1>0. OwesReal' <=> \A o \in owes' \cap {"dns", "peer"} : Change(o, sess'.id) \in host'
  BY DEF OwesReal, Change
<1>1. ASSUME NEW s \in Sessions, NEW tun \in BOOLEAN, NEW dns \in Overrides,
             StartChain(s, tun, dns)
      PROVE  OwesReal'
  <2>1. owes' = {}
    BY <1>1 DEF StartChain, Base, Places
  <2> QED BY <2>1, OwesNothing
<1>2. ASSUME NEW o \in Ops \cup {"tun"}, StartStep(o) PROVE OwesReal'
  <2>1. /\ sess' = sess /\ host \subseteq host'
        /\ \A p \in owes' \cap {"dns", "peer"} : p \in owes \/ Change(p, sess.id) \in host'
    BY <1>2 DEF StartStep, Of, Ops
  <2> QED BY <1>0, <2>1 DEF OwesReal
<1>3. CASE AddNrptFails \/ StartFails \/ SaveJournal \/ StopChain \/ WatchExit \/ ScmStop
           \/ RouteLost \/ UNCHANGED vars
  <2>1. sess' = sess /\ owes' = owes /\ host \subseteq host'
    BY <1>3 DEF AddNrptFails, StartFails, SaveJournal, StopChain, WatchExit, ScmStop,
                RouteLost, Tear, vars, state
  <2> QED BY <1>0, <2>1 DEF OwesReal
<1>4. CASE ScmTear
  <2>1. sess' = sess /\ owes' = owes /\ host' = host
    BY <1>4 DEF ScmTear, Tear, state
  <2> QED BY <1>0, <2>1 DEF OwesReal
\* A rollback crosses off what it undoes, whether or not it succeeds.
<1>5. CASE Rollback
  <2>1. CASE step > Len(UndoOrder)
    BY <1>5, <2>1, OwesNothing DEF Rollback, Reset
  <2>2. CASE ~(step > Len(UndoOrder))
    <3>1. /\ sess' = sess /\ owes' = owes \ {UndoOrder[step]}
          /\ host' \in {host, host \ Of({UndoOrder[step]})}
      BY <1>5, <2>2 DEF Rollback
    <3>2. ASSUME NEW p \in owes' \cap {"dns", "peer"} PROVE Change(p, sess.id) \in host'
      <4>1. Change(p, sess.id) \in host /\ p \notin {UndoOrder[step]}
        BY <3>1, <3>2 DEF OwesReal
      <4>2. Change(p, sess.id) \notin Of({UndoOrder[step]})
        BY <4>1, OneKind
      <4> QED BY <3>1, <4>1, <4>2
    <3> QED BY <1>0, <3>1, <3>2
  <2> QED BY <2>1, <2>2
\* A teardown crosses off what it restores; what fails stays, but the rule.
<1>6. CASE TearStep
  <2> DEFINE ops == TearOrder[step] \cap owes
  <2>1. /\ sess' = sess
        /\ \/ host' = host \ Of(ops) /\ owes' = owes \ ops
           \/ host' = host /\ owes' = owes
           \/ "nrpt" \in ops /\ host' = host \ Of(ops) /\ owes' = owes
    BY <1>6 DEF TearStep
  <2>2. "nrpt" \in ops => ops \cap {"dns", "peer"} = {}
    <3>1. step \in 1..5
      BY <1>6, Orders DEF TearStep, Base, TypeOK
    <3> QED BY <3>1 DEF TearOrder
  <2> HIDE DEF ops
  <2>3. ASSUME NEW p \in owes' \cap {"dns", "peer"} PROVE Change(p, sess.id) \in host'
    <3>1. p \in owes /\ Change(p, sess.id) \in host
      BY <2>1, <2>3 DEF OwesReal
    <3>2. host' = host \/ p \notin ops
      BY <2>1, <2>2, <2>3
    <3>3. p \notin ops => Change(p, sess.id) \notin Of(ops)
      BY OneKind
    <3> QED BY <2>1, <3>1, <3>2, <3>3
  <2> QED BY <1>0, <2>1, <2>3
<1>7. CASE TearEnd
  BY <1>7, <1>0, OwesNothing DEF TearEnd, Reset, OwesReal, state
<1>8. CASE ScmExit \/ Kill \/ Reboot
  BY <1>8, OwesNothing DEF ScmExit, Kill, Reboot, Down, Reset
\* Nothing is held while the service boots.
<1>9. CASE Boot \/ Recover \/ RecoverClear
  <2>1. owes' = {}
    BY <1>9 DEF Boot, Recover, RecoverClear, Base, Places, state
  <2> QED BY <2>1, OwesNothing
<1>10. ASSUME NEW c \in host, CoreExit(c) PROVE OwesReal'
  <2>1. sess' = sess /\ owes' = owes /\ host' = host \ {c} /\ c.op \in Cores
    BY <1>10 DEF CoreExit, state
  <2>2. ASSUME NEW p \in owes \cap {"dns", "peer"} PROVE Change(p, sess.id) # c
    <3>1. Change(p, sess.id).op = p
      BY DEF Change
    <3> QED BY <2>1, <2>2, <3>1 DEF Cores
  <2> QED BY <1>0, <2>1, <2>2 DEF OwesReal
<1> QED BY <1>1, <1>2, <1>3, <1>4, <1>5, <1>6, <1>7, <1>8, <1>9, <1>10 DEF Next

\* Whatever fails, and wherever the process is cut off, what the list says is
\* still to be undone is in place on the host: a teardown that is repeated
\* never overwrites a DNS setting or takes away a route that it has restored.
THEOREM ListIsReal == Spec => []OwesReal
<1>1. Init => OwesReal
  BY DEF Init, OwesReal
<1>2. Base /\ OwesReal /\ [Next]_vars => OwesReal'
  BY OwesRealStep
<1> QED BY <1>1, <1>2, BaseInit, BaseStep, PTL DEF Spec
=============================================================================
