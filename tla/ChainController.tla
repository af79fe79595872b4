-------------------------- MODULE ChainController --------------------------
(***************************************************************************)
(* The connection controller of the bridge process (internal/chainctl):    *)
(* Controller.Start, Stop and Reconcile, the goroutine each connect        *)
(* attempt runs in (bringUp, then the one-second poller) and what they     *)
(* share: the controller's fields, last-session.json, the OS system proxy  *)
(* and the one chain session of the helper service.                        *)
(*                                                                         *)
(* opMu serialises Start, Stop and Reconcile, so their program counter is  *)
(* the single opPc.  mu guards the fields: every critical section of the   *)
(* code is one step, and what happens between two critical sections is     *)
(* another.  A goroutine is a member of Workers; wg.Wait waits for all of  *)
(* them to be idle.  The granular helper calls (TunCreate, RouteAdd,       *)
(* DnsSet, ...) change nothing in either adapter: they only can fail.      *)
(***************************************************************************)
EXTENDS Naturals, FiniteSets

CONSTANTS
  Workers,   \* goroutine slots; bounds the attempts alive at one time
  Servers,   \* server ids of servers.json
  NoWorker,  \* c.cancel = nil
  NoServer,  \* c.current = nil
  NoJob,     \* no session record, no chain
  FaultSets  \* the combinations of faults that this instance admits

\* rpc: a helper call fails or its reply is lost; set, partial, clear: the
\* registry refuses, before or after ProxyEnable is written; dirty: the
\* helper's cleanup is incomplete; save: the session file cannot be written;
\* exit: the bridge dies; late: a cancelled StartChain is still in the
\* helper's hands; store: servers.json changes.
FaultKinds == {"rpc", "set", "partial", "clear", "dirty", "save", "exit",
               "late", "store"}

Modes == {"tun", "sysproxy"}
NoMode == ""
Jobs == [srv: Servers, mode: Modes]

ASSUME NullAssumption ==
  /\ NoWorker \notin Workers
  /\ NoServer \notin Servers
  /\ NoJob \notin Jobs
ASSUME FaultAssumption == FaultSets \subseteq SUBSET FaultKinds

VARIABLES
  \* Controller fields, guarded by mu
  cancel,          \* the goroutine whose context c.cancel cancels
  current, mode, cleanupPending, cleanupMode,
  \* the holder of opMu and its locals
  opPc, loc,
  \* the goroutines: program counter, context, attempt, status to publish,
  \* and the StartChain request each has with the helper
  pc, ctx, job, out, req,
  \* what the renderer was last told, and what outlives the bridge
  ui, session, store, proxy, chain, dirty, late,
  \* the faults of this behaviour; drawn once
  faults

ctrl == <<cancel, current, mode, cleanupPending, cleanupMode>>
opv  == <<opPc, loc>>
gor  == <<pc, ctx, job, out, req>>
disk == <<session, store>>
host == <<proxy, chain, dirty, late>>
vars == <<ctrl, opv, gor, ui, disk, host, faults>>

Statuses == {"idle", "connecting", "connected", "disconnecting", "error"}

\* Where a goroutine can be.  The first group is bringUp, the second what
\* Start's closure does with its result, the third the poller.
BringUpPcs == {"build", "call", "await", "apply", "undoStop", "undoProxy"}
SettlePcs  == {"failed", "failLock", "done", "commit", "clearOld", "settle",
               "save", "publish"}
PollPcs    == {"poll", "crash", "crashClear", "crashStop", "crashLock"}
Pcs        == {"idle", "spawn", "report"} \cup BringUpPcs \cup SettlePcs \cup PollPcs

OpPcs == {"boot", "decide", "adopt", "free", "wait", "launch",
          "cancel", "disc", "join", "tearClear", "tearStop", "tearPrev",
          "stopLock", "forget"}

Locs == [target: Workers \cup {NoWorker}, pending: BOOLEAN,
         prev: Modes \cup {NoMode}, mode: Modes \cup {NoMode},
         res: {"idle", "error"}, job: Jobs \cup {NoJob},
         st: {"down", "up", "dirty", "err"}]
NoLoc == [target |-> NoWorker, pending |-> FALSE, prev |-> NoMode,
          mode |-> NoMode, res |-> "idle", job |-> NoJob, st |-> "down"]

(***************************************************************************)
(* The outside world as the controller sees it.                            *)
(***************************************************************************)
Running == chain # NoJob /\ ~dirty

\* What ServiceStatus reports of the session the helper holds.
ServiceStatus == IF dirty THEN "dirty" ELSE IF Running THEN "up" ELSE "down"

\* clearSysproxyBestEffort: Clear, then IsSet.  Clear swallows a failed
\* registry write (the proxy stays as it was and IsSet tells) and reports a
\* failed WinINet notification (the proxy is off all the same).
ClearSysproxy(err) ==
  \/ ~err /\ proxy' = "off"
  \/ err /\ "clear" \in faults /\ proxy' \in {"off", proxy}

\* Helper.StopChain: the session ends, or stays with its cleanup incomplete;
\* a failed call may or may not have been executed.  In TUN mode tearDown
\* joins the errors of DnsRestore, RouteRestore and TunDestroy to it.
StopChain(mayFail, err) ==
  \/ ~err /\ chain' = NoJob /\ dirty' = FALSE
  \/ err /\ "dirty" \in faults /\ chain # NoJob /\ dirty' = TRUE /\ UNCHANGED chain
  \/ err /\ mayFail /\ UNCHANGED <<chain, dirty>>
  \/ err /\ mayFail /\ chain' = NoJob /\ dirty' = FALSE

\* sysproxy.Set writes ProxyEnable first and forces it back off when a later
\* write fails, which can fail too.  ErrNotifyOnly counts as success.
SetSysproxy(err) ==
  \/ ~err /\ proxy' = "on"
  \/ err /\ "set" \in faults /\ proxy' \in {proxy, "off"}
  \/ err /\ "partial" \in faults /\ proxy' = "on"

CallFails(w) == "rpc" \in faults \/ ctx[w] = "done"

Init ==
  /\ cancel = NoWorker /\ current = NoServer /\ mode = NoMode
  /\ cleanupPending = FALSE /\ cleanupMode = NoMode
  /\ opPc = "boot" /\ loc = NoLoc
  /\ pc = [w \in Workers |-> "idle"]
  /\ ctx = [w \in Workers |-> "done"]
  /\ job = [w \in Workers |-> NoJob]
  /\ out = [w \in Workers |-> "idle"]
  /\ req = [w \in Workers |-> "none"]
  /\ ui = "idle"
  /\ session = NoJob /\ store = Servers
  /\ proxy = "off" /\ chain = NoJob /\ dirty = FALSE /\ late = {}
  /\ faults \in FaultSets

(***************************************************************************)
(* Start.                                                                  *)
(***************************************************************************)
Goto(w, l) == pc' = [pc EXCEPT ![w] = l]

\* The critical section that claims the controller for a new attempt.
Claim(w, s, m) ==
  /\ pc[w] = "idle"
  /\ cancel' = w /\ current' = s /\ mode' = m
  /\ Goto(w, "spawn")
  /\ ctx' = [ctx EXCEPT ![w] = "live"]
  /\ job' = [job EXCEPT ![w] = [srv |-> s, mode |-> m]]
  /\ loc' = [NoLoc EXCEPT !.target = w]
  /\ UNCHANGED <<cleanupPending, cleanupMode, out, req>>

\* With a cleanup outstanding Start lets go of mu and waits for wg first.
Start(s, m) ==
  /\ opPc = "free" /\ cancel = NoWorker /\ s \in store
  /\ \/ /\ ~cleanupPending
        /\ opPc' = "launch"
        /\ \E w \in Workers : Claim(w, s, m)
     \/ /\ cleanupPending
        /\ opPc' = "wait"
        /\ loc' = [NoLoc EXCEPT !.job = [srv |-> s, mode |-> m]]
        /\ UNCHANGED <<ctrl, gor>>
  /\ UNCHANGED <<ui, disk, host, faults>>

Joined == \A w \in Workers : pc[w] = "idle"

StartJoined ==
  /\ opPc = "wait" /\ Joined
  /\ opPc' = "launch"
  /\ \E w \in Workers : Claim(w, loc.job.srv, loc.job.mode)
  /\ UNCHANGED <<ui, disk, host, faults>>

\* "connecting" is published before the goroutine is launched.
StartPublish ==
  /\ opPc = "launch"
  /\ ui' = "connecting"
  /\ Goto(loc.target, "build")
  /\ opPc' = "free" /\ loc' = NoLoc
  /\ UNCHANGED <<ctrl, ctx, job, out, req, disk, host, faults>>

(***************************************************************************)
(* bringUp, step by step.                                                  *)
(***************************************************************************)
\* Network(), BuildConfigs and, in TUN mode, RouteSnapshot and TunCreate.
Build(w) ==
  /\ pc[w] = "build"
  /\ \E l \in {"call", "failed"} : Goto(w, l)
  /\ UNCHANGED <<ctrl, opv, ctx, job, out, req, ui, disk, host, faults>>

\* client.Call refuses a context that is already cancelled.
StartChainCall(w) ==
  /\ pc[w] = "call"
  /\ IF ctx[w] = "done"
       THEN Goto(w, "failed") /\ UNCHANGED req
       ELSE Goto(w, "await") /\ req' = [req EXCEPT ![w] = "sent"]
  /\ UNCHANGED <<ctrl, opv, ctx, job, out, ui, disk, host, faults>>

\* Variant: a request that meets another session gets no answer.
HelperStartChainSilent(w) ==
  /\ req[w] = "sent" /\ chain = NoJob
  /\ chain' = job[w]
  /\ req' = [req EXCEPT ![w] = "ok"]
  /\ UNCHANGED <<ctrl, opv, pc, ctx, job, out, ui, disk, proxy, dirty, late, faults>>

\* The helper executes a request: a second session is refused, and a start
\* that fails is rolled back.
HelperStartChain(w) ==
  /\ req[w] = "sent"
  /\ \/ /\ chain = NoJob /\ chain' = job[w]
        /\ req' = [req EXCEPT ![w] = "ok"]
     \/ /\ req' = [req EXCEPT ![w] = "err"]
        /\ UNCHANGED chain
  /\ UNCHANGED <<ctrl, opv, pc, ctx, job, out, ui, disk, proxy, dirty, late, faults>>

StartChainReply(w) ==
  /\ pc[w] = "await" /\ req[w] \in {"ok", "err"} /\ ctx[w] = "live"
  /\ \/ req[w] = "ok" /\ Goto(w, "apply")
     \/ (req[w] = "err" \/ "rpc" \in faults) /\ Goto(w, "failed")
  /\ req' = [req EXCEPT ![w] = "none"]
  /\ UNCHANGED <<ctrl, opv, ctx, job, out, ui, disk, host, faults>>

\* Cancelling the context closes the connection and discards any reply.  A
\* request the helper has not begun stays in its hands.
StartChainCancelled(w) ==
  /\ pc[w] = "await" /\ ctx[w] = "done"
  /\ req[w] # "sent" \/ "late" \in faults
  /\ late' = IF req[w] = "sent" THEN late \cup {job[w]} ELSE late
  /\ req' = [req EXCEPT ![w] = "none"]
  /\ Goto(w, "failed")
  /\ UNCHANGED <<ctrl, opv, ctx, job, out, ui, disk, proxy, chain, dirty, faults>>

\* After StartChain: RouteAdd and DnsSet, or the system proxy; then c.mode.
Apply(w) ==
  /\ pc[w] = "apply"
  /\ \/ /\ job[w].mode = "tun"
        /\ \/ Goto(w, "done") /\ mode' = job[w].mode
           \/ "rpc" \in faults /\ Goto(w, "undoStop") /\ UNCHANGED mode
        /\ UNCHANGED proxy
     \/ /\ job[w].mode = "sysproxy"
        /\ \/ SetSysproxy(FALSE) /\ Goto(w, "done") /\ mode' = job[w].mode
           \/ SetSysproxy(TRUE) /\ Goto(w, "undoStop") /\ UNCHANGED mode
  /\ UNCHANGED <<cancel, current, cleanupPending, cleanupMode, opv,
                 ctx, job, out, req, ui, disk, chain, dirty, late, faults>>

\* Variant: the rollback leaves the chain up.
UndoStopSkipped(w) ==
  /\ pc[w] = "undoStop"
  /\ Goto(w, IF job[w].mode = "sysproxy" THEN "undoProxy" ELSE "failed")
  /\ UNCHANGED <<ctrl, opv, ctx, job, out, req, ui, disk, host, faults>>

\* The rollback's StopChain; its error is only logged.
UndoStop(w) ==
  /\ pc[w] = "undoStop"
  /\ \E err \in BOOLEAN : StopChain(CallFails(w), err)
  /\ Goto(w, IF job[w].mode = "sysproxy" THEN "undoProxy" ELSE "failed")
  /\ UNCHANGED <<ctrl, opv, ctx, job, out, req, ui, disk, proxy, late, faults>>

\* Variant: the rollback without its look at cleanupPending.
UndoProxyUnguarded(w) ==
  /\ pc[w] = "undoProxy"
  /\ \E err \in BOOLEAN : ClearSysproxy(err)
  /\ Goto(w, "failed")
  /\ UNCHANGED <<ctrl, opv, ctx, job, out, req, ui, disk, chain, dirty, late, faults>>

\* The proxy a crash left in place on purpose is not cleared by a failed retry.
UndoProxy(w) ==
  /\ pc[w] = "undoProxy"
  /\ IF cleanupPending THEN UNCHANGED proxy
                       ELSE \E err \in BOOLEAN : ClearSysproxy(err)
  /\ Goto(w, "failed")
  /\ UNCHANGED <<ctrl, opv, ctx, job, out, req, ui, disk, chain, dirty, late, faults>>

(***************************************************************************)
(* What Start's goroutine does with the result of bringUp.                 *)
(***************************************************************************)
\* stolen: Stop cancelled the context, so the goroutine says nothing.
BringUpFailed(w) ==
  /\ pc[w] = "failed"
  /\ Goto(w, IF ctx[w] = "done" THEN "idle" ELSE "failLock")
  /\ UNCHANGED <<ctrl, opv, ctx, job, out, req, ui, disk, host, faults>>

\* cancel() has no observer left here: every call of bringUp has returned.
FailLock(w) ==
  /\ pc[w] = "failLock"
  /\ ctx' = [ctx EXCEPT ![w] = "done"]
  /\ cancel' = NoWorker /\ current' = NoServer
  /\ out' = [out EXCEPT ![w] = IF cleanupPending THEN "error" ELSE "idle"]
  /\ Goto(w, "report")
  /\ UNCHANGED <<mode, cleanupPending, cleanupMode, opv, job, req, ui, disk,
                 host, faults>>

\* The last status a goroutine publishes before it returns.
Report(w) ==
  /\ pc[w] = "report"
  /\ ui' = out[w]
  /\ Goto(w, "idle")
  /\ UNCHANGED <<ctrl, opv, ctx, job, out, req, disk, host, faults>>

BringUpDone(w) ==
  /\ pc[w] = "done"
  /\ Goto(w, IF ctx[w] = "done" THEN "idle" ELSE "commit")
  /\ UNCHANGED <<ctrl, opv, ctx, job, out, req, ui, disk, host, faults>>

Commit(w) ==
  /\ pc[w] = "commit"
  /\ Goto(w, IF /\ cleanupPending /\ cleanupMode = "sysproxy"
                /\ job[w].mode # "sysproxy" THEN "clearOld" ELSE "settle")
  /\ UNCHANGED <<ctrl, opv, ctx, job, out, req, ui, disk, host, faults>>

ClearOld(w) ==
  /\ pc[w] = "clearOld"
  /\ \/ ClearSysproxy(FALSE) /\ Goto(w, "settle")
     \/ ClearSysproxy(TRUE) /\ Goto(w, "save")
  /\ UNCHANGED <<ctrl, opv, ctx, job, out, req, ui, disk, chain, dirty, late, faults>>

Settle(w) ==
  /\ pc[w] = "settle"
  /\ cleanupPending' = FALSE
  /\ Goto(w, "save")
  /\ UNCHANGED <<cancel, current, mode, cleanupMode, opv, ctx, job, out, req,
                 ui, disk, host, faults>>

\* A session file that cannot be written is only logged.
SaveSession(w) ==
  /\ pc[w] = "save"
  /\ session' = job[w] \/ ("save" \in faults /\ UNCHANGED session)
  /\ Goto(w, "publish")
  /\ UNCHANGED <<ctrl, opv, ctx, job, out, req, ui, store, host, faults>>

PublishConnected(w) ==
  /\ pc[w] = "publish"
  /\ ui' = "connected"
  /\ Goto(w, "poll")
  /\ UNCHANGED <<ctrl, opv, ctx, job, out, req, disk, host, faults>>

(***************************************************************************)
(* The poller.  A tick that finds the chain running, or whose ServiceStatus *)
(* fails, changes none of this state.                                      *)
(***************************************************************************)
PollReturn(w) ==
  /\ pc[w] = "poll" /\ ctx[w] = "done"
  /\ Goto(w, "idle")
  /\ UNCHANGED <<ctrl, opv, ctx, job, out, req, ui, disk, host, faults>>

\* Variant: only a session whose cleanup is incomplete counts as dropped.
PollDropDirtyOnly(w) ==
  /\ pc[w] = "poll" /\ ctx[w] = "live" /\ dirty
  /\ Goto(w, "crash")
  /\ UNCHANGED <<ctrl, opv, ctx, job, out, req, ui, disk, host, faults>>

PollDrop(w) ==
  /\ pc[w] = "poll" /\ ctx[w] = "live" /\ ~Running
  /\ Goto(w, "crash")
  /\ UNCHANGED <<ctrl, opv, ctx, job, out, req, ui, disk, host, faults>>

\* Stop took the controller while the drop was being handled.
CrashStolen(w) ==
  /\ pc[w] = "crash" /\ (ctx[w] = "done" \/ cancel = NoWorker)
  /\ Goto(w, "idle")
  /\ UNCHANGED <<ctrl, opv, ctx, job, out, req, ui, disk, host, faults>>

\* Kill switch on, or not readable: everything stays, the cleanup is owed.
CrashBlock(w) ==
  /\ pc[w] = "crash" /\ ctx[w] = "live" /\ cancel # NoWorker
  /\ ctx' = [ctx EXCEPT ![cancel] = "done"]
  /\ cancel' = NoWorker /\ current' = NoServer
  /\ cleanupPending' = TRUE /\ cleanupMode' = mode
  /\ out' = [out EXCEPT ![w] = "error"]
  /\ Goto(w, "report")
  /\ UNCHANGED <<mode, opv, job, req, ui, disk, host, faults>>

\* Kill switch off: the poller tears the chain down itself.
CrashDirect(w) ==
  /\ pc[w] = "crash" /\ ctx[w] = "live" /\ cancel # NoWorker
  /\ current' = NoServer
  /\ job' = [job EXCEPT ![w].mode = mode]
  /\ out' = [out EXCEPT ![w] = "idle"]
  /\ Goto(w, IF mode = "sysproxy" THEN "crashClear" ELSE "crashStop")
  /\ UNCHANGED <<cancel, mode, cleanupPending, cleanupMode, opv, ctx, req,
                 ui, disk, host, faults>>

CrashClear(w) ==
  /\ pc[w] = "crashClear"
  /\ \/ ClearSysproxy(FALSE) /\ UNCHANGED out
     \/ ClearSysproxy(TRUE) /\ out' = [out EXCEPT ![w] = "error"]
  /\ Goto(w, "crashStop")
  /\ UNCHANGED <<ctrl, opv, ctx, job, req, ui, disk, chain, dirty, late, faults>>

CrashStop(w) ==
  /\ pc[w] = "crashStop"
  /\ \/ StopChain(CallFails(w), FALSE) /\ UNCHANGED out
     \/ StopChain(CallFails(w), TRUE) /\ out' = [out EXCEPT ![w] = "error"]
  /\ Goto(w, "crashLock")
  /\ UNCHANGED <<ctrl, opv, ctx, job, req, ui, disk, proxy, late, faults>>

CrashLock(w) ==
  /\ pc[w] = "crashLock"
  /\ IF out[w] = "error"
       THEN cleanupPending' = TRUE /\ cleanupMode' = job[w].mode
       ELSE UNCHANGED <<cleanupPending, cleanupMode>>
  /\ ctx' = [v \in Workers |-> IF v = cancel THEN "done" ELSE ctx[v]]
  /\ cancel' = NoWorker
  /\ Goto(w, "report")
  /\ UNCHANGED <<current, mode, opv, job, out, req, ui, disk, host, faults>>

(***************************************************************************)
(* Stop.                                                                   *)
(***************************************************************************)
StopIdle ==
  /\ opPc = "free" /\ cancel = NoWorker /\ ~cleanupPending
  /\ current' = NoServer
  /\ UNCHANGED <<cancel, mode, cleanupPending, cleanupMode, opv, gor, ui, disk,
                 host, faults>>

StopTake ==
  /\ opPc = "free" /\ (cancel # NoWorker \/ cleanupPending)
  /\ loc' = [NoLoc EXCEPT !.target = cancel, !.pending = cleanupPending,
                          !.prev = cleanupMode, !.mode = mode]
  /\ cleanupPending' = FALSE /\ cancel' = NoWorker /\ current' = NoServer
  /\ opPc' = "cancel"
  /\ UNCHANGED <<mode, cleanupMode, gor, ui, disk, host, faults>>

\* Variant: the cancel function is taken and never called.
StopCancelForgets ==
  /\ opPc = "cancel"
  /\ opPc' = "disc"
  /\ UNCHANGED <<ctrl, loc, gor, ui, disk, host, faults>>

StopCancel ==
  /\ opPc = "cancel"
  /\ ctx' = [w \in Workers |-> IF w = loc.target THEN "done" ELSE ctx[w]]
  /\ opPc' = "disc"
  /\ UNCHANGED <<ctrl, loc, pc, job, out, req, ui, disk, host, faults>>

StopAnnounce ==
  /\ opPc = "disc"
  /\ ui' = "disconnecting"
  /\ opPc' = "join"
  /\ UNCHANGED <<ctrl, loc, gor, disk, host, faults>>

\* Variant: Stop without wg.Wait.
StopJoinNoWait ==
  /\ opPc = "join"
  /\ opPc' = IF loc.mode = "sysproxy" THEN "tearClear" ELSE "tearStop"
  /\ UNCHANGED <<ctrl, loc, gor, ui, disk, host, faults>>

\* wg.Wait, then tearDown(mode).
StopJoin ==
  /\ opPc = "join" /\ Joined
  /\ opPc' = IF loc.mode = "sysproxy" THEN "tearClear" ELSE "tearStop"
  /\ UNCHANGED <<ctrl, loc, gor, ui, disk, host, faults>>

StopClear ==
  /\ opPc = "tearClear"
  /\ \/ ClearSysproxy(FALSE) /\ UNCHANGED loc
     \/ ClearSysproxy(TRUE) /\ loc' = [loc EXCEPT !.res = "error"]
  /\ opPc' = "tearStop"
  /\ UNCHANGED <<ctrl, gor, ui, disk, chain, dirty, late, faults>>

StopStop ==
  /\ opPc = "tearStop"
  /\ \/ StopChain("rpc" \in faults, FALSE) /\ UNCHANGED loc
     \/ StopChain("rpc" \in faults, TRUE) /\ loc' = [loc EXCEPT !.res = "error"]
  /\ opPc' = "tearPrev"
  /\ UNCHANGED <<ctrl, gor, ui, disk, proxy, late, faults>>

\* Variant: the proxy owed from an earlier mode is forgotten.
StopPrevForgets ==
  /\ opPc = "tearPrev"
  /\ opPc' = "stopLock"
  /\ UNCHANGED <<ctrl, loc, gor, ui, disk, host, faults>>

\* The proxy an earlier sysproxy session still owes.
StopPrev ==
  /\ opPc = "tearPrev"
  /\ IF loc.pending /\ loc.prev = "sysproxy" /\ loc.mode # "sysproxy"
       THEN \/ ClearSysproxy(FALSE) /\ UNCHANGED loc
            \/ ClearSysproxy(TRUE) /\ loc' = [loc EXCEPT !.res = "error"]
       ELSE UNCHANGED <<proxy, loc>>
  /\ opPc' = "stopLock"
  /\ UNCHANGED <<ctrl, gor, ui, disk, chain, dirty, late, faults>>

StopLock ==
  /\ opPc = "stopLock"
  /\ IF loc.res = "error"
       THEN /\ cleanupPending' = TRUE
            /\ cleanupMode' = IF loc.pending THEN cleanupMode ELSE loc.mode
            /\ ui' = "error"
            /\ opPc' = "free" /\ loc' = NoLoc
       ELSE /\ cleanupPending' = FALSE
            /\ ui' = "idle"
            /\ opPc' = "forget"
            /\ UNCHANGED <<cleanupMode, loc>>
  /\ UNCHANGED <<cancel, current, mode, gor, disk, host, faults>>

ClearSession ==
  /\ opPc = "forget"
  /\ session' = NoJob \/ ("save" \in faults /\ UNCHANGED session)
  /\ opPc' = "free" /\ loc' = NoLoc
  /\ UNCHANGED <<ctrl, gor, ui, store, host, faults>>

(***************************************************************************)
(* Reconcile, run once before the bridge serves its first request.         *)
(***************************************************************************)
ReconcileLoad ==
  /\ opPc = "boot"
  /\ IF session = NoJob
       THEN opPc' = "free" /\ loc' = NoLoc
       ELSE /\ opPc' = "decide"
            /\ \E st \in {ServiceStatus} \cup (IF "rpc" \in faults THEN {"err"} ELSE {}) :
                 loc' = [NoLoc EXCEPT !.job = session, !.st = st]
  /\ UNCHANGED <<ctrl, gor, ui, disk, host, faults>>

ReconcileDone == opPc' = "free" /\ loc' = NoLoc

ReconcileDirty ==
  /\ opPc = "decide" /\ loc.st = "dirty"
  /\ current' = NoServer /\ mode' = loc.job.mode
  /\ cleanupPending' = TRUE /\ cleanupMode' = loc.job.mode
  /\ ui' = "error"
  /\ ReconcileDone
  /\ UNCHANGED <<cancel, gor, disk, host, faults>>

ReconcileNoServer ==
  /\ opPc = "decide" /\ loc.st # "dirty" /\ loc.job.srv \notin store
  /\ session' = NoJob \/ ("save" \in faults /\ UNCHANGED session)
  /\ ReconcileDone
  /\ UNCHANGED <<ctrl, gor, ui, store, host, faults>>

\* ServiceStatus failed, or nothing runs: the picker is filled in.  A proxy
\* that outlived its chain is cleared, and a failure to do so only logged.
ReconcileIdle ==
  /\ opPc = "decide" /\ loc.st \in {"err", "down"} /\ loc.job.srv \in store
  /\ IF loc.st = "down" /\ loc.job.mode = "sysproxy"
       THEN \E err \in BOOLEAN : ClearSysproxy(err)
       ELSE UNCHANGED proxy
  /\ current' = loc.job.srv /\ mode' = loc.job.mode
  /\ ReconcileDone
  /\ UNCHANGED <<cancel, cleanupPending, cleanupMode, gor, ui, disk,
                 chain, dirty, late, faults>>

ReconcileAdopt ==
  /\ opPc = "decide" /\ loc.st = "up" /\ loc.job.srv \in store
  /\ opPc' = "adopt"
  /\ \E w \in Workers : Claim(w, loc.job.srv, loc.job.mode)
  /\ UNCHANGED <<ui, disk, host, faults>>

ReconcilePublish ==
  /\ opPc = "adopt"
  /\ ui' = "connected"
  /\ Goto(loc.target, "poll")
  /\ ReconcileDone
  /\ UNCHANGED <<ctrl, ctx, job, out, req, disk, host, faults>>

(***************************************************************************)
(* The environment.                                                        *)
(***************************************************************************)
\* A core exits: the helper's watcher stops the session, or cannot finish.
ChainDrop ==
  /\ Running
  /\ \/ chain' = NoJob /\ UNCHANGED dirty
     \/ "dirty" \in faults /\ dirty' = TRUE /\ UNCHANGED chain
  /\ UNCHANGED <<ctrl, opv, gor, ui, disk, proxy, late, faults>>

\* The helper gets to a StartChain request whose caller has gone.
LateStartChain ==
  /\ \E j \in late :
       /\ late' = late \ {j}
       /\ chain' \in {chain} \cup (IF chain = NoJob THEN {j} ELSE {})
  /\ UNCHANGED <<ctrl, opv, gor, ui, disk, proxy, dirty, faults>>

\* A subscription sync or an edit rewrites servers.json.
StoreChange ==
  /\ "store" \in faults
  /\ store' \in SUBSET Servers
  /\ UNCHANGED <<ctrl, opv, gor, ui, session, host, faults>>

\* The bridge process dies and is started again.
BridgeExit ==
  /\ "exit" \in faults
  /\ cancel' = NoWorker /\ current' = NoServer /\ mode' = NoMode
  /\ cleanupPending' = FALSE /\ cleanupMode' = NoMode
  /\ opPc' = "boot" /\ loc' = NoLoc
  /\ pc' = [w \in Workers |-> "idle"]
  /\ ctx' = [w \in Workers |-> "done"]
  /\ job' = [w \in Workers |-> NoJob]
  /\ out' = [w \in Workers |-> "idle"]
  /\ req' = [w \in Workers |-> "none"]
  /\ late' = late \cup {job[w] : w \in {v \in Workers : req[v] = "sent"}}
  /\ ui' = "idle"
  /\ UNCHANGED <<disk, proxy, chain, dirty, faults>>

BringUp(w) ==
  \/ Build(w) \/ StartChainCall(w) \/ StartChainReply(w) \/ StartChainCancelled(w)
  \/ Apply(w) \/ UndoStop(w) \/ UndoProxy(w)
  \/ BringUpFailed(w) \/ FailLock(w) \/ BringUpDone(w) \/ Commit(w)
  \/ ClearOld(w) \/ Settle(w) \/ SaveSession(w) \/ PublishConnected(w)

Poller(w) ==
  \/ PollReturn(w) \/ PollDrop(w) \/ CrashStolen(w) \/ CrashBlock(w)
  \/ CrashDirect(w) \/ CrashClear(w) \/ CrashStop(w) \/ CrashLock(w)

Goroutine(w) == BringUp(w) \/ Poller(w) \/ Report(w)

Stop ==
  \/ StopCancel \/ StopAnnounce \/ StopJoin \/ StopClear \/ StopStop
  \/ StopPrev \/ StopLock \/ ClearSession

Reconcile ==
  \/ ReconcileLoad \/ ReconcileDirty \/ ReconcileNoServer \/ ReconcileIdle
  \/ ReconcileAdopt \/ ReconcilePublish

Operation == StartJoined \/ StartPublish \/ Stop \/ Reconcile

Next ==
  \/ \E s \in Servers, m \in Modes : Start(s, m)
  \/ StopIdle \/ StopTake
  \/ Operation
  \/ \E w \in Workers : Goroutine(w) \/ HelperStartChain(w)
  \/ ChainDrop \/ LateStartChain \/ StoreChange \/ BridgeExit

Spec == Init /\ [][Next]_vars

\* A goroutine that can run does; an operation that holds opMu goes on; the
\* helper answers.  Nobody has to call Start or Stop, and nothing has to fail.
Fairness ==
  /\ WF_vars(Operation)
  /\ \A w \in Workers : WF_vars(Goroutine(w)) /\ WF_vars(HelperStartChain(w))

FairSpec == Spec /\ Fairness

(***************************************************************************)
(* Properties.                                                             *)
(***************************************************************************)
\* Every field, local and file holds a value of its Go type.
TypeOK ==
  /\ cancel \in Workers \cup {NoWorker}
  /\ current \in Servers \cup {NoServer}
  /\ mode \in Modes \cup {NoMode}
  /\ cleanupPending \in BOOLEAN
  /\ cleanupMode \in Modes \cup {NoMode}
  /\ opPc \in OpPcs
  /\ loc \in Locs
  /\ pc \in [Workers -> Pcs]
  /\ ctx \in [Workers -> {"live", "done"}]
  /\ job \in [Workers -> Jobs \cup {NoJob}]
  /\ out \in [Workers -> Statuses]
  /\ req \in [Workers -> {"none", "sent", "ok", "err"}]
  /\ ui \in Statuses
  /\ session \in Jobs \cup {NoJob}
  /\ store \subseteq Servers
  /\ proxy \in {"off", "on"}
  /\ chain \in Jobs \cup {NoJob}
  /\ dirty \in BOOLEAN
  /\ late \subseteq Jobs

\* A goroutine that has not given up its attempt yet.
Attached(w) == pc[w] \notin {"idle", "report"}

Tearing == {"tearClear", "tearStop", "tearPrev"}
DrivingPcs == BringUpPcs \cup {"clearOld", "save", "crashClear", "crashStop"}

\* The helper, the proxy and the session file have one driver at a time:
\* two attempts never overlap, and Stop's tearDown ("the single authoritative
\* cleanup pass", ctrl.go) never runs beside a goroutine's bringUp, rollback
\* or crash teardown.
OneDriver ==
  /\ \A v, w \in Workers : pc[v] \in DrivingPcs /\ pc[w] \in DrivingPcs => v = w
  /\ opPc \in Tearing => \A w \in Workers : pc[w] \notin DrivingPcs

\* A context that is still live can be cancelled: it is the one c.cancel
\* holds, or the one a Stop has just taken and is about to cancel.  So no
\* attempt runs on out of the user's reach, and none is held twice.
LiveContextReachable ==
  /\ \A w \in Workers : ctx[w] = "live" =>
       cancel = w \/ (opPc = "cancel" /\ loc.target = w)
  /\ \A w \in Workers : cancel = w => ctx[w] = "live" /\ Attached(w)

\* One attempt at a time acts on the system, and it is one that Stop reaches.
OneAttempt == OneDriver /\ LiveContextReachable

\* Nothing is under way in the bridge.
Quiet == opPc = "free" /\ Joined

\* The controller reports idle and has nothing under way.
Idle == Quiet /\ cancel = NoWorker /\ ~cleanupPending

\* The renderer never rests on "connected" when the controller has no
\* attempt: however late a goroutine publishes, the last word of a session
\* that ended is idle or error.
NoStaleConnected ==
  opPc = "free" /\ (\A w \in Workers : pc[w] \in {"idle", "poll"}) /\ ui = "connected"
    => cancel # NoWorker

\* While the poller watches a session, last-session.json names that session,
\* so a bridge that dies is able to take it over: no Stop or Reconcile
\* removes the record of a session that goes on.
PolledSessionRecorded ==
  "save" \notin faults =>
    \A w \in Workers : pc[w] = "poll" => session = job[w]

\* A controller that reports idle with nothing under way has left no OS proxy
\* behind, whatever of these failed and was rolled back on the way.
IdleHasNoProxy ==
  faults \subseteq {"rpc", "set", "dirty", "save", "store"} /\ Idle => proxy = "off"

\* ... and no chain in the helper: "can never finish and leave a chain nothing
\* tracks" (ctrl.go, on wg).
NoChainLeft == Idle => chain = NoJob

\* The same while every call reaches the helper and is answered.
IdleHasNoChain ==
  faults \subseteq {"set", "partial", "clear", "save", "store"} => NoChainLeft

\* Idle means that nothing is left: neither a chain in the helper nor a proxy
\* in the registry that sends the user's traffic to a port nobody serves.
IdleIsClean == IdleHasNoChain /\ IdleHasNoProxy

\* A Stop that reports success has cleared the proxy, a retained one included:
\* "explicit disconnect must restore networking after crash".
DisconnectClearsProxy == opPc = "forget" => proxy = "off"

\* The step that switches off a proxy kept to block traffic after a drop.
LiftsBlock ==
  cleanupPending /\ cleanupMode = "sysproxy" /\ proxy = "on" /\ proxy' = "off"

\* That proxy is let go by Stop, by a reconnect that succeeded, or by
\* sysproxy.Set while it replaces it, and by nothing else.
KillSwitchHeld ==
  [][LiftsBlock => \/ opPc \in Tearing
                   \/ \E w \in Workers : pc[w] \in {"clearOld", "apply"}]_vars

\* The same without the exception for Set: "failed reconnect must retain
\* fail-closed proxy" (crash_cleanup_test.go).  This sentence and the next two
\* are not kept by the code: TLC refutes this one with the fault set, and
\* the two about Reconcile with store and exit.
FailedRetryKeepsProxy ==
  [][LiftsBlock => \/ opPc \in Tearing
                   \/ \E w \in Workers : pc[w] = "clearOld"]_vars

\* "When ChainActive: claims ownership" (ctrl.go, on Reconcile).
ActiveChainAdopted ==
  [][opPc = "decide" /\ loc.st = "up" /\ opPc' = "free" => cancel' # NoWorker]_vars

\* "so a boot-time Reconcile always leaves sysproxy consistent with the
\* (non-)running chain it just observed" (ctrl.go, in Reconcile).
BootProxyConsistent ==
  [][opPc = "decide" /\ loc.st = "down" /\ opPc' = "free" => proxy' = "off"]_vars

\* Stop returns: the goroutine it waits for sees its cancelled context from
\* wherever it is.
StopReturns == opPc = "cancel" ~> opPc = "free"

\* Every attempt ends in a polled session or gives the controller back.
AttemptSettles == \A w \in Workers : pc[w] = "build" ~> pc[w] \in {"poll", "idle"}

\* Neither a Stop nor an attempt waits for ever for the other.
ControllerSettles == StopReturns /\ AttemptSettles

\* A chain that is gone does not stay "connected" on the renderer's screen,
\* whoever handles the drop: the poller or a Stop that overtakes it.
DropReported ==
  (\E w \in Workers : pc[w] = "poll" /\ ~Running) ~> ui # "connected"
=============================================================================
