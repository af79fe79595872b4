--------------------------- MODULE HelperRouting ---------------------------
(***************************************************************************)
(* The clients through which the controller reaches a chain.               *)
(*                                                                         *)
(* Linux: modeRoutingHelperClient latches one of two backends, the core    *)
(* running inside the bridge (coreHelperClient) for sysproxy and the       *)
(* privileged daemon behind a socket (daemonHelperClient) for TUN.  The    *)
(* daemon client dials lazily and repeats a failed call once.              *)
(* Windows: lazyHelperClient keeps one HelperAdapter and drops it, with    *)
(* the session id it has learnt, when a call other than a teardown fails.  *)
(*                                                                         *)
(* The helper is the one ChainService promises.  Between it and a client   *)
(* are the requests it has not handled yet (inbox): closing a connection   *)
(* does not take a written request back, and requests of different         *)
(* connections may be handled in any order.  The controller is reduced to  *)
(* the order in which it calls the client (one driver at a time).          *)
(***************************************************************************)
EXTENDS Naturals, Sequences

CONSTANTS
  Sessions, NoSession,
  Platforms,  \* those of this instance
  FaultSets,  \* the combinations of faults that this instance admits
  MaxInbox    \* how many requests may be unhandled

\* lost: an exchange breaks, before or after the helper has handled it;
\* late: requests of closed connections are overtaken; refuse: a start
\* fails; dirty: a cleanup is incomplete; restart: the helper restarts;
\* exit: the bridge dies.
FaultKinds == {"lost", "late", "refuse", "dirty", "restart", "exit"}

ASSUME RoutingAssumption ==
  /\ NoSession \notin Sessions
  /\ Platforms \subseteq {"linux", "windows"}
  /\ FaultSets \subseteq SUBSET FaultKinds
  /\ MaxInbox \in Nat

VARIABLES
  sess, state, past,  \* the helper's session, as in ChainService
  alive,              \* the helper is running
  inbox,              \* requests written and not yet handled
  plat,
  active,             \* the latched backend of the routing client
  conn,               \* the connection of the client: none, open or broken
  sid,                \* the session id the client has learnt
  core,               \* the in-process core: the flag, and its two engines
  call,               \* the exchange in progress
  drv,                \* what the controller is doing
  mode,               \* the mode of its attempt
  pending,            \* cleanupPending
  rec,                \* last-session.json exists
  faults,
  lost                \* how exchanges have ended without an answer

helper == <<sess, state, past>>
client == <<active, conn, sid, core>>
ctl    == <<drv, mode, pending, rec>>
vars   == <<helper, alive, inbox, plat, client, call, ctl, faults, lost>>

Helper == INSTANCE ChainService

Modes == {"tun", "sysproxy"}
Ops == {"start", "stop", "status"}
CoreDown == [running |-> FALSE, xray |-> FALSE, sbox |-> FALSE]
NoCall == [op |-> "none", at |-> "none", try |-> 0, reply |-> "none",
           val |-> NoSession]

\* reply: what the handler answered; "partial" is an answer with
\* partial_errors, and a status is the state of the helper.
Replies == {"none", "ok", "err", "partial", "down", "up", "dirty"}

TypeOK ==
  /\ sess \in Sessions \cup {NoSession} /\ state \in Helper!States
  /\ past \subseteq Sessions
  /\ alive \in BOOLEAN
  /\ inbox \in Seq([op: Ops, id: Sessions \cup {NoSession}, live: BOOLEAN])
  /\ plat \in Platforms
  /\ active \in {"none", "core", "daemon"}
  /\ conn \in {"none", "open", "broken"}
  /\ sid \in Sessions \cup {NoSession}
  /\ core \in [running: BOOLEAN, xray: BOOLEAN, sbox: BOOLEAN]
  /\ call \in [op: Ops \cup {"none"}, at: {"none", "dial", "sent", "back"},
               try: 0 .. 2, reply: Replies, val: Sessions \cup {NoSession}]
  /\ drv \in {"boot", "idle", "start", "up", "stop", "drop"}
  /\ mode \in Modes /\ pending \in BOOLEAN /\ rec \in BOOLEAN
  /\ faults \in FaultSets /\ lost \subseteq {"broken", "timeout", "cancel"}

Init ==
  /\ Helper!Init /\ alive = TRUE /\ inbox = << >>
  /\ plat \in Platforms
  /\ active = "none" /\ conn = "none" /\ sid = NoSession /\ core = CoreDown
  /\ call = NoCall
  /\ drv = "idle" /\ mode = "tun" /\ pending = FALSE /\ rec = FALSE
  /\ faults \in FaultSets /\ lost = {}

(***************************************************************************)
(* One exchange.  On Linux a failed one is repeated once over a fresh      *)
(* connection, whatever the failure was.                                   *)
(***************************************************************************)
Begin(op) == call' = [NoCall EXCEPT !.op = op, !.at = "dial", !.try = 1]

\* The connection there is, or a fresh one.
Connected == alive /\ conn # "broken" /\ conn' = "open"

Write ==
  /\ call.at = "dial" /\ Connected
  /\ Len(inbox) < MaxInbox
  /\ inbox' = Append(inbox, [op |-> call.op, live |-> TRUE,
                id |-> IF call.op = "stop" THEN sid ELSE NoSession])
  /\ call' = [call EXCEPT !.at = "sent"]
  /\ UNCHANGED <<helper, alive, plat, active, sid, core, ctl, faults, lost>>

\* What is in the inbox is no longer awaited by anyone.
Forsake == inbox' = [i \in DOMAIN inbox |-> [inbox[i] EXCEPT !.live = FALSE]]

Retries == plat = "linux" /\ call.try = 1

\* client.Call has failed: the daemon client drops the connection and
\* repeats the call, the adapter of Windows gives up.
Failed ==
  /\ conn' = "none"
  /\ IF Retries
     THEN call' = [call EXCEPT !.at = "dial", !.try = 2, !.reply = "none"]
     ELSE call' = [call EXCEPT !.at = "back", !.reply = "err"]

\* A connection the helper has closed, or a dial it does not answer.
CannotWrite ==
  /\ call.at = "dial" /\ (~alive \/ conn = "broken")
  /\ Failed
  /\ UNCHANGED <<helper, alive, inbox, plat, active, sid, core, ctl, faults,
                 lost>>

\* The exchange breaks while the request is on its way or being handled.
Lose ==
  /\ "lost" \in faults
  /\ call.at = "sent"
  /\ lost' = lost \cup {"broken"}
  /\ Forsake /\ Failed
  /\ UNCHANGED <<helper, alive, plat, active, sid, core, ctl, faults>>

\* The answer is read; a refusal is a failure like any other.
Read ==
  /\ call.at = "back" /\ call.reply = "err" /\ Retries
  /\ Failed
  /\ UNCHANGED <<helper, alive, inbox, plat, active, sid, core, ctl, faults,
                 lost>>

(***************************************************************************)
(* The helper's side.                                                      *)
(***************************************************************************)
Answer(r, reply, val) ==
  IF r.live
  THEN call' = [call EXCEPT !.at = "back", !.reply = reply, !.val = val]
  ELSE UNCHANGED call

HandleStart(r) ==
  \/ /\ state = "down"
     /\ \E s \in Sessions : Helper!Started(s) /\ Answer(r, "ok", s)
  \/ /\ state # "down" \/ "refuse" \in faults \/ Sessions = past
     /\ Answer(r, "err", NoSession)
     /\ UNCHANGED helper

HandleStop(r) ==
  \/ state = "down" /\ Answer(r, "ok", NoSession) /\ UNCHANGED helper
  \/ /\ state # "down" /\ r.id \notin {NoSession, sess}
     /\ Answer(r, "err", NoSession)
     /\ UNCHANGED helper
  \/ /\ state # "down" /\ r.id \in {NoSession, sess}
     /\ \/ Helper!Ended /\ Answer(r, "ok", NoSession)
        \/ /\ "dirty" \in faults
           /\ state' = "dirty" /\ UNCHANGED <<sess, past>>
           /\ Answer(r, "partial", NoSession)

HandleStatus(r) == Answer(r, state, NoSession) /\ UNCHANGED helper

Handle ==
  \E i \in DOMAIN inbox :
    /\ i = 1 \/ "late" \in faults
    /\ LET r == inbox[i] IN
         /\ r.op = "start"  => HandleStart(r)
         /\ r.op = "stop"   => HandleStop(r)
         /\ r.op = "status" => HandleStatus(r)
    /\ inbox' = SubSeq(inbox, 1, i - 1) \o SubSeq(inbox, i + 1, Len(inbox))
    /\ UNCHANGED <<alive, plat, client, ctl, faults, lost>>

\* A core exits: the watcher ends the session, or leaves it to be cleaned.
CoreExits ==
  /\ state = "up"
  /\ Helper!Ended \/ ("dirty" \in faults /\ Helper!Incomplete)
  /\ UNCHANGED <<alive, inbox, plat, client, call, ctl, faults, lost>>

\* Its service stops, which ends the chain, and starts again.
HelperStops ==
  /\ "restart" \in faults /\ alive
  /\ alive' = FALSE /\ inbox' = << >>
  /\ IF state = "down" THEN UNCHANGED helper ELSE Helper!Ended
  /\ IF call.at = "sent" THEN Failed
     ELSE /\ conn' = IF conn = "open" THEN "broken" ELSE conn
          /\ UNCHANGED call
  /\ UNCHANGED <<plat, active, sid, core, ctl, faults, lost>>

HelperStarts ==
  /\ ~alive /\ alive' = TRUE
  /\ UNCHANGED <<helper, inbox, plat, client, call, ctl, faults, lost>>

(***************************************************************************)
(* The in-process core of the Linux bridge, whose calls never leave it.    *)
(***************************************************************************)
\* The adapters: a start keeps the instance only when it succeeds, a close
\* forgets it whatever it returns.
XrayStart(c, ok) == [c EXCEPT !.xray = ok]
SingboxStart(c, ok) == [c EXCEPT !.sbox = ok]
XrayClose(c) == [c EXCEPT !.xray = FALSE]
SingboxClose(c) == [c EXCEPT !.sbox = FALSE]

\* Variant: the xray instance is left running when sing-box does not start.
ManagerStartLeaks(c, xok, sok) ==
  IF xok THEN SingboxStart(XrayStart(c, TRUE), sok) ELSE XrayStart(c, FALSE)

\* xray first, closed again when sing-box does not start.
ManagerStart(c, xok, sok) ==
  LET x == XrayStart(c, xok)
      b == SingboxStart(x, sok)
  IN  IF ~xok THEN x ELSE IF sok THEN b ELSE XrayClose(b)

\* Both, whatever the first close returns.
ManagerStop(c) == XrayClose(SingboxClose(c))

CoreStartChain(ok) ==
  /\ ok \/ "refuse" \in faults \/ core.running
  /\ IF core.running THEN ~ok /\ UNCHANGED core
     ELSE \E xok, sok \in BOOLEAN :
            /\ ok = (xok /\ sok)
            /\ core' = [ManagerStart(core, xok, sok) EXCEPT !.running = ok]

\* The client forgets the manager whatever its Stop returns.
CoreStopChain(ok) ==
  /\ ok \/ ("refuse" \in faults /\ core.running)
  /\ core' = IF core.running THEN [ManagerStop(core) EXCEPT !.running = FALSE]
             ELSE core

(***************************************************************************)
(* The controller's calls.                                                 *)
(***************************************************************************)
Returned(replies) ==
  /\ call.at = "back" /\ call.reply \in replies
  /\ ~(call.reply = "err" /\ Retries)

\* Variant: the cached adapter survives a failed call.
InvalidateNothing == UNCHANGED <<sid, conn>>

\* What a failed call other than a teardown leaves of the client.
Invalidate == /\ sid' = IF plat = "windows" THEN NoSession ELSE sid
              /\ conn' = IF plat = "windows" THEN "none" ELSE conn

Latch(m) == IF plat = "windows" THEN active
            ELSE IF m = "tun" THEN "daemon" ELSE "core"

Start(m) ==
  /\ drv = "idle"
  /\ mode' = m /\ active' = Latch(m)
  /\ IF active' = "core"
     THEN \E ok \in BOOLEAN :
            /\ CoreStartChain(ok)
            /\ drv' = IF ok THEN "up" ELSE "idle"
            /\ pending' = (pending /\ ~ok) /\ rec' = (rec \/ ok)
            /\ UNCHANGED call
     ELSE /\ Begin("start") /\ drv' = "start"
          /\ UNCHANGED <<core, pending, rec>>
  /\ UNCHANGED <<helper, alive, inbox, plat, conn, sid, faults, lost>>

\* xrayServerEndpoint finds no server in the configuration: the backend is
\* latched, and nothing is sent.
StartRejected ==
  /\ drv = "idle" /\ "refuse" \in faults
  /\ mode' = "tun" /\ active' = Latch("tun")
  /\ Invalidate
  /\ UNCHANGED <<helper, alive, inbox, plat, core, call, drv, pending, rec,
                 faults, lost>>

\* Variant: another field of the answer is kept.
LearnReply == sid' = call.reply

Learn == sid' = call.val

Started ==
  /\ drv = "start" /\ Returned({"ok"})
  /\ Learn
  /\ drv' = "up" /\ pending' = FALSE /\ rec' = TRUE /\ call' = NoCall
  /\ UNCHANGED <<helper, alive, inbox, plat, active, conn, core, mode, faults,
                 lost>>

\* bringUp unwinds with TunDestroy and RouteRestore, which do nothing here.
StartFailed ==
  /\ drv = "start" /\ Returned({"err"})
  /\ Invalidate
  /\ drv' = "idle" /\ call' = NoCall
  /\ UNCHANGED <<helper, alive, inbox, plat, active, core, mode, pending, rec,
                 faults, lost>>

\* Variant: the latch is not consulted.
StopTargetCore == IF plat = "windows" THEN "daemon" ELSE "core"

\* Where StopChain goes; on Windows there is only the service.
StopTarget == IF plat = "windows" THEN "daemon" ELSE active

\* Controller.Stop cancels the exchange of the attempt or of its poller,
\* which closes the connection and is not repeated, and tears down.
Stop ==
  /\ drv \in {"up", "start", "drop"} \/ (drv = "idle" /\ pending)
  /\ IF call = NoCall THEN UNCHANGED <<inbox, conn, sid, lost>>
     ELSE /\ Forsake /\ conn' = "none" /\ lost' = lost \cup {"cancel"}
          /\ sid' = IF plat = "windows" /\ call.op # "stop" THEN NoSession
                    ELSE sid
  /\ IF StopTarget = "daemon"
     THEN /\ Begin("stop") /\ drv' = "stop" /\ pending' = FALSE
          /\ UNCHANGED <<core, rec>>
     ELSE \E ok \in BOOLEAN :
            /\ IF StopTarget = "core" THEN CoreStopChain(ok)
               ELSE ok /\ UNCHANGED core
            /\ drv' = "idle" /\ pending' = ~ok /\ rec' = (rec /\ ~ok)
            /\ call' = NoCall
  /\ UNCHANGED <<helper, alive, plat, active, mode, faults>>

\* Variant: the deadline does not reach the exchange.
StopTimeoutIgnored == FALSE /\ UNCHANGED vars

\* The ten seconds of the teardown's context are over.
StopTimeout ==
  /\ drv = "stop" /\ call.at \in {"dial", "sent"}
  /\ Forsake /\ conn' = "none"
  /\ call' = [call EXCEPT !.at = "back", !.try = 2, !.reply = "err"]
  /\ lost' = lost \cup {"timeout"}
  /\ UNCHANGED <<helper, alive, plat, active, sid, core, ctl, faults>>

Forget == sid' = NoSession

\* Variant: an answer with partial_errors is taken for a stop.
CheckStopResultAny == Returned({"ok", "partial"})

CheckStopResult == Returned({"ok"})

Stopped ==
  /\ drv \in {"stop", "drop"} /\ CheckStopResult
  /\ Forget
  /\ drv' = "idle" /\ call' = NoCall
  /\ rec' = IF drv = "stop" THEN FALSE ELSE rec
  /\ UNCHANGED <<helper, alive, inbox, plat, active, conn, core, mode, pending,
                 faults, lost>>

StopFailed ==
  /\ drv \in {"stop", "drop"} /\ Returned({"err", "partial"})
  /\ ~CheckStopResult
  /\ drv' = "idle" /\ pending' = TRUE /\ call' = NoCall
  /\ UNCHANGED <<helper, alive, inbox, plat, client, mode, rec, faults, lost>>

\* The poller's tick; the status of the in-process core changes nothing.
Poll ==
  /\ drv = "up" /\ call = NoCall /\ active # "core"
  /\ Begin("status")
  /\ UNCHANGED <<helper, alive, inbox, plat, client, ctl, faults, lost>>

Polled ==
  /\ drv = "up" /\ call.op = "status"
  /\ \/ Returned({"err"}) /\ Invalidate /\ call' = NoCall /\ UNCHANGED ctl
     \/ Returned({"up"}) /\ call' = NoCall /\ UNCHANGED <<sid, conn, ctl>>
     \/ \* the chain is gone: the kill switch keeps what there is, and
        \* without it the poller tears down
        /\ Returned({"down", "dirty"})
        /\ \/ drv' = "idle" /\ pending' = TRUE /\ call' = NoCall
           \/ drv' = "drop" /\ Begin("stop") /\ UNCHANGED pending
        /\ UNCHANGED <<sid, conn, mode, rec>>
  /\ UNCHANGED <<helper, alive, inbox, plat, active, core, faults, lost>>

\* The bridge dies with its core; what it has written stays written.
BridgeExits ==
  /\ "exit" \in faults /\ drv # "boot"
  /\ Forsake
  /\ active' = "none" /\ conn' = "none" /\ sid' = NoSession
  /\ core' = CoreDown /\ call' = NoCall
  /\ drv' = "boot" /\ pending' = FALSE
  /\ UNCHANGED <<helper, alive, plat, mode, rec, faults, lost>>

\* Controller.Reconcile; without a session record it asks nobody.
Reconcile ==
  /\ drv = "boot" /\ call = NoCall
  /\ IF rec THEN Begin("status") /\ UNCHANGED drv
     ELSE drv' = "idle" /\ UNCHANGED call
  /\ UNCHANGED <<helper, alive, inbox, plat, client, mode, pending, rec, faults,
                 lost>>

\* Variant: only a chain whose cleanup is pending is latched.
AdoptsPending == {"dirty"}

\* The states of the helper that the routing client latches the daemon for.
Adopts == {"up", "dirty"}

\* The recorded server may have left servers.json: the record is cleared and the
\* chain is not adopted, unless a cleanup is owed, which is seen first.
Reconciled ==
  /\ drv = "boot" /\ Returned({"err", "down", "up", "dirty"})
  /\ call' = NoCall
  /\ IF call.reply = "err" THEN Invalidate ELSE UNCHANGED <<sid, conn>>
  /\ active' = IF plat = "linux" /\ call.reply \in Adopts THEN "daemon"
               ELSE active
  /\ pending' = (call.reply = "dirty")
  /\ \/ drv' = (IF call.reply = "up" THEN "up" ELSE "idle") /\ UNCHANGED rec
     \/ call.reply # "dirty" /\ drv' = "idle" /\ rec' = FALSE
  /\ UNCHANGED <<helper, alive, inbox, plat, core, mode, faults, lost>>

ClientStep ==
  \/ Write \/ CannotWrite \/ Read
  \/ Started \/ StartFailed \/ Stopped \/ StopFailed \/ Polled
  \/ Reconcile \/ Reconciled

Next ==
  \/ ClientStep \/ Lose \/ StopTimeout
  \/ Handle \/ CoreExits \/ HelperStops \/ HelperStarts
  \/ (\E m \in Modes : Start(m)) \/ StartRejected \/ Stop \/ Poll \/ BridgeExits

Spec == Init /\ [][Next]_vars

\* The bridge's goroutines run and its deadlines expire; nothing is assumed
\* of the helper or of the user.
FairSpec == Spec /\ WF_vars(ClientStep) /\ WF_vars(StopTimeout)

(***************************************************************************)
(* Properties.                                                             *)
(***************************************************************************)
Without(kinds) == faults \cap kinds = {}

\* No call is in progress and no request of an earlier one is on its way.
Quiet == call = NoCall /\ inbox = << >>

\* The id StopChain would send (helper_daemon_other.go:162) is accepted: the
\* client holds the id of the helper's session or none, after any sequence of
\* starts, stops, drops and restarts, and on Windows of exchanges broken,
\* timed out or cancelled as well.  A StartChain that nobody waits for must
\* not be overtaken.
StopReaches ==
  Quiet /\ Without({"late"}) /\ (plat = "windows" \/ lost = {}) =>
    state = "down" \/ sid \in {NoSession, sess}

\* The same on Linux when exchanges are cancelled and nothing else fails:
\* "The session id returned by the daemon is captured so StopChain can
\* address the same session" (helper_daemon_other.go:119).
CancelledStopReaches ==
  Quiet /\ faults = {} /\ lost \subseteq {"cancel"} =>
    state = "down" \/ sid \in {NoSession, sess}

\* A controller that is idle and has nothing pending (ctrl.go:308: Stop then
\* does nothing) has left no chain behind in the helper, as long as no
\* exchange breaks and the bridge lives; where one helper serves both modes,
\* with incomplete cleanups, cancelled calls and timeouts too.
IdleHasNoSession ==
  /\ drv = "idle" /\ ~pending /\ Quiet
  /\ Without({"lost", "late", "exit"})
  /\ plat = "linux" => Without({"dirty"}) /\ lost = {}
  => state = "down"

\* The two backends of Linux do not run a chain each
\* (helper_adapter_other.go:111-118) as long as every exchange is answered:
\* incomplete cleanups, refusals and restarts of the daemon do not get there.
\* An engine of the in-process core runs only while the client knows of it and
\* StopChain would close it, and a client that believes a chain is up calls
\* the backend that runs it, adopted chains included.
OneChain ==
  /\ core.running /\ lost = {} /\ Without({"exit"}) => state # "up"
  /\ core.xray \/ core.sbox => core.running
  /\ drv = "up" /\ plat = "linux" => active = (IF core.running THEN "core" ELSE "daemon")

\* A StopChain that reports success to Controller.Stop has left no session
\* in the helper, also when its first exchange broke and was repeated, and
\* whatever was written before it (helper_daemon_other.go:158-179).
StopSucceeds ==
  [][drv = "stop" /\ drv' = "idle" /\ ~pending' /\ active # "core"
       /\ Without({"late"}) => state = "down"]_vars

\* Controller.Stop returns, whether the helper answers or not: its exchange
\* is bounded by ten seconds and the one it cancels is closed
\* (ctrl.go:338, client.go:96-107).
StopReturns == drv = "stop" ~> drv # "stop"

\* Stop comes back, and its word can be taken.
StopEnds == StopReturns /\ StopSucceeds
=============================================================================
