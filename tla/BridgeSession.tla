---------------------------- MODULE BridgeSession ----------------------------
(***************************************************************************)
(* The bridge and one window of the interface together: the connection     *)
(* store, the Logs tab and the background refresh over one hub, one        *)
(* dispatcher and one output.  A behaviour follows a scenario: how often   *)
(* users and surroundings act, and what else may happen.                   *)
(***************************************************************************)
EXTENDS DashStore, LogStream

CONSTANT Scenarios    \* records: left and faults, what the stores hold at first

FaultKinds == {"lag", "slow", "read", "bringup", "teardown", "killswitch", "hasty",
               "fetch", "panic", "swap", "overlap", "window", "quick"}

ASSUME ScenarioAssumption == \A s \in Scenarios : s.faults \subseteq FaultKinds

shared == <<win, left, faults>>
vars == <<pipe, shared, refresh, dashv, logv>>

Init ==
  /\ PipeInit /\ RefreshInit /\ DashInit /\ LogInit
  /\ \E s \in Scenarios : 
       /\ left = s.left /\ faults = s.faults /\ subs = s.subs /\ measured = s.measured
       /\ win.open = s.open /\ dash.boot = s.loaded /\ cfg.auto = s.auto /\ ctl.st = s.chain

---------------------------------------------------------------------------

Output == PipeStep /\ UNCHANGED <<refresh, dashv, logv>>

Quit == CloseInput /\ UNCHANGED <<refresh, dashv, logv>>

\* Steps of the store's handlers and of the controller
Handles ==
  /\ \E i \in DOMAIN calls :
       \/ Connect(i) \/ Disconnect(i) \/ DisconnectEnds(i) \/ GetSnapshot(i) \/ SnapshotEnds(i)
       \/ TestLatency(i) \/ ProbeEnds(i) \/ UpdateMode(i)
  /\ UNCHANGED <<wire, bridge, shared, refresh, logv>>

ChainMoves ==
  /\ BringUpDone \/ BringUpFails
  /\ UNCHANGED <<wire, bridge, shared, refresh, logv>>

ChainWorld ==
  /\ ChainDrops \/ Noise
  /\ UNCHANGED <<wire, bridge, win, faults, refresh, logv>>

Renders ==
  /\ DashReceives \/ IdleTimeout \/ AutoConnect
  /\ UNCHANGED <<bridge, shared, refresh, logv>>

User ==
  /\ \/ \E s \in Servers : ClickConnect(s)
     \/ ClickDisconnect \/ ClickReconnect
     \/ \E m \in Modes : ClickMode(m)
     \/ \E s \in Servers \cup {NoServer} : ClickProbe(s)
  /\ UNCHANGED <<bridge, win, faults, refresh, logv>>

\* Closing to the tray destroys the renderer; nothing unmounts its pages.
CloseWindow ==
  /\ win.open /\ Spend("windows")
  /\ win' = [win EXCEPT !.open = FALSE]
  /\ dash' = NewDash(FALSE) /\ flow' = NoFlow /\ logs' = NoLogs /\ past' = [past EXCEPT !.sweeps = 0]
  /\ UNCHANGED <<pipe, faults, refresh, ctl, cfg, measured, keep, file, lf, poll, cancel, buf, pend>>

\* A window takes longer to load than a request to be read.
OpenWindow ==
  /\ ~win.open /\ ~bridge.eof
  /\ "lag" \in faults \/ \A i \in DOMAIN calls : calls[i].st # "new"
  /\ win' = [open |-> TRUE, gen |-> win.gen + 1]
  /\ DashReopens
  /\ calls' = Append(calls, [Request("snapshot", <<>>) EXCEPT !.req.win = win.gen + 1])
  /\ UNCHANGED <<queue, wire, bridge, lost, left, faults, refresh, ctl, cfg, measured, keep, past, logv>>

\* A line for a window that is gone.
Discard ==
  /\ wire # <<>>
  /\ ~win.open \/ (Head(wire).topic = "answer" /\ Head(wire).req.win # win.gen)
  /\ wire' = Tail(wire)
  /\ UNCHANGED <<queue, calls, bridge, lost, shared, refresh, dashv, logv>>

\* The driver: its tick, its workers
DriverTick ==
  /\ ReconcileLoad \/ ReconcileApply
  /\ UNCHANGED <<pipe, shared, dashv, logv>>

TimerTick ==
  /\ Spend("ticks")
  /\ \E i \in SubIds, k \in Places : TimerFires(i, k)
  /\ UNCHANGED <<pipe, win, faults, dashv, logv>>

WorkerMoves ==
  /\ \E i \in SubIds, k \in Places :
       \/ (SeesCancel(i, k) \/ FetchDone(i, k)) /\ UNCHANGED <<queue, lost>>
       \/ Commit(i, k)
  /\ UNCHANGED <<wire, calls, bridge, shared, dashv, logv>>

WorkerPanics ==
  /\ Spend("panics")
  /\ \E i \in SubIds, k \in Places : Panic(i, k)
  /\ UNCHANGED <<pipe, win, faults, dashv, logv>>

UserSync ==
  /\ \E i \in SubIds : SyncOne(i)
  /\ UNCHANGED <<wire, calls, bridge, shared, dashv, logv>>

UserSubs ==
  /\ CanSend /\ Prompt
  /\ \E i \in SubIds :
       \/ Spend("adds") /\ \E u \in Urls : AddSub(i, u)
       \/ Spend("subs") /\ (RemoveSub(i) \/ \E u \in Urls : EditUrl(i, u))
  /\ UNCHANGED <<wire, calls, bridge, win, faults, dashv, logv>>

\* The Logs tab.  A user who is not quick waits for the answer of the last
\* start or stop, and a poll in flight has ended, before the tab is used again.
NoLogCalls == \A i \in DOMAIN calls : calls[i].req.m \notin {"logs.start", "logs.stop"}
Settled == "quick" \in faults \/ (NoLogCalls /\ wire = <<>>)
LogUser ==
  /\ Settled /\ Spend("tabs")
  /\ "overlap" \in faults \/ \A k \in Pollers : poll[k].live \/ poll[k].at = "none"
  /\ OpenTab \/ CloseTab
  /\ UNCHANGED <<queue, wire, bridge, lost, win, faults, refresh, dashv>>

LogHandles ==
  /\ \E i \in DOMAIN calls :
       LogsStart(i) \/ LogsStartPoller(i) \/ LogsTail(i) \/ LogsStop(i) \/ LogsStopPoller(i)
  /\ UNCHANGED <<queue, lost, wire, bridge, shared, refresh, dashv>>

LogWorld ==
  /\ \/ Spend("writes") /\ WriteLog
     \/ Spend("rotates") /\ RotateLog
     \/ Spend("lines") /\ BridgeLog
  /\ UNCHANGED <<pipe, win, faults, refresh, dashv>>

LogMoves ==
  /\ \/ OpenLog
     \/ \E k \in Pollers : PollReads(k) \/ PollApply(k) \/ PollFails(k) \/ PollEnds(k)
  /\ UNCHANGED <<pipe, shared, refresh, dashv>>

LogPublishes ==
  /\ \E j \in DOMAIN pend : PublishLine(j)
  /\ UNCHANGED <<calls, wire, bridge, shared, refresh, dashv>>

LogReceives ==
  /\ wire # <<>> /\ win.open
  /\ LET e == Head(wire)
     IN \/ e.topic = "log:line" /\ OnLogLine(e.entry)
        \/ /\ e.topic = "answer" /\ e.req.win = win.gen
           /\ \/ e.req.m = "logs.start" /\ StartAnswer(e.res.val)
              \/ e.req.m = "logs.stop" /\ UNCHANGED logs
  /\ wire' = Tail(wire)
  /\ UNCHANGED <<queue, calls, bridge, lost, shared, refresh, dashv, file, lf, poll, cancel, buf, pend>>

\* What happens by itself once it can: goroutines, the driver's ticker, the
\* event loop.
System ==
  \/ Output \/ Handles \/ ChainMoves \/ Renders \/ Discard
  \/ UserSync \/ LogHandles \/ LogPublishes \/ LogReceives
  \/ DriverTick \/ WorkerMoves

Next ==
  \/ System \/ Quit \/ ChainWorld \/ User \/ CloseWindow \/ OpenWindow
  \/ TimerTick \/ WorkerPanics \/ UserSubs
  \/ LogUser \/ LogWorld \/ LogMoves

Spec == Init /\ [][Next]_vars /\ WF_vars(System)

---------------------------------------------------------------------------
(* Properties                                                              *)

TypeOK ==
  /\ Len(queue) <= Buffer /\ Len(wire) <= Pipe /\ lost \subseteq Topics
  /\ bridge \in [eof : BOOLEAN, ctx : BOOLEAN, fwd : BOOLEAN]
  /\ ctl.st \in {"idle", "starting", "up", "stopping"} /\ ctl.mode \in Modes /\ cfg.mode \in Modes
  /\ dash.status \in {"idle", "connecting", "connected", "disconnecting", "error"} /\ dash.mode \in Modes
  /\ flow.kind \in {"none", "connect", "switch", "reconnect"} /\ flow.step \in {"none", "stop", "idle", "start"}
  /\ subs \in [SubIds -> Urls \cup {New, Gone}] /\ workers \in [SubIds -> Places \cup {NoPlace}]
  /\ cancel \in Pollers \cup {0} /\ Len(buf.ring) <= 2 * Cap /\ Len(logs.entries) <= Keep

\* Nothing is under way between the bridge and its window.
Quiet ==
  /\ queue = <<>> /\ wire = <<>> /\ calls = <<>> /\ win.open /\ bridge.ctx
  /\ ctl.st \in {"idle", "up"} /\ flow.kind = "none" /\ dash.auto = "done" /\ ~dash.reading

\* Once nothing is under way the store shows what the controller does: a
\* connection with its server and its mode, or none.  No event has been dropped,
\* no answer outran an event or was computed from an old status, and no Connect
\* was refused (onVpnStatus, doBootstrap, doConnect).
DashSettles ==
  Quiet /\ "vpn:status" \notin lost /\ faults \cap {"slow", "lag"} = {} /\ ~past.refused =>
    /\ ctl.st = "up" => dash.status = "connected" /\ dash.server = ctl.server /\ dash.mode = ctl.mode
    /\ ctl.st = "idle" => dash.status \in {"idle", "error"}

\* A store that knows the controller's state never has a Connect refused
\* because a chain is running (doConnect disconnects first).
NoRefusedConnect ==
  "vpn:status" \notin lost /\ faults \cap {"slow", "lag", "hasty"} = {} => ~past.refused

\* The last click of a user wins: after Disconnect nothing brings the chain up
\* again, not the connect on start and not a sequence that was under way.  A
\* snapshot that fails puts the connect on start off until after the click, and a
\* Connect of a window that has been closed may be served late.
UserIntent ==
  Quiet /\ past.want = "down" /\ faults \cap {"hasty", "read", "lag"} = {} => ctl.st = "idle"

\* The application connects by itself at most once in a launch, however often
\* its window is closed and opened (maybeAutoConnect, createAutoConnectClaim).
AutoConnectOnce == past.autos <= 1

\* Probing comes to rest: no listed server is "probing" for ever.  A sweep
\* publishes servers:changed, which leads back to maybeAutoProbe: every automatic
\* sweep of a window has a server that no earlier one had.
ProbesSettle ==
  /\ Quiet /\ "probe:result" \notin lost =>
       \A s \in dash.servers \cap Listed : dash.probe[s] # "probing"
  /\ past.sweeps <= Cardinality(dash.swept)

\* The servers a subscription has brought are shown without a restart: the
\* events that report them lead to a snapshot taken afterwards (onSubSynced).
ListFollows ==
  Quiet /\ dash.boot /\ lost \cap {"sub:synced", "servers:changed"} = {} /\ faults \cap {"slow", "lag", "read"} = {}
    => Listed \subseteq dash.servers

\* What the dashboard shows is what is: the connection, the servers, the probes.
DashFollows == DashSettles /\ ListFollows /\ ProbesSettle

\* The chain is up or down because the user, or a launch, asked for it.
ConnectAsAsked == NoRefusedConnect /\ UserIntent /\ AutoConnectOnce

\* A subscription has at most one worker, also while its address changes back
\* and forth and cancelled workers are still fetching (reconcile, done).
OneWorkerPerSub ==
  \A i \in SubIds : \A k \in Places : Alive(i, k) => workers[i] = k

\* Every subscription gets a worker of its present address, none other stays,
\* also after a worker has panicked; after the end of the bridge none is left.
Followed ==
  \A i \in SubIds :
    IF bridge.ctx /\ ~Absent(subs[i])
    THEN \E k \in Places : Alive(i, k) /\ gor[i][k].live /\ gor[i][k].first = subs[i]
    ELSE \A k \in Places : ~Alive(i, k)
WorkersFollow == []OneWorkerPerSub /\ <>[]Followed

\* The connect, switch and reconnect sequences end, also when the idle event
\* they wait for was dropped by a full channel (RECONNECT_TIMEOUT_MS).
FlowEnds == (flow.kind # "none") ~> (flow.kind = "none" \/ bridge.eof)

\* The poller runs while the Logs tab is open, and no longer than that unless
\* the window was closed with the tab open.
PollerFollowsTab ==
  NoLogCalls /\ faults \cap {"quick"} = {} =>
    /\ logs.tab => cancel # 0 /\ poll[cancel].live
    /\ ~logs.tab /\ win.gen = 1 /\ win.open => cancel = 0

\* An engine's line reaches the buffer whole and once, whatever the pieces in
\* which it was written and read, and across a rotation of the file, as long as
\* one poller at a time reads it.
LinesWhole ==
  faults \cap {"quick", "overlap", "window"} = {} =>
    \A n \in DOMAIN buf.ring : ~Source(buf.ring[n]) =>
      /\ buf.ring[n].line = Whole(buf.ring[n].line[1].line)
      /\ \A m \in DOMAIN buf.ring : m # n => buf.ring[m].line # buf.ring[n].line

\* The open tab shows the latest lines that the buffer holds, also those that
\* came between the backlog and the subscription (Start, startLogs, append).
LogsConverge ==
  logs.on /\ logs.tab /\ wire = <<>> /\ queue = <<>> /\ pend = <<>> /\ NoLogCalls
    /\ bridge.ctx /\ "log:line" \notin lost /\ faults \cap {"quick", "swap", "lag"} = {} =>
    \A e \in Range(Lastly(buf.ring, TailLimit)) : e \in Range(logs.entries)

\* The Logs tab is served while it is open, with whole lines and the latest ones.
LogTabFaithful == PollerFollowsTab /\ LinesWhole /\ LogsConverge
=============================================================================
