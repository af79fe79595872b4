------------------------------ MODULE DashStore ------------------------------
(***************************************************************************)
(* dashStore.ts: what the interface shows of the connection and the        *)
(* sequences of calls behind its buttons (connect, switch server, switch   *)
(* mode, reconnect, disconnect, probe, connect on start), over the         *)
(* bridge's answers and events.  The controller is ChainController seen    *)
(* from outside: what it answers, publishes and reports as its status.     *)
(***************************************************************************)
EXTENDS RefreshDriver

CONSTANTS
  Servers,      \* all server ids
  Reachable     \* those that answer a probe

Modes == {"tun", "sysproxy"}
NoServer == "none"

VARIABLES
  ctl,        \* the controller: st, cleanupPending, server and mode
  cfg,        \* settings: the default mode, connect on start; the helper runs
  measured,   \* servers with a latency in servers.json
  dash,       \* the store's state and its module variables
  flow,       \* connectInFlight: its kind, what it awaits, its target
  keep,       \* localStorage: lastError and lastServerId; main's claim
  past        \* what has happened: the user's last wish, automatic connects,
              \* refused ones, sweeps of this window

dashv == <<ctl, cfg, measured, dash, flow, keep, past>>

NoFlow == [kind |-> "none", step |-> "none", server |-> NoServer, mode |-> "tun"]
NewDash(err) ==
  [status |-> "idle", mode |-> "tun", server |-> NoServer, err |-> err, boot |-> FALSE,
   servers |-> {}, measured |-> {}, probe |-> [s \in Servers |-> "none"],
   swept |-> {}, sweeping |-> FALSE, reading |-> TRUE, auto |-> "fresh", may |-> {}]

First == CHOOSE s \in Manual : TRUE

\* A window that has loaded its snapshot
Loaded ==
  [NewDash(FALSE) EXCEPT !.status = IF ctl.st = "up" THEN "connected" ELSE "idle", !.server = ctl.server,
     !.boot = TRUE, !.servers = Listed, !.measured = measured \cap Listed, !.swept = Listed,
     !.reading = FALSE, !.auto = "done"]

\* The window loads, it has loaded, or the application is in the tray.  A chain
\* may have been adopted.
DashInit ==
  /\ win \in [open : BOOLEAN, gen : {1}]
  /\ ctl \in {[st |-> "idle", pending |-> FALSE, server |-> NoServer, mode |-> "tun"],
              [st |-> "up", pending |-> FALSE, server |-> First, mode |-> "tun"]}
  /\ cfg \in [mode : {"tun"}, auto : BOOLEAN, helper : {TRUE}] /\ measured \in {{}, Servers}
  /\ dash \in {NewDash(FALSE), Loaded} /\ flow = NoFlow
  /\ keep = [err |-> FALSE, last |-> First, claim |-> ~dash.boot]
  /\ past = [want |-> "none", autos |-> 0, refused |-> FALSE, sweeps |-> 0]
  /\ calls = IF win.open /\ ~dash.boot THEN <<Request("snapshot", <<>>)>> ELSE <<>>

Status(st) == [topic |-> "vpn:status", status |-> st, server |-> NoServer, mode |-> ""]
ConnectedTo(s, m) == [topic |-> "vpn:status", status |-> "connected", server |-> s, mode |-> m]
ChainError == [topic |-> "chain:error"]

---------------------------------------------------------------------------
(* The bridge: RunService, AppService, ServersService, SettingsService     *)

\* RunService.Connect and Controller.Start; Stop holds opMu while it works.
Connect(i) ==
  /\ Runs(i, "connect", "new") /\ ctl.st # "stopping"
  /\ LET r == calls[i].req
         busy == ctl.st \in {"starting", "up"}
     IN /\ past' = [past EXCEPT !.refused = @ \/ busy]
        /\ \/ /\ busy \/ r.server \notin Listed
              /\ Finish(i, Failed) /\ UNCHANGED ctl /\ Publish(<<>>)
           \/ /\ ~busy /\ r.server \in Listed
              /\ ctl' = [ctl EXCEPT !.st = "starting", !.server = r.server, !.mode = r.mode]
              /\ Publish(<<Status("connecting")>>) /\ Finish(i, Fine)
  /\ UNCHANGED <<cfg, measured, dash, flow, keep>>

\* The goroutine of Start: bringUp has ended.  A cleanup owed from before is done
\* with, unless the proxy cannot be cleared.
BringUpDone ==
  /\ ctl.st = "starting" /\ Prompt
  /\ \E pending \in {FALSE, ctl.pending /\ "teardown" \in faults} :
       ctl' = [ctl EXCEPT !.st = "up", !.pending = pending]
  /\ Publish(<<ConnectedTo(ctl.server, ctl.mode)>>)
  /\ UNCHANGED <<calls, cfg, measured, dash, flow, keep, past>>

BringUpFails ==
  /\ ctl.st = "starting" /\ "bringup" \in faults /\ Prompt
  /\ ctl' = [ctl EXCEPT !.st = "idle", !.server = NoServer]
  /\ Publish(<<ChainError, Status(IF ctl.pending THEN "error" ELSE "idle")>>)
  /\ UNCHANGED <<calls, cfg, measured, dash, flow, keep, past>>

\* runPoller finds the chain down; the kill switch, or a teardown that fails,
\* leaves the cleanup pending.
ChainDrops ==
  /\ ctl.st = "up" /\ Prompt /\ Spend("drops")
  /\ \E pending \in BOOLEAN :
        /\ "killswitch" \in faults => pending
        /\ pending => faults \cap {"killswitch", "teardown"} # {}
        /\ ctl' = [ctl EXCEPT !.st = "idle", !.server = NoServer, !.pending = pending]
        /\ Publish(<<ChainError, Status(IF pending THEN "error" ELSE "idle")>>)
  /\ UNCHANGED <<calls, cfg, measured, dash, flow, keep, past>>

\* Speed samples of a connection and progress of a geo download.
Noise ==
  /\ ctl.st \in {"starting", "up"} /\ Spend("noise")
  /\ Publish(<<[topic |-> IF ctl.st = "up" THEN "vpn:speed" ELSE "geo:progress"]>>)
  /\ UNCHANGED <<calls, dashv>>

\* RunService.Disconnect and Controller.Stop
Disconnect(i) ==
  /\ Runs(i, "disconnect", "new") /\ ctl.st # "stopping"
  /\ \/ /\ ctl.st = "idle" /\ ~ctl.pending
        /\ Finish(i, Fine) /\ UNCHANGED ctl /\ Publish(<<>>)
     \/ /\ ctl.st # "idle" \/ ctl.pending
        /\ ctl' = [ctl EXCEPT !.st = "stopping", !.pending = FALSE, !.server = NoServer]
        /\ Publish(<<Status("disconnecting")>>) /\ Stage(i, "mid", Failed)
  /\ UNCHANGED <<cfg, measured, dash, flow, keep, past>>

DisconnectEnds(i) ==
  /\ Runs(i, "disconnect", "mid")
  /\ \/ /\ ctl' = [ctl EXCEPT !.st = "idle"]
        /\ Publish(<<Status("idle")>>) /\ Finish(i, Fine)
     \/ /\ "teardown" \in faults
        /\ ctl' = [ctl EXCEPT !.st = "idle", !.pending = TRUE]
        /\ Publish(<<Status("error")>>) /\ Finish(i, Failed)
  /\ UNCHANGED <<cfg, measured, dash, flow, keep, past>>

\* Controller.Status
CtlStatus ==
  IF ctl.st \in {"starting", "up"} THEN [status |-> "connected", server |-> ctl.server, mode |-> ctl.mode]
  ELSE IF ctl.pending THEN [status |-> "error", server |-> NoServer, mode |-> ctl.mode]
  ELSE [status |-> "idle", server |-> NoServer, mode |-> cfg.mode]

\* AppService.GetSnapshot: the stores and the status, then the helper probe,
\* which may be slow.
GetSnapshot(i) ==
  /\ Runs(i, "snapshot", "new")
  /\ \/ "read" \in faults /\ Finish(i, Failed)
     \/ LET c == CtlStatus
        IN Stage(i, IF "slow" \in faults THEN "mid" ELSE "done",
                 Value([status |-> c.status, server |-> c.server, mode |-> c.mode, servers |-> Listed,
                        measured |-> measured \cap Listed, may |-> cfg.auto /\ cfg.helper]))
  /\ UNCHANGED <<queue, lost, dashv>>

SnapshotEnds(i) ==
  /\ Runs(i, "snapshot", "mid")
  /\ Finish(i, calls[i].res)
  /\ UNCHANGED <<queue, lost, dashv>>

\* ServersService.TestLatency: the list, the probes, then the latencies by id.
TestLatency(i) ==
  /\ Runs(i, "probe", "new")
  /\ LET targets == IF calls[i].req.server = NoServer THEN Listed ELSE {calls[i].req.server} \cap Listed
     IN IF targets = {} /\ calls[i].req.server # NoServer THEN Finish(i, Failed)
        ELSE Stage(i, "mid", Value(targets))
  /\ UNCHANGED <<queue, lost, dashv>>

ProbeEnds(i) ==
  /\ Runs(i, "probe", "mid")
  /\ LET up == calls[i].res.val \cap Reachable
     IN /\ measured' = measured \cup (up \cap Listed)
        /\ Publish(<<[topic |-> "probe:result", up |-> up, down |-> calls[i].res.val \ up],
                     [topic |-> "servers:changed"]>>)
  /\ Finish(i, Fine)
  /\ UNCHANGED <<ctl, cfg, dash, flow, keep, past>>

\* SettingsService.Update of network.defaultMode
UpdateMode(i) ==
  /\ Runs(i, "mode", "new")
  /\ cfg' = [cfg EXCEPT !.mode = calls[i].req.mode] /\ Finish(i, Fine)
  /\ UNCHANGED <<queue, lost, ctl, measured, dash, flow, keep, past>>

---------------------------------------------------------------------------
(* dashStore.ts.  An operator on u, the store with its flow, its storage   *)
(* and the requests it has sent in this turn of the event loop.            *)

Now(c) == [d |-> dash, f |-> flow, k |-> keep, p |-> past, sent |-> c]
\* A request after the input was closed goes nowhere.
Send(u, m, args) == IF bridge.eof THEN u ELSE [u EXCEPT !.sent = Append(@, Request(m, args))]
Becomes(u) == /\ dash' = u.d /\ flow' = u.f /\ keep' = u.k /\ past' = u.p /\ calls' = u.sent

SetError(u, on) == [u EXCEPT !.d.err = on, !.k.err = on]

\* bootstrap: one at a time
Bootstrap(u) ==
  IF u.d.reading THEN u ELSE Send([u EXCEPT !.d.reading = TRUE], "snapshot", <<>>)

\* The flow goes on once the store is idle: Connect.
StartChain(u) ==
  LET m == IF u.f.kind = "connect" THEN u.d.mode ELSE u.f.mode
  IN Send([u EXCEPT !.d.mode = m, !.f.step = "start"], "connect", [server |-> u.f.server, mode |-> m, by |-> "flow"])
StopChain(u) == Send([u EXCEPT !.f.step = "stop"], "disconnect", [by |-> "flow"])

\* Variant: a failed connect leaves the store in its optimistic state.
FlowFailsAsIs(u) == [SetError(u, TRUE) EXCEPT !.f = NoFlow]

\* The catch of doConnect, and that of doSwitchMode and doReconnect.
FlowFails(u) ==
  LET e == SetError(u, TRUE)
  IN [e EXCEPT !.f = NoFlow, !.d.status = IF u.f.kind = "connect" THEN "idle" ELSE @]

\* Variant: doConnect looks at the status it has just set.
DoConnectLate(u, s) ==
  StartChain([u EXCEPT !.d.status = "connecting", !.d.server = IF s \in u.d.servers THEN s ELSE @,
                       !.f = [NoFlow EXCEPT !.kind = "connect", !.server = s]])

\* doConnect: the optimistic update, and Disconnect first when connected.
DoConnect(u, s) ==
  LET v == [u EXCEPT !.d.status = "connecting", !.d.server = IF s \in u.d.servers THEN s ELSE @,
                     !.f = [NoFlow EXCEPT !.kind = "connect", !.server = s]]
  IN IF u.d.status = "connected" THEN StopChain(v) ELSE StartChain(v)

\* dashConnect: a call while another is under way is absorbed.
DashConnect(u, s) == IF u.f.kind # "none" THEN u ELSE DoConnect(u, s)

\* onVpnStatus, with resolveIdleAck
OnVpnStatus(u, e) ==
  LET v == [u EXCEPT !.d.status = e.status]
      w == IF e.status = "connected" /\ e.server # NoServer
           THEN [v EXCEPT !.d.server = e.server, !.d.mode = e.mode, !.k.last = e.server] ELSE v
      x == IF e.status = "idle" /\ u.f.step = "idle" THEN StartChain(w) ELSE w
  IN IF u.d.boot THEN x ELSE Bootstrap(x)

\* Variant: only the servers that answered leave "probing".
OnProbeResultOk(u, e) ==
  [u EXCEPT !.d.measured = @ \cup (e.up \cap u.d.servers),
            !.d.probe = [s \in Servers |-> IF s \in e.up THEN "ok" ELSE @[s]]]

\* onProbeResult
OnProbeResult(u, e) ==
  [u EXCEPT !.d.measured = @ \cup (e.up \cap u.d.servers),
            !.d.probe = [s \in Servers |-> IF s \in e.up THEN "ok" ELSE IF s \in e.down THEN "error" ELSE @[s]]]

\* Variant: only the latency tells whether a server has been swept.
AutoProbeByLatency(u) ==
  IF u.d.servers = {} \/ u.d.sweeping \/ u.d.servers \subseteq u.d.measured THEN u
  ELSE Send([u EXCEPT !.d.swept = @ \cup u.d.servers, !.d.sweeping = TRUE, !.p.sweeps = @ + 1],
            "probe", [server |-> NoServer, by |-> "sweep"])

\* maybeAutoProbe
AutoProbe(u) ==
  IF u.d.servers = {} \/ u.d.sweeping \/ u.d.servers \subseteq u.d.measured \cup u.d.swept THEN u
  ELSE Send([u EXCEPT !.d.swept = @ \cup u.d.servers, !.d.sweeping = TRUE, !.p.sweeps = @ + 1],
            "probe", [server |-> NoServer, by |-> "sweep"])

\* doBootstrap with a snapshot: "connected" does not end the connecting stage,
\* and a chosen server stays while the chain has none.
DoBootstrap(u, snap) ==
  LET st == IF u.d.status = "connecting" /\ snap.status = "connected" THEN "connecting" ELSE snap.status
      stays == st # "connected" /\ snap.server = NoServer
      v == [u EXCEPT !.d.status = st, !.d.mode = snap.mode, !.d.boot = TRUE, !.d.reading = FALSE,
                     !.d.server = IF stays THEN @ ELSE snap.server,
                     !.d.servers = snap.servers, !.d.measured = snap.measured,
                     !.d.auto = IF @ = "fresh" THEN "claim" ELSE @,
                     !.d.may = IF u.d.auto = "fresh" /\ snap.may /\ snap.status = "idle" THEN snap.servers ELSE @]
  IN AutoProbe(v)

\* doConnect, doSwitchMode and doReconnect after an await
FlowAnswer(u, m, ok) ==
  IF ~ok THEN FlowFails(u)
  ELSE IF m = "connect" THEN [u EXCEPT !.f = NoFlow]
  ELSE IF u.d.status = "idle" THEN StartChain(u) ELSE [u EXCEPT !.f.step = "idle"]

\* dashDisconnect after its await
DisconnectAnswer(u, ok) ==
  IF ok THEN OnVpnStatus(SetError(u, FALSE), Status("idle"))
  ELSE SetError([u EXCEPT !.d.status = "error"], TRUE)

\* TestLatency's answer, for a sweep and for the probe buttons
ProbeAnswer(u, r, ok) ==
  IF r.by = "sweep" THEN [u EXCEPT !.d.sweeping = FALSE]
  ELSE IF ok THEN u
  ELSE [u EXCEPT !.d.probe = [s \in Servers |-> IF s \in r.ids THEN "error" ELSE @[s]]]

Answer(u, r, res) ==
  CASE r.m = "snapshot" -> IF res.ok THEN DoBootstrap(u, res.val)
                           ELSE SetError([u EXCEPT !.d.reading = FALSE], TRUE)
    [] r.m \in {"connect", "disconnect"} /\ r.by = "flow" -> FlowAnswer(u, r.m, res.ok)
    [] r.m = "disconnect" /\ r.by = "user" -> DisconnectAnswer(u, res.ok)
    [] r.m = "probe" -> ProbeAnswer(u, r, res.ok)
    [] OTHER -> u

\* Variant: the list is read again for servers:changed alone.
OnEventChanged(u, e) ==
  CASE e.topic = "vpn:status" -> OnVpnStatus(u, e)
    [] e.topic = "chain:error" -> SetError(u, TRUE)
    [] e.topic = "servers:changed" -> Bootstrap(u)
    [] e.topic = "probe:result" -> OnProbeResult(u, e)
    [] OTHER -> u

\* registerEventHandlers
OnEvent(u, e) ==
  CASE e.topic = "vpn:status" -> OnVpnStatus(u, e)
    [] e.topic = "chain:error" -> SetError(u, TRUE)
    [] e.topic \in {"sub:synced", "servers:changed"} -> Bootstrap(u)
    [] e.topic = "probe:result" -> OnProbeResult(u, e)
    [] OTHER -> u

DashTopics == Topics \ {"log:line"}
DashCalls == {"snapshot", "connect", "disconnect", "probe", "mode"}

\* The window takes the next line of the output that is the store's.
DashReceives ==
  /\ wire # <<>> /\ win.open
  /\ LET e == Head(wire)
     IN \/ e.topic \in DashTopics /\ Becomes(OnEvent(Now(calls), e))
        \/ /\ e.topic = "answer" /\ e.req.m \in DashCalls /\ e.req.win = win.gen
           /\ Becomes(Answer(Now(calls), e.req, e.res))
  /\ wire' = Tail(wire)
  /\ UNCHANGED <<queue, lost, ctl, cfg, measured>>

\* RECONNECT_TIMEOUT_MS: five seconds, longer than an event is under way
\* unless lines lag.
Under == {i \in DOMAIN queue : queue[i].topic = "vpn:status" /\ queue[i].status = "idle"} \cup
         {i \in DOMAIN wire : wire[i].topic = "vpn:status" /\ wire[i].status = "idle"}

\* Variant: without the timer.
NoIdleTimeout == FALSE /\ UNCHANGED <<queue, lost, wire, calls, dashv>>

IdleTimeout ==
  /\ win.open /\ flow.step = "idle" /\ (Under = {} \/ "lag" \in faults)
  /\ Becomes(FlowFails(Now(calls)))
  /\ UNCHANGED <<queue, lost, wire, ctl, cfg, measured>>

\* Variant: the main process does not remember that it has said yes.
ClaimForgets(u) == u

\* createAutoConnectClaim: yes once in a launch of the application.
Claim(u) == [u EXCEPT !.k.claim = FALSE]

\* maybeAutoConnect after ClaimAutoConnect; it goes by the snapshot it had.
AutoConnect ==
  /\ win.open /\ ~bridge.eof /\ dash.auto = "claim"
  /\ LET u == Claim([Now(calls) EXCEPT !.d.auto = "done", !.d.may = {}])
     IN Becomes(IF keep.claim /\ keep.last \in dash.may
              THEN DashConnect([u EXCEPT !.p.autos = @ + 1], keep.last) ELSE u)
  /\ UNCHANGED <<queue, lost, wire, ctl, cfg, measured>>

---------------------------------------------------------------------------
(* The user: Dashboard.tsx, Servers.tsx and AppShell.tsx                   *)

EffectiveStatus == IF dash.status = "idle" /\ dash.err THEN "error" ELSE dash.status

\* The window has loaded, with or without a snapshot, and has connected on start
\* if it should.
Launched == dash.auto = "done" \/ (dash.auto = "fresh" /\ ~dash.reading)

\* Clicks come between the sequences of calls, and when the lines under way have
\* arrived, unless the user is hasty.
Clicks(kind) ==
  /\ CanSend /\ Spend(kind)
  /\ "hasty" \in faults \/ (flow.kind = "none" /\ Launched /\ queue = <<>> /\ wire = <<>>)
  /\ UNCHANGED <<queue, lost, wire, ctl, cfg, measured>>

Wish(u, w) == [u EXCEPT !.p.want = w]

\* The orb and the server rows, when idle or in error; a quick switch, when connected.
ClickConnect(s) ==
  /\ s \in dash.servers
  /\ \/ EffectiveStatus \in {"idle", "error"}
     \/ EffectiveStatus = "connected" /\ s # dash.server
  /\ Clicks("clicks")
  /\ Becomes(Wish(DashConnect(Now(calls), s), "up"))

\* dashDisconnect
ClickDisconnect ==
  /\ EffectiveStatus \in {"connected", "error"}
  /\ Clicks("clicks")
  /\ Becomes(Send(Wish([Now(calls) EXCEPT !.d.status = "disconnecting"], "down"), "disconnect", [by |-> "user"]))

\* dashSwitchMode
ClickMode(m) ==
  /\ m # dash.mode /\ dash.status \notin {"connecting", "disconnecting"}
  /\ Clicks("modes")
  /\ LET u == Send(Now(calls), "mode", [mode |-> m])
     IN Becomes(IF dash.status # "connected" THEN [u EXCEPT !.d.mode = m]
              ELSE IF flow.kind # "none" \/ dash.server = NoServer THEN u
              ELSE StopChain([Wish(u, "up") EXCEPT !.f = [kind |-> "switch", step |-> "stop", server |-> dash.server, mode |-> m]]))

\* dashReconnect, from the toast that asks to apply new settings
ClickReconnect ==
  /\ dash.server # NoServer /\ flow.kind = "none" /\ (dash.status = "connected" \/ "hasty" \in faults)
  /\ Clicks("modes")
  /\ LET u == [Wish(Now(calls), "up") EXCEPT !.f = [kind |-> "reconnect", step |-> "stop", server |-> dash.server, mode |-> dash.mode]]
     IN Becomes(IF dash.status = "connected" THEN StopChain(u) ELSE StartChain(u))

\* dashProbeOne and dashProbeAll
ClickProbe(s) ==
  /\ s \in dash.servers \cup {NoServer}
  /\ Clicks("probes")
  /\ LET ids == IF s = NoServer THEN dash.servers ELSE {s}
     IN Becomes(Send([Now(calls) EXCEPT !.d.probe = [t \in Servers |-> IF t \in ids THEN "probing" ELSE @[t]]],
                   "probe", [server |-> s, by |-> "user", ids |-> ids]))

\* A new window loads the store afresh.
DashReopens == dash' = NewDash(keep.err) /\ UNCHANGED flow
=============================================================================
