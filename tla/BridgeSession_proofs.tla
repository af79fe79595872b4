------------------------ MODULE BridgeSession_proofs ------------------------
(***************************************************************************)
(* Proofs about BridgeSession, for any servers, subscriptions, polls and   *)
(* bounds and any admitted faults.                                         *)
(*                                                                         *)
(* Every turn of the renderer's event loop is Steady: whatever handlers of *)
(* the store run in it, the claim of the connect on start and the count of *)
(* launches stay as they are, requests are only added, and none is sent to *)
(* a bridge whose input is closed.  On that rest the inductive invariants  *)
(* Draining, on the order in which input, context and forwarder end;       *)
(* Claimed, on the claim; and Tabs, on how far the one call of the Logs    *)
(* tab that is under way has got with the count of subscribers and with    *)
(* the poller.  Rostered carries the workers' table.                       *)
(*                                                                         *)
(* The lines of a log rest on Lone, that one poller at a time is alive;    *)
(* Texts, that pieces are what is read; and Streamed, that the buffered    *)
(* lines, the rest that is kept and the file from its offset on make up    *)
(* what was written, nothing twice.  The tab rests on Shapes, on the       *)
(* carriers of a line from the ring to the page; Slotted, that one call or *)
(* one answer of the tab is under way; and Converging, that the page, the  *)
(* lines on their way and the ring hold the same ones, in the order of     *)
(* their numbers.                                                          *)
(***************************************************************************)
EXTENDS BridgeSession, FiniteSetTheorems, WellFoundedInduction, TLAPS

\* What one turn of the event loop works on: the store, the flow under way, what
\* outlives the window, the marks of the past and the requests sent.
Turn(u) ==
  /\ DOMAIN u = {"d", "f", "k", "p", "sent"}
  /\ "claim" \in DOMAIN u.k /\ "autos" \in DOMAIN u.p

\* The two calls of the Logs tab.  No other handler sends one of them.
LogMethods == {"logs.start", "logs.stop"}

\* A sequence of requests, and the same with requests of the store behind them.
IsCalls(s) ==
  /\ \E S : s \in Seq(S)
  /\ \A n \in 1..Len(s) : DOMAIN s[n] = {"req", "st", "res"}
Extended(s, t) ==
  IsCalls(s) => /\ IsCalls(t) /\ Len(s) <= Len(t)
                /\ \A n \in 1..Len(s) : t[n] = s[n]
                /\ \A n \in (Len(s) + 1)..Len(t) : t[n].req.m \notin LogMethods
\* The same, and nothing at all once standard input is closed.
Follows(s, t) == (bridge.eof => t = s) /\ Extended(s, t)

\* The store after some steps of one turn of the event loop: the claim and the
\* count of launches stay, and nothing is sent once the input is closed.
Steady(u, v) ==
  Turn(u) => /\ Turn(v) /\ v.k.claim = u.k.claim /\ v.p.autos = u.p.autos
             /\ Follows(u.sent, v.sent)

LEMMA CallsSeq == ASSUME NEW s, IsCalls(s) PROVE Len(s) \in Nat /\ DOMAIN s = 1..Len(s)
  BY DEF IsCalls

LEMMA ExtendedSelf == ASSUME NEW s PROVE Extended(s, s)
  <1> SUFFICES ASSUME IsCalls(s) PROVE /\ Len(s) <= Len(s)
                                       /\ \A n \in (Len(s) + 1)..Len(s) : s[n].req.m \notin LogMethods
    BY DEF Extended
  <1> QED BY CallsSeq

LEMMA FollowsSelf == ASSUME NEW s PROVE Follows(s, s)
  BY ExtendedSelf DEF Follows

LEMMA ExtendedChain ==
  ASSUME NEW r, NEW s, NEW t, Extended(r, s), Extended(s, t) PROVE Extended(r, t)
  <1> SUFFICES ASSUME IsCalls(r) PROVE Extended(r, t)
    BY DEF Extended
  <1>1. IsCalls(s) /\ IsCalls(t)
    BY DEF Extended
  <1>2. Len(r) \in Nat /\ Len(s) \in Nat /\ Len(t) \in Nat
    BY <1>1, CallsSeq
  <1> QED BY <1>1, <1>2 DEF Extended

LEMMA AppendCalls ==
  ASSUME NEW s, NEW e, IsCalls(s), DOMAIN e = {"req", "st", "res"}
  PROVE  /\ IsCalls(Append(s, e)) /\ Len(Append(s, e)) = Len(s) + 1 /\ Len(s) \in Nat
         /\ \A n \in 1..Len(s) : Append(s, e)[n] = s[n]
         /\ Append(s, e)[Len(s) + 1] = e
  <1> SUFFICES ASSUME NEW S, s \in Seq(S)
               PROVE  /\ IsCalls(Append(s, e)) /\ Len(Append(s, e)) = Len(s) + 1 /\ Len(s) \in Nat
                      /\ \A n \in 1..Len(s) : Append(s, e)[n] = s[n]
                      /\ Append(s, e)[Len(s) + 1] = e
    BY DEF IsCalls
  <1>1. s \in Seq(S \cup {e}) /\ e \in S \cup {e}
    OBVIOUS
  <1>2. Append(s, e) \in Seq(S \cup {e}) /\ Len(Append(s, e)) = Len(s) + 1 /\ Len(s) \in Nat
        /\ (\A n \in 1..Len(s) : Append(s, e)[n] = s[n]) /\ Append(s, e)[Len(s) + 1] = e
    BY <1>1
  <1>3. \A n \in 1..Len(Append(s, e)) : DOMAIN Append(s, e)[n] = {"req", "st", "res"}
    BY <1>2 DEF IsCalls
  <1>4. IsCalls(Append(s, e))
    BY <1>2, <1>3 DEF IsCalls
  <1> QED BY <1>2, <1>4

LEMMA ExtendedAppend ==
  ASSUME NEW s, NEW e, e.req.m \notin LogMethods, DOMAIN e = {"req", "st", "res"}
  PROVE  Extended(s, Append(s, e))
  <1> SUFFICES ASSUME IsCalls(s) PROVE Extended(s, Append(s, e))
    BY DEF Extended
  <1> QED BY AppendCalls DEF Extended

LEMMA SteadySelf == ASSUME NEW u PROVE Steady(u, u)
  BY FollowsSelf DEF Steady

LEMMA SteadyChain ==
  ASSUME NEW u, NEW v, NEW w, Steady(u, v), Steady(v, w) PROVE Steady(u, w)
  BY ExtendedChain DEF Steady, Follows

(***************************************************************************)
(* dashStore: every handler and every answer is steady.                    *)
(***************************************************************************)
LEMMA RequestIs ==
  ASSUME NEW m, NEW args, "m" \notin DOMAIN args 
  PROVE  Request(m, args).req.m = m /\ DOMAIN Request(m, args) = {"req", "st", "res"}
  BY DEF Request

LEMMA SendSteady ==
  ASSUME NEW u, NEW m, NEW args, m \notin LogMethods, "m" \notin DOMAIN args
  PROVE  Steady(u, Send(u, m, args))
  <1> DEFINE r == Request(m, args)
  <1>1. Extended(u.sent, Append(u.sent, r))
    BY RequestIs, ExtendedAppend
  <1> HIDE DEF r
  <1>2. CASE bridge.eof
    BY <1>2, SteadySelf DEF Send
  <1>3. CASE ~bridge.eof
    <2>1. Send(u, m, args) = [u EXCEPT !.sent = Append(u.sent, r)]
      BY <1>3 DEF Send, r
    <2> QED BY <1>1, <1>3, <2>1 DEF Steady, Turn, Follows
  <1> QED BY <1>2, <1>3

LEMMA SetErrorSteady ==
  ASSUME NEW u, NEW on PROVE Steady(u, SetError(u, on))
  BY FollowsSelf DEF Steady, SetError, Turn

LEMMA BootstrapSteady == ASSUME NEW u PROVE Steady(u, Bootstrap(u))
  <1> DEFINE v == [u EXCEPT !.d.reading = TRUE]
  <1>1. Steady(u, v)
    BY FollowsSelf DEF Steady, Turn
  <1>2. Steady(v, Send(v, "snapshot", <<>>))
    BY SendSteady DEF LogMethods
  <1> QED BY <1>1, <1>2, SteadyChain, SteadySelf DEF Bootstrap

LEMMA StartChainSteady == ASSUME NEW u PROVE Steady(u, StartChain(u))
  <1> DEFINE m == IF u.f.kind = "connect" THEN u.d.mode ELSE u.f.mode
             v == [u EXCEPT !.d.mode = m, !.f.step = "start"]
             a == [server |-> u.f.server, mode |-> m, by |-> "flow"]
  <1>1. Steady(u, v)
    BY FollowsSelf DEF Steady, Turn
  <1>2. Steady(v, Send(v, "connect", a))
    BY SendSteady DEF LogMethods
  <1>3. StartChain(u) = Send(v, "connect", a)
    BY DEF StartChain
  <1> HIDE DEF v, a
  <1> QED BY <1>1, <1>2, <1>3, SteadyChain

LEMMA StopChainSteady == ASSUME NEW u PROVE Steady(u, StopChain(u))
  <1> DEFINE v == [u EXCEPT !.f.step = "stop"]
  <1>1. Steady(u, v)
    BY FollowsSelf DEF Steady, Turn
  <1>2. Steady(v, Send(v, "disconnect", [by |-> "flow"]))
    BY SendSteady DEF LogMethods
  <1>3. StopChain(u) = Send(v, "disconnect", [by |-> "flow"])
    BY DEF StopChain
  <1> HIDE DEF v
  <1> QED BY <1>1, <1>2, <1>3, SteadyChain

LEMMA FlowFailsSteady == ASSUME NEW u PROVE Steady(u, FlowFails(u))
  <1> DEFINE e == SetError(u, TRUE)
  <1>1. Steady(u, e)
    BY SetErrorSteady
  <1>2. FlowFails(u) = [e EXCEPT !.f = NoFlow, !.d.status = IF u.f.kind = "connect" THEN "idle" ELSE @]
    BY DEF FlowFails
  <1> HIDE DEF e
  <1>3. Steady(e, FlowFails(u))
    BY <1>2, FollowsSelf DEF Steady, Turn
  <1> QED BY <1>1, <1>3, SteadyChain

LEMMA DoConnectSteady == ASSUME NEW u, NEW s PROVE Steady(u, DoConnect(u, s))
  <1> DEFINE v == [u EXCEPT !.d.status = "connecting", !.d.server = IF s \in u.d.servers THEN s ELSE @,
                            !.f = [NoFlow EXCEPT !.kind = "connect", !.server = s]]
  <1>1. Steady(u, v)
    BY FollowsSelf DEF Steady, Turn
  <1>2. DoConnect(u, s) = IF u.d.status = "connected" THEN StopChain(v) ELSE StartChain(v)
    BY DEF DoConnect
  <1> HIDE DEF v
  <1> QED BY <1>1, <1>2, StopChainSteady, StartChainSteady, SteadyChain

LEMMA DashConnectSteady == ASSUME NEW u, NEW s PROVE Steady(u, DashConnect(u, s))
  BY DoConnectSteady, SteadySelf DEF DashConnect

LEMMA OnVpnStatusSteady == ASSUME NEW u, NEW e PROVE Steady(u, OnVpnStatus(u, e))
  <1> DEFINE v == [u EXCEPT !.d.status = e.status]
             w == IF e.status = "connected" /\ e.server # NoServer
                  THEN [v EXCEPT !.d.server = e.server, !.d.mode = e.mode, !.k.last = e.server] ELSE v
             x == IF e.status = "idle" /\ u.f.step = "idle" THEN StartChain(w) ELSE w
  <1>1. Steady(u, v)
    BY FollowsSelf DEF Steady, Turn
  <1>2. OnVpnStatus(u, e) = IF u.d.boot THEN x ELSE Bootstrap(x)
    BY DEF OnVpnStatus
  <1> HIDE DEF v
  <1>3. Steady(v, w)
    BY FollowsSelf DEF Steady, Turn
  <1> HIDE DEF w
  <1>4. Steady(w, x)
    BY StartChainSteady, SteadySelf
  <1> HIDE DEF x
  <1>5. Steady(x, OnVpnStatus(u, e))
    BY <1>2, BootstrapSteady, SteadySelf
  <1> QED BY <1>1, <1>3, <1>4, <1>5, SteadyChain

LEMMA AutoProbeSteady == ASSUME NEW u PROVE Steady(u, AutoProbe(u))
  <1> DEFINE v == [u EXCEPT !.d.swept = @ \cup u.d.servers, !.d.sweeping = TRUE, !.p.sweeps = @ + 1]
             a == [server |-> NoServer, by |-> "sweep"]
  <1>1. Steady(u, v)
    BY FollowsSelf DEF Steady, Turn
  <1>2. \/ AutoProbe(u) = u
        \/ AutoProbe(u) = Send(v, "probe", a)
    BY DEF AutoProbe
  <1> HIDE DEF v
  <1>3. Steady(v, Send(v, "probe", a))
    BY SendSteady DEF LogMethods
  <1> HIDE DEF a
  <1> QED BY <1>1, <1>2, <1>3, SteadySelf, SteadyChain

LEMMA DoBootstrapSteady == ASSUME NEW u, NEW snap PROVE Steady(u, DoBootstrap(u, snap))
  <1> DEFINE st == IF u.d.status = "connecting" /\ snap.status = "connected" THEN "connecting" ELSE snap.status
             stays == st # "connected" /\ snap.server = NoServer
             may == IF u.d.auto = "fresh" /\ snap.may /\ snap.status = "idle" THEN snap.servers ELSE u.d.may
             x == [u EXCEPT !.d.status = st, !.d.mode = snap.mode, !.d.boot = TRUE]
             y == [x EXCEPT !.d.reading = FALSE, !.d.server = IF stays THEN u.d.server ELSE snap.server,
                            !.d.servers = snap.servers]
             v == [y EXCEPT !.d.measured = snap.measured,
                            !.d.auto = IF u.d.auto = "fresh" THEN "claim" ELSE u.d.auto, !.d.may = may]
  <1>1. DoBootstrap(u, snap) = AutoProbe(v)
    BY Zenon DEF DoBootstrap
  <1>2. Steady(u, x)
    BY FollowsSelf DEF Steady, Turn
  <1> HIDE DEF x
  <1>3. Steady(x, y)
    BY FollowsSelf DEF Steady, Turn
  <1> HIDE DEF y
  <1>4. Steady(y, v)
    BY FollowsSelf DEF Steady, Turn
  <1> HIDE DEF v
  <1> QED BY <1>1, <1>2, <1>3, <1>4, AutoProbeSteady, SteadyChain

LEMMA FlowAnswerSteady ==
  ASSUME NEW u, NEW m, NEW ok PROVE Steady(u, FlowAnswer(u, m, ok))
  <1>1. Steady(u, [u EXCEPT !.f = NoFlow]) /\ Steady(u, [u EXCEPT !.f.step = "idle"])
    BY FollowsSelf DEF Steady, Turn
  <1> QED BY <1>1, FlowFailsSteady, StartChainSteady DEF FlowAnswer

LEMMA DisconnectAnswerSteady ==
  ASSUME NEW u, NEW ok PROVE Steady(u, DisconnectAnswer(u, ok))
  <1> DEFINE v == [u EXCEPT !.d.status = "error"]
  <1>1. Steady(u, v)
    BY FollowsSelf DEF Steady, Turn
  <1>2. DisconnectAnswer(u, ok) = IF ok THEN OnVpnStatus(SetError(u, FALSE), Status("idle"))
                                  ELSE SetError(v, TRUE)
    BY DEF DisconnectAnswer
  <1> HIDE DEF v
  <1>3. Steady(u, SetError(v, TRUE))
    BY <1>1, SetErrorSteady, SteadyChain
  <1>4. Steady(u, OnVpnStatus(SetError(u, FALSE), Status("idle")))
    BY SetErrorSteady, OnVpnStatusSteady, SteadyChain
  <1> QED BY <1>2, <1>3, <1>4

LEMMA ProbeAnswerSteady ==
  ASSUME NEW u, NEW r, NEW ok PROVE Steady(u, ProbeAnswer(u, r, ok))
  <1>1. Steady(u, [u EXCEPT !.d.sweeping = FALSE])
    BY FollowsSelf DEF Steady, Turn
  <1>2. Steady(u, [u EXCEPT !.d.probe = [s \in Servers |-> IF s \in r.ids THEN "error" ELSE @[s]]])
    BY FollowsSelf DEF Steady, Turn
  <1> QED BY <1>1, <1>2, SteadySelf DEF ProbeAnswer

LEMMA AnswerSteady ==
  ASSUME NEW u, NEW r, NEW res PROVE Steady(u, Answer(u, r, res))
  <1> DEFINE v == [u EXCEPT !.d.reading = FALSE]
  <1>1. Steady(u, v)
    BY FollowsSelf DEF Steady, Turn
  <1> HIDE DEF v
  <1>2. Steady(u, SetError(v, TRUE))
    BY <1>1, SetErrorSteady, SteadyChain
  <1>3. \/ Answer(u, r, res) \in {DoBootstrap(u, res.val), SetError(v, TRUE), FlowAnswer(u, r.m, res.ok)}
        \/ Answer(u, r, res) \in {DisconnectAnswer(u, res.ok), ProbeAnswer(u, r, res.ok), u}
    BY DEF Answer, v
  <1> QED BY <1>2, <1>3, DoBootstrapSteady, FlowAnswerSteady, DisconnectAnswerSteady,
             ProbeAnswerSteady, SteadySelf

LEMMA OnEventSteady ==
  ASSUME NEW u, NEW e PROVE Steady(u, OnEvent(u, e))
  <1>1. Steady(u, OnProbeResult(u, e))
    BY FollowsSelf DEF Steady, Turn, OnProbeResult
  <1>2. OnEvent(u, e) \in {OnVpnStatus(u, e), SetError(u, TRUE), Bootstrap(u), OnProbeResult(u, e), u}
    BY DEF OnEvent
  <1> QED BY <1>1, <1>2, OnVpnStatusSteady, SetErrorSteady, BootstrapSteady, SteadySelf

(***************************************************************************)
(* The end of the bridge and the claim of the connect on start.            *)
(***************************************************************************)
\* Serve waits for its handlers before main cancels the context, and the
\* forwarder leaves only after that, with its channel empty.
Draining ==
  /\ bridge \in [eof : BOOLEAN, ctx : BOOLEAN, fwd : BOOLEAN]
  /\ ~bridge.fwd => ~bridge.ctx /\ queue = <<>>
  /\ ~bridge.ctx => bridge.eof /\ calls = <<>>

\* While the claim can still be taken the application has not connected by itself.
Claimed ==
  /\ "claim" \in DOMAIN keep /\ "autos" \in DOMAIN past
  /\ keep.claim \in BOOLEAN /\ past.autos \in {0, 1} /\ (keep.claim => past.autos = 0)

\* A step that opens no way past the end of the bridge, and one that leaves the claim.
Orderly ==
  /\ bridge' = bridge /\ (~bridge.fwd => queue' = queue)
  /\ bridge.eof /\ calls = <<>> => calls' = calls
Unclaiming ==
  /\ "claim" \in DOMAIN keep' /\ "autos" \in DOMAIN past'
  /\ keep'.claim = keep.claim /\ past'.autos = past.autos

LEMMA OrderlyDrains == ASSUME Draining, Orderly PROVE Draining'
  BY DEF Draining, Orderly

LEMMA UnclaimingClaims == ASSUME Claimed, Unclaiming PROVE Claimed'
  BY DEF Claimed, Unclaiming

LEMMA PublishOrderly == ASSUME NEW es, Publish(es) PROVE ~bridge.fwd => queue' = queue
  BY DEF Publish

LEMMA NowTurn == ASSUME Claimed PROVE Turn(Now(calls))
  BY DEF Turn, Now, Claimed

LEMMA BecomesOrderly ==
  ASSUME Claimed, NEW u, Steady(Now(calls), u), Becomes(u)
  PROVE  Unclaiming /\ Follows(calls, calls')
  <1>1. Turn(u) /\ u.k.claim = keep.claim /\ u.p.autos = past.autos /\ Follows(calls, u.sent)
    BY NowTurn DEF Steady, Now
  <1> QED BY <1>1 DEF Becomes, Unclaiming, Turn

LEMMA HandlesOrderly == ASSUME Claimed, Handles PROVE Orderly /\ Unclaiming
  <1>1. PICK i \in DOMAIN calls :
       \/ Connect(i) \/ Disconnect(i) \/ DisconnectEnds(i) \/ GetSnapshot(i) \/ SnapshotEnds(i)
       \/ TestLatency(i) \/ ProbeEnds(i) \/ UpdateMode(i)
    BY DEF Handles
  <1>2. calls # <<>> /\ bridge' = bridge
    BY <1>1 DEF Handles
  <1>3. SUFFICES (~bridge.fwd => queue' = queue) /\ Unclaiming
    BY <1>2 DEF Orderly
  <1>4. CASE Connect(i)
    BY <1>4, PublishOrderly DEF Connect, Unclaiming, Claimed
  <1>5. CASE Disconnect(i)
    BY <1>5, PublishOrderly DEF Disconnect, Unclaiming, Claimed
  <1>6. CASE DisconnectEnds(i)
    BY <1>6, PublishOrderly DEF DisconnectEnds, Unclaiming, Claimed
  <1>7. CASE GetSnapshot(i) \/ SnapshotEnds(i) \/ TestLatency(i)
    BY <1>7 DEF GetSnapshot, SnapshotEnds, TestLatency, Unclaiming, Claimed, dashv
  <1>8. CASE ProbeEnds(i)
    BY <1>8, PublishOrderly DEF ProbeEnds, Unclaiming, Claimed
  <1>9. CASE UpdateMode(i)
    BY <1>9 DEF UpdateMode, Unclaiming, Claimed
  <1> QED BY <1>1, <1>4, <1>5, <1>6, <1>7, <1>8, <1>9

LEMMA ChainOrderly == ASSUME Claimed, ChainMoves \/ ChainWorld PROVE Orderly /\ Unclaiming
  <1>1. bridge' = bridge
    BY DEF ChainMoves, ChainWorld
  <1>2. BringUpDone \/ BringUpFails \/ ChainDrops \/ Noise
    BY DEF ChainMoves, ChainWorld
  <1>3. CASE BringUpDone
    BY <1>1, <1>3, PublishOrderly DEF BringUpDone, Orderly, Unclaiming, Claimed
  <1>4. CASE BringUpFails
    BY <1>1, <1>4, PublishOrderly DEF BringUpFails, Orderly, Unclaiming, Claimed
  <1>5. CASE ChainDrops
    BY <1>1, <1>5, PublishOrderly DEF ChainDrops, Orderly, Unclaiming, Claimed
  <1>6. CASE Noise
    BY <1>1, <1>6, PublishOrderly DEF Noise, Orderly, Unclaiming, Claimed, dashv
  <1> QED BY <1>2, <1>3, <1>4, <1>5, <1>6

LEMMA ReceivesOrderly ==
  ASSUME Claimed, DashReceives \/ IdleTimeout, bridge' = bridge
  PROVE  Orderly /\ Unclaiming /\ Extended(calls, calls')
  <1>1. CASE DashReceives
    <2> DEFINE e == Head(wire)
    <2>1. \/ Becomes(OnEvent(Now(calls), e))
          \/ Becomes(Answer(Now(calls), e.req, e.res))
      BY <1>1 DEF DashReceives
    <2> HIDE DEF e
    <2>2. Unclaiming /\ Follows(calls, calls')
      BY <2>1, BecomesOrderly, OnEventSteady, AnswerSteady
    <2>3. queue' = queue
      BY <1>1 DEF DashReceives
    <2> QED BY <2>2, <2>3 DEF Orderly, Follows
  <1>2. CASE IdleTimeout
    <2>1. Becomes(FlowFails(Now(calls))) /\ queue' = queue
      BY <1>2 DEF IdleTimeout
    <2> QED BY <2>1, BecomesOrderly, FlowFailsSteady DEF Orderly, Follows
  <1> QED BY <1>1, <1>2

\* createAutoConnectClaim: the one place that counts a launch takes the claim.
LEMMA AutoConnectClaims ==
  ASSUME Claimed, AutoConnect, bridge' = bridge
  PROVE  Orderly /\ Claimed' /\ Extended(calls, calls')
  <1> DEFINE v == [Now(calls) EXCEPT !.d.auto = "done", !.d.may = {}]
             u == Claim(v)
             w == [u EXCEPT !.p.autos = @ + 1]
             z == IF keep.claim /\ keep.last \in dash.may THEN DashConnect(w, keep.last) ELSE u
  <1>1. Becomes(z) /\ ~bridge.eof /\ queue' = queue
    BY DEF AutoConnect
  <1>3. Turn(v) /\ v.k.claim = keep.claim /\ v.p.autos = past.autos /\ v.sent = calls
    BY NowTurn DEF Turn, Now
  <1> HIDE DEF v
  <1>4. Turn(u) /\ u.k.claim = FALSE /\ u.p.autos = past.autos /\ u.sent = calls
    BY <1>3 DEF Claim, Turn
  <1> HIDE DEF u
  <1>5. Turn(w) /\ w.k.claim = FALSE /\ w.p.autos = past.autos + 1 /\ w.sent = calls
    BY <1>4 DEF Turn
  <1> HIDE DEF w
  <1>6. Turn(z) /\ z.k.claim = FALSE /\ (z.p.autos = past.autos \/ (keep.claim /\ z.p.autos = past.autos + 1))
        /\ Extended(calls, z.sent)
    BY <1>4, <1>5, DashConnectSteady, ExtendedSelf DEF Steady, Follows
  <1> HIDE DEF z
  <1>7. Claimed'
    <2>1. keep' = z.k /\ past' = z.p
      BY <1>1 DEF Becomes
    <2>2. z.p.autos \in {0, 1}
      BY <1>6 DEF Claimed
    <2>3. "claim" \in DOMAIN z.k /\ "autos" \in DOMAIN z.p
      BY <1>6 DEF Turn
    <2> QED BY <1>6, <2>1, <2>2, <2>3, Zenon DEF Claimed
  <1> QED BY <1>1, <1>6, <1>7 DEF Orderly, Becomes

LEMMA WishSteady == ASSUME NEW u, NEW w PROVE Steady(u, Wish(u, w))
  BY FollowsSelf DEF Steady, Turn, Wish

LEMMA UserOrderly == ASSUME Claimed, User PROVE Orderly /\ Unclaiming /\ Extended(calls, calls')
  <1> DEFINE n == Now(calls)
  <1>1. bridge' = bridge
    BY DEF User
  <1>2. SUFFICES \E u : Becomes(u) /\ Steady(n, u) /\ ~bridge.eof /\ queue' = queue
    BY <1>1, BecomesOrderly DEF Orderly, Follows
  <1>3. ASSUME NEW kind, Clicks(kind) PROVE ~bridge.eof /\ queue' = queue
    BY <1>3 DEF Clicks, CanSend
  <1>4. ASSUME NEW s \in Servers, ClickConnect(s)
        PROVE  \E u : Becomes(u) /\ Steady(n, u) /\ ~bridge.eof /\ queue' = queue
    <2>1. Becomes(Wish(DashConnect(n, s), "up")) /\ Clicks("clicks")
      BY <1>4 DEF ClickConnect
    <2>2. Steady(n, Wish(DashConnect(n, s), "up"))
      BY DashConnectSteady, WishSteady, SteadyChain
    <2> QED BY <1>3, <2>1, <2>2
  <1>5. ASSUME ClickDisconnect
        PROVE  \E u : Becomes(u) /\ Steady(n, u) /\ ~bridge.eof /\ queue' = queue
    <2> DEFINE v == [n EXCEPT !.d.status = "disconnecting"]
               z == Send(Wish(v, "down"), "disconnect", [by |-> "user"])
    <2>1. Becomes(z) /\ Clicks("clicks")
      BY <1>5 DEF ClickDisconnect
    <2>2. Steady(n, v)
      BY FollowsSelf DEF Steady, Turn
    <2> HIDE DEF v
    <2>3. Steady(v, Wish(v, "down")) /\ Steady(Wish(v, "down"), z)
      BY WishSteady, SendSteady DEF LogMethods
    <2>4. Steady(n, z)
      BY <2>2, <2>3, SteadyChain
    <2> QED BY <1>3, <2>1, <2>4
  <1>6. ASSUME NEW m \in Modes, ClickMode(m)
        PROVE  \E u : Becomes(u) /\ Steady(n, u) /\ ~bridge.eof /\ queue' = queue
    <2> DEFINE u == Send(n, "mode", [mode |-> m])
               v == [u EXCEPT !.d.mode = m]
               w == [Wish(u, "up") EXCEPT !.f = [kind |-> "switch", step |-> "stop", server |-> dash.server, mode |-> m]]
    <2>1. Clicks("modes") /\ (Becomes(v) \/ Becomes(u) \/ Becomes(StopChain(w)))
      BY <1>6 DEF ClickMode
    <2>2. Steady(n, u)
      BY SendSteady DEF LogMethods
    <2> HIDE DEF u, n
    <2>3. Steady(u, v)
      BY FollowsSelf DEF Steady, Turn
    <2>4. Steady(u, Wish(u, "up")) /\ Steady(Wish(u, "up"), w)
      BY WishSteady, FollowsSelf DEF Steady, Turn
    <2> HIDE DEF v, w
    <2>5. Steady(n, v) /\ Steady(n, StopChain(w))
      BY <2>2, <2>3, <2>4, StopChainSteady, SteadyChain
    <2> QED BY <1>3, <2>1, <2>2, <2>5
  <1>7. ASSUME ClickReconnect
        PROVE  \E u : Becomes(u) /\ Steady(n, u) /\ ~bridge.eof /\ queue' = queue
    <2> DEFINE u == [Wish(n, "up") EXCEPT !.f = [kind |-> "reconnect", step |-> "stop", server |-> dash.server, mode |-> dash.mode]]
    <2>1. Clicks("modes") /\ (Becomes(StopChain(u)) \/ Becomes(StartChain(u)))
      BY <1>7 DEF ClickReconnect
    <2>2. Steady(n, Wish(n, "up")) /\ Steady(Wish(n, "up"), u)
      BY WishSteady, FollowsSelf DEF Steady, Turn
    <2> HIDE DEF n, u
    <2>3. Steady(n, StopChain(u)) /\ Steady(n, StartChain(u))
      BY <2>2, StopChainSteady, StartChainSteady, SteadyChain
    <2> QED BY <1>3, <2>1, <2>3
  <1>8. ASSUME NEW s \in Servers \cup {NoServer}, ClickProbe(s)
        PROVE  \E u : Becomes(u) /\ Steady(n, u) /\ ~bridge.eof /\ queue' = queue
    <2> DEFINE ids == IF s = NoServer THEN dash.servers ELSE {s}
               v == [n EXCEPT !.d.probe = [t \in Servers |-> IF t \in ids THEN "probing" ELSE @[t]]]
               z == Send(v, "probe", [server |-> s, by |-> "user", ids |-> ids])
    <2>1. Becomes(z) /\ Clicks("probes")
      BY <1>8, Zenon DEF ClickProbe
    <2> HIDE DEF n, ids
    <2>2. Steady(n, v)
      BY FollowsSelf DEF Steady, Turn
    <2> HIDE DEF v
    <2>3. Steady(v, z)
      BY SendSteady DEF LogMethods
    <2>4. Steady(n, z)
      BY <2>2, <2>3, SteadyChain
    <2> QED BY <1>3, <2>1, <2>4
  <1> HIDE DEF n
  <1> QED BY <1>4, <1>5, <1>6, <1>7, <1>8 DEF User

LEMMA WindowOrderly == ASSUME Claimed, CloseWindow \/ OpenWindow \/ Discard PROVE Orderly /\ Unclaiming
  <1>1. CASE CloseWindow
    BY <1>1 DEF CloseWindow, pipe, Orderly, Unclaiming, Claimed
  <1>2. CASE OpenWindow
    BY <1>2 DEF OpenWindow, Orderly, Unclaiming, Claimed
  <1>3. CASE Discard
    BY <1>3 DEF Discard, dashv, Orderly, Unclaiming, Claimed
  <1> QED BY <1>1, <1>2, <1>3

LEMMA RefreshOrderly ==
  ASSUME Claimed, DriverTick \/ TimerTick \/ WorkerMoves \/ WorkerPanics \/ UserSync \/ UserSubs
  PROVE  Orderly /\ Unclaiming
  <1>1. CASE DriverTick \/ TimerTick \/ WorkerPanics
    BY <1>1 DEF DriverTick, TimerTick, WorkerPanics, pipe, dashv, Orderly, Unclaiming, Claimed
  <1>2. CASE WorkerMoves \/ UserSync \/ UserSubs
    <2>1. bridge' = bridge /\ calls' = calls /\ keep' = keep /\ past' = past
      BY <1>2 DEF WorkerMoves, UserSync, UserSubs, dashv
    <2>2. queue' = queue \/ \E es : Publish(es)
      <3>1. CASE WorkerMoves
        BY <3>1, Zenon DEF WorkerMoves, Commit
      <3>2. CASE UserSync
        BY <3>2, Zenon DEF UserSync, SyncOne
      <3>3. CASE UserSubs
        BY <3>3, Zenon DEF UserSubs, AddSub, RemoveSub, EditUrl
      <3> QED BY <1>2, <3>1, <3>2, <3>3
    <2> QED BY <2>1, <2>2, PublishOrderly DEF Orderly, Unclaiming, Claimed
  <1> QED BY <1>1, <1>2

LEMMA LogOrderly ==
  ASSUME Claimed, LogUser \/ LogHandles \/ LogWorld \/ LogMoves \/ LogPublishes \/ LogReceives
  PROVE  Orderly /\ Unclaiming
  <1>1. CASE LogUser
    <2>1. ~bridge.eof
      BY <1>1 DEF LogUser, OpenTab, CloseTab, CanSend
    <2> QED BY <1>1, <2>1 DEF LogUser, dashv, Orderly, Unclaiming, Claimed
  <1>2. CASE LogHandles
    <2>1. calls # <<>>
      BY <1>2 DEF LogHandles
    <2> QED BY <1>2, <2>1 DEF LogHandles, dashv, Orderly, Unclaiming, Claimed
  <1>3. CASE LogWorld \/ LogMoves \/ LogReceives
    BY <1>3 DEF LogWorld, LogMoves, LogReceives, pipe, dashv, Orderly, Unclaiming, Claimed
  <1>4. CASE LogPublishes
    <2>1. \E es : Publish(es)
      BY <1>4, Zenon DEF LogPublishes, PublishLine
    <2> QED BY <1>4, <2>1, PublishOrderly DEF LogPublishes, dashv, Orderly, Unclaiming, Claimed
  <1> QED BY <1>1, <1>2, <1>3, <1>4

\* The dispatcher and the forwarder: answers are taken out one by one, Serve waits
\* for the last, and the channel is empty when the forwarder leaves it.
LEMMA OutputDrains == ASSUME Draining, Output \/ Quit PROVE Draining'
  <1>1. CASE Quit
    BY <1>1 DEF Quit, CloseInput, Draining
  <1>2. CASE Output /\ Forward
    BY <1>2 DEF Forward, Draining
  <1>3. CASE Output /\ ForwarderExit
    BY <1>3 DEF ForwarderExit, Draining
  <1>4. CASE Output /\ ServeReturns
    BY <1>4 DEF ServeReturns, Draining
  <1>5. CASE \E i \in DOMAIN calls : WriteAnswer(i)
    <2>1. calls # <<>> /\ queue' = queue /\ bridge' = bridge
      BY <1>5 DEF WriteAnswer
    <2> QED BY <2>1 DEF Draining
  <1> QED BY <1>1, <1>2, <1>3, <1>4, <1>5 DEF Output, PipeStep

LEMMA SessionInit == ASSUME Init PROVE Draining /\ Claimed
  <1>1. Draining
    BY DEF Init, PipeInit, Draining
  <1>2. dash.boot \in BOOLEAN
    <2>1. NewDash(FALSE).boot = FALSE /\ Loaded.boot = TRUE
      BY DEF NewDash, Loaded
    <2> QED BY <2>1 DEF Init, DashInit
  <1>3. Claimed
    BY <1>2 DEF Init, DashInit, Claimed
  <1> QED BY <1>1, <1>3

LEMMA SessionStep == ASSUME Draining, Claimed, [Next]_vars PROVE Draining' /\ Claimed'
  <1>1. CASE Output \/ Quit
    BY <1>1, OutputDrains DEF Output, Quit, dashv, Claimed
  <1>2. CASE Handles
    BY <1>2, HandlesOrderly, OrderlyDrains, UnclaimingClaims
  <1>3. CASE ChainMoves \/ ChainWorld
    BY <1>3, ChainOrderly, OrderlyDrains, UnclaimingClaims
  <1>4. CASE Renders
    <2>1. bridge' = bridge /\ (DashReceives \/ IdleTimeout \/ AutoConnect)
      BY <1>4 DEF Renders
    <2> QED BY <2>1, ReceivesOrderly, AutoConnectClaims, OrderlyDrains, UnclaimingClaims
  <1>5. CASE User
    BY <1>5, UserOrderly, OrderlyDrains, UnclaimingClaims
  <1>6. CASE CloseWindow \/ OpenWindow \/ Discard
    BY <1>6, WindowOrderly, OrderlyDrains, UnclaimingClaims
  <1>7. CASE DriverTick \/ TimerTick \/ WorkerMoves \/ WorkerPanics \/ UserSync \/ UserSubs
    BY <1>7, RefreshOrderly, OrderlyDrains, UnclaimingClaims
  <1>8. CASE LogUser \/ LogHandles \/ LogWorld \/ LogMoves \/ LogPublishes \/ LogReceives
    BY <1>8, LogOrderly, OrderlyDrains, UnclaimingClaims
  <1>9. CASE UNCHANGED vars
    BY <1>9 DEF vars, pipe, dashv, Draining, Claimed
  <1> QED BY <1>1, <1>2, <1>3, <1>4, <1>5, <1>6, <1>7, <1>8, <1>9 DEF Next, System

\* Whatever was published while the bridge served, and every answer, is on the
\* output when the forwarder has ended, also when the input is closed in the
\* middle of a connect (Serve's wg.Wait, the forwarder's flush).
THEOREM DrainsBehind == Spec => []NothingLeftBehind
  <1>1. Draining => NothingLeftBehind
    BY DEF Draining, NothingLeftBehind
  <1> QED BY <1>1, SessionInit, SessionStep, PTL DEF Spec

\* The application connects by itself at most once in a launch, although every
\* window that opens bootstraps anew and tries (createAutoConnectClaim).
THEOREM OneLaunch == Spec => []AutoConnectOnce
  <1>1. Claimed => AutoConnectOnce
    BY DEF Claimed, AutoConnectOnce
  <1> QED BY <1>1, SessionInit, SessionStep, PTL DEF Spec

(***************************************************************************)
(* One worker for a subscription.                                          *)
(***************************************************************************)
\* The driver's table names a place or none for each subscription, and each
\* place has its goroutine's record.
Rostered ==
  /\ workers \in [SubIds -> Places \cup {NoPlace}]
  /\ DOMAIN gor = SubIds
  /\ \A i \in SubIds : DOMAIN gor[i] = Places /\ \A k \in Places : "at" \in DOMAIN gor[i][k]

LEMMA MovesKeep ==
  ASSUME Rostered, OneWorkerPerSub, NEW i \in SubIds, NEW k \in Places, NEW g,
         Alive(i, k), Moves(i, k, g), "at" \in DOMAIN g, workers' = workers
  PROVE  Rostered' /\ OneWorkerPerSub'
  <1>1. DOMAIN gor' = SubIds
    BY DEF Moves, Rostered
  <1>2. \A j \in SubIds : DOMAIN gor'[j] = Places
    BY DEF Moves, Rostered
  <1>3. \A j \in SubIds, l \in Places : gor'[j][l] = IF j = i /\ l = k THEN g ELSE gor[j][l]
    BY DEF Moves, Rostered
  <1>4. Rostered'
    BY <1>1, <1>2, <1>3 DEF Rostered
  <1>5. \A j \in SubIds, l \in Places : Alive(j, l)' => Alive(j, l)
    BY <1>3 DEF Alive
  <1> QED BY <1>4, <1>5 DEF OneWorkerPerSub

LEMMA WorkerKeeps ==
  ASSUME Rostered, OneWorkerPerSub, NEW i \in SubIds, NEW k \in Places,
         SeesCancel(i, k) \/ TimerFires(i, k) \/ FetchDone(i, k) \/ Panic(i, k) \/ Commit(i, k)
  PROVE  Rostered' /\ OneWorkerPerSub'
  <1>1. workers' = workers
    BY DEF SeesCancel, TimerFires, FetchDone, Panic, Commit
  <1>2. Alive(i, k) /\ "at" \in DOMAIN gor[i][k]
    BY DEF SeesCancel, TimerFires, FetchDone, Panic, Commit, Alive, Rostered
  <1>3. \E g : Moves(i, k, g) /\ "at" \in DOMAIN g
    <2>1. CASE SeesCancel(i, k)
      BY <1>2, <2>1 DEF SeesCancel
    <2>2. CASE TimerFires(i, k)
      <3> DEFINE e == [gor[i][k] EXCEPT !.at = "end"]
                 f == [gor[i][k] EXCEPT !.at = "fetch", !.url = subs[i]]
      <3>1. "at" \in DOMAIN e /\ "at" \in DOMAIN f
        BY <1>2
      <3>2. Moves(i, k, e) \/ Moves(i, k, f)
        BY <2>2 DEF TimerFires
      <3> HIDE DEF e, f
      <3> QED BY <3>1, <3>2
    <2>3. CASE FetchDone(i, k)
      <3>1. PICK ok \in BOOLEAN : Moves(i, k, [gor[i][k] EXCEPT !.at = "commit", !.ok = ok])
        BY <2>3 DEF FetchDone
      <3>2. "at" \in DOMAIN [gor[i][k] EXCEPT !.at = "commit", !.ok = ok]
        BY <1>2
      <3> QED BY <3>1, <3>2
    <2>4. CASE Panic(i, k)
      BY <1>2, <2>4 DEF Panic
    <2>5. CASE Commit(i, k)
      <3> DEFINE g == [gor[i][k] EXCEPT !.at = "wait", !.ok = FALSE]
      <3>1. "at" \in DOMAIN g
        BY <1>2
      <3>2. Moves(i, k, g)
        BY <2>5 DEF Commit
      <3> HIDE DEF g
      <3> QED BY <3>1, <3>2
    <2> QED BY <2>1, <2>2, <2>3, <2>4, <2>5
  <1> QED BY <1>1, <1>2, <1>3, MovesKeep

\* reconcile starts a worker only where none is alive: an id without an entry has
\* no goroutine, and the entry that is reaped was the last one of its id.
LEMMA ReconcileKeeps ==
  ASSUME Rostered, OneWorkerPerSub, ReconcileApply
  PROVE  Rostered' /\ OneWorkerPerSub'
  <1> DEFINE starts == {i \in SubIds : ~Absent(Seen(i)) /\ (workers[i] = NoPlace \/ Reaped(i))}
             free(i) == CHOOSE k \in Places : ~Alive(i, k)
             G(i, k) == IF i \in starts /\ k = free(i)
                        THEN [NoGor EXCEPT !.at = "wait", !.first = Seen(i), !.url = Seen(i)]
                        ELSE IF gor[i][k].at = "end" /\ Reaped(i) THEN NoGor
                        ELSE IF Outdated(i) /\ k = workers[i] THEN [gor[i][k] EXCEPT !.live = FALSE]
                        ELSE gor[i][k]
  <1>1. /\ \A i \in starts : \E k \in Places : ~Alive(i, k)
        /\ workers' = [i \in SubIds |-> IF i \in starts THEN free(i)
                                        ELSE IF Reaped(i) THEN NoPlace ELSE workers[i]]
        /\ gor' = [i \in SubIds |-> [k \in Places |-> G(i, k)]]
    BY DEF ReconcileApply
  <1>2. \A i \in starts : free(i) \in Places
    BY <1>1
  <1>3. \A i \in starts, k \in Places : ~Alive(i, k)
    BY DEF OneWorkerPerSub, Reaped, Alive, NoPlace, Places, Rostered
  <1>4. \A i \in SubIds, k \in Places : Reaped(i) => ~Alive(i, k)
    BY DEF OneWorkerPerSub, Reaped, Alive
  <1> HIDE DEF starts, free
  <1>5. \A i \in SubIds, k \in Places : "at" \in DOMAIN G(i, k)
    BY DEF NoGor, Rostered
  <1>6. \A i \in SubIds, k \in Places :
          G(i, k).at \notin {"none", "end"} => (i \in starts /\ k = free(i)) \/ Alive(i, k)
    BY DEF NoGor, Alive, Rostered
  <1> HIDE DEF G
  <1>7. workers' \in [SubIds -> Places \cup {NoPlace}]
    BY <1>1, <1>2 DEF Rostered
  <1>8. Rostered'
    BY <1>1, <1>5, <1>7 DEF Rostered
  <1>9. ASSUME NEW i \in SubIds, NEW k \in Places, Alive(i, k)'
        PROVE  workers'[i] = k
    <2>1. gor'[i][k] = G(i, k)
      BY <1>1
    <2>2. (i \in starts /\ k = free(i)) \/ Alive(i, k)
      BY <1>6, <1>9, <2>1 DEF Alive
    <2>3. CASE i \in starts
      BY <1>1, <1>3, <2>2, <2>3
    <2>4. CASE i \notin starts
      BY <1>1, <1>4, <2>2, <2>4 DEF OneWorkerPerSub
    <2> QED BY <2>3, <2>4
  <1> QED BY <1>8, <1>9 DEF OneWorkerPerSub

LEMMA RosterStep ==
  ASSUME Rostered, OneWorkerPerSub, [Next]_vars
  PROVE  Rostered' /\ OneWorkerPerSub'
  <1>1. CASE UNCHANGED <<workers, gor>>
    BY <1>1 DEF Rostered, OneWorkerPerSub, Alive
  <1>2. CASE DriverTick
    BY <1>1, <1>2, ReconcileKeeps DEF DriverTick, ReconcileLoad
  <1>3. CASE TimerTick
    BY <1>3, WorkerKeeps DEF TimerTick
  <1>4. CASE WorkerMoves
    BY <1>4, WorkerKeeps DEF WorkerMoves
  <1>5. CASE WorkerPanics
    BY <1>5, WorkerKeeps DEF WorkerPanics
  <1>6. CASE UserSync \/ UserSubs
    BY <1>1, <1>6 DEF UserSync, UserSubs, SyncOne, AddSub, EditUrl, RemoveSub
  <1>7. CASE Output \/ Quit \/ Handles \/ ChainMoves \/ ChainWorld \/ Renders \/ User
    BY <1>1, <1>7 DEF Output, Quit, Handles, ChainMoves, ChainWorld, Renders, User, refresh
  <1>8. CASE CloseWindow \/ OpenWindow \/ Discard \/ UNCHANGED vars
    BY <1>1, <1>8 DEF CloseWindow, OpenWindow, Discard, vars, refresh
  <1>9. CASE LogUser \/ LogHandles \/ LogWorld \/ LogMoves \/ LogPublishes \/ LogReceives
    BY <1>1, <1>9 DEF LogUser, LogHandles, LogWorld, LogMoves, LogPublishes, LogReceives, refresh
  <1> QED BY <1>2, <1>3, <1>4, <1>5, <1>6, <1>7, <1>8, <1>9 DEF Next, System

\* A goroutine that still runs is the one the driver's table names, so no
\* subscription ever has two, whatever addresses were edited and whichever
\* workers panicked or are still in a fetch (reconcile, done, reap).
THEOREM OneWorker == Spec => []OneWorkerPerSub
  <1>1. Init => Rostered /\ OneWorkerPerSub
    BY DEF Init, RefreshInit, Rostered, OneWorkerPerSub, Alive, NoGor
  <1> QED BY <1>1, RosterStep, PTL DEF Spec

(***************************************************************************)
(* The poller of the log stream follows the Logs tab.                      *)
(***************************************************************************)
IsLogCall(i) == i \in DOMAIN calls /\ calls[i].req.m \in LogMethods

\* The count of subscribers and the poller agree; a poller that is held is live.
Even == buf.subs > 0 <=> cancel # 0
Held ==
  /\ cancel \in Pollers \cup {0} /\ buf.subs \in Nat /\ "subs" \in DOMAIN buf /\ "tab" \in DOMAIN logs
  /\ DOMAIN poll = Pollers /\ \A k \in Pollers : "live" \in DOMAIN poll[k]
  /\ cancel # 0 => poll[cancel].live

\* What the one call of the Logs tab that is under way has done so far.
Phase(c) ==
  /\ c.req.m = "logs.start" =>
       \/ c.st = "new" /\ Even
       \/ c.st = "poller" /\ buf.subs = 1 /\ cancel = 0
       \/ c.st \in {"tail", "done"} /\ buf.subs > 0 /\ cancel # 0
  /\ c.req.m = "logs.stop" =>
       \/ c.st = "new" /\ buf.subs > 0 /\ cancel # 0
       \/ c.st = "poller" /\ buf.subs = 0 /\ cancel # 0
       \/ c.st = "done" /\ Even

\* In the first window the count is that of its tab.
Counted(c) ==
  /\ c.req.m = "logs.start" => logs.tab /\ buf.subs = IF c.st = "new" THEN 0 ELSE 1
  /\ c.req.m = "logs.stop" => ~logs.tab /\ buf.subs = IF c.st = "new" THEN 1 ELSE 0

\* No window has been closed yet: a window that closes takes its tab's count along.
FirstWindow == win.gen = 1 /\ win.open

\* The tab has one call under way at most, and it is at a definite point of its work.
Served ==
  /\ IsCalls(calls)
  /\ \A i, j \in DOMAIN calls : IsLogCall(i) /\ IsLogCall(j) => i = j
  /\ \A i \in DOMAIN calls : IsLogCall(i) =>
       /\ Phase(calls[i])
       /\ FirstWindow => Counted(calls[i])
       /\ logs.tab => calls[i].req.m = "logs.start"
  /\ NoLogCalls => /\ Even /\ (logs.tab => buf.subs > 0)
                   /\ FirstWindow => buf.subs = IF logs.tab THEN 1 ELSE 0

\* A subscriber count and a poller that agree need a user who lets a call end
\* before the next click on the tab; "quick" admits one who does not.
Tabs ==
  /\ Held /\ {"open", "gen"} \subseteq DOMAIN win
  /\ win.gen \in Nat \ {0} /\ logs.tab \in BOOLEAN /\ win.open \in BOOLEAN
  /\ "quick" \notin faults => Served

LEMMA RemoveCalls ==
  ASSUME NEW s, IsCalls(s), NEW i \in 1..Len(s)
  PROVE  /\ IsCalls(RemoveAt(s, i)) /\ Len(RemoveAt(s, i)) = Len(s) - 1
         /\ \A j \in 1..(Len(s) - 1) : RemoveAt(s, i)[j] = s[IF j < i THEN j ELSE j + 1]
  <1>1. PICK S : s \in Seq(S)
    BY DEF IsCalls
  <1> DEFINE a == SubSeq(s, 1, i - 1)
             b == SubSeq(s, i + 1, Len(s))
             n == Len(s)
  <1>2. n \in Nat /\ i \in Nat /\ 1 <= i /\ i <= n
    BY <1>1
  <1>3. a \in Seq(S) /\ Len(a) = i - 1 /\ \A j \in 1..(i - 1) : a[j] = s[j]
    BY <1>1, <1>2
  <1>4. b \in Seq(S) /\ Len(b) = n - i /\ \A j \in 1..(n - i) : b[j] = s[i + j]
    BY <1>1, <1>2
  <1>5. RemoveAt(s, i) = a \o b
    BY DEF RemoveAt
  <1> HIDE DEF a, b
  <1>6. /\ a \o b \in Seq(S) /\ Len(a \o b) = Len(a) + Len(b)
        /\ \A j \in 1..(Len(a) + Len(b)) : (a \o b)[j] = IF j <= Len(a) THEN a[j] ELSE b[j - Len(a)]
    <2>1. a \in Seq(S) /\ b \in Seq(S)
      BY <1>3, <1>4
    <2> QED BY <2>1
  <1> HIDE DEF n
  <1>7. Len(a \o b) = n - 1 /\ \A j \in 1..(n - 1) : (a \o b)[j] = s[IF j < i THEN j ELSE j + 1]
    <2>1. Len(a \o b) = n - 1
      BY <1>2, <1>3, <1>4, <1>6
    <2>2. ASSUME NEW j \in 1..(n - 1) PROVE (a \o b)[j] = s[IF j < i THEN j ELSE j + 1]
      <3>1. (a \o b)[j] = IF j <= i - 1 THEN a[j] ELSE b[j - (i - 1)]
        BY <1>2, <1>3, <1>4, <1>6
      <3>2. CASE j < i
        BY <1>2, <1>3, <3>1, <3>2
      <3>3. CASE ~(j < i)
        <4>1. j - (i - 1) \in 1..(n - i) /\ i + (j - (i - 1)) = j + 1 /\ ~(j <= i - 1)
          BY <1>2, <3>3
        <4>2. b[j - (i - 1)] = s[i + (j - (i - 1))]
          BY <1>4, <4>1
        <4> QED BY <3>1, <3>3, <4>1, <4>2
      <3> QED BY <3>2, <3>3
    <2> QED BY <2>1, <2>2
  <1>8. \A j \in 1..(n - 1) : DOMAIN (a \o b)[j] = {"req", "st", "res"}
    <2>1. ASSUME NEW j \in 1..(n - 1) PROVE DOMAIN (a \o b)[j] = {"req", "st", "res"}
      <3>1. (IF j < i THEN j ELSE j + 1) \in 1..n
        BY <1>2
      <3> QED BY <1>7, <3>1 DEF IsCalls, n
    <2> QED BY <2>1
  <1>9. IsCalls(a \o b)
    BY <1>6, <1>7, <1>8 DEF IsCalls
  <1> QED BY <1>5, <1>7, <1>9 DEF n

LEMMA StageCalls ==
  ASSUME IsCalls(calls), NEW i \in DOMAIN calls, NEW st, NEW res, Stage(i, st, res)
  PROVE  /\ IsCalls(calls') /\ DOMAIN calls' = DOMAIN calls
         /\ calls'[i].req = calls[i].req /\ calls'[i].st = st
         /\ \A j \in DOMAIN calls : j # i => calls'[j] = calls[j]
  <1>1. PICK S : calls \in Seq(S)
    BY DEF IsCalls
  <1> DEFINE c == [calls[i] EXCEPT !.st = st, !.res = res]
             D == {"req", "st", "res"}
  <1>2. i \in 1..Len(calls) /\ DOMAIN calls[i] = D /\ Len(calls) \in Nat
    <2>1. i \in 1..Len(calls) /\ Len(calls) \in Nat
      BY CallsSeq
    <2> QED BY <2>1 DEF IsCalls
  <1>3. DOMAIN c = D /\ c.req = calls[i].req /\ c.st = st
    BY <1>2
  <1>4. calls' = [calls EXCEPT ![i] = c]
    BY <1>2 DEF Stage
  <1> HIDE DEF c
  <1>5. calls' \in Seq(S \cup {c}) /\ Len(calls') = Len(calls)
    BY <1>1, <1>2, <1>4
  <1>6. DOMAIN calls' = DOMAIN calls /\ calls'[i] = c /\ \A j \in DOMAIN calls : j # i => calls'[j] = calls[j]
    BY <1>1, <1>2, <1>4
  <1>7. \A j \in 1..Len(calls') : DOMAIN calls'[j] = D
    BY <1>1, <1>2, <1>3, <1>5, <1>6 DEF IsCalls
  <1> QED BY <1>3, <1>5, <1>6, <1>7 DEF IsCalls

\* Steps that touch no call of the Logs tab.
Aside ==
  /\ IsCalls(calls')
  /\ \A i \in DOMAIN calls : calls[i].req.m \in LogMethods => i \in DOMAIN calls' /\ calls'[i] = calls[i]
  /\ \A i \in DOMAIN calls' : calls'[i].req.m \in LogMethods => i \in DOMAIN calls /\ calls'[i] = calls[i]

LEMMA AsideServes ==
  ASSUME Served, Aside, buf'.subs = buf.subs, cancel' = cancel, logs'.tab => logs.tab,
         FirstWindow' => FirstWindow /\ (logs'.tab <=> logs.tab)
  PROVE  Served'
  <1>1. \A i, j \in DOMAIN calls' : IsLogCall(i)' /\ IsLogCall(j)' => i = j
    BY DEF Aside, Served, IsLogCall
  <1>2. ASSUME NEW i \in DOMAIN calls', IsLogCall(i)'
        PROVE  Phase(calls[i])' /\ (FirstWindow' => Counted(calls[i])') /\ (logs'.tab => calls'[i].req.m = "logs.start")
    <2>1. i \in DOMAIN calls /\ calls'[i] = calls[i] /\ IsLogCall(i)
      BY <1>2 DEF Aside, IsLogCall
    <2>2. Phase(calls[i]) /\ (FirstWindow => Counted(calls[i])) /\ (logs.tab => calls[i].req.m = "logs.start")
      BY <2>1 DEF Served
    <2>3. Phase(calls[i])'
      BY <2>1, <2>2 DEF Phase, Even
    <2>4. FirstWindow' => Counted(calls[i])'
      BY <2>1, <2>2 DEF Counted
    <2> QED BY <2>1, <2>2, <2>3, <2>4
  <1>3. ASSUME NoLogCalls'
        PROVE  Even' /\ (logs'.tab => buf'.subs > 0) /\ (FirstWindow' => buf'.subs = IF logs'.tab THEN 1 ELSE 0)
    <2>1. NoLogCalls
      BY <1>3 DEF NoLogCalls, Aside, LogMethods
    <2>2. Even /\ (logs.tab => buf.subs > 0) /\ (FirstWindow => buf.subs = IF logs.tab THEN 1 ELSE 0)
      BY <2>1 DEF Served
    <2> QED BY <2>2 DEF Even
  <1> QED BY <1>1, <1>2, <1>3 DEF Served, Aside

LEMMA SameAside == ASSUME IsCalls(calls), calls' = calls PROVE Aside
  BY DEF Aside

LEMMA ExtendedAside == ASSUME IsCalls(calls), Extended(calls, calls') PROVE Aside
  <1>1. /\ IsCalls(calls') /\ Len(calls) <= Len(calls')
        /\ \A n \in 1..Len(calls) : calls'[n] = calls[n]
        /\ \A n \in (Len(calls) + 1)..Len(calls') : calls'[n].req.m \notin LogMethods
    BY DEF Extended
  <1>2. Len(calls) \in Nat /\ DOMAIN calls = 1..Len(calls) /\ Len(calls') \in Nat /\ DOMAIN calls' = 1..Len(calls')
    BY <1>1, CallsSeq
  <1> QED BY <1>1, <1>2 DEF Aside

LEMMA StageAside ==
  ASSUME IsCalls(calls), NEW i \in DOMAIN calls, calls[i].req.m \notin LogMethods,
         NEW st, NEW res, Stage(i, st, res)
  PROVE  Aside
  BY StageCalls DEF Aside

LEMMA QuietTabs ==
  ASSUME Tabs, UNCHANGED <<buf, cancel, poll, logs, win, faults>>, IsCalls(calls) => Aside
  PROVE  Tabs'
  <1>1. Held'
    BY DEF Tabs, Held
  <1>2. "quick" \notin faults' => Served'
    <2> SUFFICES ASSUME "quick" \notin faults PROVE Served'
      OBVIOUS
    <2>1. Served
      BY DEF Tabs
    <2>2. IsCalls(calls)
      BY <2>1 DEF Served
    <2> QED BY <2>1, <2>2, AsideServes DEF FirstWindow
  <1> QED BY <1>1, <1>2 DEF Tabs

LEMMA HandlesAside == ASSUME IsCalls(calls), Handles PROVE Aside
  <1>1. PICK i \in DOMAIN calls :
       \/ Connect(i) \/ Disconnect(i) \/ DisconnectEnds(i) \/ GetSnapshot(i) \/ SnapshotEnds(i)
       \/ TestLatency(i) \/ ProbeEnds(i) \/ UpdateMode(i)
    BY DEF Handles
  <1>2. calls[i].req.m \notin LogMethods
    BY <1>1 DEF Connect, Disconnect, DisconnectEnds, GetSnapshot, SnapshotEnds, TestLatency, ProbeEnds,
                UpdateMode, Runs, LogMethods
  <1>3. \E st, res : Stage(i, st, res)
    <2>1. CASE Connect(i)
      BY <2>1, Zenon DEF Connect, Finish
    <2>2. CASE Disconnect(i)
      BY <2>2, Zenon DEF Disconnect, Finish
    <2>3. CASE DisconnectEnds(i)
      BY <2>3, Zenon DEF DisconnectEnds, Finish
    <2>4. CASE GetSnapshot(i)
      BY <2>4, Zenon DEF GetSnapshot, Finish
    <2>5. CASE SnapshotEnds(i)
      BY <2>5, Zenon DEF SnapshotEnds, Finish
    <2>6. CASE TestLatency(i)
      BY <2>6, Zenon DEF TestLatency, Finish
    <2>7. CASE ProbeEnds(i)
      BY <2>7, Zenon DEF ProbeEnds, Finish
    <2>8. CASE UpdateMode(i)
      BY <2>8, Zenon DEF UpdateMode, Finish
    <2> QED BY <1>1, <2>1, <2>2, <2>3, <2>4, <2>5, <2>6, <2>7, <2>8
  <1> QED BY <1>2, <1>3, StageAside

\* The answer of a call of the Logs tab goes out when the call has ended.
LEMMA AnswerServes ==
  ASSUME Served, NEW i \in DOMAIN calls, WriteAnswer(i), UNCHANGED <<buf, cancel, logs, win>>
  PROVE  Served'
  <1>1. IsCalls(calls) /\ calls' = RemoveAt(calls, i) /\ calls[i].st = "done"
    BY DEF Served, WriteAnswer
  <1>2. Len(calls) \in Nat /\ DOMAIN calls = 1..Len(calls) /\ i \in 1..Len(calls)
    BY <1>1, CallsSeq
  <1> DEFINE n == Len(calls)
             at(j) == IF j < i THEN j ELSE j + 1
  <1>3. IsCalls(calls') /\ Len(calls') = n - 1 /\ \A j \in 1..(n - 1) : calls'[j] = calls[at(j)]
    BY <1>1, <1>2, RemoveCalls
  <1>4. DOMAIN calls' = 1..(n - 1)
    BY <1>3, CallsSeq
  <1>5. \A j \in 1..(n - 1) : at(j) \in 1..n /\ at(j) # i
    BY <1>2
  <1>6. \A j, k \in 1..(n - 1) : at(j) = at(k) => j = k
    BY <1>2
  <1>7. \A k \in 1..n : k # i => \E j \in 1..(n - 1) : at(j) = k
    <2> SUFFICES ASSUME NEW k \in 1..n, k # i PROVE \E j \in 1..(n - 1) : at(j) = k
      OBVIOUS
    <2>1. CASE k < i
      BY <1>2, <2>1
    <2>2. CASE k > i
      <3>1. k - 1 \in 1..(n - 1) /\ at(k - 1) = k
        BY <1>2, <2>2
      <3> QED BY <3>1
    <2> QED BY <1>2, <2>1, <2>2
  <1> HIDE DEF n, at
  <1>8. DOMAIN calls = 1..n
    BY <1>2 DEF n
  <1>9. \A j \in DOMAIN calls' : at(j) \in DOMAIN calls /\ at(j) # i /\ calls'[j] = calls[at(j)]
    BY <1>3, <1>4, <1>5, <1>8
  <1>10. \A j, k \in DOMAIN calls' : IsLogCall(j)' /\ IsLogCall(k)' => j = k
    BY <1>4, <1>6, <1>9 DEF Served, IsLogCall
  <1>11. ASSUME NEW j \in DOMAIN calls', IsLogCall(j)'
         PROVE  Phase(calls[j])' /\ (FirstWindow' => Counted(calls[j])') /\ (logs'.tab => calls'[j].req.m = "logs.start")
    <2>1. IsLogCall(at(j)) /\ calls'[j] = calls[at(j)]
      BY <1>9, <1>11 DEF IsLogCall
    <2>2. /\ Phase(calls[at(j)]) /\ (FirstWindow => Counted(calls[at(j)]))
          /\ (logs.tab => calls[at(j)].req.m = "logs.start")
      BY <1>9, <2>1 DEF Served
    <2> QED BY <2>1, <2>2 DEF Phase, Even, Counted, FirstWindow
  <1>12. ASSUME NoLogCalls'
         PROVE  Even' /\ (logs'.tab => buf'.subs > 0) /\ (FirstWindow' => buf'.subs = IF logs'.tab THEN 1 ELSE 0)
    <2>1. \A k \in DOMAIN calls : k # i => calls[k].req.m \notin LogMethods
      BY <1>4, <1>7, <1>8, <1>9, <1>12 DEF NoLogCalls, LogMethods
    <2>2. CASE NoLogCalls
      BY <2>2 DEF Served, Even, FirstWindow
    <2>3. CASE ~NoLogCalls
      <3>1. IsLogCall(i)
        BY <2>1, <2>3 DEF NoLogCalls, IsLogCall, LogMethods
      <3>2. Phase(calls[i]) /\ (FirstWindow => Counted(calls[i])) /\ (logs.tab => calls[i].req.m = "logs.start")
        BY <3>1 DEF Served
      <3>3. calls[i].req.m \in {"logs.start", "logs.stop"}
        BY <3>1 DEF IsLogCall, LogMethods
      <3> QED BY <1>1, <3>2, <3>3 DEF Phase, Even, Counted, FirstWindow
    <2> QED BY <2>2, <2>3
  <1> QED BY <1>3, <1>10, <1>11, <1>12 DEF Served

LEMMA OutputTabs == ASSUME Tabs, Output PROVE Tabs'
  <1>1. UNCHANGED <<buf, cancel, poll, logs, win, faults>>
    BY DEF Output, PipeStep, Forward, ForwarderExit, ServeReturns, WriteAnswer, logv
  <1>2. CASE calls' = calls
    BY <1>1, <1>2, QuietTabs, SameAside
  <1>3. CASE \E i \in DOMAIN calls : WriteAnswer(i)
    <2>1. "quick" \notin faults => Served'
      BY <1>1, <1>3, AnswerServes DEF Tabs
    <2> QED BY <1>1, <2>1 DEF Tabs, Held
  <1> QED BY <1>2, <1>3 DEF Output, PipeStep, Forward, ForwarderExit, ServeReturns

LEMMA WindowTabs == ASSUME Tabs, CloseWindow \/ OpenWindow PROVE Tabs'
  <1>1. CASE CloseWindow
    <2>1. /\ UNCHANGED <<buf, cancel, poll, calls, faults>> /\ logs' = NoLogs
          /\ win' = [win EXCEPT !.open = FALSE]
      BY <1>1 DEF CloseWindow, pipe
    <2>2. win'.gen = win.gen /\ win'.open = FALSE /\ logs'.tab = FALSE /\ DOMAIN win' = DOMAIN win
          /\ "tab" \in DOMAIN logs'
      BY <2>1 DEF NoLogs, Tabs
    <2>3. "quick" \notin faults => Served'
      <3> SUFFICES ASSUME "quick" \notin faults PROVE Served'
        OBVIOUS
      <3>1. Served
        BY DEF Tabs
      <3> QED BY <2>1, <2>2, <3>1, AsideServes, SameAside DEF Served, FirstWindow
    <2> QED BY <2>1, <2>2, <2>3 DEF Tabs, Held
  <1>2. CASE OpenWindow
    <2> DEFINE r == [Request("snapshot", <<>>) EXCEPT !.req.win = win.gen + 1]
    <2>1. /\ UNCHANGED <<buf, cancel, poll, logs, faults>> /\ calls' = Append(calls, r)
          /\ win' = [open |-> TRUE, gen |-> win.gen + 1]
      BY <1>2 DEF OpenWindow, logv
    <2>2. r.req.m = "snapshot" /\ DOMAIN r = {"req", "st", "res"}
      BY DEF Request
    <2> HIDE DEF r
    <2>3. Extended(calls, calls')
      BY <2>1, <2>2, ExtendedAppend DEF LogMethods
    <2>4. ~FirstWindow' /\ win'.gen \in Nat \ {0} /\ win'.open = TRUE /\ {"open", "gen"} \subseteq DOMAIN win'
      BY <2>1 DEF FirstWindow, Tabs
    <2>5. "quick" \notin faults => Served'
      <3> SUFFICES ASSUME "quick" \notin faults PROVE Served'
        OBVIOUS
      <3>1. Served
        BY DEF Tabs
      <3> QED BY <2>1, <2>3, <2>4, <3>1, AsideServes, ExtendedAside DEF Served
    <2> QED BY <2>1, <2>4, <2>5 DEF Tabs, Held
  <1> QED BY <1>1, <1>2

\* A request of the tab, which it sends when none is under way.
LEMMA TabSends ==
  ASSUME Tabs, LogUser PROVE Tabs'
  <1>0. PICK r : r = Request(IF logs.tab THEN "logs.stop" ELSE "logs.start", <<>>)
    OBVIOUS
  <1>1. /\ UNCHANGED <<buf, cancel, poll, win, faults>> /\ calls' = Append(calls, r)
        /\ "tab" \in DOMAIN logs' /\ logs'.tab = ~logs.tab
    BY <1>0 DEF LogUser, OpenTab, CloseTab, Tabs, Held
  <1>2. /\ r.req.m = IF logs.tab THEN "logs.stop" ELSE "logs.start"
        /\ DOMAIN r = {"req", "st", "res"} /\ r.st = "new"
    BY <1>0 DEF Request
  <1>3. Held'
    BY <1>1 DEF Tabs, Held
  <1>4. ASSUME "quick" \notin faults PROVE Served'
    <2>1. Served /\ NoLogCalls
      BY <1>4 DEF Tabs, LogUser, Settled
    <2>2. IsCalls(calls) /\ Even /\ (logs.tab => buf.subs > 0) /\ (FirstWindow => buf.subs = IF logs.tab THEN 1 ELSE 0)
      BY <2>1 DEF Served
    <2>a. PICK n : n = Len(calls) + 1
      OBVIOUS
    <2>3. IsCalls(calls') /\ Len(calls') = n /\ n \in Nat /\ calls'[n] = r
          /\ \A j \in 1..Len(calls) : calls'[j] = calls[j]
      BY <1>1, <1>2, <2>2, <2>a, AppendCalls
    <2>4. DOMAIN calls' = 1..n /\ n \in 1..n /\ DOMAIN calls = 1..Len(calls) /\ Len(calls) \in Nat
      BY <2>a, <2>2, <2>3, CallsSeq
    <2>5. \A j \in 1..n : j # n => j \in DOMAIN calls /\ calls'[j] = calls[j]
      BY <2>a, <2>3, <2>4
    <2>6. \A j \in DOMAIN calls' : IsLogCall(j)' => j = n
      BY <2>1, <2>4, <2>5 DEF NoLogCalls, IsLogCall, LogMethods
    <2>7. ~NoLogCalls'
      BY <1>2, <2>3, <2>4 DEF NoLogCalls
    <2>8. Phase(calls[n])' /\ (FirstWindow' => Counted(calls[n])') /\ (logs'.tab => calls'[n].req.m = "logs.start")
      <3>1. logs.tab \in BOOLEAN
        BY DEF Tabs
      <3>2. CASE logs.tab
        <4>1. calls'[n].req.m = "logs.stop" /\ calls'[n].st = "new"
          BY <1>2, <2>3, <3>2
        <4> QED BY <1>1, <2>2, <3>2, <4>1 DEF Phase, Counted, Even, FirstWindow
      <3>3. CASE ~logs.tab
        <4>1. calls'[n].req.m = "logs.start" /\ calls'[n].st = "new"
          BY <1>2, <2>3, <3>3
        <4> QED BY <1>1, <2>2, <3>3, <4>1 DEF Phase, Counted, Even, FirstWindow
      <3> QED BY <3>1, <3>2, <3>3
    <2> QED BY <2>3, <2>6, <2>7, <2>8 DEF Served
  <1> QED BY <1>1, <1>3, <1>4 DEF Tabs

\* A handler of the tab's call takes its next step.
LEMMA HandlerServes ==
  ASSUME Served, NEW i \in DOMAIN calls, IsLogCall(i), NEW st, NEW res, Stage(i, st, res),
         logs' = logs, win' = win, Phase(calls[i])', FirstWindow => Counted(calls[i])'
  PROVE  Served'
  <1>1. /\ IsCalls(calls') /\ DOMAIN calls' = DOMAIN calls /\ calls'[i].req = calls[i].req
        /\ \A j \in DOMAIN calls : j # i => calls'[j] = calls[j]
    BY StageCalls DEF Served
  <1>2. \A j \in DOMAIN calls' : IsLogCall(j)' => IsLogCall(j)
    BY <1>1 DEF IsLogCall
  <1>3. \A j \in DOMAIN calls' : IsLogCall(j)' => j = i
    BY <1>1, <1>2 DEF Served
  <1>4. ~NoLogCalls'
    BY <1>1 DEF NoLogCalls, IsLogCall, LogMethods
  <1>5. logs.tab => calls[i].req.m = "logs.start"
    BY DEF Served
  <1> QED BY <1>1, <1>3, <1>4, <1>5 DEF Served, FirstWindow

LEMMA StartPollerHolds ==
  ASSUME Held, StartPoller, buf' = buf, logs' = logs PROVE Held' /\ cancel' # 0
  <1>1. CASE cancel # 0
    BY <1>1 DEF StartPoller, Held
  <1>2. CASE cancel = 0
    <2>1. PICK k \in Pollers : /\ poll' = [poll EXCEPT ![k] = [NoPoll EXCEPT !.at = "tick", !.live = TRUE]]
                               /\ cancel' = k
      BY <1>2 DEF StartPoller
    <2>2. poll'[k].live = TRUE /\ "live" \in DOMAIN poll'[k] /\ DOMAIN poll' = Pollers
          /\ \A j \in Pollers : j # k => poll'[j] = poll[j]
      BY <2>1 DEF Held, NoPoll
    <2> QED BY <2>1, <2>2 DEF Held, Pollers
  <1> QED BY <1>1, <1>2

LEMMA StopPollerHolds ==
  ASSUME Held, StopPoller, buf' = buf, logs' = logs PROVE Held' /\ cancel' = 0
  <1>1. CASE cancel = 0
    BY <1>1 DEF StopPoller, Held
  <1>2. CASE cancel # 0
    <2>1. poll' = [poll EXCEPT ![cancel].live = FALSE] /\ cancel' = 0
      BY <1>2 DEF StopPoller
    <2>2. DOMAIN poll' = Pollers /\ \A k \in Pollers : "live" \in DOMAIN poll'[k]
      BY <2>1 DEF Held
    <2> QED BY <2>1, <2>2 DEF Held
  <1> QED BY <1>1, <1>2

LEMMA LogHandlesTabs == ASSUME Tabs, LogHandles PROVE Tabs'
  <1>1. PICK i \in DOMAIN calls :
          LogsStart(i) \/ LogsStartPoller(i) \/ LogsTail(i) \/ LogsStop(i) \/ LogsStopPoller(i)
    BY DEF LogHandles
  <1>2. UNCHANGED <<logs, win, faults>>
    BY <1>1 DEF LogHandles, LogsStart, LogsStartPoller, LogsTail, LogsStop, LogsStopPoller, shared
  <1>3. IsLogCall(i)
    BY <1>1 DEF IsLogCall, LogMethods, LogsStart, LogsStartPoller, LogsTail, LogsStop, LogsStopPoller, Runs
  <1>4. SUFFICES Held' /\ ("quick" \notin faults => Served')
    BY <1>2 DEF Tabs
  <1>5. Held /\ buf.subs \in Nat
    BY DEF Tabs, Held
  <1>6. ASSUME "quick" \notin faults
        PROVE  Served /\ Phase(calls[i]) /\ (FirstWindow => Counted(calls[i]))
    BY <1>3, <1>6 DEF Tabs, Served
  <1>7. ASSUME NEW st, NEW res, Stage(i, st, res), "quick" \notin faults
        PROVE  calls'[i].req = calls[i].req /\ calls'[i].st = st
    BY <1>6, <1>7, StageCalls DEF Served
  <1>8. ASSUME NEW st, NEW res, Stage(i, st, res), "quick" \notin faults, Phase(calls[i])',
               FirstWindow => Counted(calls[i])'
        PROVE  Served'
    BY <1>2, <1>3, <1>6, <1>8, HandlerServes
  <1>9. CASE LogsStart(i)
    <2>1. /\ calls[i].req.m = "logs.start" /\ calls[i].st = "new" /\ buf'.subs = buf.subs + 1
          /\ "subs" \in DOMAIN buf' /\ UNCHANGED <<poll, cancel>>
          /\ Stage(i, IF buf.subs = 0 THEN "poller" ELSE "tail", Failed)
      BY <1>5, <1>9 DEF LogsStart, Runs, Held
    <2>2. Held'
      BY <1>2, <1>5, <2>1 DEF Held
    <2>3. ASSUME "quick" \notin faults PROVE Served'
      <3>1. calls'[i].req.m = "logs.start" /\ calls'[i].st = IF buf.subs = 0 THEN "poller" ELSE "tail"
        BY <1>7, <2>1, <2>3
      <3>2. Phase(calls[i])'
        BY <1>5, <1>6, <2>1, <2>3, <3>1 DEF Phase, Even
      <3>3. FirstWindow => Counted(calls[i])'
        BY <1>2, <1>5, <1>6, <2>1, <2>3, <3>1 DEF Counted
      <3> QED BY <1>8, <2>1, <2>3, <3>2, <3>3
    <2> QED BY <2>2, <2>3
  <1>10. CASE LogsStartPoller(i)
    <2>1. /\ calls[i].req.m = "logs.start" /\ calls[i].st = "poller" /\ buf' = buf
          /\ StartPoller /\ Stage(i, "tail", Failed)
      BY <1>10 DEF LogsStartPoller, Runs
    <2>2. Held' /\ cancel' # 0
      BY <1>2, <1>5, <2>1, StartPollerHolds
    <2>3. ASSUME "quick" \notin faults PROVE Served'
      <3>1. calls'[i].req.m = "logs.start" /\ calls'[i].st = "tail"
        BY <1>7, <2>1, <2>3
      <3>2. Phase(calls[i])'
        BY <1>5, <1>6, <2>1, <2>2, <2>3, <3>1 DEF Phase
      <3>3. FirstWindow => Counted(calls[i])'
        BY <1>2, <1>5, <1>6, <2>1, <2>3, <3>1 DEF Counted
      <3> QED BY <1>8, <2>1, <2>3, <3>2, <3>3
    <2> QED BY <2>2, <2>3
  <1>11. CASE LogsTail(i)
    <2>1. /\ calls[i].req.m = "logs.start" /\ calls[i].st = "tail" /\ UNCHANGED <<buf, poll, cancel>>
          /\ Stage(i, "done", Value(Lastly(buf.ring, TailLimit)))
      BY <1>11 DEF LogsTail, Runs, Finish
    <2>2. Held'
      BY <1>2, <1>5, <2>1 DEF Held
    <2>3. ASSUME "quick" \notin faults PROVE Served'
      <3>1. calls'[i].req.m = "logs.start" /\ calls'[i].st = "done"
        BY <1>7, <2>1, <2>3
      <3>2. Phase(calls[i])'
        BY <1>5, <1>6, <2>1, <2>3, <3>1 DEF Phase
      <3>3. FirstWindow => Counted(calls[i])'
        BY <1>2, <1>5, <1>6, <2>1, <2>3, <3>1 DEF Counted
      <3> QED BY <1>8, <2>1, <2>3, <3>2, <3>3
    <2> QED BY <2>2, <2>3
  <1>12. CASE LogsStop(i)
    <2>1. /\ calls[i].req.m = "logs.stop" /\ calls[i].st = "new"
          /\ buf'.subs = IF buf.subs > 0 THEN buf.subs - 1 ELSE 0
          /\ "subs" \in DOMAIN buf' /\ UNCHANGED <<poll, cancel>>
      BY <1>5, <1>12 DEF LogsStop, Runs, Held
    <2>2. \E res : Stage(i, IF buf.subs <= 1 THEN "poller" ELSE "done", res)
      BY <1>12, Zenon DEF LogsStop, Finish
    <2>3. Held'
      BY <1>2, <1>5, <2>1 DEF Held
    <2>4. ASSUME "quick" \notin faults PROVE Served'
      <3>1. calls'[i].req.m = "logs.stop" /\ calls'[i].st = IF buf.subs <= 1 THEN "poller" ELSE "done"
        BY <1>7, <2>1, <2>2, <2>4
      <3>2. Phase(calls[i])'
        BY <1>5, <1>6, <2>1, <2>4, <3>1 DEF Phase, Even
      <3>3. FirstWindow => Counted(calls[i])'
        BY <1>2, <1>5, <1>6, <2>1, <2>4, <3>1 DEF Counted
      <3> QED BY <1>8, <2>2, <2>4, <3>2, <3>3
    <2> QED BY <2>3, <2>4
  <1>13. CASE LogsStopPoller(i)
    <2>1. /\ calls[i].req.m = "logs.stop" /\ calls[i].st = "poller" /\ buf' = buf
          /\ StopPoller /\ Stage(i, "done", Fine)
      BY <1>13 DEF LogsStopPoller, Runs, Finish
    <2>2. Held' /\ cancel' = 0
      BY <1>2, <1>5, <2>1, StopPollerHolds
    <2>3. ASSUME "quick" \notin faults PROVE Served'
      <3>1. calls'[i].req.m = "logs.stop" /\ calls'[i].st = "done"
        BY <1>7, <2>1, <2>3
      <3>2. Phase(calls[i])'
        BY <1>5, <1>6, <2>1, <2>2, <2>3, <3>1 DEF Phase, Even
      <3>3. FirstWindow => Counted(calls[i])'
        BY <1>2, <1>5, <1>6, <2>1, <2>3, <3>1 DEF Counted
      <3> QED BY <1>8, <2>1, <2>3, <3>2, <3>3
    <2> QED BY <2>2, <2>3
  <1> QED BY <1>1, <1>9, <1>10, <1>11, <1>12, <1>13

LEMMA StreamTabs ==
  ASSUME Tabs, Held', UNCHANGED <<calls, cancel, win, faults>>, buf'.subs = buf.subs, logs'.tab = logs.tab
  PROVE  Tabs'
  <1>1. ASSUME "quick" \notin faults PROVE Served'
    <2>1. Served
      BY <1>1 DEF Tabs
    <2> QED BY <2>1, SameAside, AsideServes DEF Served, FirstWindow
  <1> QED BY <1>1 DEF Tabs

LEMMA AddKeeps ==
  ASSUME Held, NEW ls, Add(ls) PROVE buf'.subs = buf.subs /\ "subs" \in DOMAIN buf'
  BY DEF Add, Held

LEMMA ShownKeeps ==
  ASSUME NEW l, NEW list, "tab" \in DOMAIN l
  PROVE  "tab" \in DOMAIN Shown(l, list) /\ Shown(l, list).tab = l.tab
  BY DEF Shown

LEMMA PollTabs == ASSUME Tabs, LogWorld \/ LogMoves PROVE Tabs'
  <1>0. Held
    BY DEF Tabs
  <1>1. UNCHANGED <<calls, cancel, win, faults, logs>>
    BY DEF LogWorld, LogMoves, pipe, shared, WriteLog, RotateLog, BridgeLog, OpenLog, PollReads, PollApply,
           PollFails, PollEnds
  <1>2. SUFFICES Held' /\ buf'.subs = buf.subs
    BY <1>1, StreamTabs
  <1>3. CASE UNCHANGED <<poll, buf>>
    BY <1>0, <1>1, <1>3 DEF Held
  <1>4. CASE BridgeLog
    BY <1>0, <1>1, <1>4, AddKeeps DEF BridgeLog, Held
  <1>5. ASSUME NEW k \in Pollers, PollReads(k) \/ PollFails(k) \/ PollEnds(k) \/ PollApply(k)
        PROVE  Held' /\ buf'.subs = buf.subs
    <2>1. buf'.subs = buf.subs /\ "subs" \in DOMAIN buf'
      <3>1. CASE PollApply(k)
        BY <1>0, <3>1, AddKeeps, Zenon DEF PollApply
      <3>2. CASE buf' = buf
        BY <1>0, <3>2 DEF Held
      <3> QED BY <1>5, <3>1, <3>2 DEF PollReads, PollFails, PollEnds
    <2>2. \E p : /\ poll' = [poll EXCEPT ![k] = p] /\ "live" \in DOMAIN p
                 /\ poll[k].live => p.live
      <3>1. "live" \in DOMAIN poll[k]
        BY <1>0 DEF Held
      <3>2. CASE PollReads(k)
        <4> DEFINE p == [poll[k] EXCEPT !.at = "apply", !.got = ReadLogs(lf.offset)]
        <4>1. poll' = [poll EXCEPT ![k] = p]
          BY <3>2 DEF PollReads
        <4>2. "live" \in DOMAIN p /\ p.live = poll[k].live
          BY <3>1
        <4> HIDE DEF p
        <4> QED BY <4>1, <4>2
      <3>3. CASE PollFails(k)
        <4> DEFINE p == [NoPoll EXCEPT !.at = "tick"]
        <4>1. poll' = [poll EXCEPT ![k] = p] /\ ~poll[k].live
          BY <3>3 DEF PollFails
        <4>2. "live" \in DOMAIN p
          BY DEF NoPoll
        <4> HIDE DEF p
        <4> QED BY <4>1, <4>2
      <3>4. CASE PollEnds(k)
        <4>1. poll' = [poll EXCEPT ![k] = NoPoll] /\ ~poll[k].live
          BY <3>4 DEF PollEnds
        <4>2. "live" \in DOMAIN NoPoll
          BY DEF NoPoll
        <4> QED BY <4>1, <4>2
      <3>5. CASE PollApply(k)
        <4> DEFINE p == [poll[k] EXCEPT !.at = "tick", !.got = NoPoll.got]
        <4>1. poll' = [poll EXCEPT ![k] = p]
          BY <1>0, <3>5 DEF PollApply, Held
        <4>2. "live" \in DOMAIN p /\ p.live = poll[k].live
          BY <3>1
        <4> HIDE DEF p
        <4> QED BY <4>1, <4>2
      <3> QED BY <1>5, <3>2, <3>3, <3>4, <3>5
    <2>3. PICK p : /\ poll' = [poll EXCEPT ![k] = p] /\ "live" \in DOMAIN p
                   /\ poll[k].live => p.live
      BY <2>2
    <2>4. DOMAIN poll' = Pollers /\ poll'[k] = p /\ \A j \in Pollers : j # k => poll'[j] = poll[j]
      BY <1>0, <2>3 DEF Held
    <2>5. \A j \in Pollers : "live" \in DOMAIN poll'[j] /\ (poll[j].live => poll'[j].live)
      BY <1>0, <2>3, <2>4 DEF Held
    <2> QED BY <1>0, <1>1, <2>1, <2>4, <2>5 DEF Held
  <1>6. CASE LogWorld
    BY <1>3, <1>4, <1>6 DEF LogWorld, WriteLog, RotateLog
  <1>7. CASE LogMoves
    BY <1>3, <1>5, <1>7 DEF LogMoves, OpenLog
  <1> QED BY <1>6, <1>7

LEMMA LinesTabs == ASSUME Tabs, LogPublishes \/ LogReceives PROVE Tabs'
  <1>1. UNCHANGED <<calls, cancel, win, faults, buf, poll>>
    BY DEF LogPublishes, LogReceives, PublishLine, shared
  <1>2. "tab" \in DOMAIN logs' /\ logs'.tab = logs.tab
    <2>1. "tab" \in DOMAIN logs
      BY DEF Tabs, Held
    <2>2. CASE logs' = logs
      BY <2>1, <2>2
    <2>3. ASSUME NEW e, OnLogLine(e) PROVE "tab" \in DOMAIN logs' /\ logs'.tab = logs.tab
      BY <2>1, <2>3, ShownKeeps DEF OnLogLine
    <2>4. ASSUME NEW e, StartAnswer(e) PROVE "tab" \in DOMAIN logs' /\ logs'.tab = logs.tab
      <3> DEFINE l == Shown(logs, e)
      <3>1. "tab" \in DOMAIN l /\ l.tab = logs.tab
        BY <2>1, ShownKeeps
      <3>2. logs' = [l EXCEPT !.on = TRUE]
        BY <2>4 DEF StartAnswer
      <3> HIDE DEF l
      <3> QED BY <3>1, <3>2
    <2>5. logs' = logs \/ (\E e : OnLogLine(e)) \/ (\E e : StartAnswer(e))
      BY Zenon DEF LogPublishes, LogReceives, PublishLine
    <2> QED BY <2>2, <2>3, <2>4, <2>5
  <1>3. Held'
    BY <1>1, <1>2 DEF Tabs, Held
  <1> QED BY <1>1, <1>2, <1>3, StreamTabs

LEMMA TabsInit == ASSUME Init PROVE Tabs
  <1>1. win.gen = 1 /\ win.open \in BOOLEAN /\ {"open", "gen"} \subseteq DOMAIN win
    BY DEF Init, DashInit
  <1>2. /\ logs = NoLogs /\ cancel = 0 /\ buf = [seq |-> 0, ring |-> <<>>, subs |-> 0]
        /\ poll = [k \in Pollers |-> NoPoll]
    BY DEF Init, LogInit
  <1>3. Held /\ logs.tab = FALSE
    BY <1>2 DEF Held, NoPoll, NoLogs
  <1>4. IsCalls(calls) /\ \A i \in DOMAIN calls : calls[i].req.m \notin LogMethods
    <2>1. PICK r : r = Request("snapshot", <<>>)
      OBVIOUS
    <2>2. calls = <<>> \/ calls = <<r>>
      BY <2>1 DEF Init, DashInit
    <2>3. r.req.m = "snapshot" /\ DOMAIN r = {"req", "st", "res"}
      BY <2>1 DEF Request
    <2>4. CASE calls = <<>>
      <3>1. calls \in Seq({r}) /\ Len(calls) = 0 /\ DOMAIN calls = {}
        BY <2>4
      <3> QED BY <3>1 DEF IsCalls
    <2>5. CASE calls = <<r>>
      <3>1. calls \in Seq({r}) /\ Len(calls) = 1 /\ DOMAIN calls = {1} /\ calls[1] = r /\ 1..1 = {1}
        BY <2>5
      <3> QED BY <2>3, <3>1 DEF IsCalls, LogMethods
    <2> QED BY <2>2, <2>4, <2>5
  <1>5. Served
    BY <1>2, <1>3, <1>4 DEF Served, IsLogCall, Even
  <1>6. win.gen \in Nat \ {0}
    BY <1>1
  <1>7. logs.tab \in BOOLEAN
    BY <1>3
  <1> QED BY <1>1, <1>3, <1>5, <1>6, <1>7, Zenon DEF Tabs

LEMMA TabsStep == ASSUME Tabs, Claimed, [Next]_vars PROVE Tabs'
  <1>1. CASE Output
    BY <1>1, OutputTabs
  <1>2. CASE Handles
    BY <1>2, HandlesAside, QuietTabs DEF Handles, logv, shared
  <1>3. CASE Renders
    <2>1. Extended(calls, calls') /\ UNCHANGED <<buf, cancel, poll, logs, win, faults>>
      BY <1>3, ReceivesOrderly, AutoConnectClaims DEF Renders, logv, shared
    <2> QED BY <2>1, ExtendedAside, QuietTabs
  <1>4. CASE User
    <2>1. Extended(calls, calls') /\ UNCHANGED <<buf, cancel, poll, logs, win, faults>>
      BY <1>4, UserOrderly DEF User, logv
    <2> QED BY <2>1, ExtendedAside, QuietTabs
  <1>5. CASE CloseWindow \/ OpenWindow
    BY <1>5, WindowTabs
  <1>6. CASE UNCHANGED <<calls, buf, cancel, poll, logs, win, faults>>
    BY <1>6, SameAside, QuietTabs
  <1>7. CASE ChainMoves \/ ChainWorld
    BY <1>6, <1>7 DEF ChainMoves, ChainWorld, BringUpDone, BringUpFails, ChainDrops, Noise, logv, shared
  <1>8. CASE Quit \/ Discard \/ DriverTick \/ TimerTick \/ WorkerMoves \/ WorkerPanics \/ UserSync \/ UserSubs
    BY <1>6, <1>8 DEF Quit, CloseInput, Discard, DriverTick, TimerTick, WorkerMoves, WorkerPanics, UserSync, UserSubs,
                      pipe, logv, shared
  <1>9. CASE LogUser
    BY <1>9, TabSends
  <1>10. CASE LogHandles
    BY <1>10, LogHandlesTabs
  <1>11. CASE LogWorld \/ LogMoves
    BY <1>11, PollTabs
  <1>12. CASE LogPublishes \/ LogReceives
    BY <1>12, LinesTabs
  <1>13. CASE UNCHANGED vars
    BY <1>6, <1>13 DEF vars, pipe, shared, logv
  <1> QED BY <1>1, <1>2, <1>3, <1>4, <1>5, <1>7, <1>8, <1>9, <1>10, <1>11, <1>12, <1>13 DEF Next, System

\* With no call of the tab under way a poller runs while the Logs tab is open, and
\* in the first window none runs while it is closed (Subscribe and Unsubscribe
\* before StartPoller and StopPoller in LogService, the cancel function kept).
THEOREM PollerFollows == Spec => []PollerFollowsTab
  <1>1. Tabs => PollerFollowsTab
    BY DEF Tabs, Held, Served, Even, FirstWindow, PollerFollowsTab
  <1> QED BY <1>1, SessionInit, SessionStep, TabsInit, TabsStep, PTL DEF Spec

(***************************************************************************)
(* Places in a sequence, in their order: what Nth, At, Lines and Capped    *)
(* return.                                                                 *)
(***************************************************************************)
\* The least of some numbers.
LEMMA LeastIn == ASSUME NEW I, I \subseteq Nat, I # {} PROVE \E x \in I : \A y \in I : x <= y
  <1> DEFINE R == {p \in Nat \X Nat : p[1] < p[2]}
  <1>1. OpToRel(<, Nat) = R
    BY Zenon DEF OpToRel
  <1>2. IsWellFoundedOn(R, Nat)
    BY <1>1, NatLessThanWellFounded
  <1> HIDE DEF R
  <1>3. PICK x \in I : \A y \in I : ~(<<y, x>> \in R)
    BY <1>2, WFMin
  <1>4. \A y \in I : <<y, x>> \in R <=> y < x
    BY DEF R
  <1>5. \A y \in I : ~(y < x) /\ x \in Nat /\ y \in Nat
    BY <1>3, <1>4, Zenon
  <1> QED BY <1>5

\* Induction on the counts up to n: a set that holds 0 and, with each count, the
\* next one holds them all.
LEMMA Climb ==
  ASSUME NEW n \in Nat, NEW T, 0 \in T, \A k \in 0..(n - 1) : k \in T => k + 1 \in T
  PROVE  \A k \in 0..n : k \in T
  <1> DEFINE bad == {k \in 0..n : k \notin T}
  <1>1. SUFFICES ASSUME bad # {} PROVE FALSE
    OBVIOUS
  <1>2. PICK x \in bad : \A y \in bad : x <= y
    <2>1. bad \subseteq Nat
      OBVIOUS
    <2> HIDE DEF bad
    <2> QED BY <1>1, <2>1, LeastIn
  <1>3. x \in 0..n /\ x # 0 /\ x \notin T
    BY <1>2
  <1>4. x - 1 \in 0..(n - 1) /\ (x - 1) + 1 = x /\ x - 1 \in 0..n /\ ~(x <= x - 1)
    BY <1>3
  <1>5. x - 1 \in T
    BY <1>2, <1>4
  <1> QED BY <1>3, <1>4, <1>5

\* How many of S are at or before k.
Count(S, k) == Cardinality({j \in S : j <= k})

LEMMA CountIs ==
  ASSUME NEW N \in Nat, NEW S \in SUBSET (1..N)
  PROVE  /\ IsFiniteSet(S) /\ Cardinality(S) \in Nat /\ Cardinality(S) <= N
         /\ \A k \in 0..N : Count(S, k) \in Nat
         /\ Count(S, 0) = 0 /\ Count(S, N) = Cardinality(S)
         /\ \A k \in 0..(N - 1) : Count(S, k + 1) = Count(S, k) + IF k + 1 \in S THEN 1 ELSE 0
  <1>0. \A j \in S : j \in Nat /\ 1 <= j /\ j <= N
    OBVIOUS
  <1>1. IsFiniteSet(1..N) /\ Cardinality(1..N) = N
    BY FS_Interval
  <1>2. IsFiniteSet(S) /\ Cardinality(S) <= N /\ Cardinality(S) \in Nat
    BY <1>1, FS_Subset, FS_CardinalityType
  <1>3. \A k \in 0..N : IsFiniteSet({j \in S : j <= k})
    BY <1>2, FS_Subset
  <1>4. \A k \in 0..N : Count(S, k) \in Nat
    BY <1>3, FS_CardinalityType DEF Count
  <1>5. {j \in S : j <= 0} = {} /\ {j \in S : j <= N} = S
    <2>1. \A j \in S : ~(j <= 0) /\ j <= N
      BY <1>0
    <2> QED BY <2>1
  <1>6. Count(S, 0) = 0 /\ Count(S, N) = Cardinality(S)
    BY <1>5, FS_EmptySet DEF Count
  <1>7. ASSUME NEW k \in 0..(N - 1)
        PROVE  Count(S, k + 1) = Count(S, k) + IF k + 1 \in S THEN 1 ELSE 0
    <2>1. k \in 0..N /\ k + 1 \in 0..N
      OBVIOUS
    <2>2. CASE k + 1 \in S
      <3>0. \A j \in S : j <= k + 1 <=> j <= k \/ j = k + 1
        BY <1>0
      <3>1. {j \in S : j <= k + 1} = {j \in S : j <= k} \cup {k + 1} /\ k + 1 \notin {j \in S : j <= k}
        <4>1. ~(k + 1 <= k)
          OBVIOUS
        <4>2. \A x : x \in {j \in S : j <= k + 1} <=> x \in {j \in S : j <= k} \cup {k + 1}
          <5>1. k + 1 <= k + 1
            OBVIOUS
          <5> QED BY <2>2, <3>0, <5>1, Zenon
        <4> QED BY <4>1, <4>2, Zenon
      <3>2. Cardinality({j \in S : j <= k} \cup {k + 1}) = Cardinality({j \in S : j <= k}) + 1
        BY <1>3, <2>1, <3>1, FS_AddElement
      <3> QED BY <2>2, <3>1, <3>2 DEF Count
    <2>3. CASE k + 1 \notin S
      <3>0. \A j \in S : j <= k + 1 <=> j <= k
        <4> SUFFICES ASSUME NEW j \in S PROVE j <= k + 1 <=> j <= k
          OBVIOUS
        <4>1. j # k + 1 /\ j \in Nat
          BY <1>0, <2>3
        <4> QED BY <4>1
      <3>1. {j \in S : j <= k + 1} = {j \in S : j <= k}
        BY <3>0
      <3>2. Count(S, k) \in Nat /\ Count(S, k + 1) = Count(S, k)
        BY <1>4, <2>1, <3>1 DEF Count
      <3> QED BY <2>3, <3>2
    <2> QED BY <2>2, <2>3
  <1> QED BY <1>2, <1>4, <1>6, <1>7

LEMMA CountRises ==
  ASSUME NEW N \in Nat, NEW S \in SUBSET (1..N), NEW i \in 0..N, NEW k \in 0..N, i <= k
  PROVE  Count(S, i) <= Count(S, k) /\ Count(S, k) <= Count(S, i) + (k - i)
  <1> DEFINE T == {d \in 0..(N - i) : Count(S, i) <= Count(S, i + d) /\ Count(S, i + d) <= Count(S, i) + d}
  <1>1. 0 \in T
    <2>1. 0 \in 0..(N - i) /\ i + 0 = i
      OBVIOUS
    <2>2. Count(S, i) \in Nat
      BY CountIs
    <2>3. Count(S, i) <= Count(S, i + 0) /\ Count(S, i + 0) <= Count(S, i) + 0
      BY <2>1, <2>2
    <2> QED BY <2>1, <2>3
  <1>2. ASSUME NEW d \in 0..((N - i) - 1), d \in T PROVE d + 1 \in T
    <2>1. i + d \in 0..(N - 1) /\ i + (d + 1) = (i + d) + 1 /\ i + d \in 0..N /\ i + (d + 1) \in 0..N
      OBVIOUS
    <2>2. Count(S, i + (d + 1)) = Count(S, i + d) + IF (i + d) + 1 \in S THEN 1 ELSE 0
      BY <2>1, CountIs
    <2>3. Count(S, i) \in Nat /\ Count(S, i + d) \in Nat
      BY <2>1, CountIs
    <2> QED BY <1>2, <2>2, <2>3
  <1>3. \A d \in 0..(N - i) : d \in T
    <2>1. N - i \in Nat
      OBVIOUS
    <2> HIDE DEF T
    <2> QED BY <1>1, <1>2, <2>1, Climb
  <1>4. k - i \in 0..(N - i) /\ i + (k - i) = k
    OBVIOUS
  <1> QED BY <1>3, <1>4

\* Nth goes through S in order and misses none.
LEMMA NthIs ==
  ASSUME NEW N \in Nat, NEW S \in SUBSET (1..N)
  PROVE  /\ \A n \in 1..Cardinality(S) : Nth(S, n) \in S /\ Count(S, Nth(S, n)) = n
         /\ \A m, n \in 1..Cardinality(S) : m < n => Nth(S, m) < Nth(S, n)
         /\ \A j \in S : Count(S, j) \in 1..Cardinality(S) /\ Nth(S, Count(S, j)) = j
  <1> DEFINE c == Cardinality(S)
  <1>1. c \in Nat /\ (\A k \in 0..N : Count(S, k) \in Nat) /\ Count(S, 0) = 0 /\ Count(S, N) = c
    BY CountIs
  <1>2. ASSUME NEW n \in 1..c PROVE \E k \in S : Count(S, k) = n
    <2> DEFINE I == {k \in 0..N : n <= Count(S, k)}
    <2>1. N \in I /\ I \subseteq Nat
      BY <1>1
    <2>2. PICK x \in I : \A y \in I : x <= y
      <3> HIDE DEF I
      <3> QED BY <2>1, LeastIn
    <2>3. x \in 0..N /\ x # 0 /\ n <= Count(S, x)
      BY <1>1, <2>2
    <2>4. x - 1 \in 0..(N - 1) /\ x - 1 \in 0..N /\ (x - 1) + 1 = x /\ ~(x <= x - 1)
      BY <2>3
    <2>5. ~(n <= Count(S, x - 1))
      BY <2>2, <2>4
    <2>6. Count(S, x) = Count(S, x - 1) + IF x \in S THEN 1 ELSE 0
      BY <2>4, CountIs
    <2>7. Count(S, x - 1) \in Nat /\ Count(S, x) \in Nat
      BY <1>1, <2>3, <2>4
    <2> HIDE DEF I
    <2>8. x \in S /\ Count(S, x) = n
      BY <2>3, <2>5, <2>6, <2>7
    <2> QED BY <2>8
  <1>3. ASSUME NEW i \in S, NEW k \in S, i < k PROVE Count(S, i) < Count(S, k)
    <2>1. i \in 0..N /\ k - 1 \in 0..N /\ k - 1 \in 0..(N - 1) /\ i <= k - 1 /\ (k - 1) + 1 = k
      BY <1>3
    <2>2. Count(S, i) <= Count(S, k - 1)
      BY <2>1, CountRises
    <2>3. Count(S, k) = Count(S, k - 1) + 1
      BY <2>1, CountIs
    <2>4. Count(S, i) \in Nat /\ Count(S, k - 1) \in Nat
      BY <1>1, <2>1
    <2> QED BY <2>2, <2>3, <2>4
  <1>4. \A i, k \in S : Count(S, i) = Count(S, k) => i = k
    <2>1. SUFFICES ASSUME NEW i \in S, NEW k \in S, Count(S, i) = Count(S, k), i # k PROVE FALSE
      OBVIOUS
    <2>2. i < k \/ k < i
      BY <2>1
    <2>3. Count(S, i) \in Nat /\ Count(S, k) \in Nat
      BY <1>1
    <2> QED BY <1>3, <2>1, <2>2, <2>3
  <1>5. \A n : Nth(S, n) = CHOOSE k \in S : Count(S, k) = n
    BY DEF Nth, Count
  <1>6. \A n \in 1..c : Nth(S, n) \in S /\ Count(S, Nth(S, n)) = n
    BY <1>2, <1>5
  <1>7. ASSUME NEW m \in 1..c, NEW n \in 1..c, m < n PROVE Nth(S, m) < Nth(S, n)
    <2>1. Nth(S, m) \in S /\ Nth(S, n) \in S /\ Count(S, Nth(S, m)) = m /\ Count(S, Nth(S, n)) = n
      BY <1>6
    <2>2. Nth(S, m) \in 1..N /\ Nth(S, n) \in 1..N
      BY <2>1
    <2>3. Nth(S, n) < Nth(S, m) \/ Nth(S, n) = Nth(S, m) \/ Nth(S, m) < Nth(S, n)
      BY <2>2
    <2>4. ASSUME Nth(S, n) < Nth(S, m) PROVE FALSE
      <3>1. Count(S, Nth(S, n)) < Count(S, Nth(S, m))
        BY <1>3, <2>1, <2>4
      <3>2. n < m
        BY <2>1, <3>1
      <3> QED BY <1>7, <3>2
    <2>5. Nth(S, n) # Nth(S, m)
      <3>1. m # n
        BY <1>7
      <3> QED BY <2>1, <3>1
    <2> QED BY <2>3, <2>4, <2>5
  <1>8. ASSUME NEW j \in S PROVE Count(S, j) \in 1..c /\ Nth(S, Count(S, j)) = j
    <2>1. j \in 0..N /\ N \in 0..N /\ j - 1 \in 0..(N - 1) /\ j - 1 \in 0..N /\ (j - 1) + 1 = j /\ j <= N
      OBVIOUS
    <2>2. Count(S, j) = Count(S, j - 1) + 1 /\ Count(S, j - 1) \in Nat
      BY <1>1, <2>1, CountIs
    <2>3. Count(S, j) <= c
      BY <1>1, <2>1, CountRises
    <2>4. Count(S, j) \in 1..c
      BY <1>1, <2>2, <2>3
    <2>5. Nth(S, Count(S, j)) \in S /\ Count(S, Nth(S, Count(S, j))) = Count(S, j)
      BY <1>6, <2>4
    <2> QED BY <1>4, <2>4, <2>5
  <1> QED BY <1>6, <1>7, <1>8

\* At picks elements of a sequence and keeps their order.
LEMMA AtIs ==
  ASSUME NEW X, NEW s \in Seq(X), NEW S \in SUBSET (DOMAIN s)
  PROVE  /\ At(s, S) \in Seq(X) /\ Len(At(s, S)) = Cardinality(S) /\ Cardinality(S) \in Nat
         /\ Cardinality(S) <= Len(s)
         /\ \A n \in 1..Cardinality(S) : Nth(S, n) \in S /\ At(s, S)[n] = s[Nth(S, n)]
         /\ \A m, n \in 1..Cardinality(S) : m < n => Nth(S, m) < Nth(S, n)
         /\ \A j \in S : Count(S, j) \in 1..Cardinality(S) /\ At(s, S)[Count(S, j)] = s[j]
  <1> DEFINE c == Cardinality(S)
  <1>1. Len(s) \in Nat /\ DOMAIN s = 1..Len(s) /\ S \in SUBSET (1..Len(s))
    OBVIOUS
  <1>2. c \in Nat /\ c <= Len(s)
    BY <1>1, CountIs
  <1>3. /\ \A n \in 1..c : Nth(S, n) \in S
        /\ \A m, n \in 1..c : m < n => Nth(S, m) < Nth(S, n)
        /\ \A j \in S : Count(S, j) \in 1..c /\ Nth(S, Count(S, j)) = j
    BY <1>1, NthIs
  <1> HIDE DEF c
  <1>4. At(s, S) = [n \in 1..c |-> s[Nth(S, n)]]
    BY DEF At, c
  <1>5. \A n \in 1..c : s[Nth(S, n)] \in X
    <2> SUFFICES ASSUME NEW n \in 1..c PROVE s[Nth(S, n)] \in X
      OBVIOUS
    <2>1. Nth(S, n) \in 1..Len(s)
      BY <1>1, <1>3
    <2> QED BY <2>1
  <1>6. At(s, S) \in Seq(X) /\ Len(At(s, S)) = c
    BY <1>2, <1>4, <1>5
  <1> QED BY <1>2, <1>3, <1>4, <1>6 DEF c

\* The greatest of some places.
LEMMA MaxIs ==
  ASSUME NEW S \in SUBSET Nat, NEW x \in S, \A y \in S : y <= x PROVE Max(S) = x
  <1>1. Max(S) = CHOOSE z \in S : \A y \in S : z >= y
    BY DEF Max
  <1>2. \A y \in S : x >= y /\ y \in Nat /\ x \in Nat
    OBVIOUS
  <1>3. PICK z \in S : z = Max(S) /\ \A y \in S : z >= y
    BY <1>1, <1>2, Zenon
  <1>4. z >= x /\ x >= z
    BY <1>2, <1>3
  <1> QED BY <1>2, <1>3, <1>4

(***************************************************************************)
(* Texts: the pieces of a file, and the lines a poller cuts out of them.   *)
(***************************************************************************)
Pieces == [line : Nat \ {0}, end : BOOLEAN]

\* Every line is begun before it is ended, and the next one begun after that; a
\* line that the rotation left open has no successor.
Tidy(t) ==
  /\ \A i \in 1..Len(t) : t[i].end => i > 1 /\ t[i - 1] = Piece(t[i].line, FALSE)
  /\ \A i \in 1..Len(t) : ~t[i].end /\ i > 1 => t[i - 1].end
  /\ \A i, j \in 1..Len(t) : i < j => t[i].line <= t[j].line /\ (t[i].end => t[i].line < t[j].line)

\* A line of t begins at a, or would.
Starts(t, a) == a \in 1..(Len(t) + 1) /\ (a = 1 \/ t[a - 1].end)

LEMMA PartIs ==
  ASSUME NEW X, NEW t \in Seq(X), NEW a \in 1..(Len(t) + 1), NEW b \in (a - 1)..Len(t)
  PROVE  /\ SubSeq(t, a, b) \in Seq(X) /\ Len(SubSeq(t, a, b)) = b + 1 - a
         /\ \A i \in 1..(b + 1 - a) : SubSeq(t, a, b)[i] = t[a + i - 1] /\ a + i - 1 \in a..b
  <1>1. Len(t) \in Nat /\ a \in Nat /\ b \in Nat /\ b + 1 - a \in Nat /\ \A i \in a..b : t[i] \in X
    OBVIOUS
  <1> QED BY <1>1

LEMMA PieceIs == ASSUME NEW n \in Nat \ {0}, NEW e \in BOOLEAN
                 PROVE Piece(n, e) \in Pieces /\ Piece(n, e).line = n /\ Piece(n, e).end = e
  BY DEF Piece, Pieces

LEMMA TidyPart ==
  ASSUME NEW t \in Seq(Pieces), Tidy(t), NEW a, Starts(t, a), NEW b \in (a - 1)..Len(t)
  PROVE  SubSeq(t, a, b) \in Seq(Pieces) /\ Tidy(SubSeq(t, a, b))
  <1>1. a \in 1..(Len(t) + 1) /\ Len(t) \in Nat
    BY DEF Starts
  <1>2. PICK u : u = SubSeq(t, a, b)
    OBVIOUS
  <1>3. /\ u \in Seq(Pieces) /\ Len(u) = b + 1 - a
        /\ \A i \in 1..(b + 1 - a) : u[i] = t[a + i - 1] /\ a + i - 1 \in a..b
    BY <1>1, <1>2, PartIs
  <1>4. \A i \in 1..Len(u) : u[i] = t[a + i - 1] /\ a + i - 1 \in 1..Len(t) /\ a + i - 1 \in Nat
    BY <1>1, <1>3
  <1>5. ASSUME NEW i \in 1..Len(u), u[i].end PROVE i > 1 /\ u[i - 1] = Piece(u[i].line, FALSE)
    <2>1. /\ u[i] = t[a + i - 1] /\ a + i - 1 \in 1..Len(t)
          /\ t[(a + i - 1) - 1] = Piece(t[a + i - 1].line, FALSE) /\ a + i - 1 > 1
      BY <1>4, <1>5 DEF Tidy
    <2>2. i # 1
      <3> SUFFICES ASSUME i = 1 PROVE FALSE
        OBVIOUS
      <3>0. a + i - 1 = a /\ a \in Nat
        BY <1>1
      <3>1. t[a - 1] = Piece(t[a].line, FALSE) /\ a > 1
        BY <2>1, <3>0
      <3>2. t[a - 1].end
        <4>1. a # 1
          BY <3>0, <3>1
        <4> QED BY <4>1, Zenon DEF Starts
      <3> QED BY <3>1, <3>2 DEF Piece
    <2>3. i - 1 \in 1..Len(u) /\ a + (i - 1) - 1 = (a + i - 1) - 1 /\ i > 1
      BY <1>1, <1>3, <2>2
    <2>4. u[i - 1] = t[a + (i - 1) - 1]
      BY <1>4, <2>3
    <2> QED BY <2>1, <2>3, <2>4
  <1>6. ASSUME NEW i \in 1..Len(u), ~u[i].end, i > 1 PROVE u[i - 1].end
    <2>1. i - 1 \in 1..Len(u) /\ a + (i - 1) - 1 = (a + i - 1) - 1 /\ a + i - 1 > 1
      BY <1>1, <1>3, <1>6
    <2>2. u[i - 1] = t[(a + i - 1) - 1] /\ u[i] = t[a + i - 1] /\ a + i - 1 \in 1..Len(t)
      BY <1>4, <2>1
    <2> QED BY <1>6, <2>1, <2>2 DEF Tidy
  <1>7. ASSUME NEW i \in 1..Len(u), NEW j \in 1..Len(u), i < j
        PROVE  u[i].line <= u[j].line /\ (u[i].end => u[i].line < u[j].line)
    <2>1. /\ u[i] = t[a + i - 1] /\ a + i - 1 \in 1..Len(t)
          /\ u[j] = t[a + j - 1] /\ a + j - 1 \in 1..Len(t)
      BY <1>4
    <2>2. a + i - 1 < a + j - 1
      BY <1>1, <1>7
    <2> QED BY <2>1, <2>2 DEF Tidy
  <1>8. Tidy(u)
    BY <1>5, <1>6, <1>7 DEF Tidy
  <1> QED BY <1>2, <1>3, <1>8

LEMMA PieceOf ==
  ASSUME NEW p \in Pieces
  PROVE  p.line \in Nat \ {0} /\ p.end \in BOOLEAN /\ p = Piece(p.line, p.end)
  BY DEF Piece, Pieces

LEMMA WholeIs ==
  ASSUME NEW l \in Nat \ {0} PROVE Whole(l) \in Seq(Pieces) /\ Whole(l)[1].line = l
  <1>1. PICK p, q : p = Piece(l, FALSE) /\ q = Piece(l, TRUE)
    OBVIOUS
  <1>2. p \in Pieces /\ q \in Pieces /\ p.line = l /\ Whole(l) = <<p, q>>
    BY <1>1, PieceIs DEF Whole
  <1>3. <<p, q>> \in Seq(Pieces) /\ <<p, q>>[1] = p
    BY <1>2
  <1> QED BY <1>2, <1>3

LEMMA EndsAre ==
  ASSUME NEW t \in Seq(Pieces)
  PROVE  Ends(t) \in SUBSET (DOMAIN t) /\ Ends(t) \in SUBSET (1..Len(t)) /\ DOMAIN t = 1..Len(t) /\ Len(t) \in Nat
         /\ \A k \in 1..Len(t) : k \in Ends(t) <=> t[k].end
  BY DEF Ends

\* A line that a tidy text ends is whole.
LEMMA LineIs ==
  ASSUME NEW t \in Seq(Pieces), Tidy(t), NEW k \in Ends(t)
  PROVE  SubSeq(t, From(t, k), k) = Whole(t[k].line)
  <1>1. k \in 1..Len(t) /\ t[k].end /\ Len(t) \in Nat /\ k \in Nat
    BY EndsAre
  <1>2. k > 1 /\ t[k - 1] = Piece(t[k].line, FALSE)
    BY <1>1 DEF Tidy
  <1>3. t[k] = Piece(t[k].line, TRUE) /\ ~t[k - 1].end /\ k - 1 \in 1..Len(t)
    <2>1. t[k] \in Pieces
      BY <1>1
    <2>2. t[k].end \in BOOLEAN /\ t[k] = Piece(t[k].line, t[k].end)
      BY <2>1, PieceOf
    <2>3. t[k].end = TRUE
      BY <1>1, <2>2, Zenon
    <2>4. ~t[k - 1].end
      BY <1>2 DEF Piece
    <2>5. t[k] = Piece(t[k].line, TRUE)
      BY <2>2, <2>3, Zenon
    <2>6. k - 1 \in 1..Len(t)
      BY <1>1, <1>2
    <2> QED BY <2>4, <2>5, <2>6
  <1> DEFINE S == {0} \cup {j \in Ends(t) : j < k}
  <1>4. S \in SUBSET Nat
    BY EndsAre
  <1>5. k - 2 \in S
    <2>1. CASE k = 2
      BY <2>1
    <2>2. CASE k # 2
      <3>1. k - 1 > 1 /\ (k - 1) - 1 = k - 2 /\ k - 2 \in 1..Len(t) /\ k - 2 < k
        BY <1>1, <1>2, <2>2
      <3>2. t[k - 2].end
        BY <1>3, <3>1 DEF Tidy
      <3>3. k - 2 \in Ends(t)
        BY <3>1, <3>2, EndsAre
      <3> QED BY <3>1, <3>3
    <2> QED BY <2>1, <2>2
  <1>6. \A j \in S : j <= k - 2
    <2> SUFFICES ASSUME NEW j \in S PROVE j <= k - 2
      OBVIOUS
    <2>1. CASE j = 0
      BY <1>1, <1>2, <2>1
    <2>2. CASE j \in Ends(t) /\ j < k
      <3>1. j \in 1..Len(t) /\ t[j].end
        BY <2>2, EndsAre
      <3>2. j # k - 1
        BY <1>3, <3>1
      <3> QED BY <1>1, <2>2, <3>1, <3>2
    <2> QED BY <2>1, <2>2
  <1>7. Max(S) = k - 2
    <2> HIDE DEF S
    <2> QED BY <1>4, <1>5, <1>6, MaxIs
  <1>8. From(t, k) = k - 1
    <2>1. From(t, k) = 1 + Max(S)
      BY DEF From
    <2> HIDE DEF S
    <2> QED BY <1>1, <1>2, <1>7, <2>1
  <1>9. PICK u, a : u = SubSeq(t, k - 1, k) /\ a = k - 1
    OBVIOUS
  <1>10. u \in Seq(Pieces) /\ Len(u) = 2 /\ u[1] = t[k - 1] /\ u[2] = t[k]
    <2>1. a \in 1..(Len(t) + 1) /\ k \in (a - 1)..Len(t) /\ k + 1 - a = 2
          /\ a + 1 - 1 = k - 1 /\ a + 2 - 1 = k
      BY <1>1, <1>2, <1>9
    <2>2. /\ u \in Seq(Pieces) /\ Len(u) = k + 1 - a
          /\ \A i \in 1..(k + 1 - a) : u[i] = t[a + i - 1]
      BY <1>9, <2>1, PartIs
    <2> QED BY <2>1, <2>2
  <1>11. u = <<t[k - 1], t[k]>>
    BY <1>10
  <1> QED BY <1>2, <1>3, <1>8, <1>9, <1>11 DEF Whole

\* What a poller cuts out of a tidy text, and what it keeps for the next read.
LEMMA TidyLines ==
  ASSUME NEW t \in Seq(Pieces), Tidy(t)
  PROVE  /\ Lines(t) \in Seq(Seq(Pieces))
         /\ \A n \in 1..Len(Lines(t)) : \E k \in Ends(t) : Lines(t)[n] = Whole(t[k].line)
         /\ \A m, n \in 1..Len(Lines(t)) : m < n => Lines(t)[m][1].line < Lines(t)[n][1].line
  <1> DEFINE c == Cardinality(Ends(t))
             w(n) == Whole(t[Nth(Ends(t), n)].line)
  <1>1. /\ c \in Nat
        /\ \A n \in 1..c : Nth(Ends(t), n) \in Ends(t)
        /\ \A m, n \in 1..c : m < n => Nth(Ends(t), m) < Nth(Ends(t), n)
    BY EndsAre, CountIs, NthIs
  <1>2. Lines(t) = [n \in 1..c |-> w(n)]
    <2>1. \A n \in 1..c : SubSeq(t, From(t, Nth(Ends(t), n)), Nth(Ends(t), n)) = w(n)
      BY <1>1, LineIs
    <2>2. Lines(t) = [n \in 1..c |-> SubSeq(t, From(t, Nth(Ends(t), n)), Nth(Ends(t), n))]
      BY DEF Lines
    <2> HIDE DEF c, w
    <2> QED BY <2>1, <2>2
  <1>3. \A k \in Ends(t) : k \in 1..Len(t) /\ t[k].end /\ t[k].line \in Nat \ {0}
    <2> SUFFICES ASSUME NEW k \in Ends(t) PROVE k \in 1..Len(t) /\ t[k].end /\ t[k].line \in Nat \ {0}
      OBVIOUS
    <2>1. k \in 1..Len(t) /\ t[k].end
      BY EndsAre
    <2>2. t[k] \in Pieces
      BY <2>1
    <2> QED BY <2>1, <2>2, PieceOf
  <1>4. \A n \in 1..c : w(n) \in Seq(Pieces) /\ w(n)[1].line = t[Nth(Ends(t), n)].line
    <2> SUFFICES ASSUME NEW n \in 1..c PROVE w(n) \in Seq(Pieces) /\ w(n)[1].line = t[Nth(Ends(t), n)].line
      OBVIOUS
    <2>1. PICK l : l = t[Nth(Ends(t), n)].line
      OBVIOUS
    <2>2. l \in Nat \ {0}
      BY <1>1, <1>3, <2>1
    <2>3. w(n) = Whole(l)
      BY <2>1
    <2> QED BY <2>1, <2>2, <2>3, WholeIs
  <1>5. ASSUME NEW m \in 1..c, NEW n \in 1..c, m < n
        PROVE  t[Nth(Ends(t), m)].line < t[Nth(Ends(t), n)].line
    BY <1>1, <1>3, <1>5 DEF Tidy
  <1> HIDE DEF w
  <1>6. Lines(t) \in Seq(Seq(Pieces)) /\ Len(Lines(t)) = c /\ \A n \in 1..c : Lines(t)[n] = w(n)
    <2> HIDE DEF c
    <2> QED BY <1>1, <1>2, <1>4
  <1> QED BY <1>1, <1>4, <1>5, <1>6 DEF w

LEMMA RestIs ==
  ASSUME NEW t \in Seq(Pieces)
  PROVE  \E f : Starts(t, f) /\ Rest(t) = SubSeq(t, f, Len(t)) /\ \A k \in Ends(t) : k < f
  <1> DEFINE S == {0} \cup {j \in Ends(t) : j < Len(t) + 1}
             n == Len(t)
  <1>1. n \in Nat /\ S \in SUBSET Nat /\ S \subseteq 0..n /\ 0 \in S
    BY EndsAre
  <1>2. \E x \in S : \A y \in S : y <= x
    <2> DEFINE I == {i \in 0..n : n - i \in S}
    <2>1. I \subseteq Nat /\ I # {}
      <3>1. n \in 0..n /\ n - n = 0
        BY <1>1
      <3> QED BY <1>1, <3>1
    <2>2. PICK i \in I : \A j \in I : i <= j
      <3> HIDE DEF I
      <3> QED BY <2>1, LeastIn
    <2>3. ASSUME NEW y \in S PROVE y <= n - i
      <3>1. n - y \in 0..n /\ n - (n - y) = y /\ y \in Nat
        BY <1>1
      <3>2. n - y \in I
        BY <3>1
      <3>3. i <= n - y /\ i \in Nat
        BY <2>2, <3>2
      <3> QED BY <1>1, <3>1, <3>3
    <2> QED BY <2>2, <2>3
  <1>3. PICK x \in S : \A y \in S : y <= x
    BY <1>2
  <1>4. Max(S) = x /\ x \in 0..n
    <2> HIDE DEF S
    <2> QED BY <1>1, <1>3, MaxIs
  <1>5. PICK f : f = 1 + x
    OBVIOUS
  <1>6. Rest(t) = SubSeq(t, f, n)
    <2>1. From(t, Len(t) + 1) = 1 + Max(S)
      BY DEF From
    <2> QED BY <1>4, <1>5, <2>1 DEF Rest
  <1>7. Starts(t, f)
    <2>1. f \in 1..(Len(t) + 1) /\ f - 1 = x
      BY <1>1, <1>4, <1>5
    <2>2. f = 1 \/ t[x].end
      <3>1. x = 0 \/ x \in Ends(t)
        BY <1>3
      <3> QED BY <1>4, <1>5, <3>1, EndsAre
    <2> QED BY <2>1, <2>2 DEF Starts
  <1>8. ASSUME NEW k \in Ends(t) PROVE k < f
    <2>1. k \in 1..Len(t) /\ k < Len(t) + 1
      BY EndsAre
    <2>2. k \in S
      BY <2>1
    <2>3. k <= x
      BY <1>3, <2>2
    <2> QED BY <1>4, <1>5, <2>1, <2>3
  <1> QED BY <1>6, <1>7, <1>8

(***************************************************************************)
(* The buffer's ring.                                                      *)
(***************************************************************************)
\* c is some of the entries of r, in their order.
Thins(r, c) ==
  /\ \A n \in 1..Len(c) : \E i \in 1..Len(r) : c[n] = r[i]
  /\ \A m, n \in 1..Len(c) : m < n => \E i, j \in 1..Len(r) : i < j /\ c[m] = r[i] /\ c[n] = r[j]

LEMMA CappedIs ==
  ASSUME NEW X, NEW r \in Seq(X)
  PROVE  Capped(r) \in Seq(X) /\ Thins(r, Capped(r))
  <1> DEFINE later(n) == {m \in (n + 1)..Len(r) : Source(r[m]) = Source(r[n])}
             S == {n \in DOMAIN r : Cardinality(later(n)) < Cap}
  <1>1. Capped(r) = At(r, S)
    BY DEF Capped
  <1>2. S \in SUBSET (DOMAIN r)
    OBVIOUS
  <1> HIDE DEF S
  <1>3. /\ At(r, S) \in Seq(X) /\ Len(At(r, S)) = Cardinality(S) /\ Cardinality(S) \in Nat
        /\ \A n \in 1..Cardinality(S) : Nth(S, n) \in S /\ At(r, S)[n] = r[Nth(S, n)]
        /\ \A m, n \in 1..Cardinality(S) : m < n => Nth(S, m) < Nth(S, n)
    BY <1>2, AtIs
  <1>4. DOMAIN r = 1..Len(r)
    OBVIOUS
  <1>5. PICK c : c = Capped(r)
    OBVIOUS
  <1>6. c \in Seq(X) /\ Len(c) = Cardinality(S) /\ \A n \in 1..Len(c) : Nth(S, n) \in 1..Len(r) /\ c[n] = r[Nth(S, n)]
    BY <1>1, <1>2, <1>3, <1>4, <1>5
  <1>7. \A m, n \in 1..Len(c) : m < n => Nth(S, m) < Nth(S, n)
    BY <1>3, <1>6
  <1> QED BY <1>5, <1>6, <1>7 DEF Thins

(***************************************************************************)
(* One poller at a time reads the file.                                    *)
(***************************************************************************)
IsPoll(p) ==
  /\ DOMAIN p = {"at", "live", "got"} /\ DOMAIN p.got = {"data", "off", "cut", "gen"}
  /\ p.at \in {"none", "tick", "apply"}

\* A handler of the Logs tab that has not ended.
Pending(c) == c.req.m \in LogMethods /\ c.st # "done"

\* A poller that is not cancelled is the one that can be cancelled, no goroutine
\* runs beside another, and none that is cancelled while the tab's call is served.
OneReads ==
  /\ \A k \in Pollers : poll[k].live => k = cancel /\ poll[k].at # "none"
  /\ \A j, k \in Pollers : poll[j].at # "none" /\ poll[k].at # "none" => j = k
  /\ \A i \in DOMAIN calls : Pending(calls[i]) => \A k \in Pollers : poll[k].live \/ poll[k].at = "none"
Lone ==
  /\ DOMAIN poll = Pollers /\ \A k \in Pollers : IsPoll(poll[k])
  /\ faults \cap {"quick", "overlap"} = {} => OneReads

LEMMA NoPollIs == IsPoll(NoPoll) /\ NoPoll.at = "none" /\ NoPoll.live = FALSE
  BY DEF NoPoll, IsPoll

\* Nothing starts or stops a poller, and no call of the tab comes.
LEMMA LoneStays ==
  ASSUME Lone, UNCHANGED <<poll, cancel, faults>>,
         faults \cap {"quick", "overlap"} = {} =>
           \A i \in DOMAIN calls' : Pending(calls[i])' => \E j \in DOMAIN calls : Pending(calls[j])
  PROVE  Lone'
  <1>1. ASSUME faults \cap {"quick", "overlap"} = {}
        PROVE  OneReads'
    <2>1. OneReads
      BY <1>1 DEF Lone
    <2>2. \A i \in DOMAIN calls' : Pending(calls[i])' => \A k \in Pollers : poll[k].live \/ poll[k].at = "none"
      BY <1>1, <2>1 DEF OneReads
    <2> QED BY <2>1, <2>2 DEF OneReads
  <1> QED BY <1>1 DEF Lone

LEMMA AsideLone ==
  ASSUME Lone, Tabs, UNCHANGED <<poll, cancel, faults>>, IsCalls(calls) => Aside
  PROVE  Lone'
  <1>1. ASSUME faults \cap {"quick", "overlap"} = {}
        PROVE  \A i \in DOMAIN calls' : Pending(calls[i])' => \E j \in DOMAIN calls : Pending(calls[j])
    <2>1. Aside
      BY <1>1 DEF Tabs, Served
    <2> QED BY <2>1 DEF Aside, Pending
  <1> QED BY <1>1, LoneStays

LEMMA OutputLone == ASSUME Lone, Tabs, Output PROVE Lone'
  <1>1. UNCHANGED <<poll, cancel, faults>>
    BY DEF Output, PipeStep, Forward, ForwarderExit, ServeReturns, WriteAnswer, logv
  <1>2. ASSUME NEW i \in DOMAIN calls, WriteAnswer(i), IsCalls(calls)
        PROVE  \A j \in DOMAIN calls' : Pending(calls[j])' => \E k \in DOMAIN calls : Pending(calls[k])
    <2>1. calls' = RemoveAt(calls, i) /\ i \in 1..Len(calls) /\ Len(calls) \in Nat /\ DOMAIN calls = 1..Len(calls)
      BY <1>2, CallsSeq DEF WriteAnswer
    <2>2. IsCalls(calls') /\ Len(calls') = Len(calls) - 1
          /\ \A j \in 1..(Len(calls) - 1) : calls'[j] = calls[IF j < i THEN j ELSE j + 1]
      BY <1>2, <2>1, RemoveCalls
    <2>3. DOMAIN calls' = 1..(Len(calls) - 1)
      BY <2>2, CallsSeq
    <2>4. \A j \in 1..(Len(calls) - 1) : (IF j < i THEN j ELSE j + 1) \in DOMAIN calls
      BY <2>1
    <2> QED BY <2>2, <2>3, <2>4 DEF Pending
  <1>3. CASE calls' = calls
    BY <1>1, <1>3, AsideLone, SameAside
  <1>4. CASE \E i \in DOMAIN calls : WriteAnswer(i)
    <2>1. faults \cap {"quick", "overlap"} = {} => IsCalls(calls)
      BY DEF Tabs, Served
    <2> QED BY <1>1, <1>2, <1>4, <2>1, LoneStays
  <1> QED BY <1>3, <1>4 DEF Output, PipeStep, Forward, ForwarderExit, ServeReturns

LEMMA UserLone == ASSUME Lone, Tabs, LogUser PROVE Lone'
  <1>1. UNCHANGED <<poll, cancel, faults>>
    BY DEF LogUser, OpenTab, CloseTab
  <1>2. ASSUME faults \cap {"quick", "overlap"} = {}
        PROVE  OneReads'
    <2>1. OneReads /\ \A k \in Pollers : poll[k].live \/ poll[k].at = "none"
      BY <1>2 DEF Lone, LogUser
    <2> QED BY <1>1, <2>1 DEF OneReads
  <1> QED BY <1>1, <1>2 DEF Lone

LEMMA HandlesLone == ASSUME Lone, Tabs, LogHandles PROVE Lone'
  <1>1. PICK i \in DOMAIN calls :
          LogsStart(i) \/ LogsStartPoller(i) \/ LogsTail(i) \/ LogsStop(i) \/ LogsStopPoller(i)
    BY DEF LogHandles
  <1>2. Pending(calls[i]) /\ IsLogCall(i) /\ faults' = faults
    BY <1>1 DEF Pending, IsLogCall, LogMethods, LogsStart, LogsStartPoller, LogsTail, LogsStop, LogsStopPoller, Runs,
                LogHandles, shared
  <1>3. \E st, res : Stage(i, st, res)
    <2>1. CASE LogsStart(i) \/ LogsStartPoller(i)
      BY <2>1, Zenon DEF LogsStart, LogsStartPoller
    <2>2. CASE LogsTail(i) \/ LogsStop(i) \/ LogsStopPoller(i)
      BY <2>2, Zenon DEF LogsTail, LogsStop, LogsStopPoller, Finish
    <2> QED BY <1>1, <2>1, <2>2
  <1>4. ASSUME IsCalls(calls)
        PROVE  DOMAIN calls' = DOMAIN calls /\ \A j \in DOMAIN calls : j # i => calls'[j] = calls[j]
    BY <1>3, <1>4, StageCalls
  <1>5. ASSUME faults \cap {"quick", "overlap"} = {}
        PROVE  OneReads /\ Served /\ IsCalls(calls) /\ \A k \in Pollers : poll[k].live \/ poll[k].at = "none"
    BY <1>2, <1>5 DEF Lone, OneReads, Tabs, Served
  <1>6. CASE UNCHANGED <<poll, cancel>>
    <2>1. faults \cap {"quick", "overlap"} = {} =>
           \A j \in DOMAIN calls' : Pending(calls[j])' => \E k \in DOMAIN calls : Pending(calls[k])
      BY <1>2
    <2> QED BY <1>2, <1>6, <2>1, LoneStays
  <1>7. CASE LogsStartPoller(i) /\ cancel = 0
    <2>1. PICK k \in Pollers : /\ poll' = [poll EXCEPT ![k] = [NoPoll EXCEPT !.at = "tick", !.live = TRUE]]
                               /\ cancel' = k
      BY <1>7 DEF LogsStartPoller, StartPoller
    <2> DEFINE p == [NoPoll EXCEPT !.at = "tick", !.live = TRUE]
    <2>2. IsPoll(p) /\ p.live = TRUE /\ p.at = "tick"
      BY DEF NoPoll, IsPoll
    <2>3. poll' = [poll EXCEPT ![k] = p]
      BY <2>1
    <2> HIDE DEF p
    <2>4. DOMAIN poll' = Pollers /\ poll'[k] = p /\ \A j \in Pollers : j # k => poll'[j] = poll[j]
      BY <2>3 DEF Lone
    <2>5. \A j \in Pollers : IsPoll(poll'[j])
      BY <2>2, <2>4 DEF Lone
    <2>6. ASSUME faults \cap {"quick", "overlap"} = {} PROVE OneReads'
      <3>1. \A j \in Pollers : ~poll[j].live /\ poll[j].at = "none"
        BY <1>5, <1>7, <2>6 DEF OneReads, Pollers
      <3>2. \A j \in Pollers : j # k => ~poll'[j].live /\ poll'[j].at = "none"
        BY <2>4, <3>1
      <3>3. \A j \in Pollers : poll'[j].live \/ poll'[j].at = "none"
        BY <2>2, <2>4, <3>2
      <3>4. \A j \in Pollers : poll'[j].live => j = cancel' /\ poll'[j].at # "none"
        BY <2>1, <2>2, <2>4, <3>2
      <3>5. \A j, l \in Pollers : poll'[j].at # "none" /\ poll'[l].at # "none" => j = l
        BY <3>2
      <3> QED BY <3>3, <3>4, <3>5 DEF OneReads
    <2> QED BY <1>2, <2>4, <2>5, <2>6 DEF Lone
  <1>8. CASE LogsStopPoller(i) /\ cancel # 0
    <2>1. poll' = [poll EXCEPT ![cancel].live = FALSE] /\ cancel' = 0 /\ cancel \in Pollers
          /\ \E res : Stage(i, "done", res)
      <3>1. cancel \in Pollers
        BY <1>8 DEF Tabs, Held
      <3> QED BY <1>8, <3>1, Zenon DEF LogsStopPoller, StopPoller, Finish
    <2> DEFINE p == [poll[cancel] EXCEPT !.live = FALSE]
    <2>2. IsPoll(p) /\ p.live = FALSE /\ p.at = poll[cancel].at
      BY <2>1 DEF Lone, IsPoll
    <2>3. poll' = [poll EXCEPT ![cancel] = p]
      BY <2>1
    <2> HIDE DEF p
    <2>4. DOMAIN poll' = Pollers /\ poll'[cancel] = p /\ \A j \in Pollers : j # cancel => poll'[j] = poll[j]
      BY <2>1, <2>3 DEF Lone
    <2>5. \A j \in Pollers : IsPoll(poll'[j])
      BY <2>2, <2>4 DEF Lone
    <2>6. ASSUME faults \cap {"quick", "overlap"} = {} PROVE OneReads'
      <3>1. \A j \in Pollers : ~poll'[j].live
        BY <1>5, <2>2, <2>4, <2>6 DEF OneReads
      <3>2. \A j, l \in Pollers : poll'[j].at # "none" /\ poll'[l].at # "none" => j = l
        BY <1>5, <2>2, <2>4, <2>6 DEF OneReads
      <3>3. \A j \in DOMAIN calls' : ~Pending(calls[j])'
        <4>1. calls'[i].st = "done"
          BY <1>5, <2>1, <2>6, StageCalls
        <4>2. \A j \in DOMAIN calls : j # i => ~IsLogCall(j)
          BY <1>2, <1>5, <2>6 DEF Served
        <4> QED BY <1>4, <1>5, <2>6, <4>1, <4>2 DEF Pending, IsLogCall
      <3> QED BY <3>1, <3>2, <3>3 DEF OneReads
    <2> QED BY <1>2, <2>4, <2>5, <2>6 DEF Lone
  <1>9. LogsStart(i) \/ LogsTail(i) \/ LogsStop(i) => UNCHANGED <<poll, cancel>>
    BY DEF LogsStart, LogsTail, LogsStop
  <1>10. CASE LogsStartPoller(i)
    BY <1>6, <1>7, <1>10 DEF LogsStartPoller, StartPoller
  <1>11. CASE LogsStopPoller(i)
    BY <1>6, <1>8, <1>11 DEF LogsStopPoller, StopPoller
  <1> QED BY <1>1, <1>6, <1>9, <1>10, <1>11

\* A goroutine goes on with its loop; one that is not live may end.
LEMMA PollMoves ==
  ASSUME Lone, NEW k \in Pollers, PollReads(k) \/ PollFails(k) \/ PollEnds(k) \/ PollApply(k)
  PROVE  /\ DOMAIN poll' = Pollers /\ IsPoll(poll'[k]) /\ \A j \in Pollers : j # k => poll'[j] = poll[j]
         /\ poll[k].at # "none" /\ (poll'[k].live => poll[k].live /\ poll'[k].at # "none")
         /\ PollReads(k) => poll'[k].got = ReadLogs(lf.offset) /\ poll'[k].at = "apply" /\ poll[k].at = "tick"
         /\ ~PollReads(k) => poll'[k].at # "apply"
         /\ poll[k].live => poll'[k].live
  <1>1. IsPoll(poll[k]) /\ DOMAIN poll = Pollers
    BY DEF Lone
  <1>2. SUFFICES ASSUME NEW p, poll' = [poll EXCEPT ![k] = p]
                 PROVE  /\ DOMAIN poll' = Pollers /\ poll'[k] = p
                        /\ \A j \in Pollers : j # k => poll'[j] = poll[j]
    <2>1. CASE PollReads(k)
      <3> DEFINE p == [poll[k] EXCEPT !.at = "apply", !.got = ReadLogs(lf.offset)]
      <3>1. poll' = [poll EXCEPT ![k] = p] /\ poll[k].at = "tick" /\ poll[k].live
        BY <2>1 DEF PollReads
      <3>2. DOMAIN ReadLogs(lf.offset) = {"data", "off", "cut", "gen"}
        BY DEF ReadLogs
      <3>3. IsPoll(p) /\ p.live = poll[k].live /\ p.at = "apply" /\ p.got = ReadLogs(lf.offset)
        BY <1>1, <3>2 DEF IsPoll
      <3> HIDE DEF p
      <3> QED BY <1>2, <2>1, <3>1, <3>3
    <2>2. CASE PollFails(k)
      <3> DEFINE p == [NoPoll EXCEPT !.at = "tick"]
      <3>1. poll' = [poll EXCEPT ![k] = p] /\ poll[k].at = "apply" /\ ~poll[k].live
        BY <2>2 DEF PollFails
      <3>2. IsPoll(p) /\ ~p.live /\ p.at = "tick"
        BY DEF NoPoll, IsPoll
      <3> HIDE DEF p
      <3>3. ~PollReads(k)
        BY <3>1 DEF PollReads
      <3> QED BY <1>2, <3>1, <3>2, <3>3
    <2>3. CASE PollEnds(k)
      <3>1. poll' = [poll EXCEPT ![k] = NoPoll] /\ poll[k].at = "tick" /\ ~poll[k].live
        BY <2>3 DEF PollEnds
      <3>2. ~PollReads(k)
        BY <3>1 DEF PollReads
      <3> QED BY <1>2, <3>1, <3>2, NoPollIs
    <2>4. CASE PollApply(k)
      <3> DEFINE p == [poll[k] EXCEPT !.at = "tick", !.got = NoPoll.got]
      <3>1. poll' = [poll EXCEPT ![k] = p] /\ poll[k].at = "apply"
        BY <1>1, <2>4 DEF PollApply
      <3>2. IsPoll(p) /\ p.live = poll[k].live /\ p.at = "tick"
        BY <1>1 DEF IsPoll, NoPoll
      <3> HIDE DEF p
      <3>3. ~PollReads(k)
        BY <3>1 DEF PollReads
      <3> QED BY <1>2, <3>1, <3>2, <3>3
    <2> QED BY <2>1, <2>2, <2>3, <2>4
  <1> QED BY <1>1, <1>2

LEMMA PollLone == ASSUME Lone, Tabs, LogWorld \/ LogMoves PROVE Lone'
  <1>1. UNCHANGED <<calls, cancel, faults>>
    BY DEF LogWorld, LogMoves, pipe, shared, WriteLog, RotateLog, BridgeLog, OpenLog, PollReads, PollApply,
           PollFails, PollEnds
  <1>2. CASE poll' = poll
    BY <1>1, <1>2, AsideLone, SameAside
  <1>3. ASSUME NEW k \in Pollers, PollReads(k) \/ PollFails(k) \/ PollEnds(k) \/ PollApply(k)
        PROVE  Lone'
    <2>1. /\ DOMAIN poll' = Pollers /\ IsPoll(poll'[k]) /\ \A j \in Pollers : j # k => poll'[j] = poll[j]
          /\ poll[k].at # "none" /\ (poll'[k].live => poll[k].live /\ poll'[k].at # "none")
          /\ poll[k].live => poll'[k].live
      BY <1>3, PollMoves
    <2>2. \A j \in Pollers : IsPoll(poll'[j])
      BY <2>1 DEF Lone
    <2>3. ASSUME faults \cap {"quick", "overlap"} = {} PROVE OneReads'
      <3>1. OneReads
        BY <2>3 DEF Lone
      <3>2. \A j \in Pollers : poll'[j].at # "none" => poll[j].at # "none"
        BY <2>1
      <3>3. \A j \in Pollers : (poll[j].live \/ poll[j].at = "none") => (poll'[j].live \/ poll'[j].at = "none")
        BY <2>1
      <3>4. \A i \in DOMAIN calls' : Pending(calls[i])' => \A j \in Pollers : poll'[j].live \/ poll'[j].at = "none"
        BY <1>1, <3>1, <3>3 DEF OneReads
      <3>5. \A j \in Pollers : poll'[j].live => j = cancel' /\ poll'[j].at # "none"
        BY <1>1, <2>1, <3>1 DEF OneReads
      <3>6. \A j, l \in Pollers : poll'[j].at # "none" /\ poll'[l].at # "none" => j = l
        BY <3>1, <3>2 DEF OneReads
      <3> QED BY <3>4, <3>5, <3>6 DEF OneReads
    <2> QED BY <1>1, <2>1, <2>2, <2>3 DEF Lone
  <1>4. CASE LogWorld
    BY <1>2, <1>4 DEF LogWorld, WriteLog, RotateLog, BridgeLog
  <1>5. CASE LogMoves
    BY <1>2, <1>3, <1>5 DEF LogMoves, OpenLog
  <1> QED BY <1>4, <1>5

LEMMA LoneInit == ASSUME Init PROVE Lone
  <1>1. /\ poll = [k \in Pollers |-> NoPoll] /\ cancel = 0
    BY DEF Init, LogInit
  <1>2. \A i \in DOMAIN calls : ~Pending(calls[i])
    <2>1. PICK r : r = Request("snapshot", <<>>)
      OBVIOUS
    <2>2. calls = <<>> \/ calls = <<r>>
      BY <2>1 DEF Init, DashInit
    <2>3. r.req.m = "snapshot"
      BY <2>1 DEF Request
    <2> QED BY <2>2, <2>3 DEF Pending, LogMethods
  <1>3. OneReads
    BY <1>1, <1>2, NoPollIs DEF OneReads
  <1> QED BY <1>1, <1>3, NoPollIs DEF Lone

LEMMA LoneStep == ASSUME Lone, Tabs, Claimed, [Next]_vars PROVE Lone'
  <1>1. CASE Output
    BY <1>1, OutputLone
  <1>2. CASE Handles
    BY <1>2, HandlesAside, AsideLone DEF Handles, logv, shared
  <1>3. CASE Renders
    <2>1. Extended(calls, calls') /\ UNCHANGED <<cancel, poll, faults>>
      BY <1>3, ReceivesOrderly, AutoConnectClaims DEF Renders, logv, shared
    <2> QED BY <2>1, ExtendedAside, AsideLone
  <1>4. CASE User
    <2>1. Extended(calls, calls') /\ UNCHANGED <<cancel, poll, faults>>
      BY <1>4, UserOrderly DEF User, logv
    <2> QED BY <2>1, ExtendedAside, AsideLone
  <1>5. CASE OpenWindow
    <2> DEFINE r == [Request("snapshot", <<>>) EXCEPT !.req.win = win.gen + 1]
    <2>1. UNCHANGED <<cancel, poll, faults>> /\ calls' = Append(calls, r)
      BY <1>5 DEF OpenWindow, logv
    <2>2. r.req.m = "snapshot" /\ DOMAIN r = {"req", "st", "res"}
      BY DEF Request
    <2> HIDE DEF r
    <2>3. Extended(calls, calls')
      BY <2>1, <2>2, ExtendedAppend DEF LogMethods
    <2> QED BY <2>1, <2>3, ExtendedAside, AsideLone
  <1>6. CASE UNCHANGED <<calls, cancel, poll, faults>>
    BY <1>6, SameAside, AsideLone
  <1>7. CASE ChainMoves \/ ChainWorld \/ CloseWindow
    BY <1>6, <1>7 DEF ChainMoves, ChainWorld, BringUpDone, BringUpFails, ChainDrops, Noise, logv, shared, CloseWindow,
                      pipe
  <1>8. CASE Quit \/ Discard \/ DriverTick \/ TimerTick \/ WorkerMoves \/ WorkerPanics \/ UserSync \/ UserSubs
    BY <1>6, <1>8 DEF Quit, CloseInput, Discard, DriverTick, TimerTick, WorkerMoves, WorkerPanics, UserSync, UserSubs,
                      pipe, logv, shared
  <1>9. CASE LogUser
    BY <1>9, UserLone
  <1>10. CASE LogHandles
    BY <1>10, HandlesLone
  <1>11. CASE LogWorld \/ LogMoves
    BY <1>11, PollLone
  <1>12. CASE LogPublishes \/ LogReceives
    BY <1>6, <1>12 DEF LogPublishes, LogReceives, PublishLine, shared
  <1>13. CASE UNCHANGED vars
    BY <1>6, <1>13 DEF vars, pipe, shared, logv
  <1> QED BY <1>1, <1>2, <1>3, <1>4, <1>5, <1>7, <1>8, <1>9, <1>10, <1>11, <1>12, <1>13 DEF Next, System

LEMMA AppendPiece ==
  ASSUME NEW t \in Seq(Pieces), NEW p \in Pieces
  PROVE  /\ Append(t, p) \in Seq(Pieces) /\ Len(Append(t, p)) = Len(t) + 1 /\ Len(t) \in Nat
         /\ Append(t, p)[Len(t) + 1] = p /\ \A i \in 1..Len(t) : Append(t, p)[i] = t[i]
  OBVIOUS

LEMMA TidyAppend ==
  ASSUME NEW t \in Seq(Pieces), Tidy(t), NEW p \in Pieces,
         p.end => Len(t) > 0 /\ t[Len(t)] = Piece(p.line, FALSE),
         ~p.end => Len(t) = 0 \/ (t[Len(t)].end /\ t[Len(t)].line < p.line)
  PROVE  Tidy(Append(t, p))
  <1>1. PICK u, n : u = Append(t, p) /\ n = Len(t)
    OBVIOUS
  <1>2. n \in Nat /\ Len(u) = n + 1 /\ u[n + 1] = p /\ \A i \in 1..n : u[i] = t[i]
    BY <1>1, AppendPiece
  <1>3. \A i \in 1..n : t[i].line \in Nat /\ t[i].end \in BOOLEAN
    <2> SUFFICES ASSUME NEW i \in 1..n PROVE t[i].line \in Nat /\ t[i].end \in BOOLEAN
      OBVIOUS
    <2>1. t[i] \in Pieces
      BY <1>1
    <2> QED BY <2>1, PieceOf
  <1>4. p.line \in Nat /\ p.end \in BOOLEAN
    BY PieceOf
  <1>5. \A i \in 1..Len(u) : i \in 1..n \/ i = n + 1
    BY <1>2
  <1>6. ASSUME NEW i \in 1..Len(u), u[i].end PROVE i > 1 /\ u[i - 1] = Piece(u[i].line, FALSE)
    <2>1. CASE i \in 1..n
      <3>1. i > 1 /\ t[i - 1] = Piece(t[i].line, FALSE) /\ i - 1 \in 1..n
        <4>1. i > 1 /\ t[i - 1] = Piece(t[i].line, FALSE)
          BY <1>1, <1>2, <1>6, <2>1 DEF Tidy
        <4> QED BY <1>2, <2>1, <4>1
      <3> QED BY <1>2, <2>1, <3>1
    <2>2. CASE i = n + 1
      <3>1. n > 0 /\ t[n] = Piece(p.line, FALSE)
        BY <1>1, <1>2, <1>6, <2>2
      <3>2. n \in 1..n /\ i - 1 = n /\ i > 1
        BY <1>2, <2>2, <3>1
      <3> QED BY <1>2, <2>2, <3>1, <3>2
    <2> QED BY <1>5, <2>1, <2>2
  <1>7. ASSUME NEW i \in 1..Len(u), ~u[i].end, i > 1 PROVE u[i - 1].end
    <2>1. CASE i \in 1..n
      <3>1. t[i - 1].end /\ i - 1 \in 1..n
        <4>1. i - 1 \in 1..n
          BY <1>2, <1>7, <2>1
        <4> QED BY <1>1, <1>2, <1>7, <2>1, <4>1 DEF Tidy
      <3> QED BY <1>2, <3>1
    <2>2. CASE i = n + 1
      <3>1. n \in 1..n /\ i - 1 = n /\ n # 0
        BY <1>2, <1>7, <2>2
      <3>2. t[n].end
        BY <1>1, <1>2, <1>7, <2>2, <3>1
      <3> QED BY <1>2, <3>1, <3>2
    <2> QED BY <1>5, <2>1, <2>2
  <1>8. ASSUME NEW i \in 1..n PROVE t[i].line <= p.line /\ (t[i].end => t[i].line < p.line)
    <2>1. n \in 1..n /\ n > 0
      BY <1>2
    <2>2. i # n => t[i].line <= t[n].line /\ (t[i].end => t[i].line < t[n].line)
      BY <1>1, <1>2, <2>1 DEF Tidy
    <2>3. t[i].line <= t[n].line
      BY <1>3, <2>1, <2>2
    <2>4. CASE p.end
      <3>1. t[n].line = p.line /\ ~t[n].end
        BY <1>1, <2>4 DEF Piece
      <3> QED BY <2>2, <2>3, <3>1
    <2>5. CASE ~p.end
      <3>1. t[n].line < p.line
        BY <1>1, <2>1, <2>5
      <3> QED BY <1>3, <1>4, <2>1, <2>3, <3>1
    <2> QED BY <1>4, <2>4, <2>5
  <1>9. ASSUME NEW i \in 1..Len(u), NEW j \in 1..Len(u), i < j
        PROVE  u[i].line <= u[j].line /\ (u[i].end => u[i].line < u[j].line)
    <2>1. i \in 1..n
      BY <1>2, <1>9
    <2>2. CASE j \in 1..n
      BY <1>1, <1>2, <1>9, <2>1, <2>2 DEF Tidy
    <2>3. CASE j = n + 1
      BY <1>2, <1>8, <2>1, <2>3
    <2> QED BY <1>5, <2>2, <2>3
  <1>10. Tidy(u)
    BY <1>6, <1>7, <1>9 DEF Tidy
  <1> QED BY <1>1, <1>10

(***************************************************************************)
(* The file, what has been read of it, and the buffer: an engine's line is *)
(* in exactly one of them.                                                 *)
(***************************************************************************)
Number(e) == e.line[1].line

\* The ring's engine lines are whole and in the order in which they were written.
Numbered(r) ==
  /\ \E X : r \in Seq(X)
  /\ \A n \in 1..Len(r) : Number(r[n]) \in Nat /\ (Number(r[n]) # 0 => r[n].line = Whole(Number(r[n])))
  /\ \A m, n \in 1..Len(r) : m < n /\ Number(r[m]) # 0 /\ Number(r[n]) # 0 => Number(r[m]) < Number(r[n])
Before(r, l) == \A n \in 1..Len(r) : Number(r[n]) < l

FileSound(F) ==
  /\ F.gen \in Nat /\ F.body \in Seq(Pieces) /\ F.next \in Pieces
  /\ Tidy(F.body) /\ Tidy(Append(F.body, F.next))

\* The text t, read of the file up to off, begins at a line and ends there, and
\* that line and all that follow are not in the ring.  A file that has been
\* rotated since is no longer written.
Drawn(t, off, g, F, r) ==
  /\ t \in Seq(Pieces) /\ Tidy(t) /\ off \in Nat /\ g \in Nat /\ g <= F.gen /\ (off = 0 => t = <<>>)
  /\ \A j \in 1..Len(t) : Before(r, t[j].line)
  /\ g = F.gen => \E a : /\ Starts(F.body, a) /\ off <= Len(F.body) /\ a <= off + 1
                         /\ t = SubSeq(F.body, a, off)
                         /\ \A j \in a..Len(F.body) : Before(r, F.body[j].line)
  /\ g # F.gen => \A j \in 1..Len(t) : t[j].line < F.next.line

TextOf(p, l) == (IF p.got.cut THEN <<>> ELSE l.rest) \o p.got.data
StreamSound ==
  /\ FileSound(file) /\ Numbered(buf.ring) /\ Before(buf.ring, file.next.line)
  /\ lf.gen # file.gen => file.body = <<>>
  /\ Drawn(lf.rest, lf.offset, lf.gen, file, buf.ring)
  /\ \A k \in Pollers : poll[k].at = "apply" =>
       lf.gen <= poll[k].got.gen /\ Drawn(TextOf(poll[k], lf), poll[k].got.off, poll[k].got.gen, file, buf.ring)
Careful == faults \cap {"quick", "overlap", "window"} = {}
Streamed ==
  /\ DOMAIN buf = {"seq", "ring", "subs"} /\ DOMAIN file = {"there", "body", "next", "gen"}
  /\ Careful => StreamSound

LEMMA FileEnds ==
  ASSUME NEW F, FileSound(F)
  PROVE  /\ Len(F.body) \in Nat /\ F.next.line \in Nat /\ F.next.line > 0
         /\ \A j \in 1..Len(F.body) : /\ F.body[j].line \in Nat /\ F.body[j].line <= F.next.line
                                      /\ F.body[j].end => F.body[j].line < F.next.line
  <1>1. F.body \in Seq(Pieces) /\ F.next \in Pieces
    BY DEF FileSound
  <1>2. PICK u, n : u = Append(F.body, F.next) /\ n = Len(F.body)
    OBVIOUS
  <1>3. n \in Nat /\ Len(u) = n + 1 /\ u[n + 1] = F.next /\ \A i \in 1..n : u[i] = F.body[i]
    BY <1>1, <1>2, AppendPiece
  <1>4. Tidy(u)
    BY <1>2 DEF FileSound
  <1>5. ASSUME NEW j \in 1..n
        PROVE  F.body[j].line \in Nat /\ F.body[j].line <= F.next.line
               /\ (F.body[j].end => F.body[j].line < F.next.line)
    <2>1. F.body[j] \in Pieces
      BY <1>1, <1>2
    <2>2. j \in 1..Len(u) /\ n + 1 \in 1..Len(u) /\ j < n + 1
      BY <1>3
    <2>3. u[j].line <= u[n + 1].line /\ (u[j].end => u[j].line < u[n + 1].line)
      BY <1>4, <2>2 DEF Tidy
    <2> QED BY <1>3, <2>1, <2>3, PieceOf
  <1>6. F.next.line \in Nat /\ F.next.line > 0
    BY <1>1, PieceOf
  <1> QED BY <1>2, <1>3, <1>5, <1>6

\* The file grows by its next piece.
LEMMA FileGrows ==
  ASSUME NEW F, NEW G, FileSound(F), G.gen = F.gen, G.body = Append(F.body, F.next),
         G.next = IF F.next.end THEN Piece(F.next.line + 1, FALSE) ELSE Piece(F.next.line, TRUE)
  PROVE  FileSound(G) /\ G.next.line >= F.next.line
  <1>1. F.body \in Seq(Pieces) /\ F.next \in Pieces /\ Tidy(G.body)
    BY DEF FileSound
  <1>2. PICK l : l = F.next.line
    OBVIOUS
  <1>3. l \in Nat \ {0} /\ F.next = Piece(l, F.next.end) /\ F.next.end \in BOOLEAN
    BY <1>1, <1>2, PieceOf
  <1>4. l + 1 \in Nat \ {0} /\ l + 1 > l /\ l + 1 >= l /\ l >= l
    BY <1>3
  <1>5. G.body \in Seq(Pieces) /\ Len(G.body) > 0 /\ G.body[Len(G.body)] = F.next
    <2>1. /\ G.body \in Seq(Pieces) /\ Len(G.body) = Len(F.body) + 1 /\ Len(F.body) \in Nat
          /\ G.body[Len(F.body) + 1] = F.next
      BY <1>1, AppendPiece
    <2> QED BY <2>1
  <1>6. CASE F.next.end
    <2>1. G.next = Piece(l + 1, FALSE)
      BY <1>2, <1>6
    <2>2. G.next \in Pieces /\ G.next.line = l + 1 /\ ~G.next.end
      BY <1>4, <2>1, PieceIs
    <2>3. Tidy(Append(G.body, G.next))
      BY <1>1, <1>2, <1>4, <1>5, <1>6, <2>2, TidyAppend
    <2>4. FileSound(G)
      BY <1>1, <1>5, <2>2, <2>3 DEF FileSound
    <2> QED BY <1>2, <1>4, <2>2, <2>4, Zenon
  <1>7. CASE ~F.next.end
    <2>1. G.next = Piece(l, TRUE) /\ F.next.end = FALSE
      BY <1>2, <1>3, <1>7
    <2>2. G.next \in Pieces /\ G.next.line = l /\ G.next.end
      BY <1>3, <2>1, PieceIs
    <2>3. G.body[Len(G.body)] = Piece(l, FALSE)
      BY <1>3, <1>5, <2>1
    <2>4. Tidy(Append(G.body, G.next))
      BY <1>1, <1>5, <2>2, <2>3, TidyAppend
    <2>5. FileSound(G)
      BY <1>1, <1>5, <2>2, <2>4 DEF FileSound
    <2> QED BY <1>2, <1>4, <2>2, <2>5, Zenon
  <1> QED BY <1>6, <1>7

LEMMA DrawnGrows ==
  ASSUME NEW t, NEW off, NEW g, NEW F, NEW G, NEW r, Drawn(t, off, g, F, r),
         FileSound(F), Before(r, F.next.line), G.gen = F.gen, G.body = Append(F.body, F.next),
         G.next.line \in Nat, G.next.line >= F.next.line
  PROVE  Drawn(t, off, g, G, r)
  <1>1. F.body \in Seq(Pieces) /\ F.next \in Pieces /\ F.next.line \in Nat
    BY FileEnds DEF FileSound
  <1>2. PICK n : n = Len(F.body)
    OBVIOUS
  <1>3. /\ n \in Nat /\ G.body \in Seq(Pieces) /\ Len(G.body) = n + 1 /\ G.body[n + 1] = F.next
        /\ \A i \in 1..n : G.body[i] = F.body[i]
    BY <1>1, <1>2, AppendPiece
  <1>4. ASSUME g = G.gen
        PROVE  \E a : /\ Starts(G.body, a) /\ off <= Len(G.body) /\ a <= off + 1
                      /\ t = SubSeq(G.body, a, off)
                      /\ \A j \in a..Len(G.body) : Before(r, G.body[j].line)
    <2>1. PICK a : /\ Starts(F.body, a) /\ off <= n /\ a <= off + 1 /\ t = SubSeq(F.body, a, off)
                   /\ \A j \in a..n : Before(r, F.body[j].line)
      BY <1>2, <1>4, Zenon DEF Drawn
    <2>2. off \in Nat /\ a \in 1..(n + 1)
      BY <1>2, <2>1 DEF Drawn, Starts
    <2>3. Starts(G.body, a)
      <3>1. a = 1 \/ (a - 1 \in 1..n /\ F.body[a - 1].end)
        <4>1. a = 1 \/ F.body[a - 1].end
          BY <2>1, Zenon DEF Starts
        <4>2. a # 1 => a - 1 \in 1..n
          BY <1>3, <2>2
        <4> QED BY <4>1, <4>2
      <3> QED BY <1>3, <2>2, <3>1 DEF Starts
    <2>4. t = SubSeq(G.body, a, off)
      <3>1. a \in 1..(Len(F.body) + 1) /\ off \in (a - 1)..Len(F.body)
        BY <1>2, <1>3, <2>1, <2>2
      <3>2. a \in 1..(Len(G.body) + 1) /\ off \in (a - 1)..Len(G.body)
        BY <1>3, <2>1, <2>2
      <3>3. PICK u, v : u = SubSeq(F.body, a, off) /\ v = SubSeq(G.body, a, off)
        OBVIOUS
      <3>4. /\ u \in Seq(Pieces) /\ Len(u) = off + 1 - a
            /\ \A i \in 1..(off + 1 - a) : u[i] = F.body[a + i - 1] /\ a + i - 1 \in a..off
        BY <1>1, <3>1, <3>3, PartIs
      <3>5. /\ v \in Seq(Pieces) /\ Len(v) = off + 1 - a
            /\ \A i \in 1..(off + 1 - a) : v[i] = G.body[a + i - 1]
        <4>1. PICK b : b = G.body
          OBVIOUS
        <4>2. b \in Seq(Pieces) /\ a \in 1..(Len(b) + 1) /\ off \in (a - 1)..Len(b) /\ v = SubSeq(b, a, off)
          BY <1>3, <3>2, <3>3, <4>1
        <4> QED BY <4>1, <4>2, PartIs
      <3>6. \A i \in 1..(off + 1 - a) : u[i] = v[i]
        <4> SUFFICES ASSUME NEW i \in 1..(off + 1 - a) PROVE u[i] = v[i]
          OBVIOUS
        <4>1. a + i - 1 \in 1..n
          BY <1>3, <2>1, <2>2
        <4> QED BY <1>3, <3>4, <3>5, <4>1
      <3>7. u = v
        BY <3>4, <3>5, <3>6
      <3> QED BY <2>1, <3>3, <3>7
    <2>5. \A j \in a..Len(G.body) : Before(r, G.body[j].line)
      <3> SUFFICES ASSUME NEW j \in a..Len(G.body) PROVE Before(r, G.body[j].line)
        OBVIOUS
      <3>1. CASE j = n + 1
        BY <1>3, <3>1
      <3>2. CASE j # n + 1
        <4>1. j \in a..n /\ j \in 1..n
          BY <1>3, <2>2, <3>2
        <4> QED BY <1>3, <2>1, <4>1
      <3> QED BY <3>1, <3>2
    <2>6. off <= Len(G.body)
      BY <1>3, <2>1, <2>2
    <2> QED BY <2>1, <2>3, <2>4, <2>5, <2>6, Zenon
  <1>5. ASSUME g # G.gen, NEW j \in 1..Len(t) PROVE t[j].line < G.next.line
    <2>1. t[j].line < F.next.line /\ t[j] \in Pieces
      BY <1>5 DEF Drawn
    <2> QED BY <1>1, <2>1, PieceOf
  <1> QED BY <1>4, <1>5 DEF Drawn

\* The file is rotated.
LEMMA DrawnTurns ==
  ASSUME NEW t, NEW off, NEW g, NEW F, NEW G, NEW r, Drawn(t, off, g, F, r),
         FileSound(F), G.gen = F.gen + 1, G.next.line = F.next.line + 1
  PROVE  Drawn(t, off, g, G, r) /\ g # G.gen
  <1>1. F.gen \in Nat /\ g \in Nat /\ g <= F.gen
    BY DEF FileSound, Drawn
  <1>2. g # G.gen /\ g <= G.gen
    BY <1>1
  <1>3. F.next.line \in Nat /\ Len(F.body) \in Nat
    BY FileEnds
  <1>4. ASSUME NEW j \in 1..Len(t) PROVE t[j].line < G.next.line
    <2>1. t[j].line \in Nat
      <3>1. t[j] \in Pieces
        BY DEF Drawn
      <3> QED BY <3>1, PieceOf
    <2>2. CASE g # F.gen
      BY <1>3, <2>1, <2>2 DEF Drawn
    <2>3. CASE g = F.gen
      <3>1. PICK a : /\ Starts(F.body, a) /\ off <= Len(F.body) /\ a <= off + 1 /\ t = SubSeq(F.body, a, off)
        BY <2>3, Zenon DEF Drawn
      <3>2. a \in 1..(Len(F.body) + 1) /\ off \in (a - 1)..Len(F.body) /\ F.body \in Seq(Pieces) /\ off \in Nat
        BY <1>3, <3>1 DEF Starts, Drawn, FileSound
      <3>3. Len(t) = off + 1 - a /\ \A i \in 1..(off + 1 - a) : t[i] = F.body[a + i - 1] /\ a + i - 1 \in a..off
        BY <3>1, <3>2, PartIs
      <3>4. t[j] = F.body[a + j - 1] /\ a + j - 1 \in 1..Len(F.body)
        <4>1. PICK n, m, i : n = Len(F.body) /\ m = Len(t) /\ i = a + j - 1
          OBVIOUS
        <4>2. n \in Nat /\ a \in 1..(n + 1) /\ off \in (a - 1)..n /\ off \in Nat /\ m = off + 1 - a /\ j \in 1..m
          BY <1>3, <3>2, <3>3, <4>1
        <4>3. j \in 1..(off + 1 - a) /\ i \in 1..n
          BY <4>1, <4>2
        <4> QED BY <3>3, <4>1, <4>3
      <3>5. F.body[a + j - 1].line <= F.next.line
        BY <3>4, FileEnds
      <3> QED BY <1>3, <2>1, <3>4, <3>5
    <2> QED BY <2>2, <2>3
  <1> QED BY <1>2, <1>4 DEF Drawn

\* u is s with t behind it.
Joins(s, t, u) ==
  /\ Len(s) \in Nat /\ Len(t) \in Nat /\ Len(u) = Len(s) + Len(t)
  /\ \A i \in 1..Len(s) : u[i] = s[i]
  /\ \A i \in 1..Len(t) : u[Len(s) + i] = t[i]

LEMMA ConcatIs ==
  ASSUME NEW X, NEW s \in Seq(X), NEW t \in Seq(X)
  PROVE  s \o t \in Seq(X) /\ Joins(s, t, s \o t)
  <1>1. Len(s) \in Nat /\ Len(t) \in Nat /\ s \o t \in Seq(X) /\ Len(s \o t) = Len(s) + Len(t)
    OBVIOUS
  <1>2. \A i \in 1..Len(s) : (s \o t)[i] = s[i]
    BY <1>1
  <1>3. \A i \in 1..Len(t) : (s \o t)[Len(s) + i] = t[i]
    <2> SUFFICES ASSUME NEW i \in 1..Len(t) PROVE (s \o t)[Len(s) + i] = t[i]
      OBVIOUS
    <2>1. PICK n : n = Len(s) + i
      OBVIOUS
    <2>2. n \in 1..(Len(s) + Len(t)) /\ ~(n <= Len(s)) /\ n - Len(s) = i
      BY <1>1, <2>1
    <2>3. (s \o t)[n] = t[n - Len(s)]
      BY <2>2
    <2> QED BY <2>1, <2>2, <2>3
  <1> QED BY <1>1, <1>2, <1>3 DEF Joins

\* What Add makes of the ring before it is capped.
Longer(r, s, ls) == r \o [n \in 1..Len(ls) |-> [seq |-> s + n, line |-> ls[n]]]

LEMMA LongerIs ==
  ASSUME NEW X, NEW r \in Seq(X), NEW s, NEW ls, Len(ls) \in Nat
  PROVE  /\ \E Y : Longer(r, s, ls) \in Seq(Y)
         /\ Len(Longer(r, s, ls)) = Len(r) + Len(ls) /\ Len(r) \in Nat
         /\ \A i \in 1..Len(r) : Longer(r, s, ls)[i] = r[i]
         /\ \A i \in 1..Len(ls) : Longer(r, s, ls)[Len(r) + i] = [seq |-> s + i, line |-> ls[i]]
  <1>1. PICK k : k = Len(ls)
    OBVIOUS
  <1>2. PICK new : new = [n \in 1..k |-> [seq |-> s + n, line |-> ls[n]]]
    OBVIOUS
  <1> DEFINE Z == {[seq |-> s + n, line |-> ls[n]] : n \in 1..k}
  <1>3. new \in Seq(Z) /\ Len(new) = k /\ \A i \in 1..k : new[i] = [seq |-> s + i, line |-> ls[i]]
    BY <1>1, <1>2
  <1> HIDE DEF Z
  <1>4. PICK u : u = r \o new
    OBVIOUS
  <1>5. r \in Seq(X \cup Z) /\ new \in Seq(X \cup Z)
    BY <1>3
  <1>6. /\ u \in Seq(X \cup Z) /\ Len(u) = Len(r) + k /\ Len(r) \in Nat
        /\ \A i \in 1..Len(r) : u[i] = r[i]
        /\ \A i \in 1..k : u[Len(r) + i] = new[i]
    <2>1. u \in Seq(X \cup Z) /\ Joins(r, new, u)
      BY <1>4, <1>5, ConcatIs
    <2> QED BY <1>3, <2>1 DEF Joins
  <1>7. Longer(r, s, ls) = u
    BY <1>1, <1>2, <1>4 DEF Longer
  <1> QED BY <1>1, <1>3, <1>6, <1>7

\* Lines that the ring has not, in their order.
Newest(r, ls) ==
  /\ Len(ls) \in Nat
  /\ \A n \in 1..Len(ls) : /\ ls[n][1].line \in Nat
                           /\ ls[n][1].line # 0 => ls[n] = Whole(ls[n][1].line) /\ Before(r, ls[n][1].line)
  /\ \A m, n \in 1..Len(ls) : m < n /\ ls[m][1].line # 0 /\ ls[n][1].line # 0 => ls[m][1].line < ls[n][1].line

LEMMA RingTakes ==
  ASSUME NEW r, Numbered(r), NEW s, NEW ls, Newest(r, ls)
  PROVE  /\ Numbered(Capped(Longer(r, s, ls)))
         /\ \A l \in Nat : Before(r, l) /\ (\A n \in 1..Len(ls) : ls[n][1].line < l)
                             => Before(Capped(Longer(r, s, ls)), l)
  <1>1. PICK X : r \in Seq(X)
    BY DEF Numbered
  <1>2. PICK u, c, k : u = Longer(r, s, ls) /\ c = Capped(u) /\ k = Len(r)
    OBVIOUS
  <1>3. PICK Y : u \in Seq(Y)
    BY <1>1, <1>2, LongerIs DEF Newest
  <1>4. /\ k \in Nat /\ Len(ls) \in Nat /\ Len(u) = k + Len(ls) /\ \A i \in 1..k : u[i] = r[i]
        /\ \A i \in 1..Len(ls) : u[k + i] = [seq |-> s + i, line |-> ls[i]]
    BY <1>1, <1>2, LongerIs DEF Newest
  <1>5. \A i \in 1..Len(ls) : Number(u[k + i]) = ls[i][1].line /\ u[k + i].line = ls[i]
    <2> SUFFICES ASSUME NEW i \in 1..Len(ls)
                 PROVE  Number(u[k + i]) = ls[i][1].line /\ u[k + i].line = ls[i]
      OBVIOUS
    <2>1. u[k + i] = [seq |-> s + i, line |-> ls[i]]
      BY <1>4
    <2>2. u[k + i].line = ls[i]
      BY <2>1
    <2> QED BY <2>2 DEF Number
  <1>6. \A i \in 1..Len(u) : i \in 1..k \/ (i - k \in 1..Len(ls) /\ k + (i - k) = i)
    BY <1>4
  <1>7. ASSUME NEW i \in 1..Len(u)
        PROVE  Number(u[i]) \in Nat /\ (Number(u[i]) # 0 => u[i].line = Whole(Number(u[i])))
    <2>1. CASE i \in 1..k
      BY <1>2, <1>4, <2>1 DEF Numbered
    <2>2. CASE i - k \in 1..Len(ls) /\ k + (i - k) = i
      <3>1. PICK j \in 1..Len(ls) : i = k + j
        BY <2>2
      <3> QED BY <1>5, <3>1 DEF Newest
    <2> QED BY <1>6, <2>1, <2>2
  <1>8. ASSUME NEW i \in 1..Len(u), NEW j \in 1..Len(u), i < j, Number(u[i]) # 0, Number(u[j]) # 0
        PROVE  Number(u[i]) < Number(u[j])
    <2>1. CASE j \in 1..k
      <3>1. i \in 1..k
        BY <1>4, <1>8, <2>1
      <3> QED BY <1>2, <1>4, <1>8, <2>1, <3>1 DEF Numbered
    <2>2. CASE j - k \in 1..Len(ls) /\ k + (j - k) = j
      <3>1. PICK q \in 1..Len(ls) : j = k + q
        BY <2>2
      <3>2. CASE i \in 1..k
        <4>1. Before(r, ls[q][1].line)
          BY <1>5, <1>8, <3>1 DEF Newest
        <4> QED BY <1>2, <1>4, <1>5, <3>1, <3>2, <4>1 DEF Before
      <3>3. CASE i - k \in 1..Len(ls) /\ k + (i - k) = i
        <4>1. PICK p \in 1..Len(ls) : i = k + p
          BY <3>3
        <4>2. p < q
          BY <1>4, <1>8, <3>1, <4>1
        <4> QED BY <1>5, <1>8, <3>1, <4>1, <4>2 DEF Newest
      <3> QED BY <1>6, <3>2, <3>3
    <2> QED BY <1>6, <2>1, <2>2
  <1>9. /\ c \in Seq(Y)
        /\ \A n \in 1..Len(c) : \E i \in 1..Len(u) : c[n] = u[i]
        /\ \A m, n \in 1..Len(c) : m < n => \E i, j \in 1..Len(u) : i < j /\ c[m] = u[i] /\ c[n] = u[j]
    <2>1. c \in Seq(Y) /\ Thins(u, c)
      BY <1>2, <1>3, CappedIs
    <2> QED BY <2>1 DEF Thins
  <1>10. Numbered(c)
    <2>1. \A n \in 1..Len(c) : Number(c[n]) \in Nat /\ (Number(c[n]) # 0 => c[n].line = Whole(Number(c[n])))
      <3> SUFFICES ASSUME NEW n \in 1..Len(c)
                   PROVE  Number(c[n]) \in Nat /\ (Number(c[n]) # 0 => c[n].line = Whole(Number(c[n])))
        OBVIOUS
      <3>1. PICK i \in 1..Len(u) : c[n] = u[i]
        BY <1>9
      <3> QED BY <1>7, <3>1
    <2>2. ASSUME NEW m \in 1..Len(c), NEW n \in 1..Len(c), m < n, Number(c[m]) # 0, Number(c[n]) # 0
          PROVE  Number(c[m]) < Number(c[n])
      <3>1. PICK i \in 1..Len(u), j \in 1..Len(u) : i < j /\ c[m] = u[i] /\ c[n] = u[j]
        BY <1>9, <2>2
      <3> QED BY <1>8, <2>2, <3>1
    <2> QED BY <1>9, <2>1, <2>2 DEF Numbered
  <1>11. ASSUME NEW l \in Nat, Before(r, l), \A n \in 1..Len(ls) : ls[n][1].line < l
         PROVE  Before(c, l)
    <2>1. \A i \in 1..Len(u) : Number(u[i]) < l
      <3> SUFFICES ASSUME NEW i \in 1..Len(u) PROVE Number(u[i]) < l
        OBVIOUS
      <3>1. CASE i \in 1..k
        BY <1>2, <1>4, <1>11, <3>1 DEF Before
      <3>2. CASE i - k \in 1..Len(ls) /\ k + (i - k) = i
        <4>1. PICK j \in 1..Len(ls) : i = k + j
          BY <3>2
        <4> QED BY <1>5, <1>11, <4>1
      <3> QED BY <1>6, <3>1, <3>2
    <2>2. \A n \in 1..Len(c) : Number(c[n]) < l
      <3> SUFFICES ASSUME NEW n \in 1..Len(c) PROVE Number(c[n]) < l
        OBVIOUS
      <3>1. PICK i \in 1..Len(u) : c[n] = u[i]
        BY <1>9
      <3> QED BY <2>1, <3>1
    <2> QED BY <2>2 DEF Before
  <1> QED BY <1>2, <1>10, <1>11

\* ReadLogs hands out the piece of the file that follows what was read, or tells
\* that the file has been rotated.
LEMMA ReadDrawn ==
  ASSUME NEW r, FileSound(file), file.there, lf.gen # file.gen => file.body = <<>>,
         Drawn(lf.rest, lf.offset, lf.gen, file, r), NEW got, got = ReadLogs(lf.offset)
  PROVE  /\ lf.gen <= got.gen
         /\ Drawn((IF got.cut THEN <<>> ELSE lf.rest) \o got.data, got.off, got.gen, file, r)
  <1>1. PICK b, n, o, g : b = file.body /\ n = Len(b) /\ o = lf.offset /\ g = file.gen
    OBVIOUS
  <1>2. /\ b \in Seq(Pieces) /\ n \in Nat /\ o \in Nat /\ Chunk \in Nat \ {0} /\ g \in Nat /\ Tidy(b)
        /\ lf.gen \in Nat /\ lf.gen <= g /\ lf.rest \in Seq(Pieces)
    BY <1>1, LogAssumption DEF FileSound, Drawn
  <1>3. CASE lf.gen = g
    <2>1. PICK a : /\ Starts(b, a) /\ o <= n /\ a <= o + 1 /\ lf.rest = SubSeq(b, a, o)
                   /\ \A j \in a..n : Before(r, b[j].line)
      BY <1>1, <1>3, Zenon DEF Drawn
    <2>2. a \in 1..(n + 1)
      BY <1>1, <2>1 DEF Starts
    <2>3. PICK to : to = IF n < o + Chunk THEN n ELSE o + Chunk
      OBVIOUS
    <2>4. to \in o..n /\ to \in Nat
      BY <1>2, <2>1, <2>3
    <2>5. got = [data |-> SubSeq(b, o + 1, to), off |-> to, cut |-> FALSE, gen |-> g]
      <3>1. ~(n < o)
        BY <1>2, <2>1
      <3>2. ~(Len(file.body) < lf.offset)
        BY <1>1, <3>1
      <3>3. ReadLogs(lf.offset) =
              [data |-> SubSeq(file.body, lf.offset + 1,
                               IF Len(file.body) < lf.offset + Chunk THEN Len(file.body) ELSE lf.offset + Chunk),
               off |-> IF Len(file.body) < lf.offset + Chunk THEN Len(file.body) ELSE lf.offset + Chunk,
               cut |-> Len(file.body) < lf.offset, gen |-> file.gen]
        BY <3>2, Zenon DEF ReadLogs
      <3>4. (Len(file.body) < lf.offset) = FALSE
        BY <3>2
      <3> QED BY <1>1, <2>3, <3>3, <3>4, Zenon
    <2>6. PICK u, v, w : u = SubSeq(b, a, o) /\ v = SubSeq(b, o + 1, to) /\ w = SubSeq(b, a, to)
      OBVIOUS
    <2>7. u \in Seq(Pieces) /\ Len(u) = o + 1 - a /\ \A i \in 1..(o + 1 - a) : u[i] = b[a + i - 1]
      <3>1. a \in 1..(Len(b) + 1) /\ o \in (a - 1)..Len(b)
        BY <1>1, <1>2, <2>1, <2>2
      <3> QED BY <1>2, <2>6, <3>1, PartIs
    <2>8. v \in Seq(Pieces) /\ Len(v) = to - o /\ \A i \in 1..(to - o) : v[i] = b[o + i]
      <3>0. PICK q : q = o + 1
        OBVIOUS
      <3>1. q \in 1..(Len(b) + 1) /\ to \in (q - 1)..Len(b) /\ to + 1 - q = to - o
        <4>1. q \in 1..(n + 1) /\ to \in (q - 1)..n /\ to + 1 - q = to - o
          BY <1>2, <2>1, <2>4, <3>0
        <4> QED BY <1>1, <4>1
      <3>2. v \in Seq(Pieces) /\ Len(v) = to + 1 - q /\ \A i \in 1..(to + 1 - q) : v[i] = b[q + i - 1]
        BY <1>2, <2>6, <3>0, <3>1, PartIs
      <3>3. \A i \in 1..(to - o) : q + i - 1 = o + i
        BY <1>2, <2>4, <3>0
      <3> QED BY <3>1, <3>2, <3>3
    <2>9. /\ w \in Seq(Pieces) /\ Len(w) = to + 1 - a
          /\ \A i \in 1..(to + 1 - a) : w[i] = b[a + i - 1] /\ a + i - 1 \in a..to
      <3>1. a \in 1..(Len(b) + 1) /\ to \in (a - 1)..Len(b)
        BY <1>1, <1>2, <2>1, <2>2, <2>4
      <3> QED BY <1>2, <2>6, <3>1, PartIs
    <2>10. u \o v = w
      <3>1. PICK x : x = u \o v
        OBVIOUS
      <3>2. /\ x \in Seq(Pieces) /\ Len(x) = (o + 1 - a) + (to - o)
            /\ \A i \in 1..(o + 1 - a) : x[i] = u[i]
            /\ \A i \in 1..(to - o) : x[(o + 1 - a) + i] = v[i]
        <4>1. u \in Seq(Pieces) /\ v \in Seq(Pieces)
          BY <2>7, <2>8
        <4>2. x \in Seq(Pieces) /\ Joins(u, v, x)
          BY <3>1, <4>1, ConcatIs
        <4> QED BY <2>7, <2>8, <4>2 DEF Joins
      <3>3. ASSUME NEW i \in 1..(to + 1 - a) PROVE x[i] = w[i]
        <4>1. CASE i <= o + 1 - a
          BY <1>2, <2>2, <2>4, <2>7, <2>9, <3>2, <4>1
        <4>2. CASE ~(i <= o + 1 - a)
          <5>1. PICK j : j = i - (o + 1 - a)
            OBVIOUS
          <5>2. j \in 1..(to - o) /\ (o + 1 - a) + j = i /\ o + j = a + i - 1
            BY <1>2, <2>2, <2>4, <4>2, <5>1
          <5>3. x[i] = v[j] /\ v[j] = b[o + j] /\ w[i] = b[a + i - 1]
            BY <2>8, <2>9, <3>2, <5>2
          <5> QED BY <5>2, <5>3
        <4> QED BY <4>1, <4>2
      <3>4. Len(x) = to + 1 - a
        BY <1>2, <2>2, <2>4, <3>2
      <3> QED BY <2>9, <3>1, <3>2, <3>3, <3>4
    <2>11. Tidy(w)
      <3>1. to \in (a - 1)..Len(b)
        BY <1>1, <1>2, <2>1, <2>2, <2>4
      <3> QED BY <1>2, <2>1, <2>6, <3>1, TidyPart
    <2>12. \A j \in 1..Len(w) : Before(r, w[j].line)
      <3> SUFFICES ASSUME NEW j \in 1..Len(w) PROVE Before(r, w[j].line)
        OBVIOUS
      <3>1. w[j] = b[a + j - 1] /\ a + j - 1 \in a..n
        BY <1>2, <2>4, <2>9
      <3> QED BY <2>1, <3>1
    <2>13. to = 0 => w = <<>>
      <3> SUFFICES ASSUME to = 0 PROVE w = <<>>
        OBVIOUS
      <3>1. o = 0 /\ Len(v) = 0
        BY <1>2, <2>4, <2>8
      <3>2. u = <<>> /\ v = <<>>
        BY <1>1, <2>1, <2>6, <2>8, <3>1 DEF Drawn
      <3> QED BY <2>10, <3>2
    <2>14. Drawn(w, to, g, file, r)
      <3>1. to <= Len(file.body) /\ a <= to + 1
        BY <1>1, <1>2, <2>1, <2>2, <2>4
      <3>2. \E z : /\ Starts(file.body, z) /\ to <= Len(file.body) /\ z <= to + 1
                   /\ w = SubSeq(file.body, z, to)
                   /\ \A j \in z..Len(file.body) : Before(r, file.body[j].line)
        BY <1>1, <2>1, <2>6, <3>1, Zenon
      <3>3. g <= g
        BY <1>2
      <3> QED BY <1>1, <1>2, <2>4, <2>9, <2>11, <2>12, <2>13, <3>2, <3>3, Zenon DEF Drawn
    <2>15. lf.gen <= got.gen /\ got.off = to /\ got.gen = g
      BY <1>2, <2>5
    <2>16. (IF got.cut THEN <<>> ELSE lf.rest) \o got.data = w
      <3>1. got.cut = FALSE /\ got.data = v
        <4>1. got = [data |-> v, off |-> to, cut |-> FALSE, gen |-> g]
          BY <2>5, <2>6, Zenon
        <4> QED BY <4>1
      <3> QED BY <2>1, <2>6, <2>10, <3>1, Zenon
    <2> QED BY <2>14, <2>15, <2>16
  <1>4. CASE lf.gen # g
    <2>1. b = <<>> /\ n = 0
      BY <1>1, <1>4
    <2>2. o = 0 => lf.rest = <<>>
      BY <1>1 DEF Drawn
    <2>3. got = [data |-> SubSeq(b, 1, 0), off |-> 0, cut |-> o > 0, gen |-> g]
      <3>1. (0 < o) <=> (o > 0)
        BY <1>2
      <3>2. 0 < Chunk /\ 0 + Chunk = Chunk /\ 0 + 1 = 1
        BY <1>2
      <3>3. PICK c : c = (o > 0)
        OBVIOUS
      <3>4. (Len(file.body) < lf.offset) <=> o > 0
        BY <1>1, <2>1, <3>1, Zenon
      <3>5. (IF Len(file.body) < lf.offset THEN 0 ELSE lf.offset) = 0
        <4>1. ~(o > 0) => o = 0
          BY <1>2
        <4> QED BY <1>1, <3>4, <4>1, Zenon
      <3>6. ReadLogs(lf.offset) =
              [data |-> SubSeq(file.body, 0 + 1, IF Len(file.body) < 0 + Chunk THEN Len(file.body) ELSE 0 + Chunk),
               off |-> IF Len(file.body) < 0 + Chunk THEN Len(file.body) ELSE 0 + Chunk,
               cut |-> Len(file.body) < lf.offset, gen |-> file.gen]
        BY <3>5, Zenon DEF ReadLogs
      <3>7. (IF Len(file.body) < 0 + Chunk THEN Len(file.body) ELSE 0 + Chunk) = 0
        BY <1>1, <2>1, <3>2
      <3>8. got = [data |-> SubSeq(b, 1, 0), off |-> 0, cut |-> Len(file.body) < lf.offset, gen |-> g]
        BY <1>1, <3>2, <3>6, <3>7, Zenon
      <3>9. (Len(file.body) < lf.offset) = (o > 0)
        BY <3>4
      <3> QED BY <3>8, <3>9, Zenon
    <2>4. SubSeq(b, 1, 0) = <<>>
      BY <2>1
    <2>5. (IF got.cut THEN <<>> ELSE lf.rest) \o got.data = <<>>
      <3>1. (IF got.cut THEN <<>> ELSE lf.rest) = <<>>
        <4>1. got.cut = (o > 0)
          BY <2>3
        <4>2. ~(o > 0) => o = 0
          BY <1>2
        <4> QED BY <2>2, <4>1, <4>2, Zenon
      <3>2. got.data = <<>>
        BY <2>3, <2>4
      <3> QED BY <3>1, <3>2
    <2>6. Drawn(<<>>, 0, g, file, r)
      <3>1. <<>> \in Seq(Pieces) /\ Len(<<>>) = 0 /\ 0 \in Nat /\ g <= g
        BY <1>2
      <3>2. Tidy(<<>>) /\ \A j \in 1..Len(<<>>) : Before(r, <<>>[j].line)
        BY <3>1 DEF Tidy
      <3>3. Starts(file.body, 1) /\ 0 <= Len(file.body) /\ 1 <= 0 + 1 /\ <<>> = SubSeq(file.body, 1, 0)
            /\ \A j \in 1..Len(file.body) : Before(r, file.body[j].line)
        BY <1>1, <2>1, <2>4 DEF Starts
      <3> QED BY <1>1, <1>2, <3>1, <3>2, <3>3, Zenon DEF Drawn
    <2>7. lf.gen <= got.gen /\ got.off = 0 /\ got.gen = g
      BY <1>2, <2>3
    <2> QED BY <2>5, <2>6, <2>7
  <1> QED BY <1>3, <1>4

\* What is cut out of a text goes into the ring, and what is left of it is not
\* there yet.
LEMMA LinesNewest ==
  ASSUME NEW t, NEW off, NEW g, NEW F, NEW r, Drawn(t, off, g, F, r), FileSound(F)
  PROVE  /\ Newest(r, Lines(t))
         /\ \A n \in 1..Len(Lines(t)) : Lines(t)[n][1].line < F.next.line
         /\ \A n \in 1..Len(Lines(t)) : \E k \in Ends(t) : Lines(t)[n][1].line = t[k].line
  <1>1. t \in Seq(Pieces) /\ Tidy(t) /\ \A j \in 1..Len(t) : Before(r, t[j].line)
    BY DEF Drawn
  <1>2. PICK ls : ls = Lines(t)
    OBVIOUS
  <1>3. /\ ls \in Seq(Seq(Pieces))
        /\ \A n \in 1..Len(ls) : \E k \in Ends(t) : ls[n] = Whole(t[k].line)
        /\ \A m, n \in 1..Len(ls) : m < n => ls[m][1].line < ls[n][1].line
    BY <1>1, <1>2, TidyLines
  <1>4. ASSUME NEW k \in Ends(t)
        PROVE  k \in 1..Len(t) /\ t[k].end /\ t[k].line \in Nat \ {0} /\ t[k].line < F.next.line
    <2>1. k \in 1..Len(t) /\ t[k].end /\ t[k] \in Pieces
      <3>1. k \in 1..Len(t) /\ t[k].end
        BY <1>1, EndsAre
      <3> QED BY <1>1, <3>1
    <2>2. t[k].line \in Nat \ {0}
      BY <2>1, PieceOf
    <2>3. CASE g # F.gen
      BY <2>1, <2>2, <2>3 DEF Drawn
    <2>4. CASE g = F.gen
      <3>1. PICK a : Starts(F.body, a) /\ off <= Len(F.body) /\ a <= off + 1 /\ t = SubSeq(F.body, a, off)
        BY <2>4, Zenon DEF Drawn
      <3>2. Len(F.body) \in Nat /\ off \in Nat /\ F.body \in Seq(Pieces)
        BY FileEnds DEF Drawn, FileSound
      <3>3. a \in 1..(Len(F.body) + 1) /\ off \in (a - 1)..Len(F.body)
        BY <3>1, <3>2 DEF Starts
      <3>4. Len(t) = off + 1 - a /\ \A i \in 1..(off + 1 - a) : t[i] = F.body[a + i - 1] /\ a + i - 1 \in a..off
        BY <3>1, <3>2, <3>3, PartIs
      <3>5. t[k] = F.body[a + k - 1] /\ a + k - 1 \in 1..Len(F.body)
        BY <2>1, <3>2, <3>3, <3>4
      <3>6. F.body[a + k - 1].end => F.body[a + k - 1].line < F.next.line
        BY <3>5, FileEnds
      <3> QED BY <2>1, <2>2, <3>5, <3>6
    <2> QED BY <2>1, <2>2, <2>3, <2>4
  <1>5. ASSUME NEW n \in 1..Len(ls)
        PROVE  /\ \E k \in Ends(t) : ls[n][1].line = t[k].line
               /\ ls[n][1].line \in Nat /\ ls[n] = Whole(ls[n][1].line) /\ Before(r, ls[n][1].line)
               /\ ls[n][1].line < F.next.line
    <2>1. PICK k \in Ends(t) : ls[n] = Whole(t[k].line)
      BY <1>3
    <2>2. PICK l : l = t[k].line
      OBVIOUS
    <2>3. l \in Nat \ {0} /\ k \in 1..Len(t) /\ l < F.next.line
      BY <1>4, <2>2
    <2>4. ls[n] = Whole(l) /\ ls[n][1].line = l
      BY <2>1, <2>2, <2>3, WholeIs
    <2>5. Before(r, l)
      BY <1>1, <2>2, <2>3
    <2> QED BY <2>2, <2>3, <2>4, <2>5
  <1>6. Len(ls) \in Nat
    BY <1>3
  <1>7. Newest(r, ls)
    BY <1>3, <1>5, <1>6 DEF Newest
  <1> QED BY <1>2, <1>5, <1>7

LEMMA ApplyDrawn ==
  ASSUME NEW t, NEW off, NEW g, NEW F, NEW r, Drawn(t, off, g, F, r), FileSound(F), Numbered(r),
         Before(r, F.next.line), NEW s, NEW c, c = Capped(Longer(r, s, Lines(t)))
  PROVE  Numbered(c) /\ Before(c, F.next.line) /\ Drawn(Rest(t), off, g, F, c)
  <1>1. PICK ls : ls = Lines(t)
    OBVIOUS
  <1>2. /\ Newest(r, ls) /\ \A n \in 1..Len(ls) : ls[n][1].line < F.next.line
        /\ \A n \in 1..Len(ls) : \E k \in Ends(t) : ls[n][1].line = t[k].line
    BY <1>1, LinesNewest
  <1>3. /\ Numbered(c)
        /\ \A l \in Nat : Before(r, l) /\ (\A n \in 1..Len(ls) : ls[n][1].line < l) => Before(c, l)
    BY <1>1, <1>2, RingTakes
  <1>4. F.next.line \in Nat /\ Len(F.body) \in Nat
    BY FileEnds
  <1>5. /\ t \in Seq(Pieces) /\ Tidy(t) /\ off \in Nat /\ g \in Nat /\ g <= F.gen /\ Len(t) \in Nat
        /\ (off = 0 => t = <<>>) /\ F.body \in Seq(Pieces) /\ Tidy(F.body)
    BY DEF Drawn, FileSound
  <1>6. PICK f, u : Starts(t, f) /\ Rest(t) = u /\ u = SubSeq(t, f, Len(t)) /\ \A k \in Ends(t) : k < f
    BY <1>5, RestIs
  <1>7. f \in 1..(Len(t) + 1) /\ (f = 1 \/ t[f - 1].end) /\ Len(t) \in (f - 1)..Len(t)
    BY <1>5, <1>6 DEF Starts
  <1>8. u \in Seq(Pieces) /\ Tidy(u)
    BY <1>5, <1>6, <1>7, TidyPart
  <1>9. Len(u) = Len(t) + 1 - f /\ \A i \in 1..Len(u) : u[i] = t[f + i - 1] /\ f + i - 1 \in f..Len(t)
    BY <1>5, <1>6, <1>7, PartIs
  <1>10. off = 0 => u = <<>>
    BY <1>5, <1>6
  <1>11. \A k \in Ends(t) : k \in 1..Len(t) /\ t[k].end /\ t[k].line \in Nat \ {0}
    <2> SUFFICES ASSUME NEW k \in Ends(t) PROVE k \in 1..Len(t) /\ t[k].end /\ t[k].line \in Nat \ {0}
      OBVIOUS
    <2>1. k \in 1..Len(t) /\ t[k].end
      BY <1>5, EndsAre
    <2>2. t[k] \in Pieces
      BY <1>5, <2>1
    <2> QED BY <2>1, <2>2, PieceOf
  <1>12. ASSUME NEW l \in Nat, Before(r, l), \A k \in Ends(t) : t[k].line < l PROVE Before(c, l)
    <2>1. \A n \in 1..Len(ls) : ls[n][1].line < l
      BY <1>2, <1>12
    <2> QED BY <1>3, <1>12, <2>1
  <1>13. \A j \in 1..Len(u) : Before(c, u[j].line)
    <2> SUFFICES ASSUME NEW j \in 1..Len(u) PROVE Before(c, u[j].line)
      OBVIOUS
    <2>1. u[j] = t[f + j - 1] /\ f + j - 1 \in f..Len(t) /\ f + j - 1 \in 1..Len(t) /\ f \in Nat
      BY <1>5, <1>7, <1>9
    <2>2. t[f + j - 1] \in Pieces
      BY <1>5, <2>1
    <2>3. t[f + j - 1].line \in Nat
      BY <2>2, PieceOf
    <2>4. Before(r, t[f + j - 1].line)
      BY <2>1 DEF Drawn
    <2>5. \A k \in Ends(t) : t[k].line < t[f + j - 1].line
      <3> SUFFICES ASSUME NEW k \in Ends(t) PROVE t[k].line < t[f + j - 1].line
        OBVIOUS
      <3>1. k < f + j - 1 /\ k \in 1..Len(t) /\ t[k].end
        BY <1>6, <1>11, <2>1
      <3> QED BY <1>5, <2>1, <3>1 DEF Tidy
    <2> QED BY <1>12, <2>1, <2>3, <2>4, <2>5
  <1>14. ASSUME g = F.gen
         PROVE  \E a : /\ Starts(F.body, a) /\ off <= Len(F.body) /\ a <= off + 1 /\ u = SubSeq(F.body, a, off)
                       /\ \A j \in a..Len(F.body) : Before(c, F.body[j].line)
    <2>1. PICK a : /\ Starts(F.body, a) /\ off <= Len(F.body) /\ a <= off + 1 /\ t = SubSeq(F.body, a, off)
                   /\ \A j \in a..Len(F.body) : Before(r, F.body[j].line)
      BY <1>14, Zenon DEF Drawn
    <2>2. a \in 1..(Len(F.body) + 1) /\ off \in (a - 1)..Len(F.body) /\ (a = 1 \/ F.body[a - 1].end)
      BY <1>4, <1>5, <2>1 DEF Starts
    <2>3. Len(t) = off + 1 - a /\ \A i \in 1..(off + 1 - a) : t[i] = F.body[a + i - 1] /\ a + i - 1 \in a..off
      BY <1>5, <2>1, <2>2, PartIs
    <2>4. PICK b : b = a + f - 1
      OBVIOUS
    <2>5. b \in 1..(Len(F.body) + 1) /\ off \in (b - 1)..Len(F.body) /\ b <= off + 1 /\ b \in Nat /\ a <= b
      <3>1. PICK n, m : n = Len(F.body) /\ m = Len(t)
        OBVIOUS
      <3>2. n \in Nat /\ m = off + 1 - a /\ a \in 1..(n + 1) /\ off \in (a - 1)..n /\ f \in 1..(m + 1) /\ off \in Nat
        BY <1>4, <1>5, <1>7, <2>2, <2>3, <3>1
      <3>3. b \in 1..(n + 1) /\ off \in (b - 1)..n /\ b <= off + 1 /\ b \in Nat /\ a <= b
        BY <2>4, <3>2
      <3> QED BY <3>1, <3>3
    <2>6. Starts(F.body, b)
      <3>1. CASE f = 1
        <4>1. b = a
          BY <2>2, <2>4, <3>1
        <4> QED BY <2>1, <4>1
      <3>2. CASE f # 1
        <4>1. f - 1 \in 1..Len(t) /\ a + (f - 1) - 1 = b - 1 /\ t[f - 1].end
          BY <1>5, <1>7, <2>2, <2>4, <3>2
        <4>2. F.body[b - 1].end
          BY <2>3, <4>1
        <4> QED BY <2>5, <4>2 DEF Starts
      <3> QED BY <3>1, <3>2
    <2>7. u = SubSeq(F.body, b, off)
      <3>1. PICK v : v = SubSeq(F.body, b, off)
        OBVIOUS
      <3>2. /\ v \in Seq(Pieces) /\ Len(v) = off + 1 - b
            /\ \A i \in 1..(off + 1 - b) : v[i] = F.body[b + i - 1] /\ b + i - 1 \in b..off
        <4>1. PICK w : w = F.body
          OBVIOUS
        <4>2. w \in Seq(Pieces) /\ b \in 1..(Len(w) + 1) /\ off \in (b - 1)..Len(w) /\ v = SubSeq(w, b, off)
          BY <1>5, <2>5, <3>1, <4>1
        <4>3. /\ SubSeq(w, b, off) \in Seq(Pieces) /\ Len(SubSeq(w, b, off)) = off + 1 - b
              /\ \A i \in 1..(off + 1 - b) : SubSeq(w, b, off)[i] = w[b + i - 1] /\ b + i - 1 \in b..off
          BY <4>2, PartIs
        <4> QED BY <4>1, <4>2, <4>3
      <3>3. Len(u) = off + 1 - b
        BY <1>5, <1>7, <1>9, <2>2, <2>3, <2>4
      <3>4. ASSUME NEW i \in 1..(off + 1 - b) PROVE u[i] = v[i]
        <4>1. u[i] = t[f + i - 1] /\ f + i - 1 \in 1..(off + 1 - a) /\ a + (f + i - 1) - 1 = b + i - 1
          BY <1>5, <1>7, <1>9, <2>2, <2>3, <2>4, <3>3
        <4> QED BY <2>3, <3>2, <4>1
      <3>5. u = v
        BY <1>8, <3>2, <3>3, <3>4
      <3> QED BY <3>1, <3>5
    <2>8. \A j \in b..Len(F.body) : Before(c, F.body[j].line)
      <3> SUFFICES ASSUME NEW j \in b..Len(F.body) PROVE Before(c, F.body[j].line)
        OBVIOUS
      <3>1. j \in a..Len(F.body) /\ j \in 1..Len(F.body) /\ j \in Nat
        BY <1>4, <2>2, <2>5
      <3>2. F.body[j].line \in Nat
        BY <3>1, FileEnds
      <3>3. ASSUME NEW k \in Ends(t) PROVE t[k].line < F.body[j].line
        <4>1. k \in 1..Len(t) /\ t[k].end /\ k < f /\ k \in Nat
          BY <1>6, <1>11
        <4>2. PICK i : i = a + k - 1
          OBVIOUS
        <4>3. i \in 1..Len(F.body) /\ i < j /\ t[k] = F.body[i]
          BY <1>4, <1>5, <1>7, <2>2, <2>3, <2>4, <3>1, <4>1, <4>2
        <4> QED BY <1>5, <3>1, <4>1, <4>3 DEF Tidy
      <3>4. Before(r, F.body[j].line)
        BY <2>1, <3>1
      <3> QED BY <1>12, <3>2, <3>3, <3>4
    <2> QED BY <2>1, <2>5, <2>6, <2>7, <2>8, Zenon
  <1>15. g # F.gen => \A j \in 1..Len(u) : u[j].line < F.next.line
    <2> SUFFICES ASSUME g # F.gen, NEW j \in 1..Len(u) PROVE u[j].line < F.next.line
      OBVIOUS
    <2>1. u[j] = t[f + j - 1] /\ f + j - 1 \in 1..Len(t)
      BY <1>5, <1>7, <1>9
    <2> QED BY <2>1 DEF Drawn
  <1>16. Before(c, F.next.line)
    BY <1>2, <1>3, <1>4
  <1>17. Drawn(u, off, g, F, c)
    BY <1>5, <1>8, <1>10, <1>13, <1>14, <1>15, Zenon DEF Drawn
  <1> QED BY <1>3, <1>6, <1>16, <1>17

LEMMA StreamedStays ==
  ASSUME Streamed, UNCHANGED <<file, lf, faults>>, DOMAIN buf' = {"seq", "ring", "subs"},
         buf'.ring = buf.ring,
         \A k \in Pollers : poll'[k].at = "apply" => poll[k].at = "apply" /\ poll'[k].got = poll[k].got
  PROVE  Streamed'
  <1>1. ASSUME Careful PROVE StreamSound'
    <2>1. StreamSound
      BY <1>1 DEF Streamed
    <2>2. \A k \in Pollers : poll'[k].at = "apply" =>
            TextOf(poll[k], lf)' = TextOf(poll[k], lf) /\ poll'[k].got = poll[k].got /\ poll[k].at = "apply"
      BY DEF TextOf
    <2> QED BY <2>1, <2>2 DEF StreamSound
  <1> QED BY <1>1 DEF Streamed, Careful

LEMMA WriteStreamed == ASSUME Streamed, WriteLog, faults' = faults PROVE Streamed'
  <1>1. /\ lf.gen = file.gen \/ "window" \in faults
        /\ UNCHANGED <<lf, poll, buf, faults>>
        /\ file' = [file EXCEPT !.body = Append(@, file.next),
                      !.next = IF @.end THEN Piece(@.line + 1, FALSE) ELSE Piece(@.line, TRUE)]
    BY DEF WriteLog
  <1>2. PICK G : G = file'
    OBVIOUS
  <1>3. /\ DOMAIN G = DOMAIN file /\ G.gen = file.gen /\ G.body = Append(file.body, file.next)
        /\ G.next = IF file.next.end THEN Piece(file.next.line + 1, FALSE) ELSE Piece(file.next.line, TRUE)
    BY <1>1, <1>2 DEF Streamed
  <1>4. ASSUME Careful PROVE StreamSound'
    <2>1. StreamSound /\ lf.gen = file.gen
      BY <1>1, <1>4 DEF Streamed, Careful
    <2>2. FileSound(file) /\ Before(buf.ring, file.next.line) /\ Numbered(buf.ring)
      BY <2>1 DEF StreamSound
    <2>3. FileSound(G) /\ G.next.line >= file.next.line
      BY <1>3, <2>2, FileGrows
    <2>4. file.next.line \in Nat /\ G.next.line \in Nat
      BY <2>2, <2>3, FileEnds
    <2>5. Before(buf.ring, G.next.line)
      BY <2>2, <2>3, <2>4 DEF Before, Numbered
    <2>6. ASSUME NEW t, NEW off, NEW g, Drawn(t, off, g, file, buf.ring) PROVE Drawn(t, off, g, G, buf.ring)
      BY <1>3, <2>2, <2>3, <2>4, <2>6, DrawnGrows
    <2>7. Drawn(lf.rest, lf.offset, lf.gen, G, buf.ring)
      BY <2>1, <2>6 DEF StreamSound
    <2>8. \A k \in Pollers : poll[k].at = "apply" =>
            lf.gen <= poll[k].got.gen /\ Drawn(TextOf(poll[k], lf), poll[k].got.off, poll[k].got.gen, G, buf.ring)
      BY <2>1, <2>6 DEF StreamSound
    <2> QED BY <1>1, <1>2, <1>3, <2>1, <2>2, <2>3, <2>5, <2>7, <2>8 DEF StreamSound, TextOf
  <1> QED BY <1>1, <1>2, <1>3, <1>4 DEF Streamed, Careful

LEMMA RotateStreamed == ASSUME Streamed, RotateLog, faults' = faults PROVE Streamed'
  <1>1. PICK G : G = file'
    OBVIOUS
  <1>2. /\ UNCHANGED <<lf, poll, buf, faults>>
        /\ DOMAIN G = {"there", "body", "next", "gen"} /\ G.gen = file.gen + 1 /\ G.body = <<>>
        /\ G.next = Piece(file.next.line + 1, FALSE)
    BY <1>1 DEF RotateLog
  <1>3. ASSUME Careful PROVE StreamSound'
    <2>1. StreamSound
      BY <1>3 DEF Streamed
    <2>2. FileSound(file) /\ Before(buf.ring, file.next.line) /\ Numbered(buf.ring)
      BY <2>1 DEF StreamSound
    <2>3. PICK l : l = file.next.line
      OBVIOUS
    <2>4. l \in Nat /\ l + 1 \in Nat \ {0} /\ file.gen \in Nat /\ file.gen + 1 \in Nat
      BY <2>2, <2>3, FileEnds DEF FileSound
    <2>5. G.next \in Pieces /\ G.next.line = l + 1 /\ ~G.next.end
      BY <1>2, <2>3, <2>4, PieceIs
    <2>6. FileSound(G)
      <3>1. <<>> \in Seq(Pieces) /\ Len(<<>>) = 0 /\ Tidy(<<>>)
        BY DEF Tidy
      <3>2. Tidy(Append(<<>>, G.next))
        BY <2>5, <3>1, TidyAppend
      <3> QED BY <1>2, <2>4, <2>5, <3>1, <3>2 DEF FileSound
    <2>7. Before(buf.ring, G.next.line)
      <3>1. \A n \in 1..Len(buf.ring) : Number(buf.ring[n]) \in Nat /\ Number(buf.ring[n]) < l
        BY <2>2, <2>3 DEF Before, Numbered
      <3> QED BY <2>4, <2>5, <3>1 DEF Before
    <2>8. ASSUME NEW t, NEW off, NEW g, Drawn(t, off, g, file, buf.ring) PROVE Drawn(t, off, g, G, buf.ring)
      BY <1>2, <2>2, <2>3, <2>5, <2>8, DrawnTurns
    <2>9. Drawn(lf.rest, lf.offset, lf.gen, G, buf.ring)
      BY <2>1, <2>8 DEF StreamSound
    <2>10. \A k \in Pollers : poll[k].at = "apply" =>
             lf.gen <= poll[k].got.gen /\ Drawn(TextOf(poll[k], lf), poll[k].got.off, poll[k].got.gen, G, buf.ring)
      BY <2>1, <2>8 DEF StreamSound
    <2> QED BY <1>1, <1>2, <2>2, <2>6, <2>7, <2>9, <2>10 DEF StreamSound, TextOf
  <1> QED BY <1>1, <1>2, <1>3 DEF Streamed, Careful

LEMMA OpenStreamed == ASSUME Streamed, OpenLog, faults' = faults PROVE Streamed'
  <1>1. UNCHANGED <<lf, poll, buf, faults>> /\ file' = [file EXCEPT !.there = TRUE]
    BY DEF OpenLog
  <1>2. PICK G : G = file'
    OBVIOUS
  <1>3. DOMAIN G = DOMAIN file /\ G.gen = file.gen /\ G.body = file.body /\ G.next = file.next
    BY <1>1, <1>2 DEF Streamed
  <1>4. \A t, off, g, r : Drawn(t, off, g, file, r) <=> Drawn(t, off, g, G, r)
    BY <1>3 DEF Drawn
  <1>5. FileSound(file) <=> FileSound(G)
    BY <1>3 DEF FileSound
  <1>6. \A k \in Pollers : TextOf(poll[k], lf)' = TextOf(poll[k], lf)
    BY <1>1 DEF TextOf
  <1>7. StreamSound => StreamSound'
    BY <1>1, <1>2, <1>3, <1>4, <1>5, <1>6 DEF StreamSound
  <1> QED BY <1>1, <1>2, <1>3, <1>7 DEF Streamed, Careful

LEMMA ReadStreamed ==
  ASSUME Streamed, Lone, NEW k \in Pollers, PollReads(k), faults' = faults
  PROVE  Streamed'
  <1>1. UNCHANGED <<file, lf, buf, faults>> /\ (file.there \/ "window" \in faults)
    BY DEF PollReads
  <1>2. /\ poll'[k].got = ReadLogs(lf.offset) /\ poll[k].at # "none"
        /\ \A j \in Pollers : j # k => poll'[j] = poll[j]
    BY PollMoves
  <1>3. ASSUME Careful PROVE StreamSound'
    <2>1. StreamSound /\ OneReads /\ file.there
      BY <1>1, <1>3 DEF Streamed, Careful, Lone
    <2>2. \A j \in Pollers : j # k => poll'[j].at # "apply"
      BY <1>2, <2>1 DEF OneReads
    <2>3. PICK got : got = ReadLogs(lf.offset)
      OBVIOUS
    <2>4. FileSound(file) /\ (lf.gen # file.gen => file.body = <<>>)
          /\ Drawn(lf.rest, lf.offset, lf.gen, file, buf.ring)
      BY <2>1 DEF StreamSound
    <2>5. /\ lf.gen <= got.gen
          /\ Drawn((IF got.cut THEN <<>> ELSE lf.rest) \o got.data, got.off, got.gen, file, buf.ring)
      BY <2>1, <2>3, <2>4, ReadDrawn
    <2>6. TextOf(poll[k], lf)' = (IF got.cut THEN <<>> ELSE lf.rest) \o got.data /\ poll'[k].got = got
      BY <1>1, <1>2, <2>3 DEF TextOf
    <2>7. \A j \in Pollers : poll'[j].at = "apply" => 
            lf.gen <= poll'[j].got.gen /\ Drawn(TextOf(poll[j], lf)', poll'[j].got.off, poll'[j].got.gen, file, buf.ring)
      BY <2>2, <2>5, <2>6
    <2> QED BY <1>1, <2>1, <2>7 DEF StreamSound
  <1> QED BY <1>1, <1>3 DEF Streamed, Careful

\* Add, of the ring.
LEMMA AddIs ==
  ASSUME Streamed, NEW ls, Add(ls)
  PROVE  /\ DOMAIN buf' = {"seq", "ring", "subs"} /\ buf'.subs = buf.subs
         /\ buf'.seq = buf.seq + Len(ls) /\ buf'.ring = Capped(Longer(buf.ring, buf.seq, ls))
  <1>1. PICK new : new = [n \in 1..Len(ls) |-> [seq |-> buf.seq + n, line |-> ls[n]]]
    OBVIOUS
  <1>2. buf' = [buf EXCEPT !.seq = @ + Len(ls), !.ring = Capped(@ \o new)]
    BY <1>1, Zenon DEF Add
  <1>3. PICK x, n : x = Capped(buf.ring \o new) /\ n = buf.seq + Len(ls)
    OBVIOUS
  <1>4. buf' = [buf EXCEPT !.seq = n, !.ring = x]
    BY <1>2, <1>3
  <1>5. x = Capped(Longer(buf.ring, buf.seq, ls)) 
    BY <1>1, <1>3 DEF Longer
  <1> QED BY <1>3, <1>4, <1>5 DEF Streamed

LEMMA ApplyStreamed ==
  ASSUME Streamed, Lone, NEW k \in Pollers, PollApply(k), faults' = faults
  PROVE  Streamed'
  <1>1. PICK t : t = TextOf(poll[k], lf)
    OBVIOUS
  <1>2. /\ poll[k].at = "apply" /\ Add(Lines(t)) /\ UNCHANGED <<file, faults>>
        /\ lf' = [offset |-> poll[k].got.off, rest |-> Rest(t), gen |-> poll[k].got.gen]
    BY <1>1 DEF PollApply, TextOf
  <1>3. /\ poll[k].at # "none" /\ poll'[k].at # "apply"
        /\ \A j \in Pollers : j # k => poll'[j] = poll[j]
    <2>1. ~PollReads(k)
      BY <1>2 DEF PollReads
    <2> QED BY <2>1, PollMoves
  <1>5. DOMAIN buf' = {"seq", "ring", "subs"} /\ buf'.ring = Capped(Longer(buf.ring, buf.seq, Lines(t)))
    BY <1>2, AddIs
  <1>6. ASSUME Careful PROVE StreamSound'
    <2>1. StreamSound /\ OneReads
      BY <1>6 DEF Streamed, Careful, Lone
    <2>2. \A j \in Pollers : poll'[j].at # "apply"
      BY <1>3, <2>1 DEF OneReads
    <2>3. PICK off, g : off = poll[k].got.off /\ g = poll[k].got.gen
      OBVIOUS
    <2>4. /\ Drawn(t, off, g, file, buf.ring) /\ FileSound(file) /\ Numbered(buf.ring) /\ lf.gen <= g
          /\ Before(buf.ring, file.next.line) /\ (lf.gen # file.gen => file.body = <<>>)
          /\ Drawn(lf.rest, lf.offset, lf.gen, file, buf.ring)
      BY <1>1, <1>2, <2>1, <2>3 DEF StreamSound
    <2>5. Numbered(buf'.ring) /\ Before(buf'.ring, file.next.line) /\ Drawn(Rest(t), off, g, file, buf'.ring)
      BY <1>5, <2>4, ApplyDrawn
    <2>6. lf'.rest = Rest(t) /\ lf'.offset = off /\ lf'.gen = g
      BY <1>2, <2>3
    <2>7. g # file.gen => file.body = <<>>
      <3>1. lf.gen \in Nat /\ g \in Nat /\ g <= file.gen /\ file.gen \in Nat
        BY <2>4 DEF Drawn, FileSound
      <3>2. g # file.gen => lf.gen # file.gen
        BY <2>4, <3>1
      <3> QED BY <2>4, <3>2
    <2> QED BY <1>2, <2>2, <2>4, <2>5, <2>6, <2>7 DEF StreamSound
  <1> QED BY <1>2, <1>5, <1>6 DEF Streamed, Careful

LEMMA BridgeStreamed == ASSUME Streamed, BridgeLog, faults' = faults PROVE Streamed'
  <1>1. PICK ls : ls = <<<<Piece(0, TRUE)>>>>
    OBVIOUS
  <1>2. Add(ls) /\ UNCHANGED <<file, lf, poll, faults>>
    BY <1>1 DEF BridgeLog
  <1>3. Len(ls) = 1 /\ \A n \in 1..1 : ls[n][1].line = 0
    <2>1. Len(ls) = 1 /\ ls[1] = <<Piece(0, TRUE)>>
      BY <1>1
    <2>2. ls[1][1] = Piece(0, TRUE)
      BY <2>1
    <2> QED BY <2>1, <2>2 DEF Piece
  <1>4. DOMAIN buf' = {"seq", "ring", "subs"} /\ buf'.ring = Capped(Longer(buf.ring, buf.seq, ls))
    BY <1>2, AddIs
  <1>5. ASSUME Careful PROVE StreamSound'
    <2>1. StreamSound
      BY <1>5 DEF Streamed
    <2>2. Numbered(buf.ring)
      BY <2>1 DEF StreamSound
    <2>3. Newest(buf.ring, ls)
      BY <1>3 DEF Newest
    <2>4. Numbered(buf'.ring)
          /\ \A l \in Nat : Before(buf.ring, l) /\ (\A n \in 1..Len(ls) : ls[n][1].line < l) => Before(buf'.ring, l)
      BY <1>4, <2>2, <2>3, RingTakes
    <2>5. ASSUME NEW l \in Nat, l # 0, Before(buf.ring, l) PROVE Before(buf'.ring, l)
      BY <1>3, <2>4, <2>5
    <2>6. file.next.line \in Nat /\ file.next.line # 0 /\ Before(buf.ring, file.next.line)
      BY <2>1, FileEnds DEF StreamSound
    <2>7. \A p : p \in Pieces => p.line \in Nat /\ p.line # 0
      BY PieceOf
    <2>8. ASSUME NEW t, NEW off, NEW g, Drawn(t, off, g, file, buf.ring) PROVE Drawn(t, off, g, file, buf'.ring)
      <3>1. FileSound(file)
        BY <2>1 DEF StreamSound
      <3>2. \A j \in 1..Len(t) : Before(buf'.ring, t[j].line)
        BY <2>5, <2>7, <2>8 DEF Drawn
      <3>3. ASSUME g = file.gen
            PROVE  \E a : /\ Starts(file.body, a) /\ off <= Len(file.body) /\ a <= off + 1
                          /\ t = SubSeq(file.body, a, off)
                          /\ \A j \in a..Len(file.body) : Before(buf'.ring, file.body[j].line)
        <4>1. PICK a : /\ Starts(file.body, a) /\ off <= Len(file.body) /\ a <= off + 1
                       /\ t = SubSeq(file.body, a, off)
                       /\ \A j \in a..Len(file.body) : Before(buf.ring, file.body[j].line)
          BY <2>8, <3>3, Zenon DEF Drawn
        <4>2. \A j \in a..Len(file.body) : Before(buf'.ring, file.body[j].line)
          <5> SUFFICES ASSUME NEW j \in a..Len(file.body) PROVE Before(buf'.ring, file.body[j].line)
            OBVIOUS
          <5>1. a \in 1..(Len(file.body) + 1) /\ file.body \in Seq(Pieces) /\ Len(file.body) \in Nat
            BY <3>1, <4>1, FileEnds DEF Starts, FileSound
          <5>2. j \in 1..Len(file.body)
            BY <5>1
          <5>3. file.body[j] \in Pieces
            BY <5>1, <5>2
          <5> QED BY <2>5, <2>7, <4>1, <5>3
        <4> QED BY <4>1, <4>2, Zenon
      <3> QED BY <2>8, <3>2, <3>3, Zenon DEF Drawn
    <2>9. Drawn(lf.rest, lf.offset, lf.gen, file, buf'.ring)
      BY <2>1, <2>8 DEF StreamSound
    <2>10. \A k \in Pollers : poll[k].at = "apply" =>
             lf.gen <= poll[k].got.gen /\ Drawn(TextOf(poll[k], lf), poll[k].got.off, poll[k].got.gen, file, buf'.ring)
      BY <2>1, <2>8 DEF StreamSound
    <2>11. Before(buf'.ring, file.next.line)
      BY <2>5, <2>6
    <2> QED BY <1>2, <2>1, <2>4, <2>9, <2>10, <2>11 DEF StreamSound, TextOf
  <1> QED BY <1>2, <1>4, <1>5 DEF Streamed, Careful

LEMMA PollStreamed == ASSUME Streamed, Lone, LogWorld \/ LogMoves PROVE Streamed'
  <1>1. faults' = faults
    BY DEF LogWorld, LogMoves, shared
  <1>2. ASSUME NEW k \in Pollers, PollFails(k) \/ PollEnds(k) PROVE Streamed'
    <2>1. UNCHANGED <<file, lf, buf>> /\ ~PollReads(k)
      BY <1>2 DEF PollFails, PollEnds, PollReads
    <2>2. poll'[k].at # "apply" /\ \A j \in Pollers : j # k => poll'[j] = poll[j]
      BY <1>2, <2>1, PollMoves
    <2> QED BY <1>1, <2>1, <2>2, StreamedStays DEF Streamed
  <1>3. CASE LogWorld
    BY <1>1, <1>3, WriteStreamed, RotateStreamed, BridgeStreamed DEF LogWorld
  <1>4. CASE LogMoves
    BY <1>1, <1>2, <1>4, OpenStreamed, ReadStreamed, ApplyStreamed DEF LogMoves
  <1> QED BY <1>3, <1>4

LEMMA HandlesStreamed == ASSUME Streamed, Lone, Tabs, LogHandles PROVE Streamed'
  <1>1. PICK i \in DOMAIN calls :
          LogsStart(i) \/ LogsStartPoller(i) \/ LogsTail(i) \/ LogsStop(i) \/ LogsStopPoller(i)
    BY DEF LogHandles
  <1>2. UNCHANGED <<file, lf, faults>>
    BY <1>1 DEF LogHandles, shared, LogsStart, LogsStartPoller, LogsTail, LogsStop, LogsStopPoller
  <1>3. DOMAIN buf' = {"seq", "ring", "subs"} /\ buf'.ring = buf.ring
    <2>1. CASE \E n : buf' = [buf EXCEPT !.subs = n]
      BY <2>1 DEF Streamed
    <2>2. CASE buf' = buf
      BY <2>2 DEF Streamed
    <2>3. CASE LogsStart(i) \/ LogsStop(i)
      BY <2>1, <2>3 DEF LogsStart, LogsStop
    <2> QED BY <1>1, <2>2, <2>3 DEF LogsStartPoller, LogsTail, LogsStopPoller
  <1>4. CASE poll' = poll
    BY <1>2, <1>3, <1>4, StreamedStays
  <1>5. CASE LogsStartPoller(i) /\ cancel = 0
    <2>1. PICK k \in Pollers : poll' = [poll EXCEPT ![k] = [NoPoll EXCEPT !.at = "tick", !.live = TRUE]]
      BY <1>5 DEF LogsStartPoller, StartPoller
    <2> DEFINE p == [NoPoll EXCEPT !.at = "tick", !.live = TRUE]
    <2>2. p.at = "tick" /\ poll' = [poll EXCEPT ![k] = p]
      BY <2>1 DEF NoPoll
    <2> HIDE DEF p
    <2>3. poll'[k].at # "apply" /\ \A j \in Pollers : j # k => poll'[j] = poll[j]
      BY <2>2 DEF Lone
    <2> QED BY <1>2, <1>3, <2>3, StreamedStays
  <1>6. CASE LogsStopPoller(i) /\ cancel # 0
    <2>1. poll' = [poll EXCEPT ![cancel].live = FALSE] /\ cancel \in Pollers
      <3>1. cancel \in Pollers
        BY <1>6 DEF Tabs, Held
      <3> QED BY <1>6, <3>1, Zenon DEF LogsStopPoller, StopPoller
    <2> DEFINE p == [poll[cancel] EXCEPT !.live = FALSE]
    <2>2. p.at = poll[cancel].at /\ p.got = poll[cancel].got /\ poll' = [poll EXCEPT ![cancel] = p]
      BY <2>1 DEF Lone, IsPoll
    <2> HIDE DEF p
    <2>3. poll'[cancel] = p /\ \A j \in Pollers : j # cancel => poll'[j] = poll[j]
      BY <2>1, <2>2 DEF Lone
    <2>4. \A j \in Pollers : poll'[j].at = "apply" => poll[j].at = "apply" /\ poll'[j].got = poll[j].got
      BY <2>2, <2>3
    <2> QED BY <1>2, <1>3, <2>4, StreamedStays
  <1>7. CASE LogsStartPoller(i)
    BY <1>4, <1>5, <1>7 DEF LogsStartPoller, StartPoller
  <1>8. CASE LogsStopPoller(i)
    BY <1>4, <1>6, <1>8 DEF LogsStopPoller, StopPoller
  <1> QED BY <1>1, <1>4, <1>7, <1>8 DEF LogsStart, LogsTail, LogsStop

LEMMA StreamedInit == ASSUME Init PROVE Streamed
  <1>1. /\ file = [there |-> TRUE, body |-> <<>>, next |-> Piece(1, FALSE), gen |-> 0]
        /\ lf = [offset |-> 0, rest |-> <<>>, gen |-> 0] /\ buf = [seq |-> 0, ring |-> <<>>, subs |-> 0]
        /\ poll = [k \in Pollers |-> NoPoll]
    BY DEF Init, LogInit
  <1>2. /\ DOMAIN buf = {"seq", "ring", "subs"} /\ DOMAIN file = {"there", "body", "next", "gen"}
        /\ file.gen = 0 /\ file.body = <<>> /\ lf.gen = 0 /\ lf.offset = 0 /\ lf.rest = <<>> /\ buf.ring = <<>>
        /\ file.next = Piece(1, FALSE)
    BY <1>1
  <1>3. \A k \in Pollers : poll[k].at # "apply"
    BY <1>1, NoPollIs
  <1>4. file.next \in Pieces /\ file.next.line = 1 /\ ~file.next.end
    <2>1. PICK l : l = 1
      OBVIOUS
    <2>2. l \in Nat \ {0} /\ file.next = Piece(l, FALSE)
      BY <1>2, <2>1
    <2>3. file.next \in Pieces /\ file.next.line = l /\ ~file.next.end
      BY <2>2, PieceIs
    <2> QED BY <2>1, <2>3
  <1>5. <<>> \in Seq(Pieces) /\ Len(<<>>) = 0 /\ Tidy(<<>>) /\ 0 \in Nat /\ 0 <= 0
    BY DEF Tidy
  <1>6. Tidy(Append(<<>>, file.next))
    BY <1>4, <1>5, TidyAppend
  <1>7. FileSound(file)
    BY <1>2, <1>4, <1>5, <1>6 DEF FileSound
  <1>8. Numbered(<<>>) /\ \A l : Before(<<>>, l)
    BY <1>5 DEF Numbered, Before
  <1>9. Drawn(<<>>, 0, 0, file, <<>>)
    <2>1. Starts(file.body, 1) /\ 0 <= Len(file.body) /\ 1 <= 0 + 1 /\ <<>> = SubSeq(file.body, 1, 0)
          /\ \A j \in 1..Len(file.body) : Before(<<>>, file.body[j].line)
      BY <1>2, <1>5 DEF Starts
    <2>2. \A j \in 1..Len(<<>>) : Before(<<>>, <<>>[j].line)
      BY <1>5
    <2> QED BY <1>2, <1>5, <2>1, <2>2, Zenon DEF Drawn
  <1>10. StreamSound
    BY <1>2, <1>3, <1>7, <1>8, <1>9 DEF StreamSound
  <1> QED BY <1>2, <1>10 DEF Streamed

LEMMA StreamedStep == ASSUME Streamed, Lone, Tabs, Claimed, [Next]_vars PROVE Streamed'
  <1>1. CASE UNCHANGED <<file, lf, poll, buf, faults>>
    BY <1>1, StreamedStays DEF Streamed
  <1>2. CASE Output \/ Handles \/ ChainMoves \/ Renders \/ Discard \/ UserSync \/ DriverTick \/ WorkerMoves
    BY <1>1, <1>2 DEF Output, PipeStep, Forward, ForwarderExit, ServeReturns, WriteAnswer, Handles, ChainMoves, Renders,
                      Discard, UserSync, DriverTick, WorkerMoves, logv, shared
  <1>3. CASE Quit \/ ChainWorld \/ User \/ CloseWindow \/ OpenWindow \/ TimerTick \/ WorkerPanics \/ UserSubs
    BY <1>1, <1>3 DEF Quit, CloseInput, ChainWorld, User, CloseWindow, OpenWindow, TimerTick, WorkerPanics, UserSubs, logv
  <1>4. CASE LogPublishes \/ LogReceives \/ LogUser
    BY <1>1, <1>4 DEF LogPublishes, PublishLine, LogReceives, LogUser, OpenTab, CloseTab, shared
  <1>5. CASE LogHandles
    BY <1>5, HandlesStreamed
  <1>6. CASE LogWorld \/ LogMoves
    BY <1>6, PollStreamed
  <1>7. CASE UNCHANGED vars
    BY <1>1, <1>7 DEF vars, shared, logv
  <1> QED BY <1>2, <1>3, <1>4, <1>5, <1>6, <1>7 DEF Next, System

LEMMA StreamedWhole == ASSUME Streamed PROVE LinesWhole
  <1> SUFFICES ASSUME Careful, NEW n \in DOMAIN buf.ring, ~Source(buf.ring[n])
               PROVE  /\ buf.ring[n].line = Whole(buf.ring[n].line[1].line)
                      /\ \A m \in DOMAIN buf.ring : m # n => buf.ring[m].line # buf.ring[n].line
    BY DEF LinesWhole, Careful
  <1>1. Numbered(buf.ring)
    BY DEF Streamed, StreamSound
  <1>2. DOMAIN buf.ring = 1..Len(buf.ring) /\ Len(buf.ring) \in Nat
    BY <1>1 DEF Numbered
  <1>3. Number(buf.ring[n]) # 0
    BY DEF Source, Number
  <1>4. ASSUME NEW m \in DOMAIN buf.ring, m # n, buf.ring[m].line = buf.ring[n].line PROVE FALSE
    <2>1. Number(buf.ring[m]) = Number(buf.ring[n])
      BY <1>4 DEF Number
    <2>2. m < n \/ n < m
      BY <1>2, <1>4
    <2> QED BY <1>1, <1>2, <1>3, <1>4, <2>1, <2>2 DEF Numbered
  <1> QED BY <1>1, <1>2, <1>3, <1>4 DEF Numbered, Number

\* An engine's line reaches the buffer once and whole, for every size of the
\* pieces that ReadLogs hands out and of the buffer, however writes, rotations
\* and polls alternate, as long as one poller at a time reads the file.
THEOREM LinesReachWhole == Spec => []LinesWhole
  <1>1. Init => Streamed /\ Lone /\ Tabs /\ Draining /\ Claimed
    BY StreamedInit, LoneInit, TabsInit, SessionInit
  <1>2. /\ Streamed /\ Lone /\ Tabs /\ Draining /\ Claimed /\ [Next]_vars
        => (Streamed /\ Lone /\ Tabs /\ Draining /\ Claimed)'
    BY StreamedStep, LoneStep, TabsStep, SessionStep
  <1>3. Streamed => LinesWhole
    BY StreamedWhole
  <1> QED BY <1>1, <1>2, <1>3, PTL DEF Spec

(***************************************************************************)
(* What is read is pieces, whatever the order of polls and rotations.      *)
(***************************************************************************)
Texts ==
  /\ DOMAIN file = {"there", "body", "next", "gen"} /\ file.body \in Seq(Pieces) /\ file.next \in Pieces
  /\ lf.rest \in Seq(Pieces) /\ lf.offset \in Nat
  /\ \A k \in Pollers : poll[k].got.data \in Seq(Pieces) /\ poll[k].got.off \in Nat

LEMMA TextIs == ASSUME Texts, NEW k \in Pollers PROVE TextOf(poll[k], lf) \in Seq(Pieces)
  <1>1. PICK a, b : a = (IF poll[k].got.cut THEN <<>> ELSE lf.rest) /\ b = poll[k].got.data
    OBVIOUS
  <1>2. a \in Seq(Pieces) /\ b \in Seq(Pieces)
    BY <1>1 DEF Texts
  <1>3. a \o b \in Seq(Pieces)
    BY <1>2, ConcatIs
  <1> QED BY <1>1, <1>3 DEF TextOf

LEMMA LinesCount == ASSUME NEW t \in Seq(Pieces) PROVE Len(Lines(t)) \in Nat
  <1>1. Cardinality(Ends(t)) \in Nat
    BY EndsAre, CountIs
  <1> QED BY <1>1 DEF Lines

LEMMA ReadTexts ==
  ASSUME Texts, NEW got, got = ReadLogs(lf.offset) PROVE got.data \in Seq(Pieces) /\ got.off \in Nat
  <1>1. PICK b, n, o : b = file.body /\ n = Len(b) /\ o = lf.offset
    OBVIOUS
  <1>2. b \in Seq(Pieces) /\ n \in Nat /\ o \in Nat /\ Chunk \in Nat
    BY <1>1, LogAssumption DEF Texts
  <1>3. CASE ~file.there
    <2>1. got = [data |-> <<>>, off |-> 0, cut |-> FALSE, gen |-> file.gen]
      BY <1>3, Zenon DEF ReadLogs
    <2>2. <<>> \in Seq(Pieces)
      OBVIOUS
    <2> QED BY <2>1, <2>2
  <1>4. CASE file.there
    <2>1. PICK fr : fr = IF n < o THEN 0 ELSE o
      OBVIOUS
    <2>2. PICK to : to = IF n < fr + Chunk THEN n ELSE fr + Chunk
      OBVIOUS
    <2>3. got = [data |-> SubSeq(b, fr + 1, to), off |-> to, cut |-> n < o, gen |-> file.gen]
      BY <1>1, <1>4, <2>1, <2>2, Zenon DEF ReadLogs
    <2>4. PICK a : a = fr + 1
      OBVIOUS
    <2>5. a \in 1..(n + 1) /\ to \in (a - 1)..n /\ to \in Nat
      BY <1>2, <2>1, <2>2, <2>4
    <2>6. SubSeq(b, a, to) \in Seq(Pieces)
      BY <1>1, <1>2, <2>5, PartIs
    <2> QED BY <2>3, <2>4, <2>5, <2>6
  <1> QED BY <1>3, <1>4

LEMMA RestTexts == ASSUME NEW t \in Seq(Pieces) PROVE Rest(t) \in Seq(Pieces)
  <1>1. PICK f : Starts(t, f) /\ Rest(t) = SubSeq(t, f, Len(t))
    BY RestIs
  <1>2. f \in 1..(Len(t) + 1) /\ Len(t) \in (f - 1)..Len(t)
    BY <1>1 DEF Starts
  <1> QED BY <1>1, <1>2, PartIs

LEMMA TextsStay ==
  ASSUME Texts, UNCHANGED <<file, lf>>,
         \A k \in Pollers : poll'[k].got = poll[k].got \/ poll'[k].got = NoPoll.got
  PROVE  Texts'
  <1>1. NoPoll.got.data \in Seq(Pieces) /\ NoPoll.got.off \in Nat
    <2>1. <<>> \in Seq(Pieces)
      OBVIOUS
    <2> QED BY <2>1 DEF NoPoll
  <1> QED BY <1>1 DEF Texts

LEMMA PollGot ==
  ASSUME Lone, NEW k \in Pollers, PollFails(k) \/ PollEnds(k) \/ PollApply(k)
  PROVE  poll'[k].got = NoPoll.got /\ \A j \in Pollers : j # k => poll'[j] = poll[j]
  <1>1. IsPoll(poll[k]) /\ DOMAIN poll = Pollers
    BY DEF Lone
  <1>2. CASE PollFails(k)
    <2> DEFINE p == [NoPoll EXCEPT !.at = "tick"]
    <2>1. poll' = [poll EXCEPT ![k] = p] /\ p.got = NoPoll.got
      BY <1>2 DEF PollFails, NoPoll
    <2> HIDE DEF p
    <2> QED BY <1>1, <2>1
  <1>3. CASE PollEnds(k)
    BY <1>1, <1>3 DEF PollEnds
  <1>4. CASE PollApply(k)
    <2> DEFINE p == [poll[k] EXCEPT !.at = "tick", !.got = NoPoll.got]
    <2>1. poll' = [poll EXCEPT ![k] = p]
      BY <1>1, <1>4 DEF PollApply
    <2>2. p.got = NoPoll.got
      BY <1>1 DEF IsPoll
    <2> HIDE DEF p
    <2> QED BY <1>1, <2>1, <2>2
  <1> QED BY <1>2, <1>3, <1>4

LEMMA PollTexts == ASSUME Texts, Lone, LogWorld \/ LogMoves PROVE Texts'
  <1>1. CASE WriteLog
    <2>1. PICK G : G = file'
      OBVIOUS
    <2>2. /\ file' = [file EXCEPT !.body = Append(@, file.next),
                        !.next = IF @.end THEN Piece(@.line + 1, FALSE) ELSE Piece(@.line, TRUE)]
          /\ UNCHANGED <<lf, poll>>
      BY <1>1 DEF WriteLog
    <2>3. /\ DOMAIN G = DOMAIN file /\ G.body = Append(file.body, file.next)
          /\ G.next = IF file.next.end THEN Piece(file.next.line + 1, FALSE) ELSE Piece(file.next.line, TRUE)
      BY <2>1, <2>2 DEF Texts
    <2>4. G.body \in Seq(Pieces)
      BY <2>3, AppendPiece DEF Texts
    <2>5. PICK l, m : l = file.next.line /\ m = l + 1
      OBVIOUS
    <2>6. l \in Nat \ {0} /\ m \in Nat \ {0}
      <3>1. l \in Nat \ {0}
        BY <2>5, PieceOf DEF Texts
      <3> QED BY <2>5, <3>1
    <2>7. Piece(m, FALSE) \in Pieces /\ Piece(l, TRUE) \in Pieces
      BY <2>6, PieceIs
    <2> QED BY <2>1, <2>2, <2>3, <2>4, <2>5, <2>7 DEF Texts
  <1>2. CASE RotateLog
    <2>1. PICK l : l = file.next.line + 1
      OBVIOUS
    <2>2. /\ file' = [there |-> FALSE, body |-> <<>>, next |-> Piece(l, FALSE), gen |-> file.gen + 1]
          /\ UNCHANGED <<lf, poll>>
      BY <1>2, <2>1 DEF RotateLog
    <2>3. l \in Nat \ {0}
      <3>1. file.next.line \in Nat
        BY PieceOf DEF Texts
      <3> QED BY <2>1, <3>1
    <2>4. Piece(l, FALSE) \in Pieces
      BY <2>3, PieceIs
    <2>5. DOMAIN file' = {"there", "body", "next", "gen"} /\ file'.body = <<>> /\ file'.next = Piece(l, FALSE)
      BY <2>2
    <2>6. file'.body \in Seq(Pieces)
      <3>1. <<>> \in Seq(Pieces)
        OBVIOUS
      <3> QED BY <2>5, <3>1, Zenon
    <2> QED BY <2>2, <2>4, <2>5, <2>6 DEF Texts
  <1>3. CASE BridgeLog
    BY <1>3, TextsStay DEF BridgeLog
  <1>4. CASE OpenLog
    <2>1. file' = [file EXCEPT !.there = TRUE] /\ UNCHANGED <<lf, poll>>
      BY <1>4 DEF OpenLog
    <2>2. DOMAIN file' = DOMAIN file /\ file'.body = file.body /\ file'.next = file.next
      BY <2>1 DEF Texts
    <2> QED BY <2>1, <2>2 DEF Texts
  <1>5. ASSUME NEW k \in Pollers, PollReads(k) PROVE Texts'
    <2>1. UNCHANGED <<file, lf>> /\ poll'[k].got = ReadLogs(lf.offset) /\ \A j \in Pollers : j # k => poll'[j] = poll[j]
      BY <1>5, PollMoves DEF PollReads
    <2>2. poll'[k].got.data \in Seq(Pieces) /\ poll'[k].got.off \in Nat
      BY <2>1, ReadTexts
    <2> QED BY <2>1, <2>2 DEF Texts
  <1>6. ASSUME NEW k \in Pollers, PollFails(k) \/ PollEnds(k) PROVE Texts'
    BY <1>6, PollGot, TextsStay DEF PollFails, PollEnds
  <1>7. ASSUME NEW k \in Pollers, PollApply(k) PROVE Texts'
    <2>1. PICK t : t = TextOf(poll[k], lf)
      OBVIOUS
    <2>2. file' = file /\ lf' = [offset |-> poll[k].got.off, rest |-> Rest(t), gen |-> poll[k].got.gen]
      BY <1>7, <2>1 DEF PollApply, TextOf
    <2>3. t \in Seq(Pieces)
      BY <2>1, TextIs
    <2>4. lf'.rest \in Seq(Pieces) /\ lf'.offset \in Nat
      BY <2>2, <2>3, RestTexts DEF Texts
    <2>5. \A j \in Pollers : poll'[j].got.data \in Seq(Pieces) /\ poll'[j].got.off \in Nat
      <3>1. NoPoll.got.data \in Seq(Pieces) /\ NoPoll.got.off \in Nat
        <4>1. <<>> \in Seq(Pieces)
          OBVIOUS
        <4> QED BY <4>1 DEF NoPoll
      <3>2. poll'[k].got = NoPoll.got /\ \A j \in Pollers : j # k => poll'[j] = poll[j]
        BY <1>7, PollGot
      <3>3. \A j \in Pollers : poll[j].got.data \in Seq(Pieces) /\ poll[j].got.off \in Nat
        BY DEF Texts
      <3> QED BY <3>1, <3>2, <3>3
    <2> QED BY <2>2, <2>4, <2>5 DEF Texts
  <1> QED BY <1>1, <1>2, <1>3, <1>4, <1>5, <1>6, <1>7 DEF LogWorld, LogMoves

LEMMA HandlesTexts == ASSUME Texts, Lone, Tabs, LogHandles PROVE Texts'
  <1>1. PICK i \in DOMAIN calls :
          LogsStart(i) \/ LogsStartPoller(i) \/ LogsTail(i) \/ LogsStop(i) \/ LogsStopPoller(i)
    BY DEF LogHandles
  <1>2. UNCHANGED <<file, lf>>
    BY <1>1 DEF LogsStart, LogsStartPoller, LogsTail, LogsStop, LogsStopPoller
  <1>3. CASE poll' = poll
    BY <1>2, <1>3, TextsStay
  <1>4. CASE LogsStartPoller(i) /\ cancel = 0
    <2>1. PICK k \in Pollers : poll' = [poll EXCEPT ![k] = [NoPoll EXCEPT !.at = "tick", !.live = TRUE]]
      BY <1>4 DEF LogsStartPoller, StartPoller
    <2> DEFINE p == [NoPoll EXCEPT !.at = "tick", !.live = TRUE]
    <2>2. p.got = NoPoll.got /\ poll' = [poll EXCEPT ![k] = p]
      BY <2>1 DEF NoPoll
    <2> HIDE DEF p
    <2>3. poll'[k] = p /\ \A j \in Pollers : j # k => poll'[j] = poll[j]
      BY <2>2 DEF Lone
    <2> QED BY <1>2, <2>2, <2>3, TextsStay
  <1>5. CASE LogsStopPoller(i) /\ cancel # 0
    <2>1. poll' = [poll EXCEPT ![cancel].live = FALSE] /\ cancel \in Pollers
      <3>1. cancel \in Pollers
        BY <1>5 DEF Tabs, Held
      <3> QED BY <1>5, <3>1, Zenon DEF LogsStopPoller, StopPoller
    <2> DEFINE p == [poll[cancel] EXCEPT !.live = FALSE]
    <2>2. p.got = poll[cancel].got /\ poll' = [poll EXCEPT ![cancel] = p]
      BY <2>1 DEF Lone, IsPoll
    <2> HIDE DEF p
    <2>3. poll'[cancel] = p /\ \A j \in Pollers : j # cancel => poll'[j] = poll[j]
      BY <2>1, <2>2 DEF Lone
    <2> QED BY <1>2, <2>2, <2>3, TextsStay
  <1>6. CASE LogsStartPoller(i)
    BY <1>3, <1>4, <1>6 DEF LogsStartPoller, StartPoller
  <1>7. CASE LogsStopPoller(i)
    BY <1>3, <1>5, <1>7 DEF LogsStopPoller, StopPoller
  <1> QED BY <1>1, <1>3, <1>6, <1>7 DEF LogsStart, LogsTail, LogsStop

LEMMA TextsInit == ASSUME Init PROVE Texts
  <1>1. /\ file = [there |-> TRUE, body |-> <<>>, next |-> Piece(1, FALSE), gen |-> 0]
        /\ lf = [offset |-> 0, rest |-> <<>>, gen |-> 0] /\ poll = [k \in Pollers |-> NoPoll]
    BY DEF Init, LogInit
  <1>2. \A k \in Pollers : poll[k].got.data = <<>> /\ poll[k].got.off = 0
    BY <1>1 DEF NoPoll
  <1>3. <<>> \in Seq(Pieces)
    OBVIOUS
  <1>4. PICK l : l = 1
    OBVIOUS
  <1>5. Piece(l, FALSE) \in Pieces
    <2>1. l \in Nat \ {0}
      BY <1>4
    <2> QED BY <2>1, PieceIs
  <1>6. DOMAIN file = {"there", "body", "next", "gen"} /\ file.body = <<>> /\ file.next = Piece(l, FALSE)
        /\ lf.rest = <<>> /\ lf.offset = 0
    BY <1>1, <1>4
  <1>7. file.body \in Seq(Pieces) /\ lf.rest \in Seq(Pieces) /\ lf.offset \in Nat
    BY <1>3, <1>6
  <1>8. \A k \in Pollers : poll[k].got.data \in Seq(Pieces)
    BY <1>2, <1>3, Zenon
  <1>9. \A k \in Pollers : poll[k].got.off \in Nat
    BY <1>2
  <1> QED BY <1>5, <1>6, <1>7, <1>8, <1>9 DEF Texts

LEMMA TextsStep == ASSUME Texts, Lone, Tabs, [Next]_vars PROVE Texts'
  <1>1. CASE UNCHANGED <<file, lf, poll>>
    BY <1>1, TextsStay
  <1>2. CASE Output \/ Handles \/ ChainMoves \/ Renders \/ Discard \/ UserSync \/ DriverTick \/ WorkerMoves
    BY <1>1, <1>2 DEF Output, Handles, ChainMoves, Renders, Discard, UserSync, DriverTick, WorkerMoves, logv
  <1>3. CASE Quit \/ ChainWorld \/ User \/ CloseWindow \/ OpenWindow \/ TimerTick \/ WorkerPanics \/ UserSubs
    BY <1>1, <1>3 DEF Quit, ChainWorld, User, CloseWindow, OpenWindow, TimerTick, WorkerPanics, UserSubs, logv
  <1>4. CASE LogPublishes \/ LogReceives \/ LogUser
    BY <1>1, <1>4 DEF LogPublishes, PublishLine, LogReceives, LogUser, OpenTab, CloseTab
  <1>5. CASE LogHandles
    BY <1>5, HandlesTexts
  <1>6. CASE LogWorld \/ LogMoves
    BY <1>6, PollTexts
  <1>7. CASE UNCHANGED vars
    BY <1>1, <1>7 DEF vars, logv
  <1> QED BY <1>2, <1>3, <1>4, <1>5, <1>6, <1>7 DEF Next, System

(***************************************************************************)
(* The latest entries of the ring: numbered without a gap, and what Start  *)
(* hands back.                                                             *)
(***************************************************************************)
\* c keeps the last TailLimit entries of r.
KeepsTail(r, c) ==
  \A i \in 0..(TailLimit - 1) : /\ i < Len(c) <=> i < Len(r)
                                /\ i < Len(r) => c[Len(c) - i] = r[Len(r) - i]

LEMMA CappedTail == ASSUME NEW X, NEW r \in Seq(X) PROVE KeepsTail(r, Capped(r))
  <1> DEFINE later(n) == {m \in (n + 1)..Len(r) : Source(r[m]) = Source(r[n])}
             S == {n \in DOMAIN r : Cardinality(later(n)) < Cap}
  <1>1. Capped(r) = At(r, S) /\ S \in SUBSET (DOMAIN r)
    BY DEF Capped
  <1>2. PICK N, T : N = Len(r) /\ T = TailLimit
    OBVIOUS
  <1>3. N \in Nat /\ DOMAIN r = 1..N /\ T \in Nat /\ T > 0 /\ Cap \in Nat /\ T <= Cap
    BY <1>2, LogAssumption
  <1>4. ASSUME NEW n \in 1..N, N - n < T PROVE n \in S
    <2>1. later(n) \subseteq (n + 1)..N
      BY <1>2
    <2>2. IsFiniteSet((n + 1)..N) /\ Cardinality((n + 1)..N) = N - n
      <3>1. PICK a : a = n + 1
        OBVIOUS
      <3>2. a \in Int /\ N \in Int /\ (a <= N \/ a = N + 1)
        BY <1>3, <3>1
      <3>3. IsFiniteSet(a..N) /\ Cardinality(a..N) = IF a > N THEN 0 ELSE N - a + 1
        BY <3>2, FS_Interval
      <3>4. (IF a > N THEN 0 ELSE N - a + 1) = N - n
        BY <1>3, <3>1, <3>2
      <3> QED BY <3>1, <3>3, <3>4
    <2>3. Cardinality(later(n)) \in Nat /\ Cardinality(later(n)) <= N - n
      <3>1. PICK L : L = later(n)
        OBVIOUS
      <3>2. PICK I : I = (n + 1)..N
        OBVIOUS
      <3>3. IsFiniteSet(I) /\ Cardinality(I) = N - n /\ L \in SUBSET I
        BY <2>1, <2>2, <3>1, <3>2
      <3>4. IsFiniteSet(L) /\ Cardinality(L) <= Cardinality(I)
        BY <3>3, FS_Subset
      <3>5. Cardinality(L) \in Nat
        BY <3>4, FS_CardinalityType
      <3> QED BY <3>1, <3>3, <3>4, <3>5
    <2> HIDE DEF later
    <2> QED BY <1>3, <1>4, <2>3
  <1> HIDE DEF S
  <1>5. /\ Len(At(r, S)) = Cardinality(S) /\ Cardinality(S) \in Nat /\ Cardinality(S) <= N
        /\ \A j \in S : Count(S, j) \in 1..Cardinality(S) /\ At(r, S)[Count(S, j)] = r[j]
    BY <1>1, <1>2, AtIs
  <1>6. /\ Count(S, N) = Cardinality(S) /\ \A k \in 0..N : Count(S, k) \in Nat
        /\ \A k \in 0..(N - 1) : Count(S, k + 1) = Count(S, k) + IF k + 1 \in S THEN 1 ELSE 0
    <2>1. S \in SUBSET (1..N)
      BY <1>1, <1>3
    <2> QED BY SMTT(40), <1>3, <2>1, CountIs
  <1>7. PICK C : C = Cardinality(S)
    OBVIOUS
  <1>8. PICK M : M = (IF N < T THEN N ELSE T)
    OBVIOUS
  <1>9. M \in Nat /\ M <= N /\ M <= T
    BY <1>3, <1>8
  <1> DEFINE D == {i \in 0..M : Count(S, N - i) = C - i}
  <1>10. 0 \in D
    <2>1. N - 0 = N /\ C - 0 = C /\ 0 \in 0..M
      BY <1>3, <1>5, <1>7, <1>9
    <2> QED BY <1>6, <1>7, <2>1
  <1>11. ASSUME NEW i \in 0..(M - 1), i \in D PROVE i + 1 \in D
    <2>1. PICK k : k = N - i - 1
      OBVIOUS
    <2>2. k \in 0..(N - 1) /\ k + 1 \in 1..N /\ N - (k + 1) < T /\ k + 1 = N - i /\ N - (i + 1) = k /\ i + 1 \in 0..M
      BY <1>3, <1>9, <2>1
    <2>3. k + 1 \in S
      BY <1>4, <2>2
    <2>4. Count(S, k + 1) = Count(S, k) + 1 /\ Count(S, k) \in Nat
      <3>1. Count(S, k + 1) = Count(S, k) + IF k + 1 \in S THEN 1 ELSE 0
        BY <1>6, <2>2
      <3>2. k \in 0..N
        BY <1>3, <2>2
      <3> QED BY <1>6, <2>3, <3>1, <3>2
    <2>5. Count(S, k + 1) = C - i
      BY <1>11, <2>2
    <2>6. Count(S, k) = C - (i + 1)
      BY <1>5, <1>7, <2>4, <2>5
    <2> QED BY <2>2, <2>6
  <1>12. \A i \in 0..M : Count(S, N - i) = C - i
    <2> HIDE DEF D
    <2>1. \A i \in 0..M : i \in D
      BY <1>9, <1>10, <1>11, Climb
    <2> QED BY <2>1 DEF D
  <1>13. ASSUME NEW i \in 0..(T - 1)
         PROVE  (i < C <=> i < N) /\ (i < N => At(r, S)[C - i] = r[N - i])
    <2>1. CASE i < N
      <3>1. i \in 0..M /\ N - i \in 1..N /\ N - (N - i) < T
        BY <1>3, <1>8, <2>1
      <3>2. N - i \in S /\ Count(S, N - i) = C - i
        BY <1>4, <1>12, <3>1
      <3>3. C - i \in 1..C /\ At(r, S)[C - i] = r[N - i]
        BY <1>5, <1>7, <3>2
      <3>4. i < C
        BY <1>5, <1>7, <3>3
      <3> QED BY <2>1, <3>3, <3>4
    <2>2. CASE ~(i < N)
      BY <1>3, <1>5, <1>7, <2>2
    <2> QED BY <2>1, <2>2
  <1> QED BY <1>1, <1>2, <1>5, <1>7, <1>13, Zenon DEF KeepsTail

\* The newest entries of r are numbered to seq without a gap, and there is none else.
Recent(r, seq) ==
  \A i \in 0..(TailLimit - 1) : (i < Len(r) <=> i < seq) /\ (i < Len(r) => r[Len(r) - i].seq = seq - i)

LEMMA WindowLonger ==
  ASSUME NEW X, NEW r \in Seq(X), NEW s \in Nat, Recent(r, s), NEW ls, Len(ls) \in Nat
  PROVE  /\ Recent(Capped(Longer(r, s, ls)), s + Len(ls))
         /\ \E Y : Capped(Longer(r, s, ls)) \in Seq(Y)
  <1>1. PICK u, m, k, q : u = Longer(r, s, ls) /\ m = Len(ls) /\ k = Len(r) /\ q = Capped(u)
    OBVIOUS
  <1>2. /\ m \in Nat /\ k \in Nat /\ Len(u) = k + m /\ \A i \in 1..k : u[i] = r[i]
        /\ \A i \in 1..m : u[k + i] = [seq |-> s + i, line |-> ls[i]]
    <2>1. /\ Len(Longer(r, s, ls)) = Len(r) + Len(ls) /\ Len(r) \in Nat
          /\ \A i \in 1..Len(r) : Longer(r, s, ls)[i] = r[i]
          /\ \A i \in 1..Len(ls) : Longer(r, s, ls)[Len(r) + i] = [seq |-> s + i, line |-> ls[i]]
      BY LongerIs
    <2> QED BY <1>1, <2>1
  <1>3. PICK Y : u \in Seq(Y)
    BY <1>1, LongerIs
  <1>4. KeepsTail(u, q) /\ q \in Seq(Y)
    BY <1>1, <1>3, CappedTail, CappedIs
  <1>5. TailLimit \in Nat
    BY LogAssumption
  <1>6. PICK T : T = TailLimit
    OBVIOUS
  <1>7. ASSUME NEW i \in 0..(T - 1), i < k + m PROVE u[k + m - i].seq = s + m - i /\ i < s + m
    <2>1. CASE i < m
      <3>1. m - i \in 1..m /\ k + m - i = k + (m - i) /\ s + (m - i) = s + m - i
        BY <1>2, <1>5, <1>6, <2>1
      <3>2. u[k + (m - i)] = [seq |-> s + (m - i), line |-> ls[m - i]]
        BY <1>2, <3>1
      <3> QED BY <1>2, <1>5, <1>6, <2>1, <3>1, <3>2
    <2>2. CASE ~(i < m)
      <3>1. PICK j : j = i - m
        OBVIOUS
      <3>2. j \in 0..(T - 1) /\ j < k /\ k + m - i = k - j /\ s + m - i = s - j /\ k - j \in 1..k
        BY <1>2, <1>5, <1>6, <1>7, <2>2, <3>1
      <3>3. r[k - j].seq = s - j /\ j < s
        BY <1>1, <1>6, <3>2 DEF Recent
      <3>4. u[k - j] = r[k - j]
        BY <1>2, <3>2
      <3> QED BY <1>2, <1>5, <1>6, <2>2, <3>1, <3>2, <3>3, <3>4
    <2> QED BY <2>1, <2>2
  <1>8. ASSUME NEW i \in 0..(T - 1), i < s + m PROVE i < k + m
    <2>1. CASE i < m
      BY <1>2, <1>5, <1>6, <2>1
    <2>2. CASE ~(i < m)
      <3>1. PICK j : j = i - m
        OBVIOUS
      <3>2. j \in 0..(T - 1) /\ j < s
        BY <1>2, <1>5, <1>6, <1>8, <2>2, <3>1
      <3>3. j < k
        BY <1>1, <1>6, <3>2 DEF Recent
      <3> QED BY <1>2, <1>5, <1>6, <3>1, <3>3
    <2> QED BY <2>1, <2>2
  <1>9. ASSUME NEW i \in 0..(T - 1)
        PROVE  (i < Len(q) <=> i < s + m) /\ (i < Len(q) => q[Len(q) - i].seq = s + m - i)
    <2>1. (i < Len(q) <=> i < k + m) /\ (i < k + m => q[Len(q) - i] = u[k + m - i])
      BY <1>2, <1>4, <1>6 DEF KeepsTail
    <2> QED BY <1>7, <1>8, <2>1
  <1>10. Recent(q, s + m)
    <2>1. PICK w : w = s + m
      OBVIOUS
    <2>2. \A i \in 0..(TailLimit - 1) : (i < Len(q) <=> i < w) /\ (i < Len(q) => q[Len(q) - i].seq = w - i)
      <3> SUFFICES ASSUME NEW i \in 0..(TailLimit - 1)
                   PROVE  (i < Len(q) <=> i < w) /\ (i < Len(q) => q[Len(q) - i].seq = w - i)
        OBVIOUS
      <3>1. i \in 0..(T - 1)
        BY <1>6
      <3>2. (i < Len(q) <=> i < s + m) /\ (i < Len(q) => q[Len(q) - i].seq = s + m - i)
        BY <1>9, <3>1
      <3>3. s + m - i = w - i
        BY <1>2, <1>5, <2>1
      <3> QED BY <2>1, <3>2, <3>3
    <2> QED BY <2>1, <2>2 DEF Recent
  <1> QED BY <1>1, <1>4, <1>10

\* What Tail returns.
Latest(r) == Range(Lastly(r, TailLimit))

LEMMA LastlyIs ==
  ASSUME NEW X, NEW s \in Seq(X), NEW n \in Nat \ {0}
  PROVE  \E a \in 1..(Len(s) + 1) :
           /\ Lastly(s, n) = SubSeq(s, a, Len(s)) /\ Lastly(s, n) \in Seq(X)
           /\ Len(s) \in Nat /\ a = (IF Len(s) > n THEN Len(s) - n + 1 ELSE 1)
           /\ Len(Lastly(s, n)) = Len(s) + 1 - a
           /\ \A i \in 1..(Len(s) + 1 - a) : Lastly(s, n)[i] = s[a + i - 1] /\ a + i - 1 \in a..Len(s)
  <1>1. PICK N, a : N = Len(s) /\ a = (IF N > n THEN N - n + 1 ELSE 1)
    OBVIOUS
  <1>2. N \in Nat /\ a \in 1..(N + 1) /\ N \in (a - 1)..N
    BY <1>1
  <1>3. Lastly(s, n) = SubSeq(s, a, N)
    BY <1>1 DEF Lastly
  <1>4. /\ SubSeq(s, a, N) \in Seq(X) /\ Len(SubSeq(s, a, N)) = N + 1 - a
        /\ \A i \in 1..(N + 1 - a) : SubSeq(s, a, N)[i] = s[a + i - 1] /\ a + i - 1 \in a..N
    <2>1. a \in 1..(Len(s) + 1) /\ N \in (a - 1)..Len(s)
      BY <1>1, <1>2
    <2> QED BY <2>1, PartIs
  <1> QED BY <1>1, <1>2, <1>3, <1>4

LEMMA LatestIs ==
  ASSUME NEW X, NEW r \in Seq(X)
  PROVE  \A e : e \in Latest(r) <=> \E i \in 0..(TailLimit - 1) : i < Len(r) /\ e = r[Len(r) - i]
  <1>1. PICK T, N, v : T = TailLimit /\ N = Len(r) /\ v = Lastly(r, T)
    OBVIOUS
  <1>2. T \in Nat \ {0} /\ N \in Nat
    BY <1>1, LogAssumption
  <1>3. PICK a \in 1..(N + 1) :
          /\ v \in Seq(X) /\ a = (IF N > T THEN N - T + 1 ELSE 1) /\ Len(v) = N + 1 - a
          /\ \A i \in 1..(N + 1 - a) : v[i] = r[a + i - 1] /\ a + i - 1 \in a..N
    <2>1. \E a \in 1..(Len(r) + 1) :
           /\ Lastly(r, T) = SubSeq(r, a, Len(r)) /\ Lastly(r, T) \in Seq(X)
           /\ Len(r) \in Nat /\ a = (IF Len(r) > T THEN Len(r) - T + 1 ELSE 1)
           /\ Len(Lastly(r, T)) = Len(r) + 1 - a
           /\ \A i \in 1..(Len(r) + 1 - a) : Lastly(r, T)[i] = r[a + i - 1] /\ a + i - 1 \in a..Len(r)
      BY <1>2, LastlyIs
    <2> QED BY <1>1, <2>1
  <1>4. Latest(r) = {v[i] : i \in 1..(N + 1 - a)}
    BY <1>1, <1>3 DEF Latest, Range
  <1>5. ASSUME NEW i \in 1..(N + 1 - a)
        PROVE  \E k \in 0..(T - 1) : k < N /\ v[i] = r[N - k]
    <2>1. PICK k : k = N + 1 - a - i
      OBVIOUS
    <2>2. k \in 0..(T - 1) /\ k < N /\ a + i - 1 = N - k
      BY <1>2, <1>3, <2>1
    <2> QED BY <1>3, <2>2
  <1>6. ASSUME NEW k \in 0..(T - 1), k < N PROVE r[N - k] \in Latest(r)
    <2>1. PICK i : i = N + 1 - a - k
      OBVIOUS
    <2>2. i \in 1..(N + 1 - a) /\ a + i - 1 = N - k
      BY <1>2, <1>3, <1>6, <2>1
    <2>3. v[i] = r[N - k]
      BY <1>3, <2>2
    <2> QED BY <1>4, <2>2, <2>3
  <1>7. \A e : e \in Latest(r) => \E k \in 0..(T - 1) : k < N /\ e = r[N - k]
    BY <1>4, <1>5
  <1>8. \A e : (\E k \in 0..(T - 1) : k < N /\ e = r[N - k]) => e \in Latest(r)
    BY <1>6
  <1> QED BY <1>1, <1>7, <1>8, Zenon

(***************************************************************************)
(* Entries with rising numbers, and what logStore's append makes of them.  *)
(***************************************************************************)
Row(s, n) ==
  /\ \E S : s \in Seq(S)
  /\ \A i \in 1..Len(s) : s[i].seq \in 1..n
  /\ \A i, j \in 1..Len(s) : i < j => s[i].seq < s[j].seq
\* The number of the last one.
Top(s) == IF s = <<>> THEN 0 ELSE s[Len(s)].seq

LEMMA RowIs ==
  ASSUME NEW n \in Nat, NEW s, Row(s, n)
  PROVE  /\ Len(s) \in Nat /\ DOMAIN s = 1..Len(s) /\ Range(s) = {s[i] : i \in 1..Len(s)}
         /\ s = <<>> <=> Len(s) = 0
         /\ \A i \in 1..Len(s) : s[i].seq \in Nat /\ 1 <= s[i].seq /\ s[i].seq <= n
  <1>1. PICK S : s \in Seq(S)
    BY DEF Row
  <1>2. \A i \in 1..Len(s) : s[i].seq \in 1..n
    BY DEF Row
  <1>3. Len(s) \in Nat /\ DOMAIN s = 1..Len(s) /\ (s = <<>> <=> Len(s) = 0)
    BY <1>1
  <1> QED BY <1>2, <1>3 DEF Range

LEMMA RowTop ==
  ASSUME NEW n \in Nat, NEW s, Row(s, n)
  PROVE  /\ Top(s) \in 0..n /\ (s = <<>> <=> Top(s) = 0)
         /\ \A i \in 1..Len(s) : s[i].seq <= Top(s)
         /\ \A e \in Range(s) : e.seq \in 1..n /\ e.seq <= Top(s)
  <1>1. /\ Len(s) \in Nat /\ Range(s) = {s[i] : i \in 1..Len(s)} /\ (s = <<>> <=> Len(s) = 0)
        /\ \A i \in 1..Len(s) : s[i].seq \in Nat /\ 1 <= s[i].seq /\ s[i].seq <= n
    BY RowIs
  <1>2. CASE s = <<>>
    BY <1>1, <1>2 DEF Top
  <1>3. CASE s # <<>>
    <2>1. PICK k : k = Len(s)
      OBVIOUS
    <2>2. k \in 1..Len(s) /\ Top(s) = s[k].seq
      BY <1>1, <1>3, <2>1 DEF Top
    <2>3. ASSUME NEW i \in 1..Len(s) PROVE s[i].seq <= s[k].seq
      <3>1. i = k \/ i < k
        BY <1>1, <2>1
      <3>2. i < k => s[i].seq < s[k].seq
        BY <2>2 DEF Row
      <3> QED BY <1>1, <2>2, <3>1, <3>2
    <2> QED BY <1>1, <1>3, <2>2, <2>3
  <1> QED BY <1>2, <1>3

LEMMA RowFar ==
  ASSUME NEW n \in Nat, NEW s, Row(s, n), NEW i \in 1..Len(s)
  PROVE  \A j \in 0..(Len(s) - i) : s[i + j].seq >= s[i].seq + j
  <1>1. PICK N : N = Len(s)
    OBVIOUS
  <1>2. /\ N \in Nat /\ i \in 1..N /\ \A k \in 1..N : s[k].seq \in Nat
        /\ \A k \in 1..N, m \in 1..N : k < m => s[k].seq < s[m].seq
    BY <1>1, RowIs DEF Row
  <1> DEFINE T == {j \in 0..(N - i) : s[i + j].seq >= s[i].seq + j}
  <1>3. 0 \in T
    <2>1. i + 0 = i /\ 0 \in 0..(N - i)
      BY <1>2
    <2> QED BY <1>2, <2>1
  <1>4. ASSUME NEW j \in 0..(N - i - 1), j \in T PROVE j + 1 \in T
    <2>1. PICK k : k = i + j
      OBVIOUS
    <2>2. k \in 1..N /\ k + 1 \in 1..N /\ i + (j + 1) = k + 1 /\ j + 1 \in 0..(N - i) /\ k < k + 1
      BY <1>2, <2>1
    <2>3. s[k].seq < s[k + 1].seq /\ s[k].seq \in Nat /\ s[k + 1].seq \in Nat /\ s[i].seq \in Nat
      BY <1>2, <2>2
    <2>4. s[k].seq >= s[i].seq + j
      BY <1>4, <2>1
    <2>5. s[k + 1].seq >= s[i].seq + (j + 1)
      <3>1. PICK p, q, r : p = s[i].seq /\ q = s[k].seq /\ r = s[k + 1].seq
        OBVIOUS
      <3>2. p \in Nat /\ q \in Nat /\ r \in Nat /\ q < r /\ q >= p + j
        BY <2>3, <2>4, <3>1
      <3>3. r >= p + (j + 1)
        BY <3>2
      <3> QED BY <3>1, <3>3
    <2> QED BY <2>2, <2>5
  <1>5. N - i \in Nat /\ (N - i) - 1 = N - i - 1
    BY <1>2
  <1> HIDE DEF T
  <1>6. \A j \in 0..(N - i) : j \in T
    BY <1>3, <1>4, <1>5, Climb
  <1> QED BY <1>1, <1>6 DEF T

LEMMA RowPart ==
  ASSUME NEW n \in Nat, NEW s, Row(s, n), NEW a \in 1..(Len(s) + 1)
  PROVE  Row(SubSeq(s, a, Len(s)), n)
  <1>1. PICK S : s \in Seq(S)
    BY DEF Row
  <1>2. PICK N, p : N = Len(s) /\ p = SubSeq(s, a, N)
    OBVIOUS
  <1>3. N \in Nat /\ N \in (a - 1)..Len(s)
    BY <1>1, <1>2
  <1>4. p \in Seq(S) /\ Len(p) = N + 1 - a /\ \A i \in 1..(N + 1 - a) : p[i] = s[a + i - 1] /\ a + i - 1 \in a..N
    BY <1>1, <1>2, <1>3, PartIs
  <1>5. \A i \in 1..N : s[i].seq \in 1..n
    BY <1>2 DEF Row
  <1>6. \A i, j \in 1..N : i < j => s[i].seq < s[j].seq
    BY <1>2 DEF Row
  <1>7. \A i \in 1..Len(p) : p[i] = s[a + i - 1] /\ a + i - 1 \in 1..N
    BY <1>3, <1>4
  <1>8. ASSUME NEW i \in 1..Len(p), NEW j \in 1..Len(p), i < j PROVE p[i].seq < p[j].seq
    <2>1. PICK x, y : x = a + i - 1 /\ y = a + j - 1
      OBVIOUS
    <2>2. x \in 1..N /\ y \in 1..N /\ p[i] = s[x] /\ p[j] = s[y]
      BY <1>7, <2>1
    <2>3. x < y
      BY <1>3, <1>8, <2>1
    <2> QED BY <1>6, <2>2, <2>3
  <1>9. \A i \in 1..Len(p) : p[i].seq \in 1..n
    BY <1>5, <1>7
  <1> QED BY <1>2, <1>4, <1>8, <1>9 DEF Row

LEMMA RowGrows == ASSUME NEW n \in Nat, NEW m \in Nat, n <= m, NEW s, Row(s, n) PROVE Row(s, m)
  <1>1. \A i \in 1..Len(s) : s[i].seq \in Nat /\ 1 <= s[i].seq /\ s[i].seq <= n
    BY RowIs
  <1>2. \A i \in 1..Len(s) : s[i].seq \in 1..m
    BY <1>1
  <1> QED BY <1>2 DEF Row

LEMMA RowTight == ASSUME NEW n \in Nat, NEW s, Row(s, n) PROVE Row(s, Top(s)) /\ Top(s) \in Nat
  <1>1. Top(s) \in Nat /\ \A i \in 1..Len(s) : s[i].seq <= Top(s) /\ s[i].seq \in Nat /\ 1 <= s[i].seq
    BY RowTop, RowIs
  <1>2. \A i \in 1..Len(s) : s[i].seq \in 1..Top(s)
    BY <1>1
  <1> QED BY <1>1, <1>2 DEF Row

LEMMA RowJoin ==
  ASSUME NEW n \in Nat, NEW m \in Nat, n <= m, NEW s, Row(s, n), NEW t, Row(t, m),
         \A i \in 1..Len(t) : t[i].seq > n
  PROVE  Row(s \o t, m) /\ Range(s \o t) = Range(s) \cup Range(t)
  <1>1. PICK S : s \in Seq(S)
    BY DEF Row
  <1>2. PICK T : t \in Seq(T)
    BY DEF Row
  <1>3. PICK X : X = S \cup T
    OBVIOUS
  <1>4. s \in Seq(X) /\ t \in Seq(X)
    BY <1>1, <1>2, <1>3
  <1>5. PICK u, k, l : u = s \o t /\ k = Len(s) /\ l = Len(t)
    OBVIOUS
  <1>6. /\ u \in Seq(X) /\ k \in Nat /\ l \in Nat /\ Len(u) = k + l /\ \A i \in 1..k : u[i] = s[i]
        /\ \A i \in 1..l : u[k + i] = t[i]
    <2>1. u \in Seq(X) /\ Joins(s, t, u)
      BY <1>4, <1>5, ConcatIs
    <2> QED BY <1>5, <2>1 DEF Joins
  <1>7. \A i \in 1..k : s[i].seq \in Nat /\ 1 <= s[i].seq /\ s[i].seq <= n
    BY <1>5, RowIs
  <1>8. \A i \in 1..l : t[i].seq \in Nat /\ 1 <= t[i].seq /\ t[i].seq <= m
    BY <1>5, RowIs
  <1>9. \A i, j \in 1..k : i < j => s[i].seq < s[j].seq
    BY <1>5 DEF Row
  <1>10. \A i, j \in 1..l : i < j => t[i].seq < t[j].seq
    BY <1>5 DEF Row
  <1>11. \A i \in 1..(k + l) : i \in 1..k \/ (i - k \in 1..l /\ u[i] = t[i - k])
    <2> SUFFICES ASSUME NEW i \in 1..(k + l), i \notin 1..k PROVE i - k \in 1..l /\ u[i] = t[i - k]
      OBVIOUS
    <2>1. PICK j : j = i - k
      OBVIOUS
    <2>2. j \in 1..l /\ k + j = i
      BY <1>6, <2>1
    <2> QED BY <1>6, <2>1, <2>2
  <1>12. ASSUME NEW i \in 1..(k + l) PROVE u[i].seq \in 1..m
    BY <1>6, <1>7, <1>8, <1>11
  <1>13. ASSUME NEW i \in 1..(k + l), NEW j \in 1..(k + l), i < j PROVE u[i].seq < u[j].seq
    <2>1. CASE i \in 1..k /\ j \in 1..k
      BY <1>6, <1>9, <1>13, <2>1
    <2>2. CASE i \in 1..k /\ j \notin 1..k
      <3>1. PICK y : y = j - k
        OBVIOUS
      <3>2. y \in 1..l /\ u[j] = t[y] /\ u[i] = s[i]
        BY <1>6, <1>11, <2>2, <3>1
      <3>3. t[y].seq > n /\ t[y].seq \in Nat
        BY <1>5, <1>8, <3>2
      <3> QED BY <1>7, <2>2, <3>2, <3>3
    <2>3. CASE i \notin 1..k
      <3>1. PICK x, y : x = i - k /\ y = j - k
        OBVIOUS
      <3>2. j \notin 1..k /\ x < y
        BY <1>6, <1>13, <2>3, <3>1
      <3>3. x \in 1..l /\ y \in 1..l /\ u[i] = t[x] /\ u[j] = t[y]
        BY <1>11, <2>3, <3>1, <3>2
      <3> QED BY <1>10, <3>2, <3>3
    <2> QED BY <2>1, <2>2, <2>3
  <1>14. Row(u, m)
    BY <1>6, <1>12, <1>13 DEF Row
  <1>15. Range(u) = Range(s) \cup Range(t)
    <2>1. Range(u) = {u[i] : i \in 1..(k + l)} /\ Range(s) = {s[i] : i \in 1..k} /\ Range(t) = {t[i] : i \in 1..l}
      <3>1. DOMAIN u = 1..(k + l) /\ DOMAIN s = 1..k /\ DOMAIN t = 1..l
        BY <1>4, <1>5, <1>6
      <3> QED BY <3>1, Zenon DEF Range
    <2>2. \A i \in 1..k : i \in 1..(k + l)
      BY <1>6
    <2>3. \A i \in 1..l : k + i \in 1..(k + l)
      BY <1>6
    <2>4. \A e \in Range(u) : e \in Range(s) \cup Range(t)
      BY <1>6, <1>11, <2>1
    <2>5. \A e \in Range(s) \cup Range(t) : e \in Range(u)
      BY <1>6, <2>1, <2>2, <2>3
    <2> QED BY <2>4, <2>5
  <1> QED BY <1>5, <1>14, <1>15

LEMMA RowLastly ==
  ASSUME NEW n \in Nat, NEW s, Row(s, n), NEW k \in Nat \ {0}
  PROVE  /\ Row(Lastly(s, k), n)
         /\ \A e \in Range(s) : e.seq + k > n => e \in Range(Lastly(s, k))
  <1>1. PICK S : s \in Seq(S)
    BY DEF Row
  <1>2. PICK a \in 1..(Len(s) + 1) :
           /\ Lastly(s, k) = SubSeq(s, a, Len(s)) /\ Lastly(s, k) \in Seq(S)
           /\ Len(s) \in Nat /\ a = (IF Len(s) > k THEN Len(s) - k + 1 ELSE 1)
           /\ Len(Lastly(s, k)) = Len(s) + 1 - a
           /\ \A i \in 1..(Len(s) + 1 - a) : Lastly(s, k)[i] = s[a + i - 1] /\ a + i - 1 \in a..Len(s)
    BY <1>1, LastlyIs
  <1>3. Row(Lastly(s, k), n)
    BY <1>2, RowPart
  <1>4. PICK N, v : N = Len(s) /\ v = Lastly(s, k)
    OBVIOUS
  <1>5. ASSUME NEW i \in 1..N, s[i].seq + k > n PROVE s[i] \in Range(v)
    <2>1. \A j \in 0..(N - i) : s[i + j].seq >= s[i].seq + j
      BY <1>4, RowFar
    <2>2. PICK j : j = N - i
      OBVIOUS
    <2>3. j \in 0..(N - i) /\ i + j = N /\ N \in 1..N
      <3>1. N \in Nat
        BY <1>2, <1>4
      <3> QED BY <2>2, <3>1
    <2>4. s[N].seq >= s[i].seq + j
      BY <2>1, <2>3
    <2>5. s[N].seq \in Nat /\ s[N].seq <= n /\ s[i].seq \in Nat
      BY <1>4, <2>3, RowIs
    <2>6. j < k
      <3>1. PICK p, q : p = s[N].seq /\ q = s[i].seq
        OBVIOUS
      <3>2. p \in Nat /\ q \in Nat /\ p <= n /\ p >= q + j /\ q + k > n
        BY <1>5, <2>4, <2>5, <3>1
      <3>3. j \in Nat
        BY <2>3
      <3> QED BY <3>2, <3>3
    <2>7. PICK x : x = i - a + 1
      OBVIOUS
    <2>8. x \in 1..(N + 1 - a) /\ a + x - 1 = i
      <3>1. N \in Nat /\ a \in Nat /\ 1 <= a /\ a <= N + 1 /\ a = (IF N > k THEN N - k + 1 ELSE 1)
        BY <1>2, <1>4
      <3>2. i \in Nat /\ 1 <= i /\ i <= N /\ N - i < k
        BY <2>2, <2>6, <3>1
      <3>3. a <= i
        BY <3>1, <3>2
      <3>4. x \in Nat /\ 1 <= x /\ x <= N + 1 - a /\ a + x - 1 = i
        BY <2>7, <3>1, <3>2, <3>3
      <3> QED BY <3>1, <3>4
    <2>9. v[x] = s[i] /\ x \in 1..Len(v)
      BY <1>2, <1>4, <2>8
    <2>10. Range(v) = {v[y] : y \in 1..Len(v)}
      BY <1>3, <1>4, RowIs
    <2> QED BY <2>9, <2>10
  <1>6. Range(s) = {s[i] : i \in 1..N}
    BY <1>4, RowIs
  <1> QED BY <1>3, <1>4, <1>5, <1>6

LEMMA RowNewer ==
  ASSUME NEW n \in Nat, NEW s, Row(s, n), NEW l \in Nat
  PROVE  /\ Row(Newer(s, l), n)
         /\ \A i \in 1..Len(Newer(s, l)) : Newer(s, l)[i].seq > l
         /\ Range(Newer(s, l)) = {e \in Range(s) : e.seq > l}
  <1>1. PICK S : s \in Seq(S)
    BY DEF Row
  <1>2. PICK I : I = {i \in DOMAIN s : s[i].seq > l}
    OBVIOUS
  <1>3. I \in SUBSET (DOMAIN s) /\ Newer(s, l) = At(s, I)
    BY <1>2 DEF Newer
  <1>4. PICK C, v : C = Cardinality(I) /\ v = At(s, I)
    OBVIOUS
  <1>5. /\ v \in Seq(S) /\ Len(v) = C /\ C \in Nat
        /\ \A k \in 1..C : Nth(I, k) \in I /\ v[k] = s[Nth(I, k)]
        /\ \A k, m \in 1..C : k < m => Nth(I, k) < Nth(I, m)
        /\ \A j \in I : Count(I, j) \in 1..C /\ v[Count(I, j)] = s[j]
    <2>1. /\ At(s, I) \in Seq(S) /\ Len(At(s, I)) = Cardinality(I) /\ Cardinality(I) \in Nat
          /\ \A k \in 1..Cardinality(I) : Nth(I, k) \in I /\ At(s, I)[k] = s[Nth(I, k)]
          /\ \A k, m \in 1..Cardinality(I) : k < m => Nth(I, k) < Nth(I, m)
          /\ \A j \in I : Count(I, j) \in 1..Cardinality(I) /\ At(s, I)[Count(I, j)] = s[j]
      BY <1>1, <1>3, AtIs
    <2> QED BY <1>4, <2>1
  <1>6. DOMAIN s = 1..Len(s) /\ Range(s) = {s[i] : i \in 1..Len(s)}
    BY RowIs
  <1>7. \A k \in 1..C : v[k].seq > l /\ v[k].seq \in 1..n
    BY <1>2, <1>5, <1>6 DEF Row
  <1>8. \A k, m \in 1..C : k < m => v[k].seq < v[m].seq
    <2> SUFFICES ASSUME NEW k \in 1..C, NEW m \in 1..C, k < m PROVE v[k].seq < v[m].seq
      OBVIOUS
    <2>1. PICK x, y : x = Nth(I, k) /\ y = Nth(I, m)
      OBVIOUS
    <2>2. x \in 1..Len(s) /\ y \in 1..Len(s) /\ v[k] = s[x] /\ v[m] = s[y] /\ x < y
      BY <1>2, <1>5, <1>6, <2>1
    <2> QED BY <2>2 DEF Row
  <1>9. Row(v, n)
    BY <1>5, <1>7, <1>8 DEF Row
  <1>10. Range(v) = {e \in Range(s) : e.seq > l}
    <2>1. Range(v) = {v[k] : k \in 1..C}
      <3>1. DOMAIN v = 1..C
        BY <1>5
      <3> QED BY <3>1, Zenon DEF Range
    <2>2. \A e \in Range(v) : e \in Range(s) /\ e.seq > l
      <3> SUFFICES ASSUME NEW e \in Range(v) PROVE e \in Range(s) /\ e.seq > l
        OBVIOUS
      <3>1. PICK k \in 1..C : e = v[k]
        BY <2>1
      <3>2. PICK i : i = Nth(I, k)
        OBVIOUS
      <3>3. i \in I /\ v[k] = s[i]
        BY <1>5, <3>2
      <3>4. i \in 1..Len(s)
        BY <1>2, <1>6, <3>3
      <3> QED BY <1>6, <1>7, <3>1, <3>3, <3>4
    <2>3. ASSUME NEW e \in Range(s), e.seq > l PROVE e \in Range(v)
      <3>1. PICK j \in 1..Len(s) : e = s[j]
        BY <1>6
      <3>2. j \in I
        BY <1>2, <1>6, <2>3, <3>1
      <3>3. PICK k : k = Count(I, j)
        OBVIOUS
      <3>4. k \in 1..C /\ v[k] = e
        BY <1>5, <3>1, <3>2, <3>3
      <3> QED BY <2>1, <3>4
    <2> QED BY <2>2, <2>3
  <1> QED BY <1>3, <1>4, <1>5, <1>7, <1>9, <1>10

\* u is the tab's store after list has come: its entries rise to its last number,
\* which is that of the store or of the list, and no late enough entry is missing.
Shows(l, list, u) ==
  /\ u.last = (IF Top(list) > l.last THEN Top(list) ELSE l.last) /\ Row(u.entries, u.last)
  /\ \A e \in Range(l.entries) : e.seq + Keep > u.last => e \in Range(u.entries)
  /\ \A e \in Range(list) : e.seq > l.last /\ e.seq + Keep > u.last => e \in Range(u.entries)
  /\ DOMAIN u = DOMAIN l /\ u.tab = l.tab /\ u.on = l.on

LEMMA ShowsShown ==
  ASSUME NEW l, DOMAIN l = {"tab", "entries", "last", "on"}, l.last \in Nat, Row(l.entries, l.last),
         NEW m \in Nat, NEW list, Row(list, m), l.last <= m
  PROVE  Shows(l, list, Shown(l, list))
  <1>1. PICK a, new, u : a = l.last /\ new = Newer(list, a) /\ u = Shown(l, list)
    OBVIOUS
  <1>2. /\ Row(new, m) /\ (\A i \in 1..Len(new) : new[i].seq > a) /\ a \in Nat
        /\ Range(new) = {e \in Range(list) : e.seq > a}
    BY <1>1, RowNewer
  <1>3. PICK b : b = (IF new = <<>> THEN a ELSE new[Len(new)].seq)
    OBVIOUS
  <1>4. u = [l EXCEPT !.entries = Lastly(@ \o new, Keep), !.last = b]
    BY <1>1, <1>3 DEF Shown
  <1>5. /\ DOMAIN u = DOMAIN l /\ u.tab = l.tab /\ u.on = l.on /\ u.last = b
        /\ u.entries = Lastly(l.entries \o new, Keep)
    BY <1>4
  <1>6. /\ Len(list) \in Nat /\ Range(list) = {list[i] : i \in 1..Len(list)} /\ (list = <<>> <=> Len(list) = 0)
        /\ Top(list) \in 0..m /\ (\A e \in Range(list) : e.seq <= Top(list) /\ e.seq \in 1..m)
    BY RowTop, RowIs
  <1>7. /\ Len(new) \in Nat /\ Range(new) = {new[i] : i \in 1..Len(new)} /\ (new = <<>> <=> Len(new) = 0)
        /\ Top(new) \in 0..m /\ (\A e \in Range(new) : e.seq <= Top(new))
    BY <1>2, RowTop, RowIs
  <1>8. b = (IF Top(list) > a THEN Top(list) ELSE a)
    <2>1. CASE Top(list) > a
      <3>1. list # <<>> /\ Top(list) = list[Len(list)].seq /\ Len(list) \in 1..Len(list)
        BY <1>2, <1>6, <2>1 DEF Top
      <3>2. list[Len(list)] \in Range(new)
        BY <1>2, <1>6, <2>1, <3>1
      <3>3. new # <<>>
        BY <1>7, <3>2
      <3>4. b = Top(new) /\ Len(new) \in 1..Len(new)
        BY <1>3, <1>7, <3>3 DEF Top
      <3>5. Top(list) <= Top(new)
        BY <1>7, <3>1, <3>2
      <3>6. new[Len(new)] \in Range(list)
        BY <1>2, <1>7, <3>4
      <3>7. Top(new) <= Top(list)
        BY <1>6, <3>3, <3>6 DEF Top
      <3> QED BY <1>6, <1>7, <2>1, <3>4, <3>5, <3>7
    <2>2. CASE ~(Top(list) > a)
      <3>1. \A e \in Range(list) : ~(e.seq > a)
        BY <1>2, <1>6, <2>2
      <3>2. new = <<>>
        BY <1>2, <1>7, <3>1
      <3> QED BY <1>3, <2>2, <3>2
    <2> QED BY <2>1, <2>2
  <1>9. b \in Nat /\ a <= b /\ b <= m
    BY <1>1, <1>2, <1>6, <1>8
  <1>10. Row(new, b)
    <2>1. CASE new = <<>>
      BY <1>2, <1>7, <2>1 DEF Row
    <2>2. CASE new # <<>>
      <3>1. b = Top(new)
        BY <1>3, <2>2 DEF Top
      <3> QED BY <1>2, <3>1, RowTight
    <2> QED BY <2>1, <2>2
  <1>11. Row(l.entries \o new, b) /\ Range(l.entries \o new) = Range(l.entries) \cup Range(new)
    BY <1>1, <1>2, <1>9, <1>10, RowJoin
  <1>12. Keep \in Nat \ {0}
    BY LogAssumption
  <1>13. Row(u.entries, b) /\ \A e \in Range(l.entries \o new) : e.seq + Keep > b => e \in Range(u.entries)
    BY <1>5, <1>9, <1>11, <1>12, RowLastly
  <1>14. \A e \in Range(l.entries) : e.seq + Keep > b => e \in Range(u.entries)
    BY <1>11, <1>13
  <1>15. \A e \in Range(list) : e.seq > a /\ e.seq + Keep > b => e \in Range(u.entries)
    BY <1>2, <1>11, <1>13
  <1> QED BY <1>1, <1>5, <1>8, <1>13, <1>14, <1>15 DEF Shows

(***************************************************************************)
(* The channel and the output as carriers of log lines.                    *)
(***************************************************************************)
IsList(s) == \E S : s \in Seq(S)
Line(x) == x.topic = "log:line"
Carried(s) == {s[i].entry : i \in {j \in DOMAIN s : Line(s[j])}}
Upward(s) == \A i, j \in DOMAIN s : i < j /\ Line(s[i]) /\ Line(s[j]) => s[i].entry.seq < s[j].entry.seq
Below(S, T) == \A e \in S, f \in T : e.seq < f.seq

\* t is s without its head; t is s with x behind it.
Takes(s, t) ==
  /\ IsList(t) /\ Len(s) \in Nat \ {0} /\ DOMAIN s = 1..Len(s) /\ Len(t) = Len(s) - 1 /\ DOMAIN t = 1..(Len(s) - 1)
  /\ Head(s) = s[1] /\ \A i \in 1..(Len(s) - 1) : t[i] = s[i + 1]
Puts(s, t, x) ==
  /\ IsList(t) /\ Len(s) \in Nat /\ DOMAIN s = 1..Len(s) /\ Len(t) = Len(s) + 1 /\ DOMAIN t = 1..(Len(s) + 1)
  /\ t[Len(s) + 1] = x /\ \A i \in 1..Len(s) : t[i] = s[i]

LEMMA TailTakes == ASSUME NEW s, IsList(s), s # <<>> PROVE Takes(s, Tail(s))
  <1>1. PICK S : s \in Seq(S)
    BY DEF IsList
  <1>2. /\ Len(s) \in Nat \ {0} /\ DOMAIN s = 1..Len(s) /\ Tail(s) \in Seq(S) /\ Len(Tail(s)) = Len(s) - 1
        /\ DOMAIN Tail(s) = 1..(Len(s) - 1) /\ Head(s) = s[1]
    BY <1>1
  <1>3. \A i \in 1..(Len(s) - 1) : Tail(s)[i] = s[i + 1]
    BY <1>1, <1>2
  <1>4. IsList(Tail(s))
    BY <1>2 DEF IsList
  <1> QED BY <1>2, <1>3, <1>4 DEF Takes

LEMMA AppendPuts == ASSUME NEW s, IsList(s), NEW x PROVE Puts(s, Append(s, x), x)
  <1>1. PICK S : s \in Seq(S)
    BY DEF IsList
  <1>2. PICK T : T = S \cup {x}
    OBVIOUS
  <1>3. s \in Seq(T) /\ x \in T
    BY <1>1, <1>2
  <1>4. /\ Append(s, x) \in Seq(T) /\ Len(s) \in Nat /\ DOMAIN s = 1..Len(s)
        /\ Len(Append(s, x)) = Len(s) + 1 /\ DOMAIN Append(s, x) = 1..(Len(s) + 1) /\ Append(s, x)[Len(s) + 1] = x
    BY <1>3
  <1>5. \A i \in 1..Len(s) : Append(s, x)[i] = s[i]
    BY <1>3, <1>4
  <1>6. IsList(Append(s, x))
    BY <1>4 DEF IsList
  <1> QED BY <1>4, <1>5, <1>6 DEF Puts

LEMMA CarriedIs == ASSUME NEW s, NEW e PROVE e \in Carried(s) <=> \E i \in DOMAIN s : Line(s[i]) /\ e = s[i].entry
  BY DEF Carried

LEMMA TakesCarried ==
  ASSUME NEW s, NEW t, Takes(s, t)
  PROVE  /\ Carried(t) \subseteq Carried(s)
         /\ Line(s[1]) => Carried(s) = Carried(t) \cup {s[1].entry}
         /\ ~Line(s[1]) => Carried(s) = Carried(t)
         /\ Upward(s) => Upward(t) /\ (Line(s[1]) => \A e \in Carried(t) : s[1].entry.seq < e.seq)
  <1>1. /\ Len(s) \in Nat \ {0} /\ DOMAIN s = 1..Len(s) /\ DOMAIN t = 1..(Len(s) - 1)
        /\ \A i \in 1..(Len(s) - 1) : t[i] = s[i + 1]
    BY DEF Takes
  <1>2. ASSUME NEW e \in Carried(t) PROVE \E i \in 2..Len(s) : Line(s[i]) /\ e = s[i].entry
    <2>1. PICK i \in DOMAIN t : Line(t[i]) /\ e = t[i].entry
      BY <1>2, CarriedIs
    <2>2. i + 1 \in 2..Len(s) /\ t[i] = s[i + 1]
      BY <1>1, <2>1
    <2> QED BY <2>1, <2>2
  <1>3. Carried(t) \subseteq Carried(s)
    <2>1. \A i \in 2..Len(s) : i \in DOMAIN s
      BY <1>1
    <2> QED BY <1>2, <2>1, CarriedIs
  <1>4. ASSUME NEW e \in Carried(s) PROVE e \in Carried(t) \/ (Line(s[1]) /\ e = s[1].entry)
    <2>1. PICK i \in DOMAIN s : Line(s[i]) /\ e = s[i].entry
      BY <1>4, CarriedIs
    <2>2. CASE i = 1
      BY <2>1, <2>2
    <2>3. CASE i # 1
      <3>1. PICK k : k = i - 1
        OBVIOUS
      <3>2. k \in DOMAIN t /\ k + 1 = i /\ t[k] = s[i]
        BY <1>1, <2>1, <2>3, <3>1
      <3> QED BY <2>1, <3>2, CarriedIs
    <2> QED BY <2>2, <2>3
  <1>5. Line(s[1]) => s[1].entry \in Carried(s)
    <2>1. 1 \in DOMAIN s
      BY <1>1
    <2> QED BY <2>1, CarriedIs
  <1>6. ASSUME Upward(s)
        PROVE  Upward(t) /\ (Line(s[1]) => \A e \in Carried(t) : s[1].entry.seq < e.seq)
    <2>1. ASSUME NEW i \in DOMAIN t, NEW j \in DOMAIN t, i < j, Line(t[i]), Line(t[j])
          PROVE  t[i].entry.seq < t[j].entry.seq
      <3>1. i + 1 \in DOMAIN s /\ j + 1 \in DOMAIN s /\ i + 1 < j + 1 /\ t[i] = s[i + 1] /\ t[j] = s[j + 1]
        BY <1>1, <2>1
      <3> QED BY <1>6, <2>1, <3>1 DEF Upward
    <2>2. ASSUME Line(s[1]), NEW e \in Carried(t) PROVE s[1].entry.seq < e.seq
      <3>1. PICK i \in 2..Len(s) : Line(s[i]) /\ e = s[i].entry
        BY <1>2, <2>2
      <3>2. 1 \in DOMAIN s /\ i \in DOMAIN s /\ 1 < i
        BY <1>1, <3>1
      <3> QED BY <1>6, <2>2, <3>1, <3>2 DEF Upward
    <2> QED BY <2>1, <2>2 DEF Upward
  <1>7. ASSUME Line(s[1]) PROVE Carried(s) = Carried(t) \cup {s[1].entry}
    BY <1>3, <1>4, <1>5, <1>7
  <1>8. ASSUME ~Line(s[1]) PROVE Carried(s) = Carried(t)
    BY <1>3, <1>4, <1>8
  <1> QED BY <1>3, <1>6, <1>7, <1>8

LEMMA PutsCarried ==
  ASSUME NEW s, NEW t, NEW x, Puts(s, t, x)
  PROVE  /\ Line(x) => Carried(t) = Carried(s) \cup {x.entry}
         /\ ~Line(x) => Carried(t) = Carried(s)
         /\ Upward(s) /\ (Line(x) => \A e \in Carried(s) : e.seq < x.entry.seq) => Upward(t)
  <1>1. /\ Len(s) \in Nat /\ DOMAIN s = 1..Len(s) /\ DOMAIN t = 1..(Len(s) + 1) /\ t[Len(s) + 1] = x
        /\ \A i \in 1..Len(s) : t[i] = s[i]
    BY DEF Puts
  <1>2. PICK n : n = Len(s) + 1
    OBVIOUS
  <1>3. \A i \in DOMAIN t : (i \in DOMAIN s /\ t[i] = s[i]) \/ (i = n /\ t[i] = x)
    BY <1>1, <1>2
  <1>4. \A i \in DOMAIN s : i \in DOMAIN t /\ t[i] = s[i] /\ i < n
    BY <1>1, <1>2
  <1>5. n \in DOMAIN t /\ t[n] = x
    BY <1>1, <1>2
  <1>6. \A e : e \in Carried(t) <=> e \in Carried(s) \/ (Line(x) /\ e = x.entry)
    <2> SUFFICES ASSUME NEW e PROVE e \in Carried(t) <=> e \in Carried(s) \/ (Line(x) /\ e = x.entry)
      OBVIOUS
    <2>1. ASSUME e \in Carried(t) PROVE e \in Carried(s) \/ (Line(x) /\ e = x.entry)
      <3>1. PICK i \in DOMAIN t : Line(t[i]) /\ e = t[i].entry
        BY <2>1, CarriedIs
      <3> QED BY <1>3, <3>1, CarriedIs
    <2>2. ASSUME e \in Carried(s) PROVE e \in Carried(t)
      <3>1. PICK i \in DOMAIN s : Line(s[i]) /\ e = s[i].entry
        BY <2>2, CarriedIs
      <3> QED BY <1>4, <3>1, CarriedIs
    <2>3. ASSUME Line(x), e = x.entry PROVE e \in Carried(t)
      BY <1>5, <2>3, CarriedIs
    <2> QED BY <2>1, <2>2, <2>3
  <1>7. ASSUME Upward(s), Line(x) => \A e \in Carried(s) : e.seq < x.entry.seq PROVE Upward(t)
    <2> SUFFICES ASSUME NEW i \in DOMAIN t, NEW j \in DOMAIN t, i < j, Line(t[i]), Line(t[j])
                 PROVE  t[i].entry.seq < t[j].entry.seq
      BY DEF Upward
    <2>1. CASE j \in DOMAIN s
      <3>1. i \in DOMAIN s
        BY <1>1, <1>3, <2>1, <1>2
      <3> QED BY <1>4, <1>7, <2>1, <3>1 DEF Upward
    <2>2. CASE j \notin DOMAIN s
      <3>1. j = n /\ t[j] = x /\ i \in DOMAIN s
        BY <1>1, <1>2, <1>3, <2>2
      <3>2. t[i] = s[i] /\ s[i].entry \in Carried(s)
        BY <1>4, <3>1, CarriedIs
      <3> QED BY <1>7, <3>1, <3>2
    <2> QED BY <2>1, <2>2
  <1> QED BY <1>6, <1>7

\* u is s with t behind it, and its entries are those of the two.
LEMMA JoinsCarried ==
  ASSUME NEW s, NEW t, NEW u, IsList(s), IsList(t), u = s \o t
  PROVE  /\ IsList(u) /\ Carried(u) = Carried(s) \cup Carried(t)
         /\ Upward(s) /\ Upward(t) /\ Below(Carried(s), Carried(t)) => Upward(u)
  <1>1. PICK S : s \in Seq(S)
    BY DEF IsList
  <1>2. PICK T : t \in Seq(T)
    BY DEF IsList
  <1>3. PICK X : X = S \cup T
    OBVIOUS
  <1>4. s \in Seq(X) /\ t \in Seq(X)
    BY <1>1, <1>2, <1>3
  <1>5. u \in Seq(X) /\ Joins(s, t, u)
    BY <1>4, ConcatIs
  <1>6. PICK k, l : k = Len(s) /\ l = Len(t)
    OBVIOUS
  <1>7. /\ k \in Nat /\ l \in Nat /\ DOMAIN s = 1..k /\ DOMAIN t = 1..l /\ DOMAIN u = 1..(k + l)
        /\ (\A i \in 1..k : u[i] = s[i]) /\ \A i \in 1..l : u[k + i] = t[i]
    BY <1>4, <1>5, <1>6 DEF Joins
  <1>8. \A i \in DOMAIN u : (i \in DOMAIN s /\ u[i] = s[i]) \/ (i > k /\ i - k \in DOMAIN t /\ u[i] = t[i - k])
    <2> SUFFICES ASSUME NEW i \in DOMAIN u, i \notin DOMAIN s PROVE i > k /\ i - k \in DOMAIN t /\ u[i] = t[i - k]
      BY <1>7
    <2>1. PICK j : j = i - k
      OBVIOUS
    <2>2. i > k /\ j \in 1..l /\ k + j = i
      BY <1>7, <2>1
    <2> QED BY <1>7, <2>1, <2>2
  <1>9. \A i \in DOMAIN s : i \in DOMAIN u /\ u[i] = s[i]
    BY <1>7
  <1>10. \A i \in DOMAIN t : k + i \in DOMAIN u /\ u[k + i] = t[i]
    BY <1>7
  <1>11. Carried(u) = Carried(s) \cup Carried(t)
    <2>1. ASSUME NEW e \in Carried(u) PROVE e \in Carried(s) \cup Carried(t)
      <3>1. PICK i \in DOMAIN u : Line(u[i]) /\ e = u[i].entry
        BY <2>1 DEF Carried
      <3> QED BY <1>8, <3>1, CarriedIs
    <2>2. \A e \in Carried(s) \cup Carried(t) : e \in Carried(u)
      <3>1. ASSUME NEW e \in Carried(s) PROVE e \in Carried(u)
        <4>1. PICK i \in DOMAIN s : Line(s[i]) /\ e = s[i].entry
          BY <3>1 DEF Carried
        <4> QED BY <1>9, <4>1, CarriedIs, Zenon
      <3>2. ASSUME NEW e \in Carried(t) PROVE e \in Carried(u)
        <4>1. PICK i \in DOMAIN t : Line(t[i]) /\ e = t[i].entry
          BY <3>2 DEF Carried
        <4> QED BY <1>10, <4>1, CarriedIs, Zenon
      <3> QED BY <3>1, <3>2
    <2> QED BY <2>1, <2>2
  <1>12. ASSUME Upward(s), Upward(t), Below(Carried(s), Carried(t)) PROVE Upward(u)
    <2> SUFFICES ASSUME NEW i \in DOMAIN u, NEW j \in DOMAIN u, i < j, Line(u[i]), Line(u[j])
                 PROVE  u[i].entry.seq < u[j].entry.seq
      BY DEF Upward
    <2>1. CASE j \in DOMAIN s
      <3>1. i \in DOMAIN s
        BY <1>7, <2>1
      <3> QED BY <1>9, <1>12, <2>1, <3>1 DEF Upward
    <2>2. CASE i \in DOMAIN s /\ j \notin DOMAIN s
      <3>1. u[i].entry \in Carried(s) /\ u[j].entry \in Carried(t)
        BY <1>8, <2>2, CarriedIs
      <3> QED BY <1>12, <3>1 DEF Below
    <2>3. CASE i \notin DOMAIN s
      <3>1. PICK x, y : x = i - k /\ y = j - k
        OBVIOUS
      <3>2. x \in DOMAIN t /\ y \in DOMAIN t /\ u[i] = t[x] /\ u[j] = t[y] /\ x < y
        BY <1>7, <1>8, <2>3, <3>1
      <3> QED BY <1>12, <3>2 DEF Upward
    <2> QED BY <2>1, <2>2, <2>3
  <1> QED BY <1>5, <1>11, <1>12 DEF IsList

\* What a channel that takes es keeps: unless it has dropped a line, every line.
LEMMA KeptCarried ==
  ASSUME NEW q, NEW es, IsList(q), IsList(es)
  PROVE  /\ IsList(Kept(q, es)) /\ Len(Kept(q, es)) <= Buffer
         /\ "log:line" \notin Dropped(q, es) =>
              /\ Carried(Kept(q, es)) = Carried(q) \cup Carried(es)
              /\ Upward(q) /\ Upward(es) /\ Below(Carried(q), Carried(es)) => Upward(Kept(q, es))
  <1>1. PICK u, n : u = q \o es /\ n = Len(u)
    OBVIOUS
  <1>2. /\ IsList(u) /\ Carried(u) = Carried(q) \cup Carried(es)
        /\ Upward(q) /\ Upward(es) /\ Below(Carried(q), Carried(es)) => Upward(u)
    BY <1>1, JoinsCarried
  <1>3. PICK X : u \in Seq(X)
    BY <1>2 DEF IsList
  <1>4. n \in Nat /\ Buffer \in Nat /\ DOMAIN u = 1..n
    BY <1>1, <1>3, PipeAssumption
  <1>5. CASE ~(n > Buffer)
    <2>1. Kept(q, es) = u
      BY <1>1, <1>5 DEF Kept
    <2> QED BY <1>1, <1>2, <1>4, <1>5, <2>1
  <1>6. CASE n > Buffer
    <2>1. PICK a, v : a = n - Buffer + 1 /\ v = Kept(q, es)
      OBVIOUS
    <2>2. v = SubSeq(u, a, n)
      BY <1>1, <1>6, <2>1 DEF Kept
    <2>3. a \in 1..(Len(u) + 1) /\ n \in (a - 1)..Len(u)
      BY <1>1, <1>4, <1>6, <2>1
    <2>4. v \in Seq(X) /\ Len(v) = n + 1 - a /\ \A i \in 1..(n + 1 - a) : v[i] = u[a + i - 1] /\ a + i - 1 \in a..n
      BY <1>3, <2>2, <2>3, PartIs
    <2>5. Len(v) <= Buffer /\ DOMAIN v = 1..(n + 1 - a)
      BY <1>4, <2>1, <2>4
    <2>6. Dropped(q, es) = {u[i].topic : i \in 1..(a - 1)}
      <3>1. n - Buffer = a - 1
        BY <1>4, <2>1
      <3> QED BY <1>1, <3>1 DEF Dropped
    <2>7. \A i \in DOMAIN v : a + i - 1 \in DOMAIN u /\ v[i] = u[a + i - 1]
      <3> SUFFICES ASSUME NEW i \in DOMAIN v PROVE a + i - 1 \in DOMAIN u /\ v[i] = u[a + i - 1]
        OBVIOUS
      <3>1. i \in 1..(n + 1 - a)
        BY <2>5
      <3>2. v[i] = u[a + i - 1] /\ a + i - 1 \in a..n
        BY <2>4, <3>1
      <3>3. \A k \in a..n : k \in 1..n
        BY <1>4, <2>3
      <3> QED BY <1>4, <3>2, <3>3
    <2>8. ASSUME "log:line" \notin Dropped(q, es) PROVE Carried(v) = Carried(u)
      <3>1. \A i \in 1..(a - 1) : ~Line(u[i])
        BY <2>6, <2>8 DEF Line
      <3>2. ASSUME NEW e \in Carried(u) PROVE e \in Carried(v)
        <4>1. PICK i \in DOMAIN u : Line(u[i]) /\ e = u[i].entry
          BY <3>2, CarriedIs
        <4>2. PICK j : j = i - a + 1
          OBVIOUS
        <4>3. i \notin 1..(a - 1)
          BY <3>1, <4>1
        <4>4. j \in DOMAIN v /\ a + j - 1 = i
          BY <1>4, <2>3, <2>5, <4>2, <4>3, <1>1
        <4> QED BY <2>7, <4>1, <4>4, CarriedIs
      <3>3. \A e \in Carried(v) : e \in Carried(u)
        BY <2>7, CarriedIs
      <3> QED BY <3>2, <3>3
    <2>9. ASSUME Upward(u) PROVE Upward(v)
      <3> SUFFICES ASSUME NEW i \in DOMAIN v, NEW j \in DOMAIN v, i < j, Line(v[i]), Line(v[j])
                   PROVE  v[i].entry.seq < v[j].entry.seq
        BY DEF Upward
      <3>1. PICK x, y : x = a + i - 1 /\ y = a + j - 1
        OBVIOUS
      <3>2. x \in DOMAIN u /\ y \in DOMAIN u /\ v[i] = u[x] /\ v[j] = u[y] /\ x < y
        <4>1. x \in DOMAIN u /\ y \in DOMAIN u /\ v[i] = u[x] /\ v[j] = u[y]
          BY <2>7, <3>1
        <4>2. i \in Nat /\ j \in Nat /\ a \in Nat
          BY <1>4, <2>1, <2>3, <2>5
        <4> QED BY <3>1, <4>1, <4>2
      <3> QED BY <2>9, <3>2 DEF Upward
    <2> QED BY <1>2, <2>1, <2>4, <2>5, <2>8, <2>9 DEF IsList
  <1> QED BY <1>4, <1>5, <1>6

\* A publish that brings no line.
NoLines(es) == IsList(es) /\ Carried(es) = {}

LEMMA PublishCarries ==
  ASSUME IsList(queue), NEW es, IsList(es), Publish(es)
  PROVE  /\ IsList(queue') /\ lost \subseteq lost'
         /\ bridge.fwd /\ "log:line" \notin lost' =>
              /\ Carried(queue') = Carried(queue) \cup Carried(es)
              /\ Upward(queue) /\ Upward(es) /\ Below(Carried(queue), Carried(es)) => Upward(queue')
  <1>1. CASE bridge.fwd
    <2>1. queue' = Kept(queue, es) /\ lost' = lost \cup Dropped(queue, es)
      BY <1>1 DEF Publish
    <2> QED BY <2>1, KeptCarried
  <1>2. CASE ~bridge.fwd
    BY <1>2 DEF Publish
  <1> QED BY <1>1, <1>2

LEMMA NoLinesOne == ASSUME NEW x, x.topic # "log:line" PROVE NoLines(<<x>>)
  <1>1. PICK s : s = <<x>>
    OBVIOUS
  <1>2. s \in Seq({x}) /\ DOMAIN s = {1} /\ s[1] = x
    BY <1>1
  <1> QED BY <1>1, <1>2 DEF NoLines, IsList, Carried, Line

LEMMA NoLinesTwo == ASSUME NEW x, NEW y, x.topic # "log:line", y.topic # "log:line" PROVE NoLines(<<x, y>>)
  <1>1. PICK s : s = <<x, y>>
    OBVIOUS
  <1>2. s \in Seq({x, y}) /\ DOMAIN s = {1, 2} /\ s[1] = x /\ s[2] = y
    BY <1>1
  <1> QED BY <1>1, <1>2 DEF NoLines, IsList, Carried, Line

LEMMA NoLinesNone == NoLines(<<>>)
  <1>1. PICK s : s = <<>>
    OBVIOUS
  <1>2. s \in Seq({}) /\ DOMAIN s = {}
    BY <1>1
  <1> QED BY <1>1, <1>2 DEF NoLines, IsList, Carried, Line

(***************************************************************************)
(* What the other parts publish, and what becomes of the tab's calls.      *)
(***************************************************************************)
\* Nothing is published, or events none of which is a log line.
Hushed == UNCHANGED <<queue, lost>> \/ \E es : NoLines(es) /\ Publish(es)

LEMMA StatusHushed ==
  ASSUME NEW st, NEW s, NEW m
  PROVE  /\ NoLines(<<Status(st)>>) /\ NoLines(<<ConnectedTo(s, m)>>)
         /\ NoLines(<<ChainError, Status(st)>>)
  <1>1. Status(st).topic = "vpn:status" /\ ConnectedTo(s, m).topic = "vpn:status" /\ ChainError.topic = "chain:error"
    BY DEF Status, ConnectedTo, ChainError
  <1> QED BY <1>1, NoLinesOne, NoLinesTwo

LEMMA HandlesHushed == ASSUME Handles PROVE Hushed
  <1>1. PICK i \in DOMAIN calls :
       \/ Connect(i) \/ Disconnect(i) \/ DisconnectEnds(i) \/ GetSnapshot(i) \/ SnapshotEnds(i)
       \/ TestLatency(i) \/ ProbeEnds(i) \/ UpdateMode(i)
    BY DEF Handles
  <1>2. SUFFICES UNCHANGED <<queue, lost>> \/ \E es : NoLines(es) /\ Publish(es)
    BY DEF Hushed
  <1>3. CASE Connect(i)
    BY <1>3, StatusHushed, NoLinesNone DEF Connect
  <1>4. CASE Disconnect(i)
    BY <1>4, StatusHushed, NoLinesNone DEF Disconnect
  <1>5. CASE DisconnectEnds(i)
    BY <1>5, StatusHushed DEF DisconnectEnds
  <1>6. CASE GetSnapshot(i) \/ SnapshotEnds(i) \/ TestLatency(i)
    BY <1>6 DEF GetSnapshot, SnapshotEnds, TestLatency
  <1>7. CASE ProbeEnds(i)
    <2> DEFINE up == calls[i].res.val \cap Reachable
               x == [topic |-> "probe:result", up |-> up, down |-> calls[i].res.val \ up]
               y == [topic |-> "servers:changed"]
    <2>1. Publish(<<x, y>>)
      BY <1>7, Zenon DEF ProbeEnds
    <2>2. x.topic = "probe:result" /\ y.topic = "servers:changed"
      OBVIOUS
    <2> HIDE DEF x, y
    <2>3. NoLines(<<x, y>>)
      BY <2>2, NoLinesTwo
    <2> QED BY <2>1, <2>3
  <1>8. CASE UpdateMode(i)
    BY <1>8 DEF UpdateMode
  <1> QED BY <1>1, <1>3, <1>4, <1>5, <1>6, <1>7, <1>8

LEMMA ChainHushed == ASSUME ChainMoves \/ ChainWorld PROVE Hushed
  <1>1. SUFFICES \E es : NoLines(es) /\ Publish(es)
    BY DEF Hushed
  <1>2. CASE BringUpDone
    BY <1>2, StatusHushed DEF BringUpDone
  <1>3. CASE BringUpFails
    BY <1>3, StatusHushed DEF BringUpFails
  <1>4. CASE ChainDrops
    <2>1. PICK pending \in BOOLEAN : Publish(<<ChainError, Status(IF pending THEN "error" ELSE "idle")>>)
      BY <1>4 DEF ChainDrops
    <2> QED BY <2>1, StatusHushed
  <1>5. CASE Noise
    <2> DEFINE x == [topic |-> IF ctl.st = "up" THEN "vpn:speed" ELSE "geo:progress"]
    <2>1. Publish(<<x>>)
      BY <1>5 DEF Noise
    <2>2. x.topic # "log:line"
      OBVIOUS
    <2> HIDE DEF x
    <2> QED BY <2>1, <2>2, NoLinesOne
  <1> QED BY <1>2, <1>3, <1>4, <1>5 DEF ChainMoves, ChainWorld

LEMMA RefreshHushed == ASSUME WorkerMoves \/ UserSync \/ UserSubs PROVE Hushed
  <1> DEFINE x == [topic |-> "sub:synced"]
             y == [topic |-> "servers:changed"]
  <1>1. SUFFICES UNCHANGED <<queue, lost>> \/ \E es : NoLines(es) /\ Publish(es)
    BY DEF Hushed
  <1>2. NoLines(<<x>>) /\ NoLines(<<y>>) /\ NoLines(<<x, y>>)
    <2>1. x.topic = "sub:synced" /\ y.topic = "servers:changed"
      OBVIOUS
    <2> HIDE DEF x, y
    <2> QED BY <2>1, NoLinesOne, NoLinesTwo
  <1>3. CASE WorkerMoves
    BY <1>2, <1>3, NoLinesNone, Zenon DEF WorkerMoves, Commit
  <1>4. CASE UserSync
    BY <1>2, <1>4, NoLinesNone, Zenon DEF UserSync, SyncOne
  <1>5. CASE UserSubs
    <2>1. PICK i \in SubIds : (\E u \in Urls : AddSub(i, u) \/ EditUrl(i, u)) \/ RemoveSub(i)
      BY <1>5 DEF UserSubs
    <2>2. CASE \E u \in Urls : AddSub(i, u) \/ EditUrl(i, u)
      BY <2>2, NoLinesNone, Zenon DEF AddSub, EditUrl
    <2>3. CASE RemoveSub(i)
      <3>1. Publish(<<y>>) \/ Publish(<<>>)
        BY <2>3 DEF RemoveSub
      <3> QED BY <1>2, <3>1, NoLinesNone
    <2> QED BY <2>1, <2>2, <2>3
  <1> QED BY <1>3, <1>4, <1>5

\* The requests of the tab that are under way, and the backlogs that are ready.
LogReqs == {calls[i].req : i \in {j \in DOMAIN calls : calls[j].req.m \in LogMethods}}
Ready == {calls[i] : i \in {j \in DOMAIN calls : calls[j].req.m = "logs.start" /\ calls[j].st = "done"}}

\* No call of the tab comes, and none of its backlogs.
Fewer == LogReqs' \subseteq LogReqs /\ Ready' \subseteq Ready

LEMMA NoLogReqs == NoLogCalls <=> LogReqs = {}
  BY DEF NoLogCalls, LogReqs, LogMethods

LEMMA AsideFewer == ASSUME Aside PROVE Fewer
  <1>1. LogReqs' \subseteq LogReqs
    BY DEF Aside, LogReqs
  <1>2. Ready' \subseteq Ready
    BY DEF Aside, Ready, LogMethods
  <1> QED BY <1>1, <1>2 DEF Fewer

LEMMA SameFewer == ASSUME calls' = calls PROVE Fewer
  BY DEF Fewer, LogReqs, Ready

\* The answer that goes out takes its call along.
LEMMA AnswerFewer ==
  ASSUME IsCalls(calls), NEW i \in DOMAIN calls, WriteAnswer(i)
  PROVE  Fewer
  <1>1. calls' = RemoveAt(calls, i) /\ i \in 1..Len(calls) /\ Len(calls) \in Nat /\ DOMAIN calls = 1..Len(calls)
    BY CallsSeq DEF WriteAnswer
  <1>2. IsCalls(calls') /\ Len(calls') = Len(calls) - 1
        /\ \A j \in 1..(Len(calls) - 1) : calls'[j] = calls[IF j < i THEN j ELSE j + 1]
    BY <1>1, RemoveCalls
  <1>3. DOMAIN calls' = 1..(Len(calls) - 1)
    BY <1>2, CallsSeq
  <1>4. \A j \in 1..(Len(calls) - 1) : (IF j < i THEN j ELSE j + 1) \in DOMAIN calls
    BY <1>1
  <1>5. \A j \in DOMAIN calls' : \E k \in DOMAIN calls : calls'[j] = calls[k]
    BY <1>2, <1>3, <1>4
  <1>6. LogReqs' \subseteq LogReqs
    BY <1>5 DEF LogReqs
  <1>7. Ready' \subseteq Ready
    BY <1>5 DEF Ready
  <1> QED BY <1>6, <1>7 DEF Fewer

\* The one call of the tab is answered: none is left.
LEMMA AnswerLast ==
  ASSUME Served, NEW i \in DOMAIN calls, WriteAnswer(i), IsLogCall(i)
  PROVE  NoLogCalls'
  <1>1. IsCalls(calls)
    BY DEF Served
  <1>2. calls' = RemoveAt(calls, i) /\ i \in 1..Len(calls) /\ Len(calls) \in Nat /\ DOMAIN calls = 1..Len(calls)
    BY <1>1, CallsSeq DEF WriteAnswer
  <1>3. IsCalls(calls') /\ Len(calls') = Len(calls) - 1
        /\ \A j \in 1..(Len(calls) - 1) : calls'[j] = calls[IF j < i THEN j ELSE j + 1]
    BY <1>1, <1>2, RemoveCalls
  <1>4. DOMAIN calls' = 1..(Len(calls) - 1)
    BY <1>3, CallsSeq
  <1>5. ASSUME NEW j \in DOMAIN calls', calls'[j].req.m \in LogMethods PROVE FALSE
    <2>1. PICK k : k = (IF j < i THEN j ELSE j + 1)
      OBVIOUS
    <2>2. k \in DOMAIN calls /\ k # i /\ calls'[j] = calls[k]
      BY <1>2, <1>3, <1>4, <2>1
    <2>3. IsLogCall(k)
      BY <1>5, <2>2 DEF IsLogCall
    <2> QED BY <2>2, <2>3 DEF Served
  <1> QED BY <1>5 DEF NoLogCalls, LogMethods

(***************************************************************************)
(* The carriers of the log lines, and the ring's window, in every step.    *)
(***************************************************************************)
Shapes ==
  /\ IsList(queue) /\ IsList(wire) /\ IsList(pend) /\ IsList(buf.ring)
  /\ buf.seq \in Nat /\ Recent(buf.ring, buf.seq)
  /\ DOMAIN logs = {"tab", "entries", "last", "on"} /\ DOMAIN win = {"open", "gen"}

\* What Add numbers.
Numbers(s, ls) == [n \in 1..Len(ls) |-> [seq |-> s + n, line |-> ls[n]]]

LEMMA NumbersRow ==
  ASSUME NEW s \in Nat, NEW ls, Len(ls) \in Nat
  PROVE  /\ Row(Numbers(s, ls), s + Len(ls)) /\ Len(Numbers(s, ls)) = Len(ls)
         /\ \A i \in 1..Len(ls) : Numbers(s, ls)[i].seq = s + i
         /\ \A e \in Range(Numbers(s, ls)) : e.seq > s /\ e.seq \in Nat
  <1>1. PICK k, v : k = Len(ls) /\ v = Numbers(s, ls)
    OBVIOUS
  <1>2. v = [n \in 1..k |-> [seq |-> s + n, line |-> ls[n]]]
    BY <1>1 DEF Numbers
  <1> DEFINE Z == {[seq |-> s + n, line |-> ls[n]] : n \in 1..k}
  <1>3. v \in Seq(Z) /\ Len(v) = k /\ DOMAIN v = 1..k
    BY <1>1, <1>2
  <1> HIDE DEF Z
  <1>4. \A i \in 1..k : v[i].seq = s + i
    <2> SUFFICES ASSUME NEW i \in 1..k PROVE v[i].seq = s + i
      OBVIOUS
    <2>1. v[i] = [seq |-> s + i, line |-> ls[i]]
      BY <1>2
    <2> QED BY <2>1
  <1>5. \A i \in 1..k : v[i].seq \in 1..(s + k) /\ v[i].seq > s /\ v[i].seq \in Nat
    <2> SUFFICES ASSUME NEW i \in 1..k PROVE s + i \in 1..(s + k) /\ s + i > s /\ s + i \in Nat
      BY <1>4
    <2> QED BY <1>1
  <1>6. \A i, j \in 1..k : i < j => v[i].seq < v[j].seq
    BY <1>1, <1>4
  <1>7. Row(v, s + k)
    BY <1>3, <1>5, <1>6 DEF Row
  <1>8. \A e \in Range(v) : e.seq > s /\ e.seq \in Nat
    BY <1>3, <1>5 DEF Range
  <1> QED BY <1>1, <1>3, <1>4, <1>7, <1>8

LEMMA AddPends ==
  ASSUME NEW ls, Len(ls) \in Nat, Add(ls), IsList(pend), buf.seq \in Nat
  PROVE  IsList(pend') /\ pend' = (IF buf.subs > 0 THEN pend \o Numbers(buf.seq, ls) ELSE pend)
  <1>1. pend' = (IF buf.subs > 0 THEN pend \o Numbers(buf.seq, ls) ELSE pend)
    BY DEF Add, Numbers
  <1>2. PICK v, u : v = Numbers(buf.seq, ls) /\ u = pend \o v
    OBVIOUS
  <1>3. IsList(v)
    BY <1>2, NumbersRow DEF Row, IsList
  <1>4. IsList(u)
    BY <1>2, <1>3, JoinsCarried
  <1> QED BY <1>1, <1>2, <1>4

LEMMA AddShapes ==
  ASSUME Shapes, Streamed, NEW ls, Len(ls) \in Nat, Add(ls), UNCHANGED <<queue, wire, logs, win>>
  PROVE  Shapes'
  <1>1. buf'.seq = buf.seq + Len(ls) /\ buf'.ring = Capped(Longer(buf.ring, buf.seq, ls))
    BY AddIs
  <1>2. PICK X : buf.ring \in Seq(X)
    BY DEF Shapes, IsList
  <1>3. PICK r, s, c : r = buf.ring /\ s = buf.seq /\ c = Capped(Longer(r, s, ls))
    OBVIOUS
  <1>4. Recent(c, s + Len(ls)) /\ IsList(c)
    <2>1. s \in Nat /\ Recent(r, s) /\ r \in Seq(X)
      BY <1>2, <1>3 DEF Shapes
    <2> QED BY <1>3, <2>1, WindowLonger DEF IsList
  <1>5. IsList(pend')
    BY AddPends DEF Shapes
  <1>6. buf'.seq \in Nat
    BY <1>1 DEF Shapes
  <1>7. Recent(buf'.ring, buf'.seq) /\ IsList(buf'.ring)
    BY <1>1, <1>3, <1>4
  <1> QED BY <1>5, <1>6, <1>7 DEF Shapes

LEMMA ShapesStay ==
  ASSUME Shapes, IsList(queue'), IsList(wire'), pend' = pend, buf'.ring = buf.ring, buf'.seq = buf.seq,
         DOMAIN logs' = DOMAIN logs, DOMAIN win' = DOMAIN win
  PROVE  Shapes'
  BY DEF Shapes

LEMMA HushedList == ASSUME Hushed, IsList(queue) PROVE IsList(queue')
  BY PublishCarries DEF Hushed, NoLines

LEMMA ShownDomain == ASSUME NEW l, NEW list PROVE DOMAIN Shown(l, list) = DOMAIN l
  BY DEF Shown

LEMMA OutputShapes == ASSUME Shapes, Output PROVE Shapes'
  <1>1. UNCHANGED <<pend, buf, logs, win>>
    BY DEF Output, PipeStep, Forward, ForwarderExit, ServeReturns, WriteAnswer, logv
  <1>2. IsList(queue) /\ IsList(wire)
    BY DEF Shapes
  <1>3. CASE Forward
    <2>1. queue # <<>> /\ queue' = Tail(queue) /\ (wire' = wire \/ wire' = Append(wire, Head(queue)))
      BY <1>3 DEF Forward
    <2>2. IsList(queue')
      BY <1>2, <2>1, TailTakes DEF Takes
    <2>3. IsList(wire')
      <3>1. PICK x : x = Head(queue)
        OBVIOUS
      <3>2. Puts(wire, Append(wire, x), x)
        BY <1>2, AppendPuts
      <3> QED BY <1>2, <2>1, <3>1, <3>2 DEF Puts
    <2> QED BY <1>1, <2>2, <2>3, ShapesStay
  <1>4. CASE ForwarderExit \/ ServeReturns
    <2>1. queue' = queue /\ wire' = wire
      BY <1>4 DEF ForwarderExit, ServeReturns
    <2> QED BY <1>1, <1>2, <2>1, ShapesStay
  <1>5. CASE \E i \in DOMAIN calls : WriteAnswer(i)
    <2>1. PICK x : queue' = queue /\ wire' = Append(wire, x)
      BY <1>5 DEF WriteAnswer
    <2>2. IsList(wire')
      BY <1>2, <2>1, AppendPuts DEF Puts
    <2> QED BY <1>1, <1>2, <2>1, <2>2, ShapesStay
  <1> QED BY <1>3, <1>4, <1>5 DEF Output, PipeStep

LEMMA StreamShapes == ASSUME Shapes, Streamed, Texts, LogWorld \/ LogMoves PROVE Shapes'
  <1>1. UNCHANGED <<queue, wire, logs, win>>
    BY DEF LogWorld, LogMoves, WriteLog, RotateLog, BridgeLog, OpenLog, PollReads, PollApply, PollFails, PollEnds,
           pipe, shared
  <1>2. CASE UNCHANGED <<pend, buf>>
    BY <1>1, <1>2, ShapesStay DEF Shapes
  <1>3. CASE BridgeLog
    <2>1. PICK ls : ls = <<<<Piece(0, TRUE)>>>>
      OBVIOUS
    <2>2. Add(ls) /\ Len(ls) = 1
      BY <1>3, <2>1 DEF BridgeLog
    <2>3. Len(ls) \in Nat
      BY <2>2
    <2> QED BY <1>1, <2>2, <2>3, AddShapes
  <1>4. ASSUME NEW k \in Pollers, PollApply(k) PROVE Shapes'
    <2>1. PICK t : t = TextOf(poll[k], lf)
      OBVIOUS
    <2>2. Add(Lines(t))
      BY <1>4, <2>1 DEF PollApply, TextOf
    <2>3. Len(Lines(t)) \in Nat
      BY <2>1, TextIs, LinesCount
    <2> QED BY <1>1, <2>2, <2>3, AddShapes
  <1> QED BY <1>2, <1>3, <1>4 DEF LogWorld, LogMoves, WriteLog, RotateLog, OpenLog, PollReads, PollFails, PollEnds

LEMMA PendRemoved ==
  ASSUME NEW s, IsList(s), NEW j \in DOMAIN s
  PROVE  IsList(RemoveAt(s, j)) /\ s # <<>> /\ (j = 1 => RemoveAt(s, j) = Tail(s))
  <1>0. \E S : s \in Seq(S)
    BY Zenon DEF IsList
  <1>1. PICK S : s \in Seq(S)
    BY <1>0
  <1>2. Len(s) \in Nat \ {0} /\ j \in 1..Len(s)
    BY <1>1
  <1>3. PICK a, b : a = SubSeq(s, 1, j - 1) /\ b = SubSeq(s, j + 1, Len(s))
    OBVIOUS
  <1>4. a \in Seq(S) /\ b \in Seq(S)
    BY <1>1, <1>2, <1>3
  <1>5. RemoveAt(s, j) = a \o b
    BY <1>3 DEF RemoveAt
  <1>6. a \o b \in Seq(S)
    BY <1>4
  <1>7. ASSUME j = 1 PROVE RemoveAt(s, j) = Tail(s)
    <2>1. a = <<>>
      BY <1>1, <1>2, <1>3, <1>7
    <2>2. b = Tail(s)
      BY <1>1, <1>2, <1>3, <1>7
    <2> QED BY <1>1, <1>5, <2>1, <2>2
  <1>8. IsList(RemoveAt(s, j))
    <2>1. RemoveAt(s, j) \in Seq(S)
      BY <1>5, <1>6
    <2> QED BY <2>1 DEF IsList
  <1>9. s # <<>>
    BY <1>1, <1>2
  <1> QED BY <1>7, <1>8, <1>9, Zenon

LEMMA LineShapes == ASSUME Shapes, LogPublishes PROVE Shapes'
  <1>1. PICK j \in DOMAIN pend : PublishLine(j)
    BY DEF LogPublishes
  <1> DEFINE x == [topic |-> "log:line", entry |-> pend[j]]
  <1>2. Publish(<<x>>) /\ pend' = RemoveAt(pend, j) /\ UNCHANGED <<wire, buf, logs, win>>
    BY <1>1 DEF PublishLine, LogPublishes, shared
  <1> HIDE DEF x
  <1>3. IsList(<<x>>)
    <2>1. <<x>> \in Seq({x})
      OBVIOUS
    <2> QED BY <2>1 DEF IsList
  <1>4. IsList(queue) /\ IsList(pend)
    BY DEF Shapes
  <1>5. IsList(queue')
    BY <1>2, <1>3, <1>4, PublishCarries
  <1>6. IsList(RemoveAt(pend, j))
    BY <1>1, <1>4, PendRemoved, Zenon
  <1> QED BY <1>2, <1>5, <1>6 DEF Shapes

LEMMA ShapesInit == ASSUME Init PROVE Shapes
  <1>1. /\ queue = <<>> /\ wire = <<>> /\ pend = <<>> /\ buf = [seq |-> 0, ring |-> <<>>, subs |-> 0]
        /\ logs = NoLogs
    BY DEF Init, PipeInit, LogInit
  <1>2. DOMAIN win = {"open", "gen"}
    BY DEF Init, DashInit
  <1>3. IsList(<<>>)
    <2>1. <<>> \in Seq({})
      OBVIOUS
    <2> QED BY <2>1 DEF IsList
  <1>4. buf.ring = <<>> /\ buf.seq = 0 /\ DOMAIN logs = {"tab", "entries", "last", "on"}
    BY <1>1 DEF NoLogs
  <1>5. Recent(buf.ring, buf.seq)
    BY <1>4, LogAssumption DEF Recent
  <1> QED BY <1>1, <1>2, <1>3, <1>4, <1>5 DEF Shapes

LEMMA ShapesStep == ASSUME Shapes, Streamed, Texts, [Next]_vars PROVE Shapes'
  <1>0. IsList(queue) /\ IsList(wire)
    BY DEF Shapes
  <1>1. CASE Output
    BY <1>1, OutputShapes
  <1>2. CASE Handles \/ ChainMoves \/ ChainWorld \/ WorkerMoves \/ UserSync \/ UserSubs
    <2>1. UNCHANGED <<wire, pend, buf, logs, win>>
      BY <1>2 DEF Handles, ChainMoves, ChainWorld, WorkerMoves, UserSync, UserSubs, logv, shared
    <2>2. IsList(queue')
      BY <1>0, <1>2, HandlesHushed, ChainHushed, RefreshHushed, HushedList
    <2> QED BY <1>0, <2>1, <2>2, ShapesStay
  <1>3. CASE Renders \/ Discard
    <2>1. UNCHANGED <<queue, pend, buf, logs, win>>
      BY <1>3 DEF Renders, Discard, DashReceives, IdleTimeout, AutoConnect, logv, shared
    <2>2. wire' = wire \/ (wire # <<>> /\ wire' = Tail(wire))
      BY <1>3 DEF Renders, Discard, DashReceives, IdleTimeout, AutoConnect
    <2>3. IsList(wire')
      BY <1>0, <2>2, TailTakes DEF Takes
    <2> QED BY <1>0, <2>1, <2>3, ShapesStay
  <1>4. CASE Quit \/ User \/ DriverTick \/ TimerTick \/ WorkerPanics
    <2>1. UNCHANGED <<queue, wire, pend, buf, logs, win>>
      BY <1>4 DEF Quit, CloseInput, User, ClickConnect, ClickDisconnect, ClickMode, ClickReconnect, ClickProbe, Clicks,
                  DriverTick, TimerTick, WorkerPanics, pipe, logv, shared
    <2> QED BY <1>0, <2>1, ShapesStay
  <1>5. CASE CloseWindow \/ OpenWindow
    <2>1. UNCHANGED <<queue, wire, pend, buf>>
      BY <1>5 DEF CloseWindow, OpenWindow, pipe, logv
    <2>2. DOMAIN win' = DOMAIN win /\ DOMAIN logs' = DOMAIN logs
      BY <1>5 DEF CloseWindow, OpenWindow, logv, NoLogs, Shapes
    <2> QED BY <1>0, <2>1, <2>2, ShapesStay
  <1>6. CASE LogUser
    <2>1. UNCHANGED <<queue, wire, pend, buf, win>> /\ DOMAIN logs' = DOMAIN logs
      BY <1>6 DEF LogUser, OpenTab, CloseTab
    <2> QED BY <1>0, <2>1, ShapesStay
  <1>7. CASE LogHandles
    <2>1. UNCHANGED <<queue, wire, pend, logs, win>> /\ buf'.ring = buf.ring /\ buf'.seq = buf.seq
      BY <1>7 DEF LogHandles, LogsStart, LogsStartPoller, LogsTail, LogsStop, LogsStopPoller, shared, Streamed
    <2> QED BY <1>0, <2>1, ShapesStay
  <1>8. CASE LogWorld \/ LogMoves
    BY <1>8, StreamShapes
  <1>9. CASE LogPublishes
    BY <1>9, LineShapes
  <1>10. CASE LogReceives
    <2>1. UNCHANGED <<queue, pend, buf, win>> /\ wire # <<>> /\ wire' = Tail(wire)
      BY <1>10 DEF LogReceives, shared
    <2>2. logs' = logs \/ (\E e : OnLogLine(e)) \/ (\E e : StartAnswer(e))
      BY <1>10, Zenon DEF LogReceives
    <2>3. DOMAIN logs' = DOMAIN logs
      <3>1. ASSUME NEW e, StartAnswer(e) PROVE DOMAIN logs' = DOMAIN logs
        <4> DEFINE l == Shown(logs, e)
        <4>1. DOMAIN l = DOMAIN logs
          BY ShownDomain
        <4>2. logs' = [l EXCEPT !.on = TRUE]
          BY <3>1 DEF StartAnswer
        <4> HIDE DEF l
        <4> QED BY <4>1, <4>2
      <3> QED BY <2>2, <3>1, ShownDomain DEF OnLogLine
    <2>4. IsList(wire')
      BY <1>0, <2>1, TailTakes DEF Takes
    <2> QED BY <1>0, <2>1, <2>3, <2>4, ShapesStay
  <1>11. CASE UNCHANGED vars
    BY <1>11 DEF vars, pipe, shared, logv, Shapes
  <1> QED BY <1>1, <1>2, <1>3, <1>4, <1>5, <1>6, <1>7, <1>8, <1>9, <1>10, <1>11 DEF Next, System

(***************************************************************************)
(* The tab's slots: of each window one call at most or one answer, and     *)
(* while there is one the tab takes no lines.                              *)
(***************************************************************************)
LogAnswer(x) == x.topic = "answer" /\ x.req.m \in LogMethods
Mine(r) == r.win = win.gen
MyAnswer(a) == a \in DOMAIN wire /\ LogAnswer(wire[a]) /\ Mine(wire[a].req)

Slots ==
  /\ \A r \in LogReqs : r.win \in 1..win.gen
  /\ \A a \in DOMAIN wire : LogAnswer(wire[a]) => wire[a].req.win \in 1..win.gen
  /\ ~win.open => ~logs.tab
  /\ ~logs.tab => ~logs.on
  /\ logs.tab => \A r \in LogReqs : Mine(r)
  /\ win.open => \A r \in LogReqs : Mine(r) =>
       ~logs.on /\ (\A a \in DOMAIN wire : ~MyAnswer(a)) /\ (r.m = "logs.start" => logs.tab)
  /\ win.open => \A a \in DOMAIN wire : MyAnswer(a) =>
       /\ ~logs.on /\ NoLogCalls /\ (wire[a].req.m = "logs.start" => logs.tab)
       /\ \A b \in DOMAIN wire : MyAnswer(b) => a = b
Slotted == "quick" \notin faults => Slots

\* The answers to the tab that are on the output after a step were d places
\* further on before it.
Slides(d) ==
  \A a \in DOMAIN wire' : LogAnswer(wire'[a]) => a \in Nat /\ a + d \in DOMAIN wire /\ wire'[a] = wire[a + d]

LEMMA SlideSame == ASSUME IsList(wire), wire' = wire PROVE Slides(0)
  <1>1. PICK S : wire \in Seq(S)
    BY DEF IsList
  <1>2. \A a \in DOMAIN wire : a \in Nat /\ a + 0 = a
    BY <1>1
  <1> QED BY <1>2 DEF Slides

LEMMA SlidePut == ASSUME IsList(wire), NEW x, ~LogAnswer(x), wire' = Append(wire, x) PROVE Slides(0)
  <1>1. Puts(wire, wire', x)
    BY AppendPuts
  <1>2. PICK n : n = Len(wire) + 1
    OBVIOUS
  <1>3. \A a \in DOMAIN wire' : a # n => a \in Nat /\ a + 0 \in DOMAIN wire /\ wire'[a] = wire[a + 0]
    <2> SUFFICES ASSUME NEW a \in DOMAIN wire', a # n
                 PROVE  a \in Nat /\ a + 0 \in DOMAIN wire /\ wire'[a] = wire[a + 0]
      OBVIOUS
    <2>1. a \in 1..Len(wire)
      BY <1>1, <1>2 DEF Puts
    <2>2. a + 0 = a
      BY <2>1
    <2> QED BY <1>1, <2>1, <2>2 DEF Puts
  <1>4. wire'[n] = x
    BY <1>1, <1>2 DEF Puts
  <1> QED BY <1>3, <1>4 DEF Slides

LEMMA SlideTake == ASSUME IsList(wire), wire # <<>>, wire' = Tail(wire) PROVE Slides(1)
  <1>1. Takes(wire, wire')
    BY TailTakes
  <1> QED BY <1>1 DEF Takes, Slides

LEMMA SlotsStay ==
  ASSUME Slots, win' = win, logs'.tab = logs.tab, logs'.on = logs.on, LogReqs' \subseteq LogReqs,
         NEW d \in {0, 1}, Slides(d)
  PROVE  Slots'
  <1>1. \A a \in DOMAIN wire' : LogAnswer(wire'[a]) => a \in Nat /\ a + d \in DOMAIN wire /\ wire'[a] = wire[a + d]
    BY DEF Slides
  <1>2. \A a \in DOMAIN wire' : MyAnswer(a)' => a \in Nat /\ MyAnswer(a + d) /\ a + d \in DOMAIN wire /\ wire'[a] = wire[a + d]
    BY <1>1 DEF MyAnswer, Mine
  <1>3. NoLogCalls => NoLogCalls'
    BY DEF NoLogCalls, LogReqs, LogMethods
  <1>4. \A a \in DOMAIN wire' : LogAnswer(wire'[a]) => wire'[a].req.win \in 1..win'.gen
    BY <1>1 DEF Slots
  <1>5. win'.open => \A r \in LogReqs' : Mine(r)' =>
          ~logs'.on /\ (\A a \in DOMAIN wire' : ~MyAnswer(a)') /\ (r.m = "logs.start" => logs'.tab)
    BY <1>2 DEF Slots, Mine
  <1>6. ASSUME win'.open, NEW a \in DOMAIN wire', MyAnswer(a)'
        PROVE  /\ ~logs'.on /\ NoLogCalls' /\ (wire'[a].req.m = "logs.start" => logs'.tab)
               /\ \A b \in DOMAIN wire' : MyAnswer(b)' => a = b
    <2>1. a \in Nat /\ MyAnswer(a + d) /\ a + d \in DOMAIN wire /\ wire'[a] = wire[a + d]
      BY <1>2, <1>6
    <2>2. /\ ~logs.on /\ NoLogCalls /\ (wire[a + d].req.m = "logs.start" => logs.tab)
          /\ \A b \in DOMAIN wire : MyAnswer(b) => a + d = b
      BY <1>6, <2>1 DEF Slots
    <2>3. ASSUME NEW b \in DOMAIN wire', MyAnswer(b)' PROVE a = b
      <3>1. b \in Nat /\ MyAnswer(b + d) /\ b + d \in DOMAIN wire
        BY <1>2, <2>3
      <3>2. a + d = b + d
        BY <2>2, <3>1
      <3> QED BY <2>1, <3>1, <3>2
    <2> QED BY <1>3, <2>1, <2>2, <2>3
  <1>7. /\ \A r \in LogReqs' : r.win \in 1..win'.gen
        /\ ~win'.open => ~logs'.tab
        /\ ~logs'.tab => ~logs'.on
        /\ logs'.tab => \A r \in LogReqs' : Mine(r)'
    BY DEF Slots, Mine
  <1> QED BY <1>4, <1>5, <1>6, <1>7 DEF Slots

\* The answer of the tab's call takes its place.
LEMMA AnswerSlots ==
  ASSUME Slots, Served, IsList(wire), NEW i \in DOMAIN calls, WriteAnswer(i), UNCHANGED <<logs, win>>
  PROVE  Slots'
  <1> DEFINE x == [topic |-> "answer", req |-> calls[i].req, res |-> calls[i].res]
  <1>1. wire' = Append(wire, x) /\ x.topic = "answer" /\ x.req = calls[i].req
    BY DEF WriteAnswer
  <1> HIDE DEF x
  <1>2. LogReqs' \subseteq LogReqs
    BY AnswerFewer DEF Served, Fewer
  <1>3. CASE ~IsLogCall(i)
    <2>1. ~LogAnswer(x)
      BY <1>1, <1>3 DEF LogAnswer, IsLogCall
    <2> QED BY <1>1, <1>2, <2>1, SlidePut, SlotsStay
  <1>4. CASE IsLogCall(i)
    <2>1. NoLogCalls' /\ x.req \in LogReqs
      BY <1>1, <1>4, AnswerLast DEF LogReqs, IsLogCall
    <2>2. LogReqs' = {}
      BY <2>1 DEF NoLogCalls, LogReqs, LogMethods
    <2>3. PICK n : n = Len(wire) + 1
      OBVIOUS
    <2>4. Puts(wire, wire', x)
      BY <1>1, AppendPuts
    <2>5. \A a \in DOMAIN wire' : a # n => a \in DOMAIN wire /\ wire'[a] = wire[a]
      BY <2>3, <2>4 DEF Puts
    <2>6. wire'[n] = x
      BY <2>3, <2>4 DEF Puts
    <2>7. \A a \in DOMAIN wire' : LogAnswer(wire'[a]) => wire'[a].req.win \in 1..win.gen
      BY <2>1, <2>5, <2>6 DEF Slots
    <2>8. ASSUME win.open, NEW a \in DOMAIN wire', MyAnswer(a)'
          PROVE  /\ ~logs.on /\ (wire'[a].req.m = "logs.start" => logs.tab)
                 /\ \A b \in DOMAIN wire' : MyAnswer(b)' => a = b
      <3>0. \A b \in DOMAIN wire' : MyAnswer(b)' => b = n \/ MyAnswer(b)
        BY <2>5 DEF MyAnswer, Mine
      <3>1. ~NoLogCalls
        BY <2>1, NoLogReqs
      <3>2. \A b \in DOMAIN wire : ~MyAnswer(b)
        BY <2>8, <3>1 DEF Slots
      <3>3. \A b \in DOMAIN wire' : MyAnswer(b)' => b = n
        BY <3>0, <3>2 DEF MyAnswer
      <3>4. Mine(x.req)
        BY <2>6, <2>8, <3>3 DEF MyAnswer, Mine
      <3>5. ~logs.on /\ (x.req.m = "logs.start" => logs.tab)
        BY <2>1, <2>8, <3>4 DEF Slots
      <3> QED BY <2>6, <2>8, <3>3, <3>5
    <2> QED BY <2>1, <2>2, <2>7, <2>8 DEF Slots, Mine
  <1> QED BY <1>3, <1>4

LEMMA OutputSlots == ASSUME Slotted, Tabs, Shapes, Output PROVE Slotted'
  <1>1. UNCHANGED <<logs, win, faults>>
    BY DEF Output, PipeStep, Forward, ForwarderExit, ServeReturns, WriteAnswer, logv
  <1>2. SUFFICES ASSUME "quick" \notin faults, Slots, Served PROVE Slots'
    BY <1>1 DEF Slotted, Tabs
  <1>3. IsList(wire)
    BY DEF Shapes
  <1>4. CASE \E i \in DOMAIN calls : WriteAnswer(i)
    BY <1>1, <1>2, <1>3, <1>4, AnswerSlots
  <1>5. CASE Forward \/ ForwarderExit \/ ServeReturns
    <2>1. calls' = calls
      BY <1>5 DEF Forward, ForwarderExit, ServeReturns
    <2>2. Slides(0)
      <3>1. PICK x : x = Head(queue)
        OBVIOUS
      <3>2. CASE wire' = wire
        BY <1>3, <3>2, SlideSame
      <3>3. CASE x.topic \in Topics /\ wire' = Append(wire, x)
        <4>1. ~LogAnswer(x)
          BY <3>3 DEF LogAnswer, Topics
        <4> QED BY <1>3, <3>3, <4>1, SlidePut
      <3> QED BY <1>5, <3>1, <3>2, <3>3 DEF Forward, ForwarderExit, ServeReturns
    <2> QED BY <1>1, <1>2, <2>1, <2>2, SlotsStay, SameFewer DEF Fewer
  <1> QED BY <1>4, <1>5 DEF Output, PipeStep

LEMMA WindowSlots == ASSUME Slotted, Tabs, Shapes, CloseWindow \/ OpenWindow PROVE Slotted'
  <1>1. SUFFICES ASSUME "quick" \notin faults, Slots PROVE Slots'
    BY DEF Slotted, CloseWindow, OpenWindow
  <1>2. win.gen \in Nat \ {0} /\ DOMAIN win = {"open", "gen"}
    BY DEF Tabs, Shapes
  <1>3. CASE CloseWindow
    <2>1. wire' = wire /\ calls' = calls /\ win'.open = FALSE /\ win'.gen = win.gen /\ logs'.tab = FALSE /\ logs'.on = FALSE
      BY <1>2, <1>3 DEF CloseWindow, pipe, NoLogs
    <2> QED BY <1>1, <2>1 DEF Slots, LogReqs, Mine
  <1>4. CASE OpenWindow
    <2> DEFINE r == [Request("snapshot", <<>>) EXCEPT !.req.win = win.gen + 1]
    <2>1. wire' = wire /\ logs' = logs /\ calls' = Append(calls, r) /\ win' = [open |-> TRUE, gen |-> win.gen + 1] /\ ~win.open
      BY <1>4 DEF OpenWindow, logv
    <2>2. r.req.m = "snapshot" /\ DOMAIN r = {"req", "st", "res"}
      BY DEF Request
    <2> HIDE DEF r
    <2>3. Aside
      <3>1. Extended(calls, calls') /\ IsCalls(calls)
        BY <1>1, <2>1, <2>2, ExtendedAppend DEF LogMethods, Tabs, Served
      <3> QED BY <3>1, ExtendedAside
    <2>4. LogReqs' \subseteq LogReqs
      BY <2>3, AsideFewer DEF Fewer
    <2>5. win'.gen = win.gen + 1
      BY <2>1
    <2>6. \A q \in LogReqs' : ~Mine(q)' /\ q.win \in 1..win'.gen
      BY <1>1, <1>2, <2>4, <2>5 DEF Slots, Mine
    <2>7. \A a \in DOMAIN wire' : ~MyAnswer(a)' /\ (LogAnswer(wire'[a]) => wire'[a].req.win \in 1..win'.gen)
      BY <1>1, <1>2, <2>1, <2>5 DEF Slots, MyAnswer, Mine
    <2>8. ~logs.tab /\ ~logs.on
      BY <1>1, <2>1 DEF Slots
    <2> QED BY <2>1, <2>6, <2>7, <2>8 DEF Slots
  <1> QED BY <1>3, <1>4

\* The user opens or closes the tab when nothing of it is under way.
LEMMA UserSlots == ASSUME Slotted, Tabs, Shapes, LogUser PROVE Slotted'
  <1>1. SUFFICES ASSUME "quick" \notin faults, Slots PROVE Slots'
    BY DEF Slotted, LogUser
  <1>2. IsCalls(calls) /\ NoLogCalls /\ wire = <<>>
    BY <1>1 DEF LogUser, Settled, Tabs, Served
  <1>3. win' = win /\ wire' = wire /\ win.open /\ win.gen \in Nat \ {0}
    BY DEF LogUser, OpenTab, CloseTab, CanSend, Tabs
  <1>4. PICK r : r = Request(IF logs.tab THEN "logs.stop" ELSE "logs.start", <<>>)
    OBVIOUS
  <1>5. /\ calls' = Append(calls, r) /\ logs'.tab = ~logs.tab /\ ~logs'.on
    <2>1. CASE OpenTab
      BY <1>1, <1>4, <2>1 DEF OpenTab, Slots, Shapes
    <2>2. CASE CloseTab
      BY <1>1, <1>4, <2>2 DEF CloseTab, Shapes
    <2> QED BY <2>1, <2>2 DEF LogUser
  <1>6. /\ r.req.m = (IF logs.tab THEN "logs.stop" ELSE "logs.start") /\ r.req.win = win.gen
        /\ DOMAIN r = {"req", "st", "res"}
    BY <1>4 DEF Request
  <1>7. PICK n : n = Len(calls) + 1
    OBVIOUS
  <1>8. /\ Len(calls) \in Nat /\ IsCalls(calls') /\ Len(calls') = n /\ \A j \in 1..Len(calls) : calls'[j] = calls[j]
        /\ calls'[n] = r
    BY <1>2, <1>5, <1>6, <1>7, AppendCalls
  <1>9. DOMAIN calls = 1..Len(calls) /\ DOMAIN calls' = 1..n
    BY <1>2, <1>8, CallsSeq
  <1>10. \A j \in DOMAIN calls' : j = n \/ (j \in DOMAIN calls /\ calls'[j] = calls[j])
    BY <1>7, <1>8, <1>9
  <1>11. \A q \in LogReqs' : q = r.req
    BY <1>2, <1>8, <1>10 DEF LogReqs, NoLogCalls, LogMethods
  <1>12. DOMAIN wire' = {}
    BY <1>2, <1>3
  <1>13. logs'.tab \in BOOLEAN /\ logs.tab \in BOOLEAN
    BY <1>5 DEF Tabs
  <1>14. \A q \in LogReqs' : q.win = win.gen /\ (q.m = "logs.start" => logs'.tab)
    BY <1>5, <1>6, <1>11, <1>13
  <1> QED BY <1>3, <1>5, <1>12, <1>14 DEF Slots, Mine

LEMMA ShownSlot ==
  ASSUME NEW l, NEW list, DOMAIN l = {"tab", "entries", "last", "on"}
  PROVE  Shown(l, list).tab = l.tab /\ Shown(l, list).on = l.on
  BY DEF Shown

\* The renderer takes a line, or the answer that its tab has waited for.
LEMMA ReceivesSlots == ASSUME Slotted, Tabs, Shapes, LogReceives PROVE Slotted'
  <1>1. SUFFICES ASSUME "quick" \notin faults, Slots PROVE Slots'
    BY DEF Slotted, LogReceives, shared
  <1>2. win' = win /\ calls' = calls /\ wire # <<>> /\ wire' = Tail(wire) /\ win.open
    BY DEF LogReceives, shared
  <1>3. IsList(wire) /\ DOMAIN logs = {"tab", "entries", "last", "on"}
    BY DEF Shapes
  <1>4. Slides(1) /\ LogReqs' \subseteq LogReqs
    BY <1>2, <1>3, SlideTake, SameFewer DEF Fewer
  <1>5. CASE logs'.tab = logs.tab /\ logs'.on = logs.on
    BY <1>1, <1>2, <1>4, <1>5, SlotsStay
  <1>6. ASSUME NEW e, OnLogLine(e) PROVE logs'.tab = logs.tab /\ logs'.on = logs.on
    BY <1>3, <1>6, ShownSlot DEF OnLogLine
  <1>7. ASSUME NEW v, StartAnswer(v), Head(wire).topic = "answer", Head(wire).req.win = win.gen,
               Head(wire).req.m = "logs.start"
        PROVE  Slots'
    <2>1. Takes(wire, wire')
      BY <1>2, <1>3, TailTakes
    <2>2. 1 \in DOMAIN wire /\ MyAnswer(1)
      BY <1>7, <2>1 DEF Takes, MyAnswer, LogAnswer, LogMethods, Mine
    <2>3. NoLogCalls /\ logs.tab /\ \A b \in DOMAIN wire : MyAnswer(b) => 1 = b
      BY <1>1, <1>2, <1>7, <2>1, <2>2 DEF Slots, Takes
    <2>4. \A a \in DOMAIN wire' : LogAnswer(wire'[a]) => a \in Nat \ {0} /\ a + 1 \in DOMAIN wire /\ wire'[a] = wire[a + 1]
      BY <1>4, <2>1 DEF Slides, Takes
    <2>5. \A a \in DOMAIN wire' : ~MyAnswer(a)'
      <3> SUFFICES ASSUME NEW a \in DOMAIN wire', MyAnswer(a)' PROVE FALSE
        OBVIOUS
      <3>1. a \in Nat \ {0} /\ MyAnswer(a + 1) /\ a + 1 \in DOMAIN wire
        BY <1>2, <2>4 DEF MyAnswer, Mine
      <3> QED BY <2>3, <3>1
    <2>6. LogReqs' = {}
      BY <1>2, <2>3, NoLogReqs DEF LogReqs
    <2>7. logs'.tab = logs.tab
      <3> DEFINE l == Shown(logs, v)
      <3>1. l.tab = logs.tab /\ DOMAIN l = DOMAIN logs
        BY <1>3, ShownSlot, ShownDomain
      <3>2. logs' = [l EXCEPT !.on = TRUE]
        BY <1>7 DEF StartAnswer
      <3> HIDE DEF l
      <3> QED BY <1>3, <3>1, <3>2
    <2>8. \A a \in DOMAIN wire' : LogAnswer(wire'[a]) => wire'[a].req.win \in 1..win'.gen
      BY <1>1, <1>2, <2>4 DEF Slots
    <2> QED BY <1>2, <2>3, <2>5, <2>6, <2>7, <2>8 DEF Slots
  <1> QED BY <1>5, <1>6, <1>7 DEF LogReceives

LEMMA SlotsInit == ASSUME Init PROVE Slotted
  <1>1. /\ wire = <<>> /\ logs = NoLogs /\ logs.tab = FALSE /\ logs.on = FALSE
    BY DEF Init, PipeInit, LogInit, NoLogs
  <1>2. PICK r : r = Request("snapshot", <<>>)
    OBVIOUS
  <1>3. calls = <<>> \/ calls = <<r>>
    BY <1>2 DEF Init, DashInit
  <1>4. r.req.m = "snapshot"
    BY <1>2 DEF Request
  <1>5. LogReqs = {}
    BY <1>3, <1>4 DEF LogReqs, LogMethods
  <1>6. DOMAIN wire = {}
    BY <1>1
  <1> QED BY <1>1, <1>5, <1>6 DEF Slotted, Slots

LEMMA SlotsStep == ASSUME Slotted, Tabs, Claimed, Shapes, [Next]_vars PROVE Slotted'
  <1>0. IsList(wire)
    BY DEF Shapes
  <1>1. CASE Output
    BY <1>1, OutputSlots
  <1>2. CASE CloseWindow \/ OpenWindow
    BY <1>2, WindowSlots
  <1>3. CASE LogUser
    BY <1>3, UserSlots
  <1>4. CASE LogReceives
    BY <1>4, ReceivesSlots
  <1>5. ASSUME UNCHANGED <<logs, win, faults>>, "quick" \notin faults => LogReqs' \subseteq LogReqs,
               wire' = wire \/ (wire # <<>> /\ wire' = Tail(wire))
        PROVE  Slotted'
    <2>1. Slides(0) \/ Slides(1)
      BY <1>0, <1>5, SlideSame, SlideTake
    <2> QED BY <1>5, <2>1, SlotsStay DEF Slotted
  <1>6. CASE LogHandles
    <2>1. UNCHANGED <<logs, win, faults, wire>>
      BY <1>6 DEF LogHandles, LogsStart, LogsStartPoller, LogsTail, LogsStop, LogsStopPoller, shared
    <2>2. ASSUME "quick" \notin faults PROVE LogReqs' \subseteq LogReqs
      <3>1. IsCalls(calls)
        BY <2>2 DEF Tabs, Served
      <3>1a. PICK i \in DOMAIN calls : \E st, res : Stage(i, st, res)
        BY <1>6, Zenon DEF LogHandles, LogsStart, LogsStartPoller, LogsTail, LogsStop, LogsStopPoller, Finish
      <3>2. PICK st, res : Stage(i, st, res)
        BY <3>1a
      <3>3. DOMAIN calls' = DOMAIN calls /\ \A j \in DOMAIN calls : calls'[j].req = calls[j].req
        BY <3>1, <3>2, StageCalls
      <3> QED BY <3>3 DEF LogReqs
    <2> QED BY <1>5, <2>1, <2>2
  <1>7. ASSUME UNCHANGED <<logs, win, faults>>, IsCalls(calls) => Aside,
               wire' = wire \/ (wire # <<>> /\ wire' = Tail(wire))
        PROVE  Slotted'
    BY <1>5, <1>7, AsideFewer DEF Tabs, Served, Fewer
  <1>8. CASE Handles
    BY <1>7, <1>8, HandlesAside DEF Handles, logv, shared
  <1>9. CASE Renders
    <2>1. Extended(calls, calls') /\ UNCHANGED <<logs, win, faults>>
      BY <1>9, ReceivesOrderly, AutoConnectClaims DEF Renders, logv, shared
    <2>2. wire' = wire \/ (wire # <<>> /\ wire' = Tail(wire))
      BY <1>9 DEF Renders, DashReceives, IdleTimeout, AutoConnect
    <2> QED BY <1>7, <2>1, <2>2, ExtendedAside
  <1>10. CASE User
    <2>1. Extended(calls, calls') /\ UNCHANGED <<logs, win, faults>>
      BY <1>10, UserOrderly DEF User, logv
    <2>2. wire' = wire
      BY <1>10 DEF User, ClickConnect, ClickDisconnect, ClickMode, ClickReconnect, ClickProbe, Clicks
    <2> QED BY <1>7, <2>1, <2>2, ExtendedAside
  <1>11. ASSUME UNCHANGED <<calls, logs, win, faults>>, wire' = wire \/ (wire # <<>> /\ wire' = Tail(wire))
         PROVE  Slotted'
    BY <1>7, <1>11, SameAside
  <1>12. CASE ChainMoves \/ ChainWorld
    BY <1>11, <1>12 DEF ChainMoves, ChainWorld, BringUpDone, BringUpFails, ChainDrops, Noise, logv, shared
  <1>13. CASE Quit \/ Discard \/ DriverTick \/ TimerTick \/ WorkerMoves \/ WorkerPanics \/ UserSync \/ UserSubs
    BY <1>11, <1>13 DEF Quit, CloseInput, Discard, DriverTick, TimerTick, WorkerMoves, WorkerPanics, UserSync, UserSubs,
                      pipe, logv, shared
  <1>14. CASE LogWorld \/ LogMoves
    BY <1>11, <1>14 DEF LogWorld, LogMoves, WriteLog, RotateLog, BridgeLog, OpenLog, PollReads, PollApply, PollFails,
                        PollEnds, pipe, shared
  <1>15. CASE LogPublishes
    BY <1>11, <1>15 DEF LogPublishes, PublishLine, shared
  <1>16. CASE UNCHANGED vars
    BY <1>11, <1>16 DEF vars, pipe, shared, logv
  <1> QED BY <1>1, <1>2, <1>3, <1>4, <1>6, <1>8, <1>9, <1>10, <1>12, <1>13, <1>14, <1>15, <1>16 DEF Next, System

(***************************************************************************)
(* What the ring has, what is on its way and what the tab shows.           *)
(***************************************************************************)
LEMMA LatestSeq ==
  ASSUME NEW X, NEW r \in Seq(X), NEW s \in Nat, Recent(r, s)
  PROVE  \A e \in Latest(r) : e.seq \in Nat /\ 1 <= e.seq /\ e.seq <= s /\ e.seq + TailLimit > s
  <1> SUFFICES ASSUME NEW e \in Latest(r)
               PROVE  e.seq \in Nat /\ 1 <= e.seq /\ e.seq <= s /\ e.seq + TailLimit > s
    OBVIOUS
  <1>1. PICK i \in 0..(TailLimit - 1) : i < Len(r) /\ e = r[Len(r) - i]
    BY LatestIs
  <1>2. e.seq = s - i /\ i < s
    BY <1>1 DEF Recent
  <1>3. TailLimit \in Nat
    BY LogAssumption
  <1> QED BY <1>2, <1>3

\* What Add brings into the latest lines is what it numbers.
LEMMA LatestGrows ==
  ASSUME NEW X, NEW r \in Seq(X), NEW s \in Nat, NEW ls, Len(ls) \in Nat
  PROVE  \A e \in Latest(Capped(Longer(r, s, ls))) : e \in Latest(r) \/ e \in Range(Numbers(s, ls))
  <1>1. PICK u, m, k, q, v : u = Longer(r, s, ls) /\ m = Len(ls) /\ k = Len(r) /\ q = Capped(u) /\ v = Numbers(s, ls)
    OBVIOUS
  <1>2. /\ m \in Nat /\ k \in Nat /\ Len(u) = k + m /\ \A i \in 1..k : u[i] = r[i]
        /\ \A i \in 1..m : u[k + i] = [seq |-> s + i, line |-> ls[i]]
    <2>1. /\ Len(Longer(r, s, ls)) = Len(r) + Len(ls) /\ Len(r) \in Nat
          /\ \A i \in 1..Len(r) : Longer(r, s, ls)[i] = r[i]
          /\ \A i \in 1..Len(ls) : Longer(r, s, ls)[Len(r) + i] = [seq |-> s + i, line |-> ls[i]]
      BY LongerIs
    <2> QED BY <1>1, <2>1
  <1>3. PICK Y : u \in Seq(Y)
    BY <1>1, LongerIs
  <1>4. KeepsTail(u, q) /\ q \in Seq(Y)
    BY <1>1, <1>3, CappedTail, CappedIs
  <1>5. PICK T : T = TailLimit
    OBVIOUS
  <1>6. T \in Nat
    BY <1>5, LogAssumption
  <1>7. \A i \in 1..m : v[i] = [seq |-> s + i, line |-> ls[i]] /\ v[i] \in Range(v)
    <2>1. v = [n \in 1..m |-> [seq |-> s + n, line |-> ls[n]]]
      BY <1>1 DEF Numbers
    <2>2. DOMAIN v = 1..m
      BY <2>1
    <2> QED BY <2>1, <2>2 DEF Range
  <1>8. SUFFICES ASSUME NEW e \in Latest(q) PROVE e \in Latest(r) \/ e \in Range(v)
    BY <1>1
  <1>9. PICK i \in 0..(T - 1) : i < Len(q) /\ e = q[Len(q) - i]
    BY <1>4, <1>5, LatestIs
  <1>10. i < k + m /\ e = u[k + m - i]
    BY <1>2, <1>4, <1>5, <1>9 DEF KeepsTail
  <1>11. CASE i < m
    <2>1. m - i \in 1..m /\ k + m - i = k + (m - i)
      BY <1>2, <1>6, <1>11
    <2>2. e = v[m - i]
      BY <1>2, <1>7, <1>10, <2>1
    <2> QED BY <1>7, <2>1, <2>2
  <1>12. CASE ~(i < m)
    <2>1. PICK j : j = i - m
      OBVIOUS
    <2>2. j \in 0..(T - 1) /\ j < k /\ k + m - i = k - j /\ k - j \in 1..k
      BY <1>2, <1>6, <1>10, <1>12, <2>1
    <2>3. e = r[k - j]
      BY <1>2, <1>10, <2>2
    <2>4. \E n \in 0..(TailLimit - 1) : n < Len(r) /\ e = r[Len(r) - n]
      BY <1>1, <1>5, <2>2, <2>3
    <2> QED BY <2>4, LatestIs
  <1> QED BY <1>11, <1>12

\* What Tail returns ends with the last number.
LEMMA LatestRow ==
  ASSUME NEW X, NEW r \in Seq(X), NEW s \in Nat, Recent(r, s)
  PROVE  Row(Lastly(r, TailLimit), s) /\ Top(Lastly(r, TailLimit)) = s
  <1>1. PICK T, N, v : T = TailLimit /\ N = Len(r) /\ v = Lastly(r, T)
    OBVIOUS
  <1>2. T \in Nat \ {0} /\ N \in Nat
    BY <1>1, LogAssumption
  <1>3. PICK a \in 1..(N + 1) :
          /\ v \in Seq(X) /\ a = (IF N > T THEN N - T + 1 ELSE 1) /\ Len(v) = N + 1 - a
          /\ \A i \in 1..(N + 1 - a) : v[i] = r[a + i - 1] /\ a + i - 1 \in a..N
    <2>1. \E a \in 1..(Len(r) + 1) :
           /\ Lastly(r, T) = SubSeq(r, a, Len(r)) /\ Lastly(r, T) \in Seq(X)
           /\ Len(r) \in Nat /\ a = (IF Len(r) > T THEN Len(r) - T + 1 ELSE 1)
           /\ Len(Lastly(r, T)) = Len(r) + 1 - a
           /\ \A i \in 1..(Len(r) + 1 - a) : Lastly(r, T)[i] = r[a + i - 1] /\ a + i - 1 \in a..Len(r)
      BY <1>2, LastlyIs
    <2> QED BY <1>1, <2>1
  <1>4. PICK n : n = Len(v)
    OBVIOUS
  <1>5. n \in Nat /\ n = N + 1 - a
    BY <1>2, <1>3, <1>4
  <1>6. \A i \in 1..n : v[i].seq = s - (n - i) /\ n - i \in 0..(T - 1) /\ n - i < s
    <2> SUFFICES ASSUME NEW i \in 1..n PROVE v[i].seq = s - (n - i) /\ n - i \in 0..(T - 1) /\ n - i < s
      OBVIOUS
    <2>1. PICK k : k = n - i
      OBVIOUS
    <2>2. k \in 0..(T - 1) /\ k < N /\ a + i - 1 = N - k
      BY <1>2, <1>3, <1>5, <2>1
    <2>3. r[N - k].seq = s - k /\ k < s
      BY <1>1, <2>2 DEF Recent
    <2>4. v[i] = r[N - k]
      BY <1>3, <1>5, <2>2
    <2> QED BY <2>1, <2>2, <2>3, <2>4
  <1>7. Row(v, s)
    <2>1. \A i \in 1..n : v[i].seq \in 1..s
      <3> SUFFICES ASSUME NEW i \in 1..n PROVE v[i].seq \in 1..s
        OBVIOUS
      <3>1. PICK k : k = n - i
        OBVIOUS
      <3>2. v[i].seq = s - k /\ k \in 0..(T - 1) /\ k < s
        BY <1>6, <3>1
      <3> QED BY <1>2, <3>2
    <2>2. \A i, j \in 1..n : i < j => v[i].seq < v[j].seq
      BY <1>5, <1>6
    <2> QED BY <1>3, <1>4, <2>1, <2>2 DEF Row
  <1>8. Top(v) = s
    <2>1. CASE n = 0
      <3>1. v = <<>> /\ N = 0
        BY <1>2, <1>3, <1>4, <1>5, <2>1
      <3>2. ~(0 < s)
        BY <1>1, <1>2, <3>1 DEF Recent
      <3> QED BY <3>1, <3>2 DEF Top
    <2>2. CASE n # 0
      <3>0. v # <<>> /\ n \in 1..n
        BY <1>3, <1>4, <1>5, <2>2
      <3>1. v # <<>> /\ v[n].seq = s - (n - n)
        BY <1>6, <3>0
      <3>2. s - (n - n) = s
        BY <1>5
      <3> QED BY <1>4, <3>1, <3>2 DEF Top
    <2> QED BY <2>1, <2>2
  <1> QED BY <1>1, <1>7, <1>8

Carries == Carried(wire) \cup Carried(queue)
Coming == Carries \cup Range(pend)

\* The lines on their way rise from the head of the output to the last one that
\* is not published.
Order ==
  /\ Upward(wire) /\ Upward(queue) /\ Row(pend, buf.seq)
  /\ Below(Carried(wire), Carried(queue)) /\ Below(Carries, Range(pend))
  /\ \A e \in Carries : e.seq \in 1..buf.seq

\* The tab shows all that is among the latest and not newer than its last line.
Displayed ==
  /\ logs.last \in 0..buf.seq /\ Row(logs.entries, logs.last)
  /\ \A e \in Latest(buf.ring) : e.seq <= logs.last => e \in Range(logs.entries)

\* A backlog, and what comes behind it, has the latest lines.
Backlog(v) ==
  /\ Row(v, buf.seq)
  /\ \A e \in Latest(buf.ring) : e \in Range(v) \/ (e.seq > Top(v) /\ e \in Coming)

MyStart(a) == MyAnswer(a) /\ wire[a].req.m = "logs.start"

Fills ==
  /\ win.open => \A c \in Ready : Mine(c.req) =>
       Backlog(c.res.val) /\ \A e \in Carries : e.seq <= Top(c.res.val)
  /\ win.open => \A a \in DOMAIN wire : MyStart(a) =>
       Backlog(wire[a].res.val) /\ \A i \in 1..(a - 1) : Line(wire[i]) => wire[i].entry.seq <= Top(wire[a].res.val)
  /\ logs.on => \A e \in Latest(buf.ring) : e.seq > logs.last => e \in Coming

\* The bridge serves, no line has been dropped, the tab's user waits for answers,
\* lines are published in their order and answers are not late.
Clean == faults \cap {"quick", "swap", "lag"} = {} /\ bridge.ctx /\ "log:line" \notin lost
Faithful == Order /\ Displayed /\ Fills

LEMMA OrderStays ==
  ASSUME Order, pend' = pend, buf'.seq = buf.seq, Carried(wire') \subseteq Carried(wire),
         Carried(queue') \subseteq Carried(queue), Upward(wire'), Upward(queue')
  PROVE  Order'
  BY DEF Order, Carries, Below

LEMMA DisplayedStays ==
  ASSUME Displayed, UNCHANGED <<buf.seq, buf.ring>>, logs'.last = logs.last, logs'.entries = logs.entries
  PROVE  Displayed'
  BY DEF Displayed

\* The output is d places further, before each answer to the tab.
Shifts(d) ==
  \A a \in DOMAIN wire' : LogAnswer(wire'[a]) =>
    /\ a \in Nat /\ a + d \in DOMAIN wire /\ wire'[a] = wire[a + d]
    /\ \A i \in 1..(a - 1) : wire'[i] = wire[i + d]

LEMMA ShiftSame == ASSUME IsList(wire), wire' = wire PROVE Shifts(0)
  <1>1. PICK S : wire \in Seq(S)
    BY DEF IsList
  <1>2. \A a \in DOMAIN wire : a \in Nat /\ a + 0 = a /\ \A i \in 1..(a - 1) : i + 0 = i
    BY <1>1
  <1> QED BY <1>2 DEF Shifts

LEMMA ShiftPut == ASSUME IsList(wire), NEW x, ~LogAnswer(x), wire' = Append(wire, x) PROVE Shifts(0)
  <1>1. Puts(wire, wire', x)
    BY AppendPuts
  <1>2. PICK n : n = Len(wire) + 1
    OBVIOUS
  <1>3. ASSUME NEW a \in DOMAIN wire', a # n
        PROVE  /\ a \in Nat /\ a + 0 \in DOMAIN wire /\ wire'[a] = wire[a + 0]
               /\ \A i \in 1..(a - 1) : wire'[i] = wire[i + 0]
    <2>1. a \in 1..Len(wire) /\ Len(wire) \in Nat
      BY <1>1, <1>2, <1>3 DEF Puts
    <2>2. a + 0 = a
      BY <2>1
    <2>3. ASSUME NEW i \in 1..(a - 1) PROVE wire'[i] = wire[i + 0]
      <3>1. i \in 1..Len(wire) /\ i + 0 = i
        BY <2>1
      <3> QED BY <1>1, <3>1 DEF Puts
    <2> QED BY <1>1, <2>1, <2>2, <2>3 DEF Puts
  <1>4. wire'[n] = x
    BY <1>1, <1>2 DEF Puts
  <1> QED BY <1>3, <1>4 DEF Shifts

LEMMA ShiftTake == ASSUME IsList(wire), wire # <<>>, wire' = Tail(wire) PROVE Shifts(1)
  <1>1. Takes(wire, wire')
    BY TailTakes
  <1>2. ASSUME NEW a \in DOMAIN wire'
        PROVE  /\ a \in Nat /\ a + 1 \in DOMAIN wire /\ wire'[a] = wire[a + 1]
               /\ \A i \in 1..(a - 1) : wire'[i] = wire[i + 1]
    <2>1. a \in 1..(Len(wire) - 1) /\ Len(wire) \in Nat
      BY <1>1 DEF Takes
    <2>2. \A i \in 1..(a - 1) : i \in 1..(Len(wire) - 1)
      BY <2>1
    <2> QED BY <1>1, <2>1, <2>2 DEF Takes
  <1> QED BY <1>2 DEF Shifts

\* A step that brings no backlog and loses at most the lines D, which no backlog
\* that is under way waits for.
LEMMA FillsStay ==
  ASSUME Fills, UNCHANGED <<buf.seq, buf.ring, win>>, logs'.on = logs.on, logs'.last = logs.last,
         Ready' \subseteq Ready, NEW d \in {0, 1}, Shifts(d),
         NEW D, Coming \subseteq Coming' \cup D, Carries' \subseteq Carries, logs.on => D = {},
         D \subseteq Carries,
         win.open => \A e \in D : \A a \in DOMAIN wire : MyStart(a) => e.seq <= Top(wire[a].res.val),
         \A e \in D : e.seq \in Nat, \A e \in Latest(buf.ring) : e.seq \in Nat, buf.seq \in Nat
  PROVE  Fills'
  <1>1. ASSUME NEW v, Backlog(v), \A e \in D : e.seq <= Top(v) PROVE Backlog(v)'
    <2>1. Row(v, buf.seq) /\ Top(v) \in Nat
      BY <1>1, RowTight DEF Backlog
    <2>2. ASSUME NEW e \in Latest(buf.ring), ~(e \in Range(v)) PROVE e.seq > Top(v) /\ e \in Coming'
      <3>1. e.seq > Top(v) /\ e \in Coming /\ e.seq \in Nat
        BY <1>1, <2>2 DEF Backlog
      <3>2. e \notin D
        BY <1>1, <2>1, <3>1
      <3> QED BY <3>1, <3>2
    <2> QED BY <2>1, <2>2 DEF Backlog
  <1>2. ASSUME win'.open, NEW c \in Ready', Mine(c.req)'
        PROVE  Backlog(c.res.val)' /\ \A e \in Carries' : e.seq <= Top(c.res.val)
    <2>1. Backlog(c.res.val) /\ \A e \in Carries : e.seq <= Top(c.res.val)
      BY <1>2 DEF Fills, Mine
    <2> QED BY <1>1, <2>1
  <1>3. ASSUME win'.open, NEW a \in DOMAIN wire', MyStart(a)'
        PROVE  /\ Backlog(wire[a].res.val)'
               /\ \A i \in 1..(a - 1) : Line(wire'[i]) => wire'[i].entry.seq <= Top(wire'[a].res.val)
    <2>1. /\ a \in Nat /\ a + d \in DOMAIN wire /\ wire'[a] = wire[a + d]
          /\ \A i \in 1..(a - 1) : wire'[i] = wire[i + d]
      BY <1>3 DEF MyStart, MyAnswer, Shifts
    <2>2. MyStart(a + d)
      BY <1>3, <2>1 DEF MyStart, MyAnswer, Mine
    <2>3. PICK v, b : v = wire'[a].res.val /\ b = a + d
      OBVIOUS
    <2>4. Backlog(v) /\ \A i \in 1..(b - 1) : Line(wire[i]) => wire[i].entry.seq <= Top(v)
      BY <1>3, <2>1, <2>2, <2>3 DEF Fills
    <2>5. Backlog(v)'
      BY <1>1, <1>3, <2>1, <2>2, <2>3, <2>4
    <2>6. ASSUME NEW i \in 1..(a - 1), Line(wire'[i]) PROVE wire'[i].entry.seq <= Top(v)
      <3>1. wire'[i] = wire[i + d] /\ i + d \in 1..(b - 1)
        BY <2>1, <2>3
      <3> QED BY <2>4, <2>6, <3>1
    <2> QED BY <2>3, <2>5, <2>6
  <1>4. ASSUME logs'.on, NEW e \in Latest(buf'.ring), e.seq > logs'.last PROVE e \in Coming'
    BY <1>4 DEF Fills
  <1> QED BY <1>2, <1>3, <1>4 DEF Fills

LEMMA LatestNumbers == ASSUME Shapes PROVE \A e \in Latest(buf.ring) : e.seq \in Nat /\ 1 <= e.seq /\ e.seq <= buf.seq /\ e.seq + TailLimit > buf.seq
  <1>1. PICK X : buf.ring \in Seq(X)
    BY DEF Shapes, IsList
  <1> QED BY <1>1, LatestSeq DEF Shapes

LEMMA FaithfulStays ==
  ASSUME Shapes, Faithful, UNCHANGED <<pend, buf.seq, buf.ring, win>>,
         UNCHANGED <<logs.on, logs.last, logs.entries>>, Ready' \subseteq Ready,
         Carried(queue') = Carried(queue), Upward(queue'),
         wire' = wire \/ (wire # <<>> /\ wire' = Tail(wire) /\ (Line(wire[1]) => ~logs.on))
  PROVE  Faithful'
  <1>1. IsList(wire) /\ buf.seq \in Nat /\ \A e \in Latest(buf.ring) : e.seq \in Nat
    BY LatestNumbers DEF Shapes
  <1>2. Displayed'
    BY DisplayedStays DEF Faithful
  <1>3. CASE wire' = wire
    <2>1. Order'
      BY <1>3, OrderStays DEF Faithful, Order
    <2>2. Carries' = Carries /\ Coming' = Coming
      BY <1>3 DEF Carries, Coming
    <2>3. Shifts(0)
      BY <1>1, <1>3, ShiftSame
    <2>4. PICK D : D = {}
      OBVIOUS
    <2>5. /\ Coming \subseteq Coming' \cup D /\ Carries' \subseteq Carries /\ D \subseteq Carries
          /\ \A e \in D : e.seq \in Nat
      BY <2>2, <2>4
    <2>6. Fills'
      BY <1>1, <2>3, <2>4, <2>5, FillsStay DEF Faithful
    <2> QED BY <1>2, <2>1, <2>6 DEF Faithful
  <1>4. CASE wire # <<>> /\ wire' = Tail(wire) /\ (Line(wire[1]) => ~logs.on)
    <2>1. Takes(wire, wire') /\ Shifts(1)
      BY <1>1, <1>4, TailTakes, ShiftTake
    <2>2. Carried(wire') \subseteq Carried(wire) /\ Upward(wire')
      BY <2>1, TakesCarried DEF Faithful, Order
    <2>3. Order'
      BY <2>2, OrderStays DEF Faithful, Order
    <2>4. PICK D : D = (IF Line(wire[1]) THEN {wire[1].entry} ELSE {})
      OBVIOUS
    <2>5. D \subseteq Carried(wire) /\ Carried(wire) = Carried(wire') \cup D
      BY <2>1, <2>4, TakesCarried
    <2>6. Coming \subseteq Coming' \cup D /\ Carries' \subseteq Carries /\ D \subseteq Carries
      BY <2>2, <2>5 DEF Carries, Coming
    <2>7. \A e \in D : e.seq \in Nat
      BY <1>1, <2>6 DEF Faithful, Order
    <2>8. ASSUME win.open, NEW e \in D, NEW a \in DOMAIN wire, MyStart(a) PROVE e.seq <= Top(wire[a].res.val)
      <3>1. Line(wire[1]) /\ e = wire[1].entry
        BY <2>4, <2>8
      <3>2. a # 1
        BY <2>8, <3>1 DEF MyStart, MyAnswer, LogAnswer, Line
      <3>3. 1 \in 1..(a - 1)
        BY <2>1, <3>2 DEF Takes
      <3> QED BY <2>8, <3>1, <3>3 DEF Faithful, Fills
    <2>9. logs.on => D = {}
      BY <1>4, <2>4
    <2>10. Fills'
      BY <1>1, <2>1, <2>6, <2>7, <2>8, <2>9, FillsStay DEF Faithful
    <2> QED BY <1>2, <2>3, <2>10 DEF Faithful
  <1> QED BY <1>3, <1>4

LEMMA HushedCarries ==
  ASSUME Hushed, IsList(queue), bridge.fwd, "log:line" \notin lost', Upward(queue)
  PROVE  Carried(queue') = Carried(queue) /\ Upward(queue')
  <1>1. CASE UNCHANGED <<queue, lost>>
    BY <1>1
  <1>2. ASSUME NEW es, NoLines(es), Publish(es) PROVE Carried(queue') = Carried(queue) /\ Upward(queue')
    <2>1. IsList(es) /\ Carried(es) = {}
      BY <1>2 DEF NoLines
    <2>2. Upward(es) /\ Below(Carried(queue), Carried(es))
      <3>1. \A i \in DOMAIN es : ~Line(es[i])
        BY <2>1 DEF Carried
      <3> QED BY <2>1, <3>1 DEF Upward, Below
    <2> QED BY <1>2, <2>1, <2>2, PublishCarries
  <1> QED BY <1>1, <1>2 DEF Hushed

\* A clean state has a clean one before it.
LEMMA CleanBefore ==
  ASSUME Shapes, Draining, [Next]_vars, Clean'
  PROVE  Clean /\ faults' = faults /\ bridge.fwd /\ lost \subseteq lost'
  <1>1. faults' = faults /\ bridge.ctx
    <2>1. bridge \in [eof : BOOLEAN, ctx : BOOLEAN, fwd : BOOLEAN] /\ bridge'.ctx
      BY DEF Draining, Clean
    <2>2. CASE Output \/ Quit
      BY <2>1, <2>2 DEF Output, Quit, PipeStep, Forward, ForwarderExit, ServeReturns, WriteAnswer, CloseInput
    <2>3. CASE bridge' = bridge /\ faults' = faults
      BY <2>1, <2>3
    <2>4. CASE Handles \/ ChainMoves \/ ChainWorld \/ Renders \/ User \/ CloseWindow \/ OpenWindow \/ Discard
      BY <2>3, <2>4 DEF Handles, ChainMoves, ChainWorld, Renders, User, CloseWindow, OpenWindow, Discard, pipe, shared
    <2>5. CASE DriverTick \/ TimerTick \/ WorkerMoves \/ WorkerPanics \/ UserSync \/ UserSubs
      BY <2>3, <2>5 DEF DriverTick, TimerTick, WorkerMoves, WorkerPanics, UserSync, UserSubs, pipe, shared
    <2>6. CASE LogUser \/ LogHandles \/ LogWorld \/ LogMoves \/ LogPublishes \/ LogReceives
      BY <2>3, <2>6 DEF LogUser, LogHandles, LogWorld, LogMoves, LogPublishes, LogReceives, pipe, shared
    <2>7. CASE UNCHANGED vars
      BY <2>3, <2>7 DEF vars, pipe, shared
    <2> QED BY <2>2, <2>4, <2>5, <2>6, <2>7 DEF Next, System
  <1>2. lost \subseteq lost'
    <2>0. IsList(queue)
      BY DEF Shapes
    <2>1. ASSUME Hushed PROVE lost \subseteq lost'
      BY <2>0, <2>1, PublishCarries DEF Hushed, NoLines
    <2>2. CASE Handles \/ ChainMoves \/ ChainWorld \/ WorkerMoves \/ UserSync \/ UserSubs
      BY <2>1, <2>2, HandlesHushed, ChainHushed, RefreshHushed
    <2>3. CASE LogPublishes
      <3>1. PICK j \in DOMAIN pend : PublishLine(j)
        BY <2>3 DEF LogPublishes
      <3> DEFINE x == [topic |-> "log:line", entry |-> pend[j]]
      <3>2. Publish(<<x>>)
        BY <3>1 DEF PublishLine
      <3> HIDE DEF x
      <3>3. <<x>> \in Seq({x})
        OBVIOUS
      <3> QED BY <2>0, <3>2, <3>3, PublishCarries DEF IsList
    <2>4. CASE lost' = lost
      BY <2>4
    <2>5. CASE Output \/ Quit
      BY <2>4, <2>5 DEF Output, Quit, PipeStep, Forward, ForwarderExit, ServeReturns, WriteAnswer, CloseInput
    <2>6. CASE Renders \/ Discard
      BY <2>4, <2>6 DEF Renders, Discard, DashReceives, IdleTimeout, AutoConnect
    <2>7. CASE User \/ CloseWindow \/ OpenWindow
      BY <2>4, <2>7 DEF User, ClickConnect, ClickDisconnect, ClickMode, ClickReconnect, ClickProbe, Clicks,
                       CloseWindow, OpenWindow, pipe
    <2>8. CASE DriverTick \/ TimerTick \/ WorkerPanics \/ LogUser \/ LogHandles \/ LogWorld \/ LogMoves \/ LogReceives
      BY <2>4, <2>8 DEF DriverTick, TimerTick, WorkerPanics, LogUser, LogHandles, LogWorld, LogMoves, LogReceives,
                       pipe, shared
    <2>9. CASE UNCHANGED vars
      BY <2>4, <2>9 DEF vars, pipe
    <2> QED BY <2>2, <2>3, <2>5, <2>6, <2>7, <2>8, <2>9 DEF Next, System
  <1> QED BY <1>1, <1>2 DEF Clean, Draining

LEMMA NoneReady == ASSUME NoLogCalls PROVE Ready = {}
  BY DEF NoLogCalls, Ready, LogMethods
\* A tab that takes lines has nothing under way and is served.
LEMMA OnServed ==
  ASSUME Slots, Served, logs.on
  PROVE  /\ logs.tab /\ win.open /\ NoLogCalls /\ buf.subs > 0 /\ Ready = {}
         /\ \A a \in DOMAIN wire : ~MyAnswer(a)
  <1>1. logs.tab /\ win.open
    BY DEF Slots
  <1>2. LogReqs = {}
    BY <1>1 DEF Slots
  <1>3. NoLogCalls
    BY <1>2, NoLogReqs
  <1>4. buf.subs > 0
    BY <1>1, <1>3 DEF Served
  <1>5. \A a \in DOMAIN wire : ~MyAnswer(a)
    BY <1>1 DEF Slots
  <1> QED BY <1>1, <1>3, <1>4, <1>5, NoneReady

\* A backlog that is ready belongs to a tab that is counted.
LEMMA ReadyCounted == ASSUME Served, NEW c \in Ready PROVE buf.subs > 0
  <1>1. PICK i \in DOMAIN calls : c = calls[i] /\ calls[i].req.m = "logs.start" /\ calls[i].st = "done"
    BY DEF Ready
  <1>2. Phase(calls[i])
    BY <1>1 DEF Served, IsLogCall, LogMethods
  <1> QED BY <1>1, <1>2 DEF Phase

\* New lines come behind all others, and to the output if a tab is counted.
LEMMA AddFaithful ==
  ASSUME Shapes, Streamed, Faithful, Slots, Served, NEW ls, Len(ls) \in Nat, Add(ls),
         UNCHANGED <<queue, wire, calls, logs, win>>
  PROVE  Faithful'
  <1>1. buf'.seq = buf.seq + Len(ls) /\ buf'.ring = Capped(Longer(buf.ring, buf.seq, ls))
    BY AddIs
  <1>2. PICK s, n, v : s = buf.seq /\ n = buf'.seq /\ v = Numbers(buf.seq, ls)
    OBVIOUS
  <1>3. s \in Nat /\ n \in Nat /\ s <= n /\ n = s + Len(ls)
    BY <1>1, <1>2 DEF Shapes
  <1>4. Row(v, n) /\ (\A e \in Range(v) : e.seq > s /\ e.seq \in Nat) /\ \A i \in 1..Len(v) : v[i].seq > s
    <2>1. /\ Row(Numbers(s, ls), s + Len(ls)) /\ Len(Numbers(s, ls)) = Len(ls)
          /\ \A i \in 1..Len(ls) : Numbers(s, ls)[i].seq = s + i
          /\ \A e \in Range(Numbers(s, ls)) : e.seq > s /\ e.seq \in Nat
      BY <1>3, NumbersRow
    <2>2. /\ Row(v, n) /\ Len(v) = Len(ls) /\ (\A i \in 1..Len(ls) : v[i].seq = s + i)
          /\ \A e \in Range(v) : e.seq > s /\ e.seq \in Nat
      BY <1>2, <1>3, <2>1
    <2> QED BY <1>3, <2>2
  <1>5. pend' = (IF buf.subs > 0 THEN pend \o v ELSE pend)
    BY <1>2, AddPends DEF Shapes
  <1>6. Row(pend, s)
    BY <1>2 DEF Faithful, Order
  <1>7. /\ Row(pend', n) /\ Range(pend) \subseteq Range(pend') /\ Range(pend') \subseteq Range(pend) \cup Range(v)
        /\ buf.subs > 0 => Range(v) \subseteq Range(pend')
    <2>1. CASE buf.subs > 0
      BY <1>3, <1>4, <1>5, <1>6, <2>1, RowJoin
    <2>2. CASE ~(buf.subs > 0)
      BY <1>3, <1>5, <1>6, <2>2, RowGrows
    <2> QED BY <2>1, <2>2
  <1>8. Carries' = Carries /\ Coming \subseteq Coming' /\ (buf.subs > 0 => Range(v) \subseteq Coming')
    BY <1>7 DEF Carries, Coming
  <1>9. \A e \in Latest(buf'.ring) : e \in Latest(buf.ring) \/ e \in Range(v)
    <2>1. PICK X : buf.ring \in Seq(X)
      BY DEF Shapes, IsList
    <2>2. PICK r, q : r = buf.ring /\ q = buf'.ring
      OBVIOUS
    <2>3. \A e \in Latest(Capped(Longer(r, s, ls))) : e \in Latest(r) \/ e \in Range(Numbers(s, ls))
      BY <1>3, <2>1, <2>2, LatestGrows
    <2>4. q = Capped(Longer(r, s, ls)) /\ v = Numbers(s, ls)
      BY <1>1, <1>2, <2>2
    <2> QED BY <2>2, <2>3, <2>4
  <1>10. Order'
    <2>1. \A e \in Carries : e.seq \in Nat /\ e.seq <= s /\ e.seq \in 1..n
      BY <1>2, <1>3 DEF Faithful, Order
    <2>2. Below(Carries, Range(pend'))
      <3> SUFFICES ASSUME NEW e \in Carries, NEW f \in Range(pend') PROVE e.seq < f.seq
        BY DEF Below
      <3>1. CASE f \in Range(pend)
        BY <3>1 DEF Faithful, Order, Below
      <3>2. CASE f \in Range(v)
        BY <1>3, <1>4, <2>1, <3>2
      <3> QED BY <1>7, <3>1, <3>2
    <2>3. Upward(wire') /\ Upward(queue') /\ Below(Carried(wire'), Carried(queue'))
      BY DEF Faithful, Order
    <2>4. Row(pend', buf'.seq) /\ Below(Carries', Range(pend')) /\ \A e \in Carries' : e.seq \in 1..buf'.seq
      BY <1>2, <1>7, <1>8, <2>1, <2>2
    <2> QED BY <2>3, <2>4 DEF Order
  <1>11. logs.last \in 0..s
    BY <1>2 DEF Faithful, Displayed
  <1>12. Displayed'
    <2>1. logs.last \in 0..n
      BY <1>3, <1>11
    <2>2. ASSUME NEW e \in Latest(buf'.ring), e.seq <= logs.last PROVE e \in Range(logs.entries)
      <3>1. CASE e \in Latest(buf.ring)
        BY <2>2, <3>1 DEF Faithful, Displayed
      <3>2. CASE e \in Range(v)
        BY <1>3, <1>4, <1>11, <2>2, <3>2
      <3> QED BY <1>9, <3>1, <3>2
    <2> QED BY <1>2, <2>1, <2>2 DEF Faithful, Displayed
  <1>13. ASSUME NEW w, Backlog(w), buf.subs > 0 PROVE Backlog(w)'
    <2>1. Row(w, s) /\ Row(w, n)
      BY <1>2, <1>3, <1>13, RowGrows DEF Backlog
    <2>2. Top(w) \in 0..s
      BY <1>3, <2>1, RowTop
    <2>3. ASSUME NEW e \in Latest(buf'.ring) PROVE e \in Range(w) \/ (e.seq > Top(w) /\ e \in Coming')
      <3>1. CASE e \in Latest(buf.ring)
        BY <1>8, <1>13, <3>1 DEF Backlog
      <3>2. CASE e \in Range(v)
        <4>1. e.seq > Top(w)
          BY <1>3, <1>4, <2>2, <3>2
        <4> QED BY <1>8, <1>13, <3>2, <4>1
      <3> QED BY <1>9, <3>1, <3>2
    <2> QED BY <1>2, <2>1, <2>3 DEF Backlog
  <1>14. ASSUME win.open, NEW c \in Ready, Mine(c.req)
         PROVE  Backlog(c.res.val)' /\ \A e \in Carries' : e.seq <= Top(c.res.val)
    <2>1. Backlog(c.res.val) /\ \A e \in Carries : e.seq <= Top(c.res.val)
      BY <1>14 DEF Faithful, Fills
    <2> QED BY <1>8, <1>13, <2>1, ReadyCounted
  <1>15. ASSUME win.open, NEW a \in DOMAIN wire, MyStart(a)
         PROVE  /\ Backlog(wire[a].res.val)'
                /\ \A i \in 1..(a - 1) : Line(wire[i]) => wire[i].entry.seq <= Top(wire[a].res.val)
    <2>1. PICK w : w = wire[a].res.val
      OBVIOUS
    <2>2. Backlog(w) /\ \A i \in 1..(a - 1) : Line(wire[i]) => wire[i].entry.seq <= Top(w)
      BY <1>15, <2>1 DEF Faithful, Fills
    <2>3. buf.subs > 0
      BY <1>15 DEF MyStart, Slots, Served
    <2>4. Backlog(w)'
      BY <1>13, <2>2, <2>3
    <2>5. w = (wire[a].res.val)'
      BY <2>1
    <2> QED BY <2>1, <2>2, <2>4, <2>5
  <1>16. ASSUME logs.on, NEW e \in Latest(buf'.ring), e.seq > logs.last PROVE e \in Coming'
    <2>1. CASE e \in Latest(buf.ring)
      BY <1>8, <1>16, <2>1 DEF Faithful, Fills
    <2>2. CASE e \in Range(v)
      BY <1>8, <1>16, <2>2, OnServed
    <2> QED BY <1>9, <2>1, <2>2
  <1>17. Ready' = Ready /\ (\A r : Mine(r)' <=> Mine(r)) /\ \A a : MyStart(a)' <=> MyStart(a)
    BY DEF Ready, Mine, MyStart, MyAnswer
  <1>18. Fills'
    <2>1. wire' = wire /\ win' = win /\ logs' = logs
      OBVIOUS
    <2>2. win'.open => \A c \in Ready' : Mine(c.req)' =>
            Backlog(c.res.val)' /\ \A e \in Carries' : e.seq <= Top(c.res.val)
      BY <1>14, <1>17
    <2>3. win'.open => \A a \in DOMAIN wire' : MyStart(a)' =>
            /\ Backlog(wire[a].res.val)'
            /\ \A i \in 1..(a - 1) : Line(wire'[i]) => wire'[i].entry.seq <= Top(wire'[a].res.val)
      BY <1>15, <1>17, <2>1
    <2>4. logs'.on => \A e \in Latest(buf'.ring) : e.seq > logs'.last => e \in Coming'
      BY <1>16, <2>1
    <2> QED BY <2>2, <2>3, <2>4 DEF Fills
  <1> QED BY <1>10, <1>12, <1>18 DEF Faithful

\* The forwarder takes the channel's head to the end of the output.
LEMMA ForwardFaithful ==
  ASSUME Shapes, Faithful, Forward, UNCHANGED <<pend, buf, logs>>
  PROVE  Faithful'
  <1>1. /\ queue # <<>> /\ queue' = Tail(queue) /\ calls' = calls /\ win' = win
        /\ wire' = IF Head(queue).topic \in Topics THEN Append(wire, Head(queue)) ELSE wire
    BY DEF Forward
  <1>2. IsList(queue) /\ IsList(wire) /\ buf.seq \in Nat /\ \A e \in Latest(buf.ring) : e.seq \in Nat
    BY LatestNumbers DEF Shapes
  <1>3. Takes(queue, queue')
    BY <1>1, <1>2, TailTakes
  <1>4. PICK x : x = queue[1]
    OBVIOUS
  <1>5. wire' = IF x.topic \in Topics THEN Append(wire, x) ELSE wire
    BY <1>1, <1>3, <1>4 DEF Takes
  <1>6. /\ Carried(queue') \subseteq Carried(queue) /\ Upward(queue')
        /\ Line(x) => Carried(queue) = Carried(queue') \cup {x.entry} /\ \A e \in Carried(queue') : x.entry.seq < e.seq
        /\ ~Line(x) => Carried(queue) = Carried(queue')
    BY <1>3, <1>4, TakesCarried DEF Faithful, Order
  <1>7. Ready' = Ready
    BY <1>1 DEF Ready
  <1>8. PICK D : D = {}
    OBVIOUS
  <1>9. CASE Line(x)
    <2>1. wire' = Append(wire, x) /\ ~LogAnswer(x)
      BY <1>5, <1>9 DEF Line, Topics, LogAnswer
    <2>2. Puts(wire, wire', x)
      BY <1>2, <2>1, AppendPuts
    <2>3. x.entry \in Carried(queue)
      BY <1>6, <1>9
    <2>4. Carried(wire') = Carried(wire) \cup {x.entry} /\ Upward(wire')
      <3>1. \A e \in Carried(wire) : e.seq < x.entry.seq
        BY <2>3 DEF Faithful, Order, Below
      <3> QED BY <1>9, <2>2, <3>1, PutsCarried DEF Faithful, Order
    <2>5. Carries' = Carries /\ Coming' = Coming
      BY <1>6, <1>9, <2>4 DEF Carries, Coming
    <2>6. Below(Carried(wire'), Carried(queue'))
      BY <1>6, <1>9, <2>4 DEF Faithful, Order, Below
    <2>7. Order'
      BY <1>6, <2>4, <2>5, <2>6 DEF Faithful, Order
    <2>8. Shifts(0)
      BY <1>2, <2>1, ShiftPut
    <2>9. /\ Coming \subseteq Coming' \cup D /\ Carries' \subseteq Carries /\ D \subseteq Carries
          /\ \A e \in D : e.seq \in Nat
      BY <1>8, <2>5
    <2>10. Fills'
      BY <1>1, <1>2, <1>7, <1>8, <2>8, <2>9, FillsStay DEF Faithful
    <2> QED BY <2>7, <2>10, DisplayedStays DEF Faithful
  <1>10. CASE ~Line(x)
    <2>1. Carried(queue') = Carried(queue)
      BY <1>6, <1>10
    <2>2. CASE wire' = wire
      BY <1>1, <1>6, <1>7, <2>1, <2>2, FaithfulStays
    <2>3. CASE wire' = Append(wire, x) /\ x.topic \in Topics
      <3>1. Puts(wire, wire', x) /\ ~LogAnswer(x)
        BY <1>2, <2>3, AppendPuts DEF Topics, LogAnswer
      <3>2. Carried(wire') = Carried(wire) /\ Upward(wire')
        BY <1>10, <3>1, PutsCarried DEF Faithful, Order
      <3>3. Order'
        BY <1>1, <1>6, <2>1, <3>2, OrderStays DEF Faithful
      <3>4. Carries' = Carries /\ Coming' = Coming
        BY <2>1, <3>2 DEF Carries, Coming
      <3>5. /\ Coming \subseteq Coming' \cup D /\ Carries' \subseteq Carries /\ D \subseteq Carries
            /\ \A e \in D : e.seq \in Nat
        BY <1>8, <3>4
      <3>6. Shifts(0)
        BY <1>2, <2>3, <3>1, ShiftPut
      <3>7. Fills'
        BY <1>1, <1>2, <1>7, <1>8, <3>5, <3>6, FillsStay DEF Faithful
      <3> QED BY <3>3, <3>7, DisplayedStays DEF Faithful
    <2> QED BY <1>5, <2>2, <2>3
  <1> QED BY <1>9, <1>10

\* The answer with the backlog comes behind the lines that the backlog has.
LEMMA AnswerFaithful ==
  ASSUME Shapes, Faithful, Slots, Served, NEW i \in DOMAIN calls, WriteAnswer(i), UNCHANGED <<pend, buf, logs>>
  PROVE  Faithful'
  <1> DEFINE x == [topic |-> "answer", req |-> calls[i].req, res |-> calls[i].res]
  <1>1. /\ wire' = Append(wire, x) /\ x.topic = "answer" /\ x.req = calls[i].req /\ x.res = calls[i].res
        /\ queue' = queue /\ win' = win /\ calls[i].st = "done"
    BY DEF WriteAnswer
  <1> HIDE DEF x
  <1>2. IsList(wire) /\ buf.seq \in Nat /\ \A e \in Latest(buf.ring) : e.seq \in Nat
    BY LatestNumbers DEF Shapes
  <1>3. Puts(wire, wire', x) /\ ~Line(x)
    BY <1>1, <1>2, AppendPuts DEF Line
  <1>4. Carried(wire') = Carried(wire) /\ Upward(wire')
    BY <1>3, PutsCarried DEF Faithful, Order
  <1>5. Order'
    BY <1>1, <1>4, OrderStays DEF Faithful, Order
  <1>6. Carries' = Carries /\ Coming' = Coming
    BY <1>1, <1>4 DEF Carries, Coming
  <1>7. Ready' \subseteq Ready
    BY AnswerFewer DEF Served, Fewer
  <1>8. Displayed'
    BY DisplayedStays DEF Faithful
  <1>9. CASE ~LogAnswer(x)
    <2>1. PICK D : D = {}
      OBVIOUS
    <2>2. /\ Coming \subseteq Coming' \cup D /\ Carries' \subseteq Carries /\ D \subseteq Carries
          /\ \A e \in D : e.seq \in Nat
      BY <1>6, <2>1
    <2>3. Shifts(0)
      BY <1>1, <1>2, <1>9, ShiftPut
    <2>4. Fills'
      BY <1>1, <1>2, <1>7, <2>1, <2>2, <2>3, FillsStay DEF Faithful
    <2> QED BY <1>5, <1>8, <2>4 DEF Faithful
  <1>10. CASE LogAnswer(x)
    <2>1. IsLogCall(i)
      BY <1>1, <1>10 DEF LogAnswer, IsLogCall
    <2>2. NoLogCalls'
      BY <2>1, AnswerLast
    <2>3. Ready' = {}
      BY <2>2 DEF NoLogCalls, Ready, LogMethods
    <2>4. ~NoLogCalls
      BY <2>1 DEF NoLogCalls, IsLogCall, LogMethods
    <2>5. PICK n : n = Len(wire) + 1
      OBVIOUS
    <2>6. /\ \A a \in DOMAIN wire' : a # n => a \in DOMAIN wire /\ wire'[a] = wire[a]
          /\ wire'[n] = x /\ n \in Nat /\ \A j \in 1..(n - 1) : j \in DOMAIN wire /\ wire'[j] = wire[j]
      BY <1>3, <2>5 DEF Puts
    <2>7. ASSUME win.open, NEW a \in DOMAIN wire', MyStart(a)'
          PROVE  /\ Backlog(wire[a].res.val)'
                 /\ \A j \in 1..(a - 1) : Line(wire'[j]) => wire'[j].entry.seq <= Top(wire'[a].res.val)
      <3>1. a = n
        <4>1. a # n => MyAnswer(a) /\ a \in DOMAIN wire
          BY <1>1, <2>6, <2>7 DEF MyStart, MyAnswer, Mine
        <4> QED BY <2>4, <2>7, <4>1 DEF Slots
      <3>2. x.req.m = "logs.start" /\ Mine(x.req)
        BY <1>1, <2>6, <2>7, <3>1 DEF MyStart, MyAnswer, Mine
      <3>3. calls[i] \in Ready /\ Mine(calls[i].req)
        BY <1>1, <3>2 DEF Ready
      <3>4. PICK v : v = calls[i].res.val
        OBVIOUS
      <3>5. Backlog(v) /\ \A e \in Carries : e.seq <= Top(v)
        BY <2>7, <3>3, <3>4 DEF Faithful, Fills
      <3>6. Backlog(v)'
        BY <1>6, <3>5 DEF Backlog
      <3>7. wire'[a].res.val = v
        BY <1>1, <2>6, <3>1, <3>4
      <3>8. ASSUME NEW j \in 1..(a - 1), Line(wire'[j]) PROVE wire'[j].entry.seq <= Top(v)
        <4>1. j \in DOMAIN wire /\ wire'[j] = wire[j]
          BY <2>6, <3>1
        <4>2. wire[j].entry \in Carries
          BY <3>8, <4>1 DEF Carries, Carried
        <4> QED BY <3>5, <4>1, <4>2
      <3> QED BY <3>6, <3>7, <3>8
    <2>8. ~logs.on
      <3> SUFFICES ASSUME logs.on PROVE FALSE
        OBVIOUS
      <3> QED BY <2>4, OnServed
    <2>9. Fills'
      BY <1>1, <2>3, <2>7, <2>8 DEF Fills
    <2> QED BY <1>5, <1>8, <2>9 DEF Faithful
  <1> QED BY <1>9, <1>10

LEMMA OutputFaithful ==
  ASSUME Shapes, Faithful, Slots, Served, Output
  PROVE  Faithful'
  <1>1. UNCHANGED <<pend, buf, logs>>
    BY DEF Output, logv
  <1>2. CASE Forward
    BY <1>1, <1>2, ForwardFaithful
  <1>3. CASE \E i \in DOMAIN calls : WriteAnswer(i)
    BY <1>1, <1>3, AnswerFaithful
  <1>4. CASE ForwarderExit \/ ServeReturns
    <2>1. UNCHANGED <<queue, wire, calls, win>>
      BY <1>4 DEF ForwarderExit, ServeReturns
    <2> QED BY <1>1, <2>1, FaithfulStays, SameFewer DEF Faithful, Order, Fewer
  <1> QED BY <1>2, <1>3, <1>4 DEF Output, PipeStep

LEMMA RowTail ==
  ASSUME NEW n \in Nat, NEW s, Row(s, n), s # <<>>
  PROVE  /\ Row(Tail(s), n) /\ Range(s) = Range(Tail(s)) \cup {s[1]} /\ s[1].seq \in 1..n
         /\ \A e \in Range(Tail(s)) : s[1].seq < e.seq
  <1>1. /\ Len(s) \in Nat /\ DOMAIN s = 1..Len(s) /\ Range(s) = {s[i] : i \in 1..Len(s)} /\ Len(s) # 0
    BY RowIs
  <1>2. IsList(s)
    BY DEF Row, IsList
  <1>3. PICK t, k : t = Tail(s) /\ k = Len(s)
    OBVIOUS
  <1>4. IsList(t) /\ DOMAIN t = 1..(k - 1) /\ Len(t) = k - 1 /\ \A i \in 1..(k - 1) : t[i] = s[i + 1]
    <2>1. Takes(s, Tail(s))
      BY <1>2, TailTakes
    <2> QED BY <1>3, <2>1 DEF Takes
  <1>5. \A i \in 1..(k - 1) : i + 1 \in 1..k
    BY <1>1, <1>3
  <1>6. \A i, j \in 1..k : i < j => s[i].seq < s[j].seq
    BY <1>3 DEF Row
  <1>7. \A i \in 1..k : s[i].seq \in 1..n
    BY <1>3 DEF Row
  <1>8. Row(t, n)
    <2>1. \A i \in 1..Len(t) : t[i].seq \in 1..n
      BY <1>4, <1>5, <1>7
    <2>2. ASSUME NEW i \in 1..(k - 1), NEW j \in 1..(k - 1), i < j PROVE t[i].seq < t[j].seq
      <3>1. i + 1 < j + 1 /\ i + 1 \in 1..k /\ j + 1 \in 1..k
        BY <1>1, <1>3, <2>2
      <3> QED BY <1>4, <1>6, <3>1
    <2> QED BY <1>4, <2>1, <2>2 DEF Row, IsList
  <1>9. Range(t) = {t[i] : i \in 1..(k - 1)}
    BY <1>4, Zenon DEF Range
  <1>10. \A e \in Range(t) : \E j \in 1..k : e = s[j] /\ 1 < j
    BY <1>1, <1>3, <1>4, <1>5, <1>9
  <1>11. \A e \in Range(s) : e = s[1] \/ e \in Range(t)
    <2> SUFFICES ASSUME NEW i \in 1..k, i # 1 PROVE s[i] \in Range(t)
      BY <1>1, <1>3
    <2>1. i - 1 \in 1..(k - 1) /\ (i - 1) + 1 = i
      BY <1>1, <1>3
    <2> QED BY <1>4, <1>9, <2>1
  <1>12. 1 \in 1..k
    BY <1>1, <1>3
  <1>13. Range(s) = Range(t) \cup {s[1]} /\ s[1].seq \in 1..n
    BY <1>1, <1>3, <1>7, <1>10, <1>11, <1>12
  <1>14. \A e \in Range(t) : s[1].seq < e.seq
    BY <1>6, <1>10, <1>12
  <1> QED BY <1>3, <1>8, <1>13, <1>14

\* The publish of the oldest line that waits for it.
LEMMA LinesFaithful ==
  ASSUME Shapes, Faithful, bridge.fwd, "log:line" \notin lost', faults \cap {"swap", "lag"} = {}, LogPublishes
  PROVE  Faithful'
  <1>1. PICK j \in DOMAIN pend : PublishLine(j)
    BY DEF LogPublishes
  <1>2. j = 1 /\ \A i \in DOMAIN calls : calls[i].st # "done"
    BY <1>1 DEF PublishLine, Prompt
  <1> DEFINE x == [topic |-> "log:line", entry |-> pend[1]]
  <1>3. Publish(<<x>>) /\ pend' = RemoveAt(pend, 1) /\ UNCHANGED <<calls, wire, win, buf, logs>>
    BY <1>1, <1>2 DEF PublishLine, LogPublishes, shared
  <1>4. Line(x) /\ x.entry = pend[1]
    BY DEF Line
  <1> HIDE DEF x
  <1>5. IsList(queue) /\ IsList(pend) /\ buf.seq \in Nat
    BY DEF Shapes
  <1>6. pend # <<>> /\ pend' = Tail(pend)
    BY <1>1, <1>2, <1>3, <1>5, PendRemoved, Zenon
  <1>7. PICK p : p = pend[1]
    OBVIOUS
  <1>8. /\ Row(pend', buf.seq) /\ Range(pend) = Range(pend') \cup {p} /\ p.seq \in 1..buf.seq
        /\ \A e \in Range(pend') : p.seq < e.seq
    <2>1. Row(pend, buf.seq)
      BY DEF Faithful, Order
    <2> QED BY <1>5, <1>6, <1>7, <2>1, RowTail
  <1>9. IsList(<<x>>) /\ Carried(<<x>>) = {p} /\ Upward(<<x>>)
    <2>1. <<x>> \in Seq({x})
      OBVIOUS
    <2>2. PICK t : t = <<x>>
      OBVIOUS
    <2>3. DOMAIN t = {1} /\ t[1] = x
      BY <2>2
    <2>4. Carried(t) = {p} /\ Upward(t)
      BY <1>4, <1>7, <2>3 DEF Carried, Upward
    <2> QED BY <2>1, <2>2, <2>4 DEF IsList
  <1>10. Carried(queue') = Carried(queue) \cup {p} /\ Upward(queue')
    <2>1. Below(Carried(queue), Carried(<<x>>)) /\ Upward(queue)
      BY <1>8, <1>9 DEF Faithful, Order, Below, Carries
    <2> QED BY <1>3, <1>5, <1>9, <2>1, PublishCarries
  <1>11. Carries' = Carries \cup {p} /\ Coming' = Coming
    BY <1>3, <1>8, <1>10 DEF Carries, Coming
  <1>12. Order'
    <2>1. Below(Carried(wire'), Carried(queue'))
      BY <1>3, <1>8, <1>10 DEF Faithful, Order, Below, Carries
    <2>2. Below(Carries', Range(pend'))
      BY <1>8, <1>11 DEF Faithful, Order, Below
    <2>3. \A e \in Carries' : e.seq \in 1..buf'.seq
      BY <1>3, <1>8, <1>11 DEF Faithful, Order
    <2> QED BY <1>3, <1>8, <1>10, <2>1, <2>2, <2>3 DEF Faithful, Order
  <1>13. Fills'
    <2>1. Ready' = {}
      BY <1>2, <1>3 DEF Ready
    <2>2. win.open => \A a \in DOMAIN wire : MyStart(a) =>
            Backlog(wire[a].res.val)' /\ \A i \in 1..(a - 1) : Line(wire[i]) => wire[i].entry.seq <= Top(wire[a].res.val)
      BY <1>3, <1>11 DEF Faithful, Fills, Backlog
    <2> QED BY <1>3, <1>11, <2>1, <2>2 DEF Faithful, Fills, MyStart, MyAnswer, Mine
  <1>14. Displayed'
    BY <1>3, DisplayedStays DEF Faithful
  <1> QED BY <1>12, <1>13, <1>14 DEF Faithful

\* The tab's handlers: Tail hands out what the ring has.
LEMMA StageReady ==
  ASSUME IsCalls(calls), NEW i \in DOMAIN calls, NEW st, NEW res, Stage(i, st, res)
  PROVE  /\ calls'[i].res = res /\ Ready' \subseteq Ready \cup {calls'[i]}
         /\ ~(calls[i].req.m = "logs.start" /\ st = "done") => Ready' \subseteq Ready
  <1>1. /\ IsCalls(calls') /\ DOMAIN calls' = DOMAIN calls
        /\ calls'[i].req = calls[i].req /\ calls'[i].st = st
        /\ \A j \in DOMAIN calls : j # i => calls'[j] = calls[j]
    BY StageCalls
  <1>2. calls'[i].res = res
    <2>1. DOMAIN calls[i] = {"req", "st", "res"}
      BY CallsSeq DEF IsCalls
    <2> QED BY <2>1 DEF Stage
  <1> QED BY <1>1, <1>2 DEF Ready

LEMMA TailFaithful ==
  ASSUME Shapes, Faithful, Served, NEW i \in DOMAIN calls, LogsTail(i),
         UNCHANGED <<queue, wire, win, pend, buf, logs>>
  PROVE  Faithful'
  <1>1. PICK v, res : v = Lastly(buf.ring, TailLimit) /\ res = Value(v)
    OBVIOUS
  <1>2. Stage(i, "done", res)
    BY <1>1 DEF LogsTail, Finish
  <1>3. calls'[i].res.val = v /\ Ready' \subseteq Ready \cup {calls'[i]}
    BY <1>1, <1>2, StageReady DEF Served, Value
  <1>4. Carries' = Carries /\ Coming' = Coming
    BY DEF Carries, Coming
  <1>5. \A w : Backlog(w)' <=> Backlog(w)
    BY <1>4 DEF Backlog
  <1>6. Row(v, buf.seq) /\ Top(v) = buf.seq
    <2>1. PICK X : buf.ring \in Seq(X)
      BY DEF Shapes, IsList
    <2> QED BY <1>1, <2>1, LatestRow DEF Shapes
  <1>7. Backlog(v) /\ \A e \in Carries : e.seq <= Top(v)
    <2>1. \A e \in Carries : e.seq <= buf.seq
      BY DEF Faithful, Order, Shapes
    <2> QED BY <1>1, <1>6, <2>1 DEF Backlog, Latest
  <1>8. ASSUME win.open, NEW c \in Ready', Mine(c.req)
        PROVE  Backlog(c.res.val) /\ \A e \in Carries : e.seq <= Top(c.res.val)
    BY <1>3, <1>7, <1>8 DEF Faithful, Fills
  <1>9. \A r : Mine(r)' <=> Mine(r)
    BY DEF Mine
  <1>10. \A a : MyStart(a)' <=> MyStart(a)
    BY DEF MyStart, MyAnswer, Mine
  <1>11. Fills'
    <2>1. win'.open => \A c \in Ready' : Mine(c.req)' =>
            Backlog(c.res.val)' /\ \A e \in Carries' : e.seq <= Top(c.res.val)
      BY <1>4, <1>5, <1>8, <1>9
    <2>2. win'.open => \A a \in DOMAIN wire' : MyStart(a)' =>
            /\ Backlog(wire[a].res.val)'
            /\ \A k \in 1..(a - 1) : Line(wire'[k]) => wire'[k].entry.seq <= Top(wire'[a].res.val)
      BY <1>5, <1>10 DEF Faithful, Fills
    <2>3. logs'.on => \A e \in Latest(buf'.ring) : e.seq > logs'.last => e \in Coming'
      BY <1>4 DEF Faithful, Fills
    <2> QED BY <2>1, <2>2, <2>3 DEF Fills
  <1>12. Order' /\ Displayed'
    BY OrderStays, DisplayedStays DEF Faithful, Order
  <1> QED BY <1>11, <1>12 DEF Faithful

LEMMA HandlesFaithful ==
  ASSUME Shapes, Streamed, Faithful, Served, LogHandles
  PROVE  Faithful'
  <1>1. UNCHANGED <<queue, wire, win, pend, logs>> /\ buf'.ring = buf.ring /\ buf'.seq = buf.seq
    BY DEF LogHandles, LogsStart, LogsStartPoller, LogsTail, LogsStop, LogsStopPoller, shared, Streamed
  <1>2. ASSUME NEW i \in DOMAIN calls, LogsTail(i) PROVE Faithful'
    BY <1>1, <1>2, TailFaithful DEF LogsTail
  <1>3. ASSUME NEW i \in DOMAIN calls, LogsStart(i) \/ LogsStartPoller(i) \/ LogsStop(i) \/ LogsStopPoller(i)
        PROVE  Faithful'
    <2>1. PICK st, res : Stage(i, st, res) /\ ~(calls[i].req.m = "logs.start" /\ st = "done")
      <3>1. CASE LogsStart(i)
        <4>1. PICK st, res : st = (IF buf.subs = 0 THEN "poller" ELSE "tail") /\ res = Failed
          OBVIOUS
        <4> QED BY <3>1, <4>1 DEF LogsStart
      <3>2. CASE LogsStartPoller(i)
        BY <3>2 DEF LogsStartPoller
      <3>3. CASE LogsStop(i)
        BY <3>3 DEF LogsStop, Runs, Finish
      <3>4. CASE LogsStopPoller(i)
        BY <3>4 DEF LogsStopPoller, Runs, Finish
      <3> QED BY <1>3, <3>1, <3>2, <3>3, <3>4
    <2>2. Ready' \subseteq Ready
      BY <2>1, StageReady DEF Served
    <2> QED BY <1>1, <2>2, FaithfulStays DEF Faithful, Order
  <1> QED BY <1>2, <1>3 DEF LogHandles

\* A window that closes takes its tab along; one that opens has none yet.
LEMMA WindowFaithful ==
  ASSUME Shapes, Faithful, Slots, Tabs, Served, CloseWindow \/ OpenWindow
  PROVE  Faithful'
  <1>1. UNCHANGED <<queue, wire, pend, buf>>
    BY DEF CloseWindow, OpenWindow, pipe, logv
  <1>2. Order'
    BY <1>1, OrderStays DEF Faithful, Order
  <1>3. win.gen \in Nat \ {0} /\ DOMAIN win = {"open", "gen"} /\ buf.seq \in Nat
    BY DEF Tabs, Shapes
  <1>4. CASE CloseWindow
    <2>1. logs' = NoLogs /\ win'.open = FALSE
      BY <1>3, <1>4 DEF CloseWindow
    <2>2. logs'.on = FALSE /\ logs'.last = 0 /\ logs'.entries = <<>>
      BY <2>1 DEF NoLogs
    <2>3. Row(<<>>, 0)
      <3>1. <<>> \in Seq({}) /\ Len(<<>>) = 0
        OBVIOUS
      <3> QED BY <3>1 DEF Row
    <2>4. ASSUME NEW e \in Latest(buf.ring) PROVE ~(e.seq <= 0)
      BY <2>4, LatestNumbers
    <2>5. Displayed'
      BY <1>1, <1>3, <2>2, <2>3, <2>4 DEF Displayed
    <2>6. Fills'
      BY <2>1, <2>2 DEF Fills
    <2> QED BY <1>2, <2>5, <2>6 DEF Faithful
  <1>5. CASE OpenWindow
    <2> DEFINE r == [Request("snapshot", <<>>) EXCEPT !.req.win = win.gen + 1]
    <2>1. logs' = logs /\ calls' = Append(calls, r) /\ win'.gen = win.gen + 1 /\ ~win.open
      BY <1>5 DEF OpenWindow, logv
    <2>2. r.req.m = "snapshot" /\ DOMAIN r = {"req", "st", "res"}
      BY DEF Request
    <2> HIDE DEF r
    <2>3. Aside
      <3>1. Extended(calls, calls') /\ IsCalls(calls)
        BY <2>1, <2>2, ExtendedAppend DEF LogMethods, Served
      <3> QED BY <3>1, ExtendedAside
    <2>4. Ready' \subseteq Ready
      BY <2>3, AsideFewer DEF Fewer
    <2>5. \A c \in Ready : c.req \in LogReqs
      BY DEF Ready, LogReqs, LogMethods
    <2>6. \A c \in Ready' : ~Mine(c.req)'
      BY <1>3, <2>1, <2>4, <2>5 DEF Slots, Mine
    <2>7. \A a \in DOMAIN wire' : ~MyStart(a)'
      BY <1>1, <1>3, <2>1 DEF Slots, MyStart, MyAnswer, Mine
    <2>8. ~logs.on
      BY <2>1 DEF Slots
    <2>9. Displayed'
      BY <1>1, <2>1, DisplayedStays DEF Faithful
    <2>10. Fills'
      BY <2>1, <2>6, <2>7, <2>8 DEF Fills
    <2> QED BY <1>2, <2>9, <2>10 DEF Faithful
  <1> QED BY <1>4, <1>5

LEMMA UserFaithful ==
  ASSUME Shapes, Faithful, Slots, Served, "quick" \notin faults, LogUser
  PROVE  Faithful'
  <1>1. NoLogCalls /\ wire = <<>> /\ UNCHANGED <<queue, wire, pend, buf, win>>
    BY DEF LogUser, Settled, OpenTab, CloseTab
  <1>2. PICK r : r = Request(IF logs.tab THEN "logs.stop" ELSE "logs.start", <<>>)
    OBVIOUS
  <1>3. /\ calls' = Append(calls, r) /\ ~logs'.on /\ logs'.last = logs.last /\ logs'.entries = logs.entries
    <2>1. CASE OpenTab
      BY <1>2, <2>1 DEF OpenTab, Slots, Shapes
    <2>2. CASE CloseTab
      BY <1>2, <2>2 DEF CloseTab, Shapes
    <2> QED BY <2>1, <2>2 DEF LogUser
  <1>4. r.st = "new" /\ DOMAIN r = {"req", "st", "res"}
    BY <1>2 DEF Request
  <1>5. PICK n : n = Len(calls) + 1
    OBVIOUS
  <1>6. /\ IsCalls(calls') /\ Len(calls') = n /\ Len(calls) \in Nat /\ calls'[n] = r
        /\ \A j \in 1..Len(calls) : calls'[j] = calls[j]
    BY <1>3, <1>4, <1>5, AppendCalls DEF Served
  <1>7. DOMAIN calls' = 1..n /\ DOMAIN calls = 1..Len(calls)
    BY <1>6, CallsSeq DEF Served
  <1>8. \A j \in DOMAIN calls' : j = n \/ (j \in DOMAIN calls /\ calls'[j] = calls[j])
    BY <1>5, <1>6, <1>7
  <1>9. Ready' = {}
    <2>1. \A j \in DOMAIN calls : calls[j].req.m # "logs.start"
      BY <1>1 DEF NoLogCalls
    <2> QED BY <1>4, <1>6, <1>8, <2>1 DEF Ready
  <1>10. DOMAIN wire' = {}
    BY <1>1
  <1>11. Fills'
    BY <1>3, <1>9, <1>10 DEF Fills
  <1>12. Order' /\ Displayed'
    BY <1>1, <1>3, OrderStays, DisplayedStays DEF Faithful, Order
  <1> QED BY <1>11, <1>12 DEF Faithful

\* append: with a line that follows all shown ones, or with the backlog.
LEMMA AppendShows ==
  ASSUME Shapes, Displayed, NEW list, Row(list, buf.seq), NEW u, u = Shown(logs, list),
         \A e \in Latest(buf.ring) : e.seq > logs.last /\ e.seq <= Top(list) => e \in Range(list)
  PROVE  /\ u.last \in 0..buf.seq /\ Row(u.entries, u.last) /\ u.last >= logs.last /\ u.last >= Top(list)
         /\ \A e \in Latest(buf.ring) : e.seq <= u.last => e \in Range(u.entries)
         /\ u.tab = logs.tab /\ u.on = logs.on /\ DOMAIN u = DOMAIN logs
  <1>1. PICK s, l : s = buf.seq /\ l = logs
    OBVIOUS
  <1>2. s \in Nat /\ DOMAIN l = {"tab", "entries", "last", "on"} /\ l.last \in Nat /\ l.last <= s /\ Row(l.entries, l.last)
    BY <1>1 DEF Shapes, Displayed
  <1>3. Row(list, s) /\ Top(list) \in 0..s
    BY <1>1, <1>2, RowTop
  <1>4. Shows(l, list, u)
    <2>1. Shows(l, list, Shown(l, list))
      BY <1>2, <1>3, ShowsShown
    <2> QED BY <1>1, <2>1
  <1>5. u.last = (IF Top(list) > l.last THEN Top(list) ELSE l.last) /\ Row(u.entries, u.last)
    BY <1>4 DEF Shows
  <1>6. PICK t, m : t = Top(list) /\ m = u.last
    OBVIOUS
  <1>7. m \in 0..s /\ m >= l.last /\ m >= t /\ (m = t \/ m = l.last) /\ t \in 0..s
    BY <1>2, <1>3, <1>5, <1>6
  <1>8. ASSUME NEW e \in Latest(buf.ring), e.seq <= m PROVE e \in Range(u.entries)
    <2>1. e.seq \in Nat /\ e.seq <= s /\ e.seq + TailLimit > s
      BY <1>1, <1>8, LatestNumbers
    <2>2. e.seq + Keep > u.last
      <3>1. TailLimit \in Nat /\ Keep \in Nat /\ TailLimit <= Keep
        BY LogAssumption
      <3> QED BY <1>2, <1>6, <1>7, <2>1, <3>1
    <2>3. CASE e.seq <= l.last
      <3>1. e \in Range(l.entries)
        BY <1>1, <1>8, <2>3 DEF Displayed
      <3> QED BY <1>4, <2>2, <3>1 DEF Shows
    <2>4. CASE ~(e.seq <= l.last)
      <3>1. e.seq > l.last /\ e.seq <= t
        BY <1>2, <1>7, <1>8, <2>1, <2>4
      <3>2. e \in Range(list)
        BY <1>1, <1>6, <1>8, <3>1
      <3> QED BY <1>4, <2>2, <3>1, <3>2 DEF Shows
    <2> QED BY <2>3, <2>4
  <1>9. u.tab = logs.tab /\ u.on = logs.on /\ DOMAIN u = DOMAIN logs
    BY <1>1, <1>4 DEF Shows
  <1> QED BY <1>1, <1>5, <1>6, <1>7, <1>8, <1>9

\* A line arrives at a tab that takes lines: it is the oldest one on its way.
LEMMA LineFaithful ==
  ASSUME Shapes, Faithful, Slots, Served, wire # <<>>, Line(Head(wire)), OnLogLine(Head(wire).entry), logs.on,
         wire' = Tail(wire), UNCHANGED <<queue, calls, win, buf, pend>>
  PROVE  Faithful'
  <1>1. IsList(wire) /\ buf.seq \in Nat
    BY DEF Shapes
  <1>2. Takes(wire, wire')
    BY <1>1, TailTakes
  <1>3. PICK x, list, u : x = wire[1].entry /\ list = <<x>> /\ u = Shown(logs, list)
    OBVIOUS
  <1>4. logs' = u /\ Line(wire[1])
    BY <1>2, <1>3 DEF OnLogLine, Takes
  <1>5. /\ Carried(wire') \subseteq Carried(wire) /\ Upward(wire') /\ Carried(wire) = Carried(wire') \cup {x}
        /\ \A e \in Carried(wire') : x.seq < e.seq
    BY <1>2, <1>3, <1>4, TakesCarried DEF Faithful, Order
  <1>6. x.seq \in 1..buf.seq /\ \A e \in Coming : e = x \/ (x.seq < e.seq /\ e \in Coming')
    <2>1. x \in Carried(wire) /\ x \in Carries
      BY <1>5 DEF Carries
    <2>2. x.seq \in 1..buf.seq
      BY <2>1 DEF Faithful, Order
    <2>3. \A e \in Carried(queue) : x.seq < e.seq
      BY <2>1 DEF Faithful, Order, Below
    <2>4. \A e \in Range(pend) : x.seq < e.seq
      BY <2>1 DEF Faithful, Order, Below
    <2> QED BY <1>5, <2>2, <2>3, <2>4 DEF Coming, Carries
  <1>7. list \in Seq({x}) /\ Len(list) = 1 /\ list[1] = x
    BY <1>3
  <1>8. Range(list) = {x} /\ list # <<>>
    <2>1. DOMAIN list = {1} /\ list # <<>>
      BY <1>7
    <2>2. Range(list) = {list[i] : i \in DOMAIN list}
      BY Zenon DEF Range
    <2>3. {list[i] : i \in {1}} = {list[1]}
      OBVIOUS
    <2> QED BY <1>7, <2>1, <2>2, <2>3
  <1>9. Row(list, buf.seq) /\ Top(list) = x.seq
    <2>1. \A i \in 1..1 : i = 1
      OBVIOUS
    <2>2. Row(list, buf.seq)
      BY <1>6, <1>7, <2>1 DEF Row
    <2> QED BY <1>7, <1>8, <2>2 DEF Top
  <1>10. ASSUME NEW e \in Latest(buf.ring), e.seq > logs.last, e.seq <= Top(list) PROVE e \in Range(list)
    <2>1. e \in Coming
      BY <1>10 DEF Faithful, Fills
    <2>2. e.seq \in Nat /\ x.seq \in Nat
      BY <1>1, <1>6, LatestNumbers
    <2>3. e = x
      BY <1>6, <1>9, <1>10, <2>1, <2>2
    <2> QED BY <1>8, <2>3
  <1>11. /\ u.last \in 0..buf.seq /\ Row(u.entries, u.last) /\ u.last >= logs.last /\ u.last >= Top(list)
         /\ \A e \in Latest(buf.ring) : e.seq <= u.last => e \in Range(u.entries)
    BY <1>3, <1>9, <1>10, AppendShows DEF Faithful
  <1>12. Displayed'
    BY <1>4, <1>11 DEF Displayed
  <1>13. Order'
    BY <1>5, OrderStays DEF Faithful, Order
  <1>14. ASSUME NEW e \in Latest(buf.ring), e.seq > u.last PROVE e \in Coming'
    <2>1. e.seq \in Nat /\ logs.last \in Nat /\ u.last \in Nat /\ x.seq \in Nat
      BY <1>1, <1>6, <1>11, LatestNumbers DEF Faithful, Displayed
    <2>2. e.seq > logs.last /\ e.seq > x.seq
      BY <1>9, <1>11, <1>14, <2>1
    <2>3. e \in Coming
      BY <1>14, <2>2 DEF Faithful, Fills
    <2> QED BY <1>6, <2>1, <2>2, <2>3
  <1>15. Fills'
    <2>1. Ready = {} /\ \A a \in DOMAIN wire : ~MyAnswer(a)
      BY OnServed
    <2>2. Ready' = {}
      BY <2>1 DEF Ready
    <2>3. \A a \in DOMAIN wire' : ~MyStart(a)'
      <3> SUFFICES ASSUME NEW a \in DOMAIN wire', MyStart(a)' PROVE FALSE
        OBVIOUS
      <3>1. a + 1 \in DOMAIN wire /\ wire'[a] = wire[a + 1]
        BY <1>2 DEF Takes
      <3>2. MyAnswer(a + 1)
        BY <3>1 DEF MyStart, MyAnswer, Mine
      <3> QED BY <2>1, <3>1, <3>2
    <2> QED BY <1>4, <1>14, <2>2, <2>3 DEF Fills
  <1> QED BY <1>12, <1>13, <1>15 DEF Faithful

\* The backlog arrives: what it lacks comes behind it.
LEMMA StartFaithful ==
  ASSUME Shapes, Faithful, Slots, Served, win.open, wire # <<>>, MyStart(1), StartAnswer(wire[1].res.val),
         wire' = Tail(wire), UNCHANGED <<queue, calls, win, buf, pend>>
  PROVE  Faithful'
  <1>1. IsList(wire) /\ buf.seq \in Nat
    BY DEF Shapes
  <1>2. Takes(wire, wire') /\ 1 \in DOMAIN wire
    <2>1. Takes(wire, wire')
      BY <1>1, TailTakes
    <2> QED BY <2>1 DEF Takes
  <1>3. PICK v, u : v = wire[1].res.val /\ u = Shown(logs, v)
    OBVIOUS
  <1>4. Backlog(v)
    BY <1>2, <1>3 DEF Faithful, Fills
  <1>5. Row(v, buf.seq) /\ Top(v) \in Nat /\ \A e \in Range(v) : e.seq \in Nat /\ e.seq <= Top(v)
    <2>1. PICK s : s = buf.seq
      OBVIOUS
    <2>2. Row(v, s) /\ s \in Nat
      BY <1>1, <1>4, <2>1 DEF Backlog
    <2>3. Top(v) \in 0..s /\ \A e \in Range(v) : e.seq \in 1..s /\ e.seq <= Top(v)
      BY <2>2, RowTop
    <2> QED BY <2>1, <2>2, <2>3
  <1>6. ASSUME NEW e \in Latest(buf.ring), e.seq <= Top(v) PROVE e \in Range(v)
    <2>1. e.seq \in Nat
      BY <1>6, LatestNumbers
    <2> QED BY <1>4, <1>5, <1>6, <2>1 DEF Backlog
  <1>7. /\ u.last \in 0..buf.seq /\ Row(u.entries, u.last) /\ u.last >= logs.last /\ u.last >= Top(v)
        /\ \A e \in Latest(buf.ring) : e.seq <= u.last => e \in Range(u.entries)
        /\ DOMAIN u = DOMAIN logs
    BY <1>3, <1>5, <1>6, AppendShows DEF Faithful
  <1>8. logs' = [u EXCEPT !.on = TRUE]
    BY <1>3 DEF StartAnswer
  <1>9. logs'.last = u.last /\ logs'.entries = u.entries
    BY <1>7, <1>8 DEF Shapes
  <1>10. Displayed'
    BY <1>7, <1>9 DEF Displayed
  <1>11. ~Line(wire[1])
    BY DEF MyStart, MyAnswer, LogAnswer, Line
  <1>12. Carried(wire') = Carried(wire) /\ Upward(wire')
    BY <1>2, <1>11, TakesCarried DEF Faithful, Order
  <1>13. Order'
    BY <1>12, OrderStays DEF Faithful, Order
  <1>14. ASSUME NEW e \in Latest(buf.ring), e.seq > u.last PROVE e \in Coming'
    <2>1. e.seq \in Nat /\ u.last \in Nat
      BY <1>1, <1>7, LatestNumbers
    <2>2. e \notin Range(v)
      BY <1>5, <1>7, <1>14, <2>1
    <2>3. e \in Coming
      BY <1>4, <2>2 DEF Backlog
    <2> QED BY <1>12, <2>3 DEF Coming, Carries
  <1>15. NoLogCalls /\ \A b \in DOMAIN wire : MyAnswer(b) => 1 = b
    BY <1>2 DEF MyStart, Slots
  <1>16. Ready' = {}
    BY <1>15, NoneReady DEF Ready
  <1>17. \A a \in DOMAIN wire' : ~MyStart(a)'
    <2> SUFFICES ASSUME NEW a \in DOMAIN wire', MyStart(a)' PROVE FALSE
      OBVIOUS
    <2>1. a \in Nat \ {0} /\ a + 1 \in DOMAIN wire /\ wire'[a] = wire[a + 1]
      BY <1>2 DEF Takes
    <2>2. MyAnswer(a + 1)
      BY <2>1 DEF MyStart, MyAnswer, Mine
    <2> QED BY <1>15, <2>1, <2>2
  <1>18. Fills'
    BY <1>9, <1>14, <1>16, <1>17 DEF Fills
  <1> QED BY <1>10, <1>13, <1>18 DEF Faithful

LEMMA ReceivesFaithful ==
  ASSUME Shapes, Faithful, Slots, Served, LogReceives
  PROVE  Faithful'
  <1>1. /\ wire # <<>> /\ win.open /\ wire' = Tail(wire) /\ UNCHANGED <<queue, calls, win, buf, pend>>
    BY DEF LogReceives, shared
  <1>2. Takes(wire, wire')
    BY <1>1, TailTakes DEF Shapes
  <1>3. Head(wire) = wire[1] /\ 1 \in DOMAIN wire
    BY <1>2 DEF Takes
  <1>4. CASE logs' = logs /\ (Line(wire[1]) => ~logs.on)
    BY <1>1, <1>4, FaithfulStays, SameFewer DEF Faithful, Order, Fewer
  <1>5. CASE Head(wire).topic = "log:line" /\ OnLogLine(Head(wire).entry)
    <2>1. CASE logs.on
      BY <1>1, <1>5, <2>1, LineFaithful DEF Line
    <2>2. CASE ~logs.on
      BY <1>4, <1>5, <2>2 DEF OnLogLine
    <2> QED BY <2>1, <2>2
  <1>6. CASE /\ Head(wire).topic = "answer" /\ Head(wire).req.win = win.gen
             /\ Head(wire).req.m = "logs.start" /\ StartAnswer(Head(wire).res.val)
    <2>1. MyStart(1) /\ StartAnswer(wire[1].res.val)
      BY <1>3, <1>6 DEF MyStart, MyAnswer, LogAnswer, LogMethods, Mine
    <2> QED BY <1>1, <2>1, StartFaithful
  <1>7. CASE Head(wire).topic = "answer" /\ logs' = logs
    BY <1>3, <1>4, <1>7 DEF Line
  <1> QED BY <1>5, <1>6, <1>7 DEF LogReceives

Converging == Clean => Faithful

LEMMA FaithfulInit == ASSUME Init PROVE Converging
  <1>1. /\ queue = <<>> /\ wire = <<>> /\ pend = <<>> /\ buf = [seq |-> 0, ring |-> <<>>, subs |-> 0]
        /\ logs = NoLogs
    BY DEF Init, PipeInit, LogInit
  <1>2. buf.seq = 0 /\ buf.ring = <<>> /\ logs.on = FALSE /\ logs.last = 0 /\ logs.entries = <<>>
    BY <1>1 DEF NoLogs
  <1>3. Row(<<>>, 0)
    <2>1. <<>> \in Seq({}) /\ Len(<<>>) = 0
      OBVIOUS
    <2> QED BY <2>1 DEF Row
  <1>4. Carried(<<>>) = {} /\ Upward(<<>>) /\ Range(<<>>) = {}
    <2>1. DOMAIN <<>> = {}
      OBVIOUS
    <2> QED BY <2>1 DEF Carried, Upward, Range
  <1>5. Carries = {}
    BY <1>1, <1>4 DEF Carries
  <1>6. Order
    BY <1>1, <1>2, <1>3, <1>4, <1>5 DEF Order, Below
  <1>7. Latest(buf.ring) = {}
    <2>1. <<>> \in Seq({}) /\ Len(<<>>) = 0
      OBVIOUS
    <2>2. \A e : e \in Latest(<<>>) <=> \E i \in 0..(TailLimit - 1) : i < Len(<<>>) /\ e = <<>>[Len(<<>>) - i]
      BY <2>1, LatestIs
    <2>3. TailLimit \in Nat
      BY LogAssumption
    <2>4. \A e : e \notin Latest(<<>>)
      BY <2>1, <2>2, <2>3
    <2> QED BY <1>2, <2>4
  <1>8. Displayed
    BY <1>2, <1>3, <1>7 DEF Displayed
  <1>9. PICK r : r = Request("snapshot", <<>>)
    OBVIOUS
  <1>10. calls = <<>> \/ calls = <<r>>
    BY <1>9 DEF Init, DashInit
  <1>11. r.req.m = "snapshot"
    BY <1>9 DEF Request
  <1>12. Ready = {}
    BY <1>10, <1>11 DEF Ready
  <1>13. DOMAIN wire = {}
    BY <1>1
  <1>14. Fills
    BY <1>2, <1>12, <1>13 DEF Fills
  <1> QED BY <1>6, <1>8, <1>14 DEF Converging, Faithful

\* All steps, in a bridge that serves on.
LEMMA FaithfulStep ==
  ASSUME Converging, Shapes, Streamed, Texts, Slotted, Tabs, Draining, Claimed, [Next]_vars
  PROVE  Converging'
  <1>1. SUFFICES ASSUME Clean' PROVE Faithful'
    BY DEF Converging
  <1>2. Clean /\ faults' = faults /\ bridge.fwd /\ "log:line" \notin lost' /\ IsList(queue)
    BY <1>1, CleanBefore DEF Clean, Shapes
  <1>3. Faithful /\ Slots /\ Served /\ IsCalls(calls) /\ Upward(queue)
    BY <1>2 DEF Converging, Clean, Slotted, Tabs, Served, Faithful, Order
  <1>4. CASE Output
    BY <1>3, <1>4, OutputFaithful
  <1>5. CASE Handles \/ ChainMoves \/ ChainWorld \/ WorkerMoves \/ UserSync \/ UserSubs
    <2>1. UNCHANGED <<wire, pend, buf, logs, win>>
      BY <1>5 DEF Handles, ChainMoves, ChainWorld, WorkerMoves, UserSync, UserSubs, logv, shared
    <2>2. Carried(queue') = Carried(queue) /\ Upward(queue')
      BY <1>2, <1>3, <1>5, HandlesHushed, ChainHushed, RefreshHushed, HushedCarries
    <2>3. Handles \/ calls' = calls
      BY <1>5 DEF ChainMoves, ChainWorld, WorkerMoves, UserSync, UserSubs, BringUpDone, BringUpFails, ChainDrops, Noise
    <2>4. Ready' \subseteq Ready
      BY <1>3, <2>3, HandlesAside, AsideFewer, SameFewer DEF Fewer
    <2> QED BY <1>3, <2>1, <2>2, <2>4, FaithfulStays
  <1>6. CASE Renders
    <2>1. Extended(calls, calls') /\ UNCHANGED <<queue, pend, buf, logs, win>>
      BY <1>6, ReceivesOrderly, AutoConnectClaims DEF Renders, DashReceives, IdleTimeout, AutoConnect, logv, shared
    <2>2. Ready' \subseteq Ready
      BY <1>3, <2>1, ExtendedAside, AsideFewer DEF Fewer
    <2>3. wire' = wire \/ (wire # <<>> /\ wire' = Tail(wire) /\ (Line(wire[1]) => ~logs.on))
      <3>1. CASE DashReceives
        <4>1. wire # <<>> /\ wire' = Tail(wire) /\ Head(wire).topic # "log:line"
          BY <3>1 DEF DashReceives, DashTopics
        <4>2. Takes(wire, Tail(wire))
          BY <4>1, TailTakes DEF Shapes
        <4> QED BY <4>1, <4>2 DEF Takes, Line
      <3>2. CASE IdleTimeout \/ AutoConnect
        BY <3>2 DEF IdleTimeout, AutoConnect
      <3> QED BY <1>6, <3>1, <3>2 DEF Renders
    <2> QED BY <1>3, <2>1, <2>2, <2>3, FaithfulStays
  <1>7. CASE Discard
    <2>1. wire # <<>> /\ wire' = Tail(wire) /\ (~win.open \/ Head(wire).topic = "answer") /\ calls' = calls
          /\ UNCHANGED <<queue, pend, buf, logs, win>>
      BY <1>7 DEF Discard, logv, shared
    <2>2. Takes(wire, Tail(wire))
      BY <2>1, TailTakes DEF Shapes
    <2>3. Line(wire[1]) => ~logs.on
      BY <1>3, <2>1, <2>2, OnServed DEF Takes, Line
    <2> QED BY <1>3, <2>1, <2>3, FaithfulStays, SameFewer DEF Fewer
  <1>8. CASE User
    <2>1. Extended(calls, calls') /\ UNCHANGED <<queue, wire, pend, buf, logs, win>>
      BY <1>8, UserOrderly DEF User, ClickConnect, ClickDisconnect, ClickMode, ClickReconnect, ClickProbe, Clicks, logv
    <2>2. Ready' \subseteq Ready
      BY <1>3, <2>1, ExtendedAside, AsideFewer DEF Fewer
    <2> QED BY <1>3, <2>1, <2>2, FaithfulStays
  <1>9. CASE UNCHANGED <<queue, wire, calls, pend, buf, logs, win>>
    BY <1>3, <1>9, FaithfulStays, SameFewer DEF Fewer
  <1>10. CASE Quit \/ DriverTick \/ TimerTick \/ WorkerPanics
    BY <1>9, <1>10 DEF Quit, CloseInput, DriverTick, TimerTick, WorkerPanics, pipe, logv, shared
  <1>11. CASE CloseWindow \/ OpenWindow
    BY <1>3, <1>11, WindowFaithful
  <1>12. CASE LogUser
    BY <1>2, <1>3, <1>12, UserFaithful DEF Clean
  <1>13. CASE LogHandles
    BY <1>3, <1>13, HandlesFaithful
  <1>14. CASE LogWorld \/ LogMoves
    <2>1. UNCHANGED <<queue, wire, calls, logs, win>>
      BY <1>14 DEF LogWorld, LogMoves, WriteLog, RotateLog, BridgeLog, OpenLog, PollReads, PollApply, PollFails, PollEnds,
                   pipe, shared
    <2>2. CASE UNCHANGED <<pend, buf>>
      BY <1>9, <2>1, <2>2
    <2>3. CASE BridgeLog
      <3>1. PICK ls : ls = <<<<Piece(0, TRUE)>>>>
        OBVIOUS
      <3>2. Add(ls) /\ Len(ls) = 1
        BY <2>3, <3>1 DEF BridgeLog
      <3>3. Len(ls) \in Nat
        BY <3>2
      <3> QED BY <1>3, <2>1, <3>2, <3>3, AddFaithful
    <2>4. ASSUME NEW k \in Pollers, PollApply(k) PROVE Faithful'
      <3>1. PICK t : t = TextOf(poll[k], lf)
        OBVIOUS
      <3>2. Add(Lines(t))
        BY <2>4, <3>1 DEF PollApply, TextOf
      <3>3. Len(Lines(t)) \in Nat
        BY <3>1, TextIs, LinesCount
      <3> QED BY <1>3, <2>1, <3>2, <3>3, AddFaithful
    <2> QED BY <1>14, <2>2, <2>3, <2>4
            DEF LogWorld, LogMoves, WriteLog, RotateLog, OpenLog, PollReads, PollFails, PollEnds
  <1>15. CASE LogPublishes
    BY <1>2, <1>3, <1>15, LinesFaithful DEF Clean
  <1>16. CASE LogReceives
    BY <1>3, <1>16, ReceivesFaithful
  <1>17. CASE UNCHANGED vars
    BY <1>9, <1>17 DEF vars, pipe, logv, shared
  <1> QED BY <1>4, <1>5, <1>6, <1>7, <1>8, <1>10, <1>11, <1>12, <1>13, <1>14, <1>15, <1>16, <1>17 DEF Next, System

\* An open tab that takes lines, with nothing on its way, shows the latest lines of
\* the buffer, also those published between Tail and the tab's answer: Start
\* subscribes before it takes the backlog, lines are published in the order of their
\* numbers, and append drops what it has shown (LogService.Start, startLogs, append).
THEOREM TabConverges == Spec => []LogsConverge
  <1>1. Converging /\ Shapes => LogsConverge
    <2> SUFFICES ASSUME Converging, Shapes, logs.on, wire = <<>>, queue = <<>>, pend = <<>>, Clean,
                        NEW e \in Latest(buf.ring)
                 PROVE  e \in Range(logs.entries)
      BY DEF LogsConverge, Clean, Latest
    <2>1. Displayed /\ Fills
      BY DEF Converging, Faithful
    <2>2. Coming = {}
      <3>1. DOMAIN <<>> = {}
        OBVIOUS
      <3> QED BY <3>1 DEF Coming, Carries, Carried, Range
    <2>3. e.seq \in Nat /\ logs.last \in Nat
      BY <2>1, LatestNumbers DEF Displayed, Shapes
    <2>4. ~(e.seq > logs.last)
      BY <2>1, <2>2 DEF Fills
    <2> QED BY <2>1, <2>3, <2>4 DEF Displayed
  <1>2. Init => Converging /\ Shapes /\ Streamed /\ Texts /\ Slotted /\ Lone /\ Tabs /\ Draining /\ Claimed
    BY FaithfulInit, ShapesInit, StreamedInit, TextsInit, SlotsInit, LoneInit, TabsInit, SessionInit
  <1>3. Converging /\ Shapes /\ Streamed /\ Texts /\ Slotted /\ Lone /\ Tabs /\ Draining /\ Claimed /\ [Next]_vars
          => (Converging /\ Shapes /\ Streamed /\ Texts /\ Slotted /\ Lone /\ Tabs /\ Draining /\ Claimed)'
    BY FaithfulStep, ShapesStep, StreamedStep, TextsStep, SlotsStep, LoneStep, TabsStep, SessionStep
  <1> QED BY <1>1, <1>2, <1>3, PTL DEF Spec

\* What the Logs tab promises, as one: it is served while it is open, an engine's
\* lines come whole and once, and it shows the latest ones (LogService, Poller,
\* Buffer, logStore).
THEOREM LogTabServed == Spec => []LogTabFaithful
  <1>1. PollerFollowsTab /\ LinesWhole /\ LogsConverge => LogTabFaithful
    BY DEF LogTabFaithful
  <1> QED BY <1>1, PollerFollows, LinesReachWhole, TabConverges, PTL
=============================================================================
