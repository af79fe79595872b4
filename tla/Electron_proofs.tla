-------------------------- MODULE Electron_proofs --------------------------
(***************************************************************************)
(* Proofs about the two sides of the desktop application.                  *)
(*                                                                         *)
(* The page's connection store, in BridgeSession: the chain is up or down  *)
(* because the user asked for it.  The inductive invariant is Asked.  Its  *)
(* heart is Informed: when the store shows no connection and none is on    *)
(* its way to it, the controller has none (Lit); a sequence that waits     *)
(* for the idle event finds it (Waiting); and what a call under way or a   *)
(* line on the wire says fits the controller once the store applies it     *)
(* (CallFits, LineFits).  Around it, Typed says what the requests, answers *)
(* and events carry, Paired that one call belongs to the sequence under    *)
(* way, Orders and Started what the two flags of the connect on start      *)
(* promise, ReadWell that a snapshot answers, and Obeyed that after a      *)
(* click on Disconnect the chain is going down or is down.                 *)
(*                                                                         *)
(* A step is one of three: a turn of the store (StoreTurn), what the       *)
(* bridge and the controller do on the store's behalf (Serves), or neither *)
(* (Elsewhere).                                                            *)
(*                                                                         *)
(* The main process's supervision of the bridge, in BridgeSupervisor: one  *)
(* bridge at a time, and the window hears only that one.                   *)
(***************************************************************************)
EXTENDS BridgeSession_proofs, BridgeSupervisor


(***************************************************************************)
(* The turns of the store once more: what they do to the sequence of calls *)
(* that is under way, to the status and to what the connect on start sees. *)
(***************************************************************************)
Statuses == {"idle", "connecting", "connected", "disconnecting", "error"}
DashFields == DOMAIN NewDash(FALSE)
FlowFields == DOMAIN NoFlow

\* The calls of a sequence: connect, switch, reconnect.
IsFlow(r) == r.m \in {"connect", "disconnect"} /\ r.by = "flow"
Asks(r) ==
  /\ r.m = "connect" => r.by = "flow" /\ r.mode \in Modes
  /\ r.m = "mode" => r.mode \in Modes

\* t is s with requests of this window behind it, of which one at most is of a
\* sequence, and that one is of kind k.
Fresh(c, k) ==
  /\ c.st = "new" /\ c.res = Failed /\ c.req.win = win.gen /\ DOMAIN c = {"req", "st", "res"}
  /\ Asks(c.req) /\ (IsFlow(c.req) => c.req.m = k)
Sent(s, t, k) ==
  IsCalls(s) =>
    /\ IsCalls(t) /\ Len(s) <= Len(t) /\ \A n \in 1..Len(s) : t[n] = s[n]
    /\ \A n \in (Len(s) + 1)..Len(t) : Fresh(t[n], k)
    /\ \A n, o \in (Len(s) + 1)..Len(t) : IsFlow(t[n].req) /\ IsFlow(t[o].req) => n = o

Fit(u) ==
  /\ DOMAIN u = {"d", "f", "k", "p", "sent"}
  /\ DOMAIN u.d = DashFields /\ u.d.status \in Statuses /\ u.d.mode \in Modes
  /\ DOMAIN u.f = FlowFields /\ u.f.kind \in {"none", "connect", "switch", "reconnect"}
  /\ u.f.step \in {"none", "stop", "idle", "start"} /\ u.f.mode \in Modes
  /\ u.f.kind = "none" => u.f.step = "none"
  /\ {"claim", "last"} \subseteq DOMAIN u.k /\ {"want", "autos", "refused", "sweeps"} \subseteq DOMAIN u.p

\* What only a snapshot, a click or the connect on start changes.
Still(u, v) ==
  /\ v.d.boot = u.d.boot /\ v.d.servers = u.d.servers /\ v.d.auto = u.d.auto /\ v.d.may = u.d.may
  /\ u.d.reading => v.d.reading
  /\ v.p.want = u.p.want /\ v.p.refused = u.p.refused /\ v.k.claim = u.k.claim

\* v is u after handlers that leave the sequence at a step and the store in a
\* status, and that sent no call of a sequence but one of kind k.
Goes(u, v, k, step, status) ==
  Fit(u) => Fit(v) /\ Still(u, v) /\ Sent(u.sent, v.sent, k) /\ v.f.step = step /\ v.d.status = status

LEMMA FieldsAre ==
  /\ DashFields = {"status", "mode", "server", "err", "boot", "servers", "measured", "probe",
                   "swept", "sweeping", "reading", "auto", "may"}
  /\ FlowFields = {"kind", "step", "server", "mode"}
  BY DEF DashFields, FlowFields, NewDash, NoFlow

LEMMA SentSelf == ASSUME NEW s, NEW k PROVE Sent(s, s, k)
  <1> SUFFICES ASSUME IsCalls(s) PROVE Sent(s, s, k)
    BY DEF Sent
  <1>1. Len(s) \in Nat
    BY CallsSeq
  <1>2. (Len(s) + 1)..Len(s) = {} /\ Len(s) <= Len(s)
    BY <1>1
  <1> QED BY <1>2 DEF Sent

LEMMA SentAppend == ASSUME NEW s, NEW c, NEW k, Fresh(c, k) PROVE Sent(s, Append(s, c), k)
  <1> SUFFICES ASSUME IsCalls(s) PROVE Sent(s, Append(s, c), k)
    BY DEF Sent
  <1>1. PICK t, n : t = Append(s, c) /\ n = Len(s)
    OBVIOUS
  <1>2. IsCalls(t) /\ Len(t) = n + 1 /\ n \in Nat /\ (\A j \in 1..n : t[j] = s[j]) /\ t[n + 1] = c
    BY <1>1, AppendCalls DEF Fresh
  <1>3. (n + 1)..Len(t) = {n + 1} /\ n <= Len(t)
    BY <1>2
  <1>4. Sent(s, t, k)
    BY <1>1, <1>2, <1>3 DEF Sent
  <1> QED BY <1>1, <1>4

LEMMA SentChain ==
  ASSUME NEW r, NEW s, NEW t, NEW j, NEW k, NEW l, Sent(r, s, j), Sent(s, t, k),
         (j = "none" /\ l = k) \/ (k = "none" /\ l = j)
  PROVE  Sent(r, t, l)
  <1> SUFFICES ASSUME IsCalls(r) PROVE Sent(r, t, l)
    BY DEF Sent
  <1>1. PICK a, b, c : a = Len(r) /\ b = Len(s) /\ c = Len(t)
    OBVIOUS
  <1>2. /\ IsCalls(s) /\ a <= b /\ (\A n \in 1..a : s[n] = r[n]) /\ (\A n \in (a + 1)..b : Fresh(s[n], j))
        /\ \A n, o \in (a + 1)..b : IsFlow(s[n].req) /\ IsFlow(s[o].req) => n = o
    BY <1>1, Zenon DEF Sent
  <1>3. /\ IsCalls(t) /\ b <= c /\ (\A n \in 1..b : t[n] = s[n]) /\ (\A n \in (b + 1)..c : Fresh(t[n], k))
        /\ \A n, o \in (b + 1)..c : IsFlow(t[n].req) /\ IsFlow(t[o].req) => n = o
    BY <1>1, <1>2, Zenon DEF Sent
  <1>4. a \in Nat /\ b \in Nat /\ c \in Nat
    BY <1>1, <1>2, <1>3, CallsSeq
  <1>5. \A n \in (a + 1)..c : (n \in (a + 1)..b /\ n \in 1..b) \/ n \in (b + 1)..c
    BY <1>2, <1>3, <1>4
  <1>6. \A n \in (a + 1)..b : Fresh(t[n], j) /\ t[n] = s[n]
    <2>1. \A n \in (a + 1)..b : n \in 1..b
      BY <1>4
    <2> QED BY <1>2, <1>3, <2>1
  <1>7. \A x : IsFlow(x.req) => ~Fresh(x, "none")
    BY DEF IsFlow, Fresh
  <1>8. \A n \in (a + 1)..c : Fresh(t[n], l)
    <2>1. \A x : Fresh(x, "none") => Fresh(x, l)
      BY DEF Fresh, IsFlow
    <2>2. \A x : Fresh(x, j) \/ Fresh(x, k) => Fresh(x, l)
      BY <2>1
    <2> QED BY <1>3, <1>5, <1>6, <2>2
  <1>9. \A n, o \in (a + 1)..c : IsFlow(t[n].req) /\ IsFlow(t[o].req) => n = o
    <2> SUFFICES ASSUME NEW n \in (a + 1)..c, NEW o \in (a + 1)..c, IsFlow(t[n].req), IsFlow(t[o].req) PROVE n = o
      OBVIOUS
    <2>1. CASE j = "none"
      <3>1. n \notin (a + 1)..b /\ o \notin (a + 1)..b
        BY <1>6, <1>7, <2>1
      <3> QED BY <1>3, <1>5, <3>1
    <2>2. CASE k = "none"
      <3>1. n \notin (b + 1)..c /\ o \notin (b + 1)..c
        BY <1>3, <1>7, <2>2
      <3>2. n \in (a + 1)..b /\ o \in (a + 1)..b
        BY <1>5, <3>1
      <3> QED BY <1>2, <1>6, <3>2
    <2> QED BY <2>1, <2>2
  <1>10. a <= c /\ \A n \in 1..a : t[n] = r[n]
    <2>1. \A n \in 1..a : n \in 1..b
      BY <1>2, <1>4
    <2> QED BY <1>2, <1>3, <1>4, <2>1
  <1> QED BY <1>1, <1>3, <1>8, <1>9, <1>10 DEF Sent

LEMMA GoesChain ==
  ASSUME NEW u, NEW v, NEW w, NEW j, NEW k, NEW l, NEW a, NEW b, NEW x, NEW y,
         Goes(u, v, j, a, x), Goes(v, w, k, b, y), (j = "none" /\ l = k) \/ (k = "none" /\ l = j)
  PROVE  Goes(u, w, l, b, y)
  <1> SUFFICES ASSUME Fit(u) PROVE Goes(u, w, l, b, y)
    BY DEF Goes
  <1>1. Fit(v) /\ Still(u, v) /\ Sent(u.sent, v.sent, j)
    BY DEF Goes
  <1>2. Fit(w) /\ Still(v, w) /\ Sent(v.sent, w.sent, k) /\ w.f.step = b /\ w.d.status = y
    BY <1>1 DEF Goes
  <1>3. Sent(u.sent, w.sent, l)
    BY <1>1, <1>2, SentChain
  <1>4. Still(u, w)
    BY <1>1, <1>2 DEF Still
  <1> QED BY <1>2, <1>3, <1>4 DEF Goes

LEMMA GoesSelf == ASSUME NEW u, NEW k PROVE Goes(u, u, k, u.f.step, u.d.status)
  BY SentSelf DEF Goes, Still

LEMMA RequestFields ==
  ASSUME NEW m, NEW args, "m" \notin DOMAIN args, "win" \notin DOMAIN args
  PROVE  \E c : /\ c = Request(m, args) /\ c.st = "new" /\ c.res = Failed /\ DOMAIN c = {"req", "st", "res"}
                /\ c.req.m = m /\ c.req.win = win.gen /\ \A x \in DOMAIN args : c.req[x] = args[x]
  <1>1. PICK c, r : c = Request(m, args) /\ r = c.req
    OBVIOUS
  <1>2. /\ c.st = "new" /\ c.res = Failed /\ DOMAIN c = {"req", "st", "res"}
        /\ r = [x \in DOMAIN args \cup {"m", "win"} |->
                 IF x = "m" THEN m ELSE IF x = "win" THEN win.gen ELSE args[x]]
    BY <1>1 DEF Request
  <1>3. r["m"] = m /\ r["win"] = win.gen /\ \A x \in DOMAIN args : r[x] = args[x]
    BY <1>2
  <1>4. c.req.m = m /\ c.req.win = win.gen /\ \A x \in DOMAIN args : c.req[x] = args[x]
    BY <1>1, <1>3
  <1> QED BY <1>1, <1>2, <1>4

\* A request that is sent, and the same when standard input is closed.
LEMMA SendGoes ==
  ASSUME NEW u, NEW m, NEW args, NEW k, "m" \notin DOMAIN args, "win" \notin DOMAIN args,
         m # "connect", m = "mode" => "mode" \in DOMAIN args /\ args.mode \in Modes,
         m = "disconnect" => "by" \in DOMAIN args /\ (args.by = "flow" => k = "disconnect")
  PROVE  Goes(u, Send(u, m, args), k, u.f.step, u.d.status)
  <1>1. PICK c : /\ c = Request(m, args) /\ c.st = "new" /\ c.res = Failed /\ DOMAIN c = {"req", "st", "res"}
                 /\ c.req.m = m /\ c.req.win = win.gen /\ \A x \in DOMAIN args : c.req[x] = args[x]
    BY RequestFields
  <1>2. Fresh(c, k)
    BY <1>1 DEF Fresh, Asks, IsFlow
  <1>3. PICK t : t = Append(u.sent, c)
    OBVIOUS
  <1>4. Sent(u.sent, t, k)
    BY <1>2, <1>3, SentAppend
  <1>5. ~bridge.eof => Send(u, m, args) = [u EXCEPT !.sent = t]
    BY <1>1, <1>3 DEF Send
  <1>6. bridge.eof => Send(u, m, args) = u
    BY DEF Send
  <1>7. ASSUME ~bridge.eof PROVE Goes(u, [u EXCEPT !.sent = t], k, u.f.step, u.d.status)
    BY <1>4 DEF Goes, Fit, Still
  <1> QED BY <1>5, <1>6, <1>7, GoesSelf

LEMMA SetErrorGoes == ASSUME NEW u, NEW on, NEW k PROVE Goes(u, SetError(u, on), k, u.f.step, u.d.status)
  <1>1. PICK v : v = SetError(u, on)
    OBVIOUS
  <1>2. Fit(u) => Fit(v) /\ v.f = u.f /\ v.sent = u.sent /\ v.d.status = u.d.status /\ Still(u, v)
    BY <1>1, FieldsAre DEF SetError, Fit, Still
  <1> QED BY <1>1, <1>2, SentSelf DEF Goes

LEMMA BootstrapGoes == ASSUME NEW u, NEW k PROVE Goes(u, Bootstrap(u), k, u.f.step, u.d.status)
  <1>1. PICK v : v = [u EXCEPT !.d.reading = TRUE]
    OBVIOUS
  <1>2. Fit(u) => Fit(v) /\ v.f = u.f /\ v.sent = u.sent /\ v.d.status = u.d.status /\ Still(u, v)
    BY <1>1, FieldsAre DEF Fit, Still
  <1>3. Goes(u, v, "none", u.f.step, u.d.status)
    BY <1>2, SentSelf DEF Goes
  <1>4. Goes(v, Send(v, "snapshot", <<>>), k, v.f.step, v.d.status)
    <2>1. DOMAIN <<>> = {}
      OBVIOUS
    <2> QED BY <2>1, SendGoes
  <1>5. ASSUME Fit(u) PROVE v.f.step = u.f.step /\ v.d.status = u.d.status
    BY <1>2, <1>5
  <1>6. Goes(u, Send(v, "snapshot", <<>>), k, u.f.step, u.d.status)
    <2> SUFFICES ASSUME Fit(u) PROVE Goes(u, Send(v, "snapshot", <<>>), k, u.f.step, u.d.status)
      BY DEF Goes
    <2>1. Goes(v, Send(v, "snapshot", <<>>), k, u.f.step, u.d.status)
      BY <1>4, <1>5
    <2> QED BY <1>3, <2>1, GoesChain
  <1>7. Bootstrap(u) = IF u.d.reading THEN u ELSE Send(v, "snapshot", <<>>)
    BY <1>1 DEF Bootstrap
  <1> QED BY <1>6, <1>7, GoesSelf

\* The one place that sends a Connect.
LEMMA StartGoes ==
  ASSUME NEW u, Fit(u) => u.f.kind # "none"
  PROVE  Goes(u, StartChain(u), "connect", "start", u.d.status)
  <1> SUFFICES ASSUME Fit(u) PROVE Goes(u, StartChain(u), "connect", "start", u.d.status)
    BY DEF Goes
  <1>1. PICK m : m = IF u.f.kind = "connect" THEN u.d.mode ELSE u.f.mode
    OBVIOUS
  <1>2. m \in Modes
    BY <1>1 DEF Fit
  <1>3. PICK v : v = [u EXCEPT !.d.mode = m, !.f.step = "start"]
    OBVIOUS
  <1>4. Fit(v) /\ v.sent = u.sent /\ v.d.status = u.d.status /\ v.f.step = "start" /\ Still(u, v)
    BY <1>2, <1>3, FieldsAre DEF Fit, Still
  <1>5. PICK a : a = [server |-> u.f.server, mode |-> m, by |-> "flow"]
    OBVIOUS
  <1>6. DOMAIN a = {"server", "mode", "by"} /\ a.by = "flow" /\ a.mode = m
    BY <1>5
  <1>7. PICK c : /\ c = Request("connect", a) /\ c.st = "new" /\ c.res = Failed /\ DOMAIN c = {"req", "st", "res"}
                 /\ c.req.m = "connect" /\ c.req.win = win.gen /\ \A x \in DOMAIN a : c.req[x] = a[x]
    BY <1>6, RequestFields
  <1>8. c.req.by = "flow" /\ c.req.mode = m
    BY <1>6, <1>7
  <1>9. Fresh(c, "connect")
    BY <1>2, <1>7, <1>8 DEF Fresh, Asks
  <1>10. PICK t : t = Append(v.sent, c)
    OBVIOUS
  <1>11. Sent(u.sent, t, "connect")
    BY <1>4, <1>9, <1>10, SentAppend
  <1>12. StartChain(u) = Send(v, "connect", a)
    BY <1>1, <1>3, <1>5 DEF StartChain
  <1>13. StartChain(u) = IF bridge.eof THEN v ELSE [v EXCEPT !.sent = t]
    BY <1>7, <1>10, <1>12 DEF Send
  <1>14. PICK w : w = [v EXCEPT !.sent = t]
    OBVIOUS
  <1>15. Fit(w) /\ w.sent = t /\ w.d = v.d /\ w.f = v.f /\ w.k = v.k /\ w.p = v.p
    BY <1>4, <1>14 DEF Fit
  <1>16. Goes(u, w, "connect", "start", u.d.status)
    BY <1>4, <1>11, <1>15 DEF Goes, Still
  <1>17. Goes(u, v, "connect", "start", u.d.status)
    BY <1>4, SentSelf DEF Goes
  <1> QED BY <1>13, <1>14, <1>16, <1>17

LEMMA StopGoes ==
  ASSUME NEW u, Fit(u) => u.f.kind # "none"
  PROVE  Goes(u, StopChain(u), "disconnect", "stop", u.d.status)
  <1> SUFFICES ASSUME Fit(u) PROVE Goes(u, StopChain(u), "disconnect", "stop", u.d.status)
    BY DEF Goes
  <1>1. PICK v : v = [u EXCEPT !.f.step = "stop"]
    OBVIOUS
  <1>2. Fit(v) /\ v.sent = u.sent /\ v.d.status = u.d.status /\ v.f.step = "stop" /\ Still(u, v)
    BY <1>1, FieldsAre DEF Fit, Still
  <1>3. Goes(u, v, "none", "stop", u.d.status)
    BY <1>2, SentSelf DEF Goes
  <1>4. PICK a : a = [by |-> "flow"]
    OBVIOUS
  <1>5. DOMAIN a = {"by"} /\ a.by = "flow"
    BY <1>4
  <1>6. Goes(v, Send(v, "disconnect", a), "disconnect", v.f.step, v.d.status)
    BY <1>5, SendGoes
  <1>7. Goes(u, Send(v, "disconnect", a), "disconnect", "stop", u.d.status)
    BY <1>2, <1>3, <1>6, GoesChain
  <1>8. StopChain(u) = Send(v, "disconnect", a)
    BY <1>1, <1>4 DEF StopChain
  <1> QED BY <1>7, <1>8

LEMMA FailsGoes ==
  ASSUME NEW u
  PROVE  Goes(u, FlowFails(u), "none", "none", IF u.f.kind = "connect" THEN "idle" ELSE u.d.status)
  <1> DEFINE st == IF u.f.kind = "connect" THEN "idle" ELSE u.d.status
  <1> SUFFICES ASSUME Fit(u) PROVE Goes(u, FlowFails(u), "none", "none", st)
    BY DEF Goes
  <1>1. PICK e : e = SetError(u, TRUE)
    OBVIOUS
  <1>2. Fit(e) /\ Still(u, e) /\ Sent(u.sent, e.sent, "none") /\ e.d.status = u.d.status
    BY <1>1, SetErrorGoes DEF Goes
  <1>3. PICK w : w = FlowFails(u)
    OBVIOUS
  <1>4. w = [e EXCEPT !.f = NoFlow, !.d.status = st]
    BY <1>1, <1>2, <1>3 DEF FlowFails
  <1>5. st \in Statuses
    BY DEF Fit, Statuses
  <1> HIDE DEF st
  <1>6. NoFlow.kind = "none" /\ NoFlow.step = "none" /\ NoFlow.mode \in Modes /\ DOMAIN NoFlow = FlowFields
    BY DEF NoFlow, FlowFields, Modes
  <1>7. /\ DOMAIN w = {"d", "f", "k", "p", "sent"} /\ w.f = NoFlow /\ w.sent = e.sent /\ w.k = e.k /\ w.p = e.p
        /\ w.d = [e.d EXCEPT !.status = st]
    BY <1>2, <1>4 DEF Fit
  <1>8. Fit(w) /\ w.d.status = st /\ Still(e, w)
    BY <1>2, <1>5, <1>6, <1>7, FieldsAre DEF Fit, Still
  <1> QED BY <1>2, <1>3, <1>6, <1>7, <1>8 DEF Goes, Still

LEMMA ConnectGoes ==
  ASSUME NEW u, NEW s
  PROVE  /\ u.d.status = "connected" => Goes(u, DoConnect(u, s), "disconnect", "stop", "connecting")
         /\ u.d.status # "connected" => Goes(u, DoConnect(u, s), "connect", "start", "connecting")
  <1> SUFFICES ASSUME Fit(u)
               PROVE  /\ u.d.status = "connected" => Goes(u, DoConnect(u, s), "disconnect", "stop", "connecting")
                      /\ u.d.status # "connected" => Goes(u, DoConnect(u, s), "connect", "start", "connecting")
    BY DEF Goes
  <1>1. PICK v : v = [u EXCEPT !.d.status = "connecting", !.d.server = IF s \in u.d.servers THEN s ELSE @,
                               !.f = [NoFlow EXCEPT !.kind = "connect", !.server = s]]
    OBVIOUS
  <1>2. PICK f : f = [NoFlow EXCEPT !.kind = "connect", !.server = s]
    OBVIOUS
  <1>3. DOMAIN f = FlowFields /\ f.kind = "connect" /\ f.step = "none" /\ f.mode \in Modes
    BY <1>2 DEF NoFlow, FlowFields, Modes
  <1>4. Fit(v) /\ v.sent = u.sent /\ v.d.status = "connecting" /\ v.f = f /\ Still(u, v)
    BY <1>1, <1>2, <1>3, FieldsAre DEF Fit, Still, Statuses
  <1>5. Goes(u, v, "none", "none", "connecting")
    BY <1>3, <1>4, SentSelf DEF Goes
  <1>6. DoConnect(u, s) = IF u.d.status = "connected" THEN StopChain(v) ELSE StartChain(v)
    BY <1>1 DEF DoConnect
  <1>7. /\ Goes(v, StopChain(v), "disconnect", "stop", "connecting")
        /\ Goes(v, StartChain(v), "connect", "start", "connecting")
    BY <1>3, <1>4, StopGoes, StartGoes
  <1>8. /\ Goes(u, StopChain(v), "disconnect", "stop", "connecting")
        /\ Goes(u, StartChain(v), "connect", "start", "connecting")
    BY <1>5, <1>7, GoesChain
  <1> QED BY <1>6, <1>8

\* A status the bridge publishes or answers with.
IsStatus(e) == e.status \in Statuses /\ (e.status = "connected" => e.mode \in Modes)

\* An event of status idle is what a sequence waits for.
LEMMA StatusGoes ==
  ASSUME NEW u, NEW e, IsStatus(e)
  PROVE  /\ e.status = "idle" /\ u.f.step = "idle" => Goes(u, OnVpnStatus(u, e), "connect", "start", "idle")
         /\ ~(e.status = "idle" /\ u.f.step = "idle") => Goes(u, OnVpnStatus(u, e), "none", u.f.step, e.status)
  <1> DEFINE starts == e.status = "idle" /\ u.f.step = "idle"
             k == IF starts THEN "connect" ELSE "none"
             step == IF starts THEN "start" ELSE u.f.step
  <1> SUFFICES ASSUME Fit(u) PROVE Goes(u, OnVpnStatus(u, e), k, step, e.status)
    BY DEF Goes
  <1> DEFINE a == [u EXCEPT !.d.status = e.status]
             b == IF e.status = "connected" /\ e.server # NoServer
                  THEN [a EXCEPT !.d.server = e.server, !.d.mode = e.mode, !.k.last = e.server] ELSE a
             c == IF e.status = "idle" /\ u.f.step = "idle" THEN StartChain(b) ELSE b
  <1>0. OnVpnStatus(u, e) = IF u.d.boot THEN c ELSE Bootstrap(c)
    BY Zenon DEF OnVpnStatus
  <1>1. PICK v : v = a
    OBVIOUS
  <1>2. Fit(v) /\ v.sent = u.sent /\ v.d.status = e.status /\ v.f = u.f /\ Still(u, v)
    BY <1>1, FieldsAre DEF Fit, Still, IsStatus
  <1>3. PICK w : w = b /\ w = IF e.status = "connected" /\ e.server # NoServer
                              THEN [v EXCEPT !.d.server = e.server, !.d.mode = e.mode, !.k.last = e.server] ELSE v
    BY <1>1
  <1>4. Fit(w) /\ w.sent = u.sent /\ w.d.status = e.status /\ w.f = u.f /\ Still(u, w)
    <2>1. CASE e.status = "connected" /\ e.server # NoServer
      <3>1. PICK z : z = [v EXCEPT !.d.server = e.server, !.d.mode = e.mode, !.k.last = e.server]
        OBVIOUS
      <3>2. Fit(z) /\ z.sent = v.sent /\ z.d.status = e.status /\ z.f = v.f /\ Still(v, z)
        BY <1>2, <2>1, <3>1, FieldsAre DEF Fit, Still, IsStatus
      <3> QED BY <1>2, <1>3, <2>1, <3>1, <3>2 DEF Still
    <2>2. CASE ~(e.status = "connected" /\ e.server # NoServer)
      BY <1>2, <1>3, <2>2
    <2> QED BY <2>1, <2>2
  <1>5. PICK x : x = IF starts THEN StartChain(w) ELSE w
    OBVIOUS
  <1>6. Goes(u, w, "none", u.f.step, e.status)
    BY <1>4, SentSelf DEF Goes
  <1>7. Goes(u, x, k, step, e.status)
    <2>1. CASE starts
      <3>1. Fit(w) => w.f.kind # "none"
        BY <1>4, <2>1 DEF Fit
      <3>2. Goes(w, StartChain(w), "connect", "start", e.status)
        BY <1>4, <3>1, StartGoes
      <3>3. Goes(u, StartChain(w), "connect", "start", e.status)
        BY <1>6, <3>2, GoesChain
      <3> QED BY <1>5, <2>1, <3>3
    <2>2. CASE ~starts
      BY <1>5, <1>6, <2>2
    <2> QED BY <2>1, <2>2
  <1>8. OnVpnStatus(u, e) = IF u.d.boot THEN x ELSE Bootstrap(x)
    BY <1>0, <1>3, <1>5
  <1> HIDE DEF starts, k, step
  <1>9. Goes(u, Bootstrap(x), k, step, e.status)
    <2>1. Goes(x, Bootstrap(x), "none", x.f.step, x.d.status)
      BY BootstrapGoes
    <2>2. x.f.step = step /\ x.d.status = e.status
      BY <1>7 DEF Goes
    <2>3. Goes(x, Bootstrap(x), "none", step, e.status)
      BY <2>1, <2>2
    <2> QED BY <1>7, <2>3, GoesChain
  <1> QED BY <1>7, <1>8, <1>9

LEMMA ProbeGoes ==
  ASSUME NEW u
  PROVE  /\ Goes(u, AutoProbe(u), "none", u.f.step, u.d.status)
         /\ \A r, ok : Goes(u, ProbeAnswer(u, r, ok), "none", u.f.step, u.d.status)
         /\ \A e : Goes(u, OnProbeResult(u, e), "none", u.f.step, u.d.status)
  <1>1. Goes(u, AutoProbe(u), "none", u.f.step, u.d.status)
    <2>1. PICK v, a : /\ v = [u EXCEPT !.d.swept = @ \cup u.d.servers, !.d.sweeping = TRUE, !.p.sweeps = @ + 1]
                      /\ a = [server |-> NoServer, by |-> "sweep"]
      OBVIOUS
    <2>2. DOMAIN a = {"server", "by"}
      BY <2>1
    <2>3. AutoProbe(u) = u \/ AutoProbe(u) = Send(v, "probe", a)
      BY <2>1 DEF AutoProbe
    <2>4. Fit(u) => Fit(v) /\ v.sent = u.sent /\ v.d.status = u.d.status /\ v.f = u.f /\ Still(u, v)
      BY <2>1, FieldsAre DEF Fit, Still
    <2>5. Goes(u, v, "none", u.f.step, u.d.status)
      BY <2>4, SentSelf DEF Goes
    <2>6. Goes(v, Send(v, "probe", a), "none", v.f.step, v.d.status)
      BY <2>2, SendGoes
    <2>7. Goes(u, Send(v, "probe", a), "none", u.f.step, u.d.status)
      <3>1. ASSUME Fit(u) PROVE Goes(u, Send(v, "probe", a), "none", u.f.step, u.d.status)
        <4>1. Goes(v, Send(v, "probe", a), "none", u.f.step, u.d.status)
          BY <2>4, <2>6, <3>1
        <4> QED BY <2>5, <4>1, GoesChain
      <3> QED BY <3>1 DEF Goes
    <2> QED BY <2>3, <2>7, GoesSelf
  <1>2. ASSUME NEW X PROVE Goes(u, [u EXCEPT !.d.sweeping = FALSE], "none", u.f.step, u.d.status)
                           /\ Goes(u, [u EXCEPT !.d.probe = X], "none", u.f.step, u.d.status)
    BY FieldsAre, SentSelf DEF Goes, Fit, Still
  <1>3. ASSUME NEW r, NEW ok PROVE Goes(u, ProbeAnswer(u, r, ok), "none", u.f.step, u.d.status)
    <2>1. \/ ProbeAnswer(u, r, ok) = [u EXCEPT !.d.sweeping = FALSE] \/ ProbeAnswer(u, r, ok) = u
          \/ \E X : ProbeAnswer(u, r, ok) = [u EXCEPT !.d.probe = X]
      BY DEF ProbeAnswer
    <2> QED BY <1>2, <2>1, GoesSelf
  <1>4. ASSUME NEW e PROVE Goes(u, OnProbeResult(u, e), "none", u.f.step, u.d.status)
    BY FieldsAre, SentSelf DEF Goes, Fit, Still, OnProbeResult
  <1> QED BY <1>1, <1>3, <1>4

\* A snapshot: what the store takes over and what it keeps.
Boots(u, snap, v) ==
  /\ Fit(v) /\ Sent(u.sent, v.sent, "none") /\ v.f.step = u.f.step
  /\ v.d.status = IF u.d.status = "connecting" /\ snap.status = "connected" THEN "connecting" ELSE snap.status
  /\ v.d.boot = TRUE /\ v.d.servers = snap.servers /\ v.d.auto = IF u.d.auto = "fresh" THEN "claim" ELSE u.d.auto
  /\ v.d.may = IF u.d.auto = "fresh" /\ snap.may /\ snap.status = "idle" THEN snap.servers ELSE u.d.may
  /\ v.p.want = u.p.want /\ v.p.refused = u.p.refused /\ v.k.claim = u.k.claim

LEMMA BootGoes ==
  ASSUME NEW u, NEW snap, snap.status \in Statuses, snap.mode \in Modes, Fit(u), NEW v, v = DoBootstrap(u, snap)
  PROVE  Boots(u, snap, v)
  <1> DEFINE st == IF u.d.status = "connecting" /\ snap.status = "connected" THEN "connecting" ELSE snap.status
             stays == st # "connected" /\ snap.server = NoServer
             x == [u EXCEPT !.d.status = st, !.d.mode = snap.mode, !.d.boot = TRUE, !.d.reading = FALSE,
                            !.d.server = IF stays THEN @ ELSE snap.server,
                            !.d.servers = snap.servers, !.d.measured = snap.measured,
                            !.d.auto = IF @ = "fresh" THEN "claim" ELSE @,
                            !.d.may = IF u.d.auto = "fresh" /\ snap.may /\ snap.status = "idle" THEN snap.servers ELSE @]
  <1>1. v = AutoProbe(x)
    BY Zenon DEF DoBootstrap
  <1>2. st \in Statuses
    BY DEF Statuses
  <1>3. PICK w, a, b, c : /\ w = x /\ a = IF stays THEN u.d.server ELSE snap.server
                          /\ b = IF u.d.auto = "fresh" THEN "claim" ELSE u.d.auto
                          /\ c = IF u.d.auto = "fresh" /\ snap.may /\ snap.status = "idle" THEN snap.servers ELSE u.d.may
    OBVIOUS
  <1> HIDE DEF stays, st
  <1>7. PICK d : d = [u.d EXCEPT !.status = st, !.mode = snap.mode, !.boot = TRUE, !.reading = FALSE, !.server = a,
                                 !.servers = snap.servers, !.measured = snap.measured, !.auto = b, !.may = c]
    OBVIOUS
  <1>8. w = [u EXCEPT !.d = d]
    <2>1. w = [u EXCEPT !.d.status = st, !.d.mode = snap.mode, !.d.boot = TRUE, !.d.reading = FALSE, !.d.server = a,
                        !.d.servers = snap.servers, !.d.measured = snap.measured, !.d.auto = b, !.d.may = c]
      BY <1>3
    <2>2. DOMAIN u = {"d", "f", "k", "p", "sent"}
      BY DEF Fit
    <2> QED BY <1>7, <2>1, <2>2
  <1>9. /\ DOMAIN d = DOMAIN u.d /\ d.status = st /\ d.mode = snap.mode /\ d.boot = TRUE /\ d.servers = snap.servers
        /\ d.auto = b /\ d.may = c
    BY <1>7, FieldsAre DEF Fit
  <1>10. DOMAIN w = {"d", "f", "k", "p", "sent"} /\ w.f = u.f /\ w.k = u.k /\ w.p = u.p /\ w.sent = u.sent /\ w.d = d
    BY <1>8 DEF Fit
  <1>4. /\ DOMAIN w = {"d", "f", "k", "p", "sent"} /\ w.f = u.f /\ w.k = u.k /\ w.p = u.p /\ w.sent = u.sent
        /\ DOMAIN w.d = DOMAIN u.d /\ w.d.status = st /\ w.d.mode = snap.mode /\ w.d.boot = TRUE /\ w.d.servers = snap.servers
        /\ w.d.auto = IF u.d.auto = "fresh" THEN "claim" ELSE u.d.auto
        /\ w.d.may = IF u.d.auto = "fresh" /\ snap.may /\ snap.status = "idle" THEN snap.servers ELSE u.d.may
    <2>1. DOMAIN u.d = DOMAIN w.d
      BY <1>9, <1>10
    <2>2. w.d.status = st /\ w.d.mode = snap.mode /\ w.d.boot = TRUE /\ w.d.servers = snap.servers /\ w.d.auto = b /\ w.d.may = c
      BY <1>9, <1>10
    <2>3. /\ b = IF u.d.auto = "fresh" THEN "claim" ELSE u.d.auto
          /\ c = IF u.d.auto = "fresh" /\ snap.may /\ snap.status = "idle" THEN snap.servers ELSE u.d.may
      BY <1>3, Zenon
    <2>4. w.d.auto = IF u.d.auto = "fresh" THEN "claim" ELSE u.d.auto
      BY <2>2, <2>3
    <2>5. w.d.may = IF u.d.auto = "fresh" /\ snap.may /\ snap.status = "idle" THEN snap.servers ELSE u.d.may
      BY <2>2, <2>3, Zenon
    <2> QED BY <1>10, <2>1, <2>2, <2>4, <2>5
  <1> HIDE DEF x
  <1>5. Fit(w)
    BY <1>2, <1>4 DEF Fit
  <1>6. Fit(v) /\ Still(w, v) /\ Sent(w.sent, v.sent, "none") /\ v.f.step = w.f.step /\ v.d.status = w.d.status
    BY <1>1, <1>3, <1>5, ProbeGoes DEF Goes
  <1> QED BY <1>4, <1>6 DEF Still, st, Boots

\* What a sequence does with an answer.
LEMMA FlowGoes ==
  ASSUME NEW u, NEW m, Fit(u) => u.f.kind # "none"
  PROVE  /\ m = "connect" => Goes(u, FlowAnswer(u, m, TRUE), "none", "none", u.d.status)
         /\ m = "disconnect" /\ u.d.status = "idle" => Goes(u, FlowAnswer(u, m, TRUE), "connect", "start", u.d.status)
         /\ m = "disconnect" /\ u.d.status # "idle" => Goes(u, FlowAnswer(u, m, TRUE), "none", "idle", u.d.status)
         /\ Goes(u, FlowAnswer(u, m, FALSE), "none", "none", IF u.f.kind = "connect" THEN "idle" ELSE u.d.status)
  <1>1. ASSUME m = "connect" PROVE Goes(u, FlowAnswer(u, m, TRUE), "none", "none", u.d.status)
    <2>1. PICK v : v = [u EXCEPT !.f = NoFlow]
      OBVIOUS
    <2>2. FlowAnswer(u, m, TRUE) = v
      BY <1>1, <2>1 DEF FlowAnswer
    <2>3. NoFlow.kind = "none" /\ NoFlow.step = "none" /\ NoFlow.mode \in Modes /\ DOMAIN NoFlow = FlowFields
      BY DEF NoFlow, FlowFields, Modes
    <2>4. Fit(u) => Fit(v) /\ v.sent = u.sent /\ v.f.step = "none" /\ v.d = u.d /\ Still(u, v)
      BY <2>1, <2>3 DEF Fit, Still
    <2> QED BY <2>2, <2>4, SentSelf DEF Goes
  <1>2. ASSUME m = "disconnect", u.d.status = "idle" PROVE Goes(u, FlowAnswer(u, m, TRUE), "connect", "start", u.d.status)
    BY <1>2, StartGoes DEF FlowAnswer
  <1>3. ASSUME m = "disconnect", u.d.status # "idle" PROVE Goes(u, FlowAnswer(u, m, TRUE), "none", "idle", u.d.status)
    <2>1. PICK v : v = [u EXCEPT !.f.step = "idle"]
      OBVIOUS
    <2>2. FlowAnswer(u, m, TRUE) = v
      BY <1>3, <2>1 DEF FlowAnswer
    <2>3. Fit(u) => Fit(v) /\ v.sent = u.sent /\ v.f.step = "idle" /\ v.d = u.d /\ Still(u, v)
      BY <2>1, FieldsAre DEF Fit, Still
    <2> QED BY <2>2, <2>3, SentSelf DEF Goes
  <1>4. FlowAnswer(u, m, FALSE) = FlowFails(u)
    BY DEF FlowAnswer
  <1> QED BY <1>1, <1>2, <1>3, <1>4, FailsGoes

\* The answer to a click on Disconnect.
LEMMA DisconnectGoes ==
  ASSUME NEW u
  PROVE  /\ u.f.step = "idle" => Goes(u, DisconnectAnswer(u, TRUE), "connect", "start", "idle")
         /\ u.f.step # "idle" => Goes(u, DisconnectAnswer(u, TRUE), "none", u.f.step, "idle")
         /\ Goes(u, DisconnectAnswer(u, FALSE), "none", u.f.step, "error")
  <1>1. IsStatus(Status("idle")) /\ Status("idle").status = "idle"
    BY DEF IsStatus, Status, Statuses
  <1>2. PICK v, e : v = SetError(u, FALSE) /\ e = Status("idle")
    OBVIOUS
  <1>3. Goes(u, v, "none", u.f.step, u.d.status)
    BY <1>2, SetErrorGoes
  <1>4. DisconnectAnswer(u, TRUE) = OnVpnStatus(v, e)
    BY <1>2 DEF DisconnectAnswer
  <1>5. ASSUME Fit(u) PROVE v.f.step = u.f.step
    BY <1>3, <1>5 DEF Goes
  <1>6. ASSUME u.f.step = "idle" PROVE Goes(u, OnVpnStatus(v, e), "connect", "start", "idle")
    <2>1. ASSUME Fit(u) PROVE Goes(u, OnVpnStatus(v, e), "connect", "start", "idle")
      <3>1. Goes(v, OnVpnStatus(v, e), "connect", "start", "idle")
        BY <1>1, <1>2, <1>5, <1>6, <2>1, StatusGoes
      <3> QED BY <1>3, <3>1, GoesChain
    <2> QED BY <2>1 DEF Goes
  <1>7. ASSUME u.f.step # "idle" PROVE Goes(u, OnVpnStatus(v, e), "none", u.f.step, "idle")
    <2>1. ASSUME Fit(u) PROVE Goes(u, OnVpnStatus(v, e), "none", u.f.step, "idle")
      <3>1. Goes(v, OnVpnStatus(v, e), "none", u.f.step, "idle")
        BY <1>1, <1>2, <1>5, <1>7, <2>1, StatusGoes
      <3> QED BY <1>3, <3>1, GoesChain
    <2> QED BY <2>1 DEF Goes
  <1>8. Goes(u, DisconnectAnswer(u, FALSE), "none", u.f.step, "error")
    <2>1. PICK w : w = [u EXCEPT !.d.status = "error"]
      OBVIOUS
    <2>2. Fit(u) => Fit(w) /\ w.sent = u.sent /\ w.f = u.f /\ w.d.status = "error" /\ Still(u, w)
      BY <2>1, FieldsAre DEF Fit, Still, Statuses
    <2>3. Goes(u, w, "none", u.f.step, "error")
      BY <2>2, SentSelf DEF Goes
    <2>4. DisconnectAnswer(u, FALSE) = SetError(w, TRUE)
      BY <2>1 DEF DisconnectAnswer
    <2>5. ASSUME Fit(u) PROVE Goes(u, SetError(w, TRUE), "none", u.f.step, "error")
      <3>1. Goes(w, SetError(w, TRUE), "none", w.f.step, w.d.status)
        BY SetErrorGoes
      <3>2. w.f.step = u.f.step /\ w.d.status = "error"
        BY <2>2, <2>5
      <3>3. Goes(w, SetError(w, TRUE), "none", u.f.step, "error")
        BY <3>1, <3>2
      <3>4. PICK z : z = SetError(w, TRUE)
        OBVIOUS
      <3>5. Goes(u, z, "none", u.f.step, "error")
        <4>1. Goes(u, w, "none", u.f.step, "error") /\ Goes(w, z, "none", u.f.step, "error")
          BY <2>3, <3>3, <3>4
        <4> HIDE DEF Goes
        <4> QED BY <4>1, GoesChain, SMTT(30)
      <3> QED BY <3>4, <3>5
    <2>6. Goes(u, SetError(w, TRUE), "none", u.f.step, "error")
      BY <2>5 DEF Goes
    <2> QED BY <2>4, <2>6
  <1> QED BY <1>4, <1>6, <1>7, <1>8

\* A snapshot that failed: the next event or click may ask again.
LEMMA UnreadGoes ==
  ASSUME NEW u, Fit(u), NEW v, v = SetError([u EXCEPT !.d.reading = FALSE], TRUE)
  PROVE  /\ Fit(v) /\ v.sent = u.sent /\ v.f = u.f /\ v.d.status = u.d.status /\ v.d.boot = u.d.boot
         /\ v.d.servers = u.d.servers /\ v.d.auto = u.d.auto /\ v.d.may = u.d.may
         /\ v.p = u.p /\ v.k.claim = u.k.claim
  <1>1. PICK w : w = [u EXCEPT !.d.reading = FALSE]
    OBVIOUS
  <1>2. /\ Fit(w) /\ w.sent = u.sent /\ w.f = u.f /\ w.d.status = u.d.status /\ w.d.boot = u.d.boot
        /\ w.d.servers = u.d.servers /\ w.d.auto = u.d.auto /\ w.d.may = u.d.may /\ w.p = u.p /\ w.k = u.k
    BY <1>1, FieldsAre DEF Fit
  <1>3. v = [w EXCEPT !.d.err = TRUE, !.k.err = TRUE]
    BY <1>1 DEF SetError
  <1>4. /\ DOMAIN v = DOMAIN w /\ v.d = [w.d EXCEPT !.err = TRUE] /\ v.k = [w.k EXCEPT !.err = TRUE]
        /\ v.f = w.f /\ v.p = w.p /\ v.sent = w.sent
    BY <1>2, <1>3 DEF Fit
  <1>5. /\ DOMAIN v.d = DashFields /\ v.d.status = w.d.status /\ v.d.mode = w.d.mode /\ v.d.boot = w.d.boot
        /\ v.d.servers = w.d.servers /\ v.d.auto = w.d.auto /\ v.d.may = w.d.may
    BY <1>2, <1>4, FieldsAre DEF Fit
  <1>6. {"claim", "last"} \subseteq DOMAIN v.k /\ v.k.claim = w.k.claim
    BY <1>2, <1>4 DEF Fit
  <1> QED BY ZenonT(60), <1>1, <1>2, <1>4, <1>5, <1>6, FieldsAre DEF Fit

\* The other answers and events.
LEMMA OtherGoes ==
  ASSUME NEW u
  PROVE  /\ \A r, res : r.m # "snapshot" /\ ~IsFlow(r) /\ ~(r.m = "disconnect" /\ r.by = "user") =>
                          Goes(u, Answer(u, r, res), "none", u.f.step, u.d.status)
         /\ \A e : e.topic # "vpn:status" => Goes(u, OnEvent(u, e), "none", u.f.step, u.d.status)
  <1>1. ASSUME NEW r, NEW res, r.m # "snapshot", ~IsFlow(r), ~(r.m = "disconnect" /\ r.by = "user")
        PROVE  Goes(u, Answer(u, r, res), "none", u.f.step, u.d.status)
    <2>1. CASE r.m = "probe"
      <3>1. Answer(u, r, res) = ProbeAnswer(u, r, res.ok)
        BY <2>1 DEF Answer
      <3> QED BY <3>1, ProbeGoes
    <2>2. CASE r.m # "probe"
      <3>1. Answer(u, r, res) = u
        BY <1>1, <2>2 DEF Answer, IsFlow
      <3> QED BY <3>1, GoesSelf
    <2> QED BY <2>1, <2>2
  <1>2. ASSUME NEW e, e.topic # "vpn:status" PROVE Goes(u, OnEvent(u, e), "none", u.f.step, u.d.status)
    <2>1. CASE e.topic = "chain:error"
      <3>1. OnEvent(u, e) = SetError(u, TRUE)
        BY <2>1 DEF OnEvent
      <3> QED BY <3>1, SetErrorGoes
    <2>2. CASE e.topic \in {"sub:synced", "servers:changed"}
      <3>1. OnEvent(u, e) = Bootstrap(u)
        BY <2>2 DEF OnEvent
      <3> QED BY <3>1, BootstrapGoes
    <2>3. CASE e.topic = "probe:result"
      <3>1. OnEvent(u, e) = OnProbeResult(u, e)
        BY <2>3 DEF OnEvent
      <3> QED BY <3>1, ProbeGoes
    <2>4. CASE e.topic \notin {"chain:error", "sub:synced", "servers:changed", "probe:result"}
      <3>1. OnEvent(u, e) = u
        BY <1>2, <2>4 DEF OnEvent
      <3> QED BY <3>1, GoesSelf
    <2> QED BY <2>1, <2>2, <2>3, <2>4
  <1> QED BY <1>1, <1>2

(***************************************************************************)
(* What the lines on their way say of the connection.                      *)
(***************************************************************************)
\* The controller is up, or coming up; and a status that says it is not.
Running(h) == h.st \in {"starting", "up"}
Busy == Running(ctl)
Low(st) == st \in {"idle", "error"}

\* A line that shows a connection, an answer and a line that show none.
Upper(e) == e.topic = "vpn:status" /\ e.status \in {"connecting", "connected"}
Lowers(x) == \/ x.req.m = "snapshot" /\ x.res.ok /\ Low(x.res.val.status)
             \/ x.req.m = "disconnect" /\ x.req.by = "user"
Down(e) == (e.topic = "vpn:status" /\ Low(e.status)) \/ (e.topic = "answer" /\ Lowers(e))

\* Some line shows a connection; each one that shows none is followed by one that does.
HasUp(s) == \E b \in DOMAIN s : Upper(s[b])
Rises(s) == \A a \in DOMAIN s : Down(s[a]) => \E b \in DOMAIN s : a < b /\ Upper(s[b])

LEMMA TakesRise ==
  ASSUME NEW s, NEW t, Takes(s, t)
  PROVE  /\ HasUp(s) => Upper(s[1]) \/ HasUp(t)
         /\ HasUp(t) => HasUp(s)
         /\ Rises(s) => Rises(t) /\ (Down(s[1]) => HasUp(t))
  <1>1. PICK n : n = Len(s)
    OBVIOUS
  <1>2. n \in Nat \ {0} /\ DOMAIN s = 1..n /\ DOMAIN t = 1..(n - 1) /\ \A i \in 1..(n - 1) : t[i] = s[i + 1]
    BY <1>1 DEF Takes
  <1>3. /\ \A i \in 1..(n - 1) : i + 1 \in 1..n
        /\ \A i \in 1..n : i = 1 \/ (i - 1 \in 1..(n - 1) /\ (i - 1) + 1 = i)
    BY <1>2
  <1>4. ASSUME NEW b \in DOMAIN s, Upper(s[b]), b # 1 PROVE b - 1 \in DOMAIN t /\ Upper(t[b - 1])
    BY <1>2, <1>3, <1>4
  <1>5. HasUp(s) => Upper(s[1]) \/ HasUp(t)
    BY <1>4 DEF HasUp
  <1>6. HasUp(t) => HasUp(s)
    BY <1>2, <1>3 DEF HasUp
  <1>7. ASSUME Rises(s), NEW a \in DOMAIN t, Down(t[a]) PROVE \E b \in DOMAIN t : a < b /\ Upper(t[b])
    <2>1. a \in Nat /\ a + 1 \in DOMAIN s /\ Down(s[a + 1])
      BY <1>2, <1>3, <1>7
    <2>2. PICK b \in DOMAIN s : a + 1 < b /\ Upper(s[b])
      BY <1>7, <2>1 DEF Rises
    <2>3. b # 1 /\ a < b - 1
      BY <1>2, <2>1, <2>2
    <2> QED BY <1>4, <2>2, <2>3
  <1>8. ASSUME Rises(s), Down(s[1]) PROVE HasUp(t)
    <2>1. 1 \in DOMAIN s
      BY <1>2
    <2>2. PICK b \in DOMAIN s : 1 < b /\ Upper(s[b])
      BY <1>8, <2>1 DEF Rises
    <2> QED BY <1>4, <2>2 DEF HasUp
  <1> QED BY <1>5, <1>6, <1>7, <1>8 DEF Rises

LEMMA PutsRise ==
  ASSUME NEW s, NEW t, NEW x, Puts(s, t, x)
  PROVE  /\ HasUp(t) <=> HasUp(s) \/ Upper(x)
         /\ Rises(s) /\ ~Down(x) => Rises(t)
         /\ Upper(x) => Rises(t)
  <1>1. PICK n : n = Len(s)
    OBVIOUS
  <1>2. n \in Nat /\ DOMAIN s = 1..n /\ DOMAIN t = 1..(n + 1) /\ t[n + 1] = x /\ \A i \in 1..n : t[i] = s[i]
    BY <1>1 DEF Puts
  <1>3. n + 1 \in 1..(n + 1) /\ (\A i \in 1..n : i \in 1..(n + 1)) /\ \A i \in 1..(n + 1) : i \in 1..n \/ (i = n + 1)
    BY <1>2
  <1>4. HasUp(t) <=> HasUp(s) \/ Upper(x)
    BY <1>2, <1>3 DEF HasUp
  <1>5. Rises(s) /\ ~Down(x) => Rises(t)
    <2> SUFFICES ASSUME Rises(s), ~Down(x), NEW a \in DOMAIN t, Down(t[a])
                 PROVE  \E b \in DOMAIN t : a < b /\ Upper(t[b])
      BY DEF Rises
    <2>1. a \in DOMAIN s /\ Down(s[a])
      BY <1>2, <1>3
    <2>2. PICK b \in DOMAIN s : a < b /\ Upper(s[b])
      BY <2>1 DEF Rises
    <2> QED BY <1>2, <1>3, <2>2
  <1>6. Upper(x) => Rises(t)
    <2> SUFFICES ASSUME Upper(x), NEW a \in DOMAIN t, Down(t[a])
                 PROVE  \E b \in DOMAIN t : a < b /\ Upper(t[b])
      BY DEF Rises
    <2>1. ~Down(x)
      BY DEF Upper, Down, Low
    <2>2. a \in 1..n /\ n + 1 \in DOMAIN t /\ a < n + 1
      BY <1>2, <1>3, <2>1
    <2> QED BY <1>2, <2>2
  <1> QED BY <1>4, <1>5, <1>6

\* What a publish leaves in the channel: the end of what it held and of what came.
KeptAs(q, es, t) ==
  /\ IsList(t) /\ Len(t) <= Buffer
  /\ Len(q) \in Nat /\ DOMAIN q = 1..Len(q) /\ Len(es) \in Nat /\ DOMAIN es = 1..Len(es)
  /\ Len(t) \in Nat /\ DOMAIN t = 1..Len(t)
  /\ \E d \in Nat :
       /\ Len(t) + d = Len(q) + Len(es)
       /\ \A n \in 1..Len(t) : t[n] = IF n + d <= Len(q) THEN q[n + d] ELSE es[(n + d) - Len(q)]
       /\ \A n \in 1..d : (IF n <= Len(q) THEN q[n] ELSE es[n - Len(q)]).topic \in Dropped(q, es)
       /\ \A x \in Dropped(q, es) : \E n \in 1..d : x = (IF n <= Len(q) THEN q[n] ELSE es[n - Len(q)]).topic

LEMMA KeptIs == ASSUME NEW q, NEW es, IsList(q), IsList(es), NEW t, t = Kept(q, es) PROVE KeptAs(q, es, t)
  <1>1. PICK S : q \in Seq(S) /\ es \in Seq(S)
    <2>1. PICK A, B : q \in Seq(A) /\ es \in Seq(B)
      BY DEF IsList
    <2>2. q \in Seq(A \cup B) /\ es \in Seq(A \cup B)
      BY <2>1
    <2> QED BY <2>2
  <1>2. PICK u, a, b, n : u = q \o es /\ a = Len(q) /\ b = Len(es) /\ n = Len(u)
    OBVIOUS
  <1>3. /\ u \in Seq(S) /\ a \in Nat /\ b \in Nat /\ n = a + b /\ DOMAIN q = 1..a /\ DOMAIN es = 1..b /\ DOMAIN u = 1..n
        /\ \A i \in 1..n : u[i] = IF i <= a THEN q[i] ELSE es[i - a]
    BY <1>1, <1>2
  <1>4. Buffer \in Nat
    BY PipeAssumption
  <1>5. PICK d : d = IF n > Buffer THEN n - Buffer ELSE 0
    OBVIOUS
  <1>6. d \in Nat /\ d <= n
    BY <1>3, <1>4, <1>5
  <1>7. IsList(t) /\ Len(t) <= Buffer /\ Len(t) + d = n /\ Len(t) \in Nat /\ DOMAIN t = 1..Len(t)
        /\ \A i \in 1..Len(t) : t[i] = u[i + d]
    <2>1. CASE ~(n > Buffer)
      <3>1. t = u /\ d = 0
        BY <1>2, <1>5, <2>1 DEF Kept
      <3> QED BY <1>2, <1>3, <1>4, <2>1, <3>1 DEF IsList
    <2>2. CASE n > Buffer
      <3>1. PICK k : k = n - Buffer + 1
        OBVIOUS
      <3>2. t = SubSeq(u, k, n)
        BY <1>2, <2>2, <3>1 DEF Kept
      <3>3. k \in 1..(Len(u) + 1) /\ n \in (k - 1)..Len(u) /\ d = k - 1 /\ n + 1 - k = Buffer
        <4>1. n \in Nat /\ Buffer \in Nat /\ n > Buffer /\ d = n - Buffer
          BY <1>3, <1>4, <1>5, <2>2
        <4>2. k \in 1..(n + 1) /\ n \in (k - 1)..n /\ d = k - 1 /\ n + 1 - k = Buffer
          BY <3>1, <4>1
        <4> QED BY <1>2, <4>2
      <3>4. t \in Seq(S) /\ Len(t) = n + 1 - k /\ \A i \in 1..(n + 1 - k) : t[i] = u[k + i - 1]
        BY <1>3, <3>2, <3>3, PartIs
      <3>5. \A i \in 1..(n + 1 - k) : k + i - 1 = i + d
        BY <1>3, <1>4, <3>1, <3>3
      <3>6. Len(t) + d = n /\ Len(t) <= Buffer /\ Len(t) \in Nat /\ DOMAIN t = 1..Len(t)
        BY <1>3, <1>4, <3>1, <3>3, <3>4
      <3> QED BY <3>4, <3>5, <3>6 DEF IsList
    <2> QED BY <2>1, <2>2
  <1>8. \A i \in 1..Len(t) : i + d \in 1..n /\ (i + d) - a = i + d - a
    BY <1>3, <1>6, <1>7
  <1>9. \A i \in 1..Len(t) : t[i] = IF i + d <= a THEN q[i + d] ELSE es[(i + d) - a]
    BY <1>3, <1>7, <1>8
  <1>10. /\ \A i \in 1..d : (IF i <= a THEN q[i] ELSE es[i - a]).topic \in Dropped(q, es)
         /\ \A x \in Dropped(q, es) : \E i \in 1..d : x = (IF i <= a THEN q[i] ELSE es[i - a]).topic
    <2>1. Dropped(q, es) = {u[i].topic : i \in 1..(n - Buffer)}
      BY <1>2 DEF Dropped
    <2>2. 1..(n - Buffer) = 1..d
      BY <1>3, <1>4, <1>5
    <2>3. \A i \in 1..d : u[i] = IF i <= a THEN q[i] ELSE es[i - a]
      BY <1>3, <1>6
    <2> QED BY <2>1, <2>2, <2>3
  <1> QED BY <1>2, <1>3, <1>6, <1>7, <1>9, <1>10 DEF KeptAs

\* A publish as the status sees it.
NoStatus(es) == IsList(es) /\ \A i \in DOMAIN es : es[i].topic \in Topics \ {"vpn:status"}
Plain(q) == \A i \in DOMAIN q : q[i].topic \in Topics

LEMMA PublishRises ==
  ASSUME IsList(queue), Plain(queue), NEW es, IsList(es), Publish(es)
  PROVE  /\ IsList(queue') /\ lost \subseteq lost'
         /\ queue' = queue \/ Len(queue') <= Buffer
         /\ \A a \in DOMAIN queue' : (\E b \in DOMAIN queue : queue'[a] = queue[b]) \/ (\E b \in DOMAIN es : queue'[a] = es[b])
         /\ \A x \in lost' : \/ x \in lost \/ (\E b \in DOMAIN queue : x = queue[b].topic)
                             \/ (\E b \in DOMAIN es : x = es[b].topic)
         /\ "vpn:status" \notin lost' /\ NoStatus(es) =>
              (HasUp(queue) => HasUp(queue')) /\ (Rises(queue) => Rises(queue'))
         /\ bridge.fwd /\ "vpn:status" \notin lost' /\ Len(es) = 1 /\ Upper(es[1]) => HasUp(queue') /\ Rises(queue')
  <1>1. CASE ~bridge.fwd
    BY <1>1 DEF Publish
  <1>2. CASE bridge.fwd
    <2>1. queue' = Kept(queue, es) /\ lost' = lost \cup Dropped(queue, es)
      BY <1>2 DEF Publish
    <2>2. PICK q, t, k, l, n : /\ q = queue /\ t = queue' /\ k = Len(q) /\ l = Len(es) /\ n = Len(t)
                               /\ t = Kept(queue, es)
      BY <2>1
    <2>13. KeptAs(q, es, t)
      BY <2>2, KeptIs
    <2>3. /\ IsList(t) /\ n <= Buffer /\ k \in Nat /\ DOMAIN q = 1..k /\ l \in Nat /\ DOMAIN es = 1..l /\ n \in Nat /\ DOMAIN t = 1..n
          /\ \E d \in Nat :
               /\ n + d = k + l
               /\ \A i \in 1..n : t[i] = IF i + d <= k THEN q[i + d] ELSE es[(i + d) - k]
               /\ \A i \in 1..d : (IF i <= k THEN q[i] ELSE es[i - k]).topic \in Dropped(q, es)
               /\ \A x \in Dropped(q, es) : \E i \in 1..d : x = (IF i <= k THEN q[i] ELSE es[i - k]).topic
      BY <2>2, <2>13 DEF KeptAs
    <2>4. PICK d \in Nat :
               /\ n + d = k + l
               /\ \A i \in 1..n : t[i] = IF i + d <= k THEN q[i + d] ELSE es[(i + d) - k]
               /\ \A i \in 1..d : (IF i <= k THEN q[i] ELSE es[i - k]).topic \in Dropped(q, es)
               /\ \A x \in Dropped(q, es) : \E i \in 1..d : x = (IF i <= k THEN q[i] ELSE es[i - k]).topic
      BY <2>3
    <2>5. \A i \in 1..n : (i + d <= k /\ i + d \in 1..k /\ t[i] = q[i + d])
                        \/ (i + d > k /\ (i + d) - k \in 1..l /\ t[i] = es[(i + d) - k])
      <3> SUFFICES ASSUME NEW i \in 1..n
                   PROVE  (i + d <= k /\ i + d \in 1..k /\ t[i] = q[i + d])
                          \/ (i + d > k /\ (i + d) - k \in 1..l /\ t[i] = es[(i + d) - k])
        OBVIOUS
      <3>1. t[i] = IF i + d <= k THEN q[i + d] ELSE es[(i + d) - k]
        BY <2>4
      <3>2. i + d <= k => i + d \in 1..k
        BY <2>3, <2>4
      <3>3. ~(i + d <= k) => (i + d) - k \in 1..l /\ i + d > k
        BY <2>3, <2>4
      <3> QED BY <3>1, <3>2, <3>3
    <2>6. \A i \in 1..d : (i <= k /\ i \in 1..k) \/ (~(i <= k) /\ i - k \in 1..l)
      BY <2>3, <2>4
    <2>7. \A x \in Dropped(q, es) : (\E b \in DOMAIN q : x = q[b].topic) \/ (\E b \in DOMAIN es : x = es[b].topic)
      <3> SUFFICES ASSUME NEW x \in Dropped(q, es)
                   PROVE  (\E b \in DOMAIN q : x = q[b].topic) \/ (\E b \in DOMAIN es : x = es[b].topic)
        OBVIOUS
      <3>1. PICK i \in 1..d : x = (IF i <= k THEN q[i] ELSE es[i - k]).topic
        BY <2>4
      <3>2. CASE i <= k
        <4>1. x = q[i].topic /\ i \in DOMAIN q
          BY <2>3, <2>6, <3>1, <3>2
        <4> QED BY <4>1
      <3>3. CASE ~(i <= k)
        <4>1. x = es[i - k].topic /\ i - k \in DOMAIN es
          BY <2>3, <2>6, <3>1, <3>3
        <4> QED BY <4>1
      <3> QED BY <3>2, <3>3
    <2>8. ASSUME NEW a \in DOMAIN t PROVE (\E b \in DOMAIN q : t[a] = q[b]) \/ (\E b \in DOMAIN es : t[a] = es[b])
      <3>1. a \in 1..n
        BY <2>3
      <3> QED BY <2>3, <2>5, <3>1
    <2>9. ASSUME "vpn:status" \notin lost', NoStatus(es), NEW b \in DOMAIN q, Upper(q[b])
          PROVE  b \in Nat /\ b - d \in DOMAIN t /\ t[b - d] = q[b]
      <3>1. b \notin 1..d
        <4> SUFFICES ASSUME b \in 1..d PROVE FALSE
          OBVIOUS
        <4>1. b <= k
          BY <2>3
        <4>2. (IF b <= k THEN q[b] ELSE es[b - k]).topic \in Dropped(q, es)
          BY <2>4
        <4>3. q[b].topic \in lost'
          BY <2>1, <2>2, <4>1, <4>2
        <4> QED BY <2>9, <4>3 DEF Upper
      <3>2. PICK c : c = b - d
        OBVIOUS
      <3>3. b \in Nat /\ c \in 1..n /\ c + d = b /\ b <= k
        BY <2>3, <2>4, <3>1, <3>2
      <3>4. t[c] = q[c + d]
        BY <2>4, <3>3
      <3> QED BY <2>3, <3>2, <3>3, <3>4
    <2>10. ASSUME "vpn:status" \notin lost', NoStatus(es), HasUp(q) PROVE HasUp(t)
      BY <2>9, <2>10 DEF HasUp
    <2>11. ASSUME "vpn:status" \notin lost', NoStatus(es), Rises(q) PROVE Rises(t)
      <3> SUFFICES ASSUME NEW a \in DOMAIN t, Down(t[a]) PROVE \E b \in DOMAIN t : a < b /\ Upper(t[b])
        BY DEF Rises
      <3>1. a \in 1..n /\ a \in Nat
        BY <2>3
      <3>2. PICK c : c = a + d
        OBVIOUS
      <3>3. c \in DOMAIN q /\ t[a] = q[c] /\ c \in Nat
        <4>1. CASE a + d > k
          <5>1. (a + d) - k \in DOMAIN es /\ t[a] = es[(a + d) - k]
            BY <2>3, <2>5, <3>1, <4>1
          <5>2. t[a].topic \in Topics \ {"vpn:status"}
            BY <2>11, <5>1 DEF NoStatus
          <5>3. t[a].topic # "answer"
            BY <5>2 DEF Topics
          <5> QED BY <5>2, <5>3 DEF Down
        <4>2. CASE ~(a + d > k)
          BY <2>3, <2>5, <3>1, <3>2, <4>2
        <4> QED BY <4>1, <4>2
      <3>4. PICK b \in DOMAIN q : c < b /\ Upper(q[b])
        BY <2>11, <3>3 DEF Rises
      <3>5. b \in Nat /\ b - d \in DOMAIN t /\ t[b - d] = q[b]
        BY <2>9, <2>11, <3>4
      <3>6. a < b - d
        BY <2>4, <3>1, <3>2, <3>4, <3>5
      <3> QED BY <3>4, <3>5, <3>6
    <2>12. ASSUME Len(es) = 1, Upper(es[1]) PROVE HasUp(t) /\ Rises(t)
      <3>1. l = 1 /\ n >= 1
        <4>1. Buffer \in Nat \ {0}
          BY PipeAssumption
        <4>2. PICK z : z = q \o es /\ queue' = IF Len(z) > Buffer THEN SubSeq(z, Len(z) - Buffer + 1, Len(z)) ELSE z
          BY <2>1, <2>2 DEF Kept
        <4>3. z # <<>> /\ Len(z) = k + 1 /\ IsList(z)
          <5>1. PICK A, B : q \in Seq(A) /\ es \in Seq(B)
            BY <2>2 DEF IsList
          <5>2. PICK S : S = A \cup B
            OBVIOUS
          <5>3. q \in Seq(S) /\ es \in Seq(S)
            BY <5>1, <5>2
          <5>4. z \in Seq(S) /\ Len(z) = Len(q) + Len(es)
            BY <4>2, <5>3
          <5>5. Len(z) = k + 1 /\ k + 1 # 0
            BY <2>2, <2>3, <2>12, <5>4
          <5> QED BY <5>4, <5>5 DEF IsList
        <4>4. Len(z) > Buffer => Len(queue') = Buffer
          <5> SUFFICES ASSUME Len(z) > Buffer PROVE Len(queue') = Buffer
            OBVIOUS
          <5>1. PICK X : z \in Seq(X)
            BY <4>3 DEF IsList
          <5>2. PICK y : y = Len(z)
            OBVIOUS
          <5>3. y - Buffer + 1 \in 1..(y + 1) /\ y \in ((y - Buffer + 1) - 1)..y /\ y + 1 - (y - Buffer + 1) = Buffer
            BY <2>3, <4>1, <4>3, <5>2
          <5>4. queue' = SubSeq(z, y - Buffer + 1, y)
            BY <4>2, <5>2
          <5>5. Len(queue') = y + 1 - (y - Buffer + 1)
            BY <5>1, <5>2, <5>3, <5>4, PartIs
          <5> QED BY <5>3, <5>5
        <4>5. l = 1
          BY <2>2, <2>12
        <4>6. Len(queue') = n
          BY <2>2
        <4>7. CASE Len(z) > Buffer
          BY <2>3, <4>1, <4>4, <4>5, <4>6, <4>7
        <4>8. CASE ~(Len(z) > Buffer)
          <5>1. queue' = z
            BY <4>2, <4>8
          <5>2. n = k + 1
            BY <4>3, <4>6, <5>1
          <5> QED BY <2>3, <4>5, <5>2
        <4> QED BY <4>7, <4>8
      <3>2. n + d = k + 1 /\ d <= k
        BY <2>3, <2>4, <3>1
      <3>3. n \in 1..n /\ n + d > k /\ (n + d) - k = 1
        BY <2>3, <3>1, <3>2
      <3>4. t[n] = es[1]
        <4>1. t[n] = IF n + d <= k THEN q[n + d] ELSE es[(n + d) - k]
          BY <2>4, <3>3
        <4>2. ~(n + d <= k)
          BY <2>3, <2>4, <3>3
        <4> QED BY <3>3, <4>1, <4>2
      <3>5. \A a \in DOMAIN t : Down(t[a]) => a < n
        <4>1. ~Down(t[n])
          BY <2>12, <3>4 DEF Upper, Down, Low
        <4> QED BY <2>3, <4>1
      <3> QED BY <2>3, <2>12, <3>3, <3>4, <3>5 DEF HasUp, Rises
    <2>14. lost' = lost \cup Dropped(q, es) /\ IsList(queue') /\ Len(queue') <= Buffer
      BY <2>1, <2>2, <2>3
    <2>15. \A x \in lost' : \/ x \in lost \/ (\E b \in DOMAIN queue : x = queue[b].topic)
                            \/ (\E b \in DOMAIN es : x = es[b].topic)
      BY <2>2, <2>7, <2>14
    <2>16. \A a \in DOMAIN queue' : (\E b \in DOMAIN queue : queue'[a] = queue[b]) \/ (\E b \in DOMAIN es : queue'[a] = es[b])
      BY <2>2, <2>8
    <2>17. "vpn:status" \notin lost' /\ NoStatus(es) =>
              (HasUp(queue) => HasUp(queue')) /\ (Rises(queue) => Rises(queue'))
      BY <2>2, <2>10, <2>11
    <2>18. Len(es) = 1 /\ Upper(es[1]) => HasUp(queue') /\ Rises(queue')
      BY <2>2, <2>12
    <2> QED BY <2>14, <2>15, <2>16, <2>17, <2>18
  <1> QED BY <1>1, <1>2

(***************************************************************************)
(* What the requests, the answers and the events carry; and the steps that *)
(* have nothing to do with the connection.                                 *)
(***************************************************************************)
Sound(r, res) ==
  Asks(r) /\ (r.m = "snapshot" /\ res.ok => res.val.status \in Statuses /\ res.val.mode \in Modes)
Told(e) == (e.topic = "vpn:status" => IsStatus(e)) /\ (e.topic = "answer" => Sound(e.req, e.res))

Settings ==
  /\ DOMAIN ctl = {"st", "pending", "server", "mode"} /\ ctl.st \in {"idle", "starting", "up", "stopping"} /\ ctl.mode \in Modes
  /\ DOMAIN cfg = {"mode", "auto", "helper"} /\ cfg.mode \in Modes

Typed ==
  /\ Fit(Now(calls)) /\ Settings /\ IsCalls(calls) /\ Plain(queue)
  /\ \A i \in DOMAIN calls : Sound(calls[i].req, calls[i].res)
  /\ \A a \in DOMAIN queue : Told(queue[a])
  /\ \A a \in DOMAIN wire : Told(wire[a])

StoreMethods == {"snapshot", "connect", "disconnect"}

\* No event of the status comes, and the calls that matter here stay as they are.
Muted == UNCHANGED <<queue, lost>> \/ \E es : NoStatus(es) /\ Publish(es)
Apart ==
  /\ IsCalls(calls')
  /\ \A i \in DOMAIN calls : calls[i].req.m \in StoreMethods => i \in DOMAIN calls' /\ calls'[i] = calls[i]
  /\ \A i \in DOMAIN calls' : \/ i \in DOMAIN calls /\ calls'[i].req = calls[i].req
                              \/ Asks(calls'[i].req) /\ calls'[i].req.win = win.gen
  /\ \A i \in DOMAIN calls' : calls'[i].req.m \in StoreMethods => i \in DOMAIN calls /\ calls'[i] = calls[i]
Elsewhere ==
  /\ UNCHANGED <<wire, win, faults, ctl, dash, flow, keep, past>>
  /\ Settings' /\ Muted /\ Apart

LEMMA NoStatusOne == ASSUME NEW x, x.topic \in Topics \ {"vpn:status"} PROVE NoStatus(<<x>>)
  <1>1. PICK s : s = <<x>>
    OBVIOUS
  <1>2. s \in Seq({x}) /\ DOMAIN s = {1} /\ s[1] = x
    BY <1>1
  <1> QED BY <1>1, <1>2 DEF NoStatus, IsList

LEMMA NoStatusTwo ==
  ASSUME NEW x, NEW y, x.topic \in Topics \ {"vpn:status"}, y.topic \in Topics \ {"vpn:status"}
  PROVE  NoStatus(<<x, y>>)
  <1>1. PICK s : s = <<x, y>>
    OBVIOUS
  <1>2. s \in Seq({x, y}) /\ DOMAIN s = {1, 2} /\ s[1] = x /\ s[2] = y
    BY <1>1
  <1> QED BY <1>1, <1>2 DEF NoStatus, IsList

LEMMA NoStatusNone == NoStatus(<<>>)
  <1>1. PICK s : s = <<>>
    OBVIOUS
  <1>2. s \in Seq({}) /\ DOMAIN s = {}
    BY <1>1
  <1> QED BY <1>1, <1>2 DEF NoStatus, IsList

LEMMA RefreshMuted == ASSUME WorkerMoves \/ UserSync \/ UserSubs PROVE Muted
  <1> DEFINE x == [topic |-> "sub:synced"]
             y == [topic |-> "servers:changed"]
  <1>1. SUFFICES UNCHANGED <<queue, lost>> \/ \E es : NoStatus(es) /\ Publish(es)
    BY DEF Muted
  <1>2. NoStatus(<<x>>) /\ NoStatus(<<y>>) /\ NoStatus(<<x, y>>)
    <2>1. x.topic \in Topics \ {"vpn:status"} /\ y.topic \in Topics \ {"vpn:status"}
      BY DEF Topics
    <2> HIDE DEF x, y
    <2> QED BY <2>1, NoStatusOne, NoStatusTwo
  <1>3. CASE WorkerMoves
    BY <1>2, <1>3, NoStatusNone, Zenon DEF WorkerMoves, Commit
  <1>4. CASE UserSync
    BY <1>2, <1>4, NoStatusNone, Zenon DEF UserSync, SyncOne
  <1>5. CASE UserSubs
    <2>1. PICK i \in SubIds : (\E u \in Urls : AddSub(i, u) \/ EditUrl(i, u)) \/ RemoveSub(i)
      BY <1>5 DEF UserSubs
    <2>2. CASE \E u \in Urls : AddSub(i, u) \/ EditUrl(i, u)
      BY <2>2, NoStatusNone, Zenon DEF AddSub, EditUrl
    <2>3. CASE RemoveSub(i)
      <3>1. Publish(<<y>>) \/ Publish(<<>>)
        BY <2>3 DEF RemoveSub
      <3> QED BY <1>2, <3>1, NoStatusNone
    <2> QED BY <2>1, <2>2, <2>3
  <1> QED BY <1>3, <1>4, <1>5

LEMMA OthersMuted ==
  ASSUME LogPublishes \/ Noise \/ \E i \in DOMAIN calls : ProbeEnds(i)
  PROVE  Muted
  <1>1. CASE LogPublishes
    <2>1. PICK x : x.topic = "log:line" /\ Publish(<<x>>)
      <3>1. PICK j \in DOMAIN pend : Publish(<<[topic |-> "log:line", entry |-> pend[j]]>>)
        BY <1>1 DEF LogPublishes, PublishLine
      <3>2. PICK x : x = [topic |-> "log:line", entry |-> pend[j]]
        OBVIOUS
      <3> QED BY <3>1, <3>2
    <2>2. NoStatus(<<x>>)
      BY <2>1, NoStatusOne DEF Topics
    <2> QED BY <2>1, <2>2 DEF Muted
  <1>2. CASE Noise
    <2>1. PICK x : x = [topic |-> IF ctl.st = "up" THEN "vpn:speed" ELSE "geo:progress"] /\ Publish(<<x>>)
      BY <1>2 DEF Noise
    <2>2. NoStatus(<<x>>)
      BY <2>1, NoStatusOne DEF Topics
    <2> QED BY <2>1, <2>2 DEF Muted
  <1>3. ASSUME NEW i \in DOMAIN calls, ProbeEnds(i) PROVE Muted
    <2> DEFINE up == calls[i].res.val \cap Reachable
               x == [topic |-> "probe:result", up |-> up, down |-> calls[i].res.val \ up]
               y == [topic |-> "servers:changed"]
    <2>1. Publish(<<x, y>>)
      BY <1>3, Zenon DEF ProbeEnds
    <2>2. x.topic \in Topics \ {"vpn:status"} /\ y.topic \in Topics \ {"vpn:status"}
      BY DEF Topics
    <2> HIDE DEF x, y
    <2> QED BY <2>1, <2>2, NoStatusTwo DEF Muted
  <1> QED BY <1>1, <1>2, <1>3

LEMMA SameApart == ASSUME Typed, calls' = calls PROVE Apart
  BY DEF Typed, Apart

LEMMA StageApart ==
  ASSUME Typed, NEW i \in DOMAIN calls, calls[i].req.m \notin StoreMethods, NEW st, NEW res, Stage(i, st, res)
  PROVE  Apart
  <1>1. /\ IsCalls(calls') /\ DOMAIN calls' = DOMAIN calls /\ calls'[i].req = calls[i].req
        /\ \A j \in DOMAIN calls : j # i => calls'[j] = calls[j]
    BY StageCalls DEF Typed
  <1> QED BY <1>1 DEF Apart

LEMMA AppendApart ==
  ASSUME Typed, NEW m, m \notin StoreMethods \cup {"mode"}, calls' = Append(calls, Request(m, <<>>))
  PROVE  Apart
  <1>1. DOMAIN <<>> = {}
    OBVIOUS
  <1>2. PICK c : /\ c = Request(m, <<>>) /\ DOMAIN c = {"req", "st", "res"}
                 /\ c.req.m = m /\ c.req.win = win.gen
    BY <1>1, RequestFields
  <1>3. PICK n : n = Len(calls)
    OBVIOUS
  <1>4. IsCalls(calls') /\ n \in Nat /\ DOMAIN calls = 1..n /\ DOMAIN calls' = 1..(n + 1)
        /\ calls'[n + 1] = c /\ \A j \in 1..n : calls'[j] = calls[j]
    <2>1. IsCalls(calls)
      BY DEF Typed
    <2>2. n \in Nat /\ DOMAIN calls = 1..n
      BY <1>3, <2>1, CallsSeq
    <2>3. IsCalls(calls') /\ Len(calls') = n + 1 /\ calls'[n + 1] = c /\ \A j \in 1..n : calls'[j] = calls[j]
      BY <1>2, <1>3, <2>1, AppendCalls
    <2> QED BY <2>2, <2>3, CallsSeq
  <1>5. Asks(c.req) /\ c.req.m \notin StoreMethods
    BY <1>2 DEF Asks, StoreMethods
  <1>6. \A j \in 1..(n + 1) : j \in 1..n \/ j = n + 1
    BY <1>4
  <1>7. \A j \in 1..n : j \in 1..(n + 1)
    BY <1>4
  <1> QED BY <1>2, <1>4, <1>5, <1>6, <1>7 DEF Apart

LEMMA HandlesElsewhere ==
  ASSUME Typed, Handles
  PROVE  \/ Elsewhere
         \/ \E i \in DOMAIN calls : Connect(i) \/ Disconnect(i) \/ DisconnectEnds(i) \/ GetSnapshot(i) \/ SnapshotEnds(i)
  <1>1. PICK i \in DOMAIN calls :
       \/ Connect(i) \/ Disconnect(i) \/ DisconnectEnds(i) \/ GetSnapshot(i) \/ SnapshotEnds(i)
       \/ TestLatency(i) \/ ProbeEnds(i) \/ UpdateMode(i)
    BY DEF Handles
  <1>2. UNCHANGED <<wire, win, faults>>
    BY DEF Handles, shared
  <1>3. ASSUME calls[i].req.m \notin StoreMethods, \E st, res : Stage(i, st, res) PROVE Apart
    BY <1>3, StageApart
  <1>4. CASE TestLatency(i)
    <2>1. calls[i].req.m \notin StoreMethods
      BY <1>4 DEF TestLatency, Runs, StoreMethods
    <2>2. (\E st, res : Stage(i, st, res)) /\ UNCHANGED <<queue, lost, dashv>>
      BY <1>4, Zenon DEF TestLatency, Finish
    <2> QED BY <1>2, <1>3, <2>1, <2>2 DEF Elsewhere, Muted, dashv, Typed, Settings
  <1>5. CASE ProbeEnds(i)
    <2>1. calls[i].req.m \notin StoreMethods
      BY <1>5 DEF ProbeEnds, Runs, StoreMethods
    <2>2. (\E st, res : Stage(i, st, res)) /\ UNCHANGED <<ctl, cfg, dash, flow, keep, past>>
      BY <1>5, Zenon DEF ProbeEnds, Finish
    <2>3. Muted
      BY <1>5, OthersMuted
    <2> QED BY <1>2, <1>3, <2>1, <2>2, <2>3 DEF Elsewhere, Typed, Settings
  <1>6. CASE UpdateMode(i)
    <2>1. calls[i].req.m = "mode"
      BY <1>6 DEF UpdateMode, Runs
    <2>2. (\E st, res : Stage(i, st, res)) /\ UNCHANGED <<queue, lost, ctl, dash, flow, keep, past>>
          /\ cfg' = [cfg EXCEPT !.mode = calls[i].req.mode]
      BY <1>6, Zenon DEF UpdateMode, Finish
    <2>3. calls[i].req.mode \in Modes
      BY <2>1 DEF Typed, Sound, Asks
    <2>4. Settings'
      BY <2>2, <2>3 DEF Typed, Settings
    <2> QED BY <1>2, <1>3, <2>1, <2>2, <2>4 DEF Elsewhere, Muted, StoreMethods
  <1> QED BY <1>1, <1>4, <1>5, <1>6

LEMMA OthersElsewhere ==
  ASSUME Typed, 
         \/ Quit \/ DriverTick \/ TimerTick \/ WorkerPanics \/ LogWorld \/ LogMoves \/ LogHandles \/ LogUser
         \/ WorkerMoves \/ UserSync \/ UserSubs \/ LogPublishes \/ (ChainWorld /\ ~ChainDrops) \/ UNCHANGED vars
         \/ (Output /\ (ForwarderExit \/ ServeReturns))
  PROVE  Elsewhere
  <1>1. Settings
    BY DEF Typed
  <1>2. CASE Quit \/ DriverTick \/ TimerTick \/ WorkerPanics \/ LogWorld \/ LogMoves \/ UNCHANGED vars
             \/ (Output /\ (ForwarderExit \/ ServeReturns))
    <2>1. UNCHANGED <<calls, queue, lost, wire, win, faults, dashv>>
      BY <1>2 DEF Quit, CloseInput, DriverTick, TimerTick, WorkerPanics, LogWorld, LogMoves, vars, pipe, shared, dashv,
                  Output, ForwarderExit, ServeReturns
    <2> QED BY <1>1, <2>1, SameApart DEF Elsewhere, Muted, dashv, Settings
  <1>3. CASE WorkerMoves \/ UserSync \/ UserSubs \/ LogPublishes \/ (ChainWorld /\ ~ChainDrops)
    <2>1. UNCHANGED <<calls, wire, win, faults, dashv>>
      BY <1>3 DEF WorkerMoves, UserSync, UserSubs, LogPublishes, ChainWorld, Noise, shared, dashv
    <2>2. Muted
      BY <1>3, RefreshMuted, OthersMuted DEF ChainWorld
    <2> QED BY <1>1, <2>1, <2>2, SameApart DEF Elsewhere, dashv, Settings
  <1>4. CASE LogHandles
    <2>1. PICK i \in DOMAIN calls :
            LogsStart(i) \/ LogsStartPoller(i) \/ LogsTail(i) \/ LogsStop(i) \/ LogsStopPoller(i)
      BY <1>4 DEF LogHandles
    <2>2. calls[i].req.m \notin StoreMethods
      BY <2>1 DEF LogsStart, LogsStartPoller, LogsTail, LogsStop, LogsStopPoller, Runs, StoreMethods
    <2>3. \E st, res : Stage(i, st, res)
      BY <2>1, Zenon DEF LogsStart, LogsStartPoller, LogsTail, LogsStop, LogsStopPoller, Finish
    <2>4. Apart
      BY <2>2, <2>3, StageApart
    <2>5. UNCHANGED <<queue, lost, wire, win, faults, dashv>>
      BY <1>4 DEF LogHandles, shared, dashv
    <2> QED BY <1>1, <2>4, <2>5 DEF Elsewhere, Muted, dashv, Settings
  <1>5. CASE LogUser
    <2>1. UNCHANGED <<queue, lost, wire, win, faults, dashv>>
      BY <1>5 DEF LogUser, dashv
    <2>2. PICK m \in LogMethods : calls' = Append(calls, Request(m, <<>>))
      BY <1>5 DEF LogUser, OpenTab, CloseTab, LogMethods
    <2>3. m \notin StoreMethods \cup {"mode"}
      BY DEF LogMethods, StoreMethods
    <2>4. Apart
      BY <2>2, <2>3, AppendApart
    <2> QED BY <1>1, <2>1, <2>4 DEF Elsewhere, Muted, dashv, Settings
  <1> QED BY <1>2, <1>3, <1>4, <1>5

(***************************************************************************)
(* The connection is up or down because it was asked for: the invariants.  *)
(***************************************************************************)
Answers(e) == e.topic = "answer"

\* A call of the sequence that a window runs, or its answer; a Connect not yet read.
InFlow(x, g) == IsFlow(x.req) /\ x.req.win = g
StepOf(r) == IF r.m = "connect" THEN "start" ELSE "stop"
NewConnect(c) == c.req.m = "connect" /\ c.st = "new"

\* A sequence waits for one answer at a time, the one its step names.
Paired ==
  /\ \A i \in DOMAIN calls : calls[i].req.win \in 1..win.gen
  /\ \A a \in DOMAIN wire : Answers(wire[a]) => wire[a].req.win \in 1..win.gen
  /\ ~win.open => flow.step = "none"
  /\ win.open =>
       /\ \A i \in DOMAIN calls : InFlow(calls[i], win.gen) => flow.step = StepOf(calls[i].req)
       /\ \A a \in DOMAIN wire : Answers(wire[a]) /\ InFlow(wire[a], win.gen) => flow.step = StepOf(wire[a].req)
       /\ \A i, j \in DOMAIN calls : InFlow(calls[i], win.gen) /\ InFlow(calls[j], win.gen) => i = j
       /\ \A a, b \in DOMAIN wire : Answers(wire[a]) /\ InFlow(wire[a], win.gen) 
                                    /\ Answers(wire[b]) /\ InFlow(wire[b], win.gen) => a = b
       /\ \A i \in DOMAIN calls, a \in DOMAIN wire :
            ~(InFlow(calls[i], win.gen) /\ Answers(wire[a]) /\ InFlow(wire[a], win.gen))

\* Unless requests lag, a Connect that has not been read is the present window's, and the only one.
Orders ==
  "lag" \notin faults =>
    /\ win.open => \A i \in DOMAIN calls : NewConnect(calls[i]) => calls[i].req.win = win.gen
    /\ \A i, j \in DOMAIN calls : NewConnect(calls[i]) /\ NewConnect(calls[j]) => i = j

\* The behaviours in which a store knows the state of the controller.
Aware == faults \cap {"lag", "slow", "hasty"} = {} /\ "vpn:status" \notin lost

\* An answer with which a sequence goes on to Connect, or ends; a snapshot without a connection.
Stops(x, g) == InFlow(x, g) /\ (x.req.m = "disconnect" \/ ~x.res.ok)
IdleSnap(x) == x.req.m = "snapshot" /\ x.res.ok /\ x.res.val.status = "idle"

\* No call and no answer that stands for "the chain is down" is under way while
\* the chain is up: of controller h, window w and storage k.
CallFits(c, h, w, k) ==
  /\ Running(h) => /\ ~NewConnect(c)
                   /\ c.st = "done" => ~Lowers(c) /\ ~(w.open /\ Stops(c, w.gen))
  /\ c.req.m = "snapshot" => c.st \in {"new", "done"}
  /\ k.claim => ~IsFlow(c.req) /\ (Running(h) => ~IdleSnap(c))
LineFits(e, h, w, k) ==
  /\ Running(h) => ~(w.open /\ Stops(e, w.gen))
  /\ k.claim => ~IsFlow(e.req) /\ (Running(h) => ~IdleSnap(e))

\* While the chain is up, whatever says that it is down is followed by a line that says it is up.
Lit ==
  Busy => /\ Rises(queue) /\ (Rises(wire) \/ HasUp(queue))
          /\ win.open /\ dash.boot /\ Low(dash.status) => HasUp(wire) \/ HasUp(queue)

\* Until the connect on start has had its turn, nothing brings the chain up.
Waits(d) ==
  /\ d.auto = "fresh" => d.status \notin {"connected", "connecting"} /\ d.may = {}
  /\ d.may # {} => ~Busy
Waiting ==
  keep.claim => flow.step = "none" /\ ctl.st # "starting" /\ ~HasUp(queue) /\ ~HasUp(wire) /\ Waits(dash)

Informed ==
  Aware =>
    /\ ~past.refused /\ (win.open /\ flow.step = "idle" => ~Busy) /\ Lit /\ Waiting
    /\ \A i \in DOMAIN calls : CallFits(calls[i], ctl, win, keep)
    /\ \A a \in DOMAIN wire : Answers(wire[a]) => LineFits(wire[a], ctl, win, keep)

\* The store before its first snapshot, and the claim.
Early(d, k) ==
  /\ d.auto = "done" => ~k.claim
  /\ ~d.boot \/ d.auto = "fresh" => d.servers = {}
  /\ d.auto = "fresh" => ~d.boot
Started == Early(dash, keep)

\* No snapshot fails.
ReadOk(x) == x.req.m = "snapshot" => x.res.ok
ReadWell ==
  "read" \notin faults =>
    /\ win.open /\ dash.auto = "fresh" => dash.reading
    /\ \A i \in DOMAIN calls : calls[i].st # "new" => ReadOk(calls[i])
    /\ \A a \in DOMAIN wire : Answers(wire[a]) => ReadOk(wire[a])

\* After a click on Disconnect no Connect is to come, and the chain is down or a
\* Disconnect is on its way.
Willing == faults \cap {"hasty", "read", "lag"} = {}
Leaving == \E i \in DOMAIN calls : calls[i].req.m = "disconnect" /\ calls[i].st = "new"
Obeyed ==
  Willing /\ past.want = "down" =>
    /\ flow.step = "none" /\ ~keep.claim /\ \A i \in DOMAIN calls : ~NewConnect(calls[i])
    /\ ctl.st \in {"idle", "stopping"} \/ Leaving

Asked == Typed /\ Paired /\ Orders /\ Informed /\ Started /\ ReadWell /\ Obeyed

(***************************************************************************)
(* A turn of the store: the lines it has read, the requests it sends, of   *)
(* which one may be of kind k, and the step it leaves the sequence at.     *)
(***************************************************************************)
Alone ==
  /\ \A i \in DOMAIN calls : ~InFlow(calls[i], win.gen)
  /\ \A a \in DOMAIN wire' : Answers(wire'[a]) => ~InFlow(wire'[a], win.gen)
StoreTurn(k, step) ==
  /\ UNCHANGED <<queue, lost, ctl, cfg, win, faults>> /\ (wire' = wire \/ Takes(wire, wire'))
  /\ Fit(Now(calls))' /\ Sent(calls, calls', k) /\ flow'.step = step /\ (win.open \/ step = "none")
  /\ \/ k = "none" /\ step = flow.step
     \/ Alone /\ (k = "connect" => step = "start") /\ (k = "disconnect" => step = "stop")
  /\ past'.refused = past.refused /\ Started' /\ (keep'.claim => keep.claim)
  /\ "read" \notin faults /\ win.open /\ dash'.auto = "fresh" => dash'.reading
  /\ Aware =>
       /\ (k = "connect" => ~Busy) /\ (win.open /\ step = "idle" => ~Busy)
       /\ Busy /\ win.open /\ dash'.boot /\ Low(dash'.status) => HasUp(wire') \/ HasUp(queue)
       /\ keep'.claim => k = "none" /\ step = "none" /\ Waits(dash')
  /\ Willing /\ past'.want = "down" =>
       /\ k = "none" /\ step = "none" /\ ~keep'.claim
       /\ past.want = "down" \/ (flow.step = "none" /\ win.open /\ Leaving')

LEMMA TurnCalls ==
  ASSUME NEW s, NEW t, NEW k, IsCalls(s), Sent(s, t, k)
  PROVE  /\ IsCalls(t) /\ \A j \in DOMAIN s : j \in DOMAIN t /\ t[j] = s[j]
         /\ \A j \in DOMAIN t : (j \in DOMAIN s /\ t[j] = s[j]) \/ (j \notin DOMAIN s /\ Fresh(t[j], k))
         /\ \A i, j \in DOMAIN t : i \notin DOMAIN s /\ j \notin DOMAIN s /\ IsFlow(t[i].req) /\ IsFlow(t[j].req) => i = j
  <1>1. PICK n, m : n = Len(s) /\ m = Len(t)
    OBVIOUS
  <1>2. /\ IsCalls(t) /\ n <= m /\ (\A j \in 1..n : t[j] = s[j]) /\ (\A j \in (n + 1)..m : Fresh(t[j], k))
        /\ \A i, j \in (n + 1)..m : IsFlow(t[i].req) /\ IsFlow(t[j].req) => i = j
    BY <1>1, Zenon DEF Sent
  <1>3. n \in Nat /\ m \in Nat /\ DOMAIN s = 1..n /\ DOMAIN t = 1..m
    BY <1>1, <1>2, CallsSeq
  <1>4. (\A j \in 1..n : j \in 1..m) /\ \A j \in 1..m : j \in 1..n \/ (j \notin 1..n /\ j \in (n + 1)..m)
    BY <1>2, <1>3
  <1> QED BY <1>2, <1>3, <1>4

\* The lines that are left were there before.
LEMMA TakesLines ==
  ASSUME Takes(wire, wire')
  PROVE  \A a \in DOMAIN wire' : a \in Nat /\ a + 1 # 1 /\ a + 1 \in DOMAIN wire /\ wire'[a] = wire[a + 1]
  <1>1. PICK n : n = Len(wire)
    OBVIOUS
  <1>2. n \in Nat \ {0} /\ DOMAIN wire = 1..n /\ DOMAIN wire' = 1..(n - 1) /\ \A a \in 1..(n - 1) : wire'[a] = wire[a + 1]
    BY <1>1 DEF Takes
  <1>3. \A a \in 1..(n - 1) : a \in Nat /\ a + 1 # 1 /\ a + 1 \in 1..n
    BY <1>2
  <1> QED BY <1>2, <1>3

LEMMA TurnLines ==
  ASSUME wire' = wire \/ Takes(wire, wire')
  PROVE  \/ \A a \in DOMAIN wire' : a \in DOMAIN wire /\ wire'[a] = wire[a]
         \/ \A a \in DOMAIN wire' : a \in Nat /\ a + 1 \in DOMAIN wire /\ wire'[a] = wire[a + 1]
  BY TakesLines

LEMMA TurnOld ==
  ASSUME wire' = wire \/ Takes(wire, wire')
  PROVE  \A a \in DOMAIN wire' : \E b \in DOMAIN wire : wire'[a] = wire[b]
  BY TurnLines

LEMMA FreshSound ==
  ASSUME NEW c, NEW k, Fresh(c, k)
  PROVE  Sound(c.req, c.res) /\ c.st = "new" /\ ~c.res.ok /\ (IsFlow(c.req) => c.req.m = k) /\ c.req.win = win.gen
         /\ (NewConnect(c) => k = "connect")
  <1>1. Failed.ok = FALSE
    BY DEF Failed
  <1> QED BY <1>1 DEF Fresh, Sound, NewConnect, Asks, IsFlow

LEMMA TurnTyped == ASSUME Typed, NEW k, NEW step, StoreTurn(k, step) PROVE Typed'
  <1>1. IsCalls(calls) /\ Sent(calls, calls', k) /\ (wire' = wire \/ Takes(wire, wire'))
    BY DEF Typed, StoreTurn
  <1>2. IsCalls(calls') /\ \A j \in DOMAIN calls' : (j \in DOMAIN calls /\ calls'[j] = calls[j]) \/ Fresh(calls'[j], k)
    BY <1>1, TurnCalls
  <1>3. \A i \in DOMAIN calls' : Sound(calls'[i].req, calls'[i].res)
    <2> TAKE i \in DOMAIN calls'
    <2>1. CASE Fresh(calls'[i], k)
      BY <2>1, FreshSound
    <2> QED BY <1>2, <2>1 DEF Typed
  <1>4. \A a \in DOMAIN wire' : Told(wire'[a])
    BY <1>1, TurnOld DEF Typed
  <1>5. Settings' /\ Plain(queue)' /\ \A a \in DOMAIN queue' : Told(queue'[a])
    BY DEF StoreTurn, Typed, Settings, Plain
  <1> QED BY <1>2, <1>3, <1>4, <1>5 DEF Typed, StoreTurn

LEMMA TurnPaired == ASSUME Typed, Paired, win.gen \in Nat \ {0}, NEW k, NEW step, StoreTurn(k, step) PROVE Paired'
  <1> DEFINE F(x) == InFlow(x, win.gen)
             G(x) == Answers(x) /\ InFlow(x, win.gen)
  <1>1. /\ IsCalls(calls) /\ Sent(calls, calls', k) /\ (wire' = wire \/ Takes(wire, wire')) /\ win' = win /\ flow'.step = step
        /\ (win.open \/ step = "none")
        /\ \/ k = "none" /\ step = flow.step
           \/ Alone /\ (k = "connect" => step = "start") /\ (k = "disconnect" => step = "stop")
    BY DEF Typed, StoreTurn
  <1>2. /\ \A j \in DOMAIN calls' : (j \in DOMAIN calls /\ calls'[j] = calls[j]) \/ (j \notin DOMAIN calls /\ Fresh(calls'[j], k))
        /\ \A i, j \in DOMAIN calls' : i \notin DOMAIN calls /\ j \notin DOMAIN calls
                                       /\ IsFlow(calls'[i].req) /\ IsFlow(calls'[j].req) => i = j
    BY <1>1, TurnCalls
  <1>3. \A i \in DOMAIN calls' : calls'[i].req.win \in 1..win.gen
    <2>1. win.gen \in 1..win.gen
      OBVIOUS
    <2> QED BY <1>2, <2>1, FreshSound DEF Paired
  <1>4. \A a \in DOMAIN wire' : \E b \in DOMAIN wire : wire'[a] = wire[b]
    BY <1>1, TurnOld
  <1>5. \A a \in DOMAIN wire' : Answers(wire'[a]) => wire'[a].req.win \in 1..win.gen
    BY <1>4 DEF Paired
  <1>6. \A j \in DOMAIN calls' : F(calls'[j]) /\ Fresh(calls'[j], k) => IsFlow(calls'[j].req) /\ k = calls'[j].req.m /\ k \in {"connect", "disconnect"}
    BY FreshSound DEF InFlow, IsFlow
  <1>7. ASSUME win.open
        PROVE  /\ \A i \in DOMAIN calls' : F(calls'[i]) => step = StepOf(calls'[i].req)
               /\ \A a \in DOMAIN wire' : G(wire'[a]) => step = StepOf(wire'[a].req)
               /\ \A i, j \in DOMAIN calls' : F(calls'[i]) /\ F(calls'[j]) => i = j
               /\ \A a, b \in DOMAIN wire' : G(wire'[a]) /\ G(wire'[b]) => a = b
               /\ \A i \in DOMAIN calls', a \in DOMAIN wire' : ~(F(calls'[i]) /\ G(wire'[a]))
    <2>1. /\ \A i \in DOMAIN calls : F(calls[i]) => flow.step = StepOf(calls[i].req)
          /\ \A a \in DOMAIN wire : G(wire[a]) => flow.step = StepOf(wire[a].req)
          /\ \A i, j \in DOMAIN calls : F(calls[i]) /\ F(calls[j]) => i = j
          /\ \A a, b \in DOMAIN wire : G(wire[a]) /\ G(wire[b]) => a = b
          /\ \A i \in DOMAIN calls, a \in DOMAIN wire : ~(F(calls[i]) /\ G(wire[a]))
      BY <1>7 DEF Paired
    <2>2. \A a, b \in DOMAIN wire' : G(wire'[a]) /\ G(wire'[b]) => a = b
      <3> HIDE DEF G
      <3> QED BY <1>1, <2>1, TurnLines
    <2>3. CASE k = "none" /\ step = flow.step
      <3>1. \A j \in DOMAIN calls' : F(calls'[j]) => j \in DOMAIN calls /\ calls'[j] = calls[j]
        BY <1>2, <1>6, <2>3
      <3> HIDE DEF F, G
      <3> QED BY <1>4, <2>1, <2>2, <2>3, <3>1
    <2>4. CASE Alone /\ (k = "connect" => step = "start") /\ (k = "disconnect" => step = "stop")
      <3>1. \A i \in DOMAIN calls : ~F(calls[i])
        BY <2>4 DEF Alone
      <3>2. \A a \in DOMAIN wire' : ~G(wire'[a])
        BY <2>4 DEF Alone
      <3>3. \A j \in DOMAIN calls' : F(calls'[j]) => j \notin DOMAIN calls /\ IsFlow(calls'[j].req) /\ step = StepOf(calls'[j].req)
        BY <1>2, <1>6, <2>4, <3>1 DEF StepOf
      <3> HIDE DEF F, G
      <3> QED BY <1>2, <3>2, <3>3
    <2> QED BY <1>1, <2>3, <2>4
  <1> QED BY <1>1, <1>3, <1>5, <1>7, Zenon DEF Paired

LEMMA FitsOn ==
  ASSUME NEW h, NEW i, NEW w, NEW k, NEW l, Running(i) => Running(h), l.claim => k.claim
  PROVE  /\ \A c : CallFits(c, h, w, k) => CallFits(c, i, w, l)
         /\ \A e : LineFits(e, h, w, k) => LineFits(e, i, w, l)
  BY DEF CallFits, LineFits

\* A Connect is a call of a sequence.
LEMMA ConnectFlows == ASSUME NEW x, Asks(x.req), x.req.m = "connect" PROVE IsFlow(x.req) /\ StepOf(x.req) = "start"
  BY DEF Asks, IsFlow, StepOf

\* The Connect not yet read of the present window is what its sequence waits for.
LEMMA NewConnectFlows ==
  ASSUME Typed, Orders, win.open, "lag" \notin faults, NEW i \in DOMAIN calls, NewConnect(calls[i])
  PROVE  InFlow(calls[i], win.gen) /\ StepOf(calls[i].req) = "start"
  <1>1. Asks(calls[i].req)
    BY DEF Typed, Sound
  <1> QED BY <1>1, ConnectFlows DEF Orders, NewConnect, InFlow

LEMMA TurnOrders == ASSUME Typed, Orders, NEW k, NEW step, StoreTurn(k, step) PROVE Orders'
  <1> SUFFICES ASSUME "lag" \notin faults' PROVE Orders'
    BY DEF Orders
  <1>1. /\ IsCalls(calls) /\ Sent(calls, calls', k) /\ win' = win /\ faults' = faults /\ (win.open \/ step = "none")
        /\ k = "connect" => Alone /\ step = "start"
    BY DEF Typed, StoreTurn
  <1>2. /\ \A j \in DOMAIN calls' : (j \in DOMAIN calls /\ calls'[j] = calls[j]) \/ (j \notin DOMAIN calls /\ Fresh(calls'[j], k))
        /\ \A i, j \in DOMAIN calls' : i \notin DOMAIN calls /\ j \notin DOMAIN calls
                                       /\ IsFlow(calls'[i].req) /\ IsFlow(calls'[j].req) => i = j
    BY <1>1, TurnCalls
  <1>3. \A j \in DOMAIN calls' : Fresh(calls'[j], k) /\ NewConnect(calls'[j]) =>
          k = "connect" /\ win.open /\ IsFlow(calls'[j].req) /\ \A i \in DOMAIN calls : ~NewConnect(calls[i])
    <2> SUFFICES ASSUME NEW j \in DOMAIN calls', Fresh(calls'[j], k), NewConnect(calls'[j])
                 PROVE  k = "connect" /\ win.open /\ IsFlow(calls'[j].req) /\ \A i \in DOMAIN calls : ~NewConnect(calls[i])
      OBVIOUS
    <2>1. k = "connect" /\ win.open /\ Alone
      BY <1>1, FreshSound
    <2>2. IsFlow(calls'[j].req)
      BY ConnectFlows DEF Fresh, NewConnect
    <2>3. \A i \in DOMAIN calls : ~NewConnect(calls[i])
      BY <1>1, <2>1, NewConnectFlows DEF Alone
    <2> QED BY <2>1, <2>2, <2>3
  <1>4. \A j \in DOMAIN calls' : win.open /\ NewConnect(calls'[j]) => calls'[j].req.win = win.gen
    BY <1>1, <1>2, FreshSound DEF Orders
  <1>5. ASSUME NEW i \in DOMAIN calls', NEW j \in DOMAIN calls', NewConnect(calls'[i]), NewConnect(calls'[j]) PROVE i = j
    <2>1. CASE Fresh(calls'[i], k) \/ Fresh(calls'[j], k)
      BY <1>2, <1>3, <1>5, <2>1
    <2>2. CASE i \in DOMAIN calls /\ calls'[i] = calls[i] /\ j \in DOMAIN calls /\ calls'[j] = calls[j]
      BY <1>1, <1>5, <2>2 DEF Orders
    <2> QED BY <1>2, <2>1, <2>2
  <1> QED BY <1>1, <1>4, <1>5 DEF Orders

LEMMA TurnInformed == ASSUME Typed, Informed, NEW k, NEW step, StoreTurn(k, step) PROVE Informed'
  <1> SUFFICES ASSUME Aware' PROVE Informed'
    BY DEF Informed
  <1>1. /\ UNCHANGED <<queue, ctl, win>> /\ (wire' = wire \/ Takes(wire, wire')) /\ flow'.step = step
        /\ IsCalls(calls) /\ Sent(calls, calls', k) /\ past'.refused = past.refused /\ (keep'.claim => keep.claim)
    BY DEF StoreTurn, Typed
  <1>2. Aware
    BY DEF StoreTurn, Aware
  <1>3. /\ (k = "connect" => ~Busy) /\ (win.open /\ step = "idle" => ~Busy)
        /\ Busy /\ win.open /\ dash'.boot /\ Low(dash'.status) => HasUp(wire') \/ HasUp(queue)
        /\ keep'.claim => k = "none" /\ step = "none" /\ Waits(dash')
    BY <1>2 DEF StoreTurn
  <1>4. /\ ~past.refused /\ Lit /\ Waiting
        /\ \A i \in DOMAIN calls : CallFits(calls[i], ctl, win, keep)
        /\ \A a \in DOMAIN wire : Answers(wire[a]) => LineFits(wire[a], ctl, win, keep)
    BY <1>2 DEF Informed
  <1>5. (Rises(wire) => Rises(wire')) /\ (HasUp(wire') => HasUp(wire))
    BY <1>1, TakesRise
  <1>6. Lit'
    BY <1>1, <1>3, <1>4, <1>5 DEF Lit, Busy, Rises, HasUp
  <1>7. Waiting'
    BY <1>1, <1>3, <1>4, <1>5 DEF Waiting, Waits, Busy, HasUp
  <1>8. (win.open /\ flow.step = "idle" => ~Busy)' /\ ~past'.refused
    BY <1>1, <1>3, <1>4 DEF Busy
  <1>9. \A i \in DOMAIN calls' : CallFits(calls'[i], ctl, win, keep')
    <2> TAKE i \in DOMAIN calls'
    <2>1. CASE Fresh(calls'[i], k)
      <3>1. ~calls'[i].res.ok /\ calls'[i].st = "new" /\ (IsFlow(calls'[i].req) => calls'[i].req.m = k) /\ (NewConnect(calls'[i]) => k = "connect")
        BY <2>1, FreshSound
      <3> QED BY <1>3, <3>1 DEF CallFits, Busy, IsFlow, IdleSnap
    <2>2. (i \in DOMAIN calls /\ calls'[i] = calls[i]) \/ Fresh(calls'[i], k)
      BY <1>1, TurnCalls
    <2> QED BY <1>1, <1>4, <2>1, <2>2, FitsOn
  <1>10. \A a \in DOMAIN wire' : Answers(wire'[a]) => LineFits(wire'[a], ctl, win, keep')
    <2>1. \A a \in DOMAIN wire' : \E b \in DOMAIN wire : wire'[a] = wire[b]
      BY <1>1, TurnOld
    <2> QED BY <1>1, <1>4, <2>1, FitsOn
  <1> QED BY <1>1, <1>6, <1>7, <1>8, <1>9, <1>10 DEF Informed

LEMMA TurnReadWell == ASSUME Typed, ReadWell, NEW k, NEW step, StoreTurn(k, step) PROVE ReadWell'
  <1> SUFFICES ASSUME "read" \notin faults' PROVE ReadWell'
    BY DEF ReadWell
  <1>1. /\ win' = win /\ faults' = faults /\ (wire' = wire \/ Takes(wire, wire')) /\ IsCalls(calls) /\ Sent(calls, calls', k)
        /\ "read" \notin faults /\ win.open /\ dash'.auto = "fresh" => dash'.reading
    BY DEF StoreTurn, Typed
  <1>2. \A j \in DOMAIN calls' : (j \in DOMAIN calls /\ calls'[j] = calls[j]) \/ calls'[j].st = "new"
    BY <1>1, TurnCalls, FreshSound
  <1>3. \A a \in DOMAIN wire' : \E b \in DOMAIN wire : wire'[a] = wire[b]
    BY <1>1, TurnOld
  <1> QED BY <1>1, <1>2, <1>3 DEF ReadWell

LEMMA TurnObeyed ==
  ASSUME Typed, Paired, Orders, Obeyed, NEW k, NEW step, StoreTurn(k, step)
  PROVE  Obeyed'
  <1> SUFFICES ASSUME Willing', past'.want = "down" PROVE Obeyed'
    BY DEF Obeyed
  <1>1. Willing /\ UNCHANGED <<win, ctl>> /\ flow'.step = step /\ IsCalls(calls) /\ Sent(calls, calls', k)
    BY DEF StoreTurn, Willing, Typed
  <1>2. k = "none" /\ step = "none" /\ ~keep'.claim /\ (past.want = "down" \/ (flow.step = "none" /\ win.open /\ Leaving'))
    BY <1>1 DEF StoreTurn
  <1>3. \A i \in DOMAIN calls : ~NewConnect(calls[i])
    <2>1. CASE past.want = "down"
      BY <1>1, <2>1 DEF Obeyed
    <2>2. CASE flow.step = "none" /\ win.open
      <3>1. "lag" \notin faults
        BY <1>1 DEF Willing
      <3> QED BY <2>2, <3>1, NewConnectFlows DEF Paired
    <2> QED BY <1>2, <2>1, <2>2
  <1>4. /\ \A j \in DOMAIN calls : j \in DOMAIN calls' /\ calls'[j] = calls[j]
        /\ \A j \in DOMAIN calls' : (j \in DOMAIN calls /\ calls'[j] = calls[j]) \/ ~NewConnect(calls'[j])
    BY <1>1, <1>2, TurnCalls, FreshSound
  <1>5. ctl'.st \in {"idle", "stopping"} \/ Leaving'
    BY <1>1, <1>2, <1>4 DEF Obeyed, Leaving
  <1> QED BY <1>1, <1>2, <1>3, <1>4, <1>5 DEF Obeyed

LEMMA TurnAsks == ASSUME Asked, win.gen \in Nat \ {0}, NEW k, NEW step, StoreTurn(k, step) PROVE Asked'
  BY TurnTyped, TurnPaired, TurnOrders, TurnInformed, TurnReadWell, TurnObeyed DEF Asked, StoreTurn

Frame == UNCHANGED <<queue, lost, ctl, cfg, win, faults>>

LEMMA FitsNow == ASSUME NEW v, Fit(v), Becomes(v) PROVE Fit(Now(calls))'
  <1>1. PICK w : w = [d |-> v.d, f |-> v.f, k |-> v.k, p |-> v.p, sent |-> v.sent]
    OBVIOUS
  <1>2. DOMAIN w = {"d", "f", "k", "p", "sent"} /\ w.d = v.d /\ w.f = v.f /\ w.k = v.k /\ w.p = v.p
    BY <1>1
  <1>3. Fit(w)
    BY <1>2 DEF Fit
  <1>4. w = [d |-> dash', f |-> flow', k |-> keep', p |-> past', sent |-> calls']
    BY <1>1 DEF Becomes
  <1> QED BY <1>3, <1>4 DEF Now

\* Between its steps no call of a sequence is under way.
LEMMA NoneFlows ==
  ASSUME Paired, win.open, flow.step \in {"idle", "none"}, wire' = wire \/ Takes(wire, wire')
  PROVE  Alone
  <1>1. \A x : StepOf(x) \notin {"idle", "none"}
    BY DEF StepOf
  <1>2. \A a \in DOMAIN wire' : \E b \in DOMAIN wire : wire'[a] = wire[b]
    BY TurnOld
  <1> QED BY <1>1, <1>2 DEF Alone, Paired

\* Turns that leave alone what a snapshot, a click or the connect on start changes.
LEMMA StillTurn ==
  ASSUME Asked, Frame, NEW v, NEW k, NEW step, NEW status, Becomes(v), Goes(Now(calls), v, k, step, status),
         wire' = wire \/ Takes(wire, wire'), win.open \/ step = "none",
         flow.step = "none" => k = "none" /\ step = "none",
         \/ k = "none" /\ step = flow.step
         \/ Alone /\ (k = "connect" => step = "start") /\ (k = "disconnect" => step = "stop"),
         Aware =>
           /\ (k = "connect" => ~Busy) /\ (step = "idle" /\ flow.step # "idle" => ~Busy)
           /\ Busy /\ win.open /\ dash.boot /\ Low(status) => HasUp(wire') \/ HasUp(queue)
           /\ keep.claim /\ dash.auto = "fresh" => status \notin {"connected", "connecting"}
  PROVE  StoreTurn(k, step)
  <1>1. /\ Fit(v) /\ Sent(calls, v.sent, k) /\ v.f.step = step /\ v.d.status = status
        /\ v.d.boot = dash.boot /\ v.d.servers = dash.servers /\ v.d.auto = dash.auto /\ v.d.may = dash.may
        /\ (dash.reading => v.d.reading) /\ v.p.want = past.want /\ v.p.refused = past.refused /\ v.k.claim = keep.claim
    BY DEF Goes, Asked, Typed, Still, Now
  <1>2. dash' = v.d /\ flow' = v.f /\ keep' = v.k /\ past' = v.p /\ calls' = v.sent
    BY DEF Becomes
  <1>3. Fit(Now(calls))'
    BY <1>1, FitsNow
  <1>4. Started' /\ ("read" \notin faults /\ win.open /\ dash'.auto = "fresh" => dash'.reading)
    BY <1>1, <1>2 DEF Asked, Started, Early, ReadWell
  <1>5. ASSUME Aware
        PROVE  /\ (k = "connect" => ~Busy) /\ (win.open /\ step = "idle" => ~Busy)
               /\ Busy /\ win.open /\ dash'.boot /\ Low(dash'.status) => HasUp(wire') \/ HasUp(queue)
               /\ keep'.claim => k = "none" /\ step = "none" /\ Waits(dash')
    <2>1. (win.open /\ flow.step = "idle" => ~Busy) /\ Waiting
      BY <1>5 DEF Asked, Informed
    <2> QED BY <1>1, <1>2, <1>5, <2>1 DEF Waiting, Waits
  <1>6. ASSUME Willing, past'.want = "down" PROVE k = "none" /\ step = "none" /\ ~keep'.claim /\ past.want = "down"
    BY <1>1, <1>2, <1>6 DEF Asked, Obeyed
  <1> QED BY <1>1, <1>2, <1>3, <1>4, <1>5, <1>6 DEF StoreTurn, Frame

\* Turns that say nothing of the connection.
LEMMA SameTurn ==
  ASSUME Asked, Frame, NEW v, Becomes(v), Goes(Now(calls), v, "none", flow.step, dash.status),
         wire' = wire \/ (Takes(wire, wire') /\ ~(win.open /\ Upper(wire[1])))
  PROVE  StoreTurn("none", flow.step)
  <1>1. ASSUME Aware
        PROVE  /\ Busy /\ win.open /\ dash.boot /\ Low(dash.status) => HasUp(wire') \/ HasUp(queue)
               /\ keep.claim /\ dash.auto = "fresh" => dash.status \notin {"connected", "connecting"}
    <2>1. Lit /\ Waiting
      BY <1>1 DEF Asked, Informed
    <2>2. win.open /\ HasUp(wire) => HasUp(wire')
      BY TakesRise
    <2> QED BY <2>1, <2>2 DEF Lit, Waiting, Waits
  <1>2. win.open \/ flow.step = "none"
    BY DEF Asked, Paired
  <1>3. PICK step, status, k : step = flow.step /\ status = dash.status /\ k = "none"
    OBVIOUS
  <1>4. StoreTurn(k, step)
    BY <1>1, <1>2, <1>3, StillTurn
  <1> QED BY <1>3, <1>4

LEMMA NowFields == Now(calls).d = dash /\ Now(calls).f = flow /\ Now(calls).k = keep /\ Now(calls).p = past /\ Now(calls).sent = calls
  BY DEF Now

\* The first line of the output, as the window reads it.
Reads == Takes(wire, wire') /\ 1 \in DOMAIN wire /\ win.open

LEMMA StatusTurn ==
  ASSUME Asked, Frame, Reads, wire[1].topic = "vpn:status", Becomes(OnVpnStatus(Now(calls), wire[1]))
  PROVE  \E k, step : StoreTurn(k, step)
  <1>1. PICK e, u, v : e = wire[1] /\ u = Now(calls) /\ v = OnVpnStatus(u, e)
    OBVIOUS
  <1>2. IsStatus(e) /\ e.topic = "vpn:status" /\ u.d = dash /\ u.f = flow
    BY <1>1, NowFields DEF Asked, Typed, Told, Reads
  <1>3. Becomes(v)
    BY <1>1
  <1>4. Reads /\ (Rises(wire) => (Down(e) => HasUp(wire')))
    BY <1>1, TakesRise DEF Reads
  <1>5. ASSUME Aware
        PROVE  /\ flow.step = "idle" => ~Busy
               /\ Busy /\ Low(e.status) => HasUp(wire') \/ HasUp(queue)
               /\ keep.claim => e.status \notin {"connected", "connecting"}
    <2>1. (win.open /\ flow.step = "idle" => ~Busy) /\ Lit /\ Waiting
      BY <1>5 DEF Asked, Informed
    <2>2. Upper(e) => HasUp(wire)
      BY <1>1, <1>4 DEF Reads, HasUp
    <2> QED BY <1>2, <1>4, <2>1, <2>2 DEF Lit, Waiting, Down, Upper, Reads
  <1>6. CASE e.status = "idle" /\ flow.step = "idle"
    <2>1. Goes(Now(calls), v, "connect", "start", "idle")
      BY <1>1, <1>2, <1>6, StatusGoes
    <2>2. Alone
      BY <1>4, <1>6, NoneFlows DEF Reads, Asked
    <2>3. StoreTurn("connect", "start")
      <3>1. PICK k, step, status : k = "connect" /\ step = "start" /\ status = "idle"
        OBVIOUS
      <3>2. StoreTurn(k, step)
        BY <1>3, <1>4, <1>5, <1>6, <2>1, <2>2, <3>1, StillTurn DEF Reads
      <3> QED BY <3>1, <3>2
    <2> QED BY <2>3
  <1>7. CASE ~(e.status = "idle" /\ flow.step = "idle")
    <2>1. PICK k, step, status : k = "none" /\ step = flow.step /\ status = e.status
      OBVIOUS
    <2>2. Goes(Now(calls), v, k, step, status)
      BY <1>1, <1>2, <1>7, <2>1, StatusGoes
    <2>3. StoreTurn(k, step)
      BY <1>3, <1>4, <1>5, <2>1, <2>2, StillTurn DEF Reads
    <2> QED BY <2>3
  <1> QED BY <1>6, <1>7

LEMMA FlowTurn ==
  ASSUME Asked, Frame, Reads, Answers(wire[1]), InFlow(wire[1], win.gen),
         Becomes(FlowAnswer(Now(calls), wire[1].req.m, wire[1].res.ok))
  PROVE  \E k, step : StoreTurn(k, step)
  <1>1. PICK e, u, m, v : e = wire[1] /\ u = Now(calls) /\ m = e.req.m /\ v = FlowAnswer(u, m, e.res.ok)
    OBVIOUS
  <1>2. u.d = dash /\ u.f = flow /\ Fit(u) /\ Becomes(v) /\ m \in {"connect", "disconnect"} /\ ~Upper(e)
    BY <1>1, NowFields DEF Asked, Typed, InFlow, IsFlow, Upper, Answers
  <1>3. flow.step = StepOf(e.req) /\ flow.step \in {"start", "stop"} /\ u.f.kind # "none"
    <2>1. flow.step = StepOf(e.req) /\ flow.step \in {"start", "stop"}
      BY <1>1 DEF Asked, Paired, Reads, StepOf
    <2> QED BY <1>2, <2>1 DEF Fit
  <1>4. Alone
    <2>1. \A a \in DOMAIN wire' : a + 1 # 1 /\ a + 1 \in DOMAIN wire /\ wire'[a] = wire[a + 1]
      BY TakesLines DEF Reads
    <2> QED BY <2>1 DEF Asked, Paired, Alone, Reads
  <1>5. ASSUME Aware
        PROVE  /\ ~keep.claim /\ (m = "disconnect" \/ ~e.res.ok => ~Busy)
               /\ Busy /\ dash.boot /\ Low(dash.status) => HasUp(wire') \/ HasUp(queue)
    <2>1. Lit /\ Waiting /\ LineFits(e, ctl, win, keep)
      BY <1>1, <1>5 DEF Asked, Informed, Reads
    <2>2. HasUp(wire) => HasUp(wire')
      BY <1>1, <1>2, TakesRise DEF Reads
    <2> QED BY <1>1, <1>3, <2>1, <2>2 DEF Lit, Waiting, LineFits, Stops, Busy, Reads
  <1>6. ASSUME NEW k, NEW step, NEW status, Goes(Now(calls), v, k, step, status),
               step \in {"none", "idle", "start"}, k \in {"none", "connect"}, k = "connect" => step = "start",
               (k = "none" /\ step = "none" /\ status = dash.status) \/ m = "disconnect" \/ ~e.res.ok
        PROVE  \E j, s : StoreTurn(j, s)
    <2>1. StoreTurn(k, step)
      BY <1>2, <1>3, <1>4, <1>5, <1>6, StillTurn DEF Reads
    <2> QED BY <2>1
  <1>7. CASE ~e.res.ok
    <2>1. PICK status, k, step : status = (IF u.f.kind = "connect" THEN "idle" ELSE u.d.status) /\ k = "none" /\ step = "none"
      OBVIOUS
    <2>2. FlowAnswer(u, m, e.res.ok) = FlowAnswer(u, m, FALSE)
      BY <1>7 DEF FlowAnswer
    <2>3. Goes(Now(calls), v, k, step, status)
      BY <1>1, <1>3, <2>1, <2>2, FlowGoes
    <2> QED BY <1>6, <1>7, <2>1, <2>3
  <1>8. CASE e.res.ok
    <2>1. FlowAnswer(u, m, e.res.ok) = FlowAnswer(u, m, TRUE)
      BY <1>8 DEF FlowAnswer
    <2>2. PICK status, k, step :
            /\ status = dash.status
            /\ k = IF m = "disconnect" /\ dash.status = "idle" THEN "connect" ELSE "none"
            /\ step = IF m = "connect" THEN "none" ELSE IF dash.status = "idle" THEN "start" ELSE "idle"
      OBVIOUS
    <2>3. Goes(Now(calls), v, k, step, status)
      BY <1>1, <1>2, <1>3, <2>1, <2>2, FlowGoes
    <2>4. m = "disconnect" \/ (k = "none" /\ step = "none")
      BY <1>2, <2>2
    <2> QED BY <1>2, <1>6, <2>2, <2>3, <2>4
  <1> QED BY <1>7, <1>8

\* The answer to a click on Disconnect.
LEMMA ClickedTurn ==
  ASSUME Asked, Frame, Reads, Answers(wire[1]), wire[1].req.m = "disconnect", wire[1].req.by = "user",
         Becomes(DisconnectAnswer(Now(calls), wire[1].res.ok))
  PROVE  \E k, step : StoreTurn(k, step)
  <1>1. PICK u, v : u = Now(calls) /\ v = DisconnectAnswer(u, wire[1].res.ok) /\ Becomes(v)
    OBVIOUS
  <1>2. u.f = flow /\ Down(wire[1])
    BY <1>1, NowFields DEF Down, Lowers, Answers
  <1>3. ASSUME Aware
        PROVE  (flow.step = "idle" => ~Busy) /\ (Busy => HasUp(wire') \/ HasUp(queue))
    <2>1. (flow.step = "idle" => ~Busy) /\ Lit
      BY <1>3 DEF Asked, Informed, Reads
    <2> QED BY <1>2, <2>1, TakesRise DEF Lit, Reads
  <1>4. PICK k, step, status :
          /\ k = IF wire[1].res.ok /\ flow.step = "idle" THEN "connect" ELSE "none"
          /\ step = IF wire[1].res.ok /\ flow.step = "idle" THEN "start" ELSE flow.step
          /\ status = IF wire[1].res.ok THEN "idle" ELSE "error"
    OBVIOUS
  <1>5. /\ wire[1].res.ok => DisconnectAnswer(u, wire[1].res.ok) = DisconnectAnswer(u, TRUE)
        /\ ~wire[1].res.ok => DisconnectAnswer(u, wire[1].res.ok) = DisconnectAnswer(u, FALSE)
    BY DEF DisconnectAnswer
  <1>6. Goes(Now(calls), v, k, step, status)
    BY <1>1, <1>2, <1>4, <1>5, DisconnectGoes
  <1>7. flow.step = "idle" => Alone
    BY NoneFlows DEF Reads, Asked
  <1>8. StoreTurn(k, step)
    BY <1>1, <1>3, <1>4, <1>6, <1>7, StillTurn DEF Reads
  <1> QED BY <1>8

LEMMA SnapshotTurn ==
  ASSUME Asked, Frame, Reads, Answers(wire[1]), wire[1].req.m = "snapshot",
         Becomes(IF wire[1].res.ok THEN DoBootstrap(Now(calls), wire[1].res.val)
                 ELSE SetError([Now(calls) EXCEPT !.d.reading = FALSE], TRUE))
  PROVE  \E k, step : StoreTurn(k, step)
  <1>1. PICK e, u, snap, v :
          /\ e = wire[1] /\ u = Now(calls) /\ snap = e.res.val
          /\ v = IF e.res.ok THEN DoBootstrap(u, snap) ELSE SetError([u EXCEPT !.d.reading = FALSE], TRUE)
    OBVIOUS
  <1>2. Fit(u) /\ u.d = dash /\ u.f = flow /\ u.k = keep /\ u.p = past /\ u.sent = calls
    BY <1>1, NowFields DEF Asked, Typed
  <1>3. Becomes(v)
    BY <1>1
  <1>4. dash' = v.d /\ flow' = v.f /\ keep' = v.k /\ past' = v.p /\ calls' = v.sent
    BY <1>3 DEF Becomes
  <1>5. ~Upper(e) /\ (Rises(wire) => (Down(e) => HasUp(wire'))) /\ (HasUp(wire) => HasUp(wire'))
    BY <1>1, TakesRise DEF Reads, Upper, Answers
  <1>6. Takes(wire, wire') /\ win.open /\ 1 \in DOMAIN wire
    BY DEF Reads
  <1>7. Early(dash, keep) /\ (Willing /\ past.want = "down" => flow.step = "none" /\ ~keep.claim)
    BY DEF Asked, Started, Obeyed
  <1>8. ASSUME Aware
        PROVE  Lit /\ Waiting /\ (flow.step = "idle" => ~Busy) /\ (keep.claim /\ Busy => ~IdleSnap(e))
    BY <1>1, <1>6, <1>8 DEF Asked, Informed, LineFits, Busy
  <1>9. ASSUME Fit(v), Sent(calls, v.sent, "none"), v.f.step = flow.step, v.p.want = past.want, v.p.refused = past.refused,
               v.k.claim = keep.claim, Early(v.d, keep), "read" \notin faults => v.d.auto # "fresh",
               Aware => /\ Busy /\ v.d.boot /\ Low(v.d.status) => HasUp(wire') \/ HasUp(queue)
                        /\ keep.claim => Waits(v.d)
        PROVE  \E k, step : StoreTurn(k, step)
    <2>1. PICK k, step : k = "none" /\ step = flow.step
      OBVIOUS
    <2>2. Fit(Now(calls))' /\ Started'
      BY <1>3, <1>4, <1>9, FitsNow DEF Started, Early
    <2>3. StoreTurn(k, step)
      BY <1>4, <1>6, <1>7, <1>8, <1>9, <2>1, <2>2 DEF StoreTurn, Frame, Waiting
    <2> QED BY <2>3
  <1>10. CASE e.res.ok
    <2>1. snap.status \in Statuses /\ snap.mode \in Modes
      BY <1>1, <1>6, <1>10 DEF Asked, Typed, Told, Sound, Answers
    <2>2. v = DoBootstrap(u, snap)
      BY <1>1, <1>10
    <2>3. /\ Fit(v) /\ Sent(calls, v.sent, "none") /\ v.f.step = flow.step
          /\ v.d.status = IF dash.status = "connecting" /\ snap.status = "connected" THEN "connecting" ELSE snap.status
          /\ v.d.boot = TRUE /\ v.d.servers = snap.servers /\ v.d.auto = IF dash.auto = "fresh" THEN "claim" ELSE dash.auto
          /\ v.d.may = IF dash.auto = "fresh" /\ snap.may /\ snap.status = "idle" THEN snap.servers ELSE dash.may
          /\ v.p.want = past.want /\ v.p.refused = past.refused /\ v.k.claim = keep.claim
      <3>1. Boots(u, snap, v)
        BY <1>2, <2>1, <2>2, BootGoes
      <3> QED BY <1>2, <3>1 DEF Boots
    <2>4. Early(v.d, keep) /\ v.d.auto # "fresh"
      BY <1>7, <2>3 DEF Early
    <2>5. Low(v.d.status) => Down(e)
      BY <1>1, <1>10, <2>3 DEF Low, Down, Lowers, Answers
    <2>6. snap.status = "idle" => IdleSnap(e)
      BY <1>1, <1>10 DEF IdleSnap
    <2>7. ASSUME Aware
          PROVE  /\ Busy /\ v.d.boot /\ Low(v.d.status) => HasUp(wire') \/ HasUp(queue)
                 /\ keep.claim => Waits(v.d)
      <3>1. keep.claim => Waits(v.d)
        BY <1>8, <2>3, <2>4, <2>6, <2>7 DEF Waiting, Waits
      <3> QED BY <1>5, <1>8, <2>5, <2>7, <3>1 DEF Lit
    <2> QED BY <1>9, <2>3, <2>4, <2>7
  <1>11. CASE ~e.res.ok
    <2>1. v = SetError([u EXCEPT !.d.reading = FALSE], TRUE)
      BY <1>1, <1>11
    <2>2. /\ Fit(v) /\ v.sent = u.sent /\ v.f = u.f /\ v.d.status = u.d.status /\ v.d.boot = u.d.boot
          /\ v.d.servers = u.d.servers /\ v.d.auto = u.d.auto /\ v.d.may = u.d.may
          /\ v.p = u.p /\ v.k.claim = u.k.claim
      BY ZenonT(60), <1>2, <2>1, UnreadGoes
    <2>3. "read" \in faults
      BY <1>1, <1>6, <1>11 DEF Asked, ReadWell, ReadOk
    <2>4. Early(v.d, keep) /\ (Waits(dash) => Waits(v.d)) /\ Sent(calls, v.sent, "none")
      BY <1>2, <1>7, <2>2, SentSelf DEF Early, Waits
    <2>5. ASSUME Aware
          PROVE  /\ Busy /\ v.d.boot /\ Low(v.d.status) => HasUp(wire') \/ HasUp(queue)
                 /\ keep.claim => Waits(v.d)
      BY <1>2, <1>5, <1>6, <1>8, <2>2, <2>4, <2>5 DEF Lit, Waiting
    <2> QED BY <1>2, <1>9, <2>2, <2>3, <2>4, <2>5
  <1> QED BY <1>10, <1>11

LEMMA RendersTurn ==
  ASSUME Asked, IsList(wire), Renders, ~AutoConnect
  PROVE  \E k, step : StoreTurn(k, step)
  <1>1. (DashReceives \/ IdleTimeout) /\ UNCHANGED <<win, faults>>
    BY DEF Renders, shared
  <1>2. CASE IdleTimeout
    <2>1. PICK v : v = FlowFails(Now(calls)) /\ Becomes(v)
      BY <1>2 DEF IdleTimeout
    <2>2. Frame /\ wire' = wire /\ win.open /\ flow.step = "idle"
      BY <1>1, <1>2 DEF IdleTimeout, Frame
    <2>3. PICK k, step, status : k = "none" /\ step = "none" /\ status = IF Now(calls).f.kind = "connect" THEN "idle" ELSE Now(calls).d.status
      OBVIOUS
    <2>4. Goes(Now(calls), v, k, step, status)
      BY <2>1, <2>3, FailsGoes
    <2>5. Aware => ~Busy /\ ~keep.claim
      BY <2>2 DEF Asked, Informed, Waiting
    <2>6. StoreTurn(k, step)
      BY <2>1, <2>2, <2>3, <2>4, <2>5, NoneFlows, StillTurn DEF Asked
    <2> QED BY <2>6
  <1>3. CASE DashReceives
    <2>1. Frame /\ wire # <<>> /\ win.open /\ wire' = Tail(wire)
      BY <1>1, <1>3 DEF DashReceives, Frame
    <2>2. Takes(wire, wire')
      BY <2>1, TailTakes
    <2>3. Head(wire) = wire[1] /\ Reads
      BY <2>1, <2>2 DEF Takes, Reads
    <2>4. ASSUME NEW v, Becomes(v), Goes(Now(calls), v, "none", flow.step, dash.status), ~Upper(wire[1])
          PROVE  \E k, step : StoreTurn(k, step)
      BY <2>1, <2>2, <2>4, SameTurn
    <2>5. PICK u, e : u = Now(calls) /\ e = wire[1]
      OBVIOUS
    <2>6. u.f = flow /\ u.d = dash
      BY <2>5, NowFields
    <2>7. CASE e.topic \in DashTopics /\ Becomes(OnEvent(u, e))
      <3>1. CASE e.topic = "vpn:status"
        <4>1. OnEvent(u, e) = OnVpnStatus(u, e)
          BY <3>1 DEF OnEvent
        <4> QED BY <2>1, <2>3, <2>5, <2>7, <3>1, <4>1, StatusTurn
      <3>2. CASE e.topic # "vpn:status"
        BY <2>4, <2>5, <2>6, <2>7, <3>2, OtherGoes DEF Upper
      <3> QED BY <3>1, <3>2
    <2>8. CASE e.topic = "answer" /\ e.req.win = win.gen /\ Becomes(Answer(u, e.req, e.res))
      <3>1. Answers(e) /\ ~Upper(e)
        BY <2>8 DEF Answers, Upper
      <3>2. CASE e.req.m = "snapshot"
        <4>1. Answer(u, e.req, e.res) = IF e.res.ok THEN DoBootstrap(u, e.res.val)
                                        ELSE SetError([u EXCEPT !.d.reading = FALSE], TRUE)
          BY <3>2 DEF Answer
        <4> QED BY <2>1, <2>3, <2>5, <2>8, <3>1, <3>2, <4>1, SnapshotTurn
      <3>3. CASE IsFlow(e.req)
        <4>1. Answer(u, e.req, e.res) = FlowAnswer(u, e.req.m, e.res.ok)
          BY <3>3 DEF Answer, IsFlow
        <4> QED BY <2>1, <2>3, <2>5, <2>8, <3>1, <3>3, <4>1, FlowTurn DEF InFlow
      <3>4. CASE e.req.m = "disconnect" /\ e.req.by = "user"
        <4>1. Answer(u, e.req, e.res) = DisconnectAnswer(u, e.res.ok)
          BY <3>4 DEF Answer
        <4> QED BY <2>1, <2>3, <2>5, <2>8, <3>1, <3>4, <4>1, ClickedTurn
      <3>5. CASE e.req.m # "snapshot" /\ ~IsFlow(e.req) /\ ~(e.req.m = "disconnect" /\ e.req.by = "user")
        BY <2>4, <2>5, <2>6, <2>8, <3>1, <3>5, OtherGoes
      <3> QED BY <3>2, <3>3, <3>4, <3>5
    <2> QED BY <1>3, <2>3, <2>5, <2>7, <2>8 DEF DashReceives
  <1> QED BY <1>1, <1>2, <1>3

\* Lines for a window that is gone, and those of the Logs tab.
LEMMA LinesTurn ==
  ASSUME Asked, IsList(wire), Discard \/ LogReceives
  PROVE  StoreTurn("none", flow.step)
  <1>1. wire # <<>> /\ wire' = Tail(wire) /\ UNCHANGED <<queue, lost, win, faults, dashv, calls>>
    BY DEF Discard, LogReceives, shared
  <1>2. Takes(wire, wire')
    BY <1>1, TailTakes
  <1>3. ~(win.open /\ Upper(wire[1]))
    BY <1>2 DEF Discard, LogReceives, Takes, Upper
  <1>4. PICK v : v = Now(calls)
    OBVIOUS
  <1>5. Becomes(v) /\ Frame
    BY <1>1, <1>4, NowFields DEF Becomes, dashv, Frame
  <1>6. Goes(Now(calls), v, "none", flow.step, dash.status)
    BY <1>4, GoesSelf, NowFields
  <1> QED BY <1>2, <1>3, <1>5, <1>6, SameTurn

\* Turns that begin with a change of the store, x, as the clicks and the connect on start do.
LEMMA ChangedTurn ==
  ASSUME Asked, Frame, wire' = wire, win.open, NEW x, NEW v, NEW k, NEW step, NEW status,
         Becomes(v), Goes(x, v, k, step, status), Fit(x), Sent(calls, x.sent, "none"),
         x.p.refused = past.refused, Early(x.d, x.k), x.k.claim => keep.claim,
         "read" \notin faults /\ x.d.auto = "fresh" => x.d.reading,
         \/ k = "none" /\ step = flow.step
         \/ Alone /\ (k = "connect" => step = "start") /\ (k = "disconnect" => step = "stop"),
         Aware => /\ (k = "connect" => ~Busy) /\ (step = "idle" => ~Busy)
                  /\ Busy /\ x.d.boot /\ Low(status) => HasUp(wire) \/ HasUp(queue)
                  /\ x.k.claim => /\ k = "none" /\ step = "none" /\ (x.d.may # {} => ~Busy)
                                  /\ x.d.auto = "fresh" => status \notin {"connected", "connecting"} /\ x.d.may = {},
         Willing /\ x.p.want = "down" => /\ k = "none" /\ step = "none" /\ ~x.k.claim
                                         /\ past.want = "down" \/ (flow.step = "none" /\ Leaving')
  PROVE  StoreTurn(k, step)
  <1>1. Fit(v) /\ Still(x, v) /\ Sent(x.sent, v.sent, k) /\ v.f.step = step /\ v.d.status = status
    BY DEF Goes
  <1>2. Sent(calls, v.sent, k)
    BY <1>1, SentChain
  <1>3. dash' = v.d /\ flow' = v.f /\ keep' = v.k /\ past' = v.p /\ calls' = v.sent
    BY DEF Becomes
  <1>4. Fit(Now(calls))'
    BY <1>1, FitsNow
  <1>5. Started' /\ ("read" \notin faults /\ dash'.auto = "fresh" => dash'.reading)
    BY <1>1, <1>3 DEF Started, Early, Still
  <1>6. ASSUME Aware
        PROVE  /\ (k = "connect" => ~Busy) /\ (step = "idle" => ~Busy)
               /\ Busy /\ dash'.boot /\ Low(dash'.status) => HasUp(wire') \/ HasUp(queue)
               /\ keep'.claim => k = "none" /\ step = "none" /\ Waits(dash')
    BY <1>1, <1>3, <1>6 DEF Still, Waits
  <1>7. ASSUME Willing, past'.want = "down"
        PROVE  k = "none" /\ step = "none" /\ ~keep'.claim /\ (past.want = "down" \/ (flow.step = "none" /\ Leaving'))
    BY <1>1, <1>3, <1>7 DEF Still
  <1> QED BY <1>1, <1>2, <1>3, <1>4, <1>5, <1>6, <1>7 DEF StoreTurn, Frame, Still

LEMMA WishFit ==
  ASSUME NEW u, NEW w, Fit(u)
  PROVE  /\ Fit(Wish(u, w)) /\ Wish(u, w).d = u.d /\ Wish(u, w).f = u.f /\ Wish(u, w).k = u.k /\ Wish(u, w).sent = u.sent
         /\ Wish(u, w).p.refused = u.p.refused /\ Wish(u, w).p.want = w
  <1>1. PICK x, p : x = Wish(u, w) /\ p = [u.p EXCEPT !.want = w]
    OBVIOUS
  <1>2. x = [u EXCEPT !.p = p]
    BY <1>1 DEF Wish
  <1>3. DOMAIN p = DOMAIN u.p /\ p.refused = u.p.refused /\ p.want = w
    BY <1>1 DEF Fit
  <1>4. DOMAIN x = DOMAIN u /\ x.d = u.d /\ x.f = u.f /\ x.k = u.k /\ x.sent = u.sent /\ x.p = p
    BY <1>2 DEF Fit
  <1>5. Fit(x)
    BY <1>3, <1>4 DEF Fit
  <1> QED BY <1>1, <1>3, <1>4, <1>5

LEMMA WishGoes ==
  ASSUME NEW u, NEW z, NEW w, NEW k, NEW step, NEW status, Fit(u), Goes(u, z, k, step, status)
  PROVE  Goes(Wish(u, w), Wish(z, w), k, step, status)
  <1>1. PICK x, y : x = Wish(u, w) /\ y = Wish(z, w)
    OBVIOUS
  <1>2. Fit(z) /\ Still(u, z) /\ Sent(u.sent, z.sent, k) /\ z.f.step = step /\ z.d.status = status
    BY DEF Goes
  <1>3. x.d = u.d /\ x.k = u.k /\ x.sent = u.sent /\ x.p.refused = u.p.refused /\ x.p.want = w
    BY <1>1, WishFit
  <1>4. Fit(y) /\ y.d = z.d /\ y.f = z.f /\ y.k = z.k /\ y.sent = z.sent /\ y.p.refused = z.p.refused /\ y.p.want = w
    BY <1>1, <1>2, WishFit
  <1>5. Goes(x, y, k, step, status)
    BY <1>2, <1>3, <1>4 DEF Goes, Still
  <1> QED BY <1>1, <1>5

\* The store as it is now, in one.
LEMMA NowFit ==
  ASSUME Asked
  PROVE  /\ Fit(Now(calls)) /\ Sent(calls, calls, "none") /\ Early(dash, keep)
         /\ ("read" \notin faults /\ win.open /\ dash.auto = "fresh" => dash.reading)
         /\ (flow.kind = "none" => flow.step = "none")
  BY NowFields, SentSelf DEF Asked, Typed, Started, ReadWell, Fit

\* maybeAutoConnect
LEMMA AutoTurn ==
  ASSUME Asked, AutoConnect, Frame
  PROVE  \E k, step : StoreTurn(k, step)
  <1> DEFINE v == [Now(calls) EXCEPT !.d.auto = "done", !.d.may = {}]
             u == Claim(v)
             w == [u EXCEPT !.p.autos = @ + 1]
             z == IF keep.claim /\ keep.last \in dash.may THEN DashConnect(w, keep.last) ELSE u
  <1>1. Becomes(z) /\ win.open /\ wire' = wire
    BY DEF AutoConnect
  <1>2. Fit(v) /\ v.d.auto = "done" /\ v.d.may = {} /\ v.d.boot = dash.boot /\ v.d.servers = dash.servers
        /\ v.d.status = dash.status /\ v.f = flow /\ v.k = keep /\ v.p = past /\ v.sent = calls
    BY NowFit, NowFields, FieldsAre DEF Fit
  <1> HIDE DEF v
  <1>3. Fit(u) /\ u.d = v.d /\ u.f = flow /\ u.k.claim = FALSE /\ u.p = past /\ u.sent = calls
    BY <1>2 DEF Claim, Fit
  <1> HIDE DEF u
  <1>4. Fit(w) /\ w.d = v.d /\ w.f = flow /\ w.k.claim = FALSE /\ w.p.want = past.want /\ w.p.refused = past.refused /\ w.sent = calls
    BY <1>3 DEF Fit
  <1> HIDE DEF w
  <1>5. Early(v.d, u.k) /\ Early(v.d, w.k) /\ Sent(calls, calls, "none")
    BY <1>2, <1>3, <1>4, NowFit DEF Early
  <1>6. (Aware => Lit /\ Waiting /\ (flow.step = "idle" => ~Busy)) /\ (Willing /\ past.want = "down" => flow.step = "none" /\ ~keep.claim)
    BY <1>1 DEF Asked, Informed, Obeyed
  <1>7. ASSUME NEW x, x \in {u, w}, Becomes(x) PROVE \E k, step : StoreTurn(k, step)
    <2>1. Fit(x) /\ x.d = v.d /\ x.f = flow /\ x.k.claim = FALSE /\ x.p.want = past.want /\ x.p.refused = past.refused /\ x.sent = calls
          /\ Early(x.d, x.k)
      BY <1>3, <1>4, <1>5, <1>7
    <2>2. PICK k, step, status : k = "none" /\ step = flow.step /\ status = dash.status
      OBVIOUS
    <2>3. Goes(x, x, k, step, status)
      BY <1>2, <2>1, <2>2, GoesSelf
    <2>4. StoreTurn(k, step)
      BY <1>1, <1>2, <1>5, <1>6, <1>7, <2>1, <2>2, <2>3, ChangedTurn DEF Lit
    <2> QED BY <2>4
  <1>8. CASE keep.claim /\ keep.last \in dash.may /\ flow.kind = "none"
    <2>1. z = DoConnect(w, keep.last)
      BY <1>4, <1>8 DEF DashConnect
    <2>2. Alone /\ (Aware => ~Busy)
      BY <1>1, <1>6, <1>8, NowFit, NoneFlows DEF Asked, Waiting, Waits
    <2>3. PICK k, step, status : /\ k = IF dash.status = "connected" THEN "disconnect" ELSE "connect"
                                 /\ step = IF dash.status = "connected" THEN "stop" ELSE "start"
                                 /\ status = "connecting"
      OBVIOUS
    <2>4. Goes(w, DoConnect(w, keep.last), k, step, status)
      BY <1>2, <1>4, <2>3, ConnectGoes
    <2> HIDE DEF z
    <2>5. StoreTurn(k, step)
      BY <1>1, <1>2, <1>4, <1>5, <1>6, <1>8, <2>1, <2>2, <2>3, <2>4, ChangedTurn
    <2> QED BY <2>5
  <1>9. CASE ~(keep.claim /\ keep.last \in dash.may /\ flow.kind = "none")
    <2>1. z \in {u, w}
      BY <1>4, <1>9 DEF DashConnect
    <2> HIDE DEF z
    <2> QED BY <1>1, <1>7, <2>1
  <1> QED BY <1>8, <1>9

\* The user clicks.
LEMMA ClicksWhen ==
  ASSUME Asked, NEW kind, Clicks(kind)
  PROVE  /\ win.open /\ ~bridge.eof /\ wire' = wire
         /\ Aware \/ Willing => /\ flow.kind = "none" /\ flow.step = "none" /\ Launched
                                /\ ~HasUp(queue) /\ ~HasUp(wire)
         /\ Launched => \/ dash.auto = "done" /\ ~keep.claim
                        \/ dash.auto = "fresh" /\ ~dash.reading /\ ~dash.boot /\ dash.servers = {}
         /\ flow.kind = "none" => Alone
  <1>1. win.open /\ ~bridge.eof /\ wire' = wire /\ ("hasty" \in faults \/ (flow.kind = "none" /\ Launched /\ queue = <<>> /\ wire = <<>>))
    BY DEF Clicks, CanSend
  <1>2. "hasty" \in faults => ~Aware /\ ~Willing
    BY DEF Aware, Willing
  <1>3. queue = <<>> /\ wire = <<>> => ~HasUp(queue) /\ ~HasUp(wire)
    BY DEF HasUp
  <1>4. flow.kind = "none" => flow.step = "none"
    BY NowFit
  <1>5. Early(dash, keep)
    BY NowFit
  <1>6. flow.kind = "none" => Alone
    BY <1>1, <1>4, NoneFlows DEF Asked
  <1> QED BY <1>1, <1>2, <1>3, <1>4, <1>5, <1>6 DEF Launched, Early

LEMMA ConnectTurn == ASSUME Asked, Frame, NEW s, ClickConnect(s) PROVE \E k, step : StoreTurn(k, step)
  <1>1. /\ s \in dash.servers /\ Clicks("clicks") /\ (dash.status = "connected" \/ Low(dash.status))
        /\ Becomes(Wish(DashConnect(Now(calls), s), "up"))
    BY DEF ClickConnect, EffectiveStatus, Low
  <1>2. PICK u, x : u = Now(calls) /\ x = Wish(u, "up")
    OBVIOUS
  <1>3. Fit(u) /\ u.d = dash /\ u.f = flow /\ u.k = keep /\ u.p = past /\ u.sent = calls
    BY <1>2, NowFit, NowFields
  <1>4. Fit(x) /\ x.d = dash /\ x.f = flow /\ x.k = keep /\ x.sent = calls /\ x.p.refused = past.refused /\ x.p.want = "up"
    BY <1>2, <1>3, WishFit
  <1>5. Aware \/ Willing => flow.kind = "none" /\ ~keep.claim
    BY <1>1, ClicksWhen
  <1>6. dash.boot
    BY <1>1, NowFit DEF Early
  <1>7. CASE flow.kind # "none"
    <2>1. PICK k, step, status : k = "none" /\ step = flow.step /\ status = dash.status
      OBVIOUS
    <2>2. Becomes(x) /\ Goes(x, x, k, step, status)
      BY <1>1, <1>2, <1>3, <1>4, <1>7, <2>1, GoesSelf DEF DashConnect
    <2>3. StoreTurn(k, step)
      BY <1>1, <1>4, <1>5, <1>7, <2>1, <2>2, NowFit, ClicksWhen, ChangedTurn
    <2> QED BY <2>3
  <1>8. CASE flow.kind = "none"
    <2>1. PICK k, step, status, v : /\ k = IF dash.status = "connected" THEN "disconnect" ELSE "connect"
                                    /\ step = IF dash.status = "connected" THEN "stop" ELSE "start"
                                    /\ status = "connecting" /\ v = Wish(DoConnect(u, s), "up")
      OBVIOUS
    <2>2. Goes(u, DoConnect(u, s), k, step, status)
      BY <1>3, <2>1, ConnectGoes
    <2>3. Becomes(v) /\ Goes(x, v, k, step, status)
      BY <1>1, <1>2, <1>3, <1>8, <2>1, <2>2, WishGoes DEF DashConnect
    <2>4. Alone /\ win.open /\ wire' = wire
      BY <1>1, <1>8, ClicksWhen
    <2>5. Aware => (k = "connect" => ~Busy) /\ ~Low(status)
      <3>1. Aware => Lit /\ ~HasUp(queue) /\ ~HasUp(wire)
        BY <1>1, ClicksWhen DEF Asked, Informed
      <3> QED BY <1>1, <1>6, <2>1, <2>4, <3>1 DEF Lit, Low
    <2>6. StoreTurn(k, step)
      BY <1>4, <1>5, <2>1, <2>3, <2>4, <2>5, NowFit, ChangedTurn
    <2> QED BY <2>6
  <1> QED BY <1>7, <1>8

LEMMA DisconnectTurn == ASSUME Asked, Frame, ClickDisconnect PROVE \E k, step : StoreTurn(k, step)
  <1>1. Clicks("clicks") /\ Becomes(Send(Wish([Now(calls) EXCEPT !.d.status = "disconnecting"], "down"), "disconnect", [by |-> "user"]))
    BY DEF ClickDisconnect
  <1>2. PICK u, x, v, a : /\ u = [Now(calls) EXCEPT !.d.status = "disconnecting"] /\ x = Wish(u, "down")
                          /\ a = [by |-> "user"] /\ v = Send(x, "disconnect", a)
    OBVIOUS
  <1>3. /\ Fit(u) /\ u.d = [dash EXCEPT !.status = "disconnecting"] /\ u.f = flow /\ u.k = keep /\ u.p = past /\ u.sent = calls
    BY <1>2, NowFit, NowFields, FieldsAre DEF Fit, Statuses
  <1>4. /\ u.d.status = "disconnecting" /\ u.d.boot = dash.boot /\ u.d.auto = dash.auto /\ u.d.may = dash.may
        /\ u.d.servers = dash.servers /\ u.d.reading = dash.reading
    BY <1>3, NowFit, NowFields, FieldsAre DEF Fit
  <1>5. Fit(x) /\ x.d = u.d /\ x.f = flow /\ x.k = keep /\ x.sent = calls /\ x.p.refused = past.refused /\ x.p.want = "down"
    <2>1. x = Wish(u, "down")
      BY <1>2
    <2> QED BY <1>3, <2>1, WishFit
  <1>6. DOMAIN a = {"by"} /\ a.by = "user"
    BY <1>2
  <1>7. PICK k, step, status : k = "none" /\ step = flow.step /\ status = "disconnecting"
    OBVIOUS
  <1>8. Becomes(v) /\ Goes(x, v, k, step, status)
    <2>1. v = Send(x, "disconnect", a) /\ Becomes(v)
      BY <1>1, <1>2
    <2>2. Goes(x, Send(x, "disconnect", a), k, x.f.step, x.d.status)
      BY <1>6, SendGoes
    <2> QED BY <1>4, <1>5, <1>7, <2>1, <2>2
  <1>9. Leaving' /\ win.open /\ wire' = wire
    <2>1. PICK c : c = Request("disconnect", a) /\ c.req.m = "disconnect" /\ c.st = "new" /\ DOMAIN c = {"req", "st", "res"}
      BY <1>6, RequestFields
    <2>2. ~bridge.eof /\ win.open /\ wire' = wire
      BY <1>1, ClicksWhen
    <2>3. v.sent = Append(calls, c)
      BY <1>2, <1>5, <2>1, <2>2 DEF Send, Fit
    <2>4. PICK n : n = Len(calls)
      OBVIOUS
    <2>5. IsCalls(calls) /\ calls' = Append(calls, c)
      BY <1>8, <2>3 DEF Becomes, Asked, Typed
    <2>6. n \in Nat /\ IsCalls(calls') /\ Len(calls') = n + 1 /\ calls'[n + 1] = c
      BY <2>1, <2>4, <2>5, AppendCalls, CallsSeq
    <2>7. n + 1 \in DOMAIN calls'
      BY <2>6, CallsSeq
    <2> QED BY <2>1, <2>2, <2>6, <2>7 DEF Leaving
  <1>10. Early(x.d, x.k)
    BY <1>4, <1>5, NowFit DEF Early
  <1>11. Aware => Waiting /\ (step = "idle" => ~Busy) /\ ~Low(status)
    BY <1>7, <1>9 DEF Asked, Informed, Low
  <1>12. Willing => k = "none" /\ step = "none" /\ flow.step = "none" /\ ~x.k.claim
    <2>1. Willing => "read" \notin faults
      BY DEF Willing
    <2> QED BY <1>1, <1>5, <1>7, <1>9, <2>1, ClicksWhen, NowFit
  <1>13. StoreTurn(k, step)
    BY <1>4, <1>5, <1>7, <1>8, <1>9, <1>10, <1>11, <1>12, NowFit, ChangedTurn DEF Waiting, Waits
  <1> QED BY <1>13

\* A switch of the mode and a reconnect: the store with a new sequence.
LEMMA SequenceTurn ==
  ASSUME Asked, Frame, NEW kind, Clicks(kind), NEW u, Goes(Now(calls), u, "none", flow.step, dash.status), 
         NEW f, DOMAIN f = FlowFields, f.kind \in {"switch", "reconnect"}, f.step = "stop", f.mode \in Modes,
         flow.kind = "none", NEW x, x = [Wish(u, "up") EXCEPT !.f = f],
         \/ Becomes(StopChain(x)) /\ dash.status = "connected"
         \/ Becomes(StartChain(x)) /\ "hasty" \in faults
  PROVE  \E k, step : StoreTurn(k, step)
  <1>1. Fit(u) /\ Still(Now(calls), u) /\ Sent(calls, u.sent, "none") /\ u.d.status = dash.status
    BY NowFit, NowFields DEF Goes
  <1>2. PICK w : w = Wish(u, "up")
    OBVIOUS
  <1>3. Fit(w) /\ w.d = u.d /\ w.k = u.k /\ w.sent = u.sent /\ w.p.refused = u.p.refused /\ w.p.want = "up"
    BY <1>1, <1>2, WishFit
  <1>4. Fit(x) /\ x.d = w.d /\ x.f = f /\ x.k = w.k /\ x.sent = w.sent /\ x.p = w.p
    BY <1>2, <1>3 DEF Fit
  <1>5. /\ x.p.refused = past.refused /\ x.p.want = "up" /\ (x.k.claim => keep.claim) /\ Early(x.d, x.k)
        /\ "read" \notin faults /\ x.d.auto = "fresh" => x.d.reading
    <2>1. win.open
      BY ClicksWhen
    <2> QED BY <1>1, <1>3, <1>4, <2>1, NowFit, NowFields DEF Still, Early
  <1>6. PICK k, step, status, v :
          /\ status = dash.status /\ Becomes(v) /\ Goes(x, v, k, step, status)
          /\ \/ k = "disconnect" /\ step = "stop" /\ dash.status = "connected"
             \/ k = "connect" /\ step = "start" /\ "hasty" \in faults
    <2>1. Goes(x, StopChain(x), "disconnect", "stop", dash.status) /\ Goes(x, StartChain(x), "connect", "start", dash.status)
      BY <1>1, <1>3, <1>4, StopGoes, StartGoes
    <2> QED BY <2>1
  <1>7. Alone /\ win.open /\ wire' = wire
    BY ClicksWhen
  <1>8. Aware => ~Low(status) /\ k = "disconnect" /\ step = "stop" /\ ~keep.claim
    <2>1. "hasty" \in faults => ~Aware
      BY DEF Aware
    <2>2. Aware => Launched /\ Waiting
      BY ClicksWhen DEF Asked, Informed
    <2> QED BY <1>6, <2>1, <2>2, ClicksWhen DEF Waiting, Waits, Low
  <1>9. StoreTurn(k, step)
    BY <1>1, <1>3, <1>4, <1>5, <1>6, <1>7, <1>8, ChangedTurn
  <1> QED BY <1>9

LEMMA ModeTurn == ASSUME Asked, Frame, NEW m \in Modes, ClickMode(m) PROVE \E k, step : StoreTurn(k, step)
  <1>1. PICK u, a, f : /\ a = [mode |-> m] /\ u = Send(Now(calls), "mode", a)
                       /\ f = [kind |-> "switch", step |-> "stop", server |-> dash.server, mode |-> m]
    OBVIOUS
  <1>2. Clicks("modes") /\ Becomes(IF dash.status # "connected" THEN [u EXCEPT !.d.mode = m]
              ELSE IF flow.kind # "none" \/ dash.server = NoServer THEN u
              ELSE StopChain([Wish(u, "up") EXCEPT !.f = f]))
    BY <1>1, Zenon DEF ClickMode
  <1>3. Goes(Now(calls), u, "none", flow.step, dash.status)
    <2>1. DOMAIN a = {"mode"} /\ a.mode = m
      BY <1>1
    <2>2. Goes(Now(calls), u, "none", Now(calls).f.step, Now(calls).d.status)
      BY <1>1, <2>1, SendGoes
    <2> QED BY <2>2, NowFields
  <1>4. ASSUME NEW v, Becomes(v), Goes(Now(calls), v, "none", flow.step, dash.status)
        PROVE  \E k, step : StoreTurn(k, step)
    BY <1>2, <1>4, ClicksWhen, SameTurn
  <1>5. CASE dash.status # "connected"
    <2>1. PICK v : v = [u EXCEPT !.d.mode = m] /\ Becomes(v)
      BY <1>2, <1>5
    <2>2. Fit(u) /\ Still(Now(calls), u) /\ Sent(Now(calls).sent, u.sent, "none") /\ u.f.step = flow.step /\ u.d.status = dash.status
      BY <1>3, NowFit DEF Goes
    <2>3. Fit(v) /\ v.f = u.f /\ v.sent = u.sent /\ v.d.status = u.d.status /\ Still(u, v)
      BY <2>1, <2>2, FieldsAre DEF Fit, Still
    <2>4. Goes(Now(calls), v, "none", flow.step, dash.status)
      BY <2>2, <2>3 DEF Goes, Still
    <2> QED BY <1>4, <2>1, <2>4
  <1>6. CASE dash.status = "connected" /\ (flow.kind # "none" \/ dash.server = NoServer)
    BY <1>2, <1>3, <1>4, <1>6
  <1>7. CASE dash.status = "connected" /\ flow.kind = "none" /\ dash.server # NoServer
    <2>1. PICK x : x = [Wish(u, "up") EXCEPT !.f = f] /\ Becomes(StopChain(x))
      BY <1>2, <1>7
    <2>2. DOMAIN f = FlowFields /\ f.kind = "switch" /\ f.step = "stop" /\ f.mode \in Modes
      BY <1>1, FieldsAre
    <2> QED BY <1>2, <1>3, <1>7, <2>1, <2>2, SequenceTurn
  <1> QED BY <1>5, <1>6, <1>7

LEMMA UserTurn == ASSUME Asked, User PROVE \E k, step : StoreTurn(k, step)
  <1>1. ASSUME NEW kind, Clicks(kind) PROVE Frame
    BY <1>1 DEF Clicks, User, Frame
  <1>2. ASSUME NEW s \in Servers, ClickConnect(s) PROVE \E k, step : StoreTurn(k, step)
    BY <1>1, <1>2, ConnectTurn DEF ClickConnect
  <1>3. CASE ClickDisconnect
    BY <1>1, <1>3, DisconnectTurn DEF ClickDisconnect
  <1>4. ASSUME NEW m \in Modes, ClickMode(m) PROVE \E k, step : StoreTurn(k, step)
    <2>1. Frame
      BY <1>1, <1>4, Zenon DEF ClickMode
    <2> QED BY <1>4, <2>1, ModeTurn
  <1>5. CASE ClickReconnect
    <2>1. PICK f : f = [kind |-> "reconnect", step |-> "stop", server |-> dash.server, mode |-> dash.mode]
      OBVIOUS
    <2>2. PICK x : x = [Wish(Now(calls), "up") EXCEPT !.f = f]
      OBVIOUS
    <2>3. /\ flow.kind = "none" /\ (dash.status = "connected" \/ "hasty" \in faults) /\ Clicks("modes")
          /\ Becomes(IF dash.status = "connected" THEN StopChain(x) ELSE StartChain(x))
      BY <1>5, <2>1, <2>2, Zenon DEF ClickReconnect
    <2>4. DOMAIN f = FlowFields /\ f.kind = "reconnect" /\ f.step = "stop" /\ f.mode \in Modes
      BY <2>1, NowFit, NowFields, FieldsAre DEF Fit
    <2>5. Goes(Now(calls), Now(calls), "none", flow.step, dash.status)
      BY NowFields, GoesSelf
    <2> QED BY <1>1, <2>2, <2>3, <2>4, <2>5, SequenceTurn
  <1>6. ASSUME NEW s \in Servers \cup {NoServer}, ClickProbe(s) PROVE \E k, step : StoreTurn(k, step)
    <2> DEFINE ids == IF s = NoServer THEN dash.servers ELSE {s}
    <2>1. PICK y, a : /\ y = [Now(calls) EXCEPT !.d.probe = [t \in Servers |-> IF t \in ids THEN "probing" ELSE @[t]]]
                      /\ a = [server |-> s, by |-> "user", ids |-> ids]
      OBVIOUS
    <2>2. Clicks("probes") /\ Becomes(Send(y, "probe", a))
      BY <1>6, <2>1, Zenon DEF ClickProbe
    <2>3. Fit(y) /\ y.f = flow /\ y.sent = calls /\ y.d.status = dash.status /\ Still(Now(calls), y)
      BY <2>1, NowFit, NowFields, FieldsAre DEF Fit, Still
    <2>4. DOMAIN a = {"server", "by", "ids"}
      BY <2>1
    <2>5. PICK v : v = Send(y, "probe", a)
      OBVIOUS
    <2>6. Goes(y, v, "none", flow.step, dash.status)
      BY <2>3, <2>4, <2>5, SendGoes
    <2>7. Goes(Now(calls), v, "none", flow.step, dash.status)
      BY <2>3, <2>6, NowFields DEF Goes, Still
    <2>8. StoreTurn("none", flow.step)
      BY <1>1, <2>2, <2>5, <2>7, ClicksWhen, SameTurn
    <2> QED BY <2>8
  <1> QED BY <1>2, <1>3, <1>4, <1>5, <1>6 DEF User

(***************************************************************************)
(* The bridge and the controller work: the store stays as it is.           *)
(***************************************************************************)
Serves ==
  /\ UNCHANGED <<wire, win, faults, dash, flow, keep>> /\ past'.want = past.want /\ DOMAIN past' = DOMAIN past
  /\ IsCalls(calls') /\ Settings' /\ lost \subseteq lost'
  /\ \A j \in DOMAIN calls' :
       /\ \/ j \in DOMAIN calls /\ calls'[j].req = calls[j].req /\ (NewConnect(calls'[j]) => NewConnect(calls[j]))
          \/ calls'[j].req.m \notin StoreMethods /\ calls'[j].req.win = win.gen
       /\ Sound(calls'[j].req, calls'[j].res)
       /\ "read" \notin faults /\ calls'[j].st # "new" => ReadOk(calls'[j])
  /\ Plain(queue') /\ \A a \in DOMAIN queue' : Told(queue'[a])
  /\ Running(ctl') => (Running(ctl) /\ (Leaving => Leaving')) \/ \E i \in DOMAIN calls : NewConnect(calls[i])

\* Nothing in it says of the chain what was not so.
Calm ==
  Aware' =>
    /\ ~past'.refused /\ (ctl'.st = "starting" => ctl.st = "starting")
    /\ Running(ctl') => Running(ctl) /\ (HasUp(queue) => HasUp(queue')) /\ (Rises(queue) => Rises(queue'))
    /\ HasUp(queue') => HasUp(queue) \/ ctl.st = "starting"
    /\ \A j \in DOMAIN calls' : \/ j \in DOMAIN calls /\ calls'[j] = calls[j]
                                \/ calls'[j].req.m \notin StoreMethods
                                \/ CallFits(calls'[j], ctl', win, keep)

LEMMA FitLasts == ASSUME Asked, UNCHANGED <<dash, flow, keep>>, DOMAIN past' = DOMAIN past PROVE Fit(Now(calls))'
  <1>1. PICK u, v : u = Now(calls) /\ v = Now(calls)'
    OBVIOUS
  <1>2. Fit(u) /\ u.d = dash /\ u.f = flow /\ u.k = keep /\ u.p = past
    BY <1>1, NowFit, NowFields
  <1>3. DOMAIN v = {"d", "f", "k", "p", "sent"} /\ v.d = dash' /\ v.f = flow' /\ v.k = keep' /\ v.p = past'
    BY <1>1 DEF Now
  <1>4. Fit(v)
    BY <1>2, <1>3 DEF Fit
  <1> QED BY <1>1, <1>4

LEMMA ServesKeeps ==
  ASSUME Asked, win.gen \in Nat \ {0}, Serves PROVE Typed' /\ Paired' /\ Orders' /\ Started' /\ ReadWell' /\ Obeyed'
  <1>1. /\ UNCHANGED <<wire, win, faults, dash, flow, keep>> /\ past'.want = past.want /\ DOMAIN past' = DOMAIN past
        /\ IsCalls(calls') /\ Settings' /\ Plain(queue') /\ \A a \in DOMAIN queue' : Told(queue'[a])
    BY DEF Serves
  <1>2. \A j \in DOMAIN calls' :
       /\ \/ j \in DOMAIN calls /\ calls'[j].req = calls[j].req /\ (NewConnect(calls'[j]) => NewConnect(calls[j]))
          \/ calls'[j].req.m \notin StoreMethods /\ calls'[j].req.win = win.gen
       /\ Sound(calls'[j].req, calls'[j].res)
       /\ "read" \notin faults /\ calls'[j].st # "new" => ReadOk(calls'[j])
    BY DEF Serves
  <1>3. Typed'
    <2>1. Fit(Now(calls))'
      BY <1>1, FitLasts
    <2>2. \A a \in DOMAIN wire' : Told(wire'[a])
      BY <1>1 DEF Asked, Typed
    <2> QED BY <1>1, <1>2, <2>1, <2>2 DEF Typed, Plain
  <1>4. \A j \in DOMAIN calls' : /\ NewConnect(calls'[j]) => j \in DOMAIN calls /\ NewConnect(calls[j]) /\ calls'[j].req = calls[j].req
                                 /\ InFlow(calls'[j], win.gen) => j \in DOMAIN calls /\ calls'[j].req = calls[j].req
    <2>1. \A x : NewConnect(x) \/ InFlow(x, win.gen) => x.req.m \in StoreMethods
      BY DEF NewConnect, InFlow, IsFlow, StoreMethods
    <2> QED BY <1>2, <2>1
  <1>5. Orders'
    BY <1>1, <1>4 DEF Asked, Orders
  <1>6. Paired'
    <2>1. \A j \in DOMAIN calls' : calls'[j].req.win \in 1..win.gen
      BY <1>2 DEF Asked, Paired
    <2>2. \A j \in DOMAIN calls' : InFlow(calls'[j], win.gen) => j \in DOMAIN calls /\ calls'[j].req = calls[j].req /\ InFlow(calls[j], win.gen)
      BY <1>4 DEF InFlow
    <2>3. /\ win.open => \A j \in DOMAIN calls' : InFlow(calls'[j], win.gen) => flow.step = StepOf(calls'[j].req)
          /\ win.open => \A i, j \in DOMAIN calls' : InFlow(calls'[i], win.gen) /\ InFlow(calls'[j], win.gen) => i = j
          /\ win.open => \A i \in DOMAIN calls', a \in DOMAIN wire :
                           ~(InFlow(calls'[i], win.gen) /\ Answers(wire[a]) /\ InFlow(wire[a], win.gen))
      BY <2>2 DEF Asked, Paired
    <2> QED BY <1>1, <2>1, <2>3 DEF Asked, Paired
  <1>7. Started' /\ ReadWell'
    BY <1>1, <1>2 DEF Asked, Started, ReadWell
  <1>8. Obeyed'
    <2> SUFFICES ASSUME Willing', past'.want = "down" PROVE Obeyed'
      BY DEF Obeyed
    <2>1. /\ flow.step = "none" /\ ~keep.claim /\ \A i \in DOMAIN calls : ~NewConnect(calls[i])
          /\ ctl.st \in {"idle", "stopping"} \/ Leaving
      BY <1>1 DEF Willing, Asked, Obeyed
    <2>2. ctl'.st \in {"idle", "stopping"} \/ Leaving'
      BY <1>1, <2>1 DEF Serves, Settings, Running
    <2> QED BY <1>1, <1>4, <2>1, <2>2 DEF Obeyed
  <1> QED BY <1>3, <1>5, <1>6, <1>7, <1>8

LEMMA CalmInformed == ASSUME Asked, Serves, Calm PROVE Informed'
  <1> SUFFICES ASSUME Aware' PROVE Informed'
    BY DEF Informed
  <1>1. UNCHANGED <<wire, win, faults, dash, flow, keep>> /\ Aware
    BY DEF Serves, Aware
  <1>2. /\ Lit /\ Waiting /\ (win.open /\ flow.step = "idle" => ~Busy)
        /\ \A i \in DOMAIN calls : CallFits(calls[i], ctl, win, keep)
        /\ \A a \in DOMAIN wire : Answers(wire[a]) => LineFits(wire[a], ctl, win, keep)
    BY <1>1 DEF Asked, Informed
  <1>3. /\ ~past'.refused /\ (ctl'.st = "starting" => ctl.st = "starting")
        /\ Running(ctl') => Running(ctl) /\ (HasUp(queue) => HasUp(queue')) /\ (Rises(queue) => Rises(queue'))
        /\ HasUp(queue') => HasUp(queue) \/ ctl.st = "starting"
        /\ \A j \in DOMAIN calls' : \/ j \in DOMAIN calls /\ calls'[j] = calls[j]
                                    \/ calls'[j].req.m \notin StoreMethods
                                    \/ CallFits(calls'[j], ctl', win, keep)
    BY DEF Calm
  <1>4. Lit' /\ (win'.open /\ flow'.step = "idle" => ~Busy')
    BY <1>1, <1>2, <1>3 DEF Lit, Busy
  <1>5. Waiting'
    BY <1>1, <1>2, <1>3 DEF Waiting, Waits, Busy
  <1>6. ASSUME NEW j \in DOMAIN calls' PROVE CallFits(calls'[j], ctl', win', keep')
    <2>1. CASE j \in DOMAIN calls /\ calls'[j] = calls[j]
      BY <1>1, <1>2, <1>3, <2>1, FitsOn
    <2>2. CASE calls'[j].req.m \notin StoreMethods
      BY <2>2 DEF CallFits, StoreMethods, NewConnect, Lowers, Stops, InFlow, IsFlow, IdleSnap
    <2> QED BY <1>1, <1>3, <2>1, <2>2
  <1>7. \A a \in DOMAIN wire' : Answers(wire'[a]) => LineFits(wire'[a], ctl', win', keep')
    BY <1>1, <1>2, <1>3, FitsOn
  <1> QED BY <1>3, <1>4, <1>5, <1>6, <1>7 DEF Informed

LEMMA StageRes == ASSUME Typed, NEW i \in DOMAIN calls, NEW st, NEW res, Stage(i, st, res) PROVE calls'[i].res = res
  <1>1. DOMAIN calls[i] = {"req", "st", "res"}
    BY CallsSeq DEF Typed, IsCalls
  <1> QED BY <1>1 DEF Stage

\* An event, or two, go to the channel.
LEMMA PublishTold ==
  ASSUME Asked, IsList(queue), NEW es, IsList(es), \A n \in DOMAIN es : es[n].topic \in Topics /\ Told(es[n]), Publish(es)
  PROVE  /\ lost \subseteq lost' /\ Plain(queue') /\ \A a \in DOMAIN queue' : Told(queue'[a])
         /\ (\A n \in DOMAIN es : ~Upper(es[n])) => (HasUp(queue') => HasUp(queue))
  <1>1. lost \subseteq lost' /\ \A a \in DOMAIN queue' : (\E b \in DOMAIN queue : queue'[a] = queue[b]) \/ (\E b \in DOMAIN es : queue'[a] = es[b])
    <2>1. Plain(queue)
      BY DEF Asked, Typed
    <2> QED BY <2>1, PublishRises
  <1>2. \A a \in DOMAIN queue : queue[a].topic \in Topics /\ Told(queue[a])
    BY DEF Asked, Typed, Plain
  <1> QED BY <1>1, <1>2 DEF Plain, HasUp

LEMMA ElsewhereServes == ASSUME Asked, IsList(queue), Elsewhere PROVE Serves /\ Calm
  <1>1. UNCHANGED <<wire, win, faults, ctl, dash, flow, keep, past>> /\ Settings' /\ Apart
    BY DEF Elsewhere
  <1>2. /\ IsCalls(calls')
        /\ \A j \in DOMAIN calls : calls[j].req.m \in StoreMethods => j \in DOMAIN calls' /\ calls'[j] = calls[j]
        /\ \A j \in DOMAIN calls' : \/ j \in DOMAIN calls /\ calls'[j].req = calls[j].req
                                    \/ Asks(calls'[j].req) /\ calls'[j].req.win = win.gen
        /\ \A j \in DOMAIN calls' : calls'[j].req.m \in StoreMethods => j \in DOMAIN calls /\ calls'[j] = calls[j]
    BY <1>1 DEF Apart
  <1>3. /\ lost \subseteq lost' /\ Plain(queue') /\ \A a \in DOMAIN queue' : Told(queue'[a])
        /\ HasUp(queue') => HasUp(queue)
        /\ "vpn:status" \notin lost' => (HasUp(queue) => HasUp(queue')) /\ (Rises(queue) => Rises(queue'))
    <2>1. CASE UNCHANGED <<queue, lost>>
      BY <2>1 DEF Asked, Typed, Plain
    <2>2. ASSUME NEW es, NoStatus(es), Publish(es)
          PROVE  <1>3!:
      <3>1. IsList(es) /\ \A n \in DOMAIN es : es[n].topic \in Topics /\ Told(es[n]) /\ ~Upper(es[n])
        BY <2>2 DEF NoStatus, Told, Upper, Topics
      <3>2. "vpn:status" \notin lost' => (HasUp(queue) => HasUp(queue')) /\ (Rises(queue) => Rises(queue'))
        BY <2>2, <3>1, PublishRises DEF Asked, Typed
      <3> QED BY <2>2, <3>1, <3>2, PublishTold
    <2> QED BY <2>1, <2>2 DEF Elsewhere, Muted
  <1>4. ASSUME NEW j \in DOMAIN calls'
        PROVE  /\ \/ j \in DOMAIN calls /\ calls'[j].req = calls[j].req /\ (NewConnect(calls'[j]) => NewConnect(calls[j]))
                  \/ calls'[j].req.m \notin StoreMethods /\ calls'[j].req.win = win.gen
               /\ Sound(calls'[j].req, calls'[j].res)
               /\ "read" \notin faults /\ calls'[j].st # "new" => ReadOk(calls'[j])
    <2>1. CASE calls'[j].req.m \in StoreMethods
      BY <1>2, <2>1 DEF Asked, Typed, ReadWell
    <2>2. CASE calls'[j].req.m \notin StoreMethods
      <3>1. Asks(calls'[j].req)
        BY <1>2 DEF Asked, Typed, Sound
      <3> QED BY <1>2, <2>2, <3>1 DEF Sound, ReadOk, StoreMethods, NewConnect
    <2> QED BY <2>1, <2>2
  <1>5. Leaving => Leaving'
    BY <1>2 DEF Leaving, StoreMethods
  <1>6. Serves
    BY <1>1, <1>2, <1>3, <1>4, <1>5 DEF Serves
  <1>7. Calm
    <2> SUFFICES ASSUME Aware' PROVE Calm
      BY DEF Calm
    <2>1. Aware /\ "vpn:status" \notin lost'
      BY <1>1, <1>3 DEF Aware
    <2>2. ~past.refused
      BY <2>1 DEF Asked, Informed
    <2> QED BY <1>1, <1>2, <1>3, <2>1, <2>2 DEF Calm
  <1> QED BY <1>6, <1>7

\* One call goes on, to a stage or to its end.
LEMMA StageServes ==
  ASSUME Asked, NEW i \in DOMAIN calls, NEW st, NEW res, st # "new", Stage(i, st, res), Sound(calls[i].req, res),
         "read" \notin faults => (calls[i].req.m = "snapshot" => res.ok),
         UNCHANGED <<wire, win, faults, dash, flow, keep>>, past'.want = past.want, DOMAIN past' = DOMAIN past, Settings',
         lost \subseteq lost', Plain(queue'), \A a \in DOMAIN queue' : Told(queue'[a]),
         \/ ~Running(ctl') \/ NewConnect(calls[i])
         \/ Running(ctl) /\ calls[i].req.m = "snapshot"
  PROVE  /\ Serves /\ calls'[i].req = calls[i].req /\ calls'[i].st = st /\ calls'[i].res = res
         /\ \A j \in DOMAIN calls' : j # i => j \in DOMAIN calls /\ calls'[j] = calls[j]
  <1>1. /\ IsCalls(calls') /\ DOMAIN calls' = DOMAIN calls /\ calls'[i].req = calls[i].req /\ calls'[i].st = st
        /\ calls'[i].res = res /\ \A j \in DOMAIN calls : j # i => calls'[j] = calls[j]
    BY StageCalls, StageRes DEF Asked, Typed
  <1>2. \A j \in DOMAIN calls' :
          /\ j \in DOMAIN calls /\ calls'[j].req = calls[j].req /\ (NewConnect(calls'[j]) => NewConnect(calls[j]))
          /\ Sound(calls'[j].req, calls'[j].res)
          /\ "read" \notin faults /\ calls'[j].st # "new" => ReadOk(calls'[j])
    <2> TAKE j \in DOMAIN calls'
    <2>1. CASE j = i
      BY <1>1, <2>1 DEF NewConnect, ReadOk
    <2>2. CASE j # i
      BY <1>1, <2>2 DEF Asked, Typed, ReadWell
    <2> QED BY <2>1, <2>2
  <1>3. calls[i].req.m = "snapshot" => (Leaving => Leaving')
    BY <1>1 DEF Leaving
  <1> QED BY <1>1, <1>2, <1>3 DEF Serves

\* The status that a snapshot holds is "connected" while the chain is up.
LEMMA SnapshotServes ==
  ASSUME Asked, NEW i \in DOMAIN calls, GetSnapshot(i) \/ SnapshotEnds(i), UNCHANGED <<wire, win, faults>>
  PROVE  Serves /\ Calm
  <1>1. calls[i].req.m = "snapshot" /\ UNCHANGED <<queue, lost, ctl, cfg, dash, flow, keep, past>>
    BY DEF GetSnapshot, SnapshotEnds, Runs, dashv
  <1>2. Settings' /\ (Running(ctl') => Running(ctl)) /\ Plain(queue') /\ \A a \in DOMAIN queue' : Told(queue'[a])
    BY <1>1 DEF Asked, Typed, Settings, Plain
  <1>3. PICK st, res :
          /\ Stage(i, st, res) /\ st # "new" /\ Sound(calls[i].req, res) /\ ("read" \notin faults => res.ok)
          /\ Aware => st = "done" /\ (Running(ctl) /\ res.ok => res.val.status = "connected")
    <2>1. CASE GetSnapshot(i) /\ "read" \in faults /\ Finish(i, Failed)
      <3>1. Failed.ok = FALSE
        BY DEF Failed
      <3>2. Sound(calls[i].req, Failed)
        BY <3>1 DEF Asked, Typed, Sound
      <3> QED BY <2>1, <3>1, <3>2 DEF Finish
    <2>2. CASE GetSnapshot(i) /\ ~("read" \in faults /\ Finish(i, Failed))
      <3>1. PICK st, res, val, c : /\ Stage(i, st, res) /\ res = Value(val) /\ c = CtlStatus
                                   /\ val = [status |-> c.status, server |-> c.server, mode |-> c.mode, servers |-> Listed,
                                             measured |-> measured \cap Listed, may |-> cfg.auto /\ cfg.helper]
                                   /\ st = IF "slow" \in faults THEN "mid" ELSE "done"
        BY <2>2, Zenon DEF GetSnapshot
      <3>2. c.status \in Statuses /\ c.mode \in Modes /\ (Running(ctl) => c.status = "connected")
        BY <3>1 DEF CtlStatus, Statuses, Running, Asked, Typed, Settings
      <3>3. val.status = c.status /\ val.mode = c.mode
        BY <3>1
      <3>4. res.ok = TRUE /\ res.val = val
        BY <3>1 DEF Value
      <3>5. Sound(calls[i].req, res)
        BY <3>2, <3>3, <3>4 DEF Asked, Typed, Sound
      <3> QED BY <3>1, <3>2, <3>3, <3>4, <3>5 DEF Aware
    <2>3. CASE SnapshotEnds(i)
      <3>1. Stage(i, "done", calls[i].res) /\ calls[i].st = "mid"
        BY <2>3 DEF SnapshotEnds, Finish, Runs
      <3>2. Sound(calls[i].req, calls[i].res) /\ ("read" \notin faults => calls[i].res.ok)
        BY <1>1, <3>1 DEF Asked, Typed, ReadWell, ReadOk
      <3>3. ~Aware
        BY <1>1, <3>1 DEF Asked, Informed, CallFits
      <3> QED BY <3>1, <3>2, <3>3
    <2> QED BY <2>1, <2>2, <2>3
  <1>4. /\ Serves /\ calls'[i].req = calls[i].req /\ calls'[i].st = st /\ calls'[i].res = res
        /\ \A j \in DOMAIN calls' : j # i => j \in DOMAIN calls /\ calls'[j] = calls[j]
    BY <1>1, <1>2, <1>3, StageServes
  <1>5. ASSUME Aware PROVE ~past.refused /\ CallFits(calls'[i], ctl', win, keep)
    BY <1>1, <1>3, <1>4, <1>5 DEF Asked, Informed, CallFits, NewConnect, Lowers, Low, Stops, InFlow, IsFlow, IdleSnap
  <1>6. Aware' => Aware
    BY <1>1 DEF Aware
  <1> QED BY <1>1, <1>4, <1>5, <1>6 DEF Calm

LEMMA OneList == ASSUME NEW x PROVE IsList(<<x>>) /\ Len(<<x>>) = 1 /\ DOMAIN <<x>> = {1} /\ <<x>>[1] = x
  <1>1. PICK s : s = <<x>>
    OBVIOUS
  <1>2. s \in Seq({x}) /\ Len(s) = 1 /\ DOMAIN s = {1} /\ s[1] = x
    BY <1>1
  <1>3. IsList(s)
    BY <1>2 DEF IsList
  <1> QED BY <1>1, <1>2, <1>3

LEMMA PublishOne ==
  ASSUME Asked, IsList(queue), NEW x, x.topic = "vpn:status", IsStatus(x), Publish(<<x>>)
  PROVE  /\ lost \subseteq lost' /\ Plain(queue') /\ \A a \in DOMAIN queue' : Told(queue'[a])
         /\ ~Upper(x) => (HasUp(queue') => HasUp(queue))
         /\ bridge.fwd /\ Upper(x) /\ "vpn:status" \notin lost' => HasUp(queue') /\ Rises(queue')
         /\ ~bridge.fwd => queue' = queue
  <1>1. PICK es : es = <<x>> /\ IsList(es) /\ Len(es) = 1 /\ DOMAIN es = {1} /\ es[1] = x
    BY OneList
  <1>2. \A n \in DOMAIN es : es[n].topic \in Topics /\ Told(es[n])
    BY <1>1 DEF Topics, Told
  <1>3. bridge.fwd /\ Upper(x) /\ "vpn:status" \notin lost' => HasUp(queue') /\ Rises(queue')
    BY <1>1, PublishRises DEF Asked, Typed
  <1>4. ~bridge.fwd => queue' = queue
    BY DEF Publish
  <1>5. Publish(es)
    BY <1>1
  <1> QED BY <1>1, <1>2, <1>3, <1>4, <1>5, PublishTold


\* The steps that leave the controller down, with what they publish.
LEMMA DownServes ==
  ASSUME Asked, IsList(queue), UNCHANGED <<wire, win, faults, dash, flow, keep, past>>,
         ~Running(ctl'), ctl'.st # "starting", Settings', NEW es, IsList(es), Publish(es),
         \A n \in DOMAIN es : es[n].topic \in Topics /\ Told(es[n]) /\ ~Upper(es[n]),
         \/ calls' = calls
         \/ \E i \in DOMAIN calls, st \in {"mid", "done"} : \E res : calls[i].req.m = "disconnect" /\ Stage(i, st, res)
  PROVE  Serves /\ Calm
  <1>1. lost \subseteq lost' /\ Plain(queue') /\ (\A a \in DOMAIN queue' : Told(queue'[a])) /\ (HasUp(queue') => HasUp(queue))
    BY PublishTold
  <1>2. ASSUME Aware' PROVE Aware
    BY <1>1, <1>2 DEF Aware
  <1>3. CASE calls' = calls
    <2>1. Serves
      BY <1>1, <1>3 DEF Serves, Asked, Typed, ReadWell
    <2>2. Calm
      BY <1>1, <1>2, <1>3 DEF Calm, Asked, Informed
    <2> QED BY <2>1, <2>2
  <1>4. CASE \E i \in DOMAIN calls, st \in {"mid", "done"} : \E res : calls[i].req.m = "disconnect" /\ Stage(i, st, res)
    <2>1. PICK i \in DOMAIN calls : \E st \in {"mid", "done"} : \E res : calls[i].req.m = "disconnect" /\ Stage(i, st, res)
      BY <1>4
    <2>2. PICK st, res : calls[i].req.m = "disconnect" /\ Stage(i, st, res) /\ st \in {"mid", "done"}
      BY <2>1
    <2>3. Sound(calls[i].req, res)
      BY <2>2 DEF Asked, Typed, Sound
    <2>4. /\ Serves /\ calls'[i].req = calls[i].req /\ calls'[i].st = st
          /\ \A j \in DOMAIN calls' : j # i => j \in DOMAIN calls /\ calls'[j] = calls[j]
      BY <1>1, <2>2, <2>3, StageServes
    <2>5. ASSUME Aware PROVE ~past.refused /\ CallFits(calls'[i], ctl', win, keep)
      BY <2>2, <2>4, <2>5 DEF Asked, Informed, CallFits, IdleSnap
    <2> QED BY <1>1, <1>2, <2>4, <2>5 DEF Calm
  <1> QED BY <1>3, <1>4

LEMMA StatusIs == ASSUME NEW st \in Statuses \ {"connected"} PROVE Status(st).topic = "vpn:status" /\ Status(st).status = st /\ IsStatus(Status(st))
  BY DEF Status, IsStatus

LEMMA DisconnectServes ==
  ASSUME Asked, IsList(queue), NEW i \in DOMAIN calls, Disconnect(i) \/ DisconnectEnds(i), UNCHANGED <<wire, win, faults>>
  PROVE  Serves /\ Calm
  <1>1. calls[i].req.m = "disconnect" /\ UNCHANGED <<dash, flow, keep, past, cfg>> /\ Settings
    BY DEF Disconnect, DisconnectEnds, Runs, Asked, Typed
  <1>2. PICK es : /\ Publish(es) /\ (es = <<>> \/ \E st \in {"idle", "error", "disconnecting"} : es = <<Status(st)>>)
                  /\ ~Running(ctl') /\ ctl'.st # "starting" /\ Settings'
                  /\ \E st \in {"mid", "done"} : \E res : Stage(i, st, res)
    <2>1. CASE ctl.st = "idle" /\ Finish(i, Fine) /\ UNCHANGED ctl /\ Publish(<<>>)
      BY <1>1, <2>1 DEF Finish, Running, Settings
    <2>2. CASE /\ ctl' = [ctl EXCEPT !.st = "stopping", !.pending = FALSE, !.server = NoServer]
               /\ Publish(<<Status("disconnecting")>>) /\ Stage(i, "mid", Failed)
      BY <1>1, <2>2 DEF Running, Settings
    <2>3. CASE ctl' = [ctl EXCEPT !.st = "idle"] /\ Publish(<<Status("idle")>>) /\ Finish(i, Fine)
      BY <1>1, <2>3 DEF Finish, Running, Settings
    <2>4. CASE ctl' = [ctl EXCEPT !.st = "idle", !.pending = TRUE] /\ Publish(<<Status("error")>>) /\ Finish(i, Failed)
      BY <1>1, <2>4 DEF Finish, Running, Settings
    <2> QED BY <2>1, <2>2, <2>3, <2>4, Zenon DEF Disconnect, DisconnectEnds
  <1>3. IsList(es) /\ \A n \in DOMAIN es : es[n].topic \in Topics /\ Told(es[n]) /\ ~Upper(es[n])
    <2>1. CASE es = <<>>
      BY <2>1, NoStatusNone DEF NoStatus
    <2>2. ASSUME NEW st \in {"idle", "error", "disconnecting"}, es = <<Status(st)>>
          PROVE  <1>3!:
      <3>1. Status(st).topic = "vpn:status" /\ Status(st).status = st /\ IsStatus(Status(st))
        BY StatusIs DEF Statuses
      <3>2. IsList(es) /\ DOMAIN es = {1} /\ es[1] = Status(st)
        BY <2>2, OneList
      <3> QED BY <3>1, <3>2 DEF Topics, Told, Upper
    <2> QED BY <1>2, <2>1, <2>2
  <1>4. Serves /\ Calm
    BY <1>1, <1>2, <1>3, DownServes
  <1> QED BY <1>4

LEMMA DropServes ==
  ASSUME Asked, IsList(queue), BringUpFails \/ ChainDrops, UNCHANGED <<wire, win, faults>>
  PROVE  Serves /\ Calm
  <1>1. UNCHANGED <<calls, dash, flow, keep, past, cfg>> /\ Settings
    BY DEF BringUpFails, ChainDrops, Asked, Typed
  <1>2. PICK es, st : /\ es = <<ChainError, Status(st)>> /\ st \in {"error", "idle"} /\ Publish(es)
                      /\ ~Running(ctl') /\ ctl'.st # "starting" /\ Settings'
    <2>1. CASE BringUpFails
      <3>1. PICK st : st = IF ctl.pending THEN "error" ELSE "idle"
        OBVIOUS
      <3>2. Publish(<<ChainError, Status(st)>>) /\ ctl' = [ctl EXCEPT !.st = "idle", !.server = NoServer]
        BY <2>1, <3>1 DEF BringUpFails
      <3> QED BY <1>1, <3>1, <3>2 DEF Running, Settings
    <2>2. CASE ChainDrops
      <3>1. PICK p \in BOOLEAN : /\ ctl' = [ctl EXCEPT !.st = "idle", !.server = NoServer, !.pending = p]
                                 /\ Publish(<<ChainError, Status(IF p THEN "error" ELSE "idle")>>)
        BY <2>2 DEF ChainDrops
      <3>2. PICK st : st = IF p THEN "error" ELSE "idle"
        OBVIOUS
      <3>3. Publish(<<ChainError, Status(st)>>)
        BY <3>1, <3>2
      <3> QED BY <1>1, <3>1, <3>2, <3>3 DEF Running, Settings
    <2> QED BY <2>1, <2>2
  <1>3. PICK x, y : x = ChainError /\ y = Status(st)
    OBVIOUS
  <1>4. x.topic = "chain:error" /\ y.topic = "vpn:status" /\ y.status = st /\ IsStatus(y)
    BY <1>2, <1>3, StatusIs DEF Statuses, ChainError
  <1>5. es \in Seq({x, y}) /\ DOMAIN es = {1, 2} /\ es[1] = x /\ es[2] = y
    BY <1>2, <1>3
  <1>6. IsList(es) /\ \A n \in DOMAIN es : es[n].topic \in Topics /\ Told(es[n]) /\ ~Upper(es[n])
    BY <1>2, <1>4, <1>5 DEF IsList, Topics, Told, Upper
  <1>7. Serves /\ Calm
    BY <1>1, <1>2, <1>6, DownServes
  <1> QED BY <1>7

\* The chain has come up.
LEMMA UpServes == ASSUME Asked, IsList(queue), BringUpDone, UNCHANGED <<wire, win, faults>> PROVE Serves /\ Calm
  <1>1. PICK x : x = ConnectedTo(ctl.server, ctl.mode)
    OBVIOUS
  <1>2. UNCHANGED <<calls, dash, flow, keep, past, cfg>> /\ Settings /\ ctl.st = "starting" /\ Publish(<<x>>)
    BY <1>1 DEF BringUpDone, Asked, Typed
  <1>3. Settings' /\ ctl'.st = "up"
    BY <1>2 DEF BringUpDone, Settings
  <1>4. x.topic = "vpn:status" /\ IsStatus(x) /\ Upper(x)
    BY <1>1, <1>2 DEF ConnectedTo, IsStatus, Statuses, Upper, Settings
  <1>5. /\ lost \subseteq lost' /\ Plain(queue') /\ \A a \in DOMAIN queue' : Told(queue'[a])
        /\ "vpn:status" \notin lost' => (HasUp(queue) => HasUp(queue')) /\ (Rises(queue) => Rises(queue'))
    BY <1>2, <1>4, PublishOne
  <1>6. Serves
    <2>1. /\ IsCalls(calls') /\ (Leaving => Leaving')
          /\ \A j \in DOMAIN calls' : /\ Sound(calls'[j].req, calls'[j].res)
                                      /\ "read" \notin faults /\ calls'[j].st # "new" => ReadOk(calls'[j])
      BY <1>2 DEF Asked, Typed, ReadWell, Leaving
    <2> QED BY <1>2, <1>3, <1>5, <2>1 DEF Serves, Running
  <1>7. ASSUME Aware' PROVE Aware /\ "vpn:status" \notin lost'
    BY <1>5, <1>7 DEF Aware
  <1>8. Calm
    BY <1>2, <1>3, <1>5, <1>7 DEF Calm, Asked, Informed, Running
  <1> QED BY <1>6, <1>8

\* A Connect, refused or begun.
LEMMA ConnectServes ==
  ASSUME Asked, IsList(queue), Draining, NEW i \in DOMAIN calls, Connect(i), UNCHANGED <<wire, win, faults>>
  PROVE  Serves /\ Informed'
  <1>1. /\ calls[i].req.m = "connect" /\ calls[i].st = "new" /\ NewConnect(calls[i]) /\ Prompt
        /\ UNCHANGED <<dash, flow, keep, cfg>> /\ Settings /\ Fit(Now(calls))
    BY DEF Connect, Runs, Asked, Typed, NewConnect
  <1>2. past' = [past EXCEPT !.refused = @ \/ ctl.st \in {"starting", "up"}]
    BY DEF Connect
  <1>3. past'.want = past.want /\ DOMAIN past' = DOMAIN past /\ (~Busy /\ ~past.refused => ~past'.refused)
    <2>1. {"want", "refused"} \subseteq DOMAIN past
      BY <1>1, NowFields DEF Fit
    <2>2. PICK r : r = (past.refused \/ ctl.st \in {"starting", "up"}) /\ past' = [past EXCEPT !.refused = r]
      BY <1>2
    <2>3. past'.want = past.want /\ DOMAIN past' = DOMAIN past /\ past'.refused = r
      BY <2>1, <2>2
    <2>4. ~Busy /\ ~past.refused => r = FALSE
      BY <2>2 DEF Busy, Running
    <2> QED BY <2>3, <2>4
  <1>4. Asks(calls[i].req) /\ \A res : Sound(calls[i].req, res)
    BY <1>1 DEF Asked, Typed, Sound
  <1>5. ASSUME Aware PROVE ~Busy /\ ~past.refused /\ ~keep.claim
    <2>1. CallFits(calls[i], ctl, win, keep) /\ IsFlow(calls[i].req)
      BY <1>1, <1>4, <1>5, ConnectFlows DEF Asked, Informed
    <2> QED BY <1>1, <1>5, <2>1 DEF CallFits, Busy, Asked, Informed
  <1>6. CASE (Busy \/ calls[i].req.server \notin Listed) /\ Finish(i, Failed) /\ UNCHANGED ctl /\ Publish(<<>>)
    <2>1. IsList(<<>>) /\ DOMAIN <<>> = {}
      BY NoStatusNone DEF NoStatus
    <2>2. lost \subseteq lost' /\ Plain(queue') /\ (\A a \in DOMAIN queue' : Told(queue'[a])) /\ (HasUp(queue') => HasUp(queue))
      BY <1>6, <2>1, PublishTold
    <2>3. Settings'
      BY <1>1, <1>6 DEF Settings
    <2>4. /\ Serves /\ calls'[i].req = calls[i].req /\ calls'[i].st = "done" /\ calls'[i].res = Failed
          /\ \A j \in DOMAIN calls' : j # i => j \in DOMAIN calls /\ calls'[j] = calls[j]
      BY <1>1, <1>3, <1>4, <1>6, <2>2, <2>3, StageServes DEF Finish
    <2>5. ASSUME Aware' PROVE Aware
      BY <2>2, <2>5 DEF Aware
    <2>6. ASSUME Aware PROVE CallFits(calls'[i], ctl', win, keep)
      BY <1>1, <1>5, <1>6, <2>4, <2>6 DEF CallFits, Busy, IdleSnap
    <2>7. Calm
      BY <1>3, <1>5, <1>6, <2>2, <2>4, <2>5, <2>6 DEF Calm, Busy
    <2> QED BY <2>4, <2>7, CalmInformed
  <1>7. CASE /\ ~Busy /\ ctl' = [ctl EXCEPT !.st = "starting", !.server = calls[i].req.server, !.mode = calls[i].req.mode]
             /\ Publish(<<Status("connecting")>>) /\ Finish(i, Fine)
    <2>1. PICK x : x = Status("connecting")
      OBVIOUS
    <2>2. x.topic = "vpn:status" /\ IsStatus(x) /\ Upper(x) /\ Publish(<<x>>)
      BY <1>7, <2>1, StatusIs DEF Statuses, Upper
    <2>3. bridge.fwd
      <3>1. DOMAIN <<>> = {}
        OBVIOUS
      <3> QED BY <3>1 DEF Draining
    <2>4. /\ lost \subseteq lost' /\ Plain(queue') /\ \A a \in DOMAIN queue' : Told(queue'[a])
          /\ "vpn:status" \notin lost' => HasUp(queue') /\ Rises(queue')
      BY <2>2, <2>3, PublishOne
    <2>5. Settings' /\ ctl'.st = "starting"
      BY <1>1, <1>4, <1>7 DEF Settings, Asks
    <2>6. /\ Serves /\ calls'[i].req = calls[i].req /\ calls'[i].st = "done" /\ calls'[i].res = Fine
          /\ \A j \in DOMAIN calls' : j # i => j \in DOMAIN calls /\ calls'[j] = calls[j]
      BY <1>1, <1>3, <1>4, <1>7, <2>4, <2>5, StageServes DEF Finish
    <2>7. Informed'
      <3> SUFFICES ASSUME Aware' PROVE Informed'
        BY DEF Informed
      <3>1. Aware /\ "vpn:status" \notin lost' /\ "lag" \notin faults
        BY <2>4 DEF Aware
      <3>2. ~past'.refused /\ ~keep'.claim
        BY <1>1, <1>3, <1>5, <3>1
      <3>3. win.open => InFlow(calls[i], win.gen) /\ flow.step = "start"
        BY <1>1, <3>1, NewConnectFlows DEF Asked, Paired
      <3>4. Lit' /\ Waiting'
        BY <2>4, <3>1, <3>2 DEF Lit, Waiting
      <3>5. ASSUME NEW j \in DOMAIN calls' PROVE CallFits(calls'[j], ctl', win', keep')
        <4>1. CASE j = i
          <5>1. Fine.ok = TRUE
            BY DEF Fine, Value
          <5> QED BY <1>1, <2>6, <3>2, <4>1, <5>1 DEF CallFits, NewConnect, Lowers, Stops
        <4>2. CASE j # i
          <5>1. j \in DOMAIN calls /\ calls'[j] = calls[j]
            BY <2>6, <4>2
          <5>2. ~NewConnect(calls[j]) /\ calls[j].st # "done"
            BY <1>1, <3>1, <4>2, <5>1 DEF Asked, Orders, Prompt
          <5>3. CallFits(calls[j], ctl, win, keep)
            BY <3>1, <5>1 DEF Asked, Informed
          <5> QED BY <3>2, <5>1, <5>2, <5>3 DEF CallFits
        <4> QED BY <4>1, <4>2
      <3>6. ASSUME NEW a \in DOMAIN wire', Answers(wire'[a]) PROVE LineFits(wire'[a], ctl', win', keep')
        <4>1. ~(win.open /\ Stops(wire[a], win.gen))
          BY <3>3, <3>6 DEF Asked, Paired, Stops
        <4> QED BY <3>2, <4>1 DEF LineFits
      <3> QED BY <1>1, <3>2, <3>3, <3>4, <3>5, <3>6 DEF Informed
    <2> QED BY <2>6, <2>7
  <1> QED BY <1>6, <1>7, Zenon DEF Connect, Busy, Running

\* Drain: an event goes from the channel to the output.
LEMMA ForwardAsked ==
  ASSUME Asked, IsList(queue), IsList(wire), Forward, UNCHANGED dashv
  PROVE  Asked'
  <1>1. Takes(queue, queue') /\ Head(queue) = queue[1] /\ 1 \in DOMAIN queue
    BY TailTakes DEF Forward, Takes
  <1>2. UNCHANGED <<calls, lost, win, faults, ctl, cfg, dash, flow, keep, past>>
    BY DEF Forward, dashv
  <1>3. PICK x : x = queue[1]
    OBVIOUS
  <1>4. x.topic \in Topics /\ Told(x)
    BY <1>1, <1>3 DEF Asked, Typed, Plain
  <1>5. ~Answers(x) /\ Puts(wire, wire', x)
    BY <1>1, <1>3, <1>4, AppendPuts DEF Forward, Answers, Topics
  <1>6. \A a \in DOMAIN wire' : \/ a \in DOMAIN wire /\ wire'[a] = wire[a]
                                \/ wire'[a] = x
    <2>1. PICK n : n = Len(wire)
      OBVIOUS
    <2>2. n \in Nat /\ DOMAIN wire = 1..n /\ DOMAIN wire' = 1..(n + 1) /\ wire'[n + 1] = x /\ \A i \in 1..n : wire'[i] = wire[i]
      BY <1>5, <2>1 DEF Puts
    <2>3. \A a \in 1..(n + 1) : a \in 1..n \/ a = n + 1
      BY <2>2
    <2> QED BY <2>2, <2>3
  <1>7. \A a \in DOMAIN queue' : \E b \in DOMAIN queue : queue'[a] = queue[b]
    <2>1. PICK n : n = Len(queue)
      OBVIOUS
    <2>2. n \in Nat /\ DOMAIN queue = 1..n /\ DOMAIN queue' = 1..(n - 1) /\ \A a \in 1..(n - 1) : queue'[a] = queue[a + 1]
      BY <1>1, <2>1 DEF Takes
    <2>3. \A a \in 1..(n - 1) : a + 1 \in 1..n
      BY <2>2
    <2> QED BY <2>2, <2>3
  <1>8. Fit(Now(calls))'
    BY <1>2, FitLasts
  <1>9. Typed'
    <2>1. Settings'
      BY <1>2 DEF Asked, Typed, Settings
    <2> QED BY <1>2, <1>4, <1>6, <1>7, <1>8, <2>1 DEF Asked, Typed, Plain
  <1>10. Paired' /\ Orders' /\ Started' /\ ReadWell' /\ Obeyed'
    BY <1>2, <1>5, <1>6 DEF Asked, Paired, Orders, Started, ReadWell, Obeyed, Leaving, Willing
  <1>11. Informed'
    <2> SUFFICES ASSUME Aware' PROVE Informed'
      BY DEF Informed
    <2>1. Aware
      BY <1>2 DEF Aware
    <2>2. Lit /\ Waiting
      BY <2>1 DEF Asked, Informed
    <2>3. /\ HasUp(queue) => Upper(x) \/ HasUp(queue')
          /\ HasUp(queue') => HasUp(queue)
          /\ Rises(queue) => Rises(queue') /\ (Down(x) => HasUp(queue'))
      BY <1>1, <1>3, TakesRise
    <2>4. /\ HasUp(wire') <=> HasUp(wire) \/ Upper(x)
          /\ Rises(wire) /\ ~Down(x) => Rises(wire')
          /\ Upper(x) => Rises(wire')
      BY <1>5, PutsRise
    <2>5. Lit'
      BY <1>2, <2>2, <2>3, <2>4 DEF Lit, Busy
    <2>6. Upper(x) => HasUp(queue)
      BY <1>1, <1>3 DEF HasUp
    <2>7. Waiting'
      BY <1>2, <2>2, <2>3, <2>4, <2>6 DEF Waiting, Waits, Busy
    <2>8. \A a \in DOMAIN wire' : Answers(wire'[a]) => a \in DOMAIN wire /\ wire'[a] = wire[a]
      BY <1>5, <1>6
    <2> QED BY <1>2, <2>1, <2>5, <2>7, <2>8 DEF Asked, Informed, Busy
  <1> QED BY <1>9, <1>10, <1>11 DEF Asked

\* The answer of a handler goes to the output.
LEMMA AnswerAsked ==
  ASSUME Asked, IsList(wire), NEW i \in DOMAIN calls, WriteAnswer(i), UNCHANGED dashv
  PROVE  Asked'
  <1>1. UNCHANGED <<queue, lost, win, faults, ctl, cfg, dash, flow, keep, past>> /\ calls[i].st = "done"
    BY DEF WriteAnswer, dashv
  <1>2. PICK x : x = [topic |-> "answer", req |-> calls[i].req, res |-> calls[i].res]
    OBVIOUS
  <1>3. x.topic = "answer" /\ Answers(x) /\ x.req = calls[i].req /\ x.res = calls[i].res /\ Puts(wire, wire', x)
    BY <1>2, AppendPuts DEF WriteAnswer, Answers
  <1>4. PICK n : n = Len(wire)
    OBVIOUS
  <1>5. n \in Nat /\ DOMAIN wire = 1..n /\ DOMAIN wire' = 1..(n + 1) /\ wire'[n + 1] = x /\ \A a \in 1..n : wire'[a] = wire[a]
    BY <1>3, <1>4 DEF Puts
  <1>6. \A a \in DOMAIN wire' : (a \in DOMAIN wire /\ wire'[a] = wire[a]) \/ (a = n + 1 /\ wire'[a] = x)
    <2>1. \A a \in 1..(n + 1) : a \in 1..n \/ a = n + 1
      BY <1>5
    <2> QED BY <1>5, <2>1
  <1> DEFINE at(j) == IF j < i THEN j ELSE j + 1
  <1>7. /\ IsCalls(calls')
        /\ \A j \in DOMAIN calls' : at(j) \in DOMAIN calls /\ at(j) # i /\ calls'[j] = calls[at(j)]
        /\ \A j, l \in DOMAIN calls' : at(j) = at(l) => j = l
        /\ \A k \in DOMAIN calls : k # i => \E j \in DOMAIN calls' : calls'[j] = calls[k]
    <2>1. PICK m : m = Len(calls)
      OBVIOUS
    <2>2. IsCalls(calls) /\ m \in Nat /\ DOMAIN calls = 1..m /\ calls' = RemoveAt(calls, i) /\ i \in 1..m
      BY <2>1, CallsSeq DEF WriteAnswer, Asked, Typed
    <2>3. IsCalls(calls') /\ Len(calls') = m - 1 /\ \A j \in 1..(m - 1) : calls'[j] = calls[at(j)]
      BY <2>1, <2>2, RemoveCalls
    <2>4. DOMAIN calls' = 1..(m - 1)
      BY <2>3, CallsSeq
    <2>5. /\ \A j \in 1..(m - 1) : at(j) \in 1..m /\ at(j) # i
          /\ \A j, l \in 1..(m - 1) : at(j) = at(l) => j = l
          /\ \A k \in 1..m : k # i => \E j \in 1..(m - 1) : at(j) = k
      <3>1. \A k \in 1..m : k # i => \/ k \in 1..(m - 1) /\ at(k) = k
                                     \/ k - 1 \in 1..(m - 1) /\ at(k - 1) = k
        BY <2>2
      <3> QED BY <2>2, <3>1
    <2> HIDE DEF at
    <2> QED BY <2>2, <2>3, <2>4, <2>5
  <1> HIDE DEF at
  <1>8. \A j \in DOMAIN calls' : \E k \in DOMAIN calls : k # i /\ calls'[j] = calls[k]
    BY <1>7
  <1>9. Sound(x.req, x.res) /\ ("read" \notin faults => ReadOk(x))
    BY <1>1, <1>3 DEF Asked, Typed, ReadWell, ReadOk
  <1>10. Typed' /\ ReadWell' /\ Started'
    <2>1. Fit(Now(calls))'
      BY <1>1, FitLasts
    <2>2. Settings'
      BY <1>1 DEF Asked, Typed, Settings
    <2>3. \A a \in DOMAIN wire' : Told(wire'[a])
      BY <1>3, <1>6, <1>9 DEF Asked, Typed, Told
    <2>4. ReadWell'
      BY <1>1, <1>6, <1>8, <1>9 DEF Asked, ReadWell
    <2> QED BY <1>1, <1>7, <1>8, <2>1, <2>2, <2>3, <2>4 DEF Asked, Typed, Plain, Started
  <1>11. Paired'
    <2> DEFINE F(c) == InFlow(c, win.gen)
               G(e) == Answers(e) /\ InFlow(e, win.gen)
    <2>1. F(x) <=> F(calls[i])
      BY <1>3 DEF InFlow
    <2>2. /\ \A j \in DOMAIN calls' : calls'[j].req.win \in 1..win.gen
          /\ \A a \in DOMAIN wire' : Answers(wire'[a]) => wire'[a].req.win \in 1..win.gen
      BY <1>3, <1>6, <1>8 DEF Asked, Paired
    <2>3. ASSUME win.open
          PROVE  /\ \A j \in DOMAIN calls' : F(calls'[j]) => flow.step = StepOf(calls'[j].req)
                 /\ \A a \in DOMAIN wire' : G(wire'[a]) => flow.step = StepOf(wire'[a].req)
                 /\ \A j, l \in DOMAIN calls' : F(calls'[j]) /\ F(calls'[l]) => j = l
                 /\ \A a, b \in DOMAIN wire' : G(wire'[a]) /\ G(wire'[b]) => a = b
                 /\ \A j \in DOMAIN calls', a \in DOMAIN wire' : ~(F(calls'[j]) /\ G(wire'[a]))
      <3>1. /\ \A j \in DOMAIN calls : F(calls[j]) => flow.step = StepOf(calls[j].req)
            /\ \A a \in DOMAIN wire : G(wire[a]) => flow.step = StepOf(wire[a].req)
            /\ \A j, l \in DOMAIN calls : F(calls[j]) /\ F(calls[l]) => j = l
            /\ \A a, b \in DOMAIN wire : G(wire[a]) /\ G(wire[b]) => a = b
            /\ \A j \in DOMAIN calls, a \in DOMAIN wire : ~(F(calls[j]) /\ G(wire[a]))
        BY <2>3 DEF Asked, Paired
      <3>2. G(x) => F(calls[i]) /\ StepOf(x.req) = StepOf(calls[i].req)
        BY <1>3, <2>1
      <3> HIDE DEF F, G
      <3> QED BY <1>6, <1>7, <3>1, <3>2
    <2> QED BY <1>1, <2>2, <2>3 DEF Asked, Paired
  <1>12. Orders'
    BY <1>1, <1>7, <1>8 DEF Asked, Orders
  <1>13. Obeyed'
    <2>1. Leaving => Leaving'
      BY <1>1, <1>7 DEF Leaving
    <2> QED BY <1>1, <1>8, <2>1 DEF Asked, Obeyed, Willing
  <1>14. Informed'
    <2> SUFFICES ASSUME Aware' PROVE Informed'
      BY DEF Informed
    <2>1. Aware
      BY <1>1 DEF Aware
    <2>2. /\ Lit /\ Waiting /\ ~past.refused /\ (win.open /\ flow.step = "idle" => ~Busy)
          /\ CallFits(calls[i], ctl, win, keep)
      BY <2>1 DEF Asked, Informed
    <2>3. LineFits(x, ctl, win, keep) /\ (Busy => ~Down(x)) /\ ~Upper(x)
      BY <1>1, <1>3, <2>2 DEF CallFits, LineFits, Stops, InFlow, IdleSnap, Lowers, Down, Upper, Busy
    <2>4. /\ HasUp(wire') <=> HasUp(wire) \/ Upper(x)
          /\ Rises(wire) /\ ~Down(x) => Rises(wire')
      BY <1>3, PutsRise
    <2>5. Lit' /\ Waiting' /\ ~past'.refused /\ (win'.open /\ flow'.step = "idle" => ~Busy')
      BY <1>1, <2>2, <2>3, <2>4 DEF Lit, Waiting, Waits, Busy
    <2>6. \A j \in DOMAIN calls' : CallFits(calls'[j], ctl, win, keep)
      BY <1>8, <2>1 DEF Asked, Informed
    <2>7. \A a \in DOMAIN wire' : Answers(wire'[a]) => LineFits(wire'[a], ctl, win, keep)
      BY <1>6, <2>1, <2>3 DEF Asked, Informed
    <2> QED BY <1>1, <2>5, <2>6, <2>7 DEF Informed
  <1> QED BY <1>10, <1>11, <1>12, <1>13, <1>14 DEF Asked

\* A window is closed, or opened.
LEMMA NewDashIs ==
  ASSUME NEW err
  PROVE  /\ DOMAIN NewDash(err) = DashFields /\ NewDash(err).status = "idle" /\ NewDash(err).mode = "tun"
         /\ NewDash(err).boot = FALSE /\ NewDash(err).servers = {} /\ NewDash(err).reading = TRUE
         /\ NewDash(err).auto = "fresh" /\ NewDash(err).may = {}
         /\ DOMAIN NoFlow = FlowFields /\ NoFlow.kind = "none" /\ NoFlow.step = "none" /\ NoFlow.mode = "tun"
  BY DEF NewDash, DashFields, NoFlow, FlowFields

LEMMA CloseAsked == ASSUME Asked, CloseWindow, DOMAIN win = {"open", "gen"} PROVE Asked'
  <1>1. /\ UNCHANGED <<queue, lost, wire, calls, faults, ctl, cfg, keep>> /\ dash' = NewDash(FALSE) /\ flow' = NoFlow
        /\ past' = [past EXCEPT !.sweeps = 0] /\ win'.open = FALSE /\ win'.gen = win.gen
    BY DEF CloseWindow, pipe
  <1>2. past'.want = past.want /\ past'.refused = past.refused /\ DOMAIN past' = DOMAIN past
    BY <1>1, NowFit, NowFields DEF Fit
  <1>3. Fit(Now(calls))'
    <2>1. PICK u, v : u = Now(calls) /\ v = Now(calls)'
      OBVIOUS
    <2>2. Fit(u) /\ u.k = keep /\ u.p = past
      BY <2>1, NowFit, NowFields
    <2>3. DOMAIN v = {"d", "f", "k", "p", "sent"} /\ v.d = NewDash(FALSE) /\ v.f = NoFlow /\ v.k = keep /\ v.p = past'
      BY <1>1, <2>1 DEF Now
    <2>4. /\ DOMAIN v.d = DashFields /\ v.d.status = "idle" /\ v.d.mode = "tun"
          /\ DOMAIN v.f = FlowFields /\ v.f.kind = "none" /\ v.f.step = "none" /\ v.f.mode = "tun"
      BY ZenonT(60), <2>3, NewDashIs
    <2>5. Fit(v)
      BY <1>2, <2>2, <2>3, <2>4 DEF Fit, Statuses, Modes
    <2> QED BY <2>1, <2>5
  <1>4. Typed'
    BY <1>1, <1>3 DEF Asked, Typed, Settings, Plain
  <1>5. dash'.status = "idle" /\ dash'.boot = FALSE /\ dash'.servers = {} /\ dash'.auto = "fresh" /\ dash'.may = {} /\ flow'.step = "none"
    BY <1>1, NewDashIs
  <1>6. Paired' /\ Orders' /\ Started' /\ ReadWell'
    BY <1>1, <1>5 DEF Asked, Paired, Orders, Started, Early, ReadWell
  <1>7. Obeyed'
    BY <1>1, <1>2, <1>5 DEF Asked, Obeyed, Willing, Leaving
  <1>8. Informed'
    <2> SUFFICES ASSUME Aware' PROVE Informed'
      BY DEF Informed
    <2>1. Aware
      BY <1>1 DEF Aware
    <2>2. Lit' /\ Waiting'
      BY <1>1, <1>5, <2>1 DEF Asked, Informed, Lit, Waiting, Waits, Busy
    <2>3. /\ \A j \in DOMAIN calls : CallFits(calls[j], ctl, win, keep) => CallFits(calls[j], ctl, win', keep)
          /\ \A a \in DOMAIN wire : LineFits(wire[a], ctl, win, keep) => LineFits(wire[a], ctl, win', keep)
      BY <1>1 DEF CallFits, LineFits
    <2> QED BY <1>1, <1>2, <2>1, <2>2, <2>3 DEF Asked, Informed
  <1> QED BY <1>4, <1>6, <1>7, <1>8 DEF Asked

LEMMA OpenAsked == ASSUME Asked, OpenWindow, win.gen \in Nat \ {0} PROVE Asked'
  <1>1. /\ UNCHANGED <<queue, lost, wire, faults, ctl, cfg, keep, past, flow>> /\ dash' = NewDash(keep.err)
        /\ win' = [open |-> TRUE, gen |-> win.gen + 1] /\ ~win.open
        /\ "lag" \in faults \/ \A j \in DOMAIN calls : calls[j].st # "new"
    BY DEF OpenWindow, DashReopens
  <1>2. PICK g : g = win.gen + 1 /\ g \notin 1..win.gen /\ g \in 1..g /\ \A n \in 1..win.gen : n \in 1..g
    OBVIOUS
  <1>3. flow.step = "none" /\ win'.open = TRUE /\ win'.gen = g
    BY <1>1, <1>2 DEF Asked, Paired
  <1>4. PICK c : /\ calls' = Append(calls, c) /\ DOMAIN c = {"req", "st", "res"} /\ c.st = "new" /\ c.res.ok = FALSE
                 /\ c.req.m = "snapshot" /\ c.req.win = g
    <2>1. PICK r, a : r = Request("snapshot", a) /\ a = <<>>
      OBVIOUS
    <2>2. PICK q : q = r.req
      OBVIOUS
    <2>3. DOMAIN r = {"req", "st", "res"} /\ r.st = "new" /\ r.res = Failed /\ DOMAIN q = {"m", "win"} /\ q.m = "snapshot"
      <3>1. /\ DOMAIN r = {"req", "st", "res"} /\ r.st = "new" /\ r.res = Failed
            /\ q = [x \in DOMAIN a \cup {"m", "win"} |-> IF x = "m" THEN "snapshot" ELSE IF x = "win" THEN win.gen ELSE a[x]]
        BY <2>1, <2>2 DEF Request
      <3>2. DOMAIN a = {}
        BY <2>1
      <3>3. DOMAIN q = {"m", "win"} /\ q["m"] = "snapshot"
        BY <3>1, <3>2
      <3> QED BY <3>1, <3>3
    <2>4. PICK c : c = [r EXCEPT !.req.win = g]
      OBVIOUS
    <2>5. calls' = Append(calls, c)
      BY <1>2, <2>1, <2>4 DEF OpenWindow
    <2>6. DOMAIN c = {"req", "st", "res"} /\ c.st = "new" /\ c.res = Failed /\ c.req.m = "snapshot" /\ c.req.win = g
      BY <2>2, <2>3, <2>4
    <2> QED BY <2>5, <2>6 DEF Failed
  <1>5. IsCalls(calls') /\ \A j \in DOMAIN calls' : (j \in DOMAIN calls /\ calls'[j] = calls[j]) \/ calls'[j] = c
    <2>1. PICK n : n = Len(calls)
      OBVIOUS
    <2>2. IsCalls(calls) /\ n \in Nat /\ DOMAIN calls = 1..n
      BY <2>1, CallsSeq DEF Asked, Typed
    <2>3. IsCalls(calls') /\ Len(calls') = n + 1 /\ calls'[n + 1] = c /\ \A j \in 1..n : calls'[j] = calls[j]
      BY <1>4, <2>1, <2>2, AppendCalls
    <2>4. DOMAIN calls' = 1..(n + 1) /\ \A j \in 1..(n + 1) : j \in 1..n \/ j = n + 1
      BY <2>2, <2>3, CallsSeq
    <2> QED BY <2>2, <2>3, <2>4
  <1>6. Fit(Now(calls))'
    <2>1. PICK u, v : u = Now(calls) /\ v = Now(calls)'
      OBVIOUS
    <2>2. Fit(u) /\ u.k = keep /\ u.p = past /\ u.f = flow
      BY <2>1, NowFit, NowFields
    <2>3. DOMAIN v = {"d", "f", "k", "p", "sent"} /\ v.d = NewDash(keep.err) /\ v.f = flow /\ v.k = keep /\ v.p = past
      BY <1>1, <2>1 DEF Now
    <2>4. DOMAIN v.d = DashFields /\ v.d.status = "idle" /\ v.d.mode = "tun"
      <3>1. PICK err : err = keep.err
        OBVIOUS
      <3>2. v.d = NewDash(err)
        BY <2>3, <3>1
      <3> QED BY <3>2, NewDashIs
    <2>5. Fit(v)
      BY <2>2, <2>3, <2>4 DEF Fit, Statuses, Modes
    <2> QED BY <2>1, <2>5
  <1>7. Sound(c.req, c.res)
    BY <1>4 DEF Sound, Asks
  <1>8. Typed'
    BY <1>1, <1>5, <1>6, <1>7 DEF Asked, Typed, Settings, Plain
  <1>9. /\ dash'.status = "idle" /\ dash'.boot = FALSE /\ dash'.servers = {} /\ dash'.auto = "fresh" /\ dash'.may = {}
        /\ dash'.reading = TRUE
    BY <1>1, NewDashIs
  <1>10. /\ \A j \in DOMAIN calls' : calls'[j].req.win \in 1..g /\ ~InFlow(calls'[j], g)
         /\ \A a \in DOMAIN wire : Answers(wire[a]) => wire[a].req.win \in 1..g /\ ~InFlow(wire[a], g)
    <2>1. ~IsFlow(c.req)
      BY <1>4 DEF IsFlow
    <2> QED BY <1>2, <1>4, <1>5, <2>1 DEF Asked, Paired, InFlow
  <1>11. Paired'
    BY <1>1, <1>3, <1>10 DEF Paired
  <1>12. Started' /\ ReadWell'
    BY <1>1, <1>4, <1>5, <1>9 DEF Asked, Started, Early, ReadWell
  <1>13. ~NewConnect(c)
    BY <1>4 DEF NewConnect
  <1>14. Orders'
    BY <1>1, <1>5, <1>13 DEF Orders, NewConnect
  <1>15. Obeyed'
    <2>1. Leaving => Leaving'
      <3>1. \A j \in DOMAIN calls : j \in DOMAIN calls' /\ calls'[j] = calls[j]
        <4>1. IsCalls(calls)
          BY DEF Asked, Typed
        <4>2. PICK n : n = Len(calls) /\ n \in Nat /\ DOMAIN calls = 1..n
          BY <4>1, CallsSeq
        <4>3. Len(calls') = n + 1 /\ \A j \in 1..n : calls'[j] = calls[j]
          BY <1>4, <4>1, <4>2, AppendCalls
        <4>4. DOMAIN calls' = 1..(n + 1) /\ \A j \in 1..n : j \in 1..(n + 1)
          BY <1>5, <4>2, <4>3, CallsSeq
        <4> QED BY <4>2, <4>3, <4>4
      <3> QED BY <3>1 DEF Leaving
    <2> QED BY <1>1, <1>5, <1>13, <2>1 DEF Asked, Obeyed, Willing
  <1>16. Informed'
    <2> SUFFICES ASSUME Aware' PROVE Informed'
      BY DEF Informed
    <2>1. Aware
      BY <1>1 DEF Aware
    <2>2. Lit' /\ Waiting'
      BY <1>1, <1>9, <2>1 DEF Asked, Informed, Lit, Waiting, Waits, Busy
    <2>3. \A j \in DOMAIN calls' : CallFits(calls'[j], ctl, win', keep)
      <3>1. CallFits(c, ctl, win', keep)
        BY <1>4, <1>10, <1>13 DEF CallFits, IsFlow, IdleSnap
      <3>2. \A j \in DOMAIN calls' : ~Stops(calls'[j], win'.gen)
        BY <1>3, <1>10 DEF Stops
      <3>3. \A j \in DOMAIN calls : CallFits(calls[j], ctl, win, keep)
        BY <2>1 DEF Asked, Informed
      <3>4. ASSUME NEW j \in DOMAIN calls', j \in DOMAIN calls, calls'[j] = calls[j] PROVE CallFits(calls'[j], ctl, win', keep)
        BY <3>2, <3>3, <3>4 DEF CallFits
      <3> QED BY <1>5, <3>1, <3>4
    <2>4. \A a \in DOMAIN wire : Answers(wire[a]) => LineFits(wire[a], ctl, win', keep)
      <3>1. \A a \in DOMAIN wire : Answers(wire[a]) => LineFits(wire[a], ctl, win, keep) /\ ~Stops(wire[a], win'.gen)
        BY <1>3, <1>10, <2>1 DEF Asked, Informed, Stops
      <3> QED BY <3>1 DEF LineFits
    <2> QED BY <1>1, <1>3, <2>1, <2>2, <2>3, <2>4 DEF Asked, Informed
  <1> QED BY <1>8, <1>11, <1>12, <1>14, <1>15, <1>16 DEF Asked

LEMMA AskedInit == ASSUME Init PROVE Asked
  <1>1. /\ queue = <<>> /\ wire = <<>> /\ lost = {} /\ win \in [open : BOOLEAN, gen : {1}]
        /\ ctl \in {[st |-> "idle", pending |-> FALSE, server |-> NoServer, mode |-> "tun"],
                    [st |-> "up", pending |-> FALSE, server |-> First, mode |-> "tun"]}
        /\ cfg \in [mode : {"tun"}, auto : BOOLEAN, helper : {TRUE}] 
        /\ dash \in {NewDash(FALSE), Loaded} /\ flow = NoFlow
        /\ keep = [err |-> FALSE, last |-> First, claim |-> ~dash.boot]
        /\ past = [want |-> "none", autos |-> 0, refused |-> FALSE, sweeps |-> 0]
        /\ calls = IF win.open /\ ~dash.boot THEN <<Request("snapshot", <<>>)>> ELSE <<>>
    BY DEF Init, PipeInit, DashInit
  <1>2. /\ DOMAIN ctl = {"st", "pending", "server", "mode"} /\ ctl.st \in {"idle", "up"} /\ ctl.mode = "tun"
        /\ DOMAIN cfg = {"mode", "auto", "helper"} /\ cfg.mode = "tun" /\ win.gen = 1
    BY <1>1
  <1>3. /\ DOMAIN dash = DashFields /\ dash.status \in {"idle", "connected"} /\ dash.mode = "tun" /\ dash.may = {}
        /\ \/ dash.boot = FALSE /\ dash.auto = "fresh" /\ dash.servers = {} /\ dash.status = "idle" /\ dash.reading = TRUE
           \/ dash.boot = TRUE /\ dash.auto = "done" /\ (ctl.st = "up" => dash.status = "connected")
    <2>1. CASE dash = NewDash(FALSE)
      BY <2>1, NewDashIs
    <2>2. CASE dash = Loaded
      <3>1. PICK d, s : d = NewDash(FALSE) /\ s = (IF ctl.st = "up" THEN "connected" ELSE "idle")
        OBVIOUS
      <3>2. DOMAIN d = DashFields /\ d.mode = "tun" /\ d.may = {}
        BY <3>1, NewDashIs
      <3>3. dash = [d EXCEPT !.status = s, !.server = ctl.server, !.boot = TRUE, !.servers = Listed,
                      !.measured = measured \cap Listed, !.swept = Listed, !.reading = FALSE, !.auto = "done"]
        BY <2>2, <3>1 DEF Loaded
      <3> QED BY <3>1, <3>2, <3>3, FieldsAre
    <2> QED BY <1>1, <2>1, <2>2
  <1>4. /\ DOMAIN flow = FlowFields /\ flow.kind = "none" /\ flow.step = "none" /\ flow.mode = "tun"
    BY <1>1, NewDashIs
  <1>5. {"claim", "last"} \subseteq DOMAIN keep /\ (keep.claim <=> ~dash.boot)
    <2>1. PICK b : b = (~dash.boot)
      OBVIOUS
    <2>2. keep = [err |-> FALSE, last |-> First, claim |-> b]
      BY <1>1, <2>1
    <2>3. {"claim", "last"} \subseteq DOMAIN keep /\ keep.claim = b
      BY <2>2
    <2> QED BY <2>1, <2>3
  <1>6. {"want", "autos", "refused", "sweeps"} \subseteq DOMAIN past /\ past.want = "none" /\ past.refused = FALSE
    BY <1>1
  <1>7. /\ IsCalls(calls)
        /\ \A j \in DOMAIN calls : /\ calls[j].req.m = "snapshot" /\ calls[j].req.win = 1 /\ calls[j].st = "new"
                                   /\ calls[j].res.ok = FALSE
    <2>1. PICK a, c : a = <<>> /\ c = Request("snapshot", a)
      OBVIOUS
    <2>2. DOMAIN c = {"req", "st", "res"} /\ c.st = "new" /\ c.res = Failed /\ c.req.m = "snapshot" /\ c.req.win = win.gen
      <3>1. DOMAIN a = {}
        BY <2>1
      <3> QED BY <2>1, <3>1, RequestFields
    <2>3. CASE calls = <<c>>
      <3>1. calls \in Seq({c}) /\ Len(calls) = 1 /\ DOMAIN calls = {1} /\ calls[1] = c /\ 1..1 = {1}
        BY <2>3
      <3> QED BY <1>2, <2>2, <3>1 DEF IsCalls, Failed
    <2>4. CASE calls = <<>>
      <3>1. calls \in Seq({}) /\ Len(calls) = 0 /\ DOMAIN calls = {} /\ 1..0 = {}
        BY <2>4
      <3> QED BY <3>1 DEF IsCalls
    <2> QED BY <1>1, <2>1, <2>3, <2>4
  <1>8. DOMAIN queue = {} /\ DOMAIN wire = {}
    BY <1>1
  <1>9. Typed
    <2>1. Fit(Now(calls))
      <3>1. PICK u : u = Now(calls)
        OBVIOUS
      <3>2. DOMAIN u = {"d", "f", "k", "p", "sent"} /\ u.d = dash /\ u.f = flow /\ u.k = keep /\ u.p = past
        BY <3>1 DEF Now
      <3>3. Fit(u)
        BY <1>3, <1>4, <1>5, <1>6, <3>2 DEF Fit, Statuses, Modes
      <3> QED BY <3>1, <3>3
    <2>2. Settings
      BY <1>2 DEF Settings, Modes
    <2>3. \A j \in DOMAIN calls : Sound(calls[j].req, calls[j].res)
      BY <1>7 DEF Sound, Asks
    <2> QED BY <1>7, <1>8, <2>1, <2>2, <2>3 DEF Typed, Plain
  <1>10. \A j \in DOMAIN calls : ~IsFlow(calls[j].req) /\ ~NewConnect(calls[j]) /\ calls[j].req.win \in 1..win.gen
    BY <1>2, <1>7 DEF IsFlow, NewConnect
  <1>11. Paired /\ Orders
    BY <1>4, <1>8, <1>10 DEF Paired, Orders, InFlow
  <1>12. Started /\ ReadWell
    BY <1>3, <1>5, <1>7, <1>8 DEF Started, Early, ReadWell
  <1>13. Lit /\ Waiting
    BY <1>2, <1>3, <1>4, <1>5, <1>8 DEF Lit, Waiting, Waits, Busy, Running, Low, HasUp, Rises
  <1>14. \A j \in DOMAIN calls : CallFits(calls[j], ctl, win, keep)
    BY <1>7, <1>10 DEF CallFits, IdleSnap
  <1>15. Informed
    BY <1>4, <1>6, <1>8, <1>13, <1>14 DEF Informed
  <1>16. Obeyed
    BY <1>6 DEF Obeyed
  <1> QED BY <1>9, <1>11, <1>12, <1>15, <1>16 DEF Asked

\* All steps.
LEMMA AskedStep == ASSUME Asked, Tabs, Shapes, Draining, [Next]_vars PROVE Asked'
  <1>1. IsList(queue) /\ IsList(wire) /\ DOMAIN win = {"open", "gen"} /\ win.gen \in Nat \ {0} /\ Typed
    BY DEF Shapes, Tabs, Asked
  <1>2. ASSUME NEW k, NEW step, StoreTurn(k, step) PROVE Asked'
    BY <1>1, <1>2, TurnAsks
  <1>3. ASSUME Serves, Calm \/ Informed' PROVE Asked'
    BY <1>1, <1>3, ServesKeeps, CalmInformed DEF Asked
  <1>4. CASE Elsewhere
    BY <1>1, <1>3, <1>4, ElsewhereServes
  <1>5. CASE Output
    <2>1. UNCHANGED dashv /\ (Forward \/ ForwarderExit \/ ServeReturns \/ \E i \in DOMAIN calls : WriteAnswer(i))
      BY <1>5 DEF Output, PipeStep
    <2> QED BY <1>1, <1>4, <1>5, <2>1, ForwardAsked, AnswerAsked, OthersElsewhere
  <1>6. CASE Handles
    <2>1. UNCHANGED <<wire, win, faults>>
      BY <1>6 DEF Handles, shared
    <2> QED BY <1>1, <1>3, <1>4, <1>6, <2>1, HandlesElsewhere, SnapshotServes, DisconnectServes, ConnectServes
  <1>7. CASE ChainMoves \/ (ChainWorld /\ ChainDrops)
    <2>1. UNCHANGED <<wire, win, faults>> /\ (BringUpDone \/ BringUpFails \/ ChainDrops)
      BY <1>7 DEF ChainMoves, ChainWorld, shared
    <2> QED BY <1>1, <1>3, <2>1, UpServes, DropServes
  <1>8. CASE Renders
    <2>1. CASE AutoConnect
      <3>1. Frame
        BY <1>8, <2>1 DEF Renders, AutoConnect, shared, Frame
      <3> QED BY <1>2, <2>1, <3>1, AutoTurn
    <2>2. CASE ~AutoConnect
      BY <1>1, <1>2, <1>8, <2>2, RendersTurn
    <2> QED BY <2>1, <2>2
  <1>9. CASE Discard \/ LogReceives
    BY <1>1, <1>2, <1>9, LinesTurn
  <1>10. CASE User
    BY <1>2, <1>10, UserTurn
  <1>11. CASE CloseWindow \/ OpenWindow
    BY <1>1, <1>11, CloseAsked, OpenAsked
  <1>12. CASE \/ Quit \/ DriverTick \/ TimerTick \/ WorkerPanics \/ LogWorld \/ LogMoves \/ LogHandles \/ LogUser
              \/ WorkerMoves \/ UserSync \/ UserSubs \/ LogPublishes \/ (ChainWorld /\ ~ChainDrops) \/ UNCHANGED vars
    BY <1>1, <1>4, <1>12, OthersElsewhere
  <1> QED BY <1>5, <1>6, <1>7, <1>8, <1>9, <1>10, <1>11, <1>12 DEF Next, System

LEMMA AskedAlways == Spec => []Asked
  <1>1. Init => Asked /\ Shapes /\ Streamed /\ Texts /\ Slotted /\ Lone /\ Tabs /\ Draining /\ Claimed
    BY AskedInit, ShapesInit, StreamedInit, TextsInit, SlotsInit, LoneInit, TabsInit, SessionInit
  <1>2. Asked /\ Shapes /\ Streamed /\ Texts /\ Slotted /\ Lone /\ Tabs /\ Draining /\ Claimed /\ [Next]_vars
          => (Asked /\ Shapes /\ Streamed /\ Texts /\ Slotted /\ Lone /\ Tabs /\ Draining /\ Claimed)'
    BY AskedStep, ShapesStep, StreamedStep, TextsStep, SlotsStep, LoneStep, TabsStep, SessionStep
  <1> QED BY <1>1, <1>2, PTL DEF Spec

\* A store that knows the state of the controller never has a Connect refused:
\* doConnect and doSwitchMode disconnect first and wait for the idle event, and
\* no snapshot, answer or event that shows a lost connection outlives the next one.
THEOREM ConnectNotRefused == Spec => []NoRefusedConnect
  <1>1. Asked => NoRefusedConnect
    BY DEF Asked, Informed, Aware, NoRefusedConnect
  <1> QED BY <1>1, AskedAlways, PTL

\* After a click on Disconnect the chain goes down and stays down: the sequence
\* that was under way has ended, no Connect is left and the connect on start has
\* had its turn (dashDisconnect, maybeAutoConnect).
THEOREM IntentFollowed == Spec => []UserIntent
  <1>1. Asked => UserIntent
    <2> SUFFICES ASSUME Asked, Quiet, past.want = "down", Willing PROVE ctl.st = "idle"
      BY DEF UserIntent, Willing
    <2>1. calls = <<>> /\ ctl.st \in {"idle", "up"}
      BY DEF Quiet
    <2>2. ~Leaving
      <3>1. DOMAIN <<>> = {}
        OBVIOUS
      <3> QED BY <2>1, <3>1 DEF Leaving
    <2> QED BY <2>1, <2>2 DEF Asked, Obeyed
  <1> QED BY <1>1, AskedAlways, PTL

\* The chain is up or down because the user, or a launch, asked for it.
THEOREM ConnectAsked == Spec => []ConnectAsAsked
  <1>1. NoRefusedConnect /\ UserIntent /\ AutoConnectOnce => ConnectAsAsked
    BY DEF ConnectAsAsked
  <1> QED BY <1>1, ConnectNotRefused, IntentFollowed, OneLaunch, PTL

(***************************************************************************)
(* Types and limits.  The channel, the output and the rings are bounded.   *)
(***************************************************************************)
\* What is published are events of the protocol.
Issues == UNCHANGED <<queue, lost>> \/ \E es : IsList(es) /\ Plain(es) /\ Publish(es)

LEMMA PlainOne == ASSUME NEW x, x.topic \in Topics PROVE IsList(<<x>>) /\ Plain(<<x>>)
  <1>1. IsList(<<x>>) /\ DOMAIN <<x>> = {1} /\ <<x>>[1] = x
    BY OneList
  <1> QED BY <1>1 DEF Plain

LEMMA PlainTwo == ASSUME NEW x, NEW y, x.topic \in Topics, y.topic \in Topics PROVE IsList(<<x, y>>) /\ Plain(<<x, y>>)
  <1>1. PICK s : s = <<x, y>>
    OBVIOUS
  <1>2. s \in Seq({x, y}) /\ DOMAIN s = {1, 2} /\ s[1] = x /\ s[2] = y
    BY <1>1
  <1> QED BY <1>1, <1>2 DEF Plain, IsList

LEMMA StatusPlain ==
  ASSUME NEW st, NEW s, NEW m
  PROVE  /\ IsList(<<Status(st)>>) /\ Plain(<<Status(st)>>)
         /\ IsList(<<ConnectedTo(s, m)>>) /\ Plain(<<ConnectedTo(s, m)>>)
         /\ IsList(<<ChainError, Status(st)>>) /\ Plain(<<ChainError, Status(st)>>)
  <1>1. Status(st).topic \in Topics /\ ConnectedTo(s, m).topic \in Topics /\ ChainError.topic \in Topics
    BY DEF Status, ConnectedTo, ChainError, Topics
  <1> QED BY <1>1, PlainOne, PlainTwo

LEMMA MutedIssues == ASSUME Muted PROVE Issues
  <1>1. ASSUME NEW es, NoStatus(es), Publish(es) PROVE IsList(es) /\ Plain(es)
    BY <1>1 DEF NoStatus, Plain
  <1> QED BY <1>1 DEF Muted, Issues

LEMMA NoneIssued == IsList(<<>>) /\ Plain(<<>>)
  BY NoStatusNone DEF NoStatus, Plain

LEMMA HandlesIssue == ASSUME Handles PROVE Issues
  <1>1. PICK i \in DOMAIN calls :
       \/ Connect(i) \/ Disconnect(i) \/ DisconnectEnds(i) \/ GetSnapshot(i) \/ SnapshotEnds(i)
       \/ TestLatency(i) \/ ProbeEnds(i) \/ UpdateMode(i)
    BY DEF Handles
  <1>2. CASE Connect(i)
    BY <1>2, StatusPlain, NoneIssued DEF Connect, Issues
  <1>3. CASE Disconnect(i)
    BY <1>3, StatusPlain, NoneIssued DEF Disconnect, Issues
  <1>4. CASE DisconnectEnds(i)
    BY <1>4, StatusPlain DEF DisconnectEnds, Issues
  <1>5. CASE GetSnapshot(i) \/ SnapshotEnds(i) \/ TestLatency(i) \/ UpdateMode(i)
    BY <1>5 DEF GetSnapshot, SnapshotEnds, TestLatency, UpdateMode, Issues
  <1>6. CASE ProbeEnds(i)
    BY <1>6, OthersMuted, MutedIssues
  <1> QED BY <1>1, <1>2, <1>3, <1>4, <1>5, <1>6

LEMMA ChainIssues == ASSUME ChainMoves \/ ChainWorld PROVE Issues
  <1>1. CASE BringUpDone
    BY <1>1, StatusPlain DEF BringUpDone, Issues
  <1>2. CASE BringUpFails
    BY <1>2, StatusPlain DEF BringUpFails, Issues
  <1>3. CASE ChainDrops
    <2>1. PICK was \in BOOLEAN : Publish(<<ChainError, Status(IF was THEN "error" ELSE "idle")>>)
      BY <1>3 DEF ChainDrops
    <2> QED BY <2>1, StatusPlain DEF Issues
  <1>4. CASE Noise
    BY <1>4, OthersMuted, MutedIssues
  <1> QED BY <1>1, <1>2, <1>3, <1>4 DEF ChainMoves, ChainWorld

\* The channel takes no more than fits, and only events of the protocol are lost.
Channelled == Plain(queue) /\ Len(queue) <= Buffer /\ lost \subseteq Topics

LEMMA IssuesChannelled == ASSUME IsList(queue), Channelled, Issues PROVE Channelled'
  <1>1. CASE UNCHANGED <<queue, lost>>
    BY <1>1 DEF Channelled, Plain
  <1>2. ASSUME NEW es, IsList(es), Plain(es), Publish(es) PROVE Channelled'
    <2>1. /\ queue' = queue \/ Len(queue') <= Buffer
          /\ \A a \in DOMAIN queue' : (\E b \in DOMAIN queue : queue'[a] = queue[b]) \/ (\E b \in DOMAIN es : queue'[a] = es[b])
          /\ \A x \in lost' : \/ x \in lost \/ (\E b \in DOMAIN queue : x = queue[b].topic)
                              \/ (\E b \in DOMAIN es : x = es[b].topic)
      BY <1>2, PublishRises DEF Channelled
    <2>2. Len(queue') <= Buffer
      BY <2>1 DEF Channelled
    <2>3. Plain(queue')
      BY <1>2, <2>1 DEF Channelled, Plain
    <2>4. lost' \subseteq Topics
      BY <1>2, <2>1 DEF Channelled, Plain
    <2> QED BY <2>2, <2>3, <2>4 DEF Channelled, Plain
  <1> QED BY <1>1, <1>2 DEF Issues

\* The output: a writer waits while it is full.
LEMMA OutputBounds ==
  ASSUME IsList(queue), IsList(wire), Channelled, Len(wire) <= Pipe, Output
  PROVE  Channelled' /\ Len(wire') <= Pipe
  <1>1. CASE Forward
    <2>1. Takes(queue, queue') /\ lost' = lost
      BY <1>1, TailTakes DEF Forward
    <2>2. wire' = wire \/ (Len(wire) < Pipe /\ Puts(wire, wire', Head(queue)))
      <3>1. PICK x : x = Head(queue)
        OBVIOUS
      <3>2. wire' = wire \/ (Len(wire) < Pipe /\ wire' = Append(wire, x))
        BY <1>1, <3>1 DEF Forward
      <3> QED BY <3>1, <3>2, AppendPuts
    <2>3. PICK n : n = Len(queue)
      OBVIOUS
    <2>4. n \in Nat \ {0} /\ Len(queue') = n - 1 /\ DOMAIN queue = 1..n /\ DOMAIN queue' = 1..(n - 1)
          /\ \A i \in 1..(n - 1) : queue'[i] = queue[i + 1]
      BY <2>1, <2>3 DEF Takes
    <2>5. Buffer \in Nat /\ Pipe \in Nat
      BY PipeAssumption
    <2>6. Len(queue') <= Buffer
      BY <2>3, <2>4, <2>5 DEF Channelled
    <2>7. \A i \in 1..(n - 1) : i + 1 \in 1..n
      BY <2>4
    <2>8. Plain(queue')
      BY <2>4, <2>7 DEF Channelled, Plain
    <2>9. Len(wire') <= Pipe
      BY <2>2, <2>5 DEF Puts
    <2> QED BY <2>1, <2>6, <2>8, <2>9 DEF Channelled, Plain
  <1>2. CASE ForwarderExit \/ ServeReturns
    BY <1>2 DEF ForwarderExit, ServeReturns, Channelled, Plain
  <1>3. CASE \E i \in DOMAIN calls : WriteAnswer(i)
    <2>1. PICK x : wire' = Append(wire, x) /\ Len(wire) < Pipe /\ UNCHANGED <<queue, lost>>
      BY <1>3 DEF WriteAnswer
    <2>2. Puts(wire, wire', x)
      BY <2>1, AppendPuts
    <2>3. Len(wire') <= Pipe
      BY <2>1, <2>2, PipeAssumption DEF Puts
    <2> QED BY <2>1, <2>3 DEF Channelled, Plain
  <1> QED BY <1>1, <1>2, <1>3 DEF Output, PipeStep

\* Of a source the ring keeps at most Cap lines, and there are two sources.
LEMMA CappedSize == ASSUME NEW X, NEW r \in Seq(X) PROVE Len(Capped(r)) <= 2 * Cap
  <1> DEFINE later(n) == {m \in (n + 1)..Len(r) : Source(r[m]) = Source(r[n])}
             S == {n \in DOMAIN r : Cardinality(later(n)) < Cap}
  <1>1. Capped(r) = At(r, S) /\ S \in SUBSET (DOMAIN r)
    BY DEF Capped
  <1>2. PICK N : N = Len(r)
    OBVIOUS
  <1>3. N \in Nat /\ DOMAIN r = 1..N /\ Cap \in Nat
    BY <1>2, LogAssumption
  <1>4. IsFiniteSet(1..N)
    BY <1>3, FS_Interval
  <1>5. ASSUME NEW K, K \subseteq S, \A m, n \in K : Source(r[m]) = Source(r[n])
        PROVE  IsFiniteSet(K) /\ Cardinality(K) \in Nat /\ Cardinality(K) <= Cap
    <2>1. K \subseteq 1..N /\ K \subseteq Nat
      BY <1>1, <1>3, <1>5, 1..N \subseteq Nat
    <2>2. IsFiniteSet(K) /\ Cardinality(K) \in Nat
      BY <1>4, <2>1, FS_Subset, FS_CardinalityType
    <2>3. CASE K = {}
      BY <1>3, <2>3, FS_EmptySet
    <2>4. CASE K # {}
      <3>1. PICK x \in K : \A y \in K : x <= y
        BY <2>1, <2>4, LeastIn
      <3>2. PICK L : L = later(x)
        OBVIOUS
      <3>3. Cardinality(L) < Cap
        BY <1>5, <3>1, <3>2
      <3>4. L \subseteq 1..N
        BY <1>2, <1>3, <2>1, <3>1, <3>2
      <3>5. ASSUME NEW y \in K \ {x} PROVE y \in L
        <4>1. x <= y /\ y # x /\ x \in Nat /\ y \in Nat /\ y <= N
          BY <1>3, <2>1, <3>1
        <4>2. y \in (x + 1)..N
          BY <1>3, <4>1
        <4>3. Source(r[y]) = Source(r[x])
          BY <1>5, <3>1
        <4> QED BY <1>2, <3>2, <4>2, <4>3
      <3> HIDE DEF later, S
      <3>6. IsFiniteSet(L) /\ Cardinality(L) \in Nat
        BY <1>4, <3>4, FS_Subset, FS_CardinalityType
      <3>7. K \ {x} \subseteq L
        BY <3>5
      <3>8. Cardinality(K \ {x}) <= Cardinality(L)
        BY <3>6, <3>7, FS_Subset
      <3>9. Cardinality(K \ {x}) = Cardinality(K) - 1
        BY <2>2, <3>1, FS_RemoveElement
      <3> QED BY <1>3, <2>2, <3>3, <3>6, <3>8, <3>9
    <2> QED BY <2>3, <2>4
  <1> HIDE DEF S
  <1>6. Len(Capped(r)) = Cardinality(S)
    BY <1>1, AtIs
  <1> DEFINE A == {n \in S : Source(r[n])}
             B == {n \in S : ~Source(r[n])}
  <1>7. /\ IsFiniteSet(A) /\ Cardinality(A) \in Nat /\ Cardinality(A) <= Cap
        /\ IsFiniteSet(B) /\ Cardinality(B) \in Nat /\ Cardinality(B) <= Cap
    <2>1. A \subseteq S /\ \A m, n \in A : Source(r[m]) = Source(r[n])
      BY DEF Source
    <2>2. B \subseteq S /\ \A m, n \in B : Source(r[m]) = Source(r[n])
      BY DEF Source
    <2> HIDE DEF A, B
    <2> QED BY <1>5, <2>1, <2>2
  <1>8. A \cup B = S /\ A \cap B = {}
    OBVIOUS
  <1> HIDE DEF A, B
  <1>9. Cardinality(S) = Cardinality(A) + Cardinality(B) - Cardinality(A \cap B)
    BY <1>7, <1>8, FS_Union
  <1>10. Cardinality(A \cap B) = 0
    BY <1>8, FS_EmptySet
  <1> QED BY <1>3, <1>6, <1>7, <1>9, <1>10

\* The page shows at most Keep lines.
LEMMA ShownFits ==
  ASSUME NEW l, "entries" \in DOMAIN l, "last" \in DOMAIN l, IsList(l.entries), NEW list, IsList(list)
  PROVE  IsList(Shown(l, list).entries) /\ Len(Shown(l, list).entries) <= Keep
  <1>1. PICK S, T : l.entries \in Seq(S) /\ list \in Seq(T)
    BY DEF IsList
  <1>2. PICK I : I = {n \in DOMAIN list : list[n].seq > l.last}
    OBVIOUS
  <1>3. PICK new : new = Newer(list, l.last)
    OBVIOUS
  <1>4. new = At(list, I) /\ I \in SUBSET (DOMAIN list)
    BY <1>2, <1>3 DEF Newer
  <1>5. new \in Seq(T)
    BY <1>1, <1>4, AtIs
  <1>6. PICK u : u = l.entries \o new
    OBVIOUS
  <1>7. IsList(u)
    BY <1>1, <1>5, <1>6, JoinsCarried DEF IsList
  <1>8. Keep \in Nat \ {0}
    BY LogAssumption
  <1>9. PICK v : v = Lastly(u, Keep)
    OBVIOUS
  <1>10. IsList(v) /\ Len(v) <= Keep
    <2>1. PICK Y : u \in Seq(Y)
      BY <1>7 DEF IsList
    <2>2. PICK a \in 1..(Len(u) + 1) :
            /\ v \in Seq(Y) /\ Len(u) \in Nat /\ a = (IF Len(u) > Keep THEN Len(u) - Keep + 1 ELSE 1)
            /\ Len(v) = Len(u) + 1 - a
      BY <1>8, <1>9, <2>1, LastlyIs
    <2> QED BY <1>8, <2>2 DEF IsList
  <1>11. Shown(l, list).entries = v
    BY <1>3, <1>6, <1>9 DEF Shown
  <1> QED BY <1>10, <1>11

\* The backlogs that Start hands back, and its answers on the output, are lists.
Backlogs ==
  /\ \A c \in Ready : IsList(c.res.val)
  /\ \A a \in DOMAIN wire : wire[a].topic = "answer" /\ wire[a].req.m = "logs.start" => IsList(wire[a].res.val)

Limits ==
  /\ Channelled /\ Len(wire) <= Pipe
  /\ subs \in [SubIds -> Urls \cup {New, Gone}]
  /\ Len(buf.ring) <= 2 * Cap
  /\ IsList(logs.entries) /\ Len(logs.entries) <= Keep
  /\ Backlogs

\* No answer to the tab is put on the output.
LEMMA BacklogsStay ==
  ASSUME Backlogs, Fewer, \A a \in DOMAIN wire' : wire'[a].topic = "answer" => \E b \in DOMAIN wire : wire'[a] = wire[b]
  PROVE  Backlogs'
  <1>1. \A c \in Ready' : IsList(c.res.val)
    BY DEF Backlogs, Fewer
  <1>2. ASSUME NEW a \in DOMAIN wire', wire'[a].topic = "answer", wire'[a].req.m = "logs.start" PROVE IsList(wire'[a].res.val)
    BY <1>2 DEF Backlogs
  <1> QED BY <1>1, <1>2 DEF Backlogs

LEMMA TakesSome == ASSUME NEW s, NEW t, Takes(s, t) PROVE \A a \in DOMAIN t : \E b \in DOMAIN s : t[a] = s[b]
  <1>1. PICK n : n = Len(s)
    OBVIOUS
  <1>2. n \in Nat \ {0} /\ DOMAIN s = 1..n /\ DOMAIN t = 1..(n - 1) /\ \A i \in 1..(n - 1) : t[i] = s[i + 1]
    BY <1>1 DEF Takes
  <1>3. \A i \in 1..(n - 1) : i + 1 \in 1..n
    BY <1>2
  <1> QED BY <1>2, <1>3

LEMMA PutsSome == ASSUME NEW s, NEW t, NEW x, Puts(s, t, x) PROVE \A a \in DOMAIN t : t[a] = x \/ \E b \in DOMAIN s : t[a] = s[b]
  <1>1. PICK n : n = Len(s)
    OBVIOUS
  <1>2. n \in Nat /\ DOMAIN s = 1..n /\ DOMAIN t = 1..(n + 1) /\ t[n + 1] = x /\ \A i \in 1..n : t[i] = s[i]
    BY <1>1 DEF Puts
  <1>3. \A i \in 1..(n + 1) : i = n + 1 \/ i \in 1..n
    BY <1>2
  <1> QED BY <1>2, <1>3

LEMMA OutputBacklogs == ASSUME Backlogs, IsCalls(calls), Plain(queue), IsList(queue), IsList(wire), Output PROVE Backlogs'
  <1>1. CASE Forward
    <2>1. PICK x : x = Head(queue)
      OBVIOUS
    <2>2. (wire' = wire \/ wire' = Append(wire, x)) /\ calls' = calls /\ queue # <<>>
      BY <1>1, <2>1 DEF Forward
    <2>3. wire' = wire \/ Puts(wire, wire', x)
      BY <2>2, AppendPuts
    <2>4. x.topic # "answer"
      <3>1. Takes(queue, Tail(queue))
        BY <2>2, TailTakes
      <3>2. PICK n : n = Len(queue)
        OBVIOUS
      <3>3. n \in Nat \ {0} /\ DOMAIN queue = 1..n /\ x = queue[1]
        BY <2>1, <3>1, <3>2 DEF Takes
      <3>4. 1 \in DOMAIN queue
        BY <3>3
      <3>5. x.topic \in Topics
        BY <3>3, <3>4 DEF Plain
      <3> QED BY <3>5 DEF Topics
    <2>5. \A a \in DOMAIN wire' : wire'[a].topic = "answer" => \E b \in DOMAIN wire : wire'[a] = wire[b]
      BY <2>3, <2>4, PutsSome
    <2> QED BY <2>2, <2>5, SameFewer, BacklogsStay
  <1>2. CASE ForwarderExit \/ ServeReturns
    BY <1>2, SameFewer, BacklogsStay DEF ForwarderExit, ServeReturns
  <1>3. ASSUME NEW i \in DOMAIN calls, WriteAnswer(i) PROVE Backlogs'
    <2>1. PICK x : x = [topic |-> "answer", req |-> calls[i].req, res |-> calls[i].res]
      OBVIOUS
    <2>2. wire' = Append(wire, x) /\ calls[i].st = "done"
      BY <1>3, <2>1 DEF WriteAnswer
    <2>3. Fewer
      BY <1>3, AnswerFewer
    <2>4. Puts(wire, wire', x)
      BY <2>2, AppendPuts
    <2>5. x.req.m = "logs.start" => IsList(x.res.val)
      BY <2>1, <2>2 DEF Backlogs, Ready
    <2>6. ASSUME NEW a \in DOMAIN wire', wire'[a].topic = "answer", wire'[a].req.m = "logs.start" PROVE IsList(wire'[a].res.val)
      BY <2>4, <2>5, <2>6, PutsSome DEF Backlogs
    <2>7. \A c \in Ready' : IsList(c.res.val)
      BY <2>3 DEF Backlogs, Fewer
    <2> QED BY <2>6, <2>7 DEF Backlogs
  <1> QED BY <1>1, <1>2, <1>3 DEF Output, PipeStep

\* The tab's handlers and clicks.
LEMMA HandlesBacklogs == ASSUME Backlogs, IsCalls(calls), Shapes, LogHandles PROVE Backlogs'
  <1>1. PICK i \in DOMAIN calls : LogsStart(i) \/ LogsStartPoller(i) \/ LogsTail(i) \/ LogsStop(i) \/ LogsStopPoller(i)
    BY DEF LogHandles
  <1>2. wire' = wire
    BY DEF LogHandles
  <1>3. CASE LogsTail(i)
    <2>1. PICK v : v = Lastly(buf.ring, TailLimit)
      OBVIOUS
    <2>2. PICK res : res = Value(v)
      OBVIOUS
    <2>3. Stage(i, "done", res)
      BY <1>3, <2>1, <2>2 DEF LogsTail, Finish
    <2>4. calls'[i].res = res /\ Ready' \subseteq Ready \cup {calls'[i]}
      BY <2>3, StageReady
    <2>5. IsList(v)
      <3>1. PICK X : buf.ring \in Seq(X)
        BY DEF Shapes, IsList
      <3>2. TailLimit \in Nat \ {0}
        BY LogAssumption
      <3> QED BY <2>1, <3>1, <3>2, LastlyIs DEF IsList
    <2>6. res.val = v
      BY <2>2 DEF Value
    <2>7. \A c \in Ready' : IsList(c.res.val)
      BY <2>4, <2>5, <2>6 DEF Backlogs
    <2> QED BY <1>2, <2>7 DEF Backlogs
  <1>4. CASE LogsStart(i) \/ LogsStartPoller(i) \/ LogsStop(i) \/ LogsStopPoller(i)
    <2>1. \E st, res : Stage(i, st, res) /\ ~(calls[i].req.m = "logs.start" /\ st = "done")
      <3>1. CASE LogsStart(i)
        <4>1. PICK st : st = (IF buf.subs = 0 THEN "poller" ELSE "tail")
          OBVIOUS
        <4> QED BY <3>1, <4>1 DEF LogsStart
      <3>2. CASE LogsStartPoller(i)
        BY <3>2 DEF LogsStartPoller
      <3>3. CASE LogsStop(i) \/ LogsStopPoller(i)
        BY <3>3, Zenon DEF LogsStop, LogsStopPoller, Finish, Runs
      <3> QED BY <1>4, <3>1, <3>2, <3>3
    <2>2. Ready' \subseteq Ready
      BY <2>1, StageReady
    <2> QED BY <1>2, <2>2 DEF Backlogs
  <1> QED BY <1>1, <1>3, <1>4

LEMMA AppendBacklogs ==
  ASSUME Backlogs, IsCalls(calls), wire' = wire, NEW c, c.st = "new", DOMAIN c = {"req", "st", "res"}, calls' = Append(calls, c)
  PROVE  Backlogs'
  <1>1. PICK n : n = Len(calls)
    OBVIOUS
  <1>2. IsCalls(calls') /\ Len(calls') = n + 1 /\ calls'[n + 1] = c /\ \A j \in 1..n : calls'[j] = calls[j]
    BY <1>1, AppendCalls
  <1>3. n \in Nat /\ DOMAIN calls = 1..n /\ DOMAIN calls' = 1..(n + 1)
    BY <1>1, <1>2, CallsSeq
  <1>4. \A j \in 1..(n + 1) : j = n + 1 \/ j \in 1..n
    BY <1>3
  <1>5. Ready' \subseteq Ready
    BY <1>2, <1>3, <1>4 DEF Ready
  <1> QED BY <1>5 DEF Backlogs

\* The channel and the output, over every step.
LEMMA PipeLimits ==
  ASSUME Limits, Shapes, [Next]_vars
  PROVE  Channelled' /\ Len(wire') <= Pipe
  <1>1. IsList(queue) /\ IsList(wire) /\ Channelled /\ Len(wire) <= Pipe
    BY DEF Limits, Shapes
  <1>2. CASE Output
    BY <1>1, <1>2, OutputBounds
  <1>3. CASE Handles \/ ChainMoves \/ ChainWorld \/ WorkerMoves \/ UserSync \/ UserSubs \/ LogPublishes
    <2>1. wire' = wire
      BY <1>3 DEF Handles, ChainMoves, ChainWorld, WorkerMoves, UserSync, UserSubs, LogPublishes
    <2>2. Issues
      BY <1>3, HandlesIssue, ChainIssues, RefreshMuted, OthersMuted, MutedIssues
    <2> QED BY <1>1, <2>1, <2>2, IssuesChannelled
  <1>4. CASE Renders \/ Discard \/ LogReceives
    <2>1. UNCHANGED <<queue, lost>>
      BY <1>4 DEF Renders, Discard, LogReceives, DashReceives, IdleTimeout, AutoConnect
    <2>2. wire' = wire \/ (wire # <<>> /\ wire' = Tail(wire))
      BY <1>4 DEF Renders, Discard, LogReceives, DashReceives, IdleTimeout, AutoConnect
    <2>3. Len(wire') <= Pipe
      BY <1>1, <2>2, TailTakes, PipeAssumption DEF Takes
    <2> QED BY <1>1, <2>1, <2>3 DEF Channelled, Plain
  <1>5. CASE UNCHANGED <<queue, lost, wire>>
    BY <1>1, <1>5 DEF Channelled, Plain
  <1>6. CASE Quit \/ User \/ CloseWindow \/ OpenWindow \/ DriverTick \/ TimerTick \/ WorkerPanics
    BY <1>5, <1>6 DEF Quit, CloseInput, User, ClickConnect, ClickDisconnect, ClickMode, ClickReconnect, ClickProbe, Clicks,
                  CloseWindow, OpenWindow, DriverTick, TimerTick, WorkerPanics, pipe
  <1>7. CASE LogUser \/ LogHandles \/ LogWorld \/ LogMoves \/ UNCHANGED vars
    BY <1>5, <1>7 DEF LogUser, LogHandles, LogWorld, LogMoves, vars, pipe
  <1> QED BY <1>2, <1>3, <1>4, <1>6, <1>7 DEF Next, System

\* The subscriptions: an address, not yet added, or removed.
LEMMA SubsLimits ==
  ASSUME Limits, [Next]_vars
  PROVE  subs' \in [SubIds -> Urls \cup {New, Gone}]
  <1>1. subs \in [SubIds -> Urls \cup {New, Gone}]
    BY DEF Limits
  <1>2. CASE UserSubs
    <2>1. PICK i \in SubIds : (\E u \in Urls : AddSub(i, u) \/ EditUrl(i, u)) \/ RemoveSub(i)
      BY <1>2 DEF UserSubs
    <2>2. PICK u \in Urls \cup {Gone} : subs' = [subs EXCEPT ![i] = u]
      BY <2>1 DEF AddSub, EditUrl, RemoveSub
    <2> QED BY <1>1, <2>2
  <1>3. CASE UNCHANGED subs
    BY <1>1, <1>3
  <1>4. CASE UserSync
    BY <1>3, <1>4 DEF UserSync, SyncOne
  <1>5. CASE DriverTick
    BY <1>3, <1>5 DEF DriverTick, ReconcileLoad, ReconcileApply
  <1>6. CASE TimerTick \/ WorkerPanics
    BY <1>3, <1>6 DEF TimerTick, WorkerPanics, TimerFires, Panic
  <1>7. CASE WorkerMoves
    BY <1>3, <1>7 DEF WorkerMoves, SeesCancel, FetchDone, Commit
  <1>8. CASE Output \/ Handles \/ ChainMoves \/ Renders \/ Discard \/ LogHandles \/ LogPublishes \/ LogReceives
    BY <1>3, <1>8 DEF Output, Handles, ChainMoves, Renders, Discard, LogHandles, LogPublishes, LogReceives, refresh
  <1>9. CASE Quit \/ ChainWorld \/ User \/ CloseWindow \/ OpenWindow \/ LogUser \/ LogWorld \/ LogMoves \/ UNCHANGED vars
    BY <1>3, <1>9 DEF Quit, ChainWorld, User, CloseWindow, OpenWindow, LogUser, LogWorld, LogMoves, vars, refresh
  <1> QED BY <1>2, <1>4, <1>5, <1>6, <1>7, <1>8, <1>9 DEF Next, System

\* A line that is added never makes the ring longer than it may be.
LEMMA AddBounds ==
  ASSUME Shapes, Streamed, NEW ls, Len(ls) \in Nat, Add(ls)
  PROVE  Len(buf'.ring) <= 2 * Cap
  <1>1. buf'.ring = Capped(Longer(buf.ring, buf.seq, ls))
    BY AddIs
  <1>2. PICK X : buf.ring \in Seq(X)
    BY DEF Shapes, IsList
  <1>3. PICK r, s : r = buf.ring /\ s = buf.seq
    OBVIOUS
  <1>4. PICK u : u = Longer(r, s, ls)
    OBVIOUS
  <1>5. \E Y : u \in Seq(Y)
    BY <1>2, <1>3, <1>4, LongerIs
  <1> QED BY <1>1, <1>3, <1>4, <1>5, CappedSize

LEMMA RingLimits ==
  ASSUME Limits, Shapes, Streamed, Texts, [Next]_vars
  PROVE  Len(buf'.ring) <= 2 * Cap
  <1>1. Len(buf.ring) <= 2 * Cap
    BY DEF Limits
  <1>2. CASE UNCHANGED buf
    BY <1>1, <1>2
  <1>3. CASE BridgeLog
    <2>1. PICK ls : ls = <<<<Piece(0, TRUE)>>>>
      OBVIOUS
    <2>2. Add(ls) /\ Len(ls) = 1
      BY <1>3, <2>1 DEF BridgeLog
    <2>3. Len(ls) \in Nat
      BY <2>2
    <2> QED BY <2>2, <2>3, AddBounds
  <1>4. ASSUME NEW k \in Pollers, PollApply(k) PROVE Len(buf'.ring) <= 2 * Cap
    <2>1. PICK t : t = TextOf(poll[k], lf)
      OBVIOUS
    <2>2. Add(Lines(t))
      BY <1>4, <2>1 DEF PollApply, TextOf
    <2>3. Len(Lines(t)) \in Nat
      BY <2>1, TextIs, LinesCount
    <2> QED BY <2>2, <2>3, AddBounds
  <1>5. CASE LogWorld \/ LogMoves
    BY <1>2, <1>3, <1>4, <1>5 DEF LogWorld, LogMoves, WriteLog, RotateLog, OpenLog, PollReads, PollFails, PollEnds
  <1>6. CASE LogHandles
    <2>1. buf'.ring = buf.ring
      BY <1>6 DEF LogHandles, LogsStart, LogsStartPoller, LogsTail, LogsStop, LogsStopPoller, Streamed
    <2> QED BY <1>1, <2>1
  <1>7. CASE LogUser \/ LogPublishes \/ LogReceives
    BY <1>2, <1>7 DEF LogUser, OpenTab, CloseTab, LogPublishes, PublishLine, LogReceives
  <1>8. CASE Output \/ Handles \/ ChainMoves \/ Renders \/ Discard \/ UserSync \/ DriverTick \/ WorkerMoves
    BY <1>2, <1>8 DEF Output, Handles, ChainMoves, Renders, Discard, UserSync, DriverTick, WorkerMoves, logv
  <1>9. CASE Quit \/ ChainWorld \/ User \/ CloseWindow \/ OpenWindow \/ TimerTick \/ WorkerPanics \/ UserSubs \/ UNCHANGED vars
    BY <1>2, <1>9 DEF Quit, ChainWorld, User, CloseWindow, OpenWindow, TimerTick, WorkerPanics, UserSubs, vars, logv
  <1> QED BY <1>5, <1>6, <1>7, <1>8, <1>9 DEF Next, System

\* The page, over every step.
LEMMA PageLimits ==
  ASSUME Limits, Shapes, [Next]_vars
  PROVE  IsList(logs'.entries) /\ Len(logs'.entries) <= Keep
  <1>1. /\ IsList(logs.entries) /\ Len(logs.entries) <= Keep /\ IsList(wire) /\ Backlogs
        /\ DOMAIN logs = {"tab", "entries", "last", "on"}
    BY DEF Limits, Shapes
  <1>2. CASE logs'.entries = logs.entries
    BY <1>1, <1>2
  <1>3. CASE LogReceives
    <2>1. PICK e : e = Head(wire) /\ wire # <<>>
      BY <1>3 DEF LogReceives
    <2>2. \E a \in DOMAIN wire : e = wire[a]
      <3>1. Takes(wire, Tail(wire)) /\ Head(wire) = wire[1]
        BY <1>1, <2>1, TailTakes DEF Takes
      <3>2. 1 \in DOMAIN wire
        <4>1. PICK n : n = Len(wire)
          OBVIOUS
        <4> QED BY <3>1, <4>1 DEF Takes
      <3> QED BY <2>1, <3>1, <3>2
    <2>3. CASE OnLogLine(e.entry)
      <3>1. CASE logs.on
        <4>1. PICK x : x = <<e.entry>>
          OBVIOUS
        <4>2. logs' = Shown(logs, x) /\ IsList(x)
          BY <2>3, <3>1, <4>1, OneList DEF OnLogLine
        <4> QED BY <1>1, <4>2, ShownFits
      <3>2. CASE ~logs.on
        BY <1>2, <2>3, <3>2 DEF OnLogLine
      <3> QED BY <3>1, <3>2
    <2>4. CASE e.topic = "answer" /\ e.req.m = "logs.start" /\ StartAnswer(e.res.val)
      <3>1. PICK x : x = e.res.val
        OBVIOUS
      <3>2. IsList(x)
        BY <1>1, <2>2, <2>4, <3>1 DEF Backlogs
      <3>3. PICK u : u = Shown(logs, x)
        OBVIOUS
      <3>4. logs' = [u EXCEPT !.on = TRUE] /\ DOMAIN u = DOMAIN logs
        BY <2>4, <3>1, <3>3, ShownDomain DEF StartAnswer
      <3>5. logs'.entries = u.entries
        BY <1>1, <3>4
      <3> QED BY <1>1, <3>2, <3>3, <3>5, ShownFits
    <2> QED BY <1>2, <1>3, <2>1, <2>3, <2>4 DEF LogReceives
  <1>4. CASE LogUser
    BY <1>1, <1>2, <1>4 DEF LogUser, OpenTab, CloseTab
  <1>5. CASE CloseWindow
    <2>1. logs'.entries = <<>>
      BY <1>5 DEF CloseWindow, NoLogs
    <2>2. <<>> \in Seq({}) /\ Len(<<>>) = 0
      OBVIOUS
    <2> QED BY <2>1, <2>2, LogAssumption DEF IsList
  <1>6. CASE UNCHANGED logs
    BY <1>2, <1>6
  <1>7. CASE Output \/ Handles \/ ChainMoves \/ Renders \/ Discard \/ UserSync \/ LogHandles \/ LogPublishes \/ DriverTick \/ WorkerMoves
    BY <1>6, <1>7 DEF Output, Handles, ChainMoves, Renders, Discard, UserSync, LogHandles, LogsStart, LogsStartPoller, LogsTail,
                      LogsStop, LogsStopPoller, LogPublishes, PublishLine, DriverTick, WorkerMoves, logv
  <1>8. CASE Quit \/ ChainWorld \/ User \/ OpenWindow \/ TimerTick \/ WorkerPanics \/ UserSubs \/ UNCHANGED vars
    BY <1>6, <1>8 DEF Quit, ChainWorld, User, OpenWindow, TimerTick, WorkerPanics, UserSubs, vars, logv
  <1>9. CASE LogWorld \/ LogMoves
    BY <1>6, <1>9 DEF LogWorld, LogMoves, WriteLog, RotateLog, BridgeLog, OpenLog, PollReads, PollApply, PollFails, PollEnds
  <1> QED BY <1>3, <1>4, <1>5, <1>7, <1>8, <1>9 DEF Next, System

\* The backlogs, over every step.
LEMMA BacklogsStep ==
  ASSUME Limits, Shapes, Claimed, IsCalls(calls), [Next]_vars
  PROVE  Backlogs'
  <1>1. Backlogs /\ Plain(queue) /\ IsList(queue) /\ IsList(wire)
    BY DEF Limits, Channelled, Shapes
  <1>2. ASSUME Extended(calls, calls') PROVE Fewer
    BY <1>2, ExtendedAside, AsideFewer
  <1>3. ASSUME wire' = wire \/ (wire # <<>> /\ wire' = Tail(wire))
        PROVE  \A a \in DOMAIN wire' : \E b \in DOMAIN wire : wire'[a] = wire[b]
    <2>1. wire' = wire \/ Takes(wire, wire')
      BY <1>1, <1>3, TailTakes
    <2> QED BY <2>1, TakesSome
  <1>4. CASE Output
    BY <1>1, <1>4, OutputBacklogs
  <1>5. CASE LogHandles
    BY <1>1, <1>5, HandlesBacklogs
  <1>6. CASE LogUser \/ OpenWindow
    <2>1. PICK c : c.st = "new" /\ DOMAIN c = {"req", "st", "res"} /\ calls' = Append(calls, c)
      <3>1. CASE OpenTab
        <4>1. PICK c : c = Request("logs.start", <<>>)
          OBVIOUS
        <4> QED BY <3>1, <4>1 DEF OpenTab, Request
      <3>2. CASE CloseTab
        <4>1. PICK c : c = Request("logs.stop", <<>>)
          OBVIOUS
        <4> QED BY <3>2, <4>1 DEF CloseTab, Request
      <3>3. CASE OpenWindow
        <4>1. PICK r : r = Request("snapshot", <<>>)
          OBVIOUS
        <4>2. r.st = "new" /\ DOMAIN r = {"req", "st", "res"}
          BY <4>1 DEF Request
        <4>3. PICK c : c = [r EXCEPT !.req.win = win.gen + 1]
          OBVIOUS
        <4>4. c.st = "new" /\ DOMAIN c = {"req", "st", "res"}
          BY <4>2, <4>3
        <4> QED BY <3>3, <4>1, <4>3, <4>4 DEF OpenWindow
      <3> QED BY <1>6, <3>1, <3>2, <3>3 DEF LogUser
    <2>2. wire' = wire
      BY <1>6 DEF LogUser, OpenWindow
    <2> QED BY <1>1, <2>1, <2>2, AppendBacklogs
  <1>7. CASE Handles
    <2>1. Fewer
      BY <1>7, HandlesAside, AsideFewer
    <2> QED BY <1>1, <1>3, <1>7, <2>1, BacklogsStay DEF Handles
  <1>8. CASE Renders
    <2>1. Extended(calls, calls')
      BY <1>8, ReceivesOrderly, AutoConnectClaims DEF Renders
    <2>2. wire' = wire \/ (wire # <<>> /\ wire' = Tail(wire))
      BY <1>8 DEF Renders, DashReceives, IdleTimeout, AutoConnect
    <2> QED BY <1>1, <1>2, <1>3, <2>1, <2>2, BacklogsStay
  <1>9. CASE User
    <2>1. Extended(calls, calls') /\ wire' = wire
      BY <1>9, UserOrderly DEF User, ClickConnect, ClickDisconnect, ClickMode, ClickReconnect, ClickProbe, Clicks
    <2> QED BY <1>1, <1>2, <1>3, <2>1, BacklogsStay
  <1>10. CASE calls' = calls /\ (wire' = wire \/ (wire # <<>> /\ wire' = Tail(wire)))
    BY <1>1, <1>3, <1>10, SameFewer, BacklogsStay
  <1>11. CASE Discard \/ LogReceives
    BY <1>10, <1>11 DEF Discard, LogReceives
  <1>12. CASE ChainMoves \/ ChainWorld \/ UserSync \/ UserSubs \/ WorkerMoves \/ LogPublishes
    BY <1>10, <1>12 DEF ChainMoves, ChainWorld, BringUpDone, BringUpFails, ChainDrops, Noise, UserSync, UserSubs, WorkerMoves, LogPublishes
  <1>13. CASE Quit \/ CloseWindow \/ DriverTick \/ TimerTick \/ WorkerPanics \/ LogWorld \/ LogMoves \/ UNCHANGED vars
    BY <1>10, <1>13 DEF Quit, CloseInput, CloseWindow, DriverTick, TimerTick, WorkerPanics, LogWorld, LogMoves, vars, pipe
  <1> QED BY <1>4, <1>5, <1>6, <1>7, <1>8, <1>9, <1>11, <1>12, <1>13 DEF Next, System

LEMMA LimitsInit == ASSUME Init PROVE Limits
  <1>1. /\ queue = <<>> /\ wire = <<>> /\ lost = {} /\ buf = [seq |-> 0, ring |-> <<>>, subs |-> 0] /\ logs = NoLogs
        /\ subs \in [SubIds -> Urls \cup {New}]
    BY DEF Init, PipeInit, LogInit, RefreshInit
  <1>2. <<>> \in Seq({}) /\ Len(<<>>) = 0 /\ DOMAIN <<>> = {}
    OBVIOUS
  <1>3. Channelled /\ Len(wire) <= Pipe
    BY <1>1, <1>2, PipeAssumption DEF Channelled, Plain
  <1>4. subs \in [SubIds -> Urls \cup {New, Gone}]
    BY <1>1
  <1>5. buf.ring = <<>> /\ logs.entries = <<>>
    BY <1>1 DEF NoLogs
  <1>6. Len(buf.ring) <= 2 * Cap /\ IsList(logs.entries) /\ Len(logs.entries) <= Keep
    BY <1>2, <1>5, LogAssumption DEF IsList
  <1>7. Ready = {}
    <2>1. calls = <<>> \/ calls = <<Request("snapshot", <<>>)>>
      BY DEF Init, DashInit
    <2>2. PICK c : c = Request("snapshot", <<>>)
      OBVIOUS
    <2>3. c.st = "new"
      BY <2>2 DEF Request
    <2>4. DOMAIN <<c>> = {1} /\ <<c>>[1] = c
      BY OneList
    <2> QED BY <1>2, <2>1, <2>2, <2>3, <2>4 DEF Ready
  <1>8. Backlogs
    BY <1>1, <1>2, <1>7 DEF Backlogs
  <1> QED BY <1>3, <1>4, <1>6, <1>8 DEF Limits

LEMMA LimitsStep ==
  ASSUME Limits, Shapes, Streamed, Texts, Claimed, Asked, [Next]_vars
  PROVE  Limits'
  <1>1. Channelled' /\ Len(wire') <= Pipe
    BY PipeLimits
  <1>2. subs' \in [SubIds -> Urls \cup {New, Gone}]
    BY SubsLimits
  <1>3. Len(buf'.ring) <= 2 * Cap
    BY RingLimits
  <1>4. IsList(logs'.entries) /\ Len(logs'.entries) <= Keep
    BY PageLimits
  <1>5. Backlogs'
    BY BacklogsStep DEF Asked, Typed
  <1> QED BY <1>1, <1>2, <1>3, <1>4, <1>5 DEF Limits

\* The channel, the output, the rings and the page stay within their limits, however
\* events, answers and lines come, and the store, the sequence, the controller and the
\* driver are in states they know (Hub.Publish, append, Buffer.Add, the write lock).
THEOREM SessionTypes == Spec => []TypeOK
  <1>1. Limits /\ Asked /\ Draining /\ Rostered /\ Tabs => TypeOK
    <2> SUFFICES ASSUME Limits, Asked, Draining, Rostered, Tabs PROVE TypeOK
      OBVIOUS
    <2>1. PICK u : u = Now(calls)
      OBVIOUS
    <2>2. u.d = dash /\ u.f = flow
      BY <2>1 DEF Now
    <2>3. dash.status \in Statuses /\ dash.mode \in Modes /\ flow.kind \in {"none", "connect", "switch", "reconnect"}
          /\ flow.step \in {"none", "stop", "idle", "start"}
      BY <2>1, <2>2 DEF Asked, Typed, Fit
    <2>4. ctl.st \in {"idle", "starting", "up", "stopping"} /\ ctl.mode \in Modes /\ cfg.mode \in Modes
      BY DEF Asked, Typed, Settings
    <2>5. cancel \in Pollers \cup {0}
      BY DEF Tabs, Held
    <2> QED BY <2>3, <2>4, <2>5 DEF TypeOK, Limits, Channelled, Draining, Rostered, Statuses
  <1>2. Init => Limits /\ Asked /\ Shapes /\ Streamed /\ Texts /\ Slotted /\ Lone /\ Tabs /\ Draining /\ Claimed
    BY LimitsInit, AskedInit, ShapesInit, StreamedInit, TextsInit, SlotsInit, LoneInit, TabsInit, SessionInit
  <1>3. Limits /\ Asked /\ Shapes /\ Streamed /\ Texts /\ Slotted /\ Lone /\ Tabs /\ Draining /\ Claimed /\ [Next]_vars
          => (Limits /\ Asked /\ Shapes /\ Streamed /\ Texts /\ Slotted /\ Lone /\ Tabs /\ Draining /\ Claimed)'
    BY LimitsStep, AskedStep, ShapesStep, StreamedStep, TextsStep, SlotsStep, LoneStep, TabsStep, SessionStep
  <1>4. Init => Rostered /\ OneWorkerPerSub
    BY DEF Init, RefreshInit, Rostered, OneWorkerPerSub, Alive, NoGor
  <1>5. Rostered /\ OneWorkerPerSub /\ [Next]_vars => (Rostered /\ OneWorkerPerSub)'
    BY RosterStep
  <1> QED BY <1>1, <1>2, <1>3, <1>4, <1>5, PTL DEF Spec

(***************************************************************************)
(* The supervisor of the bridge: its inductive invariant IInv, for every   *)
(* set of children and of calls.                                           *)
(***************************************************************************)

\* The seconds of the window that must have passed, as far as they are
\* counted, when the bridge is back after restart number count.
Elapsed(count) == IF count = 0 THEN 0 ELSE IF count = 1 THEN 1
                  ELSE IF count = 2 THEN 6 ELSE IF count = 3 THEN 36
                  ELSE Window + 1

Types ==
  /\ child \in Children \cup {None} /\ client \in Children \cup {None}
  /\ unsubscribers \subseteq Children /\ listeners \subseteq Children
  /\ restartCount \in Int /\ windowAge \in Int /\ restartTimer \in Int
  /\ state \in {"starting", "running", "restarting", "failed"}
  /\ phase \in {"up", "quitting", "gone"}
  /\ stopping \in Children \cup {None}
  /\ proc \in [Children -> {"free", "running", "exited"}]
  /\ due \in [Children -> SUBSET {"error", "exit"}]
  /\ open \in [Children -> BOOLEAN]
  /\ pending \in [Children -> SUBSET Calls]

\* What the supervisor holds: a child, or a restart timer, or neither.
Holds ==
  /\ child # None => phase = "up" /\ restartTimer = Off /\ state = "running"
  /\ state = "starting" =>
       child = None /\ restartTimer = Off /\ restartCount = 0
  /\ restartTimer # Off => phase = "up" /\ child = None
  /\ stopping # None <=> phase = "quitting"
  /\ child # None => stopping = None

\* Only a process the supervisor holds or waits for runs, and one that owes
\* an event no longer does.
Processes == \A c \in Children :
  /\ proc[c] = "running" => c = child \/ c = stopping
  /\ due[c] # {} => proc[c] # "running"

\* Forwarded events are those of the current child, and can be detached.
Forwarding == listeners \subseteq unsubscribers /\ unsubscribers \subseteq {child} \ {None}

\* How far the window has advanced at each restart count.
Pace ==
  /\ restartCount \in 0..4 /\ windowAge \in 0..(Window + 1)
  /\ restartTimer \in {Off} \cup 0..30
  /\ state # "failed"
  /\ child # None => windowAge >= Elapsed(restartCount)
  /\ restartTimer # Off =>
       restartCount >= 1 /\ windowAge + restartTimer >= Elapsed(restartCount)
  /\ restartCount = 0 => windowAge = Window + 1

IInv == Types /\ Holds /\ Processes /\ Forwarding /\ Pace

USE NoneAssumption

(* Every initial state satisfies the invariant: no child, no timer, and a  *)
(* window that has already lapsed.                                         *)
LEMMA InitIInv == SupervisorInit => IInv
<1> SUFFICES ASSUME SupervisorInit PROVE IInv
  OBVIOUS
<1>1. Types
  BY DEF SupervisorInit, Types, Window, Off
<1>2. Holds /\ Processes /\ Forwarding
  BY DEF SupervisorInit, Holds, Processes, Forwarding
<1>3. Pace
  BY DEF SupervisorInit, Pace, Window, Off, Elapsed
<1> QED
  BY <1>1, <1>2, <1>3 DEF IInv

(* spawnOnce, run when nothing is held, makes its child the only one.      *)
LEMMA SpawnKeeps ==
  ASSUME IInv, NEW c \in Children, SpawnOnce(c), phase = "up", child = None,
         UNCHANGED <<restartCount, windowAge, phase, stopping>>,
         restartTimer' = Off, windowAge >= Elapsed(restartCount)
  PROVE  IInv'
<1> USE DEF IInv
<1>1. Types'
  BY DEF Types, SpawnOnce, Off
<1>2. stopping = None
  BY DEF Holds
<1>3. Holds'
  BY <1>2 DEF SpawnOnce, Types, Holds
<1>4. Processes'
  BY <1>2 DEF SpawnOnce, Types, Processes, Reusable
<1>5. Forwarding'
  BY DEF SpawnOnce, Types, Forwarding
<1>6. Pace'
  BY DEF SpawnOnce, Types, Pace, Off, Elapsed
<1> QED
  BY <1>1, <1>3, <1>4, <1>5, <1>6

(* handleExit of the current child keeps the pace: the count it reaches    *)
(* stays below the limit because the pauses have used up the window.       *)
LEMMA HandleExitKeeps ==
  ASSUME IInv, child # None, proc[child] # "running", HandleExit,
         UNCHANGED <<phase, stopping, proc, open, pending>>,
         due' \in [Children -> SUBSET {"error", "exit"}],
         \A c \in Children : due'[c] \subseteq due[c]
  PROVE  IInv'
<1> USE DEF IInv
<1>1. restartTimer = Off /\ phase = "up" /\ stopping = None
  BY DEF Holds
<1>2. windowAge > Window \/ restartCount + 1 \in 1..4
  BY DEF Pace, Elapsed, Window
<1>3. /\ state' = "restarting" /\ child' = None /\ client' = None
      /\ restartTimer' \in 0..30 /\ restartCount' \in 1..4
      /\ windowAge' \in 0..(Window + 1)
      /\ windowAge' + restartTimer' >= Elapsed(restartCount')
  BY <1>1, <1>2 DEF HandleExit, Pace, Elapsed, Window, MaxRestarts, Backoff
<1>4. listeners' = {} /\ unsubscribers' = {}
  BY DEF HandleExit, DetachClientEvents, Forwarding
<1>5. Types'
  BY <1>1, <1>3, <1>4 DEF Types
<1>6. Holds'
  BY <1>1, <1>3 DEF Holds
<1>7. Processes'
  BY <1>1, <1>3 DEF Processes, Types
<1>8. Forwarding'
  BY <1>4 DEF Forwarding
<1>9. Pace'
  BY <1>3 DEF Pace, Off
<1> QED
  BY <1>5, <1>6, <1>7, <1>8, <1>9

(* A step that leaves the supervisor, the phase and the processes' running *)
(* alone, or only ends a process, keeps the invariant.                     *)
LEMMA EnvironmentKeeps ==
  ASSUME IInv, UNCHANGED <<supVars, phase, stopping>>,
         proc' \in [Children -> {"free", "running", "exited"}],
         due' \in [Children -> SUBSET {"error", "exit"}],
         open' \in [Children -> BOOLEAN], pending' \in [Children -> SUBSET Calls],
         \A c \in Children : proc'[c] = "running" => proc[c] = "running" /\ due'[c] \subseteq due[c]
  PROVE  IInv'
<1> USE DEF IInv, supVars
<1>1. Types'
  BY DEF Types
<1>2. Holds'
  BY DEF Holds
<1>3. Processes'
  BY DEF Processes
<1>4. Forwarding'
  BY DEF Forwarding
<1>5. Pace'
  BY DEF Pace
<1> QED
  BY <1>1, <1>2, <1>3, <1>4, <1>5

(* Every step of main, of Node or of the clock keeps the invariant.        *)
LEMMA NextIInv == IInv /\ [SupervisorNext]_supervisorVars => IInv'
<1> SUFFICES ASSUME IInv, [SupervisorNext]_supervisorVars PROVE IInv'
  OBVIOUS
<1> USE DEF IInv
<1>1. CASE Start
  <2>1. PICK c \in Children : SpawnOnce(c)
    BY <1>1 DEF Start
  <2>2. child = None /\ restartTimer = Off /\ windowAge >= Elapsed(restartCount)
    BY <1>1 DEF Start, Holds, Pace, Elapsed, Window
  <2> QED
    BY <1>1, <2>1, <2>2, SpawnKeeps DEF Start
<1>2. CASE Restart
  <2>1. PICK c \in Children : SpawnOnce(c)
    BY <1>2 DEF Restart
  <2>2. child = None /\ windowAge >= Elapsed(restartCount)
    BY <1>2 DEF Restart, Holds, Pace, Types, Off, Elapsed, Window
  <2> QED
    BY <1>2, <2>1, <2>2, SpawnKeeps DEF Restart
<1>3. CASE BeforeQuit
  <2>1. Types'
    BY <1>3 DEF BeforeQuit, Stop, DetachClientEvents, Types, Off, procVars
  <2>2. Holds'
    BY <1>3 DEF BeforeQuit, Stop, Holds, Types
  <2>3. Processes'
    BY <1>3 DEF BeforeQuit, Stop, Processes, Holds, procVars
  <2>4. Forwarding'
    BY <1>3 DEF BeforeQuit, Stop, DetachClientEvents, Forwarding
  <2>5. Pace'
    BY <1>3 DEF BeforeQuit, Stop, Pace
  <2> QED
    BY <2>1, <2>2, <2>3, <2>4, <2>5
<1>4. CASE StopTimeout
  <2>1. stopping \in Children /\ child = None
    BY <1>4 DEF StopTimeout, Holds, Types
  <2>2. Types'
    BY <1>4, <2>1 DEF StopTimeout, Types, supVars
  <2>3. Holds'
    BY <1>4, <2>1 DEF StopTimeout, Holds, supVars
  <2>4. Processes'
    BY <1>4, <2>1 DEF StopTimeout, Processes, Types, supVars
  <2>5. Forwarding' /\ Pace'
    BY <1>4 DEF StopTimeout, Forwarding, Pace, supVars
  <2> QED
    BY <2>2, <2>3, <2>4, <2>5
<1>5. CASE Tick
  <2>1. Types'
    BY <1>5 DEF Tick, Types, procVars
  <2>2. Holds'
    BY <1>5 DEF Tick, Holds, Types, Off
  <2>3. Processes' /\ Forwarding'
    BY <1>5 DEF Tick, Processes, Forwarding, procVars
  <2>4. Pace'
    BY <1>5 DEF Tick, Pace, Types, Off, Elapsed, Window
  <2> QED
    BY <2>1, <2>2, <2>3, <2>4
<1>6. ASSUME NEW id \in Calls, Call(id) PROVE IInv'
  <2>1. pending' \in [Children -> SUBSET Calls]
    BY <1>6 DEF Call, Types
  <2> QED
    BY <1>6, <2>1, EnvironmentKeeps DEF Call, Types, procVars
<1>7. ASSUME NEW c \in Children, OnError(c) PROVE IInv'
  <2>1. /\ due' \in [Children -> SUBSET {"error", "exit"}]
        /\ \A d \in Children : due'[d] \subseteq due[d]
    BY <1>7 DEF OnError, Types
  <2>2. CASE HandlesEventOf(c)
    <3>1. child = c /\ proc[child] # "running"
      BY <1>7, <2>2 DEF OnError, HandlesEventOf, Processes
    <3> QED
      BY <1>7, <2>1, <2>2, <3>1, HandleExitKeeps DEF OnError
  <2>3. CASE ~HandlesEventOf(c)
    BY <1>7, <2>1, <2>3, EnvironmentKeeps DEF OnError, Types
  <2> QED
    BY <2>2, <2>3
<1>8. ASSUME NEW c \in Children, OnExit(c) PROVE IInv'
  <2>1. /\ due' \in [Children -> SUBSET {"error", "exit"}]
        /\ \A d \in Children : due'[d] \subseteq due[d]
    BY <1>8 DEF OnExit, Types
  <2>2. proc[c] # "running"
    BY <1>8 DEF OnExit, Processes
  <2>3. CASE HandlesEventOf(c)
    <3>1. child = c /\ stopping = None
      BY <1>8, <2>3 DEF HandlesEventOf, Holds
    <3> QED
      BY <1>8, <2>1, <2>2, <2>3, <3>1, HandleExitKeeps DEF OnExit
  <2>4. CASE ~HandlesEventOf(c) /\ stopping # c
    BY <1>8, <2>1, <2>4, EnvironmentKeeps DEF OnExit, Types
  <2>5. CASE ~HandlesEventOf(c) /\ stopping = c
    <3>1. child = None
      BY <2>5 DEF Holds
    <3>2. Types'
      BY <1>8, <2>1, <2>5 DEF OnExit, Types, supVars
    <3>3. Holds'
      BY <1>8, <2>5, <3>1 DEF OnExit, Holds, supVars
    <3>4. Processes'
      BY <1>8, <2>1, <2>2, <2>5 DEF OnExit, Processes, supVars
    <3>5. Forwarding' /\ Pace'
      BY <1>8, <2>5 DEF OnExit, Forwarding, Pace, supVars
    <3> QED
      BY <3>2, <3>3, <3>4, <3>5
  <2> QED
    BY <2>3, <2>4, <2>5
<1>9. ASSUME NEW c \in Children, OnStdoutClose(c) PROVE IInv'
  <2>1. open' \in [Children -> BOOLEAN] /\ pending' \in [Children -> SUBSET Calls]
    BY <1>9 DEF OnStdoutClose, FailAll, Types
  <2> QED
    BY <1>9, <2>1, EnvironmentKeeps DEF OnStdoutClose, Types
<1>10. ASSUME NEW c \in Children, ProcessExits(c) \/ SpawnFails(c) PROVE IInv'
  <2>1. /\ proc' \in [Children -> {"free", "running", "exited"}]
        /\ due' \in [Children -> SUBSET {"error", "exit"}]
    BY <1>10 DEF ProcessExits, SpawnFails, Types
  <2>2. \A d \in Children : proc'[d] = "running" => proc[d] = "running" /\ due'[d] \subseteq due[d]
    BY <1>10 DEF ProcessExits, SpawnFails, Types
  <2> QED
    BY <1>10, <2>1, <2>2, EnvironmentKeeps DEF ProcessExits, SpawnFails, Types
<1>11. ASSUME NEW c \in Children, NEW id \in Calls, Response(c, id) PROVE IInv'
  <2>1. pending' \in [Children -> SUBSET Calls]
    BY <1>11 DEF Response, Types
  <2> QED
    BY <1>11, <2>1, EnvironmentKeeps DEF Response, Types, procVars
<1>12. CASE UNCHANGED supervisorVars
  BY <1>12, EnvironmentKeeps DEF supervisorVars, procVars, Types
<1> QED
  BY <1>1, <1>2, <1>3, <1>4, <1>5, <1>6, <1>7, <1>8, <1>9, <1>10, <1>11, <1>12
  DEF SupervisorNext

(* The inductive invariant holds in every reachable state.                 *)
THEOREM Invariant == SupervisorSpec => []IInv
BY InitIInv, NextIInv, PTL DEF SupervisorSpec

(* Every variable keeps its type; in particular restartCount, windowAge    *)
(* and the timer stay within the ranges the model gives them.              *)
THEOREM TypeCorrect == SupervisorSpec => []SupervisorTypeOK
<1>1. IInv => SupervisorTypeOK
  BY DEF IInv, Types, Pace, SupervisorTypeOK, MaxRestarts, Window, Off
<1> QED
  BY <1>1, Invariant, PTL

(* However late a dead child's events are, no second bridge is started     *)
(* beside a running one, and none outlives the application.                *)
THEOREM NoOrphans == SupervisorSpec => []NoOrphanBridge
<1>1. IInv => NoOrphanBridge
  BY DEF IInv, Types, Holds, Processes, NoOrphanBridge
<1> QED
  BY <1>1, Invariant, PTL

(* What an old bridge wrote is never forwarded as the current one's.       *)
THEOREM EventsFollow == SupervisorSpec => []EventsOfCurrentBridge
<1>1. IInv => EventsOfCurrentBridge
  BY DEF IInv, Forwarding, EventsOfCurrentBridge
<1> QED
  BY <1>1, Invariant, PTL

(* One bridge at a time, and only that one is heard.                       *)
THEOREM OneBridgeHolds == SupervisorSpec => []OneBridge
<1>1. NoOrphanBridge /\ EventsOfCurrentBridge => OneBridge
  BY DEF OneBridge
<1> QED
  BY <1>1, NoOrphans, EventsFollow, PTL

(* The "failed" branch of handleExit is dead code: whenever a bridge dies  *)
(* after four restarts, the pauses before them have used up the window.    *)
THEOREM FailedUnreachable == SupervisorSpec => []NeverGivesUp
<1>1. IInv => NeverGivesUp
  BY DEF IInv, Pace, NeverGivesUp
<1> QED
  BY <1>1, Invariant, PTL
=============================================================================
