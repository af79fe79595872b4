----------------------- MODULE HelperRouting_proofs ------------------------
(***************************************************************************)
(* Theorems of HelperRouting, for any number of sessions, any length of    *)
(* the inbox and any combination of faults.  What the client knows of the  *)
(* helper is inductive only together with where the exchange in progress   *)
(* is: which request is on its way, what it was answered and what the      *)
(* helper can have become since (Calm...).                                 *)
(***************************************************************************)
EXTENDS HelperRouting, SequenceTheorems, TLAPS

Requests == [op: Ops, id: Sessions \cup {NoSession}, live: BOOLEAN]
Calls == [op: Ops \cup {"none"}, at: {"none", "dial", "sent", "back"},
          try: 0 .. 2, reply: Replies, val: Sessions \cup {NoSession}]
Cores == [running: BOOLEAN, xray: BOOLEAN, sbox: BOOLEAN]

\* TypeOK, by who owns the variable.
HelperTypes ==
  /\ sess \in Sessions \cup {NoSession} /\ state \in {"down", "up", "dirty"}
  /\ past \subseteq Sessions
  /\ alive \in BOOLEAN /\ inbox \in Seq(Requests)

ClientTypes ==
  /\ plat \in Platforms /\ active \in {"none", "core", "daemon"}
  /\ conn \in {"none", "open", "broken"} /\ sid \in Sessions \cup {NoSession}
  /\ core \in Cores /\ call \in Calls

ControlTypes ==
  /\ drv \in {"boot", "idle", "start", "up", "stop", "drop"}
  /\ mode \in Modes /\ pending \in BOOLEAN /\ rec \in BOOLEAN
  /\ faults \in FaultSets /\ lost \subseteq {"broken", "timeout", "cancel"}

\* A helper that is not down has a session, one that does not run has none,
\* and only a call that was begun is dialled or repeated.
Served ==
  /\ state # "down" => sess \in Sessions
  /\ ~alive => state = "down" /\ inbox = << >>
  /\ call.op = "none" => call.try = 0 /\ call.at \in {"none", "back"}

TypeInv == HelperTypes /\ ClientTypes /\ ControlTypes /\ Served

\* Who uses the in-process core, and what is latched while a call is made.
CoreInv ==
  /\ drv = "idle" => call.op = "none"
  /\ core.xray \/ core.sbox => core.running
  /\ core.running => drv = "up" /\ active = "core" /\ call.op = "none" /\ plat = "linux"
  /\ plat = "windows" => active = "none"
  /\ plat = "linux" /\ drv = "start" => active = "daemon"
  /\ plat = "linux" /\ drv = "up" /\ ~core.running => active = "daemon"

\* On Linux, as long as every exchange is answered and the bridge lives.
Calm == plat = "linux" /\ lost = {} /\ "exit" \notin faults

\* The exchange of each thing the controller does.
CalmCalls ==
  /\ drv # "boot"
  /\ drv = "idle" => call = NoCall
  /\ drv = "start" => call.op = "start"
  /\ drv \in {"stop", "drop"} => call.op = "stop"
  /\ drv = "up" => call = NoCall \/ call.op = "status"
  /\ call.op # "none" => call.at # "none" /\ call.try # 0
  /\ call.at = "dial" /\ call.try = 2 => conn = "none"

\* The request that is awaited is the only one on its way.
CalmInbox ==
  /\ call.at # "sent" => inbox = << >>
  /\ call.at = "sent" =>
       /\ Len(inbox) = 1 /\ inbox[1].live /\ inbox[1].op = call.op
       /\ call.op = "stop" => inbox[1].id = sid

\* The id the client holds is the helper's, or it is about to learn it.
CalmId ==
  state # "down" =>
    \/ sid \in {NoSession, sess}
    \/ call.op = "start" /\ call.at = "back" /\ call.reply = "ok"

\* What the helper can be, given the answer there is.
CalmState ==
  /\ drv = "idle" => state # "up"
  /\ core.running => state # "up"
  /\ call.op = "start" =>
       /\ call.at \in {"dial", "sent"} => state # "up"
       /\ call.at = "back" => call.reply \in {"ok", "err"}
       /\ call.at = "back" /\ call.reply = "err" => state # "up"
       /\ call.at = "back" /\ call.reply = "ok" /\ state # "down" => call.val = sess
  /\ call.op = "stop" /\ call.at = "back" =>
       /\ state # "up"
       /\ call.reply = "ok" => state = "down"
  /\ call.op = "status" /\ call.at = "back" /\ call.reply \in {"down", "dirty"} =>
       state # "up"

CalmInv == Calm => CalmCalls /\ CalmInbox /\ CalmId /\ CalmState

\* The invariant.
AllInv == TypeInv /\ CoreInv /\ CalmInv

(***************************************************************************)
(* The inbox.                                                              *)
(***************************************************************************)
\* Forsaking requests keeps them in their places.
LEMMA ForsakeKeeps ==
  ASSUME inbox \in Seq(Requests), Forsake
  PROVE  /\ inbox' \in Seq(Requests)
         /\ inbox = << >> => inbox' = << >>
<1>1. DOMAIN inbox = 1 .. Len(inbox) /\ Len(inbox) \in Nat
      /\ inbox \in [1 .. Len(inbox) -> Requests]
  BY LenProperties
<1>2. inbox' \in [1 .. Len(inbox) -> Requests]
  BY <1>1 DEF Forsake, Requests
<1>3. inbox' \in Seq(Requests)
  BY <1>1, <1>2, SeqDef
<1>4. inbox = << >> => inbox' = << >>
  BY <1>1, <1>2, <1>3, EmptySeq
<1> QED BY <1>3, <1>4

\* Handling a request takes it out and leaves the others.
LEMMA RemoveKeeps ==
  ASSUME inbox \in Seq(Requests), NEW i \in DOMAIN inbox,
         NEW rest, rest = SubSeq(inbox, 1, i - 1) \o SubSeq(inbox, i + 1, Len(inbox))
  PROVE  /\ inbox[i] \in Requests
         /\ rest \in Seq(Requests)
         /\ Len(inbox) = 1 => rest = << >>
<1> DEFINE a == SubSeq(inbox, 1, i - 1)
           b == SubSeq(inbox, i + 1, Len(inbox))
<1>1. DOMAIN inbox = 1 .. Len(inbox) /\ Len(inbox) \in Nat
      /\ i \in 1 .. Len(inbox)
      /\ \A n \in 1 .. Len(inbox) : inbox[n] \in Requests
  BY LenProperties, ElementOfSeq
<1>2. a \in Seq(Requests) /\ Len(a) = IF 1 <= i - 1 THEN i - 1 ELSE 0
  <2>1. 1 \in Int /\ i - 1 \in Int /\ \A n \in 1 .. i - 1 : inbox[n] \in Requests
    BY <1>1
  <2> QED BY <2>1, SubSeqProperties
<1>3. b \in Seq(Requests) /\ Len(b) = IF i + 1 <= Len(inbox) THEN Len(inbox) - i ELSE 0
  <2>1. i + 1 \in Int /\ Len(inbox) \in Int
        /\ \A n \in i + 1 .. Len(inbox) : inbox[n] \in Requests
    BY <1>1
  <2>2. b \in Seq(Requests) /\ Len(b) = IF i + 1 <= Len(inbox) THEN Len(inbox) - (i + 1) + 1 ELSE 0
    BY <2>1, SubSeqProperties
  <2> QED BY <1>1, <2>2
<1>4. rest \in Seq(Requests) /\ Len(rest) = Len(a) + Len(b)
  BY <1>2, <1>3, ConcatProperties
<1>5. Len(inbox) = 1 => Len(rest) = 0
  BY <1>1, <1>2, <1>3, <1>4
<1> QED BY <1>1, <1>4, <1>5, EmptySeq

(***************************************************************************)
(* The exchange.                                                           *)
(***************************************************************************)
LEMMA NoCallFields ==
  /\ NoCall \in Calls /\ NoCall.op = "none" /\ NoCall.at = "none" /\ NoCall.try = 0
  /\ NoCall.reply = "none"
  BY DEF NoCall, Calls, Ops, Replies

LEMMA BeginFields ==
  ASSUME NEW o \in Ops, Begin(o)
  PROVE  /\ call' \in Calls /\ call'.op = o /\ call'.at = "dial" /\ call'.try = 1
         /\ call'.reply = "none"
<1>1. call' = [op |-> o, at |-> "dial", try |-> 1, reply |-> "none", val |-> NoSession]
  BY DEF Begin, NoCall
<1>2. 1 \in 0 .. 2 /\ o \in Ops \cup {"none"} /\ "none" \in Replies
  BY DEF Replies
<1>3. call' \in Calls
  BY <1>1, <1>2 DEF Calls
<1> QED BY <1>1, <1>3

LEMMA FailedFields ==
  ASSUME call \in Calls, Failed
  PROVE  /\ call' \in Calls /\ call'.op = call.op /\ conn' = "none"
         /\ Retries => call'.at = "dial" /\ call'.try = 2
         /\ ~Retries => call'.at = "back" /\ call'.try = call.try /\ call'.reply = "err"
<1>1. 2 \in 0 .. 2 /\ {"none", "err"} \subseteq Replies
  BY DEF Replies
<1>2. CASE Retries
  <2>1. call' = [call EXCEPT !.at = "dial", !.try = 2, !.reply = "none"] /\ conn' = "none"
    BY <1>2 DEF Failed
  <2> QED BY <1>1, <1>2, <2>1 DEF Calls
<1>3. CASE ~Retries
  <2>1. call' = [call EXCEPT !.at = "back", !.reply = "err"] /\ conn' = "none"
    BY <1>3 DEF Failed
  <2> QED BY <1>1, <1>3, <2>1 DEF Calls
<1> QED BY <1>2, <1>3

LEMMA AnswerFields ==
  ASSUME call \in Calls, NEW r, NEW reply \in Replies, NEW val \in Sessions \cup {NoSession},
         Answer(r, reply, val)
  PROVE  /\ call' \in Calls /\ call'.op = call.op /\ call'.try = call.try
         /\ call'.at \in {call.at, "back"}
         /\ r.live => call'.at = "back" /\ call'.reply = reply /\ call'.val = val
<1>1. CASE r.live
  <2>1. call' = [call EXCEPT !.at = "back", !.reply = reply, !.val = val]
    BY <1>1 DEF Answer
  <2> QED BY <1>1, <2>1 DEF Calls
<1>2. CASE ~r.live
  BY <1>2 DEF Answer
<1> QED BY <1>1, <1>2

(***************************************************************************)
(* The in-process core.                                                    *)
(***************************************************************************)
LEMMA CoreSet ==
  ASSUME NEW c \in Cores, NEW b \in BOOLEAN
  PROVE  LET d == [c EXCEPT !.running = b] IN
           d \in Cores /\ d.running = b /\ d.xray = c.xray /\ d.sbox = c.sbox
  BY DEF Cores

\* Both engines run after a start that succeeded, none after one that failed.
LEMMA ManagerStarts ==
  ASSUME NEW c \in Cores, ~c.xray, ~c.sbox, NEW xok \in BOOLEAN, NEW sok \in BOOLEAN
  PROVE  LET d == ManagerStart(c, xok, sok) IN
           /\ d \in Cores
           /\ d.xray \/ d.sbox => xok /\ sok
  BY DEF Cores, ManagerStart, XrayStart, SingboxStart, XrayClose, SingboxClose

LEMMA ManagerStops ==
  ASSUME NEW c \in Cores
  PROVE  LET d == ManagerStop(c) IN d \in Cores /\ ~d.xray /\ ~d.sbox
  BY DEF Cores, ManagerStop, XrayClose, SingboxClose

LEMMA CoreStarts ==
  ASSUME core \in Cores, core.xray \/ core.sbox => core.running, ~core.running,
         NEW ok \in BOOLEAN, CoreStartChain(ok)
  PROVE  /\ core' \in Cores /\ core'.running = ok
         /\ core'.xray \/ core'.sbox => core'.running
<1>1. PICK xok \in BOOLEAN, sok \in BOOLEAN :
        /\ ok = (xok /\ sok)
        /\ core' = [ManagerStart(core, xok, sok) EXCEPT !.running = ok]
  BY DEF CoreStartChain
<1>2. /\ ManagerStart(core, xok, sok) \in Cores
      /\ ManagerStart(core, xok, sok).xray \/ ManagerStart(core, xok, sok).sbox => ok
  BY <1>1, ManagerStarts
<1> QED BY <1>1, <1>2, CoreSet

LEMMA CoreStops ==
  ASSUME core \in Cores, core.xray \/ core.sbox => core.running,
         NEW ok \in BOOLEAN, CoreStopChain(ok)
  PROVE  core' \in Cores /\ ~core'.running /\ ~core'.xray /\ ~core'.sbox
<1>1. CASE core.running
  <2>1. core' = [ManagerStop(core) EXCEPT !.running = FALSE]
    BY <1>1 DEF CoreStopChain
  <2> QED BY <2>1, ManagerStops, CoreSet
<1>2. CASE ~core.running
  BY <1>2 DEF CoreStopChain
<1> QED BY <1>1, <1>2

(***************************************************************************)
(* Every step keeps the invariant.                                         *)
(***************************************************************************)
LEMMA WriteKeeps == ASSUME AllInv, Write PROVE AllInv'
<1> USE DEF AllInv
<1> DEFINE r == [op |-> call.op, live |-> TRUE,
                 id |-> IF call.op = "stop" THEN sid ELSE NoSession]
<1>1. /\ call.at = "dial" /\ alive /\ conn # "broken" /\ conn' = "open"
      /\ inbox' = Append(inbox, r) /\ call' = [call EXCEPT !.at = "sent"]
      /\ UNCHANGED <<sess, state, past, alive, plat, active, sid, core, drv, mode, pending,
                     rec, faults, lost>>
  BY DEF Write, Connected, helper, ctl
<1>2. call \in Calls /\ inbox \in Seq(Requests) /\ sid \in Sessions \cup {NoSession}
      /\ call.op # "none"
  BY <1>1 DEF TypeInv, HelperTypes, ClientTypes, Served
<1>3. call' \in Calls /\ call'.op = call.op /\ call'.at = "sent" /\ call'.try = call.try
      /\ call.op \in Ops
  BY <1>1, <1>2 DEF Calls
<1>4. r \in Requests /\ r.live /\ r.op = call.op /\ (call.op = "stop" => r.id = sid)
  BY <1>2, <1>3 DEF Requests
<1> HIDE DEF r
<1>5. inbox' \in Seq(Requests) /\ (inbox = << >> => Len(inbox') = 1 /\ inbox'[1] = r)
  BY <1>1, <1>2, <1>4, AppendProperties
<1>6. TypeInv'
  BY <1>1, <1>2, <1>3, <1>5 DEF TypeInv, HelperTypes, ClientTypes, ControlTypes, Served
<1>7. CoreInv'
  BY <1>1, <1>3 DEF CoreInv
<1>8. CalmInv'
  <2> SUFFICES ASSUME Calm PROVE CalmCalls' /\ CalmInbox' /\ CalmId' /\ CalmState'
    BY <1>1 DEF CalmInv, Calm
  <2>1. CalmCalls /\ CalmInbox /\ CalmId /\ CalmState
    BY DEF CalmInv
  <2>2. CalmCalls'
    BY <1>1, <1>3, <2>1, NoCallFields DEF CalmCalls
  <2>3. CalmInbox'
    BY <1>1, <1>3, <1>4, <1>5, <2>1 DEF CalmInbox
  <2> QED BY <1>1, <1>3, <2>1, <2>2, <2>3 DEF CalmId, CalmState
<1> QED BY <1>6, <1>7, <1>8

LEMMA CannotWriteKeeps == ASSUME AllInv, CannotWrite PROVE AllInv'
<1> USE DEF AllInv
<1>1. /\ call.at = "dial" /\ (~alive \/ conn = "broken") /\ Failed
      /\ UNCHANGED <<sess, state, past, alive, inbox, plat, active, sid, core, drv, mode,
                     pending, rec, faults, lost>>
  BY DEF CannotWrite, helper, ctl
<1>2. call \in Calls /\ call.op # "none"
  BY <1>1 DEF TypeInv, ClientTypes, Served
<1>3. /\ call' \in Calls /\ call'.op = call.op /\ conn' = "none"
      /\ Retries => call'.at = "dial" /\ call'.try = 2
      /\ ~Retries => call'.at = "back" /\ call'.try = call.try /\ call'.reply = "err"
  BY <1>1, <1>2, FailedFields
<1>4. TypeInv'
  BY <1>1, <1>2, <1>3 DEF TypeInv, HelperTypes, ClientTypes, ControlTypes, Served
<1>5. CoreInv'
  BY <1>1, <1>3 DEF CoreInv
<1>6. CalmInv'
  <2> SUFFICES ASSUME Calm PROVE CalmCalls' /\ CalmInbox' /\ CalmId' /\ CalmState'
    BY <1>1 DEF CalmInv, Calm
  <2>1. CalmCalls /\ CalmInbox /\ CalmId /\ CalmState /\ call.try \in 0 .. 2
    BY <1>2 DEF CalmInv, Calls
  <2>2. CalmCalls'
    BY <1>1, <1>2, <1>3, <2>1, NoCallFields DEF CalmCalls
  <2>3. ~Retries => ~alive
    BY <1>1, <1>2, <2>1 DEF CalmCalls, Retries, Calm
  <2>4. ~Retries => state = "down"
    BY <2>3 DEF TypeInv, Served
  <2>5. CalmInbox' /\ CalmId'
    BY <1>1, <1>3, <2>1 DEF CalmInbox, CalmId
  <2>6. CalmState'
    BY <1>1, <1>3, <2>1, <2>4 DEF CalmState
  <2> QED BY <2>2, <2>5, <2>6
<1> QED BY <1>4, <1>5, <1>6

LEMMA LoseKeeps == ASSUME AllInv, Lose PROVE AllInv'
<1> USE DEF AllInv
<1>1. /\ call.at = "sent" /\ Forsake /\ Failed /\ lost' = lost \cup {"broken"}
      /\ UNCHANGED <<sess, state, past, alive, plat, active, sid, core, drv, mode,
                     pending, rec, faults>>
  BY DEF Lose, helper, ctl
<1>2. call \in Calls /\ call.op # "none" /\ inbox \in Seq(Requests)
  BY <1>1 DEF TypeInv, HelperTypes, ClientTypes, Served
<1>3. call' \in Calls /\ call'.op = call.op /\ conn' = "none"
  BY <1>1, <1>2, FailedFields
<1>4. inbox' \in Seq(Requests) /\ (inbox = << >> => inbox' = << >>)
  BY <1>1, <1>2, ForsakeKeeps
<1>5. TypeInv'
  BY <1>1, <1>2, <1>3, <1>4 DEF TypeInv, HelperTypes, ClientTypes, ControlTypes, Served
<1>6. CoreInv'
  BY <1>1, <1>3 DEF CoreInv
<1>7. CalmInv'
  BY <1>1 DEF CalmInv, Calm
<1> QED BY <1>5, <1>6, <1>7

LEMMA ReadKeeps == ASSUME AllInv, Read PROVE AllInv'
<1> USE DEF AllInv
<1>1. /\ call.at = "back" /\ call.reply = "err" /\ Retries /\ Failed
      /\ UNCHANGED <<sess, state, past, alive, inbox, plat, active, sid, core, drv, mode,
                     pending, rec, faults, lost>>
  BY DEF Read, helper, ctl
<1>2. call \in Calls /\ call.try = 1 /\ call.op # "none"
  BY <1>1 DEF TypeInv, ClientTypes, Served, Retries
<1>3. /\ call' \in Calls /\ call'.op = call.op /\ conn' = "none"
      /\ call'.at = "dial" /\ call'.try = 2
  BY <1>1, <1>2, FailedFields
<1>4. TypeInv'
  BY <1>1, <1>2, <1>3 DEF TypeInv, HelperTypes, ClientTypes, ControlTypes, Served
<1>5. CoreInv'
  BY <1>1, <1>3 DEF CoreInv
<1>6. CalmInv'
  <2> SUFFICES ASSUME Calm PROVE CalmCalls' /\ CalmInbox' /\ CalmId' /\ CalmState'
    BY <1>1 DEF CalmInv, Calm
  <2>1. CalmCalls /\ CalmInbox /\ CalmId /\ CalmState
    BY DEF CalmInv
  <2>2. CalmCalls'
    BY <1>1, <1>2, <1>3, <2>1, NoCallFields DEF CalmCalls
  <2>3. CalmInbox' /\ CalmId'
    BY <1>1, <1>3, <2>1 DEF CalmInbox, CalmId
  <2>4. CalmState'
    BY <1>1, <1>3, <2>1 DEF CalmState
  <2> QED BY <2>2, <2>3, <2>4
<1> QED BY <1>4, <1>5, <1>6

\* What handling a request does to the helper and to the exchange, whoever
\* waits for the answer.
Handled ==
  /\ sess' \in Sessions \cup {NoSession} /\ state' \in {"down", "up", "dirty"}
  /\ past' \subseteq Sessions /\ (state' # "down" => sess' \in Sessions)
  /\ call' \in Calls /\ call'.op = call.op /\ call'.try = call.try
  /\ call'.at \in {call.at, "back"}

LEMMA HandleStartEffect ==
  ASSUME TypeInv, NEW r, HandleStart(r)
  PROVE  /\ Handled
         /\ r.live => /\ call'.at = "back" /\ call'.reply \in {"ok", "err"}
                      /\ call'.reply = "ok" => call'.val = sess'
                      /\ call'.reply = "err" => UNCHANGED <<sess, state>>
<1>1. /\ call \in Calls /\ sess \in Sessions \cup {NoSession} /\ past \subseteq Sessions
      /\ state \in {"down", "up", "dirty"} /\ (state # "down" => sess \in Sessions)
      /\ {"ok", "err"} \subseteq Replies
  BY DEF TypeInv, HelperTypes, ClientTypes, Served, Replies
<1>2. ASSUME NEW s \in Sessions, Helper!Started(s), Answer(r, "ok", s)
      PROVE  /\ Handled
             /\ r.live => call'.at = "back" /\ call'.reply = "ok" /\ call'.val = sess'
  <2>1. /\ call' \in Calls /\ call'.op = call.op /\ call'.try = call.try
        /\ call'.at \in {call.at, "back"}
        /\ r.live => call'.at = "back" /\ call'.reply = "ok" /\ call'.val = s
    BY <1>1, <1>2, AnswerFields
  <2>2. sess' = s /\ state' = "up" /\ past' = past
    BY <1>2 DEF Helper!Started
  <2> QED BY <1>1, <2>1, <2>2 DEF Handled
<1>3. ASSUME Answer(r, "err", NoSession), UNCHANGED helper
      PROVE  /\ Handled /\ UNCHANGED <<sess, state>>
             /\ r.live => call'.at = "back" /\ call'.reply = "err"
  <2>1. /\ call' \in Calls /\ call'.op = call.op /\ call'.try = call.try
        /\ call'.at \in {call.at, "back"}
        /\ r.live => call'.at = "back" /\ call'.reply = "err"
    BY <1>1, <1>3, AnswerFields
  <2>2. sess' = sess /\ state' = state /\ past' = past
    BY <1>3 DEF helper
  <2> QED BY <1>1, <2>1, <2>2 DEF Handled
<1> QED BY <1>2, <1>3 DEF HandleStart

LEMMA HandleStopEffect ==
  ASSUME TypeInv, NEW r, HandleStop(r)
  PROVE  /\ Handled
         /\ r.live => /\ call'.at = "back" /\ call'.reply \in {"ok", "err", "partial"}
                      /\ call'.reply = "ok" => state' = "down"
                      /\ call'.reply = "partial" => state' = "dirty"
                      /\ call'.reply = "err" => state # "down" /\ r.id \notin {NoSession, sess}
         /\ state' # "down" => UNCHANGED sess /\ state # "down"
<1>1. /\ call \in Calls /\ sess \in Sessions \cup {NoSession} /\ past \subseteq Sessions
      /\ state \in {"down", "up", "dirty"} /\ (state # "down" => sess \in Sessions)
      /\ {"ok", "err", "partial"} \subseteq Replies
  BY DEF TypeInv, HelperTypes, ClientTypes, Served, Replies
<1>2. ASSUME NEW reply \in {"ok", "err", "partial"}, Answer(r, reply, NoSession)
      PROVE  /\ call' \in Calls /\ call'.op = call.op /\ call'.try = call.try
             /\ call'.at \in {call.at, "back"}
             /\ r.live => call'.at = "back" /\ call'.reply = reply
  BY <1>1, <1>2, AnswerFields
<1>3. CASE state = "down" /\ Answer(r, "ok", NoSession) /\ UNCHANGED helper
  <2>1. sess' = sess /\ state' = "down" /\ past' = past
    BY <1>3 DEF helper
  <2> QED BY <1>1, <1>2, <1>3, <2>1 DEF Handled
<1>4. CASE /\ state # "down" /\ r.id \notin {NoSession, sess}
           /\ Answer(r, "err", NoSession) /\ UNCHANGED helper
  <2>1. sess' = sess /\ state' = state /\ past' = past
    BY <1>4 DEF helper
  <2> QED BY <1>1, <1>2, <1>4, <2>1 DEF Handled
<1>5. CASE Helper!Ended /\ Answer(r, "ok", NoSession)
  <2>1. state # "down" /\ sess' = NoSession /\ state' = "down" /\ past' = past \cup {sess}
    BY <1>5 DEF Helper!Ended
  <2>2. past' \subseteq Sessions
    BY <1>1, <2>1
  <2> QED BY <1>1, <1>2, <1>5, <2>1, <2>2 DEF Handled
<1>6. CASE /\ state # "down" /\ state' = "dirty" /\ UNCHANGED <<sess, past>>
           /\ Answer(r, "partial", NoSession)
  <2>1. sess' = sess /\ past' = past
    BY <1>6
  <2> QED BY <1>1, <1>2, <1>6, <2>1 DEF Handled
<1> QED BY <1>3, <1>4, <1>5, <1>6 DEF HandleStop

LEMMA HandleStatusEffect ==
  ASSUME TypeInv, NEW r, HandleStatus(r)
  PROVE  /\ Handled /\ UNCHANGED <<sess, state>>
         /\ r.live => call'.at = "back" /\ call'.reply = state
<1>1. /\ call \in Calls /\ sess \in Sessions \cup {NoSession} /\ past \subseteq Sessions
      /\ state \in {"down", "up", "dirty"} /\ (state # "down" => sess \in Sessions)
      /\ state \in Replies
  BY DEF TypeInv, HelperTypes, ClientTypes, Served, Replies
<1>2. sess' = sess /\ state' = state /\ past' = past /\ Answer(r, state, NoSession)
  BY DEF HandleStatus, helper
<1>3. /\ call' \in Calls /\ call'.op = call.op /\ call'.try = call.try
      /\ call'.at \in {call.at, "back"}
      /\ r.live => call'.at = "back" /\ call'.reply = state
  BY <1>1, <1>2, AnswerFields
<1> QED BY <1>1, <1>2, <1>3 DEF Handled

LEMMA HandleKeeps == ASSUME AllInv, Handle PROVE AllInv'
<1> USE DEF AllInv
<1>1. PICK i \in DOMAIN inbox :
        /\ inbox[i].op = "start"  => HandleStart(inbox[i])
        /\ inbox[i].op = "stop"   => HandleStop(inbox[i])
        /\ inbox[i].op = "status" => HandleStatus(inbox[i])
        /\ inbox' = SubSeq(inbox, 1, i - 1) \o SubSeq(inbox, i + 1, Len(inbox))
        /\ UNCHANGED <<alive, plat, active, conn, sid, core, drv, mode, pending, rec,
                       faults, lost>>
  BY DEF Handle, client, ctl
<1> DEFINE r == inbox[i]
<1>2. inbox \in Seq(Requests) /\ call \in Calls
  BY DEF TypeInv, HelperTypes, ClientTypes
<1>3. r \in Requests /\ inbox' \in Seq(Requests) /\ (Len(inbox) = 1 => inbox' = << >>)
  BY <1>1, <1>2, RemoveKeeps
<1>4. r.op \in {"start", "stop", "status"}
  BY <1>3 DEF Requests, Ops
<1>5. Handled
  BY <1>1, <1>4, HandleStartEffect, HandleStopEffect, HandleStatusEffect
<1>6. alive
  <2>1. inbox = << >> => DOMAIN inbox = {}
    BY <1>2
  <2> QED BY <1>1, <2>1 DEF TypeInv, Served, HelperTypes
<1>7. TypeInv'
  BY <1>1, <1>3, <1>5, <1>6
  DEF TypeInv, HelperTypes, ClientTypes, ControlTypes, Served, Handled
<1>8. CoreInv'
  BY <1>1, <1>5 DEF CoreInv, Handled
<1>9. CalmInv'
  <2> SUFFICES ASSUME Calm PROVE CalmCalls' /\ CalmInbox' /\ CalmId' /\ CalmState'
    BY <1>1 DEF CalmInv, Calm
  <2>1. CalmCalls /\ CalmInbox /\ CalmId /\ CalmState
    BY DEF CalmInv
  <2>2. inbox # << >>
    BY <1>2, <1>1
  <2>3. /\ call.at = "sent" /\ Len(inbox) = 1 /\ inbox[1].live /\ inbox[1].op = call.op
        /\ call.op = "stop" => inbox[1].id = sid
    BY <2>1, <2>2 DEF CalmInbox
  <2>4. i = 1
    BY <1>2, <2>3
  <2>5. /\ r.live /\ r.op = call.op /\ (call.op = "stop" => r.id = sid)
        /\ inbox' = << >> /\ call # NoCall /\ call.op # "none"
    BY <1>3, <1>4, <2>3, <2>4, NoCallFields
  <2>6. call'.op = call.op /\ call'.try = call.try /\ call' \in Calls
    BY <1>5 DEF Handled
  <2>7. call'.at = "back" => CalmCalls' /\ CalmInbox'
    BY <1>1, <2>1, <2>5, <2>6, NoCallFields DEF CalmCalls, CalmInbox
  <2>8. CASE r.op = "start"
    <3>1. /\ call'.at = "back" /\ call'.reply \in {"ok", "err"}
          /\ call'.reply = "ok" => call'.val = sess'
          /\ call'.reply = "err" => sess' = sess /\ state' = state
      BY <1>1, <2>5, <2>8, HandleStartEffect
    <3>2. /\ call.op = "start" /\ state # "up" /\ drv # "idle" /\ ~core.running
      BY <2>1, <2>3, <2>5, <2>8 DEF CalmState, CalmCalls, CoreInv
    <3>3. state # "down" => sid \in {NoSession, sess}
      BY <2>1, <2>3 DEF CalmId
    <3> QED BY <1>1, <2>6, <2>7, <3>1, <3>2, <3>3 DEF CalmId, CalmState
  <2>9. CASE r.op = "stop"
    <3>1. /\ call'.at = "back" /\ call'.reply \in {"ok", "err", "partial"}
          /\ call'.reply = "ok" => state' = "down"
          /\ call'.reply = "partial" => state' = "dirty"
          /\ call'.reply = "err" => state # "down" /\ r.id \notin {NoSession, sess}
          /\ state' # "down" => sess' = sess /\ state # "down"
      BY <1>1, <2>5, <2>9, HandleStopEffect
    <3>2. call.op = "stop" /\ drv # "idle" /\ ~core.running /\ (state # "down" => sid \in {NoSession, sess})
      BY <2>1, <2>3, <2>5, <2>9 DEF CalmId, CalmCalls, CoreInv
    <3>3. call'.reply # "err"
      BY <2>5, <3>1, <3>2
    <3> QED BY <1>1, <2>6, <2>7, <3>1, <3>2, <3>3 DEF CalmId, CalmState
  <2>10. CASE r.op = "status"
    <3>1. call'.at = "back" /\ call'.reply = state /\ sess' = sess /\ state' = state
      BY <1>1, <2>5, <2>10, HandleStatusEffect
    <3>2. call.op = "status" /\ drv # "idle" /\ ~core.running
      BY <2>1, <2>5, <2>10 DEF CalmCalls, CoreInv
    <3> QED BY <1>1, <2>1, <2>6, <2>7, <3>1, <3>2 DEF CalmId, CalmState
  <2> QED BY <1>4, <2>8, <2>9, <2>10
<1> QED BY <1>7, <1>8, <1>9

\* The helper's own steps, which only end its session.
LEMMA CoreExitsKeeps == ASSUME AllInv, CoreExits PROVE AllInv'
<1> USE DEF AllInv
<1>1. /\ state = "up" /\ (Helper!Ended \/ Helper!Incomplete)
      /\ UNCHANGED <<alive, inbox, plat, active, conn, sid, core, call, drv, mode,
                     pending, rec, faults, lost>>
  BY DEF CoreExits, client, ctl
<1>2. sess \in Sessions /\ past \subseteq Sessions
  BY <1>1 DEF TypeInv, Served, HelperTypes
<1>3. /\ past' \subseteq Sessions
      /\ (sess' = NoSession /\ state' = "down") \/ (sess' = sess /\ state' = "dirty")
  BY <1>1, <1>2 DEF Helper!Ended, Helper!Incomplete
<1>4. TypeInv'
  BY <1>1, <1>2, <1>3 DEF TypeInv, HelperTypes, ClientTypes, ControlTypes, Served
<1>5. CoreInv'
  BY <1>1 DEF CoreInv
<1>6. CalmInv'
  <2> SUFFICES ASSUME Calm PROVE CalmCalls' /\ CalmInbox' /\ CalmId' /\ CalmState'
    BY <1>1 DEF CalmInv, Calm
  <2>1. CalmCalls /\ CalmInbox /\ CalmId /\ CalmState
    BY DEF CalmInv
  <2>2. CalmCalls' /\ CalmInbox'
    BY <1>1, <2>1 DEF CalmCalls, CalmInbox
  <2>3. CalmId'
    BY <1>1, <1>3, <2>1 DEF CalmId
  <2>4. CalmState'
    BY <1>1, <1>3, <2>1 DEF CalmState
  <2> QED BY <2>2, <2>3, <2>4
<1> QED BY <1>4, <1>5, <1>6

LEMMA HelperStopsKeeps == ASSUME AllInv, HelperStops PROVE AllInv'
<1> USE DEF AllInv
<1>1. /\ alive' = FALSE /\ inbox' = << >>
      /\ IF state = "down" THEN UNCHANGED helper ELSE Helper!Ended
      /\ IF call.at = "sent" THEN Failed
         ELSE conn' = (IF conn = "open" THEN "broken" ELSE conn) /\ call' = call
      /\ UNCHANGED <<plat, active, sid, core, drv, mode, pending, rec, faults, lost>>
  BY DEF HelperStops, ctl
<1>2. /\ call \in Calls /\ conn \in {"none", "open", "broken"} /\ past \subseteq Sessions
      /\ sess \in Sessions \cup {NoSession} /\ (state # "down" => sess \in Sessions)
      /\ call.at = "sent" => call.op # "none"
  BY DEF TypeInv, Served, HelperTypes, ClientTypes
<1>3. past' \subseteq Sessions /\ sess' \in Sessions \cup {NoSession} /\ state' = "down"
  BY <1>1, <1>2 DEF Helper!Ended, helper
<1>4. call.at = "sent" =>
        /\ call' \in Calls /\ call'.op = call.op /\ conn' = "none"
        /\ Retries => call'.at = "dial" /\ call'.try = 2
        /\ ~Retries => call'.at = "back" /\ call'.try = call.try /\ call'.reply = "err"
  BY <1>1, <1>2, FailedFields
<1>5. /\ call' \in Calls /\ call'.op = call.op /\ conn' \in {"none", "open", "broken"}
      /\ call.op = "none" => call' = call
  BY <1>1, <1>2, <1>4
<1>6. inbox' \in Seq(Requests)
  BY <1>1
<1>7. TypeInv'
  BY <1>1, <1>2, <1>3, <1>5, <1>6
  DEF TypeInv, HelperTypes, ClientTypes, ControlTypes, Served
<1>8. CoreInv'
  BY <1>1, <1>5 DEF CoreInv
<1>9. CalmInv'
  <2> SUFFICES ASSUME Calm PROVE CalmCalls' /\ CalmInbox' /\ CalmId' /\ CalmState'
    BY <1>1 DEF CalmInv, Calm
  <2>1. CalmCalls /\ CalmInbox /\ CalmId /\ CalmState
    BY DEF CalmInv
  <2>2. CASE call.at = "sent"
    <3>1. /\ call # NoCall /\ call'.op = call.op /\ conn' = "none" /\ call.op # "none"
          /\ call'.at \in {"dial", "back"} /\ call'.try # 0
          /\ call'.at = "back" => call'.reply = "err"
      BY <1>2, <1>4, <2>1, <2>2, NoCallFields DEF CalmCalls
    <3>2. CalmCalls'
      BY <1>1, <2>1, <3>1, NoCallFields DEF CalmCalls
    <3>3. CalmInbox' /\ CalmId' /\ CalmState'
      BY <1>1, <1>3, <3>1 DEF CalmInbox, CalmId, CalmState
    <3> QED BY <3>2, <3>3
  <2>3. CASE call.at # "sent"
    <3>1. call' = call /\ (conn = "none" => conn' = "none")
      BY <1>1, <2>3
    <3>2. CalmCalls'
      BY <1>1, <2>1, <3>1 DEF CalmCalls
    <3>3. CalmInbox' /\ CalmId'
      BY <1>1, <1>3, <2>3, <3>1 DEF CalmInbox, CalmId
    <3>4. CalmState'
      BY <1>1, <1>3, <2>1, <3>1 DEF CalmState
    <3> QED BY <3>2, <3>3, <3>4
  <2> QED BY <2>2, <2>3
<1> QED BY <1>7, <1>8, <1>9

LEMMA HelperStartsKeeps == ASSUME AllInv, HelperStarts PROVE AllInv'
<1> USE DEF AllInv
<1>1. /\ alive' = TRUE
      /\ UNCHANGED <<sess, state, past, inbox, plat, active, conn, sid, core, call, drv,
                     mode, pending, rec, faults, lost>>
  BY DEF HelperStarts, helper, client, ctl
<1>2. TypeInv'
  BY <1>1 DEF TypeInv, HelperTypes, ClientTypes, ControlTypes, Served
<1>3. CoreInv'
  BY <1>1 DEF CoreInv
<1>4. CalmInv'
  BY <1>1 DEF CalmInv, Calm, CalmCalls, CalmInbox, CalmId, CalmState
<1> QED BY <1>2, <1>3, <1>4

\* The controller's calls.
LEMMA StartKeeps == ASSUME AllInv, NEW m \in Modes, Start(m) PROVE AllInv'
<1> USE DEF AllInv
<1>1. /\ drv = "idle" /\ mode' = m /\ active' = Latch(m)
      /\ UNCHANGED <<sess, state, past, alive, inbox, plat, conn, sid, faults, lost>>
  BY DEF Start, helper
<1>2. /\ core \in Cores /\ call \in Calls /\ pending \in BOOLEAN /\ rec \in BOOLEAN
      /\ active \in {"none", "core", "daemon"} /\ plat \in {"linux", "windows"}
      /\ ~core.running /\ ~core.xray /\ ~core.sbox
  BY <1>1, RoutingAssumption DEF TypeInv, ClientTypes, ControlTypes, CoreInv
<1>3. /\ plat = "windows" => active' = "none"
      /\ plat = "linux" => active' \in {"core", "daemon"}
  BY <1>1, <1>2 DEF CoreInv, Latch
<1>4. CASE active' = "core"
  <2>1. PICK ok \in BOOLEAN :
          /\ CoreStartChain(ok) /\ drv' = (IF ok THEN "up" ELSE "idle")
          /\ pending' = (pending /\ ~ok) /\ rec' = (rec \/ ok) /\ call' = call
    BY <1>4 DEF Start
  <2>2. core' \in Cores /\ core'.running = ok /\ (core'.xray \/ core'.sbox => core'.running)
    BY <1>2, <2>1, CoreStarts
  <2>3. pending' \in BOOLEAN /\ rec' \in BOOLEAN /\ drv' \in {"up", "idle"}
    BY <1>2, <2>1
  <2>4. TypeInv'
    BY <1>1, <1>4, <2>1, <2>2, <2>3
    DEF TypeInv, HelperTypes, ClientTypes, ControlTypes, Served
  <2>5. plat = "linux"
    BY <1>2, <1>3, <1>4
  <2>6. CoreInv'
    BY <1>1, <1>2, <1>4, <2>1, <2>2, <2>5 DEF CoreInv
  <2>7. CalmInv'
    <3> SUFFICES ASSUME Calm PROVE CalmCalls' /\ CalmInbox' /\ CalmId' /\ CalmState'
      BY <1>1 DEF CalmInv, Calm
    <3>1. CalmCalls /\ CalmInbox /\ CalmId /\ CalmState /\ call = NoCall
      BY <1>1 DEF CalmInv, CalmCalls
    <3>2. CalmCalls'
      BY <2>1, <2>3, <3>1, NoCallFields DEF CalmCalls
    <3>3. CalmInbox' /\ CalmId'
      BY <1>1, <2>1, <3>1 DEF CalmInbox, CalmId
    <3>4. CalmState'
      BY <1>1, <2>1, <3>1, NoCallFields DEF CalmState
    <3> QED BY <3>2, <3>3, <3>4
  <2> QED BY <2>4, <2>6, <2>7
<1>5. CASE active' # "core"
  <2>1. Begin("start") /\ drv' = "start" /\ UNCHANGED <<core, pending, rec>>
    BY <1>5 DEF Start
  <2>2. call' \in Calls /\ call'.op = "start" /\ call'.at = "dial" /\ call'.try = 1
    BY <2>1, BeginFields DEF Ops
  <2>3. TypeInv'
    BY <1>1, <1>2, <1>3, <2>1, <2>2
    DEF TypeInv, HelperTypes, ClientTypes, ControlTypes, Served
  <2>4. CoreInv'
    BY <1>1, <1>2, <1>3, <1>5, <2>1, <2>2 DEF CoreInv
  <2>5. CalmInv'
    <3> SUFFICES ASSUME Calm PROVE CalmCalls' /\ CalmInbox' /\ CalmId' /\ CalmState'
      BY <1>1 DEF CalmInv, Calm
    <3>1. CalmCalls /\ CalmInbox /\ CalmId /\ CalmState /\ call = NoCall
      BY <1>1 DEF CalmInv, CalmCalls
    <3>2. CalmCalls'
      BY <2>1, <2>2 DEF CalmCalls
    <3>3. CalmInbox' /\ CalmId' /\ CalmState'
      BY <1>1, <1>2, <2>1, <2>2, <3>1, NoCallFields DEF CalmInbox, CalmId, CalmState
    <3> QED BY <3>2, <3>3
  <2> QED BY <2>3, <2>4, <2>5
<1> QED BY <1>4, <1>5

LEMMA StartRejectedKeeps == ASSUME AllInv, StartRejected PROVE AllInv'
<1> USE DEF AllInv
<1>1. /\ drv = "idle" /\ mode' = "tun" /\ active' = Latch("tun") /\ Invalidate
      /\ UNCHANGED <<sess, state, past, alive, inbox, plat, core, call, drv, pending, rec,
                     faults, lost>>
  BY DEF StartRejected, helper
<1>2. /\ active' \in {"none", "core", "daemon"} /\ mode' \in Modes
      /\ conn' \in {"none", "open", "broken"} /\ sid' \in Sessions \cup {NoSession}
  BY <1>1 DEF TypeInv, ClientTypes, Latch, Invalidate, Modes
<1>3. TypeInv'
  BY <1>1, <1>2 DEF TypeInv, HelperTypes, ClientTypes, ControlTypes, Served
<1>4. CoreInv'
  BY <1>1 DEF CoreInv, Latch
<1>5. CalmInv'
  <2> SUFFICES ASSUME Calm PROVE CalmCalls' /\ CalmInbox' /\ CalmId' /\ CalmState'
    BY <1>1 DEF CalmInv, Calm
  <2>1. CalmCalls /\ CalmInbox /\ CalmId /\ CalmState /\ sid' = sid /\ conn' = conn
    BY <1>1 DEF CalmInv, Invalidate, Calm
  <2> QED BY <1>1, <2>1 DEF CalmCalls, CalmInbox, CalmId, CalmState
<1> QED BY <1>3, <1>4, <1>5

LEMMA StartedKeeps == ASSUME AllInv, Started PROVE AllInv'
<1> USE DEF AllInv
<1>1. /\ drv = "start" /\ call.at = "back" /\ call.reply = "ok" /\ sid' = call.val
      /\ drv' = "up" /\ pending' = FALSE /\ rec' = TRUE /\ call' = NoCall
      /\ UNCHANGED <<sess, state, past, alive, inbox, plat, active, conn, core, mode,
                     faults, lost>>
  BY DEF Started, Returned, Learn, helper
<1>2. sid' \in Sessions \cup {NoSession} /\ ~core.running
  BY <1>1 DEF TypeInv, ClientTypes, Calls, CoreInv
<1>3. TypeInv'
  BY <1>1, <1>2, NoCallFields DEF TypeInv, HelperTypes, ClientTypes, ControlTypes, Served
<1>4. CoreInv'
  BY <1>1, <1>2, NoCallFields DEF CoreInv
<1>5. CalmInv'
  <2> SUFFICES ASSUME Calm PROVE CalmCalls' /\ CalmInbox' /\ CalmId' /\ CalmState'
    BY <1>1 DEF CalmInv, Calm
  <2>1. CalmCalls /\ CalmInbox /\ CalmId /\ CalmState
    BY DEF CalmInv
  <2>2. call.op = "start" /\ inbox = << >> /\ (state # "down" => call.val = sess)
    BY <1>1, <2>1 DEF CalmCalls, CalmInbox, CalmState
  <2>3. CalmCalls'
    BY <1>1, NoCallFields DEF CalmCalls
  <2> QED BY <1>1, <1>2, <2>2, <2>3, NoCallFields DEF CalmInbox, CalmId, CalmState
<1> QED BY <1>3, <1>4, <1>5

LEMMA StartFailedKeeps == ASSUME AllInv, StartFailed PROVE AllInv'
<1> USE DEF AllInv
<1>1. /\ drv = "start" /\ call.at = "back" /\ call.reply = "err" /\ Invalidate
      /\ drv' = "idle" /\ call' = NoCall
      /\ UNCHANGED <<sess, state, past, alive, inbox, plat, active, core, mode, pending,
                     rec, faults, lost>>
  BY DEF StartFailed, Returned, helper
<1>2. /\ conn' \in {"none", "open", "broken"} /\ sid' \in Sessions \cup {NoSession}
      /\ ~core.running
  BY <1>1 DEF TypeInv, ClientTypes, Invalidate, CoreInv
<1>3. TypeInv'
  BY <1>1, <1>2, NoCallFields DEF TypeInv, HelperTypes, ClientTypes, ControlTypes, Served
<1>4. CoreInv'
  BY <1>1, <1>2, NoCallFields DEF CoreInv
<1>5. CalmInv'
  <2> SUFFICES ASSUME Calm PROVE CalmCalls' /\ CalmInbox' /\ CalmId' /\ CalmState'
    BY <1>1 DEF CalmInv, Calm
  <2>1. CalmCalls /\ CalmInbox /\ CalmId /\ CalmState /\ sid' = sid
    BY <1>1 DEF CalmInv, Invalidate, Calm
  <2>2. call.op = "start" /\ inbox = << >> /\ state # "up"
        /\ (state # "down" => sid \in {NoSession, sess})
    BY <1>1, <2>1 DEF CalmCalls, CalmInbox, CalmState, CalmId
  <2>3. CalmCalls'
    BY <1>1, NoCallFields DEF CalmCalls
  <2> QED BY <1>1, <1>2, <2>1, <2>2, <2>3, NoCallFields DEF CalmInbox, CalmId, CalmState
<1> QED BY <1>3, <1>4, <1>5

LEMMA StopKeeps == ASSUME AllInv, Stop PROVE AllInv'
<1> USE DEF AllInv
<1>1. /\ drv \in {"up", "start", "drop"} \/ (drv = "idle" /\ pending)
      /\ UNCHANGED <<sess, state, past, alive, plat, active, mode, faults>>
  BY DEF Stop, helper
<1>2. /\ call \in Calls /\ core \in Cores /\ inbox \in Seq(Requests) /\ rec \in BOOLEAN
      /\ conn \in {"none", "open", "broken"} /\ sid \in Sessions \cup {NoSession}
      /\ lost \subseteq {"broken", "timeout", "cancel"} /\ plat \in {"linux", "windows"}
      /\ core.xray \/ core.sbox => core.running
  BY RoutingAssumption DEF TypeInv, HelperTypes, ClientTypes, ControlTypes, CoreInv
\* The exchange that is cancelled.
<1>3. /\ call = NoCall => UNCHANGED <<inbox, conn, sid, lost>>
      /\ call # NoCall => "cancel" \in lost'
      /\ inbox' \in Seq(Requests) /\ (inbox = << >> => inbox' = << >>)
      /\ conn' \in {"none", "open", "broken"} /\ sid' \in Sessions \cup {NoSession}
      /\ lost' \subseteq {"broken", "timeout", "cancel"} /\ lost \subseteq lost'
  <2>1. CASE call = NoCall
    BY <1>2, <2>1 DEF Stop
  <2>2. CASE call # NoCall
    <3>1. /\ Forsake /\ conn' = "none" /\ lost' = lost \cup {"cancel"}
          /\ sid' = IF plat = "windows" /\ call.op # "stop" THEN NoSession ELSE sid
      BY <2>2 DEF Stop
    <3>2. inbox' \in Seq(Requests) /\ (inbox = << >> => inbox' = << >>)
      BY <1>2, <3>1, ForsakeKeeps
    <3> QED BY <1>2, <2>2, <3>1, <3>2
  <2> QED BY <2>1, <2>2
<1>4. CASE StopTarget = "daemon"
  <2>1. Begin("stop") /\ drv' = "stop" /\ pending' = FALSE /\ UNCHANGED <<core, rec>>
    BY <1>4 DEF Stop
  <2>2. call' \in Calls /\ call'.op = "stop" /\ call'.at = "dial" /\ call'.try = 1
    BY <2>1, BeginFields DEF Ops
  <2>3. ~core.running
    BY <1>2, <1>4 DEF CoreInv, StopTarget
  <2>4. TypeInv'
    BY <1>1, <1>2, <1>3, <2>1, <2>2
    DEF TypeInv, HelperTypes, ClientTypes, ControlTypes, Served
  <2>5. CoreInv'
    BY <1>1, <2>1, <2>2, <2>3 DEF CoreInv
  <2>6. CalmInv'
    <3> SUFFICES ASSUME Calm, call = NoCall
                 PROVE  CalmCalls' /\ CalmInbox' /\ CalmId' /\ CalmState'
      BY <1>1, <1>3 DEF CalmInv, Calm
    <3>1. CalmInbox /\ CalmId
      BY DEF CalmInv
    <3>2. CalmCalls' /\ CalmState'
      BY <2>1, <2>2, <2>3 DEF CalmCalls, CalmState
    <3>3. CalmInbox' /\ CalmId'
      BY <1>1, <1>3, <2>2, <3>1, NoCallFields DEF CalmInbox, CalmId
    <3> QED BY <3>2, <3>3
  <2> QED BY <2>4, <2>5, <2>6
<1>5. CASE StopTarget # "daemon"
  <2>1. PICK ok \in BOOLEAN :
          /\ IF StopTarget = "core" THEN CoreStopChain(ok) ELSE ok /\ UNCHANGED core
          /\ drv' = "idle" /\ pending' = ~ok /\ rec' = (rec /\ ~ok) /\ call' = NoCall
    BY <1>5 DEF Stop
  <2>2. StopTarget = active /\ plat = "linux"
    BY <1>2, <1>5 DEF StopTarget
  <2>3. core' \in Cores /\ ~core'.running /\ ~core'.xray /\ ~core'.sbox
    <3>1. CASE StopTarget = "core"
      BY <1>2, <2>1, <3>1, CoreStops
    <3>2. CASE StopTarget # "core"
      BY <1>2, <2>1, <2>2, <3>2 DEF CoreInv
    <3> QED BY <3>1, <3>2
  <2>4. pending' \in BOOLEAN /\ rec' \in BOOLEAN
    BY <1>2, <2>1
  <2>5. TypeInv'
    BY <1>1, <1>2, <1>3, <2>1, <2>3, <2>4, NoCallFields
    DEF TypeInv, HelperTypes, ClientTypes, ControlTypes, Served
  <2>6. CoreInv'
    BY <1>1, <2>1, <2>2, <2>3, NoCallFields DEF CoreInv
  <2>7. CalmInv'
    <3> SUFFICES ASSUME Calm, call = NoCall
                 PROVE  CalmCalls' /\ CalmInbox' /\ CalmId' /\ CalmState'
      BY <1>1, <1>3 DEF CalmInv, Calm
    <3>1. CalmCalls /\ CalmInbox /\ CalmId /\ CalmState
      BY DEF CalmInv
    <3>2. drv = "idle" \/ core.running
      BY <1>1, <1>5, <2>2, <3>1, NoCallFields DEF CalmCalls, CoreInv
    <3>3. state # "up"
      BY <3>1, <3>2 DEF CalmState
    <3>4. CalmCalls' /\ CalmState'
      BY <1>1, <2>1, <2>3, <3>3, NoCallFields DEF CalmCalls, CalmState
    <3>5. CalmInbox' /\ CalmId'
      BY <1>1, <1>3, <2>1, <3>1, NoCallFields DEF CalmInbox, CalmId
    <3> QED BY <3>4, <3>5
  <2> QED BY <2>5, <2>6, <2>7
<1> QED BY <1>4, <1>5

LEMMA StopTimeoutKeeps == ASSUME AllInv, StopTimeout PROVE AllInv'
<1> USE DEF AllInv
<1>1. /\ call.at \in {"dial", "sent"} /\ Forsake /\ conn' = "none" /\ drv = "stop"
      /\ call' = [call EXCEPT !.at = "back", !.try = 2, !.reply = "err"]
      /\ lost' = lost \cup {"timeout"}
      /\ UNCHANGED <<sess, state, past, alive, plat, active, sid, core, drv, mode, pending,
                     rec, faults>>
  BY DEF StopTimeout, helper, ctl
<1>2. call \in Calls /\ call.op # "none" /\ inbox \in Seq(Requests)
  BY <1>1 DEF TypeInv, HelperTypes, ClientTypes, Served
<1>3. 2 \in 0 .. 2 /\ "err" \in Replies
  BY DEF Replies
<1>4. call' \in Calls /\ call'.op = call.op
  BY <1>1, <1>2, <1>3 DEF Calls
<1>5. inbox' \in Seq(Requests) /\ (inbox = << >> => inbox' = << >>)
  BY <1>1, <1>2, ForsakeKeeps
<1>6. TypeInv'
  BY <1>1, <1>2, <1>4, <1>5 DEF TypeInv, HelperTypes, ClientTypes, ControlTypes, Served
<1>7. CoreInv'
  BY <1>1, <1>4 DEF CoreInv
<1>8. CalmInv'
  BY <1>1 DEF CalmInv, Calm
<1> QED BY <1>6, <1>7, <1>8

LEMMA StoppedKeeps == ASSUME AllInv, Stopped PROVE AllInv'
<1> USE DEF AllInv
<1>1. /\ drv \in {"stop", "drop"} /\ call.at = "back" /\ call.reply = "ok"
      /\ sid' = NoSession /\ drv' = "idle" /\ call' = NoCall
      /\ rec' = (IF drv = "stop" THEN FALSE ELSE rec)
      /\ UNCHANGED <<sess, state, past, alive, inbox, plat, active, conn, core, mode,
                     pending, faults, lost>>
  BY DEF Stopped, CheckStopResult, Returned, Forget, helper
<1>2. rec' \in BOOLEAN /\ ~core.running
  BY <1>1 DEF TypeInv, ControlTypes, CoreInv
<1>3. TypeInv'
  BY <1>1, <1>2, NoCallFields DEF TypeInv, HelperTypes, ClientTypes, ControlTypes, Served
<1>4. CoreInv'
  BY <1>1, <1>2, NoCallFields DEF CoreInv
<1>5. CalmInv'
  <2> SUFFICES ASSUME Calm PROVE CalmCalls' /\ CalmInbox' /\ CalmId' /\ CalmState'
    BY <1>1 DEF CalmInv, Calm
  <2>1. CalmCalls /\ CalmInbox /\ CalmId /\ CalmState
    BY DEF CalmInv
  <2>2. inbox = << >> /\ state # "up"
    BY <1>1, <2>1 DEF CalmCalls, CalmInbox, CalmState
  <2>3. CalmCalls'
    BY <1>1, NoCallFields DEF CalmCalls
  <2> QED BY <1>1, <1>2, <2>2, <2>3, NoCallFields DEF CalmInbox, CalmId, CalmState
<1> QED BY <1>3, <1>4, <1>5

LEMMA StopFailedKeeps == ASSUME AllInv, StopFailed PROVE AllInv'
<1> USE DEF AllInv
<1>1. /\ drv \in {"stop", "drop"} /\ call.at = "back"
      /\ drv' = "idle" /\ pending' = TRUE /\ call' = NoCall
      /\ UNCHANGED <<sess, state, past, alive, inbox, plat, active, conn, sid, core, mode,
                     rec, faults, lost>>
  BY DEF StopFailed, Returned, helper, client
<1>2. ~core.running
  BY <1>1 DEF CoreInv
<1>3. TypeInv'
  BY <1>1, NoCallFields DEF TypeInv, HelperTypes, ClientTypes, ControlTypes, Served
<1>4. CoreInv'
  BY <1>1, <1>2, NoCallFields DEF CoreInv
<1>5. CalmInv'
  <2> SUFFICES ASSUME Calm PROVE CalmCalls' /\ CalmInbox' /\ CalmId' /\ CalmState'
    BY <1>1 DEF CalmInv, Calm
  <2>1. CalmCalls /\ CalmInbox /\ CalmId /\ CalmState
    BY DEF CalmInv
  <2>2. call.op = "stop" /\ inbox = << >> /\ state # "up"
        /\ (state # "down" => sid \in {NoSession, sess})
    BY <1>1, <2>1 DEF CalmCalls, CalmInbox, CalmState, CalmId
  <2>3. CalmCalls'
    BY <1>1, NoCallFields DEF CalmCalls
  <2> QED BY <1>1, <1>2, <2>2, <2>3, NoCallFields DEF CalmInbox, CalmId, CalmState
<1> QED BY <1>3, <1>4, <1>5

LEMMA PollKeeps == ASSUME AllInv, Poll PROVE AllInv'
<1> USE DEF AllInv
<1>1. /\ drv = "up" /\ call = NoCall /\ active # "core" /\ Begin("status")
      /\ UNCHANGED <<sess, state, past, alive, inbox, plat, active, conn, sid, core, drv,
                     mode, pending, rec, faults, lost>>
  BY DEF Poll, helper, client, ctl
<1>2. call' \in Calls /\ call'.op = "status" /\ call'.at = "dial" /\ call'.try = 1
  BY <1>1, BeginFields DEF Ops
<1>3. TypeInv'
  BY <1>1, <1>2 DEF TypeInv, HelperTypes, ClientTypes, ControlTypes, Served
<1>4. CoreInv'
  BY <1>1, <1>2 DEF CoreInv
<1>5. CalmInv'
  <2> SUFFICES ASSUME Calm PROVE CalmCalls' /\ CalmInbox' /\ CalmId' /\ CalmState'
    BY <1>1 DEF CalmInv, Calm
  <2>1. CalmInbox /\ CalmId /\ CalmState
    BY DEF CalmInv
  <2>2. CalmCalls'
    BY <1>1, <1>2 DEF CalmCalls
  <2> QED BY <1>1, <1>2, <2>1, <2>2, NoCallFields DEF CalmInbox, CalmId, CalmState
<1> QED BY <1>3, <1>4, <1>5

LEMMA PolledKeeps == ASSUME AllInv, Polled PROVE AllInv'
<1> USE DEF AllInv
<1>1. /\ drv = "up" /\ call.op = "status" /\ call.at = "back"
      /\ UNCHANGED <<sess, state, past, alive, inbox, plat, active, core, mode, rec, faults,
                     lost>>
  BY DEF Polled, Returned, helper, ctl
<1>2. /\ conn \in {"none", "open", "broken"} /\ sid \in Sessions \cup {NoSession}
      /\ pending \in BOOLEAN /\ ~core.running
  BY <1>1 DEF TypeInv, ClientTypes, ControlTypes, CoreInv
<1>3. /\ conn' \in {"none", "open", "broken"} /\ sid' \in Sessions \cup {NoSession}
      /\ plat = "linux" => sid' = sid
  BY <1>2 DEF Polled, Invalidate
<1>4. Calm => /\ inbox = << >> /\ (state # "down" => sid \in {NoSession, sess})
              /\ call.reply \in {"down", "dirty"} => state # "up"
  BY <1>1 DEF CalmInv, CalmInbox, CalmId, CalmState
<1>5. CASE call' = NoCall /\ UNCHANGED <<drv, pending>>
  <2>1. TypeInv'
    BY <1>1, <1>3, <1>5, NoCallFields
    DEF TypeInv, HelperTypes, ClientTypes, ControlTypes, Served
  <2>2. CoreInv'
    BY <1>1, <1>5, NoCallFields DEF CoreInv
  <2>3. CalmInv'
    <3> SUFFICES ASSUME Calm PROVE CalmCalls' /\ CalmInbox' /\ CalmId' /\ CalmState'
      BY <1>1 DEF CalmInv, Calm
    <3>1. CalmCalls'
      BY <1>1, <1>5, NoCallFields DEF CalmCalls
    <3> QED BY <1>1, <1>2, <1>3, <1>4, <1>5, <3>1, NoCallFields
            DEF CalmInbox, CalmId, CalmState, Calm
  <2> QED BY <2>1, <2>2, <2>3
<1>6. CASE /\ call.reply \in {"down", "dirty"}
           /\ drv' = "idle" /\ pending' = TRUE /\ call' = NoCall
  <2>1. TypeInv'
    BY <1>1, <1>3, <1>6, NoCallFields
    DEF TypeInv, HelperTypes, ClientTypes, ControlTypes, Served
  <2>2. CoreInv'
    BY <1>1, <1>2, <1>6, NoCallFields DEF CoreInv
  <2>3. CalmInv'
    <3> SUFFICES ASSUME Calm PROVE CalmCalls' /\ CalmInbox' /\ CalmId' /\ CalmState'
      BY <1>1 DEF CalmInv, Calm
    <3>1. CalmCalls'
      BY <1>6, NoCallFields DEF CalmCalls
    <3> QED BY <1>1, <1>2, <1>3, <1>4, <1>6, <3>1, NoCallFields
            DEF CalmInbox, CalmId, CalmState, Calm
  <2> QED BY <2>1, <2>2, <2>3
<1>7. CASE drv' = "drop" /\ Begin("stop") /\ UNCHANGED pending
  <2>1. call' \in Calls /\ call'.op = "stop" /\ call'.at = "dial" /\ call'.try = 1
    BY <1>7, BeginFields DEF Ops
  <2>2. TypeInv'
    BY <1>1, <1>3, <1>7, <2>1
    DEF TypeInv, HelperTypes, ClientTypes, ControlTypes, Served
  <2>3. CoreInv'
    BY <1>1, <1>2, <1>7, <2>1 DEF CoreInv
  <2>4. CalmInv'
    <3> SUFFICES ASSUME Calm PROVE CalmCalls' /\ CalmInbox' /\ CalmId' /\ CalmState'
      BY <1>1 DEF CalmInv, Calm
    <3>1. CalmCalls'
      BY <1>7, <2>1 DEF CalmCalls
    <3> QED BY <1>1, <1>2, <1>3, <1>4, <1>7, <2>1, <3>1
            DEF CalmInbox, CalmId, CalmState, Calm
  <2> QED BY <2>2, <2>3, <2>4
<1> QED BY <1>5, <1>6, <1>7 DEF Polled, Returned, ctl

LEMMA BridgeExitsKeeps == ASSUME AllInv, BridgeExits PROVE AllInv'
<1> USE DEF AllInv
<1>1. /\ "exit" \in faults /\ Forsake
      /\ active' = "none" /\ conn' = "none" /\ sid' = NoSession
      /\ core' = CoreDown /\ call' = NoCall /\ drv' = "boot" /\ pending' = FALSE
      /\ UNCHANGED <<sess, state, past, alive, plat, mode, rec, faults, lost>>
  BY DEF BridgeExits, helper
<1>2. core' \in Cores /\ ~core'.running /\ ~core'.xray /\ ~core'.sbox
  BY <1>1 DEF CoreDown, Cores
<1>3. inbox' \in Seq(Requests) /\ (inbox = << >> => inbox' = << >>)
  BY <1>1, ForsakeKeeps DEF TypeInv, HelperTypes
<1>4. TypeInv'
  BY <1>1, <1>2, <1>3, NoCallFields
  DEF TypeInv, HelperTypes, ClientTypes, ControlTypes, Served
<1>5. CoreInv'
  BY <1>1, <1>2 DEF CoreInv
<1>6. CalmInv'
  BY <1>1 DEF CalmInv, Calm
<1> QED BY <1>4, <1>5, <1>6

LEMMA ReconcileKeeps == ASSUME AllInv, Reconcile PROVE AllInv'
<1> USE DEF AllInv
<1>1. /\ drv = "boot" /\ call = NoCall
      /\ (Begin("status") /\ drv' = drv) \/ (drv' = "idle" /\ call' = call)
      /\ UNCHANGED <<sess, state, past, alive, inbox, plat, active, conn, sid, core, mode,
                     pending, rec, faults, lost>>
  BY DEF Reconcile, helper, client
<1>2. Begin("status") =>
        call' \in Calls /\ call'.op = "status" /\ call'.at = "dial" /\ call'.try = 1
  BY BeginFields DEF Ops
<1>3. TypeInv'
  BY <1>1, <1>2 DEF TypeInv, HelperTypes, ClientTypes, ControlTypes, Served
<1>4. CoreInv'
  BY <1>1, NoCallFields DEF CoreInv
<1>5. CalmInv'
  BY <1>1 DEF CalmInv, Calm, CalmCalls
<1> QED BY <1>3, <1>4, <1>5

LEMMA ReconciledKeeps == ASSUME AllInv, Reconciled PROVE AllInv'
<1> USE DEF AllInv
<1>1. /\ drv = "boot" /\ call' = NoCall
      /\ IF call.reply = "err" THEN Invalidate ELSE UNCHANGED <<sid, conn>>
      /\ active' = (IF plat = "linux" /\ call.reply \in Adopts THEN "daemon" ELSE active)
      /\ drv' \in {IF call.reply = "up" THEN "up" ELSE "idle", "idle"}
      /\ pending' = (call.reply = "dirty") /\ rec' \in {rec, FALSE}
      /\ UNCHANGED <<sess, state, past, alive, inbox, plat, core, mode, faults, lost>>
  BY DEF Reconciled, helper
<1>2. /\ conn' \in {"none", "open", "broken"} /\ sid' \in Sessions \cup {NoSession}
      /\ active' \in {"none", "core", "daemon"} /\ drv' \in {"up", "idle"}
      /\ pending' \in BOOLEAN /\ ~core.running
  BY <1>1 DEF TypeInv, ClientTypes, Invalidate, CoreInv
<1>3. TypeInv'
  BY <1>1, <1>2, NoCallFields DEF TypeInv, HelperTypes, ClientTypes, ControlTypes, Served
<1>4. CoreInv'
  BY <1>1, <1>2, NoCallFields DEF CoreInv, Adopts
<1>5. CalmInv'
  BY <1>1 DEF CalmInv, Calm, CalmCalls
<1> QED BY <1>3, <1>4, <1>5

(***************************************************************************)
(* The theorems.                                                           *)
(***************************************************************************)
LEMMA InvInit == Init => AllInv
<1> SUFFICES ASSUME Init PROVE AllInv
  OBVIOUS
<1>1. /\ sess = NoSession /\ state = "down" /\ past = {} /\ alive = TRUE /\ inbox = << >>
      /\ plat \in Platforms /\ active = "none" /\ conn = "none" /\ sid = NoSession
      /\ core = CoreDown /\ call = NoCall /\ drv = "idle" /\ mode = "tun"
      /\ pending = FALSE /\ rec = FALSE /\ faults \in FaultSets /\ lost = {}
  BY DEF Init, Helper!Init
<1>2. core \in Cores /\ ~core.running /\ ~core.xray /\ ~core.sbox
  BY <1>1 DEF CoreDown, Cores
<1>3. TypeInv
  <2>1. HelperTypes
    BY <1>1 DEF HelperTypes
  <2>2. ClientTypes
    BY <1>1, <1>2, NoCallFields DEF ClientTypes
  <2>3. ControlTypes
    BY <1>1 DEF ControlTypes, Modes
  <2>4. Served
    BY <1>1, NoCallFields DEF Served
  <2> QED BY <2>1, <2>2, <2>3, <2>4 DEF TypeInv
<1>4. CoreInv
  BY <1>1, <1>2, NoCallFields DEF CoreInv
<1>5. CalmInv
  BY <1>1, <1>2, NoCallFields DEF CalmInv, CalmCalls, CalmInbox, CalmId, CalmState
<1> QED BY <1>3, <1>4, <1>5 DEF AllInv

LEMMA InvStutters == ASSUME AllInv, UNCHANGED vars PROVE AllInv'
<1>1. UNCHANGED <<sess, state, past, alive, inbox, plat, active, conn, sid, core, call, drv,
                  mode, pending, rec, faults, lost>>
  BY DEF vars, helper, client, ctl
<1> QED BY <1>1 DEF AllInv, TypeInv, HelperTypes, ClientTypes, ControlTypes, Served, CoreInv,
                    CalmInv, Calm, CalmCalls, CalmInbox, CalmId, CalmState

LEMMA InvStep == AllInv /\ [Next]_vars => AllInv'
<1> SUFFICES ASSUME AllInv, [Next]_vars PROVE AllInv'
  OBVIOUS
<1>1. CASE ClientStep
  BY <1>1, WriteKeeps, CannotWriteKeeps, ReadKeeps, StartedKeeps, StartFailedKeeps,
     StoppedKeeps, StopFailedKeeps, PolledKeeps, ReconcileKeeps, ReconciledKeeps
  DEF ClientStep
<1>2. CASE Lose \/ StopTimeout \/ Handle \/ CoreExits \/ HelperStops \/ HelperStarts
  BY <1>2, LoseKeeps, StopTimeoutKeeps, HandleKeeps, CoreExitsKeeps, HelperStopsKeeps,
     HelperStartsKeeps
<1>3. CASE (\E m \in Modes : Start(m)) \/ StartRejected \/ Stop \/ Poll \/ BridgeExits
  BY <1>3, StartKeeps, StartRejectedKeeps, StopKeeps, PollKeeps, BridgeExitsKeeps
<1> QED BY <1>1, <1>2, <1>3, InvStutters DEF Next

\* The invariant holds always.
THEOREM InvHolds == Spec => []AllInv
  BY InvInit, InvStep, PTL DEF Spec

\* Whatever breaks, what the clients keep of the helper stays well formed: an
\* id they send is a session's or none, and what they write is a request.
THEOREM TypeCorrect == Spec => []TypeOK
<1>1. AllInv => TypeOK
  BY DEF AllInv, TypeInv, HelperTypes, ClientTypes, ControlTypes, Requests, Calls, Cores,
         TypeOK, Helper!States
<1> QED BY <1>1, InvHolds, PTL

\* The two backends of the Linux routing client never run a chain each while
\* every exchange is answered, no engine of the in-process core outlives the
\* client's knowledge of it, and a client that believes a chain is up calls the
\* backend that runs it (helper_adapter_other.go:111-150).
THEOREM OneChainHolds == Spec => []OneChain
<1>1. AllInv => OneChain
  <2> SUFFICES ASSUME AllInv PROVE OneChain
    OBVIOUS
  <2>1. core.running /\ lost = {} /\ Without({"exit"}) => Calm
    BY DEF AllInv, CoreInv, Calm, Without
  <2>2. core.running /\ lost = {} /\ Without({"exit"}) => state # "up"
    BY <2>1 DEF AllInv, CalmInv, CalmState
  <2> QED BY <2>2 DEF AllInv, CoreInv, OneChain
<1> QED BY <1>1, InvHolds, PTL

(***************************************************************************)
(* What the order of requests guarantees: the invariant behind StopReaches,*)
(* IdleHasNoSession and StopSucceeds, on both platforms.                   *)
(***************************************************************************)
\* The exchange of each thing the controller does, whatever breaks; a bridge
\* that does not die never boots, and a cleanup that completes leaves nothing.
Dialogue ==
  /\ drv = "idle" => call = NoCall
  /\ drv = "start" => call.op = "start"
  /\ drv \in {"stop", "drop"} => call.op = "stop"
  /\ drv \in {"up", "boot"} => call = NoCall \/ call.op = "status"
  /\ call.op # "none" => call.at # "none"
  /\ "exit" \notin faults => drv # "boot"
  /\ "dirty" \notin faults => state # "dirty"

\* Only the last request is awaited, and only while its exchange is open.
Awaited ==
  /\ \A i \in 1 .. Len(inbox) : inbox[i].live =>
       i = Len(inbox) /\ call.at = "sent" /\ inbox[i].op = call.op
  /\ call.at = "sent" => Len(inbox) # 0 /\ inbox[Len(inbox)].live

\* What an answer tells, as long as requests are handled in order.
InOrder ==
  "late" \notin faults /\ call.at = "back" /\ call.reply = "ok" =>
    /\ call.op \in {"start", "stop"} => inbox = << >>
    /\ call.op = "stop" => state = "down"
    /\ call.op = "start" => state = "down" \/ call.val = sess

\* The id that the client holds is about to be replaced: by the answer there
\* is, or on Windows by whatever becomes of the start.
Replaced ==
  call.op = "start" /\ (plat = "windows" \/ (call.at = "back" /\ call.reply = "ok"))

\* The client's id is that of the helper's session, and a start nobody waits
\* for finds a client that holds none.
Known == "late" \notin faults /\ (plat = "windows" \/ lost = {})
IdKnown ==
  Known =>
    /\ state # "down" => sid \in {NoSession, sess} \/ Replaced
    /\ \A i \in 1 .. Len(inbox) : inbox[i].op = "start" /\ ~inbox[i].live =>
         sid = NoSession \/ (call.op = "start" /\ plat = "windows")

\* On Windows, a controller with nothing pending begins an attempt with no
\* session in the helper and no request on its way.
Alone == plat = "windows" /\ {"lost", "late", "exit"} \cap faults = {}
Unstarted ==
  Alone /\ ~pending =>
    /\ drv = "idle" => state = "down" /\ inbox = << >>
    /\ drv = "start" =>
         /\ call.at = "dial" => state = "down" /\ inbox = << >>
         /\ call.at = "sent" => state = "down" /\ Len(inbox) = 1
         /\ call.at = "back" => inbox = << >>
         /\ call.at = "back" /\ call.reply = "err" => state = "down"

OrderInv == Dialogue /\ Awaited /\ InOrder /\ IdKnown /\ Unstarted

\* Forsaken requests keep their places and their operations.
LEMMA ForsakeDead ==
  ASSUME inbox \in Seq(Requests), Forsake
  PROVE  /\ Len(inbox') = Len(inbox)
         /\ \A i \in 1 .. Len(inbox) : ~inbox'[i].live /\ inbox'[i].op = inbox[i].op
<1>1. DOMAIN inbox = 1 .. Len(inbox) /\ Len(inbox) \in Nat
      /\ inbox \in [1 .. Len(inbox) -> Requests]
  BY LenProperties
<1>2. inbox' \in [1 .. Len(inbox) -> Requests]
  BY <1>1 DEF Forsake, Requests
<1>3. inbox' \in Seq(Requests) /\ Len(inbox') = Len(inbox)
  BY <1>1, <1>2, SeqDef, LenProperties
<1>4. ASSUME NEW i \in 1 .. Len(inbox)
      PROVE  ~inbox'[i].live /\ inbox'[i].op = inbox[i].op
  <2>1. inbox[i] \in Requests /\ inbox'[i] = [inbox[i] EXCEPT !.live = FALSE]
    BY <1>1 DEF Forsake
  <2> QED BY <2>1 DEF Requests
<1> QED BY <1>3, <1>4

\* The requests behind the one that is handled move up by one place.
LEMMA RemoveShifts ==
  ASSUME inbox \in Seq(Requests), NEW i \in 1 .. Len(inbox),
         NEW rest, rest = SubSeq(inbox, 1, i - 1) \o SubSeq(inbox, i + 1, Len(inbox))
  PROVE  /\ rest \in Seq(Requests) /\ Len(rest) = Len(inbox) - 1
         /\ \A j \in 1 .. Len(rest) : rest[j] = inbox[IF j < i THEN j ELSE j + 1]
<1> DEFINE a == SubSeq(inbox, 1, i - 1)
           b == SubSeq(inbox, i + 1, Len(inbox))
<1>1. Len(inbox) \in Nat /\ i \in Nat /\ i >= 1 /\ i <= Len(inbox)
      /\ \A n \in 1 .. Len(inbox) : inbox[n] \in Requests
  BY LenProperties, ElementOfSeq
<1>2. /\ a \in Seq(Requests) /\ Len(a) = i - 1
      /\ \A n \in 1 .. i - 1 : a[n] = inbox[n]
  <2>1. 1 \in Int /\ i - 1 \in Int /\ \A n \in 1 .. i - 1 : inbox[n] \in Requests
    BY <1>1
  <2>2. /\ a \in Seq(Requests)
        /\ Len(a) = IF 1 <= i - 1 THEN (i - 1) - 1 + 1 ELSE 0
        /\ \A n \in 1 .. (i - 1) - 1 + 1 : a[n] = inbox[1 + n - 1]
    BY <2>1, SubSeqProperties
  <2> QED BY <1>1, <2>2
<1>3. /\ b \in Seq(Requests) /\ Len(b) = Len(inbox) - i
      /\ \A n \in 1 .. Len(inbox) - i : b[n] = inbox[i + n]
  <2>1. i + 1 \in Int /\ Len(inbox) \in Int
        /\ \A n \in i + 1 .. Len(inbox) : inbox[n] \in Requests
    BY <1>1
  <2>2. /\ b \in Seq(Requests)
        /\ Len(b) = IF i + 1 <= Len(inbox) THEN Len(inbox) - (i + 1) + 1 ELSE 0
        /\ \A n \in 1 .. Len(inbox) - (i + 1) + 1 : b[n] = inbox[(i + 1) + n - 1]
    BY <2>1, SubSeqProperties
  <2> QED BY <1>1, <2>2
<1> HIDE DEF a, b
<1>4. /\ a \o b \in Seq(Requests) /\ Len(a \o b) = Len(a) + Len(b)
      /\ \A n \in 1 .. Len(a) + Len(b) :
           (a \o b)[n] = IF n <= Len(a) THEN a[n] ELSE b[n - Len(a)]
  <2>1. a \in Seq(Requests) /\ b \in Seq(Requests)
    BY <1>2, <1>3
  <2> QED BY <2>1, ConcatProperties, Zenon
<1>5. rest = a \o b
  BY DEF a, b
<1>6. Len(rest) = Len(inbox) - 1 /\ Len(a) + Len(b) = Len(inbox) - 1
  <2>1. Len(a) = i - 1 /\ Len(b) = Len(inbox) - i
    BY <1>2, <1>3, Zenon
  <2>2. (i - 1) + (Len(inbox) - i) = Len(inbox) - 1
    BY <1>1
  <2> QED BY <1>4, <1>5, <2>1, <2>2, Zenon
<1>7. ASSUME NEW j \in 1 .. Len(inbox) - 1
      PROVE  rest[j] = inbox[IF j < i THEN j ELSE j + 1]
  <2>1. rest[j] = IF j <= i - 1 THEN a[j] ELSE b[j - (i - 1)]
    BY <1>2, <1>4, <1>5, <1>6, Zenon
  <2>2. CASE j < i
    <3>1. j <= i - 1 /\ j \in 1 .. i - 1
      BY <1>1, <2>2
    <3> QED BY <1>2, <2>1, <2>2, <3>1, Zenon
  <2>3. CASE ~(j < i)
    <3>1. ~(j <= i - 1) /\ j - (i - 1) \in 1 .. Len(inbox) - i /\ i + (j - (i - 1)) = j + 1
      BY <1>1, <2>3
    <3> QED BY <1>3, <2>1, <2>3, <3>1, Zenon
  <2> QED BY <2>2, <2>3
<1> QED BY <1>4, <1>5, <1>6, <1>7, Zenon

\* With no exchange open nothing in the inbox is awaited, and a step that
\* leaves the inbox alone and opens none keeps it so.
LEMMA AwaitedRests ==
  ASSUME Awaited, UNCHANGED inbox, call.at # "sent", call'.at # "sent"
  PROVE  Awaited'
  BY DEF Awaited

LEMMA AwaitedEmpty ==
  ASSUME inbox' = << >>, call'.at # "sent"
  PROVE  Awaited'
  BY DEF Awaited

LEMMA AwaitedForsaken ==
  ASSUME inbox \in Seq(Requests), Forsake, call'.at # "sent"
  PROVE  Awaited'
  BY ForsakeDead DEF Awaited

LEMMA WriteOrder == ASSUME AllInv, OrderInv, Write PROVE OrderInv'
<1> USE DEF OrderInv
<1> DEFINE r == [op |-> call.op, live |-> TRUE,
                 id |-> IF call.op = "stop" THEN sid ELSE NoSession]
<1>1. /\ call.at = "dial" /\ inbox' = Append(inbox, r) /\ call' = [call EXCEPT !.at = "sent"]
      /\ UNCHANGED <<sess, state, plat, sid, drv, pending, faults, lost>>
  BY DEF Write, helper, ctl
<1>2. call \in Calls /\ inbox \in Seq(Requests) /\ sid \in Sessions \cup {NoSession}
      /\ call.op # "none" /\ Len(inbox) \in Nat
  BY <1>1, LenProperties DEF AllInv, TypeInv, HelperTypes, ClientTypes, Served
<1>3. call'.op = call.op /\ call'.at = "sent" /\ call.op \in Ops
  BY <1>1, <1>2 DEF Calls
<1>4. r \in Requests /\ r.live /\ r.op = call.op
  BY <1>2, <1>3 DEF Requests
<1> HIDE DEF r
<1>5. /\ Len(inbox') = Len(inbox) + 1 /\ inbox'[Len(inbox) + 1] = r
      /\ \A i \in 1 .. Len(inbox) : inbox'[i] = inbox[i]
  BY <1>1, <1>2, <1>4, AppendProperties
<1>6. \A i \in 1 .. Len(inbox) : ~inbox[i].live
  BY <1>1 DEF Awaited
<1>7. \A i \in 1 .. Len(inbox') : i = Len(inbox') \/ (i \in 1 .. Len(inbox) /\ inbox'[i] = inbox[i])
  BY <1>2, <1>5
<1>8. Dialogue'
  BY <1>1, <1>3, NoCallFields DEF Dialogue
<1>9. Awaited'
  BY <1>2, <1>3, <1>4, <1>5, <1>6, <1>7 DEF Awaited
<1>10. InOrder'
  BY <1>3 DEF InOrder
<1>11. IdKnown'
  BY <1>1, <1>3, <1>4, <1>5, <1>7 DEF IdKnown, Known, Replaced
<1>12. Unstarted'
  <2>1. inbox = << >> => Len(inbox') = 1
    BY <1>5
  <2> QED BY <1>1, <1>3, <2>1, NoCallFields DEF Unstarted, Alone, Dialogue
<1> QED BY <1>8, <1>9, <1>10, <1>11, <1>12

LEMMA CannotWriteOrder == ASSUME AllInv, OrderInv, CannotWrite PROVE OrderInv'
<1> USE DEF OrderInv
<1>1. /\ call.at = "dial" /\ Failed
      /\ UNCHANGED <<sess, state, inbox, plat, sid, drv, pending, faults, lost>>
  BY DEF CannotWrite, helper, ctl
<1>2. call \in Calls /\ call.op # "none"
  BY <1>1 DEF AllInv, TypeInv, ClientTypes, Served
<1>3. /\ call'.op = call.op /\ call'.at \in {"dial", "back"}
      /\ call'.at = "back" => call'.reply = "err"
      /\ plat = "windows" => call'.at = "back"
  BY <1>1, <1>2, FailedFields DEF Retries
<1>4. Dialogue'
  BY <1>1, <1>2, <1>3, NoCallFields DEF Dialogue
<1>5. Awaited'
  BY <1>1, <1>3, AwaitedRests
<1>6. InOrder'
  BY <1>3 DEF InOrder
<1>7. IdKnown'
  BY <1>1, <1>3 DEF IdKnown, Known, Replaced
<1>8. Unstarted'
  BY <1>1, <1>3, NoCallFields DEF Unstarted, Alone, Dialogue
<1> QED BY <1>4, <1>5, <1>6, <1>7, <1>8

LEMMA LoseOrder == ASSUME AllInv, OrderInv, Lose PROVE OrderInv'
<1> USE DEF OrderInv
<1>1. /\ "lost" \in faults /\ call.at = "sent" /\ Forsake /\ Failed
      /\ lost' = lost \cup {"broken"}
      /\ UNCHANGED <<sess, state, plat, sid, drv, pending, faults>>
  BY DEF Lose, helper, ctl
<1>2. call \in Calls /\ call.op # "none" /\ inbox \in Seq(Requests)
  BY <1>1 DEF AllInv, TypeInv, HelperTypes, ClientTypes, Served
<1>3. /\ call'.op = call.op /\ call'.at \in {"dial", "back"}
      /\ call'.at = "back" => call'.reply = "err"
  BY <1>1, <1>2, FailedFields
<1>4. /\ Len(inbox') = Len(inbox)
      /\ \A i \in 1 .. Len(inbox) : inbox'[i].op = inbox[i].op
  BY <1>1, <1>2, ForsakeDead
<1>5. Dialogue'
  BY <1>1, <1>2, <1>3, NoCallFields DEF Dialogue
<1>6. Awaited'
  BY <1>1, <1>2, <1>3, AwaitedForsaken
<1>7. InOrder'
  BY <1>3 DEF InOrder
<1>8. IdKnown'
  <2> SUFFICES ASSUME Known' PROVE IdKnown'
    BY DEF IdKnown
  <2>1. plat = "windows" /\ Known
    BY <1>1 DEF Known
  <2>2. \A i \in 1 .. Len(inbox) : inbox[i].op = "start" =>
          sid = NoSession \/ call.op = "start"
    BY <2>1 DEF IdKnown, Awaited
  <2> QED BY <1>1, <1>3, <1>4, <2>1, <2>2 DEF IdKnown, Replaced
<1>9. Unstarted'
  BY <1>1 DEF Unstarted, Alone
<1> QED BY <1>5, <1>6, <1>7, <1>8, <1>9

LEMMA ReadOrder == ASSUME AllInv, OrderInv, Read PROVE OrderInv'
<1> USE DEF OrderInv
<1>1. /\ call.at = "back" /\ call.reply = "err" /\ Retries /\ Failed
      /\ UNCHANGED <<sess, state, inbox, plat, sid, drv, pending, faults, lost>>
  BY DEF Read, helper, ctl
<1>2. call \in Calls /\ call.op # "none" /\ plat = "linux"
  BY <1>1 DEF AllInv, TypeInv, ClientTypes, Served, Retries
<1>3. call'.op = call.op /\ call'.at = "dial"
  BY <1>1, <1>2, FailedFields
<1>4. Dialogue'
  BY <1>1, <1>2, <1>3, NoCallFields DEF Dialogue
<1>5. Awaited'
  BY <1>1, <1>3, AwaitedRests
<1>6. InOrder' /\ Unstarted'
  BY <1>1, <1>2, <1>3 DEF InOrder, Unstarted, Alone
<1>7. IdKnown'
  BY <1>1, <1>2, <1>3 DEF IdKnown, Known, Replaced
<1> QED BY <1>4, <1>5, <1>6, <1>7

\* A request that nobody waits for changes the helper and not the exchange.
LEMMA HandleUnawaited ==
  ASSUME NEW r, ~r.live, HandleStart(r) \/ HandleStop(r) \/ HandleStatus(r)
  PROVE  call' = call
  BY DEF HandleStart, HandleStop, HandleStatus, Answer

\* Only a cleanup that was incomplete leaves the helper dirty.
LEMMA HandleDirties ==
  ASSUME NEW r, HandleStart(r) \/ HandleStop(r) \/ HandleStatus(r)
  PROVE  state' = "dirty" => state = "dirty" \/ "dirty" \in faults
  BY DEF HandleStart, HandleStop, HandleStatus, Helper!Started, Helper!Ended, helper

LEMMA HandleOrder == ASSUME AllInv, OrderInv, Handle PROVE OrderInv'
<1> USE DEF OrderInv
<1>1. inbox \in Seq(Requests) /\ call \in Calls /\ Len(inbox) \in Nat /\ TypeInv
      /\ DOMAIN inbox = 1 .. Len(inbox)
  BY LenProperties DEF AllInv, TypeInv, HelperTypes, ClientTypes
<1>2. PICK i \in 1 .. Len(inbox) :
        /\ i = 1 \/ "late" \in faults
        /\ inbox[i].op = "start"  => HandleStart(inbox[i])
        /\ inbox[i].op = "stop"   => HandleStop(inbox[i])
        /\ inbox[i].op = "status" => HandleStatus(inbox[i])
        /\ inbox' = SubSeq(inbox, 1, i - 1) \o SubSeq(inbox, i + 1, Len(inbox))
        /\ UNCHANGED <<plat, sid, drv, pending, faults, lost>>
  BY <1>1 DEF Handle, client, ctl
<1> DEFINE r == inbox[i]
<1>3. /\ inbox' \in Seq(Requests) /\ Len(inbox') = Len(inbox) - 1
      /\ \A j \in 1 .. Len(inbox') : inbox'[j] = inbox[IF j < i THEN j ELSE j + 1]
  BY <1>1, <1>2, RemoveShifts
<1>3a. /\ Len(inbox') = Len(inbox) - 1 /\ Len(inbox) \in Nat
       /\ i \in Nat /\ 1 <= i /\ i <= Len(inbox)
  <2>1. Len(inbox') = Len(inbox) - 1 /\ Len(inbox) \in Nat
    BY <1>1, <1>3, Zenon
  <2> QED BY <2>1
<1>4. r \in Requests /\ r.op \in {"start", "stop", "status"}
  <2>1. r \in Requests
    BY <1>1, ElementOfSeq
  <2> QED BY <2>1 DEF Requests, Ops
<1>5. HandleStart(r) \/ HandleStop(r) \/ HandleStatus(r)
  BY <1>2, <1>4
<1>6. /\ call'.op = call.op /\ call'.at \in {call.at, "back"}
      /\ state' = "dirty" => state = "dirty" \/ "dirty" \in faults
  <2>1. Handled
    BY <1>1, <1>5, HandleStartEffect, HandleStopEffect, HandleStatusEffect
  <2> QED BY <1>5, <2>1, HandleDirties DEF Handled
<1>7. ~r.live => call' = call
  BY <1>5, HandleUnawaited
<1>8. r.live => i = Len(inbox) /\ call.at = "sent" /\ r.op = call.op
  BY DEF Awaited
<1>9. r.live => call'.at = "back"
  BY <1>1, <1>2, <1>4, HandleStartEffect, HandleStopEffect, HandleStatusEffect
<1>10. Dialogue'
  BY <1>2, <1>6, <1>7, <1>8, NoCallFields DEF Dialogue
<1>11. ASSUME NEW j \in 1 .. Len(inbox')
       PROVE  \E k \in 1 .. Len(inbox) :
                /\ k # i /\ inbox'[j] = inbox[k]
                /\ k = Len(inbox) => j = Len(inbox') /\ i # Len(inbox)
  <2>1. CASE j < i
    <3>1. j \in 1 .. Len(inbox) /\ j # i /\ j # Len(inbox)
      BY <1>3a, <2>1
    <3>2. inbox'[j] = inbox[j]
      BY <1>3, <2>1, Zenon
    <3> QED BY <3>1, <3>2, Zenon
  <2>2. CASE ~(j < i)
    <3>1. /\ j + 1 \in 1 .. Len(inbox) /\ j + 1 # i
          /\ j + 1 = Len(inbox) => j = Len(inbox') /\ i # Len(inbox)
      BY <1>3a, <2>2
    <3>2. inbox'[j] = inbox[j + 1]
      BY <1>3, <2>2, Zenon
    <3> QED BY <3>1, <3>2, Zenon
  <2> QED BY <2>1, <2>2
<1>12. Awaited'
  <2>1. CASE r.live
    <3>1. \A j \in 1 .. Len(inbox') : ~inbox'[j].live
      BY <1>8, <1>11, <2>1 DEF Awaited
    <3> QED BY <1>9, <2>1, <3>1 DEF Awaited
  <2>2. CASE ~r.live
    <3>1. call' = call
      BY <1>7, <2>2
    <3>2. \A j \in 1 .. Len(inbox') : inbox'[j].live =>
            j = Len(inbox') /\ call.at = "sent" /\ inbox'[j].op = call.op
      BY <1>11 DEF Awaited
    <3>3. ASSUME call.at = "sent"
          PROVE  Len(inbox') # 0 /\ inbox'[Len(inbox')].live
      <4>1. i # Len(inbox) /\ inbox[Len(inbox)].live
        BY <2>2, <3>3 DEF Awaited
      <4>2. Len(inbox') \in 1 .. Len(inbox') /\ ~(Len(inbox') < i) /\ Len(inbox') + 1 = Len(inbox)
        BY <1>3a, <4>1
      <4>3. inbox'[Len(inbox')] = inbox[Len(inbox)]
        BY <1>3, <4>2, Zenon
      <4> QED BY <4>1, <4>2, <4>3
    <3> QED BY <3>1, <3>2, <3>3 DEF Awaited
  <2> QED BY <2>1, <2>2
<1>13. "late" \notin faults /\ r.live => inbox' = << >>
  <2> SUFFICES ASSUME "late" \notin faults, r.live PROVE inbox' = << >>
    OBVIOUS
  <2>1. Len(inbox) = 1
    BY <1>2, <1>8, Zenon
  <2>2. Len(inbox') = 0
    BY <1>3a, <2>1
  <2> QED BY <1>3, <2>2, EmptySeq
<1>14. InOrder'
  <2> SUFFICES ASSUME "late" \notin faults, call'.at = "back", call'.reply = "ok"
               PROVE  /\ call'.op \in {"start", "stop"} => inbox' = << >>
                      /\ call'.op = "stop" => state' = "down"
                      /\ call'.op = "start" => state' = "down" \/ call'.val = sess'
    BY <1>2 DEF InOrder
  <2>1. CASE r.live
    <3>1. r.op = "stop" => state' = "down"
      BY <1>1, <1>2, <2>1, HandleStopEffect
    <3>2. r.op = "start" => call'.val = sess'
      BY <1>1, <1>2, <2>1, HandleStartEffect
    <3> QED BY <1>6, <1>8, <1>13, <2>1, <3>1, <3>2
  <2>2. CASE ~r.live
    <3>1. inbox # << >> /\ call' = call
      BY <1>1, <1>7, <2>2
    <3> QED BY <3>1 DEF InOrder, Dialogue
  <2> QED BY <2>1, <2>2
<1>15. IdKnown'
  <2> SUFFICES ASSUME Known
               PROVE  /\ state' # "down" => sid \in {NoSession, sess'} \/ Replaced'
                      /\ \A j \in 1 .. Len(inbox') : inbox'[j].op = "start" /\ ~inbox'[j].live =>
                           sid = NoSession \/ (call.op = "start" /\ plat = "windows")
    BY <1>2, <1>6 DEF IdKnown, Known
  <2>1. /\ state # "down" => sid \in {NoSession, sess} \/ Replaced
        /\ \A k \in 1 .. Len(inbox) : inbox[k].op = "start" /\ ~inbox[k].live =>
             sid = NoSession \/ (call.op = "start" /\ plat = "windows")
    BY DEF IdKnown
  <2>2. Replaced => Replaced' \/ r.live
    BY <1>2, <1>7 DEF Replaced
  <2>3. r.live => (Replaced <=> call.op = "start" /\ plat = "windows")
    BY <1>8 DEF Replaced
  <2>4. call.op = "start" /\ plat = "windows" => Replaced'
    BY <1>2, <1>6 DEF Replaced
  <2>5. CASE r.op = "start"
    <3>1. CASE r.live
      <4>1. /\ call'.at = "back" /\ call'.reply \in {"ok", "err"} /\ call'.op = "start"
            /\ call'.reply = "err" => sess' = sess /\ state' = state
        BY <1>1, <1>2, <1>6, <1>8, <2>5, <3>1, HandleStartEffect
      <4> QED BY <1>11, <2>1, <2>3, <2>4, <3>1, <4>1 DEF Replaced
    <3>2. CASE ~r.live
      BY <1>11, <2>1, <2>4, <2>5, <3>2
    <3> QED BY <3>1, <3>2
  <2>6. CASE r.op = "stop"
    <3>1. state' # "down" => sess' = sess /\ state # "down"
      BY <1>1, <1>2, <2>6, HandleStopEffect
    <3> QED BY <1>11, <2>1, <2>2, <2>3, <2>4, <3>1
  <2>7. CASE r.op = "status"
    <3>1. sess' = sess /\ state' = state
      BY <1>1, <1>2, <2>7, HandleStatusEffect
    <3> QED BY <1>11, <2>1, <2>2, <2>3, <2>4, <3>1
  <2> QED BY <1>4, <2>5, <2>6, <2>7
<1>16. Unstarted'
  <2> SUFFICES ASSUME Alone, ~pending, drv \in {"idle", "start"}
               PROVE  /\ drv = "start" /\ call'.at = "back" /\ inbox' = << >>
                      /\ call'.reply = "err" => state' = "down"
    BY <1>2 DEF Unstarted, Alone
  <2>1. "late" \notin faults /\ inbox # << >>
    BY <1>1 DEF Alone
  <2>2. drv = "start" /\ call.at = "sent" /\ state = "down" /\ Len(inbox) = 1 /\ call.op = "start"
    <3>1. call.at \in {"none", "dial", "sent", "back"}
      BY <1>1 DEF Calls
    <3> QED BY <2>1, <3>1 DEF Unstarted, Dialogue
  <2>3. i = 1 /\ r.live /\ r.op = "start"
    BY <1>1, <2>2 DEF Awaited
  <2>4. call'.at = "back" /\ (call'.reply = "err" => state' = state)
    BY <1>1, <1>2, <2>3, HandleStartEffect
  <2> QED BY <1>13, <2>1, <2>2, <2>3, <2>4
<1> QED BY <1>10, <1>12, <1>14, <1>15, <1>16

LEMMA CoreExitsOrder == ASSUME AllInv, OrderInv, CoreExits PROVE OrderInv'
<1> USE DEF OrderInv
<1>1. /\ state = "up" /\ (Helper!Ended \/ ("dirty" \in faults /\ Helper!Incomplete))
      /\ UNCHANGED <<inbox, plat, sid, call, drv, pending, faults, lost>>
  BY DEF CoreExits, client, ctl
<1>2. state' = "down" \/ (sess' = sess /\ state' = "dirty" /\ "dirty" \in faults)
  BY <1>1 DEF Helper!Ended, Helper!Incomplete
<1>3. Dialogue'
  BY <1>1, <1>2 DEF Dialogue
<1>4. Awaited'
  BY <1>1 DEF Awaited
<1>5. InOrder'
  BY <1>1, <1>2 DEF InOrder
<1>6. IdKnown'
  BY <1>1, <1>2 DEF IdKnown, Known, Replaced
<1>7. Unstarted'
  BY <1>1, <1>2 DEF Unstarted, Alone
<1> QED BY <1>3, <1>4, <1>5, <1>6, <1>7

LEMMA HelperStopsOrder == ASSUME AllInv, OrderInv, HelperStops PROVE OrderInv'
<1> USE DEF OrderInv
<1>1. /\ inbox' = << >> /\ (IF state = "down" THEN UNCHANGED helper ELSE Helper!Ended)
      /\ IF call.at = "sent" THEN Failed ELSE call' = call
      /\ UNCHANGED <<plat, sid, drv, pending, faults, lost>>
  BY DEF HelperStops, ctl
<1>2. call \in Calls /\ (call.at = "sent" => call.op # "none")
  BY DEF AllInv, TypeInv, ClientTypes, Served
<1>3. state' = "down"
  BY <1>1 DEF Helper!Ended, helper
<1>4. call.at = "sent" =>
        /\ call'.op = call.op /\ call'.at \in {"dial", "back"}
        /\ call'.at = "back" => call'.reply = "err"
        /\ plat = "windows" => call'.at = "back"
  BY <1>1, <1>2, FailedFields DEF Retries
<1>5. call'.op = call.op /\ call'.at # "sent" /\ (call = NoCall => call' = NoCall)
      /\ (call'.at = "none" => call.at = "none")
  BY <1>1, <1>4, NoCallFields
<1>6. Dialogue'
  BY <1>1, <1>3, <1>5 DEF Dialogue
<1>7. Awaited'
  BY <1>1, <1>5, AwaitedEmpty
<1>8. InOrder'
  BY <1>1, <1>3 DEF InOrder
<1>9. IdKnown'
  BY <1>1, <1>3 DEF IdKnown
<1>10. Unstarted'
  BY <1>1, <1>3, <1>5 DEF Unstarted
<1> QED BY <1>6, <1>7, <1>8, <1>9, <1>10

LEMMA HelperStartsOrder == ASSUME OrderInv, HelperStarts PROVE OrderInv'
<1>1. UNCHANGED <<sess, state, inbox, plat, sid, call, drv, pending, faults, lost>>
  BY DEF HelperStarts, helper, client, ctl
<1> QED BY <1>1 DEF OrderInv, Dialogue, Awaited, InOrder, IdKnown, Known, Replaced, Unstarted,
                    Alone

LEMMA StartOrder == ASSUME AllInv, OrderInv, NEW m \in Modes, Start(m) PROVE OrderInv'
<1> USE DEF OrderInv
<1>1. /\ drv = "idle" /\ active' = Latch(m) /\ call = NoCall
      /\ UNCHANGED <<sess, state, inbox, plat, sid, faults, lost>>
  BY DEF Start, helper, Dialogue
<1>2. Awaited'  /\ (active' = "core" => plat # "windows")
  <2>1. call'.at # "sent" /\ call.at # "sent"
    BY <1>1, BeginFields, NoCallFields DEF Start, Ops
  <2>2. active' = "core" => plat # "windows"
    BY <1>1 DEF Latch, AllInv, CoreInv
  <2> QED BY <1>1, <2>1, <2>2, AwaitedRests
<1>3. CASE active' = "core"
  <2>1. plat # "windows" /\ call' = NoCall /\ drv' \in {"up", "idle"}
    BY <1>1, <1>2, <1>3 DEF Start
  <2>2. Dialogue'
    BY <1>1, <2>1, NoCallFields DEF Dialogue
  <2>3. InOrder' /\ Unstarted'
    BY <1>1, <2>1, NoCallFields DEF InOrder, Unstarted, Alone
  <2>4. IdKnown'
    BY <1>1, <2>1, NoCallFields DEF IdKnown, Known, Replaced
  <2> QED BY <1>2, <2>2, <2>3, <2>4
<1>4. CASE active' # "core"
  <2>1. Begin("start") /\ drv' = "start" /\ pending' = pending
    BY <1>4 DEF Start
  <2>2. call'.op = "start" /\ call'.at = "dial"
    BY <2>1, BeginFields DEF Ops
  <2>3. Dialogue'
    BY <1>1, <2>1, <2>2 DEF Dialogue
  <2>4. InOrder' /\ Unstarted'
    BY <1>1, <2>1, <2>2 DEF InOrder, Unstarted, Alone
  <2>5. IdKnown'
    BY <1>1, <2>2, NoCallFields DEF IdKnown, Known, Replaced
  <2> QED BY <1>2, <2>3, <2>4, <2>5
<1> QED BY <1>3, <1>4

LEMMA StartRejectedOrder == ASSUME OrderInv, StartRejected PROVE OrderInv'
<1> USE DEF OrderInv
<1>1. /\ drv = "idle" /\ sid' \in {sid, NoSession}
      /\ UNCHANGED <<sess, state, inbox, plat, call, drv, pending, faults, lost>>
  BY DEF StartRejected, helper, Invalidate
<1>2. Dialogue' /\ Awaited' /\ InOrder' /\ Unstarted'
  BY <1>1 DEF Dialogue, Awaited, InOrder, Unstarted, Alone
<1>3. IdKnown'
  BY <1>1 DEF IdKnown, Known, Replaced
<1> QED BY <1>2, <1>3

LEMMA StartedOrder == ASSUME AllInv, OrderInv, Started PROVE OrderInv'
<1> USE DEF OrderInv
<1>1. /\ drv = "start" /\ call.at = "back" /\ call.reply = "ok" /\ sid' = call.val
      /\ drv' = "up" /\ pending' = FALSE /\ call' = NoCall
      /\ UNCHANGED <<sess, state, inbox, plat, faults, lost>>
  BY DEF Started, Returned, Learn, helper
<1>2. call.op = "start"
  BY <1>1 DEF Dialogue
<1>3. Dialogue'
  BY <1>1, NoCallFields DEF Dialogue
<1>4. Awaited'
  BY <1>1, AwaitedRests, NoCallFields
<1>5. InOrder' /\ Unstarted'
  BY <1>1, NoCallFields DEF InOrder, Unstarted
<1>6. IdKnown'
  BY <1>1, <1>2 DEF IdKnown, Known, InOrder
<1> QED BY <1>3, <1>4, <1>5, <1>6

LEMMA StartFailedOrder == ASSUME AllInv, OrderInv, StartFailed PROVE OrderInv'
<1> USE DEF OrderInv
<1>1. /\ drv = "start" /\ call.at = "back" /\ call.reply = "err" /\ Invalidate
      /\ drv' = "idle" /\ call' = NoCall
      /\ UNCHANGED <<sess, state, inbox, plat, pending, faults, lost>>
  BY DEF StartFailed, Returned, helper
<1>2. plat = "windows" => sid' = NoSession
  BY <1>1 DEF Invalidate
<1>2a. plat # "windows" => sid' = sid
  BY <1>1 DEF Invalidate
<1>3. Dialogue'
  BY <1>1, NoCallFields DEF Dialogue
<1>4. Awaited'
  BY <1>1, AwaitedRests, NoCallFields
<1>5. InOrder'
  BY <1>1, NoCallFields DEF InOrder
<1>6. Unstarted'
  BY <1>1 DEF Unstarted, Alone
<1>7. IdKnown'
  BY <1>1, <1>2, <1>2a DEF IdKnown, Known, Replaced
<1> QED BY <1>3, <1>4, <1>5, <1>6, <1>7

LEMMA StopOrder == ASSUME AllInv, OrderInv, Stop PROVE OrderInv'
<1> USE DEF OrderInv
<1>1. /\ drv \in {"up", "start", "drop", "idle"}
      /\ UNCHANGED <<sess, state, plat, faults>>
  BY DEF Stop, helper
<1>2. inbox \in Seq(Requests)
  BY DEF AllInv, TypeInv, HelperTypes
<1>3. \/ drv' = "stop" /\ call'.op = "stop" /\ call'.at = "dial"
      \/ drv' = "idle" /\ call' = NoCall /\ plat # "windows"
  <2>1. CASE StopTarget = "daemon"
    <3>1. Begin("stop") /\ drv' = "stop"
      BY <2>1 DEF Stop
    <3> QED BY <3>1, BeginFields DEF Ops
  <2>2. CASE StopTarget # "daemon"
    BY <2>2 DEF Stop, StopTarget
  <2> QED BY <2>1, <2>2
<1>4. call'.at # "sent" /\ call'.at # "back" /\ call'.op # "start"
  BY <1>3, NoCallFields
<1>5. Dialogue'
  BY <1>1, <1>3, NoCallFields DEF Dialogue
<1>6. InOrder' /\ Unstarted'
  BY <1>1, <1>3, <1>4 DEF InOrder, Unstarted, Alone
<1>7. CASE call = NoCall
  <2>1. UNCHANGED <<inbox, sid, lost>> /\ call.at # "sent"
    BY <1>7, NoCallFields DEF Stop
  <2>2. Awaited'
    BY <1>4, <2>1, AwaitedRests
  <2>3. IdKnown'
    BY <1>1, <1>7, <2>1, NoCallFields DEF IdKnown, Known, Replaced
  <2> QED BY <1>5, <1>6, <2>2, <2>3
<1>8. CASE call # NoCall
  <2>1. /\ Forsake /\ lost' = lost \cup {"cancel"}
        /\ sid' = IF plat = "windows" /\ call.op # "stop" THEN NoSession ELSE sid
    BY <1>8 DEF Stop
  <2>2. Awaited'
    BY <1>2, <1>4, <2>1, AwaitedForsaken
  <2>3. /\ Len(inbox') = Len(inbox)
        /\ \A i \in 1 .. Len(inbox) : inbox'[i].op = inbox[i].op
    BY <1>2, <2>1, ForsakeDead
  <2>4. IdKnown'
    <3> SUFFICES ASSUME Known' PROVE IdKnown'
      BY DEF IdKnown
    <3>1. Known /\ plat = "windows"
      BY <1>1, <2>1 DEF Known
    <3>2. CASE call.op = "stop"
      <4>1. \A i \in 1 .. Len(inbox) : inbox[i].op = "start" => sid = NoSession
        BY <3>1, <3>2 DEF IdKnown, Awaited
      <4>2. state # "down" => sid \in {NoSession, sess}
        BY <3>1, <3>2 DEF IdKnown, Replaced
      <4> QED BY <1>1, <2>1, <2>3, <3>2, <4>1, <4>2 DEF IdKnown
    <3>3. CASE call.op # "stop"
      BY <2>1, <3>1, <3>3 DEF IdKnown
    <3> QED BY <3>2, <3>3
  <2> QED BY <1>5, <1>6, <2>2, <2>4
<1> QED BY <1>7, <1>8

LEMMA StopTimeoutOrder == ASSUME AllInv, OrderInv, StopTimeout PROVE OrderInv'
<1> USE DEF OrderInv
<1>1. /\ call.at \in {"dial", "sent"} /\ Forsake /\ drv = "stop"
      /\ call' = [call EXCEPT !.at = "back", !.try = 2, !.reply = "err"]
      /\ lost' = lost \cup {"timeout"}
      /\ UNCHANGED <<sess, state, plat, sid, drv, pending, faults>>
  BY DEF StopTimeout, helper, ctl
<1>2. call \in Calls /\ inbox \in Seq(Requests) /\ call.op = "stop"
  BY <1>1 DEF AllInv, TypeInv, HelperTypes, ClientTypes, Dialogue
<1>3. call'.op = "stop" /\ call'.at = "back" /\ call'.reply = "err"
  BY <1>1, <1>2 DEF Calls
<1>4. /\ Len(inbox') = Len(inbox)
      /\ \A i \in 1 .. Len(inbox) : inbox'[i].op = inbox[i].op
  BY <1>1, <1>2, ForsakeDead
<1>5. Dialogue'
  BY <1>1, <1>3, NoCallFields DEF Dialogue
<1>6. Awaited'
  BY <1>1, <1>2, <1>3, AwaitedForsaken
<1>7. InOrder' /\ Unstarted'
  BY <1>1, <1>3 DEF InOrder, Unstarted
<1>8. IdKnown'
  <2> SUFFICES ASSUME Known' PROVE IdKnown'
    BY DEF IdKnown
  <2>1. Known
    BY <1>1 DEF Known
  <2>2. \A i \in 1 .. Len(inbox) : inbox[i].op = "start" => sid = NoSession
    BY <1>2, <2>1 DEF IdKnown, Awaited
  <2>3. state # "down" => sid \in {NoSession, sess}
    BY <1>2, <2>1 DEF IdKnown, Replaced
  <2> QED BY <1>1, <1>4, <2>2, <2>3 DEF IdKnown
<1> QED BY <1>5, <1>6, <1>7, <1>8

LEMMA StoppedOrder == ASSUME AllInv, OrderInv, Stopped PROVE OrderInv'
<1> USE DEF OrderInv
<1>1. /\ drv \in {"stop", "drop"} /\ call.at = "back" /\ call.reply = "ok"
      /\ sid' = NoSession /\ drv' = "idle" /\ call' = NoCall
      /\ UNCHANGED <<sess, state, inbox, plat, pending, faults, lost>>
  BY DEF Stopped, CheckStopResult, Returned, Forget, helper
<1>2. call.op = "stop"
  BY <1>1 DEF Dialogue
<1>3. Dialogue'
  BY <1>1, NoCallFields DEF Dialogue
<1>4. Awaited'
  BY <1>1, AwaitedRests, NoCallFields
<1>5. InOrder' /\ IdKnown'
  BY <1>1, NoCallFields DEF InOrder, IdKnown
<1>6. Unstarted'
  BY <1>1, <1>2 DEF Unstarted, Alone, InOrder
<1> QED BY <1>3, <1>4, <1>5, <1>6

LEMMA StopFailedOrder == ASSUME AllInv, OrderInv, StopFailed PROVE OrderInv'
<1> USE DEF OrderInv
<1>1. /\ drv \in {"stop", "drop"} /\ call.at = "back"
      /\ drv' = "idle" /\ pending' = TRUE /\ call' = NoCall
      /\ UNCHANGED <<sess, state, inbox, plat, sid, faults, lost>>
  BY DEF StopFailed, Returned, helper, client
<1>2. call.op = "stop"
  BY <1>1 DEF Dialogue
<1>3. Dialogue'
  BY <1>1, NoCallFields DEF Dialogue
<1>4. Awaited'
  BY <1>1, AwaitedRests, NoCallFields
<1>5. InOrder' /\ Unstarted'
  BY <1>1, NoCallFields DEF InOrder, Unstarted
<1>6. IdKnown'
  BY <1>1, <1>2 DEF IdKnown, Known, Replaced
<1> QED BY <1>3, <1>4, <1>5, <1>6

LEMMA PollOrder == ASSUME AllInv, OrderInv, Poll PROVE OrderInv'
<1> USE DEF OrderInv
<1>1. /\ drv = "up" /\ call = NoCall /\ Begin("status")
      /\ UNCHANGED <<sess, state, inbox, plat, sid, drv, pending, faults, lost>>
  BY DEF Poll, helper, client, ctl
<1>2. call'.op = "status" /\ call'.at = "dial" /\ call.op = "none" /\ call.at # "sent"
  BY <1>1, BeginFields, NoCallFields DEF Ops
<1>3. Dialogue'
  BY <1>1, <1>2 DEF Dialogue
<1>4. Awaited'
  BY <1>1, <1>2, AwaitedRests
<1>5. InOrder' /\ Unstarted'
  BY <1>1, <1>2 DEF InOrder, Unstarted
<1>6. IdKnown'
  BY <1>1, <1>2 DEF IdKnown, Known, Replaced
<1> QED BY <1>3, <1>4, <1>5, <1>6

LEMMA PolledOrder == ASSUME AllInv, OrderInv, Polled PROVE OrderInv'
<1> USE DEF OrderInv
<1>1. /\ drv = "up" /\ call.op = "status" /\ call.at = "back" /\ sid' \in {sid, NoSession}
      /\ UNCHANGED <<sess, state, inbox, plat, faults, lost>>
  BY DEF Polled, Returned, helper, Invalidate
<1>2. \/ call' = NoCall /\ UNCHANGED <<drv, pending>>
      \/ call' = NoCall /\ drv' = "idle" /\ pending' = TRUE
      \/ call'.op = "stop" /\ call'.at = "dial" /\ drv' = "drop"
  BY BeginFields DEF Polled, Ops, ctl
<1>3. call'.at \in {"none", "dial"} /\ call'.op \in {"none", "stop"}
  BY <1>2, NoCallFields
<1>4. Dialogue'
  BY <1>1, <1>2, NoCallFields DEF Dialogue
<1>5. Awaited'
  BY <1>1, <1>3, AwaitedRests
<1>6. InOrder' /\ Unstarted'
  BY <1>1, <1>2, <1>3 DEF InOrder, Unstarted
<1>7. IdKnown'
  BY <1>1, <1>3 DEF IdKnown, Known, Replaced
<1> QED BY <1>4, <1>5, <1>6, <1>7

LEMMA BridgeExitsOrder == ASSUME AllInv, OrderInv, BridgeExits PROVE OrderInv'
<1> USE DEF OrderInv
<1>1. /\ "exit" \in faults /\ Forsake /\ sid' = NoSession /\ call' = NoCall /\ drv' = "boot"
      /\ UNCHANGED <<sess, state, plat, faults, lost>>
  BY DEF BridgeExits, helper
<1>2. inbox \in Seq(Requests)
  BY DEF AllInv, TypeInv, HelperTypes
<1>3. Dialogue'
  BY <1>1, NoCallFields DEF Dialogue
<1>4. Awaited'
  BY <1>1, <1>2, NoCallFields, AwaitedForsaken
<1>5. InOrder' /\ Unstarted' /\ IdKnown'
  BY <1>1, NoCallFields DEF InOrder, Unstarted, IdKnown
<1> QED BY <1>3, <1>4, <1>5

LEMMA ReconcileOrder == ASSUME AllInv, OrderInv, Reconcile PROVE OrderInv'
<1> USE DEF OrderInv
<1>1. /\ drv = "boot" /\ call = NoCall
      /\ (Begin("status") /\ drv' = drv) \/ (drv' = "idle" /\ call' = NoCall)
      /\ UNCHANGED <<sess, state, inbox, plat, sid, pending, faults, lost>>
  BY DEF Reconcile, helper, client
<1>2. /\ "exit" \in faults
      /\ Begin("status") => call'.op = "status" /\ call'.at = "dial"
  BY <1>1, BeginFields DEF Ops, Dialogue
<1>3. call'.at \in {"none", "dial"} /\ call'.op \in {"none", "status"}
  BY <1>1, <1>2, NoCallFields
<1>4. Dialogue'
  BY <1>1, <1>2, NoCallFields DEF Dialogue
<1>5. Awaited'
  BY <1>1, <1>3, NoCallFields, AwaitedRests
<1>6. InOrder' /\ Unstarted'
  BY <1>1, <1>2, <1>3 DEF InOrder, Unstarted, Alone
<1>7. IdKnown'
  BY <1>1, <1>3, NoCallFields DEF IdKnown, Known, Replaced
<1> QED BY <1>4, <1>5, <1>6, <1>7

LEMMA ReconciledOrder == ASSUME AllInv, OrderInv, Reconciled PROVE OrderInv'
<1> USE DEF OrderInv
<1>1. /\ drv = "boot" /\ call.at = "back" /\ call' = NoCall /\ drv' \in {"up", "idle"}
      /\ sid' \in {sid, NoSession}
      /\ UNCHANGED <<sess, state, inbox, plat, faults, lost>>
  BY DEF Reconciled, Returned, helper, Invalidate
<1>2. "exit" \in faults /\ call.op \in {"none", "status"}
  BY <1>1, NoCallFields DEF Dialogue
<1>3. Dialogue'
  BY <1>1, <1>2, NoCallFields DEF Dialogue
<1>4. Awaited'
  BY <1>1, NoCallFields, AwaitedRests
<1>5. InOrder' /\ Unstarted'
  BY <1>1, <1>2, NoCallFields DEF InOrder, Unstarted, Alone
<1>6. IdKnown'
  BY <1>1, <1>2, NoCallFields DEF IdKnown, Known, Replaced
<1> QED BY <1>3, <1>4, <1>5, <1>6

LEMMA OrderInit == Init => OrderInv
<1> SUFFICES ASSUME Init PROVE OrderInv
  OBVIOUS
<1>1. /\ state = "down" /\ inbox = << >> /\ sid = NoSession /\ call = NoCall /\ drv = "idle"
  BY DEF Init, Helper!Init
<1>2. Dialogue /\ Awaited /\ InOrder
  BY <1>1, NoCallFields DEF Dialogue, Awaited, InOrder
<1>3. IdKnown /\ Unstarted
  BY <1>1 DEF IdKnown, Unstarted
<1> QED BY <1>2, <1>3 DEF OrderInv

LEMMA OrderStep == AllInv /\ OrderInv /\ [Next]_vars => OrderInv'
<1> SUFFICES ASSUME AllInv, OrderInv, [Next]_vars PROVE OrderInv'
  OBVIOUS
<1>1. CASE ClientStep
  BY <1>1, WriteOrder, CannotWriteOrder, ReadOrder, StartedOrder, StartFailedOrder,
     StoppedOrder, StopFailedOrder, PolledOrder, ReconcileOrder, ReconciledOrder
  DEF ClientStep
<1>2. CASE Lose \/ StopTimeout \/ Handle \/ CoreExits \/ HelperStops \/ HelperStarts
  BY <1>2, LoseOrder, StopTimeoutOrder, HandleOrder, CoreExitsOrder, HelperStopsOrder,
     HelperStartsOrder
<1>3. CASE (\E m \in Modes : Start(m)) \/ StartRejected \/ Stop \/ Poll \/ BridgeExits
  BY <1>3, StartOrder, StartRejectedOrder, StopOrder, PollOrder, BridgeExitsOrder
<1>4. CASE UNCHANGED vars
  <2>1. UNCHANGED <<sess, state, inbox, plat, sid, call, drv, pending, faults, lost>>
    BY <1>4 DEF vars, helper, client, ctl
  <2> QED BY <2>1 DEF OrderInv, Dialogue, Awaited, InOrder, IdKnown, Known, Replaced,
                      Unstarted, Alone
<1> QED BY <1>1, <1>2, <1>3, <1>4 DEF Next

\* The order of requests holds always.
THEOREM OrderHolds == Spec => [](AllInv /\ OrderInv)
  BY InvHolds, OrderInit, OrderStep, PTL DEF Spec

\* The id that StopChain would send is accepted by the helper, after any
\* sequence of starts, stops, drops and restarts, and on Windows whatever
\* became of the exchanges (helper_daemon_other.go:162).
THEOREM StopReachesHolds == Spec => []StopReaches
<1>1. AllInv /\ OrderInv => StopReaches
  <2> SUFFICES ASSUME OrderInv, call = NoCall, Without({"late"}), state # "down",
                      plat = "windows" \/ lost = {}
               PROVE  sid \in {NoSession, sess}
    BY DEF StopReaches, Quiet
  <2>1. Known /\ ~Replaced
    BY NoCallFields DEF Known, Replaced, Without
  <2> QED BY <2>1 DEF OrderInv, IdKnown
<1> QED BY <1>1, OrderHolds, PTL

\* A controller that is idle with nothing pending has left no chain in the
\* helper: Stop may then do nothing (ctrl.go:308).
THEOREM IdleHasNoSessionHolds == Spec => []IdleHasNoSession
<1>1. AllInv /\ OrderInv => IdleHasNoSession
  <2> SUFFICES ASSUME AllInv, OrderInv, drv = "idle", ~pending,
                      Without({"lost", "late", "exit"}),
                      plat = "linux" => Without({"dirty"}) /\ lost = {}
               PROVE  state = "down"
    BY DEF IdleHasNoSession
  <2>1. CASE plat = "linux"
    <3>1. Calm /\ "dirty" \notin faults
      BY <2>1 DEF Calm, Without
    <3>2. state # "up" /\ state # "dirty"
      BY <3>1 DEF AllInv, CalmInv, CalmState, OrderInv, Dialogue
    <3>3. state \in {"down", "up", "dirty"}
      BY DEF AllInv, TypeInv, HelperTypes
    <3> QED BY <3>2, <3>3
  <2>2. CASE plat # "linux"
    <3>1. plat = "windows"
      BY <2>2, RoutingAssumption
      DEF AllInv, TypeInv, ClientTypes, ControlTypes, HelperTypes
    <3>2. Alone
      BY <3>1 DEF Alone, Without
    <3> QED BY <3>2 DEF OrderInv, Unstarted
  <2> QED BY <2>1, <2>2
<1> QED BY <1>1, OrderHolds, PTL

\* A StopChain that succeeds has left no session in the helper, also when its
\* first exchange broke and was repeated (helper_daemon_other.go:158-179).
THEOREM StopSucceedsHolds == Spec => StopSucceeds
<1> DEFINE A == drv = "stop" /\ drv' = "idle" /\ ~pending' /\ active # "core"
                  /\ Without({"late"}) => state = "down"
<1>1. AllInv /\ OrderInv /\ [Next]_vars => [A]_vars
  <2> SUFFICES ASSUME AllInv, OrderInv, Next, drv = "stop", drv' = "idle", ~pending',
                      Without({"late"})
               PROVE  state = "down"
    BY DEF Without
  <2>1. Stopped
    BY DEF Next, ClientStep, Write, CannotWrite, Read, Started, StartFailed, StopFailed,
           Polled, Reconcile, Reconciled, Lose, StopTimeout, Handle, CoreExits, HelperStops,
           HelperStarts, Start, StartRejected, Stop, Poll, BridgeExits, ctl
  <2>2. call.at = "back" /\ call.reply = "ok" /\ call.op = "stop" /\ "late" \notin faults
    BY <2>1 DEF Stopped, CheckStopResult, Returned, OrderInv, Dialogue, Without
  <2> QED BY <2>2 DEF OrderInv, InOrder
<1> QED BY <1>1, OrderHolds, PTL DEF Spec, StopSucceeds
=============================================================================
