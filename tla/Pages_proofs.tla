---------------------------- MODULE Pages_proofs ----------------------------
(***************************************************************************)
(* Proofs about the pages of ConfigSession: that the two stores come to    *)
(* rest on what is on disk, that the toast tells the truth, and that an    *)
(* undo or a reordering writes what the user has seen.  They hold for any  *)
(* scenarios, inputs and number of messages under way.                     *)
(*                                                                         *)
(* What a page shows is true at the end because, while it is not, there is *)
(* a message on its way that will change it.  So the invariants count      *)
(* messages: Held ties the mutex of withSingleFlight and the mark of a     *)
(* read to the requests and answers under way, Counted the counter of      *)
(* settings.ts to the parts of its flushes.  Lagging and Repaired say what *)
(* a page that is behind waits for when the channel keeps its order,       *)
(* Waited the same when the user waits instead; Settling says it of the    *)
(* settings.  Told follows the last status event, Tracked ties the rules   *)
(* that the tunnel was built from to the baseline, the signature and the   *)
(* file.                                                                   *)
(***************************************************************************)
EXTENDS ConfigSession_proofs

\* What is on its way, requests and answers.
Messages == ToSet(reqs) \cup ToSet(answers)

\* A mutation that has gone through, and a read.
Wrote(a)   == a.to = "rules" /\ a.ok
Reading(q) == q.to = "list"

\* How many messages to a handler are on their way, and how many parts of flush n.
Total(r, a, to) == Cardinality(Under(r, to)) + Cardinality(Under(a, to))
Parts(ch, n)    == {i \in DOMAIN ch : ch[i].to = "update" /\ ch[i].flush = n}
Pieces(r, a, n) == Cardinality(Parts(r, n)) + Cardinality(Parts(a, n))

\* The mutex of withSingleFlight is held by a mutation on its way, and nobody waits for a
\* free one; a read is on its way exactly while it is marked.
Held ==
  /\ rs.lead => \E q \in Messages : q.to = "rules" /\ q.lead
  /\ waiters # <<>> => rs.lead
  /\ Total(reqs, answers, "list") = IF rs.reading = "no" THEN 0 ELSE 1

\* The same messages to the handlers of K are on their way.
Untouched(r, a, s, b, K) ==
  /\ \A q : q.to \in K => (q \in ToSet(s) <=> q \in ToSet(r)) /\ (q \in ToSet(b) <=> q \in ToSet(a))
  /\ \A to \in K : Total(s, b, to) = Total(r, a, to)
  /\ "update" \in K => \A n : Pieces(s, b, n) = Pieces(r, a, n)

\* The flushes that have parts open.
Open(s) == {n \in 1..Len(s) : s[n] > 0}

\* A flush has as many parts open as are on their way, and so many flushes have some.
Counted ==
  /\ st.open \in Seq(Nat) /\ st.flushed = Len(st.open)
  /\ DOMAIN st.pend \subseteq Keys /\ st.pend = [k \in DOMAIN st.pend |-> st.pend[k]]
  /\ \A q \in Messages : q.to = "update" => q.flush \in 0..st.flushed
  /\ \A n \in 1..st.flushed : st.open[n] = Pieces(reqs, answers, n)
  /\ st.inFlight = Cardinality(Open(st.open))

\* A page that does not show what is on disk will be told.
Lagging ==
  rs.boot /\ rs.view # Load(rulesFile) => \E q \in Messages : Reading(q) \/ (q \in ToSet(answers) /\ Wrote(q))

\* Every answer to a read shows v, or an answer behind it has the read repeated.
Repaired(s, v) ==
  \A i \in DOMAIN s : Reading(s[i]) => s[i].ok /\ (s[i].view = v \/ \E j \in DOMAIN s : i < j /\ Wrote(s[j]))

\* In order: a read that came too early is followed by the answer that has it repeated.
Ordered ==
  faults \cap {"list", "reorder"} = {} =>
    /\ Lagging
    /\ Repaired(answers, Load(rulesFile))

\* A user who waits: one mutation at a time, and before it is served nothing else.
Waited ==
  /\ Lagging
  /\ waiters = <<>>
  /\ Total(reqs, answers, "rules") <= 1
  /\ (\E q \in ToSet(reqs) : q.to = "rules") =>
       Total(reqs, answers, "list") = 0 /\ rulesEvents = 0 /\ rs.view = Load(rulesFile)
  /\ \A a \in ToSet(answers) : a.to = "list" => a.ok /\ a.view = Load(rulesFile)
  /\ \A q \in ToSet(reqs) : q.to = "rules" /\ q.op.k = "drag" => q.op.next \in Drags(Load(rulesFile))
  /\ ~rs.boot => /\ \A q \in Messages : q.to # "rules"
                 /\ rulesEvents = 0 /\ rs.base = <<>> /\ rs.sig = <<>>
                 /\ rs.reading = "no" \/ (rs.reading = "push" /\ rs.sub)
  /\ rs.boot => rs.sub /\ rs.sig # <<>>
  /\ rs.sig # <<>> /\ rs.sig # <<Load(rulesFile)>> =>
       rs.reading = "push" \/ \E a \in ToSet(answers) : Wrote(a)

\* So it is as long as the user waits and no read fails.
Single == faults \cap {"list", "hasty"} = {} => Waited

\* What the settings page shows of key k is not what is on disk.
Off(k) == Known(k, toView(cfgFile)[k]) /\ st.cur[k] # toView(cfgFile)[k]

\* All keys but the mode, which the dashboard writes.
Shown  == Keys \ {"defaultMode"}

\* Every answer to a get shows c, or a part of a flush is answered behind it.
Updated(s, c) ==
  \A i \in DOMAIN s : s[i].to = "get" =>
    /\ s[i].ok
    /\ (\A k \in Shown : s[i].view[k] = toView(c)[k]) \/ \E j \in DOMAIN s : i < j /\ s[j].to = "update" /\ s[j].flush > 0

\* A page that differs from the disk has something to wait for, unless answers overtake.
Settling ==
  /\ DOMAIN cfgFile = Keys
  /\ \A q \in ToSet(reqs) : q.to = "update" /\ q.flush = 0 => DOMAIN q.patch = {"defaultMode"}
  /\ faults \cap {"reorder", "get"} = {} =>
       /\ st.started => \A k \in Shown : Off(k) =>
            k \in DOMAIN st.pend \/ st.inFlight > 0 \/ \E q \in Messages : q.to = "get"
       /\ Updated(answers, cfgFile)

\* The value of a patch, and of the file, that the renderer has a name for.
Named(p) == "ipv6Mode" \in DOMAIN p => Known("ipv6Mode", p["ipv6Mode"])

\* It is what the toast compares.
Naming ==
  /\ Known("ipv6Mode", cfgFile["ipv6Mode"]) /\ Named(st.pend)
  /\ \A q \in ToSet(reqs) : q.to = "update" => Named(q.patch)

\* The last status that was published is the controller's, and so is the snapshot.
Tells(e) == e.status = "connected" /\ e.net = ctl.net

\* While status events are on their way the last of them tells the controller's state.
Told ==
  /\ IsSeq(statusEvents) /\ \A s \in ToSet(snap) : DOMAIN s = {"mode", "net", "sig"}
  /\ IF statusEvents = <<>>
     THEN /\ ctl.state = "connected" <=> snap # <<>>
          /\ snap # <<>> => snap[1].net = ctl.net
     ELSE IF ctl.state = "connected" THEN Tells(statusEvents[Len(statusEvents)])
          ELSE statusEvents[Len(statusEvents)].status # "connected"

\* Rules edits and connects do not overlap.
Connecting == ctl.state \in {"reading", "building"} \/ \E e \in ToSet(statusEvents) : e.status = "connected"

\* What the tunnel was built from can be told from the rules, the baseline and the snapshot.
Tracked ==
  /\ Connecting =>
       /\ \A q \in Messages : q.to # "rules"
       /\ rulesEvents = 0 /\ (rs.sig = <<>> \/ rs.sig = <<Load(rulesFile)>>)
  /\ (\E q \in Messages : q.to = "rules") => rs.base # <<>>
  /\ ctl.state = "connected" =>
       /\ rs.base = <<>> \/ statusEvents # <<>> => Load(rulesFile) = ctl.rules
       /\ rs.base # <<>> /\ statusEvents = <<>> => rs.base[1] = ctl.rules
       /\ statusEvents = <<>> /\ snap # <<>> =>
            snap[1].sig = <<ctl.rules>> \/ (snap[1].sig = <<>> /\ rs.sig = <<>>)
  /\ \A q \in Messages : q.to = "rules" /\ q.op.k = "revert" => q.op.next = ctl.rules
  /\ \A a \in ToSet(answers) : Wrote(a) /\ a.op.k = "revert" => Load(rulesFile) = ctl.rules

\* So it is unless edits and connects overlap.
Tracking == faults \cap {"list", "hasty", "rush"} = {} => Tracked

---------------------------------------------------------------------------
(* Counting the messages of a kind                                         *)

\* The places of s when the one at i is gone, and those of two sequences in a row.
LEMMA RemovePlaces ==
  ASSUME NEW s, IsSeq(s), NEW i \in 1..Len(s)
  PROVE  /\ IsSeq(RemoveAt(s, i)) /\ Len(s) \in Nat /\ Len(RemoveAt(s, i)) = Len(s) - 1
         /\ \A j \in 1..(Len(s) - 1) : RemoveAt(s, i)[j] = IF j < i THEN s[j] ELSE s[j + 1]
  <1>1. PICK S : s \in Seq(S)
    BY DEF IsSeq
  <1> DEFINE n == Len(s)
             a == SubSeq(s, 1, i - 1)
             b == SubSeq(s, i + 1, n)
  <1>2. n \in Nat /\ i \in Nat /\ 1 <= i /\ i <= n /\ DOMAIN s = 1..n
    BY <1>1
  <1>5. RemoveAt(s, i) = a \o b
    BY DEF RemoveAt
  <1>0. a = SubSeq(s, 1, i - 1) /\ b = SubSeq(s, i + 1, n)
    OBVIOUS
  <1>6. n = Len(s)
    OBVIOUS
  <1> HIDE DEF n, a, b
  <1>3. a \in Seq(S) /\ Len(a) = i - 1 /\ \A j \in 1..(i - 1) : a[j] = s[j]
    BY <1>0, <1>1, <1>2
  <1>4. b \in Seq(S) /\ Len(b) = n - i /\ \A j \in 1..(n - i) : b[j] = s[i + j]
    <2>1. \A k \in (i + 1)..n : s[k] \in S
      BY <1>1, <1>2
    <2>2. i + 1 \in Int /\ n \in Int
      BY <1>2
    <2>3. /\ SubSeq(s, i + 1, n) \in Seq(S)
          /\ Len(SubSeq(s, i + 1, n)) = IF i + 1 <= n THEN n - (i + 1) + 1 ELSE 0
          /\ \A j \in 1..(n - (i + 1) + 1) : SubSeq(s, i + 1, n)[j] = s[i + 1 + j - 1]
      BY <2>1, <2>2, SubSeqProperties
    <2>4. n - (i + 1) + 1 = n - i /\ (IF i + 1 <= n THEN n - (i + 1) + 1 ELSE 0) = n - i
      BY <1>2
    <2>5. \A j \in 1..(n - i) : i + 1 + j - 1 = i + j
      BY <1>2
    <2> QED BY <1>0, <2>3, <2>4, <2>5
  <1>7. a \o b \in Seq(S) /\ Len(a \o b) = Len(a) + Len(b)
        /\ \A j \in 1..(Len(a) + Len(b)) : (a \o b)[j] = IF j <= Len(a) THEN a[j] ELSE b[j - Len(a)]
    BY <1>3, <1>4
  <1>8. Len(a) + Len(b) = n - 1
    BY <1>2, <1>3, <1>4
  <1>9. \A j \in 1..(n - 1) : (a \o b)[j] = IF j < i THEN s[j] ELSE s[j + 1]
    <2> SUFFICES ASSUME NEW j \in 1..(n - 1) PROVE (a \o b)[j] = IF j < i THEN s[j] ELSE s[j + 1]
      OBVIOUS
    <2>1. CASE j < i
      <3>1. j \in 1..(i - 1) /\ j <= i - 1
        BY <1>2, <2>1
      <3> QED BY <1>3, <1>7, <1>8, <2>1, <3>1
    <2>2. CASE ~(j < i)
      <3>1. j - (i - 1) \in 1..(n - i) /\ i + (j - (i - 1)) = j + 1 /\ ~(j <= i - 1)
        BY <1>2, <2>2
      <3> QED BY <1>3, <1>4, <1>7, <1>8, <2>2, <3>1
    <2> QED BY <2>1, <2>2
  <1> QED BY <1>2, <1>5, <1>6, <1>7, <1>8, <1>9 DEF IsSeq

\* The places of two sequences in a row.
LEMMA JoinPlaces ==
  ASSUME NEW s, NEW t, IsSeq(s), IsSeq(t)
  PROVE  /\ IsSeq(s \o t) /\ Len(s) \in Nat /\ Len(t) \in Nat /\ Len(s \o t) = Len(s) + Len(t)
         /\ \A j \in 1..(Len(s) + Len(t)) : (s \o t)[j] = IF j <= Len(s) THEN s[j] ELSE t[j - Len(s)]
  <1>1. PICK S, T : s \in Seq(S) /\ t \in Seq(T)
    BY DEF IsSeq
  <1>2. s \in Seq(S \cup T) /\ t \in Seq(S \cup T)
    BY <1>1
  <1> QED BY <1>2 DEF IsSeq

\* Counting the places of some kind: P before, Q after.
Shifted(n, i, P, Q) ==
  /\ P \subseteq 1..n /\ Q \subseteq 1..(n - 1)
  /\ \A j \in 1..(n - 1) : j \in Q <=> (IF j < i THEN j ELSE j + 1) \in P

\* And of two sequences in a row: P in the first, Q in the second.
Joined(n, m, P, Q, R) ==
  /\ P \subseteq 1..n /\ Q \subseteq 1..m /\ R \subseteq 1..(n + m)
  /\ \A j \in 1..(n + m) : j \in R <=> IF j <= n THEN j \in P ELSE (j - n) \in Q

\* One less, if the place that is gone was of that kind.
LEMMA ShiftCount ==
  ASSUME NEW n \in Nat, NEW i \in 1..n, NEW P, NEW Q, Shifted(n, i, P, Q)
  PROVE  /\ Cardinality(P) \in Nat /\ Cardinality(Q) \in Nat
         /\ i \in P => Cardinality(P) = Cardinality(Q) + 1
         /\ i \notin P => Cardinality(P) = Cardinality(Q)
  <1>0. /\ P \subseteq 1..n /\ Q \subseteq 1..(n - 1)
        /\ \A j \in 1..(n - 1) : j \in Q <=> (IF j < i THEN j ELSE j + 1) \in P
    BY DEF Shifted
  <1> USE <1>0
  <1>1. IsFiniteSet(P) /\ IsFiniteSet(Q)
    <2>1. IsFiniteSet(1..n) /\ IsFiniteSet(1..(n - 1))
      BY FS_Interval
    <2> QED BY <2>1, FS_Subset
  <1> DEFINE f == [j \in Q |-> IF j < i THEN j ELSE j + 1]
             R == P \ {i}
  <1>2. \A j \in Q : f[j] \in R
    <2> SUFFICES ASSUME NEW j \in Q PROVE f[j] \in R
      OBVIOUS
    <2>1. j \in 1..(n - 1)
      OBVIOUS
    <2>2. f[j] = (IF j < i THEN j ELSE j + 1) /\ f[j] # i
      BY <2>1
    <2> QED BY <2>1, <2>2
  <1>3. \A j, k \in Q : f[j] = f[k] => j = k
    <2> SUFFICES ASSUME NEW j \in Q, NEW k \in Q, f[j] = f[k] PROVE j = k
      OBVIOUS
    <2>1. j \in 1..(n - 1) /\ k \in 1..(n - 1)
      OBVIOUS
    <2>2. (IF j < i THEN j ELSE j + 1) = (IF k < i THEN k ELSE k + 1)
      OBVIOUS
    <2> HIDE DEF f
    <2> QED BY <2>1, <2>2
  <1>4. \A p \in R : \E j \in Q : f[j] = p
    <2> SUFFICES ASSUME NEW p \in R PROVE \E j \in Q : f[j] = p
      OBVIOUS
    <2>1. p \in 1..n /\ p # i
      OBVIOUS
    <2>2. CASE p < i
      <3>1. p \in 1..(n - 1)
        BY <2>1, <2>2
      <3> QED BY <2>2, <3>1
    <2>3. CASE ~(p < i)
      <3>1. p - 1 \in 1..(n - 1) /\ ~(p - 1 < i) /\ (p - 1) + 1 = p
        BY <2>1, <2>3
      <3> QED BY <3>1
    <2> QED BY <2>2, <2>3
  <1>5. f \in Bijection(Q, R)
    <2>1. f \in [Q -> R]
      BY <1>2
    <2> HIDE DEF f, R
    <2> QED BY <2>1, <1>3, <1>4, Zenon DEF Bijection, Injection, Surjection, IsInjective
  <1> HIDE DEF f
  <1>6. Cardinality(R) = Cardinality(Q)
    BY <1>1, <1>5, FS_Bijection DEF ExistsBijection
  <1>7. Cardinality(P) \in Nat /\ Cardinality(Q) \in Nat
    BY <1>1, FS_CardinalityType
  <1>8. Cardinality(R) = IF i \in P THEN Cardinality(P) - 1 ELSE Cardinality(P)
    BY <1>1, FS_RemoveElement
  <1> HIDE DEF R
  <1> QED BY <1>6, <1>7, <1>8

\* As many as in the two together.
LEMMA JoinCount ==
  ASSUME NEW n \in Nat, NEW m \in Nat, NEW P, NEW Q, NEW R, Joined(n, m, P, Q, R)
  PROVE  /\ Cardinality(P) \in Nat /\ Cardinality(Q) \in Nat
         /\ Cardinality(R) = Cardinality(P) + Cardinality(Q)
  <1>0. /\ P \subseteq 1..n /\ Q \subseteq 1..m /\ R \subseteq 1..(n + m)
        /\ \A j \in 1..(n + m) : j \in R <=> IF j <= n THEN j \in P ELSE (j - n) \in Q
    BY DEF Joined
  <1> USE <1>0
  <1>1. IsFiniteSet(P) /\ IsFiniteSet(Q) /\ IsFiniteSet(R)
    <2>1. IsFiniteSet(1..n) /\ IsFiniteSet(1..m) /\ IsFiniteSet(1..(n + m))
      BY FS_Interval
    <2> QED BY <2>1, FS_Subset
  <1> DEFINE T == R \ P
             f == [j \in T |-> j - n]
  <1>2. \A j \in T : j \in 1..(n + m) /\ ~(j <= n) /\ j - n \in Q
    <2> TAKE j \in T
    <2>1. j \in 1..(n + m) /\ j \in R /\ j \notin P
      OBVIOUS
    <2>2. ~(j <= n)
      BY <2>1
    <2> QED BY <2>1, <2>2
  <1>3. P \subseteq R
    <2> SUFFICES ASSUME NEW j \in P PROVE j \in R
      OBVIOUS
    <2>1. j \in 1..n
      OBVIOUS
    <2>2. j \in 1..(n + m) /\ j <= n
      BY <2>1
    <2> QED BY <2>2
  <1>4. f \in Bijection(T, Q)
    <2>1. f \in [T -> Q]
      BY <1>2
    <2>2. \A j, k \in T : f[j] = f[k] => j = k
      <3> SUFFICES ASSUME NEW j \in T, NEW k \in T, f[j] = f[k] PROVE j = k
        OBVIOUS
      <3>1. j \in 1..(n + m) /\ k \in 1..(n + m) /\ j - n = k - n
        BY <1>2
      <3> QED BY <3>1
    <2>3. \A q \in Q : \E j \in T : f[j] = q
      <3> SUFFICES ASSUME NEW q \in Q PROVE \E j \in T : f[j] = q
        OBVIOUS
      <3>1. q \in 1..m
        OBVIOUS
      <3>2. n + q \in 1..(n + m) /\ ~(n + q <= n) /\ (n + q) - n = q
        BY <3>1
      <3>3. n + q \in R
        BY <3>2
      <3>4. n + q \notin P
        BY <3>2
      <3> QED BY <3>2, <3>3, <3>4
    <2> HIDE DEF f, T
    <2> QED BY <2>1, <2>2, <2>3, Zenon DEF Bijection, Injection, Surjection, IsInjective
  <1>5. Cardinality(T) = Cardinality(Q)
    <2>1. IsFiniteSet(T)
      BY <1>1, FS_Subset
    <2> HIDE DEF f, T
    <2> QED BY <1>4, <2>1, FS_Bijection DEF ExistsBijection
  <1>6. R = P \cup T /\ P \cap T = {}
    BY <1>3
  <1>7. IsFiniteSet(T)
    BY <1>1, FS_Subset
  <1> HIDE DEF f, T
  <1>8. Cardinality(P) \in Nat /\ Cardinality(Q) \in Nat /\ Cardinality({}) = 0
    BY <1>1, FS_CardinalityType, FS_EmptySet
  <1>9. Cardinality(R) = Cardinality(P) + Cardinality(T) - Cardinality(P \cap T)
    BY <1>1, <1>6, <1>7, FS_Union
  <1>10. Cardinality(P \cap T) = 0
    BY <1>6, <1>8
  <1>11. \A p, q, r, z \in Int : r = p + q - z /\ z = 0 => r = p + q
    OBVIOUS
  <1> QED BY <1>5, <1>8, <1>9, <1>10

\* A message is taken off a channel, or some are added.
LEMMA TakeOne ==
  ASSUME NEW s, IsSeq(s), NEW i \in DOMAIN s
  PROVE  /\ \A to : /\ Cardinality(Under(s, to)) \in Nat /\ Cardinality(Under(RemoveAt(s, i), to)) \in Nat
                    /\ s[i].to = to => Cardinality(Under(s, to)) = Cardinality(Under(RemoveAt(s, i), to)) + 1
                    /\ s[i].to # to => Cardinality(Under(s, to)) = Cardinality(Under(RemoveAt(s, i), to))
         /\ \A n : /\ Cardinality(Parts(s, n)) \in Nat /\ Cardinality(Parts(RemoveAt(s, i), n)) \in Nat
                   /\ s[i].to = "update" /\ s[i].flush = n
                        => Cardinality(Parts(s, n)) = Cardinality(Parts(RemoveAt(s, i), n)) + 1
                   /\ ~(s[i].to = "update" /\ s[i].flush = n)
                        => Cardinality(Parts(s, n)) = Cardinality(Parts(RemoveAt(s, i), n))
  <1>1. Len(s) \in Nat /\ DOMAIN s = 1..Len(s) /\ i \in 1..Len(s)
    BY SeqFacts
  <1>2. PICK r : r = RemoveAt(s, i)
    OBVIOUS
  <1>3. PICK m \in Nat : m = Len(s)
    BY <1>1
  <1>4. IsSeq(r) /\ Len(r) = m - 1 /\ \A j \in 1..(m - 1) : r[j] = IF j < i THEN s[j] ELSE s[j + 1]
    BY <1>1, <1>2, <1>3, RemovePlaces
  <1>5. DOMAIN r = 1..(m - 1)
    BY <1>4, SeqFacts
  <1>6. \A j \in 1..(m - 1) : (IF j < i THEN j ELSE j + 1) \in 1..m
    BY <1>1, <1>3
  <1>7. \A j \in 1..(m - 1) : r[j] = s[IF j < i THEN j ELSE j + 1]
    BY <1>4
  <1>8. ASSUME NEW to
        PROVE  /\ Cardinality(Under(s, to)) \in Nat /\ Cardinality(Under(r, to)) \in Nat
               /\ s[i].to = to => Cardinality(Under(s, to)) = Cardinality(Under(r, to)) + 1
               /\ s[i].to # to => Cardinality(Under(s, to)) = Cardinality(Under(r, to))
    <2>0. PICK P, Q : P = Under(s, to) /\ Q = Under(r, to)
      OBVIOUS
    <2>1. P \subseteq 1..m /\ Q \subseteq 1..(m - 1)
      BY <2>0, <1>1, <1>3, <1>5 DEF Under
    <2>2. \A j \in 1..(m - 1) : j \in Q <=> (IF j < i THEN j ELSE j + 1) \in P
      BY <2>0, <1>1, <1>3, <1>5, <1>6, <1>7 DEF Under
    <2>3. i \in P <=> s[i].to = to
      BY <2>0 DEF Under
    <2>4. i \in 1..m
      BY <1>1, <1>3
    <2>6. Shifted(m, i, P, Q)
      BY <2>1, <2>2 DEF Shifted
    <2>5. /\ Cardinality(P) \in Nat /\ Cardinality(Q) \in Nat
          /\ i \in P => Cardinality(P) = Cardinality(Q) + 1
          /\ i \notin P => Cardinality(P) = Cardinality(Q)
      BY <2>4, <2>6, ShiftCount
    <2> QED BY <2>0, <2>3, <2>5
  <1>9. ASSUME NEW n
        PROVE  /\ Cardinality(Parts(s, n)) \in Nat /\ Cardinality(Parts(r, n)) \in Nat
               /\ s[i].to = "update" /\ s[i].flush = n => Cardinality(Parts(s, n)) = Cardinality(Parts(r, n)) + 1
               /\ ~(s[i].to = "update" /\ s[i].flush = n) => Cardinality(Parts(s, n)) = Cardinality(Parts(r, n))
    <2>0. PICK P, Q : P = Parts(s, n) /\ Q = Parts(r, n)
      OBVIOUS
    <2>1. P \subseteq 1..m /\ Q \subseteq 1..(m - 1)
      BY <2>0, <1>1, <1>3, <1>5 DEF Parts
    <2>2. \A j \in 1..(m - 1) : j \in Q <=> (IF j < i THEN j ELSE j + 1) \in P
      BY <2>0, <1>1, <1>3, <1>5, <1>6, <1>7 DEF Parts
    <2>3. i \in P <=> (s[i].to = "update" /\ s[i].flush = n)
      BY <2>0 DEF Parts
    <2>4. i \in 1..m
      BY <1>1, <1>3
    <2>6. Shifted(m, i, P, Q)
      BY <2>1, <2>2 DEF Shifted
    <2>5. /\ Cardinality(P) \in Nat /\ Cardinality(Q) \in Nat
          /\ i \in P => Cardinality(P) = Cardinality(Q) + 1
          /\ i \notin P => Cardinality(P) = Cardinality(Q)
      BY <2>4, <2>6, ShiftCount
    <2> QED BY <2>0, <2>3, <2>5
  <1> QED BY <1>2, <1>8, <1>9

\* Messages that are put behind others add up.
LEMMA AddMore ==
  ASSUME NEW s, NEW t, IsSeq(s), IsSeq(t)
  PROVE  /\ \A to : /\ Cardinality(Under(s, to)) \in Nat /\ Cardinality(Under(t, to)) \in Nat
                    /\ Cardinality(Under(s \o t, to)) = Cardinality(Under(s, to)) + Cardinality(Under(t, to))
         /\ \A n : /\ Cardinality(Parts(s, n)) \in Nat /\ Cardinality(Parts(t, n)) \in Nat
                   /\ Cardinality(Parts(s \o t, n)) = Cardinality(Parts(s, n)) + Cardinality(Parts(t, n))
  <1>1. PICK r : r = s \o t
    OBVIOUS
  <1>2. PICK m \in Nat, k \in Nat : m = Len(s) /\ k = Len(t)
    BY SeqFacts
  <1>3. DOMAIN s = 1..m /\ DOMAIN t = 1..k
    BY <1>2, SeqFacts
  <1>4. IsSeq(r) /\ Len(r) = m + k /\ \A j \in 1..(m + k) : r[j] = IF j <= m THEN s[j] ELSE t[j - m]
    BY <1>1, <1>2, JoinPlaces
  <1>5. DOMAIN r = 1..(m + k)
    BY <1>4, SeqFacts
  <1>6. \A j \in 1..(m + k) : (j <= m => j \in 1..m) /\ (~(j <= m) => j - m \in 1..k)
    OBVIOUS
  <1>7. ASSUME NEW to
        PROVE  /\ Cardinality(Under(s, to)) \in Nat /\ Cardinality(Under(t, to)) \in Nat
               /\ Cardinality(Under(r, to)) = Cardinality(Under(s, to)) + Cardinality(Under(t, to))
    <2>0. PICK P, Q, R : P = Under(s, to) /\ Q = Under(t, to) /\ R = Under(r, to)
      OBVIOUS
    <2>1. P \subseteq 1..m /\ Q \subseteq 1..k /\ R \subseteq 1..(m + k)
      BY <2>0, <1>3, <1>5 DEF Under
    <2>2. \A j \in 1..(m + k) : j \in R <=> IF j <= m THEN j \in P ELSE (j - m) \in Q
      BY <2>0, <1>3, <1>4, <1>5, <1>6 DEF Under
    <2>4. Joined(m, k, P, Q, R)
      BY <2>1, <2>2 DEF Joined
    <2>3. /\ Cardinality(P) \in Nat /\ Cardinality(Q) \in Nat
          /\ Cardinality(R) = Cardinality(P) + Cardinality(Q)
      BY <2>4, JoinCount
    <2> QED BY <2>0, <2>3
  <1>8. ASSUME NEW n
        PROVE  /\ Cardinality(Parts(s, n)) \in Nat /\ Cardinality(Parts(t, n)) \in Nat
               /\ Cardinality(Parts(r, n)) = Cardinality(Parts(s, n)) + Cardinality(Parts(t, n))
    <2>0. PICK P, Q, R : P = Parts(s, n) /\ Q = Parts(t, n) /\ R = Parts(r, n)
      OBVIOUS
    <2>1. P \subseteq 1..m /\ Q \subseteq 1..k /\ R \subseteq 1..(m + k)
      BY <2>0, <1>3, <1>5 DEF Parts
    <2>2. \A j \in 1..(m + k) : j \in R <=> IF j <= m THEN j \in P ELSE (j - m) \in Q
      BY <2>0, <1>3, <1>4, <1>5, <1>6 DEF Parts
    <2>4. Joined(m, k, P, Q, R)
      BY <2>1, <2>2 DEF Joined
    <2>3. /\ Cardinality(P) \in Nat /\ Cardinality(Q) \in Nat
          /\ Cardinality(R) = Cardinality(P) + Cardinality(Q)
      BY <2>4, JoinCount
    <2> QED BY <2>0, <2>3
  <1> QED BY <1>1, <1>7, <1>8

\* None, and one.
LEMMA NoneOf ==
  ASSUME NEW s, IsSeq(s)
  PROVE  /\ \A to : Cardinality(Under(s, to)) \in Nat
                    /\ (Cardinality(Under(s, to)) = 0 <=> \A x \in ToSet(s) : x.to # to)
                    /\ (Cardinality(Under(s, to)) = 0 <=> Under(s, to) = {})
         /\ \A n : Cardinality(Parts(s, n)) \in Nat
                   /\ (Cardinality(Parts(s, n)) = 0 <=> \A x \in ToSet(s) : ~(x.to = "update" /\ x.flush = n))
  <1>1. DOMAIN s = 1..Len(s) /\ Len(s) \in Nat
    BY SeqFacts
  <1>2. \A S : S \subseteq DOMAIN s => Cardinality(S) \in Nat /\ (Cardinality(S) = 0 <=> S = {})
    <2> SUFFICES ASSUME NEW S, S \subseteq DOMAIN s PROVE Cardinality(S) \in Nat /\ (Cardinality(S) = 0 <=> S = {})
      OBVIOUS
    <2>1. IsFiniteSet(S)
      <3>1. IsFiniteSet(1..Len(s))
        BY <1>1, FS_Interval
      <3> QED BY <1>1, <3>1, FS_Subset
    <2> QED BY <2>1, FS_CardinalityType, FS_EmptySet
  <1>3. \A to : Under(s, to) \subseteq DOMAIN s /\ (Under(s, to) = {} <=> \A x \in ToSet(s) : x.to # to)
    BY DEF Under, ToSet
  <1>4. \A n : Parts(s, n) \subseteq DOMAIN s
               /\ (Parts(s, n) = {} <=> \A x \in ToSet(s) : ~(x.to = "update" /\ x.flush = n))
    BY DEF Parts, ToSet
  <1> QED BY <1>2, <1>3, <1>4

\* One message counts for its own handler, and for its own flush.
LEMMA OneOf ==
  ASSUME NEW x
  PROVE  /\ \A to : (x.to = to => Cardinality(Under(<<x>>, to)) = 1) /\ (x.to # to => Cardinality(Under(<<x>>, to)) = 0)
         /\ \A n : /\ x.to = "update" /\ x.flush = n => Cardinality(Parts(<<x>>, n)) = 1
                   /\ ~(x.to = "update" /\ x.flush = n) => Cardinality(Parts(<<x>>, n)) = 0
  <1>1. DOMAIN <<x>> = {1} /\ <<x>>[1] = x
    OBVIOUS
  <1>2. Cardinality({}) = 0 /\ Cardinality({1}) = 1
    <2>1. {1} = {} \cup {1} /\ 1 \notin {}
      OBVIOUS
    <2> QED BY <2>1, FS_EmptySet, FS_AddElement
  <1>3. \A to : (x.to = to => Under(<<x>>, to) = {1}) /\ (x.to # to => Under(<<x>>, to) = {})
    BY <1>1 DEF Under
  <1>4. \A n : /\ x.to = "update" /\ x.flush = n => Parts(<<x>>, n) = {1}
               /\ ~(x.to = "update" /\ x.flush = n) => Parts(<<x>>, n) = {}
    BY <1>1 DEF Parts
  <1> QED BY <1>2, <1>3, <1>4, Zenon

\* Append is a sequence of one more.
LEMMA AppendIs == ASSUME NEW s, IsSeq(s), NEW e PROVE Append(s, e) = s \o <<e>> /\ IsSeq(<<e>>)
  <1>1. PICK S : s \in Seq(S)
    BY DEF IsSeq
  <1>2. s \in Seq(S \cup {e}) /\ e \in S \cup {e}
    BY <1>1
  <1>3. PICK T : T = S \cup {e}
    OBVIOUS
  <1>4. Append(s, e) = s \o <<e>>
    BY <1>2, <1>3
  <1> QED BY <1>4, SingleSeq

\* A request is served, an answer is taken, requests are sent: what that does to the totals.
LEMMA ServedTotals ==
  ASSUME NEW r, NEW a, IsSeq(r), IsSeq(a), NEW i \in DOMAIN r, NEW x, x.to = r[i].to,
         x.to = "update" => x.flush = r[i].flush
  PROVE  /\ \A to : Total(RemoveAt(r, i), Append(a, x), to) = Total(r, a, to)
         /\ \A n : Pieces(RemoveAt(r, i), Append(a, x), n) = Pieces(r, a, n)
  <1>1. Append(a, x) = a \o <<x>> /\ IsSeq(<<x>>)
    BY AppendIs
  <1>2. ASSUME NEW to PROVE Total(RemoveAt(r, i), Append(a, x), to) = Total(r, a, to)
    <2>1. PICK p, q, u, v, w :
             /\ p = Cardinality(Under(r, to)) /\ q = Cardinality(Under(RemoveAt(r, i), to))
             /\ u = Cardinality(Under(a, to)) /\ v = Cardinality(Under(<<x>>, to))
             /\ w = Cardinality(Under(a \o <<x>>, to))
      OBVIOUS
    <2>2. p \in Nat /\ q \in Nat /\ (r[i].to = to => p = q + 1) /\ (r[i].to # to => p = q)
      BY <2>1, TakeOne
    <2>3. u \in Nat /\ v \in Nat /\ w = u + v
      BY <1>1, <2>1, AddMore
    <2>4. (x.to = to => v = 1) /\ (x.to # to => v = 0)
      BY <2>1, OneOf
    <2>5. q + w = p + u
      BY <2>2, <2>3, <2>4
    <2> QED BY <1>1, <2>1, <2>5 DEF Total
  <1>3. ASSUME NEW n PROVE Pieces(RemoveAt(r, i), Append(a, x), n) = Pieces(r, a, n)
    <2>1. PICK p, q, u, v, w :
             /\ p = Cardinality(Parts(r, n)) /\ q = Cardinality(Parts(RemoveAt(r, i), n))
             /\ u = Cardinality(Parts(a, n)) /\ v = Cardinality(Parts(<<x>>, n))
             /\ w = Cardinality(Parts(a \o <<x>>, n))
      OBVIOUS
    <2>2. p \in Nat /\ q \in Nat /\ (r[i].to = "update" /\ r[i].flush = n => p = q + 1)
          /\ (~(r[i].to = "update" /\ r[i].flush = n) => p = q)
      BY <2>1, TakeOne
    <2>3. u \in Nat /\ v \in Nat /\ w = u + v
      BY <1>1, <2>1, AddMore
    <2>4. (x.to = "update" /\ x.flush = n => v = 1) /\ (~(x.to = "update" /\ x.flush = n) => v = 0)
      BY <2>1, OneOf
    <2>5. q + w = p + u
      BY <2>2, <2>3, <2>4
    <2> QED BY <1>1, <2>1, <2>5 DEF Pieces
  <1> QED BY <1>2, <1>3

\* An answer that is taken is one message less.
LEMMA TakenTotals ==
  ASSUME NEW r, NEW a, IsSeq(r), IsSeq(a), NEW i \in DOMAIN a
  PROVE  /\ \A to : /\ Total(r, RemoveAt(a, i), to) \in Nat
                    /\ a[i].to = to => Total(r, a, to) = Total(r, RemoveAt(a, i), to) + 1
                    /\ a[i].to # to => Total(r, a, to) = Total(r, RemoveAt(a, i), to)
         /\ \A n : /\ Pieces(r, RemoveAt(a, i), n) \in Nat
                   /\ a[i].to = "update" /\ a[i].flush = n => Pieces(r, a, n) = Pieces(r, RemoveAt(a, i), n) + 1
                   /\ ~(a[i].to = "update" /\ a[i].flush = n) => Pieces(r, a, n) = Pieces(r, RemoveAt(a, i), n)
  <1>1. ASSUME NEW to
        PROVE  /\ Total(r, RemoveAt(a, i), to) \in Nat
               /\ a[i].to = to => Total(r, a, to) = Total(r, RemoveAt(a, i), to) + 1
               /\ a[i].to # to => Total(r, a, to) = Total(r, RemoveAt(a, i), to)
    <2>1. PICK p, q, u :
             /\ p = Cardinality(Under(a, to)) /\ q = Cardinality(Under(RemoveAt(a, i), to))
             /\ u = Cardinality(Under(r, to))
      OBVIOUS
    <2>2. p \in Nat /\ q \in Nat /\ (a[i].to = to => p = q + 1) /\ (a[i].to # to => p = q)
      BY <2>1, TakeOne
    <2>3. u \in Nat
      BY <2>1, NoneOf
    <2>4. u + q \in Nat /\ (a[i].to = to => u + p = (u + q) + 1) /\ (a[i].to # to => u + p = u + q)
      BY <2>2, <2>3
    <2> QED BY <2>1, <2>4 DEF Total
  <1>2. ASSUME NEW n
        PROVE  /\ Pieces(r, RemoveAt(a, i), n) \in Nat
               /\ a[i].to = "update" /\ a[i].flush = n => Pieces(r, a, n) = Pieces(r, RemoveAt(a, i), n) + 1
               /\ ~(a[i].to = "update" /\ a[i].flush = n) => Pieces(r, a, n) = Pieces(r, RemoveAt(a, i), n)
    <2>1. PICK p, q, u :
             /\ p = Cardinality(Parts(a, n)) /\ q = Cardinality(Parts(RemoveAt(a, i), n))
             /\ u = Cardinality(Parts(r, n))
      OBVIOUS
    <2>2. p \in Nat /\ q \in Nat /\ (a[i].to = "update" /\ a[i].flush = n => p = q + 1)
          /\ (~(a[i].to = "update" /\ a[i].flush = n) => p = q)
      BY <2>1, TakeOne
    <2>3. u \in Nat
      BY <2>1, NoneOf
    <2>4. u + q \in Nat /\ (p = q + 1 => u + p = (u + q) + 1)
      BY <2>2, <2>3
    <2> QED BY <2>1, <2>2, <2>4 DEF Pieces
  <1> QED BY <1>1, <1>2

\* Requests that are sent are as many messages more.
LEMMA SentTotals ==
  ASSUME NEW r, NEW a, NEW t, IsSeq(r), IsSeq(a), IsSeq(t)
  PROVE  /\ \A to : /\ Total(r, a, to) \in Nat /\ Cardinality(Under(t, to)) \in Nat
                    /\ Total(r \o t, a, to) = Total(r, a, to) + Cardinality(Under(t, to))
                    /\ (\A x \in ToSet(t) : x.to # to) => Total(r \o t, a, to) = Total(r, a, to)
         /\ \A n : /\ Pieces(r, a, n) \in Nat /\ Cardinality(Parts(t, n)) \in Nat
                   /\ Pieces(r \o t, a, n) = Pieces(r, a, n) + Cardinality(Parts(t, n))
                   /\ (\A x \in ToSet(t) : x.to # "update") => Pieces(r \o t, a, n) = Pieces(r, a, n)
  <1>1. ASSUME NEW to
        PROVE  /\ Total(r, a, to) \in Nat /\ Cardinality(Under(t, to)) \in Nat
               /\ Total(r \o t, a, to) = Total(r, a, to) + Cardinality(Under(t, to))
               /\ (\A x \in ToSet(t) : x.to # to) => Total(r \o t, a, to) = Total(r, a, to)
    <2>1. PICK p, q, u, w :
             /\ p = Cardinality(Under(r, to)) /\ q = Cardinality(Under(t, to))
             /\ w = Cardinality(Under(r \o t, to)) /\ u = Cardinality(Under(a, to))
      OBVIOUS
    <2>2. p \in Nat /\ q \in Nat /\ w = p + q
      BY <2>1, AddMore
    <2>3. u \in Nat
      BY <2>1, NoneOf
    <2>4. (\A x \in ToSet(t) : x.to # to) => q = 0
      BY <2>1, NoneOf
    <2>5. p + u \in Nat /\ w + u = (p + u) + q /\ (q = 0 => w + u = p + u)
      BY <2>2, <2>3
    <2> QED BY <2>1, <2>2, <2>4, <2>5 DEF Total
  <1>2. ASSUME NEW n
        PROVE  /\ Pieces(r, a, n) \in Nat /\ Cardinality(Parts(t, n)) \in Nat
               /\ Pieces(r \o t, a, n) = Pieces(r, a, n) + Cardinality(Parts(t, n))
               /\ (\A x \in ToSet(t) : x.to # "update") => Pieces(r \o t, a, n) = Pieces(r, a, n)
    <2>1. PICK p, q, u, w :
             /\ p = Cardinality(Parts(r, n)) /\ q = Cardinality(Parts(t, n))
             /\ w = Cardinality(Parts(r \o t, n)) /\ u = Cardinality(Parts(a, n))
      OBVIOUS
    <2>2. p \in Nat /\ q \in Nat /\ w = p + q
      BY <2>1, AddMore
    <2>3. u \in Nat
      BY <2>1, NoneOf
    <2>4. (\A x \in ToSet(t) : x.to # "update") => q = 0
      BY <2>1, NoneOf
    <2>5. p + u \in Nat /\ w + u = (p + u) + q /\ (q = 0 => w + u = p + u)
      BY <2>2, <2>3
    <2> QED BY <2>1, <2>2, <2>4, <2>5 DEF Pieces
  <1> QED BY <1>1, <1>2

\* Messages to the handlers of K are not touched by what goes on for others.
LEMMA ServedElsewhere ==
  ASSUME NEW r, NEW a, IsSeq(r), IsSeq(a), NEW i \in DOMAIN r, NEW x, NEW K, x.to = r[i].to, x.to \notin K,
         x.to = "update" => x.flush = r[i].flush
  PROVE  Untouched(r, a, RemoveAt(r, i), Append(a, x), K)
  <1>1. i \in 1..Len(r)
    BY SeqFacts
  <1>2. \A q : q.to \in K => (q \in ToSet(RemoveAt(r, i)) <=> q \in ToSet(r))
    BY <1>1, RemoveSeq
  <1>3. \A q : q.to \in K => (q \in ToSet(Append(a, x)) <=> q \in ToSet(a))
    BY AppendSeq
  <1>4. \A to : Total(RemoveAt(r, i), Append(a, x), to) = Total(r, a, to)
    BY ServedTotals
  <1>5. \A n : Pieces(RemoveAt(r, i), Append(a, x), n) = Pieces(r, a, n)
    BY ServedTotals
  <1> QED BY <1>2, <1>3, <1>4, <1>5, Zenon DEF Untouched

\* Requests for other handlers leave these alone.
LEMMA SentElsewhere ==
  ASSUME NEW r, NEW a, NEW t, NEW K, IsSeq(r), IsSeq(a), IsSeq(t), \A x \in ToSet(t) : x.to \notin K
  PROVE  Untouched(r, a, r \o t, a, K)
  <1>1. \A q : q.to \in K => (q \in ToSet(r \o t) <=> q \in ToSet(r))
    BY ConcatSeq
  <1>2. \A to \in K : Total(r \o t, a, to) = Total(r, a, to)
    BY SentTotals
  <1>3. "update" \in K => \A n : Pieces(r \o t, a, n) = Pieces(r, a, n)
    BY SentTotals
  <1> QED BY <1>1, <1>2, <1>3, Zenon DEF Untouched

\* And so does an answer of another handler, with the requests it leads to.
LEMMA TakenElsewhere ==
  ASSUME NEW r, NEW a, NEW t, NEW K, IsSeq(r), IsSeq(a), IsSeq(t), \A x \in ToSet(t) : x.to \notin K,
         NEW i \in DOMAIN a, a[i].to \notin K
  PROVE  Untouched(r, a, r \o t, RemoveAt(a, i), K)
  <1>1. i \in 1..Len(a) /\ IsSeq(RemoveAt(a, i))
    BY SeqFacts, RemoveSeq
  <1>2. \A q : q.to \in K => (q \in ToSet(RemoveAt(a, i)) <=> q \in ToSet(a))
    BY <1>1, RemoveSeq
  <1>3. \A to \in K : Total(r, RemoveAt(a, i), to) = Total(r, a, to)
    <2> SUFFICES ASSUME NEW to \in K PROVE Total(r, RemoveAt(a, i), to) = Total(r, a, to)
      OBVIOUS
    <2>1. a[i].to # to
      OBVIOUS
    <2> QED BY <2>1, TakenTotals
  <1>4. "update" \in K => \A n : Pieces(r, RemoveAt(a, i), n) = Pieces(r, a, n)
    <2> SUFFICES ASSUME "update" \in K, NEW n PROVE Pieces(r, RemoveAt(a, i), n) = Pieces(r, a, n)
      OBVIOUS
    <2>1. a[i].to # "update"
      OBVIOUS
    <2> QED BY <2>1, TakenTotals
  <1>5. Untouched(r, RemoveAt(a, i), r \o t, RemoveAt(a, i), K)
    BY <1>1, SentElsewhere
  <1> QED BY <1>2, <1>3, <1>4, <1>5, Zenon DEF Untouched

\* The places of a channel when its first message is taken, or one is added.
LEMMA TailPlaces ==
  ASSUME NEW s, IsSeq(s), 1 \in DOMAIN s
  PROVE  /\ \A j \in DOMAIN RemoveAt(s, 1) : j + 1 \in DOMAIN s /\ RemoveAt(s, 1)[j] = s[j + 1]
         /\ \A j \in DOMAIN s : j # 1 => j - 1 \in DOMAIN RemoveAt(s, 1) /\ RemoveAt(s, 1)[j - 1] = s[j]
  <1>1. PICK m \in Nat : m = Len(s) /\ DOMAIN s = 1..m /\ 1 \in 1..m
    BY SeqFacts
  <1>2. PICK r : r = RemoveAt(s, 1)
    OBVIOUS
  <1>3. IsSeq(r) /\ Len(r) = m - 1 /\ \A j \in 1..(m - 1) : r[j] = IF j < 1 THEN s[j] ELSE s[j + 1]
    BY <1>1, <1>2, RemovePlaces
  <1>4. DOMAIN r = 1..(m - 1)
    BY <1>3, SeqFacts
  <1>5. \A j \in 1..(m - 1) : ~(j < 1) /\ j + 1 \in 1..m
    BY <1>1
  <1>6. \A j \in 1..m : j # 1 => j - 1 \in 1..(m - 1) /\ (j - 1) + 1 = j
    BY <1>1
  <1> QED BY <1>1, <1>2, <1>3, <1>4, <1>5, <1>6

\* The places when a message is put behind the others.
LEMMA MorePlaces ==
  ASSUME NEW s, IsSeq(s), NEW e
  PROVE  /\ DOMAIN Append(s, e) = 1..(Len(s) + 1) /\ Len(s) \in Nat /\ DOMAIN s = 1..Len(s)
         /\ Append(s, e)[Len(s) + 1] = e /\ \A j \in DOMAIN s : Append(s, e)[j] = s[j]
  <1>1. PICK S : s \in Seq(S)
    BY DEF IsSeq
  <1>2. s \in Seq(S \cup {e}) /\ e \in S \cup {e}
    BY <1>1
  <1> QED BY <1>2

\* A channel of answers goes on being repaired.
LEMMA RepairedTail == ASSUME NEW s, NEW v, IsSeq(s), 1 \in DOMAIN s, Repaired(s, v) PROVE Repaired(RemoveAt(s, 1), v)
  <1>1. PICK r : r = RemoveAt(s, 1)
    OBVIOUS
  <1>2. SUFFICES ASSUME NEW i \in DOMAIN r, Reading(r[i])
                 PROVE  r[i].ok /\ (r[i].view = v \/ \E j \in DOMAIN r : i < j /\ Wrote(r[j]))
    BY <1>1 DEF Repaired
  <1>3. i + 1 \in DOMAIN s /\ r[i] = s[i + 1]
    BY <1>1, TailPlaces
  <1>4. s[i + 1].ok /\ (s[i + 1].view = v \/ \E j \in DOMAIN s : i + 1 < j /\ Wrote(s[j]))
    BY <1>2, <1>3 DEF Repaired
  <1>5. CASE s[i + 1].view = v
    BY <1>3, <1>4, <1>5
  <1>6. CASE s[i + 1].view # v
    <2>1. PICK j \in DOMAIN s : i + 1 < j /\ Wrote(s[j])
      BY <1>4, <1>6
    <2>2. i \in Nat /\ j \in Nat /\ 1 <= i
      BY <1>1, <1>2, RemovePlaces, SeqFacts
    <2>3. j # 1 /\ i < j - 1
      BY <2>1, <2>2
    <2>4. j - 1 \in DOMAIN r /\ r[j - 1] = s[j]
      BY <1>1, <2>3, TailPlaces
    <2> QED BY <1>3, <1>4, <2>1, <2>3, <2>4
  <1> QED BY <1>5, <1>6

\* An answer that is current joins them.
LEMMA RepairedMore ==
  ASSUME NEW s, NEW v, NEW e, IsSeq(s), Repaired(s, v), Reading(e) => e.ok /\ e.view = v
  PROVE  Repaired(Append(s, e), v)
  <1>1. PICK r : r = Append(s, e)
    OBVIOUS
  <1>2. SUFFICES ASSUME NEW i \in DOMAIN r, Reading(r[i])
                 PROVE  r[i].ok /\ (r[i].view = v \/ \E j \in DOMAIN r : i < j /\ Wrote(r[j]))
    BY <1>1 DEF Repaired
  <1>3. DOMAIN r = 1..(Len(s) + 1) /\ Len(s) \in Nat /\ DOMAIN s = 1..Len(s) /\ r[Len(s) + 1] = e
        /\ \A j \in DOMAIN s : r[j] = s[j]
    BY <1>1, MorePlaces
  <1>4. CASE i = Len(s) + 1
    BY <1>2, <1>3, <1>4
  <1>5. CASE i # Len(s) + 1
    <2>1. i \in DOMAIN s /\ r[i] = s[i]
      BY <1>3, <1>5
    <2>2. s[i].ok /\ (s[i].view = v \/ \E j \in DOMAIN s : i < j /\ Wrote(s[j]))
      BY <1>2, <2>1 DEF Repaired
    <2>3. \A j \in DOMAIN s : j \in DOMAIN r
      BY <1>3
    <2> QED BY <1>3, <2>1, <2>2, <2>3
  <1> QED BY <1>4, <1>5

\* The answer to a write repairs all that are before it.
LEMMA RepairedAgain ==
  ASSUME NEW s, NEW v, NEW w, NEW e, IsSeq(s), Repaired(s, v), Wrote(e)
  PROVE  Repaired(Append(s, e), w)
  <1>1. PICK r : r = Append(s, e)
    OBVIOUS
  <1>2. SUFFICES ASSUME NEW i \in DOMAIN r, Reading(r[i])
                 PROVE  r[i].ok /\ \E j \in DOMAIN r : i < j /\ Wrote(r[j])
    BY <1>1 DEF Repaired
  <1>3. DOMAIN r = 1..(Len(s) + 1) /\ Len(s) \in Nat /\ DOMAIN s = 1..Len(s) /\ r[Len(s) + 1] = e
        /\ \A j \in DOMAIN s : r[j] = s[j]
    BY <1>1, MorePlaces
  <1>4. i # Len(s) + 1
    BY <1>2, <1>3 DEF Wrote, Reading
  <1>5. i \in DOMAIN s /\ i < Len(s) + 1 /\ Len(s) + 1 \in DOMAIN r
    BY <1>3, <1>4
  <1>6. s[i].ok
    BY <1>2, <1>3, <1>5 DEF Repaired
  <1> QED BY <1>3, <1>5, <1>6

\* A part of a flush that is answered.
Parted(a) == a.to = "update" /\ a.flush > 0
\* What the settings page is shown of c.
Views(v, c) == \A k \in Shown : v[k] = toView(c)[k]

\* So does one of answers to the settings page.
LEMMA UpdatedTail == ASSUME NEW s, NEW v, IsSeq(s), 1 \in DOMAIN s, Updated(s, v) PROVE Updated(RemoveAt(s, 1), v)
  <1>1. PICK r : r = RemoveAt(s, 1)
    OBVIOUS
  <1>2. SUFFICES ASSUME NEW i \in DOMAIN r, r[i].to = "get"
                 PROVE  r[i].ok /\ (Views(r[i].view, v) \/ \E j \in DOMAIN r : i < j /\ Parted(r[j]))
    BY <1>1 DEF Updated, Views, Parted
  <1>3. i + 1 \in DOMAIN s /\ r[i] = s[i + 1]
    BY <1>1, TailPlaces
  <1>4. s[i + 1].ok /\ (Views(s[i + 1].view, v) \/ \E j \in DOMAIN s : i + 1 < j /\ Parted(s[j]))
    BY <1>2, <1>3 DEF Updated, Views, Parted
  <1>5. CASE Views(s[i + 1].view, v)
    BY <1>3, <1>4, <1>5
  <1>6. CASE ~Views(s[i + 1].view, v)
    <2>1. PICK j \in DOMAIN s : i + 1 < j /\ Parted(s[j])
      BY <1>4, <1>6
    <2>2. i \in Nat /\ j \in Nat /\ 1 <= i
      BY <1>1, <1>2, RemovePlaces, SeqFacts
    <2>3. j # 1 /\ i < j - 1
      BY <2>1, <2>2
    <2>4. j - 1 \in DOMAIN r /\ r[j - 1] = s[j]
      BY <1>1, <2>3, TailPlaces
    <2> QED BY <1>3, <1>4, <2>1, <2>3, <2>4
  <1> QED BY <1>5, <1>6

\* The same of the settings: an answer that is current joins.
LEMMA UpdatedMore ==
  ASSUME NEW s, NEW v, NEW e, IsSeq(s), Updated(s, v), e.to = "get" => e.ok /\ Views(e.view, v)
  PROVE  Updated(Append(s, e), v)
  <1>1. PICK r : r = Append(s, e)
    OBVIOUS
  <1>2. SUFFICES ASSUME NEW i \in DOMAIN r, r[i].to = "get"
                 PROVE  r[i].ok /\ (Views(r[i].view, v) \/ \E j \in DOMAIN r : i < j /\ Parted(r[j]))
    BY <1>1 DEF Updated, Views, Parted
  <1>3. DOMAIN r = 1..(Len(s) + 1) /\ Len(s) \in Nat /\ DOMAIN s = 1..Len(s) /\ r[Len(s) + 1] = e
        /\ \A j \in DOMAIN s : r[j] = s[j]
    BY <1>1, MorePlaces
  <1>4. CASE i = Len(s) + 1
    BY <1>2, <1>3, <1>4
  <1>5. CASE i # Len(s) + 1
    <2>1. i \in DOMAIN s /\ r[i] = s[i]
      BY <1>3, <1>5
    <2>2. s[i].ok /\ (Views(s[i].view, v) \/ \E j \in DOMAIN s : i < j /\ Parted(s[j]))
      BY <1>2, <2>1 DEF Updated, Views, Parted
    <2>3. \A j \in DOMAIN s : j \in DOMAIN r
      BY <1>3
    <2> QED BY <1>3, <2>1, <2>2, <2>3
  <1> QED BY <1>4, <1>5

\* The answer to a part of a flush repairs all that are before it.
LEMMA UpdatedAgain ==
  ASSUME NEW s, NEW v, NEW w, NEW e, IsSeq(s), Updated(s, v), Parted(e)
  PROVE  Updated(Append(s, e), w)
  <1>1. PICK r : r = Append(s, e)
    OBVIOUS
  <1>2. SUFFICES ASSUME NEW i \in DOMAIN r, r[i].to = "get"
                 PROVE  r[i].ok /\ \E j \in DOMAIN r : i < j /\ Parted(r[j])
    BY <1>1 DEF Updated, Views, Parted
  <1>3. DOMAIN r = 1..(Len(s) + 1) /\ Len(s) \in Nat /\ DOMAIN s = 1..Len(s) /\ r[Len(s) + 1] = e
        /\ \A j \in DOMAIN s : r[j] = s[j]
    BY <1>1, MorePlaces
  <1>4. i # Len(s) + 1
    BY <1>2, <1>3 DEF Parted
  <1>5. i \in DOMAIN s /\ i < Len(s) + 1 /\ Len(s) + 1 \in DOMAIN r
    BY <1>3, <1>4
  <1>6. s[i].ok
    BY <1>2, <1>3, <1>5 DEF Updated, Views, Parted
  <1> QED BY <1>3, <1>5, <1>6

---------------------------------------------------------------------------
(* What each step does to the messages and the stores                      *)

\* A model that Validate accepts is loaded as it was saved.
LEMMA LoadSaved == ASSUME NEW m, Kept(m) PROVE Load(Save(m)) = m
  <1>1. m \in [default : Actions, groups : Seq(GoodGroup)]
    BY DEF Kept, GoodModel
  <1>2. m.default # ""
    BY <1>1 DEF Actions
  <1>3. [m EXCEPT !.default = m.default] = m
    BY <1>1
  <1>4. Save(m) # <<>> /\ Save(m)[1] = m
    BY DEF Save
  <1> QED BY <1>2, <1>3, <1>4 DEF Load

\* RulesService has served a request.
LEMMA RulesServed ==
  ASSUME SafeInv, RulesTyped, NEW i \in DOMAIN reqs, HandleRules(i)
  PROVE  /\ reqs[i].to = "rules" /\ reqs[i] \in ToSet(reqs) /\ reqs' = RemoveAt(reqs, i)
         /\ UNCHANGED <<cfgFile, statusEvents, rs, waiters, st, snap, dismissed, ctl, faults>>
         /\ \E a : /\ answers' = Append(answers, a)
                   /\ a.to = "rules" /\ a.op = reqs[i].op /\ a.lead = reqs[i].lead /\ a.ok \in BOOLEAN
                   /\ ~a.ok => rulesFile' = rulesFile /\ rulesEvents' = rulesEvents
                   /\ a.ok => /\ Serve(a.op, Load(rulesFile)).ok
                              /\ Load(rulesFile') = Serve(a.op, Load(rulesFile)).model
                              /\ rulesEvents' = IF rs.sub THEN rulesEvents + 1 ELSE rulesEvents
  <1> DEFINE op == reqs[i].op
             r  == Serve(op, Load(rulesFile))
  <1>1. reqs[i] \in ToSet(reqs) /\ reqs[i].to = "rules" /\ minted + IdsUsed(op) <= Len(NewIds)
    BY DEF HandleRules, ToSet
  <1>2. SafeOp(op)
    BY <1>1 DEF SafeInv, Sent, Fair
  <1>3. Kept(r.model)
    BY <1>1, <1>2, ServeKept DEF SafeInv
  <1>4. PICK saved \in BOOLEAN :
          /\ rulesFile' = IF r.ok /\ saved THEN Save(r.model) ELSE rulesFile
          /\ rulesEvents' = IF (r.ok /\ saved) /\ rs.sub THEN rulesEvents + 1 ELSE rulesEvents
          /\ answers' = Append(answers, [to |-> "rules", op |-> op, lead |-> reqs[i].lead, ok |-> r.ok /\ saved])
    BY DEF HandleRules
  <1>5. reqs' = RemoveAt(reqs, i) /\ UNCHANGED <<cfgFile, statusEvents, rs, waiters, st, snap, dismissed, ctl, faults>>
    BY DEF HandleRules, ui
  <1>6. Load(Save(r.model)) = r.model
    BY <1>3, LoadSaved
  <1> HIDE DEF r
  <1>7. PICK x : x = (r.ok /\ saved)
    OBVIOUS
  <1>8. x \in BOOLEAN
    BY <1>7
  <1> DEFINE a == [to |-> "rules", op |-> op, lead |-> reqs[i].lead, ok |-> x]
  <1>9. a.to = "rules" /\ a.op = op /\ a.lead = reqs[i].lead /\ a.ok = x
    OBVIOUS
  <1>10. answers' = Append(answers, a)
    BY <1>4, <1>7
  <1> HIDE DEF a
  <1>11. CASE x
    <2>1. r.ok /\ saved
      BY <1>7, <1>11
    <2>2. rulesFile' = Save(r.model) /\ rulesEvents' = IF rs.sub THEN rulesEvents + 1 ELSE rulesEvents
      BY <1>4, <2>1
    <2>3. a.ok
      BY <1>9, <1>11
    <2> QED BY <1>1, <1>5, <1>6, <1>8, <1>9, <1>10, <2>1, <2>2, <2>3 DEF r
  <1>12. CASE ~x
    <2>1. ~(r.ok /\ saved)
      BY <1>7, <1>12
    <2>2. rulesFile' = rulesFile /\ rulesEvents' = rulesEvents
      BY <1>4, <2>1
    <2>3. ~a.ok
      BY <1>9, <1>12
    <2> QED BY <1>1, <1>5, <1>8, <1>9, <1>10, <2>2, <2>3
  <1> QED BY <1>8, <1>11, <1>12

\* A read has been served.
LEMMA ListServed ==
  ASSUME NEW i \in DOMAIN reqs, HandleList(i)
  PROVE  /\ reqs[i].to = "list" /\ reqs[i] \in ToSet(reqs) /\ reqs' = RemoveAt(reqs, i)
         /\ UNCHANGED <<rulesFile, cfgFile, rulesEvents, statusEvents, rs, waiters, st, snap, dismissed, ctl, faults>>
         /\ \E a : /\ answers' = Append(answers, a)
                   /\ a.to = "list" /\ a.view = Load(rulesFile) /\ ("list" \notin faults => a.ok)
  <1>1. PICK ok : (("list" \notin faults) => ok = TRUE)
                  /\ answers' = Append(answers, [to |-> "list", ok |-> ok, view |-> Load(rulesFile)])
    <2>1. PICK ok \in (IF "list" \in faults THEN BOOLEAN ELSE {TRUE}) :
            answers' = Append(answers, [to |-> "list", ok |-> ok, view |-> Load(rulesFile)])
      BY DEF HandleList
    <2> QED BY <2>1
  <1> DEFINE a == [to |-> "list", ok |-> ok, view |-> Load(rulesFile)]
  <1>2. a.to = "list" /\ a.view = Load(rulesFile) /\ a.ok = ok
    OBVIOUS
  <1>3. answers' = Append(answers, a)
    BY <1>1
  <1> HIDE DEF a
  <1>4. "list" \notin faults => a.ok
    BY <1>1, <1>2
  <1>5. reqs[i].to = "list" /\ reqs[i] \in ToSet(reqs) /\ reqs' = RemoveAt(reqs, i)
         /\ UNCHANGED <<rulesFile, cfgFile, rulesEvents, statusEvents, rs, waiters, st, snap, dismissed, ctl, faults>>
    BY DEF HandleList, files, events, ui, ToSet
  <1> QED BY <1>2, <1>3, <1>4, <1>5

\* The fields of rulesStore that a step leaves alone.
SameBut(F, v, w) == DOMAIN w = RsFields /\ \A f \in RsFields \ F : w[f] = v[f]

\* captureRevertBaseline touches the baseline, refetch the mark of a read.
LEMMA CaptureIs ==
  ASSUME NEW v, DOMAIN v = RsFields
  PROVE  /\ SameBut({"base"}, v, captureRevertBaseline(v))
         /\ captureRevertBaseline(v).base = IF v.base = <<>> /\ v.boot THEN <<v.view>> ELSE v.base
  <1> DEFINE w == [v EXCEPT !.base = <<v.view>>]
  <1>1. DOMAIN w = RsFields /\ w.base = <<v.view>> /\ \A f \in RsFields \ {"base"} : w[f] = v[f]
    BY DEF RsFields
  <1>2. captureRevertBaseline(v) = IF v.base = <<>> /\ v.boot THEN w ELSE v
    BY DEF captureRevertBaseline
  <1> HIDE DEF w
  <1> QED BY <1>1, <1>2 DEF SameBut

\* A read is marked as one that is published, or as a quiet one.
LEMMA RefetchIs ==
  ASSUME NEW v, DOMAIN v = RsFields, NEW p
  PROVE  /\ SameBut({"reading"}, v, refetch(v, p))
         /\ refetch(v, p).reading = IF p THEN "push" ELSE IF v.reading = "no" THEN "quiet" ELSE v.reading
  <1> DEFINE x == IF p THEN "push" ELSE IF v.reading = "no" THEN "quiet" ELSE v.reading
             w == [v EXCEPT !.reading = x]
  <1>1. refetch(v, p) = w
    BY DEF refetch
  <1>2. x = IF p THEN "push" ELSE IF v.reading = "no" THEN "quiet" ELSE v.reading
    OBVIOUS
  <1> HIDE DEF x
  <1>3. DOMAIN w = RsFields /\ w.reading = x /\ \A f \in RsFields \ {"reading"} : w[f] = v[f]
    BY DEF RsFields
  <1> HIDE DEF w
  <1> QED BY <1>1, <1>2, <1>3 DEF SameBut

\* A read is asked for unless one is under way.
LEMMA ListAsked ==
  ASSUME NEW r
  PROVE  /\ IsSeq(ListRequest(r)) /\ \A q \in ToSet(ListRequest(r)) : q.to = "list"
         /\ r.reading # "no" => ListRequest(r) = <<>>
         /\ Cardinality(Under(ListRequest(r), "list")) = IF r.reading = "no" THEN 1 ELSE 0
  <1> DEFINE q == [to |-> "list"]
  <1>1. q.to = "list"
    OBVIOUS
  <1>2. ListRequest(r) = IF r.reading = "no" THEN <<q>> ELSE <<>>
    BY DEF ListRequest
  <1> HIDE DEF q
  <1>3. IsSeq(<<q>>) /\ ToSet(<<q>>) = {q} /\ Cardinality(Under(<<q>>, "list")) = 1
    BY <1>1, SingleSeq, OneOf
  <1>4. IsSeq(<<>>) /\ ToSet(<<>>) = {}
    BY NoSeq
  <1>5. Cardinality(Under(<<>>, "list")) = 0
    BY <1>4, NoneOf
  <1> QED BY <1>1, <1>2, <1>3, <1>4, <1>5

\* The requests of the mutations in s.
Going(s, t) == t = [j \in 1..Len(s) |-> MutationRequest(s[j], FALSE)]

\* The mutations that waited are sent.
LEMMA GoingOn ==
  ASSUME NEW s, Waiting(s), NEW t, Going(s, t)
  PROVE  /\ IsSeq(t) /\ \A q \in ToSet(t) : q.to = "rules" /\ q.op \in ToSet(s)
         /\ s = <<>> => ToSet(t) = {}
  <1>1. Len(s) \in Nat /\ DOMAIN s = 1..Len(s)
    BY SeqFacts DEF Waiting
  <1>2. DOMAIN t = 1..Len(s) /\ t = [j \in 1..Len(s) |-> t[j]]
        /\ \A j \in 1..Len(s) : t[j] = MutationRequest(s[j], FALSE)
    BY DEF Going
  <1>3. IsSeq(t)
    BY <1>1, <1>2, MapSeq
  <1>4. \A j \in 1..Len(s) : t[j].to = "rules" /\ t[j].op = s[j]
    BY <1>2 DEF MutationRequest
  <1>7. \A j \in 1..Len(s) : s[j] \in ToSet(s)
    BY <1>1 DEF ToSet
  <1>5. \A q \in ToSet(t) : q.to = "rules" /\ q.op \in ToSet(s)
    <2> SUFFICES ASSUME NEW q \in ToSet(t) PROVE q.to = "rules" /\ q.op \in ToSet(s)
      OBVIOUS
    <2>1. PICK j \in 1..Len(s) : q = t[j]
      BY <1>2 DEF ToSet
    <2> QED BY <1>4, <1>7, <2>1
  <1>6. s = <<>> => ToSet(t) = {}
    BY <1>2, NoSeq DEF ToSet
  <1> QED BY <1>3, <1>5, <1>6

\* The requests that follow the answer a: one read, and the mutations that waited.
SentAfter(a, t) ==
  /\ reqs' = reqs \o t /\ IsSeq(t)
  /\ \A q \in ToSet(t) : q.to \in {"list", "rules"}
  /\ waiters = <<>> => \A q \in ToSet(t) : q.to = "list"
  /\ Cardinality(Under(t, "list")) = IF a.ok /\ rs.reading = "no" THEN 1 ELSE 0

\* The end of a mutation.
LEMMA MutationTaken ==
  ASSUME SafeInv, RulesTyped, NEW i \in DOMAIN answers, MutationAnswered(i), NEW a, a = answers[i]
  PROVE  /\ a.to = "rules" /\ a \in ToSet(answers) /\ answers' = RemoveAt(answers, i)
         /\ UNCHANGED <<rulesFile, cfgFile, rulesEvents, statusEvents, st, snap, dismissed, ctl, faults>>
         /\ waiters' = IF a.lead THEN <<>> ELSE waiters
         /\ SameBut({"lead", "reading", "echoes", "base"}, rs, rs')
         /\ rs'.lead <=> rs.lead /\ ~a.lead
         /\ rs'.reading = IF a.ok THEN "push" ELSE rs.reading
         /\ waiters = <<>> => rs'.base = IF a.ok /\ a.op.k = "revert" THEN <<>> ELSE rs.base
         /\ \E t : SentAfter(a, t)
  <1> DEFINE go   == IF a.lead THEN waiters ELSE <<>>
             x    == rs.lead /\ ~a.lead
             low  == [rs EXCEPT !.lead = x]
             y    == low.echoes + 1
             up   == [low EXCEPT !.echoes = y]
             done == Mutated(low, a.ok)
             base == IF go = <<>> THEN done ELSE captureRevertBaseline(done)
             more == [j \in 1..Len(go) |-> MutationRequest(go[j], FALSE)]
             ask  == IF done.reading = rs.reading THEN <<>> ELSE ListRequest(rs)
  <1>1. /\ rs' = Reverted(base, a) /\ reqs' = reqs \o ask \o more
        /\ waiters' = (IF a.lead THEN <<>> ELSE waiters) /\ answers' = RemoveAt(answers, i)
        /\ a.to = "rules" /\ a \in ToSet(answers)
        /\ UNCHANGED <<rulesFile, cfgFile, rulesEvents, statusEvents, st, snap, dismissed, ctl, faults>>
    BY DEF MutationAnswered, files, events, ToSet
  <1>2. DOMAIN rs = RsFields /\ rs.reading \in {"no", "quiet", "push"}
    BY DEF SafeInv, Guarded, RulesTyped
  <1>3. Waiting(go) /\ (waiters = <<>> => go = <<>>)
    BY NoSeq DEF SafeInv, Waiting
  <1>4. /\ IsSeq(more) /\ \A q \in ToSet(more) : q.to = "rules"
        /\ (go = <<>> => ToSet(more) = {})
    <2>1. PICK g, m : g = go /\ m = more /\ Going(g, m)
      BY DEF Going
    <2>2. Waiting(g)
      BY <1>3, <2>1
    <2>3. /\ IsSeq(m) /\ \A q \in ToSet(m) : q.to = "rules"
          /\ (g = <<>> => ToSet(m) = {})
      BY <2>1, <2>2, GoingOn
    <2> HIDE DEF go, more
    <2> QED BY <2>1, <2>3
  <1>5. done = IF a.ok THEN refetch(up, TRUE) ELSE low
    BY DEF Mutated
  <1>0. x <=> rs.lead /\ ~a.lead
    OBVIOUS
  <1> HIDE DEF go, more, done, x, y
  <1>6. SameBut({"lead"}, rs, low) /\ low.lead = x
    BY <1>2 DEF SameBut, RsFields
  <1> HIDE DEF low
  <1>7. SameBut({"echoes"}, low, up)
    BY <1>6 DEF SameBut, RsFields
  <1> HIDE DEF up
  <1>8. SameBut({"reading"}, up, refetch(up, TRUE)) /\ refetch(up, TRUE).reading = "push"
    BY <1>7, RefetchIs DEF SameBut
  <1>9. /\ SameBut({"lead", "reading", "echoes"}, rs, done) /\ (done.lead <=> x)
        /\ done.reading = IF a.ok THEN "push" ELSE rs.reading
    <2>1. CASE a.ok
      <3>1. done = refetch(up, TRUE)
        BY <1>5, <2>1
      <3> QED BY <1>6, <1>7, <1>8, <2>1, <3>1 DEF SameBut, RsFields
    <2>2. CASE ~a.ok
      <3>1. done = low
        BY <1>5, <2>2
      <3> QED BY <1>6, <2>2, <3>1 DEF SameBut, RsFields
    <2> QED BY <2>1, <2>2
  <1>10. SameBut({"base"}, done, captureRevertBaseline(done))
    BY <1>9, CaptureIs DEF SameBut
  <1>11. /\ SameBut({"lead", "reading", "echoes", "base"}, rs, base) /\ (base.lead <=> x)
         /\ base.reading = (IF a.ok THEN "push" ELSE rs.reading) /\ (waiters = <<>> => base.base = rs.base)
    <2>1. CASE go = <<>>
      BY <1>9, <2>1 DEF SameBut, RsFields
    <2>2. CASE go # <<>>
      BY <1>3, <1>9, <1>10, <2>2 DEF SameBut, RsFields
    <2> QED BY <2>1, <2>2
  <1>12. ask = IF a.ok /\ rs.reading # "push" THEN ListRequest(rs) ELSE <<>>
    BY <1>9
  <1> HIDE DEF base, ask
  <1>13. rs' = IF a.ok /\ a.op.k = "revert" THEN [base EXCEPT !.base = <<>>] ELSE base
    BY <1>1 DEF Reverted
  <1>14. /\ SameBut({"lead", "reading", "echoes", "base"}, rs, rs') /\ (rs'.lead <=> x)
         /\ rs'.reading = (IF a.ok THEN "push" ELSE rs.reading)
         /\ (waiters = <<>> => rs'.base = IF a.ok /\ a.op.k = "revert" THEN <<>> ELSE rs.base)
    <2> DEFINE w == [base EXCEPT !.base = <<>>]
    <2>1. DOMAIN w = RsFields /\ w.base = <<>> /\ \A f \in RsFields \ {"base"} : w[f] = base[f]
      BY <1>11 DEF SameBut, RsFields
    <2>2. rs' = IF a.ok /\ a.op.k = "revert" THEN w ELSE base
      BY <1>13
    <2> HIDE DEF w
    <2>3. CASE a.ok /\ a.op.k = "revert"
      <3>1. rs' = w
        BY <2>2, <2>3
      <3>2. "lead" \in RsFields /\ "reading" \in RsFields
        BY DEF RsFields
      <3>3. SameBut({"lead", "reading", "echoes", "base"}, rs, w)
        BY <1>11, <2>1 DEF SameBut
      <3> QED BY <1>11, <2>1, <2>3, <3>1, <3>2, <3>3
    <2>4. CASE ~(a.ok /\ a.op.k = "revert")
      <3>1. rs' = base
        BY <2>2, <2>4
      <3> QED BY <1>11, <2>4, <3>1
    <2> QED BY <2>3, <2>4
  <1>15. /\ IsSeq(ask) /\ \A q \in ToSet(ask) : q.to = "list"
         /\ Cardinality(Under(ask, "list")) = IF a.ok /\ rs.reading = "no" THEN 1 ELSE 0
    <2>1. IsSeq(<<>>) /\ ToSet(<<>>) = {}
      BY NoSeq
    <2>2. Cardinality(Under(<<>>, "list")) = 0
      BY <2>1, NoneOf
    <2>3. CASE a.ok /\ rs.reading # "push"
      <3>1. ask = ListRequest(rs)
        BY <1>12, <2>3
      <3> QED BY <2>3, <3>1, ListAsked
    <2>4. CASE ~(a.ok /\ rs.reading # "push")
      <3>1. ask = <<>>
        BY <1>12, <2>4
      <3> QED BY <2>1, <2>2, <2>4, <3>1
    <2> QED BY <2>3, <2>4
  <1>16. PICK z : z = ask \o more
    OBVIOUS
  <1>17. IsSeq(z) /\ ToSet(z) \subseteq ToSet(ask) \cup ToSet(more)
    BY <1>4, <1>15, <1>16, ConcatSeq
  <1>18. Cardinality(Under(z, "list")) = Cardinality(Under(ask, "list"))
    <2>1. PICK p, q : p = Cardinality(Under(ask, "list")) /\ q = Cardinality(Under(more, "list"))
      OBVIOUS
    <2>2. p \in Nat /\ q \in Nat /\ Cardinality(Under(z, "list")) = p + q
      BY <1>4, <1>15, <1>16, <2>1, AddMore
    <2>3. q = 0
      BY <1>4, <2>1, NoneOf
    <2> QED BY <2>1, <2>2, <2>3
  <1>19. reqs' = reqs \o z
    <2>1. IsSeq(reqs)
      BY DEF SafeInv, Sent
    <2>2. PICK S, T, U : reqs \in Seq(S) /\ ask \in Seq(T) /\ more \in Seq(U)
      BY <1>4, <1>15, <2>1 DEF IsSeq
    <2>3. PICK V : V = S \cup T \cup U
      OBVIOUS
    <2>4. reqs \in Seq(V) /\ ask \in Seq(V) /\ more \in Seq(V)
      BY <2>2, <2>3
    <2>5. (reqs \o ask) \o more = reqs \o (ask \o more)
      BY <2>4
    <2> QED BY <1>1, <1>16, <2>5
  <1>20. \A q \in ToSet(z) : q.to \in {"list", "rules"}
    BY <1>4, <1>15, <1>17
  <1>21. waiters = <<>> => \A q \in ToSet(z) : q.to = "list"
    BY <1>3, <1>4, <1>15, <1>17
  <1>22. SentAfter(a, z)
    BY <1>15, <1>17, <1>18, <1>19, <1>20, <1>21 DEF SentAfter
  <1>23. \E t : SentAfter(a, t)
    BY <1>22
  <1>24. rs'.lead <=> rs.lead /\ ~a.lead
    BY <1>0, <1>14
  <1> QED BY <1>1, <1>14, <1>23, <1>24

\* The end of a read.
LEMMA ListTaken ==
  ASSUME SafeInv, NEW i \in DOMAIN answers, Refetched(i), NEW a, a = answers[i]
  PROVE  /\ a.to = "list" /\ a \in ToSet(answers) /\ answers' = RemoveAt(answers, i)
         /\ UNCHANGED <<rulesFile, cfgFile, reqs, rulesEvents, statusEvents, waiters, st, ctl, faults>>
         /\ SameBut({"view", "boot", "reading", "sig"}, rs, rs') /\ rs'.reading = "no"
         /\ rs'.view = IF a.ok THEN a.view ELSE rs.view
         /\ a.ok => rs'.boot
         /\ ~a.ok => rs'.boot = rs.boot
         /\ rs'.sig = IF rs.reading = "push" THEN <<rs'.view>> ELSE rs.sig
         /\ snap' = IF rs.reading = "push" /\ rs.sig # rs'.sig /\ snap # <<>> /\ snap[1].sig = <<>>
                    THEN <<[snap[1] EXCEPT !.sig = rs'.sig]>> ELSE snap
  <1> DEFINE good == [rs EXCEPT !.view = a.view, !.boot = TRUE, !.reading = "no"]
             bad  == [rs EXCEPT !.reading = "no"]
             next == IF a.ok THEN good ELSE bad
             sig  == <<next.view>>
             done == [next EXCEPT !.sig = sig]
  <1>1. /\ a.to = "list" /\ a \in ToSet(answers) /\ answers' = RemoveAt(answers, i)
        /\ UNCHANGED <<rulesFile, cfgFile, reqs, rulesEvents, statusEvents, waiters, st, ctl, faults>>
    BY DEF Refetched, files, events, ToSet
  <1>2. /\ rs.reading = "push" => rs' = done /\ setCurrentRulesSignature(sig)
        /\ rs.reading # "push" => rs' = next /\ snap' = snap
    BY DEF Refetched
  <1>3. DOMAIN rs = RsFields
    BY DEF SafeInv, Guarded
  <1>4. /\ SameBut({"view", "boot", "reading"}, rs, good)
        /\ good.view = a.view /\ good.boot = TRUE /\ good.reading = "no"
    BY <1>3 DEF SameBut, RsFields
  <1>5. SameBut({"reading"}, rs, bad) /\ bad.reading = "no"
    BY <1>3 DEF SameBut, RsFields
  <1>0. sig = <<next.view>> /\ next = (IF a.ok THEN good ELSE bad) /\ done = [next EXCEPT !.sig = sig]
    OBVIOUS
  <1> HIDE DEF good, bad, next, sig, done
  <1>6. /\ SameBut({"view", "boot", "reading"}, rs, next) /\ next.reading = "no"
        /\ next.view = (IF a.ok THEN a.view ELSE rs.view)
        /\ (a.ok => next.boot) /\ (~a.ok => next.boot = rs.boot)
    <2>1. CASE a.ok
      BY <1>0, <1>4, <2>1 DEF SameBut
    <2>2. CASE ~a.ok
      BY <1>0, <1>5, <2>2 DEF SameBut, RsFields
    <2> QED BY <2>1, <2>2
  <1>7. SameBut({"sig"}, next, done) /\ done.sig = sig
    BY <1>0, <1>6 DEF SameBut, RsFields
  <1>8. /\ SameBut({"view", "boot", "reading", "sig"}, rs, rs') /\ rs'.reading = "no"
        /\ rs'.view = next.view /\ rs'.boot = next.boot
        /\ rs'.sig = (IF rs.reading = "push" THEN sig ELSE rs.sig)
    <2>1. CASE rs.reading = "push"
      BY <1>2, <1>6, <1>7, <2>1 DEF SameBut, RsFields
    <2>2. CASE rs.reading # "push"
      BY <1>2, <1>6, <2>2 DEF SameBut, RsFields
    <2> QED BY <2>1, <2>2
  <1>9. snap' = IF rs.reading = "push" /\ rs.sig # rs'.sig /\ snap # <<>> /\ snap[1].sig = <<>>
                THEN <<[snap[1] EXCEPT !.sig = rs'.sig]>> ELSE snap
    <2>1. CASE rs.reading = "push"
      <3>1. rs'.sig = sig
        BY <1>8, <2>1
      <3>2. CASE rs.sig = sig
        BY <1>2, <2>1, <3>1, <3>2 DEF setCurrentRulesSignature
      <3>3. CASE rs.sig # sig
        BY <1>2, <2>1, <3>1, <3>3 DEF setCurrentRulesSignature
      <3> QED BY <3>2, <3>3
    <2>2. CASE rs.reading # "push"
      BY <1>2, <2>2
    <2> QED BY <2>1, <2>2
  <1>10. rs'.sig = IF rs.reading = "push" THEN <<rs'.view>> ELSE rs.sig
    BY <1>0, <1>8
  <1>11. rs'.view = IF a.ok THEN a.view ELSE rs.view
    BY <1>6, <1>8
  <1>12. (a.ok => rs'.boot) /\ (~a.ok => rs'.boot = rs.boot)
    BY <1>6, <1>8
  <1> QED BY <1>1, <1>8, <1>9, <1>10, <1>11, <1>12

\* rules:changed has arrived.
LEMMA EventTaken ==
  ASSUME SafeInv, RulesChanged
  PROVE  /\ rulesEvents > 0 /\ rulesEvents' = rulesEvents - 1
         /\ UNCHANGED <<rulesFile, cfgFile, answers, statusEvents, waiters, st, snap, dismissed, ctl, faults>>
         /\ \/ reqs' = reqs /\ SameBut({"echoes"}, rs, rs')
            \/ /\ reqs' = reqs \o ListRequest(rs) /\ SameBut({"reading"}, rs, rs')
               /\ rs'.reading = IF rs.reading = "no" THEN "quiet" ELSE rs.reading
  <1>0. DOMAIN rs = RsFields
    BY DEF SafeInv, Guarded
  <1>1. rulesEvents > 0 /\ rulesEvents' = rulesEvents - 1
        /\ UNCHANGED <<rulesFile, cfgFile, answers, statusEvents, waiters, st, snap, dismissed, ctl, faults>>
    BY DEF RulesChanged, files
  <1>2. CASE rs.echoes > 0
    <2> DEFINE x == rs.echoes - 1
               w == [rs EXCEPT !.echoes = x]
    <2>1. rs' = w /\ reqs' = reqs
      BY <1>2 DEF RulesChanged
    <2> HIDE DEF x
    <2>2. SameBut({"echoes"}, rs, w)
      BY <1>0 DEF SameBut, RsFields
    <2> QED BY <1>1, <2>1, <2>2
  <1>3. CASE ~(rs.echoes > 0)
    <2>1. rs' = refetch(rs, FALSE) /\ reqs' = reqs \o ListRequest(rs)
      BY <1>3 DEF RulesChanged
    <2>2. PICK p : p = FALSE
      OBVIOUS
    <2>3. SameBut({"reading"}, rs, refetch(rs, p))
         /\ refetch(rs, p).reading = IF p THEN "push" ELSE IF rs.reading = "no" THEN "quiet" ELSE rs.reading
      BY <1>0, RefetchIs
    <2>4. SameBut({"reading"}, rs, refetch(rs, FALSE))
         /\ refetch(rs, FALSE).reading = IF rs.reading = "no" THEN "quiet" ELSE rs.reading
      BY <2>2, <2>3
    <2> QED BY <1>1, <2>1, <2>4
  <1> QED BY <1>2, <1>3

\* The page reads for the first time.
LEMMA BootAsked ==
  ASSUME SafeInv, ensureBoot
  PROVE  /\ ~rs.boot /\ rs.reading # "push" /\ reqs' = reqs \o ListRequest(rs)
         /\ UNCHANGED <<rulesFile, cfgFile, answers, rulesEvents, statusEvents, waiters, st, snap, dismissed, ctl, faults>>
         /\ SameBut({"sub", "reading"}, rs, rs') /\ rs'.sub /\ rs'.reading = "push"
  <1>0. DOMAIN rs = RsFields
    BY DEF SafeInv, Guarded
  <1> DEFINE w == [rs EXCEPT !.sub = TRUE]
  <1>1. SameBut({"sub"}, rs, w) /\ w.sub = TRUE
    BY <1>0 DEF SameBut, RsFields
  <1>2. /\ ~rs.boot /\ rs.reading # "push" /\ reqs' = reqs \o ListRequest(rs)
        /\ UNCHANGED <<rulesFile, cfgFile, answers, rulesEvents, statusEvents, waiters, st, snap, dismissed, ctl, faults>>
    BY DEF ensureBoot, files, events
  <1>3. rs' = refetch(w, TRUE)
    BY DEF ensureBoot
  <1> HIDE DEF w
  <1>4. SameBut({"reading"}, w, refetch(w, TRUE)) /\ refetch(w, TRUE).reading = "push"
    BY <1>1, RefetchIs DEF SameBut
  <1>5. SameBut({"sub", "reading"}, rs, rs') /\ rs'.sub /\ rs'.reading = "push"
    BY <1>1, <1>3, <1>4 DEF SameBut, RsFields
  <1> QED BY <1>2, <1>5

\* A mutation is sent, or has to wait.
LEMMA MutationAsked ==
  ASSUME SafeInv, NEW op, applyMutation(op)
  PROVE  \/ rs.lead /\ waiters' = Append(waiters, op) /\ rs' = rs /\ reqs' = reqs
         \/ /\ ~rs.lead /\ waiters' = waiters /\ SameBut({"base", "lead"}, rs, rs') /\ rs'.lead
            /\ rs'.base = (IF rs.base = <<>> /\ rs.boot THEN <<rs.view>> ELSE rs.base)
            /\ \E q : reqs' = Append(reqs, q) /\ q.to = "rules" /\ q.op = op /\ q.lead
  <1>0. DOMAIN rs = RsFields
    BY DEF SafeInv, Guarded
  <1>1. CASE rs.lead
    BY <1>1 DEF applyMutation
  <1>2. CASE ~rs.lead
    <2> DEFINE w == [captureRevertBaseline(rs) EXCEPT !.lead = TRUE]
               q == MutationRequest(op, TRUE)
    <2>1. rs' = w /\ reqs' = Append(reqs, q) /\ waiters' = waiters
      BY <1>2 DEF applyMutation
    <2>2. /\ SameBut({"base"}, rs, captureRevertBaseline(rs))
          /\ captureRevertBaseline(rs).base = IF rs.base = <<>> /\ rs.boot THEN <<rs.view>> ELSE rs.base
      BY <1>0, CaptureIs
    <2>3. SameBut({"lead"}, captureRevertBaseline(rs), w) /\ w.lead = TRUE
      BY <2>2 DEF SameBut, RsFields
    <2>4. q.to = "rules" /\ q.op = op /\ q.lead = TRUE
      BY DEF MutationRequest
    <2> HIDE DEF w, q
    <2>5. /\ SameBut({"base", "lead"}, rs, w) /\ w.lead
          /\ w.base = IF rs.base = <<>> /\ rs.boot THEN <<rs.view>> ELSE rs.base
      BY <2>2, <2>3 DEF SameBut, RsFields
    <2>6. q.lead
      BY <2>4
    <2> QED BY <1>2, <2>1, <2>4, <2>5, <2>6
  <1> QED BY <1>1, <1>2

---------------------------------------------------------------------------
(* The two stores share the channel and nothing else                       *)

\* A step that handles no message to the handlers of K and sends them none.
Passing(K) ==
  \/ UNCHANGED <<reqs, answers>>
  \/ \E i \in Takable(reqs) : \E x :
       /\ reqs' = RemoveAt(reqs, i) /\ answers' = Append(answers, x)
       /\ x.to = reqs[i].to /\ x.to \notin K /\ (x.to = "update" => x.flush = reqs[i].flush)
  \/ \E t :
       /\ IsSeq(t) /\ (\A q \in ToSet(t) : q.to \notin K) /\ reqs' = reqs \o t
       /\ \/ answers' = answers
          \/ \E i \in Takable(answers) : answers[i].to \notin K /\ answers' = RemoveAt(answers, i)

\* It leaves their messages where they are.
LEMMA PassingBy ==
  ASSUME SafeInv, NEW K, Passing(K)
  PROVE  Untouched(reqs, answers, reqs', answers', K)
  <1>0. IsSeq(reqs) /\ IsSeq(answers)
    BY DEF SafeInv, Sent, Answered
  <1>1. CASE UNCHANGED <<reqs, answers>>
    BY <1>1 DEF Untouched
  <1>2. CASE \E i \in Takable(reqs) : \E x :
               /\ reqs' = RemoveAt(reqs, i) /\ answers' = Append(answers, x)
               /\ x.to = reqs[i].to /\ x.to \notin K /\ (x.to = "update" => x.flush = reqs[i].flush)
    <2>1. PICK i \in DOMAIN reqs : \E x :
               /\ reqs' = RemoveAt(reqs, i) /\ answers' = Append(answers, x)
               /\ x.to = reqs[i].to /\ x.to \notin K /\ (x.to = "update" => x.flush = reqs[i].flush)
      BY <1>2 DEF Takable
    <2>2. PICK x : /\ reqs' = RemoveAt(reqs, i) /\ answers' = Append(answers, x)
                   /\ x.to = reqs[i].to /\ x.to \notin K /\ (x.to = "update" => x.flush = reqs[i].flush)
      BY <2>1
    <2>3. Untouched(reqs, answers, RemoveAt(reqs, i), Append(answers, x), K)
      BY <1>0, <2>2, ServedElsewhere
    <2> QED BY <2>2, <2>3
  <1>3. CASE \E t :
               /\ IsSeq(t) /\ (\A q \in ToSet(t) : q.to \notin K) /\ reqs' = reqs \o t
               /\ \/ answers' = answers
                  \/ \E i \in Takable(answers) : answers[i].to \notin K /\ answers' = RemoveAt(answers, i)
    <2>1. PICK t :
               /\ IsSeq(t) /\ (\A q \in ToSet(t) : q.to \notin K) /\ reqs' = reqs \o t
               /\ \/ answers' = answers
                  \/ \E i \in Takable(answers) : answers[i].to \notin K /\ answers' = RemoveAt(answers, i)
      BY <1>3
    <2>2. CASE answers' = answers
      <3>1. Untouched(reqs, answers, reqs \o t, answers, K)
        BY <1>0, <2>1, SentElsewhere
      <3> QED BY <2>1, <2>2, <3>1
    <2>3. CASE \E i \in Takable(answers) : answers[i].to \notin K /\ answers' = RemoveAt(answers, i)
      <3>1. PICK i \in DOMAIN answers : answers[i].to \notin K /\ answers' = RemoveAt(answers, i)
        BY <2>3 DEF Takable
      <3>2. Untouched(reqs, answers, reqs \o t, RemoveAt(answers, i), K)
        BY <1>0, <2>1, <3>1, TakenElsewhere
      <3> QED BY <2>1, <3>1, <3>2
    <2> QED BY <2>1, <2>2, <2>3
  <1> QED BY <1>1, <1>2, <1>3 DEF Passing

\* In order, the answer that is taken is the first.
LEMMA FirstTaken ==
  ASSUME "reorder" \notin faults, NEW i \in Takable(answers) PROVE i = 1 /\ 1 \in DOMAIN answers
  BY DEF Takable

\* It leaves the answers to the others in their order.
LEMMA PassingInOrder ==
  ASSUME SafeInv, NEW K, Passing(K), "reorder" \notin faults
  PROVE  /\ {"rules", "list"} \subseteq K => \A v : Repaired(answers, v) => Repaired(answers', v)
         /\ {"update", "get"} \subseteq K => \A v : Updated(answers, v) => Updated(answers', v)
  <1>0. IsSeq(answers)
    BY DEF SafeInv, Answered
  <1>1. answers' = answers \/ (1 \in DOMAIN answers /\ answers' = RemoveAt(answers, 1))
        \/ \E x : answers' = Append(answers, x) /\ x.to \notin K
    <2>1. ASSUME NEW i \in Takable(answers), answers' = RemoveAt(answers, i)
          PROVE  1 \in DOMAIN answers /\ answers' = RemoveAt(answers, 1)
      BY <2>1, FirstTaken
    <2> QED BY <2>1 DEF Passing
  <1>2. CASE answers' = answers
    BY <1>2
  <1>3. CASE 1 \in DOMAIN answers /\ answers' = RemoveAt(answers, 1)
    BY <1>0, <1>3, RepairedTail, UpdatedTail
  <1>4. CASE \E x : answers' = Append(answers, x) /\ x.to \notin K
    <2>1. PICK x : answers' = Append(answers, x) /\ x.to \notin K
      BY <1>4
    <2>2. ASSUME {"rules", "list"} \subseteq K, NEW v, Repaired(answers, v) PROVE Repaired(answers', v)
      <3>1. ~Reading(x)
        BY <2>1, <2>2 DEF Reading
      <3>2. Repaired(Append(answers, x), v)
        BY <1>0, <2>2, <3>1, RepairedMore
      <3> QED BY <2>1, <3>2
    <2>3. ASSUME {"update", "get"} \subseteq K, NEW v, Updated(answers, v) PROVE Updated(answers', v)
      <3>1. x.to # "get"
        BY <2>1, <2>3
      <3>2. Updated(Append(answers, x), v)
        BY <1>0, <2>3, <3>1, UpdatedMore
      <3> QED BY <2>1, <3>2
    <2> QED BY <2>2, <2>3
  <1> QED BY <1>1, <1>2, <1>3, <1>4

\* The steps that concern the rules, those of the settings, and the others.
RulesSteps ==
  \/ \E i \in Takable(reqs) : HandleRules(i) \/ HandleList(i)
  \/ \E i \in Takable(answers) : MutationAnswered(i) \/ Refetched(i)
  \/ RulesChanged \/ ensureBoot \/ EditRules \/ Dismiss

\* The steps of the settings page and of its handlers.
SettingsSteps ==
  \/ \E i \in Takable(reqs) : HandleUpdate(i) \/ HandleGet(i)
  \/ \E i \in Takable(answers) : UpdateAnswered(i) \/ GetAnswered(i)
  \/ flushSettings \/ PickMode \/ loadFromBackend \/ \E k \in EditKeys : \E v \in Inputs(k) : EditSetting(k, v)

\* The steps of the controller and of the toast, and none at all.
OtherSteps ==
  rulesExportGroup \/ Connect \/ ReadNetwork \/ buildConfigs \/ Disconnect \/ Reconnect \/ StatusEvent \/ UNCHANGED vars

\* Every step is one of these.
LEMMA StepKinds == ASSUME [Next]_vars PROVE RulesSteps \/ SettingsSteps \/ OtherSteps
  BY DEF Next, Bridge, Interface, User, RulesSteps, SettingsSteps, OtherSteps

\* The requests of the settings page.
LEMMA FlushSends ==
  ASSUME flushSettings
  PROVE  \E t : /\ IsSeq(t) /\ reqs' = reqs \o t
                /\ \A q \in ToSet(t) : q.to = "update" /\ q.flush = st.flushed + 1
                /\ Len(t) = Len(SetToSeq(frontendToBackend(st.pend)))
                /\ \A q \in ToSet(t) : \E p \in frontendToBackend(st.pend) : q.section = p[1] /\ q.patch = p[2]
  <1> DEFINE parts == SetToSeq(frontendToBackend(st.pend))
             n     == st.flushed + 1
             t     == [j \in 1..Len(parts) |->
                        [to |-> "update", flush |-> n, section |-> parts[j][1], patch |-> parts[j][2]]]
  <1>1. reqs' = reqs \o t
    BY DEF flushSettings
  <1>2. Len(parts) \in Nat /\ parts \in [1..Len(parts) -> frontendToBackend(st.pend)]
    BY PartsSeq
  <1> HIDE DEF parts
  <1>3. DOMAIN t = 1..Len(parts) /\ t = [j \in 1..Len(parts) |-> t[j]]
        /\ \A j \in 1..Len(parts) : t[j].to = "update" /\ t[j].flush = n /\ t[j].section = parts[j][1] /\ t[j].patch = parts[j][2]
    OBVIOUS
  <1> HIDE DEF t
  <1>4. IsSeq(t) /\ Len(t) = Len(parts)
    BY <1>2, <1>3, MapSeq
  <1>5. \A j \in 1..Len(parts) : parts[j] \in frontendToBackend(st.pend)
    BY <1>2
  <1>6. \A q \in ToSet(t) : q.to = "update" /\ q.flush = n
    BY <1>3 DEF ToSet
  <1>7. \A q \in ToSet(t) : \E p \in frontendToBackend(st.pend) : q.section = p[1] /\ q.patch = p[2]
    BY <1>3, <1>5 DEF ToSet
  <1> QED BY <1>1, <1>4, <1>6, <1>7 DEF parts

\* Nothing is sent.
LEMMA NothingSent == ASSUME NEW s, IsSeq(s) PROVE s \o <<>> = s /\ IsSeq(<<>>) /\ ToSet(<<>>) = {}
  <1>1. PICK S : s \in Seq(S)
    BY DEF IsSeq
  <1>2. s \o <<>> = s
    BY <1>1
  <1> QED BY <1>2, NoSeq

\* One request is sent.
LEMMA OneSent ==
  ASSUME SafeInv, NEW q, NEW K, q.to \notin K, reqs' = Append(reqs, q), answers' = answers PROVE Passing(K)
  <1>1. IsSeq(reqs)
    BY DEF SafeInv, Sent
  <1>2. Append(reqs, q) = reqs \o <<q>> /\ IsSeq(<<q>>) /\ ToSet(<<q>>) = {q}
    BY <1>1, AppendIs, SingleSeq
  <1>3. \E t : IsSeq(t) /\ (\A x \in ToSet(t) : x.to \notin K) /\ reqs' = reqs \o t
    BY <1>2
  <1> QED BY <1>3 DEF Passing

\* The settings page and its handlers leave the rules alone.
LEMMA SettingsPass ==
  ASSUME SafeInv, SettingsSteps
  PROVE  /\ Passing({"rules", "list"})
         /\ UNCHANGED <<rulesFile, rulesEvents, statusEvents, rs, waiters, snap, ctl, faults>>
  <1>0. IsSeq(reqs) /\ IsSeq(answers) /\ reqs \o <<>> = reqs /\ IsSeq(<<>>) /\ ToSet(<<>>) = {}
    BY NothingSent DEF SafeInv, Sent, Answered
  <1> DEFINE K == {"rules", "list"}
  <1>1. CASE \E i \in Takable(reqs) : HandleUpdate(i)
    <2>1. PICK i \in Takable(reqs) : HandleUpdate(i)
      BY <1>1
    <2> DEFINE x == [to |-> "update", flush |-> reqs[i].flush]
    <2>2. x.to = "update" /\ x.flush = reqs[i].flush
      OBVIOUS
    <2>3. reqs[i].to = "update" /\ reqs' = RemoveAt(reqs, i) /\ answers' = Append(answers, x)
      BY <2>1 DEF HandleUpdate
    <2> HIDE DEF x
    <2>4. Passing(K)
      BY <2>2, <2>3 DEF Passing
    <2> QED BY <2>1, <2>4 DEF HandleUpdate, events, ui
  <1>2. CASE \E i \in Takable(reqs) : HandleGet(i)
    <2>1. PICK i \in Takable(reqs) : HandleGet(i)
      BY <1>2
    <2>2. PICK ok : answers' = Append(answers, [to |-> "get", why |-> reqs[i].why, ok |-> ok, view |-> toView(cfgFile)])
      BY <2>1 DEF HandleGet
    <2> DEFINE x == [to |-> "get", why |-> reqs[i].why, ok |-> ok, view |-> toView(cfgFile)]
    <2>3. x.to = "get" /\ answers' = Append(answers, x)
      BY <2>2
    <2> HIDE DEF x
    <2>4. reqs[i].to = "get" /\ reqs' = RemoveAt(reqs, i)
      BY <2>1 DEF HandleGet
    <2>5. Passing(K)
      BY <2>3, <2>4 DEF Passing
    <2> QED BY <2>1, <2>5 DEF HandleGet, files, events, ui
  <1>3. CASE \E i \in Takable(answers) : UpdateAnswered(i)
    <2>1. PICK i \in Takable(answers) : UpdateAnswered(i)
      BY <1>3
    <2>2. answers[i].to = "update" /\ answers' = RemoveAt(answers, i)
          /\ (reqs' = reqs \/ \E s : reqs' = reqs \o ReadBack(s))
      BY <2>1 DEF UpdateAnswered
    <2>3. \A s : IsSeq(ReadBack(s)) /\ \A q \in ToSet(ReadBack(s)) : q.to = "get"
      <3>1. GetRequest("flush").to = "get"
        BY DEF GetRequest
      <3>2. IsSeq(<<GetRequest("flush")>>) /\ ToSet(<<GetRequest("flush")>>) = {GetRequest("flush")}
        BY SingleSeq
      <3> QED BY <1>0, <3>1, <3>2 DEF ReadBack
    <2>4. \E t : IsSeq(t) /\ (\A q \in ToSet(t) : q.to \notin K) /\ reqs' = reqs \o t
      <3>1. CASE reqs' = reqs
        BY <1>0, <3>1
      <3>2. CASE \E s : reqs' = reqs \o ReadBack(s)
        BY <2>3, <3>2
      <3> QED BY <2>2, <3>1, <3>2
    <2>5. Passing(K)
      BY <2>2, <2>4 DEF Passing
    <2> QED BY <2>1, <2>5 DEF UpdateAnswered, files, events
  <1>4. CASE \E i \in Takable(answers) : GetAnswered(i)
    <2>1. PICK i \in Takable(answers) : GetAnswered(i)
      BY <1>4
    <2>2. answers[i].to = "get" /\ answers' = RemoveAt(answers, i) /\ reqs' = reqs
      BY <2>1 DEF GetAnswered
    <2>3. Passing(K)
      BY <1>0, <2>2 DEF Passing
    <2> QED BY <2>1, <2>3 DEF GetAnswered, files, events
  <1>5. CASE flushSettings
    <2>1. \E t : IsSeq(t) /\ (\A q \in ToSet(t) : q.to \notin K) /\ reqs' = reqs \o t
      BY <1>5, FlushSends
    <2>2. Passing(K)
      BY <1>5, <2>1 DEF Passing, flushSettings
    <2> QED BY <1>5, <2>2 DEF flushSettings, files, events
  <1>6. CASE PickMode
    <2>1. PICK mode : reqs' = Append(reqs, [to |-> "update", flush |-> 0, section |-> "network",
                                            patch |-> [k \in {"defaultMode"} |-> mode]])
      BY <1>6 DEF PickMode
    <2> DEFINE q == [to |-> "update", flush |-> 0, section |-> "network", patch |-> [k \in {"defaultMode"} |-> mode]]
    <2>2. q.to = "update" /\ reqs' = Append(reqs, q)
      BY <2>1
    <2> HIDE DEF q
    <2>3. answers' = answers /\ UNCHANGED <<rulesFile, rulesEvents, statusEvents, rs, waiters, snap, ctl, faults>>
      BY <1>6 DEF PickMode, files, events, ui
    <2>4. q.to \notin K
      BY <2>2
    <2>5. Passing(K)
      BY <2>2, <2>3, <2>4, OneSent
    <2> QED BY <2>3, <2>5
  <1>7. CASE loadFromBackend
    <2>1. PICK q : q = GetRequest("boot")
      OBVIOUS
    <2>2. q.to = "get" /\ reqs' = Append(reqs, q)
      BY <1>7, <2>1 DEF loadFromBackend, GetRequest
    <2>3. answers' = answers /\ UNCHANGED <<rulesFile, rulesEvents, statusEvents, rs, waiters, snap, ctl, faults>>
      BY <1>7 DEF loadFromBackend, files, events
    <2>4. q.to \notin K
      BY <2>2
    <2>5. Passing(K)
      BY <2>2, <2>3, <2>4, OneSent
    <2> QED BY <2>3, <2>5
  <1>8. CASE \E k \in EditKeys : \E v \in Inputs(k) : EditSetting(k, v)
    BY <1>8 DEF EditSetting, Passing, files, channel, events
  <1> QED BY <1>1, <1>2, <1>3, <1>4, <1>5, <1>6, <1>7, <1>8 DEF SettingsSteps

\* The others use no channel.
LEMMA OthersPass ==
  ASSUME SafeInv, OtherSteps
  PROVE  /\ UNCHANGED <<rulesFile, cfgFile, reqs, answers, rulesEvents, waiters, st, faults>>
         /\ rs' = rs \/ (StatusEvent /\ SameBut({"base"}, rs, rs') /\ rs'.base = <<>>)
  <1>0. DOMAIN rs = RsFields
    BY DEF SafeInv, Guarded
  <1>1. CASE rulesExportGroup \/ Connect \/ ReadNetwork \/ buildConfigs \/ Disconnect \/ Reconnect \/ UNCHANGED vars
    BY <1>1 DEF rulesExportGroup, Connect, ReadNetwork, buildConfigs, Disconnect, Reconnect, vars, files, channel, events, ui
  <1>2. CASE StatusEvent
    <2> DEFINE w == [rs EXCEPT !.base = <<>>]
    <2>1. SameBut({"base"}, rs, w) /\ w.base = <<>>
      BY <1>0 DEF SameBut, RsFields
    <2>2. rs' = rs \/ rs' = w
      BY <1>2 DEF StatusEvent, clearRulesRevertBaseline
    <2> HIDE DEF w
    <2>3. UNCHANGED <<rulesFile, cfgFile, reqs, answers, rulesEvents, waiters, st, faults>>
      BY <1>2 DEF StatusEvent, files, channel
    <2> QED BY <1>2, <2>1, <2>2, <2>3
  <1> QED BY <1>1, <1>2 DEF OtherSteps

\* The Routing page and its handlers leave the settings alone.
LEMMA RulesPass ==
  ASSUME SafeInv, RulesTyped, RulesSteps
  PROVE  Passing({"update", "get"}) /\ UNCHANGED <<cfgFile, st, ctl, statusEvents, faults>>
  <1>0. IsSeq(reqs) /\ IsSeq(answers) /\ reqs \o <<>> = reqs /\ IsSeq(<<>>) /\ ToSet(<<>>) = {}
    BY NothingSent DEF SafeInv, Sent, Answered
  <1> DEFINE K == {"update", "get"}
  <1>1. CASE \E i \in Takable(reqs) : HandleRules(i) \/ HandleList(i)
    <2>1. PICK i \in Takable(reqs) : HandleRules(i) \/ HandleList(i)
      BY <1>1
    <2>2. i \in DOMAIN reqs
      BY DEF Takable
    <2>3. reqs[i].to \notin K /\ reqs' = RemoveAt(reqs, i) /\ UNCHANGED <<cfgFile, st, ctl, statusEvents, faults>>
          /\ \E x : answers' = Append(answers, x) /\ x.to = reqs[i].to
      <3>1. CASE HandleRules(i)
        BY <2>2, <3>1, RulesServed
      <3>2. CASE HandleList(i)
        BY <2>2, <3>2, ListServed
      <3> QED BY <2>1, <3>1, <3>2
    <2>4. Passing(K)
      BY <2>3 DEF Passing
    <2> QED BY <2>3, <2>4
  <1>2. CASE \E i \in Takable(answers) : MutationAnswered(i)
    <2>1. PICK i \in Takable(answers) : MutationAnswered(i)
      BY <1>2
    <2>2. PICK a : a = answers[i] /\ i \in DOMAIN answers
      BY DEF Takable
    <2>3. a.to = "rules" /\ answers' = RemoveAt(answers, i) /\ UNCHANGED <<cfgFile, st, ctl, statusEvents, faults>>
          /\ \E t : SentAfter(a, t)
      BY <2>1, <2>2, MutationTaken
    <2>4. PICK t : SentAfter(a, t)
      BY <2>3
    <2>5. IsSeq(t) /\ reqs' = reqs \o t /\ \A q \in ToSet(t) : q.to \notin K
      BY <2>4 DEF SentAfter
    <2>6. answers[i].to \notin K
      BY <2>2, <2>3
    <2>7. Passing(K)
      BY <2>3, <2>5, <2>6 DEF Passing
    <2> QED BY <2>3, <2>7
  <1>3. CASE \E i \in Takable(answers) : Refetched(i)
    <2>1. PICK i \in Takable(answers) : Refetched(i)
      BY <1>3
    <2>2. PICK a : a = answers[i] /\ i \in DOMAIN answers
      BY DEF Takable
    <2>3. a.to = "list" /\ answers' = RemoveAt(answers, i) /\ reqs' = reqs /\ UNCHANGED <<cfgFile, st, ctl, statusEvents, faults>>
      BY <2>1, <2>2, ListTaken
    <2>4. answers[i].to \notin K /\ reqs' = reqs \o <<>>
      BY <1>0, <2>2, <2>3
    <2>5. Passing(K)
      BY <1>0, <2>3, <2>4 DEF Passing
    <2> QED BY <2>3, <2>5
  <1>4. CASE RulesChanged \/ ensureBoot
    <2>1. /\ UNCHANGED <<cfgFile, st, ctl, statusEvents, faults, answers>>
          /\ reqs' = reqs \/ reqs' = reqs \o ListRequest(rs)
      BY <1>4, EventTaken, BootAsked
    <2>2. IsSeq(ListRequest(rs)) /\ \A q \in ToSet(ListRequest(rs)) : q.to \notin K
      BY ListAsked
    <2>3. Passing(K)
      BY <2>1, <2>2 DEF Passing
    <2> QED BY <2>1, <2>3
  <1>5. CASE EditRules \/ Dismiss
    <2>1. UNCHANGED <<cfgFile, st, ctl, statusEvents, faults, answers>>
      BY <1>5 DEF EditRules, Dismiss, files, events
    <2>2. reqs' = reqs \/ \E op : applyMutation(op)
      BY <1>5 DEF EditRules, Dismiss
    <2>3. reqs' = reqs \/ \E q : reqs' = Append(reqs, q) /\ q.to = "rules"
      BY <2>2, MutationAsked
    <2>4. CASE reqs' = reqs
      BY <2>1, <2>4 DEF Passing
    <2>5. CASE \E q : reqs' = Append(reqs, q) /\ q.to = "rules"
      <3>1. PICK q : reqs' = Append(reqs, q) /\ q.to = "rules"
        BY <2>5
      <3>2. q.to \notin K
        BY <3>1
      <3>3. Passing(K)
        BY <2>1, <3>1, <3>2, OneSent
      <3> QED BY <2>1, <3>3
    <2> QED BY <2>3, <2>4, <2>5
  <1> QED BY <1>1, <1>2, <1>3, <1>4, <1>5 DEF RulesSteps

---------------------------------------------------------------------------
(* The mutex and the mark of a read                                        *)

\* The channels after a request is served.
LEMMA ServedMessages ==
  ASSUME SafeInv, NEW i \in DOMAIN reqs, NEW x, reqs' = RemoveAt(reqs, i), answers' = Append(answers, x)
  PROVE  /\ ToSet(reqs') \subseteq ToSet(reqs) /\ \A q \in ToSet(reqs) : q # reqs[i] => q \in ToSet(reqs')
         /\ ToSet(answers') = ToSet(answers) \cup {x}
         /\ IsSeq(reqs) /\ IsSeq(answers)
  <1>1. IsSeq(reqs) /\ IsSeq(answers)
    BY DEF SafeInv, Sent, Answered
  <1>2. i \in 1..Len(reqs)
    BY <1>1, SeqFacts
  <1> QED BY <1>1, <1>2, RemoveSeq, AppendSeq

\* The channels after requests are sent.
LEMMA SentMessages ==
  ASSUME SafeInv, NEW t, IsSeq(t), reqs' = reqs \o t
  PROVE  ToSet(reqs') = ToSet(reqs) \cup ToSet(t) /\ IsSeq(reqs) /\ IsSeq(answers)
  <1>1. IsSeq(reqs) /\ IsSeq(answers)
    BY DEF SafeInv, Sent, Answered
  <1> QED BY <1>1, ConcatSeq

\* The answers after one is taken.
LEMMA TakenMessages ==
  ASSUME SafeInv, NEW i \in DOMAIN answers, answers' = RemoveAt(answers, i)
  PROVE  /\ ToSet(answers') \subseteq ToSet(answers)
         /\ \A q \in ToSet(answers) : q # answers[i] => q \in ToSet(answers')
  <1>1. IsSeq(reqs) /\ IsSeq(answers)
    BY DEF SafeInv, Sent, Answered
  <1>2. i \in 1..Len(answers)
    BY <1>1, SeqFacts
  <1> QED BY <1>1, <1>2, RemoveSeq

\* The read that refetch asks for is counted where it is marked.
LEMMA AskedTotal ==
  ASSUME SafeInv, Held, reqs' = reqs \o ListRequest(rs), answers' = answers
  PROVE  Total(reqs', answers', "list") = 1
  <1> DEFINE t == ListRequest(rs)
  <1>1. IsSeq(t) /\ Cardinality(Under(t, "list")) = IF rs.reading = "no" THEN 1 ELSE 0
    BY ListAsked
  <1>2. IsSeq(reqs) /\ IsSeq(answers)
    BY DEF SafeInv, Sent, Answered
  <1> HIDE DEF t
  <1>3. PICK l : l = "list"
    OBVIOUS
  <1>4. Total(reqs \o t, answers, l) = Total(reqs, answers, l) + Cardinality(Under(t, l))
    BY <1>1, <1>2, SentTotals
  <1>5. Total(reqs, answers, "list") = IF rs.reading = "no" THEN 0 ELSE 1
    BY DEF Held
  <1> QED BY <1>1, <1>3, <1>4, <1>5 DEF t

\* A mutation is sent with the mutex taken, or waits for the one that has it.
LEMMA HeldAsked ==
  ASSUME SafeInv, Held, NEW op, applyMutation(op), answers' = answers
  PROVE  Held'
  <1>1. \/ rs.lead /\ waiters' = Append(waiters, op) /\ rs' = rs /\ reqs' = reqs
        \/ /\ ~rs.lead /\ waiters' = waiters /\ SameBut({"base", "lead"}, rs, rs') /\ rs'.lead
           /\ \E q : reqs' = Append(reqs, q) /\ q.to = "rules" /\ q.op = op /\ q.lead
    BY MutationAsked
  <1>2. CASE rs.lead /\ waiters' = Append(waiters, op) /\ rs' = rs /\ reqs' = reqs
    BY <1>2 DEF Held, Messages
  <1>3. CASE /\ ~rs.lead /\ waiters' = waiters /\ SameBut({"base", "lead"}, rs, rs') /\ rs'.lead
             /\ \E q : reqs' = Append(reqs, q) /\ q.to = "rules" /\ q.op = op /\ q.lead
    <2>1. PICK q : reqs' = Append(reqs, q) /\ q.to = "rules" /\ q.op = op /\ q.lead
      BY <1>3
    <2>2. IsSeq(reqs) /\ IsSeq(answers)
      BY DEF SafeInv, Sent, Answered
    <2>3. PICK t : t = <<q>>
      OBVIOUS
    <2>4. IsSeq(t) /\ reqs' = reqs \o t /\ ToSet(t) = {q}
      BY <2>1, <2>2, <2>3, AppendIs, SingleSeq
    <2>5. ToSet(reqs') = ToSet(reqs) \cup {q}
      BY <2>4, SentMessages
    <2>6. PICK l : l = "list"
      OBVIOUS
    <2>7. Total(reqs', answers', l) = Total(reqs, answers, l)
      BY <2>1, <2>2, <2>4, <2>6, SentTotals
    <2>8. rs'.reading = rs.reading
      BY <1>3 DEF SameBut, RsFields
    <2>9. \E x \in Messages' : x.to = "rules" /\ x.lead
      BY <2>1, <2>5 DEF Messages
    <2>10. waiters' # <<>> => rs'.lead
      BY <1>3
    <2> QED BY <2>6, <2>7, <2>8, <2>9, <2>10 DEF Held
  <1> QED BY <1>1, <1>2, <1>3

\* The mutex and the mark of a read go with their messages.
LEMMA HeldStep == ASSUME SafeInv, RulesTyped, Held, [Next]_vars PROVE Held'
  <1>0. IsSeq(reqs) /\ IsSeq(answers)
    BY DEF SafeInv, Sent, Answered
  <1>1. CASE SettingsSteps
    <2>1. PICK K : K = {"rules", "list"}
      OBVIOUS
    <2>2. Untouched(reqs, answers, reqs', answers', K)
      BY <1>1, <2>1, SettingsPass, PassingBy
    <2>3. UNCHANGED <<rs, waiters>>
      BY <1>1, SettingsPass
    <2> QED BY <2>1, <2>2, <2>3 DEF Held, Messages, Untouched
  <1>2. CASE OtherSteps
    <2>1. UNCHANGED <<reqs, answers, waiters>> /\ (rs' = rs \/ SameBut({"base"}, rs, rs'))
      BY <1>2, OthersPass
    <2>2. rs'.lead = rs.lead /\ rs'.reading = rs.reading
      BY <2>1 DEF SameBut, RsFields
    <2> QED BY <2>1, <2>2 DEF Held, Messages
  <1>3. CASE \E i \in Takable(reqs) : HandleRules(i) \/ HandleList(i)
    <2>1. PICK i \in DOMAIN reqs : HandleRules(i) \/ HandleList(i)
      BY <1>3 DEF Takable
    <2>2. PICK a : /\ reqs' = RemoveAt(reqs, i) /\ answers' = Append(answers, a) /\ a.to = reqs[i].to
                   /\ a.to \in {"rules", "list"} /\ (a.to = "rules" => a.lead = reqs[i].lead)
      <3>1. CASE HandleRules(i)
        BY <3>1, RulesServed
      <3>2. CASE HandleList(i)
        BY <3>2, ListServed
      <3> QED BY <2>1, <3>1, <3>2
    <2>3. UNCHANGED <<rs, waiters>>
      BY <2>1 DEF HandleRules, HandleList, ui
    <2>4. PICK l : l = "list"
      OBVIOUS
    <2>5. a.to # "update"
      BY <2>2
    <2>6. Total(reqs', answers', l) = Total(reqs, answers, l)
      BY <1>0, <2>2, <2>5, ServedTotals
    <2>7. ToSet(answers') = ToSet(answers) \cup {a} /\ \A q \in ToSet(reqs) : q # reqs[i] => q \in ToSet(reqs')
      BY <2>2, ServedMessages
    <2>8. ASSUME NEW q \in Messages, q.to = "rules", q.lead PROVE \E x \in Messages' : x.to = "rules" /\ x.lead
      <3>1. CASE q \in Messages'
        BY <2>8, <3>1
      <3>2. CASE q \notin Messages'
        <4>1. q = reqs[i]
          BY <2>7, <3>2 DEF Messages
        <4> QED BY <2>2, <2>7, <2>8, <4>1 DEF Messages
      <3> QED BY <3>1, <3>2
    <2>9. rs'.lead => \E x \in Messages' : x.to = "rules" /\ x.lead
      BY <2>3, <2>8 DEF Held
    <2> QED BY <2>3, <2>4, <2>6, <2>9 DEF Held
  <1>4. CASE \E i \in Takable(answers) : MutationAnswered(i)
    <2>1. PICK i \in DOMAIN answers : MutationAnswered(i)
      BY <1>4 DEF Takable
    <2>2. PICK a : a = answers[i]
      OBVIOUS
    <2>3. /\ a.to = "rules" /\ answers' = RemoveAt(answers, i)
          /\ waiters' = IF a.lead THEN <<>> ELSE waiters
          /\ rs'.lead <=> rs.lead /\ ~a.lead
          /\ rs'.reading = IF a.ok THEN "push" ELSE rs.reading
      BY <2>1, <2>2, MutationTaken
    <2>4. PICK t : SentAfter(a, t)
      BY <2>1, <2>2, MutationTaken
    <2>5. IsSeq(t) /\ reqs' = reqs \o t /\ Cardinality(Under(t, "list")) = IF a.ok /\ rs.reading = "no" THEN 1 ELSE 0
      BY <2>4 DEF SentAfter
    <2>6. ToSet(reqs') = ToSet(reqs) \cup ToSet(t)
      BY <2>5, SentMessages
    <2>7. \A q \in ToSet(answers) : q # a => q \in ToSet(answers')
      BY <2>2, <2>3, TakenMessages
    <2>8. rs'.lead => \E x \in Messages' : x.to = "rules" /\ x.lead
      <3> SUFFICES ASSUME rs'.lead PROVE \E x \in Messages' : x.to = "rules" /\ x.lead
        OBVIOUS
      <3>1. rs.lead /\ ~a.lead
        BY <2>3
      <3>2. PICK q \in Messages : q.to = "rules" /\ q.lead
        BY <3>1 DEF Held
      <3>3. q # a
        BY <3>1, <3>2
      <3>4. q \in Messages'
        BY <2>6, <2>7, <3>2, <3>3 DEF Messages
      <3> QED BY <3>2, <3>4
    <2>9. waiters' # <<>> => rs'.lead
      BY <2>3 DEF Held
    <2>10. PICK l : l = "list"
      OBVIOUS
    <2>11. PICK b : b = RemoveAt(answers, i)
      OBVIOUS
    <2>12. Total(reqs, answers, l) = Total(reqs, b, l)
      BY <1>0, <2>2, <2>3, <2>10, <2>11, TakenTotals
    <2>13. IsSeq(b)
      BY <1>0, <2>11, SeqFacts, RemoveSeq
    <2>14. Total(reqs \o t, b, l) = Total(reqs, b, l) + Cardinality(Under(t, l)) /\ Total(reqs, b, l) \in Nat
      BY <1>0, <2>5, <2>13, SentTotals
    <2>15. Total(reqs', answers', "list") = IF rs'.reading = "no" THEN 0 ELSE 1
      <3>1. Total(reqs, answers, "list") = IF rs.reading = "no" THEN 0 ELSE 1
        BY DEF Held
      <3> QED BY <2>3, <2>5, <2>10, <2>11, <2>12, <2>14, <3>1
    <2> QED BY <2>8, <2>9, <2>15 DEF Held
  <1>5. CASE \E i \in Takable(answers) : Refetched(i)
    <2>1. PICK i \in DOMAIN answers : Refetched(i)
      BY <1>5 DEF Takable
    <2>2. PICK a : a = answers[i]
      OBVIOUS
    <2>3. /\ a.to = "list" /\ answers' = RemoveAt(answers, i) /\ reqs' = reqs /\ waiters' = waiters
          /\ SameBut({"view", "boot", "reading", "sig"}, rs, rs') /\ rs'.reading = "no"
      BY <2>1, <2>2, ListTaken
    <2>4. rs'.lead = rs.lead
      BY <2>3 DEF SameBut, RsFields
    <2>5. \A q \in ToSet(answers) : q # a => q \in ToSet(answers')
      BY <2>2, <2>3, TakenMessages
    <2>6. rs'.lead => \E x \in Messages' : x.to = "rules" /\ x.lead
      BY <2>3, <2>4, <2>5 DEF Held, Messages
    <2>7. PICK l : l = "list"
      OBVIOUS
    <2>8. Total(reqs, answers, l) = Total(reqs, RemoveAt(answers, i), l) + 1 /\ Total(reqs, RemoveAt(answers, i), l) \in Nat
      BY <1>0, <2>2, <2>3, <2>7, TakenTotals
    <2>9. Total(reqs', answers', "list") = 0
      <3>1. Total(reqs, answers, "list") \in {0, 1}
        BY DEF Held
      <3> QED BY <2>3, <2>7, <2>8, <3>1
    <2> QED BY <2>3, <2>4, <2>6, <2>9 DEF Held
  <1>6. CASE RulesChanged \/ ensureBoot
    <2>1. /\ UNCHANGED <<answers, waiters>> /\ rs'.lead = rs.lead
          /\ \/ reqs' = reqs /\ rs'.reading = rs.reading
             \/ reqs' = reqs \o ListRequest(rs) /\ rs'.reading # "no"
      BY <1>6, EventTaken, BootAsked DEF SameBut, RsFields
    <2>2. CASE reqs' = reqs /\ rs'.reading = rs.reading
      BY <2>1, <2>2 DEF Held, Messages
    <2>3. CASE reqs' = reqs \o ListRequest(rs) /\ rs'.reading # "no"
      <3>1. Total(reqs', answers', "list") = 1
        BY <2>1, <2>3, AskedTotal
      <3>2. ToSet(reqs) \subseteq ToSet(reqs')
        BY <2>3, ListAsked, SentMessages
      <3> QED BY <2>1, <2>3, <3>1, <3>2 DEF Held, Messages
    <2> QED BY <2>1, <2>2, <2>3
  <1>7. CASE EditRules \/ Dismiss
    <2>1. answers' = answers
      BY <1>7 DEF EditRules, Dismiss
    <2>2. UNCHANGED <<rs, reqs, waiters>> \/ \E op : applyMutation(op)
      BY <1>7 DEF EditRules, Dismiss
    <2>3. CASE UNCHANGED <<rs, reqs, waiters>>
      BY <2>1, <2>3 DEF Held, Messages
    <2>4. CASE \E op : applyMutation(op)
      BY <2>1, <2>4, HeldAsked
    <2> QED BY <2>2, <2>3, <2>4
  <1> QED BY <1>1, <1>2, <1>3, <1>4, <1>5, <1>6, <1>7, StepKinds DEF RulesSteps

---------------------------------------------------------------------------
(* A page that lags behind is told                                         *)

\* A read that is marked is on its way.
LEMMA ReadUnderWay ==
  ASSUME SafeInv, Held
  PROVE  /\ rs.reading # "no" => \E q \in Messages : Reading(q)
         /\ rs.reading = "no" => \A q \in Messages : ~Reading(q)
  <1>1. IsSeq(reqs) /\ IsSeq(answers)
    BY DEF SafeInv, Sent, Answered
  <1>2. PICK l : l = "list"
    OBVIOUS
  <1>3. PICK m, n : m = Cardinality(Under(reqs, l)) /\ n = Cardinality(Under(answers, l))
    OBVIOUS
  <1>4. /\ m \in Nat /\ (m = 0 <=> \A x \in ToSet(reqs) : x.to # l)
        /\ n \in Nat /\ (n = 0 <=> \A x \in ToSet(answers) : x.to # l)
    BY <1>1, <1>3, NoneOf
  <1>5. m + n = IF rs.reading = "no" THEN 0 ELSE 1
    BY <1>2, <1>3 DEF Held, Total
  <1>6. rs.reading # "no" => m # 0 \/ n # 0
    BY <1>4, <1>5
  <1>7. rs.reading = "no" => m = 0 /\ n = 0
    BY <1>4, <1>5
  <1> QED BY <1>2, <1>4, <1>6, <1>7 DEF Messages, Reading

\* The page lags as before, and the messages that tell it are still there.
LEMMA LaggingOn ==
  ASSUME Lagging, UNCHANGED <<rs.boot, rs.view, rulesFile>>,
         (\E q \in Messages : Reading(q)) => \E x \in Messages' : Reading(x),
         \A q \in ToSet(answers) : Wrote(q) => q \in ToSet(answers') \/ \E x \in Messages' : Reading(x)
  PROVE  Lagging'
  BY DEF Lagging, Messages

\* Serving, answering and asking leave a page that lags with what tells it: only a read
\* that has come may take that away.
LEMMA LaggingStep ==
  ASSUME SafeInv, RulesTyped, Held, Held', SafeInv', Lagging, [Next]_vars,
         ~\E i \in Takable(answers) : Refetched(i)
  PROVE  Lagging'
  <1>0. rs'.reading # "no" => \E x \in Messages' : Reading(x)
    <2>1. (SafeInv /\ Held => (rs.reading # "no" => \E q \in Messages : Reading(q)))'
      BY ReadUnderWay, PTL
    <2> QED BY <2>1
  <1>1. CASE SettingsSteps
    <2>1. PICK K : K = {"rules", "list"}
      OBVIOUS
    <2>2. Untouched(reqs, answers, reqs', answers', K)
      BY <1>1, <2>1, SettingsPass, PassingBy
    <2>3. UNCHANGED <<rs, rulesFile>>
      BY <1>1, SettingsPass
    <2>4. \A q : Reading(q) \/ Wrote(q) => q.to \in K
      BY <2>1 DEF Reading, Wrote
    <2> QED BY <2>2, <2>3, <2>4 DEF Lagging, Messages, Untouched
  <1>2. CASE OtherSteps
    <2>1. UNCHANGED <<reqs, answers, rulesFile>> /\ (rs' = rs \/ SameBut({"base"}, rs, rs'))
      BY <1>2, OthersPass
    <2>2. rs'.boot = rs.boot /\ rs'.view = rs.view
      BY <2>1 DEF SameBut, RsFields
    <2> QED BY <2>1, <2>2 DEF Lagging, Messages
  <1>3. CASE \E i \in Takable(reqs) : HandleRules(i)
    <2>1. PICK i \in DOMAIN reqs : HandleRules(i)
      BY <1>3 DEF Takable
    <2>2. reqs[i].to = "rules" /\ reqs' = RemoveAt(reqs, i) /\ rs' = rs
      BY <2>1, RulesServed
    <2>3. PICK a : /\ answers' = Append(answers, a) /\ a.to = "rules" /\ a.ok \in BOOLEAN
                   /\ (~a.ok => rulesFile' = rulesFile)
      BY <2>1, RulesServed
    <2>4. ToSet(answers') = ToSet(answers) \cup {a} /\ \A q \in ToSet(reqs) : q # reqs[i] => q \in ToSet(reqs')
      BY <2>2, <2>3, ServedMessages
    <2>5. CASE a.ok
      BY <2>3, <2>4, <2>5 DEF Lagging, Messages, Wrote
    <2>6. CASE ~a.ok
      <3>1. \A q \in Messages : Reading(q) => q \in Messages'
        BY <2>2, <2>4 DEF Messages, Reading
      <3> QED BY <2>2, <2>3, <2>4, <2>6, <3>1, LaggingOn
    <2> QED BY <2>3, <2>5, <2>6
  <1>4. CASE \E i \in Takable(reqs) : HandleList(i)
    <2>1. PICK i \in DOMAIN reqs : HandleList(i)
      BY <1>4 DEF Takable
    <2>2. reqs[i].to = "list" /\ reqs' = RemoveAt(reqs, i) /\ rs' = rs /\ rulesFile' = rulesFile
      BY <2>1, ListServed
    <2>3. PICK a : answers' = Append(answers, a) /\ a.to = "list"
      BY <2>1, ListServed
    <2>4. ToSet(answers') = ToSet(answers) \cup {a}
      BY <2>2, <2>3, ServedMessages
    <2>5. a \in Messages' /\ Reading(a)
      BY <2>3, <2>4 DEF Messages, Reading
    <2> QED BY <2>2, <2>4, <2>5, LaggingOn
  <1>5. CASE \E i \in Takable(answers) : MutationAnswered(i)
    <2>1. PICK i \in DOMAIN answers : MutationAnswered(i)
      BY <1>5 DEF Takable
    <2>2. PICK a : a = answers[i]
      OBVIOUS
    <2>3. /\ a.to = "rules" /\ answers' = RemoveAt(answers, i) /\ rulesFile' = rulesFile
          /\ SameBut({"lead", "reading", "echoes", "base"}, rs, rs')
          /\ rs'.reading = IF a.ok THEN "push" ELSE rs.reading
      BY <2>1, <2>2, MutationTaken
    <2>4. PICK t : SentAfter(a, t)
      BY <2>1, <2>2, MutationTaken
    <2>5. ToSet(reqs') = ToSet(reqs) \cup ToSet(t)
      BY <2>4, SentMessages DEF SentAfter
    <2>6. \A q \in ToSet(answers) : q # a => q \in ToSet(answers')
      BY <2>2, <2>3, TakenMessages
    <2>7. UNCHANGED <<rs.boot, rs.view, rulesFile>>
      BY <2>3 DEF SameBut, RsFields
    <2>8. \A q \in Messages : Reading(q) => q \in Messages'
      BY <2>3, <2>5, <2>6 DEF Messages, Reading
    <2>9. Wrote(a) => \E x \in Messages' : Reading(x)
      BY <1>0, <2>3 DEF Wrote
    <2>10. \A q \in ToSet(answers) : Wrote(q) => q \in ToSet(answers') \/ \E x \in Messages' : Reading(x)
      BY <2>6, <2>9
    <2> QED BY <2>7, <2>8, <2>10, LaggingOn
  <1>6. CASE RulesChanged \/ ensureBoot
    <2>1. /\ UNCHANGED <<answers, rs.boot, rs.view, rulesFile>>
          /\ reqs' = reqs \/ reqs' = reqs \o ListRequest(rs)
      BY <1>6, EventTaken, BootAsked DEF SameBut, RsFields
    <2>2. ToSet(reqs) \subseteq ToSet(reqs')
      BY <2>1, ListAsked, SentMessages
    <2> QED BY <2>1, <2>2 DEF Lagging, Messages
  <1>7. CASE EditRules \/ Dismiss
    <2>1. answers' = answers /\ rulesFile' = rulesFile
      BY <1>7 DEF EditRules, Dismiss, files
    <2>2. UNCHANGED <<rs, reqs, waiters>> \/ \E op : applyMutation(op)
      BY <1>7 DEF EditRules, Dismiss
    <2>3. CASE UNCHANGED <<rs, reqs, waiters>>
      BY <2>1, <2>3 DEF Lagging, Messages
    <2>4. CASE \E op : applyMutation(op)
      <3>1. UNCHANGED <<rs.boot, rs.view>> /\ (reqs' = reqs \/ \E q : reqs' = Append(reqs, q))
        BY <2>4, MutationAsked DEF SameBut, RsFields
      <3>2. ToSet(reqs) \subseteq ToSet(reqs')
        BY <3>1, AppendSeq DEF SafeInv, Sent
      <3> QED BY <2>1, <3>1, <3>2 DEF Lagging, Messages
    <2> QED BY <2>2, <2>3, <2>4
  <1> QED BY <1>1, <1>2, <1>3, <1>4, <1>5, <1>6, <1>7, StepKinds DEF RulesSteps

\* In order, the answer of a read is current, or is behind the write that has it repeated.
LEMMA RepairedStep ==
  ASSUME SafeInv, RulesTyped, [Next]_vars, faults \cap {"list", "reorder"} = {},
         Repaired(answers, Load(rulesFile))
  PROVE  Repaired(answers', Load(rulesFile'))
  <1>0. IsSeq(reqs) /\ IsSeq(answers)
    BY DEF SafeInv, Sent, Answered
  <1>1. CASE SettingsSteps
    <2>1. PICK K : K = {"rules", "list"}
      OBVIOUS
    <2>2. Passing(K) /\ rulesFile' = rulesFile
      BY <1>1, <2>1, SettingsPass
    <2> QED BY <2>1, <2>2, PassingInOrder
  <1>2. CASE OtherSteps
    BY <1>2, OthersPass
  <1>3. CASE \E i \in Takable(reqs) : HandleRules(i)
    <2>1. PICK i \in DOMAIN reqs : HandleRules(i)
      BY <1>3 DEF Takable
    <2>2. PICK a : /\ answers' = Append(answers, a) /\ a.to = "rules" /\ a.ok \in BOOLEAN
                   /\ (~a.ok => rulesFile' = rulesFile)
      BY <2>1, RulesServed
    <2>3. CASE a.ok
      <3>1. Wrote(a)
        BY <2>2, <2>3 DEF Wrote
      <3> QED BY <1>0, <2>2, <3>1, RepairedAgain
    <2>4. CASE ~a.ok
      <3>1. ~Reading(a)
        BY <2>2 DEF Reading
      <3>2. PICK v : v = Load(rulesFile)
        OBVIOUS
      <3>3. Repaired(Append(answers, a), v)
        BY <1>0, <3>1, <3>2, RepairedMore
      <3> QED BY <2>2, <2>4, <3>2, <3>3
    <2> QED BY <2>2, <2>3, <2>4
  <1>4. CASE \E i \in Takable(reqs) : HandleList(i)
    <2>1. PICK i \in DOMAIN reqs : HandleList(i)
      BY <1>4 DEF Takable
    <2>2. PICK a : answers' = Append(answers, a) /\ a.view = Load(rulesFile) /\ a.ok
      BY <2>1, ListServed
    <2>3. rulesFile' = rulesFile
      BY <2>1, ListServed
    <2>4. PICK v : v = Load(rulesFile)
      OBVIOUS
    <2>5. Repaired(Append(answers, a), v)
      BY <1>0, <2>2, <2>4, RepairedMore
    <2> QED BY <2>2, <2>3, <2>4, <2>5
  <1>5. CASE \E i \in Takable(answers) : MutationAnswered(i) \/ Refetched(i)
    <2>1. PICK i \in Takable(answers) : MutationAnswered(i) \/ Refetched(i)
      BY <1>5
    <2>2. i = 1 /\ 1 \in DOMAIN answers
      BY FirstTaken
    <2>3. answers' = RemoveAt(answers, 1) /\ rulesFile' = rulesFile
      BY <2>1, <2>2 DEF MutationAnswered, Refetched, files
    <2> QED BY <1>0, <2>2, <2>3, RepairedTail
  <1>6. CASE RulesChanged \/ ensureBoot \/ EditRules \/ Dismiss
    BY <1>6 DEF RulesChanged, ensureBoot, EditRules, Dismiss, files
  <1> QED BY <1>1, <1>2, <1>3, <1>4, <1>5, <1>6, StepKinds DEF RulesSteps

\* In order, the page is told.
LEMMA OrderedStep ==
  ASSUME SafeInv, RulesTyped, Held, Held', SafeInv', Ordered, [Next]_vars, faults' = faults PROVE Ordered'
  <1> SUFFICES ASSUME faults \cap {"list", "reorder"} = {} PROVE Lagging' /\ Repaired(answers', Load(rulesFile'))
    BY DEF Ordered
  <1>1. Lagging /\ Repaired(answers, Load(rulesFile))
    BY DEF Ordered
  <1>2. CASE \E i \in Takable(answers) : Refetched(i)
    <2>1. PICK i \in Takable(answers) : Refetched(i)
      BY <1>2
    <2>2. i = 1 /\ 1 \in DOMAIN answers /\ IsSeq(answers)
      BY FirstTaken DEF SafeInv, Answered
    <2>3. PICK a : a = answers[1]
      OBVIOUS
    <2>4. /\ a.to = "list" /\ answers' = RemoveAt(answers, 1) /\ rulesFile' = rulesFile
          /\ rs'.view = IF a.ok THEN a.view ELSE rs.view
      BY <2>1, <2>2, <2>3, ListTaken
    <2>5. a.ok /\ (a.view = Load(rulesFile) \/ \E j \in DOMAIN answers : 1 < j /\ Wrote(answers[j]))
      BY <1>1, <2>2, <2>3, <2>4 DEF Repaired, Reading
    <2>6. CASE a.view = Load(rulesFile)
      BY <2>4, <2>5, <2>6, <1>1, RepairedStep DEF Lagging
    <2>7. CASE \E j \in DOMAIN answers : 1 < j /\ Wrote(answers[j])
      <3>1. PICK j \in DOMAIN answers : 1 < j /\ Wrote(answers[j])
        BY <2>7
      <3>2. j - 1 \in DOMAIN answers' /\ answers'[j - 1] = answers[j]
        BY <2>2, <2>4, <3>1, TailPlaces
      <3>3. answers'[j - 1] \in ToSet(answers')
        BY <3>2 DEF ToSet
      <3> QED BY <1>1, <3>1, <3>2, <3>3, RepairedStep DEF Lagging, Messages
    <2> QED BY <2>5, <2>6, <2>7
  <1>3. CASE ~\E i \in Takable(answers) : Refetched(i)
    BY <1>1, <1>3, LaggingStep, RepairedStep
  <1> QED BY <1>2, <1>3

\* The conditions of a behaviour are those it began with.
LEMMA FaultsStay == ASSUME [Next]_vars PROVE faults' = faults
  BY DEF Next, Bridge, Interface, User, HandleRules, HandleList, HandleUpdate, HandleGet, ReadNetwork, buildConfigs,
         MutationAnswered, Refetched, UpdateAnswered, GetAnswered, RulesChanged, StatusEvent, ensureBoot, loadFromBackend,
         flushSettings, EditRules, rulesExportGroup, Dismiss, Reconnect, Connect, Disconnect, PickMode, EditSetting, vars

---------------------------------------------------------------------------
(* What each step does to the settings' store                              *)

\* The fields of settings.ts that a step leaves alone.
SameSt(F, v, w) == DOMAIN w = StFields /\ \A f \in StFields \ F : w[f] = v[f]

\* SettingsService.Update has served a part of a patch.
LEMMA UpdateServed ==
  ASSUME NEW i \in DOMAIN reqs, HandleUpdate(i)
  PROVE  /\ reqs[i].to = "update" /\ reqs[i] \in ToSet(reqs) /\ reqs' = RemoveAt(reqs, i)
         /\ UNCHANGED <<rulesFile, st, rs, snap, ctl, statusEvents, faults>>
         /\ \E x : answers' = Append(answers, x) /\ x.to = "update" /\ x.flush = reqs[i].flush
         /\ cfgFile' = cfgFile \/ cfgFile' = applyPatch(cfgFile, reqs[i].section, reqs[i].patch)
  <1> DEFINE x == [to |-> "update", flush |-> reqs[i].flush]
             r == UpdateSection(cfgFile, reqs[i].section, reqs[i].patch)
  <1>1. answers' = Append(answers, x) /\ x.to = "update" /\ x.flush = reqs[i].flush
    BY DEF HandleUpdate
  <1>2. reqs[i].to = "update" /\ reqs[i] \in ToSet(reqs) /\ reqs' = RemoveAt(reqs, i)
        /\ UNCHANGED <<rulesFile, st, rs, snap, ctl, statusEvents, faults>>
    BY DEF HandleUpdate, ui, events, ToSet
  <1>3. cfgFile' = cfgFile \/ cfgFile' = r.config
    BY DEF HandleUpdate
  <1>4. r.config = cfgFile \/ r.config = applyPatch(cfgFile, reqs[i].section, reqs[i].patch)
    BY DEF UpdateSection
  <1> HIDE DEF x, r
  <1> QED BY <1>1, <1>2, <1>3, <1>4

\* SettingsService.Get has served a read.
LEMMA GetServed ==
  ASSUME NEW i \in DOMAIN reqs, HandleGet(i)
  PROVE  /\ reqs[i].to = "get" /\ reqs[i] \in ToSet(reqs) /\ reqs' = RemoveAt(reqs, i)
         /\ UNCHANGED <<rulesFile, cfgFile, st, rs, snap, ctl, statusEvents, faults>>
         /\ \E x : /\ answers' = Append(answers, x)
                   /\ x.to = "get" /\ x.view = toView(cfgFile) /\ ("get" \notin faults => x.ok)
  <1>1. PICK ok : (("get" \notin faults) => ok = TRUE)
                  /\ answers' = Append(answers, [to |-> "get", why |-> reqs[i].why, ok |-> ok, view |-> toView(cfgFile)])
    <2>1. PICK ok \in (IF "get" \in faults THEN BOOLEAN ELSE {TRUE}) :
            answers' = Append(answers, [to |-> "get", why |-> reqs[i].why, ok |-> ok, view |-> toView(cfgFile)])
      BY DEF HandleGet
    <2> QED BY <2>1
  <1> DEFINE x == [to |-> "get", why |-> reqs[i].why, ok |-> ok, view |-> toView(cfgFile)]
  <1>2. x.to = "get" /\ x.view = toView(cfgFile) /\ x.ok = ok
    OBVIOUS
  <1>3. answers' = Append(answers, x)
    BY <1>1
  <1> HIDE DEF x
  <1>4. "get" \notin faults => x.ok
    BY <1>1, <1>2
  <1>5. reqs[i].to = "get" /\ reqs[i] \in ToSet(reqs) /\ reqs' = RemoveAt(reqs, i)
         /\ UNCHANGED <<rulesFile, cfgFile, st, rs, snap, ctl, statusEvents, faults>>
    BY DEF HandleGet, files, events, ui, ToSet
  <1> QED BY <1>2, <1>3, <1>4, <1>5

\* The settings are read once more.
AskedBack(m) == IF m = 0 THEN \E q : reqs' = Append(reqs, q) /\ q.to = "get" ELSE reqs' = reqs

\* The end of a part of a flush.
LEMMA PartTaken ==
  ASSUME SafeInv, SwitchInv, SettingsTyped, Counted, NEW i \in DOMAIN answers, UpdateAnswered(i),
         NEW n, n = answers[i].flush
  PROVE  /\ answers[i].to = "update" /\ answers' = RemoveAt(answers, i) /\ UNCHANGED <<cfgFile, faults>>
         /\ n = 0 => st' = st /\ reqs' = reqs
         /\ n # 0 => /\ SameSt({"open", "inFlight"}, st, st') /\ n \in 1..Len(st.open)
                     /\ st'.open = [st.open EXCEPT ![n] = st.open[n] - 1]
                     /\ st.open[n] - 1 > 0 => st'.inFlight = st.inFlight /\ reqs' = reqs
                     /\ ~(st.open[n] - 1 > 0) =>
                          /\ st'.inFlight = IF st.inFlight > 0 THEN st.inFlight - 1 ELSE 0
                          /\ AskedBack(st'.inFlight)
  <1> DEFINE o       == [st.open EXCEPT ![n] = st.open[n] - 1]
             counted == [st EXCEPT !.open = o]
             low     == IF st.inFlight > 0 THEN st.inFlight - 1 ELSE 0
             ended   == [counted EXCEPT !.inFlight = low]
  <1>1. answers[i].to = "update" /\ answers' = RemoveAt(answers, i) /\ UNCHANGED <<cfgFile, faults>>
        /\ (n = 0 => st' = st /\ reqs' = reqs)
    BY DEF UpdateAnswered, files
  <1>2. CASE n = 0
    BY <1>1, <1>2
  <1>3. CASE n # 0
    <2>0. DOMAIN st = StFields /\ st.inFlight \in Nat
      BY DEF SwitchInv, SettingsTyped
    <2>1. n \in 1..Len(st.open) /\ Len(st.open) \in Nat
      <3>1. answers[i] \in Messages
        BY DEF Messages, ToSet
      <3>2. n \in 0..st.flushed
        BY <1>1, <3>1 DEF Counted
      <3>3. Len(st.open) \in Nat /\ st.flushed = Len(st.open)
        BY DEF Counted
      <3> QED BY <1>3, <3>2, <3>3
    <2>2. o[n] = st.open[n] - 1
      BY <2>1 DEF Counted
    <2>3. SameSt({"open"}, st, counted) /\ counted.open = o
      <3> HIDE DEF o
      <3> QED BY <2>0 DEF SameSt, StFields
    <2>4. FlushEnded(counted) = ended
      <3>1. counted.inFlight = st.inFlight
        BY <2>3 DEF SameSt, StFields
      <3> HIDE DEF counted
      <3> QED BY <3>1 DEF FlushEnded
    <2>5. IF counted.open[n] > 0 THEN st' = counted /\ reqs' = reqs
          ELSE st' = ended /\ reqs' = reqs \o ReadBack(ended)
      BY <1>3, <2>4 DEF UpdateAnswered
    <2>6. SameSt({"inFlight"}, counted, ended) /\ ended.inFlight = low
      <3> HIDE DEF low, counted
      <3> QED BY <2>3 DEF SameSt, StFields
    <2>7. low = IF st.inFlight > 0 THEN st.inFlight - 1 ELSE 0
      OBVIOUS
    <2>8. o = [st.open EXCEPT ![n] = st.open[n] - 1]
      OBVIOUS
    <2> HIDE DEF o, counted, low, ended
    <2>9. CASE st.open[n] - 1 > 0
      BY <1>1, <1>3, <2>1, <2>2, <2>3, <2>5, <2>8, <2>9 DEF SameSt, StFields
    <2>10. CASE ~(st.open[n] - 1 > 0)
      <3>1. st' = ended /\ reqs' = reqs \o ReadBack(ended)
        BY <2>2, <2>3, <2>5, <2>10
      <3>2. SameSt({"open", "inFlight"}, st, st') /\ st'.open = o /\ st'.inFlight = low
        BY <2>3, <2>6, <3>1 DEF SameSt, StFields
      <3>3. AskedBack(st'.inFlight)
        <4>1. IsSeq(reqs)
          BY DEF SafeInv, Sent
        <4>2. CASE ended.inFlight = 0
          <5>1. PICK q : q = GetRequest("flush")
            OBVIOUS
          <5>2. q.to = "get" /\ reqs' = reqs \o <<q>>
            BY <3>1, <4>2, <5>1 DEF ReadBack, GetRequest
          <5>3. reqs' = Append(reqs, q)
            BY <4>1, <5>2, AppendIs
          <5> QED BY <3>1, <4>2, <5>2, <5>3 DEF AskedBack
        <4>3. CASE ended.inFlight # 0
          BY <3>1, <4>1, <4>3, NothingSent DEF ReadBack, AskedBack
        <4> QED BY <4>2, <4>3
      <3> QED BY <1>1, <1>3, <2>1, <2>7, <2>8, <2>10, <3>2, <3>3
    <2> QED BY <2>9, <2>10
  <1> QED BY <1>2, <1>3

\* The end of a read of the settings: an edit made since wins.
LEMMA GetTaken ==
  ASSUME SwitchInv, NEW i \in DOMAIN answers, GetAnswered(i), NEW a, a = answers[i]
  PROVE  /\ a.to = "get" /\ answers' = RemoveAt(answers, i) /\ UNCHANGED <<cfgFile, reqs, faults>>
         /\ SameSt({"cur", "started"}, st, st')
         /\ a.ok => st'.started = st.started /\ st'.cur = Overlay(Overlay(st.cur, backendToFrontend(a.view)), st.pend)
  <1> DEFINE c == Overlay(Overlay(st.cur, backendToFrontend(a.view)), st.pend)
             w == [st EXCEPT !.cur = c]
             v == [st EXCEPT !.started = FALSE]
  <1>1. a.to = "get" /\ answers' = RemoveAt(answers, i) /\ UNCHANGED <<cfgFile, reqs, faults>>
    BY DEF GetAnswered, files
  <1>2. st' = IF a.ok THEN w ELSE IF a.why = "boot" THEN v ELSE st
    BY DEF GetAnswered
  <1>3. c = Overlay(Overlay(st.cur, backendToFrontend(a.view)), st.pend)
    OBVIOUS
  <1> HIDE DEF c
  <1>4. SameSt({"cur"}, st, w) /\ w.cur = c
    BY DEF SwitchInv, SameSt, StFields
  <1>5. SameSt({"started"}, st, v)
    BY DEF SwitchInv, SameSt, StFields
  <1>6. DOMAIN st = StFields
    BY DEF SwitchInv
  <1> HIDE DEF w, v
  <1>7. CASE a.ok
    BY <1>1, <1>2, <1>3, <1>4, <1>7 DEF SameSt, StFields
  <1>8. CASE ~a.ok
    BY <1>1, <1>2, <1>5, <1>6, <1>8 DEF SameSt, StFields
  <1> QED BY <1>7, <1>8

\* A patch that holds a key has a part, and each part holds what the patch holds.
LEMMA PartsOf ==
  ASSUME NEW p, DOMAIN p \subseteq Keys
  PROVE  /\ DOMAIN p # {} => Len(SetToSeq(frontendToBackend(p))) # 0
         /\ \A x \in frontendToBackend(p) : DOMAIN x[2] \subseteq DOMAIN p /\ \A k \in DOMAIN x[2] : x[2][k] = p[k]
  <1> DEFINE P == frontendToBackend(p)
  <1>1. \A x \in P : DOMAIN x[2] \subseteq DOMAIN p /\ \A k \in DOMAIN x[2] : x[2][k] = p[k]
    <2> SUFFICES ASSUME NEW x \in P PROVE DOMAIN x[2] \subseteq DOMAIN p /\ \A k \in DOMAIN x[2] : x[2][k] = p[k]
      OBVIOUS
    <2>1. PICK s : x = <<s, [k \in DOMAIN p \cap KeysOf(s) |-> p[k]]>>
      BY DEF frontendToBackend
    <2>2. x[2] = [k \in DOMAIN p \cap KeysOf(s) |-> p[k]]
      BY <2>1
    <2> QED BY <2>2
  <1>2. ASSUME DOMAIN p # {} PROVE Len(SetToSeq(P)) # 0
    <2>1. PICK k : k \in DOMAIN p
      BY <1>2
    <2>2. PICK s \in Sections : k \in KeysOf(s)
      BY <2>1, Zenon DEF Keys
    <2>3. s \in {x \in Sections : DOMAIN p \cap KeysOf(x) # {}}
      BY <2>1, <2>2
    <2>4. P # {}
      BY <2>3, Zenon DEF frontendToBackend
    <2>7. IsFiniteSet(P) /\ Len(SetToSeq(P)) = Cardinality(P)
      BY PartsSeq
    <2>8. Cardinality(P) # 0
      BY <2>4, <2>7, FS_EmptySet
    <2> QED BY <2>7, <2>8
  <1> QED BY <1>1, <1>2

\* The pending patch is sent in parts.
LEMMA FlushStarts ==
  ASSUME SafeInv, SwitchInv, Counted, flushSettings
  PROVE  /\ UNCHANGED <<cfgFile, answers, faults>>
         /\ SameSt({"pend", "inFlight", "flushed", "open"}, st, st')
         /\ st'.pend = NoPatch /\ st'.inFlight = st.inFlight + 1 /\ st'.flushed = st.flushed + 1
         /\ \E t : /\ IsSeq(t) /\ reqs' = reqs \o t /\ Len(t) # 0 /\ st'.open = Append(st.open, Len(t))
                   /\ \A q \in ToSet(t) : q.to = "update" /\ q.flush = st.flushed + 1
                   /\ \A q \in ToSet(t) : DOMAIN q.patch \subseteq DOMAIN st.pend
                                         /\ \A k \in DOMAIN q.patch : q.patch[k] = st.pend[k]
  <1>1. PICK t : /\ IsSeq(t) /\ reqs' = reqs \o t
                 /\ \A q \in ToSet(t) : q.to = "update" /\ q.flush = st.flushed + 1
                 /\ Len(t) = Len(SetToSeq(frontendToBackend(st.pend)))
                 /\ \A q \in ToSet(t) : \E p \in frontendToBackend(st.pend) : q.section = p[1] /\ q.patch = p[2]
    BY FlushSends
  <1>2. UNCHANGED <<cfgFile, answers, faults>> /\ st.pend # NoPatch
    BY DEF flushSettings, files
  <1>3. DOMAIN st.pend # {}
    BY <1>2 DEF Counted, NoPatch
  <1>4. PICK p : p = st.pend
    OBVIOUS
  <1>5. DOMAIN p \subseteq Keys
    BY <1>4 DEF Counted
  <1>6. Len(t) # 0
    BY <1>1, <1>3, <1>4, <1>5, PartsOf
  <1>7. \A q \in ToSet(t) : DOMAIN q.patch \subseteq DOMAIN st.pend
                           /\ \A k \in DOMAIN q.patch : q.patch[k] = st.pend[k]
    BY <1>1, <1>4, <1>5, PartsOf
  <1> DEFINE n == st.flushed + 1
             m == st.inFlight + 1
             o == Append(st.open, Len(t))
             w == [st EXCEPT !.pend = NoPatch, !.inFlight = m, !.flushed = n, !.open = o]
  <1>8. st' = w
    BY <1>1 DEF flushSettings
  <1>9. n = st.flushed + 1 /\ m = st.inFlight + 1 /\ o = Append(st.open, Len(t))
    OBVIOUS
  <1> HIDE DEF n, m, o
  <1>10. /\ SameSt({"pend", "inFlight", "flushed", "open"}, st, w)
         /\ w.pend = NoPatch /\ w.inFlight = m /\ w.flushed = n /\ w.open = o
    BY DEF SwitchInv, SameSt, StFields
  <1> HIDE DEF w
  <1> QED BY <1>1, <1>2, <1>6, <1>7, <1>8, <1>9, <1>10

\* A setting is changed: shown at once, and pending.
LEMMA Edited ==
  ASSUME SwitchInv, NEW k, NEW v, EditSetting(k, v)
  PROVE  /\ UNCHANGED <<cfgFile, reqs, answers, faults>> /\ st.started
         /\ SameSt({"cur", "pend"}, st, st')
         /\ \A x \in Keys : x # k => st'.cur[x] = st.cur[x]
         /\ DOMAIN st'.pend = DOMAIN st.pend \cup {k}
         /\ st'.pend[k] = v /\ \A x \in DOMAIN st.pend : x # k => st'.pend[x] = st.pend[x]
         /\ st'.pend = [x \in DOMAIN st'.pend |-> st'.pend[x]]
  <1> DEFINE patch == [x \in {k} |-> v]
             c == Overlay(st.cur, patch)
             q == [x \in DOMAIN st.pend \cup {k} |-> IF x = k THEN v ELSE st.pend[x]]
             w == [st EXCEPT !.cur = c, !.pend = q]
  <1>1. UNCHANGED <<cfgFile, reqs, answers, faults>> /\ st.started /\ st' = w
    BY DEF EditSetting, files, channel
  <1>2. \A x \in Keys : x # k => c[x] = st.cur[x]
    BY DEF Overlay
  <1>3. /\ DOMAIN q = DOMAIN st.pend \cup {k} /\ q = [x \in DOMAIN q |-> q[x]]
        /\ q[k] = v /\ \A x \in DOMAIN st.pend : x # k => q[x] = st.pend[x]
    OBVIOUS
  <1> HIDE DEF c, q
  <1>4. SameSt({"cur", "pend"}, st, w) /\ w.cur = c /\ w.pend = q
    BY DEF SwitchInv, SameSt, StFields
  <1> HIDE DEF w
  <1> QED BY <1>1, <1>2, <1>3, <1>4

\* The mode of the dashboard is sent by itself.
LEMMA ModeSent ==
  ASSUME PickMode
  PROVE  /\ UNCHANGED <<cfgFile, st, answers, faults>>
         /\ \E q : reqs' = Append(reqs, q) /\ q.to = "update" /\ q.flush = 0 /\ DOMAIN q.patch = {"defaultMode"}
  <1>1. PICK mode : reqs' = Append(reqs, [to |-> "update", flush |-> 0, section |-> "network",
                                          patch |-> [k \in {"defaultMode"} |-> mode]])
    BY DEF PickMode
  <1> DEFINE q == [to |-> "update", flush |-> 0, section |-> "network", patch |-> [k \in {"defaultMode"} |-> mode]]
  <1>2. q.to = "update" /\ q.flush = 0 /\ DOMAIN q.patch = {"defaultMode"} /\ reqs' = Append(reqs, q)
    BY <1>1
  <1> HIDE DEF q
  <1>3. UNCHANGED <<cfgFile, st, answers, faults>>
    BY DEF PickMode, files, ui
  <1> QED BY <1>2, <1>3

\* The first read of the settings is sent.
LEMMA LoadSent ==
  ASSUME SwitchInv, loadFromBackend
  PROVE  /\ UNCHANGED <<cfgFile, answers, faults>> /\ SameSt({"started"}, st, st')
         /\ \E q : reqs' = Append(reqs, q) /\ q.to = "get"
  <1>1. PICK q : q = GetRequest("boot")
    OBVIOUS
  <1>2. q.to = "get" /\ reqs' = Append(reqs, q)
    BY <1>1 DEF loadFromBackend, GetRequest
  <1>3. UNCHANGED <<cfgFile, answers, faults>> /\ st' = [st EXCEPT !.started = TRUE]
    BY DEF loadFromBackend, files
  <1>4. SameSt({"started"}, st, st')
    BY <1>3 DEF SwitchInv, SameSt, StFields
  <1> QED BY <1>2, <1>3, <1>4

---------------------------------------------------------------------------
(* A flush is counted while a part of it is under way                      *)

\* Which flushes have parts open when one part ends, and when a flush starts.
LEMMA OpenLess ==
  ASSUME NEW s \in Seq(Nat), NEW n \in 1..Len(s), s[n] # 0, NEW t, t = [s EXCEPT ![n] = s[n] - 1]
  PROVE  /\ t \in Seq(Nat) /\ Len(t) = Len(s) /\ Cardinality(Open(s)) \in Nat
         /\ \A k \in 1..Len(s) : t[k] = IF k = n THEN s[n] - 1 ELSE s[k]
         /\ s[n] - 1 > 0 => Cardinality(Open(t)) = Cardinality(Open(s))
         /\ ~(s[n] - 1 > 0) => Cardinality(Open(s)) = Cardinality(Open(t)) + 1 /\ Cardinality(Open(t)) \in Nat
  <1>1. Len(s) \in Nat /\ DOMAIN s = 1..Len(s) /\ s[n] \in Nat /\ s[n] - 1 \in Nat
    OBVIOUS
  <1>2. t \in [1..Len(s) -> Nat] /\ \A k \in 1..Len(s) : t[k] = IF k = n THEN s[n] - 1 ELSE s[k]
    BY <1>1
  <1>3. t \in Seq(Nat) /\ Len(t) = Len(s)
    <2>1. t \in Seq(Nat)
      BY <1>1, <1>2
    <2>2. DOMAIN t = 1..Len(t) /\ DOMAIN t = 1..Len(s) /\ Len(t) \in Nat
      BY <1>2, <2>1
    <2> QED BY <1>1, <2>1, <2>2
  <1>4. IsFiniteSet(Open(s))
    <2>1. IsFiniteSet(1..Len(s))
      BY <1>1, FS_Interval
    <2>2. Open(s) \subseteq 1..Len(s)
      BY DEF Open
    <2> QED BY <2>1, <2>2, FS_Subset
  <1>5. Cardinality(Open(s)) \in Nat
    BY <1>4, FS_CardinalityType
  <1>6. ASSUME s[n] - 1 > 0 PROVE Open(t) = Open(s)
    BY <1>1, <1>2, <1>3, <1>6 DEF Open
  <1>7. ASSUME ~(s[n] - 1 > 0)
        PROVE  Cardinality(Open(s)) = Cardinality(Open(t)) + 1 /\ Cardinality(Open(t)) \in Nat
    <2>1. n \in Open(s)
      BY <1>1 DEF Open
    <2>2. Open(t) = Open(s) \ {n}
      BY <1>1, <1>2, <1>3, <1>7 DEF Open
    <2>3. PICK P : P = Open(s)
      OBVIOUS
    <2>4. IsFiniteSet(P \ {n}) /\ Cardinality(P \ {n}) = IF n \in P THEN Cardinality(P) - 1 ELSE Cardinality(P)
      BY <1>4, <2>3, FS_RemoveElement
    <2>5. Cardinality(P \ {n}) \in Nat
      BY <2>4, FS_CardinalityType
    <2>6. PICK a, b : a = Cardinality(P) /\ b = Cardinality(P \ {n})
      OBVIOUS
    <2>7. a \in Nat /\ b \in Nat /\ b = a - 1
      BY <1>5, <2>1, <2>3, <2>4, <2>5, <2>6
    <2>8. a = b + 1
      BY <2>7
    <2>9. Cardinality(Open(s)) = a /\ Cardinality(Open(t)) = b
      BY <2>2, <2>3, <2>6
    <2> QED BY <2>7, <2>8, <2>9
  <1> QED BY <1>2, <1>3, <1>5, <1>6, <1>7

\* A flush starts with some parts.
Grown(s, m, t) == s \in Seq(Nat) /\ m \in Nat /\ m # 0 /\ t = Append(s, m)

\* It is one more that has parts open.
LEMMA OpenMore ==
  ASSUME NEW s, NEW m, NEW t, Grown(s, m, t)
  PROVE  /\ t \in Seq(Nat) /\ Len(t) = Len(s) + 1 /\ Cardinality(Open(s)) \in Nat
         /\ (\A k \in 1..Len(s) : t[k] = s[k]) /\ t[Len(s) + 1] = m
         /\ Cardinality(Open(t)) = Cardinality(Open(s)) + 1
  <1>1. /\ Len(s) \in Nat /\ t \in Seq(Nat) /\ Len(t) = Len(s) + 1
        /\ (\A k \in 1..Len(s) : t[k] = s[k]) /\ t[Len(s) + 1] = m /\ m \in Nat /\ m # 0
    BY DEF Grown
  <1>2. Open(t) = Open(s) \cup {Len(s) + 1} /\ ~(Len(s) + 1 \in Open(s))
    <2>1. PICK n : n = Len(s)
      OBVIOUS
    <2>2. n \in Nat /\ \A k \in 1..(n + 1) : k \in 1..n \/ k = n + 1
      BY <1>1, <2>1
    <2>3. \A k \in 1..n : k \in 1..(n + 1) /\ k # n + 1
      BY <1>1, <2>1
    <2>4. n + 1 \in 1..(n + 1) /\ m > 0
      BY <1>1, <2>1
    <2> QED BY <1>1, <2>1, <2>2, <2>3, <2>4 DEF Open
  <1>3. IsFiniteSet(Open(s))
    <2>1. IsFiniteSet(1..Len(s))
      BY <1>1, FS_Interval
    <2>2. Open(s) \subseteq 1..Len(s)
      BY DEF Open
    <2> QED BY <2>1, <2>2, FS_Subset
  <1>4. PICK P, x : P = Open(s) /\ x = Len(s) + 1
    OBVIOUS
  <1>5. Cardinality(P) \in Nat /\ Cardinality(P \cup {x}) = IF x \in P THEN Cardinality(P) ELSE Cardinality(P) + 1
    BY <1>3, <1>4, FS_CardinalityType, FS_AddElement
  <1> QED BY <1>1, <1>2, <1>4, <1>5

\* A flush with a part open is counted.
LEMMA OpenCounts ==
  ASSUME Counted, NEW n \in 1..st.flushed, st.open[n] # 0 PROVE st.inFlight > 0
  <1>1. st.open \in Seq(Nat) /\ n \in 1..Len(st.open) /\ st.inFlight = Cardinality(Open(st.open))
    BY DEF Counted
  <1>2. Len(st.open) \in Nat /\ st.open[n] \in Nat
    BY <1>1
  <1>3. n \in Open(st.open)
    BY <1>1, <1>2 DEF Open
  <1>4. IsFiniteSet(Open(st.open))
    <2>1. IsFiniteSet(1..Len(st.open))
      BY <1>2, FS_Interval
    <2>2. Open(st.open) \subseteq 1..Len(st.open)
      BY DEF Open
    <2> QED BY <2>1, <2>2, FS_Subset
  <1>5. Cardinality(Open(st.open)) \in Nat /\ Cardinality(Open(st.open)) # 0
    BY <1>3, <1>4, FS_CardinalityType, FS_EmptySet
  <1> QED BY <1>1, <1>5

\* So is one of which a part is under way.
LEMMA PartCounts ==
  ASSUME SafeInv, Counted, NEW q \in Messages, q.to = "update", q.flush # 0 PROVE st.inFlight > 0
  <1>1. st.open \in Seq(Nat) /\ st.flushed = Len(st.open) /\ q.flush \in 0..st.flushed
    BY DEF Counted
  <1>2. PICK n : n = q.flush
    OBVIOUS
  <1>3. n \in 1..st.flushed
    BY <1>1, <1>2
  <1>4. IsSeq(reqs) /\ IsSeq(answers)
    BY DEF SafeInv, Sent, Answered
  <1>5. /\ Cardinality(Parts(reqs, n)) \in Nat
        /\ (Cardinality(Parts(reqs, n)) = 0 <=> \A x \in ToSet(reqs) : ~(x.to = "update" /\ x.flush = n))
        /\ Cardinality(Parts(answers, n)) \in Nat
        /\ (Cardinality(Parts(answers, n)) = 0 <=> \A x \in ToSet(answers) : ~(x.to = "update" /\ x.flush = n))
    BY <1>4, NoneOf
  <1>6. Pieces(reqs, answers, n) # 0
    BY <1>2, <1>5 DEF Pieces, Messages
  <1>7. st.open[n] # 0
    BY <1>3, <1>6 DEF Counted
  <1> QED BY <1>3, <1>7, OpenCounts

\* The same parts are under way, and the counters say so.
LEMMA CountedOn ==
  ASSUME Counted, UNCHANGED <<st.open, st.flushed, st.inFlight>>,
         DOMAIN st'.pend \subseteq Keys, st'.pend = [k \in DOMAIN st'.pend |-> st'.pend[k]],
         \A q \in Messages' : q.to = "update" => q.flush \in 0..st.flushed,
         \A n \in 1..st.flushed : Pieces(reqs', answers', n) = Pieces(reqs, answers, n)
  PROVE  Counted'
  BY DEF Counted

\* The parts of a flush and the counters go together.
LEMMA CountedStep == ASSUME SafeInv, RulesTyped, SwitchInv, SettingsTyped, Counted, [Next]_vars PROVE Counted'
  <1>0. IsSeq(reqs) /\ IsSeq(answers)
    BY DEF SafeInv, Sent, Answered
  <1>a. /\ st.open \in Seq(Nat) /\ st.flushed = Len(st.open) /\ Len(st.open) \in Nat
        /\ DOMAIN st.pend \subseteq Keys /\ st.pend = [k \in DOMAIN st.pend |-> st.pend[k]]
        /\ \A q \in Messages : q.to = "update" => q.flush \in 0..st.flushed
    BY DEF Counted
  <1>1. CASE RulesSteps
    <2>1. PICK K : K = {"update", "get"}
      OBVIOUS
    <2>2. Untouched(reqs, answers, reqs', answers', K)
      BY <1>1, <2>1, RulesPass, PassingBy
    <2>3. st' = st
      BY <1>1, RulesPass
    <2> QED BY <2>1, <2>2, <2>3 DEF Counted, Messages, Untouched
  <1>2. CASE OtherSteps
    <2>1. UNCHANGED <<reqs, answers, st>>
      BY <1>2, OthersPass
    <2> QED BY <2>1 DEF Counted, Messages
  <1>3. CASE \E i \in Takable(reqs) : HandleUpdate(i) \/ HandleGet(i)
    <2>1. PICK i \in DOMAIN reqs : HandleUpdate(i) \/ HandleGet(i)
      BY <1>3 DEF Takable
    <2>2. PICK x : /\ reqs' = RemoveAt(reqs, i) /\ answers' = Append(answers, x) /\ x.to = reqs[i].to
                   /\ (x.to = "update" => x.flush = reqs[i].flush)
      <3>1. CASE HandleUpdate(i)
        BY <3>1, UpdateServed
      <3>2. CASE HandleGet(i)
        BY <3>2, GetServed
      <3> QED BY <2>1, <3>1, <3>2
    <2>3. st' = st
      BY <2>1, UpdateServed, GetServed
    <2>4. \A n : Pieces(reqs', answers', n) = Pieces(reqs, answers, n)
      BY <1>0, <2>2, ServedTotals
    <2>5. ToSet(reqs') \subseteq ToSet(reqs) /\ ToSet(answers') = ToSet(answers) \cup {x} /\ reqs[i] \in ToSet(reqs)
      BY <2>2, ServedMessages DEF ToSet
    <2>6. \A q \in Messages' : q.to = "update" => q.flush \in 0..st.flushed
      BY <1>a, <2>2, <2>5 DEF Messages
    <2> QED BY <1>a, <2>3, <2>4, <2>6, CountedOn
  <1>4. CASE \E i \in Takable(answers) : UpdateAnswered(i)
    <2>1. PICK i \in DOMAIN answers : UpdateAnswered(i)
      BY <1>4 DEF Takable
    <2>2. PICK n, b : n = answers[i].flush /\ b = RemoveAt(answers, i)
      OBVIOUS
    <2>3. /\ answers[i].to = "update" /\ answers' = b
          /\ n = 0 => st' = st /\ reqs' = reqs
          /\ n # 0 => /\ SameSt({"open", "inFlight"}, st, st') /\ n \in 1..Len(st.open)
                      /\ st'.open = [st.open EXCEPT ![n] = st.open[n] - 1]
                      /\ st.open[n] - 1 > 0 => st'.inFlight = st.inFlight /\ reqs' = reqs
                      /\ ~(st.open[n] - 1 > 0) =>
                           /\ st'.inFlight = IF st.inFlight > 0 THEN st.inFlight - 1 ELSE 0
                           /\ AskedBack(st'.inFlight)
      BY <2>1, <2>2, PartTaken
    <2>4. IsSeq(b) /\ ToSet(b) \subseteq ToSet(answers)
      BY <1>0, <2>2, SeqFacts, RemoveSeq
    <2>5. reqs' = reqs \/ \E q : reqs' = Append(reqs, q) /\ q.to = "get"
      BY <2>3 DEF AskedBack
    <2>6. \A m : Pieces(reqs', b, m) = Pieces(reqs, b, m)
      <3>1. CASE reqs' = reqs
        BY <3>1
      <3>2. CASE \E q : reqs' = Append(reqs, q) /\ q.to = "get"
        <4>1. PICK q : reqs' = Append(reqs, q) /\ q.to = "get"
          BY <3>2
        <4>2. PICK t : t = <<q>>
          OBVIOUS
        <4>3. IsSeq(t) /\ reqs' = reqs \o t /\ \A x \in ToSet(t) : x.to # "update"
          BY <1>0, <4>1, <4>2, AppendIs, SingleSeq
        <4> QED BY <1>0, <2>4, <4>3, SentTotals
      <3> QED BY <2>5, <3>1, <3>2
    <2>7. \A m : /\ Pieces(reqs, b, m) \in Nat
                 /\ m = n => Pieces(reqs, answers, m) = Pieces(reqs, b, m) + 1
                 /\ m # n => Pieces(reqs, answers, m) = Pieces(reqs, b, m)
      BY <1>0, <2>2, <2>3, TakenTotals
    <2>8. \A q \in Messages' : q.to = "update" => q.flush \in 0..st.flushed
      <3>0. CASE \E q : reqs' = Append(reqs, q) /\ q.to = "get"
        <4>1. PICK q : reqs' = Append(reqs, q) /\ q.to = "get"
          BY <3>0
        <4>2. ToSet(reqs') = ToSet(reqs) \cup {q}
          BY <1>0, <4>1, AppendSeq
        <4> QED BY <1>a, <2>3, <2>4, <4>1, <4>2 DEF Messages
      <3>1. CASE reqs' = reqs
        BY <1>a, <2>3, <2>4, <3>1 DEF Messages
      <3> QED BY <2>5, <3>0, <3>1
    <2>9. CASE n = 0
      <3>1. \A m \in 1..st.flushed : Pieces(reqs', answers', m) = Pieces(reqs, answers, m)
        BY <1>a, <2>3, <2>6, <2>7, <2>9
      <3> QED BY <1>a, <2>3, <2>8, <2>9, <3>1, CountedOn
    <2>10. CASE n # 0
      <3>1. n \in 1..Len(st.open) /\ st'.open = [st.open EXCEPT ![n] = st.open[n] - 1]
            /\ st'.flushed = st.flushed /\ st'.pend = st.pend
        BY <2>3, <2>10 DEF SameSt, StFields
      <3>2. st.open[n] = Pieces(reqs, answers, n) /\ Pieces(reqs, answers, n) = Pieces(reqs, b, n) + 1
        BY <1>a, <2>7, <3>1 DEF Counted
      <3>3. PICK p : p = Pieces(reqs, b, n)
        OBVIOUS
      <3>4. p \in Nat /\ st.open[n] = p + 1
        BY <2>7, <3>2, <3>3
      <3>5. st.open[n] # 0 /\ st.open[n] - 1 = p
        BY <3>4
      <3>6. PICK o, s : o = st'.open /\ s = st.open
        OBVIOUS
      <3>7. /\ o \in Seq(Nat) /\ Len(o) = Len(s) /\ Cardinality(Open(s)) \in Nat
            /\ \A k \in 1..Len(s) : o[k] = IF k = n THEN s[n] - 1 ELSE s[k]
            /\ s[n] - 1 > 0 => Cardinality(Open(o)) = Cardinality(Open(s))
            /\ ~(s[n] - 1 > 0) => Cardinality(Open(s)) = Cardinality(Open(o)) + 1 /\ Cardinality(Open(o)) \in Nat
        <4>1. s \in Seq(Nat) /\ n \in 1..Len(s) /\ s[n] # 0 /\ o = [s EXCEPT ![n] = s[n] - 1]
          BY <1>a, <3>1, <3>5, <3>6 DEF Counted
        <4>2. /\ Len(s) = Len(s) /\ Cardinality(Open(s)) \in Nat
              /\ [s EXCEPT ![n] = s[n] - 1] \in Seq(Nat) /\ Len([s EXCEPT ![n] = s[n] - 1]) = Len(s)
          BY <4>1, OpenLess
        <4>3. \A k \in 1..Len(s) : o[k] = IF k = n THEN s[n] - 1 ELSE s[k]
          BY <4>1, OpenLess
        <4>4. s[n] - 1 > 0 => Cardinality(Open(o)) = Cardinality(Open(s))
          BY <4>1, OpenLess
        <4>5. ~(s[n] - 1 > 0) => Cardinality(Open(s)) = Cardinality(Open(o)) + 1 /\ Cardinality(Open(o)) \in Nat
          BY <4>1, OpenLess
        <4> QED BY <4>1, <4>2, <4>3, <4>4, <4>5
      <3>8. \A m \in 1..st.flushed : o[m] = Pieces(reqs', answers', m)
        <4> SUFFICES ASSUME NEW m \in 1..st.flushed PROVE o[m] = Pieces(reqs', answers', m)
          OBVIOUS
        <4>1. Pieces(reqs', answers', m) = Pieces(reqs, b, m)
          BY <2>3, <2>6
        <4>2. CASE m = n
          BY <1>a, <3>3, <3>5, <3>6, <3>7, <4>1, <4>2
        <4>3. CASE m # n
          <5>1. o[m] = s[m]
            BY <1>a, <3>6, <3>7, <4>3
          <5>2. s[m] = Pieces(reqs, answers, m)
            BY <3>6 DEF Counted
          <5> QED BY <2>7, <4>1, <4>3, <5>1, <5>2
        <4> QED BY <4>2, <4>3
      <3>9. st.inFlight = Cardinality(Open(s))
        BY <3>6 DEF Counted
      <3>10. st'.inFlight = Cardinality(Open(o))
        <4>1. CASE s[n] - 1 > 0
          BY <2>3, <2>10, <3>6, <3>7, <3>9, <4>1
        <4>2. CASE ~(s[n] - 1 > 0)
          <5>1. PICK x, y : x = Cardinality(Open(s)) /\ y = Cardinality(Open(o))
            OBVIOUS
          <5>2. x \in Nat /\ y \in Nat /\ x = y + 1
            BY <3>7, <4>2, <5>1
          <5>3. st'.inFlight = IF x > 0 THEN x - 1 ELSE 0
            BY <2>3, <2>10, <3>6, <3>9, <4>2, <5>1
          <5>4. st'.inFlight = y
            BY <5>2, <5>3
          <5> QED BY <5>1, <5>4
        <4> QED BY <4>1, <4>2
      <3> QED BY <1>a, <2>8, <3>1, <3>6, <3>7, <3>8, <3>10 DEF Counted
    <2> QED BY <2>9, <2>10
  <1>5. CASE \E i \in Takable(answers) : GetAnswered(i)
    <2>1. PICK i \in DOMAIN answers : GetAnswered(i)
      BY <1>5 DEF Takable
    <2>2. /\ answers[i].to = "get" /\ answers' = RemoveAt(answers, i) /\ reqs' = reqs
          /\ SameSt({"cur", "started"}, st, st')
      BY <2>1, GetTaken
    <2>3. UNCHANGED <<st.open, st.flushed, st.inFlight, st.pend>>
      BY <2>2 DEF SameSt, StFields
    <2>4. \A n : Pieces(reqs', answers', n) = Pieces(reqs, answers, n)
      BY <1>0, <2>2, TakenTotals
    <2>5. \A q \in Messages' : q.to = "update" => q.flush \in 0..st.flushed
      BY <1>a, <2>2, TakenMessages DEF Messages
    <2> QED BY <1>a, <2>3, <2>4, <2>5, CountedOn
  <1>6. CASE flushSettings
    <2>1. PICK t : /\ IsSeq(t) /\ reqs' = reqs \o t /\ Len(t) # 0 /\ st'.open = Append(st.open, Len(t))
                   /\ \A q \in ToSet(t) : q.to = "update" /\ q.flush = st.flushed + 1
      BY <1>6, FlushStarts
    <2>2. /\ st'.pend = NoPatch /\ st'.inFlight = st.inFlight + 1 /\ st'.flushed = st.flushed + 1 /\ answers' = answers
      BY <1>6, FlushStarts
    <2>3. PICK m, n, o, s : m = Len(t) /\ n = st.flushed + 1 /\ o = st'.open /\ s = st.open
      OBVIOUS
    <2>4. m \in Nat /\ m # 0 /\ n \in Nat /\ n > 0
      BY <1>a, <2>1, <2>3, SeqFacts
    <2>0. s \in Seq(Nat) /\ o = Append(s, m)
      BY <1>a, <2>1, <2>3
    <2>d. Grown(s, m, o)
      BY <2>0, <2>4 DEF Grown
    <2>5. /\ o \in Seq(Nat) /\ Len(o) = Len(s) + 1 /\ Cardinality(Open(s)) \in Nat
          /\ (\A k \in 1..Len(s) : o[k] = s[k]) /\ o[Len(s) + 1] = m
          /\ Cardinality(Open(o)) = Cardinality(Open(s)) + 1
      BY <2>d, OpenMore
    <2>6. \A k : /\ Pieces(reqs, answers, k) \in Nat /\ Cardinality(Parts(t, k)) \in Nat
                 /\ Pieces(reqs', answers', k) = Pieces(reqs, answers, k) + Cardinality(Parts(t, k))
      BY <1>0, <2>1, <2>2, SentTotals
    <2>7. \A k \in 1..st.flushed : Cardinality(Parts(t, k)) = 0
      <3>1. \A k \in 1..st.flushed : k # n
        BY <1>a, <2>3
      <3> QED BY <2>1, <2>3, <3>1, NoneOf
    <2>8. Cardinality(Parts(t, n)) = m
      <3>1. DOMAIN t = 1..m
        BY <2>1, <2>3, SeqFacts
      <3>2. \A j \in DOMAIN t : t[j].to = "update" /\ t[j].flush = n
        BY <2>1, <2>3 DEF ToSet
      <3>3. Parts(t, n) = 1..m
        BY <3>1, <3>2 DEF Parts
      <3>4. Cardinality(1..m) = IF 1 > m THEN 0 ELSE m - 1 + 1
        BY <2>4, FS_Interval
      <3> QED BY <2>4, <3>3, <3>4
    <2>9. Pieces(reqs, answers, n) = 0
      <3>1. \A q \in Messages : q.to = "update" => q.flush # n
        BY <1>a, <2>3
      <3>2. Cardinality(Parts(reqs, n)) = 0 /\ Cardinality(Parts(answers, n)) = 0
        BY <1>0, <3>1, NoneOf DEF Messages
      <3> QED BY <3>2 DEF Pieces
    <2>10. \A k \in 1..n : o[k] = Pieces(reqs', answers', k)
      <3> SUFFICES ASSUME NEW k \in 1..n PROVE o[k] = Pieces(reqs', answers', k)
        OBVIOUS
      <3>1. CASE k = n
        BY <1>a, <2>3, <2>4, <2>5, <2>6, <2>8, <2>9, <3>1
      <3>2. CASE k # n
        <4>1. k \in 1..st.flushed
          BY <1>a, <2>3, <3>2
        <4>2. s[k] = Pieces(reqs, answers, k)
          BY <2>3, <4>1 DEF Counted
        <4>3. o[k] = s[k]
          BY <1>a, <2>3, <2>5, <4>1
        <4> QED BY <2>6, <2>7, <4>1, <4>2, <4>3
      <3> QED BY <3>1, <3>2
    <2>11. \A q \in Messages' : q.to = "update" => q.flush \in 0..n
      <3>1. ToSet(reqs') = ToSet(reqs) \cup ToSet(t)
        BY <2>1, SentMessages
      <3>2. \A q \in Messages : q.to = "update" => q.flush \in 0..n
        BY <1>a, <2>3
      <3> QED BY <2>1, <2>2, <2>3, <2>4, <3>1, <3>2 DEF Messages
    <2>12. DOMAIN NoPatch \subseteq Keys /\ NoPatch = [k \in DOMAIN NoPatch |-> NoPatch[k]]
      BY DEF NoPatch
    <2>13. st'.inFlight = Cardinality(Open(o))
      BY <2>2, <2>3, <2>5 DEF Counted
    <2>14. st'.flushed = n /\ Len(o) = n
      BY <1>a, <2>2, <2>3, <2>5
    <2> QED BY <2>2, <2>3, <2>5, <2>10, <2>11, <2>12, <2>13, <2>14 DEF Counted
  <1>7. CASE PickMode \/ loadFromBackend
    <2>1. /\ answers' = answers /\ UNCHANGED <<st.open, st.flushed, st.inFlight, st.pend>>
          /\ \E q : reqs' = Append(reqs, q) /\ (q.to = "get" \/ (q.to = "update" /\ q.flush = 0))
      BY <1>7, ModeSent, LoadSent DEF SameSt, StFields
    <2>2. PICK q : reqs' = Append(reqs, q) /\ (q.to = "get" \/ (q.to = "update" /\ q.flush = 0))
      BY <2>1
    <2>3. PICK t : t = <<q>>
      OBVIOUS
    <2>4. IsSeq(t) /\ reqs' = reqs \o t /\ ToSet(t) = {q}
      BY <1>0, <2>2, <2>3, AppendIs, SingleSeq
    <2>5. \A n \in 1..st.flushed : Cardinality(Parts(t, n)) = 0
      <3>1. \A n \in 1..st.flushed : n # 0
        BY <1>a
      <3> QED BY <2>2, <2>4, <3>1, NoneOf
    <2>6. \A n \in 1..st.flushed : Pieces(reqs', answers', n) = Pieces(reqs, answers, n)
      <3>1. \A n : /\ Pieces(reqs, answers, n) \in Nat
                   /\ Pieces(reqs', answers', n) = Pieces(reqs, answers, n) + Cardinality(Parts(t, n))
        BY <1>0, <2>1, <2>4, SentTotals
      <3> QED BY <2>5, <3>1
    <2>7. \A x \in Messages' : x.to = "update" => x.flush \in 0..st.flushed
      <3>1. ToSet(reqs') = ToSet(reqs) \cup {q}
        BY <2>4, SentMessages
      <3>2. 0 \in 0..st.flushed
        BY <1>a
      <3> QED BY <1>a, <2>1, <2>2, <3>1, <3>2 DEF Messages
    <2> QED BY <1>a, <2>1, <2>6, <2>7, CountedOn
  <1>8. CASE \E k \in EditKeys : \E v \in Inputs(k) : EditSetting(k, v)
    <2>1. PICK k \in EditKeys : \E v \in Inputs(k) : EditSetting(k, v)
      BY <1>8
    <2>2. PICK v \in Inputs(k) : EditSetting(k, v)
      BY <2>1
    <2>3. /\ UNCHANGED <<reqs, answers>> /\ SameSt({"cur", "pend"}, st, st')
          /\ DOMAIN st'.pend = DOMAIN st.pend \cup {k} /\ st'.pend = [x \in DOMAIN st'.pend |-> st'.pend[x]]
      BY <2>2, Edited
    <2>4. UNCHANGED <<st.open, st.flushed, st.inFlight>> /\ k \in Keys
      BY <2>3, SessionAssumption DEF SameSt, StFields
    <2> QED BY <1>a, <2>3, <2>4, CountedOn DEF Messages
  <1> QED BY <1>1, <1>2, <1>3, <1>4, <1>5, <1>6, <1>7, <1>8, StepKinds DEF SettingsSteps

---------------------------------------------------------------------------
(* The settings page comes to show what is on disk                         *)

\* What the settings page is shown of a document.
LEMMA ViewOf ==
  ASSUME NEW c, DOMAIN c = Keys
  PROVE  DOMAIN toView(c) = Keys
         /\ \A k \in Shown : toView(c)[k] = IF k = "userAgent" /\ c[k] = "" THEN "ITGRay" ELSE c[k]
  <1> DEFINE x == EffectiveMode(c)
             y == IF c["userAgent"] = "" THEN "ITGRay" ELSE c["userAgent"]
             d == [c EXCEPT !["defaultMode"] = x]
             w == [d EXCEPT !["userAgent"] = y]
  <1>1. d["userAgent"] = c["userAgent"] /\ DOMAIN d = Keys /\ \A k \in Shown : d[k] = c[k]
    <2> HIDE DEF x
    <2> QED BY DEF Shown
  <1>2. toView(c) = w
    <2> HIDE DEF x
    <2> QED BY DEF toView, x
  <1>3. y = IF c["userAgent"] = "" THEN "ITGRay" ELSE c["userAgent"]
    OBVIOUS
  <1> HIDE DEF d, y
  <1>4. DOMAIN w = Keys /\ \A k \in Keys : w[k] = IF k = "userAgent" THEN y ELSE d[k]
    BY <1>1
  <1> HIDE DEF w
  <1> QED BY <1>1, <1>2, <1>3, <1>4 DEF Shown

\* The keys a patch has are merged, the others are kept.
LEMMA MergeIs ==
  ASSUME NEW c, NEW section, NEW patch
  PROVE  LET d == applyPatch(c, section, patch)
         IN DOMAIN d = Keys /\ \A k \in Keys : d[k] = c[k] \/ (k \in DOMAIN patch /\ d[k] = patch[k])
  BY DEF applyPatch

\* The mode of the dashboard is not shown on the settings page.
LEMMA ModeHidden ==
  ASSUME NEW c, DOMAIN c = Keys, NEW section, NEW patch, DOMAIN patch = {"defaultMode"}
  PROVE  \A k \in Shown : toView(applyPatch(c, section, patch))[k] = toView(c)[k]
  <1>1. PICK d : d = applyPatch(c, section, patch)
    OBVIOUS
  <1>2. DOMAIN d = Keys /\ \A k \in Keys : d[k] = c[k] \/ k \in DOMAIN patch
    BY <1>1, MergeIs
  <1>3. \A k \in Shown : k \in Keys /\ d[k] = c[k]
    BY <1>2 DEF Shown
  <1>4. \A k \in Shown : toView(d)[k] = toView(c)[k]
    <2>1. \A k \in Shown : toView(d)[k] = IF k = "userAgent" /\ d[k] = "" THEN "ITGRay" ELSE d[k]
      BY <1>2, ViewOf
    <2>2. \A k \in Shown : toView(c)[k] = IF k = "userAgent" /\ c[k] = "" THEN "ITGRay" ELSE c[k]
      BY ViewOf
    <2> QED BY <1>3, <2>1, <2>2
  <1> QED BY <1>1, <1>4

\* An answer that is current for one document is so for another that looks the same.
LEMMA UpdatedSame ==
  ASSUME NEW s, NEW c, NEW d, Updated(s, c), \A k \in Shown : toView(d)[k] = toView(c)[k] PROVE Updated(s, d)
  BY DEF Updated

\* The page differs from the disk where it did, and what will tell it is still there.
Waits(k) == k \in DOMAIN st.pend \/ st.inFlight > 0 \/ \E q \in Messages : q.to = "get"

\* What SettledStep carries on.
Settled  == st.started => \A k \in Shown : Off(k) => Waits(k)

\* Answers are taken in order, and the page goes on waiting.
LEMMA SettledStep ==
  ASSUME SafeInv, RulesTyped, SwitchInv, SettingsTyped, Counted, Counted', Settling, [Next]_vars,
         faults \cap {"reorder", "get"} = {}
  PROVE  Settled' /\ Updated(answers', cfgFile')
  <1>0. IsSeq(reqs) /\ IsSeq(answers) /\ st.inFlight \in Nat /\ "reorder" \notin faults /\ "get" \notin faults
    BY DEF SafeInv, Sent, Answered, SettingsTyped
  <1>a. Settled /\ Updated(answers, cfgFile) /\ DOMAIN cfgFile = Keys
    BY DEF Settling, Settled, Waits
  <1>b. \A q \in ToSet(reqs) : q.to = "update" /\ q.flush = 0 => DOMAIN q.patch = {"defaultMode"}
    BY DEF Settling
  <1>1. CASE RulesSteps
    <2>1. PICK K : K = {"update", "get"}
      OBVIOUS
    <2>2. Passing(K) /\ UNCHANGED <<st, cfgFile>>
      BY <1>1, <2>1, RulesPass
    <2>3. Untouched(reqs, answers, reqs', answers', K)
      BY <2>2, PassingBy
    <2>4. Updated(answers', cfgFile)
      BY <1>0, <1>a, <2>1, <2>2, PassingInOrder
    <2>5. \A q \in Messages : q.to = "get" => q \in Messages'
      BY <2>1, <2>3 DEF Untouched, Messages
    <2> QED BY <1>a, <2>2, <2>4, <2>5 DEF Settled, Waits, Off
  <1>2. CASE OtherSteps
    <2>1. UNCHANGED <<reqs, answers, st, cfgFile>>
      BY <1>2, OthersPass
    <2> QED BY <1>a, <2>1 DEF Settled, Waits, Off, Messages
  <1>3. CASE \E i \in Takable(reqs) : HandleUpdate(i)
    <2>1. PICK i \in DOMAIN reqs : HandleUpdate(i)
      BY <1>3 DEF Takable
    <2>2. PICK p, n : p = reqs[i].patch /\ n = reqs[i].flush
      OBVIOUS
    <2>3. /\ reqs[i].to = "update" /\ reqs[i] \in ToSet(reqs) /\ reqs' = RemoveAt(reqs, i) /\ st' = st
          /\ cfgFile' = cfgFile \/ cfgFile' = applyPatch(cfgFile, reqs[i].section, p)
      BY <2>1, <2>2, UpdateServed
    <2>4. PICK x : answers' = Append(answers, x) /\ x.to = "update" /\ x.flush = n
      BY <2>1, <2>2, UpdateServed
    <2>5. /\ ToSet(answers') = ToSet(answers) \cup {x} /\ \A q \in ToSet(reqs) : q # reqs[i] => q \in ToSet(reqs')
      BY <2>3, <2>4, ServedMessages
    <2>6. \A q \in Messages : q.to = "get" => q \in Messages'
      BY <2>3, <2>5 DEF Messages
    <2>7. CASE n = 0
      <3>1. DOMAIN p = {"defaultMode"}
        BY <1>b, <2>2, <2>3, <2>7
      <3>2. \A k \in Shown : toView(cfgFile')[k] = toView(cfgFile)[k]
        BY <1>a, <2>3, <3>1, ModeHidden
      <3>3. x.to # "get"
        BY <2>4
      <3>4. Updated(answers', cfgFile)
        BY <1>0, <1>a, <2>4, <3>3, UpdatedMore
      <3>5. Updated(answers', cfgFile')
        BY <3>2, <3>4, UpdatedSame
      <3>6. Settled'
        BY <1>a, <2>3, <2>6, <3>2 DEF Settled, Waits, Off
      <3> QED BY <3>5, <3>6
    <2>8. CASE n # 0
      <3>1. reqs[i] \in Messages
        BY <2>3 DEF Messages
      <3>2. st.inFlight > 0
        BY <2>2, <2>3, <2>8, <3>1, PartCounts
      <3>3. n \in 0..st.flushed /\ st.flushed \in Nat
        BY <2>2, <2>3, <3>1 DEF Counted
      <3>4. n > 0
        BY <2>8, <3>3
      <3>5. Parted(x)
        BY <2>4, <3>4 DEF Parted
      <3>6. Updated(answers', cfgFile')
        BY <1>0, <1>a, <2>4, <3>5, UpdatedAgain
      <3> QED BY <2>3, <3>2, <3>6 DEF Settled, Waits
    <2> QED BY <2>7, <2>8
  <1>4. CASE \E i \in Takable(reqs) : HandleGet(i)
    <2>1. PICK i \in DOMAIN reqs : HandleGet(i)
      BY <1>4 DEF Takable
    <2>2. reqs[i].to = "get" /\ reqs' = RemoveAt(reqs, i) /\ UNCHANGED <<cfgFile, st>>
      BY <2>1, GetServed
    <2>3. PICK x : answers' = Append(answers, x) /\ x.to = "get" /\ x.view = toView(cfgFile) /\ x.ok
      BY <1>0, <2>1, GetServed
    <2>4. x \in Messages'
      BY <2>2, <2>3, ServedMessages DEF Messages
    <2>5. Views(x.view, cfgFile)
      BY <2>3 DEF Views
    <2>6. Updated(answers', cfgFile)
      BY <1>0, <1>a, <2>3, <2>5, UpdatedMore
    <2> QED BY <2>2, <2>3, <2>4, <2>6 DEF Settled, Waits
  <1>5. CASE \E i \in Takable(answers) : UpdateAnswered(i)
    <2>1. PICK i \in Takable(answers) : UpdateAnswered(i)
      BY <1>5
    <2>2. i = 1 /\ 1 \in DOMAIN answers
      BY <1>0, FirstTaken
    <2>3. PICK n : n = answers[1].flush
      OBVIOUS
    <2>4. /\ answers[1].to = "update" /\ answers' = RemoveAt(answers, 1) /\ cfgFile' = cfgFile
          /\ n = 0 => st' = st /\ reqs' = reqs
          /\ n # 0 => /\ SameSt({"open", "inFlight"}, st, st')
                      /\ st.open[n] - 1 > 0 => st'.inFlight = st.inFlight /\ reqs' = reqs
                      /\ ~(st.open[n] - 1 > 0) =>
                           /\ st'.inFlight = IF st.inFlight > 0 THEN st.inFlight - 1 ELSE 0
                           /\ AskedBack(st'.inFlight)
      BY <2>1, <2>2, <2>3, PartTaken
    <2>5. Updated(answers', cfgFile')
      BY <1>0, <1>a, <2>2, <2>4, UpdatedTail
    <2>6. UNCHANGED <<st.cur, st.pend, st.started>>
      BY <2>4 DEF SameSt, StFields
    <2>7. \A q \in ToSet(answers) : q # answers[1] => q \in ToSet(answers')
      BY <2>2, <2>4, TakenMessages
    <2>8. CASE reqs' = reqs /\ st'.inFlight = st.inFlight
      <3>1. \A q \in Messages : q.to = "get" => q \in Messages'
        BY <2>4, <2>7, <2>8 DEF Messages
      <3> QED BY <1>a, <2>4, <2>5, <2>6, <2>8, <3>1 DEF Settled, Waits, Off
    <2>9. CASE n # 0 /\ ~(st.open[n] - 1 > 0)
      <3>1. st'.inFlight \in Nat
        BY <1>0, <2>4, <2>9
      <3>2. CASE st'.inFlight = 0
        <4>1. PICK q : reqs' = Append(reqs, q) /\ q.to = "get"
          BY <2>4, <2>9, <3>2 DEF AskedBack
        <4>2. q \in Messages'
          BY <1>0, <4>1, AppendSeq DEF Messages
        <4> QED BY <2>5, <4>1, <4>2 DEF Settled, Waits
      <3>3. CASE st'.inFlight # 0
        <4>1. st'.inFlight > 0
          BY <3>1, <3>3
        <4> QED BY <2>5, <4>1 DEF Settled, Waits
      <3> QED BY <3>2, <3>3
    <2> QED BY <2>4, <2>8, <2>9
  <1>6. CASE \E i \in Takable(answers) : GetAnswered(i)
    <2>1. PICK i \in Takable(answers) : GetAnswered(i)
      BY <1>6
    <2>2. i = 1 /\ 1 \in DOMAIN answers
      BY <1>0, FirstTaken
    <2>3. PICK a : a = answers[1]
      OBVIOUS
    <2>4. /\ a.to = "get" /\ answers' = RemoveAt(answers, 1) /\ UNCHANGED <<cfgFile, reqs>>
          /\ SameSt({"cur", "started"}, st, st')
          /\ a.ok => st'.started = st.started /\ st'.cur = Overlay(Overlay(st.cur, backendToFrontend(a.view)), st.pend)
      BY <2>1, <2>2, <2>3, GetTaken
    <2>5. Updated(answers', cfgFile')
      BY <1>0, <1>a, <2>2, <2>4, UpdatedTail
    <2>6. a.ok /\ (Views(a.view, cfgFile) \/ \E j \in DOMAIN answers : 1 < j /\ answers[j].to = "update" /\ answers[j].flush > 0)
      BY <1>a, <2>2, <2>3, <2>4 DEF Updated, Views
    <2>7. UNCHANGED <<st.pend, st.inFlight>>
      BY <2>4 DEF SameSt, StFields
    <2>8. CASE \E j \in DOMAIN answers : 1 < j /\ answers[j].to = "update" /\ answers[j].flush > 0
      <3>1. PICK q \in Messages : q.to = "update" /\ q.flush > 0
        BY <2>8 DEF Messages, ToSet
      <3>2. q.flush # 0
        <4>1. q.flush \in 0..st.flushed /\ st.flushed \in Nat
          BY <3>1 DEF Counted
        <4> QED BY <3>1, <4>1
      <3>3. st.inFlight > 0
        BY <3>1, <3>2, PartCounts
      <3> QED BY <2>5, <2>7, <3>3 DEF Settled, Waits
    <2>9. CASE Views(a.view, cfgFile)
      <3>1. ASSUME NEW k \in Shown, Off(k)' PROVE k \in DOMAIN st.pend
        <4> SUFFICES ASSUME k \notin DOMAIN st.pend PROVE FALSE
          OBVIOUS
        <4>1. k \in Keys
          BY DEF Shown
        <4>2. a.view[k] = toView(cfgFile)[k] /\ Known(k, toView(cfgFile)[k])
          BY <2>4, <2>9, <3>1 DEF Views, Off
        <4>3. k \in DOMAIN backendToFrontend(a.view) /\ backendToFrontend(a.view)[k] = a.view[k]
          BY <4>1, <4>2 DEF backendToFrontend
        <4>4. st'.cur[k] = a.view[k]
          BY <2>4, <2>6, <4>1, <4>3 DEF Overlay
        <4> QED BY <2>4, <3>1, <4>2, <4>4 DEF Off
      <3> QED BY <2>5, <2>7, <3>1 DEF Settled, Waits
    <2> QED BY <2>6, <2>8, <2>9
  <1>7. CASE flushSettings
    <2>1. st'.inFlight = st.inFlight + 1 /\ UNCHANGED <<cfgFile, answers>>
      BY <1>7, FlushStarts
    <2>2. st'.inFlight > 0
      BY <1>0, <2>1
    <2> QED BY <1>a, <2>1, <2>2 DEF Settled, Waits
  <1>8. CASE PickMode
    <2>1. UNCHANGED <<cfgFile, st, answers>> /\ \E q : reqs' = Append(reqs, q)
      BY <1>8, ModeSent
    <2>2. ToSet(reqs) \subseteq ToSet(reqs')
      BY <1>0, <2>1, AppendSeq
    <2>3. \A q \in Messages : q \in Messages'
      BY <2>1, <2>2 DEF Messages
    <2> QED BY <1>a, <2>1, <2>3 DEF Settled, Waits, Off
  <1>9. CASE loadFromBackend
    <2>1. UNCHANGED <<cfgFile, answers>>
      BY <1>9, LoadSent
    <2>2. PICK q : reqs' = Append(reqs, q) /\ q.to = "get"
      BY <1>9, LoadSent
    <2>3. q \in Messages'
      BY <1>0, <2>2, AppendSeq DEF Messages
    <2> QED BY <1>a, <2>1, <2>2, <2>3 DEF Settled, Waits
  <1>10. CASE \E k \in EditKeys : \E v \in Inputs(k) : EditSetting(k, v)
    <2>1. PICK e \in EditKeys : \E v \in Inputs(e) : EditSetting(e, v)
      BY <1>10
    <2>2. PICK v \in Inputs(e) : EditSetting(e, v)
      BY <2>1
    <2>3. /\ UNCHANGED <<cfgFile, reqs, answers>> /\ SameSt({"cur", "pend"}, st, st') /\ st.started
          /\ DOMAIN st'.pend = DOMAIN st.pend \cup {e}
      BY <2>2, Edited
    <2>6. \A x \in Keys : x # e => st'.cur[x] = st.cur[x]
      BY <2>2, Edited
    <2>4. UNCHANGED st.inFlight
      BY <2>3 DEF SameSt, StFields
    <2>5. \A k \in Shown : Off(k)' => Off(k) \/ k = e
      BY <2>3, <2>6 DEF Off, Shown
    <2> QED BY <1>a, <2>3, <2>4, <2>5 DEF Settled, Waits, Messages
  <1> QED BY <1>1, <1>2, <1>3, <1>4, <1>5, <1>6, <1>7, <1>8, <1>9, <1>10, StepKinds DEF SettingsSteps

\* Only the timer and the switch of the dashboard send an update.
LEMMA Requested ==
  ASSUME SafeInv, RulesTyped, SwitchInv, SettingsTyped, Counted, [Next]_vars, ~PickMode, ~flushSettings
  PROVE  \A q \in ToSet(reqs') : q \in ToSet(reqs) \/ q.to # "update"
  <1>0. IsSeq(reqs) /\ IsSeq(answers)
    BY DEF SafeInv, Sent, Answered
  <1>1. CASE RulesSteps
    <2>1. PICK K : K = {"update", "get"}
      OBVIOUS
    <2>2. Untouched(reqs, answers, reqs', answers', K)
      BY <1>1, <2>1, RulesPass, PassingBy
    <2> QED BY <2>1, <2>2 DEF Untouched
  <1>2. CASE OtherSteps
    BY <1>2, OthersPass
  <1>3. CASE \E i \in Takable(reqs) : HandleUpdate(i) \/ HandleGet(i)
    <2>1. PICK i \in DOMAIN reqs : reqs' = RemoveAt(reqs, i)
      BY <1>3 DEF Takable, HandleUpdate, HandleGet
    <2> QED BY <1>0, <2>1, SeqFacts, RemoveSeq
  <1>4. CASE \E i \in Takable(answers) : UpdateAnswered(i)
    <2>1. PICK i \in DOMAIN answers : UpdateAnswered(i)
      BY <1>4 DEF Takable
    <2>2. PICK n : n = answers[i].flush
      OBVIOUS
    <2>3. reqs' = reqs \/ AskedBack(st'.inFlight)
      BY <2>1, <2>2, PartTaken
    <2>4. CASE \E q : reqs' = Append(reqs, q) /\ q.to = "get"
      <3>1. PICK q : reqs' = Append(reqs, q) /\ q.to = "get"
        BY <2>4
      <3>2. ToSet(reqs') = ToSet(reqs) \cup {q}
        BY <1>0, <3>1, AppendSeq
      <3> QED BY <3>1, <3>2
    <2> QED BY <2>3, <2>4 DEF AskedBack
  <1>5. CASE (\E i \in Takable(answers) : GetAnswered(i)) \/ \E k \in EditKeys : \E v \in Inputs(k) : EditSetting(k, v)
    BY <1>5 DEF GetAnswered, EditSetting, channel
  <1>6. CASE loadFromBackend
    <2>1. PICK q : reqs' = Append(reqs, q) /\ q.to = "get"
      BY <1>6, LoadSent
    <2>2. ToSet(reqs') = ToSet(reqs) \cup {q}
      BY <1>0, <2>1, AppendSeq
    <2> QED BY <2>1, <2>2
  <1> QED BY <1>1, <1>2, <1>3, <1>4, <1>5, <1>6, StepKinds DEF SettingsSteps

\* The settings page comes to show what is on disk.
LEMMA SettlingStep ==
  ASSUME SafeInv, RulesTyped, SwitchInv, SettingsTyped, Counted, Counted', Settling, [Next]_vars PROVE Settling'
  <1>0. IsSeq(reqs) /\ faults' = faults
    BY FaultsStay DEF SafeInv, Sent
  <1>1. DOMAIN cfgFile' = Keys
    <2>1. CASE cfgFile' = cfgFile
      BY <2>1 DEF Settling
    <2>2. CASE \E i \in Takable(reqs) : HandleUpdate(i)
      <3>1. PICK i \in DOMAIN reqs : HandleUpdate(i)
        BY <2>2 DEF Takable
      <3>2. cfgFile' = cfgFile \/ cfgFile' = applyPatch(cfgFile, reqs[i].section, reqs[i].patch)
        BY <3>1, UpdateServed
      <3> QED BY <3>2, MergeIs DEF Settling
    <2>3. cfgFile' = cfgFile \/ \E i \in Takable(reqs) : HandleUpdate(i)
      <3>1. CASE RulesSteps
        BY <3>1, RulesPass
      <3>2. CASE OtherSteps
        BY <3>2, OthersPass
      <3>3. CASE SettingsSteps
        BY <3>3 DEF SettingsSteps, HandleGet, UpdateAnswered, GetAnswered, flushSettings, PickMode, loadFromBackend,
                    EditSetting, files
      <3> QED BY <3>1, <3>2, <3>3, StepKinds
    <2> QED BY <2>1, <2>2, <2>3
  <1>2. \A q \in ToSet(reqs') : q.to = "update" /\ q.flush = 0 => DOMAIN q.patch = {"defaultMode"}
    <2>1. \A q \in ToSet(reqs) : q.to = "update" /\ q.flush = 0 => DOMAIN q.patch = {"defaultMode"}
      BY DEF Settling
    <2>2. CASE \A q \in ToSet(reqs') : q \in ToSet(reqs) \/ q.to # "update"
      BY <2>1, <2>2
    <2>3. CASE \A q \in ToSet(reqs') : q \in ToSet(reqs) \/ q.flush # 0
      BY <2>1, <2>3
    <2>4. CASE PickMode
      <3>1. PICK q : reqs' = Append(reqs, q) /\ DOMAIN q.patch = {"defaultMode"}
        BY <2>4, ModeSent
      <3>2. ToSet(reqs') = ToSet(reqs) \cup {q}
        BY <1>0, <3>1, AppendSeq
      <3> QED BY <2>1, <3>1, <3>2
    <2>5. CASE flushSettings
      <3>1. PICK t : IsSeq(t) /\ reqs' = reqs \o t /\ \A q \in ToSet(t) : q.flush = st.flushed + 1
        BY <2>5, FlushStarts
      <3>2. ToSet(reqs') = ToSet(reqs) \cup ToSet(t)
        BY <3>1, SentMessages
      <3>3. st.flushed + 1 # 0
        <4>1. st.flushed \in Nat
          BY DEF Counted
        <4> QED BY <4>1
      <3> QED BY <2>3, <3>1, <3>2, <3>3
    <2>6. CASE ~PickMode /\ ~flushSettings
      BY <2>2, <2>6, Requested
    <2> QED BY <2>4, <2>5, <2>6
  <1>3. Settling /\ faults \cap {"reorder", "get"} = {} => Settled' /\ Updated(answers', cfgFile')
    BY SettledStep
  <1> QED BY <1>0, <1>1, <1>2, <1>3 DEF Settling, Settled, Waits

\* What the user may choose has a name.
LEMMA LevelInputs == \A v \in Inputs("ipv6Mode") : Known("ipv6Mode", v)
  <1>1. ~("ipv6Mode" \in PortKeys)
    BY DEF PortKeys
  <1>2. Inputs("ipv6Mode") = {"prefer-v4", "disabled"}
    BY <1>1 DEF Inputs
  <1>3. \A v \in {"prefer-v4", "disabled"} : Known("ipv6Mode", v)
    BY DEF Known
  <1> QED BY <1>2, <1>3

\* The level of IPv6 on disk always has a name.
LEMMA NamingStep == ASSUME SafeInv, RulesTyped, SwitchInv, SettingsTyped, Counted, Settling, Naming, [Next]_vars PROVE Naming'
  <1>0. IsSeq(reqs) /\ IsSeq(answers) /\ "ipv6Mode" \in Keys
    <2>1. "ipv6Mode" \in KeysOf("network") /\ "network" \in Sections
      BY DEF KeysOf, NetworkKeys, Sections
    <2> QED BY <2>1 DEF SafeInv, Sent, Answered, Keys
  <1>a. /\ Known("ipv6Mode", cfgFile["ipv6Mode"]) /\ Named(st.pend)
        /\ \A q \in ToSet(reqs) : q.to = "update" => Named(q.patch)
    BY DEF Naming
  <1>b. ASSUME cfgFile' = cfgFile, st'.pend = st.pend, \A q \in ToSet(reqs') : q \in ToSet(reqs) \/ q.to # "update"
        PROVE  Naming'
    BY <1>a, <1>b DEF Naming
  <1>1. CASE \E i \in Takable(reqs) : HandleUpdate(i)
    <2>1. PICK i \in DOMAIN reqs : HandleUpdate(i)
      BY <1>1 DEF Takable
    <2>2. PICK p : p = reqs[i].patch
      OBVIOUS
    <2>3. /\ reqs[i].to = "update" /\ reqs[i] \in ToSet(reqs) /\ reqs' = RemoveAt(reqs, i) /\ st' = st
          /\ cfgFile' = cfgFile \/ cfgFile' = applyPatch(cfgFile, reqs[i].section, p)
      BY <2>1, <2>2, UpdateServed
    <2>4. Named(p)
      BY <1>a, <2>2, <2>3
    <2>5. Known("ipv6Mode", cfgFile'["ipv6Mode"])
      BY <1>0, <1>a, <2>3, <2>4, MergeIs DEF Named
    <2>6. ToSet(reqs') \subseteq ToSet(reqs)
      BY <1>0, <2>3, SeqFacts, RemoveSeq
    <2> QED BY <1>a, <2>3, <2>5, <2>6 DEF Naming
  <1>2. CASE PickMode
    <2>1. UNCHANGED <<cfgFile, st>>
      BY <1>2, ModeSent
    <2>2. PICK q : reqs' = Append(reqs, q) /\ DOMAIN q.patch = {"defaultMode"}
      BY <1>2, ModeSent
    <2>3. ToSet(reqs') = ToSet(reqs) \cup {q}
      BY <1>0, <2>2, AppendSeq
    <2>4. Named(q.patch)
      BY <2>2 DEF Named
    <2> QED BY <1>a, <2>1, <2>3, <2>4 DEF Naming
  <1>3. CASE flushSettings
    <2>1. PICK t : /\ IsSeq(t) /\ reqs' = reqs \o t
                   /\ \A q \in ToSet(t) : DOMAIN q.patch \subseteq DOMAIN st.pend
                                          /\ \A k \in DOMAIN q.patch : q.patch[k] = st.pend[k]
      BY <1>3, FlushStarts
    <2>2. cfgFile' = cfgFile /\ st'.pend = NoPatch
      BY <1>3, FlushStarts
    <2>3. ToSet(reqs') = ToSet(reqs) \cup ToSet(t)
      BY <2>1, SentMessages
    <2>4. \A q \in ToSet(t) : Named(q.patch)
      BY <1>a, <2>1 DEF Named
    <2>5. Named(NoPatch)
      BY DEF Named, NoPatch
    <2> QED BY <1>a, <2>2, <2>3, <2>4, <2>5 DEF Naming
  <1>4. CASE \E k \in EditKeys : \E v \in Inputs(k) : EditSetting(k, v)
    <2>1. PICK k \in EditKeys : \E v \in Inputs(k) : EditSetting(k, v)
      BY <1>4
    <2>2. PICK v \in Inputs(k) : EditSetting(k, v)
      BY <2>1
    <2>3. /\ UNCHANGED <<cfgFile, reqs>> /\ DOMAIN st'.pend = DOMAIN st.pend \cup {k}
          /\ st'.pend[k] = v /\ \A x \in DOMAIN st.pend : x # k => st'.pend[x] = st.pend[x]
      BY <2>2, Edited
    <2>4. Named(st'.pend)
      <3>1. CASE k = "ipv6Mode"
        BY <2>2, <2>3, <3>1, LevelInputs DEF Named
      <3>2. CASE k # "ipv6Mode"
        BY <1>a, <2>3, <3>2 DEF Named
      <3> QED BY <3>1, <3>2
    <2> QED BY <1>a, <2>3, <2>4 DEF Naming
  <1>5. CASE /\ ~\E i \in Takable(reqs) : HandleUpdate(i)
             /\ ~PickMode /\ ~flushSettings /\ ~\E k \in EditKeys : \E v \in Inputs(k) : EditSetting(k, v)
    <2>1. cfgFile' = cfgFile /\ st'.pend = st.pend
      <3>1. CASE RulesSteps
        BY <3>1, RulesPass
      <3>2. CASE OtherSteps
        BY <3>2, OthersPass
      <3>3. CASE SettingsSteps
        <4>1. CASE \E i \in Takable(reqs) : HandleGet(i)
          BY <4>1, GetServed DEF Takable
        <4>2. CASE \E i \in Takable(answers) : UpdateAnswered(i)
          <5>1. PICK i \in DOMAIN answers : UpdateAnswered(i)
            BY <4>2 DEF Takable
          <5>2. PICK n : n = answers[i].flush
            OBVIOUS
          <5>3. cfgFile' = cfgFile /\ (st' = st \/ SameSt({"open", "inFlight"}, st, st'))
            BY <5>1, <5>2, PartTaken
          <5> QED BY <5>3 DEF SameSt, StFields
        <4>3. CASE \E i \in Takable(answers) : GetAnswered(i)
          <5>1. PICK i \in DOMAIN answers : GetAnswered(i)
            BY <4>3 DEF Takable
          <5>2. cfgFile' = cfgFile /\ SameSt({"cur", "started"}, st, st')
            BY <5>1, GetTaken
          <5> QED BY <5>2 DEF SameSt, StFields
        <4>4. CASE loadFromBackend
          BY <4>4, LoadSent DEF SameSt, StFields
        <4> QED BY <1>5, <3>3, <4>1, <4>2, <4>3, <4>4 DEF SettingsSteps
      <3> QED BY <3>1, <3>2, <3>3, StepKinds
    <2>2. \A q \in ToSet(reqs') : q \in ToSet(reqs) \/ q.to # "update"
      BY <1>5, Requested
    <2> QED BY <1>b, <2>1, <2>2
  <1> QED BY <1>1, <1>2, <1>3, <1>4, <1>5

---------------------------------------------------------------------------
(* A user who waits                                                        *)

\* None and one on their way.
LEMMA TotalNone ==
  ASSUME NEW r, NEW a, IsSeq(r), IsSeq(a), NEW to
  PROVE  /\ Total(r, a, to) \in Nat
         /\ Total(r, a, to) = 0 <=> \A q \in ToSet(r) \cup ToSet(a) : q.to # to
         /\ Total(r, a, to) <= 1 /\ (\E x \in ToSet(a) : x.to = to) => \A q \in ToSet(r) : q.to # to
  <1>1. PICK m, n : m = Cardinality(Under(r, to)) /\ n = Cardinality(Under(a, to))
    OBVIOUS
  <1>2. /\ m \in Nat /\ (m = 0 <=> \A x \in ToSet(r) : x.to # to)
        /\ n \in Nat /\ (n = 0 <=> \A x \in ToSet(a) : x.to # to)
    BY <1>1, NoneOf
  <1>3. Total(r, a, to) = m + n
    BY <1>1 DEF Total
  <1>4. m + n = 0 <=> m = 0 /\ n = 0
    BY <1>2
  <1>5. m + n <= 1 /\ n # 0 => m = 0
    BY <1>2
  <1> QED BY <1>2, <1>3, <1>4, <1>5

\* When all is quiet the rules are neither read nor written.
LEMMA QuietMeans ==
  ASSUME SafeInv, Held, RulesQuiet
  PROVE  /\ \A q \in Messages : q.to # "rules" /\ q.to # "list"
         /\ rulesEvents = 0 /\ waiters = <<>> /\ ~rs.lead /\ rs.reading = "no"
         /\ Total(reqs, answers, "rules") = 0 /\ Total(reqs, answers, "list") = 0
  <1>1. IsSeq(reqs) /\ IsSeq(answers)
    BY DEF SafeInv, Sent, Answered
  <1>2. /\ Under(reqs, "rules") = {} /\ Under(reqs, "list") = {} /\ Under(answers, "rules") = {} /\ Under(answers, "list") = {}
        /\ rulesEvents = 0 /\ waiters = <<>>
    BY DEF RulesQuiet
  <1>3. \A q \in Messages : q.to # "rules" /\ q.to # "list"
    BY <1>2 DEF Under, Messages, ToSet
  <1>4. Total(reqs, answers, "rules") = 0 /\ Total(reqs, answers, "list") = 0
    <2>1. PICK l, u : l = "list" /\ u = "rules"
      OBVIOUS
    <2>2. Total(reqs, answers, u) = 0 /\ Total(reqs, answers, l) = 0
      BY <1>1, <1>3, <2>1, TotalNone DEF Messages
    <2> QED BY <2>1, <2>2
  <1>5. ~rs.lead /\ rs.reading = "no"
    BY <1>3, <1>4 DEF Held
  <1> QED BY <1>2, <1>3, <1>4, <1>5

\* What the page offers: a drag rearranges what it shows, and an undo is not offered.
LEMMA OffersAre ==
  ASSUME NEW m, NEW op \in UserOps(m)
  PROVE  op.k # "revert" /\ (op.k = "drag" => op.next \in Drags(m))
  <1> DEFINE gids == {g.id : g \in ToSet(m.groups)}
             rids == {r.id : r \in Rules(m)}
  <1>1. CASE op \in {[k |-> "drag", next |-> n] : n \in Drags(m)}
    BY <1>1
  <1>2. CASE \/ op \in {[k |-> "groupAdd", name |-> n] : n \in GroupNames}
             \/ op \in {[k |-> "groupEdit", id |-> g, enabled |-> e] : g \in gids, e \in BOOLEAN}
             \/ op \in {[k |-> "groupRemove", id |-> g] : g \in gids}
             \/ op \in {[k |-> "ruleAdd", id |-> g, rule |-> r] : g \in gids, r \in RuleInputs}
    BY <1>2
  <1>3. CASE \/ op \in {[k |-> "ruleEdit", rule |-> [r EXCEPT !.id = i]] : r \in RuleInputs, i \in rids}
             \/ op \in {[k |-> "ruleRemove", id |-> i] : i \in rids}
             \/ op \in {[k |-> "ruleToggle", id |-> i] : i \in rids}
             \/ op \in {[k |-> "ruleMove", id |-> i, dest |-> g] : i \in rids, g \in gids}
             \/ op \in (IF link = <<>> THEN {} ELSE {[k |-> "import", link |-> link]})
    BY <1>3
  <1> HIDE DEF gids, rids
  <1> QED BY <1>1, <1>2, <1>3 DEF UserOps, gids, rids

\* Only a mutation writes the rules, and the user may have sent only one.
LEMMA WaitedServed ==
  ASSUME SafeInv, RulesTyped, Held, Waited, Lagging', NEW i \in DOMAIN reqs, HandleRules(i)
  PROVE  Waited'
  <1>0. IsSeq(reqs) /\ IsSeq(answers)
    BY DEF SafeInv, Sent, Answered
  <1>1. /\ reqs[i].to = "rules" /\ reqs[i] \in ToSet(reqs) /\ reqs' = RemoveAt(reqs, i) /\ UNCHANGED <<rs, waiters>>
    BY RulesServed
  <1>2. PICK a : /\ answers' = Append(answers, a) /\ a.to = "rules" /\ a.ok \in BOOLEAN
                 /\ (~a.ok => rulesFile' = rulesFile)
    BY RulesServed
  <1>3. PICK l, u : l = "list" /\ u = "rules"
    OBVIOUS
  <1>4. Total(reqs', answers', u) = Total(reqs, answers, u)
    <2>1. a.to # "update" /\ a.to = reqs[i].to
      BY <1>1, <1>2
    <2> QED BY <1>0, <1>1, <1>2, <2>1, ServedTotals
  <1>5. /\ ToSet(answers') = ToSet(answers) \cup {a} /\ ToSet(reqs') \subseteq ToSet(reqs)
    BY <1>1, <1>2, ServedMessages
  <1>6. IsSeq(reqs') /\ IsSeq(answers')
    BY <1>0, <1>1, <1>2, SeqFacts, RemoveSeq, AppendSeq
  <1>7. \A q \in ToSet(reqs') : q.to # "rules"
    <2>1. Total(reqs', answers', u) <= 1
      BY <1>3, <1>4 DEF Waited
    <2>2. \E x \in ToSet(answers') : x.to = u
      BY <1>2, <1>3, <1>5
    <2>3. \A q \in ToSet(reqs') : q.to # u
      BY <1>6, <2>1, <2>2, TotalNone
    <2> QED BY <1>3, <2>3
  <1>8. Total(reqs, answers, "list") = 0 /\ rs.boot
    BY <1>1 DEF Waited, Messages
  <1>9. \A q \in ToSet(answers) : q.to # "list"
    BY <1>0, <1>3, <1>8, TotalNone
  <1>10. rs.sig # <<>> /\ rs.sig # <<Load(rulesFile')>> => rs.reading = "push" \/ \E x \in ToSet(answers') : Wrote(x)
    <2>1. CASE a.ok
      BY <1>2, <1>5, <2>1 DEF Wrote
    <2>2. CASE ~a.ok
      BY <1>2, <1>5, <2>2 DEF Waited
    <2> QED BY <1>2, <2>1, <2>2
  <1>11. Total(reqs', answers', "rules") <= 1
    BY <1>3, <1>4 DEF Waited
  <1> QED BY <1>1, <1>2, <1>5, <1>7, <1>8, <1>9, <1>10, <1>11 DEF Waited

\* A read of a user who waits is current when it is answered.
LEMMA WaitedListed ==
  ASSUME SafeInv, RulesTyped, Held, Waited, Lagging', NEW i \in DOMAIN reqs, HandleList(i), "list" \notin faults
  PROVE  Waited'
  <1>0. IsSeq(reqs) /\ IsSeq(answers)
    BY DEF SafeInv, Sent, Answered
  <1>1. /\ reqs[i].to = "list" /\ reqs[i] \in ToSet(reqs) /\ reqs' = RemoveAt(reqs, i)
        /\ UNCHANGED <<rulesFile, rulesEvents, rs, waiters>>
    BY ListServed
  <1>2. PICK a : answers' = Append(answers, a) /\ a.to = "list" /\ a.view = Load(rulesFile) /\ a.ok
    BY ListServed
  <1>3. PICK l, u : l = "list" /\ u = "rules"
    OBVIOUS
  <1>4. Total(reqs', answers', u) = Total(reqs, answers, u)
    <2>1. a.to # "update" /\ a.to = reqs[i].to
      BY <1>1, <1>2
    <2> QED BY <1>0, <1>1, <1>2, <2>1, ServedTotals
  <1>5. /\ ToSet(answers') = ToSet(answers) \cup {a} /\ ToSet(reqs') \subseteq ToSet(reqs)
    BY <1>1, <1>2, ServedMessages
  <1>6. \A q \in ToSet(reqs) : q.to # "rules"
    <2>1. Total(reqs, answers, "list") # 0
      BY <1>0, <1>1, <1>3, TotalNone
    <2> QED BY <2>1 DEF Waited
  <1>7. Total(reqs', answers', "rules") <= 1
    BY <1>3, <1>4 DEF Waited
  <1>8. \A x \in ToSet(answers') : x.to = "list" => x.ok /\ x.view = Load(rulesFile)
    BY <1>2, <1>5 DEF Waited
  <1>9. ~rs.boot => \A q \in Messages' : q.to # "rules"
    BY <1>2, <1>5 DEF Waited, Messages
  <1>10. rs.sig # <<>> /\ rs.sig # <<Load(rulesFile)>> => rs.reading = "push" \/ \E x \in ToSet(answers') : Wrote(x)
    BY <1>5 DEF Waited
  <1> QED BY <1>1, <1>5, <1>6, <1>7, <1>8, <1>9, <1>10 DEF Waited

\* Without a message to the handlers of the rules, the page waits as before.
LEMMA WaitedElsewhere ==
  ASSUME SafeInv, Waited, Lagging', [Next]_vars, SettingsSteps \/ OtherSteps
  PROVE  Waited'
  <1>1. CASE SettingsSteps
    <2>1. PICK K : K = {"rules", "list"}
      OBVIOUS
    <2>2. Untouched(reqs, answers, reqs', answers', K)
      BY <1>1, <2>1, SettingsPass, PassingBy
    <2>3. UNCHANGED <<rs, rulesFile, rulesEvents, waiters>>
      BY <1>1, SettingsPass
    <2>4. /\ \A q : q.to \in {"rules", "list"} =>
                (q \in ToSet(reqs') <=> q \in ToSet(reqs)) /\ (q \in ToSet(answers') <=> q \in ToSet(answers))
          /\ Total(reqs', answers', "rules") = Total(reqs, answers, "rules")
          /\ Total(reqs', answers', "list") = Total(reqs, answers, "list")
      BY <2>1, <2>2 DEF Untouched
    <2> QED BY <2>3, <2>4 DEF Waited, Messages, Wrote
  <1>2. CASE OtherSteps
    <2>1. UNCHANGED <<rulesFile, reqs, answers, rulesEvents, waiters>>
          /\ (rs' = rs \/ (SameBut({"base"}, rs, rs') /\ rs'.base = <<>>))
      BY <1>2, OthersPass
    <2>2. UNCHANGED <<rs.view, rs.boot, rs.sub, rs.sig, rs.reading>> /\ (rs'.base = rs.base \/ rs'.base = <<>>)
      BY <2>1 DEF SameBut, RsFields
    <2> QED BY <2>1, <2>2 DEF Waited, Messages
  <1> QED BY <1>1, <1>2

\* The end of the only mutation.
LEMMA WaitedMutated ==
  ASSUME SafeInv, RulesTyped, Held, Waited, Lagging', NEW i \in DOMAIN answers, MutationAnswered(i)
  PROVE  /\ Waited' /\ \A q \in Messages' : q.to # "rules"
         /\ rs.boot /\ rs'.base = IF Wrote(answers[i]) /\ answers[i].op.k = "revert" THEN <<>> ELSE rs.base
  <1>0. IsSeq(reqs) /\ IsSeq(answers) /\ waiters = <<>>
    BY DEF SafeInv, Sent, Answered, Waited
  <1>1. PICK a : a = answers[i]
    OBVIOUS
  <1>2. /\ a.to = "rules" /\ a \in ToSet(answers) /\ answers' = RemoveAt(answers, i)
        /\ UNCHANGED <<rulesFile, rulesEvents>> /\ waiters' = <<>>
        /\ SameBut({"lead", "reading", "echoes", "base"}, rs, rs')
        /\ rs'.reading = (IF a.ok THEN "push" ELSE rs.reading)
        /\ rs'.base = (IF a.ok /\ a.op.k = "revert" THEN <<>> ELSE rs.base)
        /\ \E t : SentAfter(a, t)
    BY <1>0, <1>1, MutationTaken
  <1>3. PICK t : SentAfter(a, t)
    BY <1>2
  <1>4. IsSeq(t) /\ reqs' = reqs \o t /\ (\A q \in ToSet(t) : q.to = "list") /\ ToSet(reqs') = ToSet(reqs) \cup ToSet(t)
    BY <1>0, <1>3, SentMessages DEF SentAfter
  <1>5. PICK u, b : u = "rules" /\ b = RemoveAt(answers, i)
    OBVIOUS
  <1>6. IsSeq(b) /\ ToSet(b) \subseteq ToSet(answers) /\ b = answers' /\ \A q \in ToSet(answers) : q # a => q \in ToSet(b)
    BY <1>0, <1>1, <1>2, <1>5, SeqFacts, RemoveSeq
  <1>7. Total(reqs, b, u) = 0
    <2>1. Total(reqs, b, u) \in Nat /\ Total(reqs, answers, u) = Total(reqs, b, u) + 1
      BY <1>0, <1>1, <1>2, <1>5, TakenTotals
    <2>2. Total(reqs, answers, u) <= 1
      BY <1>5 DEF Waited
    <2> QED BY <2>1, <2>2
  <1>8. \A q \in ToSet(reqs') \cup ToSet(answers') : q.to # "rules"
    <2>1. \A q \in ToSet(reqs) \cup ToSet(b) : q.to # u
      BY <1>0, <1>6, <1>7, TotalNone
    <2> QED BY <1>4, <1>5, <1>6, <2>1
  <1>9. Total(reqs', answers', "rules") <= 1
    <2>1. Total(reqs \o t, b, u) = 0
      BY <1>0, <1>4, <1>5, <1>6, <1>7, SentTotals
    <2> QED BY <1>4, <1>5, <1>6, <2>1
  <1>10. rs.boot /\ rs.sub /\ rs.sig # <<>>
    BY <1>2 DEF Waited, Messages
  <1>11. UNCHANGED <<rs.view, rs.boot, rs.sub, rs.sig>>
    BY <1>2 DEF SameBut, RsFields
  <1>12. rs.sig # <<Load(rulesFile)>> => rs'.reading = "push" \/ \E x \in ToSet(answers') : Wrote(x)
    <2>1. CASE a.ok
      BY <1>2, <2>1
    <2>2. CASE ~a.ok
      <3>1. ~Wrote(a)
        BY <2>2 DEF Wrote
      <3>2. rs'.reading = rs.reading /\ \A q \in ToSet(answers) : Wrote(q) => q \in ToSet(answers')
        BY <1>2, <1>6, <2>2, <3>1
      <3> QED BY <1>10, <3>2 DEF Waited
    <2> QED BY <2>1, <2>2
  <1>13. Waited'
    BY <1>2, <1>6, <1>8, <1>9, <1>10, <1>11, <1>12 DEF Waited
  <1>14. Wrote(a) <=> a.ok
    BY <1>2 DEF Wrote
  <1> QED BY <1>1, <1>2, <1>8, <1>10, <1>13, <1>14 DEF Messages

\* The end of a read: the page shows what is on disk.
LEMMA WaitedRead ==
  ASSUME SafeInv, RulesTyped, Held, Waited, NEW i \in DOMAIN answers, Refetched(i)
  PROVE  /\ Waited' /\ rs'.view = Load(rulesFile) /\ \A q \in ToSet(reqs) : q.to # "rules"
         /\ ~rs.boot => rs.reading = "push"
  <1>0. IsSeq(reqs) /\ IsSeq(answers)
    BY DEF SafeInv, Sent, Answered
  <1>1. PICK a : a = answers[i]
    OBVIOUS
  <1>2. /\ a.to = "list" /\ a \in ToSet(answers) /\ answers' = RemoveAt(answers, i)
        /\ UNCHANGED <<rulesFile, reqs, rulesEvents, waiters>>
        /\ SameBut({"view", "boot", "reading", "sig"}, rs, rs') /\ rs'.reading = "no"
        /\ rs'.view = (IF a.ok THEN a.view ELSE rs.view) /\ (a.ok => rs'.boot)
        /\ rs'.sig = (IF rs.reading = "push" THEN <<rs'.view>> ELSE rs.sig)
    BY <1>1, ListTaken
  <1>3. a.ok /\ a.view = Load(rulesFile)
    BY <1>2 DEF Waited
  <1>4. PICK l, u, b : l = "list" /\ u = "rules" /\ b = RemoveAt(answers, i)
    OBVIOUS
  <1>5. IsSeq(b) /\ ToSet(b) \subseteq ToSet(answers) /\ b = answers' /\ \A q \in ToSet(answers) : q # a => q \in ToSet(b)
    BY <1>0, <1>1, <1>2, <1>4, SeqFacts, RemoveSeq
  <1>6. Total(reqs, answers, l) # 0 /\ Total(reqs, b, u) = Total(reqs, answers, u)
    <2>1. a.to # u
      BY <1>2, <1>4
    <2>2. Total(reqs, b, u) = Total(reqs, answers, u)
      BY <1>0, <1>1, <1>4, <2>1, TakenTotals
    <2>3. Total(reqs, answers, l) # 0
      BY <1>0, <1>2, <1>4, TotalNone
    <2> QED BY <2>2, <2>3
  <1>7. \A q \in ToSet(reqs) : q.to # "rules"
    BY <1>4, <1>6 DEF Waited
  <1>8. rs.reading # "no"
    BY <1>4, <1>6 DEF Held
  <1>9. rs.sub /\ (~rs.boot => rs.reading = "push") /\ rs'.sub /\ rs'.boot
    <2>1. rs.sub /\ (~rs.boot => rs.reading = "push")
      BY <1>8 DEF Waited
    <2> QED BY <1>2, <1>3, <2>1 DEF SameBut, RsFields
  <1>10. /\ rs'.view = Load(rulesFile) /\ rs'.sig # <<>>
         /\ (rs'.sig # <<Load(rulesFile)>> => \E x \in ToSet(answers') : Wrote(x))
    <2>1. rs'.view = Load(rulesFile)
      BY <1>2, <1>3
    <2>2. CASE rs.reading = "push"
      BY <1>2, <2>1, <2>2
    <2>3. CASE rs.reading # "push"
      <3>1. rs'.sig = rs.sig /\ rs.boot /\ rs.sig # <<>>
        BY <1>2, <1>9, <2>3 DEF Waited
      <3>2. \A x \in ToSet(answers) : Wrote(x) => x \in ToSet(answers')
        BY <1>2, <1>5 DEF Wrote
      <3> QED BY <2>1, <2>3, <3>1, <3>2 DEF Waited
    <2> QED BY <2>2, <2>3
  <1>11. Lagging'
    BY <1>2, <1>10 DEF Lagging
  <1>12. Total(reqs', answers', "rules") <= 1
    BY <1>2, <1>4, <1>5, <1>6 DEF Waited
  <1>13. waiters' = <<>> /\ \A x \in ToSet(answers') : x.to = "list" => x.ok /\ x.view = Load(rulesFile')
    BY <1>2, <1>5 DEF Waited
  <1>14. Waited'
    BY <1>2, <1>7, <1>9, <1>10, <1>11, <1>12, <1>13 DEF Waited
  <1> QED BY <1>7, <1>9, <1>10, <1>14

\* A read is asked for.
LEMMA WaitedTold ==
  ASSUME SafeInv, RulesTyped, Held, Waited, Lagging', RulesChanged \/ ensureBoot
  PROVE  /\ Waited' /\ (\A q \in ToSet(reqs') : q.to # "rules") /\ answers' = answers
         /\ SameBut({"echoes", "reading", "sub"}, rs, rs')
  <1>0. IsSeq(reqs) /\ IsSeq(answers)
    BY DEF SafeInv, Sent, Answered
  <1>1. /\ UNCHANGED <<rulesFile, answers, waiters>> /\ rulesEvents' \in {rulesEvents, rulesEvents - 1}
        /\ reqs' = reqs \/ reqs' = reqs \o ListRequest(rs)
        /\ SameBut({"echoes", "reading", "sub"}, rs, rs')
    BY <1>0, EventTaken, BootAsked DEF SameBut
  <1>2. \A q \in ToSet(reqs) : q.to # "rules"
    <2>1. CASE RulesChanged
      BY <2>1, EventTaken DEF Waited
    <2>2. CASE ensureBoot
      BY <2>2, BootAsked DEF Waited, Messages
    <2> QED BY <2>1, <2>2
  <1>3. PICK t : IsSeq(t) /\ (\A q \in ToSet(t) : q.to = "list") /\ reqs' = reqs \o t
    BY <1>0, <1>1, NothingSent, ListAsked
  <1>4. ToSet(reqs') = ToSet(reqs) \cup ToSet(t)
    BY <1>3, SentMessages
  <1>5. \A q \in ToSet(reqs') : q.to # "rules"
    BY <1>2, <1>3, <1>4
  <1>6. Total(reqs', answers', "rules") <= 1
    <2>1. PICK u : u = "rules"
      OBVIOUS
    <2>2. \A q \in ToSet(t) : q.to # u
      BY <1>3, <2>1
    <2>3. Total(reqs \o t, answers, u) = Total(reqs, answers, u)
      BY <1>0, <1>3, <2>2, SentTotals
    <2> QED BY <1>1, <1>3, <2>1, <2>3 DEF Waited
  <1>7. waiters' = <<>> /\ \A x \in ToSet(answers') : x.to = "list" => x.ok /\ x.view = Load(rulesFile')
    BY <1>1 DEF Waited
  <1>8. UNCHANGED <<rs.view, rs.boot, rs.sig, rs.base>>
    BY <1>1 DEF SameBut, RsFields
  <1>9. Waited'
    <2>1. CASE RulesChanged
      <3>1. rs.boot /\ rs.sub /\ rs.sig # <<>>
        BY <2>1, EventTaken DEF Waited
      <3>2. rs'.sub = rs.sub /\ (rs.reading = "push" => rs'.reading = "push")
        BY <2>1, EventTaken DEF SameBut, RsFields
      <3>3. rs.sig # <<Load(rulesFile)>> => rs.reading = "push" \/ \E x \in ToSet(answers) : Wrote(x)
        BY <3>1 DEF Waited
      <3> QED BY <1>1, <1>5, <1>6, <1>7, <1>8, <3>1, <3>2, <3>3 DEF Waited
    <2>2. CASE ensureBoot
      <3>1. ~rs.boot /\ rs'.sub /\ rs'.reading = "push" /\ rulesEvents' = rulesEvents
        BY <2>2, BootAsked
      <3>2. /\ \A q \in Messages : q.to # "rules"
            /\ rulesEvents = 0 /\ rs.base = <<>> /\ rs.sig = <<>>
        BY <3>1 DEF Waited
      <3>3. \A q \in Messages' : q.to # "rules"
        BY <1>1, <1>5, <3>2 DEF Messages
      <3> QED BY <1>1, <1>5, <1>6, <1>7, <1>8, <3>1, <3>2, <3>3 DEF Waited
    <2> QED BY <2>1, <2>2
  <1> QED BY <1>1, <1>5, <1>9

\* The user acts when all is quiet.
LEMMA WaitedAsked ==
  ASSUME SafeInv, RulesTyped, Held, Waited, Lagging', EditRules \/ Dismiss, "hasty" \notin faults
  PROVE  /\ Waited' /\ RulesQuiet /\ rs.boot /\ rs.view = Load(rulesFile)
         /\ rs.sig = <<Load(rulesFile)>>
         /\ \/ UNCHANGED <<rs, reqs>>
            \/ /\ SameBut({"base", "lead"}, rs, rs') /\ rs'.base = (IF rs.base = <<>> THEN <<rs.view>> ELSE rs.base)
               /\ \E q : /\ ToSet(reqs') = ToSet(reqs) \cup {q} /\ q.to = "rules"
                         /\ q.op.k = "revert" => Dismiss /\ rs.base # <<>> /\ q.op.next = rs.base[1]
  <1>0. IsSeq(reqs) /\ IsSeq(answers)
    BY DEF SafeInv, Sent, Answered
  <1>1. RulesQuiet /\ rs.boot /\ UNCHANGED <<rulesFile, answers, rulesEvents>>
    BY DEF EditRules, Dismiss, Patient, files, events
  <1>2. /\ \A q \in Messages : q.to # "rules" /\ q.to # "list"
        /\ rulesEvents = 0 /\ waiters = <<>> /\ ~rs.lead /\ rs.reading = "no"
        /\ Total(reqs, answers, "rules") = 0 /\ Total(reqs, answers, "list") = 0
    BY <1>1, QuietMeans
  <1>3. rs.view = Load(rulesFile)
    BY <1>1, <1>2 DEF Waited, Lagging, Messages, Reading, Wrote
  <1>4. rs.sub /\ rs.sig = <<Load(rulesFile)>>
    BY <1>1, <1>2 DEF Waited, Messages, Wrote
  <1>5. UNCHANGED <<rs, reqs, waiters>>
        \/ \E op : /\ applyMutation(op) /\ (op.k = "drag" => op.next \in Drags(rs.view))
                   /\ (op.k = "revert" => Dismiss /\ rs.base # <<>> /\ op.next = rs.base[1])
    <2>1. CASE EditRules
      <3>1. PICK op \in UserOps(rs.view) : applyMutation(op)
        BY <2>1 DEF EditRules
      <3>2. PICK m : m = rs.view
        OBVIOUS
      <3>3. op.k # "revert" /\ (op.k = "drag" => op.next \in Drags(m))
        BY <3>1, <3>2, OffersAre
      <3> QED BY <3>1, <3>2, <3>3
    <2>2. CASE Dismiss
      <3> DEFINE op == [k |-> "revert", next |-> rs.base[1]]
      <3>1. UNCHANGED <<rs, reqs, waiters>> \/ (rs.base # <<>> /\ applyMutation(op))
        BY <2>2 DEF Dismiss
      <3>2. op.k = "revert" /\ op.next = rs.base[1]
        OBVIOUS
      <3> HIDE DEF op
      <3> QED BY <2>2, <3>1, <3>2
    <2> QED BY <2>1, <2>2
  <1>6. CASE UNCHANGED <<rs, reqs, waiters>>
    <2>1. Waited'
      BY <1>1, <1>6 DEF Waited, Messages
    <2> QED BY <1>1, <1>3, <1>4, <1>6, <2>1
  <1>7. CASE \E op : /\ applyMutation(op) /\ (op.k = "drag" => op.next \in Drags(rs.view))
                     /\ (op.k = "revert" => Dismiss /\ rs.base # <<>> /\ op.next = rs.base[1])
    <2>1. PICK op : /\ applyMutation(op) /\ (op.k = "drag" => op.next \in Drags(rs.view))
                    /\ (op.k = "revert" => Dismiss /\ rs.base # <<>> /\ op.next = rs.base[1])
      BY <1>7
    <2>2. /\ waiters' = waiters /\ SameBut({"base", "lead"}, rs, rs')
          /\ rs'.base = (IF rs.base = <<>> THEN <<rs.view>> ELSE rs.base)
          /\ \E q : reqs' = Append(reqs, q) /\ q.to = "rules" /\ q.op = op /\ q.lead
      BY <1>1, <1>2, <2>1, MutationAsked
    <2>3. PICK q : reqs' = Append(reqs, q) /\ q.to = "rules" /\ q.op = op /\ q.lead
      BY <2>2
    <2>4. PICK t : t = <<q>>
      OBVIOUS
    <2>5. IsSeq(t) /\ reqs' = reqs \o t /\ ToSet(t) = {q}
      BY <1>0, <2>3, <2>4, AppendIs, SingleSeq
    <2>6. ToSet(reqs') = ToSet(reqs) \cup {q}
      BY <2>5, SentMessages
    <2>7. PICK l, u : l = "list" /\ u = "rules"
      OBVIOUS
    <2>8. q.to = u /\ \A x \in ToSet(t) : x.to # l
      BY <2>3, <2>5, <2>7
    <2>9. Total(reqs \o t, answers, l) = Total(reqs, answers, l)
      BY <1>0, <2>5, <2>8, SentTotals
    <2>10. Total(reqs \o t, answers, u) = Total(reqs, answers, u) + 1
      <3>1. Cardinality(Under(t, u)) = 1
        BY <2>4, <2>8, OneOf
      <3> QED BY <1>0, <2>5, <3>1, SentTotals
    <2>11. Total(reqs', answers', "rules") <= 1 /\ Total(reqs', answers', "list") = 0
      BY <1>1, <1>2, <2>5, <2>7, <2>9, <2>10
    <2>12. \A x \in ToSet(reqs') : x.to = "rules" => x = q
      BY <1>2, <2>6 DEF Messages
    <2>13. UNCHANGED <<rs.view, rs.boot, rs.sig, rs.sub, rs.reading>>
      BY <2>2 DEF SameBut, RsFields
    <2>14. \A x \in ToSet(answers') : x.to # "list"
      BY <1>1, <1>2 DEF Messages
    <2>15. Waited'
      BY <1>1, <1>2, <1>3, <1>4, <2>1, <2>2, <2>3, <2>11, <2>12, <2>13, <2>14 DEF Waited
    <2>16. \E x : /\ ToSet(reqs') = ToSet(reqs) \cup {x} /\ x.to = "rules"
                  /\ x.op.k = "revert" => Dismiss /\ rs.base # <<>> /\ x.op.next = rs.base[1]
      BY <2>1, <2>3, <2>6
    <2> QED BY <1>1, <1>3, <1>4, <2>2, <2>15, <2>16
  <1> QED BY <1>5, <1>6, <1>7

\* A user who waits has one mutation on its way at most.
LEMMA SingleStep ==
  ASSUME SafeInv, SafeInv', RulesTyped, Held, Held', Single, [Next]_vars PROVE Single'
  <1>0. faults' = faults
    BY FaultsStay
  <1> SUFFICES ASSUME faults \cap {"list", "hasty"} = {} PROVE Waited'
    BY <1>0 DEF Single
  <1>1. Waited /\ Lagging /\ "list" \notin faults /\ "hasty" \notin faults
    BY DEF Single, Waited
  <1>2. CASE \E i \in Takable(answers) : Refetched(i)
    BY <1>1, <1>2, WaitedRead DEF Takable
  <1>3. CASE ~\E i \in Takable(answers) : Refetched(i)
    <2>1. Lagging'
      BY <1>1, <1>3, LaggingStep
    <2>2. CASE \E i \in Takable(reqs) : HandleRules(i) \/ HandleList(i)
      BY <1>1, <2>1, <2>2, WaitedServed, WaitedListed DEF Takable
    <2>3. CASE \E i \in Takable(answers) : MutationAnswered(i)
      BY <1>1, <2>1, <2>3, WaitedMutated DEF Takable
    <2>4. CASE RulesChanged \/ ensureBoot
      BY <1>1, <2>1, <2>4, WaitedTold
    <2>5. CASE EditRules \/ Dismiss
      BY <1>1, <2>1, <2>5, WaitedAsked
    <2>6. CASE SettingsSteps \/ OtherSteps
      BY <1>1, <2>1, <2>6, WaitedElsewhere
    <2> QED BY <1>3, <2>2, <2>3, <2>4, <2>5, <2>6, StepKinds DEF RulesSteps
  <1> QED BY <1>2, <1>3

---------------------------------------------------------------------------
(* The snapshot of the toast and the controller                            *)

\* The last of a sequence.
LEMMA LastAdded ==
  ASSUME NEW s, NEW e, IsSeq(s)
  PROVE  LET t == Append(s, e) IN IsSeq(t) /\ t # <<>> /\ t[Len(t)] = e /\ ToSet(t) = ToSet(s) \cup {e}
  <1>1. PICK S : s \in Seq(S)
    BY DEF IsSeq
  <1>2. PICK T : T = S \cup {e}
    OBVIOUS
  <1>3. s \in Seq(T) /\ e \in T
    BY <1>1, <1>2
  <1>4. /\ Len(Append(s, e)) = Len(s) + 1 /\ Len(s) \in Nat
        /\ Append(s, e)[Len(s) + 1] = e /\ Append(s, e) # <<>>
    BY <1>3
  <1> QED BY <1>4, AppendSeq

\* What is left when the first is taken.
LEMMA TailIs ==
  ASSUME NEW s, IsSeq(s), s # <<>>
  PROVE  /\ IsSeq(Tail(s)) /\ Head(s) \in ToSet(s) /\ ToSet(Tail(s)) \subseteq ToSet(s) /\ Tail(s) # s
         /\ Tail(s) # <<>> => Tail(s)[Len(Tail(s))] = s[Len(s)]
         /\ Tail(s) = <<>> => s[Len(s)] = Head(s)
  <1>1. PICK S : s \in Seq(S)
    BY DEF IsSeq
  <1>2. PICK n \in Nat : n = Len(s)
    BY <1>1
  <1>3. PICK t : t = Tail(s)
    OBVIOUS
  <1>4. n >= 1 /\ DOMAIN s = 1..n /\ Head(s) = s[1]
    BY <1>1, <1>2
  <1>5. t \in Seq(S) /\ Len(t) = n - 1 /\ \A i \in 1..(n - 1) : t[i] = s[i + 1]
    BY <1>1, <1>2, <1>3, <1>4
  <1>6. DOMAIN t = 1..(n - 1) /\ (t = <<>> <=> n = 1)
    BY <1>4, <1>5
  <1>7. IsSeq(t) /\ Head(s) \in ToSet(s) /\ t # s
    BY <1>2, <1>4, <1>5 DEF IsSeq, ToSet
  <1>8. ToSet(t) \subseteq ToSet(s)
    <2>1. \A i \in 1..(n - 1) : i + 1 \in 1..n
      BY <1>4
    <2> QED BY <1>4, <1>5, <1>6, <2>1 DEF ToSet
  <1>9. t # <<>> => t[Len(t)] = s[n]
    <2>1. n # 1 => n - 1 \in 1..(n - 1) /\ (n - 1) + 1 = n
      BY <1>4
    <2> QED BY <1>5, <1>6, <2>1
  <1>10. t = <<>> => s[n] = Head(s)
    BY <1>4, <1>6
  <1> QED BY <1>2, <1>3, <1>7, <1>8, <1>9, <1>10

\* The controller's steps.
LEMMA ControlMoves ==
  ASSUME BuiltInv, Connect \/ ReadNetwork \/ Disconnect \/ Reconnect
  PROVE  /\ ctl'.rules = ctl.rules /\ ctl'.state # "connected" /\ snap' = snap
         /\ Connect \/ ReadNetwork => ctl.state \in {"idle", "reading"} /\ statusEvents' = statusEvents
         /\ ReadNetwork => ctl.state = "reading" /\ ctl'.state = "building"
         /\ Disconnect => ctl'.state = "idle"
         /\ Connect \/ Reconnect => ctl'.state = "reading"
         /\ Disconnect \/ Reconnect => \E e : statusEvents' = Append(statusEvents, e) /\ e.status = "idle"
  <1>0. DOMAIN ctl = CtlFields
    BY DEF BuiltInv
  <1>1. CASE Connect
    <2>1. PICK mode : ctl' = [ctl EXCEPT !.state = "reading", !.mode = mode]
      BY <1>1 DEF Connect
    <2>2. ctl'.state = "reading" /\ ctl'.rules = ctl.rules
      BY <1>0, <2>1 DEF CtlFields
    <2>3. ctl.state = "idle" /\ snap' = snap /\ statusEvents' = statusEvents
      BY <1>1 DEF Connect, events, ui
    <2>4. ~ReadNetwork /\ ~Disconnect /\ ~Reconnect
      BY <2>3 DEF ReadNetwork, Disconnect, Reconnect
    <2> QED BY <2>2, <2>3, <2>4
  <1>2. CASE ReadNetwork
    <2>1. ctl' = [ctl EXCEPT !.state = "building", !.net = cfgFile]
      BY <1>2 DEF ReadNetwork
    <2>2. ctl'.state = "building" /\ ctl'.rules = ctl.rules
      BY <1>0, <2>1 DEF CtlFields
    <2>3. ctl.state = "reading" /\ snap' = snap /\ statusEvents' = statusEvents
      BY <1>2 DEF ReadNetwork, events, ui
    <2>4. ~Connect /\ ~Disconnect /\ ~Reconnect
      BY <2>3 DEF Connect, Disconnect, Reconnect
    <2> QED BY <2>2, <2>3, <2>4
  <1>3. CASE Disconnect
    <2>1. ctl' = [ctl EXCEPT !.state = "idle"]
      BY <1>3 DEF Disconnect
    <2>2. ctl'.state = "idle" /\ ctl'.rules = ctl.rules
      BY <1>0, <2>1 DEF CtlFields
    <2> DEFINE e == [status |-> "idle"]
    <2>3. e.status = "idle" /\ statusEvents' = Append(statusEvents, e)
      BY <1>3 DEF Disconnect
    <2> HIDE DEF e
    <2>4. ctl.state = "connected" /\ snap' = snap
      BY <1>3 DEF Disconnect, ui
    <2>5. ~Connect /\ ~ReadNetwork /\ ~Reconnect
      <3>1. ~Reconnect
        <4>1. Reconnect => ctl'.state = "reading"
          <5>1. Reconnect => ctl' = [ctl EXCEPT !.state = "reading", !.mode = snap[1].mode]
            BY DEF Reconnect
          <5> QED BY <1>0, <5>1 DEF CtlFields
        <4> QED BY <2>2, <4>1
      <3> QED BY <2>4, <3>1 DEF Connect, ReadNetwork
    <2> QED BY <2>2, <2>3, <2>4, <2>5
  <1>4. CASE Reconnect
    <2>1. ctl' = [ctl EXCEPT !.state = "reading", !.mode = snap[1].mode]
      BY <1>4 DEF Reconnect
    <2>2. ctl'.state = "reading" /\ ctl'.rules = ctl.rules
      BY <1>0, <2>1 DEF CtlFields
    <2> DEFINE e == [status |-> "idle"]
    <2>3. e.status = "idle" /\ statusEvents' = Append(statusEvents, e)
      BY <1>4 DEF Reconnect
    <2> HIDE DEF e
    <2>4. ctl.state = "connected" /\ snap' = snap
      BY <1>4 DEF Reconnect
    <2>5. ~Connect /\ ~ReadNetwork /\ ~Disconnect
      <3>1. ~Disconnect
        <4>1. Disconnect => ctl'.state = "idle"
          <5>1. Disconnect => ctl' = [ctl EXCEPT !.state = "idle"]
            BY DEF Disconnect
          <5> QED BY <1>0, <5>1 DEF CtlFields
        <4> QED BY <2>2, <4>1
      <3> QED BY <2>4, <3>1 DEF Connect, ReadNetwork
    <2> QED BY <2>2, <2>3, <2>4, <2>5
  <1> QED BY <1>1, <1>2, <1>3, <1>4

\* Outside ReadNetwork the controller keeps the settings it has read.
LEMMA NetKept ==
  ASSUME BuiltInv, OtherSteps, ~ReadNetwork PROVE ctl'.net = ctl.net
  <1>0. DOMAIN ctl = CtlFields
    BY DEF BuiltInv
  <1>1. CASE Connect
    <2>1. PICK mode : ctl' = [ctl EXCEPT !.state = "reading", !.mode = mode]
      BY <1>1 DEF Connect
    <2> QED BY <1>0, <2>1 DEF CtlFields
  <1>2. CASE Disconnect
    BY <1>0, <1>2 DEF Disconnect, CtlFields
  <1>3. CASE Reconnect
    BY <1>0, <1>3 DEF Reconnect, CtlFields
  <1>4. CASE buildConfigs
    <2>1. ctl' = [ctl EXCEPT !.state = "idle"]
          \/ \E m, doc, in : ctl' = [ctl EXCEPT !.state = "connected", !.rules = m, !.doc = doc, !.in = in]
      BY <1>4 DEF buildConfigs
    <2> QED BY <1>0, <2>1 DEF CtlFields
  <1>5. CASE rulesExportGroup \/ StatusEvent \/ UNCHANGED vars
    BY <1>5 DEF rulesExportGroup, StatusEvent, vars
  <1> QED BY <1>1, <1>2, <1>3, <1>4, <1>5 DEF OtherSteps

\* A build that succeeds is published with the settings it used, and keeps the rules it read.
LEMMA BuildMoves ==
  ASSUME BuiltInv, buildConfigs
  PROVE  /\ ctl.state = "building" /\ snap' = snap
         /\ \E e : /\ statusEvents' = Append(statusEvents, e)
                   /\ \/ e.status = "connected" /\ e.net = ctl.net /\ ctl'.state = "connected" /\ ctl'.rules = Load(rulesFile)
                      \/ e.status = "error" /\ ctl'.state = "idle" /\ ctl'.rules = ctl.rules
  <1>0. DOMAIN ctl = CtlFields
    BY DEF BuiltInv
  <1>1. ctl.state = "building" /\ snap' = snap
    BY DEF buildConfigs, ui
  <1> DEFINE good == [status |-> "connected", mode |-> ctl.mode, net |-> ctl.net]
             bad  == [status |-> "error"]
  <1>2. good.status = "connected" /\ good.net = ctl.net /\ bad.status = "error"
    OBVIOUS
  <1>3. \/ /\ \E doc, in : ctl' = [ctl EXCEPT !.state = "connected", !.rules = Load(rulesFile), !.doc = doc, !.in = in]
           /\ statusEvents' = Append(statusEvents, good)
        \/ ctl' = [ctl EXCEPT !.state = "idle"] /\ statusEvents' = Append(statusEvents, bad)
    BY DEF buildConfigs
  <1> HIDE DEF good, bad
  <1>4. CASE /\ \E doc, in : ctl' = [ctl EXCEPT !.state = "connected", !.rules = Load(rulesFile), !.doc = doc, !.in = in]
             /\ statusEvents' = Append(statusEvents, good)
    <2>1. PICK doc, in : ctl' = [ctl EXCEPT !.state = "connected", !.rules = Load(rulesFile), !.doc = doc, !.in = in]
      BY <1>4
    <2>2. ctl'.state = "connected" /\ ctl'.rules = Load(rulesFile)
      BY <1>0, <2>1 DEF CtlFields
    <2> QED BY <1>1, <1>2, <1>4, <2>2
  <1>5. CASE ctl' = [ctl EXCEPT !.state = "idle"] /\ statusEvents' = Append(statusEvents, bad)
    <2>1. ctl'.state = "idle" /\ ctl'.rules = ctl.rules
      BY <1>0, <1>5 DEF CtlFields
    <2> QED BY <1>1, <1>2, <1>5, <2>1
  <1> QED BY <1>3, <1>4, <1>5

\* A status arrives at the interface.
LEMMA StatusMoves ==
  ASSUME SafeInv, StatusEvent
  PROVE  /\ statusEvents # <<>> /\ statusEvents' = Tail(statusEvents) /\ ctl' = ctl
         /\ Head(statusEvents).status = "connected" =>
              /\ rs'.base = IF rs.sub THEN <<>> ELSE rs.base
              /\ \E x : /\ snap' = <<x>> /\ DOMAIN x = {"mode", "net", "sig"}
                        /\ x.net = Head(statusEvents).net /\ x.sig = rs.sig
         /\ Head(statusEvents).status # "connected" => snap' = <<>> /\ rs' = rs
  <1>0. DOMAIN rs = RsFields
    BY DEF SafeInv, Guarded
  <1>1. statusEvents # <<>> /\ statusEvents' = Tail(statusEvents) /\ ctl' = ctl
    BY DEF StatusEvent
  <1>2. PICK e : e = Head(statusEvents)
    OBVIOUS
  <1>3. CASE e.status = "connected"
    <2> DEFINE x == [mode |-> e.mode, net |-> e.net, sig |-> rs.sig]
               w == [rs EXCEPT !.base = <<>>]
    <2>1. snap' = <<x>> /\ rs' = IF rs.sub THEN w ELSE rs
      BY <1>2, <1>3 DEF StatusEvent, Snapshot, clearRulesRevertBaseline
    <2>2. DOMAIN x = {"mode", "net", "sig"} /\ x.net = e.net /\ x.sig = rs.sig
      OBVIOUS
    <2>3. w.base = <<>>
      BY <1>0 DEF RsFields
    <2> HIDE DEF x, w
    <2> QED BY <1>1, <1>2, <1>3, <2>1, <2>2, <2>3
  <1>4. CASE e.status # "connected"
    <2>1. snap' = <<>> /\ rs' = rs
      BY <1>2, <1>4 DEF StatusEvent
    <2> QED BY <1>1, <1>2, <1>4, <2>1
  <1> QED BY <1>3, <1>4

\* Only a read and a status change the snapshot.
LEMMA SnapKept ==
  ASSUME SafeInv, RulesTyped, RulesSteps, ~\E i \in Takable(answers) : Refetched(i) PROVE snap' = snap
  <1>1. CASE \E i \in Takable(reqs) : HandleRules(i) \/ HandleList(i)
    BY <1>1 DEF HandleRules, HandleList, ui
  <1>2. CASE (\E i \in Takable(answers) : MutationAnswered(i)) \/ RulesChanged \/ ensureBoot \/ EditRules \/ Dismiss
    BY <1>2 DEF MutationAnswered, RulesChanged, ensureBoot, EditRules, Dismiss
  <1> QED BY <1>1, <1>2 DEF RulesSteps

\* The status that was published last is the controller's.
LEMMA ToldStep == ASSUME SafeInv, RulesTyped, ControlTyped, BuiltInv, Told, [Next]_vars PROVE Told'
  <1>0. IsSeq(statusEvents) /\ IsSeq(snap) /\ Len(snap) <= 1 /\ \A s \in ToSet(snap) : DOMAIN s = {"mode", "net", "sig"}
    BY DEF Told, ControlTyped
  <1>1. ASSUME UNCHANGED <<snap, statusEvents, ctl>> PROVE Told'
    BY <1>1 DEF Told, Tells
  <1>2. CASE \E i \in Takable(answers) : Refetched(i)
    <2>1. PICK i \in DOMAIN answers : Refetched(i)
      BY <1>2 DEF Takable
    <2>2. PICK a : a = answers[i]
      OBVIOUS
    <2>3. UNCHANGED <<statusEvents, ctl>>
          /\ (snap' = snap \/ (snap # <<>> /\ snap' = <<[snap[1] EXCEPT !.sig = rs'.sig]>>))
      BY <2>1, <2>2, ListTaken
    <2>4. CASE snap # <<>> /\ snap' = <<[snap[1] EXCEPT !.sig = rs'.sig]>>
      <3>1. PICK x : x = [snap[1] EXCEPT !.sig = rs'.sig]
        OBVIOUS
      <3>2. snap[1] \in ToSet(snap)
        <4>1. 1 \in DOMAIN snap
          BY <1>0, <2>4 DEF IsSeq
        <4> QED BY <4>1 DEF ToSet
      <3>3. DOMAIN x = {"mode", "net", "sig"} /\ x.net = snap[1].net
        BY <1>0, <3>1, <3>2
      <3>4. snap' = <<x>> /\ ToSet(snap') = {x} /\ snap'[1] = x /\ snap' # <<>>
        BY <2>4, <3>1, SingleSeq
      <3> QED BY <2>3, <2>4, <3>3, <3>4 DEF Told, Tells
    <2> QED BY <1>1, <2>3, <2>4
  <1>3. CASE RulesSteps /\ ~\E i \in Takable(answers) : Refetched(i)
    BY <1>1, <1>3, SnapKept, RulesPass
  <1>4. CASE SettingsSteps
    BY <1>1, <1>4, SettingsPass
  <1>5. CASE Connect \/ ReadNetwork
    <2>1. ctl'.state # "connected" /\ snap' = snap /\ statusEvents' = statusEvents /\ ctl.state # "connected"
      BY <1>5, ControlMoves
    <2> QED BY <2>1 DEF Told
  <1>6. CASE Disconnect \/ Reconnect
    <2>1. ctl'.state # "connected" /\ snap' = snap
      BY <1>6, ControlMoves
    <2>2. PICK e : statusEvents' = Append(statusEvents, e) /\ e.status = "idle"
      BY <1>6, ControlMoves
    <2>3. IsSeq(statusEvents') /\ statusEvents' # <<>> /\ statusEvents'[Len(statusEvents')] = e
      BY <1>0, <2>2, LastAdded
    <2> QED BY <1>0, <2>1, <2>2, <2>3 DEF Told
  <1>7. CASE buildConfigs
    <2>1. PICK e : /\ statusEvents' = Append(statusEvents, e)
                   /\ \/ e.status = "connected" /\ e.net = ctl.net /\ ctl'.state = "connected"
                      \/ e.status = "error" /\ ctl'.state = "idle"
      BY <1>7, BuildMoves
    <2>2. IsSeq(statusEvents') /\ statusEvents' # <<>> /\ statusEvents'[Len(statusEvents')] = e
      BY <1>0, <2>1, LastAdded
    <2>3. snap' = snap
      BY <1>7, BuildMoves
    <2>4. ctl'.net = ctl.net
      <3>1. ~ReadNetwork
        BY <1>7 DEF buildConfigs, ReadNetwork
      <3> QED BY <1>7, <3>1, NetKept DEF OtherSteps
    <2> QED BY <1>0, <2>1, <2>2, <2>3, <2>4 DEF Told, Tells
  <1>8. CASE StatusEvent
    <2>1. PICK s, t, e : s = statusEvents /\ t = Tail(s) /\ e = Head(s)
      OBVIOUS
    <2>2. s # <<>> /\ statusEvents' = t /\ ctl' = ctl
      BY <1>8, <2>1, StatusMoves
    <2>3. /\ IsSeq(t) /\ (t # <<>> => t[Len(t)] = s[Len(s)]) /\ (t = <<>> => s[Len(s)] = e)
      BY <1>0, <2>1, <2>2, TailIs
    <2>4. IF ctl.state = "connected" THEN Tells(s[Len(s)]) ELSE s[Len(s)].status # "connected"
      BY <2>1, <2>2 DEF Told
    <2>5. CASE e.status = "connected"
      <3>1. PICK x : snap' = <<x>> /\ DOMAIN x = {"mode", "net", "sig"} /\ x.net = e.net
        BY <1>8, <2>1, <2>5, StatusMoves
      <3>2. ToSet(snap') = {x} /\ snap'[1] = x /\ snap' # <<>>
        BY <3>1, SingleSeq
      <3>3. CASE t = <<>>
        <4>1. s[Len(s)] = e
          BY <2>3, <3>3
        <4>2. ctl.state = "connected" /\ e.net = ctl.net
          BY <2>4, <2>5, <4>1 DEF Tells
        <4> QED BY <2>2, <2>3, <3>1, <3>2, <3>3, <4>2 DEF Told
      <3>4. CASE t # <<>>
        BY <2>2, <2>3, <2>4, <3>1, <3>2, <3>4 DEF Told, Tells
      <3> QED BY <3>3, <3>4
    <2>6. CASE e.status # "connected"
      <3>1. snap' = <<>>
        BY <1>8, <2>1, <2>6, StatusMoves
      <3>2. ToSet(snap') = {}
        BY <3>1, NoSeq
      <3>3. CASE t = <<>>
        <4>1. ctl.state # "connected"
          BY <2>3, <2>4, <2>6, <3>3 DEF Tells
        <4> QED BY <2>2, <2>3, <3>1, <3>2, <3>3, <4>1 DEF Told
      <3>4. CASE t # <<>>
        BY <2>2, <2>3, <2>4, <3>1, <3>2, <3>4 DEF Told, Tells
      <3> QED BY <3>3, <3>4
    <2> QED BY <2>5, <2>6
  <1>9. CASE rulesExportGroup \/ UNCHANGED vars
    BY <1>1, <1>9 DEF rulesExportGroup, vars, events, ui
  <1> QED BY <1>2, <1>3, <1>4, <1>5, <1>6, <1>7, <1>8, <1>9, StepKinds DEF OtherSteps

---------------------------------------------------------------------------
(* Rules edits and connects that do not overlap                            *)

\* An undo writes the model it carries.
LEMMA UndoWrites ==
  ASSUME NEW op, op.k = "revert", NEW m, Serve(op, m).ok PROVE Serve(op, m).model = op.next
  <1>1. Serve(op, m) = ReplaceModel(m, op.next)
    BY DEF Serve
  <1>2. Refuse(m).ok = FALSE /\ Accept(op.next).model = op.next
    BY DEF Refuse, Accept
  <1> QED BY <1>1, <1>2 DEF ReplaceModel

\* What the user's edits of the rules rest on, in parts.
TrackedQuiet ==
  Connecting =>
    /\ \A q \in Messages : q.to # "rules"
    /\ rulesEvents = 0 /\ (rs.sig = <<>> \/ rs.sig = <<Load(rulesFile)>>)

\* An edit on its way has a baseline.
TrackedBase == (\E q \in Messages : q.to = "rules") => rs.base # <<>>

\* The baseline, or the file, is what the tunnel was built from.
TrackedBuilt ==
  ctl.state = "connected" =>
    /\ rs.base = <<>> \/ statusEvents # <<>> => Load(rulesFile) = ctl.rules
    /\ rs.base # <<>> /\ statusEvents = <<>> => rs.base[1] = ctl.rules
    /\ statusEvents = <<>> /\ snap # <<>> => snap[1].sig = <<ctl.rules>> \/ (snap[1].sig = <<>> /\ rs.sig = <<>>)

\* And so is what an undo writes.
TrackedUndo ==
  /\ \A q \in Messages : q.to = "rules" /\ q.op.k = "revert" => q.op.next = ctl.rules
  /\ \A a \in ToSet(answers) : Wrote(a) /\ a.op.k = "revert" => Load(rulesFile) = ctl.rules

\* These are the parts.
LEMMA TrackedParts == Tracked <=> TrackedQuiet /\ TrackedBase /\ TrackedBuilt /\ TrackedUndo
  BY DEF Tracked, TrackedQuiet, TrackedBase, TrackedBuilt, TrackedUndo

\* A running tunnel whose status has not arrived has just been built.
LEMMA JustBuilt ==
  ASSUME Told, ctl.state = "connected", statusEvents # <<>> PROVE Connecting
  <1>1. Tells(statusEvents[Len(statusEvents)])
    BY DEF Told
  <1>2. statusEvents[Len(statusEvents)] \in ToSet(statusEvents)
    <2>1. IsSeq(statusEvents)
      BY DEF Told
    <2>2. PICK S : statusEvents \in Seq(S)
      BY <2>1 DEF IsSeq
    <2>3. Len(statusEvents) \in DOMAIN statusEvents
      BY <2>2
    <2> QED BY <2>3 DEF ToSet
  <1> QED BY <1>1, <1>2 DEF Tells, Connecting

\* A mutation is served: no connect is under way.
LEMMA TrackedServed ==
  ASSUME SafeInv, RulesTyped, Waited, Told, Tracked, NEW i \in DOMAIN reqs, HandleRules(i) PROVE Tracked'
  <1>0. IsSeq(reqs) /\ IsSeq(answers)
    BY DEF SafeInv, Sent, Answered
  <1>1. /\ reqs[i].to = "rules" /\ reqs[i] \in ToSet(reqs) /\ reqs' = RemoveAt(reqs, i)
        /\ UNCHANGED <<statusEvents, rs, snap, ctl>>
    BY RulesServed
  <1>2. PICK a : /\ answers' = Append(answers, a)
                 /\ a.to = "rules" /\ a.op = reqs[i].op /\ a.ok \in BOOLEAN
                 /\ a.ok => /\ Serve(a.op, Load(rulesFile)).ok
                            /\ Load(rulesFile') = Serve(a.op, Load(rulesFile)).model
    BY RulesServed
  <1>3. /\ ToSet(answers') = ToSet(answers) \cup {a} /\ ToSet(reqs') \subseteq ToSet(reqs)
    BY <1>1, <1>2, ServedMessages
  <1>4. \A x \in ToSet(answers) : x.to # "rules"
    <2>1. PICK u : u = "rules"
      OBVIOUS
    <2>2. Total(reqs, answers, u) <= 1
      BY <2>1 DEF Waited
    <2>3. (\E x \in ToSet(answers) : x.to = u) => \A q \in ToSet(reqs) : q.to # u
      BY <1>0, <2>2, TotalNone
    <2> QED BY <1>1, <2>1, <2>3
  <1>5. ~Connecting /\ rs.base # <<>>
    BY <1>1 DEF Tracked, Messages
  <1>6. TrackedQuiet'
    BY <1>1, <1>5 DEF TrackedQuiet, Connecting
  <1>7. TrackedBase'
    BY <1>1, <1>5 DEF TrackedBase
  <1>8. TrackedBuilt'
    <2>1. ctl.state = "connected" => statusEvents = <<>>
      BY <1>5, JustBuilt
    <2> QED BY <1>1, <1>5, <2>1 DEF Tracked, TrackedBuilt
  <1>9. TrackedUndo'
    <2>1. \A q \in Messages : q.to = "rules" /\ q.op.k = "revert" => q.op.next = ctl.rules
      BY DEF Tracked
    <2>2. \A q \in Messages' : q.to = "rules" /\ q.op.k = "revert" => q.op.next = ctl.rules
      BY <1>1, <1>2, <1>3, <2>1 DEF Messages
    <2>3. Wrote(a) /\ a.op.k = "revert" => Load(rulesFile') = ctl.rules
      <3>1. a.op.k = "revert" => a.op.next = ctl.rules
        BY <1>1, <1>2, <2>1 DEF Messages
      <3>2. PICK op, m : op = a.op /\ m = Load(rulesFile)
        OBVIOUS
      <3>3. op.k = "revert" /\ Serve(op, m).ok => Serve(op, m).model = op.next
        BY UndoWrites
      <3> QED BY <1>2, <3>1, <3>2, <3>3 DEF Wrote
    <2>4. \A x \in ToSet(answers') : Wrote(x) => x = a
      BY <1>3, <1>4 DEF Wrote
    <2> QED BY <1>1, <2>2, <2>3, <2>4 DEF TrackedUndo
  <1>10. (TrackedQuiet /\ TrackedBase /\ TrackedBuilt /\ TrackedUndo => Tracked)'
    BY TrackedParts, PTL
  <1> QED BY <1>6, <1>7, <1>8, <1>9, <1>10

\* A mutation ends: what an undo leaves is what the tunnel was built from.
LEMMA TrackedMutated ==
  ASSUME SafeInv, RulesTyped, Held, Waited, Lagging', Told, Tracked, NEW i \in DOMAIN answers, MutationAnswered(i)
  PROVE  Tracked'
  <1>1. PICK a : a = answers[i]
    OBVIOUS
  <1>2. /\ a.to = "rules" /\ a \in ToSet(answers) /\ UNCHANGED <<rulesFile, rulesEvents, statusEvents, snap, ctl>>
        /\ SameBut({"lead", "reading", "echoes", "base"}, rs, rs')
    BY <1>1, MutationTaken
  <1>3. /\ \A q \in Messages' : q.to # "rules"
        /\ rs'.base = IF Wrote(a) /\ a.op.k = "revert" THEN <<>> ELSE rs.base
    BY <1>1, WaitedMutated
  <1>4. ~Connecting /\ rs.base # <<>>
    BY <1>2 DEF Tracked, Messages
  <1>5. rs'.sig = rs.sig
    BY <1>2 DEF SameBut, RsFields
  <1>6. ctl.state = "connected" => statusEvents = <<>>
    BY <1>4, JustBuilt
  <1>7. TrackedBuilt'
    <2>1. CASE Wrote(a) /\ a.op.k = "revert"
      <3>1. Load(rulesFile) = ctl.rules
        BY <1>2, <2>1 DEF Tracked
      <3> QED BY <1>2, <1>3, <1>5, <2>1, <3>1 DEF Tracked, TrackedBuilt
    <2>2. CASE ~(Wrote(a) /\ a.op.k = "revert")
      BY <1>2, <1>3, <1>4, <1>5, <1>6, <2>2 DEF Tracked, TrackedBuilt
    <2> QED BY <2>1, <2>2
  <1>8. TrackedQuiet' /\ TrackedBase'
    BY <1>2, <1>3, <1>4 DEF TrackedQuiet, TrackedBase, Connecting
  <1>9. TrackedUndo'
    BY <1>3 DEF TrackedUndo, Messages, Wrote
  <1>10. (TrackedQuiet /\ TrackedBase /\ TrackedBuilt /\ TrackedUndo => Tracked)'
    BY TrackedParts, PTL
  <1> QED BY <1>7, <1>8, <1>9, <1>10

\* A read ends: a snapshot without a signature adopts it before the first edit.
LEMMA TrackedRead ==
  ASSUME SafeInv, RulesTyped, ControlTyped, Held, Waited, Told, Tracked, NEW i \in DOMAIN answers, Refetched(i)
  PROVE  Tracked'
  <1>1. PICK a : a = answers[i]
    OBVIOUS
  <1>2. /\ answers' = RemoveAt(answers, i)
        /\ UNCHANGED <<rulesFile, reqs, rulesEvents, statusEvents, ctl>>
        /\ SameBut({"view", "boot", "reading", "sig"}, rs, rs')
        /\ rs'.sig = (IF rs.reading = "push" THEN <<rs'.view>> ELSE rs.sig)
        /\ snap' = (IF rs.reading = "push" /\ rs.sig # rs'.sig /\ snap # <<>> /\ snap[1].sig = <<>>
                    THEN <<[snap[1] EXCEPT !.sig = rs'.sig]>> ELSE snap)
    BY <1>1, ListTaken
  <1>3. /\ rs'.view = Load(rulesFile) /\ (\A q \in ToSet(reqs) : q.to # "rules") /\ (~rs.boot => rs.reading = "push")
    BY WaitedRead
  <1>4. ToSet(answers') \subseteq ToSet(answers)
    BY <1>2, TakenMessages
  <1>5. rs'.base = rs.base
    BY <1>2 DEF SameBut, RsFields
  <1>6. TrackedQuiet'
    BY <1>2, <1>3, <1>4 DEF Tracked, TrackedQuiet, Connecting, Messages
  <1>7. TrackedBase' /\ TrackedUndo'
    BY <1>2, <1>4, <1>5 DEF Tracked, TrackedBase, TrackedUndo, Messages
  <1>8. ASSUME ctl.state = "connected", statusEvents = <<>>, snap' # <<>>
        PROVE  snap'[1].sig = <<ctl.rules>> \/ (snap'[1].sig = <<>> /\ rs'.sig = <<>>)
    <2>1. snap # <<>>
      BY <1>2, <1>8
    <2>2. snap[1].sig = <<ctl.rules>> \/ (snap[1].sig = <<>> /\ rs.sig = <<>>)
      BY <1>8, <2>1 DEF Tracked
    <2>3. CASE snap[1].sig = <<ctl.rules>>
      <3>1. snap[1].sig # <<>>
        BY <2>3
      <3>2. snap' = snap
        BY <1>2, <3>1
      <3> QED BY <2>3, <3>2
    <2>4. CASE snap[1].sig = <<>> /\ rs.sig = <<>>
      <3>1. ~rs.boot /\ rs.reading = "push" /\ rs.base = <<>>
        <4>1. ~rs.boot
          BY <2>4 DEF Waited
        <4> QED BY <1>3, <4>1 DEF Waited
      <3>2. Load(rulesFile) = ctl.rules
        BY <1>8, <3>1 DEF Tracked
      <3>3. rs'.sig = <<ctl.rules>> /\ rs'.sig # rs.sig
        BY <1>2, <1>3, <2>4, <3>1, <3>2
      <3>4. snap' = <<[snap[1] EXCEPT !.sig = rs'.sig]>>
        BY <1>2, <2>1, <2>4, <3>1, <3>3
      <3>5. "sig" \in DOMAIN snap[1]
        <4>1. 1 \in DOMAIN snap
          BY <2>1 DEF ControlTyped, IsSeq
        <4> QED BY <4>1 DEF Told, ToSet
      <3>6. PICK x : x = [snap[1] EXCEPT !.sig = rs'.sig]
        OBVIOUS
      <3>7. x.sig = <<ctl.rules>>
        BY <3>3, <3>5, <3>6
      <3>8. snap'[1] = x
        BY <3>4, <3>6
      <3> QED BY <3>7, <3>8
    <2> QED BY <2>2, <2>3, <2>4
  <1>9. TrackedBuilt'
    BY <1>2, <1>5, <1>8 DEF Tracked, TrackedBuilt
  <1>10. (TrackedQuiet /\ TrackedBase /\ TrackedBuilt /\ TrackedUndo => Tracked)'
    BY TrackedParts, PTL
  <1> QED BY <1>6, <1>7, <1>9, <1>10

\* The user edits: the tunnel runs, or none does, and its status has arrived.
LEMMA TrackedAsked ==
  ASSUME SafeInv, RulesTyped, Held, Waited, Lagging', Told, Tracked, EditRules \/ Dismiss,
         "hasty" \notin faults, "rush" \notin faults
  PROVE  Tracked'
  <1>1. /\ ctl.state \in {"idle", "connected"} /\ statusEvents = <<>>
        /\ UNCHANGED <<rulesFile, answers, rulesEvents, statusEvents, snap, ctl>>
    BY DEF EditRules, Dismiss, Apart, files, events
  <1>2. /\ rs.view = Load(rulesFile) /\ RulesQuiet
        /\ \/ UNCHANGED <<rs, reqs>>
           \/ /\ SameBut({"base", "lead"}, rs, rs') /\ rs'.base = (IF rs.base = <<>> THEN <<rs.view>> ELSE rs.base)
              /\ \E q : /\ ToSet(reqs') = ToSet(reqs) \cup {q} /\ q.to = "rules"
                        /\ q.op.k = "revert" => Dismiss /\ rs.base # <<>> /\ q.op.next = rs.base[1]
    BY WaitedAsked
  <1>3. ~Connecting
    <2>1. IsSeq(statusEvents)
      BY DEF Told
    <2>2. ToSet(statusEvents) = {}
      BY <1>1, NoSeq
    <2> QED BY <1>1, <2>2 DEF Connecting
  <1>4. CASE UNCHANGED <<rs, reqs>>
    BY <1>1, <1>4 DEF Tracked, Connecting, Messages, Wrote
  <1>5. CASE /\ SameBut({"base", "lead"}, rs, rs') /\ rs'.base = (IF rs.base = <<>> THEN <<rs.view>> ELSE rs.base)
             /\ \E q : /\ ToSet(reqs') = ToSet(reqs) \cup {q} /\ q.to = "rules"
                       /\ q.op.k = "revert" => Dismiss /\ rs.base # <<>> /\ q.op.next = rs.base[1]
    <2>1. PICK q : /\ ToSet(reqs') = ToSet(reqs) \cup {q} /\ q.to = "rules"
                   /\ q.op.k = "revert" => Dismiss /\ rs.base # <<>> /\ q.op.next = rs.base[1]
      BY <1>5
    <2>2. rs'.base # <<>> /\ rs'.sig = rs.sig
      BY <1>5 DEF SameBut, RsFields
    <2>3. \A x \in Messages : x.to # "rules"
      BY <1>2, QuietMeans
    <2>4. q.op.k = "revert" => q.op.next = ctl.rules
      <3> SUFFICES ASSUME q.op.k = "revert" PROVE q.op.next = ctl.rules
        OBVIOUS
      <3>1. Dismiss /\ rs.base # <<>> /\ q.op.next = rs.base[1]
        BY <2>1
      <3>2. snap # <<>>
        BY <3>1 DEF Dismiss, reconnectNeeded, NetworkDiffers, rulesDiffer
      <3>3. ctl.state = "connected"
        BY <1>1, <3>2 DEF Told
      <3> QED BY <1>1, <3>1, <3>3 DEF Tracked
    <2>5. TrackedQuiet' /\ TrackedBase'
      BY <1>1, <1>3, <2>2 DEF TrackedQuiet, TrackedBase, Connecting
    <2>6. TrackedUndo'
      BY <1>1, <2>1, <2>3, <2>4 DEF TrackedUndo, Messages, Wrote
    <2>7. TrackedBuilt'
      <3>1. ctl.state = "connected" => rs'.base[1] = ctl.rules
        <4>1. CASE rs.base = <<>>
          BY <1>2, <1>5, <4>1 DEF Tracked
        <4>2. CASE rs.base # <<>>
          BY <1>1, <1>5, <4>2 DEF Tracked
        <4> QED BY <4>1, <4>2
      <3> QED BY <1>1, <2>2, <3>1 DEF Tracked, TrackedBuilt
    <2>8. (TrackedQuiet /\ TrackedBase /\ TrackedBuilt /\ TrackedUndo => Tracked)'
      BY TrackedParts, PTL
    <2> QED BY <2>5, <2>6, <2>7, <2>8
  <1> QED BY <1>2, <1>4, <1>5

\* The controller begins when all is quiet, and publishes what it has built.
LEMMA TrackedControl ==
  ASSUME SafeInv, RulesTyped, BuiltInv, Held, Waited, Told, Tracked, "rush" \notin faults,
         Connect \/ ReadNetwork \/ Disconnect \/ Reconnect \/ buildConfigs
  PROVE  Tracked'
  <1>0. IsSeq(statusEvents) /\ UNCHANGED <<rulesFile, reqs, answers, rulesEvents, rs>>
    BY DEF Told, Connect, ReadNetwork, Disconnect, Reconnect, buildConfigs, files, channel, events, ui
  <1>1. CASE Connect \/ ReadNetwork \/ Disconnect \/ Reconnect
    <2>1. ctl'.rules = ctl.rules /\ ctl'.state # "connected"
      BY <1>1, ControlMoves
    <2>2. Connecting' => Connecting \/ Connect \/ Reconnect
      <3>1. \A e \in ToSet(statusEvents') : e.status = "connected" => e \in ToSet(statusEvents)
        <4>1. CASE Connect \/ ReadNetwork
          BY <4>1, ControlMoves
        <4>2. CASE Disconnect \/ Reconnect
          <5>1. PICK e : statusEvents' = Append(statusEvents, e) /\ e.status = "idle"
            BY <4>2, ControlMoves
          <5>2. ToSet(statusEvents') = ToSet(statusEvents) \cup {e}
            BY <1>0, <5>1, AppendSeq
          <5> QED BY <5>1, <5>2
        <4> QED BY <1>1, <4>1, <4>2
      <3>2. ctl'.state \in {"reading", "building"} => Connect \/ Reconnect \/ ctl.state = "reading"
        BY <1>1, ControlMoves
      <3> QED BY <3>1, <3>2 DEF Connecting
    <2>3. Connect \/ Reconnect =>
            /\ \A q \in Messages : q.to # "rules"
            /\ rulesEvents = 0 /\ (rs.sig = <<>> \/ rs.sig = <<Load(rulesFile)>>)
      <3> SUFFICES ASSUME Connect \/ Reconnect
                   PROVE  /\ \A q \in Messages : q.to # "rules"
                          /\ rulesEvents = 0 /\ (rs.sig = <<>> \/ rs.sig = <<Load(rulesFile)>>)
        OBVIOUS
      <3>1. RulesQuiet
        BY DEF Connect, Reconnect
      <3>2. (\A q \in Messages : q.to # "rules") /\ rulesEvents = 0 /\ rs.reading = "no"
        BY <3>1, QuietMeans
      <3>3. rs.sig = <<>> \/ rs.sig = <<Load(rulesFile)>>
        BY <3>2 DEF Waited, Messages, Wrote
      <3> QED BY <3>2, <3>3
    <2>4. TrackedQuiet'
      BY <1>0, <2>2, <2>3 DEF Tracked, TrackedQuiet, Messages
    <2>5. TrackedBase' /\ TrackedBuilt' /\ TrackedUndo'
      BY <1>0, <2>1 DEF Tracked, TrackedBase, TrackedBuilt, TrackedUndo, Messages
    <2>6. (TrackedQuiet /\ TrackedBase /\ TrackedBuilt /\ TrackedUndo => Tracked)'
      BY TrackedParts, PTL
    <2> QED BY <2>4, <2>5, <2>6
  <1>2. CASE buildConfigs
    <2>1. ctl.state = "building"
      BY <1>2, BuildMoves
    <2>2. PICK e : /\ statusEvents' = Append(statusEvents, e)
                   /\ \/ e.status = "connected" /\ ctl'.state = "connected" /\ ctl'.rules = Load(rulesFile)
                      \/ e.status = "error" /\ ctl'.state = "idle" /\ ctl'.rules = ctl.rules
      BY <1>2, BuildMoves
    <2>3. statusEvents' # <<>>
      BY <1>0, <2>2, LastAdded
    <2>4. /\ \A q \in Messages : q.to # "rules"
          /\ rulesEvents = 0 /\ (rs.sig = <<>> \/ rs.sig = <<Load(rulesFile)>>)
      BY <2>1 DEF Tracked, Connecting
    <2>5. TrackedQuiet' /\ TrackedBase' /\ TrackedUndo'
      BY <1>0, <2>4 DEF TrackedQuiet, TrackedBase, TrackedUndo, Messages, Wrote
    <2>6. TrackedBuilt'
      BY <1>0, <2>2, <2>3 DEF TrackedBuilt
    <2>7. (TrackedQuiet /\ TrackedBase /\ TrackedBuilt /\ TrackedUndo => Tracked)'
      BY TrackedParts, PTL
    <2> QED BY <2>5, <2>6, <2>7
  <1> QED BY <1>1, <1>2

\* The status of a tunnel that has come up resets what an undo goes back to.
LEMMA TrackedStatus ==
  ASSUME SafeInv, RulesTyped, Held, Waited, Told, Tracked, StatusEvent PROVE Tracked'
  <1>0. IsSeq(statusEvents) /\ UNCHANGED <<rulesFile, reqs, answers, rulesEvents>>
    BY DEF Told, StatusEvent, files, channel
  <1>1. PICK s, t, e : s = statusEvents /\ t = Tail(s) /\ e = Head(s)
    OBVIOUS
  <1>2. s # <<>> /\ statusEvents' = t /\ ctl' = ctl
    BY <1>1, StatusMoves
  <1>3. /\ e \in ToSet(s) /\ ToSet(t) \subseteq ToSet(s)
        /\ (t # <<>> => t[Len(t)] = s[Len(s)]) /\ (t = <<>> => s[Len(s)] = e)
    BY <1>0, <1>1, <1>2, TailIs
  <1>4. /\ rs'.sig = rs.sig
        /\ e.status = "connected" => rs'.base = IF rs.sub THEN <<>> ELSE rs.base
        /\ e.status # "connected" => rs' = rs /\ snap' = <<>>
    <2>1. rs' = rs \/ SameBut({"base"}, rs, rs')
      BY OthersPass DEF OtherSteps
    <2>2. rs'.sig = rs.sig
      BY <2>1 DEF SameBut, RsFields
    <2> QED BY <1>1, <2>2, StatusMoves
  <1>5. ctl.state = "connected" => Load(rulesFile) = ctl.rules
    BY <1>1, <1>2 DEF Tracked
  <1>6. e.status = "connected" => Connecting
    BY <1>1, <1>3 DEF Connecting
  <1>7. ctl.state = "connected" /\ t = <<>> => e.status = "connected"
    BY <1>1, <1>2, <1>3 DEF Told, Tells
  <1>8. TrackedQuiet'
    BY <1>0, <1>1, <1>2, <1>3, <1>4 DEF Tracked, TrackedQuiet, Connecting, Messages
  <1>9. TrackedBase'
    <2>1. CASE e.status = "connected"
      BY <1>0, <1>6, <2>1 DEF Tracked, TrackedBase, Messages
    <2>2. CASE e.status # "connected"
      BY <1>0, <1>4, <2>2 DEF Tracked, TrackedBase, Messages
    <2> QED BY <2>1, <2>2
  <1>10. TrackedUndo'
    BY <1>0, <1>2 DEF Tracked, TrackedUndo, Messages
  <1>11. TrackedBuilt'
    <2>1. ASSUME ctl.state = "connected", t = <<>>
          PROVE  /\ rs'.base = <<>>
                 /\ snap'[1].sig = <<ctl.rules>> \/ (snap'[1].sig = <<>> /\ rs'.sig = <<>>)
      <3>1. e.status = "connected" /\ Connecting
        BY <1>6, <1>7, <2>1
      <3>2. rs'.base = <<>>
        <4>1. ~rs.sub => rs.base = <<>>
          BY DEF Waited
        <4> QED BY <1>4, <3>1, <4>1
      <3>3. PICK x : snap' = <<x>> /\ x.sig = rs.sig
        BY <1>1, <3>1, StatusMoves
      <3>4. rs.sig = <<>> \/ rs.sig = <<Load(rulesFile)>>
        BY <3>1 DEF Tracked
      <3>5. snap'[1] = x
        BY <3>3
      <3> QED BY <1>4, <1>5, <2>1, <3>2, <3>3, <3>4, <3>5
    <2> QED BY <1>0, <1>2, <1>5, <2>1 DEF TrackedBuilt
  <1>12. (TrackedQuiet /\ TrackedBase /\ TrackedBuilt /\ TrackedUndo => Tracked)'
    BY TrackedParts, PTL
  <1> QED BY <1>8, <1>9, <1>10, <1>11, <1>12

\* What goes past the rules leaves this alone, and so does a read that is asked for.
LEMMA TrackedElsewhere ==
  ASSUME SafeInv, RulesTyped, Held, Waited, Lagging', Tracked,
         SettingsSteps \/ RulesChanged \/ ensureBoot \/ rulesExportGroup \/ UNCHANGED vars
  PROVE  Tracked'
  <1>1. CASE SettingsSteps
    <2>1. PICK K : K = {"rules", "list"}
      OBVIOUS
    <2>2. Untouched(reqs, answers, reqs', answers', K)
      BY <1>1, <2>1, SettingsPass, PassingBy
    <2>3. UNCHANGED <<rulesFile, rulesEvents, statusEvents, rs, snap, ctl>>
      BY <1>1, SettingsPass
    <2>4. \A q : q.to = "rules" => (q \in ToSet(reqs') <=> q \in ToSet(reqs)) /\ (q \in ToSet(answers') <=> q \in ToSet(answers))
      BY <2>1, <2>2 DEF Untouched
    <2> QED BY <2>3, <2>4 DEF Tracked, Connecting, Messages, Wrote
  <1>2. CASE RulesChanged \/ ensureBoot
    <2>1. (\A q \in ToSet(reqs') : q.to # "rules") /\ answers' = answers /\ SameBut({"echoes", "reading", "sub"}, rs, rs')
      BY <1>2, WaitedTold
    <2>2. UNCHANGED <<rulesFile, statusEvents, snap, ctl>>
      BY <1>2, EventTaken, BootAsked
    <2>3. rs'.base = rs.base /\ rs'.sig = rs.sig
      BY <2>1 DEF SameBut, RsFields
    <2>4. rulesEvents = 0 => rulesEvents' = 0
      <3>1. rulesEvents' = rulesEvents \/ rulesEvents > 0
        BY <1>2, EventTaken, BootAsked
      <3> QED BY <3>1
    <2> QED BY <2>1, <2>2, <2>3, <2>4 DEF Tracked, Connecting, Messages, Wrote
  <1>3. CASE rulesExportGroup \/ UNCHANGED vars
    <2>1. UNCHANGED <<rulesFile, reqs, answers, rulesEvents, statusEvents, rs, snap, ctl>>
      BY <1>3 DEF rulesExportGroup, vars, files, channel, events, ui
    <2> QED BY <2>1 DEF Tracked, Connecting, Messages, Wrote
  <1> QED BY <1>1, <1>2, <1>3

\* Edits of the rules and connects that do not overlap: an undo goes back to what the tunnel
\* was built from, and the snapshot of the toast knows that too.
LEMMA TrackingStep ==
  ASSUME SafeInv, SafeInv', RulesTyped, ControlTyped, BuiltInv, Held, Held', Single, Told, Tracking, [Next]_vars
  PROVE  Tracking'
  <1>0. faults' = faults
    BY FaultsStay
  <1> SUFFICES ASSUME faults \cap {"list", "hasty", "rush"} = {} PROVE Tracked'
    BY <1>0 DEF Tracking
  <1>1. Waited /\ Lagging /\ Tracked /\ "list" \notin faults /\ "hasty" \notin faults /\ "rush" \notin faults
    BY DEF Single, Waited, Tracking
  <1>2. CASE \E i \in Takable(answers) : Refetched(i)
    BY <1>1, <1>2, TrackedRead DEF Takable
  <1>3. CASE ~\E i \in Takable(answers) : Refetched(i)
    <2>1. Lagging'
      BY <1>1, <1>3, LaggingStep
    <2>2. CASE \E i \in Takable(reqs) : HandleRules(i)
      BY <1>1, <2>2, TrackedServed DEF Takable
    <2>3. CASE \E i \in Takable(reqs) : HandleList(i)
      <3>1. PICK i \in DOMAIN reqs : HandleList(i)
        BY <2>3 DEF Takable
      <3>2. /\ reqs' = RemoveAt(reqs, i) /\ UNCHANGED <<rulesFile, rulesEvents, statusEvents, rs, snap, ctl>>
            /\ \E a : answers' = Append(answers, a) /\ a.to = "list"
        BY <3>1, ListServed
      <3>3. PICK a : answers' = Append(answers, a) /\ a.to = "list"
        BY <3>2
      <3>4. ToSet(answers') = ToSet(answers) \cup {a} /\ ToSet(reqs') \subseteq ToSet(reqs)
        BY <3>2, <3>3, ServedMessages
      <3> QED BY <1>1, <3>2, <3>3, <3>4 DEF Tracked, Connecting, Messages, Wrote
    <2>4. CASE \E i \in Takable(answers) : MutationAnswered(i)
      BY <1>1, <2>1, <2>4, TrackedMutated DEF Takable
    <2>5. CASE EditRules \/ Dismiss
      BY <1>1, <2>1, <2>5, TrackedAsked
    <2>6. CASE Connect \/ ReadNetwork \/ Disconnect \/ Reconnect \/ buildConfigs
      BY <1>1, <2>6, TrackedControl
    <2>7. CASE StatusEvent
      BY <1>1, <2>7, TrackedStatus
    <2>8. CASE SettingsSteps \/ RulesChanged \/ ensureBoot \/ rulesExportGroup \/ UNCHANGED vars
      BY <1>1, <2>1, <2>8, TrackedElsewhere
    <2> QED BY <1>3, <2>2, <2>3, <2>4, <2>5, <2>6, <2>7, <2>8, StepKinds DEF RulesSteps, OtherSteps
  <1> QED BY <1>2, <1>3

---------------------------------------------------------------------------
(* A reordering loses nothing                                              *)

\* The ids of a model's groups.
GroupIds(m) == {g.id : g \in ToSet(m.groups)}

\* The rules and the group ids of a valid model, group by group.
LEMMA ContentsAre ==
  ASSUME NEW m \in GoodModel
  PROVE  /\ \A r : r \in Rules(m) <=> \E l \in 1..Len(m.groups) : r \in ToSet(m.groups[l].rules)
         /\ \A x : x \in GroupIds(m) <=> \E l \in 1..Len(m.groups) : x = m.groups[l].id
  <1>1. DOMAIN m.groups = 1..Len(m.groups)
    BY GoodParts
  <1>2. \A g : g \in ToSet(m.groups) <=> \E l \in 1..Len(m.groups) : g = m.groups[l]
    BY <1>1 DEF ToSet
  <1>3. ASSUME NEW r PROVE r \in Rules(m) <=> \E g \in ToSet(m.groups) : r \in ToSet(g.rules)
    BY DEF Rules
  <1>4. ASSUME NEW x PROVE x \in GroupIds(m) <=> \E g \in ToSet(m.groups) : x = g.id
    BY DEF GroupIds
  <1> QED BY <1>2, <1>3, <1>4

\* The rules of a group change, its id does not.
LEMMA SetRulesIds ==
  ASSUME NEW m \in GoodModel, NEW i \in 1..Len(m.groups), NEW x \in Seq(GoodRule)
  PROVE  \A j \in 1..Len(m.groups) : SetRules(m, i, x).groups[j].id = m.groups[j].id
  <1> DEFINE g == [m.groups[i] EXCEPT !.rules = x]
  <1>1. m.groups[i] \in GoodGroup
    BY GoodParts
  <1>2. g \in GoodGroup /\ g.id = m.groups[i].id
    BY <1>1 DEF GoodGroup
  <1>3. SetRules(m, i, x) = SetGroup(m, i, g)
    BY DEF SetRules, SetGroup
  <1> HIDE DEF g
  <1> QED BY <1>2, <1>3, GoodSetGroup

\* Models with the same rules in groups of the same ids.
Alike(m, n) == Rules(n) = Rules(m) /\ GroupIds(n) = GroupIds(m)

\* Groups that change places.
LEMMA SwapAlike ==
  ASSUME NEW m \in GoodModel, NEW i \in 1..Len(m.groups), i + 1 \in 1..Len(m.groups)
  PROVE  Alike(m, swapGroups(m, i))
  <1> DEFINE a == SetGroup(m, i, m.groups[i + 1])
             n == SetGroup(a, i + 1, m.groups[i])
  <1>1. m.groups[i] \in GoodGroup /\ m.groups[i + 1] \in GoodGroup /\ Len(m.groups) \in Nat
    BY GoodParts
  <1>2. /\ a \in GoodModel /\ Len(a.groups) = Len(m.groups)
        /\ \A j \in 1..Len(m.groups) : a.groups[j] = IF j = i THEN m.groups[i + 1] ELSE m.groups[j]
    BY <1>1, GoodSetGroup
  <1> HIDE DEF a
  <1>3. /\ n \in GoodModel /\ Len(n.groups) = Len(m.groups)
        /\ \A j \in 1..Len(m.groups) : n.groups[j] = IF j = i + 1 THEN m.groups[i] ELSE a.groups[j]
    BY <1>1, <1>2, GoodSetGroup
  <1>4. n = swapGroups(m, i)
    BY DEF swapGroups, SetGroup, a
  <1> HIDE DEF n
  <1>5. PICK L : L = Len(m.groups)
    OBVIOUS
  <1>6. i # i + 1
    BY <1>1
  <1>7. \A j \in 1..L : \E l \in 1..L : n.groups[j] = m.groups[l]
    BY <1>2, <1>3, <1>5, <1>6
  <1>8. \A j \in 1..L : \E l \in 1..L : m.groups[j] = n.groups[l]
    <2> SUFFICES ASSUME NEW j \in 1..L PROVE \E l \in 1..L : m.groups[j] = n.groups[l]
      OBVIOUS
    <2>1. n.groups[i + 1] = m.groups[i] /\ n.groups[i] = m.groups[i + 1]
      BY <1>2, <1>3, <1>5, <1>6
    <2>2. j # i /\ j # i + 1 => n.groups[j] = m.groups[j]
      BY <1>2, <1>3, <1>5
    <2> QED BY <1>5, <2>1, <2>2
  <1>9. ASSUME NEW r PROVE r \in Rules(n) <=> r \in Rules(m)
    <2>1. r \in Rules(n) <=> \E l \in 1..L : r \in ToSet(n.groups[l].rules)
      BY <1>3, <1>5, ContentsAre
    <2>2. r \in Rules(m) <=> \E l \in 1..L : r \in ToSet(m.groups[l].rules)
      BY <1>5, ContentsAre
    <2> QED BY <1>7, <1>8, <2>1, <2>2
  <1>10. ASSUME NEW x PROVE x \in GroupIds(n) <=> x \in GroupIds(m)
    <2>1. x \in GroupIds(n) <=> \E l \in 1..L : x = n.groups[l].id
      BY <1>3, <1>5, ContentsAre
    <2>2. x \in GroupIds(m) <=> \E l \in 1..L : x = m.groups[l].id
      BY <1>5, ContentsAre
    <2>3. \A j \in 1..L : \E l \in 1..L : n.groups[j].id = m.groups[l].id
      BY <1>7, Zenon
    <2>4. \A j \in 1..L : \E l \in 1..L : m.groups[j].id = n.groups[l].id
      BY <1>8, Zenon
    <2>5. ASSUME NEW j \in 1..L, x = n.groups[j].id PROVE \E l \in 1..L : x = m.groups[l].id
      BY <2>3, <2>5, Zenon
    <2>6. ASSUME NEW j \in 1..L, x = m.groups[j].id PROVE \E l \in 1..L : x = n.groups[l].id
      BY <2>4, <2>6, Zenon
    <2> QED BY <2>1, <2>2, <2>5, <2>6, Zenon
  <1> QED BY <1>4, <1>9, <1>10 DEF Alike

\* A rule that goes to the front of a group.
LEMMA DropAlike ==
  ASSUME NEW m \in GoodModel, NEW i \in 1..Len(m.groups), NEW j \in 1..Len(m.groups[i].rules), NEW k \in 1..Len(m.groups)
  PROVE  Alike(m, dropRule(m, i, j, k))
  <1>1. PICK L, R, r : L = Len(m.groups) /\ R = m.groups[i].rules /\ r = R[j]
    OBVIOUS
  <1>2. R \in Seq(GoodRule) /\ r \in GoodRule /\ IsSeq(R) /\ j \in 1..Len(R) /\ L \in Nat
    BY <1>1, GoodParts DEF IsSeq
  <1>3. PICK x : x = RemoveAt(R, j)
    OBVIOUS
  <1>4. x \in Seq(GoodRule)
    BY <1>2, <1>3, RemoveOver
  <1>5. \A q : q \in ToSet(R) <=> q = r \/ q \in ToSet(x)
    <2>1. ToSet(x) \subseteq ToSet(R) /\ \A q \in ToSet(R) : q # R[j] => q \in ToSet(x)
      BY <1>2, <1>3, RemoveSeq
    <2>2. r \in ToSet(R)
      BY <1>1, <1>2 DEF ToSet
    <2> QED BY <1>1, <2>1, <2>2
  <1>6. PICK a : a = SetRules(m, i, x)
    OBVIOUS
  <1>7. /\ a \in GoodModel /\ Len(a.groups) = L
        /\ \A l \in 1..L : a.groups[l].rules = (IF l = i THEN x ELSE m.groups[l].rules) /\ a.groups[l].id = m.groups[l].id
    BY <1>1, <1>4, <1>6, GoodSetRules, SetRulesIds
  <1>8. PICK S, y : S = a.groups[k].rules /\ y = <<r>> \o S
    OBVIOUS
  <1>9. S \in Seq(GoodRule)
    BY <1>1, <1>7, <1>8, GoodParts
  <1>10. y \in Seq(GoodRule) /\ \A q : q \in ToSet(y) <=> q = r \/ q \in ToSet(S)
    <2>1. y \in Seq(GoodRule)
      BY <1>2, <1>8, <1>9
    <2>2. IsSeq(<<r>>) /\ IsSeq(S) /\ ToSet(<<r>>) = {r}
      BY <1>9, SingleSeq DEF IsSeq
    <2>3. ToSet(y) = ToSet(<<r>>) \cup ToSet(S)
      BY <1>8, <2>2, ConcatSeq
    <2> QED BY <2>1, <2>2, <2>3
  <1>11. PICK n : n = SetRules(a, k, y)
    OBVIOUS
  <1>12. /\ n \in GoodModel /\ Len(n.groups) = L
         /\ \A l \in 1..L : n.groups[l].rules = (IF l = k THEN y ELSE a.groups[l].rules) /\ n.groups[l].id = a.groups[l].id
    BY <1>1, <1>7, <1>10, <1>11, GoodSetRules, SetRulesIds
  <1>13. n = dropRule(m, i, j, k)
    BY <1>1, <1>3, <1>6, <1>8, <1>11 DEF dropRule, SetRules
  <1>14. ASSUME NEW q PROVE q \in Rules(n) <=> q \in Rules(m)
    <2>1. q \in Rules(n) <=> \E l \in 1..L : q \in ToSet(n.groups[l].rules)
      BY <1>12, ContentsAre
    <2>2. q \in Rules(m) <=> \E l \in 1..L : q \in ToSet(m.groups[l].rules)
      BY <1>1, ContentsAre
    <2>3. (\E l \in 1..L : q \in ToSet(n.groups[l].rules)) <=> q = r \/ \E l \in 1..L : q \in ToSet(a.groups[l].rules)
      <3>1. q \in ToSet(n.groups[k].rules) <=> q = r \/ q \in ToSet(a.groups[k].rules)
        BY <1>1, <1>8, <1>10, <1>12
      <3>2. \A l \in 1..L : l # k => n.groups[l].rules = a.groups[l].rules
        BY <1>12
      <3> QED BY <1>1, <3>1, <3>2
    <2>4. (\E l \in 1..L : q \in ToSet(m.groups[l].rules)) <=> q = r \/ \E l \in 1..L : q \in ToSet(a.groups[l].rules)
      <3>1. q \in ToSet(m.groups[i].rules) <=> q = r \/ q \in ToSet(a.groups[i].rules)
        BY <1>1, <1>5, <1>7
      <3>2. \A l \in 1..L : l # i => a.groups[l].rules = m.groups[l].rules
        BY <1>7
      <3> QED BY <1>1, <3>1, <3>2
    <2> QED BY <2>1, <2>2, <2>3, <2>4
  <1>15. ASSUME NEW q PROVE q \in GroupIds(n) <=> q \in GroupIds(m)
    <2>1. q \in GroupIds(n) <=> \E l \in 1..L : q = n.groups[l].id
      BY <1>12, ContentsAre
    <2>2. q \in GroupIds(m) <=> \E l \in 1..L : q = m.groups[l].id
      BY <1>1, ContentsAre
    <2>3. \A l \in 1..L : n.groups[l].id = m.groups[l].id
      BY <1>7, <1>12
    <2> QED BY <2>1, <2>2, <2>3
  <1> QED BY <1>13, <1>14, <1>15 DEF Alike

\* Dragging rearranges.
LEMMA DragAlike == ASSUME NEW m \in GoodModel, NEW n \in Drags(m) PROVE Alike(m, n)
  <1> DEFINE open == openGroups(m)
  <1>1. \A i \in open : i \in 1..Len(m.groups)
    BY GoodParts DEF openGroups
  <1>2. \/ \E i \in open : i + 1 \in open /\ n = swapGroups(m, i)
        \/ \E i, k \in open : \E j \in DOMAIN m.groups[i].rules : n = dropRule(m, i, j, k)
    <2> DEFINE P == UNION {{i} \X DOMAIN m.groups[i].rules : i \in open}
               A == {swapGroups(m, i) : i \in {j \in open : j + 1 \in open}}
               B == {dropRule(m, p[1], p[2], k) : p \in P, k \in open}
    <2>1. n \in A \/ n \in B
      BY DEF Drags
    <2>2. \A p \in P : p[1] \in open /\ p[2] \in DOMAIN m.groups[p[1]].rules
      OBVIOUS
    <2> HIDE DEF P, open
    <2>3. n \in A => \E i \in open : i + 1 \in open /\ n = swapGroups(m, i)
      OBVIOUS
    <2>4. n \in B => \E p \in P : \E k \in open : n = dropRule(m, p[1], p[2], k)
      OBVIOUS
    <2> HIDE DEF A, B
    <2> QED BY <2>1, <2>2, <2>3, <2>4
  <1> HIDE DEF open
  <1>3. ASSUME NEW i \in open, i + 1 \in open, n = swapGroups(m, i) PROVE Alike(m, n)
    BY <1>1, <1>3, SwapAlike
  <1>4. ASSUME NEW i \in open, NEW k \in open, NEW j \in DOMAIN m.groups[i].rules, n = dropRule(m, i, j, k)
        PROVE  Alike(m, n)
    <2>1. i \in 1..Len(m.groups) /\ k \in 1..Len(m.groups) /\ j \in 1..Len(m.groups[i].rules)
      BY <1>1, <1>4, GoodParts
    <2> QED BY <1>4, <2>1, DropAlike
  <1> QED BY <1>2, <1>3, <1>4

\* A reordering is written as it was sent.
LEMMA DragWrites ==
  ASSUME NEW op, op.k = "drag", NEW m, Serve(op, m).ok PROVE Serve(op, m).model = op.next
  <1>1. Serve(op, m) = ReplaceModel(m, op.next)
    BY DEF Serve
  <1>2. Refuse(m).ok = FALSE /\ Accept(op.next).model = op.next
    BY DEF Refuse, Accept
  <1> QED BY <1>1, <1>2 DEF ReplaceModel

\* Only a mutation writes the rules.
LEMMA OnlyServed == ASSUME SafeInv, RulesTyped, [Next]_vars, rulesFile' # rulesFile PROVE \E i \in DOMAIN reqs : HandleRules(i)
  <1>1. ~SettingsSteps /\ ~OtherSteps
    BY SettingsPass, OthersPass
  <1>2. ~\E i \in Takable(reqs) : HandleList(i)
    BY DEF HandleList, files
  <1>3. ~\E i \in Takable(answers) : MutationAnswered(i) \/ Refetched(i)
    BY DEF MutationAnswered, Refetched, files
  <1>4. ~RulesChanged /\ ~ensureBoot /\ ~EditRules /\ ~Dismiss
    BY DEF RulesChanged, ensureBoot, EditRules, Dismiss, files
  <1> QED BY <1>1, <1>2, <1>3, <1>4, StepKinds DEF RulesSteps, Takable

\* What a reordering writes was computed from what it replaces.
LEMMA DragStep ==
  ASSUME SafeInv, RulesTyped, Single, Single', faults' = faults, [Next]_vars,
         "hasty" \notin faults, "list" \notin faults, rulesFile' # rulesFile,
         \E i \in Under(reqs, "rules") : reqs[i].op.k = "drag"
  PROVE  Alike(Load(rulesFile), Load(rulesFile'))
  <1>1. PICK i \in DOMAIN reqs : HandleRules(i)
    BY OnlyServed
  <1>2. PICK d \in Under(reqs, "rules") : reqs[d].op.k = "drag"
    OBVIOUS
  <1>3. reqs[d] \in ToSet(reqs) /\ reqs[d].to = "rules"
    BY DEF Under, ToSet
  <1>4. reqs[i].to = "rules" /\ reqs[i] \in ToSet(reqs) /\ reqs' = RemoveAt(reqs, i)
    BY <1>1, RulesServed
  <1>5. PICK a : /\ answers' = Append(answers, a) /\ a.to = "rules" /\ a.op = reqs[i].op
                 /\ a.ok => /\ Serve(a.op, Load(rulesFile)).ok
                            /\ Load(rulesFile') = Serve(a.op, Load(rulesFile)).model
                 /\ ~a.ok => rulesFile' = rulesFile
    BY <1>1, RulesServed
  <1>6. IsSeq(reqs) /\ IsSeq(answers) /\ i \in 1..Len(reqs)
    BY SeqFacts DEF SafeInv, Sent, Answered
  <1>7. IsSeq(reqs') /\ IsSeq(answers') /\ a \in ToSet(answers') /\ \A q \in ToSet(reqs) : q # reqs[i] => q \in ToSet(reqs')
    BY <1>4, <1>5, <1>6, RemoveSeq, AppendSeq
  <1>8. Waited /\ Waited'
    BY DEF Single
  <1>9. \A q \in ToSet(reqs') : q.to # "rules"
    <2>1. PICK u : u = "rules"
      OBVIOUS
    <2>2. Total(reqs', answers', u) <= 1 /\ \E x \in ToSet(answers') : x.to = u
      BY <1>5, <1>7, <1>8, <2>1 DEF Waited
    <2>3. \A q \in ToSet(reqs') : q.to # u
      BY <1>7, <2>2, TotalNone
    <2> QED BY <2>1, <2>3
  <1>10. reqs[d] = reqs[i]
    BY <1>3, <1>7, <1>9
  <1>11. PICK op, m : op = a.op /\ m = Load(rulesFile)
    OBVIOUS
  <1>12. op.k = "drag" /\ op.next \in Drags(m)
    BY <1>2, <1>3, <1>5, <1>8, <1>10, <1>11 DEF Waited
  <1>13. a.ok
    BY <1>5
  <1>14. Load(rulesFile') = op.next
    BY <1>5, <1>11, <1>12, <1>13, DragWrites
  <1>15. m \in GoodModel
    BY <1>11 DEF SafeInv, Kept
  <1> QED BY <1>11, <1>12, <1>14, <1>15, DragAlike

---------------------------------------------------------------------------
(* How a behaviour begins                                                  *)

\* The rules page was just opened, or has read everything.
LEMMA RulesAtFirst ==
  ASSUME Init
  PROVE  /\ ~rs.lead /\ rs.reading = "no" /\ rs.base = <<>>
         /\ rs.boot => rs.view = Load(rulesFile) /\ rs.sub /\ rs.sig = <<Load(rulesFile)>>
         /\ ~rs.boot => rs.sig = <<>>
  <1>1. PICK s \in Scenarios :
          /\ rulesFile = s.rules
          /\ rs = IF s.fresh THEN FreshRules ELSE LoadedRules(s.rules)
    BY DEF Init
  <1>2. /\ ~FreshRules.lead /\ FreshRules.reading = "no" /\ FreshRules.base = <<>>
        /\ ~FreshRules.boot /\ FreshRules.sig = <<>>
    BY DEF FreshRules
  <1>3. LET v == LoadedRules(s.rules)
        IN /\ ~v.lead /\ v.reading = "no" /\ v.base = <<>>
           /\ v.boot /\ v.view = Load(s.rules) /\ v.sub /\ v.sig = <<Load(s.rules)>>
    BY DEF LoadedRules, FreshRules
  <1> QED BY <1>1, <1>2, <1>3

\* Nothing is under way.
LEMMA NothingAtFirst ==
  ASSUME Init
  PROVE  /\ reqs = <<>> /\ answers = <<>> /\ waiters = <<>> /\ rulesEvents = 0 /\ statusEvents = <<>> /\ snap = <<>>
         /\ ctl.state = "idle" /\ Messages = {} /\ ToSet(reqs) = {} /\ ToSet(answers) = {} /\ ToSet(statusEvents) = {}
         /\ IsSeq(reqs) /\ IsSeq(answers) /\ IsSeq(statusEvents)
         /\ \A to : Total(reqs, answers, to) = 0
  <1>1. /\ reqs = <<>> /\ answers = <<>> /\ waiters = <<>> /\ rulesEvents = 0 /\ statusEvents = <<>> /\ snap = <<>>
        /\ ctl.state = "idle"
    BY DEF Init
  <1>2. /\ Messages = {} /\ ToSet(reqs) = {} /\ ToSet(answers) = {} /\ ToSet(statusEvents) = {}
        /\ IsSeq(reqs) /\ IsSeq(answers) /\ IsSeq(statusEvents)
    BY <1>1, NoSeq DEF Messages
  <1>3. ASSUME NEW to PROVE Total(reqs, answers, to) = 0
    BY <1>2, TotalNone
  <1> QED BY <1>1, <1>2, <1>3

\* Nobody holds the mutex and nobody waits.
LEMMA HeldInit == ASSUME Init PROVE Held
  BY RulesAtFirst, NothingAtFirst DEF Held

\* The page shows what is on disk, or has not been read.
LEMMA LaggingInit == ASSUME Init PROVE Lagging
  BY RulesAtFirst DEF Lagging

\* And no answer is on its way.
LEMMA OrderedInit == ASSUME Init PROVE Ordered
  <1>1. Repaired(answers, Load(rulesFile))
    <2>1. DOMAIN answers = {}
      BY NothingAtFirst
    <2> QED BY <2>1 DEF Repaired
  <1> QED BY <1>1, LaggingInit DEF Ordered

\* No edit is under way.
LEMMA SingleInit == ASSUME Init PROVE Single
  BY RulesAtFirst, NothingAtFirst, LaggingInit DEF Single, Waited

\* No flush has parts open.
LEMMA CountedInit == ASSUME Init PROVE Counted
  <1>1. PICK s \in Scenarios :
          /\ cfgFile = s.config
          /\ st = IF s.fresh THEN FreshSettings ELSE LoadedSettings(s.config)
    BY DEF Init
  <1>2. /\ FreshSettings.pend = NoPatch /\ FreshSettings.inFlight = 0
        /\ FreshSettings.flushed = 0 /\ FreshSettings.open = <<>>
    BY DEF FreshSettings
  <1>3. LET v == LoadedSettings(s.config)
        IN v.pend = NoPatch /\ v.inFlight = 0 /\ v.flushed = 0 /\ v.open = <<>>
    BY DEF LoadedSettings, FreshSettings
  <1>4. st.pend = NoPatch /\ st.inFlight = 0 /\ st.flushed = 0 /\ st.open = <<>>
    BY <1>1, <1>2, <1>3
  <1>5. <<>> \in Seq(Nat) /\ Len(<<>>) = 0 /\ Open(<<>>) = {} /\ 1..0 = {}
    BY DEF Open
  <1>6. Cardinality({}) = 0
    BY FS_EmptySet
  <1>7. DOMAIN NoPatch = {} /\ NoPatch = [k \in DOMAIN NoPatch |-> NoPatch[k]]
    BY DEF NoPatch
  <1> QED BY <1>4, <1>5, <1>6, <1>7, NothingAtFirst DEF Counted

\* The settings page shows what is on disk, as far as it has a name for it.
LEMMA SettlingInit == ASSUME Init PROVE Settling /\ Naming
  <1>1. PICK s \in Scenarios :
          /\ cfgFile = s.config
          /\ st = IF s.fresh THEN FreshSettings ELSE LoadedSettings(s.config)
    BY DEF Init
  <1>2. DOMAIN s.config = Keys /\ Known("ipv6Mode", s.config["ipv6Mode"])
    BY FilesAssumption, Zenon
  <1>3. ~FreshSettings.started /\ FreshSettings.pend = NoPatch
    BY DEF FreshSettings
  <1>4. PICK v : v = LoadedSettings(s.config)
    OBVIOUS
  <1>5. v.pend = NoPatch /\ v.cur = Overlay(defaults, backendToFrontend(toView(s.config)))
    BY <1>4 DEF LoadedSettings, FreshSettings
  <1>6. \A k \in Shown : Known(k, toView(s.config)[k]) => v.cur[k] = toView(s.config)[k]
    <2>1. ASSUME NEW k \in Shown, Known(k, toView(s.config)[k])
          PROVE  v.cur[k] = toView(s.config)[k]
      <3>1. PICK c : c = toView(s.config)
        OBVIOUS
      <3>2. k \in Keys
        BY DEF Shown
      <3>3. k \in DOMAIN backendToFrontend(c) /\ backendToFrontend(c)[k] = c[k]
        BY <2>1, <3>1, <3>2 DEF backendToFrontend
      <3>4. Overlay(defaults, backendToFrontend(c))[k] = backendToFrontend(c)[k]
        BY <3>2, <3>3 DEF Overlay
      <3> QED BY <1>5, <3>1, <3>3, <3>4
    <2> QED BY <2>1
  <1>7. st.started => \A k \in Shown : ~Off(k)
    BY <1>1, <1>3, <1>4, <1>6 DEF Off
  <1>8. Updated(answers, cfgFile)
    <2>1. DOMAIN answers = {}
      BY NothingAtFirst
    <2> QED BY <2>1 DEF Updated
  <1>9. st.pend = NoPatch /\ Named(NoPatch)
    BY <1>1, <1>3, <1>4, <1>5 DEF Named, NoPatch
  <1>10. Settling
    BY <1>1, <1>2, <1>7, <1>8, NothingAtFirst DEF Settling
  <1> QED BY <1>1, <1>2, <1>9, <1>10, NothingAtFirst DEF Naming

\* There is no tunnel and no snapshot.
LEMMA ToldInit == ASSUME Init PROVE Told
  <1>1. ToSet(snap) = {}
    BY NothingAtFirst, NoSeq
  <1> QED BY <1>1, NothingAtFirst DEF Told

\* Nor an undo.
LEMMA TrackingInit == ASSUME Init PROVE Tracking
  <1>1. ~Connecting
    BY NothingAtFirst DEF Connecting
  <1> QED BY <1>1, NothingAtFirst DEF Tracking, Tracked

---------------------------------------------------------------------------
(* What the two pages promise                                              *)

\* With nothing under way nothing is waited for.
LEMMA NothingWaits == ASSUME SafeInv, Held, Counted PROVE NothingStuck
  <1> SUFFICES ASSUME reqs = <<>>, answers = <<>>
               PROVE  ~rs.lead /\ waiters = <<>> /\ rs.reading = "no" /\ st.inFlight = 0
    BY DEF NothingStuck
  <1>1. ToSet(reqs) = {} /\ ToSet(answers) = {} /\ IsSeq(reqs) /\ IsSeq(answers) /\ Messages = {}
    BY NoSeq DEF Messages
  <1>2. ~rs.lead /\ waiters = <<>>
    BY <1>1 DEF Held
  <1>3. Total(reqs, answers, "list") = 0
    <2>1. PICK l : l = "list"
      OBVIOUS
    <2>2. Total(reqs, answers, l) = 0
      BY <1>1, TotalNone
    <2> QED BY <2>1, <2>2
  <1>4. rs.reading = "no"
    BY <1>3 DEF Held
  <1>5. ASSUME NEW n PROVE Pieces(reqs, answers, n) = 0
    <2>1. DOMAIN reqs = {} /\ DOMAIN answers = {}
      OBVIOUS
    <2>2. Parts(reqs, n) = {} /\ Parts(answers, n) = {}
      BY <2>1 DEF Parts
    <2> QED BY <2>2, FS_EmptySet DEF Pieces
  <1>6. \A n \in 1..Len(st.open) : ~(st.open[n] > 0)
    <2>1. \A n \in 1..Len(st.open) : st.open[n] = 0
      BY <1>5 DEF Counted
    <2> QED BY <2>1
  <1>7. Open(st.open) = {}
    BY <1>6 DEF Open
  <1>8. st.inFlight = 0
    BY <1>7, FS_EmptySet DEF Counted
  <1> QED BY <1>2, <1>4, <1>8

\* A quiet page has nobody left who would tell it, so it is right.
LEMMA RulesAgree == ASSUME SafeInv, Held, Ordered, Single PROVE RulesConverge
  <1> SUFFICES ASSUME RulesQuiet, rs.boot, "list" \notin faults, ~({"hasty", "reorder"} \subseteq faults)
               PROVE  rs.view = Load(rulesFile)
    BY DEF RulesConverge
  <1>1. \A q \in Messages : q.to # "rules" /\ q.to # "list"
    BY QuietMeans
  <1>2. Lagging
    BY DEF Ordered, Single, Waited
  <1>3. ~\E q \in Messages : Reading(q) \/ (q \in ToSet(answers) /\ Wrote(q))
    BY <1>1 DEF Reading, Wrote
  <1> QED BY <1>2, <1>3 DEF Lagging

\* A quiet page has no patch, no flush and no read that it waits for.
LEMMA SettingsAgree ==
  ASSUME SafeInv, Settling, SettingsQuiet, st.started, faults \cap {"reorder", "get"} = {}
  PROVE  \A k \in Shown : ~Off(k)
  <1>1. IsSeq(reqs) /\ IsSeq(answers)
    BY DEF SafeInv, Sent, Answered
  <1>2. st.pend = NoPatch /\ ~(st.inFlight > 0) /\ DOMAIN NoPatch = {}
    BY DEF SettingsQuiet, NoPatch
  <1>3. \A q \in Messages : q.to # "get"
    BY <1>1, SeqFacts DEF SettingsQuiet, Messages, Under
  <1> QED BY <1>2, <1>3 DEF Settling

\* The values the renderer has a name for.
LEMMA SettingsShow == ASSUME SafeInv, Settling PROVE SettingsConverge
  BY SettingsAgree DEF SettingsConverge, Off, Shown

\* What the tunnel was built from, and what is on disk.
LEMMA ToastIsRight ==
  ASSUME SafeInv, Held, Single, Settling, Naming, Told, Tracking PROVE ToastTells
  <1> SUFFICES ASSUME Orderly, faults \cap {"reorder", "get"} = {}, RulesQuiet, SettingsQuiet, statusEvents = <<>>,
                      st.started, ctl.state = "connected", snap # <<>>, rs.sig # <<>>
               PROVE  /\ rulesDiffer <=> Load(rulesFile) # ctl.rules
                      /\ NetworkDiffers <=> Differs(cfgFile, ctl.net)
    BY DEF ToastTells
  <1>1. Waited /\ Tracked
    BY DEF Orderly, Single, Tracking
  <1>2. PICK x, y : x = Load(rulesFile) /\ y = ctl.rules
    OBVIOUS
  <1>3. rs.sig = <<x>>
    <2>1. (\A q \in Messages : q.to # "rules") /\ rs.reading = "no"
      BY QuietMeans
    <2>2. ~\E a \in ToSet(answers) : Wrote(a)
      BY <2>1 DEF Messages, Wrote
    <2> QED BY <1>1, <1>2, <2>1, <2>2 DEF Waited
  <1>4. snap[1].sig = <<y>>
    BY <1>1, <1>2 DEF Tracked
  <1>5. <<x>> # <<y>> <=> x # y
    OBVIOUS
  <1>6. rulesDiffer <=> Load(rulesFile) # ctl.rules
    BY <1>2, <1>3, <1>4, <1>5 DEF rulesDiffer
  <1>7. snap[1].net = ctl.net
    BY DEF Told
  <1>8. \A k \in ReconnectKeys : st.cur[k] = cfgFile[k]
    <2>1. DOMAIN cfgFile = Keys
      BY DEF Settling
    <2>2. \A k \in Shown : ~Off(k)
      BY SettingsAgree
    <2>3. \A k \in ReconnectKeys : k # "userAgent" /\ k # "defaultMode" /\ k # "logLevel"
      BY DEF ReconnectKeys
    <2>4. ReconnectKeys \subseteq Shown
      <3>1. ReconnectKeys \subseteq KeysOf("network") /\ "network" \in Sections
        BY DEF ReconnectKeys, KeysOf, NetworkKeys, Sections
      <3> QED BY <2>3, <3>1 DEF Shown, Keys
    <2>5. \A k \in ReconnectKeys : toView(cfgFile)[k] = cfgFile[k]
      BY <2>1, <2>3, <2>4, ViewOf
    <2>6. \A k \in ReconnectKeys : Known(k, cfgFile[k])
      <3>1. ASSUME NEW k \in ReconnectKeys, k # "ipv6Mode" PROVE Known(k, cfgFile[k])
        BY <2>3, <3>1 DEF Known
      <3>2. Known("ipv6Mode", cfgFile["ipv6Mode"])
        BY DEF Naming
      <3> QED BY <3>1, <3>2
    <2> QED BY <2>2, <2>4, <2>5, <2>6 DEF Off
  <1>9. NetworkDiffers <=> Differs(cfgFile, ctl.net)
    BY <1>7, <1>8 DEF NetworkDiffers, Differs
  <1> QED BY <1>6, <1>9

\* Only the answer to an undo ends one while the connection lasts.
LEMMA UndoStep ==
  ASSUME SafeInv, SafeInv', RulesTyped, Held, Held', Single, Told, Tracking, [Next]_vars,
         Orderly, rs.base # <<>>, rs'.base = <<>>, statusEvents' = statusEvents
  PROVE  Load(rulesFile') = ctl.rules
  <1>0. "hasty" \notin faults /\ "list" \notin faults /\ DOMAIN rs = RsFields
    BY DEF Orderly, SafeInv, Guarded
  <1>1. Waited /\ Tracked /\ Waited'
    <2>1. faults' = faults
      BY FaultsStay
    <2> QED BY <2>1, SingleStep DEF Orderly, Single, Tracking
  <1>2. Lagging'
    BY <1>1 DEF Waited
  <1>3. rs' # rs /\ ~StatusEvent
    <2>1. IsSeq(statusEvents)
      BY DEF Told
    <2>2. ~StatusEvent
      BY <2>1, StatusMoves, TailIs
    <2> QED BY <2>2
  <1>4. ~SettingsSteps /\ ~OtherSteps
    BY <1>3, SettingsPass, OthersPass
  <1>5. ~\E i \in Takable(reqs) : HandleRules(i) \/ HandleList(i)
    BY <1>3, RulesServed, ListServed DEF Takable
  <1>6. ~\E i \in Takable(answers) : Refetched(i)
    BY ListTaken DEF Takable, SameBut, RsFields
  <1>7. ~RulesChanged /\ ~ensureBoot
    BY <1>1, <1>2, WaitedTold DEF SameBut, RsFields
  <1>8. ~EditRules /\ ~Dismiss
    <2>1. <<rs.view>> # <<>>
      OBVIOUS
    <2> QED BY <1>0, <1>1, <1>2, <1>3, <2>1, WaitedAsked
  <1>9. PICK i \in DOMAIN answers : MutationAnswered(i)
    BY <1>4, <1>5, <1>6, <1>7, <1>8, StepKinds DEF RulesSteps, Takable
  <1>10. Wrote(answers[i]) /\ answers[i].op.k = "revert"
    BY <1>1, <1>2, <1>9, WaitedMutated
  <1>11. answers[i] \in ToSet(answers)
    BY <1>9 DEF ToSet
  <1>12. Load(rulesFile) = ctl.rules
    BY <1>1, <1>10, <1>11 DEF Tracked
  <1>13. rulesFile' = rulesFile
    BY <1>9 DEF MutationAnswered, files
  <1> QED BY <1>12, <1>13

---------------------------------------------------------------------------
(* The theorems                                                            *)

\* Everything that the pages, the toast and the undo rest on.
PagesInv ==
  /\ SafeInv /\ SwitchInv /\ RulesTyped /\ SettingsTyped /\ ControlTyped /\ BuiltInv
  /\ Held /\ Counted /\ Ordered /\ Single /\ Settling /\ Naming /\ Told /\ Tracking

\* It holds at first.
LEMMA PagesInit == ASSUME Init PROVE PagesInv
  BY SafeInit, SwitchInit, TypesInit, BuiltInit, HeldInit, CountedInit, OrderedInit, SingleInit, SettlingInit,
     ToldInit, TrackingInit DEF PagesInv

\* No step breaks it.
LEMMA PagesStep == ASSUME PagesInv, [Next]_vars PROVE PagesInv'
  <1> USE DEF PagesInv
  <1>1. SafeInv' /\ SwitchInv' /\ RulesTyped' /\ SettingsTyped' /\ ControlTyped' /\ BuiltInv'
    BY SafeStep, SwitchStep, RulesTypedStep, SettingsTypedStep, ControlTypedStep, BuiltStep
  <1>2. Held' /\ Counted' /\ faults' = faults
    BY HeldStep, CountedStep, FaultsStay
  <1>3. Ordered' /\ Single'
    BY <1>1, <1>2, OrderedStep, SingleStep
  <1>4. Settling' /\ Naming'
    BY <1>2, SettlingStep, NamingStep
  <1>5. Told' /\ Tracking'
    BY <1>1, <1>2, ToldStep, TrackingStep
  <1> QED BY <1>1, <1>2, <1>3, <1>4, <1>5

\* Whatever the order in which the bridge serves the requests of the two pages,
\* and whatever fails: when nothing is under way no store waits for anything,
\* and when a page is quiet it shows the file, except where an edit, a read or a
\* reordering is known to break it (withSingleFlight, refetch and the echoes of
\* rules:changed; flushNow and its read back).
THEOREM PagesHold == Spec => []PagesConverge
  <1>1. PagesInv => PagesConverge
    BY NothingWaits, RulesAgree, SettingsShow DEF PagesInv, PagesConverge
  <1> QED BY <1>1, PagesInit, PagesStep, PTL DEF Spec

\* The toast offers a reconnect exactly when the running tunnel was built from
\* other rules or another network configuration than those on disk, at the
\* end of any interleaving of edits, reads, connects and status events
\* (snapshotFromConnectedPayload, setCurrentRulesSignature).
THEOREM ToastHolds == Spec => []ToastTells
  <1>1. PagesInv => ToastTells
    BY ToastIsRight DEF PagesInv
  <1> QED BY <1>1, PagesInit, PagesStep, PTL DEF Spec

\* An undo writes back the rules that the running tunnel was built from, and a
\* reordering neither loses nor brings back a rule or a group, although each was
\* computed from what the page showed (captureRevertBaseline,
\* rulesRevertToBaseline, rulesReplaceAll).
THEOREM EditsHold == Spec => EditsKept
  <1> DEFINE R == (/\ Orderly
                   /\ rs.base # <<>> /\ rs'.base = <<>> /\ statusEvents' = statusEvents)
                    => Load(rulesFile') = ctl.rules
             D == (/\ "hasty" \notin faults /\ "list" \notin faults
                   /\ rulesFile' # rulesFile
                   /\ \E i \in Under(reqs, "rules") : reqs[i].op.k = "drag")
                    => LET old == Load(rulesFile)
                           new == Load(rulesFile')
                       IN /\ Rules(new) = Rules(old)
                          /\ {g.id : g \in ToSet(new.groups)} = {g.id : g \in ToSet(old.groups)}
  <1>1. PagesInv /\ PagesInv' /\ [Next]_vars => R
    BY UndoStep DEF PagesInv
  <1>2. PagesInv /\ PagesInv' /\ [Next]_vars => D
    BY DragStep, FaultsStay DEF PagesInv, Alike, GroupIds
  <1>3. RevertRestores <=> [][R]_vars
    BY DEF RevertRestores
  <1>4. DragKeeps <=> [][D]_vars
    BY DEF DragKeeps
  <1> HIDE DEF R, D
  <1>5. Spec => [][R]_vars /\ [][D]_vars
    BY <1>1, <1>2, PagesInit, PagesStep, PTL DEF Spec
  <1>6. EditsKept <=> RevertRestores /\ DragKeeps
    BY DEF EditsKept
  <1> QED BY <1>3, <1>4, <1>5, <1>6, PTL
=============================================================================
