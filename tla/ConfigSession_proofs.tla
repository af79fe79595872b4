------------------------ MODULE ConfigSession_proofs ------------------------
(***************************************************************************)
(* Proofs about ConfigSession, for any scenarios, inputs, geo entries and  *)
(* number of ids to mint.                                                  *)
(*                                                                         *)
(* That the safety group stays as it is, and that the rules on disk are    *)
(* ones Validate accepts, cannot be shown of the file alone: a drag or an  *)
(* undo sends a whole model, computed from what the page has read earlier, *)
(* and ReplaceModel compares less than it writes.  SafeInv therefore       *)
(* follows every copy of the model there is.  SwitchInv follows the LAN    *)
(* switch through the patches, SavedPorts says of config.json what the     *)
(* merge of a patch and the check after it leave true, and BuiltInv ties   *)
(* the running tunnel to the documents it was built from; the other        *)
(* invariants are types.                                                   *)
(*                                                                         *)
(* Routes is about the generator alone.  It is proved along the document:  *)
(* the rules of a group, then the groups, either pass a flow on or take it *)
(* with the action of the first rule that applies, and so do the parts     *)
(* that the mode puts around them.  The loops of Compile are recursive     *)
(* functions; Iterated gives such a function its equations, by induction   *)
(* on a set of counts (Climb).                                             *)
(***************************************************************************)
EXTENDS ConfigSession, FiniteSetTheorems, SequenceTheorems, WellFoundedInduction, TLAPS

\* A sequence, of whatever elements.
IsSeq(s) == \E S : s \in Seq(S)

\* Every text there is; the backends do not see that a literal is one.
Texts == STRING \cup {"", "private", "safety", "user", "Safety", "My Rules", "renamed", "new", "direct"}

\* Rules and links as they are typed, imported and stored.
RuleText == [id : Texts, enabled : BOOLEAN, action : Texts, conds : SUBSET (GeoEntries \cup Classes \cup {Malformed})]
LinkText == [name : Texts, rules : Seq(RuleText)]

\* Rules, groups and models that Validate accepts.
GoodRule  == {r \in RuleText : Validate(r)}
GoodGroup == [id : Texts, name : Texts, locked : BOOLEAN, enabled : BOOLEAN, rules : Seq(GoodRule)]
GoodModel == [default : Actions, groups : Seq(GoodGroup)]

\* A model whose groups have ids.
Plain(m) == "groups" \in DOMAIN m /\ IsSeq(m.groups) /\ \A g \in ToSet(m.groups) : "id" \in DOMAIN g
\* One whose safety group is the one of the defaults.
Safe(m)  == Plain(m) /\ SafetyGroups(m) = SafetyGroups(DefaultModel)
\* A model that the services may hold: this, and valid.
Kept(m)  == Safe(m) /\ m \in GoodModel

\* The operations of the Routing page.
OpKinds == {"groupAdd", "groupEdit", "groupRemove", "ruleAdd", "ruleEdit", "ruleRemove", "ruleToggle",
            "ruleMove", "drag", "revert", "import"}

\* An operation of the Routing page: a model that it carries is Kept.
SafeOp(op) ==
  /\ op.k \in OpKinds
  /\ op.k \in {"drag", "revert"} => Kept(op.next)
  /\ op.k = "import" => op.link \in Seq(LinkText)
  /\ op.k \in {"ruleAdd", "ruleEdit"} => op.rule \in RuleText
  /\ op.k = "groupAdd" => op.name \in Texts
  /\ op.k = "groupEdit" => op.enabled \in BOOLEAN

\* The fields of rulesStore.
RsFields == {"view", "boot", "sub", "lead", "reading", "echoes", "base", "sig"}

\* rulesStore after its first read: what it shows, and what it would go back to.
Guarded(v) ==
  /\ DOMAIN v = RsFields /\ v.boot \in BOOLEAN
  /\ IF v.boot THEN Kept(v.view) ELSE v.view = EmptyView
  /\ IsSeq(v.base) /\ Len(v.base) <= 1 /\ \A m \in ToSet(v.base) : Kept(m)

\* A switch is never patched with anything but a switch.
Switches(p) == "allowLan" \in DOMAIN p => p["allowLan"] \in BOOLEAN

\* Requests, answers and the operations that wait behind withSingleFlight.
Fair(q)     == (q.to = "rules" => SafeOp(q.op)) /\ (q.to = "update" => Switches(q.patch))
Sent(s)     == IsSeq(s) /\ \A q \in ToSet(s) : Fair(q)
Answered(s) == IsSeq(s) /\ \A a \in ToSet(s) : a.to = "list" => Kept(a.view)
Waiting(s)  == IsSeq(s) /\ \A op \in ToSet(s) : SafeOp(op)

\* Every copy of the rules, on disk, on its way or on the page, is Kept.
SafeInv ==
  /\ Kept(Load(rulesFile)) /\ minted \in 0..Len(NewIds) /\ link \in Seq(LinkText)
  /\ Sent(reqs) /\ Answered(answers) /\ Waiting(waiters) /\ Guarded(rs)

\* The fields of the settings' store.
StFields == {"cur", "pend", "inFlight", "started", "flushed", "open"}

\* The LAN switch on disk and in the patch under way.
SwitchInv ==
  /\ cfgFile["allowLan"] \in BOOLEAN
  /\ DOMAIN st = StFields /\ Switches(st.pend)

\* The counters of the rules page and of the event it listens to.
RulesTyped ==
  /\ rulesEvents \in Nat
  /\ rs.echoes \in Nat /\ rs.reading \in {"no", "quiet", "push"}

\* The settings page.
SettingsTyped == st.inFlight \in Nat /\ DOMAIN st.cur = Keys

\* The ports on disk can be listened on, and they differ.
SavedPorts == (\A k \in PortKeys : InRange(k, cfgFile[k])) /\ validateNetwork(cfgFile)

\* The controller and the snapshot of the toast.
ControlTyped ==
  /\ "state" \in DOMAIN ctl /\ ctl.state \in {"idle", "reading", "building", "connected"}
  /\ IsSeq(snap) /\ Len(snap) <= 1

\* What BuildSingbox is given.
GoodInput(in) ==
  in.rules \in GoodModel /\ in.tun \in BOOLEAN /\ in.allowLan \in BOOLEAN /\ in.blockIPv6 \in BOOLEAN

\* The fields of the controller.
CtlFields == {"state", "mode", "net", "rules", "in", "doc"}

\* A tunnel runs on the document of the documents it was built from.
BuiltInv ==
  /\ DOMAIN ctl = CtlFields /\ ctl.net["allowLan"] \in BOOLEAN
  /\ ctl.state = "connected" => GoodInput(ctl.in) /\ ctl.doc = BuildSingbox(ctl.in)

---------------------------------------------------------------------------
(* Sequences                                                               *)

\* A sequence by its length and its elements.
LEMMA SeqFacts ==
  ASSUME NEW s, IsSeq(s)
  PROVE  Len(s) \in Nat /\ DOMAIN s = 1..Len(s) /\ \A x \in ToSet(s) : \E i \in 1..Len(s) : x = s[i]
  BY DEF IsSeq, ToSet

\* What Append, \o, RemoveAt and a loop make of a sequence.
LEMMA AppendSeq ==
  ASSUME NEW s, NEW e, IsSeq(s)
  PROVE  IsSeq(Append(s, e)) /\ ToSet(Append(s, e)) = ToSet(s) \cup {e}
  <1>1. PICK S : s \in Seq(S)
    BY DEF IsSeq
  <1>2. s \in Seq(S \cup {e}) /\ e \in S \cup {e}
    BY <1>1
  <1>3. Append(s, e) \in Seq(S \cup {e}) /\ Len(Append(s, e)) = Len(s) + 1 /\ Len(s) \in Nat
        /\ (\A n \in 1..Len(s) : Append(s, e)[n] = s[n]) /\ Append(s, e)[Len(s) + 1] = e
    BY <1>2
  <1>4. DOMAIN s = 1..Len(s) /\ DOMAIN Append(s, e) = 1..(Len(s) + 1)
    BY <1>1, <1>3
  <1>5. ToSet(Append(s, e)) = ToSet(s) \cup {e}
    BY <1>3, <1>4 DEF ToSet
  <1> QED BY <1>3, <1>5 DEF IsSeq

\* Concatenation.
LEMMA ConcatSeq ==
  ASSUME NEW a, NEW b, IsSeq(a), IsSeq(b)
  PROVE  IsSeq(a \o b) /\ ToSet(a \o b) \subseteq ToSet(a) \cup ToSet(b)
         /\ ToSet(a) \subseteq ToSet(a \o b) /\ ToSet(b) \subseteq ToSet(a \o b)
  <1>1. PICK S, T : a \in Seq(S) /\ b \in Seq(T)
    BY DEF IsSeq
  <1>2. a \in Seq(S \cup T) /\ b \in Seq(S \cup T)
    BY <1>1
  <1>3. /\ a \o b \in Seq(S \cup T) /\ Len(a \o b) = Len(a) + Len(b)
        /\ \A j \in 1..(Len(a) + Len(b)) : (a \o b)[j] = IF j <= Len(a) THEN a[j] ELSE b[j - Len(a)]
    BY <1>2
  <1>4. /\ Len(a) \in Nat /\ Len(b) \in Nat /\ DOMAIN a = 1..Len(a) /\ DOMAIN b = 1..Len(b)
        /\ DOMAIN (a \o b) = 1..(Len(a) + Len(b))
    BY <1>1, <1>3
  <1>5. \A j \in 1..Len(b) : Len(a) + j \in 1..(Len(a) + Len(b)) /\ (a \o b)[Len(a) + j] = b[j]
    <2>1. ASSUME NEW j \in 1..Len(b)
          PROVE  Len(a) + j \in 1..(Len(a) + Len(b)) /\ (a \o b)[Len(a) + j] = b[j]
      <3>1. Len(a) + j \in 1..(Len(a) + Len(b)) /\ ~(Len(a) + j <= Len(a)) /\ (Len(a) + j) - Len(a) = j
        BY <1>4
      <3> QED BY <1>3, <3>1
    <2> QED BY <2>1
  <1>6. \A j \in 1..Len(a) : j \in 1..(Len(a) + Len(b)) /\ (a \o b)[j] = a[j]
    BY <1>3, <1>4
  <1>7. \A j \in 1..(Len(a) + Len(b)) : (a \o b)[j] \in ToSet(a) \cup ToSet(b)
    <2>1. ASSUME NEW j \in 1..(Len(a) + Len(b)) PROVE (a \o b)[j] \in ToSet(a) \cup ToSet(b)
      <3>1. CASE j <= Len(a)
        <4>1. j \in DOMAIN a
          BY <1>4, <3>1
        <4> QED BY <1>3, <3>1, <4>1 DEF ToSet
      <3>2. CASE ~(j <= Len(a))
        <4>1. j - Len(a) \in DOMAIN b
          BY <1>4, <3>2
        <4> QED BY <1>3, <3>2, <4>1 DEF ToSet
      <3> QED BY <3>1, <3>2
    <2> QED BY <2>1
  <1>8. ToSet(a \o b) \subseteq ToSet(a) \cup ToSet(b)
    BY <1>4, <1>7 DEF ToSet
  <1>9. ToSet(a) \subseteq ToSet(a \o b)
    BY <1>4, <1>6 DEF ToSet
  <1>10. ToSet(b) \subseteq ToSet(a \o b)
    BY <1>4, <1>5 DEF ToSet
  <1> QED BY <1>3, <1>8, <1>9, <1>10 DEF IsSeq

\* RemoveAt keeps the elements it does not take.
LEMMA RemoveSeq ==
  ASSUME NEW s, IsSeq(s), NEW i \in 1..Len(s)
  PROVE  /\ IsSeq(RemoveAt(s, i)) /\ ToSet(RemoveAt(s, i)) \subseteq ToSet(s)
         /\ \A x \in ToSet(s) : x # s[i] => x \in ToSet(RemoveAt(s, i))
  <1>1. PICK S : s \in Seq(S)
    BY DEF IsSeq
  <1> DEFINE a == SubSeq(s, 1, i - 1)
             b == SubSeq(s, i + 1, Len(s))
             n == Len(s)
  <1>2. n \in Nat /\ i \in Nat /\ 1 <= i /\ i <= n /\ DOMAIN s = 1..n
    BY <1>1
  <1>0. b = SubSeq(s, i + 1, n)
    OBVIOUS
  <1> HIDE DEF n, b
  <1>3. a \in Seq(S) /\ Len(a) = i - 1 /\ \A j \in 1..(i - 1) : a[j] = s[j]
    BY <1>1, <1>2
  <1>4. b \in Seq(S) /\ Len(b) = n - i /\ \A j \in 1..(n - i) : b[j] = s[i + j]
    <2>1. \A k \in (i + 1)..n : s[k] \in S
      BY <1>1, <1>2
    <2>2. i + 1 \in Int /\ n \in Int
      BY <1>2
    <2>3. /\ SubSeq(s, i + 1, n) \in Seq(S)
          /\ Len(SubSeq(s, i + 1, n)) = IF i + 1 <= n THEN n - (i + 1) + 1 ELSE 0
          /\ \A j \in 1..(n - (i + 1) + 1) : SubSeq(s, i + 1, n)[j] = s[i + 1 + j - 1]
      BY <2>1, <2>2, SubSeqProperties
    <2>4. n - (i + 1) + 1 = n - i /\ (IF i + 1 <= n THEN n - (i + 1) + 1 ELSE 0) = n - i
      BY <1>2
    <2>5. \A j \in 1..(n - i) : i + 1 + j - 1 = i + j
      BY <1>2
    <2> QED BY <1>0, <2>3, <2>4, <2>5
  <1>5. RemoveAt(s, i) = a \o b
    BY DEF RemoveAt, n, b
  <1> HIDE DEF a
  <1>6. DOMAIN a = 1..(i - 1) /\ DOMAIN b = 1..(n - i)
    BY <1>2, <1>3, <1>4
  <1>7. ToSet(a) \subseteq ToSet(s) /\ ToSet(b) \subseteq ToSet(s)
    <2>1. (\A j \in 1..(i - 1) : j \in 1..n) /\ (\A j \in 1..(n - i) : i + j \in 1..n)
      BY <1>2
    <2>2. \A j \in 1..(i - 1) : a[j] = s[j] /\ s[j] \in ToSet(s)
      BY <1>2, <1>3, <2>1 DEF ToSet
    <2>3. \A j \in 1..(n - i) : b[j] = s[i + j] /\ s[i + j] \in ToSet(s)
      BY <1>2, <1>4, <2>1 DEF ToSet
    <2> QED BY <1>6, <2>2, <2>3 DEF ToSet
  <1>8. \A x \in ToSet(s) : x # s[i] => x \in ToSet(a) \cup ToSet(b)
    <2>1. ASSUME NEW j \in 1..n, j # i PROVE s[j] \in ToSet(a) \cup ToSet(b)
      <3>1. CASE j < i
        <4>1. j \in DOMAIN a /\ a[j] = s[j]
          BY <1>2, <1>3, <1>6, <3>1
        <4> QED BY <4>1 DEF ToSet
      <3>2. CASE j > i
        <4>1. j - i \in 1..(n - i) /\ i + (j - i) = j
          BY <1>2, <3>2
        <4>2. j - i \in DOMAIN b /\ b[j - i] = s[j]
          BY <1>4, <1>6, <4>1
        <4> QED BY <4>2 DEF ToSet
      <3> QED BY <1>2, <2>1, <3>1, <3>2
    <2> QED BY <1>2, <2>1 DEF ToSet
  <1>9. IsSeq(a) /\ IsSeq(b)
    BY <1>3, <1>4 DEF IsSeq
  <1> QED BY <1>5, <1>7, <1>8, <1>9, ConcatSeq

\* A sequence written as a function.
LEMMA MapSeq ==
  ASSUME NEW s, NEW n \in Nat, DOMAIN s = 1..n, s = [i \in 1..n |-> s[i]]
  PROVE  IsSeq(s) /\ Len(s) = n
  <1> DEFINE S == {s[i] : i \in 1..n}
  <1>1. s \in [1..n -> S]
    OBVIOUS
  <1> HIDE DEF S
  <1> QED BY <1>1 DEF IsSeq

\* One element.
LEMMA SingleSeq == ASSUME NEW e PROVE IsSeq(<<e>>) /\ ToSet(<<e>>) = {e} /\ Len(<<e>>) = 1
  <1>1. <<e>> \in Seq({e}) /\ Len(<<e>>) = 1 /\ DOMAIN <<e>> = {1} /\ <<e>>[1] = e
    OBVIOUS
  <1> QED BY <1>1 DEF IsSeq, ToSet

\* No element.
LEMMA NoSeq == IsSeq(<<>>) /\ ToSet(<<>>) = {} /\ Len(<<>>) = 0
  <1>1. <<>> \in Seq({}) /\ Len(<<>>) = 0 /\ DOMAIN <<>> = {}
    OBVIOUS
  <1> QED BY <1>1 DEF IsSeq, ToSet

\* A position that was looked for and found.
LEMMA MinIn == ASSUME NEW I, I \subseteq Nat, I # {} PROVE Min(I) \in I /\ \A y \in I : Min(I) <= y
  <1> DEFINE R == {p \in Nat \X Nat : p[1] < p[2]}
  <1>1. OpToRel(<, Nat) = R
    BY Zenon DEF OpToRel
  <1>2. IsWellFoundedOn(R, Nat)
    BY <1>1, NatLessThanWellFounded
  <1> HIDE DEF R
  <1>3. PICK x \in I : \A y \in I : ~(<<y, x>> \in R)
    BY <1>2, WFMin
  <1>4. \A y \in I : <<y, x>> \in R <=> y < x
    BY DEF R
  <1>5. \A y \in I : ~(y < x) /\ x \in Nat /\ y \in Nat
    BY <1>3, <1>4, Zenon
  <1>6. \A y \in I : x <= y
    BY <1>5
  <1> QED BY <1>6 DEF Min

---------------------------------------------------------------------------
(* Induction and recursion over a bounded count                            *)

\* Induction on the counts up to n: a set that holds 0 and, with
\* each count, the next one holds them all.
LEMMA Climb ==
  ASSUME NEW n \in Nat, NEW T, 0 \in T, \A k \in 0..(n - 1) : k \in T => k + 1 \in T
  PROVE  \A k \in 0..n : k \in T
  <1> DEFINE bad == {k \in 0..n : k \notin T}
  <1>1. SUFFICES ASSUME bad # {} PROVE FALSE
    OBVIOUS
  <1>2. PICK x \in bad : \A y \in bad : x <= y
    <2>1. bad \subseteq Nat
      OBVIOUS
    <2> HIDE DEF bad
    <2> QED BY <1>1, <2>1, MinIn
  <1>3. x \in 0..n /\ x # 0 /\ x \notin T
    BY <1>2
  <1>4. x - 1 \in 0..(n - 1) /\ (x - 1) + 1 = x /\ x - 1 \in 0..n /\ ~(x <= x - 1)
    BY <1>3
  <1>5. x - 1 \in T
    BY <1>2, <1>4
  <1> QED BY <1>3, <1>4, <1>5

\* A loop of n turns, each a function of what the turn before has left, and what
\* it has after every turn.
Turns(n, V, S)   == \A k \in 1..n : S[k] \in [V -> V]
Course(n, S, v, h) == h[0] = v /\ \A k \in 1..n : h[k] = S[k][h[k - 1]]

\* A loop that starts from v and goes on by S has exactly one course.
LEMMA Iterated ==
  ASSUME NEW n \in Nat, NEW V, NEW v \in V, NEW S, Turns(n, V, S)
  PROVE  \E h \in [0..n -> V] : Course(n, S, v, h)
  <1> USE DEF Turns, Course
  <1> DEFINE Upto(k, h) == h[0] = v /\ \A j \in 1..k : h[j] = S[j][h[j - 1]]
             T == {k \in 0..n : \E h \in [0..k -> V] : Upto(k, h)}
  <1>1. 0 \in T
    <2> DEFINE h == [j \in 0..0 |-> v]
    <2>1. h \in [0..0 -> V] /\ h[0] = v /\ 1..0 = {}
      OBVIOUS
    <2> HIDE DEF h
    <2>2. Upto(0, h) /\ 0 \in 0..n
      BY <2>1
    <2> HIDE DEF Upto
    <2> QED BY <2>1, <2>2
  <1>2. ASSUME NEW k \in 0..(n - 1), k \in T PROVE k + 1 \in T
    <2>1. PICK h \in [0..k -> V] : Upto(k, h)
      BY <1>2
    <2> DEFINE i == [j \in 0..(k + 1) |-> IF j = k + 1 THEN S[k + 1][h[k]] ELSE h[j]]
    <2>2. k + 1 \in 1..n /\ k \in 0..k
      OBVIOUS
    <2>3. S[k + 1][h[k]] \in V
      BY <2>1, <2>2
    <2>4. i \in [0..(k + 1) -> V]
      <3>1. \A j \in 0..(k + 1) : j # k + 1 => j \in 0..k
        OBVIOUS
      <3> QED BY <2>1, <2>3, <3>1
    <2>5. i[0] = v
      BY <2>1
    <2>6. \A j \in 1..(k + 1) : i[j] = S[j][i[j - 1]]
      <3>1. ASSUME NEW j \in 1..(k + 1) PROVE i[j] = S[j][i[j - 1]]
        <4>1. j - 1 \in 0..k /\ j - 1 \in 0..(k + 1) /\ j - 1 # k + 1 /\ j \in 0..(k + 1)
          OBVIOUS
        <4>2. i[j - 1] = h[j - 1]
          BY <4>1
        <4>3. CASE j = k + 1
          <5>1. i[j] = S[k + 1][h[k]] /\ j - 1 = k
            BY <4>1, <4>3
          <5> QED BY <4>2, <4>3, <5>1
        <4>4. CASE j # k + 1
          <5>1. j \in 1..k /\ i[j] = h[j]
            BY <4>1, <4>4
          <5> QED BY <2>1, <4>2, <5>1
        <4> QED BY <4>3, <4>4
      <3> QED BY <3>1
    <2> HIDE DEF i
    <2>7. k + 1 \in 0..n
      OBVIOUS
    <2> QED BY <2>4, <2>5, <2>6, <2>7
  <1> HIDE DEF T
  <1>3. n \in T
    BY <1>1, <1>2, Climb
  <1> QED BY <1>3 DEF T

---------------------------------------------------------------------------
(* The operations of RulesService                                          *)

\* The ids that newID may give.
LEMMA IdsSeq == Len(NewIds) \in Nat /\ NewIds \in Seq(STRING) /\ DOMAIN NewIds = 1..Len(NewIds)
  <1>1. NewIds \in Seq(STRING)
    BY RulesAssumption
  <1> QED BY <1>1

\* The default model has a safety group, and it is locked.
LEMMA DefaultSafety ==
  /\ Safe(DefaultModel)
  /\ \A g \in SafetyGroups(DefaultModel) : g.locked
  <1> DEFINE s == [id |-> "safety", name |-> "Safety", locked |-> TRUE, enabled |-> TRUE,
                   rules |-> <<[id |-> "private", enabled |-> TRUE, action |-> "direct", conds |-> Lan]>>]
             u == [id |-> "user", name |-> "My Rules", locked |-> FALSE, enabled |-> TRUE, rules |-> <<>>]
  <1>1. DefaultModel.groups = <<s, u>> /\ "groups" \in DOMAIN DefaultModel
    BY DEF DefaultModel
  <1>2. "id" \in DOMAIN s /\ s.id = "safety" /\ s.locked /\ "id" \in DOMAIN u /\ u.id = "user"
    OBVIOUS
  <1> HIDE DEF s, u
  <1>3. <<s, u>> \in Seq({s, u}) /\ ToSet(<<s, u>>) = {s, u}
    BY DEF ToSet
  <1> QED BY <1>1, <1>2, <1>3 DEF Safe, Plain, IsSeq, SafetyGroups

\* No group that is open to changes is the safety group.
LEMMA Unlocking ==
  ASSUME NEW m, Safe(m), NEW i \in 1..Len(m.groups), ~m.groups[i].locked
  PROVE  m.groups[i].id # "safety"
  <1>1. m.groups[i] \in ToSet(m.groups)
    BY SeqFacts DEF Safe, Plain, ToSet
  <1> QED BY <1>1, DefaultSafety DEF Safe, SafetyGroups

\* Another group in the place of one that is not the safety group.
LEMMA ReplaceGroup ==
  ASSUME NEW m, Safe(m), NEW i \in 1..Len(m.groups), m.groups[i].id # "safety",
         NEW g, "id" \in DOMAIN g, g.id # "safety"
  PROVE  /\ Safe([m EXCEPT !.groups[i] = g])
         /\ Len([m EXCEPT !.groups[i] = g].groups) = Len(m.groups)
         /\ \A j \in 1..Len(m.groups) : [m EXCEPT !.groups[i] = g].groups[j] = IF j = i THEN g ELSE m.groups[j]
  <1> DEFINE s == m.groups
             t == [s EXCEPT ![i] = g]
  <1>1. "groups" \in DOMAIN m /\ IsSeq(s) /\ (\A x \in ToSet(s) : "id" \in DOMAIN x)
    BY DEF Safe, Plain
  <1>2. PICK S : s \in Seq(S)
    BY <1>1 DEF IsSeq
  <1>3. s \in Seq(S \cup {g}) /\ g \in S \cup {g} /\ DOMAIN s = 1..Len(s)
    BY <1>2
  <1>4. t \in Seq(S \cup {g}) /\ DOMAIN t = 1..Len(s) /\ Len(t) = Len(s)
        /\ \A j \in 1..Len(s) : t[j] = IF j = i THEN g ELSE s[j]
    BY <1>3
  <1>5. DOMAIN [m EXCEPT !.groups[i] = g] = DOMAIN m /\ [m EXCEPT !.groups[i] = g].groups = t
    BY <1>1
  <1>6. s[i].id # "safety"
    OBVIOUS
  <1> HIDE DEF s, t
  <1>7. \A x : x.id = "safety" => (x \in ToSet(t) <=> x \in ToSet(s))
    BY <1>3, <1>4, <1>6 DEF ToSet
  <1>8. \A x \in ToSet(t) : x = g \/ x \in ToSet(s)
    BY <1>3, <1>4 DEF ToSet
  <1>9. SafetyGroups([m EXCEPT !.groups[i] = g]) = SafetyGroups(m)
    BY <1>5, <1>7 DEF SafetyGroups, s
  <1>10. Plain([m EXCEPT !.groups[i] = g])
    BY <1>1, <1>4, <1>5, <1>8 DEF Plain, IsSeq
  <1> QED BY <1>4, <1>5, <1>9, <1>10 DEF Safe, s

\* The changes that the operations make to one group.
SetGroup(m, i, g) == [m EXCEPT !.groups[i] = g]
SetRules(m, i, x) == [m EXCEPT !.groups[i].rules = x]
SetName(m, i, x)  == [m EXCEPT !.groups[i].name = x]
SetFlag(m, i, x)  == [m EXCEPT !.groups[i].enabled = x]

\* n is m with another group at i, of the same id.
Changed(m, n, i) ==
  /\ Safe(n) /\ Len(n.groups) = Len(m.groups) /\ n.groups[i].id = m.groups[i].id
  /\ \A j \in 1..Len(m.groups) : j # i => n.groups[j] = m.groups[j]

\* Rules and flags of a group may change, and its name; not its id.
LEMMA ChangeGroup ==
  ASSUME NEW m, Safe(m), NEW i \in 1..Len(m.groups), m.groups[i].id # "safety", NEW x
  PROVE  /\ Changed(m, SetRules(m, i, x), i)
         /\ Changed(m, SetName(m, i, x), i)
         /\ Changed(m, SetFlag(m, i, x), i)
  <1>1. "id" \in DOMAIN m.groups[i]
    BY SeqFacts DEF Safe, Plain, ToSet
  <1>2. ASSUME NEW g, "id" \in DOMAIN g, g.id = m.groups[i].id
        PROVE  Changed(m, [m EXCEPT !.groups[i] = g], i)
    BY <1>2, ReplaceGroup DEF Changed
  <1>3. Changed(m, SetRules(m, i, x), i)
    <2> DEFINE g == [m.groups[i] EXCEPT !.rules = x]
    <2>1. SetRules(m, i, x) = [m EXCEPT !.groups[i] = g] /\ "id" \in DOMAIN g /\ g.id = m.groups[i].id
      BY <1>1 DEF SetRules
    <2> HIDE DEF g
    <2> QED BY <1>2, <2>1
  <1>4. Changed(m, SetName(m, i, x), i)
    <2> DEFINE g == [m.groups[i] EXCEPT !.name = x]
    <2>1. SetName(m, i, x) = [m EXCEPT !.groups[i] = g] /\ "id" \in DOMAIN g /\ g.id = m.groups[i].id
      BY <1>1 DEF SetName
    <2> HIDE DEF g
    <2> QED BY <1>2, <2>1
  <1>5. Changed(m, SetFlag(m, i, x), i)
    <2> DEFINE g == [m.groups[i] EXCEPT !.enabled = x]
    <2>1. SetFlag(m, i, x) = [m EXCEPT !.groups[i] = g] /\ "id" \in DOMAIN g /\ g.id = m.groups[i].id
      BY <1>1 DEF SetFlag
    <2> HIDE DEF g
    <2> QED BY <1>2, <2>1
  <1> QED BY <1>3, <1>4, <1>5

\* Lookup by id finds a group of that id.
LEMMA GroupFound ==
  ASSUME NEW m, Safe(m), NEW id, indexOfGroup(m, id) # 0
  PROVE  indexOfGroup(m, id) \in 1..Len(m.groups) /\ m.groups[indexOfGroup(m, id)].id = id
  <1> DEFINE I == {i \in 1..Len(m.groups) : m.groups[i].id = id}
  <1>1. indexOfGroup(m, id) = IF I # {} THEN Min(I) ELSE 0
    BY DEF indexOfGroup, SelectInSeq
  <1>2. I \subseteq Nat
    OBVIOUS
  <1>3. indexOfGroup(m, id) \in I
    BY <1>1, <1>2, MinIn
  <1> QED BY <1>3

\* Lookup of a rule finds its group and its place.
LEMMA RuleFound ==
  ASSUME NEW m, Safe(m), NEW id, findRule(m, id)[1] # 0
  PROVE  findRule(m, id)[1] \in 1..Len(m.groups)
  <1> DEFINE I == {i \in 1..Len(m.groups) : \E r \in ToSet(m.groups[i].rules) : r.id = id}
  <1>1. findRule(m, id)[1] = IF I # {} THEN Min(I) ELSE 0
    BY DEF findRule, SelectInSeq
  <1>2. I \subseteq Nat
    OBVIOUS
  <1>3. findRule(m, id)[1] \in I
    BY <1>1, <1>2, MinIn
  <1> QED BY <1>3

\* A group of another id at the end.
LEMMA AddGroup ==
  ASSUME NEW m, Safe(m), NEW gs, IsSeq(gs), \A g \in ToSet(gs) : "id" \in DOMAIN g /\ g.id # "safety"
  PROVE  Safe([m EXCEPT !.groups = @ \o gs])
  <1> DEFINE n == [m EXCEPT !.groups = @ \o gs]
  <1>1. "groups" \in DOMAIN n /\ n.groups = m.groups \o gs
    BY DEF Safe, Plain
  <1>2. IsSeq(m.groups) /\ \A g \in ToSet(m.groups) : "id" \in DOMAIN g
    BY DEF Safe, Plain
  <1>3. IsSeq(n.groups) /\ ToSet(n.groups) \subseteq ToSet(m.groups) \cup ToSet(gs)
        /\ ToSet(m.groups) \subseteq ToSet(n.groups)
    BY <1>1, <1>2, ConcatSeq
  <1> HIDE DEF n
  <1>4. SafetyGroups(n) = SafetyGroups(m)
    BY <1>3 DEF SafetyGroups
  <1>5. Plain(n)
    BY <1>1, <1>2, <1>3 DEF Plain
  <1>6. Safe(n)
    BY <1>4, <1>5 DEF Safe
  <1> QED BY <1>6 DEF n

\* A group of another id is taken out.
LEMMA DropGroup ==
  ASSUME NEW m, Safe(m), NEW i \in 1..Len(m.groups), m.groups[i].id # "safety"
  PROVE  Safe([m EXCEPT !.groups = RemoveAt(@, i)])
  <1> DEFINE n == [m EXCEPT !.groups = RemoveAt(@, i)]
  <1>1. "groups" \in DOMAIN n /\ n.groups = RemoveAt(m.groups, i)
    BY DEF Safe, Plain
  <1>2. IsSeq(m.groups) /\ \A g \in ToSet(m.groups) : "id" \in DOMAIN g
    BY DEF Safe, Plain
  <1>3. IsSeq(n.groups) /\ ToSet(n.groups) \subseteq ToSet(m.groups)
        /\ \A g \in ToSet(m.groups) : g # m.groups[i] => g \in ToSet(n.groups)
    BY <1>1, <1>2, RemoveSeq
  <1> HIDE DEF n
  <1>4. SafetyGroups(n) = SafetyGroups(m)
    BY <1>3 DEF SafetyGroups
  <1>5. Plain(n)
    BY <1>1, <1>2, <1>3 DEF Plain
  <1>6. Safe(n)
    BY <1>4, <1>5 DEF Safe
  <1> QED BY <1>6 DEF n

\* The operations of RulesService, one by one.
LEMMA GroupAddSafe ==
  ASSUME NEW m, Safe(m), NEW id, id # "safety", NEW name PROVE Safe(GroupAdd(m, id, name).model)
  <1> DEFINE g == [id |-> id, name |-> name, locked |-> FALSE, enabled |-> TRUE, rules |-> <<>>]
  <1>1. "id" \in DOMAIN g /\ g.id = id
    OBVIOUS
  <1>2. GroupAdd(m, id, name).model \in {m, [m EXCEPT !.groups = Append(@, g)]}
    BY DEF GroupAdd, Accept, Refuse
  <1>3. IsSeq(m.groups) /\ "groups" \in DOMAIN m
    BY DEF Safe, Plain
  <1> HIDE DEF g
  <1>4. Safe([m EXCEPT !.groups = Append(@, g)])
    <2> DEFINE n == [m EXCEPT !.groups = Append(@, g)]
    <2>1. "groups" \in DOMAIN n /\ n.groups = Append(m.groups, g)
      BY <1>3
    <2>2. IsSeq(n.groups) /\ ToSet(n.groups) = ToSet(m.groups) \cup {g}
      BY <1>3, <2>1, AppendSeq
    <2> HIDE DEF n
    <2>3. SafetyGroups(n) = SafetyGroups(m) /\ Plain(n)
      BY <1>1, <2>1, <2>2 DEF SafetyGroups, Plain, Safe
    <2>4. Safe(n)
      BY <2>3 DEF Safe
    <2> QED BY <2>4 DEF n
  <1> QED BY <1>2, <1>4

\* GroupEdit: the literal "safety" is refused.
LEMMA GroupEditSafe ==
  ASSUME NEW m, Safe(m), NEW id, NEW name, NEW e PROVE Safe(GroupEdit(m, id, name, e).model)
  <1> DEFINE i == indexOfGroup(m, id)
             n == SetName(m, i, name)
  <1>1. CASE id # "safety" /\ Unlocked(m, i)
    <2>1. i \in 1..Len(m.groups) /\ m.groups[i].id = id
      BY <1>1, GroupFound DEF Unlocked
    <2>2. GroupEdit(m, id, name, e).model = SetFlag(n, i, e)
      BY <1>1 DEF GroupEdit, Accept, SetName, SetFlag
    <2> HIDE DEF i
    <2>3. Safe(n) /\ Len(n.groups) = Len(m.groups) /\ n.groups[i].id = id
      BY <1>1, <2>1, ChangeGroup DEF Changed
    <2> HIDE DEF n
    <2>4. Safe(SetFlag(n, i, e))
      BY <1>1, <2>1, <2>3, ChangeGroup DEF Changed
    <2> QED BY <2>2, <2>4
  <1>2. CASE ~(id # "safety" /\ Unlocked(m, i))
    BY <1>2 DEF GroupEdit, Refuse
  <1> QED BY <1>1, <1>2

\* GroupRemove: a locked group stays.
LEMMA GroupRemoveSafe ==
  ASSUME NEW m, Safe(m), NEW id PROVE Safe(GroupRemove(m, id).model)
  <1> DEFINE i == indexOfGroup(m, id)
  <1>1. CASE id # "safety" /\ Unlocked(m, i)
    <2>1. i \in 1..Len(m.groups) /\ m.groups[i].id = id
      BY <1>1, GroupFound DEF Unlocked
    <2>2. GroupRemove(m, id).model = [m EXCEPT !.groups = RemoveAt(@, i)]
      BY <1>1 DEF GroupRemove, Accept
    <2> HIDE DEF i
    <2> QED BY <1>1, <2>1, <2>2, DropGroup
  <1>2. CASE ~(id # "safety" /\ Unlocked(m, i))
    BY <1>2 DEF GroupRemove, Refuse
  <1> QED BY <1>1, <1>2

\* RuleAdd: the literal "safety" and a locked group are refused.
LEMMA RuleAddSafe ==
  ASSUME NEW m, Safe(m), NEW gid, NEW id, NEW r PROVE Safe(RuleAdd(m, gid, id, r).model)
  <1> DEFINE i  == indexOfGroup(m, gid)
             nr == [r EXCEPT !.id = id]
  <1>1. CASE gid # "safety" /\ Validate(nr) /\ Unlocked(m, i)
    <2>1. i \in 1..Len(m.groups) /\ m.groups[i].id = gid
      BY <1>1, GroupFound DEF Unlocked
    <2>2. RuleAdd(m, gid, id, r).model = [m EXCEPT !.groups[i].rules = Append(@, nr)]
      BY <1>1 DEF RuleAdd, Accept
    <2> HIDE DEF i, nr
    <2>3. [m EXCEPT !.groups[i].rules = Append(@, nr)] = SetRules(m, i, Append(m.groups[i].rules, nr))
      BY <2>1 DEF SetRules
    <2> QED BY <1>1, <2>1, <2>2, <2>3, ChangeGroup DEF Changed
  <1>2. CASE ~(gid # "safety" /\ Validate(nr) /\ Unlocked(m, i))
    BY <1>2 DEF RuleAdd, Refuse
  <1> QED BY <1>1, <1>2

\* An operation on a rule that was found changes the rules of its group.
LEMMA RuleOpSafe ==
  ASSUME NEW m, Safe(m), NEW id, Unlocked(m, findRule(m, id)[1]), NEW rules
  PROVE  Safe(SetRules(m, findRule(m, id)[1], rules))
  <1> DEFINE i == findRule(m, id)[1]
  <1>1. i \in 1..Len(m.groups) /\ ~m.groups[i].locked
    BY RuleFound DEF Unlocked
  <1> HIDE DEF i
  <1>2. Safe(SetRules(m, i, rules))
    BY <1>1, Unlocking, ChangeGroup DEF Changed
  <1> QED BY <1>2 DEF i

\* RuleEdit, RuleRemove and RuleToggle: a locked group is refused.
LEMMA RuleOpsSafe ==
  ASSUME NEW m, Safe(m), NEW id, NEW r
  PROVE  /\ Safe(RuleEdit(m, r).model)
         /\ Safe(RuleRemove(m, id).model)
         /\ Safe(RuleToggle(m, id).model)
  <1> DEFINE at == findRule(m, id)
             ar == findRule(m, r.id)
             R  == m.groups[at[1]].rules
  <1>1. RuleEdit(m, r).model = IF Validate(r) /\ Unlocked(m, ar[1])
                               THEN SetRules(m, ar[1], [m.groups[ar[1]].rules EXCEPT ![ar[2]] = r]) ELSE m
    BY DEF RuleEdit, Accept, Refuse, SetRules
  <1>2. RuleRemove(m, id).model = IF Unlocked(m, at[1]) THEN SetRules(m, at[1], RemoveAt(R, at[2])) ELSE m
    BY DEF RuleRemove, Accept, Refuse, SetRules
  <1>3. RuleToggle(m, id).model = IF Unlocked(m, at[1])
                                  THEN SetRules(m, at[1], [R EXCEPT ![at[2]].enabled = ~@]) ELSE m
    BY DEF RuleToggle, Accept, Refuse, SetRules
  <1>4. Unlocked(m, ar[1]) => Safe(SetRules(m, ar[1], [m.groups[ar[1]].rules EXCEPT ![ar[2]] = r]))
    BY RuleOpSafe
  <1>5. Unlocked(m, at[1]) => /\ Safe(SetRules(m, at[1], RemoveAt(R, at[2])))
                              /\ Safe(SetRules(m, at[1], [R EXCEPT ![at[2]].enabled = ~@]))
    BY RuleOpSafe
  <1> HIDE DEF at, ar, R
  <1>6. Safe(RuleEdit(m, r).model)
    BY <1>1, <1>4, Zenon
  <1>7. Safe(RuleRemove(m, id).model) /\ Safe(RuleToggle(m, id).model)
    BY <1>2, <1>3, <1>5, Zenon
  <1> QED BY <1>6, <1>7

\* A rule taken out of one open group and put into another, or the same.
LEMMA MoveSafe ==
  ASSUME NEW m, Safe(m), NEW i \in 1..Len(m.groups), NEW k \in 1..Len(m.groups),
         m.groups[i].id # "safety", m.groups[k].id # "safety", NEW x, NEW y
  PROVE  Safe(SetRules(SetRules(m, i, x), k, y))
  <1> DEFINE n == SetRules(m, i, x)
  <1>1. Safe(n) /\ Len(n.groups) = Len(m.groups) /\ n.groups[i].id = m.groups[i].id
        /\ \A j \in 1..Len(m.groups) : j # i => n.groups[j] = m.groups[j]
    BY ChangeGroup DEF Changed
  <1> HIDE DEF n
  <1>2. n.groups[k].id # "safety" /\ k \in 1..Len(n.groups)
    BY <1>1
  <1>3. Safe(SetRules(n, k, y))
    BY <1>1, <1>2, ChangeGroup DEF Changed
  <1> QED BY <1>3 DEF n

\* RuleMove: both groups must be open.
LEMMA RuleMoveSafe ==
  ASSUME NEW m, Safe(m), NEW id, NEW toId PROVE Safe(RuleMove(m, id, toId).model)
  <1> DEFINE at   == findRule(m, id)
             i    == at[1]
             to   == indexOfGroup(m, toId)
             r    == m.groups[i].rules[at[2]]
  <1>1. CASE toId # "safety" /\ Unlocked(m, i) /\ Unlocked(m, to)
    <2>1. i \in 1..Len(m.groups) /\ to \in 1..Len(m.groups) /\ ~m.groups[i].locked /\ ~m.groups[to].locked
      BY <1>1, RuleFound, GroupFound DEF Unlocked
    <2> DEFINE x == RemoveAt(m.groups[i].rules, at[2])
               n == SetRules(m, i, x)
               y == Append(n.groups[to].rules, r)
    <2>2. RuleMove(m, id, toId).model = SetRules(n, to, y)
      BY <1>1 DEF RuleMove, Accept, SetRules
    <2> HIDE DEF at, to, r, y, x
    <2>3. m.groups[i].id # "safety" /\ m.groups[to].id # "safety"
      BY <2>1, Unlocking
    <2>4. Safe(SetRules(n, to, y))
      BY <2>1, <2>3, MoveSafe
    <2> QED BY <2>2, <2>4
  <1>2. CASE ~(toId # "safety" /\ Unlocked(m, i) /\ Unlocked(m, to))
    BY <1>2 DEF RuleMove, Refuse
  <1> QED BY <1>1, <1>2

\* ImportApply adds groups with ids of their own.
LEMMA ImportSafe ==
  ASSUME NEW m, Safe(m), NEW k \in 0..Len(NewIds), NEW l, IsSeq(l), Decodes(l) => k + Minted(l) <= Len(NewIds)
  PROVE  Safe(ImportApply(m, SubSeq(NewIds, k + 1, Len(NewIds)), l).model)
  <1> DEFINE ids == SubSeq(NewIds, k + 1, Len(NewIds))
             before(i) == Len(l) + rulesUpTo(l, i - 1)
             gs == [i \in 1..Len(l) |->
                     [id |-> ids[i], name |-> l[i].name, locked |-> FALSE, enabled |-> TRUE,
                      rules |-> [j \in 1..Len(l[i].rules) |->
                                  [l[i].rules[j] EXCEPT !.id = ids[before(i) + j]]]]]
  <1>1. CASE Decodes(l)
    <2>1. ImportApply(m, ids, l).model = [m EXCEPT !.groups = @ \o gs]
      BY <1>1 DEF ImportApply, Accept
    <2>2. Len(l) \in Nat /\ Len(NewIds) \in Nat /\ NewIds \in Seq(STRING) /\ DOMAIN NewIds = 1..Len(NewIds)
      BY IdsSeq, SeqFacts
    <2>3. countRules(l) \in Nat
      BY <1>1 DEF Decodes
    <2>4. k + Len(l) <= Len(NewIds)
      BY <1>1, <2>2, <2>3 DEF Minted
    <2>5. \A i \in 1..Len(l) : ids[i] # "safety"
      <3>1. TAKE i \in 1..Len(l)
      <3>2. \A j \in (k + 1)..Len(NewIds) : NewIds[j] \in STRING
        BY <2>2
      <3>3. k + 1 \in Int /\ Len(NewIds) \in Int
        BY <2>2
      <3>4. \A j \in 1..(Len(NewIds) - (k + 1) + 1) : ids[j] = NewIds[k + 1 + j - 1]
        BY <3>2, <3>3, SubSeqProperties
      <3>5. i \in 1..(Len(NewIds) - (k + 1) + 1) /\ k + 1 + i - 1 = k + i /\ k + i \in 1..Len(NewIds)
        BY <2>2, <2>4
      <3>6. ids[i] = NewIds[k + i]
        BY <3>4, <3>5
      <3>7. NewIds[k + i] \in ToSet(NewIds)
        BY <2>2, <3>5 DEF ToSet
      <3> QED BY <3>6, <3>7, RulesAssumption
    <2>6. DOMAIN gs = 1..Len(l) /\ \A i \in 1..Len(l) : "id" \in DOMAIN gs[i] /\ gs[i].id = ids[i]
      OBVIOUS
    <2>7. gs = [i \in 1..Len(l) |-> gs[i]]
      OBVIOUS
    <2> HIDE DEF gs, ids
    <2>8. IsSeq(gs)
      BY <2>2, <2>6, <2>7, MapSeq
    <2>9. \A g \in ToSet(gs) : "id" \in DOMAIN g /\ g.id # "safety"
      BY <2>5, <2>6 DEF ToSet
    <2>10. Safe([m EXCEPT !.groups = @ \o gs])
      BY <2>8, <2>9, AddGroup
    <2> QED BY <2>1, <2>10 DEF ids
  <1>2. CASE ~Decodes(l)
    BY <1>2 DEF ImportApply, Refuse
  <1> QED BY <1>1, <1>2

\* Whatever the request, the model that is to be saved keeps the safety group.
LEMMA ServeSafe ==
  ASSUME NEW m, Safe(m), NEW op, SafeOp(op), minted \in 0..Len(NewIds), minted + IdsUsed(op) <= Len(NewIds)
  PROVE  Safe(Serve(op, m).model)
  <1> DEFINE id == NewIds[minted + 1]
  <1>1. CASE op.k \in {"groupAdd", "ruleAdd"}
    <2>1. minted + 1 <= Len(NewIds)
      BY <1>1 DEF IdsUsed
    <2>2. Len(NewIds) \in Nat /\ DOMAIN NewIds = 1..Len(NewIds)
      BY IdsSeq
    <2>3. minted + 1 \in DOMAIN NewIds
      BY <2>1, <2>2
    <2>4. id \in ToSet(NewIds)
      BY <2>3 DEF ToSet
    <2>5. id # "safety"
      BY <2>4, RulesAssumption
    <2> QED BY <1>1, <2>5, GroupAddSafe, RuleAddSafe DEF Serve
  <1>2. CASE op.k \in {"groupEdit", "groupRemove"}
    BY <1>2, GroupEditSafe, GroupRemoveSafe DEF Serve
  <1>3. CASE op.k \in {"ruleEdit", "ruleRemove", "ruleToggle", "ruleMove"}
    BY <1>3, RuleOpsSafe, RuleMoveSafe DEF Serve
  <1>4. CASE op.k \in {"drag", "revert"}
    BY <1>4 DEF Serve, SafeOp, Kept, ReplaceModel, Accept, Refuse
  <1>5. CASE op.k = "import"
    <2>1. minted + Minted(op.link) <= Len(NewIds) /\ IsSeq(op.link)
      <3>1. op.link \in Seq(LinkText)
        BY <1>5 DEF SafeOp
      <3>2. IsSeq(op.link)
        BY <3>1, Zenon DEF IsSeq
      <3> QED BY <1>5, <3>2 DEF IdsUsed
    <2>2. Safe(ImportApply(m, SubSeq(NewIds, minted + 1, Len(NewIds)), op.link).model)
      BY <2>1, ImportSafe
    <2>3. Serve(op, m) = ImportApply(m, SubSeq(NewIds, minted + 1, Len(NewIds)), op.link)
      BY <1>5 DEF Serve
    <2> QED BY <2>2, <2>3
  <1> QED BY <1>1, <1>2, <1>3, <1>4, <1>5 DEF SafeOp, OpKinds

\* A model that is saved and loaded again.
LEMMA LoadSafe == ASSUME NEW m, Safe(m) PROVE Safe(Load(Save(m)))
  <1> DEFINE n == [m EXCEPT !.default = IF @ = "" THEN "proxy" ELSE @]
  <1>1. Save(m) # <<>> /\ Save(m)[1] = m
    BY DEF Save
  <1>2. Load(Save(m)) = n
    BY <1>1 DEF Load
  <1>3. DOMAIN n = DOMAIN m /\ n.groups = m.groups
    BY DEF Safe, Plain
  <1> HIDE DEF n
  <1>4. Safe(n)
    BY <1>3 DEF Safe, Plain, SafetyGroups
  <1> QED BY <1>2, <1>4

---------------------------------------------------------------------------
(* Every document on its way is one that Validate accepts                  *)

\* The literals of the code are texts.
LEMMA TextsAre ==
  /\ STRING \subseteq Texts /\ "" \in Texts /\ "private" \in Texts /\ "safety" \in Texts /\ "user" \in Texts
  /\ "Safety" \in Texts /\ "My Rules" \in Texts /\ "renamed" \in Texts /\ "new" \in Texts /\ "direct" \in Texts
  BY Zenon DEF Texts

\* A sequence of elements of X.
LEMMA SeqOver == ASSUME NEW X, NEW s, IsSeq(s), ToSet(s) \subseteq X PROVE s \in Seq(X)
  <1>1. PICK S : s \in Seq(S)
    BY DEF IsSeq
  <1>2. Len(s) \in Nat /\ DOMAIN s = 1..Len(s) /\ s \in [1..Len(s) -> S]
    BY <1>1
  <1>3. \A i \in 1..Len(s) : s[i] \in X
    BY <1>2 DEF ToSet
  <1>4. s \in [1..Len(s) -> X]
    BY <1>2, <1>3
  <1> QED BY <1>2, <1>4

\* A sequence over X has its elements in X.
LEMMA ElementsIn == ASSUME NEW X, NEW s \in Seq(X) PROVE IsSeq(s) /\ ToSet(s) \subseteq X
  <1>1. DOMAIN s = 1..Len(s) /\ \A i \in 1..Len(s) : s[i] \in X
    OBVIOUS
  <1>2. ToSet(s) \subseteq X
    BY <1>1 DEF ToSet
  <1>3. IsSeq(s)
    BY Zenon DEF IsSeq
  <1> QED BY <1>2, <1>3

\* RemoveAt stays within X.
LEMMA RemoveOver ==
  ASSUME NEW X, NEW s \in Seq(X), NEW i \in 1..Len(s) PROVE RemoveAt(s, i) \in Seq(X)
  <1>1. IsSeq(s) /\ ToSet(s) \subseteq X
    BY ElementsIn, Zenon
  <1>2. IsSeq(RemoveAt(s, i)) /\ ToSet(RemoveAt(s, i)) \subseteq ToSet(s)
    BY <1>1, RemoveSeq
  <1> QED BY <1>1, <1>2, SeqOver

\* A function on 1..n is a sequence.
LEMMA FunOver == ASSUME NEW X, NEW n \in Nat, NEW f \in [1..n -> X] PROVE f \in Seq(X)
  OBVIOUS

\* The groups of a valid model, and their rules.
LEMMA GoodParts ==
  ASSUME NEW m \in GoodModel
  PROVE  /\ "groups" \in DOMAIN m /\ m.groups \in Seq(GoodGroup) /\ m.default \in Actions
         /\ Len(m.groups) \in Nat /\ DOMAIN m.groups = 1..Len(m.groups)
         /\ \A i \in 1..Len(m.groups) :
              /\ m.groups[i] \in GoodGroup /\ m.groups[i].rules \in Seq(GoodRule)
              /\ Len(m.groups[i].rules) \in Nat /\ DOMAIN m.groups[i].rules = 1..Len(m.groups[i].rules)
              /\ \A j \in 1..Len(m.groups[i].rules) : m.groups[i].rules[j] \in GoodRule
  <1>1. "groups" \in DOMAIN m /\ m.groups \in Seq(GoodGroup) /\ m.default \in Actions
    BY DEF GoodModel
  <1>2. \A g \in GoodGroup : g.rules \in Seq(GoodRule)
    BY DEF GoodGroup
  <1>3. \A R \in Seq(GoodRule) : Len(R) \in Nat /\ DOMAIN R = 1..Len(R) /\ \A j \in 1..Len(R) : R[j] \in GoodRule
    OBVIOUS
  <1>4. Len(m.groups) \in Nat /\ DOMAIN m.groups = 1..Len(m.groups) /\ \A i \in 1..Len(m.groups) : m.groups[i] \in GoodGroup
    BY <1>1
  <1> QED BY <1>1, <1>2, <1>3, <1>4

\* A valid group in the place of another.
LEMMA GoodSetGroup ==
  ASSUME NEW m \in GoodModel, NEW i \in 1..Len(m.groups), NEW g \in GoodGroup
  PROVE  /\ SetGroup(m, i, g) \in GoodModel /\ Len(SetGroup(m, i, g).groups) = Len(m.groups)
         /\ \A j \in 1..Len(m.groups) : SetGroup(m, i, g).groups[j] = IF j = i THEN g ELSE m.groups[j]
  <1> DEFINE s == m.groups
             t == [s EXCEPT ![i] = g]
             n == [m EXCEPT !.groups = t]
  <1>1. s \in Seq(GoodGroup)
    BY GoodParts
  <1>2. t \in Seq(GoodGroup) /\ Len(t) = Len(s) /\ \A j \in 1..Len(s) : t[j] = IF j = i THEN g ELSE s[j]
    BY <1>1
  <1>3. SetGroup(m, i, g) = n
    BY DEF SetGroup
  <1> HIDE DEF t
  <1>4. n \in GoodModel /\ n.groups = t
    BY <1>2 DEF GoodModel
  <1> QED BY <1>2, <1>3, <1>4

\* Valid rules in the place of others.
LEMMA GoodSetRules ==
  ASSUME NEW m \in GoodModel, NEW i \in 1..Len(m.groups), NEW x \in Seq(GoodRule)
  PROVE  /\ SetRules(m, i, x) \in GoodModel /\ Len(SetRules(m, i, x).groups) = Len(m.groups)
         /\ \A j \in 1..Len(m.groups) : SetRules(m, i, x).groups[j].rules = IF j = i THEN x ELSE m.groups[j].rules
  <1> DEFINE g == [m.groups[i] EXCEPT !.rules = x]
  <1>1. m.groups[i] \in GoodGroup
    BY GoodParts
  <1>2. g \in GoodGroup /\ g.rules = x
    BY <1>1 DEF GoodGroup
  <1>3. SetRules(m, i, x) = SetGroup(m, i, g)
    BY DEF SetRules, SetGroup
  <1> HIDE DEF g
  <1> QED BY <1>2, <1>3, GoodSetGroup

\* Valid groups in the place of all.
LEMMA GoodGroups ==
  ASSUME NEW m \in GoodModel, NEW gs \in Seq(GoodGroup)
  PROVE  [m EXCEPT !.groups = gs] \in GoodModel
  BY DEF GoodModel

\* The place of a group that is there.
LEMMA GoodIndex ==
  ASSUME NEW m \in GoodModel, NEW id, indexOfGroup(m, id) # 0
  PROVE  indexOfGroup(m, id) \in 1..Len(m.groups)
  <1> DEFINE I == {i \in 1..Len(m.groups) : m.groups[i].id = id}
  <1>1. indexOfGroup(m, id) = IF I # {} THEN Min(I) ELSE 0
    BY DEF indexOfGroup, SelectInSeq
  <1>2. I \subseteq Nat
    OBVIOUS
  <1>3. indexOfGroup(m, id) \in I
    BY <1>1, <1>2, MinIn
  <1> QED BY <1>3

\* The place of a rule that is there.
LEMMA GoodFound ==
  ASSUME NEW m \in GoodModel, NEW id, findRule(m, id)[1] # 0
  PROVE  /\ findRule(m, id)[1] \in 1..Len(m.groups)
         /\ findRule(m, id)[2] \in 1..Len(m.groups[findRule(m, id)[1]].rules)
  <1> DEFINE I == {i \in 1..Len(m.groups) : \E r \in ToSet(m.groups[i].rules) : r.id = id}
             a == findRule(m, id)[1]
             R == m.groups[a].rules
             J == {j \in 1..Len(R) : R[j].id = id}
  <1>1. a = IF I # {} THEN Min(I) ELSE 0
    BY DEF findRule, SelectInSeq
  <1>2. I \subseteq Nat /\ J \subseteq Nat
    OBVIOUS
  <1>3. a \in I
    BY <1>1, <1>2, MinIn
  <1>4. findRule(m, id)[2] = IF J # {} THEN Min(J) ELSE 0
    BY DEF findRule, SelectInSeq
  <1>5. J # {}
    <2>1. PICK r \in ToSet(R) : r.id = id
      BY <1>3
    <2>2. a \in 1..Len(m.groups)
      BY <1>3
    <2>3. DOMAIN R = 1..Len(R)
      BY <2>2, GoodParts
    <2> QED BY <2>1, <2>3 DEF ToSet
  <1>6. findRule(m, id)[2] \in J
    BY <1>2, <1>4, <1>5, MinIn
  <1> QED BY <1>3, <1>6

\* A minted id is a text, and not empty.
LEMMA MintedId ==
  ASSUME NEW k \in 1..Len(NewIds) PROVE NewIds[k] \in Texts /\ NewIds[k] # "" /\ NewIds[k] # "safety"
  <1>0. NewIds[k] \in STRING /\ k \in DOMAIN NewIds
    BY IdsSeq
  <1>1. NewIds[k] \in Texts /\ NewIds[k] \in ToSet(NewIds)
    BY <1>0, TextsAre, Zenon DEF ToSet
  <1> QED BY <1>1, RulesAssumption

\* The operations on groups keep a model valid.
LEMMA GroupOpsGood ==
  ASSUME NEW m \in GoodModel, NEW id \in Texts, NEW gid, NEW name \in Texts, NEW e \in BOOLEAN
  PROVE  /\ GroupAdd(m, id, name).model \in GoodModel
         /\ GroupEdit(m, gid, name, e).model \in GoodModel
         /\ GroupRemove(m, gid).model \in GoodModel
  <1>1. m.groups \in Seq(GoodGroup) /\ Len(m.groups) \in Nat
    BY GoodParts
  <1>2. GroupAdd(m, id, name).model \in GoodModel
    <2> DEFINE g == [id |-> id, name |-> name, locked |-> FALSE, enabled |-> TRUE, rules |-> <<>>]
    <2>1. g \in GoodGroup
      BY DEF GoodGroup
    <2>2. GroupAdd(m, id, name).model \in {m, [m EXCEPT !.groups = Append(m.groups, g)]}
      BY DEF GroupAdd, Accept, Refuse
    <2> HIDE DEF g
    <2>3. Append(m.groups, g) \in Seq(GoodGroup)
      BY <1>1, <2>1
    <2> QED BY <2>2, <2>3, GoodGroups
  <1> DEFINE i == indexOfGroup(m, gid)
  <1>3. Unlocked(m, i) => i \in 1..Len(m.groups)
    BY GoodIndex DEF Unlocked
  <1>4. GroupEdit(m, gid, name, e).model \in GoodModel
    <2> DEFINE g == [m.groups[i] EXCEPT !.name = name, !.enabled = e]
    <2>1. GroupEdit(m, gid, name, e).model = IF gid # "safety" /\ Unlocked(m, i) THEN SetGroup(m, i, g) ELSE m
      BY DEF GroupEdit, Accept, Refuse, SetGroup
    <2> HIDE DEF i
    <2>2. i \in 1..Len(m.groups) => g \in GoodGroup
      <3>1. i \in 1..Len(m.groups) => m.groups[i] \in GoodGroup
        BY GoodParts
      <3> QED BY <3>1 DEF GoodGroup
    <2> HIDE DEF g
    <2>3. i \in 1..Len(m.groups) => SetGroup(m, i, g) \in GoodModel
      BY <2>2, GoodSetGroup
    <2> QED BY <1>3, <2>1, <2>3
  <1>5. GroupRemove(m, gid).model \in GoodModel
    <2> DEFINE s == RemoveAt(m.groups, i)
    <2>1. GroupRemove(m, gid).model = IF gid # "safety" /\ Unlocked(m, i) THEN [m EXCEPT !.groups = s] ELSE m
      BY DEF GroupRemove, Accept, Refuse
    <2> HIDE DEF i
    <2>2. i \in 1..Len(m.groups) => s \in Seq(GoodGroup)
      BY <1>1, RemoveOver
    <2> HIDE DEF s
    <2> QED BY <1>3, <2>1, <2>2, GoodGroups
  <1> QED BY <1>2, <1>4, <1>5

\* RuleAdd validates the rule it was given.
LEMMA RuleAddGood ==
  ASSUME NEW m \in GoodModel, NEW gid, NEW id \in Texts, NEW r \in RuleText
  PROVE  RuleAdd(m, gid, id, r).model \in GoodModel
  <1> DEFINE i  == indexOfGroup(m, gid)
             nr == [r EXCEPT !.id = id]
             R  == m.groups[i].rules
             x  == Append(R, nr)
  <1>1. nr \in RuleText
    BY DEF RuleText
  <1>2. RuleAdd(m, gid, id, r).model = IF gid # "safety" /\ Validate(nr) /\ Unlocked(m, i)
                                       THEN SetRules(m, i, x) ELSE m
    BY DEF RuleAdd, Accept, Refuse, SetRules
  <1>3. Unlocked(m, i) => i \in 1..Len(m.groups)
    BY GoodIndex DEF Unlocked
  <1>4. i \in 1..Len(m.groups) => R \in Seq(GoodRule)
    BY GoodParts
  <1>5. Validate(nr) => nr \in GoodRule
    BY <1>1 DEF GoodRule
  <1> HIDE DEF i, nr, R
  <1>6. i \in 1..Len(m.groups) /\ Validate(nr) => x \in Seq(GoodRule)
    BY <1>4, <1>5
  <1> HIDE DEF x
  <1> QED BY <1>2, <1>3, <1>6, GoodSetRules

\* RuleEdit validates the rule; RuleRemove and RuleToggle change no condition.
LEMMA RuleOpsGood ==
  ASSUME NEW m \in GoodModel, NEW id
  PROVE  /\ \A r \in RuleText : RuleEdit(m, r).model \in GoodModel
         /\ RuleRemove(m, id).model \in GoodModel
         /\ RuleToggle(m, id).model \in GoodModel
  <1>1. ASSUME NEW r \in RuleText PROVE RuleEdit(m, r).model \in GoodModel
    <2> DEFINE a == findRule(m, r.id)[1]
               b == findRule(m, r.id)[2]
               R == m.groups[a].rules
               x == [R EXCEPT ![b] = r]
    <2>1. RuleEdit(m, r).model = IF Validate(r) /\ Unlocked(m, a) THEN SetRules(m, a, x) ELSE m
      BY DEF RuleEdit, Accept, Refuse, SetRules
    <2>2. Unlocked(m, a) => a \in 1..Len(m.groups) /\ b \in 1..Len(R)
      BY GoodFound DEF Unlocked
    <2>3. a \in 1..Len(m.groups) => R \in Seq(GoodRule)
      BY GoodParts
    <2>4. Validate(r) => r \in GoodRule
      BY DEF GoodRule
    <2> HIDE DEF a, b, R
    <2>5. Validate(r) /\ a \in 1..Len(m.groups) /\ b \in 1..Len(R) => x \in Seq(GoodRule)
      BY <2>3, <2>4
    <2> HIDE DEF x
    <2> QED BY <2>1, <2>2, <2>5, GoodSetRules
  <1> DEFINE a == findRule(m, id)[1]
             b == findRule(m, id)[2]
             R == m.groups[a].rules
  <1>2. Unlocked(m, a) => a \in 1..Len(m.groups) /\ b \in 1..Len(R)
    BY GoodFound DEF Unlocked
  <1>3. a \in 1..Len(m.groups) => R \in Seq(GoodRule)
    BY GoodParts
  <1>4. RuleRemove(m, id).model \in GoodModel
    <2> DEFINE x == RemoveAt(R, b)
    <2>1. RuleRemove(m, id).model = IF Unlocked(m, a) THEN SetRules(m, a, x) ELSE m
      BY DEF RuleRemove, Accept, Refuse, SetRules
    <2> HIDE DEF a, b, R
    <2>2. a \in 1..Len(m.groups) /\ b \in 1..Len(R) => x \in Seq(GoodRule)
      BY <1>3, RemoveOver
    <2> HIDE DEF x
    <2> QED BY <1>2, <2>1, <2>2, GoodSetRules
  <1>5. RuleToggle(m, id).model \in GoodModel
    <2> DEFINE q == [R[b] EXCEPT !.enabled = ~@]
               x == [R EXCEPT ![b] = q]
    <2>1. RuleToggle(m, id).model = IF Unlocked(m, a) THEN SetRules(m, a, x) ELSE m
      BY DEF RuleToggle, Accept, Refuse, SetRules
    <2> HIDE DEF a, b, R
    <2>2. a \in 1..Len(m.groups) /\ b \in 1..Len(R) => q \in GoodRule
      <3>1. a \in 1..Len(m.groups) /\ b \in 1..Len(R) => R[b] \in GoodRule
        BY <1>3
      <3>2. ASSUME NEW p \in GoodRule PROVE [p EXCEPT !.enabled = ~@] \in GoodRule
        <4>1. p \in RuleText /\ Validate(p)
          BY DEF GoodRule
        <4>2. [p EXCEPT !.enabled = ~@] \in RuleText
          BY <4>1 DEF RuleText
        <4>3. Validate([p EXCEPT !.enabled = ~@])
          BY <4>1 DEF Validate, RuleText
        <4> QED BY <4>2, <4>3 DEF GoodRule
      <3> QED BY <3>1, <3>2
    <2> HIDE DEF q
    <2>3. a \in 1..Len(m.groups) /\ b \in 1..Len(R) => x \in Seq(GoodRule)
      BY <1>3, <2>2
    <2> HIDE DEF x
    <2> QED BY <1>2, <2>1, <2>3, GoodSetRules
  <1> QED BY <1>1, <1>4, <1>5

\* A rule of one group put into another, or the same.
LEMMA MoveGood ==
  ASSUME NEW m \in GoodModel, NEW i \in 1..Len(m.groups), NEW j \in 1..Len(m.groups[i].rules), NEW k \in 1..Len(m.groups)
  PROVE  LET n == SetRules(m, i, RemoveAt(m.groups[i].rules, j))
             r == m.groups[i].rules[j]
         IN SetRules(n, k, Append(n.groups[k].rules, r)) \in GoodModel /\ SetRules(n, k, <<r>> \o n.groups[k].rules) \in GoodModel
  <1> DEFINE R == m.groups[i].rules
             r == R[j]
             x == RemoveAt(R, j)
             n == SetRules(m, i, x)
             S == n.groups[k].rules
  <1>1. R \in Seq(GoodRule) /\ r \in GoodRule
    BY GoodParts
  <1>2. x \in Seq(GoodRule)
    BY <1>1, RemoveOver
  <1> HIDE DEF x
  <1>3. n \in GoodModel /\ k \in 1..Len(n.groups)
    BY <1>2, GoodSetRules
  <1> HIDE DEF n
  <1>4. S \in Seq(GoodRule)
    BY <1>3, GoodParts
  <1> HIDE DEF R, r, S
  <1>5. Append(S, r) \in Seq(GoodRule) /\ <<r>> \o S \in Seq(GoodRule)
    BY <1>1, <1>4
  <1>6. SetRules(n, k, Append(S, r)) \in GoodModel /\ SetRules(n, k, <<r>> \o S) \in GoodModel
    BY <1>3, <1>5, GoodSetRules
  <1> QED BY <1>6 DEF R, r, x, n, S

\* RuleMove moves a rule as it is.
LEMMA RuleMoveGood ==
  ASSUME NEW m \in GoodModel, NEW id, NEW toId
  PROVE  RuleMove(m, id, toId).model \in GoodModel
  <1> DEFINE a == findRule(m, id)[1]
             b == findRule(m, id)[2]
             k == indexOfGroup(m, toId)
             n == SetRules(m, a, RemoveAt(m.groups[a].rules, b))
             y == SetRules(n, k, Append(n.groups[k].rules, m.groups[a].rules[b]))
  <1>1. RuleMove(m, id, toId).model = IF toId # "safety" /\ Unlocked(m, a) /\ Unlocked(m, k) THEN y ELSE m
    BY DEF RuleMove, Accept, Refuse, SetRules
  <1>2. Unlocked(m, a) => a \in 1..Len(m.groups) /\ b \in 1..Len(m.groups[a].rules)
    BY GoodFound DEF Unlocked
  <1>3. Unlocked(m, k) => k \in 1..Len(m.groups)
    BY GoodIndex DEF Unlocked
  <1> HIDE DEF a, b, k
  <1>4. Unlocked(m, a) /\ Unlocked(m, k) => y \in GoodModel
    BY <1>2, <1>3, MoveGood
  <1> HIDE DEF y
  <1> QED BY <1>1, <1>4

\* The loop of countRules.
CountTurns(l, n, out) == out[0] = 0 /\ \A k \in 1..n : out[k] = out[k - 1] + Len(l[k].rules)

\* countRules is what its loop counts.
LEMMA CountLoop ==
  ASSUME NEW l \in Seq(LinkText), NEW n \in 0..Len(l)
  PROVE  \E out \in [0..n -> Nat] : CountTurns(l, n, out) /\ rulesUpTo(l, n) = out[n]
  <1> DEFINE V == Nat
             S == [k \in 1..n |-> [s \in V |-> s + Len(l[k].rules)]]
             Is(f) == f = [k \in 0..n |-> IF k = 0 THEN 0 ELSE f[k - 1] + Len(l[k].rules)]
             F == CHOOSE f : Is(f)
  <1>1. n \in Nat /\ \A k \in 1..n : Len(l[k].rules) \in Nat
    <2>1. Len(l) \in Nat /\ \A k \in 1..Len(l) : l[k] \in LinkText
      OBVIOUS
    <2>2. \A x \in LinkText : Len(x.rules) \in Nat
      BY DEF LinkText
    <2> QED BY <2>1, <2>2
  <1>2. rulesUpTo(l, n) = F[n]
    BY Zenon DEF rulesUpTo
  <1>3. Turns(n, V, S)
    BY <1>1 DEF Turns
  <1>4. 0 \in V
    OBVIOUS
  <1>5. \A k \in 1..n : \A s \in V : S[k][s] = s + Len(l[k].rules)
    OBVIOUS
  <1>17. V = Nat
    OBVIOUS
  <1> HIDE DEF S, V
  <1>6. PICK h \in [0..n -> V] : h[0] = 0 /\ \A k \in 1..n : h[k] = S[k][h[k - 1]]
    <2>1. \E h \in [0..n -> V] : Course(n, S, 0, h)
      BY <1>1, <1>3, <1>4, Iterated, Zenon
    <2> QED BY <2>1, Zenon DEF Course
  <1>7. \A k \in 1..n : k - 1 \in 0..n /\ h[k - 1] \in V
    BY <1>1, <1>6
  <1>8. \A k \in 1..n : h[k] = h[k - 1] + Len(l[k].rules)
    BY <1>5, <1>6, <1>7
  <1>9. Is(h)
    <2> DEFINE e == [k \in 0..n |-> IF k = 0 THEN 0 ELSE h[k - 1] + Len(l[k].rules)]
    <2>1. \A k \in 0..n : k # 0 => k \in 1..n
      BY <1>1
    <2>2. \A k \in 0..n : h[k] = e[k]
      BY <1>6, <1>8, <2>1
    <2>3. DOMAIN h = 0..n /\ DOMAIN e = 0..n /\ h = [k \in 0..n |-> h[k]] /\ e = [k \in 0..n |-> e[k]]
      BY <1>6
    <2> HIDE DEF e
    <2>4. h = e
      BY <2>2, <2>3
    <2> QED BY <2>4 DEF e
  <1>10. Is(F)
    BY <1>9, Zenon
  <1> HIDE DEF F
  <1>11. \A k \in 0..n : F[k] = IF k = 0 THEN 0 ELSE F[k - 1] + Len(l[k].rules)
    BY <1>10, Zenon
  <1> HIDE DEF Is
  <1> DEFINE T == {k \in 0..n : F[k] = h[k]}
  <1>12. 0 \in T
    BY <1>1, <1>6, <1>11
  <1>13. ASSUME NEW k \in 0..(n - 1), k \in T PROVE k + 1 \in T
    <2>1. k + 1 \in 1..n /\ k + 1 \in 0..n /\ k + 1 # 0 /\ (k + 1) - 1 = k /\ F[k] = h[k]
      BY <1>1, <1>13
    <2> QED BY <1>8, <1>11, <2>1
  <1> HIDE DEF T
  <1>14. n \in T
    <2>1. \A k \in 0..(n - 1) : k \in T => k + 1 \in T
      BY <1>13
    <2>2. \A k \in 0..n : k \in T
      BY <1>1, <1>12, <2>1, Climb, Zenon
    <2> QED BY <1>1, <2>2
  <1>15. rulesUpTo(l, n) = h[n]
    BY <1>2, <1>14 DEF T
  <1>16. CountTurns(l, n, h)
    BY <1>6, <1>8 DEF CountTurns
  <1> QED BY <1>6, <1>15, <1>16, <1>17

\* The ids of a group's rules are among those the import has counted.
LEMMA CountGrows ==
  ASSUME NEW l \in Seq(LinkText), NEW i \in 1..Len(l)
  PROVE  rulesUpTo(l, i - 1) \in Nat /\ rulesUpTo(l, i - 1) + Len(l[i].rules) <= countRules(l) /\ countRules(l) \in Nat
  <1> DEFINE n == Len(l)
             p == i - 1
  <1>1. n \in Nat /\ n \in 0..Len(l) /\ p \in 0..Len(l) /\ p \in Nat /\ p <= n
    OBVIOUS
  <1>2. PICK a \in [0..n -> Nat] : CountTurns(l, n, a) /\ rulesUpTo(l, n) = a[n]
    BY <1>1, CountLoop, Zenon
  <1>3. PICK b \in [0..p -> Nat] : CountTurns(l, p, b) /\ rulesUpTo(l, p) = b[p]
    BY <1>1, CountLoop, Zenon
  <1>4. countRules(l) = a[n]
    BY <1>2 DEF countRules
  <1>5. \A k \in 1..n : Len(l[k].rules) \in Nat
    <2>1. \A k \in 1..n : l[k] \in LinkText
      OBVIOUS
    <2>2. \A x \in LinkText : Len(x.rules) \in Nat
      BY DEF LinkText
    <2> QED BY <2>1, <2>2
  <1>6. i \in 1..n /\ i = p + 1
    OBVIOUS
  <1> HIDE DEF n, p
  <1>7. a[0] = 0 /\ b[0] = 0 /\ (\A k \in 1..n : a[k] = a[k - 1] + Len(l[k].rules))
        /\ \A k \in 1..p : b[k] = b[k - 1] + Len(l[k].rules)
    BY <1>2, <1>3 DEF CountTurns
  <1>8. b[p] = a[p]
    <2> DEFINE T == {k \in 0..p : b[k] = a[k]}
    <2>1. 0 \in T
      BY <1>1, <1>7
    <2>2. ASSUME NEW k \in 0..(p - 1), k \in T PROVE k + 1 \in T
      <3>1. k + 1 \in 1..p /\ k + 1 \in 1..n /\ k + 1 \in 0..p /\ (k + 1) - 1 = k /\ b[k] = a[k]
        BY <1>1, <2>2
      <3> QED BY <1>7, <3>1
    <2> HIDE DEF T
    <2>3. \A k \in 0..p : k \in T
      <3>1. \A k \in 0..(p - 1) : k \in T => k + 1 \in T
        BY <2>2
      <3> QED BY <1>1, <2>1, <3>1, Climb, Zenon
    <2>4. p \in T
      BY <1>1, <2>3
    <2> QED BY <2>4 DEF T
  <1>9. a[i] <= a[n]
    <2> DEFINE T == {k \in 0..n : k >= i => a[i] <= a[k]}
    <2>1. 0 \in T
      BY <1>1, <1>6
    <2>2. ASSUME NEW k \in 0..(n - 1), k \in T PROVE k + 1 \in T
      <3>1. k + 1 \in 1..n /\ k + 1 \in 0..n /\ (k + 1) - 1 = k /\ k \in 0..n /\ i \in 0..n
        BY <1>1, <1>6
      <3>2. a[k + 1] = a[k] + Len(l[k + 1].rules) /\ Len(l[k + 1].rules) \in Nat /\ a[k] \in Nat /\ a[i] \in Nat
        BY <1>2, <1>5, <1>7, <3>1
      <3>3. CASE k >= i
        <4>1. a[i] <= a[k]
          BY <2>2, <3>3
        <4>2. a[i] <= a[k + 1]
          BY <3>2, <4>1
        <4> QED BY <3>1, <4>2
      <3>4. CASE ~(k >= i)
        <4>1. k + 1 >= i => k + 1 = i
          BY <3>1, <3>4
        <4>2. k + 1 >= i => a[i] <= a[k + 1]
          BY <3>2, <4>1
        <4> QED BY <3>1, <4>2
      <3> QED BY <3>3, <3>4
    <2> HIDE DEF T
    <2>3. \A k \in 0..n : k \in T
      <3>1. \A k \in 0..(n - 1) : k \in T => k + 1 \in T
        BY <2>2
      <3> QED BY <1>1, <2>1, <3>1, Climb, Zenon
    <2>4. n \in T
      BY <1>1, <2>3
    <2> QED BY <1>1, <1>6, <2>4 DEF T
  <1>10. a[p] \in Nat /\ a[n] \in Nat /\ a[i] = a[p] + Len(l[i].rules)
    <2>1. p \in 0..n /\ n \in 0..n /\ i - 1 = p
      BY <1>1, <1>6
    <2> QED BY <1>2, <1>6, <1>7, <2>1
  <1>11. rulesUpTo(l, p) = a[p]
    BY <1>3, <1>8
  <1>12. rulesUpTo(l, p) \in Nat /\ rulesUpTo(l, p) + Len(l[i].rules) <= countRules(l) /\ countRules(l) \in Nat
    BY <1>4, <1>9, <1>10, <1>11
  <1> QED BY <1>12 DEF p

\* A rule of a link, with a minted id.
LEMMA ImportedRule ==
  ASSUME NEW r \in RuleText, Validate([r EXCEPT !.id = "import"]), NEW id \in Texts, id # ""
  PROVE  [r EXCEPT !.id = id] \in GoodRule
  <1>1. [r EXCEPT !.id = id] \in RuleText
    BY DEF RuleText
  <1>2. Validate([r EXCEPT !.id = id])
    BY DEF Validate, RuleText
  <1> QED BY <1>1, <1>2 DEF GoodRule

\* ImportApply validates every rule, and has an id for each.
LEMMA ImportGood ==
  ASSUME NEW m \in GoodModel, NEW k \in 0..Len(NewIds), NEW l \in Seq(LinkText),
         Decodes(l) => k + Minted(l) <= Len(NewIds)
  PROVE  ImportApply(m, SubSeq(NewIds, k + 1, Len(NewIds)), l).model \in GoodModel
  <1> DEFINE ids == SubSeq(NewIds, k + 1, Len(NewIds))
             before(i) == Len(l) + rulesUpTo(l, i - 1)
             own(i) == [j \in 1..Len(l[i].rules) |-> [l[i].rules[j] EXCEPT !.id = ids[before(i) + j]]]
             G(i) == [id |-> ids[i], name |-> l[i].name, locked |-> FALSE, enabled |-> TRUE, rules |-> own(i)]
             gs == [i \in 1..Len(l) |-> G(i)]
  <1>1. CASE Decodes(l)
    <2>1. ImportApply(m, ids, l).model = [m EXCEPT !.groups = m.groups \o gs]
      BY <1>1 DEF ImportApply, Accept
    <2>2. Len(l) \in Nat /\ Len(NewIds) \in Nat /\ NewIds \in Seq(STRING) /\ DOMAIN NewIds = 1..Len(NewIds)
          /\ DOMAIN l = 1..Len(l) /\ \A i \in 1..Len(l) : l[i] \in LinkText
      BY IdsSeq
    <2>3. countRules(l) \in Nat /\ \A g \in ToSet(l) : \A r \in ToSet(g.rules) : Validate([r EXCEPT !.id = "import"])
      BY <1>1 DEF Decodes
    <2>4. k + Len(l) + countRules(l) <= Len(NewIds)
      BY <1>1, <2>2, <2>3 DEF Minted
    <2>5. \A x \in 1..(Len(l) + countRules(l)) : ids[x] \in Texts /\ ids[x] # ""
      <3>1. TAKE x \in 1..(Len(l) + countRules(l))
      <3>2. \A j \in (k + 1)..Len(NewIds) : NewIds[j] \in STRING
        BY <2>2
      <3>3. k + 1 \in Int /\ Len(NewIds) \in Int
        BY <2>2
      <3>4. \A j \in 1..(Len(NewIds) - (k + 1) + 1) : ids[j] = NewIds[k + 1 + j - 1]
        BY <3>2, <3>3, SubSeqProperties
      <3>5. x \in 1..(Len(NewIds) - (k + 1) + 1) /\ k + 1 + x - 1 = k + x /\ k + x \in 1..Len(NewIds)
        BY <2>2, <2>3, <2>4
      <3>6. ids[x] = NewIds[k + x]
        BY <3>4, <3>5
      <3> QED BY <3>5, <3>6, MintedId
    <2> HIDE DEF ids
    <2>6. \A i \in 1..Len(l) : \A j \in 1..Len(l[i].rules) : before(i) + j \in 1..(Len(l) + countRules(l))
      <3>1. TAKE i \in 1..Len(l)
      <3>2. rulesUpTo(l, i - 1) \in Nat /\ rulesUpTo(l, i - 1) + Len(l[i].rules) <= countRules(l)
        BY CountGrows
      <3>3. Len(l[i].rules) \in Nat
        BY <2>2 DEF LinkText
      <3> QED BY SMTT(40), <2>2, <2>3, <3>2, <3>3
    <2> HIDE DEF before
    <2>7. ASSUME NEW i \in 1..Len(l) PROVE own(i) \in Seq(GoodRule)
      <3> DEFINE R == l[i].rules
      <3>1. R \in Seq(RuleText)
        BY <2>2 DEF LinkText
      <3>2. Len(R) \in Nat /\ DOMAIN R = 1..Len(R) /\ \A j \in 1..Len(R) : R[j] \in RuleText
        BY <3>1
      <3>3. l[i] \in ToSet(l)
        BY <2>2 DEF ToSet
      <3>4. \A j \in 1..Len(R) : Validate([R[j] EXCEPT !.id = "import"])
        BY <2>3, <3>2, <3>3 DEF ToSet
      <3>5. \A j \in 1..Len(R) : ids[before(i) + j] \in Texts /\ ids[before(i) + j] # ""
        BY <2>5, <2>6
      <3>6. own(i) = [j \in 1..Len(R) |-> [R[j] EXCEPT !.id = ids[before(i) + j]]]
        OBVIOUS
      <3> HIDE DEF R
      <3> DEFINE E(j) == [R[j] EXCEPT !.id = ids[before(i) + j]]
      <3>7. \A j \in 1..Len(R) : E(j) \in GoodRule
        BY <3>2, <3>4, <3>5, ImportedRule
      <3>8. own(i) = [j \in 1..Len(R) |-> E(j)]
        BY <3>6
      <3> HIDE DEF E, own
      <3>9. own(i) \in [1..Len(R) -> GoodRule]
        BY <3>7, <3>8
      <3> QED BY <3>2, <3>9, FunOver
    <2>8. ASSUME NEW i \in 1..Len(l) PROVE G(i) \in GoodGroup
      <3>1. own(i) \in Seq(GoodRule)
        BY <2>7
      <3>2. ids[i] \in Texts
        <4>1. i \in 1..(Len(l) + countRules(l))
          BY <2>2, <2>3
        <4> QED BY <2>5, <4>1
      <3>3. l[i].name \in Texts
        BY <2>2 DEF LinkText
      <3> HIDE DEF own
      <3> QED BY <3>1, <3>2, <3>3 DEF GoodGroup
    <2> HIDE DEF G
    <2>9. gs \in Seq(GoodGroup)
      BY <2>2, <2>8
    <2> HIDE DEF gs
    <2>10. m.groups \o gs \in Seq(GoodGroup)
      BY <2>9, GoodParts
    <2>11. [m EXCEPT !.groups = m.groups \o gs] \in GoodModel
      BY <2>10, GoodGroups
    <2> QED BY <2>1, <2>11 DEF ids
  <1>2. CASE ~Decodes(l)
    BY <1>2 DEF ImportApply, Refuse
  <1> QED BY <1>1, <1>2

\* Load repairs nothing in a valid model.
LEMMA LoadGood == ASSUME NEW m \in GoodModel PROVE Load(Save(m)) \in GoodModel
  <1> DEFINE n == [m EXCEPT !.default = IF @ = "" THEN "proxy" ELSE @]
  <1>1. Save(m) # <<>> /\ Save(m)[1] = m
    BY DEF Save
  <1>2. Load(Save(m)) = n
    BY <1>1 DEF Load
  <1>3. n \in GoodModel
    BY DEF GoodModel, Actions
  <1> QED BY <1>2, <1>3

\* A link carries what a group holds, without the ids.
LEMMA EncodeGood ==
  ASSUME NEW g \in GoodGroup PROVE Encode(<<g>>) \in Seq(LinkText)
  <1> DEFINE s == <<g>>
             no == ""
             L(i) == [name  |-> s[i].name, rules |-> [j \in 1..Len(s[i].rules) |-> [s[i].rules[j] EXCEPT !.id = no]]]
             t == [i \in 1..Len(s) |-> L(i)]
  <1>1. Encode(s) = IF countRules(s) = 0 THEN <<>> ELSE t
    BY DEF Encode
  <1>2. Len(s) = 1 /\ s[1] = g
    OBVIOUS
  <1>6. no \in Texts
    BY TextsAre, Zenon
  <1> HIDE DEF s, no
  <1>3. L(1) \in LinkText
    <2> DEFINE R == g.rules
               E(j) == [R[j] EXCEPT !.id = no]
               x == [j \in 1..Len(R) |-> E(j)]
    <2>1. R \in Seq(GoodRule) /\ g.name \in Texts
      BY DEF GoodGroup
    <2>2. Len(R) \in Nat /\ \A j \in 1..Len(R) : R[j] \in RuleText
      BY <2>1 DEF GoodRule
    <2>3. \A j \in 1..Len(R) : E(j) \in RuleText
      BY <1>6, <2>2 DEF RuleText
    <2>5. L(1) = [name |-> g.name, rules |-> x]
      BY <1>2
    <2> HIDE DEF E
    <2>6. x \in [1..Len(R) -> RuleText]
      BY <2>3
    <2>4. x \in Seq(RuleText)
      BY <2>2, <2>6, FunOver
    <2> HIDE DEF x
    <2> QED BY <2>1, <2>4, <2>5 DEF LinkText
  <1>4. t \in Seq(LinkText)
    <2> HIDE DEF L
    <2> QED BY <1>2, <1>3
  <1> HIDE DEF t
  <1>5. Encode(s) \in Seq(LinkText)
    BY <1>1, <1>4
  <1> QED BY <1>5 DEF s

\* A link holds what a group held, without ids.
LEMMA ExportGood == ASSUME NEW m \in GoodModel, NEW id PROVE ExportGroup(m, id) \in Seq(LinkText)
  <1> DEFINE i == indexOfGroup(m, id)
  <1>1. ExportGroup(m, id) = IF id # "safety" /\ Unlocked(m, i) THEN Encode(<<m.groups[i]>>) ELSE <<>>
    BY DEF ExportGroup
  <1>2. Unlocked(m, i) => i \in 1..Len(m.groups)
    BY GoodIndex DEF Unlocked
  <1> HIDE DEF i
  <1>3. i \in 1..Len(m.groups) => Encode(<<m.groups[i]>>) \in Seq(LinkText)
    BY GoodParts, EncodeGood
  <1> QED BY <1>1, <1>2, <1>3

\* What dragging produces holds the rules it held before.
LEMMA DragsGood == ASSUME NEW m \in GoodModel, NEW n \in Drags(m) PROVE n \in GoodModel
  <1> DEFINE open == openGroups(m)
  <1>1. DOMAIN m.groups = 1..Len(m.groups) /\ \A i \in 1..Len(m.groups) : m.groups[i] \in GoodGroup
    BY GoodParts
  <1>2. \A i \in open : i \in 1..Len(m.groups)
    BY <1>1 DEF openGroups
  <1>3. \/ \E i \in open : i + 1 \in open /\ n = swapGroups(m, i)
        \/ \E i, k \in open : \E j \in DOMAIN m.groups[i].rules : n = dropRule(m, i, j, k)
    <2> DEFINE P == UNION {{i} \X DOMAIN m.groups[i].rules : i \in open}
               A == {swapGroups(m, i) : i \in {j \in open : j + 1 \in open}}
               B == {dropRule(m, p[1], p[2], k) : p \in P, k \in open}
    <2>1. n \in A \/ n \in B
      BY DEF Drags
    <2>2. \A p \in P : p[1] \in open /\ p[2] \in DOMAIN m.groups[p[1]].rules
      OBVIOUS
    <2> HIDE DEF P, open
    <2>3. n \in A => \E i \in open : i + 1 \in open /\ n = swapGroups(m, i)
      OBVIOUS
    <2>4. n \in B => \E p \in P : \E k \in open : n = dropRule(m, p[1], p[2], k)
      OBVIOUS
    <2> HIDE DEF A, B
    <2> QED BY <2>1, <2>2, <2>3, <2>4
  <1>4. ASSUME NEW i \in open, i + 1 \in open, n = swapGroups(m, i) PROVE n \in GoodModel
    <2> DEFINE a == SetGroup(m, i, m.groups[i + 1])
    <2>1. a \in GoodModel /\ i + 1 \in 1..Len(a.groups)
      BY <1>1, <1>2, <1>4, GoodSetGroup
    <2>2. n = SetGroup(a, i + 1, m.groups[i])
      BY <1>4 DEF swapGroups, SetGroup
    <2> HIDE DEF a
    <2> QED BY <1>1, <1>2, <1>4, <2>1, <2>2, GoodSetGroup
  <1>5. ASSUME NEW i \in open, NEW k \in open, NEW j \in DOMAIN m.groups[i].rules, n = dropRule(m, i, j, k)
        PROVE  n \in GoodModel
    <2> DEFINE a == SetRules(m, i, RemoveAt(m.groups[i].rules, j))
    <2>1. n = SetRules(a, k, <<m.groups[i].rules[j]>> \o a.groups[k].rules)
      BY <1>5 DEF dropRule, SetRules
    <2>2. i \in 1..Len(m.groups) /\ k \in 1..Len(m.groups) /\ j \in 1..Len(m.groups[i].rules)
      BY <1>2, <1>5, GoodParts
    <2> QED BY <2>1, <2>2, MoveGood
  <1> HIDE DEF open
  <1> QED BY <1>3, <1>4, <1>5

\* The model of a new installation, and the one shown before the first read.
LEMMA DefaultGood == DefaultModel \in GoodModel /\ EmptyView \in GoodModel
  <1> DEFINE p == [id |-> "private", enabled |-> TRUE, action |-> "direct", conds |-> Lan]
             s == [id |-> "safety", name |-> "Safety", locked |-> TRUE, enabled |-> TRUE, rules |-> <<p>>]
             u == [id |-> "user", name |-> "My Rules", locked |-> FALSE, enabled |-> TRUE, rules |-> <<>>]
  <1>2. \A a, b \in Texts : \A c \in SUBSET (GeoEntries \cup Classes \cup {Malformed}) :
          [id |-> a, enabled |-> TRUE, action |-> b, conds |-> c] \in RuleText
    BY DEF RuleText
  <1>3. \A a, b \in Texts : \A l \in BOOLEAN : \A x \in Seq(GoodRule) :
          [id |-> a, name |-> b, locked |-> l, enabled |-> TRUE, rules |-> x] \in GoodGroup
    BY DEF GoodGroup
  <1>4. p \in GoodRule
    <2>1. Lan \in SUBSET (GeoEntries \cup Classes \cup {Malformed})
      BY DEF Classes
    <2>2. p \in RuleText
      BY <1>2, <2>1, TextsAre, Zenon
    <2>3. Lan # {} /\ Malformed \notin Lan
      BY DEF Lan, Malformed
    <2>4. Validate(p)
      BY <2>3 DEF Validate, ValidAction, Actions, IsEmpty
    <2> QED BY <2>2, <2>4 DEF GoodRule
  <1>5. DefaultModel = [default |-> "proxy", groups |-> <<s, u>>]
    BY DEF DefaultModel
  <1> HIDE DEF p
  <1>6. s \in GoodGroup /\ u \in GoodGroup
    <2>1. <<p>> \in Seq(GoodRule) /\ <<>> \in Seq(GoodRule)
      BY <1>4
    <2>2. TRUE \in BOOLEAN /\ FALSE \in BOOLEAN
      OBVIOUS
    <2> QED BY <1>3, <2>1, <2>2, TextsAre, Zenon
  <1> HIDE DEF s, u
  <1>7. <<s, u>> \in Seq(GoodGroup) /\ <<>> \in Seq(GoodGroup)
    BY <1>6
  <1> QED BY <1>5, <1>7 DEF GoodModel, Actions, EmptyView

\* What a behaviour begins with.
LEMMA TypedText ==
  /\ RuleType \subseteq RuleText
  /\ \A s : s \in Seq(RuleType) => s \in Seq(RuleText)
  /\ \A s : s \in Seq(LinkType) => s \in Seq(LinkText)
  <1>1. RuleType \subseteq RuleText
    BY TextsAre DEF RuleType, RuleText
  <1>2. \A s : s \in Seq(RuleType) => s \in Seq(RuleText)
    BY <1>1
  <1>3. LinkType \subseteq LinkText
    <2>1. ASSUME NEW l \in LinkType PROVE l \in LinkText
      <3>1. l = [name |-> l.name, rules |-> l.rules] /\ l.name \in STRING /\ l.rules \in Seq(RuleType)
        BY DEF LinkType
      <3>2. l.name \in Texts /\ l.rules \in Seq(RuleText)
        BY <1>2, <3>1, TextsAre
      <3> QED BY <3>1, <3>2 DEF LinkText
    <2> QED BY <2>1
  <1>4. \A s : s \in Seq(LinkType) => s \in Seq(LinkText)
    BY <1>3
  <1> QED BY <1>1, <1>2, <1>4

\* Load of an older file that Validate accepts.
LEMMA ReadGood ==
  ASSUME NEW m \in ModelType, NEW d \in Actions, ValidateModel([m EXCEPT !.default = d])
  PROVE  [m EXCEPT !.default = d] \in GoodModel
  <1> DEFINE n == [m EXCEPT !.default = d]
  <1>1. n = [default |-> d, groups |-> m.groups] /\ m.groups \in Seq(GroupType) /\ n.groups = m.groups
    BY DEF ModelType
  <1>2. \A r \in Rules(n) : Validate(r)
    BY DEF ValidateModel
  <1> HIDE DEF n
  <1>3. DOMAIN m.groups = 1..Len(m.groups) /\ Len(m.groups) \in Nat /\ \A i \in 1..Len(m.groups) : m.groups[i] \in GroupType
    BY <1>1
  <1>4. ASSUME NEW i \in 1..Len(m.groups) PROVE m.groups[i] \in GoodGroup
    <2> DEFINE g == m.groups[i]
               R == g.rules
    <2>1. g \in GroupType /\ g \in ToSet(n.groups)
      BY <1>1, <1>3 DEF ToSet
    <2>2. R \in Seq(RuleType) /\ ToSet(R) \subseteq Rules(n)
      BY <2>1 DEF GroupType, Rules
    <2>3. ToSet(R) \subseteq GoodRule
      <3>1. ToSet(R) \subseteq RuleType
        BY <2>2, ElementsIn, Zenon
      <3> QED BY <1>2, <2>2, <3>1, TypedText DEF GoodRule
    <2>4. IsSeq(R)
      BY <2>2, ElementsIn, Zenon
    <2>5. R \in Seq(GoodRule)
      BY <2>3, <2>4, SeqOver, Zenon
    <2>6. /\ g = [id |-> g.id, name |-> g.name, locked |-> g.locked, enabled |-> g.enabled, rules |-> g.rules]
          /\ g.id \in Texts /\ g.name \in Texts /\ g.locked \in BOOLEAN /\ g.enabled \in BOOLEAN
      BY <2>1, TextsAre DEF GroupType
    <2> HIDE DEF g
    <2>7. g \in GoodGroup
      BY <2>5, <2>6 DEF GoodGroup
    <2> QED BY <2>7 DEF g
  <1>5. m.groups \in [1..Len(m.groups) -> GoodGroup]
    BY <1>1, <1>3, <1>4
  <1>6. m.groups \in Seq(GoodGroup)
    BY <1>3, <1>5, FunOver
  <1>7. n \in GoodModel
    BY <1>1, <1>6 DEF GoodModel
  <1> QED BY <1>7 DEF n

\* The files and links that a behaviour may begin with.
LEMMA InputGood ==
  ASSUME NEW s \in Scenarios
  PROVE  Load(s.rules) \in GoodModel /\ s.link \in Seq(LinkText)
  <1>1. s.rules \in Seq(ModelType) /\ Len(s.rules) <= 1 /\ s.link \in Seq(LinkType) /\ ValidateModel(Load(s.rules))
    BY FilesAssumption, Zenon DEF FilesAssumption
  <1>2. s.link \in Seq(LinkText)
    BY <1>1, TypedText, Zenon
  <1>3. CASE s.rules = <<>>
    BY <1>2, <1>3, DefaultGood DEF Load
  <1>4. CASE s.rules # <<>>
    <2> DEFINE m == s.rules[1]
               d == IF m.default = "" THEN "proxy" ELSE m.default
    <2>1. m \in ModelType
      BY <1>1, <1>4
    <2>2. Load(s.rules) = [m EXCEPT !.default = d]
      BY <1>4 DEF Load
    <2>3. ValidateModel([m EXCEPT !.default = d])
      BY <1>1, <2>2, Zenon
    <2>4. d \in Actions
      <3>1. [m EXCEPT !.default = d].default = d
        BY <2>1 DEF ModelType
      <3> QED BY <2>3, <3>1 DEF ValidateModel, ValidAction
    <2> HIDE DEF m, d
    <2>5. [m EXCEPT !.default = d] \in GoodModel
      BY <2>1, <2>3, <2>4, ReadGood
    <2> QED BY <1>2, <2>2, <2>5
  <1> QED BY <1>3, <1>4

\* Whatever the request, the model that is to be saved is one that Validate accepts.
LEMMA ServeGood ==
  ASSUME NEW m \in GoodModel, NEW op, SafeOp(op), minted \in 0..Len(NewIds), minted + IdsUsed(op) <= Len(NewIds)
  PROVE  Serve(op, m).model \in GoodModel
  <1> DEFINE id == NewIds[minted + 1]
  <1>1. CASE op.k \in {"groupAdd", "ruleAdd"}
    <2>1. minted + 1 <= Len(NewIds)
      BY <1>1 DEF IdsUsed
    <2>2. minted + 1 \in 1..Len(NewIds)
      BY <2>1, IdsSeq
    <2>3. id \in Texts
      BY <2>2, MintedId
    <2> HIDE DEF id
    <2>4. CASE op.k = "groupAdd"
      <3>1. op.name \in Texts
        BY <2>4 DEF SafeOp
      <3>2. GroupAdd(m, id, op.name).model \in GoodModel
        BY <2>3, <3>1, GroupOpsGood
      <3>3. Serve(op, m) = GroupAdd(m, id, op.name)
        BY <2>4 DEF Serve, id
      <3> QED BY <3>2, <3>3
    <2>5. CASE op.k = "ruleAdd"
      <3>1. op.rule \in RuleText
        BY <2>5 DEF SafeOp
      <3>2. RuleAdd(m, op.id, id, op.rule).model \in GoodModel
        BY <2>3, <3>1, RuleAddGood
      <3>3. Serve(op, m) = RuleAdd(m, op.id, id, op.rule)
        BY <2>5 DEF Serve, id
      <3> QED BY <3>2, <3>3
    <2> QED BY <1>1, <2>4, <2>5
  <1>2. CASE op.k = "groupEdit"
    <2>1. op.enabled \in BOOLEAN /\ "renamed" \in Texts
      BY <1>2, TextsAre DEF SafeOp
    <2>2. GroupEdit(m, op.id, "renamed", op.enabled).model \in GoodModel
      BY <2>1, GroupOpsGood
    <2>3. Serve(op, m) = GroupEdit(m, op.id, "renamed", op.enabled)
      BY <1>2 DEF Serve
    <2> QED BY <2>2, <2>3
  <1>3. CASE op.k = "groupRemove"
    <2>1. GroupRemove(m, op.id).model \in GoodModel
      BY TextsAre, GroupOpsGood
    <2> QED BY <1>3, <2>1 DEF Serve
  <1>4. CASE op.k = "ruleEdit"
    <2>1. RuleEdit(m, op.rule).model \in GoodModel
      BY <1>4, RuleOpsGood DEF SafeOp
    <2> QED BY <1>4, <2>1 DEF Serve
  <1>5. CASE op.k \in {"ruleRemove", "ruleToggle"}
    <2>2. RuleRemove(m, op.id).model \in GoodModel /\ RuleToggle(m, op.id).model \in GoodModel
      BY RuleOpsGood
    <2> QED BY <1>5, <2>2 DEF Serve
  <1>6. CASE op.k = "ruleMove"
    BY <1>6, RuleMoveGood DEF Serve
  <1>7. CASE op.k \in {"drag", "revert"}
    BY <1>7 DEF Serve, SafeOp, Kept, ReplaceModel, Accept, Refuse
  <1>8. CASE op.k = "import"
    <2>1. minted + Minted(op.link) <= Len(NewIds) /\ op.link \in Seq(LinkText)
      BY <1>8 DEF IdsUsed, SafeOp
    <2>2. ImportApply(m, SubSeq(NewIds, minted + 1, Len(NewIds)), op.link).model \in GoodModel
      BY <2>1, ImportGood
    <2>3. Serve(op, m) = ImportApply(m, SubSeq(NewIds, minted + 1, Len(NewIds)), op.link)
      BY <1>8 DEF Serve
    <2> QED BY <2>2, <2>3
  <1> QED BY <1>1, <1>2, <1>3, <1>4, <1>5, <1>6, <1>7, <1>8 DEF SafeOp, OpKinds

---------------------------------------------------------------------------
(* What the interface may ask for                                          *)

\* Dragging takes nothing from a locked group and drops nothing on one.
LEMMA DragsSafe == ASSUME NEW m, Safe(m), NEW n \in Drags(m) PROVE Safe(n)
  <1> DEFINE open == openGroups(m)
  <1>1. DOMAIN m.groups = 1..Len(m.groups) /\ IsSeq(m.groups) /\ \A i \in DOMAIN m.groups : "id" \in DOMAIN m.groups[i]
    BY SeqFacts DEF Safe, Plain, ToSet
  <1>2. \A i \in open : i \in 1..Len(m.groups) /\ m.groups[i].id # "safety"
    BY <1>1, Unlocking DEF openGroups
  <1>3. \/ \E i \in open : i + 1 \in open /\ n = swapGroups(m, i)
        \/ \E i, k \in open : \E j : n = dropRule(m, i, j, k)
    BY DEF Drags
  <1>4. ASSUME NEW i \in open, i + 1 \in open, n = swapGroups(m, i)
        PROVE  Safe(n)
    <2> DEFINE a == SetGroup(m, i, m.groups[i + 1])
    <2>1. Safe(a) /\ Len(a.groups) = Len(m.groups)
          /\ \A j \in 1..Len(m.groups) : a.groups[j] = IF j = i THEN m.groups[i + 1] ELSE m.groups[j]
      BY <1>1, <1>2, <1>4, ReplaceGroup DEF SetGroup
    <2>2. i + 1 \in 1..Len(a.groups) /\ a.groups[i + 1].id # "safety" /\ i \in 1..Len(m.groups)
      BY <1>2, <1>4, <2>1
    <2> HIDE DEF a
    <2>3. "id" \in DOMAIN m.groups[i] /\ m.groups[i].id # "safety"
      BY <1>1, <1>2, <1>4
    <2>4. Safe(SetGroup(a, i + 1, m.groups[i]))
      BY <2>1, <2>2, <2>3, ReplaceGroup DEF SetGroup
    <2>5. n = SetGroup(a, i + 1, m.groups[i])
      BY <1>4 DEF swapGroups, SetGroup, a
    <2> QED BY <2>4, <2>5
  <1>5. ASSUME NEW i \in open, NEW k \in open, NEW j, n = dropRule(m, i, j, k) PROVE Safe(n)
    <2> DEFINE x == RemoveAt(m.groups[i].rules, j)
               a == SetRules(m, i, x)
               y == <<m.groups[i].rules[j]>> \o a.groups[k].rules
    <2>1. n = SetRules(a, k, y)
      BY <1>5 DEF dropRule, SetRules
    <2> HIDE DEF x, y
    <2> QED BY <1>2, <2>1, MoveSafe
  <1> HIDE DEF open
  <1> QED BY <1>3, <1>4, <1>5

\* RulesService answers a valid request with a valid model that has the safety group.
LEMMA ServeKept ==
  ASSUME NEW m, Kept(m), NEW op, SafeOp(op), minted \in 0..Len(NewIds), minted + IdsUsed(op) <= Len(NewIds)
  PROVE  Kept(Serve(op, m).model)
  BY ServeSafe, ServeGood DEF Kept

\* Saved and loaded again.
LEMMA LoadKept == ASSUME NEW m, Kept(m) PROVE Kept(Load(Save(m)))
  BY LoadSafe, LoadGood DEF Kept

\* What the page offers names rules and groups of the model it shows; that is the
\* empty model until the first read.
LEMMA UserOpsSafe ==
  ASSUME NEW m, Kept(m) \/ m = EmptyView, link \in Seq(LinkText), NEW op \in UserOps(m)
  PROVE  SafeOp(op)
  <1> DEFINE gids == {g.id : g \in ToSet(m.groups)}
             rids == {r.id : r \in Rules(m)}
             A == {[k |-> "groupAdd", name |-> n] : n \in GroupNames}
             B == {[k |-> "groupEdit", id |-> g, enabled |-> e] : g \in gids, e \in BOOLEAN}
             C == {[k |-> "groupRemove", id |-> g] : g \in gids}
             D == {[k |-> "ruleAdd", id |-> g, rule |-> r] : g \in gids, r \in RuleInputs}
             E == {[k |-> "ruleEdit", rule |-> [r EXCEPT !.id = i]] : r \in RuleInputs, i \in rids}
             F == {[k |-> "ruleRemove", id |-> i] : i \in rids}
             G == {[k |-> "ruleToggle", id |-> i] : i \in rids}
             H == {[k |-> "ruleMove", id |-> i, dest |-> g] : i \in rids, g \in gids}
             I == {[k |-> "drag", next |-> n] : n \in Drags(m)}
             J == IF link = <<>> THEN {} ELSE {[k |-> "import", link |-> link]}
  <1>1. m \in GoodModel
    BY DefaultGood DEF Kept
  <1>2. \A i \in rids : i \in Texts
    <2>1. ASSUME NEW r \in Rules(m) PROVE r.id \in Texts
      <3>1. PICK g \in ToSet(m.groups) : r \in ToSet(g.rules)
        BY DEF Rules
      <3>2. m.groups \in Seq(GoodGroup)
        BY <1>1, GoodParts
      <3>3. g \in GoodGroup
        BY <3>2, ElementsIn
      <3>4. g.rules \in Seq(GoodRule)
        BY <3>3 DEF GoodGroup
      <3>5. r \in GoodRule
        BY <3>1, <3>4, ElementsIn
      <3> QED BY <3>5 DEF GoodRule, RuleText
    <2> QED BY <2>1
  <1>3. m = EmptyView => Drags(m) = {}
    <2>1. openGroups(EmptyView) = {}
      BY DEF EmptyView, openGroups
    <2> QED BY <2>1 DEF Drags
  <1>4. \A n \in Drags(m) : Kept(n)
    BY <1>3, DragsSafe, DragsGood DEF Kept
  <1>5. RuleInputs \subseteq RuleText
    BY SessionAssumption, TypedText DEF SessionAssumption
  <1>6. \/ op \in A \/ op \in B \/ op \in C \/ op \in D \/ op \in E
        \/ op \in F \/ op \in G \/ op \in H \/ op \in I \/ op \in J
    <2>1. UserOps(m) = A \cup B \cup C \cup D \cup E \cup F \cup G \cup H \cup I \cup J
      BY DEF UserOps
    <2> HIDE DEF A, B, C, D, E, F, G, H, I, J
    <2> QED BY <2>1
  <1> HIDE DEF gids, rids
  <1>7. op \in A => op.k = "groupAdd" /\ op.name \in Texts
    <2>1. op \in A => op.k = "groupAdd" /\ op.name \in GroupNames
      OBVIOUS
    <2>2. GroupNames \subseteq Texts
      BY TextsAre, Zenon DEF GroupNames
    <2> QED BY <2>1, <2>2
  <1>8. op \in B => op.k = "groupEdit" /\ op.enabled \in BOOLEAN
    OBVIOUS
  <1>9. op \in C \cup F \cup G \cup H => op.k \in {"groupRemove", "ruleRemove", "ruleToggle", "ruleMove"}
    <2>1. (op \in C => op.k = "groupRemove") /\ (op \in F => op.k = "ruleRemove")
      OBVIOUS
    <2>2. (op \in G => op.k = "ruleToggle") /\ (op \in H => op.k = "ruleMove")
      OBVIOUS
    <2> HIDE DEF C, F, G, H
    <2> QED BY <2>1, <2>2
  <1>10. op \in D => op.k = "ruleAdd" /\ op.rule \in RuleText
    BY <1>5
  <1>11. op \in E => op.k = "ruleEdit" /\ op.rule \in RuleText
    <2>1. \A r \in RuleText : \A i \in Texts : [r EXCEPT !.id = i] \in RuleText
      BY DEF RuleText
    <2> QED BY <1>2, <1>5, <2>1
  <1>12. op \in I => op.k = "drag" /\ Kept(op.next)
    BY <1>4
  <1>13. op \in J => op.k = "import" /\ op.link \in Seq(LinkText)
    OBVIOUS
  <1> HIDE DEF A, B, C, D, E, F, G, H, I, J
  <1> QED BY <1>6, <1>7, <1>8, <1>9, <1>10, <1>11, <1>12, <1>13 DEF SafeOp, OpKinds

\* Channels: what is appended, concatenated or taken out.
LEMMA SentAppend == ASSUME NEW s, Sent(s), NEW q, Fair(q) PROVE Sent(Append(s, q))
  BY AppendSeq DEF Sent

\* Two batches of requests.
LEMMA SentConcat == ASSUME NEW s, NEW t, Sent(s), Sent(t) PROVE Sent(s \o t)
  BY ConcatSeq DEF Sent

\* A request is taken.
LEMMA SentRemove == ASSUME NEW s, Sent(s), NEW i \in DOMAIN s PROVE Sent(RemoveAt(s, i))
  BY RemoveSeq, SeqFacts DEF Sent

\* An answer is given.
LEMMA AnsweredAppend ==
  ASSUME NEW s, Answered(s), NEW a, a.to = "list" => Kept(a.view) PROVE Answered(Append(s, a))
  BY AppendSeq DEF Answered

\* An answer is taken.
LEMMA AnsweredRemove == ASSUME NEW s, Answered(s), NEW i \in DOMAIN s PROVE Answered(RemoveAt(s, i))
  BY RemoveSeq, SeqFacts DEF Answered

\* A read carries nothing.
LEMMA ListSent == ASSUME NEW r PROVE Sent(ListRequest(r))
  <1>1. Sent(<<[to |-> "list"]>>)
    <2>1. Fair([to |-> "list"])
      BY DEF Fair
    <2> QED BY <2>1, SingleSeq DEF Sent
  <1>2. Sent(<<>>)
    BY NoSeq DEF Sent
  <1> QED BY <1>1, <1>2 DEF ListRequest

\* rulesStore keeps a view and a baseline that came from the file.
LEMMA ViewSafe == ASSUME NEW v, Guarded(v) PROVE Kept(v.view) \/ v.view = EmptyView
  BY DEF Guarded

\* The fields of rulesStore that hold no model.
LEMMA FieldGuarded ==
  ASSUME NEW v, Guarded(v), NEW x
  PROVE  /\ Guarded([v EXCEPT !.lead = x]) /\ Guarded([v EXCEPT !.sub = x])
         /\ Guarded([v EXCEPT !.reading = x]) /\ Guarded([v EXCEPT !.echoes = x])
         /\ Guarded([v EXCEPT !.sig = x])
  BY DEF Guarded, RsFields

\* The baseline of an undo is dropped.
LEMMA BaseGuarded ==
  ASSUME NEW v, Guarded(v)
  PROVE  Guarded([v EXCEPT !.base = <<>>]) /\ (v.boot => Guarded([v EXCEPT !.base = <<v.view>>]))
  <1>1. IsSeq(<<>>) /\ ToSet(<<>>) = {} /\ Len(<<>>) = 0
    BY NoSeq
  <1>2. IsSeq(<<v.view>>) /\ ToSet(<<v.view>>) = {v.view} /\ Len(<<v.view>>) = 1
    BY SingleSeq
  <1> DEFINE a == [v EXCEPT !.base = <<>>]
             b == [v EXCEPT !.base = <<v.view>>]
  <1>3. DOMAIN v = RsFields
    BY DEF Guarded
  <1>4. DOMAIN a = RsFields /\ a.base = <<>> /\ a.boot = v.boot /\ a.view = v.view
    BY <1>3 DEF RsFields
  <1>5. DOMAIN b = RsFields /\ b.base = <<v.view>> /\ b.boot = v.boot /\ b.view = v.view
    BY <1>3 DEF RsFields
  <1> HIDE DEF a, b
  <1>6. Guarded(a)
    BY <1>1, <1>4 DEF Guarded
  <1>7. v.boot => Guarded(b)
    BY <1>2, <1>5 DEF Guarded
  <1> QED BY <1>6, <1>7 DEF a, b

\* The baseline is the view of that moment.
LEMMA CaptureGuarded == ASSUME NEW v, Guarded(v) PROVE Guarded(captureRevertBaseline(v))
  BY BaseGuarded DEF captureRevertBaseline

\* A read is marked as running.
LEMMA RefetchGuarded == ASSUME NEW v, Guarded(v), NEW p PROVE Guarded(refetch(v, p))
  <1> DEFINE x == IF p THEN "push" ELSE IF v.reading = "no" THEN "quiet" ELSE v.reading
  <1>1. refetch(v, p) = [v EXCEPT !.reading = x]
    BY DEF refetch
  <1> HIDE DEF x
  <1> QED BY <1>1 DEF Guarded, RsFields

---------------------------------------------------------------------------
(* The safety group in every document on its way                           *)

\* The files that a behaviour may begin with.
LEMMA InputIsSafe ==
  ASSUME NEW s \in Scenarios
  PROVE  Safe(Load(s.rules)) /\ IsSeq(s.link)
  <1>1. s.rules \in Seq(ModelType) /\ Len(s.rules) <= 1 /\ s.link \in Seq(LinkType)
        /\ SafetyGroups(Load(s.rules)) = SafetyGroups(DefaultModel)
    BY FilesAssumption, Zenon DEF FilesAssumption
  <1>2. CASE s.rules = <<>>
    BY <1>1, <1>2, DefaultSafety DEF Load, IsSeq
  <1>3. CASE s.rules # <<>>
    <2> DEFINE m == s.rules[1]
               n == [m EXCEPT !.default = IF @ = "" THEN "proxy" ELSE @]
    <2>1. m \in ModelType
      BY <1>1, <1>3
    <2>2. "groups" \in DOMAIN m /\ m.groups \in Seq(GroupType)
      BY <2>1 DEF ModelType
    <2>3. \A g \in GroupType : "id" \in DOMAIN g
      BY DEF GroupType
    <2>4. Plain(m)
      BY <2>2, <2>3 DEF Plain, IsSeq, ToSet
    <2>5. Load(s.rules) = n
      BY <1>3 DEF Load
    <2> HIDE DEF m
    <2>6. DOMAIN n = DOMAIN m /\ n.groups = m.groups
      BY <2>2
    <2> HIDE DEF n
    <2>7. Plain(n)
      BY <2>4, <2>6 DEF Plain
    <2> QED BY <1>1, <2>5, <2>7 DEF Safe, IsSeq
  <1> QED BY <1>2, <1>3

\* The files and links that a behaviour may begin with.
LEMMA InputKept == ASSUME NEW s \in Scenarios PROVE Kept(Load(s.rules)) /\ s.link \in Seq(LinkText)
  BY InputIsSafe, InputGood DEF Kept

\* A behaviour begins with one copy of the rules, or two that agree.
LEMMA SafeInit == ASSUME Init PROVE SafeInv
  <1>1. PICK s \in Scenarios :
          /\ rulesFile = s.rules /\ link = s.link
          /\ rs = IF s.fresh THEN FreshRules ELSE LoadedRules(s.rules)
    BY DEF Init
  <1>2. minted = 0 /\ reqs = <<>> /\ answers = <<>> /\ waiters = <<>>
    BY DEF Init
  <1>3. Guarded(FreshRules)
    BY NoSeq DEF Guarded, FreshRules, RsFields
  <1>4. Guarded(LoadedRules(s.rules))
    <2> DEFINE v == LoadedRules(s.rules)
    <2>1. DOMAIN v = RsFields /\ v.boot /\ v.boot \in BOOLEAN /\ v.view = Load(s.rules) /\ v.base = <<>>
      BY DEF LoadedRules, FreshRules, RsFields
    <2> HIDE DEF v
    <2>2. Kept(v.view)
      BY <2>1, InputKept
    <2>3. IsSeq(v.base) /\ Len(v.base) <= 1 /\ ToSet(v.base) = {}
      BY <2>1, NoSeq
    <2>4. Guarded(v)
      BY <2>1, <2>2, <2>3 DEF Guarded
    <2> QED BY <2>4 DEF v
  <1>5. Guarded(rs)
    BY <1>1, <1>3, <1>4
  <1>6. 0 \in 0..Len(NewIds)
    BY IdsSeq
  <1>7. Sent(<<>>) /\ Answered(<<>>) /\ Waiting(<<>>)
    BY NoSeq DEF Sent, Answered, Waiting
  <1> QED BY <1>1, <1>2, <1>5, <1>6, <1>7, InputKept DEF SafeInv

\* The request of an operation.
LEMMA MutationSent ==
  ASSUME NEW op, SafeOp(op), NEW l
  PROVE  Fair(MutationRequest(op, l))
  BY DEF MutationRequest, Fair

\* applyMutation sends the operation, or has it wait.
LEMMA MutationKeeps ==
  ASSUME SafeInv, NEW op, SafeOp(op), applyMutation(op)
  PROVE  Guarded(rs') /\ Sent(reqs') /\ Waiting(waiters')
  <1>1. CASE rs.lead
    <2>1. waiters' = Append(waiters, op) /\ rs' = rs /\ reqs' = reqs
      BY <1>1 DEF applyMutation
    <2>2. Waiting(waiters')
      BY <2>1, AppendSeq DEF Waiting, SafeInv
    <2> QED BY <2>1, <2>2 DEF SafeInv
  <1>2. CASE ~rs.lead
    <2>1. rs' = [captureRevertBaseline(rs) EXCEPT !.lead = TRUE]
          /\ reqs' = Append(reqs, MutationRequest(op, TRUE)) /\ waiters' = waiters
      BY <1>2 DEF applyMutation
    <2>2. Guarded([captureRevertBaseline(rs) EXCEPT !.lead = TRUE])
      BY CaptureGuarded, FieldGuarded DEF SafeInv
    <2>3. Sent(reqs')
      BY <2>1, MutationSent, SentAppend DEF SafeInv
    <2> QED BY <2>1, <2>2, <2>3 DEF SafeInv
  <1> QED BY <1>1, <1>2

\* RulesService: one mutex from Load to Save.
LEMMA HandleRulesKeeps == ASSUME SafeInv, NEW i \in DOMAIN reqs, HandleRules(i) PROVE SafeInv'
  <1> DEFINE op == reqs[i].op
             r  == Serve(op, Load(rulesFile))
  <1>1. reqs[i] \in ToSet(reqs) /\ reqs[i].to = "rules" /\ minted + IdsUsed(op) <= Len(NewIds)
    BY DEF HandleRules, ToSet
  <1>2. SafeOp(op)
    BY <1>1 DEF SafeInv, Sent, Fair
  <1>3. Kept(r.model)
    BY <1>1, <1>2, ServeKept DEF SafeInv
  <1>4. rulesFile' = rulesFile \/ rulesFile' = Save(r.model)
    BY DEF HandleRules
  <1>5. minted' = IF r.ok THEN minted + IdsUsed(op) ELSE minted
    BY DEF HandleRules
  <1>6. UNCHANGED <<link, waiters, rs>> /\ reqs' = RemoveAt(reqs, i)
    BY DEF HandleRules, ui
  <1>7. \E a : answers' = Append(answers, a) /\ a.to = "rules"
    <2>1. \A o, l, ok : [to |-> "rules", op |-> o, lead |-> l, ok |-> ok].to = "rules"
      OBVIOUS
    <2>2. \E ok : answers' = Append(answers, [to |-> "rules", op |-> op, lead |-> reqs[i].lead, ok |-> ok])
      BY DEF HandleRules
    <2> QED BY <2>1, <2>2
  <1> HIDE DEF r
  <1>8. Kept(Load(rulesFile'))
    BY <1>3, <1>4, LoadKept DEF SafeInv
  <1>9. minted' \in 0..Len(NewIds)
    <2>1. CASE r.ok
      <3>1. IdsUsed(op) \in Nat
        <4>1. CASE op.k = "import"
          <5>1. r = ImportApply(Load(rulesFile), SubSeq(NewIds, minted + 1, Len(NewIds)), op.link)
            BY <4>1 DEF r, Serve
          <5>2. Decodes(op.link)
            BY <2>1, <5>1 DEF ImportApply, Refuse
          <5>3. countRules(op.link) \in Nat
            BY <5>2 DEF Decodes
          <5>4. Len(op.link) \in Nat
            BY <1>2, <4>1 DEF SafeOp
          <5> QED BY <4>1, <5>3, <5>4 DEF IdsUsed, Minted
        <4>2. CASE op.k # "import"
          BY <4>2 DEF IdsUsed
        <4> QED BY <4>1, <4>2
      <3>2. minted \in Nat /\ Len(NewIds) \in Nat
        BY IdsSeq DEF SafeInv
      <3> QED BY <1>1, <1>5, <2>1, <3>1, <3>2
    <2>2. CASE ~r.ok
      BY <1>5, <2>2 DEF SafeInv
    <2> QED BY <2>1, <2>2
  <1>10. Sent(reqs')
    BY <1>6, SentRemove DEF SafeInv
  <1>11. Answered(answers')
    BY <1>7, AnsweredAppend DEF SafeInv
  <1> QED BY <1>6, <1>8, <1>9, <1>10, <1>11 DEF SafeInv

\* The handlers that write no rules.
LEMMA OtherHandlersKeep ==
  ASSUME SafeInv, NEW i \in DOMAIN reqs, HandleList(i) \/ HandleUpdate(i) \/ HandleGet(i)
  PROVE  SafeInv'
  <1>1. UNCHANGED <<rulesFile, minted, link, waiters, rs>> /\ reqs' = RemoveAt(reqs, i)
    BY DEF HandleList, HandleUpdate, HandleGet, files, ui
  <1>2. \E a : answers' = Append(answers, a) /\ (a.to = "list" => Kept(a.view))
    <2>1. CASE HandleList(i)
      <3>1. \E ok : answers' = Append(answers, [to |-> "list", ok |-> ok, view |-> Load(rulesFile)])
        BY <2>1 DEF HandleList
      <3>2. \A ok : [to |-> "list", ok |-> ok, view |-> Load(rulesFile)].view = Load(rulesFile)
        OBVIOUS
      <3> QED BY <3>1, <3>2 DEF SafeInv
    <2>2. CASE HandleUpdate(i)
      <3>1. [to |-> "update", flush |-> reqs[i].flush].to # "list"
        OBVIOUS
      <3> QED BY <2>2, <3>1 DEF HandleUpdate
    <2>3. CASE HandleGet(i)
      <3>1. \E ok : answers' = Append(answers, [to |-> "get", why |-> reqs[i].why, ok |-> ok, view |-> toView(cfgFile)])
        BY <2>3 DEF HandleGet
      <3>2. \A ok : [to |-> "get", why |-> reqs[i].why, ok |-> ok, view |-> toView(cfgFile)].to # "list"
        OBVIOUS
      <3> QED BY <3>1, <3>2
    <2> QED BY <2>1, <2>2, <2>3
  <1>3. Answered(answers')
    BY <1>2, AnsweredAppend DEF SafeInv
  <1>4. Sent(reqs')
    BY <1>1, SentRemove DEF SafeInv
  <1> QED BY <1>1, <1>3, <1>4 DEF SafeInv

\* flushNow sends one update for each section that the patch touches.
LEMMA PartsSeq ==
  ASSUME NEW patch
  PROVE  LET parts == SetToSeq(frontendToBackend(patch))
         IN /\ Len(parts) \in Nat /\ parts \in [1..Len(parts) -> frontendToBackend(patch)]
            /\ IsFiniteSet(frontendToBackend(patch)) /\ Len(parts) = Cardinality(frontendToBackend(patch))
  <1> DEFINE X == {x \in Sections : DOMAIN patch \cap KeysOf(x) # {}}
             P == frontendToBackend(patch)
             f == [s \in X |-> <<s, [k \in DOMAIN patch \cap KeysOf(s) |-> patch[k]]>>]
  <1>1. IsFiniteSet(Sections)
    <2>1. IsFiniteSet({}) /\ Sections = ((((({} \cup {"general"}) \cup {"network"}) \cup {"killswitch"}) \cup {"subscriptions"}) \cup {"notifications"}) \cup {"debug"}
      BY FS_EmptySet DEF Sections
    <2>2. \A S, x : IsFiniteSet(S) => IsFiniteSet(S \cup {x})
      BY FS_AddElement
    <2> QED BY <2>1, <2>2
  <1>2. IsFiniteSet(X)
    BY <1>1, FS_Subset
  <1>3. f \in Surjection(X, P)
    BY DEF Surjection, frontendToBackend
  <1> HIDE DEF X, f
  <1>4. IsFiniteSet(P)
    BY <1>2, <1>3, FS_Surjection
  <1> HIDE DEF P
  <1>5. Cardinality(P) \in Nat /\ ExistsBijection(1..Cardinality(P), P)
    BY <1>4, FS_CardinalityType
  <1>6. \E g \in [1..Cardinality(P) -> P] : IsInjective(g)
    BY <1>5 DEF ExistsBijection, Bijection, Injection, IsInjective
  <1>7. SetToSeq(P) \in [1..Cardinality(P) -> P]
    BY <1>6 DEF SetToSeq
  <1>8. Len(SetToSeq(P)) = Cardinality(P)
    <2> HIDE DEF P
    <2>1. SetToSeq(P) \in Seq(P)
      BY <1>5, <1>7
    <2> QED BY <1>5, <1>7, <2>1
  <1> QED BY <1>4, <1>5, <1>7, <1>8 DEF P

\* Each part of a patch is the patch on the keys of its section.
LEMMA PartsSwitch ==
  ASSUME NEW patch, Switches(patch)
  PROVE  \A j \in 1..Len(SetToSeq(frontendToBackend(patch))) :
           Switches(SetToSeq(frontendToBackend(patch))[j][2])
  <1> DEFINE P == frontendToBackend(patch)
  <1>1. \A x \in P : Switches(x[2])
    <2> SUFFICES ASSUME NEW x \in P PROVE Switches(x[2])
      OBVIOUS
    <2>1. PICK s : x = <<s, [k \in DOMAIN patch \cap KeysOf(s) |-> patch[k]]>>
      BY DEF frontendToBackend
    <2>2. x[2] = [k \in DOMAIN patch \cap KeysOf(s) |-> patch[k]]
      BY <2>1
    <2> QED BY <2>2 DEF Switches
  <1>2. Len(SetToSeq(P)) \in Nat /\ SetToSeq(P) \in [1..Len(SetToSeq(P)) -> P]
    BY PartsSeq
  <1> QED BY <1>1, <1>2

\* The requests of the mutations that waited.
LEMMA GoSent == ASSUME NEW s, Waiting(s) PROVE Sent([j \in 1..Len(s) |-> MutationRequest(s[j], FALSE)])
  <1> DEFINE t == [j \in 1..Len(s) |-> MutationRequest(s[j], FALSE)]
  <1>1. Len(s) \in Nat /\ DOMAIN s = 1..Len(s)
    BY SeqFacts DEF Waiting
  <1>2. \A j \in 1..Len(s) : SafeOp(s[j])
    BY <1>1 DEF Waiting, ToSet
  <1>3. DOMAIN t = 1..Len(s) /\ t = [j \in 1..Len(s) |-> t[j]]
        /\ \A j \in 1..Len(s) : t[j] = MutationRequest(s[j], FALSE)
    OBVIOUS
  <1> HIDE DEF t
  <1>4. IsSeq(t)
    BY <1>1, <1>3, MapSeq
  <1>5. \A q \in ToSet(t) : Fair(q)
    <2>1. \A j \in 1..Len(s) : Fair(t[j])
      <3>1. TAKE j \in 1..Len(s)
      <3>2. Fair(MutationRequest(s[j], FALSE))
        BY <1>2, MutationSent
      <3> QED BY <1>3, <3>2
    <2> QED BY <1>3, <2>1 DEF ToSet
  <1>6. Sent(t)
    BY <1>4, <1>5 DEF Sent
  <1> QED BY <1>6 DEF t

\* applyMutation after the call: the mutations that waited all start.
LEMMA MutationAnsweredKeeps ==
  ASSUME SafeInv, NEW i \in DOMAIN answers, MutationAnswered(i)
  PROVE  SafeInv'
  <1> DEFINE a    == answers[i]
             go   == IF a.lead THEN waiters ELSE <<>>
             low  == [rs EXCEPT !.lead = @ /\ ~a.lead]
             done == Mutated(low, a.ok)
             base == IF go = <<>> THEN done ELSE captureRevertBaseline(done)
             more == [j \in 1..Len(go) |-> MutationRequest(go[j], FALSE)]
             ask  == IF done.reading = rs.reading THEN <<>> ELSE ListRequest(rs)
  <1>1. /\ rs' = Reverted(base, a) /\ reqs' = reqs \o ask \o more
        /\ waiters' = (IF a.lead THEN <<>> ELSE waiters) /\ answers' = RemoveAt(answers, i)
        /\ UNCHANGED <<rulesFile, minted, link>>
    BY DEF MutationAnswered, files
  <1>2. Waiting(<<>>) /\ Sent(<<>>)
    BY NoSeq DEF Waiting, Sent
  <1>3. Waiting(go) /\ Waiting(waiters')
    BY <1>1, <1>2 DEF SafeInv
  <1>4. Guarded(low)
    <2> DEFINE x == rs.lead /\ ~a.lead
    <2>1. low = [rs EXCEPT !.lead = x]
      OBVIOUS
    <2> HIDE DEF x
    <2> QED BY <2>1, FieldGuarded DEF SafeInv
  <1> HIDE DEF go, low
  <1>5. Guarded(done)
    <2> DEFINE x == low.echoes + 1
    <2>1. [low EXCEPT !.echoes = @ + 1] = [low EXCEPT !.echoes = x]
      OBVIOUS
    <2> HIDE DEF x
    <2>2. Guarded([low EXCEPT !.echoes = @ + 1])
      BY <1>4, <2>1, FieldGuarded
    <2> QED BY <1>4, <2>2, RefetchGuarded DEF Mutated
  <1> HIDE DEF done
  <1>6. Guarded(base)
    BY <1>5, CaptureGuarded
  <1> HIDE DEF base
  <1>7. Guarded(rs')
    BY <1>1, <1>6, BaseGuarded DEF Reverted
  <1>8. Sent(ask)
    BY <1>2, ListSent
  <1>9. Sent(more)
    BY <1>3, GoSent
  <1> HIDE DEF ask, more
  <1>10. Sent(reqs')
    BY <1>1, <1>8, <1>9, SentConcat DEF SafeInv
  <1>11. Answered(answers')
    BY <1>1, AnsweredRemove DEF SafeInv
  <1> QED BY <1>1, <1>3, <1>7, <1>10, <1>11 DEF SafeInv

\* doRefetch after the call: the page shows what an answer carried.
LEMMA RefetchedKeeps == ASSUME SafeInv, NEW i \in DOMAIN answers, Refetched(i) PROVE SafeInv'
  <1> DEFINE a    == answers[i]
             next == IF a.ok THEN [rs EXCEPT !.view = a.view, !.boot = TRUE, !.reading = "no"]
                     ELSE [rs EXCEPT !.reading = "no"]
  <1>1. /\ rs' = next \/ rs' = [next EXCEPT !.sig = <<next.view>>]
        /\ answers' = RemoveAt(answers, i)
        /\ UNCHANGED <<rulesFile, minted, link, reqs, waiters>>
    BY DEF Refetched, files
  <1>2. Kept(a.view)
    BY DEF Refetched, SafeInv, Answered, ToSet
  <1>3. Guarded(next)
    <2> DEFINE n == [rs EXCEPT !.view = a.view, !.boot = TRUE, !.reading = "no"]
    <2>1. DOMAIN rs = RsFields /\ IsSeq(rs.base) /\ Len(rs.base) <= 1 /\ \A m \in ToSet(rs.base) : Kept(m)
      BY DEF SafeInv, Guarded
    <2>2. DOMAIN n = RsFields /\ n.boot = TRUE /\ n.view = a.view /\ n.base = rs.base
      BY <2>1 DEF RsFields
    <2> HIDE DEF n
    <2>3. n.boot /\ n.boot \in BOOLEAN
      BY <2>2
    <2>4. Guarded(n)
      BY <1>2, <2>1, <2>2, <2>3 DEF Guarded
    <2> QED BY <2>4, FieldGuarded DEF n, SafeInv
  <1> HIDE DEF next
  <1>4. Guarded(rs')
    <2> DEFINE s == <<next.view>>
    <2>1. rs' = next \/ rs' = [next EXCEPT !.sig = s]
      BY <1>1
    <2> HIDE DEF s
    <2>2. Guarded([next EXCEPT !.sig = s])
      BY <1>3, FieldGuarded
    <2> QED BY <1>3, <2>1, <2>2
  <1>5. Answered(answers')
    BY <1>1, AnsweredRemove DEF SafeInv
  <1> QED BY <1>1, <1>4, <1>5 DEF SafeInv

\* The answers to the settings' store.
LEMMA OtherAnswersKeep ==
  ASSUME SafeInv, NEW i \in DOMAIN answers, UpdateAnswered(i) \/ GetAnswered(i)
  PROVE  SafeInv'
  <1>1. UNCHANGED <<rulesFile, minted, link, waiters, rs>> /\ answers' = RemoveAt(answers, i)
    BY DEF UpdateAnswered, GetAnswered, files
  <1>2. reqs' = reqs \/ \E s : reqs' = reqs \o ReadBack(s)
    <2>1. CASE UpdateAnswered(i)
      BY <2>1 DEF UpdateAnswered
    <2>2. CASE GetAnswered(i)
      BY <2>2 DEF GetAnswered
    <2> QED BY <2>1, <2>2
  <1>3. \A s : Sent(ReadBack(s))
    <2>1. Fair(GetRequest("flush"))
      BY DEF GetRequest, Fair
    <2>2. Sent(<<GetRequest("flush")>>) /\ Sent(<<>>)
      BY <2>1, SingleSeq, NoSeq DEF Sent
    <2> QED BY <2>2 DEF ReadBack
  <1>4. Sent(reqs')
    BY <1>2, <1>3, SentConcat DEF SafeInv
  <1>5. Answered(answers')
    BY <1>1, AnsweredRemove DEF SafeInv
  <1> QED BY <1>1, <1>4, <1>5 DEF SafeInv

\* The steps of the settings' store that send a request.
LEMMA SettingsKeep == ASSUME SafeInv, SwitchInv, loadFromBackend \/ flushSettings \/ PickMode PROVE SafeInv'
  <1>1. UNCHANGED <<rulesFile, minted, link, answers, waiters, rs>>
    BY DEF loadFromBackend, flushSettings, PickMode, files, ui
  <1>2. Sent(reqs')
    <2>1. CASE loadFromBackend
      <3>1. Fair(GetRequest("boot")) /\ reqs' = Append(reqs, GetRequest("boot"))
        BY <2>1 DEF loadFromBackend, GetRequest, Fair
      <3> QED BY <3>1, SentAppend DEF SafeInv
    <2>2. CASE PickMode
      <3> DEFINE p(mode) == [k \in {"defaultMode"} |-> mode]
      <3>1. \A x : Fair([to |-> "update", flush |-> 0, section |-> "network", patch |-> p(x)])
        BY DEF Fair, Switches
      <3>2. \E x : reqs' = Append(reqs, [to |-> "update", flush |-> 0, section |-> "network", patch |-> p(x)])
        BY <2>2 DEF PickMode
      <3> QED BY <3>1, <3>2, SentAppend DEF SafeInv
    <2>3. CASE flushSettings
      <3> DEFINE parts == SetToSeq(frontendToBackend(st.pend))
                 n     == st.flushed + 1
                 t     == [j \in 1..Len(parts) |->
                            [to |-> "update", flush |-> n, section |-> parts[j][1], patch |-> parts[j][2]]]
      <3>1. reqs' = reqs \o t
        BY <2>3 DEF flushSettings
      <3>2. Len(parts) \in Nat /\ \A j \in 1..Len(parts) : Switches(parts[j][2])
        BY PartsSeq, PartsSwitch DEF SwitchInv
      <3>3. DOMAIN t = 1..Len(parts) /\ t = [j \in 1..Len(parts) |-> t[j]]
            /\ \A j \in 1..Len(parts) : Fair(t[j])
        BY <3>2 DEF Fair
      <3> HIDE DEF t, parts
      <3>4. IsSeq(t)
        BY <3>2, <3>3, MapSeq
      <3>5. Sent(t)
        BY <3>3, <3>4 DEF Sent, ToSet
      <3> QED BY <3>1, <3>5, SentConcat DEF SafeInv
    <2> QED BY <2>1, <2>2, <2>3
  <1> QED BY <1>1, <1>2 DEF SafeInv

\* The steps of the rules' store between its mutations.
LEMMA RulesStoreKeeps ==
  ASSUME SafeInv, ensureBoot \/ RulesChanged \/ StatusEvent
  PROVE  SafeInv'
  <1>1. UNCHANGED <<rulesFile, minted, link, answers, waiters>>
    BY DEF ensureBoot, RulesChanged, StatusEvent, files, channel
  <1>2. Guarded(rs')
    <2>1. CASE ensureBoot
      <3>1. Guarded([rs EXCEPT !.sub = TRUE])
        BY FieldGuarded DEF SafeInv
      <3> QED BY <2>1, <3>1, RefetchGuarded DEF ensureBoot
    <2>2. CASE RulesChanged
      <3> DEFINE x == rs.echoes - 1
      <3>1. rs' = [rs EXCEPT !.echoes = x] \/ rs' = refetch(rs, FALSE)
        BY <2>2 DEF RulesChanged
      <3> HIDE DEF x
      <3>2. Guarded([rs EXCEPT !.echoes = x])
        BY FieldGuarded DEF SafeInv
      <3>3. Guarded(refetch(rs, FALSE))
        BY RefetchGuarded DEF SafeInv
      <3> QED BY <3>1, <3>2, <3>3
    <2>3. CASE StatusEvent
      <3>1. rs' = rs \/ rs' = [rs EXCEPT !.base = <<>>]
        BY <2>3 DEF StatusEvent, clearRulesRevertBaseline
      <3> QED BY <3>1, BaseGuarded DEF SafeInv
    <2> QED BY <2>1, <2>2, <2>3
  <1>3. reqs' = reqs \/ reqs' = reqs \o ListRequest(rs)
    BY DEF ensureBoot, RulesChanged, StatusEvent, channel
  <1>4. Sent(reqs')
    BY <1>3, ListSent, SentConcat DEF SafeInv
  <1> QED BY <1>1, <1>2, <1>4 DEF SafeInv

\* The actions of the user on the rules.
LEMMA UserKeeps == ASSUME SafeInv, EditRules \/ Dismiss \/ rulesExportGroup PROVE SafeInv'
  <1>1. CASE EditRules
    <2>1. PICK op \in UserOps(rs.view) : applyMutation(op)
      BY <1>1 DEF EditRules
    <2>2. SafeOp(op)
      BY ViewSafe, UserOpsSafe DEF SafeInv
    <2>3. Guarded(rs') /\ Sent(reqs') /\ Waiting(waiters')
      BY <2>1, <2>2, MutationKeeps
    <2> QED BY <1>1, <2>3 DEF SafeInv, EditRules, files
  <1>2. CASE Dismiss
    <2>1. CASE rs.base = <<>>
      <3>1. UNCHANGED <<rulesFile, minted, link, reqs, answers, waiters, rs>>
        BY <1>2, <2>1 DEF Dismiss, files
      <3> QED BY <3>1 DEF SafeInv
    <2>2. CASE rs.base # <<>>
      <3> DEFINE op == [k |-> "revert", next |-> rs.base[1]]
      <3>1. applyMutation(op)
        BY <1>2, <2>2 DEF Dismiss
      <3>2. IsSeq(rs.base) /\ \A m \in ToSet(rs.base) : Kept(m)
        BY DEF SafeInv, Guarded
      <3>3. rs.base[1] \in ToSet(rs.base)
        BY <2>2, <3>2 DEF IsSeq, ToSet
      <3>4. op.k = "revert" /\ op.next = rs.base[1]
        OBVIOUS
      <3> HIDE DEF op
      <3>5. SafeOp(op)
        BY <3>2, <3>3, <3>4 DEF SafeOp, OpKinds
      <3>6. Guarded(rs') /\ Sent(reqs') /\ Waiting(waiters')
        BY <3>1, <3>5, MutationKeeps
      <3> QED BY <1>2, <3>6 DEF SafeInv, Dismiss, files
    <2> QED BY <2>1, <2>2
  <1>3. CASE rulesExportGroup
    <2>1. \E g : link' = ExportGroup(Load(rulesFile), g.id)
      BY <1>3 DEF rulesExportGroup
    <2>2. \A id : ExportGroup(Load(rulesFile), id) \in Seq(LinkText)
      BY ExportGood DEF SafeInv, Kept
    <2>3. link' \in Seq(LinkText)
      BY <2>1, <2>2
    <2> QED BY <1>3, <2>3 DEF SafeInv, rulesExportGroup, files, channel
  <1> QED BY <1>1, <1>2, <1>3

\* No step brings in a copy of the rules that is not Kept.
LEMMA SafeStep == ASSUME SafeInv, SwitchInv, [Next]_vars PROVE SafeInv'
  <1>1. Takable(reqs) \subseteq DOMAIN reqs /\ Takable(answers) \subseteq DOMAIN answers
    BY DEF Takable
  <1>2. CASE \E i \in Takable(reqs) : HandleRules(i) \/ HandleList(i) \/ HandleUpdate(i) \/ HandleGet(i)
    BY <1>1, <1>2, HandleRulesKeeps, OtherHandlersKeep
  <1>3. CASE \E i \in Takable(answers) : MutationAnswered(i) \/ Refetched(i) \/ UpdateAnswered(i) \/ GetAnswered(i)
    BY <1>1, <1>3, MutationAnsweredKeeps, RefetchedKeeps, OtherAnswersKeep
  <1>4. CASE loadFromBackend \/ flushSettings \/ PickMode
    BY <1>4, SettingsKeep
  <1>5. CASE ensureBoot \/ RulesChanged \/ StatusEvent
    BY <1>5, RulesStoreKeeps
  <1>6. CASE EditRules \/ Dismiss \/ rulesExportGroup
    BY <1>6, UserKeeps
  <1>7. CASE UNCHANGED <<rulesFile, minted, link, reqs, answers, waiters, rs>>
    BY <1>7 DEF SafeInv
  <1>8. CASE ReadNetwork \/ buildConfigs \/ Connect \/ Disconnect \/ Reconnect
    BY <1>7, <1>8 DEF ReadNetwork, buildConfigs, Connect, Disconnect, Reconnect, files, channel, ui
  <1>9. CASE \E k \in EditKeys : \E v \in Inputs(k) : EditSetting(k, v)
    BY <1>7, <1>9 DEF EditSetting, files, channel
  <1>10. CASE UNCHANGED vars
    BY <1>7, <1>10 DEF vars, files, channel, ui
  <1> QED BY <1>2, <1>3, <1>4, <1>5, <1>6, <1>8, <1>9, <1>10 DEF Next, Bridge, Interface, User

---------------------------------------------------------------------------
(* The LAN switch stays a switch                                           *)

\* allowLan is a key of the network section, and not a port.
LEMMA LanIsKey == "allowLan" \in Keys /\ ~("allowLan" \in PortKeys)
  <1>1. "allowLan" \in KeysOf("network") /\ "network" \in Sections
    BY DEF KeysOf, NetworkKeys, Sections
  <1> QED BY <1>1 DEF Keys, PortKeys

\* The user turns it on or off.
LEMMA LanInputs == Inputs("allowLan") = BOOLEAN
  BY LanIsKey DEF Inputs

\* It has a default.
LEMMA LanDefault == defaults["allowLan"] \in BOOLEAN
  BY LanIsKey DEF defaults

\* A behaviour begins with a switch.
LEMMA SwitchInit == ASSUME Init PROVE SwitchInv
  <1>1. PICK s \in Scenarios :
          cfgFile = s.config /\ st = IF s.fresh THEN FreshSettings ELSE LoadedSettings(s.config)
    BY DEF Init
  <1>2. s.config["allowLan"] \in BOOLEAN
    BY FilesAssumption, Zenon
  <1>3. DOMAIN FreshSettings = StFields /\ FreshSettings.pend = NoPatch
    BY DEF FreshSettings, StFields
  <1>4. DOMAIN LoadedSettings(s.config) = StFields /\ LoadedSettings(s.config).pend = NoPatch
    <2> DEFINE o == Overlay(FreshSettings.cur, backendToFrontend(toView(s.config)))
               n == [FreshSettings EXCEPT !.cur = o, !.started = TRUE]
    <2>1. LoadedSettings(s.config) = n
      BY DEF LoadedSettings
    <2> HIDE DEF o
    <2>2. DOMAIN n = StFields /\ n.pend = NoPatch
      BY <1>3 DEF StFields
    <2> QED BY <2>1, <2>2
  <1>5. Switches(NoPatch)
    BY DEF Switches, NoPatch
  <1> QED BY <1>1, <1>2, <1>3, <1>4, <1>5 DEF SwitchInv

\* A patch merges a switch or leaves it.
LEMMA UpdateKeepsSwitch ==
  ASSUME NEW c, c["allowLan"] \in BOOLEAN, NEW section, NEW patch, Switches(patch)
  PROVE  UpdateSection(c, section, patch).config["allowLan"] \in BOOLEAN
  <1> DEFINE n == applyPatch(c, section, patch)
  <1>1. n["allowLan"] \in BOOLEAN
    <2>1. (n["allowLan"] = patch["allowLan"] /\ "allowLan" \in DOMAIN patch) \/ n["allowLan"] = c["allowLan"]
      BY LanIsKey DEF applyPatch
    <2> QED BY <2>1 DEF Switches
  <1>2. UpdateSection(c, section, patch).config \in {n, c}
    BY DEF UpdateSection
  <1> HIDE DEF n
  <1> QED BY <1>1, <1>2

\* No step makes anything else of it.
LEMMA SwitchStep == ASSUME SafeInv, SwitchInv, [Next]_vars PROVE SwitchInv'
  <1> USE DEF SwitchInv
  <1>1. CASE \E i \in Takable(reqs) : HandleUpdate(i)
    <2>1. PICK i \in Takable(reqs) : HandleUpdate(i)
      BY <1>1
    <2>2. i \in DOMAIN reqs /\ reqs[i].to = "update" /\ st' = st
      BY <2>1 DEF Takable, HandleUpdate, ui
    <2>3. Switches(reqs[i].patch)
      BY <2>2 DEF SafeInv, Sent, Fair, ToSet
    <2> DEFINE d == UpdateSection(cfgFile, reqs[i].section, reqs[i].patch).config
    <2>4. cfgFile' = cfgFile \/ cfgFile' = d
      BY <2>1 DEF HandleUpdate
    <2>5. d["allowLan"] \in BOOLEAN
      BY <2>3, UpdateKeepsSwitch
    <2> HIDE DEF d
    <2> QED BY <2>2, <2>4, <2>5
  <1>2. CASE \E k \in EditKeys : \E v \in Inputs(k) : EditSetting(k, v)
    <2>1. PICK k \in EditKeys : \E v \in Inputs(k) : EditSetting(k, v)
      BY <1>2
    <2>2. PICK v \in Inputs(k) : EditSetting(k, v)
      BY <2>1
    <2> DEFINE o == Overlay(st.cur, [x \in {k} |-> v])
               q == [x \in DOMAIN st.pend \cup {k} |-> IF x = k THEN v ELSE st.pend[x]]
    <2>3. st' = [st EXCEPT !.cur = o, !.pend = q] /\ cfgFile' = cfgFile
      BY <2>2 DEF EditSetting, files
    <2>4. Switches(q)
      <3>1. k = "allowLan" => v \in BOOLEAN
        BY LanInputs
      <3> QED BY <3>1 DEF Switches
    <2> HIDE DEF o, q
    <2>5. DOMAIN st' = StFields /\ st'.pend = q
      BY <2>3 DEF StFields
    <2> QED BY <2>3, <2>4, <2>5
  <1>3. CASE flushSettings
    <2> DEFINE n == st.flushed + 1
               x == st.inFlight + 1
               w == Append(st.open, Len(SetToSeq(frontendToBackend(st.pend))))
    <2>1. st' = [st EXCEPT !.pend = NoPatch, !.inFlight = x, !.flushed = n, !.open = w] /\ cfgFile' = cfgFile
      BY <1>3 DEF flushSettings, files
    <2> HIDE DEF n, w, x
    <2>2. DOMAIN st' = StFields /\ st'.pend = NoPatch
      BY <2>1 DEF StFields
    <2>3. Switches(NoPatch)
      BY DEF Switches, NoPatch
    <2> QED BY <2>1, <2>2, <2>3
  <1>4. CASE \E i \in Takable(answers) : UpdateAnswered(i)
    <2>1. PICK i : UpdateAnswered(i)
      BY <1>4
    <2> DEFINE n == answers[i].flush
               c == [st EXCEPT !.open[n] = @ - 1]
               e == FlushEnded(c)
    <2>2. st' \in {st, c, e} /\ cfgFile' = cfgFile
      BY <2>1 DEF UpdateAnswered, files
    <2>3. DOMAIN c = StFields /\ c.pend = st.pend
      BY DEF StFields
    <2> HIDE DEF c
    <2>4. DOMAIN e = StFields /\ e.pend = st.pend
      BY <2>3 DEF FlushEnded, StFields
    <2> QED BY <2>2, <2>3, <2>4
  <1>5. CASE loadFromBackend \/ \E i \in Takable(answers) : GetAnswered(i)
    <2>1. (\E c : st' = [st EXCEPT !.cur = c]) \/ (\E b : st' = [st EXCEPT !.started = b]) \/ st' = st
      BY <1>5 DEF loadFromBackend, GetAnswered
    <2>2. cfgFile' = cfgFile
      BY <1>5 DEF loadFromBackend, GetAnswered, files
    <2>3. DOMAIN st' = StFields /\ st'.pend = st.pend
      BY <2>1 DEF StFields
    <2> QED BY <2>2, <2>3
  <1>6. CASE UNCHANGED <<st, cfgFile>>
    BY <1>6
  <1>7. CASE \E i \in Takable(reqs) : HandleRules(i) \/ HandleList(i) \/ HandleGet(i)
    BY <1>6, <1>7 DEF HandleRules, HandleList, HandleGet, ui, files
  <1>8. CASE \E i \in Takable(answers) : MutationAnswered(i) \/ Refetched(i)
    BY <1>6, <1>8 DEF MutationAnswered, Refetched, files
  <1>9. CASE RulesChanged \/ StatusEvent \/ ensureBoot \/ EditRules \/ rulesExportGroup \/ Dismiss
    BY <1>6, <1>9 DEF RulesChanged, StatusEvent, ensureBoot, EditRules, rulesExportGroup, Dismiss, files
  <1>10. CASE Reconnect \/ Connect \/ Disconnect \/ PickMode \/ ReadNetwork \/ buildConfigs \/ UNCHANGED vars
    BY <1>6, <1>10 DEF Reconnect, Connect, Disconnect, PickMode, ReadNetwork, buildConfigs, vars, ui, files
  <1> QED BY <1>1, <1>2, <1>3, <1>4, <1>5, <1>7, <1>8, <1>9, <1>10 DEF Next, Bridge, Interface, User

\* No sequence of edits, drags, undos, moves and imports changes the safety group
\* that rules.json holds, whatever order requests and answers take, and although
\* the guard of ReplaceModel compares neither actions nor conditions
\* (guardSafetyUnchanged, the locked checks of every handler).
THEOREM SafetyHolds == Spec => []SafetyKept
  <1>1. SafeInv => SafetyKept
    BY DEF SafeInv, Kept, Safe, SafetyKept
  <1> QED BY <1>1, SafeInit, SafeStep, SwitchInit, SwitchStep, PTL DEF Spec

---------------------------------------------------------------------------
(* Types, and the two proxies of a saved document                          *)

\* The ports are keys of the network section.
LEMMA PortsAreKeys == PortKeys \subseteq Keys
  <1>1. PortKeys \subseteq KeysOf("network") /\ "network" \in Sections
    BY DEF PortKeys, KeysOf, NetworkKeys, Sections
  <1> QED BY <1>1, Zenon DEF Keys

\* An overlay has every key.
LEMMA OverlayKeys == ASSUME NEW c, NEW p PROVE DOMAIN Overlay(c, p) = Keys
  BY DEF Overlay

\* A patch merges only ports in range, and the merged document is validated.
LEMMA UpdateKeepsPorts ==
  ASSUME NEW c, \A k \in PortKeys : InRange(k, c[k]), validateNetwork(c), NEW section, NEW patch
  PROVE  LET d == UpdateSection(c, section, patch).config
         IN (\A k \in PortKeys : InRange(k, d[k])) /\ validateNetwork(d)
  <1> DEFINE n == applyPatch(c, section, patch)
             d == UpdateSection(c, section, patch).config
  <1>1. \A k \in Keys : n[k] = IF k \in DOMAIN patch \cap KeysOf(section) /\ InRange(k, patch[k]) THEN patch[k] ELSE c[k]
    BY DEF applyPatch
  <1>2. \A k \in PortKeys : InRange(k, n[k])
    BY <1>1, PortsAreKeys
  <1>3. d = IF section \in Sections /\ (section = "network" => validateNetwork(n)) THEN n ELSE c
    BY DEF UpdateSection
  <1> HIDE DEF d
  <1>4. section # "network" => \A k \in PortKeys : n[k] = c[k]
    <2> SUFFICES ASSUME section # "network" PROVE \A k \in PortKeys : n[k] = c[k]
      OBVIOUS
    <2>1. \A k \in PortKeys : k \notin KeysOf(section)
      BY DEF PortKeys, KeysOf, GeneralKeys, KillSwitchKeys, SubscriptionKeys, NotificationKeys, DebugKeys
    <2> QED BY <1>1, <2>1, PortsAreKeys
  <1>5. section # "network" => validateNetwork(n)
    BY <1>4 DEF validateNetwork, PortKeys
  <1> HIDE DEF n
  <1>6. (\A k \in PortKeys : InRange(k, d[k])) /\ validateNetwork(d)
    BY <1>2, <1>3, <1>5
  <1> QED BY <1>6 DEF d

\* A behaviour begins within the types.
LEMMA TypesInit == ASSUME Init PROVE RulesTyped /\ SettingsTyped /\ SavedPorts /\ ControlTyped
  <1>1. PICK s \in Scenarios :
          /\ cfgFile = s.config
          /\ rs = IF s.fresh THEN FreshRules ELSE LoadedRules(s.rules)
          /\ st = IF s.fresh THEN FreshSettings ELSE LoadedSettings(s.config)
    BY DEF Init
  <1>2. (\A k \in PortKeys : InRange(k, s.config[k])) /\ validateNetwork(s.config)
    BY FilesAssumption, Zenon
  <1>3. FreshRules.echoes = 0 /\ FreshRules.reading = "no"
    BY DEF FreshRules
  <1>4. LoadedRules(s.rules).echoes = 0 /\ LoadedRules(s.rules).reading = "no"
    BY DEF LoadedRules, FreshRules
  <1>5. RulesTyped
    BY <1>1, <1>3, <1>4 DEF Init, RulesTyped
  <1>6. DOMAIN FreshSettings = StFields /\ FreshSettings.inFlight = 0 /\ FreshSettings.cur = defaults
    BY DEF FreshSettings, StFields
  <1>7. DOMAIN defaults = Keys
    BY DEF defaults
  <1>8. DOMAIN LoadedSettings(s.config) = StFields /\ LoadedSettings(s.config).inFlight = 0
        /\ DOMAIN LoadedSettings(s.config).cur = Keys
    <2> DEFINE o == Overlay(FreshSettings.cur, backendToFrontend(toView(s.config)))
               n == [FreshSettings EXCEPT !.cur = o, !.started = TRUE]
    <2>1. LoadedSettings(s.config) = n
      BY DEF LoadedSettings
    <2>2. DOMAIN o = Keys
      BY OverlayKeys
    <2> HIDE DEF o
    <2>3. DOMAIN n = StFields /\ n.inFlight = 0 /\ n.cur = o
      BY <1>6 DEF StFields
    <2> QED BY <2>1, <2>2, <2>3
  <1>9. SettingsTyped
    BY <1>1, <1>6, <1>7, <1>8 DEF SettingsTyped
  <1>10. ControlTyped
    <2>1. IsSeq(snap) /\ Len(snap) <= 1
      BY NoSeq DEF Init
    <2>2. "state" \in DOMAIN ctl /\ ctl.state = "idle"
      BY DEF Init
    <2> QED BY <2>1, <2>2 DEF ControlTyped
  <1> QED BY <1>1, <1>2, <1>5, <1>9, <1>10 DEF SavedPorts

\* The counters count down only what they have counted up.
LEMMA RulesTypedStep == ASSUME RulesTyped, SafeInv, [Next]_vars PROVE RulesTyped'
  <1> USE DEF RulesTyped
  <1>0. DOMAIN rs = RsFields
    BY DEF SafeInv, Guarded
  <1>1. CASE \E i \in Takable(reqs) : HandleRules(i)
    <2>1. rs' = rs /\ (rulesEvents' = rulesEvents \/ rulesEvents' = rulesEvents + 1)
      BY <1>1 DEF HandleRules, ui
    <2> QED BY <2>1
  <1>2. CASE \E i \in Takable(answers) : MutationAnswered(i)
    <2>1. PICK i : MutationAnswered(i)
      BY <1>2
    <2> DEFINE a    == answers[i]
               go   == IF a.lead THEN waiters ELSE <<>>
               low  == [rs EXCEPT !.lead = @ /\ ~a.lead]
               done == Mutated(low, a.ok)
               base == IF go = <<>> THEN done ELSE captureRevertBaseline(done)
    <2>2. rs' = Reverted(base, a) /\ rulesEvents' = rulesEvents
      BY <2>1 DEF MutationAnswered, events
    <2>3. DOMAIN low = RsFields /\ low.echoes = rs.echoes /\ low.reading = rs.reading
      BY <1>0 DEF RsFields
    <2> HIDE DEF low, go
    <2>4. DOMAIN done = RsFields /\ done.echoes \in Nat /\ done.reading \in {"no", "quiet", "push"}
      BY <2>3 DEF Mutated, refetch, RsFields
    <2> HIDE DEF done
    <2>5. DOMAIN base = RsFields /\ base.echoes \in Nat /\ base.reading \in {"no", "quiet", "push"}
      BY <2>4 DEF captureRevertBaseline, RsFields
    <2> HIDE DEF base
    <2>6. rs'.echoes \in Nat /\ rs'.reading \in {"no", "quiet", "push"}
      BY <2>2, <2>5 DEF Reverted, RsFields
    <2> QED BY <2>2, <2>6
  <1>3. CASE \E i \in Takable(answers) : Refetched(i)
    <2>1. PICK i : Refetched(i)
      BY <1>3
    <2> DEFINE a    == answers[i]
               next == IF a.ok THEN [rs EXCEPT !.view = a.view, !.boot = TRUE, !.reading = "no"]
                       ELSE [rs EXCEPT !.reading = "no"]
               s    == <<next.view>>
    <2>2. (rs' = next \/ rs' = [next EXCEPT !.sig = s]) /\ rulesEvents' = rulesEvents
      BY <2>1 DEF Refetched, events
    <2> HIDE DEF s
    <2>3. DOMAIN next = RsFields /\ next.echoes = rs.echoes /\ next.reading = "no"
      BY <1>0 DEF RsFields
    <2> HIDE DEF next
    <2> QED BY <2>2, <2>3 DEF RsFields
  <1>4. CASE RulesChanged
    <2>1. rulesEvents > 0 /\ rulesEvents' = rulesEvents - 1
          /\ ((rs.echoes > 0 /\ rs' = [rs EXCEPT !.echoes = @ - 1]) \/ rs' = refetch(rs, FALSE))
      BY <1>4 DEF RulesChanged
    <2> QED BY <1>0, <2>1 DEF refetch, RsFields
  <1>5. CASE ensureBoot
    <2>1. rs' = refetch([rs EXCEPT !.sub = TRUE], TRUE) /\ rulesEvents' = rulesEvents
      BY <1>5 DEF ensureBoot, events
    <2> QED BY <1>0, <2>1 DEF refetch, RsFields
  <1>6. CASE StatusEvent
    <2>1. (rs' = rs \/ rs' = [rs EXCEPT !.base = <<>>]) /\ rulesEvents' = rulesEvents
      BY <1>6 DEF StatusEvent, clearRulesRevertBaseline
    <2> QED BY <1>0, <2>1 DEF RsFields
  <1>7. CASE EditRules \/ Dismiss
    <2>1. rulesEvents' = rulesEvents /\ (rs' = rs \/ \E op : applyMutation(op))
      BY <1>7 DEF EditRules, Dismiss, events
    <2>2. rs' = rs \/ rs' = [captureRevertBaseline(rs) EXCEPT !.lead = TRUE]
      BY <2>1 DEF applyMutation
    <2>3. DOMAIN captureRevertBaseline(rs) = RsFields /\ captureRevertBaseline(rs).echoes = rs.echoes
          /\ captureRevertBaseline(rs).reading = rs.reading
      BY <1>0 DEF captureRevertBaseline, RsFields
    <2> QED BY <2>1, <2>2, <2>3 DEF RsFields
  <1>8. CASE UNCHANGED <<rs, rulesEvents>>
    BY <1>8
  <1>9. CASE \E i \in Takable(reqs) : HandleList(i) \/ HandleUpdate(i) \/ HandleGet(i)
    BY <1>8, <1>9 DEF HandleList, HandleUpdate, HandleGet, ui, events
  <1>10. CASE \E i \in Takable(answers) : UpdateAnswered(i) \/ GetAnswered(i)
    BY <1>8, <1>10 DEF UpdateAnswered, GetAnswered, events
  <1>11. CASE loadFromBackend \/ flushSettings \/ PickMode \/ ReadNetwork \/ buildConfigs \/ rulesExportGroup
    BY <1>8, <1>11 DEF loadFromBackend, flushSettings, PickMode, ReadNetwork, buildConfigs, rulesExportGroup, ui, events
  <1>12. CASE Connect \/ Disconnect \/ Reconnect \/ \E k \in EditKeys : \E v \in Inputs(k) : EditSetting(k, v)
    BY <1>8, <1>12 DEF Connect, Disconnect, Reconnect, EditSetting, ui, events
  <1>13. CASE UNCHANGED vars
    BY <1>8, <1>13 DEF vars, ui, events
  <1> QED BY <1>1, <1>2, <1>3, <1>4, <1>5, <1>6, <1>7, <1>9, <1>10, <1>11, <1>12, <1>13 DEF Next, Bridge, Interface, User

\* A flush that ends was counted when it began.
LEMMA SettingsTypedStep == ASSUME SettingsTyped, SwitchInv, [Next]_vars PROVE SettingsTyped'
  <1> USE DEF SettingsTyped
  <1>0. DOMAIN st = StFields
    BY DEF SwitchInv
  <1> USE <1>0
  <1>1. CASE loadFromBackend
    <2>1. st' = [st EXCEPT !.started = TRUE]
      BY <1>1 DEF loadFromBackend
    <2> QED BY <2>1 DEF StFields
  <1>2. CASE \E k \in EditKeys : \E v \in Inputs(k) : EditSetting(k, v)
    <2>1. \E p, q : st' = [st EXCEPT !.cur = Overlay(st.cur, p), !.pend = q]
      <3>0. PICK k \in EditKeys : \E v \in Inputs(k) : EditSetting(k, v)
        BY <1>2
      <3>1. PICK v \in Inputs(k) : EditSetting(k, v)
        BY <3>0
      <3> DEFINE p == [x \in {k} |-> v]
                 q == [x \in DOMAIN st.pend \cup {k} |-> IF x = k THEN v ELSE st.pend[x]]
      <3>2. st' = [st EXCEPT !.cur = Overlay(st.cur, p), !.pend = q]
        BY <3>1 DEF EditSetting
      <3> QED BY <3>2
    <2>2. PICK p, q : st' = [st EXCEPT !.cur = Overlay(st.cur, p), !.pend = q]
      BY <2>1
    <2> DEFINE o == Overlay(st.cur, p)
    <2>3. DOMAIN o = Keys /\ st' = [st EXCEPT !.cur = o, !.pend = q]
      BY <2>2, OverlayKeys
    <2> HIDE DEF o
    <2> QED BY <2>3 DEF StFields
  <1>3. CASE flushSettings
    <2> DEFINE n == st.flushed + 1
               w == Append(st.open, Len(SetToSeq(frontendToBackend(st.pend))))
    <2>1. st' = [st EXCEPT !.pend = NoPatch, !.inFlight = @ + 1, !.flushed = n, !.open = w]
      BY <1>3 DEF flushSettings
    <2> HIDE DEF n, w
    <2> QED BY <2>1 DEF StFields
  <1>4. CASE \E i \in Takable(answers) : UpdateAnswered(i)
    <2>1. PICK i : UpdateAnswered(i)
      BY <1>4
    <2> DEFINE n == answers[i].flush
               c == [st EXCEPT !.open[n] = @ - 1]
               e == FlushEnded(c)
    <2>2. st' \in {st, c, e}
      BY <2>1 DEF UpdateAnswered
    <2>3. DOMAIN c = StFields /\ c.inFlight = st.inFlight /\ c.cur = st.cur
      BY DEF StFields
    <2> HIDE DEF c
    <2>4. DOMAIN e = StFields /\ e.inFlight \in Nat /\ e.cur = st.cur
      BY <2>3 DEF FlushEnded, StFields
    <2> QED BY <2>2, <2>3, <2>4
  <1>5. CASE \E i \in Takable(answers) : GetAnswered(i)
    <2>1. \E c : st' = [st EXCEPT !.cur = Overlay(c, st.pend)] \/ st' = [st EXCEPT !.started = FALSE] \/ st' = st
      BY <1>5 DEF GetAnswered
    <2>2. PICK c : st' = [st EXCEPT !.cur = Overlay(c, st.pend)] \/ st' = [st EXCEPT !.started = FALSE] \/ st' = st
      BY <2>1
    <2> DEFINE o == Overlay(c, st.pend)
    <2>3. DOMAIN o = Keys
      BY OverlayKeys
    <2>4. st' = [st EXCEPT !.cur = o] \/ st' = [st EXCEPT !.started = FALSE] \/ st' = st
      BY <2>2
    <2> HIDE DEF o
    <2>5. CASE st' = [st EXCEPT !.cur = o]
      BY <2>3, <2>5 DEF StFields
    <2>6. CASE st' = [st EXCEPT !.started = FALSE]
      BY <2>6 DEF StFields
    <2> QED BY <2>4, <2>5, <2>6
  <1>6. CASE st' = st
    BY <1>6
  <1>7. CASE \E i \in Takable(reqs) : HandleRules(i) \/ HandleList(i) \/ HandleUpdate(i) \/ HandleGet(i)
    BY <1>6, <1>7 DEF HandleRules, HandleList, HandleUpdate, HandleGet, ui
  <1>8. CASE \E i \in Takable(answers) : MutationAnswered(i) \/ Refetched(i)
    BY <1>6, <1>8 DEF MutationAnswered, Refetched
  <1>9. CASE RulesChanged \/ StatusEvent \/ ensureBoot \/ EditRules \/ rulesExportGroup \/ Dismiss
    BY <1>6, <1>9 DEF RulesChanged, StatusEvent, ensureBoot, EditRules, rulesExportGroup, Dismiss
  <1>10. CASE Reconnect \/ Connect \/ Disconnect \/ PickMode \/ ReadNetwork \/ buildConfigs \/ UNCHANGED vars
    BY <1>6, <1>10 DEF Reconnect, Connect, Disconnect, PickMode, ReadNetwork, buildConfigs, vars, ui
  <1> QED BY <1>1, <1>2, <1>3, <1>4, <1>5, <1>7, <1>8, <1>9, <1>10 DEF Next, Bridge, Interface, User

\* Only HandleUpdate writes config.json.
LEMMA SavedPortsStep == ASSUME SavedPorts, [Next]_vars PROVE SavedPorts'
  <1>1. CASE \E i \in Takable(reqs) : HandleUpdate(i)
    <2>1. PICK i : HandleUpdate(i)
      BY <1>1
    <2> DEFINE d == UpdateSection(cfgFile, reqs[i].section, reqs[i].patch).config
    <2>2. cfgFile' = cfgFile \/ cfgFile' = d
      BY <2>1 DEF HandleUpdate
    <2>3. (\A k \in PortKeys : InRange(k, d[k])) /\ validateNetwork(d)
      BY UpdateKeepsPorts DEF SavedPorts
    <2> HIDE DEF d
    <2> QED BY <2>2, <2>3 DEF SavedPorts
  <1>2. CASE cfgFile' = cfgFile
    BY <1>2 DEF SavedPorts
  <1>3. CASE \E i \in Takable(reqs) : HandleRules(i) \/ HandleList(i) \/ HandleGet(i)
    BY <1>2, <1>3 DEF HandleRules, HandleList, HandleGet, files
  <1>4. CASE \E i \in Takable(answers) : MutationAnswered(i) \/ Refetched(i) \/ UpdateAnswered(i) \/ GetAnswered(i)
    BY <1>2, <1>4 DEF MutationAnswered, Refetched, UpdateAnswered, GetAnswered, files
  <1>5. CASE RulesChanged \/ StatusEvent \/ ensureBoot \/ loadFromBackend \/ flushSettings \/ ReadNetwork \/ buildConfigs
    BY <1>2, <1>5 DEF RulesChanged, StatusEvent, ensureBoot, loadFromBackend, flushSettings, ReadNetwork, buildConfigs, files
  <1>6. CASE EditRules \/ rulesExportGroup \/ Dismiss \/ Reconnect \/ Connect \/ Disconnect \/ PickMode
    BY <1>2, <1>6 DEF EditRules, rulesExportGroup, Dismiss, Reconnect, Connect, Disconnect, PickMode, files
  <1>7. CASE UNCHANGED vars \/ \E k \in EditKeys : \E v \in Inputs(k) : EditSetting(k, v)
    BY <1>2, <1>7 DEF EditSetting, vars, files
  <1> QED BY <1>1, <1>3, <1>4, <1>5, <1>6, <1>7 DEF Next, Bridge, Interface, User

\* The controller is in one of its states; there is one snapshot or none.
LEMMA ControlTypedStep == ASSUME ControlTyped, [Next]_vars PROVE ControlTyped'
  <1> USE DEF ControlTyped
  <1>1. CASE Connect \/ Disconnect \/ Reconnect \/ ReadNetwork
    <2>1. \E s \in {"idle", "reading", "building"} : \E x : ctl' = [ctl EXCEPT !.state = s]
             \/ ctl' = [ctl EXCEPT !.state = s, !.mode = x] \/ ctl' = [ctl EXCEPT !.state = s, !.net = x]
      BY <1>1 DEF Connect, Disconnect, Reconnect, ReadNetwork
    <2>2. snap' = snap
      BY <1>1 DEF Connect, Disconnect, Reconnect, ReadNetwork, ui
    <2> QED BY <2>1, <2>2
  <1>2. CASE buildConfigs
    <2>1. \E m, d, in : ctl' = [ctl EXCEPT !.state = "connected", !.rules = m, !.doc = d, !.in = in]
             \/ ctl' = [ctl EXCEPT !.state = "idle"]
      BY <1>2 DEF buildConfigs
    <2>2. snap' = snap
      BY <1>2 DEF buildConfigs, ui
    <2> QED BY <2>1, <2>2
  <1>3. CASE StatusEvent \/ \E i \in Takable(answers) : Refetched(i)
    <2>1. ctl' = ctl /\ (snap' = snap \/ snap' = <<>> \/ \E e : snap' = <<e>>)
      BY <1>3 DEF StatusEvent, Snapshot, Refetched, setCurrentRulesSignature
    <2>2. ASSUME NEW e PROVE IsSeq(<<e>>) /\ Len(<<e>>) <= 1
      BY SingleSeq
    <2>3. IsSeq(<<>>) /\ Len(<<>>) <= 1
      BY NoSeq
    <2>4. IsSeq(snap') /\ Len(snap') <= 1
      BY <2>1, <2>2, <2>3
    <2> QED BY <2>1, <2>4
  <1>4. CASE UNCHANGED <<ctl, snap>>
    BY <1>4
  <1>5. CASE \E i \in Takable(reqs) : HandleRules(i) \/ HandleList(i) \/ HandleUpdate(i) \/ HandleGet(i)
    BY <1>4, <1>5 DEF HandleRules, HandleList, HandleUpdate, HandleGet, ui
  <1>6. CASE \E i \in Takable(answers) : MutationAnswered(i) \/ UpdateAnswered(i) \/ GetAnswered(i)
    BY <1>4, <1>6 DEF MutationAnswered, UpdateAnswered, GetAnswered
  <1>7. CASE RulesChanged \/ ensureBoot \/ loadFromBackend \/ flushSettings \/ PickMode
    BY <1>4, <1>7 DEF RulesChanged, ensureBoot, loadFromBackend, flushSettings, PickMode, ui
  <1>8. CASE EditRules \/ rulesExportGroup \/ Dismiss \/ UNCHANGED vars \/ \E k \in EditKeys : \E v \in Inputs(k) : EditSetting(k, v)
    BY <1>4, <1>8 DEF EditRules, rulesExportGroup, Dismiss, EditSetting, vars, ui
  <1> QED BY <1>1, <1>2, <1>3, <1>5, <1>6, <1>7, <1>8 DEF Next, Bridge, Interface, User

\* The state stays within its types; that the saved ports do rests on the merge of a
\* patch, which takes a port only when it is in range (applyPatch).
THEOREM TypeHolds == Spec => []TypeOK
  <1>1. SafeInv /\ RulesTyped /\ SettingsTyped /\ SavedPorts /\ ControlTyped => TypeOK
    <2> SUFFICES ASSUME SafeInv, RulesTyped, SettingsTyped, SavedPorts, ControlTyped PROVE TypeOK
      OBVIOUS
    <2>1. \A k \in PortKeys : cfgFile[k] \in 1..MaxPort
      BY DEF SavedPorts, InRange
    <2>2. minted \in 0..Len(NewIds) /\ Len(rs.base) <= 1
      BY DEF SafeInv, Guarded
    <2> QED BY <2>1, <2>2 DEF RulesTyped, SettingsTyped, ControlTyped, TypeOK
  <1> QED BY <1>1, SafeInit, SafeStep, SwitchInit, SwitchStep, TypesInit, RulesTypedStep, SettingsTypedStep, SavedPortsStep, ControlTypedStep,
             PTL DEF Spec

\* Two ports in range that differ are both listened on, in every mode.
LEMMA PortsServe == ASSUME SavedPorts PROVE ProxiesServed
  <1> SUFFICES ASSUME NEW mode, NEW m, NEW g
               PROVE  {<<"socks", cfgFile["socksPort"]>>, <<"http", cfgFile["httpPort"]>>}
                        \subseteq buildInbounds(SingboxInput(mode, cfgFile, m, g))
    BY DEF ProxiesServed
  <1> DEFINE in == SingboxInput(mode, cfgFile, m, g)
             s  == cfgFile["socksPort"]
             h  == cfgFile["httpPort"]
  <1>0. InRange("socksPort", s) /\ InRange("httpPort", h) /\ s # h
    BY DEF SavedPorts, PortKeys, validateNetwork
  <1>1. s > 0 /\ h > 0 /\ h # s
    BY <1>0 DEF InRange, PortKeys
  <1>2. in.socks = s /\ in.http = h
    BY DEF SingboxInput
  <1> HIDE DEF in, s, h
  <1>3. {<<"socks", s>>, <<"http", h>>} \subseteq localProxyInbounds(s, h)
    BY <1>1 DEF localProxyInbounds
  <1>4. localProxyInbounds(s, h) \subseteq buildInbounds(in)
    BY <1>1, <1>2 DEF buildInbounds
  <1> QED BY <1>3, <1>4 DEF in, s, h

\* A config.json that was saved serves both local proxies, on two ports, for any
\* rules and in every mode, although a patch may hold one port only and the other
\* stays as it was (validateNetwork, buildInbounds).
THEOREM ProxiesHold == Spec => []ProxiesServed
  <1> QED BY PortsServe, TypesInit, SavedPortsStep, PTL DEF Spec

---------------------------------------------------------------------------
(* The document routes as the rules say                                    *)

\* What compileRule makes of them, and what else the document holds.
CompiledType == [dns : {FALSE}, conds : SUBSET (Classes \cup {Malformed} \cup Tags), out : Actions]
RouteType    == [dns : BOOLEAN, conds : SUBSET (Classes \cup {Malformed} \cup Tags),
                 out : Actions \cup {"sniff", "hijack-dns"}]

\* compileRule keeps the action of a valid rule.
LEMMA CompiledRule ==
  ASSUME NEW r \in GoodRule
  PROVE  compileRule(r) \in CompiledType /\ compileRule(r).out = r.action
  <1>1. r.conds \subseteq GeoEntries \cup Classes \cup {Malformed} /\ r.action \in Actions
    BY DEF GoodRule, RuleText, Validate, ValidAction
  <1>2. \A g \in GeoEntries : TagOf[g] \in Tags
    BY DEF Tags
  <1>3. (r.conds \ GeoEntries) \cup {TagOf[g] : g \in r.conds \cap GeoEntries}
          \in SUBSET (Classes \cup {Malformed} \cup Tags)
    BY <1>1, <1>2
  <1> QED BY <1>1, <1>3 DEF compileRule, RouteRule, CompiledType

\* A compiled rule matches the flows that the rule applies to: a geo entry stands
\* for the one tag it was converted to.
LEMMA CompiledMatches ==
  ASSUME NEW r \in GoodRule, NEW f \in Flows
  PROVE  Matches(compileRule(r), f) <=> Applies(r, f)
  <1> DEFINE c == (r.conds \ GeoEntries) \cup {TagOf[g] : g \in r.conds \cap GeoEntries}
  <1>1. r.conds \subseteq GeoEntries \cup Classes \cup {Malformed} /\ r.action \in Actions /\ r.conds # {}
    BY DEF GoodRule, RuleText, Validate, ValidAction, IsEmpty
  <1>2. f.dst \in Classes /\ f.tags \subseteq Tags
    BY DEF Flows
  <1>3. /\ GeoEntries \cap (Classes \cup {Malformed}) = {}
        /\ Tags \cap (Classes \cup {Malformed}) = {}
    BY RulesAssumption, TagAssumption
  <1>4. compileRule(r).conds = c /\ compileRule(r).dns = FALSE /\ compileRule(r).out = r.action
    BY DEF compileRule, RouteRule
  <1>5. r.action # "sniff"
    BY <1>1 DEF Actions
  <1>6. c # {}
    <2>1. PICK x \in r.conds : TRUE
      BY <1>1
    <2>2. x \notin GeoEntries => x \in c
      OBVIOUS
    <2>3. x \in GeoEntries => TagOf[x] \in c
      OBVIOUS
    <2> QED BY <2>2, <2>3
  <1>7. f.dst \in c <=> f.dst \in r.conds
    <2>1. f.dst \notin GeoEntries /\ \A g \in GeoEntries : f.dst # TagOf[g]
      BY <1>2, <1>3 DEF Tags
    <2> QED BY <2>1
  <1>8. f.tags \cap c # {} <=> \E g \in r.conds : g \in GeoEntries /\ TagOf[g] \in f.tags
    <2>1. ASSUME NEW t \in f.tags \cap c PROVE \E g \in r.conds : g \in GeoEntries /\ TagOf[g] \in f.tags
      <3>1. t \notin r.conds \ GeoEntries
        BY <1>1, <1>2, <1>3
      <3> QED BY <2>1, <3>1
    <2>2. ASSUME NEW g \in r.conds, g \in GeoEntries, TagOf[g] \in f.tags PROVE TagOf[g] \in f.tags \cap c
      BY <2>2
    <2> QED BY <2>1, <2>2
  <1> HIDE DEF c
  <1> QED BY <1>4, <1>5, <1>6, <1>7, <1>8 DEF Matches, Applies

\* compileGroup after each rule.
GroupTurns(g, out) ==
  /\ out[0] = <<>>
  /\ \A k \in 1..Len(g.rules) :
       out[k] = IF g.rules[k].enabled THEN Append(out[k - 1], compileRule(g.rules[k])) ELSE out[k - 1]

\* compileGroup is what its loop builds.
LEMMA GroupLoop ==
  ASSUME NEW g \in GoodGroup
  PROVE  \E out \in [0..Len(g.rules) -> Seq(CompiledType)] :
           GroupTurns(g, out) /\ compileGroup(g) = out[Len(g.rules)]
  <1> DEFINE n == Len(g.rules)
             V == Seq(CompiledType)
             S == [k \in 1..n |-> [s \in V |-> IF g.rules[k].enabled THEN Append(s, compileRule(g.rules[k])) ELSE s]]
             Is(f) == f = [k \in 0..n |-> IF k = 0 THEN <<>>
                                          ELSE IF g.rules[k].enabled THEN Append(f[k - 1], compileRule(g.rules[k]))
                                          ELSE f[k - 1]]
             F == CHOOSE f : Is(f)
  <1>1. n \in Nat /\ \A k \in 1..n : g.rules[k] \in GoodRule
    BY DEF GoodGroup
  <1>2. compileGroup(g) = F[n]
    BY Zenon DEF compileGroup
  <1>3. Turns(n, V, S)
    BY <1>1, CompiledRule DEF Turns
  <1> DEFINE v == <<>>
  <1>4. v \in V
    OBVIOUS
  <1> HIDE DEF n, V, v
  <1>5. \A k \in 1..n : \A s \in V :
          S[k][s] = IF g.rules[k].enabled THEN Append(s, compileRule(g.rules[k])) ELSE s
    OBVIOUS
  <1> HIDE DEF S
  <1>6. PICK h \in [0..n -> V] : h[0] = <<>> /\ \A k \in 1..n : h[k] = S[k][h[k - 1]]
    <2>1. \E h \in [0..n -> V] : Course(n, S, v, h)
      BY <1>1, <1>3, <1>4, Iterated, Zenon
    <2> QED BY <2>1, Zenon DEF v, Course
  <1>7. \A k \in 1..n : k - 1 \in 0..n /\ h[k - 1] \in V
    BY <1>1, <1>6
  <1>8. \A k \in 1..n : h[k] = IF g.rules[k].enabled THEN Append(h[k - 1], compileRule(g.rules[k])) ELSE h[k - 1]
    BY <1>5, <1>6, <1>7
  <1>9. Is(h)
    <2> DEFINE e == [k \in 0..n |-> IF k = 0 THEN <<>>
                                    ELSE IF g.rules[k].enabled THEN Append(h[k - 1], compileRule(g.rules[k]))
                                    ELSE h[k - 1]]
    <2>1. \A k \in 0..n : k # 0 => k \in 1..n
      BY <1>1
    <2>2. \A k \in 0..n : h[k] = e[k]
      BY <1>6, <1>8, <2>1
    <2>3. DOMAIN h = 0..n /\ DOMAIN e = 0..n /\ h = [k \in 0..n |-> h[k]] /\ e = [k \in 0..n |-> e[k]]
      BY <1>6
    <2> HIDE DEF e
    <2>4. h = e
      BY <2>2, <2>3
    <2> QED BY <2>4 DEF e
  <1>10. Is(F)
    BY <1>9, Zenon
  <1> HIDE DEF F
  <1>11. \A k \in 0..n : F[k] = IF k = 0 THEN <<>>
                                ELSE IF g.rules[k].enabled THEN Append(F[k - 1], compileRule(g.rules[k]))
                                ELSE F[k - 1]
    BY <1>10, Zenon
  <1> HIDE DEF Is
  <1> DEFINE T == {k \in 0..n : F[k] = h[k]}
  <1>12. 0 \in T
    BY <1>1, <1>6, <1>11
  <1>13. ASSUME NEW k \in 0..(n - 1), k \in T PROVE k + 1 \in T
    <2>1. k + 1 \in 1..n /\ k + 1 \in 0..n /\ k + 1 # 0 /\ (k + 1) - 1 = k /\ F[k] = h[k]
      BY <1>1, <1>13
    <2> QED BY <1>8, <1>11, <2>1
  <1> HIDE DEF T
  <1>14. n \in T
    <2>1. \A k \in 0..(n - 1) : k \in T => k + 1 \in T
      BY <1>13
    <2>2. \A k \in 0..n : k \in T
      BY <1>1, <1>12, <2>1, Climb, Zenon
    <2> QED BY <1>1, <2>2
  <1>15. compileGroup(g) = h[n]
    BY <1>2, <1>14 DEF T
  <1>16. GroupTurns(g, h)
    BY <1>6, <1>8 DEF GroupTurns, n
  <1> QED BY <1>6, <1>15, <1>16 DEF n, V

\* Every rule of a compiled group is a compiled rule.
LEMMA CompiledGroup == ASSUME NEW g \in GoodGroup PROVE compileGroup(g) \in Seq(CompiledType)
  <1>1. PICK out \in [0..Len(g.rules) -> Seq(CompiledType)] : compileGroup(g) = out[Len(g.rules)]
    BY GroupLoop
  <1>2. Len(g.rules) \in Nat
    BY DEF GoodGroup
  <1> QED BY <1>1, <1>2

\* Compile after each group.
ModelTurns(m, out) ==
  /\ out[0] = <<>>
  /\ \A k \in 1..Len(m.groups) :
       out[k] = IF m.groups[k].enabled THEN out[k - 1] \o compileGroup(m.groups[k]) ELSE out[k - 1]

\* Compile is what its loop builds.
LEMMA ModelLoop ==
  ASSUME NEW m \in GoodModel
  PROVE  \E out \in [0..Len(m.groups) -> Seq(CompiledType)] :
           ModelTurns(m, out) /\ Compile(m) = out[Len(m.groups)]
  <1> DEFINE n == Len(m.groups)
             V == Seq(CompiledType)
             S == [k \in 1..n |-> [s \in V |-> IF m.groups[k].enabled THEN s \o compileGroup(m.groups[k]) ELSE s]]
             Is(f) == f = [k \in 0..n |-> IF k = 0 THEN <<>>
                                          ELSE IF m.groups[k].enabled THEN f[k - 1] \o compileGroup(m.groups[k])
                                          ELSE f[k - 1]]
             F == CHOOSE f : Is(f)
  <1>1. n \in Nat /\ \A k \in 1..n : m.groups[k] \in GoodGroup
    BY DEF GoodModel
  <1>2. Compile(m) = F[n]
    BY Zenon DEF Compile
  <1>3. Turns(n, V, S)
    BY <1>1, CompiledGroup DEF Turns
  <1> DEFINE v == <<>>
  <1>4. v \in V
    OBVIOUS
  <1> HIDE DEF n, V, v
  <1>5. \A k \in 1..n : \A s \in V :
          S[k][s] = IF m.groups[k].enabled THEN s \o compileGroup(m.groups[k]) ELSE s
    OBVIOUS
  <1> HIDE DEF S
  <1>6. PICK h \in [0..n -> V] : h[0] = <<>> /\ \A k \in 1..n : h[k] = S[k][h[k - 1]]
    <2>1. \E h \in [0..n -> V] : Course(n, S, v, h)
      BY <1>1, <1>3, <1>4, Iterated, Zenon
    <2> QED BY <2>1, Zenon DEF v, Course
  <1>7. \A k \in 1..n : k - 1 \in 0..n /\ h[k - 1] \in V
    BY <1>1, <1>6
  <1>8. \A k \in 1..n : h[k] = IF m.groups[k].enabled THEN h[k - 1] \o compileGroup(m.groups[k]) ELSE h[k - 1]
    BY <1>5, <1>6, <1>7
  <1>9. Is(h)
    <2> DEFINE e == [k \in 0..n |-> IF k = 0 THEN <<>>
                                    ELSE IF m.groups[k].enabled THEN h[k - 1] \o compileGroup(m.groups[k])
                                    ELSE h[k - 1]]
    <2>1. \A k \in 0..n : k # 0 => k \in 1..n
      BY <1>1
    <2>2. \A k \in 0..n : h[k] = e[k]
      BY <1>6, <1>8, <2>1
    <2>3. DOMAIN h = 0..n /\ DOMAIN e = 0..n /\ h = [k \in 0..n |-> h[k]] /\ e = [k \in 0..n |-> e[k]]
      BY <1>6
    <2> HIDE DEF e
    <2>4. h = e
      BY <2>2, <2>3
    <2> QED BY <2>4 DEF e
  <1>10. Is(F)
    BY <1>9, Zenon
  <1> HIDE DEF F
  <1>11. \A k \in 0..n : F[k] = IF k = 0 THEN <<>>
                                ELSE IF m.groups[k].enabled THEN F[k - 1] \o compileGroup(m.groups[k])
                                ELSE F[k - 1]
    BY <1>10, Zenon
  <1> HIDE DEF Is
  <1> DEFINE T == {k \in 0..n : F[k] = h[k]}
  <1>12. 0 \in T
    BY <1>1, <1>6, <1>11
  <1>13. ASSUME NEW k \in 0..(n - 1), k \in T PROVE k + 1 \in T
    <2>1. k + 1 \in 1..n /\ k + 1 \in 0..n /\ k + 1 # 0 /\ (k + 1) - 1 = k /\ F[k] = h[k]
      BY <1>1, <1>13
    <2> QED BY <1>8, <1>11, <2>1
  <1> HIDE DEF T
  <1>14. n \in T
    <2>1. \A k \in 0..(n - 1) : k \in T => k + 1 \in T
      BY <1>13
    <2>2. \A k \in 0..n : k \in T
      BY <1>1, <1>12, <2>1, Climb, Zenon
    <2> QED BY <1>1, <2>2
  <1>15. Compile(m) = h[n]
    BY <1>2, <1>14 DEF T
  <1>16. ModelTurns(m, h)
    BY <1>6, <1>8 DEF ModelTurns, n
  <1> QED BY <1>6, <1>15, <1>16 DEF n, V

\* No rule of R takes the flow; the first one that takes it sends it to a.
Passes(R, f)   == \A i \in 1..Len(R) : ~Matches(R[i], f)
Takes(R, f, a) ==
  \E i \in 1..Len(R) : Matches(R[i], f) /\ R[i].out = a /\ \A j \in 1..(i - 1) : ~Matches(R[j], f)

\* A compiled rule is a route rule.
LEMMA InRouteType == CompiledType \subseteq RouteType
  BY DEF CompiledType, RouteType

\* Two parts, one behind the other.
LEMMA Behind ==
  ASSUME NEW X, NEW R \in Seq(X), NEW S \in Seq(X), NEW f
  PROVE  /\ Passes(R, f) /\ Passes(S, f) => Passes(R \o S, f)
         /\ \A a : Takes(R, f, a) => Takes(R \o S, f, a)
         /\ \A a : Passes(R, f) /\ Takes(S, f, a) => Takes(R \o S, f, a)
  <1> DEFINE n == Len(R)
             k == Len(S)
             C == R \o S
  <1>1. n \in Nat /\ k \in Nat /\ Len(C) = n + k
    OBVIOUS
  <1>2. \A i \in 1..n : i \in 1..(n + k) /\ C[i] = R[i]
    OBVIOUS
  <1>3. \A i \in 1..k : n + i \in 1..(n + k) /\ C[n + i] = S[i]
    <2>1. \A j \in 1..(n + k) : ~(j <= n) => C[j] = S[j - n]
      OBVIOUS
    <2> HIDE DEF n, k, C
    <2>2. ASSUME NEW i \in 1..k PROVE n + i \in 1..(n + k) /\ C[n + i] = S[i]
      <3>1. n + i \in 1..(n + k) /\ ~(n + i <= n) /\ (n + i) - n = i
        BY <1>1
      <3> QED BY <2>1, <3>1
    <2> QED BY <2>2
  <1>4. \A i \in 1..(n + k) : i \in 1..n \/ (i - n \in 1..k /\ C[i] = S[i - n])
    <2>1. \A i \in 1..(n + k) : i \notin 1..n => i - n \in 1..k /\ n + (i - n) = i
      BY <1>1
    <2> HIDE DEF C, n, k
    <2> QED BY <1>3, <2>1
  <1>5. n = Len(R) /\ k = Len(S) /\ C = R \o S
    OBVIOUS
  <1> HIDE DEF n, k, C
  <1>6. Passes(R, f) /\ Passes(S, f) => Passes(C, f)
    BY <1>1, <1>2, <1>4, <1>5 DEF Passes
  <1>7. ASSUME NEW a, Takes(R, f, a) PROVE Takes(C, f, a)
    <2>1. PICK i \in 1..n : Matches(R[i], f) /\ R[i].out = a /\ \A j \in 1..(i - 1) : ~Matches(R[j], f)
      BY <1>5, <1>7 DEF Takes
    <2>2. i \in 1..(n + k) /\ C[i] = R[i]
      BY <1>2
    <2>3. \A j \in 1..(i - 1) : j \in 1..n
      BY <1>1
    <2>4. \A j \in 1..(i - 1) : ~Matches(C[j], f)
      BY <1>2, <2>1, <2>3
    <2>5. Matches(C[i], f) /\ C[i].out = a /\ i \in 1..Len(C)
      BY <1>1, <2>1, <2>2
    <2> QED BY <2>4, <2>5 DEF Takes
  <1>8. ASSUME NEW a, Passes(R, f), Takes(S, f, a) PROVE Takes(C, f, a)
    <2>1. PICK i \in 1..k : Matches(S[i], f) /\ S[i].out = a /\ \A j \in 1..(i - 1) : ~Matches(S[j], f)
      BY <1>5, <1>8 DEF Takes
    <2>2. n + i \in 1..(n + k) /\ C[n + i] = S[i]
      BY <1>3
    <2>3. \A j \in 1..((n + i) - 1) : j \in 1..(n + k) /\ (j \in 1..n \/ j - n \in 1..(i - 1))
      BY <1>1
    <2>4. \A j \in 1..n : ~Matches(C[j], f)
      BY <1>2, <1>5, <1>8 DEF Passes
    <2>5. \A j \in 1..((n + i) - 1) : ~Matches(C[j], f)
      BY <1>4, <2>1, <2>3, <2>4
    <2>6. Matches(C[n + i], f) /\ C[n + i].out = a /\ n + i \in 1..Len(C)
      BY <1>1, <2>1, <2>2
    <2> QED BY <2>5, <2>6 DEF Takes
  <1> QED BY <1>5, <1>6, <1>7, <1>8

\* A part of one rule.
LEMMA Alone ==
  ASSUME NEW r, NEW f
  PROVE  /\ ~Matches(r, f) => Passes(<<r>>, f)
         /\ Matches(r, f) => Takes(<<r>>, f, r.out)
  <1>1. Len(<<r>>) = 1 /\ <<r>>[1] = r /\ 1 \in 1..1 /\ 1..(1 - 1) = {} /\ 1..1 = {1}
    OBVIOUS
  <1> DEFINE R == <<r>>
  <1>2. R = <<r>> /\ Len(R) = 1 /\ R[1] = r
    BY <1>1
  <1> HIDE DEF R
  <1>3. (~Matches(r, f) => Passes(R, f)) /\ (Matches(r, f) => Takes(R, f, r.out))
    BY <1>1, <1>2 DEF Passes, Takes
  <1> QED BY <1>2, <1>3

\* A part of no rule.
LEMMA Empty == ASSUME NEW f PROVE Passes(<<>>, f)
  <1>1. Len(<<>>) = 0 /\ 1..0 = {}
    OBVIOUS
  <1> QED BY <1>1 DEF Passes

\* One rule more, at the end.
LEMMA Appended ==
  ASSUME NEW X, NEW R \in Seq(X), NEW r \in X, NEW f
  PROVE  /\ Passes(R, f) /\ ~Matches(r, f) => Passes(Append(R, r), f)
         /\ Passes(R, f) /\ Matches(r, f) => Takes(Append(R, r), f, r.out)
         /\ \A a : Takes(R, f, a) => Takes(Append(R, r), f, a)
  <1>1. Append(R, r) = R \o <<r>> /\ <<r>> \in Seq(X)
    OBVIOUS
  <1> DEFINE S == <<r>>
  <1>2. Append(R, r) = R \o S /\ S \in Seq(X)
    BY <1>1
  <1>3. (~Matches(r, f) => Passes(S, f)) /\ (Matches(r, f) => Takes(S, f, r.out))
    BY Alone
  <1> HIDE DEF S
  <1> QED BY <1>2, <1>3, Behind, Zenon

\* The verdict is that of the first rule that matches.
LEMMA VerdictIs ==
  ASSUME NEW doc, Len(doc.rules) \in Nat, NEW f
  PROVE  /\ Passes(doc.rules, f) => Verdict(doc, f) = doc.final
         /\ \A a : Takes(doc.rules, f, a) => Verdict(doc, f) = a
  <1> DEFINE R == doc.rules
             n == Len(R)
             I == {i \in 1..n : Matches(R[i], f)}
  <1>1. Verdict(doc, f) = LET i == IF I # {} THEN Min(I) ELSE 0 IN IF i = 0 THEN doc.final ELSE R[i].out
    BY DEF Verdict, SelectInSeq
  <1>2. n \in Nat /\ I \subseteq Nat
    OBVIOUS
  <1>3. I = {} => Verdict(doc, f) = doc.final
    BY <1>1
  <1>4. Passes(R, f) => I = {}
    BY DEF Passes
  <1>5. ASSUME NEW a, Takes(R, f, a) PROVE Verdict(doc, f) = a
    <2>1. PICK i \in 1..n : Matches(R[i], f) /\ R[i].out = a /\ \A j \in 1..(i - 1) : ~Matches(R[j], f)
      BY <1>5 DEF Takes
    <2>2. i \in I /\ I # {}
      BY <2>1
    <2>3. \A j \in I : j \in 1..n /\ ~(j \in 1..(i - 1))
      BY <2>1
    <2> HIDE DEF I, n
    <2>4. Min(I) \in I /\ \A j \in I : Min(I) <= j
      BY <1>2, <2>2, MinIn
    <2>5. Min(I) = i
      <3>1. ASSUME NEW x \in I, x <= i PROVE x = i
        <4>1. x \in 1..n /\ ~(x \in 1..(i - 1)) /\ i \in 1..n
          BY <2>3
        <4> QED BY <1>2, <3>1, <4>1
      <3> QED BY <2>2, <2>4, <3>1
    <2>6. i # 0
      BY <1>2, <2>1
    <2> QED BY <1>1, <2>1, <2>2, <2>5, <2>6
  <1> QED BY <1>3, <1>4, <1>5

\* The rules of a group before the j-th do not apply, and the j-th does; j past
\* the end: none applies.
OnRule(r, f) == r.enabled /\ Applies(r, f)

\* A compiled group takes a flow with the action of its first rule that applies, or
\* passes it on.
LEMMA GroupTakes ==
  ASSUME NEW g \in GoodGroup, NEW f \in Flows, NEW j \in 1..(Len(g.rules) + 1),
         \A k \in 1..(j - 1) : ~OnRule(g.rules[k], f)
  PROVE  /\ j = Len(g.rules) + 1 => Passes(compileGroup(g), f)
         /\ (j \in 1..Len(g.rules) /\ OnRule(g.rules[j], f)) => Takes(compileGroup(g), f, g.rules[j].action)
  <1> DEFINE n == Len(g.rules)
             V == Seq(CompiledType)
  <1>1. PICK out \in [0..n -> V] : GroupTurns(g, out) /\ compileGroup(g) = out[n]
    BY GroupLoop
  <1>2. n \in Nat /\ \A k \in 1..n : g.rules[k] \in GoodRule
    BY DEF GoodGroup
  <1>3. out[0] = <<>> /\ \A k \in 1..n :
          out[k] = IF g.rules[k].enabled THEN Append(out[k - 1], compileRule(g.rules[k])) ELSE out[k - 1]
    BY <1>1 DEF GroupTurns
  <1>4. n = Len(g.rules) /\ j \in 1..(n + 1)
    OBVIOUS
  <1> HIDE DEF n
  <1> DEFINE a    == g.rules[j].action
             T == {k \in 0..n : /\ k < j => Passes(out[k], f)
                                /\ k >= j /\ OnRule(g.rules[j], f) => Takes(out[k], f, a)}
  <1>5. 0 \in T
    <2>1. 0 \in 0..n /\ ~(0 >= j)
      BY <1>2, <1>4
    <2> QED BY <1>3, <2>1, Empty
  <1>6. ASSUME NEW k \in 0..(n - 1), k \in T PROVE k + 1 \in T
    <2>1. k + 1 \in 1..n /\ k + 1 \in 0..n /\ (k + 1) - 1 = k /\ k \in 0..n
      BY <1>2
    <2> DEFINE i == k + 1
               r == g.rules[i]
               R == out[k]
    <2>2. i \in 1..n /\ i \in 0..n /\ i - 1 = k
      BY <2>1
    <2>3. r \in GoodRule /\ R \in V
      BY <1>1, <1>2, <2>1
    <2>4. out[i] = IF r.enabled THEN Append(R, compileRule(r)) ELSE R
      BY <1>3, <2>2
    <2>5. compileRule(r) \in CompiledType /\ compileRule(r).out = r.action /\ (Matches(compileRule(r), f) <=> Applies(r, f))
      BY <2>3, CompiledRule, CompiledMatches
    <2>6. (k < j => Passes(R, f)) /\ (k >= j /\ OnRule(g.rules[j], f) => Takes(R, f, a))
      BY <1>6
    <2>7. k < j \/ k >= j
      BY <1>2, <1>4
    <2>8. (i < j => i \in 1..(j - 1) /\ k < j) /\ (i >= j => i = j \/ k >= j) /\ (i = j => k < j /\ ~(i < j))
      BY <1>2, <1>4
    <2> HIDE DEF i, R
    <2>9. i < j => Passes(out[i], f)
      <3> SUFFICES ASSUME i < j PROVE Passes(out[i], f)
        OBVIOUS
      <3>1. ~OnRule(r, f) /\ Passes(R, f)
        BY <2>6, <2>8
      <3>2. CASE r.enabled
        <4>1. ~Matches(compileRule(r), f)
          BY <2>5, <3>1, <3>2 DEF OnRule
        <4>2. Passes(Append(R, compileRule(r)), f)
          BY <2>3, <2>5, <3>1, <4>1, Appended
        <4> QED BY <2>4, <3>2, <4>2
      <3>3. CASE ~r.enabled
        BY <2>4, <3>1, <3>3
      <3> QED BY <3>2, <3>3
    <2>10. i >= j /\ OnRule(g.rules[j], f) => Takes(out[i], f, a)
      <3> SUFFICES ASSUME i >= j, OnRule(g.rules[j], f) PROVE Takes(out[i], f, a)
        OBVIOUS
      <3>1. CASE i = j
        <4>1. r.enabled /\ Matches(compileRule(r), f) /\ Passes(R, f) /\ r.action = a
          BY <2>5, <2>6, <2>8, <3>1 DEF OnRule
        <4>2. Takes(Append(R, compileRule(r)), f, compileRule(r).out)
          BY <2>3, <2>5, <4>1, Appended
        <4> QED BY <2>4, <2>5, <4>1, <4>2
      <3>2. CASE k >= j
        <4>1. Takes(R, f, a)
          BY <2>6, <3>2
        <4>2. Takes(Append(R, compileRule(r)), f, a)
          BY <2>3, <2>5, <4>1, Appended
        <4> QED BY <2>4, <4>1, <4>2
      <3> QED BY <2>8, <3>1, <3>2
    <2>11. i \in T
      BY <2>2, <2>9, <2>10
    <2> QED BY <2>11 DEF i
  <1>7. n \in T
    <2> HIDE DEF T
    <2>1. \A k \in 0..(n - 1) : k \in T => k + 1 \in T
      BY <1>6
    <2>2. \A k \in 0..n : k \in T
      BY <1>2, <1>5, <2>1, Climb, Zenon
    <2> QED BY <1>2, <2>2
  <1>8. (n < j => Passes(out[n], f)) /\ (n >= j /\ OnRule(g.rules[j], f) => Takes(out[n], f, a))
    BY <1>7
  <1>9. (j = n + 1 => n < j) /\ (j \in 1..n => n >= j)
    BY <1>2, <1>4
  <1> QED BY <1>1, <1>4, <1>8, <1>9

\* The same for the groups.
OnGroup(g, f) == g.enabled /\ \E k \in 1..Len(g.rules) : OnRule(g.rules[k], f)

\* A compiled group none of whose rules applies.
LEMMA GroupPasses ==
  ASSUME NEW g \in GoodGroup, NEW f \in Flows, ~OnGroup(g, f), g.enabled
  PROVE  Passes(compileGroup(g), f)
  <1> DEFINE j == Len(g.rules) + 1
  <1>1. Len(g.rules) \in Nat
    BY DEF GoodGroup
  <1>2. j \in 1..(Len(g.rules) + 1) /\ \A k \in 1..(j - 1) : k \in 1..Len(g.rules)
    BY <1>1
  <1>3. \A k \in 1..(j - 1) : ~OnRule(g.rules[k], f)
    BY <1>2 DEF OnGroup
  <1>4. j = Len(g.rules) + 1
    OBVIOUS
  <1> HIDE DEF j
  <1> QED BY <1>2, <1>3, <1>4, GroupTakes

\* The compiled groups, up to some group.
LEMMA ModelTakes ==
  ASSUME NEW m \in GoodModel, NEW f \in Flows, NEW j \in 1..(Len(m.groups) + 1),
         \A k \in 1..(j - 1) : ~OnGroup(m.groups[k], f)
  PROVE  /\ j = Len(m.groups) + 1 => Passes(Compile(m), f)
         /\ \A a : (/\ j \in 1..Len(m.groups) /\ m.groups[j].enabled
                    /\ Takes(compileGroup(m.groups[j]), f, a)) => Takes(Compile(m), f, a)
  <1> DEFINE n == Len(m.groups)
             V == Seq(CompiledType)
  <1>1. PICK out \in [0..n -> V] : ModelTurns(m, out) /\ Compile(m) = out[n]
    BY ModelLoop
  <1>2. n \in Nat /\ \A k \in 1..n : m.groups[k] \in GoodGroup
    BY DEF GoodModel
  <1>3. out[0] = <<>> /\ \A k \in 1..n :
          out[k] = IF m.groups[k].enabled THEN out[k - 1] \o compileGroup(m.groups[k]) ELSE out[k - 1]
    BY <1>1 DEF ModelTurns
  <1>4. n = Len(m.groups) /\ j \in 1..(n + 1)
    OBVIOUS
  <1> HIDE DEF n
  <1> DEFINE Here(a) == m.groups[j].enabled /\ Takes(compileGroup(m.groups[j]), f, a)
             T == {k \in 0..n : /\ k < j => Passes(out[k], f)
                                /\ \A a : k >= j /\ Here(a) => Takes(out[k], f, a)}
  <1>5. 0 \in T
    <2>1. 0 \in 0..n /\ ~(0 >= j)
      BY <1>2, <1>4
    <2> QED BY <1>3, <2>1, Empty
  <1>6. ASSUME NEW k \in 0..(n - 1), k \in T PROVE k + 1 \in T
    <2>1. k + 1 \in 1..n /\ k + 1 \in 0..n /\ (k + 1) - 1 = k /\ k \in 0..n
      BY <1>2
    <2> DEFINE i == k + 1
               g == m.groups[i]
               R == out[k]
               C == compileGroup(g)
    <2>2. i \in 1..n /\ i \in 0..n /\ i - 1 = k
      BY <2>1
    <2>3. g \in GoodGroup /\ R \in V
      BY <1>1, <1>2, <2>1
    <2>4. out[i] = IF g.enabled THEN R \o C ELSE R
      BY <1>3, <2>2
    <2>5. C \in V
      BY <2>3, CompiledGroup
    <2>6. (k < j => Passes(R, f)) /\ \A a : k >= j /\ Here(a) => Takes(R, f, a)
      BY <1>6
    <2>7. i = j => C = compileGroup(m.groups[j]) /\ g = m.groups[j]
      OBVIOUS
    <2>8. (i < j => i \in 1..(j - 1) /\ k < j) /\ (i >= j => i = j \/ k >= j) /\ (i = j => k < j /\ ~(i < j))
      BY <1>2, <1>4
    <2>13. ~OnGroup(g, f) /\ g.enabled => Passes(C, f)
      BY <2>3, GroupPasses
    <2>14. i < j => ~OnGroup(g, f)
      BY <2>8
    <2> HIDE DEF i, R, C, g
    <2>15. /\ Passes(R, f) /\ Passes(C, f) => Passes(R \o C, f)
           /\ \A a : Takes(R, f, a) => Takes(R \o C, f, a)
           /\ \A a : Passes(R, f) /\ Takes(C, f, a) => Takes(R \o C, f, a)
      BY <2>3, <2>5, Behind
    <2>9. i < j => Passes(out[i], f)
      BY <2>4, <2>6, <2>8, <2>13, <2>14, <2>15
    <2>10. ASSUME NEW a, i >= j, Here(a) PROVE Takes(out[i], f, a)
      <3>1. CASE i = j
        <4>1. g.enabled /\ Takes(C, f, a) /\ Passes(R, f)
          BY <2>6, <2>7, <2>8, <2>10, <3>1
        <4> QED BY <2>4, <2>15, <4>1
      <3>2. CASE k >= j
        <4>1. Takes(R, f, a)
          BY <2>6, <2>10, <3>2
        <4> QED BY <2>4, <2>15, <4>1
      <3> QED BY <2>8, <2>10, <3>1, <3>2
    <2> HIDE DEF Here
    <2>11. i \in T
      BY <2>2, <2>9, <2>10
    <2> QED BY <2>11 DEF i
  <1>7. n \in T
    <2> HIDE DEF T
    <2>1. \A k \in 0..(n - 1) : k \in T => k + 1 \in T
      BY <1>6
    <2>2. \A k \in 0..n : k \in T
      BY <1>2, <1>5, <2>1, Climb, Zenon
    <2> QED BY <1>2, <2>2
  <1>8. (n < j => Passes(out[n], f)) /\ \A a : n >= j /\ Here(a) => Takes(out[n], f, a)
    BY <1>7
  <1>9. (j = n + 1 => n < j) /\ (j \in 1..n => n >= j)
    BY <1>2, <1>4
  <1> QED BY <1>1, <1>4, <1>8, <1>9

\* Places by their two coordinates.
LEMMA PlaceIs ==
  ASSUME NEW m \in GoodModel
  PROVE  /\ \A i \in 1..Len(m.groups) : \A j \in 1..Len(m.groups[i].rules) :
              <<i, j>> \in Places(m) <=> m.groups[i].enabled /\ m.groups[i].rules[j].enabled
         /\ \A p \in Places(m) : /\ p[1] \in 1..Len(m.groups) /\ p[2] \in 1..Len(m.groups[p[1]].rules)
                                 /\ p = <<p[1], p[2]>>
  <1> DEFINE At(i) == {i} \X (1..Len(m.groups[i].rules))
             U == UNION {At(i) : i \in 1..Len(m.groups)}
  <1>1. Places(m) = {p \in U : m.groups[p[1]].enabled /\ m.groups[p[1]].rules[p[2]].enabled}
    BY Zenon DEF Places
  <1>2. \A i : \A p : p \in At(i) <=> p = <<p[1], p[2]>> /\ p[1] = i /\ p[2] \in 1..Len(m.groups[i].rules)
    OBVIOUS
  <1>3. \A i \in 1..Len(m.groups) : \A j \in 1..Len(m.groups[i].rules) : <<i, j>> \in U
    OBVIOUS
  <1>4. \A p \in U : \E i \in 1..Len(m.groups) : p \in At(i)
    BY Zenon
  <1> HIDE DEF At, U
  <1>5. \A p \in U : /\ p[1] \in 1..Len(m.groups) /\ p[2] \in 1..Len(m.groups[p[1]].rules)
                     /\ p = <<p[1], p[2]>>
    BY <1>2, <1>4
  <1> QED BY <1>1, <1>3, <1>5

\* The enabled rules that apply to a flow, by their places.
Hits(m, f) == {p \in Places(m) : Applies(m.groups[p[1]].rules[p[2]], f)}
Ahead(p, q) == p[1] < q[1] \/ (p[1] = q[1] /\ p[2] <= q[2])

\* The places of the rules that apply.
LEMMA HitIs ==
  ASSUME NEW m \in GoodModel, NEW f
  PROVE  /\ \A i \in 1..Len(m.groups) : \A j \in 1..Len(m.groups[i].rules) :
              <<i, j>> \in Hits(m, f) <=> m.groups[i].enabled /\ OnRule(m.groups[i].rules[j], f)
         /\ \A p \in Hits(m, f) : /\ p[1] \in 1..Len(m.groups) /\ p[2] \in 1..Len(m.groups[p[1]].rules)
                                  /\ p = <<p[1], p[2]>>
  BY PlaceIs DEF Hits, OnRule

\* The first of them.
LEMMA FirstHit ==
  ASSUME NEW m \in GoodModel, NEW f, Hits(m, f) # {}
  PROVE  \E p \in Hits(m, f) : \A q \in Hits(m, f) : Ahead(p, q)
  <1> DEFINE H == Hits(m, f)
             I == {p[1] : p \in H}
             x == Min(I)
             J == {p[2] : p \in {q \in H : q[1] = x}}
             y == Min(J)
  <1>1. Len(m.groups) \in Nat /\ \A i \in 1..Len(m.groups) : Len(m.groups[i].rules) \in Nat
    BY DEF GoodModel, GoodGroup
  <1>2. \A p \in H : p[1] \in Nat /\ p[2] \in Nat
    BY <1>1, HitIs
  <1> HIDE DEF H
  <1>3. x \in I /\ \A i \in I : x <= i
    <2>1. I \subseteq Nat /\ I # {}
      BY <1>2 DEF H
    <2> HIDE DEF I
    <2> QED BY <2>1, MinIn
  <1>4. y \in J /\ \A j \in J : y <= j
    <2>1. J \subseteq Nat
      BY <1>2
    <2>2. J # {}
      <3>1. PICK p \in H : p[1] = x
        BY <1>3
      <3>2. p[2] \in J
        BY <3>1
      <3> QED BY <3>2
    <2> HIDE DEF J
    <2> QED BY <2>1, <2>2, MinIn
  <1> HIDE DEF x, y
  <1>5. PICK p \in H : p[1] = x /\ p[2] = y
    BY <1>4
  <1>6. ASSUME NEW q \in H PROVE Ahead(p, q)
    <2>1. x <= q[1] /\ (q[1] = x => y <= q[2])
      BY <1>3, <1>4
    <2>2. x \in Nat /\ q[1] \in Nat
      BY <1>2, <1>5
    <2> QED BY <1>5, <2>1, <2>2 DEF Ahead
  <1> QED BY <1>5, <1>6 DEF H

\* Compile keeps the order that the reference looks at.
LEMMA CompileRoutes ==
  ASSUME NEW m \in GoodModel, NEW f \in Flows, NEW o
  PROVE  \/ Passes(Compile(m), f) /\ FirstAction(m, f, o) = o
         \/ Takes(Compile(m), f, FirstAction(m, f, o))
  <1> DEFINE H == Hits(m, f)
             p == CHOOSE p \in H : \A q \in H : Ahead(p, q)
             n == Len(m.groups)
  <1>1. FirstAction(m, f, o) = IF H = {} THEN o ELSE m.groups[p[1]].rules[p[2]].action
    BY Zenon DEF FirstAction, Hits, Ahead
  <1>2. n \in Nat /\ \A i \in 1..n : m.groups[i] \in GoodGroup /\ Len(m.groups[i].rules) \in Nat
    <2>1. n \in Nat /\ \A i \in 1..n : m.groups[i] \in GoodGroup
      BY DEF GoodModel
    <2>2. \A g \in GoodGroup : Len(g.rules) \in Nat
      BY DEF GoodGroup
    <2> QED BY <2>1, <2>2
  <1>3. \A i \in 1..n : OnGroup(m.groups[i], f) => \E j \in 1..Len(m.groups[i].rules) : <<i, j>> \in H
    BY HitIs DEF OnGroup
  <1>4. CASE H = {}
    <2> DEFINE j == n + 1
    <2>1. j \in 1..(n + 1) /\ \A k \in 1..(j - 1) : k \in 1..n
      BY <1>2
    <2>2. \A k \in 1..(j - 1) : ~OnGroup(m.groups[k], f)
      BY <1>3, <1>4, <2>1
    <2>3. j = n + 1
      OBVIOUS
    <2> HIDE DEF j
    <2>4. Passes(Compile(m), f)
      BY <2>1, <2>2, <2>3, ModelTakes
    <2> QED BY <1>1, <1>4, <2>4
  <1>5. CASE H # {}
    <2>1. p \in H /\ \A q \in H : Ahead(p, q)
      BY <1>5, FirstHit, Zenon
    <2> HIDE DEF p
    <2> DEFINE x == p[1]
               y == p[2]
               g == m.groups[x]
    <2>2. x \in 1..n /\ y \in 1..Len(g.rules) /\ p = <<x, y>>
      BY <2>1, HitIs
    <2>3. g.enabled /\ OnRule(g.rules[y], f) /\ g \in GoodGroup /\ Len(g.rules) \in Nat
      BY <1>2, <2>1, <2>2, HitIs
    <2>4. \A k \in 1..(x - 1) : ~OnGroup(m.groups[k], f)
      <3>1. ASSUME NEW k \in 1..(x - 1), OnGroup(m.groups[k], f) PROVE FALSE
        <4>1. k \in 1..n /\ ~(x < k) /\ x # k
          BY <1>2, <2>2
        <4>2. PICK j \in 1..Len(m.groups[k].rules) : <<k, j>> \in H
          BY <1>3, <3>1, <4>1
        <4>3. Ahead(p, <<k, j>>)
          BY <2>1, <4>2
        <4> QED BY <4>1, <4>3 DEF Ahead
      <3> QED BY <3>1
    <2>5. \A k \in 1..(y - 1) : ~OnRule(g.rules[k], f)
      <3>1. ASSUME NEW k \in 1..(y - 1), OnRule(g.rules[k], f) PROVE FALSE
        <4>1. k \in 1..Len(g.rules) /\ ~(y <= k) /\ ~(x < x)
          BY <1>2, <2>2, <2>3
        <4>2. <<x, k>> \in H
          BY <2>2, <2>3, <3>1, <4>1, HitIs
        <4>3. Ahead(p, <<x, k>>)
          BY <2>1, <4>2
        <4> QED BY <4>1, <4>3 DEF Ahead
      <3> QED BY <3>1
    <2>6. y \in 1..(Len(g.rules) + 1) /\ x \in 1..(n + 1)
      BY <1>2, <2>2, <2>3
    <2>7. FirstAction(m, f, o) = g.rules[y].action
      BY <1>1, <1>5
    <2> HIDE DEF x, y, g
    <2>8. Takes(compileGroup(g), f, g.rules[y].action)
      BY <2>2, <2>3, <2>5, <2>6, GroupTakes
    <2>9. Takes(Compile(m), f, g.rules[y].action)
      BY <2>2, <2>3, <2>4, <2>6, <2>8, ModelTakes DEF g
    <2> QED BY <2>7, <2>9
  <1> QED BY <1>4, <1>5

\* Every rule of the compiled model is a compiled rule.
LEMMA CompiledModel == ASSUME NEW m \in GoodModel PROVE Compile(m) \in Seq(CompiledType)
  <1>1. PICK out \in [0..Len(m.groups) -> Seq(CompiledType)] : Compile(m) = out[Len(m.groups)]
    BY ModelLoop
  <1>2. Len(m.groups) \in Nat
    BY DEF GoodModel
  <1> QED BY <1>1, <1>2

\* What the generator adds, and which flows it takes.
LEMMA AddedRules ==
  /\ {sniffRule, lanBypassRule, hijackDnsRule, blockIPv6Rule, proxyRule} \subseteq RouteType
  /\ \A f \in Flows :
       /\ ~Matches(sniffRule, f) /\ Matches(proxyRule, f)
       /\ Matches(lanBypassRule, f) <=> f.dst \in Lan
       /\ Matches(hijackDnsRule, f) <=> f.dns
       /\ Matches(blockIPv6Rule, f) <=> f.dst \in {"net6", "lan6"}
  /\ lanBypassRule.out = "direct" /\ hijackDnsRule.out = "hijack-dns"
  /\ blockIPv6Rule.out = "block" /\ proxyRule.out = "proxy"
  <1>1. {sniffRule, lanBypassRule, hijackDnsRule, blockIPv6Rule, proxyRule} \subseteq RouteType
    <2>1. Lan \subseteq Classes /\ {"net6", "lan6"} \subseteq Classes
      BY DEF Lan, Classes
    <2>2. {} \in SUBSET (Classes \cup {Malformed} \cup Tags) /\ Lan \in SUBSET (Classes \cup {Malformed} \cup Tags)
          /\ {"net6", "lan6"} \in SUBSET (Classes \cup {Malformed} \cup Tags)
      BY <2>1
    <2> DEFINE C == SUBSET (Classes \cup {Malformed} \cup Tags)
    <2> HIDE DEF C
    <2>3. {} \in C /\ Lan \in C /\ {"net6", "lan6"} \in C
      BY <2>2 DEF C
    <2>4. RouteType = [dns : BOOLEAN, conds : C, out : Actions \cup {"sniff", "hijack-dns"}]
      BY DEF RouteType, C
    <2> QED BY <2>3, <2>4 DEF sniffRule, lanBypassRule, hijackDnsRule, blockIPv6Rule, proxyRule, RouteRule, Actions
  <1>2. ASSUME NEW f \in Flows
        PROVE  /\ ~Matches(sniffRule, f) /\ Matches(proxyRule, f)
               /\ Matches(lanBypassRule, f) <=> f.dst \in Lan
               /\ Matches(hijackDnsRule, f) <=> f.dns
               /\ Matches(blockIPv6Rule, f) <=> f.dst \in {"net6", "lan6"}
    <2>1. f.dst \in Classes /\ f.tags \subseteq Tags /\ f.dns \in BOOLEAN
      BY DEF Flows
    <2>2. Tags \cap Classes = {}
      BY TagAssumption
    <2>3. f.tags \cap Lan = {} /\ f.tags \cap {"net6", "lan6"} = {}
      BY <2>1, <2>2 DEF Classes, Lan
    <2>4. ~Matches(sniffRule, f) /\ Matches(proxyRule, f)
      BY DEF Matches, sniffRule, proxyRule, RouteRule
    <2>5. Matches(lanBypassRule, f) <=> f.dst \in Lan
      BY <2>3 DEF Matches, lanBypassRule, RouteRule, Lan
    <2>6. Matches(hijackDnsRule, f) <=> f.dns
      BY DEF Matches, hijackDnsRule, RouteRule
    <2>7. Matches(blockIPv6Rule, f) <=> f.dst \in {"net6", "lan6"}
      BY <2>3 DEF Matches, blockIPv6Rule, RouteRule
    <2> QED BY <2>4, <2>5, <2>6, <2>7
  <1> QED BY <1>1, <1>2 DEF lanBypassRule, hijackDnsRule, blockIPv6Rule, proxyRule, RouteRule

\* The rules of the document are those of the enabled rules.
LEMMA GroupHolds ==
  ASSUME NEW g \in GoodGroup, NEW c
  PROVE  c \in ToSet(compileGroup(g))
           <=> \E i \in 1..Len(g.rules) : g.rules[i].enabled /\ c = compileRule(g.rules[i])
  <1> DEFINE n == Len(g.rules)
             V == Seq(CompiledType)
             From(i) == g.rules[i].enabled /\ c = compileRule(g.rules[i])
  <1>1. PICK out \in [0..n -> V] : GroupTurns(g, out) /\ compileGroup(g) = out[n]
    BY GroupLoop
  <1>2. n \in Nat
    BY DEF GoodGroup
  <1>3. out[0] = <<>> /\ \A k \in 1..n :
          out[k] = IF g.rules[k].enabled THEN Append(out[k - 1], compileRule(g.rules[k])) ELSE out[k - 1]
    BY <1>1 DEF GroupTurns
  <1>4. n = Len(g.rules)
    OBVIOUS
  <1> HIDE DEF n
  <1> DEFINE T == {k \in 0..n : c \in ToSet(out[k]) <=> \E i \in 1..k : From(i)}
  <1>5. 0 \in T
    <2>1. 0 \in 0..n /\ 1..0 = {} /\ ToSet(<<>>) = {}
      BY <1>2, NoSeq
    <2> QED BY <1>3, <2>1
  <1>6. ASSUME NEW k \in 0..(n - 1), k \in T PROVE k + 1 \in T
    <2> DEFINE i == k + 1
               R == out[k]
    <2>1. i \in 1..n /\ i \in 0..n /\ i - 1 = k /\ k \in 0..n /\ i \in 1..i
          /\ (\A x \in 1..i : x \in 1..k \/ x = i) /\ \A x \in 1..k : x \in 1..i
      BY <1>2
    <2>2. IsSeq(R)
      BY <1>1, <2>1 DEF IsSeq
    <2>3. out[i] = IF g.rules[i].enabled THEN Append(R, compileRule(g.rules[i])) ELSE R
      BY <1>3, <2>1
    <2>4. c \in ToSet(R) <=> \E x \in 1..k : From(x)
      BY <1>6
    <2> HIDE DEF i, R
    <2>5. ToSet(Append(R, compileRule(g.rules[i]))) = ToSet(R) \cup {compileRule(g.rules[i])}
      BY <2>2, AppendSeq
    <2>6. c \in ToSet(out[i]) <=> c \in ToSet(R) \/ From(i)
      BY <2>3, <2>5
    <2> HIDE DEF From
    <2>7. i \in T
      BY <2>1, <2>4, <2>6
    <2> QED BY <2>7 DEF i
  <1>7. n \in T
    <2> HIDE DEF T
    <2>1. \A k \in 0..(n - 1) : k \in T => k + 1 \in T
      BY <1>6
    <2>2. \A k \in 0..n : k \in T
      BY <1>2, <1>5, <2>1, Climb, Zenon
    <2> QED BY <1>2, <2>2
  <1> QED BY <1>1, <1>4, <1>7

\* What the compiled model holds is what was enabled in it.
LEMMA ModelHolds ==
  ASSUME NEW m \in GoodModel, NEW c
  PROVE  c \in ToSet(Compile(m))
           <=> \E i \in 1..Len(m.groups) : m.groups[i].enabled /\ c \in ToSet(compileGroup(m.groups[i]))
  <1> DEFINE n == Len(m.groups)
             V == Seq(CompiledType)
             From(i) == m.groups[i].enabled /\ c \in ToSet(compileGroup(m.groups[i]))
  <1>1. PICK out \in [0..n -> V] : ModelTurns(m, out) /\ Compile(m) = out[n]
    BY ModelLoop
  <1>2. n \in Nat /\ \A k \in 1..n : m.groups[k] \in GoodGroup
    BY DEF GoodModel
  <1>3. out[0] = <<>> /\ \A k \in 1..n :
          out[k] = IF m.groups[k].enabled THEN out[k - 1] \o compileGroup(m.groups[k]) ELSE out[k - 1]
    BY <1>1 DEF ModelTurns
  <1>4. n = Len(m.groups)
    OBVIOUS
  <1> HIDE DEF n
  <1> DEFINE T == {k \in 0..n : c \in ToSet(out[k]) <=> \E i \in 1..k : From(i)}
  <1>5. 0 \in T
    <2>1. 0 \in 0..n /\ 1..0 = {} /\ ToSet(<<>>) = {}
      BY <1>2, NoSeq
    <2> QED BY <1>3, <2>1
  <1>6. ASSUME NEW k \in 0..(n - 1), k \in T PROVE k + 1 \in T
    <2> DEFINE i == k + 1
               R == out[k]
               C == compileGroup(m.groups[i])
    <2>1. i \in 1..n /\ i \in 0..n /\ i - 1 = k /\ k \in 0..n /\ i \in 1..i
          /\ (\A x \in 1..i : x \in 1..k \/ x = i) /\ \A x \in 1..k : x \in 1..i
      BY <1>2
    <2>2. IsSeq(R) /\ IsSeq(C)
      BY <1>1, <1>2, <2>1, CompiledGroup DEF IsSeq
    <2>3. out[i] = IF m.groups[i].enabled THEN R \o C ELSE R
      BY <1>3, <2>1
    <2>4. c \in ToSet(R) <=> \E x \in 1..k : From(x)
      BY <1>6
    <2>5. From(i) <=> m.groups[i].enabled /\ c \in ToSet(C)
      OBVIOUS
    <2> HIDE DEF i, R, C
    <2>6. ToSet(R \o C) = ToSet(R) \cup ToSet(C)
      BY <2>2, ConcatSeq
    <2>7. c \in ToSet(out[i]) <=> c \in ToSet(R) \/ From(i)
      BY <2>3, <2>5, <2>6
    <2> HIDE DEF From
    <2>8. i \in T
      BY <2>1, <2>4, <2>7
    <2> QED BY <2>8 DEF i
  <1>7. n \in T
    <2> HIDE DEF T
    <2>1. \A k \in 0..(n - 1) : k \in T => k + 1 \in T
      BY <1>6
    <2>2. \A k \in 0..n : k \in T
      BY <1>2, <1>5, <2>1, Climb, Zenon
    <2> QED BY <1>2, <2>2
  <1> QED BY <1>1, <1>4, <1>7

\* The LAN has a rule of its own in the document when it has one in the model.
LEMMA CoversLanIs ==
  ASSUME NEW m \in GoodModel, NEW S, ToSet(S) = {sniffRule} \cup ToSet(Compile(m))
  PROVE  hasEquivalentLanBypass(S) <=> CoversLan(m)
  <1> DEFINE Lanny(r) == r.action = "direct" /\ Lan \subseteq r.conds
             Own(c)   == c.out = "direct" /\ Lan \subseteq c.conds
  <1>1. \A r \in GoodRule : Own(compileRule(r)) <=> Lanny(r)
    <2> SUFFICES ASSUME NEW r \in GoodRule PROVE Own(compileRule(r)) <=> Lanny(r)
      OBVIOUS
    <2> DEFINE c == (r.conds \ GeoEntries) \cup {TagOf[g] : g \in r.conds \cap GeoEntries}
    <2>1. compileRule(r).conds = c /\ compileRule(r).out = r.action
      BY DEF compileRule, RouteRule
    <2>2. \A x \in Lan : x \in c <=> x \in r.conds
      <3>1. \A x \in Lan : x \in Classes
        BY DEF Lan, Classes
      <3>2. \A x \in Lan : x \notin GeoEntries /\ x \notin Tags
        BY <3>1, RulesAssumption, TagAssumption
      <3> QED BY <3>2 DEF Tags
    <2> HIDE DEF c
    <2> QED BY <2>1, <2>2
  <1>2. ~Own(sniffRule)
    BY DEF sniffRule, RouteRule
  <1>3. hasEquivalentLanBypass(S) <=> \E c \in ToSet(Compile(m)) : Own(c)
    BY <1>2 DEF hasEquivalentLanBypass
  <1>4. CoversLan(m) <=> \E p \in Places(m) : Lanny(m.groups[p[1]].rules[p[2]])
    BY DEF CoversLan
  <1>5. \A i \in 1..Len(m.groups) : m.groups[i] \in GoodGroup
    BY DEF GoodModel
  <1>6. \A g \in GoodGroup : \A j \in 1..Len(g.rules) : g.rules[j] \in GoodRule
    BY DEF GoodGroup
  <1> HIDE DEF Lanny, Own
  <1>7. ASSUME NEW c \in ToSet(Compile(m)), Own(c) PROVE \E p \in Places(m) : Lanny(m.groups[p[1]].rules[p[2]])
    <2>1. PICK i \in 1..Len(m.groups) : m.groups[i].enabled /\ c \in ToSet(compileGroup(m.groups[i]))
      BY ModelHolds
    <2>2. PICK j \in 1..Len(m.groups[i].rules) : m.groups[i].rules[j].enabled /\ c = compileRule(m.groups[i].rules[j])
      BY <1>5, <2>1, GroupHolds
    <2>3. Lanny(m.groups[i].rules[j])
      BY <1>1, <1>5, <1>6, <1>7, <2>2
    <2>4. <<i, j>> \in Places(m)
      BY <2>1, <2>2, PlaceIs
    <2> QED BY <2>3, <2>4
  <1>8. ASSUME NEW p \in Places(m), Lanny(m.groups[p[1]].rules[p[2]]) PROVE \E c \in ToSet(Compile(m)) : Own(c)
    <2> DEFINE i == p[1]
               j == p[2]
               r == m.groups[i].rules[j]
    <2>1. i \in 1..Len(m.groups) /\ j \in 1..Len(m.groups[i].rules) /\ m.groups[i].enabled /\ r.enabled
      BY PlaceIs
    <2>2. compileRule(r) \in ToSet(compileGroup(m.groups[i]))
      BY <1>5, <2>1, GroupHolds
    <2>3. compileRule(r) \in ToSet(Compile(m))
      BY <2>1, <2>2, ModelHolds
    <2>4. Own(compileRule(r))
      BY <1>1, <1>5, <1>6, <1>8, <2>1
    <2> QED BY <2>3, <2>4
  <1> QED BY <1>3, <1>4, <1>7, <1>8

\* The first element of a sequence, and the rest.
LEMMA ConsTail ==
  ASSUME NEW X, NEW s \in X, NEW C \in Seq(X)
  PROVE  <<s>> \o C \in Seq(X) /\ (<<s>> \o C)[1] = s /\ Tail(<<s>> \o C) = C
  <1> DEFINE R == <<s>> \o C
             n == Len(C)
  <1>1. R \in Seq(X) /\ n \in Nat /\ Len(R) = n + 1 /\ R[1] = s
    OBVIOUS
  <1>2. \A i \in 1..n : R[i + 1] = C[i]
    <2>1. \A j \in 1..(n + 1) : ~(j <= 1) => R[j] = C[j - 1]
      OBVIOUS
    <2> HIDE DEF R, n
    <2>2. ASSUME NEW i \in 1..n PROVE R[i + 1] = C[i]
      <3>1. i + 1 \in 1..(n + 1) /\ ~(i + 1 <= 1) /\ (i + 1) - 1 = i
        BY <1>1
      <3> QED BY <2>1, <3>1
    <2> QED BY <2>2
  <1>3. C = [i \in 1..n |-> C[i]] /\ DOMAIN C = 1..n
    OBVIOUS
  <1> HIDE DEF R, n
  <1>4. R # <<>>
    BY <1>1
  <1>5. Tail(R) = [i \in 1..n |-> R[i + 1]]
    <2>1. Tail(R) \in Seq(X) /\ Len(Tail(R)) = n /\ \A i \in 1..n : Tail(R)[i] = R[i + 1]
      BY <1>1, <1>4
    <2> DEFINE t == Tail(R)
    <2>2. t \in Seq(X) /\ Len(t) = n /\ \A i \in 1..n : t[i] = R[i + 1]
      BY <2>1
    <2> HIDE DEF t
    <2>3. t = [i \in 1..n |-> t[i]]
      BY <2>2
    <2>4. t = [i \in 1..n |-> R[i + 1]]
      BY <2>2, <2>3
    <2> QED BY <2>4 DEF t
  <1>6. Tail(R) = C
    BY <1>2, <1>3, <1>5
  <1> QED BY <1>1, <1>6 DEF R

\* Two elements.
LEMMA Pair ==
  ASSUME NEW X, NEW s \in X, NEW t \in X
  PROVE  <<s, t>> \in Seq(X) /\ <<s, t>> = <<s>> \o <<t>>
  <1> DEFINE a == <<s, t>>
             b == <<s>> \o <<t>>
  <1>1. a \in Seq(X) /\ Len(a) = 2 /\ a[1] = s /\ a[2] = t
    OBVIOUS
  <1>2. b \in Seq(X) /\ Len(b) = 2 /\ b[1] = s /\ b[2] = t
    OBVIOUS
  <1> HIDE DEF a, b
  <1>3. \A i \in 1..2 : a[i] = b[i]
    <2>1. \A i \in 1..2 : i = 1 \/ i = 2
      OBVIOUS
    <2> QED BY <1>1, <1>2, <2>1
  <1>4. a = [i \in 1..2 |-> a[i]] /\ b = [i \in 1..2 |-> b[i]]
    BY <1>1, <1>2
  <1>5. a = b
    BY <1>3, <1>4
  <1> QED BY <1>1, <1>5 DEF a, b

\* Two elements in front of a sequence.
LEMMA PairCons ==
  ASSUME NEW X, NEW s \in X, NEW t \in X, NEW C \in Seq(X)
  PROVE  <<s, t>> \o C = <<s>> \o (<<t>> \o C)
  <1> DEFINE T == <<t>> \o C
             a == <<s, t>> \o C
             b == <<s>> \o T
             n == Len(C)
  <1>1. n \in Nat /\ T \in Seq(X) /\ Len(T) = n + 1 /\ a \in Seq(X) /\ Len(a) = n + 2 /\ T[1] = t
    OBVIOUS
  <1>2. \A j \in 1..(n + 1) : ~(j <= 1) => T[j] = C[j - 1]
    OBVIOUS
  <1>3. a[1] = s /\ a[2] = t /\ \A j \in 1..(n + 2) : ~(j <= 2) => a[j] = C[j - 2]
    OBVIOUS
  <1> HIDE DEF T, n
  <1>4. b \in Seq(X) /\ Len(b) = n + 2 /\ b[1] = s
    BY <1>1
  <1>5. \A j \in 1..(n + 2) : ~(j <= 1) => b[j] = T[j - 1]
    BY <1>1
  <1> HIDE DEF a, b
  <1>6. ASSUME NEW j \in 1..(n + 2) PROVE a[j] = b[j]
    <2>1. CASE j = 1
      BY <1>3, <1>4, <2>1
    <2>2. CASE j = 2
      BY <1>1, <1>3, <1>5, <2>2
    <2>3. CASE j > 2
      <3>1. ~(j <= 2) /\ ~(j <= 1) /\ j - 1 \in 1..(n + 1) /\ ~(j - 1 <= 1) /\ (j - 1) - 1 = j - 2
        BY <1>1, <2>3
      <3> QED BY <1>2, <1>3, <1>5, <3>1
    <2> QED BY <1>1, <2>1, <2>2, <2>3
  <1>7. a = [j \in 1..(n + 2) |-> a[j]] /\ b = [j \in 1..(n + 2) |-> b[j]]
    BY <1>1, <1>4
  <1>8. a = b
    BY <1>6, <1>7
  <1> QED BY <1>8 DEF a, b, T

\* What TUN mode inserts ahead of the rules of the model and behind them.
LanRules(in)  == IF in.allowLan \/ hasEquivalentLanBypass(<<sniffRule>> \o Compile(in.rules)) THEN <<>> ELSE <<lanBypassRule>>
UserRules(in) == IF in.allowLan THEN <<lanBypassRule>> \o Compile(in.rules) ELSE Compile(in.rules)
IPv6Rules(in) == IF in.blockIPv6 THEN <<blockIPv6Rule>> ELSE <<>>

\* The route rules of the document, part by part.
LEMMA RouteRulesAre ==
  ASSUME NEW in, in.rules \in GoodModel, in.allowLan \in BOOLEAN
  PROVE  routeRules(in) =
           IF in.tun THEN <<sniffRule, hijackDnsRule>> \o LanRules(in) \o UserRules(in) \o IPv6Rules(in) \o <<proxyRule>>
           ELSE <<sniffRule>> \o UserRules(in)
  <1> DEFINE C == Compile(in.rules)
             N == <<sniffRule>> \o C
             L == IF in.allowLan THEN prependLanBypass(N) ELSE N
  <1>1. C \in Seq(RouteType) /\ sniffRule \in RouteType /\ lanBypassRule \in RouteType
    <2>1. C \in Seq(CompiledType)
      BY CompiledModel
    <2> HIDE DEF C
    <2>2. C \in Seq(RouteType)
      BY <2>1, InRouteType
    <2> QED BY <2>2, AddedRules
  <1>2. routeRules(in) = IF in.tun THEN applyTunModeKillswitch(L, in.allowLan, in.blockIPv6) ELSE L
    BY DEF routeRules
  <1> DEFINE D == <<lanBypassRule>> \o C
  <1>3. D \in Seq(RouteType)
    BY <1>1
  <1>4. N[1] = sniffRule /\ Tail(N) = C /\ N \in Seq(RouteType)
    BY <1>1, ConsTail
  <1>5. prependLanBypass(N) = <<sniffRule>> \o D
    <2>1. prependLanBypass(N) = <<N[1], lanBypassRule>> \o Tail(N)
      BY DEF prependLanBypass
    <2>2. <<sniffRule, lanBypassRule>> \o C = <<sniffRule>> \o D
      BY <1>1, PairCons
    <2> HIDE DEF D, C, N
    <2> QED BY <1>4, <2>1, <2>2
  <1>6. UserRules(in) = IF in.allowLan THEN D ELSE C
    BY DEF UserRules
  <1>7. LanRules(in) = IF in.allowLan \/ hasEquivalentLanBypass(N) THEN <<>> ELSE <<lanBypassRule>>
    BY DEF LanRules
  <1>8. N = <<sniffRule>> \o C
    OBVIOUS
  <1>9. L = <<sniffRule>> \o UserRules(in)
    <2> HIDE DEF C, D
    <2> QED BY <1>5, <1>6
  <1>10. L[1] = sniffRule /\ Tail(L) = UserRules(in) /\ (~in.allowLan => L = N)
    <2>1. UserRules(in) \in Seq(RouteType)
      BY <1>1, <1>3, <1>6
    <2>2. ~in.allowLan => L = N
      OBVIOUS
    <2> HIDE DEF L
    <2> QED BY <1>1, <1>9, <2>1, <2>2, ConsTail
  <1> HIDE DEF L, N
  <1>11. applyTunModeKillswitch(L, in.allowLan, in.blockIPv6) =
           <<sniffRule, hijackDnsRule>> \o LanRules(in) \o UserRules(in) \o IPv6Rules(in) \o <<proxyRule>>
    <2>1. (IF in.allowLan \/ hasEquivalentLanBypass(L) THEN <<>> ELSE <<lanBypassRule>>) = LanRules(in)
      BY <1>7, <1>10
    <2>2. (IF in.blockIPv6 THEN <<blockIPv6Rule>> ELSE <<>>) = IPv6Rules(in)
      BY DEF IPv6Rules
    <2>3. applyTunModeKillswitch(L, in.allowLan, in.blockIPv6) =
            <<L[1], hijackDnsRule>>
              \o (IF in.allowLan \/ hasEquivalentLanBypass(L) THEN <<>> ELSE <<lanBypassRule>>)
              \o Tail(L) \o (IF in.blockIPv6 THEN <<blockIPv6Rule>> ELSE <<>>) \o <<proxyRule>>
      BY Zenon DEF applyTunModeKillswitch
    <2> QED BY <1>10, <2>1, <2>2, <2>3, Zenon
  <1> QED BY <1>2, <1>9, <1>11, Zenon

\* A part of no rule.
LEMMA NoRule == ASSUME NEW X PROVE <<>> \in Seq(X)
  OBVIOUS

\* A part of one rule.
LEMMA OneRule == ASSUME NEW X, NEW r \in X PROVE <<r>> \in Seq(X)
  OBVIOUS

\* The first part of a document decides, or leaves the flow to the rest.
LEMMA Chained ==
  ASSUME NEW X, NEW R \in Seq(X), NEW S \in Seq(X), NEW f, NEW a
  PROVE  /\ R \o S \in Seq(X)
         /\ Passes(R, f) /\ Passes(S, f) => Passes(R \o S, f)
         /\ Takes(R, f, a) => Takes(R \o S, f, a)
         /\ Passes(R, f) /\ Takes(S, f, a) => Takes(R \o S, f, a)
  <1>1. R \o S \in Seq(X)
    OBVIOUS
  <1> QED BY <1>1, Behind, Zenon

\* One rule, ahead of the others.
LEMMA OneFirst ==
  ASSUME NEW r \in RouteType, NEW S \in Seq(RouteType), NEW f, NEW a
  PROVE  /\ <<r>> \o S \in Seq(RouteType)
         /\ Matches(r, f) => Takes(<<r>> \o S, f, r.out)
         /\ ~Matches(r, f) /\ Passes(S, f) => Passes(<<r>> \o S, f)
         /\ ~Matches(r, f) /\ Takes(S, f, a) => Takes(<<r>> \o S, f, a)
  <1> DEFINE R == <<r>>
  <1>1. R \in Seq(RouteType) /\ (~Matches(r, f) => Passes(R, f)) /\ (Matches(r, f) => Takes(R, f, r.out))
    BY OneRule, Alone, Zenon
  <1>2. R = <<r>>
    OBVIOUS
  <1> HIDE DEF R
  <1>3. /\ R \o S \in Seq(RouteType)
        /\ Matches(r, f) => Takes(R \o S, f, r.out)
        /\ ~Matches(r, f) /\ Passes(S, f) => Passes(R \o S, f)
        /\ ~Matches(r, f) /\ Takes(S, f, a) => Takes(R \o S, f, a)
    BY <1>1, Chained, Zenon
  <1> QED BY <1>2, <1>3, Zenon

\* The rules of the model in the document.
LEMMA CompiledSeq == ASSUME NEW m \in GoodModel PROVE Compile(m) \in Seq(RouteType)
  <1>1. Compile(m) \in Seq(CompiledType)
    BY CompiledModel
  <1> DEFINE C == Compile(m)
  <1> HIDE DEF C
  <1>2. C \in Seq(CompiledType) => C \in Seq(RouteType)
    BY InRouteType
  <1> QED BY <1>1, <1>2 DEF C

\* The outbounds of the rules that the generator adds.
LEMMA AddedOut ==
  /\ sniffRule.out = "sniff" /\ lanBypassRule.out = "direct" /\ hijackDnsRule.out = "hijack-dns"
  /\ blockIPv6Rule.out = "block" /\ proxyRule.out = "proxy"
  BY DEF sniffRule, lanBypassRule, hijackDnsRule, blockIPv6Rule, proxyRule, RouteRule

\* Where the rules of the model come to a decision, with the LAN rule the
\* setting puts ahead of them.
LEMMA UserRoutes ==
  ASSUME NEW in, in.rules \in GoodModel, in.allowLan \in BOOLEAN, NEW f \in Flows, NEW o
  PROVE  /\ UserRules(in) \in Seq(RouteType)
         /\ in.allowLan /\ f.dst \in Lan => Takes(UserRules(in), f, "direct")
         /\ ~(in.allowLan /\ f.dst \in Lan) =>
              \/ Passes(UserRules(in), f) /\ FirstAction(in.rules, f, o) = o
              \/ Takes(UserRules(in), f, FirstAction(in.rules, f, o))
  <1> DEFINE C == Compile(in.rules)
             w == FirstAction(in.rules, f, o)
  <1>1. C \in Seq(RouteType)
    BY CompiledSeq
  <1>2. (Passes(C, f) /\ w = o) \/ Takes(C, f, w)
    BY CompileRoutes, Zenon
  <1>3. UserRules(in) = IF in.allowLan THEN <<lanBypassRule>> \o C ELSE C
    BY DEF UserRules
  <1> HIDE DEF C, w
  <1>4. /\ <<lanBypassRule>> \o C \in Seq(RouteType)
        /\ f.dst \in Lan => Takes(<<lanBypassRule>> \o C, f, "direct")
        /\ f.dst \notin Lan /\ Passes(C, f) => Passes(<<lanBypassRule>> \o C, f)
        /\ f.dst \notin Lan /\ Takes(C, f, w) => Takes(<<lanBypassRule>> \o C, f, w)
    <2>1. lanBypassRule \in RouteType /\ lanBypassRule.out = "direct" /\ (Matches(lanBypassRule, f) <=> f.dst \in Lan)
      BY AddedRules, AddedOut
    <2>2. /\ <<lanBypassRule>> \o C \in Seq(RouteType)
          /\ Matches(lanBypassRule, f) => Takes(<<lanBypassRule>> \o C, f, lanBypassRule.out)
          /\ ~Matches(lanBypassRule, f) /\ Passes(C, f) => Passes(<<lanBypassRule>> \o C, f)
          /\ ~Matches(lanBypassRule, f) /\ Takes(C, f, w) => Takes(<<lanBypassRule>> \o C, f, w)
      BY <1>1, <2>1, OneFirst, Zenon
    <2> QED BY <2>1, <2>2, Zenon
  <1>5. CASE in.allowLan
    <2>1. UserRules(in) = <<lanBypassRule>> \o C
      BY <1>3, <1>5
    <2>2. /\ UserRules(in) \in Seq(RouteType)
          /\ f.dst \in Lan => Takes(UserRules(in), f, "direct")
          /\ f.dst \notin Lan => (Passes(UserRules(in), f) /\ w = o) \/ Takes(UserRules(in), f, w)
      BY <1>2, <1>4, <2>1, Zenon
    <2> QED BY <1>5, <2>2, Zenon DEF w
  <1>6. CASE ~in.allowLan
    <2>1. UserRules(in) = C
      BY <1>3, <1>6
    <2> QED BY <1>1, <1>2, <1>6, <2>1, Zenon DEF w
  <1> QED BY <1>5, <1>6

\* What TUN mode puts ahead of the rules of the model.
LEMMA TunHead ==
  ASSUME NEW in, in.rules \in GoodModel, in.allowLan \in BOOLEAN, NEW f \in Flows
  PROVE  /\ <<sniffRule, hijackDnsRule>> \in Seq(RouteType)
         /\ f.dns => Takes(<<sniffRule, hijackDnsRule>>, f, "hijack-dns")
         /\ ~f.dns => Passes(<<sniffRule, hijackDnsRule>>, f)
         /\ LanRules(in) \in Seq(RouteType)
         /\ f.dst \in Lan /\ ~in.allowLan /\ ~CoversLan(in.rules) => Takes(LanRules(in), f, "direct")
         /\ ~(f.dst \in Lan /\ ~in.allowLan /\ ~CoversLan(in.rules)) => Passes(LanRules(in), f)
  <1>1. /\ sniffRule \in RouteType /\ hijackDnsRule \in RouteType /\ lanBypassRule \in RouteType
        /\ ~Matches(sniffRule, f) /\ (Matches(hijackDnsRule, f) <=> f.dns) /\ hijackDnsRule.out = "hijack-dns"
        /\ (Matches(lanBypassRule, f) <=> f.dst \in Lan) /\ lanBypassRule.out = "direct"
    BY AddedRules, AddedOut
  <1> DEFINE S == <<hijackDnsRule>>
             Z == <<sniffRule, hijackDnsRule>>
             B == <<lanBypassRule>>
             N == <<sniffRule>> \o Compile(in.rules)
  <1>2. S \in Seq(RouteType) /\ (~f.dns => Passes(S, f)) /\ (f.dns => Takes(S, f, "hijack-dns"))
    <2>1. (~Matches(hijackDnsRule, f) => Passes(S, f)) /\ (Matches(hijackDnsRule, f) => Takes(S, f, hijackDnsRule.out))
      BY Alone, Zenon
    <2>2. S \in Seq(RouteType)
      BY <1>1, OneRule, Zenon
    <2> HIDE DEF S
    <2> QED BY <1>1, <2>1, <2>2, Zenon
  <1>3. Z = <<sniffRule>> \o S /\ Z \in Seq(RouteType)
    BY <1>1, Pair, Zenon
  <1>4. B \in Seq(RouteType) /\ (f.dst \notin Lan => Passes(B, f)) /\ (f.dst \in Lan => Takes(B, f, "direct"))
    <2>1. (~Matches(lanBypassRule, f) => Passes(B, f)) /\ (Matches(lanBypassRule, f) => Takes(B, f, lanBypassRule.out))
      BY Alone, Zenon
    <2>2. B \in Seq(RouteType)
      BY <1>1, OneRule, Zenon
    <2> HIDE DEF B
    <2> QED BY <1>1, <2>1, <2>2, Zenon
  <1>5. hasEquivalentLanBypass(N) <=> CoversLan(in.rules)
    <2>1. ToSet(N) = {sniffRule} \cup ToSet(Compile(in.rules))
      <3>1. IsSeq(Compile(in.rules))
        BY CompiledSeq, Zenon DEF IsSeq
      <3>2. IsSeq(<<sniffRule>>) /\ ToSet(<<sniffRule>>) = {sniffRule}
        BY SingleSeq, Zenon
      <3> DEFINE u == <<sniffRule>>
      <3> HIDE DEF u
      <3>3. /\ ToSet(u \o Compile(in.rules)) \subseteq ToSet(u) \cup ToSet(Compile(in.rules))
            /\ ToSet(u) \subseteq ToSet(u \o Compile(in.rules))
            /\ ToSet(Compile(in.rules)) \subseteq ToSet(u \o Compile(in.rules))
        BY <3>1, <3>2, ConcatSeq, Zenon DEF u
      <3>4. ToSet(u \o Compile(in.rules)) = ToSet(u) \cup ToSet(Compile(in.rules))
        BY <3>3
      <3> QED BY <3>2, <3>4, Zenon DEF u
    <2> HIDE DEF N
    <2> QED BY <2>1, CoversLanIs, Zenon
  <1>6. LanRules(in) = IF in.allowLan \/ CoversLan(in.rules) THEN <<>> ELSE B
    BY <1>5 DEF LanRules
  <1> HIDE DEF B, N, S
  <1>7. (f.dns => Takes(Z, f, "hijack-dns")) /\ (~f.dns => Passes(Z, f))
    <2> DEFINE y == <<sniffRule>> \o S
    <2>1. /\ ~Matches(sniffRule, f) /\ Passes(S, f) => Passes(y, f)
          /\ ~Matches(sniffRule, f) /\ Takes(S, f, "hijack-dns") => Takes(y, f, "hijack-dns")
      BY <1>1, <1>2, OneFirst, Zenon
    <2> HIDE DEF y
    <2>2. (f.dns => Takes(y, f, "hijack-dns")) /\ (~f.dns => Passes(y, f))
      BY <1>1, <1>2, <2>1, Zenon
    <2> QED BY <1>3, <2>2, Zenon DEF y
  <1>8. <<>> \in Seq(RouteType) /\ Passes(<<>>, f)
    BY NoRule, Empty, Zenon
  <1>9. /\ LanRules(in) \in Seq(RouteType)
        /\ f.dst \in Lan /\ ~in.allowLan /\ ~CoversLan(in.rules) => Takes(LanRules(in), f, "direct")
        /\ ~(f.dst \in Lan /\ ~in.allowLan /\ ~CoversLan(in.rules)) => Passes(LanRules(in), f)
    <2>1. CASE in.allowLan \/ CoversLan(in.rules)
      <3>1. LanRules(in) = <<>>
        BY <1>6, <2>1
      <3> QED BY <1>8, <2>1, <3>1, Zenon
    <2>2. CASE ~(in.allowLan \/ CoversLan(in.rules))
      <3>1. LanRules(in) = B
        BY <1>6, <2>2
      <3> QED BY <1>4, <2>2, <3>1, Zenon
    <2> QED BY <2>1, <2>2, Zenon
  <1> QED BY <1>3, <1>7, <1>9, Zenon

\* And behind them.
LEMMA TunTail ==
  ASSUME NEW in, in.blockIPv6 \in BOOLEAN, NEW f \in Flows
  PROVE  /\ IPv6Rules(in) \in Seq(RouteType) /\ <<proxyRule>> \in Seq(RouteType)
         /\ in.blockIPv6 /\ f.dst \in {"net6", "lan6"} => Takes(IPv6Rules(in), f, "block")
         /\ ~(in.blockIPv6 /\ f.dst \in {"net6", "lan6"}) => Passes(IPv6Rules(in), f)
         /\ Takes(<<proxyRule>>, f, "proxy")
  <1> DEFINE six == f.dst \in {"net6", "lan6"}
  <1>1. /\ blockIPv6Rule \in RouteType /\ proxyRule \in RouteType
        /\ (Matches(blockIPv6Rule, f) <=> six) /\ blockIPv6Rule.out = "block"
        /\ Matches(proxyRule, f) /\ proxyRule.out = "proxy"
    BY AddedRules, AddedOut
  <1> HIDE DEF six
  <1>2. <<proxyRule>> \in Seq(RouteType) /\ Takes(<<proxyRule>>, f, "proxy")
    BY <1>1, OneRule, Alone, Zenon
  <1> DEFINE B == <<blockIPv6Rule>>
  <1>3. B \in Seq(RouteType) /\ (~six => Passes(B, f)) /\ (six => Takes(B, f, "block"))
    <2>1. (~Matches(blockIPv6Rule, f) => Passes(B, f)) /\ (Matches(blockIPv6Rule, f) => Takes(B, f, blockIPv6Rule.out))
      BY Alone, Zenon
    <2>2. B \in Seq(RouteType)
      BY <1>1, OneRule, Zenon
    <2> HIDE DEF B
    <2> QED BY <1>1, <2>1, <2>2, Zenon
  <1>4. <<>> \in Seq(RouteType) /\ Passes(<<>>, f)
    BY NoRule, Empty, Zenon
  <1>5. IPv6Rules(in) = IF in.blockIPv6 THEN B ELSE <<>>
    BY DEF IPv6Rules
  <1> HIDE DEF B
  <1>6. /\ IPv6Rules(in) \in Seq(RouteType)
        /\ in.blockIPv6 /\ six => Takes(IPv6Rules(in), f, "block")
        /\ ~(in.blockIPv6 /\ six) => Passes(IPv6Rules(in), f)
    <2>1. CASE in.blockIPv6
      <3>1. IPv6Rules(in) = B
        BY <1>5, <2>1
      <3> QED BY <1>3, <2>1, <3>1, Zenon
    <2>2. CASE ~in.blockIPv6
      <3>1. IPv6Rules(in) = <<>>
        BY <1>5, <2>2
      <3> QED BY <1>4, <2>2, <3>1, Zenon
    <2> QED BY <2>1, <2>2, Zenon
  <1> QED BY <1>2, <1>6, Zenon DEF six

\* Five parts, one behind the other: the first that decides decides.
LEMMA FiveParts ==
  ASSUME NEW A \in Seq(RouteType), NEW B \in Seq(RouteType), NEW C \in Seq(RouteType),
         NEW D \in Seq(RouteType), NEW E \in Seq(RouteType), NEW f, NEW a
  PROVE  /\ A \o B \o C \o D \o E \in Seq(RouteType)
         /\ Takes(A, f, a) => Takes(A \o B \o C \o D \o E, f, a)
         /\ Passes(A, f) /\ Takes(B, f, a) => Takes(A \o B \o C \o D \o E, f, a)
         /\ Passes(A, f) /\ Passes(B, f) /\ Takes(C, f, a) => Takes(A \o B \o C \o D \o E, f, a)
         /\ Passes(A, f) /\ Passes(B, f) /\ Passes(C, f) /\ Takes(D, f, a) => Takes(A \o B \o C \o D \o E, f, a)
         /\ Passes(A, f) /\ Passes(B, f) /\ Passes(C, f) /\ Passes(D, f) /\ Takes(E, f, a)
              => Takes(A \o B \o C \o D \o E, f, a)
  <1> DEFINE a2 == A \o B
             a3 == a2 \o C
             a4 == a3 \o D
             a5 == a4 \o E
  <1>1. /\ a2 \in Seq(RouteType) /\ (Takes(A, f, a) => Takes(a2, f, a))
        /\ (Passes(A, f) /\ Takes(B, f, a) => Takes(a2, f, a)) /\ (Passes(A, f) /\ Passes(B, f) => Passes(a2, f))
    BY Chained, Zenon
  <1>2. a5 = A \o B \o C \o D \o E
    OBVIOUS
  <1> HIDE DEF a2
  <1>3. /\ a3 \in Seq(RouteType) /\ (Takes(a2, f, a) => Takes(a3, f, a))
        /\ (Passes(a2, f) /\ Takes(C, f, a) => Takes(a3, f, a)) /\ (Passes(a2, f) /\ Passes(C, f) => Passes(a3, f))
    BY <1>1, Chained, Zenon
  <1> HIDE DEF a3
  <1>4. /\ a4 \in Seq(RouteType) /\ (Takes(a3, f, a) => Takes(a4, f, a))
        /\ (Passes(a3, f) /\ Takes(D, f, a) => Takes(a4, f, a)) /\ (Passes(a3, f) /\ Passes(D, f) => Passes(a4, f))
    BY <1>3, Chained, Zenon
  <1> HIDE DEF a4
  <1>5. a5 \in Seq(RouteType) /\ (Takes(a4, f, a) => Takes(a5, f, a)) /\ (Passes(a4, f) /\ Takes(E, f, a) => Takes(a5, f, a))
    BY <1>4, Chained, Zenon
  <1> HIDE DEF a5
  <1>6. /\ a5 \in Seq(RouteType)
        /\ Takes(A, f, a) => Takes(a5, f, a)
        /\ Passes(A, f) /\ Takes(B, f, a) => Takes(a5, f, a)
        /\ Passes(A, f) /\ Passes(B, f) /\ Takes(C, f, a) => Takes(a5, f, a)
        /\ Passes(A, f) /\ Passes(B, f) /\ Passes(C, f) /\ Takes(D, f, a) => Takes(a5, f, a)
        /\ Passes(A, f) /\ Passes(B, f) /\ Passes(C, f) /\ Passes(D, f) /\ Takes(E, f, a) => Takes(a5, f, a)
    BY <1>1, <1>3, <1>4, <1>5, Zenon
  <1> QED BY <1>2, <1>6, Zenon

\* A document without a tunnel interface.
LEMMA LocalRoutes ==
  ASSUME NEW in, GoodInput(in), ~in.tun, NEW f \in Flows
  PROVE  Verdict(BuildSingbox(in), f) = RefVerdict(in, f)
  <1> DEFINE o == in.rules.default
             w == FirstAction(in.rules, f, o)
             U == UserRules(in)
             Q == <<sniffRule>> \o U
             doc == BuildSingbox(in)
  <1>1. /\ U \in Seq(RouteType)
        /\ in.allowLan /\ f.dst \in Lan => Takes(U, f, "direct")
        /\ ~(in.allowLan /\ f.dst \in Lan) => (Passes(U, f) /\ w = o) \/ Takes(U, f, w)
    BY UserRoutes, Zenon DEF GoodInput
  <1>2. doc.rules = Q /\ doc.final = o
    <2>1. routeRules(in) = <<sniffRule>> \o UserRules(in)
      BY RouteRulesAre, Zenon DEF GoodInput
    <2>2. doc.rules = routeRules(in) /\ doc.final = o
      BY DEF BuildSingbox
    <2> QED BY <2>1, <2>2, Zenon
  <1>3. sniffRule \in RouteType /\ ~Matches(sniffRule, f)
    BY AddedRules
  <1>4. RefVerdict(in, f) = IF f.dst \in Lan /\ in.allowLan THEN "direct" ELSE w
    BY DEF RefVerdict
  <1> HIDE DEF o, w, U, doc
  <1>5. /\ Q \in Seq(RouteType) /\ (Passes(U, f) => Passes(Q, f))
        /\ (Takes(U, f, "direct") => Takes(Q, f, "direct")) /\ (Takes(U, f, w) => Takes(Q, f, w))
    BY <1>1, <1>3, OneFirst, Zenon
  <1> HIDE DEF Q
  <1>6. Len(doc.rules) \in Nat
    BY <1>2, <1>5
  <1>7. /\ Passes(doc.rules, f) => Verdict(doc, f) = doc.final
        /\ Takes(doc.rules, f, "direct") => Verdict(doc, f) = "direct"
        /\ Takes(doc.rules, f, w) => Verdict(doc, f) = w
    BY <1>6, VerdictIs, Zenon
  <1>8. CASE f.dst \in Lan /\ in.allowLan
    <2>1. Verdict(doc, f) = "direct"
      BY <1>1, <1>2, <1>5, <1>7, <1>8, Zenon
    <2>2. RefVerdict(in, f) = "direct"
      BY <1>4, <1>8, Zenon
    <2> QED BY <2>1, <2>2, Zenon DEF doc
  <1>9. CASE ~(f.dst \in Lan /\ in.allowLan)
    <2>1. Verdict(doc, f) = w
      BY <1>1, <1>2, <1>5, <1>7, <1>9, Zenon
    <2>2. RefVerdict(in, f) = w
      BY <1>4, <1>9, Zenon
    <2> QED BY <2>1, <2>2, Zenon DEF doc
  <1> QED BY <1>8, <1>9, Zenon

\* A document for TUN mode.
LEMMA TunRoutes ==
  ASSUME NEW in, GoodInput(in), in.tun, NEW f \in Flows
  PROVE  Verdict(BuildSingbox(in), f) = RefVerdict(in, f)
  <1> DEFINE o == IF in.blockIPv6 /\ f.dst \in {"net6", "lan6"} THEN "block" ELSE "proxy"
             w == FirstAction(in.rules, f, o)
             A == <<sniffRule, hijackDnsRule>>
             B == LanRules(in)
             C == UserRules(in)
             D == IPv6Rules(in)
             E == <<proxyRule>>
             Q == A \o B \o C \o D \o E
             doc == BuildSingbox(in)
             six == in.blockIPv6 /\ f.dst \in {"net6", "lan6"}
             own == f.dst \in Lan /\ ~in.allowLan /\ ~CoversLan(in.rules)
             lan == in.allowLan /\ f.dst \in Lan
  <1>1. /\ C \in Seq(RouteType)
        /\ lan => Takes(C, f, "direct")
        /\ ~lan => (Passes(C, f) /\ w = o) \/ Takes(C, f, w)
    BY UserRoutes, Zenon DEF GoodInput
  <1>2. doc.rules = Q
    <2>1. routeRules(in) = Q
      BY RouteRulesAre, Zenon DEF GoodInput
    <2>2. doc.rules = routeRules(in)
      BY DEF BuildSingbox
    <2> QED BY <2>1, <2>2, Zenon
  <1>3. /\ A \in Seq(RouteType) /\ (f.dns => Takes(A, f, "hijack-dns")) /\ (~f.dns => Passes(A, f))
        /\ B \in Seq(RouteType) /\ (own => Takes(B, f, "direct")) /\ (~own => Passes(B, f))
    BY TunHead, Zenon DEF GoodInput
  <1>4. /\ D \in Seq(RouteType) /\ E \in Seq(RouteType) /\ (six => Takes(D, f, "block"))
        /\ (~six => Passes(D, f)) /\ Takes(E, f, "proxy")
    <2> DEFINE v6 == f.dst \in {"net6", "lan6"}
    <2>1. /\ D \in Seq(RouteType) /\ E \in Seq(RouteType)
          /\ in.blockIPv6 /\ v6 => Takes(D, f, "block")
          /\ ~(in.blockIPv6 /\ v6) => Passes(D, f)
          /\ Takes(E, f, "proxy")
      BY TunTail DEF GoodInput
    <2> HIDE DEF D, E, v6
    <2>2. six <=> in.blockIPv6 /\ v6
      BY DEF v6
    <2> HIDE DEF six
    <2> QED BY <2>1, <2>2, Zenon
  <1>5. RefVerdict(in, f) = IF f.dns THEN "hijack-dns" ELSE IF own \/ lan THEN "direct" ELSE w
    BY DEF RefVerdict, GoodInput
  <1>6. o = IF six THEN "block" ELSE "proxy"
    OBVIOUS
  <1> HIDE DEF o, w, A, B, C, D, E, doc, six, own, lan
  <1>7. /\ Q \in Seq(RouteType)
        /\ Takes(A, f, "hijack-dns") => Takes(Q, f, "hijack-dns")
        /\ Passes(A, f) /\ Takes(B, f, "direct") => Takes(Q, f, "direct")
        /\ Passes(A, f) /\ Passes(B, f) /\ Takes(C, f, "direct") => Takes(Q, f, "direct")
        /\ Passes(A, f) /\ Passes(B, f) /\ Takes(C, f, w) => Takes(Q, f, w)
        /\ Passes(A, f) /\ Passes(B, f) /\ Passes(C, f) /\ Takes(D, f, "block") => Takes(Q, f, "block")
        /\ Passes(A, f) /\ Passes(B, f) /\ Passes(C, f) /\ Passes(D, f) /\ Takes(E, f, "proxy") => Takes(Q, f, "proxy")
    <2> DEFINE H(a) == /\ Q \in Seq(RouteType)
                       /\ Takes(A, f, a) => Takes(Q, f, a)
                       /\ Passes(A, f) /\ Takes(B, f, a) => Takes(Q, f, a)
                       /\ Passes(A, f) /\ Passes(B, f) /\ Takes(C, f, a) => Takes(Q, f, a)
                       /\ Passes(A, f) /\ Passes(B, f) /\ Passes(C, f) /\ Takes(D, f, a) => Takes(Q, f, a)
                       /\ Passes(A, f) /\ Passes(B, f) /\ Passes(C, f) /\ Passes(D, f) /\ Takes(E, f, a) => Takes(Q, f, a)
    <2>1. \A a : H(a)
      BY <1>1, <1>3, <1>4, FiveParts, Zenon
    <2>2. H("hijack-dns") /\ H("direct") /\ H(w) /\ H("block") /\ H("proxy")
      BY ONLY <2>1, Zenon
    <2> QED BY ONLY <2>2, Zenon
  <1> HIDE DEF Q
  <1>8. Len(doc.rules) \in Nat
    BY <1>2, <1>7
  <1>9. \A a : Takes(Q, f, a) => Verdict(doc, f) = a
    BY <1>2, <1>8, VerdictIs, Zenon
  <1>10. CASE f.dns
    <2>1. Verdict(doc, f) = "hijack-dns" /\ RefVerdict(in, f) = "hijack-dns"
      BY <1>3, <1>5, <1>7, <1>9, <1>10, Zenon
    <2> QED BY <2>1, Zenon DEF doc
  <1>11. CASE ~f.dns /\ (own \/ lan)
    <2>1. lan => ~own
      BY DEF lan, own
    <2>2. Verdict(doc, f) = "direct" /\ RefVerdict(in, f) = "direct"
      BY <1>1, <1>3, <1>5, <1>7, <1>9, <1>11, <2>1, Zenon
    <2> QED BY <2>2, Zenon DEF doc
  <1>12. CASE ~f.dns /\ ~own /\ ~lan
    <2>1. RefVerdict(in, f) = w
      BY <1>5, <1>12, Zenon
    <2>2. Passes(A, f) /\ Passes(B, f) /\ ((Passes(C, f) /\ w = o) \/ Takes(C, f, w))
      BY <1>1, <1>3, <1>12, Zenon
    <2>3. Takes(Q, f, w)
      <3>1. CASE Takes(C, f, w)
        BY <1>7, <2>2, <3>1, Zenon
      <3>2. CASE Passes(C, f) /\ w = o /\ six
        <4>1. w = "block"
          BY <1>6, <3>2, Zenon
        <4> QED BY <1>4, <1>7, <2>2, <3>2, <4>1, Zenon
      <3>3. CASE Passes(C, f) /\ w = o /\ ~six
        <4>1. w = "proxy"
          BY <1>6, <3>3, Zenon
        <4> QED BY <1>4, <1>7, <2>2, <3>3, <4>1, Zenon
      <3> QED BY <2>2, <3>1, <3>2, <3>3, Zenon
    <2>4. Verdict(doc, f) = w
      BY <1>9, <2>3, Zenon
    <2> QED BY <2>1, <2>4, Zenon DEF doc
  <1> QED BY <1>10, <1>11, <1>12, Zenon

\* BuildSingbox turns every valid rules model into a document that sends every
\* flow where the model says: the first enabled rule that applies decides, behind
\* the DNS and LAN rules of the mode and ahead of its IPv6 and proxy rules.
THEOREM Routes ==
  ASSUME NEW in, GoodInput(in), NEW f \in Flows
  PROVE  Verdict(BuildSingbox(in), f) = RefVerdict(in, f)
  <1>1. in.tun \/ ~in.tun
    OBVIOUS
  <1> QED BY <1>1, TunRoutes, LocalRoutes, Zenon

---------------------------------------------------------------------------
(* What is saved builds, and what was built routes                         *)

\* A valid model, as Model.Validate says it.
LEMMA GoodValid == ASSUME NEW m \in GoodModel PROVE ValidateModel(m)
  <1>1. m.groups \in Seq(GoodGroup) /\ m.default \in Actions
    BY GoodParts
  <1>2. ASSUME NEW r \in Rules(m) PROVE Validate(r)
    <2>1. PICK g \in ToSet(m.groups) : r \in ToSet(g.rules)
      BY DEF Rules
    <2>2. g \in GoodGroup
      BY <1>1, ElementsIn
    <2>3. g.rules \in Seq(GoodRule)
      BY <2>2 DEF GoodGroup
    <2>4. r \in GoodRule
      BY <2>1, <2>3, ElementsIn
    <2> QED BY <2>4 DEF GoodRule
  <1> QED BY <1>1, <1>2 DEF ValidateModel, ValidAction

\* The generator adds no rule that names a rule set.
LEMMA NoTagsAdded ==
  ASSUME NEW in, GoodInput(in)
  PROVE  collectRuleSetTags(routeRules(in)) \subseteq collectRuleSetTags(Compile(in.rules))
  <1> DEFINE C == Compile(in.rules)
             W == {sniffRule, lanBypassRule, hijackDnsRule, blockIPv6Rule, proxyRule}
             X == ToSet(C) \cup W
             R == routeRules(in)
  <1>1. C \in Seq(X)
    <2>1. C \in Seq(CompiledType)
      BY CompiledModel DEF GoodInput
    <2>2. IsSeq(C)
      BY <2>1, ElementsIn
    <2> HIDE DEF C
    <2> QED BY <2>2, SeqOver
  <1>2. sniffRule \in X /\ lanBypassRule \in X /\ hijackDnsRule \in X /\ blockIPv6Rule \in X /\ proxyRule \in X
    OBVIOUS
  <1> DEFINE U == UserRules(in)
             L == LanRules(in)
             V == IPv6Rules(in)
  <1> HIDE DEF X
  <1>3. U \in Seq(X)
    <2>1. U = C \/ U = <<lanBypassRule>> \o C
      BY DEF UserRules
    <2> HIDE DEF C, U
    <2>2. <<lanBypassRule>> \o C \in Seq(X)
      BY <1>1, <1>2
    <2> QED BY <1>1, <2>1, <2>2
  <1>4. L \in Seq(X)
    <2>1. L = <<>> \/ L = <<lanBypassRule>>
      BY DEF LanRules
    <2> HIDE DEF L
    <2> QED BY <1>2, <2>1, NoRule, OneRule, Zenon
  <1>5. V \in Seq(X)
    <2>1. V = <<>> \/ V = <<blockIPv6Rule>>
      BY DEF IPv6Rules
    <2> HIDE DEF V
    <2> QED BY <1>2, <2>1, NoRule, OneRule, Zenon
  <1>6. R = (IF in.tun THEN <<sniffRule, hijackDnsRule>> \o L \o U \o V \o <<proxyRule>> ELSE <<sniffRule>> \o U)
    BY RouteRulesAre, Zenon DEF GoodInput
  <1> HIDE DEF U, L, V, C, R, W
  <1>7. R \in Seq(X)
    <2>1. <<sniffRule, hijackDnsRule>> \in Seq(X) /\ <<proxyRule>> \in Seq(X) /\ <<sniffRule>> \in Seq(X)
      BY <1>2
    <2>2. \A s, t \in Seq(X) : s \o t \in Seq(X)
      OBVIOUS
    <2> DEFINE s1 == <<sniffRule, hijackDnsRule>>
               s2 == <<proxyRule>>
               s3 == <<sniffRule>>
    <2>3. s1 \in Seq(X) /\ s2 \in Seq(X) /\ s3 \in Seq(X) /\ R = (IF in.tun THEN s1 \o L \o U \o V \o s2 ELSE s3 \o U)
      BY <1>6, <2>1, Zenon
    <2> HIDE DEF s1, s2, s3
    <2>4. s1 \o L \o U \o V \o s2 \in Seq(X) /\ s3 \o U \in Seq(X)
      BY <1>3, <1>4, <1>5, <2>2, <2>3, Zenon
    <2> QED BY <2>3, <2>4, Zenon
  <1>8. ToSet(R) \subseteq X
    BY <1>7, ElementsIn
  <1>9. \A r \in W : r.conds \cap Tags = {}
    <2>1. Tags \cap Classes = {}
      BY TagAssumption
    <2>2. Lan \subseteq Classes /\ {"net6", "lan6"} \subseteq Classes
      BY DEF Lan, Classes
    <2>3. /\ sniffRule.conds = {} /\ lanBypassRule.conds = Lan /\ hijackDnsRule.conds = {}
          /\ blockIPv6Rule.conds = {"net6", "lan6"} /\ proxyRule.conds = {}
      BY DEF sniffRule, lanBypassRule, hijackDnsRule, blockIPv6Rule, proxyRule, RouteRule
    <2>4. \A r \in W : r.conds = {} \/ r.conds \subseteq Classes
      BY <2>2, <2>3 DEF W
    <2> QED BY <2>1, <2>4
  <1>10. \A r \in ToSet(R) : r.conds \cap Tags = {} \/ r \in ToSet(C)
    BY <1>8, <1>9 DEF X
  <1> QED BY <1>10 DEF collectRuleSetTags, R, C

\* With the rule sets of its model at hand, a valid model builds.
LEMMA ModelBuilds ==
  ASSUME NEW in, GoodInput(in), in.geo = Resolved(in.rules)
  PROVE  BuildSingbox(in).ok /\ BuildSingbox(in).resolver \subseteq BuildSingbox(in).servers
  <1>1. ValidateModel(in.rules)
    BY GoodValid DEF GoodInput
  <1>2. in.geo = collectRuleSetTags(Compile(in.rules))
    BY <1>1 DEF Resolved, GeoTags
  <1>3. collectRuleSetTags(routeRules(in)) \subseteq in.geo
    BY <1>2, NoTagsAdded
  <1>4. {defaultDomainResolverFor(in), dnsFinal(in), dnsAnswersA(in), "local"} \subseteq dnsServers(in)
    BY DEF defaultDomainResolverFor, dnsFinal, dnsAnswersA, dnsServers
  <1> QED BY <1>1, <1>3, <1>4 DEF BuildSingbox

\* What buildConfigs gives the generator.
LEMMA SessionInput ==
  ASSUME NEW net, net["allowLan"] \in BOOLEAN, NEW m \in GoodModel, NEW mode, NEW g
  PROVE  LET in == SingboxInput(mode, net, m, g) IN GoodInput(in) /\ in.rules = m /\ in.geo = g
  BY DEF SingboxInput, GoodInput

\* The documents on disk give BuildSingbox what it asks for.
LEMMA SavedBuildsAre == ASSUME SafeInv, SwitchInv, SavedPorts PROVE RulesBuild
  <1> DEFINE m == Load(rulesFile)
  <1>1. m \in GoodModel /\ cfgFile["allowLan"] \in BOOLEAN
    BY DEF SafeInv, SwitchInv, Kept
  <1> HIDE DEF m
  <1>2. ASSUME NEW mode
        PROVE  LET doc == BuildSingbox(SingboxInput(mode, cfgFile, m, Resolved(m)))
               IN doc.ok /\ doc.resolver \subseteq doc.servers
    <2> DEFINE in == SingboxInput(mode, cfgFile, m, Resolved(m))
    <2>1. GoodInput(in) /\ in.geo = Resolved(in.rules)
      BY <1>1, SessionInput
    <2> HIDE DEF in
    <2>2. BuildSingbox(in).ok /\ BuildSingbox(in).resolver \subseteq BuildSingbox(in).servers
      BY <2>1, ModelBuilds
    <2> QED BY <2>2 DEF in
  <1> QED BY <1>2 DEF RulesBuild, m

\* Nothing runs at first.
LEMMA BuiltInit == ASSUME Init PROVE BuiltInv
  <1> DEFINE in  == SingboxInput("tun", defaults, DefaultModel, {})
             doc == BuildSingbox(in)
  <1>1. ctl = [state |-> "idle", mode |-> "tun", net |-> defaults, rules |-> DefaultModel, in |-> in, doc |-> doc]
    BY DEF Init
  <1> HIDE DEF in, doc
  <1>2. DOMAIN ctl = CtlFields /\ ctl.state = "idle" /\ ctl.net = defaults
    BY <1>1 DEF CtlFields
  <1> QED BY <1>2, LanDefault DEF BuiltInv

\* Only buildConfigs connects, and with what it has just built.
LEMMA BuiltStep == ASSUME SafeInv, SwitchInv, BuiltInv, [Next]_vars PROVE BuiltInv'
  <1>0. DOMAIN ctl = CtlFields /\ ctl.net["allowLan"] \in BOOLEAN
    BY DEF BuiltInv
  <1>1. CASE Connect \/ Disconnect \/ Reconnect
    <2>1. \E s \in {"idle", "reading"} : \E x : ctl' = [ctl EXCEPT !.state = s] \/ ctl' = [ctl EXCEPT !.state = s, !.mode = x]
      BY <1>1 DEF Connect, Disconnect, Reconnect
    <2>2. DOMAIN ctl' = CtlFields /\ ctl'.net = ctl.net /\ ctl'.state # "connected"
      BY <1>0, <2>1 DEF CtlFields
    <2> QED BY <1>0, <2>2 DEF BuiltInv
  <1>2. CASE ReadNetwork
    <2>1. ctl' = [ctl EXCEPT !.state = "building", !.net = cfgFile]
      BY <1>2 DEF ReadNetwork
    <2>2. DOMAIN ctl' = CtlFields /\ ctl'.net = cfgFile /\ ctl'.state # "connected"
      BY <1>0, <2>1 DEF CtlFields
    <2> QED BY <2>2 DEF BuiltInv, SwitchInv
  <1>3. CASE buildConfigs
    <2> DEFINE m   == Load(rulesFile)
               in  == SingboxInput(ctl.mode, ctl.net, m, Resolved(m))
               doc == BuildSingbox(in)
    <2>1. \/ ctl' = [ctl EXCEPT !.state = "connected", !.rules = m, !.doc = doc, !.in = in]
          \/ ctl' = [ctl EXCEPT !.state = "idle"]
      BY <1>3 DEF buildConfigs
    <2>2. m \in GoodModel
      BY DEF SafeInv, Kept
    <2> HIDE DEF m
    <2>3. GoodInput(in)
      BY <1>0, <2>2, SessionInput
    <2>4. doc = BuildSingbox(in)
      OBVIOUS
    <2> HIDE DEF in, doc
    <2>5. CASE ctl' = [ctl EXCEPT !.state = "connected", !.rules = m, !.doc = doc, !.in = in]
      <3>1. DOMAIN ctl' = CtlFields /\ ctl'.net = ctl.net /\ ctl'.in = in /\ ctl'.doc = doc
        BY <1>0, <2>5 DEF CtlFields
      <3> QED BY <1>0, <2>3, <2>4, <3>1 DEF BuiltInv
    <2>6. CASE ctl' = [ctl EXCEPT !.state = "idle"]
      <3>1. DOMAIN ctl' = CtlFields /\ ctl'.net = ctl.net /\ ctl'.state # "connected"
        BY <1>0, <2>6 DEF CtlFields
      <3> QED BY <1>0, <3>1 DEF BuiltInv
    <2> QED BY <2>1, <2>5, <2>6
  <1>4. CASE ctl' = ctl
    BY <1>4 DEF BuiltInv
  <1>5. CASE \E i \in Takable(reqs) : HandleRules(i) \/ HandleList(i) \/ HandleUpdate(i) \/ HandleGet(i)
    BY <1>4, <1>5 DEF HandleRules, HandleList, HandleUpdate, HandleGet
  <1>6. CASE \E i \in Takable(answers) : MutationAnswered(i) \/ Refetched(i) \/ UpdateAnswered(i) \/ GetAnswered(i)
    BY <1>4, <1>6 DEF MutationAnswered, Refetched, UpdateAnswered, GetAnswered
  <1>7. CASE RulesChanged \/ StatusEvent \/ ensureBoot \/ loadFromBackend \/ flushSettings \/ PickMode
    BY <1>4, <1>7 DEF RulesChanged, StatusEvent, ensureBoot, loadFromBackend, flushSettings, PickMode
  <1>8. CASE EditRules \/ rulesExportGroup \/ Dismiss \/ UNCHANGED vars \/ \E k \in EditKeys : \E v \in Inputs(k) : EditSetting(k, v)
    BY <1>4, <1>8 DEF EditRules, rulesExportGroup, Dismiss, EditSetting, vars
  <1> QED BY <1>1, <1>2, <1>3, <1>5, <1>6, <1>7, <1>8 DEF Next, Bridge, Interface, User

\* Whatever the services save builds: no sequence of edits, imports, drags, undos
\* and settings patches leaves a rules.json that Compile refuses, a document that
\* names a rule set the bridge does not fetch or a resolver it does not define, or
\* a config.json without its two proxies (Validate in every rules operation,
\* collectRuleSetTags over the finished document, validateNetwork after a merge).
THEOREM SavedBuildsHold == Spec => []SavedBuilds
  <1>1. SafeInv /\ SwitchInv /\ SavedPorts => SavedBuilds
    BY SavedBuildsAre, PortsServe DEF SavedBuilds
  <1> QED BY <1>1, SafeInit, SafeStep, SwitchInit, SwitchStep, TypesInit, SavedPortsStep, PTL DEF Spec

\* Whatever was edited before and since, a tunnel that runs sends every flow where
\* the rules model it was built from says: the first enabled rule of an enabled
\* group, behind DNS capture and the LAN, and through the proxy, never around it,
\* when no rule applies in TUN mode (buildConfigs, Compile, prependLanBypass,
\* applyTunModeKillswitch).
THEOREM RouteFollows == Spec => []RouteFollowsModel
  <1>1. BuiltInv => RouteFollowsModel
    BY Routes DEF BuiltInv, RouteFollowsModel
  <1> QED BY <1>1, SafeInit, SafeStep, SwitchInit, SwitchStep, BuiltInit, BuiltStep, PTL DEF Spec
====
