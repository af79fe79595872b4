----------------------------- MODULE RulesModel -----------------------------
(***************************************************************************)
(* rules.json: the model of internal/rules, its store, and the operations  *)
(* of bindings.RulesService on it.  RulesService holds one mutex from Load *)
(* to Save, so an operation is a function from the stored model (and its   *)
(* parameters) to a result: the model it saves, or a refusal that saves    *)
(* nothing.  Their actions are in ConfigSession.                           *)
(*                                                                         *)
(* A condition is the set of what it names, classes of addresses or geo    *)
(* entries.  A rule of one kind of condition is all that the routing       *)
(* order depends on; names of rules are left out.                          *)
(***************************************************************************)
EXTENDS Naturals, Sequences, SequencesExt

CONSTANTS
  GeoEntries,  \* what a geo condition may name: "geosite:x", "geoip:y"
  NewIds,      \* what newID mints, in this order; nothing is minted after the last
  MaxImport    \* ruleshare's limit on the rules of a link

Lan     == {"lan4", "lan6"}
Classes == Lan \cup {"net4", "net6"}
Malformed == "malformed"   \* an address, expression or range that does not parse

ASSUME RulesAssumption ==
  /\ GeoEntries \cap (Classes \cup {Malformed}) = {}
  /\ NewIds \in Seq(STRING)
  /\ {"safety", "user", "private", ""} \cap ToSet(NewIds) = {}
  /\ MaxImport \in Nat

Actions == {"proxy", "direct", "block"}

\* What a document holds, valid or not.
RuleType  == [id : STRING, enabled : BOOLEAN, action : STRING,
              conds : SUBSET (GeoEntries \cup Classes \cup {Malformed})]
GroupType == [id : STRING, name : STRING, locked : BOOLEAN, enabled : BOOLEAN, rules : Seq(RuleType)]
ModelType == [default : STRING, groups : Seq(GroupType)]
LinkType  == [name : STRING, rules : Seq(RuleType)]

\* Action.Valid
ValidAction(a) == a \in Actions

\* Conditions.IsEmpty
IsEmpty(c) == c = {}

\* Rule.Validate
Validate(r) ==
  /\ r.id # ""
  /\ ValidAction(r.action)
  /\ ~IsEmpty(r.conds)
  /\ Malformed \notin r.conds

Rules(m) == UNION {ToSet(g.rules) : g \in ToSet(m.groups)}

\* Model.Validate
ValidateModel(m) ==
  /\ ValidAction(m.default)
  /\ \A r \in Rules(m) : Validate(r)

---------------------------------------------------------------------------
(* rules.Store.  The file is <<>> when it is missing or does not parse.    *)

DefaultModel ==
  [default |-> "proxy",
   groups  |-> << [id |-> "safety", name |-> "Safety", locked |-> TRUE, enabled |-> TRUE,
                   rules |-> <<[id |-> "private", enabled |-> TRUE, action |-> "direct",
                                conds |-> Lan]>>],
                  [id |-> "user", name |-> "My Rules", locked |-> FALSE, enabled |-> TRUE,
                   rules |-> <<>>] >>]

\* An empty default action is healed on every read.
Load(file) ==
  IF file = <<>> THEN DefaultModel
  ELSE [file[1] EXCEPT !.default = IF @ = "" THEN "proxy" ELSE @]

Save(m) == <<m>>

SafetyGroups(m) == {g \in ToSet(m.groups) : g.id = "safety"}

---------------------------------------------------------------------------
(* RulesService.  Positions are counted from 1; 0 is "not found".          *)

Accept(m) == [ok |-> TRUE, model |-> m]
Refuse(m) == [ok |-> FALSE, model |-> m]

indexOfGroup(m, id) == SelectInSeq(m.groups, LAMBDA g : g.id = id)

\* The first group that has a rule with this id, and the first such rule.
findRule(m, id) ==
  LET gi == SelectInSeq(m.groups, LAMBDA g : \E r \in ToSet(g.rules) : r.id = id)
  IN <<gi, IF gi = 0 THEN 0 ELSE SelectInSeq(m.groups[gi].rules, LAMBDA r : r.id = id)>>

Unlocked(m, gi) == gi # 0 /\ ~m.groups[gi].locked

GroupAdd(m, id, name) ==
  IF name = "" THEN Refuse(m)
  ELSE Accept([m EXCEPT !.groups = Append(@,
         [id |-> id, name |-> name, locked |-> FALSE, enabled |-> TRUE, rules |-> <<>>])])

GroupEdit(m, id, name, enabled) ==
  LET gi == indexOfGroup(m, id)
  IN IF id # "safety" /\ Unlocked(m, gi)
     THEN Accept([m EXCEPT !.groups[gi].name = name, !.groups[gi].enabled = enabled])
     ELSE Refuse(m)

GroupRemove(m, id) ==
  LET gi == indexOfGroup(m, id)
  IN IF id # "safety" /\ Unlocked(m, gi)
     THEN Accept([m EXCEPT !.groups = RemoveAt(@, gi)])
     ELSE Refuse(m)

RuleAdd(m, groupId, id, r) ==
  LET gi == indexOfGroup(m, groupId)
      nr == [r EXCEPT !.id = id]
  IN IF groupId # "safety" /\ Validate(nr) /\ Unlocked(m, gi)
     THEN Accept([m EXCEPT !.groups[gi].rules = Append(@, nr)])
     ELSE Refuse(m)

\* Variant: the edited rule is not validated.
RuleEditUnchecked(m, r) ==
  LET at == findRule(m, r.id)
  IN IF Unlocked(m, at[1])
     THEN Accept([m EXCEPT !.groups[at[1]].rules[at[2]] = r])
     ELSE Refuse(m)

RuleEdit(m, r) ==
  LET at == findRule(m, r.id)
  IN IF Validate(r) /\ Unlocked(m, at[1])
     THEN Accept([m EXCEPT !.groups[at[1]].rules[at[2]] = r])
     ELSE Refuse(m)

\* Variant: the lock of the group is not looked at.
RuleRemoveLocked(m, id) ==
  LET at == findRule(m, id)
  IN IF at[1] # 0
     THEN Accept([m EXCEPT !.groups[at[1]].rules = RemoveAt(@, at[2])])
     ELSE Refuse(m)

RuleRemove(m, id) ==
  LET at == findRule(m, id)
  IN IF Unlocked(m, at[1])
     THEN Accept([m EXCEPT !.groups[at[1]].rules = RemoveAt(@, at[2])])
     ELSE Refuse(m)

RuleToggle(m, id) ==
  LET at == findRule(m, id)
  IN IF Unlocked(m, at[1])
     THEN Accept([m EXCEPT !.groups[at[1]].rules[at[2]].enabled = ~@])
     ELSE Refuse(m)

\* The rule goes to the end of its new group, which may be its own.
RuleMove(m, id, toId) ==
  LET at   == findRule(m, id)
      to   == indexOfGroup(m, toId)
      rest == [m EXCEPT !.groups[at[1]].rules = RemoveAt(@, at[2])]
  IN IF toId # "safety" /\ Unlocked(m, at[1]) /\ Unlocked(m, to)
     THEN Accept([rest EXCEPT !.groups[to].rules = Append(@, m.groups[at[1]].rules[at[2]])])
     ELSE Refuse(m)

\* The last group with the id of the safety group counts, and only its
\* name, its flag and the ids of its rules.
guardSafetyUnchanged(cur, next) ==
  LET ci == SelectLastInSeq(cur.groups, LAMBDA g : g.id = "safety")
      ni == SelectLastInSeq(next.groups, LAMBDA g : g.id = "safety")
      c  == cur.groups[ci]
      n  == next.groups[ni]
  IN \/ ci = 0
     \/ /\ ni # 0
        /\ n.name = c.name
        /\ n.enabled = c.enabled
        /\ Len(n.rules) = Len(c.rules)
        /\ \A i \in 1..Len(c.rules) : n.rules[i].id = c.rules[i].id

\* The default action of the new model is stored as it comes.
ReplaceModel(m, next) ==
  IF (\A r \in Rules(next) : Validate(r)) /\ guardSafetyUnchanged(m, next)
  THEN Accept(next)
  ELSE Refuse(m)

---------------------------------------------------------------------------
(* ruleshare.  A link carries groups of rules without ids and locks.       *)

\* The loop of countRules after n groups.
rulesUpTo(groups, n) ==
  LET sum[k \in 0..n] == IF k = 0 THEN 0 ELSE sum[k - 1] + Len(groups[k].rules)
  IN sum[n]

countRules(groups) == rulesUpTo(groups, Len(groups))

\* <<>> when there is nothing to share
Encode(groups) ==
  IF countRules(groups) = 0 THEN <<>>
  ELSE [i \in 1..Len(groups) |->
         [name  |-> groups[i].name,
          rules |-> [j \in 1..Len(groups[i].rules) |-> [groups[i].rules[j] EXCEPT !.id = ""]]]]

\* Decode: what makes it fail; the ids of a link are dropped.
Decodes(link) ==
  /\ countRules(link) \in 1..MaxImport
  /\ \A g \in ToSet(link) : \A r \in ToSet(g.rules) : Validate([r EXCEPT !.id = "import"])

ExportGroup(m, id) ==
  LET gi == indexOfGroup(m, id)
  IN IF id # "safety" /\ Unlocked(m, gi) THEN Encode(<<m.groups[gi]>>) ELSE <<>>

\* How many ids an import mints: one for each group and each rule.
Minted(link) == Len(link) + countRules(link)

ImportApply(m, ids, link) ==
  LET before(i) == Len(link) + rulesUpTo(link, i - 1)
  IN IF Decodes(link)
     THEN Accept([m EXCEPT !.groups = @ \o [i \in 1..Len(link) |->
            [id |-> ids[i], name |-> link[i].name, locked |-> FALSE, enabled |-> TRUE,
             rules |-> [j \in 1..Len(link[i].rules) |->
                         [link[i].rules[j] EXCEPT !.id = ids[before(i) + j]]]]]])
     ELSE Refuse(m)
=============================================================================
