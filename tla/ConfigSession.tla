---------------------------- MODULE ConfigSession ----------------------------
(***************************************************************************)
(* The documents a tunnel is built from, and the interface that edits them *)
(* while one is running: rules.json behind RulesService and rulesStore.ts, *)
(* config.json behind SettingsService and settings.ts, and a controller    *)
(* that reads both when it connects.                                       *)
(*                                                                         *)
(* The interface sends requests (reqs); the bridge serves each in a        *)
(* goroutine of its own and answers (answers), and an event that the       *)
(* handler published reaches the interface before or after its answer.     *)
(* Both channels keep their order unless this run admits "reorder".        *)
(***************************************************************************)
EXTENDS RouteConfig, ConfigStore

CONSTANTS
  RuleInputs,   \* the rules a user may write; their id is not used
  EditKeys,     \* the settings a user may change
  Scenarios     \* how a behaviour may begin: the two files, the link in the
                \* clipboard, whether the interface was just opened, how many
                \* actions of each kind the user takes, and the faults

\* hasty: the user edits while an earlier edit is under way; rush: edits and
\* connects overlap; reorder: requests and answers overtake; save, list and
\* get: that operation fails; build: the server's name does not resolve, its
\* settings are not usable or a rule set is not downloaded.
FaultKinds == {"hasty", "rush", "reorder", "save", "list", "get", "build"}

ASSUME SessionAssumption ==
  /\ EditKeys \subseteq Keys /\ RuleInputs \subseteq RuleType
  /\ \A s \in Scenarios : s.faults \subseteq FaultKinds

\* A behaviour begins with documents that the application has written, now or in
\* an older version.
ASSUME FilesAssumption ==
  \A s \in Scenarios :
    /\ s.rules \in Seq(ModelType) /\ Len(s.rules) <= 1 /\ ValidateModel(Load(s.rules))
    /\ SafetyGroups(Load(s.rules)) = SafetyGroups(DefaultModel)
    /\ DOMAIN s.config = Keys /\ s.config["allowLan"] \in BOOLEAN /\ Known("ipv6Mode", s.config["ipv6Mode"])
    /\ (\A k \in PortKeys : InRange(k, s.config[k])) /\ validateNetwork(s.config)
    /\ s.link \in Seq(LinkType)

VARIABLES
  rulesFile, cfgFile,            \* the two documents
  minted,                        \* how many ids newID has given
  link,                          \* the link in the clipboard
  reqs, answers,                 \* requests and answers under way
  rulesEvents,                   \* rules:changed under way
  statusEvents,                  \* vpn:status events under way
  rs,                            \* rulesStore.ts
  waiters,                       \* its mutations behind the one in flight
  st,                            \* settings.ts
  snap,                          \* lastConnectSnapshot, <<>> when null
  dismissed,                     \* rulesDismissed and networkDiffDismissed
  ctl,                           \* the controller and what its tunnel was built from
  left, faults

files   == <<rulesFile, cfgFile, minted>>
channel == <<reqs, answers>>
events  == <<rulesEvents, statusEvents>>
ui      == <<rs, waiters, st, snap, dismissed, link>>
vars    == <<files, channel, events, ui, ctl, left, faults>>

EmptyView == [default |-> "proxy", groups |-> <<>>]
NoPatch   == [k \in {} |-> 0]
Overlay(c, patch) == [k \in Keys |-> IF k \in DOMAIN patch THEN patch[k] ELSE c[k]]

\* The stores of an interface that was just opened, and of one that has
\* read everything.
FreshRules == [view |-> EmptyView, boot |-> FALSE, sub |-> FALSE, lead |-> FALSE,
               reading |-> "no", echoes |-> 0, base |-> <<>>, sig |-> <<>>]
LoadedRules(file) ==
  [FreshRules EXCEPT !.view = Load(file), !.boot = TRUE, !.sub = TRUE, !.sig = <<Load(file)>>]

FreshSettings == [cur |-> defaults, pend |-> NoPatch, inFlight |-> 0, started |-> FALSE,
                  flushed |-> 0, open |-> <<>>]
LoadedSettings(c) == 
  [FreshSettings EXCEPT !.cur = Overlay(@, backendToFrontend(toView(c))), !.started = TRUE]

\* buildConfigs: the input of BuildSingbox.
SingboxInput(mode, net, m, geo) ==
  [tun |-> mode = "tun", allowLan |-> net["allowLan"],
   blockIPv6 |-> net["ipv6Mode"] = "disabled",
   socks |-> net["socksPort"], http |-> net["httpPort"], rules |-> m, geo |-> geo]

Init ==
  /\ \E s \in Scenarios :
       /\ rulesFile = s.rules /\ cfgFile = s.config /\ link = s.link
       /\ rs = IF s.fresh THEN FreshRules ELSE LoadedRules(s.rules)
       /\ st = IF s.fresh THEN FreshSettings ELSE LoadedSettings(s.config)
       /\ left = s.left /\ faults = s.faults
  /\ minted = 0
  /\ reqs = <<>> /\ answers = <<>> /\ waiters = <<>>
  /\ rulesEvents = 0 /\ statusEvents = <<>>
  /\ snap = <<>> /\ dismissed = [rules |-> FALSE, net |-> FALSE]
  /\ ctl = LET in == SingboxInput("tun", defaults, DefaultModel, {})
           IN [state |-> "idle", mode |-> "tun", net |-> defaults, rules |-> DefaultModel,
               in |-> in, doc |-> BuildSingbox(in)]

\* The positions of a channel that may be taken next.
Takable(ch) == IF "reorder" \in faults THEN DOMAIN ch ELSE {1} \cap DOMAIN ch

Spend(what) == left[what] > 0 /\ left' = [left EXCEPT ![what] = @ - 1]

---------------------------------------------------------------------------
(* rulesStore.ts                                                           *)

Under(ch, to) == {i \in DOMAIN ch : ch[i].to = to}

RulesQuiet ==
  /\ Under(reqs, "rules") \cup Under(reqs, "list") = {}
  /\ Under(answers, "rules") \cup Under(answers, "list") = {}
  /\ rulesEvents = 0 /\ waiters = <<>>

captureRevertBaseline(r) ==
  IF r.base = <<>> /\ r.boot THEN [r EXCEPT !.base = <<r.view>>] ELSE r

\* A read under way is joined; push: the signature is published afterwards.
refetch(r, push) ==
  [r EXCEPT !.reading = IF push THEN "push" ELSE IF @ = "no" THEN "quiet" ELSE @]

\* The request that refetch sends, unless it joins.
ListRequest(r) == IF r.reading = "no" THEN <<[to |-> "list"]>> ELSE <<>>

MutationRequest(op, lead) == [to |-> "rules", op |-> op, lead |-> lead]

ensureBoot ==
  /\ ~rs.boot /\ rs.reading # "push"
  /\ rs' = refetch([rs EXCEPT !.sub = TRUE], TRUE)
  /\ reqs' = reqs \o ListRequest(rs)
  /\ UNCHANGED <<files, answers, events, waiters, st, snap, dismissed, link, ctl, left, faults>>

\* withSingleFlight and applyMutation, up to the call.  A mutation behind
\* another one waits for that one only.
applyMutation(op) ==
  IF rs.lead
  THEN /\ waiters' = Append(waiters, op)
       /\ UNCHANGED <<rs, reqs>>
  ELSE /\ rs' = [captureRevertBaseline(rs) EXCEPT !.lead = TRUE]
       /\ reqs' = Append(reqs, MutationRequest(op, TRUE))
       /\ UNCHANGED waiters

\* The groups that can be dragged, and take a rule that is dropped.
openGroups(m) == {i \in DOMAIN m.groups : ~m.groups[i].locked}

swapGroups(m, i) == [m EXCEPT !.groups[i] = m.groups[i + 1], !.groups[i + 1] = m.groups[i]]

\* Variant: a rule dropped on another group is only taken out of its own.
dropRuleLosing(m, i, j, k) == [m EXCEPT !.groups[i].rules = RemoveAt(@, j)]

dropRule(m, i, j, k) ==
  [[m EXCEPT !.groups[i].rules = RemoveAt(@, j)] EXCEPT
     !.groups[k].rules = <<m.groups[i].rules[j]>> \o @]

\* What dragging produces: two neighbours among the groups that are not
\* locked change places, or a rule goes to the front of a group.
Drags(m) ==
  {swapGroups(m, i) : i \in {j \in openGroups(m) : j + 1 \in openGroups(m)}}
    \cup {dropRule(m, p[1], p[2], k) :
            p \in UNION {{i} \X DOMAIN m.groups[i].rules : i \in openGroups(m)}, k \in openGroups(m)}

\* What a user may call a new group.
GroupNames == {"", "new"}

\* What the Routing page offers on the model it shows.
UserOps(m) ==
  LET gids == {g.id : g \in ToSet(m.groups)}
      rids == {r.id : r \in Rules(m)}
  IN     {[k |-> "groupAdd", name |-> n] : n \in GroupNames}
    \cup {[k |-> "groupEdit", id |-> g, enabled |-> e] : g \in gids, e \in BOOLEAN}
    \cup {[k |-> "groupRemove", id |-> g] : g \in gids}
    \cup {[k |-> "ruleAdd", id |-> g, rule |-> r] : g \in gids, r \in RuleInputs}
    \cup {[k |-> "ruleEdit", rule |-> [r EXCEPT !.id = i]] : r \in RuleInputs, i \in rids}
    \cup {[k |-> "ruleRemove", id |-> i] : i \in rids}
    \cup {[k |-> "ruleToggle", id |-> i] : i \in rids}
    \cup {[k |-> "ruleMove", id |-> i, dest |-> g] : i \in rids, g \in gids}
    \cup {[k |-> "drag", next |-> n] : n \in Drags(m)}
    \cup (IF link = <<>> THEN {} ELSE {[k |-> "import", link |-> link]})

\* A user who waits sees the effect of one edit before the next.
Patient == "hasty" \in faults \/ (RulesQuiet /\ rs.boot)
Apart   == "rush" \in faults \/ (ctl.state \in {"idle", "connected"} /\ statusEvents = <<>>)

EditRules ==
  /\ rs.sub /\ Patient /\ Apart
  /\ Spend("edits")
  /\ \E op \in UserOps(rs.view) : applyMutation(op)
  /\ UNCHANGED <<files, answers, events, st, snap, dismissed, link, ctl, faults>>

rulesExportGroup ==
  /\ rs.boot /\ RulesQuiet
  /\ Spend("links")
  /\ \E g \in ToSet(rs.view.groups) : link' = ExportGroup(Load(rulesFile), g.id)
  /\ UNCHANGED <<files, channel, events, rs, waiters, st, snap, dismissed, ctl, faults>>

\* RulesService, through the handlers: the operation a request names.
Serve(op, m) ==
  LET id == NewIds[minted + 1]
  IN CASE op.k = "groupAdd"    -> GroupAdd(m, id, op.name)
       [] op.k = "groupEdit"   -> GroupEdit(m, op.id, "renamed", op.enabled)
       [] op.k = "groupRemove" -> GroupRemove(m, op.id)
       [] op.k = "ruleAdd"     -> RuleAdd(m, op.id, id, op.rule)
       [] op.k = "ruleEdit"    -> RuleEdit(m, op.rule)
       [] op.k = "ruleRemove"  -> RuleRemove(m, op.id)
       [] op.k = "ruleToggle"  -> RuleToggle(m, op.id)
       [] op.k = "ruleMove"    -> RuleMove(m, op.id, op.dest)
       [] op.k \in {"drag", "revert"} -> ReplaceModel(m, op.next)
       [] op.k = "import"      -> ImportApply(m, SubSeq(NewIds, minted + 1, Len(NewIds)), op.link)

IdsUsed(op) ==
  CASE op.k \in {"groupAdd", "ruleAdd"} -> 1
    [] op.k = "import" -> Minted(op.link)
    [] OTHER -> 0

HandleRules(i) ==
  /\ reqs[i].to = "rules"
  /\ minted + IdsUsed(reqs[i].op) <= Len(NewIds)
  /\ LET op == reqs[i].op
         r  == Serve(op, Load(rulesFile))
     IN \E saved \in (IF "save" \in faults THEN BOOLEAN ELSE {TRUE}) :
          LET ok == r.ok /\ saved
          IN /\ rulesFile' = IF ok THEN Save(r.model) ELSE rulesFile
             /\ minted' = IF r.ok THEN minted + IdsUsed(op) ELSE minted
             /\ rulesEvents' = IF ok /\ rs.sub THEN rulesEvents + 1 ELSE rulesEvents
             /\ answers' = Append(answers, [to |-> "rules", op |-> op, lead |-> reqs[i].lead, ok |-> ok])
  /\ reqs' = RemoveAt(reqs, i)
  /\ UNCHANGED <<cfgFile, statusEvents, ui, ctl, left, faults>>

HandleList(i) ==
  /\ reqs[i].to = "list"
  /\ \E ok \in (IF "list" \in faults THEN BOOLEAN ELSE {TRUE}) :
       answers' = Append(answers, [to |-> "list", ok |-> ok, view |-> Load(rulesFile)])
  /\ reqs' = RemoveAt(reqs, i)
  /\ UNCHANGED <<files, events, ui, ctl, left, faults>>

\* Variant: the model is not read again after a mutation.
MutatedNoRead(r, ok) == IF ok THEN [r EXCEPT !.echoes = @ + 1] ELSE r

\* applyMutation after the call.
Mutated(r, ok) == IF ok THEN refetch([r EXCEPT !.echoes = @ + 1], TRUE) ELSE r

\* rulesRevertToBaseline after the write
Reverted(r, a) == IF a.ok /\ a.op.k = "revert" THEN [r EXCEPT !.base = <<>>] ELSE r

\* The end of a mutation; the waiters of the leading one all start.
MutationAnswered(i) ==
  /\ answers[i].to = "rules"
  /\ LET a    == answers[i]
         go   == IF a.lead THEN waiters ELSE <<>>
         done == Mutated([rs EXCEPT !.lead = @ /\ ~a.lead], a.ok)
         base == IF go = <<>> THEN done ELSE captureRevertBaseline(done)
     IN /\ rs' = Reverted(base, a)
        /\ reqs' = reqs \o (IF done.reading = rs.reading THEN <<>> ELSE ListRequest(rs))
                        \o [j \in 1..Len(go) |-> MutationRequest(go[j], FALSE)]
        /\ waiters' = IF a.lead THEN <<>> ELSE waiters
  /\ answers' = RemoveAt(answers, i)
  /\ UNCHANGED <<files, events, st, snap, dismissed, link, ctl, left, faults>>

\* setCurrentRulesSignature, in settings.ts: a snapshot taken before the
\* rules were known adopts the first signature.
setCurrentRulesSignature(sig) ==
  IF rs.sig = sig THEN UNCHANGED <<snap, dismissed>>
  ELSE /\ dismissed' = [dismissed EXCEPT !.rules = FALSE]
       /\ snap' = IF snap # <<>> /\ snap[1].sig = <<>> THEN <<[snap[1] EXCEPT !.sig = sig]>> ELSE snap

\* doRefetch after the call, and pushRulesSignature, which also follows a failure
Refetched(i) ==
  /\ answers[i].to = "list"
  /\ LET a    == answers[i]
         next == IF a.ok THEN [rs EXCEPT !.view = a.view, !.boot = TRUE, !.reading = "no"]
                 ELSE [rs EXCEPT !.reading = "no"]
         sig  == <<next.view>>
     IN IF rs.reading = "push"
        THEN rs' = [next EXCEPT !.sig = sig] /\ setCurrentRulesSignature(sig)
        ELSE rs' = next /\ UNCHANGED <<snap, dismissed>>
  /\ answers' = RemoveAt(answers, i)
  /\ UNCHANGED <<files, reqs, events, waiters, st, link, ctl, left, faults>>

\* The handler of rules:changed: one echo is swallowed for each own write.
RulesChanged ==
  /\ rulesEvents > 0
  /\ rulesEvents' = rulesEvents - 1
  /\ IF rs.echoes > 0
     THEN rs' = [rs EXCEPT !.echoes = @ - 1] /\ UNCHANGED reqs
     ELSE rs' = refetch(rs, FALSE) /\ reqs' = reqs \o ListRequest(rs)
  /\ UNCHANGED <<files, answers, statusEvents, waiters, st, snap, dismissed, link, ctl, left, faults>>

---------------------------------------------------------------------------
(* settings.ts                                                             *)

SettingsQuiet ==
  /\ Under(reqs, "update") \cup Under(reqs, "get") = {}
  /\ Under(answers, "update") \cup Under(answers, "get") = {}
  /\ st.pend = NoPatch /\ st.inFlight = 0

GetRequest(why) == [to |-> "get", why |-> why]

\* subscribe: the first mount reads the settings and registers for vpn:status;
\* a later one tries again if that read failed.  Its handler of
\* settings:changed is never called: the bridge gives SettingsService no hub.
loadFromBackend ==
  /\ ~st.started
  /\ st' = [st EXCEPT !.started = TRUE]
  /\ reqs' = Append(reqs, GetRequest("boot"))
  /\ UNCHANGED <<files, answers, events, rs, waiters, snap, dismissed, link, ctl, left, faults>>

\* update of useSettings: shown at once, sent when the timer fires.
EditSetting(k, v) ==
  /\ st.started
  /\ Spend("sets")
  /\ v # st.cur[k]
  /\ LET patch == [x \in {k} |-> v]
     IN st' = [st EXCEPT !.cur = Overlay(@, patch),
                         !.pend = [x \in DOMAIN @ \cup {k} |-> IF x = k THEN v ELSE @[x]]]
  /\ dismissed' = [dismissed EXCEPT !.net = FALSE]
  /\ UNCHANGED <<files, channel, events, rs, waiters, snap, link, ctl, faults>>

\* flushSettings: one update for each section.
flushSettings ==
  /\ st.pend # NoPatch
  /\ LET parts == SetToSeq(frontendToBackend(st.pend))
         n     == st.flushed + 1
     IN /\ st' = [st EXCEPT !.pend = NoPatch, !.inFlight = @ + 1,
                            !.flushed = n, !.open = Append(@, Len(parts))]
        /\ reqs' = reqs \o [j \in 1..Len(parts) |->
             [to |-> "update", flush |-> n, section |-> parts[j][1], patch |-> parts[j][2]]]
  /\ UNCHANGED <<files, answers, events, rs, waiters, snap, dismissed, link, ctl, left, faults>>

\* The mode switch of the dashboard writes its setting by itself (persistMode).
PickMode ==
  /\ st.started
  /\ Spend("modes")
  /\ \E mode \in Inputs("defaultMode") :
       reqs' = Append(reqs, [to |-> "update", flush |-> 0, section |-> "network",
                             patch |-> [k \in {"defaultMode"} |-> mode]])
  /\ UNCHANGED <<files, answers, events, ui, ctl, faults>>

\* SettingsService.Update
HandleUpdate(i) ==
  /\ reqs[i].to = "update"
  /\ LET r == UpdateSection(cfgFile, reqs[i].section, reqs[i].patch)
     IN \E saved \in (IF "save" \in faults THEN BOOLEAN ELSE {TRUE}) :
          LET ok == r.ok /\ saved
          IN cfgFile' = IF ok THEN r.config ELSE cfgFile
  /\ answers' = Append(answers, [to |-> "update", flush |-> reqs[i].flush])
  /\ reqs' = RemoveAt(reqs, i)
  /\ UNCHANGED <<rulesFile, minted, events, ui, ctl, left, faults>>

\* SettingsService.Get
HandleGet(i) ==
  /\ reqs[i].to = "get"
  /\ \E ok \in (IF "get" \in faults THEN BOOLEAN ELSE {TRUE}) :
       answers' = Append(answers, [to |-> "get", why |-> reqs[i].why, ok |-> ok, view |-> toView(cfgFile)])
  /\ reqs' = RemoveAt(reqs, i)
  /\ UNCHANGED <<files, events, ui, ctl, left, faults>>

\* Variant: the counter is not lowered when a flush ends.
FlushEndedStuck(s) == s

\* The finally block of flushNow
FlushEnded(s) == [s EXCEPT !.inFlight = IF @ > 0 THEN @ - 1 ELSE 0]

\* Variant: nothing is read back after a flush.
ReadBackNever(s) == <<>>

\* Only the last flush under way reads the settings back.
ReadBack(s) == IF s.inFlight = 0 THEN <<GetRequest("flush")>> ELSE <<>>

\* flushNow after its calls: allSettled waits for every section.
UpdateAnswered(i) ==
  /\ answers[i].to = "update"
  /\ LET n == answers[i].flush
     IN IF n = 0 THEN UNCHANGED <<st, reqs>>
        ELSE LET counted == [st EXCEPT !.open[n] = @ - 1]
                 ended   == FlushEnded(counted)
             IN IF counted.open[n] > 0
                THEN st' = counted /\ UNCHANGED reqs
                ELSE st' = ended /\ reqs' = reqs \o ReadBack(ended)
  /\ answers' = RemoveAt(answers, i)
  /\ UNCHANGED <<files, events, rs, waiters, snap, dismissed, link, ctl, left, faults>>

\* The answer to a read; an edit made since wins.
GetAnswered(i) ==
  /\ answers[i].to = "get"
  /\ LET a == answers[i]
         disk == Overlay(st.cur, backendToFrontend(a.view))
     IN st' = IF a.ok THEN [st EXCEPT !.cur = Overlay(disk, st.pend)]
              ELSE IF a.why = "boot" THEN [st EXCEPT !.started = FALSE] ELSE st
  /\ answers' = RemoveAt(answers, i)
  /\ UNCHANGED <<files, reqs, events, rs, waiters, snap, dismissed, link, ctl, left, faults>>

---------------------------------------------------------------------------
(* The controller, as far as it reads the documents, and vpn:status        *)

Connect ==
  /\ ctl.state = "idle"
  /\ "rush" \in faults \/ (RulesQuiet /\ statusEvents = <<>>)
  /\ Spend("connects")
  /\ \E mode \in Inputs("defaultMode") : ctl' = [ctl EXCEPT !.state = "reading", !.mode = mode]
  /\ UNCHANGED <<files, channel, events, ui, faults>>

\* bringUp reads the network settings before it calls the builder.
ReadNetwork ==
  /\ ctl.state = "reading"
  /\ ctl' = [ctl EXCEPT !.state = "building", !.net = cfgFile]
  /\ UNCHANGED <<files, channel, events, ui, left, faults>>

\* geo.Manager.Resolve: a file for each tag it was asked for.
Resolved(m) == GeoTags(m)

buildConfigs ==
  /\ ctl.state = "building"
  /\ LET m  == Load(rulesFile)
         in == SingboxInput(ctl.mode, ctl.net, m, Resolved(m))
     IN \E found \in (IF "build" \in faults THEN BOOLEAN ELSE {TRUE}) :
          LET doc == BuildSingbox(in)
          IN IF found /\ doc.ok
             THEN /\ ctl' = [ctl EXCEPT !.state = "connected", !.rules = m, !.doc = doc, !.in = in]
                  /\ statusEvents' = Append(statusEvents, [status |-> "connected", mode |-> ctl.mode, net |-> ctl.net])
             ELSE /\ ctl' = [ctl EXCEPT !.state = "idle"]
                  /\ statusEvents' = Append(statusEvents, [status |-> "error"])
  /\ UNCHANGED <<files, channel, rulesEvents, ui, left, faults>>

Disconnect ==
  /\ ctl.state = "connected" /\ left["connects"] > 0
  /\ ctl' = [ctl EXCEPT !.state = "idle"]
  /\ statusEvents' = Append(statusEvents, [status |-> "idle"])
  /\ UNCHANGED <<files, channel, rulesEvents, ui, left, faults>>

\* Variant: the snapshot keeps the signature it had.
SnapshotOldSignature(mode, net, sig) ==
  <<[mode |-> mode, net |-> net, sig |-> IF snap = <<>> THEN <<EmptyView>> ELSE snap[1].sig]>>

\* snapshotFromConnectedPayload
Snapshot(mode, net, sig) == <<[mode |-> mode, net |-> net, sig |-> sig]>>

\* Variant: the baseline of an undo outlives the connection it belongs to.
BaselineKept(r) == r

\* clearRulesRevertBaseline, a listener of the snapshot once rulesStore has booted
clearRulesRevertBaseline(r) == IF r.sub THEN [r EXCEPT !.base = <<>>] ELSE r

\* The handler of vpn:status in settings.ts
StatusEvent ==
  /\ statusEvents # <<>> /\ st.started
  /\ statusEvents' = Tail(statusEvents)
  /\ dismissed' = [rules |-> FALSE, net |-> FALSE]
  /\ LET e == Head(statusEvents)
     IN IF e.status = "connected"
        THEN snap' = Snapshot(e.mode, e.net, rs.sig) /\ rs' = clearRulesRevertBaseline(rs)
        ELSE snap' = <<>> /\ UNCHANGED rs
  /\ UNCHANGED <<files, channel, rulesEvents, waiters, st, link, ctl, left, faults>>

\* networkDiffersFromSnapshot, rulesDiffer, reconnectNeeded
NetworkDiffers  == snap # <<>> /\ Differs(st.cur, snap[1].net)
rulesDiffer     == snap # <<>> /\ rs.sig # snap[1].sig
reconnectNeeded == \/ NetworkDiffers /\ ~dismissed.net
                   \/ rulesDiffer /\ ~dismissed.rules

\* handleDismiss: also undoes the edits of the rules.
Dismiss ==
  /\ reconnectNeeded /\ Patient /\ Apart
  /\ Spend("dismissals")
  /\ dismissed' = [rules |-> TRUE, net |-> TRUE]
  /\ IF rs.base = <<>> THEN UNCHANGED <<rs, reqs, waiters>>
     ELSE applyMutation([k |-> "revert", next |-> rs.base[1]])
  /\ UNCHANGED <<files, answers, events, st, snap, link, ctl, faults>>

\* handleReconnect: stop, and start in the mode of the snapshot.
Reconnect ==
  /\ reconnectNeeded /\ ctl.state = "connected"
  /\ "rush" \in faults \/ (RulesQuiet /\ statusEvents = <<>>)
  /\ Spend("connects")
  /\ dismissed' = [rules |-> TRUE, net |-> TRUE]
  /\ ctl' = [ctl EXCEPT !.state = "reading", !.mode = snap[1].mode]
  /\ statusEvents' = Append(statusEvents, [status |-> "idle"])
  /\ UNCHANGED <<files, channel, rulesEvents, rs, waiters, st, snap, link, faults>>

---------------------------------------------------------------------------

Bridge ==
  \/ \E i \in Takable(reqs) : HandleRules(i) \/ HandleList(i) \/ HandleUpdate(i) \/ HandleGet(i)
  \/ ReadNetwork \/ buildConfigs

Interface ==
  \/ \E i \in Takable(answers) : MutationAnswered(i) \/ Refetched(i) \/ UpdateAnswered(i) \/ GetAnswered(i)
  \/ RulesChanged \/ StatusEvent
  \/ ensureBoot \/ loadFromBackend \/ flushSettings

User ==
  \/ EditRules \/ rulesExportGroup \/ Dismiss \/ Reconnect \/ Connect \/ Disconnect \/ PickMode
  \/ \E k \in EditKeys : \E v \in Inputs(k) : EditSetting(k, v)

Next == Bridge \/ Interface \/ User

Spec == Init /\ [][Next]_vars

---------------------------------------------------------------------------
(* Properties                                                              *)

TypeOK ==
  /\ minted \in 0..Len(NewIds)
  /\ rulesEvents \in Nat
  /\ rs.echoes \in Nat /\ rs.reading \in {"no", "quiet", "push"}
  /\ st.inFlight \in Nat /\ DOMAIN st.cur = Keys
  /\ \A k \in PortKeys : cfgFile[k] \in 1..MaxPort
  /\ ctl.state \in {"idle", "reading", "building", "connected"}
  /\ Len(snap) <= 1 /\ Len(rs.base) <= 1

\* No sequence of the service's operations removes the safety group, switches it
\* off or takes a rule out of it (the Locked and literal "safety" checks of
\* rules.go, and guardSafetyUnchanged for what the interface sends back).
SafetyKept ==
  SafetyGroups(Load(rulesFile)) = SafetyGroups(DefaultModel)

\* Both proxies listen, on ports of their own, whatever patches were merged
\* (validateNetwork after the merge, against patches that set one port at a
\* time; a port out of range is dropped).
ProxiesServed ==
  \A mode \in Inputs("defaultMode") :
    {<<"socks", cfgFile["socksPort"]>>, <<"http", cfgFile["httpPort"]>>}
      \subseteq buildInbounds(SingboxInput(mode, cfgFile, Load(rulesFile), {}))

\* The rules on disk compile, and a build fetches every rule set that the
\* document names (Validate in every operation, against Compile and GeoTags).
RulesBuild ==
  LET m == Load(rulesFile)
  IN \A mode \in Inputs("defaultMode") :
       LET doc == BuildSingbox(SingboxInput(mode, cfgFile, m, Resolved(m)))
       IN doc.ok /\ doc.resolver \subseteq doc.servers

\* Whatever the services have saved builds, so that no file written by the
\* application blocks a connect or leaves the user without a proxy.
SavedBuilds == RulesBuild /\ ProxiesServed

\* Where the generated document sends a flow is what the rules model says: the
\* first enabled rule in the order of the interface, after DNS capture and the
\* LAN, and never direct for want of a rule in TUN mode (routeRules and
\* applyTunModeKillswitch, against the reference RefVerdict).
RouteFollowsModel ==
  ctl.state = "connected" => \A f \in Flows : Verdict(ctl.doc, f) = RefVerdict(ctl.in, f)

\* When all is quiet the Routing page shows what is on disk, unless edits
\* overlap and the channel reorders (refetch joins a read under way) or a
\* read has failed.
RulesConverge ==
  (RulesQuiet /\ rs.boot /\ "list" \notin faults /\ ~({"hasty", "reorder"} \subseteq faults))
    => rs.view = Load(rulesFile)

\* When all is quiet the Settings page shows what is on disk, as far as it has
\* a name for it, also after an update that was refused, dropped or not saved
\* (flushNow's read back), unless answers overtake or a read fails.  The mode is
\* left out: the dashboard writes it past this store.
SettingsConverge ==
  (SettingsQuiet /\ st.started /\ faults \cap {"reorder", "get"} = {})
    => \A k \in Keys \ {"defaultMode"} : Known(k, toView(cfgFile)[k]) => st.cur[k] = toView(cfgFile)[k]

\* Rules edits and connects do not overlap and reads do not fail.
Orderly == faults \cap {"hasty", "rush", "list"} = {}

\* The toast compares what the tunnel was built from with what is on disk: when
\* all is quiet, the two differ exactly if the interface says so
\* (snapshotFromConnectedPayload, setCurrentRulesSignature, useReconnectNeeded).
ToastTells ==
  (/\ Orderly /\ faults \cap {"reorder", "get"} = {}
   /\ RulesQuiet /\ SettingsQuiet /\ statusEvents = <<>> /\ st.started
   /\ ctl.state = "connected" /\ snap # <<>> /\ rs.sig # <<>>)
    => /\ rulesDiffer <=> Load(rulesFile) # ctl.rules
       /\ NetworkDiffers <=> Differs(cfgFile, ctl.net)

\* Dismissing the toast restores the rules the running tunnel was built from
\* (captureRevertBaseline, clearRulesRevertBaseline, rulesRevertToBaseline).
RevertRestores ==
  [][ (/\ Orderly
       /\ rs.base # <<>> /\ rs'.base = <<>> /\ statusEvents' = statusEvents)
        => Load(rulesFile') = ctl.rules ]_vars

\* A reordering never loses or brings back a rule or a group: the model that
\* rulesReplaceAll sends was computed from what is on disk.
DragKeeps ==
  [][ (/\ "hasty" \notin faults /\ "list" \notin faults
       /\ rulesFile' # rulesFile
       /\ \E i \in Under(reqs, "rules") : reqs[i].op.k = "drag")
        => LET old == Load(rulesFile)
               new == Load(rulesFile')
           IN /\ Rules(new) = Rules(old)
              /\ {g.id : g \in ToSet(new.groups)} = {g.id : g \in ToSet(old.groups)} ]_vars

\* With nothing under way no store waits for anything: the mutex of
\* withSingleFlight is free and nobody is behind it, no read is marked as
\* running, no flush is counted, so no call hangs.
NothingStuck ==
  (reqs = <<>> /\ answers = <<>>)
    => ~rs.lead /\ waiters = <<>> /\ rs.reading = "no" /\ st.inFlight = 0

\* Both pages come to rest, and on what is on disk.
PagesConverge == RulesConverge /\ SettingsConverge /\ NothingStuck

\* Neither the undo nor a reordering writes anything but what the user has seen.
EditsKept == RevertRestores /\ DragKeeps
=============================================================================
