----------------------------- MODULE StoreSync -----------------------------
(***************************************************************************)
(* The two files the bridge keeps its servers in, servers.json and         *)
(* subscriptions.json, and everything in the bridge that rewrites them:    *)
(* SubsService (Add, Edit, Remove, SyncOne), ServersService (Add, Edit,    *)
(* Remove, ToggleFavorite, TestLatency) and the two ticks of the refresh   *)
(* driver.  The dispatcher runs handlers concurrently, so each operation   *)
(* is a goroutine of Procs.  All of them share one StoreLock; a fetch or a *)
(* probe runs without it, on what was read before, and its outcome is      *)
(* applied to the files as they are then.  An operation that writes two    *)
(* files is two steps: unlocked readers and a crash see what is between.   *)
(*                                                                         *)
(* A Save replaces its file atomically.  One that fails changes nothing;   *)
(* it is a step of its own only where the operation goes on after it.      *)
(***************************************************************************)
CONSTANTS
  Procs,     \* goroutines: RPC handlers, initial syncs, workers of the driver
  Subs,      \* subscription ids
  Urls,      \* subscription URLs, and the VLESS URIs of manual servers
  Keys,      \* the connections a subscription's list can name
  Hand,      \* the servers that can be added by hand
  Manual,    \* their source
  None,      \* no process, no value
  FaultSets  \* the combinations of faults that this instance admits

\* save: a file cannot be written; crash: the bridge dies.
FaultKinds == {"save", "crash"}

ASSUME SourcesAssumption == Manual \notin Subs /\ None \notin Subs

VARIABLES
  subs,      \* subscriptions.json: url and last status, or None
  servers,   \* servers.json: an entry for each id, or None
  lock,      \* the holder of StoreLock
  pc,        \* where each goroutine is
  job,       \* its locals: what it works on, and what it has fetched
  used,      \* the ids given out; generateSubID and generateServerID repeat none
  active,    \* the server the controller is connected to
  faults     \* the faults of this behaviour; drawn once

vars == <<subs, servers, lock, pc, job, used, active, faults>>

\* A server is named by its source and its connection.
Ids == (Subs \X Keys) \cup ({Manual} \X Hand)

Status == {"none", "ok", "error"}

Sub == [url : Urls, status : Status]

\* url is where the entry came from; it is the subscription's at the time.
Entry == [url : Urls, fav : BOOLEAN, lat : BOOLEAN]

ASSUME FaultAssumption == FaultSets \subseteq SUBSET FaultKinds
ASSUME NoneAssumption ==
  None \notin Procs /\ None \notin Urls /\ None \notin Ids /\ None \notin Sub /\ None \notin Entry

Places == {"idle", "load", "fetch", "fetched", "meta", "edit", "cascade", "delete", "probe"}

Job == [id : Subs \cup {None}, url : Urls \cup {None}, got : SUBSET Keys, ok : BOOLEAN,
        srv : Ids \cup {None}, up : SUBSET Ids, down : SUBSET Ids]

NoJob == [id |-> None, url |-> None, got |-> {}, ok |-> FALSE, srv |-> None, up |-> {}, down |-> {}]

Init ==
  /\ subs = [s \in Subs |-> None]
  /\ servers = [i \in Ids |-> None]
  /\ lock = None
  /\ pc = [p \in Procs |-> "idle"]
  /\ job = [p \in Procs |-> NoJob]
  /\ used = {}
  /\ active = None
  /\ faults \in FaultSets

Goto(p, l) == pc' = [pc EXCEPT ![p] = l]

\* A goroutine that has done: its locals are gone.
Done(p) == Goto(p, "idle") /\ job' = [job EXCEPT ![p] = NoJob]

\* The critical section that begins and ends in one step.
Locked(p) == pc[p] = "idle" /\ lock = None /\ UNCHANGED <<lock, pc, job>>

\* The first of two writes: the lock stays taken.
Lock(p, l) == lock = None /\ lock' = p /\ Goto(p, l)

Unlock(p, l) == pc[p] = l /\ lock' = None /\ Done(p)

New(u) == [url |-> u, fav |-> FALSE, lat |-> FALSE]

\* A merge that does not carry the local fields over.
MergeFresh(s, u, got) ==
  [i \in Ids |->
     IF i[1] # s THEN servers[i] ELSE IF i[2] \in got THEN New(u) ELSE None]

\* Merge: the entries of s are the ones of the list, with the local fields of
\* those that were there; the entries of other sources stay.
Merge(s, u, got) ==
  [i \in Ids |->
     IF i[1] # s THEN servers[i]
     ELSE IF i[2] \notin got THEN None
     ELSE IF servers[i] = None THEN New(u)
     ELSE [servers[i] EXCEPT !.url = u]]

Without(s) == [i \in Ids |-> IF i[1] = s THEN None ELSE servers[i]]

-----------------------------------------------------------------------------
(***************************************************************************)
(* SubsService.                                                            *)
(***************************************************************************)

\* Add appends the subscription; a goroutine of its own then runs SyncOne.
Add(p, s, u) ==
  /\ pc[p] = "idle" /\ lock = None
  /\ s \notin used
  /\ used' = used \cup {s}
  /\ subs' = [subs EXCEPT ![s] = [url |-> u, status |-> "none"]]
  /\ Goto(p, "load")
  /\ job' = [job EXCEPT ![p] = [NoJob EXCEPT !.id = s]]
  /\ UNCHANGED <<servers, lock, active, faults>>

\* SyncOne reads the subscription without the lock; so does a tick of runSub.
SyncLoad(p, s) ==
  /\ \/ pc[p] = "idle"
     \/ pc[p] = "load" /\ job[p].id = s
  /\ subs[s] # None
  /\ Goto(p, "fetch")
  /\ job' = [job EXCEPT ![p] = [NoJob EXCEPT !.id = s, !.url = subs[s].url]]
  /\ UNCHANGED <<subs, servers, lock, used, active, faults>>

\* errSubNotFound: the subscription was removed before its first sync began.
SyncGone(p) ==
  /\ pc[p] = "load"
  /\ subs[job[p].id] = None
  /\ Done(p)
  /\ UNCHANGED <<subs, servers, lock, used, active, faults>>

\* FetchParse: a list of at least one server, or (got = {}) an error.
FetchParse(p) ==
  /\ pc[p] = "fetch"
  /\ \E got \in SUBSET Keys : job' = [job EXCEPT ![p].got = got]
  /\ Goto(p, "fetched")
  /\ UNCHANGED <<subs, servers, lock, used, active, faults>>

\* The driver's worker is cancelled (its subscription was removed or edited, or
\* the bridge is ending), or what it needs cannot be read or written.
Cancelled(p) ==
  /\ pc[p] \in {"fetch", "fetched", "probe"}
  /\ Done(p)
  /\ UNCHANGED <<subs, servers, lock, used, active, faults>>

\* SyncOne that looks for the id alone.
MatchesId(p) == subs[job[p].id] # None

\* SyncOne that does not notice that the subscription is gone.
MatchesGone(p) == subs[job[p].id] # None => subs[job[p].id].url = job[p].url

Matches(p) == subs[job[p].id] # None /\ subs[job[p].id].url = job[p].url

\* Under the lock, the subscription is gone or has another URL by now.
SyncStale(p) ==
  /\ pc[p] = "fetched" /\ lock = None
  /\ ~Matches(p)
  /\ Done(p)
  /\ UNCHANGED <<subs, servers, lock, used, active, faults>>

\* A commit that takes a failed fetch for an empty list.
SyncCommitEmpty(p) ==
  /\ pc[p] = "fetched"
  /\ Matches(p)
  /\ Lock(p, "meta")
  /\ servers' = Merge(job[p].id, job[p].url, job[p].got)
  /\ job' = [job EXCEPT ![p].ok = TRUE]
  /\ UNCHANGED <<subs, used, active, faults>>

\* The fetched list is merged into the file as it is now; a failed fetch
\* leaves the file alone, a failed Save demotes the status.
SyncCommit(p) ==
  /\ pc[p] = "fetched"
  /\ Matches(p)
  /\ Lock(p, "meta")
  /\ \/ /\ job[p].got # {}
        /\ servers' = Merge(job[p].id, job[p].url, job[p].got)
        /\ job' = [job EXCEPT ![p].ok = TRUE]
     \/ /\ job[p].got = {} \/ "save" \in faults
        /\ UNCHANGED <<servers, job>>
  /\ UNCHANGED <<subs, used, active, faults>>

\* UpdateMeta, best effort, and the end of the critical section.
UpdateMeta(p) ==
  /\ Unlock(p, "meta")
  /\ \/ subs' = [subs EXCEPT ![job[p].id].status = IF job[p].ok THEN "ok" ELSE "error"]
     \/ "save" \in faults /\ UNCHANGED subs
  /\ UNCHANGED <<servers, used, active, faults>>

\* Edit with a new URL: first the servers of the old one go ...
Edit(p, s, u) ==
  /\ pc[p] = "idle"
  /\ subs[s] # None
  /\ subs[s].url # u
  /\ Lock(p, "edit")
  /\ servers' = Without(s)
  /\ job' = [job EXCEPT ![p] = [NoJob EXCEPT !.id = s, !.url = u]]
  /\ UNCHANGED <<subs, used, active, faults>>

\* ... then the subscription gets the URL, and loses the old one's status.
EditSave(p) ==
  /\ Unlock(p, "edit")
  /\ \/ subs' = [subs EXCEPT ![job[p].id] = [url |-> job[p].url, status |-> "none"]]
     \/ "save" \in faults /\ UNCHANGED subs
  /\ UNCHANGED <<servers, used, active, faults>>

\* Remove rewrites the subscriptions without s, also when s is not there ...
Remove(p, s) ==
  /\ pc[p] = "idle"
  /\ s \in used
  /\ Lock(p, "cascade")
  /\ subs' = [subs EXCEPT ![s] = None]
  /\ job' = [job EXCEPT ![p] = [NoJob EXCEPT !.id = s]]
  /\ UNCHANGED <<servers, used, active, faults>>

\* ... and drops the servers it imported, best effort.
Cascade(p) ==
  /\ Unlock(p, "cascade")
  /\ \/ servers' = Without(job[p].id)
     \/ "save" \in faults /\ UNCHANGED servers
  /\ UNCHANGED <<subs, used, active, faults>>

-----------------------------------------------------------------------------
(***************************************************************************)
(* ServersService.                                                         *)
(***************************************************************************)

ToggleFavorite(p, i) ==
  /\ Locked(p)
  /\ servers[i] # None
  /\ servers' = [servers EXCEPT ![i].fav = ~@]
  /\ UNCHANGED <<subs, used, active, faults>>

ServerAdd(p, i, u) ==
  /\ Locked(p)
  /\ i[1] = Manual /\ i \notin used
  /\ used' = used \cup {i}
  /\ servers' = [servers EXCEPT ![i] = New(u)]
  /\ UNCHANGED <<subs, active, faults>>

\* Only manual servers; the id and the local fields stay.
ServerEdit(p, i, u) ==
  /\ Locked(p)
  /\ i[1] = Manual /\ servers[i] # None
  /\ servers' = [servers EXCEPT ![i].url = u]
  /\ UNCHANGED <<subs, used, active, faults>>

\* Manual servers, and those whose subscription is gone; not the active one.
\* The question to the controller and the write are two steps: StoreLock does
\* not keep the controller from starting.
ServerRemove(p, i) ==
  /\ pc[p] = "idle"
  /\ servers[i] # None
  /\ i[1] # Manual => subs[i[1]] = None
  /\ active # i
  /\ Lock(p, "delete")
  /\ job' = [job EXCEPT ![p] = [NoJob EXCEPT !.srv = i]]
  /\ UNCHANGED <<subs, servers, used, active, faults>>

ServerDelete(p) ==
  /\ Unlock(p, "delete")
  /\ servers' = [servers EXCEPT ![job[p].srv] = None]
  /\ UNCHANGED <<subs, used, active, faults>>

\* TestLatency and probeOnce take a list and probe it without the lock; up are
\* the servers that answered.
Probe(p) ==
  /\ pc[p] = "idle"
  /\ LET all == {i \in Ids : servers[i] # None} IN
       \E up \in SUBSET all :
         job' = [job EXCEPT ![p] = [NoJob EXCEPT !.up = up, !.down = all \ up]]
  /\ Goto(p, "probe")
  /\ UNCHANGED <<subs, servers, lock, used, active, faults>>

\* The results go, by id, to the entries that are still there.  down is erased
\* by the driver's probe and left alone by TestLatency.
ProbeApply(p) ==
  /\ pc[p] = "probe" /\ lock = None
  /\ \E down \in {{}, job[p].down} :
       servers' = [i \in Ids |->
         IF servers[i] # None /\ i \in job[p].up \cup down
         THEN [servers[i] EXCEPT !.lat = i \in job[p].up] ELSE servers[i]]
  /\ Done(p)
  /\ UNCHANGED <<subs, lock, used, active, faults>>

-----------------------------------------------------------------------------
(***************************************************************************)
(* The controller and the process.                                         *)
(***************************************************************************)

\* Controller.Start looks the server up and claims it under its own mutex.
Start(i) ==
  /\ active = None
  /\ servers[i] # None
  /\ active' = i
  /\ UNCHANGED <<subs, servers, lock, pc, job, used, faults>>

Stop ==
  /\ active # None
  /\ active' = None
  /\ UNCHANGED <<subs, servers, lock, pc, job, used, faults>>

\* The bridge dies and is started again; the files are what is left of it.
Crash ==
  /\ "crash" \in faults
  /\ lock' = None
  /\ pc' = [p \in Procs |-> "idle"]
  /\ job' = [p \in Procs |-> NoJob]
  /\ active' = None
  /\ UNCHANGED <<subs, servers, used, faults>>

Next ==
  \/ \E p \in Procs :
       \/ \E s \in Subs, u \in Urls : Add(p, s, u) \/ Edit(p, s, u)
       \/ \E s \in Subs : SyncLoad(p, s) \/ Remove(p, s)
       \/ \E i \in Ids, u \in Urls : ServerAdd(p, i, u) \/ ServerEdit(p, i, u)
       \/ \E i \in Ids : ToggleFavorite(p, i) \/ ServerRemove(p, i)
       \/ SyncGone(p) \/ FetchParse(p) \/ Cancelled(p) \/ SyncStale(p)
       \/ SyncCommit(p) \/ UpdateMeta(p) \/ EditSave(p) \/ Cascade(p)
       \/ ServerDelete(p) \/ Probe(p) \/ ProbeApply(p)
  \/ \E i \in Ids : Start(i)
  \/ Stop
  \/ Crash

Spec == Init /\ [][Next]_vars

-----------------------------------------------------------------------------
(***************************************************************************)
(* Properties.                                                             *)
(***************************************************************************)

\* Every field and every local of the two stores' goroutines has its type.
TypeOK ==
  /\ subs \in [Subs -> Sub \cup {None}]
  /\ servers \in [Ids -> Entry \cup {None}]
  /\ lock \in Procs \cup {None}
  /\ pc \in [Procs -> Places]
  /\ job \in [Procs -> Job]
  /\ used \subseteq Subs \cup Ids
  /\ active \in Ids \cup {None}

\* The servers of a subscription come from the URL it has: a fetch of the old
\* URL that ends after Edit, a write that fails and a crash between the two
\* writes of Edit included.
ServersOfCurrentURL ==
  \A s \in Subs, k \in Keys :
    subs[s] # None /\ servers[<<s, k>>] # None =>
      servers[<<s, k>>].url = subs[s].url

\* A sync never brings back the servers of a subscription that was removed
\* while it ran: as long as every write succeeds, a server whose subscription
\* is gone is one that Remove is about to drop.
NoOrphans ==
  faults = {} =>
    \A s \in Subs, k \in Keys :
      subs[s] = None /\ servers[<<s, k>>] # None =>
        \E p \in Procs : pc[p] = "cascade" /\ job[p].id = s

\* The status ok is never shown for a subscription without servers, whatever
\* syncs, edits and removals overlap, except between the two writes of Edit, as
\* long as every write succeeds.
OkHasServers ==
  faults = {} =>
    \A s \in Subs :
      subs[s] # None /\ subs[s].status = "ok" =>
        \/ \E k \in Keys : servers[<<s, k>>] # None
        \/ \E p \in Procs : pc[p] = "edit" /\ job[p].id = s

\* The two files tell one story while every write succeeds: no server without
\* its subscription, no ok without servers.
StoresAgree == NoOrphans /\ OkHasServers

\* A favourite is lost or gained only by a step that does nothing else: no
\* sync, edit or probe that ran meanwhile writes an older flag back.
FavouritesKept ==
  [][\A i \in Ids :
       servers[i] # None /\ servers'[i] # None /\ servers[i].fav # servers'[i].fav =>
         servers' = [servers EXCEPT ![i].fav = ~@]]_vars

\* What Remove says of a server: it refuses while the server is the active one.
ActiveStored ==
  active # None /\ active[1] = Manual => servers[active] # None

\* What the comment on Remove says of a subscription: its servers stay.  TLC
\* refutes it: Remove drops them.
RemoveKeepsServers ==
  [][\A p \in Procs : pc[p] = "cascade" => servers' = servers]_vars

=============================================================================
