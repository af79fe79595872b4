---------------------------- MODULE RefreshDriver ----------------------------
(***************************************************************************)
(* refresh.Driver: the goroutine of each subscription, and the reconcile   *)
(* of every second that starts and cancels them while the user adds, edits *)
(* and removes subscriptions; what is published when servers.json changes. *)
(* What the stores hold after overlapping syncs is StoreSync's subject;    *)
(* here a commit is one step and a server is its id.                       *)
(***************************************************************************)
EXTENDS EventPipe

CONSTANTS
  SubIds,    \* ids of subscriptions; an id is never used twice
  Urls,      \* their addresses
  Offered,   \* Offered[u]: the servers that address u lists
  Manual     \* servers that belong to no subscription

ASSUME OfferedAssumption == \A u \in Urls : Offered[u] # {}

New  == "new"     \* an id that is not in use yet
Gone == "gone"    \* a removed one
Absent(u) == u \in {New, Gone}

\* The goroutines of one id: two places, so that a second one can be told apart.
Places == {1, 2}
NoPlace == 0

VARIABLES
  subs,     \* subscriptions.json: the address of each id
  src,      \* servers.json: the servers each subscription has brought
  asked,    \* the address a SyncOne of the user is fetching
  workers,  \* Run's map: the place of the goroutine of each id
  gor,      \* gor[i][k]: where it is, its first and its present address
  seen      \* the subscriptions that reconcile has loaded, if it is under way

refresh == <<subs, src, asked, workers, gor, seen>>

Listed == Manual \cup UNION {src[i] : i \in SubIds}

NoGor == [at |-> "none", first |-> New, url |-> New, live |-> TRUE, ok |-> FALSE]
Alive(i, k) == gor[i][k].at \notin {"none", "end"}

RefreshInit ==
  /\ subs \in [SubIds -> Urls \cup {New}]
  /\ src = [i \in SubIds |-> {}] /\ asked = [i \in SubIds |-> New]
  /\ workers = [i \in SubIds |-> NoPlace]
  /\ gor = [i \in SubIds |-> [k \in Places |-> NoGor]]
  /\ seen = <<>>

---------------------------------------------------------------------------
(* Run: reconcile, once at the start and then every second                 *)

\* What a tick would start, cancel or reap; a tick that finds nothing of the
\* kind, or whose load fails, changes nothing and is left out.
Due(i) ==
  LET k == workers[i]
  IN IF k = NoPlace THEN ~Absent(subs[i])
     ELSE gor[i][k].at = "end" \/ (gor[i][k].live /\ subs[i] # gor[i][k].first)

ReconcileLoad ==
  /\ bridge.ctx /\ seen = <<>> /\ \E i \in SubIds : Due(i)
  /\ seen' = <<subs>>
  /\ UNCHANGED <<subs, src, asked, workers, gor>>

Seen(i) == seen[1][i]

\* The worker's subscription is gone or has another address.
Outdated(i) == workers[i] # NoPlace /\ (Absent(Seen(i)) \/ Seen(i) # gor[i][workers[i]].first)

\* Variant: a cancelled worker leaves the map before it has ended.
ReapedAtOnce(i) == workers[i] # NoPlace /\ (gor[i][workers[i]].at = "end" \/ Outdated(i))

\* Variant: an ended worker stays in the map while its subscription is listed.
ReapedOutdated(i) == workers[i] # NoPlace /\ gor[i][workers[i]].at = "end" /\ Outdated(i)

\* Its goroutine has ended (done is closed): the entry may go.
Reaped(i) == workers[i] # NoPlace /\ gor[i][workers[i]].at = "end"

ReconcileApply ==
  /\ seen # <<>>
  /\ LET starts == {i \in SubIds : ~Absent(Seen(i)) /\ (workers[i] = NoPlace \/ Reaped(i))}
         free(i) == CHOOSE k \in Places : ~Alive(i, k)
     IN /\ \A i \in starts : \E k \in Places : ~Alive(i, k)
        /\ workers' = [i \in SubIds |-> IF i \in starts THEN free(i)
                                        ELSE IF Reaped(i) THEN NoPlace ELSE workers[i]]
        /\ gor' = [i \in SubIds |-> [k \in Places |->
             IF i \in starts /\ k = free(i)
             THEN [NoGor EXCEPT !.at = "wait", !.first = Seen(i), !.url = Seen(i)]
             ELSE IF gor[i][k].at = "end" /\ Reaped(i) THEN NoGor
             ELSE IF Outdated(i) /\ k = workers[i] THEN [gor[i][k] EXCEPT !.live = FALSE]
             ELSE gor[i][k]]]
  /\ seen' = <<>>
  /\ UNCHANGED <<subs, src, asked>>

---------------------------------------------------------------------------
(* runSub and syncOne: one goroutine                                       *)

\* ctx.Done of a worker: its own cancel, or that of the whole driver.
Cancelled(i, k) == ~gor[i][k].live \/ ~bridge.ctx

Moves(i, k, g) == gor' = [gor EXCEPT ![i][k] = g]

SeesCancel(i, k) ==
  /\ gor[i][k].at = "wait" /\ Cancelled(i, k)
  /\ Moves(i, k, [gor[i][k] EXCEPT !.at = "end"])
  /\ UNCHANGED <<subs, src, asked, workers, seen>>

\* The timer: a fresh load, the address of now; no subscription, no worker.
TimerFires(i, k) ==
  /\ gor[i][k].at = "wait" /\ bridge.ctx
  /\ Moves(i, k, IF Absent(subs[i]) THEN [gor[i][k] EXCEPT !.at = "end"]
                 ELSE [gor[i][k] EXCEPT !.at = "fetch", !.url = subs[i]])
  /\ UNCHANGED <<subs, src, asked, workers, seen>>

\* syncWithRetry: the last attempt has a result; a cancelled one fails.
FetchDone(i, k) ==
  /\ gor[i][k].at = "fetch"
  /\ \E ok \in BOOLEAN :
       /\ ok => ~Cancelled(i, k)
       /\ ok \/ "fetch" \in faults \/ Cancelled(i, k)
       /\ Moves(i, k, [gor[i][k] EXCEPT !.at = "commit", !.ok = ok])
  /\ UNCHANGED <<subs, src, asked, workers, seen>>

\* runSub's recover: the goroutine ends and reconcile starts another.
Panic(i, k) ==
  /\ gor[i][k].at = "fetch" /\ "panic" \in faults
  /\ Moves(i, k, [gor[i][k] EXCEPT !.at = "end"])
  /\ UNCHANGED <<subs, src, asked, workers, seen>>

\* Under the lock: not cancelled, and the subscription still has the address
\* that was fetched; then the merge, and onSync's two events.
Commit(i, k) ==
  /\ gor[i][k].at = "commit" /\ Prompt
  /\ Moves(i, k, [gor[i][k] EXCEPT !.at = "wait", !.ok = FALSE])
  /\ \/ /\ ~Cancelled(i, k) /\ subs[i] = gor[i][k].url
        /\ src' = IF gor[i][k].ok THEN [src EXCEPT ![i] = Offered[gor[i][k].url]] ELSE src
        /\ Publish(<<[topic |-> "sub:synced"], [topic |-> "servers:changed"]>>)
     \/ /\ Cancelled(i, k) \/ subs[i] # gor[i][k].url
        /\ UNCHANGED src /\ Publish(<<>>)
  /\ UNCHANGED <<subs, asked, workers, seen>>

---------------------------------------------------------------------------
(* SubsService                                                             *)

\* Add; a goroutine of its own runs SyncOne.
AddSub(i, u) ==
  /\ subs[i] = New
  /\ subs' = [subs EXCEPT ![i] = u] /\ asked' = [asked EXCEPT ![i] = u]
  /\ UNCHANGED <<src, workers, gor, seen>> /\ Publish(<<>>)

\* Edit with another address: the servers of the old one go, and no event.
EditUrl(i, u) ==
  /\ ~Absent(subs[i]) /\ subs[i] # u
  /\ subs' = [subs EXCEPT ![i] = u] /\ src' = [src EXCEPT ![i] = {}]
  /\ UNCHANGED <<asked, workers, gor, seen>> /\ Publish(<<>>)

\* Remove and its cascade
RemoveSub(i) ==
  /\ ~Absent(subs[i])
  /\ subs' = [subs EXCEPT ![i] = Gone] /\ src' = [src EXCEPT ![i] = {}]
  /\ Publish(IF src[i] # {} THEN <<[topic |-> "servers:changed"]>> ELSE <<>>)
  /\ UNCHANGED <<asked, workers, gor, seen>>

\* SyncOne, from its commit on: nothing if the subscription is not the one
\* that was fetched.
SyncOne(i) ==
  /\ ~Absent(asked[i]) /\ Prompt /\ asked' = [asked EXCEPT ![i] = New]
  /\ \/ /\ subs[i] = asked[i]
        /\ \E ok \in BOOLEAN : (ok \/ "fetch" \in faults) /\
             src' = IF ok THEN [src EXCEPT ![i] = Offered[asked[i]]] ELSE src
        /\ Publish(<<[topic |-> "sub:synced"]>>)
     \/ subs[i] # asked[i] /\ UNCHANGED src /\ Publish(<<>>)
  /\ UNCHANGED <<subs, workers, gor, seen>>
=============================================================================
