------------------------- MODULE StoreSync_proofs --------------------------
(***************************************************************************)
(* Theorems of StoreSync, for any number of goroutines, subscriptions,     *)
(* URLs and servers.  What makes the properties inductive is who holds     *)
(* StoreLock (Shape), that nothing is stored under an id that was never    *)
(* given out (Fresh), and what the holder of the lock has already written  *)
(* (Clean; for the properties of a bridge whose writes succeed, Written).  *)
(***************************************************************************)
EXTENDS StoreSync, TLAPS

\* Between two writes the lock is the goroutine's; its locals name things
\* that were given out, and the subscription it reports on is in the file.
Shape ==
  \A p \in Procs :
    /\ pc[p] \in {"meta", "edit", "cascade", "delete"} => lock = p
    /\ pc[p] \in {"load", "fetch", "fetched", "meta", "edit", "cascade"} =>
         job[p].id \in Subs /\ job[p].id \in used
    /\ pc[p] \in {"fetch", "fetched", "meta", "edit"} => job[p].url \in Urls
    /\ pc[p] \in {"fetch", "fetched"} => job[p].ok = FALSE
    /\ pc[p] = "delete" => job[p].srv \in Ids
    /\ pc[p] = "meta" => subs[job[p].id] # None

\* Nothing is stored under an id that was not given out.
Fresh ==
  /\ \A s \in Subs : s \notin used =>
       subs[s] = None /\ \A k \in Keys : servers[<<s, k>>] = None
  /\ \A i \in Ids : i[1] = Manual /\ i \notin used => servers[i] = None

\* Between its two writes, Edit has left no server of the old URL.
Clean ==
  \A p \in Procs : pc[p] = "edit" => \A k \in Keys : servers[<<job[p].id, k>>] = None

Inv == TypeOK /\ Shape /\ Fresh /\ Clean /\ ServersOfCurrentURL

\* What the holder of the lock has written, when no write fails.
Written ==
  \A p \in Procs :
    /\ pc[p] = "cascade" => subs[job[p].id] = None
    /\ pc[p] = "meta" /\ job[p].ok => \E k \in Keys : servers[<<job[p].id, k>>] # None
    /\ pc[p] = "delete" /\ job[p].srv[1] # Manual => subs[job[p].srv[1]] = None

\* The facts about the entries of the server file that the steps below use:
\* changing a local field keeps an entry one, ...
LEMMA LatencySet ==
  ASSUME NEW e \in Entry, NEW x, NEW S
  PROVE  [e EXCEPT !.lat = x \in S] \in Entry
<1>1. CASE x \in S
  <2>1. [e EXCEPT !.lat = TRUE] \in Entry
    BY Zenon DEF Entry
  <2> QED BY <1>1, <2>1
<1>2. CASE x \notin S
  <2>1. [e EXCEPT !.lat = FALSE] \in Entry
    BY Zenon DEF Entry
  <2>2. (x \in S) = FALSE
    BY <1>2
  <2> QED BY <2>1, <2>2
<1> QED BY <1>1, <1>2

\* ... so does toggling its favourite flag, ...
LEMMA FavouriteSet == ASSUME NEW e \in Entry PROVE [e EXCEPT !.fav = ~@] \in Entry
BY Zenon DEF Entry

\* ... and Merge stores every server of the list and leaves other sources alone.
LEMMA MergeStores ==
  ASSUME TypeOK, NEW s \in Subs, NEW u \in Urls, NEW got \in SUBSET Keys
  PROVE  /\ Merge(s, u, got) \in [Ids -> Entry \cup {None}]
         /\ \A k \in got : Merge(s, u, got)[<<s, k>>] # None
         /\ \A i \in Ids : i[1] # s => Merge(s, u, got)[i] = servers[i]
<1>1. New(u) \in Entry
  BY DEF New, Entry
<1>2. \A i \in Ids : servers[i] # None => [servers[i] EXCEPT !.url = u] \in Entry
  BY DEF TypeOK, Entry
<1>3. \A k \in got : <<s, k>> \in Ids /\ <<s, k>>[1] = s /\ <<s, k>>[2] = k
  BY DEF Ids
<1>4. \A k \in got : Merge(s, u, got)[<<s, k>>] \in Entry
  BY <1>1, <1>2, <1>3 DEF Merge
<1>5. Merge(s, u, got) \in [Ids -> Entry \cup {None}]
  BY <1>1, <1>2 DEF Merge, TypeOK
<1>6. \A i \in Ids : i[1] # s => Merge(s, u, got)[i] = servers[i]
  BY DEF Merge
<1> QED BY <1>4, <1>5, <1>6, NoneAssumption

-----------------------------------------------------------------------------
\* Every step keeps the types; Shape says what the locals name.
LEMMA TypeStep ==
  ASSUME TypeOK, Shape, [Next]_vars
  PROVE  TypeOK'
<1> USE SourcesAssumption, NoneAssumption
<1>1. ASSUME NEW p \in Procs, NEW s \in Subs, NEW u \in Urls, Add(p, s, u) PROVE TypeOK'
  BY <1>1 DEF Add, Goto, TypeOK, Places, Job, NoJob, Sub, Status
<1>2. ASSUME NEW p \in Procs, NEW s \in Subs, SyncLoad(p, s) PROVE TypeOK'
  <2>1. subs[s] \in Sub
    BY <1>2 DEF SyncLoad, TypeOK
  <2>2. [NoJob EXCEPT !.id = s, !.url = subs[s].url] \in Job
    BY <2>1 DEF Job, NoJob, Sub
  <2> QED BY <1>2, <2>2 DEF SyncLoad, Goto, TypeOK, Places
<1>3. ASSUME NEW p \in Procs, SyncGone(p) PROVE TypeOK'
  BY <1>3 DEF SyncGone, Goto, Done, TypeOK, Places, Job, NoJob
<1>4. ASSUME NEW p \in Procs, FetchParse(p) PROVE TypeOK'
  <2>1. PICK got \in SUBSET Keys : job' = [job EXCEPT ![p].got = got]
    BY <1>4 DEF FetchParse
  <2>2. [job[p] EXCEPT !.got = got] \in Job
    BY DEF TypeOK, Job
  <2>3. job' \in [Procs -> Job]
    BY <2>1, <2>2 DEF TypeOK
  <2> QED BY <1>4, <2>3 DEF FetchParse, Goto, TypeOK, Places
<1>5. ASSUME NEW p \in Procs, Cancelled(p) PROVE TypeOK'
  BY <1>5 DEF Cancelled, Goto, Done, TypeOK, Places, Job, NoJob
<1>6. ASSUME NEW p \in Procs, SyncStale(p) PROVE TypeOK'
  BY <1>6 DEF SyncStale, Goto, Done, TypeOK, Places, Job, NoJob
<1>7. ASSUME NEW p \in Procs, SyncCommit(p) PROVE TypeOK'
  <2>1. job' \in [Procs -> Job]
    <3>1. CASE job' = job
      BY <3>1 DEF TypeOK
    <3>2. CASE job' = [job EXCEPT ![p].ok = TRUE]
      <4>1. job[p] \in Job
        BY DEF TypeOK
      <4>2. [job[p] EXCEPT !.ok = TRUE] \in Job
        BY <4>1, Zenon DEF Job
      <4>3. job' = [job EXCEPT ![p] = [job[p] EXCEPT !.ok = TRUE]]
        BY <3>2
      <4> QED BY <4>2, <4>3 DEF TypeOK
    <3> QED BY <1>7, <3>1, <3>2 DEF SyncCommit
  <2>2. job[p].id \in Subs /\ job[p].url \in Urls /\ job[p].got \in SUBSET Keys
    BY <1>7 DEF SyncCommit, Shape, TypeOK, Job
  <2>3. servers' \in [Ids -> Entry \cup {None}]
    BY <1>7, <2>2, MergeStores DEF SyncCommit, TypeOK
  <2> QED BY <1>7, <2>1, <2>3 DEF SyncCommit, Lock, Goto, TypeOK, Places
<1>8. ASSUME NEW p \in Procs, UpdateMeta(p) PROVE TypeOK'
  <2>1. subs[job[p].id] \in Sub /\ job[p].id \in Subs
    BY <1>8 DEF UpdateMeta, Unlock, TypeOK, Shape
  <2>2. subs' \in [Subs -> Sub \cup {None}]
    BY <1>8, <2>1 DEF UpdateMeta, TypeOK, Sub, Status
  <2>3. NoJob \in Job
    BY DEF NoJob, Job
  <2> QED BY <1>8, <2>2, <2>3 DEF UpdateMeta, Unlock, Done, Goto, TypeOK, Places
<1>9. ASSUME NEW p \in Procs, NEW s \in Subs, NEW u \in Urls, Edit(p, s, u) PROVE TypeOK'
  BY <1>9 DEF Edit, Goto, Lock, Without, TypeOK, Places, Job, NoJob
<1>10. ASSUME NEW p \in Procs, EditSave(p) PROVE TypeOK'
  BY <1>10 DEF EditSave, Goto, Done, Unlock, TypeOK, Shape, Places, Job, NoJob,
     Sub, Status, Ids
<1>11. ASSUME NEW p \in Procs, NEW s \in Subs, Remove(p, s) PROVE TypeOK'
  BY <1>11 DEF Remove, Goto, Lock, TypeOK, Places, Job, NoJob
<1>12. ASSUME NEW p \in Procs, Cascade(p) PROVE TypeOK'
  BY <1>12 DEF Cascade, Goto, Done, Unlock, Without, TypeOK, Places, Job, NoJob
<1>13. ASSUME NEW p \in Procs, NEW i \in Ids, ToggleFavorite(p, i) PROVE TypeOK'
  <2>1. servers[i] \in Entry
    BY <1>13 DEF ToggleFavorite, TypeOK
  <2>2. servers' \in [Ids -> Entry \cup {None}]
    BY <1>13, <2>1, FavouriteSet DEF ToggleFavorite, TypeOK
  <2> QED BY <1>13, <2>2 DEF ToggleFavorite, Locked, TypeOK
<1>14. ASSUME NEW p \in Procs, NEW i \in Ids, NEW u \in Urls, ServerAdd(p, i, u) PROVE TypeOK'
  BY <1>14 DEF ServerAdd, Locked, New, TypeOK, Entry
<1>15. ASSUME NEW p \in Procs, NEW i \in Ids, NEW u \in Urls, ServerEdit(p, i, u) PROVE TypeOK'
  BY <1>15 DEF ServerEdit, Locked, TypeOK, Entry
<1>16. ASSUME NEW p \in Procs, NEW i \in Ids, ServerRemove(p, i) PROVE TypeOK'
  BY <1>16 DEF ServerRemove, Goto, Lock, TypeOK, Places, Job, NoJob
<1>17. ASSUME NEW p \in Procs, ServerDelete(p) PROVE TypeOK'
  BY <1>17 DEF ServerDelete, Goto, Done, Unlock, TypeOK, Places, Job, NoJob
<1>18. ASSUME NEW p \in Procs, Probe(p) PROVE TypeOK'
  <2>1. PICK up \in SUBSET Ids, down \in SUBSET Ids :
          job' = [job EXCEPT ![p] = [NoJob EXCEPT !.up = up, !.down = down]]
    BY <1>18 DEF Probe
  <2>2. [NoJob EXCEPT !.up = up, !.down = down] \in Job
    BY DEF Job, NoJob
  <2>3. job' \in [Procs -> Job]
    BY <2>1, <2>2 DEF TypeOK
  <2> QED BY <1>18, <2>3 DEF Probe, Goto, TypeOK, Places
<1>19. ASSUME NEW p \in Procs, ProbeApply(p) PROVE TypeOK'
  <2>1. PICK down : servers' = [i \in Ids |->
            IF servers[i] # None /\ i \in job[p].up \cup down
            THEN [servers[i] EXCEPT !.lat = i \in job[p].up] ELSE servers[i]]
    BY <1>19 DEF ProbeApply
  <2>2. \A i \in Ids : servers[i] # None =>
          [servers[i] EXCEPT !.lat = i \in job[p].up] \in Entry
    BY LatencySet DEF TypeOK
  <2>3. servers' \in [Ids -> Entry \cup {None}]
    BY <2>1, <2>2 DEF TypeOK
  <2>4. NoJob \in Job
    BY DEF NoJob, Job
  <2> QED BY <1>19, <2>3, <2>4 DEF ProbeApply, Done, Goto, TypeOK, Places
<1>20. ASSUME NEW i \in Ids, Start(i) PROVE TypeOK'
  BY <1>20 DEF Start, TypeOK
<1>21. CASE Stop
  BY <1>21 DEF Stop, TypeOK
<1>22. CASE Crash
  BY <1>22 DEF Crash, TypeOK, Places, Job, NoJob
<1>23. CASE UNCHANGED vars
  BY <1>23 DEF vars, TypeOK
<1> QED
  BY <1>1, <1>2, <1>3, <1>4, <1>5, <1>6, <1>7, <1>8, <1>9, <1>10,
     <1>11, <1>12, <1>13, <1>14, <1>15, <1>16, <1>17, <1>18, <1>19, <1>20,
     <1>21, <1>22, <1>23 DEF Next


\* Every step keeps Shape: only its holder writes while StoreLock is taken.
LEMMA ShapeStep ==
  ASSUME TypeOK, Shape, Fresh, [Next]_vars
  PROVE  Shape'
<1> USE SourcesAssumption, NoneAssumption
<1>1. ASSUME NEW p \in Procs, NEW s \in Subs, NEW u \in Urls, Add(p, s, u) PROVE Shape'
  BY <1>1 DEF Add, Goto, TypeOK, Shape
<1>2. ASSUME NEW p \in Procs, NEW s \in Subs, SyncLoad(p, s) PROVE Shape'
  <2>1. subs[s] \in Sub /\ s \in used
    BY <1>2 DEF SyncLoad, TypeOK, Fresh
  <2>2. subs[s].url \in Urls
    BY <2>1 DEF Sub
  <2> QED BY <1>2, <2>1, <2>2 DEF SyncLoad, Goto, TypeOK, Shape, Places, Job, NoJob
<1>3. ASSUME NEW p \in Procs, SyncGone(p) PROVE Shape'
  BY <1>3 DEF SyncGone, Goto, Done, TypeOK, Shape
<1>4. ASSUME NEW p \in Procs, FetchParse(p) PROVE Shape'
  BY <1>4 DEF FetchParse, Goto, Shape
<1>5. ASSUME NEW p \in Procs, Cancelled(p) PROVE Shape'
  BY <1>5 DEF Cancelled, Goto, Done, TypeOK, Shape
<1>6. ASSUME NEW p \in Procs, SyncStale(p) PROVE Shape'
  BY <1>6 DEF SyncStale, Goto, Done, TypeOK, Shape
<1>7. ASSUME NEW p \in Procs, SyncCommit(p) PROVE Shape'
  <2>1. /\ job'[p].id = job[p].id /\ job'[p].url = job[p].url
        /\ \A q \in Procs : q # p => job'[q] = job[q] /\ pc'[q] = pc[q]
    BY <1>7 DEF SyncCommit, Lock, Goto, TypeOK, Job
  <2>2. pc'[p] = "meta" /\ lock = None /\ lock' = p /\ UNCHANGED <<subs, used>>
    BY <1>7 DEF SyncCommit, Lock, Goto, TypeOK
  <2>3. job[p].id \in Subs /\ job[p].id \in used /\ job[p].url \in Urls /\ subs[job[p].id] # None
    BY <1>7 DEF SyncCommit, Matches, Shape
  <2>4. \A q \in Procs : pc[q] \notin {"meta", "edit", "cascade", "delete"}
    BY <2>2 DEF Shape
  <2> QED BY <2>1, <2>2, <2>3, <2>4 DEF Shape
<1>8. ASSUME NEW p \in Procs, UpdateMeta(p) PROVE Shape'
  BY <1>8 DEF UpdateMeta, Goto, Done, Unlock, TypeOK, Shape
<1>9. ASSUME NEW p \in Procs, NEW s \in Subs, NEW u \in Urls, Edit(p, s, u) PROVE Shape'
  <2>1. s \in used
    BY <1>9 DEF Edit, TypeOK, Fresh
  <2> QED BY <1>9, <2>1 DEF Edit, Lock, Goto, TypeOK, Shape, Places, Job, NoJob
<1>10. ASSUME NEW p \in Procs, EditSave(p) PROVE Shape'
  BY <1>10 DEF EditSave, Goto, Done, Unlock, TypeOK, Shape
<1>11. ASSUME NEW p \in Procs, NEW s \in Subs, Remove(p, s) PROVE Shape'
  BY <1>11 DEF Remove, Goto, Lock, TypeOK, Shape
<1>12. ASSUME NEW p \in Procs, Cascade(p) PROVE Shape'
  BY <1>12 DEF Cascade, Goto, Done, Unlock, TypeOK, Shape
<1>13. ASSUME NEW p \in Procs, NEW i \in Ids, ToggleFavorite(p, i) PROVE Shape'
  BY <1>13 DEF ToggleFavorite, Locked, Shape
<1>14. ASSUME NEW p \in Procs, NEW i \in Ids, NEW u \in Urls, ServerAdd(p, i, u) PROVE Shape'
  BY <1>14 DEF ServerAdd, Locked, Shape
<1>15. ASSUME NEW p \in Procs, NEW i \in Ids, NEW u \in Urls, ServerEdit(p, i, u) PROVE Shape'
  BY <1>15 DEF ServerEdit, Locked, Shape
<1>16. ASSUME NEW p \in Procs, NEW i \in Ids, ServerRemove(p, i) PROVE Shape'
  BY <1>16 DEF ServerRemove, Goto, Lock, TypeOK, Shape
<1>17. ASSUME NEW p \in Procs, ServerDelete(p) PROVE Shape'
  BY <1>17 DEF ServerDelete, Goto, Done, Unlock, TypeOK, Shape
<1>18. ASSUME NEW p \in Procs, Probe(p) PROVE Shape'
  BY <1>18 DEF Probe, Goto, Shape
<1>19. ASSUME NEW p \in Procs, ProbeApply(p) PROVE Shape'
  BY <1>19 DEF ProbeApply, Goto, Done, Shape
<1>20. ASSUME NEW i \in Ids, Start(i) PROVE Shape'
  BY <1>20 DEF Start, Shape
<1>21. CASE Stop
  BY <1>21 DEF Stop, Shape
<1>22. CASE Crash
  BY <1>22 DEF Crash, Shape
<1>23. CASE UNCHANGED vars
  BY <1>23 DEF vars, Shape
<1> QED
  BY <1>1, <1>2, <1>3, <1>4, <1>5, <1>6, <1>7, <1>8, <1>9, <1>10,
     <1>11, <1>12, <1>13, <1>14, <1>15, <1>16, <1>17, <1>18, <1>19, <1>20,
     <1>21, <1>22, <1>23 DEF Next


\* Every step keeps Fresh.
LEMMA FreshStep ==
  ASSUME TypeOK, Shape, Fresh, [Next]_vars
  PROVE  Fresh'
<1> USE SourcesAssumption, NoneAssumption
<1>1. ASSUME NEW p \in Procs, NEW s \in Subs, NEW u \in Urls, Add(p, s, u) PROVE Fresh'
  BY <1>1 DEF Add, Fresh
<1>2. ASSUME NEW p \in Procs, NEW s \in Subs, SyncLoad(p, s) PROVE Fresh'
  BY <1>2 DEF SyncLoad, Fresh
<1>3. ASSUME NEW p \in Procs, SyncGone(p) PROVE Fresh'
  BY <1>3 DEF SyncGone, Fresh
<1>4. ASSUME NEW p \in Procs, FetchParse(p) PROVE Fresh'
  BY <1>4 DEF FetchParse, Fresh
<1>5. ASSUME NEW p \in Procs, Cancelled(p) PROVE Fresh'
  BY <1>5 DEF Cancelled, Fresh
<1>6. ASSUME NEW p \in Procs, SyncStale(p) PROVE Fresh'
  BY <1>6 DEF SyncStale, Fresh
<1>7. ASSUME NEW p \in Procs, SyncCommit(p) PROVE Fresh'
  BY <1>7 DEF SyncCommit, Merge, Shape, Fresh, Ids
<1>8. ASSUME NEW p \in Procs, UpdateMeta(p) PROVE Fresh'
  BY <1>8 DEF UpdateMeta, Unlock, TypeOK, Shape, Fresh
<1>9. ASSUME NEW p \in Procs, NEW s \in Subs, NEW u \in Urls, Edit(p, s, u) PROVE Fresh'
  BY <1>9 DEF Edit, Without, Fresh, Ids
<1>10. ASSUME NEW p \in Procs, EditSave(p) PROVE Fresh'
  BY <1>10 DEF EditSave, Unlock, TypeOK, Shape, Fresh
<1>11. ASSUME NEW p \in Procs, NEW s \in Subs, Remove(p, s) PROVE Fresh'
  BY <1>11 DEF Remove, Fresh
<1>12. ASSUME NEW p \in Procs, Cascade(p) PROVE Fresh'
  BY <1>12 DEF Cascade, Without, Fresh, Ids
<1>13. ASSUME NEW p \in Procs, NEW i \in Ids, ToggleFavorite(p, i) PROVE Fresh'
  BY <1>13 DEF ToggleFavorite, Fresh
<1>14. ASSUME NEW p \in Procs, NEW i \in Ids, NEW u \in Urls, ServerAdd(p, i, u) PROVE Fresh'
  BY <1>14 DEF ServerAdd, Fresh
<1>15. ASSUME NEW p \in Procs, NEW i \in Ids, NEW u \in Urls, ServerEdit(p, i, u) PROVE Fresh'
  BY <1>15 DEF ServerEdit, Fresh
<1>16. ASSUME NEW p \in Procs, NEW i \in Ids, ServerRemove(p, i) PROVE Fresh'
  BY <1>16 DEF ServerRemove, Fresh
<1>17. ASSUME NEW p \in Procs, ServerDelete(p) PROVE Fresh'
  BY <1>17 DEF ServerDelete, Fresh
<1>18. ASSUME NEW p \in Procs, Probe(p) PROVE Fresh'
  BY <1>18 DEF Probe, Fresh
<1>19. ASSUME NEW p \in Procs, ProbeApply(p) PROVE Fresh'
  BY <1>19 DEF ProbeApply, Fresh, Ids
<1>20. ASSUME NEW i \in Ids, Start(i) PROVE Fresh'
  BY <1>20 DEF Start, Fresh
<1>21. CASE Stop
  BY <1>21 DEF Stop, Fresh
<1>22. CASE Crash
  BY <1>22 DEF Crash, Fresh
<1>23. CASE UNCHANGED vars
  BY <1>23 DEF vars, Fresh
<1> QED
  BY <1>1, <1>2, <1>3, <1>4, <1>5, <1>6, <1>7, <1>8, <1>9, <1>10,
     <1>11, <1>12, <1>13, <1>14, <1>15, <1>16, <1>17, <1>18, <1>19, <1>20,
     <1>21, <1>22, <1>23 DEF Next


\* Every step keeps Clean: the lock keeps other writers out between
\* Edit's two writes.
LEMMA CleanStep ==
  ASSUME TypeOK, Shape, Clean, [Next]_vars
  PROVE  Clean'
<1> USE SourcesAssumption, NoneAssumption
<1>1. ASSUME NEW p \in Procs, NEW s \in Subs, NEW u \in Urls, Add(p, s, u) PROVE Clean'
  BY <1>1 DEF Add, Goto, Clean
<1>2. ASSUME NEW p \in Procs, NEW s \in Subs, SyncLoad(p, s) PROVE Clean'
  BY <1>2 DEF SyncLoad, Goto, Clean
<1>3. ASSUME NEW p \in Procs, SyncGone(p) PROVE Clean'
  BY <1>3 DEF SyncGone, Goto, Done, Clean
<1>4. ASSUME NEW p \in Procs, FetchParse(p) PROVE Clean'
  BY <1>4 DEF FetchParse, Goto, Clean
<1>5. ASSUME NEW p \in Procs, Cancelled(p) PROVE Clean'
  BY <1>5 DEF Cancelled, Goto, Done, Clean
<1>6. ASSUME NEW p \in Procs, SyncStale(p) PROVE Clean'
  BY <1>6 DEF SyncStale, Goto, Done, Clean
<1>7. ASSUME NEW p \in Procs, SyncCommit(p) PROVE Clean'
  BY <1>7 DEF SyncCommit, Goto, Lock, Shape, Clean
<1>8. ASSUME NEW p \in Procs, UpdateMeta(p) PROVE Clean'
  BY <1>8 DEF UpdateMeta, Goto, Done, Unlock, Clean
<1>9. ASSUME NEW p \in Procs, NEW s \in Subs, NEW u \in Urls, Edit(p, s, u) PROVE Clean'
  BY <1>9 DEF Edit, Goto, Lock, Without, TypeOK, Shape, Clean, Ids
<1>10. ASSUME NEW p \in Procs, EditSave(p) PROVE Clean'
  BY <1>10 DEF EditSave, Goto, Done, Unlock, TypeOK, Clean
<1>11. ASSUME NEW p \in Procs, NEW s \in Subs, Remove(p, s) PROVE Clean'
  BY <1>11 DEF Remove, Goto, Lock, Clean
<1>12. ASSUME NEW p \in Procs, Cascade(p) PROVE Clean'
  BY <1>12 DEF Cascade, Goto, Done, Unlock, Shape, Clean
<1>13. ASSUME NEW p \in Procs, NEW i \in Ids, ToggleFavorite(p, i) PROVE Clean'
  BY <1>13 DEF ToggleFavorite, Locked, Clean
<1>14. ASSUME NEW p \in Procs, NEW i \in Ids, NEW u \in Urls, ServerAdd(p, i, u) PROVE Clean'
  BY <1>14 DEF ServerAdd, Locked, Shape, Clean
<1>15. ASSUME NEW p \in Procs, NEW i \in Ids, NEW u \in Urls, ServerEdit(p, i, u) PROVE Clean'
  BY <1>15 DEF ServerEdit, Locked, Clean
<1>16. ASSUME NEW p \in Procs, NEW i \in Ids, ServerRemove(p, i) PROVE Clean'
  BY <1>16 DEF ServerRemove, Goto, Lock, Clean
<1>17. ASSUME NEW p \in Procs, ServerDelete(p) PROVE Clean'
  BY <1>17 DEF ServerDelete, Goto, Done, Unlock, Clean
<1>18. ASSUME NEW p \in Procs, Probe(p) PROVE Clean'
  BY <1>18 DEF Probe, Goto, Clean
<1>19. ASSUME NEW p \in Procs, ProbeApply(p) PROVE Clean'
  BY <1>19 DEF ProbeApply, Goto, Done, Shape, Clean
<1>20. ASSUME NEW i \in Ids, Start(i) PROVE Clean'
  BY <1>20 DEF Start, Clean
<1>21. CASE Stop
  BY <1>21 DEF Stop, Clean
<1>22. CASE Crash
  BY <1>22 DEF Crash, Clean
<1>23. CASE UNCHANGED vars
  BY <1>23 DEF vars, Clean
<1> QED
  BY <1>1, <1>2, <1>3, <1>4, <1>5, <1>6, <1>7, <1>8, <1>9, <1>10,
     <1>11, <1>12, <1>13, <1>14, <1>15, <1>16, <1>17, <1>18, <1>19, <1>20,
     <1>21, <1>22, <1>23 DEF Next


\* Every step keeps ServersOfCurrentURL: a commit has checked the URL under
\* the lock, and Edit has emptied the subscription before it changes it.
LEMMA UrlStep ==
  ASSUME TypeOK, Shape, Fresh, Clean, ServersOfCurrentURL, [Next]_vars
  PROVE  ServersOfCurrentURL'
<1> USE SourcesAssumption, NoneAssumption
<1>1. ASSUME NEW p \in Procs, NEW s \in Subs, NEW u \in Urls, Add(p, s, u) PROVE ServersOfCurrentURL'
  BY <1>1 DEF Add, Fresh, ServersOfCurrentURL
<1>2. ASSUME NEW p \in Procs, NEW s \in Subs, SyncLoad(p, s) PROVE ServersOfCurrentURL'
  BY <1>2 DEF SyncLoad, ServersOfCurrentURL
<1>3. ASSUME NEW p \in Procs, SyncGone(p) PROVE ServersOfCurrentURL'
  BY <1>3 DEF SyncGone, ServersOfCurrentURL
<1>4. ASSUME NEW p \in Procs, FetchParse(p) PROVE ServersOfCurrentURL'
  BY <1>4 DEF FetchParse, ServersOfCurrentURL
<1>5. ASSUME NEW p \in Procs, Cancelled(p) PROVE ServersOfCurrentURL'
  BY <1>5 DEF Cancelled, ServersOfCurrentURL
<1>6. ASSUME NEW p \in Procs, SyncStale(p) PROVE ServersOfCurrentURL'
  BY <1>6 DEF SyncStale, ServersOfCurrentURL
<1>7. ASSUME NEW p \in Procs, SyncCommit(p) PROVE ServersOfCurrentURL'
  BY <1>7 DEF SyncCommit, Matches, Merge, New, TypeOK, Fresh, Clean,
     ServersOfCurrentURL, Entry, Ids
<1>8. ASSUME NEW p \in Procs, UpdateMeta(p) PROVE ServersOfCurrentURL'
  BY <1>8 DEF UpdateMeta, Unlock, TypeOK, Shape, ServersOfCurrentURL, Sub
<1>9. ASSUME NEW p \in Procs, NEW s \in Subs, NEW u \in Urls, Edit(p, s, u) PROVE ServersOfCurrentURL'
  BY <1>9 DEF Edit, Without, ServersOfCurrentURL, Ids
<1>10. ASSUME NEW p \in Procs, EditSave(p) PROVE ServersOfCurrentURL'
  BY <1>10 DEF EditSave, Unlock, TypeOK, Clean, ServersOfCurrentURL
<1>11. ASSUME NEW p \in Procs, NEW s \in Subs, Remove(p, s) PROVE ServersOfCurrentURL'
  BY <1>11 DEF Remove, ServersOfCurrentURL
<1>12. ASSUME NEW p \in Procs, Cascade(p) PROVE ServersOfCurrentURL'
  BY <1>12 DEF Cascade, Without, ServersOfCurrentURL, Ids
<1>13. ASSUME NEW p \in Procs, NEW i \in Ids, ToggleFavorite(p, i) PROVE ServersOfCurrentURL'
  BY <1>13 DEF ToggleFavorite, ServersOfCurrentURL
<1>14. ASSUME NEW p \in Procs, NEW i \in Ids, NEW u \in Urls, ServerAdd(p, i, u) PROVE ServersOfCurrentURL'
  BY <1>14 DEF ServerAdd, ServersOfCurrentURL
<1>15. ASSUME NEW p \in Procs, NEW i \in Ids, NEW u \in Urls, ServerEdit(p, i, u) PROVE ServersOfCurrentURL'
  BY <1>15 DEF ServerEdit, ServersOfCurrentURL
<1>16. ASSUME NEW p \in Procs, NEW i \in Ids, ServerRemove(p, i) PROVE ServersOfCurrentURL'
  BY <1>16 DEF ServerRemove, ServersOfCurrentURL
<1>17. ASSUME NEW p \in Procs, ServerDelete(p) PROVE ServersOfCurrentURL'
  BY <1>17 DEF ServerDelete, ServersOfCurrentURL
<1>18. ASSUME NEW p \in Procs, Probe(p) PROVE ServersOfCurrentURL'
  BY <1>18 DEF Probe, ServersOfCurrentURL
<1>19. ASSUME NEW p \in Procs, ProbeApply(p) PROVE ServersOfCurrentURL'
  BY <1>19 DEF ProbeApply, ServersOfCurrentURL, Ids
<1>20. ASSUME NEW i \in Ids, Start(i) PROVE ServersOfCurrentURL'
  BY <1>20 DEF Start, ServersOfCurrentURL
<1>21. CASE Stop
  BY <1>21 DEF Stop, ServersOfCurrentURL
<1>22. CASE Crash
  BY <1>22 DEF Crash, ServersOfCurrentURL
<1>23. CASE UNCHANGED vars
  BY <1>23 DEF vars, ServersOfCurrentURL
<1> QED
  BY <1>1, <1>2, <1>3, <1>4, <1>5, <1>6, <1>7, <1>8, <1>9, <1>10,
     <1>11, <1>12, <1>13, <1>14, <1>15, <1>16, <1>17, <1>18, <1>19, <1>20,
     <1>21, <1>22, <1>23 DEF Next


\* Every step keeps Written when no write fails and the bridge lives.
LEMMA WrittenStep ==
  ASSUME faults = {}, TypeOK, Shape, Written, [Next]_vars
  PROVE  Written'
<1> USE SourcesAssumption, NoneAssumption
<1>1. ASSUME NEW p \in Procs, NEW s \in Subs, NEW u \in Urls, Add(p, s, u) PROVE Written'
  BY <1>1 DEF Add, Goto, Shape, Written
<1>2. ASSUME NEW p \in Procs, NEW s \in Subs, SyncLoad(p, s) PROVE Written'
  BY <1>2 DEF SyncLoad, Goto, Written
<1>3. ASSUME NEW p \in Procs, SyncGone(p) PROVE Written'
  BY <1>3 DEF SyncGone, Goto, Done, Shape, Written
<1>4. ASSUME NEW p \in Procs, FetchParse(p) PROVE Written'
  BY <1>4 DEF FetchParse, Goto, Written
<1>5. ASSUME NEW p \in Procs, Cancelled(p) PROVE Written'
  BY <1>5 DEF Cancelled, Goto, Done, Written
<1>6. ASSUME NEW p \in Procs, SyncStale(p) PROVE Written'
  BY <1>6 DEF SyncStale, Goto, Done, Written
<1>7. ASSUME NEW p \in Procs, SyncCommit(p) PROVE Written'
  <2>1. /\ job'[p].id = job[p].id
        /\ \A q \in Procs : pc'[q] \in {"meta", "cascade", "delete"} => q = p
        /\ pc'[p] = "meta"
    BY <1>7 DEF SyncCommit, Lock, Goto, TypeOK, Job, Shape
  <2>2. job[p].id \in Subs /\ job[p].url \in Urls /\ job[p].got \in SUBSET Keys
    BY <1>7 DEF SyncCommit, Shape, TypeOK, Job
  <2>3. CASE job[p].got # {} /\ servers' = Merge(job[p].id, job[p].url, job[p].got)
    BY <2>1, <2>2, <2>3, MergeStores DEF Written
  <2>4. CASE UNCHANGED job
    <3>1. job[p].ok = FALSE
      BY <1>7 DEF SyncCommit, Shape
    <3> QED BY <2>1, <2>4, <3>1 DEF Written
  <2> QED BY <1>7, <2>3, <2>4 DEF SyncCommit
<1>8. ASSUME NEW p \in Procs, UpdateMeta(p) PROVE Written'
  BY <1>8 DEF UpdateMeta, Goto, Done, Unlock, Shape, Written, NoJob
<1>9. ASSUME NEW p \in Procs, NEW s \in Subs, NEW u \in Urls, Edit(p, s, u) PROVE Written'
  BY <1>9 DEF Edit, Goto, Lock, Shape, Written
<1>10. ASSUME NEW p \in Procs, EditSave(p) PROVE Written'
  BY <1>10 DEF EditSave, Goto, Done, Unlock, Shape, Written
<1>11. ASSUME NEW p \in Procs, NEW s \in Subs, Remove(p, s) PROVE Written'
  BY <1>11 DEF Remove, Goto, Lock, TypeOK, Shape, Written
<1>12. ASSUME NEW p \in Procs, Cascade(p) PROVE Written'
  BY <1>12 DEF Cascade, Goto, Done, Unlock, TypeOK, Shape, Written
<1>13. ASSUME NEW p \in Procs, NEW i \in Ids, ToggleFavorite(p, i) PROVE Written'
  BY <1>13 DEF ToggleFavorite, Locked, Shape, Written
<1>14. ASSUME NEW p \in Procs, NEW i \in Ids, NEW u \in Urls, ServerAdd(p, i, u) PROVE Written'
  BY <1>14 DEF ServerAdd, Locked, Shape, Written
<1>15. ASSUME NEW p \in Procs, NEW i \in Ids, NEW u \in Urls, ServerEdit(p, i, u) PROVE Written'
  BY <1>15 DEF ServerEdit, Locked, Shape, Written
<1>16. ASSUME NEW p \in Procs, NEW i \in Ids, ServerRemove(p, i) PROVE Written'
  BY <1>16 DEF ServerRemove, Goto, Lock, TypeOK, Shape, Written
<1>17. ASSUME NEW p \in Procs, ServerDelete(p) PROVE Written'
  BY <1>17 DEF ServerDelete, Goto, Done, Unlock, TypeOK, Shape, Written
<1>18. ASSUME NEW p \in Procs, Probe(p) PROVE Written'
  BY <1>18 DEF Probe, Goto, Written, Sub
<1>19. ASSUME NEW p \in Procs, ProbeApply(p) PROVE Written'
  BY <1>19 DEF ProbeApply, Goto, Done, Shape, Written
<1>20. ASSUME NEW i \in Ids, Start(i) PROVE Written'
  BY <1>20 DEF Start, Written
<1>21. CASE Stop
  BY <1>21 DEF Stop, Written
<1>22. CASE Crash
  BY <1>22 DEF Crash
<1>23. CASE UNCHANGED vars
  BY <1>23 DEF vars, Written
<1> QED
  BY <1>1, <1>2, <1>3, <1>4, <1>5, <1>6, <1>7, <1>8, <1>9, <1>10,
     <1>11, <1>12, <1>13, <1>14, <1>15, <1>16, <1>17, <1>18, <1>19, <1>20,
     <1>21, <1>22, <1>23 DEF Next


\* Every step keeps NoOrphans, under the same condition.
LEMMA OrphansStep ==
  ASSUME faults = {}, TypeOK, Shape, Fresh, Written, NoOrphans, [Next]_vars
  PROVE  NoOrphans'
<1> USE SourcesAssumption, NoneAssumption
<1>1. ASSUME NEW p \in Procs, NEW s \in Subs, NEW u \in Urls, Add(p, s, u) PROVE NoOrphans'
  BY <1>1 DEF Add, Shape, Fresh, NoOrphans
<1>2. ASSUME NEW p \in Procs, NEW s \in Subs, SyncLoad(p, s) PROVE NoOrphans'
  BY <1>2 DEF SyncLoad, Goto, NoOrphans
<1>3. ASSUME NEW p \in Procs, SyncGone(p) PROVE NoOrphans'
  BY <1>3 DEF SyncGone, Goto, Done, NoOrphans
<1>4. ASSUME NEW p \in Procs, FetchParse(p) PROVE NoOrphans'
  BY <1>4 DEF FetchParse, Goto, NoOrphans
<1>5. ASSUME NEW p \in Procs, Cancelled(p) PROVE NoOrphans'
  BY <1>5 DEF Cancelled, Goto, Done, NoOrphans
<1>6. ASSUME NEW p \in Procs, SyncStale(p) PROVE NoOrphans'
  BY <1>6 DEF SyncStale, Shape, NoOrphans
<1>7. ASSUME NEW p \in Procs, SyncCommit(p) PROVE NoOrphans'
  BY <1>7 DEF SyncCommit, Lock, Matches, Merge, Shape, NoOrphans, Ids
<1>8. ASSUME NEW p \in Procs, UpdateMeta(p) PROVE NoOrphans'
  <2>1. job[p].id \in Subs /\ subs[job[p].id] \in Sub
    BY <1>8 DEF UpdateMeta, Unlock, Shape, TypeOK
  <2>2. [subs[job[p].id] EXCEPT !.status = IF job[p].ok THEN "ok" ELSE "error"] \in Sub
    BY <2>1 DEF Sub, Status
  <2>3. \A s \in Subs : subs'[s] = None => subs[s] = None
    BY <1>8, <2>1, <2>2 DEF UpdateMeta, TypeOK
  <2>4. UNCHANGED servers /\ \A q \in Procs : pc[q] = "cascade" => pc'[q] = pc[q] /\ job'[q] = job[q]
    BY <1>8 DEF UpdateMeta, Unlock, Done, Goto, TypeOK
  <2> QED BY <2>3, <2>4 DEF NoOrphans
<1>9. ASSUME NEW p \in Procs, NEW s \in Subs, NEW u \in Urls, Edit(p, s, u) PROVE NoOrphans'
  BY <1>9 DEF Edit, Lock, Without, Shape, NoOrphans, Ids
<1>10. ASSUME NEW p \in Procs, EditSave(p) PROVE NoOrphans'
  <2>1. job[p].id \in Subs /\ job[p].url \in Urls
    BY <1>10 DEF EditSave, Unlock, Shape
  <2>2. [url |-> job[p].url, status |-> "none"] \in Sub
    BY <2>1 DEF Sub, Status
  <2>3. \A s \in Subs : subs'[s] = None => subs[s] = None
    BY <1>10, <2>1, <2>2 DEF EditSave, TypeOK
  <2>4. UNCHANGED servers /\ \A q \in Procs : pc[q] = "cascade" => pc'[q] = pc[q] /\ job'[q] = job[q]
    BY <1>10 DEF EditSave, Unlock, Done, Goto, TypeOK
  <2> QED BY <2>3, <2>4 DEF NoOrphans
<1>11. ASSUME NEW p \in Procs, NEW s \in Subs, Remove(p, s) PROVE NoOrphans'
  BY <1>11 DEF Remove, Goto, Lock, TypeOK, NoOrphans
<1>12. ASSUME NEW p \in Procs, Cascade(p) PROVE NoOrphans'
  BY <1>12 DEF Cascade, Unlock, Without, Shape, NoOrphans, Ids
<1>13. ASSUME NEW p \in Procs, NEW i \in Ids, ToggleFavorite(p, i) PROVE NoOrphans'
  BY <1>13 DEF ToggleFavorite, Locked, NoOrphans
<1>14. ASSUME NEW p \in Procs, NEW i \in Ids, NEW u \in Urls, ServerAdd(p, i, u) PROVE NoOrphans'
  BY <1>14 DEF ServerAdd, Locked, NoOrphans
<1>15. ASSUME NEW p \in Procs, NEW i \in Ids, NEW u \in Urls, ServerEdit(p, i, u) PROVE NoOrphans'
  BY <1>15 DEF ServerEdit, Locked, NoOrphans
<1>16. ASSUME NEW p \in Procs, NEW i \in Ids, ServerRemove(p, i) PROVE NoOrphans'
  BY <1>16 DEF ServerRemove, Lock, Shape, NoOrphans
<1>17. ASSUME NEW p \in Procs, ServerDelete(p) PROVE NoOrphans'
  BY <1>17 DEF ServerDelete, Unlock, Shape, NoOrphans
<1>18. ASSUME NEW p \in Procs, Probe(p) PROVE NoOrphans'
  BY <1>18 DEF Probe, Goto, NoOrphans
<1>19. ASSUME NEW p \in Procs, ProbeApply(p) PROVE NoOrphans'
  BY <1>19 DEF ProbeApply, Shape, NoOrphans, Ids
<1>20. ASSUME NEW i \in Ids, Start(i) PROVE NoOrphans'
  BY <1>20 DEF Start, NoOrphans
<1>21. CASE Stop
  BY <1>21 DEF Stop, NoOrphans
<1>22. CASE Crash
  BY <1>22 DEF Crash
<1>23. CASE UNCHANGED vars
  BY <1>23 DEF vars, NoOrphans
<1> QED
  BY <1>1, <1>2, <1>3, <1>4, <1>5, <1>6, <1>7, <1>8, <1>9, <1>10,
     <1>11, <1>12, <1>13, <1>14, <1>15, <1>16, <1>17, <1>18, <1>19, <1>20,
     <1>21, <1>22, <1>23 DEF Next


\* A step that changes no status, drops no server and leaves every Edit in
\* progress where it is keeps OkHasServers.
LEMMA OkFrame ==
  ASSUME faults = {}, OkHasServers, UNCHANGED subs,
         \A i \in Ids : servers[i] # None => servers'[i] # None,
         \A q \in Procs : pc[q] = "edit" => pc'[q] = "edit" /\ job'[q].id = job[q].id
  PROVE  OkHasServers'
BY DEF OkHasServers, Ids

\* Every step keeps OkHasServers, under the same condition.
LEMMA OkStep ==
  ASSUME faults = {}, TypeOK, Shape, Fresh, Written, OkHasServers, [Next]_vars
  PROVE  OkHasServers'
<1> USE SourcesAssumption, NoneAssumption
<1>1. ASSUME NEW p \in Procs, NEW s \in Subs, NEW u \in Urls, Add(p, s, u) PROVE OkHasServers'
  BY <1>1 DEF Add, Goto, OkHasServers, Sub
<1>2. ASSUME NEW p \in Procs, NEW s \in Subs, SyncLoad(p, s) PROVE OkHasServers'
  BY <1>2 DEF SyncLoad, Goto, OkHasServers
<1>3. ASSUME NEW p \in Procs, SyncGone(p) PROVE OkHasServers'
  BY <1>3 DEF SyncGone, Goto, Done, OkHasServers, NoJob, Ids
<1>4. ASSUME NEW p \in Procs, FetchParse(p) PROVE OkHasServers'
  <2>1. UNCHANGED <<subs, servers>>
    BY <1>4 DEF FetchParse
  <2>2. \A q \in Procs : pc[q] = "edit" => pc'[q] = "edit" /\ job'[q].id = job[q].id
    BY <1>4 DEF FetchParse, Goto, TypeOK
  <2> QED BY <2>1, <2>2, OkFrame
<1>5. ASSUME NEW p \in Procs, Cancelled(p) PROVE OkHasServers'
  BY <1>5 DEF Cancelled, Goto, Done, OkHasServers
<1>6. ASSUME NEW p \in Procs, SyncStale(p) PROVE OkHasServers'
  BY <1>6 DEF SyncStale, Shape, OkHasServers
<1>7. ASSUME NEW p \in Procs, SyncCommit(p) PROVE OkHasServers'
  <2>1. /\ UNCHANGED subs
        /\ \A q \in Procs : pc[q] = "edit" => pc'[q] = "edit" /\ job'[q].id = job[q].id
    BY <1>7 DEF SyncCommit, Lock, Goto, TypeOK
  <2>2. job[p].id \in Subs /\ job[p].url \in Urls /\ job[p].got \in SUBSET Keys
    BY <1>7 DEF SyncCommit, Shape, TypeOK, Job
  <2>3. CASE job[p].got # {} /\ servers' = Merge(job[p].id, job[p].url, job[p].got)
    <3>1. \E k \in Keys : servers'[<<job[p].id, k>>] # None
      BY <2>2, <2>3, MergeStores
    <3>2. \A s \in Subs, k \in Keys : s # job[p].id => servers'[<<s, k>>] = servers[<<s, k>>]
      BY <2>2, <2>3, MergeStores DEF Ids
    <3> QED BY <2>1, <3>1, <3>2 DEF OkHasServers
  <2>4. CASE UNCHANGED servers
    BY <2>1, <2>4, OkFrame
  <2> QED BY <1>7, <2>3, <2>4 DEF SyncCommit
<1>8. ASSUME NEW p \in Procs, UpdateMeta(p) PROVE OkHasServers'
  <2>1. /\ job[p].id \in Subs /\ UNCHANGED servers
        /\ job[p].ok => \E k \in Keys : servers[<<job[p].id, k>>] # None
    BY <1>8 DEF UpdateMeta, Unlock, Shape, Written
  <2>2. subs' = [subs EXCEPT ![job[p].id].status = IF job[p].ok THEN "ok" ELSE "error"]
    BY <1>8 DEF UpdateMeta
  <2>3. /\ subs[job[p].id] \in Sub
        /\ \A s \in Subs : s # job[p].id => subs'[s] = subs[s]
    BY <1>8, <2>1, <2>2 DEF UpdateMeta, Unlock, Shape, TypeOK
  <2>4. subs'[job[p].id].status = "ok" => job[p].ok
    BY <2>1, <2>2, <2>3 DEF TypeOK, Sub
  <2>5. \A q \in Procs : pc[q] = "edit" => pc'[q] = pc[q] /\ job'[q] = job[q]
    BY <1>8 DEF UpdateMeta, Unlock, Done, Goto, TypeOK
  <2> QED BY <2>1, <2>3, <2>4, <2>5 DEF OkHasServers
<1>9. ASSUME NEW p \in Procs, NEW s \in Subs, NEW u \in Urls, Edit(p, s, u) PROVE OkHasServers'
  <2>1. UNCHANGED subs /\ pc'[p] = "edit" /\ job'[p].id = s
    BY <1>9 DEF Edit, Lock, Goto, TypeOK, NoJob
  <2>2. \A t \in Subs, k \in Keys : t # s => servers'[<<t, k>>] = servers[<<t, k>>]
    BY <1>9 DEF Edit, Without, Ids
  <2>3. \A q \in Procs : pc[q] = "edit" => pc'[q] = pc[q] /\ job'[q] = job[q]
    BY <1>9 DEF Edit, Lock, Goto, TypeOK
  <2> QED BY <2>1, <2>2, <2>3 DEF OkHasServers
<1>10. ASSUME NEW p \in Procs, EditSave(p) PROVE OkHasServers'
  <2>1. job[p].id \in Subs /\ servers' = servers
    BY <1>10 DEF EditSave, Unlock, Shape
  <2>2. subs' = [subs EXCEPT ![job[p].id] = [url |-> job[p].url, status |-> "none"]]
    BY <1>10 DEF EditSave
  <2>3. subs'[job[p].id].status = "none" /\ \A s \in Subs : s # job[p].id => subs'[s] = subs[s]
    BY <2>1, <2>2 DEF TypeOK
  <2>4. \A q \in Procs : q # p => pc'[q] = pc[q] /\ job'[q] = job[q]
    BY <1>10 DEF EditSave, Unlock, Done, Goto, TypeOK
  <2> QED BY <2>1, <2>3, <2>4 DEF OkHasServers
<1>11. ASSUME NEW p \in Procs, NEW s \in Subs, Remove(p, s) PROVE OkHasServers'
  BY <1>11 DEF Remove, Goto, Lock, OkHasServers, Sub
<1>12. ASSUME NEW p \in Procs, Cascade(p) PROVE OkHasServers'
  <2>1. job[p].id \in Subs /\ subs[job[p].id] = None /\ UNCHANGED subs
    BY <1>12 DEF Cascade, Unlock, Shape, Written
  <2>2. \A s \in Subs, k \in Keys : s # job[p].id => servers'[<<s, k>>] = servers[<<s, k>>]
    BY <1>12 DEF Cascade, Without, Ids
  <2>3. \A q \in Procs : pc[q] = "edit" => pc'[q] = pc[q] /\ job'[q] = job[q]
    BY <1>12 DEF Cascade, Unlock, Done, Goto, TypeOK
  <2> QED BY <2>1, <2>2, <2>3 DEF OkHasServers
<1>13. ASSUME NEW p \in Procs, NEW i \in Ids, ToggleFavorite(p, i) PROVE OkHasServers'
  <2>1. UNCHANGED <<subs, pc, job>>
    BY <1>13 DEF ToggleFavorite, Locked
  <2>2. \A j \in Ids : servers[j] # None => servers'[j] # None
    BY <1>13, FavouriteSet DEF ToggleFavorite, TypeOK
  <2> QED BY <2>1, <2>2, OkFrame
<1>14. ASSUME NEW p \in Procs, NEW i \in Ids, NEW u \in Urls, ServerAdd(p, i, u) PROVE OkHasServers'
  <2>1. UNCHANGED <<subs, pc, job>> /\ New(u) \in Entry
    BY <1>14 DEF ServerAdd, Locked, New, Entry
  <2>2. \A j \in Ids : servers[j] # None => servers'[j] # None
    BY <1>14, <2>1 DEF ServerAdd, TypeOK
  <2> QED BY <2>1, <2>2, OkFrame
<1>15. ASSUME NEW p \in Procs, NEW i \in Ids, NEW u \in Urls, ServerEdit(p, i, u) PROVE OkHasServers'
  BY <1>15 DEF ServerEdit, Locked, OkHasServers
<1>16. ASSUME NEW p \in Procs, NEW i \in Ids, ServerRemove(p, i) PROVE OkHasServers'
  BY <1>16 DEF ServerRemove, Goto, Lock, OkHasServers
<1>17. ASSUME NEW p \in Procs, ServerDelete(p) PROVE OkHasServers'
  <2>1. job[p].srv \in Ids /\ (job[p].srv[1] # Manual => subs[job[p].srv[1]] = None) /\ UNCHANGED subs
    BY <1>17 DEF ServerDelete, Unlock, Shape, Written
  <2>2. \A s \in Subs, k \in Keys : subs[s] # None => servers'[<<s, k>>] = servers[<<s, k>>]
    BY <1>17, <2>1 DEF ServerDelete, TypeOK, Ids
  <2>3. \A q \in Procs : pc[q] = "edit" => pc'[q] = pc[q] /\ job'[q] = job[q]
    BY <1>17 DEF ServerDelete, Unlock, Done, Goto, TypeOK
  <2> QED BY <2>1, <2>2, <2>3 DEF OkHasServers
<1>18. ASSUME NEW p \in Procs, Probe(p) PROVE OkHasServers'
  <2>1. UNCHANGED <<subs, servers>>
    BY <1>18 DEF Probe
  <2>2. \A q \in Procs : pc[q] = "edit" => pc'[q] = "edit" /\ job'[q].id = job[q].id
    BY <1>18 DEF Probe, Goto, TypeOK
  <2> QED BY <2>1, <2>2, OkFrame
<1>19. ASSUME NEW p \in Procs, ProbeApply(p) PROVE OkHasServers'
  <2>1. PICK down : servers' = [i \in Ids |->
            IF servers[i] # None /\ i \in job[p].up \cup down
            THEN [servers[i] EXCEPT !.lat = i \in job[p].up] ELSE servers[i]]
    BY <1>19 DEF ProbeApply
  <2>2. \A i \in Ids : servers[i] # None =>
          [servers[i] EXCEPT !.lat = i \in job[p].up] \in Entry
    BY LatencySet DEF TypeOK
  <2>3. \A i \in Ids : servers[i] # None => servers'[i] # None
    BY <2>1, <2>2
  <2>4. /\ UNCHANGED subs
        /\ \A q \in Procs : pc[q] = "edit" => pc'[q] = "edit" /\ job'[q].id = job[q].id
    BY <1>19 DEF ProbeApply, Done, Goto, TypeOK
  <2> QED BY <2>3, <2>4, OkFrame
<1>20. ASSUME NEW i \in Ids, Start(i) PROVE OkHasServers'
  BY <1>20 DEF Start, OkHasServers
<1>21. CASE Stop
  BY <1>21 DEF Stop, OkHasServers
<1>22. CASE Crash
  BY <1>22 DEF Crash
<1>23. CASE UNCHANGED vars
  BY <1>23 DEF vars, OkHasServers
<1> QED
  BY <1>1, <1>2, <1>3, <1>4, <1>5, <1>6, <1>7, <1>8, <1>9, <1>10,
     <1>11, <1>12, <1>13, <1>14, <1>15, <1>16, <1>17, <1>18, <1>19, <1>20,
     <1>21, <1>22, <1>23 DEF Next


\* Two empty files satisfy the invariant.
LEMMA InvInit == Init => Inv
BY SourcesAssumption, NoneAssumption
   DEF Init, Inv, TypeOK, Shape, Fresh, Clean, ServersOfCurrentURL, Places, Job, NoJob, Ids, Sub

\* ... and the properties of a bridge whose writes succeed.
LEMMA WrittenInit == Init => Written /\ NoOrphans /\ OkHasServers
BY DEF Init, Written, NoOrphans, OkHasServers, Ids

\* Inv is inductive.
LEMMA InvStep == Inv /\ [Next]_vars => Inv'
BY TypeStep, ShapeStep, FreshStep, CleanStep, UrlStep DEF Inv

\* The two files, StoreLock and the locals of every goroutine hold values of
\* their types.
THEOREM TypeCorrect == Spec => []TypeOK
<1>1. Inv => TypeOK
  BY DEF Inv
<1> QED BY <1>1, InvInit, InvStep, PTL DEF Spec

\* The servers of a subscription come from the URL it has, whatever syncs and
\* edits overlap, also when writes fail and the bridge dies between two.
THEOREM URLHolds == Spec => []ServersOfCurrentURL
<1>1. Inv => ServersOfCurrentURL
  BY DEF Inv
<1> QED BY <1>1, InvInit, InvStep, PTL DEF Spec

\* Which faults a behaviour has is drawn once.
LEMMA FaultsFixed == [Next]_vars => faults' = faults
<1> SUFFICES ASSUME [Next]_vars PROVE faults' = faults
  OBVIOUS
<1>1. ASSUME NEW p \in Procs,
             \/ SyncGone(p) \/ FetchParse(p) \/ Cancelled(p) \/ SyncStale(p)
             \/ SyncCommit(p) \/ UpdateMeta(p) \/ EditSave(p) \/ Cascade(p)
             \/ ServerDelete(p) \/ Probe(p) \/ ProbeApply(p)
             \/ \E s \in Subs : SyncLoad(p, s) \/ Remove(p, s)
      PROVE  faults' = faults
  BY <1>1 DEF SyncGone, FetchParse, Cancelled, SyncStale, SyncCommit, UpdateMeta, EditSave,
     Cascade, ServerDelete, Probe, ProbeApply, SyncLoad, Remove
<1>2. ASSUME NEW p \in Procs,
             \/ \E s \in Subs, u \in Urls : Add(p, s, u) \/ Edit(p, s, u)
             \/ \E i \in Ids, u \in Urls : ServerAdd(p, i, u) \/ ServerEdit(p, i, u)
             \/ \E i \in Ids : ToggleFavorite(p, i) \/ ServerRemove(p, i)
      PROVE  faults' = faults
  BY <1>2 DEF Add, Edit, ServerAdd, ServerEdit, ToggleFavorite, ServerRemove
<1>3. CASE (\E i \in Ids : Start(i)) \/ Stop \/ Crash \/ UNCHANGED vars
  BY <1>3 DEF Start, Stop, Crash, vars
<1> QED BY <1>1, <1>2, <1>3 DEF Next

\* What holds besides of a bridge that lives and whose writes succeed.
Sound == Inv /\ (faults = {} => Written) /\ NoOrphans /\ OkHasServers

\* Sound holds at first and is inductive.
LEMMA SoundInit == Init => Sound
BY InvInit, WrittenInit DEF Sound

LEMMA SoundStep == Sound /\ [Next]_vars => Sound'
<1> SUFFICES ASSUME Sound, [Next]_vars PROVE Sound'
  OBVIOUS
<1>1. Inv'
  BY InvStep DEF Sound
<1>2. CASE faults = {}
  BY <1>1, <1>2, WrittenStep, OrphansStep, OkStep DEF Sound, Inv
<1>3. CASE faults # {}
  <2>1. faults' # {}
    BY <1>3, FaultsFixed
  <2> QED BY <1>1, <2>1 DEF Sound, NoOrphans, OkHasServers
<1> QED BY <1>2, <1>3

\* No sync, however late, brings back the servers of a subscription that was
\* removed: only Remove itself is between the two files.
THEOREM NoOrphansHold == Spec => []NoOrphans
<1>1. Sound => NoOrphans
  BY DEF Sound
<1> QED BY <1>1, SoundInit, SoundStep, PTL DEF Spec

\* A subscription that is shown as ok has servers, except between the two
\* writes of Edit.
THEOREM OkHolds == Spec => []OkHasServers
<1>1. Sound => OkHasServers
  BY DEF Sound
<1> QED BY <1>1, SoundInit, SoundStep, PTL DEF Spec

\* No server without its subscription and no ok without servers.
THEOREM StoresAgreeHolds == Spec => []StoresAgree
<1>1. NoOrphans /\ OkHasServers => StoresAgree
  BY DEF StoresAgree
<1> QED BY <1>1, NoOrphansHold, OkHolds, PTL

\* What FavouritesKept says of one step.
FavStepOK ==
  \A i \in Ids :
    servers[i] # None /\ servers'[i] # None /\ servers[i].fav # servers'[i].fav =>
      servers' = [servers EXCEPT ![i].fav = ~@]

\* Every step satisfies FavStepOK: Merge and the probes carry the flag over.
LEMMA FavStep ==
  ASSUME TypeOK, Shape, Fresh, [Next]_vars
  PROVE  FavStepOK
<1> USE SourcesAssumption, NoneAssumption
<1>1. ASSUME NEW p \in Procs, NEW s \in Subs, NEW u \in Urls, Add(p, s, u) PROVE FavStepOK
  BY <1>1 DEF Add, FavStepOK
<1>2. ASSUME NEW p \in Procs, NEW s \in Subs, SyncLoad(p, s) PROVE FavStepOK
  BY <1>2 DEF SyncLoad, FavStepOK
<1>3. ASSUME NEW p \in Procs, SyncGone(p) PROVE FavStepOK
  BY <1>3 DEF SyncGone, FavStepOK
<1>4. ASSUME NEW p \in Procs, FetchParse(p) PROVE FavStepOK
  BY <1>4 DEF FetchParse, FavStepOK
<1>5. ASSUME NEW p \in Procs, Cancelled(p) PROVE FavStepOK
  BY <1>5 DEF Cancelled, FavStepOK
<1>6. ASSUME NEW p \in Procs, SyncStale(p) PROVE FavStepOK
  BY <1>6 DEF SyncStale, FavStepOK
<1>7. ASSUME NEW p \in Procs, SyncCommit(p) PROVE FavStepOK
  BY <1>7 DEF SyncCommit, Merge, TypeOK, FavStepOK, Entry
<1>8. ASSUME NEW p \in Procs, UpdateMeta(p) PROVE FavStepOK
  BY <1>8 DEF UpdateMeta, FavStepOK
<1>9. ASSUME NEW p \in Procs, NEW s \in Subs, NEW u \in Urls, Edit(p, s, u) PROVE FavStepOK
  BY <1>9 DEF Edit, Without, FavStepOK
<1>10. ASSUME NEW p \in Procs, EditSave(p) PROVE FavStepOK
  BY <1>10 DEF EditSave, FavStepOK
<1>11. ASSUME NEW p \in Procs, NEW s \in Subs, Remove(p, s) PROVE FavStepOK
  BY <1>11 DEF Remove, FavStepOK
<1>12. ASSUME NEW p \in Procs, Cascade(p) PROVE FavStepOK
  BY <1>12 DEF Cascade, Without, FavStepOK
<1>13. ASSUME NEW p \in Procs, NEW i \in Ids, ToggleFavorite(p, i) PROVE FavStepOK
  BY <1>13 DEF ToggleFavorite, TypeOK, FavStepOK
<1>14. ASSUME NEW p \in Procs, NEW i \in Ids, NEW u \in Urls, ServerAdd(p, i, u) PROVE FavStepOK
  BY <1>14 DEF ServerAdd, Fresh, FavStepOK
<1>15. ASSUME NEW p \in Procs, NEW i \in Ids, NEW u \in Urls, ServerEdit(p, i, u) PROVE FavStepOK
  BY <1>15 DEF ServerEdit, FavStepOK
<1>16. ASSUME NEW p \in Procs, NEW i \in Ids, ServerRemove(p, i) PROVE FavStepOK
  BY <1>16 DEF ServerRemove, FavStepOK
<1>17. ASSUME NEW p \in Procs, ServerDelete(p) PROVE FavStepOK
  BY <1>17 DEF ServerDelete, FavStepOK
<1>18. ASSUME NEW p \in Procs, Probe(p) PROVE FavStepOK
  BY <1>18 DEF Probe, FavStepOK
<1>19. ASSUME NEW p \in Procs, ProbeApply(p) PROVE FavStepOK
  BY <1>19 DEF ProbeApply, FavStepOK
<1>20. ASSUME NEW i \in Ids, Start(i) PROVE FavStepOK
  BY <1>20 DEF Start, FavStepOK
<1>21. CASE Stop
  BY <1>21 DEF Stop, FavStepOK
<1>22. CASE Crash
  BY <1>22 DEF Crash, FavStepOK
<1>23. CASE UNCHANGED vars
  BY <1>23 DEF vars, FavStepOK
<1> QED
  BY <1>1, <1>2, <1>3, <1>4, <1>5, <1>6, <1>7, <1>8, <1>9, <1>10,
     <1>11, <1>12, <1>13, <1>14, <1>15, <1>16, <1>17, <1>18, <1>19, <1>20,
     <1>21, <1>22, <1>23 DEF Next


\* No sync, edit or probe writes an older favourite flag back (ToggleFavorite
\* under StoreLock, Merge of the file as it is).
THEOREM FavouritesHold == Spec => FavouritesKept
<1>1. Inv /\ [Next]_vars => [FavStepOK]_vars
  BY FavStep DEF Inv
<1>2. FavStepOK <=> \A i \in Ids :
    servers[i] # None /\ servers'[i] # None /\ servers[i].fav # servers'[i].fav =>
      servers' = [servers EXCEPT ![i].fav = ~@]
  BY DEF FavStepOK
<1> QED BY <1>1, <1>2, InvInit, InvStep, PTL DEF Spec, FavouritesKept
=============================================================================
