---------------------------- MODULE Chain_proofs ----------------------------
(***************************************************************************)
(* Proofs about the two ends of the chain: ChainController, for any sets   *)
(* of goroutine slots and servers and any admitted faults, and, further    *)
(* down, the Linux helper daemon it drives (HelperChain, and what its      *)
(* ServiceStatus tells, HelperStatus), for any number of connections and   *)
(* sessions.                                                               *)
(*                                                                         *)
(* ChainController's inductive invariant Ownership says who may act: an    *)
(* attempt's context is live exactly while c.cancel, or a Stop about to    *)
(* cancel it, holds it; an attempt whose context is cancelled is one that  *)
(* a Stop is waiting for; and the phases of Stop after wg.Wait, and of     *)
(* Reconcile before it claims the controller, find no goroutine.  On it    *)
(* rest the invariants of the later parts: Recorded, on the session file;  *)
(* News, on the last status; ModeOfJob and Blocked, on the proxy kept to   *)
(* block traffic; ProxyTracked and ChainTracked, on who still has to clear *)
(* the proxy and to end the chain in each phase of a Stop and of an        *)
(* attempt.                                                                *)
(*                                                                         *)
(* HelperChain's inductive invariant Inv says who is where while chainMu   *)
(* is held and what the sessions look like before, during and after their  *)
(* life.                                                                   *)
(***************************************************************************)
EXTENDS ChainController, HelperStatus, TLAPS


(***************************************************************************)
(* Facts about the names and records the specification uses.               *)
(***************************************************************************)
\* The locations that the actions name are locations.
LEMMA PcNames ==
  {"idle", "spawn", "report", "build", "call", "await", "apply", "undoStop",
   "undoProxy", "failed", "failLock", "done", "commit", "clearOld", "settle",
   "save", "publish", "poll", "crash", "crashClear", "crashStop", "crashLock"}
    \subseteq Pcs
  BY DEF Pcs, BringUpPcs, SettlePcs, PollPcs

\* The locals an operation begins with are well typed.
LEMMA NoLocType == NoLoc \in Locs /\ NoLoc.target = NoWorker
  BY DEF NoLoc, Locs

\* The helper's StopChain leaves a session or none, whatever it reports.
LEMMA StopChainType ==
  ASSUME TypeOK, NEW b, NEW err, StopChain(b, err)
  PROVE  chain' \in Jobs \cup {NoJob} /\ dirty' \in BOOLEAN
<1>1. chain' \in Jobs \cup {NoJob}
  BY DEF TypeOK, StopChain
<1>2. dirty' \in BOOLEAN
  BY Zenon DEF TypeOK, StopChain
<1> QED
  BY <1>1, <1>2

\* Clearing the proxy leaves it on or off.
LEMMA ClearSysproxyType ==
  ASSUME TypeOK, NEW err, ClearSysproxy(err)
  PROVE  proxy' \in {"off", "on"}
  BY DEF TypeOK, ClearSysproxy

\* The critical section that claims the controller keeps the types.
LEMMA ClaimType ==
  ASSUME TypeOK, NEW w \in Workers, NEW s \in Servers, NEW m \in Modes, Claim(w, s, m)
  PROVE  /\ cancel' \in Workers \cup {NoWorker}
         /\ current' \in Servers \cup {NoServer}
         /\ mode' \in Modes
         /\ loc' \in Locs /\ loc'.target = w
         /\ pc' \in [Workers -> Pcs]
         /\ ctx' \in [Workers -> {"live", "done"}]
         /\ job' \in [Workers -> Jobs \cup {NoJob}]
         /\ job'[w] \in Jobs
         /\ \A v \in Workers : v # w => job'[v] = job[v] /\ pc'[v] = pc[v]
         /\ UNCHANGED <<cleanupPending, cleanupMode, out, req>>
<1>1. loc' \in Locs /\ loc'.target = w
  BY NoLocType DEF Claim, Locs
<1>2. [srv |-> s, mode |-> m] \in Jobs
  BY DEF Jobs
<1> QED
  BY <1>1, <1>2, PcNames DEF Claim, Goto, TypeOK

(***************************************************************************)
(* Type correctness.  JobsKnown is what makes TypeOK inductive: a record   *)
(* that is read as an attempt is one.                                      *)
(***************************************************************************)
JobsKnown ==
  /\ \A w \in Workers : Attached(w) => job[w] \in Jobs
  /\ \A w \in Workers : req[w] = "sent" => job[w] \in Jobs
  /\ cancel # NoWorker => mode \in Modes
  /\ opPc \in {"wait", "decide"} => loc.job \in Jobs
  /\ opPc \in {"launch", "adopt"} => loc.target \in Workers /\ job[loc.target] \in Jobs

TypeInv == TypeOK /\ JobsKnown

\* The initial state is well typed.
LEMMA TypeInit == Init => TypeInv
<1> SUFFICES ASSUME Init PROVE TypeOK /\ JobsKnown
  BY DEF TypeInv
<1>1. TypeOK
  BY NoLocType, PcNames DEF Init, TypeOK, OpPcs, Statuses
<1>2. JobsKnown
  BY NoLocType DEF Init, JobsKnown, Attached
<1> QED
  BY <1>1, <1>2

\* Every step of the controller, the helper and the environment keeps the
\* types: no step reads an attempt that is not there.
LEMMA TypeStep == TypeInv /\ [Next]_vars => TypeInv'
<1> SUFFICES ASSUME TypeOK, JobsKnown, [Next]_vars
             PROVE  TypeOK' /\ JobsKnown'
  BY DEF TypeInv
<1> USE NullAssumption, PcNames DEF ctrl, opv, gor, disk, host
<1>1. ASSUME NEW s \in Servers, NEW m \in Modes, Start(s, m)
      PROVE  TypeOK' /\ JobsKnown'
  <2>1. CASE ~cleanupPending
    <3>1. PICK w \in Workers : Claim(w, s, m)
      BY <1>1, <2>1 DEF Start
    <3>2. TypeOK'
      BY <1>1, <2>1, <3>1, ClaimType DEF Start, TypeOK, OpPcs
    <3>3. JobsKnown'
      BY <1>1, <2>1, <3>1, ClaimType, ZenonT(30) DEF Start, Claim, TypeOK, JobsKnown, Attached
    <3> QED
      BY <3>2, <3>3
  <2>2. CASE cleanupPending
    <3>1. loc' \in Locs /\ loc'.job \in Jobs
      BY <1>1, <2>2, NoLocType DEF Start, Locs, Jobs
    <3>2. TypeOK'
      BY <1>1, <2>2, <3>1 DEF Start, TypeOK, OpPcs
    <3>3. JobsKnown'
      BY <1>1, <2>2, <3>1 DEF Start, JobsKnown, Attached
    <3> QED
      BY <3>2, <3>3
  <2> QED
    BY <2>1, <2>2
<1>2. ASSUME NEW w \in Workers, Build(w) PROVE TypeOK' /\ JobsKnown'
  <2>1. TypeOK'
    BY <1>2 DEF Build, Goto, TypeOK
  <2>2. JobsKnown'
    BY <1>2 DEF Build, Goto, TypeOK, JobsKnown, Attached
  <2> QED
    BY <2>1, <2>2
<1>3. ASSUME NEW w \in Workers, StartChainCall(w) PROVE TypeOK' /\ JobsKnown'
  <2>1. TypeOK'
    BY <1>3 DEF StartChainCall, Goto, TypeOK
  <2>2. JobsKnown'
    BY <1>3 DEF StartChainCall, Goto, TypeOK, JobsKnown, Attached
  <2> QED
    BY <2>1, <2>2
<1>4. ASSUME NEW w \in Workers, HelperStartChain(w) PROVE TypeOK' /\ JobsKnown'
  <2>1. chain' \in Jobs \cup {NoJob}
    BY <1>4 DEF HelperStartChain, TypeOK, JobsKnown
  <2>2. TypeOK'
    BY <1>4, <2>1 DEF HelperStartChain, TypeOK
  <2>3. JobsKnown'
    BY <1>4, <2>1 DEF HelperStartChain, TypeOK, JobsKnown, Attached
  <2> QED
    BY <2>2, <2>3
<1>5. ASSUME NEW w \in Workers, StartChainReply(w) PROVE TypeOK' /\ JobsKnown'
  <2>1. TypeOK'
    BY <1>5 DEF StartChainReply, Goto, TypeOK
  <2>2. JobsKnown'
    BY <1>5 DEF StartChainReply, Goto, TypeOK, JobsKnown, Attached
  <2> QED
    BY <2>1, <2>2
<1>6. ASSUME NEW w \in Workers, StartChainCancelled(w) PROVE TypeOK' /\ JobsKnown'
  <2>1. late' \subseteq Jobs
    BY <1>6 DEF StartChainCancelled, TypeOK, JobsKnown, Attached
  <2>2. TypeOK'
    BY <1>6, <2>1 DEF StartChainCancelled, Goto, TypeOK
  <2>3. JobsKnown'
    BY <1>6, <2>1 DEF StartChainCancelled, Goto, TypeOK, JobsKnown, Attached
  <2> QED
    BY <2>2, <2>3
<1>7. ASSUME NEW w \in Workers, Apply(w) PROVE TypeOK' /\ JobsKnown'
  <2>1. job[w] \in Jobs
    BY <1>7 DEF Apply, JobsKnown, Attached
  <2>2. job[w].mode \in Modes
    BY <2>1 DEF Jobs
  <2>3. mode' \in Modes \/ mode' = mode
    BY <1>7, <2>2 DEF Apply
  <2>4. proxy' \in {"off", "on"}
    BY <1>7 DEF Apply, SetSysproxy, TypeOK
  <2>5. pc' \in [Workers -> Pcs] /\ \A v \in Workers : v # w => pc'[v] = pc[v]
    BY ZenonT(60), <1>7 DEF Apply, Goto, TypeOK
  <2>6. TypeOK'
    BY <1>7, <2>3, <2>4, <2>5 DEF Apply, TypeOK
  <2>7. JobsKnown'
    BY <1>7, <2>1, <2>3, <2>5 DEF Apply, TypeOK, JobsKnown, Attached
  <2> QED
    BY <2>6, <2>7
<1>8. ASSUME NEW w \in Workers, UndoStop(w) PROVE TypeOK' /\ JobsKnown'
  <2>1. chain' \in Jobs \cup {NoJob} /\ dirty' \in BOOLEAN
    BY <1>8, StopChainType DEF UndoStop
  <2>2. TypeOK'
    BY <1>8, <2>1 DEF UndoStop, Goto, TypeOK
  <2>3. JobsKnown'
    BY <1>8, <2>1 DEF UndoStop, Goto, TypeOK, JobsKnown, Attached
  <2> QED
    BY <2>2, <2>3
<1>9. ASSUME NEW w \in Workers, UndoProxy(w) PROVE TypeOK' /\ JobsKnown'
  <2>1. proxy' \in {"off", "on"}
    BY <1>9, ClearSysproxyType DEF UndoProxy, TypeOK
  <2>2. TypeOK'
    BY <1>9, <2>1 DEF UndoProxy, Goto, TypeOK
  <2>3. JobsKnown'
    BY <1>9, <2>1 DEF UndoProxy, Goto, TypeOK, JobsKnown, Attached
  <2> QED
    BY <2>2, <2>3
<1>10. ASSUME NEW w \in Workers, BringUpFailed(w) PROVE TypeOK' /\ JobsKnown'
  <2>1. TypeOK'
    BY <1>10 DEF BringUpFailed, Goto, TypeOK
  <2>2. JobsKnown'
    BY <1>10 DEF BringUpFailed, Goto, TypeOK, JobsKnown, Attached
  <2> QED
    BY <2>1, <2>2
<1>11. ASSUME NEW w \in Workers, FailLock(w) PROVE TypeOK' /\ JobsKnown'
  <2>1. cleanupPending' \in BOOLEAN
    BY <1>11 DEF FailLock, TypeOK
  <2>2. TypeOK'
    BY <1>11, <2>1 DEF FailLock, Goto, TypeOK, Statuses
  <2>3. JobsKnown'
    BY <1>11, <2>1 DEF FailLock, Goto, TypeOK, JobsKnown, Attached
  <2> QED
    BY <2>2, <2>3
<1>12. ASSUME NEW w \in Workers, BringUpDone(w) PROVE TypeOK' /\ JobsKnown'
  <2>1. TypeOK'
    BY <1>12 DEF BringUpDone, Goto, TypeOK
  <2>2. JobsKnown'
    BY <1>12 DEF BringUpDone, Goto, TypeOK, JobsKnown, Attached
  <2> QED
    BY <2>1, <2>2
<1>13. ASSUME NEW w \in Workers, Commit(w) PROVE TypeOK' /\ JobsKnown'
  <2>1. TypeOK'
    BY <1>13 DEF Commit, Goto, TypeOK
  <2>2. JobsKnown'
    BY <1>13 DEF Commit, Goto, TypeOK, JobsKnown, Attached
  <2> QED
    BY <2>1, <2>2
<1>14. ASSUME NEW w \in Workers, ClearOld(w) PROVE TypeOK' /\ JobsKnown'
  <2>1. proxy' \in {"off", "on"}
    BY <1>14, ClearSysproxyType DEF ClearOld
  <2>2. TypeOK'
    BY <1>14, <2>1, ZenonT(30) DEF ClearOld, Goto, TypeOK
  <2>3. JobsKnown'
    BY <1>14, <2>1 DEF ClearOld, Goto, TypeOK, JobsKnown, Attached
  <2> QED
    BY <2>2, <2>3
<1>15. ASSUME NEW w \in Workers, Settle(w) PROVE TypeOK' /\ JobsKnown'
  <2>1. cleanupPending' \in BOOLEAN
    BY <1>15 DEF Settle, TypeOK
  <2>2. TypeOK'
    BY <1>15, <2>1 DEF Settle, Goto, TypeOK
  <2>3. JobsKnown'
    BY <1>15, <2>1 DEF Settle, Goto, TypeOK, JobsKnown, Attached
  <2> QED
    BY <2>2, <2>3
<1>16. ASSUME NEW w \in Workers, SaveSession(w) PROVE TypeOK' /\ JobsKnown'
  <2>1. TypeOK'
    BY <1>16 DEF SaveSession, Goto, TypeOK
  <2>2. JobsKnown'
    BY <1>16 DEF SaveSession, Goto, TypeOK, JobsKnown, Attached
  <2> QED
    BY <2>1, <2>2
<1>17. ASSUME NEW w \in Workers, PublishConnected(w) PROVE TypeOK' /\ JobsKnown'
  <2>1. TypeOK'
    BY <1>17 DEF PublishConnected, Goto, TypeOK, Statuses
  <2>2. JobsKnown'
    BY <1>17 DEF PublishConnected, Goto, TypeOK, JobsKnown, Attached
  <2> QED
    BY <2>1, <2>2
<1>18. ASSUME NEW w \in Workers, PollReturn(w) PROVE TypeOK' /\ JobsKnown'
  <2>1. TypeOK'
    BY <1>18 DEF PollReturn, Goto, TypeOK
  <2>2. JobsKnown'
    BY <1>18 DEF PollReturn, Goto, TypeOK, JobsKnown, Attached
  <2> QED
    BY <2>1, <2>2
<1>19. ASSUME NEW w \in Workers, PollDrop(w) PROVE TypeOK' /\ JobsKnown'
  <2>1. TypeOK'
    BY <1>19 DEF PollDrop, Goto, TypeOK
  <2>2. JobsKnown'
    BY <1>19 DEF PollDrop, Goto, TypeOK, JobsKnown, Attached
  <2> QED
    BY <2>1, <2>2
<1>20. ASSUME NEW w \in Workers, CrashStolen(w) PROVE TypeOK' /\ JobsKnown'
  <2>1. TypeOK'
    BY <1>20 DEF CrashStolen, Goto, TypeOK
  <2>2. JobsKnown'
    BY <1>20 DEF CrashStolen, Goto, TypeOK, JobsKnown, Attached
  <2> QED
    BY <2>1, <2>2
<1>21. ASSUME NEW w \in Workers, CrashBlock(w) PROVE TypeOK' /\ JobsKnown'
  <2>1. TypeOK'
    BY <1>21 DEF CrashBlock, Goto, TypeOK, Statuses
  <2>2. JobsKnown'
    BY <1>21 DEF CrashBlock, Goto, TypeOK, JobsKnown, Attached
  <2> QED
    BY <2>1, <2>2
<1>22. ASSUME NEW w \in Workers, CrashDirect(w) PROVE TypeOK' /\ JobsKnown'
  <2>1. job[w] \in Jobs
    BY <1>22 DEF CrashDirect, JobsKnown, Attached
  <2>2. job' \in [Workers -> Jobs \cup {NoJob}] /\ job'[w] \in Jobs
    BY <1>22, <2>1 DEF CrashDirect, JobsKnown, TypeOK, Jobs
  <2>3. TypeOK'
    BY <1>22, <2>1, <2>2 DEF CrashDirect, Goto, TypeOK, Statuses
  <2>4. JobsKnown'
    BY <1>22, <2>1, <2>2 DEF CrashDirect, Goto, TypeOK, JobsKnown, Attached
  <2> QED
    BY <2>3, <2>4
<1>23. ASSUME NEW w \in Workers, CrashClear(w) PROVE TypeOK' /\ JobsKnown'
  <2>1. proxy' \in {"off", "on"}
    BY <1>23, ClearSysproxyType DEF CrashClear
  <2>2. out' \in [Workers -> Statuses]
    BY <1>23 DEF CrashClear, TypeOK, Statuses
  <2>3. TypeOK'
    BY <1>23, <2>1, <2>2 DEF CrashClear, Goto, TypeOK
  <2>4. JobsKnown'
    BY <1>23, <2>1 DEF CrashClear, Goto, TypeOK, JobsKnown, Attached
  <2> QED
    BY <2>3, <2>4
<1>24. ASSUME NEW w \in Workers, CrashStop(w) PROVE TypeOK' /\ JobsKnown'
  <2>1. chain' \in Jobs \cup {NoJob} /\ dirty' \in BOOLEAN
    BY <1>24, StopChainType DEF CrashStop
  <2>2. TypeOK'
    BY <1>24, <2>1, ZenonT(30) DEF CrashStop, Goto, TypeOK, Statuses
  <2>3. JobsKnown'
    BY <1>24, <2>1 DEF CrashStop, Goto, TypeOK, JobsKnown, Attached
  <2> QED
    BY <2>2, <2>3
<1>25. ASSUME NEW w \in Workers, CrashLock(w) PROVE TypeOK' /\ JobsKnown'
  <2>1. job[w] \in Jobs
    BY <1>25 DEF CrashLock, JobsKnown, Attached
  <2>2. cleanupMode' \in Modes \cup {NoMode}
    BY <1>25, <2>1 DEF CrashLock, TypeOK, Jobs
  <2>3. cleanupPending' \in BOOLEAN
    BY <1>25, Zenon DEF CrashLock, TypeOK
  <2>4. TypeOK'
    BY <1>25, <2>2, <2>3 DEF CrashLock, Goto, TypeOK
  <2>5. JobsKnown'
    BY <1>25, <2>2, <2>3 DEF CrashLock, Goto, TypeOK, JobsKnown, Attached
  <2> QED
    BY <2>4, <2>5
<1>26. ASSUME NEW w \in Workers, Report(w) PROVE TypeOK' /\ JobsKnown'
  <2>1. TypeOK'
    BY <1>26 DEF Report, Goto, TypeOK, Statuses
  <2>2. JobsKnown'
    BY <1>26 DEF Report, Goto, TypeOK, JobsKnown, Attached
  <2> QED
    BY <2>1, <2>2
<1>27. CASE StartJoined
  <2>1. loc.job \in Jobs
    BY <1>27 DEF StartJoined, JobsKnown
  <2>2. loc.job.srv \in Servers /\ loc.job.mode \in Modes
    BY <2>1 DEF Jobs
  <2>3. PICK w \in Workers : Claim(w, loc.job.srv, loc.job.mode)
    BY <1>27 DEF StartJoined
  <2>4. TypeOK'
    BY <1>27, <2>2, <2>3, ClaimType DEF StartJoined, TypeOK, OpPcs
  <2>5. JobsKnown'
    BY <1>27, <2>2, <2>3, ClaimType, ZenonT(30) DEF StartJoined, Claim, TypeOK, JobsKnown, Attached
  <2> QED
    BY <2>4, <2>5
<1>28. CASE StartPublish
  <2>1. loc.target \in Workers
    BY <1>28 DEF StartPublish, JobsKnown
  <2>2. TypeOK'
    BY <1>28, NoLocType, <2>1 DEF StartPublish, Goto, TypeOK, Statuses, OpPcs
  <2>3. JobsKnown'
    BY <1>28, NoLocType, <2>1 DEF StartPublish, Goto, TypeOK, JobsKnown, Attached
  <2> QED
    BY <2>2, <2>3
<1>29. CASE StopIdle
  <2>1. TypeOK'
    BY <1>29 DEF StopIdle, TypeOK
  <2>2. JobsKnown'
    BY <1>29 DEF StopIdle, TypeOK, JobsKnown, Attached
  <2> QED
    BY <2>1, <2>2
<1>30. CASE StopTake
  <2>1. loc' \in Locs
    BY <1>30, NoLocType DEF StopTake, TypeOK, Locs
  <2>2. TypeOK'
    BY <1>30, <2>1 DEF StopTake, TypeOK, OpPcs
  <2>3. JobsKnown'
    BY <1>30, <2>1 DEF StopTake, TypeOK, JobsKnown, Attached
  <2> QED
    BY <2>2, <2>3
<1>31. CASE StopCancel
  <2>1. TypeOK'
    BY <1>31 DEF StopCancel, TypeOK, OpPcs
  <2>2. JobsKnown'
    BY <1>31 DEF StopCancel, TypeOK, JobsKnown, Attached
  <2> QED
    BY <2>1, <2>2
<1>32. CASE StopAnnounce
  <2>1. TypeOK'
    BY <1>32 DEF StopAnnounce, TypeOK, Statuses, OpPcs
  <2>2. JobsKnown'
    BY <1>32 DEF StopAnnounce, TypeOK, JobsKnown, Attached
  <2> QED
    BY <2>1, <2>2
<1>33. CASE StopJoin
  <2>1. TypeOK'
    BY <1>33 DEF StopJoin, TypeOK, OpPcs
  <2>2. JobsKnown'
    BY <1>33 DEF StopJoin, TypeOK, JobsKnown, Attached
  <2> QED
    BY <2>1, <2>2
<1>34. CASE StopClear
  <2>1. proxy' \in {"off", "on"}
    BY <1>34, ClearSysproxyType DEF StopClear
  <2>2. loc' \in Locs
    BY ZenonT(60), <1>34 DEF StopClear, TypeOK, Locs
  <2>3. TypeOK'
    BY <1>34, <2>1, <2>2 DEF StopClear, TypeOK, OpPcs
  <2>4. JobsKnown'
    BY <1>34, <2>1, <2>2 DEF StopClear, TypeOK, JobsKnown, Attached
  <2> QED
    BY <2>3, <2>4
<1>35. CASE StopStop
  <2>1. chain' \in Jobs \cup {NoJob} /\ dirty' \in BOOLEAN
    BY <1>35, StopChainType DEF StopStop
  <2>2. loc' \in Locs
    BY ZenonT(60), <1>35 DEF StopStop, TypeOK, Locs
  <2>3. TypeOK'
    BY <1>35, <2>1, <2>2 DEF StopStop, TypeOK, OpPcs
  <2>4. JobsKnown'
    BY <1>35, <2>1, <2>2 DEF StopStop, TypeOK, JobsKnown, Attached
  <2> QED
    BY <2>3, <2>4
<1>36. CASE StopPrev
  <2>1. proxy' \in {"off", "on"}
    BY <1>36, ClearSysproxyType DEF StopPrev, TypeOK
  <2>2. loc' \in Locs
    BY <1>36, ZenonT(30) DEF StopPrev, TypeOK, Locs
  <2>3. TypeOK'
    BY <1>36, <2>1, <2>2 DEF StopPrev, TypeOK, OpPcs
  <2>4. JobsKnown'
    BY <1>36, <2>1, <2>2 DEF StopPrev, TypeOK, JobsKnown, Attached
  <2> QED
    BY <2>3, <2>4
<1>37. CASE StopLock
  <2>1. loc' \in Locs
    BY <1>37, NoLocType DEF StopLock, TypeOK
  <2>2. cleanupPending' \in BOOLEAN
    BY <1>37, Zenon DEF StopLock
  <2>3. cleanupMode' \in Modes \cup {NoMode}
    BY <1>37 DEF StopLock, TypeOK, Locs
  <2>4. TypeOK'
    BY <1>37, NoLocType, <2>1, <2>2, <2>3 DEF StopLock, TypeOK, Statuses, OpPcs
  <2>5. JobsKnown'
    BY <1>37, NoLocType, <2>1, <2>2, <2>3 DEF StopLock, TypeOK, JobsKnown, Attached
  <2> QED
    BY <2>4, <2>5
<1>38. CASE ClearSession
  <2>1. TypeOK'
    BY <1>38, NoLocType DEF ClearSession, TypeOK, OpPcs
  <2>2. JobsKnown'
    BY <1>38, NoLocType DEF ClearSession, TypeOK, JobsKnown, Attached
  <2> QED
    BY <2>1, <2>2
<1>39. CASE ReconcileLoad
  <2>1. /\ loc' \in Locs
        /\ opPc' = "decide" => loc'.job \in Jobs
        /\ opPc' \in {"decide", "free"}
    <3>1. CASE session = NoJob
      BY <1>39, <3>1, NoLocType DEF ReconcileLoad
    <3>2. CASE session # NoJob
      <4>1. session \in Jobs
        BY <3>2 DEF TypeOK
      <4>2. ServiceStatus \in {"down", "up", "dirty"}
        BY DEF ServiceStatus
      <4>3. PICK st \in {"down", "up", "dirty", "err"} :
              loc' = [NoLoc EXCEPT !.job = session, !.st = st]
        BY <1>39, <3>2, <4>2 DEF ReconcileLoad
      <4>4. loc' \in Locs /\ loc'.job = session
        BY <4>1, <4>3, NoLocType DEF Locs
      <4> QED
        BY <1>39, <3>2, <4>1, <4>4 DEF ReconcileLoad
    <3> QED
      BY <3>1, <3>2
  <2>2. opPc' \in OpPcs
    BY <2>1 DEF OpPcs
  <2>3. TypeOK'
    BY <1>39, <2>1, <2>2 DEF ReconcileLoad, TypeOK, OpPcs
  <2>4. JobsKnown'
    BY <1>39, <2>1, <2>2 DEF ReconcileLoad, TypeOK, JobsKnown, Attached
  <2> QED
    BY <2>3, <2>4
<1>40. CASE ReconcileDirty
  <2>1. loc.job \in Jobs
    BY <1>40 DEF ReconcileDirty, JobsKnown
  <2>2. loc.job.srv \in Servers /\ loc.job.mode \in Modes
    BY <2>1 DEF Jobs
  <2>3. TypeOK'
    BY <1>40, NoLocType, <2>2 DEF ReconcileDirty, ReconcileDone, TypeOK, Statuses, OpPcs
  <2>4. JobsKnown'
    BY <1>40, NoLocType, <2>2 DEF ReconcileDirty, ReconcileDone, TypeOK, JobsKnown, Attached
  <2> QED
    BY <2>3, <2>4
<1>41. CASE ReconcileNoServer
  <2>1. TypeOK'
    BY <1>41, NoLocType DEF ReconcileNoServer, ReconcileDone, TypeOK, OpPcs
  <2>2. JobsKnown'
    BY <1>41, NoLocType DEF ReconcileNoServer, ReconcileDone, TypeOK, JobsKnown, Attached
  <2> QED
    BY <2>1, <2>2
<1>42. CASE ReconcileIdle
  <2>1. proxy' \in {"off", "on"}
    BY <1>42, ClearSysproxyType DEF ReconcileIdle, TypeOK
  <2>2. loc.job \in Jobs
    BY <1>42 DEF ReconcileIdle, JobsKnown
  <2>3. loc.job.srv \in Servers /\ loc.job.mode \in Modes
    BY <2>2 DEF Jobs
  <2>4. TypeOK'
    BY <1>42, <2>1, NoLocType, <2>3 DEF ReconcileIdle, ReconcileDone, TypeOK, OpPcs
  <2>5. JobsKnown'
    BY <1>42, <2>1, NoLocType, <2>3 DEF ReconcileIdle, ReconcileDone, TypeOK, JobsKnown, Attached
  <2> QED
    BY <2>4, <2>5
<1>43. CASE ReconcileAdopt
  <2>1. loc.job \in Jobs
    BY <1>43 DEF ReconcileAdopt, JobsKnown
  <2>2. loc.job.srv \in Servers /\ loc.job.mode \in Modes
    BY <2>1 DEF Jobs
  <2>3. PICK w \in Workers : Claim(w, loc.job.srv, loc.job.mode)
    BY <1>43 DEF ReconcileAdopt
  <2>4. TypeOK'
    BY <1>43, <2>2, <2>3, ClaimType DEF ReconcileAdopt, TypeOK, OpPcs
  <2>5. JobsKnown'
    BY <1>43, <2>2, <2>3, ClaimType, ZenonT(30) DEF ReconcileAdopt, Claim, TypeOK, JobsKnown, Attached
  <2> QED
    BY <2>4, <2>5
<1>44. CASE ReconcilePublish
  <2>1. loc.target \in Workers
    BY <1>44 DEF ReconcilePublish, JobsKnown
  <2>2. TypeOK'
    BY <1>44, NoLocType, <2>1 DEF ReconcilePublish, Goto, ReconcileDone, TypeOK, Statuses, OpPcs
  <2>3. JobsKnown'
    BY <1>44, NoLocType, <2>1 DEF ReconcilePublish, Goto, ReconcileDone, TypeOK, JobsKnown, Attached
  <2> QED
    BY <2>2, <2>3
<1>45. CASE ChainDrop
  <2>1. chain' \in Jobs \cup {NoJob}
    BY <1>45 DEF ChainDrop, TypeOK
  <2>2. dirty' \in BOOLEAN
    BY <1>45, Zenon DEF ChainDrop, TypeOK
  <2>3. TypeOK'
    BY <1>45, <2>1, <2>2 DEF ChainDrop, TypeOK
  <2>4. JobsKnown'
    BY <1>45, <2>1, <2>2 DEF ChainDrop, TypeOK, JobsKnown, Attached
  <2> QED
    BY <2>3, <2>4
<1>46. CASE LateStartChain
  <2>1. TypeOK'
    BY <1>46 DEF LateStartChain, TypeOK
  <2>2. JobsKnown'
    BY <1>46 DEF LateStartChain, TypeOK, JobsKnown, Attached
  <2> QED
    BY <2>1, <2>2
<1>47. CASE StoreChange
  <2>1. TypeOK'
    BY <1>47 DEF StoreChange, TypeOK
  <2>2. JobsKnown'
    BY <1>47 DEF StoreChange, TypeOK, JobsKnown, Attached
  <2> QED
    BY <2>1, <2>2
<1>48. CASE BridgeExit
  <2>1. late' \subseteq Jobs
    BY <1>48 DEF BridgeExit, TypeOK, JobsKnown
  <2>2. TypeOK'
    BY <1>48, NoLocType, <2>1 DEF BridgeExit, TypeOK, Statuses, OpPcs
  <2>3. JobsKnown'
    BY <1>48, NoLocType, <2>1 DEF BridgeExit, TypeOK, JobsKnown, Attached
  <2> QED
    BY <2>2, <2>3
<1>49. CASE UNCHANGED vars
  BY <1>49 DEF vars, TypeOK, JobsKnown, Attached
<1> QED
  BY <1>1, <1>2, <1>3, <1>4, <1>5, <1>6, <1>7, <1>8, <1>9, <1>10,
     <1>11, <1>12, <1>13, <1>14, <1>15, <1>16, <1>17, <1>18, <1>19, <1>20,
     <1>21, <1>22, <1>23, <1>24, <1>25, <1>26, <1>27, <1>28, <1>29, <1>30,
     <1>31, <1>32, <1>33, <1>34, <1>35, <1>36, <1>37, <1>38, <1>39, <1>40,
     <1>41, <1>42, <1>43, <1>44, <1>45, <1>46, <1>47, <1>48, <1>49
  DEF Next, Operation, Stop, Reconcile, Goroutine, BringUp, Poller

\* The controller's fields, its goroutines' locals and the files always hold
\* values of their types.
THEOREM TypeCorrect == Spec => []TypeOK
<1>1. Init => TypeInv
  BY TypeInit
<1>2. TypeInv /\ [Next]_vars => TypeInv'
  BY TypeStep
<1>3. TypeInv => TypeOK
  BY DEF TypeInv
<1> QED
  BY <1>1, <1>2, <1>3, PTL DEF Spec

(***************************************************************************)
(* Ownership: who may act on the chain.                                    *)
(***************************************************************************)
\* An attempt whose context is cancelled is one that a Stop waits for.
StolenAwaited ==
  \A w \in Workers : Attached(w) /\ ctx[w] = "done" =>
    opPc \in {"disc", "join"} /\ loc.target = w

\* A goroutine is claimed and not yet launched exactly while Start or
\* Reconcile publishes its first status.
SpawnPending ==
  /\ opPc \in {"launch", "adopt"} =>
       loc.target \in Workers /\ cancel = loc.target /\ pc[loc.target] = "spawn"
  /\ \A w \in Workers : pc[w] = "spawn" =>
       opPc \in {"launch", "adopt"} /\ loc.target = w

\* The phases of an operation in which c.cancel is nil, and those of them in
\* which no goroutine is left.
JoinedPcs == {"boot", "decide", "tearClear", "tearStop", "tearPrev", "stopLock", "forget"}
UnownedPcs == JoinedPcs \cup {"wait", "cancel", "disc", "join"}
Unowned == opPc \in UnownedPcs => cancel = NoWorker
AllJoined == opPc \in JoinedPcs => Joined

Ownership ==
  LiveContextReachable /\ StolenAwaited /\ SpawnPending /\ Unowned /\ AllJoined

\* At most one goroutine has an attempt, and c.cancel is its cancel function
\* or nil.
LEMMA OneAttached ==
  ASSUME TypeOK, Ownership, NEW w \in Workers, Attached(w)
  PROVE  /\ cancel \in {w, NoWorker}
         /\ \A v \in Workers : Attached(v) => v = w
         /\ ~Joined
<1>1. CASE ctx[w] = "done"
  <2>1. opPc \in {"disc", "join"} /\ loc.target = w /\ cancel = NoWorker
    BY <1>1 DEF Ownership, StolenAwaited, Unowned, UnownedPcs
  <2>2. ASSUME NEW v \in Workers, Attached(v) PROVE v = w
    BY <2>1, <2>2, NullAssumption
    DEF TypeOK, Ownership, StolenAwaited, LiveContextReachable
  <2> QED
    BY <2>1, <2>2 DEF Joined, Attached
<1>2. CASE ctx[w] = "live"
  <2>1. \/ cancel = w /\ opPc # "cancel"
        \/ opPc = "cancel" /\ loc.target = w /\ cancel = NoWorker
    BY <1>2, NullAssumption DEF Ownership, LiveContextReachable, Unowned, UnownedPcs
  <2>2. opPc \notin {"disc", "join"}
    BY <2>1, NullAssumption DEF Ownership, Unowned, UnownedPcs
  <2>3. ASSUME NEW v \in Workers, Attached(v) PROVE v = w
    BY <2>1, <2>2, <2>3, NullAssumption
    DEF TypeOK, Ownership, StolenAwaited, LiveContextReachable
  <2> QED
    BY <2>1, <2>3 DEF Joined, Attached
<1> QED
  BY <1>1, <1>2 DEF TypeOK

\* A goroutine that goes on to another step of its attempt.
LEMMA MoveOn ==
  ASSUME TypeOK, Ownership, NEW w \in Workers, Attached(w), pc[w] # "spawn",
         NEW l \in Pcs \ {"idle", "report", "spawn"}, Goto(w, l),
         UNCHANGED <<cancel, opPc, loc, ctx>>
  PROVE  Ownership'
<1>1. pc' = [pc EXCEPT ![w] = l] /\ pc \in [Workers -> Pcs]
  BY DEF Goto, TypeOK
<1>2. \A v \in Workers : Attached(v)' <=> Attached(v)
  BY <1>1 DEF Attached
<1>3. LiveContextReachable' /\ StolenAwaited' /\ Unowned'
  BY <1>2 DEF Ownership, LiveContextReachable, StolenAwaited, Unowned
<1>4. SpawnPending'
  BY <1>1 DEF Ownership, SpawnPending
<1>5. AllJoined'
  BY OneAttached DEF Ownership, AllJoined
<1> QED
  BY <1>3, <1>4, <1>5 DEF Ownership

\* A goroutine that returns, with no attempt left or with one whose context
\* is no longer c.cancel's.
LEMMA Leave ==
  ASSUME TypeOK, Ownership, NEW w \in Workers, pc[w] # "spawn", cancel # w,
         Goto(w, "idle"), UNCHANGED <<cancel, opPc, loc, ctx>>
  PROVE  Ownership'
<1>1. pc' = [pc EXCEPT ![w] = "idle"] /\ pc \in [Workers -> Pcs]
  BY DEF Goto, TypeOK
<1>2. /\ \A v \in Workers : Attached(v)' => Attached(v)
      /\ \A v \in Workers : v # w => (Attached(v)' <=> Attached(v))
  BY <1>1 DEF Attached
<1>3. LiveContextReachable' /\ StolenAwaited' /\ Unowned'
  BY <1>2 DEF Ownership, LiveContextReachable, StolenAwaited, Unowned
<1>4. SpawnPending'
  BY <1>1 DEF Ownership, SpawnPending
<1>5. AllJoined'
  BY <1>1 DEF Ownership, AllJoined, Joined
<1> QED
  BY <1>3, <1>4, <1>5 DEF Ownership

\* A goroutine that gives its attempt up and has a last status to publish:
\* c.cancel is nil from here on, and the context it held is cancelled.
LEMMA GiveUp ==
  ASSUME TypeOK, Ownership, NEW w \in Workers, Attached(w), pc[w] # "spawn",
         Goto(w, "report"), cancel' = NoWorker, UNCHANGED <<opPc, loc>>,
         ctx' \in [Workers -> {"live", "done"}],
         \A v \in Workers : ctx'[v] = "live" => ctx[v] = "live" /\ cancel # v
  PROVE  Ownership'
<1>1. pc' = [pc EXCEPT ![w] = "report"] /\ pc \in [Workers -> Pcs]
  BY DEF Goto, TypeOK
<1>2. \A v \in Workers : ~Attached(v)'
  BY <1>1, OneAttached DEF Attached
<1>3. LiveContextReachable'
  BY NullAssumption DEF Ownership, LiveContextReachable
<1>4. StolenAwaited' /\ Unowned'
  BY <1>2 DEF Ownership, StolenAwaited, Unowned
<1>5. opPc \notin {"launch", "adopt"}
  BY OneAttached DEF Ownership, SpawnPending, Attached
<1>6. SpawnPending'
  BY <1>1, <1>5 DEF Ownership, SpawnPending
<1>7. AllJoined'
  BY OneAttached DEF Ownership, AllJoined
<1> QED
  BY <1>3, <1>4, <1>6, <1>7 DEF Ownership

\* An operation that claims the controller: nobody else has an attempt.
LEMMA ClaimOwns ==
  ASSUME TypeOK, Ownership, NEW w \in Workers, NEW s, NEW m, Claim(w, s, m),
         opPc \in {"free", "wait", "decide"}, cancel = NoWorker,
         opPc' \in {"launch", "adopt"}
  PROVE  Ownership'
<1>1. /\ pc' = [pc EXCEPT ![w] = "spawn"] /\ pc \in [Workers -> Pcs]
      /\ ctx' = [ctx EXCEPT ![w] = "live"] /\ ctx \in [Workers -> {"live", "done"}]
      /\ cancel' = w
  BY DEF Claim, Goto, TypeOK
<1>2. loc'.target = w
  BY NoLocType DEF Claim, Locs
<1>3. \A v \in Workers : ~Attached(v) /\ ctx[v] = "done"
  BY NullAssumption DEF TypeOK, Ownership, LiveContextReachable, StolenAwaited
<1>4. LiveContextReachable' /\ StolenAwaited'
  BY <1>1, <1>3 DEF LiveContextReachable, StolenAwaited, Attached
<1>5. SpawnPending'
  BY <1>1, <1>2, <1>3 DEF SpawnPending, Attached
<1>6. Unowned' /\ AllJoined'
  BY DEF Unowned, AllJoined, UnownedPcs, JoinedPcs
<1> QED
  BY <1>4, <1>5, <1>6 DEF Ownership

\* A step that touches neither the goroutines nor c.cancel nor the operation.
LEMMA OwnershipFrame ==
  ASSUME Ownership, UNCHANGED <<cancel, opPc, loc, pc, ctx>>
  PROVE  Ownership'
  BY DEF Ownership, LiveContextReachable, StolenAwaited, SpawnPending, Unowned,
         AllJoined, Joined, Attached

\* The initial state has no goroutine and no cancel function.
LEMMA OwnershipInit == Init => Ownership
  BY NullAssumption
  DEF Init, Ownership, LiveContextReachable, StolenAwaited, SpawnPending, Unowned,
      AllJoined, Joined, Attached

\* A step of a goroutine keeps Ownership.
LEMMA OwnershipGoroutine ==
  ASSUME TypeOK, Ownership, NEW w \in Workers, Goroutine(w)
  PROVE  Ownership'
<1> USE PcNames DEF ctrl, opv
<1>1. CASE Build(w)
  BY <1>1, MoveOn DEF Build, Attached
<1>2. CASE StartChainCall(w)
  <2>1. PICK l \in {"failed", "await"} : Goto(w, l)
    BY <1>2 DEF StartChainCall
  <2> QED
    BY <1>2, <2>1, MoveOn DEF StartChainCall, Attached
<1>3. CASE StartChainReply(w)
  <2>1. PICK l \in {"failed", "apply"} : Goto(w, l)
    BY <1>3 DEF StartChainReply
  <2> QED
    BY <1>3, <2>1, MoveOn DEF StartChainReply, Attached
<1>4. CASE StartChainCancelled(w)
  BY <1>4, MoveOn DEF StartChainCancelled, Attached
<1>5. CASE Apply(w)
  <2>1. PICK l \in {"done", "undoStop"} : Goto(w, l)
    BY <1>5 DEF Apply
  <2> QED
    BY <1>5, <2>1, MoveOn DEF Apply, Attached
<1>6. CASE UndoStop(w)
  <2>1. PICK l \in {"undoProxy", "failed"} : Goto(w, l)
    BY <1>6 DEF UndoStop
  <2> QED
    BY <1>6, <2>1, MoveOn DEF UndoStop, Attached
<1>7. CASE UndoProxy(w)
  BY <1>7, MoveOn DEF UndoProxy, Attached
<1>8. CASE BringUpFailed(w)
  <2>1. CASE ctx[w] = "done"
    <3>1. cancel # w
      BY <2>1 DEF Ownership, LiveContextReachable
    <3> QED
      BY <1>8, <2>1, <3>1, Leave DEF BringUpFailed
  <2>2. CASE ctx[w] # "done"
    BY <1>8, <2>2, MoveOn DEF BringUpFailed, Attached
  <2> QED
    BY <2>1, <2>2
<1>9. CASE FailLock(w)
  <2>1. Attached(w) /\ pc[w] # "spawn"
    BY <1>9 DEF FailLock, Attached
  <2>2. \A v \in Workers : ctx'[v] = "live" => ctx[v] = "live" /\ cancel # v
    BY <1>9, <2>1, OneAttached, NullAssumption DEF FailLock, TypeOK
  <2>3. ctx' \in [Workers -> {"live", "done"}]
    BY <1>9 DEF FailLock, TypeOK
  <2> QED
    BY <1>9, <2>1, <2>2, <2>3, GiveUp DEF FailLock
<1>10. CASE Report(w)
  <2>1. cancel # w
    BY <1>10 DEF Report, Ownership, LiveContextReachable, Attached
  <2> QED
    BY <1>10, <2>1, Leave DEF Report
<1>11. CASE BringUpDone(w)
  <2>1. CASE ctx[w] = "done"
    <3>1. cancel # w
      BY <2>1 DEF Ownership, LiveContextReachable
    <3> QED
      BY <1>11, <2>1, <3>1, Leave DEF BringUpDone
  <2>2. CASE ctx[w] # "done"
    BY <1>11, <2>2, MoveOn DEF BringUpDone, Attached
  <2> QED
    BY <2>1, <2>2
<1>12. CASE Commit(w)
  <2>1. PICK l \in {"clearOld", "settle"} : Goto(w, l)
    BY <1>12 DEF Commit
  <2> QED
    BY <1>12, <2>1, MoveOn DEF Commit, Attached
<1>13. CASE ClearOld(w)
  <2>1. PICK l \in {"settle", "save"} : Goto(w, l)
    BY <1>13 DEF ClearOld
  <2> QED
    BY <1>13, <2>1, MoveOn DEF ClearOld, Attached
<1>14. CASE Settle(w)
  BY <1>14, MoveOn DEF Settle, Attached
<1>15. CASE SaveSession(w)
  BY <1>15, MoveOn DEF SaveSession, Attached
<1>16. CASE PublishConnected(w)
  BY <1>16, MoveOn DEF PublishConnected, Attached
<1>17. CASE PollReturn(w)
  <2>1. cancel # w
    BY <1>17 DEF PollReturn, Ownership, LiveContextReachable
  <2> QED
    BY <1>17, <2>1, Leave DEF PollReturn
<1>18. CASE PollDrop(w)
  BY <1>18, MoveOn DEF PollDrop, Attached
<1>19. CASE CrashStolen(w)
  <2>1. cancel # w
    BY <1>19, NullAssumption DEF CrashStolen, Ownership, LiveContextReachable
  <2> QED
    BY <1>19, <2>1, Leave DEF CrashStolen
<1>20. CASE CrashBlock(w)
  <2>1. Attached(w) /\ pc[w] # "spawn"
    BY <1>20 DEF CrashBlock, Attached
  <2>2. cancel = w
    BY <1>20, <2>1, OneAttached DEF CrashBlock
  <2>3. /\ \A v \in Workers : ctx'[v] = "live" => ctx[v] = "live" /\ cancel # v
        /\ ctx' \in [Workers -> {"live", "done"}]
    BY <1>20, <2>2 DEF CrashBlock, TypeOK
  <2> QED
    BY <1>20, <2>1, <2>3, GiveUp DEF CrashBlock
<1>21. CASE CrashDirect(w)
  <2>1. PICK l \in {"crashClear", "crashStop"} : Goto(w, l)
    BY <1>21 DEF CrashDirect
  <2> QED
    BY <1>21, <2>1, MoveOn DEF CrashDirect, Attached
<1>22. CASE CrashClear(w)
  BY <1>22, MoveOn DEF CrashClear, Attached
<1>23. CASE CrashStop(w)
  BY <1>23, MoveOn DEF CrashStop, Attached
<1>24. CASE CrashLock(w)
  <2>1. Attached(w) /\ pc[w] # "spawn"
    BY <1>24 DEF CrashLock, Attached
  <2>2. /\ \A v \in Workers : ctx'[v] = "live" => ctx[v] = "live" /\ cancel # v
        /\ ctx' \in [Workers -> {"live", "done"}]
    BY <1>24 DEF CrashLock, TypeOK
  <2> QED
    BY <1>24, <2>1, <2>2, GiveUp DEF CrashLock
<1> QED
  BY <1>1, <1>2, <1>3, <1>4, <1>5, <1>6, <1>7, <1>8, <1>9, <1>10, <1>11, <1>12,
     <1>13, <1>14, <1>15, <1>16, <1>17, <1>18, <1>19, <1>20, <1>21, <1>22, <1>23,
     <1>24
  DEF Goroutine, BringUp, Poller

\* An operation that goes on to a phase in which c.cancel is nil, from one in
\* which it already was and in which no goroutine is left.
LEMMA OperationOn ==
  ASSUME TypeOK, Ownership, opPc \in JoinedPcs, opPc' \in JoinedPcs \cup {"free"},
         UNCHANGED <<cancel, pc, ctx>>
  PROVE  Ownership'
<1>1. cancel = NoWorker /\ Joined
  BY DEF Ownership, Unowned, AllJoined, UnownedPcs
<1>2. \A v \in Workers : ~Attached(v) /\ pc[v] = "idle" /\ ctx[v] = "done"
  BY <1>1, NullAssumption
  DEF Joined, Attached, TypeOK, Ownership, LiveContextReachable, JoinedPcs
<1>3. LiveContextReachable' /\ StolenAwaited'
  BY <1>1, <1>2, NullAssumption DEF LiveContextReachable, StolenAwaited, Attached
<1>4. SpawnPending' /\ Unowned' /\ AllJoined'
  BY <1>1, <1>2 DEF SpawnPending, Unowned, AllJoined, Joined, JoinedPcs
<1> QED
  BY <1>3, <1>4 DEF Ownership

\* A step of Start, Stop or Reconcile keeps Ownership.
LEMMA OwnershipOperation ==
  ASSUME TypeOK, Ownership,
         \/ \E s \in Servers, m \in Modes : Start(s, m)
         \/ StopIdle \/ StopTake \/ Operation
  PROVE  Ownership'
<1> USE DEF ctrl, opv, gor
<1>1. ASSUME NEW s \in Servers, NEW m \in Modes, Start(s, m)
      PROVE  Ownership'
  <2>1. CASE opPc' = "launch"
    <3>1. PICK w \in Workers : Claim(w, s, m)
      BY <1>1, <2>1 DEF Start
    <3> QED
      BY <1>1, <2>1, <3>1, ClaimOwns DEF Start
  <2>2. CASE opPc' = "wait"
    <3>1. UNCHANGED <<cancel, pc, ctx>> /\ cancel = NoWorker /\ opPc = "free"
      BY <1>1, <2>2 DEF Start
    <3>2. LiveContextReachable' /\ StolenAwaited' /\ SpawnPending'
      BY <2>2, <3>1, NullAssumption
      DEF Ownership, LiveContextReachable, StolenAwaited, SpawnPending, Attached
    <3>3. Unowned' /\ AllJoined'
      BY <2>2, <3>1 DEF Unowned, AllJoined, JoinedPcs
    <3> QED
      BY <3>2, <3>3 DEF Ownership
  <2> QED
    BY <1>1, <2>1, <2>2 DEF Start
<1>2. CASE StartJoined
  <2>1. PICK w \in Workers : Claim(w, loc.job.srv, loc.job.mode)
    BY <1>2 DEF StartJoined
  <2>2. cancel = NoWorker
    BY <1>2 DEF StartJoined, Ownership, Unowned, UnownedPcs
  <2> QED
    BY <1>2, <2>1, <2>2, ClaimOwns DEF StartJoined
<1>3. CASE StartPublish \/ ReconcilePublish
  <2>1. PICK l \in {"build", "poll"} :
          /\ Goto(loc.target, l)
          /\ opPc \in {"launch", "adopt"} /\ opPc' = "free"
          /\ UNCHANGED <<cancel, ctx>>
    BY <1>3 DEF StartPublish, ReconcilePublish, ReconcileDone
  <2>2. loc.target \in Workers /\ cancel = loc.target /\ pc[loc.target] = "spawn"
    BY <2>1 DEF Ownership, SpawnPending
  <2>3. /\ \A v \in Workers : Attached(v)' <=> Attached(v)
        /\ \A v \in Workers : pc'[v] # "spawn"
    BY <2>1, <2>2 DEF Goto, TypeOK, Attached, Ownership, SpawnPending
  <2>4. LiveContextReachable' /\ StolenAwaited'
    BY <2>1, <2>3 DEF Ownership, LiveContextReachable, StolenAwaited
  <2>5. SpawnPending' /\ Unowned' /\ AllJoined'
    BY <2>1, <2>3 DEF SpawnPending, Unowned, AllJoined, UnownedPcs, JoinedPcs
  <2> QED
    BY <2>4, <2>5 DEF Ownership
<1>4. CASE StopIdle
  BY <1>4, OwnershipFrame DEF StopIdle
<1>5. CASE StopTake
  <2>1. /\ opPc = "free" /\ opPc' = "cancel" /\ cancel' = NoWorker
        /\ loc'.target = cancel /\ UNCHANGED <<pc, ctx>>
    BY <1>5, NoLocType DEF StopTake, Locs
  <2>2. LiveContextReachable' /\ StolenAwaited' /\ SpawnPending'
    BY <2>1, NullAssumption
    DEF Ownership, LiveContextReachable, StolenAwaited, SpawnPending, Attached
  <2>3. Unowned' /\ AllJoined'
    BY <2>1 DEF Unowned, AllJoined, JoinedPcs
  <2> QED
    BY <2>2, <2>3 DEF Ownership
<1>6. CASE StopCancel
  <2>1. /\ opPc = "cancel" /\ opPc' = "disc"
        /\ ctx' = [w \in Workers |-> IF w = loc.target THEN "done" ELSE ctx[w]]
        /\ UNCHANGED <<cancel, loc, pc>>
        /\ cancel = NoWorker
    BY <1>6 DEF StopCancel, Ownership, Unowned, UnownedPcs
  <2>2. LiveContextReachable' /\ StolenAwaited' /\ SpawnPending'
    BY <2>1, NullAssumption
    DEF TypeOK, Ownership, LiveContextReachable, StolenAwaited, SpawnPending, Attached
  <2>3. Unowned' /\ AllJoined'
    BY <2>1 DEF Unowned, AllJoined, JoinedPcs
  <2> QED
    BY <2>2, <2>3 DEF Ownership
<1>7. CASE StopAnnounce
  <2>1. opPc = "disc" /\ opPc' = "join" /\ UNCHANGED <<cancel, loc, pc, ctx>>
    BY <1>7 DEF StopAnnounce
  <2> QED
    BY <2>1
    DEF Ownership, LiveContextReachable, StolenAwaited, SpawnPending, Unowned,
        AllJoined, UnownedPcs, JoinedPcs, Joined, Attached
<1>8. CASE StopJoin
  <2>1. /\ opPc = "join" /\ opPc' \in {"tearClear", "tearStop"} /\ Joined
        /\ UNCHANGED <<cancel, loc, pc, ctx>> /\ cancel = NoWorker
    BY <1>8 DEF StopJoin, Ownership, Unowned, UnownedPcs
  <2>2. \A v \in Workers : pc[v] = "idle" /\ ~Attached(v)
    BY <2>1 DEF Joined, Attached
  <2>3. LiveContextReachable' /\ StolenAwaited' /\ SpawnPending'
    BY <2>1, <2>2, NullAssumption
    DEF Ownership, LiveContextReachable, StolenAwaited, SpawnPending, Attached
  <2>4. Unowned' /\ AllJoined'
    BY <2>1, <2>2 DEF Unowned, AllJoined, Joined
  <2> QED
    BY <2>3, <2>4 DEF Ownership
<1>9. CASE StopClear \/ StopStop \/ StopPrev \/ StopLock \/ ClearSession
  BY <1>9, OperationOn DEF StopClear, StopStop, StopPrev, StopLock, ClearSession, JoinedPcs
<1>10. CASE ReconcileLoad \/ ReconcileDirty \/ ReconcileNoServer \/ ReconcileIdle
  BY <1>10, OperationOn
  DEF ReconcileLoad, ReconcileDirty, ReconcileNoServer, ReconcileIdle, ReconcileDone,
      JoinedPcs
<1>11. CASE ReconcileAdopt
  <2>1. PICK w \in Workers : Claim(w, loc.job.srv, loc.job.mode)
    BY <1>11 DEF ReconcileAdopt
  <2>2. cancel = NoWorker
    BY <1>11 DEF ReconcileAdopt, Ownership, Unowned, UnownedPcs, JoinedPcs
  <2> QED
    BY <1>11, <2>1, <2>2, ClaimOwns DEF ReconcileAdopt
<1> QED
  BY <1>1, <1>2, <1>3, <1>4, <1>5, <1>6, <1>7, <1>8, <1>9, <1>10, <1>11
  DEF Operation, Stop, Reconcile

\* Every step keeps Ownership.
LEMMA OwnershipStep == TypeOK /\ Ownership /\ [Next]_vars => Ownership'
<1> SUFFICES ASSUME TypeOK, Ownership, [Next]_vars
             PROVE  Ownership'
  OBVIOUS
<1>1. ASSUME NEW w \in Workers, HelperStartChain(w) PROVE Ownership'
  BY <1>1, OwnershipFrame DEF HelperStartChain, ctrl, opv
<1>2. CASE ChainDrop \/ LateStartChain \/ StoreChange
  BY <1>2, OwnershipFrame DEF ChainDrop, LateStartChain, StoreChange, ctrl, opv, gor
<1>3. CASE BridgeExit
  BY <1>3, NullAssumption
  DEF BridgeExit, Ownership, LiveContextReachable, StolenAwaited, SpawnPending,
      Unowned, AllJoined, Joined, Attached
<1>4. CASE UNCHANGED vars
  BY <1>4, OwnershipFrame DEF vars, ctrl, opv, gor
<1> QED
  BY <1>1, <1>2, <1>3, <1>4, OwnershipGoroutine, OwnershipOperation DEF Next

\* Who may act is settled in every reachable state.
THEOREM OwnershipHolds == Spec => []Ownership
<1>1. Init => Ownership
  BY OwnershipInit
<1>2. TypeOK /\ Ownership /\ [Next]_vars => Ownership'
  BY OwnershipStep
<1> QED
  BY <1>1, <1>2, TypeCorrect, PTL DEF Spec

\* A live context is always within reach of the user: c.cancel holds it, or
\* the Stop that has taken it is about to cancel it.
THEOREM ContextsReachable == Spec => []LiveContextReachable
<1>1. Ownership => LiveContextReachable
  BY DEF Ownership
<1> QED
  BY <1>1, OwnershipHolds, PTL

\* The helper, the proxy and the session file have one driver at a time.
THEOREM SingleDriver == Spec => []OneDriver
<1>1. TypeOK /\ Ownership => OneDriver
  <2> SUFFICES ASSUME TypeOK, Ownership PROVE OneDriver
    OBVIOUS
  <2>1. \A w \in Workers : pc[w] \in DrivingPcs => Attached(w)
    BY DEF DrivingPcs, BringUpPcs, Attached
  <2>2. ASSUME NEW v \in Workers, NEW w \in Workers,
               pc[v] \in DrivingPcs, pc[w] \in DrivingPcs
        PROVE  v = w
    BY <2>1, <2>2, OneAttached
  <2>3. ASSUME opPc \in Tearing PROVE \A w \in Workers : pc[w] \notin DrivingPcs
    BY <2>1, <2>3 DEF Ownership, AllJoined, JoinedPcs, Joined, Tearing, Attached
  <2> QED
    BY <2>2, <2>3 DEF OneDriver
<1> QED
  BY <1>1, TypeCorrect, OwnershipHolds, PTL

\* One attempt acts at a time, and Stop can reach it.
THEOREM OneAttemptHolds == Spec => []OneAttempt
<1>1. OneDriver /\ LiveContextReachable => OneAttempt
  BY DEF OneAttempt
<1> QED
  BY <1>1, SingleDriver, ContextsReachable, PTL

(***************************************************************************)
(* The session record.                                                     *)
(***************************************************************************)
\* Where a goroutine or an operation relies on last-session.json naming its
\* session.
Recorded ==
  /\ \A w \in Workers : pc[w] \in {"publish", "poll"} => session = job[w]
  /\ opPc = "decide" => session = loc.job
  /\ opPc = "adopt" => session = job[loc.target]

\* Steps that leave the record, the goroutines' attempts and the operation
\* alone, and do not begin to rely on the record.
LEMMA RecordedFrame ==
  ASSUME Recorded, UNCHANGED <<session, job>>,
         \A w \in Workers : pc'[w] \in {"publish", "poll"} => pc[w] \in {"publish", "poll"},
         (UNCHANGED <<opPc, loc>>) \/ opPc' \notin {"decide", "adopt"}
  PROVE  Recorded'
  BY DEF Recorded

\* A step of a goroutine keeps the record of the session that is polled.
LEMMA RecordedGoroutine ==
  ASSUME TypeOK, Ownership, Recorded, "save" \notin faults,
         NEW w \in Workers, Goroutine(w)
  PROVE  Recorded'
<1> USE DEF opv, disk
<1>1. CASE SaveSession(w)
  <2>1. \A v \in Workers : pc'[v] \in {"publish", "poll"} => v = w
    BY <1>1, OneAttached DEF SaveSession, Goto, TypeOK, Attached
  <2>2. opPc \notin {"decide", "adopt"}
    BY <1>1, OneAttached
    DEF SaveSession, Ownership, AllJoined, JoinedPcs, SpawnPending, Attached
  <2> QED
    BY <1>1, <2>1, <2>2 DEF SaveSession, Recorded
<1>2. CASE CrashDirect(w)
  <2>1. \A v \in Workers : v # w => job'[v] = job[v] /\ pc'[v] = pc[v]
    BY <1>2 DEF CrashDirect, Goto, TypeOK
  <2>2. pc'[w] \notin {"publish", "poll"}
    BY <1>2 DEF CrashDirect, Goto, TypeOK
  <2>3. opPc \notin {"decide", "adopt"}
    BY <1>2, OneAttached
    DEF CrashDirect, Ownership, AllJoined, JoinedPcs, SpawnPending, Attached
  <2> QED
    BY <1>2, <2>1, <2>2, <2>3 DEF CrashDirect, Recorded
<1>3. CASE ~SaveSession(w) /\ ~CrashDirect(w)
  <2>1. UNCHANGED <<session, job, opPc, loc>>
    BY <1>3
    DEF Goroutine, BringUp, Poller, Build, StartChainCall, StartChainReply,
        StartChainCancelled, Apply, UndoStop, UndoProxy, BringUpFailed, FailLock,
        BringUpDone, Commit, ClearOld, Settle, PublishConnected, PollReturn, PollDrop,
        CrashStolen, CrashBlock, CrashClear, CrashStop, CrashLock, Report
  <2>2. \A v \in Workers : pc'[v] \in {"publish", "poll"} => pc[v] \in {"publish", "poll"}
    <3>1. CASE \/ Build(w) \/ StartChainCall(w) \/ StartChainReply(w)
               \/ StartChainCancelled(w) \/ Apply(w)
      BY <3>1
      DEF Build, StartChainCall, StartChainReply, StartChainCancelled, Apply, Goto, TypeOK
    <3>2. CASE UndoStop(w) \/ UndoProxy(w) \/ BringUpFailed(w) \/ FailLock(w)
      BY <3>2 DEF UndoStop, UndoProxy, BringUpFailed, FailLock, Goto, TypeOK
    <3>3. CASE \/ BringUpDone(w) \/ Commit(w) \/ ClearOld(w) \/ Settle(w)
               \/ PublishConnected(w) \/ Report(w)
      BY <3>3
      DEF BringUpDone, Commit, ClearOld, Settle, PublishConnected, Report, Goto, TypeOK
    <3>4. CASE PollReturn(w) \/ PollDrop(w) \/ CrashStolen(w) \/ CrashBlock(w)
      BY <3>4 DEF PollReturn, PollDrop, CrashStolen, CrashBlock, Goto, TypeOK
    <3>5. CASE CrashClear(w) \/ CrashStop(w) \/ CrashLock(w)
      BY <3>5 DEF CrashClear, CrashStop, CrashLock, Goto, TypeOK
    <3> QED
      BY <1>3, <3>1, <3>2, <3>3, <3>4, <3>5 DEF Goroutine, BringUp, Poller
  <2> QED
    BY <2>1, <2>2, RecordedFrame
<1> QED
  BY <1>1, <1>2, <1>3

\* Start, Stop and Reconcile never remove the record of a session that goes on.
LEMMA RecordedOperation ==
  ASSUME TypeInv, Ownership, Recorded, "save" \notin faults,
         \/ \E s \in Servers, m \in Modes : Start(s, m)
         \/ StopIdle \/ StopTake \/ Operation
  PROVE  Recorded'
<1> USE DEF ctrl, opv, gor, disk, TypeInv
<1>1. ASSUME NEW s \in Servers, NEW m \in Modes, Start(s, m)
      PROVE  Recorded'
  <2>1. \A v \in Workers : pc[v] \notin {"publish", "poll"}
    BY <1>1, NullAssumption
    DEF Start, TypeOK, Ownership, LiveContextReachable, StolenAwaited, Attached
  <2>2. \A v \in Workers : pc'[v] \notin {"publish", "poll"}
    BY <1>1, <2>1 DEF Start, Claim, Goto, TypeOK
  <2> QED
    BY <1>1, <2>2 DEF Start, Recorded
<1>2. CASE StartJoined
  <2>1. \A v \in Workers : pc'[v] \notin {"publish", "poll"}
    BY <1>2 DEF StartJoined, Joined, Claim, Goto, TypeOK
  <2> QED
    BY <1>2, <2>1 DEF StartJoined, Recorded
<1>3. CASE StartPublish
  <2>1. loc.target \in Workers
    BY <1>3 DEF StartPublish, Ownership, SpawnPending
  <2>2. \A v \in Workers : pc'[v] \in {"publish", "poll"} => pc[v] \in {"publish", "poll"}
    BY <1>3, <2>1 DEF StartPublish, Goto, TypeOK
  <2> QED
    BY <1>3, <2>2, RecordedFrame DEF StartPublish
<1>4. CASE ReconcilePublish
  <2>1. loc.target \in Workers
    BY <1>4 DEF ReconcilePublish, Ownership, SpawnPending
  <2>2. \A v \in Workers : v # loc.target => pc'[v] = pc[v]
    BY <1>4, <2>1 DEF ReconcilePublish, Goto, TypeOK
  <2> QED
    BY <1>4, <2>1, <2>2 DEF ReconcilePublish, ReconcileDone, Recorded
<1>5. CASE StopIdle \/ StopTake \/ StopCancel \/ StopAnnounce \/ StopJoin
           \/ StopClear \/ StopStop \/ StopPrev \/ StopLock
  <2>1. UNCHANGED <<session, job, pc>> /\ (UNCHANGED opv \/ opPc' \notin {"decide", "adopt"})
    BY <1>5
    DEF StopIdle, StopTake, StopCancel, StopAnnounce, StopJoin, StopClear, StopStop,
        StopPrev, StopLock
  <2> QED
    BY <2>1, RecordedFrame
<1>6. CASE ClearSession \/ ReconcileDirty \/ ReconcileNoServer \/ ReconcileIdle
  <2>1. opPc \in {"forget", "decide"} /\ opPc' = "free" /\ UNCHANGED pc
    BY <1>6
    DEF ClearSession, ReconcileDirty, ReconcileNoServer, ReconcileIdle, ReconcileDone
  <2>2. \A v \in Workers : pc'[v] = "idle"
    BY <2>1 DEF Ownership, AllJoined, JoinedPcs, Joined
  <2> QED
    BY <2>1, <2>2 DEF Recorded
<1>7. CASE ReconcileLoad
  <2>1. opPc' = "decide" => loc'.job = session
    BY <1>7, NoLocType DEF ReconcileLoad, Locs
  <2> QED
    BY <1>7, <2>1 DEF ReconcileLoad, Recorded
<1>8. CASE ReconcileAdopt
  <2>1. PICK w \in Workers : Claim(w, loc.job.srv, loc.job.mode)
    BY <1>8 DEF ReconcileAdopt
  <2>2. loc.job \in Jobs /\ session = loc.job
    BY <1>8 DEF ReconcileAdopt, JobsKnown, Recorded
  <2>3. loc'.target = w /\ job'[w] = loc.job
    BY <2>1, <2>2, NoLocType DEF Claim, Locs, Jobs, TypeOK
  <2>4. \A v \in Workers : pc'[v] \notin {"publish", "poll"}
    BY <1>8, <2>1
    DEF ReconcileAdopt, Ownership, AllJoined, JoinedPcs, Joined, Claim, Goto, TypeOK
  <2> QED
    BY <1>8, <2>2, <2>3, <2>4 DEF ReconcileAdopt, Recorded
<1> QED
  BY <1>1, <1>2, <1>3, <1>4, <1>5, <1>6, <1>7, <1>8 DEF Operation, Stop, Reconcile

\* Every step keeps the record, when the file can be written.
LEMMA RecordedStep ==
  TypeInv /\ Ownership /\ "save" \notin faults /\ Recorded /\ [Next]_vars => Recorded'
<1> SUFFICES ASSUME TypeInv, Ownership, "save" \notin faults, Recorded, [Next]_vars
             PROVE  Recorded'
  OBVIOUS
<1>1. ASSUME NEW w \in Workers, HelperStartChain(w) PROVE Recorded'
  BY <1>1, RecordedFrame DEF HelperStartChain, opv, disk
<1>2. CASE ChainDrop \/ LateStartChain \/ StoreChange
  BY <1>2, RecordedFrame DEF ChainDrop, LateStartChain, StoreChange, opv, gor, disk
<1>3. CASE BridgeExit
  BY <1>3 DEF BridgeExit, Recorded
<1>4. CASE UNCHANGED vars
  BY <1>4, RecordedFrame DEF vars, opv, gor, disk
<1> QED
  BY <1>1, <1>2, <1>3, <1>4, RecordedGoroutine, RecordedOperation DEF Next, TypeInv

\* Which faults a behaviour has is drawn once.
LEMMA FaultsFixed == [Next]_vars => faults' = faults
<1> SUFFICES ASSUME [Next]_vars PROVE faults' = faults
  OBVIOUS
<1>1. ASSUME NEW w \in Workers, Goroutine(w) \/ HelperStartChain(w)
      PROVE  faults' = faults
  BY <1>1
  DEF Goroutine, BringUp, Poller, Build, StartChainCall, HelperStartChain, StartChainReply,
      StartChainCancelled, Apply, UndoStop, UndoProxy, BringUpFailed, FailLock,
      BringUpDone, Commit, ClearOld, Settle, SaveSession, PublishConnected, PollReturn,
      PollDrop, CrashStolen, CrashDirect, CrashBlock, CrashClear, CrashStop, CrashLock,
      Report
<1>2. CASE StopIdle \/ StopTake \/ Operation
  BY <1>2
  DEF Operation, Stop, Reconcile, StopIdle, StopTake, StopCancel, StopAnnounce, StopJoin,
      StopClear, StopStop, StopPrev, StopLock, ClearSession, StartJoined, StartPublish,
      ReconcileLoad, ReconcileDirty, ReconcileNoServer, ReconcileIdle, ReconcileAdopt,
      ReconcilePublish
<1>3. CASE \/ \E s \in Servers, m \in Modes : Start(s, m)
           \/ ChainDrop \/ LateStartChain \/ StoreChange \/ BridgeExit \/ UNCHANGED vars
  BY <1>3 DEF Start, ChainDrop, LateStartChain, StoreChange, BridgeExit, vars
<1> QED
  BY <1>1, <1>2, <1>3 DEF Next

\* While the poller watches a session, last-session.json names it, unless the
\* file could not be written.
THEOREM SessionRecorded == Spec => []PolledSessionRecorded
<1>1. Init => TypeInv /\ Ownership
  BY TypeInit, OwnershipInit
<1>2. Init => ("save" \notin faults => Recorded)
  BY DEF Init, Recorded
<1>3. TypeInv /\ [Next]_vars => TypeInv'
  BY TypeStep
<1>4. TypeInv /\ Ownership /\ [Next]_vars => Ownership'
  BY OwnershipStep DEF TypeInv
<1>5. /\ TypeInv /\ Ownership /\ ("save" \notin faults => Recorded) /\ [Next]_vars
      => ("save" \notin faults => Recorded)'
  BY RecordedStep, FaultsFixed
<1>6. ("save" \notin faults => Recorded) => PolledSessionRecorded
  BY DEF Recorded, PolledSessionRecorded
<1> QED
  BY <1>1, <1>2, <1>3, <1>4, <1>5, <1>6, PTL DEF Spec

(***************************************************************************)
(* What the renderer is told.                                              *)
(***************************************************************************)
\* A renderer that shows "connected" with no attempt behind it will be told
\* better: by the Stop that took the attempt, or by the goroutine that gave
\* it up.
ToldLater ==
  ui = "connected" =>
    \/ cancel # NoWorker
    \/ opPc \in {"cancel", "disc", "join", "tearClear", "tearStop", "tearPrev", "stopLock"}
    \/ \E w \in Workers : pc[w] = "report"

\* The status a goroutine leaves with is never "connected".
OutEnds == \A w \in Workers : out[w] \in {"idle", "error"}

News == OutEnds /\ ToldLater

\* Every step keeps News.
LEMMA ToldStep ==
  ASSUME TypeInv, Ownership, News, [Next]_vars
  PROVE  News'
<1> USE NullAssumption, PcNames DEF ctrl, opv, gor, disk, host, TypeInv

<1>1. ASSUME NEW s \in Servers, NEW m \in Modes, Start(s, m) PROVE News'
  BY <1>1 DEF Start, Claim, Goto, TypeOK, News, OutEnds, ToldLater
<1>2. ASSUME NEW w \in Workers, PublishConnected(w) PROVE News'
  <2>1. cancel # NoWorker \/ opPc \in {"cancel", "disc", "join"}
    BY <1>2
    DEF PublishConnected, TypeOK, Ownership, LiveContextReachable, StolenAwaited, Attached
  <2> QED
    BY <1>2, <2>1 DEF PublishConnected, Goto, TypeOK, News, OutEnds, ToldLater
<1>3. ASSUME NEW w \in Workers,
             Build(w) \/ StartChainCall(w) \/ StartChainReply(w) \/ StartChainCancelled(w)
      PROVE  News'
  BY <1>3
  DEF Build, StartChainCall, StartChainReply, StartChainCancelled, Goto, TypeOK, News,
      OutEnds, ToldLater
<1>4. ASSUME NEW w \in Workers,
             Apply(w) \/ UndoStop(w) \/ UndoProxy(w) \/ BringUpFailed(w)
      PROVE  News'
  BY <1>4
  DEF Apply, UndoStop, UndoProxy, BringUpFailed, Goto, TypeOK, News, OutEnds, ToldLater
<1>5. ASSUME NEW w \in Workers,
             FailLock(w) \/ BringUpDone(w) \/ Commit(w) \/ ClearOld(w)
      PROVE  News'
  BY <1>5
  DEF FailLock, BringUpDone, Commit, ClearOld, Goto, TypeOK, News, OutEnds, ToldLater
<1>6. ASSUME NEW w \in Workers,
             Settle(w) \/ SaveSession(w) \/ PollReturn(w) \/ PollDrop(w)
      PROVE  News'
  BY <1>6
  DEF Settle, SaveSession, PollReturn, PollDrop, Goto, TypeOK, News, OutEnds, ToldLater
<1>7. ASSUME NEW w \in Workers,
             CrashStolen(w) \/ CrashBlock(w) \/ CrashDirect(w) \/ CrashClear(w)
      PROVE  News'
  BY <1>7
  DEF CrashStolen, CrashBlock, CrashDirect, CrashClear, Goto, TypeOK, News, OutEnds,
      ToldLater
<1>8. ASSUME NEW w \in Workers,
             CrashStop(w) \/ CrashLock(w) \/ Report(w) \/ HelperStartChain(w)
      PROVE  News'
  BY <1>8
  DEF CrashStop, CrashLock, Report, HelperStartChain, Goto, TypeOK, News, OutEnds,
      ToldLater
<1>9. CASE ReconcilePublish
  <2>1. cancel # NoWorker
    BY <1>9 DEF ReconcilePublish, Ownership, SpawnPending
  <2> QED
    BY <1>9, <2>1
    DEF ReconcilePublish, Goto, ReconcileDone, TypeOK, News, OutEnds, ToldLater
<1>10. CASE StartJoined \/ StartPublish \/ StopIdle \/ StopTake
  BY <1>10
  DEF StartJoined, StartPublish, StopIdle, StopTake, Claim, Goto, TypeOK, News, OutEnds,
      ToldLater
<1>11. CASE StopCancel \/ StopAnnounce \/ StopJoin \/ StopClear
  BY <1>11
  DEF StopCancel, StopAnnounce, StopJoin, StopClear, TypeOK, News, OutEnds, ToldLater
<1>12. CASE StopStop \/ StopPrev \/ StopLock \/ ClearSession
  BY <1>12
  DEF StopStop, StopPrev, StopLock, ClearSession, TypeOK, News, OutEnds, ToldLater
<1>13. CASE ReconcileLoad \/ ReconcileDirty \/ ReconcileNoServer \/ ReconcileIdle
  BY <1>13
  DEF ReconcileLoad, ReconcileDirty, ReconcileNoServer, ReconcileIdle, ReconcileDone,
      TypeOK, News, OutEnds, ToldLater
<1>14. CASE ReconcileAdopt \/ ChainDrop \/ LateStartChain \/ StoreChange
  BY <1>14
  DEF ReconcileAdopt, ChainDrop, LateStartChain, StoreChange, Claim, Goto, TypeOK, News,
      OutEnds, ToldLater
<1>15. CASE BridgeExit
  BY <1>15
  DEF BridgeExit, TypeOK, News, OutEnds, ToldLater
<1>16. CASE UNCHANGED vars
  BY <1>16 DEF vars, TypeOK, News, OutEnds, ToldLater
<1> QED
  BY <1>1, <1>2, <1>3, <1>4, <1>5, <1>6, <1>7, <1>8, <1>9, <1>10, <1>11, <1>12, <1>13,
     <1>14, <1>15, <1>16
  DEF Next, Operation, Stop, Reconcile, Goroutine, BringUp, Poller

\* The renderer never rests on "connected" without an attempt: a status that
\* is overtaken is followed by the one that ended the session.
THEOREM NoStaleConnectedHolds == Spec => []NoStaleConnected
<1>1. Init => TypeInv /\ Ownership /\ News
  BY TypeInit, OwnershipInit DEF Init, News, OutEnds, ToldLater
<1>2. TypeInv /\ Ownership /\ [Next]_vars => TypeInv' /\ Ownership'
  BY TypeStep, OwnershipStep DEF TypeInv
<1>3. TypeInv /\ Ownership /\ News /\ [Next]_vars => News'
  BY ToldStep
<1>4. News => NoStaleConnected
  BY DEF News, ToldLater, NoStaleConnected
<1> QED
  BY <1>1, <1>2, <1>3, <1>4, PTL DEF Spec

\* With c.cancel nil and no Stop waiting, no goroutine has an attempt.
LEMMA NobodyAttached ==
  ASSUME TypeOK, Ownership, cancel = NoWorker, opPc \notin {"cancel", "disc", "join"}
  PROVE  \A w \in Workers : ~Attached(w)
  BY NullAssumption DEF TypeOK, Ownership, LiveContextReachable, StolenAwaited

\* Past wg.Wait, and before Reconcile claims the controller, no goroutine is left.
LEMMA JoinedIdle ==
  ASSUME Ownership, opPc \in JoinedPcs
  PROVE  \A w \in Workers : pc[w] = "idle"
  BY DEF Ownership, AllJoined, Joined

(***************************************************************************)
(* The mode of an attempt, and the proxy kept to block traffic.            *)
(***************************************************************************)
\* c.mode is the mode of the attempt, and of the Stop that took it.
ModeOfJob ==
  \A w \in Workers : Attached(w) =>
    /\ job[w].mode = mode
    /\ opPc \in {"cancel", "disc", "join"} => loc.mode = mode

\* A new attempt brings its mode with it.
LEMMA ClaimMode ==
  ASSUME TypeOK, NEW w \in Workers, NEW s, NEW m, Claim(w, s, m),
         \A v \in Workers : ~Attached(v), opPc' \in {"launch", "adopt"}
  PROVE  ModeOfJob'
<1>1. \A v \in Workers : Attached(v)' => v = w
  BY DEF Claim, Goto, TypeOK, Attached
<1>2. job'[w].mode = mode'
  BY DEF Claim, TypeOK
<1> QED
  BY <1>1, <1>2 DEF ModeOfJob

\* Every step keeps ModeOfJob.
LEMMA ModeOfJobStep ==
  ASSUME TypeInv, Ownership, ModeOfJob, [Next]_vars
  PROVE  ModeOfJob'
<1> USE NullAssumption, PcNames DEF ctrl, opv, gor, disk, host, TypeInv

<1>1. ASSUME NEW s \in Servers, NEW m \in Modes, Start(s, m) PROVE ModeOfJob'
  <2>1. \A v \in Workers : ~Attached(v)
    BY <1>1, NobodyAttached DEF Start
  <2>2. CASE ~cleanupPending
    <3>1. PICK w \in Workers : Claim(w, s, m)
      BY <1>1, <2>2 DEF Start
    <3> QED
      BY <1>1, <2>1, <2>2, <3>1, ClaimMode DEF Start
  <2>3. CASE cleanupPending
    BY <1>1, <2>1, <2>3 DEF Start, TypeOK, Attached, ModeOfJob
  <2> QED
    BY <2>2, <2>3 DEF TypeOK
<1>2. ASSUME NEW w \in Workers,
             Build(w) \/ StartChainCall(w) \/ StartChainReply(w) \/ StartChainCancelled(w)
      PROVE  ModeOfJob'
  BY <1>2
  DEF Build, StartChainCall, StartChainReply, StartChainCancelled, Goto, TypeOK, Attached,
      ModeOfJob
<1>3. ASSUME NEW w \in Workers,
             Apply(w) \/ UndoStop(w) \/ UndoProxy(w) \/ BringUpFailed(w)
      PROVE  ModeOfJob'
  BY <1>3
  DEF Apply, UndoStop, UndoProxy, BringUpFailed, Goto, TypeOK, Attached, ModeOfJob
<1>4. ASSUME NEW w \in Workers,
             FailLock(w) \/ BringUpDone(w) \/ Commit(w) \/ ClearOld(w)
      PROVE  ModeOfJob'
  BY <1>4
  DEF FailLock, BringUpDone, Commit, ClearOld, Goto, TypeOK, Attached, ModeOfJob
<1>5. ASSUME NEW w \in Workers,
             Settle(w) \/ SaveSession(w) \/ PublishConnected(w) \/ PollReturn(w)
      PROVE  ModeOfJob'
  BY <1>5
  DEF Settle, SaveSession, PublishConnected, PollReturn, Goto, TypeOK, Attached, ModeOfJob
<1>6. ASSUME NEW w \in Workers, PollDrop(w) PROVE ModeOfJob'
  BY <1>6 DEF PollDrop, Goto, TypeOK, Attached, ModeOfJob
<1>7. ASSUME NEW w \in Workers, CrashStolen(w) PROVE ModeOfJob'
  BY <1>7 DEF CrashStolen, Goto, TypeOK, Attached, ModeOfJob
<1>8. ASSUME NEW w \in Workers, CrashBlock(w) PROVE ModeOfJob'
  BY <1>8 DEF CrashBlock, Goto, TypeOK, Attached, ModeOfJob
<1>9. ASSUME NEW w \in Workers, CrashDirect(w) PROVE ModeOfJob'
  BY <1>9 DEF CrashDirect, Goto, TypeOK, Attached, ModeOfJob
<1>10. ASSUME NEW w \in Workers,
             CrashClear(w) \/ CrashStop(w) \/ CrashLock(w) \/ Report(w)
      PROVE  ModeOfJob'
  BY <1>10
  DEF CrashClear, CrashStop, CrashLock, Report, Goto, TypeOK, Attached, ModeOfJob
<1>11. ASSUME NEW w \in Workers, HelperStartChain(w) PROVE ModeOfJob'
  BY <1>11 DEF HelperStartChain, Goto, TypeOK, Attached, ModeOfJob
<1>12. CASE StartJoined
  <2>1. PICK w \in Workers : Claim(w, loc.job.srv, loc.job.mode)
    BY <1>12 DEF StartJoined
  <2>2. \A v \in Workers : ~Attached(v)
    BY <1>12, NobodyAttached DEF StartJoined, Ownership, Unowned, UnownedPcs, JoinedPcs
  <2> QED
    BY <1>12, <2>1, <2>2, ClaimMode DEF StartJoined
<1>13. CASE StartPublish
  <2>1. loc.target \in Workers /\ pc[loc.target] = "spawn"
    BY <1>13 DEF StartPublish, Ownership, SpawnPending
  <2> QED
    BY <1>13, <2>1 DEF StartPublish, Goto, TypeOK, Attached, ModeOfJob
<1>14. CASE ReconcileDirty
  <2>1. \A v \in Workers : pc'[v] = "idle"
    BY <1>14, JoinedIdle DEF ReconcileDirty, JoinedPcs
  <2> QED
    BY <1>14, <2>1 DEF ReconcileDirty, TypeOK, Attached, ModeOfJob
<1>15. CASE ReconcileIdle
  <2>1. \A v \in Workers : pc'[v] = "idle"
    BY <1>15, JoinedIdle DEF ReconcileIdle, JoinedPcs
  <2> QED
    BY <1>15, <2>1 DEF ReconcileIdle, TypeOK, Attached, ModeOfJob
<1>16. CASE ReconcileAdopt
  <2>1. PICK w \in Workers : Claim(w, loc.job.srv, loc.job.mode)
    BY <1>16 DEF ReconcileAdopt
  <2>2. \A v \in Workers : ~Attached(v)
    BY <1>16, NobodyAttached DEF ReconcileAdopt, Ownership, Unowned, UnownedPcs, JoinedPcs
  <2> QED
    BY <1>16, <2>1, <2>2, ClaimMode DEF ReconcileAdopt
<1>17. CASE ReconcilePublish
  <2>1. loc.target \in Workers /\ pc[loc.target] = "spawn"
    BY <1>17 DEF ReconcilePublish, Ownership, SpawnPending
  <2> QED
    BY <1>17, <2>1 DEF ReconcilePublish, Goto, ReconcileDone, TypeOK, Attached, ModeOfJob
<1>18. CASE StopIdle
  BY <1>18
  DEF StopIdle, TypeOK, Attached, ModeOfJob
<1>19. CASE StopTake
  BY <1>19
  DEF StopTake, TypeOK, Attached, ModeOfJob
<1>20. CASE StopCancel
  BY <1>20
  DEF StopCancel, TypeOK, Attached, ModeOfJob
<1>21. CASE StopAnnounce
  BY <1>21
  DEF StopAnnounce, TypeOK, Attached, ModeOfJob
<1>22. CASE StopJoin \/ StopClear \/ StopStop \/ StopPrev
  BY <1>22
  DEF StopJoin, StopClear, StopStop, StopPrev, TypeOK, Attached, ModeOfJob
<1>23. CASE StopLock \/ ClearSession \/ ReconcileLoad \/ ReconcileNoServer
  BY <1>23
  DEF StopLock, ClearSession, ReconcileLoad, ReconcileNoServer, ReconcileDone, TypeOK,
      Attached, ModeOfJob
<1>24. CASE ChainDrop \/ LateStartChain \/ StoreChange \/ BridgeExit
  BY <1>24
  DEF ChainDrop, LateStartChain, StoreChange, BridgeExit, TypeOK, Attached, ModeOfJob
<1>25. CASE UNCHANGED vars
  BY <1>25 DEF vars, TypeOK, Attached, ModeOfJob
<1> QED
  BY <1>1, <1>2, <1>3, <1>4, <1>5, <1>6, <1>7, <1>8, <1>9, <1>10, <1>11, <1>12, <1>13,
     <1>14, <1>15, <1>16, <1>17, <1>18, <1>19, <1>20, <1>21, <1>22, <1>23, <1>24, <1>25
  DEF Next, Operation, Stop, Reconcile, Goroutine, BringUp, Poller

\* While a cleanup is owed nobody but Stop and a reconnect in another mode is
\* where it would clear the proxy.
Blocked ==
  /\ opPc \in {"boot", "decide", "adopt"} => ~cleanupPending
  /\ \A w \in Workers :
       /\ pc[w] = "clearOld" => mode # "sysproxy"
       /\ pc[w] \in {"save", "publish", "poll", "crash"} /\ cleanupPending => mode # "sysproxy"
       /\ pc[w] = "crashClear" => ~cleanupPending

\* A new attempt begins far from the proxy.
LEMMA ClaimBlocked ==
  ASSUME TypeOK, Blocked, NEW w \in Workers, NEW s, NEW m, Claim(w, s, m),
         \A v \in Workers : ~Attached(v), opPc' \in {"launch", "adopt"},
         opPc' = "adopt" => opPc = "decide"
  PROVE  Blocked'
<1>1. \A v \in Workers : pc'[v] \in {"idle", "report", "spawn"}
  BY DEF Claim, Goto, TypeOK, Attached
<1>2. opPc' = "adopt" => ~cleanupPending'
  BY DEF Claim, Blocked
<1> QED
  BY <1>1, <1>2 DEF Blocked

\* Every step keeps Blocked.
LEMMA BlockedStep ==
  ASSUME TypeInv, Ownership, ModeOfJob, Blocked, [Next]_vars
  PROVE  Blocked'
<1> USE NullAssumption, PcNames DEF ctrl, opv, gor, disk, host, TypeInv

<1>1. ASSUME NEW s \in Servers, NEW m \in Modes, Start(s, m) PROVE Blocked'
  <2>1. \A v \in Workers : ~Attached(v)
    BY <1>1, NobodyAttached DEF Start
  <2>2. CASE ~cleanupPending
    <3>1. PICK w \in Workers : Claim(w, s, m)
      BY <1>1, <2>2 DEF Start
    <3> QED
      BY <1>1, <2>1, <2>2, <3>1, ClaimBlocked DEF Start
  <2>3. CASE cleanupPending
    BY <1>1, <2>1, <2>3 DEF Start, TypeOK, Blocked, Attached
  <2> QED
    BY <2>2, <2>3 DEF TypeOK
<1>2. ASSUME NEW w \in Workers, Apply(w) PROVE Blocked'
  <2>1. mode' = mode
    BY <1>2 DEF Apply, ModeOfJob, Attached
  <2>2. \A v \in Workers : pc'[v] = pc[v] \/ pc'[v] \in {"done", "undoStop"}
    BY <1>2 DEF Apply, Goto, TypeOK
  <2> QED
    BY <1>2, <2>1, <2>2 DEF Apply, Blocked
<1>3. ASSUME NEW w \in Workers, Commit(w) PROVE Blocked'
  <2>1. job[w].mode = mode
    BY <1>3 DEF Commit, ModeOfJob, Attached
  <2> QED
    BY <1>3, <2>1 DEF Commit, Goto, TypeOK, Blocked
<1>4. ASSUME NEW w \in Workers, CrashBlock(w) PROVE Blocked'
  <2>1. \A v \in Workers : pc'[v] \in {"idle", "report"}
    BY <1>4, OneAttached DEF CrashBlock, Goto, TypeOK, Attached
  <2>2. opPc \notin {"boot", "decide", "adopt"}
    BY <1>4, OneAttached
    DEF CrashBlock, Ownership, AllJoined, JoinedPcs, SpawnPending, Attached
  <2> QED
    BY <1>4, <2>1, <2>2 DEF CrashBlock, Blocked
<1>5. ASSUME NEW w \in Workers, CrashLock(w) PROVE Blocked'
  <2>1. \A v \in Workers : pc'[v] \in {"idle", "report"}
    BY <1>5, OneAttached DEF CrashLock, Goto, TypeOK, Attached
  <2>2. opPc \notin {"boot", "decide", "adopt"}
    BY <1>5, OneAttached
    DEF CrashLock, Ownership, AllJoined, JoinedPcs, SpawnPending, Attached
  <2> QED
    BY <1>5, <2>1, <2>2 DEF CrashLock, Blocked
<1>6. ASSUME NEW w \in Workers,
             Build(w) \/ StartChainCall(w) \/ StartChainReply(w) \/ StartChainCancelled(w)
      PROVE  Blocked'
  BY <1>6
  DEF Build, StartChainCall, StartChainReply, StartChainCancelled, Goto, TypeOK, Blocked
<1>7. ASSUME NEW w \in Workers,
             UndoStop(w) \/ UndoProxy(w) \/ BringUpFailed(w) \/ FailLock(w)
      PROVE  Blocked'
  BY <1>7
  DEF UndoStop, UndoProxy, BringUpFailed, FailLock, Goto, TypeOK, Blocked
<1>8. ASSUME NEW w \in Workers, BringUpDone(w) PROVE Blocked'
  BY <1>8 DEF BringUpDone, Goto, TypeOK, Blocked
<1>9. ASSUME NEW w \in Workers, ClearOld(w) PROVE Blocked'
  BY <1>9 DEF ClearOld, Goto, TypeOK, Blocked
<1>10. ASSUME NEW w \in Workers, Settle(w) PROVE Blocked'
  BY <1>10 DEF Settle, Goto, TypeOK, Blocked
<1>11. ASSUME NEW w \in Workers, SaveSession(w) PROVE Blocked'
  BY <1>11 DEF SaveSession, Goto, TypeOK, Blocked
<1>12. ASSUME NEW w \in Workers,
             PublishConnected(w) \/ PollReturn(w) \/ PollDrop(w) \/ CrashStolen(w)
      PROVE  Blocked'
  BY <1>12
  DEF PublishConnected, PollReturn, PollDrop, CrashStolen, Goto, TypeOK, Blocked
<1>13. ASSUME NEW w \in Workers, CrashDirect(w) PROVE Blocked'
  BY <1>13 DEF CrashDirect, Goto, TypeOK, Blocked
<1>14. ASSUME NEW w \in Workers, CrashClear(w) PROVE Blocked'
  BY <1>14 DEF CrashClear, Goto, TypeOK, Blocked
<1>15. ASSUME NEW w \in Workers, CrashStop(w) PROVE Blocked'
  BY <1>15 DEF CrashStop, Goto, TypeOK, Blocked
<1>16. ASSUME NEW w \in Workers, Report(w) PROVE Blocked'
  BY <1>16 DEF Report, Goto, TypeOK, Blocked
<1>17. ASSUME NEW w \in Workers, HelperStartChain(w) PROVE Blocked'
  BY <1>17 DEF HelperStartChain, Goto, TypeOK, Blocked
<1>18. CASE StartJoined
  <2>1. PICK w \in Workers : Claim(w, loc.job.srv, loc.job.mode)
    BY <1>18 DEF StartJoined
  <2>2. \A v \in Workers : ~Attached(v)
    BY <1>18, NobodyAttached DEF StartJoined, Ownership, Unowned, UnownedPcs, JoinedPcs
  <2> QED
    BY <1>18, <2>1, <2>2, ClaimBlocked DEF StartJoined
<1>19. CASE StopLock
  <2>1. \A v \in Workers : pc'[v] = "idle"
    BY <1>19, JoinedIdle DEF StopLock, JoinedPcs
  <2> QED
    BY <1>19, <2>1 DEF StopLock, TypeOK, Blocked
<1>20. CASE ReconcileDirty
  <2>1. \A v \in Workers : pc'[v] = "idle"
    BY <1>20, JoinedIdle DEF ReconcileDirty, JoinedPcs
  <2> QED
    BY <1>20, <2>1 DEF ReconcileDirty, ReconcileDone, TypeOK, Blocked
<1>21. CASE ReconcileIdle
  <2>1. \A v \in Workers : pc'[v] = "idle"
    BY <1>21, JoinedIdle DEF ReconcileIdle, JoinedPcs
  <2> QED
    BY <1>21, <2>1 DEF ReconcileIdle, ReconcileDone, TypeOK, Blocked
<1>22. CASE ReconcileAdopt
  <2>1. PICK w \in Workers : Claim(w, loc.job.srv, loc.job.mode)
    BY <1>22 DEF ReconcileAdopt
  <2>2. \A v \in Workers : ~Attached(v)
    BY <1>22, NobodyAttached DEF ReconcileAdopt, Ownership, Unowned, UnownedPcs, JoinedPcs
  <2> QED
    BY <1>22, <2>1, <2>2, ClaimBlocked DEF ReconcileAdopt
<1>23. CASE StartPublish \/ StopIdle \/ StopTake \/ StopCancel
  BY <1>23
  DEF StartPublish, StopIdle, StopTake, StopCancel, Goto, TypeOK, Blocked
<1>24. CASE StopAnnounce
  BY <1>24
  DEF StopAnnounce, TypeOK, Blocked
<1>25. CASE StopJoin
  BY <1>25
  DEF StopJoin, TypeOK, Blocked
<1>26. CASE StopClear
  BY <1>26
  DEF StopClear, TypeOK, Blocked
<1>27. CASE StopStop
  BY <1>27
  DEF StopStop, TypeOK, Blocked
<1>28. CASE StopPrev
  BY <1>28
  DEF StopPrev, TypeOK, Blocked
<1>29. CASE ClearSession
  BY <1>29
  DEF ClearSession, TypeOK, Blocked
<1>30. CASE ReconcileLoad
  BY <1>30
  DEF ReconcileLoad, TypeOK, Blocked
<1>31. CASE ReconcileNoServer
  BY <1>31
  DEF ReconcileNoServer, ReconcileDone, TypeOK, Blocked
<1>32. CASE ReconcilePublish \/ ChainDrop \/ LateStartChain \/ StoreChange
  BY <1>32
  DEF ReconcilePublish, ChainDrop, LateStartChain, StoreChange, Goto, ReconcileDone,
      TypeOK, Blocked
<1>33. CASE BridgeExit
  BY <1>33
  DEF BridgeExit, TypeOK, Blocked
<1>34. CASE UNCHANGED vars
  BY <1>34 DEF vars, TypeOK, Blocked
<1> QED
  BY <1>1, <1>2, <1>3, <1>4, <1>5, <1>6, <1>7, <1>8, <1>9, <1>10, <1>11, <1>12, <1>13,
     <1>14, <1>15, <1>16, <1>17, <1>18, <1>19, <1>20, <1>21, <1>22, <1>23, <1>24, <1>25,
     <1>26, <1>27, <1>28, <1>29, <1>30, <1>31, <1>32, <1>33, <1>34
  DEF Next, Operation, Stop, Reconcile, Goroutine, BringUp, Poller

\* The proxy kept after a drop is let go by Stop, by a reconnect that
\* succeeded or by the Set that replaces it: no rollback, no crash teardown and
\* no Reconcile ever lifts the block.
THEOREM KillSwitch == Spec => KillSwitchHeld
<1> DEFINE Lifted == \/ opPc \in Tearing
                     \/ \E w \in Workers : pc[w] \in {"clearOld", "apply"}
<1>1. Init => TypeInv /\ Ownership /\ ModeOfJob /\ Blocked
  BY TypeInit, OwnershipInit DEF Init, ModeOfJob, Attached, Blocked
<1>2. TypeInv /\ Ownership /\ [Next]_vars => TypeInv' /\ Ownership'
  BY TypeStep, OwnershipStep DEF TypeInv
<1>3. TypeInv /\ Ownership /\ ModeOfJob /\ Blocked /\ [Next]_vars => ModeOfJob' /\ Blocked'
  BY ModeOfJobStep, BlockedStep
<1>4. TypeInv /\ Ownership /\ Blocked /\ [Next]_vars => [LiftsBlock => Lifted]_vars
  <2> SUFFICES ASSUME TypeInv, Ownership, Blocked, Next, LiftsBlock
               PROVE  Lifted
    OBVIOUS
  <2> USE DEF host, LiftsBlock
  <2>0. proxy' # proxy /\ cleanupPending
    OBVIOUS
  <2>1. ASSUME NEW w \in Workers, Goroutine(w) \/ HelperStartChain(w)
        PROVE  Lifted
    <3>1. CASE Apply(w) \/ ClearOld(w)
      BY <3>1 DEF Apply, ClearOld
    <3>2. CASE UndoProxy(w) \/ CrashClear(w)
      BY <2>0, <3>2 DEF UndoProxy, CrashClear, Blocked
    <3> QED
      BY <2>0, <2>1, <3>1, <3>2
      DEF Goroutine, BringUp, Poller, Build, StartChainCall, HelperStartChain,
          StartChainReply,
          StartChainCancelled, UndoStop, BringUpFailed, FailLock, BringUpDone, Commit,
          Settle, SaveSession, PublishConnected, PollReturn, PollDrop, CrashStolen,
          CrashDirect, CrashBlock, CrashStop, CrashLock, Report
  <2>2. CASE StopIdle \/ StopTake \/ Operation
    <3>1. CASE StopClear \/ StopPrev
      BY <3>1 DEF StopClear, StopPrev, Tearing
    <3>2. CASE ReconcileIdle
      BY <2>0, <3>2 DEF ReconcileIdle, Blocked
    <3> QED
      BY <2>0, <2>2, <3>1, <3>2
      DEF Operation, Stop, Reconcile, StopIdle, StopTake, StopCancel, StopAnnounce,
          StopJoin, StopStop, StopLock, ClearSession, StartJoined, StartPublish,
          ReconcileLoad, ReconcileDirty, ReconcileNoServer, ReconcileAdopt, ReconcilePublish
  <2>3. CASE \/ \E s \in Servers, m \in Modes : Start(s, m)
             \/ ChainDrop \/ LateStartChain \/ StoreChange \/ BridgeExit
    BY <2>0, <2>3 DEF Start, ChainDrop, LateStartChain, StoreChange, BridgeExit
  <2> QED
    BY <2>1, <2>2, <2>3 DEF Next
<1>5. ([][LiftsBlock => Lifted]_vars) => KillSwitchHeld
  BY DEF KillSwitchHeld
<1> QED
  BY <1>1, <1>2, <1>3, <1>4, <1>5, PTL DEF Spec

(***************************************************************************)
(* The proxy of a controller that reports idle.                            *)
(***************************************************************************)
\* Without a restart Reconcile finds no session record: it ends at once.
NeverBooted == opPc \notin {"decide", "adopt"} /\ (opPc = "boot" => session = NoJob)

\* Every step but BridgeExit keeps NeverBooted.
LEMMA NeverBootedStep ==
  ASSUME TypeInv, Ownership, "exit" \notin faults, NeverBooted, [Next]_vars
  PROVE  NeverBooted'
<1> USE NullAssumption, PcNames DEF ctrl, opv, gor, disk, host, TypeInv

<1>1. ASSUME NEW s \in Servers, NEW m \in Modes, Start(s, m) PROVE NeverBooted'
  BY <1>1 DEF Start, Claim, Goto, TypeOK, NeverBooted
<1>2. ASSUME NEW w \in Workers, SaveSession(w) PROVE NeverBooted'
  <2>1. opPc # "boot"
    BY <1>2, JoinedIdle DEF SaveSession, JoinedPcs
  <2> QED
    BY <1>2, <2>1 DEF SaveSession, TypeOK, NeverBooted
<1>3. ASSUME NEW w \in Workers,
             Build(w) \/ StartChainCall(w) \/ StartChainReply(w) \/ StartChainCancelled(w)
      PROVE  NeverBooted'
  BY <1>3
  DEF Build, StartChainCall, StartChainReply, StartChainCancelled, Goto, TypeOK,
      NeverBooted
<1>4. ASSUME NEW w \in Workers,
             Apply(w) \/ UndoStop(w) \/ UndoProxy(w) \/ BringUpFailed(w)
      PROVE  NeverBooted'
  BY <1>4
  DEF Apply, UndoStop, UndoProxy, BringUpFailed, Goto, TypeOK, NeverBooted
<1>5. ASSUME NEW w \in Workers,
             FailLock(w) \/ BringUpDone(w) \/ Commit(w) \/ ClearOld(w)
      PROVE  NeverBooted'
  BY <1>5
  DEF FailLock, BringUpDone, Commit, ClearOld, Goto, TypeOK, NeverBooted
<1>6. ASSUME NEW w \in Workers,
             Settle(w) \/ PublishConnected(w) \/ PollReturn(w) \/ PollDrop(w)
      PROVE  NeverBooted'
  BY <1>6
  DEF Settle, PublishConnected, PollReturn, PollDrop, Goto, TypeOK, NeverBooted
<1>7. ASSUME NEW w \in Workers,
             CrashStolen(w) \/ CrashBlock(w) \/ CrashDirect(w) \/ CrashClear(w)
      PROVE  NeverBooted'
  BY <1>7
  DEF CrashStolen, CrashBlock, CrashDirect, CrashClear, Goto, TypeOK, NeverBooted
<1>8. ASSUME NEW w \in Workers,
             CrashStop(w) \/ CrashLock(w) \/ Report(w) \/ HelperStartChain(w)
      PROVE  NeverBooted'
  BY <1>8
  DEF CrashStop, CrashLock, Report, HelperStartChain, Goto, TypeOK, NeverBooted
<1>9. CASE StartJoined \/ StartPublish \/ StopIdle \/ StopTake
  BY <1>9
  DEF StartJoined, StartPublish, StopIdle, StopTake, Claim, Goto, TypeOK, NeverBooted
<1>10. CASE StopCancel \/ StopAnnounce \/ StopJoin \/ StopClear
  BY <1>10
  DEF StopCancel, StopAnnounce, StopJoin, StopClear, TypeOK, NeverBooted
<1>11. CASE StopStop \/ StopPrev \/ StopLock \/ ClearSession
  BY <1>11
  DEF StopStop, StopPrev, StopLock, ClearSession, TypeOK, NeverBooted
<1>12. CASE ReconcileLoad \/ ReconcileDirty \/ ReconcileNoServer \/ ReconcileIdle
  BY <1>12
  DEF ReconcileLoad, ReconcileDirty, ReconcileNoServer, ReconcileIdle, ReconcileDone,
      TypeOK, NeverBooted
<1>13. CASE ReconcileAdopt \/ ReconcilePublish \/ ChainDrop \/ LateStartChain
  BY <1>13
  DEF ReconcileAdopt, ReconcilePublish, ChainDrop, LateStartChain, Claim, Goto,
      ReconcileDone, TypeOK, NeverBooted
<1>14. CASE StoreChange \/ BridgeExit
  BY <1>14
  DEF StoreChange, BridgeExit, TypeOK, NeverBooted
<1>15. CASE UNCHANGED vars
  BY <1>15 DEF vars, TypeOK, NeverBooted
<1> QED
  BY <1>1, <1>2, <1>3, <1>4, <1>5, <1>6, <1>7, <1>8, <1>9, <1>10, <1>11, <1>12, <1>13,
     <1>14, <1>15
  DEF Next, Operation, Stop, Reconcile, Goroutine, BringUp, Poller

\* The faults under which a proxy left on can be traced.
Quietly == faults \subseteq {"rpc", "set", "dirty", "save", "store"}

HoldsProxy == {"done", "commit", "settle", "save", "publish", "poll", "crash", "crashClear"}
SettledPcs == {"save", "publish", "poll", "crash", "crashClear", "crashStop", "crashLock"}
StopPcs == {"cancel", "disc", "join", "tearClear", "tearStop", "tearPrev", "stopLock", "forget"}

\* A proxy that is on is one that the Stop under way will clear, one that is
\* owed to a later Stop, or one of the attempt that goes on.
ProxyTracked ==
  /\ opPc \in {"cancel", "disc", "join"} /\ proxy = "on" =>
       loc.mode = "sysproxy" \/ (loc.pending /\ loc.prev = "sysproxy")
  /\ opPc = "tearClear" => loc.mode = "sysproxy"
  /\ opPc \in {"tearStop", "tearPrev"} /\ proxy = "on" =>
       loc.pending /\ loc.prev = "sysproxy" /\ loc.mode # "sysproxy"
  /\ opPc \in {"stopLock", "forget"} => proxy = "off"
  /\ opPc \notin StopPcs /\ proxy = "on" =>
       \/ cleanupPending /\ cleanupMode = "sysproxy"
       \/ mode = "sysproxy" /\ \E w \in Workers : pc[w] \in HoldsProxy
  /\ \A w \in Workers :
       /\ pc[w] \in SettledPcs => ~cleanupPending
       /\ pc[w] = "settle" /\ mode # "sysproxy" =>
            proxy = "off" \/ ~(cleanupPending /\ cleanupMode = "sysproxy")

\* A goroutine with an attempt is alone, and no operation is past wg.Wait.
LEMMA OnlyOne ==
  ASSUME TypeOK, Ownership, NEW w \in Workers, Attached(w)
  PROVE  /\ opPc \notin JoinedPcs
         /\ \A v \in Workers : v # w => pc[v] \in {"idle", "report"}
  BY OneAttached DEF Ownership, AllJoined, Attached

\* Clearing the proxy succeeds where the registry does not refuse it.
LEMMA ClearsQuietly ==
  ASSUME Quietly, NEW err, ClearSysproxy(err)
  PROVE  ~err /\ proxy' = "off"
  BY DEF Quietly, ClearSysproxy

\* A new attempt inherits the proxy it finds as one that is owed.
LEMMA ClaimProxy ==
  ASSUME TypeOK, ProxyTracked, NEW w \in Workers, NEW s, NEW m, Claim(w, s, m),
         UNCHANGED proxy, \A v \in Workers : ~Attached(v),
         opPc \notin StopPcs, opPc' = "launch"
  PROVE  ProxyTracked'
<1>1. \A v \in Workers : pc[v] \in {"idle", "report"} /\ pc'[v] \in {"idle", "report", "spawn"}
  BY DEF Claim, Goto, TypeOK, Attached
<1>2. UNCHANGED <<cleanupPending, cleanupMode>>
  BY DEF Claim
<1> QED
  BY <1>1, <1>2 DEF ProxyTracked, HoldsProxy, SettledPcs, StopPcs

\* Every step keeps ProxyTracked.
LEMMA ProxyTrackedStep ==
  ASSUME TypeInv, Ownership, ModeOfJob, NeverBooted, Quietly, ProxyTracked, [Next]_vars
  PROVE  ProxyTracked'
<1> USE NullAssumption, PcNames DEF ctrl, opv, gor, disk, host, TypeInv

<1>1. ASSUME NEW s \in Servers, NEW m \in Modes, Start(s, m) PROVE ProxyTracked'
  <2>1. \A v \in Workers : ~Attached(v)
    BY <1>1, NobodyAttached DEF Start
  <2>2. CASE ~cleanupPending
    <3>1. PICK w \in Workers : Claim(w, s, m)
      BY <1>1, <2>2 DEF Start
    <3> QED
      BY <1>1, <2>1, <2>2, <3>1, ClaimProxy DEF Start, StopPcs
  <2>3. CASE cleanupPending
    BY <1>1, <2>1, <2>3 DEF Start, TypeOK, ProxyTracked, HoldsProxy, SettledPcs, StopPcs
  <2> QED
    BY <2>2, <2>3 DEF TypeOK
<1>2. ASSUME NEW w \in Workers, Apply(w) PROVE ProxyTracked'
  <2>1. /\ pc'[w] \in {"done", "undoStop"} /\ opPc \notin JoinedPcs
        /\ \A v \in Workers : v # w => pc'[v] \in {"idle", "report"} /\ pc[v] \in {"idle", "report"}
    BY <1>2, OnlyOne DEF Apply, Goto, TypeOK, Attached
  <2>2. job[w].mode = mode /\ mode' = mode /\ (opPc \in {"cancel", "disc", "join"} => loc.mode = mode)
    BY <1>2 DEF Apply, ModeOfJob, Attached
  <2>3. /\ proxy' = "on" => proxy = "on" \/ (pc'[w] = "done" /\ mode = "sysproxy")
        /\ UNCHANGED <<opPc, loc, cleanupPending, cleanupMode>>
    BY <1>2, <2>2 DEF Apply, SetSysproxy, Quietly, Goto, TypeOK
  <2> QED
    BY <1>2, <2>1, <2>2, <2>3
    DEF Apply, JoinedPcs, TypeOK, ProxyTracked, HoldsProxy, SettledPcs, StopPcs
<1>3. ASSUME NEW w \in Workers, UndoProxy(w) PROVE ProxyTracked'
  <2>1. /\ pc'[w] \in {"failed"} /\ opPc \notin JoinedPcs
        /\ \A v \in Workers : v # w => pc'[v] \in {"idle", "report"} /\ pc[v] \in {"idle", "report"}
    BY <1>3, OnlyOne DEF UndoProxy, Goto, TypeOK, Attached
  <2> QED
    BY <1>3, <2>1, ClearsQuietly
    DEF UndoProxy, JoinedPcs, TypeOK, ProxyTracked, HoldsProxy, SettledPcs, StopPcs
<1>4. ASSUME NEW w \in Workers, BringUpDone(w) PROVE ProxyTracked'
  <2>1. /\ pc'[w] \in {"idle", "commit"} /\ opPc \notin JoinedPcs
        /\ \A v \in Workers : v # w => pc'[v] \in {"idle", "report"} /\ pc[v] \in {"idle", "report"}
    BY <1>4, OnlyOne DEF BringUpDone, Goto, TypeOK, Attached
  <2>2. ctx[w] = "done" \/ cancel = NoWorker => opPc \in {"cancel", "disc", "join"}
    BY <1>4
    DEF BringUpDone, TypeOK, Ownership, LiveContextReachable, StolenAwaited, Attached
  <2> QED
    BY <1>4, <2>1, <2>2
    DEF Goto, BringUpDone, JoinedPcs, TypeOK, ProxyTracked, HoldsProxy, SettledPcs,
        StopPcs
<1>5. ASSUME NEW w \in Workers, Commit(w) PROVE ProxyTracked'
  <2>1. job[w].mode = mode
    BY <1>5 DEF Commit, ModeOfJob, Attached
  <2>2. \A v \in Workers : v # w => pc'[v] = pc[v]
    BY <1>5 DEF Commit, Goto, TypeOK
  <2>3. \/ pc'[w] = "clearOld" /\ cleanupPending /\ cleanupMode = "sysproxy"
        \/ pc'[w] = "settle" /\ (mode # "sysproxy" => ~(cleanupPending /\ cleanupMode = "sysproxy"))
    BY <1>5, <2>1 DEF Commit, Goto, TypeOK
  <2> QED
    BY <1>5, <2>2, <2>3 DEF Commit, TypeOK, ProxyTracked, HoldsProxy, SettledPcs, StopPcs
<1>6. ASSUME NEW w \in Workers, ClearOld(w) PROVE ProxyTracked'
  <2>1. /\ pc'[w] \in {"settle"} /\ opPc \notin JoinedPcs
        /\ \A v \in Workers : v # w => pc'[v] \in {"idle", "report"} /\ pc[v] \in {"idle", "report"}
    BY <1>6, OnlyOne, ClearsQuietly DEF ClearOld, Goto, TypeOK, Attached
  <2>2. proxy' = "off"
    BY <1>6, ClearsQuietly DEF ClearOld
  <2> QED
    BY <1>6, <2>1, <2>2
    DEF ClearOld, JoinedPcs, TypeOK, ProxyTracked, HoldsProxy, SettledPcs, StopPcs
<1>7. ASSUME NEW w \in Workers, PollReturn(w) PROVE ProxyTracked'
  <2>1. /\ pc'[w] \in {"idle"} /\ opPc \notin JoinedPcs
        /\ \A v \in Workers : v # w => pc'[v] \in {"idle", "report"} /\ pc[v] \in {"idle", "report"}
    BY <1>7, OnlyOne DEF PollReturn, Goto, TypeOK, Attached
  <2>2. ctx[w] = "done" \/ cancel = NoWorker => opPc \in {"cancel", "disc", "join"}
    BY <1>7
    DEF PollReturn, TypeOK, Ownership, LiveContextReachable, StolenAwaited, Attached
  <2> QED
    BY <1>7, <2>1, <2>2
    DEF PollReturn, JoinedPcs, TypeOK, ProxyTracked, HoldsProxy, SettledPcs, StopPcs
<1>8. ASSUME NEW w \in Workers, CrashStolen(w) PROVE ProxyTracked'
  <2>1. /\ pc'[w] \in {"idle"} /\ opPc \notin JoinedPcs
        /\ \A v \in Workers : v # w => pc'[v] \in {"idle", "report"} /\ pc[v] \in {"idle", "report"}
    BY <1>8, OnlyOne DEF CrashStolen, Goto, TypeOK, Attached
  <2>2. ctx[w] = "done" \/ cancel = NoWorker => opPc \in {"cancel", "disc", "join"}
    BY <1>8
    DEF CrashStolen, TypeOK, Ownership, LiveContextReachable, StolenAwaited, Attached
  <2> QED
    BY <1>8, <2>1, <2>2
    DEF CrashStolen, JoinedPcs, TypeOK, ProxyTracked, HoldsProxy, SettledPcs, StopPcs
<1>9. ASSUME NEW w \in Workers, CrashBlock(w) PROVE ProxyTracked'
  <2>1. /\ pc'[w] \in {"report"} /\ opPc \notin JoinedPcs
        /\ \A v \in Workers : v # w => pc'[v] \in {"idle", "report"} /\ pc[v] \in {"idle", "report"}
    BY <1>9, OnlyOne DEF CrashBlock, Goto, TypeOK, Attached
  <2>2. opPc \notin StopPcs
    BY <1>9, <2>1 DEF CrashBlock, Ownership, Unowned, UnownedPcs, JoinedPcs, StopPcs
  <2> QED
    BY <1>9, <2>1, <2>2
    DEF CrashBlock, JoinedPcs, TypeOK, ProxyTracked, HoldsProxy, SettledPcs, StopPcs
<1>10. ASSUME NEW w \in Workers, CrashClear(w) PROVE ProxyTracked'
  <2>1. /\ pc'[w] \in {"crashStop"} /\ opPc \notin JoinedPcs
        /\ \A v \in Workers : v # w => pc'[v] \in {"idle", "report"} /\ pc[v] \in {"idle", "report"}
    BY <1>10, OnlyOne DEF CrashClear, Goto, TypeOK, Attached
  <2>2. proxy' = "off" /\ UNCHANGED <<opPc, loc, cleanupPending>>
    BY <1>10, ClearsQuietly DEF CrashClear
  <2> QED
    BY <1>10, <2>1, <2>2
    DEF CrashClear, JoinedPcs, TypeOK, ProxyTracked, HoldsProxy, SettledPcs, StopPcs
<1>11. ASSUME NEW w \in Workers, CrashLock(w) PROVE ProxyTracked'
  <2>1. /\ pc'[w] \in {"report"} /\ opPc \notin JoinedPcs
        /\ \A v \in Workers : v # w => pc'[v] \in {"idle", "report"} /\ pc[v] \in {"idle", "report"}
    BY <1>11, OnlyOne DEF CrashLock, Goto, TypeOK, Attached
  <2> QED
    BY <1>11, <2>1
    DEF CrashLock, JoinedPcs, TypeOK, ProxyTracked, HoldsProxy, SettledPcs, StopPcs
<1>12. ASSUME NEW w \in Workers,
             Build(w) \/ StartChainCall(w) \/ StartChainReply(w) \/ StartChainCancelled(w)
      PROVE  ProxyTracked'
  BY <1>12
  DEF Build, StartChainCall, StartChainReply, StartChainCancelled, Goto, TypeOK,
      ProxyTracked, HoldsProxy, SettledPcs, StopPcs
<1>13. ASSUME NEW w \in Workers,
             UndoStop(w) \/ BringUpFailed(w) \/ FailLock(w) \/ Settle(w)
      PROVE  ProxyTracked'
  BY <1>13
  DEF UndoStop, BringUpFailed, FailLock, Settle, Goto, TypeOK, ProxyTracked, HoldsProxy,
      SettledPcs, StopPcs
<1>14. ASSUME NEW w \in Workers,
             SaveSession(w) \/ PublishConnected(w) \/ PollDrop(w) \/ CrashDirect(w)
      PROVE  ProxyTracked'
  BY <1>14
  DEF SaveSession, PublishConnected, PollDrop, CrashDirect, Goto, TypeOK, ProxyTracked,
      HoldsProxy, SettledPcs, StopPcs
<1>15. ASSUME NEW w \in Workers, CrashStop(w) PROVE ProxyTracked'
  BY <1>15 DEF CrashStop, Goto, TypeOK, ProxyTracked, HoldsProxy, SettledPcs, StopPcs
<1>16. ASSUME NEW w \in Workers, Report(w) PROVE ProxyTracked'
  BY <1>16 DEF Report, Goto, TypeOK, ProxyTracked, HoldsProxy, SettledPcs, StopPcs
<1>17. ASSUME NEW w \in Workers, HelperStartChain(w) PROVE ProxyTracked'
  BY <1>17
  DEF HelperStartChain, Goto, TypeOK, ProxyTracked, HoldsProxy, SettledPcs, StopPcs
<1>18. CASE StartJoined
  <2>1. PICK w \in Workers : Claim(w, loc.job.srv, loc.job.mode)
    BY <1>18 DEF StartJoined
  <2>2. \A v \in Workers : ~Attached(v)
    BY <1>18 DEF StartJoined, Joined, Attached
  <2> QED
    BY <1>18, <2>1, <2>2, ClaimProxy DEF StartJoined, StopPcs
<1>19. CASE StartPublish
  <2>1. loc.target \in Workers /\ pc[loc.target] = "spawn"
    BY <1>19 DEF StartPublish, Ownership, SpawnPending
  <2>2. \A v \in Workers : pc'[v] = pc[v] \/ (pc[v] = "spawn" /\ pc'[v] = "build")
    BY <1>19, <2>1 DEF StartPublish, Goto, TypeOK
  <2> QED
    BY <1>19, <2>2 DEF StartPublish, TypeOK, ProxyTracked, HoldsProxy, SettledPcs, StopPcs
<1>20. CASE StopClear
  <2>1. \A v \in Workers : pc[v] = "idle"
    BY <1>20, JoinedIdle DEF StopClear, JoinedPcs
  <2> QED
    BY <1>20, <2>1, ClearsQuietly
    DEF StopClear, TypeOK, ProxyTracked, HoldsProxy, SettledPcs, StopPcs
<1>21. CASE StopStop
  <2>1. \A v \in Workers : pc[v] = "idle"
    BY <1>21, JoinedIdle DEF StopStop, JoinedPcs
  <2>2. loc'.pending = loc.pending /\ loc'.prev = loc.prev /\ loc'.mode = loc.mode
    BY <1>21 DEF StopStop, TypeOK, Locs
  <2> QED
    BY <1>21, <2>1, <2>2
    DEF StopStop, TypeOK, ProxyTracked, HoldsProxy, SettledPcs, StopPcs
<1>22. CASE StopPrev
  <2>1. \A v \in Workers : pc[v] = "idle"
    BY <1>22, JoinedIdle DEF StopPrev, JoinedPcs
  <2> QED
    BY <1>22, <2>1, ClearsQuietly
    DEF StopPrev, TypeOK, ProxyTracked, HoldsProxy, SettledPcs, StopPcs
<1>23. CASE StopLock
  <2>1. \A v \in Workers : pc[v] = "idle"
    BY <1>23, JoinedIdle DEF StopLock, JoinedPcs
  <2> QED
    BY <1>23, <2>1 DEF StopLock, TypeOK, ProxyTracked, HoldsProxy, SettledPcs, StopPcs
<1>24. CASE ReconcileDirty
  BY <1>24 DEF ReconcileDirty, NeverBooted
<1>25. CASE ReconcileNoServer
  BY <1>25 DEF ReconcileNoServer, NeverBooted
<1>26. CASE ReconcileIdle
  BY <1>26 DEF ReconcileIdle, NeverBooted
<1>27. CASE ReconcileAdopt
  BY <1>27 DEF ReconcileAdopt, NeverBooted
<1>28. CASE ReconcilePublish
  BY <1>28 DEF ReconcilePublish, NeverBooted
<1>29. CASE BridgeExit
  BY <1>29 DEF BridgeExit, Quietly
<1>30. CASE StopIdle
  BY <1>30
  DEF StopIdle, TypeOK, ProxyTracked, HoldsProxy, SettledPcs, StopPcs
<1>31. CASE StopTake
  BY <1>31
  DEF StopTake, TypeOK, ProxyTracked, HoldsProxy, SettledPcs, StopPcs
<1>32. CASE StopCancel
  BY <1>32
  DEF StopCancel, TypeOK, ProxyTracked, HoldsProxy, SettledPcs, StopPcs
<1>33. CASE StopAnnounce
  BY <1>33
  DEF StopAnnounce, TypeOK, ProxyTracked, HoldsProxy, SettledPcs, StopPcs
<1>34. CASE StopJoin
  BY <1>34
  DEF StopJoin, TypeOK, ProxyTracked, HoldsProxy, SettledPcs, StopPcs
<1>35. CASE ClearSession
  BY <1>35
  DEF ClearSession, TypeOK, ProxyTracked, HoldsProxy, SettledPcs, StopPcs
<1>36. CASE ReconcileLoad
  BY <1>36
  DEF ReconcileLoad, TypeOK, ProxyTracked, HoldsProxy, SettledPcs, StopPcs
<1>37. CASE ChainDrop
  BY <1>37
  DEF ChainDrop, TypeOK, ProxyTracked, HoldsProxy, SettledPcs, StopPcs
<1>38. CASE LateStartChain \/ StoreChange
  BY <1>38
  DEF LateStartChain, StoreChange, TypeOK, ProxyTracked, HoldsProxy, SettledPcs, StopPcs
<1>39. CASE UNCHANGED vars
  BY <1>39 DEF vars, TypeOK, ProxyTracked, HoldsProxy, SettledPcs, StopPcs
<1> QED
  BY <1>1, <1>2, <1>3, <1>4, <1>5, <1>6, <1>7, <1>8, <1>9, <1>10, <1>11, <1>12, <1>13,
     <1>14, <1>15, <1>16, <1>17, <1>18, <1>19, <1>20, <1>21, <1>22, <1>23, <1>24, <1>25,
     <1>26, <1>27, <1>28, <1>29, <1>30, <1>31, <1>32, <1>33, <1>34, <1>35, <1>36, <1>37,
     <1>38, <1>39
  DEF Next, Operation, Stop, Reconcile, Goroutine, BringUp, Poller

\* A controller that reports idle with nothing under way has left no proxy
\* behind, whatever of the faults in Quietly struck on the way.
THEOREM IdleLeavesNoProxy == Spec => []IdleHasNoProxy
<1> DEFINE I == Quietly => NeverBooted /\ ProxyTracked
<1>1. Init => TypeInv /\ Ownership /\ ModeOfJob /\ I
  BY TypeInit, OwnershipInit
  DEF Init, ModeOfJob, Attached, NeverBooted, ProxyTracked, SettledPcs
<1>2. TypeInv /\ Ownership /\ ModeOfJob /\ [Next]_vars => TypeInv' /\ Ownership' /\ ModeOfJob'
  BY TypeStep, OwnershipStep, ModeOfJobStep DEF TypeInv
<1>3. TypeInv /\ Ownership /\ ModeOfJob /\ I /\ [Next]_vars => I'
  <2> SUFFICES ASSUME TypeInv, Ownership, ModeOfJob, I, [Next]_vars, Quietly'
               PROVE  NeverBooted' /\ ProxyTracked'
    OBVIOUS
  <2>1. Quietly /\ "exit" \notin faults
    BY FaultsFixed DEF Quietly
  <2> QED
    BY <2>1, NeverBootedStep, ProxyTrackedStep
<1>4. TypeInv /\ I => IdleHasNoProxy
  <2> SUFFICES ASSUME TypeOK, Quietly, ProxyTracked, Idle PROVE proxy = "off"
    BY DEF TypeInv, IdleHasNoProxy, Quietly
  <2> QED
    BY DEF TypeOK, Idle, Quiet, Joined, ProxyTracked, StopPcs, HoldsProxy
<1> QED
  BY <1>1, <1>2, <1>3, <1>4, PTL DEF Spec

(***************************************************************************)
(* The chain of a controller that reports idle.                            *)
(***************************************************************************)
\* A goroutine with a request at the helper waits for its answer.
AskedAwaits == \A w \in Workers : req[w] # "none" => pc[w] = "await"

\* Every step keeps AskedAwaits.
LEMMA AskedAwaitsStep ==
  ASSUME TypeInv, Ownership, AskedAwaits, [Next]_vars
  PROVE  AskedAwaits'
<1> USE NullAssumption, PcNames DEF ctrl, opv, gor, disk, host, TypeInv

<1>1. ASSUME NEW s \in Servers, NEW m \in Modes, Start(s, m) PROVE AskedAwaits'
  BY <1>1 DEF Start, Claim, Goto, TypeOK, AskedAwaits
<1>2. ASSUME NEW w \in Workers,
             Build(w) \/ StartChainCall(w) \/ StartChainReply(w) \/ StartChainCancelled(w)
      PROVE  AskedAwaits'
  BY <1>2
  DEF Build, StartChainCall, StartChainReply, StartChainCancelled, Goto, TypeOK,
      AskedAwaits
<1>3. ASSUME NEW w \in Workers,
             Apply(w) \/ UndoStop(w) \/ UndoProxy(w) \/ BringUpFailed(w)
      PROVE  AskedAwaits'
  BY <1>3
  DEF Apply, UndoStop, UndoProxy, BringUpFailed, Goto, TypeOK, AskedAwaits
<1>4. ASSUME NEW w \in Workers,
             FailLock(w) \/ BringUpDone(w) \/ Commit(w) \/ ClearOld(w)
      PROVE  AskedAwaits'
  BY <1>4
  DEF FailLock, BringUpDone, Commit, ClearOld, Goto, TypeOK, AskedAwaits
<1>5. ASSUME NEW w \in Workers,
             Settle(w) \/ SaveSession(w) \/ PublishConnected(w) \/ PollReturn(w)
      PROVE  AskedAwaits'
  BY <1>5
  DEF Settle, SaveSession, PublishConnected, PollReturn, Goto, TypeOK, AskedAwaits
<1>6. ASSUME NEW w \in Workers,
             PollDrop(w) \/ CrashStolen(w) \/ CrashBlock(w) \/ CrashDirect(w)
      PROVE  AskedAwaits'
  BY <1>6
  DEF PollDrop, CrashStolen, CrashBlock, CrashDirect, Goto, TypeOK, AskedAwaits
<1>7. ASSUME NEW w \in Workers,
             CrashClear(w) \/ CrashStop(w) \/ CrashLock(w) \/ Report(w)
      PROVE  AskedAwaits'
  BY <1>7
  DEF CrashClear, CrashStop, CrashLock, Report, Goto, TypeOK, AskedAwaits
<1>8. ASSUME NEW w \in Workers, HelperStartChain(w) PROVE AskedAwaits'
  BY <1>8 DEF HelperStartChain, Goto, TypeOK, AskedAwaits
<1>9. CASE StartPublish
  <2>1. loc.target \in Workers /\ pc[loc.target] = "spawn"
    BY <1>9 DEF StartPublish, Ownership, SpawnPending
  <2> QED
    BY <1>9, <2>1 DEF StartPublish, Goto, TypeOK, AskedAwaits
<1>10. CASE ReconcilePublish
  <2>1. loc.target \in Workers /\ pc[loc.target] = "spawn"
    BY <1>10 DEF ReconcilePublish, Ownership, SpawnPending
  <2> QED
    BY <1>10, <2>1 DEF ReconcilePublish, Goto, ReconcileDone, TypeOK, AskedAwaits
<1>11. CASE StartJoined \/ StopIdle \/ StopTake \/ StopCancel
  BY <1>11
  DEF StartJoined, StopIdle, StopTake, StopCancel, Claim, Goto, TypeOK, AskedAwaits
<1>12. CASE StopAnnounce \/ StopJoin \/ StopClear \/ StopStop
  BY <1>12
  DEF StopAnnounce, StopJoin, StopClear, StopStop, TypeOK, AskedAwaits
<1>13. CASE StopPrev \/ StopLock \/ ClearSession \/ ReconcileLoad
  BY <1>13
  DEF StopPrev, StopLock, ClearSession, ReconcileLoad, TypeOK, AskedAwaits
<1>14. CASE ReconcileDirty \/ ReconcileNoServer \/ ReconcileIdle \/ ReconcileAdopt
  BY <1>14
  DEF ReconcileDirty, ReconcileNoServer, ReconcileIdle, ReconcileAdopt, ReconcileDone,
      Claim, Goto, TypeOK, AskedAwaits
<1>15. CASE ChainDrop \/ LateStartChain \/ StoreChange \/ BridgeExit
  BY <1>15
  DEF ChainDrop, LateStartChain, StoreChange, BridgeExit, TypeOK, AskedAwaits
<1>16. CASE UNCHANGED vars
  BY <1>16 DEF vars, TypeOK, AskedAwaits
<1> QED
  BY <1>1, <1>2, <1>3, <1>4, <1>5, <1>6, <1>7, <1>8, <1>9, <1>10, <1>11, <1>12, <1>13,
     <1>14, <1>15, <1>16
  DEF Next, Operation, Stop, Reconcile, Goroutine, BringUp, Poller

\* The faults under which every call reaches the helper and is answered.
Replied == faults \subseteq {"set", "partial", "clear", "save", "store"}

HoldsChain == {"apply", "undoStop", "done", "commit", "clearOld", "settle", "save",
               "publish", "poll", "crash", "crashClear", "crashStop"}

\* A chain in the helper is one that the Stop under way will end, one that a
\* later Stop owes, or one of the attempt that goes on.
ChainTracked ==
  /\ ~dirty
  /\ late = {}
  /\ opPc \in {"tearPrev", "stopLock", "forget"} => chain = NoJob
  /\ opPc \notin StopPcs /\ chain # NoJob =>
       \/ cleanupPending
       \/ \E w \in Workers : pc[w] \in HoldsChain \/ (pc[w] = "await" /\ req[w] = "ok")

\* A StopChain that is answered and whose cleanup completes ends the session.
LEMMA AnsweredStop ==
  ASSUME Replied, NEW b, NEW err, StopChain(b, err)
  PROVE  \/ chain' = NoJob /\ dirty' = FALSE
         \/ b /\ UNCHANGED <<chain, dirty>>
  BY DEF Replied, StopChain

\* Every step keeps ChainTracked.
LEMMA ChainTrackedStep ==
  ASSUME TypeInv, Ownership, NeverBooted, AskedAwaits, Replied, ChainTracked, [Next]_vars
  PROVE  ChainTracked'
<1> USE NullAssumption, PcNames DEF ctrl, opv, gor, disk, host, TypeInv

<1>1. ASSUME NEW s \in Servers, NEW m \in Modes, Start(s, m) PROVE ChainTracked'
  BY <1>1 DEF Start, Claim, Goto, TypeOK, ChainTracked, HoldsChain, StopPcs
<1>2. ASSUME NEW w \in Workers, StartChainReply(w) PROVE ChainTracked'
  <2>1. /\ pc'[w] \in {"apply", "failed"} /\ opPc \notin JoinedPcs
        /\ \A v \in Workers : v # w => pc'[v] \in {"idle", "report"} /\ pc[v] \in {"idle", "report"}
    BY <1>2, OnlyOne DEF StartChainReply, Goto, TypeOK, Attached
  <2>2. req[w] = "ok" => pc'[w] = "apply"
    BY <1>2 DEF StartChainReply, Replied, Goto, TypeOK
  <2> QED
    BY <1>2, <2>1, <2>2
    DEF StartChainReply, JoinedPcs, TypeOK, ChainTracked, HoldsChain, StopPcs
<1>3. ASSUME NEW w \in Workers, StartChainCancelled(w) PROVE ChainTracked'
  <2>1. /\ pc'[w] \in {"failed"} /\ opPc \notin JoinedPcs
        /\ \A v \in Workers : v # w => pc'[v] \in {"idle", "report"} /\ pc[v] \in {"idle", "report"}
    BY <1>3, OnlyOne DEF StartChainCancelled, Goto, TypeOK, Attached
  <2>2. opPc \in {"disc", "join"} /\ late' = late
    BY <1>3 DEF StartChainCancelled, Replied, Ownership, StolenAwaited, Attached
  <2> QED
    BY <1>3, <2>1, <2>2
    DEF StartChainCancelled, JoinedPcs, TypeOK, ChainTracked, HoldsChain, StopPcs
<1>4. ASSUME NEW w \in Workers, UndoStop(w) PROVE ChainTracked'
  <2>1. /\ pc'[w] \in {"undoProxy", "failed"} /\ opPc \notin JoinedPcs
        /\ \A v \in Workers : v # w => pc'[v] \in {"idle", "report"} /\ pc[v] \in {"idle", "report"}
    BY <1>4, OnlyOne DEF UndoStop, Goto, TypeOK, Attached
  <2>2. (chain' = NoJob /\ dirty' = FALSE) \/ (opPc \in {"disc", "join"} /\ UNCHANGED <<chain, dirty>>)
    BY <1>4, AnsweredStop
    DEF UndoStop, CallFails, Replied, Ownership, StolenAwaited, Attached
  <2> QED
    BY <1>4, <2>1, <2>2 DEF UndoStop, JoinedPcs, TypeOK, ChainTracked, HoldsChain, StopPcs
<1>5. ASSUME NEW w \in Workers, BringUpDone(w) PROVE ChainTracked'
  <2>1. /\ pc'[w] \in {"idle", "commit"} /\ opPc \notin JoinedPcs
        /\ \A v \in Workers : v # w => pc'[v] \in {"idle", "report"} /\ pc[v] \in {"idle", "report"}
    BY <1>5, OnlyOne DEF BringUpDone, Goto, TypeOK, Attached
  <2>2. ctx[w] = "done" \/ cancel = NoWorker => opPc \in {"cancel", "disc", "join"}
    BY <1>5
    DEF BringUpDone, TypeOK, Ownership, LiveContextReachable, StolenAwaited, Attached
  <2> QED
    BY <1>5, <2>1, <2>2
    DEF Goto, BringUpDone, JoinedPcs, TypeOK, ChainTracked, HoldsChain, StopPcs
<1>6. ASSUME NEW w \in Workers, PollReturn(w) PROVE ChainTracked'
  <2>1. /\ pc'[w] \in {"idle"} /\ opPc \notin JoinedPcs
        /\ \A v \in Workers : v # w => pc'[v] \in {"idle", "report"} /\ pc[v] \in {"idle", "report"}
    BY <1>6, OnlyOne DEF PollReturn, Goto, TypeOK, Attached
  <2>2. ctx[w] = "done" \/ cancel = NoWorker => opPc \in {"cancel", "disc", "join"}
    BY <1>6
    DEF PollReturn, TypeOK, Ownership, LiveContextReachable, StolenAwaited, Attached
  <2> QED
    BY <1>6, <2>1, <2>2
    DEF PollReturn, JoinedPcs, TypeOK, ChainTracked, HoldsChain, StopPcs
<1>7. ASSUME NEW w \in Workers, CrashStolen(w) PROVE ChainTracked'
  <2>1. /\ pc'[w] \in {"idle"} /\ opPc \notin JoinedPcs
        /\ \A v \in Workers : v # w => pc'[v] \in {"idle", "report"} /\ pc[v] \in {"idle", "report"}
    BY <1>7, OnlyOne DEF CrashStolen, Goto, TypeOK, Attached
  <2>2. ctx[w] = "done" \/ cancel = NoWorker => opPc \in {"cancel", "disc", "join"}
    BY <1>7
    DEF CrashStolen, TypeOK, Ownership, LiveContextReachable, StolenAwaited, Attached
  <2> QED
    BY <1>7, <2>1, <2>2
    DEF CrashStolen, JoinedPcs, TypeOK, ChainTracked, HoldsChain, StopPcs
<1>8. ASSUME NEW w \in Workers, CrashStop(w) PROVE ChainTracked'
  <2>1. /\ pc'[w] \in {"crashLock"} /\ opPc \notin JoinedPcs
        /\ \A v \in Workers : v # w => pc'[v] \in {"idle", "report"} /\ pc[v] \in {"idle", "report"}
    BY <1>8, OnlyOne DEF CrashStop, Goto, TypeOK, Attached
  <2>2. (chain' = NoJob /\ dirty' = FALSE) \/ (opPc \in {"disc", "join"} /\ UNCHANGED <<chain, dirty>>)
    BY <1>8, AnsweredStop
    DEF CrashStop, CallFails, Replied, Ownership, StolenAwaited, Attached
  <2> QED
    BY <1>8, <2>1, <2>2
    DEF CrashStop, JoinedPcs, TypeOK, ChainTracked, HoldsChain, StopPcs
<1>9. ASSUME NEW w \in Workers, HelperStartChain(w) PROVE ChainTracked'
  <2>1. req[w] = "sent" /\ pc[w] = "await" /\ opPc \notin JoinedPcs
    BY <1>9, OnlyOne DEF HelperStartChain, AskedAwaits, Attached
  <2>2. chain' = chain \/ req'[w] = "ok"
    BY <1>9 DEF HelperStartChain, TypeOK
  <2>3. \A v \in Workers : v # w => req'[v] = req[v]
    BY <1>9 DEF HelperStartChain, TypeOK
  <2> QED
    BY <1>9, <2>1, <2>2, <2>3
    DEF HelperStartChain, JoinedPcs, TypeOK, ChainTracked, HoldsChain, StopPcs
<1>10. ASSUME NEW w \in Workers, Build(w) PROVE ChainTracked'
  BY <1>10 DEF Build, Goto, TypeOK, ChainTracked, HoldsChain, StopPcs
<1>11. ASSUME NEW w \in Workers, StartChainCall(w) PROVE ChainTracked'
  BY <1>11 DEF StartChainCall, Goto, TypeOK, ChainTracked, HoldsChain, StopPcs
<1>12. ASSUME NEW w \in Workers, Apply(w) PROVE ChainTracked'
  BY <1>12 DEF Apply, Goto, TypeOK, ChainTracked, HoldsChain, StopPcs
<1>13. ASSUME NEW w \in Workers, UndoProxy(w) PROVE ChainTracked'
  BY <1>13 DEF UndoProxy, Goto, TypeOK, ChainTracked, HoldsChain, StopPcs
<1>14. ASSUME NEW w \in Workers, BringUpFailed(w) PROVE ChainTracked'
  BY <1>14 DEF BringUpFailed, Goto, TypeOK, ChainTracked, HoldsChain, StopPcs
<1>15. ASSUME NEW w \in Workers, FailLock(w) PROVE ChainTracked'
  BY <1>15 DEF FailLock, Goto, TypeOK, ChainTracked, HoldsChain, StopPcs
<1>16. ASSUME NEW w \in Workers, Commit(w) PROVE ChainTracked'
  BY <1>16 DEF Commit, Goto, TypeOK, ChainTracked, HoldsChain, StopPcs
<1>17. ASSUME NEW w \in Workers, ClearOld(w) PROVE ChainTracked'
  BY <1>17 DEF ClearOld, Goto, TypeOK, ChainTracked, HoldsChain, StopPcs
<1>18. ASSUME NEW w \in Workers,
             Settle(w) \/ SaveSession(w) \/ PublishConnected(w) \/ PollDrop(w)
      PROVE  ChainTracked'
  BY <1>18
  DEF Settle, SaveSession, PublishConnected, PollDrop, Goto, TypeOK, ChainTracked,
      HoldsChain, StopPcs
<1>19. ASSUME NEW w \in Workers, CrashBlock(w) PROVE ChainTracked'
  BY <1>19 DEF CrashBlock, Goto, TypeOK, ChainTracked, HoldsChain, StopPcs
<1>20. ASSUME NEW w \in Workers, CrashDirect(w) PROVE ChainTracked'
  BY <1>20 DEF CrashDirect, Goto, TypeOK, ChainTracked, HoldsChain, StopPcs
<1>21. ASSUME NEW w \in Workers, CrashClear(w) PROVE ChainTracked'
  BY <1>21 DEF CrashClear, Goto, TypeOK, ChainTracked, HoldsChain, StopPcs
<1>22. ASSUME NEW w \in Workers, CrashLock(w) PROVE ChainTracked'
  BY <1>22 DEF CrashLock, Goto, TypeOK, ChainTracked, HoldsChain, StopPcs
<1>23. ASSUME NEW w \in Workers, Report(w) PROVE ChainTracked'
  BY <1>23 DEF Report, Goto, TypeOK, ChainTracked, HoldsChain, StopPcs
<1>24. CASE StartPublish
  <2>1. loc.target \in Workers /\ pc[loc.target] = "spawn"
    BY <1>24 DEF StartPublish, Ownership, SpawnPending
  <2> QED
    BY <1>24, <2>1 DEF StartPublish, Goto, TypeOK, ChainTracked, HoldsChain, StopPcs
<1>25. CASE StopStop
  <2>1. chain' = NoJob /\ dirty' = FALSE
    <3>1. PICK err \in BOOLEAN : StopChain("rpc" \in faults, err)
      BY <1>25 DEF StopStop
    <3>2. "rpc" \notin faults
      BY DEF Replied
    <3> QED
      BY <3>1, <3>2 DEF StopChain, Replied
  <2> QED
    BY <1>25, <2>1 DEF StopStop, TypeOK, ChainTracked, HoldsChain, StopPcs
<1>26. CASE ReconcileDirty
  BY <1>26 DEF ReconcileDirty, NeverBooted
<1>27. CASE ReconcileNoServer
  BY <1>27 DEF ReconcileNoServer, NeverBooted
<1>28. CASE ReconcileIdle
  BY <1>28 DEF ReconcileIdle, NeverBooted
<1>29. CASE ReconcileAdopt
  BY <1>29 DEF ReconcileAdopt, NeverBooted
<1>30. CASE ReconcilePublish
  BY <1>30 DEF ReconcilePublish, NeverBooted
<1>31. CASE ChainDrop
  BY <1>31 DEF ChainDrop, Replied, ChainTracked
<1>32. CASE BridgeExit
  BY <1>32 DEF BridgeExit, Replied
<1>33. CASE StartJoined \/ StopIdle \/ StopTake \/ StopCancel
  BY <1>33
  DEF StartJoined, StopIdle, StopTake, StopCancel, Claim, Goto, TypeOK, ChainTracked,
      HoldsChain, StopPcs
<1>34. CASE StopAnnounce
  BY <1>34
  DEF StopAnnounce, TypeOK, ChainTracked, HoldsChain, StopPcs
<1>35. CASE StopJoin
  BY <1>35
  DEF StopJoin, TypeOK, ChainTracked, HoldsChain, StopPcs
<1>36. CASE StopClear
  BY <1>36
  DEF StopClear, TypeOK, ChainTracked, HoldsChain, StopPcs
<1>37. CASE StopPrev
  BY <1>37
  DEF StopPrev, TypeOK, ChainTracked, HoldsChain, StopPcs
<1>38. CASE StopLock
  BY <1>38
  DEF StopLock, TypeOK, ChainTracked, HoldsChain, StopPcs
<1>39. CASE ClearSession
  BY <1>39
  DEF ClearSession, TypeOK, ChainTracked, HoldsChain, StopPcs
<1>40. CASE ReconcileLoad
  BY <1>40
  DEF ReconcileLoad, TypeOK, ChainTracked, HoldsChain, StopPcs
<1>41. CASE LateStartChain
  BY <1>41
  DEF LateStartChain, TypeOK, ChainTracked, HoldsChain, StopPcs
<1>42. CASE StoreChange
  BY <1>42
  DEF StoreChange, TypeOK, ChainTracked, HoldsChain, StopPcs
<1>43. CASE UNCHANGED vars
  BY <1>43 DEF vars, TypeOK, ChainTracked, HoldsChain, StopPcs
<1> QED
  BY <1>1, <1>2, <1>3, <1>4, <1>5, <1>6, <1>7, <1>8, <1>9, <1>10, <1>11, <1>12, <1>13,
     <1>14, <1>15, <1>16, <1>17, <1>18, <1>19, <1>20, <1>21, <1>22, <1>23, <1>24, <1>25,
     <1>26, <1>27, <1>28, <1>29, <1>30, <1>31, <1>32, <1>33, <1>34, <1>35, <1>36, <1>37,
     <1>38, <1>39, <1>40, <1>41, <1>42, <1>43
  DEF Next, Operation, Stop, Reconcile, Goroutine, BringUp, Poller

\* A controller that reports idle with nothing under way has left no chain in
\* the helper, as long as every call reaches it and is answered.
THEOREM IdleLeavesNoChain == Spec => []IdleHasNoChain
<1> DEFINE I == Replied => NeverBooted /\ ChainTracked
<1>1. Init => TypeInv /\ Ownership /\ AskedAwaits /\ I
  BY TypeInit, OwnershipInit DEF Init, AskedAwaits, NeverBooted, ChainTracked
<1>2. TypeInv /\ Ownership /\ AskedAwaits /\ [Next]_vars => TypeInv' /\ Ownership' /\ AskedAwaits'
  BY TypeStep, OwnershipStep, AskedAwaitsStep DEF TypeInv
<1>3. TypeInv /\ Ownership /\ AskedAwaits /\ I /\ [Next]_vars => I'
  <2> SUFFICES ASSUME TypeInv, Ownership, AskedAwaits, I, [Next]_vars, Replied'
               PROVE  NeverBooted' /\ ChainTracked'
    OBVIOUS
  <2>1. Replied /\ "exit" \notin faults
    BY FaultsFixed DEF Replied
  <2> QED
    BY <2>1, NeverBootedStep, ChainTrackedStep
<1>4. I => IdleHasNoChain
  <2> SUFFICES ASSUME ChainTracked, Idle PROVE chain = NoJob
    BY DEF IdleHasNoChain, NoChainLeft, Replied
  <2> QED
    BY DEF Idle, Quiet, Joined, ChainTracked, StopPcs, HoldsChain
<1> QED
  BY <1>1, <1>2, <1>3, <1>4, PTL DEF Spec

\* Idle means that nothing is left behind.
THEOREM IdleLeavesNothing == Spec => []IdleIsClean
<1>1. IdleHasNoChain /\ IdleHasNoProxy => IdleIsClean
  BY DEF IdleIsClean
<1> QED
  BY <1>1, IdleLeavesNoChain, IdleLeavesNoProxy, PTL

(***************************************************************************)
(* The helper daemon of Linux.                                             *)
(***************************************************************************)
StartPcs == {"singbox", "xray", "undo", "publish"}
HoldPcs  == StartPcs \cup TearPcs
StatPcs  == {"dial", "ask", "cache"}

\* Every process stays in its own program, and a held place means the mutex.
PcKinds ==
  /\ \A c \in Conns : at[c] \in ConnPcs \cup TearPcs
  /\ \A s \in Sessions : at[s] \in SessPcs \cup TearPcs
  /\ at[Sig] \in SigPcs \cup TearPcs
LockHeld == \A p \in Procs : at[p] \in HoldPcs => mu = p

\* A session that has not been published is nobody's yet.
Unborn ==
  \A s \in Sessions : at[s] = "none" => active # s /\ ~stopping[s]

\* The id of a start is fresh and its own.
FreshIds ==
  /\ \A c \in Conns : at[c] \in StartPcs \cup {"start"} =>
       arg[c] \in used /\ at[arg[c]] = "none"
  /\ \A c, d \in Conns :
       at[c] \in StartPcs \cup {"start"} /\ at[d] \in StartPcs \cup {"start"} =>
         (arg[c] = arg[d] => c = d)
  /\ \A s \in Sessions \ used : at[s] = "none"

\* What the holder of chainMu may rely on.
HolderKnows ==
  /\ \A c \in Conns : at[c] \in StartPcs => active = NoSession
  /\ \A p \in Procs : at[p] \in TearPcs => active \in Sessions /\ stopping[active]

\* The processes at each point of a start and of a teardown.
CoreStages ==
  /\ \A c \in Conns : at[c] = "singbox" => \A k \in Cores : core[arg[c]][k] # "up"
  /\ \A c \in Conns : at[c] \in {"xray", "undo"} => core[arg[c]]["xray"] # "up"
  /\ \A p \in Procs : at[p] = "close" => \A k \in Cores : core[active][k] # "up"

\* A statistics call is about a session that was published, and its reading
\* is that session's while the session is still the active one.
Readings ==
  \A c \in Conns : at[c] \in StatPcs =>
    /\ arg[c] \in Told
    /\ (at[c] = "cache" /\ active = arg[c] => rep[c].of = arg[c])

Inv == /\ HelperTypeOK /\ PcKinds /\ LockHeld /\ Unborn /\ FreshIds
       /\ HolderKnows /\ CoreStages /\ CoresOwned /\ Readings /\ CountersOwn

USE DEF ConnPcs, TearPcs, SessPcs, SigPcs, StartPcs, HoldPcs, StatPcs, Procs, Cores, sessv, stats, reqv

PcType == at \in [Procs -> ConnPcs \cup TearPcs \cup SessPcs \cup SigPcs]
ReqType ==
  /\ arg \in [Conns -> Sessions \cup {NoSession}]
  /\ rep \in [Conns -> [active: BOOLEAN, pending: BOOLEAN,
                        of: Sessions \cup {NoSession}]]

\* A handler that answers leaves its request fields well typed.
LEMMA Returns == ASSUME HelperTypeOK, NEW c \in Conns, Return(c) PROVE ReqType'
BY DEF HelperTypeOK, Return, NoFlags, ReqType

\* Starting a core or losing one keeps the process table well typed.
LEMMA CoreSet ==
  ASSUME HelperTypeOK, NEW s \in Sessions, NEW k \in Cores, NEW v \in {"up", "exited"},
         core' = [core EXCEPT ![s][k] = v]
  PROVE  core' \in [Sessions -> [Cores -> {"none", "up", "exited"}]]
BY DEF HelperTypeOK

(***************************************************************************)
(* A process that moves on stays in its own program.                       *)
(***************************************************************************)
LEMMA ConnMoves ==
  ASSUME HelperTypeOK, PcKinds, NEW c \in Conns, NEW l \in ConnPcs \cup TearPcs, Jump(c, l)
  PROVE  /\ PcType'
         /\ PcKinds'
BY ProcsAssumption DEF HelperTypeOK, PcType, PcKinds, Jump

\* The same of a session's watcher.
LEMMA SessMoves ==
  ASSUME HelperTypeOK, PcKinds, NEW s \in Sessions, NEW l \in SessPcs \cup TearPcs, Jump(s, l)
  PROVE  /\ PcType'
         /\ PcKinds'
BY ProcsAssumption DEF HelperTypeOK, PcType, PcKinds, Jump

\* The same of the signal handler.
LEMMA SigMoves ==
  ASSUME HelperTypeOK, PcKinds, NEW l \in SigPcs \cup TearPcs, Jump(Sig, l)
  PROVE  /\ PcType'
         /\ PcKinds'
BY ProcsAssumption DEF HelperTypeOK, PcType, PcKinds, Jump

\* A connection reads its next request.
LEMMA RequestKeeps ==
  ASSUME Inv, NEW c \in Conns, Request(c) PROVE Inv'
<1>1. PICK l \in ConnPcs \cup TearPcs : Jump(c, l)
  BY DEF Request, Told
<1>2. /\ PcType'
      /\ PcKinds'
  BY <1>1, ConnMoves DEF Inv
<1>3. HelperTypeOK'
  <2>1. arg' \in [Conns -> Sessions \cup {NoSession}] /\ used' \subseteq Sessions
    BY DEF Inv, HelperTypeOK, Request, Told
  <2> QED BY <1>2, <2>1 DEF Inv, HelperTypeOK, PcType, Request
<1>4. LockHeld'
  BY DEF Inv, LockHeld, HelperTypeOK, Request, Jump
<1>5. Unborn'
  BY DEF Inv, Unborn, HelperTypeOK, Request, Jump
<1>6. FreshIds'
  BY SMTT(60) DEF Inv, FreshIds, HelperTypeOK, Request, Jump
<1>7. HolderKnows'
  BY DEF Inv, HolderKnows, HelperTypeOK, Request, Jump
<1>8. CoreStages'
  BY SMTT(60) DEF Inv, CoreStages, HelperTypeOK, Request, Jump
<1>9. CoresOwned'
  BY SMTT(60) DEF Inv, CoresOwned, Starting, HelperTypeOK, Request, Jump
<1>10. Readings'
  BY DEF Inv, Readings, Told, HelperTypeOK, Request, Jump
<1>11. CountersOwn'
  BY DEF Inv, CountersOwn, Request
<1> QED BY <1>2, <1>3, <1>4, <1>5, <1>6, <1>7, <1>8, <1>9, <1>10, <1>11 DEF Inv

\* StartChain takes chainMu, or is refused.
LEMMA StartLockKeeps ==
  ASSUME Inv, NEW c \in Conns, StartLock(c) PROVE Inv'
<1>1. PICK l \in ConnPcs \cup TearPcs : Jump(c, l)
  BY DEF StartLock, Return
<1>2. /\ PcType'
      /\ PcKinds'
  BY <1>1, ConnMoves DEF Inv
<1>3. HelperTypeOK'
  <2>1. ReqType'
    BY Returns DEF Inv, HelperTypeOK, ReqType, StartLock
  <2> QED BY <1>2, <2>1 DEF Inv, HelperTypeOK, PcType, ReqType, StartLock
<1>4. LockHeld'
  BY ProcsAssumption DEF Inv, LockHeld, HelperTypeOK, StartLock, Jump, Return
<1>5. Unborn'
  BY DEF Inv, Unborn, HelperTypeOK, StartLock, Jump, Return
<1>6. FreshIds'
  BY ProcsAssumption, SMTT(60) DEF Inv, FreshIds, HelperTypeOK, StartLock, Jump, Return
<1>7. HolderKnows'
  BY DEF Inv, HolderKnows, HelperTypeOK, StartLock, Jump, Return
<1>8. CoreStages'
  BY ProcsAssumption DEF Inv, CoreStages, HelperTypeOK, LockHeld, FreshIds,
     CoresOwned, Starting, StartLock, Jump, Return
<1>9. CoresOwned'
  BY SMTT(60) DEF Inv, CoresOwned, Starting, HelperTypeOK, StartLock, Jump, Return
<1>10. Readings'
  BY DEF Inv, Readings, Told, HelperTypeOK, StartLock, Jump, Return
<1>11. CountersOwn'
  BY DEF Inv, CountersOwn, StartLock
<1> QED BY <1>2, <1>3, <1>4, <1>5, <1>6, <1>7, <1>8, <1>9, <1>10, <1>11 DEF Inv

\* StartChain starts sing-box, or fails with nothing running.
LEMMA SpawnSingboxKeeps ==
  ASSUME Inv, NEW c \in Conns, SpawnSingbox(c) PROVE Inv'
<1>1. PICK l \in ConnPcs \cup TearPcs : Jump(c, l)
  BY DEF SpawnSingbox, Return, Fails
<1>2. /\ PcType'
      /\ PcKinds'
  BY <1>1, ConnMoves DEF Inv
<1>3. HelperTypeOK'
  <2>1. ReqType'
    BY Returns DEF Inv, HelperTypeOK, ReqType, SpawnSingbox, Fails
  <2>2. arg[c] \in Sessions
    BY DEF Inv, HelperTypeOK, FreshIds, SpawnSingbox
  <2>3. core' \in [Sessions -> [Cores -> {"none", "up", "exited"}]]
    BY <2>2, CoreSet DEF Inv, HelperTypeOK, SpawnSingbox
  <2> QED BY <1>2, <2>1, <2>3 DEF Inv, HelperTypeOK, PcType, ReqType, SpawnSingbox, Fails
<1>4. LockHeld'
  <2>1. CASE Jump(c, "xray") /\ UNCHANGED <<mu, reqv>>
    BY <2>1 DEF Inv, LockHeld, SpawnSingbox, Jump, Fails
  <2>2. CASE Fails(c) /\ UNCHANGED core
    BY <2>2 DEF Inv, LockHeld, HelperTypeOK, SpawnSingbox, Jump, Return, Fails
  <2> QED BY <2>1, <2>2 DEF SpawnSingbox
<1>5. Unborn'
  BY DEF Inv, Unborn, HelperTypeOK, SpawnSingbox, Jump, Return, Fails
<1>6. FreshIds'
  <2>1. CASE Jump(c, "xray") /\ UNCHANGED <<mu, reqv>>
    BY <2>1 DEF Inv, FreshIds, SpawnSingbox, Jump, Fails
  <2>2. CASE Fails(c) /\ UNCHANGED core
    BY <2>2 DEF Inv, FreshIds, HelperTypeOK, SpawnSingbox, Jump, Return, Fails
  <2> QED BY <2>1, <2>2 DEF SpawnSingbox
<1>7. HolderKnows'
  BY DEF Inv, HolderKnows, HelperTypeOK, SpawnSingbox, Jump, Return, Fails
<1>8. CoreStages'
  <2>1. CASE Jump(c, "xray") /\ UNCHANGED <<mu, reqv>>
    BY <2>1 DEF Inv, CoreStages, HelperTypeOK, LockHeld, SpawnSingbox, Jump, Fails
  <2>2. CASE Fails(c) /\ UNCHANGED core
    BY <2>2 DEF Inv, CoreStages, HelperTypeOK, SpawnSingbox, Jump, Return, Fails
  <2> QED BY <2>1, <2>2 DEF SpawnSingbox
<1>9. CoresOwned'
  BY ProcsAssumption DEF Inv, CoresOwned, Starting, HelperTypeOK, LockHeld,
     CoreStages, SpawnSingbox, Jump, Fails
<1>10. Readings'
  BY DEF Inv, Readings, Told, HelperTypeOK, SpawnSingbox, Jump, Return, Fails
<1>11. CountersOwn'
  BY DEF Inv, CountersOwn, SpawnSingbox, Fails
<1> QED BY <1>2, <1>3, <1>4, <1>5, <1>6, <1>7, <1>8, <1>9, <1>10, <1>11 DEF Inv

\* StartChain starts xray, or goes to undo sing-box.
LEMMA SpawnXrayKeeps ==
  ASSUME Inv, NEW c \in Conns, SpawnXray(c) PROVE Inv'
<1>1. PICK l \in ConnPcs \cup TearPcs : Jump(c, l)
  BY DEF SpawnXray
<1>2. /\ PcType'
      /\ PcKinds'
  BY <1>1, ConnMoves DEF Inv
<1>3. HelperTypeOK'
  <2>1. arg[c] \in Sessions
    BY DEF Inv, HelperTypeOK, FreshIds, SpawnXray
  <2>2. core' \in [Sessions -> [Cores -> {"none", "up", "exited"}]]
    BY <2>1, CoreSet DEF Inv, HelperTypeOK, SpawnXray
  <2> QED BY <1>2, <2>2 DEF Inv, HelperTypeOK, PcType, SpawnXray
<1>4. LockHeld'
  BY DEF Inv, LockHeld, HelperTypeOK, SpawnXray, Jump
<1>5. Unborn'
  BY DEF Inv, Unborn, HelperTypeOK, SpawnXray, Jump
<1>6. FreshIds'
  <2>1. CASE Jump(c, "publish")
    BY <2>1 DEF Inv, FreshIds, SpawnXray, Jump
  <2>2. CASE Jump(c, "undo") /\ UNCHANGED core
    BY <2>2 DEF Inv, FreshIds, SpawnXray, Jump
  <2> QED BY <2>1, <2>2 DEF SpawnXray
<1>7. HolderKnows'
  BY DEF Inv, HolderKnows, HelperTypeOK, SpawnXray, Jump
<1>8. CoreStages'
  BY DEF Inv, CoreStages, HelperTypeOK, LockHeld, SpawnXray, Jump
<1>9. CoresOwned'
  BY SMTT(60) DEF Inv, CoresOwned, Starting, HelperTypeOK, SpawnXray, Jump
<1>10. Readings'
  BY DEF Inv, Readings, Told, HelperTypeOK, SpawnXray, Jump
<1>11. CountersOwn'
  BY DEF Inv, CountersOwn, SpawnXray
<1> QED BY <1>2, <1>3, <1>4, <1>5, <1>6, <1>7, <1>8, <1>9, <1>10, <1>11 DEF Inv

\* StartChain kills the sing-box it started.
LEMMA UndoKeeps ==
  ASSUME Inv, NEW c \in Conns, Undo(c) PROVE Inv'
<1>1. HelperTypeOK'
  BY DEF Inv, HelperTypeOK, NoFlags, Undo, Jump, Return, Fails
<1>2. PcKinds'
  BY DEF Inv, PcKinds, Undo, Jump, Return, Fails
<1>3. LockHeld'
  BY DEF Inv, LockHeld, HelperTypeOK, Undo, Jump, Return, Fails
<1>4. Unborn'
  BY DEF Inv, Unborn, Undo, Jump, Return, Fails
<1>5. FreshIds'
  BY DEF Inv, FreshIds, HelperTypeOK, Undo, Jump, Return, Fails
<1>6. HolderKnows'
  BY DEF Inv, HolderKnows, Undo, Jump, Return, Fails
<1>7. CoreStages'
  BY DEF Inv, CoreStages, HelperTypeOK, Undo, Jump, Return, Fails
<1>8. CoresOwned'
  BY ProcsAssumption DEF Inv, CoresOwned, Starting, HelperTypeOK, CoreStages, Undo,
     Jump, Return, Fails
<1>9. Readings'
  BY DEF Inv, Readings, Told, Undo, Jump, Return, Fails
<1>10. CountersOwn'
  BY DEF Inv, CountersOwn, Undo, Fails
<1> QED BY <1>1, <1>2, <1>3, <1>4, <1>5, <1>6, <1>7, <1>8, <1>9, <1>10 DEF Inv

\* StartChain publishes its session: the active one, its id told to the
\* caller.
LEMMA PublishKeeps ==
  ASSUME Inv, NEW c \in Conns, Publish(c) PROVE Inv'
<1>1. PcKinds'
  <2>1. arg[c] \in Sessions
    BY DEF Inv, HelperTypeOK, FreshIds, Publish
  <2>2. /\ at' = [at EXCEPT ![c] = "idle", ![arg[c]] = "arm"]
        /\ PcType
        /\ PcKinds
    BY DEF Inv, HelperTypeOK, PcType, Publish
  <2>3. \A q \in Procs : at'[q] = IF q = arg[c] THEN "arm" ELSE IF q = c THEN "idle" ELSE at[q]
    BY <2>1, <2>2, ProcsAssumption DEF PcType
  <2> HIDE DEF Procs, ConnPcs, SessPcs, SigPcs, TearPcs
  <2>4. /\ "idle" \in ConnPcs /\ "arm" \in SessPcs
        /\ c \in Procs /\ Conns \subseteq Procs /\ Sessions \subseteq Procs /\ Sig \in Procs
    BY DEF Procs, ConnPcs, SessPcs
  <2>5. ASSUME NEW d \in Conns PROVE at'[d] \in ConnPcs \cup TearPcs
    BY <2>1, <2>2, <2>3, <2>4, ProcsAssumption DEF PcKinds
  <2>6. ASSUME NEW s \in Sessions PROVE at'[s] \in SessPcs \cup TearPcs
    BY <2>1, <2>2, <2>3, <2>4, ProcsAssumption DEF PcKinds
  <2>7. at'[Sig] \in SigPcs \cup TearPcs
    BY <2>1, <2>2, <2>3, <2>4, ProcsAssumption DEF PcKinds
  <2> QED BY <2>5, <2>6, <2>7 DEF PcKinds
<1>2. HelperTypeOK'
  BY DEF Inv, HelperTypeOK, Publish
<1>3. LockHeld'
  BY DEF Inv, LockHeld, HelperTypeOK, Publish
<1>4. Unborn'
  BY DEF Inv, Unborn, HelperTypeOK, Publish
<1>5. FreshIds'
  BY DEF Inv, FreshIds, HelperTypeOK, Publish
<1>6. HolderKnows'
  <2>1. arg[c] \in Sessions /\ mu = c
    BY DEF Inv, HelperTypeOK, FreshIds, LockHeld, Publish
  <2>2. /\ at' = [at EXCEPT ![c] = "idle", ![arg[c]] = "arm"]
        /\ PcType
    BY DEF Inv, HelperTypeOK, PcType, Publish
  <2>3. \A q \in Procs : at'[q] = IF q = arg[c] THEN "arm"
                                  ELSE IF q = c THEN "idle" ELSE at[q]
    BY <2>1, <2>2, ProcsAssumption DEF PcType
  <2>4. \A q \in Procs : at'[q] \notin HoldPcs
    BY <2>1, <2>3 DEF Inv, LockHeld
  <2> QED BY <2>4 DEF HolderKnows
<1>7. CoreStages'
  BY DEF Inv, CoreStages, HelperTypeOK, LockHeld, Publish
<1>8. CoresOwned'
  BY ProcsAssumption DEF Inv, CoresOwned, Starting, LockHeld, FreshIds,
     HolderKnows, CountersOwn, Publish
<1>9. Readings'
  BY DEF Inv, Readings, Told, HelperTypeOK, FreshIds, Publish
<1>10. CountersOwn'
  BY DEF Inv, CountersOwn, Publish
<1> QED BY <1>1, <1>2, <1>3, <1>4, <1>5, <1>6, <1>7, <1>8, <1>9, <1>10 DEF Inv

\* StopChain takes chainMu: refused, or a teardown of the active session.
LEMMA StopLockKeeps ==
  ASSUME Inv, NEW c \in Conns, LockStop(c) PROVE Inv'
<1>1. PICK l \in ConnPcs \cup TearPcs : Jump(c, l)
  BY DEF LockStop, Return, Tear
<1>2. /\ PcType'
      /\ PcKinds'
  BY <1>1, ConnMoves DEF Inv
<1>3. HelperTypeOK'
  <2>1. ReqType'
    BY Returns DEF Inv, HelperTypeOK, ReqType, LockStop
  <2> QED BY <1>2, <2>1 DEF Inv, HelperTypeOK, PcType, ReqType, LockStop, Tear
<1>4. LockHeld'
  BY ProcsAssumption DEF Inv, LockHeld, HelperTypeOK, LockStop, Jump, Return, Tear
<1>5. Unborn'
  BY DEF Inv, Unborn, HelperTypeOK, LockStop, Jump, Return, Tear
<1>6. FreshIds'
  BY SMTT(60) DEF Inv, FreshIds, HelperTypeOK, HolderKnows, LockStop, Jump, Return, Tear
<1>7. HolderKnows'
  BY DEF Inv, HolderKnows, HelperTypeOK, LockStop, Jump, Return, Tear
<1>8. CoreStages'
  BY DEF Inv, CoreStages, HelperTypeOK, LockStop, Jump, Return, Tear
<1>9. CoresOwned'
  BY DEF Inv, CoresOwned, Starting, HelperTypeOK, LockStop, Jump, Return, Tear
<1>10. Readings'
  BY DEF Inv, Readings, Told, HelperTypeOK, LockStop, Jump, Return, Tear
<1>11. CountersOwn'
  BY DEF Inv, CountersOwn, LockStop, Tear
<1> QED BY <1>2, <1>3, <1>4, <1>5, <1>6, <1>7, <1>8, <1>9, <1>10, <1>11 DEF Inv

\* ServiceStatus reads the session under chainMu.
LEMMA ReadFlagsKeeps ==
  ASSUME Inv, NEW c \in Conns, ReadFlags(c) PROVE Inv'
<1>1. PICK l \in ConnPcs \cup TearPcs : Jump(c, l)
  BY DEF ReadFlags
<1>2. /\ PcType'
      /\ PcKinds'
  BY <1>1, ConnMoves DEF Inv
<1>3. HelperTypeOK'
  <2>1. /\ (active # NoSession /\ ~stopping[active]) \in BOOLEAN
        /\ (active # NoSession /\ stopping[active]) \in BOOLEAN
    BY Zenon DEF Inv, HelperTypeOK
  <2>2. \E b \in BOOLEAN : \/ rep' = [rep EXCEPT ![c].active = b]
                          \/ rep' = [rep EXCEPT ![c].pending = b]
    BY <2>1 DEF ReadFlags
  <2>3. ReqType /\ arg' = arg
    BY DEF Inv, HelperTypeOK, ReqType, ReadFlags
  <2>4. ReqType'
    BY <2>2, <2>3 DEF ReqType
  <2> QED BY <1>2, <2>4 DEF Inv, HelperTypeOK, PcType, ReqType, ReadFlags
<1>4. LockHeld'
  BY DEF Inv, LockHeld, HelperTypeOK, ReadFlags, Jump
<1>5. Unborn'
  BY DEF Inv, Unborn, HelperTypeOK, ReadFlags, Jump
<1>6. FreshIds'
  BY SMTT(60) DEF Inv, FreshIds, HelperTypeOK, ReadFlags, Jump
<1>7. HolderKnows'
  BY DEF Inv, HolderKnows, HelperTypeOK, ReadFlags, Jump
<1>8. CoreStages'
  BY DEF Inv, CoreStages, HelperTypeOK, ReadFlags, Jump
<1>9. CoresOwned'
  BY DEF Inv, CoresOwned, Starting, HelperTypeOK, ReadFlags, Jump
<1>10. Readings'
  BY DEF Inv, Readings, Told, HelperTypeOK, ReadFlags, Jump
<1>11. CountersOwn'
  BY DEF Inv, CountersOwn, ReadFlags
<1> QED BY <1>2, <1>3, <1>4, <1>5, <1>6, <1>7, <1>8, <1>9, <1>10, <1>11 DEF Inv

\* ServiceStatus reads the cached counters after chainMu is free.
LEMMA ReadCountersKeeps ==
  ASSUME Inv, NEW c \in Conns, ReadCounters(c) PROVE Inv'
<1>1. PICK l \in ConnPcs \cup TearPcs : Jump(c, l)
  BY DEF ReadCounters, Return
<1>2. /\ PcType'
      /\ PcKinds'
  BY <1>1, ConnMoves DEF Inv
<1>3. HelperTypeOK'
  <2>1. ReqType'
    BY Returns DEF Inv, HelperTypeOK, ReqType, ReadCounters
  <2> QED BY <1>2, <2>1 DEF Inv, HelperTypeOK, PcType, ReqType, ReadCounters
<1>4. LockHeld'
  BY DEF Inv, LockHeld, HelperTypeOK, ReadCounters, Jump, Return
<1>5. Unborn'
  BY DEF Inv, Unborn, HelperTypeOK, ReadCounters, Jump, Return
<1>6. FreshIds'
  BY ProcsAssumption, SMTT(60) DEF Inv, FreshIds, HelperTypeOK, LockHeld, ReadCounters, Jump,
     Return
<1>7. HolderKnows'
  BY DEF Inv, HolderKnows, HelperTypeOK, ReadCounters, Jump, Return
<1>8. CoreStages'
  BY SMTT(60) DEF Inv, CoreStages, HelperTypeOK, ReadCounters, Jump, Return
<1>9. CoresOwned'
  BY SMTT(60) DEF Inv, CoresOwned, Starting, HelperTypeOK, ReadCounters, Jump, Return
<1>10. Readings'
  BY ProcsAssumption DEF Inv, Readings, Told, HelperTypeOK, LockHeld, Unborn,
     ReadCounters, Jump, Return
<1>11. CountersOwn'
  BY DEF Inv, CountersOwn, ReadCounters
<1> QED BY <1>2, <1>3, <1>4, <1>5, <1>6, <1>7, <1>8, <1>9, <1>10, <1>11 DEF Inv

\* The statistics call dials the core.
LEMMA DialKeeps ==
  ASSUME Inv, NEW c \in Conns, Dial(c) PROVE Inv'
<1>1. HelperTypeOK'
  BY DEF Inv, HelperTypeOK, Dial, Jump
<1>2. PcKinds'
  BY DEF Inv, PcKinds, Dial, Jump
<1>3. LockHeld'
  BY DEF Inv, LockHeld, Dial, Jump
<1>4. Unborn'
  BY DEF Inv, Unborn, Dial, Jump
<1>5. FreshIds'
  BY DEF Inv, FreshIds, Dial, Jump
<1>6. HolderKnows'
  BY DEF Inv, HolderKnows, Dial, Jump
<1>7. CoreStages'
  BY DEF Inv, CoreStages, Dial, Jump
<1>8. CoresOwned'
  BY ProcsAssumption DEF Inv, CoresOwned, Starting, Dial, Jump
<1>9. Readings'
  BY DEF Inv, Readings, Told, Dial, Jump
<1>10. CountersOwn'
  BY DEF Inv, CountersOwn, Dial
<1> QED BY <1>1, <1>2, <1>3, <1>4, <1>5, <1>6, <1>7, <1>8, <1>9, <1>10 DEF Inv

\* The statistics call reads some running core.
LEMMA CountersKeeps ==
  ASSUME Inv, NEW c \in Conns, Counters(c) PROVE Inv'
<1>1. PICK l \in ConnPcs \cup TearPcs : Jump(c, l)
  BY DEF Counters, Return
<1>2. /\ PcType'
      /\ PcKinds'
  BY <1>1, ConnMoves DEF Inv
<1>3. HelperTypeOK'
  <2>1. ReqType'
    <3>1. CASE Return(c)
      BY <3>1, Returns DEF Inv
    <3>2. CASE UNCHANGED arg /\ \E s \in Sessions : rep' = [rep EXCEPT ![c].of = s]
      BY <3>2, SMTT(60) DEF Inv, HelperTypeOK, ReqType
    <3> QED BY <3>1, <3>2 DEF Counters
  <2> QED BY <1>2, <2>1 DEF Inv, HelperTypeOK, PcType, ReqType, Counters
<1>4. LockHeld'
  BY DEF Inv, LockHeld, HelperTypeOK, Counters, Jump, Return
<1>5. Unborn'
  BY DEF Inv, Unborn, HelperTypeOK, Counters, Jump, Return
<1>6. FreshIds'
  <2>1. CASE Jump(c, "cache") /\ UNCHANGED <<conn, arg>>
    BY <2>1 DEF Inv, FreshIds, Counters, Jump
  <2>2. CASE Return(c)
    BY <2>2 DEF Inv, FreshIds, Counters, Jump, Return
  <2> QED BY <2>1, <2>2 DEF Counters
<1>7. HolderKnows'
  BY DEF Inv, HolderKnows, HelperTypeOK, Counters, Jump, Return
<1>8. CoreStages'
  <2>1. CASE Jump(c, "cache") /\ UNCHANGED <<conn, arg>>
    BY <2>1 DEF Inv, CoreStages, Counters, Jump
  <2>2. CASE Return(c)
    BY <2>2 DEF Inv, CoreStages, Counters, Jump, Return
  <2> QED BY <2>1, <2>2 DEF Counters
<1>9. CoresOwned'
  <2>1. \A d \in Conns : at[d] \in StartPcs => at'[d] = at[d] /\ arg'[d] = arg[d]
    BY DEF Inv, HelperTypeOK, Counters, Jump, Return
  <2> QED BY <2>1 DEF Inv, CoresOwned, Starting, Counters
<1>10. Readings'
  BY ProcsAssumption DEF Inv, Readings, Told, HelperTypeOK, HolderKnows, CoresOwned,
     Starting, Counters, Jump, Return
<1>11. CountersOwn'
  BY DEF Inv, CountersOwn, Counters
<1> QED BY <1>2, <1>3, <1>4, <1>5, <1>6, <1>7, <1>8, <1>9, <1>10, <1>11 DEF Inv

\* The statistics call caches its reading if its session is still the active
\* one.
LEMMA CacheCountersKeeps ==
  ASSUME Inv, NEW c \in Conns, CacheCounters(c) PROVE Inv'
<1>1. HelperTypeOK'
  BY DEF Inv, HelperTypeOK, NoFlags, CacheCounters, Jump, Return
<1>2. PcKinds'
  BY DEF Inv, PcKinds, CacheCounters, Jump, Return
<1>3. LockHeld'
  BY DEF Inv, LockHeld, CacheCounters, Jump, Return
<1>4. Unborn'
  BY DEF Inv, Unborn, CacheCounters, Jump, Return
<1>5. FreshIds'
  BY DEF Inv, FreshIds, CacheCounters, Jump, Return
<1>6. HolderKnows'
  BY DEF Inv, HolderKnows, CacheCounters, Jump, Return
<1>7. CoreStages'
  BY DEF Inv, CoreStages, CacheCounters, Jump, Return
<1>8. CoresOwned'
  BY DEF Inv, CoresOwned, Starting, CacheCounters, Jump, Return
<1>9. Readings'
  BY DEF Inv, Readings, Told, HelperTypeOK, CacheCounters, Jump, Return
<1>10. CountersOwn'
  BY DEF Inv, CountersOwn, Readings, CacheCounters
<1> QED BY <1>1, <1>2, <1>3, <1>4, <1>5, <1>6, <1>7, <1>8, <1>9, <1>10 DEF Inv

\* The watcher of a session sees one of its cores exit.
LEMMA WatchArmKeeps ==
  ASSUME Inv, NEW s \in Sessions, WatchArm(s) PROVE Inv'
<1>1. HelperTypeOK'
  BY DEF Inv, HelperTypeOK, WatchArm, Jump
<1>2. PcKinds'
  BY DEF Inv, PcKinds, WatchArm, Jump
<1>3. LockHeld'
  BY DEF Inv, LockHeld, WatchArm, Jump
<1>4. Unborn'
  BY DEF Inv, Unborn, WatchArm, Jump
<1>5. FreshIds'
  BY DEF Inv, FreshIds, WatchArm, Jump
<1>6. HolderKnows'
  BY DEF Inv, HolderKnows, WatchArm, Jump
<1>7. CoreStages'
  BY DEF Inv, CoreStages, WatchArm, Jump
<1>8. CoresOwned'
  BY DEF Inv, CoresOwned, Starting, WatchArm, Jump
<1>9. Readings'
  BY DEF Inv, Readings, Told, WatchArm, Jump
<1>10. CountersOwn'
  BY DEF Inv, CountersOwn, WatchArm
<1> QED BY <1>1, <1>2, <1>3, <1>4, <1>5, <1>6, <1>7, <1>8, <1>9, <1>10 DEF Inv

\* The watcher takes chainMu and tears its session down, unless it is over.
LEMMA WatchExitKeeps ==
  ASSUME Inv, NEW s \in Sessions, WatchExit(s) PROVE Inv'
<1>1. PICK l \in SessPcs \cup TearPcs : Jump(s, l)
  BY DEF WatchExit, Mine, Tear
<1>2. /\ PcType'
      /\ PcKinds'
  BY <1>1, SessMoves DEF Inv
<1>3. HelperTypeOK'
  BY <1>2 DEF Inv, HelperTypeOK, PcType, WatchExit, Tear
<1>4. LockHeld'
  BY ProcsAssumption DEF Inv, LockHeld, HelperTypeOK, WatchExit, Jump, Mine, Tear
<1>5. Unborn'
  BY SMTT(60) DEF Inv, Unborn, HelperTypeOK, WatchExit, Jump, Mine, Tear
<1>6. FreshIds'
  BY SMTT(60) DEF Inv, FreshIds, HelperTypeOK, WatchExit, Jump, Mine, Tear
<1>7. HolderKnows'
  BY DEF Inv, HolderKnows, HelperTypeOK, WatchExit, Jump, Mine, Tear
<1>8. CoreStages'
  BY DEF Inv, CoreStages, HelperTypeOK, WatchExit, Jump, Mine, Tear
<1>9. CoresOwned'
  BY SMTT(60) DEF Inv, CoresOwned, Starting, HelperTypeOK, WatchExit, Jump, Mine, Tear
<1>10. Readings'
  BY DEF Inv, Readings, Told, HelperTypeOK, WatchExit, Jump, Mine, Tear
<1>11. CountersOwn'
  BY DEF Inv, CountersOwn, WatchExit, Mine, Tear
<1> QED BY <1>2, <1>3, <1>4, <1>5, <1>6, <1>7, <1>8, <1>9, <1>10, <1>11 DEF Inv

\* A teardown kills the cores.
LEMMA TearCoresKeeps ==
  ASSUME Inv, NEW p \in Procs, TearCores(p) PROVE Inv'
<1>1. HelperTypeOK'
  BY DEF Inv, HelperTypeOK, TearCores, Jump
<1>2. PcKinds'
  BY DEF Inv, PcKinds, TearCores, Jump
<1>3. LockHeld'
  BY DEF Inv, LockHeld, TearCores, Jump
<1>4. Unborn'
  BY DEF Inv, Unborn, TearCores, Jump
<1>5. FreshIds'
  BY DEF Inv, FreshIds, TearCores, Jump
<1>6. HolderKnows'
  BY DEF Inv, HolderKnows, TearCores, Jump
<1>7. CoreStages'
  BY DEF Inv, CoreStages, HelperTypeOK, HolderKnows, TearCores, Jump
<1>8. CoresOwned'
  BY DEF Inv, CoresOwned, Starting, TearCores, Jump
<1>9. Readings'
  BY DEF Inv, Readings, Told, TearCores, Jump
<1>10. CountersOwn'
  BY DEF Inv, CountersOwn, TearCores
<1> QED BY <1>1, <1>2, <1>3, <1>4, <1>5, <1>6, <1>7, <1>8, <1>9, <1>10 DEF Inv

\* A teardown ends the session, or leaves it to be torn down again.
LEMMA TearCloseKeeps ==
  ASSUME Inv, NEW p \in Procs, TearClose(p) PROVE Inv'
<1>1. /\ PcType'
      /\ PcKinds'
  <2>1. CASE p \in Conns
    <3>1. Jump(p, "idle")
      BY <2>1 DEF TearClose, Finish, Return
    <3> QED BY <2>1, <3>1, ConnMoves DEF Inv
  <2>2. CASE p \in Sessions
    <3>1. Jump(p, "done")
      BY <2>2, ProcsAssumption DEF TearClose, Finish
    <3> QED BY <2>2, <3>1, SessMoves DEF Inv
  <2>3. CASE p = Sig
    <3>1. Jump(Sig, "cancel")
      BY <2>3, ProcsAssumption DEF TearClose, Finish
    <3> QED BY <3>1, SigMoves DEF Inv
  <2> QED BY <2>1, <2>2, <2>3
<1>2. ReqType'
  BY Returns DEF Inv, HelperTypeOK, TearClose, Finish, ReqType
<1>3. HelperTypeOK'
  BY <1>1, <1>2 DEF Inv, HelperTypeOK, PcType, ReqType, TearClose
<1>4. LockHeld'
  <2>1. CASE p \in Conns /\ Return(p)
    BY <2>1 DEF Inv, LockHeld, HelperTypeOK, TearClose, Jump, Finish, Return
  <2>2. CASE p \notin Conns /\ UNCHANGED reqv
    BY <2>2 DEF Inv, LockHeld, HelperTypeOK, TearClose, Jump, Finish
  <2> QED BY <2>1, <2>2 DEF TearClose, Finish
<1>5. Unborn'
  BY ProcsAssumption DEF Inv, Unborn, HelperTypeOK, TearClose, Jump, Finish, Return
<1>6. FreshIds'
  BY SMTT(60) DEF Inv, FreshIds, HelperTypeOK, HolderKnows, TearClose, Jump, Finish, Return
<1>7. HolderKnows'
  BY SMTT(60) DEF Inv, HolderKnows, HelperTypeOK, LockHeld, FreshIds, CoresOwned,
     CountersOwn, TearClose, Jump, Finish, Return
<1>8. CoreStages'
  BY SMTT(60) DEF Inv, CoreStages, HelperTypeOK, PcKinds, LockHeld, HolderKnows, TearClose,
     Jump, Finish, Return
<1>9. CoresOwned'
  <2>1. core' = core /\ at[p] = "close" /\ (active' = active \/ active' = NoSession)
    BY DEF TearClose
  <2>2. \A k \in Cores : core[active][k] # "up"
    BY <2>1 DEF Inv, CoreStages
  <2>3. \A c \in Conns : c # p => at'[c] = at[c] /\ arg'[c] = arg[c]
    BY DEF Inv, HelperTypeOK, PcType, ReqType, TearClose, Finish, Jump, Return
  <2>4. ASSUME NEW s \in Sessions, Starting(s) PROVE Starting(s)'
    <3>1. PICK c \in Conns : arg[c] = s /\ at[c] \in {"singbox", "xray", "undo", "publish"}
      BY <2>4 DEF Starting
    <3>2. c # p
      BY <2>1, <3>1
    <3> QED BY <2>3, <3>1, <3>2 DEF Starting
  <2>5. ASSUME NEW s \in Sessions, NEW k \in Cores, core'[s][k] = "up"
        PROVE  active' = s \/ Starting(s)'
    <3>1. core[s][k] = "up" /\ s # active
      BY <2>1, <2>2, <2>5
    <3>2. Starting(s)
      BY <3>1 DEF Inv, CoresOwned
    <3> QED BY <2>4, <3>2
  <2> QED BY <2>5 DEF CoresOwned
<1>10. Readings'
  BY ProcsAssumption DEF Inv, Readings, Told, HelperTypeOK, TearClose, Jump, Finish,
     Return
<1>11. CountersOwn'
  BY DEF Inv, CountersOwn, TearClose, Finish
<1> QED BY <1>1, <1>3, <1>4, <1>5, <1>6, <1>7, <1>8, <1>9, <1>10, <1>11 DEF Inv

\* A core exits by itself.
LEMMA CoreExitKeeps ==
  ASSUME Inv, NEW s \in Sessions, NEW k \in Cores, CoreExit(s, k) PROVE Inv'
<1>1. HelperTypeOK'
  BY DEF Inv, HelperTypeOK, CoreExit
<1>2. PcKinds'
  BY DEF Inv, PcKinds, CoreExit
<1>3. LockHeld'
  BY DEF Inv, LockHeld, CoreExit
<1>4. Unborn'
  BY DEF Inv, Unborn, CoreExit
<1>5. FreshIds'
  BY DEF Inv, FreshIds, CoreExit
<1>6. HolderKnows'
  BY DEF Inv, HolderKnows, CoreExit
<1>7. CoreStages'
  BY DEF Inv, CoreStages, CoreExit
<1>8. CoresOwned'
  BY DEF Inv, CoresOwned, Starting, CoreExit
<1>9. Readings'
  BY DEF Inv, Readings, Told, CoreExit
<1>10. CountersOwn'
  BY DEF Inv, CountersOwn, CoreExit
<1> QED BY <1>1, <1>2, <1>3, <1>4, <1>5, <1>6, <1>7, <1>8, <1>9, <1>10 DEF Inv

\* The daemon is told to stop.
LEMMA TerminateKeeps ==
  ASSUME Inv, Terminate PROVE Inv'
<1>1. HelperTypeOK'
  BY DEF Inv, HelperTypeOK, Terminate, Jump
<1>2. PcKinds'
  BY ProcsAssumption DEF Inv, PcKinds, Terminate, Jump
<1>3. LockHeld'
  BY DEF Inv, LockHeld, Terminate, Jump
<1>4. Unborn'
  BY DEF Inv, Unborn, Terminate, Jump
<1>5. FreshIds'
  BY ProcsAssumption DEF Inv, FreshIds, HelperTypeOK, Terminate, Jump
<1>6. HolderKnows'
  BY DEF Inv, HolderKnows, Terminate, Jump
<1>7. CoreStages'
  BY DEF Inv, CoreStages, Terminate, Jump
<1>8. CoresOwned'
  BY DEF Inv, CoresOwned, Starting, Terminate, Jump
<1>9. Readings'
  BY DEF Inv, Readings, Told, Terminate, Jump
<1>10. CountersOwn'
  BY DEF Inv, CountersOwn, Terminate
<1> QED BY <1>1, <1>2, <1>3, <1>4, <1>5, <1>6, <1>7, <1>8, <1>9, <1>10 DEF Inv

\* The signal handler takes chainMu for its teardown.
LEMMA TermLockKeeps ==
  ASSUME Inv, TermLock PROVE Inv'
<1>1. PICK l \in SigPcs \cup TearPcs : Jump(Sig, l)
  BY DEF TermLock, Tear
<1>2. /\ PcType'
      /\ PcKinds'
  BY <1>1, SigMoves DEF Inv
<1>3. HelperTypeOK'
  BY <1>2 DEF Inv, HelperTypeOK, PcType, TermLock, Tear
<1>4. LockHeld'
  BY ProcsAssumption DEF Inv, LockHeld, HelperTypeOK, TermLock, Jump, Tear
<1>5. Unborn'
  BY DEF Inv, Unborn, HelperTypeOK, TermLock, Jump, Tear
<1>6. FreshIds'
  BY DEF Inv, FreshIds, HelperTypeOK, TermLock, Jump, Tear
<1>7. HolderKnows'
  BY DEF Inv, HolderKnows, HelperTypeOK, TermLock, Jump, Tear
<1>8. CoreStages'
  BY DEF Inv, CoreStages, HelperTypeOK, TermLock, Jump, Tear
<1>9. CoresOwned'
  BY ProcsAssumption DEF Inv, CoresOwned, Starting, HelperTypeOK, TermLock, Jump, Tear
<1>10. Readings'
  BY DEF Inv, Readings, Told, HelperTypeOK, TermLock, Jump, Tear
<1>11. CountersOwn'
  BY DEF Inv, CountersOwn, TermLock, Tear
<1> QED BY <1>2, <1>3, <1>4, <1>5, <1>6, <1>7, <1>8, <1>9, <1>10, <1>11 DEF Inv

\* The daemon's process ends.
LEMMA DaemonExitKeeps ==
  ASSUME Inv, DaemonExit PROVE Inv'
<1>1. HelperTypeOK'
  BY DEF Inv, HelperTypeOK, NoFlags, DaemonExit
<1>2. PcKinds'
  BY ProcsAssumption DEF Inv, PcKinds, DaemonExit, Told
<1>3. LockHeld'
  BY DEF Inv, LockHeld, DaemonExit
<1>4. Unborn'
  BY ProcsAssumption DEF Inv, Unborn, DaemonExit
<1>5. FreshIds'
  BY ProcsAssumption DEF Inv, FreshIds, DaemonExit, Told
<1>6. HolderKnows'
  BY DEF Inv, HolderKnows, DaemonExit
<1>7. CoreStages'
  BY DEF Inv, CoreStages, DaemonExit
<1>8. CoresOwned'
  BY DEF Inv, CoresOwned, Starting, DaemonExit
<1>9. Readings'
  BY DEF Inv, Readings, Told, DaemonExit
<1>10. CountersOwn'
  BY DEF Inv, CountersOwn, DaemonExit
<1> QED BY <1>1, <1>2, <1>3, <1>4, <1>5, <1>6, <1>7, <1>8, <1>9, <1>10 DEF Inv

\* A daemon that has just started satisfies the invariant.
LEMMA InvInit == HelperInit => Inv
<1> SUFFICES ASSUME HelperInit PROVE Inv
  OBVIOUS
<1>1. PcType /\ PcKinds
  BY ProcsAssumption DEF HelperInit, PcType, PcKinds
<1>2. ReqType
  BY DEF HelperInit, ReqType, NoFlags
<1>3. HelperTypeOK
  BY <1>1, <1>2 DEF HelperInit, HelperTypeOK, PcType, ReqType
<1>4. LockHeld /\ Unborn /\ FreshIds /\ HolderKnows
  BY ProcsAssumption DEF HelperInit, LockHeld, Unborn, FreshIds, HolderKnows
<1>5. CoreStages /\ CoresOwned /\ Readings /\ CountersOwn
  BY ProcsAssumption DEF HelperInit, CoreStages, CoresOwned, Readings, CountersOwn
<1> QED BY <1>1, <1>3, <1>4, <1>5 DEF Inv

\* Every step keeps the invariant.
LEMMA InvStep == Inv /\ [HelperNext]_helperVars => Inv'
<1> SUFFICES ASSUME Inv, [HelperNext]_helperVars PROVE Inv'
  OBVIOUS
<1>1. CASE UNCHANGED helperVars
  BY <1>1
     DEF helperVars, Inv, HelperTypeOK, PcKinds, LockHeld, Unborn, FreshIds, HolderKnows,
         CoreStages, CoresOwned, Starting, Readings, CountersOwn, Told
<1>2. ASSUME NEW c \in Conns, Request(c) \/ Handler(c) PROVE Inv'
  BY <1>2, RequestKeeps, StartLockKeeps, SpawnSingboxKeeps, SpawnXrayKeeps,
     UndoKeeps, PublishKeeps, StopLockKeeps, TearCoresKeeps, TearCloseKeeps,
     ReadFlagsKeeps, ReadCountersKeeps, DialKeeps, CountersKeeps,
     CacheCountersKeeps DEF Handler
<1>3. ASSUME NEW s \in Sessions, Watcher(s) PROVE Inv'
  BY <1>3, WatchArmKeeps, WatchExitKeeps, TearCoresKeeps, TearCloseKeeps
     DEF Watcher
<1>4. ASSUME NEW s \in Sessions, NEW k \in Cores, CoreExit(s, k) PROVE Inv'
  BY <1>4, CoreExitKeeps
<1>5. CASE Terminate \/ Signalled \/ DaemonExit
  BY <1>5, TerminateKeeps, TermLockKeeps, DaemonExitKeeps, TearCoresKeeps,
     TearCloseKeeps DEF Signalled
<1> QED BY <1>1, <1>2, <1>3, <1>4, <1>5 DEF HelperNext

(***************************************************************************)
(* The theorems.                                                           *)
(***************************************************************************)

\* The invariant holds in every reachable state of the daemon.
THEOREM InvHolds == HelperSpec => []Inv
BY InvInit, InvStep, PTL DEF HelperSpec

\* The fields of the sessions, the mutexes and the handlers' locals hold
\* values of their types.
THEOREM HelperTypeCorrect == HelperSpec => []HelperTypeOK
<1>1. Inv => HelperTypeOK
  BY DEF Inv
<1> QED BY <1>1, InvHolds, PTL

\* No core outlives its session, however starts, stops, watchers, signals
\* and exits interleave.
THEOREM NoOrphanCores == HelperSpec => []CoresOwned
<1>1. Inv => CoresOwned
  BY DEF Inv
<1> QED BY <1>1, InvHolds, PTL

\* No session's cache holds the counters of another session.
THEOREM CachesOwn == HelperSpec => []CountersOwn
<1>1. Inv => CountersOwn
  BY DEF Inv
<1> QED BY <1>1, InvHolds, PTL

\* Processes and counters stay with the session they belong to.
THEOREM SessionsStayApart == HelperSpec => []SessionsApart
<1>1. CoresOwned /\ CountersOwn => SessionsApart
  BY DEF SessionsApart
<1> QED BY <1>1, NoOrphanCores, CachesOwn, PTL

\* A running session is torn down by its own watcher after one of its own
\* cores exited, by a StopChain meant for it, or by SIGTERM.
THEOREM CauseOfTeardown == HelperSpec => TornDownForCause
<1> DEFINE Cause(s) == \/ Exited(s)
                       \/ \E c \in Conns : at[c] = "stop" /\ arg[c] \in {NoSession, s}
                       \/ at[Sig] = "term"
<1>1. ASSUME Inv, [HelperNext]_helperVars, NEW s \in Sessions, ~stopping[s], stopping'[s]
      PROVE  Cause(s)
  <2>1. ASSUME NEW p \in Procs, Tear(p) PROVE s = active
    BY <1>1, <2>1 DEF Inv, HelperTypeOK, Tear
  <2>2. ASSUME NEW c \in Conns, Request(c) \/ Handler(c) PROVE Cause(s)
    <3>1. CASE LockStop(c)
      BY <1>1, <2>1, <3>1 DEF LockStop
    <3>2. CASE ~LockStop(c)
      BY <1>1, <2>2, <3>2
         DEF Handler, Request, StartLock, SpawnSingbox, SpawnXray, Undo,
             Publish, TearCores, TearClose, ReadFlags, ReadCounters, Dial,
             Counters, CacheCounters
    <3> QED BY <3>1, <3>2
  <2>3. ASSUME NEW t \in Sessions, Watcher(t) PROVE Cause(s)
    <3>1. CASE WatchExit(t)
      BY <1>1, <2>1, <3>1 DEF WatchExit, Mine
    <3>2. CASE ~WatchExit(t)
      BY <1>1, <2>3, <3>2 DEF Watcher, WatchArm, TearCores, TearClose
    <3> QED BY <3>1, <3>2
  <2>4. ASSUME NEW t \in Sessions, NEW k \in Cores, CoreExit(t, k) PROVE Cause(s)
    BY <1>1, <2>4 DEF CoreExit
  <2>5. CASE Terminate \/ Signalled
    BY <1>1, <2>5 DEF Terminate, Signalled, TermLock, TearCores, TearClose
  <2>6. CASE DaemonExit \/ UNCHANGED helperVars
    BY <1>1, <2>6 DEF DaemonExit, helperVars
  <2> QED BY <1>1, <2>2, <2>3, <2>4, <2>5, <2>6 DEF HelperNext
<1>2. Inv /\ [HelperNext]_helperVars =>
        [\A s \in Sessions : ~stopping[s] /\ stopping'[s] => Cause(s)]_helperVars
  BY <1>1
<1>3. QED
  BY <1>2, InvHolds, PTL DEF HelperSpec, TornDownForCause

(***************************************************************************)
(* The daemon implements ChainService.                                     *)
(***************************************************************************)
sbar == IF active = NoSession THEN "down"
        ELSE IF stopping[active] THEN "dirty" ELSE "up"
svars == <<active, sbar, Told \ {active}>>

\* A step that moves one process along and leaves the session alone.
LEMMA OtherStep ==
  ASSUME Inv, NEW p \in Procs, NEW l, l # "none", Jump(p, l),
         p \in Sessions => at[p] # "none", UNCHANGED <<active, stopping>>
  PROVE  UNCHANGED svars
<1>1. Told' = Told
  BY DEF Inv, HelperTypeOK, Jump, Told
<1> QED BY <1>1 DEF svars, sbar

\* Entering a teardown is the service's Incomplete, or no news when the
\* session was stopping already.
LEMMA TearStep ==
  ASSUME Inv, NEW p \in Procs, p \in Sessions => at[p] # "none",
         active \in Sessions, Tear(p)
  PROVE  Service!Incomplete \/ UNCHANGED svars
<1>1. Told' = Told
  BY DEF Inv, HelperTypeOK, Tear, Jump, Told
<1>2. active' = active /\ stopping' = [stopping EXCEPT ![active] = TRUE]
  BY DEF Tear
<1>3. active # NoSession /\ sbar' = "dirty"
  BY <1>2, ProcsAssumption DEF Inv, HelperTypeOK, sbar
<1>4. CASE stopping[active]
  BY <1>1, <1>2, <1>3, <1>4 DEF svars, sbar
<1>5. CASE ~stopping[active]
  BY <1>1, <1>2, <1>3, <1>5 DEF Service!Incomplete, sbar
<1> QED BY <1>4, <1>5

\* Publishing a session is the service's Started.
LEMMA PublishStep ==
  ASSUME Inv, NEW c \in Conns, Publish(c) PROVE Service!Started(arg[c])
<1>1. /\ arg[c] \in Sessions /\ at[arg[c]] = "none" /\ ~stopping[arg[c]]
      /\ active = NoSession /\ active' = arg[c] /\ stopping' = stopping
  BY DEF Inv, HelperTypeOK, FreshIds, Unborn, HolderKnows, Publish
<1>2. Told' = Told \cup {arg[c]} /\ arg[c] \notin Told /\ NoSession \notin Told
  BY <1>1, ProcsAssumption DEF Inv, HelperTypeOK, Publish, Told
<1> QED BY <1>1, <1>2, ProcsAssumption DEF Service!Started

\* The end of a teardown is the service's Ended, or nothing.
LEMMA TearCloseStep ==
  ASSUME Inv, NEW p \in Procs, TearClose(p)
  PROVE  Service!Ended \/ UNCHANGED svars
<1>1. active \in Sessions /\ active # NoSession /\ active \in Told
  BY ProcsAssumption DEF Inv, HolderKnows, Unborn, Told, TearClose
<1>2. Told' = Told
  BY ProcsAssumption DEF Inv, HelperTypeOK, PcKinds, TearClose, Finish, Return,
     Jump, Told
<1>3. CASE active' = NoSession
  BY <1>1, <1>2, <1>3, ProcsAssumption DEF Service!Ended, Told
<1>4. CASE active' = active
  BY <1>2, <1>4 DEF TearClose, svars, sbar
<1> QED BY <1>3, <1>4 DEF TearClose

\* The end of the daemon ends the session it may still have.
LEMMA DaemonExitStep ==
  ASSUME Inv, DaemonExit PROVE Service!Ended \/ UNCHANGED svars
<1>1. Told' = Told
  BY ProcsAssumption DEF Inv, HelperTypeOK, DaemonExit, Told
<1>2. CASE active = NoSession
  BY <1>1, <1>2 DEF DaemonExit, svars, sbar
<1>3. CASE active # NoSession
  <2>1. active \in Told
    BY <1>3 DEF Inv, HelperTypeOK, Unborn, Told
  <2> QED BY <1>1, <1>3, <2>1, ProcsAssumption DEF DaemonExit, Service!Ended, Told
<1> QED BY <1>2, <1>3

\* A daemon that has just started offers a service without a session.
LEMMA ServiceInit == HelperInit => Service!Init
BY ProcsAssumption DEF HelperInit, Service!Init, Told

\* Every step of the daemon is a step of the service or a stutter.
LEMMA ServiceStep == Inv /\ [HelperNext]_helperVars => Service!Next \/ UNCHANGED svars
<1> DEFINE Allowed == Service!Next \/ UNCHANGED svars
<1> SUFFICES ASSUME Inv, [HelperNext]_helperVars PROVE Allowed
  OBVIOUS
<1>1. CASE UNCHANGED helperVars
  BY <1>1 DEF helperVars, svars, sbar, Told
<1>2. ASSUME NEW c \in Conns, Request(c) \/ Handler(c) PROVE Allowed
  <2>1. c \in Procs /\ c \notin Sessions
    BY ProcsAssumption
  <2>2. CASE Publish(c)
    <3>1. arg[c] \in Sessions
      BY <2>2 DEF Inv, HelperTypeOK, FreshIds, Publish
    <3> QED BY <2>2, <3>1, PublishStep DEF Service!Next
  <2>3. CASE TearClose(c)
    BY <2>1, <2>3, TearCloseStep DEF Service!Next
  <2>4. CASE LockStop(c)
    <3>1. CASE Return(c) /\ UNCHANGED sessv
      BY <2>1, <3>1, OtherStep DEF Return
    <3>2. CASE active # NoSession /\ Tear(c)
      BY <2>1, <3>2, TearStep DEF Inv, HelperTypeOK, Service!Next
    <3> QED BY <2>4, <3>1, <3>2 DEF LockStop
  <2>5. CASE ~Publish(c) /\ ~TearClose(c) /\ ~LockStop(c)
    <3>1. UNCHANGED <<active, stopping>> /\ \E l \in ConnPcs \cup TearPcs : Jump(c, l)
      BY <1>2, <2>5
         DEF Handler, Request, StartLock, SpawnSingbox, SpawnXray, Undo, Fails,
             Return, TearCores, ReadFlags, ReadCounters, Dial, Counters,
             CacheCounters
    <3> QED BY <2>1, <3>1, OtherStep
  <2> QED BY <2>2, <2>3, <2>4, <2>5
<1>3. ASSUME NEW s \in Sessions, Watcher(s) PROVE Allowed
  <2>1. s \in Procs /\ at[s] # "none"
    BY <1>3 DEF Watcher, WatchArm, WatchExit, TearCores, TearClose
  <2>2. CASE TearClose(s)
    BY <2>1, <2>2, TearCloseStep DEF Service!Next
  <2>3. CASE WatchExit(s)
    <3>1. CASE Jump(s, "done") /\ UNCHANGED sessv
      BY <2>1, <3>1, OtherStep
    <3>2. CASE Mine(s) /\ Tear(s)
      BY <2>1, <3>2, TearStep DEF Mine, Service!Next
    <3> QED BY <2>3, <3>1, <3>2 DEF WatchExit
  <2>4. CASE WatchArm(s) \/ TearCores(s)
    <3>1. UNCHANGED <<active, stopping>> /\ \E l \in SessPcs \cup TearPcs :
                                              l # "none" /\ Jump(s, l)
      BY <2>4 DEF WatchArm, TearCores
    <3> QED BY <2>1, <3>1, OtherStep
  <2> QED BY <1>3, <2>2, <2>3, <2>4 DEF Watcher
<1>4. ASSUME NEW s \in Sessions, NEW k \in Cores, CoreExit(s, k) PROVE Allowed
  BY <1>4 DEF CoreExit, svars, sbar, Told
<1>5. CASE Terminate \/ Signalled
  <2>1. Sig \in Procs /\ Sig \notin Sessions
    BY ProcsAssumption
  <2>2. CASE TearClose(Sig)
    BY <2>1, <2>2, TearCloseStep DEF Service!Next
  <2>3. CASE TermLock /\ active # NoSession
    BY <2>1, <2>3, TearStep DEF Inv, HelperTypeOK, TermLock, Service!Next
  <2>4. CASE Terminate \/ (TermLock /\ active = NoSession) \/ TearCores(Sig)
    <3>1. UNCHANGED <<active, stopping>> /\ \E l \in SigPcs \cup TearPcs :
                                              l # "none" /\ Jump(Sig, l)
      BY <2>4 DEF Terminate, TermLock, TearCores
    <3> QED BY <2>1, <3>1, OtherStep
  <2> QED BY <1>5, <2>2, <2>3, <2>4 DEF Signalled
<1>6. CASE DaemonExit
  BY <1>6, DaemonExitStep DEF Service!Next
<1> QED BY <1>1, <1>2, <1>3, <1>4, <1>5, <1>6 DEF HelperNext

\* The daemon implements ChainService: what the controller is told of the
\* helper's session is a behaviour of the abstract service.
THEOREM ImplementsService == HelperSpec => ServiceSpec
<1>1. Inv /\ [HelperNext]_helperVars =>
        [Service!Next]_<<active, IF active = NoSession THEN "down"
                                 ELSE IF stopping[active] THEN "dirty" ELSE "up",
                         Told \ {active}>>
  BY ServiceStep DEF svars, sbar
<1> QED BY <1>1, ServiceInit, InvHolds, PTL DEF HelperSpec, ServiceSpec, Service!Spec

(***************************************************************************)
(* ServiceStatus reads the two flags in two critical sections.             *)
(***************************************************************************)
\* What a call that has read no flag, one or both knows: a first flag that
\* says no was read after the session ended, or before it will have.
CallSaw(c) ==
  /\ InCall(c) => State \in seen[c]
  /\ at[c] = "pending" =>
       IF rep[c].active THEN "up" \in seen[c] ELSE "down" \in seen[c] \/ State = "dirty"
  /\ at[c] = "count" => Answered(c) \in seen[c]
Saw == \A c \in Conns : CallSaw(c)

\* A session whose cleanup is incomplete ends before another one is up.
LEMMA DirtyEnds ==
  ASSUME Inv, [HelperNext]_helperVars, State = "dirty" PROVE State' \in {"dirty", "down"}
<1>1. State = sbar /\ State' = sbar'
  BY DEF State, sbar
<1>2. Service!Next \/ UNCHANGED svars
  BY ServiceStep
<1>3. CASE Service!Next
  BY <1>1, <1>3 DEF Service!Next, Service!Started, Service!Ended, Service!Incomplete, sbar
<1>4. CASE UNCHANGED svars
  BY <1>1, <1>4 DEF svars
<1> QED BY <1>2, <1>3, <1>4

\* How a call comes to have read one flag, and both: nobody else touches what
\* it has read.
Reads(c) ==
  /\ at'[c] = "pending" =>
       \/ at[c] = "pending" /\ rep'[c] = rep[c]
       \/ at[c] = "alive" /\ State' = State /\ rep'[c].active = (State = "up")
  /\ at'[c] = "count" =>
       \/ at[c] = "count" /\ rep'[c] = rep[c]
       \/ /\ at[c] = "pending" /\ State' = State
          /\ rep'[c].active = rep[c].active /\ rep'[c].pending = (State = "dirty")

LEMMA FlagsRead ==
  ASSUME Inv, NEW c \in Conns, ReadFlags(c) PROVE Reads(c)
<1>1. /\ UNCHANGED <<active, stopping>> /\ State' = State
      /\ active \in Sessions \cup {NoSession} /\ stopping \in [Sessions -> BOOLEAN]
      /\ at \in [Procs -> ConnPcs \cup TearPcs \cup SessPcs \cup SigPcs]
      /\ rep \in [Conns -> [active: BOOLEAN, pending: BOOLEAN, of: Sessions \cup {NoSession}]]
  BY DEF ReadFlags, State, Inv, HelperTypeOK
<1>2. /\ (State = "up") = (active # NoSession /\ ~stopping[active])
      /\ (State = "dirty") = (active # NoSession /\ stopping[active])
  BY <1>1 DEF State
<1>3. CASE /\ at[c] = "alive" /\ Jump(c, "pending")
           /\ rep' = [rep EXCEPT ![c].active = active # NoSession /\ ~stopping[active]]
  <2>1. at'[c] = "pending" /\ rep'[c].active = (active # NoSession /\ ~stopping[active])
    BY <1>1, <1>3 DEF Jump
  <2> QED BY <1>1, <1>2, <1>3, <2>1 DEF Reads
<1>4. CASE /\ at[c] = "pending" /\ Jump(c, "count")
           /\ rep' = [rep EXCEPT ![c].pending = active # NoSession /\ stopping[active]]
  <2>1. /\ at'[c] = "count" /\ rep'[c].pending = (active # NoSession /\ stopping[active])
        /\ rep'[c].active = rep[c].active
    BY <1>1, <1>4 DEF Jump
  <2> QED BY <1>1, <1>2, <1>4, <2>1 DEF Reads
<1> QED BY <1>3, <1>4 DEF ReadFlags

\* A step that leaves the call where it is, or ends it, keeps what it has read.
LEMMA ReadsRest ==
  ASSUME NEW c \in Conns,
         \/ at'[c] = at[c] /\ rep'[c] = rep[c]
         \/ at'[c] \notin {"pending", "count"}
  PROVE  Reads(c)
BY DEF Reads

LEMMA ReadsStep ==
  ASSUME Inv, [HelperNext]_helperVars, NEW c \in Conns PROVE Reads(c)
<1> DEFINE Rest == \/ at'[c] = at[c] /\ rep'[c] = rep[c]
                   \/ at'[c] \notin {"pending", "count"}
<1>0. /\ at \in [Procs -> ConnPcs \cup TearPcs \cup SessPcs \cup SigPcs]
      /\ rep \in [Conns -> [active: BOOLEAN, pending: BOOLEAN, of: Sessions \cup {NoSession}]]
      /\ c \in Procs /\ c \notin Sessions /\ c # Sig
  BY ProcsAssumption DEF Inv, HelperTypeOK
<1>1. ASSUME NEW d \in Conns, Request(d) \/ Handler(d) PROVE Reads(c)
  <2>1. CASE ReadFlags(d)
    <3>1. CASE d = c
      BY <2>1, <3>1, FlagsRead
    <3>2. CASE d # c
      <4>1. at'[c] = at[c] /\ rep'[c] = rep[c]
        BY <1>0, <2>1, <3>2 DEF ReadFlags, Jump
      <4> QED BY <4>1, ReadsRest
    <3> QED BY <3>1, <3>2
  <2>2. CASE Publish(d)
    <3>1. arg[d] \in Sessions
      BY <2>2 DEF Inv, HelperTypeOK, FreshIds, Publish
    <3>2. Rest
      BY <1>0, <2>2, <3>1 DEF Publish
    <3> QED BY <3>2, ReadsRest
  <2>3. CASE ~ReadFlags(d) /\ ~Publish(d)
    <3>1. \E l \in (ConnPcs \cup TearPcs) \ {"pending", "count"} : Jump(d, l)
      BY <1>1, <2>3 DEF Handler, Request, StartLock, SpawnSingbox, SpawnXray, Undo, Fails,
             Return, TearCores, TearClose, Finish, LockStop, Tear, ReadCounters, Dial,
             Counters, CacheCounters
    <3>2. d # c => at'[c] = at[c]
      BY <1>0, <3>1 DEF Jump
    <3>3. d = c => at'[c] \notin {"pending", "count"}
      BY <1>0, <3>1 DEF Jump
    <3>4. d # c => rep'[c] = rep[c]
      BY <1>0, <1>1, <2>3 DEF Handler, Request, StartLock, SpawnSingbox, SpawnXray, Undo, Fails,
             Return, TearCores, TearClose, Finish, LockStop, Tear, ReadCounters, Dial,
             Counters, CacheCounters
    <3> QED BY <3>2, <3>3, <3>4, ReadsRest
  <2> QED BY <2>1, <2>2, <2>3
<1>2. ASSUME NEW p \in Sessions \cup {Sig},
             \/ WatchArm(p) \/ WatchExit(p) \/ TearCores(p) \/ TearClose(p)
             \/ p = Sig /\ (TermLock \/ Terminate)
      PROVE  Reads(c)
  <2>1. p \notin Conns /\ p # c
    BY <1>0, ProcsAssumption
  <2>2. UNCHANGED rep /\ \E l \in {"wait", "done", "cores", "close", "term", "cancel"} : Jump(p, l)
    <3>1. CASE WatchArm(p) \/ WatchExit(p) \/ TearCores(p)
      BY <3>1 DEF WatchArm, WatchExit, TearCores, Tear
    <3>2. CASE TearClose(p)
      BY <2>1, <3>2 DEF TearClose, Finish
    <3>3. CASE p = Sig /\ (TermLock \/ Terminate)
      BY <3>3 DEF TermLock, Terminate, Tear
    <3> QED BY <1>2, <3>1, <3>2, <3>3
  <2>3. at'[c] = at[c] /\ rep'[c] = rep[c]
    BY <1>0, <2>1, <2>2 DEF Jump
  <2> QED BY <2>3, ReadsRest
<1>3. ASSUME NEW s \in Sessions, NEW k \in Cores, CoreExit(s, k) PROVE Reads(c)
  BY <1>3, ReadsRest DEF CoreExit
<1>4. CASE DaemonExit
  <2>1. at'[c] = "idle"
    BY <1>0, <1>4 DEF DaemonExit
  <2> QED BY <2>1, ReadsRest
<1>5. CASE UNCHANGED helperVars
  BY <1>5, ReadsRest DEF helperVars
<1> QED BY <1>1, <1>2, <1>3, <1>4, <1>5 DEF HelperNext, Signalled, Watcher

\* Every step keeps Saw.
LEMMA SawStep == ASSUME Inv, Saw, [StatusNext]_<<helperVars, seen>> PROVE Saw'
<1>1. CASE UNCHANGED <<helperVars, seen>>
  BY <1>1 DEF helperVars, Saw, CallSaw, InCall, State, Answered
<1>2. CASE StatusNext
  <2> SUFFICES ASSUME NEW c \in Conns PROVE CallSaw(c)'
    BY DEF Saw
  <2>1. CallSaw(c) /\ Reads(c)
    BY <1>2, ReadsStep DEF Saw, StatusNext
  <2>2. State \in {"down", "up", "dirty"} /\ State' \in {"down", "up", "dirty"}
    BY DEF State
  <2>3. InCall(c)' <=> at'[c] \in {"alive", "pending"}
    BY DEF InCall
  <2>4. /\ InCall(c) => seen'[c] = seen[c] \cup {State'}
        /\ ~InCall(c) /\ InCall(c)' => seen'[c] = {State'}
        /\ ~InCall(c) /\ ~InCall(c)' /\ at'[c] = "count" => seen'[c] = seen[c]
    <3>1. seen'[c] = CASE ~InCall(c) /\ InCall(c)' -> {State'}
                       [] InCall(c) -> seen[c] \cup {State'}
                       [] ~InCall(c) /\ at'[c] = "count" -> seen[c]
                       [] OTHER -> {}
      BY <1>2, Zenon DEF StatusNext
    <3>2. CASE InCall(c)
      BY <3>1, <3>2
    <3>3. CASE ~InCall(c) /\ InCall(c)'
      BY <3>1, <3>3, <2>3
    <3>4. CASE ~InCall(c) /\ ~InCall(c)'
      BY <3>1, <3>4
    <3> QED BY <3>2, <3>3, <3>4
  <2>5. State = "dirty" => State' \in {"dirty", "down"}
    BY <1>2, DirtyEnds DEF StatusNext
  <2>6. (InCall(c) => State \in seen[c])'
    BY <2>4
  <2>7. ASSUME at'[c] = "pending"
        PROVE  IF rep'[c].active THEN "up" \in seen'[c]
               ELSE "down" \in seen'[c] \/ State' = "dirty"
    <3>1. InCall(c) /\ seen'[c] = seen[c] \cup {State'}
      BY <2>1, <2>4, <2>7 DEF Reads, InCall
    <3>2. CASE at[c] = "pending" /\ rep'[c] = rep[c]
      BY <2>1, <2>5, <3>1, <3>2 DEF CallSaw
    <3>3. CASE at[c] = "alive" /\ State' = State /\ rep'[c].active = (State = "up")
      BY <2>2, <3>1, <3>3
    <3> QED BY <2>1, <2>7, <3>2, <3>3 DEF Reads
  <2>8. ASSUME at'[c] = "count" PROVE Answered(c)' \in seen'[c]
    <3>1. CASE at[c] = "count" /\ rep'[c] = rep[c]
      <4>1. Answered(c)' = Answered(c) /\ seen'[c] = seen[c]
        BY <2>3, <2>4, <2>8, <3>1 DEF Answered, InCall
      <4> QED BY <2>1, <3>1, <4>1 DEF CallSaw
    <3>2. CASE /\ at[c] = "pending" /\ State' = State
               /\ rep'[c].active = rep[c].active /\ rep'[c].pending = (State = "dirty")
      <4>1. seen'[c] = seen[c] \cup {State} /\ State \in seen[c]
        BY <2>1, <2>4, <3>2 DEF InCall, CallSaw
      <4>2. Answered(c)' = IF State = "dirty" THEN "dirty"
                           ELSE IF rep[c].active THEN "up" ELSE "down"
        BY <3>2 DEF Answered
      <4> QED BY <2>1, <2>2, <3>2, <4>1, <4>2 DEF CallSaw
    <3> QED BY <2>1, <2>8, <3>1, <3>2 DEF Reads
  <2> QED BY <2>6, <2>7, <2>8 DEF CallSaw
<1> QED BY <1>1, <1>2

\* The two flags of an answer tell together a state that the helper was in
\* during the call, for any number of connections that start and stop chains
\* meanwhile: no drop is made up and no incomplete cleanup is reported as a
\* clean stop (IsChainActive and IsCleanupPending, each under chainMu).
THEOREM FlagsAreTrue == StatusSpec => []StatusTruthful
<1>1. StatusInit => Inv /\ Saw
  <2>1. StatusInit => Inv
    BY InvInit DEF StatusInit
  <2>2. StatusInit => \A c \in Conns : at[c] = "idle"
    BY DEF StatusInit, HelperInit
  <2> QED BY <2>1, <2>2 DEF Saw, CallSaw, InCall
<1>2. Inv /\ Saw /\ [StatusNext]_<<helperVars, seen>> => Inv' /\ Saw'
  <2>1. [StatusNext]_<<helperVars, seen>> => [HelperNext]_helperVars
    BY DEF StatusNext
  <2> QED BY <2>1, InvStep, SawStep
<1>3. Saw => StatusTruthful
  BY DEF Saw, CallSaw, StatusTruthful
<1> QED BY <1>1, <1>2, <1>3, PTL DEF StatusSpec
=============================================================================
