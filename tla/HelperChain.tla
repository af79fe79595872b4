---------------------------- MODULE HelperChain ----------------------------
(***************************************************************************)
(* The helper daemon of Linux (internal/helper/server/chain_linux.go): the *)
(* one chain session, its two cores, the handlers of StartChain, StopChain *)
(* and ServiceStatus on each connection, the watcher goroutine of every    *)
(* session and the teardown on SIGTERM.                                    *)
(*                                                                         *)
(* chainMu is mu.  StartChain and the teardown hold it over several steps, *)
(* so that a core may exit and a statistics call may run between them; the *)
(* other critical sections are one step each.  A connection serves its     *)
(* requests one at a time; the watcher of session s is the process s.      *)
(***************************************************************************)
CONSTANTS
  Conns,      \* connections being served
  Sessions,   \* session ids that may be drawn; bounds the StartChain requests
  Sig,        \* the goroutine that waits for SIGTERM
  Nobody,     \* a mutex that is free
  NoSession   \* activeSess = nil; the empty session id of a StopChain

Procs == Conns \cup Sessions \cup {Sig}

ASSUME ProcsAssumption ==
  /\ Conns \cap Sessions = {}
  /\ Sig \notin Conns \cup Sessions
  /\ Nobody \notin Procs
  /\ NoSession \notin Sessions

Cores == {"singbox", "xray"}

VARIABLES
  mu,        \* who holds chainMu
  active,    \* activeSess
  stopping,  \* per session: chainState.stopping
  api,       \* per session: chainState.xrayAPI is not nil
  cached,    \* per session: whose counters its cache holds
  core,      \* per session and core: the process
  conn,      \* per session: its statistics client has a connection
  rpc,       \* per session: who is inside its statistics client
  at, arg,   \* the processes, and the session a connection's request is about
  rep,       \* what a connection's ServiceStatus has read: the two flags, and
             \* the session whose xray answered with the counters
  used       \* the session ids drawn so far

sessv == <<active, stopping, api, cached>>
stats == <<conn, rpc>>
reqv  == <<arg, rep>>
helperVars  == <<mu, sessv, core, stats, at, reqv, used>>

ConnPcs == {"idle", "start", "singbox", "xray", "undo", "publish", "stop",
            "alive", "pending", "count", "dial", "ask", "cache"}
TearPcs == {"cores", "close"}
SessPcs == {"none", "arm", "wait", "done"}
SigPcs  == {"none", "term", "cancel"}

HelperTypeOK ==
  /\ mu \in Procs \cup {Nobody}
  /\ active \in Sessions \cup {NoSession}
  /\ stopping \in [Sessions -> BOOLEAN]
  /\ api \in [Sessions -> BOOLEAN]
  /\ cached \in [Sessions -> Sessions \cup {NoSession}]
  /\ core \in [Sessions -> [Cores -> {"none", "up", "exited"}]]
  /\ conn \in [Sessions -> BOOLEAN]
  /\ rpc \in [Sessions -> Conns \cup {Nobody}]
  /\ at \in [Procs -> ConnPcs \cup TearPcs \cup SessPcs \cup SigPcs]
  /\ arg \in [Conns -> Sessions \cup {NoSession}]
  /\ rep \in [Conns -> [active: BOOLEAN, pending: BOOLEAN,
                     of: Sessions \cup {NoSession}]]
  /\ used \subseteq Sessions

NoFlags == [active |-> FALSE, pending |-> FALSE, of |-> NoSession]

HelperInit ==
  /\ mu = Nobody /\ active = NoSession
  /\ stopping = [s \in Sessions |-> FALSE]
  /\ api = [s \in Sessions |-> FALSE]
  /\ cached = [s \in Sessions |-> NoSession]
  /\ core = [s \in Sessions |-> [k \in Cores |-> "none"]]
  /\ conn = [s \in Sessions |-> FALSE]
  /\ rpc = [s \in Sessions |-> Nobody]
  /\ at = [p \in Procs |-> IF p \in Conns THEN "idle" ELSE "none"]
  /\ arg = [c \in Conns |-> NoSession]
  /\ rep = [c \in Conns |-> NoFlags]
  /\ used = {}

Jump(p, l) == at' = [at EXCEPT ![p] = l]

\* A handler returns: its locals are gone.
Return(c) ==
  /\ Jump(c, "idle")
  /\ arg' = [arg EXCEPT ![c] = NoSession]
  /\ rep' = [rep EXCEPT ![c] = NoFlags]

\* A process whose teardown is over.
Finish(p) ==
  IF p \in Conns THEN Return(p)
                 ELSE /\ Jump(p, IF p = Sig THEN "cancel" ELSE "done")
                      /\ UNCHANGED reqv

Exited(s) == \E k \in Cores : core[s][k] = "exited"

\* The session ids a caller can know: those of sessions that were running.
Told == {s \in Sessions : at[s] # "none"}

(***************************************************************************)
(* A request arrives.  newSessionID is random, so it is drawn here.        *)
(***************************************************************************)
Request(c) ==
  /\ at[c] = "idle"
  /\ \/ \E s \in Sessions \ used :
          /\ arg' = [arg EXCEPT ![c] = s] /\ used' = used \cup {s}
          /\ Jump(c, "start")
     \/ \E s \in Told \cup {NoSession} :
          /\ arg' = [arg EXCEPT ![c] = s] /\ UNCHANGED used
          /\ Jump(c, "stop")
     \/ Jump(c, "alive") /\ UNCHANGED <<arg, used>>
  /\ UNCHANGED <<mu, sessv, core, stats, rep>>

(***************************************************************************)
(* StartChain, under chainMu to its end.                                   *)
(***************************************************************************)
\* Variant: a session whose cleanup is incomplete makes room for the next.
StartLockDirty(c) ==
  /\ at[c] = "start" /\ mu = Nobody
  /\ IF active # NoSession /\ ~stopping[active]
       THEN Return(c) /\ UNCHANGED mu
       ELSE Jump(c, "singbox") /\ mu' = c /\ UNCHANGED reqv
  /\ UNCHANGED <<sessv, core, stats, used>>

\* A session that is there, in whatever state, refuses a second one.
StartLock(c) ==
  /\ at[c] = "start" /\ mu = Nobody
  /\ IF active # NoSession
       THEN Return(c) /\ UNCHANGED mu
       ELSE Jump(c, "singbox") /\ mu' = c /\ UNCHANGED reqv
  /\ UNCHANGED <<sessv, core, stats, used>>

Fails(c) == Return(c) /\ mu' = Nobody

\* The runtime directory, the two configs and the sing-box process: nothing
\* is left behind when one of them fails.
SpawnSingbox(c) ==
  /\ at[c] = "singbox"
  /\ \/ /\ core' = [core EXCEPT ![arg[c]]["singbox"] = "up"]
        /\ Jump(c, "xray") /\ UNCHANGED <<mu, reqv>>
     \/ Fails(c) /\ UNCHANGED core
  /\ UNCHANGED <<sessv, stats, used>>

\* Variant: a failed xray start returns without the rollback.
SpawnXrayNoUndo(c) ==
  /\ at[c] = "xray"
  /\ \/ /\ core' = [core EXCEPT ![arg[c]]["xray"] = "up"]
        /\ Jump(c, "publish") /\ UNCHANGED <<mu, reqv>>
     \/ Fails(c) /\ UNCHANGED core
  /\ UNCHANGED <<sessv, stats, used>>

SpawnXray(c) ==
  /\ at[c] = "xray"
  /\ \/ /\ core' = [core EXCEPT ![arg[c]]["xray"] = "up"]
        /\ Jump(c, "publish")
     \/ Jump(c, "undo") /\ UNCHANGED core
  /\ UNCHANGED <<mu, sessv, stats, reqv, used>>

\* Child.Stop returns once the process has exited, by itself or killed.
Undo(c) ==
  /\ at[c] = "undo"
  /\ core' = [core EXCEPT ![arg[c]]["singbox"] = "exited"]
  /\ Fails(c)
  /\ UNCHANGED <<sessv, stats, used>>

\* The session becomes the active one and its watcher is launched.
Publish(c) ==
  /\ at[c] = "publish"
  /\ active' = arg[c]
  /\ api' = [api EXCEPT ![arg[c]] = TRUE]
  /\ at' = [at EXCEPT ![c] = "idle", ![arg[c]] = "arm"]
  /\ arg' = [arg EXCEPT ![c] = NoSession]
  /\ mu' = Nobody
  /\ UNCHANGED <<stopping, cached, core, stats, rep, used>>

(***************************************************************************)
(* The teardown, stopActiveChainLocked, run by whoever holds chainMu.      *)
(***************************************************************************)
Tear(p) ==
  /\ mu' = p
  /\ stopping' = [stopping EXCEPT ![active] = TRUE]
  /\ Jump(p, "cores")
  /\ UNCHANGED <<active, api, cached>>

\* stopBoth: the cores that a first teardown stopped are nil in a second.
TearCores(p) ==
  /\ at[p] = "cores"
  /\ core' = [core EXCEPT ![active] = [k \in Cores |-> "exited"]]
  /\ Jump(p, "close")
  /\ UNCHANGED <<mu, sessv, stats, reqv, used>>

\* xrayAPI.Close waits for the call that is inside the client.  Its error
\* keeps the session, without a client, for the next teardown.
TearClose(p) ==
  /\ at[p] = "close"
  /\ api[active] => rpc[active] = Nobody
  /\ \/ active' = NoSession
     \/ api[active] /\ conn[active] /\ UNCHANGED active
  /\ api' = [api EXCEPT ![active] = FALSE]
  /\ conn' = [conn EXCEPT ![active] = conn[active] /\ ~api[active]]
  /\ mu' = Nobody
  /\ Finish(p)
  /\ UNCHANGED <<stopping, cached, core, rpc, used>>

LockStop(c) ==
  /\ at[c] = "stop" /\ mu = Nobody
  /\ IF active = NoSession \/ arg[c] \notin {NoSession, active}
       THEN Return(c) /\ UNCHANGED <<mu, sessv>>
       ELSE Tear(c) /\ UNCHANGED reqv
  /\ UNCHANGED <<core, stats, used>>

(***************************************************************************)
(* watchChainExit.                                                         *)
(***************************************************************************)
Mine(s) == active = s /\ ~stopping[s]

WatchArm(s) ==
  /\ at[s] = "arm" /\ mu = Nobody
  /\ Jump(s, IF Mine(s) THEN "wait" ELSE "done")
  /\ UNCHANGED <<mu, sessv, core, stats, reqv, used>>

\* Variant: the watcher trusts that the session it finds is its own.
WatchExitAny(s) ==
  /\ at[s] = "wait" /\ Exited(s) /\ mu = Nobody
  /\ IF active # NoSession THEN Tear(s)
                           ELSE Jump(s, "done") /\ UNCHANGED <<mu, sessv>>
  /\ UNCHANGED <<core, stats, reqv, used>>

\* Variant: the watcher waits for sing-box alone.
WatchExitSingbox(s) ==
  /\ at[s] = "wait" /\ core[s]["singbox"] = "exited" /\ mu = Nobody
  /\ IF Mine(s) THEN Tear(s) ELSE Jump(s, "done") /\ UNCHANGED <<mu, sessv>>
  /\ UNCHANGED <<core, stats, reqv, used>>

\* A core has exited and the watcher has chainMu again: the session may be
\* torn down, or another one, by now.
WatchExit(s) ==
  /\ at[s] = "wait" /\ Exited(s) /\ mu = Nobody
  /\ IF Mine(s) THEN Tear(s) ELSE Jump(s, "done") /\ UNCHANGED <<mu, sessv>>
  /\ UNCHANGED <<core, stats, reqv, used>>

(***************************************************************************)
(* ServiceStatus: three critical sections with a call between them.        *)
(***************************************************************************)
\* Variant: the two flags are read in the other order.
ReadFlagsSwapped(c) ==
  /\ mu = Nobody
  /\ \/ /\ at[c] = "alive" /\ Jump(c, "pending")
        /\ rep' = [rep EXCEPT ![c].pending = active # NoSession /\ stopping[active]]
     \/ /\ at[c] = "pending" /\ Jump(c, "count")
        /\ rep' = [rep EXCEPT ![c].active = active # NoSession /\ ~stopping[active]]
  /\ UNCHANGED <<mu, sessv, core, stats, arg, used>>

\* IsChainActive, then IsCleanupPending, each under chainMu.
ReadFlags(c) ==
  /\ mu = Nobody
  /\ \/ /\ at[c] = "alive" /\ Jump(c, "pending")
        /\ rep' = [rep EXCEPT ![c].active = active # NoSession /\ ~stopping[active]]
     \/ /\ at[c] = "pending" /\ Jump(c, "count")
        /\ rep' = [rep EXCEPT ![c].pending = active # NoSession /\ stopping[active]]
  /\ UNCHANGED <<mu, sessv, core, stats, arg, used>>

\* readChainCounters takes the session's client along and unlocks.
ReadCounters(c) ==
  /\ at[c] = "count" /\ mu = Nobody
  /\ IF active = NoSession \/ stopping[active] \/ ~api[active]
       THEN Return(c)
       ELSE Jump(c, "dial") /\ arg' = [arg EXCEPT ![c] = active] /\ UNCHANGED rep
  /\ UNCHANGED <<mu, sessv, core, stats, used>>

\* Client.Counters takes the client's own mutex and dials if it must, also
\* a client that was closed after it was taken along.
Dial(c) ==
  /\ at[c] = "dial" /\ rpc[arg[c]] = Nobody
  /\ rpc' = [rpc EXCEPT ![arg[c]] = c]
  /\ conn' = [conn EXCEPT ![arg[c]] = TRUE]
  /\ Jump(c, "ask")
  /\ UNCHANGED <<mu, sessv, core, reqv, used>>

\* Variant: without its deadline the call waits for an xray that answers.
CountersNoDeadline(c) ==
  /\ at[c] = "ask"
  /\ \E s \in Sessions : /\ core[s]["xray"] = "up"
                         /\ rep' = [rep EXCEPT ![c].of = s]
  /\ Jump(c, "cache") /\ UNCHANGED conn
  /\ rpc' = [rpc EXCEPT ![arg[c]] = Nobody]
  /\ UNCHANGED <<mu, sessv, core, arg, used>>

\* Every xray listens on the same port, so the one that answers need not be
\* the client's.  An error, the deadline's included, drops the connection.
Counters(c) ==
  /\ at[c] = "ask"
  /\ \/ /\ \E s \in Sessions : /\ core[s]["xray"] = "up"
                               /\ rep' = [rep EXCEPT ![c].of = s]
        /\ Jump(c, "cache") /\ UNCHANGED <<conn, arg>>
     \/ /\ Return(c)
        /\ conn' = [conn EXCEPT ![arg[c]] = FALSE]
  /\ rpc' = [rpc EXCEPT ![arg[c]] = Nobody]
  /\ UNCHANGED <<mu, sessv, core, used>>

\* Variant: the reading goes into whatever session is active.
CacheCountersAny(c) ==
  /\ at[c] = "cache" /\ mu = Nobody
  /\ cached' = IF active = NoSession THEN cached
                                     ELSE [cached EXCEPT ![active] = rep[c].of]
  /\ Return(c)
  /\ UNCHANGED <<mu, active, stopping, api, core, stats, used>>

CacheCounters(c) ==
  /\ at[c] = "cache" /\ mu = Nobody
  /\ cached' = IF active = arg[c] THEN [cached EXCEPT ![active] = rep[c].of]
                                  ELSE cached
  /\ Return(c)
  /\ UNCHANGED <<mu, active, stopping, api, core, stats, used>>

(***************************************************************************)
(* The world around the daemon.                                            *)
(***************************************************************************)
CoreExit(s, k) ==
  /\ core[s][k] = "up"
  /\ core' = [core EXCEPT ![s][k] = "exited"]
  /\ UNCHANGED <<mu, sessv, stats, at, reqv, used>>

Terminate ==
  /\ at[Sig] = "none"
  /\ Jump(Sig, "term")
  /\ UNCHANGED <<mu, sessv, core, stats, reqv, used>>

\* StopActiveChain, then cancel(), which ends the listener and the process.
TermLock ==
  /\ at[Sig] = "term" /\ mu = Nobody
  /\ IF active = NoSession THEN Jump(Sig, "cancel") /\ UNCHANGED <<mu, sessv>>
                           ELSE Tear(Sig)
  /\ UNCHANGED <<core, stats, reqv, used>>

\* The process ends, killed at any moment or after SIGTERM; systemd ends the
\* cores that are left in its control group, and starts it again.
DaemonExit ==
  /\ mu' = Nobody /\ active' = NoSession
  /\ stopping' = [s \in Sessions |-> FALSE]
  /\ api' = [s \in Sessions |-> FALSE]
  /\ cached' = [s \in Sessions |-> NoSession]
  /\ core' = [s \in Sessions |-> [k \in Cores |->
                IF core[s][k] = "up" THEN "exited" ELSE core[s][k]]]
  /\ conn' = [s \in Sessions |-> FALSE]
  /\ rpc' = [s \in Sessions |-> Nobody]
  /\ at' = [p \in Procs |-> IF p \in Conns THEN "idle"
                            ELSE IF p \in Told THEN "done" ELSE "none"]
  /\ arg' = [c \in Conns |-> NoSession]
  /\ rep' = [c \in Conns |-> NoFlags]
  /\ UNCHANGED used

Handler(c) ==
  \/ StartLock(c) \/ SpawnSingbox(c) \/ SpawnXray(c) \/ Undo(c) \/ Publish(c)
  \/ LockStop(c) \/ TearCores(c) \/ TearClose(c)
  \/ ReadFlags(c) \/ ReadCounters(c) \/ Dial(c) \/ Counters(c) \/ CacheCounters(c)

Watcher(s) == WatchArm(s) \/ WatchExit(s) \/ TearCores(s) \/ TearClose(s)

Signalled == TermLock \/ TearCores(Sig) \/ TearClose(Sig)

HelperNext ==
  \/ \E c \in Conns : Request(c) \/ Handler(c)
  \/ \E s \in Sessions : Watcher(s) \/ (\E k \in Cores : CoreExit(s, k))
  \/ Terminate \/ Signalled \/ DaemonExit

HelperSpec == HelperInit /\ [][HelperNext]_helperVars

\* The daemon's goroutines keep running and its mutexes are fair (a waiter
\* of a Go mutex is not overtaken for ever); a statistics call ends by its
\* deadline.  Requests, exits of cores and signals need not happen.
HelperFairness ==
  /\ \A c \in Conns : SF_helperVars(Handler(c))
  /\ \A s \in Sessions : SF_helperVars(Watcher(s))
  /\ SF_helperVars(Signalled)

HelperFairSpec == HelperSpec /\ HelperFairness

(***************************************************************************)
(* Properties.                                                             *)
(***************************************************************************)
Starting(s) == \E c \in Conns : /\ arg[c] = s
                                /\ at[c] \in {"singbox", "xray", "undo", "publish"}

\* No core outlives its session: a process that runs belongs to the active
\* session or to a start that still holds chainMu and will publish it or roll
\* it back (StartChain's rollback, stopActiveChainLocked).
CoresOwned ==
  \A s \in Sessions :
    (\E k \in Cores : core[s][k] = "up") => active = s \/ Starting(s)

\* The cache of a session only ever holds the counters of its own xray,
\* although all sessions share one port and a call runs unlocked while the
\* session may be replaced (readChainCounters' identity guard).
CountersOwn == \A s \in Sessions : cached[s] \in {s, NoSession}

\* Neither the processes nor the counters of two sessions are mixed up.
SessionsApart == CoresOwned /\ CountersOwn

\* A running session is torn down for a reason: one of its own cores has
\* exited, a caller asked to stop it or whatever runs, or the daemon is told
\* to end; never by the late watcher of an earlier session.
TornDownForCause ==
  [][\A s \in Sessions :
       ~stopping[s] /\ stopping'[s] =>
         \/ Exited(s)
         \/ \E c \in Conns : at[c] = "stop" /\ arg[c] \in {NoSession, s}
         \/ at[Sig] = "term"]_helperVars

\* Each statistics connection ends with its session: when nothing is active
\* and no call is under way, none is open.  TLC refutes it: Counters dials
\* again after Close.
StatsConnReleased ==
  active = NoSession /\ (\A c \in Conns : at[c] \notin {"dial", "ask"})
    => \A s \in Sessions : ~conn[s]

\* A session whose core has exited does not stay up (watchChainExit).
DropCleared ==
  \A s \in Sessions : active = s /\ Exited(s) ~> active # s \/ stopping[s]

\* StopChain is answered, also while a statistics call hangs.
StopAnswered == \A c \in Conns : at[c] = "stop" ~> at[c] = "idle"

\* The daemon comes to rest by itself: neither a dead core nor a hanging call
\* holds a session or chainMu for ever.
DaemonSettles == DropCleared /\ StopAnswered

\* The daemon keeps the promise of ChainService.
Service == INSTANCE ChainService WITH
  sess  <- active,
  state <- IF active = NoSession THEN "down"
           ELSE IF stopping[active] THEN "dirty" ELSE "up",
  past  <- Told \ {active}

ServiceSpec == Service!Spec
=============================================================================
