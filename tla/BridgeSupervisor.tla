--------------------------- MODULE BridgeSupervisor ---------------------------
(***************************************************************************)
(* The Electron main process's supervision of the Go bridge: the class     *)
(* BridgeSupervisor (src/cmd/itgray-electron/src/main/bridge.ts), the      *)
(* RpcClient it makes for every child (rpc.ts) and the before-quit hook    *)
(* of index.ts.                                                            *)
(*                                                                         *)
(* Main is one JavaScript thread: every handler below runs to completion.  *)
(* The nondeterminism is in the order Node delivers what happens to a      *)
(* child process: its 'error' event, its 'exit' event and the end of its   *)
(* stdout are three separate callbacks, any of which may come long after   *)
(* the process has gone and after its successor was spawned.               *)
(*                                                                         *)
(* A child of Children is a slot: a process with its pipes and the client  *)
(* made for it.  A slot is reused once nothing of it is outstanding.       *)
(* Time advances in seconds.                                               *)
(***************************************************************************)
EXTENDS Integers

CONSTANTS Children,     \* bridge processes that may be outstanding at once
          Calls,        \* RPC calls the renderer may have in flight
          None          \* no child

ASSUME NoneAssumption == None \notin Children

\* The restart window and the restarts it allows, and the pauses before the
\* first, the second and every later restart, in seconds.
Window == 60
MaxRestarts == 5
BackoffFlat(count) == IF count = 1 THEN 1 ELSE 5
Backoff(count) == IF count = 1 THEN 1 ELSE IF count = 2 THEN 5 ELSE 30

Off == -1               \* restartTimer is undefined

VARIABLES
  child, client,        \* this.child, and the child this.client talks to
  unsubscribers,        \* the children eventUnsubscribers would detach
  listeners,            \* the children whose events reach the app's listeners
  restartCount,
  windowAge,            \* seconds since restartWindowStart, up to Window + 1
  restartTimer,         \* seconds left before spawnOnce, or Off
  state,
  phase,                \* "up", "quitting" (before-quit awaits stop), "gone"
  stopping,             \* the child stop() waits for, or None
  proc,                 \* per child: "free", "running" or "exited"
  due,                  \* per child: events Node has yet to deliver
  open,                 \* per child: its stdout has not reported close
  pending               \* per child: calls its client has not settled

supVars == <<child, client, unsubscribers, listeners, restartCount, windowAge,
             restartTimer, state>>
procVars == <<proc, due, open>>
supervisorVars == <<supVars, phase, stopping, procVars, pending>>

SupervisorTypeOK ==
  /\ child \in Children \cup {None} /\ client \in Children \cup {None}
  /\ unsubscribers \subseteq Children /\ listeners \subseteq Children
  /\ restartCount \in 0..(MaxRestarts + 1) /\ windowAge \in 0..(Window + 1)
  /\ restartTimer \in {Off} \cup 0..30
  /\ state \in {"starting", "running", "restarting", "failed"}
  /\ phase \in {"up", "quitting", "gone"}
  /\ stopping \in Children \cup {None}
  /\ proc \in [Children -> {"free", "running", "exited"}]
  /\ due \in [Children -> SUBSET {"error", "exit"}]
  /\ open \in [Children -> BOOLEAN]
  /\ pending \in [Children -> SUBSET Calls]

\* restartWindowStart is 0, so the first exit always opens a window.
SupervisorInit ==
  /\ child = None /\ client = None
  /\ unsubscribers = {} /\ listeners = {}
  /\ restartCount = 0 /\ windowAge = Window + 1 /\ restartTimer = Off
  /\ state = "starting" /\ phase = "up" /\ stopping = None
  /\ proc = [c \in Children |-> "free"] /\ due = [c \in Children |-> {}]
  /\ open = [c \in Children |-> FALSE] /\ pending = [c \in Children |-> {}]

-----------------------------------------------------------------------------
(* The supervisor                                                          *)

Reusable(c) == proc[c] # "running" /\ due[c] = {} /\ ~open[c] /\ c # client

\* spawnOnce: a process, a client on its pipes, and the client's events
\* forwarded to whoever listens to the supervisor.
SpawnOnce(c) ==
  /\ Reusable(c)
  /\ proc' = [proc EXCEPT ![c] = "running"]
  /\ open' = [open EXCEPT ![c] = TRUE]
  /\ pending' = [pending EXCEPT ![c] = {}]
  /\ child' = c /\ client' = c
  /\ unsubscribers' = {c} /\ listeners' = listeners \cup {c}
  /\ state' = "running"
  /\ UNCHANGED due

Start ==
  /\ state = "starting" /\ phase = "up"
  /\ \E c \in Children : SpawnOnce(c)
  /\ UNCHANGED <<restartCount, windowAge, restartTimer, phase, stopping>>

Restart ==
  /\ restartTimer = 0 /\ phase = "up"
  /\ restartTimer' = Off
  /\ \E c \in Children : SpawnOnce(c)
  /\ UNCHANGED <<restartCount, windowAge, phase, stopping>>

\* Variant: the listeners stay attached.
DetachNothing == UNCHANGED <<listeners, unsubscribers>>
DetachClientEvents ==
  /\ listeners' = listeners \ unsubscribers
  /\ unsubscribers' = {}

\* Variant: the window is never renewed.
HandleExitNoWindow ==
  LET count == restartCount + 1
  IN /\ DetachClientEvents
     /\ restartCount' = count
     /\ child' = None /\ client' = None
     /\ IF count > MaxRestarts
        THEN state' = "failed" /\ UNCHANGED restartTimer
        ELSE state' = "restarting" /\ restartTimer' = Backoff(count)
     /\ UNCHANGED windowAge

HandleExit ==
  LET lapsed == windowAge > Window
      count  == IF lapsed THEN 1 ELSE restartCount + 1
  IN /\ DetachClientEvents
     /\ windowAge' = IF lapsed THEN 0 ELSE windowAge
     /\ restartCount' = count
     /\ child' = None /\ client' = None
     /\ IF count > MaxRestarts
        THEN state' = "failed" /\ UNCHANGED restartTimer
        ELSE state' = "restarting" /\ restartTimer' = Backoff(count)

\* An 'error' or 'exit' of a child that is not the current one is ignored.
HandlesEventOfAny(c) == child # None
HandlesEventOf(c) == child = c

OnError(c) ==
  /\ phase # "gone" /\ "error" \in due[c]
  /\ due' = [due EXCEPT ![c] = @ \ {"error"}]
  /\ IF HandlesEventOf(c) THEN HandleExit ELSE UNCHANGED supVars
  /\ UNCHANGED <<phase, stopping, proc, open, pending>>

\* The 'exit' of the child stop() waits for also resolves stop(), after which
\* the before-quit hook ends the application.
OnExit(c) ==
  /\ phase # "gone" /\ due[c] = {"exit"}
  /\ due' = [due EXCEPT ![c] = {}]
  /\ IF HandlesEventOf(c) THEN HandleExit ELSE UNCHANGED supVars
  /\ IF stopping = c THEN stopping' = None /\ phase' = "gone"
                     ELSE UNCHANGED <<stopping, phase>>
  /\ UNCHANGED <<proc, open, pending>>

\* stop() detaches, cancels the restart and, when there is a child, closes
\* its stdin and waits.  It leaves this.client in place.
Stop ==
  /\ DetachClientEvents
  /\ restartTimer' = Off
  /\ child' = None /\ stopping' = child
  /\ UNCHANGED <<client, restartCount, windowAge, state, procVars, pending>>

\* The hook runs once; with no child stop() returns and the application ends.
BeforeQuit ==
  /\ phase = "up"
  /\ Stop
  /\ phase' = IF child = None THEN "gone" ELSE "quitting"

StopTimeoutIgnored == phase = "quitting" /\ UNCHANGED supervisorVars

\* stop() has waited timeoutMs: the child is killed.
StopTimeout ==
  /\ phase = "quitting"
  /\ proc' = [proc EXCEPT ![stopping] = "exited"]
  /\ stopping' = None /\ phase' = "gone"
  /\ UNCHANGED <<supVars, due, open, pending>>

-----------------------------------------------------------------------------
(* The client                                                              *)

\* The renderer's rpc reaches the current client, if there is one.
Call(id) ==
  /\ phase # "gone" /\ client # None
  /\ \A c \in Children : id \notin pending[c]
  /\ pending' = [pending EXCEPT ![client] = @ \cup {id}]
  /\ UNCHANGED <<supVars, phase, stopping, procVars>>

\* handleLine: a response settles its call, even one of an old child whose
\* output is still being read.
Response(c, id) ==
  /\ phase # "gone" /\ open[c] /\ id \in pending[c]
  /\ pending' = [pending EXCEPT ![c] = @ \ {id}]
  /\ UNCHANGED <<supVars, phase, stopping, procVars>>

\* The end of stdout rejects everything in flight: failAll.
FailNone(calls) == calls
FailAll(calls) == {}

OnStdoutClose(c) ==
  /\ phase # "gone" /\ open[c] /\ proc[c] = "exited"
  /\ open' = [open EXCEPT ![c] = FALSE]
  /\ pending' = [pending EXCEPT ![c] = FailAll(@)]
  /\ UNCHANGED <<supVars, phase, stopping, proc, due>>

-----------------------------------------------------------------------------
(* The operating system and time                                           *)

\* A process ends, and 'exit' will be delivered.
ProcessExits(c) ==
  /\ phase # "gone" /\ proc[c] = "running"
  /\ proc' = [proc EXCEPT ![c] = "exited"]
  /\ due' = [due EXCEPT ![c] = {"exit"}]
  /\ UNCHANGED <<supVars, phase, stopping, open, pending>>

\* A process could not be spawned: 'error', which 'exit' may follow.
SpawnFails(c) ==
  /\ phase # "gone" /\ proc[c] = "running"
  /\ proc' = [proc EXCEPT ![c] = "exited"]
  /\ \E events \in {{"error"}, {"error", "exit"}} : due' = [due EXCEPT ![c] = events]
  /\ UNCHANGED <<supVars, phase, stopping, open, pending>>

Tick ==
  /\ phase # "gone"
  /\ windowAge' = IF windowAge > Window THEN windowAge ELSE windowAge + 1
  /\ restartTimer' = IF restartTimer > 0 THEN restartTimer - 1 ELSE restartTimer
  /\ UNCHANGED <<child, client, unsubscribers, listeners, restartCount, state,
                 phase, stopping, procVars, pending>>

-----------------------------------------------------------------------------
SupervisorNext ==
  \/ Start \/ Restart \/ BeforeQuit \/ StopTimeout \/ Tick
  \/ \E id \in Calls : Call(id)
  \/ \E c \in Children :
       \/ OnError(c) \/ OnExit(c) \/ OnStdoutClose(c)
       \/ ProcessExits(c) \/ SpawnFails(c)
       \/ \E id \in Calls : Response(c, id)

SupervisorSpec == SupervisorInit /\ [][SupervisorNext]_supervisorVars

\* Timers fire, time passes and Node delivers what it owes.
Fairness ==
  /\ WF_supervisorVars(Start) /\ WF_supervisorVars(Restart) /\ WF_supervisorVars(StopTimeout) /\ WF_supervisorVars(Tick)
  /\ \A c \in Children :
       WF_supervisorVars(OnError(c)) /\ WF_supervisorVars(OnExit(c)) /\ WF_supervisorVars(OnStdoutClose(c))

FairSpec == SupervisorSpec /\ Fairness

-----------------------------------------------------------------------------
(* Properties                                                              *)

(* A bridge process that runs is the one the supervisor holds or the one   *)
(* stop() is waiting for, and none runs once the application has gone: a   *)
(* late event of a dead child makes spawnOnce start no second bridge.      *)
NoOrphanBridge ==
  /\ \A c \in Children : proc[c] = "running" => c \in {child, stopping}
  /\ phase = "gone" => child = None /\ stopping = None

(* Listeners of the supervisor hear the current bridge only: what an old   *)
(* bridge wrote before it died is not forwarded after its exit was handled.*)
EventsOfCurrentBridge == listeners \subseteq {child} \ {None}

(* There is one bridge at a time, and it is the one that is heard.         *)
OneBridge == NoOrphanBridge /\ EventsOfCurrentBridge

(* The supervisor never gives up: the pauses between restarts alone take   *)
(* longer than the window, so restartCount is reset before it can exceed   *)
(* five and the "failed" branch of handleExit is never taken.              *)
NeverGivesUp == state # "failed"

(* A bridge that exits is replaced or the application ends, and quitting   *)
(* ends: stop() does not wait for ever for a bridge that hangs.            *)
BridgeReturns ==
  (child = None \/ phase = "quitting") ~> ((child # None /\ phase = "up") \/ phase = "gone")

(* A call in flight when the bridge's process dies is settled: failAll     *)
(* rejects it at the end of stdout.                                        *)
CallsInFlightFail ==
  \A c \in Children : \A id \in Calls :
    (proc[c] = "exited" /\ open[c] /\ id \in pending[c])
      ~> (id \notin pending[c] \/ phase = "gone")

(* Callers are never given a client on a closed pipe (bridge.test.ts).     *)
ClientIsOpen == client # None => open[client]
=============================================================================
