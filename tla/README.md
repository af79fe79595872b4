# A TLA+ model of ITG Ray

ITG Ray is a VLESS client for Windows and Linux: an Electron shell, a Go
*bridge* process that serves the shell over JSON-RPC on its standard streams,
and a privileged *helper* service that runs two proxy cores (sing-box and xray)
and changes the host's routes, DNS and interfaces. This directory holds
specifications of the parts of that program in which several actors share state
that a crash, a lost reply or an unlucky order can damage, the configurations
that check them with TLC, and proofs checked with TLAPS.

`PROJECT.json` lists for every definition that models code the lines it
translates, for every run its configuration, for every property of a passing run
a mutation of the model that breaks it, the hazards of the code, what the runs
found in it, and the theorems.

## 1. The system

| Part | State it keeps | Operations | Interacts with | Hard about it | What makes it correct |
| --- | --- | --- | --- | --- | --- |
| Connection controller (`internal/chainctl`) | `cancel`, `current`, `mode`, `cleanupPending`, `cleanupMode`; `last-session.json` | `Start`, `Stop`, `Reconcile`; a goroutine per attempt: `bringUp`, then the poller | helper (RPC), OS proxy, hub, `servers.json` | two mutexes and a wait group; state read before a call and used after it; rollback of rollback; a bridge that dies | one driver of the helper at a time; every live attempt can be cancelled; idle means that nothing was left behind; the kill switch is lifted only by those who may |
| OS system proxy (`internal/sysproxy`) | the registry | `Set`, `Clear`, `IsSet` | controller | writes that fail half way | a failed `Set` leaves a state that the caller can repair |
| Helper, Linux (`helper/server/chain_linux.go`) | `activeSess`, `chainMu`, a statistics client and a counter cache per session | `StartChain`, `StopChain`, `ServiceStatus`, watcher, SIGTERM | cores, any number of connections | a watcher that wakes up in another session's time; an unlocked call; a status read in two critical sections | no core without a session, no foreign counters, no teardown without a cause |
| Helper, Windows (`chain_windows.go`, `service_windows.go`, `undo`) | the same, and `undo.json` | the same, SCM stop, `recoverFromUndo` | routing table, DNS, NRPT, cores | eight steps that can each fail, a teardown that can fail in part, a crash anywhere | every change on the host is owed by somebody, in memory or in the journal |
| Helper clients (`helper_adapter_*`, `helper_daemon_other.go`, `lazyhelper.go`, `helper/client`) | a connection, a session id, the latched backend | `StartChain`, `StopChain`, `ServiceStatus`, redial, retry | helper, controller | a retry of what was already done, stale session ids | a session that runs can be stopped |
| Subscriptions and servers (`bindings/subs.go`, `servers.go`, `server`, `subscription`) | `subscriptions.json`, `servers.json`, `StoreLock` | add, edit, remove, sync, favourite, latency | refresh driver, controller, command line client | fetches and probes that run unlocked, operations on two files | what was fetched is applied to what it was fetched for |
| Background refresh (`internal/refresh`) | a worker per subscription, its failure count; the prober | `Run`, `runSub`, `syncOne`, `runProbe` | the two files, the network | start and cancellation of workers while the list changes, back-off | one worker per subscription, every subscription is synced |
| Hub, bus and forwarder | a bounded queue per subscriber | `Publish`, `Subscribe`, drain | every service, the shell | a full queue drops the oldest event | the last status is delivered |
| RPC dispatcher | 32 slots | dispatch, cancel, drain | services | answers and events on one stream | every request is answered once |
| Log stream | file offsets, a ring with sequence numbers | poll, read, rotate | helper, shell | rotation between two reads, `Stop` beside a poll | no line twice, none lost |
| Bridge supervisor (`src/main/bridge.ts`, `rpc.ts`) | the child, restart times, pending calls | start, stop, exit, call | bridge | an exit that arrives late, calls into a closed pipe | one bridge, every call settles |
| Renderer store (`dashStore.ts`) | the connection as the user sees it | connect, switch, reconnect | RPC answers and events | an event that arrives before it is waited for | the screen agrees with the controller in the end |
| Settings, rules (`configstore.go`, `rules.go`, `rulesStore.ts`, `settings.ts`) | `config.json`, `rules.json`, and the renderer's copies of both | sections, groups, rules, import, undo | services, renderer, controller | reads and writes that overlap, optimistic copies, a protected group | what is saved builds, the safety group stays, the pages and the toast tell the truth |
| Configuration generation (`configgen`, `compile.go`) | none | rules and settings to a sing-box document | controller | the first matching route rule wins, in two modes | the document routes as the rules say |
| Pure functions: parsers, identities of servers | none | | | collisions of ids | |
| The rest: geo data, installation, authentication and framing, small services, command line, code generator, pages | | | | | see `components` in `PROJECT.json` |

How they interact: the shell sends requests to the dispatcher, which runs each
in a goroutine; services change files under `StoreLock` and call the controller;
the controller calls the helper over a socket or a pipe, one connection at a
time, and the operating system's proxy settings directly; statuses go from the
controller to the hub and through the forwarder back to the shell. Three things
outlive the process that wrote them and are what a restart works from:
`last-session.json` (bridge), `undo.json` (helper on Windows) and the two server
files.

## 2. Modules

| Module | Models | Uses |
| --- | --- | --- |
| `ChainController` | `chainctl/ctrl.go`, `poll.go`, `session.go`, `sysproxy_windows.go` as the controller sees it | |
| `ChainService` | abstract: what the helper promises about the one session it holds | |
| `HelperChain` | `helper/server/chain_linux.go`, `status.go`, the statistics client | refines `ChainService` |
| `HelperStatus` | `HelperChain` with a history variable | extends `HelperChain` |
| `WindowsHelper` | `helper/server/chain_windows.go`, `service_windows.go`, `undo.go` | |
| `StoreSync` | `bindings/subs.go`, `servers.go`, `subscription/store.go`, `server/store.go`, the ticks of `refresh` | |
| `BridgeSupervisor` | Electron main's `bridge.ts`, `rpc.ts` and the before-quit hook of `index.ts` | |
| `HelperRouting` | the helper clients: `helper_adapter_*`, `helper_daemon_other.go`, `lazyhelper.go`, `helper/client`, the in-process core | over an instance of `ChainService` |
| `RulesModel` | `internal/rules` and the operations of `bindings/rules.go`, as functions of the stored model | |
| `RouteConfig` | `configgen/singbox.go`, `rules/compile.go`, and where sing-box sends a flow | extends `RulesModel` |
| `ConfigStore` | `bindings/configstore.go`, `internal/config`, the renderer's names for settings | |
| `ConfigSession` | `rulesStore.ts`, `settings.ts`, the toast, and a controller that builds from both files | composes `RouteConfig` and `ConfigStore` |
| `EventPipe` | `internal/hub`, the forwarder, the RPC dispatcher, the output they share | |
| `RefreshDriver` | `internal/refresh/driver.go` and what a sync publishes | extends `EventPipe` |
| `DashStore` | `dashStore.ts`, `AppService.GetSnapshot`, the controller as its callers see it | extends `RefreshDriver` |
| `LogStream` | `internal/logstream`, `ReadLogs`, `LogService`, `logStore.ts` | extends `EventPipe` |
| `BridgeSession` | the bridge with all of these and one window | composes `DashStore` and `LogStream` |
| `MC*` | small constants, scenarios and symmetry for TLC | extend the module they are named after |
| `*_proofs` | theorems | extend the module they are named after and `TLAPS`; `Chain_proofs` takes `ChainController` and `HelperStatus`, `Electron_proofs` takes `BridgeSupervisor` and, over `BridgeSession_proofs`, the dashboard, `Pages_proofs` is the second half of `ConfigSession_proofs` |

The specifications of the helper on Linux and of the supervisor have names of their own
(`HelperInit`, `HelperSpec`, `SupervisorNext`, ...), so that a module of proofs can extend
two components.

Conventions that hold in all of them. A critical section of the code is one
step, unless it calls something that can fail, block or be observed; then it is
as many steps as there are such calls, and the mutex is a variable. What can go
wrong in the environment is a fault with a name. The constant `FaultSets` holds
the combinations of faults that an instance admits, and the variable `faults` is
one of them, drawn at the start and fixed for the whole behaviour. A property
that needs some faults to be absent says so itself, as a condition on `faults`. A
definition that `Next` does not use and whose comment calls it a variant
(`UndoStopSkipped`, `MergeFresh`) is a mutation: the code with a plausible mistake,
there to show that a property notices it. A property that is a conjunction of named
parts has a variant for most of its parts.

`ConfigSession` and `BridgeSession` compose so much that they are checked scenario by
scenario. A scenario is a record: what the files hold at first, the `faults` it
admits, and `left`, a budget for each thing that a user or the surroundings do
(clicks, edits, subscriptions added, lines written, windows closed, drops, the quit).
Steps of the program itself cost nothing and are never cut off.

### ChainController

`opMu` serialises `Start`, `Stop` and `Reconcile`; their common program counter
is `opPc` and their locals are `loc`. A goroutine slot `w` has a program counter
`pc[w]`, a context `ctx[w]`, the server and mode it was started for (`job[w]`),
the status it is about to publish and the state of its `StartChain` request.
`cancel`, `current`, `mode`, `cleanupPending` and `cleanupMode` are the fields of
the same names. Outside of the bridge there are the session file, the set of
servers in `servers.json`, the OS proxy, the helper's session with its "cleanup
incomplete" flag, and `late`: `StartChain` requests that the helper has received
and whose caller is gone.

`Start` = `Start`, `StartJoined`, `StartPublish`; its goroutine = `Build` ...
`UndoProxy` (`bringUp`), `BringUpFailed` ... `PublishConnected` (what `Start`'s
closure does with the result), `PollReturn` ... `CrashLock` (the poller). `Stop` =
`StopIdle` ... `ClearSession`; `Reconcile` = `ReconcileLoad` ... `ReconcilePublish`.
The granular helper calls (`TunCreate`, `RouteAdd`, ...) do nothing in either
adapter, so that they are only a way for `Apply` and `StopChain` to fail.

### HelperChain, ChainService, HelperStatus

`chainMu` is `mu`. A process is a connection (it serves one request at a time), a
session (its watcher) or the signal handler. `ServiceStatus` is three steps,
because the code takes `chainMu` twice and then reads the counters unlocked;
`Dial`, `Counters` and `CacheCounters` are the statistics call with its lazily
opened connection. All sessions' xrays listen on one port, so that a call may be
answered by the xray of a later session.

`ChainService` has a session, a state (`down`, `up`, `dirty`) and the sessions
that are over. `ServiceSpec` is its specification under the mapping: the active
session; `dirty` when it is stopping; and the published sessions that are not
active any more.

`HelperStatus` records for each status call the states in which the helper was
while the flags were read.

### WindowsHelper

Here the subject is what a session does to the host, so that `chainMu` is a
program counter (`pc`, `step`): its holder is in one of `StartChain`, rollback,
teardown or recovery. `owes` are the flags and saved values in the `chainState`
object, `host` the changes that are really in place, each with the session that
made it, `journal` what `undo.json` holds. `Kill`, `Reboot`, `ScmStop` and the
recovery (`Boot`, `Recover`, `RecoverClear`) may come between any two steps.

### StoreSync

Each handler, initial sync, subscription worker or probe is a goroutine. `lock`
is the `StoreLock` that the bridge hands to both services and to the driver. A
server is named by its source and its connection; its `url` is the URL it was
fetched from, which the file does not hold but which is what the properties are
about. Operations that write two files are two steps (`Edit`, `EditSave`;
`Remove`, `Cascade`; `SyncCommit`, `UpdateMeta`). `Probe` and `ProbeApply` stand
for `TestLatency` and for the driver's probe, which differ in what they do with a
server that did not answer. `active` is the controller's server; the controller
does not take `StoreLock`.

### BridgeSupervisor

Main is one JavaScript thread, so that a handler is one step; what is
nondeterministic is when Node delivers a child's `error`, `exit` and end of
output, three callbacks that may come in any order after its successor was
spawned. A child, its pipes and the client made for it are one slot of
`Children`; `pending` are the calls that the client has not settled. Time is in
seconds, with the code's own numbers (window 60, pauses 1, 5 and 30);
`windowAge` stops at 61 because the code only asks whether it is above 60. A
timer may fire late. The `restartTimer` and `restartCount` are the code's;
`stopping` is the child in `stop()`'s closure.

### HelperRouting

The helper is `ChainService` itself, so that what holds here holds for any helper
that implements it, which `HelperChain` is shown to do. Between it and the client is
`inbox`, the requests that were written and not yet handled: closing a connection
leaves them there, with `live` cleared. `call` is the exchange in progress (`dial`,
`sent`, `back`) with its second try on Linux; `conn`, `sid` and `active` are the cached
connection, the session id that was learnt and the latched backend; `core` is the
in-process core with its two engines. The controller is the order in which it calls:
`drv` says what it is doing, `pending` is `cleanupPending` and `rec` whether
`last-session.json` exists. The actions are the calls (`Start`, `Stop`, `Poll`, `Reconcile`),
their ends (`Started`, `StartFailed`, `Stopped`, ...), the client's steps between
(`Write`, `CannotWrite`, `Read`, `Lose`, `StopTimeout`) and the helper's (`Handle`,
`CoreExits`, `HelperStops`, `HelperStarts`).

### RulesModel, RouteConfig, ConfigStore, ConfigSession

`RulesService` and `ConfigStore` hold a mutex from load to save, so that an operation
is a function from the stored document and its parameters to a new document or a
refusal: `RuleAdd`, `RuleMove`, `ReplaceModel`, `ImportApply`, `UpdateSection`, each with the
checks of the code in their order. A condition of a rule is the set of what it names:
classes of addresses (LAN and other, IPv4 and IPv6), geo entries, or something
malformed.

`RouteConfig` builds the parts of the document that decide where a flow goes and
evaluates them as sing-box does, first match first; `RefVerdict` is the reference,
written from the rules model and independent of the document. `Verdict` and the flows
are external: sing-box is not in the repository.

`ConfigSession` has the two files, the two renderer stores (`rs`, `st`), requests and
answers on their way, a controller that reads, builds and publishes, and the snapshot
that the toast compares with. `rs.lead` and `waiters` are `withSingleFlight`, `rs.reading`
the read in flight that others join, `rs.base` the undo baseline; `st.pend` collects what
the debounce will send.

### EventPipe, RefreshDriver, DashStore, LogStream, BridgeSession

`EventPipe` has the forwarder's subscription (`queue`, at most `Buffer` events, the oldest
dropped when it is full), the requests that the dispatcher runs (`calls`, at most
`MaxConcurrent`) and the output (`wire`). Handlers end in any order, and an answer that
is ready is written before the next handler or publisher moves, unless the scenario
admits `lag`; events and answers pass each other on the way. `lost` remembers
the topics of which an event was dropped, for the properties that cannot hold then.

`RefreshDriver` has a record for every subscription's worker; an id has two `Places`
because a cancelled worker that is still fetching lives beside its successor. Timer,
fetch, commit, cancellation, panic and the reconcile of every second are actions.

`DashStore` is one JavaScript thread: a handler runs to its next `await`, which is why
the sequences behind the buttons are a record `flow` with a `step`. `ctl` is
`ChainController` seen from outside, with the outcomes that it really has: a bring-up
that fails, a drop with and without the kill switch, a teardown that fails. `past`
remembers what the properties speak of (a refused connect, what the user asked for
last, automatic connects and sweeps).

`LogStream` reads pieces of lines in chunks: a poll takes what is there up to `Chunk`,
keeps the unfinished rest and publishes whole lines; rotation renames the file and
begins another. One file stands for three that share nothing but the goroutine.

`BridgeSession` puts them on one hub, one dispatcher and one output, and adds the
window: closing and opening it, and the quit.

## 3. What the runs check

Every instance is small, and the bounds are named by the constants. A property in
the table that is a conjunction of named parts has the parts in parentheses.

| Run | Properties | Instance | Shows |
| --- | --- | --- | --- |
| `ctl_safety` | `OneAttempt` (`OneDriver`, `LiveContextReachable`), `NoStaleConnected`, `PolledSessionRecorded`, `IdleIsClean` (`IdleHasNoChain`, `IdleHasNoProxy`), `KillSwitchHeld` | 2 goroutines, 1 server, three combinations of faults | who drives the helper, who can be cancelled, what the user is told last, what is recorded, what an idle controller has left behind, who lifts the kill switch |
| `ctl_live` | `ControllerSettles` (`StopReturns`, `AttemptSettles`), `DropReported` | faults `rpc`, `set`; fair | `Stop` returns, attempts end, drops are reported |
| `hc_core` | `SessionsApart` (`CoresOwned`, `CountersOwn`), `StatusTruthful`, `TornDownForCause`, `ServiceSpec` | 2 connections, 2 sessions, a signal | the helper's promises, that the two flags of an answer together tell a state the helper was in, and that it implements `ChainService` |
| `hc_live` | `DaemonSettles` (`DropCleared`, `StopAnswered`) | 2 connections, 1 session; fair | a session whose core exited is cleared; `StopChain` is answered while a statistics call hangs |
| `hr_core` | `TypeOK`, `StopReaches`, `IdleHasNoSession`, `OneChain`, `StopEnds` (`StopReturns`, `StopSucceeds`) | both platforms, 3 session ids, 2 unhandled requests, five combinations of faults; fair | the id a stop sends is accepted, a stop that reports success has stopped, an idle controller left no chain, the two backends do not run one each, and a stop returns without the helper's help |
| `wh_core` | `HostOwed`, `OwesReal`, `PublishedRecovered` | 2 sessions, three combinations of faults | nothing on the host is forgotten, nothing restored is restored again, and the journal restores every session that had started |
| `ss_core` | `StoresAgree` (`NoOrphans`, `OkHasServers`), `ServersOfCurrentURL`, `FavouritesKept` | 2 goroutines, 1 subscription, 2 URLs, 2 connections, 1 server by hand; no faults, or failing writes and crashes | a sync never resurrects, never shows an empty list as ok, never applies an old URL's list, never overwrites a favourite |
| `bs_core` | `OneBridge` (`NoOrphanBridge`, `EventsOfCurrentBridge`), `BridgeReturns`, `CallsInFlightFail` | 2 children, 1 call, all delivery orders; fair | one bridge at a time and no events of an old one; a bridge that exits is replaced or the application ends, calls in flight at its death are rejected |
| `cfg_core` | `TypeOK`, `SafetyKept`, `SavedBuilds`, `RouteFollowsModel`, `PagesConverge` (`RulesConverge`, `SettingsConverge`, `NothingStuck`), `ToastTells`, `EditsKept` (`RevertRestores`, `DragKeeps`) | 15 scenarios of up to 2 edits, 2 connects and 1 dismissal | the safety group stays, what is saved builds, the document routes as the rules say, the pages and the toast tell the truth, undo and drag lose nothing |
| `ev_core` | `TypeOK`, `NothingLeftBehind`, `DashFollows` (`DashSettles`, `ListFollows`, `ProbesSettle`), `ConnectAsAsked` (`NoRefusedConnect`, `UserIntent`, `AutoConnectOnce`), `LogTabFaithful` (`PollerFollowsTab`, `LinesWhole`, `LogsConverge`), `WorkersFollow`, `FlowEnds` | 25 scenarios; a channel of 2 events, 3 handlers at a time, an output of 2 lines; 2 subscriptions, 2 addresses, 4 servers; log buffers of 3 lines; fair | what is shown settles on what is, the sequences behind the buttons end, nothing connects or probes by itself without end, every subscription has its worker, log lines arrive whole |

The type invariants of the other five modules (`TypeOK`, `HelperTypeOK`,
`SupervisorTypeOK`) are theorems (section 5) and have no run of their own.

The three combinations of `ctl_safety` are the largest under which
`IdleHasNoChain` (`set`, `partial`, `clear`, `save`, `store`) and `IdleHasNoProxy`
(`rpc`, `set`, `dirty`, `save`, `store`) are claimed, and everything except a session
file that cannot be written. Those of `wh_core` are failing starts and teardowns
(for `HostOwed`), everything except a failing recovery, and failing recoveries. Those of
`hr_core` are the ones that its conditions tell apart: none; refused starts, incomplete
cleanups and restarts of the helper; broken exchanges with restarts; with overtaking;
and with incomplete cleanups and a bridge that dies.

Why these bounds are enough for the cases that matter: the controller lets at
most one attempt run, so that two slots are a running one and the one that
replaces it, or the one that is still on its way out; a second server adds no
branch to any handler. The helper holds one session; two ids are a session and
the one that replaces it, which is what a late watcher, a stale `StopChain` and a
statistics call in flight can confuse. In `StoreSync` a race is between two
operations that overlap, and a goroutine that has finished begins another, so
that an edit and a removal can come between the start of a sync and its commit.
Of the two children of `bs_core` one is current and the other a dead one whose
events are still to come; its slot is used again once they have. The proofs of
section 5 lift most of these bounds.

In `hr_core` two sessions and their successor are what a stale id can name; two
unhandled requests are one of an exchange that was given up and one of the next. In
`cfg_core` a race is between two edits, or an edit and a connect; the geo entry, the
address rule and the rule that does not validate are one rule for each way in which
an operation treats a rule. In `ev_core` a channel of two events is full after two,
so that every event that a sequence waits for is dropped in some behaviour; three
handlers are the two of a sequence and one that is slow. Two subscription ids with two
addresses make a removal and an addition under one id and under two. Three lines in
the buffers are enough for one to be pushed out, and the tail that a tab asks for (2)
is shorter than the ring, as in the code.

Deadlock is checked for the controller and the stores. The helper modules draw
every session id once and the process may end for good, so that their runs stop;
so do those of `BridgeSupervisor`, when the application has quit, and of `ConfigSession`
and `BridgeSession`, when a scenario's budget is spent and everything has been delivered.

Fairness. `ctl_live`: weak fairness of the holder of `opMu`, of every goroutine
and of the helper's answer; it stands for the Go scheduler and for a helper that
answers, and the faults `late` and `exit` are left out. Nothing is assumed of
the user, of drops or of the network. `hc_live`: strong fairness of every handler
and watcher, because Go's mutexes do not starve a waiter while others take and
release them, so that a step that is enabled again and again is taken; a
statistics call ends at its deadline at the latest (`Counters`), which is what the
mutation `CountersNoDeadline` takes away. `bs_core`: weak fairness of timers, of the
clock and of Node's delivery of events; nothing is assumed of the bridge process,
which may run for ever, hang after its stdin was closed or die at any time. `hr_core`:
weak fairness of the client's goroutine and of the deadline of a stop; nothing is
assumed of the helper, which may never answer. `ev_core`: weak fairness of everything
that happens by itself (`System`: goroutines, handlers, the forwarder, the driver's
ticker, the event loop of the renderer); nothing is assumed of the user, of the
subscriptions' timers, of the log polls or of the engines. Because a behaviour has a
finite budget of outside events, fairness of the whole is fairness of its parts once
the budget is spent.

## 4. What the runs found

A run named `*_v_*` checks one sentence that a comment, a test or the change log
says of the program, and TLC refutes it. Each is under `findings` with the quote.

| Run | In short |
| --- | --- |
| `ctl_v_crashmode` | a drop overwrites `cleanupMode`, and the next `Stop` leaves an older session's proxy on |
| `hr_v_stale` | on Linux a connect that is cancelled after the daemon has executed it leaves the id of an earlier session in the client; every later stop is refused until the bridge restarts |

Further sentences that the code does not keep are stated in the modules and have
no run of their own. To see a trace, put the property in place of the others in a
configuration of that module, with the faults of the second column as its only
combination.

| Module, property | Faults | In short |
| --- | --- | --- |
| `ChainController`, `NoChainLeft` | `late` | a cancelled `StartChain` may be executed after `Stop`'s `StopChain` |
| `ChainController`, `DisconnectClearsProxy` | `partial` | the rollback of a half-failed `Set` is skipped while a TUN cleanup is owed |
| `ChainController`, `FailedRetryKeepsProxy` | `set` | a failing `Set` switches off the proxy that the kill switch holds |
| `ChainController`, `ActiveChainAdopted`, `BootProxyConsistent` | `store`, `exit` | `Reconcile` gives up before it looks at the chain when the recorded server has left the file |
| `HelperChain`, `StatsConnReleased` | | a statistics connection that is opened after its client was closed is never closed |
| `WindowsHelper`, `NoOrphanCores` | `stop` | a `StartChain` that waited for `chainMu` starts cores after the service's last teardown |
| `WindowsHelper`, `JournalNamesPending` | | the resolver rule and the peer route are not in the journal |
| `WindowsHelper`, `JournalClearedLast` without its condition | `recover` | the recovery forgets what it could not restore |
| `WindowsHelper`, `HostOwed` without its condition | `half` | a resolver rule whose notification failed is in place and on nobody's list |
| `StoreSync`, `ActiveStored` | | a server can be removed while a connection to it begins |
| `StoreSync`, `RemoveKeepsServers` | | the comment on `Remove` says that servers stay; they go |
| `BridgeSupervisor`, `ClientIsOpen` | | the supervisor hands out a client whose pipe has closed, and a call on it never settles |

The properties of `cfg_core` and `ev_core` carry conditions (`hasty`, `rush`, `reorder`,
`lag`, `slow`, `quick`, `overlap`, `window`, a lost event). Each condition is there because
without it TLC shows a behaviour that a reader of the code may want to know of:

- Rules. A read in flight is joined by the one that should follow a write
  (`rulesStore.ts:137` says that it "was started after the last write"); with answers out
  of order the Routing page then shows the model before the write. A drag that was
  computed before an add and queued behind it writes the add away. An edit while
  connecting may or may not be in the document, and clears or keeps the undo baseline
  the other way round (`rulesStore.ts:199`). A first read that fails leaves no
  signature to compare with, and the toast appears for rules that were never edited.
- Settings. Updates or reads that overtake leave the older value on the page or on
  disk. What the 200 ms debounce still holds is not sent before a connect. `settings.go`
  promises an event that `main.go:112` does not wire, so that a second window or the tray
  learns of a change only by reading. A level that the page has no name for (`warn`) is
  shown as the default.
- Files. A `config.json` that does not parse makes every read and update fail, where a
  broken `rules.json` falls back to the default; an unknown `default_action` in an
  otherwise good `rules.json` fails the build (`rules/store.go:16`: "must never block
  Connect"). `guardSafetyUnchanged` compares names, flags and rule ids, not actions or
  conditions. The "fallback action" of `model.go:139` is overridden by the catch-all in
  TUN mode.
- Dashboard. A snapshot that was on its way when the user clicked resets "connecting"
  to "idle"; a second click then gives a connect that is refused, and the screen says
  idle while the chain is up (`hasty`). A slow snapshot overwrites a newer status, and
  one that is in flight when `servers:changed` arrives stands in for the newer one
  (`dashStore.ts:303`). When the channel drops "connected", the snapshot that would tell
  is ignored on purpose (`dashStore.ts:162`), and the page stays on "connecting". When it
  drops "idle", a disconnect that succeeded ends with a timeout after five seconds. A
  disconnect that is clicked during a switch of mode is overridden by it. A click that
  comes before the first snapshot has been answered is not known to the connect on start
  (counted as `hasty`). When that first snapshot fails and the user clicks Disconnect in
  the error state, a later boot connects all the same (`read`), although the comment at
  `dashStore.ts:398` has it at startup or not at all. And a Connect of a window that has
  been closed may be served after the Disconnect of the next one (`lag`).
- Events. `SubsService.Edit` publishes no `servers:changed`. After SIGTERM the bridge
  still serves requests, with no forwarder. A server that is removed while it is
  probed stays "probing".
- Logs. Start and stop of the tab in quick succession can leave an open tab without a
  poller, and closing the window with the tab open leaves a poller without a tab. A file
  that has grown past the old offset when it is next read after a rotation gives one
  garbled line. Two pollers that overlap, as they can when the tab is closed and opened
  quickly, publish lines twice or out of order, and the renderer drops the ones that come
  late. The answer to the Start of a tab that has been closed since still marks the tab as
  running, so that a line that comes before the next Start is taken and those between are
  not (`quick`).

`NeverGivesUp` holds, and is worth a second look by the maintainers: `handleExit`
counts exits in a window of 60 s and gives up above five, but the pauses before
the fifth exit add up to 66 s, so that the window is always renewed first. The
branch that reports "failed" cannot be taken; a bridge that cannot start is
restarted for ever.

## 5. What is proved

The theorems hold for every value of the constants that satisfies the named
assumptions of the modules: that the "nothing" values (`NoWorker`, `NoSession`,
`None`, ...) are not ordinary values, that connections, sessions and the signal
handler are different processes, that the faults are among the known kinds. Three
say more. `RulesAssumption`: none of the ids that `newID` gives is an id the code knows
by name. That they are distinct is not assumed, because `newID` has 16 random bits for a
millisecond in which an import may mint many. `TagAssumption`: different geo entries
become different `rule_set` tags, and no tag is the name of a class of addresses.
`FilesAssumption`: a behaviour begins with files that the application has written, that
is, with a safety group, rules that compile, and ports in range that differ, with a
value for every key (`config.Load` decodes over the defaults), a LAN switch that is a
boolean and an IPv6 mode that the renderer has a name for. `HandleRules` is taken only
while `NewIds` has enough ids left, which bounds a behaviour but not its order.

**`Chain_proofs`, the controller.** `TypeCorrect`; `OwnershipHolds`; from it
`ContextsReachable` (`LiveContextReachable`) and `SingleDriver` (`OneDriver`); and
`SessionRecorded` (`PolledSessionRecorded`). None of the three properties is
inductive: that two attempts do not overlap depends on where the holder of `opMu`
is and on what it has found. `Ownership` says
it: a cancelled attempt that has not ended is the one a `Stop` is waiting for
(`StolenAwaited`), a goroutine that is about to be started belongs to the `Start` in
progress (`SpawnPending`), `cancel` is nil while certain steps of the holder of `opMu`
run (`Unowned`), and no goroutine is left once it has joined the wait group
(`AllJoined`).
`TypeCorrect` needs that a goroutine at work has a job (`JobsKnown`).
Three results rest on `Ownership`. `News` (a renderer that shows "connected" with no
attempt behind it is told better by the `Stop` or the goroutine that is under way) gives
`NoStaleConnected`. `ModeOfJob` (`c.mode` is the mode of
the attempt, or of the `Stop` that took it) and `Blocked` (while a cleanup is owed nobody
but a `Stop` or a reconnect in another mode is about to clear the proxy) give the action
property `KillSwitchHeld`. `ProxyTracked` and `ChainTracked` say of every phase of a
`Stop` and of an attempt who will still clear a proxy that is on, and end a chain that
runs; they give the two halves of `IdleIsClean`, each under the faults that its condition
names, and need `NeverBooted` and `AskedAwaits` beside them.

**`Chain_proofs`, the helper on Linux.** The invariant `Inv` says who may be inside the mutex
(`LockHeld`, `PcKinds`), that session ids are fresh (`Unborn`, `FreshIds`), what the
holder of the mutex may rely on (`HolderKnows`), which cores run at which point of
a start and of a teardown (`CoreStages`) and what a reading in flight can be
(`Readings`). It gives `HelperTypeCorrect`, `NoOrphanCores` (`CoresOwned`), `CachesOwn`
(`CountersOwn`) and `CauseOfTeardown` (`TornDownForCause`), and with a lemma for
each step that the service sees, `ImplementsService`: the daemon implements
`ChainService`. `FlagsAreTrue` is about the extension `HelperStatus`: `Saw` says what a status
call that has read no flag, one or both knows of the states in between, and gives
`StatusTruthful`, that the two flags of an answer hold together in one of them.

**`WindowsHelper_proofs`.** `Base` places the holder of `chainMu` (`Places`), says
that ids are fresh (`Fresh`), that what a session changed of the kinds the journal
knows is on its list and in the journal (`Listed`), and that what a teardown has
passed without error is off it (`Passed`). With `Covered` (a published change is in
the journal until it is undone) it gives `PublishedSessionsRecovered` and
`JournalForgetsLast`, whose condition excludes a failing recovery; with `Owed` it
gives `NothingForgotten` (`HostOwed`), whose condition is that only steps of
starts and teardowns fail. Section 4 has the faults for which they are false. Without
such a condition `ListIsReal` (`OwesReal`): what a session's list says was changed is
changed, so that nothing is restored twice.

**`StoreSync_proofs`.** `Shape` (who holds `StoreLock`, what its locals name), `Fresh`
(nothing is stored under an id that was not given out) and `Clean` (between its
two writes, `Edit` has left no server of the old URL) make `ServersOfCurrentURL`
inductive: `URLHolds`, for failing writes and crashes too. `Written` (what the
holder of the lock has written so far) gives `NoOrphansHold` and `OkHolds` for a
bridge whose writes succeed. `FavouritesHold` is the action property
`FavouritesKept`. `TypeCorrect` is proved along the way.

**`HelperRouting_proofs`.** `TypeCorrect` and `OneChainHolds`. That the daemon runs no
chain while the in-process core does is not inductive: it depends on how the last
exchange with the daemon ended. `CalmInv` says it, for Linux and as long as every exchange
is answered: which exchange the controller has in progress (`CalmCalls`), that the request it
awaits is the only one in the inbox (`CalmInbox`), that the id the client holds is the
daemon's or about to be learnt (`CalmId`), and what the daemon can still be given the
answer that is on its way (`CalmState`). `CoreInv`, which needs none of these conditions,
says who may use the in-process core and what is latched. For the ids, `OrderInv` places
the request that is awaited at the end of the inbox (`Awaited`, `Dialogue`), says what an
answer tells while requests are handled in order (`InOrder`) and what the client's id is
when it is not about to be replaced (`IdKnown`; on Windows also `Unstarted`). It gives
`StopReaches`, `IdleHasNoSession` and the action property `StopSucceeds`, each under the
faults of its condition.

**`ConfigSession_proofs`.** `SafeInv` is about every copy of the rules there is: the file,
the view and the undo baseline of the page, the models that a drag or an undo carries
through the requests, the waiters and the answers, and the link in the clipboard. Each is
`Kept`: it has the safety group of the defaults, and only rules that `Validate` accepts.
That the file alone has them is not inductive, because `ReplaceModel` writes what the page sends
and its guard compares less. With a lemma for each operation of `RulesService` this gives
`SafetyHolds` (`SafetyKept`). `SavedPorts` (ports in range that differ, after any patch)
gives `ProxiesHold`, and with the counters of the two stores `TypeHolds`. `SwitchInv` keeps
the LAN switch a switch through the patches under way. Together they give `SavedBuildsHold`
(`SavedBuilds`): the generator adds no rule that names a rule set, so that what the bridge
fetched for the model is all that the document needs.

`Routes` is about the generator alone: for every valid model, mode, setting and flow the
first route rule that matches decides as `RefVerdict` says. Its lemmas follow the document
part by part. A compiled rule matches what the rule applies to; a part of the document
either passes a flow on or takes it (`Passes`, `Takes`), and two parts one behind the
other do so by their first (`Behind`); the loops of `compileGroup` and `Compile` are
recursive functions, whose equations come from `Iterated`; the LAN rule is left out
exactly when the model has one (`CoversLanIs`). The induction over a loop is `Climb`, by a
least counterexample, because the library's induction theorems cannot be instantiated.
`BuiltInv` (a tunnel that runs was built by `BuildSingbox` from a valid input) makes of it
`RouteFollows` (`RouteFollowsModel`).

**`BridgeSession_proofs`.** `Steady` says what no turn of the renderer's event loop
changes, whatever handlers run in it. On it rest `Draining` (in which order input, context
and forwarder end), for `DrainsBehind` (`NothingLeftBehind`); `Claimed` (the claim of the
automatic connect, and the launches that were counted), for `OneLaunch`
(`AutoConnectOnce`); and `Tabs` (how far the one call of the Logs tab that is under way has
got, with the count of subscribers and the poller), for `PollerFollows`
(`PollerFollowsTab`). `Rostered`, on the workers' table, gives `OneWorker`
(`OneWorkerPerSub`, a part of `WorkersFollow`).

The lines of a log, in the same module. `Lone` (a poller that is not cancelled is the one
that can be, and none runs beside another), `Texts` (what is read is pieces of lines) and
`Streamed` (the buffered lines, the rest that a poll keeps and the file from its offset on
are together what was written, nothing twice) give `LinesReachWhole` (`LinesWhole`). `Shapes`
(what carries a line from the ring to the page, and the ring's window), `Slotted` (one call
or one answer of the tab is under way) and `Converging` (the page, the lines on their way to
it and the ring hold the same lines, in the order of their numbers) give `TabConverges`
(`LogsConverge`). With `PollerFollows` they are `LogTabServed`. The conditions are those of
the properties: which of `quick`, `overlap`, `window`, `swap` and `lag` are absent.

**`Electron_proofs`.** The connection store first. That a Connect is never refused and that
the chain is up only when the user wants it are about the store, the requests and answers on
their way, and the controller at once. `Asked` says what holds of them between any two steps.
`Typed`: what requests, answers and events carry. `Paired`: one call belongs to the sequence
under way, the one that its step names. `Orders`: a Connect that was not yet read is the only
one. `Informed`: while the chain is up, whatever on its way says otherwise is followed by a
line that says so (`Lit`), a sequence that waits for the idle event finds it (`Waiting`), and
every call and line fits the controller once the store has applied it (`CallFits`,
`LineFits`). `Started`: what the two flags of the connect on start promise. `ReadWell`: a
snapshot answers. `Obeyed`: after a click on Disconnect no Connect is to come, and the chain
is down or a Disconnect is on its way. Each carries the condition of the property it serves.
A step is a turn of the store (`StoreTurn`), something the bridge and the controller do on the
store's behalf (`Serves`), or neither (`Elsewhere`). This gives `ConnectNotRefused`
(`NoRefusedConnect`) and `IntentFollowed` (`UserIntent`), with `OneLaunch` the conjunction
`ConnectAsked` (`ConnectAsAsked`). `Limits` (the channel, the output, the ring, the page and the
backlogs on their way are within their bounds) gives `SessionTypes`, the `TypeOK` of
`BridgeSession`, with the parts of the other invariants that it needs.

The supervisor: `Holds` (a child, or a restart timer, or neither), `Processes` (only a held or
awaited process runs, and one that owes an event does not) and `Forwarding` give `NoOrphans`
and `EventsFollow`. `Pace` bounds from below how old the window is at each restart count,
counting the pause that is still running, and gives `FailedUnreachable` (`NeverGivesUp`).
`TypeCorrect` (`SupervisorTypeOK`) needs `Pace` too.

**`Pages_proofs`.** What a page shows is true in the end because, while it is not, a message
is on its way that will change it. `Held` ties the mutex of `withSingleFlight` and the mark
of a read to the requests and answers under way, `Counted` the counters of `settings.ts` to
the parts of its flushes: from them nothing stays stuck (`NothingStuck`). `Lagging` says that a
Routing page that is behind waits for a read or for the answer to a write. `Ordered` says that
every answer to a read either shows the file or is followed by one that has the read repeated,
as long as answers keep their order; `Single` says the same of a user who waits for each
answer (`Waited`). That either is enough is why `RulesConverge` has the condition that it
has. `Settling` and `Naming` do it for the settings. They give `PagesHold`
(`PagesConverge`). `Told` (the last status on its way is the controller's) and `Tracking` (what
the tunnel was built from is what the baseline, the signature or the file say) give
`ToastHolds` (`ToastTells`), and with `SafeInv` the two action properties of `EditsHold`
(`EditsKept`): an undo writes what the tunnel was built from (`RevertRestores`), and the model
that a drag sends has the rules and the groups of the file (`DragKeeps`).

The conjunctions that the runs check are theorems of their own, from their parts:
`OneAttemptHolds`, `SessionsStayApart`, `StoresAgreeHolds`, `OneBridgeHolds`, `LogTabServed`,
`ConnectAsked`.

**Model-checked only.** Everything that must eventually happen, because the prover does not
handle fairness: `ControllerSettles`, `DropReported`, `DaemonSettles`, `BridgeReturns`,
`CallsInFlightFail`, `StopReturns`, the second half of `WorkersFollow`, `FlowEnds`. And one
safety property, `DashFollows`: it compares the dashboard with the controller, the list and
the probes when nothing is on its way, for faults under which any event may be lost, so that
its invariant would have to say of each event which snapshot makes up for it. Its part
`ProbesSettle` depends on the scenarios: when the ids of the servers come back after a
removal, one that left the list between a click on "probe all" and the handler's read of
`servers.json` stays "probing", because nothing removes it from `probeState`. And of course
the violations.

## 6. What is left out

- Numbers and texts: speeds and byte counts, latencies in milliseconds, messages,
  names of servers, quotas of subscriptions.
- The operating system below the calls that the code makes, and the cores: a core
  runs or has exited. That a failed call of `route` or `netsh` changed something is
  modelled only where the code shows that it can (fault `half`).
- In `WindowsHelper` the rollback of a start does not replay the route snapshot, as
  in the code; a DNS override is part of the protocol although the bridge never
  asks for one.
- In `StoreSync` the assignment of ids to fetched connections, `SyncAll` (several
  `SyncOne` at once) and the command line client, which writes the same files without
  the lock. Which of two syncs of one subscription commits last is left to the lock, as
  in the code; both have fetched the present URL.
- In `HelperRouting` the contents of requests, and the granular operations, which do
  nothing in either client; a record of the session that cannot be written or cleared,
  which is a fault of `ChainController`.
- In the configuration modules names, texts, the layout of the document, `xray.go`
  (one outbound), and files that do not parse. A condition of a rule is the set of
  what it names; conditions that must hold together are one set.
- In `ConfigSession` `seedConnectSnapshotFromSnapshot` (`settings.ts:285`), which fills an
  empty connect snapshot from the settings on disk when a window finds a chain that was
  adopted or that was up before it opened: here a window opens before anything connects,
  and the connected event brings the snapshot. For the same reason a status event waits
  until the settings store has started (`StatusEvent`), where the program loses one that
  comes before the listener is registered: no chain exists by then. What the toast says of
  an adopted chain, or in a second window, is therefore not covered.
- In `BridgeSession` the tray, notifications and updates; speeds and byte counts, which
  are noise in the channel; the messages of errors; a second window (there is one).
  What the two stores hold after overlapping syncs is the subject of `StoreSync`, not of
  `RefreshDriver`, where a commit is one step.
- The five writes of `AddNrptRule` and its notification (`dns_windows.go:118`) are one
  step with the fault `half`.
- The parts that `PROJECT.json` lists as `not_modelled`, with the reason: parsers and
  fetcher (strings to records), geo data (download and unpack), installation and
  elevation, authentication and framing, the per-operation handlers of the helper that
  the bridge does not call, the code generator, pages.

## 7. Plan

Done: `ChainController`; `ChainService`, `HelperChain`, `HelperStatus`;
`WindowsHelper`; `StoreSync`; `BridgeSupervisor`; their proofs; `HelperRouting`; the
configuration modules up to `ConfigSession`; the event modules up to `BridgeSession`.
Proved since: every safety and action property that a passing run checks, except
`DashFollows`. Next, in this order:

1. `DashFollows`, part by part: `DashSettles` from `Asked`, with the events that may be lost;
   `ListFollows`; `ProbesSettle` with the condition on ids that come back, and a run that has
   them.
2. `ServerMerge`: `reconcileIncomingIDs`, `availableVariantID` and `Merge` as
   operators, checked against a reference over bounded lists: ids stay unique,
   other sources are untouched, a connection keeps its id and its local fields;
   with it the command line client as an unlocked writer of `StoreSync`.

## 8. Running

    tlc -workers 2 -config ctl_safety.cfg MCChainController
    tlapm Chain_proofs.tla

The module of each run is in `PROJECT.json`. The longest passing runs (`ctl_safety`,
`ev_core`) take two to three minutes. The proofs of `BridgeSession_proofs`, `Electron_proofs`
and `Pages_proofs` take about ten minutes each, those of `ConfigSession_proofs` six, the
others up to four.
