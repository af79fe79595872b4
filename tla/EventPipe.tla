------------------------------ MODULE EventPipe ------------------------------
(***************************************************************************)
(* The bridge's two streams to the interface.  Publishers put events into  *)
(* the hub, which never blocks them and drops the oldest event of a full   *)
(* subscriber; the forwarder takes them out and writes them to the output. *)
(* The dispatcher runs the requests concurrently, as many as its semaphore *)
(* admits, and writes each answer to the same output when it is ready.     *)
(* DashStore, LogStream and RefreshDriver publish, serve and receive.      *)
(***************************************************************************)
EXTENDS Naturals, Sequences, SequencesExt, FiniteSets

CONSTANTS
  Buffer,          \* events the forwarder's channel holds (64)
  MaxConcurrent,   \* handlers at a time (32)
  Pipe             \* lines the output holds before a writer blocks

ASSUME PipeAssumption == {Buffer, MaxConcurrent, Pipe} \subseteq Nat \ {0}

VARIABLES
  queue,    \* the forwarder's channel
  wire,     \* lines of the output that the interface has not read
  calls,    \* the requests not answered, in the order they were sent
  bridge,   \* eof: the input is closed; ctx: not cancelled; fwd: subscribed
  lost,     \* topics of the events that a full channel has dropped
  win,      \* the window: open, and how many there have been
  left,     \* how many actions of each kind users and surroundings still take
  faults    \* what else may happen in this behaviour

pipe == <<queue, wire, calls, bridge, lost>>

Spend(what) == left[what] > 0 /\ left' = [left EXCEPT ![what] = @ - 1]

---------------------------------------------------------------------------
(* hub.Hub and forwarder.Forwarder                                         *)

\* Variant: nothing is dropped.
KeptAll(q, es) == q \o es

\* Hub.Publish, for each of es in turn: a full channel loses its oldest event.
Kept(q, es) == LET all == q \o es
               IN IF Len(all) > Buffer THEN SubSeq(all, Len(all) - Buffer + 1, Len(all)) ELSE all
Dropped(q, es) == LET all == q \o es
                  IN {all[i].topic : i \in 1..(Len(all) - Buffer)}

Publish(es) ==
  IF bridge.fwd THEN queue' = Kept(queue, es) /\ lost' = lost \cup Dropped(queue, es)
  ELSE UNCHANGED <<queue, lost>>

\* hubToProtocol; the forwarder drops what it has no topic for.
Topics == {"vpn:status", "vpn:speed", "chain:error", "helper:state", "sub:synced", "probe:result",
           "servers:changed", "rules:changed", "geo:progress", "log:line"}

\* drain, before and after ctx is done, and Bus.Emit
Forward ==
  /\ bridge.fwd /\ queue # <<>> /\ Len(wire) < Pipe
  /\ queue' = Tail(queue)
  /\ wire' = IF Head(queue).topic \in Topics THEN Append(wire, Head(queue)) ELSE wire
  /\ UNCHANGED <<calls, bridge, lost, win, left, faults>>

\* Variant: the channel is left as soon as ctx is done.
ForwarderExitNow ==
  /\ bridge.fwd /\ ~bridge.ctx
  /\ bridge' = [bridge EXCEPT !.fwd = FALSE]
  /\ UNCHANGED <<queue, wire, calls, lost, win, left, faults>>

\* The flush found the channel empty: Unsubscribe.  Nobody reads what is
\* published from here on.
ForwarderExit ==
  /\ bridge.fwd /\ ~bridge.ctx /\ queue = <<>>
  /\ bridge' = [bridge EXCEPT !.fwd = FALSE]
  /\ UNCHANGED <<queue, wire, calls, lost, win, left, faults>>

---------------------------------------------------------------------------
(* dispatcher.Dispatcher                                                   *)

\* What a handler returns.
Value(v) == [ok |-> TRUE, val |-> v]
Failed   == [ok |-> FALSE, val |-> {}]
Fine     == Value({})

\* A request as the interface sends it; win tells the windows apart.
Request(m, args) ==
  [req |-> [x \in DOMAIN args \cup {"m", "win"} |->
              IF x = "m" THEN m ELSE IF x = "win" THEN win.gen ELSE args[x]],
   st |-> "new", res |-> Failed]

\* The next step of a handler or of a publisher: unless answers lag in this
\* behaviour it waits until the answers that are ready have been written.
Prompt == "lag" \in faults \/ \A i \in DOMAIN calls : calls[i].st # "done"
Runs(i, m, st) == i <= MaxConcurrent /\ calls[i].req.m = m /\ calls[i].st = st /\ Prompt

\* The next stage of a handler, and its end with a result.
Stage(i, st, res) == calls' = [calls EXCEPT ![i].st = st, ![i].res = res]
Finish(i, res)    == Stage(i, "done", res)

\* The answer goes out when its handler has ended.
WriteAnswer(i) ==
  /\ calls[i].st = "done" /\ Len(wire) < Pipe
  /\ wire' = Append(wire, [topic |-> "answer", req |-> calls[i].req, res |-> calls[i].res])
  /\ calls' = RemoveAt(calls, i)
  /\ UNCHANGED <<queue, bridge, lost, win, left, faults>>

\* The main process closes the bridge's input (the application quits).
CloseInput ==
  /\ ~bridge.eof /\ Spend("quits")
  /\ bridge' = [bridge EXCEPT !.eof = TRUE]
  /\ UNCHANGED <<queue, wire, calls, lost, win, faults>>

\* Variant: Serve does not wait for its handlers.
ServeReturnsEarly ==
  /\ bridge.eof /\ bridge.ctx
  /\ bridge' = [bridge EXCEPT !.ctx = FALSE]
  /\ UNCHANGED <<queue, wire, calls, lost, win, left, faults>>

\* Serve ends when its handlers have, and main cancels the context.
ServeReturns ==
  /\ bridge.eof /\ bridge.ctx /\ calls = <<>>
  /\ bridge' = [bridge EXCEPT !.ctx = FALSE]
  /\ UNCHANGED <<queue, wire, calls, lost, win, left, faults>>

PipeStep ==
  \/ Forward \/ ForwarderExit \/ ServeReturns
  \/ \E i \in DOMAIN calls : WriteAnswer(i)

\* What the interface may send: nothing once the input is closed.
CanSend == win.open /\ ~bridge.eof

PipeInit ==
  /\ queue = <<>> /\ wire = <<>> /\ lost = {}
  /\ bridge = [eof |-> FALSE, ctx |-> TRUE, fwd |-> TRUE]

---------------------------------------------------------------------------

\* An event published while the bridge was serving reaches the output, and so
\* does every answer, also when the input is closed at once: the forwarder
\* leaves nothing in its channel and Serve no handler (drain's flush, wg.Wait).
NothingLeftBehind == ~bridge.fwd => queue = <<>> /\ calls = <<>>
=============================================================================
