------------------------------ MODULE LogStream ------------------------------
(***************************************************************************)
(* The Logs tab: the helper's log file and its rotation, ReadLogs by       *)
(* offset, logstream.Poller that cuts what it reads into lines,            *)
(* logstream.Buffer that numbers, keeps and publishes them, LogService's   *)
(* subscription count and the renderer's logStore.  One file stands for    *)
(* the three, which share nothing but the goroutine that reads them.       *)
(***************************************************************************)
EXTENDS EventPipe

CONSTANTS
  Chunk,       \* pieces of a file one ReadLogs returns (512 KiB)
  Cap,         \* lines the buffer keeps of a source (2000)
  TailLimit,   \* lines that Start hands back (500)
  Keep         \* lines the renderer keeps (1600)

ASSUME LogAssumption == {Chunk, Cap, TailLimit, Keep} \subseteq Nat \ {0} /\ TailLimit <= Cap /\ TailLimit <= Keep

\* A line is written in two pieces, of which the second ends it; line 0 is any
\* line of the bridge itself.
Piece(n, end) == [line |-> n, end |-> end]
Whole(n) == <<Piece(n, FALSE), Piece(n, TRUE)>>

Pollers == {1, 2}

VARIABLES
  file,     \* there: it exists; body: its pieces; next: the piece to come;
            \* gen: how often it has been rotated
  lf,       \* logFile: offset and rest; gen: the file they belong to
  poll,     \* the goroutines of Poller.Start
  cancel,   \* Poller.cancel: which of them, or 0
  buf,      \* Buffer: seq, the rings of the sources in order of seq, subs
  pend,     \* entries that are in the ring and not yet published
  logs      \* logStore: the tab is open, entries, lastSeq, off

logv == <<file, lf, poll, cancel, buf, pend, logs>>

NoPoll == [at |-> "none", live |-> FALSE, got |-> [data |-> <<>>, off |-> 0, cut |-> FALSE, gen |-> 0]]
NoLogs == [tab |-> FALSE, entries |-> <<>>, last |-> 0, on |-> FALSE]

LogInit ==
  /\ file = [there |-> TRUE, body |-> <<>>, next |-> Piece(1, FALSE), gen |-> 0]
  /\ lf = [offset |-> 0, rest |-> <<>>, gen |-> 0]
  /\ poll = [k \in Pollers |-> NoPoll] /\ cancel = 0
  /\ buf = [seq |-> 0, ring |-> <<>>, subs |-> 0] /\ pend = <<>>
  /\ logs = NoLogs

Lastly(s, n) == SubSeq(s, IF Len(s) > n THEN Len(s) - n + 1 ELSE 1, Len(s))

---------------------------------------------------------------------------
(* The helper                                                              *)

\* A core or the helper writes its next piece.  Unless this behaviour has a
\* "window", a poll comes between the rotation of the file and its growth, and
\* none while there is no file.
WriteLog ==
  /\ file.there /\ (lf.gen = file.gen \/ "window" \in faults)
  /\ file' = [file EXCEPT !.body = Append(@, file.next),
                !.next = IF @.end THEN Piece(@.line + 1, FALSE) ELSE Piece(@.line, TRUE)]
  /\ UNCHANGED <<lf, poll, cancel, buf, pend, logs>>

\* RotateLog renames the file of the session before; a line it had not ended
\* stays unended.
RotateLog ==
  /\ file.there
  /\ file' = [there |-> FALSE, body |-> <<>>, next |-> Piece(file.next.line + 1, FALSE), gen |-> file.gen + 1]
  /\ UNCHANGED <<lf, poll, cancel, buf, pend, logs>>

\* supervisor.Spawn opens a fresh one (O_CREATE, O_TRUNC).
OpenLog ==
  /\ ~file.there /\ file' = [file EXCEPT !.there = TRUE]
  /\ UNCHANGED <<lf, poll, cancel, buf, pend, logs>>

\* NewReadLogsHandler
ReadLogs(offset) ==
  IF ~file.there THEN [data |-> <<>>, off |-> 0, cut |-> FALSE, gen |-> file.gen]
  ELSE LET cut  == Len(file.body) < offset
           from == IF cut THEN 0 ELSE offset
           to   == IF Len(file.body) < from + Chunk THEN Len(file.body) ELSE from + Chunk
       IN [data |-> SubSeq(file.body, from + 1, to), off |-> to, cut |-> cut, gen |-> file.gen]

---------------------------------------------------------------------------
(* logstream.Poller and logstream.Buffer                                   *)

\* pollOnce: the call, and what it returns.  A goroutine is between two polls
\* ("tick"), or has an answer to apply.  A call that fails changes nothing.
PollReads(k) ==
  /\ poll[k].at = "tick" /\ poll[k].live /\ (file.there \/ "window" \in faults)
  /\ poll' = [poll EXCEPT ![k] = [@ EXCEPT !.at = "apply", !.got = ReadLogs(lf.offset)]]
  /\ UNCHANGED <<file, lf, cancel, buf, pend, logs>>

\* The call of a cancelled context fails, or its answer comes all the same.
PollFails(k) ==
  /\ poll[k].at = "apply" /\ ~poll[k].live
  /\ poll' = [poll EXCEPT ![k] = [NoPoll EXCEPT !.at = "tick"]]
  /\ UNCHANGED <<file, lf, cancel, buf, pend, logs>>

PollEnds(k) ==
  /\ poll[k].at = "tick" /\ ~poll[k].live
  /\ poll' = [poll EXCEPT ![k] = NoPoll]
  /\ UNCHANGED <<file, lf, cancel, buf, pend, logs>>

\* The n-th number of a finite set, and the elements of s at the places in S.
Nth(S, n) == CHOOSE k \in S : Cardinality({j \in S : j <= k}) = n
At(s, S)  == [n \in 1..Cardinality(S) |-> s[Nth(S, n)]]

\* The lines a text holds, and what follows the last one.
Ends(text)    == {j \in DOMAIN text : text[j].end}
From(text, k) == 1 + Max({0} \cup {j \in Ends(text) : j < k})
Lines(text)   == [n \in 1..Cardinality(Ends(text)) |->
                    LET k == Nth(Ends(text), n) IN SubSeq(text, From(text, k), k)]
Rest(text)    == SubSeq(text, From(text, Len(text) + 1), Len(text))

\* Each source keeps its latest lines.
Source(e) == e.line[1].line = 0
Capped(ring) ==
  LET later(n) == {m \in (n + 1)..Len(ring) : Source(ring[m]) = Source(ring[n])}
  IN At(ring, {n \in DOMAIN ring : Cardinality(later(n)) < Cap})

\* Variant: the first subscriber is not counted.
AddForOthers(ls) ==
  LET new == [n \in 1..Len(ls) |-> [seq |-> buf.seq + n, line |-> ls[n]]]
  IN /\ buf' = [buf EXCEPT !.seq = @ + Len(ls), !.ring = Capped(@ \o new)]
     /\ pend' = IF buf.subs > 1 THEN pend \o new ELSE pend

\* Add, for each of ls: number it, keep it, and publish it if anyone listens.
Add(ls) ==
  LET new == [n \in 1..Len(ls) |-> [seq |-> buf.seq + n, line |-> ls[n]]]
  IN /\ buf' = [buf EXCEPT !.seq = @ + Len(ls), !.ring = Capped(@ \o new)]
     /\ pend' = IF buf.subs > 0 THEN pend \o new ELSE pend

\* Variant: what was left of the old file is kept.
PollApplyKeepsRest(k) ==
  LET got == poll[k].got  text == lf.rest \o got.data
  IN /\ poll[k].at = "apply"
     /\ lf' = [offset |-> got.off, rest |-> Rest(text), gen |-> got.gen]
     /\ Add(Lines(text))
     /\ poll' = [poll EXCEPT ![k].at = "tick", ![k].got = NoPoll.got]
     /\ UNCHANGED <<file, cancel, logs>>

PollApply(k) ==
  LET got == poll[k].got  text == (IF got.cut THEN <<>> ELSE lf.rest) \o got.data
  IN /\ poll[k].at = "apply"
     /\ lf' = [offset |-> got.off, rest |-> Rest(text), gen |-> got.gen]
     /\ Add(Lines(text))
     /\ poll' = [poll EXCEPT ![k].at = "tick", ![k].got = NoPoll.got]
     /\ UNCHANGED <<file, cancel, logs>>

\* The bridge's own lines, from any of its goroutines (NewTapHandler).
BridgeLog ==
  /\ Add(<<<<Piece(0, TRUE)>>>>)
  /\ UNCHANGED <<file, lf, poll, cancel, logs>>

\* The publish that follows the unlock; two of them may change places.
PublishLine(j) ==
  /\ j \in DOMAIN pend /\ (j = 1 \/ "swap" \in faults) /\ Prompt
  /\ Publish(<<[topic |-> "log:line", entry |-> pend[j]]>>)
  /\ pend' = RemoveAt(pend, j)
  /\ UNCHANGED <<file, lf, poll, cancel, buf, logs>>

---------------------------------------------------------------------------
(* LogService                                                              *)

\* Poller.Start, unless one is running, and Poller.Stop
StartPoller ==
  IF cancel # 0 THEN UNCHANGED <<poll, cancel>>
  ELSE \E k \in {k \in Pollers : poll[k].at = "none"} :
         /\ poll' = [poll EXCEPT ![k] = [NoPoll EXCEPT !.at = "tick", !.live = TRUE]]
         /\ cancel' = k
StopPoller ==
  IF cancel = 0 THEN UNCHANGED <<poll, cancel>>
  ELSE poll' = [poll EXCEPT ![cancel].live = FALSE] /\ cancel' = 0

\* LogService.Start: Subscribe, then the poller for the first one, then Tail.
LogsStart(i) ==
  /\ Runs(i, "logs.start", "new")
  /\ buf' = [buf EXCEPT !.subs = @ + 1]
  /\ Stage(i, IF buf.subs = 0 THEN "poller" ELSE "tail", Failed)
  /\ UNCHANGED <<file, lf, poll, cancel, pend, logs>>

LogsStartPoller(i) ==
  /\ Runs(i, "logs.start", "poller")
  /\ StartPoller /\ Stage(i, "tail", Failed)
  /\ UNCHANGED <<file, lf, buf, pend, logs>>

LogsTail(i) ==
  /\ Runs(i, "logs.start", "tail")
  /\ Finish(i, Value(Lastly(buf.ring, TailLimit)))
  /\ UNCHANGED <<file, lf, poll, cancel, buf, pend, logs>>

\* LogService.Stop: Unsubscribe, then the poller with the last one.
LogsStop(i) ==
  /\ Runs(i, "logs.stop", "new")
  /\ buf' = [buf EXCEPT !.subs = IF @ > 0 THEN @ - 1 ELSE 0]
  /\ IF buf.subs <= 1 THEN Stage(i, "poller", Failed) ELSE Finish(i, Fine)
  /\ UNCHANGED <<file, lf, poll, cancel, pend, logs>>

\* Variant: the poller keeps running.
LogsStopForgets(i) ==
  /\ Runs(i, "logs.stop", "poller")
  /\ Finish(i, Fine)
  /\ UNCHANGED <<file, lf, poll, cancel, buf, pend, logs>>

LogsStopPoller(i) ==
  /\ Runs(i, "logs.stop", "poller")
  /\ StopPoller /\ Finish(i, Fine)
  /\ UNCHANGED <<file, lf, buf, pend, logs>>

---------------------------------------------------------------------------
(* logStore                                                                *)

\* append: what is not newer than the last one shown is dropped.
Newer(list, last) == At(list, {n \in DOMAIN list : list[n].seq > last})
Shown(l, list) ==
  LET new == Newer(list, l.last)
  IN [l EXCEPT !.entries = Lastly(@ \o new, Keep),
               !.last = IF new = <<>> THEN @ ELSE new[Len(new)].seq]

\* The Logs page mounts and unmounts.
OpenTab ==
  /\ CanSend /\ ~logs.tab
  /\ logs' = [logs EXCEPT !.tab = TRUE]
  /\ calls' = Append(calls, Request("logs.start", <<>>))
  /\ UNCHANGED <<file, lf, poll, cancel, buf, pend>>

CloseTab ==
  /\ CanSend /\ logs.tab
  /\ logs' = [logs EXCEPT !.tab = FALSE, !.on = FALSE]
  /\ calls' = Append(calls, Request("logs.stop", <<>>))
  /\ UNCHANGED <<file, lf, poll, cancel, buf, pend>>

\* startLogs after its await, also when the page has gone meanwhile.
StartAnswer(res) == logs' = [Shown(logs, res) EXCEPT !.on = TRUE]

OnLogLine(e) == logs' = IF logs.on THEN Shown(logs, <<e>>) ELSE logs
=============================================================================
