--------------------------- MODULE MCBridgeSession ---------------------------
EXTENDS BridgeSession

MCOffered == [u \in Urls |-> IF u = "a" THEN {"s3"} ELSE {"s4"}]

Kinds == {"clicks", "modes", "probes", "windows", "noise", "drops", "quits", "adds", "subs", "ticks",
          "panics", "tabs", "writes", "rotates", "lines"}
Acts(b) == b @@ [k \in Kinds |-> 0]
NoSubs == [i \in SubIds |-> New]
Plan(b, f, s) ==
  s @@ [left |-> Acts(b), faults |-> f, subs |-> NoSubs, measured |-> Servers,
        open |-> TRUE, loaded |-> TRUE, auto |-> FALSE, chain |-> "idle"]

Tray == [open |-> FALSE, loaded |-> FALSE]
Loads == [loaded |-> FALSE]
Up == [chain |-> "up"]
Sub(u) == [NoSubs EXCEPT !["i1"] = u]

\* Switches of a running connection, with each thing that can go wrong.
Switching ==
  {Plan([clicks |-> 2, modes |-> 1, drops |-> 1], f, Up) :
     f \in {{}, {"bringup", "killswitch"}, {"teardown", "read"}}} \cup
  {Plan([clicks |-> 1, modes |-> 1], f, Up) : f \in {{"slow"}, {"lag"}}}
Hasty == {Plan([clicks |-> 2, modes |-> 1], {"hasty"}, Up)}

\* Connect on start, and a window that is closed and opened again.
Launches == {Plan([clicks |-> 1, windows |-> 1, drops |-> 1], {}, Loads @@ [auto |-> TRUE]),
             Plan([clicks |-> 1, windows |-> 1], {}, Loads @@ [auto |-> TRUE, chain |-> "up"])}

\* Sweeps and probe buttons over a list that a subscription changes.
Sweeps == {Plan([probes |-> 1, windows |-> 1], {}, Loads @@ [measured |-> {}]),
           Plan([ticks |-> 1, probes |-> 1], {}, [subs |-> Sub("a"), measured |-> {}]),
           Plan([adds |-> 1], {"slow"}, Loads @@ [measured |-> {}])}

\* Subscriptions edited under the driver, workers that fail and panic.
Refreshes == {Plan([ticks |-> 2, panics |-> 1], {"fetch", "panic"}, Tray @@ [subs |-> Sub("a")]),
              Plan([subs |-> 2, ticks |-> 1], {}, [subs |-> Sub("a")]),
              Plan([adds |-> 1, subs |-> 1], {"fetch"}, [subs |-> Sub("b")])}

\* A server that goes while it is shown.
Stale == {Plan([subs |-> 1, ticks |-> 1, clicks |-> 1], {}, [subs |-> Sub("a")])}

\* The Logs tab, the rotation of the file, and the races of start and stop.
Logs == {Plan([tabs |-> 3, writes |-> 4, rotates |-> 1], {}, Up),
         Plan([tabs |-> 1, lines |-> 4], {}, Up),
         Plan([tabs |-> 2, writes |-> 2, lines |-> 1], {"swap", "overlap"}, Up),
         Plan([tabs |-> 3, lines |-> 1], {"quick", "overlap"}, Up),
         Plan([tabs |-> 1, writes |-> 4, rotates |-> 1], {"window"}, Up)}

\* A full channel: log lines and samples push out a status that is waited for.
Bursts == {Plan([tabs |-> 1, lines |-> 2, clicks |-> 1], {}, Up),
           Plan([noise |-> 2, clicks |-> 1], {}, Up)}

\* The application quits.
Quits == {Plan([quits |-> 1, clicks |-> 1, windows |-> 1], {}, Up),
          Plan([quits |-> 1, tabs |-> 1, lines |-> 2], {}, Up),
          Plan([quits |-> 1, ticks |-> 1], {"lag"}, [subs |-> Sub("a")])}

MCScenarios ==
  UNION {Switching, Hasty, Launches, Sweeps, Refreshes, Stale, Logs, Bursts, Quits}
=============================================================================
