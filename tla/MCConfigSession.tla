--------------------------- MODULE MCConfigSession ---------------------------
(* A small instance of ConfigSession. *)
EXTENDS ConfigSession

\* One geo entry, an address rule, and one that does not validate.
MCGeoEntries == {"geosite:ru"}
MCTagOf      == [g \in MCGeoEntries |-> "geosite-ru"]
MCNewIds     == <<"n1", "n2", "n3", "n4", "n5", "n6", "n7", "n8">>
MCRuleInputs ==
  {[id |-> "", enabled |-> TRUE, action |-> "direct", conds |-> {"geosite:ru"}],
   [id |-> "", enabled |-> TRUE, action |-> "block", conds |-> {"lan4", "net6"}],
   [id |-> "", enabled |-> TRUE, action |-> "direct", conds |-> {Malformed}]}

\* A link of one group, and one whose rule does not validate.
Shared == <<[name |-> "shared", rules |-> <<[id |-> "", enabled |-> TRUE, action |-> "proxy", conds |-> {"net4"}]>>]>>
Broken == <<[name |-> "broken", rules |-> <<[id |-> "", enabled |-> TRUE, action |-> "proxy", conds |-> {}]>>]>>

\* Files of an older version: no default action, the mode "auto", a level that
\* the renderer does not know.
OldRules  == <<[DefaultModel EXCEPT !.default = ""]>>
OldConfig == [defaults EXCEPT !["defaultMode"] = "auto", !["ipv6Mode"] = "disabled",
                               !["logLevel"] = "warn"]
SysProxy  == [defaults EXCEPT !["defaultMode"] = "sysproxy", !["allowLan"] = TRUE]

MCPorts == {0, 1080, 9999}

None == [edits |-> 0, sets |-> 0, modes |-> 0, connects |-> 0, dismissals |-> 0, links |-> 0]

\* Edits of the rules; rules, connects and the toast; settings; settings and
\* connects; an interface that is just opening.
Editing(f, l) == [rules |-> <<>>, config |-> defaults, link |-> l, fresh |-> FALSE, faults |-> f,
                  left |-> [None EXCEPT !.edits = 2, !.links = 1]]
Running(f, c) == [rules |-> <<>>, config |-> c, link |-> <<>>, fresh |-> FALSE, faults |-> f,
                  left |-> [None EXCEPT !.edits = 2, !.connects = 2, !.dismissals = 1]]
Setting(f, c) == [rules |-> <<>>, config |-> c, link |-> <<>>, fresh |-> FALSE, faults |-> f,
                  left |-> [None EXCEPT !.sets = 2, !.modes = 1]]
Tuning(f, c)  == [rules |-> <<>>, config |-> c, link |-> <<>>, fresh |-> FALSE, faults |-> f,
                  left |-> [None EXCEPT !.sets = 1, !.connects = 2, !.dismissals = 1]]
Opening(f, c) == [rules |-> OldRules, config |-> c, link |-> Broken, fresh |-> TRUE, faults |-> f,
                  left |-> [None EXCEPT !.edits = 1, !.connects = 1]]

MCScenarios ==
       {Editing(f, Shared) : f \in {{}, {"hasty"}, {"reorder", "save"}}}
  \cup {Running({}, c) : c \in {OldConfig, SysProxy}} \cup {Running(f, defaults) : f \in {{"build"}, {"rush"}}}
  \cup {Setting(f, defaults) : f \in {{}, {"save"}}} \cup {Setting({}, OldConfig)}
  \cup {Tuning({}, OldConfig), Tuning({"reorder"}, defaults)}
  \cup {Opening(f, OldConfig) : f \in {{}, {"list", "get"}, {"rush", "hasty"}}}
=============================================================================
