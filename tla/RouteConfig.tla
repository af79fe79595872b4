----------------------------- MODULE RouteConfig -----------------------------
(***************************************************************************)
(* internal/configgen and the bridge's buildConfigs: from the rules, the   *)
(* network settings and the downloaded rule sets to the parts of the       *)
(* sing-box document that decide where a flow goes (the route rules in     *)
(* their order, the final outbound, the rule sets, the resolvers and the   *)
(* inbounds), and what sing-box then does with a flow.                     *)
(*                                                                         *)
(* A route rule is [dns, conds, out]: whether it asks for DNS traffic, the *)
(* classes and tags of which one must match ({}: no condition), and the    *)
(* outbound or action.                                                     *)
(***************************************************************************)
EXTENDS RulesModel

CONSTANTS TagOf   \* compileRule's conversion of a geo entry to a rule_set tag

Tags == {TagOf[g] : g \in GeoEntries}

ASSUME TagAssumption ==
  /\ DOMAIN TagOf = GeoEntries
  /\ \A g, h \in GeoEntries : TagOf[g] = TagOf[h] => g = h
  /\ Tags \cap (Classes \cup {Malformed}) = {}

---------------------------------------------------------------------------
(* rules.Compile                                                           *)

RouteRule(dns, conds, out) == [dns |-> dns, conds |-> conds, out |-> out]

compileRule(r) ==
  RouteRule(FALSE,
            (r.conds \ GeoEntries) \cup {TagOf[g] : g \in r.conds \cap GeoEntries},
            r.action)

\* The loop over the rules of a group, and the loop over the groups: what is not
\* enabled is passed over, the rest keeps its order.
compileGroup(g) ==
  LET out[k \in 0..Len(g.rules)] ==
        IF k = 0 THEN <<>>
        ELSE IF g.rules[k].enabled THEN Append(out[k - 1], compileRule(g.rules[k]))
        ELSE out[k - 1]
  IN out[Len(g.rules)]

Compile(m) ==
  LET out[k \in 0..Len(m.groups)] ==
        IF k = 0 THEN <<>>
        ELSE IF m.groups[k].enabled THEN out[k - 1] \o compileGroup(m.groups[k])
        ELSE out[k - 1]
  IN out[Len(m.groups)]

collectRuleSetTags(rules) == UNION {r.conds \cap Tags : r \in ToSet(rules)}

\* What the bridge downloads before it builds.
GeoTags(m) == IF ValidateModel(m) THEN collectRuleSetTags(Compile(m)) ELSE {}

---------------------------------------------------------------------------
(* BuildSingbox.  in: tun, allowLan, blockIPv6, socks and http ports, the  *)
(* rules model, and geo, the tags with a local file.                       *)

sniffRule     == RouteRule(FALSE, {}, "sniff")
lanBypassRule == RouteRule(FALSE, Lan, "direct")
hijackDnsRule == RouteRule(TRUE, {}, "hijack-dns")
blockIPv6Rule == RouteRule(FALSE, {"net6", "lan6"}, "block")   \* ::/0
proxyRule     == RouteRule(FALSE, {}, "proxy")

\* Right after the sniff action.
prependLanBypass(rules) == <<rules[1], lanBypassRule>> \o Tail(rules)

hasEquivalentLanBypass(rules) ==
  \E r \in ToSet(rules) : r.out = "direct" /\ Lan \subseteq r.conds

\* Variant: the LAN rule goes before the DNS rule.
applyTunModeKillswitchLanFirst(rules, prepended, blockIPv6) ==
  <<rules[1]>> \o (IF prepended \/ hasEquivalentLanBypass(rules) THEN <<>> ELSE <<lanBypassRule>>)
     \o Tail(rules) \o <<hijackDnsRule>>
     \o (IF blockIPv6 THEN <<blockIPv6Rule>> ELSE <<>>) \o <<proxyRule>>

applyTunModeKillswitch(rules, prepended, blockIPv6) ==
  <<rules[1], hijackDnsRule>>
     \o (IF prepended \/ hasEquivalentLanBypass(rules) THEN <<>> ELSE <<lanBypassRule>>)
     \o Tail(rules)
     \o (IF blockIPv6 THEN <<blockIPv6Rule>> ELSE <<>>) \o <<proxyRule>>

\* The servers of the dns block; all but fakeip and local go through proxy.
dnsServers(in)  == IF in.tun THEN {"remote", "fakeip", "local"} ELSE {"default", "local"}
dnsFinal(in)    == IF in.tun THEN "remote" ELSE "default"
dnsAnswersA(in) == IF in.tun THEN "fakeip" ELSE "default"

defaultDomainResolverFor(in) == IF in.tun THEN "remote" ELSE "default"

localProxyInbounds(socks, http) ==
  (IF socks > 0 THEN {<<"socks", socks>>} ELSE {})
    \cup (IF http > 0 /\ http # socks THEN {<<"http", http>>} ELSE {})

buildInbounds(in) ==
  IF in.tun THEN {<<"tun", 0>>} \cup localProxyInbounds(in.socks, in.http)
  ELSE IF in.http > 0 /\ in.http # in.socks THEN localProxyInbounds(in.socks, in.http)
  ELSE {<<"mixed", in.socks>>}

\* The route rules of the document.
routeRules(in) ==
  LET sniffed == <<sniffRule>> \o Compile(in.rules)
      lan     == IF in.allowLan THEN prependLanBypass(sniffed) ELSE sniffed
  IN IF in.tun THEN applyTunModeKillswitch(lan, in.allowLan, in.blockIPv6) ELSE lan

\* A tag without a local file fails the build.
BuildSingbox(in) ==
  LET rules == routeRules(in)
  IN [ok       |-> ValidateModel(in.rules) /\ collectRuleSetTags(rules) \subseteq in.geo,
      rules    |-> rules,
      final    |-> IF in.tun THEN "block" ELSE in.rules.default,
      sets     |-> collectRuleSetTags(rules),
      servers  |-> dnsServers(in),
      resolver |-> {defaultDomainResolverFor(in), dnsFinal(in), dnsAnswersA(in), "local"},
      inbounds |-> buildInbounds(in)]

---------------------------------------------------------------------------
(* sing-box, as the generator's comments describe it: the rules are tried  *)
(* in order, sniff only inspects, and final takes what no rule matched.    *)

Flows == [dst : Classes, tags : SUBSET Tags, dns : BOOLEAN]

Matches(r, f) ==
  /\ r.out # "sniff"
  /\ r.dns => f.dns
  /\ r.conds = {} \/ f.dst \in r.conds \/ f.tags \cap r.conds # {}

Verdict(doc, f) ==
  LET i == SelectInSeq(doc.rules, LAMBDA r : Matches(r, f))
  IN IF i = 0 THEN doc.final ELSE doc.rules[i].out

---------------------------------------------------------------------------
(* The reference: what the rules model says of a flow.                     *)

\* An enabled rule of an enabled group, by its place.
Places(m) ==
  {p \in UNION {{i} \X (1..Len(m.groups[i].rules)) : i \in 1..Len(m.groups)} :
     m.groups[p[1]].enabled /\ m.groups[p[1]].rules[p[2]].enabled}

Applies(r, f) == \E c \in r.conds : c = f.dst \/ (c \in GeoEntries /\ TagOf[c] \in f.tags)

\* The action of the first rule that applies, or otherwise.
FirstAction(m, f, otherwise) ==
  LET hit == {p \in Places(m) : Applies(m.groups[p[1]].rules[p[2]], f)}
  IN IF hit = {} THEN otherwise
     ELSE LET p == CHOOSE p \in hit : \A q \in hit : p[1] < q[1] \/ (p[1] = q[1] /\ p[2] <= q[2])
          IN m.groups[p[1]].rules[p[2]].action

\* The model has the LAN in a rule of its own and need not be given one.
CoversLan(m) ==
  \E p \in Places(m) : LET r == m.groups[p[1]].rules[p[2]]
                       IN r.action = "direct" /\ Lan \subseteq r.conds

RefVerdict(in, f) ==
  IF in.tun /\ f.dns THEN "hijack-dns"
  ELSE IF f.dst \in Lan /\ (in.allowLan \/ (in.tun /\ ~CoversLan(in.rules))) THEN "direct"
  ELSE FirstAction(in.rules, f,
         IF ~in.tun THEN in.rules.default
         ELSE IF in.blockIPv6 /\ f.dst \in {"net6", "lan6"} THEN "block" ELSE "proxy")
=============================================================================
