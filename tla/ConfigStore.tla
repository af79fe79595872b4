----------------------------- MODULE ConfigStore -----------------------------
(***************************************************************************)
(* config.json: the defaults of internal/config, the sections and keys     *)
(* that bindings.ConfigStore accepts, and the renderer's view of them.     *)
(* A configuration is a function from keys to values, a patch the same     *)
(* over some of the keys.  One key stands for the keys of a section that   *)
(* differ in nothing but their name.  ConfigStore holds its mutex from     *)
(* Load to Save, so UpdateSection is a function of the stored document.    *)
(***************************************************************************)
EXTENDS Naturals

CONSTANTS Ports   \* what a port field may hold while it is typed; 0 is out of range

ASSUME PortsAssumption == Ports \subseteq Nat

\* The keys each branch of applyPatch knows.
GeneralKeys       == {"autoConnect"}
NetworkKeys       == {"socksPort", "httpPort", "allowLan", "ipv6Mode", "defaultMode"}
KillSwitchKeys    == {"killSwitch"}
SubscriptionKeys  == {"userAgent"}
NotificationKeys  == {"onConnected"}
DebugKeys         == {"logLevel"}

Sections == {"general", "network", "killswitch", "subscriptions", "notifications", "debug"}

\* applyPatch: the section decides which keys are looked at.
KeysOf(section) ==
  CASE section = "general"       -> GeneralKeys
    [] section = "network"       -> NetworkKeys
    [] section = "killswitch"    -> KillSwitchKeys
    [] section = "subscriptions" -> SubscriptionKeys
    [] section = "notifications" -> NotificationKeys
    [] section = "debug"         -> DebugKeys
    [] OTHER                     -> {}

Keys == UNION {KeysOf(s) : s \in Sections}

PortKeys == {"socksPort", "httpPort"}
MaxPort  == 65535

\* What the interface may set a key to; "auto" is a mode only old files have.
Inputs(k) ==
  CASE k \in PortKeys        -> Ports
    [] k = "ipv6Mode"        -> {"prefer-v4", "disabled"}
    [] k = "defaultMode"     -> {"tun", "sysproxy"}
    [] k = "userAgent"       -> {"", "own"}
    [] k = "logLevel"        -> {"info", "debug"}
    [] OTHER                 -> BOOLEAN

\* config.defaults
defaults ==
  [k \in Keys |->
     CASE k = "socksPort"   -> 1080
       [] k = "httpPort"    -> 8888
       [] k = "ipv6Mode"    -> "prefer-v4"
       [] k = "defaultMode" -> "tun"
       [] k = "userAgent"   -> ""
       [] k = "logLevel"    -> "info"
       [] k \in {"killSwitch", "onConnected"} -> TRUE
       [] OTHER             -> FALSE]

\* Network.EffectiveMode
EffectiveMode(c) == IF c["defaultMode"] = "auto" THEN "tun" ELSE c["defaultMode"]

\* The document as Get returns it.
toView(c) ==
  [c EXCEPT !["defaultMode"] = EffectiveMode(c),
            !["userAgent"]   = IF @ = "" THEN "ITGRay" ELSE @]

\* backendToFrontend leaves out a value that the renderer has no name for,
\* such as the log level "warn" of an old file.
Known(k, v) ==
  CASE k = "defaultMode" -> v \in {"tun", "sysproxy"}
    [] k = "ipv6Mode"    -> v \in {"prefer-v4", "prefer-v6", "disabled"}
    [] k = "logLevel"    -> v \in {"error", "info", "debug", "trace"}
    [] OTHER             -> TRUE

backendToFrontend(view) == [k \in {x \in Keys : Known(x, view[x])} |-> view[k]]

\* Variant: every port is taken.
InRangeAny(k, v) == TRUE

\* A port out of range is dropped from the patch without an error.
InRange(k, v) == k \in PortKeys => v \in 1..MaxPort

\* applyGeneral, applyNetwork, ...: the known keys of the patch, in range.
applyPatch(c, section, patch) ==
  [k \in Keys |-> IF k \in DOMAIN patch \cap KeysOf(section) /\ InRange(k, patch[k])
                  THEN patch[k] ELSE c[k]]

validateNetwork(c) == c["socksPort"] # c["httpPort"]

\* Variant: the ports are compared before the patch is merged.
UpdateSectionEarly(c, section, patch) ==
  [ok |-> validateNetwork(c), config |-> applyPatch(c, section, patch)]

\* An unknown section is an error.
UpdateSection(c, section, patch) ==
  LET next == applyPatch(c, section, patch)
      ok   == section \in Sections /\ (section = "network" => validateNetwork(next))
  IN [ok |-> ok, config |-> IF ok THEN next ELSE c]

\* frontendToBackend: the sections a patch touches, and the part of each.
frontendToBackend(patch) ==
  {<<s, [k \in DOMAIN patch \cap KeysOf(s) |-> patch[k]]>> :
     s \in {x \in Sections : DOMAIN patch \cap KeysOf(x) # {}}}

\* The settings whose change needs a reconnect (networkDiffersFromSnapshot).
ReconnectKeys == {"socksPort", "httpPort", "allowLan", "ipv6Mode"}

Differs(c, d) == \E k \in ReconnectKeys : c[k] # d[k]
=============================================================================
