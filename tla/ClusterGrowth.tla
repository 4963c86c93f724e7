---------------------------- MODULE ClusterGrowth ----------------------------
(***************************************************************************)
(* Correlator.cluster gathers the events of one source, one by one, and    *)
(* later cycles see the cluster with more of them.  What the rules say of  *)
(* the source on the way: does reporting more ever make a scan look        *)
(* smaller, hide it, or name it for the other side of the network?         *)
(***************************************************************************)
EXTENDS DetectionRules

CONSTANTS
    Look,      \* the events there are: [type, port, gateway]
    MaxEvents  \* Config.MaxEvents: no cluster is larger

ASSUME LookAssumption ==
    /\ Look \subseteq [type : STRING, port : Nat, gateway : BOOLEAN]
    /\ MaxEvents \in Nat

VARIABLES
    kind,    \* what the cluster's SrcIP is
    asn,     \* the ASN the store has for it
    events   \* cl.Events; n tells events of the same look apart

vars == <<kind, asn, events>>

WifiTypes == {"wifi_associated", "wifi_authenticated", "wifi_disassociated"}

(* Wi-Fi events have the station's MAC as source, and no others have. *)
LooksOf(k) == {l \in Look : k = "mac" <=> l.type \in WifiTypes}

Alike(l) == {e \in events : e.type = l.type /\ e.port = l.port /\ e.gateway = l.gateway}

NewEvent(l) == [type |-> l.type, port |-> l.port, gateway |-> l.gateway,
                n |-> Cardinality(Alike(l)) + 1]

Init ==
    /\ kind \in SourceKind
    /\ asn \in IF kind = "external" THEN Asn ELSE {""}
    /\ events = {}

AddEvent(l) ==
    /\ Cardinality(events) < MaxEvents
    /\ events' = events \cup {NewEvent(l)}
    /\ UNCHANGED <<kind, asn>>

Next == \E l \in LooksOf(kind) : AddEvent(l)

Spec == Init /\ [][Next]_vars

-----------------------------------------------------------------------------

Rule == Match(kind, asn, events)

SeverityRank(s) == CASE s = "low" -> 1 [] s = "medium" -> 2 [] s = "high" -> 3

(* From what says least of a source to what says most. *)
RuleRank(r) ==
    CASE r = "suppressed"    -> 0 [] r = "generic_scan" -> 1
      [] r = "new_device"    -> 2 [] r = "repeated_drop" -> 3
      [] r = "port_scan"     -> 4 [] r = "inbound_scan"  -> 5

(* computeScore: one more event, on an old port, a new port or no port,    *)
(* never lowers the severity of a source.                                  *)
SeverityNeverDrops ==
    [][SeverityRank(Severity(events')) >= SeverityRank(Severity(events))]_vars

(* DefaultRules, first match: a source that adds events to what was seen   *)
(* of it cannot get itself suppressed, or reported by a weaker rule.       *)
(* (The empty cluster has not been looked at by any rule.)                 *)
RuleNeverWeakens ==
    [][events # {} => RuleRank(Match(kind', asn', events')) >= RuleRank(Rule)]_vars

(* The rules for the inside never name an outside address, and the other  *)
(* way round; RepeatedDropRule does not ask, but whatever it counts is a   *)
(* scan event, which ExternalScanRule sees first (rules.go:384).  Nothing  *)
(* is said of a Wi-Fi station: its source is a MAC, which isExternal takes *)
(* for an outside address, while build_order.md:146 expects a new device.  *)
RulesKeepSides ==
    /\ kind = "external" => Rule \in {"suppressed", "inbound_scan", "generic_scan"}
    /\ kind = "internal" => Rule \in {"port_scan", "repeated_drop", "new_device", "generic_scan"}

(* A source that was blocked MinDrops times is never just a generic scan.  *)
BlockedIsNamed ==
    Cardinality(Drops(events)) >= MinDrops => Rule \notin {"new_device", "generic_scan"}
=============================================================================
