--------------------------- MODULE DetectionRules ---------------------------
(***************************************************************************)
(* The named detection rules of internal/correlator/rules.go and the score *)
(* of a cluster, as operators.                                             *)
(*                                                                         *)
(* A cluster is given by the kind of its source, the ASN the store knows   *)
(* for it, and the set E of its events.  An event is a record with at      *)
(* least a type, a dst port and whether dst is a gateway address; whatever *)
(* else it holds tells events of the same look apart.                      *)
(***************************************************************************)
EXTENDS Naturals, FiniteSets

CONSTANTS
    MinPorts,  \* PortScanRule.MinPorts, 5 in DefaultRules
    MinDrops   \* RepeatedDropRule.MinDrops, 3 in DefaultRules

ASSUME RuleAssumption == MinPorts \in Nat \ {0} /\ MinDrops \in Nat \ {0}

(* What an event's src_ip is: a private address, any other address, or the *)
(* MAC that parseHostapd stores there.                                     *)
SourceKind == {"internal", "external", "mac"}

(* isExternal looks for the prefixes of private addresses, so everything   *)
(* else is external, a MAC included.                                       *)
IsExternal(kind) == kind # "internal"

(* LookupASN: nothing ("" also when the stored entity is a stub), an ASN   *)
(* of knownCloudASNs, or another one.                                      *)
Asn == {"", "cloud", "other"}

ScanEventTypes ==
    {"netfilter_drop", "netfilter_reject", "ids_alert", "suricata_alert",
     "blocked", "conn_attempt", "tcp_syn", "firewall_drop", "firewall_block",
     "portscan_detected", "wan_new_connection", "wan_forward"}

DropTypes ==
    {"netfilter_drop", "netfilter_reject", "ids_alert", "blocked",
     "firewall_drop", "firewall_block"}

DeviceTypes == {"dhcp_dhcpack", "wifi_associated", "wifi_authenticated"}

WellKnownGatewayPorts == {0, 22, 53, 80, 123, 443, 8080, 8443}

RuleType == {"suppressed", "inbound_scan", "port_scan", "repeated_drop",
             "new_device", "generic_scan"}

-----------------------------------------------------------------------------
(* The rules *)

Ports(E)     == {e.port : e \in E}
RealPorts(E) == Ports(E) \ {0}
Drops(E)     == {e \in E : e.type \in DropTypes}

AllEventsToGateway(E) ==
    E # {} /\ \A e \in E : e.gateway /\ e.port \in WellKnownGatewayPorts

(* The correlator always wires LookupASN, so a gateway probe is suppressed *)
(* only when its source is already known to be a cloud's.                  *)
CloudSuppress(kind, asn, E) ==
    IsExternal(kind) /\ AllEventsToGateway(E) /\ asn = "cloud"

(* Mutant: MinPorts is asked for, so events without a port do not count. *)
ExternalScanWithPort(kind, E) ==
    IsExternal(kind) /\ RealPorts(E) # {} /\ \E e \in E : e.type \in ScanEventTypes

(* One scan event is enough, with a port or without: MinPorts is 1 and is  *)
(* not asked for when the events have no ports.                            *)
ExternalScan(kind, E) ==
    IsExternal(kind) /\ \E e \in E : e.type \in ScanEventTypes

(* Mutant: the rule fires at exactly MinPorts ports. *)
PortScanAtMin(kind, E) ==
    ~IsExternal(kind) /\ Cardinality(Ports(E)) = MinPorts

(* cl.Ports counts port 0 as well. *)
PortScan(kind, E) ==
    ~IsExternal(kind) /\ Cardinality(Ports(E)) >= MinPorts

(* Mutant: off by one. *)
RepeatedDropAbove(E) == Cardinality(Drops(E)) > MinDrops

RepeatedDrop(E) == Cardinality(Drops(E)) >= MinDrops

NewDevice(kind, E) ==
    ~IsExternal(kind) /\ \E e \in E : e.type \in DeviceTypes

(* The first rule of DefaultRules that matches; no match is generic_scan. *)
Match(kind, asn, E) ==
    IF CloudSuppress(kind, asn, E) THEN "suppressed"
    ELSE IF ExternalScan(kind, E)  THEN "inbound_scan"
    ELSE IF PortScan(kind, E)      THEN "port_scan"
    ELSE IF RepeatedDrop(E)        THEN "repeated_drop"
    ELSE IF NewDevice(kind, E)     THEN "new_device"
    ELSE "generic_scan"

-----------------------------------------------------------------------------
(* Score and severity.  A score is a fraction n / d; with n events on p    *)
(* real ports it is np / (n + p + 1), without ports n / (n + 5).  The caps *)
(* at 1 and 0.80 are above both thresholds, 0.75 and 0.45.                 *)

(* Mutant: the events are spread over the ports. *)
ScorePerPort(E) ==
    LET n == Cardinality(E)
        p == Cardinality(RealPorts(E))
    IN  IF p = 0 THEN <<n, n + 5>> ELSE <<n, n + p + 1>>

Score(E) ==
    LET n == Cardinality(E)
        p == Cardinality(RealPorts(E))
    IN  IF p = 0 THEN <<n, n + 5>> ELSE <<n * p, n + p + 1>>

AtLeast(score, percent) == 100 * score[1] >= percent * score[2]

Severity(E) ==
    IF AtLeast(Score(E), 75) THEN "high"
    ELSE IF AtLeast(Score(E), 45) THEN "medium"
    ELSE "low"
=============================================================================
