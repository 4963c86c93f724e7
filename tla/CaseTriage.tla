----------------------------- MODULE CaseTriage -----------------------------
(***************************************************************************)
(* What a briefing of scantrace-agent says of a case                       *)
(* (buildSingleCaseContext, selectActionPlan and classifyDst in            *)
(* internal/handler/handler.go, the tiers of internal/threat/threat.go).   *)
(*                                                                         *)
(* An event is [src, dst, port, proto, type, at]; None and 0 stand for     *)
(* what it does not say.  The ingest of the agent makes events of two      *)
(* types, wan_new_connection and wan_forward; the correlator's cases have  *)
(* those of the collector as well, netfilter_drop for one.                 *)
(***************************************************************************)
EXTENDS Naturals, Sequences

CONSTANTS
    None,     \* no address, no protocol
    WanIP,    \* Handler.wanIP: the gateway's outer address; None if not set
    Score,    \* the IPSum scores of the addresses that are in a list
    Benign,   \* addresses of known research scanners
    Accused   \* addresses AbuseIPDB confirms or that are Tor exits

ASSUME ScoreAssumption == \A a \in DOMAIN Score : Score[a] \in Nat

(* Score of threat.go *)
MaliciousThreshold == 5
BlacklistThreshold == 6

Tier(score) ==
    IF score >= BlacklistThreshold THEN 3
    ELSE IF score >= MaliciousThreshold THEN 2
    ELSE IF score >= 1 THEN 1 ELSE 0

TierBlacklisted == 3

(* A new connection ended at the gateway; anything else did if its         *)
(* destination is the gateway's own address.                               *)
AtWanEdge(e) ==
    \/ e.type = "wan_new_connection"
    \/ WanIP # None /\ e.dst = WanIP

Landed(e) == ~ AtWanEdge(e)

Elements(s) == {s[i] : i \in DOMAIN s}

(* The addresses that are looked up: all but the gateway's own. *)
Addresses(E) ==
    ({e.src : e \in E} \cup ({e.dst : e \in E} \ {WanIP})) \ {None}

(* Has one of the addresses this score, or a higher one? *)
Scored(addresses, feed, score) == \E a \in addresses \cap DOMAIN feed : feed[a] >= score

(* A bug: one new connection is enough for "never reached LAN". *)
TriageStateAnyEdge(E, known, feed, accused) ==
    [wanEdgeOnly   |-> \E e \in E : e.type = "wan_new_connection",
     dstInRegistry |-> \E e \in E : Landed(e) /\ e.dst \in known,
     malicious     |-> \/ Scored(Addresses(E), feed, MaliciousThreshold)
                       \/ Addresses(E) \cap accused # {},
     benign        |-> Addresses(E) \cap Benign # {},
     blacklisted   |-> \E a \in Addresses(E) \cap DOMAIN feed : Tier(feed[a]) >= TierBlacklisted]

(* triageState.  E: the events that could be read; known: the devices      *)
(* listed from the registry; feed: the scores loaded from the IPSum file;  *)
(* accused: the addresses for which the other lookups answered so.         *)
TriageState(E, known, feed, accused) ==
    [wanEdgeOnly   |-> E # {} /\ \A e \in E : e.type = "wan_new_connection",
     dstInRegistry |-> \E e \in E : Landed(e) /\ e.dst \in known,
     malicious     |-> \/ Scored(Addresses(E), feed, MaliciousThreshold)
                       \/ Addresses(E) \cap accused # {},
     benign        |-> Addresses(E) \cap Benign # {},
     blacklisted   |-> \E a \in Addresses(E) \cap DOMAIN feed : Tier(feed[a]) >= TierBlacklisted]

(* The letters of the action plans; the first condition that holds decides. *)
ActionPlan(ts) ==
    CASE ts.blacklisted                       -> "F"
      [] ~ts.blacklisted /\ ts.benign         -> "E"
      [] ~ts.blacklisted /\ ~ts.benign /\ ts.malicious -> "D"
      [] OTHER -> IF ts.wanEdgeOnly THEN "A" ELSE IF ~ts.dstInRegistry THEN "B" ELSE "C"
=============================================================================
