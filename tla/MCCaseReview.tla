---------------------------- MODULE MCCaseReview ----------------------------
(* Two sources of one network and one of another, at the edge of the       *)
(* gateway, through to an inside host, or, as the collector sees it,       *)
(* dropped at the gateway.  A run with one instance for three questions.   *)
EXTENDS CaseReview

CONSTANTS wan, plex, nas, near, mate, lone, net, far, tcp, reviewer

At(dst, type, src, port) ==
    [src |-> src, dst |-> dst, port |-> port, proto |-> tcp, type |-> type]

Edge(src, port)    == At(wan, "wan_new_connection", src, port)
Inside(src, port)  == At(plex, "wan_forward", src, port)
Dropped(src, port) == At(wan, "netfilter_drop", src, port)

MCNetwork == [a \in {near, mate} |-> net] @@ (lone :> far)

(* For one question of one case the nth of its events cannot be read.      *)
Failing(passes, nths) ==
    {{}} \cup {[pass : {pass}, id : {id}, nth : nth] :
                  pass \in passes, id \in 1..MaxCases, nth \in nths}

MCLook ==
    {Edge(near, 80), Inside(near, 80), Edge(mate, 80), Inside(lone, 81)}
MCDrop == {Dropped(near, 80)}

MCScore == (near :> 5) @@ (lone :> 6)

MCSeverityOf == (80 :> "medium") @@ (81 :> "high")

MCReviewOption ==
    {[limit |-> 1, since |-> Unset, sevs |-> {"high", "medium"}, wan |-> FALSE, dedupe |-> TRUE],
     [limit |-> Unset, since |-> 1, sevs |-> Severity, wan |-> TRUE, dedupe |-> TRUE]}

MCExportOption ==
    {[limit |-> 1, since |-> 1, sevs |-> {"high", "medium"}, wan |-> TRUE, group |-> TRUE],
     [limit |-> 2, since |-> 2, sevs |-> {"high", "medium"}, wan |-> FALSE, group |-> FALSE]}

MCOutage ==
    Failing({"brief"} \cup ReviewPass \cup ExportPass, {{1}}) \cup Failing({"recency"}, {1..2})

(* The bounds of the three questions.  A briefing turns on what is         *)
(* registered, reported of and reached, and on no time.                    *)
BriefingScope ==
    /\ now = 0 /\ Len(log) <= 2 /\ created <= 2
    /\ mate \notin {log[i].src : i \in DOMAIN log}
    /\ Said("selection") => report.lost = {}
    /\ ~ Said("blocklist")

(* A selection turns on which of its cases was opened, and active, first.  *)
SelectionScope ==
    /\ Len(log) <= 2 /\ created <= 2
    /\ {log[i].src : i \in DOMAIN log} \subseteq {near}
    /\ "netfilter_drop" \notin {log[i].type : i \in DOMAIN log}
    /\ registry = <<>> /\ feed = <<>>
    /\ commands > 0 => Said("selection")
    /\ ~ Said("blocklist")

(* A blocklist turns on the sources there are, whole networks and others.  *)
ExportScope ==
    /\ created <= 2
    /\ registry = <<>> /\ feed = <<>> /\ commands = 0
    /\ \A i \in DOMAIN log : log[i].src = near => log[i].dst = wan
    /\ "netfilter_drop" \notin {log[i].type : i \in DOMAIN log}

InScope == BriefingScope \/ SelectionScope \/ ExportScope
=============================================================================
