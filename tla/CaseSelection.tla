--------------------------- MODULE CaseSelection ---------------------------
(***************************************************************************)
(* Which cases /scantrace review-all briefs                                *)
(* (internal/handler/review_filters.go), and which addresses /scantrace    *)
(* export-blocklist lists (internal/handler/cmd_export_blocklist.go).      *)
(*                                                                         *)
(* A case is [id, sev, made, updated, events], with its events in the      *)
(* order of RelatedEventIDs; every event and case has its times.           *)
(* ListCases leaves Case.SrcIP empty.                                      *)
(*                                                                         *)
(* A command reads the events of a case again for each question it asks of *)
(* it, one GetEvent after the other, and passes over an event that cannot  *)
(* be read.  lost is the set of the reads that fail: [pass, id, nth], the  *)
(* question, the case and the position of the event.                       *)
(***************************************************************************)
EXTENDS CaseTriage, FiniteSetsExt

CONSTANTS
    Network,             \* the /24 or /64 of an address; None for a MAC
    CidrGroupThreshold,  \* cidrGroupThreshold: 3
    DefaultLimit         \* review-all without --limit: 50

ASSUME LimitAssumption == CidrGroupThreshold \in Nat \ {0, 1} /\ DefaultLimit \in Nat

(* The severities one can ask for, and those a case has. *)
AskedSeverity == {"high", "medium", "low"}
Severity == AskedSeverity \cup {"info"}

Unset == 0  \* no --limit; --since is Unset for "any time"

(* What is in K of s, in the order of s: SelectSeq, by the positions kept. *)
Only(s, K) ==
    LET kept == {i \in DOMAIN s : s[i] \in K}
        Nth(n) == CHOOSE i \in kept : Cardinality({j \in kept : j <= i}) = n
    IN [n \in 1..Cardinality(kept) |-> s[Nth(n)]]

-----------------------------------------------------------------------------
(* The questions asked of a case *)

ReviewPass == {"since", "wan", "edge", "key", "recency"}
ExportPass == {"wan", "since", "recency", "sources"}

Reads(cases, passes) ==
    UNION {[pass : passes, id : {c.id}, nth : DOMAIN c.events] : c \in cases}

Got(c, pass, lost) ==
    {i \in DOMAIN c.events : [pass |-> pass, id |-> c.id, nth |-> i] \notin lost}

Read(c, pass, lost) == {c.events[i] : i \in Got(c, pass, lost)}

(* caseLatestEventTime of a case of which something could be read. *)
Latest(E) == Max({e.at : e \in E})

Recency(c, lost) ==
    LET E == Read(c, "recency", lost) IN IF E = {} THEN c.updated ELSE Latest(E)

IsWanOnly(E) == E # {} /\ \A e \in E : AtWanEdge(e)

SrcIps(E) == {e.src : e \in E} \ {None}

Since(E, now, since) == since = Unset \/ E = {} \/ Latest(E) + since >= now

(* The first event to say so gives the source, and so on; a case that is   *)
(* at the edge as a whole has that for a destination.                      *)
DedupeKey(c, lost) ==
    LET First(values, none) ==
            LET said == {i \in Got(c, "key", lost) : values[i] # none}
            IN IF said = {} THEN none ELSE values[Min(said)]
        Dst == First([i \in DOMAIN c.events |-> c.events[i].dst], None)
    IN <<First([i \in DOMAIN c.events |-> c.events[i].src], None),
         IF IsWanOnly(Read(c, "edge", lost)) THEN "WAN_EDGE" ELSE Dst,
         First([i \in DOMAIN c.events |-> c.events[i].port], 0),
         First([i \in DOMAIN c.events |-> c.events[i].proto], None)>>

(* A bug: the first case of the listing stays, as if it were the newest.   *)
DedupeKeepsFirst(cases, lost) ==
    LET best[n \in 0..Len(cases)] ==
            IF n = 0 THEN {}
            ELSE IF \E j \in best[n - 1] : DedupeKey(cases[j], lost) = DedupeKey(cases[n], lost)
                 THEN best[n - 1] ELSE best[n - 1] \cup {n}
    IN Only(cases, {cases[i] : i \in best[Len(cases)]})

(* One pass over the cases: a later one wins over an earlier one of its    *)
(* key if its latest event is newer.                                       *)
Dedupe(cases, lost) ==
    LET best[n \in 0..Len(cases)] ==
            IF n = 0 THEN {}
            ELSE LET kept == best[n - 1]
                     key == DedupeKey(cases[n], lost)
                     old == {j \in kept : DedupeKey(cases[j], lost) = key}
                 IN IF \A j \in old : Recency(cases[n], lost) > Recency(cases[j], lost)
                    THEN (kept \ old) \cup {n} ELSE kept
    IN Only(cases, {cases[i] : i \in best[Len(cases)]})

Take(s, limit) == SubSeq(s, 1, IF Len(s) < limit THEN Len(s) ELSE limit)

Matches(c, o, now, lost) ==
    /\ c.sev \in o.sevs
    /\ Since(Read(c, "since", lost), now, o.since)
    /\ o.wan => ~ IsWanOnly(Read(c, "wan", lost))

(* filterReviewCases *)
FilterReviewCases(cases, o, now, lost) ==
    LET kept == Only(cases, {c \in Elements(cases) : Matches(c, o, now, lost)})
    IN Take(IF o.dedupe THEN Dedupe(kept, lost) ELSE kept,
            IF o.limit = Unset THEN DefaultLimit ELSE o.limit)

-----------------------------------------------------------------------------
(* The sources of the cases that match, each with the time its newest      *)
(* case was last active, in the order in which they are first met.         *)
Exported(c, o, now, lost) ==
    /\ c.sev \in o.sevs
    /\ o.wan => IsWanOnly(Read(c, "wan", lost))
    /\ Since(Read(c, "since", lost), now, o.since)

ExportRecency(c, lost) ==
    LET E == Read(c, "since", lost) IN IF E = {} THEN Recency(c, lost) ELSE Latest(E)

Sources(c, lost) == SrcIps(Read(c, "sources", lost))

ExportedSources(cases, o, now, lost) ==
    UNION {Sources(c, lost) : c \in {c \in cases : Exported(c, o, now, lost)}}

LastActive(cases, o, now, lost, ip) ==
    Max({ExportRecency(c, lost) :
            c \in {c \in cases : Exported(c, o, now, lost) /\ ip \in Sources(c, lost)}})

Peers(ip, ips) == {x \in ips : Network[x] = Network[ip]}

(* A bug: a network is grouped from one address more on. *)
IsGroupedAbove(ip, ips, group) ==
    group /\ Network[ip] # None /\ Cardinality(Peers(ip, ips)) > CidrGroupThreshold

IsGrouped(ip, ips, group) ==
    group /\ Network[ip] # None /\ Cardinality(Peers(ip, ips)) >= CidrGroupThreshold

(* Larger groups first, then the more recent.  caseSrcIPs ranges over a    *)
(* map, so that nothing else is promised of the order.                     *)
Before(l, k) ==
    \/ l.cidr /\ ~k.cidr
    \/ l.cidr = k.cidr /\ l.count > k.count
    \/ l.cidr = k.cidr /\ l.count = k.count /\ l.last > k.last

(* buildBlocklistLines, before the limit: the line that stands for ip *)
LineFor(ip, cases, o, now, lost) ==
    LET ips  == ExportedSources(cases, o, now, lost)
        cidr == IsGrouped(ip, ips, o.group)
        S    == IF cidr THEN Peers(ip, ips) ELSE {ip}
    IN [covers |-> S, cidr |-> cidr, count |-> Cardinality(S),
        last |-> Max({LastActive(cases, o, now, lost, x) : x \in S})]

BlocklistLines(cases, o, now, lost) ==
    {LineFor(ip, cases, o, now, lost) : ip \in ExportedSources(cases, o, now, lost)}

(* What the limit may leave: the first lines of an order by Before. *)
BuildBlocklistLines(cases, o, now, lost) ==
    LET lines == BlocklistLines(cases, o, now, lost)
        size == IF Cardinality(lines) < o.limit THEN Cardinality(lines) ELSE o.limit
    IN {kept \in SUBSET lines :
            /\ Cardinality(kept) = size
            /\ \A k \in kept, l \in lines \ kept : ~ Before(l, k)}
=============================================================================
