----------------------------- MODULE CaseReview -----------------------------
(***************************************************************************)
(* The commands with which an analyst works through the cases of           *)
(* scantrace-agent: review-all and next, which brief cases from a          *)
(* goroutine of their own, adddevice and removedevice, and                 *)
(* export-blocklist (internal/handler/handler.go, review_filters.go,       *)
(* cmd_export_blocklist.go; internal/db/known_devices.go).  Meanwhile the  *)
(* ingest opens cases, adds to them and rolls them up, the correlator of   *)
(* a collector on the same database opens others, and the IPSum file is    *)
(* reloaded (internal/threat/threat.go).                                   *)
(*                                                                         *)
(* A command selects among the cases as they are; its goroutine keeps what *)
(* it selected, event ids included, and briefs one case after the other    *)
(* with the registry and the feed of that later moment (a reload between   *)
(* two addresses of one case is left out).  Any of the reads of a command  *)
(* may fail: of an event, which is then passed over, of the registry,      *)
(* which is then taken for empty; only a failed ListCases ends it.         *)
(*                                                                         *)
(* Of a status only this is modelled, that to set it is an update.         *)
(* Failures of the ingest's calls are in SyslogIngest, the window, the     *)
(* rules and the deduplication of the correlator in Correlation.           *)
(***************************************************************************)
EXTENDS CaseSelection, SequencesExt

CONSTANTS
    AgentLook,       \* what is to tell of a line: [src, dst, port, proto, type]
    CollectorLook,   \* and of an event of the collector
    SeverityOf,      \* the severity a port gives its case
    KnownPort,       \* knownPorts
    BurstThreshold,  \* burstThreshold
    BurstMaxEvents,  \* burstMaxEvents
    ClusterThreshold,\* Config.Threshold of the correlator
    ReviewOption,    \* options of review-all: [limit, since, sevs, wan, dedupe]
    ExportOption,    \* options of export-blocklist: [limit, since, sevs, wan, group]
    Host,            \* addresses an analyst registers
    Reviewer,        \* goroutines that brief
    MaxListed,       \* the limit of ListCases: 200
    MaxDevices,      \* the limit of ListKnownDevices: 30
    Outage,          \* the sets of reads that may fail during one command
    MaxEvents,       \* bound: events
    MaxCases,        \* bound: cases
    Moment,          \* bound: the times at which things happen
    MaxCommands      \* bound: commands that start a review

ASSUME LookAssumption ==
    \A l \in AgentLook :
        /\ l.type \in {"wan_new_connection", "wan_forward"}
        /\ l.src \in DOMAIN Network
        /\ l.port \in DOMAIN SeverityOf

ASSUME OptionAssumption ==
    /\ \A o \in ReviewOption :
          o.limit \in Nat /\ o.since \in Nat /\ o.sevs \in (SUBSET AskedSeverity) \cup {Severity}
    /\ \A o \in ExportOption :
          o.limit \in Nat \ {0} /\ o.since \in Nat /\ o.sevs \in SUBSET AskedSeverity

ASSUME BoundAssumption ==
    /\ \A p \in DOMAIN SeverityOf : SeverityOf[p] \in AskedSeverity
    /\ BurstThreshold \in Nat \ {0} /\ BurstMaxEvents \in Nat /\ ClusterThreshold \in Nat \ {0}
    /\ MaxListed \in Nat /\ MaxDevices \in Nat
    /\ MaxEvents \in Nat /\ MaxCases \in Nat /\ MaxCommands \in Nat
    /\ Moment \subseteq Nat

VARIABLES
    cases,     \* the rows of the cases, each with its events
    created,   \* how many cases there have been
    log,       \* the events in the order in which they were inserted
    now,       \* the time
    index,     \* caseIndex: the case of a network and a port; 0 if none
    buffer,    \* the burst buffer: [id, sev, event], as the cases were opened
    merging,   \* the stubs the running roll-up has still to delete
    registry,  \* the registered addresses in the order of updated_at
    feed,      \* Enricher.ipsum
    queue,     \* what each goroutine has still to brief
    report,    \* what the last command or briefing said
    commands

store   == <<cases, created, log>>
ingest  == <<index, buffer, merging>>
analyst == <<registry, queue, commands>>
vars    == <<store, now, ingest, analyst, feed, report>>

Key(l) == <<Network[l.src], l.port>>

TypeOK ==
    /\ created \in 0..MaxCases
    /\ \A c \in cases : c.id \in 1..created /\ c.sev \in Severity /\ c.events # <<>>
    /\ \A c, d \in cases : c.id = d.id => c = d
    /\ Len(log) <= MaxEvents + 1
    /\ now \in Moment \cup {0}
    /\ index \in [{Key(l) : l \in AgentLook} -> 0..created]
    /\ registry \in Seq(Host)
    /\ feed \in {Score, <<>>}
    /\ DOMAIN queue = Reviewer
    /\ \A r \in Reviewer : \A c \in Elements(queue[r]) : c.id \in 1..created
    /\ commands \in 0..MaxCommands

Init ==
    /\ cases = {}
    /\ created = 0
    /\ log = <<>>
    /\ now = 0
    /\ index = [k \in {Key(l) : l \in AgentLook} |-> 0]
    /\ buffer = <<>>
    /\ merging = <<>>
    /\ registry = <<>>
    /\ feed \in {Score, <<>>}
    /\ queue = [r \in Reviewer |-> <<>>]
    /\ report = None
    /\ commands = 0

-----------------------------------------------------------------------------
(* The ingest keeps a case for the network of the source and the port,     *)
(* until the case is full or found missing, or the program is restarted.   *)

Event(l) == [src |-> l.src, dst |-> l.dst, port |-> l.port,
             proto |-> l.proto, type |-> l.type, at |-> now]

NewCase(sev, made, events) ==
    [id |-> created + 1, sev |-> sev, made |-> made, updated |-> now, events |-> events]

Rows(id) == {c \in cases : c.id = id}

(* A line that finds its case missing is ingested once more.               *)
OpenCase(l) ==
    /\ Len(log) < MaxEvents
    /\ created < MaxCases
    /\ Rows(index[Key(l)]) = {}
    /\ log' = IF index[Key(l)] = 0 THEN Append(log, Event(l)) ELSE log \o <<Event(l), Event(l)>>
    /\ created' = created + 1
    /\ cases' = cases \cup {NewCase(SeverityOf[l.port], now, <<Event(l)>>)}
    /\ index' = [index EXCEPT ![Key(l)] = created']
    /\ buffer' = IF SeverityOf[l.port] = "high" THEN buffer
                 ELSE Append(buffer, [id |-> created', sev |-> SeverityOf[l.port],
                                      event |-> Event(l)])
    /\ report' = None
    /\ UNCHANGED <<now, merging, analyst, feed>>

AppendEvent(l) ==
    /\ Len(log) < MaxEvents
    /\ log' = Append(log, Event(l))
    /\ \E c \in Rows(index[Key(l)]) :
          LET d == [c EXCEPT !.events = Append(@, Event(l)), !.updated = now] IN
          /\ cases' = (cases \ {c}) \cup {d}
          /\ index' = [index EXCEPT ![Key(l)] = IF Len(d.events) >= BurstMaxEvents THEN 0 ELSE @]
    /\ report' = None
    /\ UNCHANGED <<created, now, buffer, merging, analyst, feed>>

(* The buffered cases make one, which has the events they were opened with *)
(* (info if no port is known); then the stubs are deleted, one by one.     *)
FlushBurst ==
    /\ merging = <<>>
    /\ Len(buffer) >= BurstThreshold
    /\ created < MaxCases
    /\ LET held == Elements(buffer)
           severity == IF \A b \in held : b.event.port \notin KnownPort THEN "info"
                       ELSE IF \E b \in held : b.sev = "medium" THEN "medium" ELSE "low"
       IN cases' = cases \cup
              {NewCase(severity, now, [i \in DOMAIN buffer |-> buffer[i].event])}
    /\ created' = created + 1
    /\ merging' = buffer
    /\ buffer' = <<>>
    /\ report' = None
    /\ UNCHANGED <<log, now, index, analyst, feed>>

(* They are alerted one by one: a small burst, or the insert failed.       *)
DrainBurst ==
    /\ merging = <<>>
    /\ buffer # <<>>
    /\ buffer' = <<>>
    /\ report' = None
    /\ UNCHANGED <<store, now, index, merging, analyst, feed>>

DeleteStub ==
    /\ merging # <<>>
    /\ cases' = cases \ Rows(Head(merging).id)
    /\ merging' = Tail(merging)
    /\ report' = None
    /\ UNCHANGED <<created, log, now, index, buffer, analyst, feed>>

(* The stub stays beside the roll-up. *)
DeleteStubFails ==
    /\ merging # <<>>
    /\ merging' = Tail(merging)
    /\ report' = None
    /\ UNCHANGED <<store, now, index, buffer, analyst, feed>>

-----------------------------------------------------------------------------
(* The collector *)

Record(l) ==
    /\ Len(log) < MaxEvents
    /\ log' = Append(log, Event(l))
    /\ report' = None
    /\ UNCHANGED <<cases, created, now, ingest, analyst, feed>>

(* Severity and computeScore of a cluster: a score numer / denom of the    *)
(* number of events and, if they have any, of ports.                       *)
ClusterSeverity(events) ==
    LET n == Len(events)
        ports == Cardinality({e.port : e \in Elements(events)} \ {0})
        numer == IF ports = 0 THEN n ELSE n * ports
        denom == IF ports = 0 THEN n + 5 ELSE n + ports + 1
    IN IF 100 * numer >= 75 * denom THEN "high"
       ELSE IF 100 * numer >= 45 * denom THEN "medium" ELSE "low"

(* A case has the events of a source, newest first, and their first time   *)
(* for its own.                                                            *)
Correlate(src) ==
    /\ created < MaxCases
    /\ LET events == Only(Reverse(log), {e \in Elements(log) : e.src = src}) IN
       /\ Len(events) >= ClusterThreshold
       /\ cases' = cases \cup {NewCase(ClusterSeverity(events),
                                            Min({e.at : e \in Elements(events)}), events)}
    /\ created' = created + 1
    /\ report' = None
    /\ UNCHANGED <<log, now, ingest, analyst, feed>>

Tick ==
    /\ now' \in {t \in Moment : t > now}
    /\ report' = None
    /\ UNCHANGED <<store, ingest, analyst, feed>>

(* A file that is missing or cannot be read empties the list. *)
Reload ==
    /\ feed' \in {Score, <<>>} \ {feed}
    /\ report' = None
    /\ UNCHANGED <<store, now, ingest, analyst>>

Restart ==
    /\ index' = [k \in DOMAIN index |-> 0]
    /\ buffer' = <<>>
    /\ merging' = <<>>
    /\ queue' = [r \in Reviewer |-> <<>>]
    /\ feed' \in {Score, <<>>}
    /\ report' = None
    /\ UNCHANGED <<store, now, registry, commands>>

-----------------------------------------------------------------------------
(* close and reopen *)
SetCaseStatus(c) ==
    /\ cases' = (cases \ {c}) \cup {[c EXCEPT !.updated = now]}
    /\ report' = None
    /\ UNCHANGED <<created, log, now, ingest, analyst, feed>>

(* The registry has one row for an address; an update makes it the latest. *)
Without(ip) == Only(registry, Elements(registry) \ {ip})

AddDevice(ip) ==
    /\ registry' = Append(Without(ip), ip)
    /\ report' = None
    /\ UNCHANGED <<store, now, ingest, queue, commands, feed>>

RemoveDevice(ip) ==
    /\ ip \in Elements(registry)
    /\ registry' = Without(ip)
    /\ report' = None
    /\ UNCHANGED <<store, now, ingest, queue, commands, feed>>

(* ListKnownDevices("", MaxDevices) *)
ListKnownDevices == Elements(Take(Reverse(registry), MaxDevices))

(* ListCases("", limit): the newest first, in any order those of one time. *)
Listings(rows, limit) ==
    {Take(s, limit) : s \in {s \in SetToSeqs(rows) :
        \A i, j \in DOMAIN s : i < j => s[i].made >= s[j].made}}

(* The reads of a command that may fail. *)
Lost(rows, passes) ==
    LET reads == Reads(rows, passes) IN {down \cap reads : down \in Outage}

-----------------------------------------------------------------------------
Start(r, selected) ==
    /\ commands < MaxCommands
    /\ commands' = commands + 1
    /\ queue[r] = <<>>
    /\ selected # <<>>
    /\ queue' = [queue EXCEPT ![r] = selected]
    /\ UNCHANGED <<store, now, ingest, registry, feed>>

CmdReviewAll(r, o) ==
    \E listed \in Listings(cases, MaxListed) : \E lost \in Lost(Elements(listed), ReviewPass) :
        /\ Start(r, FilterReviewCases(listed, o, now, lost))
        /\ report' = [kind |-> "selection", options |-> o, reviewer |-> r,
                      listed |-> listed, lost |-> lost]

SeverityRank(sev) == CASE sev = "high" -> 3 [] sev = "medium" -> 2 [] sev = "low" -> 1

(* A newest case of the highest severity there is; a severity whose        *)
(* listing fails is passed over.                                           *)
CmdNext(r) ==
    /\ \E heard \in SUBSET AskedSeverity : \E c \in {c \in cases : c.sev \in heard} :
          /\ \A d \in cases :
                d.sev \in heard => \/ SeverityRank(d.sev) < SeverityRank(c.sev)
                                   \/ d.sev = c.sev /\ d.made <= c.made
          /\ Start(r, <<c>>)
    /\ report' = None

Brief(r) ==
    /\ queue[r] # <<>>
    /\ LET c == Head(queue[r]) IN
       \E lost \in Lost({c}, {"brief"}), known \in {ListKnownDevices, {}}, told \in SUBSET Accused :
           report' = [kind |-> "briefing", case |-> c,
                      plan |-> ActionPlan(TriageState(Read(c, "brief", lost), known, feed, told)),
                      whole |-> lost = {} /\ known = ListKnownDevices]
    /\ queue' = [queue EXCEPT ![r] = Tail(@)]
    /\ UNCHANGED <<store, now, ingest, registry, feed, commands>>

(* An inference error is posted, and the next case follows. *)
BriefFails(r) ==
    /\ queue[r] # <<>>
    /\ report' = None
    /\ queue' = [queue EXCEPT ![r] = Tail(@)]
    /\ UNCHANGED <<store, now, ingest, registry, feed, commands>>

CmdExportBlocklist(o) ==
    /\ \E listed \in {Elements(s) : s \in Listings(cases, MaxListed)} :
       \E lost \in Lost(listed, ExportPass) : \E lines \in BuildBlocklistLines(listed, o, now, lost) :
          /\ lines # {}
          /\ report' = [kind |-> "blocklist", options |-> o, lines |-> lines,
                        listed |-> listed, lost |-> lost]
    /\ UNCHANGED <<store, now, ingest, analyst, feed>>

Next ==
    \/ \E l \in AgentLook : OpenCase(l) \/ AppendEvent(l)
    \/ FlushBurst \/ DrainBurst \/ DeleteStub \/ DeleteStubFails
    \/ \E l \in CollectorLook : Record(l)
    \/ \E src \in DOMAIN Network : Correlate(src)
    \/ Tick \/ Reload \/ Restart
    \/ \E c \in cases : SetCaseStatus(c)
    \/ \E ip \in Host : AddDevice(ip) \/ RemoveDevice(ip)
    \/ \E r \in Reviewer, o \in ReviewOption : CmdReviewAll(r, o)
    \/ \E r \in Reviewer : CmdNext(r) \/ Brief(r) \/ BriefFails(r)
    \/ \E o \in ExportOption : CmdExportBlocklist(o)

Spec == Init /\ [][Next]_vars

-----------------------------------------------------------------------------
(* Properties *)

Said(kind) == report # None /\ report.kind = kind

(* Nothing of the case was passed over. *)
Whole(c, lost) == Reads({c}, ReviewPass \cup ExportPass) \cap lost = {}

Landings == {e.dst : e \in {e \in Elements(report.case.events) : Landed(e)}}

(* A briefing may be late (handler.go:1195-1211), and reads may have been  *)
(* swallowed (handler.go:429, 463).  What a plan accuses of holds all the  *)
(* same, by the case, the feed and the registry of the moment: an address  *)
(* of the case is in the blacklist (F), is a known scanner (E), is         *)
(* confirmed malicious (D), or a registered host was reached (C).  What a  *)
(* plan rules out holds if every read succeeded: nothing was reached (A),  *)
(* no host among the MaxDevices rows last updated was (B), and no listed   *)
(* address goes unnamed.  The events briefed are the first of the row's,   *)
(* if there is one still.                                                  *)
BriefingsAreSound ==
    Said("briefing") =>
        LET c == report.case
            addresses == Addresses(Elements(c.events))
            blacklisted == Scored(addresses, feed, BlacklistThreshold)
            malicious == Scored(addresses, feed, MaliciousThreshold)
        IN /\ \A d \in Rows(c.id) : IsPrefix(c.events, d.events)
           /\ report.plan = "F" => blacklisted
           /\ report.plan = "E" => addresses \cap Benign # {}
           /\ report.plan = "D" => malicious \/ addresses \cap Accused # {}
           /\ report.plan = "C" => Landings \cap Elements(registry) # {}
           /\ report.whole =>
                 /\ report.plan = "A" => Landings = {}
                 /\ report.plan = "B" =>
                       \A i \in DOMAIN registry :
                           registry[i] \in Landings => Len(registry) - i >= MaxDevices
                 /\ blacklisted => report.plan = "F"
                 /\ malicious => report.plan \in {"D", "E", "F"}

(* Of the cases whose every read succeeded, review-all briefs none that    *)
(* does not match; with --dedupe no other case of the same key that was    *)
(* active later, whatever the order in which they were opened; and without *)
(* a limit in the way it leaves out none that matches, but for a twin that *)
(* is briefed instead (review_filters.go:281-357).                         *)
SelectionKeepsNewest ==
    Said("selection") =>
        LET o == report.options
            lost == report.lost
            chosen == Elements(queue[report.reviewer])
            limit == IF o.limit = Unset THEN DefaultLimit ELSE o.limit
            whole == {c \in Elements(report.listed) : Whole(c, lost)}
            match == {c \in whole : Matches(c, o, now, {})}
        IN /\ chosen \cap whole \subseteq match
           /\ o.dedupe =>
                 \A c \in chosen \cap whole, d \in match :
                     DedupeKey(c, {}) = DedupeKey(d, {}) =>
                         /\ Recency(d, {}) <= Recency(c, {})
                         /\ d \in chosen => d = c
           /\ Cardinality(chosen) < limit =>
                 \A d \in match :
                     \/ d \in chosen
                     \/ o.dedupe /\ \E c \in chosen : DedupeKey(c, lost) = DedupeKey(d, {})

(* A blocklist names every address once, and none but sources of cases     *)
(* that match, or of which a read failed.  It leaves out a source of a     *)
(* case that was read and matches only when it is full, and then every     *)
(* line of it covers as many addresses as that address's own line would,   *)
(* and a line of one address was active no earlier; a network is blocked   *)
(* for CidrGroupThreshold addresses in it (cmd_export_blocklist.go:        *)
(* 160-255).                                                               *)
ExportCoversMost ==
    Said("blocklist") =>
        LET o == report.options
            whole == {c \in report.listed : Whole(c, report.lost)}
            sure == ExportedSources(whole, o, now, {})
            doubtful == UNION {Sources(c, {}) : c \in
                                  {c \in report.listed \ whole : c.sev \in o.sevs}}
            covered == UNION {l.covers : l \in report.lines}
            mates == [ip \in sure |-> Cardinality(Peers(ip, sure))]
            Worth(ip) == IF /\ o.group /\ Network[ip] # None
                            /\ mates[ip] >= CidrGroupThreshold
                         THEN mates[ip] ELSE 1
        IN /\ covered \subseteq sure \cup doubtful
           /\ \A l, k \in report.lines : l # k => l.covers \cap k.covers = {}
           /\ Cardinality(report.lines) < o.limit => sure \subseteq covered
           /\ \A ip \in sure \ covered, l \in report.lines :
                 /\ Cardinality(l.covers) >= Worth(ip)
                 /\ Cardinality(l.covers) = 1 => l.last >= LastActive(whole, o, now, {}, ip)
=============================================================================
