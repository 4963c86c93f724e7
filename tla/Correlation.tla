----------------------------- MODULE Correlation -----------------------------
(***************************************************************************)
(* The correlate cycle of scantrace (internal/correlator/correlator.go,    *)
(* internal/enricher/enricher.go, cmd/bot/main.go): list the events of the *)
(* window, cluster them by source, let the rules look at each cluster,     *)
(* open cases, link them to the entity of their source, post them.  The    *)
(* daemon runs it every five minutes, an analyst may run `correlate` and   *)
(* `ingest` beside it, each in a process of its own, on one SQLite file.   *)
(*                                                                         *)
(* A step is one store call and the local work around it; the lookup at    *)
(* ipinfo.io touches no shared state and goes with the upsert after it.    *)
(* Case and entity ids are numbers that stand for uuids, drawn once.       *)
(***************************************************************************)
EXTENDS Sequences, DetectionRules

CONSTANTS
    Source,             \* src_ip values
    KindOf,             \* [Source -> SourceKind]
    Cloud,              \* sources whose ASN is in knownCloudASNs
    LooksOf,            \* what a source's events look like: [type, port, gateway]
    Correlator,         \* processes that run correlate cycles
    Ingester,           \* processes that run the enrichment of `ingest`
    None,               \* no source
    Threshold,          \* Config.Threshold
    MaxListed,          \* Config.MaxEvents, and the limit of `ingest`
    MaxEvents,          \* bound: rows of the events table
    MaxCases,           \* bound: case uuids drawn
    MaxEntities,        \* bound: entity uuids drawn
    MaxLookupFailures,  \* bound: lookups at ipinfo.io that fail
    MaxFaults,          \* bound: store calls that return an error
    MaxCrashes,         \* bound: processes that die in a cycle
    MaxCycles,          \* bound: cycles begun, `ingest` included
    MaxCommands         \* bound: cases closed or reopened by an analyst

ASSUME CorrelationAssumption ==
    /\ KindOf \in [Source -> SourceKind]
    /\ \A s \in Source : \A l \in LooksOf[s] : l.port \in Nat /\ l.gateway \in BOOLEAN
    /\ Cloud \subseteq Source
    /\ None \notin Source
    /\ Correlator \cap Ingester = {}
    /\ Threshold \in Nat \ {0} /\ MaxListed \in Nat
    /\ MaxEvents \in Nat /\ MaxCases \in Nat /\ MaxEntities \in Nat
    /\ MaxLookupFailures \in Nat /\ MaxFaults \in Nat
    /\ MaxCrashes \in Nat /\ MaxCycles \in Nat /\ MaxCommands \in Nat

VARIABLES
    events,      \* the events table, oldest first
    gone,        \* how many of them are older than Config.Window
    aged,        \* how many are older than dedupWindow
    cases,       \* the cases table
    entities,    \* the entities table, by ip, which is unique
    links,       \* the case_entities table
    proc,        \* where each process is
    posts,       \* how often a case was posted to the webhook
    nextCase,    \* the next case uuid
    nextEntity,  \* the next entity uuid
    lookupFailures, faults, crashes, cycles, commands

rows   == <<cases, links>>
clock  == <<events, gone, aged>>
ids    == <<nextCase, nextEntity>>
counts == <<lookupFailures, faults, crashes, cycles, commands>>
vars   == <<clock, rows, entities, proc, posts, ids, counts>>

Process  == Correlator \cup Ingester
CaseId   == 1..MaxCases
EventId  == 1..MaxEvents
EntityId == 1..MaxEntities

Row     == [status : {"absent", "open", "closed"}, src : Source \cup {None},
            rule : RuleType, sev : {"low", "medium", "high"}, events : SUBSET EventId]
NoRow   == [status |-> "absent", src |-> None, rule |-> "generic_scan",
            sev |-> "low", events |-> {}]
Entity  == [id : 0..MaxEntities, asn : Asn, fresh : BOOLEAN]
NoEntity == [id |-> 0, asn |-> "", fresh |-> FALSE]
Worker  == [pc : {"idle", "listCases", "evaluate", "insertCase", "findEntity",
                  "enrich", "store", "link", "post"},
            snap : SUBSET EventId, recent : SUBSET CaseId, todo : SUBSET Source,
            src : Source \cup {None}, rule : RuleType, case : 0..MaxCases,
            ent : 0..MaxEntities, opened : SUBSET CaseId]
Idle    == [pc |-> "idle", snap |-> {}, recent |-> {}, todo |-> {}, src |-> None,
            rule |-> "generic_scan", case |-> 0, ent |-> 0, opened |-> {}]

Exists(c) == cases[c].status # "absent"
Stored(s) == entities[s].id # 0

(* The enricher's isPrivate parses an address, so a MAC is not private. *)
Private(s) == KindOf[s] = "internal"

Fault == faults < MaxFaults /\ faults' = faults + 1
Begin == cycles < MaxCycles /\ cycles' = cycles + 1

-----------------------------------------------------------------------------
(* Clusters *)

(* ListEvents: the newest rows, at most MaxListed of them. *)
Listed == {i \in 1..Len(events) : i + MaxListed > Len(events)}

(* Run keeps those of the window. *)
Windowed == {i \in Listed : i > gone}

Cluster(S, s) == {i \in S : events[i].src = s}

Seen(S) == {[n |-> i, type |-> events[i].look.type, port |-> events[i].look.port,
             gateway |-> events[i].look.gateway] : i \in S}

(* Mutant: clusters of any size are cases. *)
LargeOrNot(S) == {s \in Source : Cluster(S, s) # {}}

Large(S) == {s \in Source : Cardinality(Cluster(S, s)) >= Threshold}

RuleOf(S, s, asn) == Match(KindOf[s], asn, Seen(Cluster(S, s)))

(* scanCase reads neither rule_type nor src_ip, and InsertCase writes      *)
(* neither: a case read back has no source and no rule.                    *)
Scanned(c) == [src |-> None, rule |-> ""]

(* A case is created at the first event of its cluster. *)
CreatedAt(c) == CHOOSE i \in cases[c].events : \A j \in cases[c].events : i <= j

(* Mutant: any open case is taken for one of this source. *)
IsDuplicateOfAny(recent, s, rule) == \E c \in recent : CreatedAt(c) > aged

IsDuplicate(recent, s, rule) ==
    \E c \in recent : /\ CreatedAt(c) > aged
                      /\ Scanned(c) = [src |-> s, rule |-> rule]

-----------------------------------------------------------------------------

Init ==
    /\ events = <<>> /\ gone = 0 /\ aged = 0
    /\ cases = [c \in CaseId |-> NoRow]
    /\ entities = [s \in Source |-> NoEntity]
    /\ links = {}
    /\ proc = [p \in Process |-> Idle]
    /\ posts = [c \in CaseId |-> 0]
    /\ nextCase = 1 /\ nextEntity = 1
    /\ lookupFailures = 0 /\ faults = 0 /\ crashes = 0 /\ cycles = 0 /\ commands = 0

(* A collector stores an event. *)
InsertEvent(s, l) ==
    /\ Len(events) < MaxEvents
    /\ events' = Append(events, [src |-> s, look |-> l])
    /\ UNCHANGED <<gone, aged, rows, entities, proc, posts, ids, counts>>

(* Time passes: 24 h, 72 h since an event. *)
PassDedupWindow ==
    /\ aged < Len(events) /\ aged' = aged + 1
    /\ UNCHANGED <<events, gone, rows, entities, proc, posts, ids, counts>>

PassWindow ==
    /\ gone < aged /\ gone' = gone + 1
    /\ UNCHANGED <<events, aged, rows, entities, proc, posts, ids, counts>>

(* DefaultTTL, 24 h since a source was looked up. *)
PassTTL(s) ==
    /\ Stored(s) /\ entities[s].fresh
    /\ entities' = [entities EXCEPT ![s].fresh = FALSE]
    /\ UNCHANGED <<clock, rows, proc, posts, ids, counts>>

(* An analyst closes or reopens a case in Slack. *)
SetCaseStatus(c, status) ==
    /\ commands < MaxCommands /\ commands' = commands + 1
    /\ Exists(c) /\ cases[c].status # status
    /\ cases' = [cases EXCEPT ![c].status = status]
    /\ UNCHANGED <<clock, links, entities, proc, posts, ids, lookupFailures, faults, crashes, cycles>>

-----------------------------------------------------------------------------
(* A correlate cycle.  An error of ListEvents ends it where it began.      *)

ListEvents(p) ==
    /\ proc[p].pc = "idle"
    /\ proc' = [proc EXCEPT ![p] = [Idle EXCEPT !.pc = "listCases", !.snap = Windowed]]
    /\ Begin
    /\ UNCHANGED <<clock, rows, entities, posts, ids, lookupFailures, faults, crashes, commands>>

BeginRules(p, recent) ==
    proc' = [proc EXCEPT ![p].pc = "evaluate", ![p].recent = recent,
                         ![p].todo = Large(proc[p].snap)]

ListCases(p) ==
    /\ proc[p].pc = "listCases"
    /\ BeginRules(p, {c \in CaseId : cases[c].status = "open"})
    /\ UNCHANGED <<clock, rows, entities, posts, ids, counts>>

(* Without the recent cases the cycle goes on, with none to compare to. *)
ListCasesFails(p) ==
    /\ proc[p].pc = "listCases"
    /\ Fault
    /\ BeginRules(p, {})
    /\ UNCHANGED <<clock, rows, entities, posts, ids, lookupFailures, crashes, cycles, commands>>

(* LookupASN: a failed read counts as an unknown source. *)
Looked(s, asn) ==
    \/ asn = entities[s].asn /\ UNCHANGED faults
    \/ asn = "" /\ Fault

Done(p) == [proc[p] EXCEPT !.pc = "evaluate", !.todo = @ \ {proc[p].src},
                           !.src = None, !.case = 0, !.ent = 0,
                           !.rule = "generic_scan"]

(* Mutant: a process without cases notes one. *)
CloseAny(p) == [Done(p) EXCEPT !.opened = @ \cup {proc[p].case}]

(* The case in hand, if there is one, joins newCases. *)
Close(p) == [Done(p) EXCEPT !.opened = @ \cup ({proc[p].case} \cap CaseId)]

Drop(p, s) == proc' = [proc EXCEPT ![p].todo = @ \ {s}]

(* Mutant: the suppressed cluster stays in the loop. *)
SuppressKeepsCluster(p, s) ==
    /\ proc[p].pc = "evaluate" /\ s \in proc[p].todo
    /\ \E asn \in Asn :
        /\ Looked(s, asn)
        /\ RuleOf(proc[p].snap, s, asn) = "suppressed"
    /\ UNCHANGED <<clock, rows, entities, proc, posts, ids, lookupFailures, crashes, cycles, commands>>

Suppress(p, s) ==
    /\ proc[p].pc = "evaluate" /\ s \in proc[p].todo
    /\ \E asn \in Asn :
        /\ Looked(s, asn)
        /\ RuleOf(proc[p].snap, s, asn) = "suppressed"
    /\ Drop(p, s)
    /\ UNCHANGED <<clock, rows, entities, posts, ids, lookupFailures, crashes, cycles, commands>>

Evaluate(p, s) ==
    /\ proc[p].pc = "evaluate" /\ s \in proc[p].todo
    /\ \E asn \in Asn :
        LET rule == RuleOf(proc[p].snap, s, asn)
        IN  /\ Looked(s, asn)
            /\ rule # "suppressed"
            /\ IF IsDuplicate(proc[p].recent, s, rule)
               THEN Drop(p, s)
               ELSE proc' = [proc EXCEPT ![p].pc = "insertCase", ![p].src = s,
                                         ![p].rule = rule]
    /\ UNCHANGED <<clock, rows, entities, posts, ids, lookupFailures, crashes, cycles, commands>>

InsertCase(p) ==
    LET s == proc[p].src
        E == Cluster(proc[p].snap, s)
    IN  /\ proc[p].pc = "insertCase" /\ nextCase \in CaseId
        /\ cases' = [cases EXCEPT ![nextCase] =
                        [status |-> "open", src |-> s, rule |-> proc[p].rule,
                         sev |-> Severity(Seen(E)), events |-> E]]
        /\ proc' = [proc EXCEPT ![p].pc = "findEntity", ![p].case = nextCase]
        /\ nextCase' = nextCase + 1
        /\ UNCHANGED <<clock, links, entities, posts, nextEntity, counts>>

InsertCaseFails(p) ==
    /\ proc[p].pc = "insertCase"
    /\ Fault
    /\ proc' = [proc EXCEPT ![p] = Done(p)]
    /\ UNCHANGED <<clock, rows, entities, posts, ids, lookupFailures, crashes, cycles, commands>>

-----------------------------------------------------------------------------
(* The entity of the case's source *)

FindEntity(p) ==
    /\ proc[p].pc = "findEntity" /\ Stored(proc[p].src)
    /\ proc' = [proc EXCEPT ![p].pc = "link", ![p].ent = entities[proc[p].src].id]
    /\ UNCHANGED <<clock, rows, entities, posts, ids, counts>>

(* Not stored, or the read failed: EnrichAndLink.  A private source gets a *)
(* stub that is stored nowhere.                                            *)
Enrich(p) ==
    IF Private(proc[p].src)
    THEN /\ nextEntity \in EntityId /\ nextEntity' = nextEntity + 1
         /\ proc' = [proc EXCEPT ![p].pc = "link", ![p].ent = nextEntity]
    ELSE /\ proc' = [proc EXCEPT ![p].pc = "enrich"]
         /\ UNCHANGED nextEntity

(* Mutant: no enricher is wired. *)
FindNoEntityNoEnricher(p) ==
    /\ proc[p].pc = "findEntity"
    /\ \/ ~Stored(proc[p].src) /\ UNCHANGED faults
       \/ Fault
    /\ proc' = [proc EXCEPT ![p] = Close(p)]
    /\ UNCHANGED <<clock, rows, entities, posts, ids, lookupFailures, crashes, cycles, commands>>

FindNoEntity(p) ==
    /\ proc[p].pc = "findEntity"
    /\ \/ ~Stored(proc[p].src) /\ UNCHANGED faults
       \/ Fault
    /\ Enrich(p)
    /\ UNCHANGED <<clock, rows, entities, posts, nextCase, lookupFailures, crashes, cycles, commands>>

(* EnrichIP reads the entity again: one within its TTL is used as it is. *)
EnrichCached(p) ==
    LET e == entities[proc[p].src]
    IN  /\ proc[p].pc = "enrich" /\ e.id # 0 /\ e.fresh
        /\ proc' = [proc EXCEPT ![p] =
              IF p \in Correlator THEN [@ EXCEPT !.pc = "link", !.ent = e.id] ELSE Done(p)]
        /\ UNCHANGED <<clock, rows, entities, posts, ids, counts>>

(* One past its TTL is looked up again under its id; none, or a failed     *)
(* read, under a new id.                                                   *)
EnrichMiss(p) ==
    LET e == entities[proc[p].src]
    IN  /\ proc[p].pc = "enrich"
        /\ \/ ~e.fresh /\ proc' = [proc EXCEPT ![p].pc = "store", ![p].ent = e.id]
              /\ UNCHANGED faults
           \/ Fault /\ proc' = [proc EXCEPT ![p].pc = "store", ![p].ent = 0]
        /\ UNCHANGED <<clock, rows, entities, posts, ids, lookupFailures, crashes, cycles, commands>>

(* Mutant: INSERT OR REPLACE. *)
UpsertedAnew(s, id, asn) ==
    [entities EXCEPT ![s] = [id |-> id, asn |-> asn, fresh |-> TRUE]]

(* UpsertEntity: a row there is keeps its id, whatever id came with it. *)
Upserted(s, id, asn) ==
    [entities EXCEPT ![s] = [id |-> IF @.id # 0 THEN @.id ELSE id, asn |-> asn, fresh |-> TRUE]]

Enriched(p, id) ==
    proc' = [proc EXCEPT ![p] =
        IF p \in Correlator THEN [@ EXCEPT !.pc = "link", !.ent = id] ELSE Done(p)]

(* The id to enrich under: the one found, else a new one. *)
DrawEntity(p, id) ==
    \/ proc[p].ent # 0 /\ id = proc[p].ent /\ UNCHANGED nextEntity
    \/ proc[p].ent = 0 /\ id = nextEntity /\ nextEntity' = nextEntity + 1

UpsertEntity(p) ==
    /\ proc[p].pc = "store" /\ KindOf[proc[p].src] = "external"
    /\ \E id \in EntityId :
        /\ DrawEntity(p, id)
        /\ entities' = Upserted(proc[p].src, id,
                           IF proc[p].src \in Cloud THEN "cloud" ELSE "other")
        /\ Enriched(p, id)
    /\ UNCHANGED <<clock, rows, posts, nextCase, counts>>

(* The upsert fails: EnrichAndLink returns the error and nothing is linked *)
(* (the `ingest` command logs it).                                         *)

UpsertEntityFails(p) ==
    /\ proc[p].pc = "store" /\ KindOf[proc[p].src] = "external"
    /\ Fault
    /\ \E id \in EntityId : DrawEntity(p, id)
    /\ proc' = [proc EXCEPT ![p] = Close(p)]
    /\ UNCHANGED <<clock, rows, entities, posts, nextCase, lookupFailures, crashes, cycles, commands>>

(* The lookup fails, a MAC's always: a stub, under a new id each time, is  *)
(* stored over what there is; if that fails too, it is linked nevertheless. *)
LookupFailed(s) ==
    \/ KindOf[s] = "mac" /\ UNCHANGED lookupFailures
    \/ lookupFailures < MaxLookupFailures /\ lookupFailures' = lookupFailures + 1

LookupFails(p) ==
    /\ proc[p].pc = "store"
    /\ LookupFailed(proc[p].src)
    /\ nextEntity \in EntityId /\ nextEntity' = nextEntity + 1
    /\ \/ entities' = Upserted(proc[p].src, nextEntity, "") /\ UNCHANGED faults
       \/ Fault /\ UNCHANGED entities
    /\ Enriched(p, nextEntity)
    /\ UNCHANGED <<clock, rows, posts, nextCase, crashes, cycles, commands>>

(* LinkEntityToCase: foreign keys are on, so an entity that is not stored  *)
(* is not linked; the error is logged.                                     *)
Linkable(c, id) == Exists(c) /\ \E s \in Source : entities[s].id = id

LinkEntityToCase(p) ==
    /\ proc[p].pc = "link"
    /\ links' = links \cup {l \in {<<proc[p].case, proc[p].ent>>} : Linkable(l[1], l[2])}
    /\ proc' = [proc EXCEPT ![p] = Close(p)]
    /\ UNCHANGED <<clock, cases, entities, posts, ids, counts>>

LinkEntityToCaseFails(p) ==
    /\ proc[p].pc = "link"
    /\ Fault
    /\ proc' = [proc EXCEPT ![p] = Close(p)]
    /\ UNCHANGED <<clock, rows, entities, posts, ids, lookupFailures, crashes, cycles, commands>>

-----------------------------------------------------------------------------
(* postAlerts: the opened cases are posted one after the other; one that   *)
(* cannot be read or posted is logged and not tried again.                 *)

BeginAlerts(p) ==
    /\ p \in Correlator
    /\ proc[p].pc = "evaluate" /\ proc[p].todo = {}
    /\ proc' = [proc EXCEPT ![p].pc = "post", ![p].snap = {}, ![p].recent = {}]
    /\ UNCHANGED <<clock, rows, entities, posts, ids, counts>>

(* Mutant: a post whose answer was lost is tried again. *)
PostBlockAgain(p, c) ==
    /\ proc[p].pc = "post" /\ c \in proc[p].opened
    /\ posts[c] < 2
    /\ proc' = [proc EXCEPT ![p].opened = IF posts[c] = 1 THEN @ \ {c} ELSE @]
    /\ posts' = [posts EXCEPT ![c] = @ + 1]
    /\ UNCHANGED <<clock, rows, entities, ids, counts>>

PostBlock(p, c) ==
    /\ proc[p].pc = "post" /\ c \in proc[p].opened
    /\ proc' = [proc EXCEPT ![p].opened = @ \ {c}]
    /\ posts' = [posts EXCEPT ![c] = @ + 1]
    /\ UNCHANGED <<clock, rows, entities, ids, counts>>

PostBlockFails(p, c) ==
    /\ proc[p].pc = "post" /\ c \in proc[p].opened
    /\ proc' = [proc EXCEPT ![p].opened = @ \ {c}]
    /\ UNCHANGED <<clock, rows, entities, posts, ids, counts>>

EndCycle(p) ==
    /\ proc[p].pc = "post" /\ proc[p].opened = {}
    /\ proc' = [proc EXCEPT ![p] = Idle]
    /\ UNCHANGED <<clock, rows, entities, posts, ids, counts>>

(* `ingest` enriches the sources of the newest events, in no order: the    *)
(* window does not matter to it.  An error of ListEvents leaves none.      *)
BeginEnrichEvents(p) ==
    /\ p \in Ingester
    /\ proc[p].pc = "idle"
    /\ proc' = [proc EXCEPT ![p] = [Idle EXCEPT !.pc = "evaluate",
                                    !.todo = {events[i].src : i \in Listed}]]
    /\ Begin
    /\ UNCHANGED <<clock, rows, entities, posts, ids, lookupFailures, faults, crashes, commands>>

EnrichEvent(p, s) ==
    /\ p \in Ingester
    /\ proc[p].pc = "evaluate" /\ s \in proc[p].todo
    /\ IF Private(s) THEN Drop(p, s)
       ELSE proc' = [proc EXCEPT ![p].pc = "enrich", ![p].src = s]
    /\ UNCHANGED <<clock, rows, entities, posts, ids, counts>>

EndEnrichEvents(p) ==
    /\ p \in Ingester
    /\ proc[p].pc = "evaluate" /\ proc[p].todo = {}
    /\ proc' = [proc EXCEPT ![p] = Idle]
    /\ UNCHANGED <<clock, rows, entities, posts, ids, counts>>

(* A process dies; the daemon starts over, a command is given again. *)
Crash(p) ==
    /\ crashes < MaxCrashes /\ crashes' = crashes + 1
    /\ proc[p].pc # "idle"
    /\ proc' = [proc EXCEPT ![p] = Idle]
    /\ UNCHANGED <<clock, rows, entities, posts, ids, lookupFailures, faults, cycles, commands>>

-----------------------------------------------------------------------------

EnrichIP(p) ==
    \/ EnrichCached(p) \/ EnrichMiss(p)
    \/ UpsertEntity(p) \/ UpsertEntityFails(p) \/ LookupFails(p)

OpenCase(p) ==
    \/ InsertCase(p) \/ InsertCaseFails(p)
    \/ FindEntity(p) \/ FindNoEntity(p)
    \/ EnrichIP(p)
    \/ LinkEntityToCase(p) \/ LinkEntityToCaseFails(p)

PostAlerts(p) ==
    \/ BeginAlerts(p)
    \/ \E c \in CaseId : PostBlock(p, c) \/ PostBlockFails(p, c)
    \/ EndCycle(p)

(* What follows once a cycle has begun. *)
Run(p) ==
    \/ ListCases(p) \/ ListCasesFails(p)
    \/ \E s \in Source : Suppress(p, s) \/ Evaluate(p, s)
    \/ OpenCase(p)
    \/ PostAlerts(p)

EnrichEvents(p) ==
    \/ \E s \in Source : EnrichEvent(p, s)
    \/ EnrichIP(p)
    \/ EndEnrichEvents(p)

Environment ==
    \/ \E s \in Source : \E l \in LooksOf[s] : InsertEvent(s, l)
    \/ PassDedupWindow \/ PassWindow
    \/ \E s \in Source : PassTTL(s)
    \/ \E c \in CaseId, status \in {"open", "closed"} : SetCaseStatus(c, status)
    \/ \E p \in Process : Crash(p)

Next ==
    \/ Environment
    \/ \E p \in Correlator : ListEvents(p) \/ Run(p)
    \/ \E p \in Ingester : BeginEnrichEvents(p) \/ EnrichEvents(p)

Spec == Init /\ [][Next]_vars

(* A process that has begun goes on; its store calls return, its lookups   *)
(* and posts have a timeout.  None need begin.                             *)
FairSpec ==
    /\ Spec
    /\ \A p \in Correlator : WF_vars(Run(p))
    /\ \A p \in Ingester : WF_vars(EnrichEvents(p))

-----------------------------------------------------------------------------

TypeOK ==
    /\ events \in Seq([src : Source, look : UNION {LooksOf[s] : s \in Source}])
    /\ Len(events) <= MaxEvents
    /\ gone \in 0..aged /\ aged \in 0..Len(events)
    /\ cases \in [CaseId -> Row]
    /\ entities \in [Source -> Entity]
    /\ links \subseteq CaseId \X EntityId
    /\ proc \in [Process -> Worker]
    /\ posts \in [CaseId -> Nat]
    /\ nextCase \in 1..(MaxCases + 1) /\ nextEntity \in 1..(MaxEntities + 1)
    /\ lookupFailures \in 0..MaxLookupFailures /\ faults \in 0..MaxFaults
    /\ crashes \in 0..MaxCrashes /\ cycles \in 0..MaxCycles /\ commands \in 0..MaxCommands

(* However processes, failed lookups and upserts of one address mix: a     *)
(* case is only ever linked to the stored entity of its own source.        *)
LinksResolve ==
    \A l \in links : Exists(l[1]) /\ entities[cases[l[1]].src].id = l[2]

(* A case lists events of its own source, a cluster over the threshold,    *)
(* and its severity is theirs, though they were read some steps before and *)
(* the table has moved on.                                                 *)
CaseEvidence ==
    \A c \in CaseId : Exists(c) =>
        /\ Cardinality(cases[c].events) >= Threshold
        /\ \A i \in cases[c].events : i <= Len(events) /\ events[i].src = cases[c].src
        /\ cases[c].sev = Severity(Seen(cases[c].events))

(* Neither a crash nor a second process makes a case be posted twice.      *)
PostedOnce ==
    \A c \in CaseId : posts[c] <= 1 /\ (posts[c] = 1 => Exists(c))

(* When a cycle has been through its clusters, every source it saw over    *)
(* the threshold has a case, is a cloud probing the gateway, or met an     *)
(* error: deduplication never silences a source nobody has a case of.      *)
ScannersHaveCases ==
    \A p \in Correlator : proc[p].pc = "evaluate" /\ proc[p].todo = {} /\ faults = 0 =>
        \A s \in Source : Cardinality(Cluster(proc[p].snap, s)) >= Threshold =>
            \/ \E c \in CaseId : Exists(c) /\ cases[c].src = s
            \/ s \in Cloud /\ AllEventsToGateway(Seen(Cluster(proc[p].snap, s)))

(* correlator.go:48-52: newly opened cases are enriched and linked in the  *)
(* same call as case creation; so a case whose source can be stored is     *)
(* linked before it is posted, if no store call fails.                     *)
LinkedBeforeAlert ==
    \A c \in CaseId : posts[c] > 0 /\ ~Private(cases[c].src) /\ faults = 0 =>
        \E id \in EntityId : <<c, id>> \in links

(* Docs/scantrace_build_order.md:157: dedup suppresses re-fire of open     *)
(* cases, those of the last 24 h (correlator.go:129-130).                  *)
NoSecondOpenCase ==
    \A c, d \in CaseId :
        /\ cases[c].status = "open" /\ cases[d].status = "open"
        /\ cases[c].src = cases[d].src /\ cases[c].rule = cases[d].rule
        /\ CreatedAt(c) > aged /\ CreatedAt(d) > aged
        => c = d

(* A cycle that has begun ends, whatever fails in it.                      *)
CycleEnds ==
    \A p \in Process : proc[p].pc # "idle" ~> proc[p].pc = "idle"
=============================================================================
