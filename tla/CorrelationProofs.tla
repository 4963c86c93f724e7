-------------------------- MODULE CorrelationProofs --------------------------
(***************************************************************************)
(* Proofs about Correlation, for any sources, limits, failures, crashes    *)
(* and any number of processes on one database: what a process read or     *)
(* drew some steps ago still holds when it is used.                        *)
(***************************************************************************)
EXTENDS Correlation, SequenceTheorems, FiniteSetTheorems, TLAPS

(* A process with a source in hand, and one that has opened a case for it. *)
InHand  == {"findEntity", "enrich", "store", "link"}
Working == {"insertCase"} \cup InHand

(* The cases a process has still to post. *)
HeldBy(w) == w.opened \cup ({w.case} \cap CaseId)

(* What process p, in state w, knows of its cases: they are stored, not    *)
(* posted yet, and the one in hand is of the source in hand.               *)
CaseOK(p, w) ==
    /\ w.pc \in Working => w.src \in Source
    /\ IF p \in Correlator /\ w.pc \in InHand
       THEN w.case \in CaseId /\ cases[w.case].src = w.src
       ELSE w.case = 0
    /\ p \in Ingester => w.pc \in {"idle", "evaluate", "enrich", "store"} /\ w.opened = {}
    /\ w.case \notin w.opened
    /\ \A c \in HeldBy(w) : Exists(c) /\ posts[c] = 0

(* The id it enriches under is the stored one or is to be drawn; the id it *)
(* links is stored for no other source, now or later.                      *)
EntityOK(w) ==
    /\ w.pc = "store" /\ w.ent # 0 => entities[w.src].id = w.ent
    /\ w.pc = "link" =>
          /\ w.ent \in 1..(nextEntity - 1)
          /\ \A s \in Source : entities[s].id = w.ent => s = w.src

HasCase(s) == \E c \in CaseId : Exists(c) /\ cases[c].src = s

(* A cloud that knocks at the gateway only. *)
Excused(S, s) == s \in Cloud /\ AllEventsToGateway(Seen(Cluster(S, s)))

(* The events it listed are still what they were; every cluster over the   *)
(* threshold is on its list, has a case or is excused, unless one of the n *)
(* store calls that failed so far was about it.                            *)
EvidenceOK(p, w, n) ==
    /\ w.snap \subseteq DOMAIN events
    /\ p \in Correlator => w.todo \subseteq Large(w.snap)
    /\ w.pc = "insertCase" => w.src \in w.todo
    /\ p \in Correlator /\ w.pc \in {"evaluate"} \cup Working /\ n = 0 =>
          \A s \in Large(w.snap) \ w.todo : HasCase(s) \/ Excused(w.snap, s)

WorkerOK(p, w) == CaseOK(p, w) /\ EntityOK(w) /\ EvidenceOK(p, w, faults)

WorkersOK == \A p \in Process : WorkerOK(p, proc[p])

(* No case is held by two processes. *)
CasesApart == \A p, q \in Process : p # q => HeldBy(proc[p]) \cap HeldBy(proc[q]) = {}

CasesDrawn == \A c \in CaseId : Exists(c) => c < nextCase

(* An entity id is of one source, and only a cloud has the ASN of one. *)
EntitiesApart == \A s \in Source :
    /\ entities[s].id < nextEntity
    /\ entities[s].id # 0 => \A t \in Source : entities[t].id = entities[s].id => t = s
    /\ entities[s].asn = "cloud" => s \in Cloud

IInv == /\ TypeOK
        /\ WorkersOK /\ CasesApart
        /\ CasesDrawn /\ EntitiesApart
        /\ LinksResolve /\ PostedOnce /\ CaseEvidence

CountsOK ==
    /\ lookupFailures \in 0..MaxLookupFailures /\ faults \in 0..MaxFaults
    /\ crashes \in 0..MaxCrashes /\ cycles \in 0..MaxCycles /\ commands \in 0..MaxCommands

(* What every step keeps of the database, whoever takes it. *)
EventsStay == \A i \in DOMAIN events : i \in DOMAIN events' /\ events'[i] = events[i]

CasesStay == \A c \in CaseId : Exists(c) =>
    /\ Exists(c)'
    /\ cases'[c].src = cases[c].src /\ cases'[c].events = cases[c].events
    /\ cases'[c].sev = cases[c].sev

EntitiesStay ==
    /\ nextEntity <= nextEntity'
    /\ \A s \in Source : \/ entities'[s].id = entities[s].id
                         \/ entities[s].id = 0 /\ entities'[s].id >= nextEntity

Keeps == EventsStay /\ CasesStay /\ EntitiesStay /\ faults <= faults'

-----------------------------------------------------------------------------
(* The rules and the clusters *)

LEMMA MatchTypes == \A kind, asn, E : Match(kind, asn, E) \in RuleType
  BY DEF Match, RuleType

LEMMA SeverityTypes == \A E : Severity(E) \in {"low", "medium", "high"}
  BY DEF Severity

LEMMA EventTypes ==
    ASSUME TypeOK
    PROVE  /\ Len(events) \in Nat /\ DOMAIN events = 1..Len(events)
           /\ DOMAIN events \subseteq EventId
           /\ \A i \in DOMAIN events : events[i].src \in Source
<1>1. /\ events \in Seq([src : Source, look : UNION {LooksOf[s] : s \in Source}])
      /\ Len(events) <= MaxEvents
  BY DEF TypeOK
<1>2. Len(events) \in Nat /\ DOMAIN events = 1..Len(events)
  BY <1>1, LenProperties
<1>3. DOMAIN events \subseteq EventId
  BY <1>1, <1>2, CorrelationAssumption DEF EventId
<1>4. ASSUME NEW i \in DOMAIN events PROVE events[i].src \in Source
  <2>1. events[i] \in [src : Source, look : UNION {LooksOf[s] : s \in Source}]
    BY <1>1, <1>2, ElementOfSeq
  <2> QED
    BY <2>1
<1> QED
  BY <1>2, <1>3, <1>4

LEMMA ListedTypes ==
    ASSUME TypeOK
    PROVE  Listed \subseteq DOMAIN events /\ Windowed \subseteq DOMAIN events
  BY EventTypes DEF Listed, Windowed

(* Events that were listed stay what they were, and so do their clusters.  *)
LEMMA ClustersStay ==
    ASSUME EventsStay, NEW S, S \subseteq DOMAIN events
    PROVE  /\ S \subseteq DOMAIN events'
           /\ \A s : Cluster(S, s)' = Cluster(S, s)
           /\ Seen(S)' = Seen(S)
           /\ Large(S)' = Large(S)
<1>1. S \subseteq DOMAIN events' /\ \A i \in S : events'[i] = events[i]
  BY DEF EventsStay
<1>2. \A s : Cluster(S, s)' = Cluster(S, s)
  BY <1>1 DEF Cluster
<1>3. Seen(S)' = Seen(S)
  BY <1>1 DEF Seen
<1>4. Large(S)' = Large(S)
  BY <1>2 DEF Large
<1> QED
  BY <1>1, <1>2, <1>3, <1>4

LEMMA ExcusesStay ==
    ASSUME EventsStay, NEW S, S \subseteq DOMAIN events, NEW s
    PROVE  Excused(S, s)' = Excused(S, s)
<1>1. PICK C : C = Cluster(S, s)
  OBVIOUS
<1>2. C \subseteq DOMAIN events
  BY <1>1 DEF Cluster
<1>3. Cluster(S, s)' = C /\ Seen(C)' = Seen(C)
  BY <1>1, <1>2, ClustersStay
<1> QED
  BY <1>1, <1>3 DEF Excused

LEMMA SuppressedFacts ==
    ASSUME NEW S, NEW s, NEW asn, RuleOf(S, s, asn) = "suppressed"
    PROVE  asn = "cloud" /\ AllEventsToGateway(Seen(Cluster(S, s)))
  BY DEF RuleOf, Match, CloudSuppress

(* A case read back names no source, so none is ever a duplicate.          *)
LEMMA NoDuplicates ==
    ASSUME NEW s \in Source, NEW recent, NEW rule
    PROVE  ~ IsDuplicate(recent, s, rule)
<1>1. s # None
  BY CorrelationAssumption
<1>2. \A c : Scanned(c).src = None
  BY DEF Scanned
<1>3. [src |-> s, rule |-> rule].src = s
  OBVIOUS
<1> QED
  BY <1>1, <1>2, <1>3 DEF IsDuplicate

-----------------------------------------------------------------------------
(* What a process knows outlives the steps of the others. *)

LEMMA CasesStayOK ==
    ASSUME IInv, CasesStay, NEW p \in Process, NEW w \in Worker, CaseOK(p, w),
           \A c \in HeldBy(w) : posts'[c] = posts[c]
    PROVE  CaseOK(p, w)'
<1>1. w.case \in CaseId => w.case \in HeldBy(w)
  BY DEF HeldBy
<1>2. HeldBy(w) \subseteq CaseId
  BY DEF HeldBy, Worker
<1> QED
  BY <1>1, <1>2 DEF CaseOK, CasesStay, HeldBy

LEMMA EntitiesStayOK ==
    ASSUME IInv, EntitiesStay, nextEntity' \in Nat, NEW w \in Worker, EntityOK(w),
           w.pc \in Working => w.src \in Source
    PROVE  EntityOK(w)'
<1>1. nextEntity \in Nat /\ \A s \in Source : entities[s].id \in Nat
  BY CorrelationAssumption DEF IInv, TypeOK, Entity
<1>2. w.pc = "store" /\ w.ent # 0 => entities'[w.src].id = w.ent
  BY DEF EntityOK, EntitiesStay, Working, InHand
<1>3. ASSUME w.pc = "link" PROVE w.ent \in 1..(nextEntity' - 1)
  BY <1>1, <1>3 DEF EntityOK, EntitiesStay
<1>4. ASSUME w.pc = "link", NEW s \in Source, entities'[s].id = w.ent PROVE s = w.src
  <2>1. w.ent < nextEntity
    BY <1>1, <1>4 DEF EntityOK
  <2>2. entities[s].id = w.ent
    BY <1>1, <1>4, <2>1 DEF EntitiesStay, Worker
  <2> QED
    BY <1>4, <2>2 DEF EntityOK
<1> QED
  BY <1>2, <1>3, <1>4 DEF EntityOK

LEMMA EvidenceStaysOK ==
    ASSUME IInv, EventsStay, CasesStay, faults' \in Nat,
           NEW p \in Process, NEW w \in Worker, EvidenceOK(p, w, faults')
    PROVE  EvidenceOK(p, w, faults)'
<1>1. PICK S : S = w.snap
  OBVIOUS
<1>2. S \subseteq DOMAIN events
  BY <1>1 DEF EvidenceOK
<1>3. S \subseteq DOMAIN events' /\ Large(S)' = Large(S)
  BY <1>2, ClustersStay
<1>4. \A s : Excused(S, s) => Excused(S, s)'
  BY <1>2, ExcusesStay
<1>5. \A s : HasCase(s) => HasCase(s)'
  BY DEF HasCase, CasesStay
<1> QED
  BY <1>1, <1>3, <1>4, <1>5 DEF EvidenceOK

LEMMA MoreFaults ==
    ASSUME IInv, faults <= faults', faults' \in Nat, NEW p, NEW w, EvidenceOK(p, w, faults)
    PROVE  EvidenceOK(p, w, faults')
<1>1. faults' = 0 => faults = 0
  BY DEF IInv, TypeOK
<1> QED
  BY <1>1 DEF EvidenceOK

(* One process moves on to w; the cases it then has are those it had or a  *)
(* new one, and it alone posts them.                                       *)
LEMMA WorkerMoves ==
    ASSUME IInv, Keeps, faults' \in Nat, nextEntity' \in Nat,
           NEW p \in Process, NEW w \in Worker, proc' = [proc EXCEPT ![p] = w],
           CaseOK(p, w)', EntityOK(w)', EvidenceOK(p, w, faults'),
           \A c \in HeldBy(w) : c \in HeldBy(proc[p]) \/ c >= nextCase,
           \A c \in CaseId : posts'[c] # posts[c] => c \in HeldBy(proc[p])
    PROVE  proc' \in [Process -> Worker] /\ WorkersOK' /\ CasesApart'
<1>1. /\ proc \in [Process -> Worker] /\ proc' \in [Process -> Worker] /\ proc'[p] = w
      /\ \A q \in Process : q # p => proc'[q] = proc[q]
  BY DEF IInv, TypeOK
<1>2. \A q \in Process : HeldBy(proc[q]) \subseteq CaseId
  BY <1>1 DEF HeldBy, Worker
<1>3. ASSUME NEW q \in Process, q # p PROVE HeldBy(proc[q]) \cap HeldBy(proc[p]) = {}
  BY <1>3 DEF IInv, CasesApart
<1>4. ASSUME NEW q \in Process PROVE WorkerOK(q, proc[q])'
  <2>1. CASE q = p
    <3>1. EvidenceOK(p, w, faults)'
      BY EvidenceStaysOK DEF Keeps
    <3> QED
      BY <1>1, <2>1, <3>1 DEF WorkerOK, CaseOK, EntityOK, EvidenceOK
  <2>2. CASE q # p
    <3>1. PICK v \in Worker : v = proc[q]
      BY <1>1
    <3>2. CaseOK(q, v) /\ EntityOK(v) /\ EvidenceOK(q, v, faults)
      BY <3>1 DEF IInv, WorkersOK, WorkerOK
    <3>3. \A c \in HeldBy(v) : posts'[c] = posts[c]
      BY <1>2, <1>3, <2>2, <3>1
    <3>4. CaseOK(q, v)' /\ EntityOK(v)' /\ EvidenceOK(q, v, faults)'
      BY <3>2, <3>3, CasesStayOK, EntitiesStayOK, EvidenceStaysOK, MoreFaults DEF Keeps, CaseOK
    <3> QED
      BY <1>1, <2>2, <3>1, <3>4 DEF WorkerOK, CaseOK, EntityOK, EvidenceOK
  <2> QED
    BY <2>1, <2>2
<1>5. WorkersOK'
  BY <1>4 DEF WorkersOK
<1>6. ASSUME NEW q \in Process, q # p PROVE HeldBy(proc[q]) \cap HeldBy(w) = {}
  <2>1. \A c \in HeldBy(proc[q]) : Exists(c) /\ c \in CaseId
    BY <1>2 DEF IInv, WorkersOK, WorkerOK, CaseOK
  <2>2. \A c \in HeldBy(proc[q]) : c < nextCase /\ c \in Nat
    BY <2>1 DEF IInv, CasesDrawn, CaseId
  <2>3. nextCase \in Nat
    BY CorrelationAssumption DEF IInv, TypeOK
  <2> QED
    BY <1>3, <1>6, <2>2, <2>3
<1>7. ASSUME NEW a \in Process, NEW b \in Process, a # b
      PROVE  HeldBy(proc'[a]) \cap HeldBy(proc'[b]) = {}
  <2>1. CASE a = p
    BY <1>1, <1>6, <1>7, <2>1
  <2>2. CASE b = p
    BY <1>1, <1>6, <1>7, <2>2
  <2>3. CASE a # p /\ b # p
    BY <1>1, <1>7, <2>3 DEF IInv, CasesApart
  <2> QED
    BY <2>1, <2>2, <2>3
<1>8. CasesApart'
  BY <1>7 DEF CasesApart, HeldBy
<1> QED
  BY <1>1, <1>5, <1>8

(* No process moves. *)
LEMMA WorkersRest ==
    ASSUME IInv, Keeps, faults' \in Nat, nextEntity' \in Nat, UNCHANGED <<proc, posts>>
    PROVE  proc' \in [Process -> Worker] /\ WorkersOK' /\ CasesApart'
<1>1. proc \in [Process -> Worker]
  BY DEF IInv, TypeOK
<1>2. ASSUME NEW q \in Process PROVE WorkerOK(q, proc[q])'
  <2>1. PICK v \in Worker : v = proc[q]
    BY <1>1
  <2>2. CaseOK(q, v) /\ EntityOK(v) /\ EvidenceOK(q, v, faults)
    BY <2>1 DEF IInv, WorkersOK, WorkerOK
  <2>3. CaseOK(q, v)' /\ EntityOK(v)' /\ EvidenceOK(q, v, faults)'
    BY <2>2, CasesStayOK, EntitiesStayOK, EvidenceStaysOK, MoreFaults DEF Keeps, CaseOK
  <2> QED
    BY <2>1, <2>3 DEF WorkerOK, CaseOK, EntityOK, EvidenceOK
<1>3. WorkersOK'
  BY <1>2 DEF WorkersOK
<1>4. CasesApart'
  BY DEF IInv, CasesApart, HeldBy
<1> QED
  BY <1>1, <1>3, <1>4

(* The cases there are keep their evidence. *)
LEMMA EvidenceKept ==
    ASSUME IInv, EventsStay, CasesStay, \A c \in CaseId : Exists(c)' => Exists(c),
           Len(events') \in Nat, Len(events) <= Len(events')
    PROVE  CaseEvidence'
<1>1. ASSUME NEW c \in CaseId, Exists(c)'
      PROVE  /\ Cardinality(cases'[c].events) >= Threshold
             /\ \A i \in cases'[c].events : i <= Len(events') /\ events'[i].src = cases'[c].src
             /\ cases'[c].sev = Severity(Seen(cases[c].events))'
  <2>1. /\ Cardinality(cases[c].events) >= Threshold
        /\ \A i \in cases[c].events : i <= Len(events) /\ events[i].src = cases[c].src
        /\ cases[c].sev = Severity(Seen(cases[c].events))
        /\ cases[c].events \subseteq EventId
    BY <1>1 DEF IInv, CaseEvidence, TypeOK, Row
  <2>2. /\ cases'[c].src = cases[c].src /\ cases'[c].events = cases[c].events
        /\ cases'[c].sev = cases[c].sev
    BY <1>1 DEF CasesStay
  <2>3. PICK E : E = cases[c].events
    OBVIOUS
  <2>4. E \subseteq DOMAIN events /\ \A i \in E : i \in Nat
    BY <2>1, <2>3, EventTypes DEF IInv, EventId
  <2>5. Seen(E)' = Seen(E)
    BY <2>4, ClustersStay
  <2>6. \A i \in E : i <= Len(events') /\ events'[i] = events[i]
    <3>1. Len(events) \in Nat /\ Len(events) <= Len(events')
      BY EventTypes DEF IInv
    <3>2. \A i \in E : events'[i] = events[i] /\ i \in DOMAIN events'
      BY <2>4 DEF EventsStay
    <3>3. \A i \in E : i <= Len(events)
      BY <2>4, EventTypes DEF IInv
    <3> QED
      BY <2>4, <3>1, <3>2, <3>3
  <2>7. Seen(cases[c].events)' = Seen(E)
    BY <2>2, <2>3, <2>5 DEF Seen
  <2>8. Severity(Seen(cases[c].events))' = Severity(Seen(E))
    BY <2>7 DEF Severity, AtLeast, Score, RealPorts, Ports
  <2> QED
    BY <2>1, <2>2, <2>3, <2>6, <2>8
<1> QED
  BY <1>1 DEF CaseEvidence

LEMMA EvidenceRests == ASSUME IInv, UNCHANGED <<events, cases>> PROVE CaseEvidence'
<1>1. Len(events') \in Nat /\ Len(events) <= Len(events')
  BY EventTypes DEF IInv
<1> QED
  BY <1>1, EvidenceKept DEF EventsStay, CasesStay, Exists

(* A step of one process that leaves the database alone. *)
LEMMA QuietStep ==
    ASSUME IInv, UNCHANGED <<clock, rows, entities, posts, ids>>, CountsOK', faults <= faults',
           NEW p \in Process, NEW w \in Worker, proc' = [proc EXCEPT ![p] = w],
           CaseOK(p, w), EntityOK(w), EvidenceOK(p, w, faults'),
           HeldBy(w) \subseteq HeldBy(proc[p])
    PROVE  IInv'
<1>1. UNCHANGED <<events, gone, aged, cases, links, entities, posts, nextCase, nextEntity>>
  BY DEF clock, rows, ids
<1>2. faults' \in Nat /\ nextEntity' \in Nat
  BY <1>1, CorrelationAssumption DEF CountsOK, IInv, TypeOK
<1>3. Keeps
  BY <1>1, <1>2 DEF Keeps, EventsStay, CasesStay, EntitiesStay, Exists, IInv, TypeOK
<1>4. CaseOK(p, w)' /\ EntityOK(w)'
  BY <1>1 DEF CaseOK, EntityOK, Exists
<1>5. proc' \in [Process -> Worker] /\ WorkersOK' /\ CasesApart'
  BY <1>1, <1>2, <1>3, <1>4, WorkerMoves
<1>6. TypeOK'
  BY <1>1, <1>5 DEF IInv, TypeOK, CountsOK
<1>7. CasesDrawn' /\ EntitiesApart' /\ LinksResolve' /\ PostedOnce'
  BY <1>1 DEF IInv, CasesDrawn, EntitiesApart, LinksResolve, PostedOnce, Exists
<1>8. CaseEvidence'
  BY <1>1 DEF IInv, CaseEvidence, Exists, Seen
<1> QED
  BY <1>5, <1>6, <1>7, <1>8 DEF IInv

-----------------------------------------------------------------------------
(* What the steps of a process need to know of it *)

LEMMA ProcFacts ==
    ASSUME IInv, NEW p \in Process
    PROVE  /\ proc \in [Process -> Worker] /\ proc[p] \in Worker
           /\ CaseOK(p, proc[p]) /\ EntityOK(proc[p]) /\ EvidenceOK(p, proc[p], faults)
           /\ faults \in Nat /\ CountsOK
  BY CorrelationAssumption DEF IInv, TypeOK, WorkersOK, WorkerOK, CountsOK

LEMMA IdTypes == ASSUME IInv PROVE nextCase \in Nat /\ nextEntity \in Nat
  BY CorrelationAssumption DEF IInv, TypeOK

LEMMA IdleFacts ==
    /\ Idle \in Worker /\ Idle.pc = "idle" /\ Idle.opened = {} /\ Idle.case = 0
    /\ Idle.snap = {} /\ Idle.todo = {} /\ HeldBy(Idle) = {}
<1>1. 0 \in 0..MaxCases /\ 0 \in 0..MaxEntities /\ 0 \notin CaseId
  BY CorrelationAssumption DEF CaseId
<1> QED
  BY <1>1 DEF Idle, Worker, RuleType, HeldBy

LEMMA CountsRest == ASSUME IInv, UNCHANGED counts PROVE CountsOK' /\ faults <= faults'
  BY CorrelationAssumption DEF counts, CountsOK, IInv, TypeOK

LEMMA CountsFault ==
    ASSUME IInv, Fault \/ UNCHANGED faults,
           UNCHANGED <<lookupFailures, crashes, cycles, commands>>
    PROVE  CountsOK' /\ faults <= faults'
  BY CorrelationAssumption DEF Fault, CountsOK, IInv, TypeOK

LEMMA CountsBegin ==
    ASSUME IInv, Begin, UNCHANGED <<lookupFailures, faults, crashes, commands>>
    PROVE  CountsOK' /\ faults <= faults'
  BY CorrelationAssumption DEF Begin, CountsOK, IInv, TypeOK

(* A process is idle again: its cycle ended, or it died. *)
LEMMA IdleIInv ==
    ASSUME IInv, NEW p \in Process, proc' = [proc EXCEPT ![p] = Idle],
           CountsOK', faults <= faults', UNCHANGED <<clock, rows, entities, posts, ids>>
    PROVE  IInv'
<1>1. PICK w \in Worker : w = Idle
  BY IdleFacts
<1>2. CaseOK(p, w) /\ EntityOK(w) /\ EvidenceOK(p, w, faults')
  BY <1>1, IdleFacts DEF CaseOK, EntityOK, EvidenceOK, Working, InHand
<1>3. HeldBy(w) \subseteq HeldBy(proc[p])
  BY <1>1, IdleFacts
<1> QED
  BY <1>1, <1>2, <1>3, QuietStep

LEMMA CrashIInv == ASSUME IInv, NEW p \in Process, Crash(p) PROVE IInv'
<1>1. CountsOK' /\ faults <= faults'
  BY CorrelationAssumption DEF Crash, CountsOK, IInv, TypeOK
<1> QED
  BY <1>1, IdleIInv DEF Crash

LEMMA EndIInv == ASSUME IInv, NEW p \in Process, EndCycle(p) \/ EndEnrichEvents(p) PROVE IInv'
<1>1. UNCHANGED counts
  BY DEF EndCycle, EndEnrichEvents
<1> QED
  BY <1>1, CountsRest, IdleIInv DEF EndCycle, EndEnrichEvents

(* A cycle begins with the events of the window, `ingest` with the sources *)
(* of the newest.                                                          *)
LEMMA ListEventsIInv == ASSUME IInv, NEW p \in Correlator, ListEvents(p) PROVE IInv'
<1> DEFINE next == [Idle EXCEPT !.pc = "listCases", !.snap = Windowed]
<1>1. /\ proc' = [proc EXCEPT ![p] = next]
      /\ UNCHANGED <<clock, rows, entities, posts, ids>> /\ CountsOK' /\ faults <= faults'
  BY CountsBegin DEF ListEvents
<1>2. p \in Process /\ p \notin Ingester
  BY CorrelationAssumption DEF Process
<1>3. Windowed \subseteq DOMAIN events /\ Windowed \subseteq EventId
  BY ListedTypes, EventTypes DEF IInv
<1>4. /\ next \in Worker /\ next.pc = "listCases" /\ next.snap = Windowed /\ next.todo = {}
      /\ next.case = 0 /\ next.opened = {}
  BY <1>3, IdleFacts DEF Worker
<1>5. PICK w \in Worker : w = next
  BY <1>4
<1> HIDE DEF next
<1>6. HeldBy(w) = {}
  BY <1>4, <1>5 DEF HeldBy, CaseId
<1>7. CaseOK(p, w) /\ EntityOK(w) /\ EvidenceOK(p, w, faults')
  BY <1>2, <1>3, <1>4, <1>5, <1>6 DEF CaseOK, EntityOK, EvidenceOK, Working, InHand
<1> QED
  BY <1>1, <1>2, <1>5, <1>6, <1>7, QuietStep

LEMMA BeginEnrichEventsIInv == ASSUME IInv, NEW p \in Process, BeginEnrichEvents(p) PROVE IInv'
<1> DEFINE srcs == {events[i].src : i \in Listed}
           next == [Idle EXCEPT !.pc = "evaluate", !.todo = srcs]
<1>1. /\ proc' = [proc EXCEPT ![p] = next]
      /\ UNCHANGED <<clock, rows, entities, posts, ids>> /\ CountsOK' /\ faults <= faults'
  BY CountsBegin DEF BeginEnrichEvents
<1>2. p \in Ingester /\ p \notin Correlator
  BY CorrelationAssumption DEF BeginEnrichEvents
<1>3. srcs \subseteq Source
  BY ListedTypes, EventTypes DEF IInv
<1>4. /\ next \in Worker /\ next.pc = "evaluate" /\ next.snap = {}
      /\ next.case = 0 /\ next.opened = {}
  BY <1>3, IdleFacts DEF Worker
<1>5. PICK w \in Worker : w = next
  BY <1>4
<1> HIDE DEF next
<1>6. HeldBy(w) = {}
  BY <1>4, <1>5 DEF HeldBy, CaseId
<1>7. CaseOK(p, w) /\ EntityOK(w) /\ EvidenceOK(p, w, faults')
  BY <1>2, <1>4, <1>5, <1>6 DEF CaseOK, EntityOK, EvidenceOK, Working, InHand
<1> QED
  BY <1>1, <1>5, <1>6, <1>7, QuietStep

(* The open cases are read, or not, and the clusters over the threshold    *)
(* put on the list.                                                        *)
LEMMA BeginRulesIInv ==
    ASSUME IInv, NEW p \in Correlator, ListCases(p) \/ ListCasesFails(p)
    PROVE  IInv'
<1>1. /\ proc[p].pc = "listCases"
      /\ UNCHANGED <<clock, rows, entities, posts, ids>> /\ CountsOK' /\ faults <= faults'
  BY CountsRest, CountsFault DEF ListCases, ListCasesFails
<1>2. p \in Process /\ p \notin Ingester
  BY CorrelationAssumption DEF Process
<1>3. proc[p] \in Worker /\ CaseOK(p, proc[p]) /\ EntityOK(proc[p]) /\ EvidenceOK(p, proc[p], faults)
  BY <1>2, ProcFacts
<1>4. PICK R \in SUBSET CaseId : BeginRules(p, R)
  <2>1. {c \in CaseId : cases[c].status = "open"} \in SUBSET CaseId /\ {} \in SUBSET CaseId
    OBVIOUS
  <2> QED
    BY <2>1 DEF ListCases, ListCasesFails
<1> DEFINE L == Large(proc[p].snap)
           next == [proc[p] EXCEPT !.pc = "evaluate", !.recent = R, !.todo = L]
<1>5. proc' = [proc EXCEPT ![p] = next]
  BY <1>4, <1>3 DEF BeginRules
<1>6. L \subseteq Source
  BY DEF Large
<1>7. /\ next \in Worker /\ next.pc = "evaluate" /\ next.snap = proc[p].snap /\ next.todo = L
      /\ next.case = proc[p].case /\ next.opened = proc[p].opened
  BY <1>3, <1>6 DEF Worker
<1>8. PICK w \in Worker : w = next
  BY <1>7
<1> HIDE DEF next
<1>9. CaseOK(p, w) /\ EntityOK(w) /\ HeldBy(w) = HeldBy(proc[p])
  BY <1>1, <1>2, <1>3, <1>7, <1>8 DEF CaseOK, EntityOK, HeldBy, Working, InHand
<1>10. EvidenceOK(p, w, faults')
  BY <1>3, <1>7, <1>8 DEF EvidenceOK
<1> QED
  BY <1>1, <1>2, <1>5, <1>8, <1>9, <1>10, QuietStep

(* A cluster comes off the list. *)
LEMMA DropIInv ==
    ASSUME IInv, NEW p \in Process, NEW s, proc[p].pc = "evaluate", Drop(p, s),
           UNCHANGED <<clock, rows, entities, posts, ids>>, CountsOK', faults <= faults',
           \/ p \notin Correlator \/ faults' # 0 \/ Excused(proc[p].snap, s)
    PROVE  IInv'
<1>1. /\ proc[p] \in Worker /\ CaseOK(p, proc[p]) /\ EntityOK(proc[p])
      /\ EvidenceOK(p, proc[p], faults) /\ faults \in Nat /\ faults' \in Nat
  BY ProcFacts DEF CountsOK
<1> DEFINE next == [proc[p] EXCEPT !.todo = proc[p].todo \ {s}]
<1>2. proc' = [proc EXCEPT ![p] = next]
  BY DEF Drop
<1>3. /\ next \in Worker /\ next.pc = "evaluate" /\ next.snap = proc[p].snap
      /\ next.todo = proc[p].todo \ {s}
      /\ next.case = proc[p].case /\ next.opened = proc[p].opened
  BY <1>1 DEF Worker
<1>4. PICK w \in Worker : w = next
  BY <1>3
<1> HIDE DEF next
<1>5. CaseOK(p, w) /\ EntityOK(w) /\ HeldBy(w) = HeldBy(proc[p])
  BY <1>1, <1>3, <1>4 DEF CaseOK, EntityOK, HeldBy, Working, InHand
<1>6. EvidenceOK(p, w, faults')
  <2>1. w.snap \subseteq DOMAIN events /\ (p \in Correlator => w.todo \subseteq Large(w.snap))
    BY <1>1, <1>3, <1>4 DEF EvidenceOK
  <2>2. ASSUME p \in Correlator, faults' = 0, NEW t \in Large(w.snap) \ w.todo
        PROVE  HasCase(t) \/ Excused(w.snap, t)
    <3>1. CASE t = s
      BY <1>3, <1>4, <2>2, <3>1
    <3>2. CASE t # s
      BY <1>1, <1>3, <1>4, <2>2, <3>2 DEF EvidenceOK
    <3> QED
      BY <3>1, <3>2
  <2> QED
    BY <1>3, <1>4, <2>1, <2>2 DEF EvidenceOK
<1> QED
  BY <1>2, <1>4, <1>5, <1>6, QuietStep

(* Only what is known to be a cloud's is suppressed, at the time it was    *)
(* looked up and ever since.                                               *)
LEMMA SuppressIInv ==
    ASSUME IInv, NEW p \in Correlator, NEW s \in Source, Suppress(p, s)
    PROVE  IInv'
<1>1. /\ proc[p].pc = "evaluate" /\ Drop(p, s)
      /\ UNCHANGED <<clock, rows, entities, posts, ids, lookupFailures, crashes, cycles, commands>>
  BY DEF Suppress
<1>2. PICK asn \in Asn : Looked(s, asn) /\ RuleOf(proc[p].snap, s, asn) = "suppressed"
  BY DEF Suppress
<1>3. CountsOK' /\ faults <= faults'
  BY <1>1, <1>2, CountsFault DEF Looked
<1>4. faults' # 0 \/ Excused(proc[p].snap, s)
  <2>1. asn = "cloud" /\ AllEventsToGateway(Seen(Cluster(proc[p].snap, s)))
    BY <1>2, SuppressedFacts
  <2>2. s \in Cloud
    BY <1>2, <2>1 DEF Looked, IInv, EntitiesApart
  <2> QED
    BY <2>1, <2>2 DEF Excused
<1> QED
  BY <1>1, <1>3, <1>4, DropIInv DEF Process

LEMMA EvaluateIInv ==
    ASSUME IInv, NEW p \in Correlator, NEW s \in Source, Evaluate(p, s)
    PROVE  IInv'
<1>1. /\ proc[p].pc = "evaluate" /\ s \in proc[p].todo
      /\ UNCHANGED <<clock, rows, entities, posts, ids, lookupFailures, crashes, cycles, commands>>
  BY DEF Evaluate
<1>2. p \in Process /\ p \notin Ingester
  BY CorrelationAssumption DEF Process
<1>3. /\ proc[p] \in Worker /\ CaseOK(p, proc[p]) /\ EntityOK(proc[p])
      /\ EvidenceOK(p, proc[p], faults) /\ faults \in Nat
  BY <1>2, ProcFacts
<1>4. PICK rule \in RuleType :
        /\ Fault \/ UNCHANGED faults
        /\ proc' = [proc EXCEPT ![p].pc = "insertCase", ![p].src = s, ![p].rule = rule]
  BY MatchTypes, NoDuplicates DEF Evaluate, Looked, RuleOf
<1>5. CountsOK' /\ faults <= faults' /\ faults' \in Nat
  BY <1>1, <1>4, CountsFault DEF CountsOK
<1> DEFINE next == [proc[p] EXCEPT !.pc = "insertCase", !.src = s, !.rule = rule]
<1>6. proc' = [proc EXCEPT ![p] = next]
  BY <1>4, <1>3
<1>7. /\ next \in Worker /\ next.pc = "insertCase" /\ next.snap = proc[p].snap /\ next.src = s
      /\ next.todo = proc[p].todo /\ next.case = proc[p].case /\ next.opened = proc[p].opened
  BY <1>3 DEF Worker
<1>8. PICK w \in Worker : w = next
  BY <1>7
<1> HIDE DEF next
<1>9. CaseOK(p, w) /\ EntityOK(w) /\ HeldBy(w) = HeldBy(proc[p])
  BY <1>1, <1>2, <1>3, <1>7, <1>8 DEF CaseOK, EntityOK, HeldBy, Working, InHand
<1>10. EvidenceOK(p, w, faults)
  BY <1>1, <1>2, <1>3, <1>7, <1>8 DEF EvidenceOK
<1>11. EvidenceOK(p, w, faults')
  BY <1>5, <1>10, MoreFaults
<1> QED
  BY <1>1, <1>2, <1>5, <1>6, <1>8, <1>9, <1>11, QuietStep

-----------------------------------------------------------------------------
(* A case is opened *)

(* The id is new, so nobody holds it, no link and no post names it; the    *)
(* events of the case are as they were when they were listed.              *)
LEMMA InsertCaseIInv == ASSUME IInv, NEW p \in Correlator, InsertCase(p) PROVE IInv'
<1> DEFINE s == proc[p].src
           E == Cluster(proc[p].snap, s)
           row == [status |-> "open", src |-> s, rule |-> proc[p].rule,
                   sev |-> Severity(Seen(E)), events |-> E]
           next == [proc[p] EXCEPT !.pc = "findEntity", !.case = nextCase]
<1>1. /\ proc[p].pc = "insertCase" /\ nextCase \in CaseId
      /\ cases' = [cases EXCEPT ![nextCase] = row]
      /\ proc' = [proc EXCEPT ![p].pc = "findEntity", ![p].case = nextCase]
      /\ nextCase' = nextCase + 1
      /\ UNCHANGED <<events, gone, aged, links, entities, posts, nextEntity, counts>>
  BY DEF InsertCase, clock
<1>2. p \in Process /\ p \notin Ingester
  BY CorrelationAssumption DEF Process
<1>3. /\ proc[p] \in Worker /\ CaseOK(p, proc[p]) /\ EntityOK(proc[p])
      /\ EvidenceOK(p, proc[p], faults) /\ faults \in Nat /\ proc \in [Process -> Worker]
  BY <1>2, ProcFacts
<1>4. proc' = [proc EXCEPT ![p] = next]
  BY <1>1, <1>3
<1>5. /\ nextCase \in Nat /\ nextCase >= 1 /\ nextCase <= MaxCases
      /\ nextCase \in 0..MaxCases /\ nextCase + 1 \in 1..(MaxCases + 1)
  BY <1>1, CorrelationAssumption DEF CaseId
<1>6. s \in Source /\ s \in Large(proc[p].snap)
  BY <1>1, <1>2, <1>3 DEF CaseOK, EvidenceOK, Working
<1>7. /\ E \subseteq DOMAIN events /\ E \subseteq EventId /\ Cardinality(E) >= Threshold
      /\ \A i \in E : i <= Len(events) /\ events[i].src = s
  <2>1. E \subseteq DOMAIN events /\ \A i \in E : events[i].src = s
    BY <1>3 DEF EvidenceOK, Cluster
  <2>2. Cardinality(E) >= Threshold
    BY <1>6 DEF Large
  <2> QED
    BY <2>1, <2>2, EventTypes DEF IInv
<1>8. /\ row \in Row /\ row.status = "open" /\ row.src = s /\ row.events = E
      /\ row.sev = Severity(Seen(E))
  BY <1>3, <1>6, <1>7, SeverityTypes DEF Row, Worker
<1>9. /\ next \in Worker /\ next.pc = "findEntity" /\ next.snap = proc[p].snap /\ next.src = s
      /\ next.todo = proc[p].todo /\ next.case = nextCase /\ next.opened = proc[p].opened
  BY <1>3, <1>5 DEF Worker
<1>10. PICK w \in Worker : w = next
  BY <1>9
<1>11. PICK new \in Row : new = row
  BY <1>8
<1> HIDE DEF next, row
<1>12. cases \in [CaseId -> Row] /\ \A c \in CaseId : Exists(c) => c < nextCase
  BY DEF IInv, TypeOK, CasesDrawn
<1>13. cases' \in [CaseId -> Row] /\ cases'[nextCase] = new
       /\ \A c \in CaseId : c # nextCase => cases'[c] = cases[c]
  BY <1>1, <1>11, <1>12
<1>14. ~ Exists(nextCase)
  BY <1>1, <1>5, <1>12
<1>15. CountsOK' /\ faults <= faults' /\ faults' \in Nat /\ nextEntity' \in Nat
  <2>1. CountsOK' /\ faults <= faults'
    BY <1>1, CountsRest
  <2>2. faults' \in Nat
    BY <2>1, CorrelationAssumption DEF CountsOK
  <2>3. nextEntity' \in Nat
    BY <1>1, IdTypes
  <2> QED
    BY <2>1, <2>2, <2>3
<1>16. Keeps
  BY <1>1, <1>13, <1>14, <1>15 DEF Keeps, EventsStay, CasesStay, EntitiesStay, Exists, IInv, TypeOK
<1>17. posts[nextCase] = 0
  BY <1>1, <1>14 DEF IInv, TypeOK, PostedOnce
<1>18. HeldBy(w) = proc[p].opened \cup {nextCase} /\ proc[p].opened \subseteq HeldBy(proc[p])
  BY <1>1, <1>9, <1>10 DEF HeldBy
<1>19. CaseOK(p, w)'
  <2>1. \A c \in proc[p].opened : c \in CaseId /\ Exists(c) /\ posts[c] = 0
    BY <1>3 DEF CaseOK, HeldBy, Worker
  <2>2. nextCase \notin proc[p].opened
    BY <2>1, <1>14
  <2>3. \A c \in HeldBy(w) : Exists(c)' /\ posts'[c] = 0
    BY <1>1, <1>8, <1>11, <1>13, <1>17, <1>18, <2>1, <2>2 DEF Exists
  <2>4. \A c \in HeldBy(w)' : Exists(c)' /\ posts'[c] = 0
    BY <2>3 DEF HeldBy
  <2> QED
    BY <1>1, <1>2, <1>6, <1>8, <1>9, <1>10, <1>11, <1>13, <2>2, <2>4 DEF CaseOK, Working, InHand
<1>20. EntityOK(w)'
  BY <1>9, <1>10 DEF EntityOK
<1>21. EvidenceOK(p, w, faults')
  BY <1>1, <1>3, <1>9, <1>10 DEF EvidenceOK, counts, Working, InHand
<1>22. proc' \in [Process -> Worker] /\ WorkersOK' /\ CasesApart'
  <2>1. proc' = [proc EXCEPT ![p] = w]
    BY <1>4, <1>10
  <2>2. \A c \in HeldBy(w) : c \in HeldBy(proc[p]) \/ c >= nextCase
    BY <1>5, <1>18
  <2> QED
    BY <1>1, <1>2, <1>15, <1>16, <1>19, <1>20, <1>21, <2>1, <2>2, WorkerMoves
<1>23. TypeOK'
  <2>1. nextCase' \in 1..(MaxCases + 1)
    BY <1>1, <1>5
  <2> QED
    BY <1>1, <1>13, <1>15, <1>22, <2>1 DEF IInv, TypeOK, CountsOK
<1>24. CasesDrawn'
  BY <1>1, <1>5, <1>12, <1>13 DEF CasesDrawn, Exists, CaseId
<1>25. EntitiesApart'
  BY <1>1 DEF IInv, EntitiesApart
<1>26. LinksResolve'
  <2>1. \A l \in links : l[1] \in CaseId /\ l[1] # nextCase
    BY <1>14 DEF IInv, TypeOK, LinksResolve
  <2> QED
    BY <1>1, <1>13, <2>1 DEF IInv, LinksResolve, Exists
<1>27. PostedOnce'
  BY <1>1, <1>8, <1>11, <1>13 DEF IInv, PostedOnce, Exists
<1>28. CaseEvidence'
  <2>1. ASSUME NEW c \in CaseId, Exists(c)'
        PROVE  /\ Cardinality(cases'[c].events) >= Threshold
               /\ \A i \in cases'[c].events : i <= Len(events) /\ events[i].src = cases'[c].src
               /\ cases'[c].sev = Severity(Seen(cases'[c].events))
    <3>1. CASE c = nextCase
      BY <1>7, <1>8, <1>11, <1>13, <3>1
    <3>2. CASE c # nextCase
      BY <1>13, <2>1, <3>2 DEF IInv, CaseEvidence, Exists
    <3> QED
      BY <3>1, <3>2
  <2>2. \A c \in CaseId : Seen(cases[c].events)' = Seen(cases'[c].events)
    BY <1>1 DEF Seen
  <2>3. \A c \in CaseId : Severity(Seen(cases[c].events))' = Severity(Seen(cases'[c].events))
    BY <2>2 DEF Severity, AtLeast, Score, RealPorts, Ports
  <2> QED
    BY <1>1, <2>1, <2>3 DEF CaseEvidence
<1> QED
  BY <1>22, <1>23, <1>24, <1>25, <1>26, <1>27, <1>28 DEF IInv

-----------------------------------------------------------------------------
(* The source in hand is done with *)

LEMMA DoneFacts ==
    ASSUME IInv, NEW p \in Process, NEW w \in {Done(p), Close(p)}
    PROVE  /\ w \in Worker
           /\ w.pc = "evaluate" /\ w.snap = proc[p].snap
           /\ w.todo = proc[p].todo \ {proc[p].src} /\ w.case = 0
           /\ w = Done(p) => w.opened = proc[p].opened
           /\ w = Close(p) => w.opened = proc[p].opened \cup ({proc[p].case} \cap CaseId)
<1>1. proc[p] \in Worker
  BY ProcFacts
<1>2. 0 \in 0..MaxCases /\ 0 \in 0..MaxEntities
  BY CorrelationAssumption
<1>3. /\ Done(p) \in Worker /\ Done(p).pc = "evaluate" /\ Done(p).snap = proc[p].snap
      /\ Done(p).todo = proc[p].todo \ {proc[p].src} /\ Done(p).case = 0
      /\ Done(p).opened = proc[p].opened
  BY <1>1, <1>2 DEF Done, Worker, RuleType
<1>4. PICK d \in Worker : d = Done(p)
  BY <1>3
<1>5. PICK H \in SUBSET CaseId : H = {proc[p].case} \cap CaseId
  OBVIOUS
<1>6. Close(p) = [d EXCEPT !.opened = d.opened \cup H]
  BY <1>4, <1>5 DEF Close
<1>7. /\ Close(p) \in Worker /\ Close(p).pc = d.pc /\ Close(p).snap = d.snap
      /\ Close(p).todo = d.todo /\ Close(p).case = d.case
      /\ Close(p).opened = d.opened \cup H
  BY <1>6 DEF Worker
<1> QED
  BY <1>3, <1>4, <1>5, <1>7

(* What remains of a process that puts its source away.  A correlator      *)
(* keeps its case; only an error lets it go without one.                   *)
LEMMA ClosingOK ==
    ASSUME IInv, NEW p \in Process, proc[p].pc \in Working, faults <= faults', faults' \in Nat,
           NEW w \in {Done(p), Close(p)},
           w = Close(p) \/ p \notin Correlator \/ proc[p].case = 0,
           p \in Correlator => proc[p].case # 0 \/ faults' # 0
    PROVE  /\ w \in Worker /\ CaseOK(p, w) /\ EntityOK(w) /\ EvidenceOK(p, w, faults')
           /\ HeldBy(w) \subseteq HeldBy(proc[p])
<1>1. /\ proc[p] \in Worker /\ CaseOK(p, proc[p]) /\ EvidenceOK(p, proc[p], faults')
  BY ProcFacts, MoreFaults
<1>2. /\ w \in Worker
      /\ w.pc = "evaluate" /\ w.snap = proc[p].snap
      /\ w.todo = proc[p].todo \ {proc[p].src} /\ w.case = 0
      /\ w = Done(p) => w.opened = proc[p].opened
      /\ w = Close(p) => w.opened = proc[p].opened \cup ({proc[p].case} \cap CaseId)
  BY DoneFacts
<1>3. 0 \notin CaseId
  BY DEF CaseId
<1>4. HeldBy(w) \subseteq HeldBy(proc[p])
  BY <1>2, <1>3 DEF HeldBy
<1>5. 0 \notin w.opened
  BY <1>2, <1>3 DEF Worker
<1>6. p \in Ingester => p \notin Correlator
  BY CorrelationAssumption
<1>7. CaseOK(p, w)
  <2>1. p \in Ingester => proc[p].case = 0 /\ proc[p].opened = {}
    BY <1>1, <1>6 DEF CaseOK
  <2>2. p \in Ingester => w.opened = {}
    BY <1>2, <1>3, <2>1
  <2>3. \A c \in HeldBy(w) : Exists(c) /\ posts[c] = 0
    BY <1>1, <1>4 DEF CaseOK
  <2> QED
    BY <1>2, <1>5, <2>2, <2>3 DEF CaseOK, Working, InHand
<1>8. EntityOK(w)
  BY <1>2 DEF EntityOK
<1>9. EvidenceOK(p, w, faults')
  <2>1. w.snap \subseteq DOMAIN events /\ (p \in Correlator => w.todo \subseteq Large(w.snap))
    BY <1>1, <1>2 DEF EvidenceOK
  <2>2. ASSUME p \in Correlator, faults' = 0, NEW s \in Large(w.snap) \ w.todo
        PROVE  HasCase(s) \/ Excused(w.snap, s)
    <3>1. CASE s = proc[p].src
      <4>1. proc[p].case \in CaseId /\ cases[proc[p].case].src = s /\ Exists(proc[p].case)
        BY <1>1, <2>2, <3>1 DEF CaseOK, HeldBy
      <4> QED
        BY <4>1 DEF HasCase
    <3>2. CASE s # proc[p].src
      BY <1>1, <1>2, <2>2, <3>2 DEF EvidenceOK
    <3> QED
      BY <3>1, <3>2
  <2> QED
    BY <1>2, <2>1, <2>2 DEF EvidenceOK
<1> QED
  BY <1>2, <1>4, <1>7, <1>8, <1>9

LEMMA InsertCaseFailsIInv == ASSUME IInv, NEW p \in Correlator, InsertCaseFails(p) PROVE IInv'
<1>1. /\ proc[p].pc = "insertCase" /\ Fault /\ proc' = [proc EXCEPT ![p] = Done(p)]
      /\ UNCHANGED <<clock, rows, entities, posts, ids, lookupFailures, crashes, cycles, commands>>
  BY DEF InsertCaseFails
<1>2. p \in Process /\ CaseOK(p, proc[p]) /\ faults \in Nat
  BY ProcFacts DEF Process
<1>3. CountsOK' /\ faults <= faults' /\ faults' \in Nat /\ faults' # 0
  BY <1>1, <1>2, CountsFault DEF Fault
<1>4. proc[p].case = 0
  BY <1>1, <1>2 DEF CaseOK, InHand
<1>5. PICK w \in {Done(p), Close(p)} : w = Done(p)
  OBVIOUS
<1>6. /\ w \in Worker /\ CaseOK(p, w) /\ EntityOK(w) /\ EvidenceOK(p, w, faults')
      /\ HeldBy(w) \subseteq HeldBy(proc[p])
  BY <1>1, <1>2, <1>3, <1>4, <1>5, ClosingOK DEF Working
<1> QED
  BY <1>1, <1>2, <1>3, <1>5, <1>6, QuietStep

-----------------------------------------------------------------------------
(* The entity of the source *)

(* A process goes on with its source; it keeps its cases.  What it knows   *)
(* of the entity is proved for each step.                                  *)
Onward(p, pc, e) == [proc[p] EXCEPT !.pc = pc, !.ent = e]

LEMMA OnwardFacts ==
    ASSUME IInv, NEW p \in Process, proc[p].pc \in InHand,
           NEW pc \in {"enrich", "store", "link"}, NEW e \in 0..MaxEntities
    PROVE  /\ Onward(p, pc, e) \in Worker
           /\ Onward(p, pc, e).pc = pc /\ Onward(p, pc, e).ent = e
           /\ Onward(p, pc, e).src = proc[p].src /\ proc[p].src \in Source
           /\ Onward(p, pc, e).snap = proc[p].snap /\ Onward(p, pc, e).todo = proc[p].todo
           /\ Onward(p, pc, e).case = proc[p].case /\ Onward(p, pc, e).opened = proc[p].opened
  BY ProcFacts DEF Onward, Worker, CaseOK, Working

LEMMA OnwardOK ==
    ASSUME IInv, NEW p \in Process, proc[p].pc \in InHand, faults <= faults', faults' \in Nat,
           NEW pc \in {"enrich", "store", "link"}, NEW e \in 0..MaxEntities,
           pc = "link" => p \notin Ingester
    PROVE  /\ CaseOK(p, Onward(p, pc, e)) /\ EvidenceOK(p, Onward(p, pc, e), faults')
           /\ HeldBy(Onward(p, pc, e)) = HeldBy(proc[p])
<1>1. PICK w \in Worker : w = Onward(p, pc, e)
  BY OnwardFacts
<1>2. /\ w.pc = pc /\ w.src = proc[p].src /\ w.src \in Source /\ w.snap = proc[p].snap
      /\ w.todo = proc[p].todo /\ w.case = proc[p].case /\ w.opened = proc[p].opened
  BY <1>1, OnwardFacts
<1>3. CaseOK(p, proc[p]) /\ EvidenceOK(p, proc[p], faults')
  BY ProcFacts, MoreFaults
<1>4. HeldBy(w) = HeldBy(proc[p])
  BY <1>2 DEF HeldBy
<1>5. CaseOK(p, w)
  BY <1>2, <1>3, <1>4 DEF CaseOK, Working, InHand
<1>6. EvidenceOK(p, w, faults')
  BY <1>2, <1>3 DEF EvidenceOK, Working, InHand
<1> QED
  BY <1>1, <1>4, <1>5, <1>6

LEMMA EntityFacts ==
    ASSUME IInv, NEW s \in Source
    PROVE  /\ entities[s].id \in 0..MaxEntities /\ entities[s].id \in Nat
           /\ entities[s].id < nextEntity
           /\ entities[s].id # 0 => \A t \in Source : entities[t].id = entities[s].id => t = s
<1>1. entities[s] \in Entity
  BY DEF IInv, TypeOK
<1>2. entities[s].id \in 0..MaxEntities
  BY <1>1 DEF Entity
<1> QED
  BY <1>2, CorrelationAssumption DEF IInv, EntitiesApart

(* A stored entity is linked under its id. *)
LEMMA StoredIInv ==
    ASSUME IInv, NEW p \in Process, proc[p].pc \in InHand, p \notin Ingester,
           entities[proc[p].src].id # 0, UNCHANGED <<clock, rows, entities, posts, ids, counts>>,
           proc' = [proc EXCEPT ![p].pc = "link", ![p].ent = entities[proc[p].src].id]
    PROVE  IInv'
<1>1. CaseOK(p, proc[p]) /\ proc \in [Process -> Worker] /\ faults \in Nat
  BY ProcFacts
<1>2. proc[p].src \in Source
  BY <1>1 DEF CaseOK, Working
<1>3. PICK e \in 0..MaxEntities : e = entities[proc[p].src].id
  BY <1>2, EntityFacts
<1>4. /\ e < nextEntity /\ e \in Nat \ {0} /\ nextEntity \in Nat
      /\ \A t \in Source : entities[t].id = e => t = proc[p].src
  BY <1>2, <1>3, EntityFacts, IdTypes
<1>5. proc' = [proc EXCEPT ![p] = Onward(p, "link", e)]
  BY <1>1, <1>3 DEF Onward
<1>6. CountsOK' /\ faults <= faults' /\ faults' \in Nat
  BY <1>1, CountsRest DEF counts
<1>7. /\ Onward(p, "link", e) \in Worker /\ Onward(p, "link", e).pc = "link"
      /\ Onward(p, "link", e).ent = e /\ Onward(p, "link", e).src = proc[p].src
  BY OnwardFacts
<1>8. /\ CaseOK(p, Onward(p, "link", e)) /\ EvidenceOK(p, Onward(p, "link", e), faults')
      /\ HeldBy(Onward(p, "link", e)) = HeldBy(proc[p])
  BY <1>6, OnwardOK
<1>9. PICK w \in Worker : w = Onward(p, "link", e)
  BY <1>7
<1>10. EntityOK(w)
  BY <1>4, <1>7, <1>9 DEF EntityOK
<1> QED
  BY <1>5, <1>6, <1>8, <1>9, <1>10, QuietStep

LEMMA FindEntityIInv == ASSUME IInv, NEW p \in Correlator, FindEntity(p) PROVE IInv'
<1>1. p \in Process /\ p \notin Ingester
  BY CorrelationAssumption DEF Process
<1> QED
  BY <1>1, StoredIInv DEF FindEntity, Stored, InHand

(* `ingest` is done with a source that is stored and fresh. *)
LEMMA EnrichCachedIInv == ASSUME IInv, NEW p \in Process, EnrichCached(p) PROVE IInv'
<1>1. /\ proc[p].pc = "enrich" /\ entities[proc[p].src].id # 0
      /\ UNCHANGED <<clock, rows, entities, posts, ids, counts>>
  BY DEF EnrichCached
<1>2. proc \in [Process -> Worker] /\ faults \in Nat
  BY ProcFacts
<1>3. CASE p \in Correlator
  <2>1. p \notin Ingester
    BY <1>3, CorrelationAssumption
  <2>2. proc' = [proc EXCEPT ![p].pc = "link", ![p].ent = entities[proc[p].src].id]
    BY <1>2, <1>3 DEF EnrichCached
  <2> QED
    BY <1>1, <2>1, <2>2, StoredIInv DEF InHand
<1>4. CASE p \notin Correlator
  <2>1. proc' = [proc EXCEPT ![p] = Done(p)]
    BY <1>4 DEF EnrichCached
  <2>2. CountsOK' /\ faults <= faults' /\ faults' \in Nat
    BY <1>1, <1>2, CountsRest DEF counts
  <2>3. PICK w \in {Done(p), Close(p)} : w = Done(p)
    OBVIOUS
  <2>4. /\ w \in Worker /\ CaseOK(p, w) /\ EntityOK(w) /\ EvidenceOK(p, w, faults')
        /\ HeldBy(w) \subseteq HeldBy(proc[p])
    BY <1>1, <1>4, <2>2, <2>3, ClosingOK DEF Working, InHand
  <2> QED
    BY <1>1, <2>1, <2>2, <2>3, <2>4, QuietStep
<1> QED
  BY <1>3, <1>4

(* A case has events, so its source is one. *)
LEMMA CaseSources == ASSUME IInv, NEW c \in CaseId, Exists(c) PROVE cases[c].src \in Source
<1>1. /\ Cardinality(cases[c].events) >= Threshold
      /\ \A i \in cases[c].events : i <= Len(events) /\ events[i].src = cases[c].src
      /\ cases[c].events \subseteq EventId
  BY DEF IInv, CaseEvidence, TypeOK, Row
<1>2. cases[c].events # {}
  <2>1. Cardinality({}) = 0 /\ Threshold \in Nat \ {0}
    BY FS_EmptySet, CorrelationAssumption
  <2>2. cases[c].events = {} => Cardinality(cases[c].events) = 0
    BY <2>1
  <2> QED
    BY <1>1, <2>1, <2>2
<1>3. PICK i \in cases[c].events : TRUE
  BY <1>2
<1>4. i \in DOMAIN events
  BY <1>1, <1>3, EventTypes DEF IInv, EventId
<1> QED
  BY <1>1, <1>3, <1>4, EventTypes DEF IInv

(* A step of one process that changes entities, or draws an id. *)
LEMMA EntityStep ==
    ASSUME IInv, UNCHANGED <<clock, rows, posts, nextCase>>, CountsOK', faults <= faults',
           nextEntity' \in 1..(MaxEntities + 1), EntitiesStay,
           entities' \in [Source -> Entity], EntitiesApart',
           NEW p \in Process, NEW w \in Worker, proc' = [proc EXCEPT ![p] = w],
           CaseOK(p, w), EntityOK(w)', EvidenceOK(p, w, faults'),
           HeldBy(w) \subseteq HeldBy(proc[p])
    PROVE  IInv'
<1>1. UNCHANGED <<events, gone, aged, cases, links, posts, nextCase>>
  BY DEF clock, rows
<1>2. faults' \in Nat /\ nextEntity' \in Nat
  BY CorrelationAssumption DEF CountsOK
<1>3. Keeps
  BY <1>1 DEF Keeps, EventsStay, CasesStay, Exists
<1>4. CaseOK(p, w)'
  BY <1>1 DEF CaseOK, Exists
<1>5. proc' \in [Process -> Worker] /\ WorkersOK' /\ CasesApart'
  BY <1>1, <1>2, <1>3, <1>4, WorkerMoves
<1>6. TypeOK'
  BY <1>1, <1>5 DEF IInv, TypeOK, CountsOK
<1>7. CasesDrawn' /\ PostedOnce'
  BY <1>1 DEF IInv, CasesDrawn, PostedOnce, Exists
<1>8. CaseEvidence'
  BY <1>1 DEF IInv, CaseEvidence, Exists, Seen
<1>9. LinksResolve'
  <2>1. ASSUME NEW l \in links
        PROVE  Exists(l[1]) /\ entities'[cases[l[1]].src].id = l[2]
    <3>1. /\ l[1] \in CaseId /\ l[2] \in EntityId /\ Exists(l[1])
          /\ entities[cases[l[1]].src].id = l[2]
      BY DEF IInv, TypeOK, LinksResolve
    <3>2. cases[l[1]].src \in Source /\ l[2] # 0
      BY <3>1, CaseSources DEF EntityId
    <3> QED
      BY <3>1, <3>2 DEF EntitiesStay
  <2> QED
    BY <1>1, <2>1 DEF LinksResolve, Exists
<1> QED
  BY <1>5, <1>6, <1>7, <1>8, <1>9 DEF IInv

(* UpsertEntity never changes an id that is stored. *)
LEMMA UpsertFacts ==
    ASSUME IInv, NEW s \in Source, NEW id \in EntityId, NEW asn \in Asn, asn = "cloud" => s \in Cloud,
           nextEntity' \in Nat, nextEntity <= nextEntity', id < nextEntity',
           id >= nextEntity \/ id = entities[s].id,
           entities' = Upserted(s, id, asn)
    PROVE  /\ entities' \in [Source -> Entity] /\ EntitiesStay /\ EntitiesApart'
           /\ \A t \in Source : entities'[t].id = id => t = s
<1>1. entities \in [Source -> Entity] /\ nextEntity \in Nat
  BY IdTypes DEF IInv, TypeOK
<1>2. id \in 0..MaxEntities /\ id \in Nat \ {0}
  BY CorrelationAssumption DEF EntityId
<1>3. PICK e \in 0..MaxEntities : e = IF entities[s].id # 0 THEN entities[s].id ELSE id
  BY <1>2, EntityFacts
<1>4. entities' = [entities EXCEPT ![s] = [id |-> e, asn |-> asn, fresh |-> TRUE]]
  BY <1>1, <1>3 DEF Upserted
<1>5. [id |-> e, asn |-> asn, fresh |-> TRUE] \in Entity
  BY DEF Entity
<1>6. /\ entities' \in [Source -> Entity] /\ entities'[s].id = e /\ entities'[s].asn = asn
      /\ \A t \in Source : t # s => entities'[t] = entities[t]
  BY <1>1, <1>4, <1>5
<1>7. \A t \in Source : /\ entities[t].id \in Nat /\ entities[t].id < nextEntity
                        /\ entities[t].id # 0 =>
                              \A u \in Source : entities[u].id = entities[t].id => u = t
                        /\ entities[t].asn = "cloud" => t \in Cloud
  BY EntityFacts DEF IInv, EntitiesApart
<1>8. EntitiesStay
  BY <1>1, <1>2, <1>3, <1>6, <1>7 DEF EntitiesStay
<1>9. \A t \in Source : entities'[t].id = id => t = s
  BY <1>1, <1>2, <1>6, <1>7
<1>10. e \in Nat \ {0} /\ e < nextEntity' /\ \A t \in Source : entities'[t].id = e => t = s
  BY <1>1, <1>2, <1>3, <1>6, <1>7, <1>9
<1>11. ASSUME NEW t \in Source
       PROVE  /\ entities'[t].id < nextEntity'
              /\ entities'[t].id # 0 =>
                    \A u \in Source : entities'[u].id = entities'[t].id => u = t
              /\ entities'[t].asn = "cloud" => t \in Cloud
  <2>1. CASE t = s
    BY <1>6, <1>10, <2>1
  <2>2. CASE t # s
    BY <1>1, <1>6, <1>7, <1>10, <2>2
  <2> QED
    BY <2>1, <2>2
<1>12. EntitiesApart'
  BY <1>11 DEF EntitiesApart
<1> QED
  BY <1>6, <1>8, <1>9, <1>12

(* An id may be drawn that is stored nowhere. *)
LEMMA EntitiesRest ==
    ASSUME IInv, entities' = entities, nextEntity' \in Nat, nextEntity <= nextEntity'
    PROVE  entities' \in [Source -> Entity] /\ EntitiesStay /\ EntitiesApart'
<1>1. nextEntity \in Nat /\ \A s \in Source : entities[s].id \in Nat
  BY IdTypes, EntityFacts
<1> QED
  BY <1>1 DEF IInv, TypeOK, EntitiesStay, EntitiesApart

(* No entity was found: a private source gets an id that is stored nowhere, *)
(* any other goes through EnrichIP.                                         *)
LEMMA FindNoEntityIInv == ASSUME IInv, NEW p \in Correlator, FindNoEntity(p) PROVE IInv'
<1>1. /\ proc[p].pc = "findEntity" /\ Enrich(p) /\ (Fault \/ UNCHANGED faults)
      /\ UNCHANGED <<clock, rows, entities, posts, nextCase>>
      /\ UNCHANGED <<lookupFailures, crashes, cycles, commands>>
  BY DEF FindNoEntity
<1>2. p \in Process /\ p \notin Ingester /\ proc[p].pc \in InHand
  BY <1>1, CorrelationAssumption DEF Process, InHand
<1>3. CountsOK' /\ faults <= faults' /\ faults' \in Nat
  BY <1>1, CountsFault, CorrelationAssumption DEF CountsOK
<1>4. proc[p] \in Worker /\ proc \in [Process -> Worker] /\ nextEntity \in Nat
  BY <1>2, ProcFacts, IdTypes
<1>5. PICK pc \in {"enrich", "link"}, e \in 0..MaxEntities :
        /\ proc' = [proc EXCEPT ![p] = Onward(p, pc, e)]
        /\ pc = "link" => e = nextEntity /\ e \in EntityId /\ nextEntity' = nextEntity + 1
        /\ pc = "enrich" => nextEntity' = nextEntity
  <2>1. CASE Private(proc[p].src)
    <3>1. nextEntity \in 0..MaxEntities
      BY <1>1, <1>4, <2>1 DEF Enrich, EntityId
    <3>2. proc' = [proc EXCEPT ![p] = Onward(p, "link", nextEntity)]
      BY <1>1, <1>4, <2>1 DEF Enrich, Onward
    <3> QED
      BY <1>1, <2>1, <3>1, <3>2 DEF Enrich
  <2>2. CASE ~ Private(proc[p].src)
    <3>1. proc[p].ent \in 0..MaxEntities
      BY <1>4 DEF Worker
    <3>2. [proc[p] EXCEPT !.pc = "enrich"] = Onward(p, "enrich", proc[p].ent)
      BY <1>4 DEF Onward, Worker
    <3>3. proc' = [proc EXCEPT ![p] = Onward(p, "enrich", proc[p].ent)]
      BY <1>1, <2>2, <3>2 DEF Enrich
    <3> QED
      BY <1>1, <2>2, <3>1, <3>3 DEF Enrich
  <2> QED
    BY <2>1, <2>2
<1>6. nextEntity' \in 1..(MaxEntities + 1) /\ nextEntity <= nextEntity' /\ nextEntity' \in Nat
  BY <1>4, <1>5, CorrelationAssumption DEF EntityId, IInv, TypeOK
<1>7. entities' \in [Source -> Entity] /\ EntitiesStay /\ EntitiesApart'
  BY <1>1, <1>6, EntitiesRest
<1>8. PICK w \in Worker : w = Onward(p, pc, e)
  BY <1>2, OnwardFacts
<1>9. /\ w.pc = pc /\ w.ent = e /\ CaseOK(p, w) /\ EvidenceOK(p, w, faults')
      /\ HeldBy(w) = HeldBy(proc[p])
  BY <1>2, <1>3, <1>8, OnwardFacts, OnwardOK
<1>10. EntityOK(w)'
  <2>1. ASSUME pc = "link" PROVE \A s \in Source : entities'[s].id # e
    BY <1>1, <1>4, <1>5, <2>1, EntityFacts
  <2>2. ASSUME pc = "link" PROVE e \in 1..(nextEntity' - 1)
    BY <1>4, <1>5, <2>2 DEF EntityId
  <2> QED
    BY <1>9, <2>1, <2>2 DEF EntityOK
<1> QED
  BY <1>1, <1>2, <1>3, <1>5, <1>6, <1>7, <1>8, <1>9, <1>10, EntityStep

(* The id to enrich under is read with the row, and the row keeps it. *)
LEMMA EnrichMissIInv == ASSUME IInv, NEW p \in Process, EnrichMiss(p) PROVE IInv'
<1>1. /\ proc[p].pc = "enrich" /\ (Fault \/ UNCHANGED faults)
      /\ UNCHANGED <<clock, rows, entities, posts, ids>>
      /\ UNCHANGED <<lookupFailures, crashes, cycles, commands>>
  BY DEF EnrichMiss
<1>2. proc[p].pc \in InHand /\ proc[p] \in Worker /\ proc \in [Process -> Worker]
  BY <1>1, ProcFacts DEF InHand
<1>3. CountsOK' /\ faults <= faults' /\ faults' \in Nat
  BY <1>1, CountsFault, CorrelationAssumption DEF CountsOK
<1>4. proc[p].src \in Source
  BY <1>2, ProcFacts DEF CaseOK, Working
<1>5. PICK e \in 0..MaxEntities :
        /\ proc' = [proc EXCEPT ![p] = Onward(p, "store", e)]
        /\ e # 0 => e = entities[proc[p].src].id
  <2>1. entities[proc[p].src].id \in 0..MaxEntities /\ 0 \in 0..MaxEntities
    BY <1>4, EntityFacts, CorrelationAssumption
  <2>2. \/ proc' = [proc EXCEPT ![p] = Onward(p, "store", entities[proc[p].src].id)]
        \/ proc' = [proc EXCEPT ![p] = Onward(p, "store", 0)]
    BY <1>2 DEF EnrichMiss, Onward
  <2> QED
    BY <2>1, <2>2
<1>6. PICK w \in Worker : w = Onward(p, "store", e)
  BY <1>2, OnwardFacts
<1>7. w.pc = "store" /\ w.ent = e /\ w.src = proc[p].src
  BY <1>2, <1>6, OnwardFacts
<1>8. CaseOK(p, w) /\ EvidenceOK(p, w, faults') /\ HeldBy(w) = HeldBy(proc[p])
  BY <1>2, <1>3, <1>6, OnwardOK
<1>9. EntityOK(w)
  BY <1>5, <1>7 DEF EntityOK
<1> QED
  BY <1>1, <1>3, <1>5, <1>6, <1>8, <1>9, QuietStep

(* A process has enriched its source under id. *)
LEMMA EnrichedIInv ==
    ASSUME IInv, NEW p \in Process, NEW id \in EntityId, proc[p].pc = "store",
           Enriched(p, id), UNCHANGED <<clock, rows, posts, nextCase>>,
           CountsOK', faults <= faults', nextEntity' \in 1..(MaxEntities + 1), id < nextEntity',
           EntitiesStay, entities' \in [Source -> Entity], EntitiesApart',
           \A t \in Source : entities'[t].id = id => t = proc[p].src
    PROVE  IInv'
<1>1. proc[p].pc \in InHand /\ proc \in [Process -> Worker]
  BY ProcFacts DEF InHand
<1>2. faults' \in Nat /\ nextEntity' \in Nat /\ id \in 0..MaxEntities /\ id \in 1..(nextEntity' - 1)
  BY CorrelationAssumption DEF CountsOK, EntityId
<1>3. CASE p \in Correlator
  <2>1. p \notin Ingester
    BY <1>3, CorrelationAssumption
  <2>2. proc' = [proc EXCEPT ![p] = Onward(p, "link", id)]
    BY <1>1, <1>3 DEF Enriched, Onward
  <2>3. PICK w \in Worker : w = Onward(p, "link", id)
    BY <1>1, <1>2, OnwardFacts
  <2>4. w.pc = "link" /\ w.ent = id /\ w.src = proc[p].src
    BY <1>1, <1>2, <2>3, OnwardFacts
  <2>5. CaseOK(p, w) /\ EvidenceOK(p, w, faults') /\ HeldBy(w) = HeldBy(proc[p])
    BY <1>1, <1>2, <2>1, <2>3, OnwardOK
  <2>6. EntityOK(w)'
    BY <1>2, <2>4 DEF EntityOK
  <2> QED
    BY <2>2, <2>3, <2>5, <2>6, EntityStep
<1>4. CASE p \notin Correlator
  <2>1. proc' = [proc EXCEPT ![p] = Done(p)]
    BY <1>4 DEF Enriched
  <2>2. PICK w \in {Done(p), Close(p)} : w = Done(p)
    OBVIOUS
  <2>3. /\ w \in Worker /\ CaseOK(p, w) /\ EntityOK(w) /\ EvidenceOK(p, w, faults')
        /\ HeldBy(w) \subseteq HeldBy(proc[p])
    BY <1>1, <1>2, <1>4, <2>2, ClosingOK DEF Working
  <2>4. w.pc = "evaluate"
    BY DoneFacts
  <2>5. EntityOK(w)'
    BY <2>4 DEF EntityOK
  <2> QED
    BY <2>1, <2>2, <2>3, <2>5, EntityStep
<1> QED
  BY <1>3, <1>4

(* An id is drawn unless the process has one, which is the stored one. *)
LEMMA DrawFacts ==
    ASSUME IInv, NEW p \in Process, proc[p].pc = "store", NEW id \in EntityId, DrawEntity(p, id)
    PROVE  /\ nextEntity' \in 1..(MaxEntities + 1) /\ nextEntity' \in Nat
           /\ nextEntity <= nextEntity' /\ id < nextEntity'
           /\ proc[p].src \in Source
           /\ id >= nextEntity \/ id = entities[proc[p].src].id
<1>1. CaseOK(p, proc[p]) /\ EntityOK(proc[p]) /\ nextEntity \in Nat
  BY ProcFacts, IdTypes
<1>2. proc[p].src \in Source
  BY <1>1 DEF CaseOK, Working, InHand
<1>3. CASE proc[p].ent # 0 /\ id = proc[p].ent /\ UNCHANGED nextEntity
  BY <1>1, <1>2, <1>3, EntityFacts, CorrelationAssumption DEF EntityOK, IInv, TypeOK
<1>4. CASE id = nextEntity /\ nextEntity' = nextEntity + 1
  BY <1>1, <1>2, <1>4, CorrelationAssumption DEF EntityId
<1> QED
  BY <1>3, <1>4 DEF DrawEntity

LEMMA UpsertEntityIInv == ASSUME IInv, NEW p \in Process, UpsertEntity(p) PROVE IInv'
<1>1. /\ proc[p].pc = "store" /\ UNCHANGED <<clock, rows, posts, nextCase, counts>>
  BY DEF UpsertEntity
<1>2. PICK id \in EntityId :
        /\ DrawEntity(p, id)
        /\ entities' = Upserted(proc[p].src, id, IF proc[p].src \in Cloud THEN "cloud" ELSE "other")
        /\ Enriched(p, id)
  BY DEF UpsertEntity
<1>3. /\ nextEntity' \in 1..(MaxEntities + 1) /\ nextEntity' \in Nat
      /\ nextEntity <= nextEntity' /\ id < nextEntity'
      /\ proc[p].src \in Source
      /\ id >= nextEntity \/ id = entities[proc[p].src].id
  BY <1>1, <1>2, DrawFacts
<1>4. PICK asn \in Asn : asn = IF proc[p].src \in Cloud THEN "cloud" ELSE "other"
  BY DEF Asn
<1>5. /\ entities' \in [Source -> Entity] /\ EntitiesStay /\ EntitiesApart'
      /\ \A t \in Source : entities'[t].id = id => t = proc[p].src
  BY <1>2, <1>3, <1>4, UpsertFacts
<1>6. CountsOK' /\ faults <= faults'
  BY <1>1, CountsRest
<1> QED
  BY <1>1, <1>2, <1>3, <1>5, <1>6, EnrichedIInv

LEMMA UpsertEntityFailsIInv == ASSUME IInv, NEW p \in Process, UpsertEntityFails(p) PROVE IInv'
<1>1. /\ proc[p].pc = "store" /\ Fault /\ proc' = [proc EXCEPT ![p] = Close(p)]
      /\ UNCHANGED <<clock, rows, entities, posts, nextCase>>
      /\ UNCHANGED <<lookupFailures, crashes, cycles, commands>>
  BY DEF UpsertEntityFails
<1>2. PICK id \in EntityId : DrawEntity(p, id)
  BY DEF UpsertEntityFails
<1>3. /\ nextEntity' \in 1..(MaxEntities + 1) /\ nextEntity' \in Nat /\ nextEntity <= nextEntity'
  BY <1>1, <1>2, DrawFacts
<1>4. faults \in Nat
  BY ProcFacts
<1>5. CountsOK' /\ faults <= faults' /\ faults' \in Nat /\ faults' # 0
  BY <1>1, <1>4, CountsFault DEF Fault
<1>6. entities' \in [Source -> Entity] /\ EntitiesStay /\ EntitiesApart'
  BY <1>1, <1>3, EntitiesRest
<1>7. PICK w \in {Done(p), Close(p)} : w = Close(p)
  OBVIOUS
<1>8. /\ w \in Worker /\ CaseOK(p, w) /\ EvidenceOK(p, w, faults')
      /\ HeldBy(w) \subseteq HeldBy(proc[p])
  BY <1>1, <1>5, <1>7, ClosingOK DEF Working, InHand
<1>9. w.pc = "evaluate"
  BY DoneFacts
<1>10. EntityOK(w)'
  BY <1>9 DEF EntityOK
<1> QED
  BY <1>1, <1>3, <1>5, <1>6, <1>7, <1>8, <1>10, EntityStep

(* The stub's id is new; it is stored where nothing was, or nowhere.       *)
LEMMA LookupFailsIInv == ASSUME IInv, NEW p \in Process, LookupFails(p) PROVE IInv'
<1>1. PICK asn \in Asn :
        /\ asn # "cloud"
        /\ proc[p].pc = "store" /\ LookupFailed(proc[p].src)
        /\ nextEntity \in EntityId /\ nextEntity' = nextEntity + 1
        /\ \/ entities' = Upserted(proc[p].src, nextEntity, asn) /\ UNCHANGED faults
           \/ Fault /\ UNCHANGED entities
        /\ Enriched(p, nextEntity)
        /\ UNCHANGED <<clock, rows, posts, nextCase, crashes, cycles, commands>>
  <2>1. PICK asn \in Asn : asn = "" /\ asn # "cloud"
    BY DEF Asn
  <2> QED
    BY <2>1 DEF LookupFails
<1>2. /\ nextEntity \in Nat /\ nextEntity' \in Nat /\ nextEntity' \in 1..(MaxEntities + 1)
      /\ nextEntity < nextEntity' /\ nextEntity <= nextEntity'
  BY <1>1, CorrelationAssumption DEF EntityId
<1>3. proc[p].src \in Source
  BY <1>1, ProcFacts DEF CaseOK, Working, InHand
<1>4. CountsOK' /\ faults <= faults'
  BY <1>1, ProcFacts, CorrelationAssumption DEF LookupFailed, Fault, CountsOK
<1>5. PICK id \in EntityId : id = nextEntity
  BY <1>1
<1>6. /\ entities' \in [Source -> Entity] /\ EntitiesStay /\ EntitiesApart'
      /\ \A t \in Source : entities'[t].id = id => t = proc[p].src
  <2>1. CASE entities' = Upserted(proc[p].src, nextEntity, asn)
    <3>1. entities' = Upserted(proc[p].src, id, asn) /\ id < nextEntity' /\ id >= nextEntity
      BY <1>2, <1>5, <2>1
    <3> QED
      BY <1>1, <1>2, <1>3, <3>1, UpsertFacts
  <2>2. CASE UNCHANGED entities
    <3>1. \A t \in Source : entities[t].id # id
      BY <1>2, <1>5, EntityFacts
    <3> QED
      BY <1>2, <2>2, <3>1, EntitiesRest
  <2> QED
    BY <1>1, <2>1, <2>2
<1> QED
  BY <1>1, <1>2, <1>4, <1>5, <1>6, EnrichedIInv

LEMMA EnrichIPIInv == ASSUME IInv, NEW p \in Process, EnrichIP(p) PROVE IInv'
  BY EnrichCachedIInv, EnrichMissIInv, UpsertEntityIInv, UpsertEntityFailsIInv, LookupFailsIInv
     DEF EnrichIP

-----------------------------------------------------------------------------
(* A case is linked to the entity that is stored for its source, if it is  *)
(* stored under the id at hand: any other id is not stored at all.         *)
LEMMA LinkIInv == ASSUME IInv, NEW p \in Correlator, LinkEntityToCase(p) PROVE IInv'
<1> DEFINE c == proc[p].case
           e == proc[p].ent
<1>1. /\ proc[p].pc = "link" /\ proc' = [proc EXCEPT ![p] = Close(p)]
      /\ links' = links \cup {l \in {<<c, e>>} : Linkable(l[1], l[2])}
      /\ UNCHANGED <<events, gone, aged, cases, entities, posts, nextCase, nextEntity, counts>>
  BY DEF LinkEntityToCase, clock, ids
<1>2. p \in Process /\ proc[p] \in Worker /\ CaseOK(p, proc[p]) /\ EntityOK(proc[p]) /\ faults \in Nat
  BY ProcFacts DEF Process
<1>3. c \in CaseId /\ Exists(c) /\ cases[c].src = proc[p].src
  BY <1>1, <1>2 DEF CaseOK, InHand, HeldBy
<1>4. e \in EntityId /\ \A s \in Source : entities[s].id = e => s = proc[p].src
  <2>1. e \in 0..MaxEntities /\ e \in 1..(nextEntity - 1)
    BY <1>1, <1>2 DEF EntityOK, Worker
  <2>2. e \in EntityId
    BY <2>1, IdTypes, CorrelationAssumption DEF EntityId
  <2> QED
    BY <1>1, <1>2, <2>2 DEF EntityOK
<1>5. CountsOK' /\ faults <= faults' /\ faults' \in Nat /\ nextEntity' \in Nat
  BY <1>1, <1>2, CountsRest, IdTypes DEF counts
<1>6. Keeps
  BY <1>1, <1>5, IdTypes DEF Keeps, EventsStay, CasesStay, EntitiesStay, Exists
<1>7. PICK w \in {Done(p), Close(p)} : w = Close(p)
  OBVIOUS
<1>8. /\ w \in Worker /\ CaseOK(p, w) /\ EntityOK(w) /\ EvidenceOK(p, w, faults')
      /\ HeldBy(w) \subseteq HeldBy(proc[p])
  <2>1. c # 0
    BY <1>3 DEF CaseId
  <2> QED
    BY <1>1, <1>2, <1>5, <1>7, <2>1, ClosingOK DEF Working, InHand
<1>9. CaseOK(p, w)' /\ EntityOK(w)'
  BY <1>1, <1>8 DEF CaseOK, EntityOK, Exists
<1>10. proc' \in [Process -> Worker] /\ WorkersOK' /\ CasesApart'
  BY <1>1, <1>2, <1>5, <1>6, <1>7, <1>8, <1>9, WorkerMoves
<1>11. links' \subseteq links \cup {<<c, e>>}
  BY <1>1
<1>12. TypeOK'
  <2>1. links' \subseteq CaseId \X EntityId
    BY <1>3, <1>4, <1>11 DEF IInv, TypeOK
  <2> QED
    BY <1>1, <1>5, <1>10, <2>1 DEF IInv, TypeOK, CountsOK
<1>13. CasesDrawn' /\ EntitiesApart' /\ PostedOnce'
  BY <1>1 DEF IInv, CasesDrawn, EntitiesApart, PostedOnce, Exists
<1>14. CaseEvidence'
  BY <1>1, EvidenceRests
<1>15. LinksResolve'
  <2>1. ASSUME NEW l \in links' PROVE Exists(l[1]) /\ entities[cases[l[1]].src].id = l[2]
    <3>1. CASE l \in links
      BY <3>1 DEF IInv, LinksResolve
    <3>2. CASE l \notin links
      <4>1. l = <<c, e>> /\ Linkable(c, e)
        BY <1>1, <2>1, <3>2
      <4>2. entities[proc[p].src].id = e
        BY <1>4, <4>1 DEF Linkable
      <4> QED
        BY <1>3, <4>1, <4>2
    <3> QED
      BY <3>1, <3>2
  <2> QED
    BY <1>1, <2>1 DEF LinksResolve, Exists
<1> QED
  BY <1>10, <1>12, <1>13, <1>14, <1>15 DEF IInv

LEMMA LinkFailsIInv == ASSUME IInv, NEW p \in Correlator, LinkEntityToCaseFails(p) PROVE IInv'
<1>1. /\ proc[p].pc = "link" /\ Fault /\ proc' = [proc EXCEPT ![p] = Close(p)]
      /\ UNCHANGED <<clock, rows, entities, posts, ids, lookupFailures, crashes, cycles, commands>>
  BY DEF LinkEntityToCaseFails
<1>2. p \in Process /\ faults \in Nat
  BY ProcFacts DEF Process
<1>3. CountsOK' /\ faults <= faults' /\ faults' \in Nat /\ faults' # 0
  BY <1>1, <1>2, CountsFault DEF Fault
<1>4. PICK w \in {Done(p), Close(p)} : w = Close(p)
  OBVIOUS
<1>5. /\ w \in Worker /\ CaseOK(p, w) /\ EntityOK(w) /\ EvidenceOK(p, w, faults')
      /\ HeldBy(w) \subseteq HeldBy(proc[p])
  BY <1>1, <1>2, <1>3, <1>4, ClosingOK DEF Working, InHand
<1> QED
  BY <1>1, <1>2, <1>3, <1>4, <1>5, QuietStep

-----------------------------------------------------------------------------
(* postAlerts *)

LEMMA BeginAlertsIInv == ASSUME IInv, NEW p \in Correlator, BeginAlerts(p) PROVE IInv'
<1>1. /\ proc[p].pc = "evaluate" /\ proc[p].todo = {}
      /\ UNCHANGED <<clock, rows, entities, posts, ids, counts>>
  BY DEF BeginAlerts
<1>2. p \in Process /\ p \notin Ingester
  BY CorrelationAssumption DEF Process
<1>3. proc[p] \in Worker /\ CaseOK(p, proc[p]) /\ CountsOK' /\ faults <= faults'
  BY <1>1, <1>2, ProcFacts, CountsRest
<1> DEFINE next == [proc[p] EXCEPT !.pc = "post", !.snap = {}, !.recent = {}]
<1>4. proc' = [proc EXCEPT ![p] = next]
  BY <1>2, ProcFacts DEF BeginAlerts
<1>5. /\ next \in Worker /\ next.pc = "post" /\ next.snap = {} /\ next.todo = {}
      /\ next.case = proc[p].case /\ next.opened = proc[p].opened
  BY <1>1, <1>3 DEF Worker
<1>6. PICK w \in Worker : w = next
  BY <1>5
<1> HIDE DEF next
<1>7. CaseOK(p, w) /\ EntityOK(w) /\ EvidenceOK(p, w, faults') /\ HeldBy(w) = HeldBy(proc[p])
  BY <1>1, <1>2, <1>3, <1>5, <1>6 DEF CaseOK, EntityOK, EvidenceOK, HeldBy, Working, InHand
<1> QED
  BY <1>1, <1>2, <1>3, <1>4, <1>6, <1>7, QuietStep

(* A process that posts lets go of the case, whether it was posted or not. *)
LEMMA PostingFacts ==
    ASSUME IInv, NEW p \in Process, proc[p].pc = "post", NEW c \in proc[p].opened,
           NEW w, w = [proc[p] EXCEPT !.opened = proc[p].opened \ {c}]
    PROVE  /\ w \in Worker /\ EntityOK(w) /\ EvidenceOK(p, w, faults)
           /\ w.pc = "post" /\ w.opened = proc[p].opened \ {c} /\ w.case = 0
           /\ p \notin Ingester
           /\ HeldBy(w) = w.opened /\ HeldBy(w) = HeldBy(proc[p]) \ {c} /\ c \in HeldBy(proc[p])
           /\ c \in CaseId /\ Exists(c) /\ posts[c] = 0
<1>1. /\ proc[p] \in Worker /\ CaseOK(p, proc[p]) /\ EntityOK(proc[p])
      /\ EvidenceOK(p, proc[p], faults)
  BY ProcFacts
<1>2. /\ w \in Worker /\ w.pc = "post" /\ w.opened = proc[p].opened \ {c}
      /\ w.case = proc[p].case /\ w.snap = proc[p].snap /\ w.todo = proc[p].todo
  BY <1>1 DEF Worker
<1>3. proc[p].case = 0 /\ p \notin Ingester /\ 0 \notin CaseId
  BY <1>1 DEF CaseOK, InHand, CaseId
<1>4. c \in HeldBy(proc[p]) /\ c \in CaseId
  BY <1>1 DEF HeldBy, Worker
<1>5. HeldBy(w) = w.opened /\ HeldBy(w) = HeldBy(proc[p]) \ {c}
  BY <1>2, <1>3 DEF HeldBy
<1>6. Exists(c) /\ posts[c] = 0
  BY <1>1, <1>4 DEF CaseOK
<1>7. EntityOK(w) /\ EvidenceOK(p, w, faults)
  BY <1>1, <1>2 DEF EntityOK, EvidenceOK, Working, InHand
<1> QED
  BY <1>2, <1>3, <1>4, <1>5, <1>6, <1>7

LEMMA PostBlockIInv ==
    ASSUME IInv, NEW p \in Correlator, NEW c \in CaseId, PostBlock(p, c)
    PROVE  IInv'
<1>1. /\ proc[p].pc = "post" /\ c \in proc[p].opened
      /\ posts' = [posts EXCEPT ![c] = @ + 1]
      /\ UNCHANGED <<events, gone, aged, cases, links, entities, nextCase, nextEntity, counts>>
  BY DEF PostBlock, clock, rows, ids
<1>2. p \in Process /\ proc[p] \in Worker /\ CaseOK(p, proc[p]) /\ faults \in Nat
  BY ProcFacts DEF Process
<1>3. PICK w : w = [proc[p] EXCEPT !.opened = proc[p].opened \ {c}]
  OBVIOUS
<1>4. /\ w \in Worker /\ EntityOK(w) /\ EvidenceOK(p, w, faults)
      /\ w.pc = "post" /\ w.opened = proc[p].opened \ {c} /\ w.case = 0 /\ p \notin Ingester
      /\ HeldBy(w) = w.opened /\ HeldBy(w) = HeldBy(proc[p]) \ {c} /\ c \in HeldBy(proc[p])
      /\ Exists(c) /\ posts[c] = 0
  BY <1>1, <1>2, <1>3, PostingFacts
<1>5. proc' = [proc EXCEPT ![p] = w]
  BY <1>2, <1>3 DEF PostBlock
<1>6. posts \in [CaseId -> Nat] /\ posts' \in [CaseId -> Nat] /\ posts'[c] = 1
      /\ \A d \in CaseId : d # c => posts'[d] = posts[d]
  BY <1>1, <1>4 DEF IInv, TypeOK
<1>7. CountsOK' /\ faults <= faults' /\ faults' \in Nat /\ nextEntity' \in Nat
  BY <1>1, <1>2, CountsRest, IdTypes DEF counts
<1>8. Keeps
  BY <1>1, <1>7, IdTypes DEF Keeps, EventsStay, CasesStay, EntitiesStay, Exists
<1>9. EvidenceOK(p, w, faults')
  BY <1>1, <1>4 DEF counts
<1>10. CaseOK(p, w)'
  <2>1. \A d \in HeldBy(w) : d # c /\ d \in CaseId /\ Exists(d) /\ posts[d] = 0
    BY <1>2, <1>4 DEF CaseOK, Worker
  <2>2. \A d \in HeldBy(w) : Exists(d)' /\ posts'[d] = 0
    BY <1>1, <1>6, <2>1 DEF Exists
  <2>3. \A d \in HeldBy(w)' : Exists(d)' /\ posts'[d] = 0
    BY <2>2 DEF HeldBy
  <2>4. 0 \notin w.opened
    BY <1>4, <2>1 DEF CaseId
  <2> QED
    BY <1>4, <2>3, <2>4 DEF CaseOK, Working, InHand
<1>11. EntityOK(w)'
  BY <1>4 DEF EntityOK
<1>12. proc' \in [Process -> Worker] /\ WorkersOK' /\ CasesApart'
  <2>1. \A d \in CaseId : posts'[d] # posts[d] => d \in HeldBy(proc[p])
    BY <1>4, <1>6
  <2>2. \A d \in HeldBy(w) : d \in HeldBy(proc[p]) \/ d >= nextCase
    BY <1>4
  <2> QED
    BY <1>2, <1>4, <1>5, <1>7, <1>8, <1>9, <1>10, <1>11, <2>1, <2>2, WorkerMoves
<1>13. TypeOK'
  BY <1>1, <1>6, <1>7, <1>12 DEF IInv, TypeOK, CountsOK
<1>14. CasesDrawn' /\ EntitiesApart' /\ LinksResolve'
  BY <1>1 DEF IInv, CasesDrawn, EntitiesApart, LinksResolve, Exists
<1>15. CaseEvidence'
  BY <1>1, EvidenceRests
<1>16. PostedOnce'
  BY <1>1, <1>4, <1>6 DEF IInv, PostedOnce, Exists
<1> QED
  BY <1>12, <1>13, <1>14, <1>15, <1>16 DEF IInv

LEMMA PostBlockFailsIInv ==
    ASSUME IInv, NEW p \in Correlator, NEW c \in CaseId, PostBlockFails(p, c)
    PROVE  IInv'
<1>1. /\ proc[p].pc = "post" /\ c \in proc[p].opened
      /\ UNCHANGED <<clock, rows, entities, posts, ids, counts>>
  BY DEF PostBlockFails
<1>2. p \in Process /\ proc[p] \in Worker /\ CaseOK(p, proc[p]) /\ faults \in Nat
  BY ProcFacts DEF Process
<1>3. PICK w : w = [proc[p] EXCEPT !.opened = proc[p].opened \ {c}]
  OBVIOUS
<1>4. /\ w \in Worker /\ EntityOK(w) /\ EvidenceOK(p, w, faults)
      /\ w.pc = "post" /\ w.opened = proc[p].opened \ {c} /\ w.case = 0 /\ p \notin Ingester
      /\ HeldBy(w) = HeldBy(proc[p]) \ {c}
  BY <1>1, <1>2, <1>3, PostingFacts
<1>5. proc' = [proc EXCEPT ![p] = w]
  BY <1>2, <1>3 DEF PostBlockFails
<1>6. CountsOK' /\ faults <= faults' /\ EvidenceOK(p, w, faults')
  BY <1>1, <1>4, CountsRest DEF counts
<1>7. CaseOK(p, w)
  <2>1. 0 \notin w.opened
    BY <1>2, <1>4 DEF CaseId, Worker
  <2> QED
    BY <1>2, <1>4, <2>1 DEF CaseOK, Working, InHand
<1> QED
  BY <1>1, <1>2, <1>4, <1>5, <1>6, <1>7, QuietStep

LEMMA RunIInv == ASSUME IInv, NEW p \in Correlator, Run(p) PROVE IInv'
<1>1. p \in Process
  BY DEF Process
<1>2. CASE OpenCase(p)
  BY <1>1, <1>2, InsertCaseIInv, InsertCaseFailsIInv, FindEntityIInv, FindNoEntityIInv,
     EnrichIPIInv, LinkIInv, LinkFailsIInv DEF OpenCase
<1>3. CASE PostAlerts(p)
  BY <1>1, <1>3, BeginAlertsIInv, PostBlockIInv, PostBlockFailsIInv, EndIInv DEF PostAlerts
<1> QED
  BY <1>2, <1>3, BeginRulesIInv, SuppressIInv, EvaluateIInv DEF Run

-----------------------------------------------------------------------------
(* `ingest` *)

LEMMA EnrichEventIInv ==
    ASSUME IInv, NEW p \in Ingester, NEW s \in Source, EnrichEvent(p, s)
    PROVE  IInv'
<1>1. /\ proc[p].pc = "evaluate"
      /\ UNCHANGED <<clock, rows, entities, posts, ids, counts>>
  BY DEF EnrichEvent
<1>2. p \in Process /\ p \notin Correlator
  BY CorrelationAssumption DEF Process
<1>3. /\ proc[p] \in Worker /\ CaseOK(p, proc[p]) /\ EvidenceOK(p, proc[p], faults)
      /\ CountsOK' /\ faults <= faults'
  BY <1>1, <1>2, ProcFacts, CountsRest
<1>4. CASE Private(s)
  <2>1. Drop(p, s)
    BY <1>4 DEF EnrichEvent
  <2> QED
    BY <1>1, <1>2, <1>3, <2>1, DropIInv
<1>5. CASE ~ Private(s)
  <2> DEFINE next == [proc[p] EXCEPT !.pc = "enrich", !.src = s]
  <2>1. proc' = [proc EXCEPT ![p] = next]
    BY <1>2, <1>5, ProcFacts DEF EnrichEvent
  <2>2. /\ next \in Worker /\ next.pc = "enrich" /\ next.src = s /\ next.snap = proc[p].snap
        /\ next.todo = proc[p].todo /\ next.case = proc[p].case /\ next.opened = proc[p].opened
    BY <1>3 DEF Worker
  <2>3. PICK w \in Worker : w = next
    BY <2>2
  <2> HIDE DEF next
  <2>4. /\ CaseOK(p, w) /\ EntityOK(w) /\ EvidenceOK(p, w, faults')
        /\ HeldBy(w) = HeldBy(proc[p])
    BY <1>1, <1>2, <1>3, <2>2, <2>3 DEF CaseOK, EntityOK, EvidenceOK, HeldBy, Working, InHand
  <2> QED
    BY <1>1, <1>2, <1>3, <2>1, <2>3, <2>4, QuietStep
<1> QED
  BY <1>4, <1>5

LEMMA EnrichEventsIInv == ASSUME IInv, NEW p \in Ingester, EnrichEvents(p) PROVE IInv'
<1>1. p \in Process
  BY DEF Process
<1> QED
  BY <1>1, EnrichEventIInv, EnrichIPIInv, EndIInv DEF EnrichEvents

-----------------------------------------------------------------------------
(* The environment *)

(* A step of no process. *)
LEMMA OutsideStep ==
    ASSUME IInv, Keeps, UNCHANGED <<proc, links, posts, ids>>, CountsOK', EntitiesApart',
           \A c \in CaseId : Exists(c)' => Exists(c),
           events' \in Seq([src : Source, look : UNION {LooksOf[s] : s \in Source}]),
           Len(events) <= Len(events'), Len(events') <= MaxEvents,
           gone' \in 0..aged', aged' \in 0..Len(events'),
           cases' \in [CaseId -> Row], entities' \in [Source -> Entity]
    PROVE  IInv'
<1>1. UNCHANGED <<proc, links, posts, nextCase, nextEntity>>
  BY DEF ids
<1>2. faults' \in Nat /\ nextEntity' \in Nat
  BY <1>1, IdTypes, CorrelationAssumption DEF CountsOK
<1>3. proc' \in [Process -> Worker] /\ WorkersOK' /\ CasesApart'
  BY <1>1, <1>2, WorkersRest
<1>4. TypeOK'
  BY <1>1, <1>3 DEF IInv, TypeOK, CountsOK
<1>5. CasesDrawn' /\ PostedOnce'
  BY <1>1 DEF IInv, CasesDrawn, PostedOnce, Keeps, CasesStay
<1>6. CaseEvidence'
  <2>1. Len(events') \in Nat
    BY LenProperties
  <2> QED
    BY <2>1, EvidenceKept DEF Keeps
<1>7. LinksResolve'
  <2>1. ASSUME NEW l \in links
        PROVE  Exists(l[1])' /\ entities'[cases'[l[1]].src].id = l[2]
    <3>1. /\ l[1] \in CaseId /\ l[2] \in EntityId /\ Exists(l[1])
          /\ entities[cases[l[1]].src].id = l[2]
      BY DEF IInv, TypeOK, LinksResolve
    <3>2. cases[l[1]].src \in Source /\ l[2] # 0
      BY <3>1, CaseSources DEF EntityId
    <3>3. Exists(l[1])' /\ cases'[l[1]].src = cases[l[1]].src
      BY <3>1 DEF Keeps, CasesStay
    <3>4. entities'[cases[l[1]].src].id = l[2]
      BY <3>1, <3>2 DEF Keeps, EntitiesStay
    <3> QED
      BY <3>3, <3>4
  <2> QED
    BY <1>1, <2>1 DEF LinksResolve, Exists
<1> QED
  BY <1>3, <1>4, <1>5, <1>6, <1>7 DEF IInv

LEMMA InsertEventIInv ==
    ASSUME IInv, NEW s \in Source, NEW l \in LooksOf[s], InsertEvent(s, l)
    PROVE  IInv'
<1> DEFINE T == [src : Source, look : UNION {LooksOf[t] : t \in Source}]
<1>1. /\ Len(events) < MaxEvents /\ events' = Append(events, [src |-> s, look |-> l])
      /\ UNCHANGED <<gone, aged, cases, links, entities, proc, posts, ids, nextEntity, counts>>
  BY DEF InsertEvent, rows, ids
<1>2. events \in Seq(T) /\ [src |-> s, look |-> l] \in T /\ Len(events) \in Nat
      /\ gone \in 0..aged /\ aged \in 0..Len(events)
  BY EventTypes DEF IInv, TypeOK
<1>3. /\ events' \in Seq(T) /\ Len(events') = Len(events) + 1
      /\ \A i \in 1..Len(events) : events'[i] = events[i]
  BY <1>1, <1>2, AppendProperties
<1>4. Len(events) <= Len(events') /\ Len(events') <= MaxEvents /\ aged' \in 0..Len(events')
      /\ gone' \in 0..aged'
  BY <1>1, <1>2, <1>3, CorrelationAssumption
<1>5. EventsStay
  BY <1>2, <1>3, LenProperties DEF EventsStay
<1>6. CountsOK' /\ faults <= faults'
  BY <1>1, CountsRest
<1>7. Keeps
  BY <1>1, <1>5, <1>6, IdTypes DEF Keeps, CasesStay, EntitiesStay, Exists
<1>8. EntitiesApart' /\ cases' \in [CaseId -> Row] /\ entities' \in [Source -> Entity]
      /\ \A c \in CaseId : Exists(c)' => Exists(c)
  BY <1>1 DEF IInv, TypeOK, EntitiesApart, Exists
<1> QED
  BY <1>1, <1>3, <1>4, <1>6, <1>7, <1>8, OutsideStep

LEMMA PassIInv == ASSUME IInv, PassDedupWindow \/ PassWindow PROVE IInv'
<1>1. UNCHANGED <<events, cases, links, entities, proc, posts, ids, nextEntity, counts>>
  BY DEF PassDedupWindow, PassWindow, rows, ids
<1>2. Len(events) \in Nat /\ gone \in 0..aged /\ aged \in 0..Len(events)
  BY EventTypes DEF IInv, TypeOK
<1>3. gone' \in 0..aged' /\ aged' \in 0..Len(events)
  BY <1>2 DEF PassDedupWindow, PassWindow
<1>4. CountsOK' /\ faults <= faults'
  BY <1>1, CountsRest
<1>5. Keeps
  BY <1>1, <1>4, IdTypes DEF Keeps, EventsStay, CasesStay, EntitiesStay, Exists
<1>6. /\ EntitiesApart' /\ cases' \in [CaseId -> Row] /\ entities' \in [Source -> Entity]
      /\ \A c \in CaseId : Exists(c)' => Exists(c)
      /\ events' \in Seq([src : Source, look : UNION {LooksOf[s] : s \in Source}])
      /\ Len(events') <= MaxEvents
  BY <1>1 DEF IInv, TypeOK, EntitiesApart, Exists
<1>7. Len(events) <= Len(events') /\ aged' \in 0..Len(events')
  BY <1>1, <1>2, <1>3
<1> QED
  BY <1>1, <1>3, <1>4, <1>5, <1>6, <1>7, OutsideStep

LEMMA PassTTLIInv == ASSUME IInv, NEW s \in Source, PassTTL(s) PROVE IInv'
<1>1. /\ UNCHANGED <<events, gone, aged, cases, links, proc, posts, ids, nextEntity, counts>>
      /\ entities' = [entities EXCEPT ![s].fresh = FALSE]
  BY DEF PassTTL, rows, clock, ids
<1>2. entities \in [Source -> Entity]
  BY DEF IInv, TypeOK
<1>3. /\ entities' \in [Source -> Entity]
      /\ \A t \in Source : entities'[t].id = entities[t].id /\ entities'[t].asn = entities[t].asn
  BY <1>1, <1>2 DEF Entity
<1>4. CountsOK' /\ faults <= faults'
  BY <1>1, CountsRest
<1>5. Keeps
  BY <1>1, <1>3, <1>4, IdTypes DEF Keeps, EventsStay, CasesStay, EntitiesStay, Exists
<1>6. EntitiesApart'
  BY <1>1, <1>3 DEF IInv, EntitiesApart
<1>7. /\ cases' \in [CaseId -> Row] /\ \A c \in CaseId : Exists(c)' => Exists(c)
      /\ events' \in Seq([src : Source, look : UNION {LooksOf[t] : t \in Source}])
      /\ Len(events') <= MaxEvents /\ gone' \in 0..aged' /\ aged' \in 0..Len(events')
  BY <1>1 DEF IInv, TypeOK, Exists
<1>8. Len(events) <= Len(events')
  BY <1>1, EventTypes DEF IInv
<1> QED
  BY <1>1, <1>3, <1>4, <1>5, <1>6, <1>7, <1>8, OutsideStep

LEMMA SetCaseStatusIInv ==
    ASSUME IInv, NEW c \in CaseId, NEW status \in {"open", "closed"}, SetCaseStatus(c, status)
    PROVE  IInv'
<1>1. /\ UNCHANGED <<events, gone, aged, links, entities, proc, posts, ids, nextEntity>>
      /\ UNCHANGED <<lookupFailures, faults, crashes, cycles>>
      /\ cases' = [cases EXCEPT ![c].status = status] /\ Exists(c)
      /\ commands < MaxCommands /\ commands' = commands + 1
  BY DEF SetCaseStatus, clock, ids
<1>2. cases \in [CaseId -> Row]
  BY DEF IInv, TypeOK
<1>3. /\ cases' \in [CaseId -> Row]
      /\ \A d \in CaseId : /\ cases'[d].src = cases[d].src /\ cases'[d].sev = cases[d].sev
                           /\ cases'[d].events = cases[d].events
                           /\ d # c => cases'[d].status = cases[d].status
      /\ cases'[c].status = status
  BY <1>1, <1>2 DEF Row
<1>4. \A d \in CaseId : Exists(d)' <=> Exists(d)
  BY <1>1, <1>3 DEF Exists
<1>5. CountsOK' /\ faults <= faults'
  <2>1. commands \in 0..MaxCommands /\ MaxCommands \in Nat /\ faults \in 0..MaxFaults /\ MaxFaults \in Nat
    BY CorrelationAssumption DEF IInv, TypeOK
  <2>2. commands' \in 0..MaxCommands /\ faults <= faults'
    BY <1>1, <2>1
  <2> QED
    BY <1>1, <2>2 DEF CountsOK, IInv, TypeOK
<1>6. Keeps
  BY <1>1, <1>3, <1>4, <1>5, IdTypes DEF Keeps, EventsStay, CasesStay, EntitiesStay
<1>7. /\ EntitiesApart' /\ entities' \in [Source -> Entity]
      /\ events' \in Seq([src : Source, look : UNION {LooksOf[t] : t \in Source}])
      /\ Len(events') <= MaxEvents /\ gone' \in 0..aged' /\ aged' \in 0..Len(events')
  BY <1>1 DEF IInv, TypeOK, EntitiesApart
<1>8. Len(events) <= Len(events')
  BY <1>1, EventTypes DEF IInv
<1> QED
  BY <1>1, <1>3, <1>4, <1>5, <1>6, <1>7, <1>8, OutsideStep

LEMMA StutterIInv == ASSUME IInv, UNCHANGED vars PROVE IInv'
<1>1. UNCHANGED <<events, gone, aged, cases, links, entities, proc, posts, ids, nextEntity, counts>>
  BY DEF vars, rows, clock, ids
<1>2. CountsOK' /\ faults <= faults'
  BY <1>1, CountsRest
<1>3. Keeps
  BY <1>1, <1>2, IdTypes DEF Keeps, EventsStay, CasesStay, EntitiesStay, Exists
<1>4. /\ EntitiesApart' /\ entities' \in [Source -> Entity] /\ cases' \in [CaseId -> Row]
      /\ \A c \in CaseId : Exists(c)' => Exists(c)
      /\ events' \in Seq([src : Source, look : UNION {LooksOf[t] : t \in Source}])
      /\ Len(events') <= MaxEvents /\ gone' \in 0..aged' /\ aged' \in 0..Len(events')
  BY <1>1 DEF IInv, TypeOK, EntitiesApart, Exists
<1>5. Len(events) <= Len(events')
  BY <1>1, EventTypes DEF IInv
<1> QED
  BY <1>1, <1>2, <1>3, <1>4, <1>5, OutsideStep

-----------------------------------------------------------------------------

LEMMA InitIInv == Init => IInv
<1> SUFFICES ASSUME Init PROVE IInv
  OBVIOUS
<1>1. /\ events = <<>> /\ Len(events) = 0 /\ gone = 0 /\ aged = 0
      /\ events \in Seq([src : Source, look : UNION {LooksOf[s] : s \in Source}])
  BY DEF Init
<1>2. NoRow \in Row /\ NoRow.status = "absent"
  BY DEF NoRow, Row, RuleType
<1>3. NoEntity \in Entity /\ NoEntity.id = 0 /\ NoEntity.asn # "cloud"
  <2>1. 0 \in 0..MaxEntities
    BY CorrelationAssumption
  <2>2. "" \in Asn /\ "" # "cloud"
    BY DEF Asn
  <2> QED
    BY <2>1, <2>2 DEF NoEntity, Entity
<1>4. /\ \A c \in CaseId : cases[c] = NoRow /\ posts[c] = 0
      /\ cases \in [CaseId -> Row] /\ posts \in [CaseId -> Nat]
  BY <1>2 DEF Init
<1>5. /\ \A s \in Source : entities[s] = NoEntity
      /\ entities \in [Source -> Entity]
  BY <1>3 DEF Init
<1>6. \A p \in Process : proc[p] = Idle /\ Idle \in Worker
  BY IdleFacts DEF Init
<1>7. CountsOK /\ nextCase = 1 /\ nextEntity = 1 /\ links = {}
      /\ nextCase \in 1..(MaxCases + 1) /\ nextEntity \in 1..(MaxEntities + 1)
  BY CorrelationAssumption DEF Init, CountsOK
<1>8. proc \in [Process -> Worker]
  BY IdleFacts DEF Init
<1>9. TypeOK
  BY <1>1, <1>4, <1>5, <1>7, <1>8, CorrelationAssumption DEF TypeOK, CountsOK
<1>10. WorkersOK
  <2>1. ASSUME NEW p \in Process PROVE WorkerOK(p, Idle)
    BY IdleFacts DEF WorkerOK, CaseOK, EntityOK, EvidenceOK, Working, InHand
  <2> QED
    BY <1>6, <2>1 DEF WorkersOK
<1>11. CasesApart
  BY <1>6, IdleFacts DEF CasesApart
<1>12. CasesDrawn /\ PostedOnce /\ CaseEvidence
  BY <1>2, <1>4 DEF CasesDrawn, PostedOnce, CaseEvidence, Exists
<1>13. EntitiesApart
  BY <1>3, <1>5, <1>7 DEF EntitiesApart
<1>14. LinksResolve
  BY <1>7 DEF LinksResolve
<1> QED
  BY <1>9, <1>10, <1>11, <1>12, <1>13, <1>14 DEF IInv

LEMMA StepIInv == IInv /\ [Next]_vars => IInv'
<1> SUFFICES ASSUME IInv, [Next]_vars PROVE IInv'
  OBVIOUS
<1>1. CASE Environment
  BY <1>1, InsertEventIInv, PassIInv, PassTTLIInv, SetCaseStatusIInv, CrashIInv DEF Environment
<1>2. CASE \E p \in Correlator : ListEvents(p) \/ Run(p)
  BY <1>2, ListEventsIInv, RunIInv
<1>3. CASE \E p \in Ingester : BeginEnrichEvents(p) \/ EnrichEvents(p)
  BY <1>3, BeginEnrichEventsIInv, EnrichEventsIInv DEF Process
<1>4. CASE UNCHANGED vars
  BY <1>4, StutterIInv
<1> QED
  BY <1>1, <1>2, <1>3, <1>4 DEF Next

-----------------------------------------------------------------------------
(* The state of the database and of every process keeps its types. *)
THEOREM DatabaseTypes == Spec => []TypeOK
<1>1. IInv => TypeOK
  BY DEF IInv
<1> QED
  BY InitIInv, StepIInv, <1>1, PTL DEF Spec

(* For any number of processes, and however lookups and upserts of one     *)
(* address mix or fail: a case is linked to the stored entity of its own   *)
(* source and to nothing else.                                             *)
THEOREM LinksAlwaysResolve == Spec => []LinksResolve
<1>1. IInv => LinksResolve
  BY DEF IInv
<1> QED
  BY InitIInv, StepIInv, <1>1, PTL DEF Spec

(* For any number of processes and crashes: a case is posted at most once, *)
(* and after it was stored.                                                *)
THEOREM CasesPostedOnce == Spec => []PostedOnce
<1>1. IInv => PostedOnce
  BY DEF IInv
<1> QED
  BY InitIInv, StepIInv, <1>1, PTL DEF Spec

(* For any threshold and window, and however many events arrive while a    *)
(* cycle runs: a case has the events of one source, enough of them, and    *)
(* the severity they make.                                                 *)
THEOREM CasesHaveEvidence == Spec => []CaseEvidence
<1>1. IInv => CaseEvidence
  BY DEF IInv
<1> QED
  BY InitIInv, StepIInv, <1>1, PTL DEF Spec

(* For any sources and any number of processes: a cycle without store      *)
(* errors leaves no source over the threshold without a case, but a cloud  *)
(* that knocks at the gateway.                                             *)
THEOREM NoScannerSilenced == Spec => []ScannersHaveCases
<1>1. IInv => ScannersHaveCases
  <2> SUFFICES ASSUME IInv, NEW p \in Correlator, proc[p].pc = "evaluate", proc[p].todo = {},
                      faults = 0, NEW s \in Source,
                      Cardinality(Cluster(proc[p].snap, s)) >= Threshold
               PROVE  HasCase(s) \/ Excused(proc[p].snap, s)
    BY DEF ScannersHaveCases, HasCase, Excused
  <2>1. EvidenceOK(p, proc[p], faults)
    BY ProcFacts DEF Process
  <2>2. s \in Large(proc[p].snap) \ proc[p].todo
    BY DEF Large
  <2> QED
    BY <2>1, <2>2 DEF EvidenceOK
<1> QED
  BY InitIInv, StepIInv, <1>1, PTL DEF Spec

-----------------------------------------------------------------------------
(* One process alone.  Beside another, an upsert may keep the id the other *)
(* stored, and the link to its own id is refused; alone, and without store *)
(* errors, it links what it found or what it has just stored.              *)
Alone == \E p : Process = {p}

LinkedOrPrivate(c) == Private(cases[c].src) \/ \E id \in EntityId : <<c, id>> \in links

AloneOK(w) ==
    /\ w.pc \in {"enrich", "store"} => ~ Stored(w.src)
    /\ w.pc = "store" => w.ent = 0
    /\ w.pc = "link" => Private(w.src) \/ entities[w.src].id = w.ent
    /\ \A c \in w.opened : LinkedOrPrivate(c)

AloneInv ==
    faults = 0 => LinkedBeforeAlert /\ \A p \in Correlator : AloneOK(proc[p])

LEMMA LinkedStays ==
    ASSUME CasesStay, links \subseteq links', NEW c \in CaseId, Exists(c), LinkedOrPrivate(c)
    PROVE  LinkedOrPrivate(c)'
<1>1. cases'[c].src = cases[c].src
  BY DEF CasesStay
<1> QED
  BY <1>1 DEF LinkedOrPrivate, Private

(* What was posted stays linked, what is posted now is. *)
LEMMA AlertsLinked ==
    ASSUME IInv, LinkedBeforeAlert, faults = 0, CasesStay, links \subseteq links',
           \A c \in CaseId : posts'[c] # posts[c] => Exists(c) /\ LinkedOrPrivate(c)
    PROVE  LinkedBeforeAlert'
<1>1. ASSUME NEW c \in CaseId, posts'[c] > 0 PROVE LinkedOrPrivate(c)'
  <2>1. Exists(c) /\ LinkedOrPrivate(c)
    <3>1. CASE posts'[c] # posts[c]
      BY <3>1
    <3>2. CASE posts'[c] = posts[c]
      <4>1. posts[c] \in Nat /\ posts[c] <= 1 /\ (posts[c] = 1 => Exists(c))
        BY DEF IInv, TypeOK, PostedOnce
      <4>2. Exists(c)
        BY <1>1, <3>2, <4>1
      <4> QED
        BY <1>1, <3>2, <4>2 DEF LinkedBeforeAlert, LinkedOrPrivate
    <3> QED
      BY <3>1, <3>2
  <2> QED
    BY <2>1, LinkedStays
<1> QED
  BY <1>1 DEF LinkedBeforeAlert, LinkedOrPrivate

(* No correlator moves. *)
LEMMA AloneRest ==
    ASSUME IInv, AloneInv, faults <= faults', faults' \in Nat, CasesStay,
           \A p \in Correlator : proc'[p] = proc[p], UNCHANGED <<links, posts>>,
           Correlator = {} \/ \A s \in Source : entities'[s].id = entities[s].id
    PROVE  AloneInv'
<1> SUFFICES ASSUME faults' = 0
             PROVE  (LinkedBeforeAlert /\ \A p \in Correlator : AloneOK(proc[p]))'
  BY DEF AloneInv
<1>1. faults = 0
  BY DEF IInv, TypeOK
<1>2. LinkedBeforeAlert'
  BY <1>1, AlertsLinked DEF AloneInv
<1>3. ASSUME NEW p \in Correlator PROVE AloneOK(proc[p])'
  <2>1. /\ proc'[p] = proc[p] /\ AloneOK(proc[p]) /\ CaseOK(p, proc[p])
        /\ proc[p].opened \subseteq CaseId
    BY <1>1, <1>3, ProcFacts DEF AloneInv, Process, Worker
  <2>2. \A c \in proc[p].opened : LinkedOrPrivate(c)'
    BY <2>1, LinkedStays DEF AloneOK, CaseOK, HeldBy
  <2>3. \A s \in Source : entities'[s].id = entities[s].id
    BY <1>3
  <2>4. proc[p].pc \in {"enrich", "store", "link"} => proc[p].src \in Source
    BY <2>1 DEF CaseOK, Working, InHand
  <2> QED
    BY <2>1, <2>2, <2>3, <2>4 DEF AloneOK, Stored, Private
<1> QED
  BY <1>2, <1>3

(* The correlator moves on, and what it knows of the entity still holds.   *)
LEMMA AloneMoves ==
    ASSUME IInv, AloneInv, NEW p \in Correlator, Process = {p},
           faults' = faults \/ Fault, CasesStay, links \subseteq links',
           \A c \in CaseId : posts'[c] # posts[c] => c \in proc[p].opened,
           NEW w, proc'[p] = w,
           \A c \in w.opened : \/ c \in proc[p].opened
                               \/ faults' = 0 => LinkedOrPrivate(c)',
           faults' = 0 => /\ w.pc \in {"enrich", "store"} => ~ Stored(w.src)'
                          /\ w.pc = "store" => w.ent = 0
                          /\ w.pc = "link" => Private(w.src) \/ entities'[w.src].id = w.ent
    PROVE  AloneInv'
<1> SUFFICES ASSUME faults' = 0
             PROVE  (LinkedBeforeAlert /\ \A q \in Correlator : AloneOK(proc[q]))'
  BY DEF AloneInv
<1>1. faults = 0
  BY DEF IInv, TypeOK, Fault
<1>2. /\ AloneOK(proc[p]) /\ CaseOK(p, proc[p]) /\ proc[p].opened \subseteq CaseId
      /\ \A c \in proc[p].opened : Exists(c)
  BY <1>1, ProcFacts DEF AloneInv, Process, Worker, CaseOK, HeldBy
<1>3. LinkedBeforeAlert'
  BY <1>1, <1>2, AlertsLinked DEF AloneInv, AloneOK
<1>4. \A c \in w.opened : LinkedOrPrivate(c)'
  BY <1>2, LinkedStays DEF AloneOK
<1>5. \A q \in Correlator : q = p
  BY DEF Process
<1>6. AloneOK(proc[p])'
  BY <1>4 DEF AloneOK, Stored, Private
<1> QED
  BY <1>3, <1>5, <1>6

(* Most steps leave entities and links alone, and open no case.            *)
LEMMA AloneQuiet ==
    ASSUME IInv, AloneInv, NEW p \in Correlator, Process = {p},
           faults' = faults \/ Fault, CasesStay, links' = links,
           \A c \in CaseId : posts'[c] # posts[c] => c \in proc[p].opened,
           proc'[p].opened \subseteq proc[p].opened,
           proc'[p].pc \notin {"enrich", "store", "link"}
    PROVE  AloneInv'
<1>1. PICK w : w = proc'[p]
  OBVIOUS
<1>2. w.opened \subseteq proc[p].opened /\ w.pc \notin {"enrich", "store", "link"}
  BY <1>1
<1>3. proc'[p] = w
  BY <1>1
<1> QED
  BY <1>2, <1>3, AloneMoves

LEMMA AloneCycle ==
    ASSUME IInv, AloneInv, NEW p \in Correlator, Process = {p},
           \/ ListEvents(p) \/ ListCases(p) \/ ListCasesFails(p)
           \/ \E s \in Source : Suppress(p, s) \/ Evaluate(p, s)
    PROVE  AloneInv'
<1>1. /\ UNCHANGED <<cases, links, posts>> /\ (faults' = faults \/ Fault)
  BY DEF ListEvents, ListCases, ListCasesFails, Suppress, Evaluate, Looked, rows, counts
<1>2. CasesStay
  BY <1>1 DEF CasesStay, Exists
<1>3. p \in Process /\ proc \in [Process -> Worker] /\ proc[p] \in Worker
  BY ProcFacts DEF Process
<1>4. proc'[p].opened \subseteq proc[p].opened /\ proc'[p].pc \notin {"enrich", "store", "link"}
  <2>1. CASE ListEvents(p)
    <3>1. proc'[p] = [Idle EXCEPT !.pc = "listCases", !.snap = Windowed]
      BY <1>3, <2>1 DEF ListEvents
    <3> QED
      BY <3>1, IdleFacts DEF Worker
  <2>2. CASE ListCases(p) \/ ListCasesFails(p)
    <3>1. PICK R : BeginRules(p, R)
      BY <2>2 DEF ListCases, ListCasesFails
    <3>2. proc'[p] = [proc[p] EXCEPT !.pc = "evaluate", !.recent = R, !.todo = Large(proc[p].snap)]
      BY <1>3, <3>1 DEF BeginRules
    <3> QED
      BY <1>3, <3>2 DEF Worker
  <2>3. ASSUME NEW s \in Source, Suppress(p, s) \/ Evaluate(p, s)
        PROVE  proc'[p].opened \subseteq proc[p].opened /\ proc'[p].pc \notin {"enrich", "store", "link"}
    <3>1. proc[p].pc = "evaluate"
      BY <2>3 DEF Suppress, Evaluate
    <3>2. \/ Drop(p, s)
          \/ \E rule : proc' = [proc EXCEPT ![p].pc = "insertCase", ![p].src = s, ![p].rule = rule]
      BY <2>3 DEF Suppress, Evaluate
    <3> QED
      BY <1>3, <3>1, <3>2 DEF Drop, Worker
  <2> QED
    BY <2>1, <2>2, <2>3
<1> QED
  BY <1>1, <1>2, <1>4, AloneQuiet

LEMMA AloneInsertCase ==
    ASSUME IInv, AloneInv, NEW p \in Correlator, Process = {p},
           InsertCase(p) \/ InsertCaseFails(p)
    PROVE  AloneInv'
<1>1. UNCHANGED <<links, posts>> /\ (faults' = faults \/ Fault)
  BY DEF InsertCase, InsertCaseFails, rows, counts
<1>2. p \in Process /\ proc \in [Process -> Worker] /\ proc[p] \in Worker
  BY ProcFacts DEF Process
<1>3. CasesStay
  <2>1. CASE InsertCase(p)
    <3>1. PICK row : cases' = [cases EXCEPT ![nextCase] = row]
      BY <2>1 DEF InsertCase
    <3>2. cases \in [CaseId -> Row] /\ \A c \in CaseId : Exists(c) => c # nextCase
      BY IdTypes DEF IInv, TypeOK, CasesDrawn, CaseId
    <3>3. \A c \in CaseId : Exists(c) => cases'[c] = cases[c]
      BY <3>1, <3>2
    <3> QED
      BY <3>3 DEF CasesStay, Exists
  <2>2. CASE InsertCaseFails(p)
    BY <2>2 DEF InsertCaseFails, rows, CasesStay, Exists
  <2> QED
    BY <2>1, <2>2
<1>4. proc'[p].opened \subseteq proc[p].opened /\ proc'[p].pc \notin {"enrich", "store", "link"}
  <2>1. CASE InsertCase(p)
    <3>1. proc'[p] = [proc[p] EXCEPT !.pc = "findEntity", !.case = nextCase]
      BY <1>2, <2>1 DEF InsertCase
    <3> QED
      BY <1>2, <3>1 DEF Worker
  <2>2. CASE InsertCaseFails(p)
    <3>1. proc'[p] = Done(p)
      BY <1>2, <2>2 DEF InsertCaseFails
    <3>2. PICK w \in {Done(p), Close(p)} : w = Done(p)
      OBVIOUS
    <3> QED
      BY <1>2, <3>1, <3>2, DoneFacts
  <2> QED
    BY <2>1, <2>2
<1> QED
  BY <1>1, <1>3, <1>4, AloneQuiet

(* Posting takes from the opened cases; a crash forgets them.              *)
LEMMA AlonePosts ==
    ASSUME IInv, AloneInv, NEW p \in Correlator, Process = {p}, PostAlerts(p) \/ Crash(p)
    PROVE  AloneInv'
<1>1. UNCHANGED <<cases, links, faults>>
  BY DEF PostAlerts, BeginAlerts, PostBlock, PostBlockFails, EndCycle, Crash, rows, counts
<1>2. CasesStay
  BY <1>1 DEF CasesStay, Exists
<1>3. p \in Process /\ proc \in [Process -> Worker] /\ proc[p] \in Worker /\ posts \in [CaseId -> Nat]
  BY ProcFacts DEF Process, IInv, TypeOK
<1>4. \A c \in CaseId : posts'[c] # posts[c] => c \in proc[p].opened
  BY <1>3 DEF PostAlerts, BeginAlerts, PostBlock, PostBlockFails, EndCycle, Crash
<1>5. proc'[p].opened \subseteq proc[p].opened /\ proc'[p].pc \notin {"enrich", "store", "link"}
  <2>1. CASE BeginAlerts(p)
    <3>1. proc'[p] = [proc[p] EXCEPT !.pc = "post", !.snap = {}, !.recent = {}]
      BY <1>3, <2>1 DEF BeginAlerts
    <3> QED
      BY <1>3, <3>1 DEF Worker
  <2>2. ASSUME NEW c \in CaseId, PostBlock(p, c) \/ PostBlockFails(p, c)
        PROVE  proc'[p].opened \subseteq proc[p].opened /\ proc'[p].pc \notin {"enrich", "store", "link"}
    <3>1. proc'[p] = [proc[p] EXCEPT !.opened = proc[p].opened \ {c}] /\ proc[p].pc = "post"
      BY <1>3, <2>2 DEF PostBlock, PostBlockFails
    <3> QED
      BY <1>3, <3>1 DEF Worker
  <2>3. CASE EndCycle(p) \/ Crash(p)
    <3>1. proc'[p] = Idle
      BY <1>3, <2>3 DEF EndCycle, Crash
    <3> QED
      BY <3>1, IdleFacts
  <2> QED
    BY <2>1, <2>2, <2>3 DEF PostAlerts
<1> QED
  BY <1>1, <1>2, <1>4, <1>5, AloneQuiet

(* A step that takes the correlator on with its source.                    *)
LEMMA AloneOnward ==
    ASSUME IInv, AloneInv, NEW p \in Correlator, Process = {p}, proc[p].pc \in InHand,
           faults' = faults \/ Fault, UNCHANGED <<rows, posts>>,
           NEW pc \in {"enrich", "store", "link"}, NEW e \in 0..MaxEntities,
           proc'[p] = Onward(p, pc, e),
           faults = 0 /\ faults' = 0 =>
              /\ pc \in {"enrich", "store"} => entities'[proc[p].src].id = 0
              /\ pc = "store" => e = 0
              /\ pc = "link" => Private(proc[p].src) \/ entities'[proc[p].src].id = e
    PROVE  AloneInv'
<1>1. p \in Process /\ UNCHANGED <<cases, links, posts>>
  BY DEF Process, rows
<1>2. CasesStay
  BY <1>1 DEF CasesStay, Exists
<1>3. PICK w \in Worker : w = Onward(p, pc, e)
  BY <1>1, OnwardFacts
<1>4. w.pc = pc /\ w.ent = e /\ w.src = proc[p].src /\ w.opened = proc[p].opened
  BY <1>1, <1>3, OnwardFacts
<1>5. faults' = 0 => faults = 0
  BY DEF Fault, IInv, TypeOK
<1>6. faults' = 0 => /\ w.pc \in {"enrich", "store"} => ~ Stored(w.src)'
                     /\ w.pc = "store" => w.ent = 0
                     /\ w.pc = "link" => Private(w.src) \/ entities'[w.src].id = w.ent
  BY <1>4, <1>5 DEF Stored
<1>7. proc'[p] = w
  BY <1>3
<1> QED
  BY <1>1, <1>2, <1>4, <1>6, <1>7, AloneMoves

LEMMA AloneFind ==
    ASSUME IInv, AloneInv, NEW p \in Correlator, Process = {p}, FindEntity(p) \/ FindNoEntity(p)
    PROVE  AloneInv'
<1>1. p \in Process /\ proc \in [Process -> Worker] /\ proc[p] \in Worker /\ CaseOK(p, proc[p])
  BY ProcFacts DEF Process
<1>2. /\ proc[p].pc = "findEntity" /\ proc[p].pc \in InHand /\ UNCHANGED <<rows, posts, entities>>
      /\ (faults' = faults \/ Fault)
  BY DEF FindEntity, FindNoEntity, InHand, counts
<1>3. proc[p].src \in Source
  BY <1>1, <1>2 DEF CaseOK, Working
<1>4. CASE FindEntity(p)
  <2>1. PICK e \in 0..MaxEntities : e = entities[proc[p].src].id
    BY <1>3, EntityFacts
  <2>2. proc'[p] = Onward(p, "link", e)
    BY <1>1, <1>4, <2>1 DEF FindEntity, Onward
  <2> QED
    BY <1>2, <2>1, <2>2, AloneOnward
<1>5. CASE FindNoEntity(p) /\ Private(proc[p].src)
  <2>1. PICK e \in 0..MaxEntities : e = nextEntity
    BY <1>5, CorrelationAssumption DEF FindNoEntity, Enrich, EntityId
  <2>2. proc'[p] = Onward(p, "link", e)
    BY <1>1, <1>5, <2>1 DEF FindNoEntity, Enrich, Onward
  <2> QED
    BY <1>2, <1>5, <2>2, AloneOnward
<1>6. CASE FindNoEntity(p) /\ ~ Private(proc[p].src)
  <2>1. PICK e \in 0..MaxEntities : e = proc[p].ent
    BY <1>1 DEF Worker
  <2>2. proc'[p] = Onward(p, "enrich", e)
    <3>1. [proc[p] EXCEPT !.pc = "enrich"] = Onward(p, "enrich", proc[p].ent)
      BY <1>1 DEF Onward, Worker
    <3> QED
      BY <1>1, <1>6, <2>1, <3>1 DEF FindNoEntity, Enrich
  <2>3. faults = 0 /\ faults' = 0 => entities'[proc[p].src].id = 0
    BY <1>2, <1>6 DEF FindNoEntity, Stored, Fault
  <2> QED
    BY <1>2, <2>2, <2>3, AloneOnward
<1> QED
  BY <1>4, <1>5, <1>6

(* The correlator enriches a source nobody has stored, under a new id.     *)
LEMMA AloneMiss ==
    ASSUME IInv, AloneInv, NEW p \in Correlator, Process = {p}, EnrichCached(p) \/ EnrichMiss(p)
    PROVE  AloneInv'
<1> SUFFICES ASSUME faults' = 0 PROVE AloneInv'
  BY DEF AloneInv
<1>1. /\ p \in Process /\ proc \in [Process -> Worker] /\ proc[p] \in Worker
      /\ CaseOK(p, proc[p]) /\ faults \in Nat
  BY ProcFacts DEF Process
<1>2. /\ proc[p].pc = "enrich" /\ proc[p].pc \in InHand /\ UNCHANGED <<rows, posts, entities>>
      /\ faults' = faults
  BY <1>1 DEF EnrichCached, EnrichMiss, InHand, counts, Fault
<1>3. entities[proc[p].src].id = 0
  BY <1>2 DEF AloneInv, AloneOK, Stored
<1>4. EnrichMiss(p)
  BY <1>3 DEF EnrichCached
<1>5. 0 \in 0..MaxEntities
  BY CorrelationAssumption
<1>6. proc'[p] = Onward(p, "store", 0)
  BY <1>1, <1>3, <1>4 DEF EnrichMiss, Onward
<1> QED
  BY <1>2, <1>3, <1>5, <1>6, AloneOnward

(* It stores the entity, or a stub if the lookup failed, and links that.   *)
LEMMA AloneStored ==
    ASSUME IInv, AloneInv, NEW p \in Correlator, Process = {p},
           UpsertEntity(p) \/ UpsertEntityFails(p) \/ LookupFails(p)
    PROVE  AloneInv'
<1> SUFFICES ASSUME faults' = 0 PROVE AloneInv'
  BY DEF AloneInv
<1>1. /\ p \in Process /\ proc \in [Process -> Worker] /\ proc[p] \in Worker
      /\ CaseOK(p, proc[p]) /\ faults \in Nat /\ entities \in [Source -> Entity]
  BY ProcFacts DEF Process, IInv, TypeOK
<1>2. /\ proc[p].pc = "store" /\ proc[p].pc \in InHand /\ UNCHANGED <<rows, posts>>
      /\ ~ Fault /\ (UpsertEntity(p) \/ LookupFails(p))
  <2>1. ~ Fault
    BY <1>1 DEF Fault
  <2>2. ~ UpsertEntityFails(p)
    BY <2>1 DEF UpsertEntityFails
  <2>3. proc[p].pc = "store" /\ UNCHANGED <<rows, posts>>
    BY <2>2 DEF UpsertEntity, LookupFails
  <2> QED
    BY <2>1, <2>2, <2>3 DEF InHand
<1>3. entities[proc[p].src].id = 0 /\ proc[p].ent = 0
  <2>1. faults = 0
    BY <1>1, <1>2 DEF UpsertEntity, LookupFails, counts
  <2> QED
    BY <1>2, <2>1 DEF AloneInv, AloneOK, Stored
<1>4. PICK id \in EntityId, asn \in Asn :
        /\ entities' = Upserted(proc[p].src, id, asn) /\ Enriched(p, id)
        /\ UNCHANGED faults
  <2>1. CASE UpsertEntity(p)
    BY <2>1 DEF UpsertEntity, Asn, counts
  <2>2. CASE LookupFails(p)
    <3>1. PICK asn \in Asn : asn = ""
      BY DEF Asn
    <3> QED
      BY <1>2, <2>2, <3>1 DEF LookupFails
  <2> QED
    BY <1>2, <2>1, <2>2
<1>5. proc[p].src \in Source /\ id # 0 /\ id \in 0..MaxEntities
  BY <1>1, <1>2, CorrelationAssumption DEF CaseOK, Working, EntityId
<1>6. entities'[proc[p].src].id = id
  <2>1. entities'[proc[p].src].id = IF entities[proc[p].src].id # 0 THEN entities[proc[p].src].id ELSE id
    BY <1>1, <1>4, <1>5 DEF Upserted
  <2> QED
    BY <1>3, <2>1
<1>7. proc'[p] = Onward(p, "link", id)
  BY <1>1, <1>4 DEF Enriched, Onward
<1> QED
  BY <1>2, <1>4, <1>5, <1>6, <1>7, AloneOnward

(* The link is made, and the case joins those to be posted.                *)
LEMMA AloneLinks ==
    ASSUME IInv, AloneInv, NEW p \in Correlator, Process = {p},
           LinkEntityToCase(p) \/ LinkEntityToCaseFails(p)
    PROVE  AloneInv'
<1> SUFFICES ASSUME faults' = 0 PROVE AloneInv'
  BY DEF AloneInv
<1>1. /\ p \in Process /\ proc \in [Process -> Worker] /\ proc[p] \in Worker
      /\ CaseOK(p, proc[p]) /\ EntityOK(proc[p]) /\ faults \in Nat
  BY ProcFacts DEF Process
<1>2. LinkEntityToCase(p)
  BY <1>1 DEF LinkEntityToCaseFails, Fault
<1>3. /\ proc[p].pc = "link" /\ proc'[p] = Close(p) /\ UNCHANGED <<cases, posts>> /\ faults' = faults
      /\ links' = links \cup {l \in {<<proc[p].case, proc[p].ent>>} : Linkable(l[1], l[2])}
  BY <1>1, <1>2 DEF LinkEntityToCase, counts
<1>4. PICK c \in CaseId, e \in EntityId : c = proc[p].case /\ e = proc[p].ent
  <2>1. proc[p].case \in CaseId
    BY <1>1, <1>3 DEF CaseOK, InHand
  <2>2. proc[p].ent \in EntityId
    <3>1. proc[p].ent \in 0..MaxEntities /\ proc[p].ent \in 1..(nextEntity - 1)
      BY <1>1, <1>3 DEF Worker, EntityOK
    <3> QED
      BY <3>1, IdTypes, CorrelationAssumption DEF EntityId
  <2> QED
    BY <2>1, <2>2
<1>5. Exists(c) /\ cases[c].src = proc[p].src /\ proc[p].src \in Source
  BY <1>1, <1>3, <1>4 DEF CaseOK, HeldBy, InHand, Working
<1>6. LinkedOrPrivate(c)'
  <2>1. Private(proc[p].src) \/ entities[proc[p].src].id = e
    BY <1>3, <1>4 DEF AloneInv, AloneOK
  <2>2. CASE Private(proc[p].src)
    BY <1>3, <1>5, <2>2 DEF LinkedOrPrivate, Private
  <2>3. CASE entities[proc[p].src].id = e
    <3>1. Linkable(c, e)
      BY <1>5, <2>3 DEF Linkable
    <3>2. <<c, e>> \in links'
      BY <1>3, <1>4, <3>1
    <3> QED
      BY <3>2 DEF LinkedOrPrivate
  <2> QED
    BY <2>1, <2>2, <2>3
<1>7. PICK w \in {Done(p), Close(p)} : w = Close(p)
  OBVIOUS
<1>8. w.pc = "evaluate" /\ w.opened = proc[p].opened \cup {c}
  BY <1>1, <1>4, <1>7, DoneFacts
<1>9. CasesStay /\ links \subseteq links' /\ proc'[p] = w
  BY <1>3, <1>7 DEF CasesStay, Exists
<1>10. \A d \in w.opened : d \in proc[p].opened \/ (faults' = 0 => LinkedOrPrivate(d)')
  BY <1>6, <1>8
<1> QED
  BY <1>3, <1>8, <1>9, <1>10, AloneMoves

(* Nothing outside moves the correlator, changes an id or posts a case.    *)
LEMMA AloneOutside ==
    ASSUME IInv, AloneInv,
           \/ \E s \in Source : \E l \in LooksOf[s] : InsertEvent(s, l)
           \/ PassDedupWindow \/ PassWindow
           \/ \E s \in Source : PassTTL(s)
           \/ \E c \in CaseId, status \in {"open", "closed"} : SetCaseStatus(c, status)
           \/ UNCHANGED vars
    PROVE  AloneInv'
<1>1. UNCHANGED <<links, proc, posts, faults>>
  BY DEF InsertEvent, PassDedupWindow, PassWindow, PassTTL, SetCaseStatus, vars, rows, counts
<1>2. CasesStay
  <2>1. CASE UNCHANGED cases
    BY <2>1 DEF CasesStay, Exists
  <2>2. ASSUME NEW c \in CaseId, NEW status \in {"open", "closed"}, SetCaseStatus(c, status)
        PROVE  CasesStay
    <3>1. cases \in [CaseId -> Row] /\ cases' = [cases EXCEPT ![c].status = status]
      BY <2>2 DEF SetCaseStatus, IInv, TypeOK
    <3>2. \A d \in CaseId : /\ cases'[d].src = cases[d].src /\ cases'[d].sev = cases[d].sev
                            /\ cases'[d].events = cases[d].events
                            /\ cases'[d].status \in {cases[d].status, status}
      BY <3>1 DEF Row
    <3> QED
      BY <3>2 DEF CasesStay, Exists
  <2> QED
    BY <2>1, <2>2 DEF InsertEvent, PassDedupWindow, PassWindow, PassTTL, vars, rows
<1>3. \A s \in Source : entities'[s].id = entities[s].id
  <2>1. CASE UNCHANGED entities
    BY <2>1
  <2>2. ASSUME NEW s \in Source, PassTTL(s) PROVE \A t \in Source : entities'[t].id = entities[t].id
    BY <2>2 DEF PassTTL, IInv, TypeOK, Entity
  <2> QED
    BY <2>1, <2>2 DEF InsertEvent, PassDedupWindow, PassWindow, SetCaseStatus, vars
<1>4. faults <= faults' /\ faults' \in Nat
  BY <1>1, CorrelationAssumption DEF IInv, TypeOK
<1> QED
  BY <1>1, <1>2, <1>3, <1>4, AloneRest

(* An ingester that is alone has no correlator beside it. *)
LEMMA AloneIngests ==
    ASSUME IInv, AloneInv, NEW p \in Ingester, Process = {p},
           BeginEnrichEvents(p) \/ EnrichEvents(p) \/ Crash(p)
    PROVE  AloneInv'
<1>1. Correlator = {}
  BY CorrelationAssumption DEF Process
<1>2. UNCHANGED <<cases, links, posts>> /\ (faults' = faults \/ Fault)
  BY DEF BeginEnrichEvents, EnrichEvents, EnrichEvent, EndEnrichEvents, EnrichIP, EnrichCached,
         EnrichMiss, UpsertEntity, UpsertEntityFails, LookupFails, Crash, rows, counts
<1>3. CasesStay
  BY <1>2 DEF CasesStay, Exists
<1>4. faults <= faults' /\ faults' \in Nat
  BY <1>2, CorrelationAssumption DEF Fault, IInv, TypeOK
<1> QED
  BY <1>1, <1>2, <1>3, <1>4, AloneRest

LEMMA InitAlone == Init => AloneInv
<1> SUFFICES ASSUME Init PROVE AloneInv
  OBVIOUS
<1>1. \A c \in CaseId : ~ (posts[c] > 0)
  BY DEF Init
<1>2. \A p \in Correlator : proc[p] = Idle
  BY DEF Init, Process
<1> QED
  BY <1>1, <1>2, IdleFacts DEF AloneInv, LinkedBeforeAlert, AloneOK

LEMMA StepAlone ==
    ASSUME Alone
    PROVE  IInv /\ AloneInv /\ [Next]_vars => AloneInv'
<1> SUFFICES ASSUME IInv, AloneInv, [Next]_vars PROVE AloneInv'
  OBVIOUS
<1>1. PICK me : Process = {me}
  BY DEF Alone
<1>2. \A p \in Correlator : p = me /\ p \in Process
  BY <1>1 DEF Process
<1>3. \A p \in Ingester : p = me /\ p \in Process
  BY <1>1 DEF Process
<1>4. CASE Environment /\ ~ \E p \in Process : Crash(p)
  BY <1>4, AloneOutside DEF Environment
<1>5. ASSUME NEW p \in Process, Crash(p) PROVE AloneInv'
  <2>1. CASE p \in Correlator
    BY <1>2, <1>1, <1>5, <2>1, AlonePosts
  <2>2. CASE p \in Ingester
    BY <1>3, <1>1, <1>5, <2>2, AloneIngests
  <2> QED
    BY <2>1, <2>2 DEF Process
<1>6. ASSUME NEW p \in Correlator, ListEvents(p) \/ Run(p) PROVE AloneInv'
  <2>1. Process = {p}
    BY <1>1, <1>2
  <2>2. CASE OpenCase(p)
    BY <2>1, <2>2, AloneInsertCase, AloneFind, AloneMiss, AloneStored, AloneLinks
       DEF OpenCase, EnrichIP
  <2> QED
    BY <1>6, <2>1, <2>2, AloneCycle, AlonePosts DEF Run
<1>7. ASSUME NEW p \in Ingester, BeginEnrichEvents(p) \/ EnrichEvents(p) PROVE AloneInv'
  <2>1. Process = {p}
    BY <1>1, <1>3
  <2> QED
    BY <1>7, <2>1, AloneIngests
<1>8. CASE UNCHANGED vars
  BY <1>8, AloneOutside
<1> QED
  BY <1>4, <1>5, <1>6, <1>7, <1>8 DEF Next

(* correlator.go:48-52, for a process that has the database to itself:     *)
(* whatever lookups fail and whenever it is restarted, a case whose source *)
(* can be stored is linked before it is posted, if no store call fails.    *)
THEOREM LinkedWhenAlone == ASSUME Alone PROVE Spec => []LinkedBeforeAlert
<1>1. AloneInv => LinkedBeforeAlert
  BY DEF AloneInv, LinkedBeforeAlert
<1> QED
  BY InitIInv, InitAlone, StepIInv, StepAlone, <1>1, PTL DEF Spec
=============================================================================
