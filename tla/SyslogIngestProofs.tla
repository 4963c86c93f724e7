------------------------- MODULE SyslogIngestProofs -------------------------
(***************************************************************************)
(* Proofs about SyslogIngest, for every set of keys and every value of the *)
(* thresholds and bounds.                                                  *)
(***************************************************************************)
EXTENDS SyslogIngest, TLAPS

USE DEF tables, memory, alerts, counts

(* The constant values of the state have its types. *)
LEMMA ConstantTypes ==
    /\ NoRow \in Row
    /\ NoObject \in Object
    /\ Waiting \in Reader
    /\ Resting \in Flusher
<1>1. NoRow \in Row
    BY DEF NoRow, Row, Severity
<1>2. NoObject \in Object
    BY DEF NoObject, Object
<1>3. Waiting \in Reader
    BY <1>1 DEF Waiting, Reader
<1>4. Resting \in Flusher
    BY BoundAssumption DEF Resting, Flusher, Severity
<1>. QED BY <1>1, <1>2, <1>3, <1>4

(* What the severities range over; only ports of highPorts are "high". *)
LEMMA SeverityTypes ==
    /\ \A k : /\ ClassifySeverity(k) \in {"low", "medium", "high"}
              /\ ClassifySeverity(k) = "high" <=> k \in HighKey
    /\ \A S : /\ BurstSeverity(S) \in {"info", "low", "medium", "high"}
              /\ BurstSeverity(S) = "high" => \E c \in S : objects[c].key \in HighKey
    /\ {"info", "low", "medium", "high"} \subseteq Severity
BY DEF ClassifySeverity, BurstSeverity, HighestSeverity, Severity

LEMMA RowTypes ==
    ASSUME TypeOK
    PROVE  /\ \A k \in Key, e \in EventId : StubRow(k, e) \in Row
           /\ \A S \in SUBSET CaseId : BurstRow(S) \in Row
<1>1. ASSUME NEW k \in Key, NEW e \in EventId PROVE StubRow(k, e) \in Row
    BY SeverityTypes DEF StubRow, Row
<1>2. ASSUME NEW S \in SUBSET CaseId PROVE BurstRow(S) \in Row
    <2>1. UNION {objects[c].events : c \in S} \in SUBSET EventId
        BY DEF TypeOK, Object
    <2>. QED BY <2>1, SeverityTypes DEF BurstRow, Row
<1>. QED BY <1>1, <1>2

LEMMA SpawnTypes ==
    ASSUME TypeOK, NEW S, NEW how \in {"queued", "direct"}, Spawn(S, how)
    PROVE  alert' \in [CaseId -> Phase] /\ spawned' \in [CaseId -> Nat]
BY DEF TypeOK, Spawn, Phase

(* TypeOK is inductive once the line in hand is known to have its key, and *)
(* that key an entry in caseIndex from the lookup on.                      *)
InHandKey ==
    /\ ing.pc # "read" => ing.key \in Key
    /\ ing.pc \notin {"read", "insertEvent"} => index[ing.key] # 0 /\ ing.event \in EventId

TypeInv == TypeOK /\ InHandKey

LEMMA TypeInit == Init => TypeInv
<1> SUFFICES ASSUME Init PROVE TypeInv
    OBVIOUS
<1>1. /\ events \in Seq([line : Nat, key : Key])
      /\ cases \in [CaseId -> Row]
      /\ objects \in [CaseId -> Object]
      /\ ing \in Reader /\ flush \in Flusher
    BY ConstantTypes DEF Init
<1>2. /\ index \in [Key -> 0..MaxCases]
      /\ buffer \in SUBSET CaseId
      /\ alert \in [CaseId -> Phase] /\ spawned \in [CaseId -> Nat]
      /\ lines \in 0..MaxLines /\ nextCase \in 1..(MaxCases + 1)
      /\ faults \in 0..MaxFaults /\ crashes \in 0..MaxCrashes /\ commands \in 0..MaxCommands
    BY BoundAssumption DEF Init, Phase
<1>3. InHandKey
    BY DEF Init, InHandKey, Waiting
<1>. QED BY <1>1, <1>2, <1>3 DEF TypeInv, TypeOK

(* The case the line in hand is filed under. *)
LEMMA InHandCase ==
    ASSUME TypeInv, ing.pc \notin {"read", "insertEvent"}
    PROVE  ing.key \in Key /\ index[ing.key] \in CaseId /\ ing.event \in EventId
BY BoundAssumption DEF TypeInv, TypeOK, InHandKey, CaseId

LEMMA FaultType == ASSUME TypeOK, Fault PROVE faults' \in 0..MaxFaults
BY BoundAssumption DEF TypeOK, Fault

LEMMA StoreEventType ==
    ASSUME TypeInv, ing.pc = "insertEvent", StoreEvent
    PROVE  /\ events' \in Seq([line : Nat, key : Key])
           /\ Len(events) + 1 \in EventId
BY BoundAssumption DEF TypeInv, TypeOK, InHandKey, StoreEvent, EventId

LEMMA EvictType ==
    ASSUME TypeOK, NEW k
    PROVE  [index EXCEPT ![k] = 0] \in [Key -> 0..MaxCases]
<1>1. 0 \in 0..MaxCases
    BY BoundAssumption
<1>2. index \in [Key -> 0..MaxCases]
    BY DEF TypeOK
<1>. QED BY <1>1, <1>2

LEMMA IngestType == TypeInv /\ Ingest => TypeInv'
<1> SUFFICES ASSUME TypeInv, Ingest PROVE TypeInv'
    OBVIOUS
<1> USE DEF TypeInv
<1>1. CASE InsertEventNewKey
    <2>1. ing.key \in Key
        BY <1>1 DEF InsertEventNewKey, InHandKey
    <2>2. index' \in [Key -> 0..MaxCases] /\ index'[ing.key] # 0
        <3>1. nextCase \in 0..MaxCases /\ nextCase # 0
            BY <1>1, BoundAssumption DEF InsertEventNewKey, CaseId
        <3>2. index \in [Key -> 0..MaxCases]
            BY DEF TypeOK
        <3>3. index' = [index EXCEPT ![ing.key] = nextCase]
            BY <1>1 DEF InsertEventNewKey
        <3>. QED BY <2>1, <3>1, <3>2, <3>3
    <2>3. ing' \in Reader
        BY <1>1, StoreEventType DEF InsertEventNewKey, TypeOK, Reader, EventId
    <2>4. nextCase' \in 1..(MaxCases + 1)
        BY <1>1, BoundAssumption DEF InsertEventNewKey, TypeOK, CaseId
    <2>5. InHandKey'
        BY <1>1, <2>1, <2>2, StoreEventType DEF InsertEventNewKey, InHandKey, TypeOK, Reader
    <2>. QED BY <1>1, <2>2, <2>3, <2>4, <2>5, StoreEventType DEF InsertEventNewKey, TypeOK
<1>2. CASE InsertEventKnownKey
    <2>1. ing' \in Reader
        BY <1>2, StoreEventType DEF InsertEventKnownKey, TypeOK, Reader, EventId
    <2>2. InHandKey'
        BY <1>2, StoreEventType DEF InsertEventKnownKey, InHandKey, TypeOK, Reader
    <2>. QED BY <1>2, <2>1, <2>2, StoreEventType DEF InsertEventKnownKey, TypeOK
<1>3. CASE InsertEventFails
    BY <1>3, FaultType, ConstantTypes DEF InsertEventFails, TypeOK, InHandKey, Waiting
<1>4. CASE InsertCase
    <2>1. cases' \in [CaseId -> Row]
        BY <1>4, InHandCase, RowTypes DEF InsertCase, TypeOK
    <2>2. [key |-> ing.key, events |-> {ing.event}] \in Object
        BY <1>4, InHandCase DEF InsertCase, Object
    <2>3. objects' \in [CaseId -> Object]
        BY <1>4, <2>2 DEF InsertCase, TypeOK
    <2>4. ing' \in Reader /\ InHandKey'
        BY <1>4, InHandCase DEF InsertCase, TypeOK, Reader, InHandKey
    <2>. QED BY <1>4, <2>1, <2>3, <2>4 DEF InsertCase, TypeOK
<1>5. CASE InsertCaseFails
    BY <1>5, FaultType, ConstantTypes DEF InsertCaseFails, TypeOK, InHandKey, Waiting
<1>6. CASE AnnounceHigh
    BY <1>6, SpawnTypes, ConstantTypes DEF AnnounceHigh, TypeOK, InHandKey, Waiting
<1>7. CASE AnnounceBuffered
    <2>1. buffer' \in SUBSET CaseId
        BY <1>7, InHandCase DEF AnnounceBuffered, TypeOK
    <2>. QED BY <1>7, <2>1, ConstantTypes DEF AnnounceBuffered, TypeOK, InHandKey, Waiting
<1>8. CASE GetCase
    <2>1. cases[index[ing.key]] \in Row
        BY <1>8, InHandCase DEF GetCase, TypeOK
    <2>2. ing' \in Reader /\ InHandKey'
        BY <1>8, <2>1, InHandCase DEF GetCase, TypeOK, Reader, InHandKey
    <2>. QED BY <1>8, <2>2 DEF GetCase, TypeOK
<1>9. ASSUME ing.pc = "getCase", Reingest, faults' \in 0..MaxFaults PROVE TypeInv'
    <2>1. index' \in [Key -> 0..MaxCases]
        BY <1>9, EvictType DEF Reingest
    <2>2. ing' = [Waiting EXCEPT !.pc = "insertEvent", !.key = ing.key] /\ ing.key \in Key
        BY <1>9, InHandCase DEF Reingest
    <2>3. ing' \in Reader
        BY <2>2, ConstantTypes DEF Reader
    <2>4. InHandKey'
        BY <2>2 DEF InHandKey, Waiting
    <2>. QED BY <1>9, <2>1, <2>3, <2>4 DEF Reingest, TypeOK
<1>10. CASE GetCaseMisses
    BY <1>9, <1>10 DEF GetCaseMisses, TypeOK
<1>11. CASE GetCaseFails
    BY <1>9, <1>11, FaultType DEF GetCaseFails
<1>12. CASE UpdateCase
    <2>1. Grown \in SUBSET EventId
        BY <1>12, InHandCase DEF UpdateCase, Grown, TypeOK, Reader, Row
    <2>2. [ing.copy EXCEPT !.events = Grown, !.status = IF Capped THEN "closed" ELSE @] \in Row
        BY <2>1 DEF TypeOK, Reader, Row
    <2>3. cases' \in [CaseId -> Row]
        <3>1. cases' = cases \/ cases' = [cases EXCEPT ![index[ing.key]] =
                  [ing.copy EXCEPT !.events = Grown, !.status = IF Capped THEN "closed" ELSE @]]
            BY <1>12 DEF UpdateCase
        <3>. QED BY <3>1, <2>2 DEF TypeOK
    <2>4. index' \in [Key -> 0..MaxCases]
        <3>1. index' = index \/ index' = [index EXCEPT ![ing.key] = 0]
            BY <1>12 DEF UpdateCase
        <3>. QED BY <3>1, EvictType DEF TypeOK
    <2>. QED BY <1>12, <2>3, <2>4, ConstantTypes DEF UpdateCase, TypeOK, InHandKey, Waiting
<1>13. CASE UpdateCaseFails
    BY <1>13, FaultType, ConstantTypes DEF UpdateCaseFails, TypeOK, InHandKey, Waiting
<1>. QED
    BY <1>1, <1>2, <1>3, <1>4, <1>5, <1>6, <1>7, <1>8, <1>10, <1>11, <1>12, <1>13 DEF Ingest
LEMMA FlushType == TypeInv /\ FlushBurst => TypeInv'
<1> SUFFICES ASSUME TypeInv, FlushBurst PROVE TypeInv'
    OBVIOUS
<1> USE DEF TypeInv
<1>0. UNCHANGED <<index, ing>>
    BY DEF FlushBurst, FlushIndividually, DrainForMerge, MergeInsert, MergeInsertFails,
           DeleteStub, DeleteStubFails, MergeSuppressed, MergeAlerted
<1>a. InHandKey'
    BY <1>0 DEF InHandKey
<1>b. flush.batch \in SUBSET CaseId
    BY DEF TypeOK, Flusher
<1>c. ASSUME NEW b \in SUBSET CaseId PROVE [flush EXCEPT !.batch = b] \in Flusher
    BY DEF TypeOK, Flusher
<1>1. CASE FlushIndividually
    BY <1>1, <1>a, SpawnTypes DEF FlushIndividually, TypeOK
<1>2. CASE DrainForMerge
    <2>1. flush' \in Flusher
        <3>1. buffer \in SUBSET CaseId
            BY DEF TypeOK
        <3>. QED BY <1>2, <3>1, ConstantTypes DEF DrainForMerge, Flusher
    <2>. QED BY <1>2, <2>1, <1>a DEF DrainForMerge, TypeOK
<1>3. CASE MergeInsert
    <2>1. BurstRow(flush.batch) \in Row
        BY <1>b, RowTypes
    <2>2. cases' \in [CaseId -> Row]
        BY <1>3, <2>1 DEF MergeInsert, TypeOK
    <2>3. [key |-> None, events |-> BurstRow(flush.batch).events] \in Object
        BY <2>1 DEF Row, Object
    <2>4. objects' \in [CaseId -> Object]
        BY <1>3, <2>3 DEF MergeInsert, TypeOK
    <2>5. flush' \in Flusher
        <3>1. nextCase \in 0..MaxCases
            BY <1>3, BoundAssumption DEF MergeInsert, CaseId
        <3>2. BurstSeverity(flush.batch) \in Severity
            BY SeverityTypes
        <3>3. flush \in Flusher
            BY DEF TypeOK
        <3>4. flush' = [flush EXCEPT !.pc = "delete", !.burst = nextCase, !.sev = BurstSeverity(flush.batch)]
            BY <1>3 DEF MergeInsert
        <3>. QED BY <3>1, <3>2, <3>3, <3>4 DEF Flusher
    <2>6. nextCase' \in 1..(MaxCases + 1)
        BY <1>3, BoundAssumption DEF MergeInsert, CaseId
    <2>. QED BY <1>3, <1>a, <2>2, <2>4, <2>5, <2>6 DEF MergeInsert, TypeOK
<1>4. CASE MergeInsertFails
    BY <1>4, <1>a, SpawnTypes, FaultType, ConstantTypes DEF MergeInsertFails, TypeOK
<1>5. ASSUME NEW c \in CaseId, DeleteStub(c) PROVE TypeInv'
    <2>1. cases' \in [CaseId -> Row]
        BY <1>5, ConstantTypes DEF DeleteStub, TypeOK
    <2>2. flush' \in Flusher
        BY <1>5, <1>b, <1>c DEF DeleteStub
    <2>. QED BY <1>5, <1>a, <2>1, <2>2 DEF DeleteStub, TypeOK
<1>6. ASSUME NEW c \in CaseId, DeleteStubFails(c) PROVE TypeInv'
    <2>1. flush' \in Flusher
        BY <1>6, <1>b, <1>c DEF DeleteStubFails
    <2>. QED BY <1>6, <1>a, <2>1, FaultType DEF DeleteStubFails, TypeOK
<1>7. CASE MergeSuppressed
    BY <1>7, <1>a, ConstantTypes DEF MergeSuppressed, TypeOK
<1>8. CASE MergeAlerted
    BY <1>8, <1>a, SpawnTypes, ConstantTypes DEF MergeAlerted, TypeOK
<1>. QED BY <1>1, <1>2, <1>3, <1>4, <1>5, <1>6, <1>7, <1>8 DEF FlushBurst

LEMMA ReceiveType == ASSUME TypeInv, NEW k \in Key, Receive(k) PROVE TypeInv'
<1> USE DEF TypeInv
<1>1. ing' \in Reader
    BY ConstantTypes DEF Receive, Reader
<1>2. InHandKey'
    BY DEF Receive, InHandKey, Waiting
<1>3. lines' \in 0..MaxLines
    BY BoundAssumption DEF Receive, TypeOK
<1>. QED BY <1>1, <1>2, <1>3 DEF Receive, TypeOK

LEMMA AlertType ==
    ASSUME TypeInv, NEW c \in CaseId, AcquireSem(c) \/ PostCaseAlert(c)
    PROVE  TypeInv'
<1>1. alert' \in [CaseId -> Phase]
    BY DEF TypeInv, TypeOK, AcquireSem, PostCaseAlert, Phase
<1>2. UNCHANGED <<tables, memory, ing, flush, spawned, counts>>
    BY DEF AcquireSem, PostCaseAlert
<1>. QED BY <1>1, <1>2 DEF TypeInv, TypeOK, InHandKey

LEMMA CommandType ==
    ASSUME TypeInv, NEW c \in CaseId, NEW s \in {"open", "closed"}, SetCaseStatus(c, s)
    PROVE  TypeInv'
<1> USE DEF TypeInv
<1>1. cases' \in [CaseId -> Row]
    <2>1. [cases[c] EXCEPT !.status = s] \in Row
        BY DEF TypeOK, Row
    <2>2. cases' = [cases EXCEPT ![c] = [cases[c] EXCEPT !.status = s]]
        BY DEF SetCaseStatus, TypeOK
    <2>. QED BY <2>1, <2>2 DEF TypeOK
<1>2. commands' \in 0..MaxCommands
    BY BoundAssumption DEF SetCaseStatus, TypeOK
<1>. QED BY <1>1, <1>2 DEF SetCaseStatus, TypeOK, InHandKey

LEMMA RestartType == TypeInv /\ Restart => TypeInv'
<1> SUFFICES ASSUME TypeInv, Restart PROVE TypeInv'
    OBVIOUS
<1> USE DEF TypeInv
<1>1. objects' \in [CaseId -> Object] /\ ing' \in Reader /\ flush' \in Flusher
    BY ConstantTypes DEF Restart
<1>2. index' \in [Key -> 0..MaxCases]
    BY BoundAssumption DEF Restart
<1>3. alert' \in [CaseId -> Phase]
    BY DEF Restart, TypeOK, Phase
<1>4. crashes' \in 0..MaxCrashes
    BY BoundAssumption DEF Restart, TypeOK
<1>5. buffer' \in SUBSET CaseId /\ InHandKey'
    BY DEF Restart, InHandKey, Waiting
<1>. QED BY <1>1, <1>2, <1>3, <1>4, <1>5 DEF Restart, TypeOK

LEMMA TypeStep == TypeInv /\ [Next]_vars => TypeInv'
<1> SUFFICES ASSUME TypeInv, [Next]_vars PROVE TypeInv'
    OBVIOUS
<1>1. CASE UNCHANGED vars
    BY <1>1 DEF vars, TypeInv, TypeOK, InHandKey
<1>2. ASSUME NEW k \in Key, Receive(k) PROVE TypeInv'
    BY <1>2, ReceiveType
<1>3. CASE Ingest
    BY <1>3, IngestType
<1>4. CASE FlushBurst
    BY <1>4, FlushType
<1>5. ASSUME NEW c \in CaseId, AcquireSem(c) \/ PostCaseAlert(c) PROVE TypeInv'
    BY <1>5, AlertType
<1>6. ASSUME NEW c \in CaseId, NEW s \in {"open", "closed"}, SetCaseStatus(c, s) PROVE TypeInv'
    BY <1>6, CommandType
<1>7. CASE Restart
    BY <1>7, RestartType
<1>. QED BY <1>1, <1>2, <1>3, <1>4, <1>5, <1>6, <1>7 DEF Next

(* Every state the ingest reaches has the types TypeOK gives, for any set  *)
(* of keys and any bounds: in particular a line that is past the lookup    *)
(* always has a case id in caseIndex, the id that ingest passes to GetCase,*)
(* InsertCase and UpdateCase.                                              *)
THEOREM TypeCorrect == Spec => []TypeOK
<1>1. TypeInv => TypeOK
    BY DEF TypeInv
<1>. QED BY TypeInit, TypeStep, <1>1, PTL DEF Spec

-----------------------------------------------------------------------------
(* What keeps the paths to an alert apart.  A uuid is used once; a case is *)
(* in one hand at a time (the read loop, the buffer, a merge); whoever     *)
(* holds it, it has a row and no alert yet, unless it is not inserted.     *)

Held == buffer \cup flush.batch

(* A uuid that is not drawn yet is nowhere. *)
UuidsUnused ==
    /\ \A c \in CaseId : c >= nextCase => ~Exists(c) /\ alert[c] = "none" /\ spawned[c] = 0
    /\ \A k \in Key : index[k] < nextCase
    /\ \A c \in Held : c < nextCase

AlertStarted(c) ==
    /\ spawned[c] = IF alert[c] = "none" THEN 0 ELSE 1
    /\ alert[c] # "none" => Exists(c) /\ cases[c].sev # "info"
    /\ alert[c] = "queued" => cases[c].sev # "high"

(* A case waiting in the buffer or in a merge. *)
Waits(c) ==
    /\ Exists(c)
    /\ alert[c] = "none"
    /\ cases[c].sev \notin {"high", "info"}
    /\ objects[c].key \notin HighKey

(* The case the read loop has drawn and not announced. *)
Drawn(c) ==
    /\ alert[c] = "none"
    /\ c \notin Held
    /\ c # flush.burst
    /\ IF ing.pc = "insertCase" THEN ~Exists(c)
       ELSE /\ Exists(c)
            /\ cases[c].sev = ClassifySeverity(ing.key)
            /\ objects[c].key = ing.key

(* The copy UpdateCase writes back differs from the row in its status only. *)
CopyIsCurrent ==
    LET c == index[ing.key] IN
    /\ ing.copy.status # "absent"
    /\ Exists(c) => /\ ing.copy.key = cases[c].key
                    /\ ing.copy.sev = cases[c].sev
                    /\ ing.copy.events = cases[c].events

(* The roll-up whose stubs are being deleted. *)
RollUpStored ==
    /\ flush.burst \in CaseId
    /\ flush.burst < nextCase
    /\ flush.burst \notin Held
    /\ Exists(flush.burst)
    /\ alert[flush.burst] = "none"
    /\ cases[flush.burst].sev = flush.sev
    /\ flush.sev # "high"

IngestInv ==
    /\ UuidsUnused
    /\ \A c \in CaseId : AlertStarted(c)
    /\ \A c \in Held : Waits(c)
    /\ buffer \cap flush.batch = {}
    /\ ing.pc \in {"insertCase", "announce"} => Drawn(index[ing.key])
    /\ ing.pc = "updateCase" => CopyIsCurrent
    /\ flush.pc = "tick" => flush.batch = {}
    /\ IF flush.pc = "delete" THEN RollUpStored ELSE flush.burst = 0
LEMMA IngestInvInit == Init => IngestInv
BY BoundAssumption DEF Init, IngestInv, UuidsUnused, AlertStarted, Waits, Held, Exists,
   NoRow, Waiting, Resting, CaseId

(* A step of the read loop that only moves it on, or evicts an entry. *)
LEMMA ReaderMoves ==
    ASSUME IngestInv, ing'.pc \in {"read", "insertEvent", "getCase"},
           \A k \in Key : index'[k] < nextCase,
           UNCHANGED <<cases, objects, buffer, flush, alert, spawned, nextCase>>
    PROVE  IngestInv'
BY DEF IngestInv, UuidsUnused, AlertStarted, Waits, Held, Exists, RollUpStored

(* Every case id in hand is a number. *)
LEMMA InHandTypes ==
    ASSUME TypeInv
    PROVE  /\ Held \subseteq CaseId /\ CaseId \subseteq Nat
           /\ buffer \subseteq CaseId /\ flush.batch \subseteq CaseId
           /\ nextCase \in Nat /\ flush.burst \in Nat
           /\ index \in [Key -> Nat]
<1>1. CaseId \subseteq Nat /\ 0..MaxCases \subseteq Nat /\ 1..(MaxCases + 1) \subseteq Nat
    BY BoundAssumption DEF CaseId
<1>2. flush.batch \subseteq CaseId /\ flush.burst \in 0..MaxCases
    BY DEF TypeInv, TypeOK, Flusher
<1>3. index \in [Key -> 0..MaxCases] /\ buffer \subseteq CaseId
    BY DEF TypeInv, TypeOK
<1>4. nextCase \in 1..(MaxCases + 1)
    BY DEF TypeInv, TypeOK
<1>. QED BY <1>1, <1>2, <1>3, <1>4 DEF Held

LEMMA DrawsUuid ==
    ASSUME TypeInv, IngestInv, InsertEventNewKey
    PROVE  IngestInv'
<1>1. nextCase \in CaseId /\ nextCase' = nextCase + 1 /\ nextCase \in Nat
    BY DEF InsertEventNewKey, TypeInv, TypeOK
<1>2. ing.key \in Key
    BY DEF InsertEventNewKey, TypeInv, InHandKey
<1>3. index' = [index EXCEPT ![ing.key] = nextCase]
    BY DEF InsertEventNewKey
<1>4. ing'.pc = "insertCase" /\ ing'.key = ing.key
    BY DEF InsertEventNewKey, TypeInv, TypeOK, Reader
<1>5. UNCHANGED <<cases, objects, buffer, flush, alert, spawned>>
    BY DEF InsertEventNewKey
<1>6. UuidsUnused
    BY DEF IngestInv
<1>7. UuidsUnused'
    <2>1. \A k \in Key : index'[k] < nextCase'
        BY <1>1, <1>2, <1>3, <1>6, InHandTypes DEF UuidsUnused
    <2>2. \A c \in Held : c < nextCase'
        <3>1. Held \subseteq Nat
            BY InHandTypes
        <3>. QED BY <1>1, <1>6, <3>1 DEF UuidsUnused
    <2>3. \A c \in CaseId : c >= nextCase' => c >= nextCase
        <3>1. CaseId \subseteq Nat
            BY InHandTypes
        <3>. QED BY <1>1, <3>1
    <2>. QED BY <1>5, <1>6, <2>1, <2>2, <2>3 DEF UuidsUnused, Held, Exists
<1>8. Drawn(index[ing.key])'
    <2>1. index'[ing'.key] = nextCase
        BY <1>2, <1>3, <1>4, InHandTypes
    <2>2. nextCase \notin Held /\ nextCase # flush.burst /\ ~Exists(nextCase) /\ alert[nextCase] = "none"
        BY <1>1, InHandTypes DEF IngestInv, UuidsUnused, RollUpStored, CaseId
    <2>. QED BY <2>1, <2>2, <1>4, <1>5 DEF Drawn, Held, Exists
<1>9. RollUpStored => RollUpStored'
    BY <1>1, <1>5, InHandTypes DEF RollUpStored, Held, Exists
<1>. QED
    BY <1>4, <1>5, <1>7, <1>8, <1>9 DEF IngestInv, AlertStarted, Waits, Held, Exists
LEMMA InsertsCase ==
    ASSUME TypeInv, IngestInv, InsertCase
    PROVE  IngestInv'
<1> DEFINE c == index[ing.key]
<1>1. c \in CaseId /\ ing.key \in Key
    BY InHandCase DEF InsertCase
<1>2. Drawn(c) /\ ~Exists(c) /\ alert[c] = "none" /\ c \notin Held /\ c # flush.burst
    BY DEF InsertCase, IngestInv, Drawn
<1>3. UNCHANGED <<index, buffer, flush, alert, spawned, nextCase>>
    BY DEF InsertCase
<1>4. ing'.pc = "announce" /\ ing'.key = ing.key
    BY DEF InsertCase, TypeInv, TypeOK, Reader
<1>5. /\ cases'[c].status = "open" /\ cases'[c].sev = ClassifySeverity(ing.key)
      /\ objects'[c].key = ing.key
    BY <1>1 DEF InsertCase, TypeInv, TypeOK, StubRow
<1>6. \A d \in CaseId \ {c} : cases'[d] = cases[d] /\ objects'[d] = objects[d]
    BY <1>1 DEF InsertCase, TypeInv, TypeOK
<1>7. UuidsUnused'
    <2>1. UuidsUnused /\ index[ing.key] < nextCase
        BY <1>1 DEF IngestInv, UuidsUnused
    <2>2. ~(c >= nextCase)
        BY <1>1, <2>1, InHandTypes
    <2>. QED BY <1>3, <1>6, <2>1, <2>2 DEF UuidsUnused, Held, Exists
<1>8. \A d \in CaseId : AlertStarted(d)'
    BY <1>2, <1>3, <1>6 DEF IngestInv, AlertStarted, Exists
<1>9. \A d \in Held' : Waits(d)'
    BY <1>2, <1>3, <1>6, InHandTypes DEF IngestInv, Waits, Held, Exists
<1>10. Drawn(index[ing.key])'
    BY <1>2, <1>3, <1>4, <1>5 DEF Drawn, Held, Exists
<1>11. RollUpStored => RollUpStored'
    BY <1>2, <1>3, <1>6 DEF RollUpStored, Held, Exists
<1>. QED BY <1>3, <1>4, <1>7, <1>8, <1>9, <1>10, <1>11 DEF IngestInv

(* Both ways to announce a case end its time in the read loop's hand. *)
LEMMA AnnouncesHigh ==
    ASSUME TypeInv, IngestInv, AnnounceHigh
    PROVE  IngestInv'
<1> DEFINE c == index[ing.key]
<1>1. c \in CaseId /\ ing.key \in Key
    BY InHandCase DEF AnnounceHigh
<1>2. /\ Exists(c) /\ alert[c] = "none" /\ c \notin Held /\ c # flush.burst
      /\ cases[c].sev = "high"
    BY DEF AnnounceHigh, IngestInv, Drawn
<1>3. UNCHANGED <<cases, objects, index, buffer, flush, nextCase>> /\ ing'.pc = "read"
    BY DEF AnnounceHigh, Waiting
<1>4. alert'[c] = "direct" /\ spawned'[c] = spawned[c] + 1
    BY <1>1 DEF AnnounceHigh, Spawn
<1>5. \A d \in CaseId \ {c} : alert'[d] = alert[d] /\ spawned'[d] = spawned[d]
    BY DEF AnnounceHigh, Spawn
<1>6. UuidsUnused'
    <2>1. UuidsUnused /\ index[ing.key] < nextCase
        BY <1>1 DEF IngestInv, UuidsUnused
    <2>2. ~(c >= nextCase)
        BY <1>1, <2>1, InHandTypes
    <2>. QED BY <1>3, <1>5, <2>1, <2>2 DEF UuidsUnused, Held, Exists
<1>7. \A d \in CaseId : AlertStarted(d)'
    BY <1>2, <1>3, <1>4, <1>5 DEF IngestInv, AlertStarted, Exists
<1>8. \A d \in Held' : Waits(d)'
    BY <1>2, <1>3, <1>5, InHandTypes DEF IngestInv, Waits, Held, Exists
<1>9. RollUpStored => RollUpStored'
    BY <1>2, <1>3, <1>5 DEF RollUpStored, Held, Exists
<1>. QED BY <1>3, <1>6, <1>7, <1>8, <1>9 DEF IngestInv, Held

LEMMA AnnouncesBuffered ==
    ASSUME TypeInv, IngestInv, AnnounceBuffered
    PROVE  IngestInv'
<1> DEFINE c == index[ing.key]
<1>1. c \in CaseId /\ ing.key \in Key
    BY InHandCase DEF AnnounceBuffered
<1>2. Drawn(c) /\ Exists(c) /\ cases[c].sev = ClassifySeverity(ing.key) /\ objects[c].key = ing.key
    BY DEF AnnounceBuffered, IngestInv, Drawn
<1>3. UNCHANGED <<cases, objects, index, alert, spawned, flush, nextCase>> /\ ing'.pc = "read"
    BY DEF AnnounceBuffered, Waiting
<1>4. buffer' = buffer \cup {c} /\ Held' = Held \cup {c}
    BY DEF AnnounceBuffered, Held
<1>5. Waits(c)
    BY <1>2, SeverityTypes DEF AnnounceBuffered, Waits, Drawn
<1>6. UuidsUnused'
    BY <1>1, <1>3, <1>4 DEF IngestInv, UuidsUnused, Exists
<1>7. \A d \in CaseId : AlertStarted(d)'
    BY <1>3 DEF IngestInv, AlertStarted, Exists
<1>8. \A d \in Held' : Waits(d)'
    BY <1>3, <1>4, <1>5 DEF IngestInv, Waits, Exists
<1>9. RollUpStored => RollUpStored'
    BY <1>2, <1>3, <1>4 DEF RollUpStored, Drawn, Exists
<1>10. buffer' \cap flush'.batch = {}
    BY <1>2, <1>3, <1>4 DEF IngestInv, Drawn, Held
<1>. QED BY <1>3, <1>6, <1>7, <1>8, <1>9, <1>10 DEF IngestInv

LEMMA CopiesRow ==
    ASSUME TypeInv, IngestInv, GetCase
    PROVE  IngestInv'
<1>1. UNCHANGED <<cases, objects, index, buffer, flush, alert, spawned, nextCase>>
    BY DEF GetCase
<1>2. ing'.pc = "updateCase" /\ ing'.key = ing.key /\ ing'.copy = cases[index[ing.key]]
    BY DEF GetCase, TypeInv, TypeOK, Reader
<1>3. Exists(index[ing.key])
    BY DEF GetCase
<1>4. CopyIsCurrent'
    BY <1>1, <1>2, <1>3 DEF CopyIsCurrent, Exists
<1>. QED
    BY <1>1, <1>2, <1>4 DEF IngestInv, UuidsUnused, AlertStarted, Waits, RollUpStored, Held, Exists

(* UpdateCase changes the status and the events of one row and brings none *)
(* back; an entry it evicts is one caseIndex no longer needs.              *)
LEMMA UpdatesCase ==
    ASSUME TypeInv, IngestInv, UpdateCase
    PROVE  IngestInv'
<1> DEFINE c == index[ing.key]
<1>1. c \in CaseId /\ ing.key \in Key
    BY InHandCase DEF UpdateCase
<1>2. CopyIsCurrent /\ ing.copy \in Row
    BY DEF UpdateCase, IngestInv, TypeInv, TypeOK, Reader
<1>3. UNCHANGED <<objects, buffer, flush, alert, spawned, nextCase>> /\ ing'.pc = "read"
    BY DEF UpdateCase, Waiting
<1>4. \A k \in Key : index'[k] < nextCase'
    <2>1. UuidsUnused /\ 0 < nextCase /\ nextCase' = nextCase
        BY BoundAssumption DEF IngestInv, TypeInv, TypeOK, UpdateCase
    <2>2. index' = index \/ index' = [index EXCEPT ![ing.key] = 0]
        BY DEF UpdateCase
    <2>. QED BY <2>1, <2>2, InHandTypes DEF UuidsUnused
<1>5. \A d \in CaseId : Exists(d)' <=> Exists(d)
    <2>1. cases'[c].status # "absent" <=> Exists(c)
        <3>1. CASE Exists(c)
            <4>1. cases'[c] = [ing.copy EXCEPT !.events = Grown, !.status = IF Capped THEN "closed" ELSE @]
                BY <1>1, <3>1 DEF UpdateCase, TypeInv, TypeOK
            <4>2. cases'[c].status \in {"closed", ing.copy.status}
                BY <1>2, <4>1 DEF Row
            <4>. QED BY <1>2, <3>1, <4>2 DEF CopyIsCurrent, Exists
        <3>. QED BY <3>1 DEF UpdateCase, Exists
    <2>. QED BY <2>1 DEF UpdateCase, TypeInv, TypeOK, Exists
<1>6. \A d \in CaseId : Exists(d) => cases'[d].sev = cases[d].sev
    <2>1. Exists(c) => cases'[c].sev = ing.copy.sev
        BY <1>1, <1>2 DEF UpdateCase, TypeInv, TypeOK, Row
    <2>. QED BY <1>2, <2>1 DEF CopyIsCurrent, UpdateCase, TypeInv, TypeOK
<1>7. UuidsUnused'
    BY <1>3, <1>4, <1>5 DEF IngestInv, UuidsUnused, Held
<1>8. \A d \in CaseId : AlertStarted(d)'
    BY <1>3, <1>5, <1>6 DEF IngestInv, AlertStarted
<1>9. \A d \in Held' : Waits(d)'
    BY <1>3, <1>5, <1>6, InHandTypes DEF IngestInv, Waits, Held
<1>10. RollUpStored => RollUpStored'
    BY <1>3, <1>5, <1>6 DEF RollUpStored, Held
<1>. QED BY <1>3, <1>7, <1>8, <1>9, <1>10 DEF IngestInv

LEMMA IngestKeepsInv == TypeInv /\ IngestInv /\ Ingest => IngestInv'
<1> SUFFICES ASSUME TypeInv, IngestInv, Ingest PROVE IngestInv'
    OBVIOUS
<1>a. \A k \in Key : index[k] < nextCase
    BY DEF IngestInv, UuidsUnused
<1>1. CASE InsertEventKnownKey
    <2>1. ing'.pc = "getCase" /\ UNCHANGED <<cases, objects, index, buffer, flush, alert, spawned, nextCase>>
        BY <1>1 DEF InsertEventKnownKey, TypeInv, TypeOK, Reader
    <2>. QED BY <1>a, <2>1, ReaderMoves
<1>2. CASE InsertEventFails \/ InsertCaseFails \/ UpdateCaseFails
    <2>1. ing'.pc = "read" /\ UNCHANGED <<cases, objects, index, buffer, flush, alert, spawned, nextCase>>
        BY <1>2 DEF InsertEventFails, InsertCaseFails, UpdateCaseFails, Waiting
    <2>. QED BY <1>a, <2>1, ReaderMoves
<1>3. CASE GetCaseMisses \/ GetCaseFails
    <2>1. ing'.pc = "insertEvent" /\ UNCHANGED <<cases, objects, buffer, flush, alert, spawned, nextCase>>
        BY <1>3 DEF GetCaseMisses, GetCaseFails, Reingest, Waiting
    <2>2. index' = [index EXCEPT ![ing.key] = 0]
        BY <1>3 DEF GetCaseMisses, GetCaseFails, Reingest
    <2>3. 0 < nextCase
        BY BoundAssumption DEF TypeInv, TypeOK
    <2>. QED BY <1>a, <2>1, <2>2, <2>3, InHandTypes, ReaderMoves
<1>. QED
    BY <1>1, <1>2, <1>3, DrawsUuid, InsertsCase, AnnouncesHigh, AnnouncesBuffered, CopiesRow,
       UpdatesCase DEF Ingest
LEMMA FlushesIndividually ==
    ASSUME TypeInv, IngestInv, FlushIndividually
    PROVE  IngestInv'
<1>1. UNCHANGED <<cases, objects, index, ing, flush, nextCase>> /\ Held' = {}
    BY DEF FlushIndividually, IngestInv, Held
<1>2. \A c \in CaseId : /\ c \in buffer => alert'[c] = "queued" /\ spawned'[c] = spawned[c] + 1
                        /\ c \notin buffer => alert'[c] = alert[c] /\ spawned'[c] = spawned[c]
    BY DEF FlushIndividually, Spawn
<1>3. \A c \in buffer : c \in Held /\ Waits(c) /\ c < nextCase /\ c \in CaseId
    BY InHandTypes DEF IngestInv, UuidsUnused, Held
<1>4. UuidsUnused'
    <2>1. \A c \in CaseId : c >= nextCase => c \notin buffer
        BY <1>3, InHandTypes
    <2>. QED BY <1>1, <1>2, <2>1 DEF IngestInv, UuidsUnused, Exists
<1>5. \A c \in CaseId : AlertStarted(c)'
    BY <1>1, <1>2, <1>3 DEF IngestInv, AlertStarted, Waits, Exists
<1>6. ing.pc \in {"insertCase", "announce"} => Drawn(index[ing.key])'
    BY <1>1, <1>2, <1>3, InHandCase DEF IngestInv, Drawn, Exists
<1>7. flush.pc = "tick"
    BY DEF FlushIndividually
<1>. QED BY <1>1, <1>4, <1>5, <1>6, <1>7 DEF IngestInv, CopyIsCurrent, Exists, Held

LEMMA DrainsForMerge ==
    ASSUME TypeInv, IngestInv, DrainForMerge
    PROVE  IngestInv'
<1>1. UNCHANGED <<cases, objects, index, ing, alert, spawned, nextCase>>
    BY DEF DrainForMerge
<1>2. flush'.pc = "merge" /\ flush'.batch = buffer /\ flush'.burst = 0 /\ buffer' = {}
    BY DEF DrainForMerge, Resting
<1>3. Held' = Held
    BY <1>2 DEF DrainForMerge, IngestInv, Held
<1>4. ing.pc \in {"insertCase", "announce"} => Drawn(index[ing.key])'
    <2>1. ing.pc \in {"insertCase", "announce"} => index[ing.key] # 0
        BY InHandCase, BoundAssumption DEF CaseId
    <2>. QED BY <1>1, <1>2, <1>3, <2>1 DEF IngestInv, Drawn, Exists
<1>. QED
    BY <1>1, <1>2, <1>3, <1>4 DEF IngestInv, UuidsUnused, AlertStarted, Waits, CopyIsCurrent, Exists

LEMMA InsertsRollUp ==
    ASSUME TypeInv, IngestInv, MergeInsert
    PROVE  IngestInv'
<1> DEFINE b == nextCase
<1>1. b \in CaseId /\ nextCase' = b + 1 /\ b \in Nat
    BY InHandTypes DEF MergeInsert
<1>2. ~Exists(b) /\ alert[b] = "none" /\ spawned[b] = 0 /\ b \notin Held
    BY <1>1, InHandTypes DEF IngestInv, UuidsUnused
<1>3. UNCHANGED <<index, ing, buffer, alert, spawned>>
    BY DEF MergeInsert
<1>4. \A d \in CaseId \ {b} : cases'[d] = cases[d] /\ objects'[d] = objects[d]
    BY <1>1 DEF MergeInsert, TypeInv, TypeOK
<1>5. cases'[b].status = "open" /\ cases'[b].sev = BurstSeverity(flush.batch)
    BY <1>1 DEF MergeInsert, TypeInv, TypeOK, BurstRow
<1>6. /\ flush'.pc = "delete" /\ flush'.burst = b /\ flush'.batch = flush.batch
      /\ flush'.sev = BurstSeverity(flush.batch)
    BY DEF MergeInsert, TypeInv, TypeOK, Flusher
<1>7. Held' = Held /\ \A d \in Held : d \in CaseId \ {b}
    BY <1>2, <1>3, <1>6, InHandTypes DEF Held
<1>8. BurstSeverity(flush.batch) # "high"
    BY SeverityTypes DEF IngestInv, Waits, Held
<1>9. UuidsUnused'
    <2>1. \A k \in Key : index'[k] < nextCase'
        BY <1>1, <1>3, InHandTypes DEF IngestInv, UuidsUnused
    <2>2. \A d \in Held' : d < nextCase'
        <3>1. \A d \in Held : d \in Nat /\ d < nextCase
            BY InHandTypes DEF IngestInv, UuidsUnused
        <3>. QED BY <1>1, <1>7, <3>1
    <2>3. \A d \in CaseId : d >= nextCase' => d >= nextCase /\ d # b
        <3>1. CaseId \subseteq Nat
            BY InHandTypes
        <3>. QED BY <1>1, <3>1
    <2>. QED BY <1>3, <1>4, <2>1, <2>2, <2>3 DEF IngestInv, UuidsUnused, Exists
<1>10. \A d \in CaseId : AlertStarted(d)'
    BY <1>2, <1>3, <1>4 DEF IngestInv, AlertStarted, Exists
<1>11. \A d \in Held' : Waits(d)'
    BY <1>3, <1>4, <1>7 DEF IngestInv, Waits, Exists
<1>12. ing.pc \notin {"read", "insertEvent"} => index[ing.key] \in CaseId \ {b}
    BY <1>1, InHandCase, InHandTypes DEF IngestInv, UuidsUnused
<1>13. ing.pc \in {"insertCase", "announce"} => Drawn(index[ing.key])'
    BY <1>3, <1>4, <1>6, <1>7, <1>12 DEF IngestInv, Drawn, Exists
<1>14. ing.pc = "updateCase" => CopyIsCurrent'
    BY <1>3, <1>4, <1>12 DEF IngestInv, CopyIsCurrent, Exists
<1>15. RollUpStored'
    <2>1. b < nextCase'
        BY <1>1
    <2>. QED BY <1>1, <1>2, <1>3, <1>5, <1>6, <1>7, <1>8, <2>1 DEF RollUpStored, Exists
<1>16. buffer' \cap flush'.batch = {}
    BY <1>3, <1>6 DEF IngestInv
<1>. QED BY <1>3, <1>6, <1>9, <1>10, <1>11, <1>13, <1>14, <1>15, <1>16 DEF IngestInv
(* A failed merge alerts the cases of its batch. *)
LEMMA AlertsBatch ==
    ASSUME TypeInv, IngestInv, MergeInsertFails
    PROVE  IngestInv'
<1>1. UNCHANGED <<cases, objects, index, buffer, ing, nextCase>>
    BY DEF MergeInsertFails
<1>2. flush.pc = "merge" /\ flush'.pc = "tick" /\ flush'.batch = {} /\ flush'.burst = 0
    BY DEF MergeInsertFails, Resting
<1>3. \A c \in CaseId : /\ c \in flush.batch => alert'[c] = "direct" /\ spawned'[c] = spawned[c] + 1
                        /\ c \notin flush.batch => alert'[c] = alert[c] /\ spawned'[c] = spawned[c]
    BY DEF MergeInsertFails, Spawn
<1>4. \A c \in flush.batch : c \in Held /\ Waits(c) /\ c < nextCase /\ c \in CaseId
    BY InHandTypes DEF IngestInv, UuidsUnused, Held
<1>5. Held' = buffer /\ \A c \in buffer : c \in Held /\ c \in CaseId \ flush.batch
    BY <1>1, <1>2, InHandTypes DEF IngestInv, Held
<1>6. UuidsUnused'
    <2>1. \A c \in CaseId : c >= nextCase => c \notin flush.batch
        BY <1>4, InHandTypes
    <2>. QED BY <1>1, <1>3, <1>5, <2>1 DEF IngestInv, UuidsUnused, Exists
<1>7. \A c \in CaseId : AlertStarted(c)'
    BY <1>1, <1>3, <1>4 DEF IngestInv, AlertStarted, Waits, Exists
<1>8. \A c \in Held' : Waits(c)'
    BY <1>1, <1>3, <1>5 DEF IngestInv, Waits, Exists
<1>9. ing.pc \in {"insertCase", "announce"} => Drawn(index[ing.key])'
    <2>1. ing.pc \in {"insertCase", "announce"} => index[ing.key] # 0 /\ index[ing.key] \in CaseId
        BY InHandCase, BoundAssumption DEF CaseId
    <2>. QED BY <1>1, <1>2, <1>3, <1>5, <2>1 DEF IngestInv, Drawn, Held, Exists
<1>. QED BY <1>1, <1>2, <1>6, <1>7, <1>8, <1>9 DEF IngestInv, CopyIsCurrent, Exists

LEMMA DeletesStub ==
    ASSUME TypeInv, IngestInv, NEW c \in CaseId, DeleteStub(c)
    PROVE  IngestInv'
<1>1. UNCHANGED <<objects, index, buffer, ing, alert, spawned, nextCase>>
    BY DEF DeleteStub
<1>2. c \in Held /\ Waits(c) /\ c \notin buffer /\ c # flush.burst
    BY DEF DeleteStub, NextStub, IngestInv, Held, RollUpStored
<1>3. /\ flush.pc = "delete" /\ flush'.pc = "delete" /\ flush'.burst = flush.burst
      /\ flush'.sev = flush.sev /\ flush'.batch = flush.batch \ {c}
    BY DEF DeleteStub, TypeInv, TypeOK, Flusher
<1>4. Held' = Held \ {c}
    BY <1>1, <1>2, <1>3 DEF Held
<1>5. cases'[c].status = "absent" /\ \A d \in CaseId \ {c} : cases'[d] = cases[d]
    BY DEF DeleteStub, TypeInv, TypeOK, NoRow
<1>6. \A d \in CaseId : Exists(d)' <=> Exists(d) /\ d # c
    BY <1>5 DEF Exists
<1>7. UuidsUnused'
    BY <1>1, <1>4, <1>6 DEF IngestInv, UuidsUnused
<1>8. \A d \in CaseId : AlertStarted(d)'
    BY <1>1, <1>2, <1>5, <1>6 DEF IngestInv, AlertStarted, Waits
<1>9. \A d \in Held' : Waits(d)'
    BY <1>1, <1>4, <1>5, <1>6, InHandTypes DEF IngestInv, Waits
<1>10. ing.pc \in {"insertCase", "announce"} => Drawn(index[ing.key])'
    <2>1. ing.pc \in {"insertCase", "announce"} => index[ing.key] \in CaseId \ {c}
        BY <1>2, InHandCase DEF IngestInv, Drawn
    <2>. QED BY <1>1, <1>3, <1>4, <1>5, <1>6, <2>1 DEF IngestInv, Drawn
<1>11. ing.pc = "updateCase" => CopyIsCurrent'
    <2>1. ing.pc = "updateCase" => index[ing.key] \in CaseId
        BY InHandCase
    <2>. QED BY <1>1, <1>5, <1>6, <2>1 DEF IngestInv, CopyIsCurrent, Exists
<1>12. RollUpStored'
    BY <1>1, <1>2, <1>3, <1>4, <1>5, <1>6 DEF IngestInv, RollUpStored
<1>13. buffer' \cap flush'.batch = {}
    BY <1>1, <1>3 DEF IngestInv
<1>. QED BY <1>1, <1>3, <1>7, <1>8, <1>9, <1>10, <1>11, <1>12, <1>13 DEF IngestInv

LEMMA LeavesStub ==
    ASSUME TypeInv, IngestInv, NEW c \in CaseId, DeleteStubFails(c)
    PROVE  IngestInv'
<1>1. UNCHANGED <<cases, objects, index, buffer, ing, alert, spawned, nextCase>>
    BY DEF DeleteStubFails
<1>2. /\ flush.pc = "delete" /\ flush'.pc = "delete" /\ flush'.burst = flush.burst
      /\ flush'.sev = flush.sev /\ flush'.batch = flush.batch \ {c}
    BY DEF DeleteStubFails, TypeInv, TypeOK, Flusher
<1>3. Held' \subseteq Held
    BY <1>1, <1>2 DEF Held
<1>4. ing.pc \in {"insertCase", "announce"} => Drawn(index[ing.key])'
    BY <1>1, <1>2, <1>3 DEF IngestInv, Drawn, Exists
<1>5. RollUpStored'
    BY <1>1, <1>2, <1>3 DEF IngestInv, RollUpStored, Exists
<1>6. UuidsUnused' /\ \A d \in CaseId : AlertStarted(d)'
    BY <1>1, <1>3 DEF IngestInv, UuidsUnused, AlertStarted, Exists
<1>7. (\A d \in Held' : Waits(d)') /\ buffer' \cap flush'.batch = {}
    BY <1>1, <1>2, <1>3 DEF IngestInv, Waits, Exists
<1>. QED BY <1>1, <1>2, <1>4, <1>5, <1>6, <1>7 DEF IngestInv, CopyIsCurrent, Exists

(* The merge is over; its roll-up is alerted unless it is "info". *)
LEMMA EndsMerge ==
    ASSUME TypeInv, IngestInv, MergeSuppressed \/ MergeAlerted
    PROVE  IngestInv'
<1> DEFINE b == flush.burst
<1>1. UNCHANGED <<cases, objects, index, buffer, ing, nextCase>>
    BY DEF MergeSuppressed, MergeAlerted
<1>2. /\ flush.pc = "delete" /\ flush.batch = {}
      /\ flush'.pc = "tick" /\ flush'.batch = {} /\ flush'.burst = 0
    BY DEF MergeSuppressed, MergeAlerted, Resting
<1>3. RollUpStored
    BY <1>2 DEF IngestInv
<1>4. \A c \in CaseId \ {b} : alert'[c] = alert[c] /\ spawned'[c] = spawned[c]
    BY DEF MergeSuppressed, MergeAlerted, Spawn
<1>5. \/ alert'[b] = alert[b] /\ spawned'[b] = spawned[b]
      \/ alert'[b] = "queued" /\ spawned'[b] = spawned[b] + 1 /\ flush.sev # "info"
    BY <1>3 DEF MergeSuppressed, MergeAlerted, Spawn, RollUpStored
<1>6. Held' = Held
    BY <1>1, <1>2 DEF Held
<1>7. UuidsUnused'
    <2>1. \A c \in CaseId : c >= nextCase => c # b
        BY <1>3, InHandTypes DEF RollUpStored
    <2>. QED BY <1>1, <1>4, <1>6, <2>1 DEF IngestInv, UuidsUnused, Exists
<1>8. \A c \in CaseId : AlertStarted(c)'
    <2>1. ASSUME NEW c \in CaseId, c = b PROVE AlertStarted(c)'
        <3>1. AlertStarted(c)
            BY DEF IngestInv
        <3>. QED BY <1>1, <1>3, <1>5, <2>1, <3>1 DEF AlertStarted, RollUpStored, Exists
    <2>2. ASSUME NEW c \in CaseId \ {b} PROVE AlertStarted(c)'
        BY <1>1, <1>4 DEF IngestInv, AlertStarted, Exists
    <2>. QED BY <2>1, <2>2
<1>9. \A c \in Held' : Waits(c)'
    BY <1>1, <1>3, <1>4, <1>6, InHandTypes DEF IngestInv, Waits, RollUpStored, Exists
<1>10. ing.pc \in {"insertCase", "announce"} => Drawn(index[ing.key])'
    <2>1. ing.pc \in {"insertCase", "announce"} => index[ing.key] \in CaseId \ {b, 0}
        BY InHandCase, BoundAssumption DEF IngestInv, Drawn, CaseId
    <2>. QED BY <1>1, <1>2, <1>4, <1>6, <2>1 DEF IngestInv, Drawn, Exists
<1>. QED BY <1>1, <1>2, <1>7, <1>8, <1>9, <1>10 DEF IngestInv, CopyIsCurrent, Exists

LEMMA FlushKeepsInv == TypeInv /\ IngestInv /\ FlushBurst => IngestInv'
BY FlushesIndividually, DrainsForMerge, InsertsRollUp, AlertsBatch, DeletesStub, LeavesStub,
   EndsMerge DEF FlushBurst
(* An alert goroutine goes on, on a case that is in nobody's hand. *)
LEMMA AlertsKeepInv ==
    ASSUME TypeInv, IngestInv, NEW c \in CaseId, AcquireSem(c) \/ PostCaseAlert(c)
    PROVE  IngestInv'
<1>1. UNCHANGED <<cases, objects, index, buffer, ing, flush, spawned, nextCase>>
    BY DEF AcquireSem, PostCaseAlert
<1>2. /\ alert[c] # "none" /\ alert'[c] \in {"posting", "ended"}
      /\ \A d \in CaseId \ {c} : alert'[d] = alert[d]
    BY DEF AcquireSem, PostCaseAlert, TypeInv, TypeOK
<1>3. \A d \in CaseId : alert'[d] = "none" <=> alert[d] = "none"
    BY <1>2
<1>4. \A d \in CaseId : AlertStarted(d)'
    BY <1>1, <1>2, <1>3 DEF IngestInv, AlertStarted, Exists
<1>5. Held' = Held
    BY <1>1 DEF Held
<1>6. \A d \in Held' : Waits(d)'
    BY <1>1, <1>3, <1>5, InHandTypes DEF IngestInv, Waits, Exists
<1>7. ing.pc \in {"insertCase", "announce"} => Drawn(index[ing.key])'
    BY <1>1, <1>3, <1>5, InHandCase DEF IngestInv, Drawn, Exists
<1>8. RollUpStored => RollUpStored'
    BY <1>1, <1>3, <1>5 DEF RollUpStored, Exists
<1>9. UuidsUnused'
    BY <1>1, <1>3, <1>5 DEF IngestInv, UuidsUnused, Exists
<1>. QED BY <1>1, <1>4, <1>6, <1>7, <1>8, <1>9 DEF IngestInv, CopyIsCurrent, Exists

(* SetCaseStatus writes one column of one row, and that row stays. *)
LEMMA CommandsKeepInv ==
    ASSUME TypeInv, IngestInv, NEW c \in CaseId, NEW s \in {"open", "closed"}, SetCaseStatus(c, s)
    PROVE  IngestInv'
<1>1. UNCHANGED <<objects, index, buffer, ing, flush, alert, spawned, nextCase>>
    BY DEF SetCaseStatus
<1>2. /\ Exists(c) /\ cases'[c].status = s
      /\ cases'[c].key = cases[c].key /\ cases'[c].sev = cases[c].sev
      /\ cases'[c].events = cases[c].events
      /\ \A d \in CaseId \ {c} : cases'[d] = cases[d]
    BY DEF SetCaseStatus, TypeInv, TypeOK, Row
<1>3. \A d \in CaseId : /\ Exists(d)' <=> Exists(d)
                        /\ cases'[d].key = cases[d].key /\ cases'[d].sev = cases[d].sev
                        /\ cases'[d].events = cases[d].events
    BY <1>2 DEF Exists
<1>4. Held' = Held
    BY <1>1 DEF Held
<1>5. UuidsUnused' /\ \A d \in CaseId : AlertStarted(d)'
    BY <1>1, <1>3, <1>4 DEF IngestInv, UuidsUnused, AlertStarted
<1>6. \A d \in Held' : Waits(d)'
    BY <1>1, <1>3, <1>4, InHandTypes DEF IngestInv, Waits
<1>7. ing.pc \notin {"read", "insertEvent"} => /\ index[ing.key] \in CaseId
                                               /\ index'[ing'.key] = index[ing.key]
    BY <1>1, InHandCase
<1>8. ing.pc \in {"insertCase", "announce"} => Drawn(index[ing.key])'
    BY <1>1, <1>3, <1>4, <1>7 DEF IngestInv, Drawn, Exists
<1>9. ing.pc = "updateCase" => CopyIsCurrent'
    BY <1>1, <1>3, <1>7 DEF IngestInv, CopyIsCurrent, Exists
<1>10. RollUpStored => RollUpStored'
    BY <1>1, <1>3, <1>4 DEF RollUpStored, Exists
<1>. QED BY <1>1, <1>5, <1>6, <1>8, <1>9, <1>10 DEF IngestInv

LEMMA RestartKeepsInv == TypeInv /\ IngestInv /\ Restart => IngestInv'
<1> SUFFICES ASSUME TypeInv, IngestInv, Restart PROVE IngestInv'
    OBVIOUS
<1>1. UNCHANGED <<cases, spawned, nextCase>> /\ 0 < nextCase
    BY BoundAssumption DEF Restart, TypeInv, TypeOK
<1>2. /\ ing'.pc = "read" /\ flush'.pc = "tick" /\ flush'.batch = {} /\ flush'.burst = 0
      /\ buffer' = {} /\ \A k \in Key : index'[k] = 0
    BY DEF Restart, Waiting, Resting
<1>3. \A c \in CaseId : alert'[c] = IF alert[c] = "none" THEN "none" ELSE "ended"
    BY DEF Restart
<1>4. Held' = {}
    BY <1>2 DEF Held
<1>5. UuidsUnused'
    BY <1>1, <1>2, <1>3, <1>4 DEF IngestInv, UuidsUnused, Exists
<1>6. \A c \in CaseId : AlertStarted(c)'
    BY <1>1, <1>3 DEF IngestInv, AlertStarted, Exists
<1>. QED BY <1>2, <1>4, <1>5, <1>6 DEF IngestInv

LEMMA NextKeepsInv == TypeInv /\ IngestInv /\ [Next]_vars => IngestInv'
<1> SUFFICES ASSUME TypeInv, IngestInv, [Next]_vars PROVE IngestInv'
    OBVIOUS
<1>1. CASE UNCHANGED vars
    BY <1>1 DEF vars, IngestInv, UuidsUnused, AlertStarted, Waits, Drawn, CopyIsCurrent,
                RollUpStored, Held, Exists
<1>2. ASSUME NEW k \in Key, Receive(k) PROVE IngestInv'
    <2>1. ing'.pc = "insertEvent" /\ UNCHANGED <<cases, objects, index, buffer, flush, alert, spawned, nextCase>>
        BY <1>2 DEF Receive, Waiting
    <2>. QED BY <2>1, ReaderMoves DEF IngestInv, UuidsUnused
<1>3. ASSUME NEW c \in CaseId, AcquireSem(c) \/ PostCaseAlert(c) PROVE IngestInv'
    BY <1>3, AlertsKeepInv
<1>4. ASSUME NEW c \in CaseId, NEW s \in {"open", "closed"}, SetCaseStatus(c, s) PROVE IngestInv'
    BY <1>4, CommandsKeepInv
<1>. QED
    BY <1>1, <1>2, <1>3, <1>4, IngestKeepsInv, FlushKeepsInv, RestartKeepsInv DEF Next

LEMMA InvariantHolds == Spec => [](TypeInv /\ IngestInv)
<1>1. Init => TypeInv /\ IngestInv
    BY TypeInit, IngestInvInit
<1>2. TypeInv /\ IngestInv /\ [Next]_vars => (TypeInv /\ IngestInv)'
    BY TypeStep, NextKeepsInv
<1>. QED BY <1>1, <1>2, PTL DEF Spec

(* However the read loop, the flush and the analysts interleave and        *)
(* whichever store calls fail, no case is given two alert goroutines.      *)
THEOREM CasesAlertedOnce == Spec => []AlertedOnce
<1>1. TypeInv /\ IngestInv => AlertedOnce
    BY DEF IngestInv, AlertStarted, AlertedOnce
<1>. QED BY <1>1, InvariantHolds, PTL

(* An alert is about a case that is in the store and stays there: the      *)
(* merge deletes only cases it holds, and those have no alert.             *)
THEOREM AlertsNameStoredCases == Spec => []AlertedCaseHasRow
<1>1. TypeInv /\ IngestInv => AlertedCaseHasRow
    BY DEF IngestInv, AlertStarted, AlertedCaseHasRow
<1>. QED BY <1>1, InvariantHolds, PTL

(* A high case is never in the buffer, in a merge or behind alertSem, nor  *)
(* does a merge make one.                                                  *)
THEOREM HighCasesNeverWait == Spec => []HighNeverWaits
<1>1. TypeInv /\ IngestInv => HighNeverWaits
    BY DEF IngestInv, AlertStarted, Waits, Held, HighNeverWaits
<1>. QED BY <1>1, InvariantHolds, PTL

(* No path, the fallback of a failed merge included, alerts an info case. *)
THEOREM InfoCasesStayQuiet == Spec => []InfoStaysOutOfSlack
<1>1. TypeInv /\ IngestInv => InfoStaysOutOfSlack
    BY DEF IngestInv, AlertStarted, InfoStaysOutOfSlack
<1>. QED BY <1>1, InvariantHolds, PTL
(* UpdateCase writes back a list GetCase read some store calls earlier;    *)
(* whatever ran in between, no row that stays loses an event.              *)
THEOREM RowsKeepTheirEvents == Spec => EventsNeverLeave
<1> DEFINE Keeps == \A c \in CaseId : Exists(c) /\ Exists(c)' => cases[c].events \subseteq cases'[c].events
<1>1. TypeInv /\ IngestInv /\ [Next]_vars => [Keeps]_vars
    <2> SUFFICES ASSUME TypeInv, IngestInv, Next PROVE Keeps
        OBVIOUS
    <2>1. CASE UNCHANGED cases
        BY <2>1
    <2>2. CASE InsertCase
        <3>1. ~Exists(index[ing.key])
            BY <2>2 DEF InsertCase, IngestInv, Drawn
        <3>. QED BY <2>2, <3>1 DEF InsertCase, TypeInv, TypeOK
    <2>3. CASE UpdateCase
        <3>1. CopyIsCurrent /\ ing.copy \in Row
            BY <2>3 DEF UpdateCase, IngestInv, TypeInv, TypeOK, Reader
        <3>2. index[ing.key] \in CaseId
            BY <2>3, InHandCase DEF UpdateCase
        <3>3. Exists(index[ing.key]) => cases'[index[ing.key]].events = Grown
            BY <2>3, <3>1, <3>2 DEF UpdateCase, TypeInv, TypeOK, Row
        <3>. QED BY <2>3, <3>1, <3>3 DEF CopyIsCurrent, UpdateCase, Grown, TypeInv, TypeOK
    <2>4. CASE MergeInsert
        <3>1. ~Exists(nextCase)
            BY <2>4, InHandTypes DEF MergeInsert, IngestInv, UuidsUnused
        <3>. QED BY <2>4, <3>1 DEF MergeInsert, TypeInv, TypeOK
    <2>5. ASSUME NEW c \in CaseId, DeleteStub(c) PROVE Keeps
        BY <2>5 DEF DeleteStub, TypeInv, TypeOK, NoRow, Exists
    <2>6. ASSUME NEW c \in CaseId, NEW s \in {"open", "closed"}, SetCaseStatus(c, s) PROVE Keeps
        BY <2>6 DEF SetCaseStatus, TypeInv, TypeOK, Row
    <2>7. \/ UNCHANGED cases \/ InsertCase \/ UpdateCase \/ MergeInsert
          \/ \E c \in CaseId : DeleteStub(c)
          \/ \E c \in CaseId, s \in {"open", "closed"} : SetCaseStatus(c, s)
        BY DEF Next, Ingest, FlushBurst, Receive, InsertEventNewKey, InsertEventKnownKey,
               InsertEventFails, InsertCaseFails, AnnounceHigh, AnnounceBuffered, GetCase,
               GetCaseMisses, GetCaseFails, Reingest, UpdateCaseFails, FlushIndividually,
               DrainForMerge, MergeInsertFails, DeleteStubFails, MergeSuppressed, MergeAlerted,
               AcquireSem, PostCaseAlert, Restart
    <2>. QED BY <2>1, <2>2, <2>3, <2>4, <2>5, <2>6, <2>7
<1>. QED BY <1>1, InvariantHolds, PTL DEF Spec, EventsNeverLeave
=============================================================================
