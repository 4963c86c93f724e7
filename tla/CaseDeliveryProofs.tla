------------------------- MODULE CaseDeliveryProofs -------------------------
(***************************************************************************)
(* Proofs about what the ingest files and delivers, on top of the          *)
(* invariant of SyslogIngestProofs: which row of the events table each     *)
(* case lists, what has become of each case, and that SyslogIngest         *)
(* implements CaseDelivery.                                                *)
(***************************************************************************)
EXTENDS SyslogIngestProofs, FiniteSetTheorems

USE DEF tables, memory, alerts, counts

-----------------------------------------------------------------------------
(* Where events are filed.  Rows list stored events only; the line in hand *)
(* is stored and no row lists it yet; caseIndex leads each key to its own  *)
(* case, and to no case twice.                                             *)

Filing == {"insertCase", "getCase", "updateCase"}

IsStub(c) == Exists(c) /\ cases[c].key # None

RowsListEvents ==
    \A c \in CaseId : /\ cases[c].events \cup objects[c].events \subseteq DOMAIN events
                      /\ ~Exists(c) => cases[c].events = {}

IndexLeadsHome ==
    /\ \A k \in Key : index[k] # 0 /\ Exists(index[k]) => cases[index[k]].key = k
    /\ \A k, l \in Key : index[k] # 0 /\ index[k] = index[l] => k = l

LineIsNew ==
    /\ ing.event \in DOMAIN events
    /\ events[ing.event].key = ing.key
    /\ \A c \in CaseId : ing.event \notin cases[c].events \cup objects[c].events

StubsApart ==
    \A c, d \in CaseId : c # d /\ IsStub(c) /\ IsStub(d) => cases[c].events \cap cases[d].events = {}

RowInv ==
    /\ RowsListEvents
    /\ IndexLeadsHome
    /\ ing.pc \in Filing => LineIsNew
    /\ EventsGrouped
    /\ StubsApart
    /\ BoundedGrowth

LEMMA RowInit == Init => RowInv
<1> SUFFICES ASSUME Init PROVE RowInv
    OBVIOUS
<1>1. \A c \in CaseId : cases[c] = NoRow /\ objects[c] = NoObject /\ ~Exists(c)
    BY DEF Init, NoRow, Exists
<1>2. \A k \in Key : index[k] = 0
    BY DEF Init
<1>3. ing.pc = "read"
    BY DEF Init, Waiting
<1>4. BoundedGrowth
    BY <1>1, <1>2, FS_EmptySet, BoundAssumption DEF BoundedGrowth, NoRow
<1>. QED BY <1>1, <1>2, <1>3, <1>4 DEF RowInv, RowsListEvents, IndexLeadsHome, Filing,
            EventsGrouped, StubsApart, IsStub, NoRow, NoObject

(* InsertEvent: the row it appends is one nothing lists. *)
LEMMA AppendedRow ==
    ASSUME TypeInv, ing.pc = "insertEvent", StoreEvent
    PROVE  /\ Len(events) + 1 \notin DOMAIN events
           /\ DOMAIN events' = DOMAIN events \cup {Len(events) + 1}
           /\ \A e \in DOMAIN events : events'[e] = events[e]
           /\ events'[Len(events) + 1].key = ing.key
<1>1. events \in Seq([line : Nat, key : Key]) /\ [line |-> lines, key |-> ing.key] \in [line : Nat, key : Key]
    BY BoundAssumption DEF TypeInv, TypeOK, InHandKey
<1>2. events' = Append(events, [line |-> lines, key |-> ing.key])
    BY DEF StoreEvent
<1>3. Len(events) \in Nat /\ DOMAIN events = 1..Len(events)
    BY <1>1
<1>. QED BY <1>1, <1>2, <1>3

(* Steps that leave the rows and objects alone: the line in hand is the    *)
(* one it was, and caseIndex loses entries at most.                        *)
LEMMA RowsFrame ==
    ASSUME RowInv, UNCHANGED <<events, cases, objects>>,
           \A k \in Key : index'[k] \in {0, index[k]},
           ing'.pc \in Filing => ing.pc \in Filing /\ ing'.event = ing.event /\ ing'.key = ing.key
    PROVE  RowInv'
<1>1. RowsListEvents' /\ EventsGrouped' /\ StubsApart'
    BY DEF RowInv, RowsListEvents, EventsGrouped, StubsApart, IsStub, IsBurst, Exists
<1>2. IndexLeadsHome'
    BY DEF RowInv, IndexLeadsHome, Exists
<1>3. ing'.pc \in Filing => LineIsNew'
    BY DEF RowInv, LineIsNew
<1>4. BoundedGrowth'
    BY DEF RowInv, BoundedGrowth, IsBurst, Exists
<1>. QED BY <1>1, <1>2, <1>3, <1>4 DEF RowInv

(* InsertEvent, with a key that is known or new. *)
LEMMA FilesEvent ==
    ASSUME TypeInv, IngestInv, RowInv, InsertEventNewKey \/ InsertEventKnownKey
    PROVE  RowInv'
<1> DEFINE e == Len(events) + 1
<1>1. UNCHANGED <<cases, objects>> /\ ing.key \in Key
    BY DEF InsertEventNewKey, InsertEventKnownKey, TypeInv, InHandKey
<1>2. /\ e \notin DOMAIN events /\ DOMAIN events' = DOMAIN events \cup {e}
      /\ \A f \in DOMAIN events : events'[f] = events[f]
      /\ events'[e].key = ing.key
    BY AppendedRow DEF InsertEventNewKey, InsertEventKnownKey
<1>3. ing'.event = e /\ ing'.key = ing.key
    BY DEF InsertEventNewKey, InsertEventKnownKey, TypeInv, TypeOK, Reader
<1>4. \/ index' = index
      \/ /\ nextCase \in CaseId /\ index[ing.key] = 0
         /\ index' = [index EXCEPT ![ing.key] = nextCase]
    BY DEF InsertEventNewKey, InsertEventKnownKey
<1>5. nextCase \in CaseId => ~Exists(nextCase) /\ \A k \in Key : index[k] # nextCase
    BY InHandTypes DEF IngestInv, UuidsUnused
<1>6. RowsListEvents' /\ EventsGrouped' /\ StubsApart'
    BY <1>1, <1>2 DEF RowInv, RowsListEvents, EventsGrouped, StubsApart, IsStub, IsBurst, Exists
<1>7. LineIsNew'
    BY <1>1, <1>2, <1>3 DEF RowInv, RowsListEvents, LineIsNew
<1>8. IndexLeadsHome'
    BY <1>1, <1>4, <1>5, InHandTypes DEF RowInv, IndexLeadsHome, Exists
<1>9. BoundedGrowth'
    <2>1. nextCase \in CaseId => Cardinality(cases[nextCase].events) < BurstMaxEvents
        <3>1. Cardinality({}) < BurstMaxEvents
            BY FS_EmptySet, BoundAssumption
        <3>. QED BY <1>5, <3>1 DEF RowInv, RowsListEvents
    <2>. QED BY <1>1, <1>4, <2>1, InHandTypes DEF RowInv, BoundedGrowth, IsBurst, Exists
<1>. QED BY <1>6, <1>7, <1>8, <1>9 DEF RowInv

LEMMA IndexTypes ==
    ASSUME TypeInv
    PROVE  \A k \in Key : index[k] # 0 => index[k] \in CaseId
BY BoundAssumption DEF TypeInv, TypeOK, CaseId

LEMMA FilesStub ==
    ASSUME TypeInv, IngestInv, RowInv, InsertCase
    PROVE  RowInv'
<1> DEFINE c == index[ing.key]
<1>1. c \in CaseId /\ ing.key \in Key /\ c # 0
    BY InHandCase, BoundAssumption DEF InsertCase, CaseId
<1>2. LineIsNew /\ ~Exists(c)
    BY DEF InsertCase, RowInv, Filing, IngestInv, Drawn
<1>3. UNCHANGED <<events, index>> /\ ing'.pc = "announce"
    BY DEF InsertCase, TypeInv, TypeOK, Reader
<1>4. /\ cases'[c].status = "open" /\ cases'[c].key = ing.key /\ cases'[c].events = {ing.event}
      /\ objects'[c].events = {ing.event}
      /\ \A d \in CaseId \ {c} : cases'[d] = cases[d] /\ objects'[d] = objects[d]
    BY <1>1 DEF InsertCase, TypeInv, TypeOK, StubRow
<1>5. \A d \in CaseId \ {c} : Exists(d)' <=> Exists(d)
    BY <1>4 DEF Exists
<1>6. RowsListEvents'
    BY <1>2, <1>3, <1>4, <1>5 DEF RowInv, RowsListEvents, LineIsNew, Exists
<1>7. IndexLeadsHome'
    BY <1>1, <1>3, <1>4, <1>5, IndexTypes DEF RowInv, IndexLeadsHome
<1>8. EventsGrouped'
    BY <1>2, <1>3, <1>4, <1>5 DEF RowInv, EventsGrouped, LineIsNew, IsBurst
<1>9. StubsApart'
    BY <1>2, <1>4, <1>5 DEF RowInv, StubsApart, IsStub, LineIsNew
<1>10. BoundedGrowth'
    <2>1. Cardinality(cases'[c].events) = 1 /\ 1 < BurstMaxEvents
        BY <1>4, FS_Singleton, BoundAssumption
    <2>2. \A d \in CaseId \ {c} : cases'[d].events = cases[d].events /\ (IsBurst(d)' <=> IsBurst(d))
        BY <1>4, <1>5 DEF IsBurst
    <2>. QED BY <1>3, <2>1, <2>2, IndexTypes, BoundAssumption DEF RowInv, BoundedGrowth
<1>. QED BY <1>3, <1>6, <1>7, <1>8, <1>9, <1>10 DEF RowInv, Filing

(* One event more makes a list one longer at most. *)
LEMMA OneMore ==
    ASSUME NEW S, NEW e, NEW m \in Nat, IsFiniteSet(S), Cardinality(S) < m
    PROVE  Cardinality(S \cup {e}) \in Nat /\ Cardinality(S \cup {e}) <= m
BY FS_AddElement, FS_CardinalityType

LEMMA FiniteLists ==
    ASSUME TypeInv, RowInv, NEW c \in CaseId
    PROVE  IsFiniteSet(cases[c].events)
<1>1. DOMAIN events = 1..Len(events) /\ Len(events) \in Nat
    BY DEF TypeInv, TypeOK
<1>2. IsFiniteSet(1..Len(events))
    BY <1>1, FS_Interval
<1>. QED BY <1>1, <1>2, FS_Subset DEF RowInv, RowsListEvents

(* UpdateCase files the line in the case caseIndex leads its key to, which *)
(* has room for it; the entry goes when that was the last place.           *)
LEMMA GrowsStub ==
    ASSUME TypeInv, IngestInv, RowInv, UpdateCase
    PROVE  RowInv'
<1> DEFINE c == index[ing.key]
<1>1. c \in CaseId /\ ing.key \in Key /\ c # 0
    BY InHandCase, BoundAssumption DEF UpdateCase, CaseId
<1>2. LineIsNew /\ CopyIsCurrent /\ ing.copy \in Row
    BY DEF UpdateCase, RowInv, Filing, IngestInv, TypeInv, TypeOK, Reader
<1>3. UNCHANGED <<events, objects>> /\ ing'.pc = "read"
    BY DEF UpdateCase, Waiting
<1>4. index' = IF Capped THEN [index EXCEPT ![ing.key] = 0] ELSE index
    BY DEF UpdateCase
<1>5. \A k \in Key : index'[k] \in {0, index[k]}
    BY <1>4 DEF TypeInv, TypeOK
<1>6. CASE ~Exists(c)
    <2>1. UNCHANGED cases
        BY <1>6 DEF UpdateCase
    <2>. QED BY <2>1, <1>3, <1>5, RowsFrame DEF Filing
<1>7. CASE Exists(c)
    <2>1. cases' = [cases EXCEPT ![c] = [ing.copy EXCEPT !.events = Grown, !.status = IF Capped THEN "closed" ELSE @]]
        BY <1>7 DEF UpdateCase
    <2>2. /\ cases'[c].key = ing.copy.key /\ cases'[c].events = Grown
          /\ cases'[c].status \in {"closed", ing.copy.status}
        BY <1>1, <1>2, <2>1 DEF TypeInv, TypeOK, Row
    <2>3. /\ cases[c].key = ing.key /\ ing.copy.key = ing.key
          /\ Grown = cases[c].events \cup {ing.event} /\ ing.copy.status # "absent"
        BY <1>1, <1>2, <1>7 DEF RowInv, IndexLeadsHome, CopyIsCurrent, Grown
    <2>4. \A d \in CaseId \ {c} : cases'[d] = cases[d]
        BY <2>1 DEF TypeInv, TypeOK
    <2>5. \A d \in CaseId : /\ Exists(d)' <=> Exists(d)
                            /\ cases'[d].key = cases[d].key
        BY <1>7, <2>2, <2>3, <2>4 DEF Exists
    <2>6. RowsListEvents'
        BY <1>2, <1>3, <1>7, <2>2, <2>3, <2>4, <2>5 DEF RowInv, RowsListEvents, LineIsNew
    <2>7. IndexLeadsHome'
        BY <1>5, <2>5, IndexTypes DEF RowInv, IndexLeadsHome
    <2>8. EventsGrouped'
        BY <1>2, <1>3, <2>2, <2>3, <2>4, <2>5 DEF RowInv, EventsGrouped, LineIsNew, IsBurst
    <2>9. StubsApart'
        BY <1>2, <2>2, <2>3, <2>4, <2>5 DEF RowInv, StubsApart, IsStub, LineIsNew
    <2>10. BoundedGrowth'
        <3>1. IsFiniteSet(cases[c].events) /\ Cardinality(cases[c].events) < BurstMaxEvents
            BY <1>1, FiniteLists DEF RowInv, BoundedGrowth
        <3>2. Cardinality(Grown) \in Nat /\ Cardinality(Grown) <= BurstMaxEvents
            BY <2>3, <3>1, OneMore, BoundAssumption
        <3>3. ~Capped => Cardinality(Grown) < BurstMaxEvents
            BY <3>2, BoundAssumption DEF Capped
        <3>4. ASSUME NEW d \in CaseId, ~IsBurst(d)' PROVE Cardinality(cases'[d].events) <= BurstMaxEvents
            BY <2>2, <2>4, <2>5, <3>2, <3>4 DEF RowInv, BoundedGrowth, IsBurst
        <3>5. ASSUME NEW k \in Key, index'[k] # 0 PROVE Cardinality(cases'[index'[k]].events) < BurstMaxEvents
            <4>1. index'[k] = index[k] /\ index[k] \in CaseId
                BY <1>5, <3>5, BoundAssumption DEF TypeInv, TypeOK, CaseId
            <4>2. CASE index[k] = c
                <5>1. k = ing.key
                    BY <1>1, <4>2 DEF RowInv, IndexLeadsHome
                <5>2. ~Capped
                    BY <1>1, <1>4, <3>5, <5>1 DEF TypeInv, TypeOK
                <5>. QED BY <2>2, <3>3, <4>1, <4>2, <5>2
            <4>3. CASE index[k] # c
                BY <2>4, <3>5, <4>1, <4>3 DEF RowInv, BoundedGrowth
            <4>. QED BY <4>2, <4>3
        <3>. QED BY <3>4, <3>5 DEF BoundedGrowth
    <2>. QED BY <1>3, <2>6, <2>7, <2>8, <2>9, <2>10 DEF RowInv, Filing
<1>. QED BY <1>6, <1>7

(* The row of a roll-up is no stub, and caseIndex does not know it. *)
LEMMA FilesRollUp ==
    ASSUME TypeInv, IngestInv, RowInv, MergeInsert
    PROVE  RowInv'
<1>0. PICK b \in CaseId : b = nextCase
    BY DEF MergeInsert
<1>1. ~Exists(b) /\ \A k \in Key : index[k] # b
    BY <1>0, InHandTypes DEF IngestInv, UuidsUnused
<1>2. UNCHANGED <<events, index, ing>>
    BY DEF MergeInsert
<1>3. /\ cases'[b].status = "open" /\ cases'[b].key = None
      /\ cases'[b].events = UNION {objects[c].events : c \in flush.batch}
      /\ objects'[b].events = cases'[b].events
      /\ \A d \in CaseId \ {b} : cases'[d] = cases[d] /\ objects'[d] = objects[d]
    BY <1>0 DEF MergeInsert, TypeInv, TypeOK, BurstRow
<1>4. /\ \A d \in CaseId \ {b} : Exists(d)' <=> Exists(d)
      /\ IsBurst(b)' /\ ~IsStub(b)'
    BY <1>3 DEF Exists, IsBurst, IsStub
<1>5. RowsListEvents'
    <2>1. cases'[b].events \subseteq DOMAIN events
        BY <1>3, InHandTypes DEF RowInv, RowsListEvents
    <2>. QED BY <1>2, <1>3, <1>4, <2>1 DEF RowInv, RowsListEvents, IsBurst
<1>6. IndexLeadsHome'
    BY <1>1, <1>2, <1>3, <1>4, IndexTypes DEF RowInv, IndexLeadsHome
<1>7. ing.pc \in Filing => LineIsNew'
    <2>1. ing.pc \in Filing => ing.event \notin cases'[b].events
        BY <1>3, InHandTypes DEF RowInv, LineIsNew
    <2>. QED BY <1>2, <1>3, <2>1 DEF RowInv, LineIsNew
<1>8. EventsGrouped'
    BY <1>2, <1>3, <1>4 DEF RowInv, EventsGrouped, IsBurst
<1>9. StubsApart'
    BY <1>3, <1>4 DEF RowInv, StubsApart, IsStub
<1>10. BoundedGrowth'
    BY <1>1, <1>2, <1>3, <1>4, IndexTypes DEF RowInv, BoundedGrowth, IsBurst
<1>. QED BY <1>2, <1>5, <1>6, <1>7, <1>8, <1>9, <1>10 DEF RowInv

LEMMA RemovesStub ==
    ASSUME TypeInv, RowInv, NEW c \in CaseId, DeleteStub(c)
    PROVE  RowInv'
<1>1. UNCHANGED <<events, objects, index, ing>>
    BY DEF DeleteStub
<1>2. cases'[c] = NoRow /\ \A d \in CaseId \ {c} : cases'[d] = cases[d]
    BY DEF DeleteStub, TypeInv, TypeOK
<1>3. /\ cases'[c].events = {} /\ ~Exists(c)'
      /\ \A d \in CaseId \ {c} : Exists(d)' <=> Exists(d)
    BY <1>2 DEF NoRow, Exists
<1>4. RowsListEvents' /\ EventsGrouped' /\ StubsApart'
    BY <1>1, <1>2, <1>3 DEF RowInv, RowsListEvents, EventsGrouped, StubsApart, IsStub, IsBurst
<1>5. IndexLeadsHome' /\ (ing.pc \in Filing => LineIsNew')
    BY <1>1, <1>2, <1>3, IndexTypes DEF RowInv, IndexLeadsHome, LineIsNew
<1>6. BoundedGrowth'
    <2>1. Cardinality({}) < BurstMaxEvents /\ Cardinality({}) <= BurstMaxEvents
        BY FS_EmptySet, BoundAssumption
    <2>. QED BY <1>1, <1>2, <1>3, <2>1, IndexTypes DEF RowInv, BoundedGrowth, IsBurst
<1>. QED BY <1>1, <1>4, <1>5, <1>6 DEF RowInv

LEMMA MarksRow ==
    ASSUME TypeInv, RowInv, NEW c \in CaseId, NEW s \in {"open", "closed"}, SetCaseStatus(c, s)
    PROVE  RowInv'
<1>1. UNCHANGED <<events, objects, index, ing>>
    BY DEF SetCaseStatus
<1>2. /\ cases'[c].status = s /\ Exists(c)
      /\ cases'[c].key = cases[c].key /\ cases'[c].events = cases[c].events
      /\ \A d \in CaseId \ {c} : cases'[d] = cases[d]
    BY DEF SetCaseStatus, TypeInv, TypeOK, Row
<1>3. \A d \in CaseId : /\ Exists(d)' <=> Exists(d)
                        /\ cases'[d].key = cases[d].key /\ cases'[d].events = cases[d].events
    BY <1>2 DEF Exists
<1>4. RowsListEvents' /\ EventsGrouped' /\ StubsApart'
    BY <1>1, <1>3 DEF RowInv, RowsListEvents, EventsGrouped, StubsApart, IsStub, IsBurst
<1>5. IndexLeadsHome' /\ (ing.pc \in Filing => LineIsNew')
    BY <1>1, <1>3, IndexTypes DEF RowInv, IndexLeadsHome, LineIsNew
<1>6. BoundedGrowth'
    BY <1>1, <1>3, IndexTypes DEF RowInv, BoundedGrowth, IsBurst
<1>. QED BY <1>1, <1>4, <1>5, <1>6 DEF RowInv

LEMMA RowsSurvive == RowInv /\ Restart => RowInv'
<1> SUFFICES ASSUME RowInv, Restart PROVE RowInv'
    OBVIOUS
<1>1. /\ UNCHANGED <<events, cases>> /\ ing'.pc = "read"
      /\ \A c \in CaseId : objects'[c].events = {}
      /\ \A k \in Key : index'[k] = 0
    BY DEF Restart, NoObject, Waiting
<1>2. RowsListEvents' /\ EventsGrouped' /\ StubsApart'
    BY <1>1 DEF RowInv, RowsListEvents, EventsGrouped, StubsApart, IsStub, IsBurst, Exists
<1>3. IndexLeadsHome' /\ BoundedGrowth'
    BY <1>1 DEF RowInv, IndexLeadsHome, BoundedGrowth, IsBurst, Exists
<1>. QED BY <1>1, <1>2, <1>3 DEF RowInv, Filing

LEMMA RowStep == TypeInv /\ IngestInv /\ RowInv /\ [Next]_vars => RowInv'
<1> SUFFICES ASSUME TypeInv, IngestInv, RowInv, [Next]_vars PROVE RowInv'
    OBVIOUS
<1>1. ASSUME UNCHANGED <<events, cases, objects, index>>,
             ing' = ing \/ ing'.pc \notin Filing \/ (ing.pc \in Filing /\ ing'.event = ing.event /\ ing'.key = ing.key)
      PROVE  RowInv'
    BY <1>1, RowsFrame
<1>2. CASE UNCHANGED vars
    BY <1>1, <1>2 DEF vars
<1>3. ASSUME NEW k \in Key, Receive(k) PROVE RowInv'
    BY <1>1, <1>3 DEF Receive, Waiting, Filing
<1>4. CASE Ingest
    <2>1. CASE InsertEventFails \/ InsertCaseFails \/ UpdateCaseFails \/ AnnounceHigh \/ AnnounceBuffered
        BY <1>1, <2>1 DEF InsertEventFails, InsertCaseFails, UpdateCaseFails, AnnounceHigh,
                          AnnounceBuffered, Waiting, Filing
    <2>2. CASE GetCase
        BY <1>1, <2>2 DEF GetCase, Filing, TypeInv, TypeOK, Reader
    <2>3. CASE GetCaseMisses \/ GetCaseFails
        <3>1. UNCHANGED <<events, cases, objects>> /\ ing'.pc \notin Filing
            BY <2>3 DEF GetCaseMisses, GetCaseFails, Reingest, Waiting, Filing
        <3>2. \A k \in Key : index'[k] \in {0, index[k]}
            BY <2>3 DEF GetCaseMisses, GetCaseFails, Reingest, TypeInv, TypeOK
        <3>. QED BY <3>1, <3>2, RowsFrame
    <2>. QED BY <1>4, <2>1, <2>2, <2>3, FilesEvent, FilesStub, GrowsStub DEF Ingest
<1>5. CASE FlushBurst
    <2>1. CASE FlushIndividually \/ DrainForMerge \/ MergeInsertFails \/ MergeSuppressed \/ MergeAlerted
        BY <1>1, <2>1 DEF FlushIndividually, DrainForMerge, MergeInsertFails, MergeSuppressed, MergeAlerted
    <2>2. ASSUME NEW c \in CaseId, DeleteStubFails(c) PROVE RowInv'
        BY <1>1, <2>2 DEF DeleteStubFails
    <2>. QED BY <1>5, <2>1, <2>2, FilesRollUp, RemovesStub DEF FlushBurst
<1>6. ASSUME NEW c \in CaseId, AcquireSem(c) \/ PostCaseAlert(c) PROVE RowInv'
    BY <1>1, <1>6 DEF AcquireSem, PostCaseAlert
<1>. QED BY <1>2, <1>3, <1>4, <1>5, <1>6, MarksRow, RowsSurvive DEF Next

LEMMA RowsHold == Spec => [](TypeInv /\ IngestInv /\ RowInv)
<1>1. Init => RowInv
    BY RowInit
<1>2. TypeInv /\ IngestInv /\ RowInv /\ [Next]_vars => RowInv'
    BY RowStep
<1>. QED BY <1>1, <1>2, InvariantHolds, PTL DEF Spec

(* Whatever is evicted, re-ingested or deleted meanwhile, a stub lists     *)
(* stored rows of its own subnet and port only.                            *)
THEOREM StubsListTheirOwn == Spec => []EventsGrouped
<1>1. RowInv => EventsGrouped
    BY DEF RowInv
<1>. QED BY <1>1, RowsHold, PTL

(* No stub outgrows burstMaxEvents, and caseIndex never leads to a full    *)
(* one: an update that fails leaves the entry and the old list.            *)
THEOREM StubsAreCapped == Spec => []BoundedGrowth
<1>1. RowInv => BoundedGrowth
    BY DEF RowInv
<1>. QED BY <1>1, RowsHold, PTL

-----------------------------------------------------------------------------
(* What becomes of a case.  The objects of this process describe the rows  *)
(* it inserted; a case that is not merged shares no event with a roll-up;  *)
(* the stubs a merge still has to delete are in the roll-up it stored.     *)

Unmerged(c) == Announcing(c) \/ c \in buffer \/ Merging(c)

ObjectsUndrawn ==
    /\ \A c \in CaseId : c >= nextCase => ~Known(c)
    /\ ing.pc = "insertCase" => ~Known(index[ing.key])

KnownCase(c) ==
    /\ objects[c].events # {}
    /\ Exists(c) => cases[c].key = objects[c].key
    /\ objects[c].key = None => IsBurst(c) /\ cases[c].events = objects[c].events

ObjectsApart ==
    \A c, d \in CaseId : c # d /\ objects[c].key # None /\ objects[d].key # None
                            => objects[c].events \cap objects[d].events = {}

RollUpsApart ==
    /\ \A b, d \in CaseId : b # d /\ IsBurst(b) /\ IsBurst(d) => cases[b].events \cap cases[d].events = {}
    /\ \A b, c \in CaseId : IsBurst(b) /\ Unmerged(c) => cases[b].events \cap objects[c].events = {}

MergeUnderWay ==
    /\ flush.pc = "merge" => Cardinality(flush.batch) >= BurstThreshold
    /\ flush.pc = "delete" =>
         /\ Known(flush.burst) /\ objects[flush.burst].key = None
         /\ \A c \in flush.batch : objects[c].events \subseteq objects[flush.burst].events

FateInv ==
    /\ ObjectsUndrawn
    /\ \A c \in CaseId : Known(c) => KnownCase(c)
    /\ \A c \in CaseId : Announcing(c) \/ c \in Held => objects[c].key # None
    /\ ObjectsApart
    /\ RollUpsApart
    /\ MergeUnderWay
    /\ RolledUpNotAlerted
    /\ NothingForgotten

LEMMA FateInit == Init => FateInv
<1> SUFFICES ASSUME Init PROVE FateInv
    OBVIOUS
<1>1. \A c \in CaseId : ~Known(c) /\ ~IsBurst(c) /\ objects[c] = NoObject
    BY DEF Init, Known, IsBurst, Exists, NoRow
<1>2. ing.pc = "read" /\ flush.pc = "tick" /\ flush.batch = {} /\ buffer = {}
    BY DEF Init, Waiting, Resting
<1>. QED
    BY <1>1, <1>2 DEF FateInv, ObjectsUndrawn, ObjectsApart, RollUpsApart, MergeUnderWay,
       RolledUpNotAlerted, NothingForgotten, Announcing, Held, NoObject

(* The roll-ups this process made. *)
LEMMA KnownRollUp ==
    ASSUME FateInv, NEW b \in CaseId, Known(b)
    PROVE  /\ objects[b].events # {}
           /\ IsBurst(b) <=> objects[b].key = None
           /\ IsBurst(b) => cases[b].events = objects[b].events
BY DEF FateInv, KnownCase, IsBurst

LEMMA NotRolledUp ==
    ASSUME FateInv, NEW c \in CaseId, Known(c), Unmerged(c) \/ IsBurst(c)
    PROVE  ~RolledUp(c)
<1> SUFFICES ASSUME NEW b \in CaseId \ {c}, IsBurst(b), Known(b), objects[c].events \subseteq objects[b].events
             PROVE  FALSE
    BY DEF RolledUp
<1>1. objects[c].events # {} /\ cases[b].events = objects[b].events
    BY KnownRollUp
<1>2. cases[b].events \cap objects[c].events = {}
    BY KnownRollUp DEF FateInv, RollUpsApart
<1>. QED BY <1>1, <1>2

(* A case that is announced, buffered or about to be merged has its object *)
(* and no alert: the agent owes it one.                                    *)
LEMMA UnmergedIsOwed ==
    ASSUME TypeInv, IngestInv, FateInv, NEW c \in CaseId, Unmerged(c)
    PROVE  /\ Known(c) /\ InHand(c) /\ alert[c] = "none" /\ ~RolledUp(c)
           /\ objects[c].key # None
           /\ Fate(c) = IF ClassifySeverity(objects[c].key) = "high" THEN "urgent" ELSE "owed"
<1>1. objects[c].key # None /\ InHand(c)
    BY DEF Unmerged, FateInv, Held, Merging, InHand
<1>2. Known(c)
    BY <1>1 DEF Known, NoObject
<1>3. ~RolledUp(c)
    BY <1>2, NotRolledUp
<1>4. alert[c] = "none"
    BY DEF Unmerged, Announcing, Merging, Held, IngestInv, Waits, Drawn
<1>. QED BY <1>1, <1>2, <1>3, <1>4 DEF Fate

(* Fate looks at these five things only. *)
LEMMA SameFate ==
    ASSUME NEW c \in CaseId, objects'[c] = objects[c], alert'[c] = "none" <=> alert[c] = "none",
           RolledUp(c)' <=> RolledUp(c), InHand(c)' <=> InHand(c)
    PROVE  Fate(c)' = Fate(c)
BY DEF Fate, Known

(* Steps that only move a reader, an alert or a stub's row on. *)
LEMMA FateFrame ==
    ASSUME FateInv, UNCHANGED <<objects, buffer, flush>>,
           \A c \in CaseId : /\ Exists(c)' <=> Exists(c)
                             /\ Exists(c) => cases'[c].key = cases[c].key /\ cases'[c].sev = cases[c].sev
                             /\ IsBurst(c) => cases'[c].events = cases[c].events
                             /\ alert'[c] = "none" <=> alert[c] = "none"
                             /\ c >= nextCase' => c >= nextCase
                             /\ Announcing(c)' <=> Announcing(c),
           ing'.pc = "insertCase" => ~Known(index'[ing'.key])
    PROVE  FateInv' /\ \A c \in CaseId : Fate(c)' = Fate(c)
<1>1. \A c \in CaseId : /\ Known(c)' <=> Known(c)
                        /\ IsBurst(c)' <=> IsBurst(c)
                        /\ Archived(c)' <=> Archived(c)
    BY DEF Known, IsBurst, Archived
<1>2. \A c \in CaseId : RolledUp(c)' <=> RolledUp(c)
    BY <1>1 DEF RolledUp
<1>3. \A c \in CaseId : (InHand(c)' <=> InHand(c)) /\ (Unmerged(c)' <=> Unmerged(c))
    BY DEF InHand, Unmerged, Merging
<1>4. ObjectsUndrawn' /\ ObjectsApart' /\ MergeUnderWay'
    BY <1>1 DEF FateInv, ObjectsUndrawn, ObjectsApart, MergeUnderWay, Known
<1>5. RollUpsApart' /\ \A c \in CaseId : Known(c)' => KnownCase(c)'
    BY <1>1, <1>3 DEF FateInv, RollUpsApart, KnownCase, IsBurst
<1>6. \A c \in CaseId : Announcing(c)' \/ c \in Held' => objects'[c].key # None
    BY DEF FateInv, Held
<1>7. RolledUpNotAlerted' /\ NothingForgotten'
    BY <1>1, <1>2, <1>3 DEF FateInv, RolledUpNotAlerted, NothingForgotten
<1>8. \A c \in CaseId : Fate(c)' = Fate(c)
    BY <1>2, <1>3, SameFate
<1>. QED BY <1>4, <1>5, <1>6, <1>7, <1>8 DEF FateInv

DeliveryStep == [Delivery!Next]_[c \in CaseId |-> Fate(c)]

(* The cases of S, all at hand, get an alert; the others stay where they are. *)
LEMMA AlertFrame ==
    ASSUME FateInv, NEW S \in SUBSET CaseId, S # {},
           UNCHANGED <<cases, objects, nextCase>>,
           \A c \in S : /\ Known(c) /\ alert[c] = "none" /\ ~RolledUp(c)
                        /\ Fate(c) \in {"owed", "urgent", "rollup"}
                        /\ alert'[c] # "none",
           \A c \in CaseId \ S : alert'[c] = alert[c] /\ (InHand(c)' <=> InHand(c)),
           \A c \in CaseId : /\ Announcing(c)' => Announcing(c)
                             /\ Unmerged(c)' => Unmerged(c)
                             /\ c \in Held' => c \in Held,
           (ing' = ing /\ index' = index) \/ ing'.pc = "read",
           flush' = flush \/ flush'.pc = "tick"
    PROVE  FateInv' /\ Delivery!Alert(S)
<1>1. \A c \in CaseId : /\ Known(c)' <=> Known(c)
                        /\ IsBurst(c)' <=> IsBurst(c)
                        /\ Archived(c)' <=> Archived(c)
                        /\ KnownCase(c)' <=> KnownCase(c)
    BY DEF Known, IsBurst, Archived, Exists, KnownCase
<1>2. \A c \in CaseId : RolledUp(c)' <=> RolledUp(c)
    BY <1>1 DEF RolledUp
<1>3. ObjectsUndrawn' /\ ObjectsApart' /\ MergeUnderWay'
    BY <1>1 DEF FateInv, ObjectsUndrawn, ObjectsApart, MergeUnderWay, Known
<1>4. RollUpsApart'
    BY <1>1 DEF FateInv, RollUpsApart
<1>5. \A c \in CaseId : Announcing(c)' \/ c \in Held' => objects'[c].key # None
    BY DEF FateInv
<1>6. RolledUpNotAlerted'
    BY <1>1, <1>2 DEF FateInv, RolledUpNotAlerted
<1>7. NothingForgotten'
    BY <1>1, <1>2 DEF FateInv, NothingForgotten
<1>8. \A c \in S : Fate(c)' = "alerted"
    BY <1>1 DEF Fate
<1>9. \A c \in CaseId \ S : Fate(c)' = Fate(c)
    BY <1>2, SameFate
<1>10. Delivery!Alert(S)
    BY <1>8, <1>9 DEF Delivery!Alert, Delivery!Move, Delivery!Outstanding
<1>. QED BY <1>1, <1>3, <1>4, <1>5, <1>6, <1>7, <1>10 DEF FateInv

LEMMA AlertStep ==
    ASSUME NEW S \in SUBSET CaseId, Delivery!Alert(S)
    PROVE  DeliveryStep
BY DEF DeliveryStep, Delivery!Next

LEMMA HighIsAlerted ==
    ASSUME TypeInv, IngestInv, FateInv, AnnounceHigh
    PROVE  FateInv' /\ DeliveryStep
<1>1. PICK c \in CaseId : c = index[ing.key]
    BY InHandCase DEF AnnounceHigh
<1>2. Announcing(c) /\ Unmerged(c) /\ c \notin Held /\ c # flush.burst
    BY <1>1 DEF AnnounceHigh, Announcing, Unmerged, IngestInv, Drawn
<1>3. UNCHANGED <<cases, objects, nextCase, flush, buffer>> /\ ing'.pc = "read"
    BY DEF AnnounceHigh, Waiting
<1>4. alert'[c] = "direct" /\ \A d \in CaseId \ {c} : alert'[d] = alert[d]
    BY <1>1 DEF AnnounceHigh, Spawn
<1>5. \A d \in CaseId : /\ ~Announcing(d)'
                        /\ Announcing(d) => d = c
                        /\ d \in Held' <=> d \in Held
                        /\ Merging(d)' <=> Merging(d)
    BY <1>1, <1>3 DEF Announcing, Held, Merging
<1>6. \A d \in CaseId : /\ Unmerged(d)' => Unmerged(d)
                        /\ d # c => (InHand(d)' <=> InHand(d))
    BY <1>3, <1>5 DEF Unmerged, InHand
<1>7. Known(c) /\ alert[c] = "none" /\ ~RolledUp(c) /\ Fate(c) \in {"owed", "urgent", "rollup"}
    BY <1>2, UnmergedIsOwed
<1>8. FateInv' /\ Delivery!Alert({c})
    BY <1>3, <1>4, <1>5, <1>6, <1>7, AlertFrame
<1>. QED BY <1>8, AlertStep

LEMMA BufferIsAlerted ==
    ASSUME TypeInv, IngestInv, FateInv, FlushIndividually
    PROVE  FateInv' /\ DeliveryStep
<1>1. PICK S \in SUBSET CaseId : S = buffer
    BY InHandTypes
<1>2. UNCHANGED <<cases, objects, index, ing, nextCase, flush>> /\ buffer' = {} /\ S # {}
    BY <1>1 DEF FlushIndividually
<1>3. \A c \in S : alert'[c] = "queued"
    BY <1>1 DEF FlushIndividually, Spawn
<1>4. \A c \in CaseId \ S : alert'[c] = alert[c]
    BY <1>1 DEF FlushIndividually, Spawn
<1>5. \A c \in CaseId : /\ Announcing(c)' <=> Announcing(c)
                        /\ Merging(c)' <=> Merging(c)
                        /\ c \in Held' => c \in Held
    BY <1>2 DEF Announcing, Merging, Held
<1>6. \A c \in CaseId : /\ Unmerged(c)' => Unmerged(c)
                        /\ c \notin S => (InHand(c)' <=> InHand(c))
    BY <1>1, <1>2, <1>5 DEF Unmerged, InHand
<1>7. \A c \in S : Known(c) /\ alert[c] = "none" /\ ~RolledUp(c) /\ Fate(c) \in {"owed", "urgent", "rollup"}
    BY <1>1, UnmergedIsOwed DEF Unmerged
<1>8. FateInv' /\ Delivery!Alert(S)
    BY <1>2, <1>3, <1>4, <1>5, <1>6, <1>7, AlertFrame
<1>. QED BY <1>8, AlertStep

(* The fallback of a merge whose roll-up could not be stored. *)
LEMMA BatchIsAlerted ==
    ASSUME TypeInv, IngestInv, FateInv, MergeInsertFails
    PROVE  FateInv' /\ DeliveryStep
<1>1. PICK S \in SUBSET CaseId : S = flush.batch
    BY InHandTypes
<1>2. /\ UNCHANGED <<cases, objects, index, ing, buffer, nextCase>>
      /\ flush.pc = "merge" /\ flush'.pc = "tick" /\ flush'.batch = {}
    BY DEF MergeInsertFails, Resting
<1>3. S # {}
    BY <1>1, <1>2, FS_EmptySet, BoundAssumption DEF FateInv, MergeUnderWay
<1>4. /\ \A c \in S : alert'[c] = "direct"
      /\ \A c \in CaseId \ S : alert'[c] = alert[c]
    BY <1>1 DEF MergeInsertFails, Spawn
<1>5. \A c \in CaseId : /\ Announcing(c)' <=> Announcing(c)
                        /\ Merging(c) <=> c \in S
                        /\ ~Merging(c)'
                        /\ c \in Held' => c \in Held
    BY <1>1, <1>2 DEF Announcing, Merging, Held
<1>6. \A c \in CaseId : /\ Unmerged(c)' => Unmerged(c)
                        /\ c \notin S => (InHand(c)' <=> InHand(c))
    BY <1>1, <1>2, <1>5 DEF Unmerged, InHand
<1>7. \A c \in S : Known(c) /\ alert[c] = "none" /\ ~RolledUp(c) /\ Fate(c) \in {"owed", "urgent", "rollup"}
    BY <1>5, UnmergedIsOwed DEF Unmerged
<1>8. FateInv' /\ Delivery!Alert(S)
    BY <1>2, <1>3, <1>4, <1>5, <1>6, <1>7, AlertFrame
<1>. QED BY <1>8, AlertStep

(* The roll-up that was stored, at the end of its merge. *)
LEMMA StoredRollUp ==
    ASSUME TypeInv, IngestInv, FateInv, NEW b \in CaseId, b = flush.burst, flush.pc = "delete"
    PROVE  /\ Known(b) /\ IsBurst(b) /\ objects[b].key = None
           /\ alert[b] = "none" /\ ~RolledUp(b) /\ Fate(b) = "rollup"
           /\ cases[b].sev = flush.sev
           /\ ~Announcing(b) /\ b \notin Held
<1>1. Known(b) /\ objects[b].key = None
    BY DEF FateInv, MergeUnderWay
<1>2. IsBurst(b) /\ ~RolledUp(b)
    BY <1>1, KnownRollUp, NotRolledUp
<1>3. alert[b] = "none" /\ b \notin Held /\ cases[b].sev = flush.sev
    BY DEF IngestInv, RollUpStored
<1>4. ~Announcing(b)
    BY DEF IngestInv, Drawn, Announcing
<1>5. Fate(b) = "rollup"
    BY <1>1, <1>2, <1>3 DEF Fate, InHand
<1>. QED BY <1>1, <1>2, <1>3, <1>4, <1>5

LEMMA RollUpIsAlerted ==
    ASSUME TypeInv, IngestInv, FateInv, MergeAlerted
    PROVE  FateInv' /\ DeliveryStep
<1>1. PICK b \in CaseId : b = flush.burst
    BY DEF MergeAlerted, IngestInv, RollUpStored
<1>2. /\ UNCHANGED <<cases, objects, index, ing, buffer, nextCase>>
      /\ flush.pc = "delete" /\ flush.batch = {} /\ flush'.pc = "tick" /\ flush'.batch = {}
    BY DEF MergeAlerted, Resting
<1>3. alert'[b] = "queued" /\ \A c \in CaseId \ {b} : alert'[c] = alert[c]
    BY <1>1 DEF MergeAlerted, Spawn
<1>4. \A c \in CaseId : /\ Announcing(c)' <=> Announcing(c)
                        /\ ~Merging(c)' /\ ~Merging(c)
                        /\ c \in Held' <=> c \in Held
    BY <1>2 DEF Announcing, Merging, Held
<1>5. \A c \in CaseId : /\ Unmerged(c)' => Unmerged(c)
                        /\ c # b => (InHand(c)' <=> InHand(c))
    BY <1>1, <1>2, <1>4 DEF Unmerged, InHand
<1>6. FateInv' /\ Delivery!Alert({b})
    BY <1>1, <1>2, <1>3, <1>4, <1>5, StoredRollUp, AlertFrame
<1>. QED BY <1>6, AlertStep

(* Steps that pass cases from one hand to another. *)
LEMMA HandOver ==
    ASSUME FateInv, MergeUnderWay', UNCHANGED <<cases, objects, alert, nextCase>>,
           ing'.pc = "insertCase" => ing' = ing /\ index' = index,
           \A c \in CaseId : /\ InHand(c)' <=> InHand(c)
                             /\ Unmerged(c)' => Unmerged(c)
                             /\ Announcing(c)' \/ c \in Held' => Announcing(c) \/ c \in Held
    PROVE  FateInv' /\ \A c \in CaseId : Fate(c)' = Fate(c)
<1>1. \A c \in CaseId : /\ Known(c)' <=> Known(c)
                        /\ IsBurst(c)' <=> IsBurst(c)
                        /\ Archived(c)' <=> Archived(c)
                        /\ KnownCase(c)' <=> KnownCase(c)
    BY DEF Known, IsBurst, Archived, Exists, KnownCase
<1>2. \A c \in CaseId : RolledUp(c)' <=> RolledUp(c)
    BY <1>1 DEF RolledUp
<1>3. ObjectsUndrawn' /\ ObjectsApart'
    BY <1>1 DEF FateInv, ObjectsUndrawn, ObjectsApart, Known
<1>4. RollUpsApart'
    BY <1>1 DEF FateInv, RollUpsApart
<1>5. \A c \in CaseId : Announcing(c)' \/ c \in Held' => objects'[c].key # None
    BY DEF FateInv
<1>6. RolledUpNotAlerted' /\ NothingForgotten'
    BY <1>1, <1>2 DEF FateInv, RolledUpNotAlerted, NothingForgotten
<1>7. \A c \in CaseId : Fate(c)' = Fate(c)
    BY <1>2, SameFate
<1>. QED BY <1>1, <1>3, <1>4, <1>5, <1>6, <1>7 DEF FateInv

LEMMA CaseIsBuffered ==
    ASSUME TypeInv, FateInv, AnnounceBuffered
    PROVE  FateInv' /\ \A c \in CaseId : Fate(c)' = Fate(c)
<1>1. PICK c \in CaseId : c = index[ing.key]
    BY InHandCase DEF AnnounceBuffered
<1>2. UNCHANGED <<cases, objects, index, alert, nextCase, flush>> /\ buffer' = buffer \cup {c} /\ ing'.pc = "read"
    BY <1>1 DEF AnnounceBuffered, Waiting
<1>3. \A d \in CaseId : /\ ~Announcing(d)' /\ (Announcing(d) <=> d = c)
                        /\ Merging(d)' <=> Merging(d)
                        /\ d \in Held' <=> d = c \/ d \in Held
    BY <1>1, <1>2 DEF AnnounceBuffered, Announcing, Merging, Held
<1>4. MergeUnderWay'
    BY <1>2 DEF FateInv, MergeUnderWay, Known
<1>5. \A d \in CaseId : (InHand(d)' <=> InHand(d)) /\ (Unmerged(d)' <=> Unmerged(d))
    BY <1>2, <1>3 DEF InHand, Unmerged
<1>. QED BY <1>2, <1>3, <1>4, <1>5, HandOver

LEMMA BufferIsDrained ==
    ASSUME TypeInv, IngestInv, FateInv, DrainForMerge
    PROVE  FateInv' /\ \A c \in CaseId : Fate(c)' = Fate(c)
<1>1. /\ UNCHANGED <<cases, objects, index, ing, alert, nextCase>>
      /\ flush.pc = "tick" /\ flush.batch = {}
      /\ flush'.pc = "merge" /\ flush'.batch = buffer /\ buffer' = {}
      /\ Cardinality(buffer) >= BurstThreshold
    BY DEF DrainForMerge, Resting, IngestInv
<1>2. \A c \in CaseId : /\ Announcing(c)' <=> Announcing(c)
                        /\ ~Merging(c) /\ (Merging(c)' <=> c \in buffer)
                        /\ c \in Held' <=> c \in Held
    BY <1>1 DEF Announcing, Merging, Held
<1>3. MergeUnderWay'
    BY <1>1 DEF MergeUnderWay
<1>4. \A c \in CaseId : (InHand(c)' <=> InHand(c)) /\ (Unmerged(c)' <=> Unmerged(c))
    BY <1>1, <1>2 DEF InHand, Unmerged
<1>. QED BY <1>1, <1>2, <1>3, <1>4, HandOver

(* An info roll-up is archived: nobody holds it any more. *)
LEMMA RollUpIsArchived ==
    ASSUME TypeInv, IngestInv, FateInv, MergeSuppressed
    PROVE  FateInv' /\ DeliveryStep
<1>1. PICK b \in CaseId : b = flush.burst
    BY DEF MergeSuppressed, IngestInv, RollUpStored
<1>2. /\ UNCHANGED <<cases, objects, index, ing, buffer, alert, nextCase>>
      /\ flush.pc = "delete" /\ flush.batch = {} /\ flush.sev = "info"
      /\ flush'.pc = "tick" /\ flush'.batch = {}
    BY DEF MergeSuppressed, Resting
<1>3. \A c \in CaseId : /\ Known(c)' <=> Known(c)
                        /\ IsBurst(c)' <=> IsBurst(c)
                        /\ Archived(c)' <=> Archived(c)
                        /\ KnownCase(c)' <=> KnownCase(c)
    BY <1>2 DEF Known, IsBurst, Archived, Exists, KnownCase
<1>4. \A c \in CaseId : RolledUp(c)' <=> RolledUp(c)
    BY <1>2, <1>3 DEF RolledUp
<1>5. \A c \in CaseId : /\ Announcing(c)' <=> Announcing(c)
                        /\ ~Merging(c)' /\ ~Merging(c)
                        /\ c \in Held' <=> c \in Held
    BY <1>2 DEF Announcing, Merging, Held
<1>6. \A c \in CaseId : /\ Unmerged(c)' <=> Unmerged(c)
                        /\ c # b => (InHand(c)' <=> InHand(c))
    BY <1>1, <1>2, <1>5 DEF Unmerged, InHand
<1>7. Archived(b) /\ ~InHand(b)'
    BY <1>1, <1>2, <1>5, StoredRollUp DEF Archived, InHand, Held
<1>8. ObjectsUndrawn' /\ ObjectsApart' /\ RollUpsApart' /\ MergeUnderWay'
    BY <1>2, <1>3, <1>6 DEF FateInv, ObjectsUndrawn, ObjectsApart, RollUpsApart, MergeUnderWay, Known
<1>9. \A c \in CaseId : Announcing(c)' \/ c \in Held' => objects'[c].key # None
    BY <1>2, <1>5 DEF FateInv
<1>10. RolledUpNotAlerted' /\ NothingForgotten'
    BY <1>2, <1>3, <1>4, <1>6, <1>7 DEF FateInv, RolledUpNotAlerted, NothingForgotten
<1>11. Fate(b)' = "archived"
    <2>1. Known(b)' /\ alert'[b] = "none" /\ ~RolledUp(b)'
        BY <1>1, <1>2, <1>3, <1>4, StoredRollUp
    <2>. QED BY <1>7, <2>1 DEF Fate
<1>12. \A c \in CaseId \ {b} : Fate(c)' = Fate(c)
    BY <1>2, <1>4, <1>6, SameFate
<1>13. Delivery!Archive(b)
    BY <1>1, <1>2, <1>11, <1>12, StoredRollUp DEF Delivery!Archive, Delivery!Move
<1>14. DeliveryStep
    BY <1>13 DEF DeliveryStep, Delivery!Next
<1>. QED BY <1>3, <1>8, <1>9, <1>10, <1>14 DEF FateInv

LEMMA CaseIsOpened ==
    ASSUME TypeInv, IngestInv, RowInv, FateInv, InsertCase
    PROVE  FateInv' /\ DeliveryStep
<1>1. PICK c \in CaseId : c = index[ing.key]
    BY InHandCase DEF InsertCase
<1>2. ing.key \in Key /\ ing.key # None
    BY InHandCase, KeyAssumption DEF InsertCase
<1>3. /\ ~Known(c) /\ ~Exists(c) /\ alert[c] = "none"
      /\ c \notin Held /\ c # flush.burst /\ c < nextCase
    BY <1>1, <1>2 DEF InsertCase, FateInv, ObjectsUndrawn, IngestInv, Drawn, UuidsUnused
<1>4. \A d \in CaseId : ing.event \notin cases[d].events \cup objects[d].events
    BY DEF InsertCase, RowInv, Filing, LineIsNew
<1>5. /\ UNCHANGED <<index, buffer, flush, alert, nextCase>>
      /\ ing.pc = "insertCase" /\ ing'.pc = "announce" /\ ing'.key = ing.key
    BY DEF InsertCase, TypeInv, TypeOK, Reader
<1>6. /\ cases'[c].status = "open" /\ cases'[c].key = ing.key
      /\ objects'[c].key = ing.key /\ objects'[c].events = {ing.event}
      /\ \A d \in CaseId \ {c} : cases'[d] = cases[d] /\ objects'[d] = objects[d]
    BY <1>1 DEF InsertCase, TypeInv, TypeOK, StubRow
<1>7. /\ Known(c)' /\ ~IsBurst(c)' /\ KnownCase(c)'
      /\ \A d \in CaseId \ {c} : /\ Known(d)' <=> Known(d)
                                 /\ IsBurst(d)' <=> IsBurst(d)
                                 /\ Archived(d)' <=> Archived(d)
                                 /\ KnownCase(d)' <=> KnownCase(d)
    BY <1>2, <1>6 DEF Known, NoObject, IsBurst, Archived, Exists, KnownCase
<1>8. \A d \in CaseId : (Announcing(d)' <=> d = c) /\ ~Announcing(d) /\ (Merging(d)' <=> Merging(d))
    BY <1>1, <1>5 DEF Announcing, Merging
<1>9. /\ InHand(c)' /\ Unmerged(c)'
      /\ \A d \in CaseId \ {c} : (InHand(d)' <=> InHand(d)) /\ (Unmerged(d)' <=> Unmerged(d))
    BY <1>5, <1>8 DEF InHand, Unmerged
<1>10. \A d \in CaseId \ {c} : RolledUp(d)' <=> RolledUp(d)
    BY <1>3, <1>6, <1>7 DEF RolledUp
<1>11. ObjectsUndrawn'
    BY <1>3, <1>5, <1>7, InHandTypes DEF FateInv, ObjectsUndrawn
<1>12. ObjectsApart'
    BY <1>4, <1>6 DEF FateInv, ObjectsApart
<1>13. RollUpsApart'
    BY <1>4, <1>6, <1>7, <1>9 DEF FateInv, RollUpsApart
<1>14. MergeUnderWay'
    BY <1>3, <1>5, <1>6, <1>7, InHandTypes DEF FateInv, MergeUnderWay, IngestInv, RollUpStored, Held, Known
<1>15. \A d \in CaseId : Announcing(d)' \/ d \in Held' => objects'[d].key # None
    BY <1>2, <1>5, <1>6, <1>8 DEF FateInv, Held
<1>16. RolledUpNotAlerted' /\ NothingForgotten'
    BY <1>3, <1>5, <1>7, <1>9, <1>10 DEF FateInv, RolledUpNotAlerted, NothingForgotten
<1>17. FateInv'
    BY <1>7, <1>11, <1>12, <1>13, <1>14, <1>15, <1>16 DEF FateInv
<1>18. Fate(c) = "unknown" /\ Fate(c)' \in {"owed", "urgent"}
    <2>1. ~RolledUp(c)'
        <3> SUFFICES ASSUME NEW b \in CaseId \ {c}, IsBurst(b)', Known(b)', objects'[c].events \subseteq objects'[b].events
                     PROVE  FALSE
            BY DEF RolledUp
        <3>. QED BY <1>4, <1>6
    <2>2. Fate(c)' \in {"owed", "urgent"}
        BY <1>2, <1>3, <1>5, <1>6, <1>7, <1>9, <2>1 DEF Fate
    <2>. QED BY <1>3, <2>2 DEF Fate
<1>19. \A d \in CaseId \ {c} : Fate(d)' = Fate(d)
    BY <1>5, <1>6, <1>9, <1>10, SameFate
<1>20. Delivery!Open(c)
    BY <1>18, <1>19 DEF Delivery!Open, Delivery!Move
<1>. QED BY <1>17, <1>20 DEF DeliveryStep, Delivery!Next

(* The row of a stub goes, or is left behind: it is in the roll-up and     *)
(* stays absorbed.                                                         *)
LEMMA StubIsGone ==
    ASSUME TypeInv, IngestInv, FateInv, NEW c \in CaseId, DeleteStub(c) \/ DeleteStubFails(c)
    PROVE  FateInv' /\ \A d \in CaseId : Fate(d)' = Fate(d)
<1>1. /\ UNCHANGED <<objects, index, ing, buffer, alert, nextCase>>
      /\ flush.pc = "delete" /\ c \in flush.batch
      /\ flush'.pc = "delete" /\ flush'.batch = flush.batch \ {c}
      /\ flush'.burst = flush.burst
    BY DEF DeleteStub, DeleteStubFails, NextStub, TypeInv, TypeOK, Flusher
<1>2. cases' = cases \/ (~Exists(c)' /\ \A d \in CaseId \ {c} : cases'[d] = cases[d])
    BY DEF DeleteStub, DeleteStubFails, TypeInv, TypeOK, NoRow, Exists
<1>3. c \in Held /\ Exists(c) /\ objects[c].key # None /\ Known(c)
    BY <1>1 DEF Held, IngestInv, Waits, FateInv, Known, NoObject
<1>4. ~IsBurst(c) /\ ~IsBurst(c)'
    BY <1>2, <1>3, KnownRollUp DEF IsBurst, Exists
<1>5. \A d \in CaseId : /\ Known(d)' <=> Known(d)
                        /\ IsBurst(d)' <=> IsBurst(d)
                        /\ IsBurst(d) => cases'[d] = cases[d]
                        /\ Archived(d)' <=> Archived(d)
    BY <1>1, <1>2, <1>4 DEF Known, IsBurst, Archived, Exists
<1>6. \A d \in CaseId : Known(d)' => KnownCase(d)'
    BY <1>1, <1>2, <1>3, <1>5 DEF FateInv, KnownCase, Exists
<1>7. \A d \in CaseId : RolledUp(d)' <=> RolledUp(d)
    BY <1>1, <1>5 DEF RolledUp
<1>8. \A d \in CaseId : /\ Announcing(d)' <=> Announcing(d)
                        /\ ~Merging(d)' /\ ~Merging(d)
                        /\ d \in Held' => d \in Held
    BY <1>1 DEF Announcing, Merging, Held
<1>9. \A d \in CaseId : (InHand(d)' <=> InHand(d)) /\ (Unmerged(d)' <=> Unmerged(d))
    BY <1>1, <1>8 DEF InHand, Unmerged
<1>10. ObjectsUndrawn' /\ ObjectsApart' /\ MergeUnderWay'
    BY <1>1, <1>5 DEF FateInv, ObjectsUndrawn, ObjectsApart, MergeUnderWay, Known
<1>11. RollUpsApart'
    BY <1>1, <1>5, <1>9 DEF FateInv, RollUpsApart
<1>12. \A d \in CaseId : Announcing(d)' \/ d \in Held' => objects'[d].key # None
    BY <1>1, <1>8 DEF FateInv
<1>13. RolledUpNotAlerted' /\ NothingForgotten'
    BY <1>1, <1>5, <1>7, <1>9 DEF FateInv, RolledUpNotAlerted, NothingForgotten
<1>14. \A d \in CaseId : Fate(d)' = Fate(d)
    BY <1>1, <1>7, <1>9, SameFate
<1>. QED BY <1>6, <1>10, <1>11, <1>12, <1>13, <1>14 DEF FateInv

LEMMA FatesAreForgotten ==
    ASSUME FateInv, Restart
    PROVE  FateInv' /\ DeliveryStep
<1>1. /\ \A c \in CaseId : objects'[c] = NoObject
      /\ UNCHANGED <<cases, nextCase>>
      /\ ing'.pc = "read" /\ flush'.pc = "tick" /\ flush'.batch = {} /\ buffer' = {}
    BY DEF Restart, Waiting, Resting
<1>2. \A c \in CaseId : ~Known(c)' /\ ~Unmerged(c)' /\ ~Announcing(c)' /\ (IsBurst(c)' <=> IsBurst(c))
    BY <1>1 DEF Known, Unmerged, Announcing, Merging, IsBurst, Exists
<1>3. ObjectsUndrawn' /\ ObjectsApart' /\ RollUpsApart' /\ MergeUnderWay'
    BY <1>1, <1>2 DEF FateInv, ObjectsUndrawn, ObjectsApart, RollUpsApart, MergeUnderWay, NoObject
<1>4. RolledUpNotAlerted' /\ NothingForgotten' /\ Held' = {}
    BY <1>1, <1>2 DEF RolledUpNotAlerted, NothingForgotten, Held
<1>5. \A c \in CaseId : Fate(c)' = "unknown"
    BY <1>2 DEF Fate
<1>6. Delivery!Forget
    BY <1>5 DEF Delivery!Forget
<1>. QED BY <1>2, <1>3, <1>4, <1>6 DEF FateInv, DeliveryStep, Delivery!Next

LEMMA SameCardinality == \A S : Delivery!Cardinality(S) = Cardinality(S)
BY DEF Delivery!Cardinality, Cardinality

(* The merge stores its roll-up: the cases of the batch, and only they,    *)
(* are absorbed.                                                           *)
LEMMA CasesAreRolledUp ==
    ASSUME TypeInv, IngestInv, FateInv, MergeInsert
    PROVE  FateInv' /\ DeliveryStep
<1>1. PICK b \in CaseId, S \in SUBSET CaseId : b = nextCase /\ S = flush.batch
    BY InHandTypes DEF MergeInsert
<1> DEFINE U == UNION {objects[c].events : c \in S}
<1>2. /\ ~Known(b) /\ ~Exists(b) /\ alert[b] = "none" /\ b \notin Held /\ b \notin S
      /\ ~Announcing(b)
    <2>1. b \in Nat /\ b >= nextCase
        BY <1>1, InHandTypes
    <2>2. ~Announcing(b)
        BY <2>1, InHandCase, InHandTypes DEF Announcing, IngestInv, UuidsUnused
    <2>. QED BY <1>1, <2>1, <2>2, InHandTypes DEF FateInv, ObjectsUndrawn, IngestInv, UuidsUnused, Held
<1>3. /\ cases'[b].status = "open" /\ cases'[b].key = None /\ cases'[b].events = U
      /\ objects'[b].key = None /\ objects'[b].events = U
      /\ \A d \in CaseId \ {b} : cases'[d] = cases[d] /\ objects'[d] = objects[d]
    BY <1>1 DEF MergeInsert, TypeInv, TypeOK, BurstRow
<1>4. /\ flush.pc = "merge" /\ flush'.pc = "delete" /\ flush'.batch = S /\ flush'.burst = b
      /\ UNCHANGED <<index, ing, buffer, alert>> /\ nextCase' = nextCase + 1
    BY <1>1 DEF MergeInsert, TypeInv, TypeOK, Flusher
<1>5. \A c \in S : /\ Unmerged(c) /\ Known(c) /\ alert[c] = "none" /\ ~RolledUp(c)
                   /\ objects[c].key # None /\ objects[c].events # {}
                   /\ Fate(c) = "owed"
    <2>1. \A c \in S : Unmerged(c) /\ objects[c].key \notin HighKey
        BY <1>1, <1>4 DEF Unmerged, Merging, IngestInv, Held, Waits
    <2>. QED BY <2>1, UnmergedIsOwed, KnownRollUp, SeverityTypes
<1>6. Cardinality(S) >= BurstThreshold /\ S # {}
    BY <1>1, <1>4, FS_EmptySet, BoundAssumption DEF FateInv, MergeUnderWay
<1>7. U # {}
    BY <1>5, <1>6
<1>8. \A d \in CaseId : IsBurst(d) => cases[d].events \cap U = {}
    BY <1>5 DEF FateInv, RollUpsApart
<1>9. \A d \in CaseId \ S : Known(d) => objects[d].events # {} /\ objects[d].events \cap U = {}
    <2> SUFFICES ASSUME NEW d \in CaseId \ S, Known(d) PROVE objects[d].events # {} /\ objects[d].events \cap U = {}
        OBVIOUS
    <2>1. CASE objects[d].key = None
        BY <1>8, <2>1, KnownRollUp
    <2>2. CASE objects[d].key # None
        BY <1>5, <2>2, KnownRollUp DEF FateInv, ObjectsApart
    <2>. QED BY <2>1, <2>2
<1>10. /\ Known(b)' /\ IsBurst(b)' /\ KnownCase(b)'
       /\ \A d \in CaseId \ {b} : /\ Known(d)' <=> Known(d)
                                  /\ IsBurst(d)' <=> IsBurst(d)
                                  /\ Archived(d)' <=> Archived(d)
                                  /\ KnownCase(d)' <=> KnownCase(d)
    BY <1>3, <1>7 DEF Known, NoObject, IsBurst, Archived, Exists, KnownCase
<1>11. \A d \in CaseId : /\ Announcing(d)' <=> Announcing(d)
                         /\ ~Merging(d)' /\ (Merging(d) <=> d \in S)
                         /\ d \in Held' <=> d \in Held
    BY <1>1, <1>4 DEF Announcing, Merging, Held
<1>12. \A d \in CaseId : Unmerged(d)' => Unmerged(d) /\ d \notin S /\ d # b
    <2>1. \A d \in S : ~Announcing(d) /\ d \notin buffer
        BY <1>1 DEF IngestInv, Drawn, Held, Announcing
    <2>. QED BY <1>2, <1>4, <1>11, <2>1 DEF Unmerged, Held
<1>13. InHand(b)' /\ \A d \in CaseId \ {b} : d \notin S => (InHand(d)' <=> InHand(d))
    BY <1>4, <1>11 DEF InHand
<1>14. \A d \in S : RolledUp(d)'
    BY <1>2, <1>3, <1>10 DEF RolledUp
<1>15. \A d \in CaseId \ {b} : d \notin S /\ Known(d) => (RolledUp(d)' <=> RolledUp(d))
    <2> SUFFICES ASSUME NEW d \in CaseId \ {b}, d \notin S, Known(d) PROVE RolledUp(d)' <=> RolledUp(d)
        OBVIOUS
    <2>1. ~(objects[d].events \subseteq U)
        BY <1>9
    <2>. QED BY <1>2, <1>3, <1>10, <2>1 DEF RolledUp
<1>16. ~RolledUp(b)'
    <2> SUFFICES ASSUME NEW d \in CaseId \ {b}, IsBurst(d)', Known(d)', objects'[b].events \subseteq objects'[d].events
                 PROVE  FALSE
        BY DEF RolledUp
    <2>1. IsBurst(d) /\ Known(d) /\ U \subseteq objects[d].events
        BY <1>3, <1>10
    <2>. QED BY <1>7, <1>9, <1>8, <2>1, KnownRollUp
<1>17. ObjectsUndrawn'
    <2>1. \A c \in CaseId : c >= nextCase' => c >= nextCase /\ c # b
        BY <1>1, <1>4, InHandTypes
    <2>2. ing.pc = "insertCase" => index[ing.key] \in CaseId \ {b}
        BY <1>1, InHandCase, InHandTypes DEF IngestInv, UuidsUnused
    <2>. QED BY <1>3, <1>4, <1>10, <2>1, <2>2 DEF FateInv, ObjectsUndrawn
<1>18. ObjectsApart'
    BY <1>3 DEF FateInv, ObjectsApart
<1>19. RollUpsApart'
    <2>1. ASSUME NEW d \in CaseId, NEW e \in CaseId, d # e, IsBurst(d)', IsBurst(e)'
          PROVE  cases'[d].events \cap cases'[e].events = {}
        BY <1>3, <1>8, <1>10, <2>1 DEF FateInv, RollUpsApart
    <2>2. ASSUME NEW d \in CaseId, NEW c \in CaseId, IsBurst(d)', Unmerged(c)'
          PROVE  cases'[d].events \cap objects'[c].events = {}
        <3>1. Unmerged(c) /\ c \notin S /\ c # b /\ objects'[c] = objects[c]
            BY <1>3, <1>12, <2>2
        <3>2. CASE d = b
            BY <1>3, <1>9, <3>1, <3>2, UnmergedIsOwed
        <3>3. CASE d # b
            BY <1>3, <1>10, <2>2, <3>1, <3>3 DEF FateInv, RollUpsApart
        <3>. QED BY <3>2, <3>3
    <2>. QED BY <2>1, <2>2 DEF RollUpsApart
<1>20. MergeUnderWay'
    BY <1>2, <1>3, <1>4, <1>10 DEF MergeUnderWay
<1>21. \A d \in CaseId : Announcing(d)' \/ d \in Held' => objects'[d].key # None
    BY <1>2, <1>3, <1>11 DEF FateInv
<1>22. RolledUpNotAlerted'
    BY <1>4, <1>5, <1>10, <1>15, <1>16 DEF FateInv, RolledUpNotAlerted
<1>23. NothingForgotten'
    BY <1>4, <1>10, <1>13, <1>14, <1>15 DEF FateInv, NothingForgotten
<1>24. FateInv'
    BY <1>10, <1>17, <1>18, <1>19, <1>20, <1>21, <1>22, <1>23 DEF FateInv
<1>25. \A d \in S : Fate(d)' = "absorbed"
    BY <1>2, <1>4, <1>5, <1>10, <1>14 DEF Fate
<1>26. Fate(b) = "unknown" /\ Fate(b)' = "rollup"
    BY <1>2, <1>3, <1>4, <1>10, <1>13, <1>16 DEF Fate
<1>27. \A d \in CaseId \ {b} : d \notin S => Fate(d)' = Fate(d)
    <2> SUFFICES ASSUME NEW d \in CaseId \ {b}, d \notin S PROVE Fate(d)' = Fate(d)
        OBVIOUS
    <2>1. CASE Known(d)
        BY <1>3, <1>4, <1>13, <1>15, <2>1, SameFate
    <2>2. CASE ~Known(d)
        BY <1>10, <2>2 DEF Fate
    <2>. QED BY <2>1, <2>2
<1>28. Delivery!RollUp(S, b)
    <2>1. \A d \in CaseId : Fate(d)' = IF d \in S THEN "absorbed" ELSE IF d = b THEN "rollup" ELSE Fate(d)
        BY <1>25, <1>26, <1>27
    <2>. QED BY <1>5, <1>6, <1>26, <2>1, SameCardinality DEF Delivery!RollUp
<1>29. DeliveryStep
    BY <1>28 DEF DeliveryStep, Delivery!Next
<1>. QED BY <1>24, <1>29

(* Every other step of the ingest leaves each case where it is. *)
LEMMA FatesStay ==
    ASSUME TypeInv, IngestInv, RowInv, FateInv,
           \/ UNCHANGED vars
           \/ \E k \in Key : Receive(k)
           \/ InsertEventNewKey \/ InsertEventKnownKey \/ InsertEventFails \/ InsertCaseFails
           \/ GetCase \/ GetCaseMisses \/ GetCaseFails \/ UpdateCase \/ UpdateCaseFails
           \/ \E c \in CaseId : AcquireSem(c) \/ PostCaseAlert(c)
           \/ \E c \in CaseId, s \in {"open", "closed"} : SetCaseStatus(c, s)
    PROVE  FateInv' /\ \A c \in CaseId : Fate(c)' = Fate(c)
<1>1. CASE UNCHANGED vars
    BY <1>1, FateFrame DEF vars, Exists, Announcing, FateInv, ObjectsUndrawn
<1>2. CASE \E k \in Key : Receive(k)
    BY <1>2, FateFrame DEF Receive, Waiting, Exists, Announcing
<1>3. CASE InsertEventNewKey
    <2>1. /\ UNCHANGED <<cases, objects, buffer, flush, alert>> /\ nextCase' = nextCase + 1
          /\ ing.pc = "insertEvent" /\ ing'.pc = "insertCase" /\ ing'.key = ing.key
          /\ index'[ing.key] = nextCase /\ nextCase \in CaseId
        BY <1>3 DEF InsertEventNewKey, TypeInv, TypeOK, InHandKey, Reader
    <2>2. ~Known(index'[ing'.key])
        BY <2>1, InHandTypes DEF FateInv, ObjectsUndrawn
    <2>3. \A c \in CaseId : /\ ~Announcing(c)' /\ ~Announcing(c)
                            /\ c >= nextCase' => c >= nextCase
        BY <2>1, InHandTypes DEF Announcing
    <2>. QED BY <2>1, <2>2, <2>3, FateFrame DEF Exists
<1>4. CASE InsertEventKnownKey
    <2>1. /\ UNCHANGED <<cases, objects, buffer, flush, alert, nextCase>>
          /\ ing.pc = "insertEvent" /\ ing'.pc = "getCase"
        BY <1>4 DEF InsertEventKnownKey, TypeInv, TypeOK, Reader
    <2>. QED BY <2>1, FateFrame DEF Exists, Announcing
<1>5. CASE InsertEventFails \/ InsertCaseFails \/ UpdateCaseFails
    <2>1. /\ UNCHANGED <<cases, objects, buffer, flush, alert, nextCase>>
          /\ ing.pc # "announce" /\ ing'.pc = "read"
        BY <1>5 DEF InsertEventFails, InsertCaseFails, UpdateCaseFails, Waiting
    <2>. QED BY <2>1, FateFrame DEF Exists, Announcing
<1>6. CASE GetCase
    <2>1. /\ UNCHANGED <<cases, objects, buffer, flush, alert, nextCase>>
          /\ ing.pc = "getCase" /\ ing'.pc = "updateCase"
        BY <1>6 DEF GetCase, TypeInv, TypeOK, Reader
    <2>. QED BY <2>1, FateFrame DEF Exists, Announcing
<1>7. CASE GetCaseMisses \/ GetCaseFails
    <2>1. /\ UNCHANGED <<cases, objects, buffer, flush, alert, nextCase>>
          /\ ing.pc = "getCase" /\ ing'.pc = "insertEvent"
        BY <1>7 DEF GetCaseMisses, GetCaseFails, Reingest, Waiting
    <2>. QED BY <2>1, FateFrame DEF Exists, Announcing
<1>8. CASE UpdateCase
    <2>1. /\ UNCHANGED <<objects, buffer, flush, alert, nextCase>>
          /\ ing.pc = "updateCase" /\ ing'.pc = "read"
        BY <1>8 DEF UpdateCase, Waiting
    <2>2. PICK c \in CaseId : c = index[ing.key]
        BY <2>1, InHandCase
    <2>3. ing.key \in Key /\ ing.key # None /\ CopyIsCurrent /\ ing.copy \in Row /\ c # 0
        BY <2>1, InHandCase, KeyAssumption, BoundAssumption DEF IngestInv, TypeInv, TypeOK, Reader, CaseId
    <2>4. Exists(c) => ~IsBurst(c)
        BY <2>2, <2>3 DEF RowInv, IndexLeadsHome, IsBurst
    <2>5. Exists(c) => /\ cases'[c].status # "absent"
                       /\ cases'[c].key = cases[c].key /\ cases'[c].sev = cases[c].sev
        <3>1. Exists(c) => cases'[c] = [ing.copy EXCEPT !.events = Grown, !.status = IF Capped THEN "closed" ELSE @]
            BY <1>8, <2>2 DEF UpdateCase, TypeInv, TypeOK
        <3>. QED BY <2>2, <2>3, <3>1 DEF CopyIsCurrent, Row
    <2>6. /\ \A d \in CaseId \ {c} : cases'[d] = cases[d]
          /\ ~Exists(c) => cases' = cases
        BY <1>8, <2>2 DEF UpdateCase, TypeInv, TypeOK
    <2>7. \A d \in CaseId : /\ Exists(d)' <=> Exists(d)
                            /\ Exists(d) => cases'[d].key = cases[d].key /\ cases'[d].sev = cases[d].sev
                            /\ IsBurst(d) => cases'[d].events = cases[d].events
        BY <2>4, <2>5, <2>6 DEF Exists, IsBurst
    <2>. QED BY <2>1, <2>7, FateFrame DEF Announcing
<1>9. ASSUME NEW c \in CaseId, AcquireSem(c) \/ PostCaseAlert(c)
      PROVE  FateInv' /\ \A d \in CaseId : Fate(d)' = Fate(d)
    <2>1. UNCHANGED <<cases, objects, index, ing, buffer, flush, nextCase>>
        BY <1>9 DEF AcquireSem, PostCaseAlert
    <2>2. \A d \in CaseId : alert'[d] = "none" <=> alert[d] = "none"
        BY <1>9 DEF AcquireSem, PostCaseAlert, TypeInv, TypeOK
    <2>. QED BY <2>1, <2>2, FateFrame DEF Exists, Announcing, FateInv, ObjectsUndrawn
<1>10. ASSUME NEW c \in CaseId, NEW s \in {"open", "closed"}, SetCaseStatus(c, s)
       PROVE  FateInv' /\ \A d \in CaseId : Fate(d)' = Fate(d)
    <2>1. UNCHANGED <<objects, index, ing, buffer, flush, alert, nextCase>>
        BY <1>10 DEF SetCaseStatus
    <2>2. \A d \in CaseId : /\ Exists(d)' <=> Exists(d)
                            /\ cases'[d].key = cases[d].key /\ cases'[d].sev = cases[d].sev
                            /\ cases'[d].events = cases[d].events
        BY <1>10 DEF SetCaseStatus, TypeInv, TypeOK, Row, Exists
    <2>. QED BY <2>1, <2>2, FateFrame DEF Announcing, FateInv, ObjectsUndrawn
<1>. QED BY <1>1, <1>2, <1>3, <1>4, <1>5, <1>6, <1>7, <1>8, <1>9, <1>10

LEMMA FateStep ==
    ASSUME TypeInv, IngestInv, RowInv, FateInv, [Next]_vars
    PROVE  FateInv' /\ DeliveryStep
<1>1. ASSUME FateInv' /\ \A c \in CaseId : Fate(c)' = Fate(c)
      PROVE  FateInv' /\ DeliveryStep
    BY <1>1 DEF DeliveryStep
<1>2. CASE Ingest
    BY <1>1, <1>2, CaseIsOpened, HighIsAlerted, CaseIsBuffered, FatesStay DEF Ingest
<1>3. CASE FlushBurst
    <2>1. ASSUME NEW c \in CaseId, DeleteStub(c) \/ DeleteStubFails(c)
          PROVE  FateInv' /\ DeliveryStep
        BY <1>1, <2>1, StubIsGone
    <2>. QED BY <1>1, <1>3, <2>1, BufferIsAlerted, BufferIsDrained, CasesAreRolledUp,
             BatchIsAlerted, RollUpIsArchived, RollUpIsAlerted DEF FlushBurst
<1>4. CASE Restart
    BY <1>4, FatesAreForgotten
<1>. QED BY <1>1, <1>2, <1>3, <1>4, FatesStay DEF Next

LEMMA FatesHold == Spec => [](TypeInv /\ IngestInv /\ RowInv /\ FateInv)
<1>1. Init => FateInv
    BY FateInit
<1>2. TypeInv /\ IngestInv /\ RowInv /\ FateInv /\ [Next]_vars => FateInv'
    BY FateStep
<1>. QED BY <1>1, <1>2, RowsHold, PTL DEF Spec

(* No case falls between the read loop, the buffer, the merge and the      *)
(* alert goroutines, whichever store calls fail.                           *)
THEOREM NoCaseIsForgotten == Spec => []NothingForgotten
<1>1. FateInv => NothingForgotten
    BY DEF FateInv
<1>. QED BY <1>1, FatesHold, PTL

(* A case that is in a roll-up is not alerted by itself, nor the reverse. *)
THEOREM NoCaseIsToldTwice == Spec => []RolledUpNotAlerted
<1>1. FateInv => RolledUpNotAlerted
    BY DEF FateInv
<1>. QED BY <1>1, FatesHold, PTL

(* Stubs share no event with each other, nor roll-ups, even those whose    *)
(* merge was cut short.                                                    *)
THEOREM EventsHaveOneHome == Spec => []EventHasOneHome
<1>1. RowInv /\ FateInv => EventHasOneHome
    BY DEF RowInv, StubsApart, IsStub, FateInv, RollUpsApart, IsBurst, EventHasOneHome
<1>. QED BY <1>1, FatesHold, PTL

(* The only rows that go are stubs of a merge whose roll-up is stored and  *)
(* lists the event they were opened for.                                   *)
THEOREM StubsGoIntoRollUps == Spec => DeletesFollowRollUp
<1> DEFINE Follows == \A c \in CaseId : Exists(c) /\ ~Exists(c)' => RolledUp(c)
<1>1. TypeInv /\ IngestInv /\ RowInv /\ FateInv /\ [Next]_vars => [Follows]_vars
    <2> SUFFICES ASSUME TypeInv, IngestInv, RowInv, FateInv, Next PROVE Follows
        OBVIOUS
    <2>1. CASE UNCHANGED cases
        BY <2>1 DEF Exists
    <2>2. CASE InsertCase
        <3>1. \A c \in CaseId : cases'[c] = cases[c] \/ cases'[c].status = "open"
            BY <2>2 DEF InsertCase, StubRow, TypeInv, TypeOK
        <3>. QED BY <3>1 DEF Exists
    <2>3. CASE UpdateCase
        <3>1. CopyIsCurrent /\ ing.copy \in Row
            BY <2>3 DEF UpdateCase, IngestInv, TypeInv, TypeOK, Reader
        <3>2. \A c \in CaseId : cases'[c] = cases[c] \/ cases'[c].status \in {"closed", ing.copy.status}
            BY <2>3, <3>1 DEF UpdateCase, TypeInv, TypeOK, Row
        <3>. QED BY <3>1, <3>2 DEF CopyIsCurrent, Exists
    <2>4. CASE MergeInsert
        <3>1. \A c \in CaseId : cases'[c] = cases[c] \/ cases'[c].status = "open"
            BY <2>4 DEF MergeInsert, BurstRow, TypeInv, TypeOK
        <3>. QED BY <3>1 DEF Exists
    <2>5. ASSUME NEW c \in CaseId, DeleteStub(c) PROVE Follows
        <3>1. PICK b \in CaseId : b = flush.burst
            BY <2>5 DEF DeleteStub, IngestInv, RollUpStored
        <3>2. b # c /\ objects[c].events \subseteq objects[b].events
            BY <2>5, <3>1 DEF DeleteStub, NextStub, FateInv, MergeUnderWay, IngestInv, RollUpStored, Held
        <3>3. IsBurst(b) /\ Known(b)
            BY <2>5, <3>1, StoredRollUp DEF DeleteStub
        <3>4. RolledUp(c)
            BY <3>2, <3>3 DEF RolledUp
        <3>5. \A d \in CaseId \ {c} : Exists(d)' <=> Exists(d)
            BY <2>5 DEF DeleteStub, TypeInv, TypeOK, Exists
        <3>. QED BY <3>4, <3>5
    <2>6. ASSUME NEW c \in CaseId, NEW s \in {"open", "closed"}, SetCaseStatus(c, s) PROVE Follows
        BY <2>6 DEF SetCaseStatus, TypeInv, TypeOK, Row, Exists
    <2>. QED
        BY <2>1, <2>2, <2>3, <2>4, <2>5, <2>6
        DEF Next, Ingest, FlushBurst, Receive, InsertEventNewKey, InsertEventKnownKey,
            InsertEventFails, InsertCaseFails, AnnounceHigh, AnnounceBuffered, GetCase,
            GetCaseMisses, GetCaseFails, Reingest, UpdateCaseFails, FlushIndividually,
            DrainForMerge, MergeInsertFails, DeleteStubFails, MergeSuppressed, MergeAlerted,
            AcquireSem, PostCaseAlert, Restart
<1>. QED BY <1>1, FatesHold, PTL DEF Spec, DeletesFollowRollUp

(* The ingest implements CaseDelivery: every store call is one step of the *)
(* promise or leaves each case where it is.                                *)
THEOREM IngestDelivers == Spec => DeliversCases
<1>1. Init => Delivery!Init
    BY DEF Init, Delivery!Init, Fate, Known
<1>2. TypeInv /\ IngestInv /\ RowInv /\ FateInv /\ [Next]_vars
          => [Delivery!Next]_[c \in CaseId |-> Fate(c)]
    BY FateStep DEF DeliveryStep
<1>. QED BY <1>1, <1>2, FatesHold, PTL DEF Spec, DeliversCases, Delivery!Spec
=============================================================================
