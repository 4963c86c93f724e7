---------------------------- MODULE SyslogIngest ----------------------------
(***************************************************************************)
(* The UDP syslog ingest of scantrace-agent (internal/syslog/syslog.go):   *)
(* the read loop that turns DROP lines into events and cases, the ticker   *)
(* goroutine that flushes the burst buffer, and the goroutines both of     *)
(* them start to post alerts.  The three share one SQLite file with the    *)
(* analyst's slash commands, and every store call is one statement of it:  *)
(* a step of this module is one store call and the local work after it.    *)
(*                                                                         *)
(* A case is named by a number, its uuid; a row of the events table by its *)
(* position in it.  PostCaseAlert is the package's Alerter interface: here *)
(* a goroutine calls it and it returns; what it does is another module's.  *)
(***************************************************************************)
EXTENDS Naturals, Sequences, FiniteSets

CONSTANTS
    Key,                  \* caseKey values: a /24 source subnet with a port
    HighKey, MediumKey,   \* the keys whose port is in highPorts, mediumPorts
    None,                 \* no key
    BurstThreshold,       \* cases in a flush that are merged, not alerted
    BurstMaxEvents,       \* events at which a case is closed
    MaxConcurrentAlerts,  \* capacity of alertSem
    MaxLines,             \* bound: DROP lines received
    MaxCases,             \* bound: case uuids drawn
    MaxFaults,            \* bound: store calls that return an error
    MaxCrashes,           \* bound: restarts of the agent
    MaxCommands           \* bound: cases closed or reopened by an analyst

ASSUME KeyAssumption ==
    /\ HighKey \subseteq Key
    /\ MediumKey \subseteq Key \ HighKey
    /\ None \notin Key

ASSUME BoundAssumption ==
    /\ BurstThreshold \in Nat \ {0}
    /\ BurstMaxEvents \in Nat \ {0, 1}
    /\ MaxConcurrentAlerts \in Nat \ {0}
    /\ MaxLines \in Nat /\ MaxCases \in Nat /\ MaxFaults \in Nat
    /\ MaxCrashes \in Nat /\ MaxCommands \in Nat

VARIABLES
    events,    \* the events table: the line and key each row was made from
    cases,     \* the cases table
    objects,   \* the db.Case values this process made, as it made them
    index,     \* caseIndex, 0 where a key has no entry
    buffer,    \* burstBuffer.items
    ing,       \* the read loop
    flush,     \* the ticker goroutine
    alert,     \* the goroutine that posts an alert for a case
    spawned,   \* how many such goroutines a case has been given
    lines,     \* DROP lines received
    nextCase,  \* the next uuid
    faults,    \* store calls that have failed
    crashes,   \* restarts so far
    commands   \* close and reopen commands so far

tables == <<events, cases>>
memory == <<objects, index, buffer>>
alerts == <<alert, spawned>>
counts == <<lines, nextCase, faults, crashes, commands>>
vars   == <<tables, memory, ing, flush, alerts, counts>>

CaseId  == 1..MaxCases
EventId == Nat \ {0}

Severity == {"none", "info", "low", "medium", "high"}
Row      == [status : {"absent", "open", "closed"}, key : Key \cup {None},
             sev : Severity, events : SUBSET EventId]
Object   == [key : Key \cup {None}, events : SUBSET EventId]
Reader   == [pc : {"read", "insertEvent", "insertCase", "announce", "getCase", "updateCase"},
             key : Key \cup {None}, event : Nat, copy : Row]
Flusher  == [pc : {"tick", "merge", "delete"}, batch : SUBSET CaseId,
             burst : 0..MaxCases, sev : Severity]
Phase    == {"none", "queued", "posting", "direct", "ended"}

NoRow    == [status |-> "absent", key |-> None, sev |-> "none", events |-> {}]
NoObject == [key |-> None, events |-> {}]
Waiting  == [pc |-> "read", key |-> None, event |-> 0, copy |-> NoRow]
Resting  == [pc |-> "tick", batch |-> {}, burst |-> 0, sev |-> "none"]

-----------------------------------------------------------------------------
(* Severities.  A port >= 32768 is discarded before any state changes.     *)

KnownKey == HighKey \cup MediumKey

ClassifySeverity(k) ==
    IF k \in HighKey THEN "high" ELSE IF k \in MediumKey THEN "medium" ELSE "low"

(* The highest severity among the objects of the cases S. *)
HighestSeverity(S) ==
    IF \E c \in S : ClassifySeverity(objects[c].key) = "high" THEN "high"
    ELSE IF \E c \in S : ClassifySeverity(objects[c].key) = "medium" THEN "medium"
    ELSE "low"

BurstSeverity(S) ==
    IF \E c \in S : objects[c].key \in KnownKey THEN HighestSeverity(S) ELSE "info"

-----------------------------------------------------------------------------
(* Rows *)

Exists(c)  == cases[c].status # "absent"
IsBurst(c) == Exists(c) /\ cases[c].key = None

StubRow(k, e) == [status |-> "open", key |-> k, sev |-> ClassifySeverity(k), events |-> {e}]

(* Merging takes the event ids of the db.Case values in the buffer, which  *)
(* are the values ingest inserted: appends went to later copies.           *)
BurstRow(S) == [status |-> "open", key |-> None, sev |-> BurstSeverity(S),
                events |-> UNION {objects[c].events : c \in S}]

(* Start a goroutine that alerts each case of S: "queued" on alertSem, or  *)
(* "direct" when the code says `go alerter.PostCaseAlert`.                 *)
Spawn(S, how) ==
    /\ alert' = [c \in CaseId |-> IF c \in S THEN how ELSE alert[c]]
    /\ spawned' = [c \in CaseId |-> IF c \in S THEN spawned[c] + 1 ELSE spawned[c]]

(* A store call returns an error: SQLITE_BUSY past busy_timeout, a full disk. *)
Fault == faults < MaxFaults /\ faults' = faults + 1

TypeOK ==
    /\ events \in Seq([line : Nat, key : Key])
    /\ cases \in [CaseId -> Row]
    /\ objects \in [CaseId -> Object]
    /\ index \in [Key -> 0..MaxCases]
    /\ buffer \in SUBSET CaseId
    /\ ing \in Reader
    /\ flush \in Flusher
    /\ alert \in [CaseId -> Phase]
    /\ spawned \in [CaseId -> Nat]
    /\ lines \in 0..MaxLines
    /\ nextCase \in 1..(MaxCases + 1)
    /\ faults \in 0..MaxFaults
    /\ crashes \in 0..MaxCrashes
    /\ commands \in 0..MaxCommands

Init ==
    /\ events = <<>>
    /\ cases = [c \in CaseId |-> NoRow]
    /\ objects = [c \in CaseId |-> NoObject]
    /\ index = [k \in Key |-> 0]
    /\ buffer = {}
    /\ ing = Waiting
    /\ flush = Resting
    /\ alert = [c \in CaseId |-> "none"]
    /\ spawned = [c \in CaseId |-> 0]
    /\ lines = 0 /\ nextCase = 1 /\ faults = 0 /\ crashes = 0 /\ commands = 0

-----------------------------------------------------------------------------
(* The read loop: Listen and ingest *)

(* A DROP line that parses and whose port is not ephemeral. *)
Receive(k) ==
    /\ ing.pc = "read"
    /\ lines < MaxLines
    /\ lines' = lines + 1
    /\ ing' = [Waiting EXCEPT !.pc = "insertEvent", !.key = k]
    /\ UNCHANGED <<tables, memory, flush, alerts, nextCase, faults, crashes, commands>>

StoreEvent == events' = Append(events, [line |-> lines, key |-> ing.key])

(* Mutant: the new case lists the row before its own. *)
InsertEventOffByOne ==
    /\ ing.pc = "insertEvent"
    /\ StoreEvent
    /\ index[ing.key] = 0
    /\ nextCase \in CaseId
    /\ index' = [index EXCEPT ![ing.key] = nextCase]
    /\ nextCase' = nextCase + 1
    /\ ing' = [ing EXCEPT !.pc = "insertCase", !.event = Len(events)]
    /\ UNCHANGED <<cases, objects, buffer, flush, alerts, lines, faults, crashes, commands>>

(* InsertEvent, then a key caseIndex does not hold: a uuid is drawn and    *)
(* indexed before its case is inserted.                                    *)
InsertEventNewKey ==
    /\ ing.pc = "insertEvent"
    /\ StoreEvent
    /\ index[ing.key] = 0
    /\ nextCase \in CaseId
    /\ index' = [index EXCEPT ![ing.key] = nextCase]
    /\ nextCase' = nextCase + 1
    /\ ing' = [ing EXCEPT !.pc = "insertCase", !.event = Len(events) + 1]
    /\ UNCHANGED <<cases, objects, buffer, flush, alerts, lines, faults, crashes, commands>>

(* InsertEvent, then a key caseIndex holds. *)
InsertEventKnownKey ==
    /\ ing.pc = "insertEvent"
    /\ StoreEvent
    /\ index[ing.key] # 0
    /\ ing' = [ing EXCEPT !.pc = "getCase", !.event = Len(events) + 1]
    /\ UNCHANGED <<cases, memory, flush, alerts, counts>>

(* InsertEvent fails and the line is lost. *)
InsertEventFails ==
    /\ ing.pc = "insertEvent"
    /\ Fault
    /\ ing' = Waiting
    /\ UNCHANGED <<tables, memory, flush, alerts, lines, nextCase, crashes, commands>>

InsertCase ==
    /\ ing.pc = "insertCase"
    /\ cases' = [cases EXCEPT ![index[ing.key]] = StubRow(ing.key, ing.event)]
    /\ objects' = [objects EXCEPT ![index[ing.key]] = [key |-> ing.key, events |-> {ing.event}]]
    /\ ing' = [ing EXCEPT !.pc = "announce"]
    /\ UNCHANGED <<events, index, buffer, flush, alerts, counts>>

(* Mutant: the error of InsertCase is not looked at. *)
InsertCaseErrorIgnored ==
    /\ ing.pc = "insertCase"
    /\ Fault
    /\ ing' = [ing EXCEPT !.pc = "announce"]
    /\ UNCHANGED <<tables, memory, flush, alerts, lines, nextCase, crashes, commands>>

(* InsertCase fails: caseIndex keeps the uuid of a case that has no row. *)
InsertCaseFails ==
    /\ ing.pc = "insertCase"
    /\ Fault
    /\ ing' = Waiting
    /\ UNCHANGED <<tables, memory, flush, alerts, lines, nextCase, crashes, commands>>

(* A high case is alerted at once, past alertSem. *)
AnnounceHigh ==
    /\ ing.pc = "announce"
    /\ ClassifySeverity(ing.key) = "high"
    /\ Spawn({index[ing.key]}, "direct")
    /\ ing' = Waiting
    /\ UNCHANGED <<tables, memory, flush, counts>>

(* Mutant: high cases may be buffered too. *)
AnnounceBufferedAny ==
    /\ ing.pc = "announce"
    /\ buffer' = buffer \cup {index[ing.key]}
    /\ ing' = Waiting
    /\ UNCHANGED <<tables, objects, index, flush, alerts, counts>>

(* Any other case waits in the burst buffer. *)
AnnounceBuffered ==
    /\ ing.pc = "announce"
    /\ ClassifySeverity(ing.key) # "high"
    /\ buffer' = buffer \cup {index[ing.key]}
    /\ ing' = Waiting
    /\ UNCHANGED <<tables, objects, index, flush, alerts, counts>>

(* Mutant: the copy is taken from the value in memory, not from the store. *)
GetCaseCached ==
    /\ ing.pc = "getCase"
    /\ Exists(index[ing.key])
    /\ ing' = [ing EXCEPT !.pc = "updateCase",
                          !.copy = [cases[index[ing.key]] EXCEPT !.events = objects[index[ing.key]].events]]
    /\ UNCHANGED <<tables, memory, flush, alerts, counts>>

(* GetCase copies the row out of the store. *)
GetCase ==
    /\ ing.pc = "getCase"
    /\ Exists(index[ing.key])
    /\ ing' = [ing EXCEPT !.pc = "updateCase", !.copy = cases[index[ing.key]]]
    /\ UNCHANGED <<tables, memory, flush, alerts, counts>>

(* GetCase finds no row, or fails: the entry is evicted and the same line  *)
(* is ingested again, from InsertEvent.                                    *)
Reingest ==
    /\ index' = [index EXCEPT ![ing.key] = 0]
    /\ ing' = [Waiting EXCEPT !.pc = "insertEvent", !.key = ing.key]
    /\ UNCHANGED <<tables, objects, buffer, flush, alerts, lines, nextCase, crashes, commands>>

GetCaseMisses ==
    /\ ing.pc = "getCase"
    /\ ~Exists(index[ing.key])
    /\ Reingest
    /\ UNCHANGED faults

GetCaseFails ==
    /\ ing.pc = "getCase"
    /\ Fault
    /\ Reingest

(* UpdateCase writes the whole copied row back, status included, and       *)
(* touches no row if the case is gone meanwhile.  A case that reaches      *)
(* burstMaxEvents is closed and evicted from caseIndex.                    *)
Grown  == ing.copy.events \cup {ing.event}

(* Mutant: the cap is passed, not reached. *)
CappedLate == Cardinality(Grown) > BurstMaxEvents

Capped == Cardinality(Grown) >= BurstMaxEvents

(* Mutant: the update waits for the row it is about. *)
UpdateCaseNeedsRow ==
    /\ ing.pc = "updateCase"
    /\ Exists(index[ing.key])
    /\ cases' = [cases EXCEPT ![index[ing.key]] =
                    [ing.copy EXCEPT !.events = Grown,
                                     !.status = IF Capped THEN "closed" ELSE @]]
    /\ index' = IF Capped THEN [index EXCEPT ![ing.key] = 0] ELSE index
    /\ ing' = Waiting
    /\ UNCHANGED <<events, objects, buffer, flush, alerts, counts>>

UpdateCase ==
    /\ ing.pc = "updateCase"
    /\ LET c == index[ing.key] IN
       cases' = IF Exists(c)
                THEN [cases EXCEPT ![c] = [ing.copy EXCEPT !.events = Grown,
                                           !.status = IF Capped THEN "closed" ELSE @]]
                ELSE cases
    /\ index' = IF Capped THEN [index EXCEPT ![ing.key] = 0] ELSE index
    /\ ing' = Waiting
    /\ UNCHANGED <<events, objects, buffer, flush, alerts, counts>>

(* UpdateCase fails: no eviction either, so the entry outlives the cap. *)
UpdateCaseFails ==
    /\ ing.pc = "updateCase"
    /\ Fault
    /\ ing' = Waiting
    /\ UNCHANGED <<tables, memory, flush, alerts, lines, nextCase, crashes, commands>>

-----------------------------------------------------------------------------
(* The ticker goroutine: flushBurst *)

(* Mutant: the buffer is read but not emptied. *)
FlushKeepsBuffer ==
    /\ flush.pc = "tick"
    /\ buffer # {}
    /\ Cardinality(buffer) < BurstThreshold
    /\ Spawn(buffer, "queued")
    /\ UNCHANGED <<tables, memory, ing, flush, counts>>

(* Fewer than burstThreshold cases are alerted one by one, through alertSem. *)
FlushIndividually ==
    /\ flush.pc = "tick"
    /\ buffer # {}
    /\ Cardinality(buffer) < BurstThreshold
    /\ Spawn(buffer, "queued")
    /\ buffer' = {}
    /\ UNCHANGED <<tables, objects, index, ing, flush, counts>>

(* Mutants: the buffer is not emptied; the stubs are deleted up front; one  *)
(* case too few is merged; one case too many is awaited.                   *)
DrainKeepsBuffer ==
    /\ flush.pc = "tick"
    /\ Cardinality(buffer) >= BurstThreshold
    /\ flush' = [Resting EXCEPT !.pc = "merge", !.batch = buffer]
    /\ UNCHANGED <<tables, memory, ing, alerts, counts>>
DrainDeletesStubs ==
    /\ flush.pc = "tick"
    /\ Cardinality(buffer) >= BurstThreshold
    /\ flush' = [Resting EXCEPT !.pc = "merge", !.batch = buffer]
    /\ buffer' = {}
    /\ cases' = [c \in CaseId |-> IF c \in buffer THEN NoRow ELSE cases[c]]
    /\ UNCHANGED <<events, objects, index, ing, alerts, counts>>
DrainTooFew ==
    /\ flush.pc = "tick"
    /\ buffer # {}
    /\ Cardinality(buffer) >= BurstThreshold - 1
    /\ flush' = [Resting EXCEPT !.pc = "merge", !.batch = buffer]
    /\ buffer' = {}
    /\ UNCHANGED <<tables, objects, index, ing, alerts, counts>>
DrainAboveThreshold ==
    /\ flush.pc = "tick"
    /\ Cardinality(buffer) > BurstThreshold
    /\ flush' = [Resting EXCEPT !.pc = "merge", !.batch = buffer]
    /\ buffer' = {}
    /\ UNCHANGED <<tables, objects, index, ing, alerts, counts>>

(* burstThreshold or more are drained to be merged. *)
DrainForMerge ==
    /\ flush.pc = "tick"
    /\ Cardinality(buffer) >= BurstThreshold
    /\ flush' = [Resting EXCEPT !.pc = "merge", !.batch = buffer]
    /\ buffer' = {}
    /\ UNCHANGED <<tables, objects, index, ing, alerts, counts>>

(* The ScanBurst case is inserted. *)
MergeInsert ==
    /\ flush.pc = "merge"
    /\ nextCase \in CaseId
    /\ cases' = [cases EXCEPT ![nextCase] = BurstRow(flush.batch)]
    /\ objects' = [objects EXCEPT ![nextCase] =
                      [key |-> None, events |-> BurstRow(flush.batch).events]]
    /\ flush' = [flush EXCEPT !.pc = "delete", !.burst = nextCase, !.sev = BurstSeverity(flush.batch)]
    /\ nextCase' = nextCase + 1
    /\ UNCHANGED <<events, index, buffer, ing, alerts, lines, faults, crashes, commands>>

(* Mutant: a failed merge is given up. *)
MergeInsertFailsSilently ==
    /\ flush.pc = "merge"
    /\ Fault
    /\ flush' = Resting
    /\ UNCHANGED <<tables, memory, ing, alerts, lines, nextCase, crashes, commands>>

(* It is not: every case of the batch is alerted, past alertSem. *)
MergeInsertFails ==
    /\ flush.pc = "merge"
    /\ Fault
    /\ Spawn(flush.batch, "direct")
    /\ flush' = Resting
    /\ UNCHANGED <<tables, memory, ing, lines, nextCase, crashes, commands>>

(* Stubs are deleted in the order they were buffered, that of their uuids. *)
NextStub(c) == c \in flush.batch /\ \A d \in flush.batch : c <= d

DeleteStub(c) ==
    /\ flush.pc = "delete"
    /\ NextStub(c)
    /\ cases' = [cases EXCEPT ![c] = NoRow]
    /\ flush' = [flush EXCEPT !.batch = @ \ {c}]
    /\ UNCHANGED <<events, memory, ing, alerts, counts>>

(* A stub that cannot be deleted is logged and left behind. *)
DeleteStubFails(c) ==
    /\ flush.pc = "delete"
    /\ NextStub(c)
    /\ Fault
    /\ flush' = [flush EXCEPT !.batch = @ \ {c}]
    /\ UNCHANGED <<tables, memory, ing, alerts, lines, nextCase, crashes, commands>>

(* An "info" burst stays out of Slack; any other is alerted once. *)
MergeSuppressed ==
    /\ flush.pc = "delete"
    /\ flush.batch = {}
    /\ flush.sev = "info"
    /\ flush' = Resting
    /\ UNCHANGED <<tables, memory, ing, alerts, counts>>

(* Mutant: every burst is alerted. *)
MergeAlertedAny ==
    /\ flush.pc = "delete"
    /\ flush.batch = {}
    /\ Spawn({flush.burst}, "queued")
    /\ flush' = Resting
    /\ UNCHANGED <<tables, memory, ing, counts>>

MergeAlerted ==
    /\ flush.pc = "delete"
    /\ flush.batch = {}
    /\ flush.sev # "info"
    /\ Spawn({flush.burst}, "queued")
    /\ flush' = Resting
    /\ UNCHANGED <<tables, memory, ing, counts>>

-----------------------------------------------------------------------------
(* The alert goroutines: postAlertWithSem and the calls that go past it *)

(* Mutant: the slot is not given back. *)
HoldersForEver == {c \in CaseId : alert[c] \in {"posting", "ended"}}

Holders == {c \in CaseId : alert[c] = "posting"}

AcquireSem(c) ==
    /\ alert[c] = "queued"
    /\ Cardinality(Holders) < MaxConcurrentAlerts
    /\ alert' = [alert EXCEPT ![c] = "posting"]
    /\ UNCHANGED <<tables, memory, ing, flush, spawned, counts>>

(* PostCaseAlert returns, posted or not; the deferred release follows. *)
PostCaseAlert(c) ==
    /\ alert[c] \in {"posting", "direct"}
    /\ alert' = [alert EXCEPT ![c] = "ended"]
    /\ UNCHANGED <<tables, memory, ing, flush, spawned, counts>>

-----------------------------------------------------------------------------
(* The environment *)

(* An analyst closes or reopens a case: SetCaseStatus writes that column   *)
(* alone, from the goroutine of the slash commands.                        *)
SetCaseStatus(c, s) ==
    /\ Exists(c)
    /\ cases[c].status # s
    /\ commands < MaxCommands
    /\ commands' = commands + 1
    /\ cases' = [cases EXCEPT ![c].status = s]
    /\ UNCHANGED <<events, memory, ing, flush, alerts, lines, nextCase, faults, crashes>>

(* The agent is killed and started again: only the tables survive. *)
Restart ==
    /\ crashes < MaxCrashes
    /\ crashes' = crashes + 1
    /\ objects' = [c \in CaseId |-> NoObject]
    /\ index' = [k \in Key |-> 0]
    /\ buffer' = {}
    /\ ing' = Waiting
    /\ flush' = Resting
    /\ alert' = [c \in CaseId |-> IF alert[c] = "none" THEN "none" ELSE "ended"]
    /\ UNCHANGED <<tables, spawned, lines, nextCase, faults, commands>>

-----------------------------------------------------------------------------
Ingest ==
    \/ InsertEventNewKey \/ InsertEventKnownKey \/ InsertEventFails
    \/ InsertCase \/ InsertCaseFails
    \/ AnnounceHigh \/ AnnounceBuffered
    \/ GetCase \/ GetCaseMisses \/ GetCaseFails
    \/ UpdateCase \/ UpdateCaseFails

FlushBurst ==
    \/ FlushIndividually \/ DrainForMerge
    \/ MergeInsert \/ MergeInsertFails
    \/ \E c \in CaseId : DeleteStub(c) \/ DeleteStubFails(c)
    \/ MergeSuppressed \/ MergeAlerted

Next ==
    \/ \E k \in Key : Receive(k)
    \/ Ingest
    \/ FlushBurst
    \/ \E c \in CaseId : AcquireSem(c) \/ PostCaseAlert(c)
    \/ \E c \in CaseId, s \in {"open", "closed"} : SetCaseStatus(c, s)
    \/ Restart

Spec == Init /\ [][Next]_vars

(* The goroutines run: the read loop finishes the line it took, the ticker *)
(* fires every burstWindow for ever, and PostCaseAlert returns.  Nobody    *)
(* owes the agent a line, a command, a fault or a crash.                   *)
Fairness ==
    /\ WF_vars(Ingest)
    /\ WF_vars(FlushBurst)
    /\ \A c \in CaseId : WF_vars(AcquireSem(c)) /\ WF_vars(PostCaseAlert(c))

FairSpec == Spec /\ Fairness

-----------------------------------------------------------------------------
(* What is checked *)

(* The case ingest has inserted and is about to announce. *)
Announcing(c) == ing.pc = "announce" /\ c = index[ing.key]

Merging(c) == flush.pc = "merge" /\ c \in flush.batch

Known(c) == objects[c] # NoObject

(* The roll-up whose stubs are being deleted is announced after them. *)
InHand(c) ==
    \/ Announcing(c) \/ c \in buffer \/ Merging(c)
    \/ flush.pc = "delete" /\ c = flush.burst

RolledUp(c) ==
    \E b \in CaseId \ {c} : IsBurst(b) /\ Known(b) /\ objects[c].events \subseteq objects[b].events

Archived(c) == IsBurst(c) /\ cases[c].sev = "info"

(* No case is dropped between the read loop, the buffer, the flush and the *)
(* alert goroutines: as long as the process lives, each case it opened is  *)
(* still in somebody's hands, has its alert, is part of a roll-up, or is   *)
(* an info roll-up kept off Slack on purpose.                              *)
NothingForgotten ==
    \A c \in CaseId : Known(c) => InHand(c) \/ alert[c] # "none" \/ RolledUp(c) \/ Archived(c)

(* The three paths to an alert (high at once, flushed alone, fallback of a *)
(* failed merge) never start two goroutines for one case.                  *)
AlertedOnce == \A c \in CaseId : spawned[c] <= 1

(* A case is not both part of a roll-up and alerted by itself. *)
RolledUpNotAlerted == \A c \in CaseId : Known(c) /\ RolledUp(c) => alert[c] = "none"

(* The case an alert names is in the store when the alert is started and   *)
(* stays there: neither a failed insert nor a merge leaves an alert about  *)
(* a case nobody can open.                                                 *)
AlertedCaseHasRow == \A c \in CaseId : alert[c] # "none" => Exists(c)

(* "HIGH severity cases bypass the burst buffer" (syslog.go:11): no high   *)
(* case waits in the buffer, in a merge, or behind alertSem.               *)
HighNeverWaits ==
    \A c \in CaseId : cases[c].sev = "high" =>
        c \notin buffer /\ c \notin flush.batch /\ alert[c] # "queued"

(* Background radiation is kept off Slack: an info case has no alert. *)
InfoStaysOutOfSlack == \A c \in CaseId : cases[c].sev = "info" => alert[c] = "none"

(* The max-events cap: whatever store calls fail or are interleaved, no    *)
(* stub outgrows burstMaxEvents and caseIndex never leads to a full one.   *)
BoundedGrowth ==
    /\ \A c \in CaseId : ~IsBurst(c) => Cardinality(cases[c].events) <= BurstMaxEvents
    /\ \A k \in Key : index[k] # 0 => Cardinality(cases[index[k]].events) < BurstMaxEvents

(* A stub only lists rows of the events table that were made from lines of *)
(* its own subnet and port, evictions and re-ingested lines included.      *)
EventsGrouped ==
    \A c \in CaseId : Exists(c) /\ ~IsBurst(c) =>
        \A e \in cases[c].events : e \in DOMAIN events /\ events[e].key = cases[c].key

(* An event is listed by one stub at most and by one roll-up at most, even *)
(* when stubs outlive their merge because a delete failed or never ran.    *)
EventHasOneHome ==
    \A c, d \in CaseId : c # d /\ Exists(c) /\ Exists(d) /\ (IsBurst(c) <=> IsBurst(d)) =>
        cases[c].events \cap cases[d].events = {}

(* A stub is deleted only when a stored roll-up already lists the event it   *)
(* was opened for: a crash at any point of a merge loses neither.          *)
DeletesFollowRollUp == [][\A c \in CaseId : Exists(c) /\ ~Exists(c)' => RolledUp(c)]_vars

(* UpdateCase writes the whole list back from a copy read earlier; still,  *)
(* a row that stays never loses an event it listed.                        *)
EventsNeverLeave ==
    [][\A c \in CaseId : Exists(c) /\ Exists(c)' => cases[c].events \subseteq cases'[c].events]_vars

(* A case that enters the buffer is alerted, rolled up, or forgotten in a  *)
(* restart: the 90 s hold ends.                                            *)
HeldCaseIsReleased ==
    \A c \in CaseId : c \in buffer ~> (alert[c] = "ended" \/ RolledUp(c) \/ ~Known(c))

(* An alert that waits for alertSem is posted: slots come back. *)
QueuedAlertIsPosted == \A c \in CaseId : alert[c] = "queued" ~> alert[c] = "ended"

(* The read loop comes back for the next line: ingest's call of itself     *)
(* ends, also when the flush deletes the case under it.                    *)
LineIsFinished == ing.pc # "read" ~> ing.pc = "read"

(* The ingest implements CaseDelivery. *)
Fate(c) ==
    CASE ~Known(c) -> "unknown"
      [] Known(c) /\ alert[c] # "none" -> "alerted"
      [] Known(c) /\ alert[c] = "none" /\ RolledUp(c) -> "absorbed"
      [] Known(c) /\ alert[c] = "none" /\ ~RolledUp(c) /\ InHand(c) ->
            IF objects[c].key = None THEN "rollup"
            ELSE IF ClassifySeverity(objects[c].key) = "high" THEN "urgent" ELSE "owed"
      [] OTHER -> "archived"

Delivery == INSTANCE CaseDelivery WITH
    Case <- CaseId, Threshold <- BurstThreshold, fate <- [c \in CaseId |-> Fate(c)]

DeliversCases == Delivery!Spec

-----------------------------------------------------------------------------
(* What the source says of itself, and the code does not do *)

(* "all event rows remain intact and are re-owned by the new ScanBurst     *)
(* case through its own RelatedEventIDs list. No orphaned events."         *)
(* (syslog.go:43): whatever a deleted stub listed, another case lists.     *)
NoOrphanedEvents ==
    [][\A c \in CaseId : Exists(c) /\ ~Exists(c)' =>
          \A e \in cases[c].events : \E d \in CaseId : e \in cases'[d].events]_vars

(* A case an analyst "marked as closed" (cmd_case_status.go:33) is opened  *)
(* again by nothing but /scantrace reopen.                                 *)
ClosedStaysClosed ==
    [][\A c \in CaseId : cases[c].status = "closed" /\ cases'[c].status = "open"
                            => SetCaseStatus(c, "open")]_vars
=============================================================================
