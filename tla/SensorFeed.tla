----------------------------- MODULE SensorFeed -----------------------------
(***************************************************************************)
(* How a scantrace process gets the sensor id its router events are stored *)
(* under (RegisterAsusSensor in internal/collector/asus_syslog.go), and    *)
(* what becomes of the lines it then reads: `serve' listens on UDP         *)
(* (internal/collector/syslog_server.go), `ingest asus' reads a file or    *)
(* standard input (internal/collector/collector.go).                       *)
(*                                                                         *)
(* The id is kept twice: in a state file, which a start trusts, and as a   *)
(* row of the sensors table, which the foreign key of every event needs    *)
(* (internal/db/schema.go).  Processes share both.  A step is one file     *)
(* operation or one statement; os.WriteFile is two, it truncates and       *)
(* writes.                                                                 *)
(***************************************************************************)
EXTENDS Naturals, FiniteSets

CONSTANTS
    Server,     \* processes that run serve
    Importer,   \* processes that run ingest asus
    MaxIds,     \* bound: ids drawn
    MaxLines,   \* bound: lines with an event in them
    MaxFaults,  \* bound: file and store calls that fail
    MaxCrashes  \* bound: processes killed

ASSUME ProcessAssumption == Server \cap Importer = {}

ASSUME BoundAssumption ==
    MaxIds \in Nat /\ MaxLines \in Nat /\ MaxFaults \in Nat /\ MaxCrashes \in Nat

VARIABLES
    stateFile,  \* the id in the state file; 0: no file, or an empty one
    sensors,    \* the ids with a row in the sensors table
    events,     \* how many events are stored under an id
    lost,       \* how many lines with an event a process could not store
    lines,      \* how many lines have been read
    proc,       \* where each process is, and its sensor id
    drawn,      \* how many ids have been drawn
    abandoned,  \* history: ids whose registration ended before the row
    faults, crashes

vars == <<stateFile, sensors, events, lost, lines, proc, drawn, abandoned, faults, crashes>>

feed == <<events, lost, lines>>

Process == Server \cup Importer
Id      == 1..MaxIds
Proc    == [pc : {"down", "truncate", "write", "insert", "up", "deaf"}, id : 0..MaxIds]
Down    == [pc |-> "down", id |-> 0]

TypeOK ==
    /\ stateFile \in 0..MaxIds
    /\ sensors \subseteq Id
    /\ events \in [Id -> Nat]
    /\ lost \in [Process -> Nat]
    /\ lines \in Nat
    /\ proc \in [Process -> Proc]
    /\ drawn \in 0..MaxIds
    /\ abandoned \subseteq Id
    /\ faults \in Nat /\ crashes \in Nat

Init ==
    /\ stateFile = 0
    /\ sensors = {}
    /\ events = [i \in Id |-> 0]
    /\ lost = [p \in Process |-> 0]
    /\ lines = 0
    /\ proc = [p \in Process |-> Down]
    /\ drawn = 0
    /\ abandoned = {}
    /\ faults = 0 /\ crashes = 0

-----------------------------------------------------------------------------
At(p, pc)   == proc[p].pc = pc
Goto(p, pc) == proc' = [proc EXCEPT ![p].pc = pc]
Fault       == faults < MaxFaults /\ faults' = faults + 1 /\ UNCHANGED crashes

(* RegisterAsusSensor.  An id in the file is returned as it is. *)
ReadStateFile(p) ==
    /\ At(p, "down")
    /\ stateFile # 0
    /\ proc' = [proc EXCEPT ![p] = [pc |-> "up", id |-> stateFile]]
    /\ UNCHANGED <<stateFile, sensors, feed, drawn, abandoned, faults, crashes>>

(* There is no id in the file, or the file cannot be read. *)
DrawId(p) ==
    /\ At(p, "down")
    /\ \/ stateFile = 0 /\ UNCHANGED <<faults, crashes>>
       \/ stateFile # 0 /\ Fault
    /\ drawn < MaxIds
    /\ drawn' = drawn + 1
    /\ proc' = [proc EXCEPT ![p] = [pc |-> "truncate", id |-> drawn + 1]]
    /\ UNCHANGED <<stateFile, sensors, feed, abandoned>>

TruncateStateFile(p) ==
    /\ At(p, "truncate")
    /\ stateFile' = 0
    /\ Goto(p, "write")
    /\ UNCHANGED <<sensors, feed, drawn, abandoned, faults, crashes>>

WriteStateFile(p) ==
    /\ At(p, "write")
    /\ stateFile' = proc[p].id
    /\ Goto(p, "insert")
    /\ UNCHANGED <<sensors, feed, drawn, abandoned, faults, crashes>>

(* A bug: a start whose file cannot be written goes on without its row. *)
WriteFailsSkipsRow(p) ==
    /\ proc[p].pc \in {"truncate", "write"}
    /\ Fault
    /\ Goto(p, "up")
    /\ UNCHANGED <<stateFile, sensors, feed, drawn, abandoned>>

(* "Non-fatal": the id is used all the same. *)
WriteFails(p) ==
    /\ proc[p].pc \in {"truncate", "write"}
    /\ Fault
    /\ Goto(p, "insert")
    /\ UNCHANGED <<stateFile, sensors, feed, drawn, abandoned>>

(* A bug: the process goes on when the row is not in. *)
InsertSensorForgotten(p) ==
    /\ At(p, "insert")
    /\ Goto(p, "up")
    /\ UNCHANGED <<stateFile, sensors, feed, drawn, abandoned, faults, crashes>>

InsertSensor(p) ==
    /\ At(p, "insert")
    /\ sensors' = sensors \cup {proc[p].id}
    /\ Goto(p, "up")
    /\ UNCHANGED <<stateFile, feed, drawn, abandoned, faults, crashes>>

(* serve goes on without a listener; ingest stops. *)
InsertSensorFails(p) ==
    /\ At(p, "insert")
    /\ Fault
    /\ abandoned' = abandoned \cup {proc[p].id}
    /\ proc' = [proc EXCEPT ![p] = IF p \in Server THEN [@ EXCEPT !.pc = "deaf"] ELSE Down]
    /\ UNCHANGED <<stateFile, sensors, feed, drawn>>

RegisterAsusSensor(p) ==
    \/ TruncateStateFile(p) \/ WriteStateFile(p) \/ WriteFails(p)
    \/ InsertSensor(p) \/ InsertSensorFails(p)

-----------------------------------------------------------------------------
(* A line that parses to an event is stored under the process's id, which  *)
(* the foreign key wants among the sensors; an event that cannot be stored *)
(* is logged and gone.  Other lines are skipped.                           *)
ReadsLine(p) == At(p, "up") /\ lines < MaxLines /\ lines' = lines + 1

StoreLine(p) ==
    /\ ReadsLine(p)
    /\ proc[p].id \in sensors
    /\ events' = [events EXCEPT ![proc[p].id] = @ + 1]
    /\ UNCHANGED <<stateFile, sensors, lost, proc, drawn, abandoned, faults, crashes>>

LoseLine(p) ==
    /\ ReadsLine(p)
    /\ \/ proc[p].id \notin sensors /\ UNCHANGED <<faults, crashes>>
       \/ Fault
    /\ lost' = [lost EXCEPT ![p] = @ + 1]
    /\ UNCHANGED <<stateFile, sensors, events, proc, drawn, abandoned>>

(* The socket cannot be bound: serve lives on without its listener. *)
ListenFails(p) ==
    /\ p \in Server
    /\ At(p, "up")
    /\ Fault
    /\ Goto(p, "deaf")
    /\ UNCHANGED <<stateFile, sensors, feed, drawn, abandoned>>

(* The file or standard input ends. *)
EndOfInput(p) ==
    /\ p \in Importer
    /\ At(p, "up")
    /\ proc' = [proc EXCEPT ![p] = Down]
    /\ UNCHANGED <<stateFile, sensors, feed, drawn, abandoned, faults, crashes>>

Crash(p) ==
    /\ ~ At(p, "down")
    /\ crashes < MaxCrashes
    /\ crashes' = crashes + 1
    /\ abandoned' = IF At(p, "insert") THEN abandoned \cup {proc[p].id} ELSE abandoned
    /\ proc' = [proc EXCEPT ![p] = Down]
    /\ UNCHANGED <<stateFile, sensors, feed, drawn, faults>>

Next ==
    \E p \in Process :
        \/ ReadStateFile(p) \/ DrawId(p) \/ RegisterAsusSensor(p)
        \/ StoreLine(p) \/ LoseLine(p)
        \/ ListenFails(p) \/ EndOfInput(p) \/ Crash(p)

Spec == Init /\ [][Next]_vars

(* File operations and statements return; nothing else is promised. *)
FairSpec == Spec /\ \A p \in Process : WF_vars(RegisterAsusSensor(p))

-----------------------------------------------------------------------------
(* Properties *)

Registering(i) == \E q \in Process : At(q, "insert") /\ proc[q].id = i

(* RegisterAsusSensor trusts an id it finds in the file, row or no row     *)
(* (asus_syslog.go:144-149).  So besides a store error, a line is lost     *)
(* (syslog_server.go:181-185, collector.go:65-67) only by a process that   *)
(* read its id behind the back of a start that had written the file and    *)
(* had yet to insert the row, or never did.                                *)
LossIsExplained ==
    [][\A p \in Process :
          lost'[p] > lost[p] /\ faults' = faults =>
              proc[p].id \in abandoned \/ Registering(proc[p].id)]_vars

(* The gap between file and row closes: an id in use has its row at last,  *)
(* or the start that drew it ended before the row.                         *)
GapCloses ==
    \A i \in Id :
        (\E p \in Process : At(p, "up") /\ proc[p].id = i) ~> i \in sensors \cup abandoned
=============================================================================
