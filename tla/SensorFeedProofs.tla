-------------------------- MODULE SensorFeedProofs --------------------------
(***************************************************************************)
(* Proofs about SensorFeed, for any processes, ids, lines, failures and    *)
(* crashes: what a lost line can be blamed on.                             *)
(***************************************************************************)
EXTENDS SensorFeed, TLAPS

(* The row of an id is in, is on its way, or will never come. *)
Explained(i) == i \in sensors \cup abandoned \/ Registering(i)

(* An id that is in the file or in use was once about to get its row: the  *)
(* file is written, and a process goes on after a failed write, only on    *)
(* the way to the insert.                                                  *)
IdsAreExplained ==
    /\ stateFile # 0 => Explained(stateFile)
    /\ \A p \in Process : At(p, "up") => Explained(proc[p].id)

DrawnIds ==
    \A p \in Process : proc[p].pc # "down" => proc[p].id # 0

IInv == TypeOK /\ DrawnIds /\ IdsAreExplained

-----------------------------------------------------------------------------
LEMMA InitIInv == Init => IInv
<1> SUFFICES ASSUME Init PROVE IInv
  OBVIOUS
<1>1. \A p \in Process : proc[p] = Down
  BY DEF Init
<1>2. Down \in Proc /\ Down.pc = "down"
  BY BoundAssumption DEF Down, Proc
<1>3. TypeOK
  BY <1>2, BoundAssumption DEF Init, TypeOK, Id
<1>4. DrawnIds
  BY <1>1, <1>2 DEF DrawnIds
<1>5. IdsAreExplained
  BY <1>1, <1>2 DEF Init, IdsAreExplained, At
<1> QED
  BY <1>3, <1>4, <1>5 DEF IInv

(* Types and ids: the steps of one process. *)
LEMMA StartTypes ==
    ASSUME IInv, NEW p \in Process, ReadStateFile(p) \/ DrawId(p)
    PROVE  TypeOK' /\ DrawnIds'
<1> USE BoundAssumption DEF IInv, TypeOK
<1>1. PICK pc \in {"truncate", "up"}, id \in Id : proc' = [proc EXCEPT ![p] = [pc |-> pc, id |-> id]]
  BY DEF ReadStateFile, DrawId, Id
<1>2. [pc |-> pc, id |-> id] \in Proc
  BY DEF Proc, Id
<1>3. proc' \in [Process -> Proc]
  BY <1>1, <1>2
<1>4. DrawnIds'
  BY <1>1 DEF DrawnIds, Id
<1>5. /\ UNCHANGED <<stateFile, sensors, events, lost, lines, abandoned>>
      /\ drawn' \in 0..MaxIds /\ faults' \in Nat /\ crashes' \in Nat
  BY DEF ReadStateFile, DrawId, Fault, feed
<1> QED
  BY <1>3, <1>4, <1>5

LEMMA RegisterTypes ==
    ASSUME IInv, NEW p \in Process, RegisterAsusSensor(p)
    PROVE  TypeOK' /\ DrawnIds'
<1> USE BoundAssumption DEF IInv, TypeOK
<1>1. /\ proc[p].pc \in {"truncate", "write", "insert"}
      /\ \/ proc' = [proc EXCEPT ![p] = Down]
         \/ \E pc \in {"write", "insert", "up", "deaf"} : proc' = [proc EXCEPT ![p].pc = pc]
  BY DEF RegisterAsusSensor, TruncateStateFile, WriteStateFile, WriteFails, InsertSensor,
         InsertSensorFails, At, Goto
<1>2. proc[p].id \in Id
  BY <1>1 DEF DrawnIds, Proc, Id
<1>3. proc' \in [Process -> Proc]
  BY <1>1 DEF Proc, Down
<1>4. DrawnIds'
  BY <1>1 DEF DrawnIds, Proc, Down
<1>5. /\ stateFile' \in {0, proc[p].id, stateFile}
      /\ sensors' = sensors \/ sensors' = sensors \cup {proc[p].id}
      /\ abandoned' = abandoned \/ abandoned' = abandoned \cup {proc[p].id}
      /\ faults' \in {faults, faults + 1}
      /\ UNCHANGED <<events, lost, lines, drawn, crashes>>
  BY DEF RegisterAsusSensor, TruncateStateFile, WriteStateFile, WriteFails, InsertSensor,
         InsertSensorFails, Fault, feed
<1>6. stateFile' \in 0..MaxIds
  BY <1>2, <1>5 DEF Id
<1>7. sensors' \subseteq Id /\ abandoned' \subseteq Id
  BY <1>2, <1>5
<1> QED
  BY <1>3, <1>4, <1>5, <1>6, <1>7

LEMMA LineTypes ==
    ASSUME IInv, NEW p \in Process, StoreLine(p) \/ LoseLine(p)
    PROVE  TypeOK' /\ DrawnIds'
<1> USE DEF IInv, TypeOK
<1>1. /\ UNCHANGED <<stateFile, sensors, proc, drawn, abandoned>>
      /\ lines' \in Nat /\ faults' \in Nat /\ crashes' \in Nat
  BY DEF StoreLine, LoseLine, ReadsLine, Fault
<1>2. events' \in [Id -> Nat] /\ lost' \in [Process -> Nat]
  <2>1. CASE StoreLine(p)
    <3>1. proc[p].id \in Id
      BY <2>1 DEF StoreLine
    <3> QED
      BY <2>1, <3>1 DEF StoreLine
  <2>2. CASE LoseLine(p)
    BY <2>2 DEF LoseLine
  <2> QED
    BY <2>1, <2>2
<1>3. DrawnIds'
  BY <1>1 DEF DrawnIds
<1> QED
  BY <1>1, <1>2, <1>3

LEMMA StopTypes ==
    ASSUME IInv, NEW p \in Process, ListenFails(p) \/ EndOfInput(p) \/ Crash(p)
    PROVE  TypeOK' /\ DrawnIds'
<1> USE BoundAssumption DEF IInv, TypeOK
<1>1. /\ proc[p].pc # "down"
      /\ proc' = [proc EXCEPT ![p] = Down] \/ proc' = [proc EXCEPT ![p].pc = "deaf"]
  BY DEF ListenFails, EndOfInput, Crash, At, Goto
<1>2. proc[p].id \in Id
  BY <1>1 DEF DrawnIds, Proc, Id
<1>3. proc' \in [Process -> Proc]
  BY <1>1 DEF Proc, Down
<1>4. DrawnIds'
  BY <1>1 DEF DrawnIds, Proc, Down
<1>5. /\ UNCHANGED <<stateFile, sensors, events, lost, lines, drawn>>
      /\ abandoned' \subseteq Id /\ faults' \in Nat /\ crashes' \in Nat
  BY <1>2 DEF ListenFails, EndOfInput, Crash, Fault, feed
<1> QED
  BY <1>3, <1>4, <1>5

-----------------------------------------------------------------------------
(* An explanation stays one, whichever process moves: who leaves the       *)
(* insert has made the row or abandoned it.                                *)
LEMMA StaysExplained ==
    ASSUME IInv, NEW p \in Process,
           \/ ReadStateFile(p) \/ DrawId(p) \/ RegisterAsusSensor(p)
           \/ StoreLine(p) \/ LoseLine(p) \/ ListenFails(p) \/ EndOfInput(p) \/ Crash(p),
           NEW i, Explained(i)
    PROVE  Explained(i)'
<1> USE DEF IInv, TypeOK
<1>1. sensors \subseteq sensors' /\ abandoned \subseteq abandoned'
  BY DEF ReadStateFile, DrawId, RegisterAsusSensor, TruncateStateFile, WriteStateFile, WriteFails,
         InsertSensor, InsertSensorFails, StoreLine, LoseLine, ListenFails, EndOfInput, Crash
<1>2. CASE i \in sensors \cup abandoned
  BY <1>1, <1>2 DEF Explained
<1>3. CASE Registering(i)
  <2>1. PICK q \in Process : At(q, "insert") /\ proc[q].id = i
    BY <1>3 DEF Registering
  <2>2. CASE q # p
    <3>1. proc'[q] = proc[q]
      BY <2>2 DEF ReadStateFile, DrawId, RegisterAsusSensor, TruncateStateFile, WriteStateFile,
                  WriteFails, InsertSensor, InsertSensorFails, StoreLine, LoseLine, ListenFails,
                  EndOfInput, Crash, Goto
    <3> QED
      BY <2>1, <3>1 DEF Explained, Registering, At
  <2>3. CASE q = p
    <3>1. InsertSensor(p) \/ InsertSensorFails(p) \/ Crash(p)
      BY <2>1, <2>3 DEF ReadStateFile, DrawId, RegisterAsusSensor, TruncateStateFile,
                        WriteStateFile, WriteFails, StoreLine, LoseLine, ReadsLine, ListenFails,
                        EndOfInput, At
    <3>2. i \in sensors' \/ i \in abandoned'
      BY <2>1, <2>3, <3>1 DEF InsertSensor, InsertSensorFails, Crash, At
    <3> QED
      BY <3>2 DEF Explained
  <2> QED
    BY <2>2, <2>3
<1> QED
  BY <1>2, <1>3 DEF Explained

(* Who is up was up before, with the same id, or has just read the file or *)
(* inserted its row.                                                       *)
LEMMA Moves ==
    ASSUME IInv, NEW p \in Process,
           \/ ReadStateFile(p) \/ DrawId(p) \/ RegisterAsusSensor(p)
           \/ StoreLine(p) \/ LoseLine(p) \/ ListenFails(p) \/ EndOfInput(p) \/ Crash(p)
    PROVE  /\ \A q \in Process \ {p} : proc'[q] = proc[q]
           /\ \/ ReadStateFile(p) \/ InsertSensor(p)
              \/ proc'[p] = proc[p]
              \/ proc'[p].pc # "up"
<1> USE DEF IInv, TypeOK
<1>1. CASE ReadStateFile(p) \/ InsertSensor(p)
  BY <1>1 DEF ReadStateFile, InsertSensor, Goto
<1>2. CASE DrawId(p)
  BY <1>2 DEF DrawId
<1>3. CASE StoreLine(p) \/ LoseLine(p)
  BY <1>3 DEF StoreLine, LoseLine
<1>4. CASE TruncateStateFile(p) \/ WriteStateFile(p) \/ WriteFails(p) \/ ListenFails(p)
  <2>1. \E pc \in {"write", "insert", "deaf"} : proc' = [proc EXCEPT ![p].pc = pc]
    BY <1>4 DEF TruncateStateFile, WriteStateFile, WriteFails, ListenFails, Goto
  <2> QED
    BY <2>1 DEF Proc
<1>5. CASE InsertSensorFails(p)
  <2>1. proc' = [proc EXCEPT ![p] = Down] \/ proc' = [proc EXCEPT ![p].pc = "deaf"]
    BY <1>5 DEF InsertSensorFails
  <2> QED
    BY <2>1 DEF Proc, Down
<1>6. CASE EndOfInput(p) \/ Crash(p)
  BY <1>6 DEF EndOfInput, Crash, Down
<1> QED
  BY <1>1, <1>2, <1>3, <1>4, <1>5, <1>6 DEF RegisterAsusSensor

LEMMA StepExplained ==
    ASSUME IInv, NEW p \in Process,
           \/ ReadStateFile(p) \/ DrawId(p) \/ RegisterAsusSensor(p)
           \/ StoreLine(p) \/ LoseLine(p) \/ ListenFails(p) \/ EndOfInput(p) \/ Crash(p)
    PROVE  IdsAreExplained'
<1> USE DEF IInv, TypeOK
<1>1. ASSUME stateFile' # 0 PROVE Explained(stateFile)'
  <2>1. CASE WriteStateFile(p)
    <3>1. stateFile' = proc'[p].id /\ proc'[p].pc = "insert"
      BY <2>1 DEF WriteStateFile, Goto
    <3> QED
      BY <3>1 DEF Explained, Registering, At
  <2>2. CASE ~ WriteStateFile(p)
    <3>1. stateFile' = stateFile
      BY <1>1, <2>2
      DEF ReadStateFile, DrawId, RegisterAsusSensor, TruncateStateFile, WriteFails, InsertSensor,
          InsertSensorFails, StoreLine, LoseLine, ListenFails, EndOfInput, Crash
    <3>2. Explained(stateFile)
      BY <1>1, <3>1 DEF IdsAreExplained
    <3>3. \A i : Explained(i) => Explained(i)'
      BY StaysExplained
    <3> QED
      BY <3>1, <3>2, <3>3 DEF Explained, Registering, At
  <2> QED
    BY <2>1, <2>2
<1>2. ASSUME NEW q \in Process, At(q, "up")' PROVE Explained(proc[q].id)'
  <2>1. CASE proc'[q] = proc[q]
    <3>1. Explained(proc[q].id)
      BY <1>2, <2>1 DEF IdsAreExplained, At
    <3>2. \A i : Explained(i) => Explained(i)'
      BY StaysExplained
    <3> QED
      BY <2>1, <3>1, <3>2 DEF Explained, Registering, At
  <2>2. CASE proc'[q] # proc[q]
    <3>1. q = p /\ (ReadStateFile(p) \/ InsertSensor(p))
      BY <1>2, <2>2, Moves DEF At
    <3>2. CASE InsertSensor(p)
      <4>1. proc'[q].id = proc[q].id /\ proc[q].id \in sensors'
        BY <3>1, <3>2 DEF InsertSensor, Goto
      <4> QED
        BY <4>1 DEF Explained
    <3>3. CASE ReadStateFile(p)
      <4>1. proc'[q].id = stateFile /\ stateFile # 0
        BY <3>1, <3>3 DEF ReadStateFile
      <4>2. Explained(stateFile)
        BY <4>1 DEF IdsAreExplained
      <4>3. \A i : Explained(i) => Explained(i)'
        BY StaysExplained
      <4> QED
        BY <4>1, <4>2, <4>3 DEF Explained, Registering, At
    <3> QED
      BY <3>1, <3>2, <3>3
  <2> QED
    BY <2>1, <2>2
<1> QED
  BY <1>1, <1>2 DEF IdsAreExplained

LEMMA StepIInv == IInv /\ [Next]_vars => IInv'
<1> SUFFICES ASSUME IInv, [Next]_vars PROVE IInv'
  OBVIOUS
<1>1. CASE UNCHANGED vars
  BY <1>1 DEF IInv, TypeOK, DrawnIds, IdsAreExplained, Explained, Registering, At, vars, feed
<1>2. ASSUME NEW p \in Process,
             \/ ReadStateFile(p) \/ DrawId(p) \/ RegisterAsusSensor(p)
             \/ StoreLine(p) \/ LoseLine(p) \/ ListenFails(p) \/ EndOfInput(p) \/ Crash(p)
      PROVE  IInv'
  BY <1>2, StartTypes, RegisterTypes, LineTypes, StopTypes, StepExplained DEF IInv
<1> QED
  BY <1>1, <1>2 DEF Next

(* A line is lost by the step LoseLine of its process only. *)
LEMMA LossStep ==
    ASSUME IInv, [Next]_vars, NEW p \in Process, lost'[p] > lost[p], faults' = faults
    PROVE  proc[p].id \in abandoned \/ Registering(proc[p].id)
<1> USE DEF IInv, TypeOK
<1>1. PICK q \in Process : LoseLine(q)
  BY DEF Next, vars, feed, ReadStateFile, DrawId, RegisterAsusSensor, TruncateStateFile,
         WriteStateFile, WriteFails, InsertSensor, InsertSensorFails, StoreLine, ListenFails,
         EndOfInput, Crash
<1>2. q = p
  BY <1>1 DEF LoseLine
<1>3. At(p, "up") /\ proc[p].id \notin sensors
  BY <1>1, <1>2 DEF LoseLine, ReadsLine, Fault
<1>4. Explained(proc[p].id)
  BY <1>3 DEF IdsAreExplained
<1> QED
  BY <1>3, <1>4 DEF Explained

-----------------------------------------------------------------------------
(* The variables of the registration keep their types. *)
THEOREM RegistrationTypes == Spec => []TypeOK
<1>1. IInv => TypeOK
  BY DEF IInv
<1> QED
  BY InitIInv, StepIInv, <1>1, PTL DEF Spec

(* However starts, failures and kills of any number of processes           *)
(* interleave, a line that no call failed for is lost only to an id whose  *)
(* row is on its way or was abandoned (asus_syslog.go:144-166).            *)
THEOREM LossIsExplainedAlways == Spec => LossIsExplained
<1>1. IInv /\ [Next]_vars =>
        [\A p \in Process :
            lost'[p] > lost[p] /\ faults' = faults =>
                proc[p].id \in abandoned \/ Registering(proc[p].id)]_vars
  BY LossStep
<1> QED
  BY InitIInv, StepIInv, <1>1, PTL DEF Spec, LossIsExplained
=============================================================================
