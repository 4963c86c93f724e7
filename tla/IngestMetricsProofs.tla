------------------------ MODULE IngestMetricsProofs ------------------------
(***************************************************************************)
(* Proofs about IngestMetrics, for any number of datagrams and of failed   *)
(* posts: the figures in the channel add up, whatever the read loop does   *)
(* between the three loads of a snapshot.                                  *)
(***************************************************************************)
EXTENDS IngestMetrics, TLAPS

(* The datagram the read loop has in hand is received and not yet in a     *)
(* class; there is no other such datagram.                                 *)
OneInHand ==
    metric["received"] = metric["parsed"] + metric["skipped"]
                            + (IF reader = "counted" THEN 1 ELSE 0)

(* The counters the snapshot at hand has already loaded. *)
Loaded(k) ==
    \/ poster = "post"
    \/ poster = "skipped" /\ k # "skipped"
    \/ poster = "parsed" /\ k = "received"

(* Counters only grow: what was posted, what is loaded and what there is.  *)
InOrder ==
    \A k \in Counter :
        /\ last[k] <= metric[k]
        /\ Loaded(k) => last[k] <= cur[k] /\ cur[k] <= metric[k]

(* NoLineMissing, for a snapshot that is not complete yet. *)
NoLineMissingSoFar ==
    /\ poster = "parsed" => cur["received"] <= metric["parsed"] + metric["skipped"] + 1
    /\ poster = "skipped" => cur["received"] <= cur["parsed"] + metric["skipped"] + 1

NothingReported == ~hasLast => \A k \in Counter : reported[k] = 0 /\ twice[k] = 0

IInv ==
    /\ TypeOK
    /\ OneInHand
    /\ InOrder
    /\ NoLineMissingSoFar
    /\ NothingReported
    /\ FiguresAddUp

-----------------------------------------------------------------------------
LEMMA InitIInv == Init => IInv
<1> SUFFICES ASSUME Init PROVE IInv
  OBVIOUS
<1> USE DEF Counter
<1>1. /\ \A k \in Counter : metric[k] = 0 /\ cur[k] = 0 /\ last[k] = 0 /\ base[k] = 0
                             /\ reported[k] = 0 /\ twice[k] = 0
      /\ reader = "read" /\ poster \in {"wait", "done"} /\ ~hasLast
  BY DEF Init, Zero
<1>2. TypeOK
  <2>1. Zero \in Totals
    BY DEF Zero, Totals
  <2>2. poster \in {"wait", "done"} /\ disabled \in BOOLEAN
    BY DEF Init
  <2> QED
    BY <2>1, <2>2 DEF Init, TypeOK
<1>3. OneInHand /\ InOrder /\ NoLineMissingSoFar /\ NothingReported
  BY <1>1 DEF OneInHand, InOrder, Loaded, NoLineMissingSoFar, NothingReported
<1>4. FiguresAddUp
  BY <1>1 DEF FiguresAddUp, NoLineMissing, DeltasAddUp
<1> QED
  BY <1>2, <1>3, <1>4 DEF IInv

(* The read loop moves the counters up and nothing else. *)
LEMMA ReceiveIInv == IInv /\ Receive => IInv'
<1> SUFFICES ASSUME IInv, Receive PROVE IInv'
  OBVIOUS
<1> USE BoundAssumption DEF IInv, TypeOK, Totals, Counter
<1>1. /\ metric' = [metric EXCEPT !["received"] = metric["received"] + 1]
      /\ reader = "read" /\ reader' = "counted"
      /\ UNCHANGED <<disabled, poster, cur, last, hasLast, base, reported, twice, main, faults>>
  BY DEF Receive, manager
<1>2. TypeOK'
  BY <1>1
<1>3. OneInHand'
  BY <1>1 DEF OneInHand
<1>4. InOrder'
  BY <1>1 DEF InOrder, Loaded
<1>5. NoLineMissingSoFar' /\ NothingReported' /\ FiguresAddUp'
  BY <1>1 DEF NoLineMissingSoFar, NothingReported, FiguresAddUp, NoLineMissing, DeltasAddUp
<1> QED
  BY <1>2, <1>3, <1>4, <1>5

LEMMA ClassifyIInv == \A k \in {"parsed", "skipped"} : IInv /\ Classify(k) => IInv'
<1> SUFFICES ASSUME NEW k \in {"parsed", "skipped"}, IInv, Classify(k) PROVE IInv'
  OBVIOUS
<1> USE BoundAssumption DEF IInv, TypeOK, Totals, Counter
<1>1. /\ metric' = [metric EXCEPT ![k] = metric[k] + 1]
      /\ reader = "counted" /\ reader' = "read"
      /\ UNCHANGED <<disabled, poster, cur, last, hasLast, base, reported, twice, main, faults>>
  BY DEF Classify, manager
<1>2. TypeOK'
  BY <1>1
<1>3. OneInHand'
  BY <1>1 DEF OneInHand
<1>4. InOrder'
  BY <1>1 DEF InOrder, Loaded
<1>5. NoLineMissingSoFar' /\ NothingReported' /\ FiguresAddUp'
  BY <1>1 DEF NoLineMissingSoFar, NothingReported, FiguresAddUp, NoLineMissing, DeltasAddUp
<1> QED
  BY <1>2, <1>3, <1>4, <1>5

(* A load copies one counter; the order of the loads is what keeps         *)
(* NoLineMissing.                                                          *)
LEMMA SnapshotIInv == IInv /\ Snapshot => IInv'
<1> SUFFICES ASSUME IInv, Snapshot PROVE IInv'
  OBVIOUS
<1> USE DEF IInv, TypeOK, Totals, Counter
<1>0. UNCHANGED <<metric, reader, disabled, last, hasLast, base, reported, twice, main, faults>>
  BY DEF Snapshot, Load, counting, manager
<1>1. CASE Load("received", "wait", "parsed")
  <2>1. /\ cur' = [cur EXCEPT !["received"] = metric["received"]]
        /\ poster' = "parsed"
    BY <1>1 DEF Load
  <2>2. TypeOK' /\ OneInHand' /\ NothingReported' /\ FiguresAddUp'
    BY <1>0, <2>1 DEF OneInHand, NothingReported, FiguresAddUp, NoLineMissing, DeltasAddUp
  <2>3. InOrder'
    BY <1>0, <2>1 DEF InOrder, Loaded
  <2>4. NoLineMissingSoFar'
    BY <1>0, <2>1 DEF OneInHand, NoLineMissingSoFar
  <2> QED
    BY <2>2, <2>3, <2>4
<1>2. CASE Load("parsed", "parsed", "skipped")
  <2>1. /\ cur' = [cur EXCEPT !["parsed"] = metric["parsed"]]
        /\ poster = "parsed" /\ poster' = "skipped"
    BY <1>2 DEF Load
  <2>2. TypeOK' /\ OneInHand' /\ NothingReported' /\ FiguresAddUp'
    BY <1>0, <2>1 DEF OneInHand, NothingReported, FiguresAddUp, NoLineMissing, DeltasAddUp
  <2>3. InOrder'
    BY <1>0, <2>1 DEF InOrder, Loaded
  <2>4. NoLineMissingSoFar'
    BY <1>0, <2>1 DEF NoLineMissingSoFar
  <2> QED
    BY <2>2, <2>3, <2>4
<1>3. CASE Load("skipped", "skipped", "post")
  <2>1. /\ cur' = [cur EXCEPT !["skipped"] = metric["skipped"]]
        /\ poster = "skipped" /\ poster' = "post"
    BY <1>3 DEF Load
  <2>2. TypeOK' /\ OneInHand' /\ NothingReported' /\ NoLineMissingSoFar' /\ DeltasAddUp'
    BY <1>0, <2>1
    DEF OneInHand, NothingReported, NoLineMissingSoFar, FiguresAddUp, DeltasAddUp
  <2>3. InOrder'
    BY <1>0, <2>1 DEF InOrder, Loaded
  <2>4. NoLineMissing'
    BY <1>0, <2>1 DEF NoLineMissingSoFar, NoLineMissing
  <2> QED
    BY <2>2, <2>3, <2>4 DEF FiguresAddUp
<1> QED
  BY <1>1, <1>2, <1>3 DEF Snapshot

(* The clamp of deltaClamp is never needed: nothing it compares shrinks.   *)
LEMMA PostOnceIInv == IInv /\ PostOnce => IInv'
<1> SUFFICES ASSUME IInv, PostOnce PROVE IInv'
  OBVIOUS
<1> USE DEF IInv, TypeOK, Totals, Counter
<1>1. /\ poster = "post" /\ poster' = "wait"
      /\ last' = cur /\ hasLast' = TRUE
      /\ UNCHANGED <<metric, reader, disabled, cur, twice, main, faults>>
  BY DEF PostOnce, Remember, counting
<1>2. \A k \in Counter : DeltaClamp(k) \in Nat /\ last[k] + DeltaClamp(k) = cur[k]
  BY <1>1 DEF DeltaClamp, InOrder, Loaded
<1>3. base' \in Totals /\ reported' \in Totals /\ DeltasAddUp'
  <2>1. CASE hasLast
    <3>1. base' = base /\ reported' = [k \in Counter |-> reported[k] + DeltaClamp(k)]
      BY <2>1 DEF PostOnce, AddDeltas
    <3>2. \A k \in Counter : base[k] + reported[k] = last[k] + twice[k]
      BY <2>1 DEF FiguresAddUp, DeltasAddUp
    <3> QED
      BY <1>1, <1>2, <3>1, <3>2 DEF DeltasAddUp
  <2>2. CASE ~hasLast
    <3>1. base' = cur /\ reported' = [k \in Counter |-> reported[k] + 0]
      BY <2>2 DEF PostOnce, AddDeltas
    <3> QED
      BY <1>1, <2>2, <3>1 DEF NothingReported, DeltasAddUp
  <2> QED
    BY <2>1, <2>2
<1>4. TypeOK'
  BY <1>1, <1>3
<1>5. OneInHand' /\ NoLineMissingSoFar' /\ NothingReported' /\ NoLineMissing'
  BY <1>1 DEF OneInHand, NoLineMissingSoFar, NothingReported, NoLineMissing
<1>6. InOrder'
  BY <1>1 DEF InOrder, Loaded
<1> QED
  BY <1>3, <1>4, <1>5, <1>6 DEF FiguresAddUp

(* What a lost reply adds to the channel, it adds to what is there twice.  *)
LEMMA ReplyLostIInv == IInv /\ ReplyLost => IInv'
<1> SUFFICES ASSUME IInv, ReplyLost PROVE IInv'
  OBVIOUS
<1> USE DEF IInv, TypeOK, Totals, Counter
<1>1. /\ poster = "post" /\ poster' = "wait" /\ faults' \in Nat
      /\ UNCHANGED <<metric, reader, disabled, cur, last, hasLast, base, main>>
  BY BoundAssumption DEF ReplyLost, counting
<1> DEFINE delta == [k \in Counter |-> IF hasLast THEN DeltaClamp(k) ELSE 0]
<1>2. /\ delta \in Totals
      /\ reported' = [k \in Counter |-> reported[k] + delta[k]]
      /\ twice' = [k \in Counter |-> twice[k] + delta[k]]
      /\ ~hasLast => \A k \in Counter : delta[k] = 0
  BY <1>1 DEF ReplyLost, AddDeltas, DeltaClamp
<1> HIDE DEF delta
<1>3. TypeOK'
  BY <1>1, <1>2
<1>4. OneInHand' /\ NoLineMissingSoFar' /\ NoLineMissing'
  BY <1>1 DEF OneInHand, NoLineMissingSoFar, NoLineMissing
<1>5. InOrder'
  BY <1>1 DEF InOrder, Loaded
<1>6. NothingReported'
  BY <1>1, <1>2 DEF NothingReported
<1>7. DeltasAddUp'
  <2> SUFFICES ASSUME hasLast, NEW k \in Counter
               PROVE  base'[k] + reported'[k] = last'[k] + twice'[k]
    BY <1>1 DEF DeltasAddUp
  <2>1. base[k] + reported[k] = last[k] + twice[k]
    BY DEF FiguresAddUp, DeltasAddUp
  <2>2. /\ reported'[k] = reported[k] + delta[k] /\ twice'[k] = twice[k] + delta[k]
        /\ base'[k] = base[k] /\ last'[k] = last[k]
    BY <1>1, <1>2
  <2>3. /\ base[k] \in Nat /\ reported[k] \in Nat /\ last[k] \in Nat /\ twice[k] \in Nat
        /\ delta[k] \in Nat
    BY <1>2
  <2> HIDE DEF IInv, TypeOK, Totals, Counter
  <2> QED
    BY <2>1, <2>2, <2>3
<1> QED
  BY <1>3, <1>4, <1>5, <1>6, <1>7 DEF FiguresAddUp

(* The other steps leave counters, snapshot and figures alone, and none    *)
(* brings the poster to a snapshot.                                        *)
LEMMA OtherIInv ==
    IInv /\ (PostFails \/ SeeStop \/ Stop \/ StopWaits \/ UNCHANGED vars) => IInv'
<1> SUFFICES ASSUME IInv, PostFails \/ SeeStop \/ Stop \/ StopWaits \/ UNCHANGED vars
             PROVE IInv'
  OBVIOUS
<1> USE DEF IInv, TypeOK, Totals, Counter
<1>1. /\ UNCHANGED <<metric, reader, disabled, cur, last, hasLast, base, reported, twice>>
      /\ poster' = poster \/ poster' \in {"wait", "done"}
      /\ main' \in {"running", "stopping", "stopped"} /\ faults' \in Nat
  BY BoundAssumption DEF PostFails, SeeStop, Stop, StopWaits, vars, counting, manager
<1>2. TypeOK' /\ OneInHand' /\ NothingReported'
  BY <1>1 DEF OneInHand, NothingReported
<1>3. InOrder'
  BY <1>1 DEF InOrder, Loaded
<1>4. NoLineMissingSoFar' /\ FiguresAddUp'
  BY <1>1 DEF NoLineMissingSoFar, FiguresAddUp, NoLineMissing, DeltasAddUp
<1> QED
  BY <1>2, <1>3, <1>4

LEMMA StepIInv == IInv /\ [Next]_vars => IInv'
  BY ReceiveIInv, ClassifyIInv, SnapshotIInv, PostOnceIInv, ReplyLostIInv, OtherIInv DEF Next, Post

-----------------------------------------------------------------------------
(* The variables of the poster keep their types. *)
THEOREM PosterTypes == Spec => []TypeOK
<1>1. IInv => TypeOK
  BY DEF IInv
<1> QED
  BY InitIInv, StepIInv, <1>1, PTL DEF Spec

(* However the read loop and the poster interleave, whichever posts fail   *)
(* and whichever replies are lost: a snapshot misses at most the datagram  *)
(* in hand, and the figures posted sum to the last snapshot acknowledged   *)
(* and what the statuses with a lost reply said (syslog.go:95-101,         *)
(* manager.go:163-171).                                                    *)
THEOREM FiguresAddUpAlways == Spec => []FiguresAddUp
<1>1. IInv => FiguresAddUp
  BY DEF IInv
<1> QED
  BY InitIInv, StepIInv, <1>1, PTL DEF Spec
=============================================================================
