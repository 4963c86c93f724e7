--------------------------- MODULE IngestMetrics ---------------------------
(***************************************************************************)
(* The counters of the agent's ingest (internal/syslog/syslog.go) and the  *)
(* goroutine that reports them to Slack                                    *)
(* (internal/ingestmetrics/manager.go).  The read loop adds to three       *)
(* atomics, one at a time; Snapshot loads them, one at a time; main stops  *)
(* the poster when Socket Mode ends.  A step is one atomic operation, one  *)
(* call of Slack, or one choice of a select.                               *)
(***************************************************************************)
EXTENDS Naturals

CONSTANTS
    MaxLines,  \* bound: datagrams received
    MaxFaults  \* bound: posts that fail or whose reply is lost

ASSUME BoundAssumption == MaxLines \in Nat /\ MaxFaults \in Nat

Counter == {"received", "parsed", "skipped"}
Totals  == [Counter -> Nat]
Zero    == [k \in Counter |-> 0]

VARIABLES
    metric,    \* the counters of syslog.go
    reader,    \* the read loop: before ReadFrom, or with a counted datagram
    disabled,  \* Manager.disabled: without a client, a channel or a source
    poster,    \* where run is
    cur,       \* the snapshot postOnce is making or posting
    last,      \* Manager.last
    hasLast,   \* Manager.hasLast
    main,      \* main: before Stop, in it, after it
    base,      \* history: the totals of the first status
    reported,  \* history: the sums of the deltas in the channel since
    twice,     \* history: those of the statuses whose reply was lost
    faults

counting == <<metric, reader>>
manager  == <<last, hasLast, base, reported, twice>>
vars     == <<counting, disabled, poster, cur, manager, main, faults>>

TypeOK ==
    /\ metric \in Totals
    /\ reader \in {"read", "counted"}
    /\ disabled \in BOOLEAN
    /\ poster \in {"wait", "parsed", "skipped", "post", "done"}
    /\ cur \in Totals /\ last \in Totals
    /\ hasLast \in BOOLEAN
    /\ main \in {"running", "stopping", "stopped"}
    /\ base \in Totals /\ reported \in Totals /\ twice \in Totals
    /\ faults \in Nat

(* NewManager and Start; a disabled manager starts no goroutine. *)
Init ==
    /\ metric = Zero
    /\ reader = "read"
    /\ disabled \in BOOLEAN
    /\ poster = IF disabled THEN "done" ELSE "wait"
    /\ cur = Zero /\ last = Zero /\ hasLast = FALSE
    /\ main = "running"
    /\ base = Zero /\ reported = Zero /\ twice = Zero
    /\ faults = 0

-----------------------------------------------------------------------------
(* The read loop of Listen *)

Receive ==
    /\ reader = "read"
    /\ metric["received"] < MaxLines
    /\ metric' = [metric EXCEPT !["received"] = @ + 1]
    /\ reader' = "counted"
    /\ UNCHANGED <<disabled, poster, cur, manager, main, faults>>

(* A datagram is skipped, or parsed and then ingested. *)
Classify(k) ==
    /\ reader = "counted"
    /\ metric' = [metric EXCEPT ![k] = @ + 1]
    /\ reader' = "read"
    /\ UNCHANGED <<disabled, poster, cur, manager, main, faults>>

-----------------------------------------------------------------------------
(* The poster *)

Load(k, from, to) ==
    /\ poster = from
    /\ cur' = [cur EXCEPT ![k] = metric[k]]
    /\ poster' = to
    /\ UNCHANGED <<counting, disabled, manager, main, faults>>

(* A bug: the classes are loaded before the datagrams. *)
SnapshotLastFirst ==
    \/ Load("parsed", "wait", "parsed")
    \/ Load("skipped", "parsed", "skipped")
    \/ Load("received", "skipped", "post")

(* The timer or the ticker is chosen; postOnce calls Snapshot. *)
Snapshot ==
    \/ Load("received", "wait", "parsed")
    \/ Load("parsed", "parsed", "skipped")
    \/ Load("skipped", "skipped", "post")

DeltaClamp(k) == IF cur[k] < last[k] THEN 0 ELSE cur[k] - last[k]

Remember ==
    /\ last' = cur
    /\ hasLast' = TRUE

(* formatStatus has no deltas (N/A) until a post has succeeded. *)
AddDeltas(sums) == [k \in Counter |-> sums[k] + (IF hasLast THEN DeltaClamp(k) ELSE 0)]

PostOnce ==
    /\ poster = "post"
    /\ poster' = "wait"
    /\ Remember
    /\ reported' = AddDeltas(reported)
    /\ base' = IF hasLast THEN base ELSE cur
    /\ UNCHANGED <<counting, disabled, cur, twice, main, faults>>

(* A bug: run ends with the first post that fails. *)
PostFailsEnds ==
    /\ poster = "post"
    /\ faults < MaxFaults
    /\ faults' = faults + 1
    /\ poster' = "done"
    /\ UNCHANGED <<counting, disabled, cur, manager, main>>

PostFails ==
    /\ poster = "post"
    /\ faults < MaxFaults
    /\ faults' = faults + 1
    /\ poster' = "wait"
    /\ UNCHANGED <<counting, disabled, cur, manager, main>>

(* Slack has taken the status, but its reply is lost: postOnce sees an     *)
(* error, and the next status is measured from before this one.            *)
ReplyLost ==
    /\ poster = "post"
    /\ faults < MaxFaults
    /\ faults' = faults + 1
    /\ poster' = "wait"
    /\ reported' = AddDeltas(reported)
    /\ twice' = AddDeltas(twice)
    /\ UNCHANGED <<counting, disabled, cur, last, hasLast, base, main>>

(* A bug: break leaves the select and not the loop. *)
SeeStopBreaks ==
    /\ poster = "wait"
    /\ main = "stopping"
    /\ UNCHANGED vars

(* stopCh is closed; select may still prefer a tick that is there. *)
SeeStop ==
    /\ poster = "wait"
    /\ main = "stopping"
    /\ poster' = "done"
    /\ UNCHANGED <<counting, disabled, cur, manager, main, faults>>

-----------------------------------------------------------------------------
(* main, when Socket Mode ends without an error: Stop closes stopCh and    *)
(* waits for run.                                                          *)
Stop ==
    /\ main = "running"
    /\ main' = IF disabled THEN "stopped" ELSE "stopping"
    /\ UNCHANGED <<counting, disabled, poster, cur, manager, faults>>

StopWaits ==
    /\ main = "stopping"
    /\ poster = "done"
    /\ main' = "stopped"
    /\ UNCHANGED <<counting, disabled, poster, cur, manager, faults>>

Post == Snapshot \/ PostOnce \/ PostFails \/ ReplyLost

Next ==
    \/ Receive \/ Classify("parsed") \/ Classify("skipped")
    \/ Post \/ SeeStop
    \/ Stop \/ StopWaits

Spec == Init /\ [][Next]_vars

(* The ticker ticks and a call of Slack returns (the client has no timeout *)
(* of its own: this is assumed).  A Go select chooses among what is ready  *)
(* at random, so that it does not pass over a closed stopCh for ever: SF.  *)
Fairness ==
    /\ WF_vars(Post)
    /\ SF_vars(SeeStop)
    /\ WF_vars(StopWaits)

FairSpec == Spec /\ Fairness

-----------------------------------------------------------------------------
(* Properties *)

(* A snapshot taken in the middle of a line never makes lines disappear:   *)
(* at most the one in hand is received and in neither class                *)
(* (syslog.go:95-101, 348-363).                                            *)
NoLineMissing ==
    poster = "post" => cur["received"] <= cur["parsed"] + cur["skipped"] + 1

(* Whoever adds up the figures in the channel counts every line: a post    *)
(* that fails leaves none out, and none is counted twice except by the     *)
(* statuses that Slack has shown although postOnce took them for failed    *)
(* (manager.go:163-171).                                                   *)
DeltasAddUp ==
    hasLast => \A k \in Counter : base[k] + reported[k] = last[k] + twice[k]

FiguresAddUp == NoLineMissing /\ DeltasAddUp

(* When the datagrams cease, the channel gets their totals, unless main    *)
(* stops the poster; failed posts are made good by a later one.            *)
FiguresArrive ==
    metric["received"] = MaxLines /\ reader = "read" /\ ~disabled
        ~> last = metric \/ main # "running"

(* Stop returns, whatever the poster is at when it is called               *)
(* (manager.go:122-135).                                                   *)
StopReturns == main = "stopping" ~> main = "stopped"
=============================================================================
