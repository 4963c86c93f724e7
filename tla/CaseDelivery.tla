---------------------------- MODULE CaseDelivery ----------------------------
(***************************************************************************)
(* What the syslog ingest promises the analysts about the cases it opens,  *)
(* whatever its buffers, goroutines and store calls do: each case is the   *)
(* subject of exactly one announcement.  It is alerted by itself, or       *)
(* absorbed into a roll-up of at least Threshold cases that is itself      *)
(* alerted or, when it is only background noise, archived.  An urgent case *)
(* is never absorbed.  A restart may make the agent forget what it owed.   *)
(***************************************************************************)
EXTENDS Naturals, FiniteSets

CONSTANTS Case,      \* the names of cases
          Threshold  \* how many cases make a roll-up

VARIABLE fate  \* what has become of each case, as the running agent knows it

Fates == {"unknown", "owed", "urgent", "rollup", "alerted", "absorbed", "archived"}

Outstanding == {"owed", "urgent", "rollup"}

TypeOK == fate \in [Case -> Fates]

Init == fate = [c \in Case |-> "unknown"]

Move(S, f) == fate' = [c \in Case |-> IF c \in S THEN f ELSE fate[c]]

(* A case is opened: the agent now owes an announcement. *)
Open(c) ==
    /\ fate[c] = "unknown"
    /\ Move({c}, "owed") \/ Move({c}, "urgent")

(* Every case of S is announced by an alert of its own. *)
Alert(S) ==
    /\ S # {}
    /\ \A c \in S : fate[c] \in Outstanding
    /\ Move(S, "alerted")

(* The cases of S are absorbed into the roll-up r. *)
RollUp(S, r) ==
    /\ Cardinality(S) >= Threshold
    /\ \A c \in S : fate[c] = "owed"
    /\ fate[r] = "unknown"
    /\ fate' = [c \in Case |-> IF c \in S THEN "absorbed"
                               ELSE IF c = r THEN "rollup" ELSE fate[c]]

(* A roll-up of background noise is kept for the record only. *)
Archive(r) ==
    /\ fate[r] = "rollup"
    /\ Move({r}, "archived")

(* The agent restarts and remembers no case. *)
Forget == fate' = [c \in Case |-> "unknown"]

Next ==
    \/ \E c \in Case : Open(c) \/ Archive(c)
    \/ \E S \in SUBSET Case : Alert(S)
    \/ \E S \in SUBSET Case, r \in Case : RollUp(S, r)
    \/ Forget

Spec == Init /\ [][Next]_fate
=============================================================================
