-------------------------- MODULE CaseReviewProofs --------------------------
(***************************************************************************)
(* Proofs about the commands of an analyst: what a briefing says of a      *)
(* case, however late it is and whatever it could not read; what           *)
(* review-all and export-blocklist pick, for any cases that were opened,   *)
(* added to, rolled up or set in any order.                                *)
(***************************************************************************)
EXTENDS CaseReview, FiniteSetTheorems, SequenceTheorems, TLAPS

-----------------------------------------------------------------------------
(* Action plans *)

Reached(E) == {e.dst : e \in {e \in E : Landed(e)}}

LEMMA TierOfScore ==
    ASSUME NEW score \in Nat
    PROVE  Tier(score) >= TierBlacklisted <=> score >= BlacklistThreshold
  BY DEF Tier, TierBlacklisted, BlacklistThreshold, MaliciousThreshold

(* Which facts a plan was chosen by. *)
LEMMA PlanConditions ==
    ASSUME NEW ts,
           ts.blacklisted \in BOOLEAN, ts.benign \in BOOLEAN, ts.malicious \in BOOLEAN,
           ts.wanEdgeOnly \in BOOLEAN, ts.dstInRegistry \in BOOLEAN
    PROVE  /\ ActionPlan(ts) = "F" <=> ts.blacklisted
           /\ ActionPlan(ts) = "E" => ts.benign
           /\ ActionPlan(ts) = "D" => ts.malicious
           /\ ts.malicious => ActionPlan(ts) \in {"D", "E", "F"}
           /\ ActionPlan(ts) = "A" => ts.wanEdgeOnly
           /\ ActionPlan(ts) = "B" => ~ts.dstInRegistry
           /\ ActionPlan(ts) = "C" => ts.dstInRegistry
<1>1. CASE ts.blacklisted
  BY <1>1 DEF ActionPlan
<1>2. CASE ~ts.blacklisted /\ ts.benign
  BY <1>2 DEF ActionPlan
<1>3. CASE ~ts.blacklisted /\ ~ts.benign /\ ts.malicious
  BY <1>3 DEF ActionPlan
<1>4. CASE ~ts.blacklisted /\ ~ts.benign /\ ~ts.malicious
  BY <1>4 DEF ActionPlan
<1> QED
  BY <1>1, <1>2, <1>3, <1>4

(* What a plan accuses of holds of the case although only some of its      *)
(* events, E, were read and any registry was: F of an address in the       *)
(* blacklist, E of a known scanner, D of an address confirmed malicious, C *)
(* of a registered host that was reached.  What it rules out holds if all  *)
(* were read (handler.go:85-120, 421-621; threat.go:61-78).                *)
THEOREM PlansAreSound ==
    ASSUME NEW all, NEW E \in SUBSET all, NEW known, NEW scores, NEW accused,
           \A a \in DOMAIN scores : scores[a] \in Nat
    PROVE  LET plan == ActionPlan(TriageState(E, known, scores, accused)) IN
           /\ plan = "F" => Scored(Addresses(all), scores, BlacklistThreshold)
           /\ plan = "E" => Addresses(all) \cap Benign # {}
           /\ plan = "D" => \/ Scored(Addresses(all), scores, MaliciousThreshold)
                            \/ Addresses(all) \cap accused # {}
           /\ plan = "C" => Reached(all) \cap known # {}
           /\ E = all =>
                 /\ plan = "A" => Reached(all) = {}
                 /\ plan = "B" => Reached(all) \cap known = {}
                 /\ Scored(Addresses(all), scores, BlacklistThreshold) => plan = "F"
                 /\ Scored(Addresses(all), scores, MaliciousThreshold) => plan \in {"D", "E", "F"}
<1> DEFINE ts == TriageState(E, known, scores, accused)
<1>1. /\ ts.blacklisted \in BOOLEAN /\ ts.benign \in BOOLEAN /\ ts.malicious \in BOOLEAN
      /\ ts.wanEdgeOnly \in BOOLEAN /\ ts.dstInRegistry \in BOOLEAN
  BY DEF TriageState, Scored
<1>2. Addresses(E) \subseteq Addresses(all) /\ Reached(E) \subseteq Reached(all)
  BY DEF Addresses, Reached
<1>3. ts.blacklisted <=> Scored(Addresses(E), scores, BlacklistThreshold)
  BY TierOfScore DEF TriageState, Scored
<1>4. ts.malicious <=> \/ Scored(Addresses(E), scores, MaliciousThreshold)
                       \/ Addresses(E) \cap accused # {}
  BY DEF TriageState
<1>5. ts.benign <=> Addresses(E) \cap Benign # {}
  BY DEF TriageState
<1>6. ts.dstInRegistry <=> Reached(E) \cap known # {}
  BY DEF TriageState, Reached
<1>7. ts.wanEdgeOnly => Reached(E) = {}
  BY DEF TriageState, Reached, Landed, AtWanEdge
<1>8. \A score : Scored(Addresses(E), scores, score) => Scored(Addresses(all), scores, score)
  BY <1>2 DEF Scored
<1> HIDE DEF ts
<1> QED
  BY <1>1, <1>2, <1>3, <1>4, <1>5, <1>6, <1>7, <1>8, PlanConditions DEF ts

-----------------------------------------------------------------------------
(* Sublists *)

Rank(kept, i) == Cardinality({j \in kept : j <= i})

(* The n-th of a finite set of numbers exists for every n up to its size.  *)
LEMMA Ranks ==
    ASSUME NEW kept \in SUBSET Nat, IsFiniteSet(kept)
    PROVE  /\ \A i, k \in kept : i < k => Rank(kept, i) < Rank(kept, k)
           /\ \A i \in kept : Rank(kept, i) \in 1..Cardinality(kept)
           /\ \A n \in 1..Cardinality(kept) : \E i \in kept : Rank(kept, i) = n
<1> DEFINE upto(i) == {j \in kept : j <= i}
<1>1. ASSUME NEW i \in kept
      PROVE  /\ IsFiniteSet(upto(i)) /\ Cardinality(upto(i)) \in Nat
             /\ Cardinality(upto(i)) <= Cardinality(kept)
  <2>1. upto(i) \in SUBSET kept
    OBVIOUS
  <2> QED
    BY <2>1, FS_Subset, FS_CardinalityType
<1>2. ASSUME NEW i \in kept PROVE Cardinality(upto(i)) >= 1
  <2>1. i \in upto(i)
    OBVIOUS
  <2>2. Cardinality(upto(i)) # 0
    BY <1>1, <2>1, FS_EmptySet
  <2> QED
    BY <1>1, <2>2
<1>3. ASSUME NEW i \in kept, NEW k \in kept, i < k
      PROVE  Cardinality(upto(i)) < Cardinality(upto(k))
  <2>0. \A j \in kept : j \in Nat
    OBVIOUS
  <2>1. upto(i) \cup {k} \in SUBSET upto(k) /\ k \notin upto(i)
    <3>1. \A j \in upto(i) : j \in upto(k)
      BY <1>3, <2>0
    <3>2. k \in upto(k) /\ k \notin upto(i)
      BY <1>3, <2>0
    <3> QED
      BY <3>1, <3>2
  <2>2. Cardinality(upto(i) \cup {k}) = Cardinality(upto(i)) + 1
    BY <1>1, <2>1, FS_AddElement
  <2>3. Cardinality(upto(i) \cup {k}) <= Cardinality(upto(k))
    BY <1>1, <2>1, FS_Subset
  <2> QED
    BY <1>1, <2>2, <2>3
<1>4. Cardinality(kept) \in Nat
  BY FS_CardinalityType
<1> DEFINE rank == [i \in kept |-> Cardinality(upto(i))]
           ranks == 1..Cardinality(kept)
<1>5. rank \in [kept -> ranks]
  BY <1>1, <1>2, <1>4
<1>6. \A i, k \in kept : rank[i] = rank[k] => i = k
  BY <1>1, <1>3
<1>7. IsFiniteSet(ranks) /\ Cardinality(ranks) = Cardinality(kept)
  BY <1>4, FS_Interval
<1>8. ASSUME NEW n \in ranks PROVE \E i \in kept : rank[i] = n
  <2>1. SUFFICES ASSUME \A i \in kept : rank[i] # n PROVE FALSE
    OBVIOUS
  <2>2. rank \in [kept -> ranks \ {n}]
    BY <1>5, <2>1
  <2> HIDE DEF rank, ranks
  <2>3. /\ IsFiniteSet(ranks \ {n})
        /\ Cardinality(ranks \ {n}) = Cardinality(kept) - 1
    BY <1>7, <1>8, FS_RemoveElement
  <2>4. Cardinality(ranks \ {n}) < Cardinality(kept)
    BY <1>4, <2>3
  <2>5. \E x, y \in kept : x # y /\ rank[x] = rank[y]
    BY <2>2, <2>3, <2>4, FS_PigeonHole
  <2> QED
    BY <1>6, <2>5
<1> QED
  BY <1>1, <1>2, <1>3, <1>4, <1>8 DEF Rank

(* Only(s, K) is what of s is in K, in the order of s. *)
LEMMA OnlyFacts ==
    ASSUME NEW T, NEW s \in Seq(T), NEW K
    PROVE  /\ Only(s, K) \in Seq(T)
           /\ \E pos \in [DOMAIN Only(s, K) -> DOMAIN s] :
                 /\ \A n \in DOMAIN Only(s, K) : Only(s, K)[n] = s[pos[n]] /\ s[pos[n]] \in K
                 /\ \A m, n \in DOMAIN Only(s, K) : m < n => pos[m] < pos[n]
                 /\ \A i \in DOMAIN s : s[i] \in K => \E n \in DOMAIN Only(s, K) : pos[n] = i
<1> DEFINE kept == {i \in DOMAIN s : s[i] \in K}
           size == Cardinality(kept)
           pos == [n \in 1..size |-> CHOOSE i \in kept : Cardinality({j \in kept : j <= i}) = n]
<1>1. Len(s) \in Nat /\ DOMAIN s = 1..Len(s) /\ \A i \in DOMAIN s : s[i] \in T
  BY LenProperties, ElementOfSeq
<1>2. kept \in SUBSET Nat /\ kept \in SUBSET (1..Len(s))
  BY <1>1
<1>3. IsFiniteSet(kept) /\ size \in Nat
  <2>1. IsFiniteSet(1..Len(s))
    BY <1>1, FS_Interval
  <2>2. IsFiniteSet(kept)
    BY <1>2, <2>1, FS_Subset
  <2> QED
    BY <2>2, FS_CardinalityType
<1>4. Only(s, K) = [n \in 1..size |-> s[pos[n]]]
  BY DEF Only
<1> HIDE DEF size
<1>5. \A n \in 1..size : \E i \in kept : Cardinality({j \in kept : j <= i}) = n
  BY <1>2, <1>3, Ranks DEF Rank, size
<1>6. \A n \in 1..size : pos[n] \in kept /\ Rank(kept, pos[n]) = n
  BY <1>5 DEF Rank
<1>7. \A i, k \in kept : i < k => Rank(kept, i) < Rank(kept, k)
  BY <1>2, <1>3, Ranks
<1>8. \A i \in kept : Rank(kept, i) \in 1..size
  BY <1>2, <1>3, Ranks DEF size
<1> DEFINE pick == Only(s, K)
<1>9. DOMAIN pick = 1..size
  BY <1>4
<1> HIDE DEF pos
<1>10. \A n \in 1..size : pick[n] = s[pos[n]] /\ s[pos[n]] \in K /\ s[pos[n]] \in T
  BY <1>1, <1>4, <1>6
<1>11. pick \in Seq(T)
  BY <1>3, <1>4, <1>10, IsASeq
<1>12. pos \in [1..size -> DOMAIN s]
  BY <1>6 DEF pos
<1>13. ASSUME NEW m \in 1..size, NEW n \in 1..size, m < n PROVE pos[m] < pos[n]
  <2>1. pos[m] \in Nat /\ pos[n] \in Nat
    BY <1>2, <1>6
  <2>2. ~ (pos[n] < pos[m]) /\ pos[m] # pos[n]
    <3> DEFINE a == pos[m]
               b == pos[n]
    <3>1. a \in kept /\ b \in kept /\ Rank(kept, a) = m /\ Rank(kept, b) = n
      BY <1>6
    <3>2. b < a => n < m
      BY <1>7, <3>1
    <3> QED
      BY <1>3, <1>13, <3>1, <3>2
  <2> QED
    BY <2>1, <2>2
<1>14. ASSUME NEW i \in DOMAIN s, s[i] \in K PROVE \E n \in 1..size : pos[n] = i
  <2>1. i \in kept
    BY <1>14
  <2> DEFINE n == Rank(kept, i)
  <2>2. n \in 1..size
    BY <1>8, <2>1
  <2> HIDE DEF n
  <2>3. pos[n] \in kept /\ Rank(kept, pos[n]) = n
    BY <1>6, <2>2
  <2>4. ~ (pos[n] < i) /\ ~ (i < pos[n])
    <3>1. Rank(kept, i) = n
      BY DEF n
    <3> QED
      BY <1>3, <1>7, <2>1, <2>2, <2>3, <3>1
  <2> QED
    BY <1>2, <2>1, <2>2, <2>3, <2>4
<1> HIDE DEF pick
<1> QED
  <2>1. pos \in [DOMAIN pick -> DOMAIN s]
    BY <1>9, <1>12
  <2>2. \A n \in DOMAIN pick : pick[n] = s[pos[n]] /\ s[pos[n]] \in K
    BY <1>9, <1>10
  <2>3. \A m, n \in DOMAIN pick : m < n => pos[m] < pos[n]
    BY <1>9, <1>13
  <2>4. \A i \in DOMAIN s : s[i] \in K => \E n \in DOMAIN pick : pos[n] = i
    BY <1>9, <1>14
  <2> QED
    BY <1>11, <2>1, <2>2, <2>3, <2>4 DEF pick

LEMMA ElementsOfOnly ==
    ASSUME NEW T, NEW s \in Seq(T), NEW K
    PROVE  Elements(Only(s, K)) = Elements(s) \cap K
<1> DEFINE pick == Only(s, K)
<1> HIDE DEF pick
<1>1. PICK pos \in [DOMAIN pick -> DOMAIN s] :
          /\ \A n \in DOMAIN pick : pick[n] = s[pos[n]] /\ s[pos[n]] \in K
          /\ \A i \in DOMAIN s : s[i] \in K => \E n \in DOMAIN pick : pos[n] = i
  BY OnlyFacts DEF pick
<1>2. Elements(pick) = Elements(s) \cap K
  BY <1>1 DEF Elements
<1> QED
  BY <1>2 DEF pick

(* No element is repeated. *)
Distinct(s) == \A i, j \in DOMAIN s : s[i] = s[j] => i = j

LEMMA OnlyKeepsDistinct ==
    ASSUME NEW T, NEW s \in Seq(T), NEW K, Distinct(s)
    PROVE  Distinct(Only(s, K))
<1> DEFINE pick == Only(s, K)
<1> HIDE DEF pick
<1>1. PICK pos \in [DOMAIN pick -> DOMAIN s] :
          /\ \A n \in DOMAIN pick : pick[n] = s[pos[n]] /\ s[pos[n]] \in K
          /\ \A m, n \in DOMAIN pick : m < n => pos[m] < pos[n]
  BY OnlyFacts DEF pick
<1>2. pick \in Seq(T)
  BY OnlyFacts DEF pick
<1>3. DOMAIN pick = 1..Len(pick) /\ Len(pick) \in Nat
  BY <1>2, LenProperties
<1>3a. DOMAIN s = 1..Len(s) /\ Len(s) \in Nat
  BY LenProperties
<1>4. ASSUME NEW i \in DOMAIN pick, NEW j \in DOMAIN pick, pick[i] = pick[j] PROVE i = j
  <2>1. pos[i] = pos[j]
    BY <1>1, <1>4 DEF Distinct
  <2>2. ~ (i < j) /\ ~ (j < i)
    BY <1>1, <1>3a, <2>1
  <2> QED
    BY <1>3, <2>2
<1> QED
  BY <1>4 DEF pick, Distinct

(* The n first elements, and the reverse. *)
LEMMA TakeFacts ==
    ASSUME NEW T, NEW s \in Seq(T), NEW limit \in Nat
    PROVE  /\ Take(s, limit) \in Seq(T)
           /\ Len(Take(s, limit)) = IF Len(s) < limit THEN Len(s) ELSE limit
           /\ \A i \in DOMAIN Take(s, limit) : i \in DOMAIN s /\ Take(s, limit)[i] = s[i]
           /\ Elements(Take(s, limit)) \subseteq Elements(s)
           /\ Distinct(s) => Distinct(Take(s, limit))
           /\ Len(s) <= limit => Take(s, limit) = s
<1> DEFINE n == IF Len(s) < limit THEN Len(s) ELSE limit
           t == SubSeq(s, 1, n)
<1>1. Len(s) \in Nat /\ DOMAIN s = 1..Len(s) /\ s \in [1..Len(s) -> T]
  BY LenProperties
<1>2. n \in 0..Len(s)
  BY <1>1
<1> HIDE DEF n
<1>3. t \in Seq(T) /\ Len(t) = n /\ \A i \in 1..n : t[i] = s[i]
  BY <1>1, <1>2, SubSeqProperties
<1>4. DOMAIN t = 1..n
  BY <1>3, LenProperties
<1>5. Take(s, limit) = t
  BY DEF Take, n
<1> HIDE DEF t
<1>6. \A i \in DOMAIN t : i \in DOMAIN s /\ t[i] = s[i]
  BY <1>1, <1>2, <1>3, <1>4
<1>7. Elements(t) \subseteq Elements(s)
  BY <1>6 DEF Elements
<1>8. Distinct(s) => Distinct(t)
  BY <1>6 DEF Distinct
<1>9. Len(s) <= limit => t = s
  <2> SUFFICES ASSUME Len(s) <= limit PROVE t = s
    OBVIOUS
  <2>1. n = Len(s)
    <3> DEFINE l == Len(s)
    <3>0. l \in Nat
      BY <1>1
    <3>3. l <= limit => l < limit \/ l = limit
      <4> HIDE DEF l
      <4> QED
        BY <3>0
    <3>1. CASE Len(s) < limit
      BY <3>1 DEF n
    <3>2. CASE Len(s) = limit
      BY <3>2 DEF n
    <3> QED
      BY <3>3, <3>1, <3>2
  <2> QED
    BY <1>1, <1>3, <2>1, SeqEqual
<1> QED
  BY <1>3, <1>5, <1>6, <1>7, <1>8, <1>9 DEF n

LEMMA ReverseFacts ==
    ASSUME NEW T, NEW s \in Seq(T)
    PROVE  /\ Reverse(s) \in Seq(T)
           /\ Len(Reverse(s)) = Len(s)
           /\ \A i \in DOMAIN s : Len(s) - i + 1 \in DOMAIN s /\ Reverse(s)[i] = s[Len(s) - i + 1]
           /\ Elements(Reverse(s)) = Elements(s)
           /\ Distinct(s) => Distinct(Reverse(s))
<1>1. Len(s) \in Nat /\ DOMAIN s = 1..Len(s) /\ s \in [1..Len(s) -> T]
  BY LenProperties
<1> DEFINE r == Reverse(s)
<1>2. r = [i \in 1..Len(s) |-> s[(Len(s) - i) + 1]]
  BY DEF Reverse
<1> HIDE DEF r
<1>3. \A i \in 1..Len(s) : Len(s) - i + 1 \in 1..Len(s) /\ Len(s) - (Len(s) - i + 1) + 1 = i
  BY <1>1
<1>4. \A i \in 1..Len(s) : r[i] = s[Len(s) - i + 1] /\ r[i] \in T
  BY <1>1, <1>2, <1>3
<1>5. r \in Seq(T) /\ DOMAIN r = 1..Len(s) /\ Len(r) = Len(s)
  BY <1>1, <1>2, <1>4, IsASeq, LenProperties
<1>6. Elements(r) = Elements(s)
  <2>1. ASSUME NEW i \in DOMAIN s PROVE s[i] \in Elements(r)
    <3>1. r[Len(s) - i + 1] = s[i] /\ Len(s) - i + 1 \in DOMAIN r
      BY <1>1, <1>3, <1>4, <1>5
    <3> QED
      BY <3>1 DEF Elements
  <2>2. ASSUME NEW i \in DOMAIN r PROVE r[i] \in Elements(s)
    BY <1>1, <1>3, <1>4, <1>5 DEF Elements
  <2> QED
    BY <2>1, <2>2 DEF Elements
<1>7. ASSUME Distinct(s), NEW i \in DOMAIN r, NEW j \in DOMAIN r, r[i] = r[j] PROVE i = j
  <2>1. Len(s) - i + 1 = Len(s) - j + 1
    BY <1>1, <1>3, <1>4, <1>5, <1>7 DEF Distinct
  <2> QED
    BY <1>1, <1>5, <2>1
<1> QED
  BY <1>1, <1>3, <1>4, <1>5, <1>6, <1>7 DEF r, Distinct

-----------------------------------------------------------------------------
(* Least and greatest members, and induction up to a bound *)

LEMMA LeastAndGreatest ==
    ASSUME NEW S \in SUBSET Nat, IsFiniteSet(S), S # {}
    PROVE  /\ \E m \in S : \A n \in S : m <= n
           /\ \E m \in S : \A n \in S : n <= m
<1>1. /\ \A i, k \in S : i < k => Rank(S, i) < Rank(S, k)
      /\ \A i \in S : Rank(S, i) \in 1..Cardinality(S)
      /\ \A n \in 1..Cardinality(S) : \E i \in S : Rank(S, i) = n
  BY Ranks
<1> DEFINE size == Cardinality(S)
<1>2. size \in Nat /\ size # 0
  BY FS_CardinalityType, FS_EmptySet
<1>3. PICK m \in S : Rank(S, m) = 1
  <2>1. 1 \in 1..size
    BY <1>2
  <2> QED
    BY <1>1, <2>1
<1>4. PICK k \in S : Rank(S, k) = size
  <2>1. size \in 1..size
    BY <1>2
  <2> QED
    BY <1>1, <2>1
<1> HIDE DEF size
<1>5. ASSUME NEW n \in S PROVE m <= n /\ n <= k
  <2>1. Rank(S, n) \in 1..size /\ n \in Nat /\ m \in Nat /\ k \in Nat
    BY <1>1 DEF size
  <2>2. ~ (n < m)
    BY <1>1, <1>2, <1>3, <2>1
  <2>3. ~ (k < n)
    BY <1>1, <1>2, <1>4, <2>1
  <2> QED
    BY <2>1, <2>2, <2>3
<1> QED
  BY <1>5

LEMMA Induct ==
    ASSUME NEW N \in Nat, NEW A, 0 \in A, \A n \in 0..N : n < N /\ n \in A => n + 1 \in A
    PROVE  \A n \in 0..N : n \in A
<1> DEFINE B == (0..N) \ A
<1>1. SUFFICES ASSUME B # {} PROVE FALSE
  OBVIOUS
<1>2. B \in SUBSET Nat /\ IsFiniteSet(B)
  <2>1. IsFiniteSet(0..N) /\ B \in SUBSET (0..N)
    BY FS_Interval
  <2> QED
    BY <2>1, FS_Subset
<1>3. PICK m \in B : \A n \in B : m <= n
  BY <1>1, <1>2, LeastAndGreatest
<1>4. m # 0 /\ m \in 0..N /\ m \notin A
  BY <1>3
<1>5. m - 1 \in 0..N /\ m - 1 < N
  BY <1>4
<1>6. m - 1 \notin B
  BY <1>2, <1>3, <1>4, <1>5
<1> QED
  BY <1>4, <1>5, <1>6

LEMMA MaxFacts ==
    ASSUME NEW S \in SUBSET Nat, IsFiniteSet(S), S # {}
    PROVE  Max(S) \in S /\ \A n \in S : Max(S) >= n
<1>1. \E m \in S : \A n \in S : m >= n
  BY LeastAndGreatest
<1> QED
  BY <1>1 DEF Max

LEMMA FiniteImage ==
    ASSUME NEW S, IsFiniteSet(S), NEW f
    PROVE  IsFiniteSet({f[x] : x \in S})
<1> DEFINE T == {f[x] : x \in S}
           g == [x \in S |-> f[x]]
<1>1. g \in Surjection(S, T)
  BY DEF Surjection
<1> HIDE DEF g, T
<1>2. IsFiniteSet(T)
  BY <1>1, FS_Surjection
<1> QED
  BY <1>2 DEF T

LEMMA FiniteElements ==
    ASSUME NEW T, NEW s \in Seq(T)
    PROVE  /\ IsFiniteSet(Elements(s))
           /\ Distinct(s) => Cardinality(Elements(s)) = Len(s)
<1>1. Len(s) \in Nat /\ DOMAIN s = 1..Len(s)
  BY LenProperties
<1> DEFINE D == 1..Len(s)
           E == Elements(s)
           g == [i \in D |-> s[i]]
<1>2. IsFiniteSet(D) /\ Cardinality(D) = Len(s)
  BY <1>1, FS_Interval
<1>3. g \in Surjection(D, E)
  BY <1>1 DEF Surjection, Elements
<1>4. Distinct(s) => g \in Injection(D, E)
  BY <1>1, <1>3 DEF Surjection, Injection, IsInjective, Distinct
<1> HIDE DEF g, E, D
<1>5. IsFiniteSet(E)
  BY <1>2, <1>3, FS_Surjection
<1>6. Distinct(s) => Cardinality(E) = Len(s)
  BY <1>2, <1>3, <1>4, <1>5, FS_Injection
<1> QED
  BY <1>5, <1>6 DEF E

LEMMA MinFacts ==
    ASSUME NEW S \in SUBSET Nat, IsFiniteSet(S), S # {}
    PROVE  Min(S) \in S
<1>1. \E m \in S : \A n \in S : m <= n
  BY LeastAndGreatest
<1> QED
  BY <1>1 DEF Min

-----------------------------------------------------------------------------
(* The inductive invariant *)

Look == AgentLook \cup CollectorLook

EventSet == [src : {l.src : l \in Look}, dst : {l.dst : l \in Look}, port : {l.port : l \in Look},
             proto : {l.proto : l \in Look}, type : {l.type : l \in Look}, at : Nat]
CaseSet  == [id : 1..MaxCases, sev : Severity, made : Nat, updated : Nat,
             events : Seq(EventSet) \ {<<>>}]

(* c was read when d, if it is the same case, had come as far or less far. *)
Precedes(c, d) == c.id = d.id => IsPrefix(c.events, d.events)

(* Every case has an id of its own, and none an id that was not given.     *)
CasesInv ==
    /\ cases \in SUBSET CaseSet /\ IsFiniteSet(cases)
    /\ created \in 0..MaxCases
    /\ \A c \in cases : c.id <= created
    /\ \A c, d \in cases : c.id = d.id => c = d

(* The events of a case are added to, none is taken: a copy is a beginning *)
(* of the row as it is now.                                                *)
QueueInv ==
    /\ queue \in [Reviewer -> Seq(CaseSet)]
    /\ \A r \in Reviewer : \A c \in Elements(queue[r]) :
          c.id <= created /\ \A d \in cases : Precedes(c, d)

IngestInv ==
    /\ log \in Seq(EventSet) /\ Len(log) <= MaxEvents + 1
    /\ index \in [{Key(l) : l \in AgentLook} -> 0..created]
    /\ buffer \in Seq([id : Nat, sev : Severity, event : EventSet])

IInv ==
    /\ CasesInv
    /\ QueueInv
    /\ IngestInv
    /\ now \in Moment \cup {0}
    /\ registry \in Seq(Host)
    /\ feed \in {Score, <<>>}
    /\ commands \in 0..MaxCommands

LEMMA PrefixPointwise ==
    ASSUME NEW T, NEW s \in Seq(T), NEW t \in Seq(T)
    PROVE  IsPrefix(s, t) <=> Len(s) <= Len(t) /\ \A i \in 1..Len(s) : s[i] = t[i]
<1>1. Len(s) \in Nat /\ Len(t) \in Nat /\ s \in [1..Len(s) -> T] /\ t \in [1..Len(t) -> T]
  BY LenProperties
<1> DEFINE u == SubSeq(s, 1, Len(s))
           v == SubSeq(t, 1, Len(s))
<1>2. u \in Seq(T) /\ Len(u) = Len(s) /\ \A i \in 1..Len(s) : u[i] = s[i]
  BY <1>1, SubSeqProperties
<1>3. Len(s) <= Len(t) => v \in Seq(T) /\ Len(v) = Len(s) /\ \A i \in 1..Len(s) : v[i] = t[i]
  BY <1>1, SubSeqProperties
<1>4. IsPrefix(s, t) <=> Len(s) <= Len(t) /\ u = v
  BY DEF IsPrefix
<1> HIDE DEF u, v
<1>5. Len(s) <= Len(t) => (u = v <=> \A i \in 1..Len(s) : u[i] = v[i])
  BY <1>2, <1>3, SeqEqual
<1> QED
  BY <1>2, <1>3, <1>4, <1>5

LEMMA PrefixFacts ==
    ASSUME NEW T, NEW s \in Seq(T), NEW t \in Seq(T), NEW u \in Seq(T), NEW e \in T
    PROVE  /\ IsPrefix(s, s)
           /\ IsPrefix(s, Append(s, e))
           /\ IsPrefix(s, t) /\ IsPrefix(t, u) => IsPrefix(s, u)
<1>1. Len(s) \in Nat /\ Len(t) \in Nat /\ Len(u) \in Nat
  BY LenProperties
<1>2. IsPrefix(s, s)
  BY <1>1, PrefixPointwise
<1>3. IsPrefix(s, Append(s, e))
  <2> DEFINE a == Append(s, e)
  <2>1. a \in Seq(T) /\ Len(a) = Len(s) + 1 /\ \A i \in 1..Len(s) : a[i] = s[i]
    BY AppendProperties
  <2> HIDE DEF a
  <2>2. IsPrefix(s, a)
    BY <1>1, <2>1, PrefixPointwise
  <2> QED
    BY <2>2 DEF a
<1>4. IsPrefix(s, t) /\ IsPrefix(t, u) => IsPrefix(s, u)
  <2>1. IsPrefix(s, t) => Len(s) <= Len(t) /\ \A i \in 1..Len(s) : s[i] = t[i]
    BY PrefixPointwise
  <2>2. IsPrefix(t, u) => Len(t) <= Len(u) /\ \A i \in 1..Len(t) : t[i] = u[i]
    BY PrefixPointwise
  <2>3. Len(s) <= Len(u) /\ (\A i \in 1..Len(s) : s[i] = u[i]) => IsPrefix(s, u)
    BY PrefixPointwise
  <2> QED
    BY <1>1, <2>1, <2>2, <2>3
<1> QED
  BY <1>2, <1>3, <1>4

LEMMA CaseFields ==
    ASSUME NEW c \in CaseSet
    PROVE  /\ c.id \in 1..MaxCases /\ c.id \in Nat /\ c.sev \in Severity /\ c.updated \in Nat
           /\ c.events \in Seq(EventSet) /\ c.events # <<>>
           /\ Elements(c.events) \in SUBSET EventSet /\ Elements(c.events) # {}
           /\ IsFiniteSet(Elements(c.events)) /\ IsFiniteSet(DOMAIN c.events)
           /\ IsPrefix(c.events, c.events)
<1>1. /\ c.id \in 1..MaxCases /\ c.sev \in Severity /\ c.updated \in Nat
      /\ c.events \in Seq(EventSet) /\ c.events # <<>>
  BY DEF CaseSet
<1>2. Len(c.events) \in Nat \ {0} /\ DOMAIN c.events = 1..Len(c.events)
  BY <1>1, EmptySeq, LenProperties
<1>3. 1 \in DOMAIN c.events /\ \A i \in DOMAIN c.events : c.events[i] \in EventSet
  BY <1>1, <1>2, ElementOfSeq
<1>4. Elements(c.events) \in SUBSET EventSet /\ Elements(c.events) # {}
  BY <1>3 DEF Elements
<1>5. IsFiniteSet(Elements(c.events)) /\ IsFiniteSet(DOMAIN c.events)
  BY <1>1, <1>2, FiniteElements, FS_Interval
<1>6. IsPrefix(c.events, c.events)
  BY <1>1, <1>3, PrefixFacts
<1> QED
  BY <1>1, <1>4, <1>5, <1>6

LEMMA NowIsNat ==
    ASSUME IInv
    PROVE  now \in Nat
  BY BoundAssumption DEF IInv

LEMMA EventFacts ==
    ASSUME IInv, NEW l \in Look
    PROVE  Event(l) \in EventSet
  BY NowIsNat DEF Event, EventSet

(* What a goroutine holds stays behind the rows when every row is new or   *)
(* goes on from one there was.                                             *)
LEMMA QueueStays ==
    ASSUME CasesInv, QueueInv, cases' \in SUBSET CaseSet, created' \in Nat, created <= created',
           UNCHANGED queue,
           \A d \in cases' :
              \/ d.id = created + 1
              \/ \E b \in cases : b.id = d.id /\ IsPrefix(b.events, d.events)
    PROVE  QueueInv'
<1>1. created \in Nat
  BY DEF CasesInv
<1>2. ASSUME NEW r \in Reviewer, NEW c \in Elements(queue[r])
      PROVE  c.id <= created' /\ \A d \in cases' : Precedes(c, d)
  <2>1. c \in CaseSet /\ c.id <= created
    BY <1>2 DEF QueueInv, Elements
  <2>2. c.id \in Nat /\ c.events \in Seq(EventSet)
    BY <2>1, CaseFields
  <2>3. ASSUME NEW d \in cases', c.id = d.id PROVE IsPrefix(c.events, d.events)
    <3>1. d.id # created + 1
      BY <1>1, <2>1, <2>2, <2>3
    <3>2. PICK b \in cases : b.id = d.id /\ IsPrefix(b.events, d.events)
      BY <3>1
    <3>3. IsPrefix(c.events, b.events)
      BY <1>2, <2>3, <3>2 DEF QueueInv, Precedes
    <3>4. b.events \in Seq(EventSet) /\ d.events \in Seq(EventSet) /\ Elements(b.events) # {}
          /\ Elements(b.events) \in SUBSET EventSet
      BY CaseFields DEF CasesInv
    <3>5. PICK e \in EventSet : TRUE
      BY <3>4
    <3> QED
      BY <2>2, <3>2, <3>3, <3>4, <3>5, PrefixFacts
  <2> QED
    BY <1>1, <2>1, <2>2, <2>3 DEF Precedes
<1> QED
  BY <1>2 DEF QueueInv

LEMMA RowsStay ==
    ASSUME CasesInv, QueueInv, cases' \subseteq cases, UNCHANGED <<created, queue>>
    PROVE  CasesInv' /\ QueueInv'
<1>1. CasesInv'
  <2>1. IsFiniteSet(cases')
    BY FS_Subset DEF CasesInv
  <2> QED
    BY <2>1 DEF CasesInv
<1>2. QueueInv'
  BY DEF QueueInv
<1> QED
  BY <1>1, <1>2

(* A new case gets the next id. *)
LEMMA CaseIsAdded ==
    ASSUME CasesInv, QueueInv, NEW d \in CaseSet, d.id = created + 1,
           cases' = cases \cup {d}, created' = created + 1, created < MaxCases, UNCHANGED queue
    PROVE  CasesInv' /\ QueueInv'
<1>1. /\ created \in Nat /\ created' \in 0..MaxCases /\ cases' \in SUBSET CaseSet
      /\ \A c \in cases : c.id \in Nat /\ c.id <= created
  BY CaseFields, BoundAssumption DEF CasesInv
<1>2. IsFiniteSet(cases')
  BY FS_AddElement DEF CasesInv
<1>3. CasesInv'
  BY <1>1, <1>2 DEF CasesInv
<1>4. \A c \in cases' : \/ c.id = created + 1
                        \/ \E b \in cases : b.id = c.id /\ IsPrefix(b.events, c.events)
  BY CaseFields DEF CasesInv
<1>5. QueueInv'
  BY <1>1, <1>4, QueueStays
<1> QED
  BY <1>3, <1>5

(* A row is written over by one that has its events. *)
LEMMA CaseIsChanged ==
    ASSUME CasesInv, QueueInv, NEW c \in cases, NEW d \in CaseSet, d.id = c.id,
           IsPrefix(c.events, d.events), cases' = (cases \ {c}) \cup {d},
           UNCHANGED <<created, queue>>
    PROVE  CasesInv' /\ QueueInv'
<1>1. cases' \in SUBSET CaseSet /\ created \in Nat
  BY DEF CasesInv
<1>2. IsFiniteSet(cases')
  <2>1. IsFiniteSet(cases \ {c})
    BY FS_Subset DEF CasesInv
  <2> QED
    BY <2>1, FS_AddElement
<1>3. CasesInv'
  BY <1>1, <1>2 DEF CasesInv
<1>4. \A x \in cases' : \/ x.id = created + 1
                        \/ \E b \in cases : b.id = x.id /\ IsPrefix(b.events, x.events)
  BY CaseFields DEF CasesInv
<1>5. QueueInv'
  BY <1>1, <1>4, QueueStays
<1> QED
  BY <1>3, <1>5

LEMMA OpenCaseKeepsIInv ==
    ASSUME IInv, NEW l \in AgentLook, OpenCase(l)
    PROVE  IInv'
<1> DEFINE d == NewCase(SeverityOf[l.port], now, <<Event(l)>>)
           k == Key(l)
<1>1. Event(l) \in EventSet /\ <<Event(l)>> \in Seq(EventSet) /\ <<Event(l)>> # <<>>
  BY EventFacts DEF Look
<1>2. /\ created \in 0..MaxCases /\ created < MaxCases /\ MaxCases \in Nat /\ now \in Nat
      /\ MaxEvents \in Nat /\ SeverityOf[l.port] \in Severity
  BY NowIsNat, LookAssumption, BoundAssumption DEF OpenCase, IInv, CasesInv, Severity
<1>3. d \in CaseSet /\ d.id = created + 1
  BY <1>1, <1>2 DEF NewCase, CaseSet
<1> HIDE DEF d
<1>4. CasesInv' /\ QueueInv'
  <2>1. cases' = cases \cup {d} /\ created' = created + 1 /\ UNCHANGED queue
    BY DEF OpenCase, d, analyst
  <2> QED
    BY <1>2, <1>3, <2>1, CaseIsAdded DEF IInv
<1>5. log' \in Seq(EventSet) /\ Len(log') <= MaxEvents + 1
  <2>1. log \in Seq(EventSet) /\ Len(log) < MaxEvents /\ Len(log) \in Nat
    BY LenProperties DEF IInv, IngestInv, OpenCase
  <2>2. Append(log, Event(l)) \in Seq(EventSet) /\ Len(Append(log, Event(l))) = Len(log) + 1
    BY <1>1, <2>1, AppendProperties
  <2>3. <<Event(l), Event(l)>> \in Seq(EventSet) /\ Len(<<Event(l), Event(l)>>) = 2
    BY <1>1
  <2>4. /\ log \o <<Event(l), Event(l)>> \in Seq(EventSet)
        /\ Len(log \o <<Event(l), Event(l)>>) = Len(log) + 2
    BY <2>1, <2>3, ConcatProperties
  <2>5. log' = IF index[k] = 0 THEN Append(log, Event(l)) ELSE log \o <<Event(l), Event(l)>>
    BY DEF OpenCase
  <2> QED
    BY <1>2, <2>1, <2>2, <2>4, <2>5
<1>6. index' \in [{Key(x) : x \in AgentLook} -> 0..created']
  <2>1. index \in [{Key(x) : x \in AgentLook} -> 0..created]
    BY DEF IInv, IngestInv
  <2>2. index' = [index EXCEPT ![k] = created'] /\ created' = created + 1
    BY DEF OpenCase
  <2>3. 0..created \subseteq 0..created' /\ created' \in 0..created'
    BY <1>2, <2>2
  <2> HIDE DEF k
  <2> QED
    BY <2>1, <2>2, <2>3
<1>7. buffer' \in Seq([id : Nat, sev : Severity, event : EventSet])
  <2> DEFINE T == [id : Nat, sev : Severity, event : EventSet]
             b == [id |-> created', sev |-> SeverityOf[l.port], event |-> Event(l)]
  <2>1. b \in T
    BY <1>1, <1>2 DEF OpenCase
  <2>2. buffer' = buffer \/ buffer' = Append(buffer, b)
    BY DEF OpenCase
  <2>3. buffer \in Seq(T)
    BY DEF IInv, IngestInv
  <2> HIDE DEF b, T
  <2>4. Append(buffer, b) \in Seq(T)
    BY <2>1, <2>3, AppendProperties
  <2>5. buffer' \in Seq(T)
    BY <2>2, <2>3, <2>4
  <2> QED
    BY <2>5 DEF T
<1>8. IngestInv'
  BY <1>5, <1>6, <1>7 DEF IngestInv
<1>9. UNCHANGED <<now, registry, commands, feed>>
  BY DEF OpenCase, analyst
<1> QED
  BY <1>4, <1>8, <1>9 DEF IInv

LEMMA AppendEventKeepsIInv ==
    ASSUME IInv, NEW l \in AgentLook, AppendEvent(l)
    PROVE  IInv'
<1> DEFINE k == Key(l)
<1>1. PICK c \in Rows(index[k]) :
          LET d == [c EXCEPT !.events = Append(@, Event(l)), !.updated = now] IN
          /\ cases' = (cases \ {c}) \cup {d}
          /\ index' = [index EXCEPT ![k] = IF Len(d.events) >= BurstMaxEvents THEN 0 ELSE @]
  BY DEF AppendEvent
<1> DEFINE grown == Append(c.events, Event(l))
           d == [c EXCEPT !.events = Append(@, Event(l)), !.updated = now]
<1>2. UNCHANGED <<created, now, buffer, registry, queue, commands, feed>>
  BY DEF AppendEvent, analyst
<1>3. c \in cases /\ c \in CaseSet /\ created \in Nat
  BY DEF Rows, IInv, CasesInv
<1>4. c.events \in Seq(EventSet) /\ Event(l) \in EventSet /\ now \in Nat
  BY <1>3, CaseFields, EventFacts, NowIsNat DEF Look
<1>5. grown \in Seq(EventSet) /\ grown # <<>> /\ IsPrefix(c.events, grown)
  BY <1>4, AppendProperties, PrefixFacts
<1>6. d = [c EXCEPT !.events = grown, !.updated = now]
  OBVIOUS
<1> HIDE DEF grown
<1>7. d \in CaseSet /\ d.id = c.id /\ d.events = grown
  BY <1>3, <1>4, <1>5, <1>6 DEF CaseSet
<1>8. /\ cases' = (cases \ {c}) \cup {d}
      /\ index' = [index EXCEPT ![k] = IF Len(d.events) >= BurstMaxEvents THEN 0 ELSE @]
  BY <1>1
<1> HIDE DEF d
<1>9. CasesInv' /\ QueueInv'
  BY <1>2, <1>3, <1>5, <1>7, <1>8, CaseIsChanged DEF IInv
<1>10. log' \in Seq(EventSet) /\ Len(log') <= MaxEvents + 1
  <2>1. log \in Seq(EventSet) /\ Len(log) < MaxEvents /\ Len(log) \in Nat /\ MaxEvents \in Nat
    BY LenProperties, BoundAssumption DEF IInv, IngestInv, AppendEvent
  <2>2. log' = Append(log, Event(l))
    BY DEF AppendEvent
  <2> QED
    BY <1>4, <2>1, <2>2, AppendProperties
<1>11. index' \in [{Key(x) : x \in AgentLook} -> 0..created']
  <2>1. index \in [{Key(x) : x \in AgentLook} -> 0..created] /\ 0 \in 0..created
    BY <1>3 DEF IInv, IngestInv
  <2>2. index' = [index EXCEPT ![k] = 0] \/ index' = [index EXCEPT ![k] = index[k]]
    BY <1>8
  <2>3. k \in {Key(x) : x \in AgentLook}
    OBVIOUS
  <2> HIDE DEF k
  <2> QED
    BY <1>2, <2>1, <2>2, <2>3
<1> QED
  BY <1>2, <1>9, <1>10, <1>11 DEF IInv, IngestInv

LEMMA FlushBurstKeepsIInv ==
    ASSUME IInv, FlushBurst
    PROVE  IInv'
<1> DEFINE T == [id : Nat, sev : Severity, event : EventSet]
           held == Elements(buffer)
           severity == IF \A b \in held : b.event.port \notin KnownPort THEN "info"
                       ELSE IF \E b \in held : b.sev = "medium" THEN "medium" ELSE "low"
           events == [i \in DOMAIN buffer |-> buffer[i].event]
           d == NewCase(severity, now, events)
<1>1. /\ cases' = cases \cup {d} /\ created' = created + 1 /\ created < MaxCases
      /\ buffer' = <<>> /\ Len(buffer) >= BurstThreshold
      /\ UNCHANGED <<log, now, index, registry, queue, commands, feed>>
  BY DEF FlushBurst, analyst
<1>2. severity \in Severity
  BY DEF Severity, AskedSeverity
<1>3. events \in Seq(EventSet) /\ events # <<>>
  <2>1. buffer \in Seq(T)
    BY DEF IInv, IngestInv
  <2>2. Len(buffer) \in Nat /\ DOMAIN buffer = 1..Len(buffer) /\ \A i \in DOMAIN buffer : buffer[i] \in T
    BY <2>1, LenProperties, ElementOfSeq
  <2>3. Len(buffer) >= 1
    BY <1>1, <2>2, BoundAssumption
  <2>4. \A i \in 1..Len(buffer) : buffer[i].event \in EventSet
    BY <2>2
  <2>5. events = [i \in 1..Len(buffer) |-> buffer[i].event]
    BY <2>2
  <2> HIDE DEF events
  <2>6. events \in Seq(EventSet)
    BY <2>2, <2>4, <2>5, IsASeq
  <2>7. 1 \in DOMAIN events
    BY <2>2, <2>3, <2>5
  <2> QED
    BY <2>6, <2>7
<1> HIDE DEF severity, events
<1>4. now \in Nat /\ created \in 0..MaxCases /\ MaxCases \in Nat
  BY NowIsNat, BoundAssumption DEF IInv, CasesInv
<1>5. d \in CaseSet /\ d.id = created + 1
  BY <1>1, <1>2, <1>3, <1>4 DEF NewCase, CaseSet
<1> HIDE DEF d
<1>6. CasesInv' /\ QueueInv'
  BY <1>1, <1>5, CaseIsAdded DEF IInv
<1>7. IngestInv'
  <2>1. 0..created \subseteq 0..created'
    BY <1>1, <1>4
  <2>2. index' \in [{Key(l) : l \in AgentLook} -> 0..created']
    BY <1>1, <2>1 DEF IInv, IngestInv
  <2>3. buffer' \in Seq(T)
    BY <1>1, EmptySeq
  <2> QED
    BY <1>1, <2>2, <2>3 DEF IInv, IngestInv
<1> QED
  BY <1>1, <1>6, <1>7 DEF IInv

(* A batch that is alerted as it is, and the stubs of a roll-up.           *)
LEMMA RestOfFlushKeepsIInv ==
    ASSUME IInv, DrainBurst \/ DeleteStub \/ DeleteStubFails
    PROVE  IInv'
<1>1. /\ cases' \subseteq cases
      /\ buffer' \in {buffer, <<>>}
      /\ UNCHANGED <<created, log, now, index, registry, queue, commands, feed>>
  BY DEF DrainBurst, DeleteStub, DeleteStubFails, store, analyst
<1>2. CasesInv' /\ QueueInv'
  BY <1>1, RowsStay DEF IInv
<1>3. IngestInv'
  BY <1>1, EmptySeq DEF IInv, IngestInv
<1> QED
  BY <1>1, <1>2, <1>3 DEF IInv

LEMMA RecordKeepsIInv ==
    ASSUME IInv, NEW l \in CollectorLook, Record(l)
    PROVE  IInv'
<1>1. /\ log' = Append(log, Event(l)) /\ Len(log) < MaxEvents
      /\ UNCHANGED <<cases, created, now, index, buffer, registry, queue, commands, feed>>
  BY DEF Record, ingest, analyst
<1>2. log \in Seq(EventSet) /\ Event(l) \in EventSet /\ MaxEvents \in Nat /\ Len(log) \in Nat
  BY EventFacts, BoundAssumption, LenProperties DEF Look, IInv, IngestInv
<1>3. log' \in Seq(EventSet) /\ Len(log') <= MaxEvents + 1
  BY <1>1, <1>2, AppendProperties
<1>4. IngestInv'
  BY <1>1, <1>3 DEF IInv, IngestInv
<1> QED
  BY <1>1, <1>4 DEF IInv, CasesInv, QueueInv

LEMMA TimesOf ==
    ASSUME NEW E \in SUBSET EventSet, IsFiniteSet(E), E # {}
    PROVE  /\ Latest(E) \in Nat
           /\ Min({e.at : e \in E}) \in Nat
<1> DEFINE at == [e \in E |-> e.at]
           times == {at[e] : e \in E}
<1>1. times \in SUBSET Nat /\ times # {}
  BY DEF EventSet
<1>2. IsFiniteSet(times)
  <2> HIDE DEF at
  <2> QED
    BY FiniteImage
<1>3. times = {e.at : e \in E}
  OBVIOUS
<1> HIDE DEF times
<1> QED
  BY <1>1, <1>2, <1>3, MaxFacts, MinFacts DEF Latest

LEMMA CorrelateKeepsIInv ==
    ASSUME IInv, NEW src \in DOMAIN Network, Correlate(src)
    PROVE  IInv'
<1> DEFINE events == Only(Reverse(log), {e \in Elements(log) : e.src = src})
           made == Min({e.at : e \in Elements(events)})
           sev == ClusterSeverity(events)
           d == NewCase(sev, made, events)
<1>1. /\ cases' = cases \cup {d} /\ created' = created + 1 /\ created < MaxCases
      /\ Len(events) >= ClusterThreshold
      /\ UNCHANGED <<log, now, index, buffer, registry, queue, commands, feed>>
  BY DEF Correlate, analyst, ingest
<1>2. events \in Seq(EventSet)
  <2>1. Reverse(log) \in Seq(EventSet)
    BY ReverseFacts DEF IInv, IngestInv
  <2> QED
    BY <2>1, OnlyFacts
<1> HIDE DEF events
<1>3. /\ events # <<>> /\ Elements(events) \in SUBSET EventSet /\ Elements(events) # {}
      /\ IsFiniteSet(Elements(events))
  <2>1. Len(events) \in Nat /\ DOMAIN events = 1..Len(events)
    BY <1>2, LenProperties
  <2>2. 1 \in DOMAIN events
    BY <1>1, <2>1, BoundAssumption
  <2>3. \A i \in DOMAIN events : events[i] \in EventSet
    BY <1>2, <2>1, ElementOfSeq
  <2> QED
    BY <1>2, <2>2, <2>3, FiniteElements DEF Elements
<1>4. made \in Nat
  BY <1>3, TimesOf
<1>5. sev \in Severity
  <2>1. sev \in {"high", "medium", "low"}
    BY DEF ClusterSeverity
  <2> HIDE DEF sev
  <2> QED
    BY <2>1 DEF Severity, AskedSeverity
<1> HIDE DEF made, sev
<1>6. now \in Nat /\ created \in 0..MaxCases /\ MaxCases \in Nat
  BY NowIsNat, BoundAssumption DEF IInv, CasesInv
<1>7. d \in CaseSet /\ d.id = created + 1
  BY <1>1, <1>2, <1>3, <1>4, <1>5, <1>6 DEF NewCase, CaseSet
<1> HIDE DEF d
<1>8. CasesInv' /\ QueueInv'
  BY <1>1, <1>7, CaseIsAdded DEF IInv
<1>9. IngestInv'
  <2>1. 0..created \subseteq 0..created'
    BY <1>1, <1>6
  <2> QED
    BY <1>1, <2>1 DEF IInv, IngestInv
<1> QED
  BY <1>1, <1>8, <1>9 DEF IInv

LEMMA RestartKeepsIInv ==
    ASSUME IInv, Restart
    PROVE  IInv'
<1>1. /\ UNCHANGED <<cases, created, log, now, registry, commands>>
      /\ index' = [k \in DOMAIN index |-> 0] /\ buffer' = <<>>
      /\ queue' = [r \in Reviewer |-> <<>>] /\ feed' \in {Score, <<>>}
  BY DEF Restart, store
<1>2. index' \in [{Key(l) : l \in AgentLook} -> 0..created] /\ created \in Nat
  BY <1>1 DEF IInv, IngestInv, CasesInv
<1>3. IngestInv'
  BY <1>1, <1>2, EmptySeq DEF IInv, IngestInv
<1>4. queue' \in [Reviewer -> Seq(CaseSet)] /\ \A r \in Reviewer : Elements(queue'[r]) = {}
  BY <1>1, EmptySeq DEF Elements
<1>5. QueueInv'
  BY <1>4 DEF QueueInv
<1> QED
  BY <1>1, <1>3, <1>5 DEF IInv, CasesInv

LEMMA SetCaseStatusKeepsIInv ==
    ASSUME IInv, NEW c \in cases, SetCaseStatus(c)
    PROVE  IInv'
<1> DEFINE d == [c EXCEPT !.updated = now]
<1>1. /\ cases' = (cases \ {c}) \cup {d}
      /\ UNCHANGED <<created, log, now, index, buffer, registry, queue, commands, feed>>
  BY DEF SetCaseStatus, ingest, analyst
<1>2. c \in CaseSet /\ now \in Nat
  BY NowIsNat DEF IInv, CasesInv
<1>3. d \in CaseSet /\ d.id = c.id /\ d.events = c.events
  BY <1>2 DEF CaseSet
<1>4. IsPrefix(c.events, d.events)
  BY <1>2, <1>3, CaseFields
<1> HIDE DEF d
<1>5. CasesInv' /\ QueueInv'
  BY <1>1, <1>3, <1>4, CaseIsChanged DEF IInv
<1> QED
  BY <1>1, <1>5 DEF IInv, IngestInv

LEMMA RegistryKeepsIInv ==
    ASSUME IInv, NEW ip \in Host, AddDevice(ip) \/ RemoveDevice(ip)
    PROVE  IInv'
<1>1. registry \in Seq(Host)
  BY DEF IInv
<1>2. Without(ip) \in Seq(Host)
  BY <1>1, OnlyFacts DEF Without
<1>3. registry' \in Seq(Host)
  BY <1>2, AppendProperties DEF AddDevice, RemoveDevice
<1>4. UNCHANGED <<cases, created, log, now, index, buffer, feed, queue, commands>>
  BY DEF AddDevice, RemoveDevice, store, ingest
<1> QED
  BY <1>3, <1>4 DEF IInv, CasesInv, QueueInv, IngestInv

(* A listing is made of different rows. *)
LEMMA ListedFacts ==
    ASSUME NEW rows, IsFiniteSet(rows), NEW limit \in Nat, NEW s \in Listings(rows, limit)
    PROVE  s \in Seq(rows) /\ Elements(s) \subseteq rows /\ Distinct(s)
<1>1. PICK f \in SetToSeqs(rows) : s = Take(f, limit)
  BY DEF Listings
<1> DEFINE size == Cardinality(rows)
<1>2. size \in Nat
  BY FS_CardinalityType
<1>3. f \in [1..size -> rows] /\ \A i, j \in 1..size : i # j => f[i] # f[j]
  BY DEF SetToSeqs
<1> HIDE DEF size
<1>4. f \in Seq(rows) /\ Distinct(f)
  <2>1. f = [i \in 1..size |-> f[i]] /\ \A i \in 1..size : f[i] \in rows
    BY <1>3
  <2>2. f \in Seq(rows)
    BY <1>2, <2>1, IsASeq
  <2> QED
    BY <1>3, <2>2 DEF Distinct
<1>5. s \in Seq(rows) /\ Distinct(s)
  BY <1>1, <1>4, TakeFacts
<1>6. Elements(s) \subseteq rows
  BY <1>5, LenProperties, ElementOfSeq DEF Elements
<1> QED
  BY <1>5, <1>6

LEMMA SelectedFrom ==
    ASSUME NEW T, NEW s \in Seq(T), NEW o, o.limit \in Nat, NEW time, NEW lost
    PROVE  FilterReviewCases(s, o, time, lost) \in Seq(T)
<1> DEFINE matching == {c \in Elements(s) : Matches(c, o, time, lost)}
           kept == Only(s, matching)
           limit == IF o.limit = Unset THEN DefaultLimit ELSE o.limit
           chosen == IF o.dedupe THEN Dedupe(kept, lost) ELSE kept
<1>1. limit \in Nat
  BY LimitAssumption
<1>2. FilterReviewCases(s, o, time, lost) = Take(chosen, limit)
  BY DEF FilterReviewCases
<1> HIDE DEF matching
<1>3. kept \in Seq(T)
  BY OnlyFacts
<1> HIDE DEF kept
<1>4. PICK K : Dedupe(kept, lost) = Only(kept, K)
  BY DEF Dedupe
<1>5. Dedupe(kept, lost) \in Seq(T)
  BY <1>3, <1>4, OnlyFacts
<1>6. chosen \in Seq(T)
  BY <1>3, <1>5
<1> HIDE DEF chosen, limit
<1> QED
  BY <1>1, <1>2, <1>6, TakeFacts

(* What a command selects from the rows may wait in the queue. *)
LEMMA StartKeepsIInv ==
    ASSUME IInv, NEW r \in Reviewer, NEW selected \in Seq(cases), Start(r, selected)
    PROVE  IInv'
<1>1. /\ commands' = commands + 1 /\ commands < MaxCommands
      /\ queue' = [queue EXCEPT ![r] = selected]
      /\ UNCHANGED <<cases, created, log, now, index, buffer, registry, feed>>
  BY DEF Start, store, ingest
<1>2. commands' \in 0..MaxCommands
  BY <1>1, BoundAssumption DEF IInv
<1>3. selected \in Seq(CaseSet) /\ Elements(selected) \subseteq cases
  <2>1. /\ Len(selected) \in Nat /\ selected = [i \in 1..Len(selected) |-> selected[i]]
        /\ DOMAIN selected = 1..Len(selected) /\ \A i \in 1..Len(selected) : selected[i] \in cases
    BY LenProperties, ElementOfSeq
  <2>2. \A i \in 1..Len(selected) : selected[i] \in CaseSet
    BY <2>1 DEF IInv, CasesInv
  <2>3. selected \in Seq(CaseSet)
    BY <2>1, <2>2, IsASeq
  <2> QED
    BY <2>1, <2>3 DEF Elements
<1>4. ASSUME NEW c \in cases PROVE c.id <= created /\ \A d \in cases : Precedes(c, d)
  BY CaseFields DEF IInv, CasesInv, Precedes
<1>5. queue' \in [Reviewer -> Seq(CaseSet)]
  BY <1>1, <1>3 DEF IInv, QueueInv
<1>6. \A p \in Reviewer : queue'[p] = IF p = r THEN selected ELSE queue[p]
  BY <1>1 DEF IInv, QueueInv
<1>7. ASSUME NEW p \in Reviewer, NEW c \in Elements(queue'[p])
      PROVE  c.id <= created /\ \A d \in cases : Precedes(c, d)
  <2>1. CASE p = r
    BY <1>3, <1>4, <1>6, <1>7, <2>1
  <2>2. CASE p # r
    BY <1>6, <1>7, <2>2 DEF IInv, QueueInv
  <2> QED
    BY <2>1, <2>2
<1>8. QueueInv'
  BY <1>1, <1>5, <1>7 DEF QueueInv, Precedes
<1> QED
  BY <1>1, <1>2, <1>8 DEF IInv, CasesInv, IngestInv

LEMMA ReviewAllKeepsIInv ==
    ASSUME IInv, NEW r \in Reviewer, NEW o \in ReviewOption, CmdReviewAll(r, o)
    PROVE  IInv'
<1>1. PICK listed \in Listings(cases, MaxListed) :
          \E lost : Start(r, FilterReviewCases(listed, o, now, lost))
  BY DEF CmdReviewAll
<1>2. listed \in Seq(cases) /\ o.limit \in Nat
  BY ListedFacts, OptionAssumption, BoundAssumption DEF IInv, CasesInv
<1>3. \A lost : FilterReviewCases(listed, o, now, lost) \in Seq(cases)
  BY <1>2, SelectedFrom
<1> QED
  BY <1>1, <1>3, StartKeepsIInv

LEMMA NextKeepsIInv ==
    ASSUME IInv, NEW r \in Reviewer, CmdNext(r)
    PROVE  IInv'
<1>1. PICK c \in cases : Start(r, <<c>>)
  BY DEF CmdNext
<1>2. <<c>> \in Seq(cases)
  OBVIOUS
<1> QED
  BY <1>1, <1>2, StartKeepsIInv

(* The rest of the queue waits on. *)
LEMMA TailKeepsIInv ==
    ASSUME IInv, NEW r \in Reviewer, queue[r] # <<>>,
           queue' = [queue EXCEPT ![r] = Tail(@)],
           UNCHANGED <<cases, created, log, now, index, buffer, registry, feed, commands>>
    PROVE  IInv'
<1>1. queue \in [Reviewer -> Seq(CaseSet)] /\ queue[r] \in Seq(CaseSet)
  BY DEF IInv, QueueInv
<1>2. Tail(queue[r]) \in Seq(CaseSet) /\ Elements(Tail(queue[r])) \subseteq Elements(queue[r])
  <2> DEFINE q == queue[r]
             t == Tail(q)
  <2>1. q \in Seq(CaseSet) /\ q # <<>>
    BY <1>1
  <2> HIDE DEF q
  <2>2. t \in Seq(CaseSet) /\ Len(t) = Len(q) - 1 /\ \A i \in 1..Len(t) : t[i] = q[i + 1]
    BY <2>1, HeadTailProperties
  <2>3. Len(q) \in Nat /\ DOMAIN q = 1..Len(q)
    BY <2>1, LenProperties
  <2> HIDE DEF t
  <2>4. DOMAIN t = 1..Len(t)
    BY <2>2, LenProperties
  <2>5. \A i \in DOMAIN t : i + 1 \in DOMAIN q /\ t[i] = q[i + 1]
    BY <2>2, <2>3, <2>4
  <2> QED
    BY <2>2, <2>5 DEF Elements, q, t
<1>3. queue' \in [Reviewer -> Seq(CaseSet)]
  BY <1>1, <1>2
<1>4. \A p \in Reviewer : queue'[p] = IF p = r THEN Tail(queue[r]) ELSE queue[p]
  BY <1>1
<1>5. \A p \in Reviewer : Elements(queue'[p]) \subseteq Elements(queue[p])
  BY <1>2, <1>4
<1>6. QueueInv'
  BY <1>3, <1>5 DEF IInv, QueueInv, Precedes
<1> QED
  BY <1>6 DEF IInv, CasesInv, IngestInv

(* What the ingest, the correlator and the commands keep true: every row   *)
(* has an id of its own, and what a goroutine copied is a beginning of the *)
(* row, or the row is gone (handler.go:1173-1249).                         *)
THEOREM IInvHolds == Spec => []IInv
<1>1. Init => IInv
  <2> SUFFICES ASSUME Init PROVE IInv
    OBVIOUS
  <2>1. CasesInv
    BY FS_EmptySet, BoundAssumption DEF Init, CasesInv
  <2>2. queue \in [Reviewer -> Seq(CaseSet)] /\ \A r \in Reviewer : Elements(queue[r]) = {}
    BY EmptySeq DEF Init, Elements
  <2>3. IngestInv
    BY EmptySeq, BoundAssumption DEF Init, IngestInv
  <2> QED
    BY <2>1, <2>2, <2>3, EmptySeq, BoundAssumption DEF Init, QueueInv, IInv
<1>2. IInv /\ [Next]_vars => IInv'
  <2> SUFFICES ASSUME IInv, [Next]_vars PROVE IInv'
    OBVIOUS
  <2>1. CASE \E l \in AgentLook : OpenCase(l) \/ AppendEvent(l)
    BY <2>1, OpenCaseKeepsIInv, AppendEventKeepsIInv
  <2>2. CASE FlushBurst \/ DrainBurst \/ DeleteStub \/ DeleteStubFails
    BY <2>2, FlushBurstKeepsIInv, RestOfFlushKeepsIInv
  <2>3. CASE \E l \in CollectorLook : Record(l)
    BY <2>3, RecordKeepsIInv
  <2>4. CASE \E src \in DOMAIN Network : Correlate(src)
    BY <2>4, CorrelateKeepsIInv
  <2>5. CASE Tick
    BY <2>5 DEF Tick, store, ingest, analyst, IInv, CasesInv, QueueInv, IngestInv
  <2>6. CASE Reload
    BY <2>6 DEF Reload, store, ingest, analyst, IInv, CasesInv, QueueInv, IngestInv
  <2>7. CASE Restart
    BY <2>7, RestartKeepsIInv
  <2>8. CASE \E c \in cases : SetCaseStatus(c)
    BY <2>8, SetCaseStatusKeepsIInv
  <2>9. CASE \E ip \in Host : AddDevice(ip) \/ RemoveDevice(ip)
    BY <2>9, RegistryKeepsIInv
  <2>10. CASE \E r \in Reviewer, o \in ReviewOption : CmdReviewAll(r, o)
    BY <2>10, ReviewAllKeepsIInv
  <2>11. CASE \E r \in Reviewer : CmdNext(r) \/ Brief(r) \/ BriefFails(r)
    <3>1. ASSUME NEW r \in Reviewer, Brief(r) \/ BriefFails(r) PROVE IInv'
      BY <3>1, TailKeepsIInv DEF Brief, BriefFails, store, ingest
    <3> QED
      BY <2>11, <3>1, NextKeepsIInv
  <2>12. CASE \E o \in ExportOption : CmdExportBlocklist(o)
    <3>1. UNCHANGED <<store, now, ingest, analyst, feed>>
      BY <2>12 DEF CmdExportBlocklist
    <3> QED
      BY <3>1 DEF store, ingest, analyst, IInv, CasesInv, QueueInv, IngestInv
  <2>13. CASE UNCHANGED vars
    BY <2>13 DEF vars, store, ingest, analyst, IInv, CasesInv, QueueInv, IngestInv
  <2> QED
    BY <2>1, <2>2, <2>3, <2>4, <2>5, <2>6, <2>7, <2>8, <2>9, <2>10, <2>11, <2>12, <2>13 DEF Next
<1> QED
  BY <1>1, <1>2, PTL DEF Spec

(* The rows keep ids of their own, each with an event, and no goroutine    *)
(* briefs a case that was never opened (db.go:646-720).                    *)
THEOREM ReviewTypes == Spec => []TypeOK
<1>1. IInv => TypeOK
  <2> SUFFICES ASSUME IInv PROVE TypeOK
    OBVIOUS
  <2>1. ASSUME NEW c \in CaseSet, c.id <= created PROVE c.id \in 1..created
    BY <2>1, CaseFields DEF IInv, CasesInv
  <2>2. \A c \in cases : c.id \in 1..created /\ c.sev \in Severity /\ c.events # <<>>
    BY <2>1, CaseFields DEF IInv, CasesInv
  <2>3. ASSUME NEW r \in Reviewer, NEW c \in Elements(queue[r]) PROVE c.id \in 1..created
    <3>1. c \in CaseSet /\ c.id <= created
      BY <2>3 DEF IInv, QueueInv, Elements
    <3> QED
      BY <2>1, <3>1
  <2> QED
    BY <2>2, <2>3 DEF IInv, CasesInv, QueueInv, IngestInv, TypeOK
<1> QED
  BY <1>1, IInvHolds, PTL

(* The rows that are listed are the MaxDevices rows last updated.          *)
LEMMA KnownDevices ==
    ASSUME registry \in Seq(Host)
    PROVE  /\ ListKnownDevices \subseteq Elements(registry)
           /\ \A i \in DOMAIN registry :
                 registry[i] \notin ListKnownDevices => Len(registry) - i >= MaxDevices
<1> DEFINE latest == Reverse(registry)
           listed == Take(latest, MaxDevices)
<1>1. /\ latest \in Seq(Host) /\ Len(latest) = Len(registry)
      /\ Elements(latest) = Elements(registry)
      /\ \A i \in DOMAIN registry : /\ Len(registry) - i + 1 \in DOMAIN registry
                                    /\ latest[i] = registry[Len(registry) - i + 1]
  BY ReverseFacts
<1>2. MaxDevices \in Nat /\ ListKnownDevices = Elements(listed)
  BY BoundAssumption DEF ListKnownDevices
<1>3. Len(registry) \in Nat /\ DOMAIN registry = 1..Len(registry)
  BY LenProperties
<1> HIDE DEF latest
<1>4. /\ listed \in Seq(Host)
      /\ Len(listed) = IF Len(latest) < MaxDevices THEN Len(latest) ELSE MaxDevices
      /\ \A i \in DOMAIN listed : listed[i] = latest[i]
      /\ Elements(listed) \subseteq Elements(latest)
  BY <1>1, <1>2, TakeFacts
<1> HIDE DEF listed
<1>5. DOMAIN listed = 1..Len(listed)
  BY <1>4, LenProperties
<1>6. ASSUME NEW i \in DOMAIN registry, ~ (Len(registry) - i >= MaxDevices)
      PROVE  registry[i] \in Elements(listed)
  <2> DEFINE j == Len(registry) - i + 1
  <2>1. j \in 1..Len(registry) /\ j <= MaxDevices /\ i = Len(registry) - j + 1
    BY <1>2, <1>3, <1>6
  <2> HIDE DEF j
  <2>2. j \in DOMAIN listed
    BY <1>1, <1>2, <1>3, <1>4, <1>5, <2>1
  <2>3. listed[j] = registry[i]
    BY <1>1, <1>3, <1>4, <2>1, <2>2
  <2> QED
    BY <2>2, <2>3 DEF Elements
<1> QED
  BY <1>1, <1>2, <1>4, <1>6

(* Who says something. *)
LEMMA Reports ==
    ASSUME [Next]_vars
    PROVE  \/ UNCHANGED vars
           \/ report' = None
           \/ \E r \in Reviewer, o \in ReviewOption : CmdReviewAll(r, o)
           \/ \E r \in Reviewer : Brief(r)
           \/ \E o \in ExportOption : CmdExportBlocklist(o)
<1>1. CASE \E l \in AgentLook : OpenCase(l) \/ AppendEvent(l)
  BY <1>1 DEF OpenCase, AppendEvent
<1>2. CASE FlushBurst \/ DrainBurst \/ DeleteStub \/ DeleteStubFails
  BY <1>2 DEF FlushBurst, DrainBurst, DeleteStub, DeleteStubFails
<1>3. CASE \E l \in CollectorLook : Record(l)
  BY <1>3 DEF Record
<1>4. CASE \E src \in DOMAIN Network : Correlate(src)
  BY <1>4 DEF Correlate
<1>5. CASE Tick \/ Reload \/ Restart
  BY <1>5 DEF Tick, Reload, Restart
<1>6. CASE \E c \in cases : SetCaseStatus(c)
  BY <1>6 DEF SetCaseStatus
<1>7. CASE \E ip \in Host : AddDevice(ip) \/ RemoveDevice(ip)
  BY <1>7 DEF AddDevice, RemoveDevice
<1>8. CASE \E r \in Reviewer : CmdNext(r) \/ BriefFails(r)
  BY <1>8 DEF CmdNext, BriefFails
<1> QED
  BY <1>1, <1>2, <1>3, <1>4, <1>5, <1>6, <1>7, <1>8 DEF Next

LEMMA KindOfReport ==
    ASSUME NEW r, NEW o
    PROVE  /\ CmdReviewAll(r, o) => report'.kind = "selection"
           /\ Brief(r) => report'.kind = "briefing"
           /\ CmdExportBlocklist(o) => report'.kind = "blocklist"
<1>1. ASSUME CmdReviewAll(r, o) PROVE report'.kind = "selection"
  <2>1. PICK s, lost : report' = [kind |-> "selection", options |-> o, reviewer |-> r,
                                  listed |-> s, lost |-> lost]
    BY <1>1 DEF CmdReviewAll
  <2> QED
    BY <2>1
<1>2. ASSUME Brief(r) PROVE report'.kind = "briefing"
  <2>1. PICK c, plan, whole : report' = [kind |-> "briefing", case |-> c, plan |-> plan,
                                         whole |-> whole]
    BY <1>2 DEF Brief
  <2> QED
    BY <2>1
<1>3. ASSUME CmdExportBlocklist(o) PROVE report'.kind = "blocklist"
  <2>1. PICK s, lost, lines : report' = [kind |-> "blocklist", options |-> o, lines |-> lines,
                                         listed |-> s, lost |-> lost]
    BY <1>3 DEF CmdExportBlocklist
  <2> QED
    BY <2>1
<1> QED
  BY <1>1, <1>2, <1>3

LEMMA BriefIsSound ==
    ASSUME IInv, NEW r \in Reviewer, Brief(r)
    PROVE  BriefingsAreSound'
<1> DEFINE c == Head(queue[r])
           all == Elements(c.events)
<1>1. PICK lost \in Lost({c}, {"brief"}), known \in {ListKnownDevices, {}}, told \in SUBSET Accused :
          report' = [kind |-> "briefing", case |-> c,
                     plan |-> ActionPlan(TriageState(Read(c, "brief", lost), known, feed, told)),
                     whole |-> lost = {} /\ known = ListKnownDevices]
  BY DEF Brief
<1> DEFINE E == Read(c, "brief", lost)
           plan == ActionPlan(TriageState(E, known, feed, told))
<1>2. cases' = cases /\ registry' = registry /\ feed' = feed
  BY DEF Brief, store
<1>3. queue[r] \in Seq(CaseSet) /\ queue[r] # <<>>
  BY DEF IInv, QueueInv, Brief
<1>4. c \in Elements(queue[r])
  BY <1>3, EmptySeq, LenProperties DEF Elements
<1>5. \A a \in DOMAIN feed : feed[a] \in Nat
  BY ScoreAssumption DEF IInv
<1>6. E \in SUBSET all /\ (lost = {} => E = all)
  BY DEF Read, Got, Elements
<1>7. /\ ListKnownDevices \subseteq Elements(registry)
      /\ \A i \in DOMAIN registry :
            registry[i] \notin ListKnownDevices => Len(registry) - i >= MaxDevices
  BY KnownDevices DEF IInv
<1>8. \A d \in cases : c.id = d.id => IsPrefix(c.events, d.events)
  BY <1>4 DEF IInv, QueueInv, Precedes
<1> HIDE DEF c, E
<1>9. /\ plan = "F" => Scored(Addresses(all), feed, BlacklistThreshold)
      /\ plan = "E" => Addresses(all) \cap Benign # {}
      /\ plan = "D" => \/ Scored(Addresses(all), feed, MaliciousThreshold)
                       \/ Addresses(all) \cap told # {}
      /\ plan = "C" => Reached(all) \cap known # {}
      /\ E = all =>
            /\ plan = "A" => Reached(all) = {}
            /\ plan = "B" => Reached(all) \cap known = {}
            /\ Scored(Addresses(all), feed, BlacklistThreshold) => plan = "F"
            /\ Scored(Addresses(all), feed, MaliciousThreshold) => plan \in {"D", "E", "F"}
  BY <1>5, <1>6, PlansAreSound
<1>10. /\ report'.case = c /\ report'.plan = plan
       /\ report'.whole <=> lost = {} /\ known = ListKnownDevices
  <2> DEFINE whole == lost = {} /\ known = ListKnownDevices
  <2>1. report' = [kind |-> "briefing", case |-> c, plan |-> plan, whole |-> whole]
    BY <1>1 DEF E
  <2> HIDE DEF plan, whole
  <2>2. report'.case = c /\ report'.plan = plan /\ report'.whole = whole
    BY <2>1
  <2> QED
    BY <2>2 DEF whole
<1> HIDE DEF plan
<1>11. Landings' = Reached(all)
  BY <1>10 DEF Landings, Reached
<1> HIDE DEF all
<1>12. \A d \in cases' : d.id = report'.case.id => IsPrefix(report'.case.events, d.events)
  BY <1>2, <1>8, <1>10
<1>13. Elements(report'.case.events) = all
  BY <1>10 DEF all
<1>14. /\ report'.plan = "F" => Scored(Addresses(all), feed', BlacklistThreshold)
       /\ report'.plan = "E" => Addresses(all) \cap Benign # {}
       /\ report'.plan = "D" => \/ Scored(Addresses(all), feed', MaliciousThreshold)
                                \/ Addresses(all) \cap Accused # {}
       /\ report'.plan = "C" => Landings' \cap Elements(registry') # {}
  BY <1>2, <1>7, <1>9, <1>10, <1>11
<1>15. ASSUME report'.whole
       PROVE  /\ report'.plan = "A" => Landings' = {}
              /\ report'.plan = "B" =>
                    \A i \in DOMAIN registry' :
                        registry'[i] \in Landings' => Len(registry') - i >= MaxDevices
              /\ Scored(Addresses(all), feed', BlacklistThreshold) => report'.plan = "F"
              /\ Scored(Addresses(all), feed', MaliciousThreshold) =>
                    report'.plan \in {"D", "E", "F"}
  BY <1>2, <1>6, <1>7, <1>9, <1>10, <1>11, <1>15
<1> QED
  BY <1>12, <1>13, <1>14, <1>15 DEF BriefingsAreSound, Rows

(* What a briefing accuses of is true of the case as it was selected, of   *)
(* which the row as it is now is a continuation, and of the registry and   *)
(* the feed of the moment; what it rules out is, if nothing was passed     *)
(* over, whatever has happened since (handler.go:421-621, 1195-1211).      *)
THEOREM BriefingsAreTrue == Spec => []BriefingsAreSound
<1>1. Init => BriefingsAreSound
  BY DEF Init, BriefingsAreSound, Said
<1>2. IInv /\ BriefingsAreSound /\ [Next]_vars => BriefingsAreSound'
  <2> SUFFICES ASSUME IInv, BriefingsAreSound, [Next]_vars PROVE BriefingsAreSound'
    OBVIOUS
  <2>1. CASE \E r \in Reviewer : Brief(r)
    BY <2>1, BriefIsSound
  <2>2. CASE ~ Said("briefing")'
    BY <2>2 DEF BriefingsAreSound
  <2>3. CASE UNCHANGED vars
    BY <2>3 DEF vars, store, analyst, BriefingsAreSound, Said, Landings, Rows
  <2>4. (\E r \in Reviewer, o \in ReviewOption : CmdReviewAll(r, o)) => ~ Said("briefing")'
    BY KindOfReport DEF Said
  <2>5. (\E o \in ExportOption : CmdExportBlocklist(o)) => ~ Said("briefing")'
    BY KindOfReport DEF Said
  <2>6. report' = None => ~ Said("briefing")'
    BY DEF Said
  <2> QED
    BY <2>1, <2>2, <2>3, <2>4, <2>5, <2>6, Reports
<1> QED
  BY <1>1, <1>2, IInvHolds, PTL DEF Spec

(* When a case was active is known, with its events or without. *)
LEMMA RecencyIsNat ==
    ASSUME NEW c \in CaseSet, NEW lost
    PROVE  Recency(c, lost) \in Nat /\ ExportRecency(c, lost) \in Nat
<1>1. c.updated \in Nat
  BY CaseFields
<1>2. ASSUME NEW pass, Read(c, pass, lost) # {} PROVE Latest(Read(c, pass, lost)) \in Nat
  <2> DEFINE E == Read(c, pass, lost)
  <2>1. E \subseteq Elements(c.events)
    BY DEF Read, Got, Elements
  <2>2. E \in SUBSET EventSet /\ IsFiniteSet(E)
    BY <2>1, CaseFields, FS_Subset
  <2> HIDE DEF E
  <2>3. Latest(E) \in Nat
    BY <1>2, <2>2, TimesOf DEF E
  <2> QED
    BY <2>3 DEF E
<1>3. Recency(c, lost) \in Nat
  BY <1>1, <1>2 DEF Recency
<1> QED
  BY <1>2, <1>3 DEF ExportRecency

(* Of a case that was read as a whole, no question is answered otherwise   *)
(* than if nothing could fail.                                             *)
LEMMA WholeIsRead ==
    ASSUME NEW c, NEW lost, Whole(c, lost)
    PROVE  /\ \A pass \in ReviewPass \cup ExportPass :
                 /\ Got(c, pass, lost) = Got(c, pass, {})
                 /\ Read(c, pass, lost) = Read(c, pass, {})
           /\ DedupeKey(c, lost) = DedupeKey(c, {})
           /\ Recency(c, lost) = Recency(c, {})
           /\ ExportRecency(c, lost) = ExportRecency(c, {})
           /\ Sources(c, lost) = Sources(c, {})
           /\ \A o, time : Matches(c, o, time, lost) <=> Matches(c, o, time, {})
           /\ \A o, time : Exported(c, o, time, lost) <=> Exported(c, o, time, {})
<1>1. ASSUME NEW pass \in ReviewPass \cup ExportPass
      PROVE  Got(c, pass, lost) = DOMAIN c.events
  <2>1. ASSUME NEW i \in DOMAIN c.events PROVE [pass |-> pass, id |-> c.id, nth |-> i] \notin lost
    <3>1. [pass |-> pass, id |-> c.id, nth |-> i] \in
             [pass : ReviewPass \cup ExportPass, id : {c.id}, nth : DOMAIN c.events]
      OBVIOUS
    <3>2. Reads({c}, ReviewPass \cup ExportPass) =
             [pass : ReviewPass \cup ExportPass, id : {c.id}, nth : DOMAIN c.events]
      BY DEF Reads
    <3> QED
      BY <3>1, <3>2 DEF Whole
  <2> QED
    BY <2>1 DEF Got
<1>2. ASSUME NEW pass \in ReviewPass \cup ExportPass
      PROVE  /\ Got(c, pass, lost) = Got(c, pass, {})
             /\ Read(c, pass, lost) = Read(c, pass, {})
  BY <1>1 DEF Got, Read
<1>3. /\ {"since", "wan", "edge", "key", "recency", "sources"} = ReviewPass \cup ExportPass
      /\ Got(c, "key", lost) = Got(c, "key", {})
      /\ Read(c, "edge", lost) = Read(c, "edge", {})
      /\ Read(c, "since", lost) = Read(c, "since", {})
      /\ Read(c, "wan", lost) = Read(c, "wan", {})
      /\ Read(c, "recency", lost) = Read(c, "recency", {})
      /\ Read(c, "sources", lost) = Read(c, "sources", {})
  BY <1>2 DEF ReviewPass, ExportPass
<1>4. DedupeKey(c, lost) = DedupeKey(c, {})
  <2> DEFINE Pick(got, values, none) ==
                 LET said == {i \in got : values[i] # none}
                 IN IF said = {} THEN none ELSE values[Min(said)]
             Value(got, edge) ==
                 <<Pick(got, [i \in DOMAIN c.events |-> c.events[i].src], None),
                   IF IsWanOnly(edge) THEN "WAN_EDGE"
                   ELSE Pick(got, [i \in DOMAIN c.events |-> c.events[i].dst], None),
                   Pick(got, [i \in DOMAIN c.events |-> c.events[i].port], 0),
                   Pick(got, [i \in DOMAIN c.events |-> c.events[i].proto], None)>>
  <2>1. DedupeKey(c, lost) = Value(Got(c, "key", lost), Read(c, "edge", lost))
    BY DEF DedupeKey
  <2>2. DedupeKey(c, {}) = Value(Got(c, "key", {}), Read(c, "edge", {}))
    BY DEF DedupeKey
  <2> HIDE DEF Value
  <2> QED
    BY <1>3, <2>1, <2>2
<1>5. Recency(c, lost) = Recency(c, {}) /\ ExportRecency(c, lost) = ExportRecency(c, {})
  BY <1>3 DEF Recency, ExportRecency
<1>6. Sources(c, lost) = Sources(c, {})
  BY <1>3 DEF Sources
<1>7. \A o, time : Matches(c, o, time, lost) <=> Matches(c, o, time, {})
  BY <1>3 DEF Matches
<1>8. \A o, time : Exported(c, o, time, lost) <=> Exported(c, o, time, {})
  BY <1>3 DEF Exported
<1> QED
  BY <1>2, <1>4, <1>5, <1>6, <1>7, <1>8

-----------------------------------------------------------------------------
(* --dedupe *)

(* What one turn of the loop makes of the positions kept so far.           *)
Challenge(s, lost, X, n) ==
    LET key == DedupeKey(s[n], lost)
        old == {j \in X : DedupeKey(s[j], lost) = key}
    IN IF \A j \in old : Recency(s[n], lost) > Recency(s[j], lost) THEN (X \ old) \cup {n} ELSE X

(* The loop has a result, and it is that of its turns. *)
LEMMA DedupeLoop ==
    ASSUME NEW s \in Seq(CaseSet), NEW lost
    PROVE  \E best \in [0..Len(s) -> SUBSET (1..Len(s))] :
              /\ best[0] = {}
              /\ \A n \in 1..Len(s) : best[n] = Challenge(s, lost, best[n - 1], n)
              /\ Dedupe(s, lost) = Only(s, {s[i] : i \in best[Len(s)]})
<1> DEFINE N == Len(s)
<1>1. N \in Nat
  BY LenProperties
<1> HIDE DEF N
<1> DEFINE Runs(g, m) == g[0] = {} /\ \A n \in 1..m : g[n] = Challenge(s, lost, g[n - 1], n)
           A == {m \in 0..N : \E g \in [0..N -> SUBSET (1..N)] : Runs(g, m)}
<1>2. 0 \in A
  <2>1. [n \in 0..N |-> {}] \in [0..N -> SUBSET (1..N)] /\ Runs([n \in 0..N |-> {}], 0)
    BY <1>1
  <2> HIDE DEF Runs
  <2> QED
    BY <1>1, <2>1
<1>3. ASSUME NEW m \in 0..N, m < N, m \in A PROVE m + 1 \in A
  <2>1. PICK g \in [0..N -> SUBSET (1..N)] : Runs(g, m)
    BY <1>1, <1>3
  <2> DEFINE next == Challenge(s, lost, g[m], m + 1)
             h == [g EXCEPT ![m + 1] = next]
  <2>2. next \in SUBSET (1..N)
    <3>1. g[m] \in SUBSET (1..N) /\ m + 1 \in 1..N
      BY <1>1, <1>3
    <3> QED
      BY <3>1 DEF Challenge
  <2> HIDE DEF next
  <2>3. h \in [0..N -> SUBSET (1..N)]
    BY <2>2
  <2>4. /\ h[m + 1] = next
        /\ \A n \in 0..N : n # m + 1 => h[n] = g[n]
    BY <1>1, <1>3
  <2> HIDE DEF h
  <2>5. h[0] = {} /\ h[m] = g[m]
    BY <1>1, <1>3, <2>1, <2>4
  <2>6. ASSUME NEW n \in 1..(m + 1) PROVE h[n] = Challenge(s, lost, h[n - 1], n)
    <3>1. CASE n = m + 1
      BY <1>1, <1>3, <2>4, <2>5, <3>1 DEF next
    <3>2. CASE n # m + 1
      <4>1. n \in 1..m /\ n - 1 \in 0..N /\ n - 1 # m + 1 /\ n \in 0..N
        BY <1>1, <1>3, <3>2
      <4>2. h[n] = g[n] /\ h[n - 1] = g[n - 1]
        BY <2>4, <3>2, <4>1
      <4> QED
        BY <2>1, <4>1, <4>2
    <3> QED
      BY <3>1, <3>2
  <2>7. Runs(h, m + 1)
    BY <2>5, <2>6
  <2>8. m + 1 \in 0..N
    BY <1>1, <1>3
  <2> HIDE DEF Runs
  <2> QED
    BY <2>3, <2>7, <2>8
<1>4. \A m \in 0..N : m \in A
  <2> HIDE DEF A
  <2> QED
    BY <1>1, <1>2, <1>3, Induct
<1>5. PICK g \in [0..N -> SUBSET (1..N)] : Runs(g, N)
  <2>1. N \in 0..N
    BY <1>1
  <2>2. N \in A
    <3> HIDE DEF A
    <3> QED
      BY <1>4, <2>1
  <2> HIDE DEF Runs
  <2> QED
    BY <2>2
<1>6. Len(s) \in Nat
  BY <1>1 DEF N
<1>7. /\ g \in [0..Len(s) -> SUBSET (1..Len(s))]
      /\ g[0] = {} /\ \A n \in 1..Len(s) : g[n] = Challenge(s, lost, g[n - 1], n)
  BY <1>5 DEF N
<1> HIDE DEF Runs, A
<1> DEFINE Loop(f) == [n \in 0..Len(s) |->
               IF n = 0 THEN {}
               ELSE LET kept == f[n - 1]
                        key == DedupeKey(s[n], lost)
                        old == {j \in kept : DedupeKey(s[j], lost) = key}
                    IN IF \A j \in old : Recency(s[n], lost) > Recency(s[j], lost)
                       THEN (kept \ old) \cup {n} ELSE kept]
           best == CHOOSE f : f = Loop(f)
<1>8. Dedupe(s, lost) = Only(s, {s[i] : i \in best[Len(s)]})
  BY DEF Dedupe
<1>9. \A f : Loop(f) = [n \in 0..Len(s) |-> IF n = 0 THEN {} ELSE Challenge(s, lost, f[n - 1], n)]
  BY DEF Challenge
<1> HIDE DEF Loop
<1>10. g = Loop(g)
  <2>1. g = [n \in 0..Len(s) |-> g[n]]
    BY <1>7
  <2>2. \A n \in 0..Len(s) : g[n] = IF n = 0 THEN {} ELSE Challenge(s, lost, g[n - 1], n)
    <3>1. \A n \in 0..Len(s) : n # 0 => n \in 1..Len(s)
      BY <1>6
    <3> QED
      BY <1>7, <3>1
  <2>3. g = [n \in 0..Len(s) |-> IF n = 0 THEN {} ELSE Challenge(s, lost, g[n - 1], n)]
    BY <2>1, <2>2
  <2> QED
    BY <1>9, <2>3
<1>11. best = Loop(best)
  BY <1>10
<1> HIDE DEF best
<1>12. best = [n \in 0..Len(s) |-> IF n = 0 THEN {} ELSE Challenge(s, lost, best[n - 1], n)]
  BY <1>9, <1>11
<1>13. best[0] = {} /\ \A n \in 1..Len(s) : best[n] = Challenge(s, lost, best[n - 1], n)
  <2>1. \A n \in 0..Len(s) : best[n] = IF n = 0 THEN {} ELSE Challenge(s, lost, best[n - 1], n)
    BY <1>12
  <2>2. 0 \in 0..Len(s) /\ \A n \in 1..Len(s) : n \in 0..Len(s) /\ n # 0
    BY <1>6
  <2> QED
    BY <2>1, <2>2
<1>14. best \in [0..Len(s) -> SUBSET (1..Len(s))]
  <2> DEFINE B == {n \in 0..Len(s) : best[n] \in SUBSET (1..Len(s))}
  <2>1. 0 \in B
    BY <1>6, <1>13
  <2>2. ASSUME NEW n \in 0..Len(s), n < Len(s), n \in B PROVE n + 1 \in B
    <3>1. n + 1 \in 1..Len(s) /\ (n + 1) - 1 = n
      BY <1>6, <2>2
    <3>2. best[n + 1] = Challenge(s, lost, best[n], n + 1)
      BY <1>13, <3>1
    <3>3. Challenge(s, lost, best[n], n + 1) \in SUBSET (1..Len(s))
      BY <2>2, <3>1 DEF Challenge
    <3> QED
      BY <3>1, <3>2, <3>3
  <2>3. \A n \in 0..Len(s) : n \in B
    <3> HIDE DEF B
    <3> QED
      BY <1>6, <2>1, <2>2, Induct
  <2>4. \A n \in 0..Len(s) : best[n] \in SUBSET (1..Len(s))
    BY <2>3
  <2>5. best = [n \in 0..Len(s) |-> best[n]]
    BY <1>12
  <2> QED
    BY <2>4, <2>5
<1> QED
  BY <1>8, <1>13, <1>14

(* Of the cases of each key one is kept, and it is one of those that were  *)
(* active last.                                                            *)
LEMMA DedupeFacts ==
    ASSUME NEW s \in Seq(CaseSet), NEW lost
    PROVE  /\ Elements(Dedupe(s, lost)) \subseteq Elements(s)
           /\ \A c, d \in Elements(Dedupe(s, lost)) : DedupeKey(c, lost) = DedupeKey(d, lost) => c = d
           /\ \A c \in Elements(Dedupe(s, lost)), d \in Elements(s) :
                 DedupeKey(c, lost) = DedupeKey(d, lost) => Recency(d, lost) <= Recency(c, lost)
           /\ \A d \in Elements(s) : \E c \in Elements(Dedupe(s, lost)) : DedupeKey(c, lost) = DedupeKey(d, lost)
<1> DEFINE N == Len(s)
           key == [i \in 1..N |-> DedupeKey(s[i], lost)]
           last == [i \in 1..N |-> Recency(s[i], lost)]
<1>1. N \in Nat /\ DOMAIN s = 1..N /\ \A i \in 1..N : s[i] \in CaseSet
  BY LenProperties, ElementOfSeq
<1>2. \A i \in 1..N : last[i] \in Nat
  BY <1>1, RecencyIsNat
<1>3. PICK best \in [0..N -> SUBSET (1..N)] :
          /\ best[0] = {}
          /\ \A n \in 1..N : best[n] = Challenge(s, lost, best[n - 1], n)
          /\ Dedupe(s, lost) = Only(s, {s[i] : i \in best[N]})
  BY DedupeLoop
<1>4. ASSUME NEW X \in SUBSET (1..N), NEW n \in 1..N
      PROVE  Challenge(s, lost, X, n) = LET old == {j \in X : key[j] = key[n]} IN
                IF \A j \in old : last[n] > last[j] THEN (X \ old) \cup {n} ELSE X
  BY DEF Challenge
<1> HIDE DEF N, key, last
<1> DEFINE Good(X, n) ==
              /\ X \in SUBSET (1..n)
              /\ \A i, j \in X : key[i] = key[j] => i = j
              /\ \A i \in 1..n : \E j \in X : key[j] = key[i] /\ last[i] <= last[j]
           A == {n \in 0..N : Good(best[n], n)}
<1>5. 0 \in A
  BY <1>1, <1>3
<1>6. ASSUME NEW m \in 0..N, m < N, m \in A PROVE m + 1 \in A
  <2> DEFINE n == m + 1
             X == best[m]
             old == {j \in X : key[j] = key[n]}
             Y == best[n]
  <2>1. n \in 1..N /\ n - 1 = m /\ n \in 0..N /\ n \notin 1..m /\ 1..n = (1..m) \cup {n}
    BY <1>1, <1>6
  <2>2. Good(X, m) /\ X \in SUBSET (1..N) /\ 1..m \subseteq 1..N
    BY <1>1, <1>3, <1>6, <2>1
  <2>3. Y = Challenge(s, lost, X, n)
    BY <1>3, <2>1
  <2> HIDE DEF n, X, Y
  <2>4. Y = IF \A j \in old : last[n] > last[j] THEN (X \ old) \cup {n} ELSE X
    <3>1. Challenge(s, lost, X, n) =
             IF \A j \in old : last[n] > last[j] THEN (X \ old) \cup {n} ELSE X
      BY <1>4, <2>1, <2>2
    <3> QED
      BY <2>3, <3>1
  <2>5. CASE \A j \in old : last[n] > last[j]
    <3>1. Y = (X \ old) \cup {n}
      BY <2>4, <2>5
    <3>2. Y \in SUBSET (1..n)
      BY <2>1, <2>2, <3>1
    <3>3. \A i, j \in Y : key[i] = key[j] => i = j
      BY <2>2, <3>1
    <3>4. ASSUME NEW i \in 1..n PROVE \E j \in Y : key[j] = key[i] /\ last[i] <= last[j]
      <4>1. CASE i = n
        BY <1>2, <2>1, <3>1, <4>1
      <4>2. CASE i # n
        <5>1. i \in 1..m
          BY <2>1, <4>2
        <5>2. PICK j \in X : key[j] = key[i] /\ last[i] <= last[j]
          BY <2>2, <5>1
        <5>3. CASE j \in old
          <6>1. last[i] <= last[n] /\ key[n] = key[i]
            <7>1. last[i] \in Nat /\ last[j] \in Nat /\ last[n] \in Nat
              BY <1>2, <2>1, <2>2, <5>1
            <7>2. last[n] > last[j]
              BY <2>5, <5>3
            <7> QED
              BY <5>2, <5>3, <7>1, <7>2
          <6> QED
            BY <3>1, <6>1
        <5>4. CASE j \notin old
          BY <3>1, <5>2, <5>4
        <5> QED
          BY <5>3, <5>4
      <4> QED
        BY <4>1, <4>2
    <3> QED
      BY <2>1, <3>2, <3>3, <3>4 DEF Y, n
  <2>6. CASE ~ \A j \in old : last[n] > last[j]
    <3>1. Y = X
      BY <2>4, <2>6
    <3>2. PICK k \in old : ~ (last[n] > last[k])
      BY <2>6
    <3>3. k \in X /\ key[k] = key[n] /\ last[n] <= last[k]
      <4>1. last[k] \in Nat /\ last[n] \in Nat
        BY <1>2, <2>1, <2>2
      <4> QED
        BY <3>2, <4>1
    <3>4. Y \in SUBSET (1..n)
      BY <2>1, <2>2, <3>1
    <3>5. ASSUME NEW i \in 1..n PROVE \E j \in Y : key[j] = key[i] /\ last[i] <= last[j]
      <4>1. CASE i = n
        BY <3>1, <3>3, <4>1
      <4>2. CASE i # n
        BY <2>1, <2>2, <3>1, <4>2
      <4> QED
        BY <4>1, <4>2
    <3> QED
      BY <2>1, <2>2, <3>1, <3>4, <3>5 DEF Y, n
  <2> QED
    BY <2>5, <2>6
<1>7. N \in A
  <2>1. \A n \in 0..N : n \in A
    <3> HIDE DEF A
    <3> QED
      BY <1>1, <1>5, <1>6, Induct
  <2>2. N \in 0..N
    BY <1>1
  <2> HIDE DEF A
  <2> QED
    BY <2>1, <2>2
<1> DEFINE K == {s[i] : i \in best[N]}
<1>8. Elements(Dedupe(s, lost)) = Elements(s) \cap K
  <2> HIDE DEF K
  <2> QED
    BY <1>3, ElementsOfOnly DEF K
<1>9. /\ \A i, j \in best[N] : key[i] = key[j] => i = j
      /\ \A i \in 1..N : \E j \in best[N] : key[j] = key[i] /\ last[i] <= last[j]
      /\ best[N] \in SUBSET (1..N)
  BY <1>7
<1>10. \A c \in Elements(Dedupe(s, lost)) :
          \E i \in best[N] : c = s[i] /\ key[i] = DedupeKey(c, lost) /\ last[i] = Recency(c, lost)
  BY <1>8, <1>9 DEF key, last
<1>11. \A d \in Elements(s) :
          \E i \in 1..N : d = s[i] /\ key[i] = DedupeKey(d, lost) /\ last[i] = Recency(d, lost)
  BY <1>1 DEF key, last, Elements
<1>12. \A i \in best[N] : s[i] \in Elements(Dedupe(s, lost)) /\ key[i] = DedupeKey(s[i], lost)
  BY <1>1, <1>8, <1>9 DEF Elements, key
<1> HIDE DEF K, A, Good
<1>13. \A c, d \in Elements(Dedupe(s, lost)) : DedupeKey(c, lost) = DedupeKey(d, lost) => c = d
  BY <1>9, <1>10
<1>14. ASSUME NEW c \in Elements(Dedupe(s, lost)), NEW d \in Elements(s), DedupeKey(c, lost) = DedupeKey(d, lost)
       PROVE  Recency(d, lost) <= Recency(c, lost)
  <2>1. PICK i \in best[N] : c = s[i] /\ key[i] = DedupeKey(c, lost) /\ last[i] = Recency(c, lost)
    BY <1>10
  <2>2. PICK k \in 1..N : d = s[k] /\ key[k] = DedupeKey(d, lost) /\ last[k] = Recency(d, lost)
    BY <1>11
  <2>3. PICK j \in best[N] : key[j] = key[k] /\ last[k] <= last[j]
    BY <1>9, <2>2
  <2>4. j = i
    BY <1>9, <1>14, <2>1, <2>2, <2>3
  <2> QED
    BY <2>1, <2>2, <2>3, <2>4
<1>15. ASSUME NEW d \in Elements(s) PROVE \E c \in Elements(Dedupe(s, lost)) : DedupeKey(c, lost) = DedupeKey(d, lost)
  <2>1. PICK k \in 1..N : key[k] = DedupeKey(d, lost)
    BY <1>11
  <2>2. PICK j \in best[N] : key[j] = key[k]
    BY <1>9
  <2> QED
    BY <1>12, <2>1, <2>2
<1> QED
  BY <1>8, <1>13, <1>14, <1>15

(* What review-all selects from a list of cases.                           *)
LEMMA SelectionFacts ==
    ASSUME NEW s \in Seq(CaseSet), Distinct(s), NEW o, o.limit \in Nat, NEW time, NEW lost
    PROVE  LET chosen == Elements(FilterReviewCases(s, o, time, lost))
               limit == IF o.limit = Unset THEN DefaultLimit ELSE o.limit
           IN /\ \A c \in chosen : Matches(c, o, time, lost)
              /\ o.dedupe =>
                    \A c \in chosen, d \in Elements(s) :
                        DedupeKey(c, lost) = DedupeKey(d, lost) /\ Matches(d, o, time, lost) =>
                            /\ Recency(d, lost) <= Recency(c, lost)
                            /\ d \in chosen => d = c
              /\ Cardinality(chosen) < limit =>
                    \A d \in Elements(s) : Matches(d, o, time, lost) =>
                        \/ d \in chosen
                        \/ o.dedupe /\ \E c \in chosen : DedupeKey(c, lost) = DedupeKey(d, lost)
<1> DEFINE matching == {c \in Elements(s) : Matches(c, o, time, lost)}
           kept == Only(s, matching)
           limit == IF o.limit = Unset THEN DefaultLimit ELSE o.limit
           picked == IF o.dedupe THEN Dedupe(kept, lost) ELSE kept
           chosen == Elements(FilterReviewCases(s, o, time, lost))
<1>1. limit \in Nat
  BY LimitAssumption
<1>2. chosen = Elements(Take(picked, limit))
  BY DEF FilterReviewCases
<1>3. matching \subseteq Elements(s) /\ \A c \in Elements(s) : c \in matching <=> Matches(c, o, time, lost)
  OBVIOUS
<1> HIDE DEF matching, chosen, limit
<1>4. kept \in Seq(CaseSet) /\ Distinct(kept) /\ Elements(kept) = matching
  <2>1. kept \in Seq(CaseSet)
    BY OnlyFacts
  <2>2. Distinct(kept)
    BY OnlyKeepsDistinct
  <2>3. Elements(kept) = Elements(s) \cap matching
    BY ElementsOfOnly
  <2> HIDE DEF kept
  <2> QED
    BY <1>3, <2>1, <2>2, <2>3
<1> HIDE DEF kept
<1>5. /\ Elements(Dedupe(kept, lost)) \subseteq Elements(kept)
      /\ \A c, d \in Elements(Dedupe(kept, lost)) : DedupeKey(c, lost) = DedupeKey(d, lost) => c = d
      /\ \A c \in Elements(Dedupe(kept, lost)), d \in Elements(kept) :
            DedupeKey(c, lost) = DedupeKey(d, lost) => Recency(d, lost) <= Recency(c, lost)
      /\ \A d \in Elements(kept) : \E c \in Elements(Dedupe(kept, lost)) : DedupeKey(c, lost) = DedupeKey(d, lost)
  BY <1>4, DedupeFacts
<1>6. picked \in Seq(CaseSet) /\ Distinct(picked) /\ Elements(picked) \subseteq matching
  <2>1. PICK K : Dedupe(kept, lost) = Only(kept, K)
    BY DEF Dedupe
  <2>2. Dedupe(kept, lost) \in Seq(CaseSet) /\ Distinct(Dedupe(kept, lost))
    BY <1>4, <2>1, OnlyFacts, OnlyKeepsDistinct
  <2> QED
    BY <1>4, <1>5, <2>2
<1>7. o.dedupe => Elements(picked) = Elements(Dedupe(kept, lost))
  OBVIOUS
<1>8. ~o.dedupe => Elements(picked) = matching
  BY <1>4
<1> HIDE DEF picked
<1> DEFINE taken == Take(picked, limit)
<1>9. /\ taken \in Seq(CaseSet) /\ Distinct(taken)
      /\ Elements(taken) \subseteq Elements(picked)
      /\ Len(taken) = IF Len(picked) < limit THEN Len(picked) ELSE limit
      /\ Len(picked) <= limit => taken = picked
  BY <1>1, <1>6, TakeFacts
<1> HIDE DEF taken
<1>10. Cardinality(chosen) < limit => chosen = Elements(picked)
  <2>1. Cardinality(chosen) = Len(taken)
    BY <1>2, <1>9, FiniteElements DEF taken
  <2>2. Len(picked) \in Nat
    BY <1>6, LenProperties
  <2>3. Len(taken) < limit => Len(picked) <= limit
    BY <1>1, <1>9, <2>2
  <2> QED
    BY <1>2, <1>9, <2>1, <2>3 DEF taken
<1>11. chosen \subseteq Elements(picked)
  BY <1>2, <1>9 DEF taken
<1>12. \A c \in chosen : Matches(c, o, time, lost)
  BY <1>3, <1>6, <1>11
<1>13. ASSUME o.dedupe, NEW c \in chosen, NEW d \in Elements(s),
              DedupeKey(c, lost) = DedupeKey(d, lost), Matches(d, o, time, lost)
       PROVE  Recency(d, lost) <= Recency(c, lost) /\ (d \in chosen => d = c)
  <2>1. c \in Elements(Dedupe(kept, lost)) /\ d \in Elements(kept)
    BY <1>3, <1>4, <1>7, <1>11, <1>13
  <2>2. d \in chosen => d \in Elements(Dedupe(kept, lost))
    BY <1>7, <1>11, <1>13
  <2> QED
    BY <1>5, <1>13, <2>1, <2>2
<1>14. ASSUME Cardinality(chosen) < limit, NEW d \in Elements(s), Matches(d, o, time, lost)
       PROVE  d \in chosen \/ (o.dedupe /\ \E c \in chosen : DedupeKey(c, lost) = DedupeKey(d, lost))
  <2>1. d \in matching /\ chosen = Elements(picked)
    BY <1>3, <1>10, <1>14
  <2>2. CASE o.dedupe
    BY <1>4, <1>5, <1>7, <2>1, <2>2
  <2>3. CASE ~o.dedupe
    BY <1>8, <2>1, <2>3
  <2> QED
    BY <2>2, <2>3
<1> QED
  BY <1>12, <1>13, <1>14 DEF chosen, limit

LEMMA ReviewAllIsFair ==
    ASSUME IInv, NEW r \in Reviewer, NEW o \in ReviewOption, CmdReviewAll(r, o)
    PROVE  SelectionKeepsNewest'
<1>1. PICK s \in Listings(cases, MaxListed) :
          \E lost : /\ Start(r, FilterReviewCases(s, o, now, lost))
                    /\ report' = [kind |-> "selection", options |-> o, reviewer |-> r,
                                  listed |-> s, lost |-> lost]
  BY DEF CmdReviewAll
<1>2. PICK lost : /\ Start(r, FilterReviewCases(s, o, now, lost))
                  /\ report' = [kind |-> "selection", options |-> o, reviewer |-> r,
                                listed |-> s, lost |-> lost]
  BY <1>1
<1> DEFINE selected == FilterReviewCases(s, o, now, lost)
           limit == IF o.limit = Unset THEN DefaultLimit ELSE o.limit
<1>3. s \in Seq(CaseSet) /\ Distinct(s)
  <2>1. s \in Seq(cases) /\ Distinct(s)
    BY ListedFacts, BoundAssumption DEF IInv, CasesInv
  <2>2. Len(s) \in Nat /\ s = [i \in 1..Len(s) |-> s[i]] /\ \A i \in 1..Len(s) : s[i] \in cases
    BY <2>1, LenProperties, ElementOfSeq
  <2>3. \A i \in 1..Len(s) : s[i] \in CaseSet
    BY <2>2 DEF IInv, CasesInv
  <2> QED
    BY <2>1, <2>2, <2>3, IsASeq
<1>4. o.limit \in Nat
  BY OptionAssumption
<1>5. queue'[r] = selected /\ now' = now
  BY <1>2 DEF Start, IInv, QueueInv
<1>6. /\ report'.options = o /\ report'.reviewer = r
      /\ report'.listed = s /\ report'.lost = lost
  BY <1>2
<1> DEFINE chosen == Elements(selected)
           whole == {c \in Elements(s) : Whole(c, lost)}
           match == {c \in whole : Matches(c, o, now, {})}
<1>7. /\ \A c \in chosen : Matches(c, o, now, lost)
      /\ o.dedupe =>
            \A c \in chosen, d \in Elements(s) :
                DedupeKey(c, lost) = DedupeKey(d, lost) /\ Matches(d, o, now, lost) =>
                    /\ Recency(d, lost) <= Recency(c, lost)
                    /\ d \in chosen => d = c
      /\ Cardinality(chosen) < limit =>
            \A d \in Elements(s) : Matches(d, o, now, lost) =>
                \/ d \in chosen
                \/ o.dedupe /\ \E c \in chosen : DedupeKey(c, lost) = DedupeKey(d, lost)
  BY <1>3, <1>4, SelectionFacts
<1>8. \A c \in whole : /\ DedupeKey(c, lost) = DedupeKey(c, {})
                       /\ Recency(c, lost) = Recency(c, {})
                       /\ Matches(c, o, now, lost) <=> Matches(c, o, now, {})
  BY WholeIsRead
<1>9. match \subseteq whole /\ \A c \in whole : c \in match <=> Matches(c, o, now, {})
  OBVIOUS
<1>10. whole \subseteq Elements(s)
  OBVIOUS
<1>11. Elements(queue'[r]) = chosen
  BY <1>5
<1> HIDE DEF chosen, selected, whole, match
<1>12. chosen \cap whole \subseteq match
  BY <1>7, <1>8, <1>9
<1>13. o.dedupe =>
          \A c \in chosen \cap whole, d \in match :
              DedupeKey(c, {}) = DedupeKey(d, {}) =>
                  /\ Recency(d, {}) <= Recency(c, {})
                  /\ d \in chosen => d = c
  <2> SUFFICES ASSUME o.dedupe, NEW c \in chosen \cap whole, NEW d \in match,
                      DedupeKey(c, {}) = DedupeKey(d, {})
               PROVE  Recency(d, {}) <= Recency(c, {}) /\ (d \in chosen => d = c)
    OBVIOUS
  <2>1. /\ DedupeKey(c, lost) = DedupeKey(d, lost)
        /\ Recency(c, lost) = Recency(c, {}) /\ Recency(d, lost) = Recency(d, {})
        /\ d \in Elements(s) /\ Matches(d, o, now, lost)
    BY <1>8, <1>9, <1>10
  <2> QED
    BY <1>7, <2>1
<1>14. Cardinality(chosen) < limit =>
          \A d \in match :
              \/ d \in chosen
              \/ o.dedupe /\ \E c \in chosen : DedupeKey(c, lost) = DedupeKey(d, {})
  <2> SUFFICES ASSUME Cardinality(chosen) < limit, NEW d \in match
               PROVE  \/ d \in chosen
                      \/ o.dedupe /\ \E c \in chosen : DedupeKey(c, lost) = DedupeKey(d, {})
    OBVIOUS
  <2>1. /\ DedupeKey(d, lost) = DedupeKey(d, {})
        /\ d \in Elements(s) /\ Matches(d, o, now, lost)
    BY <1>8, <1>9, <1>10
  <2> QED
    BY <1>7, <2>1
<1> QED
  BY <1>5, <1>6, <1>11, <1>12, <1>13, <1>14 DEF SelectionKeepsNewest, whole, match

(* Of the cases that could be read --dedupe keeps for every key one that   *)
(* was active last, and nothing that matches is left out without a twin    *)
(* unless the limit is reached, for any cases, opened and active in any    *)
(* order, and any reads that fail (review_filters.go:281-357).             *)
THEOREM NewestAreBriefed == Spec => []SelectionKeepsNewest
<1>1. Init => SelectionKeepsNewest
  BY DEF Init, SelectionKeepsNewest, Said
<1>2. IInv /\ SelectionKeepsNewest /\ [Next]_vars => SelectionKeepsNewest'
  <2> SUFFICES ASSUME IInv, SelectionKeepsNewest, [Next]_vars PROVE SelectionKeepsNewest'
    OBVIOUS
  <2>1. CASE \E r \in Reviewer, o \in ReviewOption : CmdReviewAll(r, o)
    BY <2>1, ReviewAllIsFair
  <2>2. CASE ~ Said("selection")'
    BY <2>2 DEF SelectionKeepsNewest
  <2>3. CASE UNCHANGED vars
    BY <2>3 DEF vars, analyst, SelectionKeepsNewest, Said
  <2>4. (\E r \in Reviewer : Brief(r)) => ~ Said("selection")'
    BY KindOfReport DEF Said
  <2>5. (\E o \in ExportOption : CmdExportBlocklist(o)) => ~ Said("selection")'
    BY KindOfReport DEF Said
  <2>6. report' = None => ~ Said("selection")'
    BY DEF Said
  <2> QED
    BY <2>1, <2>2, <2>3, <2>4, <2>5, <2>6, Reports
<1> QED
  BY <1>1, <1>2, IInvHolds, PTL DEF Spec

-----------------------------------------------------------------------------
(* export-blocklist *)

LEMMA SourcesAreFinite ==
    ASSUME NEW c \in CaseSet, NEW lost
    PROVE  IsFiniteSet(Sources(c, lost))
<1> DEFINE E == Read(c, "sources", lost)
           src == [e \in E |-> e.src]
<1>1. IsFiniteSet(E)
  <2>1. E \subseteq Elements(c.events)
    BY DEF Read, Got, Elements
  <2> QED
    BY <2>1, CaseFields, FS_Subset
<1>2. IsFiniteSet({src[e] : e \in E})
  <2> HIDE DEF src, E
  <2> QED
    BY <1>1, FiniteImage
<1>3. Sources(c, lost) \subseteq {src[e] : e \in E}
  BY DEF Sources, SrcIps
<1> HIDE DEF src, E
<1> QED
  BY <1>2, <1>3, FS_Subset

LEMMA SourcesFacts ==
    ASSUME NEW S \in SUBSET CaseSet, IsFiniteSet(S), NEW o, NEW time, NEW lost
    PROVE  /\ IsFiniteSet(ExportedSources(S, o, time, lost))
           /\ \A ip \in ExportedSources(S, o, time, lost) :
                 /\ LastActive(S, o, time, lost, ip) \in Nat
                 /\ \A c \in S : Exported(c, o, time, lost) /\ ip \in Sources(c, lost) =>
                       ExportRecency(c, lost) <= LastActive(S, o, time, lost, ip)
                 /\ \E c \in S : /\ Exported(c, o, time, lost) /\ ip \in Sources(c, lost)
                                 /\ LastActive(S, o, time, lost, ip) = ExportRecency(c, lost)
<1> DEFINE C == {c \in S : Exported(c, o, time, lost)}
           sources == [c \in C |-> Sources(c, lost)]
           ips == ExportedSources(S, o, time, lost)
<1>1. C \in SUBSET S /\ IsFiniteSet(C)
  BY FS_Subset
<1>2. \A c \in C : IsFiniteSet(sources[c])
  BY SourcesAreFinite
<1>3. ips = UNION {sources[c] : c \in C}
  <2>1. {sources[c] : c \in C} = {Sources(c, lost) : c \in C}
    OBVIOUS
  <2> QED
    BY <2>1 DEF ExportedSources
<1>4. IsFiniteSet(ips)
  <2> HIDE DEF sources, C, ips
  <2> DEFINE all == {sources[c] : c \in C}
  <2>1. IsFiniteSet(all)
    BY <1>1, FiniteImage
  <2>2. \A T \in all : IsFiniteSet(T)
    BY <1>2
  <2> HIDE DEF all
  <2>3. IsFiniteSet(UNION all)
    BY <2>1, <2>2, FS_UNION
  <2> QED
    BY <1>3, <2>3 DEF all
<1>5. ASSUME NEW ip \in ips
      PROVE  /\ LastActive(S, o, time, lost, ip) \in Nat
             /\ \A c \in S : Exported(c, o, time, lost) /\ ip \in Sources(c, lost) =>
                   ExportRecency(c, lost) <= LastActive(S, o, time, lost, ip)
             /\ \E c \in S : /\ Exported(c, o, time, lost) /\ ip \in Sources(c, lost)
                             /\ LastActive(S, o, time, lost, ip) = ExportRecency(c, lost)
  <2> DEFINE D == {c \in S : Exported(c, o, time, lost) /\ ip \in Sources(c, lost)}
             recency == [c \in D |-> ExportRecency(c, lost)]
             times == {recency[c] : c \in D}
             last == LastActive(S, o, time, lost, ip)
  <2>1. D \in SUBSET S /\ IsFiniteSet(D) /\ D # {}
    <3>1. D # {}
      BY <1>5 DEF ExportedSources
    <3> QED
      BY <3>1, FS_Subset
  <2>2. times = {ExportRecency(c, lost) : c \in D}
    OBVIOUS
  <2>3. last = Max(times)
    BY <2>2 DEF LastActive
  <2>4. \A c \in D : recency[c] \in Nat
    BY <2>1, RecencyIsNat
  <2>5. times \in SUBSET Nat /\ times # {} /\ IsFiniteSet(times)
    <3> HIDE DEF D, recency
    <3> QED
      BY <2>1, <2>4, FiniteImage
  <2>6. last \in times /\ \A n \in times : last >= n
    <3> HIDE DEF times, last
    <3> QED
      BY <2>3, <2>5, MaxFacts
  <2>7. last \in Nat /\ \A n \in times : n <= last
    BY <2>5, <2>6
  <2> HIDE DEF last
  <2>8. \A c \in D : ExportRecency(c, lost) <= last
    BY <2>2, <2>7
  <2>9. \E c \in D : last = ExportRecency(c, lost)
    BY <2>2, <2>6
  <2> QED
    BY <2>7, <2>8, <2>9 DEF last
<1> QED
  BY <1>4, <1>5

(* An address is in one line, which is the line of each address in it.     *)
LEMMA LinesFacts ==
    ASSUME NEW S \in SUBSET CaseSet, IsFiniteSet(S), NEW o, NEW time, NEW lost
    PROVE  LET ips == ExportedSources(S, o, time, lost)
               Line(ip) == LineFor(ip, S, o, time, lost)
           IN /\ IsFiniteSet(BlocklistLines(S, o, time, lost))
              /\ \A ip \in ips :
                    /\ ip \in Line(ip).covers /\ Line(ip).covers \in SUBSET ips
                    /\ \A x \in Line(ip).covers : Line(x) = Line(ip)
                    /\ IsFiniteSet(Line(ip).covers)
                    /\ Line(ip).count = Cardinality(Line(ip).covers) /\ Line(ip).count \in Nat \ {0}
                    /\ Line(ip).last \in Nat
                    /\ Line(ip).cidr = IsGrouped(ip, ips, o.group)
                    /\ Line(ip).cidr => /\ Line(ip).count >= CidrGroupThreshold
                                        /\ Line(ip).count = Cardinality(Peers(ip, ips))
                    /\ ~Line(ip).cidr => /\ Line(ip).count = 1
                                         /\ Line(ip).last = LastActive(S, o, time, lost, ip)
<1> DEFINE ips == ExportedSources(S, o, time, lost)
           Active(x) == LastActive(S, o, time, lost, x)
           Line(ip) == LineFor(ip, S, o, time, lost)
           Covers(ip) == IF IsGrouped(ip, ips, o.group) THEN Peers(ip, ips) ELSE {ip}
           LastOf(T) == Max({Active(x) : x \in T})
           lines == BlocklistLines(S, o, time, lost)
<1>1. IsFiniteSet(ips) /\ \A ip \in ips : Active(ip) \in Nat
  BY SourcesFacts
<1>2. \A ip : Line(ip) = [covers |-> Covers(ip), cidr |-> IsGrouped(ip, ips, o.group),
                          count |-> Cardinality(Covers(ip)), last |-> LastOf(Covers(ip))]
  BY DEF LineFor
<1>3. lines = {Line(ip) : ip \in ips}
  BY DEF BlocklistLines
<1> HIDE DEF ips, Line, lines, Active
<1>4. IsFiniteSet(lines)
  <2> DEFINE f == [ip \in ips |-> Line(ip)]
  <2>1. lines = {f[ip] : ip \in ips}
    BY <1>3
  <2> HIDE DEF f
  <2> QED
    BY <1>1, <2>1, FiniteImage
<1>5. ASSUME NEW ip \in ips
      PROVE  /\ ip \in Covers(ip) /\ Covers(ip) \in SUBSET ips
             /\ \A x \in Covers(ip) : /\ Covers(x) = Covers(ip)
                                      /\ IsGrouped(x, ips, o.group) = IsGrouped(ip, ips, o.group)
  <2>1. ip \in Peers(ip, ips) /\ Peers(ip, ips) \in SUBSET ips
    BY DEF Peers
  <2>2. \A x \in Peers(ip, ips) : Network[x] = Network[ip] /\ Peers(x, ips) = Peers(ip, ips)
    BY DEF Peers
  <2>3. \A x \in Peers(ip, ips) : IsGrouped(x, ips, o.group) = IsGrouped(ip, ips, o.group)
    BY <2>2 DEF IsGrouped
  <2> QED
    BY <2>1, <2>2, <2>3
<1>6. ASSUME NEW T \in SUBSET ips, T # {}
      PROVE  LastOf(T) \in Nat
  <2> DEFINE active == [x \in ips |-> Active(x)]
             times == {active[x] : x \in T}
  <2>1. times = {Active(x) : x \in T} /\ times \in SUBSET Nat /\ times # {}
    BY <1>1, <1>6
  <2>2. IsFiniteSet(times)
    <3>1. IsFiniteSet(T)
      BY <1>1, FS_Subset
    <3> HIDE DEF active
    <3> QED
      BY <3>1, FiniteImage
  <2> HIDE DEF times
  <2> QED
    BY <2>1, <2>2, MaxFacts
<1>7. ASSUME NEW ip \in ips PROVE LastOf({ip}) = Active(ip)
  <2> DEFINE T == {Active(x) : x \in {ip}}
  <2>1. T = {Active(ip)} /\ Active(ip) \in Nat
    BY <1>1, <1>7
  <2>2. T \in SUBSET Nat /\ T # {} /\ IsFiniteSet(T)
    BY <2>1, FS_Singleton
  <2> HIDE DEF T
  <2>3. Max(T) \in T
    BY <2>2, MaxFacts
  <2> QED
    BY <2>1, <2>3 DEF T
<1> HIDE DEF LastOf
<1>8. ASSUME NEW ip \in ips
      PROVE  /\ ip \in Line(ip).covers /\ Line(ip).covers \in SUBSET ips
             /\ \A x \in Line(ip).covers : Line(x) = Line(ip)
             /\ IsFiniteSet(Line(ip).covers)
             /\ Line(ip).count = Cardinality(Line(ip).covers) /\ Line(ip).count \in Nat \ {0}
             /\ Line(ip).last \in Nat
             /\ Line(ip).cidr = IsGrouped(ip, ips, o.group)
             /\ Line(ip).cidr => /\ Line(ip).count >= CidrGroupThreshold
                                 /\ Line(ip).count = Cardinality(Peers(ip, ips))
             /\ ~Line(ip).cidr => Line(ip).count = 1 /\ Line(ip).last = Active(ip)
  <2> HIDE DEF Covers
  <2>1. /\ Line(ip).covers = Covers(ip)
        /\ Line(ip).cidr = IsGrouped(ip, ips, o.group)
        /\ Line(ip).count = Cardinality(Covers(ip))
        /\ Line(ip).last = LastOf(Covers(ip))
    BY <1>2
  <2>2. ip \in Covers(ip) /\ Covers(ip) \in SUBSET ips
    BY <1>5
  <2>3. \A x \in Covers(ip) : Line(x) = Line(ip)
    <3>1. \A x \in Covers(ip) : /\ Covers(x) = Covers(ip)
                                /\ IsGrouped(x, ips, o.group) = IsGrouped(ip, ips, o.group)
      BY <1>5
    <3> QED
      BY <1>2, <3>1
  <2>4. IsFiniteSet(Covers(ip)) /\ Cardinality(Covers(ip)) \in Nat \ {0}
    BY <1>1, <2>2, FS_Subset, FS_CardinalityType, FS_EmptySet
  <2>5. LastOf(Covers(ip)) \in Nat
    BY <1>6, <2>2
  <2>6. CASE IsGrouped(ip, ips, o.group)
    <3>1. Covers(ip) = Peers(ip, ips)
      BY <2>6 DEF Covers
    <3>2. Cardinality(Peers(ip, ips)) >= CidrGroupThreshold
      BY <2>6 DEF IsGrouped
    <3> QED
      BY <2>1, <2>2, <2>3, <2>4, <2>5, <2>6, <3>1, <3>2
  <2>7. CASE ~IsGrouped(ip, ips, o.group)
    <3>1. Covers(ip) = {ip} /\ Cardinality({ip}) = 1
      BY <2>7, FS_Singleton DEF Covers
    <3>2. LastOf(Covers(ip)) = Active(ip)
      BY <1>7, <3>1
    <3> QED
      BY <2>1, <2>2, <2>3, <2>4, <2>5, <2>7, <3>1, <3>2
  <2> QED
    BY <2>6, <2>7
<1> QED
  BY <1>4, <1>8 DEF ips, Line, lines, Active

(* What was read as a whole gives its sources, and they were active as     *)
(* late as it says; the others give no source that is not theirs.          *)
LEMMA WholeSources ==
    ASSUME NEW S \in SUBSET CaseSet, IsFiniteSet(S), NEW o, NEW time, NEW lost
    PROVE  LET whole == {c \in S : Whole(c, lost)}
               sure == ExportedSources(whole, o, time, {})
               ips == ExportedSources(S, o, time, lost)
           IN /\ sure \subseteq ips
              /\ ips \subseteq sure \cup UNION {Sources(c, {}) : c \in
                                                   {c \in S \ whole : c.sev \in o.sevs}}
              /\ \A ip \in sure :
                    LastActive(whole, o, time, {}, ip) <= LastActive(S, o, time, lost, ip)
<1> DEFINE whole == {c \in S : Whole(c, lost)}
           sure == ExportedSources(whole, o, time, {})
           ips == ExportedSources(S, o, time, lost)
<1>1. \A c \in whole : /\ c \in S
                       /\ Exported(c, o, time, lost) <=> Exported(c, o, time, {})
                       /\ Sources(c, lost) = Sources(c, {})
                       /\ ExportRecency(c, lost) = ExportRecency(c, {})
  BY WholeIsRead
<1>2. whole \in SUBSET CaseSet /\ IsFiniteSet(whole)
  BY FS_Subset
<1>3. \A c \in S : c \notin whole <=> c \in S \ whole
  OBVIOUS
<1> HIDE DEF whole
<1>4. sure \subseteq ips
  BY <1>1 DEF ExportedSources
<1>5. ASSUME NEW ip \in ips
      PROVE  ip \in sure \cup UNION {Sources(c, {}) : c \in {c \in S \ whole : c.sev \in o.sevs}}
  <2>1. PICK c \in S : Exported(c, o, time, lost) /\ ip \in Sources(c, lost)
    BY <1>5 DEF ExportedSources
  <2>2. CASE c \in whole
    BY <1>1, <2>1, <2>2 DEF ExportedSources
  <2>3. CASE c \notin whole
    <3>1. Sources(c, lost) \subseteq Sources(c, {})
      BY DEF Sources, SrcIps, Read, Got
    <3>2. c \in {x \in S \ whole : x.sev \in o.sevs}
      BY <2>1, <2>3 DEF Exported
    <3> QED
      BY <2>1, <3>1, <3>2
  <2> QED
    BY <2>2, <2>3
<1>6. ASSUME NEW ip \in sure
      PROVE  LastActive(whole, o, time, {}, ip) <= LastActive(S, o, time, lost, ip)
  <2>1. PICK c \in whole : /\ Exported(c, o, time, {}) /\ ip \in Sources(c, {})
                           /\ LastActive(whole, o, time, {}, ip) = ExportRecency(c, {})
    BY <1>2, <1>6, SourcesFacts
  <2>2. ExportRecency(c, lost) <= LastActive(S, o, time, lost, ip)
    <3>1. c \in S /\ Exported(c, o, time, lost) /\ ip \in Sources(c, lost) /\ ip \in ips
      BY <1>1, <1>4, <1>6, <2>1
    <3> HIDE DEF sure, ips
    <3> QED
      BY <3>1, SourcesFacts DEF ips
  <2> QED
    BY <1>1, <2>1, <2>2
<1> QED
  BY <1>4, <1>5, <1>6 DEF whole

LEMMA ExportIsSound ==
    ASSUME IInv, NEW o \in ExportOption, CmdExportBlocklist(o)
    PROVE  ExportCoversMost'
<1>1. PICK s \in Listings(cases, MaxListed) :
          \E lost : \E lines \in BuildBlocklistLines(Elements(s), o, now, lost) :
              report' = [kind |-> "blocklist", options |-> o, lines |-> lines,
                         listed |-> Elements(s), lost |-> lost]
  BY DEF CmdExportBlocklist
<1>2. PICK lost :
          \E lines \in BuildBlocklistLines(Elements(s), o, now, lost) :
              report' = [kind |-> "blocklist", options |-> o, lines |-> lines,
                         listed |-> Elements(s), lost |-> lost]
  BY <1>1
<1> DEFINE S == Elements(s)
<1>3. PICK kept \in BuildBlocklistLines(S, o, now, lost) :
          report' = [kind |-> "blocklist", options |-> o, lines |-> kept,
                     listed |-> S, lost |-> lost]
  BY <1>2
<1>4. S \in SUBSET CaseSet /\ IsFiniteSet(S)
  <2>1. s \in Seq(cases) /\ S \subseteq cases
    BY ListedFacts, BoundAssumption DEF IInv, CasesInv
  <2> QED
    BY <2>1, FS_Subset DEF IInv, CasesInv
<1>5. o.limit \in Nat /\ now' = now
  BY OptionAssumption DEF CmdExportBlocklist
<1> HIDE DEF S
<1>6. /\ report'.options = o /\ report'.lines = kept
      /\ report'.listed = S /\ report'.lost = lost
  BY <1>3
<1> DEFINE ips == ExportedSources(S, o, now, lost)
           all == BlocklistLines(S, o, now, lost)
           Line(ip) == LineFor(ip, S, o, now, lost)
           whole == {c \in S : Whole(c, lost)}
           sure == ExportedSources(whole, o, now, {})
           doubtful == UNION {Sources(c, {}) : c \in {c \in S \ whole : c.sev \in o.sevs}}
           covered == UNION {l.covers : l \in kept}
           mates == [ip \in sure |-> Cardinality(Peers(ip, sure))]
           Worth(ip) == IF /\ o.group /\ Network[ip] # None
                           /\ mates[ip] >= CidrGroupThreshold
                        THEN mates[ip] ELSE 1
<1>7. /\ kept \in SUBSET all
      /\ Cardinality(kept) = IF Cardinality(all) < o.limit THEN Cardinality(all) ELSE o.limit
      /\ \A k \in kept, l \in all \ kept : ~ Before(l, k)
  BY DEF BuildBlocklistLines
<1>8. all = {Line(ip) : ip \in ips}
  BY DEF BlocklistLines
<1>9. /\ IsFiniteSet(all)
      /\ \A ip \in ips :
            /\ ip \in Line(ip).covers /\ Line(ip).covers \in SUBSET ips
            /\ \A x \in Line(ip).covers : Line(x) = Line(ip)
            /\ IsFiniteSet(Line(ip).covers)
            /\ Line(ip).count = Cardinality(Line(ip).covers) /\ Line(ip).count \in Nat \ {0}
            /\ Line(ip).last \in Nat
            /\ Line(ip).cidr = IsGrouped(ip, ips, o.group)
            /\ Line(ip).cidr => /\ Line(ip).count >= CidrGroupThreshold
                                /\ Line(ip).count = Cardinality(Peers(ip, ips))
            /\ ~Line(ip).cidr => /\ Line(ip).count = 1
                                 /\ Line(ip).last = LastActive(S, o, now, lost, ip)
  BY <1>4, LinesFacts
<1>10. IsFiniteSet(ips)
  BY <1>4, SourcesFacts
<1>11. /\ sure \subseteq ips /\ ips \subseteq sure \cup doubtful
       /\ \A ip \in sure : LastActive(whole, o, now, {}, ip) <= LastActive(S, o, now, lost, ip)
  BY <1>4, WholeSources
<1>12. \A ip \in ips : LastActive(S, o, now, lost, ip) \in Nat
  BY <1>4, SourcesFacts
<1>12a. \A ip \in sure : LastActive(whole, o, now, {}, ip) \in Nat
  <2>1. whole \in SUBSET CaseSet /\ IsFiniteSet(whole)
    BY <1>4, FS_Subset
  <2> HIDE DEF whole
  <2> QED
    BY <2>1, SourcesFacts
<1> HIDE DEF ips, all, Line, whole, sure, doubtful
<1>13. covered \subseteq ips
  BY <1>7, <1>8, <1>9
<1>14. \A l, k \in kept : l # k => l.covers \cap k.covers = {}
  <2> SUFFICES ASSUME NEW l \in kept, NEW k \in kept, NEW x \in l.covers \cap k.covers
               PROVE  l = k
    OBVIOUS
  <2>1. PICK i \in ips : l = Line(i)
    BY <1>7, <1>8
  <2>2. PICK j \in ips : k = Line(j)
    BY <1>7, <1>8
  <2>3. Line(x) = Line(i) /\ Line(x) = Line(j)
    BY <1>9, <2>1, <2>2
  <2> QED
    BY <2>1, <2>2, <2>3
<1>15. Cardinality(kept) < o.limit => sure \subseteq covered
  <2> SUFFICES ASSUME Cardinality(kept) < o.limit PROVE sure \subseteq covered
    OBVIOUS
  <2>1. Cardinality(kept) = Cardinality(all)
    BY <1>5, <1>7
  <2>2. kept = all
    BY <1>7, <1>9, <2>1, FS_Subset
  <2> QED
    BY <1>8, <1>9, <1>11, <2>2
<1>16. ASSUME NEW ip \in sure \ covered, NEW l \in kept
       PROVE  /\ Cardinality(l.covers) >= Worth(ip)
              /\ Cardinality(l.covers) = 1 => l.last >= LastActive(whole, o, now, {}, ip)
  <2> DEFINE own == Line(ip)
             mine == Cardinality(Peers(ip, sure))
             its == Cardinality(Peers(ip, ips))
  <2>1. ip \in ips /\ own \in all /\ own \notin kept
    BY <1>8, <1>9, <1>11, <1>16
  <2>2. PICK i \in ips : l = Line(i)
    BY <1>7, <1>8
  <2>3. ~ Before(own, l)
    BY <1>7, <2>1
  <2>4. /\ own.count \in Nat \ {0} /\ own.last \in Nat /\ own.cidr = IsGrouped(ip, ips, o.group)
        /\ own.cidr => own.count >= CidrGroupThreshold /\ own.count = its
        /\ ~own.cidr => own.count = 1 /\ own.last = LastActive(S, o, now, lost, ip)
    BY <1>9, <2>1
  <2>5. /\ l.count \in Nat \ {0} /\ l.last \in Nat /\ l.cidr \in BOOLEAN
        /\ l.count = Cardinality(l.covers)
        /\ l.cidr => l.count >= CidrGroupThreshold
        /\ ~l.cidr => l.count = 1
    BY <1>9, <2>2 DEF IsGrouped
  <2>6. own.cidr \in BOOLEAN
    BY <2>4 DEF IsGrouped
  <2>7. CidrGroupThreshold \in Nat /\ CidrGroupThreshold >= 2
    BY LimitAssumption
  <2>8. mine \in Nat /\ its \in Nat /\ mine <= its
    <3>1. Peers(ip, sure) \in SUBSET Peers(ip, ips) /\ Peers(ip, ips) \in SUBSET ips
      BY <1>11 DEF Peers
    <3>2. IsFiniteSet(Peers(ip, ips))
      BY <1>10, <3>1, FS_Subset
    <3> QED
      BY <3>1, <3>2, FS_Subset, FS_CardinalityType
  <2>9. LastActive(whole, o, now, {}, ip) <= LastActive(S, o, now, lost, ip)
    BY <1>11
  <2>10. LastActive(whole, o, now, {}, ip) \in Nat /\ LastActive(S, o, now, lost, ip) \in Nat
    BY <1>12, <1>12a, <2>1
  <2>11. o.group /\ Network[ip] # None /\ mine >= CidrGroupThreshold => own.cidr
    <3> SUFFICES ASSUME o.group, Network[ip] # None, mine >= CidrGroupThreshold PROVE own.cidr
      OBVIOUS
    <3>1. its >= CidrGroupThreshold
      BY <2>7, <2>8
    <3>2. IsGrouped(ip, ips, o.group)
      BY <3>1 DEF IsGrouped
    <3> QED
      BY <2>4, <3>2
  <2> DEFINE big == o.group /\ Network[ip] # None /\ mine >= CidrGroupThreshold
  <2>12. Worth(ip) = IF big THEN mine ELSE 1
    OBVIOUS
  <2> HIDE DEF own, mine, its, Worth, big
  <2>13. ASSUME own.cidr PROVE l.cidr /\ own.count <= l.count
    <3>1. l.cidr
      BY <2>3, <2>13 DEF Before
    <3>2. l.cidr = own.cidr
      BY <2>5, <2>6, <2>13, <3>1
    <3>3. ~ (own.count > l.count)
      BY <2>3, <3>2 DEF Before
    <3> QED
      BY <2>4, <2>5, <3>1, <3>3
  <2>14. l.count >= Worth(ip)
    BY <2>4, <2>5, <2>8, <2>11, <2>12, <2>13 DEF big
  <2>15. ASSUME l.count = 1 PROVE l.last >= LastActive(whole, o, now, {}, ip)
    <3>1. ~l.cidr /\ ~own.cidr
      BY <2>5, <2>7, <2>13, <2>15
    <3>2. l.cidr = own.cidr /\ own.count = l.count
      BY <2>4, <2>5, <2>6, <2>15, <3>1
    <3>3. ~ (own.last > l.last)
      BY <2>3, <3>2 DEF Before
    <3> QED
      BY <2>4, <2>5, <2>9, <2>10, <3>1, <3>3
  <2> QED
    BY <2>5, <2>14, <2>15
<1>17. covered \subseteq sure \cup doubtful
  BY <1>11, <1>13
<1> QED
  BY <1>5, <1>6, <1>14, <1>15, <1>16, <1>17 DEF ExportCoversMost, whole, sure, doubtful

(* Of the cases that could be read a blocklist leaves a source out only    *)
(* when it is full and every line of it blocks as many addresses or, being *)
(* of one address, was active no earlier; it names no address twice, and   *)
(* none but sources of listed cases (cmd_export_blocklist.go:160-255).     *)
THEOREM ExportsCoverMost == Spec => []ExportCoversMost
<1>1. Init => ExportCoversMost
  BY DEF Init, ExportCoversMost, Said
<1>2. IInv /\ ExportCoversMost /\ [Next]_vars => ExportCoversMost'
  <2> SUFFICES ASSUME IInv, ExportCoversMost, [Next]_vars PROVE ExportCoversMost'
    OBVIOUS
  <2>1. CASE \E o \in ExportOption : CmdExportBlocklist(o)
    BY <2>1, ExportIsSound
  <2>2. CASE ~ Said("blocklist")'
    BY <2>2 DEF ExportCoversMost
  <2>3. CASE UNCHANGED vars
    BY <2>3 DEF vars, ExportCoversMost, Said
  <2>4. (\E r \in Reviewer : Brief(r)) => ~ Said("blocklist")'
    BY KindOfReport DEF Said
  <2>5. (\E r \in Reviewer, o \in ReviewOption : CmdReviewAll(r, o)) => ~ Said("blocklist")'
    BY KindOfReport DEF Said
  <2>6. report' = None => ~ Said("blocklist")'
    BY DEF Said
  <2> QED
    BY <2>1, <2>2, <2>3, <2>4, <2>5, <2>6, Reports
<1> QED
  BY <1>1, <1>2, IInvHolds, PTL DEF Spec
=============================================================================
