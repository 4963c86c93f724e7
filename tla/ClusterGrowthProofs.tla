------------------------- MODULE ClusterGrowthProofs -------------------------
(***************************************************************************)
(* What the rules say of a growing cluster, for every set of looks, every  *)
(* threshold of the rules and clusters of any size: the two sides of the   *)
(* network stay apart, blocked sources are named, and a source cannot talk *)
(* its way out of a rule by sending more.                                  *)
(***************************************************************************)
EXTENDS ClusterGrowth, FiniteSetTheorems, TLAPS

Inv == IsFiniteSet(events) /\ kind \in SourceKind

LookOf(e) == [type |-> e.type, port |-> e.port, gateway |-> e.gateway]

(* Events of one look are numbered 1, 2, ... as they come, so a new one is *)
(* never taken for an old one; and there are never too many.               *)
Numbered ==
    /\ Cardinality(events) <= MaxEvents
    /\ \A e \in events :
        /\ LookOf(e) \in LooksOf(kind)
        /\ e.n \in 1..Cardinality(Alike(LookOf(e)))

GrowthInv == Inv /\ asn \in Asn /\ Numbered

(* A set of at least one element has one. *)
LEMMA SomeElement ==
    ASSUME NEW S, NEW n \in Nat \ {0}, Cardinality(S) >= n
    PROVE  S # {}
BY FS_EmptySet

LEMMA SubsetsAreSmaller ==
    ASSUME NEW T, IsFiniteSet(T), NEW S \in SUBSET T, NEW n \in Nat, Cardinality(S) >= n
    PROVE  Cardinality(T) >= n
<1>1. Cardinality(S) <= Cardinality(T) /\ IsFiniteSet(S)
    BY FS_Subset
<1>2. Cardinality(S) \in Nat /\ Cardinality(T) \in Nat
    BY <1>1, FS_CardinalityType
<1>. QED BY <1>1, <1>2

LEMMA PortsAreFinite ==
    ASSUME NEW E, IsFiniteSet(E)
    PROVE  IsFiniteSet(Ports(E)) /\ IsFiniteSet(Drops(E))
<1>1. IsFiniteSet(Ports(E))
    <2> DEFINE f == [e \in E |-> e.port]
    <2>1. f \in Surjection(E, Ports(E))
        BY DEF Ports, Surjection
    <2>. QED BY <2>1, FS_Surjection
<1>2. Drops(E) \in SUBSET E
    BY DEF Drops
<1>. QED BY <1>1, <1>2, FS_Subset

(* Every dropped connection is a scan event: a source the firewall blocked *)
(* MinDrops times has sent one.                                            *)
LEMMA DropsAreScans ==
    ASSUME NEW E, Cardinality(Drops(E)) >= MinDrops
    PROVE  \E e \in E : e.type \in ScanEventTypes
<1>1. Drops(E) # {}
    BY SomeElement, RuleAssumption
<1>2. PICK e \in Drops(E) : TRUE
    BY <1>1
<1>3. e \in E /\ e.type \in DropTypes
    BY <1>2 DEF Drops
<1>4. e.type \in ScanEventTypes
    BY <1>3 DEF DropTypes, ScanEventTypes
<1>. QED BY <1>3, <1>4

-----------------------------------------------------------------------------

LEMMA InvIsInvariant == Spec => []Inv
<1>1. Init => Inv
    BY FS_EmptySet DEF Init, Inv
<1>2. Inv /\ [Next]_vars => Inv'
    <2>1. ASSUME Inv, NEW l, AddEvent(l)
          PROVE  Inv'
        BY <2>1, FS_AddElement DEF Inv, AddEvent
    <2>. QED BY <2>1 DEF Next, vars, Inv
<1>. QED BY <1>1, <1>2, PTL DEF Spec

-----------------------------------------------------------------------------

(* The events of a look are some of the events. *)
LEMMA AlikeCounts ==
    ASSUME Inv, NEW l
    PROVE  /\ IsFiniteSet(Alike(l)) /\ Cardinality(Alike(l)) \in Nat
           /\ Cardinality(Alike(l)) <= Cardinality(events) /\ Cardinality(events) \in Nat
<1>1. Alike(l) \in SUBSET events
    BY DEF Alike
<1>. QED BY <1>1, FS_Subset, FS_CardinalityType DEF Inv

(* A new event is new: the cluster has as many members as events were      *)
(* appended to it.                                                         *)
LEMMA NewEventIsNew ==
    ASSUME GrowthInv, NEW l \in LooksOf(kind)
    PROVE  /\ NewEvent(l) \notin events
           /\ LookOf(NewEvent(l)) = LookOf(l) /\ NewEvent(l).n = Cardinality(Alike(l)) + 1
           /\ IsFiniteSet(events \cup {NewEvent(l)})
           /\ Cardinality(events \cup {NewEvent(l)}) = Cardinality(events) + 1
<1>1. LookOf(NewEvent(l)) = LookOf(l) /\ NewEvent(l).n = Cardinality(Alike(l)) + 1
    BY DEF NewEvent, LookOf
<1>2. \A e \in events : LookOf(e) = LookOf(l) => Alike(LookOf(e)) = Alike(l)
    BY DEF Alike, LookOf
<1>3. NewEvent(l) \notin events
    <2>1. SUFFICES ASSUME NewEvent(l) \in events PROVE FALSE
        OBVIOUS
    <2>2. NewEvent(l).n \in 1..Cardinality(Alike(l))
        BY <1>1, <1>2, <2>1 DEF GrowthInv, Numbered
    <2>. QED BY <1>1, <2>2, AlikeCounts DEF GrowthInv
<1>4. IsFiniteSet(events)
    BY DEF GrowthInv, Inv
<1>. QED BY <1>1, <1>3, <1>4, FS_AddElement

LEMMA AddKeepsGrowthInv ==
    ASSUME GrowthInv, NEW l \in LooksOf(kind), AddEvent(l)
    PROVE  GrowthInv'
<1>1. /\ events' = events \cup {NewEvent(l)} /\ kind' = kind /\ asn' = asn
      /\ Cardinality(events) < MaxEvents
    BY DEF AddEvent
<1>2. /\ NewEvent(l) \notin events
      /\ LookOf(NewEvent(l)) = LookOf(l) /\ NewEvent(l).n = Cardinality(Alike(l)) + 1
      /\ IsFiniteSet(events') /\ Cardinality(events') = Cardinality(events) + 1
    BY <1>1, NewEventIsNew
<1>3. Cardinality(events') <= MaxEvents
    BY <1>1, <1>2, AlikeCounts, LookAssumption DEF GrowthInv
<1>4. LookOf(NewEvent(l)) \in LooksOf(kind)
    <2>1. LookOf(l) = l
        BY LookAssumption DEF LooksOf, LookOf
    <2>. QED BY <1>2, <2>1
<1>5. ASSUME NEW k
      PROVE  Cardinality(Alike(k)') >= Cardinality(Alike(k))
    <2>1. Alike(k) \in SUBSET Alike(k)'
        BY <1>1 DEF Alike
    <2>2. Alike(k)' \in SUBSET events'
        BY DEF Alike
    <2>. QED BY <1>2, <2>1, <2>2, FS_Subset, FS_CardinalityType
<1>6. ASSUME NEW e \in events'
      PROVE  LookOf(e) \in LooksOf(kind) /\ e.n \in 1..Cardinality(Alike(LookOf(e))')
    <2>1. CASE e \in events
        <3>1. /\ LookOf(e) \in LooksOf(kind) /\ e.n \in Nat /\ e.n >= 1
              /\ e.n <= Cardinality(Alike(LookOf(e)))
            BY <2>1, AlikeCounts DEF GrowthInv, Numbered
        <3>2. Alike(LookOf(e))' \in SUBSET events'
            BY DEF Alike
        <3>3. Cardinality(Alike(LookOf(e))') \in Nat
            BY <1>2, <3>2, FS_Subset, FS_CardinalityType
        <3>. QED BY <1>5, <3>1, <3>3, AlikeCounts DEF GrowthInv
    <2>2. CASE e = NewEvent(l)
        <3>1. Alike(LookOf(e))' = Alike(l) \cup {e}
            BY <1>1, <1>2, <2>2 DEF Alike, LookOf
        <3>2. e \notin Alike(l)
            BY <1>2, <2>2 DEF Alike
        <3>3. Cardinality(Alike(LookOf(e))') = Cardinality(Alike(l)) + 1
            BY <3>1, <3>2, AlikeCounts, FS_AddElement DEF GrowthInv
        <3>. QED BY <1>2, <1>4, <2>2, <3>3, AlikeCounts DEF GrowthInv
    <2>. QED BY <1>1, <2>1, <2>2
<1>7. Numbered'
    <2>1. \A e \in events' : LookOf(e)' = LookOf(e) /\ LooksOf(kind)' = LooksOf(kind)
        BY <1>1 DEF LookOf, LooksOf
    <2>. QED BY <1>3, <1>6, <2>1 DEF Numbered
<1>. QED BY <1>1, <1>2, <1>7 DEF GrowthInv, Inv

LEMMA GrowthIsInvariant == Spec => []GrowthInv
<1>1. Init => GrowthInv
    <2>1. IsFiniteSet({}) /\ Cardinality({}) = 0
        BY FS_EmptySet
    <2>2. Init => asn \in Asn
        BY DEF Init, Asn
    <2>3. Init => kind \in SourceKind /\ events = {}
        BY DEF Init
    <2>. QED BY <2>1, <2>2, <2>3, LookAssumption DEF GrowthInv, Inv, Numbered
<1>2. GrowthInv /\ [Next]_vars => GrowthInv'
    <2>1. GrowthInv /\ UNCHANGED vars => GrowthInv'
        BY DEF GrowthInv, Inv, Numbered, Alike, LooksOf, LookOf, vars
    <2>. QED BY <2>1, AddKeepsGrowthInv DEF Next
<1>. QED BY <1>1, <1>2, PTL DEF Spec

-----------------------------------------------------------------------------

(* Rules for the inside never name an outside address and the other way    *)
(* round, though RepeatedDropRule asks for no side.                        *)
THEOREM SidesStayApart == Spec => []RulesKeepSides
<1>1. RulesKeepSides
    <2>1. ASSUME kind = "external"
          PROVE  Rule \in {"suppressed", "inbound_scan", "generic_scan"}
        <3>1. IsExternal(kind)
            BY <2>1 DEF IsExternal
        <3>2. RepeatedDrop(events) => ExternalScan(kind, events)
            BY <3>1, DropsAreScans DEF RepeatedDrop, ExternalScan
        <3>. QED
            BY <3>1, <3>2 DEF Rule, Match, PortScan, NewDevice
    <2>2. ASSUME kind = "internal"
          PROVE  Rule \in {"port_scan", "repeated_drop", "new_device", "generic_scan"}
        BY <2>2 DEF Rule, Match, CloudSuppress, ExternalScan, IsExternal
    <2>. QED BY <2>1, <2>2 DEF RulesKeepSides
<1>. QED BY <1>1, PTL

(* A source that was blocked MinDrops times is reported as more than a     *)
(* generic scan or a new device.                                           *)
THEOREM BlockedSourcesNamed == Spec => []BlockedIsNamed
<1>1. BlockedIsNamed
    <2>1. SUFFICES ASSUME Cardinality(Drops(events)) >= MinDrops
                   PROVE  Rule \notin {"new_device", "generic_scan"}
        BY DEF BlockedIsNamed
    <2>2. RepeatedDrop(events)
        BY <2>1 DEF RepeatedDrop
    <2>. QED BY <2>2 DEF Rule, Match
<1>. QED BY <1>1, PTL

(* One more event leaves a source under the rule it was under, or brings   *)
(* it under a stronger one: suppression is lost, never gained.             *)
THEOREM RulesNeverWeaken == Spec => RuleNeverWeakens
<1>1. ASSUME Inv, events # {}, [Next]_vars
      PROVE  RuleRank(Match(kind', asn', events')) >= RuleRank(Rule)
    <2>1. events \subseteq events' /\ kind' = kind /\ asn' = asn
        BY <1>1 DEF Next, AddEvent, vars
    <2>2. IsFiniteSet(events')
        BY <1>1, FS_AddElement DEF Inv, Next, AddEvent, vars
    <2>3. CloudSuppress(kind, asn, events') => CloudSuppress(kind, asn, events)
        BY <1>1, <2>1 DEF CloudSuppress, AllEventsToGateway
    <2>4. ExternalScan(kind, events) => ExternalScan(kind, events')
        BY <2>1 DEF ExternalScan
    <2>5. PortScan(kind, events) => PortScan(kind, events')
        <3>1. Ports(events) \in SUBSET Ports(events')
            BY <2>1 DEF Ports
        <3>. QED
            BY <2>2, <3>1, PortsAreFinite, SubsetsAreSmaller, RuleAssumption DEF PortScan
    <2>6. RepeatedDrop(events) => RepeatedDrop(events')
        <3>1. Drops(events) \in SUBSET Drops(events')
            BY <2>1 DEF Drops
        <3>. QED
            BY <2>2, <3>1, PortsAreFinite, SubsetsAreSmaller, RuleAssumption DEF RepeatedDrop
    <2>7. NewDevice(kind, events) => NewDevice(kind, events')
        BY <2>1 DEF NewDevice
    <2>. QED
        BY <2>1, <2>3, <2>4, <2>5, <2>6, <2>7 DEF Rule, Match, RuleRank
<1>2. Inv /\ [Next]_vars => [events # {} => RuleRank(Match(kind', asn', events')) >= RuleRank(Rule)]_vars
    BY <1>1
<1>. QED BY <1>2, InvIsInvariant, PTL DEF Spec, RuleNeverWeakens

-----------------------------------------------------------------------------
(* The score of n events on p real ports *)
Points(n, p) == IF p = 0 THEN <<n, n + 5>> ELSE <<n * p, n + p + 1>>

(* One more event, on an old port or on a new one, passes what was passed  *)
(* before: with ports, n * p gains at least p, and the divisor 1 or 2.     *)
LEMMA PointsGrow ==
    ASSUME NEW n \in Nat, NEW p \in Nat, NEW q \in {p, p + 1}, NEW percent \in {45, 75},
           AtLeast(Points(n, p), percent)
    PROVE  AtLeast(Points(n + 1, q), percent)
<1>1. CASE p = 0 /\ q = 0
    <2>1. 100 * n >= percent * (n + 5)
        BY <1>1 DEF Points, AtLeast
    <2>2. 100 * (n + 1) >= percent * ((n + 1) + 5)
        BY <2>1
    <2>. QED BY <1>1, <2>2 DEF Points, AtLeast
<1>2. CASE p = 0 /\ q = 1
    <2>1. 100 * n >= percent * (n + 5)
        BY <1>2 DEF Points, AtLeast
    <2>2. 100 * ((n + 1) * 1) >= percent * ((n + 1) + 1 + 1)
        BY <2>1
    <2>. QED BY <1>2, <2>2 DEF Points, AtLeast
<1>3. CASE p # 0
    <2>1. PICK m \in Nat : m = n * p
        OBVIOUS
    <2>2. 100 * m >= percent * (n + p + 1)
        BY <1>3, <2>1 DEF Points, AtLeast
    <2>3. CASE q = p
        <3>1. (n + 1) * q = m + p
            BY <2>1, <2>3
        <3>2. 100 * (m + p) >= percent * ((n + 1) + p + 1)
            BY <1>3, <2>2
        <3>. QED BY <1>3, <2>3, <3>1, <3>2 DEF Points, AtLeast
    <2>4. CASE q = p + 1
        <3>1. (n + 1) * q = m + n + p + 1
            BY <2>1, <2>4
        <3>2. 100 * (m + n + p + 1) >= percent * ((n + 1) + (p + 1) + 1)
            BY <1>3, <2>2
        <3>. QED BY <1>3, <2>4, <3>1, <3>2 DEF Points, AtLeast
    <2>. QED BY <2>3, <2>4
<1>. QED BY <1>1, <1>2, <1>3

(* A new event adds at most its own port to the real ones. *)
LEMMA RealPortsGrow ==
    ASSUME NEW E, IsFiniteSet(E), NEW e
    PROVE  /\ Cardinality(RealPorts(E)) \in Nat
           /\ Cardinality(RealPorts(E \cup {e})) \in
                  {Cardinality(RealPorts(E)), Cardinality(RealPorts(E)) + 1}
<1>1. IsFiniteSet(RealPorts(E))
    <2>1. RealPorts(E) \in SUBSET Ports(E)
        BY DEF RealPorts
    <2>. QED BY <2>1, PortsAreFinite, FS_Subset
<1>2. \/ RealPorts(E \cup {e}) = RealPorts(E)
      \/ RealPorts(E \cup {e}) = RealPorts(E) \cup {e.port}
    BY DEF RealPorts, Ports
<1>. QED BY <1>1, <1>2, FS_AddElement, FS_CardinalityType

(* computeScore, for any looks: one more event, on an old port, a new port *)
(* or no port, never lowers the severity of a source.                      *)
THEOREM SeveritiesNeverDrop == Spec => SeverityNeverDrops
<1>1. ASSUME GrowthInv, [Next]_vars
      PROVE  SeverityRank(Severity(events')) >= SeverityRank(Severity(events))
    <2>1. CASE UNCHANGED vars
        <3>1. Severity(events') = Severity(events)
            BY <2>1 DEF vars
        <3>2. SeverityRank(Severity(events)) \in Nat
            BY DEF Severity, SeverityRank
        <3>. QED BY <3>1, <3>2
    <2>2. ASSUME NEW l \in LooksOf(kind), AddEvent(l)
          PROVE  SeverityRank(Severity(events')) >= SeverityRank(Severity(events))
        <3>1. /\ events' = events \cup {NewEvent(l)} /\ IsFiniteSet(events)
              /\ Cardinality(events') = Cardinality(events) + 1 /\ Cardinality(events) \in Nat
            BY <1>1, <2>2, NewEventIsNew, FS_CardinalityType DEF AddEvent, GrowthInv, Inv
        <3>2. /\ Cardinality(RealPorts(events)) \in Nat
              /\ Cardinality(RealPorts(events')) \in
                     {Cardinality(RealPorts(events)), Cardinality(RealPorts(events)) + 1}
            BY <3>1, RealPortsGrow
        <3>3. ASSUME NEW percent \in {45, 75}, AtLeast(Score(events), percent)
              PROVE  AtLeast(Score(events'), percent)
            <4>1. PICK n \in Nat, p \in Nat, q \in Nat :
                    /\ q \in {p, p + 1} /\ n = Cardinality(events) /\ Cardinality(events') = n + 1
                    /\ p = Cardinality(RealPorts(events)) /\ q = Cardinality(RealPorts(events'))
                BY <3>1, <3>2
            <4>2. Score(events) = Points(n, p) /\ Score(events') = Points(n + 1, q)
                BY <4>1 DEF Score, Points
            <4>. QED BY <3>3, <4>1, <4>2, PointsGrow
        <3>. QED BY <3>3 DEF Severity, SeverityRank
    <2>. QED BY <1>1, <2>1, <2>2 DEF Next
<1>. QED BY <1>1, GrowthIsInvariant, PTL DEF Spec, SeverityNeverDrops
=============================================================================
