------------------------ MODULE CaseAlertingProofs ------------------------
(***************************************************************************)
(* Proofs about CaseAlerting, for any cases, mentions, commands, failures  *)
(* and restarts: threads keep to their cases, a prior observation links a  *)
(* related case, and apart from the alerts whose reply is lost a case gets *)
(* two threads in a run at most.                                           *)
(***************************************************************************)
EXTENDS CaseAlerting, SequenceTheorems, FiniteSetTheorems, TLAPS

(* Message i started a thread for c in run r of the agent. *)
Thread(i, c, r) == InThreadOf(i, c) /\ channel[i].run = r

(* Message i alerted, in run r, another case that shares a source with c.  *)
Linked(i, c, r) ==
    /\ i \in DOMAIN channel
    /\ channel[i].kind = "alert"
    /\ channel[i].run = r
    /\ channel[i].case # c
    /\ SrcOf[channel[i].case] \cap SrcOf[c] # {}

(* What is remembered between two uses of h.mu stays true in the meantime, *)
(* because the channel only grows and a restart forgets all of it.         *)
Threads == \A c \in Case : caseThreads[c] # 0 => Thread(caseThreads[c], c, restarts)

JobOK(j) ==
    /\ j.pc # "idle" => j.case \in Case
    /\ j.pc \in {"reply", "record"} => Thread(j.thread, j.case, restarts)
    /\ j.link # 0 => Linked(j.link, j.case, restarts)

Jobs == \A p \in Poster : JobOK(job[p])

AskOK(a) ==
    /\ a.pc # "unasked" => a.thread # 0
    /\ a.pc \in {"unasked", "lock", "find"} => a.about = None
    /\ a.about # None => InThreadOf(a.thread, a.about)

Asks == \A m \in Mention : AskOK(ask[m])

(* What the two properties say of a message. *)
MessageOK(m) ==
    /\ m.kind = "update" => InThreadOf(m.thread, m.case)
    /\ m.kind = "answer" /\ m.case # None => InThreadOf(m.thread, m.case)
    /\ m.kind = "alert" => m.case \in Case
    /\ m.link # 0 => Linked(m.link, m.case, m.run)

Messages == \A i \in DOMAIN channel : MessageOK(channel[i])

IInv == TypeOK /\ Threads /\ Jobs /\ Asks /\ Messages

(* The channel keeps what it has. *)
Grows == \A i \in DOMAIN channel : i \in DOMAIN channel' /\ channel'[i] = channel[i]

-----------------------------------------------------------------------------
LEMMA InitIInv == Init => IInv
<1> SUFFICES ASSUME Init PROVE IInv
  OBVIOUS
<1>1. Idle \in Job /\ Idle.pc = "idle" /\ Idle.link = 0
  <2>1. <<>> \in Seq(Case)
    OBVIOUS
  <2> QED
    BY <2>1 DEF Idle, Job
<1>2. Unasked \in Ask /\ Unasked.about = None /\ Unasked.pc = "unasked"
  BY DEF Unasked, Ask
<1>3. TypeOK
  BY <1>1, <1>2 DEF Init, TypeOK
<1>4. Threads /\ Messages
  BY DEF Init, Threads, Messages
<1>5. Jobs
  BY <1>1 DEF Init, Jobs, JobOK
<1>6. Asks
  BY <1>2 DEF Init, Asks, AskOK
<1> QED
  BY <1>3, <1>4, <1>5, <1>6 DEF IInv

(* A message that is added is the last one, and the others stay. *)
LEMMA AppendGrows ==
    ASSUME TypeOK, NEW m \in Message, channel' = Append(channel, m)
    PROVE  /\ Grows
           /\ channel' \in Seq(Message)
           /\ Len(channel) + 1 \in DOMAIN channel' /\ channel'[Len(channel) + 1] = m
           /\ \A i \in DOMAIN channel' : i \in DOMAIN channel \/ i = Len(channel) + 1
<1>1. channel \in Seq(Message)
  BY DEF TypeOK
<1>2. channel' \in Seq(Message) /\ Len(channel') = Len(channel) + 1
  BY <1>1, AppendProperties
<1>3. \A i \in 1..Len(channel) : channel'[i] = channel[i]
  BY <1>1, AppendProperties
<1>4. channel'[Len(channel) + 1] = m
  BY <1>1, AppendProperties
<1>5. DOMAIN channel = 1..Len(channel) /\ DOMAIN channel' = 1..Len(channel') /\ Len(channel) \in Nat
  BY <1>1, <1>2, LenProperties
<1> QED
  BY <1>2, <1>3, <1>4, <1>5 DEF Grows

(* Facts about messages outlive the growth of the channel. *)
LEMMA FactsStay ==
    ASSUME Grows
    PROVE  /\ \A i, c : InThreadOf(i, c) => InThreadOf(i, c)'
           /\ \A i, c, r : Thread(i, c, r) => Thread(i, c, r)'
           /\ \A i, c, r : Linked(i, c, r) => Linked(i, c, r)'
           /\ \A m : MessageOK(m) => MessageOK(m)'
           /\ \A a : AskOK(a) => AskOK(a)'
<1>1. \A i, c : InThreadOf(i, c) => InThreadOf(i, c)'
  BY DEF Grows, InThreadOf
<1>2. \A i, c, r : Thread(i, c, r) => Thread(i, c, r)'
  BY DEF Grows, InThreadOf, Thread
<1>3. \A i, c, r : Linked(i, c, r) => Linked(i, c, r)'
  BY DEF Grows, Linked
<1>4. \A m : MessageOK(m) => MessageOK(m)'
  BY <1>1, <1>3 DEF MessageOK
<1>5. \A a : AskOK(a) => AskOK(a)'
  BY <1>1 DEF AskOK
<1> QED
  BY <1>1, <1>2, <1>3, <1>4, <1>5

LEMMA JobsStay ==
    ASSUME Grows, restarts' = restarts
    PROVE  \A j : JobOK(j) => JobOK(j)'
  BY FactsStay DEF JobOK

LEMMA MessagesStay ==
    ASSUME IInv, UNCHANGED channel \/ \E m \in Message : MessageOK(m)' /\ channel' = Append(channel, m)
    PROVE  Messages' /\ Grows /\ channel' \in Seq(Message)
<1>1. CASE UNCHANGED channel
  <2>1. Grows
    BY <1>1 DEF Grows
  <2>2. ASSUME NEW i \in DOMAIN channel' PROVE MessageOK(channel[i])'
    <3>1. MessageOK(channel[i]) /\ channel'[i] = channel[i]
      BY <1>1, <2>2 DEF IInv, Messages
    <3> QED
      BY <3>1, <2>1, FactsStay DEF MessageOK
  <2> QED
    BY <1>1, <2>1, <2>2 DEF IInv, TypeOK, Messages
<1>2. CASE \E m \in Message : MessageOK(m)' /\ channel' = Append(channel, m)
  <2>1. PICK m \in Message : MessageOK(m)' /\ channel' = Append(channel, m)
    BY <1>2
  <2>2. /\ Grows /\ channel' \in Seq(Message)
        /\ channel'[Len(channel) + 1] = m
        /\ \A i \in DOMAIN channel' : i \in DOMAIN channel \/ i = Len(channel) + 1
    BY <2>1, AppendGrows DEF IInv
  <2>3. ASSUME NEW i \in DOMAIN channel' PROVE MessageOK(channel[i])'
    <3>1. CASE i \in DOMAIN channel
      <4>1. MessageOK(channel[i]) /\ channel'[i] = channel[i]
        BY <3>1, <2>2 DEF IInv, Messages, Grows
      <4> QED
        BY <4>1, <2>2, FactsStay DEF MessageOK
    <3>2. CASE i = Len(channel) + 1
      BY <2>1, <2>2, <3>2 DEF MessageOK
    <3> QED
      BY <2>2, <3>1, <3>2
  <2> QED
    BY <2>2, <2>3 DEF Messages
<1> QED
  BY <1>1, <1>2

(* One call moves on: what it remembers now must hold, the rest stays.     *)
LEMMA JobMoves ==
    ASSUME IInv, Grows, restarts' = restarts,
           NEW p \in Poster, NEW j \in Job, JobOK(j)', job' = [job EXCEPT ![p] = j]
    PROVE  Jobs' /\ job' \in [Poster -> Job]
<1>1. job \in [Poster -> Job]
  BY DEF IInv, TypeOK
<1>2. ASSUME NEW q \in Poster PROVE JobOK(job[q])'
  <2>1. CASE q = p
    <3>1. job'[q] = j
      BY <1>1, <2>1
    <3> QED
      BY <3>1 DEF JobOK
  <2>2. CASE q # p
    <3>1. job'[q] = job[q] /\ JobOK(job[q])
      BY <1>1, <2>2 DEF IInv, Jobs
    <3> QED
      BY <3>1, JobsStay DEF JobOK
  <2> QED
    BY <2>1, <2>2
<1> QED
  BY <1>1, <1>2 DEF Jobs

LEMMA JobsRest ==
    ASSUME IInv, Grows, restarts' = restarts, job' = job
    PROVE  Jobs' /\ job' \in [Poster -> Job]
<1>1. ASSUME NEW q \in Poster PROVE JobOK(job[q])'
  <2>1. job'[q] = job[q] /\ JobOK(job[q])
    BY DEF IInv, Jobs
  <2> QED
    BY <2>1, JobsStay DEF JobOK
<1> QED
  BY <1>1 DEF Jobs, IInv, TypeOK

LEMMA AskMoves ==
    ASSUME IInv, Grows, NEW m \in Mention, NEW a \in Ask, AskOK(a)', ask' = [ask EXCEPT ![m] = a]
    PROVE  Asks' /\ ask' \in [Mention -> Ask]
<1>1. ask \in [Mention -> Ask]
  BY DEF IInv, TypeOK
<1>2. ASSUME NEW q \in Mention PROVE AskOK(ask[q])'
  <2>1. CASE q = m
    <3>1. ask'[q] = a
      BY <1>1, <2>1
    <3> QED
      BY <3>1 DEF AskOK
  <2>2. CASE q # m
    <3>1. ask'[q] = ask[q] /\ AskOK(ask[q])
      BY <1>1, <2>2 DEF IInv, Asks
    <3> QED
      BY <3>1, FactsStay DEF AskOK
  <2> QED
    BY <2>1, <2>2
<1> QED
  BY <1>1, <1>2 DEF Asks

LEMMA AsksRest ==
    ASSUME IInv, Grows, ask' = ask
    PROVE  Asks' /\ ask' \in [Mention -> Ask]
<1>1. ASSUME NEW q \in Mention PROVE AskOK(ask[q])'
  <2>1. ask'[q] = ask[q] /\ AskOK(ask[q])
    BY DEF IInv, Asks
  <2> QED
    BY <2>1, FactsStay DEF AskOK
<1> QED
  BY <1>1 DEF Asks, IInv, TypeOK

LEMMA ThreadsRest ==
    ASSUME IInv, Grows, restarts' = restarts, caseThreads' = caseThreads
    PROVE  Threads' /\ caseThreads' \in [Case -> Nat]
<1>1. ASSUME NEW c \in Case, caseThreads'[c] # 0 PROVE Thread(caseThreads[c], c, restarts)'
  <2>1. Thread(caseThreads[c], c, restarts)
    BY <1>1 DEF IInv, Threads
  <2> QED
    BY <2>1, FactsStay DEF Thread, InThreadOf
<1> QED
  BY <1>1 DEF Threads, IInv, TypeOK

-----------------------------------------------------------------------------
(* The environment: cases are stored, and calls of PostCaseAlert begin.    *)
LEMMA IdleFacts == Idle \in Job /\ Idle.link = 0
<1>1. <<>> \in Seq(Case)
  OBVIOUS
<1> QED
  BY <1>1 DEF Idle, Job

LEMMA StoreCaseIInv == ASSUME IInv, NEW c \in Case, StoreCase(c) PROVE IInv'
<1>1. UNCHANGED <<spawned, caseThreads, mu, channel, job, ask, commands, faults, restarts>>
  BY DEF StoreCase, handler, counts
<1>2. Messages' /\ Grows
  BY <1>1, MessagesStay
<1>3. Threads' /\ Jobs' /\ Asks'
  BY <1>1, <1>2, ThreadsRest, JobsRest, AsksRest
<1>4. stored' \in Seq(Case)
  BY AppendProperties DEF StoreCase, IInv, TypeOK
<1>5. TypeOK'
  BY <1>1, <1>4 DEF IInv, TypeOK
<1> QED
  BY <1>2, <1>3, <1>5 DEF IInv

(* A call that begins has its case and nothing else to remember. *)
LEMMA BeginIInv ==
    ASSUME IInv, NEW p \in Poster, NEW c \in Case,
           job' = [job EXCEPT ![p] = [Idle EXCEPT !.pc = "lookup", !.case = c]],
           spawned' \subseteq Case, commands' \in Nat, faults' \in Nat,
           UNCHANGED <<stored, caseThreads, mu, channel, ask, restarts>>
    PROVE  IInv'
<1>1. Messages' /\ Grows
  BY MessagesStay
<1>2. Threads' /\ Asks'
  BY <1>1, ThreadsRest, AsksRest
<1> DEFINE j == [Idle EXCEPT !.pc = "lookup", !.case = c]
<1>3. j \in Job /\ j.pc = "lookup" /\ j.case = c /\ j.link = 0
  BY IdleFacts DEF Job, Idle
<1>4. JobOK(j)'
  BY <1>3 DEF JobOK
<1>5. Jobs' /\ job' \in [Poster -> Job]
  BY <1>1, <1>3, <1>4, JobMoves
<1>6. TypeOK'
  BY <1>5 DEF IInv, TypeOK
<1> QED
  BY <1>1, <1>2, <1>5, <1>6 DEF IInv

LEMMA StartAlertIInv == ASSUME IInv, NEW c \in Case, StartAlert(c) PROVE IInv'
<1>1. c \in Poster /\ spawned' \subseteq Case /\ commands \in Nat /\ faults \in Nat
  BY DEF StartAlert, Poster, IInv, TypeOK
<1> QED
  BY <1>1, BeginIInv DEF StartAlert, handler, counts

LEMMA CommandIInv ==
    ASSUME IInv, CmdPostLatestAlert \/ CmdPostLatestAny
    PROVE  IInv'
<1>1. PICK i \in DOMAIN stored : Command(stored[i])
  BY DEF CmdPostLatestAlert, CmdPostLatestAny
<1>2. stored[i] \in Case
  BY ElementOfSeq DEF IInv, TypeOK
<1>3. Loop \in Poster /\ spawned' \subseteq Case /\ commands' \in Nat
  BY <1>1 DEF Command, Poster, IInv, TypeOK
<1>4. faults' \in Nat
  BY DEF CmdPostLatestAlert, CmdPostLatestAny, IInv, TypeOK
<1> QED
  BY <1>1, <1>2, <1>3, <1>4, BeginIInv DEF Command, handler

-----------------------------------------------------------------------------
(* The steps of PostCaseAlert *)

LEMMA FaultTypes == ASSUME IInv, Fault \/ UNCHANGED counts
                    PROVE  faults' \in Nat /\ UNCHANGED <<commands, restarts>>
  BY DEF Fault, counts, IInv, TypeOK

(* A step of a call that leaves the threads alone. *)
LEMMA CallIInv ==
    ASSUME IInv, NEW p \in Poster, NEW j \in Job, JobOK(j)', job' = [job EXCEPT ![p] = j],
           Fault \/ UNCHANGED counts,
           UNCHANGED channel \/ \E m \in Message : MessageOK(m)' /\ channel' = Append(channel, m),
           UNCHANGED <<stored, spawned, caseThreads, mu, ask>>
    PROVE  IInv'
<1>1. Messages' /\ Grows /\ channel' \in Seq(Message)
  BY MessagesStay
<1>2. faults' \in Nat /\ UNCHANGED <<commands, restarts>>
  BY FaultTypes
<1>3. Threads' /\ Asks'
  BY <1>1, <1>2, ThreadsRest, AsksRest
<1>4. Jobs' /\ job' \in [Poster -> Job]
  BY <1>1, <1>2, JobMoves
<1>5. TypeOK'
  BY <1>1, <1>2, <1>4 DEF IInv, TypeOK
<1> QED
  BY <1>1, <1>3, <1>4, <1>5 DEF IInv

LEMMA JobFacts ==
    ASSUME IInv, NEW p \in Poster, job[p].pc # "idle"
    PROVE  /\ job[p] \in Job /\ JobOK(job[p])
           /\ job[p].case \in Case
           /\ job \in [Poster -> Job]
  BY DEF IInv, TypeOK, Jobs, JobOK

LEMMA LookupThreadIInv == ASSUME IInv, NEW p \in Poster, LookupThread(p) PROVE IInv'
<1>1. /\ job[p].pc = "lookup"
      /\ UNCHANGED <<stored, spawned, caseThreads, mu, channel, ask, counts>>
  BY DEF LookupThread, handler
<1> DEFINE t == caseThreads[job[p].case]
           j == [job[p] EXCEPT !.thread = t, !.pc = IF t = 0 THEN "scan" ELSE "reply"]
<1>2. job' = [job EXCEPT ![p] = j]
  BY <1>1, JobFacts DEF LookupThread
<1>3. t \in Nat /\ job[p] \in Job
  BY <1>1, JobFacts DEF IInv, TypeOK
<1>4. j \in Job
  BY <1>3 DEF Job
<1>5. t # 0 => Thread(t, job[p].case, restarts)
  BY <1>1, JobFacts DEF IInv, Threads
<1>6. JobOK(j)
  BY <1>1, <1>3, <1>5, JobFacts DEF JobOK, Job
<1>7. PICK k \in Job : k = j
  BY <1>4
<1>8. JobOK(k)'
  BY <1>1, <1>6, <1>7, JobsStay DEF Grows, counts
<1> QED
  BY <1>1, <1>2, <1>7, <1>8, CallIInv

LEMMA ListingCases == ASSUME IInv PROVE Listing \in Seq(Case)
<1> DEFINE n == IF Len(stored) < MaxListed THEN Len(stored) ELSE MaxListed
<1>1. stored \in Seq(Case) /\ Len(stored) \in Nat /\ DOMAIN stored = 1..Len(stored)
  BY LenProperties DEF IInv, TypeOK
<1>2. n \in Nat /\ n <= Len(stored)
  BY <1>1, LimitAssumption
<1>3. ASSUME NEW i \in 1..n PROVE stored[Len(stored) + 1 - i] \in Case
  <2>1. Len(stored) + 1 - i \in 1..Len(stored)
    BY <1>1, <1>2
  <2> QED
    BY <1>1, <2>1, ElementOfSeq
<1>4. Listing = [i \in 1..n |-> stored[Len(stored) + 1 - i]]
  BY DEF Listing
<1> HIDE DEF n
<1> QED
  BY <1>2, <1>3, <1>4, IsASeq

LEMMA ScanPriorCasesIInv ==
    ASSUME IInv, NEW p \in Poster, ScanPriorCases(p) \/ ScanFails(p)
    PROVE  IInv'
<1>1. /\ job[p].pc = "scan"
      /\ UNCHANGED <<stored, spawned, caseThreads, mu, channel, ask>>
      /\ Fault \/ UNCHANGED counts
  BY DEF ScanPriorCases, ScanFails, handler
<1>2. PICK s \in Seq(Case) :
        job' = [job EXCEPT ![p] = [job[p] EXCEPT !.todo = s, !.pc = "prior"]]
  <2>1. CASE ScanPriorCases(p)
    BY <1>1, <2>1, JobFacts, ListingCases DEF ScanPriorCases
  <2>2. CASE ScanFails(p)
    <3>1. job[p].todo \in Seq(Case) /\ job[p] \in Job
      BY <1>1, JobFacts DEF Job
    <3>2. [job[p] EXCEPT !.todo = job[p].todo, !.pc = "prior"] = [job[p] EXCEPT !.pc = "prior"]
      BY <3>1 DEF Job
    <3> QED
      BY <2>2, <3>1, <3>2 DEF ScanFails, Goto
  <2> QED
    BY <2>1, <2>2
<1> DEFINE j == [job[p] EXCEPT !.todo = s, !.pc = "prior"]
<1>3. j \in Job
  BY <1>1, JobFacts DEF Job
<1>4. JobOK(j)
  BY <1>1, JobFacts DEF JobOK, Job
<1>5. restarts' = restarts /\ Grows
  BY <1>1, FaultTypes DEF Grows
<1>6. PICK k \in Job : k = j
  BY <1>3
<1>7. JobOK(k)'
  BY <1>4, <1>5, <1>6, JobsStay
<1> QED
  BY <1>1, <1>2, <1>6, <1>7, CallIInv

LEMMA PassUnrelatedIInv == ASSUME IInv, NEW p \in Poster, PassUnrelated(p) PROVE IInv'
<1>1. /\ job[p].pc = "prior" /\ job[p].todo # <<>>
      /\ UNCHANGED <<stored, spawned, caseThreads, mu, channel, ask, counts>>
  BY DEF PassUnrelated, handler
<1> DEFINE j == [job[p] EXCEPT !.todo = Tail(job[p].todo)]
<1>2. job' = [job EXCEPT ![p] = j]
  BY DEF PassUnrelated
<1>3. job[p] \in Job /\ job[p].todo \in Seq(Case)
  BY <1>1, JobFacts DEF Job
<1>4. Tail(job[p].todo) \in Seq(Case)
  BY <1>1, <1>3, HeadTailProperties
<1>5. j \in Job
  BY <1>3, <1>4 DEF Job
<1>6. JobOK(j)
  BY <1>1, <1>3, JobFacts DEF JobOK, Job
<1>7. PICK k \in Job : k = j
  BY <1>5
<1>8. JobOK(k)'
  BY <1>1, <1>6, <1>7, JobsStay DEF Grows, counts
<1> QED
  BY <1>1, <1>2, <1>7, <1>8, CallIInv

LEMMA PassUnreadIInv == ASSUME IInv, NEW p \in Poster, PassUnread(p) PROVE IInv'
<1>1. /\ job[p].pc = "prior" /\ job[p].todo # <<>> /\ Fault
      /\ UNCHANGED <<stored, spawned, caseThreads, mu, channel, ask>>
  BY DEF PassUnread, handler
<1> DEFINE j == [job[p] EXCEPT !.todo = Tail(job[p].todo)]
<1>2. job' = [job EXCEPT ![p] = j]
  BY DEF PassUnread
<1>3. job[p] \in Job /\ job[p].todo \in Seq(Case)
  BY <1>1, JobFacts DEF Job
<1>4. Tail(job[p].todo) \in Seq(Case)
  BY <1>1, <1>3, HeadTailProperties
<1>5. j \in Job
  BY <1>3, <1>4 DEF Job
<1>6. JobOK(j)
  BY <1>1, <1>3, JobFacts DEF JobOK, Job
<1>7. restarts' = restarts /\ Grows
  BY <1>1, FaultTypes DEF Grows
<1>8. PICK k \in Job : k = j
  BY <1>5
<1>9. JobOK(k)'
  BY <1>6, <1>7, <1>8, JobsStay
<1> QED
  BY <1>1, <1>2, <1>8, <1>9, CallIInv

(* The thread that is linked was started for a related case in this run.   *)
LEMMA ReadPriorIInv == ASSUME IInv, NEW p \in Poster, ReadPrior(p) PROVE IInv'
<1>1. /\ job[p].pc = "prior" /\ job[p].todo # <<>>
      /\ UNCHANGED <<stored, spawned, caseThreads, mu, channel, ask>>
      /\ Fault \/ UNCHANGED counts
  BY DEF ReadPrior, handler
<1>2. job[p] \in Job /\ JobOK(job[p]) /\ job[p].case \in Case /\ job[p].todo \in Seq(Case)
  BY <1>1, JobFacts DEF Job
<1>3. Head(job[p].todo) \in Case /\ Tail(job[p].todo) \in Seq(Case)
  BY <1>1, <1>2, HeadTailProperties
<1> DEFINE t == caseThreads[Head(job[p].todo)]
<1>4. PICK l \in {job[p].link, t} :
        job' = [job EXCEPT ![p] = [job[p] EXCEPT !.todo = Tail(job[p].todo), !.link = l]]
  <2>1. CASE job' = [job EXCEPT ![p].todo = Tail(@), ![p].link = IF @ = 0 THEN t ELSE @]
    BY <1>1, <2>1, JobFacts
  <2>2. CASE job' = [job EXCEPT ![p].todo = Tail(@)]
    <3>1. [job[p] EXCEPT !.todo = Tail(job[p].todo), !.link = job[p].link]
            = [job[p] EXCEPT !.todo = Tail(job[p].todo)]
      BY <1>2 DEF Job
    <3> QED
      BY <2>2, <3>1
  <2> QED
    BY <2>1, <2>2 DEF ReadPrior
<1> DEFINE j == [job[p] EXCEPT !.todo = Tail(job[p].todo), !.link = l]
<1>5. t \in Nat /\ (t # 0 => Linked(t, job[p].case, restarts))
  <2>1. t \in Nat
    BY <1>3 DEF IInv, TypeOK
  <2>2. t # 0 => Thread(t, Head(job[p].todo), restarts)
    BY <1>3 DEF IInv, Threads
  <2>3. PriorTo(Head(job[p].todo), job[p].case)
    BY DEF ReadPrior
  <2> QED
    BY <2>1, <2>2, <2>3 DEF Thread, InThreadOf, Linked, PriorTo
<1>6. j \in Job
  BY <1>2, <1>3, <1>5 DEF Job
<1>7. l # 0 => Linked(l, job[p].case, restarts)
  BY <1>2, <1>5 DEF JobOK
<1>8. j.pc = "prior" /\ j.case = job[p].case /\ j.link = l
  BY <1>1, <1>2 DEF Job
<1>9. JobOK(j)
  BY <1>2, <1>7, <1>8 DEF JobOK
<1>10. restarts' = restarts /\ Grows
  BY <1>1, FaultTypes DEF Grows
<1>11. PICK k \in Job : k = j
  BY <1>6
<1>12. JobOK(k)'
  BY <1>9, <1>10, <1>11, JobsStay
<1> QED
  BY <1>1, <1>4, <1>11, <1>12, CallIInv

LEMMA ReturnFacts == Idle \in Job /\ JobOK(Idle)'
  BY IdleFacts DEF Idle, JobOK

(* The reply goes to the thread the lookup found. *)
LEMMA ReplyIInv == ASSUME IInv, NEW p \in Poster, Reply(p) PROVE IInv'
<1>1. /\ job[p].pc = "reply" /\ job' = [job EXCEPT ![p] = Idle]
      /\ UNCHANGED <<stored, spawned, caseThreads, mu, ask, counts>>
  BY DEF Reply, Return, handler
<1>2. /\ job[p] \in Job /\ job[p].case \in Case /\ restarts \in Nat
      /\ InThreadOf(job[p].thread, job[p].case)
  BY <1>1, JobFacts DEF JobOK, Thread, IInv, TypeOK
<1> DEFINE new == [kind |-> "update", case |-> job[p].case, thread |-> job[p].thread,
                   link |-> 0, run |-> restarts, lost |-> FALSE]
<1>3. new \in Message
  BY <1>2 DEF Message, Job
<1>4. PICK m \in Message : m = new
  BY <1>3
<1>5. channel' = Append(channel, m)
  BY <1>4 DEF Reply, Post
<1>6. Grows
  BY <1>5, AppendGrows DEF IInv
<1>7. MessageOK(m)
  BY <1>2, <1>4 DEF MessageOK
<1>8. MessageOK(m)'
  BY <1>6, <1>7, FactsStay
<1> QED
  BY <1>1, <1>5, <1>8, ReturnFacts, CallIInv

(* The new message is the thread the call remembers. *)
LEMMA PostAlertIInv == ASSUME IInv, NEW p \in Poster, PostAlert(p) PROVE IInv'
<1>1. /\ job[p].pc = "prior"
      /\ UNCHANGED <<stored, spawned, caseThreads, mu, ask, counts>>
  BY DEF PostAlert, handler
<1>2. /\ job[p] \in Job /\ JobOK(job[p]) /\ job[p].case \in Case /\ restarts \in Nat
      /\ Len(channel) \in Nat
  BY <1>1, JobFacts, LenProperties DEF IInv, TypeOK
<1> DEFINE new == [kind |-> "alert", case |-> job[p].case, thread |-> 0,
                   link |-> job[p].link, run |-> restarts, lost |-> FALSE]
           next == [job[p] EXCEPT !.thread = Len(channel) + 1, !.pc = "record"]
<1>3. new \in Message
  BY <1>2 DEF Message, Job
<1>4. PICK m \in Message : m = new
  BY <1>3
<1>5. channel' = Append(channel, m)
  BY <1>4 DEF PostAlert, Post
<1>6. /\ Grows /\ Len(channel) + 1 \in DOMAIN channel' /\ channel'[Len(channel) + 1] = m
  BY <1>5, AppendGrows DEF IInv
<1>7. MessageOK(m)
  BY <1>2, <1>4 DEF MessageOK, JobOK
<1>8. MessageOK(m)'
  BY <1>6, <1>7, FactsStay
<1>9. next \in Job
  <2>1. PICK n \in Nat : n = Len(channel) + 1
    BY <1>2
  <2>2. [job[p] EXCEPT !.thread = n, !.pc = "record"] \in Job
    BY <1>2 DEF Job
  <2> QED
    BY <2>1, <2>2
<1>10. PICK k \in Job : k = next
  BY <1>9
<1>11. job' = [job EXCEPT ![p] = k]
  BY <1>1, <1>10, JobFacts DEF PostAlert
<1>12. /\ k.pc = "record" /\ k.case = job[p].case /\ k.thread = Len(channel) + 1
       /\ k.link = job[p].link
  BY <1>2, <1>10 DEF Job
<1>13. k.link # 0 => Linked(k.link, k.case, restarts)
  BY <1>2, <1>12 DEF JobOK
<1>14. k.link # 0 => Linked(k.link, k.case, restarts)'
  BY <1>1, <1>6, <1>13, FactsStay DEF counts, Linked
<1>15. Thread(k.thread, k.case, restarts)'
  BY <1>1, <1>4, <1>6, <1>12 DEF Thread, InThreadOf, counts
<1>16. JobOK(k)'
  BY <1>2, <1>12, <1>14, <1>15 DEF JobOK
<1> QED
  BY <1>1, <1>5, <1>8, <1>11, <1>16, CallIInv

LEMMA PostFailsIInv == ASSUME IInv, NEW p \in Poster, PostFails(p) PROVE IInv'
<1>1. /\ job' = [job EXCEPT ![p] = Idle] /\ Fault
      /\ UNCHANGED <<stored, spawned, caseThreads, mu, channel, ask>>
  BY DEF PostFails, Return, handler
<1> QED
  BY <1>1, ReturnFacts, CallIInv

(* What Slack takes is as good when its reply is lost. *)
LEMMA ReplyLostIInv == ASSUME IInv, NEW p \in Poster, ReplyLost(p) PROVE IInv'
<1>1. /\ job[p].pc \in {"reply", "prior"} /\ job' = [job EXCEPT ![p] = Idle] /\ Fault
      /\ UNCHANGED <<stored, spawned, caseThreads, mu, ask>>
  BY DEF ReplyLost, Return, handler
<1>2. job[p] \in Job /\ JobOK(job[p]) /\ job[p].case \in Case /\ restarts \in Nat
  BY <1>1, JobFacts DEF IInv, TypeOK
<1>3. PICK m \in Message : MessageOK(m) /\ channel' = Append(channel, m)
  <2>1. CASE job[p].pc = "reply"
    <3> DEFINE new == [kind |-> "update", case |-> job[p].case, thread |-> job[p].thread,
                       link |-> 0, run |-> restarts, lost |-> TRUE]
    <3>1. new \in Message
      BY <1>2 DEF Message, Job
    <3>2. PICK m \in Message : m = new
      BY <3>1
    <3>3. InThreadOf(job[p].thread, job[p].case)
      BY <1>2, <2>1 DEF JobOK, Thread
    <3>4. MessageOK(m)
      BY <3>2, <3>3 DEF MessageOK
    <3>5. channel' = Append(channel, m)
      BY <2>1, <3>2 DEF ReplyLost, Post
    <3> QED
      BY <3>4, <3>5
  <2>2. CASE job[p].pc = "prior"
    <3> DEFINE new == [kind |-> "alert", case |-> job[p].case, thread |-> 0,
                       link |-> job[p].link, run |-> restarts, lost |-> TRUE]
    <3>1. new \in Message
      BY <1>2 DEF Message, Job
    <3>2. PICK m \in Message : m = new
      BY <3>1
    <3>3. MessageOK(m)
      BY <1>2, <3>2 DEF MessageOK, JobOK
    <3>4. channel' = Append(channel, m)
      BY <2>2, <3>2 DEF ReplyLost, Post
    <3> QED
      BY <3>3, <3>4
  <2> QED
    BY <1>1, <2>1, <2>2
<1>4. Grows
  BY <1>3, AppendGrows DEF IInv
<1>5. MessageOK(m)'
  BY <1>3, <1>4, FactsStay
<1> QED
  BY <1>1, <1>3, <1>5, ReturnFacts, CallIInv

LEMMA RecordThreadIInv == ASSUME IInv, NEW p \in Poster, RecordThread(p) PROVE IInv'
<1>1. /\ job[p].pc = "record" /\ job' = [job EXCEPT ![p] = Idle]
      /\ caseThreads' = [caseThreads EXCEPT ![job[p].case] = job[p].thread]
      /\ UNCHANGED <<stored, spawned, mu, channel, ask, commands, faults, restarts>>
  BY DEF RecordThread, Return, counts
<1>2. /\ job[p] \in Job /\ job[p].case \in Case
      /\ Thread(job[p].thread, job[p].case, restarts)
  BY <1>1, JobFacts DEF JobOK
<1>3. Messages' /\ Grows
  BY <1>1, MessagesStay
<1>4. Asks'
  BY <1>1, <1>3, AsksRest
<1>5. Jobs' /\ job' \in [Poster -> Job]
  BY <1>1, <1>3, ReturnFacts, JobMoves
<1>6. caseThreads' \in [Case -> Nat]
  BY <1>1, <1>2 DEF IInv, TypeOK, Job
<1>7. ASSUME NEW c \in Case, caseThreads'[c] # 0 PROVE Thread(caseThreads[c], c, restarts)'
  <2>1. Thread(caseThreads'[c], c, restarts)
    <3>1. CASE c = job[p].case
      BY <1>1, <1>2, <3>1 DEF IInv, TypeOK
    <3>2. CASE c # job[p].case
      BY <1>1, <1>7, <3>2 DEF IInv, TypeOK, Threads
    <3> QED
      BY <3>1, <3>2
  <2> QED
    BY <1>1, <2>1 DEF Thread, InThreadOf
<1>8. Threads'
  BY <1>7 DEF Threads
<1>9. TypeOK'
  BY <1>1, <1>5, <1>6 DEF IInv, TypeOK
<1> QED
  BY <1>3, <1>4, <1>5, <1>8, <1>9 DEF IInv

LEMMA PostCaseAlertIInv == ASSUME IInv, NEW p \in Poster, PostCaseAlert(p) PROVE IInv'
  BY LookupThreadIInv, ScanPriorCasesIInv, PassUnrelatedIInv, PassUnreadIInv,
     ReadPriorIInv, ReplyIInv, PostAlertIInv, PostFailsIInv, ReplyLostIInv, RecordThreadIInv DEF PostCaseAlert

-----------------------------------------------------------------------------
(* The steps of handleMention *)

(* A step of a mention, which leaves the jobs and the threads alone. *)
LEMMA MentionIInv ==
    ASSUME IInv, NEW m \in Mention, NEW a \in Ask, AskOK(a)', ask' = [ask EXCEPT ![m] = a],
           Fault \/ UNCHANGED counts, mu' \in Mention \cup {None},
           UNCHANGED channel \/ \E x \in Message : MessageOK(x)' /\ channel' = Append(channel, x),
           UNCHANGED <<stored, spawned, caseThreads, job>>
    PROVE  IInv'
<1>1. Messages' /\ Grows /\ channel' \in Seq(Message)
  BY MessagesStay
<1>2. faults' \in Nat /\ UNCHANGED <<commands, restarts>>
  BY FaultTypes
<1>3. Threads' /\ Jobs'
  BY <1>1, <1>2, ThreadsRest, JobsRest
<1>4. Asks' /\ ask' \in [Mention -> Ask]
  BY <1>1, AskMoves
<1>5. TypeOK'
  BY <1>1, <1>2, <1>4 DEF IInv, TypeOK
<1> QED
  BY <1>1, <1>3, <1>4, <1>5 DEF IInv

LEMMA AskFacts ==
    ASSUME IInv, NEW m \in Mention
    PROVE  ask[m] \in Ask /\ AskOK(ask[m]) /\ ask \in [Mention -> Ask]
  BY DEF IInv, TypeOK, Asks

LEMMA MentionedIInv ==
    ASSUME IInv, NEW m \in Mention, NEW t \in DOMAIN channel, Mentioned(m, t)
    PROVE  IInv'
<1>1. /\ ask[m].pc = "unasked"
      /\ UNCHANGED <<stored, spawned, caseThreads, mu, channel, job, counts>>
  BY DEF Mentioned, handler
<1>2. t \in Nat \ {0}
  BY LenProperties DEF IInv, TypeOK
<1> DEFINE next == [ask[m] EXCEPT !.pc = "lock", !.thread = t]
<1>3. next \in Ask /\ next.about = None /\ next.thread # 0
  BY <1>1, <1>2, AskFacts DEF Ask, AskOK
<1>4. PICK a \in Ask : a = next
  BY <1>3
<1>5. ask' = [ask EXCEPT ![m] = a]
  BY <1>4, AskFacts DEF Mentioned
<1>6. AskOK(a)'
  BY <1>3, <1>4 DEF AskOK
<1>7. mu' \in Mention \cup {None}
  BY <1>1 DEF IInv, TypeOK
<1> QED
  BY <1>1, <1>4, <1>5, <1>6, <1>7, MentionIInv

(* A step that only moves the mention on. *)
LEMMA AskGoesOn ==
    ASSUME IInv, NEW m \in Mention, NEW pc \in {"find", "unlock", "answer", "done"},
           AskGoto(m, pc), ask[m].pc # "unasked", pc = "find" => ask[m].pc = "lock",
           Fault \/ UNCHANGED counts, mu' \in Mention \cup {None},
           UNCHANGED channel \/ \E x \in Message : MessageOK(x)' /\ channel' = Append(channel, x),
           UNCHANGED <<stored, spawned, caseThreads, job>>
    PROVE  IInv'
<1> DEFINE next == [ask[m] EXCEPT !.pc = pc]
<1>1. next \in Ask /\ next.pc = pc /\ next.about = ask[m].about /\ next.thread = ask[m].thread
  BY AskFacts DEF Ask
<1>2. PICK a \in Ask : a = next
  BY <1>1
<1>3. AskOK(a)
  BY <1>1, <1>2, AskFacts DEF AskOK
<1>4. Grows
  BY MessagesStay
<1>5. AskOK(a)'
  BY <1>3, <1>4, FactsStay
<1>6. ask' = [ask EXCEPT ![m] = a]
  BY <1>2 DEF AskGoto
<1> QED
  BY <1>2, <1>5, <1>6, MentionIInv

(* The case a question is about is the one whose thread it was asked in.   *)
LEMMA FindCaseIInv == ASSUME IInv, NEW m \in Mention, FindCase(m) PROVE IInv'
<1>1. /\ ask[m].pc = "find"
      /\ UNCHANGED <<stored, spawned, caseThreads, mu, channel, job, counts>>
  BY DEF FindCase, handler
<1>2. PICK c \in Case : /\ Owner(ask[m].thread, c)
                        /\ ask' = [ask EXCEPT ![m].about = c, ![m].pc = "context"]
  BY DEF FindCase
<1> DEFINE next == [ask[m] EXCEPT !.about = c, !.pc = "context"]
<1>3. next \in Ask /\ next.pc = "context" /\ next.about = c /\ next.thread = ask[m].thread
  BY AskFacts DEF Ask
<1>4. PICK a \in Ask : a = next
  BY <1>3
<1>5. ask' = [ask EXCEPT ![m] = a]
  BY <1>2, <1>4, AskFacts
<1>6. caseThreads[c] = ask[m].thread
  BY <1>2 DEF Owner
<1>7. mu' \in Mention \cup {None}
  BY <1>1 DEF IInv, TypeOK
<1>8. ask[m].thread # 0
  BY <1>1, AskFacts DEF AskOK
<1>9. InThreadOf(a.thread, c)
  BY <1>3, <1>4, <1>6, <1>8 DEF IInv, Threads, Thread
<1>10. AskOK(a)
  BY <1>3, <1>4, <1>8, <1>9 DEF AskOK
<1>11. AskOK(a)'
  BY <1>1, <1>10, FactsStay DEF Grows
<1> QED
  BY <1>1, <1>4, <1>5, <1>7, <1>11, MentionIInv

(* The answer goes to the thread of the question, about its case. *)
LEMMA AnswerIInv == ASSUME IInv, NEW m \in Mention, Answer(m) PROVE IInv'
<1>1. /\ ask[m].pc = "answer" /\ AskGoto(m, "done")
      /\ UNCHANGED <<stored, spawned, caseThreads, mu, job, counts>>
  BY DEF Answer, handler
<1>2. ask[m] \in Ask /\ AskOK(ask[m]) /\ restarts \in Nat
  BY AskFacts DEF IInv, TypeOK
<1> DEFINE new == [kind |-> "answer", case |-> ask[m].about, thread |-> ask[m].thread,
                   link |-> 0, run |-> restarts, lost |-> FALSE]
<1>3. new \in Message
  BY <1>2 DEF Message, Ask
<1>4. PICK x \in Message : x = new
  BY <1>3
<1>5. channel' = Append(channel, x)
  BY <1>4 DEF Answer, Post
<1>6. Grows
  BY <1>5, AppendGrows DEF IInv
<1>7. MessageOK(x)
  BY <1>2, <1>4 DEF MessageOK, AskOK
<1>8. MessageOK(x)'
  BY <1>6, <1>7, FactsStay
<1>9. mu' \in Mention \cup {None}
  BY <1>1 DEF IInv, TypeOK
<1> QED
  BY <1>1, <1>5, <1>8, <1>9, AskGoesOn

LEMMA HandleMentionIInv == ASSUME IInv, NEW m \in Mention, HandleMention(m) PROVE IInv'
<1>1. mu \in Mention \cup {None}
  BY DEF IInv, TypeOK
<1>2. CASE LockThreads(m)
  BY <1>2, AskGoesOn DEF LockThreads
<1>3. CASE FindCase(m)
  BY <1>3, FindCaseIInv
<1>4. CASE FindNothing(m) \/ BuildContext(m)
  BY <1>1, <1>4, AskGoesOn DEF FindNothing, BuildContext, handler
<1>5. CASE UnlockThreads(m)
  BY <1>5, AskGoesOn DEF UnlockThreads
<1>6. CASE Answer(m)
  BY <1>6, AnswerIInv
<1>7. CASE FindFails(m) \/ AnswerFails(m)
  BY <1>1, <1>7, AskGoesOn DEF FindFails, AnswerFails, handler
<1> QED
  BY <1>2, <1>3, <1>4, <1>5, <1>6, <1>7 DEF HandleMention

-----------------------------------------------------------------------------
(* A restart forgets the threads and the calls; the channel stays.         *)
LEMMA RestartIInv == ASSUME IInv, Restart PROVE IInv'
<1>1. /\ restarts' = restarts + 1 /\ mu' = None
      /\ caseThreads' = [c \in Case |-> 0] /\ job' = [p \in Poster |-> Idle]
      /\ UNCHANGED <<stored, spawned, channel, commands, faults>>
  BY DEF Restart
<1>2. Messages' /\ Grows
  BY <1>1, MessagesStay
<1>3. Threads' /\ caseThreads' \in [Case -> Nat]
  BY <1>1 DEF Threads
<1>4. Jobs' /\ job' \in [Poster -> Job]
  <2>1. \A p \in Poster : job'[p] = Idle
    BY <1>1
  <2>2. Idle.pc = "idle"
    BY DEF Idle
  <2> QED
    BY <1>1, <2>1, <2>2, IdleFacts DEF Jobs, JobOK
<1>5. ASSUME NEW m \in Mention PROVE ask'[m] \in Ask /\ AskOK(ask[m])'
  <2>1. ask'[m] = IF ask[m].pc = "unasked" THEN Unasked ELSE [ask[m] EXCEPT !.pc = "done"]
    BY DEF Restart
  <2>2. ask[m] \in Ask /\ AskOK(ask[m])
    BY AskFacts
  <2>3. CASE ask[m].pc = "unasked"
    <3>1. Unasked \in Ask /\ Unasked.pc = "unasked" /\ Unasked.about = None
      BY DEF Unasked, Ask
    <3> QED
      BY <2>1, <2>3, <3>1 DEF AskOK
  <2>4. CASE ask[m].pc # "unasked"
    <3>1. /\ ask'[m] \in Ask /\ ask'[m].pc = "done"
          /\ ask'[m].about = ask[m].about /\ ask'[m].thread = ask[m].thread
      BY <2>1, <2>2, <2>4 DEF Ask
    <3>2. ask[m].about # None => InThreadOf(ask[m].thread, ask[m].about)
      BY <2>2 DEF AskOK
    <3> QED
      BY <1>1, <2>2, <2>4, <3>1, <3>2 DEF AskOK, InThreadOf
  <2> QED
    BY <2>3, <2>4
<1>6. Asks' /\ ask' \in [Mention -> Ask]
  BY <1>5 DEF Asks, Restart
<1>7. TypeOK'
  BY <1>1, <1>3, <1>4, <1>6 DEF IInv, TypeOK
<1> QED
  BY <1>2, <1>3, <1>4, <1>6, <1>7 DEF IInv

LEMMA StutterIInv == ASSUME IInv, UNCHANGED vars PROVE IInv'
<1>1. UNCHANGED <<stored, spawned, caseThreads, mu, channel, job, ask, commands, faults, restarts>>
  BY DEF vars, handler, counts
<1>2. Messages' /\ Grows
  BY <1>1, MessagesStay
<1>3. Threads' /\ Jobs' /\ Asks'
  BY <1>1, <1>2, ThreadsRest, JobsRest, AsksRest
<1>4. TypeOK'
  BY <1>1 DEF IInv, TypeOK
<1> QED
  BY <1>2, <1>3, <1>4 DEF IInv

LEMMA StepIInv == IInv /\ [Next]_vars => IInv'
  BY StoreCaseIInv, StartAlertIInv, CommandIInv, PostCaseAlertIInv, MentionedIInv,
     HandleMentionIInv, RestartIInv, StutterIInv DEF Next

-----------------------------------------------------------------------------
(* The state of the handler keeps its types. *)
THEOREM HandlerTypes == Spec => []TypeOK
<1>1. IInv => TypeOK
  BY DEF IInv
<1> QED
  BY InitIInv, StepIInv, <1>1, PTL DEF Spec

(* For any number of cases, alerts, questions and restarts: a reply is in  *)
(* a thread of its case, and a question is answered from the case of its   *)
(* thread or from none (handler.go:866-880, 224-258).                      *)
THEOREM ThreadsStayApartAlways == Spec => []ThreadsStayApart
<1>1. IInv => ThreadsStayApart
  BY DEF IInv, Messages, MessageOK, ThreadsStayApart, UpdatesInOwnThread, AnswersAboutOwnCase
<1> QED
  BY InitIInv, StepIInv, <1>1, PTL DEF Spec

(* For any cases and sources: what "Previously observed" links is an alert *)
(* of this run about another case of a common source                       *)
(* (handler.go:807-844).                                                   *)
THEOREM PriorLinksAreRelatedAlways == Spec => []PriorLinksAreRelated
<1>1. IInv => PriorLinksAreRelated
  BY DEF IInv, Messages, MessageOK, Linked, PriorLinksAreRelated
<1> QED
  BY InitIInv, StepIInv, <1>1, PTL DEF Spec

-----------------------------------------------------------------------------
(* How many threads a case gets, apart from the alerts whose reply is      *)
(* lost.  A call of PostCaseAlert may still start                          *)
(* a thread for c when it has found no thread, or can yet come to look:    *)
(* the goroutine of c once in all, the dispatch loop until it has one to   *)
(* record or finds an entry.  Who may not start one any more has spent at  *)
(* most one thread of this run.                                            *)
ThreadsOf(c, r) == {i \in DOMAIN channel : Thread(i, c, r) /\ ~channel[i].lost}

MayStart(p, c) ==
    \/ job[p].pc \in {"scan", "prior"} /\ job[p].case = c
    \/ /\ caseThreads[c] = 0
       /\ p = Loop => ~ (job[p].pc = "record" /\ job[p].case = c)
       /\ p # Loop => c \notin spawned \/ job[p].pc = "lookup"

Spent(p, c) == IF MayStart(p, c) THEN 0 ELSE 1

RunsPast == \A i \in DOMAIN channel : channel[i].run <= restarts

OwnJobs == \A c \in Case : job[c].pc # "idle" => c \in spawned /\ job[c].case = c

ThreadsSpent ==
    \A c \in Case : Cardinality(ThreadsOf(c, restarts)) <= Spent(c, c) + Spent(Loop, c)

SpareInv == RunsPast /\ OwnJobs /\ ThreadsSpent /\ OneSpareThreadAtMost

LEMMA ThreadsFinite ==
    ASSUME TypeOK, NEW c, NEW r
    PROVE  IsFiniteSet(ThreadsOf(c, r)) /\ Cardinality(ThreadsOf(c, r)) \in Nat
<1>1. DOMAIN channel = 1..Len(channel) /\ Len(channel) \in Nat
  BY LenProperties DEF TypeOK
<1>2. IsFiniteSet(1..Len(channel)) /\ ThreadsOf(c, r) \subseteq 1..Len(channel)
  BY <1>1, FS_Interval DEF ThreadsOf
<1> QED
  BY <1>2, FS_Subset, FS_CardinalityType

LEMMA ThreadsFiniteNext == TypeOK' => (\A c, r : Cardinality(ThreadsOf(c, r)) \in Nat)'
<1>1. TypeOK => \A c, r : Cardinality(ThreadsOf(c, r)) \in Nat
  BY ThreadsFinite
<1> QED
  BY <1>1, PTL

(* The counts of this run, and of earlier runs that no step changes, bound *)
(* the threads of every run.                                               *)
LEMMA SpareFollows ==
    ASSUME IInv, SpareInv, RunsPast', OwnJobs', ThreadsSpent', TypeOK',
           restarts' \in {restarts, restarts + 1},
           \A c \in Case, r \in 0..restarts : r # restarts' => ThreadsOf(c, r)' = ThreadsOf(c, r)
    PROVE  SpareInv'
<1>1. ASSUME NEW c \in Case, NEW r \in 0..restarts' PROVE Cardinality(ThreadsOf(c, r)') <= 2
  <2>1. CASE r = restarts'
    <3>1. Spent(c, c)' \in {0, 1} /\ Spent(Loop, c)' \in {0, 1}
      BY DEF Spent
    <3>2. Cardinality(ThreadsOf(c, r)') <= Spent(c, c)' + Spent(Loop, c)'
      BY <2>1 DEF ThreadsSpent, ThreadsOf, Thread, InThreadOf
    <3>3. Cardinality(ThreadsOf(c, r)') \in Nat
      BY ThreadsFiniteNext
    <3> QED
      BY <3>1, <3>2, <3>3
  <2>2. CASE r # restarts'
    <3>1. r \in 0..restarts
      BY <2>2 DEF IInv, TypeOK
    <3>2. ThreadsOf(c, r)' = ThreadsOf(c, r)
      BY <2>2, <3>1
    <3>3. Cardinality(ThreadsOf(c, r)) <= 2
      BY <3>1 DEF SpareInv, OneSpareThreadAtMost, ThreadsOf, Thread
    <3> QED
      BY <3>2, <3>3
  <2> QED
    BY <2>1, <2>2
<1>2. OneSpareThreadAtMost'
  BY <1>1 DEF OneSpareThreadAtMost, ThreadsOf, Thread
<1> QED
  BY <1>2 DEF SpareInv

(* The channel is unchanged or grows by a message that starts no thread,   *)
(* or one whose reply is lost.                                             *)
NoThread(m) == (m.kind # "alert" \/ m.lost) /\ m.run <= restarts

NoNewThread ==
    \/ UNCHANGED channel
    \/ \E m \in Message : NoThread(m) /\ channel' = Append(channel, m)

LEMMA SameThreads ==
    ASSUME IInv, SpareInv, NoNewThread, restarts' = restarts
    PROVE  RunsPast' /\ \A c, r : ThreadsOf(c, r)' = ThreadsOf(c, r)
<1>1. CASE UNCHANGED channel
  BY <1>1 DEF ThreadsOf, Thread, InThreadOf, SpareInv, RunsPast
<1>2. CASE ~ UNCHANGED channel
  <2>1. PICK m \in Message : /\ m.kind # "alert" \/ m.lost
                            /\ m.run <= restarts /\ channel' = Append(channel, m)
    BY <1>2 DEF NoNewThread, NoThread
  <2>2. /\ Grows
        /\ Len(channel) + 1 \in DOMAIN channel' /\ channel'[Len(channel) + 1] = m
        /\ \A i \in DOMAIN channel' : i \in DOMAIN channel \/ i = Len(channel) + 1
    BY <2>1, AppendGrows DEF IInv
  <2>3. ASSUME NEW c, NEW r, NEW i PROVE i \in ThreadsOf(c, r)' <=> i \in ThreadsOf(c, r)
    <3>1. i \in ThreadsOf(c, r) => i \in ThreadsOf(c, r)'
      BY <2>2 DEF ThreadsOf, Thread, InThreadOf, Grows
    <3>2. i \in ThreadsOf(c, r)' => i \in ThreadsOf(c, r)
      BY <2>1, <2>2 DEF ThreadsOf, Thread, InThreadOf, Grows
    <3> QED
      BY <3>1, <3>2
  <2>4. RunsPast'
    BY <2>1, <2>2 DEF SpareInv, RunsPast, Grows
  <2> QED
    BY <2>3, <2>4
<1> QED
  BY <1>1, <1>2

(* A step that starts no thread, after which nobody may start one who      *)
(* could not before.                                                       *)
LEMMA SpareRest ==
    ASSUME IInv, SpareInv, TypeOK', NoNewThread, restarts' = restarts, OwnJobs',
           \A c \in Case : \A p \in {c, Loop} : MayStart(p, c)' => MayStart(p, c)
    PROVE  SpareInv'
<1>1. RunsPast' /\ \A c, r : ThreadsOf(c, r)' = ThreadsOf(c, r)
  BY SameThreads
<1>2. ASSUME NEW c \in Case
      PROVE  Cardinality(ThreadsOf(c, restarts))' <= Spent(c, c)' + Spent(Loop, c)'
  <2>1. /\ Spent(c, c) \in {0, 1} /\ Spent(c, c)' \in {0, 1} /\ Spent(c, c) <= Spent(c, c)'
        /\ Spent(Loop, c) \in {0, 1} /\ Spent(Loop, c)' \in {0, 1}
        /\ Spent(Loop, c) <= Spent(Loop, c)'
    BY DEF Spent
  <2>2. /\ Cardinality(ThreadsOf(c, restarts)) <= Spent(c, c) + Spent(Loop, c)
        /\ Cardinality(ThreadsOf(c, restarts)) \in Nat
    BY ThreadsFinite DEF SpareInv, ThreadsSpent, IInv
  <2>3. ThreadsOf(c, restarts)' = ThreadsOf(c, restarts)
    BY <1>1 DEF ThreadsOf, Thread, InThreadOf
  <2> QED
    BY <2>1, <2>2, <2>3
<1>3. ThreadsSpent'
  BY <1>2 DEF ThreadsSpent
<1> QED
  BY <1>1, <1>3, SpareFollows

(* A call of PostCaseAlert moves on, and starts no thread. *)
LEMMA SpareCall ==
    ASSUME IInv, SpareInv, TypeOK', NoNewThread, restarts' = restarts, spawned' = spawned,
           NEW p \in Poster, NEW j \in Job, job' = [job EXCEPT ![p] = j],
           job[p].pc # "idle", j.pc # "idle" => j.case = job[p].case,
           \A c \in Case : caseThreads'[c] = 0 => caseThreads[c] = 0,
           \A c \in Case : p \in {c, Loop} /\ MayStart(p, c)' => MayStart(p, c)
    PROVE  SpareInv'
<1>1. job \in [Poster -> Job] /\ job'[p] = j /\ \A q \in Poster : q # p => job'[q] = job[q]
  BY DEF IInv, TypeOK
<1>2. OwnJobs'
  <2>1. ASSUME NEW c \in Case, job'[c].pc # "idle" PROVE c \in spawned' /\ job'[c].case = c
    <3>1. c \in Poster /\ (job[c].pc # "idle" => c \in spawned /\ job[c].case = c)
      BY DEF Poster, SpareInv, OwnJobs
    <3> QED
      BY <1>1, <2>1, <3>1
  <2> QED
    BY <2>1 DEF OwnJobs
<1>3. ASSUME NEW c \in Case, NEW q \in {c, Loop}, MayStart(q, c)' PROVE MayStart(q, c)
  <2>1. CASE q = p
    BY <1>3, <2>1
  <2>2. CASE q # p
    <3>1. job'[q] = job[q]
      BY <1>1, <2>2 DEF Poster
    <3> QED
      BY <1>3, <3>1 DEF MayStart
  <2> QED
    BY <2>1, <2>2
<1> QED
  BY <1>2, <1>3, SpareRest

-----------------------------------------------------------------------------
LEMMA InitSpare == Init => SpareInv
<1> SUFFICES ASSUME Init PROVE SpareInv
  OBVIOUS
<1>1. \A c, r : ThreadsOf(c, r) = {}
  BY DEF Init, ThreadsOf
<1>2. Cardinality({}) = 0
  BY FS_EmptySet
<1>3. OneSpareThreadAtMost
  <2>1. ASSUME NEW c \in Case, NEW r \in 0..restarts PROVE Cardinality(ThreadsOf(c, r)) <= 2
    BY <1>1, <1>2
  <2> QED
    BY <2>1 DEF OneSpareThreadAtMost, ThreadsOf, Thread
<1>4. ASSUME NEW c \in Case
      PROVE  Cardinality(ThreadsOf(c, restarts)) <= Spent(c, c) + Spent(Loop, c)
  <2>1. Spent(c, c) \in {0, 1} /\ Spent(Loop, c) \in {0, 1}
    BY DEF Spent
  <2> QED
    BY <1>1, <1>2, <2>1
<1>5. RunsPast
  BY DEF Init, RunsPast
<1>6. OwnJobs
  <2>1. \A c \in Case : job[c] = Idle
    BY DEF Init, Poster
  <2> QED
    BY <2>1 DEF OwnJobs, Idle
<1> QED
  BY <1>3, <1>4, <1>5, <1>6 DEF SpareInv, ThreadsSpent

(* Steps that concern no call. *)
LEMMA OtherSpare ==
    ASSUME IInv, SpareInv, TypeOK', NoNewThread, UNCHANGED <<spawned, caseThreads, job, restarts>>
    PROVE  SpareInv'
<1>1. OwnJobs'
  BY DEF SpareInv, OwnJobs
<1>2. \A c \in Case : \A p \in {c, Loop} : MayStart(p, c)' => MayStart(p, c)
  BY DEF MayStart
<1> QED
  BY <1>1, <1>2, SpareRest

LEMMA StartAlertSpare ==
    ASSUME IInv, SpareInv, TypeOK', NEW d \in Case, StartAlert(d)
    PROVE  SpareInv'
<1>1. /\ d \notin spawned /\ spawned' = spawned \cup {d}
      /\ job' = [job EXCEPT ![d] = [Idle EXCEPT !.pc = "lookup", !.case = d]]
      /\ UNCHANGED <<stored, caseThreads, channel, restarts>>
  BY DEF StartAlert, handler, counts
<1>2. job \in [Poster -> Job] /\ d \in Poster /\ d # Loop
  BY CaseAssumption DEF IInv, TypeOK, Poster
<1>3. job'[d].pc = "lookup" /\ job'[d].case = d /\ \A q \in Poster : q # d => job'[q] = job[q]
  BY <1>1, <1>2 DEF Idle
<1>4. job[d].pc = "idle"
  BY <1>1 DEF SpareInv, OwnJobs
<1>5. OwnJobs'
  <2>1. ASSUME NEW c \in Case, job'[c].pc # "idle" PROVE c \in spawned' /\ job'[c].case = c
    <3>1. c \in Poster /\ (job[c].pc # "idle" => c \in spawned /\ job[c].case = c)
      BY DEF Poster, SpareInv, OwnJobs
    <3> QED
      BY <1>1, <1>3, <2>1, <3>1
  <2> QED
    BY <2>1 DEF OwnJobs
<1>6. ASSUME NEW c \in Case, NEW p \in {c, Loop}, MayStart(p, c)' PROVE MayStart(p, c)
  <2>1. CASE p = d
    BY <1>1, <1>2, <1>3, <1>6, <2>1 DEF MayStart
  <2>2. CASE p # d
    <3>1. job'[p] = job[p]
      BY <1>3, <2>2 DEF Poster
    <3> QED
      BY <1>1, <1>6, <3>1 DEF MayStart
  <2> QED
    BY <2>1, <2>2
<1>7. NoNewThread
  BY <1>1 DEF NoNewThread
<1> QED
  BY <1>1, <1>5, <1>6, <1>7, SpareRest

LEMMA CommandSpare ==
    ASSUME IInv, SpareInv, TypeOK', CmdPostLatestAlert \/ CmdPostLatestAny
    PROVE  SpareInv'
<1>1. PICK i \in DOMAIN stored : Command(stored[i])
  BY DEF CmdPostLatestAlert, CmdPostLatestAny
<1>2. /\ job[Loop].pc = "idle"
      /\ job' = [job EXCEPT ![Loop] = [Idle EXCEPT !.pc = "lookup", !.case = stored[i]]]
      /\ UNCHANGED <<stored, spawned, caseThreads, channel, restarts>>
  BY <1>1 DEF Command, handler
<1>3. job \in [Poster -> Job] /\ Loop \in Poster
  BY DEF IInv, TypeOK, Poster
<1>4. job'[Loop].pc = "lookup" /\ \A q \in Poster : q # Loop => job'[q] = job[q]
  BY <1>2, <1>3 DEF Idle
<1>5. \A c \in Case : c \in Poster /\ c # Loop
  BY CaseAssumption DEF Poster
<1>6. OwnJobs'
  BY <1>2, <1>4, <1>5 DEF SpareInv, OwnJobs
<1>7. ASSUME NEW c \in Case, NEW p \in {c, Loop}, MayStart(p, c)' PROVE MayStart(p, c)
  BY <1>2, <1>4, <1>5, <1>7 DEF MayStart
<1>8. NoNewThread
  BY <1>2 DEF NoNewThread
<1> QED
  BY <1>2, <1>6, <1>7, <1>8, SpareRest

-----------------------------------------------------------------------------
(* The steps of PostCaseAlert *)

(* A call that found no thread may start one; one that found one may not.  *)
LEMMA LookupSpare ==
    ASSUME IInv, SpareInv, TypeOK', NEW p \in Poster, LookupThread(p)
    PROVE  SpareInv'
<1>1. /\ job[p].pc = "lookup" /\ UNCHANGED <<spawned, caseThreads, channel, restarts>>
  BY DEF LookupThread, handler, counts
<1>2. job[p] \in Job /\ job \in [Poster -> Job]
  BY <1>1, JobFacts
<1> DEFINE t == caseThreads[job[p].case]
           j == [job[p] EXCEPT !.thread = t, !.pc = IF t = 0 THEN "scan" ELSE "reply"]
<1>3. job' = [job EXCEPT ![p] = j] /\ job' \in [Poster -> Job]
  BY <1>1, <1>2 DEF LookupThread, TypeOK
<1>4. job'[p] = j /\ j \in Job
  BY <1>2, <1>3
<1>5. j.pc = (IF t = 0 THEN "scan" ELSE "reply") /\ j.case = job[p].case
  BY <1>2 DEF Job
<1>6. ASSUME NEW c \in Case, p \in {c, Loop}, MayStart(p, c)' PROVE MayStart(p, c)
  BY <1>1, <1>4, <1>5, <1>6 DEF MayStart
<1>7. NoNewThread
  BY <1>1 DEF NoNewThread
<1> HIDE DEF t, j
<1> QED
  BY <1>1, <1>3, <1>4, <1>5, <1>6, <1>7, SpareCall

(* A call that looks for prior cases goes on looking, or gives up. *)
LEMMA PriorSpare ==
    ASSUME IInv, SpareInv, TypeOK', NEW p \in Poster,
           \/ ScanPriorCases(p) \/ ScanFails(p) \/ PassUnrelated(p) \/ PassUnread(p)
           \/ ReadPrior(p) \/ PostFails(p) \/ ReplyLost(p) \/ Reply(p)
    PROVE  SpareInv'
<1>1. UNCHANGED <<spawned, caseThreads, restarts>> /\ job[p].pc \in {"scan", "prior", "reply"}
  BY DEF ScanPriorCases, ScanFails, PassUnrelated, PassUnread, ReadPrior, PostFails, ReplyLost,
     Reply, Fault, handler, counts
<1>2. job[p] \in Job /\ job \in [Poster -> Job] /\ job' \in [Poster -> Job]
  BY <1>1, JobFacts DEF TypeOK
<1>3. PICK j \in Job : job'[p] = j
  BY <1>2
<1>4. job' = [job EXCEPT ![p] = j]
  BY <1>2, <1>3 DEF ScanPriorCases, ScanFails, PassUnrelated, PassUnread, ReadPrior, PostFails,
     ReplyLost, Reply, Goto, Return
<1>5. \/ j.pc = "prior" /\ j.case = job[p].case /\ job[p].pc \in {"scan", "prior"}
      \/ j.pc = "idle" /\ job[p].pc \in {"prior", "reply"}
  <2>1. CASE ScanPriorCases(p) \/ ScanFails(p)
    BY <1>2, <1>3, <2>1 DEF ScanPriorCases, ScanFails, Goto, Job
  <2>2. CASE PassUnrelated(p) \/ PassUnread(p) \/ ReadPrior(p)
    BY <1>2, <1>3, <2>2 DEF PassUnrelated, PassUnread, ReadPrior, Job
  <2>3. CASE PostFails(p) \/ ReplyLost(p) \/ Reply(p)
    <3>1. job' = [job EXCEPT ![p] = Idle] /\ job[p].pc \in {"prior", "reply"}
      BY <2>3 DEF PostFails, ReplyLost, Reply, Return
    <3> QED
      BY <1>2, <1>3, <3>1 DEF Idle
  <2> QED
    BY <2>1, <2>2, <2>3
<1>6. ASSUME NEW c \in Case, p \in {c, Loop}, MayStart(p, c)' PROVE MayStart(p, c)
  <2>1. p # Loop => p = c /\ c \in spawned
    BY <1>1, <1>6 DEF SpareInv, OwnJobs
  <2> QED
    BY <1>1, <1>3, <1>5, <1>6, <2>1 DEF MayStart
<1>7. NoNewThread
  <2>1. CASE Reply(p)
    <3>1. job[p].case \in Case /\ restarts \in Nat
      BY <1>1, JobFacts DEF IInv, TypeOK
    <3> DEFINE new == [kind |-> "update", case |-> job[p].case, thread |-> job[p].thread,
                       link |-> 0, run |-> restarts, lost |-> FALSE]
    <3>2. new \in Message /\ new.kind = "update" /\ new.run = restarts
      BY <1>2, <3>1 DEF Message, Job
    <3>3. PICK m \in Message : m = new
      BY <3>2
    <3>4. channel' = Append(channel, m)
      BY <2>1, <3>3 DEF Reply, Post
    <3> QED
      BY <3>1, <3>2, <3>3, <3>4 DEF NoNewThread, NoThread
  <2>2. CASE ReplyLost(p)
    <3>1. job[p].case \in Case /\ restarts \in Nat
      BY <1>1, JobFacts DEF IInv, TypeOK
    <3>2. PICK kind \in {"update", "alert"}, t \in {0, job[p].thread}, l \in {0, job[p].link} :
            Post(kind, job[p].case, t, l, TRUE)
      BY <2>2 DEF ReplyLost
    <3> DEFINE new == [kind |-> kind, case |-> job[p].case, thread |-> t,
                       link |-> l, run |-> restarts, lost |-> TRUE]
    <3>3. new \in Message /\ new.lost /\ new.run = restarts
      BY <1>2, <3>1 DEF Message, Job
    <3>4. PICK m \in Message : m = new
      BY <3>3
    <3>5. channel' = Append(channel, m)
      BY <3>2, <3>4 DEF Post
    <3> QED
      BY <3>1, <3>3, <3>4, <3>5 DEF NoNewThread, NoThread
  <2>3. CASE ~ Reply(p) /\ ~ ReplyLost(p)
    BY <2>3 DEF ScanPriorCases, ScanFails, PassUnrelated, PassUnread, ReadPrior, PostFails, NoNewThread
  <2> QED
    BY <2>1, <2>2, <2>3
<1> QED
  BY <1>1, <1>4, <1>5, <1>6, <1>7, SpareCall

(* The call that posts has spent what it had. *)
LEMMA PostAlertSpare ==
    ASSUME IInv, SpareInv, TypeOK', NEW p \in Poster, PostAlert(p)
    PROVE  SpareInv'
<1>1. job[p].pc = "prior" /\ UNCHANGED <<spawned, caseThreads, restarts>>
  BY DEF PostAlert, handler, counts
<1>2. /\ job[p] \in Job /\ job[p].case \in Case /\ restarts \in Nat
      /\ job \in [Poster -> Job] /\ job' \in [Poster -> Job]
  BY <1>1, JobFacts DEF IInv, TypeOK
<1> DEFINE new == [kind |-> "alert", case |-> job[p].case, thread |-> 0,
                   link |-> job[p].link, run |-> restarts, lost |-> FALSE]
           next == [job[p] EXCEPT !.thread = Len(channel) + 1, !.pc = "record"]
<1>3. new \in Message
  BY <1>2 DEF Message, Job
<1>4. PICK m \in Message : m = new
  BY <1>3
<1>5. channel' = Append(channel, m)
  BY <1>4 DEF PostAlert, Post
<1>6. /\ Grows /\ Len(channel) + 1 \in DOMAIN channel' /\ channel'[Len(channel) + 1] = m
      /\ \A i \in DOMAIN channel' : i \in DOMAIN channel \/ i = Len(channel) + 1
  BY <1>5, AppendGrows DEF IInv
<1>7. /\ job'[p].pc = "record" /\ job'[p].case = job[p].case
      /\ \A q \in Poster : q # p => job'[q] = job[q]
  BY <1>2 DEF PostAlert, Job
<1>8. p # Loop => p = job[p].case /\ p \in spawned
  <2>1. p # Loop => p \in Case
    BY DEF Poster
  <2> QED
    BY <1>1, <2>1 DEF SpareInv, OwnJobs
<1>9. /\ m.case = job[p].case /\ m.run = restarts /\ m.kind = "alert"
  BY <1>4
<1> HIDE DEF new, next
<1>10. RunsPast'
  BY <1>1, <1>2, <1>6, <1>9 DEF SpareInv, RunsPast, Grows
<1>11. OwnJobs'
  <2>1. ASSUME NEW c \in Case, job'[c].pc # "idle" PROVE c \in spawned' /\ job'[c].case = c
    <3>1. c \in Poster /\ (job[c].pc # "idle" => c \in spawned /\ job[c].case = c)
      BY DEF Poster, SpareInv, OwnJobs
    <3> QED
      BY <1>1, <1>7, <2>1, <3>1
  <2> QED
    BY <2>1 DEF OwnJobs
<1>12. ASSUME NEW c, NEW r, ~ (c = job[p].case /\ r = restarts)
       PROVE  ThreadsOf(c, r)' = ThreadsOf(c, r)
  <2>1. ASSUME NEW i PROVE i \in ThreadsOf(c, r)' <=> i \in ThreadsOf(c, r)
    <3>1. i \in ThreadsOf(c, r) => i \in ThreadsOf(c, r)'
      BY <1>6 DEF ThreadsOf, Thread, InThreadOf, Grows
    <3>2. i \in ThreadsOf(c, r)' => i \in ThreadsOf(c, r)
      BY <1>6, <1>9, <1>12 DEF ThreadsOf, Thread, InThreadOf, Grows
    <3> QED
      BY <3>1, <3>2
  <2> QED
    BY <2>1
<1>13. ASSUME NEW c \in Case, NEW q \in {c, Loop}, MayStart(q, c)' PROVE MayStart(q, c)
  <2>1. CASE q = p
    BY <1>1, <1>7, <1>8, <1>13, <2>1 DEF MayStart
  <2>2. CASE q # p
    <3>1. job'[q] = job[q]
      BY <1>7, <2>2 DEF Poster
    <3> QED
      BY <1>1, <1>13, <3>1 DEF MayStart
  <2> QED
    BY <2>1, <2>2
<1>14. ASSUME NEW c \in Case
       PROVE  Cardinality(ThreadsOf(c, restarts))' <= Spent(c, c)' + Spent(Loop, c)'
  <2>1. /\ Spent(c, c) \in {0, 1} /\ Spent(c, c)' \in {0, 1} /\ Spent(c, c) <= Spent(c, c)'
        /\ Spent(Loop, c) \in {0, 1} /\ Spent(Loop, c)' \in {0, 1}
        /\ Spent(Loop, c) <= Spent(Loop, c)'
    BY <1>13 DEF Spent
  <2>2. /\ Cardinality(ThreadsOf(c, restarts)) <= Spent(c, c) + Spent(Loop, c)
        /\ Cardinality(ThreadsOf(c, restarts)) \in Nat
        /\ IsFiniteSet(ThreadsOf(c, restarts))
    BY ThreadsFinite DEF SpareInv, ThreadsSpent, IInv
  <2>3. CASE c # job[p].case
    <3>1. ThreadsOf(c, restarts)' = ThreadsOf(c, restarts)
      BY <1>1, <1>12, <2>3 DEF ThreadsOf, Thread, InThreadOf
    <3> QED
      BY <2>1, <2>2, <3>1
  <2>4. CASE c = job[p].case
    <3>1. p \in {c, Loop} /\ MayStart(p, c) /\ ~ MayStart(p, c)'
      BY <1>1, <1>7, <1>8, <2>4 DEF MayStart
    <3>2. Spent(p, c) = 0 /\ Spent(p, c)' = 1
      BY <3>1 DEF Spent
    <3>3. c # Loop
      BY CaseAssumption
    <3>4. Spent(c, c) + Spent(Loop, c) + 1 <= Spent(c, c)' + Spent(Loop, c)'
      BY <2>1, <3>1, <3>2, <3>3
    <3>5. ThreadsOf(c, restarts)' \subseteq ThreadsOf(c, restarts) \cup {Len(channel) + 1}
      BY <1>1, <1>6 DEF ThreadsOf, Thread, InThreadOf, Grows
    <3>6. /\ IsFiniteSet(ThreadsOf(c, restarts) \cup {Len(channel) + 1})
          /\ Cardinality(ThreadsOf(c, restarts) \cup {Len(channel) + 1})
                <= Cardinality(ThreadsOf(c, restarts)) + 1
          /\ Cardinality(ThreadsOf(c, restarts) \cup {Len(channel) + 1}) \in Nat
      <4>1. PICK S : S = ThreadsOf(c, restarts)
        OBVIOUS
      <4>2. IsFiniteSet(S) /\ Cardinality(S) \in Nat
        BY <2>2, <4>1
      <4>3. /\ IsFiniteSet(S \cup {Len(channel) + 1})
            /\ \/ Cardinality(S \cup {Len(channel) + 1}) = Cardinality(S)
               \/ Cardinality(S \cup {Len(channel) + 1}) = Cardinality(S) + 1
        BY <4>2, FS_AddElement
      <4> QED
        BY <4>1, <4>2, <4>3
    <3>7. /\ Cardinality(ThreadsOf(c, restarts)')
                <= Cardinality(ThreadsOf(c, restarts) \cup {Len(channel) + 1})
          /\ Cardinality(ThreadsOf(c, restarts)') \in Nat
      BY <3>5, <3>6, FS_Subset, FS_CardinalityType
    <3> QED
      BY <2>1, <2>2, <3>4, <3>6, <3>7
  <2> QED
    BY <2>3, <2>4
<1>15. ThreadsSpent'
  BY <1>14 DEF ThreadsSpent
<1> QED
  BY <1>1, <1>10, <1>11, <1>12, <1>15, SpareFollows

(* The entry that is made shows the next call the thread. *)
LEMMA RecordSpare ==
    ASSUME IInv, SpareInv, TypeOK', NEW p \in Poster, RecordThread(p)
    PROVE  SpareInv'
<1>1. /\ job[p].pc = "record" /\ job' = [job EXCEPT ![p] = Idle]
      /\ caseThreads' = [caseThreads EXCEPT ![job[p].case] = job[p].thread]
      /\ UNCHANGED <<spawned, channel, restarts>>
  BY DEF RecordThread, Return, counts
<1>2. /\ job[p].case \in Case /\ job[p].thread \in DOMAIN channel /\ job \in [Poster -> Job]
      /\ caseThreads \in [Case -> Nat]
  BY <1>1, JobFacts DEF JobOK, Thread, InThreadOf, IInv, TypeOK
<1>3. job[p].thread # 0
  BY <1>2, LenProperties DEF IInv, TypeOK
<1>4. \A c \in Case : caseThreads'[c] = 0 => caseThreads[c] = 0 /\ c # job[p].case
  BY <1>1, <1>2, <1>3
<1>5. job'[p] = Idle /\ Idle.pc = "idle" /\ Idle \in Job
  BY <1>1, <1>2, IdleFacts DEF Idle
<1>6. ASSUME NEW c \in Case, p \in {c, Loop}, MayStart(p, c)' PROVE MayStart(p, c)
  <2>1. p # Loop => p = c /\ c \in spawned
    BY <1>1, <1>6 DEF SpareInv, OwnJobs
  <2> QED
    BY <1>1, <1>4, <1>5, <1>6, <2>1 DEF MayStart
<1>7. NoNewThread
  BY <1>1 DEF NoNewThread
<1> QED
  BY <1>1, <1>4, <1>5, <1>6, <1>7, SpareCall

LEMMA PostCaseAlertSpare ==
    ASSUME IInv, SpareInv, TypeOK', NEW p \in Poster, PostCaseAlert(p)
    PROVE  SpareInv'
  BY LookupSpare, PriorSpare, PostAlertSpare, RecordSpare DEF PostCaseAlert

(* Answers are no threads. *)
LEMMA HandleMentionSpare ==
    ASSUME IInv, SpareInv, TypeOK', NEW m \in Mention, HandleMention(m)
    PROVE  SpareInv'
<1>1. UNCHANGED <<spawned, caseThreads, job, restarts>>
  BY DEF HandleMention, LockThreads, FindCase, FindNothing, FindFails, BuildContext,
     UnlockThreads, Answer, AnswerFails, Fault, handler, counts
<1>2. NoNewThread
  <2>1. CASE Answer(m)
    <3>1. ask[m] \in Ask /\ restarts \in Nat
      BY AskFacts DEF IInv, TypeOK
    <3> DEFINE new == [kind |-> "answer", case |-> ask[m].about, thread |-> ask[m].thread,
                       link |-> 0, run |-> restarts, lost |-> FALSE]
    <3>2. new \in Message /\ new.kind = "answer" /\ new.run = restarts
      BY <3>1 DEF Message, Ask
    <3>3. PICK x \in Message : x = new
      BY <3>2
    <3>4. channel' = Append(channel, x)
      BY <2>1, <3>3 DEF Answer, Post
    <3> QED
      BY <3>1, <3>2, <3>3, <3>4 DEF NoNewThread, NoThread
  <2>2. CASE ~ Answer(m)
    BY <2>2 DEF HandleMention, LockThreads, FindCase, FindNothing, FindFails, BuildContext,
       UnlockThreads, AnswerFails, NoNewThread
  <2> QED
    BY <2>1, <2>2
<1> QED
  BY <1>1, <1>2, OtherSpare

(* Everybody may start a thread again, and the new run has none yet. *)
LEMMA RestartSpare ==
    ASSUME IInv, SpareInv, TypeOK', Restart
    PROVE  SpareInv'
<1>1. /\ restarts' = restarts + 1 /\ restarts \in Nat
      /\ job' = [p \in Poster |-> Idle] /\ UNCHANGED channel
  BY DEF Restart, IInv, TypeOK
<1>2. RunsPast' /\ \A i \in DOMAIN channel : channel[i].run <= restarts /\ channel[i].run \in Nat
  <2>1. \A i \in DOMAIN channel : channel[i] \in Message
    BY ElementOfSeq, LenProperties DEF IInv, TypeOK
  <2>2. \A i \in DOMAIN channel : channel[i].run \in Nat
    BY <2>1 DEF Message
  <2> QED
    BY <1>1, <2>2 DEF SpareInv, RunsPast
<1>3. OwnJobs'
  <2>1. \A c \in Case : job'[c] = Idle
    BY <1>1 DEF Poster
  <2> QED
    BY <2>1 DEF OwnJobs, Idle
<1>4. \A c, r : ThreadsOf(c, r)' = ThreadsOf(c, r)
  BY <1>1 DEF ThreadsOf, Thread, InThreadOf
<1>5. ASSUME NEW c \in Case
      PROVE  Cardinality(ThreadsOf(c, restarts))' <= Spent(c, c)' + Spent(Loop, c)'
  <2>1. ThreadsOf(c, restarts)' = {}
    BY <1>1, <1>2 DEF ThreadsOf, Thread, InThreadOf
  <2>2. Spent(c, c)' \in {0, 1} /\ Spent(Loop, c)' \in {0, 1}
    BY DEF Spent
  <2> QED
    BY <2>1, <2>2, FS_EmptySet
<1>6. ThreadsSpent'
  BY <1>5 DEF ThreadsSpent
<1> QED
  BY <1>1, <1>2, <1>3, <1>4, <1>6, SpareFollows

LEMMA StepSpare == IInv /\ SpareInv /\ TypeOK' /\ [Next]_vars => SpareInv'
<1> SUFFICES ASSUME IInv, SpareInv, TypeOK', [Next]_vars PROVE SpareInv'
  OBVIOUS
<1>1. CASE \E c \in Case : StoreCase(c)
  BY <1>1, OtherSpare DEF StoreCase, NoNewThread, handler, counts
<1>2. CASE \E c \in Case : StartAlert(c)
  BY <1>2, StartAlertSpare
<1>3. CASE CmdPostLatestAlert \/ CmdPostLatestAny
  BY <1>3, CommandSpare
<1>4. CASE \E p \in Poster : PostCaseAlert(p)
  BY <1>4, PostCaseAlertSpare
<1>5. CASE \E m \in Mention : \E t \in DOMAIN channel : Mentioned(m, t)
  BY <1>5, OtherSpare DEF Mentioned, NoNewThread, handler, counts
<1>6. CASE \E m \in Mention : HandleMention(m)
  BY <1>6, HandleMentionSpare
<1>7. CASE Restart
  BY <1>7, RestartSpare
<1>8. CASE UNCHANGED vars
  BY <1>8, OtherSpare DEF vars, NoNewThread, handler, counts
<1> QED
  BY <1>1, <1>2, <1>3, <1>4, <1>5, <1>6, <1>7, <1>8 DEF Next

(* For any cases, commands, failures and restarts: a goroutine of the      *)
(* ingest and a command that both look before either records can start two *)
(* threads for a case, and no run of the agent starts a third, apart from  *)
(* the alerts Slack takes without the agent learning of it                 *)
(* (handler.go:862, 907-911).                                              *)
THEOREM TwoThreadsAtMost == Spec => []OneSpareThreadAtMost
<1>1. SpareInv => OneSpareThreadAtMost
  BY DEF SpareInv
<1>2. IInv => TypeOK
  BY DEF IInv
<1> QED
  BY InitIInv, StepIInv, InitSpare, StepSpare, <1>1, <1>2, PTL DEF Spec
=============================================================================
