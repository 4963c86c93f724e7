---------------------------- MODULE CaseAlerting ----------------------------
(***************************************************************************)
(* How scantrace-agent tells Slack of a case (internal/handler/handler.go):*)
(* PostCaseAlert starts a thread for a case, or replies in the one it has; *)
(* caseThreads remembers the threads, in memory only; handleMention looks  *)
(* up in it which case a question is about.                                *)
(*                                                                         *)
(* The goroutine the ingest starts for a case is named by the case (it     *)
(* starts at most one: AlertedOnce of SyslogIngest); Loop is the goroutine *)
(* that reads socketmode events, in which /scantrace alert runs to its     *)
(* end; each mention has a goroutine of its own.  A step is one use of     *)
(* h.mu, one store call or one call of Slack.  The timestamp that names a  *)
(* message of the alert channel is its position in the channel.            *)
(***************************************************************************)
EXTENDS Naturals, Sequences, FiniteSets

CONSTANTS
    Case,         \* case ids
    HighCase,     \* those of severity high
    SrcOf,        \* the source addresses of a case's events
    Loop,         \* the dispatch loop
    Mention,      \* app_mention events
    None,         \* no process, no case
    MaxListed,    \* the limit of ListCases: 50
    MaxCommands,  \* bound: alert commands
    MaxFaults     \* bound: failed calls of Slack or the store, and restarts

ASSUME CaseAssumption ==
    /\ HighCase \subseteq Case
    /\ DOMAIN SrcOf = Case
    /\ Loop \notin Case
    /\ None \notin Case \cup Mention \cup {Loop}

ASSUME LimitAssumption ==
    MaxListed \in Nat /\ MaxCommands \in Nat /\ MaxFaults \in Nat

VARIABLES
    stored,       \* the cases table in the order of created_at
    spawned,      \* the cases whose goroutine the ingest has started
    caseThreads,  \* Handler.caseThreads; 0 where a case has no entry
    mu,           \* who keeps Handler.mu for more than one step
    channel,      \* the messages of the alert channel and its threads
    job,          \* the calls of PostCaseAlert
    ask,          \* the calls of handleMention
    commands, faults, restarts

handler == <<caseThreads, mu>>
counts  == <<commands, faults, restarts>>
vars    == <<stored, spawned, handler, channel, job, ask, counts>>

Poster == Case \cup {Loop}

Message == [kind : {"alert", "update", "answer"}, case : Case \cup {None},
            thread : Nat, link : Nat, run : Nat, lost : BOOLEAN]
Job     == [pc : {"idle", "lookup", "reply", "scan", "prior", "record"},
            case : Case \cup {None}, thread : Nat, todo : Seq(Case), link : Nat]
Ask     == [pc : {"unasked", "lock", "find", "context", "unlock", "answer", "done"},
            thread : Nat, about : Case \cup {None}]

Idle    == [pc |-> "idle", case |-> None, thread |-> 0, todo |-> <<>>, link |-> 0]
Unasked == [pc |-> "unasked", thread |-> 0, about |-> None]

TypeOK ==
    /\ stored \in Seq(Case)
    /\ spawned \subseteq Case
    /\ caseThreads \in [Case -> Nat]
    /\ mu \in Mention \cup {None}
    /\ channel \in Seq(Message)
    /\ job \in [Poster -> Job]
    /\ ask \in [Mention -> Ask]
    /\ commands \in Nat /\ faults \in Nat /\ restarts \in Nat

Init ==
    /\ stored = <<>>
    /\ spawned = {}
    /\ caseThreads = [c \in Case |-> 0]
    /\ mu = None
    /\ channel = <<>>
    /\ job = [p \in Poster |-> Idle]
    /\ ask = [m \in Mention |-> Unasked]
    /\ commands = 0 /\ faults = 0 /\ restarts = 0

-----------------------------------------------------------------------------
CanFail == faults + restarts < MaxFaults
Fault   == CanFail /\ faults' = faults + 1 /\ UNCHANGED <<commands, restarts>>

IsStored(c) == \E i \in DOMAIN stored : stored[i] = c

(* ListCases("", MaxListed): the newest cases, newest first. *)
Listing ==
    [i \in 1..(IF Len(stored) < MaxListed THEN Len(stored) ELSE MaxListed) |->
        stored[Len(stored) + 1 - i]]

Listed(c) == \E i \in DOMAIN Listing : Listing[i] = c

(* stored[i] is the newest of the stored cases that are in S. *)
NewestIn(i, S) ==
    /\ i \in DOMAIN stored
    /\ stored[i] \in S
    /\ \A j \in DOMAIN stored : j > i => stored[j] \notin S

(* The ingest writes a case to the store and, at once or after the burst   *)
(* window, starts the goroutine that alerts it.                            *)
StoreCase(c) ==
    /\ ~ IsStored(c)
    /\ stored' = Append(stored, c)
    /\ UNCHANGED <<spawned, handler, channel, job, ask, counts>>

StartAlert(c) ==
    /\ IsStored(c)
    /\ c \notin spawned
    /\ spawned' = spawned \cup {c}
    /\ job' = [job EXCEPT ![c] = [Idle EXCEPT !.pc = "lookup", !.case = c]]
    /\ UNCHANGED <<stored, handler, channel, ask, counts>>

(* /scantrace alert: the newest high case; when there is none, or ListCases *)
(* fails, the newest case.                                                  *)
Command(c) ==
    /\ commands < MaxCommands
    /\ commands' = commands + 1
    /\ job[Loop].pc = "idle"
    /\ job' = [job EXCEPT ![Loop] = [Idle EXCEPT !.pc = "lookup", !.case = c]]
    /\ UNCHANGED <<stored, spawned, handler, channel, ask, restarts>>

CmdPostLatestAlert ==
    /\ \E i \in DOMAIN stored : NewestIn(i, HighCase) /\ Command(stored[i])
    /\ UNCHANGED faults

CmdPostLatestAny ==
    /\ \E i \in DOMAIN stored : NewestIn(i, Case) /\ Command(stored[i])
    /\ IF \E c \in HighCase : IsStored(c)
         THEN CanFail /\ faults' = faults + 1
         ELSE UNCHANGED faults

-----------------------------------------------------------------------------
(* PostCaseAlert.  BuildReport only reads, and has a fallback.             *)

Goto(p, pc) == job' = [job EXCEPT ![p].pc = pc]
Return(p)   == job' = [job EXCEPT ![p] = Idle]

LookupThread(p) ==
    /\ job[p].pc = "lookup"
    /\ mu = None
    /\ LET t == caseThreads[job[p].case] IN
       job' = [job EXCEPT ![p].thread = t, ![p].pc = IF t = 0 THEN "scan" ELSE "reply"]
    /\ UNCHANGED <<stored, spawned, handler, channel, ask, counts>>

(* A bug: the case itself counts as a prior observation. *)
PriorToAny(d, c) == SrcOf[d] \cap SrcOf[c] # {}

(* A prior observation of c is another case that shares a source with it. *)
PriorTo(d, c) == d # c /\ SrcOf[d] \cap SrcOf[c] # {}

ScanPriorCases(p) ==
    /\ job[p].pc = "scan"
    /\ job' = [job EXCEPT ![p].todo = Listing, ![p].pc = "prior"]
    /\ UNCHANGED <<stored, spawned, handler, channel, ask, counts>>

ScanFails(p) ==
    /\ job[p].pc = "scan"
    /\ Fault
    /\ Goto(p, "prior")
    /\ UNCHANGED <<stored, spawned, handler, channel, ask>>

PassUnrelated(p) ==
    /\ job[p].pc = "prior"
    /\ job[p].todo # <<>>
    /\ ~ PriorTo(Head(job[p].todo), job[p].case)
    /\ job' = [job EXCEPT ![p].todo = Tail(@)]
    /\ UNCHANGED <<stored, spawned, handler, channel, ask, counts>>

(* caseSrcIPs skips the events it cannot read. *)
PassUnread(p) ==
    /\ job[p].pc = "prior"
    /\ job[p].todo # <<>>
    /\ Fault
    /\ job' = [job EXCEPT ![p].todo = Tail(@)]
    /\ UNCHANGED <<stored, spawned, handler, channel, ask>>

(* The first prior case that has a thread is linked, if GetPermalink answers. *)
ReadPrior(p) ==
    /\ job[p].pc = "prior"
    /\ job[p].todo # <<>>
    /\ PriorTo(Head(job[p].todo), job[p].case)
    /\ mu = None
    /\ LET t == caseThreads[Head(job[p].todo)] IN
       \/ /\ job' = [job EXCEPT ![p].todo = Tail(@), ![p].link = IF @ = 0 THEN t ELSE @]
          /\ UNCHANGED counts
       \/ /\ t # 0 /\ job[p].link = 0
          /\ Fault
          /\ job' = [job EXCEPT ![p].todo = Tail(@)]
    /\ UNCHANGED <<stored, spawned, handler, channel, ask>>

(* lost: Slack takes the message, but its reply never comes. *)
Post(kind, c, thread, link, lost) ==
    channel' = Append(channel, [kind |-> kind, case |-> c, thread |-> thread,
                                link |-> link, run |-> restarts, lost |-> lost])

Reply(p) ==
    /\ job[p].pc = "reply"
    /\ Post("update", job[p].case, job[p].thread, 0, FALSE)
    /\ Return(p)
    /\ UNCHANGED <<stored, spawned, handler, ask, counts>>

PostAlert(p) ==
    /\ job[p].pc = "prior"
    /\ job[p].todo = <<>>
    /\ Post("alert", job[p].case, 0, job[p].link, FALSE)
    /\ job' = [job EXCEPT ![p].thread = Len(channel) + 1, ![p].pc = "record"]
    /\ UNCHANGED <<stored, spawned, handler, ask, counts>>

(* PostMessage gives an error: logged, and nothing is recorded, whether    *)
(* Slack has refused the message or taken it.                              *)
PostFails(p) ==
    /\ \/ job[p].pc = "reply"
       \/ job[p].pc = "prior" /\ job[p].todo = <<>>
    /\ Fault
    /\ Return(p)
    /\ UNCHANGED <<stored, spawned, handler, channel, ask>>

ReplyLost(p) ==
    /\ \/ /\ job[p].pc = "reply"
          /\ Post("update", job[p].case, job[p].thread, 0, TRUE)
       \/ /\ job[p].pc = "prior" /\ job[p].todo = <<>>
          /\ Post("alert", job[p].case, 0, job[p].link, TRUE)
    /\ Fault
    /\ Return(p)
    /\ UNCHANGED <<stored, spawned, handler, ask>>

(* Bugs: the ts recorded is that of the channel's latest message; the     *)
(* thread is not recorded.                                                *)
RecordLatestMessage(p) ==
    /\ job[p].pc = "record"
    /\ mu = None
    /\ caseThreads' = [caseThreads EXCEPT ![job[p].case] = Len(channel)]
    /\ Return(p)
    /\ UNCHANGED <<stored, spawned, mu, channel, ask, counts>>

RecordNothing(p) ==
    /\ job[p].pc = "record"
    /\ Return(p)
    /\ UNCHANGED <<stored, spawned, handler, channel, ask, counts>>

RecordThread(p) ==
    /\ job[p].pc = "record"
    /\ mu = None
    /\ caseThreads' = [caseThreads EXCEPT ![job[p].case] = job[p].thread]
    /\ Return(p)
    /\ UNCHANGED <<stored, spawned, mu, channel, ask, counts>>

PostCaseAlert(p) ==
    \/ LookupThread(p)
    \/ ScanPriorCases(p) \/ ScanFails(p)
    \/ PassUnrelated(p) \/ PassUnread(p) \/ ReadPrior(p)
    \/ Reply(p) \/ PostAlert(p) \/ PostFails(p) \/ ReplyLost(p) \/ RecordThread(p)

-----------------------------------------------------------------------------
(* handleMention: h.mu is kept while the store is listed and the context   *)
(* of the case is built, which calls three services over the network.      *)

AskGoto(m, pc) == ask' = [ask EXCEPT ![m].pc = pc]

(* A user asks in the thread of an alert; a question asked anywhere else   *)
(* goes the way of one asked in a thread without an entry.                 *)
Mentioned(m, t) ==
    /\ ask[m].pc = "unasked"
    /\ channel[t].kind = "alert"
    /\ ask' = [ask EXCEPT ![m].pc = "lock", ![m].thread = t]
    /\ UNCHANGED <<stored, spawned, handler, channel, job, counts>>

LockThreads(m) ==
    /\ ask[m].pc = "lock"
    /\ mu = None
    /\ mu' = m
    /\ AskGoto(m, "find")
    /\ UNCHANGED <<stored, spawned, caseThreads, channel, job, counts>>

Owner(t, c) == caseThreads[c] = t

FindCase(m) ==
    /\ ask[m].pc = "find"
    /\ \E c \in Case :
          /\ Owner(ask[m].thread, c)
          /\ Listed(c)
          /\ ask' = [ask EXCEPT ![m].about = c, ![m].pc = "context"]
    /\ UNCHANGED <<stored, spawned, handler, channel, job, counts>>

(* A bug: an early return that skips h.mu.Unlock(). *)
FindNothingKeepsLock(m) ==
    /\ ask[m].pc = "find"
    /\ \A c \in Case : Owner(ask[m].thread, c) => ~ Listed(c)
    /\ AskGoto(m, "answer")
    /\ UNCHANGED <<stored, spawned, handler, channel, job, counts>>

FindNothing(m) ==
    /\ ask[m].pc = "find"
    /\ \A c \in Case : Owner(ask[m].thread, c) => ~ Listed(c)
    /\ AskGoto(m, "unlock")
    /\ UNCHANGED <<stored, spawned, handler, channel, job, counts>>

(* An error of ListCases is not looked at: there is no case. *)
FindFails(m) ==
    /\ ask[m].pc = "find"
    /\ Fault
    /\ AskGoto(m, "unlock")
    /\ UNCHANGED <<stored, spawned, handler, channel, job>>

BuildContext(m) ==
    /\ ask[m].pc = "context"
    /\ AskGoto(m, "unlock")
    /\ UNCHANGED <<stored, spawned, handler, channel, job, counts>>

UnlockThreads(m) ==
    /\ ask[m].pc = "unlock"
    /\ mu' = None
    /\ AskGoto(m, "answer")
    /\ UNCHANGED <<stored, spawned, caseThreads, channel, job, counts>>

(* The answer of the model or its error, with the context of the case or,  *)
(* without one, a summary of the latest cases.  Nothing depends on Slack's *)
(* reply.                                                                  *)
Answer(m) ==
    /\ ask[m].pc = "answer"
    /\ Post("answer", ask[m].about, ask[m].thread, 0, FALSE)
    /\ AskGoto(m, "done")
    /\ UNCHANGED <<stored, spawned, handler, job, counts>>

AnswerFails(m) ==
    /\ ask[m].pc = "answer"
    /\ Fault
    /\ AskGoto(m, "done")
    /\ UNCHANGED <<stored, spawned, handler, channel, job>>

HandleMention(m) ==
    \/ LockThreads(m)
    \/ FindCase(m) \/ FindNothing(m) \/ FindFails(m) \/ BuildContext(m)
    \/ UnlockThreads(m) \/ Answer(m) \/ AnswerFails(m)

-----------------------------------------------------------------------------
(* The agent stops and starts again: the store and Slack stay. *)
Restart ==
    /\ CanFail
    /\ restarts' = restarts + 1
    /\ caseThreads' = [c \in Case |-> 0]
    /\ mu' = None
    /\ job' = [p \in Poster |-> Idle]
    /\ ask' = [m \in Mention |->
                IF ask[m].pc = "unasked" THEN Unasked ELSE [ask[m] EXCEPT !.pc = "done"]]
    /\ UNCHANGED <<stored, spawned, channel, commands, faults>>

Next ==
    \/ \E c \in Case : StoreCase(c) \/ StartAlert(c)
    \/ CmdPostLatestAlert
    \/ CmdPostLatestAny
    \/ \E p \in Poster : PostCaseAlert(p)
    \/ \E m \in Mention : \E t \in DOMAIN channel : Mentioned(m, t)
    \/ \E m \in Mention : HandleMention(m)
    \/ Restart

Spec == Init /\ [][Next]_vars

(* The goroutines are scheduled and the calls they make return: the threat *)
(* and IP lookups have timeouts of seconds and the model one of two        *)
(* minutes; that Slack answers is assumed.  sync.Mutex lets every waiter   *)
(* in at last.  Nothing makes users or the ingest act.                     *)
Fairness ==
    /\ \A p \in Poster : WF_vars(PostCaseAlert(p))
    /\ \A m \in Mention : WF_vars(HandleMention(m))

FairSpec == Spec /\ Fairness

-----------------------------------------------------------------------------
(* Properties *)

(* A message i of a thread is about the case whose alert started it. *)
InThreadOf(i, c) ==
    /\ i \in DOMAIN channel
    /\ channel[i].kind = "alert"
    /\ channel[i].case = c

UpdatesInOwnThread ==
    \A i \in DOMAIN channel :
        channel[i].kind = "update" => InThreadOf(channel[i].thread, channel[i].case)

AnswersAboutOwnCase ==
    \A i \in DOMAIN channel :
        /\ channel[i].kind = "answer"
        /\ channel[i].case # None
        => InThreadOf(channel[i].thread, channel[i].case)

(* Whatever the interleaving of alert goroutines, commands, mentions and    *)
(* restarts, a reply of PostCaseAlert is in a thread of its own case, and a *)
(* question asked in a thread is answered from the case of that thread or   *)
(* from no case at all (handler.go:866-880, 224-258).                       *)
ThreadsStayApart == UpdatesInOwnThread /\ AnswersAboutOwnCase

(* "Previously observed" links an earlier alert, of this run of the agent,  *)
(* about another case with a source in common (handler.go:807-844).         *)
PriorLinksAreRelated ==
    \A i \in DOMAIN channel :
        LET m == channel[i] IN
        m.link # 0 =>
            /\ m.link \in DOMAIN channel
            /\ channel[m.link].kind = "alert"
            /\ channel[m.link].run = m.run
            /\ channel[m.link].case # m.case
            /\ SrcOf[channel[m.link].case] \cap SrcOf[m.case] # {}

(* The lookup in caseThreads and the entry PostCaseAlert makes after it has *)
(* posted are two uses of h.mu (handler.go:862, 911), so the goroutine of   *)
(* the ingest and a command may both start a thread.  Each alert whose      *)
(* reply is lost is a thread without an entry, but apart from these a run   *)
(* of the agent starts two threads for a case at most.                      *)
OneSpareThreadAtMost ==
    \A c \in Case, r \in 0..restarts :
        Cardinality({i \in DOMAIN channel :
            InThreadOf(i, c) /\ channel[i].run = r /\ ~channel[i].lost}) <= 2

(* Although mentions keep h.mu while they call the network                  *)
(* (handler.go:224-239), every alert gets past it: PostCaseAlert returns,   *)
(* and the dispatch loop reads its next event.                              *)
AlertsFinish ==
    \A p \in Poster : job[p].pc # "idle" ~> job[p].pc = "idle"
=============================================================================
