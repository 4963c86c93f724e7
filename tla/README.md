# ScanTrace: models, checks and proofs

TLA+ models of ScanTrace (the `scantrace` daemon and command line under `cmd/`
and `internal/`, and the Slack agent under `scantrace-agent/`), TLC
configurations that check them on small instances, and TLAPS proofs of what
matters most for every instance. Line numbers refer to the repository's files.

## 1. The system

Two processes share one SQLite file. Each has one connection
(`SetMaxOpenConns(1)`, `internal/db/db.go:27-61`), so every statement is atomic
and statements of the two processes interleave.

| Component | Source | State it keeps | Operations |
|---|---|---|---|
| Agent syslog ingest | `scantrace-agent/internal/syslog/syslog.go` | `caseIndex`, `burstBuffer`, `alertSem`, three counters; rows of `events` and `cases` | `Listen`, `ingest`, `flushBurst`, `postAlertWithSem`, `Snapshot` |
| Case alerting and slash commands | `scantrace-agent/internal/handler/handler.go`, `cmd_*.go` | `caseThreads`, `triageState` | `PostCaseAlert`, mentions, `/scantrace close`, `reopen`, `report`, `next`, `add-device`, `remove-device`, ... |
| Review filters, blocklist export | `handler/review_filters.go`, `handler/cmd_export_blocklist.go` | none; export files | filter, deduplicate, limit; aggregate into prefixes |
| Store | `internal/db/*.go` | tables `sensors`, `events`, `entities`, `cases`, `case_entities`, `known_devices` | insert, update, get, list with limits, link, delete |
| Correlator | `internal/correlator/*.go` | none between cycles | `Run`: list events, cluster, evaluate rules, look for duplicates, open cases |
| Enricher | `internal/enricher/enricher.go` | rows of `entities` | `EnrichIP` (cached, fetched, stub), `EnrichAndLink` |
| Collectors | `internal/collector/*.go` | sensor id file, server counters | `RegisterAsusSensor`, line parsers, UDP server, `Close` |
| Command line and daemon | `cmd/bot/main.go` | none | `ingest`, `correlate`, `serve` (a cycle per tick), `flush`, `postAlerts` |
| Metrics poster | `scantrace-agent/internal/ingestmetrics/manager.go` | last snapshot, running flag | `Start`, `Stop`, `postOnce` |
| Threat tiers, feeds, ports, IP classes | `threat/`, `threatfeed/`, `portintel/`, `ipinfo/` | caches and counters | `Tag`, `LoadIPSum`, `RecordHit`, `Classify` |
| Reports, Slack webhook, MCP, LLM, RTS, manifests | `casebuilder/`, `slack/`, `mcp/`, `llm/`, `rts/`, `cmd/manifest` | none | reads, layout and HTTP |

How they interact. A DROP line reaches the agent's read loop, which stores an
event and opens or extends a case. A high case is alerted at once by a goroutine
of its own; any other waits in the burst buffer until the ticker goroutine
(every 90 s) alerts it or merges it with others into one roll-up case, deleting
the merged rows. Alerts call `Handler.PostCaseAlert` through the `Alerter`
interface. Analysts close and reopen cases from slash commands, in another
goroutine. The daemon's own server and `ingest` command store events of other
sensors; every five minutes `runCycle` clusters the events of the window by
source, opens cases, enriches and links their sources and posts them to a
webhook; `scantrace correlate`, `ingest` and `flush` may run beside it.

What is hard. The read loop, the ticker, the alert goroutines and the analysts
interleave at every store call; `ingest` reads a row, changes it and writes it
back as a whole; `caseIndex` and the buffer refer to rows others delete; any
store call may fail half-way through a merge; the process may die with alerts
owed; thresholds and caps meet all of this. `PROJECT.json` lists each hazard at
its line with the properties that look for it.

What makes each component correct:

- Syslog ingest: every case it opens is announced once, by itself or in a
  roll-up; alerts name cases that exist; high cases never wait and info roll-ups
  stay off Slack; a case lists events of its own key, grows to the cap at most
  and loses none; nothing is held for ever.
- Alerting: updates and answers stay in the thread of their case whoever posts;
  a race starts one spare thread at most, and only a lost reply starts more; every
  alert gets past the mutex.
- Briefings: what the chosen plan accuses a case of is true of its events, the
  registry and the feed, and what it rules out if every read succeeded. Selections
  and blocklists: limits and deduplication drop only what is worth less, and a
  failed read takes away no other case.
- Correlator: one open case per source and rule; suppressed sources open none;
  a case lists the events of its source and is linked to its entity.
- Enricher: one entity per address, and links that resolve to it.
- Sensor registration: an id in use has its row, or a start or a failure that
  explains why not; a line is lost for no other reason.
- Metrics: no line is left out of the posted deltas, and none is in two but for a
  status whose reply was lost; `Stop` returns.

## 2. The modules in order

In order of importance; what is left of the plan is at the end.

1. `SyslogIngest`, refining `CaseDelivery`; proofs in `SyslogIngestProofs` and,
   on top of them, `CaseDeliveryProofs`.
2. `DetectionRules` (the rules and the score as operators), `ClusterGrowth` (a
   cluster event by event), with proofs in `ClusterGrowthProofs`, and
   `Correlation`, which composes the rules with the enricher, the entity and
   link tables and the cycles of several processes; proofs in
   `CorrelationProofs`.
3. `CaseAlerting`: `PostCaseAlert`, caseThreads, `/scantrace alert` and mentions,
   with the ingest as its caller over the `Alerter` interface `SyslogIngest`
   has; proofs in `CaseAlertingProofs`.
4. `SensorFeed`: the state file, the sensor row and the lines of the daemon and
   of imports; proofs in `SensorFeedProofs`.
5. `CaseReview`, which composes `CaseSelection` (filters, deduplication,
   blocklists) and `CaseTriage` (the facts and plan of a briefing) with the
   registry, the feed, reads that fail, and a store in which the ingest and the
   correlator open cases; proofs in `CaseReviewProofs`.
6. `IngestMetrics`: counters, snapshots and the poster; proofs in
   `IngestMetricsProofs`.

Every invariant and every action property the passing runs check is proved, and
so is the refinement of `CaseDelivery`; what is left to the runs is liveness.
Left of the plan: promises of the size of `CaseDelivery` for the correlator (a
listed source is told of once per cycle) and for registration, with the same
kind of refinement proof, and `LinkedBeforeAlert` beside an importing process
once the two agree on an entity id.

## 3. The modules

### SyslogIngest

One action is one store call of `ingest` or `flushBurst` with the local work
that follows it, because that is where the goroutines and the two processes can
interleave; `burstBuffer.mu` makes `add` and the drain atomic.

| Model | Code |
|---|---|
| `events`, `cases` | the two tables; a row is its key, severity, status and event ids |
| `objects` | the `db.Case` values in memory, as they were when the case was inserted: the buffer and the alerts point to these, not to the rows |
| `index`, `buffer` | `caseIndex`, `burstBuffer.items` |
| `ing` | where the read loop is in `ingest` and the copy `GetCase` gave it |
| `flush` | where the ticker is in `flushBurst`, the stubs it still has to delete, the roll-up |
| `alert`, `spawned` | the goroutine that alerts a case (waiting for `alertSem`, in `PostCaseAlert` with or without a slot, ended), and how many a case was given |
| `Receive` | `ReadFrom`, `parse` (375-405) of a line that is not skipped |
| `InsertEventNewKey`, `InsertEventKnownKey`, `InsertEventFails` | 414-451: insert the event, look the key up, draw and index a uuid |
| `InsertCase`, `InsertCaseFails`, `AnnounceHigh`, `AnnounceBuffered` | 453-488 |
| `GetCase`, `GetCaseMisses`, `GetCaseFails` | 490-495, with the recursive call |
| `UpdateCase`, `UpdateCaseFails` | 497-522, with the cap |
| `FlushIndividually`, `DrainForMerge` | 533-549 |
| `MergeInsert`, `MergeInsertFails` | 551-645 |
| `DeleteStub`, `DeleteStubFails`, `MergeSuppressed`, `MergeAlerted` | 647-665 |
| `AcquireSem`, `PostCaseAlert` | 267-275 and the `Alerter` interface |
| `SetCaseStatus` | close and reopen, `internal/db/case_status.go` |
| `Restart` | the process dies at any point and starts again with the tables only |

A case is a number, which stands for its uuid, drawn once. A key stands for a
/24 and a port; what the code asks of the port (high, medium, known) is
membership in `HighKey` and `MediumKey`. Left out: lines that are skipped,
ports from 32768 up (`ingest` returns before any effect), titles, summaries,
notes and times, the ingest counters, the error return of a bind.
`events` counts rows, so a row is named by its position.

`CaseDelivery` is the promise behind it: a case is owed an announcement from
the moment it is opened, and is alerted by itself, absorbed in a roll-up of at
least `Threshold` cases, or (a roll-up only) archived; an urgent one is never
absorbed; a restart forgets. `SyslogIngest` maps each case to its `Fate` and
`DeliversCases` is that specification.

`MCSyslogIngest` names the keys of the instances.

### DetectionRules and ClusterGrowth

`DetectionRules` has one operator per rule of `rules.go`, `Match` for the order
of `DefaultRules`, and `Severity` over `Score`, a fraction compared with the
thresholds in integers. A cluster is the kind of its source (a private address,
any other, or the MAC of a Wi-Fi event), the ASN `LookupASN` finds, and the set
of its events: type, port, gateway or not. `ClusterGrowth` is the loop of
`cluster`, one event per step, with the rules looking on; events of the same
look are numbered, so that a cluster is a bag and their order does not multiply
states. Event times and protocols are left out: no rule reads them. A cluster of
Wi-Fi events (`mac`) has these and nothing else, as `parseHostapd` stores them;
`RulesKeepSides` says nothing of it, since the documents expect of a station what
the code reserves for inside addresses (section 7).

### Correlation

One action is one store call of `Run`, `openCase`, `EnrichIP`, `postAlerts` or
`EnrichEvents` with the local work around it; processes (`Correlator`,
`Ingester`) share the tables only.

| Model | Code |
|---|---|
| `events`, `cases`, `entities`, `links` | the tables; an entity is found by its ip, which is unique, and has an id, an ASN (`""` for a stub) and whether it is within its TTL |
| `gone`, `aged` | how many of the oldest events are past the 72 h window and the 24 h of `dedupWindow` |
| `proc` | where a process is, the events and cases it read, the clusters left (a Go map: in any order), the case and entity id in hand, the cases to post |
| `ListEvents`, `ListCases`, `ListCasesFails` | `Run`, 133-152 |
| `Suppress`, `Evaluate` | 155-187, with `LookupASN` (56-75) and `isDuplicate` over cases as `scanCase` returns them |
| `InsertCase`, `InsertCaseFails`, `FindEntity`, `FindNoEntity` | `openCase` |
| `EnrichCached`, `EnrichMiss`, `UpsertEntity`, `UpsertEntityFails`, `LookupFails` | `EnrichIP`; the lookup itself touches no shared state and goes with the upsert |
| `LinkEntityToCase`, `LinkEntityToCaseFails` | the transaction, with its foreign keys |
| `BeginAlerts`, `PostBlock`, `PostBlockFails`, `EndCycle` | `runCycle`, `postAlerts` |
| `BeginEnrichEvents`, `EnrichEvent`, `EndEnrichEvents` | the end of `cmdIngest` |
| `InsertEvent`, `PassWindow`, `PassDedupWindow`, `PassTTL`, `SetCaseStatus`, `Crash` | collectors, time, analysts, and a process that dies |

`Row` keeps the source and rule a case was opened for (its title and notes); the
program reads neither back, which `Scanned` says. Taken as given: events reach
the table in the order of their time; ipinfo.io has no answer for a MAC; the
private ranges of correlator and enricher agree (they differ on `0.0.0.0` and
`::1`, which send nothing from outside). Left out: the limit of 200 cases, which
no instance reaches, a webhook that is not configured (every post fails), and
deletion by `flush`.

`MCClusterGrowth` and `MCCorrelation` name looks, sources and processes.

### CaseAlerting

A step is one use of `h.mu`, one store call or one call of Slack. The goroutine
the ingest starts for a case is named by the case; `Loop` is the goroutine that
reads socketmode events, where a command runs to its end.

| Model | Code (`handler.go`) |
|---|---|
| `stored`, `spawned` | the cases table by `created_at`; the cases whose goroutine was started |
| `caseThreads`, `mu` | the map, and which mention keeps the mutex over several steps |
| `channel` | the messages of the alert channel and its threads; a message's timestamp is its position |
| `job` | the calls of `PostCaseAlert`: where they are, thread and prior link found |
| `ask` | the calls of `handleMention` |
| `StoreCase`, `StartAlert` | the ingest (`SyslogIngest` has the rest of it) |
| `CmdPostLatestAlert`, `CmdPostLatestAny` | 794-804 |
| `LookupThread`, `Reply` | 855-881 |
| `ScanPriorCases`, `ScanFails`, `PassUnrelated`, `PassUnread`, `ReadPrior` | `findPriorObservation`, 807-844, which passes over events it cannot read |
| `PostAlert`, `PostFails`, `ReplyLost`, `RecordThread` | 883-915; an error of `PostMessage` may mean that Slack refused the message (`PostFails`) or took it and the reply was lost (`ReplyLost`, marked `lost` in the channel) |
| `LockThreads`, `FindCase`, `FindNothing`, `FindFails`, `BuildContext`, `UnlockThreads`, `Answer`, `AnswerFails` | 222-258 |
| `Restart` | the agent stops and starts: store and Slack stay, `caseThreads` does not |

Left out: the text of reports, mentions that are not questions, and stubs the
burst merge deletes after a command has alerted them (their thread then answers
for no case, as an unlisted case's does).

### SensorFeed

A step is one file operation or statement; `os.WriteFile` is two, it truncates
and writes. `DrawId`, `TruncateStateFile`, `WriteStateFile`, `WriteFails`,
`InsertSensor` and `InsertSensorFails` are `RegisterAsusSensor`
(`asus_syslog.go:140-171`) as `serve` and `ingest asus` call it; `StoreLine` and
`LoseLine` are `processLine` and the loop of `TailFile`; `ListenFails` leaves
`serve` alive without its listener; `Crash` is anywhere. `abandoned` is a
history variable: ids whose start ended between file and row. `sensors` is a
set: rows are never deleted by these processes.

### IngestMetrics

`Receive` and `Classify` are the two atomic adds of the read loop
(`syslog.go:340-363`), `Load` one of the three atomic loads of `Snapshot`,
`PostOnce`, `PostFails` and `ReplyLost` the call of Slack with the assignments
after it (`manager.go:154-172`): an error leaves `last` where it was, also when
Slack has the status and only its reply was lost. `SeeStop` is the other case of
the `select`, `Stop` and `StopWaits` are the two halves of `Stop`. `base`,
`reported` and `twice` are history: what the channel has been told, and what of it
in statuses that will be repeated.

### CaseTriage, CaseSelection, CaseReview

`CaseTriage` has `TriageState` (the booleans of `buildSingleCaseContext`, 421-562)
and `ActionPlan` (85-120); `CaseSelection` has `FilterReviewCases`, `Dedupe` and
`BuildBlocklistLines`. `Dedupe` is one pass, as the code's, not its result;
`BuildBlocklistLines` is every list the sort and the limit may leave, because
`caseSrcIPs` ranges over a map. What a loop keeps of a list is `Only`, which says
which positions are kept: it does what `SelectSeq` does, in a form one can prove
about.

Failed reads. The code asks several questions of a case (when was it active, is it
at the edge, what is its key, who are its sources), reads its events again for
each, and passes over an event it cannot read, without an error. So each question
is a pass (`ReviewPass`, `ExportPass`, `"brief"`), `lost` is the set of reads that
fail during a command, `Read(c, pass, lost)` is what that question got to see, and
the fallbacks follow: recency from `UpdatedAt` when nothing could be read, not
WAN-only without an event, a key from the first event that was read, and `--since`
keeping a case of which nothing could be read. `Brief` also has the registry read
as empty (429) and, of the other lookups, any set of addresses for which they
answered (`told`).

`CaseReview` runs them over a store that changes:

| Model | Code |
|---|---|
| `cases`, `created`, `log`, `now` | the cases, each with its events and times; all events, for the correlator; time |
| `index`, `buffer`, `merging` | `caseIndex`, the burst buffer, the stubs a roll-up has yet to delete |
| `registry` | `known_devices` by `updated_at`, a device being its address |
| `feed` | `Enricher.ipsum`, or nothing after a reload that found no file |
| `queue` | the cases a goroutine of `review-all` or `next` has copied and not briefed |
| `report` | what the last command or briefing said, and which reads failed for it |
| `OpenCase`, `AppendEvent` | `syslog.go:421-521` |
| `FlushBurst`, `DrainBurst`, `DeleteStub`, `DeleteStubFails` | `flushBurst`, 533-655: a stub whose delete fails stays beside the roll-up, and may go on growing |
| `Record`, `Correlate` | the collector's events, and a case of the correlator over those of one source (`correlator.go:221-277`) |
| `Reload`, `Restart` | `threat.go:217-265`; the agent starts again |
| `SetCaseStatus` | close and reopen: a status is not modelled, `updated_at` is |
| `AddDevice`, `RemoveDevice` | `cmdAddDevice`, `cmdRemoveDevice` and their statements |
| `CmdReviewAll`, `CmdNext`, `Brief`, `BriefFails` | `handler.go:1173-1249`; a failed listing of `next` passes a severity over |
| `CmdExportBlocklist` | `cmd_export_blocklist.go:309-354` |

Abstractions: a look is what is to tell of a line (source, destination, port,
protocol, type), a reload falls between two briefings and not inside one, the
failures of the ingest's own calls are left to `SyslogIngest`, the window, the
rules and the duplicate check of the correlator to `Correlation`, and a case has
no status because none of these commands reads it.

## 4. The runs

| Run | Instance | What it shows |
|---|---|---|
| `ingest_safety` | 3 keys (high, medium, other), 4 lines, 6 uuids, threshold 2, cap 3, 1 slot, 1 store error, 1 restart, 1 command | the ten invariants and two action properties below, in every interleaving |
| `ingest_live` | 3 lines, 4 uuids, 1 error, 1 restart, with fairness | `SyslogIngest` implements `CaseDelivery` (`DeliversCases`); held cases are released, queued alerts posted, lines finished |
| `ingest_orphans` | violation | `NoOrphanedEvents`: the merge orphans events appended to a stub while it was buffered |
| `ingest_reopened` | violation | `ClosedStaysClosed`: a close command between `GetCase` and `UpdateCase` is undone |
| `rules` | thresholds of `DefaultRules`, nine looks, up to 15 events, each kind of source and ASN | severity and rule only grow (`SeverityNeverDrops`, `RuleNeverWeakens`), sides stay apart (`RulesKeepSides`), blocked sources are named (`BlockedIsNamed`) |
| `correlation_safety` | a daemon and an ingest, 2 sources, 2 events, 2 cycles, 1 failing lookup, 1 store error, 1 crash | links are to the entity of the case's own source (`LinksResolve`), no case is posted twice (`PostedOnce`), no source over the threshold is without a case (`ScannersHaveCases`) |
| `correlation_alone` | one daemon, threshold 2, 3 events of which 2 are listed, 1 store error, 1 command, with fairness | what a case says holds of its events (`CaseEvidence`), it is linked before it is posted (`LinkedBeforeAlert`), and a cycle ends (`CycleEnds`) |
| `correlation_refire` | violation | `NoSecondOpenCase`: the columns the duplicate check compares are never stored or read |
| `alerting` | 2 cases of one source, 2 commands, 1 question, 1 failed call, lost reply or restart, with fairness | updates and answers stay in their thread (`ThreadsStayApart`), prior links are related (`PriorLinksAreRelated`), two threads a run at most, lost replies apart (`OneSpareThreadAtMost`), alerts get past the mutex (`AlertsFinish`) |
| `sensor` | a daemon, 2 imports, 3 ids, 2 lines, 1 failure, 1 kill, with fairness | what a lost line can be blamed on (`LossIsExplained`), and that the gap between file and row closes (`GapCloses`) |
| `metrics` | 3 datagrams, 2 posts that fail or whose reply is lost, a `Stop` at any time or none, with fairness | the figures add up (`FiguresAddUp`), reach the totals (`FiguresArrive`), and `Stop` returns (`StopReturns`) |
| `reviews` | 2 cases of ingest and correlator, 2 or 3 events of 5 looks, 2 registered addresses of which 1 is listed, a reload, 1 review, blocklists of 1 or 2 lines, failed reads | what a late briefing says of its case is true (`BriefingsAreSound`), of each key the case active last is briefed, whichever was opened first (`SelectionKeepsNewest`), what a blocklist leaves out covers less or was active earlier (`ExportCoversMost`) |

The properties of `ingest_safety`: nothing is forgotten between the hands a case
passes through (`NothingForgotten`); the three alert paths never meet
(`AlertedOnce`); merged or alerted, not both (`RolledUpNotAlerted`); an alerted
case is in the store (`AlertedCaseHasRow`); high cases overtake everything
(`HighNeverWaits`); info stays quiet (`InfoStaysOutOfSlack`); the cap holds even
when the update that should close a case fails (`BoundedGrowth`); events are
filed under their key and in one place (`EventsGrouped`, `EventHasOneHome`); the
whole-row write-back loses no event (`EventsNeverLeave`); a stub goes only after
a stored roll-up lists the event it was opened for (`DeletesFollowRollUp`).

Bounds. The counters `lines`, `nextCase`, `faults`, `crashes`, `commands` are
capped by constants in the guards. Four lines over three keys reach: three
lines of one key (two appends, cap at 3, eviction, a fourth line opening a fresh
case), a
merge of two stubs while the read loop is at any point of a line for one of
them, and a high case beside it; six uuids cover four lines, a re-ingested line
and a roll-up. One error reaches every error branch, one at a time; one restart
reaches every point of a merge. The code's 3, 50 and 10 are constants:
`BurstThreshold`, `BurstMaxEvents`, `MaxConcurrentAlerts`; 2, 3 (2 in the smaller
instances) and 1 put
"below", "at" and "above" within those lines.

For `rules`, 15 events without a port are what the higher score threshold needs,
nine looks are one or more on each side of every question the rules ask, and six
distinct ports pass `MinPorts`. For the correlation, two sources (a cloud that
may be suppressed and a private one, or a Wi-Fi station) meet every branch of
`EnrichIP`; two cycles are the least in which one process works on what another,
or an earlier cycle, left; thresholds of 1 and 2 put clusters below and at the
threshold within two or three events. With the limit at 2 of 3 events, a busy
source pushes another out of the listing. Ids (`MaxCases`, `MaxEntities`) are as
many as the cycles can draw, so no run stops for want of one.

For `alerting`, two cases of one source are what a prior link needs, and a
listing of one case makes the older of them unlisted; a goroutine and two
commands for one case give the two threads of `OneSpareThreadAtMost`, or one of
them without an entry because its reply was lost, and the alert after them. For
`sensor`, three processes are one that has an id, one that draws another, and one
that reads either. For `metrics`, three datagrams put one before, between and after
the loads of a snapshot, and two faults make a status that is lost, or repeated,
twice in a row.

`reviews` asks three questions of one state space, which its CONSTRAINT `InScope`
bounds for each by what that question turns on (invariants only are checked, so
nothing is lost but the states out of scope). `BriefingScope`: a connection that
ended at the edge, two that reached a host, one the collector saw dropped at the
gateway; sources score below and at the blacklist, one host may be accused by the
other lookups and one source is a research scanner, so that all six plans occur; two
events make a case that grew, a burst, or a cluster; of two registered hosts one is
beyond `MaxDevices`. `SelectionScope`: the burst threshold is 1, so that two events
give a roll-up of an earlier line beside a stub whose delete failed and which then
grows: the case opened first is the one active last, and a `Dedupe` that keeps the
first of the listing is caught. `ExportScope`: a group is of two
(`CidrGroupThreshold`; the code's is 3), so that three events are a network and a
single address that compete for one line, in cases that one `Moment` makes older or
younger. For any one question the first event of any one case cannot be read, and
for its recency none of its events. The limit of `ListCases` does not bind with two
cases; the proofs hold for any limit.

`CHECK_DEADLOCK FALSE` is set because the bounded environment stops sending
lines and commands, after which a system with nothing owed may rest.

## 5. Fairness

`FairSpec` assumes weak fairness of `Ingest` (the goroutine is scheduled and
its store calls return, SQLite's busy timeout being 5 s), of `FlushBurst` (the
ticker fires every `burstWindow` for the life of the process) and of each alert
goroutine (`AcquireSem`, `PostCaseAlert`). That `PostCaseAlert` returns is an
assumption on Slack, whose client has no timeout of its own: without it a slot
of `alertSem` may be lost for ever. Weak fairness of `AcquireSem` is enough here
because the goroutines holding slots are finitely many in an instance. No
fairness is assumed of lines, commands, errors or restarts.

`FairSpec` of `Correlation` assumes weak fairness of `Run` and `EnrichEvents`: a
process that has begun is scheduled, its store calls return within the busy
timeout, and lookups (8 s) and posts (10 s) have timeouts. No cycle need begin.

`CaseAlerting` assumes weak fairness of every call of `PostCaseAlert` and
`handleMention`: the threat and IP lookups have timeouts of seconds, the model
one of two minutes, and that Slack answers is assumed. Weak fairness is enough
at `h.mu` because each mention takes it once: in an instance the waiting is
finite; `sync.Mutex` lets every waiter in at last. `SensorFeed` assumes only
that file operations and statements return. `IngestMetrics` assumes that the
ticker ticks and Slack answers (weak fairness), and strong fairness of `SeeStop`:
a Go `select` chooses at random among the cases that are ready, so it does not
pass over a closed `stopCh` for ever, though each post disables the choice. No
fairness is assumed of analysts, lines, failures, kills or restarts.

## 6. Proofs

The theorems hold for every value of the constants under the assumptions named
in the modules, which bound nothing: sets of keys, sources, looks, processes and
options are arbitrary, counters have any bound. Each invariant below was first
checked by TLC on the instance of its run.

| Module | Theorems about properties of the runs | Invariant |
|---|---|---|
| `SyslogIngestProofs` | `TypeCorrect`, `CasesAlertedOnce`, `AlertsNameStoredCases`, `HighCasesNeverWait`, `InfoCasesStayQuiet`, `RowsKeepTheirEvents` | `TypeInv`, `IngestInv` |
| `CaseDeliveryProofs` | `StubsListTheirOwn`, `StubsAreCapped`, `NoCaseIsForgotten`, `NoCaseIsToldTwice`, `EventsHaveOneHome`, `StubsGoIntoRollUps`, `IngestDelivers` | `RowInv`, `FateInv` |
| `ClusterGrowthProofs` | `SidesStayApart`, `BlockedSourcesNamed`, `RulesNeverWeaken`, `SeveritiesNeverDrop` | `Inv`, `GrowthInv` |
| `CorrelationProofs` | `DatabaseTypes`, `LinksAlwaysResolve`, `CasesPostedOnce`, `CasesHaveEvidence`, `NoScannerSilenced`, `LinkedWhenAlone` | `IInv`, `AloneInv` |
| `CaseAlertingProofs` | `ThreadsStayApartAlways`, `PriorLinksAreRelatedAlways`, `TwoThreadsAtMost` | `IInv`, `SpareInv` |
| `CaseReviewProofs` | `BriefingsAreTrue`, `NewestAreBriefed`, `ExportsCoverMost` | `IInv` (`CasesInv`, `QueueInv`, `IngestInv`) |
| `SensorFeedProofs` | `LossIsExplainedAlways` | `IdsAreExplained`, `DrawnIds` |
| `IngestMetricsProofs` | `FiguresAddUpAlways` | `OneInHand`, `InOrder` |

`SyslogIngestProofs` assumes `KeyAssumption` (high and medium ports are disjoint
sets of keys) and `BoundAssumption` (a threshold and a slot count of at least 1,
a cap of at least 2). `TypeOK` is not inductive by itself: `GetCase` and
`InsertCase` use `index[ing.key]`, which is a case id only because the read loop
alone changes `index` and has just found or made that entry. `TypeInv` adds this
(`InHandKey`). The safety theorems rest on `IngestInv`: that a second goroutine
is never started needs that a case is in one hand at a time, that needs that
uuids are fresh when drawn, and that a merge deletes no alerted case needs all
of it. Its parts: `UuidsUnused` (an undrawn id is nowhere), `AlertStarted` (an
alert and its count agree, and its case is stored, not info, and not high if it
queues), `Waits` (cases in the buffer or a merge are stored, unalerted, low or
medium), `Drawn` (the case in the read loop's hand is nobody else's),
`CopyIsCurrent` (what `UpdateCase` writes back differs from the row in its status
only, or the row is gone) and `RollUpStored`. `CopyIsCurrent` is also what makes
`RowsKeepTheirEvents` true, and where it says nothing of the status is where
`ClosedStaysClosed` fails.

`CaseDeliveryProofs` goes on from `IngestInv`. `RowInv` says where events are
filed: the line in hand is stored and listed nowhere yet (`LineIsNew`), stubs
share no event (`StubsApart`), `caseIndex` leads each key to a case of that key
and no two keys to one case (`IndexLeadsHome`). The last part is why a row that
was deleted and a line that is ingested again do no harm: the id in the index
may be dead, it is never another key's. `FateInv` says what becomes of a case.
A restart forgets the objects but not the rows, so it speaks of both: the
objects of this process list disjoint events (`ObjectsApart`), a case that still
waits shares none with any roll-up in the store, of this process or an earlier
one (`RollUpsApart`), and the stubs a merge has yet to delete are listed in its
roll-up (`MergeUnderWay`). For `IngestDelivers` each store call is shown to be one
action of `CaseDelivery` under the map `Fate`, or to leave every fate alone; a
merge is an `Absorb` of at least `Threshold` cases because the drain is.

`ClusterGrowthProofs` assumes `RuleAssumption` (`MinPorts` and `MinDrops` are at
least 1) and `LookAssumption` (a look is a type, a port in Nat and whether it was
the gateway). Each rule but suppression is monotone in the events, suppression is
antitone, and every dropped connection is a scan event (`DropsAreScans`), so
`RepeatedDropRule`, which asks for no side, is never reached by an outside source.
For `SeveritiesNeverDrop` a new event must really be new: `Numbered`, in
`GrowthInv`, says that the events of a look carry the numbers up to their count,
so counts and ports grow by one or stay. The score compares fractions, and the
lemma `PointsGrow` takes three cases apart: no real port before or after (the
score is n/(n+5)), the first real port (its formula becomes n·p/(n+p+1)), and
real ports already there (n·p gains at least p while the divisor gains one or
two).

`CorrelationProofs` assumes `CorrelationAssumption`, with any number of daemons
and imports on one database. `IInv` has, for each process, what it read or drew
some steps ago and that it still holds: its cases are stored, of the source in
hand, and not posted (`CaseOK`); the id it enriches under is the stored one or
its own, the id it links belongs to no other source, now or later (`EntityOK`);
the events it listed are what they were, and each cluster it has dealt with has
a case or is excused (`EvidenceOK`). Between processes: no case is in two hands
(`CasesApart`), an entity id is one source's (`EntitiesApart`). These survive the
steps of others because of what every step keeps (`EventsStay`, `CasesStay`,
`EntitiesStay`), proved once. `LinkedWhenAlone` assumes one process (`Alone`):
beside another, an upsert keeps the other's id, the link is refused and the case
is posted unlinked, so the property is false there. `AloneInv` says that alone,
the source in hand has no row until it is stored under the id that is linked.

`CaseAlertingProofs` also has `HandlerTypes`. What a call remembers between two
uses of `h.mu` may be stale, so the invariant says of each such value that it
stays true: `Threads` (an entry of `caseThreads` is the position of an alert of
this run about that case), `Jobs` (so are the thread and the link in a call's
hand), `Asks` (what a mention is about started its thread), `Messages` (the
properties themselves). They survive because the channel only grows (`Grows`)
and a restart forgets everything but the channel. `SpareInv` counts threads: the
goroutine of a case and the dispatch loop each have one to spend per run, and
whoever may still start one has not (`ThreadsSpent`). A thread whose reply was lost
is not counted: its call ends without an entry, having spent nothing, which is why
the bound can hold only of the others.

`CaseReviewProofs` also has `ReviewTypes` and `PlansAreSound`, what each plan
entails of any events that were read, any registry and any feed. `IInv` says that
ids are given once (`CasesInv`) and that what a goroutine copied is a beginning of
the case of that id as it is now, or the case is gone (`QueueInv`): rows are only
added to, and an id is not given again. `BriefingsAreTrue` is the two together with
`KnownDevices` (a row that is not listed has `MaxDevices` after it); what a plan
accuses of needs only that the events read are events of the case, what it rules
out needs that they are all of them. For the other two, `WholeIsRead` says that a
case of which no read failed is answered for as if nothing could fail.
`NewestAreBriefed` follows the pass of `dedupeCases` (`DedupeLoop`): after each
case, of each key one is kept and it is the one active last so far, whatever the
order of the list. The induction over positions is a lemma (`Induct`), from the
fact that a finite set of numbers has a least member (`LeastAndGreatest`), and so is
that the recursive function of `Dedupe` exists. `ExportsCoverMost` compares the
sources of the whole cases with all that were exported (`WholeSources`), and needs a
group to be of at least two addresses (`LimitAssumption`): the one line of a group
of one could be older than an address that was left out.

`SensorFeedProofs`, under `ProcessAssumption`, has `RegistrationTypes` and
`LossIsExplainedAlways`. `IdsAreExplained` says that an id in the file or in use
has its row, is on its way to it, or was abandoned; `DrawnIds` keeps it from
speaking of no id.

`IngestMetricsProofs` has `PosterTypes` and `FiguresAddUpAlways`. It needs
`OneInHand` (the counters differ by the datagram in hand), `InOrder` (last
posted, loaded, current: counters only grow, so `deltaClamp` never clamps), and
`NoLineMissingSoFar`, the bound for a snapshot whose loads are not all done,
which depends on `received` being loaded first. Until a first post has succeeded
no delta is in the channel (`NothingReported`), lost replies included.

Only model-checked: the liveness properties `HeldCaseIsReleased`,
`QueuedAlertIsPosted`, `LineIsFinished`, `CycleEnds`, `AlertsFinish`, `GapCloses`,
`FiguresArrive` and `StopReturns`, which are about fairness and ENABLED and out of
the prover's reach; and the three violations, which are counterexamples.

## 7. Where code and words differ

Three runs show what the code does where a comment or a document says otherwise:

- `ingest_orphans`: "No orphaned events" (`syslog.go:43-44`), but the merge takes
  the event ids the stubs were opened with and deletes rows that have grown.
- `ingest_reopened`: "marked as *closed*" (`cmd_case_status.go:33`), but an append
  that read the row before writes the old status back.
- `correlation_refire`: cases are opened "only when no open case for the same
  srcIP+ruleType exists" (`correlator.go:129-130`), but those columns are not stored.

Met while modelling, and told here only:

- "`new_device` rule — DHCP + WiFi association events"
  (`Docs/scantrace_build_order.md:146`), but a Wi-Fi event has a MAC for its source
  (`asus_syslog.go:314`), which counts as an outside address, and `NewDeviceRule`
  (`rules.go:362-368`) asks that before it looks for `wifi_associated`: a station
  that associates is a generic scan. No property says that it should be.
- "'WAN EDGE' ... means the destination is the gateway itself"
  (`llm/client.go:79`), but only `wan_new_connection` counts for the plan
  (`handler.go:530`): what was forwarded or dropped at the gateway's own address
  gets plan B, "unknown internal host, wan_forward traffic landed".
  `BriefingsAreSound` asks of plan B only that no listed host was reached.
- `ingest` calls itself when the case of a line was merged away
  (`syslog.go:494`), after the event is stored: such a line has two event rows.
- `RegisterAsusSensor` "ensures ... registered in the DB. Safe to call on every
  startup" (`asus_syslog.go:140-141`), but trusts an id from the file without
  looking for its row: `LossIsExplained` has to make an exception of it.
- Two processes that enrich one new address: the second links an entity id the
  table does not have, the link fails, and the case is posted unlinked
  (`enricher.go:114`). `LinkedBeforeAlert` is therefore checked for one process.
- "Benign scanner always wins" (`threat.go:83`) holds of the label; the plan of
  a briefing asks for the blacklist first (`handler.go:85-120`).
- Plan C is chosen when one registered host was reached, whatever else was.
- Reads that fail are passed over in silence (`handler.go:429`, `463`,
  `review_filters.go:198`, `234`, `255`, `handler.go:633`): a briefing may then say
  "never reached LAN" of a case that did, and an address be missing of a blocklist.
- A Slack post whose reply is lost counts as failed: the next delta of the metrics
  repeats the same lines (`manager.go:163`), and an alert is posted again in a new
  thread (`handler.go:907`).
- `review-all` and `next` brief closed cases too, though the help says "open
  cases" (`handler.go:924-927`).
- `review-all` and `next` work on copies: a case rolled up meanwhile is briefed
  all the same. Each briefing records the case's port hits again.
- A device's `auto_suppress` is documented to keep the correlator from opening
  cases (`known_devices.go:135-136`, `schema.go:102`); nothing reads it.
- A reload that finds the IPSum file missing empties the list until the next one.
- An export is named by the minute: a second one within it overwrites the first.
- `flush` takes every case whose title contains `192.0.2` for test data, so one
  about 192.0.20.1 too (`cmd/bot/main.go:341`).

## 8. Not modelled

- Parsers of log lines, flags and configuration: conversions from text that keep
  no state. Formats of reports, alerts, lists and export files.
- HTTP clients (`slack/`, `llm/`, `rts/`, `ipinfo/`, the AbuseIPDB and list
  downloads): what their failure does is an action of the caller's module.
- `status`, `devices`, `cases`, `report`, `port-trends`, the MCP server, listing
  and report commands: reads and layout. `portintel` counts in a database of its
  own that nothing else decides on.
- `flush`, migrations and the manifest tools: run once, by hand.
- `SyslogServer.Close` and `Stats`, `TouchKnownDevice`, `IsSuppressed`: no caller.
- The search of a case by prefix: ids are not strings here.
- Two agents on one database file: the agent's service runs once.
