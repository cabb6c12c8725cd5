# Formal model of the aerospace digital thread

TLA+ specifications of this repository: the event pipeline, the agents' loop with
people, the demo's controls and the single-page application over them; the TLC
configurations that check them on small instances, and TLAPS proofs of the
properties that matter most. File references are relative to the repository;
`fast-consumer/` stands for `src/consumers/fast-consumer/`.

## 1. The system

Source systems (ERP, MES, QMS, PLM, SRM, WMS, DHR, program, in-service, SCADA)
keep their records in DynamoDB tables. Table streams trigger producers that
send domain events to Kafka (MSK), one topic per domain. Two ECS services
consume the topics: the *fast consumer* writes a knowledge graph (Neptune), the
*slow consumer* asks a language model for a certification verdict. EventBridge
rules route interesting events through SQS to *agent triggers* that invoke
agents; agents publish findings and ask humans, whose answers resume the
session. A React dashboard follows everything through AppSync. A *generator*
service replays demo scenarios into the source tables.

    source tables --stream--> producers --> Kafka topics --> fast consumer --> Neptune
                    (connector topics --> normalizer --^)  \--> slow consumer -^
    Kafka --> EventBridge --> SQS --> agent trigger --> agents --> findings, questions
    questions table --stream--> agent trigger (resume)      AppSync <--> dashboard
    generator --> source tables          SCADA --> forwarder (debounce) --> Kafka

### Components

| Component | State it keeps | Operations | Hard behaviour | Module |
|---|---|---|---|---|
| Fast consumer: topic threads (`fast-consumer/main.py`) | group offsets, iterator position, current message | poll, handle, commit, crash, exit, rebalance | the position runs ahead of handling; a raise is only logged; two tasks during a deployment; dead threads stay dead | `FastConsumer`, `Delivery` |
| Fast consumer: graph writer (`graph_writer.py`) | graph, processed table, dead letters | upsert vertex, stub, edge, mark, dead letter | writes, mark and commit are separate stores; timeouts of calls that ran; silent no-op edge queries; letters that overwrite each other | `GraphWriter`, `FastConsumer` |
| Fast consumer: handlers (`handlers/*.py`) | none | event to store calls | which endpoints are left to stubs, which calls raise | `EventPlans` |
| Dead letter replay (`scripts/replay-dlq.py`, `hitl-query`) | dead letter table | replay, delete | old writes over newer ones | `FastConsumer` |
| Producers (`mes-`, `qms-`, `generic-producer`) | stream position | derive, send, retry a batch | fresh `eventId` per attempt; batch split, record dropped after the last retry | `DeriveEvents`, `Pipeline` |
| Normalizer (`event-normalizer`) | position | classify, republish | a failed send makes the whole batch come again | `Pipeline` |
| Agent trigger (`agent-trigger/handler.py`) | none (queue, stream of the questions table) | new event, resume | at-least-once delivery, swallowed failures | `HumanLoop`, `AgentRuns` |
| Human in the loop (`ask_human.py`, AppSync resolvers, `hitl-query`) | question rows | ask, fallback put, answer, resume | two answers, a put over an answer | `HumanLoop` |
| Scenario generator (`generators/`) | settings, lock, seed status, clock | run, seed, both, stale takeover, auto-stop | lock read, cleared and put in three calls; a run deletes the lock whoever's it is; a run may outlive the stale limit | `DemoControl` |
| Writer and reset (`source-system-writer`, `hitl-query`) | - | inject, wipe | a reset beside a pipeline that still carries changes | `DemoControl` |
| SCADA forwarder (`scada-event-forwarder`) | debounce row | conditional put, send | concurrent invocations; the send fails after the put | `ScadaForwarder` |
| Slow consumer (`slow-consumer/main.py`) | offsets, verdict mark | assess, write, mark, commit | several writes before one mark | `ThreadPage` |
| Event provider (`EventProvider.tsx`) | events, findings, questions | query, subscription, answer | the query's answer replaces the list | `LiveFeed` |
| Agent tools, trace (`agents/tools/`) | agent-trace table | trace, ask, delegate | records of several sessions in one run, lost and late | `AgentRuns`, `HumanLoop` |
| Queries (`neptune-query`, `athena-query`, `hitl-query`) | none | traversals, SQL, lists | several queries, several moments | `GraphQueries`, `ThreadPage`, `DataPanels`, `SqlConsole`, `AgentRuns` |
| Pages (`frontend/src`) | component state | load, choose, ask, page through | answers out of order, remounts, shared counters | `ThreadPage`, `AskAgent`, `DataPanels`, `AgentRuns`, `SystemPages`, `ShopFloor`, `Browser` |
| Agent server, seeding, stacks | - | - | see section 7 | not modelled |

The hazards of each component, at their lines and with the properties that
would catch them, are in `PROJECT.json`.

## 2. How the modules fit together

    EventPlans --EXTENDS--> GraphWriter        DeriveEvents, Subsequences <--EXTENDS-- Pipeline
        ^             (Subsequences)           HumanLoop, Subsequences    <--EXTENDS-- LiveFeed
        |                                      Subsequences  <--EXTENDS-- DataPanels, AgentRuns
        | INSTANCE (handlers' steps)           ScadaForwarder       DemoControl
    MCFastConsumer --EXTENDS--> FastConsumer --INSTANCE--> Delivery
        ^ (the same steps)
    MCBrowser --EXTENDS--> Browser --EXTENDS--> ThreadPage (GraphQueries), AskAgent,
                              DataPanels, SqlConsole, AgentRuns, SystemPages, ShopFloor

`Pipeline` ends where `FastConsumer` begins: at the domain topic. What it
guarantees of the topic (`FirstSeenInOrder`, at-least-once, one partition per
record) is what `FastConsumer` assumes of `Source` and `PartitionOf`: a sequence
of sends, copies included, keyed by entity. `ThreadPage` runs the store calls
that `EventPlans` computes for the handlers while the page reads what they
write. A module never restates another's content. `Subsequences` is the filtering
and sorting of arrays and rows, written so that it can be reasoned about: the
library's `SelectSeq` and `SortSeq` take operators. A module
`X_proofs` extends `X`; `HumanLoop_proofs` extends `LiveFeed`, and so `HumanLoop`.
`Browser_proofs` is about all the pages: only a module with `Browser`'s next-state
relation can say that a step of one part leaves the others alone.

Each module's text says what its variables and actions stand for; the tables
below give the correspondence, `PROJECT.json` ("map") the lines of every
definition.

### FastConsumer

| Variable | Code |
|---|---|
| `log`, `sent` | the topic; `Source` is the order in which producers' sends arrive, a copy is a resend with the same `eventId` |
| `owner`, `committed` | the Kafka group: assignment and committed offsets (`NoOffset`: none yet) |
| `position[c][p]` | how many messages of `p` the iterator of task `c` has yielded |
| `pc`, `at`, `idx` | the thread of task `c`: `down`, `dead`, `polling`, or at `check`, `write` (step `idx`), `mark`, `commit` of message `at` |
| `vertices`, `status`, `edges` | Neptune; `status[n]` is the event whose state vertex `n` carries |
| `processed`, `dlq` | `digital-thread-offsets`, `graph-write-dlq` |
| `faults`, `moves` | what is used of the bounds |
| `executed`, `failed`, `lost`, `raised`, `missed` | history, read by the properties only |

| Action | Code |
|---|---|
| `Publish` | a producer's send arrives in the partition of its entity |
| `Start`, `Crash`, `ThreadExit` | `main()` launches a thread; the task ends anywhere; the iterator raises and `consume_topic` returns (main.py 40-48, 80-98) |
| `Revoke`, `Assign` | the group coordinator (external); a new owner resumes at the committed offset or, without one, at the end of the log (`auto_offset_reset='latest'`) |
| `Poll` | `for message in consumer`: the position is past the message from now on |
| `Check`, `CheckFails` | `is_processed`; types that no handler knows go straight to the commit |
| `WriteOk`, `WriteFails` | one call of `execute_gremlin` (or the RDF copy) and what its caller does on failure: dead letter, raise, both or only a log line |
| `Mark`, `MarkFails` | `mark_processed` |
| `Commit`, `CommitFails` | `consumer.commit()`: positions of all owned partitions; fails when the partition has moved |
| `Replay`, `ReplayFails` | a dead letter is run again and deleted |

A failing call may have run: `WriteFails`, `MarkFails` and `ReplayFails` choose.
Edge queries whose endpoints do not exist and updates of no vertex succeed and
change nothing (`Apply`), as Gremlin does.

`Delivery` is what producers may rely on: an event is handled at most once for
good; a message is given up only one at a time or all at once at the group's
first join of a partition; the committed position only moves forward, and only
over messages that are handled, given up or need no handling. `FastConsumer`
instantiates it with `handled <- processed`, `givenUp <- raised \cup missed`.

### Pipeline and DeriveEvents

`DeriveEvents` has the producers' functions: the event type from old and new
image (`derive-event-type.ts` of MES and QMS, the prefix rules of the generic
producer), the entity that keys the message, the normalizer's class.

| Variable | Code |
|---|---|
| `table`, `stream`, `taken`, `batches` | a system's item, the changes of its shard, how far the event source mapping is, the batches (and halves) still to be handled |
| `raw`, `canon`, `passed` | connector topics of ERP and PLM, domain topics, the normalizer's position |
| `dropped` | records whose retries were used up |

`Write` changes an item; `Poll` takes a batch; `Produce` and `ProduceFails` are
the whole handler: derive, send, and on an error whatever subset of partitions
took its messages, then split, retry or drop (event-stack.ts: `bisectBatchOnError`,
`retryAttempts`). `Normalize` and `NormalizeFails` are the MSK mapping, which
retries a batch until it succeeds. A producer's message carries a fresh id per
attempt, the normalizer keeps it.

### ScadaForwarder

`Read` is a reading that an IoT rule passes on (rules' `WHERE` clauses, gen_scada's
values); `Grant`, `Suppress` the two outcomes of the conditional put; `FailOpen`,
`RefusedByOwnRow` its failures (the SDK repeats a put whose answer is lost and is
refused by its own row); `Send`, `SendFails` the event to MSK, with Lambda's
retry of the invocation from its start; `RowExpires` the table's time to live.
`FailingCalls` says which of the calls may fail. Any
number of invocations run at once. `Tick` does not pass while a call is between
its check and its send: an invocation takes at most 30 s, the cooldown is minutes.

### HumanLoop and LiveFeed

`HumanLoop`: `Ask`, `AskFails`, `Fallback` are `ask_human` (AppSync mutation, 15 s,
direct put); `AnswerElsewhere`, `AnswerByApi` the two unconditional updates;
`Skip`, `Resume`, `ResumeAgain`, `ResumeFails`, `TriggerRaises` what each agent's
trigger does with a record of the table's stream, retried `StreamRetries` times
and then passed over. `heard` is the sequence of resumes, `unheard` and `twice`
name the questions whose resume was given up or delivered again.

`LiveFeed` adds the dashboard: `Subscribed`, `Query`, `QueryFails`, `Loaded` (the
answer replaces the list), `Notify`, `Lose`, `Click`, `Removed`, `ClickFails`,
`Reload`, and the sources of the other lists (`PublishFinding`; `Publish`,
`PublishRefused`, `PublishThrows` of the publisher, retried by Lambda). Lists are
bounded (`ViewSize`, `Cut`). `misled` collects the items of which a race or a
failure may give a wrong picture; properties speak of the others.

### DemoControl

Containers (`task[t].pc`): `ReadMode`, `CheckSeed`, `CheckLock`, `ClearStale`,
`TakeLock`, `Mark`, `PutItem`, `Complete`, `Release` are `scenario_runner.py` and
`main.py` call by call: the lock is read, a stale one deleted and the own one put in
three calls, between which any other container may do the same. The mode `SCENARIO`
(`both`; no button of the page has it, so `SetScenarioMode` writes it) seeds and
replays under one lock, whatever the seed status. `TellToStop` and `Kill` are ECS (the process ignores SIGTERM, so two containers
overlap; a killed one runs no `finally`); `AutoStop` the watchdog. Pages: `Open`,
`ReadControl`, `Loaded`, `ClickMode`, `ClickAuto`, `WriteControl`, `WriteFails`,
`PollSeed`, `ForceUnlock`, `StartOrStop`, `Request`, `ResetDemo`. A page writes the
whole settings item from what it shows. Reset: `Pause`, `ScanTables`, `DeleteKeys`,
`DeleteControl`, `DropGraph`, `ClearLake`, `TimeOut`, with `Arrive` for what the
pipeline still delivers. `Age` lets time pass: a run ends within `RunTime`, one that
seeds and replays within `ScenarioTime`, and either may be longer than the stale
limit. `doubted` is set once an answer about the lock cannot be relied on: two
containers decided at once, a run outlived the limit, a call failed, or somebody
unlocked or reset the demo under a run.

### The pages

| Module | Content |
|---|---|
| `GraphQueries` | the structured operations of `neptune-query` as operators over a graph: neighbourhood, traversal, thread of a serial, plan against actual; and the page's reading of the answer (domain tabs, path of the navigator) |
| `ThreadPage` | the handlers' store calls one by one (`WriteNext`), the slow consumer (`Assess`, `SlowStep`, `SlowRaises`, `SlowRestarts`, `PassedOver`), and meanwhile a load (`LoadThread`, `ReadThread` six times, `EdgesNotRead`, `ThreadShown`, `LoadFails`), a navigator that looks for a path from the serial (`AskNode`, `AskNodeEdges`, `AskNeighbors`, `AskTraverse`; `found`) and a comparison (`AskPlan`, `ReadPlan` four times, `PlanAnswered`) |
| `AskAgent` | `useAgUiStream`: `ClickAsk` with the closure's `running`, `BeginRun` after the token, `StreamsProse` and `CallsTool` (a widget or a query, in a message of its own or in that of the prose before it) into the run's turn, `RunFinished`, `RunError`, `StreamCloses` without either, `NewConversation` |
| `DataPanels` | earned value and NCR trend over Athena (start, poll, give up after `MaxPolls`, answer) and drawing URLs; `Select` asks again, nothing cancels the older request; the trend's pivot with its pass-through (`PassThrough`: a first row without severity) |
| `SqlConsole` | `freeformSql` and `text2sql`: generation, the guards of each, execution |
| `AgentRuns` | the trace table as agents write it (records may be lost, and an event delivered twice opens two sessions) and as expiry and reset take rows away (`RecordDeleted`), `list-runs` as a scan page by page whose newest `ListLimit` runs are answered, status of a run, chips, drawer with swim lanes |
| `SystemPages` | a paged list and a subscription that starts beside it, prepends and may end (`Subscribed`, `SubscriptionEnds`); creation by this page and others with a notice, by the generator and injections without one (`PutDirectly`), deletion by the reset (`ResetDeletes`); the AppSync resolvers' scan (`ScansFor`) with a key to go on from, apart from its answer |
| `ShopFloor` | sign, connect, subscribe, drop, message; a page left before its client is made leaves a client nobody ends |
| `Browser` | sign-in, router, and which part of which page is looked at |

### Abstractions

* Graph: a vertex is `<<label, id>>`; its properties are reduced to whether a
  write carries state of the event (`FastConsumer`) and to the serial number and
  source event of facts (`GraphQueries`).
* The handler's dedup key (event, object) is the event: each handler uses one.
  A handler that finds nothing to write and returns before it marks is the same
  as an ignored type (`Ignored`).
* One topic at a time in `FastConsumer`: threads of different topics share only
  tables and graph, and their keys (`eventId`) are distinct. That two entities
  may write one vertex (a supplier's name) is a hazard no property covers.
* The put of a dead letter shares the fault of the call that caused it. A stored
  query is never truncated (handlers write far less than 4000 characters).
* A message that is not JSON is `ThreadExit` in the consumer; the normalizer's
  branch for such messages and its renaming of fields (`FIELD_CANON`), the
  envelope of an event and its times are left out.
* Time: `ScadaForwarder` counts in fractions of a cooldown, `DemoControl` ages a
  lock, `AgentRuns` has a clock of its own. Nothing relates `RunTime` and
  `ScenarioTime` to the stale limit: seeding the 1411 events takes about 400 s and
  the live part 600 s, each below 900 s, both in one run above it.
* `DemoControl`: tick, density and phase are further fields of the same item
  and stand behind the auto-stop hours. `FAILED` of a seeding is left out: every
  put is guarded by its own handler. The reset's S3 prefixes are left out.
* Pages: one part of one page at a time (`Browser`), as parts keep their own
  state; navigation between pages remounts them, which is modelled where a
  remount leaves something behind (`ShopFloor`, `Reopen` of a panel). Notices
  AppSync loses one by one are modelled in `LiveFeed` only. Row limits of 100 to 300
  rows are reached where a property is about them (`RowLimit`, `ScanLimit`,
  `ListLimit`); that of 100 vertices of a traversal or a neighbourhood is not, since
  an answer cut there only means that the navigator knows less.
* Whether a tool call joins the message of the prose before it is the AG-UI client's
  doing and not in this repository: either may happen (`CallsTool`).
* Language models choose among all outcomes: the gaps of an assessment, the
  statement generated, which tool an agent calls next.

## 3. What the runs check

| Run | Instance | Properties | Shows |
|---|---|---|---|
| `rebalance` | 2 tasks (symmetric), 2 partitions, `started` and `hold` of a work order and an ignored event; 1 fault, 2 moves | `TypeOK`, `CommittedIsSettled`, `OwnerWritesForward`, `ImplementsDelivery` | whatever crashes, rebalances and zombies, nothing is committed that nobody is done with, an owner moves a vertex back in time only after a delivery raised, and the group implements `Delivery` |
| `deadletters` | 1 task, `short` (sent twice) and `staged` of a kit whose work order is left to a stub; 2 faults, 1 move; replays | `MarkedIsAccounted`, `DroppedEdgeHasFailedEndpoint`, `OlderStateHasFailure` | a processed event's graph calls ran, wait or are known to be lost; a silent edge loss has exactly one cause; without zombies an older state replaces a newer one only after a failed call, a replay's included |
| `settles` | 2 tasks, 2 partitions, an ignored event and a bare `upsert_node`; 1 fault, 2 moves | `EveryMessageSettles` under `FairSpec` | messages do not get stuck in a rebalance, a crash or a failed commit |
| `replay` | 1 task, `started`, 1 fault | `ReplayCompletesThread`, violated | finding 1 |
| `ordering` | 1 task, work order events, 1 fault, 1 move | `SameEntityOrdered`, violated | finding 2 |
| `pipeline` | a work order, a purchase order (through the normalizer) and a non-conformance, a shard each; 3 writes, 2 faults, batches of 2, 1 retry | `TypeOK`, `NothingLostSilently`, `FirstSeenInOrder`, `LatestComesLast`, `HoldViewIsCurrent`, `AlwaysDrains` | splits, retries and resends lose only what exhausts its retries, keep the order in which events are first seen, and never leave an older event of a record last; who follows the hold events knows what is on hold; no shard stays blocked |
| `scada` | 3 readings of 2 kinds, 3 calls, 5 time units, cooldown 2, 1 retry, 1 fault | `AtMostOnePerWindow`, `SuppressedIsCovered` | the debounce lets one event per window through and, until a call fails, suppresses only what an event covers |
| `scada_lost` | the same, only sends fail | `SustainedBreachIsReported`, violated | finding 3 |
| `livefeed` | one question, the agent that asked and one that did not, 2 answers, 2 findings, 1 event, lists of one, 1 reload, 2 faults | `ResumedOncePerAsk`, `AnsweredIsHeard`, `QuietListsAreRight` | however a question is answered, its session is resumed once per ask; an answer is heard or given up; lists are right about what no race touched |
| `livefeed_lost` | the same, no faults | `NoQuestionLost`, violated | finding 4 |
| `demo` | 2 containers, 2 pages (symmetric), 2 seed items and 1 live item, runs of 1 and 2 stale limits, 2 clicks, 1 fault, 1 injection, 1 reset | `RunsExclude`, `SeedCompletedIsThere`, `PageIsRight`, `QuietResetCleans` | runs overlap only after two containers decided at once, a run outlived the limit, or an answer about the lock failed or was forced; a completed seeding is there; an undisturbed page shows what the generators obey; a reset of a system at rest leaves nothing |
| `browser` | the pages, one part at a time, see below | 16 | what a person sees while the systems behind the page go on |

The parts of `browser`:

| Part | Instance | Properties |
|---|---|---|
| `thread` | the handlers' calls for a released, started and completed work order, or its NCR and the assessment of it; 2 serials, 1 load or 1 comparison, 1 fault of the slow consumer | `ThreadIsBetween`, `AssessedIsShown`, `PlanDiffIsExact` |
| `navigator` | the NCR's calls; 2 queries of the navigator between 2 loads | `PathIsDrawn` |
| `ask` | 3 questions; a widget, a query and prose each | `BlocksInTheirTurn`, `AgentKnowsConversation`, `RunningHasRun` |
| `ev`, `trend`, `drawing` | 14 archived events, one NCR without severity, 5 rows, 2 polls, 3 requests | `QuietPanelIsRight`, `TrendCountsDays`, `EvIsLatest` |
| `sql` | every kind of statement | `OnlyGuardedSqlRuns` |
| `runs` | 5 sessions of 3 runs, one of them a redelivery; 4 records, lists of 2 runs, 2 lists, 2 s, 1 lost and 1 deleted record | `ListingGrows`, `LanesShowEveryRecord` |
| `table` | 4 keys, 2 puts, deletions, pages of 2 and 1 | `LoadedPageIsComplete` |
| `machines` | 2 machines, 3 messages, 2 mounts, 1 dropped connection | `CardsAgreeWithReadings`, `NoReadingTwice` |

**Bounds.** `MaxFaults` bounds failing or timed-out calls, `MaxMoves` crashes,
thread exits and lost sessions; all bounds are guards of the actions. One fault
and two moves reach the cases the consumer has to survive: a zombie (move) whose
partition the other task takes while the zombie's call fails (fault) and a crash
of the new owner (move). Two faults in `deadletters` allow a failed vertex and a
failed edge, two letters with one key, and a failed replay; the second copy of
`short` gives a crash something to deliver again behind a commit. Two partitions
are needed because `commit()` stores the positions of all of them; two events of
one entity because order is about pairs. In `pipeline` two faults fail a batch of
two and then one half until it is dropped; three writes are a batch that is split
and one more. `scada` has time for two windows and a row's expiry. In `livefeed`
two faults lose a mutation and its notification. In `demo` a replay fits the stale
limit and a seeding with a replay does not, as in the service. In `browser` a trace
of four records holds two sessions that interleave, three runs do not fit a list of
two, the archived events exceed a window's five rows, and two queries reach the ends
of a path of two or more edges from the serial.

**Constraints.** `MCLiveFeed`, `MCDemo` and `MCBrowser` state constraints that cut
combinations no property tells apart, each with the reason at its definition:
lists that share only the connection (`Separately`), failures and resets, pages
that race and containers that never write what pages show, the mode no page shows
 (`Apart`), a load and a comparison that both only read, second loads of paths
that are not the longest (`ThreadApart`), ever fewer blocks in later runs
(`AskApart`), full traces with one list after the other (`RunsApart`), the form and
a lost subscription with few puts (`TableApart`). A constraint hides states, not steps: the first step into
a state that is cut off is still checked.

**Deadlock** is not checked where the system may stop: once everything is sent and
the bounds are used up. `demo` checks it.

**Fairness.** `FairSpec` of `FastConsumer`: `WF` of each thread's work and of its
start after it went down (ECS keeps `desiredCount` tasks), and of the assignment
of each orphaned partition (the coordinator gives it to a member that polls).
There is none on producers, replays, faults, crashes, or on a thread that exited:
`main()` only logs those (main.py 164-172), so `EveryMessageSettles` excepts the
case in which all threads of the topic are dead. It says *settled*, not *handled*:
a message whose handler raised is covered by the next commit, and a group's first
join at `latest` misses what was sent before. `Pipeline` has `WF` of its `Work`: the
event source mappings keep polling and invoking; failing sends are bounded, and
what fails for longer is dropped by the producer's mapping and waited for by the
normalizer's. The other modules claim safety only.

Each property of a passing run has a mutant of the code (operators marked
`(mutant)`) under which TLC finds it violated.

## 4. What is proved

TLAPS checks each of these for all values of the constants that satisfy the
named assumptions of the modules.

| Module | Theorem | Statement |
|---|---|---|
| `FastConsumer_proofs` | `TypeCorrect` | `Spec => []TypeOK` |
| | `CommittedSettled` | `Spec => []CommittedIsSettled` |
| | `MarkedAccounted` | `Spec => []MarkedIsAccounted` |
| | `DroppedEdgeExplained` | `Spec => []DroppedEdgeHasFailedEndpoint` |
| | `OwnersWriteForward` | `Spec => []OwnerWritesForward` |
| | `OlderStateExplained` | `OneTask => (Spec => []OlderStateHasFailure)` |
| | `GroupDelivers` | `Spec => ImplementsDelivery` |
| `EventPlans_proofs` | `EndsBeforeEdges` | for any event: the plan's calls are well formed, each end of an edge is written before it |
| | `OnlyReleasesPlan` | for any event: only a release adds to a work order's plan, only a start to what is made of it |
| `ScadaForwarder_proofs` | `FloodControl` | `Spec => []AtMostOnePerWindow` |
| | `SuppressedCovered` | `Spec => []SuppressedIsCovered` |
| `DemoControl_proofs` | `LockExcludes` | `Spec => []RunsExclude` |
| | `SeedingIsThere` | `Spec => []SeedCompletedIsThere` |
| | `SettingsAreShown` | `Spec => []PageIsRight` |
| | `ResetLeavesNothing` | `Spec => QuietResetCleans` |
| `Pipeline_proofs` | `TypeCorrect` | `Spec => []TypeOK` |
| | `NothingLost` | `Spec => []NothingLostSilently` |
| | `SeenInOrder` | `Spec => []FirstSeenInOrder` |
| | `LatestLast` | `Spec => []LatestComesLast` |
| | `ChangesAreLinked` | a record's changes are linked: each is from the image of the one before, the last to what the table holds |
| | `HoldsAreKnown` | `Spec => []HoldViewIsCurrent` |
| `HumanLoop_proofs` | `OncePerAsk`, `AnswersAreHeard` | `HumanSpec => []ResumedOncePerAsk`, `HumanSpec => []AnsweredIsHeard` |
| | `OncePerAskWithDashboard`, `AnswersAreHeardWithDashboard` | the same of `LiveFeed`'s `Spec` |
| | `FeedListsAreRight` | `Spec => []QuietListsAreRight` |
| `Browser_proofs` | `GuardedSqlRuns` | `BrowserSpec => []OnlyGuardedSqlRuns` |
| | `CardsShowReadings`, `ReadingsOnce` | `BrowserSpec => []CardsAgreeWithReadings`, `BrowserSpec => []NoReadingTwice` |
| | `TablesAreComplete` | `BrowserSpec => []LoadedPageIsComplete` |
| | `QuietPanels` | `BrowserSpec => []QuietPanelIsRight` |
| | `BlocksOfTheirTurn`, `WaitsForARun` | `BrowserSpec => []BlocksInTheirTurn`, `BrowserSpec => []RunningHasRun` |
| | `AgentsKnowConversation` | `BrowserSpec => []AgentKnowsConversation` |
| | `ListingsGrow` | `BrowserSpec => ListingGrows` |
| | `ThreadsAreBetween`, `PathsAreDrawn` | `BrowserSpec => []ThreadIsBetween`, `BrowserSpec => []PathIsDrawn` |
| | `AssessedAreShown` | `BrowserSpec => []AssessedIsShown` |
| | `ComparisonsAreExact` | `BrowserSpec => PlanDiffIsExact` |
| | `LanesShowTraces` | `BrowserSpec => []LanesShowEveryRecord` |
| | `TrendsCountDays`, `EvShowsLatest` | `BrowserSpec => []TrendCountsDays`, `BrowserSpec => []EvIsLatest` |

The lemmas they rest on are in the same modules, those about `Kept` and `Listed`
(`KeptInOrder`, `KeptAppend`, `ListedInOrder`) in `Subsequences_proofs`.

**FastConsumer.** `TypeCorrect` has one lemma per action; the ranges of offsets and
steps are part of the invariant, as without them `Current(c)` and
`Steps[..][idx[c]]` need not be defined. `CommittedIsSettled` is not inductive: a
commit stores positions, so the proof must know what a position means.
`SettledInv` adds that everything an owner has passed is settled, except the
message it is at (`OwnedIsSettled`), and that a thread ready to commit has settled
its message (`DoneIsSettled`). `SettlersGrow` (logs, processed events, raised and
missed messages only grow) carries all three through the steps of other threads.
`MarkedIsAccounted` needs the handlers under way (`WrittenIsAccounted`): a writing
thread has accounted for the steps before `idx`. `DroppedEdgeHasFailedEndpoint`
rests on `EndpointsAssumption`: each endpoint of an edge is upserted before it.
`EndsBeforeEdges` proves that of `EventPlans` (below), and TLC evaluates it for the
steps of the runs; the invariant is that such an
upsert has run or has failed, and that an edge that ran after both ran is there.

Order (`OrderInv`): an event was *touched* by a call, a mark or a raise only after
some thread came to a copy of it, and whoever comes to a message has passed what
stands before it (`BegunInv`). Positions only go back to what is committed, and
what is committed is settled; so an owner that writes although a later event was
touched is at a message that had raised (`WriterFirst`): a processed event is not
written again, and what a first join missed, nobody comes back to (`MissedInv`).
`OlderStateExplained` is about one task, as in the run: with two, a zombie's late
call may put an older state over a newer one and nothing has failed. A deployed
service has one (`desiredCount`), two only while it is replaced. Its invariant
follows every event through its handling (`NewestShown`): once a step that sets a
vertex was passed, the vertex has no older state but by a failed call of the one or
the other, or by a delivery that raised. `OneTask` is the hypothesis of the theorem
and no assumption of the module.

**The refinement.** `GroupDelivers` maps each action to a step of `Delivery` or a
stutter: `Mark` to `Handle`, `Raise` to `GiveUp`, an `Assign` without a committed
position to `StartAtEnd`. The hard case is `Commit`: positions move forward, which
needs that an owner's position is never behind the committed one, and only over
settled messages, which is `CommittedIsSettled` at the next state.

**EventPlans.** A batch is vertices, stubs, edges and one RDF copy, in this order, and
`StubsAre` says that an end of an edge that is no vertex of the batch has a stub: the
first place where the end stands among the ends of all edges is kept
(`KeptInOrder`). So a batch with a vertex has the ends of its edges before them,
whatever it is made of (`FlushPlanned`). What is left to show of each handler, for
any payload, is which vertices and edges it puts in its batch; only two edges are
not of `PlainRels`, those of a release and of a start.

**ScadaForwarder.** `FloodControl`: what the table let through is in the row until it
expires, so the invariant relates the row, the calls about to send and the topic:
the row is at least as new as every event let through, or a cooldown has passed.
`SuppressedCovered`: without faults the row of a suppressed reading belongs to an
event that is sent or about to be.

**DemoControl.** `LockExcludes`: the invariant says that, until an answer is doubtful,
at most one container is in a run or has read that nobody is (`OneHolds`), and a run
under way has the lock, which is as old as the run (`LockIsItsOwn`); so it is found
stale only after the run has outlived the limit, and what `ClearStale` deletes late is
nobody's. No bound on the length of a run is assumed.
`ResetLeavesNothing`: each step of an undisturbed reset leaves what the earlier ones
emptied empty. `SeedingIsThere`: every run under way has put, or lost, its first
`done` items, whoever runs beside it, so that a seeding that reaches `Complete` has
put them all; only a reset takes them away, and one that met no running system
takes the status with them. `SettingsAreShown`: a page that nothing raced with
either has one write under way, its own last click, or none, and then the item
says what it shows; what is read of a written item is what was written (`ReadBack`,
from `Autos` being the buttons' numbers, DemoControlPage.tsx 305-311, and `NoItem`
no such setting).

**Pipeline.** What is lost, first and last are all consequences of one invariant
about the *front* of a shard, the first change that may still be sent. A shard's
batches are one contiguous range up to what was taken (`QueuesInv`), split or not.
For two changes of one item (`ProducedInv`): a message of the later change has one of
the earlier before it, unless the earlier is behind the front without any; and after
a message of the earlier comes one of the later, unless the later is before the
front, dropped or without event. A batch that is sent in part appends, per
partition, the events of a whole range from the front, in order (`KeptInOrder`), which
is why a resend repairs what it disturbs. Sending splits by partition; that an
item's events share one needs `ItemsAssumption`: the fields that make an event's
key name the item. The same argument holds of the normalizer with its position as
the front of the raw topic (`NormalizedInv`).

`HoldsAreKnown` puts three facts together. The stream is the table's whole history
(`LinkedInv`). A change that has no hold event leaves an order as it was, on hold or
off it, and an event says what its change made of it (`HoldEventFacts`, the cases of
`derive-event-type.ts`); so the last change with such an event decides
(`HoldStays`). And when nothing is left to send, the last of the order's hold events
is that change's: `NothingLostSilently` and `LatestComesLast`.

**HumanLoop and LiveFeed.** `HumanSpec` is the loop without the dashboard.
`OncePerAsk` counts: each resume follows a stream record that turns PENDING to
ANSWERED, and between two such records lies a put; the proof maps resumes into puts
one to one. `AnswersAreHeard`: the first ANSWERED record of a question has a PENDING
one before it, so the asker's trigger resumes or gives up when it comes to it. A
click of the dashboard stores an answer as any other does (`StoreStep`), the rest of
the dashboard touches none of it. `FeedListsAreRight` accounts for every item that is
not in `misled` (`FeedInv`): while the query's answer waits it is the table's; once a
list is loaded, what it lacks or keeps wrongly has its notification on the wire; a
notification of an undisturbed item says what its row is; a clicked question is
answered. The race of query and subscription (finding 4) is where an item enters
`misled`: the invariant would not survive without it.

**The pages.** A step of the application is a step of one part or leaves the part as
it is (`PartSteps`), so each part has an invariant of its own, and the runs' data
sets are gone: the theorems hold for any lake, table, trace or graph.

* *SQL* (`SqlInv`): what stands in the console between guard and Athena is the
  statement the guard has seen.
* *Shop floor* (`ShopFloorInv`): a message is on its way to a client at most once
  (`SentOnce`), and to the mounted page's client only while its list has it not yet
  (`NotShownYet`); cards are then an account of the list.
* *Tables* (`SystemInv`): every record the page lacks is on its way with a notice, is
  in the answer that was scanned or still to be scanned behind its token, or was put
  behind the scan without a notice that the page would keep (`Accounted`; `missed`).
* *Panels* (`PanelInv`): the newest request has been answered or is in flight.
* *Conversation* (`AskInv`, `HeardInv`): until runs overlap there is one at a time, its
  turn is the last one and the only one with its id (`OneRun`, `RunIsLast`), so a
  block appended to the turn and a message appended to the agent's list are appended
  to the same conversation. The filter of the history goes with an append
  (`KeptAppend`) and with a call that joins the message of the prose (which leaves the
  history, `withCall`), and so does the concatenation of the turns (`FlattenAppend`).
* *Runs* (`RunsInv`): a list that is asked for after another was shown reads each run
  after the other has read it (`ScannedAfter`). A run that was shown and has lost no
  record is read again, with all it had; so it is listed, or the list is full of runs
  none of which is older.
* *Thread* (`WriterInv`, `LoadInv`): a mark stands for the writes before it, on whatever
  attempt; what a load has found was there when it was found and still is. The graph
  only grows, and a simple path of the smaller graph is one of the larger
  (`ThreadGrows`); that the recursive function of the paths exists is proved by the
  least number without one (`LeastNumber`, `PathsExist`).
* *Navigator* (`Near`, `NavigatorLearns`): what was learnt step by step within n hops
  ends a path without a repeated vertex of at most n edges (`NearIsWalked`), whatever
  was written between the questions; the graph only grows, so a load that begins
  later reaches it (`PathIsReached`), its edge query finds every edge between what it
  reached (`PathIsRead`), and both are shown (`PathIsShown`).
* *Comparison* (`PlanInv`): the four reads of a comparison are four moments, and it is
  exact because a work order's plan is complete before anything is made of it: `mes.py`
  writes the segment at the release, the response at the start, and the events of
  one work order are in one partition. `PlanAssumption` says that of the calls; TLC
  evaluates it for the handlers', and `OnlyReleasesPlan` proves that no other event
  writes either edge.

* *Lanes* (`TraceInv`): the records of a trace are of sessions, at times, and no two are
  equal in `Before`, so they are listed in one order (`ListedInOrder`). The rows are
  built record by record; that what is built so far holds exactly the records so far,
  each row begins with its oldest, spans no more than `SlotSpan` and ends before the
  next begins is kept by one more record (`StepByStep`).
* *Charts* (`RowsInv`): rows on their way or shown are what the query finds in the lake.
  The limit cuts the end of a list that is ordered by date, so a day that is not the
  last is all there (`WholeDays`), and the counts of a day's groups add up to its
  events, as groups are disjoint (`SumIsSize`); rows pass unpivoted only when the
  first, one of the oldest day's, has no severity. The earned-value rows are folded row by
  row like the lanes (`LatestPerPeriodIs`). `PanelAssumption` says that the lake is
  finite, ids are unique, and a record's number and age are numbers.

**Only model-checked.** Liveness (`EveryMessageSettles`, `AlwaysDrains`): fairness is
out of the prover's reach. Every other property of a passing run is proved.
The proofs about `FastConsumer` hold for any `Steps` that satisfy its assumptions.
`EventPlans_proofs` shows that every plan does, but `FastConsumer` is instantiated with
the plans only in the runs: that labels and relations are strings, as `EventsAssumption`
has it, is a fact the provers have no rule for, so they are proved to be among the ones
the code uses (`Labels`, `Rels`).

## 5. Findings

1. **Edges lost without a letter** (`replay`). `_ensure_edge_endpoints` takes a
   vertex of the batch for present although its upsert failed; the edge query
   then matches nothing, succeeds, and is never retried.
2. **An older state wins** (`ordering`). After a raise the loop goes on; a
   restart before the next commit handles the failed, older event last.
3. **A breach reported to nobody** (`scada_lost`). The debounce row is stored before
   the send. The send of the first reading fails, Lambda runs the invocation again,
   and its put is refused by the row it has stored itself, as is every reading of the
   cooldown. (A put whose answer is lost and which the SDK repeats ends the same way;
   in this run only sends fail.)
4. **A question nobody sees** (`livefeed_lost`). Query and subscription start
   together; a question stored between the query's answer and the subscription is
   in neither.

Observations made while modelling, outside the runs:

* Two containers may replay one scenario (`doubted` in `DemoControl`): when both read
  before either puts its lock, when the late deletion of a stale lock removes a fresh
  one, and when a run of mode `SCENARIO` (about 400 s and 600 s under one lock, whose
  time is never renewed) outlives the 900 s after which scenario_runner.py 27-29
  takes its container for killed.
* `useAgUiStream.ts` 25-30 keeps the agent's prose replies for the next turn, but
  drops an assistant message that has both prose and a tool call (36): what it said
  the agent no longer knows. `AgentKnowsConversation` says that this is all it
  forgets.
* When the first row of the NCR trend has no severity (a NULL of the archive; line 93
  of `useHistoricalData.ts` expects it), line 88 takes all rows for pivoted and the
  chart counts nothing.
* `AskThreadNavigator.tsx` 57 says that the path is highlighted on the full graph
  above; with a domain selected the graph above has only that domain's vertices,
  while the navigator is given all.
* A stream that closes without RUN_FINISHED or RUN_ERROR leaves the console waiting
  (`cut`). A run that lost a row to expiry or reset may disappear from the list.
* What the generator or an injection puts behind the scan of a list shows in no open
  page: there is no mutation, so no notice. A create between a page's scan and its
  subscription is missing likewise.
* `athena-query` orders the NCR trend by date and cuts it after 100 rows: in the
  90-day window it is the newest days that are missing (`TrendCountsDays` holds of
  all but the newest day shown).
* `list-runs` calls a run completed as soon as any of its agents has stopped, and
  its error answers carry no runs, which the page shows as none.
* Trace records of one kind, session and second overwrite each other
  (`trace_writer`'s key; the trigger's key has no action).
* An agent trigger logs and swallows a failed invocation, so the dead letter
  queue that agentcore-stack.ts 284-287 gives its queue never gets a message for it.
* A reset of a running system leaves data behind (`disturbed`), although the
  confirmation of `DemoControlPage` promises that all data is wiped.
* `mes.py` 39 handles `HOLD_RELEASED` like `HOLD_PLACED`. `derive` names a short kit
  `KIT_SHORTAGE_DETECTED` while the WMS handler (`wms.py:15`) also accepts
  `KIT_SHORT`.
* Job order and job response share an id, sublot and digital twin a serial number:
  the page's map by id keeps one of each, while its node count has both.
* The generic create resolver puts without a condition and the page's form offers
  a fixed default key: a new record replaces the one before.
* A telemetry page left before its client is made leaves a client that is never
  ended; `cancelled` keeps what it receives from being shown (`NoReadingTwice`).
* The gap of an assessment that was abandoned stays in the graph after the next one.

## 6. Plan

Done: the consumer and its refinement, the pipeline into it, the forwarder, the
human loop and the live feed, the demo's controls, the pages. What is left, in
order of importance:

1. `Pipeline` and `FastConsumer` in one module: a change of a record reaches the
   graph, or is dropped, raised, missed or in the dead letter table.
2. Two topics that write one vertex.

## 7. Not modelled

* **Agent server** (`agents/server.py`, `runtime/main.py`): AgentCore runs each session
  in a process of its own, so its one-time swap of the agent and its process-wide
  context have no concurrent user but a resume of the same session, which changes
  only labels of trace records. The rest is the A2A library and a language model.
* **Seeding scripts**: one-off sequential loading of fixed data. The generator's own
  seeding is in `DemoControl`.
* **Stacks** (`infra/lib`): declarative; read for what the models assume (desired
  count, retries, partitions, queues, timeouts). The AppSync resolvers are in
  `SystemPages`, `HumanLoop` and `LiveFeed`.
* **Single calls that pass a message on**: `msk-consumer`, `firehose-transformer`, the
  registry, the other named Athena queries, `query_by_type`, `count_by_type` and the
  `query_hierarchy`, raw Gremlin and SPARQL operations of `neptune-query`. `agent-trigger/index.ts` is
  not deployed.
* **Rendering**: the two drawn architecture pages, widgets, the graph's drawing;
  `SystemStatusPage`, which no route shows; branches for an unset API URL.

## 8. Running

    tlc -config MCFastConsumer_rebalance.cfg MCFastConsumer
    tlc -config MCBrowser.cfg MCBrowser
    tlapm FastConsumer_proofs.tla

Runs take from seconds to three minutes with two workers (`rebalance` has about
540 000 states, `browser` 820 000, `scada` 960 000, `demo` 1 180 000).
