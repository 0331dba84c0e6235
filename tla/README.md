# TLA+ specifications of the GitHub delivery-intelligence pipeline

These modules model the parts of the repository whose correctness depends on
order, failure and concurrency: the two Kafka consumers, the two backfill
traversals, the API clients' waits, the analytics refresh ledger and the webhook
publisher, and the path of a delivery from the webhook to the raw table. TLC checks
them on small instances; TLAPS proves the safety properties that matter most
for every value of the constants. Paths in this file are relative to the
repository; `G/` stands for `src/github_analytics/`.

Run everything from this directory:

    tlc -workers 2 -config WarehouseWriter_group.cfg MCWarehouseWriter.tla
    tlapm PrMonitor_proofs.tla

A configuration `X_y.cfg` belongs to the module `MCX.tla`. `PROJECT.json` lists
the runs, maps each definition to the lines it models, gives for every property
a plausible defect that violates it, and names the theorems.

## 1. The system

    GitHub --deliveries--> webhook receiver --> Kafka raw topic
                                                   |        |
                              warehouse writer <---+        +---> pull-request monitor
                                     |     \                      /    |        \
                                     |      +--> dead letters <--+     |         \
                                     v                                 v          v
    GitHub API --> backfill --> raw.github_events          serving projection  alert outbox
                      |              |
                      v              v
               backfill checkpoints  dbt, run by the analytics refresh DAG
                                     |
                                     v
                         marts, ops.analytics_refresh_runs

| Part | State it keeps | Operations | How it interacts |
|---|---|---|---|
| Webhook receiver (`G/webhook`) | one Kafka producer with its local queue, a thread pool, an event per publish | receive a delivery, probe readiness | answers GitHub 202 after a delivery report; appends to the raw topic |
| Warehouse writer (`G/consumers/warehouse.py`, `storage.py`) | the group's committed offsets, `raw.github_events` | poll, validate, insert or dead-letter, commit | reads the raw topic, writes PostgreSQL and the dead-letter topic |
| Dead-letter publisher (`G/consumers/dlq.py`) | a Kafka producer | publish, wait for the report | called by both consumers |
| Pull-request monitor (`G/consumers/pr_monitor.py`, `pr_storage.py`) | watermarks, open pull requests, first reviews, the alert outbox, its offsets and next sweep time | apply a snapshot, apply a review, ignore, dead-letter, sweep stale rows, commit | reads the raw topic in a group of its own |
| GraphQL backfill (`G/backfill/github.py`, `storage.py`) | `raw.backfill_checkpoints`, backfill rows, a cursor in memory | traverse pull requests, and per pull request its reviews and commits; persist a page | GitHub's GraphQL API; run by an Airflow task or by an operator |
| REST backfill (`G/backfill/rest_backfill.py`) | the same tables, a page number in memory | traverse workflow runs, deployments, statuses | GitHub's REST API; runs after the GraphQL part |
| API clients (`G/backfill/graphql.py`, `rest.py`) | waits and attempts of one request | request, wait for a rate limit, retry | called for every page |
| Analytics refresh (`G/analytics_refresh`, `airflow/dags/analytics_refresh.py`) | the ledger row of a DAG run | begin, record, resume, finish | three Airflow tasks with two retries each and a failure callback; runs dbt |
| dbt models (`dbt/`) | tables derived from the raw ones | staging, deduplication, metrics | run by the refresh |
| Dashboards, evidence, demo, infrastructure | nothing durable of their own | read-only queries, measurement, wiring | read the marts |

### What is hard about it

- **At-least-once consumers.** The durable effect and the offset commit are two
  commits in two systems. Crashes, lost answers, rebalances and expelled
  workers that go on can fall between them.
- **Events out of order.** Kafka orders records of a key, but the events of a
  pull request reach the topic in whatever order GitHub delivers them, more than
  once, and replays apply old ones over new state.
- **Two loops in one thread, two processes over one table.** The monitor sweeps
  between polls; the sweep's statement takes no lock that a projection
  transaction takes.
- **Resumption.** A backfill restarts from a cursor that it, or another runner
  of the same window, stored. REST pages are numbered from the newest item, so
  a page number means something else when items arrive or expire.
- **Retries over shared evidence.** Retries of an Airflow task, an attempt that
  Airflow has given up on, an operator who clears a task, and a failure
  callback all write the same ledger row.
- **Shared producer.** Each publishing thread polls the one producer, and so
  runs the callbacks of the other threads.
- **Two promises in a row.** The receiver answers for the topic, the writers for
  the table; either process may end between its effect and its answer or commit, and
  what GitHub or the log then repeats must come to one row.
- **Other clocks.** The wait for a rate limit's end is computed with the host's
  clock from GitHub's time, and the ledger compares times of different hosts.

`PROJECT.json` lists these as hazards at their lines, each with the properties
that would notice it going wrong, or with the reason why none does.

### What makes each part correct

- Consumers: nothing below a committed offset is lost; committed offsets never
  go back; a poison record does not hold up the log and a record the database
  refuses is never skipped; a delivery is stored once, under its first lineage.
- Projection: it converges to what the set of records determines, whatever
  their order; its tables never disagree; it never moves back; an alert is for
  a row that is stale, is cancelled when its pull request closes, and exists
  once for life.
- Backfill: what a stored cursor says is read is read; a completed traversal is
  whole; a parent is stored after its history; counters count rows; a window is
  completed in the end.
- Ledger: statuses follow the transition table; success rests on evidence; the
  first error stays; the row agrees with Airflow and ends terminal.
- dbt runner: no attempt records the result of another one's command.
- API clients: no request is repeated before the wait GitHub asked for is over.
  That is so of an answer that names one limit; of two waits the clients keep one
  (section 6).
- Receiver: a 202 means the record is in the topic; no thread takes the report of
  another one's record; nobody waits forever.
- Pipeline: what was answered 202 is stored or still ahead of the writers, and
  what is published is stored once in the end, unless PostgreSQL refuses a record of
  the topic: that one is never stored, and it holds up what is behind it.

## 2. Modules

| Module | Models | Used by |
|---|---|---|
| `ConsumerGroup` | the log, the group coordinator, and the poll, effect, commit loop that both consumers share | extended by the two consumers |
| `WarehouseWriter` | validation, insert, dead letter and commit of the warehouse writer | `MCWarehouseWriter` |
| `IngestContract` | abstract: what ADR 0001 (`docs/adr/0001-*`) asks of a consumer, without workers or failures | refinement target of `WarehouseWriter` |
| `PrMonitor` | the projection's statements, the outbox, the sweep between polls | `MCPrMonitor` |
| `GraphQLBackfill` | runners that traverse pull requests, reviews and commits | `MCGraphQLBackfill` |
| `ApiClient` | calls of GitHub's API under its rate limits | `MCApiClient` |
| `RestBackfill` | a run over workflow runs, deployments and statuses | `MCRestBackfill` |
| `AnalyticsRefresh` | the ledger row, the attempts that write it and the dbt commands they run | `MCAnalyticsRefresh` |
| `WebhookReceiver` | handlers, thread pool, shared producer, a process that ends | `MCWebhookReceiver` |
| `IngestPipeline` | receiver, raw topic and writers composed | `MCIngestPipeline` |
| `DeliveryPromise` | abstract: what the pipeline promises of a delivery, without requests, records or workers | refinement target of `IngestPipeline` |
| `*_proofs` | lemmas and theorems about the module of that name; those about `WarehouseWriter` are the first part of `IngestPipeline_proofs`, because the pipeline extends the writers | |

`WarehouseWriter` and `PrMonitor` EXTEND `ConsumerGroup`: the variables of the
group are shared and each consumer adds its stores and says what the `process`
step does. `Contract == INSTANCE IngestContract WITH ...` in `WarehouseWriter`
is the refinement mapping. The operators whose comment begins with "Mutant" are
variants of the definition below them, with a defect the code does not have;
no specification uses them.

### ConsumerGroup

`pc[w]` is where a worker is in `run_forever` (`G/consumers/warehouse.py:87`,
`pr_monitor.py:163`): `poll`, `process` with the message `cur[w]`, `commit`, or
`down`. `position` is the consumer's fetch position in memory, `committed` the
offset at the coordinator, `owner` the coordinator's assignment and `assigned`
what the worker believes. The consumers subscribe with `enable.auto.commit` and
`enable.auto.offset.store` off and `auto.offset.reset` earliest, so `committed`
moves in `CommitOffset` and in `CommitFails`, where the answer is lost after
the broker took the offset. Any exception leaves `run_forever` and ends the
process: `EffectRaised`, `CommitFails` and `CommitRejected` all stop the worker.
`Fence` expels a worker that is too slow: it goes on with its message, and finds
out when it commits (`CommitRejected`) or polls (`Rejoin`). Kafka is external
and modelled from this use.

### WarehouseWriter

A value is the record of one delivery; `Valid` values parse as a
`GitHubEventEnvelope`; `Unstorable` ones parse and are refused by PostgreSQL
each time (a number outside of `bigint`, a NUL character). `Insert` is the
`INSERT ... ON CONFLICT DO NOTHING` of `storage.py`; the immutability trigger of
`infra/init/002` is why rows are only added. `InsertFails` and `DeadLetterFails`
raise with or without their effect.

### PrMonitor

Each statement of `pr_storage.py` is an operator: `Advances` and
`WatermarkAfter` (`_ADVANCE_WATERMARK`), `UpsertedRow`, `Synced`,
`OutboxAfter` (`_CANCEL_PENDING_ALERT`), `RecordsReview`. `apply_pull_request`
and `apply_review` are the transactions; each is one step because its first
statement takes the row lock of the watermark. The sweep is two steps,
`SweepRead` and `SweepCommit`, because its statement reads a snapshot and locks
nothing. `process` runs between polls, so a monitor's own sweep never overlaps
its own transactions. `Refused` are the records with the statement PostgreSQL
refuses of them each time: the watermark's (an id outside of `bigint`), the open
row's (a number outside of `integer`, a NUL in a title), the review's (its ids and
login). `Refuses` says whether the transaction comes to that statement, which depends
on the tables: a refused open row no longer matters once the record is overtaken.
`ApplyRefused` rolls back and ends the monitor, without a dead letter. Time is abstracted to what the code compares: `aged` are the
pull requests opened before the cutoff, `due[w]` says that the next sweep time
has come.

### GraphQLBackfill and RestBackfill

An item of a GraphQL connection is its position in the API's order, a cursor the
position it stands behind. A runner holds a page of pull requests (`cursor`,
`end`, `final`) and works through its nodes inside the window, for each through
the reviews and then the commits (`part`), and stores the page last.
`persist_page` is one transaction that overwrites the checkpoint whatever it
was. Two runners of one window are possible: the DAG has `max_active_runs=1`,
and an operator can run `make backfill` beside it
(`docs/operations-runbook.md:257`).

An item of a REST listing is numbered by age, the oldest first; `Served` is a
page counted from the newest one, so `Arrive` and `Expire` shift and shrink
pages between any two requests. `Unserved` runs are counted in `total_count` and
served on no page. Items removed from the middle of a listing are not modelled:
the code has no means to notice the shift they cause.

### ApiClient

One call of `GitHubGraphQLClient.execute` or `GitHubRestClient.get`: a client is
`sent`, `answered` (the answer is there and not looked at: time goes on), or
`sleeping`. `PrimaryLimit` and `SecondaryLimit` are how each client recognises a
limit, which differs between the two; `Handle` is the body of the loop in the
order of its checks, the JSON first. Time is what is left of each delay; `Tick`
shortens all of them and begins the next window. The host's clock may be `ahead`
of GitHub's: `UntilReset` is what the client makes of the window's end, so it may
wake early by as much. `told[c]` remembers the waits GitHub asked for and is read by
the properties only. There are two when an answer reports the allowance used up and
carries a retry-after as well (`Asked`); the loop keeps the one of the limit it
recognises first. GitHub answers by its
documented behaviour: it serves `Limit` requests of a kind per `Window`, and a
secondary limit may begin at any time. A retry-after header that is a date, not a
number of seconds, is left out. The backfills do not know of any of this: to them
a client that gives up is a failed call.

### AnalyticsRefresh

`pc[s]` is the next statement of the attempt in slot `s`. `Store` is
`_execute_one`: a statement finds the row in a status its WHERE clause allows,
or raises, or the call fails with or without its effect. `Raise`, `Succeed` and
`AttemptLost` are what Airflow makes of the end of an attempt; an orphan
(`tracked` no longer names it) goes on writing. `on_failure_callback` is called
once when a task has no retries left. An operator clears a task of a DAG run that
has ended (`Clear`). The table refuses a `finished_at` before `started_at`, which
another host wrote: `finish_success` may be refused for that (`ClockIsBehind`),
`finish_failure` takes the later of the two times.

`_run` is `DbtRunner._run` in its steps: `unlink` the artifact, `executor`, which
ends with an exit code and an artifact that is there or not and whole or not, or
`executor_raises` at the timeout, and `parse_dbt_artifact`. All attempts share the
target directory; `artifact[t].by` remembers who wrote the file and is read by
`OwnArtifactIsRead` only. A command does not outlive its attempt: `subprocess.run`
kills it at its timeout, and Airflow is taken to end an attempt with its process
group.

### WebhookReceiver

A delivery passes the checks, waits for a thread of asyncio's pool, is produced,
and then loops over "has my callback run, is my time up, poll". `Poll` serves
every report there is, whichever request it belongs to. `Deadline` is the publisher's
own clock (`kafka.py:78-83`), which asks nobody: `message.timeout.ms` is 90 % of it
(`kafka.py:99-120`), but the library looks for expired records now and then, so a
handler may have answered 503 while its record is still held, sent or appended, and
the report comes when the handler is gone. `produce` may raise with or without room in
the queue. The receiver takes a readiness probe through the same pool. `Restart` ends the process at any point: its queue and callbacks are gone, the
requests under way are dropped without an answer, and what was sent may be appended
later (`Append_`).

### IngestPipeline

EXTENDS `WarehouseWriter` and instantiates `WebhookReceiver` beside it. The two
share one step: when the broker appends the record of a request
(`Receiver!Append_`), the group's log gets a record of its delivery
(`AppendRecord`). Several requests may carry one delivery (`DeliveryOf`): GitHub's
redelivery after a 503 or an unanswered request, or an operator's. `AppendForeign`
is whatever else gets into the topic, a further copy of a delivery included. `Promise == INSTANCE DeliveryPromise WITH ...` is
the refinement mapping.

## 3. Runs

| Run | Instance | What it shows |
|---|---|---|
| `WarehouseWriter_group` | 2 writers, 2 partitions, 2 deliveries, a poison and a refused record, 2 records per partition, 2 disruptions | nothing is committed without its row or dead letter; a delivery keeps its first lineage; at most one extra dead letter per disruption; the committed offset never goes back; the group implements `IngestContract`; every record is committed once disruptions stop |
| `PrMonitor_group` | 2 monitors, 1 pull request with twelve kinds of record (open, draft, close, reopen, reviews by others and by the author, invalid, ignored, refused), 2 records, 2 disruptions; 3 records that PostgreSQL refuses, one per statement | the serving tables agree, converge and never move back; no committed record is missing from them |
| `PrMonitor_alerts` | 1 monitor, 5 kinds of record of which PostgreSQL refuses one unless it is overtaken, 3 records, 1 disruption | alerts are for stale rows, cancelled with their pull request, once for life; sweeps and polls do not starve each other |
| `PrMonitor_same_second` | violation | see section 6 |
| `GraphQLBackfill_runners` | 2 runners, pages of one, 4 pull requests of which one is before and one behind the window, 2 failures, GitHub grows | stored cursors and completed checkpoints are backed by rows whichever runner wrote them; history before pull request; counters; completion |
| `RestBackfill_window` | 3 workflow runs, 2 deployments with up to 3 statuses, pages of one, arrivals in every listing, one expiry, one run counted and not served, cap of 3, 2 failures | a stored page number steps over nothing; completed listings are whole; statuses before their deployment; progress; completion |
| `RestBackfill_early_end` | violation | see section 6 |
| `ApiClient_limits` | 2 clients, of one kind or of two, 2 retries, windows of one request, 1 secondary limit, 1 error of another kind, a clock that is right or ahead by one | no request is repeated before the wait asked for (of two waits: one) is over, but for the clock's lead; a client alone with its allowance never gives up; each call ends |
| `AnalyticsRefresh_runs` | 2 attempts alive at a time, 3 tries, 3 failed calls or kills, 1 orphan, 2 cleared tasks; every exit, timeout and artifact of each dbt command | transitions, evidence, first error, agreement with Airflow, a terminal row; the artifact an attempt records is its own |
| `AnalyticsRefresh_no_row` | violation | see section 6 |
| `WebhookReceiver_publish` | 2 deliveries, a malformed one, a probe, 2 threads, a queue of one, 1 restart | a 202 is in the log; no thread's poll takes a report from the request that waits for it; everyone is answered or dropped with the process |
| `IngestPipeline_delivery` | 2 requests, with a delivery that is stored and one that PostgreSQL refuses; further copies of both, 2 records in all; 1 thread, 2 writers, 1 partition, 1 restart of the receiver, 1 disruption of the writers | what was answered 202 is stored or ahead of the group, also when it is refused each time: the committed offset never passes it; receiver, topic and writers implement `DeliveryPromise`, whose liveness is owed only while no refused delivery is in the topic |

All configurations but that of `ApiClient` switch deadlock detection off: the
logs, failures and
arrivals are bounded, so each system really comes to rest when they are used up
(every record committed, every window completed, every request answered). What
must not come to rest early is stated as liveness.

### Bounds, and why they are enough

- Two workers (runners, attempts) are enough for every overlap the code can
  have: one that goes on with stale knowledge and one that replaces it. A third
  would have to be stale against both, and no variable of the models tells two
  stale workers apart. Two partitions let workers exchange them.
- A log of two or three records holds a record, its duplicate or successor, and
  one behind them; convergence is about pairs of records, since the projection
  keeps a maximum and a minimum.
- Two disruptions allow a failure during the recovery from a failure.
- In the pipeline, one restart and one disruption meet at every pair of steps of
  the two sides; a delivery may have two records, the first of which may be the one of
  a request that was never answered. A record that does not parse is left to
  `WarehouseWriter_group`.
- Pages of one item put every page border between every two items.
- Two retries are the code's (`MaxTries = 3`).
- Of `ApiClient`, `MaxRetries = 2` is one less than the default: a first and a
  last retry differ. A window of one request lets a neighbour use up each. A
  penalty of 2 is longer than the first backoff, the window longer than it too. A
  clock ahead by 1 is half a window: a client wakes in the same window and uses up a
  retry. `KindsOf` leaves out the one assignment of kinds that renames the clients.
- `MaxFailures`, `MaxDisruptions`, `MaxPenalty`, `MaxPenalties`, `MaxAhead`, `MaxLog`,
  `MaxOrphans`, `MaxClears`, `MaxRestarts`, `MaxExpired`, `MaxItems` and `MaxDeployments` only bound the state space; the
  proofs hold for each value of those of their module.

### Fairness, and why the code justifies it

- Consumers: a worker that can take its next step takes it, the coordinator
  assigns an unowned partition, and a stopped worker is started again
  (by the operator,
  `docs/operations-runbook.md:109-112`). Nothing is assumed of failures
  except that they are finite. `poll` of the monitor returns a record, or
  serves an assignment, again and again (strong fairness), because it may also
  return nothing at any time.
- `EveryRecordCommitted` of the warehouse writer holds only while no refused
  record is in the log: such a record stops each worker that polls it, and with
  it the other partitions of that worker. That of the monitor has the same
  exception (`Refused`), and so has what `KeepsPromise` says of the end: a refused
  delivery passes the receiver's checks, is published and answered 202, and is
  never stored. A worker that is stopped in this way is started again like any
  other, and stopped again.
- Backfill: a run that is under way goes on, and a failed run is tried again,
  by the task's retries and then by the operator. PostgreSQL is taken to refuse no
  page for what it says: such a page would stop each run.
- API clients: time goes on, a request is answered (its timeout is 20 s), and a
  client that is awake goes on. Nobody has to make a call.
- Refresh: Airflow launches the next attempt, attempts end, the callback is
  called.
- Receiver: threads run, a free thread takes a waiting call in the end, and the
  publisher's clock runs out. Nothing is assumed of the broker or of the library:
  one may be down for good, the other may never report.
- Pipeline: the fairness of the writers alone. Nothing is asked of the receiver, of
  GitHub or of the broker: what is in the topic is stored, whoever put it there,
  while no record in it is refused.

## 4. Proofs

TLAPS checks these for every number of workers, partitions, values, runners, pull
requests, items, listings and pages, attempts and retries, requests, threads and
clients, and for every value of the bounds, from the assumptions the modules name
(`GroupAssumption`, `WriterAssumption`, `MonitorAssumption`, `BackfillAssumption`,
`RestAssumption`, `RefreshAssumption`, `ReceiverAssumption`, `PipelineAssumption`,
`ApiAssumption`: constants have their types, a worker is not `Nobody`, the values
are the records the code distinguishes, a page has room for an item, the backoff is
at least the minute the constructor demands, `graphql.py:69`).

Four theorems of `PrMonitor` have a hypothesis that is not an assumption of the
module, because the code does not guarantee it: `TimesTellApart` (records of a
pull request with the same time say the same) and `OneMonitor`. Both are true of the
instances the properties are checked on, and section 6 shows what happens without
them.

| Theorem | States |
|---|---|
| `TypeCorrect` of `IngestPipeline_proofs` (of the writers), `PrMonitor_proofs`, `GraphQLBackfill_proofs`, `RestBackfill_proofs`, `AnalyticsRefresh_proofs`, `WebhookReceiver_proofs`, `ApiClient_proofs` | `Spec => []TypeOK` |
| `IngestPipeline_proofs!Durability` | no committed record without its row or dead letter |
| `IngestPipeline_proofs!FirstLineage` | a delivery is stored once, under its first lineage |
| `IngestPipeline_proofs!RefusedBlocks` | a refused record is never committed over |
| `IngestPipeline_proofs!NeverRegresses` | no step moves a committed offset back |
| `IngestPipeline_proofs!LettersBounded` | a record has at most one dead letter more than there were disruptions |
| `IngestPipeline_proofs!ContractKept` | the group of writers implements `IngestContract!Spec` |
| `PrMonitor_proofs!Durability` | no committed record is lost to the projection |
| `PrMonitor_proofs!Agreement` | open row, watermark and first review agree |
| `PrMonitor_proofs!Forward` | watermarks and first reviews only move forward |
| `PrMonitor_proofs!Sourced` | the tables hold what a record of the log has put there, and nothing else |
| `PrMonitor_proofs!Convergence` | if times tell records apart: with every record committed, the projection is what the set of records determines |
| `PrMonitor_proofs!OneAlert` | a pull request has one alert for life, however many monitors sweep |
| `PrMonitor_proofs!AlertsHaveRows`, `AlertsAreDue` | with one monitor: a pending alert has its open row, and is raised only for a stale one |
| `PrMonitor_proofs!CloseCancelsInOrder` | with one monitor, if times tell records apart: a committed close that is not overtaken leaves no pending alert |
| `GraphQLBackfill_proofs!CursorIsBacked` | everything before a stored cursor is stored |
| `GraphQLBackfill_proofs!CompletedIsWhole` | a completed traversal misses nothing |
| `GraphQLBackfill_proofs!HistoryComesFirst` | no pull request before its history |
| `GraphQLBackfill_proofs!InsertedIsCounted` | the counter of each checkpoint is the number of rows of its connection |
| `RestBackfill_proofs!NothingSkipped` | no item before the stored page number is missing, wherever arrivals and expiries have moved it |
| `RestBackfill_proofs!CompletedWhole` | a completed listing has every item that existed at the start and is still served |
| `RestBackfill_proofs!StatusesFirst` | no deployment before its statuses |
| `RestBackfill_proofs!ProgressKept` | no step reopens a listing or takes a page number back |
| `AnalyticsRefresh_proofs!FollowsTransitions`, `FirstErrorKept`, `ErrorMatches` | the row's statuses and errors, orphans included |
| `AnalyticsRefresh_proofs!SucceededShowsEvidence`, `LedgerAgrees` | without orphans, the row agrees with the evidence and with the DAG run |
| `AnalyticsRefresh_proofs!OwnArtifactRead` | without orphans, what an attempt records is what its own dbt command wrote |
| `AnalyticsRefresh_proofs!CallbackCloses` | without orphans, when `begin_run` has made a row the failure callback leaves it terminal |
| `WebhookReceiver_proofs!AcceptedLogged` | a 202 is in the topic |
| `WebhookReceiver_proofs!ReportsReach` | what a waiting request has not been told is still to be reported or to be served |
| `IngestPipeline_proofs!NothingLost` | what was answered 202 is stored or ahead of the group |
| `IngestPipeline_proofs!Implements` | the pipeline implements `DeliveryPromise!Spec` |
| `ApiClient_proofs!WaitedAsTold` | no request before a wait asked for is over, but for the clock's lead: the wait, when the answer names one limit |
| `ApiClient_proofs!PrimaryWaitedOut` | an undisturbed client that is alone gets its data |

**The consumers.** `ConsumerGroup_proofs` shows that every step of the group
keeps `GroupTypeOK` and `GroupInv`. The heart of `GroupInv` is
`OwnerAtCommitted`: the worker that owns a partition stands exactly at the
committed offset, counting the message in its hands as not passed. Durability is
not inductive with it alone, because a worker also moves its position over
records whose effects it did itself and commits later: `WorkersVouch` adds that
everything below a worker's frontier is accounted for, for an expelled worker as
well, and its message too once it is about to commit. `FirstLineageStored` needs
this as well: when a worker inserts a row, all earlier records of the partition
are accounted for, so an earlier record of the same delivery would already have
its row. `IInv` of `WarehouseWriter` is the conjunction of these with `TypeOK`
and `LogIsRouted`. A refused record never gets a row, so `Durability` gives
`RefusedBlocks`. `NeverRegresses` follows from `OwnerAtCommitted`: only an owner's
commit is taken, and it commits one behind its frontier.

`LettersBounded` cannot be shown by counting publishes, since a record is published
again by whoever takes over. `DeadLettersOwed` is a potential: to the letters a
record already has it adds one while the record is still to be settled by the owner
(`Unsettled`) and one for each worker that lost the partition and may still publish
(`Expelled`). A disruption pays for each letter the sum grows by, and a worker that
is stopped or finds out that it was expelled gives its part back. `ContractKept` maps
the group to `IngestContract`, where a record is settled only when everything before
it in the partition is: `MessageInTurn` reads this off `WorkersVouch`, for expelled
workers too. A lost answer maps to the step or to a stutter, a second publish or
insert to a stutter.

**The projection.** "Accounted for" is `Applied`: nothing more can be learnt
from applying the record again. `EffectForward` shows that a transaction only
raises watermarks and lowers first reviews, so `Applied` is never undone, and
`EffectRows` that the open row agrees with both tables after every transaction.

That every record is applied bounds the tables from one side only. The other side is
`TablesComeFromLog`: the watermark and the open row come from one and the same record
of the log, a first review from an eligible one. Together they pin the tables to the
newest snapshot and the earliest review (`Converged`), up to records with the same
time, of which either may have won: `TimesTellApart`.

`OneAlert` needs no hypothesis: the sweep's INSERT leaves every alert alone that is
there, whoever wrote it. The two theorems about open rows need that nothing happens
between a sweep's SELECT and its INSERT that closes a row it has read
(`SweepSeesStaleRows`). This holds of a single monitor, which does not poll while it
sweeps, and with `CloseCancels` (the transaction that deletes the row takes the
pending alert with it) makes `AlertInv` inductive. `CloseCancelsInOrder` puts the
three together: the snapshot the tables come from is the close itself, so there is no
row, and without a row there is no pending alert.

**The traversal.** The rows are the evidence. `RunnerVouches` says what a
runner's memory may rely on: everything before its cursor is stored, the history
of the pull requests of its page before `node` is stored, a final page reaches
the end of the window or of what existed at the start. No conjunct says anything of
another runner, and `persist_page` only adds rows, so a runner that overwrites
another's checkpoint still writes a cursor it vouches for. `CountInv` adds to the
counters that the rows of a connection are finitely many; the counter of
`persist_page` is the old one and the number of rows that were not there yet, whichever
runner wrote the old one.

**The numbered pages.** A page number means something else after every arrival and
expiry. What is stable is `Position`, counted from the newest item: an arrival only
pushes older items further back, so an item before a page border may be read again
but is not stepped over, and an expired one is owed no longer. `MemoryIsSound` says this
of the page in memory (`Reaches`), also while the listing moves between a request
and the transaction that stores its page, and that the run reads where the checkpoint
is (`Reading`), which is what keeps progress. Two facts about pages carry
`CompletedWhole`: a page with room left is the last one, since a full page of a
listing is an interval of `PageSize` items (`ShortPageIsLast`), and pages that have
come to `total_count` have come to the oldest run, though the API may count runs it
serves nowhere (`TotalReached`). A deployment is stored after the statuses of its whole
page are complete: no held deployment is forgotten between (`MemoryIsSound`).

**The ledger.** `RowStep` lists what a statement may make of the row and
`AttemptStep` what a step may make of an attempt; the other lemmas see only
these two. The transitions and the errors follow from the WHERE clauses alone, so
they hold with orphans. The rest needs `OneAttempt`: without an orphan the only
attempt alive is the one Airflow follows, and it is of the task whose turn it is,
so nobody clears the row behind a later task (`EarlierEvidence`). A cleared task
keeps this because an operator clears only a DAG run that has ended, in which
Airflow follows no attempt (`Followed`). `ArtifactInv` is about the target
directory: an attempt starts its command at the unlink (`FreshCommand`), and behind
it finds the artifact of its own command or none (`OwnArtifact`), since by
`OneAttempt` nobody else writes there. `CallbackCloses` rests on `RejectedByNoRow`:
the callback's UPDATE is refused only when there is no row, or when the write of a
success went through and its answer was lost.

**The receiver.** `AcceptedIsLogged` follows from `SuccessIsTrue`: what the library
and the callbacks say of success is true. `NoReportIsLost` is kept by each poll
because it hands every report it serves to the request of that report. `QueuedIsOpen`
(a record the producer holds has no report yet, served or not) and
`UnproducedIsUnknown` say that a request that has just produced starts with a clean
event. None of it speaks of the deadline, which may come at any time. `Restart`
empties all of it at once.

**The pipeline.** `PipelineInv` is the invariants of the two sides and
`AppendedIsInTopic`, which joins them: what the receiver counts as appended is in
the group's log. A step of one side leaves the other's variables alone, so the
theorems of the two modules are used as they are (`INSTANCE` of the receiver's
proofs). `NothingLost` then is short: a 202 is appended, so it is in the log; below
the committed offset `CommittedIsDurable` gives its row, above it is ahead.
`Implements` maps each step to `Publish`, `Accept`, `Store` or a stutter.

**The API clients.** `Covered` says that a wait is no longer than the one the client
computes from the answer. One of those GitHub asked for is covered (`ToldIsCovered`),
while the answer waits, through the sleep and each `Tick`, up to the lead of the
clock. That the backoff without a header is a number no less than a minute needs `2 ^ attempt`
to be positive: it is the number of subsets of an interval. `RefusedOnce` is the life
of one undisturbed call: after a refusal the sleep reaches into the next window
(`ReachesReset`), where the allowance is whole. `ClientKeeps` reduces a step to its
own client. `PrimaryLimitIsWaitedOut` needs a client that may retry at all:
`max_rate_limit_retries` may be 0.

The type invariants of these modules, `GroupInv` and `ErrorMatchesStatus` are
conjuncts of the inductive invariants; the runs leave them to the proofs.

`IInv` of each module, `DeadLettersOwed`, `TablesComeFromLog`, `AlertInv`, `CountInv`,
`ArtifactInv` and `RejectedByNoRow` were checked by TLC as invariants of the run before
they were proved.

## 5. What is only model-checked

- Liveness under fairness, in every module: `EveryRecordCommitted`,
  `StaleRowIsAlerted`, `WindowIsCompleted`, `RowBecomesTerminal`,
  `EveryRequestAnswered`, `EveryCallEnds`, and what `KeepsPromise` says of the end
  (its safety is `Implements`). TLAPS 1.4 has no proof rules for fairness, nor for
  ENABLED. Every other property of a passing run is a theorem.
- The alerts of more than one monitor, which are not as `AlertsHaveRows` says: see
  section 6.
- The properties of the runs that expect a violation.
- What a recursive definition computes for every input is out of the provers'
  reach (induction over data); no module here has one.

## 6. Disagreements between code and documentation

- **`PrMonitor_same_second`** (`CloseCancelsAlert`). The watermark advances only
  for a strictly newer `updated_at` (`pr_storage.py:106`), and GitHub's times are
  whole seconds: a close in the second of the snapshot before it is discarded as
  stale, and the open row and its pending alert stay.
  `tests/integration/README.md:36` says that the monitor "cancels a pending
  alert when its PR closes". `CloseCancelsInOrder` shows that equal times are all it
  takes: without them, and with one monitor, it does.
- **`RestBackfill_early_end`** (`CompletedServesTotal`). An empty page before
  `total_count` is persisted with the next page number before the error is
  raised (`rest_backfill.py:119-124`); each retry starts one page further until
  the listing counts as completed. `docs/operations-runbook.md:258` says that "a
  failed page does not advance the cursor", and
  `tests/unit/test_rest_backfill.py:283` names the promise for one run.
- **`AnalyticsRefresh_no_row`** (`CallbackLeavesTerminalRow`). The callback's
  write is an UPDATE; when `begin_run` failed in every attempt there is no row to
  update. `airflow/dags/analytics_refresh.py:25` says it ensures "a terminal
  durable row". `CallbackCloses` shows that without orphans this is the only way: when
  there is a row, it is terminal after the callback.

Seen while modelling, and not a run of their own:

- With two monitors, one can sweep while the other commits a close: the close
  finds no alert to cancel, then the sweep's insert adds one, and it stays
  pending for a closed pull request (`pr_storage.py:202-235`).
  `PendingAlertHasOpenRow` and `AlertsAreForStaleRows` are therefore checked of
  one monitor, which is how the repository runs it.
- `docs/architecture.md:45-46` has the repository's full name as record key; the
  code uses its id (`G/webhook/kafka.py:72`). The models only need that the
  records of a delivery have one key.
- An error answer that reports the allowance used up is waited out until the reset
  (`graphql.py:104-109`, `rest.py:113-118`), and its retry-after header is not read.
  When a secondary limit reaches past the reset, the request is sent again while
  GitHub still asks to wait, although `graphql.py:48` has the client "honor GitHub
  rate-limit signals". `WaitsAsTold` says what is left: a single wait is kept, and one
  of two. A penalty of two and a window of one unit show it, if one asks for both.
- A runner can overwrite a checkpoint that another one has completed
  (`G/backfill/storage.py:81-88`); the traversal is then done again.

## 7. What is not modelled

- The wait loop of `dlq.py` is the one of `WebhookReceiver`, in a single thread; the
  consumers see its outcome only: acknowledged, or raised with the dead letter
  published or not. A dead letter that the broker appends after the publish has
  raised counts as appended at once, which no consumer can tell apart.
- dbt's SQL: each model is one statement over its inputs without a state of its
  own. The deduplication and the metric formulas are candidates for pure
  operators checked against a reference.
- Envelope and payload parsing, signatures, metrics, the contents of artifacts and
  error sanitising: text processing, abstracted to their verdicts.
- Clocks, other than the order of times the code compares and the lead of the API
  client's host. Jitter is a bounded delay.
- A dbt process that outlives its attempt. `OwnArtifactIsRead` is stated without
  orphans, since an orphan's command writes into the same directory.
- The UNIQUE constraint on repository and number of the open rows
  (`infra/init/003`, lines 60-61), by which one pull request's row may be refused for
  another's: GitHub gives no number twice. Of a record that is refused for its own
  data, see `Refused`.
- Dashboards, evidence reports, demo loading, container wiring, grants.

## 8. Plan

Done: the modules of section 2 in the order of their importance (consumers,
projection, traversals, API clients, ledger, receiver, and the pipeline that joins
receiver and writers), their runs, and the proofs of section 4, which now state every
safety property of a passing run. Next, in this order:

1. An abstract backfill, of which rows only grow and a listing counts as completed
   only when it is whole, that `GraphQLBackfill` and `RestBackfill` both implement, with
   the step simulations proved.
2. How much of `AlertsHaveRows` and of the ledger's agreement is left with a second
   monitor and with orphans, as theorems.
3. dbt's staging deduplication and metrics as pure operators.
