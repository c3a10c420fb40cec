# A TLA+ model of spanbarn

spanbarn ingests traces, logs and metrics (OTLP over HTTP and gRPC) and keeps
them in SQLite. A *reader* pod takes telemetry in and forwards it to Redis; one
*writer* pod drains Redis into SQLite, aggregates, applies retention and
evaluates alerts; a *standalone* pod does both. What is hard in it is the path of
a span, which crosses four in-memory buffers, a file, a Redis list, a staging
table and one writer goroutine, each with its own shutdown, retry and overload
behaviour, and the life of what is stored: counted, rolled up, copied, deleted,
moved between files, while pods restart between any two writes.

    Add -> [trace buffer] -> Out -> [ingest queue] -> [spool] -> forwarder
                                                                     |
                                              Redis write queue  <---+
                                                     |
             [RedisWorker] --staging--> spans_staging --> [StagingFlusher]
                   |                                             |
                   +--inline--> [write scheduler] -> SQLite <----+
                                                       |
             accumulators, rollups, retention, shards, checkpoints, alerts

## Modules

The path of a span:

| module | models | state, and what an action is |
| --- | --- | --- |
| `WriteScheduler` | `internal/writescheduler` | the two job channels, the goroutine of `Run`, one caller per `SubmitRows`; an action is one `select` or one half of `execute` |
| `TraceBuffer` | `internal/ingest/trace_buffer*.go` | the buffer under its lock, the decision memory, the carry tally, the flush in progress, `Out`; an action is `Add`, one eviction, or one locked or unlocked section of `flush` |
| `SpoolForwarder` | `internal/ingest` queue and handler, `internal/spool`, `internal/forward` | the queue, both spool files as sequences of lines, the cursor in memory and on disk; an action is a flush, a read, a publish, a cursor save, or a step of the shutdown |
| `WriteQueue`, `RedisLists` | `internal/queue`, `internal/worker/redis_worker*.go`, `cmd/spanbarn` consumers | the Redis lists, up to `MaxWriters` pods, the position of each consumer; an action is one Redis command, one insert attempt, or a pod event |
| `Delivery` | the promise of a write queue | accepted batches, open copies, times handled |
| `Staging` | `internal/worker` staging and classification, `internal/sampling`, `repo_spans_staging.go` | the rows of `spans_staging`, the flusher's ids and chunks, the floors; an action is an insert, one of the flusher's reads, one commit, one `AddBatch`, the GC |

What is counted:

| module | models |
| --- | --- |
| `Accumulators` | the four accumulators of `internal/aggregation` and the ledger `Tally`: take under the lock, write in chunks beside new counts, put back what failed, flush on stop |
| `MetricPoints` | the repeat filter in front of the raw metric points, and the rates, totals, chains and percentiles a chart derives from them |
| `MetricRollups` | what a metric value becomes in 5-minute slots and in the coarse rows the compactor merges |
| `ServiceStats` | the aggregates and the recent tail behind the service pages, and the standalone worker with its cursor |
| `SelfMetrics` | the pod's own `Recorder` and `Reporter` |

What is stored and deleted:

| module | models |
| --- | --- |
| `RollupTiers` | the ladders of coarser tiers: passes, watermarks, repairs, tier retention, planned reads |
| `Retention` | one retention cycle, write by write, with ingest, pins, caps, disk pressure and stops between the writes |
| `ShardFiles` | the time shards of the logs: open, insert, close, copy, retire, remove, reconcile, and the readers' pools |
| `SpansCutover` | the move of the spans to a file of their own, step by step, with stops, readers and a command beside it |
| `Checkpoints` | the write-ahead log: periodic and last checkpoints on the writer's connection, and readers during a recovery |
| `ReadCache` | `readCached`, `serveSWR`, the web-vitals cache |
| `Boards` | boards, panels, saved queries, calculated fields, and the pod's own board |

A pod and what it answers to:

| module | models |
| --- | --- |
| `Lifecycle` | start and stop of all four modes, with telemetry moving meanwhile |
| `Gates` | rate limiter, disk admission gate, log of refused keys |
| `WebSessions` | token-bound sessions: refresh, replicas, both logouts, revocation at the issuer |
| `Projects` | setup, approval, keys, seeding, deletion, and the last-used times |
| `Alerts` | threshold alerts and SLO burn alerts, counting, notifying, pruning, edits |
| `Exporters` | the SDK clients, the log and error exporters, the web page's telemetry |

`MC*.tla` give the constants small values, with one `.cfg` per run. `MCCounting`,
`MCStorage` and `MCPods` hold several components that share no state: `Init`
chooses one, which then runs while the others rest, so a behaviour of the run is a
behaviour of one component. `*_proofs`, `CountingLemmas` and `WriteQueueTheorems`
hold the theorems. `PROJECT.json` maps each definition to its source lines.

### How the model abstracts

* **Time.** A clock only where a duration matters (sessions, caches, rate limits,
  shards, retention, alerts), in the coarsest unit that keeps the order of the
  deadlines. Elsewhere a timer may fire whenever the code would let it. The one
  relation between durations that the queue relies on, `ReclaimDelay` longer than
  the pod's grace period, is a guard (`DelayPasses`), as the repository's own
  `deploy/k8s/graceful_stop_test.go` enforces it.
* **Sampling.** The hash of a trace id is a constant set of sampled traces; the
  hourly floor of the trace buffer and the ratio die of the writer are free
  choices. The writer's floors are modelled exactly (`Rescued`, `Admit`).
* **Data.** A span is a model value or a number with a trace and marks; a spool
  line is a record number or `Junk`; a batch is a model value; a count is named by
  the item it comes from; a row of a tier is the set of what was merged into it.
* **Locks.** A section under a mutex is one step unless another goroutine can
  act inside it. A write job of the scheduler is one step; a handler that reads,
  checks and then writes is two or more.
* **External.** Redis executes a list command atomically and may lose the reply.
  SQLite commits or does not; its log, snapshots and busy answers are taken from
  how the code uses them. The issuer of tokens rotates a refresh token with every
  grant and treats a second use as a replay. Kubernetes keeps one writer replica,
  but starts the next pod while the last one drains.
* **History variables** (marked in each module) record what the properties need
  and no guard reads them, except the named bounds.

## Runs

| run | question | result |
| --- | --- | --- |
| `write_scheduler` | may a caller be told `ErrStopped` for a write that runs; may low-priority writes starve a high one; does the shutdown abandon queued writes; does every `SubmitRows` return | holds |
| `trace_buffer` | one exit per span, every trace counted once through carriers, expiry and the span budget, error spans kept, one decision per clean trace, the cap, nothing left after the last flush | holds |
| `trace_buffer_live` | does `Drain` end without a receiver | holds |
| `spool` | does a record disappear without an error; is anything published twice or out of order; has a finished `Drain` delivered all; is every record published in the end | holds, but for a stale cursor |
| `spool_outage` | does a Redis outage lose nothing | **violated** |
| `queue` | does each consumer implement `Delivery`; once per delivery; no reclaim from under a writer; nothing given up by the ledger consumer; a metrics batch accumulated once per delivery; every batch handled in the end | holds |
| `queue_staging_full` | is a batch kept when only the disk is full | **violated** in staging mode |
| `staging` | is a span stored or counted twice; is a job over the row cap; does the hourly tier keep a trace of every operation; does every row leave staging | holds |
| `staging_race` | does every row reach the accumulator | **violated** |
| `counting` | is a count lost or doubled when a chunk of a flush fails; do filter, rollups and pages tell the growth that happened | holds |
| `storage` | is anything deleted before its copy or its coarser row exists, or read from a file that is gone; what do stops between two writes leave | holds, with the exceptions below |
| `pods` | does a stop keep what was accepted; do gates, sessions, keys, alerts and clients keep their promises under concurrent requests and faults | holds, with the exceptions below |

In the last three runs each component has one invariant that is the conjunction of
its properties (`RetentionSound`, `GatesSound`, ...); every conjunct is defined and
explained on its own in the component's module. `PROJECT.json` names one *mutant*
per property: a definition changed as a plausible bug would change it (`Def_What`,
just before `Def`), under which the property fails. The modules hold further
mutants of this form, at least one for each conjunct of a composed invariant.

### Where the code departs from its own description

Each violated run checks one sentence of the repository; `PROJECT.json` quotes it.

1. *Spool cursor after an empty read* (`spool_outage`). `Read` removes a finished
   `.old` and finds the current file empty; `forwardBatch` keeps the old cursor.
   When the next rotation creates a new `.old` the cursor points into its middle.
   The run `spool` marks such a cursor (`stale`) and shows that nothing else loses
   a record. A rotation over an unread `.old` drops records too, but logs it.
2. *Full disk in staging mode* (`queue_staging_full`). `stageWithRetry` takes it for
   a transient error and gives the batch up after `maxRetries`.
3. *Staging race* (`staging_race`). A whole-trace commit deletes rows that arrived
   after the read.

Other departures are exceptions written into properties that hold, each named in
the comment of its property:

* *Queue.* During a shutdown the requeue after a full disk runs on the cancelled
  context, and the batch is counted as failed (`DiskFullGivenUpAtShutdown`).
* *Trace buffer.* The reader closes it without waiting for the gRPC server; a span
  of a request still running (`InFlight`) stays in it. `nextVictim` consumes the
  queue entry of the trace being added to, so that trace can no longer be evicted.
* *Staging.* A floor counts a trace when it is classified, so after a failed commit
  the retry drops the trace it had rescued (`FloorKeepsOne`).
* *Accumulators.* Points added to the metric accumulator after its last flush, and
  the span rollups of standalone mode, are not written at exit. A reader's chunked
  ledger report that fails half-way is counted twice (`torn`).
* *Metric rollups.* The upsert of a cumulative histogram adds on conflict, so a
  writer restart doubles the snapshots of the bucket; interleaved totals that
  cross come out too small, never too large.
* *Tiers.* A week that ends in another month than it starts in belongs to the later
  month, and the earlier month's pass already releases its rows:
  `SummarisedBeforeDeleted` is not claimed of it.
* *Retention.* The delete of a part goes by the highest id of the part, the copy by
  the spans read: an error span that waited in staging gets a late id and can be
  deleted without a copy (`CopiedUnlessSwept`). Reading the retained keys and deleting
  the part are two steps, so pins and new errors come between them.
* *Checkpoints.* `vacuumFreed` after a `TRUNCATE` leaves frames in the log; a failing
  `PRAGMA busy_timeout = 0` that took effect registers no restore (`halfOff`, the
  exception of `TimeoutRestored`); a cancelled `recoverErr` leaves the stuck connection in the pool.
* *Cut-over.* During a new install's first start a reader can attach the spans file
  before `Migrate`, and a stop there leads to a single layout
  (`ReaderReadsAuthority` excepts `newInstall`).
* *Service pages.* Without an accumulator the spans of the last 90 s are counted in
  the aggregates and in the tail; a failed `SaveCursor` replays a batch.
* *Self metrics.* A failed export takes the latencies of its interval with it.
* *Shards.* Rows left in main are not read while shards are off; a pin after the
  protected logs were copied, or after `deleteProjectLogsFromShards` read the pins,
  does not save the logs (`ProtectedLogsSurvive`). A mark carries the start of its
  cycle, so a slow cycle leaves readers less than `shardDeleteDelay`
  (`PoolFilesExist`), and shards it left active past their window can exceed what a
  connection attaches, which then keeps the newest (`AttachLimit`).
* *Projects, boards.* Two setup requests for one slug may mint two keys; a crash in
  `EnsureBoard` leaves a half-built board, which the next start keeps.
* *Sessions.* A failure between the grant and the store (a lost answer, a failed
  write) spends a refresh token whose successor is lost, and the retry is a replay
  (`NoReplay`). A failed mark of a refresh failure is ignored, and the grace starts
  again with the next one (`ServedWithinGrace`).
* *Clients.* A Python batch that cannot be encoded ends the flush thread, and what is
  queued stays there (`ShutdownDelivers`). BugBarn counts an event as dropped when the
  answer was lost, although it may have arrived (`DropsCounted`).
* *Alerts.* A span that waited in staging lands in a minute that may have been counted
  already (`CountsExact`). A failing list of alerts lets the pruning run as if it were complete;
  disabling a firing alert leaves it recorded as firing.
* *Pods.* After a server error nothing is drained; the HTTP listener outlives the
  schedulers; gRPC requests are not waited for; `SafeGo` does not restart what it
  recovers.

### Bounds

* `WriteScheduler`: two jobs per priority and one-slot channels, so a channel can
  be full, hold a job behind a running one, and receive one after `drain` passed.
* `TraceBuffer`: loads of two or three traces of up to two spans over a cap of two
  spans and two remembered decisions: eviction, rescue, refusal, overshoot, held
  and late spans, forgotten decisions, carriers inside and outside the budget all
  occur. One operation is enough, as the carry tally treats keys independently but
  for the shared span budget.
* `SpoolForwarder`: four records in batches of two, files that rotate after two
  lines, so a rotation can meet an unread `.old`; one crash. A lost reply of
  `Publish` is limited to the first batch, and to the one a shutdown interrupts.
* `WriteQueue`: two batches, two pods, two Redis faults or kills, two failing
  inserts with two attempts. A batch is delivered up to four times.
* `Staging`: three spans in two traces, three rows (so a replay and a second part
  can occur), a cap of two rows (a trace of two rows that is stored is cut into
  parts), one fault. `staging_race` has four rows and a cap no trace reaches.
* `Accumulators`: three items in two buckets, one row per chunk, so a flush has
  several chunks and any of them fails; caps of one service and one name.
* `MetricPoints`, `MetricRollups`: six and nine ticks over heartbeats and buckets
  of two, three process starts, two failing inserts.
* `RollupTiers`: ten fine buckets under tiers of two and of three to five, so
  windows close, straddle, arrive late and are deleted within a behaviour.
* `Retention`: three spans of two traces with windows of one to four ticks, parts of
  one span, one stop, one pin; spans arrive at the times `RetArrivals` gives.
* `ShardFiles`: three logs over six refresh intervals, one of them under a log cap,
  three attached files, cycles of up to three intervals (`CycleMax`), one stop: long
  enough for a shard to be created, retired, removed, missed and marked late.
* `SpansCutover`: three rows copied in batches of two, three stops, two deletes.
* `Checkpoints`: two frames, two reads, one fault; the bounds on readers and reads
  limit how often, not in which order, they meet the log.
* `ReadCache`: two requests, one slot, a clock one past the longest a cached answer
  may live.
* The two requests of `storage` and the two of `pods` are interchangeable
  (`SYMMETRY`).
* `Boards`, `Projects`, `WebSessions`: two requests that interleave, two projects or
  boards, one fault; `Gates`: three fingerprints over two entries, a bucket of two
  tokens over seven refills, so a bucket is removed and made again.
* `Alerts`: seven half minutes over buckets of two, one failing write or
  notification or one edit, spans stored at once, a lag late, or staged for three half
  minutes (`StageWindow`); a span is late only where that crosses a bucket's end.
  `Exporters`: five items over a queue of two, one failed, lost or raising request.
* `Lifecycle`: two items and one fault, in each of the four modes.

`CHECK_DEADLOCK FALSE` is set where the modelled system ends: a stopped
scheduler, a drained reader, a bounded supply of rows or time, an exited pod, and
a consumer goroutine that a panic has ended.

### Fairness

* Goroutines are scheduled: weak fairness of `Run`, of a submitted `SubmitRows`, of
  the flush and forwarder loops (tickers), of a consumer and of the flusher.
* `SF(GCDone)` and `SF` of the step to `finishing`: Go's `select` chooses among ready
  cases at random, so the stop channel is taken in the end although the ticker
  fires too, and `Drain`'s deadline passes.
* `SF(Publish \/ PublishFull)`: an outage of Redis does not last for ever.
* `Start`, `Exit`, `DelayPasses`, `Grow`: the kubelet replaces pods, time passes.
* `FlusherMoves` stands for a step of `Flush` by its effect on the flusher's position,
  which no other step without a fault has; it is guarded so that it is possible
  only when `Flush` is.
* Nothing has to be submitted, cancelled, published, crashed or received.

The runs `counting`, `storage` and `pods` check safety only and assume no fairness.

## Proofs

Each theorem holds for every value of the constants that satisfies the named
assumption of its module; the assumptions say that bounds are natural numbers,
that sizes, lifetimes and capacities are positive, for the accumulators also that the
items are finitely many, and nothing else. The runs check
the same inductive invariants on their instances.

**Write scheduler** (`WriteScheduler_proofs`). `Inductive`: `IInv` is an invariant for
every set of jobs and every channel capacity. From it: `HighPriorityBound` (a queued
high-priority write waits for at most one low-priority one), `StoppedIsFinal` (a
write answered with `ErrStopped` never runs), `ShutdownDrains` (what was queued when
the context ended has run before `stopped` is closed). None of the three is
inductive. The bound needs that a job standing in `highPri` has waited for nothing
while `Run` is at a `select` that may take a low-priority job: it came after the
outer select looked, or `Run` would have taken it. `StoppedIsFinal` needs that
whatever ran has a result or is in flight, so the nested `select` on `resultCh` sees
it. `ShutdownDrains` needs to know what of `owed` may still be queued at each stage
of `drain`.

**Write queue** (`CountingLemmas`, `WriteQueue_proofs`, `WriteQueueDelivery_proofs`,
`WriteQueueTheorems`; `Delivery` in `Accounts_proofs`), for any number of writers, batches, retries,
faults and errors and each of the five consumers:

* `DeliveredOnce`: `OncePerDelivery`, the inductive invariant of the queue;
* `QueueImplementsDelivery`: every step of the queue is a step of `Delivery` or leaves
  it as it is; `PublishedNeverLost`: nothing published is lost, which
  `AcceptedIsNeverLost` proves of `Delivery` itself;
* `NeverGivenUpWrongly`: `GivenUpRightly`.

The argument counts. `DeliveriesInv` says that the entries of a batch on the three
lists, less those whose writer has already handled it (`Copies`), and the times it
was handled add up to one delivery for its publisher and one for each time an entry
was left behind (`unacked`). A step changes that sum by one of seven effects
(`StepEffects`), found by counting occurrences in a list and writers in a stage:
`CountingLemmas` says what a push, an LMOVE and an LREM do to the first and what the
move of one writer does to the second. The sum alone is not inductive: a writer
takes an entry off when it acks, so each writer needs an entry of its own
(`HeldStaysListed`), a reclaim must not take it away, which rests on the order of the
pods (`StagesInv`: a writer reclaims only once every earlier one is gone), and the
accumulator of the metrics consumer owes a store for each time it was fed
(`AccumulatedInv`).

**Database files** (`DatabaseFiles_proofs`).

* `CheckpointInvariant`: `CheckpointsSound` for any set of readers and any sequence of
  writes, faults and stops; from it `ConnectionReturned` (however an attempt
  that turned the busy timeout off ends, the writer's connection is in the pool with
  it on, and waits for no longer than one `TRUNCATE`; excepted is a `PRAGMA` that took
  effect and reported an error),
  `LogMerged` (a last checkpoint without trouble leaves nothing in the log) and
  `StatementServed` (a query that meets no recovery is served). The strengthening ties
  the busy timeout to the stage of an attempt, bounds what can be added to the log
  after the backfill, and says what an error of an attempt stands for.
* `CutoverInvariant`: `CutoverSound` for any rows and any batch size, with a stop after
  every step; from it `NothingLost`, `ReadersServed`, and `CommitPoint`: main gives up
  tables that hold rows in one step only, and then a finished copy has the same rows
  and the same id counter. The strengthening (`StageInv`, `LayoutInv`, `IdsInv`,
  `ReadersInv`) says which of the three files the next start goes by at each stage,
  and that its id counter is past every id given out.

**Gates** (`Gates_proofs`). `GatesInvariant`: `GatesSound` for any clients, bucket size
and lifetimes; from it `RateLimitHolds` and `FullVolumeShut`. The window property of
the limiter speaks of any two allowed requests and is not inductive, as a bucket
forgets its past: `BucketInv` says that whatever a client got since any of its
requests is paid for by the tokens missing from its bucket and the refills so far,
or, once the bucket was removed as idle, by the time that passed. The disk gate needs
that the cached reading is that of the last probe that worked (`ReadingInv`).

**Accumulators** (`Accounts_proofs`), for any items, buckets, caps, chunk size and number
of failing writes, and each kind of accumulator. `AccountsInvariant`: `AccountsBalance`;
from it `CountedOnce` (a count is in memory, on its way, stored or reported lost, in one
place only, unless a report was torn) and `ExitForgetsNothing`. The balance alone is not
inductive. `FlightInv` says that what a flush has not written yet is among its rows, so
a failure puts back all of it, that rows exist only while a flush runs, and that the
writer's ledger is written whole; `LastFlushInv`, what is empty once the producers or a
loop have ended; `MarksInv`, that the marker of a bucket is stored or travels with its
calls, which rests on the order of the rows: a marker sorts before every other row of
its bucket (`MarkerFirst`), so no chunk takes the calls without it; `CapsInv`, that the
names a row was given are counted in the caps until their hour is pruned, which bounds
the rows of an hour (`RowsWithinCaps`).

### What is only model-checked

* Every liveness property: fairness and `ENABLED` are outside the prover.
* The other components. Their properties rest on folds over sequences and sets (the
  chunks of `Staging`, the evictions of `TraceBuffer`, percentiles and totals in
  `MetricPoints`, `MetricRollups`, `SelfMetrics`, the tiers of `RollupTiers`), which need
  induction over data, or on a few requests and a bounded clock where the instances
  already hold the cases (`Lifecycle`, `Boards`, `Projects`, `WebSessions`, `Exporters`).

## What is not modelled

`PROJECT.json` lists every part of the repository under `components` with what of it is
modelled, and every hazard under `hazards` with the properties that cover it. Left
out: migrations and database copies (run alone, by an operator or at start), the
live tail (lossy by design), configuration and models, the command-line client, the
benchmark and the manifests; and of the parts that are modelled, decoding, routing,
read-only queries and SQL, the web UI beyond its telemetry, logging and tracing.
