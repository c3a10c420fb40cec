----------------------------- MODULE ShardFiles -----------------------------
(***************************************************************************)
(* The time-shard files of the logs family: the writer's ShardManager      *)
(* (shards.go, shards_expire.go, shards_reconcile.go), retention of whole  *)
(* files with the copy of protected logs (repo_shard_expiry.go,            *)
(* repo_shard_keep.go), main's own table (main_retire.go), and the read    *)
(* pools of the readers (shard_read.go).                                   *)
(*                                                                         *)
(* A shard is named by the start of its period.  Time is counted in read-  *)
(* pool refresh intervals.  The family's queue runs one job at a time; an  *)
(* insert picks its handle when it runs (shardJob).  The worker's steps on *)
(* the queue wait for it.                                                  *)
(***************************************************************************)
EXTENDS Integers, FiniteSets

CONSTANTS
    ShLogs,        \* the log rows
    SampledLogs,   \* those of error-sampled traces
    OldLogs,       \* those main held before shards were turned on
    ShMaxTime,     \* bound on the clock
    ShArrivals,    \* the times at which each log may arrive
    ShPinnable,    \* the logs whose trace may be pinned
    InsertMax,     \* bound on the time an insert takes
    MaxShardFiles, \* the files a family may need at once
    CreateLead, EndedCloseDelay, ShardDeleteDelay, PoolCloseDelay,
    LogCutoff,     \* the retention window of the logs
    PressedCutoff, \* the window the disk ladder leaves
    CappedLogs,    \* the logs of the project with a log cap
    LogCapWindow,     \* that cap (retention.log_hours.project.{id})
    CycleMax,      \* bound on the time a cycle takes
    MaxAttached,   \* the files a connection can attach
    MaxShStops     \* bound on crashes, failed cycles and refreshes, and reclaims

ASSUME ShardAssumption ==
    /\ {CreateLead, EndedCloseDelay, PoolCloseDelay, LogCutoff, PressedCutoff, LogCapWindow} \subseteq Nat \ {0}
    /\ MaxShardFiles \in Nat \ {0, 1}
    \* shardDeleteDelay outlasts a failed refresh, the refresh after it and
    \* the delay after which the replaced pool is closed.
    /\ ShardDeleteDelay > PoolCloseDelay + 2
    /\ SampledLogs \cup OldLogs \cup ShPinnable \cup CappedLogs \subseteq ShLogs

VARIABLES
    shClock, shardsOn,
    files,       \* the shard files on disk
    shardState,  \* main's shards table: "none", "active" or "retiring" by period
    retiringAt,
    openHandles, closers, \* handles in the map; ended handles on their way to be closed
    creating,    \* a file that is open but not recorded yet (m.mu is held)
    shardJob,    \* the insert that runs on the family's queue
    inShard,     \* the shard that holds a log's row
    inMain, keptLogs,
    mainTable, mainRetiredAt,
    logAt,       \* when a log was ingested
    pinnedLogs,
    expiry,      \* the retention worker
    pool, oldPools, refreshedAt,
    shStops,
    arrivedAt,   \* when its shard was picked
    pressed, tooLate, lateMarks \* history

shVars == <<shClock, shardsOn, files, shardState, retiringAt, openHandles, closers, creating, shardJob, inShard,
            inMain, keptLogs, mainTable, mainRetiredAt, logAt, pinnedLogs, expiry, pool, oldPools, refreshedAt,
            shStops, arrivedAt, pressed, tooLate, lateMarks>>

\* The parts of the state that most steps leave alone together.
tableVars == <<files, shardState, retiringAt>>
handleVars == <<openHandles, closers, creating, shardJob>>
rowVars == <<inShard, inMain, keptLogs, logAt, arrivedAt>>
mainVars == <<mainTable, mainRetiredAt>>
readerVars == <<pool, oldPools, refreshedAt>>
historyVars == <<pressed, tooLate, lateMarks>>
outerVars == <<shClock, shardsOn, shStops, pinnedLogs, historyVars>>

NoShard == -1
NoInsert == [log |-> NoShard, period |-> NoShard, since |-> NoShard]

\* Mutant: the current period is not counted.
NewShardSpec_NoCurrent(units) == (units + MaxShardFiles - 1) \div MaxShardFiles

\* newShardSpec: the shortest period at which the window plus the current
\* period fit in MaxShardFiles files.
NewShardSpec(units) == (units + MaxShardFiles - 2) \div (MaxShardFiles - 1)

PeriodLength == NewShardSpec(LogCutoff)

\* shardSpec.start, and the periods that matter.
PeriodStart(t) == (t \div PeriodLength) * PeriodLength
PeriodEnd(p) == p + PeriodLength
Periods == {PeriodStart(t) : t \in 0..(ShMaxTime + CreateLead)}
Active == {p \in Periods : shardState[p] = "active"}

Resting == [pc |-> "idle", now |-> NoShard, cut |-> 0, todo |-> {}, at |-> NoShard, pins |-> {},
            reclaim |-> FALSE, done |-> FALSE]

\* openShardManager: a new shards directory, beside a main that may hold rows.
ShInit ==
    /\ shClock = 0 /\ shardsOn = TRUE
    /\ files = {0} /\ shardState = [p \in Periods |-> IF p = 0 THEN "active" ELSE "none"]
    /\ retiringAt = [p \in Periods |-> NoShard]
    /\ openHandles = {0} /\ closers = {} /\ creating = NoShard /\ shardJob = NoInsert
    /\ inShard = [i \in ShLogs |-> NoShard] /\ inMain = OldLogs /\ keptLogs = {}
    /\ mainTable = "held" /\ mainRetiredAt = NoShard
    /\ logAt = [i \in ShLogs |-> IF i \in OldLogs THEN 0 ELSE NoShard]
    /\ arrivedAt = logAt
    /\ pinnedLogs = {} /\ expiry = Resting
    /\ pool = [files |-> {}, main |-> TRUE] /\ oldPools = {} /\ refreshedAt = NoShard
    /\ shStops = 0 /\ pressed = FALSE /\ tooLate = {} /\ lateMarks = {}

\* Steps of the other goroutines commute with the worker's, except here.
Racing == IF expiry.pc = "idle" THEN ~expiry.done \/ expiry.now # shClock
          ELSE expiry.pc \in {"mark", "trim", "remove", "unlink"}

\* The cap waits for the queue, and a pin may still come.
Overtaken == Racing \/ expiry.pc = "capShards"

\* ... which takes time where the insert before it may outlast its period.
CapWaits ==
    /\ expiry.pc = "capShards" /\ shardJob # NoInsert
    /\ shardJob.since + InsertMax >= PeriodEnd(shardJob.period) + EndedCloseDelay

\* After a cycle, or beside one that waits, the readers' refresh comes first:
\* closes commute with it.
Refreshed == (expiry.pc = "idle" \/ CapWaits) /\ refreshedAt = shClock

\* keepLogs has read the shard, or will not read it again.
CopyTaken(p) == shardState[p] = "retiring" \/ (expiry.pc \in {"mark", "trim"} /\ expiry.at = p)

-----------------------------------------------------------------------------
(* Inserts and the manager's own loop. *)

\* shard: the file of the current period, or of the one that starts within
\* shardLead, is created and migrated ...
OpenShardFile(p) ==
    /\ Racing /\ shardsOn /\ creating = NoShard /\ p \notin openHandles
    /\ p \in {PeriodStart(shClock), PeriodStart(shClock + CreateLead)}
    /\ files' = files \cup {p} /\ creating' = p
    /\ UNCHANGED <<shardState, retiringAt, openHandles, closers, shardJob, expiry>>
    /\ UNCHANGED <<outerVars, rowVars, mainVars, readerVars>>

\* ... before its row is recorded (INSERT OR IGNORE).
RecordShard ==
    /\ Overtaken /\ creating # NoShard
    /\ shardState' = [shardState EXCEPT ![creating] = IF @ = "none" THEN "active" ELSE @]
    /\ openHandles' = openHandles \cup {creating} /\ creating' = NoShard
    /\ UNCHANGED <<files, retiringAt, closers, shardJob, expiry>>
    /\ UNCHANGED <<outerVars, rowVars, mainVars, readerVars>>

\* submit: the shard is picked inside the queued write.
PickShard(i) ==
    /\ Racing /\ shardsOn /\ creating = NoShard /\ shardJob = NoInsert
    /\ logAt[i] = NoShard /\ shClock \in ShArrivals[i]
    /\ PeriodStart(shClock) \in openHandles
    /\ shardJob' = [log |-> i, period |-> PeriodStart(shClock), since |-> shClock]
    /\ arrivedAt' = [arrivedAt EXCEPT ![i] = shClock]
    /\ UNCHANGED <<openHandles, closers, creating, expiry, inShard, inMain, keptLogs, logAt>>
    /\ UNCHANGED <<outerVars, tableVars, mainVars, readerVars>>

InsertRow ==
    /\ Overtaken /\ shardJob # NoInsert
    /\ tooLate' = IF CopyTaken(shardJob.period) THEN tooLate \cup {shardJob.log} ELSE tooLate
    /\ inShard' = [inShard EXCEPT ![shardJob.log] = shardJob.period]
    /\ logAt' = [logAt EXCEPT ![shardJob.log] = shClock]
    /\ shardJob' = NoInsert
    /\ UNCHANGED <<inMain, keptLogs, arrivedAt, openHandles, closers, creating, expiry>>
    /\ UNCHANGED <<shClock, shardsOn, shStops, pinnedLogs, pressed, lateMarks, tableVars, mainVars, readerVars>>

\* execIngest without shards.
InsertMain(i) ==
    /\ Racing /\ ~shardsOn /\ logAt[i] = NoShard /\ shClock \in ShArrivals[i]
    /\ inMain' = inMain \cup {i} /\ logAt' = [logAt EXCEPT ![i] = shClock]
    /\ arrivedAt' = [arrivedAt EXCEPT ![i] = shClock]
    /\ UNCHANGED <<inShard, keptLogs, expiry>>
    /\ UNCHANGED <<outerVars, tableVars, handleVars, mainVars, readerVars>>

Ended == {p \in openHandles : shClock >= PeriodEnd(p) + EndedCloseDelay}

\* closeEnded takes the handles of ended periods out of the map (and has them
\* closed, when nothing is on the queue) ...
CloseEnded ==
    /\ Refreshed \/ expiry.pc \in {"mark", "trim", "remove"}
    /\ creating = NoShard /\ Ended # {}
    /\ openHandles' = openHandles \ Ended /\ closers' = IF shardJob = NoInsert THEN closers ELSE closers \cup Ended
    /\ UNCHANGED <<creating, shardJob, expiry>>
    /\ UNCHANGED <<outerVars, tableVars, rowVars, mainVars, readerVars>>

\* Mutant: the handle is closed beside the queue.
CloseShard_NoBarrier(p) ==
    /\ Refreshed \/ expiry.pc \in {"mark", "trim", "remove"}
    /\ p \in closers
    /\ closers' = closers \ {p}
    /\ UNCHANGED <<openHandles, creating, shardJob, expiry>>
    /\ UNCHANGED <<outerVars, tableVars, rowVars, mainVars, readerVars>>

\* ... and closeAfterQueues closes each one once a barrier has gone through
\* the family's queue.
CloseShard(p) ==
    /\ Refreshed \/ expiry.pc \in {"mark", "trim", "remove"}
    /\ p \in closers /\ shardJob = NoInsert
    /\ closers' = closers \ {p}
    /\ UNCHANGED <<openHandles, creating, shardJob, expiry>>
    /\ UNCHANGED <<outerVars, tableVars, rowVars, mainVars, readerVars>>

-----------------------------------------------------------------------------
(* Retention of whole files. *)

WorkerStep == UNCHANGED <<outerVars, mainVars, readerVars>>

\* ShardManager.writable: inserts may still reach the shard.
Writable(p, now) == p >= PeriodStart(now)

\* A log is protected by a pin or by a recent error sample (logProtectedSQL).
ShProtected(i) == i \in SampledLogs \cup pinnedLogs

CycleDue == expiry.pc = "idle" /\ ~(expiry.done /\ expiry.now = shClock)

\* RunOnce takes its now, and the cutoffs from it, before anything else.
BeginCycle == [Resting EXCEPT !.now = shClock, !.cut = shClock - LogCutoff]

\* A cycle past the critical watermark: reclaim runs first, with a now it
\* takes itself (in the same interval).
ReclaimCycle ==
    /\ CycleDue /\ shardsOn /\ shStops < MaxShStops
    /\ shStops' = shStops + 1 /\ pressed' = TRUE
    /\ expiry' = [Resting EXCEPT !.pc = "reclaim", !.reclaim = TRUE, !.now = shClock, !.cut = shClock - PressedCutoff]
    /\ UNCHANGED <<shClock, shardsOn, pinnedLogs, tooLate, lateMarks>>
    /\ UNCHANGED <<tableVars, handleVars, rowVars, mainVars, readerVars>>

\* RetireOldestShard: the oldest active shard that inserts no longer reach.
RetireOldestShard ==
    /\ expiry.pc = "reclaim"
    /\ LET old == {p \in Active : ~Writable(p, expiry.now)} IN
       expiry' = IF old = {} THEN [expiry EXCEPT !.pc = "trimMain"]
                 ELSE [expiry EXCEPT !.pc = "keep", !.at = CHOOSE p \in old : \A q \in old : p <= q]
    /\ UNCHANGED <<tableVars, handleVars, rowVars>> /\ WorkerStep

\* DeleteLogsOlderThan, on main's logs and on kept_logs.
TrimMainLogs ==
    /\ CycleDue \/ expiry.pc = "trimMain"
    /\ LET cycle == IF CycleDue THEN BeginCycle ELSE expiry
           stays(i) == logAt[i] >= cycle.cut \/ ShProtected(i)
       IN /\ inMain' = {i \in inMain : stays(i)} /\ keptLogs' = {i \in keptLogs : stays(i)}
          /\ expiry' = IF shardsOn
                       THEN [cycle EXCEPT !.pc = "expire", !.reclaim = FALSE, !.at = NoShard,
                                          !.todo = {p \in Periods : shardState[p] # "none"}]
                       ELSE [cycle EXCEPT !.pc = "capMain"]
    /\ UNCHANGED <<inShard, logAt, arrivedAt, tableVars, handleVars>> /\ WorkerStep

\* Mutant: a shard is retired when its period starts before the cutoff.
Expired_Start(p) == p <= expiry.cut /\ ~Writable(p, expiry.now)

\* expireShard: a shard that ended before the cutoff is retired.
Expired(p) == PeriodEnd(p) <= expiry.cut /\ ~Writable(p, expiry.now)

\* Mutant: a retiring shard goes in the next cycle.
RemoveDue_Next(p) == shardState[p] = "retiring" /\ expiry.now > retiringAt[p]

RemoveDue(p) == shardState[p] = "retiring" /\ expiry.now - retiringAt[p] >= ShardDeleteDelay

\* A window shorter than a period is kept by trimming the shard it cuts.
TrimDue(p) == /\ expiry.now - expiry.cut < PeriodLength
              /\ p < expiry.cut /\ expiry.cut < PeriodEnd(p)

\* The step a listed shard needs.
ShardStep(p) == CASE RemoveDue(p) -> "remove"
                  [] shardState[p] = "active" /\ Expired(p) -> "keep"
                  [] shardState[p] = "active" /\ ~Expired(p) /\ TrimDue(p) -> "keepTrim"
                  [] OTHER -> "none"

Due == {p \in expiry.todo : ShardStep(p) # "none"}

\* ExpireShards: the next of the shards listed at its start that needs a step.
ExpireShard ==
    /\ expiry.pc = "expire" /\ Due # {}
    /\ LET p == CHOOSE x \in Due : \A y \in Due : x <= y IN
       expiry' = [expiry EXCEPT !.pc = ShardStep(p), !.at = p, !.todo = {q \in @ : q > p}]
    /\ UNCHANGED <<tableVars, handleVars, rowVars>> /\ WorkerStep

\* Mutant: the file goes without a copy of its protected logs.
KeepLogs_None ==
    /\ expiry.pc \in {"keep", "keepTrim"}
    /\ expiry' = [expiry EXCEPT !.pc = IF @ = "keep" THEN "mark" ELSE "trim"]
    /\ UNCHANGED <<tableVars, handleVars, rowVars>> /\ WorkerStep

\* keepLogs: the protected logs of the shard (before the cutoff, when it is
\* only trimmed) are copied to kept_logs, on main's queue.
KeepLogs ==
    /\ expiry.pc \in {"keep", "keepTrim"}
    /\ keptLogs' = keptLogs \cup {i \in ShLogs : /\ inShard[i] = expiry.at /\ ShProtected(i)
                                                 /\ expiry.pc = "keepTrim" => logAt[i] < expiry.cut}
    /\ expiry' = [expiry EXCEPT !.pc = IF @ = "keep" THEN "mark" ELSE "trim"]
    /\ UNCHANGED <<inShard, inMain, logAt, arrivedAt, tableVars, handleVars>> /\ WorkerStep

\* The loop that retired the shard goes on: reclaim (which may have freed
\* enough) or ExpireShards.
AfterMark == IF expiry.reclaim THEN {"reclaim", "trimMain"} ELSE {"expire"}

\* A mark whose now is older than this many intervals lets the file go before
\* the readers have let go of it.
MarkSlack == ShardDeleteDelay - PoolCloseDelay - 2

\* markRetiring stamps the now of the cycle's start.
MarkRetiring ==
    /\ expiry.pc = "mark"
    /\ shardState' = [shardState EXCEPT ![expiry.at] = "retiring"]
    /\ retiringAt' = [retiringAt EXCEPT ![expiry.at] = expiry.now]
    /\ \E next \in AfterMark : expiry' = [expiry EXCEPT !.pc = next]
    /\ lateMarks' = IF shClock - expiry.now > MarkSlack THEN lateMarks \cup {expiry.at} ELSE lateMarks \ {expiry.at}
    /\ UNCHANGED <<shClock, shardsOn, shStops, pinnedLogs, pressed, tooLate>>
    /\ UNCHANGED <<files, handleVars, rowVars, mainVars, readerVars>>

\* Logs that leave a shard.
DropRows(gone) ==
    /\ inShard' = [i \in ShLogs |-> IF i \in gone THEN NoShard ELSE inShard[i]]
    /\ UNCHANGED <<inMain, keptLogs, logAt, arrivedAt>>

\* trimShard, on the family's queue; it opens the shard again if it was closed.
TrimShard ==
    /\ expiry.pc = "trim" /\ shardJob = NoInsert /\ creating = NoShard
    /\ openHandles' = openHandles \cup {expiry.at}
    /\ DropRows({i \in ShLogs : inShard[i] = expiry.at /\ logAt[i] < expiry.cut})
    /\ expiry' = [expiry EXCEPT !.pc = "expire"]
    /\ UNCHANGED <<closers, creating, shardJob, tableVars>> /\ WorkerStep

\* remove: the handle is closed on the queue, ...
RemoveHandle ==
    /\ expiry.pc = "remove" /\ creating = NoShard
    /\ expiry.at \in openHandles => shardJob = NoInsert
    /\ openHandles' = openHandles \ {expiry.at}
    /\ expiry' = [expiry EXCEPT !.pc = "unlink"]
    /\ UNCHANGED <<closers, creating, shardJob, rowVars, tableVars>> /\ WorkerStep

\* ... the file is deleted, ...
RemoveFile ==
    /\ expiry.pc = "unlink"
    /\ files' = files \ {expiry.at}
    /\ DropRows({i \in ShLogs : inShard[i] = expiry.at})
    /\ expiry' = [expiry EXCEPT !.pc = "forget"]
    /\ UNCHANGED <<shardState, retiringAt, handleVars>> /\ WorkerStep

\* ... then its row.
ForgetShard ==
    /\ expiry.pc = "forget"
    /\ shardState' = [shardState EXCEPT ![expiry.at] = "none"]
    /\ expiry' = [expiry EXCEPT !.pc = "expire"]
    /\ UNCHANGED <<files, retiringAt, handleVars, rowVars>> /\ WorkerStep

\* dropRetiredTable: a table that has rows again is only forgotten.
DropRetiredTable == IF inMain = {} THEN "dropped" ELSE "held"

\* retireMainTable: main's table goes in two steps once it is empty.
RetireMainTables ==
    /\ expiry.pc = "expire" /\ Due = {}
    /\ mainTable' = CASE mainTable = "held" /\ inMain = {} -> "retired"
                      [] mainTable = "retired" /\ expiry.now - mainRetiredAt >= ShardDeleteDelay -> DropRetiredTable
                      [] OTHER -> mainTable
    /\ mainRetiredAt' = IF mainTable = "held" /\ inMain = {} THEN expiry.now ELSE mainRetiredAt
    /\ expiry' = [expiry EXCEPT !.pc = "capMain"]
    /\ UNCHANGED <<outerVars, tableVars, handleVars, rowVars, readerVars>>

CycleDone == [Resting EXCEPT !.now = expiry.now, !.done = TRUE]

\* The capped project's logs that are past its cap.
PastCap == {i \in CappedLogs : logAt[i] # NoShard /\ logAt[i] < expiry.now - LogCapWindow}

\* DeleteProjectLogsOlderThan: main's own tables first, each delete looking
\* the pins up itself; then the shards are listed and the pins read, once.
CapMainLogs ==
    /\ expiry.pc = "capMain"
    /\ inMain' = inMain \ (PastCap \ pinnedLogs) /\ keptLogs' = keptLogs \ (PastCap \ pinnedLogs)
    /\ LET listed == {p \in Periods : shardState[p] # "none" /\ p <= expiry.now - LogCapWindow} IN
       expiry' = IF shardsOn /\ listed # {}
                 THEN [expiry EXCEPT !.pc = "capShards", !.todo = listed, !.pins = pinnedLogs]
                 ELSE CycleDone
    /\ UNCHANGED <<inShard, logAt, arrivedAt, tableVars, handleVars>> /\ WorkerStep

\* deleteProjectLogsFromShards, on the queue: the listed shards, opened again
\* if they were closed, lose the logs that none of the pins read above spares.
\* (A pin that comes between two shards comes before or after each log's delete.)
CapShards ==
    /\ expiry.pc = "capShards" /\ shardJob = NoInsert /\ creating = NoShard
    /\ openHandles' = openHandles \cup expiry.todo
    /\ DropRows({i \in PastCap \ expiry.pins : inShard[i] \in expiry.todo})
    /\ expiry' = CycleDone
    /\ UNCHANGED <<closers, creating, shardJob, tableVars>> /\ WorkerStep

\* A cycle that fails, or is stopped, is given up where that leaves half of
\* a step behind; runWithRetry and the next interval start over with a new now.
CycleFails ==
    /\ expiry.pc \in {"mark", "trim", "unlink", "forget"} /\ shStops < MaxShStops
    /\ shStops' = shStops + 1 /\ expiry' = Resting
    /\ UNCHANGED <<shClock, shardsOn, pinnedLogs, historyVars>>
    /\ UNCHANGED <<tableVars, handleVars, rowVars, mainVars, readerVars>>

-----------------------------------------------------------------------------
(* Readers, pins, crashes and time. *)

\* mainHolds.
MainHolds == mainTable = "held"

\* Mutant: a refresh keeps the shards that are retiring.
ActiveShards_Listed == {p \in Periods : shardState[p] # "none"}

\* activeShards.
ActiveShards == Active

\* The newest of them, as many as a connection can attach.
Attached == {p \in ActiveShards : Cardinality({q \in ActiveShards : q > p}) < MaxAttached}

\* sources, viewSQL: what the family's view unites.
FamilyView == [files |-> Attached, main |-> MainHolds]

\* refreshFamily: a changed list swaps the pool; the old one is closed later.
RefreshPool ==
    /\ refreshedAt # shClock /\ (Racing \/ CapWaits \/ expiry.pc = "idle")
    /\ refreshedAt' = shClock
    /\ pool' = FamilyView
    /\ oldPools' = IF FamilyView = pool THEN oldPools
                   ELSE oldPools \cup {[files |-> pool.files, until |-> shClock + PoolCloseDelay]}
    /\ UNCHANGED <<outerVars, tableVars, handleVars, rowVars, mainVars, expiry>>

\* A refresh that fails leaves the pools as they are.
RefreshFails ==
    /\ refreshedAt # shClock /\ shStops < MaxShStops /\ (Racing \/ expiry.pc = "idle")
    /\ shStops' = shStops + 1 /\ refreshedAt' = shClock
    /\ UNCHANGED <<shClock, shardsOn, pinnedLogs, historyVars, pool, oldPools>>
    /\ UNCHANGED <<tableVars, handleVars, rowVars, mainVars, expiry>>

\* A pin comes too late for a log whose copy has been taken or skipped, and
\* for one past the cap of its project once the cap has read the pins.
PinTooLate(i) ==
    /\ i \notin inMain \cup keptLogs
    /\ inShard[i] # NoShard => CopyTaken(inShard[i]) \/ (expiry.pc = "capShards" /\ i \in PastCap)

\* A trace is pinned (which commutes with the insert the cap waits for).
PinLogs(i) ==
    /\ Overtaken /\ ~CapWaits /\ i \in ShPinnable \ pinnedLogs /\ logAt[i] # NoShard
    /\ pinnedLogs' = pinnedLogs \cup {i}
    /\ tooLate' = IF PinTooLate(i) THEN tooLate \cup {i} ELSE tooLate
    /\ UNCHANGED <<shClock, shardsOn, shStops, pressed, lateMarks>>
    /\ UNCHANGED <<tableVars, handleVars, rowVars, mainVars, readerVars, expiry>>

\* Mutant: the files on disk are left alone.
Reconcile_RowsOnly == [p \in Periods |-> IF p \in files THEN shardState[p] ELSE "none"]

\* reconcile: a file without a row gets one, a row without a file goes.
Reconcile == [p \in Periods |-> IF p \notin files THEN "none" ELSE IF shardState[p] = "none" THEN "active" ELSE shardState[p]]

\* openShardManager: reconcile, then ensure.
OpenManager ==
    LET current == PeriodStart(shClock) IN
    /\ files' = files \cup {current}
    /\ shardState' = [Reconcile EXCEPT ![current] = IF @ = "none" THEN "active" ELSE @]
    /\ openHandles' = {current}
    /\ UNCHANGED mainTable

\* restoreMainTables: main gets its dropped tables back, and no shard opens.
RestoreMainTables ==
    /\ mainTable' = IF mainTable = "dropped" THEN "held" ELSE mainTable
    /\ openHandles' = {}
    /\ UNCHANGED <<files, shardState>>

\* The writer stops anywhere and starts again, with or without shards.
RestartWriter(on) ==
    /\ Racing \/ expiry.pc = "forget"
    /\ shStops < MaxShStops
    /\ shStops' = shStops + 1
    /\ shardsOn' = on
    /\ IF on THEN OpenManager ELSE RestoreMainTables
    /\ closers' = {} /\ creating' = NoShard /\ shardJob' = NoInsert /\ expiry' = Resting
    /\ UNCHANGED <<shClock, pinnedLogs, historyVars, retiringAt, mainRetiredAt, rowVars, readerVars>>

\* An interval passes: every process has had its turn.  An insert lasts at
\* most InsertMax intervals, and ensure has made the period's file before it
\* starts.  A cycle lasts at most CycleMax; the worker does not look at the
\* clock after BeginCycle, so its delay is where it stamps its now.
ShTick ==
    /\ shClock < ShMaxTime /\ refreshedAt = shClock
    /\ shardJob # NoInsert => shClock - shardJob.since < InsertMax
    /\ shardsOn => PeriodStart(shClock + CreateLead) \in openHandles \cup {creating}
    /\ creating # NoShard => creating > shClock
    /\ shardJob = NoInsert => Ended \cup closers = {}
    /\ IF expiry.pc = "idle" THEN expiry.done /\ expiry.now = shClock
       ELSE (expiry.pc = "mark" \/ CapWaits) /\ shClock - expiry.now < CycleMax
    /\ shClock' = shClock + 1
    /\ oldPools' = {o \in oldPools : o.until > shClock + 1}
    /\ UNCHANGED <<shardsOn, shStops, pinnedLogs, historyVars, pool, refreshedAt>>
    /\ UNCHANGED <<tableVars, handleVars, rowVars, mainVars, expiry>>

ShNext ==
    \/ \E p \in Periods : OpenShardFile(p) \/ CloseShard(p)
    \/ RecordShard \/ InsertRow \/ CloseEnded
    \/ \E i \in ShLogs : PickShard(i) \/ InsertMain(i) \/ PinLogs(i)
    \/ \E on \in BOOLEAN : RestartWriter(on)
    \/ ReclaimCycle \/ RetireOldestShard \/ TrimMainLogs \/ ExpireShard \/ KeepLogs \/ MarkRetiring \/ TrimShard
    \/ RemoveHandle \/ RemoveFile \/ ForgetShard \/ RetireMainTables \/ CapMainLogs \/ CapShards \/ CycleFails
    \/ RefreshPool \/ RefreshFails \/ ShTick

ShSpec == ShInit /\ [][ShNext]_shVars

-----------------------------------------------------------------------------
(* Properties. *)

\* The state is well formed.
ShTypeOK ==
    /\ files \cup openHandles \cup closers \subseteq Periods
    /\ creating \in Periods \cup {NoShard}
    /\ shardState \in [Periods -> {"none", "active", "retiring"}]
    /\ inShard \in [ShLogs -> Periods \cup {NoShard}]
    /\ inMain \cup keptLogs \subseteq ShLogs
    /\ mainTable \in {"held", "retired", "dropped"}
    /\ lateMarks \subseteq Periods

\* An insert never runs on a closed handle or a deleted file: the handle it
\* picked is in the map or waits behind the queue's barrier, whatever closes,
\* removals and rollovers happen meanwhile.  Only reclaim, which may retire a
\* shard the moment its period ends, retires one under a running insert.
InsertHasHandle ==
    shardJob # NoInsert => /\ shardJob.period \in files
                           /\ shardJob.period \in openHandles \cup closers
                           /\ ~pressed => shardState[shardJob.period] = "active"

\* A reader never holds a deleted file: every file of a pool in use, or of a
\* replaced pool that is not closed yet, is on disk (shardDeleteDelay counts
\* five minutes from the mark).  One exception: the mark carries the now of
\* its cycle's start, so a cycle that had run for most of the delay when it
\* marked a shard leaves less than that for the readers to let go of it.
PoolFilesExist ==
    pool.files \cup UNION {o.files : o \in oldPools} \subseteq files \cup lateMarks

\* The shards table and the directory agree outside the steps that change
\* both: an active shard has its file, and while shards are on a file has a
\* row unless it is being created.
TableMatchesFiles ==
    /\ Active \subseteq files
    /\ shardsOn => \A p \in files : shardState[p] # "none" \/ p = creating

\* The logs of pinned traces, and those of error traces in a project without
\* a log cap, outlive the files: a copy is always somewhere.  Two exceptions:
\* a log pinned, or inserted, after its shard's protected logs were copied,
\* and a log past its project's cap that is pinned after
\* deleteProjectLogsFromShards read the pins.
ProtectedLogsSurvive ==
    \A i \in ((SampledLogs \ CappedLogs) \cup pinnedLogs) \ tooLate :
        logAt[i] # NoShard => i \in keptLogs \cup inMain \/ inShard[i] # NoShard

\* A shard the window has left, that the cycle under way has not marked yet.
Overdue(p) == PeriodEnd(p) < shClock - LogCutoff

\* A connection can attach every active shard: the period length leaves room
\* for the window, the current period and the one created ahead of time
\* (maxShardFiles).  Shards that a slow cycle leaves active past their window
\* come on top; refreshFamily then attaches the newest ones and leaves those out.
AttachLimit == {p \in Active : ~Overdue(p)} \subseteq Attached

\* How long a log stays.
WindowOf(i) == IF i \in CappedLogs THEN LogCapWindow ELSE LogCutoff

\* A log can be read for its window: without disk pressure, a log that is
\* younger is in the view of every reader that has refreshed, in an active
\* shard, in main or in kept_logs, whatever periods ended and shards were
\* turned on or off meanwhile.  (A main table listed as retiring is not read
\* again before shards are back on.)
ReadableForItsWindow ==
    ~pressed /\ pool = FamilyView =>
        \A i \in ShLogs : logAt[i] # NoShard /\ shClock - arrivedAt[i] < WindowOf(i) =>
            \/ inShard[i] \in pool.files \/ i \in keptLogs
            \/ i \in inMain /\ (pool.main \/ mainTable = "retired")

\* Log shards come and go under running inserts and reads: no insert or pool
\* holds a deleted file, table and directory agree, protected logs outlive
\* their file, and a log is readable for its window (shards.go).
ShardsInv ==
    /\ ShTypeOK
    /\ InsertHasHandle
    /\ PoolFilesExist
    /\ TableMatchesFiles
    /\ ProtectedLogsSurvive
    /\ AttachLimit
    /\ ReadableForItsWindow
=============================================================================
