---------------------------- MODULE ServiceStats ----------------------------
(* The counts behind the service, operation and timeseries pages, and the    *)
(* two ways spans get into them.                                             *)
(*                                                                           *)
(* In the writer every span enters the in-memory accumulator, whose slots a  *)
(* 30 s ticker swaps out and upserts into the aggregates table.  In          *)
(* standalone mode a worker reads the spool from a cursor file, inserts the  *)
(* batch into spans, aggregates it inline and saves the cursor.              *)
(*                                                                           *)
(* A page reads the aggregates of its range first and then adds the recent   *)
(* tail: from the accumulator's slots in the writer, from the raw spans of   *)
(* the last 90 s without one.  Nothing holds the two reads together, so a    *)
(* flush, a batch or a tick may come between them.                           *)
(*                                                                           *)
(* A row of aggregates is the spans it was built from: aggRows[s] is how     *)
(* often span s was added.  How the rows of one page mix into a count and a  *)
(* percentile is the mode "mix".                                             *)
EXTENDS Integers, Sequences, FiniteSets, SequencesExt, FiniteSetsExt

CONSTANTS
    SsModes,        \* subset of {"writer", "standalone", "mix"}
    SsSpans,        \* how many spans arrive
    SsMaxTime,      \* bound on the clock
    SsBucket,       \* width of an aggregate bucket
    TailWindow,     \* spanFallbackWindow
    FlushEvery,     \* the accumulator's flush interval
    Grains,         \* the grains a range is snapped to
    SpoolBatch,     \* records one batch reads from the spool
    SsAttempts,     \* maxRetries of the worker
    ReadTicks,      \* clock ticks one page read may take
    MaxSsFaults,    \* bound on failed writes and crashes together
    MixKept,        \* span counts of a mixed row
    MixWeights,     \* summed sample weights of a mixed row, 0 for unknown
    MixRatio,       \* the 1-in-N ratio of the project
    MixTimes        \* percentiles of a mixed row

ASSUME ServiceStatsAssumption ==
    /\ SsModes \subseteq {"writer", "standalone", "mix"}
    /\ {SsBucket, TailWindow, FlushEvery, SpoolBatch, SsAttempts, MixRatio} \cup Grains \subseteq Nat \ {0}
    /\ {SsSpans, SsMaxTime, ReadTicks, MaxSsFaults} \cup MixKept \cup MixWeights \cup MixTimes \subseteq Nat
    /\ ReadTicks < TailWindow
    \* an arrived span weighs at least one, so a weighted row at least its spans
    /\ MixWeights \subseteq {0} \cup {w \in Nat : \A k \in MixKept : w >= k}

VARIABLES
    ssMode, ssClock,
    spanAt,         \* span -> tick it arrived, in order of arrival
    ownSlots,       \* spans in the accumulator's slots
    inFlush,        \* spans a flush has swapped out
    flushedAt,      \* tick of the last flush
    cursorFile,         \* lines the cursor file has passed
    batchJob,            \* the worker's batch in hand
    storedAt,       \* span -> ticks its rows of spans were inserted
    promptRows,        \* span -> prompt records inserted for it
    aggRows,        \* span -> times it was added to aggregates
    pageRead,         \* the page read in hand
    ssAnswer,       \* the last page's counts, until something else happens
    mixRows,        \* the rows a page folds
    ssFaults,
    deadLettered,   \* spans of batches given up after the retries
    uncounted,      \* spans whose inline aggregation failed or was cut short
    replayed        \* spans a batch took that an earlier batch had already stored

workerVars == <<cursorFile, batchJob, storedAt, promptRows, deadLettered, uncounted, replayed>>
accVarsSs  == <<ownSlots, inFlush, flushedAt>>
readerVarsSs == <<pageRead, ssAnswer>>
ssVars == <<ssMode, ssClock, spanAt, workerVars, accVarsSs, aggRows, readerVarsSs, mixRows, ssFaults>>

SpanIds == 1 .. SsSpans
NoJob == [step |-> "idle", upTo |-> 0, attempt |-> 0]
NoRead == [step |-> "idle"]
NoCounts == [given |-> FALSE]

\* The span's bucket: its start truncated to the interval.
SpanBucket(s) == (spanAt[s] \div SsBucket) * SsBucket

Faulty == ssFaults < MaxSsFaults
ClearAnswer == ssAnswer' = NoCounts

-----------------------------------------------------------------------------
(* The writer's accumulator. *)

\* A span arrives: in the writer Add puts it in its slot, in standalone mode it
\* is one more line of the spool.
AddSpan ==
    /\ ssMode # "mix"
    /\ Len(spanAt) < SsSpans
    /\ spanAt' = Append(spanAt, ssClock)
    /\ ownSlots' = ownSlots \cup (IF ssMode = "writer" THEN {Len(spanAt) + 1} ELSE {})
    /\ ClearAnswer
    /\ UNCHANGED <<ssMode, ssClock, workerVars, inFlush, flushedAt, aggRows, pageRead, mixRows, ssFaults>>

FlushDue == ssMode = "writer" /\ ssClock - flushedAt >= FlushEvery

\* Flush swaps the slots out; Add calls that come now fill the next ones.
FlushSwap ==
    /\ FlushDue /\ inFlush = {}
    /\ inFlush' = ownSlots
    /\ ownSlots' = {}
    /\ flushedAt' = ssClock
    /\ ClearAnswer
    /\ UNCHANGED <<ssMode, ssClock, spanAt, workerVars, aggRows, pageRead, mixRows, ssFaults>>

\* UpsertAggregates adds the spans of some buckets to their rows.
Upsert(spans) == [s \in SpanIds |-> aggRows[s] + (IF s \in spans THEN 1 ELSE 0)]

\* What a failed upsert has written: the chunks before the one that failed, so
\* the spans of the buckets below some bucket.
WrittenParts(spans) ==
    {{s \in spans : SpanBucket(s) < b} : b \in {SpanBucket(s) : s \in spans}}

\* Mutant: a failed flush puts back the slots whose rows were written too.
Requeued_Written(unwritten) == ownSlots \cup inFlush

\* Mutant: a failed flush drops the slots it swapped out.
Requeued_Dropped(unwritten) == ownSlots

\* requeue: the unwritten slots go back and merge with what arrived meanwhile.
Requeued(unwritten) == ownSlots \cup unwritten

FlushWrites ==
    /\ inFlush # {}
    /\ aggRows' = Upsert(inFlush)
    /\ inFlush' = {}
    /\ ClearAnswer
    /\ UNCHANGED <<ssMode, ssClock, spanAt, workerVars, ownSlots, flushedAt, pageRead, mixRows, ssFaults>>

SsFlushFails ==
    /\ inFlush # {} /\ Faulty
    /\ \E part \in WrittenParts(inFlush) :
         /\ aggRows' = Upsert(part)
         /\ ownSlots' = Requeued(inFlush \ part)
    /\ inFlush' = {}
    /\ ssFaults' = ssFaults + 1
    /\ ClearAnswer
    /\ UNCHANGED <<ssMode, ssClock, spanAt, workerVars, flushedAt, pageRead, mixRows>>

-----------------------------------------------------------------------------
(* The standalone worker. *)

BatchOf(j) == (cursorFile + 1) .. j.upTo
RowCount(s) == Len(storedAt[s])

\* processBatch loads the cursor and reads up to a batch of records from it.
LoadBatch ==
    /\ ssMode = "standalone" /\ batchJob.step = "idle"
    /\ cursorFile < Len(spanAt)
    /\ batchJob' = [step |-> "insert", upTo |-> Min({cursorFile + SpoolBatch, Len(spanAt)}), attempt |-> 1]
    /\ replayed' = replayed \cup {s \in BatchOf(batchJob') : RowCount(s) > 0}
    /\ ClearAnswer
    /\ UNCHANGED <<ssMode, ssClock, spanAt, cursorFile, storedAt, promptRows, deadLettered, uncounted,
                   accVarsSs, aggRows, pageRead, mixRows, ssFaults>>

\* InsertSpans commits the whole batch in one transaction.
InsertBatch ==
    /\ batchJob.step = "insert"
    /\ storedAt' = [s \in SpanIds |-> IF s \in BatchOf(batchJob) THEN Append(storedAt[s], ssClock) ELSE storedAt[s]]
    /\ batchJob' = [batchJob EXCEPT !.step = "derive"]
    /\ ClearAnswer
    /\ UNCHANGED <<ssMode, ssClock, spanAt, cursorFile, promptRows, deadLettered, uncounted, replayed,
                   accVarsSs, aggRows, pageRead, mixRows, ssFaults>>

\* A failed insert is tried again after a backoff, maxRetries times in all; a
\* batch that still fails is dead-lettered and the cursor passes it.
InsertFails ==
    /\ batchJob.step = "insert"
    /\ batchJob.attempt = 1 => Faulty
    /\ IF batchJob.attempt < SsAttempts
         THEN batchJob' = [batchJob EXCEPT !.attempt = @ + 1] /\ UNCHANGED deadLettered
         ELSE batchJob' = [batchJob EXCEPT !.step = "save"] /\ deadLettered' = deadLettered \cup BatchOf(batchJob)
    /\ ssFaults' = ssFaults + (IF batchJob.attempt = 1 THEN 1 ELSE 0)
    /\ ClearAnswer
    /\ UNCHANGED <<ssMode, ssClock, spanAt, cursorFile, storedAt, promptRows, uncounted, replayed,
                   accVarsSs, aggRows, pageRead, mixRows>>

\* The prompt records of the batch: a failed insert is logged and passed over.
InsertPrompts(ok) ==
    promptRows' = [s \in SpanIds |-> promptRows[s] + (IF ok /\ s \in BatchOf(batchJob) THEN 1 ELSE 0)]

\* aggregateInline: a failed Persist leaves the chunks written before it and
\* is only logged.
AggregateInline(ok) ==
    IF ok THEN aggRows' = Upsert(BatchOf(batchJob)) /\ UNCHANGED uncounted
    ELSE \E part \in WrittenParts(BatchOf(batchJob)) :
           aggRows' = Upsert(part) /\ uncounted' = uncounted \cup (BatchOf(batchJob) \ part)

\* What follows a stored batch: its prompt records, then its aggregates.
DeriveBatch ==
    /\ batchJob.step = "derive"
    /\ \E promptsOk, aggregatesOk \in BOOLEAN :
         /\ (promptsOk /\ aggregatesOk) \/ Faulty
         /\ InsertPrompts(promptsOk)
         /\ AggregateInline(aggregatesOk)
         /\ ssFaults' = ssFaults + (IF promptsOk /\ aggregatesOk THEN 0 ELSE 1)
    /\ batchJob' = [batchJob EXCEPT !.step = "save"]
    /\ ClearAnswer
    /\ UNCHANGED <<ssMode, ssClock, spanAt, cursorFile, storedAt, deadLettered, replayed,
                   accVarsSs, pageRead, mixRows>>

\* SaveCursor: a failed write is logged, and the next batch starts where this
\* one did.
SaveCursorFile ==
    /\ batchJob.step = "save"
    /\ \/ cursorFile' = batchJob.upTo /\ UNCHANGED ssFaults
       \/ Faulty /\ ssFaults' = ssFaults + 1 /\ UNCHANGED cursorFile
    /\ batchJob' = NoJob
    /\ ClearAnswer
    /\ UNCHANGED <<ssMode, ssClock, spanAt, storedAt, promptRows, deadLettered, uncounted, replayed,
                   accVarsSs, aggRows, pageRead, mixRows>>

\* Mutant: the cursor file is written when the batch is read.
CursorAtCrash_Early(j) == IF j.step = "idle" THEN cursorFile ELSE j.upTo

\* A process that dies mid-batch comes back to the cursor file as it was.
CursorAtCrash(j) == cursorFile

CrashStandalone ==
    /\ ssMode = "standalone" /\ batchJob.step # "idle" /\ Faulty
    /\ cursorFile' = CursorAtCrash(batchJob)
    /\ batchJob' = NoJob
    /\ pageRead' = NoRead
    /\ uncounted' = uncounted \cup (IF batchJob.step = "derive" THEN BatchOf(batchJob) ELSE {})
    /\ ssFaults' = ssFaults + 1
    /\ ClearAnswer
    /\ UNCHANGED <<ssMode, ssClock, spanAt, storedAt, promptRows, deadLettered, replayed,
                   accVarsSs, aggRows, mixRows>>

-----------------------------------------------------------------------------
(* The page read. *)

\* snapRange truncates the end of the range to the grain of its window.
SnapTo(g) == (ssClock \div g) * g

\* QueryAggregates: the rows of the buckets up to the end of the range.
QueryAggregates(to) == [s \in SpanIds |->
    IF s <= Len(spanAt) /\ aggRows[s] > 0 THEN (IF SpanBucket(s) <= to THEN aggRows[s] ELSE 0) ELSE 0]

\* Mutant: the raw tail starts where the page's range does.
NarrowFallback_Whole(to) == [use |-> TRUE, from |-> 0]

\* narrowFallback: the tail starts 90 s ago, and a range that ended before that
\* has none.
NarrowFallback(to) ==
    LET cutoff == ssClock - TailWindow
    IN  [use |-> to >= cutoff, from |-> Max({0, cutoff})]

\* QueryRecent: the slots whose bucket starts inside the tail.
QueryRecent(from, to) == [s \in SpanIds |->
    IF s \in ownSlots THEN (IF SpanBucket(s) \in from .. to THEN 1 ELSE 0) ELSE 0]

\* The rows of spans ingested inside the tail.
StatsFromSpans(from, to) == [s \in SpanIds |->
    Cardinality({i \in DOMAIN storedAt[s] : storedAt[s][i] \in from .. to})]

FoldRecent(to) ==
    LET tail == NarrowFallback(to)
    IN  IF ~tail.use THEN [s \in SpanIds |-> 0]
        ELSE IF ssMode = "writer" THEN QueryRecent(tail.from, to)
        ELSE StatsFromSpans(tail.from, to)

\* The spans a page that starts now must count: in the writer those that every
\* flush due since they arrived has had its chance to write, in standalone
\* mode those stored once.
SsSettled(s) ==
    IF ssMode = "writer" THEN spanAt[s] + FlushEvery * (1 + ssFaults) < ssClock
    ELSE RowCount(s) = 1 /\ s \notin uncounted

ReadAggregates ==
    /\ ssMode # "mix" /\ pageRead.step = "idle"
    /\ ~ssAnswer.given
    /\ \E g \in Grains :
         pageRead' = [step |-> "tail", at |-> ssClock, to |-> SnapTo(g), table |-> QueryAggregates(SnapTo(g)),
                      settled |-> {s \in 1 .. Len(spanAt) : SsSettled(s)}]
    /\ UNCHANGED <<ssMode, ssClock, spanAt, workerVars, accVarsSs, aggRows, ssAnswer, mixRows, ssFaults>>

ReadRecent ==
    /\ pageRead.step = "tail"
    /\ LET recent == FoldRecent(pageRead.to)
       IN  ssAnswer' = [given |-> TRUE, at |-> ssClock, to |-> pageRead.to, settled |-> pageRead.settled,
                        counts |-> [s \in SpanIds |-> pageRead.table[s] + recent[s]]]
    /\ pageRead' = NoRead
    /\ UNCHANGED <<ssMode, ssClock, spanAt, workerVars, accVarsSs, aggRows, mixRows, ssFaults>>

\* Time passes once a due flush has been written, a stored batch has been
\* aggregated (SQLite gives up on a busy write well within the tail window)
\* and no read outlives its budget.
SsTick ==
    /\ ssMode # "mix" /\ ssClock < SsMaxTime
    /\ ~FlushDue /\ inFlush = {}
    /\ batchJob.step # "derive"
    /\ pageRead.step = "tail" => ssClock - pageRead.at < ReadTicks
    /\ ssClock' = ssClock + 1
    /\ ClearAnswer
    /\ UNCHANGED <<ssMode, spanAt, workerVars, accVarsSs, aggRows, pageRead, mixRows, ssFaults>>

-----------------------------------------------------------------------------
(* How a page mixes its rows. *)

\* A row: kept spans, errors among them, the summed weights (0 when some span
\* has none), its percentile, and whether it was read from raw spans.
MixRowSet == {row \in [kept : MixKept, errs : MixKept, weight : MixWeights, pct : MixTimes, raw : BOOLEAN] :
                 row.errs <= row.kept}

\* inflateCount: errors are always kept, the others stand for MixRatio each.
InflateCount(row) == row.errs + (row.kept - row.errs) * MixRatio

\* estimateCount, estimateSpans: the summed weights, else the scaled count.
EstimateCount(row) == IF row.weight > 0 THEN row.weight ELSE InflateCount(row)

\* mixWeight: the population the row stands for.
MixWeight(row) == IF EstimateCount(row) > 0 THEN EstimateCount(row) ELSE row.kept

\* A raw row without percentiles does not weigh in.
WeighsIn(row) == ~row.raw \/ row.pct > 0

\* Mutant: the divisor counts the spans kept.
FoldWeight_Kept(rows) == FoldSeq(LAMBDA row, n : n + (IF WeighsIn(row) THEN row.kept ELSE 0), 0, rows)

\* aggCount of aggStats.
FoldWeight(rows) == FoldSeq(LAMBDA row, n : n + (IF WeighsIn(row) THEN MixWeight(row) ELSE 0), 0, rows)

\* aggP50Sum and its like.
FoldSum(rows) == FoldSeq(LAMBDA row, n : n + (IF WeighsIn(row) THEN row.pct * MixWeight(row) ELSE 0), 0, rows)

\* effective of aggStats, the span count a page shows.
Effective(rows) == FoldSeq(LAMBDA row, n : n + EstimateCount(row), 0, rows)

\* serviceSummaries: the mean of the rows' percentiles by weight.
Mixed(rows) == IF FoldWeight(rows) > 0 THEN FoldSum(rows) \div FoldWeight(rows) ELSE 0

FoldRow ==
    /\ ssMode = "mix" /\ Len(mixRows) < 2
    /\ \E row \in MixRowSet : mixRows' = Append(mixRows, row)
    /\ UNCHANGED <<ssMode, ssClock, spanAt, workerVars, accVarsSs, aggRows, readerVarsSs, ssFaults>>

-----------------------------------------------------------------------------
SsInit ==
    /\ ssMode \in SsModes /\ ssClock = 0
    /\ spanAt = <<>> /\ ownSlots = {} /\ inFlush = {} /\ flushedAt = 0
    /\ cursorFile = 0 /\ batchJob = NoJob
    /\ storedAt = [s \in SpanIds |-> <<>>]
    /\ promptRows = [s \in SpanIds |-> 0] /\ aggRows = [s \in SpanIds |-> 0]
    /\ pageRead = NoRead /\ ssAnswer = NoCounts /\ mixRows = <<>>
    /\ ssFaults = 0 /\ deadLettered = {} /\ uncounted = {} /\ replayed = {}

SsNext ==
    \/ AddSpan \/ FlushSwap \/ FlushWrites \/ SsFlushFails
    \/ LoadBatch \/ InsertBatch \/ InsertFails \/ DeriveBatch
    \/ SaveCursorFile \/ CrashStandalone
    \/ ReadAggregates \/ ReadRecent \/ SsTick
    \/ FoldRow

SsSpec == SsInit /\ [][SsNext]_ssVars

-----------------------------------------------------------------------------
SsTypeOK ==
    /\ ssMode \in SsModes /\ ssClock \in 0 .. SsMaxTime
    /\ spanAt \in BoundedSeq(0 .. SsMaxTime, SsSpans)
    /\ ownSlots \subseteq DOMAIN spanAt /\ inFlush \subseteq DOMAIN spanAt /\ ownSlots \cap inFlush = {}
    /\ flushedAt \in 0 .. SsMaxTime /\ cursorFile \in 0 .. Len(spanAt)
    /\ batchJob.step \in {"idle", "insert", "derive", "save"}
    /\ batchJob.step # "idle" => batchJob.upTo \in (cursorFile + 1) .. Len(spanAt) /\ batchJob.attempt \in 1 .. SsAttempts
    /\ pageRead.step \in {"idle", "tail"} /\ ssFaults \in 0 .. MaxSsFaults
    /\ Len(mixRows) <= 2

(* A page of the writer never counts a span twice, although the aggregates   *)
(* and the slots are read one after the other with flushes in between, and   *)
(* it counts every span that arrived more than one flush interval (and one   *)
(* more for each failed flush) before it: a failed flush gives back exactly  *)
(* what it did not write.                                                    *)
WriterCountsOnce ==
    ssMode = "writer" /\ ssAnswer.given =>
        \A s \in DOMAIN spanAt :
            /\ ssAnswer.counts[s] <= 1
            /\ s \in ssAnswer.settled /\ spanAt[s] <= ssAnswer.to => ssAnswer.counts[s] = 1

(* Without an accumulator a page counts every span that was stored, and was  *)
(* not left out by a failed aggregation, before it began.  A span ingested   *)
(* before the 90 s tail counts once; one inside the tail is in aggregates    *)
(* and in the tail and may count twice, never more.                          *)
StandaloneCounts ==
    ssMode = "standalone" /\ ssAnswer.given =>
        \A s \in ssAnswer.settled \ replayed :
            storedAt[s][1] <= ssAnswer.to =>
                /\ ssAnswer.counts[s] \in 1 .. 2
                /\ storedAt[s][1] < ssAnswer.at - TailWindow => ssAnswer.counts[s] = 1

(* The worker's cursor never passes a span that was neither stored nor       *)
(* dead-lettered after its retries, whatever fails and wherever the process  *)
(* dies; a span is stored again only by a batch that a failed cursor write   *)
(* or a crash made it take again, and its prompt records and its counts      *)
(* never outnumber its rows.                                                 *)
WorkerSkipsNothing ==
    /\ \A s \in 1 .. cursorFile : RowCount(s) > 0 \/ s \in deadLettered
    /\ \A s \in SpanIds : RowCount(s) > 1 => s \in replayed
    /\ replayed # {} => ssFaults > 0
    /\ ssMode = "standalone" =>
         \A s \in SpanIds : promptRows[s] <= RowCount(s) /\ aggRows[s] <= RowCount(s)

(* Mixing rows never shows a percentile outside the rows it mixes, and the   *)
(* population shown is never below the spans that were kept.                 *)
MixWithin ==
    LET weighing == {i \in DOMAIN mixRows : WeighsIn(mixRows[i]) /\ MixWeight(mixRows[i]) > 0}
    IN  /\ weighing # {} =>
             /\ \E i \in weighing : Mixed(mixRows) <= mixRows[i].pct
             /\ \E i \in weighing : Mixed(mixRows) >= mixRows[i].pct
        /\ Effective(mixRows) >= FoldSeq(LAMBDA row, n : n + row.kept, 0, mixRows)

\* A service page counts every settled span, as often as its mode allows, and
\* the worker behind it skips none (query_services.go, worker.go).
PagesFaithful ==
    /\ SsTypeOK
    /\ WriterCountsOnce
    /\ StandaloneCounts
    /\ WorkerSkipsNothing
    /\ MixWithin
=============================================================================
