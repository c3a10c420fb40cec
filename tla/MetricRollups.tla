---------------------------- MODULE MetricRollups ----------------------------
(***************************************************************************)
(* What a metric's values become on their way to the long-range tiers: the *)
(* accumulator folds points into 5-minute slots                            *)
(* (internal/aggregation/metric_accumulator.go), a flush upserts them into *)
(* metric_rollups (internal/repository/repo_metric_rollups.go), and the    *)
(* compactor merges an hour of those rows into one coarse row              *)
(* (internal/rollup).  Accumulators and RollupTiers model when rows are    *)
(* written and deleted; this module models what is in them.                *)
(*                                                                         *)
(* One producer at a time exports at most one point per tick: a running    *)
(* total, or under delta temporality the growth since the last export.  A  *)
(* histogram's every observation has the value 1, so its sum, its count    *)
(* and its bucket counts grow together.  A deploy replaces the producer by *)
(* a new process with another service.version, hence another 5-minute      *)
(* series; a restart keeps the series.  Both series reduce to one coarse   *)
(* series.                                                                 *)
(***************************************************************************)
EXTENDS Integers, Sequences, FiniteSets, SequencesExt

CONSTANTS
    MrKinds,        \* subset of {"sum", "delta_sum", "histogram", "delta_histogram"}
    MrPaces,        \* sequences of growths, one per tick
    BucketLen,      \* ticks in a 5-minute bucket
    HourLen,        \* 5-minute buckets in an hour
    MrMaxTime,      \* bound on the clock
    LateTicks,      \* ticks the compactor waits past an hour (MetricRollupLateWrite)
    MrMaxEvents     \* bound on skipped exports, deploys, restarts, delayed points, stops, failures

\* A window of fewer than five values cannot look interleaved, so the pods that
\* share a label set are MetricPoints' subject alone.
ASSUME MetricRollupAssumption ==
    /\ MrKinds \subseteq {"sum", "delta_sum", "histogram", "delta_histogram"}
    /\ \A p \in MrPaces : p \in Seq(Nat) /\ Len(p) > MrMaxTime
    /\ BucketLen \in Nat \ {0} /\ HourLen \in 1..3
    /\ MrMaxTime \in Nat /\ LateTicks \in Nat /\ MrMaxEvents \in Nat

VARIABLES
    mrKind,      \* the metric's type and temporality
    mrClock,     \* the time
    pace,        \* by how much the producer grows before each tick's export
    producer,    \* [series, total]: the exporting process
    sent,        \* the tick's export has happened, or is skipped
    delayed,     \* points still on their way
    mrSlots,     \* <<series, bucket>> -> open slot, or NoSlot
    unwrittenRows,  \* finished rows a failed flush left
    fine,        \* <<series, bucket>> -> 5-minute row, or NoSlot
    coarse,      \* hour -> coarse row, or NoSlot
    compacted,   \* hours compacted
    mrEvents,    \* disturbances so far
    grown,       \* history: tick -> what the producer grew by
    firstBucket, \* history: what the producer's total was at the end of its first bucket
    steady,      \* history: no restart, deploy, skipped export or lost row
    lostRows,    \* history: a final flush failed
    twice,       \* history: 5-minute rows written more than once
    missed       \* history: a row was written after its hour was compacted

inputVars == <<producer, sent, delayed, grown, firstBucket>>
storeVars == <<fine, coarse, compacted, twice, missed>>
mrVars == <<mrKind, pace, mrClock, inputVars, mrSlots, unwrittenRows, storeVars, mrEvents, steady, lostRows>>

MrSeries == {1, 2}
MrBuckets == 0..(MrMaxTime \div BucketLen)
Hours == 0..(MrMaxTime \div (BucketLen * HourLen))
MrKeys == MrSeries \X MrBuckets
NoSlot == [n |-> 0]

IsDelta == mrKind \in {"delta_sum", "delta_histogram"}
IsHistogram == mrKind \in {"histogram", "delta_histogram"}
BucketOf(t) == t \div BucketLen
HourOf(b) == b \div HourLen

Event == mrEvents < MrMaxEvents /\ mrEvents' = mrEvents + 1

(***************************************************************************)
(* The accumulator's slot.                                                 *)
(***************************************************************************)

EmptySlot == [n |-> 0, sum |-> 0, obs |-> 0, hist |-> 0, last |-> 0, at |-> -1]

\* A sum: values add up, and the newest point's value is the last.
AddSum(sl, pt) ==
    [sl EXCEPT !.n = @ + 1, !.sum = @ + pt.v,
               !.last = IF pt.t >= sl.at THEN pt.v ELSE @,
               !.at = IF pt.t >= sl.at THEN pt.t ELSE @]

\* Mutant: cumulative snapshots are added like deltas.
AddHistogramPoint_Adds(sl, pt) ==
    [sl EXCEPT !.n = @ + 1, !.sum = @ + pt.v, !.obs = @ + pt.v, !.hist = @ + pt.v, !.at = pt.t]

\* A histogram: delta points add up, and of cumulative points the newest stands
\* for the bucket.
AddHistogramPoint(sl, pt) ==
    IF IsDelta
    THEN [sl EXCEPT !.n = @ + 1, !.sum = @ + pt.v, !.obs = @ + pt.v, !.hist = @ + pt.v, !.at = pt.t]
    ELSE IF sl.n > 0 /\ pt.t < sl.at THEN [sl EXCEPT !.n = @ + 1]
    ELSE [sl EXCEPT !.n = @ + 1, !.sum = pt.v, !.obs = pt.v, !.hist = pt.v, !.at = pt.t]

Slot(k) == IF mrSlots[k] = NoSlot THEN EmptySlot ELSE mrSlots[k]

AddMetric(pt) ==
    LET k == <<pt.series, BucketOf(pt.t)>> IN
    mrSlots' = [mrSlots EXCEPT ![k] =
        IF IsHistogram THEN AddHistogramPoint(Slot(k), pt) ELSE AddSum(Slot(k), pt)]

(***************************************************************************)
(* The upsert into metric_rollups.                                         *)
(***************************************************************************)

\* The row does not keep the time of its newest point.
AsRow(sl) == [sl EXCEPT !.at = -1]

\* Mutant: the newest flush replaces the whole row.
UpsertRow_Replaces(tbl, r) == [tbl EXCEPT ![r.key] = AsRow(r.slot)]

\* Counts and sums add on conflict; last and extra are replaced.
UpsertRow(tbl, r) ==
    [tbl EXCEPT ![r.key] =
        IF @ = NoSlot THEN AsRow(r.slot)
        ELSE [AsRow(r.slot) EXCEPT !.n = @ + tbl[r.key].n, !.sum = @ + tbl[r.key].sum,
                            !.obs = @ + tbl[r.key].obs]]

\* A batch is sorted by key; rows of one key come in either order.
Orders(batch) ==
    {SortSeq(SetToSeq(batch), LAMBDA a, b : a.slot.at < b.slot.at),
     SortSeq(SetToSeq(batch), LAMBDA a, b : a.slot.at > b.slot.at)}

Upserted(tbl, seq) == FoldLeft(UpsertRow, tbl, seq)

WrittenTwice(batch) ==
    {r.key : r \in {x \in batch : fine[x.key] /= NoSlot
                                  \/ \E y \in batch : y /= x /\ y.key = x.key}}

UpsertRows(batch) ==
    /\ \E seq \in Orders(batch) : fine' = Upserted(fine, seq)
    /\ twice' = twice \cup WrittenTwice(batch)
    /\ missed' = (missed \/ \E r \in batch : HourOf(r.key[2]) < compacted)
    /\ UNCHANGED <<coarse, compacted>>

Rows(keys) == {[key |-> k, slot |-> mrSlots[k]] : k \in {x \in keys : mrSlots[x] /= NoSlot}}
Closed == {k \in MrKeys : (k[2] + 1) * BucketLen <= mrClock}

(***************************************************************************)
(* Actions.                                                                *)
(***************************************************************************)

ThisGrowth == pace[mrClock + 1]

Grows ==
    /\ producer' = [producer EXCEPT !.total = @ + ThisGrowth]
    /\ grown' = [grown EXCEPT ![mrClock] = ThisGrowth]
    /\ firstBucket' = IF BucketOf(mrClock) = 0 THEN producer.total + ThisGrowth ELSE firstBucket

NewPoint ==
    [series |-> producer.series, t |-> mrClock,
     v |-> IF IsDelta THEN ThisGrowth ELSE producer.total + ThisGrowth]

\* The producer exports and the consumer folds the point in.
MrExport ==
    /\ ~sent
    /\ Grows /\ sent' = TRUE
    /\ AddMetric(NewPoint)
    /\ UNCHANGED <<mrKind, pace, mrClock, delayed, unwrittenRows, storeVars, mrEvents, steady, lostRows>>

\* The point waits in the queue.
MrExportDelayed ==
    /\ ~sent /\ Event
    /\ Grows /\ sent' = TRUE
    /\ delayed' = delayed \cup {NewPoint}
    /\ UNCHANGED <<mrKind, pace, mrClock, mrSlots, unwrittenRows, storeVars, steady, lostRows>>

MrDeliver(pt) ==
    /\ pt.t < mrClock
    /\ delayed' = delayed \ {pt}
    /\ AddMetric(pt)
    /\ UNCHANGED <<mrKind, pace, mrClock, producer, sent, grown, firstBucket, unwrittenRows,
                   storeVars, mrEvents, steady, lostRows>>

MrSkip ==
    /\ ~sent /\ Event
    /\ sent' = TRUE /\ steady' = FALSE
    /\ UNCHANGED <<mrKind, pace, mrClock, producer, delayed, grown, firstBucket, mrSlots, unwrittenRows,
                   storeVars, lostRows>>

\* The producer's process is replaced, by a deploy under a new label set.
Replace(s) ==
    /\ ~sent /\ Event
    /\ s \in {producer.series, 2}
    /\ producer' = [series |-> s, total |-> 0]
    /\ steady' = FALSE
    /\ UNCHANGED <<mrKind, pace, mrClock, sent, delayed, grown, firstBucket, mrSlots,
                   unwrittenRows, storeVars, lostRows>>

\* The flush ticker: closed slots and unwritten rows are written, or all wait.
MrFlush ==
    LET batch == unwrittenRows \cup Rows(Closed) IN
    /\ mrSlots' = [k \in MrKeys |-> IF k \in Closed THEN NoSlot ELSE mrSlots[k]]
    /\ \/ /\ UpsertRows(batch)
          /\ unwrittenRows' = {} /\ UNCHANGED mrEvents
       \/ /\ batch /= {} /\ Event
          /\ unwrittenRows' = batch /\ UNCHANGED storeVars

MrTick ==
    /\ sent /\ mrClock < MrMaxTime
    /\ MrFlush
    /\ mrClock' = mrClock + 1
    /\ sent' = FALSE
    /\ UNCHANGED <<mrKind, pace, producer, delayed, grown, firstBucket, steady, lostRows>>

\* The writer stops and starts again: every slot is written, open ones too.
FlushMetrics ==
    LET batch == unwrittenRows \cup Rows(MrKeys) IN
    /\ batch /= {} /\ Event
    /\ mrSlots' = [k \in MrKeys |-> NoSlot] /\ unwrittenRows' = {}
    /\ \/ UpsertRows(batch) /\ UNCHANGED <<steady, lostRows>>
       \/ UNCHANGED storeVars /\ steady' = FALSE /\ lostRows' = TRUE
    /\ UNCHANGED <<mrKind, pace, mrClock, inputVars>>

(***************************************************************************)
(* Compaction of one hour.                                                 *)
(***************************************************************************)

\* Mutant: the window has no row before it.
RowBefore_None(s, b) == NoSlot

\* The row of a series before bucket b, NoSlot when there is none.
RowBefore(s, b) == IF b = 0 THEN NoSlot ELSE fine[<<s, b - 1>>]

HourRows(s, h) ==
    SelectSeq([i \in 1..HourLen |-> h * HourLen + i - 1],
              LAMBDA b : b \in MrBuckets /\ fine[<<s, b>>] /= NoSlot)

\* Mutant: without an earlier row the first running total counts in full.
StepFrom_Whole(prev, cur) == IF prev = -1 \/ cur < prev THEN cur ELSE cur - prev

\* The increase from one running total to the next; nothing without an earlier
\* one (-1), and the whole value after a fall.
StepFrom(prev, cur) ==
    IF prev = -1 THEN 0 ELSE IF cur >= prev THEN cur - prev ELSE cur

Prior(s, h, i) ==
    LET bs == HourRows(s, h) IN
    IF i > 1 THEN fine[<<s, bs[i - 1]>>] ELSE RowBefore(s, h * HourLen)

SumOf(seq) == FoldLeft(LAMBDA a, b : a + b, 0, seq)

\* Mutant: only the bucket counts are differenced.
Distribution_Snapshot(p, r) == [sum |-> r.sum, obs |-> r.obs, hist |-> 0]

\* The sum and the count of a cumulative histogram are differenced together:
\* when either fell, the process restarted and both stand on their own.
Distribution(p, r) ==
    IF p = NoSlot THEN [sum |-> 0, obs |-> 0, hist |-> 0]
    ELSE IF r.sum >= p.sum /\ r.obs >= p.obs
         THEN [sum |-> r.sum - p.sum, obs |-> r.obs - p.obs, hist |-> 0]
    ELSE [sum |-> r.sum, obs |-> r.obs, hist |-> 0]

\* What one 5-minute row adds: running totals are differenced, deltas pass.
RowIncrease(s, h, i) ==
    LET r == fine[<<s, HourRows(s, h)[i]>>]
        p == Prior(s, h, i)
        From(x) == IF p = NoSlot THEN -1 ELSE x
    IN IF IsDelta THEN [sum |-> r.sum, obs |-> r.obs, hist |-> r.hist]
       ELSE IF IsHistogram
            THEN [Distribution(p, r) EXCEPT !.hist = StepFrom(From(p.hist), r.hist)]
       ELSE [sum |-> StepFrom(From(p.last), r.last), obs |-> 0, hist |-> 0]

SeriesContribution(s, h) ==
    LET parts == [i \in DOMAIN HourRows(s, h) |-> RowIncrease(s, h, i)] IN
    [sum |-> SumOf([i \in DOMAIN parts |-> parts[i].sum]),
     obs |-> SumOf([i \in DOMAIN parts |-> parts[i].obs]),
     hist |-> SumOf([i \in DOMAIN parts |-> parts[i].hist])]

\* Mutant: the running total starts over in every hour.
TargetLast_None(h) == 0

\* The running total of the hour before, zero when it has no row.
TargetLast(h) == IF h = 0 THEN 0 ELSE IF coarse[h - 1] = NoSlot THEN 0 ELSE coarse[h - 1].last

\* The series differ only in dropped labels: their increases add up.
Merge(h) ==
    LET c == [s \in MrSeries |-> SeriesContribution(s, h)]
        total == c[1].sum + c[2].sum
        obs == c[1].obs + c[2].obs
        hist == c[1].hist + c[2].hist
    IN [n |-> 1, sum |-> total,
        last |-> IF IsHistogram THEN 0 ELSE TargetLast(h) + total,
        obs |-> IF IsHistogram /\ obs = 0 THEN hist ELSE obs, hist |-> hist]

HourIsEmpty(h) == \A s \in MrSeries : HourRows(s, h) = <<>>

CompactHour ==
    /\ compacted \in Hours
    /\ (compacted + 1) * HourLen * BucketLen + LateTicks <= mrClock
    /\ coarse' = [coarse EXCEPT ![compacted] = IF HourIsEmpty(compacted) THEN NoSlot ELSE Merge(compacted)]
    /\ compacted' = compacted + 1
    /\ UNCHANGED <<mrKind, pace, mrClock, inputVars, mrSlots, unwrittenRows, fine, twice, missed, mrEvents, steady, lostRows>>

(***************************************************************************)
(* The specification.                                                      *)
(***************************************************************************)

MrInit ==
    /\ mrKind \in MrKinds /\ pace \in MrPaces
    /\ mrClock = 0
    /\ producer = [series |-> 1, total |-> 0]
    /\ sent = FALSE /\ delayed = {}
    /\ mrSlots = [k \in MrKeys |-> NoSlot]
    /\ unwrittenRows = {}
    /\ fine = [k \in MrKeys |-> NoSlot]
    /\ coarse = [h \in Hours |-> NoSlot] /\ compacted = 0
    /\ mrEvents = 0
    /\ grown = [t \in 0..MrMaxTime |-> 0] /\ firstBucket = 0
    /\ steady = TRUE /\ lostRows = FALSE /\ twice = {} /\ missed = FALSE

MrNext ==
    \/ MrExport
    \/ MrExportDelayed
    \/ \E pt \in delayed : MrDeliver(pt)
    \/ MrSkip
    \/ \E s \in MrSeries : Replace(s)
    \/ MrTick
    \/ FlushMetrics
    \/ CompactHour

MrSpec == MrInit /\ [][MrNext]_mrVars

(***************************************************************************)
(* Properties.                                                             *)
(***************************************************************************)

StoredSum(h) == coarse[h] /= NoSlot
CoarseSum == SumOf([i \in 1..compacted |-> IF StoredSum(i - 1) THEN coarse[i - 1].sum ELSE 0])
TicksUntil(h) == h * HourLen * BucketLen
GrownUntil(h) == SumOf([t \in 1..TicksUntil(h) |-> grown[t - 1]])

\* Nothing of the compacted hours is still on its way or came too late.
AllIn ==
    /\ ~missed
    /\ \A pt \in delayed : pt.t >= TicksUntil(compacted)
    /\ \A k \in MrKeys : mrSlots[k] /= NoSlot => HourOf(k[2]) >= compacted
    /\ \A r \in unwrittenRows : HourOf(r.key[2]) >= compacted

RowOk(r) == r = NoSlot \/ (r.n > 0 /\ \A x \in {r.sum, r.obs, r.hist, r.last} : x >= 0)

\* The types of slots and rows (metric_accumulator.go, repo_metric_rollups.go):
\* every value is non-negative, a slot's newest point lies in its bucket, and
\* only compacted hours have a coarse row.
MrTypeOK ==
    /\ mrKind \in MrKinds /\ pace \in MrPaces
    /\ mrClock \in 0..MrMaxTime /\ compacted \in 0..(MrMaxTime + 1)
    /\ mrEvents \in 0..MrMaxEvents
    /\ \A k \in MrKeys :
          /\ RowOk(fine[k]) /\ RowOk(mrSlots[k])
          /\ mrSlots[k] /= NoSlot => BucketOf(mrSlots[k].at) = k[2]
    /\ \A h \in Hours : RowOk(coarse[h]) /\ (StoredSum(h) => h < compacted)
    /\ {sent, steady, lostRows, missed} \subseteq BOOLEAN

\* The coarse tier never reports more growth than happened, through restarts,
\* deploys, gaps, delayed points, failed flushes and writer stops ("counting the
\* first value in full, would inflate every sparse series", merge.go).  A
\* running total in a row that was written twice is not covered: the upsert adds
\* a histogram's snapshots, and a late point replaces the newer last value.
NeverOvercounts ==
    (twice = {} \/ IsDelta) => CoarseSum <= GrownUntil(compacted)

\* A counter that keeps reporting loses nothing to compaction: the coarse
\* increases sum to its growth since the end of its first bucket
\* (compactBucket's carry row, compactor.go; cumulativeState, merge.go).
GrowthKept ==
    (~IsDelta /\ steady /\ twice = {} /\ AllIn /\ compacted > 0) =>
        CoarseSum = GrownUntil(compacted) - firstBucket

\* Under delta temporality the coarse rows hold exactly what was exported, also
\* when a bucket was written in several parts (metricRollupUpsertSQL).
DeltaExact ==
    (IsDelta /\ ~lostRows /\ AllIn) => CoarseSum = GrownUntil(compacted)

\* "The result is monotonic per reduced label set" (merge.go): the running total
\* of an hour continues the hour before it by that hour's increase, also when
\* a deploy replaced the series in between.
CoarseContinues ==
    ~IsHistogram => \A h \in Hours :
        (h > 0 /\ StoredSum(h) /\ StoredSum(h - 1)) =>
            coarse[h].last = coarse[h - 1].last + coarse[h].sum

\* A coarse histogram's bucket counts hold as many observations as its count
\* says, so a percentile and a rate of one row speak of the same observations
\* (cumulativeState.distribution and .histogram, merge.go).
DistributionMatches ==
    (IsHistogram /\ twice = {}) => \A h \in Hours : StoredSum(h) => coarse[h].hist = coarse[h].obs

\* Compaction tells the growth that happened: never more, all of it for a
\* series that keeps reporting, monotonically, and with distributions that
\* match their counts (merge.go, compactor.go).
RollupsFaithful ==
    /\ MrTypeOK
    /\ NeverOvercounts
    /\ GrowthKept
    /\ DeltaExact
    /\ CoarseContinues
    /\ DistributionMatches
=============================================================================
