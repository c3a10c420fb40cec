----------------------------- MODULE RollupTiers -----------------------------
(***************************************************************************)
(* The rollup ladders: rows of the 5-minute tier are compacted into        *)
(* coarser tiers one closed bucket at a time (internal/rollup for metrics, *)
(* internal/spanrollup for spans), a watermark per source tier records how *)
(* far, retention deletes each tier up to its watermark                    *)
(* (internal/retention rollup_tiers.go, span_rollup_tiers.go), and reads of *)
(* span rollups are planned over the tiers (plan.go, complete.go).         *)
(*                                                                         *)
(* Time is counted in 5-minute buckets.  A tier is the set of its bucket   *)
(* starts, so that weeks and calendar months need not nest.  A row is the  *)
(* set of the items (counts of one flush) that were merged into it.        *)
(***************************************************************************)
EXTENDS Integers, FiniteSets, Sequences

CONSTANTS
    Ladders,     \* the ladders of the run: "metric", "span"
    MetricTiers, \* sequence of sets of bucket starts, finest first
    SpanTiers,
    Windows,     \* Windows[j]: how long tier j is kept, at the shortest
    MaxTime,     \* bound on the tierClock
    LateWrite,   \* MetricRollupLateWrite: a 5-minute row can be flushed this long after its start
    Lag,         \* spanrollup Config.Lag
    SpanRetry,   \* how long after its start a bucket's failed span rollup flush is retried
    Arriving,    \* buckets in which spans or points may arrive
    LateBuckets, \* buckets that get a second flush
    MaxQuiet,    \* maxQuietBuckets
    BucketsPerPass,
    MaxStops     \* bound on passes that stop half way

ASSUME TierAssumption ==
    /\ Ladders \subseteq {"metric", "span"}
    /\ MaxTime \in Nat /\ LateWrite \in Nat /\ Lag \in Nat /\ SpanRetry \in Nat /\ MaxQuiet \in Nat /\ MaxStops \in Nat
    /\ LateWrite <= Windows[1] /\ SpanRetry <= Windows[1]
    /\ \A T \in {MetricTiers, SpanTiers} :
          /\ Len(T) = Len(Windows) /\ T[1] = 0..MaxTime
          /\ \A j \in 1..Len(T) : 0 \in T[j] /\ T[j] \subseteq T[1]

VARIABLES
    ladder,
    tierClock,
    tierRows,       \* tierRows[j][b]: the items of tier j's row of bucket b, {} when there is none
    rawBuckets,        \* 5-minute buckets with raw spans in the spans table
    sawItems,    \* 5-minute buckets in which spans or points sawItems
    through,       \* through[j]: tier j is compacted up to here, NoMark before the first time
    tierPass,       \* the compactor: what it is building, and how far
    tierStops,
    flushed,    \* items that were ever in the 5-minute tier      (history, as the next ones)
    lateItems,  \* items flushed after their bucket was compacted
    everIn,     \* everIn[j]: items that were ever in tier j
    leftOut     \* <<j, b>>: buckets of tier j left out because of a gap

tierVars == <<ladder, tierClock, tierRows, rawBuckets, sawItems, through, tierPass, tierStops, flushed, lateItems, everIn, leftOut>>


NoMark == -1
Tiers == IF ladder = "metric" THEN MetricTiers ELSE SpanTiers
TopTier == Len(Windows)
Flushes == (0..MaxTime) \X {1, 2}       \* an item: the bucket and which flush of it

MaxOf(S) == CHOOSE x \in S : \A y \in S : y <= x
MinOf(S) == CHOOSE x \in S : \A y \in S : x <= y

\* Bucket arithmetic on the set S of a tier's bucket starts.  MaxTime + 1
\* stands for the end of modelled time.
TruncateIn(t, S) == MaxOf({b \in S : b <= t})
NextIn(b, S) == MinOf({c \in S : c > b} \cup {MaxTime + 1})

\* sourceWindow: the buckets of T[j - 1] that bucket b of T[j] is built from.
SourceWindowIn(T, j, b) ==
    {c \in T[j - 1] : /\ j > 1 /\ b \in T[j] /\ NextIn(b, T[j]) <= MaxTime
                      /\ TruncateIn(b, T[j - 1]) <= c
                      /\ c < TruncateIn(NextIn(b, T[j]), T[j - 1])}

\* The arithmetic of a ladder, tabulated.
Calendar(T) ==
    [trunc |-> [j \in 1..TopTier |-> [t \in 0..(MaxTime + 1) |-> TruncateIn(t, T[j])]],
     next |-> [j \in 1..TopTier |-> [t \in 0..(MaxTime + 1) |-> NextIn(t, T[j])]],
     window |-> [j \in 1..TopTier |-> [b \in 0..MaxTime |-> IF j = 1 THEN {} ELSE SourceWindowIn(T, j, b)]]]
MetricCalendar == Calendar(MetricTiers)
SpanCalendar == Calendar(SpanTiers)
Cal == IF ladder = "metric" THEN MetricCalendar ELSE SpanCalendar

TruncateBucket(t, j) == Cal.trunc[j][t]
NextBucket(b, j) == Cal.next[j][b]
SourceWindow(j, b) == Cal.window[j][b]

RowsOf(j) == {b \in Tiers[j] : tierRows[j][b] # {}}
Oldest(j) == IF RowsOf(j) = {} THEN NoMark ELSE MinOf(RowsOf(j))

NoPass == [stage |-> "idle", tier |-> 0, start |-> 0, rows |-> {}, done |-> 0]
PassAt(s, j) == [NoPass EXCEPT !.stage = s, !.tier = j]

TierInit ==
    /\ ladder \in Ladders
    /\ tierClock = 0
    /\ tierRows = [j \in 1..TopTier |-> [b \in 0..MaxTime |-> {}]]
    /\ rawBuckets = {} /\ sawItems = {}
    /\ through = [j \in 1..(TopTier - 1) |-> NoMark]
    /\ tierPass = NoPass /\ tierStops = 0
    /\ flushed = {} /\ lateItems = {} /\ leftOut = {}
    /\ everIn = [j \in 1..TopTier |-> {}]

----------------------------------------------------------------------------
\* The writer: spans or points of bucket b arrive in it, and a flush writes
\* what it counted, at once, after a retry, or never.

TierTick ==
    /\ tierClock < MaxTime /\ tierClock' = tierClock + 1
    /\ UNCHANGED <<ladder, tierRows, rawBuckets, sawItems, through, tierPass, tierStops, flushed, lateItems, everIn, leftOut>>

\* Rollups count every span; sampling may keep none of them in spans.
TierArrive ==
    /\ tierClock \in Arriving \ sawItems
    /\ sawItems' = sawItems \cup {tierClock}
    /\ rawBuckets' \in {rawBuckets} \cup {rawBuckets \cup {tierClock} : l \in {ladder} \cap {"span"}}
    /\ UNCHANGED <<ladder, tierClock, tierRows, through, tierPass, tierStops, flushed, lateItems, everIn, leftOut>>

\* Metric rows are flushed within LateWrite of their bucket's start; span
\* rows are retried beyond the compactor's Lag.
TierFlush(i) ==
    LET b == i[1]
    IN  /\ b \in sawItems /\ i \notin flushed /\ (i[2] = 2 => b \in LateBuckets)
        /\ tierClock < b + (IF ladder = "metric" THEN LateWrite ELSE SpanRetry)
        /\ tierRows' = [tierRows EXCEPT ![1][b] = @ \cup {i}]
        /\ flushed' = flushed \cup {i}
        /\ everIn' = [everIn EXCEPT ![1] = @ \cup {i}]
        /\ lateItems' = lateItems \cup
               {x \in {i} : (through[1] # NoMark /\ b < through[1])
                            \/ (tierPass.stage \in {"write", "mark"} /\ tierPass.tier = 2 /\ b < NextBucket(tierPass.start, 2))}
        /\ UNCHANGED <<ladder, tierClock, rawBuckets, sawItems, through, tierPass, tierStops, leftOut>>

----------------------------------------------------------------------------
\* The gap check (spanrollup complete.go)

BucketsBefore(j, from, to, open) == {b \in Tiers[j] : from <= b /\ b < to /\ b < open}

\* No span sawItems in a bucket that holds no rows, as far as the raw spans tell.
EmptyBucketsQuiet(B) == \A b \in B : tierRows[1][b] # {} \/ b \notin rawBuckets

SegmentCovered(j, from, to, open) ==
    LET want == BucketsBefore(j, from, to, open)
        got == want \cap RowsOf(j)
    IN  \/ got = want
        \/ /\ j = 1 /\ Cardinality(want \ got) <= MaxQuiet
           /\ EmptyBucketsQuiet(want)

WindowComplete(j, b) ==
    SegmentCovered(j - 1, b, NextBucket(b, j), NextBucket(b, j))

----------------------------------------------------------------------------
\* The compactor builds tier j from tier j - 1.

TierStart(j) ==
    IF through[j - 1] # NoMark THEN TruncateBucket(through[j - 1], j)
    ELSE IF Oldest(j - 1) # NoMark THEN TruncateBucket(Oldest(j - 1), j) ELSE NoMark

\* Mutant: a bucket is compacted as soon as it closed.
MetricReady_Closed(j, b) == NextBucket(b, j) + LateWrite <= tierClock

\* BucketClosed, and sourceThrough: the tier below must have been compacted
\* past the source window, unless it never was.
MetricReady(j, b) ==
    /\ NextBucket(b, j) + LateWrite <= tierClock
    /\ j > 2 => (through[j - 2] = NoMark \/ through[j - 2] >= TruncateBucket(NextBucket(b, j), j - 1))

\* readyThrough
SpanReady(j, b) ==
    IF j = 2 THEN NextBucket(b, j) + Lag <= tierClock
    ELSE through[1] # NoMark /\ NextBucket(b, j) <= through[1]

Ready(j) ==
    /\ TierStart(j) # NoMark /\ NextBucket(TierStart(j), j) <= MaxTime
    /\ IF ladder = "metric" THEN MetricReady(j, TierStart(j)) ELSE SpanReady(j, TierStart(j))

SourceItems(j, b) == UNION {tierRows[j - 1][c] : c \in SourceWindow(j, b)}

\* compactBucket reads the source rows of one bucket.
MetricRead(j, b) ==
    /\ tierPass' = [tierPass EXCEPT !.stage = "write", !.start = b, !.rows = SourceItems(j, b)]
    /\ UNCHANGED leftOut

\* compactRollupBucket leaves a bucket with a gap out, and goes on.
SpanRead(j, b) ==
    IF WindowComplete(j, b) THEN MetricRead(j, b)
    ELSE /\ tierPass' = [tierPass EXCEPT !.stage = "mark", !.start = b, !.rows = {}]
         /\ leftOut' = leftOut \cup {<<j, b>>}

\* RunOnce visits the tiers finest first.
RunOnce ==
    /\ tierPass.stage = "idle" /\ tierPass' = PassAt("tier", 2)
    /\ UNCHANGED <<ladder, tierClock, tierRows, rawBuckets, sawItems, through, tierStops, flushed, lateItems, everIn, leftOut>>

CompactTier ==
    /\ tierPass.stage = "tier" /\ Ready(tierPass.tier) /\ tierPass.done < BucketsPerPass
    /\ IF ladder = "metric" THEN MetricRead(tierPass.tier, TierStart(tierPass.tier))
                            ELSE SpanRead(tierPass.tier, TierStart(tierPass.tier))
    /\ UNCHANGED <<ladder, tierClock, tierRows, rawBuckets, sawItems, through, tierStops, flushed, lateItems, everIn>>

\* A tier that owes nothing, or has used its budget, gives way to the next;
\* after the last the span compactor repairs, finest tier first.
NextTier ==
    LET j == tierPass.tier
    IN  /\ \/ tierPass.stage = "tier" /\ (~Ready(j) \/ tierPass.done = BucketsPerPass)
           \/ tierPass.stage = "repair"
        /\ tierPass' = IF j < TopTier THEN PassAt(tierPass.stage, j + 1)
                   ELSE IF tierPass.stage = "tier" /\ ladder = "span" THEN PassAt("repair", 2) ELSE NoPass
        /\ UNCHANGED <<ladder, tierClock, tierRows, rawBuckets, sawItems, through, tierStops, flushed, lateItems, everIn, leftOut>>

\* Both tables take the bucket's row as it is now, whatever it tierRows.
UpsertCoarseRollups(j, b, S) ==
    /\ tierRows' = [tierRows EXCEPT ![j][b] = S]
    /\ everIn' = [everIn EXCEPT ![j] = @ \cup S]

ReplaceSpanRollups(j, b, S) ==
    /\ tierRows' = [tierRows EXCEPT ![j][b] = S]
    /\ everIn' = [everIn EXCEPT ![j] = @ \cup S]

WriteBucket ==
    /\ tierPass.stage = "write"
    /\ IF tierPass.rows = {} THEN UNCHANGED <<tierRows, everIn>>
       ELSE IF ladder = "metric" THEN UpsertCoarseRollups(tierPass.tier, tierPass.start, tierPass.rows)
       ELSE ReplaceSpanRollups(tierPass.tier, tierPass.start, tierPass.rows)
    /\ tierPass' = [tierPass EXCEPT !.stage = "mark"]
    /\ UNCHANGED <<ladder, tierClock, rawBuckets, sawItems, through, tierStops, flushed, lateItems, leftOut>>

\* SetMetricRollupWatermark, SetSpanRollupWatermark: never back.
SetWatermark ==
    LET j == tierPass.tier - 1
        end == NextBucket(tierPass.start, tierPass.tier)
    IN  /\ tierPass.stage = "mark"
        /\ through' = [through EXCEPT ![j] = IF @ > end THEN @ ELSE end]
        /\ tierPass' = [PassAt("tier", tierPass.tier) EXCEPT !.done = tierPass.done + 1]
        /\ UNCHANGED <<ladder, tierClock, tierRows, rawBuckets, sawItems, tierStops, flushed, lateItems, everIn, leftOut>>

\* An error, a cancelled context or a restart ends the pass.
PassStops ==
    /\ tierPass.stage \in {"write", "mark"} /\ tierStops < MaxStops
    /\ tierStops' = tierStops + 1 /\ tierPass' = NoPass
    /\ UNCHANGED <<ladder, tierClock, tierRows, rawBuckets, sawItems, through, flushed, lateItems, everIn, leftOut>>

\* repairTable: a bucket below the watermark that holds no row is built once
\* its window, which the source tier must hold from the start, is complete.
RepairStart(j) ==
    LET b == TruncateBucket(Oldest(j - 1), j)
    IN  IF b < Oldest(j - 1) THEN NextBucket(b, j) ELSE b

RepairBucket(b) ==
    LET j == tierPass.tier
    IN  /\ tierPass.stage = "repair"
        /\ through[j - 1] # NoMark /\ Oldest(j - 1) # NoMark
        /\ b \in Tiers[j] /\ RepairStart(j) <= b /\ NextBucket(b, j) <= through[j - 1]
        /\ tierRows[j][b] = {} /\ WindowComplete(j, b) /\ SourceItems(j, b) # {}
        /\ ReplaceSpanRollups(j, b, SourceItems(j, b))
        /\ UNCHANGED <<ladder, tierClock, rawBuckets, sawItems, through, tierPass, tierStops, flushed, lateItems, leftOut>>

----------------------------------------------------------------------------
\* Retention

\* Mutant: the watermark is ignored.
RollupCutoff_Window(j) == tierClock - Windows[j]

\* rollupCutoff: the window's cutoff, but not past the watermark; the top
\* tier has no watermark.
RollupCutoff(j) ==
    LET window == tierClock - Windows[j]
    IN  IF j = TopTier THEN window
        ELSE IF through[j] = NoMark THEN NoMark
        ELSE IF through[j] < window THEN through[j] ELSE window

\* spanTierCutoff
SpanTierCutoff(j) == RollupCutoff(j)

\* PassAt most a budget of rows of a tier is deleted, so a bucket may lose some of
\* its rows only; span tiers go oldest first.
DeleteRollupTier(j, b, i) ==
    /\ ladder = "metric" /\ i \in tierRows[j][b] /\ b < RollupCutoff(j)
    /\ tierRows' = [tierRows EXCEPT ![j][b] = @ \ {i}]
    /\ UNCHANGED <<ladder, tierClock, rawBuckets, sawItems, through, tierPass, tierStops, flushed, lateItems, everIn, leftOut>>

DeleteSpanTier(j, b, i) ==
    /\ ladder = "span" /\ b = Oldest(j) /\ i \in tierRows[j][b] /\ b < SpanTierCutoff(j)
    /\ tierRows' = [tierRows EXCEPT ![j][b] = @ \ {i}]
    /\ UNCHANGED <<ladder, tierClock, rawBuckets, sawItems, through, tierPass, tierStops, flushed, lateItems, everIn, leftOut>>

\* Retention removes the raw spans of old buckets on its own schedule.
ExpireRaw ==
    /\ ladder = "span" /\ \E b \in rawBuckets : b + Windows[1] < tierClock /\ rawBuckets' = rawBuckets \ {b}
    /\ UNCHANGED <<ladder, tierClock, tierRows, sawItems, through, tierPass, tierStops, flushed, lateItems, everIn, leftOut>>

\* bucketsBehind: closed buckets of tier j after the watermark done.
BucketsBehind(done, j) ==
    LET closed == IF tierClock - LateWrite < 0 THEN 0 ELSE TruncateBucket(tierClock - LateWrite, j)
    IN  Cardinality({b \in Tiers[j] : TruncateBucket(done, j) <= b /\ b < closed})

\* stallBuckets: three owed hours, or two owed buckets of a coarser tier.
StallBuckets(j) == IF ladder = "span" /\ j = 2 THEN 3 ELSE 2

\* Mutant: reads the watermark of the step it builds, not of its source.
Stalled_Step(j) ==
    j < TopTier /\ through[j] # NoMark /\ BucketsBehind(through[j], j) >= StallBuckets(j)

\* reportRollupStalls
Stalled(j) == through[j - 1] # NoMark /\ BucketsBehind(through[j - 1], j) >= StallBuckets(j)

TierNext ==
    \/ TierTick \/ TierArrive
    \/ \E i \in Flushes : TierFlush(i)
    \/ RunOnce \/ CompactTier \/ NextTier
    \/ WriteBucket \/ SetWatermark \/ PassStops
    \/ \E b \in 0..MaxTime : RepairBucket(b)
    \/ \E j \in 1..TopTier : \E b \in RowsOf(j) : \E i \in tierRows[j][b] :
          DeleteRollupTier(j, b, i) \/ DeleteSpanTier(j, b, i)
    \/ ExpireRaw

TierSpec == TierInit /\ [][TierNext]_tierVars

----------------------------------------------------------------------------
\* Reading span rollups

Coverage == [oldest |-> [j \in 1..TopTier |-> Oldest(j)], through |-> through]

\* coarseSegment: the run of whole buckets of the coarsest tier at cur.
CoarseEnd(cur, to, j, cov) ==
    MaxOf({cur} \cup {e \in Tiers[j] : e > cur /\ e <= to /\ e <= cov.through[j - 1]})

\* Mutant: the oldest bucket of a coarse tier is read too.
CoarseTiers_Oldest(cur, to, cov) ==
    {j \in 2..TopTier : /\ cur \in Tiers[j]
                    /\ cov.oldest[j] # NoMark /\ cur >= cov.oldest[j]
                    /\ cov.through[j - 1] # NoMark
                    /\ CoarseEnd(cur, to, j, cov) > cur}

CoarseTiers(cur, to, cov) ==
    {j \in 2..TopTier : /\ cur \in Tiers[j]
                    /\ cov.oldest[j] # NoMark /\ cur > cov.oldest[j]
                    /\ cov.through[j - 1] # NoMark
                    /\ CoarseEnd(cur, to, j, cov) > cur}

\* Plan: Seg[cur] is the sequence of segments from cur, <<>> past the end, and
\* <<FALSE>> first when the tiers do not hold it.
Plan(from, to, cov) ==
    LET Seg[cur \in 0..(MaxTime + 1)] ==
            IF cur >= to THEN <<>>
            ELSE LET C == CoarseTiers(cur, to, cov)
                     j == IF C # {} THEN MaxOf(C) ELSE 1
                     e == IF C # {} THEN CoarseEnd(cur, to, j, cov) ELSE cur + 1
                 IN  IF C = {} /\ (cov.oldest[1] = NoMark \/ cur < cov.oldest[1])
                     THEN <<[ok |-> FALSE]>>
                     ELSE <<[ok |-> TRUE, tier |-> j, from |-> cur, to |-> e]>> \o Seg[e]
    IN  Seg[from]

PlanOK(P) == \A n \in 1..Len(P) : P[n].ok
PlanComplete(P, open) ==
    \A n \in 1..Len(P) : SegmentCovered(P[n].tier, P[n].from, P[n].to, open)
PlanItems(P) ==
    UNION {UNION {tierRows[P[n].tier][b] : b \in {c \in Tiers[P[n].tier] : P[n].from <= c /\ c < P[n].to}}
              : n \in 1..Len(P)}

----------------------------------------------------------------------------
TierTypeOK ==
    /\ ladder \in {"metric", "span"} /\ tierClock \in 0..MaxTime
    /\ \A j \in 1..TopTier : tierRows[j] \in [(0..MaxTime) -> SUBSET Flushes] /\ everIn[j] \subseteq Flushes
    /\ rawBuckets \subseteq sawItems /\ sawItems \subseteq 0..tierClock
    /\ through \in [1..(TopTier - 1) -> (-1)..MaxTime]
    /\ tierPass.stage \in {"idle", "tier", "write", "mark", "repair"} /\ tierPass.tier \in 0..TopTier
    /\ tierStops \in 0..MaxStops
    /\ flushed \subseteq Flushes /\ lateItems \subseteq flushed

\* The 5-minute buckets that each bucket of each tier is built from.
LeavesIn(T) ==
    LET L[j \in 1..TopTier] ==
            [b \in 0..MaxTime |-> IF j = 1 THEN {b}
                                  ELSE IF b \notin T[j] THEN {}
                                  ELSE UNION {L[j - 1][c] : c \in SourceWindowIn(T, j, b)}]
    IN  [j \in 1..TopTier |-> [b \in 0..MaxTime |-> L[j][b]]]
MetricLeaves == LeavesIn(MetricTiers)
SpanLeaves == LeavesIn(SpanTiers)
LeavesOf == IF ladder = "metric" THEN MetricLeaves ELSE SpanLeaves
ItemsOf(j, b) == {i \in flushed : i[1] \in LeavesOf[j][b]}

\* A bucket of tier j that ends in another bucket of tier j + 1 than it starts in.
StraddlingIn(T) == {k \in (1..(TopTier - 1)) \X (0..MaxTime) :
                      k[2] \in T[k[1]] /\ \E m \in T[k[1] + 1] : k[2] < m /\ m < NextIn(k[2], T[k[1]])}
MetricStraddling == StraddlingIn(MetricTiers)
Straddling == IF ladder = "metric" THEN MetricStraddling ELSE {}

\* The items of tier j that were flushed in time and are under no bucket of out.
DueIn(j, out) ==
    LET except == UNION {LeavesOf[k[1]][k[2]] : k \in out}
    IN  {i \in everIn[j] \ lateItems : i[1] \notin except}
InTier(j) == UNION {tierRows[j][b] : b \in Tiers[j]}

\* Retention deletes a row only after the tier above has taken it in, wherever
\* a pass, a flush or a restart stood when the watermark moved
\* (rollup_tiers.go).  This is not claimed of a week that straddles two
\* months: sourceWindow gives it to the month it ends in (tiers.go:107), while
\* the earlier month's pass moves the watermark past the week's start and so
\* releases its rows first.
SummarisedBeforeDeleted ==
    \A j \in 1..(TopTier - 1) : DueIn(j, leftOut \cup Straddling) \subseteq InTier(j) \cup everIn[j + 1]

\* A coarse row that a pass builds holds each item of its window that was
\* flushed in time, and nothing else: rows are never merged twice, and a window
\* with a missing bucket is not built (compactBucket, windowComplete).  Checked
\* where it is built; a repair may find its window cut by retention.
BuiltFromWholeWindow ==
    /\ \A j \in 2..TopTier : \A b \in RowsOf(j) : tierRows[j][b] \subseteq ItemsOf(j, b)
    /\ tierPass.stage = "write" =>
          (ItemsOf(tierPass.tier, tierPass.start) \cap DueIn(1, leftOut \cup Straddling)) \subseteq tierPass.rows

\* A compactor with nothing left to compact is not reported as stalled, whatever
\* the tierClock, the tiers and their watermarks (bucketsBehind against BucketClosed,
\* sourceThrough and readyThrough).
NoFalseStall ==
    (tierPass.stage = "idle" /\ \A j \in 2..TopTier : ~Ready(j)) => \A j \in 2..TopTier : ~Stalled(j)

\* A planned read of the span tiers, checked for gaps, counts each span of its
\* range once: no tier's bucket overlaps another segment's, and the segments
\* leave nothing out but late and left-out windows and the rows retention
\* deletes from the oldest bucket (Plan, Complete).
PlanCountsOnce ==
    (ladder = "span" /\ tierPass.stage = "idle") =>
    LET repaired == {k \in leftOut : tierRows[k[1]][k[2]] # {}}
        due == {i \in DueIn(1, repaired) : i[1] # Oldest(1)}
    IN  \A cov \in {Coverage} : \A from \in 0..tierClock : \A to \in {tierClock, tierClock + 1} :
            LET P == Plan(from, to, cov)
                L == [n \in 1..Len(P) |->
                         UNION {LeavesOf[P[n].tier][b] : b \in {c \in Tiers[P[n].tier] : P[n].from <= c /\ c < P[n].to}}]
            IN  (PlanOK(P) /\ PlanComplete(P, tierClock)) =>
                    /\ UNION {L[n] : n \in 1..Len(P)} = from..(to - 1)
                    /\ \A m, n \in 1..Len(P) : m # n => L[m] \cap L[n] = {}
                    /\ {i \in due : from <= i[1] /\ i[1] < to} \subseteq PlanItems(P)

\* The tiers keep history: rows are summarised before retention deletes them,
\* coarse rows are built from whole windows, an idle compactor is not reported
\* as stalled, and a planned read counts each span once (rollup_tiers.go,
\* compactor.go, plan.go).
TiersInv ==
    /\ TierTypeOK
    /\ SummarisedBeforeDeleted
    /\ BuiltFromWholeWindow
    /\ NoFalseStall
    /\ PlanCountsOnce
=============================================================================
