---------------------------- MODULE MetricPoints ----------------------------
(***************************************************************************)
(* The raw metric points of one counter: the repeat filter in front of the *)
(* metrics table (internal/aggregation/metric_repeats.go), the retried     *)
(* insert behind it (cmd/spanbarn), and what a chart reads back            *)
(* (internal/metrics): rates, totals, the chains of producers that share a *)
(* label set, and the percentiles of a histogram.                          *)
(*                                                                         *)
(* A producer exports a running total; a tick sees one export.  A process  *)
(* is one start time of a producer.  Three fleets are explored apart, and  *)
(* failing inserts only with the first:                                    *)
(*   "single"    one producer, whose process may be restarted;             *)
(*   "labelled"  two producers with label sets of their own;               *)
(*   "shared"    two producers that share one label set.                   *)
(* "hist" explores the percentiles of an explicit-bucket or exponential    *)
(* histogram as observations are added to it.                              *)
(***************************************************************************)
EXTENDS Integers, Sequences, FiniteSets, SequencesExt

CONSTANTS
    MpModes,        \* the fleets explored
    Growth,         \* mode -> by how much a total may grow between two exports
    FirstTotal,     \* <<t1, t2>>: the totals the two producers start from
    Heartbeat,      \* ticks after which an unchanged stream is written again
    MpMaxTime,      \* bound on the clock
    MpMaxPoints,    \* mode -> bound on the exported points
    MpMaxStarts,    \* bound on the processes of the single producer
    MpMaxFaults,    \* bound on failed inserts
    StoreAttempts,  \* attempts an insert gets
    HistBounds,     \* the upper bounds of the explicit histogram
    MaxObserved     \* bound on the observations of a histogram

ASSUME MetricPointAssumption ==
    /\ MpModes \subseteq {"single", "labelled", "shared", "hist"}
    /\ DOMAIN Growth = MpModes /\ (\A m \in MpModes : Growth[m] \subseteq Nat) /\ FirstTotal \in Nat \X Nat
    /\ Heartbeat \in Nat \ {0} /\ StoreAttempts \in Nat \ {0}
    /\ MpMaxTime \in Nat /\ MpMaxPoints \in [MpModes -> Nat] /\ MpMaxStarts \in Nat
    /\ MpMaxFaults \in Nat /\ MaxObserved \in Nat
    /\ HistBounds \in Seq(Nat)
    /\ \A i \in 2..Len(HistBounds) : HistBounds[i - 1] < HistBounds[i]

VARIABLES
    mpMode,      \* the fleet
    mpClock,     \* the time
    process,     \* producer -> [start, total]: its running process
    starts,      \* processes started so far
    streams,     \* start -> the filter's memory of that stream, or NoStream
    lastSweep,   \* when the filter last forgot idle streams
    unwritten,   \* kept points whose insert has not succeeded
    attempts,    \* failed attempts of that insert
    mpTable,     \* the metrics table: the stored points, in time order
    histo,       \* the histogram of mode "hist"
    mpFaults,    \* failed inserts so far
    exported,    \* history: every exported point, in time order
    gaveUp,      \* history: a batch was dropped after its attempts
    sweptHeld    \* history: the filter forgot a stream that held a point

filterVars == <<streams, lastSweep, sweptHeld>>
insertVars == <<unwritten, attempts, mpTable, mpFaults, gaveUp>>
mpVars == <<mpMode, mpClock, process, starts, filterVars, insertVars, histo, exported>>

Producers == IF mpMode = "single" THEN {1} ELSE IF mpMode = "hist" THEN {} ELSE {1, 2}
Starts == 1..(MpMaxStarts + 1)
NoStream == [value |-> -1]
NoHeld == [t |-> -1]

(***************************************************************************)
(* The repeat filter.                                                      *)
(***************************************************************************)

\* The label set of producer p's points.
LabelOf(p) == IF mpMode = "shared" THEN 0 ELSE p

\* The streams of a series, in start order (f.starts[series]).
StreamsOf(lab) ==
    SelectSeq([s \in 1..(MpMaxStarts + 1) |-> s],
              LAMBDA s : streams[s] /= NoStream /\ streams[s].label = lab)

HeldOf(lab) ==
    SelectSeq([k \in DOMAIN StreamsOf(lab) |-> streams[StreamsOf(lab)[k]].held],
              LAMBDA h : h /= NoHeld)

\* Mutant: the held points of the other streams stay held.
Release_Nothing(lab) == [out |-> <<>>, streams |-> streams]

\* A series that gains a stream writes what its other streams hold.
Release(lab) ==
    [out |-> HeldOf(lab),
     streams |-> [s \in Starts |->
        IF streams[s] /= NoStream /\ streams[s].label = lab /\ streams[s].held /= NoHeld
        THEN [streams[s] EXCEPT !.written = streams[s].held.t, !.held = NoHeld]
        ELSE streams[s]]]

\* The filter's answer to a point: what to write and its new memory.
NewStream(pt) ==
    LET freed == Release(pt.label) IN
    [out |-> Append(freed.out, pt),
     streams |-> [freed.streams EXCEPT ![pt.start] =
        [label |-> pt.label, value |-> pt.v, written |-> pt.t, held |-> NoHeld, seen |-> mpClock]]]

\* Mutant: a held point counts as written, so the heartbeat is measured from it.
RepeatedPoint_Slides(pt) ==
    IF pt.t >= streams[pt.start].written + Heartbeat
    THEN [out |-> <<pt>>,
          streams |-> [streams EXCEPT ![pt.start].written = pt.t, ![pt.start].held = NoHeld,
                                      ![pt.start].seen = mpClock]]
    ELSE [out |-> <<>>,
          streams |-> [streams EXCEPT ![pt.start].held = pt, ![pt.start].written = pt.t,
                                      ![pt.start].seen = mpClock]]

RepeatedPoint(pt) ==
    LET st == streams[pt.start] IN
    IF pt.t >= st.written + Heartbeat
    THEN [out |-> <<pt>>,
          streams |-> [streams EXCEPT ![pt.start].written = pt.t, ![pt.start].held = NoHeld,
                                      ![pt.start].seen = mpClock]]
    ELSE [out |-> <<>>,
          streams |-> [streams EXCEPT ![pt.start].held = pt, ![pt.start].seen = mpClock]]

\* Mutant: the held repeat is not written before the change.
ChangedPoint_DropsHeld(pt) ==
    [out |-> <<pt>>,
     streams |-> [streams EXCEPT ![pt.start].value = pt.v, ![pt.start].written = pt.t,
                                 ![pt.start].held = NoHeld, ![pt.start].seen = mpClock]]

\* Mutant: the held repeat stays held after it was written.
ChangedPoint_KeepsHeld(pt) ==
    LET st == streams[pt.start] IN
    [out |-> IF st.held = NoHeld THEN <<pt>> ELSE <<st.held, pt>>,
     streams |-> [streams EXCEPT ![pt.start].value = pt.v, ![pt.start].written = pt.t,
                                 ![pt.start].seen = mpClock]]

ChangedPoint(pt) ==
    LET st == streams[pt.start] IN
    [out |-> IF st.held = NoHeld THEN <<pt>> ELSE <<st.held, pt>>,
     streams |-> [streams EXCEPT ![pt.start].value = pt.v, ![pt.start].written = pt.t,
                                 ![pt.start].held = NoHeld, ![pt.start].seen = mpClock]]

KeepPoint(pt) ==
    IF streams[pt.start] = NoStream THEN NewStream(pt)
    ELSE IF streams[pt.start].value = pt.v THEN RepeatedPoint(pt)
    ELSE ChangedPoint(pt)

\* Keep ends with a sweep: once every three heartbeats it forgets the streams
\* not seen for as long, with the points they hold.
SweepDue == mpClock - lastSweep >= 3 * Heartbeat
Idle(st) == st /= NoStream /\ mpClock - st.seen >= 3 * Heartbeat

Sweep(mem) ==
    IF ~SweepDue
    THEN streams' = mem /\ UNCHANGED <<lastSweep, sweptHeld>>
    ELSE /\ streams' = [s \in Starts |-> IF Idle(mem[s]) THEN NoStream ELSE mem[s]]
         /\ lastSweep' = mpClock
         /\ sweptHeld' = (sweptHeld \/ \E s \in Starts : Idle(mem[s]) /\ mem[s].held /= NoHeld)

(***************************************************************************)
(* One batch of the metrics consumer: Keep, then an insert that is retried *)
(* without Keep.                                                           *)
(***************************************************************************)

\* The table is read in time order.
InOrder(pts) == SortSeq(pts, LAMBDA a, b : a.t < b.t)

Stores(pts) ==
    /\ mpTable' = InOrder(mpTable \o pts)
    /\ unwritten' = <<>> /\ attempts' = 0
    /\ UNCHANGED <<mpFaults, gaveUp>>

\* A failed attempt is repeated until StoreAttempts have failed; then the
\* points are dropped, and the filter keeps them as written.
StoreFails(pts, tries) ==
    /\ mpMode = "single" /\ pts /= <<>> /\ mpFaults < MpMaxFaults
    /\ mpFaults' = mpFaults + 1
    /\ IF tries < StoreAttempts
       THEN attempts' = tries /\ unwritten' = pts /\ UNCHANGED gaveUp
       ELSE attempts' = 0 /\ unwritten' = <<>> /\ gaveUp' = TRUE
    /\ UNCHANGED mpTable

\* The batch of one point.  (An empty batch is not inserted.)
Batch(pt) ==
    LET kept == KeepPoint(pt) IN
    /\ Sweep(kept.streams)
    /\ exported' = Append(exported, pt)
    /\ Stores(kept.out) \/ StoreFails(kept.out, 1)

\* A producer exports its total.
Export(p, grow) ==
    LET total == process[p].total + grow IN
    /\ p \in Producers
    /\ unwritten = <<>>
    /\ Len(exported) < MpMaxPoints[mpMode] /\ grow \in Growth[mpMode]
    /\ \A i \in DOMAIN exported : exported[i].t < mpClock
    /\ process' = [process EXCEPT ![p].total = total]
    /\ Batch([t |-> mpClock, v |-> total, label |-> LabelOf(p), start |-> process[p].start])
    /\ UNCHANGED <<mpMode, mpClock, starts, histo>>

\* Mutant: the retry asks the filter again.
RetryWrite_Keeps ==
    /\ unwritten /= <<>>
    /\ LET kept == KeepPoint(Last(unwritten)) IN
       Sweep(kept.streams) /\ (Stores(kept.out) \/ StoreFails(kept.out, attempts + 1))
    /\ UNCHANGED <<mpMode, mpClock, process, starts, histo, exported>>

\* A retry writes the kept points as they are.
RetryWrite ==
    /\ unwritten /= <<>>
    /\ Stores(unwritten) \/ StoreFails(unwritten, attempts + 1)
    /\ UNCHANGED <<mpMode, mpClock, process, starts, filterVars, histo, exported>>

\* The producer's process is replaced: a new start time and a total of zero.
Restart ==
    /\ mpMode = "single" /\ starts < MpMaxStarts /\ unwritten = <<>>
    /\ starts' = starts + 1
    /\ process' = [process EXCEPT ![1] = [start |-> starts + 1, total |-> 0]]
    /\ UNCHANGED <<mpMode, mpClock, filterVars, insertVars, histo, exported>>

MpTick ==
    /\ mpMode /= "hist" /\ mpClock < MpMaxTime /\ unwritten = <<>>
    /\ mpMode = "shared" => \E i \in DOMAIN exported : exported[i].t = mpClock
    /\ mpClock' = mpClock + 1
    /\ UNCHANGED <<mpMode, process, starts, filterVars, insertVars, histo, exported>>

(***************************************************************************)
(* Reading back.  A point list is sorted by time.                          *)
(***************************************************************************)

Values(pts) == [i \in DOMAIN pts |-> pts[i].v]

\* Rebounds: the value falls and climbs back to where it was.
Rebounds(v) == {i \in 3..Len(v) : v[i - 1] < v[i - 2] /\ v[i] >= v[i - 2]}
Interleaved(v) == Cardinality(Rebounds(v)) >= 2

\* The largest step before i that rises past v[i], 0 when there is none; the
\* earliest of equals.
StepsOver(v, prev, i) == {j \in 1..(i - 1) : prev[j] /= 0 /\ v[prev[j]] <= v[i] /\ v[j] >= v[i]}
Width(v, prev, j) == v[j] - v[prev[j]]

WidestStepOver(v, prev, i) ==
    LET wide == {j \in StepsOver(v, prev, i) : Width(v, prev, j) > 0} IN
    IF wide = {} THEN 0
    ELSE CHOOSE j \in wide : \A k \in wide :
            \/ Width(v, prev, j) > Width(v, prev, k)
            \/ Width(v, prev, j) = Width(v, prev, k) /\ j <= k

\* Mutant: such a value always starts a chain.
StartChain_New(v, prev, i) == [prev EXCEPT ![i] = 0]

\* A value below every chain takes the place of the widest step over it, and
\* the higher value starts a chain of its own in the same way.
RECURSIVE StartChain(_, _, _)
StartChain(v, prev, i) ==
    LET j == WidestStepOver(v, prev, i) IN
    IF j = 0 THEN [prev EXCEPT ![i] = 0]
    ELSE StartChain(v, [prev EXCEPT ![i] = prev[j]], j)

\* The chain a value joins: the one with the largest last value not above it,
\* the first of equals.
BestChain(v, lasts, x) ==
    LET fit == {c \in DOMAIN lasts : v[lasts[c]] <= x} IN
    IF fit = {} THEN 0
    ELSE CHOOSE c \in fit : \A d \in fit :
            \/ v[lasts[c]] > v[lasts[d]]
            \/ v[lasts[c]] = v[lasts[d]] /\ c <= d

\* prev[i]: the index before i on its chain, 0 when i starts one.
ChainPrevious(v) ==
    LET Link(acc, i) ==
            LET c == BestChain(v, acc.lasts, v[i]) IN
            IF c = 0
            THEN [prev |-> StartChain(v, acc.prev, i), lasts |-> Append(acc.lasts, i)]
            ELSE [prev |-> [acc.prev EXCEPT ![i] = acc.lasts[c]],
                  lasts |-> [acc.lasts EXCEPT ![c] = i]]
    IN FoldLeft(Link, [prev |-> [i \in DOMAIN v |-> 0], lasts |-> <<>>],
                [i \in DOMAIN v |-> i]).prev

\* The increase from one point to the next; a fall is a restart.
StepUp(from, to) == IF to >= from THEN to - from ELSE to

SumSeq(s) == FoldLeft(LAMBDA a, b : a + b, 0, s)

\* How much one series grew over its points.
Increase(pts) ==
    LET v == Values(pts)
        prev == ChainPrevious(v)
    IN IF Interleaved(v)
       THEN SumSeq([i \in DOMAIN v |-> IF prev[i] = 0 THEN 0 ELSE v[i] - v[prev[i]]])
       ELSE SumSeq([i \in DOMAIN v |-> IF i = 1 THEN 0 ELSE StepUp(v[i - 1], v[i])])

\* Increases are worked out per full label set and then added into a group.
SeriesPoints(pts, lab) == SelectSeq(pts, LAMBDA pt : pt.label = lab)

\* Mutant: the points of the group are differenced as one series.
Totals_Mixed(pts) == Increase(pts)

Totals(pts) ==
    SumSeq(<<Increase(SeriesPoints(pts, 0)), Increase(SeriesPoints(pts, 1)),
             Increase(SeriesPoints(pts, 2))>>)

\* The rate at point i of one series: the step up and the ticks it took.  The
\* first point, and one no later than the point before it, has none.
HasRate(pts, i) == i > 1 /\ pts[i].t > pts[i - 1].t
PointRate(pts, i) == <<StepUp(pts[i - 1].v, pts[i].v), pts[i].t - pts[i - 1].t>>

SameRate(a, b) == a[1] * b[2] = b[1] * a[2]

(***************************************************************************)
(* Percentiles.  A quantile is given in percent and its estimate is the    *)
(* fraction <<numerator, denominator>>.                                    *)
(***************************************************************************)

\* The buckets of an exponential histogram of scale 0 and offset 0, flattened:
\* the zero bucket if it counts anything, bucket i up to 2^i, and an empty
\* overflow bucket.
ExpToExplicit(h) ==
    LET zero == IF h.zero > 0 THEN <<h.zero>> ELSE <<>> IN
    [bounds |-> [i \in DOMAIN zero |-> 0] \o [i \in DOMAIN h.counts |-> 2 ^ i],
     counts |-> zero \o h.counts \o <<0>>]

HistoBuckets(h) ==
    IF h.kind = "exp_histogram" THEN ExpToExplicit(h)
    ELSE [bounds |-> HistBounds, counts |-> h.counts]

\* The first bucket with at least the target number of observations up to it.
UpTo(c, i) == SumSeq(SubSeq(c, 1, i))
Reached(c, q) == {i \in DOMAIN c : 100 * UpTo(c, i) >= q * SumSeq(c)}
FirstReached(c, q) == CHOOSE i \in Reached(c, q) : \A j \in Reached(c, q) : i <= j

LowerEdge(b, i) == IF i > 1 /\ i - 1 <= Len(b) THEN b[i - 1] ELSE 0

\* Mutant: the bucket's own count is already in the running count.
HistogramQuantile_CountsTwice(b, c, q) ==
    LET i == FirstReached(c, q)
        lower == LowerEdge(b, i)
    IN IF SumSeq(c) = 0 THEN <<0, 1>>
       ELSE IF i > Len(b) \/ c[i] = 0 THEN <<lower, 1>>
       ELSE <<lower * 100 * c[i] + (q * SumSeq(c) - 100 * UpTo(c, i)) * (b[i] - lower),
              100 * c[i]>>

\* Linear interpolation inside that bucket; the overflow bucket stands at its
\* lower edge.
HistogramQuantile(b, c, q) ==
    LET i == FirstReached(c, q)
        lower == LowerEdge(b, i)
    IN IF SumSeq(c) = 0 THEN <<0, 1>>
       ELSE IF i > Len(b) \/ c[i] = 0 THEN <<lower, 1>>
       ELSE <<lower * 100 * c[i] + (q * SumSeq(c) - 100 * UpTo(c, i - 1)) * (b[i] - lower),
              100 * c[i]>>

Percentile(h, q) == HistogramQuantile(HistoBuckets(h).bounds, HistoBuckets(h).counts, q)

AtMost(x, y) == x[1] * y[2] <= y[1] * x[2]

\* A histogram counts one more observation.
Observe(i) ==
    /\ mpMode = "hist" /\ SumSeq(histo.counts) + histo.zero < MaxObserved
    /\ \/ i = 0 /\ histo.kind = "exp_histogram" /\ histo' = [histo EXCEPT !.zero = @ + 1]
       \/ i \in DOMAIN histo.counts /\ histo' = [histo EXCEPT !.counts[i] = @ + 1]
    /\ UNCHANGED <<mpMode, mpClock, process, starts, filterVars, insertVars, exported>>

(***************************************************************************)
(* The specification.                                                      *)
(***************************************************************************)

MpInit ==
    /\ mpMode \in MpModes
    /\ mpClock = 0
    /\ process = [p \in {1, 2} |-> [start |-> p, total |-> FirstTotal[p]]]
    /\ starts = 2
    /\ streams = [s \in Starts |-> NoStream]
    /\ lastSweep = 0
    /\ unwritten = <<>> /\ attempts = 0 /\ mpTable = <<>> /\ mpFaults = 0
    /\ histo \in IF mpMode = "hist"
                THEN {[kind |-> "histogram", zero |-> 0,
                       counts |-> [i \in 1..(Len(HistBounds) + 1) |-> 0]],
                      [kind |-> "exp_histogram", zero |-> 0,
                       counts |-> [i \in 1..Len(HistBounds) |-> 0]]}
                ELSE {[kind |-> "none", zero |-> 0, counts |-> <<>>]}
    /\ exported = <<>> /\ gaveUp = FALSE /\ sweptHeld = FALSE

MpNext ==
    \/ \E p \in {1, 2}, grow \in UNION {Growth[m] : m \in MpModes} : Export(p, grow)
    \/ RetryWrite
    \/ Restart
    \/ MpTick
    \/ \E i \in 0..(Len(HistBounds) + 1) : Observe(i)

MpSpec == MpInit /\ [][MpNext]_mpVars

(***************************************************************************)
(* Properties.                                                             *)
(***************************************************************************)

Settled == unwritten = <<>> /\ ~gaveUp

PointsOk(pts) ==
    \A i \in DOMAIN pts :
        /\ pts[i].t \in 0..MpMaxTime /\ pts[i].v \in Nat
        /\ pts[i].label \in 0..2 /\ pts[i].start \in Starts

\* The types of the filter's memory, the table and the histogram
\* (metric_repeats.go, derive.go); no point is stored twice, and none the
\* producer did not export.
MpTypeOK ==
    /\ mpMode \in MpModes /\ mpClock \in 0..MpMaxTime
    /\ process \in [{1, 2} -> [start : Starts, total : Nat]]
    /\ starts \in Starts /\ lastSweep \in 0..mpClock
    /\ attempts \in 0..(StoreAttempts - 1) /\ mpFaults \in 0..MpMaxFaults
    /\ PointsOk(mpTable \o unwritten \o exported)
    /\ IsInjective(mpTable \o unwritten)
    /\ Range(mpTable \o unwritten) \subseteq Range(exported)
    /\ \A s \in Starts : streams[s] /= NoStream =>
          /\ streams[s].written <= streams[s].seen
          /\ streams[s].held /= NoHeld => streams[s].held.v = streams[s].value
    /\ {gaveUp, sweptHeld} \subseteq BOOLEAN

\* "Rates stay exact" (metric_repeats.go): every stored point of a producer
\* has the rate it would have if every exported point were stored, whatever
\* was held back and released around changes, restarts, heartbeats and
\* retried inserts.
RatesExact ==
    (mpMode = "single" /\ Settled /\ ~sweptHeld /\ ~Interleaved(Values(exported))) =>
        \A i \in DOMAIN mpTable : HasRate(mpTable, i) =>
            \E j \in DOMAIN exported :
                /\ exported[j] = mpTable[i]
                /\ SameRate(PointRate(mpTable, i), PointRate(exported, j))

\* Totals over the filtered table are the totals over every exported point,
\* for one producer with restarts and for producers with their own labels
\* (totals.go, metric_repeats.go).
TotalsExact ==
    (mpMode \in {"single", "labelled"} /\ Settled) => Totals(mpTable) = Totals(exported)

\* Increases are worked out per full label set before they are added into a
\* group, so the total of producers that never restart is what they grew by
\* since their first points (totals.go).
GrowthOf(s) ==
    LET own == SelectSeq(exported, LAMBDA pt : pt.start = s) IN
    IF own = <<>> THEN 0 ELSE own[Len(own)].v - own[1].v

GroupTotalsGrowth ==
    (mpMode = "labelled" /\ Settled) => Totals(mpTable) = GrowthOf(1) + GrowthOf(2)

\* Two producers sharing a label set cannot be told apart.  Once the series
\* is seen to be interleaved, the steps of its chains sum to what the producers
\* grew by as long as the lower total stays below the higher ("the sum of the
\* steps still comes out right", interleaved.go); a total that catches up with
\* the other makes the sum too small, never too large.
Apart ==
    \A i, j \in DOMAIN exported :
        exported[i].start = 1 /\ exported[j].start = 2 => exported[i].v < exported[j].v

ChainsSumToGrowth ==
    (mpMode = "shared" /\ Interleaved(Values(exported))) =>
        LET grown == GrowthOf(1) + GrowthOf(2)
            summed == Increase(exported)
        IN summed <= grown /\ (Apart => summed = grown)

\* "A stream that does not change still writes one point per heartbeat, so it
\* stays visible in a short query window" (metric_repeats.go): an exported
\* point has a stored point of its process less than a heartbeat before it.
HeartbeatKept ==
    Settled => \A i \in DOMAIN exported : \E j \in DOMAIN mpTable :
        /\ mpTable[j].start = exported[i].start
        /\ mpTable[j].t <= exported[i].t /\ exported[i].t < mpTable[j].t + Heartbeat

\* The percentiles of a histogram are in order, and each lies in the bucket
\* that holds the observation of that rank, whatever buckets are empty
\* (histogramQuantile, derive.go).
RankBucket(c, q) ==
    LET flat == FlattenSeq([i \in DOMAIN c |-> [k \in 1..c[i] |-> i]])
        rank == (q * Len(flat) + 99) \div 100
    IN flat[rank]

PercentilesPlaced ==
    mpMode = "hist" =>
        LET b == HistoBuckets(histo).bounds
            c == HistoBuckets(histo).counts
        IN /\ AtMost(Percentile(histo, 50), Percentile(histo, 95))
           /\ AtMost(Percentile(histo, 95), Percentile(histo, 99))
           /\ SumSeq(c) > 0 => \A q \in {50, 95, 99} :
                LET i == RankBucket(c, q) IN
                /\ AtMost(<<LowerEdge(b, i), 1>>, Percentile(histo, q))
                /\ i <= Len(b) => AtMost(Percentile(histo, q), <<b[i], 1>>)

\* What a query derives from the filtered points is what it would derive from
\* all exported points: rates, totals, heartbeats, percentiles and the growth of
\* interleaved producers (metric_repeats.go, derive.go, totals.go).
SeriesFaithful ==
    /\ MpTypeOK
    /\ RatesExact
    /\ TotalsExact
    /\ GroupTotalsGrowth
    /\ HeartbeatKept
    /\ PercentilesPlaced
    /\ ChainsSumToGrowth
=============================================================================
