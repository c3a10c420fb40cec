---------------------------- MODULE Accumulators ----------------------------
(***************************************************************************)
(* The in-memory counters that are flushed on a ticker: the span           *)
(* Accumulator, SpanRollups, spanEdges and MetricAccumulator               *)
(* (internal/aggregation), and the span ledger Tally (internal/spanledger) *)
(* with its two sinks, Redis in a reader pod and the store in a writer.    *)
(*                                                                         *)
(* All share one protocol.  A flush takes the counts under the lock, writes *)
(* them in sorted chunks, one transaction each, while producers keep adding, *)
(* and puts back what a failed write left unwritten.  The stores add on    *)
(* conflict, so a count that is put back after it landed is counted twice. *)
(*                                                                         *)
(* A count is named by the item (span, point) it comes from, which makes   *)
(* double and lost counts visible; a row is a bucket, a service and a name. *)
(***************************************************************************)
EXTENDS Integers, FiniteSets

CONSTANTS
    Items,         \* spans, metric points or accepted spans
    ItemBucket,    \* [Items -> Nat]: the bucket an item falls in
    ItemService,   \* [Items -> Named]
    ItemName,      \* [Items -> Named]
    AccKinds,      \* the accumulators of the run
    MaxNames, MaxServices,   \* SpanRollupConfig: caps per hour
    ChunkRows,     \* aggregateChunk, spanRollupChunk, the publish chunk
    HourBuckets,   \* buckets per hour
    AccFaults      \* bound on failing writes

Capped   == {"rollups", "edges", "standalone"}   \* SpanRollups; "standalone" is its run in that mode
Tallies  == {"reader", "writer"}                 \* spanledger.Tally of a pod
AllKinds == Capped \cup Tallies \cup {"aggregates", "metrics"}

Buckets  == {ItemBucket[i] : i \in Items}
Hour(b)  == b \div HourBuckets
BucketHours == {Hour(b) : b \in Buckets}
OtherName == 99                                  \* "~other"
Named    == 1..(OtherName - 1)
Marker(b) == <<b, 0, 0, 0>>                      \* SpanEdgeMarker: sorts first in its bucket

ASSUME AccAssumption ==
    /\ AccKinds \subseteq AllKinds
    /\ IsFiniteSet(Items)
    /\ ItemBucket \in [Items -> Nat]
    /\ ItemService \in [Items -> Named]
    /\ ItemName \in [Items -> Named]
    /\ MaxNames \in Nat /\ MaxServices \in Nat
    /\ ChunkRows \in Nat \ {0} /\ HourBuckets \in Nat \ {0} /\ AccFaults \in Nat

VARIABLES
    accKind,    \* the accumulator
    slots,      \* slots[i]: what i counts for in memory
    marks,      \* spanEdges.buckets
    pending,    \* MetricAccumulator.pending
    batch,      \* what the running flush took
    flight,     \* the part of it that is not written yet
    rows,       \* the rows of that part
    retried,    \* the items among them that come from pending
    stored,     \* what the sink holds
    storedMarks,\* stored bucket markers
    row,        \* row[i]: the service and name i is recorded under, <<0, 0>> before
    capServices, capNames,   \* rollupCaps: <<key, value>> admitted
    age,        \* age[b]: "open", "closed", "old" (past the retry window)
    accPhase,   \* "run", "stop" (SIGTERM), "last" (the flush after both ended), "exit"
    running,    \* the Run loop: "wait", "flush", "last" (flushAll), "ended"
    producing,  \* producers still add
    accFaults,
    owed,       \* net count of i                       (history, as the next ones)
    lost,       \* counts dropped with an error log
    late,       \* items added after the last flush of the metrics Run loop
    forgot,     \* hours whose caps were pruned
    torn,       \* a report failed although some of its rows had landed
    lastFailed  \* the flush on stop failed, and logged it

memVars    == <<slots, marks, pending>>
flightVars == <<batch, flight, rows, retried>>
sinkVars   == <<stored, storedMarks>>
capVars    == <<capServices, capNames, forgot>>
procVars   == <<accPhase, running, producing, lastFailed>>
accVars    == <<accKind, memVars, flightVars, sinkVars, capVars, procVars,
                row, age, accFaults, owed, lost, late, torn>>

None == [i \in Items |-> 0]
Plus(f, g)  == [i \in Items |-> f[i] + g[i]]
Minus(f, g) == [i \in Items |-> f[i] - g[i]]
Only(f, S)  == [i \in Items |-> IF i \in S THEN f[i] ELSE 0]

\* The row of an item in the running flush.  Rows that wait in pending sit
\* beside a new row of the same bucket.
RowKey(i) == <<ItemBucket[i], row[i][1], row[i][2], IF i \in retried THEN 1 ELSE 0>>
RowItems(R) == {i \in Items : RowKey(i) \in R}

KeyLess(j, k) == \E n \in 1..4 : j[n] < k[n] /\ \A m \in 1..(n - 1) : j[m] = k[m]

\* The first n rows of a sorted batch.
FirstRows(n) == {k \in rows : Cardinality({j \in rows : KeyLess(j, k)}) < n}

AccInit ==
    /\ accKind \in AccKinds
    /\ slots = None /\ pending = None /\ batch = None /\ flight = None /\ stored = None
    /\ owed = None /\ lost = None
    /\ marks = {} /\ storedMarks = {} /\ rows = {} /\ retried = {}
    /\ row = [i \in Items |-> <<0, 0>>]
    /\ capServices = {} /\ capNames = {}
    /\ age = [b \in Buckets |-> "open"]
    /\ accPhase = "run" /\ running = "wait" /\ producing = TRUE
    /\ accFaults = 0
    /\ late = {} /\ forgot = {} /\ torn = FALSE /\ lastFailed = FALSE

----------------------------------------------------------------------------
\* Adding

\* Mutant: one value too many is admitted.
AdmitOne_OffByOne(S, k, v, limit) ==
    <<k, v>> \in S \/ Cardinality({p \in S : p[1] = k}) <= limit

\* admitOne: v is, or can become, one of the at most limit values of k.
AdmitOne(S, k, v, limit) ==
    <<k, v>> \in S \/ Cardinality({p \in S : p[1] = k}) < limit

\* rollupCaps.admit: the row of item i, and the sets that remember it.
Admit(i) ==
    LET h == Hour(ItemBucket[i])
        s == ItemService[i]
        n == ItemName[i]
    IN  /\ UNCHANGED forgot
        /\ IF ~AdmitOne(capServices, h, s, MaxServices)
           THEN /\ row' = [row EXCEPT ![i] = <<OtherName, OtherName>>]
                /\ UNCHANGED <<capServices, capNames>>
           ELSE /\ capServices' = capServices \cup {<<h, s>>}
                /\ IF AdmitOne(capNames, <<h, s>>, n, MaxNames)
                   THEN /\ row' = [row EXCEPT ![i] = <<s, n>>]
                        /\ capNames' = capNames \cup {<<<<h, s>>, n>>}
                   ELSE /\ row' = [row EXCEPT ![i] = <<s, OtherName>>]
                        /\ UNCHANGED capNames

Record(i) == row' = [row EXCEPT ![i] = <<ItemService[i], ItemName[i]>>] /\ UNCHANGED capVars

\* A producer counts i once, under the lock.
Count(i) ==
    /\ producing /\ row[i] = <<0, 0>>
    /\ slots' = [slots EXCEPT ![i] = @ + 1]
    /\ owed' = [owed EXCEPT ![i] = @ + 1]
    /\ late' = IF running \in {"last", "ended"} THEN late \cup {i} ELSE late
    /\ UNCHANGED <<accKind, pending, flightVars, sinkVars, procVars, age, accFaults, lost, torn>>

\* Accumulator.Add
AggregatesAdd(i) == accKind = "aggregates" /\ Count(i) /\ Record(i) /\ UNCHANGED marks
\* SpanRollups.Add
RollupsAdd(i) == accKind \in {"rollups", "standalone"} /\ Count(i) /\ Admit(i) /\ UNCHANGED marks
\* spanEdges.add: the bucket is marked, the call is counted.
EdgesAdd(i) ==
    /\ accKind = "edges" /\ Count(i) /\ Admit(i)
    /\ marks' = marks \cup {ItemBucket[i]}
\* MetricAccumulator.AddMetric
MetricsAdd(i) == accKind = "metrics" /\ Count(i) /\ Record(i) /\ UNCHANGED marks
\* Tally.Add
TallyAdd(i) == accKind \in Tallies /\ Count(i) /\ Record(i) /\ UNCHANGED marks

\* Tally.AddSpans with sign -1 takes back an earlier count.
TallyTakeBack(i) ==
    /\ accKind \in Tallies /\ producing /\ owed[i] = 1
    /\ slots' = [slots EXCEPT ![i] = @ - 1]
    /\ owed' = [owed EXCEPT ![i] = @ - 1]
    /\ UNCHANGED <<accKind, marks, pending, flightVars, sinkVars, capVars, procVars,
                   row, age, accFaults, lost, late, torn>>

\* A bucket closes, then leaves the retry window; older buckets go first.
AccAge(b) ==
    /\ age[b] # "old"
    /\ \A c \in Buckets : c < b => age[c] = "old" \/ (age[b] = "open" /\ age[c] = "closed")
    /\ age' = [age EXCEPT ![b] = IF @ = "open" THEN "closed" ELSE "old"]
    /\ UNCHANGED <<accKind, memVars, flightVars, sinkVars, capVars, procVars,
                   row, accFaults, owed, lost, late, torn>>

----------------------------------------------------------------------------
\* Taking the counts

\* rollupCaps.prune: hours before the previous one are forgotten; their
\* buckets are all old.
Prune ==
    LET old == {h \in BucketHours : \A b \in Buckets : Hour(b) = h => age[b] = "old"}
    IN  \E H \in SUBSET old :
            /\ capServices' = {p \in capServices : p[1] \notin H}
            /\ capNames' = {p \in capNames : p[1][1] \notin H}
            /\ forgot' = forgot \cup H

\* The flush takes the counts of S and what waits in pending.  Rows that net
\* out to nothing are left out.
TakeSlots(S) ==
    LET taken == Plus(Only(slots, S), pending)
    IN  /\ slots' = Minus(slots, Only(slots, S))
        /\ pending' = None
        /\ batch' = taken /\ flight' = taken
        /\ retried' = {i \in Items : pending[i] # 0}
        /\ rows' = {<<ItemBucket[i], row[i][1], row[i][2], IF pending[i] # 0 THEN 1 ELSE 0>>
                        : i \in {j \in Items : taken[j] # 0}} \cup {Marker(b) : b \in marks}
        /\ marks' = {}

Loaded(S) == marks # {} \/ \E i \in Items : pending[i] # 0 \/ (i \in S /\ slots[i] # 0)

\* What a flush of each accumulator takes: Accumulator.Flush,
AggregatesTake == accKind = "aggregates" /\ Loaded(Items) /\ TakeSlots(Items) /\ UNCHANGED capVars
\* flushRollups,
RollupsTake == accKind \in {"rollups", "standalone"} /\ Loaded(Items) /\ TakeSlots(Items) /\ Prune
\* spanEdges.flush,
EdgesTake == accKind = "edges" /\ Loaded(Items) /\ TakeSlots(Items) /\ Prune
\* MetricAccumulator.Flush, which leaves the buckets that are still open,
MetricsTake ==
    LET closed == {i \in Items : age[ItemBucket[i]] # "open"}
    IN  accKind = "metrics" /\ Loaded(closed) /\ TakeSlots(closed) /\ UNCHANGED capVars
\* Tally.Take.
TallyTake == accKind \in Tallies /\ Loaded(Items) /\ TakeSlots(Items) /\ UNCHANGED capVars

TakeCounts == AggregatesTake \/ RollupsTake \/ EdgesTake \/ MetricsTake \/ TallyTake

\* The ticker of a Run loop.
AccFlush ==
    /\ running = "wait" /\ accPhase \in {"run", "stop"}
    /\ TakeCounts
    /\ running' = "flush"
    /\ UNCHANGED <<accKind, sinkVars, accPhase, producing, lastFailed, row, age, accFaults,
                   owed, lost, late, torn>>

----------------------------------------------------------------------------
\* Writing

\* The flush is over: the loop waits again, has made its last flush, or the
\* process exits after the flush on stop.
FlushEnds(ok) ==
    /\ running' = CASE running = "flush" -> "wait"
                    [] running = "last" -> "ended"
                    [] OTHER -> running
    /\ accPhase' = IF accPhase = "last" THEN "exit" ELSE accPhase
    /\ lastFailed' = (lastFailed \/ (accPhase = "last" /\ ~ok))
    /\ UNCHANGED producing

Land(C) ==
    /\ stored' = Plus(stored, Only(flight, RowItems(C)))
    /\ storedMarks' = storedMarks \cup {b \in Buckets : Marker(b) \in C}

\* A transaction, or an LPUSH, takes the rows of C.
Commit(C) ==
    /\ rows # {}
    /\ Land(C)
    /\ flight' = Minus(flight, Only(flight, RowItems(C)))
    /\ rows' = rows \ C
    /\ IF rows' = {}
       THEN FlushEnds(TRUE) /\ batch' = None /\ retried' = {}
       ELSE UNCHANGED <<procVars, batch, retried>>
    /\ UNCHANGED <<accKind, memVars, capVars, row, age, accFaults, owed, lost, late, torn>>

\* The stores write sorted chunks (writeTierRows): UpsertAggregates,
UpsertAggregates == accKind = "aggregates" /\ Commit(FirstRows(ChunkRows))
\* AddSpanRollups,
AddSpanRollups == accKind \in {"rollups", "standalone"} /\ Commit(FirstRows(ChunkRows))
\* AddSpanEdges,
AddSpanEdges == accKind = "edges" /\ Commit(FirstRows(ChunkRows))
\* UpsertMetricRollups.
UpsertMetricRollups == accKind = "metrics" /\ Commit(FirstRows(ChunkRows))
\* publishBatch pushes one Redis item per chunk.
PublishSpanLedger == accKind = "reader" /\ Commit(FirstRows(ChunkRows))

\* Mutant: the store writes the ledger rows in chunks, too.
AddSpanLedgerRows_Chunked == accKind = "writer" /\ Commit(FirstRows(ChunkRows))

\* AddSpanLedgerRows is one transaction.
AddSpanLedgerRows == accKind = "writer" /\ Commit(rows)

AccWrite ==
    \/ UpsertAggregates \/ AddSpanRollups \/ AddSpanEdges \/ UpsertMetricRollups
    \/ PublishSpanLedger \/ AddSpanLedgerRows

\* What a failed flush keeps, unless its bucket has left the retry window.
Young == {i \in Items : age[ItemBucket[i]] # "old"}
PutBack == slots' = Plus(slots, Only(flight, Young))
LoseRest(S) == lost' = Plus(lost, Minus(flight, Only(flight, S)))

\* Mutant: every taken slot goes back, written or not.
AggregatesRequeue_All ==
    /\ accKind = "aggregates" /\ slots' = Plus(slots, Only(batch, Young))
    /\ LoseRest(Young) /\ UNCHANGED <<pending, marks>>

\* Accumulator.requeue
AggregatesRequeue == accKind = "aggregates" /\ PutBack /\ LoseRest(Young) /\ UNCHANGED <<pending, marks>>
\* SpanRollups.requeue
RollupsRequeue ==
    accKind \in {"rollups", "standalone"} /\ PutBack /\ LoseRest(Young) /\ UNCHANGED <<pending, marks>>
\* Mutant: only the calls go back.
EdgesRequeue_NoMarkers ==
    accKind = "edges" /\ PutBack /\ LoseRest(Young) /\ UNCHANGED <<pending, marks>>

\* spanEdges.requeue: the markers go back too, written or not.
EdgesRequeue ==
    /\ accKind = "edges" /\ PutBack /\ LoseRest(Young) /\ UNCHANGED pending
    /\ marks' = marks \cup {ItemBucket[i] : i \in {j \in Young : batch[j] # 0}}
\* keepForRetry; a failed flushAll loses its rows.
MetricsKeep ==
    LET kept == IF running = "last" THEN {} ELSE Young
    IN  /\ accKind = "metrics" /\ UNCHANGED <<slots, marks>>
        /\ pending' = Plus(pending, Only(flight, kept))
        /\ LoseRest(kept)
\* Tally.Merge: the whole report goes back, of any age.
TallyMerge ==
    accKind \in Tallies /\ slots' = Plus(slots, batch) /\ UNCHANGED <<pending, marks, lost>>

FlushFails ==
    /\ rows # {} /\ accFaults < AccFaults
    /\ accFaults' = accFaults + 1
    /\ AggregatesRequeue \/ RollupsRequeue \/ EdgesRequeue \/ MetricsKeep \/ TallyMerge
    /\ batch' = None /\ flight' = None /\ rows' = {} /\ retried' = {}
    /\ FlushEnds(FALSE)
    /\ UNCHANGED <<accKind, capVars, row, age, owed, late>>

\* A chunk fails and does not land.
AccFails ==
    /\ FlushFails
    /\ torn' = (torn \/ (accKind \in Tallies /\ batch # flight))
    /\ UNCHANGED sinkVars

\* The reader's LPUSH lands but its reply is lost, so the report fails.
AccReplyLost == accKind = "reader" /\ FlushFails /\ Land(FirstRows(ChunkRows)) /\ torn' = TRUE

----------------------------------------------------------------------------
\* Shutdown

\* SIGTERM: the context of the workers and of Run ends.
AccStop ==
    /\ accPhase = "run" /\ accPhase' = "stop"
    /\ UNCHANGED <<accKind, memVars, flightVars, sinkVars, capVars, running, producing, lastFailed,
                   row, age, accFaults, owed, lost, late, torn>>

\* The producer's goroutine returns.
AccProducerEnds ==
    /\ accPhase = "stop" /\ producing /\ producing' = FALSE
    /\ UNCHANGED <<accKind, memVars, flightVars, sinkVars, capVars, accPhase, running, lastFailed,
                   row, age, accFaults, owed, lost, late, torn>>

\* Run returns: Accumulator.Run and SpanRollups.Run at once, Tally.Run once the
\* work it counts has stopped.
RunEnds ==
    /\ running = "wait" /\ accPhase = "stop"
    /\ accKind # "metrics" \/ ~Loaded(Items)
    /\ accKind \in Tallies => ~producing
    /\ running' = "ended"
    /\ UNCHANGED <<accKind, memVars, flightVars, sinkVars, capVars, accPhase, producing, lastFailed,
                   row, age, accFaults, owed, lost, late, torn>>

\* MetricAccumulator.Run ends with flushAll.
FlushAll ==
    /\ accKind = "metrics" /\ running = "wait" /\ accPhase = "stop" /\ Loaded(Items)
    /\ TakeSlots(Items)
    /\ running' = "last"
    /\ UNCHANGED <<accKind, sinkVars, capVars, accPhase, producing, lastFailed, row, age,
                   accFaults, owed, lost, late, torn>>

\* Mutant: the span rollups are not flushed on stop.
FlushSpanRollupsOnStop_Missing ==
    /\ accKind \in {"rollups", "edges"} /\ accPhase' = "exit"
    /\ UNCHANGED <<memVars, flightVars, capVars>>

\* Once every goroutine has returned the writer flushes what is left:
\* FlushOnStop,
FlushOnStop == accKind = "aggregates" /\ TakeCounts /\ accPhase' = "last"
\* flushSpanRollupsOnStop, which standalone mode does not call,
FlushSpanRollupsOnStop == accKind \in {"rollups", "edges"} /\ TakeCounts /\ accPhase' = "last"
\* and, in readers too, the last report of the ledger.
FinishLedger == accKind \in Tallies /\ TakeCounts /\ accPhase' = "last"

FinalFlush ==
    /\ running = "ended" /\ ~producing /\ accPhase = "stop"
    /\ FlushOnStop \/ FlushSpanRollupsOnStop \/ FinishLedger
    /\ UNCHANGED <<accKind, sinkVars, running, producing, lastFailed, row, age, accFaults,
                   owed, lost, late, torn>>

\* The process ends with nothing left to flush, or nothing that would flush it.
AccExit ==
    /\ running = "ended" /\ ~producing /\ accPhase = "stop"
    /\ ~Loaded(Items) \/ accKind \in {"metrics", "standalone"}
    /\ accPhase' = "exit"
    /\ UNCHANGED <<accKind, memVars, flightVars, sinkVars, capVars, running, producing, lastFailed,
                   row, age, accFaults, owed, lost, late, torn>>

AccNext ==
    \/ \E i \in Items : \/ AggregatesAdd(i) \/ RollupsAdd(i) \/ EdgesAdd(i) \/ MetricsAdd(i)
                        \/ TallyAdd(i) \/ TallyTakeBack(i)
    \/ \E b \in Buckets : AccAge(b)
    \/ AccFlush \/ AccWrite \/ AccFails \/ AccReplyLost
    \/ AccStop \/ AccProducerEnds \/ RunEnds \/ FlushAll \/ FinalFlush \/ AccExit

AccSpec == AccInit /\ [][AccNext]_accVars

----------------------------------------------------------------------------
AccTypeOK ==
    /\ accKind \in AllKinds
    /\ slots \in [Items -> Int] /\ pending \in [Items -> Int]
    /\ batch \in [Items -> Int] /\ flight \in [Items -> Int]
    /\ stored \in [Items -> Int] /\ owed \in [Items -> Int] /\ lost \in [Items -> Int]
    /\ marks \subseteq Buckets /\ storedMarks \subseteq Buckets
    /\ retried \subseteq Items /\ late \subseteq Items
    /\ row \in [Items -> Nat \X Nat]
    /\ rows \subseteq Nat \X Nat \X Nat \X Nat /\ IsFiniteSet(rows)
    /\ age \in [Buckets -> {"open", "closed", "old"}]
    /\ accPhase \in {"run", "stop", "last", "exit"}
    /\ running \in {"wait", "flush", "last", "ended"}
    /\ producing \in BOOLEAN /\ torn \in BOOLEAN /\ lastFailed \in BOOLEAN
    /\ accFaults \in Nat
    /\ capServices \subseteq BucketHours \X Named /\ IsFiniteSet(capServices)
    /\ capNames \subseteq (BucketHours \X Named) \X Named /\ IsFiniteSet(capNames)
    /\ forgot \subseteq BucketHours

\* Across flushes that overlap new counts, chunks that land before one that
\* fails, and rows that are put back, every count is in exactly one place: in
\* memory, on its way, in the store, or reported as lost.
EachCountOnce ==
    ~torn => \A i \in Items :
        slots[i] + pending[i] + flight[i] + stored[i] + lost[i] = owed[i]

\* A report that fails as a whole never counts twice: only the reader's
\* chunked publish can tear a report, never the writer's transaction.
OnlyRedisTears == torn => accKind = "reader"

\* A process that exits leaves no count behind in silence.  The last flush of
\* a failed write logs its rows.  Two counters are let off, as the code has
\* it: points added to the metric accumulator after its last flush, which no
\* longer waits for its producer, and the span rollups of standalone mode.
NothingForgottenAtExit ==
    accPhase = "exit" => \A i \in Items :
        slots[i] + pending[i] # 0 =>
            \/ lastFailed
            \/ accKind = "standalone"
            \/ accKind = "metrics" /\ i \in late

\* A bucket with stored calls has its marker: the marker is written no later
\* than the rows of its bucket, also when a later chunk fails.
MarkerWithCalls ==
    accKind = "edges" => \A i \in Items : stored[i] > 0 => ItemBucket[i] \in storedMarks

\* No hour holds rows of more services or names than the caps admit, the
\* "~other" ones aside, as long as the caps remember the hour.
RowsCapped ==
    accKind \in Capped => \A h \in BucketHours \ forgot :
        LET used == {row[i] : i \in {j \in Items : Hour(ItemBucket[j]) = h}} \ {<<0, 0>>}
            named == {r \in used : r[2] # OtherName}
            services == {r[1] : r \in used} \ {OtherName}
        IN  /\ Cardinality(services) <= MaxServices
            /\ \A s \in services : Cardinality({r \in named : r[1] = s}) <= MaxNames

\* What a flush has taken and not written is among its rows, and nothing else
\* is: rows exist only while a flush runs.  The writer's ledger is taken whole.
FlightInv ==
    /\ \A i \in Items : flight[i] # 0 => RowKey(i) \in rows /\ batch[i] # 0
    /\ \A i \in Items : row[i] = <<0, 0>> =>
           slots[i] = 0 /\ pending[i] = 0 /\ flight[i] = 0 /\ batch[i] = 0 /\ owed[i] = 0
    /\ rows # {} => running \in {"flush", "last"} \/ accPhase = "last"
    /\ accKind = "writer" /\ rows # {} => batch = flight

\* The last flush starts when nobody adds any more, and takes everything; only
\* the metrics loop keeps rows for a retry, and ends with a flush of its own.
LastFlushInv ==
    /\ accPhase \in {"last", "exit"} => ~producing /\ running = "ended"
    /\ accPhase = "last" =>
           accKind \notin {"metrics", "standalone"} /\ \A i \in Items : slots[i] = 0
    /\ running = "last" => accKind = "metrics"
    /\ accKind # "metrics" => \A i \in Items : pending[i] = 0
    /\ accKind = "metrics" /\ running \in {"last", "ended"} =>
           \A i \in Items : pending[i] = 0 /\ (slots[i] # 0 => i \in late)

\* A bucket is marked before a call in it is counted, and the mark travels with
\* the calls or ahead of them.
MarksInv ==
    accKind = "edges" => \A i \in Items :
        /\ slots[i] # 0 => ItemBucket[i] \in marks \cup storedMarks
        /\ flight[i] # 0 => Marker(ItemBucket[i]) \in rows \/ ItemBucket[i] \in storedMarks
        /\ stored[i] # 0 => ItemBucket[i] \in storedMarks

\* The caps are kept, and the rows of an hour they remember are in them.
CapsInv ==
    accKind \in Capped =>
        /\ \A h \in BucketHours : Cardinality({p \in capServices : p[1] = h}) <= MaxServices
        /\ \A k \in BucketHours \X Named : Cardinality({p \in capNames : p[1] = k}) <= MaxNames
        /\ \A i \in Items :
               LET h == Hour(ItemBucket[i])
               IN  row[i] # <<0, 0>> /\ h \notin forgot =>
                       /\ row[i][1] # OtherName => <<h, row[i][1]>> \in capServices
                       /\ row[i][2] # OtherName => <<<<h, row[i][1]>>, row[i][2]>> \in capNames

\* The five accumulators lose and double no count: each is in one place, a torn
\* report is told of, an exit forgets nothing in silence, markers come with
\* their rows and the caps hold (flush, putBack, admit).  The last four make
\* the rest inductive.
AccountsBalance ==
    /\ AccTypeOK
    /\ EachCountOnce
    /\ OnlyRedisTears
    /\ NothingForgottenAtExit
    /\ MarkerWithCalls
    /\ RowsCapped
    /\ FlightInv
    /\ LastFlushInv
    /\ MarksInv
    /\ CapsInv
=============================================================================
