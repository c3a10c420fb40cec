------------------------------- MODULE Staging -------------------------------
(***************************************************************************)
(* Span staging in the writer (internal/worker staging_*.go, classify.go,  *)
(* internal/sampling, internal/repository repo_spans_staging.go).  The     *)
(* RedisWorker appends spans to spans_staging.  The StagingFlusher reads   *)
(* the traces that are old enough on the read-only connection, classifies  *)
(* them, and moves them chunk by chunk through the write scheduler.  A     *)
(* hard-age GC runs beside it.                                             *)
(*                                                                         *)
(* Between the flusher's two reads and its commits, other writes happen.   *)
(* A commit is one transaction.  Staging ids grow with ingested_at, so an  *)
(* age is a bound on the ids.  A project whose slow filter is off, or that *)
(* is in verbose mode, is one where every span is dirty.                   *)
(***************************************************************************)
EXTENDS SequencesExt, FiniteSetsExt, Naturals

CONSTANTS
    Spans,        \* spans by project, trace and span id
    TraceOf,      \* [Spans -> traces]
    OpOf,         \* operation and hour of a trace, the key of the survival floors
    Loads,        \* the sets of spans with an error or a duration over the threshold
    Ratio,        \* sample ratio of boring traces: 0 none, 1 all, N one in N
    MinPerHour,   \* clean traces kept durably per operation and hour
    MinPerMinute, \* boring traces kept per operation and minute
    ChunkRows,    \* stagingChunkRows
    BatchTraces,  \* traces per flush
    MaxStaged,    \* bound on the rows ever staged
    MaxFaults     \* bound on failing commits and restarts

Traces == {TraceOf[s] : s \in Spans}
Ops == {OpOf[t] : t \in Traces}

ASSUME StagingAssumption ==
    /\ Loads \subseteq SUBSET Spans
    /\ {Ratio, MinPerHour, MinPerMinute, MaxStaged, MaxFaults} \subseteq Nat
    /\ {ChunkRows, BatchTraces} \subseteq Nat \ {0}

VARIABLES
    dirty,       \* the spans with an error or a duration over the threshold
    staging,     \* rows [id, span] of spans_staging
    nextId,
    aged,        \* rows up to this id are older than the window
    stale,       \* rows up to this id are older than MaxAge
    at,          \* where flushOnce is: "idle", "read", "commit", "add"
    ids,         \* its trace ids
    chunks,      \* the chunks it has still to commit
    hour,        \* hour[op]: count of the hourly floor
    minute,      \* minute[op]: count of the minute floor
    faults,
    stored,      \* stored[s]: rows of s in spans         (history, as the next ones)
    counted,     \* counted[s]: times s reached the accumulator
    late,        \* copies of s staged when s was flushed, or on its way
    gone         \* gone[why]: ids that left staging, and why

floors == <<hour, minute>>
history == <<stored, counted, late, gone>>
vars == <<dirty, staging, nextId, aged, stale, at, ids, chunks, floors, faults, history>>

Fates == {"counted",   \* its span was counted and classified
          "copy",      \* another row of its span was
          "shed",      \* dropped by the GC
          "crashed"}   \* the writer died between the commit and the count

Init ==
    /\ dirty \in Loads
    /\ staging = {} /\ nextId = 1 /\ aged = 0 /\ stale = 0
    /\ at = "idle" /\ ids = <<>> /\ chunks = <<>>
    /\ hour = [o \in Ops |-> 0] /\ minute = [o \in Ops |-> 0]
    /\ faults = 0
    /\ stored = [s \in Spans |-> 0] /\ counted = [s \in Spans |-> 0]
    /\ late = [s \in Spans |-> 0]
    /\ gone = [why \in Fates |-> {}]

RowsOf(rows, t) == {r \in rows : TraceOf[r.span] = t}
IdsOf(rows) == {r.id : r \in rows}
SpansOf(rows) == {r.span : r \in rows}
ById(rows) == SetToSortSeq(rows, LAMBDA r, q : r.id < q.id)

-----------------------------------------------------------------------------
(* The worker and the clock. *)

\* InsertSpansStaging: a batch may be replayed, so a span may come again.
Stage(s) ==
    /\ nextId <= MaxStaged
    /\ staging' = staging \cup {[id |-> nextId, span |-> s]}
    /\ nextId' = nextId + 1
    /\ late' = IF counted[s] > 0 \/ stored[s] > 0 \/ \E i \in DOMAIN chunks : s \in SpansOf(chunks[i].rows)
               THEN [late EXCEPT ![s] = @ + 1] ELSE late
    /\ UNCHANGED <<dirty, aged, stale, at, ids, chunks, floors, faults, stored, counted, gone>>

Grow ==
    /\ \/ aged < nextId - 1 /\ aged' = aged + 1 /\ UNCHANGED stale
       \/ stale < aged /\ stale' = stale + 1 /\ UNCHANGED aged
    /\ UNCHANGED <<dirty, staging, nextId, at, ids, chunks, floors, faults, history>>

-----------------------------------------------------------------------------
(* Classification: what of a read is stored. *)

\* Mutant: the minimum is not reached.
Rescued_OffByOne(count, min, ratioKeep) == ratioKeep \/ (min > 0 /\ count + 1 < min)

\* ShouldKeep: counts a trace the ratio kept, rescues one below the minimum.
Rescued(count, min, ratioKeep) == ratioKeep \/ (min > 0 /\ count < min)

\* One boring trace: the hourly tier first, then the ratio and the minute floor.
Admit(acc, t, sampled) ==
    LET o == OpOf[t]
    IN  CASE Rescued(acc.hour[o], MinPerHour, FALSE) ->
               [acc EXCEPT !.kept = @ \cup {t}, !.hour[o] = @ + 1]
          [] Rescued(acc.minute[o], MinPerMinute, t \in sampled) ->
               [acc EXCEPT !.kept = @ \cup {t}, !.minute[o] = @ + 1]
          [] OTHER -> acc

\* The die of ratioVerdict, rolled once per trace.
Samples(boring) ==
    CASE Ratio = 0 -> {{}}
      [] Ratio = 1 -> {boring}
      [] OTHER -> SUBSET boring

\* classifySpansForStorage: a trace is kept or dropped as a whole.
Classify(rows, order, sampled) ==
    LET interesting == {TraceOf[r.span] : r \in {q \in rows : q.span \in dirty}}
        boring == SelectSeq(order, LAMBDA t : RowsOf(rows, t) # {} /\ t \notin interesting)
    IN  FoldLeft(LAMBDA acc, t : Admit(acc, t, sampled),
                 [kept |-> interesting, hour |-> hour, minute |-> minute], boring)

\* dropReplayedSpans: one row per span, the first of the read.
Unique(rows) == {r \in rows : \A q \in rows : q.span = r.span => r.id <= q.id}

-----------------------------------------------------------------------------
(* Chunks: a set of whole traces, or a part of a trace over the cap. *)

EmptyChunk == [traces |-> {}, rows |-> {}, kept |-> {}, n |-> 0, part |-> FALSE]

\* Mutant: a part counts the rows it deletes, and not those it stores.
TraceParts_StagedOnly(t, rows, keep) ==
    LET empty == [EmptyChunk EXCEPT !.traces = {t}, !.part = TRUE]
        add(c, r) == [c EXCEPT !.rows = @ \cup {r}, !.n = @ + 1,
                               !.kept = IF keep THEN @ \cup {r} ELSE @]
        step(out, r) ==
            IF Last(out).rows # {} /\ Last(out).n + 1 > ChunkRows
            THEN Append(out, add(empty, r))
            ELSE Append(Front(out), add(Last(out), r))
    IN  FoldLeft(step, <<empty>>, ById(rows))

\* traceParts: cuts unique rows in id order; a stored row counts twice.
TraceParts(t, rows, keep) ==
    LET empty == [EmptyChunk EXCEPT !.traces = {t}, !.part = TRUE]
        weight == IF keep THEN 2 ELSE 1
        add(c, r) == [c EXCEPT !.rows = @ \cup {r}, !.n = @ + weight,
                               !.kept = IF keep THEN @ \cup {r} ELSE @]
        step(out, r) ==
            IF Last(out).rows # {} /\ Last(out).n + weight > ChunkRows
            THEN Append(out, add(empty, r))
            ELSE Append(Front(out), add(Last(out), r))
    IN  FoldLeft(step, <<empty>>, ById(rows))

\* Mutant: the chunk under construction is forgotten at the end.
StagingChunks_LastLost(order, rows, kept) ==
    LET keptRows(t) == IF t \in kept THEN RowsOf(rows, t) ELSE {}
        size(t) == Cardinality(RowsOf(rows, t)) + Cardinality(keptRows(t))
        close(acc) == IF acc.cur.traces = {} THEN acc
                      ELSE [out |-> Append(acc.out, acc.cur), cur |-> EmptyChunk]
        join(c, t) == [c EXCEPT !.traces = @ \cup {t}, !.rows = @ \cup RowsOf(rows, t),
                                !.kept = @ \cup keptRows(t), !.n = @ + size(t)]
        step(acc, t) ==
            LET a == IF acc.cur.n + size(t) > ChunkRows THEN close(acc) ELSE acc
            IN  IF size(t) > ChunkRows
                THEN [a EXCEPT !.out = @ \o TraceParts(t, RowsOf(rows, t), t \in kept)]
                ELSE [a EXCEPT !.cur = join(@, t)]
    IN  FoldLeft(step, [out |-> <<>>, cur |-> EmptyChunk], order).out

\* stagingChunks: whole traces in the order of the ids, up to the cap.
StagingChunks(order, rows, kept) ==
    LET keptRows(t) == IF t \in kept THEN RowsOf(rows, t) ELSE {}
        size(t) == Cardinality(RowsOf(rows, t)) + Cardinality(keptRows(t))
        close(acc) == IF acc.cur.traces = {} THEN acc
                      ELSE [out |-> Append(acc.out, acc.cur), cur |-> EmptyChunk]
        join(c, t) == [c EXCEPT !.traces = @ \cup {t}, !.rows = @ \cup RowsOf(rows, t),
                                !.kept = @ \cup keptRows(t), !.n = @ + size(t)]
        step(acc, t) ==
            LET a == IF acc.cur.n + size(t) > ChunkRows THEN close(acc) ELSE acc
            IN  IF size(t) > ChunkRows
                THEN [a EXCEPT !.out = @ \o TraceParts(t, RowsOf(rows, t), t \in kept)]
                ELSE [a EXCEPT !.cur = join(@, t)]
    IN  close(FoldLeft(step, [out |-> <<>>, cur |-> EmptyChunk], order)).out

\* Mutant: a part does not name the copies of its rows.
AddReplayedRows_None(c, rows) ==
    [traces |-> c.traces, rows |-> c.rows, kept |-> c.kept, n |-> c.n, part |-> c.part,
     copies |-> {}]

\* addReplayedRows: the copies of a chunk's rows among the rows read.
AddReplayedRows(c, rows) ==
    [traces |-> c.traces, rows |-> c.rows, kept |-> c.kept, n |-> c.n, part |-> c.part,
     copies |-> {r \in rows \ c.rows : r.span \in SpansOf(c.rows)}]

-----------------------------------------------------------------------------
(* flushOnce *)

Oldest(t) == Min(IdsOf(RowsOf(staging, t)))

Ready == {t \in Traces : \E r \in RowsOf(staging, t) : r.id <= aged}

\* ReadyStagingTraceIDs
FlushIDs ==
    LET order == SetToSortSeq(Ready, LAMBDA t, u : Oldest(t) < Oldest(u))
    IN  /\ at = "idle"
        /\ Ready # {}
        /\ ids' = SubSeq(order, 1, Min({BatchTraces, Len(order)}))
        /\ at' = "read"
        /\ UNCHANGED <<dirty, staging, nextId, aged, stale, chunks, floors, faults, history>>

\* GetStagingSpansByTraceIDs, in any order of the traces, and all that is
\* computed from it.
FlushRead ==
    LET rows == {r \in staging : TraceOf[r.span] \in Range(ids)}
        unique == Unique(rows)
    IN  /\ at = "read"
        /\ \E sampled \in Samples(Range(ids)), order \in SetToSeqs(Range(ids)) :
              LET class == Classify(unique, order, sampled)
                  cut == StagingChunks(ids, unique, class.kept)
              IN  /\ chunks' = [i \in DOMAIN cut |-> AddReplayedRows(cut[i], rows)]
                  /\ hour' = class.hour
                  /\ minute' = class.minute
                  /\ at' = IF cut = <<>> THEN "idle" ELSE "commit"
        /\ UNCHANGED <<dirty, staging, nextId, aged, stale, ids, faults, history>>

\* CommitStagingTracePart deletes by staging id, CommitStagingFlush by trace id.
Deletes(c) ==
    IF c.part THEN staging \cap (c.rows \cup c.copies)
    ELSE {r \in staging : TraceOf[r.span] \in c.traces}

Commit ==
    LET c == Head(chunks)
    IN  /\ at = "commit"
        /\ staging' = staging \ Deletes(c)
        /\ stored' = [s \in Spans |-> IF s \in SpansOf(c.kept) THEN stored[s] + 1 ELSE stored[s]]
        /\ at' = "add"
        /\ UNCHANGED <<dirty, nextId, aged, stale, ids, chunks, floors, faults, counted, late, gone>>

\* Mutant: the loop over the chunks goes one past the last.
AddBatch_PastEnd ==
    LET c == Head(chunks)
    IN  /\ at = "add"
        /\ counted' = [s \in Spans |-> IF s \in SpansOf(c.rows) THEN counted[s] + 1 ELSE counted[s]]
        /\ gone' = [gone EXCEPT !["counted"] = @ \cup IdsOf(c.rows),
                                !["copy"] = @ \cup IdsOf(c.copies)]
        /\ chunks' = Tail(chunks)
        /\ at' = "commit"
        /\ UNCHANGED <<dirty, staging, nextId, aged, stale, ids, floors, faults, stored, late>>

\* The rest of commitChunk: accumulator.AddBatch.
AddBatch ==
    LET c == Head(chunks)
    IN  /\ at = "add"
        /\ counted' = [s \in Spans |-> IF s \in SpansOf(c.rows) THEN counted[s] + 1 ELSE counted[s]]
        /\ gone' = [gone EXCEPT !["counted"] = @ \cup IdsOf(c.rows),
                                !["copy"] = @ \cup IdsOf(c.copies)]
        /\ chunks' = Tail(chunks)
        /\ at' = IF Tail(chunks) = <<>> THEN "idle" ELSE "commit"
        /\ ids' = IF Tail(chunks) = <<>> THEN <<>> ELSE ids
        /\ UNCHANGED <<dirty, staging, nextId, aged, stale, floors, faults, stored, late>>

Fault ==
    /\ faults < MaxFaults
    /\ faults' = faults + 1

\* A read or a commit fails: flushOnce returns, the rest stays in staging.
FlushFails ==
    /\ at \in {"read", "commit"}
    /\ Fault
    /\ at' = "idle" /\ ids' = <<>> /\ chunks' = <<>>
    /\ UNCHANGED <<dirty, staging, nextId, aged, stale, floors, history>>

\* The writer restarts; the floors are in memory.
Restart ==
    /\ Fault
    /\ gone' = IF at = "add" THEN [gone EXCEPT !["crashed"] = @ \cup IdsOf(Head(chunks).rows \cup Head(chunks).copies)]
               ELSE gone
    /\ at' = "idle" /\ ids' = <<>> /\ chunks' = <<>>
    /\ hour' = [o \in Ops |-> 0] /\ minute' = [o \in Ops |-> 0]
    /\ UNCHANGED <<dirty, staging, nextId, aged, stale, stored, counted, late>>

\* gcOnce, in its own goroutine: DeleteStagingOlderThan, a batch at a time.
GC(n) ==
    LET old == {r \in staging : r.id <= n}
    IN  /\ n <= stale
        /\ old # {}
        /\ staging' = staging \ old
        /\ gone' = [gone EXCEPT !["shed"] = @ \cup IdsOf(old)]
        /\ UNCHANGED <<dirty, nextId, aged, stale, at, ids, chunks, floors, faults, stored, counted, late>>

Flush == FlushIDs \/ FlushRead \/ Commit \/ AddBatch

Next ==
    \/ \E s \in Spans : Stage(s)
    \/ Grow
    \/ Flush \/ FlushFails \/ Restart
    \/ \E n \in 1..MaxStaged : GC(n)

Spec == Init /\ [][Next]_vars

\* A step of Flush, told by what it alone does: it moves the flusher without a
\* fault.  It is possible unless the flusher is idle with nothing to read.
FlusherMoves ==
    /\ at = "idle" => Ready # {}
    /\ at' \in {"idle", "read", "commit", "add"} \ {at}
    /\ faults' = faults

\* The flusher's ticker fires, and time passes.
FairSpec == Spec /\ WF_at(FlusherMoves) /\ WF_vars(Grow)
-----------------------------------------------------------------------------
(* Properties. *)

Rows == [id : 1..MaxStaged, span : Spans]

\* The types of the variables.
TypeOK ==
    /\ dirty \in Loads
    /\ staging \subseteq Rows
    /\ nextId \in 1..(MaxStaged + 1) /\ aged < nextId /\ stale <= aged
    /\ at \in {"idle", "read", "commit", "add"}
    /\ at \in {"commit", "add"} <=> chunks # <<>>
    /\ Range(ids) \subseteq Traces /\ Len(ids) <= BatchTraces
    /\ \A i \in DOMAIN chunks :
          /\ chunks[i].traces \subseteq Traces
          /\ chunks[i].rows \cup chunks[i].kept \cup chunks[i].copies \subseteq Rows
    /\ hour \in [Ops -> Nat] /\ minute \in [Ops -> Nat]
    /\ faults \in 0..MaxFaults
    /\ stored \in [Spans -> Nat] /\ counted \in [Spans -> Nat] /\ late \in [Spans -> Nat]
    /\ \A why \in Fates : gone[why] \subseteq 1..MaxStaged

\* A span reaches the accumulator once, and once more for a copy that was
\* staged when the span was on its way out.  A chunk that fails is "counted
\* when a later flush moves it, and never twice" (commitChunk), and of a
\* replayed batch "only one copy is classified, stored and counted"
\* (flushOnce).
CountedOnce ==
    \A s \in Spans : stored[s] <= 1 + late[s] /\ counted[s] <= 1 + late[s]

\* Every row that left staging reached the accumulator, itself or as the copy
\* of one that did, unless the GC shed it or the writer died: "every span
\* (boring included) still reaches the accumulator" (flushOnce).
EveryRowAccounted ==
    at = "idle" => 1..(nextId - 1) \subseteq IdsOf(staging) \cup UNION {gone[why] : why \in Fates}

\* No job writes more rows than the cap, but for a single row that is stored:
\* stagingChunkRows "caps the rows one staging flush job writes".
JobsCapped ==
    \A i \in DOMAIN chunks :
        LET c == chunks[i]
        IN  /\ c.n = Cardinality(c.rows) + Cardinality(c.kept)
            /\ c.n > ChunkRows => Cardinality(c.rows) = 1

Clean(t) == \A s \in Spans : TraceOf[s] = t => s \notin dirty

\* The hourly tier keeps a clean trace of every operation: when one was
\* dropped, another was stored.  "The first clean trace per (project,
\* operation, hour) is stored durably" (SetHourFloor).  A failed commit or a
\* restart voids it: the floor counts a trace when it is classified.
FloorKeepsOne ==
    MinPerHour > 0 /\ faults = 0 =>
        \A s \in Spans :
            LET t == TraceOf[s]
            IN  Clean(t) /\ counted[s] > 0 /\ stored[s] = 0 =>
                    \E q \in Spans \ dirty : OpOf[TraceOf[q]] = OpOf[t] /\ stored[q] > 0

\* Every staged row leaves staging, without the help of the GC: the flush
\* leaves no row of a trace behind for good.
StagingDrains ==
    nextId > 1 ~> staging = {}

\* The staging table and the chunks are well formed, no job outgrows its cap,
\* and a staged span is stored and counted once (staging_flush.go).
StagedOnce ==
    /\ TypeOK
    /\ CountedOnce
    /\ JobsCapped
=============================================================================
