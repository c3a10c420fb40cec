------------------------------ MODULE Retention ------------------------------
(***************************************************************************)
(* The retention cycle over spans and what is derived from them            *)
(* (internal/retention, and the deletes of internal/repository it calls):  *)
(* aged spans are copied to error_samples and deleted by id, boring spans  *)
(* expire, exemplars are pruned, trace summaries, samples and logs are     *)
(* walked with cursors that carry over between cycles, per-project caps    *)
(* evict whole traces, and on a critical volume reclaim evicts raw rows    *)
(* first.  Ingest, pins and failures interleave with every write job.      *)
(*                                                                         *)
(* One project and one operation.  A span's trace and kind are given; its  *)
(* ingest time is stamped on arrival, its id when it is written, so a span *)
(* that waits in staging gets a late id (CommitStagingFlush keeps          *)
(* ingested_at).  A log record stands beside every span.                   *)
(***************************************************************************)
EXTENDS Integers, FiniteSets, Sequences

CONSTANTS
    RetSpans,        \* spans, as numbers
    RetTrace,        \* the trace of a span
    RetLoads,        \* the kinds the spans may have
    RetMaxTime,      \* bound on the clock
    RetArrivals,     \* when a span may arrive
    StagingLag,      \* how long a span may wait in staging
    Interesting,     \* InterestingRetentionHours
    BoringWindow,    \* BoringRetentionMinutes
    ErrorWindow,     \* ErrorRetentionDays
    ExemplarWindow,  \* ErrorExemplarDays
    LogWindow,       \* LogRetentionHours
    ErrorLogWindow,  \* ErrorLogRetentionDays
    CapWindow,       \* retention.max_hours.project
    CapTraces,       \* retention.max_traces.project
    ProjectLogWindow,\* retention.log_hours.project
    SlowSampleTraces,
    ReclaimFloor,    \* reclaimFloorMinutes
    CursorMaxAge,    \* logTrimCursorMaxAge
    BatchSize,       \* defaultBatchSize
    PartSize,        \* retentionPart
    MaxPerCycle,     \* maxSpansPerCycle
    PinnedTraces,    \* traces an operator may pin
    PressureTiers,   \* the volume levels a cycle may measure
    MaxRetStops      \* bound on cycles that stop half way, on restarts and on critical volumes

RetTraces == {RetTrace[s] : s \in RetSpans}
LastArrival == CHOOSE t \in UNION {RetArrivals[s] : s \in RetSpans} : \A s \in RetSpans : \A u \in RetArrivals[s] : u <= t

ASSUME RetAssumption ==
    /\ RetSpans \subseteq Nat
    /\ RetLoads \subseteq [RetSpans -> {"error", "durable", "slow", "plain", "boring"}]
    /\ StagingLag < Interesting /\ Interesting < ErrorWindow /\ BoringWindow < Interesting
    /\ PressureTiers \subseteq {"normal", "elevated", "critical"}

VARIABLES
    kindOf,      \* what a span is to retention
    retClock,
    stamp,       \* ingested_at of a span, Never before it arrives
    idOrder,     \* the spans in the order of their ids
    spanTable,   \* the rows of spans
    summary,     \* trace_summaries, NoSummary where there is no row
    samples,     \* error_samples: [span, at]
    exemplars,   \* error_exemplars: [trace, day]
    pins,        \* pinned_traces
    logRows,     \* the spans whose log record is stored
    cursors,     \* logTrimCursors of each walk
    cyc,         \* the cycle in progress
    slowScopes,  \* slowSampler: [hour, trace] admitted, and the newest hour
    retStops,
    everCopied,  \* spans that were copied to error_samples                                  (history)
    swept,       \* spans deleted by an eviction, or by the id of another one                 (history)
    unsettled,   \* traces whose rows were deleted without settling their summary            (history)
    slowCopied   \* [hour, trace] copied for being slow, by this process                     (history)

retVars == <<kindOf, retClock, stamp, idOrder, spanTable, summary, samples, exemplars, pins, logRows,
             cursors, cyc, slowScopes, retStops, everCopied, swept, unsettled, slowCopied>>

Never == -1
NoExpiry == -1
NoSummary == [listed |-> FALSE]
NoCursor == [at |-> Never, started |-> Never]
Walks == {"plain", "errors", "samples", "logs"}

Least(S) == CHOOSE x \in S : \A y \in S : x <= y
Most(S) == CHOOSE x \in S : \A y \in S : x >= y
IdOf(s) == CHOOSE i \in 1..Len(idOrder) : idOrder[i] = s
SpansOf(t, S) == {s \in S : RetTrace[s] = t}
SampledTraces == {RetTrace[x.span] : x \in samples}

\* expires_at, stamped by the classification of a boring span.
ExpiresAt(s) == IF kindOf[s] = "boring" THEN stamp[s] + BoringWindow ELSE NoExpiry

\* mergeExpiry and the ON CONFLICT clause: no expiry wins, else the latest.
MergeExpiry(a, b) == IF NoExpiry \in {a, b} THEN NoExpiry ELSE Most({a, b})

RetIdle == [pc |-> "idle", mode |-> "cycle", now |-> 0, cut |-> 0, logCut |-> 0, window |-> 0, batch |-> {},
            full |-> FALSE, part |-> {}, drained |-> 0, keys |-> {}, victims |-> {}, capCut |-> 0, afterCap |-> "",
            read |-> FALSE, reached |-> Never, completed |-> FALSE]

RetInit ==
    /\ kindOf \in RetLoads
    /\ retClock = 0
    /\ stamp = [s \in RetSpans |-> Never]
    /\ idOrder = <<>>
    /\ spanTable = {} /\ samples = {} /\ exemplars = {} /\ pins = {} /\ logRows = {}
    /\ summary = [t \in RetTraces |-> NoSummary]
    /\ cursors = [w \in Walks |-> NoCursor]
    /\ cyc = RetIdle
    /\ slowScopes = [admitted |-> {}, newest |-> 0]
    /\ retStops = 0
    /\ everCopied = {} /\ swept = {} /\ unsettled = {} /\ slowCopied = {}

Stored == <<spanTable, summary, samples, exemplars, logRows>>
History == <<everCopied, swept, unsettled, slowCopied>>

\* Where a step beside the worker can matter to it: between the reads and the
\* writes of a delete.  Elsewhere it commutes with the worker's next job.
WalkOpen == cyc.read /\ cyc.pc \in Walks
CapOpen == cyc.pc \in {"capSpans", "capSamples", "capSummaries", "capLogs"}
IngestRaces == cyc.pc \in {"idle", "keys", "delete", "refresh", "boringSummaries", "boringRefresh"} \/ WalkOpen \/ CapOpen
PinRaces == cyc.pc = "idle" \/ (WalkOpen /\ cyc.pc = "logs") \/ CapOpen
StopPoints == cyc.pc \in {"part", "keys", "refresh", "boringSummaries", "boringRefresh", "plain", "samples", "caps", "countCap"}
              \/ CapOpen

-----------------------------------------------------------------------------
(* Ingest and operators: what runs beside the worker. *)

\* Hours pass between cycles.  A staged span is flushed within StagingLag, and
\* once the spans have arrived no hour passes without a completed cycle.
RetTick ==
    /\ retClock < RetMaxTime /\ cyc.pc = "idle"
    /\ retClock > LastArrival => cyc.completed /\ cyc.now = retClock
    /\ \A s \in RetSpans : stamp[s] # Never /\ s \notin {idOrder[i] : i \in 1..Len(idOrder)}
                            => retClock - stamp[s] < StagingLag
    /\ retClock' = retClock + 1
    /\ UNCHANGED <<kindOf, stamp, idOrder, pins, cursors, cyc, slowScopes, retStops>>
    /\ UNCHANGED Stored /\ UNCHANGED History

\* A span is stamped on arrival.  No step of a cycle looks at a span that is
\* not written, so arrivals inside a cycle are left out.
ReceiveSpan(s) ==
    /\ stamp[s] = Never /\ cyc.pc = "idle" /\ retClock \in RetArrivals[s]
    /\ stamp' = [stamp EXCEPT ![s] = retClock]
    /\ UNCHANGED <<kindOf, retClock, idOrder, pins, cursors, cyc, slowScopes, retStops>>
    /\ UNCHANGED Stored /\ UNCHANGED History

\* buildTraceSummaries, with the count refreshTraceStructureTx takes of the
\* rows the same transaction wrote.
BuildTraceSummary(s, rows) ==
    [listed |-> TRUE, err |-> kindOf[s] = "error", durable |-> kindOf[s] = "durable",
     at |-> stamp[s], expires |-> ExpiresAt(s), count |-> Cardinality(SpansOf(RetTrace[s], rows))]

UpsertTraceSummary(new, old) ==
    IF old = NoSummary THEN new
    ELSE [new EXCEPT !.err = @ \/ old.err, !.durable = @ \/ old.durable,
                     !.at = Least({@, old.at}), !.expires = MergeExpiry(@, old.expires)]

WriteSpan(s) ==
    /\ stamp[s] # Never /\ s \notin {idOrder[i] : i \in 1..Len(idOrder)} /\ IngestRaces
    /\ idOrder' = Append(idOrder, s)
    /\ spanTable' = spanTable \cup {s}
    /\ logRows' = logRows \cup {s}
    /\ summary' = [summary EXCEPT ![RetTrace[s]] = UpsertTraceSummary(BuildTraceSummary(s, spanTable'), @)]
    /\ unsettled' = unsettled \ {RetTrace[s]}
    /\ UNCHANGED <<kindOf, retClock, stamp, samples, exemplars, pins, cursors, cyc, slowScopes, retStops, everCopied, swept, slowCopied>>

PinTrace(t) ==
    /\ t \notin pins /\ PinRaces
    /\ pins' = pins \cup {t}
    /\ UNCHANGED <<kindOf, retClock, stamp, idOrder, cursors, cyc, slowScopes, retStops>>
    /\ UNCHANGED Stored /\ UNCHANGED History

UnpinTrace(t) ==
    /\ t \in pins /\ cyc.pc = "idle"
    /\ pins' = pins \ {t}
    /\ UNCHANGED <<kindOf, retClock, stamp, idOrder, cursors, cyc, slowScopes, retStops>>
    /\ UNCHANGED Stored /\ UNCHANGED History

-----------------------------------------------------------------------------
(* A cycle: disk pressure, then the three phases. *)

\* factor and scale: the raw windows shrink with the tier, never to nothing.
TierDivisor(tier) == CASE tier = "normal" -> 1 [] tier = "elevated" -> 2 [] tier = "critical" -> 4
ScaleWindow(v, tier) == Most({v \div TierDivisor(tier), 1})

\* RunOnce up to the first phase: one completed cycle per tick of the clock,
\* the cutoffs are taken once, and a critical
\* volume is reclaimed first, with the windows of the unscaled configuration.
RetCycle(tier) ==
    /\ cyc.pc = "idle" /\ ~(cyc.completed /\ cyc.now = retClock)
    /\ retStops' = IF tier = "critical" THEN retStops + 1 ELSE retStops
    /\ retStops' <= MaxRetStops
    /\ cyc' = [RetIdle EXCEPT !.pc = IF tier = "critical" THEN "reclaim" ELSE "drain",
                              !.mode = IF tier = "critical" THEN "reclaim" ELSE "cycle",
                              !.now = retClock,
                              !.cut = retClock - ScaleWindow(Interesting, tier),
                              !.logCut = retClock - ScaleWindow(LogWindow, tier),
                              !.window = Interesting]
    /\ UNCHANGED <<kindOf, retClock, stamp, idOrder, pins, cursors, slowScopes>>
    /\ UNCHANGED Stored /\ UNCHANGED History

MustSample(s) == kindOf[s] \in {"error", "durable"}

DeleteSpansOlderThan(cutoff) == {s \in spanTable : stamp[s] < cutoff}

\* A round of evictUntilUnderTarget starts: the window is halved down to the
\* floor and the raw spans before it are deleted.
EvictSpans ==
    /\ cyc.pc = "reclaim"
    /\ LET window == Most({cyc.window \div 2, ReclaimFloor})
           gone == DeleteSpansOlderThan(cyc.now - window)
       IN  /\ cyc' = [cyc EXCEPT !.pc = "logs", !.window = window]
           /\ spanTable' = spanTable \ gone
           /\ swept' = swept \cup gone
           /\ unsettled' = unsettled \cup {RetTrace[s] : s \in gone}
    /\ UNCHANGED <<kindOf, retClock, stamp, idOrder, summary, samples, exemplars, pins, logRows, cursors, slowScopes, retStops, everCopied, slowCopied>>

\* The volume is measured again: under target, at the floor, or another round.
ReclaimMeasured(under) ==
    /\ cyc.pc = "measure"
    /\ IF under \/ cyc.window <= ReclaimFloor
       THEN cyc' = [cyc EXCEPT !.pc = "drain", !.mode = "cycle"]
       ELSE cyc' = [cyc EXCEPT !.pc = "reclaim"]
    /\ UNCHANGED <<kindOf, retClock, stamp, idOrder, pins, cursors, slowScopes, retStops>>
    /\ UNCHANGED Stored /\ UNCHANGED History

-----------------------------------------------------------------------------
(* drainOldSpans: read a batch by age, copy and delete it part by part. *)

\* GetSpansForAggregation: the oldest spans at or before the cutoff.
AgedSpans == {s \in spanTable : stamp[s] <= cyc.cut}
OlderSpan(a, b) == stamp[a] < stamp[b] \/ (stamp[a] = stamp[b] /\ IdOf(a) <= IdOf(b))
OldestSpans(S, n) == {s \in S : Cardinality({r \in S : r # s /\ OlderSpan(r, s)}) < n}

DrainRead ==
    /\ cyc.pc = "drain"
    /\ LET oldest == OldestSpans(AgedSpans, BatchSize) IN
       cyc' = IF oldest = {} THEN [cyc EXCEPT !.pc = "boring"]
              ELSE [cyc EXCEPT !.pc = "part", !.batch = oldest, !.full = Cardinality(oldest) = BatchSize]
    /\ UNCHANGED <<kindOf, retClock, stamp, idOrder, pins, cursors, slowScopes, retStops>>
    /\ UNCHANGED Stored /\ UNCHANGED History

\* spanParts: the next spans of the batch in id order.
NextPart == {s \in cyc.batch : Cardinality({r \in cyc.batch : IdOf(r) < IdOf(s)}) < PartSize}

\* admit, for the slow spans of a part in id order: a scope keeps what it
\* admitted, takes new traces up to the limit, and forgets hours two behind.
SlowScopeHours == 2
\* Mutant: one trace more than the limit.
AdmitSlow_OffByOne(scopes, s) ==
    LET mine == [hour |-> stamp[s], trace |-> RetTrace[s]]
        others == {x \in scopes.admitted : x.hour = mine.hour}
    IN  [admitted |-> IF Cardinality(others) > SlowSampleTraces THEN scopes.admitted ELSE scopes.admitted \cup {mine},
         newest |-> Most({mine.hour, scopes.newest})]


AdmitSlow(scopes, s) ==
    LET hour == stamp[s]
        t == RetTrace[s]
        newest == Most({hour, scopes.newest})
        kept == IF hour > scopes.newest
                THEN {x \in scopes.admitted : x.hour >= hour - SlowScopeHours} ELSE scopes.admitted
        known == [hour |-> hour, trace |-> t] \in kept
        full == Cardinality({x \in kept : x.hour = hour}) >= SlowSampleTraces
    IN  [admitted |-> IF known \/ full THEN kept ELSE kept \cup {[hour |-> hour, trace |-> t]},
         newest |-> newest]
AdmittedSlow(scopes, s) == [hour |-> stamp[s], trace |-> RetTrace[s]] \in scopes.admitted

\* samplesOf: the sampler after the slow spans of a set, taken in id order,
\* and the spans of a part that are copied.
SamplerAfter[slow \in SUBSET RetSpans] ==
    IF slow = {} THEN slowScopes
    ELSE LET last == CHOOSE s \in slow : \A r \in slow : IdOf(r) <= IdOf(s)
         IN  AdmitSlow(SamplerAfter[slow \ {last}], last)
SlowOf(part) == {s \in part : kindOf[s] = "slow"}
SlowCopies(part) == {s \in SlowOf(part) : AdmittedSlow(SamplerAfter[{r \in SlowOf(part) : IdOf(r) <= IdOf(s)}], s)}
SamplesOf(part) == {s \in part : MustSample(s)} \cup SlowCopies(part)

\* recordErrorExemplars: one trace per day, the first one stays.  The spans of
\* one insert are taken in id order.
ExemplarDay(s) == stamp[s]
NewExemplars(spans) ==
    LET errors == {s \in spans : kindOf[s] = "error"}
        days == {ExemplarDay(s) : s \in errors} \ {x.day : x \in exemplars}
        first(d) == CHOOSE s \in errors : ExemplarDay(s) = d /\ \A r \in errors : ExemplarDay(r) = d => IdOf(s) <= IdOf(r)
    IN  {[trace |-> RetTrace[first(d)], day |-> d] : d \in days}

\* Mutant: the samples are inserted without looking at durable spans.
SamplePart_ErrorsOnly ==
    /\ cyc.pc = "part"
    /\ LET errors == {r \in NextPart : kindOf[r] = "error"} IN
       /\ cyc' = [cyc EXCEPT !.pc = "keys", !.part = NextPart]
       /\ samples' = samples \cup {[span |-> s, at |-> retClock] : s \in errors}
       /\ exemplars' = exemplars \cup NewExemplars(NextPart)
       /\ everCopied' = everCopied \cup errors
    /\ UNCHANGED <<kindOf, retClock, stamp, idOrder, spanTable, summary, pins, logRows, cursors, retStops, slowScopes, swept, unsettled, slowCopied>>

InsertErrorSamples(spans) == samples \cup {[span |-> s, at |-> retClock] : s \in spans}

\* sampleAndDelete, first write: the samples and the exemplars in one
\* transaction.
SamplePart ==
    /\ cyc.pc = "part"
    /\ LET part == NextPart IN
       /\ cyc' = [cyc EXCEPT !.pc = "keys", !.part = part]
       /\ samples' = InsertErrorSamples(SamplesOf(part))
       /\ exemplars' = exemplars \cup NewExemplars(SamplesOf(part))
       /\ everCopied' = everCopied \cup SamplesOf(part)
       /\ slowScopes' = SamplerAfter[SlowOf(part)]
       /\ slowCopied' = slowCopied \cup {[hour |-> stamp[s], trace |-> RetTrace[s]] : s \in SlowCopies(part)}
    /\ UNCHANGED <<kindOf, retClock, stamp, idOrder, spanTable, summary, pins, logRows, cursors, retStops, swept, unsettled>>

\* DeleteSpansByMaxIDRefreshing: the error and durable traces that are about
\* to lose spans are noted, on a connection of their own ...
Retained(t) == summary[t] # NoSummary /\ (summary[t].err \/ summary[t].durable)
RetainedTraceKeys(spans) == {t \in RetTraces : SpansOf(t, spans) # {} /\ Retained(t)}
DeleteSpansByMaxID(part) == {s \in spanTable : \E r \in part : IdOf(s) <= IdOf(r)}

ReadRetainedKeys ==
    /\ cyc.pc = "keys"
    /\ cyc' = [cyc EXCEPT !.pc = "delete", !.keys = RetainedTraceKeys(DeleteSpansByMaxID(cyc.part))]
    /\ UNCHANGED <<kindOf, retClock, stamp, idOrder, pins, cursors, slowScopes, retStops>>
    /\ UNCHANGED Stored /\ UNCHANGED History

\* ... and then every span up to the part's highest id goes.  A span written
\* since has a higher id and stays, but it may have turned the trace of one that
\* goes into an error or durable trace, which is not among the keys.
DeletePart ==
    /\ cyc.pc = "delete"
    /\ LET gone == DeleteSpansByMaxID(cyc.part)
           overtaken == gone \ cyc.part
       IN  /\ spanTable' = spanTable \ gone
           /\ cyc' = [cyc EXCEPT !.pc = "refresh", !.drained = @ + Cardinality(gone)]
           /\ swept' = swept \cup overtaken
           /\ unsettled' = unsettled \cup {RetTrace[s] : s \in overtaken} \cup (RetainedTraceKeys(gone) \ cyc.keys)
    /\ UNCHANGED <<kindOf, retClock, stamp, idOrder, summary, samples, exemplars, pins, logRows, cursors, slowScopes, retStops, everCopied, slowCopied>>

\* RefreshTraceStructure: a summary whose trace has neither spans nor samples
\* goes, the others get their count again (refreshTraceStructureSQL leaves a
\* trace without spans alone).
DropSpanless(t) == SpansOf(t, spanTable) = {} /\ t \notin SampledTraces

\* Mutant: without the guard, a trace without spans gets a count of zero.
RefreshTraceStructure_NoGuard(keys) ==
    [t \in RetTraces |->
        IF t \notin keys \/ summary[t] = NoSummary THEN summary[t]
        ELSE IF DropSpanless(t) THEN NoSummary
        ELSE [summary[t] EXCEPT !.count = Cardinality(SpansOf(t, spanTable))]]


RefreshTraceStructure(keys) ==
    [t \in RetTraces |->
        IF t \notin keys \/ summary[t] = NoSummary THEN summary[t]
        ELSE IF DropSpanless(t) THEN NoSummary
        ELSE IF SpansOf(t, spanTable) = {} THEN summary[t]
        ELSE [summary[t] EXCEPT !.count = Cardinality(SpansOf(t, spanTable))]]

\* Mutant: the refresh after a part is left out.
RefreshPart_Skipped ==
    /\ cyc.pc = "refresh"
    /\ LET left == cyc.batch \ cyc.part IN
       cyc' = [cyc EXCEPT !.batch = left, !.part = {}, !.keys = {},
                          !.pc = IF left # {} THEN "part" ELSE IF cyc.full /\ cyc.drained < MaxPerCycle THEN "drain" ELSE "boring"]
    /\ UNCHANGED <<kindOf, retClock, stamp, idOrder, pins, cursors, slowScopes, retStops>>
    /\ UNCHANGED Stored /\ UNCHANGED History

\* The part is settled; then the next part, the next batch (until the cycle's
\* cap), or the next phase.
RefreshPart ==
    /\ cyc.pc = "refresh"
    /\ summary' = RefreshTraceStructure(cyc.keys)
    /\ LET left == cyc.batch \ cyc.part IN
       cyc' = [cyc EXCEPT !.batch = left, !.part = {}, !.keys = {},
                          !.pc = IF left # {} THEN "part" ELSE IF cyc.full /\ cyc.drained < MaxPerCycle THEN "drain" ELSE "boring"]
    /\ unsettled' = unsettled \ cyc.keys
    /\ UNCHANGED <<kindOf, retClock, stamp, idOrder, spanTable, samples, exemplars, pins, logRows, cursors, slowScopes, retStops, everCopied, swept, slowCopied>>

-----------------------------------------------------------------------------
(* purgeSpanDerived: boring spans, exemplars, expired summaries. *)

\* boringVictims, read beside the write slot.
BoringRead ==
    /\ cyc.pc = "boring"
    /\ LET expired == {s \in spanTable : ExpiresAt(s) # NoExpiry /\ ExpiresAt(s) < cyc.now} IN
       cyc' = [cyc EXCEPT !.pc = IF expired = {} THEN "prune" ELSE "boringDelete",
                          !.victims = expired, !.keys = {RetTrace[s] : s \in expired}]
    /\ UNCHANGED <<kindOf, retClock, stamp, idOrder, pins, cursors, slowScopes, retStops>>
    /\ UNCHANGED Stored /\ UNCHANGED History

DeleteBoringChunk ==
    /\ cyc.pc = "boringDelete"
    /\ spanTable' = spanTable \ cyc.victims
    /\ cyc' = [cyc EXCEPT !.pc = "boringSummaries", !.victims = {}]
    /\ UNCHANGED <<kindOf, retClock, stamp, idOrder, summary, samples, exemplars, pins, logRows, cursors, slowScopes, retStops>>
    /\ UNCHANGED History

\* dropSpanlessSummariesInParts: the summaries without a span go ...
DropSpanlessSummaries ==
    /\ cyc.pc = "boringSummaries"
    /\ LET dropped == {t \in cyc.keys : DropSpanless(t)} IN
       /\ summary' = [t \in RetTraces |-> IF t \in dropped THEN NoSummary ELSE summary[t]]
       /\ unsettled' = unsettled \ dropped
       /\ cyc' = [cyc EXCEPT !.pc = IF cyc.keys = dropped THEN "prune" ELSE "boringRefresh", !.keys = @ \ dropped]
    /\ UNCHANGED <<kindOf, retClock, stamp, idOrder, spanTable, samples, exemplars, pins, logRows, cursors, slowScopes, retStops, everCopied, swept, slowCopied>>

\* ... and RefreshTraceStructure settles the ones that were kept, in jobs of
\* its own.
RefreshKept ==
    /\ cyc.pc = "boringRefresh"
    /\ summary' = RefreshTraceStructure(cyc.keys)
    /\ unsettled' = unsettled \ cyc.keys
    /\ cyc' = [cyc EXCEPT !.pc = "prune", !.keys = {}]
    /\ UNCHANGED <<kindOf, retClock, stamp, idOrder, spanTable, samples, exemplars, pins, logRows, cursors, slowScopes, retStops, everCopied, swept, slowCopied>>

\* Mutant: the cursors stay where they were.
PruneErrorExemplars_KeepsCursors ==
    /\ cyc.pc = "prune"
    /\ exemplars' = {x \in exemplars : x.day >= cyc.now - ExemplarWindow}
    /\ cyc' = [cyc EXCEPT !.pc = "expired"]
    /\ UNCHANGED <<kindOf, retClock, stamp, idOrder, spanTable, summary, samples, pins, logRows, cursors, slowScopes, retStops>>
    /\ UNCHANGED History

PruneErrorExemplars ==
    /\ cyc.pc = "prune"
    /\ exemplars' = {x \in exemplars : x.day >= cyc.now - ExemplarWindow}
    /\ cursors' = IF exemplars' = exemplars THEN cursors
                  ELSE [cursors EXCEPT !["errors"] = NoCursor, !["samples"] = NoCursor]
    /\ cyc' = [cyc EXCEPT !.pc = "expired"]
    /\ UNCHANGED <<kindOf, retClock, stamp, idOrder, spanTable, summary, samples, pins, logRows, slowScopes, retStops>>
    /\ UNCHANGED History

DeleteExpiredTraceSummaries ==
    /\ cyc.pc = "expired"
    /\ summary' = [t \in RetTraces |-> IF /\ summary[t] # NoSummary /\ summary[t].expires # NoExpiry
                                          /\ summary[t].expires < cyc.now
                                       THEN NoSummary ELSE summary[t]]
    /\ cyc' = [cyc EXCEPT !.pc = "plain"]
    /\ UNCHANGED <<kindOf, retClock, stamp, idOrder, spanTable, samples, exemplars, pins, logRows, cursors, slowScopes, retStops>>
    /\ UNCHANGED History

-----------------------------------------------------------------------------
(* The walks: a window is read from the walk's cursor on, beside the write  *)
(* slot, and its unprotected rows are deleted after a second look.          *)

Exemplary(t) == \E x \in exemplars : x.trace = t

\* What each walk may delete: traceSummaryPlainSQL, traceSummaryErrorSQL,
\* errorSampleWindowSQL and logProtectedSQL.
PlainSummary(t) == summary[t].expires = NoExpiry /\ ~summary[t].err /\ ~summary[t].durable
ErrorSummary(t) == summary[t].expires = NoExpiry /\ (summary[t].err \/ summary[t].durable) /\ ~Exemplary(t)

FreeSample(x) == ~Exemplary(RetTrace[x.span])
LogProtected(s) ==
    \/ RetTrace[s] \in pins
    \/ \E x \in samples : RetTrace[x.span] = RetTrace[s] /\ x.at > cyc.now - ErrorLogWindow

WalkRows(w) ==
    CASE w \in {"plain", "errors"} -> {t \in RetTraces : summary[t] # NoSummary}
      [] w = "samples" -> samples
      [] w = "logs" -> logRows
WalkAt(w, r) ==
    CASE w \in {"plain", "errors"} -> summary[r].at
      [] w = "samples" -> r.at
      [] w = "logs" -> stamp[r]
Deletable(w, r) ==
    CASE w = "plain" -> PlainSummary(r) [] w = "errors" -> ErrorSummary(r)
      [] w = "samples" -> FreeSample(r) [] w = "logs" -> ~LogProtected(r)
\* Mutant: one walk to the error cutoff for both kinds of summary.
Cutoff_ErrorsForAll(w) == IF w = "logs" THEN cyc.logCut ELSE cyc.now - ErrorWindow


Cutoff(w) ==
    CASE w \in {"errors", "samples"} -> cyc.now - ErrorWindow
      [] cyc.mode = "reclaim" -> cyc.now - cyc.window
      [] w = "plain" -> cyc.cut
      [] w = "logs" -> cyc.logCut

\* load: a cursor older than the maximum starts over.
LoadCursor(w) == IF cursors[w].started = Never \/ cyc.now - cursors[w].started >= CursorMaxAge
                 THEN [at |-> Never, started |-> cyc.now] ELSE cursors[w]
ScanWindow(w) == {r \in WalkRows(w) : WalkAt(w, r) > LoadCursor(w).at /\ WalkAt(w, r) < Cutoff(w)}

\* The order of the walks and of the steps around them.
AfterWalk(w) ==
    IF cyc.mode = "reclaim"
    THEN CASE w = "logs" -> "plain" [] w = "plain" -> "errors" [] w = "errors" -> "measure"
    ELSE CASE w = "plain" -> "errors" [] w = "errors" -> "samples" [] w = "samples" -> "logs" [] w = "logs" -> "caps"

\* Mutant: the rows of the window are deleted as they were read.
StillDeletable_AsRead(w) == cyc.victims

StillDeletable(w) == {r \in cyc.victims \cap WalkRows(w) : Deletable(w, r)}

\* deleteRowsByID over the rows, and the cursor moves past the window.
EndWalk(w, gone, reached) ==
    /\ summary' = [t \in RetTraces |-> IF w \in {"plain", "errors"} /\ t \in gone THEN NoSummary ELSE summary[t]]
    /\ samples' = IF w = "samples" THEN samples \ gone ELSE samples
    /\ logRows' = IF w = "logs" THEN logRows \ gone ELSE logRows
    /\ cursors' = [cursors EXCEPT ![w] = [LoadCursor(w) EXCEPT !.at = reached]]
    /\ cyc' = [cyc EXCEPT !.pc = AfterWalk(w), !.read = FALSE, !.victims = {}, !.reached = Never]
    /\ UNCHANGED <<kindOf, retClock, stamp, idOrder, spanTable, exemplars, pins, slowScopes, retStops>>
    /\ UNCHANGED History

\* A window without a row to delete only moves the cursor.
WalkRead(w) ==
    /\ cyc.pc = w /\ ~cyc.read
    /\ LET window == ScanWindow(w)
           victims == {r \in window : Deletable(w, r)}
           reached == Most({WalkAt(w, r) : r \in window} \cup {LoadCursor(w).at})
       IN IF victims = {} THEN EndWalk(w, {}, reached)
          ELSE /\ cyc' = [cyc EXCEPT !.read = TRUE, !.victims = victims, !.reached = reached]
               /\ UNCHANGED <<kindOf, retClock, stamp, idOrder, pins, cursors, slowScopes, retStops>>
               /\ UNCHANGED Stored /\ UNCHANGED History

WalkDelete(w) ==
    /\ cyc.pc = w /\ cyc.read
    /\ EndWalk(w, StillDeletable(w), cyc.reached)

\* Exemplars are written by this worker alone, so between the read and the
\* delete of the two walks that depend on nothing else there is no race.
WalkAtOnce(w) ==
    /\ cyc.pc = w
    /\ LET window == ScanWindow(w) IN
       EndWalk(w, {r \in window : Deletable(w, r)}, Most({WalkAt(w, r) : r \in window} \cup {LoadCursor(w).at}))

-----------------------------------------------------------------------------
(* The per-project caps: whole traces, table by table, the summary last. *)

\* Mutant: the cap takes error traces too.
EvictableTrace_Errors(t, cut) == summary[t] # NoSummary /\ summary[t].at < cut /\ t \notin pins

\* evictableSQL.
EvictableTrace(t, cut) == /\ summary[t] # NoSummary /\ ~summary[t].err
                          /\ summary[t].at < cut /\ t \notin pins

\* ProjectNonErrorTraceCountCutoff: when the keepN-th newest was ingested.
CountCutoffs ==
    LET clean == {t \in RetTraces : summary[t] # NoSummary /\ ~summary[t].err}
        newer(t) == Cardinality({u \in clean : summary[u].at > summary[t].at})
        ties(t) == Cardinality({u \in clean : summary[u].at = summary[t].at})
    IN  {summary[t].at : t \in {u \in clean : newer(u) < CapTraces /\ CapTraces <= newer(u) + ties(u)}}

VictimTraces(cut) == {t \in RetTraces : EvictableTrace(t, cut)}

\* EvictProjectTracesOlderThan reads its victims, beside the write slot.
EvictOlderThan(cut, after) ==
    LET victims == VictimTraces(cut) IN
    cyc' = IF victims = {} THEN [cyc EXCEPT !.pc = after]
           ELSE [cyc EXCEPT !.pc = "capSpans", !.capCut = cut, !.victims = victims, !.afterCap = after]

\* evictPerProjectCaps: by age, then by count, each as the project's settings
\* say when they are read.
EvictByAge(set) ==
    /\ cyc.pc = "caps"
    /\ IF set THEN EvictOlderThan(cyc.now - CapWindow, "countCap") ELSE cyc' = [cyc EXCEPT !.pc = "countCap"]
    /\ UNCHANGED <<kindOf, retClock, stamp, idOrder, pins, cursors, slowScopes, retStops>>
    /\ UNCHANGED Stored /\ UNCHANGED History

EvictByCount(set) ==
    /\ cyc.pc = "countCap"
    /\ IF set /\ CountCutoffs # {} THEN EvictOlderThan(Most(CountCutoffs), "projectLogs")
       ELSE cyc' = [cyc EXCEPT !.pc = "projectLogs"]
    /\ UNCHANGED <<kindOf, retClock, stamp, idOrder, pins, cursors, slowScopes, retStops>>
    /\ UNCHANGED Stored /\ UNCHANGED History

\* Mutant: the victims are not looked at again inside the write.
StillEvictable_AsRead == cyc.victims

StillEvictable == {t \in cyc.victims : EvictableTrace(t, cyc.capCut)}

EvictSpanRows ==
    /\ cyc.pc = "capSpans"
    /\ spanTable' = {s \in spanTable : RetTrace[s] \notin StillEvictable}
    /\ swept' = swept \cup (spanTable \ spanTable')
    /\ unsettled' = unsettled \cup StillEvictable
    /\ cyc' = [cyc EXCEPT !.pc = "capSamples"]
    /\ UNCHANGED <<kindOf, retClock, stamp, idOrder, summary, samples, exemplars, pins, logRows, cursors, slowScopes, retStops, everCopied, slowCopied>>

EvictSampleRows ==
    /\ cyc.pc = "capSamples"
    /\ samples' = {x \in samples : RetTrace[x.span] \notin StillEvictable}
    /\ cyc' = [cyc EXCEPT !.pc = "capSummaries"]
    /\ UNCHANGED <<kindOf, retClock, stamp, idOrder, spanTable, summary, exemplars, pins, logRows, cursors, slowScopes, retStops>>
    /\ UNCHANGED History

EvictSummaryRows ==
    /\ cyc.pc = "capSummaries"
    /\ summary' = [t \in RetTraces |-> IF t \in StillEvictable THEN NoSummary ELSE summary[t]]
    /\ unsettled' = unsettled \ StillEvictable
    /\ cyc' = [cyc EXCEPT !.pc = "capLogs", !.victims = StillEvictable]
    /\ UNCHANGED <<kindOf, retClock, stamp, idOrder, spanTable, samples, exemplars, pins, logRows, cursors, slowScopes, retStops, everCopied, swept, slowCopied>>

\* deleteOtherTraceRows, for the traces whose summary went.
EvictOtherRows ==
    /\ cyc.pc = "capLogs"
    /\ logRows' = {s \in logRows : RetTrace[s] \notin cyc.victims}
    /\ cyc' = [cyc EXCEPT !.pc = cyc.afterCap, !.victims = {}, !.capCut = 0, !.afterCap = ""]
    /\ UNCHANGED <<kindOf, retClock, stamp, idOrder, spanTable, summary, samples, exemplars, pins, cursors, slowScopes, retStops>>
    /\ UNCHANGED History

\* DeleteProjectLogsOlderThan on main's tables, error-trace logs included: each
\* delete looks at the pins itself.  The cycle is done.  (The log shards have a
\* cap of their own, CapShards of ShardFiles.)
EvictProjectLogs ==
    /\ cyc.pc = "projectLogs"
    /\ logRows' = {s \in logRows : stamp[s] >= cyc.now - ProjectLogWindow \/ RetTrace[s] \in pins}
    /\ cyc' = [RetIdle EXCEPT !.completed = TRUE, !.cut = cyc.cut, !.now = cyc.now]
    /\ UNCHANGED <<kindOf, retClock, stamp, idOrder, spanTable, summary, samples, exemplars, pins, cursors, slowScopes, retStops>>
    /\ UNCHANGED History

-----------------------------------------------------------------------------
\* A failing statement, or the end of the context, ends the cycle where it is
\* (an error in reclaim only ends the reclaim, and counts as this too).
StopCycle ==
    /\ StopPoints /\ retStops < MaxRetStops
    /\ retStops' = retStops + 1
    /\ cyc' = RetIdle
    /\ unsettled' = unsettled \cup cyc.keys
    /\ UNCHANGED <<kindOf, retClock, stamp, idOrder, pins, cursors, slowScopes, everCopied, swept, slowCopied>>
    /\ UNCHANGED Stored

\* The process ends: the cursors and the slow sampler are in memory.
RetRestart ==
    /\ StopPoints /\ retStops < MaxRetStops
    /\ retStops' = retStops + 1
    /\ cyc' = RetIdle
    /\ cursors' = [w \in Walks |-> NoCursor]
    /\ slowScopes' = [admitted |-> {}, newest |-> 0]
    /\ slowCopied' = {}
    /\ unsettled' = unsettled \cup cyc.keys
    /\ UNCHANGED <<kindOf, retClock, stamp, idOrder, pins, everCopied, swept>>
    /\ UNCHANGED Stored

RetNext ==
    \/ RetTick
    \/ \E s \in RetSpans : ReceiveSpan(s) \/ WriteSpan(s)
    \/ \E t \in PinnedTraces : PinTrace(t) \/ UnpinTrace(t)
    \/ \E tier \in PressureTiers : RetCycle(tier)
    \/ EvictSpans
    \/ \E under \in BOOLEAN : ReclaimMeasured(under)
    \/ DrainRead \/ SamplePart \/ ReadRetainedKeys \/ DeletePart \/ RefreshPart
    \/ BoringRead \/ DeleteBoringChunk \/ DropSpanlessSummaries \/ RefreshKept
    \/ PruneErrorExemplars \/ DeleteExpiredTraceSummaries
    \/ \E w \in {"plain", "logs"} : WalkRead(w) \/ WalkDelete(w)
    \/ \E w \in {"errors", "samples"} : WalkAtOnce(w)
    \/ \E set \in BOOLEAN : EvictByAge(set) \/ EvictByCount(set)
    \/ EvictSpanRows \/ EvictSampleRows \/ EvictSummaryRows \/ EvictOtherRows \/ EvictProjectLogs
    \/ StopCycle \/ RetRestart

RetSpec == RetInit /\ [][RetNext]_retVars

-----------------------------------------------------------------------------
(* Properties. *)

\* Every variable keeps the type of the table or field it stands for.
RetTypeOK ==
    /\ retClock \in 0..RetMaxTime
    /\ stamp \in [RetSpans -> -1..RetMaxTime]
    /\ spanTable \subseteq {idOrder[i] : i \in 1..Len(idOrder)} /\ logRows \subseteq {idOrder[i] : i \in 1..Len(idOrder)}
    /\ \A t \in RetTraces : summary[t] # NoSummary => summary[t].at \in 0..RetMaxTime /\ summary[t].count >= 1
    /\ \A x \in samples : x.span \in RetSpans /\ x.at \in 0..RetMaxTime
    /\ \A x \in exemplars : x.trace \in RetTraces
    /\ pins \subseteq RetTraces /\ cyc.part \subseteq RetSpans /\ retStops \in 0..MaxRetStops

\* An error or durable span leaves spans without a copy only
\* through an eviction, or because a span of the part that waited longer in
\* staging carries a higher id, also when the cycle stops between the copy and
\* the delete and starts over.
CopiedUnlessSwept ==
    \A i \in 1..Len(idOrder) :
        MustSample(idOrder[i]) /\ idOrder[i] \notin spanTable => idOrder[i] \in everCopied \cup swept

\* The traces the walks account for late: a trace whose oldest span lies
\* exactly at the cutoff waits a cycle, since the drain takes ingested_at <=
\* cutoff and the walk of the summaries < cutoff; a trace with boring and kept
\* spans can lose its expires_at behind the cursor, which starts over after
\* logTrimCursorMaxAge.
SettledLater(t) ==
    \/ summary[t].at = cyc.cut
    \/ {"boring"} # {kindOf[s] : s \in SpansOf(t, RetSpans)} /\ "boring" \in {kindOf[s] : s \in SpansOf(t, RetSpans)}

\* After a cycle that completed, a trace that is listed can be opened: it has
\* spans or error samples (issue #169 in repo_trace_structure.go), unless rows
\* of it were evicted, or deleted by the id of another span, since.
ListedCanBeOpened ==
    cyc.completed => \A t \in RetTraces :
        summary[t] # NoSummary /\ t \notin unsettled /\ ~SettledLater(t) =>
            SpansOf(t, spanTable) # {} \/ t \in SampledTraces

\* After a cycle that completed, the span count of a listed error or durable
\* trace is the number of its spans, while it has any.  (The summary of a plain
\* trace goes with its oldest spans: retainedTraceKeysUpToID skips it.)  Excepted
\* until the trace is written or drained again: one that an eviction or the id
\* of another span took rows from, and one that became an error or durable trace
\* between the read of the keys and the delete, whose count still includes the
\* spans that went.
CountIsCurrent ==
    cyc.completed => \A t \in RetTraces :
        summary[t] # NoSummary /\ t \notin unsettled /\ SpansOf(t, spanTable) # {} =>
            (summary[t].err \/ summary[t].durable => summary[t].count = Cardinality(SpansOf(t, spanTable)))

\* An exemplar can be opened: while error_exemplars lists a trace, error
\* samples of it stay, whatever the cutoffs and the caps take.
ExemplarStays == \A x \in exemplars : x.trace \in SampledTraces

\* A completed cycle leaves nothing behind a cursor: no summary that its walk
\* may delete is older than the walk's cutoff, although the walks do not look
\* again at the rows they passed in earlier cycles.
NothingOverdue ==
    cyc.completed => \A t \in RetTraces :
        summary[t] # NoSummary /\ ~SettledLater(t) =>
            /\ ~(PlainSummary(t) /\ summary[t].at < cyc.cut)
            /\ ~(ErrorSummary(t) /\ summary[t].at < cyc.now - ErrorWindow)

\* A trace pinned before a delete on main's tables runs keeps its log records
\* there, and the caps leave it alone, although the victims were read before
\* the pin; only the logs of a trace whose summary the caps took already still
\* go.  (The records in shard files, where the pins are read once for all
\* shards, are ProtectedLogsSurvive's of ShardFiles.)
PinsHold ==
    [][\A t \in pins :
          /\ \A s \in logRows : RetTrace[s] = t /\ ~(cyc.pc = "capLogs" /\ t \in cyc.victims) => s \in logRows'
          /\ CapOpen => SpansOf(t, spanTable) \subseteq spanTable' /\ (summary[t] # NoSummary => summary'[t] # NoSummary)]_retVars

\* At most SlowSampleTraces traces of an ingest hour are copied for being slow
\* alone, however often a part is retried and whatever order the ids have.
SlowSamplesCapped ==
    \A x \in slowCopied : Cardinality({y \in slowCopied : y.hour = x.hour}) <= SlowSampleTraces

\* A retention cycle keeps what it promises, wherever it was stopped before:
\* error and durable spans are copied first, listed traces and exemplars can be
\* opened with current counts, nothing stays overdue, slow samples are capped
\* (retention.go, repo_trace_summaries_trim.go).
RetentionInv ==
    /\ RetTypeOK
    /\ CopiedUnlessSwept
    /\ ListedCanBeOpened
    /\ CountIsCurrent
    /\ ExemplarStays
    /\ NothingOverdue
    /\ SlowSamplesCapped
=============================================================================
