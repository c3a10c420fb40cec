---------------------------- MODULE TraceBuffer ----------------------------
(***************************************************************************)
(* The trace buffer (internal/ingest/trace_buffer*.go): spans wait in      *)
(* memory until their trace is decided, then the trace is delivered to Out *)
(* or dropped.  Add runs under the buffer's lock; a flush takes its traces *)
(* out under the lock, decides them outside it, and takes the lock again   *)
(* to settle the spans that arrived meanwhile.                             *)
(*                                                                         *)
(* Abstractions.  The clock is gone: any buffered trace may come due, any  *)
(* of the oldest decisions may expire, any carry may have waited long      *)
(* enough.  The hash of a trace ID against its ratio is a given set of     *)
(* traces, and the hourly floor may keep or not keep any unsampled trace.  *)
(* All spans are of one project.                                           *)
(***************************************************************************)
EXTENDS SequencesExt

CONSTANTS
    Traces,
    Spans,
    Loads,           \* the sets of spans that may come in
    TraceOf,         \* [Spans -> Traces]
    Roots,           \* spans without a parent
    Errors,          \* spans with an error status
    Slow,            \* root spans over the slow threshold
    Ops,
    OpOf,            \* [Traces -> Ops], the name of a trace's root span
    SampledRooted,   \* traces the ratio of their root operation keeps
    SampledRootless, \* traces the ratio of the project keeps
    Ratio,           \* the project's ratio
    Floor,           \* whether the hourly floor is configured
    MaxSpans,        \* the span cap
    MaxDecided,      \* decisions remembered
    MaxHeldSpans,    \* span budget of the held carriers
    OutCap,          \* capacity of Out
    InFlight,        \* spans of requests still running when Drain is called
    NoSpan

ASSUME SpansAssumption ==
    /\ Loads \subseteq SUBSET Spans
    /\ TraceOf \in [Spans -> Traces]
    /\ OpOf \in [Traces -> Ops]
    /\ Roots \subseteq Spans /\ Errors \subseteq Spans /\ InFlight \subseteq Spans
    /\ Slow \subseteq Roots
    /\ SampledRooted \subseteq Traces /\ SampledRootless \subseteq Traces
    /\ NoSpan \notin Spans

ASSUME LimitsAssumption ==
    /\ {Ratio, MaxSpans, MaxDecided, OutCap} \subseteq Nat \ {0}
    /\ MaxHeldSpans \in Nat
    /\ Floor \in BOOLEAN

Columns == {"SampledOut", "ShedUnsampled", "LostInBuffer", "Forwarded"}

VARIABLES
    load,         \* the spans that come in
    \* TraceBuffer, guarded by its lock
    buf,          \* [Traces -> SUBSET Spans], {} for a trace not buffered
    arrival,      \* buffered traces in order of bufferedTrace.seq
    sacrificeQ,   \* the eviction queues, without their consumed prefix
    anyQ,
    rescuedAtCap, \* traces kept at eviction, for the next flush
    adding,       \* the span whose Add holds the lock, or NoSpan
    \* decidedTraces
    decided,      \* decisions, oldest first
    held,         \* [Traces -> Seq(Spans)], arrived while pending
    late,         \* set of late spans kept, for the next flush
    \* carryTally
    carry,        \* [Ops -> [dropped, spans, as]]
    uncarried,    \* [Ops -> Nat], part of uncarriedTotal
    \* the flush in progress
    flushing,     \* where it is
    toDecide,     \* traces left to decide
    verdicts,     \* decisions made, for settle
    kept,         \* batches to deliver
    \* lifecycle and Out
    phase,        \* where Drain is
    out,          \* batches in Out
    \* what was counted and stamped
    accepted,     \* spans Add took in
    ledger,       \* [Spans -> [Columns -> Int]], the tally, span by span
    weight,       \* [Spans -> Nat], SampleWeight, 0 before it is stamped
    \* history
    judged,       \* spans that were in their trace when it was decided
    forgotten,    \* traces whose decision expired or made room
    carriers,     \* traces delivered as a carrier
    undelivered,  \* spans Out had no room for in time
    promised      \* spans the buffer must not drop

addVars    == <<buf, arrival, sacrificeQ, anyQ, adding>>
flushVars  == <<flushing, toDecide, verdicts, kept>>
carryVars  == <<carry, uncarried, carriers>>
decideVars == <<decided, held, late, forgotten>>
historyVars == <<load, undelivered, promised>>
vars == <<addVars, flushVars, carryVars, decideVars, historyVars, rescuedAtCap,
          phase, out, accepted, ledger, weight, judged>>

NoCarry == [dropped |-> 0, spans |-> {}, as |-> "SampledOut"]

Init ==
    /\ buf = [t \in Traces |-> {}]
    /\ arrival = <<>> /\ sacrificeQ = <<>> /\ anyQ = <<>>
    /\ rescuedAtCap = <<>>
    /\ adding = NoSpan
    /\ decided = <<>> /\ held = [t \in Traces |-> <<>>] /\ late = {}
    /\ carry = [op \in Ops |-> NoCarry] /\ uncarried = [op \in Ops |-> 0]
    /\ flushing = "idle" /\ toDecide = <<>> /\ verdicts = <<>> /\ kept = <<>>
    /\ phase = "serving" /\ out = 0
    /\ accepted = {}
    /\ ledger = [s \in Spans |-> [c \in Columns |-> 0]]
    /\ weight = [s \in Spans |-> 0]
    /\ judged = {} /\ forgotten = {} /\ carriers = {}
    /\ undelivered = {} /\ promised = {}
    /\ load \in Loads

-----------------------------------------------------------------------------
(* The trace record, the tally and the sampling rules. *)

Buffered == {t \in Traces : buf[t] # {}}
HasRoot(S) == S \cap Roots # {}
HasError(S) == S \cap Errors # {}
SpanCount == Cardinality(UNION {buf[t] : t \in Traces})

Sampled(t, S) == t \in (IF HasRoot(S) THEN SampledRooted ELSE SampledRootless)
Sacrificial(t, S) == ~Sampled(t, S)

Count(l, S, col, n) ==
    [s \in Spans |-> IF s \in S THEN [l[s] EXCEPT ![col] = @ + n] ELSE l[s]]

Stamp(S, w) == [s \in Spans |-> IF s \in S THEN w ELSE weight[s]]

\* The rules that keep every trace of their kind.
AlwaysKept(S) == HasError(S) \/ S \cap Slow # {}

\* The weights keepWeight may return; the floor makes the choice.
KeepWeights(t, S) ==
    LET sample == CASE HasRoot(S)    -> 1 + carry[OpOf[t]].dropped
                    [] Sampled(t, S) -> Ratio
                    [] OTHER         -> 1
    IN  CASE AlwaysKept(S) -> {1}
          [] Sampled(t, S) -> {sample}
          [] OTHER         -> IF Floor THEN {0, sample} ELSE {0}

\* Mutant: the drops a kept trace carries are not cleared.
CarryTake_Keeps(t, S) == carry

\* A rooted trace kept as a sample takes its operation's drops along.
CarryTake(t, S) ==
    IF AlwaysKept(S) \/ ~HasRoot(S) THEN carry ELSE [carry EXCEPT ![OpOf[t]] = NoCarry]

HeldSpans == MapThenSumSet(LAMBDA op : Cardinality(carry[op].spans), Ops)

CarryDrop(t, S, col) ==
    LET e == carry[OpOf[t]]
        fits == HeldSpans - Cardinality(e.spans) + Cardinality(S) <= MaxHeldSpans
    IN  IF HasRoot(S)
        THEN [carry EXCEPT ![OpOf[t]] =
                [dropped |-> e.dropped + 1,
                 spans   |-> IF fits THEN S ELSE e.spans,
                 as      |-> IF fits THEN col ELSE e.as]]
        ELSE carry

-----------------------------------------------------------------------------
(* decidedTraces.  The references of order are always live: an entry leaves *)
(* the map only through pop, so one sequence stands for both.               *)

Ids(d) == {d[i].id : i \in DOMAIN d}
IndexOf(d, t) == SelectInSeq(d, LAMBDA e : e.id = t)

Put(d, t, w, pending) ==
    LET e == [id |-> t, weight |-> w, pending |-> pending]
    IN  IF t \in Ids(d)
        THEN [d EXCEPT ![IndexOf(d, t)] = e]
        ELSE Append(IF Len(d) >= MaxDecided THEN Tail(d) ELSE d, e)

\* What follow reads and writes, as one value: settle follows many spans.
World == [decided |-> decided, held |-> held, late |-> late,
          weight |-> weight, dropped |-> {}]

\* Mutant: a late span of a dropped trace goes without a ledger entry.
Follow_Uncounted(w, s) ==
    LET t == TraceOf[s]
        i == IndexOf(w.decided, t)
        e == w.decided[i]
        wt == IF e.weight = 0 /\ s \in Errors THEN 1 ELSE e.weight
    IN  CASE e.pending -> [w EXCEPT !.held[t] = Append(@, s)]
          [] ~e.pending /\ wt = 0 -> w
          [] OTHER -> [w EXCEPT !.decided[i].weight = wt,
                                !.late = @ \cup {s},
                                !.weight[s] = wt]

\* Mutant: a pending decision, whose weight is 0, is taken for a drop.
Follow_IgnoresPending(w, s) ==
    LET t == TraceOf[s]
        i == IndexOf(w.decided, t)
        wt == IF w.decided[i].weight = 0 /\ s \in Errors THEN 1 ELSE w.decided[i].weight
    IN  IF wt = 0 THEN [w EXCEPT !.dropped = @ \cup {s}]
        ELSE [w EXCEPT !.decided[i].weight = wt, !.late = @ \cup {s}, !.weight[s] = wt]

Follow(w, s) ==
    LET t == TraceOf[s]
        i == IndexOf(w.decided, t)
        e == w.decided[i]
        wt == IF e.weight = 0 /\ s \in Errors THEN 1 ELSE e.weight
    IN  CASE e.pending -> [w EXCEPT !.held[t] = Append(@, s)]
          [] ~e.pending /\ wt = 0 -> [w EXCEPT !.dropped = @ \cup {s}]
          [] OTHER -> [w EXCEPT !.decided[i].weight = wt,
                                !.late = @ \cup {s},
                                !.weight[s] = wt]

Remember(d) ==
    /\ decided' = d
    /\ forgotten' = forgotten \cup (Ids(decided) \ Ids(d))

-----------------------------------------------------------------------------
(* Add.  It holds the lock from the first step to the last; the flush only  *)
(* gets in between with what it does outside the lock.                      *)

\* A span after an error of its trace is owed the same promise as the error.
Promise(s) ==
    promised' = promised \cup
        {r \in {s} : r \in Errors \/ (TraceOf[r] \notin forgotten /\
                       \E e \in accepted \cap Errors : TraceOf[e] = TraceOf[r])}

Add(s) ==
    /\ adding = NoSpan
    /\ s \in load \ accepted
    /\ phase = "serving" \/ s \in InFlight
    /\ accepted' = accepted \cup {s}
    /\ Promise(s)
    /\ IF TraceOf[s] \notin Buffered /\ TraceOf[s] \in Ids(decided)
       THEN LET w == Follow(World, s)
            IN  /\ decided' = w.decided
                /\ held' = w.held
                /\ late' = w.late
                /\ weight' = w.weight
                /\ ledger' = Count(ledger, w.dropped, "SampledOut", 1)
                /\ UNCHANGED adding
       ELSE /\ adding' = s
            /\ UNCHANGED <<decided, held, late, weight, ledger>>
    /\ UNCHANGED <<buf, arrival, sacrificeQ, anyQ, rescuedAtCap, flushVars, carryVars,
                   phase, out, judged, forgotten, undelivered, load>>

\* Mutant: off by one.
Full_OffByOne == SpanCount > MaxSpans

Full == SpanCount >= MaxSpans

\* Mutant: a trace is evicted although it has an error.
Evictable_Errors(t) == t \in Buffered /\ t # TraceOf[adding]

Evictable(t) == t \in Buffered /\ ~HasError(buf[t]) /\ t # TraceOf[adding]
SacrificialVictim == SelectInSeq(sacrificeQ, LAMBDA t : Evictable(t) /\ Sacrificial(t, buf[t]))
AnyVictim == SelectInSeq(anyQ, Evictable)

\* Mutant: remove returns the span budget and leaves the trace in the map.
Evict_NotDeleted(t, w) ==
    /\ arrival' = Remove(arrival, t)
    /\ Remember(Put(decided, t, w, FALSE))
    /\ held' = [held EXCEPT ![t] = <<>>]
    /\ judged' = judged \cup buf[t]
    /\ UNCHANGED <<buf, adding, late, flushVars, uncarried, carriers, phase, out, accepted,
                   historyVars>>

\* remove, and the decision that later spans of the trace follow.
Evict(t, w) ==
    /\ buf' = [buf EXCEPT ![t] = {}]
    /\ arrival' = Remove(arrival, t)
    /\ Remember(Put(decided, t, w, FALSE))
    /\ held' = [held EXCEPT ![t] = <<>>]
    /\ judged' = judged \cup buf[t]
    /\ UNCHANGED <<adding, late, flushVars, uncarried, carriers, phase, out, accepted, historyVars>>

EvictDropped(t, col) ==
    /\ Evict(t, 0)
    /\ ledger' = Count(ledger, buf[t], col, 1)
    /\ carry' = CarryDrop(t, buf[t], col)
    /\ UNCHANGED <<weight, rescuedAtCap>>

RescueAtCap(t, w) ==
    /\ Evict(t, w)
    /\ rescuedAtCap' = Append(rescuedAtCap, buf[t])
    /\ weight' = Stamp(buf[t], w)
    /\ carry' = CarryTake(t, buf[t])
    /\ UNCHANGED ledger

EvictSacrificial ==
    /\ adding # NoSpan /\ Full
    /\ SacrificialVictim # 0
    /\ LET t == sacrificeQ[SacrificialVictim]
       IN  \E w \in KeepWeights(t, buf[t]) :
              \/ w > 0 /\ RescueAtCap(t, w)
              \/ w = 0 /\ EvictDropped(t, "ShedUnsampled")
    /\ sacrificeQ' = SubSeq(sacrificeQ, SacrificialVictim + 1, Len(sacrificeQ))
    /\ UNCHANGED anyQ

EvictAny ==
    /\ adding # NoSpan /\ Full
    /\ SacrificialVictim = 0 /\ AnyVictim # 0
    /\ EvictDropped(anyQ[AnyVictim], "LostInBuffer")
    /\ sacrificeQ' = <<>>
    /\ anyQ' = SubSeq(anyQ, AnyVictim + 1, Len(anyQ))

\* newTrace, relabel and the append, over the queues that eviction left.
Store(s, sacrifice, any) ==
    LET t == TraceOf[s]
        was == buf[t]
        now == was \cup {s}
        becomes == Sacrificial(t, now) /\ (was = {} \/ ~Sacrificial(t, was))
    IN  /\ buf' = [buf EXCEPT ![t] = now]
        /\ arrival' = IF was = {} THEN Append(arrival, t) ELSE arrival
        /\ anyQ' = IF was = {} THEN Append(any, t) ELSE any
        /\ sacrificeQ' = IF becomes THEN Append(sacrifice, t) ELSE sacrifice
        /\ UNCHANGED ledger

AddEnd ==
    /\ adding' = NoSpan
    /\ UNCHANGED <<rescuedAtCap, flushVars, carryVars, decideVars, phase, out, accepted,
                   weight, judged, historyVars>>

AddStored ==
    /\ adding # NoSpan /\ ~Full
    /\ Store(adding, sacrificeQ, anyQ)
    /\ AddEnd

\* Nothing to evict: nextVictim has emptied both queues.  An error trace may
\* overshoot the cap.
AddFull ==
    /\ adding # NoSpan /\ Full
    /\ SacrificialVictim = 0 /\ AnyVictim = 0
    /\ IF adding \in Errors \/ HasError(buf[TraceOf[adding]])
       THEN Store(adding, <<>>, <<>>)
       ELSE /\ sacrificeQ' = <<>> /\ anyQ' = <<>>
            /\ ledger' = Count(ledger, {adding}, "LostInBuffer", 1)
            /\ UNCHANGED <<buf, arrival>>
    /\ AddEnd

-----------------------------------------------------------------------------
(* flush: the gc loop's, Drain's steps, and the last one of all traces.     *)

\* Mutant: the last flush too waits for traces to come due.
DueSets_NotAll == SUBSET Buffered

\* The sets of traces one flush may decide: those that came due, or all.
DueSets == IF phase = "finishing" THEN {Buffered} ELSE SUBSET Buffered

\* Under the lock: the due traces leave the buffer, marked as pending; the
\* oldest decisions expire; the traces rescued at the cap go out first.
FlushBegin ==
    /\ flushing = "idle" /\ adding = NoSpan
    /\ phase # "closed"
    /\ \E D \in DueSets :
          LET due == SelectSeq(arrival, LAMBDA t : t \in D)
              puts == FoldLeft(LAMBDA d, t : Put(d, t, 0, TRUE), decided, due)
          IN  /\ toDecide' = [i \in DOMAIN due |-> [id |-> due[i], spans |-> buf[due[i]]]]
              /\ buf' = [t \in Traces |-> IF t \in D THEN {} ELSE buf[t]]
              /\ arrival' = SelectSeq(arrival, LAMBDA t : t \notin D)
              /\ held' = [t \in Traces |-> IF t \in D THEN <<>> ELSE held[t]]
              /\ sacrificeQ' = SelectSeq(sacrificeQ, LAMBDA t : t \in Buffered \ D)
              /\ anyQ' = SelectSeq(anyQ, LAMBDA t : t \in Buffered \ D)
              /\ \E n \in {k \in 0..Len(puts) : \A i \in 1..k : puts[i].id \in Ids(decided)} :
                    Remember(SubSeq(puts, n + 1, Len(puts)))
    /\ kept' = rescuedAtCap
    /\ rescuedAtCap' = <<>>
    /\ flushing' = "deciding"
    /\ UNCHANGED <<adding, late, verdicts, carryVars, phase, out, accepted, ledger, weight,
                   judged, historyVars>>

\* Outside the lock, trace by trace in arrival order.
Decide ==
    /\ flushing = "deciding" /\ toDecide # <<>>
    /\ LET t == Head(toDecide).id
           S == Head(toDecide).spans
       IN  \E w \in KeepWeights(t, S) :
              /\ verdicts' = Append(verdicts, [id |-> t, weight |-> w])
              /\ judged' = judged \cup S
              /\ \/ /\ w > 0
                    /\ kept' = Append(kept, S)
                    /\ weight' = Stamp(S, w)
                    /\ carry' = CarryTake(t, S)
                    /\ UNCHANGED ledger
                 \/ /\ w = 0
                    /\ ledger' = Count(ledger, S, "SampledOut", 1)
                    /\ carry' = CarryDrop(t, S, "SampledOut")
                    /\ UNCHANGED <<kept, weight>>
    /\ toDecide' = Tail(toDecide)
    /\ UNCHANGED <<addVars, decideVars, historyVars, rescuedAtCap, flushing, uncarried, carriers,
                   phase, out, accepted>>

\* ledgerCarriers: spans that go out after all take back their exit.
LedgerCarriers(S) ==
    [s \in Spans |-> IF s \in S THEN [ledger[s] EXCEPT ![carry[OpOf[TraceOf[s]]].as] = @ - 1]
                     ELSE ledger[s]]

\* carry.expired and ledgerCarriers: the drops that waited long enough go out
\* with a dropped trace as their carrier, which takes back its exit.
CarryExpired ==
    /\ flushing = "deciding" /\ toDecide = <<>>
    /\ LET waiting == {op \in Ops : carry[op].dropped > 0}
       IN  \E E \in IF phase = "finishing" THEN {waiting} ELSE SUBSET waiting :
              LET with == {op \in E : carry[op].spans # {}}
                  S == UNION {carry[op].spans : op \in with}
              IN  /\ kept' = kept \o SetToSeq({carry[op].spans : op \in with})
                  /\ weight' = [s \in Spans |->
                                  IF s \in S THEN carry[OpOf[TraceOf[s]]].dropped ELSE weight[s]]
                  /\ ledger' = LedgerCarriers(S)
                  /\ carriers' = carriers \cup {TraceOf[s] : s \in S}
                  /\ uncarried' = [op \in Ops |-> IF op \in E \ with
                                     THEN uncarried[op] + carry[op].dropped ELSE uncarried[op]]
                  /\ carry' = [op \in Ops |-> IF op \in E THEN NoCarry ELSE carry[op]]
    /\ flushing' = "settling"
    /\ UNCHANGED <<addVars, decideVars, historyVars, rescuedAtCap, toDecide, verdicts, phase, out,
                   accepted, judged>>

\* Under the lock again: record the verdicts, let the spans that waited for
\* them follow, and take the late spans along.
Settle ==
    /\ flushing = "settling" /\ adding = NoSpan
    /\ LET record(w, v) ==
               FoldLeft(Follow,
                        [w EXCEPT !.decided = Put(@, v.id, v.weight, FALSE), !.held[v.id] = <<>>],
                        w.held[v.id])
           w == FoldLeft(record, World, verdicts)
       IN  /\ Remember(w.decided)
           /\ held' = w.held
           /\ late' = {}
           /\ weight' = w.weight
           /\ ledger' = Count(ledger, w.dropped, "SampledOut", 1)
           /\ kept' = IF w.late = {} THEN kept ELSE Append(kept, w.late)
    /\ verdicts' = <<>>
    /\ flushing' = "delivering"
    /\ UNCHANGED <<addVars, carryVars, historyVars, rescuedAtCap, toDecide, phase, out, accepted,
                   judged>>

Deliver(S, col) ==
    /\ kept' = Tail(kept)
    /\ ledger' = Count(ledger, S, col, 1)
    /\ UNCHANGED <<addVars, carryVars, decideVars, rescuedAtCap, flushing, toDecide, verdicts, phase,
                   accepted, weight, judged, promised, load>>

Send ==
    /\ flushing = "delivering" /\ kept # <<>>
    /\ out < OutCap
    /\ out' = out + 1
    /\ Deliver(Head(kept), "Forwarded")
    /\ UNCHANGED undelivered

\* Mutant: deliver waits for room as long as it takes.
SendTimeout_Never == Send

\* outDeliverTimeout passes.  Out may have gained room by then, but a select
\* that picks the timer all the same leaves what a timeout just before leaves.
SendTimeout ==
    /\ flushing = "delivering" /\ kept # <<>>
    /\ out = OutCap
    /\ undelivered' = undelivered \cup Head(kept)
    /\ Deliver(Head(kept), "LostInBuffer")
    /\ UNCHANGED out

-----------------------------------------------------------------------------
(* Drain: stop the gc loop, flush until no rooted trace is left or the      *)
(* deadline passes, then flush everything and close Out.                    *)

Goto(p) ==
    /\ phase' = p
    /\ UNCHANGED <<addVars, carryVars, decideVars, historyVars, rescuedAtCap, toDecide, verdicts,
                   kept, out, accepted, ledger, weight, judged>>

FlushEnd ==
    /\ flushing = "delivering" /\ kept = <<>>
    /\ flushing' = "idle"
    /\ LET rooted == {t \in Buffered : HasRoot(buf[t])}
       IN  \/ phase \in {"serving", "stopping"} /\ Goto(phase)
           \/ phase = "draining" /\ adding = NoSpan /\ rooted # {} /\ Goto("draining")
           \/ phase = "draining" /\ adding = NoSpan /\ Goto("finishing")
           \/ phase = "finishing" /\ Goto("closed")

Drain ==
    /\ phase = "serving"
    /\ Goto("stopping")
    /\ UNCHANGED flushing

GCDone ==
    /\ phase = "stopping" /\ flushing = "idle"
    /\ Goto("draining")
    /\ UNCHANGED flushing

\* The goroutine of drainTraceBuffer.
Receive ==
    /\ out > 0
    /\ out' = out - 1
    /\ UNCHANGED <<addVars, flushVars, carryVars, decideVars, historyVars, rescuedAtCap, phase,
                   accepted, ledger, weight, judged>>

AddSteps == EvictSacrificial \/ EvictAny \/ AddStored \/ AddFull
FlushSteps == Decide \/ CarryExpired \/ Settle \/ Send \/ SendTimeout \/ FlushEnd

Next ==
    \/ \E s \in Spans : Add(s)
    \/ AddSteps
    \/ FlushBegin
    \/ FlushSteps
    \/ Drain
    \/ GCDone
    \/ Receive

Spec == Init /\ [][Next]_vars

\* The goroutines are scheduled; the gc loop sees stop although its ticker
\* fires too; and the deadline of Drain passes.  Nobody has to receive from
\* Out: deliver gives up on its own.
FairSpec ==
    /\ Spec
    /\ WF_vars(AddSteps \/ FlushSteps \/ (FlushBegin /\ phase # "serving"))
    /\ SF_vars(GCDone)
    /\ SF_vars(FlushEnd /\ phase' = "finishing")

-----------------------------------------------------------------------------
Batch(q) == UNION {q[i] : i \in DOMAIN q}

Inside ==
    {adding} \cup UNION {buf[t] : t \in Traces} \cup UNION {Range(held[t]) : t \in Traces}
    \cup late \cup Batch(rescuedAtCap) \cup Batch(kept)
    \cup UNION {toDecide[i].spans : i \in DOMAIN toDecide}

TypeOK ==
    /\ buf \in [Traces -> SUBSET Spans]
    /\ \A t \in Traces : \A s \in buf[t] : TraceOf[s] = t
    /\ Range(arrival) = Buffered /\ Len(arrival) = Cardinality(Buffered)
    /\ Range(sacrificeQ) \subseteq Traces /\ Range(anyQ) \subseteq Traces
    /\ Batch(rescuedAtCap) \subseteq Spans
    /\ adding \in Spans \cup {NoSpan}
    /\ \A i \in DOMAIN decided : decided[i] \in [id : Traces, weight : Nat, pending : BOOLEAN]
    /\ \A t \in Traces : Range(held[t]) \subseteq Spans
    /\ late \subseteq Spans
    /\ carry \in [Ops -> [dropped : Nat, spans : SUBSET Spans, as : Columns]]
    /\ uncarried \in [Ops -> Nat]
    /\ flushing \in {"idle", "deciding", "settling", "delivering"}
    /\ \A i \in DOMAIN toDecide : toDecide[i] \in [id : Traces, spans : SUBSET Spans]
    /\ \A i \in DOMAIN verdicts : verdicts[i] \in [id : Traces, weight : Nat]
    /\ Batch(kept) \subseteq Spans
    /\ phase \in {"serving", "stopping", "draining", "finishing", "closed"}
    /\ out \in 0..OutCap
    /\ ledger \in [Spans -> [Columns -> Int]]
    /\ weight \in [Spans -> Nat]
    /\ accepted \cup judged \cup undelivered \cup promised \subseteq load
    /\ forgotten \cup carriers \subseteq Traces

Exits(s) == Cardinality({c \in Columns : ledger[s][c] # 0})

\* Every span Add takes in leaves through exactly one of sampled out, shed,
\* lost or forwarded: it has no exit while the buffer holds it and one
\* afterwards, also when it was dropped and came back as a carrier.
LedgerExactlyOnce ==
    LET left == accepted \ Inside
    IN  \A s \in load :
           /\ \A c \in Columns : ledger[s][c] \in {0, 1}
           /\ Exits(s) = IF s \in left THEN 1 ELSE 0

\* Every trace whose root span the buffer decided is counted once, by its own
\* weight, inside a carrier's, in the count that waits for a carrier, or as
\* uncarried, whether a flush or an eviction decided it.
TracesCountedOnce ==
    \A op \in Ops :
       LET roots == {s \in judged \cap Roots : OpOf[TraceOf[s]] = op}
       IN  MapThenSumSet(LAMBDA s : weight[s], roots) + carry[op].dropped + uncarried[op]
             = Cardinality(roots)

\* Error traces are kept: a span with an error, or one that comes after an
\* error of its trace, is never sampled out, shed or refused; only an Out that
\* stays full loses it.
PromisedSpansKept ==
    \A s \in promised :
       /\ ledger[s]["SampledOut"] = 0 /\ ledger[s]["ShedUnsampled"] = 0
       /\ ledger[s]["LostInBuffer"] = 1 => s \in undelivered

\* A dropped trace does not come back as a stored part, nor the reverse: the
\* spans of a clean trace share one decision for as long as it is remembered,
\* whichever of them came before, during or after it.
DecisionSticks ==
    \A s, r \in accepted :
       (/\ TraceOf[s] = TraceOf[r]
        /\ TraceOf[s] \notin forgotten \cup carriers
        /\ \A e \in accepted \cap Errors : TraceOf[e] # TraceOf[s])
       => ~(weight[s] > 0 /\ (ledger[r]["SampledOut"] = 1 \/ ledger[r]["ShedUnsampled"] = 1))

\* Only error traces overshoot the cap.
CleanSpansUnderCap ==
    Cardinality(UNION {buf[t] : t \in {u \in Traces : ~HasError(buf[u])}}) <= MaxSpans

\* Once Out is closed no accepted span is left without an exit, but for the
\* spans of a request that outlives the servers' shutdown: closeTraceBuffer is
\* meant to run after the servers stop taking spans.
NothingLeftBehind ==
    phase = "closed" => \A s \in accepted \ InFlight : Exits(s) = 1

\* Drain ends, also when nobody receives from Out.
DrainEnds == phase = "stopping" ~> phase = "closed"

\* The buffer's books balance at every step (trace_buffer.go): the state is well
\* formed, every span it took in has exactly one exit, and every decided trace
\* is counted once.
BufferLedger ==
    /\ TypeOK
    /\ LedgerExactlyOnce
    /\ TracesCountedOnce

\* At the cap clean traces give way and error traces do not (makeRoom, add):
\* only error traces overshoot it, and none of their spans is dropped.
CapKeepsErrors ==
    /\ CleanSpansUnderCap
    /\ PromisedSpansKept
=============================================================================
