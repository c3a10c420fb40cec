------------------------------- MODULE Alerts -------------------------------
(***************************************************************************)
(* The alert runner (internal/alert): every minute it evaluates the        *)
(* threshold alerts, counts the SLOs minute by minute into slo_counts,     *)
(* fires or clears their burn alerts and prunes old counts.  The rules are *)
(* edited through the API (api/alerts.go, api/slos.go, service/slos.go)    *)
(* while it runs.                                                          *)
(*                                                                         *)
(* Time is in half minutes: a bucket is SloBucket of them and stays open   *)
(* for SloLag after it ends.  One SLO with one burn alert, and one         *)
(* threshold alert; alMode says which of the two a behaviour is about, and *)
(* whether spans are staged.                                               *)
(***************************************************************************)
EXTENDS Integers, FiniteSets, FiniteSetsExt

CONSTANTS
    AlMaxTime, SloBucket, SloLag,
    StageWindow,    \* how long a staged span waits for its trace
    AlSpans,        \* spans that may arrive
    SloSpans,       \* those of the SLO's behaviours
    CatchUp,        \* sloMaxCatchUp, in buckets
    AlCooldown,
    AlWindows,      \* burn alert windows an edit may choose
    SloWindows,     \* SLO windows an edit may choose
    BurnFactor,     \* the burn exceeds when bad * BurnFactor > total
    AlertOps,       \* operations of the service of the threshold alert
    Threshold, SlowMs, CompareBuckets,
    MaxAlEvents     \* bound on failed statements and edits together

ASSUME AlertAssumption ==
    /\ SloBucket \in Nat \ {0} /\ CatchUp \in Nat \ {0}
    /\ SloLag \in 1..SloBucket /\ StageWindow \in Nat /\ SloSpans \subseteq AlSpans
    /\ \A w \in AlWindows : \E d \in SloWindows : w < d

VARIABLES
    alMode,
    alClock,
    spanIn,      \* each span: its ingested_at, whether it is in the spans table or was staged
    sloDays,     \* the SLO's window, 0 when there is no SLO
    burnRow,     \* the row of slo_burn_alerts, or NoAlert
    counts,      \* slo_counts: bucket -> bad and total
    sloTick,     \* the running tick of the SLO evaluator
    thRow,       \* the row of alerts, or NoRule
    alFaults, alEdits,
    told,        \* when the alert last notified (history)
    episode,     \* notified since the alert was last clear (history)
    skipped,     \* buckets the catch-up bound left out, or pruned (history)
    unsure,      \* a state write or a list read failed (history)
    blind        \* properties the last step broke (history)

alVars == <<alMode, alClock, spanIn, sloDays, burnRow, counts, sloTick, thRow,
            alFaults, alEdits, told, episode, skipped, unsure, blind>>

NoAlert == [id |-> 0, window |-> 0, enabled |-> FALSE, firing |-> FALSE, last |-> -1]
NoCount == [bad |-> -1, total |-> -1]
NoRule == [type |-> "none", enabled |-> FALSE, cooldown |-> 0, last |-> -1]
NoTick == [step |-> "idle", now |-> -1, snap |-> NoAlert, keep |-> 0]

Truncate(t) == (t \div SloBucket) * SloBucket
SloBuckets == {b \in 0..AlMaxTime : b % SloBucket = 0}

AlInit ==
    /\ alMode \in {"slo", "staging", "threshold"}
    /\ alClock = 0
    /\ spanIn = [s \in AlSpans |-> [at |-> -1, bad |-> FALSE, op |-> CHOOSE o \in AlertOps : TRUE,
                                 landed |-> FALSE, staged |-> FALSE]]
    /\ sloDays = Max(SloWindows)
    /\ burnRow \in {NoAlert, [NoAlert EXCEPT !.id = 1, !.window = Max(AlWindows), !.enabled = TRUE]}
    /\ alMode = "threshold" => burnRow = NoAlert
    /\ counts = [b \in SloBuckets |-> NoCount] /\ sloTick = NoTick
    /\ thRow \in {NoRule, [type |-> "error_rate", enabled |-> TRUE, cooldown |-> AlCooldown, last |-> -1]}
    /\ alMode # "threshold" => thRow = NoRule
    /\ alFaults = 0 /\ alEdits = 0
    /\ told = -1 /\ episode = FALSE /\ skipped = {} /\ unsure = FALSE /\ blind = {}

\* The bound on failures and edits.  They do not depend on how spans reach
\* the table, so they are left to the behaviours without staging.
EventsLeft == alMode # "staging" /\ alFaults + alEdits < MaxAlEvents

-----------------------------------------------------------------------------
(* Spans. *)

\* A span is written.  Its row is stamped with ingested_at by the insert: into
\* spans, where it is seen when the batch commits, at once or within the lag
\* the evaluator allows for, or into spans_staging.  (Only near the end of a
\* bucket can a late commit outlast the bucket.)
SpanIngested(s, bad, op, way) ==
    /\ sloTick.step = "idle"
    /\ spanIn[s].at = -1 /\ \A t \in AlSpans : t < s => spanIn[t].at # -1
    /\ way = "late" => Truncate(alClock) # Truncate(alClock + SloLag)
    /\ CASE alMode = "threshold" -> way = "now" /\ alClock % SloBucket = 0
         [] alMode = "slo" -> s \in SloSpans /\ op = spanIn[s].op /\ way # "staged"
         [] OTHER -> s \in SloSpans /\ op = spanIn[s].op /\ way = "staged"
    /\ spanIn' = [spanIn EXCEPT ![s] = [at |-> alClock, bad |-> bad, op |-> op, landed |-> way = "now", staged |-> way = "staged"]]
    /\ blind' = {}
    /\ UNCHANGED <<alMode, alClock, sloDays, burnRow, counts, sloTick, thRow, alFaults, alEdits, told, episode, skipped, unsure>>

\* flushOnce moves a staged span to spans once its window has passed, and
\* ingested_at moves with it.
FlushStaged(s) ==
    /\ sloTick.step = "idle"
    /\ spanIn[s].staged /\ ~spanIn[s].landed /\ alClock >= spanIn[s].at + StageWindow
    /\ spanIn' = [spanIn EXCEPT ![s].landed = TRUE] /\ blind' = {}
    /\ UNCHANGED <<alMode, alClock, sloDays, burnRow, counts, sloTick, thRow, alFaults, alEdits, told, episode, skipped, unsure>>

AlClockTick ==
    /\ alClock < AlMaxTime /\ sloTick.step = "idle"
    /\ alClock' = alClock + 1 /\ blind' = {}
    /\ spanIn' = [s \in AlSpans |-> [spanIn[s] EXCEPT !.landed =
                    @ \/ (spanIn[s].at # -1 /\ ~spanIn[s].staged /\ alClock >= spanIn[s].at + SloLag)]]
    /\ UNCHANGED <<alMode, sloDays, burnRow, counts, sloTick, thRow, alFaults, alEdits, told, episode, skipped, unsure>>

-----------------------------------------------------------------------------
(* Counting (slo_eval_counts.go). *)

\* Mutant: a bucket is counted as soon as it ends.
SloCloseBefore_NoLag(now) == Truncate(now)

\* sloCloseBefore: the end of the newest bucket that is safe to count.
SloCloseBefore(now) == IF now < SloLag THEN 0 ELSE Truncate(now - SloLag)

\* LatestSLOBucket.
Counted == {b \in SloBuckets : counts[b] # NoCount}

\* sloCountStart: after the newest stored bucket, not further back than the
\* catch-up bound.
SloCountStart(closeBefore) ==
    LET floor == Max({0, closeBefore - CatchUp * SloBucket})
    IN IF Counted = {} THEN floor ELSE Max({floor, Max(Counted) + SloBucket})

\* The spans ingested in a bucket, and the count of a set of spans.
IngestedIn(b) == {s \in AlSpans : spanIn[s].at \in b..(b + SloBucket - 1)}
CountOf(spans) == [bad |-> Cardinality({s \in spans : spanIn[s].bad}), total |-> Cardinality(spans)]

\* countBucket reads the spans table.
CountBucket(b) == CountOf({s \in IngestedIn(b) : spanIn[s].landed})

\* Mutant: an error part way through the count does not end the evaluation.
AfterCount_GoesOn(stop) == "burn"

\* evaluateSLO: when counting fails the alerts are skipped.
AfterCount(stop) == IF stop = -1 THEN "burn" ELSE "prune"

\* SumSLOCounts.
SumSLOCounts(from, to) ==
    LET bs == {b \in Counted : from <= b /\ b < to}
    IN [bad |-> MapThenSumSet(LAMBDA b : counts[b].bad, bs), total |-> MapThenSumSet(LAMBDA b : counts[b].total, bs)]

\* BurnRate above the alert's: never without traffic.
Exceeds(c) == c.total > 0 /\ c.bad * BurnFactor > c.total

-----------------------------------------------------------------------------
(* The tick of the SLO evaluator (slo_eval.go, slo_eval_notify.go). *)

\* Mutant: the windows of the alerts are not looked at.
Keep_DaysOnly(snap, days) == days

\* How long the counts are kept: the longest window that was read.
Keep(snap, days) == Max({snap.window, days})

\* evaluateProject and evaluateSLO read the SLO and its alerts, once a minute.
EvaluateProject(listed) ==
    /\ alMode # "threshold" /\ sloTick.step = "idle" /\ sloDays # 0 /\ blind = {}
    /\ sloTick.now # -1 => alClock >= sloTick.now + SloBucket
    /\ ~listed => EventsLeft
    /\ LET snap == IF listed THEN burnRow ELSE NoAlert
       IN sloTick' = [step |-> "count", now |-> alClock, snap |-> snap, keep |-> Keep(snap, sloDays)]
    /\ alFaults' = IF listed THEN alFaults ELSE alFaults + 1
    /\ unsure' = (unsure \/ ~listed)
    /\ UNCHANGED <<alMode, alClock, spanIn, sloDays, burnRow, counts, thRow, alEdits, told, episode, skipped, blind>>

\* countSLO counts the closed buckets in turn; a failure at the bucket stop
\* keeps the ones before it.  Nothing is stored for a deleted SLO.
CountSLO(stop) ==
    /\ sloTick.step = "count"
    /\ LET close == SloCloseBefore(sloTick.now)
           start == SloCountStart(close)
           todo == {b \in SloBuckets : start <= b /\ b < close}
           done == IF stop = -1 THEN todo ELSE {b \in todo : b < stop}
       IN /\ stop # -1 => stop \in todo /\ EventsLeft
          /\ counts' = [b \in SloBuckets |-> IF b \in done /\ sloDays # 0 THEN CountBucket(b) ELSE counts[b]]
          /\ skipped' = skipped \cup {b \in SloBuckets : b < start /\ counts[b] = NoCount}
          /\ sloTick' = [sloTick EXCEPT !.step = IF sloDays = 0 THEN "prune" ELSE AfterCount(stop)]
    /\ alFaults' = IF stop = -1 THEN alFaults ELSE alFaults + 1
    /\ UNCHANGED <<alMode, alClock, spanIn, sloDays, burnRow, thRow, alEdits, told, episode, unsure, blind>>

\* Mutant: no cooldown after a recovery.
InCooldown_Never(a, now) == FALSE

\* inCooldown.
InCooldown(a, now) == a.last # -1 /\ now < a.last + AlCooldown

\* UpdateSLOBurnAlertState, on a row that may be gone.
UpdateSLOBurnAlertState(firing, at) ==
    burnRow' = IF burnRow.id # sloTick.snap.id THEN burnRow
               ELSE [burnRow EXCEPT !.firing = firing, !.last = IF at = -1 THEN @ ELSE at]

\* evaluateBurnAlert decides on the rule it has read: fire, clear or nothing.
EvaluateBurnAlert(recorded) ==
    /\ sloTick.step = "burn"
    /\ LET a == sloTick.snap
           close == SloCloseBefore(sloTick.now)
           exceeds == Exceeds(SumSLOCounts(close - a.window, close))
           window == {b \in SloBuckets : close - a.window <= b /\ b < close}
           clears == a.enabled /\ ~exceeds /\ a.firing
       IN /\ ~recorded => clears /\ EventsLeft
          /\ IF clears /\ recorded
             THEN /\ UpdateSLOBurnAlertState(FALSE, -1)
                  /\ episode' = (episode /\ burnRow.id # a.id)
                  /\ blind' = IF burnRow.id # a.id \/ window \subseteq Counted \cup skipped THEN {} ELSE {"cleared"}
             ELSE UNCHANGED <<burnRow, episode, blind>>
          /\ sloTick' = [sloTick EXCEPT !.step =
                IF a.enabled /\ exceeds /\ ~a.firing /\ ~InCooldown(a, sloTick.now) THEN "deliver" ELSE "prune"]
    /\ alFaults' = IF recorded THEN alFaults ELSE alFaults + 1
    /\ UNCHANGED <<alMode, alClock, spanIn, sloDays, counts, thRow, alEdits, told, skipped, unsure>>

\* Mutant: the state is recorded whatever the channels said.
AfterDeliver_Always(sent) == "record"

\* fire: when every channel fails the state stays, and the next tick retries.
AfterDeliver(sent) == IF sent THEN "record" ELSE "prune"

\* deliver: at least one channel works, or none does.
Deliver(sent) ==
    /\ sloTick.step = "deliver"
    /\ ~sent => EventsLeft
    /\ sloTick' = [sloTick EXCEPT !.step = AfterDeliver(sent)]
    /\ told' = IF sent /\ burnRow.id = sloTick.snap.id THEN sloTick.now ELSE told
    /\ episode' = (episode \/ (sent /\ burnRow.id = sloTick.snap.id))
    /\ blind' = IF sent /\ burnRow.id = sloTick.snap.id /\ told # -1 /\ ~unsure /\ sloTick.now < told + AlCooldown THEN {"again"} ELSE blind
    /\ alFaults' = IF sent THEN alFaults ELSE alFaults + 1
    /\ UNCHANGED <<alMode, alClock, spanIn, sloDays, burnRow, counts, thRow, alEdits, skipped, unsure>>

\* fire records the alert as firing.
RecordFiring(recorded) ==
    /\ sloTick.step = "record"
    /\ ~recorded => EventsLeft
    /\ IF recorded THEN UpdateSLOBurnAlertState(TRUE, sloTick.now) ELSE UNCHANGED burnRow
    /\ sloTick' = [sloTick EXCEPT !.step = "prune"]
    /\ unsure' = (unsure \/ ~recorded)
    /\ alFaults' = IF recorded THEN alFaults ELSE alFaults + 1
    /\ UNCHANGED <<alMode, alClock, spanIn, sloDays, counts, thRow, alEdits, told, episode, skipped, blind>>

\* Run prunes the counts no window needs.
PruneCounts ==
    /\ sloTick.step = "prune"
    /\ LET old == {b \in Counted : b < sloTick.now - sloTick.keep}
       IN /\ counts' = [b \in SloBuckets |-> IF b \in old THEN NoCount ELSE counts[b]]
          /\ skipped' = skipped \cup old
          /\ blind' = IF ~unsure /\ \E b \in old : b >= SloCloseBefore(sloTick.now + SloBucket) - burnRow.window
                      THEN {"pruned"} ELSE blind
    /\ sloTick' = [NoTick EXCEPT !.now = sloTick.now]
    /\ UNCHANGED <<alMode, alClock, spanIn, sloDays, burnRow, thRow, alFaults, alEdits, told, episode, unsure>>

-----------------------------------------------------------------------------
(* Edits through the API. *)

Edit == alMode # "threshold" /\ EventsLeft /\ alEdits' = alEdits + 1

\* validateBurnAlert: the alert's window is shorter than the SLO's.
ValidateBurnAlert(window) == 0 < window /\ window < sloDays

\* CreateBurnAlert checks and stores a new alert.
CreateBurnAlert(window) ==
    /\ sloDays # 0 /\ ValidateBurnAlert(window)
    /\ burnRow' = [NoAlert EXCEPT !.id = alEdits + 2, !.window = window, !.enabled = TRUE]

\* UpdateSLOBurnAlert replaces the editable columns; firing and
\* last_triggered_at stay.
UpdateSLOBurnAlert(window, enabled) == burnRow' = [burnRow EXCEPT !.window = window, !.enabled = enabled]

\* The rows that go with an SLO: its alerts and its counts.
DeleteSLORows == burnRow' = NoAlert /\ counts' = [b \in SloBuckets |-> NoCount]

\* handleCreateAlert.
HandleCreateAlert(window) ==
    /\ Edit /\ burnRow = NoAlert /\ CreateBurnAlert(window)
    /\ told' = -1 /\ episode' = FALSE
    /\ UNCHANGED <<alMode, alClock, spanIn, sloDays, counts, sloTick, thRow, alFaults, skipped, unsure, blind>>

\* handleUpdateAlert.
HandleUpdateAlert(window, enabled) ==
    /\ Edit /\ burnRow # NoAlert /\ ValidateBurnAlert(window)
    /\ <<window, enabled>> # <<burnRow.window, burnRow.enabled>>
    /\ UpdateSLOBurnAlert(window, enabled)
    /\ UNCHANGED <<alMode, alClock, spanIn, sloDays, counts, sloTick, thRow, alFaults, told, episode, skipped, unsure, blind>>

\* handleDeleteAlert and DeleteBurnAlert.
DeleteBurnAlert ==
    /\ Edit /\ burnRow # NoAlert
    /\ burnRow' = NoAlert /\ told' = -1 /\ episode' = FALSE
    /\ UNCHANGED <<alMode, alClock, spanIn, sloDays, counts, sloTick, thRow, alFaults, skipped, unsure, blind>>

\* UpdateSLO: the windows of its alerts are not looked at.
UpdateSLO(days) ==
    /\ Edit /\ sloDays \notin {0, days} /\ sloDays' = days
    /\ UNCHANGED <<alMode, alClock, spanIn, burnRow, counts, sloTick, thRow, alFaults, told, episode, skipped, unsure, blind>>

\* DeleteSLO.
DeleteSLO ==
    /\ Edit /\ sloDays # 0 /\ sloDays' = 0 /\ DeleteSLORows
    /\ told' = -1 /\ episode' = FALSE
    /\ UNCHANGED <<alMode, alClock, spanIn, sloTick, thRow, alFaults, skipped, unsure, blind>>

-----------------------------------------------------------------------------
(* Threshold alerts (evaluator.go, metric_eval.go, api/alerts.go).  A bad span *)
(* is an error, is slow, and raises the gauge.                               *)

\* The aggregate row of an operation in a bucket.
AggregateRow(b, op) ==
    LET here == {s \in AlSpans : spanIn[s].at # -1 /\ Truncate(spanIn[s].at) = b /\ spanIn[s].op = op}
        bad == {s \in here : spanIn[s].bad}
    IN [errors |-> Cardinality(bad), count |-> Cardinality(here), p95 |-> IF bad # {} THEN SlowMs ELSE 1]

\* Mutant: the rows of a bucket are taken one by one.
SumByBucket_First(b) == AggregateRow(b, CHOOSE op \in AlertOps : AggregateRow(b, op).count > 0)

\* sumByBucket: a bucket's rows added up, its p95 their weighted mean.
SumByBucket(b) ==
    LET count == MapThenSumSet(LAMBDA op : AggregateRow(b, op).count, AlertOps)
    IN [errors |-> MapThenSumSet(LAMBDA op : AggregateRow(b, op).errors, AlertOps),
        count |-> count,
        p95 |-> MapThenSumSet(LAMBDA op : AggregateRow(b, op).p95 * AggregateRow(b, op).count, AlertOps) \div count]

\* serviceBuckets: the buckets with rows, of which the newest is the current one.
ServiceBuckets(now) == {b \in SloBuckets : b <= now /\ \E op \in AlertOps : AggregateRow(b, op).count > 0}

\* The buckets before the current one that are compared with.
Baseline(bs) ==
    LET before == bs \ {Max(bs)}
    IN {b \in before : Cardinality({c \in before : c > b}) < CompareBuckets}

\* Errors in per cent of the spans.
ErrorRate(bs) ==
    (MapThenSumSet(LAMBDA b : SumByBucket(b).errors, bs) * 100)
        \div MapThenSumSet(LAMBDA b : SumByBucket(b).count, bs)

MeanOver(total, bs) == IF bs = {} THEN 0 ELSE total \div Cardinality(bs)

\* mergeRollupsByBucket of a gauge: the mean over its series.
MergeRollupsByBucket(b) == (SumByBucket(b).errors * SlowMs) \div SumByBucket(b).count

\* evaluateMetricAlert: every earlier bucket it reads is the baseline.
EvaluateMetricAlert(bs) ==
    LET earlier == {b \in bs \ {Max(bs)} : b > alClock - (CompareBuckets + 2) * SloBucket}
    IN  [current |-> MergeRollupsByBucket(Max(bs)),
         average |-> MeanOver(MapThenSumSet(MergeRollupsByBucket, earlier), earlier)]

\* evaluateAlert: the current value and the average of the rule's type.
EvaluateAlert(type, bs) ==
    IF type = "metric_threshold" THEN EvaluateMetricAlert(bs)
    ELSE IF type = "latency"
    THEN [current |-> SumByBucket(Max(bs)).p95,
          average |-> MeanOver(MapThenSumSet(LAMBDA b : SumByBucket(b).p95, Baseline(bs)), Baseline(bs))]
    ELSE [current |-> ErrorRate({Max(bs)}), average |-> IF Baseline(bs) = {} THEN 0 ELSE ErrorRate(Baseline(bs))]

\* maybeTrigger: at the threshold, and more than a fifth above the average.
MaybeTrigger(v) == v.current >= Threshold /\ (v.average > 0 => 5 * (v.current - v.average) > v.average)

\* Evaluate of the rule; recorded says whether last_triggered_at was written,
\* which follows a notification whether or not a channel delivered it.
Evaluate(recorded) ==
    /\ alMode = "threshold" /\ blind = {} /\ alClock % SloBucket = 0
    /\ thRow.enabled /\ thRow.type # ""
    /\ ~(thRow.last # -1 /\ alClock < thRow.last + thRow.cooldown)
    /\ LET bs == ServiceBuckets(alClock)
           now == {s \in AlSpans : spanIn[s].at >= Max(bs)}
       IN /\ bs # {} /\ MaybeTrigger(EvaluateAlert(thRow.type, bs))
          /\ blind' = (IF told # -1 /\ ~unsure /\ alClock < told + thRow.cooldown THEN {"again"} ELSE {})
                      \cup (IF thRow.type = "error_rate" /\ Cardinality({s \in now : spanIn[s].bad}) * 100 < Threshold * Cardinality(now)
                            THEN {"unjustified"} ELSE {})
    /\ ~recorded => EventsLeft
    /\ told' = alClock
    /\ thRow' = IF recorded THEN [thRow EXCEPT !.last = alClock] ELSE thRow
    /\ unsure' = (unsure \/ ~recorded)
    /\ alFaults' = IF recorded THEN alFaults ELSE alFaults + 1
    /\ UNCHANGED <<alMode, alClock, spanIn, sloDays, burnRow, counts, sloTick, alEdits, episode, skipped>>

RuleEdit ==
    /\ alMode = "threshold" /\ EventsLeft /\ alEdits' = alEdits + 1
    /\ alClock % SloBucket = 0 /\ blind' = {}
    /\ UNCHANGED <<alMode, alClock, spanIn, sloDays, burnRow, counts, sloTick, alFaults, episode, skipped, unsure>>

\* normalizeCreateAlertRequest: a cooldown that is not set gets the default.
NormalizeCreate(cooldown) == IF cooldown = 0 THEN AlCooldown ELSE cooldown

\* CreateAlert.
CreateAlert(type, cooldown) == thRow' = [type |-> type, enabled |-> TRUE, cooldown |-> cooldown, last |-> -1]

\* UpdateAlert leaves last_triggered_at.
UpdateAlert(type, cooldown, enabled) ==
    thRow' = [thRow EXCEPT !.type = type, !.enabled = enabled, !.cooldown = cooldown]

\* handleCreate.
HandleCreate(type, cooldown) ==
    /\ RuleEdit /\ thRow.type = "none" /\ CreateAlert(type, NormalizeCreate(cooldown))
    /\ told' = -1

\* handleUpdate stores the request as it is, an empty type and no cooldown
\* included.
HandleUpdate(type, cooldown, enabled) ==
    /\ RuleEdit /\ thRow.type # "none"
    /\ UpdateAlert(type, cooldown, enabled)
    /\ UNCHANGED told

\* handleDelete.
HandleDelete ==
    /\ RuleEdit /\ thRow.type # "none" /\ thRow' = NoRule /\ told' = -1

-----------------------------------------------------------------------------
AlNext ==
    \/ \E s \in AlSpans, bad \in BOOLEAN, op \in AlertOps, way \in {"now", "late", "staged"} : SpanIngested(s, bad, op, way)
    \/ \E s \in SloSpans : FlushStaged(s)
    \/ AlClockTick
    \/ \E ok \in BOOLEAN : EvaluateProject(ok) \/ EvaluateBurnAlert(ok) \/ Deliver(ok) \/ RecordFiring(ok) \/ Evaluate(ok)
    \/ \E stop \in SloBuckets \cup {-1} : CountSLO(stop)
    \/ PruneCounts
    \/ \E w \in AlWindows : HandleCreateAlert(w) \/ \E on \in BOOLEAN : HandleUpdateAlert(w, on)
    \/ \E type \in {"error_rate", "latency", "metric_threshold"}, c \in {0, AlCooldown} :
           HandleCreate(type, c) \/ \E on \in BOOLEAN : HandleUpdate(type, c, on) \/ HandleUpdate("", c, on)
    \/ HandleDelete \/ DeleteBurnAlert \/ DeleteSLO \/ \E d \in SloWindows : UpdateSLO(d)

AlSpec == AlInit /\ [][AlNext]_alVars

-----------------------------------------------------------------------------
(* Properties. *)

\* Every stored value has its type.
AlTypeOK ==
    /\ alClock \in 0..AlMaxTime /\ sloDays \in SloWindows \cup {0}
    /\ burnRow = NoAlert \/ burnRow.window \in AlWindows
    /\ sloTick.step \in {"idle", "count", "burn", "deliver", "record", "prune"}
    /\ \A b \in SloBuckets : counts[b] # NoCount => counts[b].bad \in 0..counts[b].total

\* A stored count is final: it holds every span written to the spans table with
\* an ingested_at in its bucket, though rows are seen after they are stamped
\* and a bucket is counted only once.  The exception is a span that was staged:
\* it keeps its ingested_at and lands long after the lag, so it is in the count
\* only if its bucket was counted late, and "a low total that is never
\* corrected" (slo_eval_counts.go:23) is what the count is otherwise.
CountsExact ==
    \A b \in SloBuckets : counts[b] # NoCount =>
        \E seen \in SUBSET {s \in IngestedIn(b) : spanIn[s].landed \/ ~spanIn[s].staged} :
            /\ {s \in IngestedIn(b) : ~spanIn[s].staged} \subseteq seen
            /\ counts[b] = CountOf(seen)

\* An alert that is recorded as firing has told somebody since it was last
\* clear.
FiringWasTold == burnRow.firing => episode

\* Two notifications of one rule are a cooldown apart, unless the write that
\* records the first one failed.
CooldownKept == "again" \notin blind

\* A firing alert is cleared on data: every bucket of its window was counted,
\* except those the catch-up bound or the pruning gave up.
ClearedOnData == "cleared" \notin blind

\* Pruning never takes a count an alert's window still needs at the next tick,
\* even after the SLO's own window was shortened below the alert's, unless the
\* list of alerts could not be read.
PruneKeepsWindows == "pruned" \notin blind

\* A notification of the error rate rule is about the whole bucket, whatever
\* operations it is made of.
NoticeJustified == "unjustified" \notin blind

\* Alerts rest on final counts, tell before they are recorded as firing, keep
\* their cooldown, clear on data, keep their windows and are justified
\* (slo_eval.go, evaluator.go).
AlertsInv ==
    /\ AlTypeOK
    /\ CountsExact
    /\ FiringWasTold
    /\ CooldownKept
    /\ ClearedOnData
    /\ PruneKeepsWindows
    /\ NoticeJustified
=============================================================================
