---------------------------- MODULE SelfMetrics -----------------------------
(* The pod's own metrics: a Recorder that every request adds to, and a       *)
(* Reporter that snapshots it on a ticker and posts the values to the ingest *)
(* endpoint.  Counters are cumulative and travel whole every time; latency   *)
(* histograms are deltas, taken out of the Recorder by the snapshot, so an   *)
(* export that fails takes its interval with it.  Requests are recorded      *)
(* between any two steps of an export, an export may be lost before or after *)
(* the server took it, and the pod may restart.                              *)
EXTENDS Integers, FiniteSets, Functions, FiniteSetsExt

CONSTANTS
    SmRoutes,       \* route patterns, "unmatched" among them
    SmClasses,      \* status classes
    SmMaxRequests,  \* bound on the requests recorded
    SmMaxExports,   \* bound on the exports
    SmMaxStarts     \* bound on the pod's starts

ASSUME SelfMetricsAssumption ==
    /\ "unmatched" \in SmRoutes
    /\ {SmMaxRequests, SmMaxExports, SmMaxStarts} \subseteq Nat

VARIABLES
    reqByStatus,    \* class -> requests since the pod started
    durByRoute,     \* route -> requests of this interval
    smSnap,         \* the snapshot an export carries
    smFailures,     \* failed exports in a row
    smStarts, smRequests, smExports,
    taken,          \* the server's points: [start, totals, latency]
    smWarned,       \* warning lines
    smSuppressed,   \* failures the recovery lines tell of
    smFailed,       \* exports that failed
    latencyLost,    \* requests whose latency went with a failed export or a stop
    silenced        \* failures of runs that a stop cut short

recorderVars == <<reqByStatus, durByRoute>>
smHistory == <<taken, smWarned, smSuppressed, smFailed, latencyLost, silenced>>
smVars == <<recorderVars, smSnap, smFailures, smStarts, smRequests, smExports, smHistory>>

NoSnap == [held |-> FALSE]
Total(counts) == FoldFunction(LAMBDA x, y : x + y, 0, counts)
NoneOf(S) == [x \in S |-> 0]

-----------------------------------------------------------------------------
\* RecordRequest: one request in its class, its latency under its route.
RecordRequest ==
    /\ smRequests < SmMaxRequests
    /\ \E c \in SmClasses, r \in SmRoutes :
         /\ reqByStatus' = [reqByStatus EXCEPT ![c] = @ + 1]
         /\ durByRoute' = [durByRoute EXCEPT ![r] = @ + 1]
    /\ smRequests' = smRequests + 1
    /\ UNCHANGED <<smSnap, smFailures, smStarts, smExports, smHistory>>

\* Mutant: the histograms stay in the Recorder until an export succeeds.
AfterSnapshot_Keeps == durByRoute

\* What the snapshot leaves of the histograms.
AfterSnapshot == NoneOf(SmRoutes)

\* Mutant: the snapshot takes the counters as it takes the histograms.
CountersAfter_Taken == NoneOf(SmClasses)

\* What the snapshot leaves of the counters.
CountersAfter == reqByStatus

\* snapshot: the counters are copied and the histograms taken under one lock;
\* the sampled sources, read after it, are values of their own.
TakeSnapshot ==
    /\ ~smSnap.held /\ smExports < SmMaxExports
    /\ smSnap' = [held |-> TRUE, start |-> smStarts, totals |-> reqByStatus, latency |-> durByRoute]
    /\ durByRoute' = AfterSnapshot /\ reqByStatus' = CountersAfter
    /\ smExports' = smExports + 1
    /\ UNCHANGED <<smFailures, smStarts, smRequests, smHistory>>

\* buildRequest: one cumulative point per class, one delta point per route.
Point == [start |-> smSnap.start, totals |-> smSnap.totals, latency |-> smSnap.latency]

\* Mutant: the first failure of a run, already logged, is told of again.
Untold_All(n) == n

\* The failures of a run that its warning line did not tell of.
Untold(n) == IF n > 1 THEN n - 1 ELSE 0

\* exportSucceeded: a run of more than one failure is told of.
ExportSucceeds ==
    /\ smSnap.held
    /\ taken' = taken \cup {Point}
    /\ smSuppressed' = smSuppressed + Untold(smFailures)
    /\ smFailures' = 0
    /\ smSnap' = NoSnap
    /\ UNCHANGED <<recorderVars, smStarts, smRequests, smExports, smWarned, smFailed, latencyLost, silenced>>

\* exportFailed: the first failure of a run is logged.  The server may have
\* taken the points and its answer have been lost.
ExportFails ==
    /\ smSnap.held
    /\ \E took \in BOOLEAN :
         /\ taken' = IF took THEN taken \cup {Point} ELSE taken
         /\ latencyLost' = latencyLost + (IF took THEN 0 ELSE Total(smSnap.latency))
    /\ smFailures' = smFailures + 1
    /\ smWarned' = smWarned + (IF smFailures' = 1 THEN 1 ELSE 0)
    /\ smFailed' = smFailed + 1
    /\ smSnap' = NoSnap
    /\ UNCHANGED <<recorderVars, smStarts, smRequests, smExports, smSuppressed, silenced>>

\* Run returns when the pod stops, without a last export; the next pod starts
\* from zero under a new start time.
RestartPod ==
    /\ smStarts < SmMaxStarts
    /\ smStarts' = smStarts + 1
    /\ latencyLost' = latencyLost + Total(durByRoute) + (IF smSnap.held THEN Total(smSnap.latency) ELSE 0)
    /\ silenced' = silenced + (IF smFailures > 1 THEN smFailures - 1 ELSE 0)
    /\ reqByStatus' = NoneOf(SmClasses) /\ durByRoute' = NoneOf(SmRoutes)
    /\ smSnap' = NoSnap /\ smFailures' = 0
    /\ UNCHANGED <<smRequests, smExports, taken, smWarned, smSuppressed, smFailed>>

-----------------------------------------------------------------------------
SmInit ==
    /\ reqByStatus = NoneOf(SmClasses) /\ durByRoute = NoneOf(SmRoutes)
    /\ smSnap = NoSnap /\ smFailures = 0 /\ smStarts = 1 /\ smRequests = 0 /\ smExports = 0
    /\ taken = {} /\ smWarned = 0 /\ smSuppressed = 0 /\ smFailed = 0 /\ latencyLost = 0 /\ silenced = 0

SmNext == RecordRequest \/ TakeSnapshot \/ ExportSucceeds \/ ExportFails \/ RestartPod

SmSpec == SmInit /\ [][SmNext]_smVars

-----------------------------------------------------------------------------
SmTypeOK ==
    /\ reqByStatus \in [SmClasses -> 0 .. SmMaxRequests] /\ durByRoute \in [SmRoutes -> 0 .. SmMaxRequests]
    /\ smSnap.held \in BOOLEAN
    /\ smStarts \in 1 .. SmMaxStarts /\ smExports \in 0 .. SmMaxExports
    /\ smFailures \in 0 .. smFailed

LatencyTaken == FoldSet(LAMBDA p, n : n + Total(p.latency), 0, taken)

(* Every request's latency is in the Recorder, in the export under way, with *)
(* the server, or was lost with an export the server never took or with a    *)
(* stop; no request is in two of them.  The cumulative counts of one point   *)
(* are at least its latencies, because both are taken under one lock.        *)
LatencyOnce ==
    /\ Total(durByRoute) + (IF smSnap.held THEN Total(smSnap.latency) ELSE 0) + LatencyTaken + latencyLost = smRequests
    /\ smSnap.held => Total(smSnap.totals) >= Total(smSnap.latency)

(* The server's cumulative counts of one start never fall from a point to a  *)
(* later one, whichever exports were lost: of two points of one start, one   *)
(* is at least the other in every class, and no point is ahead of the        *)
(* Recorder.                                                                 *)
TotalsOrdered ==
    /\ \A p, q \in taken : p.start = q.start =>
         \/ \A c \in SmClasses : p.totals[c] <= q.totals[c]
         \/ \A c \in SmClasses : p.totals[c] >= q.totals[c]
    /\ \A p \in taken : p.start = smStarts => \A c \in SmClasses : p.totals[c] <= reqByStatus[c]

(* Every failed export is told of once: in a run's warning line, in the      *)
(* recovery line of its run, or in the run that is still open; only a stop   *)
(* leaves failures untold.                                                   *)
FailuresTold ==
    smFailed = smWarned + smSuppressed + silenced + (IF smFailures > 1 THEN smFailures - 1 ELSE 0)

\* The pod's own metrics add up: each latency once, totals that never fall
\* within a start, and every failed export told of (recorder.go, reporter.go).
SelfMetricsExact ==
    /\ SmTypeOK
    /\ LatencyOnce
    /\ TotalsOrdered
    /\ FailuresTold
=============================================================================
