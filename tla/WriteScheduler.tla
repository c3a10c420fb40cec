--------------------------- MODULE WriteScheduler ---------------------------
(***************************************************************************)
(* The write scheduler (internal/writescheduler): one goroutine runs every *)
(* SQLite write, taking jobs from a high- and a low-priority channel.  A   *)
(* job here is one call of SubmitRows, made by one caller goroutine.  The  *)
(* select statements are separate steps, so jobs, cancellations and the    *)
(* shutdown land between any two of them.                                  *)
(***************************************************************************)
EXTENDS Naturals, Sequences

CONSTANTS
    HighJobs,  \* calls of SubmitRows with priority High
    LowJobs,   \* calls of SubmitRows with priority Low
    HighCap,   \* capacity of the channel highPri
    LowCap,    \* capacity of the channel lowPri
    NoJob      \* no job in flight

ASSUME JobsAssumption ==
    /\ HighJobs \cap LowJobs = {}
    /\ NoJob \notin HighJobs \cup LowJobs

ASSUME CapAssumption == HighCap \in Nat \ {0} /\ LowCap \in Nat \ {0}

Jobs == HighJobs \cup LowJobs

VARIABLES
    caller,    \* where the goroutine that submits each job is
    outcome,   \* what SubmitRows returned to it
    highPri,   \* the two job channels
    lowPri,
    results,   \* jobs whose resultCh holds a result
    pc,        \* where the goroutine of Run is
    cur,       \* the job in flight
    draining,  \* Run has left its loop for drain
    ctxDone,   \* the context of Run has ended
    ran,       \* jobs whose fn was called                          (history)
    behind,    \* low jobs each high job had to wait for while queued (history)
    owed       \* jobs queued when the context of Run ended         (history)

callerVars == <<caller, outcome>>
queueVars  == <<highPri, lowPri>>
runVars    == <<pc, cur, draining>>
vars == <<callerVars, queueVars, results, runVars, ctxDone, ran, behind, owed>>

CallerStates == {"idle", "enqueueing", "waiting", "returned"}
Outcomes     == {"none", "result", "ErrStopped", "ctxErr"}
RunStates    == {"pollHigh", "select", "execute", "drainHigh", "drainLow", "closing", "stopped"}

Elems(ch) == {ch[i] : i \in DOMAIN ch}
InHigh == Elems(highPri)
InLow  == Elems(lowPri)
Queued == InHigh \cup InLow
Stopped == pc = "stopped"

Init ==
    /\ caller = [j \in Jobs |-> "idle"]
    /\ outcome = [j \in Jobs |-> "none"]
    /\ highPri = <<>>
    /\ lowPri = <<>>
    /\ results = {}
    /\ pc = "pollHigh"
    /\ cur = NoJob
    /\ draining = FALSE
    /\ ctxDone = FALSE
    /\ ran = {}
    /\ behind = [j \in HighJobs |-> 0]
    /\ owed = {}

-----------------------------------------------------------------------------
(* SubmitRows *)

Return(j, o) ==
    /\ caller' = [caller EXCEPT ![j] = "returned"]
    /\ outcome' = [outcome EXCEPT ![j] = o]
    /\ UNCHANGED <<queueVars, results, runVars, ctxDone, ran, behind, owed>>

\* The first select: stopped is looked at, and only looked at.
Submit(j) ==
    /\ caller[j] = "idle"
    /\ \/ Stopped /\ Return(j, "ErrStopped")
       \/ /\ ~Stopped
          /\ caller' = [caller EXCEPT ![j] = "enqueueing"]
          /\ UNCHANGED <<outcome, queueVars, results, runVars, ctxDone, ran, behind, owed>>

\* A high-priority job that is queued while a low one runs waits for that one.
Enqueue(j) ==
    /\ caller[j] = "enqueueing"
    /\ \/ /\ j \in HighJobs
          /\ Len(highPri) < HighCap
          /\ highPri' = Append(highPri, j)
          /\ UNCHANGED lowPri
       \/ /\ j \in LowJobs
          /\ Len(lowPri) < LowCap
          /\ lowPri' = Append(lowPri, j)
          /\ UNCHANGED highPri
    /\ caller' = [caller EXCEPT ![j] = "waiting"]
    /\ behind' = IF cur \in LowJobs /\ j \in HighJobs
                 THEN [behind EXCEPT ![j] = 1] ELSE behind
    /\ UNCHANGED <<outcome, results, runVars, ctxDone, ran, owed>>

EnqueueStopped(j) ==
    /\ caller[j] = "enqueueing"
    /\ Stopped
    /\ Return(j, "ErrStopped")

\* The caller's context may end at any time, by a timeout or a cancellation;
\* the selects then may take <-ctx.Done().
Cancelled(j) ==
    /\ caller[j] \in {"enqueueing", "waiting"}
    /\ Return(j, "ctxErr")

ReceiveResult(j) ==
    /\ caller[j] = "waiting"
    /\ j \in results
    /\ Return(j, "result")

\* Mutant: a stopped scheduler answers ErrStopped without a look at resultCh.
WaitStopped_IgnoresResult(j) ==
    /\ caller[j] = "waiting"
    /\ Stopped
    /\ Return(j, "ErrStopped")

\* Mutant: the last select has no case for stopped, it only awaits the result.
WaitStopped_Missing(j) ==
    /\ caller[j] = "waiting"
    /\ j \in results
    /\ Return(j, "result")

\* The third select took <-s.stopped: the result wins if it is there.
WaitStopped(j) ==
    /\ caller[j] = "waiting"
    /\ Stopped
    /\ Return(j, IF j \in results THEN "result" ELSE "ErrStopped")

-----------------------------------------------------------------------------
(* Run, drain and execute *)

\* The environment: the context of Run ends.
Shutdown ==
    /\ ~ctxDone
    /\ ctxDone' = TRUE
    /\ owed' = Queued
    /\ UNCHANGED <<callerVars, queueVars, results, runVars, ran, behind>>

Goto(label) ==
    /\ pc' = label
    /\ UNCHANGED <<callerVars, queueVars, results, cur, draining, ctxDone, ran, behind, owed>>

\* execute up to the call of fn: the job is recorded as the one in flight.
Start(j) ==
    /\ pc' = "execute"
    /\ cur' = j
    /\ ran' = ran \cup {j}
    /\ behind' = [k \in HighJobs |->
                    IF j \in LowJobs /\ k \in InHigh THEN behind[k] + 1 ELSE behind[k]]
    /\ UNCHANGED <<callerVars, results, draining, ctxDone, owed>>

TakeHigh ==
    /\ highPri # <<>>
    /\ highPri' = Tail(highPri)
    /\ Start(Head(highPri))
    /\ UNCHANGED lowPri

TakeLow ==
    /\ lowPri # <<>>
    /\ lowPri' = Tail(lowPri)
    /\ Start(Head(lowPri))
    /\ UNCHANGED highPri

\* Mutant: the loop goes straight to the select that treats both alike.
PollHigh_Skipped ==
    /\ pc = "pollHigh"
    /\ Goto("select")

\* The outer select of the loop: high priority, or fall through.
PollHigh ==
    /\ pc = "pollHigh"
    /\ \/ TakeHigh
       \/ highPri = <<>> /\ Goto("select")

\* The inner select: any of the ready cases.
Select ==
    /\ pc = "select"
    /\ \/ TakeHigh
       \/ TakeLow
       \/ /\ ctxDone
          /\ pc' = "drainHigh"
          /\ draining' = TRUE
          /\ UNCHANGED <<callerVars, queueVars, results, cur, ctxDone, ran, behind, owed>>

DrainHigh ==
    /\ pc = "drainHigh"
    /\ \/ TakeHigh
       \/ highPri = <<>> /\ Goto("drainLow")

\* Mutant: drain empties the high-priority channel only.
DrainLow_Skipped ==
    /\ pc = "drainLow"
    /\ Goto("closing")

DrainLow ==
    /\ pc = "drainLow"
    /\ \/ TakeLow
       \/ lowPri = <<>> /\ Goto("closing")

\* The deferred close(s.stopped), after drain has returned.
Close ==
    /\ pc = "closing"
    /\ Goto("stopped")

\* Mutant: execute sends a result although it took no job.
Finish_NoJob ==
    /\ pc \in {"execute", "closing"}
    /\ pc' = IF draining THEN "drainHigh" ELSE "pollHigh"
    /\ cur' = NoJob
    /\ results' = results \cup {cur}
    /\ UNCHANGED <<callerVars, queueVars, draining, ctxDone, ran, behind, owed>>

\* fn has returned: execute clears the job in flight and sends its result.
Finish ==
    /\ pc = "execute"
    /\ pc' = IF draining THEN "drainHigh" ELSE "pollHigh"
    /\ cur' = NoJob
    /\ results' = results \cup {cur}
    /\ UNCHANGED <<callerVars, queueVars, draining, ctxDone, ran, behind, owed>>

-----------------------------------------------------------------------------
SubmitRows(j) ==
    \/ Submit(j)
    \/ Enqueue(j)
    \/ EnqueueStopped(j)
    \/ ReceiveResult(j)
    \/ WaitStopped(j)

Run == PollHigh \/ Select \/ DrainHigh \/ DrainLow \/ Close \/ Finish

Next ==
    \/ \E j \in Jobs : SubmitRows(j) \/ Cancelled(j)
    \/ Shutdown
    \/ Run

Spec == Init /\ [][Next]_vars

\* The goroutines are scheduled, and fn returns: a job is one SQLite
\* transaction with a busy timeout.  Nobody has to call Submit or to cancel.
FairSpec ==
    /\ Spec
    /\ WF_vars(Run)
    /\ \A j \in Jobs : WF_vars(SubmitRows(j) /\ caller[j] # "idle")

-----------------------------------------------------------------------------
TypeOK ==
    /\ caller \in [Jobs -> CallerStates]
    /\ outcome \in [Jobs -> Outcomes]
    /\ highPri \in Seq(HighJobs)
    /\ lowPri \in Seq(LowJobs)
    /\ results \subseteq Jobs
    /\ pc \in RunStates
    /\ cur \in Jobs \cup {NoJob}
    /\ draining \in BOOLEAN
    /\ ctxDone \in BOOLEAN
    /\ ran \subseteq Jobs
    /\ behind \in [HighJobs -> Nat]
    /\ owed \subseteq Jobs

\* A caller that is told ErrStopped may retry elsewhere or report the write
\* lost: its fn is never called, neither before nor after it is told
\* (SubmitRows, the nested select on resultCh; drain).
ErrStoppedMeansNeverRun ==
    \A j \in Jobs : outcome[j] = "ErrStopped" => j \notin ran

\* A high-priority write that is in its channel waits for at most one
\* low-priority one, whatever is queued behind it ("waits at most for that one
\* transaction to finish, then runs next").
HighWaitsForOneLow ==
    \A j \in HighJobs : behind[j] <= 1

\* When ctx is cancelled, Run runs the jobs already queued before it lets
\* Submit fail with ErrStopped.
QueuedJobsRunBeforeStop ==
    Stopped => owed \subseteq ran

\* The inductive strengthening of the invariants above.  A job is in a channel
\* only after its caller sent it there; a high-priority job in its channel has
\* waited for no low one while Run stands at a select that may take one; and
\* nothing owed is left in a channel that drain has passed.
IInv ==
    /\ TypeOK
    /\ \A j \in Jobs : caller[j] \in {"idle", "enqueueing"} =>
                          j \notin Queued \cup ran \cup owed /\ outcome[j] = "none"
    /\ \A j \in HighJobs : caller[j] \in {"idle", "enqueueing"} => behind[j] = 0
    /\ \A j \in InHigh : pc \in {"select", "drainLow"} => behind[j] = 0
    /\ HighWaitsForOneLow
    /\ cur # NoJob <=> pc = "execute"
    /\ ran \subseteq results \cup {cur}
    /\ results \subseteq ran
    /\ cur # NoJob => cur \in ran
    /\ ErrStoppedMeansNeverRun
    /\ \A j \in Jobs : outcome[j] = "ErrStopped" => Stopped
    /\ \A j \in Jobs : outcome[j] = "result" => j \in ran
    /\ draining => ctxDone
    /\ pc \in {"drainHigh", "drainLow", "closing", "stopped"} => draining
    /\ draining => pc \notin {"pollHigh", "select"}
    /\ owed \subseteq ran \cup Queued
    /\ pc = "drainLow" => owed \cap InHigh = {}
    /\ pc \in {"closing", "stopped"} => owed \subseteq ran
    /\ ~ctxDone => owed = {}

\* SubmitRows returns, also for a job that slips into a channel after drain
\* has found both of them empty.
SubmitReturns ==
    \A j \in Jobs : caller[j] \in {"enqueueing", "waiting"} ~> caller[j] = "returned"
=============================================================================
