------------------------ MODULE WriteScheduler_proofs ------------------------
(***************************************************************************)
(* Proofs about the write scheduler for any number of jobs and any channel *)
(* capacities.                                                             *)
(***************************************************************************)
EXTENDS WriteScheduler, TLAPS

\* An empty channel holds nothing.
LEMMA EmptyElems == Elems(<<>>) = {}
<1>1. DOMAIN <<>> = {}
  OBVIOUS
<1> QED BY <1>1 DEF Elems

\* A channel holds elements of its type.
LEMMA ElemsType ==
    ASSUME NEW S, NEW s \in Seq(S)
    PROVE  Elems(s) \subseteq S
<1>1. \A i \in DOMAIN s : s[i] \in S
  OBVIOUS
<1> QED BY <1>1 DEF Elems

\* Sending on a channel adds one element to what it holds.
LEMMA AppendElems ==
    ASSUME NEW S, NEW s \in Seq(S), NEW e \in S
    PROVE  Elems(Append(s, e)) = Elems(s) \cup {e}
<1> DEFINE t == Append(s, e)
<1>1. DOMAIN s = 1..Len(s) /\ DOMAIN t = 1..(Len(s) + 1) /\ Len(s) \in Nat
  OBVIOUS
<1>2. \A i \in 1..Len(s) : t[i] = s[i]
  OBVIOUS
<1>3. t[Len(s) + 1] = e
  OBVIOUS
<1>4. \A x : x \in Elems(t) <=> x \in Elems(s) \cup {e}
  BY <1>1, <1>2, <1>3, SMT DEF Elems
<1> QED BY <1>4

\* Receiving from a channel takes its head and leaves the rest.
LEMMA TailElems ==
    ASSUME NEW S, NEW s \in Seq(S), s # <<>>
    PROVE  /\ Head(s) \in S
           /\ Tail(s) \in Seq(S)
           /\ Elems(s) = Elems(Tail(s)) \cup {Head(s)}
<1> DEFINE t == Tail(s)
<1>1. Head(s) \in S /\ t \in Seq(S)
  OBVIOUS
<1>2. DOMAIN s = 1..Len(s) /\ DOMAIN t = 1..(Len(s) - 1) /\ Len(s) \in Nat \ {0}
  OBVIOUS
<1>3. \A i \in 1..(Len(s) - 1) : t[i] = s[i + 1]
  OBVIOUS
<1>4. Head(s) = s[1]
  OBVIOUS
<1>5. \A x : x \in Elems(s) <=> x \in Elems(t) \cup {Head(s)}
  <2>1. ASSUME NEW i \in 1..Len(s) PROVE s[i] \in Elems(t) \cup {Head(s)}
    <3>1. CASE i = 1
      BY <3>1, <1>4
    <3>2. CASE i # 1
      <4>1. i - 1 \in 1..(Len(s) - 1)
        BY <1>2, <3>2
      <4>2. t[i - 1] = s[i]
        BY <4>1, <1>3, <1>2
      <4> QED BY <4>1, <4>2, <1>2 DEF Elems
    <3> QED BY <3>1, <3>2
  <2>2. ASSUME NEW i \in 1..(Len(s) - 1) PROVE t[i] \in Elems(s)
    BY <2>2, <1>2, <1>3 DEF Elems
  <2>3. Head(s) \in Elems(s)
    BY <1>2, <1>4 DEF Elems
  <2> QED BY <2>1, <2>2, <2>3, <1>2 DEF Elems
<1> QED BY <1>1, <1>5

-----------------------------------------------------------------------------
\* New starts with empty channels and no job.
LEMMA InitIInv == Init => IInv
<1> SUFFICES ASSUME Init PROVE IInv
  OBVIOUS
<1>1. InHigh = {} /\ InLow = {} /\ Queued = {}
  BY EmptyElems DEF Init, InHigh, InLow, Queued
<1>2. TypeOK
  <2>1. highPri \in Seq(HighJobs) /\ lowPri \in Seq(LowJobs)
    BY DEF Init
  <2>2. behind \in [HighJobs -> Nat]
    BY DEF Init
  <2>3. caller \in [Jobs -> CallerStates] /\ outcome \in [Jobs -> Outcomes]
    BY DEF Init, CallerStates, Outcomes
  <2> QED BY <2>1, <2>2, <2>3 DEF Init, TypeOK, RunStates
<1> QED
  BY <1>1, <1>2, JobsAssumption
  DEF Init, IInv, Jobs, HighWaitsForOneLow, ErrStoppedMeansNeverRun, Stopped

\* A caller that returns leaves the scheduler alone; what it may return is
\* restricted by what has run.
LEMMA ReturnIInv ==
    ASSUME IInv, NEW j \in Jobs, NEW o \in Outcomes \ {"none"}, Return(j, o),
           o = "ErrStopped" => Stopped /\ j \notin ran,
           o = "result" => j \in ran
    PROVE  IInv'
<1>1. caller' \in [Jobs -> CallerStates] /\ outcome' \in [Jobs -> Outcomes]
  BY DEF Return, IInv, TypeOK, CallerStates, Outcomes
<1>2. InHigh' = InHigh /\ InLow' = InLow /\ Queued' = Queued /\ Stopped' = Stopped
  BY DEF Return, InHigh, InLow, Queued, Stopped, queueVars, runVars
<1>3. \A k \in Jobs : caller'[k] \in {"idle", "enqueueing"} =>
          caller'[k] = caller[k] /\ outcome'[k] = outcome[k]
  BY DEF Return, IInv, TypeOK
<1> QED
  BY <1>1, <1>2, <1>3
  DEF Return, IInv, TypeOK, queueVars, runVars, HighWaitsForOneLow, ErrStoppedMeansNeverRun,
      Jobs

\* The caller's steps that send nothing: each ends or advances SubmitRows.
LEMMA SubmitIInv ==
    ASSUME IInv, NEW j \in Jobs, Submit(j)
    PROVE  IInv'
<1>1. CASE Stopped /\ Return(j, "ErrStopped")
  <2>1. j \notin ran
    BY DEF Submit, IInv
  <2> QED BY <1>1, <2>1, ReturnIInv DEF Outcomes
<1>2. CASE ~(Stopped /\ Return(j, "ErrStopped"))
  <2>1. caller' = [caller EXCEPT ![j] = "enqueueing"] /\ caller[j] = "idle"
    BY <1>2 DEF Submit
  <2>2. UNCHANGED <<outcome, queueVars, results, runVars, ctxDone, ran, behind, owed>>
    BY <1>2 DEF Submit
  <2>3. InHigh' = InHigh /\ InLow' = InLow /\ Queued' = Queued /\ Stopped' = Stopped
    BY <2>2 DEF InHigh, InLow, Queued, Stopped, queueVars, runVars
  <2> QED
    BY <2>1, <2>2, <2>3
    DEF IInv, TypeOK, queueVars, runVars, CallerStates, HighWaitsForOneLow,
        ErrStoppedMeansNeverRun, Jobs
<1> QED BY <1>1, <1>2

\* Sending a job on its channel: it has not run, and a high-priority job that
\* finds a low one in flight has one to wait for.
LEMMA EnqueueIInv ==
    ASSUME IInv, NEW j \in Jobs, Enqueue(j)
    PROVE  IInv'
<1> USE DEF IInv, TypeOK
<1>1. /\ caller[j] = "enqueueing"
      /\ caller' = [caller EXCEPT ![j] = "waiting"]
      /\ behind' = IF cur \in LowJobs /\ j \in HighJobs
                   THEN [behind EXCEPT ![j] = 1] ELSE behind
      /\ UNCHANGED <<outcome, results, runVars, ctxDone, ran, owed>>
  BY DEF Enqueue
<1>2. /\ highPri' \in Seq(HighJobs) /\ lowPri' \in Seq(LowJobs)
      /\ InHigh' \subseteq InHigh \cup {j}
      /\ InLow' \subseteq InLow \cup {j}
      /\ Queued' = Queued \cup {j}
      /\ j \in InHigh' \ InHigh => j \in HighJobs
  <2>1. CASE j \in HighJobs /\ highPri' = Append(highPri, j) /\ UNCHANGED lowPri
    <3>1. Elems(Append(highPri, j)) = Elems(highPri) \cup {j}
      BY <2>1, AppendElems
    <3>2. InHigh' = InHigh \cup {j} /\ InLow' = InLow
      BY <2>1, <3>1 DEF InHigh, InLow
    <3> QED BY <2>1, <3>2 DEF Queued
  <2>2. CASE j \in LowJobs /\ lowPri' = Append(lowPri, j) /\ UNCHANGED highPri
    <3>1. Elems(Append(lowPri, j)) = Elems(lowPri) \cup {j}
      BY <2>2, AppendElems
    <3>2. InLow' = InLow \cup {j} /\ InHigh' = InHigh
      BY <2>2, <3>1 DEF InHigh, InLow
    <3> QED BY <2>2, <3>2 DEF Queued
  <2> QED BY <2>1, <2>2 DEF Enqueue
<1>3. j \notin Queued \cup ran \cup owed
  BY <1>1
<1>4. /\ behind' \in [HighJobs -> Nat]
      /\ \A k \in HighJobs : behind'[k] <= 1
      /\ \A k \in HighJobs \ {j} : behind'[k] = behind[k]
      /\ pc # "execute" => behind' = behind
  BY <1>1, JobsAssumption DEF HighWaitsForOneLow, Jobs
<1>5. \A k \in InHigh' : pc' \in {"select", "drainLow"} => behind'[k] = 0
  BY <1>1, <1>2, <1>4 DEF runVars
<1>6. \A k \in Jobs : caller'[k] \in {"idle", "enqueueing"} =>
          k # j /\ caller'[k] = caller[k]
  BY <1>1
<1>7. caller' \in [Jobs -> CallerStates]
  BY <1>1 DEF CallerStates
<1>8. \A k \in HighJobs : caller'[k] \in {"idle", "enqueueing"} => behind'[k] = 0
  BY <1>4, <1>6 DEF Jobs
<1> QED
  BY <1>1, <1>2, <1>3, <1>4, <1>5, <1>6, <1>7, <1>8
  DEF runVars, HighWaitsForOneLow, ErrStoppedMeansNeverRun, Stopped

\* Taking a job from a channel and recording it as the one in flight.  Run
\* takes a low-priority job only at a select where no queued high-priority job
\* has waited yet.
LEMMA TakeIInv ==
    ASSUME IInv, TakeHigh \/ TakeLow, pc # "execute", pc # "closing", pc # "stopped",
           TakeLow => pc \in {"select", "drainLow"}
    PROVE  IInv'
<1> USE DEF IInv, TypeOK
<1>1. PICK j \in Jobs :
        /\ Start(j)
        /\ highPri' \in Seq(HighJobs) /\ lowPri' \in Seq(LowJobs)
        /\ j \in Queued /\ Queued = Queued' \cup {j}
        /\ InHigh' \subseteq InHigh
        /\ j \in LowJobs => pc \in {"select", "drainLow"}
  <2>1. CASE TakeHigh
    <3>1. /\ Head(highPri) \in HighJobs /\ Tail(highPri) \in Seq(HighJobs)
          /\ Elems(highPri) = Elems(Tail(highPri)) \cup {Head(highPri)}
      BY <2>1, TailElems DEF TakeHigh
    <3>2. InHigh = InHigh' \cup {Head(highPri)} /\ InLow' = InLow
      BY <2>1, <3>1 DEF TakeHigh, InHigh, InLow
    <3> QED BY <2>1, <3>1, <3>2, JobsAssumption DEF TakeHigh, Queued, Jobs
  <2>2. CASE TakeLow
    <3>1. /\ Head(lowPri) \in LowJobs /\ Tail(lowPri) \in Seq(LowJobs)
          /\ Elems(lowPri) = Elems(Tail(lowPri)) \cup {Head(lowPri)}
      BY <2>2, TailElems DEF TakeLow
    <3>2. InLow = InLow' \cup {Head(lowPri)} /\ InHigh' = InHigh
      BY <2>2, <3>1 DEF TakeLow, InHigh, InLow
    <3> QED BY <2>2, <3>1, <3>2 DEF TakeLow, Queued, Jobs
  <2> QED BY <2>1, <2>2
<1>2. /\ pc' = "execute" /\ cur' = j /\ ran' = ran \cup {j}
      /\ behind' = [k \in HighJobs |->
                      IF j \in LowJobs /\ k \in InHigh THEN behind[k] + 1 ELSE behind[k]]
      /\ UNCHANGED <<caller, outcome, results, draining, ctxDone, owed>>
  BY <1>1 DEF Start, callerVars
<1>3. behind' \in [HighJobs -> Nat] /\ \A k \in HighJobs : behind'[k] <= 1
  BY <1>1, <1>2 DEF HighWaitsForOneLow
<1>4. \A k \in HighJobs : caller[k] \in {"idle", "enqueueing"} => behind'[k] = 0
  <2>1. \A k \in HighJobs : caller[k] \in {"idle", "enqueueing"} => k \notin InHigh
    BY DEF Jobs, Queued
  <2> QED BY <1>2, <2>1
<1>5. ~ \E k \in Jobs : outcome[k] = "ErrStopped"
  BY DEF Stopped
<1>6. cur = NoJob /\ j # NoJob
  BY <1>1, JobsAssumption DEF Jobs
<1>7. TypeOK'
  BY <1>1, <1>2, <1>3 DEF RunStates
<1>8. /\ \A k \in Jobs : caller'[k] \in {"idle", "enqueueing"} =>
            k \notin Queued' \cup ran' \cup owed' /\ outcome'[k] = "none"
      /\ owed' \subseteq ran' \cup Queued'
  BY <1>1, <1>2
<1>9. /\ ran' \subseteq results' \cup {cur'}
      /\ results' \subseteq ran'
      /\ cur' # NoJob => cur' \in ran'
      /\ cur' # NoJob <=> pc' = "execute"
      /\ \A k \in Jobs : outcome'[k] = "result" => k \in ran'
  <2>1. NoJob \notin ran
    BY JobsAssumption DEF Jobs
  <2> QED BY <1>2, <1>6, <2>1
<1> QED
  BY <1>2, <1>3, <1>4, <1>5, <1>7, <1>8, <1>9
  DEF HighWaitsForOneLow, ErrStoppedMeansNeverRun, Stopped

\* Moving on to the next select, with nothing taken.
LEMMA GotoIInv ==
    ASSUME IInv, Goto("select") \/ Goto("drainLow") \/ Goto("closing") \/ Goto("stopped"),
           Goto("select") => pc = "pollHigh" /\ highPri = <<>>,
           Goto("drainLow") => pc = "drainHigh" /\ highPri = <<>>,
           Goto("closing") => pc = "drainLow" /\ lowPri = <<>>,
           Goto("stopped") => pc = "closing"
    PROVE  IInv'
<1> USE DEF IInv, TypeOK
<1>1. UNCHANGED <<caller, outcome, highPri, lowPri, results, cur, draining, ctxDone, ran,
                  behind, owed>>
  BY DEF Goto, callerVars, queueVars
<1>2. InHigh' = InHigh /\ InLow' = InLow /\ Queued' = Queued
  BY <1>1 DEF InHigh, InLow, Queued
<1>3. /\ highPri = <<>> => InHigh = {}
      /\ lowPri = <<>> => InLow = {}
  BY EmptyElems DEF InHigh, InLow
<1>4. pc' \in {"select", "drainLow", "closing", "stopped"} /\ pc' # pc
  BY DEF Goto
<1>5. /\ pc' = "select" => pc = "pollHigh" /\ InHigh = {}
      /\ pc' = "drainLow" => pc = "drainHigh" /\ InHigh = {}
      /\ pc' = "closing" => pc = "drainLow" /\ InLow = {}
      /\ pc' = "stopped" => pc = "closing"
  BY <1>3 DEF Goto
<1>6. pc' = "closing" => owed \subseteq ran
  BY <1>5 DEF Queued
<1>7. pc # "stopped"
  BY ONLY <1>4, <1>5, SMTT(30)
<1> QED
  BY <1>1, <1>2, <1>4, <1>5, <1>6, <1>7
  DEF HighWaitsForOneLow, ErrStoppedMeansNeverRun, Stopped, RunStates

\* Every step of the goroutine of Run, by the select it stands at.
LEMMA RunIInv ==
    ASSUME IInv, Run
    PROVE  IInv'
<1> USE DEF IInv, TypeOK
<1>1. CASE PollHigh
  <2>1. CASE TakeHigh
    <3>1. pc = "pollHigh" /\ ~TakeLow
      BY <1>1, <2>1 DEF PollHigh, TakeHigh, TakeLow
    <3> QED BY <2>1, <3>1, TakeIInv
  <2>2. CASE Goto("select")
    BY <1>1, <2>2, GotoIInv DEF PollHigh, Goto, TakeHigh, TakeLow, Start
  <2> QED BY <1>1, <2>1, <2>2 DEF PollHigh
<1>2. CASE Select
  <2>1. CASE TakeHigh \/ TakeLow
    BY <1>2, <2>1, TakeIInv DEF Select
  <2>2. CASE /\ ctxDone
             /\ pc' = "drainHigh"
             /\ draining' = TRUE
             /\ UNCHANGED <<callerVars, queueVars, results, cur, ctxDone, ran, behind, owed>>
    <3>1. InHigh' = InHigh /\ InLow' = InLow /\ Queued' = Queued
      BY <2>2 DEF InHigh, InLow, Queued, queueVars
    <3> QED
      BY <1>2, <2>2, <3>1
      DEF Select, callerVars, queueVars, HighWaitsForOneLow, ErrStoppedMeansNeverRun, Stopped,
          RunStates
  <2> QED BY <1>2, <2>1, <2>2 DEF Select
<1>3. CASE DrainHigh
  <2>1. CASE TakeHigh
    <3>1. pc = "drainHigh" /\ ~TakeLow
      BY <1>3, <2>1 DEF DrainHigh, TakeHigh, TakeLow
    <3> QED BY <2>1, <3>1, TakeIInv
  <2>2. CASE Goto("drainLow")
    BY <1>3, <2>2, GotoIInv DEF DrainHigh, Goto, TakeHigh, TakeLow, Start
  <2> QED BY <1>3, <2>1, <2>2 DEF DrainHigh
<1>4. CASE DrainLow
  <2>1. CASE TakeLow
    <3>1. pc = "drainLow"
      BY <1>4, <2>1 DEF DrainLow
    <3> QED BY <2>1, <3>1, TakeIInv
  <2>2. CASE Goto("closing")
    BY <1>4, <2>2, GotoIInv DEF DrainLow, Goto, TakeHigh, TakeLow, Start
  <2> QED BY <1>4, <2>1, <2>2 DEF DrainLow
<1>5. CASE Close
  BY <1>5, GotoIInv DEF Close, Goto
<1>6. CASE Finish
  <2>1. InHigh' = InHigh /\ InLow' = InLow /\ Queued' = Queued
    BY <1>6 DEF Finish, InHigh, InLow, Queued, queueVars
  <2> QED
    BY <1>6, <2>1, JobsAssumption
    DEF Finish, callerVars, queueVars, HighWaitsForOneLow, ErrStoppedMeansNeverRun, Stopped,
        RunStates, Jobs
<1> QED BY <1>1, <1>2, <1>3, <1>4, <1>5, <1>6 DEF Run

\* The end of the context owes the jobs that are queued at that moment.
LEMMA ShutdownIInv ==
    ASSUME IInv, Shutdown
    PROVE  IInv'
<1>1. InHigh' = InHigh /\ InLow' = InLow /\ Queued' = Queued
  BY DEF Shutdown, InHigh, InLow, Queued, queueVars
<1>2. Queued \subseteq Jobs
  BY ElemsType DEF IInv, TypeOK, Queued, InHigh, InLow, Jobs
<1> QED
  BY <1>1, <1>2
  DEF IInv, TypeOK, Shutdown, callerVars, queueVars, runVars, HighWaitsForOneLow,
      ErrStoppedMeansNeverRun, Stopped

\* The invariant is inductive: one step per action.
LEMMA NextIInv == IInv /\ [Next]_vars => IInv'
<1> SUFFICES ASSUME IInv, [Next]_vars PROVE IInv'
  OBVIOUS
<1>1. ASSUME NEW j \in Jobs, SubmitRows(j) PROVE IInv'
  <2>1. CASE Submit(j)
    BY <2>1, SubmitIInv
  <2>2. CASE Enqueue(j)
    BY <2>2, EnqueueIInv
  <2>3. CASE EnqueueStopped(j)
    <3>1. j \notin ran
      BY <2>3 DEF EnqueueStopped, IInv
    <3> QED BY <2>3, <3>1, ReturnIInv DEF EnqueueStopped, Outcomes
  <2>4. CASE ReceiveResult(j)
    <3>1. j \in ran
      BY <2>4 DEF ReceiveResult, IInv
    <3> QED BY <2>4, <3>1, ReturnIInv DEF ReceiveResult, Outcomes
  <2>5. CASE WaitStopped(j)
    <3>1. j \in results => j \in ran
      BY DEF IInv
    <3>2. j \notin results => j \notin ran
      BY <2>5, JobsAssumption DEF WaitStopped, IInv, Stopped, Jobs
    <3>3. CASE j \in results
      BY <2>5, <3>1, <3>3, ReturnIInv DEF WaitStopped, Outcomes
    <3>4. CASE j \notin results
      BY <2>5, <3>2, <3>4, ReturnIInv DEF WaitStopped, Outcomes
    <3> QED BY <3>3, <3>4
  <2> QED BY <1>1, <2>1, <2>2, <2>3, <2>4, <2>5 DEF SubmitRows
<1>2. ASSUME NEW j \in Jobs, Cancelled(j) PROVE IInv'
  BY <1>2, ReturnIInv DEF Cancelled, Outcomes
<1>3. CASE UNCHANGED vars
  BY <1>3
  DEF vars, callerVars, queueVars, runVars, IInv, TypeOK, InHigh, InLow, Queued,
      HighWaitsForOneLow, ErrStoppedMeansNeverRun, Stopped
<1> QED BY <1>1, <1>2, <1>3, ShutdownIInv, RunIInv DEF Next

-----------------------------------------------------------------------------
\* The strengthened invariant holds in every reachable state.
THEOREM Inductive == Spec => []IInv
<1> QED BY InitIInv, NextIInv, PTL DEF Spec

\* Every variable keeps its type.
THEOREM TypeCorrect == Spec => []TypeOK
<1>1. IInv => TypeOK
  BY DEF IInv
<1> QED BY <1>1, Inductive, PTL

\* However many writers there are and however full the low-priority channel
\* is, a queued high-priority write waits for at most one low-priority write.
THEOREM HighPriorityBound == Spec => []HighWaitsForOneLow
<1>1. IInv => HighWaitsForOneLow
  BY DEF IInv
<1> QED BY <1>1, Inductive, PTL

\* A write whose caller was told ErrStopped is never executed, at any time.
THEOREM StoppedIsFinal == Spec => []ErrStoppedMeansNeverRun
<1>1. IInv => ErrStoppedMeansNeverRun
  BY DEF IInv
<1> QED BY <1>1, Inductive, PTL

\* Run does not report that it has stopped before it has run every job that
\* was queued when its context ended.
THEOREM ShutdownDrains == Spec => []QueuedJobsRunBeforeStop
<1>1. IInv => QueuedJobsRunBeforeStop
  BY DEF IInv, QueuedJobsRunBeforeStop, Stopped
<1> QED BY <1>1, Inductive, PTL
=============================================================================
