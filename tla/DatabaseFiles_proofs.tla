------------------------ MODULE DatabaseFiles_proofs ------------------------
(* Proofs about the files of the database: their write-ahead log, with its   *)
(* checkpoints and the readers that meet a recovery, for any set of readers  *)
(* and any bounds; and the cut-over of the spans to a file of their own, for *)
(* any rows, any batch size, and any number of stops, writes and deletes.    *)
EXTENDS Checkpoints, SpansCutover, CountingLemmas

-----------------------------------------------------------------------------
(* The write-ahead log.                                                    *)

\* A nonempty set of naturals has a least element, which is what Min picks.
LEMMA MinOfNats ==
    ASSUME NEW S, S \subseteq Nat, S # {}
    PROVE  Min(S) \in S /\ \A y \in S : Min(S) <= y
  BY LeastExists, Zenon DEF Min

\* How far the log can be copied lies between what is copied already and its
\* end, whatever snapshots are open (PASSIVE and TRUNCATE only move forward).
LEMMA CopyableBounds ==
    ASSUME CkTypeOK
    PROVE  Copyable \in walCopied .. walLen
<1> DEFINE S == {walLen} \cup {snaps[r] : r \in InWal}
<1> USE CkTypeOK DEF CkTypeOK
<1>1. S \subseteq Nat /\ walLen \in S
  BY DEF InWal
<1> HIDE DEF S
<1>2. Min(S) \in Nat /\ Min(S) <= walLen
  BY <1>1, MinOfNats, Zenon
<1>3. Max({walCopied, Min(S)}) \in {walCopied, Min(S)}
      /\ \A y \in {walCopied, Min(S)} : Max({walCopied, Min(S)}) >= y
  BY <1>2 DEF Max
<1>4. Max({walCopied, Min(S)}) \in walCopied .. walLen
  BY <1>2, <1>3
<1> QED BY <1>4 DEF Copyable, S

\* The invariant holds initially.
LEMMA CkInitial == CkInit => CheckpointsSound
<1> SUFFICES ASSUME CkInit PROVE CheckpointsSound
  BY Zenon
<1> USE DEF CkInit
<1>1. CkTypeOK
  BY CheckpointAssumption DEF CkTypeOK, NoQuery, OneFile
<1>5. CkFlags
  BY Zenon DEF CkFlags, OneFile
<1>2. TimeoutInv /\ BackfillInv
  BY DEF TimeoutInv, BackfillInv, WriterHeldBriefly, TimeoutRestored
<1>3. MergeInv
  BY Zenon DEF MergeInv, FinalMerges
<1>4. QueryInv
  BY Zenon DEF QueryInv, RecoveredServes, NoQuery
<1> QED BY <1>1, <1>2, <1>3, <1>4, <1>5, Zenon DEF CheckpointsSound

\* The flags stay Boolean.
LEMMA CkFlagsKept ==
    ASSUME CkFlags, [CkNext]_ckVars
    PROVE  CkFlags'
<1> USE DEF CkFlags
<1> USE DEF walVars, connVars, attemptVars, ckBounds, ckHistory, recoverVars, OneFile, CkFault
<1>1. CASE UNCHANGED <<timeoutOn, halfOff, ckCancelled, ckErr, ckBusy, freed, clean, vacuumed, recovering>>
  BY <1>1, Zenon
<1>2. CASE CkWrite
  BY <1>2, Zenon DEF CkWrite, InWal
<1>3. CASE PeriodicBegins
  BY <1>3, Zenon DEF PeriodicBegins, BeginAttempt, FirstStep
<1>4. CASE EndedBegins
  BY <1>4, Zenon DEF EndedBegins, BeginAttempt, FirstStep
<1>5. CASE Backfill
  BY <1>5, Zenon DEF Backfill
<1>6. CASE TakeConn
  BY <1>6, Zenon DEF TakeConn, AttemptEnds
<1>7. CASE TimeoutOff
  BY <1>7, Zenon DEF TimeoutOff, AttemptEnds, TimeoutWhileHeld
<1>8. CASE TruncateWal
  BY <1>8, Zenon DEF TruncateWal, Cuttable, InWal
<1>9. CASE TruncateFails
  BY <1>9, Zenon DEF TruncateFails
<1>10. CASE RestoreTimeout
  BY <1>10, Zenon DEF RestoreTimeout, AttemptEnds, RestoreRuns
<1>11. CASE VacuumFreed
  BY <1>11, Zenon DEF VacuumFreed, AttemptEnds
<1>12. CASE Retry
  BY <1>12, Zenon DEF Retry, AttemptEnds, BeginAttempt, FirstStep
<1>13. CASE Cancel
  BY <1>13, Zenon DEF Cancel
<1>14. CASE FinalAttempt
  BY <1>14, Zenon DEF FinalAttempt, FinalCaller
<1>15. CASE RecoveryChanges
  BY <1>15, ZenonT(60) DEF RecoveryChanges
<1> QED
  BY <1>1, <1>2, <1>3, <1>4, <1>5, <1>6, <1>7, <1>8, <1>9, <1>10, <1>11, <1>12, <1>13, <1>14, <1>15, ZenonT(60) DEF
     CkNext, CkReaderBegins, CkReaderEnds, CkClock, QueryBegins, QueryRuns, QueryCancelled, ckVars

\* The types are kept.
LEMMA CkTypes ==
    ASSUME CkTypeOK, [CkNext]_ckVars
    PROVE  CkTypeOK'
<1> USE DEF CkTypeOK
<1> USE DEF walVars, connVars, attemptVars, ckBounds, ckHistory, recoverVars, OneFile, CkFault
<1>0. Copyable \in walCopied .. walLen
  BY CopyableBounds, Zenon
<1>1. CASE CkWrite
  BY <1>1 DEF CkWrite, InWal
<1>2. CASE CkReaderBegins
  BY <1>2 DEF CkReaderBegins, Open
<1>3. CASE CkReaderEnds
  BY <1>3 DEF CkReaderEnds, Open
<1>4. CASE PeriodicBegins
  BY <1>4, ZenonT(60) DEF PeriodicBegins, BeginAttempt, FirstStep
<1>5. CASE EndedBegins
  BY <1>5 DEF EndedBegins, BeginAttempt, FirstStep
<1>6. CASE Backfill
  BY <1>6, <1>0 DEF Backfill
<1>7. CASE TakeConn
  BY <1>7 DEF TakeConn, AttemptEnds
<1>8. CASE TimeoutOff
  BY <1>8 DEF TimeoutOff, AttemptEnds, TimeoutWhileHeld
<1>9. CASE TruncateWal
  BY <1>9, <1>0 DEF TruncateWal, Cuttable, InWal
<1>10. CASE TruncateFails
  BY <1>10 DEF TruncateFails
<1>11. CASE RestoreTimeout
  BY <1>11 DEF RestoreTimeout, AttemptEnds, RestoreRuns
<1>12. CASE VacuumFreed
  BY <1>12 DEF VacuumFreed, AttemptEnds
<1>13. CASE Retry
  BY <1>13 DEF Retry, AttemptEnds, BeginAttempt, FirstStep
<1>14. CASE Cancel
  BY <1>14 DEF Cancel
<1>15. CASE FinalAttempt
  BY <1>15, Zenon DEF FinalAttempt, FinalCaller
<1>16. CASE CkClock
  BY <1>16 DEF CkClock
<1>17. CASE RecoveryChanges
  BY <1>17 DEF RecoveryChanges
<1>18. CASE QueryBegins
  BY <1>18 DEF QueryBegins
<1>19. CASE QueryRuns
  <2> DEFINE step == IF query.tries + 1 < BadConnTries THEN "running" ELSE "failed"
             clear == query.clear /\ ~recovering
  <2>1. CASE ~recovering /\ pooled # "stuck"
    BY <1>19, <2>1, ZenonT(60) DEF QueryRuns
  <2>2. CASE recovering \/ pooled = "stuck"
    <3>1. query' = [step |-> step, tries |-> query.tries + 1, clear |-> clear] /\ pooled' = "none"
      BY <1>19, <2>2, ZenonT(60) DEF QueryRuns, RecoverErr
    <3>2. clear \in BOOLEAN
      BY Zenon
    <3>3. step \in {"running", "failed"} /\ query.tries + 1 \in Nat
      OBVIOUS
    <3> HIDE DEF step, clear
    <3>4. query' \in [step : {"idle", "running", "served", "failed", "cancelled"}, tries : Nat, clear : BOOLEAN]
      BY <3>1, <3>2, <3>3, Zenon
    <3> QED BY <1>19, <3>1, <3>4, ZenonT(60) DEF QueryRuns
  <2> QED BY <2>1, <2>2, Zenon
<1>20. CASE QueryCancelled
  BY <1>20, ZenonT(60) DEF QueryCancelled
<1>21. CASE UNCHANGED ckVars
  BY <1>21 DEF ckVars
<1> QED
  BY <1>1, <1>2, <1>3, <1>4, <1>5, <1>6, <1>7, <1>8, <1>9, <1>10, <1>11, <1>12, <1>13, <1>14, <1>15, <1>16,
     <1>17, <1>18, <1>19, <1>20, <1>21 DEF CkNext

\* The connection is back in the pool with its timeout, and soon.
LEMMA CkTimeouts ==
    ASSUME CkTypeOK, TimeoutInv, [CkNext]_ckVars
    PROVE  TimeoutInv'
<1> USE DEF CkTypeOK, TimeoutInv, WriterHeldBriefly, TimeoutRestored
<1> USE DEF walVars, connVars, attemptVars, ckBounds, ckHistory, recoverVars, OneFile, CkFault
<1>1. CASE UNCHANGED connVars /\ UNCHANGED ckStep
  BY <1>1, Zenon
<1>2. CASE PeriodicBegins
  BY <1>2, Zenon DEF PeriodicBegins, BeginAttempt, FirstStep
<1>3. CASE EndedBegins
  BY <1>3, Zenon DEF EndedBegins, BeginAttempt, FirstStep
<1>4. CASE Backfill
  BY <1>4, Zenon DEF Backfill
<1>5. CASE TakeConn
  BY <1>5 DEF TakeConn, AttemptEnds
<1>6. CASE TimeoutOff
  BY <1>6, Zenon DEF TimeoutOff, AttemptEnds, TimeoutWhileHeld
<1>7. CASE TruncateWal
  BY <1>7, Zenon DEF TruncateWal, Cuttable, InWal
<1>8. CASE TruncateFails
  BY <1>8, Zenon DEF TruncateFails
<1>9. CASE RestoreTimeout
  BY <1>9, ZenonT(60) DEF RestoreTimeout, AttemptEnds, RestoreRuns
<1>10. CASE VacuumFreed
  BY <1>10, Zenon DEF VacuumFreed, AttemptEnds
<1>11. CASE Retry
  BY <1>11, Zenon DEF Retry, AttemptEnds, BeginAttempt, FirstStep
<1>12. CASE FinalAttempt
  BY <1>12, Zenon DEF FinalAttempt, FinalCaller
<1>13. CASE CkClock
  BY <1>13 DEF CkClock
<1> QED
  BY <1>1, <1>2, <1>3, <1>4, <1>5, <1>6, <1>7, <1>8, <1>9, <1>10, <1>11, <1>12, <1>13, ZenonT(60)
     DEF CkNext, CkWrite,
     CkReaderBegins, CkReaderEnds, Cancel, RecoveryChanges, QueryBegins, QueryRuns, QueryCancelled, ckVars

\* Only writes come between a whole backfill and the TRUNCATE.
LEMMA CkBackfills ==
    ASSUME CkTypeOK, BackfillInv, [CkNext]_ckVars
    PROVE  BackfillInv'
<1> USE DEF CkTypeOK, BackfillInv
<1> USE DEF walVars, connVars, attemptVars, ckBounds, ckHistory, recoverVars, OneFile, CkFault
<1>0. Copyable \in walCopied .. walLen
  BY CopyableBounds, Zenon
<1>1. CASE UNCHANGED <<walLen, walCopied, clean, written, ckStep>>
  BY <1>1, Zenon
<1>2. CASE CkWrite
  BY <1>2 DEF CkWrite, InWal
<1>3. CASE PeriodicBegins
  BY <1>3, Zenon DEF PeriodicBegins, BeginAttempt, FirstStep
<1>4. CASE EndedBegins
  BY <1>4, Zenon DEF EndedBegins, BeginAttempt, FirstStep
<1>5. CASE Backfill
  <2>1. CASE walCopied' = Copyable /\ clean' = (Copyable = walLen)
    <3>1. clean' => Copyable = walLen
      BY <2>1, Zenon
    <3>2. walLen' = walLen /\ written' \in Nat
      BY <1>5 DEF Backfill
    <3> QED BY <2>1, <3>1, <3>2, <1>0
  <2>2. CASE clean' = FALSE
    BY <2>2, Zenon
  <2> QED BY <1>5, <2>1, <2>2, Zenon DEF Backfill
<1>6. CASE TakeConn
  BY <1>6, Zenon DEF TakeConn, AttemptEnds
<1>7. CASE TimeoutOff
  BY <1>7, Zenon DEF TimeoutOff, AttemptEnds, TimeoutWhileHeld
<1>8. CASE TruncateWal
  BY <1>8, <1>0, Zenon DEF TruncateWal, Cuttable, InWal
<1>9. CASE TruncateFails
  BY <1>9, Zenon DEF TruncateFails
<1>10. CASE RestoreTimeout
  BY <1>10, Zenon DEF RestoreTimeout, AttemptEnds, RestoreRuns
<1>11. CASE VacuumFreed
  BY <1>11, Zenon DEF VacuumFreed, AttemptEnds
<1>12. CASE Retry
  BY <1>12, ZenonT(60) DEF Retry, AttemptEnds, BeginAttempt, FirstStep
<1>13. CASE FinalAttempt
  BY <1>13, ZenonT(60) DEF FinalAttempt, FinalCaller
<1> QED
  BY <1>1, <1>2, <1>3, <1>4, <1>5, <1>6, <1>7, <1>8, <1>9, <1>10, <1>11, <1>12, <1>13, ZenonT(60)
     DEF CkNext,
     CkReaderBegins, CkReaderEnds, Cancel, CkClock, RecoveryChanges, QueryBegins, QueryRuns, QueryCancelled,
     ckVars

\* What the last checkpoint reports is true.
LEMMA CkMerges ==
    ASSUME CkTypeOK, MergeInv, [CkNext]_ckVars
    PROVE  MergeInv'
<1> USE DEF CkTypeOK, MergeInv, FinalMerges, ContextDone
<1> USE DEF walVars, connVars, attemptVars, ckBounds, ckHistory, recoverVars, OneFile, CkFault
<1>0. Copyable \in walCopied .. walLen
  BY CopyableBounds, Zenon
<1>1. CASE CkWrite
  BY <1>1, Zenon DEF CkWrite, InWal
<1>2. CASE CkReaderBegins
  BY <1>2, Zenon DEF CkReaderBegins, Open
<1>3. CASE CkReaderEnds
  BY <1>3, Zenon DEF CkReaderEnds, Open
<1>4. CASE PeriodicBegins
  BY <1>4, Zenon DEF PeriodicBegins, BeginAttempt, FirstStep
<1>5. CASE EndedBegins
  BY <1>5, Zenon DEF EndedBegins, BeginAttempt, FirstStep
<1>6. CASE Backfill
  BY <1>6, <1>0 DEF Backfill
<1>7. CASE TakeConn
  BY <1>7 DEF TakeConn, AttemptEnds
<1>8. CASE TimeoutOff
  BY <1>8 DEF TimeoutOff, AttemptEnds, TimeoutWhileHeld
<1>9. CASE TruncateWal
  BY <1>9, <1>0, Zenon DEF TruncateWal, Cuttable, InWal
<1>10. CASE TruncateFails
  BY <1>10 DEF TruncateFails
<1>11. CASE RestoreTimeout
  BY <1>11 DEF RestoreTimeout, AttemptEnds, RestoreRuns
<1>12. CASE VacuumFreed
  BY <1>12 DEF VacuumFreed, AttemptEnds
<1>13. CASE Retry
  BY <1>13 DEF Retry, AttemptEnds, BeginAttempt, FirstStep
<1>14. CASE Cancel
  BY <1>14, Zenon DEF Cancel
<1>15. CASE FinalAttempt
  BY <1>15, Zenon DEF FinalAttempt, FinalCaller
<1>16. CASE CkClock
  BY <1>16, Zenon DEF CkClock
<1>17. CASE RecoveryChanges
  BY <1>17 DEF RecoveryChanges
<1>18. CASE QueryBegins
  BY <1>18, Zenon DEF QueryBegins
<1>19. CASE QueryRuns
  BY <1>19, Zenon DEF QueryRuns, RecoverErr
<1>20. CASE QueryCancelled
  BY <1>20, Zenon DEF QueryCancelled
<1>21. CASE UNCHANGED ckVars
  BY <1>21, Zenon DEF ckVars
<1> QED
  BY <1>1, <1>2, <1>3, <1>4, <1>5, <1>6, <1>7, <1>8, <1>9, <1>10, <1>11, <1>12, <1>13, <1>14, <1>15, <1>16,
     <1>17, <1>18, <1>19, <1>20, <1>21 DEF CkNext

\* A stuck connection costs a statement one attempt.
LEMMA CkQueries ==
    ASSUME CkTypeOK, QueryInv, [CkNext]_ckVars
    PROVE  QueryInv'
<1> USE DEF CkTypeOK, QueryInv, RecoveredServes
<1> USE DEF walVars, connVars, attemptVars, ckBounds, ckHistory, recoverVars, OneFile, CkFault
<1>1. CASE UNCHANGED recoverVars
  BY <1>1, Zenon
<1>2. CASE RecoveryChanges
  BY <1>2, Zenon DEF RecoveryChanges
<1>3. CASE QueryBegins
  BY <1>3 DEF QueryBegins
<1>4. CASE QueryRuns
  <2> DEFINE step == IF query.tries + 1 < BadConnTries THEN "running" ELSE "failed"
             clear == query.clear /\ ~recovering
  <2>1. CASE ~recovering /\ pooled # "stuck"
    BY <1>4, <2>1, Zenon DEF QueryRuns
  <2>2. CASE recovering \/ pooled = "stuck"
    <3>1. query' = [step |-> step, tries |-> query.tries + 1, clear |-> clear] /\ pooled' = "none"
      BY <1>4, <2>2, Zenon DEF QueryRuns, RecoverErr
    <3>2. step = "failed" => ~clear
      <4>1. CASE recovering
        BY <4>1, Zenon
      <4>2. CASE ~recovering
        <5>1. query.tries = 0
          BY <1>4, <2>2, <4>2 DEF QueryRuns
        <5> QED BY <5>1, CheckpointAssumption
      <4> QED BY <4>1, <4>2, Zenon
    <3> HIDE DEF step, clear
    <3>3. query'.step = step /\ query'.clear = clear
      BY <3>1, Zenon
    <3> QED BY <3>1, <3>2, <3>3, Zenon
  <2> QED BY <2>1, <2>2, Zenon
<1>5. CASE QueryCancelled
  BY <1>5, Zenon DEF QueryCancelled
<1> QED
  BY <1>1, <1>2, <1>3, <1>4, <1>5, ZenonT(60)
     DEF CkNext, CkWrite, CkReaderBegins, CkReaderEnds, PeriodicBegins,
     EndedBegins, Backfill, TakeConn, TimeoutOff, TruncateWal, TruncateFails, RestoreTimeout, VacuumFreed,
     Retry, Cancel, FinalAttempt, CkClock, ckVars

-----------------------------------------------------------------------------
\* Every behaviour keeps the whole invariant: for any readers, writes, faults
\* and stops a checkpoint (checkpointOnce, db.go) may meet.
THEOREM CheckpointInvariant == CkSpec => []CheckpointsSound
<1>1. CkInit => CheckpointsSound
  BY CkInitial, Zenon
<1>2. CheckpointsSound /\ [CkNext]_ckVars => CheckpointsSound'
  BY CkFlagsKept, CkTypes, CkTimeouts, CkBackfills, CkMerges, CkQueries, Zenon DEF CheckpointsSound
<1> QED BY <1>1, <1>2, PTL DEF CkSpec

\* However an attempt that turned the busy timeout off ends, the writer's
\* connection is back in the pool with the timeout on, and no reader made the
\* writes wait for longer than a TRUNCATE itself takes (checkpointOnce and its
\* deferred restore).  An attempt whose first statement reported an error is
\* outside the restore, and is the exception TimeoutRestored names.
THEOREM ConnectionReturned == CkSpec => [](WriterHeldBriefly /\ TimeoutRestored)
<1>1. CheckpointsSound => WriterHeldBriefly /\ TimeoutRestored
  BY Zenon DEF CheckpointsSound, TimeoutInv
<1> QED BY <1>1, CheckpointInvariant, PTL

\* The backfill leaves TRUNCATE only what was written since, and the last
\* checkpoint of a file that reports no trouble leaves nothing but the vacuum's
\* pages in the log (backfill, FinalAttempt, finalCheckpoint).
THEOREM LogMerged == CkSpec => [](BackfilledFirst /\ FinalMerges)
<1>1. CheckpointsSound => BackfilledFirst /\ FinalMerges
  BY Zenon DEF CheckpointsSound, BackfillInv, BackfilledFirst, MergeInv
<1> QED BY <1>1, CheckpointInvariant, PTL

\* A statement that meets no recovery is served, whatever an earlier recovery
\* left in the pool, as long as database/sql makes a second attempt
\* (recoverErr).
THEOREM StatementServed == CkSpec => []RecoveredServes
<1>1. CheckpointsSound => RecoveredServes
  BY Zenon DEF CheckpointsSound, QueryInv
<1> QED BY <1>1, CheckpointInvariant, PTL

-----------------------------------------------------------------------------
(* The cut-over.                                                           *)

\* The last id of a set of rows is 0 or one of them, and bounds them all.
LEMMA TopBounds ==
    ASSUME NEW S, S \subseteq 1..CoMaxId
    PROVE  Top(S) \in 0..CoMaxId /\ \A k \in S : k <= Top(S)
<1>1. \E n \in {0} \cup S : \A k \in S : k <= n
  BY CutoverAssumption, GreatestExists, Zenon
<1>2. Top(S) \in {0} \cup S /\ \A k \in S : k <= Top(S)
  BY <1>1, Zenon DEF Top
<1>3. \A n \in {0} \cup S : n \in 0..CoMaxId
  BY CutoverAssumption
<1> QED BY <1>2, <1>3, Zenon

\* The tables of a new file are well formed, and are not the missing ones.
LEMMA NewTables ==
    /\ Tables(NoTables) /\ Tables(EmptyTables)
    /\ EmptyTables # NoTables
    /\ NoTables.rows = {} /\ NoTables.seq = -1 /\ NoTables.done = FALSE
    /\ EmptyTables.rows = {} /\ EmptyTables.seq = 0 /\ EmptyTables.done = FALSE
  BY CutoverAssumption DEF Tables, NoTables, EmptyTables

\* Rows and a counter that has started make well-formed tables.
LEMMA TablesMade ==
    ASSUME NEW r \in SUBSET (1..CoMaxId), NEW q \in 0..CoMaxId, NEW d,
           NEW t, t = [rows |-> r, seq |-> q, done |-> d]
    PROVE  Tables(t) /\ t # NoTables /\ t.rows = r /\ t.seq = q /\ t.done = d
<1>1. t.rows = r /\ t.seq = q /\ t.done = d
  BY Zenon
<1>2. t = [rows |-> t.rows, seq |-> t.seq, done |-> t.done]
  BY <1>1, Zenon
<1>3. q \in -1..CoMaxId /\ q >= 0 /\ q # -1
  BY CutoverAssumption
<1>4. t # NoTables
  BY <1>1, <1>3, Zenon DEF NoTables
<1>5. Tables(t)
  BY <1>1, <1>2, <1>3, Zenon DEF Tables
<1> QED BY <1>1, <1>4, <1>5, Zenon

\* What an update of some fields of such a record leaves.
LEMMA RowsExcept ==
    ASSUME NEW t, Tables(t), NEW r
    PROVE  [t EXCEPT !.rows = r] = [rows |-> r, seq |-> t.seq, done |-> t.done]
<1>1. PICK a, b, c : t = [rows |-> a, seq |-> b, done |-> c]
  BY Zenon DEF Tables
<1> QED BY <1>1

LEMMA RowsSeqExcept ==
    ASSUME NEW t, Tables(t), NEW r, NEW q
    PROVE  [t EXCEPT !.rows = r, !.seq = q] = [rows |-> r, seq |-> q, done |-> t.done]
<1>1. PICK a, b, c : t = [rows |-> a, seq |-> b, done |-> c]
  BY Zenon DEF Tables
<1>2. t.done = c
  BY <1>1, Zenon
<1> DEFINE u == [t EXCEPT !.rows = r]
<1>3. u = [rows |-> r, seq |-> b, done |-> c]
  BY <1>1
<1> HIDE DEF u
<1>4. [u EXCEPT !.seq = q] = [rows |-> r, seq |-> q, done |-> c]
  BY <1>3
<1> QED BY <1>2, <1>4, Zenon DEF u

\* The invariant holds initially.
LEMMA CoInitial == CoInit => CutoverSound
<1> SUFFICES ASSUME CoInit PROVE CutoverSound
  BY Zenon
<1> USE CutoverAssumption, NewTables DEF CoInit, SplitLayout
<1>1. CASE newInstall
  <2>1. mainSpans = NoTables /\ spansFile = NoTables /\ copyFile = NoTables
    BY <1>1, Zenon
  <2>2. liveRows = {} /\ usedIds = {} /\ ~mainMigrated
    BY <1>1, <2>1, Zenon
  <2> HIDE DEF CoInit
  <2> QED
    BY <1>1, <2>1, <2>2, Zenon
       DEF CoInit, CutoverSound, CoTypeOK, StageInv, LayoutInv, NothingLostInCutover, Authority, IdsInv,
       IdsGivenOnce, AuthoritySeq, ReadersInv, ReaderReadsAuthority
<1>2. CASE ~newInstall
  <2>1. mainSpans = [rows |-> CoRows0, seq |-> Top(CoRows0), done |-> FALSE] /\ mainMigrated
    BY <1>2, Zenon
  <2>2. Top(CoRows0) \in 0..CoMaxId /\ \A k \in CoRows0 : k <= Top(CoRows0)
    BY TopBounds, Zenon
  <2>3. Tables(mainSpans) /\ mainSpans # NoTables
    <3>1. CoRows0 \in SUBSET (1..CoMaxId)
      BY Zenon
    <3> HIDE DEF CoInit
    <3> DEFINE q == Top(CoRows0)
               d == FALSE
    <3>2. mainSpans = [rows |-> CoRows0, seq |-> q, done |-> d] /\ q \in 0..CoMaxId
      BY <2>1, <2>2, Zenon
    <3> HIDE DEF q, d
    <3> QED BY <3>1, <3>2, TablesMade
  <2>4. liveRows = CoRows0 /\ usedIds = CoRows0 /\ copyFile = NoTables /\ spansFile \in {NoTables, EmptyTables}
    BY <1>2, <2>1
  <2> QED
    BY <2>1, <2>2, <2>3, <2>4
       DEF CutoverSound, CoTypeOK, StageInv, LayoutInv, NothingLostInCutover, Authority, IdsInv,
       IdsGivenOnce, AuthoritySeq, ReadersInv, ReaderReadsAuthority
<1> QED BY <1>1, <1>2, Zenon

\* A row more, or a row less, leaves tables well formed.
LEMMA RowAdded ==
    ASSUME NEW t, Tables(t), t # NoTables, t.seq + 1 <= CoMaxId
    PROVE  /\ Tables(AddRow(t)) /\ AddRow(t) # NoTables
           /\ AddRow(t).rows = t.rows \cup {t.seq + 1} /\ AddRow(t).seq = t.seq + 1
           /\ AddRow(t).done = t.done
<1> DEFINE r == t.rows \cup {t.seq + 1}
           q == t.seq + 1
<1>1. r \in SUBSET (1..CoMaxId) /\ q \in 0..CoMaxId
  BY CutoverAssumption DEF Tables
<1>2. AddRow(t) = [t EXCEPT !.rows = r, !.seq = q]
  BY Zenon DEF AddRow
<1> HIDE DEF r, q
<1>3. AddRow(t) = [rows |-> r, seq |-> q, done |-> t.done]
  <2>1. [t EXCEPT !.rows = r, !.seq = q] = [rows |-> r, seq |-> q, done |-> t.done]
    BY RowsSeqExcept, Zenon
  <2> HIDE DEF AddRow
  <2> QED BY <1>2, <2>1, Zenon
<1>4. /\ Tables(AddRow(t)) /\ AddRow(t) # NoTables
      /\ AddRow(t).rows = r /\ AddRow(t).seq = q /\ AddRow(t).done = t.done
  BY <1>1, <1>3, TablesMade
<1> QED BY <1>4, Zenon DEF r, q

LEMMA RowDeleted ==
    ASSUME NEW t, Tables(t), t # NoTables, NEW i
    PROVE  LET u == [t EXCEPT !.rows = @ \ {i}]
           IN  /\ Tables(u) /\ u # NoTables
               /\ u.rows = t.rows \ {i} /\ u.seq = t.seq /\ u.done = t.done
<1> DEFINE r == t.rows \ {i}
           u == [t EXCEPT !.rows = r]
<1>1. r \in SUBSET (1..CoMaxId) /\ t.seq \in 0..CoMaxId
  BY CutoverAssumption DEF Tables
<1>2. u = [rows |-> r, seq |-> t.seq, done |-> t.done]
  BY RowsExcept, Zenon
<1> HIDE DEF r, u
<1>3. Tables(u) /\ u # NoTables /\ u.rows = r /\ u.seq = t.seq /\ u.done = t.done
  <2> DEFINE q == t.seq
             d == t.done
  <2>1. q \in 0..CoMaxId /\ u = [rows |-> r, seq |-> q, done |-> d]
    BY <1>1, <1>2, Zenon
  <2> HIDE DEF q, d
  <2>2. Tables(u) /\ u # NoTables /\ u.rows = r /\ u.seq = q /\ u.done = d
    BY <1>1, <2>1, TablesMade, SMTT(30)
  <2> QED BY <2>2, Zenon DEF q, d
<1> QED BY <1>3, Zenon DEF r, u

\* No step of the writer, a command, retention or a reader breaks it.
LEMMA CoInductive ==
    ASSUME CutoverSound, [CoNext]_coVars
    PROVE  CutoverSound'
<1> USE CutoverAssumption, NewTables DEF coHistory, SplitLayout
<1> USE DEF CutoverSound, CoTypeOK, StageInv, LayoutInv, NothingLostInCutover, Authority, IdsInv,
       IdsGivenOnce, AuthoritySeq, ReadersInv, ReaderReadsAuthority
<1>1. ASSUME NEW b \in BOOLEAN, StartSingle(b) PROVE CutoverSound'
  BY <1>1, Zenon DEF StartSingle, Unlinked
<1>2. ASSUME NEW b \in BOOLEAN, HasRoom(b) PROVE CutoverSound'
  BY <1>2, Zenon DEF HasRoom
<1>3. CASE CopyRows
  <2> DEFINE rest == {i \in mainSpans.rows : i > Top(copyFile.rows)}
             next == {i \in rest : Cardinality({k \in rest : k <= i}) <= CopyBatch}
  <2>1. next \subseteq 1..CoMaxId
    BY Zenon DEF Tables
  <2>2. Top(next) \in 0..CoMaxId
    BY <2>1, TopBounds, Zenon
  <2> HIDE DEF next
  <2>3. copyFile' = [copyFile EXCEPT !.rows = @ \cup next, !.seq = Top(next)]
    BY <1>3, Zenon DEF CopyRows, next
  <2>4. Tables(copyFile') /\ copyFile' # NoTables /\ copyFile'.done = copyFile.done
    <3> DEFINE r == copyFile.rows \cup next
               q == Top(next)
    <3>1. r \in SUBSET (1..CoMaxId) /\ q \in 0..CoMaxId
      BY <2>1, <2>2, Zenon DEF Tables
    <3>2. copyFile' = [copyFile EXCEPT !.rows = r, !.seq = q] /\ Tables(copyFile)
      BY <2>3, Zenon
    <3> HIDE DEF r, q, CutoverSound
    <3>3. copyFile' = [rows |-> r, seq |-> q, done |-> copyFile.done]
      BY ONLY <3>2, RowsSeqExcept, Zenon
    <3> QED BY <3>1, <3>3, TablesMade
  <2> QED BY <1>3, <2>4, Zenon DEF CopyRows
<1>4. CASE MarkCopy
  <2>1. copyFile' = [copyFile EXCEPT !.seq = mainSpans.seq, !.done = TRUE]
    BY <1>4, Zenon DEF MarkCopy, CopySequences
  <2>2. /\ Tables(copyFile') /\ copyFile' # NoTables /\ copyFile'.done
        /\ copyFile'.rows = copyFile.rows /\ copyFile'.seq = mainSpans.seq
    BY <1>4, <2>1, Zenon DEF MarkCopy, Tables, NoTables
  <2> QED BY <1>4, <2>2, Zenon DEF MarkCopy
<1>5. CASE DropMovedTables
  BY <1>5, Zenon DEF DropMovedTables
<1>6. CASE CutoverFails
  BY <1>6, Zenon DEF CutoverFails
<1>7. CASE CommitCutover
  BY <1>7, Zenon DEF CommitCutover
<1>8. CASE StartSplit
  BY <1>8 DEF StartSplit, FinishCutover
<1>9. CASE MigrateMain
  BY <1>9, Zenon DEF MigrateMain
<1>10. CASE DropEmptyTables
  BY <1>10, Zenon DEF DropEmptyTables
<1>11. CASE CoStop
  BY <1>11, Zenon DEF CoStop
<1>12. CASE CoWrite
  <2>1. CASE writer = "split"
    <3>1. /\ spansFile # NoTables /\ spansFile.seq + 1 <= CoMaxId
          /\ spansFile' = AddRow(spansFile) /\ UNCHANGED mainSpans
          /\ liveRows' = liveRows \cup {spansFile.seq + 1}
          /\ usedIds' = IF spansFile.seq + 1 \in usedIds THEN usedIds \cup {0} ELSE usedIds \cup {spansFile.seq + 1}
      BY <1>12, <2>1, Zenon DEF CoWrite
    <3>2. /\ Tables(spansFile') /\ spansFile' # NoTables
          /\ spansFile'.rows = spansFile.rows \cup {spansFile.seq + 1} /\ spansFile'.seq = spansFile.seq + 1
      BY <3>1, RowAdded, ZenonT(60)
    <3>3. spansFile.seq \in 0..CoMaxId /\ \A k \in usedIds : k <= spansFile.seq
      BY <2>1, <3>1, SMTT(30) DEF Tables
    <3>4. usedIds' = usedIds \cup {spansFile.seq + 1}
      BY <3>1, <3>3, SMTT(30)
    <3> QED BY <1>12, <2>1, <3>1, <3>2, <3>3, <3>4, SMTT(30) DEF CoWrite
  <2>2. CASE writer = "single"
    <3>1. /\ mainSpans # NoTables /\ mainSpans.seq + 1 <= CoMaxId
          /\ mainSpans' = AddRow(mainSpans) /\ UNCHANGED spansFile
          /\ liveRows' = liveRows \cup {mainSpans.seq + 1}
          /\ usedIds' = IF mainSpans.seq + 1 \in usedIds THEN usedIds \cup {0} ELSE usedIds \cup {mainSpans.seq + 1}
      BY <1>12, <2>2, Zenon DEF CoWrite
    <3>2. /\ Tables(mainSpans') /\ mainSpans' # NoTables
          /\ mainSpans'.rows = mainSpans.rows \cup {mainSpans.seq + 1} /\ mainSpans'.seq = mainSpans.seq + 1
      BY <3>1, RowAdded, Zenon
    <3>3. mainSpans.seq \in 0..CoMaxId /\ \A k \in usedIds : k <= mainSpans.seq
      BY <2>2, <3>1, SMTT(30) DEF Tables
    <3>4. usedIds' = usedIds \cup {mainSpans.seq + 1}
      BY <3>1, <3>3, SMTT(30)
    <3> QED BY <1>12, <2>2, <3>1, <3>2, <3>3, <3>4, SMTT(30) DEF CoWrite
  <2> QED BY <1>12, <2>1, <2>2, ZenonT(60) DEF CoWrite
<1>13. ASSUME NEW i \in liveRows, CoDelete(i) PROVE CutoverSound'
  <2>1. CASE writer = "split"
    <3>1. /\ Tables(spansFile') /\ spansFile' # NoTables
          /\ spansFile'.rows = spansFile.rows \ {i} /\ spansFile'.seq = spansFile.seq
      <4>1. spansFile # NoTables /\ spansFile' = [spansFile EXCEPT !.rows = @ \ {i}]
        BY <1>13, <2>1, Zenon DEF CoDelete
      <4> QED BY <4>1, RowDeleted, ZenonT(60)
    <3> QED BY <1>13, <2>1, <3>1, ZenonT(60) DEF CoDelete
  <2>2. CASE writer = "single"
    <3>1. /\ Tables(mainSpans') /\ mainSpans' # NoTables
          /\ mainSpans'.rows = mainSpans.rows \ {i} /\ mainSpans'.seq = mainSpans.seq
      <4>1. mainSpans # NoTables /\ mainSpans' = [mainSpans EXCEPT !.rows = @ \ {i}]
        BY <1>13, <2>2, Zenon DEF CoDelete
      <4> QED BY <4>1, RowDeleted, ZenonT(60)
    <3> QED BY <1>13, <2>2, <3>1, ZenonT(60) DEF CoDelete
  <2> QED BY <1>13, <2>1, <2>2, ZenonT(60) DEF CoDelete
<1>14. CASE CliFinds
  BY <1>14, Zenon DEF CliFinds
<1>15. CASE CliRenames
  BY <1>15, Zenon DEF CliRenames
<1>16. CASE ReaderConnects
  BY <1>16, Zenon DEF ReaderConnects, SkipAttachment
<1>17. CASE UNCHANGED coVars
  BY <1>17, Zenon DEF coVars
<1> QED
  BY <1>1, <1>2, <1>3, <1>4, <1>5, <1>6, <1>7, <1>8, <1>9, <1>10, <1>11, <1>12, <1>13, <1>14, <1>15, <1>16, <1>17, ZenonT(60)
     DEF CoNext

\* At whatever step a cut-over stops, however often it is tried again, and
\* whoever finishes it (cutover.go, layout.go, attach.go), the three files, the
\* writer's stage and the readers' connections fit each other.
THEOREM CutoverInvariant == CoSpec => []CutoverSound
<1>1. CoInit => CutoverSound
  BY CoInitial, Zenon
<1>2. CutoverSound /\ [CoNext]_coVars => CutoverSound'
  BY CoInductive, Zenon
<1> QED BY <1>1, <1>2, PTL DEF CoSpec

\* The copy the next start goes by holds exactly the rows written and not
\* deleted, and no id is given out twice (cutOver, finishCutover).
THEOREM NothingLost == CoSpec => [](NothingLostInCutover /\ IdsGivenOnce)
<1>1. CutoverSound => NothingLostInCutover /\ IdsGivenOnce
  BY Zenon DEF CutoverSound, IdsInv
<1> QED BY <1>1, CutoverInvariant, PTL

\* A reader's connection serves the rows that count, whatever the writer did
\* since it was opened (OpenReadDB, skipAttachment).
THEOREM ReadersServed == CoSpec => []ReaderReadsAuthority
<1>1. CutoverSound => ReaderReadsAuthority
  BY Zenon DEF CutoverSound
<1> QED BY <1>1, CutoverInvariant, PTL

\* Main gives up tables with rows in one step only, dropMovedTables, and then
\* a finished copy has the same rows and the same id counter.
THEOREM CommitPoint ==
    CoSpec => [][mainSpans.rows # {} /\ mainSpans' = NoTables =>
                    /\ copyFile.done /\ UNCHANGED copyFile
                    /\ copyFile.rows = mainSpans.rows /\ copyFile.seq = mainSpans.seq]_coVars
<1> DEFINE A == mainSpans.rows # {} /\ mainSpans' = NoTables =>
                    /\ copyFile.done /\ UNCHANGED copyFile
                    /\ copyFile.rows = mainSpans.rows /\ copyFile.seq = mainSpans.seq
<1>1. ASSUME CutoverSound, [CoNext]_coVars PROVE A \/ UNCHANGED coVars
  <2> SUFFICES ASSUME mainSpans.rows # {}, mainSpans' = NoTables, CoNext PROVE A
    BY <1>1, Zenon
  <2>1. mainSpans # NoTables /\ Tables(mainSpans)
    BY <1>1, NewTables, Zenon DEF CutoverSound, CoTypeOK
  <2>2. CASE DropMovedTables
    BY <1>1, <2>2, Zenon DEF DropMovedTables, CutoverSound, StageInv
  <2>3. CASE MigrateMain
    BY <1>1, <2>1, <2>3, Zenon DEF MigrateMain, CutoverSound, StageInv, SplitLayout
  <2>4. CASE DropEmptyTables
    BY <2>4, Zenon DEF DropEmptyTables
  <2>5. CASE CoWrite
    <3>1. mainSpans.seq + 1 <= CoMaxId /\ mainSpans' = AddRow(mainSpans)
      BY <2>1, <2>5, Zenon DEF CoWrite
    <3> QED BY <2>1, <3>1, RowAdded, Zenon
  <2>6. ASSUME NEW i \in liveRows, CoDelete(i) PROVE FALSE
    <3>1. mainSpans' = [mainSpans EXCEPT !.rows = @ \ {i}]
      BY <2>1, <2>6, Zenon DEF CoDelete
    <3>2. [mainSpans EXCEPT !.rows = @ \ {i}] # NoTables
      BY <2>1, RowDeleted, Zenon
    <3> QED BY <3>1, <3>2, Zenon
  <2>7. ASSUME UNCHANGED mainSpans PROVE FALSE
    BY <2>1, <2>7, Zenon
  <2> QED
    BY <2>2, <2>3, <2>4, <2>5, <2>6, <2>7, ZenonT(60)
       DEF CoNext, StartSingle, HasRoom, CopyRows, MarkCopy, CutoverFails,
       CommitCutover, StartSplit, CoStop, CliFinds, CliRenames, ReaderConnects
<1>2. CutoverSound /\ [CoNext]_coVars => [A]_coVars
  BY <1>1, Zenon
<1> QED BY <1>2, CutoverInvariant, PTL DEF CoSpec
=============================================================================
