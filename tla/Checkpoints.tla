----------------------------- MODULE Checkpoints ----------------------------
(* The write-ahead log of one database file: the checkpoints that keep it    *)
(* short, and the readers they meet.                                         *)
(*                                                                           *)
(* The writer has one connection.  Every 30 s a checkpoint copies what it    *)
(* can beside the writes (PASSIVE, on a connection of its own) and then      *)
(* takes the writer's connection, turns its busy timeout off, runs TRUNCATE  *)
(* and puts the timeout back.  A reader makes TRUNCATE answer busy, and the  *)
(* checkpoint tries again later.  The file of an ended shard, and every file *)
(* on shutdown, get a last checkpoint on a context of their own.             *)
(*                                                                           *)
(* ckMode "recover" is the other end: a reader pod's connections while a     *)
(* restarted writer recovers the log under them.                             *)
(*                                                                           *)
(* What SQLite itself does (Copyable, TruncateWal, CkWrite, CkReaderBegins)  *)
(* is taken from how the code uses it.                                       *)
EXTENDS Integers, FiniteSets, FiniteSetsExt

CONSTANTS
    CkModes,        \* subset of {"periodic", "ended", "recover"}
    CkReaders,      \* read transactions that may be open at once
    CkMaxFrames,    \* bound on the frames written
    CkMaxReads,     \* bound on the read transactions begun
    CkMaxTime,      \* bound on the clock
    CkMaxFaults,    \* bound on failed statements
    EndedTries,     \* endedCheckpointAttempts
    BusyTimeout,    \* ticks a connection with a busy timeout waits for a lock
    BadConnTries    \* attempts database/sql makes before it gives up

ASSUME CheckpointAssumption ==
    /\ CkModes \subseteq {"periodic", "ended", "recover"}
    /\ {CkMaxFrames, CkMaxReads, CkMaxTime, CkMaxFaults, BusyTimeout} \subseteq Nat
    /\ EndedTries \in Nat \ {0} /\ BadConnTries \in Nat \ {0, 1}

VARIABLES
    ckMode,
    walLen,         \* frames in the log
    walCopied,      \* frames of it copied into the database file
    snaps,          \* reader -> frames its snapshot needs, 0 for the file alone, -1 for none
    holder,         \* who has the writer's connection: "pool" or "checkpoint"
    timeoutOn,      \* the connection's busy timeout
    halfOff,        \* it was turned off by a statement that reported an error, and not restored since (history)
    ckStep,         \* where the checkpoint is
    ckCaller,       \* who runs it: "periodic", "ended" or "final"
    ckCancelled,    \* the context of the periodic or ended checkpoint is done
    ckErr,          \* the attempt in hand failed
    ckBusy,         \* the attempt in hand met a reader
    heldTicks,      \* ticks the checkpoint has had the connection
    freed,          \* the file has freed pages for the vacuum to move
    endedTry,       \* attempts made on the ended shard
    ckTime, ckFrames, ckReads, ckFaults,
    clean,          \* neither a reader nor an error kept this attempt's backfill from copying all
    written,        \* frames written since it
    ckCause,        \* what the ended shard's checkpoint reports
    vacuumed,       \* the last thing written was the vacuum's
    finalSaw,       \* what the final checkpoint met: "nothing", "reader", "fault" or not yet run
    recovering,     \* another process is recovering the log
    pooled,         \* the reader pod's idle connection: "none", "good" or "stuck"
    query           \* the reader pod's statement: step, tries, begun after recovery

walVars == <<walLen, walCopied, snaps, freed>>
connVars == <<holder, timeoutOn, halfOff, heldTicks>>
attemptVars == <<ckStep, ckCaller, ckErr, ckBusy>>
ckBounds == <<ckTime, ckFrames, ckReads, ckFaults>>
ckHistory == <<clean, written, ckCause, vacuumed, finalSaw, endedTry>>
recoverVars == <<recovering, pooled, query>>
ckVars == <<ckMode, walVars, connVars, attemptVars, ckCancelled, ckBounds, ckHistory, recoverVars>>

NoQuery == [step |-> "idle", tries |-> 0, clear |-> FALSE]
CkFault == ckFaults < CkMaxFaults /\ ckFaults' = ckFaults + 1
OneFile == ckMode # "recover"

-----------------------------------------------------------------------------
(* SQLite. *)

Open == {r \in CkReaders : snaps[r] >= 0}
InWal == {r \in CkReaders : snaps[r] > 0}

\* How far the log can be copied: not past a snapshot that still reads the
\* file below it.
Copyable ==
    IF \E r \in Open : snaps[r] = 0 THEN walCopied
    ELSE Max({walCopied, Min({walLen} \cup {snaps[r] : r \in InWal})})

\* The log can be cut to nothing once all is copied and nobody reads from it.
Cuttable == Copyable = walLen /\ InWal = {}

\* A write transaction through the pool adds a frame, at the start of the log
\* when all of it is copied and unread.
CkWrite ==
    /\ OneFile /\ holder = "pool" /\ finalSaw = "none" /\ ckCaller = "periodic"
    /\ ckFrames < CkMaxFrames
    /\ IF walLen > 0 /\ walCopied = walLen /\ InWal = {}
         THEN walLen' = 1 /\ walCopied' = 0
         ELSE walLen' = walLen + 1 /\ UNCHANGED walCopied
    /\ ckFrames' = ckFrames + 1
    /\ written' = written + 1 /\ vacuumed' = FALSE
    /\ UNCHANGED <<ckMode, snaps, freed, connVars, attemptVars, ckCancelled, ckTime, ckReads, ckFaults,
                   clean, ckCause, finalSaw, endedTry, recoverVars>>

\* A read transaction takes its snapshot: of the file alone when the log is
\* copied whole.
CkReaderBegins ==
    /\ OneFile /\ ckReads < CkMaxReads
    /\ \E r \in CkReaders \ Open :
         snaps' = [snaps EXCEPT ![r] = IF walCopied = walLen THEN 0 ELSE walLen]
    /\ ckReads' = ckReads + 1
    /\ UNCHANGED <<ckMode, walLen, walCopied, freed, connVars, attemptVars, ckCancelled, ckTime, ckFrames, ckFaults,
                   ckHistory, recoverVars>>

CkReaderEnds ==
    /\ \E r \in Open : snaps' = [snaps EXCEPT ![r] = -1]
    /\ UNCHANGED <<ckMode, walLen, walCopied, freed, connVars, attemptVars, ckCancelled, ckBounds, ckHistory, recoverVars>>

-----------------------------------------------------------------------------
(* One checkpoint. *)

\* The context the caller's statements run under is done.  FinalAttempt
\* has a context of its own.
ContextDone == ckCancelled /\ ckCaller # "final"

\* Mutant: the backfill runs before the first attempt only.
FirstStep_NoBackfill(again) == IF ckCaller = "periodic" /\ ~again THEN "backfill" ELSE "conn"

\* checkpointWith runs the backfill ahead of every attempt of the periodic
\* checkpoint; the others have none.
FirstStep(again) == IF ckCaller = "periodic" THEN "backfill" ELSE "conn"

BeginAttempt(again) ==
    /\ ckStep' = FirstStep(again)
    /\ ckErr' = FALSE /\ ckBusy' = FALSE
    /\ clean' = (ckCaller = "periodic") /\ written' = 0
    /\ UNCHANGED <<ckCaller, ckCause, vacuumed, finalSaw>>

\* The ticker of RunPeriodicCheckpoint.
PeriodicBegins ==
    /\ ckMode = "periodic" /\ ckStep = "idle" /\ ckCaller # "final"
    /\ ~ckCancelled /\ walLen > 0
    /\ BeginAttempt(FALSE)
    /\ UNCHANGED <<ckMode, walVars, connVars, ckCancelled, ckBounds, endedTry, recoverVars>>

\* The ended shard's finalCheckpoint: an attempt under a budget of its own, the
\* first or one more after an attempt that left the log in place.
EndedBegins ==
    /\ ckMode = "ended" /\ ckStep = "idle"
    /\ ckCause # "reset" /\ endedTry < EndedTries
    /\ endedTry' = endedTry + 1 /\ ckCancelled' = FALSE
    /\ BeginAttempt(FALSE)
    /\ UNCHANGED <<ckMode, walVars, connVars, ckBounds, recoverVars>>

\* backfill: PASSIVE copies what it can beside the writes; an error is logged
\* and the attempt goes on.
Backfill ==
    /\ ckStep = "backfill"
    /\ \/ /\ ~ContextDone
          /\ walCopied' = Copyable
          /\ clean' = (Copyable = walLen) /\ written' = 0
          /\ UNCHANGED ckFaults
       \/ /\ ContextDone \/ ckFaults < CkMaxFaults
          /\ ckFaults' = ckFaults + (IF ContextDone THEN 0 ELSE 1)
          /\ clean' = FALSE /\ UNCHANGED <<walCopied, written>>
    /\ ckStep' = "conn"
    /\ UNCHANGED <<ckMode, walLen, snaps, freed, connVars, ckCaller, ckErr, ckBusy, ckCancelled, ckTime, ckFrames, ckReads,
                   ckCause, vacuumed, finalSaw, endedTry, recoverVars>>

\* What the callers make of the result.
AttemptEnds(frames) ==
    /\ ckStep' = "idle" /\ UNCHANGED ckCaller
    /\ ckCause' = IF ckCaller = "ended"
                    THEN CASE frames = 0 -> "reset"
                           [] frames > 0 -> "busy"
                           [] frames < 0 /\ ContextDone -> "timeout"
                           [] OTHER -> "error"
                    ELSE ckCause
    /\ finalSaw' = IF ckCaller = "final"
                     THEN (IF frames = 0 THEN "nothing" ELSE IF frames > 0 THEN "reader" ELSE "fault")
                     ELSE finalSaw

\* checkpointOnce takes the writer's connection from the pool; a done context
\* ends the checkpoint here.
TakeConn ==
    /\ ckStep = "conn" /\ holder = "pool"
    /\ IF ContextDone
         THEN AttemptEnds(-1) /\ UNCHANGED <<holder, heldTicks>>
         ELSE /\ holder' = "checkpoint" /\ heldTicks' = 0
              /\ ckStep' = "off" /\ UNCHANGED <<ckCaller, ckCause, finalSaw>>
    /\ UNCHANGED <<ckMode, walVars, timeoutOn, halfOff, ckErr, ckBusy, ckCancelled, ckBounds, clean, written, vacuumed, endedTry,
                   recoverVars>>

\* Mutant: the attempt leaves the busy timeout as it is.
TimeoutWhileHeld_On == TRUE

\* The busy timeout TRUNCATE runs under.
TimeoutWhileHeld == FALSE

\* busy_timeout goes to 0.  When that reports an error the connection goes back
\* to the pool and nothing is restored, whether or not the timeout is off by
\* then: the restore is deferred only after the statement has succeeded.
TimeoutOff ==
    /\ ckStep = "off"
    /\ \/ /\ timeoutOn' = TimeoutWhileHeld /\ ckStep' = "truncate"
          /\ UNCHANGED <<holder, halfOff, ckFaults, ckCaller, ckCause, finalSaw>>
       \/ /\ ContextDone \/ ckFaults < CkMaxFaults
          /\ ckFaults' = ckFaults + (IF ContextDone THEN 0 ELSE 1)
          /\ holder' = "pool" /\ AttemptEnds(-1)
          /\ \/ UNCHANGED <<timeoutOn, halfOff>>
             \/ timeoutOn' = FALSE /\ halfOff' = TRUE
    /\ UNCHANGED <<ckMode, walVars, heldTicks, ckErr, ckBusy, ckCancelled, ckTime, ckFrames, ckReads,
                   clean, written, vacuumed, endedTry, recoverVars>>

\* TRUNCATE copies what it can and cuts the log when nobody reads from it; a
\* reader in the way makes it wait for the busy timeout and then answer busy.
TruncateWal ==
    /\ ckStep = "truncate"
    /\ Cuttable \/ ~timeoutOn \/ heldTicks >= BusyTimeout
    /\ ckBusy' = ~Cuttable
    /\ IF Cuttable THEN walLen' = 0 /\ walCopied' = 0
       ELSE walCopied' = Copyable /\ UNCHANGED walLen
    /\ ckStep' = "restore"
    /\ UNCHANGED <<ckMode, snaps, freed, connVars, ckCaller, ckErr, ckCancelled, ckBounds, ckHistory, recoverVars>>

TruncateFails ==
    /\ ckStep = "truncate"
    /\ ContextDone \/ ckFaults < CkMaxFaults
    /\ ckFaults' = ckFaults + (IF ContextDone THEN 0 ELSE 1)
    /\ ckErr' = TRUE
    /\ ckStep' = "restore"
    /\ UNCHANGED <<ckMode, walVars, connVars, ckCaller, ckBusy, ckCancelled, ckTime, ckFrames, ckReads, ckHistory, recoverVars>>

\* Mutant: the restore runs under the checkpoint's context.
RestoreRuns_Context == ~ContextDone

\* The restore runs under a context of its own.
RestoreRuns == TRUE

\* busy_timeout is put back, or the connection dropped from the pool and a new
\* one opened with it; then the attempt's result decides: an error ends the
\* checkpoint, a reset is followed by the incremental vacuum, and busy is tried
\* again, or reported by a caller that does not retry.
RestoreTimeout ==
    /\ ckStep = "restore"
    /\ \/ /\ UNCHANGED ckFaults
          /\ \/ /\ ckErr /\ AttemptEnds(-1)
             \/ /\ ~ckErr /\ ~ckBusy
                /\ ckStep' = "vacuum" /\ UNCHANGED <<ckCaller, ckCause, finalSaw>>
             \/ /\ ~ckErr /\ ckBusy /\ ckCaller = "final" /\ AttemptEnds(walLen)
             \/ /\ ~ckErr /\ ckBusy /\ ckCaller # "final"
                /\ ckStep' = "sleep" /\ UNCHANGED <<ckCaller, ckCause, finalSaw>>
       \* the restore failed: the connection is dropped, the attempt an error
       \/ CkFault /\ AttemptEnds(-1)
    /\ timeoutOn' = (timeoutOn \/ RestoreRuns) /\ halfOff' = (halfOff /\ ~RestoreRuns)
    /\ holder' = "pool"
    /\ UNCHANGED <<ckMode, walVars, heldTicks, ckErr, ckBusy, ckCancelled, ckTime, ckFrames, ckReads,
                   clean, written, vacuumed, endedTry, recoverVars>>

\* vacuumFreed takes the connection once more; its errors are dropped, and the
\* freed pages it moves go through the log that was just cut.
VacuumFreed ==
    /\ ckStep = "vacuum" /\ holder = "pool"
    /\ IF freed /\ ~ContextDone
         THEN walLen' = walLen + 1 /\ freed' = FALSE /\ vacuumed' = TRUE
         ELSE UNCHANGED <<walLen, freed, vacuumed>>
    /\ AttemptEnds(0)
    /\ UNCHANGED <<ckMode, walCopied, snaps, connVars, ckErr, ckBusy, ckCancelled, ckBounds, clean, written, endedTry, recoverVars>>

\* The pause between attempts, with the connection back in the pool.
Retry ==
    /\ ckStep = "sleep"
    /\ IF ContextDone
         THEN AttemptEnds(walLen) /\ UNCHANGED <<ckErr, ckBusy, clean, written, vacuumed>>
         ELSE BeginAttempt(TRUE)
    /\ UNCHANGED <<ckMode, walVars, connVars, ckCancelled, ckBounds, endedTry, recoverVars>>

-----------------------------------------------------------------------------
(* Stopping. *)

\* The pod is told to stop, or the budget of an ended shard runs out.
Cancel ==
    /\ OneFile /\ ~ckCancelled /\ ckCaller # "final"
    /\ ckMode = "ended" => ckStep # "idle"
    /\ ckCancelled' = TRUE
    /\ UNCHANGED <<ckMode, walVars, connVars, attemptVars, ckBounds, ckHistory, recoverVars>>

\* Mutant: the last checkpoint runs under the context that is done.
FinalCaller_Periodic == "periodic"

\* FinalAttempt makes one attempt on a fresh context, once every writer and
\* the periodic checkpoint have returned.
FinalCaller == "final"

FinalAttempt ==
    /\ ckMode = "periodic" /\ ckCancelled /\ ckStep = "idle" /\ finalSaw = "none" /\ ckCaller = "periodic"
    /\ ckCaller' = FinalCaller
    /\ ckStep' = "conn" /\ ckErr' = FALSE /\ ckBusy' = FALSE
    /\ finalSaw' = "running"
    /\ clean' = FALSE /\ written' = 0
    /\ UNCHANGED <<ckMode, walVars, connVars, ckCancelled, ckBounds, ckCause, vacuumed, endedTry, recoverVars>>

\* Time passes.  A checkpoint that can go on with the connection in hand does
\* so within a tick.
CkClock ==
    /\ OneFile /\ ckTime < CkMaxTime
    /\ holder = "checkpoint" =>
         heldTicks = 0 \/ (ckStep = "truncate" /\ timeoutOn /\ ~Cuttable /\ heldTicks < BusyTimeout)
    /\ ckTime' = ckTime + 1
    /\ heldTicks' = IF holder = "checkpoint" THEN heldTicks + 1 ELSE heldTicks
    /\ UNCHANGED <<ckMode, walVars, holder, timeoutOn, halfOff, attemptVars, ckCancelled, ckFrames, ckReads, ckFaults, ckHistory,
                   recoverVars>>

-----------------------------------------------------------------------------
(* A reader pod while the writer's log is recovered. *)

\* A restarted writer begins, and ends, the recovery of the log.
RecoveryChanges ==
    /\ ckMode = "recover"
    /\ \/ ~recovering /\ CkFault /\ recovering' = TRUE
       \/ recovering /\ recovering' = FALSE /\ UNCHANGED ckFaults
    /\ UNCHANGED <<ckMode, walVars, connVars, attemptVars, ckCancelled, ckTime, ckFrames, ckReads, ckHistory, pooled, query>>

QueryBegins ==
    /\ ckMode = "recover" /\ query.step # "running" /\ ckReads < CkMaxReads
    /\ query' = [step |-> "running", tries |-> 0, clear |-> ~recovering]
    /\ ckReads' = ckReads + 1
    /\ UNCHANGED <<ckMode, walVars, connVars, attemptVars, ckCancelled, ckTime, ckFrames, ckFaults, ckHistory, recovering, pooled>>

\* Mutant: the error is passed on and the connection goes back to the pool.
RecoverErr_Passed == [conn |-> "stuck", again |-> FALSE]

\* recoverErr: the connection that saw the recovery is dropped and the
\* statement made again on another.
RecoverErr == [conn |-> "none", again |-> TRUE]

\* One attempt of the statement, on the idle connection or a new one.  During
\* recovery it fails, and the connection keeps failing after it.
QueryRuns ==
    /\ query.step = "running"
    /\ IF ~recovering /\ pooled # "stuck"
         THEN pooled' = "good" /\ query' = [query EXCEPT !.step = "served"]
         ELSE /\ pooled' = RecoverErr.conn
              /\ query' = [query EXCEPT !.step = IF RecoverErr.again /\ query.tries + 1 < BadConnTries THEN "running" ELSE "failed",
                                        !.tries = @ + 1,
                                        !.clear = @ /\ ~recovering]
    /\ UNCHANGED <<ckMode, walVars, connVars, attemptVars, ckCancelled, ckBounds, ckHistory, recovering>>

\* The request is given up while recoverErr waits: the error goes back as it
\* is, and the connection stays in the pool.
QueryCancelled ==
    /\ query.step = "running" /\ (recovering \/ pooled = "stuck")
    /\ pooled' = "stuck"
    /\ query' = [query EXCEPT !.step = "cancelled"]
    /\ UNCHANGED <<ckMode, walVars, connVars, attemptVars, ckCancelled, ckBounds, ckHistory, recovering>>

-----------------------------------------------------------------------------
CkInit ==
    /\ ckMode \in CkModes
    /\ walLen = (IF ckMode = "ended" THEN 1 ELSE 0) /\ walCopied = 0
    /\ snaps = [r \in CkReaders |-> -1]
    /\ holder = "pool" /\ timeoutOn = TRUE /\ halfOff = FALSE /\ heldTicks = 0
    /\ ckStep = "idle" /\ ckCaller = (IF ckMode = "ended" THEN "ended" ELSE "periodic")
    /\ ckErr = FALSE /\ ckBusy = FALSE /\ ckCancelled = FALSE
    /\ ckTime = 0 /\ ckFrames = 0 /\ ckReads = 0 /\ ckFaults = 0
    /\ clean = FALSE /\ written = 0 /\ vacuumed = FALSE /\ endedTry = 0
    /\ freed \in IF OneFile THEN BOOLEAN ELSE {FALSE}
    /\ ckCause = "none" /\ finalSaw = "none"
    /\ recovering = FALSE /\ pooled = "none" /\ query = NoQuery

CkNext ==
    \/ CkWrite \/ CkReaderBegins \/ CkReaderEnds
    \/ PeriodicBegins \/ EndedBegins \/ Backfill \/ TakeConn \/ TimeoutOff \/ TruncateWal \/ TruncateFails
    \/ RestoreTimeout \/ VacuumFreed \/ Retry
    \/ Cancel \/ FinalAttempt \/ CkClock
    \/ RecoveryChanges \/ QueryBegins \/ QueryRuns \/ QueryCancelled

CkSpec == CkInit /\ [][CkNext]_ckVars

-----------------------------------------------------------------------------
CkFlags ==
    /\ timeoutOn \in BOOLEAN /\ halfOff \in BOOLEAN /\ ckCancelled \in BOOLEAN /\ ckErr \in BOOLEAN /\ ckBusy \in BOOLEAN
    /\ freed \in BOOLEAN /\ clean \in BOOLEAN /\ vacuumed \in BOOLEAN /\ recovering \in BOOLEAN

CkTypeOK ==
    /\ ckMode \in CkModes
    /\ walLen \in Nat /\ walCopied \in 0 .. walLen
    /\ DOMAIN snaps = CkReaders /\ \A r \in CkReaders : snaps[r] \in -1 .. walLen
    /\ holder \in {"pool", "checkpoint"} /\ heldTicks \in Nat
    /\ ckStep \in {"idle", "backfill", "conn", "off", "truncate", "restore", "vacuum", "sleep"}
    /\ holder = "checkpoint" <=> ckStep \in {"off", "truncate", "restore"}
    /\ ckCaller \in {"periodic", "ended", "final"}
    /\ ckTime \in Nat /\ ckFrames \in Nat /\ ckReads \in Nat /\ ckFaults \in Nat
    /\ written \in Nat /\ endedTry \in Nat
    /\ ckCause \in {"none", "reset", "busy", "timeout", "error"}
    /\ finalSaw \in {"none", "running", "nothing", "reader", "fault"}
    /\ pooled \in {"none", "good", "stuck"}
    /\ query \in [step : {"idle", "running", "served", "failed", "cancelled"}, tries : Nat, clear : BOOLEAN]

(* A checkpoint never keeps the writer's connection while it waits for a     *)
(* reader: whoever reads, and for however long, the writes wait at most the  *)
(* one tick a TRUNCATE itself may take.                                      *)
WriterHeldBriefly == heldTicks <= 1

(* Whenever the writer's connection is in the pool its busy timeout is on,   *)
(* whether the TRUNCATE before it succeeded, met a reader, failed or was     *)
(* cancelled, and whether or not the restore itself worked.  The exception:  *)
(* a statement that turned it off and still reported an error, which leaves  *)
(* the pool a connection without a timeout, until the restore of the next    *)
(* attempt that gets as far as TRUNCATE.                                     *)
TimeoutRestored == holder = "pool" => timeoutOn \/ halfOff

(* What is left for TRUNCATE to copy, with the writes waiting, is only what  *)
(* was written since this attempt's backfill, on the first attempt and on    *)
(* every retry, unless a reader or an error stopped that backfill short.     *)
BackfilledFirst == ckStep = "truncate" /\ clean => walLen - walCopied <= written

(* After a clean shutdown, or the close of an ended shard, that reports no   *)
(* trouble, nothing anyone wrote is left in the log: at most the pages the   *)
(* vacuum moved.  The attempt on shutdown is not stopped by the context of   *)
(* the writers, which is done by then: it fails only when a statement does.  *)
FinalMerges ==
    /\ finalSaw = "nothing" \/ ckCause = "reset" => walLen = 0 \/ (vacuumed /\ walLen = 1)
    /\ finalSaw = "fault" \/ ckCause = "error" => ckFaults > 0
    /\ finalSaw = "running" => ckStep # "idle"

(* A reader pod's statement that begins when no recovery runs, and meets     *)
(* none, is served: a recovery that is over leaves no connection behind that *)
(* keeps failing.                                                            *)
RecoveredServes == query.step = "failed" => ~query.clear

\* The busy timeout is off between the statement that turns it off and the
\* restore, and after such a statement that reported an error; TRUNCATE runs
\* only while it is off.
TimeoutInv ==
    /\ WriterHeldBriefly
    /\ TimeoutRestored
    /\ ckStep = "off" => timeoutOn \/ halfOff
    /\ ckStep = "truncate" => ~timeoutOn

\* From a backfill that copied all to the TRUNCATE, only writes add frames.
BackfillInv ==
    ckStep \in {"conn", "off", "truncate"} /\ clean => walLen - walCopied <= written

\* An attempt holds no error before its TRUNCATE, and one it holds afterwards
\* has a cause; the log of a file nobody writes to stays empty from its
\* TRUNCATE to the vacuum; an attempt that has reported is over.
MergeInv ==
    /\ FinalMerges
    /\ ckStep \in {"backfill", "conn", "off", "truncate"} => ~ckErr
    /\ ckStep = "restore" /\ ckErr => ckFaults > 0 \/ ContextDone
    /\ ckStep = "vacuum" \/ (ckStep = "restore" /\ ~ckErr /\ ~ckBusy) =>
         walLen = 0 \/ ckCaller = "periodic"
    /\ ckMode = "ended" <=> ckCaller = "ended"
    /\ finalSaw = "none" <=> ckCaller # "final"
    /\ finalSaw \in {"nothing", "reader", "fault"} \/ ckCause = "reset" => ckStep = "idle"
    /\ ckCause # "none" => ckCaller = "ended"

\* A statement on its second attempt has no pooled connection to meet.
QueryInv ==
    /\ RecoveredServes
    /\ query.step = "running" /\ query.tries > 0 => pooled = "none"

\* A checkpoint never harms the writer, and a query survives stuck connections
\* (checkpointOnce and its callers in db.go, recoverErr in recover.go): the
\* five properties, with what makes them inductive.
CheckpointsSound ==
    /\ CkTypeOK /\ CkFlags
    /\ TimeoutInv
    /\ BackfillInv
    /\ MergeInv
    /\ QueryInv
=============================================================================
