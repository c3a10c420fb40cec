--------------------------- MODULE SpoolForwarder ---------------------------
(***************************************************************************)
(* The reader's side of span delivery: the ingest queue and its flush      *)
(* (internal/ingest queue.go, handler.go), the NDJSON spool with rotation  *)
(* (internal/spool) and the forwarder that publishes it to Redis           *)
(* (internal/forward, RedisForwarder), up to the shutdown of the pod.      *)
(*                                                                         *)
(* Every line of the spool counts as one byte, so a cursor is a number of  *)
(* lines.  Records are numbered in the order the handler takes them in.    *)
(***************************************************************************)
EXTENDS SequencesExt

CONSTANTS
    NumRecords,  \* records offered to the handler
    QueueCap,    \* capacity of the ingest queue
    MaxBytes,    \* size at which the spool rotates
    BatchSize,   \* records per published batch
    Faults,      \* what may go wrong: a subset of AllFaults
    MaxCrashes,  \* bound on the crashes of the reader process
    MaxUnknown,  \* bound on what Redis holds when it stores another unanswered batch
    NoFile       \* there is no spool.ndjson.old

AllFaults == {"outage",   \* Publish fails, nothing is stored
              "unknown",  \* Publish fails although Redis stored the batch
              "full",     \* Redis is at maxmemory
              "write",    \* a spool write fails, the line torn or absent
              "rotate",   \* rotate fails after it has closed the file
              "save"}     \* the cursor file cannot be written

ASSUME SpoolAssumption ==
    /\ {NumRecords, QueueCap, MaxBytes, BatchSize} \subseteq Nat \ {0}
    /\ MaxCrashes \in Nat /\ MaxUnknown \in Nat
    /\ Faults \subseteq AllFaults

Records == 1..NumRecords
Junk == 0  \* a line that does not decode

VARIABLES
    offered,   \* records offered to Enqueue so far
    queue,     \* the ingest queue
    cur, old,  \* the spool files, as sequences of lines; NoFile for no .old
    size,      \* Spool.size
    torn,      \* cur ends in a fragment without a newline
    closed,    \* Spool.file was closed and not opened again
    saved,     \* the cursor file
    cursor,    \* the forwarder's cursor
    fwd,       \* where the forwarder is
    batch,     \* the batch it publishes, and the cursor after it
    next,
    phase,     \* of the reader process
    crashes,
    redis,     \* the batches in Redis, concatenated           (history)
    lost,      \* records given up with an error or a log line (history)
    unsure,    \* the forwarder may have to publish twice      (history)
    stale      \* a cursor outlived the file it points into    (history)

spoolVars == <<cur, old, size, torn, closed>>
fwdVars == <<cursor, fwd, batch, next>>
vars == <<offered, queue, spoolVars, saved, fwdVars, phase, crashes, redis, lost, unsure, stale>>

Init ==
    /\ offered = 0 /\ queue = <<>>
    /\ cur = <<>> /\ old = NoFile /\ size = 0 /\ torn = FALSE /\ closed = FALSE
    /\ saved = 0 /\ cursor = 0 /\ fwd = "idle" /\ batch = <<>> /\ next = 0
    /\ phase = "running" /\ crashes = 0
    /\ redis = <<>> /\ lost = {} /\ unsure = FALSE /\ stale = "no"

-----------------------------------------------------------------------------
(* The ingest queue and the handler's flush. *)

\* Mutant: the queue grows past its capacity.
Enqueue_NoCap ==
    /\ phase = "running"
    /\ offered < NumRecords
    /\ offered' = offered + 1
    /\ queue' = Append(queue, offered')
    /\ UNCHANGED <<spoolVars, saved, fwdVars, phase, crashes, redis, lost, unsure, stale>>

\* A full queue drops the record and says so.
Enqueue ==
    /\ phase = "running"
    /\ offered < NumRecords
    /\ offered' = offered + 1
    /\ \/ /\ Len(queue) < QueueCap
          /\ queue' = Append(queue, offered')
          /\ UNCHANGED lost
       \/ /\ Len(queue) >= QueueCap
          /\ lost' = lost \cup {offered'}
          /\ UNCHANGED queue
    /\ UNCHANGED <<spoolVars, saved, fwdVars, phase, crashes, redis, unsure, stale>>

\* The lines that records add: a fragment makes the first of them undecodable.
Lines(recs) == IF torn /\ recs # <<>> THEN <<Junk>> \o Tail(recs) ELSE recs
Swallowed(recs) == IF torn /\ recs # <<>> THEN {Head(recs)} ELSE {}

\* rotate: an .old that is still there stays, and the newer file is emptied.
\* Its rename or its open may fail once the file is closed.
Rotate(file) ==
    \/ /\ old = NoFile
       /\ old' = file /\ cur' = <<>> /\ size' = 0
       /\ lost' = lost \cup Swallowed(queue)
       /\ UNCHANGED closed
    \/ /\ old # NoFile
       /\ cur' = <<>> /\ size' = 0
       /\ lost' = lost \cup Swallowed(queue) \cup (Range(file) \ {Junk})
       /\ UNCHANGED <<old, closed>>
    \/ /\ "rotate" \in Faults
       /\ \/ cur' = file /\ UNCHANGED old
          \/ old = NoFile /\ old' = file /\ cur' = <<>>
       /\ size' = size + Len(queue) /\ closed' = TRUE
       /\ lost' = lost \cup Swallowed(queue)

\* flush: Drain empties the queue, and Write appends what it held.
Flush ==
    /\ queue # <<>> /\ phase \in {"running", "stopping"} /\ ~closed
    /\ LET file == cur \o Lines(queue)
       IN  IF size + Len(queue) >= MaxBytes
           THEN Rotate(file)
           ELSE /\ cur' = file /\ size' = size + Len(queue)
                /\ lost' = lost \cup Swallowed(queue)
                /\ UNCHANGED <<old, closed>>
    /\ torn' = FALSE
    /\ queue' = <<>>
    /\ UNCHANGED <<offered, saved, fwdVars, phase, crashes, redis, unsure, stale>>

\* Write fails at some record: the ones before it are in the file, the rest are
\* gone with the queue, and the file is not rotated.
FlushFails ==
    /\ queue # <<>> /\ phase \in {"running", "stopping"}
    /\ closed \/ "write" \in Faults
    /\ \E n \in 0..(Len(queue) - 1), fragment \in BOOLEAN :
          /\ closed => n = 0 /\ ~fragment
          /\ LET written == SubSeq(queue, 1, n)
             IN  /\ cur' = cur \o Lines(written)
                 /\ lost' = lost \cup Swallowed(written) \cup Range(SubSeq(queue, n + 1, Len(queue)))
          /\ size' = size + n
          /\ torn' = (fragment \/ (torn /\ n = 0))
    /\ queue' = <<>>
    /\ UNCHANGED <<offered, old, closed, saved, fwdVars, phase, crashes, redis, unsure, stale>>

-----------------------------------------------------------------------------
(* Spool.Read. *)

Decodable(file, from, to) == SelectSeq(SubSeq(file, from + 1, to), LAMBDA l : l # Junk)

\* Where readFile stops: at the record that fills the batch, or at the end.
StopAt(file, c) ==
    LET full == {p \in c..Len(file) : Len(Decodable(file, c, p)) = BatchSize}
    IN  IF full = {} THEN Max({c, Len(file)}) ELSE Min(full)

\* Mutant: a line that does not decode stops the read in front of it.
ReadFile_Stalls(file, c) ==
    LET junk == {p \in (c + 1)..Len(file) : file[p] = Junk}
        p == IF junk = {} THEN StopAt(file, c) ELSE Min({Min(junk) - 1, StopAt(file, c)})
    IN  [records |-> Decodable(file, c, p), next |-> p]

ReadFile(file, c) ==
    LET p == StopAt(file, c) IN [records |-> Decodable(file, c, p), next |-> p]

\* The rotated file is finished first and removed once it has nothing left.  A
\* cursor beyond the current file points into one that is gone.
OldHasMore == old # NoFile /\ ReadFile(old, cursor).records # <<>>
CurCursor == IF old # NoFile \/ cursor > Len(cur) THEN 0 ELSE cursor
Read == IF OldHasMore THEN ReadFile(old, cursor) ELSE ReadFile(cur, CurCursor)

-----------------------------------------------------------------------------
(* RedisForwarder: Run, and Drain at shutdown.  Both call forwardBatch. *)

\* A cursor into a finished file is "next" in line to be replaced when the
\* removal of that file comes with a batch to publish.  If it stays, the next
\* Read takes it for one into the file that is there now.
Stays == IF stale = "next" THEN "yes" ELSE stale

Forwarding == phase \in {"running", "stopping", "draining"}

\* Mutant: the finished .old is left in place when the read goes on to the
\* current file.
ForwardRead_KeepsOld ==
    /\ Forwarding /\ fwd = "idle"
    /\ Read.records # <<>>
    /\ batch' = Read.records /\ next' = Read.next
    /\ fwd' = "publishing"
    /\ UNCHANGED <<offered, queue, spoolVars, saved, cursor, phase, crashes, redis, lost, unsure, stale>>

\* Read, with something to publish.
ForwardRead ==
    /\ Forwarding /\ fwd = "idle"
    /\ Read.records # <<>>
    /\ batch' = Read.records /\ next' = Read.next
    /\ old' = IF OldHasMore THEN old ELSE NoFile
    /\ fwd' = "publishing"
    /\ stale' = IF old' # old /\ cursor > 0 /\ stale = "no" THEN "next" ELSE stale
    /\ UNCHANGED <<offered, queue, cur, size, torn, closed, saved, cursor, phase, crashes, redis,
                   lost, unsure>>

\* Read, with nothing to publish: the cursor stays where it was, also when the
\* file it points into has just been removed.  Drain is done.
ForwardNothing ==
    /\ Forwarding /\ fwd = "idle"
    /\ Read.records = <<>>
    /\ old' = NoFile
    /\ phase' = IF phase = "draining" THEN "drained" ELSE phase
    /\ stale' = IF old' # old /\ cursor > 0 THEN "yes" ELSE stale
    /\ UNCHANGED <<offered, queue, cur, size, torn, closed, saved, fwdVars, crashes, redis, lost,
                   unsure>>

Publish ==
    /\ fwd = "publishing"
    /\ redis' = redis \o batch
    /\ fwd' = "saving"
    /\ UNCHANGED <<offered, queue, spoolVars, saved, cursor, batch, next, phase, crashes, lost,
                   unsure, stale>>

\* Redis is full: the batch is dropped and counted, and the cursor moves on.
PublishFull ==
    /\ fwd = "publishing" /\ "full" \in Faults
    /\ lost' = lost \cup Range(batch)
    /\ fwd' = "saving"
    /\ UNCHANGED <<offered, queue, spoolVars, saved, cursor, batch, next, phase, crashes, redis,
                   unsure, stale>>

\* Any other error: the cursor stays.  Drain returns it, and what is left in
\* the spool goes with the pod.  Stopping Run interrupts its publish, and the
\* batch may be in Redis all the same.
Interrupted == phase = "halting"

\* Mutant: the cursor moves on whatever the error.
PublishFails_Advances ==
    /\ fwd = "publishing"
    /\ "outage" \in Faults \/ Interrupted
    /\ fwd' = "saving"
    /\ UNCHANGED <<offered, queue, spoolVars, saved, cursor, batch, next, phase, crashes, redis,
                   lost, unsure, stale>>

PublishFails ==
    /\ fwd = "publishing"
    /\ \/ /\ "outage" \in Faults \/ Interrupted
          /\ UNCHANGED <<redis, unsure>>
       \/ /\ Interrupted \/ ("unknown" \in Faults /\ Len(redis) <= MaxUnknown)
          /\ redis' = redis \o batch /\ unsure' = TRUE
    /\ fwd' = "idle"
    /\ phase' = IF phase = "draining" THEN "abandoned" ELSE phase
    /\ stale' = Stays
    /\ UNCHANGED <<offered, queue, spoolVars, saved, cursor, batch, next, crashes, lost>>

SaveCursor ==
    /\ fwd = "saving"
    /\ cursor' = next
    /\ fwd' = "idle"
    /\ \/ /\ saved' = next
          /\ stale' = IF stale = "next" THEN "no" ELSE stale
          /\ UNCHANGED unsure
       \/ /\ "save" \in Faults
          /\ unsure' = TRUE /\ stale' = Stays
          /\ UNCHANGED saved
    /\ UNCHANGED <<offered, queue, spoolVars, batch, next, phase, crashes, redis, lost>>

-----------------------------------------------------------------------------
(* The process. *)

\* Mutant: Handler.Stop ends its loop without the last flush.
Stop_NoFlush ==
    /\ phase = "running"
    /\ phase' = "halting"
    /\ UNCHANGED <<offered, queue, spoolVars, saved, fwdVars, crashes, redis, lost, unsure, stale>>

\* The shutdown: nothing is enqueued any more, Handler.Stop flushes, then Run
\* is stopped.
Stop ==
    /\ phase = "running"
    /\ phase' = "stopping"
    /\ UNCHANGED <<offered, queue, spoolVars, saved, fwdVars, crashes, redis, lost, unsure, stale>>

\* Run's context ends.
StopRun ==
    /\ phase = "stopping" /\ queue = <<>>
    /\ phase' = "halting"
    /\ UNCHANGED <<offered, queue, spoolVars, saved, fwdVars, crashes, redis, lost, unsure, stale>>

\* Drain starts from the cursor file.
StartDrain ==
    /\ phase = "halting" /\ fwd = "idle"
    /\ phase' = "draining"
    /\ cursor' = saved
    /\ UNCHANGED <<offered, queue, spoolVars, saved, fwd, batch, next, crashes, redis, lost, unsure, stale>>

\* The process dies and starts again over the same files: NewSpool, LoadCursor.
Crash ==
    /\ crashes < MaxCrashes /\ phase = "running"
    /\ crashes' = crashes + 1
    /\ lost' = lost \cup Range(queue)
    /\ queue' = <<>>
    /\ size' = Len(cur) /\ closed' = FALSE
    /\ cursor' = saved /\ fwd' = "idle"
    /\ unsure' = (unsure \/ fwd = "saving") /\ stale' = Stays
    /\ UNCHANGED <<offered, cur, old, torn, saved, batch, next, phase, redis>>

Next ==
    \/ Enqueue \/ Flush \/ FlushFails
    \/ ForwardRead \/ ForwardNothing
    \/ Publish \/ PublishFull \/ PublishFails \/ SaveCursor
    \/ Stop \/ StopRun \/ StartDrain \/ Crash

Spec == Init /\ [][Next]_vars

\* Both loops run on tickers, a Redis that fails comes back or is full, and
\* Stop goes on to Drain.  Nobody has to enqueue, to stop or to crash.
FairSpec ==
    /\ Spec
    /\ WF_vars(Flush \/ FlushFails)
    /\ WF_vars(ForwardRead \/ ForwardNothing)
    /\ SF_vars(Publish \/ PublishFull)
    /\ WF_vars(SaveCursor)
    /\ WF_vars(StopRun \/ StartDrain)

-----------------------------------------------------------------------------
TypeOK ==
    /\ offered \in 0..NumRecords
    /\ queue \in Seq(Records) /\ Len(queue) <= QueueCap
    /\ cur \in Seq(Records \cup {Junk})
    /\ old = NoFile \/ old \in Seq(Records \cup {Junk})
    /\ size \in Nat /\ saved \in Nat /\ cursor \in Nat /\ next \in Nat
    /\ torn \in BOOLEAN /\ closed \in BOOLEAN /\ unsure \in BOOLEAN
    /\ fwd \in {"idle", "publishing", "saving"}
    /\ batch \in Seq(Records) /\ Len(batch) <= BatchSize
    /\ phase \in {"running", "stopping", "halting", "draining", "drained", "abandoned"}
    /\ crashes \in 0..MaxCrashes
    /\ redis \in Seq(Records)
    /\ lost \subseteq Records
    /\ stale \in {"no", "next", "yes"}

\* What the forwarder has still to read, from where its cursor stands.
Unread ==
    IF old # NoFile
    THEN Range(Decodable(old, cursor, Len(old))) \cup Range(Decodable(cur, 0, Len(cur)))
    ELSE Range(Decodable(cur, CurCursor, Len(cur)))

Accounted == 1..offered \subseteq Range(queue) \cup Unread \cup Range(redis) \cup lost

\* No record disappears: it is in the queue, ahead of the cursor, in Redis, or
\* was given up with an error that says so.  The exception is a cursor that
\* outlived its file, which Read applies to the next one.
NoSilentLoss == stale = "no" => Accounted

\* A Redis outage makes the spool accumulate without losing data.
OutageLosesNothing == Accounted

\* Without a crash, a lost reply or a cursor that could not be saved, every
\* record is published at most once, and in the order the handler took them,
\* across rotations and the removal of finished files.
PublishedOnceInOrder ==
    ~unsure => \A i, j \in DOMAIN redis : i < j => redis[i] < redis[j]

\* A shutdown whose Drain came to its end left nothing behind.
DrainDelivers ==
    phase = "drained" /\ stale # "yes" => 1..offered \subseteq Range(redis) \cup lost

\* Every record is published in the end or given up with an error, unless the
\* last Drain failed or a cursor outlived its file.
EventuallyPublished ==
    queue # <<>> ~>
       (1..offered \subseteq Range(redis) \cup lost \/ phase = "abandoned" \/ stale = "yes")

\* The spool is well formed and no record of it disappears in silence
\* (spool.go, forwarder.go).
SpoolKeeps ==
    /\ TypeOK
    /\ NoSilentLoss
=============================================================================
