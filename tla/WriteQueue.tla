----------------------------- MODULE WriteQueue -----------------------------
(***************************************************************************)
(* The Redis write queues and their consumers in the writer pod: the span  *)
(* queue (internal/queue redis_queue.go) with the RedisWorker              *)
(* (internal/worker redis_worker.go), and the logs, metrics and span       *)
(* ledger queues (internal/queue batch.go) with the batchConsumer          *)
(* (cmd/spanbarn consumers.go, store_retry.go, spanledger.go).             *)
(*                                                                         *)
(* One queue is modelled; its load says which consumer drains it.  Redis is *)
(* external: a list command is one atomic step whose reply may be lost.    *)
(* Writer pods are numbered in the order they start.  There is one writer  *)
(* at a time, but a pod that is deleted or evicted is replaced while it    *)
(* still drains.  A store is one transaction: it commits or it does not.   *)
(***************************************************************************)
EXTENDS RedisLists

CONSTANTS
    Batches,     \* queue items
    Loads,       \* the consumers, each with what it may find on its queue
    MaxRetries,  \* maxRetries, storeAttempts
    MaxWriters,  \* bound on the writer pods
    MaxFaults,   \* bound on Redis faults and killed pods
    MaxErrors,   \* bound on failing inserts
    NoBatch

Spans == {"inline", "staging"}                  \* RedisWorker
Kinds == Spans \cup {"logs", "metrics", "ledger"}  \* batchConsumer
Writers == 1..MaxWriters

Load ==
    [kind    : Kinds,            \* the consumer of the queue
     fresh   : SUBSET Batches,   \* their spans are younger than RecentThreshold when published
     boring  : SUBSET Batches,   \* no span that an inline worker would store
     poison  : SUBSET Batches,   \* they panic the store
     garbled : SUBSET Batches]   \* they do not parse

ASSUME QueueAssumption ==
    /\ Loads \subseteq Load
    /\ MaxRetries \in Nat \ {0} /\ MaxWriters \in Nat \ {0}
    /\ MaxFaults \in Nat /\ MaxErrors \in Nat
    /\ NoBatch \notin Batches

VARIABLES
    load,        \* the consumer and its batches
    todo,        \* batches not published yet
    recent,      \* the queue; its right end is consumed next
    backlog,     \* the span queue for older batches
    processing,  \* the processing list
    pod,         \* pod[w]: "new", "run", "term" (SIGTERM came), "gone"
    pc,          \* where the consumer goroutine of w is
    held,        \* the batch it works on
    tries,       \* failed attempts of its store
    mature,      \* ReclaimDelay has passed since w started
    faults, errors,
    processed,   \* ledger Processed, or stored            (history, as the next ones)
    failed,      \* given up with a Failed count or an error log
    dropped,     \* left with a panic or a parse error
    accumulated, \* fed to the accumulator
    unacked,     \* left on a list although it was handled
    killed,      \* its writer was killed before it was handled
    excused      \* met an error other than a full disk

lists == <<recent, backlog, processing>>
goroutine == <<pc, held, tries>>
pods == <<pod, mature>>
counts == <<processed, failed, dropped, accumulated>>
replays == <<unacked, killed>>
vars == <<load, todo, lists, goroutine, pods, faults, errors, counts, replays, excused>>

Zero == [b \in Batches |-> 0]
Count(f, b) == [f EXCEPT ![b] = @ + 1]

Kind == load.kind

Init ==
    /\ load \in Loads
    /\ todo = Batches
    /\ recent = <<>> /\ backlog = <<>> /\ processing = <<>>
    /\ pod = [w \in Writers |-> "new"]
    /\ pc = [w \in Writers |-> "off"]
    /\ held = [w \in Writers |-> NoBatch]
    /\ tries = [w \in Writers |-> 0]
    /\ mature = [w \in Writers |-> FALSE]
    /\ faults = 0 /\ errors = 0
    /\ processed = Zero /\ failed = Zero /\ dropped = Zero /\ accumulated = Zero
    /\ unacked = Zero /\ killed = Zero
    /\ excused = {}

Fault ==
    /\ faults < MaxFaults
    /\ faults' = faults + 1

\* A call on the consumer's own context: it fails when Redis does, and when
\* a shutdown has cancelled the context.
CallFails(w) ==
    \/ pod[w] = "term" /\ UNCHANGED faults
    \/ Fault

Goto(w, at) == pc' = [pc EXCEPT ![w] = at]

-----------------------------------------------------------------------------
(* Publish. *)

\* LPUSH to the queue Publish chooses: a batch is recent at most while it is fresh.
Push(b) ==
    \/ /\ b \in load.fresh \/ Kind \notin Spans
       /\ recent' = <<b>> \o recent
       /\ UNCHANGED backlog
    \/ /\ Kind \in Spans
       /\ backlog' = <<b>> \o backlog
       /\ UNCHANGED recent

Publish(b) ==
    /\ b \in todo
    /\ todo' = todo \ {b}
    /\ Push(b)
    /\ UNCHANGED <<load, processing, goroutine, pods, faults, errors, counts, replays, excused>>

-----------------------------------------------------------------------------
(* The loop: Run, batchConsumer.run. *)

\* Where Consume starts: the span queues are polled before the blocking move.
ConsumeStart == IF Kind \in Spans THEN "recent" ELSE "block"

\* Mutant: the writer never looks at the processing list.
Loop_NeverReclaims(w) ==
    /\ pc[w] = "top"
    /\ pod[w] = "run"
    /\ Goto(w, ConsumeStart)
    /\ UNCHANGED <<load, todo, lists, held, tries, pods, faults, errors, counts, replays, excused>>

Loop(w) ==
    /\ pc[w] = "top"
    /\ pod[w] = "run"
    /\ Goto(w, IF mature[w] THEN "reclaim" ELSE ConsumeStart)
    /\ UNCHANGED <<load, todo, lists, held, tries, pods, faults, errors, counts, replays, excused>>

Return(w) ==
    /\ pc[w] = "top"
    /\ pod[w] = "term"
    /\ Goto(w, "done")
    /\ UNCHANGED <<load, todo, lists, held, tries, pods, faults, errors, counts, replays, excused>>

\* LMOVE processing -> queue, RIGHT to RIGHT, until the list is empty.
Reclaim(w) ==
    /\ pc[w] = "reclaim"
    /\ pod[w] = "run"
    /\ processing # <<>>
    /\ recent' = Append(recent, RightEnd(processing))
    /\ processing' = DropRight(processing)
    /\ UNCHANGED <<load, todo, backlog, goroutine, pods, faults, errors, counts, replays, excused>>

ReclaimEnds(w) ==
    /\ pc[w] = "reclaim"
    /\ \/ processing = <<>> /\ UNCHANGED faults
       \/ CallFails(w)
    /\ Goto(w, ConsumeStart)
    /\ UNCHANGED <<load, todo, lists, held, tries, pods, errors, counts, replays, excused>>

AfterConsumeError(w) == IF pod[w] = "term" THEN "done" ELSE "top"

\* What the consumer makes of a claimed item, once its reply is here.
Begin(w, b) ==
    /\ held' = [held EXCEPT ![w] = b]
    /\ tries' = [tries EXCEPT ![w] = 0]
    /\ Goto(w, IF b \in load.garbled THEN "ack" ELSE "process")
    /\ dropped' = IF b \in load.garbled THEN Count(dropped, b) ELSE dropped
    /\ UNCHANGED faults

\* LMOVE or BLMOVE of b to the processing list; the reply may be lost.
Claim(w, b) ==
    /\ processing' = <<b>> \o processing
    /\ \/ Begin(w, b)
       \/ /\ Fault
          /\ Goto(w, AfterConsumeError(w))
          /\ UNCHANGED <<held, tries, dropped>>
    /\ UNCHANGED <<load, todo, pods, errors, processed, failed, accumulated, replays, excused>>

ClaimRecent(w) ==
    /\ pc[w] \in {"recent", "block"}
    /\ recent # <<>>
    /\ recent' = DropRight(recent)
    /\ UNCHANGED backlog
    /\ Claim(w, RightEnd(recent))

ClaimBacklog(w) ==
    /\ pc[w] = "backlog"
    /\ backlog # <<>>
    /\ backlog' = DropRight(backlog)
    /\ UNCHANGED recent
    /\ Claim(w, RightEnd(backlog))

\* An empty queue: go on to the next command, and after the last one, loop.
ClaimNothing(w) ==
    /\ \/ pc[w] = "recent" /\ recent = <<>> /\ Goto(w, "backlog")
       \/ pc[w] = "backlog" /\ backlog = <<>> /\ Goto(w, "block")
       \/ pc[w] = "block" /\ recent = <<>> /\ Goto(w, "top")
    /\ UNCHANGED <<load, todo, lists, held, tries, pods, faults, errors, counts, replays, excused>>

ClaimFails(w) ==
    /\ pc[w] \in {"recent", "backlog", "block"}
    /\ CallFails(w)
    /\ Goto(w, AfterConsumeError(w))
    /\ UNCHANGED <<load, todo, lists, held, tries, pods, errors, counts, replays, excused>>

-----------------------------------------------------------------------------
(* processBatch, store. *)

\* The inline worker and the metrics consumer feed the accumulator first; an
\* inline batch with nothing to store is finished then.
Process(w) ==
    LET b == held[w]
        nothing == Kind = "inline" /\ b \in load.boring
    IN  /\ pc[w] = "process"
        /\ accumulated' = IF Kind \in {"inline", "metrics"} THEN Count(accumulated, b) ELSE accumulated
        /\ processed' = IF nothing THEN Count(processed, b) ELSE processed
        /\ Goto(w, IF nothing THEN "ack" ELSE "store")
        /\ UNCHANGED <<load, todo, lists, held, tries, pods, faults, errors, failed, dropped, replays, excused>>

Store(w) ==
    /\ pc[w] = "store"
    /\ held[w] \notin load.poison
    /\ processed' = Count(processed, held[w])
    /\ Goto(w, "ack")
    /\ UNCHANGED <<load, todo, lists, held, tries, pods, faults, errors, failed, dropped, accumulated, replays, excused>>

\* A panic unwinds through the deferred ack; the goroutine ends after it.
Panic(w) ==
    /\ pc[w] = "store"
    /\ held[w] \in load.poison
    /\ dropped' = Count(dropped, held[w])
    /\ Goto(w, "ack")
    /\ UNCHANGED <<load, todo, lists, held, tries, pods, faults, errors, processed, failed, accumulated, replays, excused>>

Error ==
    /\ errors < MaxErrors
    /\ errors' = errors + 1

\* Mutant: the ledger consumer retries and gives up like the others.
StoreFails_Retried(w) ==
    /\ pc[w] = "store"
    /\ held[w] \notin load.poison
    /\ Error
    /\ excused' = excused \cup {held[w]}
    /\ Goto(w, "wait") /\ tries' = [tries EXCEPT ![w] = @ + 1]
    /\ UNCHANGED <<load, todo, lists, held, pods, faults, counts, replays>>

\* What an attempt that stored nothing leads to: the ledger consumer leaves
\* the batch where it is, the others wait and try again.
StoreFails(w) ==
    /\ pc[w] = "store"
    /\ held[w] \notin load.poison
    /\ Error
    /\ excused' = excused \cup {held[w]}
    /\ IF Kind = "ledger"
       THEN Goto(w, "top") /\ held' = [held EXCEPT ![w] = NoBatch] /\ UNCHANGED tries
       ELSE Goto(w, "wait") /\ tries' = [tries EXCEPT ![w] = @ + 1] /\ UNCHANGED held
    /\ UNCHANGED <<load, todo, lists, pods, faults, counts, replays>>

\* Mutant: a batch that met a full disk is finished without a requeue.
DiskFull_Acked(w) ==
    /\ pc[w] = "store"
    /\ held[w] \notin load.poison
    /\ Error
    /\ Goto(w, "ack")
    /\ UNCHANGED <<load, todo, lists, held, tries, pods, faults, counts, replays, excused>>

\* Mutant: the batch is let go before it is requeued, and an empty one follows.
DiskFull_Released(w) ==
    /\ pc[w] = "store"
    /\ held[w] \notin load.poison
    /\ Error
    /\ Goto(w, "requeue") /\ held' = [held EXCEPT ![w] = NoBatch]
    /\ UNCHANGED <<load, todo, lists, tries, pods, faults, counts, replays, excused>>

\* Mutant: a full disk uses up an attempt, whatever the consumer.
DiskFull_Counted(w) ==
    /\ pc[w] = "store"
    /\ held[w] \notin load.poison
    /\ Error
    /\ Goto(w, "wait") /\ tries' = [tries EXCEPT ![w] = @ + 1]
    /\ UNCHANGED <<load, todo, lists, held, pods, faults, counts, replays, excused>>

\* A full disk is an error like any other to the staging worker and to the
\* ledger consumer.  The inline worker requeues the batch, the logs and the
\* metrics consumer wait without counting the attempt.
DiskFull(w) ==
    /\ pc[w] = "store"
    /\ held[w] \notin load.poison
    /\ Error
    /\ CASE Kind = "inline" -> Goto(w, "requeue") /\ UNCHANGED <<held, tries>>
         [] Kind = "staging" -> Goto(w, "wait") /\ tries' = [tries EXCEPT ![w] = @ + 1] /\ UNCHANGED held
         [] Kind = "ledger" -> Goto(w, "top") /\ held' = [held EXCEPT ![w] = NoBatch] /\ UNCHANGED tries
         [] OTHER -> Goto(w, "wait") /\ UNCHANGED <<held, tries>>
    /\ UNCHANGED <<load, todo, lists, pods, faults, counts, replays, excused>>

Retry(w) ==
    /\ pc[w] = "wait"
    /\ tries[w] < MaxRetries
    /\ Goto(w, "store")
    /\ UNCHANGED <<load, todo, lists, held, tries, pods, faults, errors, counts, replays, excused>>

\* Mutant: a batch that is given up stays on the processing list.
GiveUp_Left(w) ==
    /\ pc[w] = "wait"
    /\ tries[w] = MaxRetries \/ pod[w] = "term"
    /\ Goto(w, "top") /\ held' = [held EXCEPT ![w] = NoBatch]
    /\ UNCHANGED <<load, todo, lists, tries, pods, faults, errors, counts, replays, excused>>

\* The retries are used up, or the wait saw the shutdown.  A logs batch that
\* meets the shutdown stays on the processing list.
GiveUp(w) ==
    /\ pc[w] = "wait"
    /\ tries[w] = MaxRetries \/ pod[w] = "term"
    /\ IF Kind = "logs" /\ pod[w] = "term"
       THEN Goto(w, "top") /\ held' = [held EXCEPT ![w] = NoBatch] /\ UNCHANGED failed
       ELSE Goto(w, "ack") /\ failed' = Count(failed, held[w]) /\ UNCHANGED held
    /\ UNCHANGED <<load, todo, lists, tries, pods, faults, errors, processed, dropped, accumulated, replays, excused>>

Requeue(w) ==
    /\ pc[w] = "requeue"
    /\ Push(held[w])
    /\ Goto(w, "ack")
    /\ UNCHANGED <<load, todo, processing, held, tries, pods, faults, errors, counts, replays, excused>>

\* Publish runs on the consumer's context.  An LPUSH whose reply is lost may
\* have been executed.
RequeueFails(w) ==
    /\ pc[w] = "requeue"
    /\ failed' = Count(failed, held[w])
    /\ Goto(w, "ack")
    /\ \/ pod[w] = "term" /\ UNCHANGED <<recent, backlog, faults, unacked, excused>>
       \/ /\ Fault
          /\ excused' = excused \cup {held[w]}
          /\ \/ UNCHANGED <<recent, backlog, unacked>>
             \/ Push(held[w]) /\ unacked' = Count(unacked, held[w])
    /\ UNCHANGED <<load, todo, processing, held, tries, pods, errors, processed, dropped, accumulated, killed>>

AfterAck(w) == IF held[w] \in load.poison THEN "dead" ELSE "top"

\* Mutant: the shutdown cancels the LREM.
Ack_Cancelled(w) ==
    /\ pc[w] = "ack"
    /\ processing' = IF pod[w] = "term" THEN processing ELSE LRem(processing, held[w])
    /\ Goto(w, AfterAck(w))
    /\ held' = [held EXCEPT ![w] = NoBatch]
    /\ UNCHANGED <<load, todo, recent, backlog, tries, pods, faults, errors, counts, replays, excused>>

\* LREM, on a context that a shutdown does not cancel.
Ack(w) ==
    /\ pc[w] = "ack"
    /\ processing' = LRem(processing, held[w])
    /\ Goto(w, AfterAck(w))
    /\ held' = [held EXCEPT ![w] = NoBatch]
    /\ UNCHANGED <<load, todo, recent, backlog, tries, pods, faults, errors, counts, replays, excused>>

AckFails(w) ==
    /\ pc[w] = "ack"
    /\ Fault
    /\ unacked' = Count(unacked, held[w])
    /\ Goto(w, AfterAck(w))
    /\ held' = [held EXCEPT ![w] = NoBatch]
    /\ UNCHANGED <<load, todo, lists, tries, pods, errors, counts, killed, excused>>

-----------------------------------------------------------------------------
(* Pods. *)

\* The next pod starts once the ones before it are going or gone (one replica).
Start(w) ==
    /\ pod[w] = "new"
    /\ \A v \in 1..(w - 1) : pod[v] \in {"term", "gone"}
    /\ pod' = [pod EXCEPT ![w] = "run"]
    /\ Goto(w, "top")
    /\ UNCHANGED <<load, todo, lists, held, tries, mature, faults, errors, counts, replays, excused>>

\* The last pod of a behaviour is left running.
Terminate(w) ==
    /\ pod[w] = "run"
    /\ w < MaxWriters
    /\ pod' = [pod EXCEPT ![w] = "term"]
    /\ UNCHANGED <<load, todo, lists, goroutine, mature, faults, errors, counts, replays, excused>>

\* runWriterMode waits for its workers.
Exit(w) ==
    /\ pod[w] = "term"
    /\ pc[w] \in {"done", "dead"}
    /\ pod' = [pod EXCEPT ![w] = "gone"]
    /\ Goto(w, "off")
    /\ UNCHANGED <<load, todo, lists, held, tries, mature, faults, errors, counts, replays, excused>>

Kill(w) ==
    /\ pod[w] \in {"run", "term"}
    /\ w < MaxWriters
    /\ Fault
    /\ pod' = [pod EXCEPT ![w] = "gone"]
    /\ Goto(w, "off")
    /\ held' = [held EXCEPT ![w] = NoBatch]
    /\ unacked' = IF pc[w] = "ack" THEN Count(unacked, held[w]) ELSE unacked
    /\ killed' = IF held[w] # NoBatch /\ pc[w] # "ack" THEN Count(killed, held[w]) ELSE killed
    /\ UNCHANGED <<load, todo, lists, tries, mature, errors, counts, excused>>

\* Mutant: ReclaimDelay is shorter than the grace period.
DelayPasses_TooShort(w) ==
    /\ pod[w] = "run"
    /\ ~mature[w]
    /\ mature' = [mature EXCEPT ![w] = TRUE]
    /\ UNCHANGED <<load, todo, lists, goroutine, pod, faults, errors, counts, replays, excused>>

\* ReclaimDelay outlasts the grace period of a pod that was going when w
\* started (deploy/k8s graceful_stop_test.go holds the two apart).
DelayPasses(w) ==
    /\ pod[w] = "run"
    /\ ~mature[w]
    /\ \A v \in 1..(w - 1) : pod[v] = "gone"
    /\ mature' = [mature EXCEPT ![w] = TRUE]
    /\ UNCHANGED <<load, todo, lists, goroutine, pod, faults, errors, counts, replays, excused>>

Work(w) ==
    \/ Loop(w) \/ Return(w) \/ Reclaim(w) \/ ReclaimEnds(w)
    \/ ClaimRecent(w) \/ ClaimBacklog(w) \/ ClaimNothing(w) \/ ClaimFails(w)
    \/ Process(w) \/ Store(w) \/ Panic(w) \/ StoreFails(w) \/ DiskFull(w)
    \/ Retry(w) \/ GiveUp(w) \/ Requeue(w) \/ RequeueFails(w) \/ Ack(w) \/ AckFails(w)

Next ==
    \/ \E b \in Batches : Publish(b)
    \/ \E w \in Writers :
          Work(w) \/ Start(w) \/ Terminate(w) \/ Exit(w) \/ Kill(w) \/ DelayPasses(w)

Spec == Init /\ [][Next]_vars

\* The goroutine runs, the kubelet starts the next pod, time passes.
FairSpec ==
    /\ Spec
    /\ \A w \in Writers : WF_vars(Work(w)) /\ WF_vars(Start(w) \/ Exit(w) \/ DelayPasses(w))
-----------------------------------------------------------------------------
(* Properties. *)

ListsOK ==
    /\ todo \subseteq Batches
    /\ recent \in Seq(Batches) /\ backlog \in Seq(Batches) /\ processing \in Seq(Batches)

WritersOK ==
    /\ pod \in [Writers -> {"new", "run", "term", "gone"}]
    /\ pc \in [Writers -> {"off", "top", "reclaim", "recent", "backlog", "block", "process",
                           "store", "wait", "requeue", "ack", "done", "dead"}]
    /\ held \in [Writers -> Batches \cup {NoBatch}]
    /\ tries \in [Writers -> 0..MaxRetries]

CountsOK ==
    /\ processed \in [Batches -> Nat] /\ failed \in [Batches -> Nat] /\ dropped \in [Batches -> Nat]
    /\ accumulated \in [Batches -> Nat] /\ unacked \in [Batches -> Nat] /\ killed \in [Batches -> Nat]
    /\ excused \subseteq Batches

\* The types of the variables.
TypeOK ==
    /\ ListsOK /\ WritersOK /\ CountsOK
    /\ mature \in [Writers -> BOOLEAN]
    /\ faults \in 0..MaxFaults /\ errors \in 0..MaxErrors

Holders(b) == {w \in Writers : held[w] = b}
InStage(b, stages) == {w \in Holders(b) : pc[w] \in stages}
Handled(b) == processed[b] + failed[b] + dropped[b]

\* A batch some writer works on stays on the processing list until that
\* writer takes it off, one entry per writer.  "The batch left on the list is
\* one nobody is working on" (redis_queue.go, ReclaimDelay) is the other side
\* of it: no reclaim takes a batch from under a draining writer.
HeldStaysListed ==
    \A b \in Batches : Cardinality(Holders(b)) <= Occurs(processing, b)

\* A batch is handled once, and once more for every time it was left on a
\* list although it was handled: "a lost reply replays a batch nothing has
\* stored, so it duplicates nothing" (batch.go), and a requeued batch "is
\* counted when it comes round again" (redis_worker_ledger.go).
HandledOncePerDelivery ==
    \A b \in Batches : Handled(b) <= 1 + unacked[b]

\* The metrics consumer feeds a batch to the accumulator once per delivery,
\* whatever its insert does: "a replay would add its sums and counts again"
\* (consumers.go, runMetricsConsumer).
AccumulatedOncePerDelivery ==
    Kind = "metrics" => \A b \in Batches : accumulated[b] <= 1 + unacked[b] + killed[b]

\* The span ledger consumer gives no row up: a batch it cannot store stays on
\* a list "because a missing exit count reads as loss" (spanledger.go).
NothingGivenUp ==
    Kind = "ledger" => \A b \in Batches : failed[b] = 0

\* A batch whose inserts met nothing but a full disk, and whose requeue no
\* Redis error hindered, is not given up: requeueAfterDiskFull "puts a batch
\* back on the queue instead of dropping it" (redis_worker.go).
DiskFullBatchKept ==
    \A b \in Batches : failed[b] > 0 => b \in excused

\* It is given up only by the staging worker, whose retries count a full disk,
\* or once a shutdown has cancelled the context of the requeue or of the wait.
DiskFullGivenUpAtShutdown ==
    \/ DiskFullBatchKept
    \/ Kind = "staging"
    \/ \E w \in Writers : pod[w] \in {"term", "gone"}

Listed(b) == Occurs(recent, b) + Occurs(backlog, b) + Occurs(processing, b)

\* The copies of b nobody has handled: an entry that only waits for its ack
\* is not one.
Copies(b) == Listed(b) - Cardinality(InStage(b, {"ack"}))

Queue == INSTANCE Delivery WITH
    accepted <- Batches \ todo,
    copies <- [b \in Batches |-> Copies(b)],
    handled <- [b \in Batches |-> Handled(b)],
    again <- unacked

\* The queue implements at-least-once delivery: no interleaving of claims,
\* reclaims, requeues, acks and killed writers loses a published batch, or
\* handles one that is not on a list.
AtLeastOnce == Queue!Spec

\* Every published batch is handled in the end: stored, or given up with a
\* count.  A lost reply and a killed writer only delay it, until the reclaim;
\* only a panic in the store ends the consumer for good.
EventuallyHandled ==
    todo # Batches ~>
       \/ \A b \in Batches \ todo : Handled(b) > 0
       \/ \E w \in Writers : pc[w] = "dead"

\* What a pod's state and the stage of its goroutine say of each other: writers
\* hold a batch while they work on one, start in order, and reclaim only once
\* every earlier one is gone.
StagesInv ==
    \A w \in Writers :
       /\ held[w] # NoBatch <=> pc[w] \in {"process", "store", "wait", "requeue", "ack"}
       /\ pod[w] \in {"new", "gone"} => pc[w] = "off"
       /\ pod[w] # "new" => \A v \in 1..(w - 1) : pod[v] \in {"term", "gone"}
       /\ mature[w] => \A v \in 1..(w - 1) : pod[v] = "gone"
       /\ pc[w] = "reclaim" => mature[w]
       /\ pc[w] \in {"process", "store"} => tries[w] < MaxRetries
       /\ pc[w] = "requeue" => Kind = "inline"
       /\ pc[w] = "wait" => Kind # "ledger"

\* Every delivery of a published batch is handled or still to be handled: the
\* one its publisher asked for, and one for each time it was left on a list.
DeliveriesInv ==
    \A b \in Batches :
       IF b \in todo THEN Listed(b) = 0 /\ Handled(b) = 0 /\ unacked[b] = 0
                     ELSE Copies(b) + Handled(b) = 1 + unacked[b]

\* Each time a batch was fed to the accumulator it was handled, is being
\* stored, or its writer was killed.
AccumulatedInv ==
    Kind = "metrics" =>
       \A b \in Batches :
          accumulated[b] <= Handled(b) + Cardinality(InStage(b, {"store", "wait"})) + killed[b]

\* The lists are well formed, a writer's batch stays listed while it works on it,
\* and a batch is stored and accumulated once per delivery (redis_worker.go,
\* consumers.go).
OncePerDelivery ==
    /\ TypeOK
    /\ StagesInv
    /\ HeldStaysListed
    /\ DeliveriesInv
    /\ HandledOncePerDelivery
    /\ AccumulatedInv
    /\ AccumulatedOncePerDelivery

\* A batch is given up only where the code says so: never by the ledger
\* consumer, and for a full disk only by the staging worker or at a shutdown
\* (spanledger.go, redis_worker.go).
GivenUpRightly ==
    /\ \A w \in Writers :
          held[w] # NoBatch /\ tries[w] > 0 /\ Kind # "staging" => held[w] \in excused
    /\ NothingGivenUp
    /\ DiskFullGivenUpAtShutdown
=============================================================================
