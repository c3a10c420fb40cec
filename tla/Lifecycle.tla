----------------------------- MODULE Lifecycle -----------------------------
(***************************************************************************)
(* One pod from start to exit, in each of the four modes of cmd/spanbarn.  *)
(*                                                                         *)
(* A mode is two programs: the start opens handles and starts goroutines   *)
(* in order, and after SIGTERM the stop shuts them down in order.  Around   *)
(* them requests arrive and telemetry moves: a span goes request -> trace  *)
(* buffer -> Out -> ingest queue -> spool -> write queue or database, a    *)
(* metric goes request -> channel -> insert, and the writer takes batches  *)
(* from the write queue, stores them and holds their counts in memory.     *)
(* Which goroutines end at the signal itself and which wait for a step of  *)
(* the stop is what the orders have to get right.                          *)
(***************************************************************************)
EXTENDS Integers, Sequences, FiniteSets

CONSTANTS
    LcModes,       \* the modes explored
    LcItems,       \* requests and batches that arrive, numbered from 1
    MaxLcFaults,   \* panics, outages, slow requests and failed starts
    FaultItems     \* items of a run in which a fault happens

ASSUME LifecycleAssumption ==
    /\ LcModes \subseteq {"standalone", "ingest", "reader", "writer"}
    /\ LcItems \in Nat /\ MaxLcFaults \in Nat /\ FaultItems \in Nat

VARIABLES
    lcMode,
    lcStage,      \* "starting", "serving", "stopping", "closing", "exited"
    bootAt,       \* start steps done
    stopAt,       \* stop steps done
    opened,       \* handles with a deferred Close, oldest first
    live,         \* goroutines running
    listening,    \* the HTTP listener accepts
    ready,        \* what /api/v1/ready answers
    outOpen,      \* the trace buffer's Out is open
    signalled,    \* the signal context has ended
    sinkUp,       \* Redis, or an ingest pod's writer, answers
    place,        \* where each item is
    route,        \* how it came
    unflushed,    \* stored items whose aggregate counts are still in memory
    tally,        \* items the span ledger counted and has not reported
    lcFaults,
    answered,     \* history: items a client got a 2xx for
    early,        \* history: the ones answered before the signal
    calm,         \* history: no fault happened
    graceful      \* history: the stop steps ran (no early return)

lcVars == <<lcMode, lcStage, bootAt, stopAt, opened, live, listening, ready,
            outOpen, signalled, sinkUp, place, route, unflushed, tally,
            lcFaults, answered, early, calm, graceful>>

LcIds == 1 .. LcItems

Routes == {"http", "grpc", "metric", "mutation", "batch"}

Places == {"none", "request", "buffer", "out", "ingest", "spool", "channel",
           "queue", "batch", "store", "sampled", "refused", "dropped"}

Goroutines == {"http", "grpc", "flush", "drain", "forwarder", "metrics",
               "worker", "accumulators", "upkeep", "scheduler", "reports"}

Handles == {"store", "read", "shards", "cache", "spool", "queue"}

----------------------------------------------------------------------------
(* The start of each mode: the handles a step opens and the goroutines it   *)
(* starts.  Every open is followed by its deferred Close.                   *)

Step(opens, starts) == [opens |-> opens, starts |-> starts]

\* Mutant: the listener is up before the goroutines behind it.
StartReader_ListenFirst ==
    << Step(<<"queue">>, {"http"}), Step(<<"spool">>, {"flush"}),
       Step(<<>>, {"forwarder", "metrics"}),
       Step(<<"read", "shards", "cache">>, {}),
       Step(<<>>, {"reports", "drain"}), Step(<<>>, {"grpc"}) >>

StartReader ==
    << Step(<<"queue">>, {}), Step(<<"spool">>, {"flush"}),
       Step(<<>>, {"forwarder", "metrics"}),
       Step(<<"read", "shards", "cache">>, {}),
       Step(<<>>, {"reports", "drain"}), Step(<<>>, {"grpc"}),
       Step(<<>>, {"http"}) >>

StartIngest ==
    << Step(<<"spool">>, {"flush"}), Step(<<>>, {"forwarder"}),
       Step(<<"read", "cache">>, {}), Step(<<>>, {"drain"}),
       Step(<<>>, {"http"}) >>

OpenWriteRepo == Step(<<"store">>, {})

OpenQueryRepo == Step(<<"read">>, {})

NewQueryCache == Step(<<"cache">>, {})

StartWriteSchedulers == Step(<<>>, {"scheduler"})

StandaloneIngest == << OpenWriteRepo, OpenQueryRepo, Step(<<"spool">>, {"flush"}) >>

StandaloneWorkers == << Step(<<"shards">>, {"metrics", "worker", "upkeep"}) >>

StandaloneServes == << NewQueryCache, Step(<<>>, {"drain"}), Step(<<>>, {"http"}), Step(<<>>, {"grpc"}) >>

StartStandalone == StandaloneIngest \o StandaloneWorkers \o StandaloneServes

WriterServes == << Step(<<>>, {"http"}), OpenWriteRepo, OpenQueryRepo, NewQueryCache >>

WriterConnects == << Step(<<"queue">>, {}), Step(<<"shards">>, {}), StartWriteSchedulers >>

WriterWorkers == << Step(<<>>, {"reports", "worker", "accumulators", "upkeep"}) >>

StartWriter == WriterServes \o WriterConnects \o WriterWorkers

Start ==
    CASE lcMode = "reader" -> StartReader
      [] lcMode = "ingest" -> StartIngest
      [] lcMode = "standalone" -> StartStandalone
      [] lcMode = "writer" -> StartWriter

\* The writer answers on its port before its API is wired.
ApiWired ==
    IF lcMode = "writer" THEN bootAt >= Len(WriterServes) ELSE "http" \in live

----------------------------------------------------------------------------
(* The stop of each mode, step by step.                                     *)

\* Mutant: fwdStop and the wait come before the trace buffer is closed.
StopReader_WaitFirst ==
    <<"http", "forwarder", "wait", "buffer", "handler", "spool", "ledger">>

\* Mutant: the last report is made before the spool is forwarded.
StopReader_LedgerFirst ==
    <<"http", "buffer", "handler", "forwarder", "wait", "ledger", "spool">>

StopReader ==
    <<"http", "buffer", "handler", "forwarder", "wait", "spool", "ledger">>

\* Mutant: the handler stops before the trace buffer is closed into it.
StopIngest_HandlerFirst == <<"http", "handler", "buffer", "wait">>

StopIngest == <<"http", "buffer", "handler", "wait">>

\* Mutant: the stop returns without waiting for the goroutines.
StopStandalone_NoWait == <<"http", "buffer", "handler", "checkpoint">>

StopStandalone == <<"http", "buffer", "handler", "wait", "checkpoint">>

\* Mutant: the schedulers stop with the workers, before the final flushes.
StopWriter_SchedulersFirst ==
    <<"unready", "schedulers", "wait", "flush", "ledger", "checkpoint", "http">>

StopWriter ==
    <<"unready", "wait", "flush", "ledger", "schedulers", "checkpoint", "http">>

Stop ==
    CASE lcMode = "reader" -> StopReader
      [] lcMode = "ingest" -> StopIngest
      [] lcMode = "standalone" -> StopStandalone
      [] lcMode = "writer" -> StopWriter

\* Goroutines on a child of the signal context.  The ingest flush loop, the
\* reader's forwarder, the schedulers and the ledger reports run on contexts
\* of their own, and the drain loop ends with Out.
OnSignalContext ==
    CASE lcMode = "reader" -> {"grpc", "metrics"}
      [] lcMode = "ingest" -> {"forwarder"}
      [] lcMode = "standalone" -> {"grpc", "metrics", "worker", "upkeep"}
      [] lcMode = "writer" -> {"worker", "accumulators", "upkeep"}

\* The goroutines wg.Wait waits for.
InWaitGroup == Goroutines \ {"http", "flush", "scheduler", "reports"}

At(i, p) == place' = [place EXCEPT ![i] = p]

Move(from, to) ==
    place' = [i \in LcIds |-> IF place[i] = from THEN to ELSE place[i]]

Holds(p) == \E i \in LcIds : place[i] = p

StopStep(s) == lcStage = "stopping" /\ stopAt < Len(Stop) /\ Stop[stopAt + 1] = s

----------------------------------------------------------------------------
LcInit ==
    /\ lcMode \in LcModes
    /\ lcStage = "starting" /\ bootAt = 0 /\ stopAt = 0
    /\ opened = <<>> /\ live = {}
    /\ listening = FALSE /\ ready = FALSE /\ outOpen = TRUE
    /\ signalled = FALSE /\ sinkUp = TRUE
    /\ place = [i \in LcIds |-> "none"] /\ route = [i \in LcIds |-> "none"]
    /\ unflushed = {} /\ tally = {} /\ lcFaults = 0
    /\ answered = {} /\ early = {} /\ calm = TRUE /\ graceful = FALSE

itemVars == <<place, route, unflushed, tally, answered, early>>
podVars == <<lcStage, bootAt, stopAt, opened, listening, ready, outOpen, graceful>>
faultVars == <<sinkUp, lcFaults, calm>>

Fault ==
    /\ lcFaults < MaxLcFaults /\ \A i \in LcIds : i > FaultItems => place[i] = "none"
    /\ lcFaults' = lcFaults + 1 /\ calm' = FALSE

\* One step of the start.  The reader's and the writer's queue connect waits
\* until Redis answers.
BootStep ==
    /\ lcStage = "starting" /\ bootAt < Len(Start)
    /\ LET s == Start[bootAt + 1]
       IN  /\ "queue" \in {s.opens[k] : k \in DOMAIN s.opens} => sinkUp /\ ~signalled
           /\ opened' = opened \o s.opens
           /\ live' = live \cup s.starts
           /\ listening' = (listening \/ "http" \in s.starts)
    /\ bootAt' = bootAt + 1
    /\ ready' = (lcMode = "writer" /\ bootAt' >= Len(WriterServes))
    /\ lcStage' = IF bootAt' = Len(Start) THEN "serving" ELSE "starting"
    /\ UNCHANGED <<lcMode, stopAt, outOpen, graceful, signalled, itemVars, faultVars>>

\* A start step fails, or the signal ends the wait for Redis: the error
\* returns through the deferred closes.  A reader or an ingest pod that cannot
\* open the database only warns.
BootFails ==
    /\ lcStage = "starting" /\ bootAt < Len(Start)
    /\ \E h \in {"store", "spool", "queue"} \cup
               (IF lcMode \in {"standalone", "writer"} THEN {"read"} ELSE {}) :
          Start[bootAt + 1].opens = <<h>>
    /\ \/ Fault
       \/ signalled /\ Start[bootAt + 1].opens = <<"queue">> /\ UNCHANGED <<lcFaults, calm>>
    /\ lcStage' = "closing"
    /\ UNCHANGED <<lcMode, bootAt, stopAt, opened, live, listening, ready, outOpen,
                   graceful, signalled, sinkUp, itemVars>>

Signal ==
    /\ lcStage \in {"starting", "serving"} /\ ~signalled
    /\ bootAt >= (IF lcMode = "standalone" THEN Len(StandaloneIngest) ELSE 0)
    /\ signalled' = TRUE
    /\ UNCHANGED <<lcMode, live, podVars, itemVars, faultVars>>

\* waitForShutdown: the graceful path, or the server stopped by itself and
\* the deferred closes run with everything else still going.
WaitForShutdown ==
    /\ lcStage = "serving"
    /\ \/ signalled /\ lcStage' = "stopping" /\ graceful' = TRUE
          /\ UNCHANGED <<lcFaults, calm, listening>>
       \/ Fault /\ lcStage' = "closing" /\ listening' = FALSE /\ UNCHANGED graceful
    /\ UNCHANGED <<lcMode, bootAt, stopAt, opened, live, ready, outOpen, signalled,
                   sinkUp, itemVars>>

----------------------------------------------------------------------------
(* Requests and the path of their telemetry.                                *)

Arrives(i) ==
    /\ place[i] = "none" /\ (i > 1 => place[i - 1] # "none")
    /\ i > FaultItems => calm
    /\ \E r \in Routes :
         /\ CASE r \in {"http", "metric"} -> listening /\ ApiWired /\ lcMode # "writer"
                                             /\ (r = "metric" => lcMode # "ingest")
              [] r = "grpc" -> "grpc" \in live /\ ~signalled
              [] r = "mutation" -> lcMode = "writer" /\ listening /\ ApiWired
              [] r = "batch" -> lcMode = "writer"
         /\ route' = [route EXCEPT ![i] = r]
         /\ At(i, IF r = "batch" THEN "queue" ELSE "request")
    /\ UNCHANGED <<lcMode, live, signalled, podVars, unflushed, tally, answered, early, faultVars>>

\* The handler finishes and answers.  A span goes to the trace buffer, a
\* metric to its channel; a mutation runs on the write connection, through
\* the scheduler once there is one.
Answers(i) ==
    /\ place[i] = "request"
    /\ \/ /\ route[i] \in {"http", "grpc"} /\ At(i, "buffer")
          /\ tally' = IF lcMode = "reader" THEN tally \cup {i} ELSE tally
       \/ route[i] = "metric" /\ At(i, "channel") /\ UNCHANGED tally
       \/ /\ route[i] = "mutation" /\ UNCHANGED tally
          /\ At(i, IF stopAt > 0 /\ "scheduler" \notin live THEN "refused" ELSE "store")
    /\ answered' = IF place'[i] = "refused" THEN answered ELSE answered \cup {i}
    /\ early' = IF signalled THEN early ELSE early \cup {i}
    /\ UNCHANGED <<lcMode, live, signalled, podVars, route, unflushed, faultVars>>

\* flush decides a trace: its spans go to Out or are sampled out.
Decides(i) ==
    /\ place[i] = "buffer" /\ outOpen /\ "drain" \in live
    /\ \/ At(i, "out")
       \/ At(i, "sampled")
    /\ UNCHANGED <<lcMode, live, signalled, podVars, route, unflushed, tally,
                   answered, early, faultVars>>

\* drainTraceBuffer's loop: into the ingest queue, until Out is closed.
DrainLoop ==
    /\ "drain" \in live
    /\ \/ Holds("out") /\ Move("out", "ingest") /\ UNCHANGED live
       \/ ~outOpen /\ ~Holds("out") /\ live' = live \ {"drain"} /\ UNCHANGED place
    /\ UNCHANGED <<lcMode, signalled, podVars, route, unflushed, tally, answered,
                   early, faultVars>>

\* flushLoop: the whole ingest queue into the spool.
FlushLoop ==
    /\ "flush" \in live /\ Holds("ingest") /\ Move("ingest", "spool")
    /\ UNCHANGED <<lcMode, live, signalled, podVars, route, unflushed, tally,
                   answered, early, faultVars>>

\* The goroutine that reads the spool: the forwarder of a reader (over Redis)
\* or of an ingest pod (over HTTP), or the standalone worker.
SpoolLoop ==
    /\ \E c \in live \cap (IF lcMode = "writer" THEN {} ELSE {"forwarder", "worker"}) :
         \/ /\ Holds("spool") /\ UNCHANGED live
            /\ c = "forwarder" => sinkUp
            /\ Move("spool", IF c = "worker" THEN "store" ELSE "queue")
         \/ /\ signalled /\ c \in OnSignalContext
            /\ live' = live \ {c} /\ UNCHANGED place
    /\ UNCHANGED <<lcMode, signalled, podVars, route, unflushed, tally, answered,
                   early, faultVars>>

\* MetricsHandler.Run and LogsHandler.Run: what is in the channel is
\* inserted, the last of it after the context ended.  A failed insert drops
\* its batch.
MetricsLoop ==
    /\ "metrics" \in live
    /\ Move("channel", IF lcMode = "standalone" THEN "store"
                       ELSE IF sinkUp THEN "queue" ELSE "dropped")
    /\ live' = IF signalled THEN live \ {"metrics"} ELSE live
    /\ Holds("channel") \/ signalled
    /\ UNCHANGED <<lcMode, signalled, podVars, route, unflushed, tally, answered,
                   early, faultVars>>

\* grpc.GracefulStop returns once its requests have been answered.
GrpcStops ==
    /\ "grpc" \in live /\ signalled
    /\ \A i \in LcIds : route[i] = "grpc" => place[i] # "request"
    /\ live' = live \ {"grpc"}
    /\ UNCHANGED <<lcMode, signalled, podVars, itemVars, faultVars>>

\* The writer's worker takes a batch, stores it through the scheduler, and
\* leaves its counts with the accumulators and the ledger.  It stops between
\* batches; a store that met a stopped scheduler leaves the batch queued.
WriterWorker ==
    /\ lcMode = "writer" /\ "worker" \in live
    /\ \/ /\ ~signalled /\ sinkUp /\ ~Holds("batch")
          /\ \E i \in LcIds : place[i] = "queue" /\ At(i, "batch")
          /\ UNCHANGED <<live, unflushed, tally>>
       \/ /\ "scheduler" \in live /\ Holds("batch")
          /\ Move("batch", "store") /\ UNCHANGED live
          /\ unflushed' = unflushed \cup {i \in LcIds : place[i] = "batch"}
          /\ tally' = tally \cup {i \in LcIds : place[i] = "batch"}
       \/ /\ signalled /\ (Holds("batch") => "scheduler" \notin live)
          /\ Move("batch", "queue") /\ live' = live \ {"worker"}
          /\ UNCHANGED <<unflushed, tally>>
    /\ UNCHANGED <<lcMode, signalled, podVars, route, answered, early, faultVars>>

\* Accumulator.Run: periodic flushes.  It returns at the signal without one.
AccumulatorLoop ==
    /\ "accumulators" \in live
    /\ \/ "scheduler" \in live /\ unflushed # {} /\ unflushed' = {} /\ UNCHANGED live
       \/ signalled /\ live' = live \ {"accumulators"} /\ UNCHANGED unflushed
    /\ UNCHANGED <<lcMode, signalled, podVars, place, route, tally, answered, early, faultVars>>

\* Retention, compactors, alerts and checkpoints end at the signal.
UpkeepEnds ==
    /\ "upkeep" \in live /\ signalled /\ live' = live \ {"upkeep"}
    /\ UNCHANGED <<lcMode, signalled, podVars, itemVars, faultVars>>

\* Where the ledger's reports go: the write queue, or the database.
LedgerSink == IF lcMode = "reader" THEN sinkUp ELSE "scheduler" \in live

ReportLoop ==
    /\ "reports" \in live /\ tally # {} /\ LedgerSink
    /\ tally' = {}
    /\ UNCHANGED <<lcMode, live, signalled, podVars, place, route, unflushed,
                   answered, early, faultVars>>

----------------------------------------------------------------------------
(* The steps of the stop.                                                   *)

stopVars == <<lcMode, lcStage, bootAt, opened, signalled, graceful>>

Done == stopAt' = stopAt + 1

\* shutdownHTTP: the listener closes, then its requests get ten seconds.
ShutdownHTTP ==
    /\ StopStep("http")
    /\ \/ listening /\ listening' = FALSE /\ UNCHANGED <<live, stopAt, faultVars>>
       \/ /\ ~listening
          /\ \/ /\ \A i \in LcIds : place[i] = "request" => route[i] = "grpc"
                /\ live' = live \ {"http"} /\ UNCHANGED <<lcFaults, calm>>
             \/ Fault /\ UNCHANGED live
          /\ Done /\ UNCHANGED <<listening, sinkUp>>
    /\ UNCHANGED <<stopVars, ready, outOpen, itemVars>>

\* closeTraceBuffer: Drain decides every trace left and closes Out, then the
\* drain loop is waited for.  Without the loop, Drain gives each send up.
CloseTraceBuffer ==
    /\ StopStep("buffer")
    /\ \/ /\ outOpen /\ (Holds("buffer") => "drain" \notin live)
          /\ outOpen' = FALSE /\ Move("buffer", "dropped") /\ UNCHANGED stopAt
       \/ ~outOpen /\ "drain" \notin live /\ Done /\ UNCHANGED <<outOpen, place>>
    /\ UNCHANGED <<stopVars, live, listening, ready, route, unflushed, tally,
                   answered, early, faultVars>>

\* Mutant: Stop returns without its final flush.
StopHandler_NoFlush ==
    /\ StopStep("handler") /\ Done /\ live' = live \ {"flush"}
    /\ UNCHANGED <<stopVars, listening, ready, outOpen, itemVars, faultVars>>

\* Handler.Stop: the flush loop ends and what is queued goes to the spool.
StopHandler ==
    /\ StopStep("handler") /\ Done /\ live' = live \ {"flush"}
    /\ Move("ingest", "spool")
    /\ UNCHANGED <<stopVars, listening, ready, outOpen, route, unflushed, tally,
                   answered, early, faultVars>>

\* fwdStop ends the reader's forwarder.
StopForwarder ==
    /\ StopStep("forwarder") /\ Done /\ live' = live \ {"forwarder"}
    /\ UNCHANGED <<stopVars, listening, ready, outOpen, itemVars, faultVars>>

\* wg.Wait.
WaitGroup ==
    /\ StopStep("wait") /\ live \cap InWaitGroup = {} /\ Done
    /\ UNCHANGED <<stopVars, live, listening, ready, outOpen, itemVars, faultVars>>

\* forwardSpoolOnShutdown: what is left when it fails goes with the pod.
ForwardSpool ==
    /\ StopStep("spool") /\ Done
    /\ \/ sinkUp /\ Move("spool", "queue")
          /\ tally' = tally \cup {i \in LcIds : place[i] = "spool"}
       \/ ~sinkUp /\ UNCHANGED <<place, tally>>
    /\ UNCHANGED <<stopVars, live, listening, ready, outOpen, route, unflushed,
                   answered, early, faultVars>>

\* finishLedger: the reports stop and the last one is made.
FinishLedger ==
    /\ StopStep("ledger") /\ Done /\ live' = live \ {"reports"}
    /\ tally' = IF LedgerSink THEN {} ELSE tally
    /\ UNCHANGED <<stopVars, listening, ready, outOpen, place, route, unflushed,
                   answered, early, faultVars>>

Unready ==
    /\ StopStep("unready") /\ Done /\ ready' = FALSE
    /\ UNCHANGED <<stopVars, live, listening, outOpen, itemVars, faultVars>>

\* FlushOnStop and flushSpanRollupsOnStop.
FinalFlush ==
    /\ StopStep("flush") /\ Done
    /\ unflushed' = IF "scheduler" \in live THEN {} ELSE unflushed
    /\ UNCHANGED <<stopVars, live, listening, ready, outOpen, place, route, tally,
                   answered, early, faultVars>>

\* schedCancel and schedWG.Wait: Run finishes the jobs queued, then stops.
StopSchedulers ==
    /\ StopStep("schedulers") /\ Done /\ live' = live \ {"scheduler"}
    /\ UNCHANGED <<stopVars, listening, ready, outOpen, itemVars, faultVars>>

FinalCheckpoint ==
    /\ StopStep("checkpoint") /\ Done
    /\ UNCHANGED <<stopVars, live, listening, ready, outOpen, itemVars, faultVars>>

\* The deferred closes run last in, first out, then the process is gone and
\* with it what was in memory.
CloseHandles ==
    /\ \/ lcStage = "stopping" /\ stopAt = Len(Stop)
       \/ lcStage = "closing"
    /\ IF opened = <<>> \/ ~graceful
       THEN lcStage' = "exited" /\ opened' = <<>>
       ELSE lcStage' = "closing" /\ opened' = SubSeq(opened, 1, Len(opened) - 1)
    /\ UNCHANGED <<lcMode, bootAt, stopAt, live, listening, ready, outOpen, signalled,
                   graceful, itemVars, faultVars>>

----------------------------------------------------------------------------
\* A goroutine panics: SafeGo recovers, reports and does not restart it.
Panics ==
    /\ \E c \in live \cap {"drain", "forwarder", "worker", "metrics", "accumulators"} :
         live' = live \ {c} /\ Move(IF c = "worker" THEN "batch" ELSE "none",
                                    IF c = "worker" THEN "queue" ELSE "none")
    /\ Fault
    /\ UNCHANGED <<lcMode, signalled, podVars, sinkUp, route, unflushed, tally,
                   answered, early>>

SinkChanges ==
    /\ lcMode # "standalone"
    /\ \/ sinkUp /\ Fault /\ sinkUp' = FALSE
       \/ ~sinkUp /\ sinkUp' = TRUE /\ UNCHANGED <<lcFaults, calm>>
    /\ UNCHANGED <<lcMode, live, signalled, podVars, itemVars>>

StopNext ==
    \/ ShutdownHTTP
    \/ CloseTraceBuffer
    \/ StopHandler
    \/ StopForwarder
    \/ WaitGroup
    \/ ForwardSpool
    \/ FinishLedger
    \/ Unready
    \/ FinalFlush
    \/ StopSchedulers
    \/ FinalCheckpoint
    \/ CloseHandles

GoroutineNext ==
    \/ DrainLoop
    \/ FlushLoop
    \/ SpoolLoop
    \/ MetricsLoop
    \/ GrpcStops
    \/ WriterWorker
    \/ AccumulatorLoop
    \/ UpkeepEnds
    \/ ReportLoop

\* Nothing that still runs while the deferred closes run is followed.
Working == lcStage \in {"starting", "serving", "stopping"}

WorkNext ==
    \/ \E i \in LcIds : Arrives(i) \/ Answers(i) \/ Decides(i)
    \/ GoroutineNext
    \/ Panics
    \/ SinkChanges

LcNext ==
    \/ BootStep
    \/ BootFails
    \/ Signal
    \/ WaitForShutdown
    \/ StopNext
    \/ Working /\ WorkNext

LcSpec == LcInit /\ [][LcNext]_lcVars
----------------------------------------------------------------------------
\* Every variable has its type.
LcTypeOK ==
    /\ lcMode \in LcModes
    /\ lcStage \in {"starting", "serving", "stopping", "closing", "exited"}
    /\ bootAt \in 0 .. Len(Start) /\ stopAt \in 0 .. Len(Stop)
    /\ opened \in Seq(Handles) /\ live \subseteq Goroutines
    /\ {listening, ready, outOpen, signalled, sinkUp, calm, graceful} \subseteq BOOLEAN
    /\ place \in [LcIds -> Places] /\ route \in [LcIds -> Routes \cup {"none"}]
    /\ unflushed \subseteq LcIds /\ tally \subseteq LcIds
    /\ lcFaults \in 0 .. MaxLcFaults
    /\ early \subseteq LcIds /\ answered \subseteq LcIds

\* Where an item outlives the process.  The spool of a reader is on the pod's
\* own disk and goes with it.
Durable ==
    {"queue", "store", "sampled"} \cup (IF lcMode = "reader" THEN {} ELSE {"spool"})

\* After a stop without faults no accepted telemetry is lost: a span answered
\* over HTTP at any time, also while the listener was shutting down, and
\* anything answered before the signal, is stored, queued, or in a spool that
\* the next start reads (closeTraceBuffer before Handler.Stop, the reader's
\* forwarder and final forward after it).
AcceptedIsKept ==
    lcStage = "exited" /\ graceful /\ calm =>
        \A i \in answered :
            route[i] = "http" \/ i \in early => place[i] \in Durable

\* Once the write schedulers have stopped, nothing in the writer still has
\* something to write but an HTTP mutation: no worker runs, no counts and no
\* ledger rows are waiting (runWriterMode's order of workerCancel, the final
\* flushes, finishLedger and schedCancel).
SchedulerOutlivesWriters ==
    lcMode = "writer" /\ graceful /\ "scheduler" \notin live =>
        /\ live \cap {"worker", "accumulators", "upkeep", "reports"} = {}
        /\ unflushed = {} /\ tally = {}

\* wg.Wait ends: every goroutine it waits for has been told to stop, whatever
\* panicked before.  The drain loop is told by the closed Out, the reader's
\* forwarder by fwdStop.
WaitEnds ==
    StopStep("wait") =>
        \A c \in live \cap InWaitGroup :
            c \in OnSignalContext \/ (c = "drain" /\ ~outOpen)

\* The handles a goroutine works on.
Needs(c) ==
    CASE c = "flush" -> {"spool"}
      [] c = "forwarder" -> {"spool"} \cup (IF lcMode = "reader" THEN {"queue"} ELSE {})
      [] c = "metrics" -> IF lcMode = "reader" THEN {"queue"} ELSE {"store"}
      [] c = "worker" -> {"store", IF lcMode = "writer" THEN "queue" ELSE "spool"}
      [] c \in {"accumulators", "upkeep", "scheduler"} -> {"store", "read"}
      [] c = "reports" -> IF lcMode = "reader" THEN {"queue"} ELSE {"store"}
      [] OTHER -> {}

\* No goroutine works on a handle that is not open: on the way up it starts
\* after the open, on a graceful way down it has ended before the deferred
\* close.
HandlesOpenWhileUsed ==
    lcStage \notin {"closing", "exited"} \/ graceful =>
        \A c \in live, h \in Handles : h \in Needs(c) =>
            \E k \in DOMAIN opened : opened[k] = h

\* While a pod takes telemetry, and until a signal or a fault, everything
\* between the request and durable storage runs: a span accepted then never
\* waits for a goroutine that was not started.
TrafficMeetsWholePod ==
    listening /\ ApiWired /\ lcMode # "writer" /\ ~signalled /\ calm =>
        /\ {"flush", "drain"} \subseteq live
        /\ (IF lcMode = "standalone" THEN "worker" ELSE "forwarder") \in live

\* A stop without faults leaves no count behind: when the process exits the
\* span ledger's last report holds every span the pod counted, the ones it
\* forwarded from the spool last of all included.
CountsReported ==
    lcStage = "exited" /\ graceful /\ calm => tally = {} /\ unflushed = {}

\* A pod of each mode starts and stops in an order that keeps what it accepted:
\* traffic meets a whole pod, handles outlive their users, schedulers outlive
\* the writers, the wait ends, and items and counts are kept (serve.go).
PodsInv ==
    /\ LcTypeOK
    /\ AcceptedIsKept
    /\ SchedulerOutlivesWriters
    /\ WaitEnds
    /\ HandlesOpenWhileUsed
    /\ TrafficMeetsWholePod
    /\ CountsReported
=============================================================================
