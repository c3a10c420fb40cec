----------------------------- MODULE Exporters ------------------------------
(***************************************************************************)
(* The clients that send telemetry in batches over HTTP: the Go, Python    *)
(* and JavaScript SDKs (sdks/), SpanBarn's own log and error exporters     *)
(* (internal/observability) and its web page (web/src/instrumentation.ts). *)
(* All of them buffer what an application gives them, send it from one or  *)
(* several flushers, drop rather than block, and flush when they stop.     *)
(*                                                                         *)
(* expKind says which client a behaviour is about.  Items end in the order *)
(* of their numbers.  A failed request has reached the server or not.      *)
(***************************************************************************)
EXTENDS Integers, Sequences, FiniteSets, SequencesExt

CONSTANTS
    ExpKinds,      \* the clients
    MaxItems, ExpQueueSize, ExpBatchSize,
    MaxBackoff,    \* ticks a JavaScript client may have to wait
    MaxExpFaults,
    MaxPages       \* pages a web session visits

ASSUME ExporterAssumption == ExpBatchSize \in 1..ExpQueueSize

VARIABLES
    expKind,
    expQueue,      \* the buffer
    hand,          \* flusher -> the batch it is sending
    flusher,       \* flusher -> what it is doing
    backoff,       \* ticks until the JavaScript client sends again
    failing,       \* its consecutive failures
    expPhase,      \* "on", "stopping", "stopped"
    nextItem,
    page,          \* the page's trace: its number, sampled, with an error, span pending
    calls,         \* fetches under way: item -> the trace in its header
    itemTrace,     \* the trace an item is recorded under
    badItems,      \* items that are errors
    droppedCount,  \* BugBarn's count of lost events
    expFaults,
    arrived,       \* item -> how often the server received it (history)
    dropped, failed,  \* items dropped by the client, items of a failed request (history)
    uncertain,     \* items of a request whose answer was lost (history)
    owedAtStop     \* items that had ended when the client was stopped (history)

expVars == <<expKind, expQueue, hand, flusher, backoff, failing, expPhase, nextItem, page, calls, itemTrace, badItems,
             droppedCount, expFaults, arrived, dropped, failed, uncertain, owedAtStop>>
sendVars == <<arrived, failed, uncertain, expFaults>>
pageVars == <<page, calls, itemTrace, badItems>>

ExpItems == 1..MaxItems
Flushers == 1..2
NoPage == [trace |-> 0, sampled |-> FALSE, bad |-> FALSE, pending |-> 0]
InHand == UNION {ToSet(hand[f]) : f \in Flushers}

ExpInit ==
    /\ expKind \in ExpKinds
    /\ expQueue = <<>> /\ hand = [f \in Flushers |-> <<>>] /\ flusher = [f \in Flushers |-> "idle"]
    /\ backoff = 0 /\ failing = 0 /\ expPhase = "on" /\ nextItem = 1
    /\ page = NoPage /\ calls = [i \in ExpItems |-> 0] /\ itemTrace = [i \in ExpItems |-> 0] /\ badItems = {}
    /\ droppedCount = 0 /\ expFaults = 0
    /\ arrived = [i \in ExpItems |-> 0] /\ dropped = {} /\ failed = {} /\ uncertain = {} /\ owedAtStop = {}

-----------------------------------------------------------------------------
(* Buffering. *)

Full == Len(expQueue) >= ExpQueueSize

\* The Go client's enqueue, and put_nowait of the Python client: a full queue
\* drops the new span.
GoEnqueue(i) ==
    /\ expQueue' = IF Full THEN expQueue ELSE Append(expQueue, i)
    /\ dropped' = IF Full THEN dropped \cup {i} ELSE dropped
    /\ UNCHANGED <<hand, flusher, droppedCount>>

PyEnqueue(i) == GoEnqueue(i)

\* The log exporter's enqueue.
LogEnqueue(i) == GoEnqueue(i)

\* Mutant: an event a full queue turns away is not counted.
BugEnqueue_Uncounted(i) == GoEnqueue(i)

\* BugBarn's enqueue counts what it drops.
BugEnqueue(i) ==
    /\ expQueue' = IF Full THEN expQueue ELSE Append(expQueue, i)
    /\ dropped' = IF Full THEN dropped \cup {i} ELSE dropped
    /\ droppedCount' = IF Full THEN droppedCount + 1 ELSE droppedCount
    /\ UNCHANGED <<hand, flusher>>

\* The first spans of a queue, a batch of them.
Splice(q) == SubSeq(q, 1, IF Len(q) < ExpBatchSize THEN Len(q) ELSE ExpBatchSize)
AfterSplice(q) == SubSeq(q, Len(Splice(q)) + 1, Len(q))

\* Mutant: the batch that is sent stays in the queue.
JsFlush_Slice(q, f) ==
    /\ expQueue' = q
    /\ hand' = [hand EXCEPT ![f] = Splice(q)] /\ flusher' = [flusher EXCEPT ![f] = "sending"]

\* flush of the JavaScript client takes a batch and awaits the answer.
JsFlush(q, f) ==
    /\ expQueue' = AfterSplice(q)
    /\ hand' = [hand EXCEPT ![f] = Splice(q)] /\ flusher' = [flusher EXCEPT ![f] = "sending"]

\* flush returns at once on an empty queue and while it backs off.
JsMayFlush(q) == q # <<>> /\ backoff = 0

\* Its enqueue drops the oldest span of a full queue, and flushes when a batch
\* is full (at most as many flushes as Flushers are under way at once).
JsEnqueue(i) ==
    LET q == Append(IF Full THEN Tail(expQueue) ELSE expQueue, i)
    IN /\ dropped' = IF Full THEN dropped \cup {Head(expQueue)} ELSE dropped
       /\ IF Len(q) >= ExpBatchSize /\ JsMayFlush(q)
          THEN \E f \in Flushers : flusher[f] = "idle" /\ JsFlush(q, f)
          ELSE expQueue' = q /\ UNCHANGED <<hand, flusher>>
       /\ UNCHANGED droppedCount

\* An item ends: a span's End, a log record, a captured error.
ItemEnds ==
    /\ expKind # "web" /\ nextItem <= MaxItems /\ nextItem' = nextItem + 1
    /\ CASE expKind = "go" -> GoEnqueue(nextItem)
         [] expKind = "python" -> PyEnqueue(nextItem)
         [] expKind = "logs" -> LogEnqueue(nextItem)
         [] expKind = "bugbarn" -> BugEnqueue(nextItem)
         [] OTHER -> JsEnqueue(nextItem)
    /\ UNCHANGED <<expKind, backoff, failing, expPhase, sendVars, owedAtStop>> /\ UNCHANGED pageVars

-----------------------------------------------------------------------------
(* Sending. *)

\* The request of a batch ends: "ok", "failed" before it arrived, or "lost"
\* when the answer did not come back.
Received(batch, outcome) ==
    /\ arrived' = [i \in ExpItems |-> IF outcome # "failed" /\ i \in ToSet(batch) THEN arrived[i] + 1 ELSE arrived[i]]
    /\ failed' = IF outcome = "ok" THEN failed ELSE failed \cup ToSet(batch)
    /\ uncertain' = IF outcome = "lost" THEN uncertain \cup ToSet(batch) ELSE uncertain
    /\ outcome # "ok" => expFaults < MaxExpFaults
    /\ expFaults' = IF outcome = "ok" THEN expFaults ELSE expFaults + 1

\* The Go and BugBarn flush loops wake up, on a tick or on done; BugBarn's
\* Flush runs in the goroutine that recovered a panic.
FlushStarts(f) ==
    /\ expKind \in {"go", "bugbarn"} /\ flusher[f] = "idle"
    /\ IF f = 1 THEN TRUE ELSE expKind = "bugbarn" /\ expPhase = "on"
    /\ flusher' = [flusher EXCEPT ![f] = IF f = 1 /\ expPhase = "stopping" THEN "last" ELSE "flush"]
    /\ UNCHANGED <<expKind, expQueue, hand, backoff, failing, expPhase, nextItem, droppedCount, sendVars, dropped, owedAtStop>>
    /\ UNCHANGED pageVars

\* How much one round of a flush takes: BugBarn sends its events one by one.
Round == IF expKind = "bugbarn" /\ expQueue # <<>> THEN <<Head(expQueue)>> ELSE Splice(expQueue)

\* One round of flush: take a batch and send it, until the queue is empty.
FlushTakes(f) ==
    /\ flusher[f] \in {"flush", "last"} /\ hand[f] = <<>> /\ expQueue # <<>>
    /\ hand' = [hand EXCEPT ![f] = Round]
    /\ expQueue' = SubSeq(expQueue, Len(Round) + 1, Len(expQueue))
    /\ UNCHANGED <<expKind, flusher, backoff, failing, expPhase, nextItem, droppedCount, sendVars, dropped, owedAtStop>>
    /\ UNCHANGED pageVars

\* The flush that found done closed is the loop's last.
FlushEnds(f) == flusher' = [flusher EXCEPT ![f] = IF @ = "last" THEN "exited" ELSE "idle"]

\* Send of the Go client: what fails is gone, and a batch that is not full
\* ends the flush.  send of BugBarn counts what fails.
GoSends(f, outcome) ==
    /\ flusher[f] \in {"flush", "last"} /\ hand[f] # <<>>
    /\ Received(hand[f], outcome) /\ hand' = [hand EXCEPT ![f] = <<>>]
    /\ droppedCount' = IF expKind = "bugbarn" /\ outcome # "ok" THEN droppedCount + 1 ELSE droppedCount
    /\ IF expKind = "go" /\ Len(hand[f]) < ExpBatchSize THEN FlushEnds(f) ELSE UNCHANGED flusher
    /\ UNCHANGED <<expKind, expQueue, backoff, failing, expPhase, nextItem, dropped, owedAtStop>> /\ UNCHANGED pageVars

\* The flush finds the queue empty.
SendEnds(f) ==
    /\ flusher[f] \in {"flush", "last"} /\ hand[f] = <<>> /\ expQueue = <<>>
    /\ FlushEnds(f)
    /\ UNCHANGED <<expKind, expQueue, hand, backoff, failing, expPhase, nextItem, droppedCount, sendVars, dropped, owedAtStop>>
    /\ UNCHANGED pageVars

\* run of the log exporter: a record at a time into the batch, which is sent
\* when it is full or on a tick; on done everything that is left, in one batch.
LogTakes ==
    /\ expKind = "logs" /\ flusher[1] = "idle" /\ expQueue # <<>> /\ Len(hand[1]) < ExpBatchSize
    /\ hand' = [hand EXCEPT ![1] = Append(@, Head(expQueue))] /\ expQueue' = Tail(expQueue)
    /\ UNCHANGED <<expKind, flusher, backoff, failing, expPhase, nextItem, droppedCount, sendVars, dropped, owedAtStop>>
    /\ UNCHANGED pageVars

LogSends(outcome) ==
    /\ expKind = "logs" /\ flusher[1] = "idle" /\ hand[1] # <<>>
    /\ Received(hand[1], outcome) /\ hand' = [hand EXCEPT ![1] = <<>>]
    /\ UNCHANGED <<expKind, expQueue, flusher, backoff, failing, expPhase, nextItem, droppedCount, dropped, owedAtStop>>
    /\ UNCHANGED pageVars

\* Mutant: on done the batch is sent without what is still queued.
LogRest_Batch == hand[1]

LogRest == hand[1] \o expQueue

LogExits(outcome) ==
    /\ expKind = "logs" /\ flusher[1] = "idle" /\ expPhase = "stopping" /\ Len(hand[1]) < ExpBatchSize
    /\ LogRest = <<>> => outcome = "ok"
    /\ Received(LogRest, outcome) /\ hand' = [hand EXCEPT ![1] = <<>>] /\ expQueue' = <<>>
    /\ flusher' = [flusher EXCEPT ![1] = "exited"]
    /\ UNCHANGED <<expKind, backoff, failing, expPhase, nextItem, droppedCount, dropped, owedAtStop>> /\ UNCHANGED pageVars

\* _flush_loop of the Python client takes a batch; it may have been waiting
\* for one when the shutdown event was set ...
PyTakes ==
    /\ expKind = "python" /\ flusher[1] = "idle" /\ expQueue # <<>>
    /\ hand' = [hand EXCEPT ![1] = Splice(expQueue)] /\ expQueue' = AfterSplice(expQueue)
    /\ flusher' = [flusher EXCEPT ![1] = "sending"]
    /\ UNCHANGED <<expKind, backoff, failing, expPhase, nextItem, droppedCount, sendVars, dropped, owedAtStop>> /\ UNCHANGED pageVars

\* ... and, once it has seen the event, everything that is left.
PyDrains ==
    /\ expKind = "python" /\ expPhase # "on"
    /\ flusher[1] = "woken" \/ (flusher[1] = "idle" /\ expQueue = <<>>)
    /\ hand' = [hand EXCEPT ![1] = expQueue] /\ expQueue' = <<>>
    /\ flusher' = [flusher EXCEPT ![1] = "draining"]
    /\ UNCHANGED <<expKind, backoff, failing, expPhase, nextItem, droppedCount, sendVars, dropped, owedAtStop>> /\ UNCHANGED pageVars

\* _send_batch.  It encodes the batch outside its try: a span json.dumps
\* cannot encode ("raises") loses the batch and ends the thread of the loop.
PySends(outcome) ==
    /\ expKind = "python" /\ flusher[1] \in {"sending", "draining"}
    /\ hand[1] = <<>> => outcome = "ok"
    /\ Received(hand[1], IF outcome = "raises" THEN "failed" ELSE outcome) /\ hand' = [hand EXCEPT ![1] = <<>>]
    /\ flusher' = [flusher EXCEPT ![1] = CASE outcome = "raises" -> "dead"
                                           [] @ = "draining" -> "exited"
                                           [] expPhase = "on" -> "idle"
                                           [] OTHER -> "woken"]
    /\ UNCHANGED <<expKind, expQueue, backoff, failing, expPhase, nextItem, droppedCount, dropped, owedAtStop>> /\ UNCHANGED pageVars

\* The interval of the JavaScript client fires.
JsTimer(f) ==
    /\ expKind = "js" /\ expPhase = "on" /\ flusher[f] = "idle" /\ JsMayFlush(expQueue)
    /\ JsFlush(expQueue, f)
    /\ UNCHANGED <<expKind, backoff, failing, expPhase, nextItem, droppedCount, sendVars, dropped, owedAtStop>> /\ UNCHANGED pageVars

\* Mutant: a failed batch is put back whole.
Requeue_Whole(batch) == batch \o expQueue

\* A failed batch goes back to the front, as far as the queue has room.
Requeue(batch) ==
    LET room == ExpQueueSize - Len(expQueue)
    IN SubSeq(batch, 1, IF room < Len(batch) THEN room ELSE Len(batch)) \o expQueue

\* The backoff after a number of failures in a row doubles up to a bound.
JsBackoff(n) == LET d == 2 ^ (n - 1) IN IF d > MaxBackoff THEN MaxBackoff ELSE d

\* The answer a flush of the JavaScript client awaits.
JsAnswered(f, outcome) ==
    /\ expKind = "js" /\ flusher[f] = "sending"
    /\ Received(hand[f], outcome)
    /\ hand' = [hand EXCEPT ![f] = <<>>]
    /\ flusher' = [flusher EXCEPT ![f] = "idle"]
    /\ IF outcome = "ok"
       THEN /\ failing' = 0 /\ backoff' = 0 /\ UNCHANGED <<expQueue, dropped>>
       ELSE /\ expQueue' = Requeue(hand[f])
            /\ dropped' = dropped \cup (ToSet(hand[f]) \ ToSet(Requeue(hand[f])))
            /\ failing' = failing + 1 /\ backoff' = JsBackoff(failing + 1)
    /\ UNCHANGED <<expKind, expPhase, nextItem, droppedCount, owedAtStop>> /\ UNCHANGED pageVars

JsWaits ==
    /\ backoff > 0 /\ backoff' = backoff - 1
    /\ UNCHANGED <<expKind, expQueue, hand, flusher, failing, expPhase, nextItem, droppedCount, sendVars, dropped, owedAtStop>>
    /\ UNCHANGED pageVars

-----------------------------------------------------------------------------
(* Shutdown. *)

\* Shutdown of the Go, log and BugBarn clients closes done and waits.  The
\* Python client first waits, for ten seconds at most, for an empty queue.
ShutdownStarts ==
    /\ expKind \in {"go", "python", "logs", "bugbarn"} /\ expPhase = "on"
    /\ expPhase' = "stopping" /\ owedAtStop' = 1..(nextItem - 1)
    /\ UNCHANGED <<expKind, expQueue, hand, flusher, backoff, failing, nextItem, droppedCount, sendVars, dropped>>
    /\ UNCHANGED pageVars

\* The Python client joins its thread for five seconds at most.
ShutdownReturns ==
    /\ expPhase = "stopping" /\ (flusher[1] = "exited" \/ expKind = "python")
    /\ expPhase' = "stopped"
    /\ UNCHANGED <<expKind, expQueue, hand, flusher, backoff, failing, nextItem, droppedCount, sendVars, dropped, owedAtStop>>
    /\ UNCHANGED pageVars

\* shutdown of the JavaScript client clears the timer and flushes once.
JsShutdown(f) ==
    /\ expKind = "js" /\ expPhase = "on" /\ flusher[f] = "idle"
    /\ expPhase' = "stopped" /\ owedAtStop' = 1..(nextItem - 1)
    /\ IF JsMayFlush(expQueue) THEN JsFlush(expQueue, f) ELSE UNCHANGED <<expQueue, hand, flusher>>
    /\ UNCHANGED <<expKind, backoff, failing, nextItem, droppedCount, sendVars, dropped>> /\ UNCHANGED pageVars

-----------------------------------------------------------------------------
(* The web page: one queue per page trace, sent when the trace is sampled or *)
(* has an error.                                                             *)

\* finalizePageSpan.
FinalizePageSpan(q) == IF page.pending = 0 THEN q ELSE Append(q, page.pending)

\* sendBatch forgets the request.
SendBatch(batch) == \E outcome \in {"ok", "failed", "lost"} : Received(batch, outcome)

\* commitTrace: send or drop everything of the trace that ends.
CommitTrace ==
    LET q == FinalizePageSpan(expQueue)
    IN /\ expQueue' = <<>>
       /\ IF q # <<>> /\ (page.sampled \/ page.bad)
          THEN SendBatch(q) /\ UNCHANGED dropped
          ELSE dropped' = dropped \cup ToSet(q) /\ UNCHANGED sendVars

\* Mutant: the page's own span is overwritten before it is finalized.
LeavePage_NoFinalize ==
    /\ expQueue' = <<>> /\ dropped' = dropped \cup ToSet(expQueue) /\ UNCHANGED sendVars

\* Mutant: a navigation starts the next trace over the old buffer.
LeavePage_Keeps ==
    /\ expQueue' = FinalizePageSpan(expQueue) /\ UNCHANGED <<sendVars, dropped>>

LeavePage == CommitTrace

\* startPageTrace, with a span for the new page.
StartPageTrace(sampled) ==
    /\ expKind = "web" /\ page.trace < MaxPages /\ nextItem <= MaxItems
    /\ LeavePage
    /\ page' = [trace |-> page.trace + 1, sampled |-> sampled, bad |-> FALSE, pending |-> nextItem]
    /\ itemTrace' = [itemTrace EXCEPT ![nextItem] = page.trace + 1]
    /\ nextItem' = nextItem + 1
    /\ UNCHANGED <<expKind, hand, flusher, backoff, failing, expPhase, calls, badItems, droppedCount, owedAtStop>>

\* window.fetch: the traceparent header is made when the request leaves.
FetchLeaves ==
    /\ expKind = "web" /\ page.trace > 0 /\ nextItem <= MaxItems
    /\ calls' = [calls EXCEPT ![nextItem] = page.trace] /\ nextItem' = nextItem + 1
    /\ UNCHANGED <<expKind, expQueue, hand, flusher, backoff, failing, expPhase, page, itemTrace, badItems, droppedCount,
                   sendVars, dropped, owedAtStop>>

\* enqueueSpan: an error sends the whole buffer, a sampled trace a full batch;
\* a buffer of the queue's size is emptied.
EnqueueSpan(i, bad) ==
    LET q == Append(expQueue, i)
    IN IF bad \/ page.bad
       THEN /\ expQueue' = <<>> /\ SendBatch(FinalizePageSpan(q)) /\ UNCHANGED dropped
            /\ page' = [page EXCEPT !.bad = TRUE, !.pending = 0]
       ELSE IF page.sampled /\ Len(q) >= ExpBatchSize
       THEN /\ expQueue' = AfterSplice(FinalizePageSpan(q)) /\ SendBatch(Splice(FinalizePageSpan(q)))
            /\ page' = [page EXCEPT !.pending = 0] /\ UNCHANGED dropped
       ELSE /\ expQueue' = IF Len(q) >= ExpQueueSize THEN <<>> ELSE q
            /\ dropped' = IF Len(q) >= ExpQueueSize THEN dropped \cup ToSet(q) ELSE dropped
            /\ UNCHANGED <<page, sendVars>>

\* The response is recorded under the trace of the page that is open then.
FetchReturns(i, bad) ==
    /\ expKind = "web" /\ calls[i] # 0
    /\ calls' = [calls EXCEPT ![i] = 0]
    /\ itemTrace' = [itemTrace EXCEPT ![i] = page.trace]
    /\ badItems' = IF bad THEN badItems \cup {i} ELSE badItems
    /\ EnqueueSpan(i, bad)
    /\ UNCHANGED <<expKind, hand, flusher, backoff, failing, expPhase, nextItem, droppedCount, owedAtStop>>

\* A web vital is observed.
WebVital ==
    /\ expKind = "web" /\ page.trace > 0 /\ nextItem <= MaxItems
    /\ itemTrace' = [itemTrace EXCEPT ![nextItem] = page.trace] /\ nextItem' = nextItem + 1
    /\ EnqueueSpan(nextItem, FALSE)
    /\ UNCHANGED <<expKind, hand, flusher, backoff, failing, expPhase, calls, badItems, droppedCount, owedAtStop>>

\* flushSpans on its interval ends the page's span and sends a sampled trace.
FlushSpans ==
    /\ expKind = "web" /\ FinalizePageSpan(expQueue) # <<>>
    /\ page.pending # 0 \/ page.sampled
    /\ page' = [page EXCEPT !.pending = 0]
    /\ IF page.sampled
       THEN expQueue' = AfterSplice(FinalizePageSpan(expQueue)) /\ SendBatch(Splice(FinalizePageSpan(expQueue)))
       ELSE expQueue' = FinalizePageSpan(expQueue) /\ UNCHANGED sendVars
    /\ UNCHANGED <<expKind, hand, flusher, backoff, failing, expPhase, nextItem, calls, itemTrace, badItems, droppedCount,
                   dropped, owedAtStop>>

\* The page is hidden.
PageHidden ==
    /\ expKind = "web" /\ FinalizePageSpan(expQueue) # <<>>
    /\ CommitTrace /\ page' = [page EXCEPT !.pending = 0]
    /\ UNCHANGED <<expKind, hand, flusher, backoff, failing, expPhase, nextItem, calls, itemTrace, badItems, droppedCount, owedAtStop>>

-----------------------------------------------------------------------------
ExpNext ==
    \/ ItemEnds \/ LogTakes \/ PyTakes \/ PyDrains \/ JsWaits \/ ShutdownStarts \/ ShutdownReturns
    \/ \E f \in Flushers : FlushStarts(f) \/ FlushTakes(f) \/ SendEnds(f) \/ JsTimer(f) \/ JsShutdown(f)
    \/ \E outcome \in {"ok", "failed", "lost"} :
          LogSends(outcome) \/ LogExits(outcome) \/ \E f \in Flushers : GoSends(f, outcome) \/ JsAnswered(f, outcome)
    \/ \E outcome \in {"ok", "failed", "lost", "raises"} : PySends(outcome)
    \/ \E bad \in BOOLEAN : StartPageTrace(bad) \/ \E i \in ExpItems : FetchReturns(i, bad)
    \/ FetchLeaves \/ WebVital \/ FlushSpans \/ PageHidden

ExpSpec == ExpInit /\ [][ExpNext]_expVars

-----------------------------------------------------------------------------
(* Properties. *)

\* Every buffer holds items that have ended, each once, and stays in its bound.
ExpTypeOK ==
    /\ expPhase \in {"on", "stopping", "stopped"} /\ backoff \in 0..MaxBackoff
    /\ Len(expQueue) <= ExpQueueSize + 1 /\ ToSet(expQueue) \cup InHand \subseteq 1..(nextItem - 1)

\* A buffer never outgrows the configured size: not when a failed batch comes
\* back to a queue that has filled up meanwhile.
BufferCapped == Len(expQueue) <= ExpQueueSize

\* Nothing is sent twice, except by the JavaScript client after a request
\* whose answer was lost.
SentOnce == \A i \in ExpItems : arrived[i] > 1 => expKind = "js" /\ i \in uncertain

\* Every item is in a buffer, arrived, or is accounted for as dropped or
\* failed.
NothingVanishes ==
    \A i \in 1..(nextItem - 1) :
        \/ i \in ToSet(expQueue) \cup InHand \cup dropped \cup failed \/ arrived[i] > 0
        \/ calls[i] # 0 \/ page.pending = i

\* Items the client is done with and that never reached the server.
NeverReached == {i \in 1..(nextItem - 1) : arrived[i] = 0 /\ i \notin ToSet(expQueue) \cup InHand}

\* BugBarn's Dropped counts every event that never reached BugBarn
\* (bugbarn.go:152), each once, and besides them only events of a request
\* whose answer was lost: send counts a transport error, which does not say
\* whether the event arrived.
DropsCounted == expKind = "bugbarn" => droppedCount = Cardinality(NeverReached \cup uncertain)

\* Once a client is stopped and its flush loop has ended, everything that had
\* ended before Shutdown was called was sent, or lost to a full queue or a
\* failed request, or is being sent by the goroutine of a BugBarn Flush.  The
\* exception is a Python client whose thread died of a batch it could not
\* encode: nobody sends what is still queued.  (The JavaScript client flushes
\* one batch only.)
ShutdownDelivers ==
    expPhase = "stopped" /\ flusher[1] \in {"exited", "dead"} =>
        \A i \in owedAtStop :
            \/ arrived[i] > 0 \/ i \in dropped \cup failed \cup ToSet(hand[2])
            \/ flusher[1] = "dead" /\ i \in ToSet(expQueue)

\* The web page decides to send or to drop a buffer by the trace of the open
\* page, so the buffer must never hold spans of another page.
OnePageBuffered ==
    expKind = "web" => \A i \in ToSet(expQueue) : itemTrace[i] = page.trace

\* Each client's buffer is capped and accounts for every item: sent once,
\* dropped with a count, or delivered at shutdown (sdk exporters).
ExportersInv ==
    /\ ExpTypeOK
    /\ BufferCapped
    /\ SentOnce
    /\ NothingVanishes
    /\ DropsCounted
    /\ ShutdownDelivers
    /\ OnePageBuffered
=============================================================================
