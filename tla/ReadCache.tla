------------------------------ MODULE ReadCache ------------------------------
(***************************************************************************)
(* The read side's caches.  A "read" key is served by readCached: a miss   *)
(* starts or joins one detached scan per key, at most ReadSlots scans run  *)
(* at once, the request waits until its own deadline and the scan runs on. *)
(* A "stats" key is served by serveSWR: a stale hit or a miss starts one   *)
(* background refresh per key, and a miss also computes inline.  "vitals"  *)
(* keys (web vitals) refresh in the background on a stale hit only.        *)
(*                                                                         *)
(* A result is the time its computation read the database.  Deadlines are  *)
(* clock values and a step that is due happens before the clock moves.     *)
(***************************************************************************)
EXTENDS Integers, FiniteSets

CONSTANTS
    ReadKeys, StatsKeys, VitalsKeys,  \* cache keys, by the code that serves them
    RcReqs,        \* requests at the same time
    ReadSlots,     \* readComputeSlots
    Fresh, Stale,  \* fresh and stale windows of an entry (grain, 4 * grain)
    RequestBudget, \* a request's read budget
    ScanBudget,    \* readComputeBudget
    RefreshBudget, \* time limit of a background refresh
    RcStores,      \* "memory" and "redis"
    RcMaxTime, MaxRcFaults

ASSUME ReadCacheAssumption ==
    /\ {ReadSlots, Fresh, Stale, RequestBudget, ScanBudget, RefreshBudget} \subseteq Nat \ {0}
    /\ {RcMaxTime, MaxRcFaults} \subseteq Nat
    /\ Fresh <= Stale
    /\ RcStores \subseteq {"memory", "redis"}

VARIABLES
    rcMode,       \* bound: the kind of key the requests of this run ask for
    rcStore,      \* the cache backend
    rcClock,
    entry,        \* cache entries by key
    scan,         \* readFlight: the scan of each read key
    slotsUsed,    \* tokens in readSlots
    rcReq,        \* requests being served
    refresh,      \* background refreshes of stats and vitals keys
    revalidating, \* statsRevalidating and revalidating: keys being refreshed
    rcFaults,
    rcAnswer,     \* history: what the last step answered
    scanCut       \* history: a scan was cut before it had ScanBudget

rcVars == <<rcMode, rcStore, rcClock, entry, scan, slotsUsed, rcReq, refresh, revalidating, rcFaults, rcAnswer, scanCut>>

BackKeys == StatsKeys \cup VitalsKeys
CacheKeys == ReadKeys \cup BackKeys
NoEntry == [asOf |-> -1]
NoScan == [step |-> "none"]
NoAnswer == [kind |-> "none"]

RcInit ==
    /\ rcMode \in {"read", "stats", "vitals"} /\ rcStore \in RcStores
    /\ rcClock = 0
    /\ entry = [k \in CacheKeys |-> NoEntry]
    /\ scan = [k \in ReadKeys |-> NoScan]
    /\ slotsUsed = 0
    /\ rcReq = [q \in RcReqs |-> NoScan]
    /\ refresh = [k \in BackKeys |-> NoScan]
    /\ revalidating = {}
    /\ rcFaults = 0 /\ rcAnswer = NoAnswer /\ scanCut = FALSE

-----------------------------------------------------------------------------
(* The store.                                                              *)

\* Mutant: an entry never leaves the store.
Found_Always(k) == entry[k] # NoEntry

\* Store.Get falls back to GetStale: Redis evicts an entry after its stale
\* window, the memory store keeps it until it is replaced.
Found(k) == entry[k] # NoEntry /\ (rcStore = "redis" => rcClock < entry[k].evicted)

\* An entry is fresh until the time in its envelope.
IsFresh(k) == rcClock < entry[k].freshUntil

\* SetSWR, and Set for web vitals, whose entries leave Redis once not fresh.
\* Redis refuses a write on a context that has ended, the memory store does not.
SetSWR(k, asOf, ctxEnded) ==
    entry' = IF rcStore = "redis" /\ ctxEnded THEN entry
             ELSE [entry EXCEPT ![k] =
                    [asOf |-> asOf, freshUntil |-> rcClock + Fresh,
                     evicted |-> rcClock + IF k \in VitalsKeys THEN Fresh ELSE Stale]]

AnswerRead(kind, k, asOf) == rcAnswer' = [kind |-> kind, key |-> k, asOf |-> asOf]

-----------------------------------------------------------------------------
(* Read keys: readCached.                                                  *)

\* Mutant: the scan ends with the request that started it.
ReadDetached_Request == rcClock + RequestBudget

\* readDetached: the request's deadline, but at least ScanBudget from now.
ReadDetached ==
    IF RequestBudget < ScanBudget THEN rcClock + ScanBudget ELSE rcClock + RequestBudget

\* startRead joins the scan of this key or starts one, which first waits for
\* a slot.
StartRead(k) ==
    scan' = IF scan[k] # NoScan THEN scan
            ELSE [scan EXCEPT ![k] = [step |-> "queued", until |-> ReadDetached, began |-> rcClock, reads |-> -1]]

\* A request arrives: a hit answers at once (a stale one also starts a scan),
\* a miss waits for the scan.
ReadCached(q, k) ==
    /\ rcReq[q] = NoScan
    /\ IF Found(k)
       THEN /\ AnswerRead("hit", k, entry[k].asOf)
            /\ IF IsFresh(k) THEN UNCHANGED scan ELSE StartRead(k)
            /\ UNCHANGED rcReq
       ELSE /\ StartRead(k)
            /\ rcReq' = [rcReq EXCEPT ![q] = [step |-> "waiting", key |-> k, until |-> rcClock + RequestBudget]]
            /\ rcAnswer' = NoAnswer
    /\ UNCHANGED <<rcMode, rcStore, rcClock, entry, slotsUsed, refresh, revalidating, rcFaults, scanCut>>

\* A queued scan takes a slot and reads the database.
ScanStarts(k) ==
    /\ scan[k].step = "queued" /\ slotsUsed < ReadSlots
    /\ slotsUsed' = slotsUsed + 1
    /\ scan' = [scan EXCEPT ![k].step = "running", ![k].reads = rcClock]
    /\ rcAnswer' = NoAnswer
    /\ UNCHANGED <<rcMode, rcStore, rcClock, entry, rcReq, refresh, revalidating, rcFaults, scanCut>>

\* Mutant: only a scan that succeeds gives its slot back.
ReleaseSlot_OnSuccess(ok) == slotsUsed' = IF ok THEN slotsUsed - 1 ELSE slotsUsed

\* The deferred release of a slot: after a result, an error and a panic.
ReleaseSlot(ok) == slotsUsed' = slotsUsed - 1

\* awaitRead of everyone who waits for k.
WaitersLeave(k) ==
    rcReq' = [q \in RcReqs |-> IF rcReq[q].step = "waiting" /\ rcReq[q].key = k THEN NoScan ELSE rcReq[q]]

\* The scan returns: its result is cached and answers who waits.
ScanEnds(k) ==
    /\ scan[k].step = "running"
    /\ SetSWR(k, scan[k].reads, FALSE)
    /\ AnswerRead("computed", k, scan[k].reads)
    /\ ReleaseSlot(TRUE) /\ WaitersLeave(k)
    /\ scan' = [scan EXCEPT ![k] = NoScan]
    /\ UNCHANGED <<rcMode, rcStore, rcClock, refresh, revalidating, rcFaults, scanCut>>

\* The scan fails or panics.
ScanFails(k) ==
    /\ scan[k].step = "running" /\ rcFaults < MaxRcFaults
    /\ rcFaults' = rcFaults + 1
    /\ ReleaseSlot(FALSE) /\ WaitersLeave(k)
    /\ scan' = [scan EXCEPT ![k] = NoScan]
    /\ rcAnswer' = NoAnswer
    /\ UNCHANGED <<rcMode, rcStore, rcClock, entry, refresh, revalidating, scanCut>>

\* The scan's context ends, while it waits for a slot or while it runs.
ScanTimesOut(k) ==
    /\ scan[k] # NoScan /\ rcClock >= scan[k].until
    /\ IF scan[k].step = "running" THEN ReleaseSlot(FALSE) ELSE UNCHANGED slotsUsed
    /\ WaitersLeave(k)
    /\ scanCut' = (scanCut \/ rcClock - scan[k].began < ScanBudget)
    /\ scan' = [scan EXCEPT ![k] = NoScan]
    /\ rcAnswer' = NoAnswer
    /\ UNCHANGED <<rcMode, rcStore, rcClock, entry, refresh, revalidating, rcFaults>>

\* The request's budget ends first: 503, and the scan runs on.
RequestLeaves(q) ==
    /\ rcReq[q].step = "waiting" /\ rcClock >= rcReq[q].until
    /\ rcReq' = [rcReq EXCEPT ![q] = NoScan]
    /\ rcAnswer' = NoAnswer
    /\ UNCHANGED <<rcMode, rcStore, rcClock, entry, scan, slotsUsed, refresh, revalidating, rcFaults, scanCut>>

-----------------------------------------------------------------------------
(* Stats and web vitals keys.                                              *)

\* kickBackgroundRefresh, warmEntry and GetWebVitals: one refresh per key.
KickBackgroundRefresh(k) ==
    IF k \in revalidating THEN UNCHANGED <<refresh, revalidating>>
    ELSE /\ revalidating' = revalidating \cup {k}
         /\ refresh' = [refresh EXCEPT ![k] = [step |-> "running", began |-> rcClock]]

\* serveSWR: a hit answers, a miss computes inline next to a refresh.
ServeSWR(q, k) ==
    /\ rcReq[q] = NoScan
    /\ IF Found(k)
       THEN /\ AnswerRead("hit", k, entry[k].asOf)
            /\ IF IsFresh(k) THEN UNCHANGED <<refresh, revalidating>> ELSE KickBackgroundRefresh(k)
            /\ UNCHANGED rcReq
       ELSE /\ KickBackgroundRefresh(k)
            /\ rcReq' = [rcReq EXCEPT ![q] = [step |-> "inline", key |-> k, began |-> rcClock, until |-> rcClock + RequestBudget]]
            /\ rcAnswer' = NoAnswer
    /\ UNCHANGED <<rcMode, rcStore, rcClock, entry, scan, slotsUsed, rcFaults, scanCut>>

\* GetWebVitals: a miss computes inline and starts no refresh.
GetWebVitals(q, k) ==
    /\ rcReq[q] = NoScan
    /\ IF Found(k)
       THEN /\ AnswerRead("hit", k, entry[k].asOf)
            /\ IF IsFresh(k) THEN UNCHANGED <<refresh, revalidating>> ELSE KickBackgroundRefresh(k)
            /\ UNCHANGED rcReq
       ELSE /\ rcReq' = [rcReq EXCEPT ![q] = [step |-> "inline", key |-> k, began |-> rcClock, until |-> rcClock + RequestBudget]]
            /\ rcAnswer' = NoAnswer
            /\ UNCHANGED <<refresh, revalidating>>
    /\ UNCHANGED <<rcMode, rcStore, rcClock, entry, scan, slotsUsed, rcFaults, scanCut>>

\* The inline computation returns and is cached; past the request's budget
\* nobody gets the answer.
InlineEnds(q) ==
    /\ rcReq[q].step = "inline"
    /\ SetSWR(rcReq[q].key, rcReq[q].began, rcClock > rcReq[q].until)
    /\ AnswerRead("computed", rcReq[q].key, rcReq[q].began)
    /\ rcReq' = [rcReq EXCEPT ![q] = NoScan]
    /\ UNCHANGED <<rcMode, rcStore, rcClock, scan, slotsUsed, refresh, revalidating, rcFaults, scanCut>>

InlineFails(q) ==
    /\ rcReq[q].step = "inline" /\ rcFaults < MaxRcFaults
    /\ rcFaults' = rcFaults + 1
    /\ rcReq' = [rcReq EXCEPT ![q] = NoScan]
    /\ rcAnswer' = NoAnswer
    /\ UNCHANGED <<rcMode, rcStore, rcClock, entry, scan, slotsUsed, refresh, revalidating, scanCut>>

\* WarmCaches at startup: the same refresh without a request.
WarmEntry(k) ==
    /\ rcClock = 0 /\ k \notin revalidating
    /\ KickBackgroundRefresh(k)
    /\ rcAnswer' = NoAnswer
    /\ UNCHANGED <<rcMode, rcStore, rcClock, entry, scan, slotsUsed, rcReq, rcFaults, scanCut>>

RefreshEnds(k) ==
    /\ refresh[k] # NoScan
    /\ SetSWR(k, refresh[k].began, rcClock > refresh[k].began + RefreshBudget)
    /\ refresh' = [refresh EXCEPT ![k] = NoScan]
    /\ revalidating' = revalidating \ {k}
    /\ rcAnswer' = NoAnswer
    /\ UNCHANGED <<rcMode, rcStore, rcClock, scan, slotsUsed, rcReq, rcFaults, scanCut>>

\* Mutant: the key is released after the result is stored, so not on an error.
AfterFailure_Held(k) == revalidating

\* The deferred Delete runs after an error, a timeout and a panic too.
AfterFailure(k) == revalidating \ {k}

ScanRefreshFails(k) ==
    /\ refresh[k] # NoScan /\ rcFaults < MaxRcFaults
    /\ rcFaults' = rcFaults + 1
    /\ refresh' = [refresh EXCEPT ![k] = NoScan]
    /\ revalidating' = AfterFailure(k)
    /\ rcAnswer' = NoAnswer
    /\ UNCHANGED <<rcMode, rcStore, rcClock, entry, scan, slotsUsed, rcReq, scanCut>>

\* Time passes once no scan and no waiting request is overdue; a computation
\* outside the slots may take any time.
RcTick ==
    /\ rcClock < RcMaxTime
    /\ \A k \in ReadKeys : scan[k] # NoScan => rcClock < scan[k].until
    /\ \A q \in RcReqs : rcReq[q].step = "waiting" => rcClock < rcReq[q].until
    /\ rcClock' = rcClock + 1
    /\ rcAnswer' = NoAnswer
    /\ UNCHANGED <<rcMode, rcStore, entry, scan, slotsUsed, rcReq, refresh, revalidating, rcFaults, scanCut>>

RcNext ==
    \/ \E q \in RcReqs :
          \/ RequestLeaves(q) \/ InlineEnds(q) \/ InlineFails(q)
          \/ rcMode = "read" /\ \E k \in ReadKeys : ReadCached(q, k)
          \/ rcMode = "stats" /\ \E k \in StatsKeys : ServeSWR(q, k)
          \/ rcMode = "vitals" /\ \E k \in VitalsKeys : GetWebVitals(q, k)
    \/ \E k \in ReadKeys :
          ScanStarts(k) \/ ScanEnds(k) \/ ScanFails(k) \/ ScanTimesOut(k)
    \/ rcMode = "stats" /\ \E k \in StatsKeys : WarmEntry(k)
    \/ \E k \in BackKeys : RefreshEnds(k) \/ ScanRefreshFails(k)
    \/ RcTick

RcSpec == RcInit /\ [][RcNext]_rcVars

-----------------------------------------------------------------------------
RcTypeOK ==
    /\ rcClock \in 0..RcMaxTime /\ rcFaults \in 0..MaxRcFaults /\ slotsUsed \in 0..ReadSlots
    /\ \A k \in CacheKeys : entry[k].asOf \in -1..rcClock
    /\ \A k \in ReadKeys : scan[k].step \in {"none", "queued", "running"}
    /\ \A q \in RcReqs : rcReq[q].step \in {"none", "waiting", "inline"}
    /\ revalidating \subseteq BackKeys

\* The slots in use are exactly the scans that run, whatever way earlier scans
\* ended: a leaked slot would in the end stop every read that misses.
SlotsMatchScans == slotsUsed = Cardinality({k \in ReadKeys : scan[k].step = "running"})

\* A key is marked as being refreshed exactly while a refresh of it runs, so
\* no failed refresh leaves a key that is never refreshed again.
MarkedWhileRefreshing == revalidating = {k \in BackKeys : refresh[k] # NoScan}

\* A scan always gets its whole budget, also when every request that asked
\* for it left at its own deadline: the retry finds a result or a scan.
ScanOutlivesRequest == ~scanCut

\* With Redis, a cached answer is never older than the stale window plus the
\* longest computation that may have filled it.
AnswersBounded ==
    rcStore = "redis" /\ rcAnswer.kind = "hit" =>
        \E longest \in {RequestBudget, IF rcAnswer.key \in ReadKeys THEN ScanBudget ELSE RefreshBudget} :
            rcClock - rcAnswer.asOf <= Stale + longest

\* The read cache leaks no slot and no refresh mark, cuts no scan short, and
\* serves nothing older than its window (cache.go, swr_cache.go).
CacheInv ==
    /\ RcTypeOK
    /\ SlotsMatchScans
    /\ MarkedWhileRefreshing
    /\ ScanOutlivesRequest
    /\ AnswersBounded
=============================================================================
