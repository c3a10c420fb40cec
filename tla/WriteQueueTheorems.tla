------------------------- MODULE WriteQueueTheorems -------------------------
(* The theorems about the write queue: delivered once, never given up        *)
(* wrongly, and an implementation of at-least-once delivery.                 *)
EXTENDS WriteQueueDelivery_proofs

USE DEF lists, goroutine, pods, counts, replays

-----------------------------------------------------------------------------
(* The accumulator. *)

Spending(b) == Cardinality(InStage(b, {"store", "wait"}))

\* One writer moves.
LEMMA SpendingMoves ==
    ASSUME NEW w \in Writers, NEW c \in Batches,
           \A v \in Writers \ {w} : held'[v] = held[v] /\ pc'[v] = pc[v]
    PROVE  /\ Spending(c) \in Nat
           /\ Spending(c)' = Spending(c) - Bit(held[w] = c /\ pc[w] \in {"store", "wait"})
                                + Bit(held'[w] = c /\ pc'[w] \in {"store", "wait"})
  BY OneWriterMoves, HoldersFinite DEF Spending

\* A batch that is being stored has a copy that is not handled yet.
LEMMA SpendingCopies ==
    ASSUME TypeOK, HeldStaysListed, NEW b \in Batches
    PROVE  Spending(b) \in Nat /\ Spending(b) <= Copies(b)
<1> DEFINE S == InStage(b, {"store", "wait"})
           A == InStage(b, {"ack"})
<1>1. IsFiniteSet(S) /\ IsFiniteSet(A) /\ Cardinality(S) \in Nat /\ Cardinality(A) \in Nat
  BY HoldersFinite, Zenon
<1>2. S \cap A = {} /\ S \cup A \in SUBSET Holders(b)
  BY Zenon DEF InStage
<1> HIDE DEF S, A
<1>3. Cardinality(S \cup A) = Cardinality(S) + Cardinality(A)
  BY <1>1, <1>2, FS_Union, FS_EmptySet
<1>4. Cardinality(S \cup A) <= Cardinality(Holders(b)) /\ Cardinality(Holders(b)) \in Nat
  BY <1>2, HoldersFinite, FS_Subset, Zenon
<1>5. /\ Cardinality(Holders(b)) <= Occurs(processing, b) /\ Occurs(processing, b) \in Nat
      /\ Occurs(recent, b) \in Nat /\ Occurs(backlog, b) \in Nat
      /\ Listed(b) = Occurs(recent, b) + Occurs(backlog, b) + Occurs(processing, b)
  BY DeliveryNats, Zenon
<1>6. Copies(b) = Listed(b) - Cardinality(A)
  BY Zenon DEF Copies, A
<1>7. Cardinality(S) <= Copies(b)
  BY <1>1, <1>3, <1>4, <1>5, <1>6, SMTT(30)
<1> QED BY <1>1, <1>7, Zenon DEF S, Spending

\* The consumer of the queue does not change.
LEMMA LoadKept ==
    ASSUME [Next]_vars
    PROVE  load' = load
<1>1. ASSUME NEW w \in Writers, Loop(w) \/ Return(w) \/ Reclaim(w) \/ ReclaimEnds(w) \/ ClaimNothing(w) \/ ClaimFails(w)
      PROVE  load' = load
  BY <1>1, Zenon DEF Loop, Return, Reclaim, ReclaimEnds, ClaimNothing, ClaimFails
<1>2. ASSUME NEW w \in Writers, ClaimRecent(w) \/ ClaimBacklog(w) \/ Process(w) \/ Store(w) \/ Panic(w) PROVE load' = load
  BY <1>2, Zenon DEF ClaimRecent, ClaimBacklog, Claim, Process, Store, Panic
<1>3. ASSUME NEW w \in Writers, StoreFails(w) \/ DiskFull(w) \/ Retry(w) \/ GiveUp(w) \/ Requeue(w) \/ RequeueFails(w)
      PROVE  load' = load
  BY <1>3, Zenon DEF StoreFails, DiskFull, Retry, GiveUp, Requeue, RequeueFails
<1>4. ASSUME NEW w \in Writers, Ack(w) \/ AckFails(w) \/ Start(w) \/ Terminate(w) \/ Exit(w) \/ Kill(w) \/ DelayPasses(w)
      PROVE  load' = load
  BY <1>4, Zenon DEF Ack, AckFails, Start, Terminate, Exit, Kill, DelayPasses
<1>5. ASSUME NEW b \in Batches, Publish(b) PROVE load' = load
  BY <1>5, ZenonT(30) DEF Publish
<1> QED BY <1>1, <1>2, <1>3, <1>4, <1>5, ZenonT(60) DEF Next, Work, vars

\* No step feeds a batch to the accumulator without owing it a store.
LEMMA AccumulatedKept ==
    ASSUME TypeOK, StagesInv, HeldStaysListed, AccumulatedInv, [Next]_vars
    PROVE  AccumulatedInv'
<1>k. load' = load
  BY LoadKept, Zenon
<1> SUFFICES ASSUME Kind = "metrics", NEW c \in Batches
             PROVE  accumulated'[c] <= Handled(c)' + Spending(c)' + killed'[c]
  BY <1>k, Zenon DEF AccumulatedInv, Kind, Spending
<1>a. WritersOK /\ CountsOK
  BY Zenon DEF TypeOK
<1>b. accumulated[c] \in Nat /\ processed[c] \in Nat /\ failed[c] \in Nat /\ dropped[c] \in Nat /\ killed[c] \in Nat
  BY <1>a, Zenon DEF CountsOK
<1>c. Handled(c) = processed[c] + failed[c] + dropped[c] /\ Handled(c)' = processed'[c] + failed'[c] + dropped'[c]
  BY Zenon DEF Handled
<1>d. accumulated[c] <= Handled(c) + Spending(c) + killed[c]
  BY Zenon DEF AccumulatedInv, Spending
<1>e. ASSUME NEW w \in Writers, \A v \in Writers \ {w} : held'[v] = held[v] /\ pc'[v] = pc[v]
      PROVE  /\ Spending(c) \in Nat
             /\ Spending(c)' = Spending(c) - Bit(held[w] = c /\ pc[w] \in {"store", "wait"})
                                  + Bit(held'[w] = c /\ pc'[w] \in {"store", "wait"})
  BY <1>e, SpendingMoves, Zenon
<1>f. Spending(c) \in Nat
  BY HoldersFinite, Zenon DEF Spending
<1>g. ASSUME NEW f \in [Batches -> Nat], NEW b \in Batches PROVE Count(f, b)[c] = f[c] + Bit(b = c)
  BY <1>g, CountType
<1>h. {accumulated, processed, failed, dropped, killed} \subseteq [Batches -> Nat]
  BY <1>a, Zenon DEF CountsOK
<1>1. ASSUME NEW w \in Writers, Process(w) PROVE accumulated'[c] <= Handled(c)' + Spending(c)' + killed'[c]
  <2>1. held[w] \in Batches
    BY <1>1, Holding, Zenon DEF Process
  <2>2. /\ accumulated'[c] = accumulated[c] + Bit(held[w] = c) /\ UNCHANGED <<processed, failed, dropped, killed>>
    <3>1. accumulated' = Count(accumulated, held[w]) /\ UNCHANGED <<processed, failed, dropped, killed>>
      BY <1>1, Zenon DEF Process
    <3> QED BY <1>g, <1>h, <2>1, <3>1, Zenon
  <2>3. /\ \A v \in Writers \ {w} : held'[v] = held[v] /\ pc'[v] = pc[v]
        /\ held'[w] = held[w] /\ pc[w] = "process" /\ pc'[w] = "store"
    BY <1>1, <1>a, Zenon DEF Process, Goto, WritersOK
  <2>4. Spending(c)' = Spending(c) + Bit(held[w] = c)
    BY <1>e, <1>f, <2>3 DEF Bit
  <2> QED BY <1>b, <1>c, <1>d, <1>f, <2>2, <2>4, SMTT(30) DEF Bit
<1>2. ASSUME NEW w \in Writers, Store(w) \/ Panic(w) \/ GiveUp(w)
      PROVE  accumulated'[c] <= Handled(c)' + Spending(c)' + killed'[c]
  <2>1. held[w] \in Batches
    <3>1. pc[w] \in {"store", "wait"}
      BY <1>2, Zenon DEF Store, Panic, GiveUp
    <3> QED BY <3>1, Holding, Zenon
  <2>2. UNCHANGED <<accumulated, killed>> /\ Handled(c)' = Handled(c) + Bit(held[w] = c)
    <3>1. /\ Count(processed, held[w])[c] = processed[c] + Bit(held[w] = c)
          /\ Count(failed, held[w])[c] = failed[c] + Bit(held[w] = c)
          /\ Count(dropped, held[w])[c] = dropped[c] + Bit(held[w] = c)
      BY <1>g, <1>h, <2>1, Zenon
    <3> QED BY <1>2, <1>b, <1>c, <3>1 DEF Store, Panic, GiveUp, Bit
  <2>3. /\ \A v \in Writers \ {w} : held'[v] = held[v] /\ pc'[v] = pc[v]
        /\ pc[w] \in {"store", "wait"} /\ pc'[w] = "ack"
    BY <1>2, <1>a, Zenon DEF Store, Panic, GiveUp, Goto, WritersOK
  <2>4. Spending(c)' = Spending(c) - Bit(held[w] = c)
    BY <1>e, <1>f, <2>3 DEF Bit
  <2> QED BY <1>b, <1>c, <1>d, <1>f, <2>2, <2>4, SMTT(30) DEF Bit
<1>3. ASSUME NEW w \in Writers, Kill(w) PROVE accumulated'[c] <= Handled(c)' + Spending(c)' + killed'[c]
  <2>1. UNCHANGED <<accumulated, processed, failed, dropped>> /\ held'[w] \notin Batches
    BY <1>3, <1>a, QueueAssumption, Zenon DEF Kill, WritersOK
  <2>2. \A v \in Writers \ {w} : held'[v] = held[v] /\ pc'[v] = pc[v]
    BY <1>3, <1>a, Zenon DEF Kill, Goto, WritersOK
  <2>3. Spending(c)' = Spending(c) - Bit(held[w] = c /\ pc[w] \in {"store", "wait"})
    BY <1>e, <1>f, <2>1, <2>2 DEF Bit
  <2>4. killed'[c] >= killed[c] + Bit(held[w] = c /\ pc[w] \in {"store", "wait"}) /\ killed'[c] \in Nat
    <3>1. CASE ~(held[w] # NoBatch /\ pc[w] # "ack")
      <4>1. killed' = killed
        BY <1>3, <3>1, Zenon DEF Kill
      <4>2. ~(held[w] = c /\ pc[w] \in {"store", "wait"})
        BY <3>1, QueueAssumption, Zenon
      <4> QED BY <1>b, <4>1, <4>2 DEF Bit
    <3>2. CASE held[w] # NoBatch /\ pc[w] # "ack"
      <4>1. held[w] \in Batches
        BY <1>a, <3>2, Zenon DEF WritersOK
      <4>2. killed'[c] = killed[c] + Bit(held[w] = c)
        <5>1. killed' = Count(killed, held[w])
          BY <1>3, <3>2, Zenon DEF Kill
        <5>2. Count(killed, held[w])[c] = killed[c] + Bit(held[w] = c)
          BY <1>g, <1>h, <4>1, Zenon
        <5> QED BY <5>1, <5>2, Zenon
      <4> QED BY <1>b, <4>2 DEF Bit
    <3> QED BY <3>1, <3>2, Zenon
  <2> QED BY <1>b, <1>c, <1>d, <1>f, <2>1, <2>3, <2>4, SMTT(30) DEF Bit
<1>4. ASSUME NEW w \in Writers, StoreFails(w) \/ DiskFull(w) \/ Retry(w)
      PROVE  accumulated'[c] <= Handled(c)' + Spending(c)' + killed'[c]
  <2>1. /\ \A v \in Writers \ {w} : held'[v] = held[v] /\ pc'[v] = pc[v]
        /\ held'[w] = held[w] /\ pc[w] \in {"store", "wait"} /\ pc'[w] \in {"store", "wait"}
        /\ UNCHANGED <<accumulated, processed, failed, dropped, killed>>
    BY <1>4, <1>a, Zenon DEF StoreFails, DiskFull, Retry, Goto, WritersOK
  <2>2. Spending(c)' = Spending(c)
    BY <1>e, <1>f, <2>1, SMTT(30) DEF Bit
  <2> QED BY <1>b, <1>c, <1>d, <1>f, <2>1, <2>2, ZenonT(60)
<1>5. ASSUME NEW w \in Writers, ClaimRecent(w) \/ ClaimBacklog(w)
      PROVE  accumulated'[c] <= Handled(c)' + Spending(c)' + killed'[c]
  <2>1. PICK b \in Batches : Claim(w, b)
    BY <1>5, Claims, Zenon
  <2>2. /\ \A v \in Writers \ {w} : held'[v] = held[v] /\ pc'[v] = pc[v]
        /\ pc[w] \notin {"store", "wait"} /\ pc'[w] \notin {"store", "wait"}
        /\ UNCHANGED <<accumulated, processed, failed, killed>>
    BY <1>5, <1>a, <2>1, Zenon
       DEF ClaimRecent, ClaimBacklog, Claim, Begin, Goto, AfterConsumeError, WritersOK
  <2>3. dropped'[c] >= dropped[c] /\ dropped'[c] \in Nat
    <3>1. Count(dropped, b)[c] = dropped[c] + Bit(b = c)
      BY <1>g, <1>h, Zenon
    <3>2. dropped' = dropped \/ dropped' = Count(dropped, b)
      BY <2>1, Zenon DEF Claim, Begin
    <3> QED BY <1>b, <3>1, <3>2 DEF Bit
  <2>4. Spending(c)' = Spending(c)
    BY <1>e, <1>f, <2>2 DEF Bit
  <2> QED BY <1>b, <1>c, <1>d, <1>f, <2>2, <2>3, <2>4, SMTT(30)
<1>6. ASSUME NEW w \in Writers,
             \/ Loop(w) \/ Return(w) \/ ReclaimEnds(w) \/ ClaimNothing(w) \/ ClaimFails(w)
             \/ Ack(w) \/ AckFails(w) \/ Start(w) \/ Exit(w)
      PROVE  accumulated'[c] <= Handled(c)' + Spending(c)' + killed'[c]
  <2>1. /\ \A v \in Writers \ {w} : held'[v] = held[v] /\ pc'[v] = pc[v]
        /\ pc[w] \notin {"store", "wait"} /\ pc'[w] \notin {"store", "wait"}
    <3>1. CASE Loop(w) \/ Return(w) \/ ReclaimEnds(w)
      BY <1>a, <3>1, Zenon DEF Loop, Return, ReclaimEnds, Goto, ConsumeStart, WritersOK
    <3>5. CASE ClaimNothing(w) \/ ClaimFails(w)
      BY <1>a, <3>5, Zenon DEF ClaimNothing, ClaimFails, Goto, AfterConsumeError, WritersOK
    <3>2. CASE Ack(w) \/ AckFails(w)
      BY <1>a, <3>2, Zenon DEF Ack, AckFails, Goto, AfterAck, WritersOK
    <3>3. CASE Start(w)
      <4>1. pc[w] = "off"
        BY <3>3, Zenon DEF Start, StagesInv
      <4> QED BY <1>a, <3>3, <4>1, ZenonT(60) DEF Start, Goto, WritersOK
    <3>4. CASE Exit(w)
      <4>1. UNCHANGED held /\ pc[w] \in {"done", "dead"} /\ pc' = [pc EXCEPT ![w] = "off"]
        BY <3>4, Zenon DEF Exit, Goto
      <4> QED BY <1>a, <4>1, Zenon DEF WritersOK
    <3> QED BY <1>6, <3>1, <3>2, <3>3, <3>4, <3>5, ZenonT(60)
  <2>2. UNCHANGED <<accumulated, processed, failed, dropped, killed>>
    BY <1>6, Zenon DEF Loop, Return, ReclaimEnds, ClaimNothing, ClaimFails, Ack, AckFails, Start, Exit
  <2>3. Spending(c)' = Spending(c)
    BY <1>e, <1>f, <2>1 DEF Bit
  <2> QED BY <1>b, <1>c, <1>d, <1>f, <2>2, <2>3, Zenon
<1>7. ASSUME NEW w \in Writers, Requeue(w) \/ RequeueFails(w) PROVE FALSE
  BY <1>7, Zenon DEF Requeue, RequeueFails, StagesInv
<1>8. CASE UNCHANGED <<held, pc, accumulated, processed, failed, dropped, killed>>
  <2>1. Spending(c)' = Spending(c)
    BY <1>8, NoWriterMoves, Zenon DEF Spending
  <2> QED BY <1>8, <1>c, <1>d, <2>1, Zenon
<1> QED
  BY <1>1, <1>2, <1>3, <1>4, <1>5, <1>6, <1>7, <1>8, ZenonT(60)
     DEF Next, Work, Publish, Reclaim, Terminate, DelayPasses, vars

-----------------------------------------------------------------------------
(* What is given up. *)

\* A writer that is going or gone stays so.
LEMMA GoingStays ==
    ASSUME TypeOK, [Next]_vars, NEW v \in Writers, pod[v] \in {"term", "gone"}
    PROVE  pod'[v] \in {"term", "gone"}
<1>a. pod \in [Writers -> {"new", "run", "term", "gone"}]
  BY Zenon DEF TypeOK, WritersOK
<1>1. ASSUME NEW w \in Writers, Start(w) \/ Terminate(w) \/ Exit(w) \/ Kill(w) PROVE pod'[v] \in {"term", "gone"}
  BY <1>a, <1>1, Zenon DEF Start, Terminate, Exit, Kill
<1>2. ASSUME NEW w \in Writers, Work(w) PROVE pod' = pod
  <2>1. CASE Loop(w) \/ Return(w) \/ Reclaim(w) \/ ReclaimEnds(w) \/ ClaimNothing(w) \/ ClaimFails(w)
    BY <2>1, Zenon DEF Loop, Return, Reclaim, ReclaimEnds, ClaimNothing, ClaimFails
  <2>2. CASE ClaimRecent(w) \/ ClaimBacklog(w) \/ Process(w) \/ Store(w) \/ Panic(w)
    BY <2>2, Zenon DEF ClaimRecent, ClaimBacklog, Claim, Process, Store, Panic
  <2>3. CASE StoreFails(w) \/ DiskFull(w) \/ Retry(w) \/ GiveUp(w) \/ Requeue(w) \/ RequeueFails(w) \/ Ack(w) \/ AckFails(w)
    BY <2>3, Zenon DEF StoreFails, DiskFull, Retry, GiveUp, Requeue, RequeueFails, Ack, AckFails
  <2> QED BY <1>2, <2>1, <2>2, <2>3, Zenon DEF Work
<1>3. CASE UNCHANGED pod
  BY <1>3, Zenon
<1> QED BY <1>1, <1>2, <1>3, ZenonT(60) DEF Next, Publish, DelayPasses, vars

\* Failed attempts of a consumer that does not count a full disk are excused.
TriesExcused ==
    \A w \in Writers :
       held[w] # NoBatch /\ tries[w] > 0 /\ Kind # "staging" => held[w] \in excused

\* An attempt that is counted has met an error.
LEMMA TriesKept ==
    ASSUME TypeOK, StagesInv, TriesExcused, [Next]_vars
    PROVE  TriesExcused'
<1>a. WritersOK
  BY Zenon DEF TypeOK
<1>k. load' = load
  BY LoadKept, Zenon
<1> SUFFICES ASSUME NEW v \in Writers, Kind # "staging", held'[v] # NoBatch, tries'[v] > 0
             PROVE  held'[v] \in excused'
  BY <1>k, Zenon DEF TriesExcused, Kind
<1>b. held[v] # NoBatch /\ tries[v] > 0 => held[v] \in excused
  BY Zenon DEF TriesExcused
<1>1. CASE held'[v] = held[v] /\ tries'[v] = tries[v] /\ excused \subseteq excused'
  BY <1>b, <1>1, Zenon
<1>2. ASSUME NEW w \in Writers, StoreFails(w) PROVE held'[v] \in excused'
  BY <1>2, <1>a, <1>b, Zenon DEF StoreFails, WritersOK
<1>3. ASSUME NEW w \in Writers, DiskFull(w) PROVE held'[v] \in excused'
  <2>1. tries' = tries /\ excused' = excused
    BY <1>3, Zenon DEF DiskFull, Kind
  <2>2. held'[v] = held[v]
    BY <1>3, <1>a, Zenon DEF DiskFull, WritersOK
  <2> QED BY <1>b, <2>1, <2>2, Zenon
<1>4. ASSUME NEW w \in Writers, ClaimRecent(w) \/ ClaimBacklog(w) PROVE held'[v] \in excused'
  <2>1. excused' = excused
    BY <1>4, Zenon DEF ClaimRecent, ClaimBacklog, Claim
  <2>2. \/ held' = held /\ tries' = tries
        \/ \E b : held' = [held EXCEPT ![w] = b] /\ tries' = [tries EXCEPT ![w] = 0]
    BY <1>4, Zenon DEF ClaimRecent, ClaimBacklog, Claim, Begin
  <2> QED BY <1>a, <1>b, <2>1, <2>2 DEF WritersOK
<1>5. ASSUME NEW w \in Writers, GiveUp(w) \/ Ack(w) \/ AckFails(w) \/ Kill(w) PROVE held'[v] \in excused'
  <2>1. tries' = tries /\ excused' = excused /\ (held' = held \/ held' = [held EXCEPT ![w] = NoBatch])
    BY <1>5, Zenon DEF GiveUp, Ack, AckFails, Kill
  <2> QED BY <1>a, <1>b, <2>1, Zenon DEF WritersOK
<1>6. ASSUME NEW w \in Writers, RequeueFails(w) PROVE held'[v] \in excused'
  BY <1>1, <1>6, Zenon DEF RequeueFails
<1>7. ASSUME NEW w \in Writers,
             \/ Loop(w) \/ Return(w) \/ Reclaim(w) \/ ReclaimEnds(w) \/ ClaimNothing(w) \/ ClaimFails(w)
             \/ Process(w) \/ Store(w) \/ Panic(w) \/ Retry(w) \/ Requeue(w)
      PROVE  held'[v] \in excused'
  <2>1. held' = held /\ tries' = tries /\ excused' = excused
    BY <1>7, Zenon
       DEF Loop, Return, Reclaim, ReclaimEnds, ClaimNothing, ClaimFails, Process, Store, Panic,
           Retry, Requeue
  <2> QED BY <1>1, <2>1, Zenon
<1>8. CASE UNCHANGED <<held, tries, excused>>
  BY <1>1, <1>8, ZenonT(60)
<1> QED
  BY <1>2, <1>3, <1>4, <1>5, <1>6, <1>7, <1>8, ZenonT(60)
     DEF Next, Work, Publish, Start, Terminate, Exit, DelayPasses, vars

\* A step that gives a batch up: the attempts are used up, the context is
\* cancelled or the requeue met an error; never the ledger consumer.
LEMMA GivingUp ==
    ASSUME TypeOK, StagesInv, TriesExcused, [Next]_vars
    PROVE  /\ excused \subseteq excused'
           /\ \/ failed' = failed
              \/ \E w \in Writers :
                    /\ held[w] \in Batches /\ failed' = Count(failed, held[w]) /\ Kind # "ledger"
                    /\ pod[w] \in {"term", "gone"} \/ held[w] \in excused' \/ Kind = "staging"
<1>a. WritersOK
  BY Zenon DEF TypeOK
<1>1. ASSUME NEW w \in Writers, GiveUp(w)
      PROVE  /\ excused \subseteq excused'
             /\ \/ failed' = failed
                \/ /\ held[w] \in Batches /\ failed' = Count(failed, held[w]) /\ Kind # "ledger"
                   /\ pod[w] \in {"term", "gone"} \/ held[w] \in excused' \/ Kind = "staging"
  <2>1. held[w] \in Batches /\ held[w] # NoBatch
    BY <1>1, <1>a, Zenon DEF GiveUp, StagesInv, WritersOK
  <2>2. Kind # "ledger"
    BY <1>1, Zenon DEF GiveUp, StagesInv
  <2>3. excused' = excused /\ (failed' = failed \/ failed' = Count(failed, held[w])) /\ (tries[w] = MaxRetries \/ pod[w] = "term")
    BY <1>1, Zenon DEF GiveUp
  <2>4. tries[w] = MaxRetries => tries[w] > 0
    BY QueueAssumption
  <2> QED BY <2>1, <2>2, <2>3, <2>4, Zenon DEF TriesExcused
<1>2. ASSUME NEW w \in Writers, RequeueFails(w)
      PROVE  /\ excused \subseteq excused'
             /\ held[w] \in Batches /\ failed' = Count(failed, held[w]) /\ Kind # "ledger"
             /\ pod[w] \in {"term", "gone"} \/ held[w] \in excused'
  <2>1. held[w] \in Batches
    BY <1>2, <1>a, Zenon DEF RequeueFails, StagesInv, WritersOK
  <2>2. Kind = "inline"
    BY <1>2, Zenon DEF RequeueFails, StagesInv
  <2> QED BY <1>2, <2>1, <2>2, Zenon DEF RequeueFails
<1>3. ASSUME NEW w \in Writers,
             \/ Loop(w) \/ Return(w) \/ Reclaim(w) \/ ReclaimEnds(w) \/ ClaimRecent(w) \/ ClaimBacklog(w)
             \/ ClaimNothing(w) \/ ClaimFails(w) \/ Process(w) \/ Store(w) \/ Panic(w)
      PROVE  excused' = excused /\ failed' = failed
  BY <1>3, Zenon
     DEF Loop, Return, Reclaim, ReclaimEnds, ClaimRecent, ClaimBacklog, Claim, ClaimNothing,
         ClaimFails, Process, Store, Panic
<1>4. ASSUME NEW w \in Writers,
             \/ StoreFails(w) \/ DiskFull(w) \/ Retry(w) \/ Requeue(w) \/ Ack(w) \/ AckFails(w)
             \/ Start(w) \/ Terminate(w) \/ Exit(w) \/ Kill(w) \/ DelayPasses(w)
      PROVE  excused \subseteq excused' /\ failed' = failed
  BY <1>4, Zenon
     DEF StoreFails, DiskFull, Retry, Requeue, Ack, AckFails, Start, Terminate, Exit, Kill, DelayPasses
<1>5. CASE UNCHANGED <<excused, failed>>
  BY <1>5, Zenon
<1> QED BY <1>1, <1>2, <1>3, <1>4, <1>5, SMTT(30) DEF Next, Work, Publish, vars

LEMMA GivenUpKept ==
    ASSUME TypeOK, StagesInv, GivenUpRightly, [Next]_vars
    PROVE  GivenUpRightly'
<1>1. TriesExcused /\ NothingGivenUp /\ DiskFullGivenUpAtShutdown
  BY Zenon DEF GivenUpRightly, TriesExcused
<1>2. TriesExcused'
  BY <1>1, TriesKept, Zenon
<1>3. load' = load
  BY LoadKept, Zenon
<1>4. \A b \in Batches : failed[b] \in Nat
  BY Zenon DEF TypeOK, CountsOK
<1>5. ASSUME failed' = failed PROVE NothingGivenUp' /\ DiskFullGivenUpAtShutdown'
  <2>1. NothingGivenUp'
    BY <1>1, <1>3, <1>5, Zenon DEF NothingGivenUp, Kind
  <2>2. excused \subseteq excused'
    BY <1>1, GivingUp, Zenon
  <2>3. CASE DiskFullBatchKept
    BY <2>1, <1>5, <2>2, <2>3, Zenon DEF DiskFullBatchKept, DiskFullGivenUpAtShutdown
  <2>4. CASE Kind = "staging"
    BY <2>1, <1>3, <2>4, Zenon DEF DiskFullGivenUpAtShutdown, Kind
  <2>5. CASE \E w \in Writers : pod[w] \in {"term", "gone"}
    BY <2>1, <2>5, GoingStays, Zenon DEF DiskFullGivenUpAtShutdown
  <2> QED BY <1>1, <2>1, <2>3, <2>4, <2>5, ZenonT(60) DEF DiskFullGivenUpAtShutdown
<1>6. ASSUME NEW w \in Writers, held[w] \in Batches, failed' = Count(failed, held[w]), Kind # "ledger",
             pod[w] \in {"term", "gone"} \/ held[w] \in excused' \/ Kind = "staging"
      PROVE  NothingGivenUp' /\ DiskFullGivenUpAtShutdown'
  <2>1. NothingGivenUp'
    BY <1>3, <1>6, Zenon DEF NothingGivenUp, Kind
  <2>2. excused \subseteq excused'
    BY <1>1, GivingUp, Zenon
  <2>3. CASE DiskFullBatchKept /\ held[w] \in excused'
    <3>1. ASSUME NEW b \in Batches, failed'[b] > 0 PROVE b \in excused'
      <4>1. failed'[b] = failed[b] + Bit(held[w] = b)
        BY <1>6, CountType DEF TypeOK, CountsOK
      <4> QED BY <1>4, <2>2, <2>3, <3>1, <4>1, SMTT(30) DEF Bit, DiskFullBatchKept
    <3> QED BY <2>1, <3>1, Zenon DEF DiskFullBatchKept, DiskFullGivenUpAtShutdown
  <2>4. CASE Kind = "staging"
    BY <2>1, <1>3, <2>4, Zenon DEF DiskFullGivenUpAtShutdown, Kind
  <2>5. CASE \E v \in Writers : pod[v] \in {"term", "gone"}
    BY <2>1, <2>5, GoingStays, Zenon DEF DiskFullGivenUpAtShutdown
  <2> QED BY <1>1, <1>6, <2>1, <2>3, <2>4, <2>5, ZenonT(60) DEF DiskFullGivenUpAtShutdown
<1>7. NothingGivenUp' /\ DiskFullGivenUpAtShutdown'
  BY <1>1, <1>5, <1>6, GivingUp, Zenon
<1> QED BY <1>2, <1>7, Zenon DEF GivenUpRightly, TriesExcused

-----------------------------------------------------------------------------
(* The theorems. *)

\* Nothing is published, held or counted at first.
LEMMA QueueInitial ==
    ASSUME Init
    PROVE  OncePerDelivery /\ GivenUpRightly /\ Queue!Init
<1>1. ListsOK
  BY DEF Init, ListsOK
<1>2. WritersOK
  BY QueueAssumption DEF Init, WritersOK
<1>3. CountsOK
  BY Zenon DEF Init, CountsOK, Zero
<1>4. mature \in [Writers -> BOOLEAN] /\ faults \in 0..MaxFaults /\ errors \in 0..MaxErrors
  BY QueueAssumption DEF Init
<1>5. TypeOK
  BY <1>1, <1>2, <1>3, <1>4, ZenonT(60) DEF TypeOK
<1>6. StagesInv
  BY Zenon DEF Init, StagesInv
<1>7. \A b \in Batches : Holders(b) = {}
  BY QueueAssumption, Zenon DEF Init, Holders
<1>8. \A b \in Batches : InStage(b, {"ack"}) = {} /\ InStage(b, {"store", "wait"}) = {}
  BY <1>7, Zenon DEF InStage
<1>9. \A b \in Batches : Occurs(recent, b) = 0 /\ Occurs(backlog, b) = 0 /\ Occurs(processing, b) = 0
  BY OccursEmpty, Zenon DEF Init
<1>10. \A b \in Batches : Listed(b) = 0 /\ Copies(b) = 0
  BY <1>8, <1>9, FS_EmptySet, SMTT(30) DEF Listed, Copies
<1>11. \A b \in Batches : Handled(b) = 0 /\ accumulated[b] = 0 /\ unacked[b] = 0 /\ killed[b] = 0 /\ failed[b] = 0
  BY DEF Init, Handled, Zero
<1>12. HeldStaysListed
  BY <1>7, <1>9, FS_EmptySet DEF HeldStaysListed
<1>13. DeliveriesInv
  BY <1>10, <1>11, Zenon DEF DeliveriesInv, Init
<1>14. HandledOncePerDelivery /\ AccumulatedOncePerDelivery
  BY <1>11 DEF HandledOncePerDelivery, AccumulatedOncePerDelivery
<1>15. AccumulatedInv
  BY <1>8, <1>11, FS_EmptySet DEF AccumulatedInv
<1>16. GivenUpRightly
  BY <1>11 DEF Init, GivenUpRightly, NothingGivenUp, DiskFullGivenUpAtShutdown, DiskFullBatchKept
<1>17. Queue!Init
  BY <1>10, <1>11, Zenon DEF Init, Queue!Init, Zero
<1> QED BY <1>5, <1>6, <1>12, <1>13, <1>14, <1>15, <1>16, <1>17, ZenonT(60) DEF OncePerDelivery

\* What is handled and accumulated follows from the deliveries.
LEMMA CountsFollow ==
    ASSUME TypeOK, HeldStaysListed, DeliveriesInv, AccumulatedInv
    PROVE  HandledOncePerDelivery /\ AccumulatedOncePerDelivery
<1>1. \A b \in Batches : /\ Copies(b) \in Nat /\ Handled(b) \in Nat /\ unacked[b] \in Nat
                         /\ Copies(b) + Handled(b) <= 1 + unacked[b]
  BY DeliveryFacts
<1>2. \A b \in Batches : Spending(b) \in Nat /\ Spending(b) <= Copies(b)
  BY SpendingCopies, Zenon
<1>3. \A b \in Batches : accumulated[b] \in Nat /\ killed[b] \in Nat
  BY Zenon DEF TypeOK, CountsOK
<1>4. HandledOncePerDelivery
  BY <1>1 DEF HandledOncePerDelivery
<1>5. ASSUME Kind = "metrics", NEW b \in Batches PROVE accumulated[b] <= 1 + unacked[b] + killed[b]
  <2>1. accumulated[b] <= Handled(b) + Spending(b) + killed[b]
    BY <1>5, Zenon DEF AccumulatedInv, Spending
  <2> QED BY <1>1, <1>2, <1>3, <2>1
<1> QED BY <1>4, <1>5, Zenon DEF AccumulatedOncePerDelivery

\* Every step keeps the invariant.
LEMMA QueueInductive ==
    ASSUME OncePerDelivery, [Next]_vars
    PROVE  OncePerDelivery'
<1>1. TypeOK /\ StagesInv /\ HeldStaysListed /\ DeliveriesInv /\ AccumulatedInv
  BY Zenon DEF OncePerDelivery
<1>2. TypeOK' /\ StagesInv' /\ HeldStaysListed' /\ DeliveriesInv' /\ AccumulatedInv'
  BY <1>1, TypesKept, StagesKept, HeldKept, DeliveriesKept, AccumulatedKept, Zenon
<1>3. HandledOncePerDelivery' /\ AccumulatedOncePerDelivery'
  BY <1>2, CountsFollow, PTL
<1> QED BY <1>2, <1>3, Zenon DEF OncePerDelivery

\* Whatever the interleaving of claims, reclaims, requeues, acks, shutdowns and
\* killed writers, a batch is handled and accumulated once per delivery, and
\* stays on the processing list while a writer works on it.
THEOREM DeliveredOnce == Spec => []OncePerDelivery
<1>1. Init => OncePerDelivery
  BY QueueInitial, Zenon
<1>2. OncePerDelivery /\ [Next]_vars => OncePerDelivery'
  BY QueueInductive, Zenon
<1> QED BY <1>1, <1>2, PTL DEF Spec

\* The ledger consumer gives nothing up; a batch that met only a full disk is
\* given up by the staging worker or at a shutdown.
THEOREM NeverGivenUpWrongly == Spec => []GivenUpRightly
<1>1. Init => GivenUpRightly
  BY QueueInitial, Zenon
<1>2. OncePerDelivery /\ GivenUpRightly /\ [Next]_vars => GivenUpRightly'
  BY GivenUpKept, Zenon DEF OncePerDelivery
<1> QED BY <1>1, <1>2, DeliveredOnce, PTL DEF Spec

\* The queue implements at-least-once delivery (Delivery): publishing is
\* accepting, handling a batch takes one of its copies away, and only a batch
\* that was left on a list is delivered again.
THEOREM QueueImplementsDelivery == Spec => AtLeastOnce
<1>1. Init => Queue!Init
  BY QueueInitial, Zenon
<1>2. OncePerDelivery /\ [Next]_vars => [Queue!Next]_(Queue!vars)
  BY QueueStep, Zenon DEF OncePerDelivery
<1> QED BY <1>1, <1>2, DeliveredOnce, PTL DEF Spec, AtLeastOnce, Queue!Spec

\* No published batch is ever lost: what was handled of it and what is on a list
\* add up to its deliveries, and no batch is handled that was not published.
THEOREM PublishedNeverLost == Spec => []Queue!NeverLost
<1>1. OncePerDelivery => Queue!NeverLost
  BY DeliveryFacts, Zenon DEF OncePerDelivery, Queue!NeverLost
<1> QED BY <1>1, DeliveredOnce, PTL
=============================================================================
