------------------------- MODULE WriteQueue_proofs --------------------------
(* Proofs about the write queues and their consumers, for any batches, any   *)
(* number of writer pods and any bounds on faults, errors and retries: the   *)
(* types, the stages of a pod and its goroutine, and that a batch stays on   *)
(* the processing list while a writer works on it.                           *)
EXTENDS WriteQueue, CountingLemmas

-----------------------------------------------------------------------------
(* Counting the writers that work on a batch. *)

\* The writers of b, in whatever stages, are finitely many.
LEMMA HoldersFinite ==
    ASSUME NEW b, NEW stages
    PROVE  /\ IsFiniteSet(Holders(b)) /\ Cardinality(Holders(b)) \in Nat
           /\ IsFiniteSet(InStage(b, stages)) /\ Cardinality(InStage(b, stages)) \in Nat
           /\ Cardinality(InStage(b, stages)) <= Cardinality(Holders(b))
<1>1. IsFiniteSet(Writers)
  BY QueueAssumption, FS_Interval DEF Writers
<1>2. Holders(b) \in SUBSET Writers
  BY Zenon DEF Holders
<1>3. IsFiniteSet(Holders(b))
  BY <1>1, <1>2, FS_Subset, Zenon
<1>4. InStage(b, stages) \in SUBSET Holders(b)
  BY Zenon DEF InStage
<1>5. IsFiniteSet(InStage(b, stages)) /\ Cardinality(InStage(b, stages)) <= Cardinality(Holders(b))
  BY <1>3, <1>4, FS_Subset, Zenon
<1> QED BY <1>3, <1>5, FS_CardinalityType, Zenon

\* A step that moves one writer to another stage or batch.
LEMMA OneWriterMoves ==
    ASSUME NEW w \in Writers, NEW b, NEW stages,
           \A v \in Writers \ {w} : held'[v] = held[v] /\ pc'[v] = pc[v]
    PROVE  /\ Cardinality(Holders(b))' = Cardinality(Holders(b)) - Bit(held[w] = b) + Bit(held'[w] = b)
           /\ Cardinality(InStage(b, stages))' = Cardinality(InStage(b, stages))
                 - Bit(held[w] = b /\ pc[w] \in stages) + Bit(held'[w] = b /\ pc'[w] \in stages)
<1>1. Holders(b) \ {w} = Holders(b)' \ {w}
  BY Zenon DEF Holders
<1>2. (w \in Holders(b) <=> held[w] = b) /\ (w \in Holders(b)' <=> held'[w] = b)
  BY Zenon DEF Holders
<1>3. InStage(b, stages) \ {w} = InStage(b, stages)' \ {w}
  BY Zenon DEF InStage, Holders
<1>4. /\ w \in InStage(b, stages) <=> held[w] = b /\ pc[w] \in stages
      /\ w \in InStage(b, stages)' <=> held'[w] = b /\ pc'[w] \in stages
  BY Zenon DEF InStage, Holders
<1>5. Cardinality(Holders(b)') = Cardinality(Holders(b)) - Bit(w \in Holders(b)) + Bit(w \in Holders(b)')
  BY <1>1, HoldersFinite, DifferInOne, Zenon
<1>6. Cardinality(InStage(b, stages)') = Cardinality(InStage(b, stages))
         - Bit(w \in InStage(b, stages)) + Bit(w \in InStage(b, stages)')
  BY <1>3, HoldersFinite, DifferInOne, Zenon
<1>7. Cardinality(Holders(b))' = Cardinality(Holders(b)) - Bit(held[w] = b) + Bit(held'[w] = b)
  BY <1>2, <1>5, Zenon DEF Bit
<1>8. Cardinality(InStage(b, stages))' = Cardinality(InStage(b, stages))
         - Bit(held[w] = b /\ pc[w] \in stages) + Bit(held'[w] = b /\ pc'[w] \in stages)
  BY <1>4, <1>6, Zenon DEF Bit
<1> QED BY <1>7, <1>8, Zenon

\* A step that moves no writer.
LEMMA NoWriterMoves ==
    ASSUME UNCHANGED <<held, pc>>, NEW b, NEW stages
    PROVE  /\ Cardinality(Holders(b))' = Cardinality(Holders(b))
           /\ Cardinality(InStage(b, stages))' = Cardinality(InStage(b, stages))
  BY Zenon DEF Holders, InStage

\* The batch a writer works on is on the processing list.
LEMMA HeldListed ==
    ASSUME TypeOK, HeldStaysListed, NEW w \in Writers, held[w] # NoBatch
    PROVE  held[w] \in Batches /\ Occurs(processing, held[w]) > 0
<1>1. held[w] \in Batches /\ w \in Holders(held[w])
  BY Zenon DEF TypeOK, WritersOK, Holders
<1>2. Cardinality(Holders(held[w])) \in Nat /\ Cardinality(Holders(held[w])) # 0
  BY <1>1, HoldersFinite, FS_EmptySet, Zenon
<1>3. Occurs(processing, held[w]) \in Nat
  BY OccursNat, Zenon DEF TypeOK, ListsOK
<1> QED BY <1>1, <1>2, <1>3 DEF HeldStaysListed

-----------------------------------------------------------------------------
(* Types and stages. *)

USE DEF lists, goroutine, pods, counts, replays

\* A push puts one more entry on one of the two queues.
LEMMA PushEffect ==
    ASSUME ListsOK, NEW b \in Batches, Push(b)
    PROVE  /\ recent' \in Seq(Batches) /\ backlog' \in Seq(Batches)
           /\ \A c : Occurs(recent, c)' + Occurs(backlog, c)' = Occurs(recent, c) + Occurs(backlog, c) + Bit(b = c)
<1>1. \A c : Occurs(recent, c) \in Nat /\ Occurs(backlog, c) \in Nat /\ Bit(b = c) \in Nat
  BY OccursNat, Zenon DEF ListsOK, Bit
<1>2. CASE recent' = <<b>> \o recent /\ UNCHANGED backlog
  <2>1. recent' \in Seq(Batches) /\ \A c : Occurs(recent', c) = Occurs(recent, c) + Bit(b = c)
    BY <1>2, OccursPush DEF ListsOK
  <2>2. \A c : Occurs(recent, c)' = Occurs(recent, c) + Bit(b = c) /\ Occurs(backlog, c)' = Occurs(backlog, c)
    BY <1>2, <2>1, Zenon
  <2>3. \A c : Occurs(recent, c)' + Occurs(backlog, c)' = Occurs(recent, c) + Occurs(backlog, c) + Bit(b = c)
    BY <1>1, <2>2
  <2> QED BY <1>2, <2>1, <2>3, Zenon DEF ListsOK
<1>3. CASE backlog' = <<b>> \o backlog /\ UNCHANGED recent
  <2>1. backlog' \in Seq(Batches) /\ \A c : Occurs(backlog', c) = Occurs(backlog, c) + Bit(b = c)
    BY <1>3, OccursPush DEF ListsOK
  <2>2. \A c : Occurs(backlog, c)' = Occurs(backlog, c) + Bit(b = c) /\ Occurs(recent, c)' = Occurs(recent, c)
    BY <1>3, <2>1, Zenon
  <2>3. \A c : Occurs(recent, c)' + Occurs(backlog, c)' = Occurs(recent, c) + Occurs(backlog, c) + Bit(b = c)
    BY <1>1, <2>2
  <2> QED BY <1>3, <2>1, <2>3, Zenon DEF ListsOK
<1> QED BY <1>2, <1>3, Zenon DEF Push

LEMMA CountType ==
    ASSUME NEW f \in [Batches -> Nat], NEW b \in Batches
    PROVE  /\ Count(f, b) \in [Batches -> Nat]
           /\ \A c \in Batches : Count(f, b)[c] = f[c] + Bit(b = c)
  BY DEF Count, Bit

\* The other end of it: an entry moves off the right end of a list.
LEMMA TakeEffect ==
    ASSUME NEW s \in Seq(Batches), s # <<>>
    PROVE  /\ DropRight(s) \in Seq(Batches) /\ RightEnd(s) \in Batches
           /\ \A c : Occurs(DropRight(s), c) = Occurs(s, c) - Bit(RightEnd(s) = c)
  BY OccursFront

\* A writer in one of these stages holds a batch that is listed.
LEMMA Holding ==
    ASSUME TypeOK, StagesInv, HeldStaysListed, NEW w \in Writers,
           pc[w] \in {"process", "store", "wait", "requeue", "ack"}
    PROVE  held[w] \in Batches /\ held[w] # NoBatch /\ Occurs(processing, held[w]) > 0
  BY HeldListed, Zenon DEF StagesInv

\* A consumer claims a batch that was published.
LEMMA Claims ==
    ASSUME TypeOK, NEW w \in Writers, ClaimRecent(w) \/ ClaimBacklog(w)
    PROVE  \E b \in Batches : Claim(w, b)
<1>1. recent \in Seq(Batches) /\ backlog \in Seq(Batches)
  BY Zenon DEF TypeOK, ListsOK
<1>2. CASE ClaimRecent(w)
  <2>1. recent # <<>> /\ Claim(w, RightEnd(recent))
    BY <1>2, Zenon DEF ClaimRecent
  <2> QED BY <1>1, <2>1, TakeEffect, Zenon
<1>3. CASE ClaimBacklog(w)
  <2>1. backlog # <<>> /\ Claim(w, RightEnd(backlog))
    BY <1>3, Zenon DEF ClaimBacklog
  <2> QED BY <1>1, <2>1, TakeEffect, Zenon
<1> QED BY <1>2, <1>3, Zenon

\* Every step keeps the types of the lists,
LEMMA ListsKept ==
    ASSUME TypeOK, StagesInv, HeldStaysListed, [Next]_vars
    PROVE  ListsOK'
<1>1. ASSUME NEW b \in Batches, Publish(b) PROVE ListsOK'
  BY <1>1, PushEffect, Zenon DEF Publish, TypeOK, ListsOK
<1>2. ASSUME NEW w \in Writers, Reclaim(w) PROVE ListsOK'
  <2>1. DropRight(processing) \in Seq(Batches) /\ RightEnd(processing) \in Batches
    BY <1>2, TakeEffect, Zenon DEF Reclaim, TypeOK, ListsOK
  <2> QED BY <1>2, <2>1 DEF Reclaim, TypeOK, ListsOK
<1>3. ASSUME NEW w \in Writers, ClaimRecent(w) PROVE ListsOK'
  <2>1. DropRight(recent) \in Seq(Batches) /\ RightEnd(recent) \in Batches
    BY <1>3, TakeEffect, Zenon DEF ClaimRecent, TypeOK, ListsOK
  <2> QED BY <1>3, <2>1, OccursPush, Zenon DEF ClaimRecent, Claim, TypeOK, ListsOK
<1>4. ASSUME NEW w \in Writers, ClaimBacklog(w) PROVE ListsOK'
  <2>1. DropRight(backlog) \in Seq(Batches) /\ RightEnd(backlog) \in Batches
    BY <1>4, TakeEffect, Zenon DEF ClaimBacklog, TypeOK, ListsOK
  <2> QED BY <1>4, <2>1, OccursPush, Zenon DEF ClaimBacklog, Claim, TypeOK, ListsOK
<1>5. ASSUME NEW w \in Writers, Requeue(w) PROVE ListsOK'
  <2>1. held[w] \in Batches
    BY <1>5, Holding, Zenon DEF Requeue
  <2> QED BY <1>5, <2>1, PushEffect, Zenon DEF Requeue, TypeOK, ListsOK
<1>6. ASSUME NEW w \in Writers, RequeueFails(w) PROVE ListsOK'
  <2>1. held[w] \in Batches
    BY <1>6, Holding, Zenon DEF RequeueFails
  <2> QED BY <1>6, <2>1, PushEffect, Zenon DEF RequeueFails, TypeOK, ListsOK
<1>7. ASSUME NEW w \in Writers, Ack(w) PROVE ListsOK'
  BY <1>7, Holding, OccursRemoved, Zenon DEF Ack, TypeOK, ListsOK
<1>8. CASE UNCHANGED <<todo, lists>>
  BY <1>8, Zenon DEF TypeOK, ListsOK
<1>9. ASSUME NEW w \in Writers,
             \/ Loop(w) \/ Return(w) \/ ReclaimEnds(w) \/ ClaimNothing(w) \/ ClaimFails(w) \/ Process(w)
             \/ Store(w) \/ Panic(w)
      PROVE  UNCHANGED <<todo, lists>>
  BY <1>9, ZenonT(30) DEF Loop, Return, ReclaimEnds, ClaimNothing, ClaimFails, Process, Store, Panic
<1>10. ASSUME NEW w \in Writers,
              \/ StoreFails(w) \/ DiskFull(w) \/ Retry(w) \/ GiveUp(w) \/ AckFails(w) \/ Start(w) \/ Terminate(w)
              \/ Exit(w) \/ Kill(w) \/ DelayPasses(w)
       PROVE  UNCHANGED <<todo, lists>>
  BY <1>10, ZenonT(30)
     DEF StoreFails, DiskFull, Retry, GiveUp, AckFails, Start, Terminate, Exit, Kill, DelayPasses
<1> QED
  BY <1>1, <1>2, <1>3, <1>4, <1>5, <1>6, <1>7, <1>8, <1>9, <1>10, Zenon DEF Next, Work, vars

\* of the pods and their goroutines,
LEMMA WritersKept ==
    ASSUME TypeOK, StagesInv, HeldStaysListed, [Next]_vars
    PROVE  WritersOK'
<1> USE DEF WritersOK, Goto
<1>a. WritersOK
  BY Zenon DEF TypeOK
<1>1. ASSUME NEW w \in Writers, Loop(w) \/ Return(w) \/ ReclaimEnds(w) PROVE WritersOK'
  BY <1>a, <1>1, Zenon DEF Loop, Return, ReclaimEnds, ConsumeStart
<1>2. ASSUME NEW w \in Writers, ClaimNothing(w) PROVE WritersOK'
  BY <1>a, <1>2, Zenon DEF ClaimNothing
<1>3. ASSUME NEW w \in Writers, ClaimFails(w) PROVE WritersOK'
  BY <1>a, <1>3, Zenon DEF ClaimFails, AfterConsumeError
<1>4. ASSUME NEW w \in Writers, ClaimRecent(w) \/ ClaimBacklog(w) PROVE WritersOK'
  <2>1. PICK b \in Batches : Claim(w, b)
    BY <1>4, TakeEffect, Zenon DEF ClaimRecent, ClaimBacklog, TypeOK, ListsOK
  <2>2. CASE Begin(w, b)
    BY <1>a, <2>1, <2>2, QueueAssumption DEF Claim, Begin
  <2>3. CASE Goto(w, AfterConsumeError(w)) /\ UNCHANGED <<held, tries>>
    BY <1>a, <2>1, <2>3, Zenon DEF Claim, AfterConsumeError
  <2> QED BY <2>1, <2>2, <2>3, Zenon DEF Claim
<1>5. ASSUME NEW w \in Writers, Process(w) \/ Store(w) \/ Panic(w) \/ Retry(w) PROVE WritersOK'
  <2>1. CASE Process(w)
    BY <1>a, <2>1, Zenon DEF Process
  <2>2. CASE Store(w) \/ Panic(w)
    BY <1>a, <2>2, Zenon DEF Store, Panic
  <2>3. CASE Retry(w)
    BY <1>a, <2>3, Zenon DEF Retry
  <2> QED BY <1>5, <2>1, <2>2, <2>3, Zenon
<1>6. ASSUME NEW w \in Writers, StoreFails(w) PROVE WritersOK'
  <2>1. tries[w] + 1 \in 0..MaxRetries
    BY <1>a, <1>6, QueueAssumption DEF StoreFails, StagesInv
  <2> QED BY <1>a, <1>6, <2>1, Zenon DEF StoreFails
<1>7. ASSUME NEW w \in Writers, DiskFull(w) PROVE WritersOK'
  <2>1. tries[w] + 1 \in 0..MaxRetries
    BY <1>a, <1>7, QueueAssumption DEF DiskFull, StagesInv
  <2> QED BY <1>a, <1>7, <2>1, ZenonT(60) DEF DiskFull
<1>8. ASSUME NEW w \in Writers, GiveUp(w) PROVE WritersOK'
  BY <1>a, <1>8, Zenon DEF GiveUp
<1>9. ASSUME NEW w \in Writers, Requeue(w) \/ RequeueFails(w) PROVE WritersOK'
  BY <1>a, <1>9, Zenon DEF Requeue, RequeueFails
<1>10. ASSUME NEW w \in Writers, Ack(w) \/ AckFails(w) PROVE WritersOK'
  BY <1>a, <1>10, Zenon DEF Ack, AckFails, AfterAck
<1>11. ASSUME NEW w \in Writers, Start(w) \/ Terminate(w) \/ Exit(w) \/ Kill(w) PROVE WritersOK'
  BY <1>a, <1>11, Zenon DEF Start, Terminate, Exit, Kill
<1>12. CASE UNCHANGED <<goroutine, pod>>
  BY <1>a, <1>12, Zenon
<1> QED
  BY <1>1, <1>2, <1>3, <1>4, <1>5, <1>6, <1>7, <1>8, <1>9, <1>10, <1>11, <1>12, ZenonT(60)
     DEF Next, Work, Publish, Reclaim, DelayPasses, vars

\* and of the counts.
LEMMA CountsKept ==
    ASSUME TypeOK, StagesInv, HeldStaysListed, [Next]_vars
    PROVE  CountsOK'
<1> USE DEF CountsOK
<1>a. CountsOK
  BY Zenon DEF TypeOK
<1>1. ASSUME NEW w \in Writers, ClaimRecent(w) \/ ClaimBacklog(w) PROVE CountsOK'
  <2>1. PICK b \in Batches : Claim(w, b)
    BY <1>1, TakeEffect, Zenon DEF ClaimRecent, ClaimBacklog, TypeOK, ListsOK
  <2>2. dropped' = Count(dropped, b) \/ dropped' = dropped
    BY <2>1, Zenon DEF Claim, Begin
  <2>3. UNCHANGED <<processed, failed, accumulated, unacked, killed, excused>>
    BY <2>1, Zenon DEF Claim
  <2>4. dropped' \in [Batches -> Nat]
    BY <1>a, <2>2, CountType
  <2> QED BY <1>a, <2>3, <2>4, Zenon
<1>2. ASSUME NEW w \in Writers, Process(w) \/ Store(w) \/ Panic(w) PROVE CountsOK'
  BY <1>a, <1>2, Holding, CountType, SMTT(30) DEF Process, Store, Panic
<1>3. ASSUME NEW w \in Writers, StoreFails(w) PROVE CountsOK'
  BY <1>a, <1>3, Holding, Zenon DEF StoreFails
<1>4. ASSUME NEW w \in Writers, GiveUp(w) PROVE CountsOK'
  BY <1>a, <1>4, Holding, CountType DEF GiveUp
<1>5. ASSUME NEW w \in Writers, RequeueFails(w) PROVE CountsOK'
  BY <1>a, <1>5, Holding, CountType, SMTT(30) DEF RequeueFails
<1>6. ASSUME NEW w \in Writers, AckFails(w) PROVE CountsOK'
  BY <1>a, <1>6, Holding, CountType, Zenon DEF AckFails
<1>7. ASSUME NEW w \in Writers, Kill(w) PROVE CountsOK'
  <2>1. held[w] # NoBatch => held[w] \in Batches
    BY Zenon DEF TypeOK, WritersOK
  <2>2. pc[w] = "ack" => held[w] # NoBatch
    BY Zenon DEF StagesInv
  <2>3. UNCHANGED <<counts, excused>>
    BY <1>7, Zenon DEF Kill
  <2>4. unacked' \in [Batches -> Nat]
    BY <1>a, <1>7, <2>1, <2>2, CountType, Zenon DEF Kill
  <2>5. killed' \in [Batches -> Nat]
    BY <1>a, <1>7, <2>1, CountType DEF Kill
  <2> QED BY <1>a, <2>3, <2>4, <2>5, Zenon
<1>8. CASE UNCHANGED <<counts, replays, excused>>
  BY <1>a, <1>8, Zenon
<1>9. ASSUME NEW w \in Writers,
             \/ Loop(w) \/ Return(w) \/ Reclaim(w) \/ ReclaimEnds(w) \/ ClaimNothing(w) \/ ClaimFails(w)
             \/ DiskFull(w) \/ Retry(w)
      PROVE  UNCHANGED <<counts, replays, excused>>
  BY <1>9, Zenon DEF Loop, Return, Reclaim, ReclaimEnds, ClaimNothing, ClaimFails, DiskFull, Retry
<1>10. ASSUME NEW w \in Writers,
              Requeue(w) \/ Ack(w) \/ Start(w) \/ Terminate(w) \/ Exit(w) \/ DelayPasses(w)
       PROVE  UNCHANGED <<counts, replays, excused>>
  BY <1>10, Zenon DEF Requeue, Ack, Start, Terminate, Exit, DelayPasses
<1>11. ASSUME NEW b \in Batches, Publish(b) PROVE UNCHANGED <<counts, replays, excused>>
  BY <1>11, Zenon DEF Publish
<1> QED
  BY <1>1, <1>2, <1>3, <1>4, <1>5, <1>6, <1>7, <1>8, <1>9, <1>10, <1>11, ZenonT(60) DEF Next, Work, vars

LEMMA TypesKept ==
    ASSUME TypeOK, StagesInv, HeldStaysListed, [Next]_vars
    PROVE  TypeOK'
<1>1. ASSUME NEW w \in Writers,
             Loop(w) \/ Return(w) \/ Reclaim(w) \/ ReclaimEnds(w) \/ ClaimNothing(w) \/ ClaimFails(w)
      PROVE  UNCHANGED <<mature, errors>> /\ (UNCHANGED faults \/ Fault)
  BY <1>1, Zenon DEF Loop, Return, Reclaim, ReclaimEnds, ClaimNothing, ClaimFails, CallFails
<1>2. ASSUME NEW w \in Writers, ClaimRecent(w) \/ ClaimBacklog(w)
      PROVE  UNCHANGED <<mature, errors>> /\ (UNCHANGED faults \/ Fault)
  BY <1>2, Zenon DEF ClaimRecent, ClaimBacklog, Claim, Begin
<1>3. ASSUME NEW w \in Writers,
             Process(w) \/ Store(w) \/ Panic(w) \/ StoreFails(w) \/ DiskFull(w) \/ Retry(w) \/ GiveUp(w)
      PROVE  UNCHANGED <<mature, faults>> /\ (UNCHANGED errors \/ Error)
  BY <1>3, ZenonT(30) DEF Process, Store, Panic, StoreFails, DiskFull, Retry, GiveUp
<1>4. ASSUME NEW w \in Writers, Requeue(w) \/ RequeueFails(w) \/ Ack(w) \/ AckFails(w)
      PROVE  UNCHANGED <<mature, errors>> /\ (UNCHANGED faults \/ Fault)
  BY <1>4 DEF Requeue, RequeueFails, Ack, AckFails
<1>5. ASSUME NEW w \in Writers, Start(w) \/ Terminate(w) \/ Exit(w) \/ Kill(w)
      PROVE  UNCHANGED <<mature, errors>> /\ (UNCHANGED faults \/ Fault)
  BY <1>5, Zenon DEF Start, Terminate, Exit, Kill
<1>6. ASSUME NEW w \in Writers, DelayPasses(w)
      PROVE  mature' \in [Writers -> BOOLEAN] /\ UNCHANGED <<faults, errors>>
  <2>1. mature' = [mature EXCEPT ![w] = TRUE] /\ UNCHANGED <<faults, errors>>
    BY <1>6, Zenon DEF DelayPasses
  <2> QED BY <2>1, Zenon DEF TypeOK
<1>7. ASSUME (\E b \in Batches : Publish(b)) \/ UNCHANGED vars
      PROVE  UNCHANGED <<mature, faults, errors>>
  BY <1>7, Zenon DEF Publish, vars
<1>8. /\ UNCHANGED mature \/ mature' \in [Writers -> BOOLEAN]
      /\ UNCHANGED faults \/ Fault
      /\ UNCHANGED errors \/ Error
  BY <1>1, <1>2, <1>3, <1>4, <1>5, <1>6, <1>7, ZenonT(60) DEF Next, Work
<1>9. mature' \in [Writers -> BOOLEAN]
  BY <1>8, Zenon DEF TypeOK
<1>10. faults' \in 0..MaxFaults /\ errors' \in 0..MaxErrors
  BY <1>8, QueueAssumption DEF TypeOK, Fault, Error
<1>11. ListsOK' /\ WritersOK' /\ CountsOK'
  BY ListsKept, WritersKept, CountsKept, Zenon
<1> QED BY <1>9, <1>10, <1>11, Zenon DEF TypeOK

\* What a pod and its goroutine say of each other stays true.
LEMMA StagesKept ==
    ASSUME TypeOK, StagesInv, HeldStaysListed, [Next]_vars
    PROVE  StagesInv'
<1> USE DEF StagesInv, WritersOK, Goto, Kind
<1>a. WritersOK /\ NoBatch \notin Batches /\ MaxRetries \in Nat \ {0}
  BY QueueAssumption, Zenon DEF TypeOK
<1>1. ASSUME NEW w \in Writers, Loop(w) \/ Return(w) \/ ReclaimEnds(w) PROVE StagesInv'
  BY <1>a, <1>1 DEF Loop, Return, ReclaimEnds, ConsumeStart
<1>2. ASSUME NEW w \in Writers, ClaimNothing(w) PROVE StagesInv'
  BY <1>a, <1>2 DEF ClaimNothing
<1>3. ASSUME NEW w \in Writers, ClaimFails(w) PROVE StagesInv'
  BY <1>a, <1>3 DEF ClaimFails, AfterConsumeError
<1>4. ASSUME NEW w \in Writers, ClaimRecent(w) \/ ClaimBacklog(w) PROVE StagesInv'
  <2>1. PICK b \in Batches : Claim(w, b)
    BY <1>4, Claims, Zenon
  <2>2. pc[w] \in {"recent", "backlog", "block"} /\ UNCHANGED <<load, pod, mature>>
    BY <1>4, <2>1, Zenon DEF ClaimRecent, ClaimBacklog, Claim
  <2>3. CASE Begin(w, b)
    <3>1. b # NoBatch
      BY <1>a, Zenon
    <3> QED BY <1>a, <2>2, <2>3, <3>1 DEF Begin
  <2>4. CASE Goto(w, AfterConsumeError(w)) /\ UNCHANGED <<held, tries>>
    BY <1>a, <2>2, <2>4 DEF AfterConsumeError
  <2> QED BY <2>1, <2>3, <2>4, Zenon DEF Claim
<1>5. ASSUME NEW w \in Writers, Process(w) \/ Store(w) \/ Panic(w) \/ Retry(w) PROVE StagesInv'
  <2>1. CASE Process(w)
    BY <1>a, <2>1, ZenonT(60) DEF Process
  <2>2. CASE Store(w) \/ Panic(w)
    BY <1>a, <2>2 DEF Store, Panic
  <2>3. CASE Retry(w)
    BY <1>a, <2>3, ZenonT(60) DEF Retry
  <2> QED BY <1>5, <2>1, <2>2, <2>3, Zenon
<1>6. ASSUME NEW w \in Writers, StoreFails(w) PROVE StagesInv'
  <2>1. CASE Kind = "ledger"
    BY <1>a, <1>6, <2>1 DEF StoreFails
  <2>2. CASE Kind # "ledger"
    BY <1>a, <1>6, <2>2 DEF StoreFails
  <2> QED BY <2>1, <2>2, Zenon
<1>7. ASSUME NEW w \in Writers, DiskFull(w) PROVE StagesInv'
  BY <1>a, <1>7 DEF DiskFull
<1>8. ASSUME NEW w \in Writers, GiveUp(w) PROVE StagesInv'
  BY <1>a, <1>8, SMTT(30) DEF GiveUp
<1>9. ASSUME NEW w \in Writers, Requeue(w) \/ RequeueFails(w) PROVE StagesInv'
  BY <1>a, <1>9 DEF Requeue, RequeueFails
<1>10. ASSUME NEW w \in Writers, Ack(w) \/ AckFails(w) PROVE StagesInv'
  BY <1>a, <1>10 DEF Ack, AckFails, AfterAck
<1>11. ASSUME NEW w \in Writers, Start(w) PROVE StagesInv'
  BY <1>a, <1>11 DEF Start, Writers
<1>12. ASSUME NEW w \in Writers, Terminate(w) PROVE StagesInv'
  BY <1>a, <1>12 DEF Terminate, Writers
<1>13. ASSUME NEW w \in Writers, Exit(w) PROVE StagesInv'
  BY <1>a, <1>13 DEF Exit, Writers
<1>14. ASSUME NEW w \in Writers, Kill(w) PROVE StagesInv'
  BY <1>a, <1>14 DEF Kill, Writers
<1>15. ASSUME NEW w \in Writers, DelayPasses(w) PROVE StagesInv'
  BY <1>a, <1>15 DEF DelayPasses, TypeOK
<1>16. CASE UNCHANGED <<load, goroutine, pods>>
  BY <1>16, Zenon
<1>17. ASSUME NEW w \in Writers, Reclaim(w) PROVE UNCHANGED <<load, goroutine, pods>>
  BY <1>17, Zenon DEF Reclaim
<1>18. ASSUME NEW b \in Batches, Publish(b) PROVE UNCHANGED <<load, goroutine, pods>>
  BY <1>18, Zenon DEF Publish
<1> HIDE DEF StagesInv
<1> QED
  BY <1>1, <1>2, <1>3, <1>4, <1>5, <1>6, <1>7, <1>8, <1>9, <1>10, <1>11, <1>12, <1>13, <1>14, <1>15, <1>16, <1>17, <1>18,
     Zenon DEF Next, Work, vars

-----------------------------------------------------------------------------
(* What is listed, and who works on it. *)

\* A writer that lets its batch go takes nothing off the list.
LEMMA HoldersShrink ==
    ASSUME HeldStaysListed, TypeOK, UNCHANGED processing, \A b \in Batches : Holders(b)' \subseteq Holders(b)
    PROVE  HeldStaysListed'
<1> SUFFICES ASSUME NEW b \in Batches PROVE Cardinality(Holders(b)') <= Occurs(processing, b)'
  BY Zenon DEF HeldStaysListed
<1>1. Cardinality(Holders(b)') <= Cardinality(Holders(b)) /\ Cardinality(Holders(b)') \in Nat
  BY HoldersFinite, FS_Subset, FS_CardinalityType, Zenon
<1>2. Cardinality(Holders(b)) \in Nat /\ Occurs(processing, b) \in Nat
  BY HoldersFinite, OccursNat, Zenon DEF TypeOK, ListsOK
<1> QED BY <1>1, <1>2 DEF HeldStaysListed

\* Nobody holds a batch while a writer reclaims.
LEMMA ReclaimAlone ==
    ASSUME TypeOK, StagesInv, NEW w \in Writers, pc[w] = "reclaim", pod[w] = "run", NEW b \in Batches
    PROVE  Holders(b) = {}
<1> SUFFICES ASSUME NEW v \in Writers, held[v] = b PROVE FALSE
  BY Zenon DEF Holders
<1>1. v # w /\ pc[v] # "off"
  BY QueueAssumption, Zenon DEF StagesInv
<1>2. CASE v < w
  <2>1. v \in 1..(w - 1)
    BY <1>2 DEF Writers
  <2> QED BY <1>1, <2>1, Zenon DEF StagesInv
<1>3. CASE w < v
  <2>1. w \in 1..(v - 1)
    BY <1>3 DEF Writers
  <2> QED BY <1>1, <2>1, Zenon DEF StagesInv
<1> QED BY <1>1, <1>2, <1>3 DEF Writers

\* A writer's batch stays listed.
LEMMA HeldKept ==
    ASSUME TypeOK, StagesInv, HeldStaysListed, [Next]_vars
    PROVE  HeldStaysListed'
<1>a. WritersOK /\ ListsOK /\ NoBatch \notin Batches
  BY QueueAssumption, Zenon DEF TypeOK
<1>1. ASSUME NEW w \in Writers, Reclaim(w) PROVE HeldStaysListed'
  <2> SUFFICES ASSUME NEW b \in Batches PROVE Cardinality(Holders(b)') <= Occurs(processing, b)'
    BY Zenon DEF HeldStaysListed
  <2>1. Holders(b)' = {}
    <3>1. Holders(b) = {}
      BY <1>1, ReclaimAlone, Zenon DEF Reclaim
    <3> QED BY <1>1, <3>1, Zenon DEF Reclaim, Holders
  <2>2. Occurs(processing', b) \in Nat
    BY ListsKept, OccursNat, Zenon DEF ListsOK
  <2> QED BY <2>1, <2>2, FS_EmptySet
<1>2. ASSUME NEW w \in Writers, ClaimRecent(w) \/ ClaimBacklog(w) PROVE HeldStaysListed'
  <2>1. PICK b \in Batches : Claim(w, b)
    BY <1>2, TakeEffect, Zenon DEF ClaimRecent, ClaimBacklog, TypeOK, ListsOK
  <2>2. \A c : Occurs(processing, c)' = Occurs(processing, c) + Bit(b = c)
    BY <1>a, <2>1, OccursPush DEF Claim, ListsOK
  <2> SUFFICES ASSUME NEW c \in Batches PROVE Cardinality(Holders(c))' <= Occurs(processing, c)'
    BY Zenon DEF HeldStaysListed
  <2>3. Cardinality(Holders(c)) \in Nat /\ Occurs(processing, c) \in Nat /\ Cardinality(Holders(c)) <= Occurs(processing, c)
    BY <1>a, HoldersFinite, OccursNat, Zenon DEF ListsOK, HeldStaysListed
  <2>4. CASE Begin(w, b)
    <3>1. held[w] = NoBatch
      BY <1>2, Zenon DEF StagesInv, ClaimRecent, ClaimBacklog
    <3>2. (\A v \in Writers \ {w} : held'[v] = held[v] /\ pc'[v] = pc[v]) /\ held'[w] = b
      BY <1>a, <2>4, Zenon DEF Begin, Goto, WritersOK
    <3>3. Cardinality(Holders(c))' = Cardinality(Holders(c)) - Bit(held[w] = c) + Bit(held'[w] = c)
      BY <3>2, OneWriterMoves
    <3>4. Bit(held[w] = c) = 0 /\ Bit(held'[w] = c) = Bit(b = c)
      BY <1>a, <3>1, <3>2, Zenon DEF Bit
    <3> QED BY <2>2, <2>3, <3>3, <3>4 DEF Bit
  <2>5. CASE UNCHANGED held
    <3>1. Cardinality(Holders(c))' = Cardinality(Holders(c))
      BY <2>5, Zenon DEF Holders
    <3> QED BY <2>2, <2>3, <3>1 DEF Bit
  <2> QED BY <2>1, <2>4, <2>5, Zenon DEF Claim
<1>3. ASSUME NEW w \in Writers, Ack(w) PROVE HeldStaysListed'
  <2>1. held[w] \in Batches /\ Occurs(processing, held[w]) > 0
    BY <1>3, Holding, Zenon DEF Ack
  <2> SUFFICES ASSUME NEW c \in Batches PROVE Cardinality(Holders(c))' <= Occurs(processing, c)'
    BY Zenon DEF HeldStaysListed
  <2>2. Occurs(processing, c)' = Occurs(processing, c) - Bit(held[w] = c)
    BY <1>a, <1>3, <2>1, OccursRemoved DEF Ack, ListsOK
  <2>3. Cardinality(Holders(c)) \in Nat /\ Occurs(processing, c) \in Nat /\ Cardinality(Holders(c)) <= Occurs(processing, c)
    BY <1>a, HoldersFinite, OccursNat, Zenon DEF ListsOK, HeldStaysListed
  <2>4. (\A v \in Writers \ {w} : held'[v] = held[v] /\ pc'[v] = pc[v]) /\ held'[w] = NoBatch
    BY <1>a, <1>3, Zenon DEF Ack, Goto, WritersOK
  <2>5. Cardinality(Holders(c))' = Cardinality(Holders(c)) - Bit(held[w] = c) + Bit(held'[w] = c)
    BY <2>4, OneWriterMoves
  <2>6. Bit(held'[w] = c) = 0
    BY <1>a, <2>4, Zenon DEF Bit
  <2> QED BY <2>2, <2>3, <2>5, <2>6 DEF Bit
<1>4. ASSUME NEW w \in Writers, StoreFails(w) \/ DiskFull(w) \/ GiveUp(w) \/ AckFails(w) \/ Kill(w) PROVE HeldStaysListed'
  <2>1. UNCHANGED processing /\ (UNCHANGED held \/ held' = [held EXCEPT ![w] = NoBatch])
    BY <1>4, Zenon DEF StoreFails, DiskFull, GiveUp, AckFails, Kill
  <2>2. \A b \in Batches : Holders(b)' \subseteq Holders(b)
    BY <1>a, <2>1, Zenon DEF Holders, WritersOK
  <2> QED BY <2>1, <2>2, HoldersShrink, Zenon
<1>5. CASE UNCHANGED <<processing, held>>
  <2>1. \A b \in Batches : Holders(b)' \subseteq Holders(b)
    BY <1>5, Zenon DEF Holders
  <2> QED BY <1>5, <2>1, HoldersShrink, Zenon
<1>6. ASSUME NEW w \in Writers,
             \/ Loop(w) \/ Return(w) \/ ReclaimEnds(w) \/ ClaimNothing(w) \/ ClaimFails(w) \/ Process(w)
             \/ Store(w) \/ Panic(w)
      PROVE  UNCHANGED <<processing, held>>
  BY <1>6, Zenon DEF Loop, Return, ReclaimEnds, ClaimNothing, ClaimFails, Process, Store, Panic
<1>7. ASSUME NEW w \in Writers,
             \/ Retry(w) \/ Requeue(w) \/ RequeueFails(w) \/ Start(w) \/ Terminate(w) \/ Exit(w) \/ DelayPasses(w)
      PROVE  UNCHANGED <<processing, held>>
  BY <1>7, Zenon DEF Retry, Requeue, RequeueFails, Start, Terminate, Exit, DelayPasses
<1>8. ASSUME NEW b \in Batches, Publish(b) PROVE UNCHANGED <<processing, held>>
  BY <1>8, Zenon DEF Publish
<1> QED
  BY <1>1, <1>2, <1>3, <1>4, <1>5, <1>6, <1>7, <1>8, ZenonT(60) DEF Next, Work, vars
=============================================================================
