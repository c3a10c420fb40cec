--------------------- MODULE WriteQueueDelivery_proofs ----------------------
(* What each step of the write queue does to the deliveries of a batch, and   *)
(* that it is a step of the abstract queue (Delivery).                       *)
EXTENDS WriteQueue_proofs

USE DEF lists, goroutine, pods, counts, replays

-----------------------------------------------------------------------------
(* The effect of a step on the deliveries. *)

Acking(b) == Cardinality(InStage(b, {"ack"}))
Plus(b, c, d) == IF b = c THEN d ELSE 0

\* A step that lists b dl times more, has da more writers finish it, handles it
\* dh times more, and leaves it behind du times more.
Effect(b, dl, da, dh, du) ==
    \A c \in Batches :
       /\ Listed(c)' = Listed(c) + Plus(b, c, dl)
       /\ Acking(c)' = Acking(c) + Plus(b, c, da)
       /\ Handled(c)' = Handled(c) + Plus(b, c, dh)
       /\ unacked'[c] = unacked[c] + Plus(b, c, du)

\* The counts a delivery is made of are natural numbers.
LEMMA DeliveryNats ==
    ASSUME TypeOK, HeldStaysListed, NEW b \in Batches
    PROVE  /\ Occurs(recent, b) \in Nat /\ Occurs(backlog, b) \in Nat /\ Occurs(processing, b) \in Nat
           /\ Listed(b) \in Nat /\ Acking(b) \in Nat /\ Handled(b) \in Nat /\ unacked[b] \in Nat
           /\ Acking(b) <= Cardinality(Holders(b)) /\ Cardinality(Holders(b)) <= Occurs(processing, b)
           /\ Copies(b) \in Nat /\ Copies(b) = Listed(b) - Acking(b)
           /\ Listed(b) = Occurs(recent, b) + Occurs(backlog, b) + Occurs(processing, b)
           /\ Acking(b) <= Occurs(processing, b)
<1>1. Occurs(recent, b) \in Nat /\ Occurs(backlog, b) \in Nat /\ Occurs(processing, b) \in Nat
  BY OccursNat, Zenon DEF TypeOK, ListsOK
<1>2. Acking(b) \in Nat /\ Cardinality(Holders(b)) \in Nat /\ Acking(b) <= Cardinality(Holders(b))
  BY HoldersFinite, Zenon DEF Acking
<1>3. Cardinality(Holders(b)) <= Occurs(processing, b)
  BY Zenon DEF HeldStaysListed
<1>4. Handled(b) \in Nat /\ unacked[b] \in Nat
  BY DEF Handled, TypeOK, CountsOK
<1> QED BY <1>1, <1>2, <1>3, <1>4 DEF Listed, Copies, Acking

\* While a writer has not finished b, there is a copy of b to be handled.
LEMMA UnfinishedCopy ==
    ASSUME TypeOK, StagesInv, HeldStaysListed, NEW w \in Writers,
           pc[w] \in {"process", "store", "wait", "requeue"}
    PROVE  held[w] \in Batches /\ Copies(held[w]) > 0 /\ Listed(held[w]) > 0
<1> DEFINE b == held[w]
<1>1. b \in Batches /\ Occurs(processing, b) > 0
  BY Holding, Zenon
<1>2. w \in Holders(b) /\ w \notin InStage(b, {"ack"})
  BY Zenon DEF Holders, InStage
<1>3. InStage(b, {"ack"}) \in SUBSET Holders(b) /\ InStage(b, {"ack"}) # Holders(b)
  BY <1>2, Zenon DEF InStage
<1>4. Acking(b) # Cardinality(Holders(b))
  BY <1>3, HoldersFinite, FS_Subset, Zenon DEF Acking
<1> HIDE DEF b
<1>5. /\ Occurs(recent, b) \in Nat /\ Occurs(backlog, b) \in Nat /\ Occurs(processing, b) \in Nat
      /\ Acking(b) \in Nat /\ Cardinality(Holders(b)) \in Nat
      /\ Acking(b) <= Cardinality(Holders(b)) /\ Cardinality(Holders(b)) <= Occurs(processing, b)
      /\ Copies(b) = Listed(b) - Acking(b)
  BY <1>1, DeliveryNats, HoldersFinite, Zenon
<1>6. Listed(b) = Occurs(recent, b) + Occurs(backlog, b) + Occurs(processing, b)
  BY Zenon DEF Listed
<1>7. Copies(b) > 0 /\ Listed(b) > 0
  BY <1>1, <1>4, <1>5, <1>6
<1> QED BY <1>1, <1>7, Zenon DEF b

\* One writer moves.
LEMMA AckingMoves ==
    ASSUME TypeOK, HeldStaysListed, NEW w \in Writers, NEW c \in Batches,
           \A v \in Writers \ {w} : held'[v] = held[v] /\ pc'[v] = pc[v]
    PROVE  Acking(c)' = Acking(c) - Bit(held[w] = c /\ pc[w] = "ack") + Bit(held'[w] = c /\ pc'[w] = "ack")
<1>1. /\ pc[w] \in {"ack"} <=> pc[w] = "ack"
      /\ pc'[w] \in {"ack"} <=> pc'[w] = "ack"
  BY Zenon
<1>2. Acking(c)' = Acking(c) - Bit(held[w] = c /\ pc[w] \in {"ack"}) + Bit(held'[w] = c /\ pc'[w] \in {"ack"})
  BY OneWriterMoves DEF Acking
<1> QED BY <1>1, <1>2, Zenon

\* A step outside the lists that neither reaches nor leaves the ack.
LEMMA StillStep ==
    ASSUME TypeOK, HeldStaysListed, NEW w \in Writers,
           UNCHANGED <<recent, backlog, processing, processed, failed, dropped, unacked>>,
           \A v \in Writers \ {w} : held'[v] = held[v] /\ pc'[v] = pc[v],
           pc[w] # "ack", pc'[w] # "ack"
    PROVE  Effect(NoBatch, 0, 0, 0, 0)
<1> SUFFICES ASSUME NEW c \in Batches
             PROVE  /\ Listed(c)' = Listed(c) /\ Acking(c)' = Acking(c)
                    /\ Handled(c)' = Handled(c) /\ unacked'[c] = unacked[c]
  BY DeliveryNats DEF Effect, Plus
<1>1. Acking(c)' = Acking(c)
  BY AckingMoves, DeliveryNats DEF Bit
<1> QED BY <1>1, Zenon DEF Listed, Handled

\* A writer finishes b: what it did to the lists and the counts is left open.
LEMMA FinishStep ==
    ASSUME TypeOK, HeldStaysListed, NEW w \in Writers, NEW b \in Batches, NEW dl, NEW dh, NEW du,
           \A v \in Writers \ {w} : held'[v] = held[v] /\ pc'[v] = pc[v],
           pc[w] # "ack", pc'[w] = "ack", held'[w] = b,
           \A c \in Batches : /\ Listed(c)' = Listed(c) + Plus(b, c, dl)
                              /\ Handled(c)' = Handled(c) + Plus(b, c, dh)
                              /\ unacked'[c] = unacked[c] + Plus(b, c, du)
    PROVE  Effect(b, dl, 1, dh, du)
<1> SUFFICES ASSUME NEW c \in Batches PROVE Acking(c)' = Acking(c) + Plus(b, c, 1)
  BY Zenon DEF Effect
<1> QED BY AckingMoves, DeliveryNats DEF Bit, Plus

\* A writer lets b go after it has finished it.
LEMMA ReleaseStep ==
    ASSUME TypeOK, HeldStaysListed, NEW w \in Writers, NEW b \in Batches, NEW dl, NEW du,
           \A v \in Writers \ {w} : held'[v] = held[v] /\ pc'[v] = pc[v],
           pc[w] = "ack", held[w] = b, held'[w] \notin Batches,
           UNCHANGED <<processed, failed, dropped>>,
           \A c \in Batches : /\ Listed(c)' = Listed(c) + Plus(b, c, dl)
                              /\ unacked'[c] = unacked[c] + Plus(b, c, du)
    PROVE  Effect(b, dl, -1, 0, du)
<1> SUFFICES ASSUME NEW c \in Batches
             PROVE Acking(c)' = Acking(c) + Plus(b, c, -1) /\ Handled(c)' = Handled(c) + Plus(b, c, 0)
  BY Zenon DEF Effect
<1>1. Acking(c)' = Acking(c) + Plus(b, c, -1)
  BY AckingMoves, DeliveryNats DEF Bit, Plus
<1>2. Handled(c)' = Handled(c) /\ Handled(c) \in Nat
  BY DeliveryNats, Zenon DEF Handled
<1> QED BY <1>1, <1>2 DEF Plus

\* What a step may do to the deliveries: publish b, handle a copy of it, handle
\* a copy and leave another, find that a finished one was left behind, pass a
\* finished one on, take a finished one off its list, or none of these.
Deliveries ==
    \/ \E b \in todo : todo' = todo \ {b} /\ Effect(b, 1, 0, 0, 0)
    \/ todo' = todo /\ Effect(NoBatch, 0, 0, 0, 0)
    \/ /\ todo' = todo
       /\ \E b \in Batches :
             /\ Listed(b) > 0
             /\ \/ Copies(b) > 0 /\ Effect(b, 0, 1, 1, 0)
                \/ Copies(b) > 0 /\ Effect(b, 1, 1, 1, 1)
                \/ Effect(b, 0, -1, 0, 1)
                \/ Effect(b, 1, 1, 0, 0)
                \/ Effect(b, -1, -1, 0, 0)

\* Publish.
LEMMA PublishEffect ==
    ASSUME TypeOK, HeldStaysListed, NEW b \in Batches, Publish(b)
    PROVE  Deliveries
<1>1. \A c \in Batches : Occurs(recent, c)' + Occurs(backlog, c)' = Occurs(recent, c) + Occurs(backlog, c) + Bit(b = c)
  BY PushEffect DEF Publish, TypeOK
<1>2. Effect(b, 1, 0, 0, 0)
  <2> SUFFICES ASSUME NEW c \in Batches
               PROVE  /\ Listed(c)' = Listed(c) + Plus(b, c, 1) /\ Acking(c)' = Acking(c)
                      /\ Handled(c)' = Handled(c) /\ unacked'[c] = unacked[c]
    BY DeliveryNats DEF Effect, Plus
  <2>1. Acking(c)' = Acking(c)
    BY NoWriterMoves, Zenon DEF Publish, Acking
  <2>2. Handled(c)' = Handled(c) /\ unacked'[c] = unacked[c] /\ Occurs(processing, c)' = Occurs(processing, c)
    BY Zenon DEF Publish, Handled
  <2>3. Listed(c)' = Listed(c) + Plus(b, c, 1)
    <3>1. Listed(c)' = Occurs(recent, c)' + Occurs(backlog, c)' + Occurs(processing, c)'
      BY Zenon DEF Listed
    <3> QED BY <1>1, <2>2, <3>1, DeliveryNats DEF Listed, Bit, Plus
  <2> QED BY <2>1, <2>2, <2>3, Zenon
<1> QED BY <1>2, Zenon DEF Deliveries, Publish

\* Reclaim.
LEMMA ReclaimEffect ==
    ASSUME TypeOK, HeldStaysListed, NEW w \in Writers, Reclaim(w)
    PROVE  Deliveries
<1> DEFINE e == RightEnd(processing)
<1>1. e \in Batches /\ \A c : Occurs(processing', c) = Occurs(processing, c) - Bit(e = c)
  BY TakeEffect, ZenonT(60) DEF Reclaim, TypeOK, ListsOK
<1> HIDE DEF e
<1>2. \A c : Occurs(recent', c) = Occurs(recent, c) + Bit(e = c)
  BY <1>1, OccursAppend DEF Reclaim, TypeOK, ListsOK, e
<1>3. Effect(NoBatch, 0, 0, 0, 0)
  <2> SUFFICES ASSUME NEW c \in Batches
               PROVE  /\ Listed(c)' = Listed(c) /\ Acking(c)' = Acking(c)
                      /\ Handled(c)' = Handled(c) /\ unacked'[c] = unacked[c]
    BY DeliveryNats DEF Effect, Plus
  <2>1. Acking(c)' = Acking(c)
    BY NoWriterMoves, Zenon DEF Reclaim, Acking
  <2>2. Handled(c)' = Handled(c) /\ unacked'[c] = unacked[c] /\ backlog' = backlog
    BY Zenon DEF Reclaim, Handled
  <2>3. Listed(c)' = Occurs(recent', c) + Occurs(backlog', c) + Occurs(processing', c)
    BY Zenon DEF Listed
  <2>4. Listed(c)' = Listed(c)
    BY <1>1, <1>2, <2>2, <2>3, DeliveryNats DEF Listed, Bit
  <2> QED BY <2>1, <2>2, <2>4, Zenon
<1> QED BY <1>3, Zenon DEF Deliveries, Reclaim

\* A claim moves an entry from a queue to the processing list.
LEMMA ClaimListed ==
    ASSUME TypeOK, HeldStaysListed, NEW w \in Writers, ClaimRecent(w) \/ ClaimBacklog(w)
    PROVE  \E b \in Batches : Claim(w, b) /\ Copies(b) > 0 /\ Listed(b) > 0 /\ \A c \in Batches : Listed(c)' = Listed(c)
<1>a. ListsOK
  BY Zenon DEF TypeOK
<1>1. CASE ClaimRecent(w)
  <2> DEFINE b == RightEnd(recent)
  <2>1. b \in Batches /\ \A c : Occurs(recent', c) = Occurs(recent, c) - Bit(b = c)
    BY <1>a, <1>1, TakeEffect DEF ClaimRecent, ListsOK
  <2>2. Claim(w, b) /\ UNCHANGED backlog
    BY <1>1, Zenon DEF ClaimRecent
  <2>3. Occurs(recent', b) \in Nat
    BY <1>a, <1>1, TakeEffect, OccursNat DEF ClaimRecent, ListsOK
  <2> HIDE DEF b
  <2>4. \A c : Occurs(processing', c) = Occurs(processing, c) + Bit(b = c)
    BY <1>a, <2>1, <2>2, OccursPush DEF Claim, ListsOK
  <2>5. ASSUME NEW c \in Batches PROVE Listed(c)' = Listed(c)
    <3>1. Listed(c)' = Occurs(recent', c) + Occurs(backlog', c) + Occurs(processing', c)
      BY Zenon DEF Listed
    <3> QED BY <2>1, <2>2, <2>4, <3>1, DeliveryNats DEF Listed, Bit
  <2>6. Occurs(recent, b) > 0
    BY <2>1, <2>3, DeliveryNats DEF Bit
  <2>7. /\ Listed(b) = Occurs(recent, b) + Occurs(backlog, b) + Occurs(processing, b)
        /\ Occurs(recent, b) \in Nat /\ Occurs(backlog, b) \in Nat /\ Occurs(processing, b) \in Nat
        /\ Acking(b) \in Nat /\ Acking(b) <= Occurs(processing, b) /\ Copies(b) = Listed(b) - Acking(b)
    BY <2>1, DeliveryNats, Zenon
  <2>8. Copies(b) > 0 /\ Listed(b) > 0
    BY <2>6, <2>7, SMTT(30)
  <2> QED BY <2>1, <2>2, <2>5, <2>8, Zenon
<1>2. CASE ClaimBacklog(w)
  <2> DEFINE b == RightEnd(backlog)
  <2>1. b \in Batches /\ \A c : Occurs(backlog', c) = Occurs(backlog, c) - Bit(b = c)
    BY <1>a, <1>2, TakeEffect DEF ClaimBacklog, ListsOK
  <2>2. Claim(w, b) /\ UNCHANGED recent
    BY <1>2, Zenon DEF ClaimBacklog
  <2>3. Occurs(backlog', b) \in Nat
    BY <1>a, <1>2, TakeEffect, OccursNat DEF ClaimBacklog, ListsOK
  <2> HIDE DEF b
  <2>4. \A c : Occurs(processing', c) = Occurs(processing, c) + Bit(b = c)
    BY <1>a, <2>1, <2>2, OccursPush DEF Claim, ListsOK
  <2>5. ASSUME NEW c \in Batches PROVE Listed(c)' = Listed(c)
    <3>1. Listed(c)' = Occurs(recent', c) + Occurs(backlog', c) + Occurs(processing', c)
      BY Zenon DEF Listed
    <3> QED BY <2>1, <2>2, <2>4, <3>1, DeliveryNats DEF Listed, Bit
  <2>6. Occurs(backlog, b) > 0
    BY <2>1, <2>3, DeliveryNats DEF Bit
  <2>7. /\ Listed(b) = Occurs(recent, b) + Occurs(backlog, b) + Occurs(processing, b)
        /\ Occurs(recent, b) \in Nat /\ Occurs(backlog, b) \in Nat /\ Occurs(processing, b) \in Nat
        /\ Acking(b) \in Nat /\ Acking(b) <= Occurs(processing, b) /\ Copies(b) = Listed(b) - Acking(b)
    BY <2>1, DeliveryNats, Zenon
  <2>8. Copies(b) > 0 /\ Listed(b) > 0
    BY <2>6, <2>7
  <2> QED BY <2>1, <2>2, <2>5, <2>8, Zenon
<1> QED BY <1>1, <1>2, Zenon

\* Its reply may be lost; a garbled batch is finished at once.
LEMMA ClaimEffect ==
    ASSUME TypeOK, StagesInv, HeldStaysListed, NEW w \in Writers, ClaimRecent(w) \/ ClaimBacklog(w)
    PROVE  Deliveries
<1>1. PICK b \in Batches : Claim(w, b) /\ Copies(b) > 0 /\ Listed(b) > 0 /\ \A c \in Batches : Listed(c)' = Listed(c)
  BY ClaimListed, Zenon
<1>2. pc[w] # "ack" /\ todo' = todo /\ UNCHANGED <<processed, failed, unacked>>
  BY <1>1, Zenon DEF ClaimRecent, ClaimBacklog, Claim
<1>3. \A v \in Writers \ {w} : held'[v] = held[v] /\ pc'[v] = pc[v]
  BY <1>1, Zenon DEF Claim, Begin, Goto, TypeOK, WritersOK
<1>4. CASE Begin(w, b) /\ b \in load.garbled
  <2>1. pc'[w] = "ack" /\ held'[w] = b /\ dropped' = Count(dropped, b)
    BY <1>4, Zenon DEF Begin, Goto, TypeOK, WritersOK
  <2>2. ASSUME NEW c \in Batches
        PROVE  /\ Listed(c)' = Listed(c) + Plus(b, c, 0) /\ Handled(c)' = Handled(c) + Plus(b, c, 1)
               /\ unacked'[c] = unacked[c] + Plus(b, c, 0)
    <3>1. dropped'[c] = dropped[c] + Bit(b = c)
      BY <2>1, CountType DEF TypeOK, CountsOK
    <3>2. Handled(c)' = Handled(c) + Plus(b, c, 1)
      BY <1>2, <3>1 DEF Handled, Bit, Plus, TypeOK, CountsOK
    <3> QED BY <1>1, <1>2, <3>2, DeliveryNats, SMTT(30) DEF Plus
  <2>3. Effect(b, 0, 1, 1, 0)
    BY <1>2, <1>3, <2>1, <2>2, FinishStep, Zenon
  <2> QED BY <1>1, <1>2, <2>3, Zenon DEF Deliveries
<1>5. CASE UNCHANGED dropped /\ pc'[w] # "ack"
  <2>1. Effect(NoBatch, 0, 0, 0, 0)
    <3> SUFFICES ASSUME NEW c \in Batches
                 PROVE  /\ Listed(c)' = Listed(c) /\ Acking(c)' = Acking(c)
                        /\ Handled(c)' = Handled(c) /\ unacked'[c] = unacked[c]
      BY DeliveryNats DEF Effect, Plus
    <3>1. Acking(c)' = Acking(c)
      <4>1. Acking(c)' = Acking(c) - Bit(held[w] = c /\ pc[w] = "ack") + Bit(held'[w] = c /\ pc'[w] = "ack")
        BY <1>3, AckingMoves, Zenon
      <4>2. Acking(c) \in Nat /\ ~(held[w] = c /\ pc[w] = "ack") /\ ~(held'[w] = c /\ pc'[w] = "ack")
        BY <1>2, <1>3, <1>5, DeliveryNats, Zenon
      <4> QED BY <4>1, <4>2 DEF Bit
    <3> QED BY <1>1, <1>2, <1>5, <3>1, Zenon DEF Handled
  <2> QED BY <1>2, <2>1, Zenon DEF Deliveries
<1>6. (Begin(w, b) /\ b \in load.garbled) \/ (UNCHANGED dropped /\ pc'[w] # "ack")
  BY <1>1, Zenon DEF Claim, Begin, Goto, AfterConsumeError, TypeOK, WritersOK
<1> QED BY <1>4, <1>5, <1>6, Zenon

\* A writer that stores b, gives it up or drops it has handled one copy.
LEMMA HandleEffect ==
    ASSUME TypeOK, StagesInv, HeldStaysListed, NEW w \in Writers,
           UNCHANGED <<todo, recent, backlog, processing, held, unacked>>,
           pc[w] \in {"process", "store", "wait", "requeue"}, Goto(w, "ack"),
           \/ processed' = Count(processed, held[w]) /\ UNCHANGED <<failed, dropped>>
           \/ failed' = Count(failed, held[w]) /\ UNCHANGED <<processed, dropped>>
           \/ dropped' = Count(dropped, held[w]) /\ UNCHANGED <<processed, failed>>
    PROVE  Deliveries
<1> DEFINE b == held[w]
<1>1. b \in Batches /\ Copies(b) > 0 /\ Listed(b) > 0
  BY UnfinishedCopy, Zenon
<1>2. /\ \A v \in Writers \ {w} : held'[v] = held[v] /\ pc'[v] = pc[v]
      /\ pc[w] # "ack" /\ pc'[w] = "ack" /\ held'[w] = b
  BY Zenon DEF Goto, TypeOK, WritersOK
<1>3. CountsOK /\ Count(processed, b) \in [Batches -> Nat] /\ Count(failed, b) \in [Batches -> Nat]
      /\ Count(dropped, b) \in [Batches -> Nat]
  <2>1. CountsOK /\ {processed, failed, dropped} \subseteq [Batches -> Nat]
    BY Zenon DEF TypeOK, CountsOK
  <2> HIDE DEF b
  <2> QED BY <1>1, <2>1, CountType, Zenon
<1>4. \A c \in Batches : /\ Count(processed, b)[c] = processed[c] + Bit(b = c)
                         /\ Count(failed, b)[c] = failed[c] + Bit(b = c)
                         /\ Count(dropped, b)[c] = dropped[c] + Bit(b = c)
  <2> TAKE c \in Batches
  <2>1. processed \in [Batches -> Nat] /\ failed \in [Batches -> Nat] /\ dropped \in [Batches -> Nat]
    BY <1>3, Zenon DEF CountsOK
  <2> HIDE DEF b
  <2>2. Count(processed, b)[c] = processed[c] + Bit(b = c)
    BY <1>1, <2>1, CountType
  <2>3. Count(failed, b)[c] = failed[c] + Bit(b = c)
    BY <1>1, <2>1, CountType
  <2>4. Count(dropped, b)[c] = dropped[c] + Bit(b = c)
    BY <1>1, <2>1, CountType, SMTT(30)
  <2> QED BY <2>2, <2>3, <2>4, Zenon
<1> HIDE DEF b
<1>5. ASSUME NEW c \in Batches
      PROVE  /\ Listed(c)' = Listed(c) + Plus(b, c, 0) /\ Handled(c)' = Handled(c) + Plus(b, c, 1)
             /\ unacked'[c] = unacked[c] + Plus(b, c, 0)
  <2>1. processed[c] \in Nat /\ failed[c] \in Nat /\ dropped[c] \in Nat
    BY <1>3, Zenon DEF CountsOK
  <2>2. Handled(c)' = Handled(c) + Plus(b, c, 1)
    BY <1>4, <2>1 DEF Handled, Bit, Plus, b
  <2>3. Listed(c)' = Listed(c)
    BY Zenon DEF Listed
  <2> QED BY <2>2, <2>3, DeliveryNats DEF Plus
<1>6. Effect(b, 0, 1, 1, 0)
  BY <1>1, <1>2, <1>5, FinishStep, Zenon
<1> QED BY <1>1, <1>6, Zenon DEF Deliveries

\* A step that only moves a writer.
LEMMA MoveEffect ==
    ASSUME TypeOK, HeldStaysListed, NEW w \in Writers,
           UNCHANGED <<todo, recent, backlog, processing, processed, failed, dropped, unacked>>,
           \A v \in Writers \ {w} : held'[v] = held[v] /\ pc'[v] = pc[v],
           pc[w] # "ack", pc'[w] # "ack"
    PROVE  Deliveries
  BY StillStep, Zenon DEF Deliveries

\* Requeue, and a requeue that seems to fail.
LEMMA RequeueEffect ==
    ASSUME TypeOK, StagesInv, HeldStaysListed, NEW w \in Writers, Requeue(w) \/ RequeueFails(w)
    PROVE  Deliveries
<1> DEFINE b == held[w]
<1>1. b \in Batches /\ Copies(b) > 0 /\ Listed(b) > 0
  BY UnfinishedCopy, Zenon DEF Requeue, RequeueFails
<1>2. /\ \A v \in Writers \ {w} : held'[v] = held[v] /\ pc'[v] = pc[v]
      /\ pc[w] # "ack" /\ pc'[w] = "ack" /\ held'[w] = b
      /\ UNCHANGED <<todo, processing, held, processed, dropped>>
  BY Zenon DEF Requeue, RequeueFails, Goto, TypeOK, WritersOK
<1>3. ASSUME Push(b), NEW c \in Batches PROVE Listed(c)' = Listed(c) + Plus(b, c, 1)
  <2>1. Occurs(recent, c)' + Occurs(backlog, c)' = Occurs(recent, c) + Occurs(backlog, c) + Bit(b = c)
    BY <1>1, <1>3, PushEffect DEF TypeOK
  <2>2. Listed(c)' = Occurs(recent, c)' + Occurs(backlog, c)' + Occurs(processing, c)' /\ Occurs(processing, c)' = Occurs(processing, c)
    BY <1>2, Zenon DEF Listed
  <2> QED BY <2>1, <2>2, DeliveryNats DEF Bit, Plus
<1>4. CASE Requeue(w)
  <2>1. ASSUME NEW c \in Batches
        PROVE  /\ Listed(c)' = Listed(c) + Plus(b, c, 1) /\ Handled(c)' = Handled(c) + Plus(b, c, 0)
               /\ unacked'[c] = unacked[c] + Plus(b, c, 0)
    <3>1. Handled(c)' = Handled(c) /\ unacked'[c] = unacked[c]
      BY <1>4, Zenon DEF Requeue, Handled
    <3>2. Push(b)
      BY <1>4, Zenon DEF Requeue
    <3> QED BY <1>3, <3>1, <3>2, DeliveryNats, SMTT(30) DEF Plus
  <2> HIDE DEF b
  <2>2. Effect(b, 1, 1, 0, 0)
    BY <1>1, <1>2, <2>1, FinishStep, Zenon
  <2> QED BY <1>1, <1>2, <2>2, Zenon DEF Deliveries
<1>5. CASE RequeueFails(w) /\ UNCHANGED <<recent, backlog, unacked>>
  BY <1>2, <1>5, HandleEffect, Zenon DEF RequeueFails
<1>6. CASE RequeueFails(w) /\ Push(b) /\ unacked' = Count(unacked, b)
  <2>1. ASSUME NEW c \in Batches
        PROVE  /\ Listed(c)' = Listed(c) + Plus(b, c, 1) /\ Handled(c)' = Handled(c) + Plus(b, c, 1)
               /\ unacked'[c] = unacked[c] + Plus(b, c, 1)
    <3>1. failed'[c] = failed[c] + Bit(b = c) /\ unacked'[c] = unacked[c] + Bit(b = c)
      BY <1>1, <1>6, CountType, SMTT(30) DEF RequeueFails, TypeOK, CountsOK
    <3>2. processed[c] \in Nat /\ failed[c] \in Nat /\ dropped[c] \in Nat /\ unacked[c] \in Nat
      BY Zenon DEF TypeOK, CountsOK
    <3>a. Bit(b = c) = Plus(b, c, 1)
      BY Zenon DEF Bit, Plus
    <3>b. processed'[c] = processed[c] /\ dropped'[c] = dropped[c]
      BY <1>6, Zenon DEF RequeueFails
    <3>3. Handled(c)' = Handled(c) + Plus(b, c, 1)
      <4> HIDE DEF b
      <4> DEFINE n == Plus(b, c, 1)
      <4>1. failed'[c] = failed[c] + n /\ n \in Nat
        BY <3>1, <3>a, Zenon DEF Plus
      <4> HIDE DEF n
      <4>2. processed'[c] + failed'[c] + dropped'[c] = processed[c] + failed[c] + dropped[c] + n
        BY <3>2, <3>b, <4>1
      <4> QED BY <4>2, Zenon DEF Handled, n
    <3>4. unacked'[c] = unacked[c] + Plus(b, c, 1)
      BY <3>1, <3>a, Zenon
    <3>5. Listed(c)' = Listed(c) + Plus(b, c, 1)
      BY <1>3, <1>6, Zenon
    <3> QED BY <3>3, <3>4, <3>5, ZenonT(60)
  <2> HIDE DEF b
  <2>2. Effect(b, 1, 1, 1, 1)
    BY <1>1, <1>2, <2>1, FinishStep, ZenonT(60)
  <2> QED BY <1>1, <1>2, <2>2, Zenon DEF Deliveries
<1> QED BY <1>4, <1>5, <1>6, Zenon DEF RequeueFails

\* Ack, and an entry that stays although its batch was finished.
LEMMA AckEffect ==
    ASSUME TypeOK, StagesInv, HeldStaysListed, NEW w \in Writers,
           Ack(w) \/ AckFails(w) \/ (Kill(w) /\ pc[w] = "ack")
    PROVE  Deliveries
<1> DEFINE b == held[w]
<1>1. pc[w] = "ack" /\ b \in Batches /\ Occurs(processing, b) > 0
  BY Holding, Zenon DEF Ack, AckFails
<1>2. Listed(b) > 0
  BY <1>1, DeliveryNats
<1>3. /\ \A v \in Writers \ {w} : held'[v] = held[v] /\ pc'[v] = pc[v]
      /\ held'[w] \notin Batches
      /\ UNCHANGED <<todo, recent, backlog, processed, failed, dropped>>
  BY QueueAssumption, Zenon DEF Ack, AckFails, Kill, Goto, TypeOK, WritersOK
<1>4. CASE Ack(w)
  <2>1. ASSUME NEW c \in Batches
        PROVE  Listed(c)' = Listed(c) + Plus(b, c, -1) /\ unacked'[c] = unacked[c] + Plus(b, c, 0)
    <3>1. Occurs(processing, c)' = Occurs(processing, c) - Bit(b = c)
      BY <1>1, <1>4, OccursRemoved, SMTT(30) DEF Ack, TypeOK, ListsOK
    <3>2. /\ Listed(c)' = Occurs(recent, c) + Occurs(backlog, c) + Occurs(processing, c)'
          /\ unacked'[c] = unacked[c]
      BY <1>3, <1>4, Zenon DEF Listed, Ack
    <3> QED BY <3>1, <3>2, DeliveryNats, SMTT(30) DEF Bit, Plus
  <2> HIDE DEF b
  <2>2. Effect(b, -1, -1, 0, 0)
    BY <1>1, <1>3, <2>1, ReleaseStep, ZenonT(40) DEF b
  <2> QED BY <1>1, <1>2, <1>3, <2>2, ZenonT(40) DEF Deliveries
<1>5. CASE UNCHANGED processing /\ unacked' = Count(unacked, b)
  <2>1. ASSUME NEW c \in Batches
        PROVE  Listed(c)' = Listed(c) + Plus(b, c, 0) /\ unacked'[c] = unacked[c] + Plus(b, c, 1)
    <3>1. unacked'[c] = unacked[c] + Bit(b = c)
      <4>1. unacked \in [Batches -> Nat]
        BY Zenon DEF TypeOK, CountsOK
      <4> HIDE DEF b
      <4>2. unacked' = Count(unacked, b) /\ b \in Batches
        BY <1>1, <1>5, Zenon
      <4> QED BY <4>1, <4>2, CountType
    <3>2. Listed(c)' = Listed(c)
      BY <1>3, <1>5, Zenon DEF Listed
    <3> QED BY <3>1, <3>2, DeliveryNats DEF Bit, Plus
  <2> HIDE DEF b
  <2>2. Effect(b, 0, -1, 0, 1)
    BY <1>1, <1>3, <2>1, ReleaseStep, ZenonT(40) DEF b
  <2> QED BY <1>1, <1>2, <1>3, <2>2, ZenonT(40) DEF Deliveries
<1> QED BY <1>1, <1>4, <1>5, Zenon DEF AckFails, Kill

\* Every step has one of these effects.
LEMMA StepEffects ==
    ASSUME TypeOK, StagesInv, HeldStaysListed, [Next]_vars
    PROVE  Deliveries
<1>a. WritersOK
  BY Zenon DEF TypeOK
<1>1. ASSUME NEW b \in Batches, Publish(b) PROVE Deliveries
  BY <1>1, PublishEffect, Zenon
<1>2. ASSUME NEW w \in Writers, Reclaim(w) PROVE Deliveries
  BY <1>2, ReclaimEffect, Zenon
<1>3. ASSUME NEW w \in Writers, ClaimRecent(w) \/ ClaimBacklog(w) PROVE Deliveries
  BY <1>3, ClaimEffect, Zenon
<1>4. ASSUME NEW w \in Writers, Requeue(w) \/ RequeueFails(w) PROVE Deliveries
  BY <1>4, RequeueEffect, Zenon
<1>5. ASSUME NEW w \in Writers, Ack(w) \/ AckFails(w) \/ (Kill(w) /\ pc[w] = "ack") PROVE Deliveries
  BY <1>5, AckEffect, Zenon
<1>6. ASSUME NEW w \in Writers, Store(w) \/ Panic(w) PROVE Deliveries
  BY <1>6, HandleEffect DEF Store, Panic
<1>7. ASSUME NEW w \in Writers, Process(w) PROVE Deliveries
  <2>1. CASE Kind = "inline" /\ held[w] \in load.boring
    BY <1>7, <2>1, HandleEffect, Zenon DEF Process
  <2>2. CASE ~(Kind = "inline" /\ held[w] \in load.boring)
    <3>1. /\ \A v \in Writers \ {w} : held'[v] = held[v] /\ pc'[v] = pc[v]
          /\ pc[w] # "ack" /\ pc'[w] # "ack"
      BY <1>a, <1>7, <2>2, Zenon DEF Process, Goto, WritersOK
    <3> QED BY <1>7, <2>2, <3>1, MoveEffect, Zenon DEF Process
  <2> QED BY <2>1, <2>2, Zenon
<1>8. ASSUME NEW w \in Writers, GiveUp(w) PROVE Deliveries
  <2>1. CASE Kind = "logs" /\ pod[w] = "term"
    <3>1. /\ \A v \in Writers \ {w} : held'[v] = held[v] /\ pc'[v] = pc[v]
          /\ pc[w] # "ack" /\ pc'[w] # "ack"
      BY <1>a, <1>8, <2>1, Zenon DEF GiveUp, Goto, WritersOK
    <3> QED BY <1>8, <2>1, <3>1, MoveEffect DEF GiveUp
  <2>2. CASE ~(Kind = "logs" /\ pod[w] = "term")
    BY <1>8, <2>2, HandleEffect, Zenon DEF GiveUp
  <2> QED BY <2>1, <2>2, Zenon
<1>9. ASSUME NEW w \in Writers,
             Loop(w) \/ Return(w) \/ ReclaimEnds(w) \/ ClaimNothing(w) \/ ClaimFails(w) \/ Retry(w)
      PROVE  Deliveries
  <2>1. /\ \A v \in Writers \ {w} : held'[v] = held[v] /\ pc'[v] = pc[v]
        /\ pc[w] # "ack" /\ pc'[w] # "ack"
    BY <1>a, <1>9, Zenon
       DEF Loop, Return, ReclaimEnds, ClaimNothing, ClaimFails, Retry, Goto, ConsumeStart,
           AfterConsumeError, WritersOK
  <2> QED BY <1>9, <2>1, MoveEffect, Zenon DEF Loop, Return, ReclaimEnds, ClaimNothing, ClaimFails, Retry
<1>10. ASSUME NEW w \in Writers, StoreFails(w) \/ DiskFull(w) PROVE Deliveries
  <2>1. /\ \A v \in Writers \ {w} : held'[v] = held[v] /\ pc'[v] = pc[v]
        /\ pc[w] # "ack" /\ pc'[w] # "ack"
    BY <1>a, <1>10, Zenon DEF StoreFails, DiskFull, Goto, WritersOK
  <2> QED BY <1>10, <2>1, MoveEffect, Zenon DEF StoreFails, DiskFull
<1>11. ASSUME NEW w \in Writers, Start(w) \/ Exit(w) \/ (Kill(w) /\ pc[w] # "ack") PROVE Deliveries
  <2>1. /\ \A v \in Writers \ {w} : held'[v] = held[v] /\ pc'[v] = pc[v]
        /\ pc[w] # "ack" /\ pc'[w] # "ack"
    BY <1>a, <1>11 DEF Start, Exit, Kill, Goto, WritersOK, StagesInv
  <2> QED BY <1>11, <2>1, MoveEffect, ZenonT(60) DEF Start, Exit, Kill
<1>12. CASE UNCHANGED <<todo, recent, backlog, processing, held, pc, processed, failed, dropped, unacked>>
  <2>1. Effect(NoBatch, 0, 0, 0, 0)
    <3> SUFFICES ASSUME NEW c \in Batches
                 PROVE  /\ Listed(c)' = Listed(c) /\ Acking(c)' = Acking(c)
                        /\ Handled(c)' = Handled(c) /\ unacked'[c] = unacked[c]
      BY DeliveryNats DEF Effect, Plus
    <3> QED BY <1>12, Zenon DEF Listed, Acking, InStage, Holders, Handled
  <2> QED BY <1>12, <2>1, Zenon DEF Deliveries
<1> QED
  BY <1>1, <1>2, <1>3, <1>4, <1>5, <1>6, <1>7, <1>8, <1>9, <1>10, <1>11, <1>12, ZenonT(60)
     DEF Next, Work, Terminate, DelayPasses, vars

-----------------------------------------------------------------------------
(* Once per delivery, and at least once. *)

\* The copies and the handled count change with the effect.
LEMMA EffectOnCopies ==
    ASSUME TypeOK, HeldStaysListed, NEW b, NEW dl \in Int, NEW da \in Int, NEW dh \in Int, NEW du \in Int,
           Effect(b, dl, da, dh, du), NEW c \in Batches
    PROVE  /\ Copies(c)' = Copies(c) + Plus(b, c, dl - da)
           /\ Handled(c)' = Handled(c) + Plus(b, c, dh)
           /\ unacked'[c] = unacked[c] + Plus(b, c, du)
           /\ Listed(c)' = Listed(c) + Plus(b, c, dl)
<1>1. Copies(c)' = Listed(c)' - Acking(c)'
  BY Zenon DEF Copies, Acking
<1> QED BY <1>1, DeliveryNats DEF Effect, Plus

\* An unpublished batch has no copies, and a published one has been handled or
\* has some.
LEMMA DeliveryFacts ==
    ASSUME TypeOK, HeldStaysListed, DeliveriesInv, NEW b \in Batches
    PROVE  /\ Listed(b) \in Nat /\ Copies(b) \in Nat /\ Handled(b) \in Nat /\ unacked[b] \in Nat
           /\ b \in todo => Listed(b) = 0 /\ Copies(b) = 0 /\ Handled(b) = 0 /\ unacked[b] = 0
           /\ b \notin todo => Copies(b) + Handled(b) = 1 + unacked[b]
<1>1. /\ Listed(b) \in Nat /\ Acking(b) \in Nat /\ Copies(b) \in Nat /\ Copies(b) = Listed(b) - Acking(b)
      /\ Handled(b) \in Nat /\ unacked[b] \in Nat
  BY DeliveryNats, Zenon
<1> QED BY <1>1 DEF DeliveriesInv

\* No step gains or loses a delivery.
LEMMA DeliveriesKept ==
    ASSUME TypeOK, StagesInv, HeldStaysListed, DeliveriesInv, [Next]_vars
    PROVE  DeliveriesInv'
<1> DEFINE Good(c) == IF c \in todo' THEN Listed(c)' = 0 /\ Handled(c)' = 0 /\ unacked'[c] = 0
                                     ELSE Copies(c)' + Handled(c)' = 1 + unacked'[c]
<1> SUFFICES ASSUME NEW c \in Batches PROVE Good(c)
  BY Zenon DEF DeliveriesInv
<1>1. /\ Listed(c) \in Nat /\ Copies(c) \in Nat /\ Handled(c) \in Nat /\ unacked[c] \in Nat
      /\ c \in todo => Listed(c) = 0 /\ Copies(c) = 0 /\ Handled(c) = 0 /\ unacked[c] = 0
      /\ c \notin todo => Copies(c) + Handled(c) = 1 + unacked[c]
  BY DeliveryFacts, Zenon
<1>2. ASSUME NEW b \in todo, todo' = todo \ {b}, Effect(b, 1, 0, 0, 0) PROVE Good(c)
  <2>1. /\ Copies(c)' = Copies(c) + Plus(b, c, 1 - 0) /\ Handled(c)' = Handled(c) + Plus(b, c, 0)
        /\ unacked'[c] = unacked[c] + Plus(b, c, 0) /\ Listed(c)' = Listed(c) + Plus(b, c, 1)
    BY <1>2, EffectOnCopies
  <2> QED BY <1>1, <1>2, <2>1, SMTT(30) DEF Plus
<1>3. ASSUME todo' = todo, NEW b, b \in Batches => Listed(b) > 0,
             NEW dl \in Int, NEW da \in Int, NEW dh \in Int, NEW du \in Int,
             dl - da + dh = du, Effect(b, dl, da, dh, du)
      PROVE  Good(c)
  <2>1. /\ Copies(c)' = Copies(c) + Plus(b, c, dl - da) /\ Handled(c)' = Handled(c) + Plus(b, c, dh)
        /\ unacked'[c] = unacked[c] + Plus(b, c, du) /\ Listed(c)' = Listed(c) + Plus(b, c, dl)
    <3>1. dl \in Int /\ da \in Int /\ dh \in Int /\ du \in Int /\ Effect(b, dl, da, dh, du)
      BY <1>3, Zenon
    <3> HIDE DEF Good
    <3> QED BY ONLY TypeOK, HeldStaysListed, c \in Batches, <3>1, EffectOnCopies, SMTT(30)
  <2>2. CASE b = c
    <3>1. c \notin todo /\ c \notin todo'
      BY <1>1, <1>3, <2>2
    <3>2. /\ Copies(c)' = Copies(c) + (dl - da) /\ Handled(c)' = Handled(c) + dh /\ unacked'[c] = unacked[c] + du
      BY <2>1, <2>2, Zenon DEF Plus
    <3> QED BY <1>1, <1>3, <3>1, <3>2, SMTT(30)
  <2>3. CASE b # c
    <3>1. /\ Copies(c)' = Copies(c) + 0 /\ Handled(c)' = Handled(c) + 0
          /\ unacked'[c] = unacked[c] + 0 /\ Listed(c)' = Listed(c) + 0
      BY <2>1, <2>3, Zenon DEF Plus
    <3> QED BY <1>1, <1>3, <3>1
  <2> QED BY <2>2, <2>3, Zenon
<1>4. ASSUME todo' = todo, Effect(NoBatch, 0, 0, 0, 0) PROVE Good(c)
  <2>1. NoBatch \notin Batches
    BY QueueAssumption, Zenon
  <2> QED BY <1>3, <1>4, <2>1
<1>5. ASSUME todo' = todo, NEW b \in Batches, Listed(b) > 0,
             \/ Effect(b, 0, 1, 1, 0) \/ Effect(b, 1, 1, 1, 1) \/ Effect(b, 0, -1, 0, 1)
             \/ Effect(b, 1, 1, 0, 0) \/ Effect(b, -1, -1, 0, 0)
      PROVE  Good(c)
  <2>1. CASE Effect(b, 0, 1, 1, 0)
    BY <1>3, <1>5, <2>1, SMTT(30)
  <2>2. CASE Effect(b, 1, 1, 1, 1)
    BY <1>3, <1>5, <2>2, SMTT(30)
  <2>3. CASE Effect(b, 0, -1, 0, 1)
    BY <1>3, <1>5, <2>3, SMTT(30)
  <2>4. CASE Effect(b, 1, 1, 0, 0)
    BY <1>3, <1>5, <2>4, SMTT(30)
  <2>5. CASE Effect(b, -1, -1, 0, 0)
    BY <1>3, <1>5, <2>5
  <2> QED BY <1>5, <2>1, <2>2, <2>3, <2>4, <2>5, ZenonT(60)
<1> HIDE DEF Good
<1> QED BY <1>2, <1>4, <1>5, StepEffects, Zenon DEF Deliveries

\* What a step of the queue is to its producers.
LEMMA QueueStep ==
    ASSUME TypeOK, StagesInv, HeldStaysListed, DeliveriesInv, [Next]_vars
    PROVE  [Queue!Next]_(Queue!vars)
<1> DEFINE copies == [b \in Batches |-> Copies(b)]
           handled == [b \in Batches |-> Handled(b)]
<1>a. todo \subseteq Batches
  BY Zenon DEF TypeOK, ListsOK
<1>b. unacked \in [Batches -> Nat] /\ unacked' \in [Batches -> Nat]
  BY CountsKept, Zenon DEF TypeOK, CountsOK
<1>1. ASSUME NEW b \in todo, todo' = todo \ {b}, Effect(b, 1, 0, 0, 0) PROVE Queue!Accept(b)
  <2>1. b \in Batches /\ Copies(b) = 0
    BY <1>a, <1>1, DeliveryFacts, ZenonT(60)
  <2>2. \A c \in Batches : /\ Copies(c)' = Copies(c) + Plus(b, c, 1 - 0) /\ Handled(c)' = Handled(c) + Plus(b, c, 0)
                           /\ unacked'[c] = unacked[c] + Plus(b, c, 0)
    BY <1>1, EffectOnCopies
  <2>3. \A c \in Batches : /\ Copies(c)' = (IF c = b THEN 1 ELSE Copies(c))
                           /\ Handled(c)' = Handled(c) /\ unacked'[c] = unacked[c]
    BY <2>1, <2>2, DeliveryFacts DEF Plus
  <2>4. copies' = [copies EXCEPT ![b] = 1] /\ handled' = handled /\ unacked' = unacked
    <3>1. copies' = [copies EXCEPT ![b] = 1]
      BY <2>1, <2>3
    <3>2. handled' = handled
      BY <2>3, Zenon
    <3>3. unacked' = unacked
      BY <1>b, <2>3
    <3> QED BY <3>1, <3>2, <3>3, Zenon
  <2>5. b \in Batches \ (Batches \ todo) /\ Batches \ todo' = (Batches \ todo) \cup {b}
    BY <1>1, <2>1, Zenon
  <2> QED BY <2>4, <2>5, Zenon DEF Queue!Accept
<1>2. ASSUME todo' = todo, NEW b \in Batches, Copies(b) > 0, Effect(b, 0, 1, 1, 0) PROVE Queue!Handle(b)
  <2>2. \A c \in Batches : /\ Copies(c)' = Copies(c) + Plus(b, c, 0 - 1) /\ Handled(c)' = Handled(c) + Plus(b, c, 1)
                           /\ unacked'[c] = unacked[c] + Plus(b, c, 0)
    BY <1>2, EffectOnCopies
  <2>3. \A c \in Batches : /\ Copies(c)' = (IF c = b THEN Copies(c) - 1 ELSE Copies(c))
                           /\ Handled(c)' = (IF c = b THEN Handled(c) + 1 ELSE Handled(c))
                           /\ unacked'[c] = unacked[c]
    BY <2>2, DeliveryFacts DEF Plus
  <2>4. /\ copies' = [copies EXCEPT ![b] = @ - 1] /\ handled' = [handled EXCEPT ![b] = @ + 1]
        /\ unacked' = unacked /\ copies[b] > 0
    <3>1. copies' = [copies EXCEPT ![b] = @ - 1] /\ copies[b] > 0
      BY <1>2, <2>3
    <3>2. handled' = [handled EXCEPT ![b] = @ + 1]
      BY <1>2, <2>3
    <3>3. unacked' = unacked
      BY <1>b, <2>3
    <3> QED BY <3>1, <3>2, <3>3, Zenon
  <2> QED BY <1>2, <2>4, Zenon DEF Queue!Handle
<1>3. ASSUME todo' = todo, NEW b \in Batches, Copies(b) > 0, Effect(b, 1, 1, 1, 1) PROVE Queue!HandleUnacked(b)
  <2>2. \A c \in Batches : /\ Copies(c)' = Copies(c) + Plus(b, c, 1 - 1) /\ Handled(c)' = Handled(c) + Plus(b, c, 1)
                           /\ unacked'[c] = unacked[c] + Plus(b, c, 1)
    BY <1>3, EffectOnCopies
  <2>3. \A c \in Batches : /\ Copies(c)' = Copies(c)
                           /\ Handled(c)' = (IF c = b THEN Handled(c) + 1 ELSE Handled(c))
                           /\ unacked'[c] = (IF c = b THEN unacked[c] + 1 ELSE unacked[c])
    BY <2>2, DeliveryFacts DEF Plus
  <2>4. /\ copies' = copies /\ handled' = [handled EXCEPT ![b] = @ + 1]
        /\ unacked' = [unacked EXCEPT ![b] = @ + 1] /\ copies[b] > 0
    <3>1. copies' = copies
      BY <2>3, Zenon
    <3>2. handled' = [handled EXCEPT ![b] = @ + 1] /\ copies[b] > 0
      BY <1>3, <2>3, Zenon
    <3>3. unacked' = [unacked EXCEPT ![b] = @ + 1]
      BY <1>b, <2>3, Zenon
    <3> QED BY <3>1, <3>2, <3>3, Zenon
  <2> QED BY <1>3, <2>4, Zenon DEF Queue!HandleUnacked
<1>4. ASSUME todo' = todo, NEW b \in Batches, Listed(b) > 0, Effect(b, 0, -1, 0, 1) PROVE Queue!Redeliver(b)
  <2>1. Handled(b) > 0 \/ Copies(b) > 0
    BY <1>4, DeliveryFacts
  <2>2. \A c \in Batches : /\ Copies(c)' = Copies(c) + Plus(b, c, 0 - (-1)) /\ Handled(c)' = Handled(c) + Plus(b, c, 0)
                           /\ unacked'[c] = unacked[c] + Plus(b, c, 1)
    BY <1>4, EffectOnCopies
  <2>3. \A c \in Batches : /\ Copies(c)' = (IF c = b THEN Copies(c) + 1 ELSE Copies(c))
                           /\ Handled(c)' = Handled(c)
                           /\ unacked'[c] = (IF c = b THEN unacked[c] + 1 ELSE unacked[c])
    BY <2>2, DeliveryFacts DEF Plus
  <2>4. /\ copies' = [copies EXCEPT ![b] = @ + 1] /\ handled' = handled
        /\ unacked' = [unacked EXCEPT ![b] = @ + 1] /\ (handled[b] > 0 \/ copies[b] > 0)
    <3>1. copies' = [copies EXCEPT ![b] = @ + 1]
      BY <2>3
    <3>2. handled' = handled
      BY <2>3, Zenon
    <3>3. unacked' = [unacked EXCEPT ![b] = @ + 1]
      BY <1>b, <2>3, Zenon
    <3> QED BY <2>1, <3>1, <3>2, <3>3, ZenonT(60)
  <2> QED BY <1>4, <2>4, Zenon DEF Queue!Redeliver
<1>5. ASSUME todo' = todo, NEW b,
             Effect(b, 0, 0, 0, 0) \/ Effect(b, 1, 1, 0, 0) \/ Effect(b, -1, -1, 0, 0)
      PROVE  UNCHANGED Queue!vars
  <2>2. \A c \in Batches : /\ Copies(c)' = Copies(c) + Plus(b, c, 0) /\ Handled(c)' = Handled(c) + Plus(b, c, 0)
                           /\ unacked'[c] = unacked[c] + Plus(b, c, 0)
    <3>1. 0 - 0 = 0 /\ 1 - 1 = 0 /\ (-1) - (-1) = 0
      OBVIOUS
    <3>2. CASE Effect(b, 0, 0, 0, 0)
      BY <3>1, <3>2, EffectOnCopies, SMTT(30)
    <3>3. CASE Effect(b, 1, 1, 0, 0)
      BY <3>1, <3>3, EffectOnCopies, SMTT(30)
    <3>4. CASE Effect(b, -1, -1, 0, 0)
      BY <3>1, <3>4, EffectOnCopies, SMTT(30)
    <3> QED BY <1>5, <3>2, <3>3, <3>4, Zenon
  <2>3. \A c \in Batches : Copies(c)' = Copies(c) /\ Handled(c)' = Handled(c) /\ unacked'[c] = unacked[c]
    BY <2>2, DeliveryFacts DEF Plus
  <2>4. copies' = copies /\ handled' = handled /\ unacked' = unacked
    <3>1. copies' = copies /\ handled' = handled
      BY <2>3, Zenon
    <3>2. unacked' = unacked
      BY <1>b, <2>3
    <3> QED BY <3>1, <3>2, Zenon
  <2> QED BY <1>5, <2>4, Zenon DEF Queue!vars
<1> QED BY <1>a, <1>1, <1>2, <1>3, <1>4, <1>5, StepEffects, ZenonT(60) DEF Deliveries, Queue!Next
=============================================================================
