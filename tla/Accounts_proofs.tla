--------------------------- MODULE Accounts_proofs ---------------------------
(* Proofs about the two accounts kept of telemetry on its way: the promise   *)
(* of delivery that WriteQueue implements, and the accumulators, for any     *)
(* items, caps, chunk size and number of faults: what each kind of step does *)
(* to the counts, the caps, the rows of a flush, and all of it together.     *)
EXTENDS Delivery, Accumulators, FiniteSetTheorems, TLAPS

------------------------------------------------------------------------------
\* Delivery

Inv == TypeOK /\ NeverLost

\* The invariant holds before any batch is published.
LEMMA InitInv == Init => Inv
  BY DEF Init, Inv, TypeOK, NeverLost

\* Publishing, handling, handling without an acknowledgement and redelivery
\* keep it.
LEMMA NextInv == Inv /\ [Next]_vars => Inv'
<1> SUFFICES ASSUME Inv, [Next]_vars PROVE Inv'
  BY Zenon
<1> USE DEF Inv, TypeOK, NeverLost
<1>1. ASSUME NEW b \in Batches, Accept(b) PROVE Inv'
  BY <1>1, Zenon DEF Accept
<1>2. ASSUME NEW b \in Batches, Handle(b) PROVE Inv'
  <2>1. /\ copies[b] - 1 \in Nat
        /\ copies'[b] + handled'[b] = copies[b] + handled[b]
    BY <1>2 DEF Handle
  <2>2. TypeOK'
    BY <1>2, <2>1 DEF Handle
  <2>3. \A c \in Batches \ {b} : copies'[c] = copies[c] /\ handled'[c] = handled[c]
    BY <1>2, Zenon DEF Handle
  <2> QED BY <1>2, <2>1, <2>2, <2>3 DEF Handle
<1>3. ASSUME NEW b \in Batches, HandleUnacked(b) PROVE Inv'
  BY <1>3 DEF HandleUnacked
<1>4. ASSUME NEW b \in Batches, Redeliver(b) PROVE Inv'
  BY <1>4 DEF Redeliver
<1>5. CASE UNCHANGED vars
  BY <1>5, Zenon DEF vars
<1> QED
  BY <1>1, <1>2, <1>3, <1>4, <1>5, Zenon DEF Next

\* No batch a producer handed over is ever lost, however often it is
\* delivered again: at any time it is handled or a copy of it waits.
THEOREM AcceptedIsNeverLost == Spec => []NeverLost
<1>1. Inv => NeverLost
  BY Zenon DEF Inv
<1> QED
  BY InitInv, NextInv, <1>1, PTL DEF Spec

------------------------------------------------------------------------------
\* Accumulators

\* The sum of two counts, item by item.
LEMMA PlusOf ==
    ASSUME NEW f \in [Items -> Int], NEW g \in [Items -> Int]
    PROVE  /\ Plus(f, g) \in [Items -> Int]
           /\ \A i \in Items : Plus(f, g)[i] = f[i] + g[i]
  BY DEF Plus

\* The difference of two counts.
LEMMA MinusOf ==
    ASSUME NEW f \in [Items -> Int], NEW g \in [Items -> Int]
    PROVE  /\ Minus(f, g) \in [Items -> Int]
           /\ \A i \in Items : Minus(f, g)[i] = f[i] - g[i]
  BY DEF Minus

\* The counts of some of the items.
LEMMA OnlyOf ==
    ASSUME NEW f \in [Items -> Int], NEW S
    PROVE  /\ Only(f, S) \in [Items -> Int]
           /\ \A i \in Items : Only(f, S)[i] = IF i \in S THEN f[i] ELSE 0
  BY DEF Only

\* What the caps are made of; with CapsInv, what a step has to keep of them.
CapTypes ==
    /\ capServices \subseteq BucketHours \X Named /\ IsFiniteSet(capServices)
    /\ capNames \subseteq (BucketHours \X Named) \X Named /\ IsFiniteSet(capNames)
    /\ forgot \subseteq BucketHours

\* The caps and rows are those of before.
LEMMA CapsUntouched ==
    ASSUME CapTypes, CapsInv, UNCHANGED <<accKind, capVars, row>>
    PROVE  CapTypes' /\ CapsInv'
  BY Zenon DEF CapTypes, CapsInv, capVars

\* The inductive invariant: all of AccountsBalance but what follows from the rest.
Books ==
    /\ AccTypeOK /\ EachCountOnce /\ OnlyRedisTears /\ NothingForgottenAtExit
    /\ FlightInv /\ LastFlushInv /\ MarksInv /\ CapsInv

\* The parts of AccTypeOK a step of each kind leaves alone.
MemTypes ==
    /\ slots \in [Items -> Int] /\ pending \in [Items -> Int] /\ marks \subseteq Buckets
FlightTypes ==
    /\ batch \in [Items -> Int] /\ flight \in [Items -> Int] /\ retried \subseteq Items
    /\ rows \subseteq Nat \X Nat \X Nat \X Nat /\ IsFiniteSet(rows)
SinkTypes == stored \in [Items -> Int] /\ storedMarks \subseteq Buckets
ProcTypes ==
    /\ accPhase \in {"run", "stop", "last", "exit"}
    /\ running \in {"wait", "flush", "last", "ended"}
    /\ producing \in BOOLEAN /\ lastFailed \in BOOLEAN
RestTypes ==
    /\ accKind \in AllKinds
    /\ owed \in [Items -> Int] /\ lost \in [Items -> Int] /\ late \subseteq Items
    /\ row \in [Items -> Nat \X Nat]
    /\ age \in [Buckets -> {"open", "closed", "old"}]
    /\ torn \in BOOLEAN /\ accFaults \in Nat

\* Together with the caps they are AccTypeOK.
LEMMA TypeParts ==
    AccTypeOK <=>
        MemTypes /\ FlightTypes /\ SinkTypes /\ ProcTypes /\ RestTypes /\ CapTypes
  BY Zenon DEF AccTypeOK, MemTypes, FlightTypes, SinkTypes, ProcTypes, RestTypes, CapTypes

\* The same after a step.
LEMMA TypePartsNext ==
    AccTypeOK' <=>
        MemTypes' /\ FlightTypes' /\ SinkTypes' /\ ProcTypes' /\ RestTypes' /\ CapTypes'
  BY Zenon DEF AccTypeOK, MemTypes, FlightTypes, SinkTypes, ProcTypes, RestTypes, CapTypes

\* A producer counts an item: it gets a row, and counts once in memory.
LEMMA AddStep ==
    ASSUME Books, NEW i \in Items, Count(i),
           row' \in [Items -> Nat \X Nat], row'[i] # <<0, 0>>,
           \A j \in Items \ {i} : row'[j] = row[j],
           marks' \subseteq Buckets, marks \subseteq marks',
           accKind = "edges" => ItemBucket[i] \in marks',
           CapTypes', CapsInv'
    PROVE  Books'
<1>1. AccTypeOK /\ producing /\ row[i] = <<0, 0>>
  BY Zenon DEF Books, Count
<1>2. /\ MemTypes /\ FlightTypes /\ SinkTypes /\ ProcTypes /\ RestTypes
  BY <1>1, TypeParts, Zenon
<1>3. /\ slots' = [slots EXCEPT ![i] = @ + 1]
      /\ owed' = [owed EXCEPT ![i] = @ + 1]
      /\ accKind' = accKind /\ pending' = pending
      /\ batch' = batch /\ flight' = flight /\ rows' = rows /\ retried' = retried
      /\ stored' = stored /\ storedMarks' = storedMarks
      /\ accPhase' = accPhase /\ running' = running /\ producing' = producing
      /\ lastFailed' = lastFailed /\ age' = age /\ accFaults' = accFaults
      /\ lost' = lost /\ torn' = torn
  BY Zenon DEF Count, flightVars, sinkVars, procVars
<1>4. /\ late' \subseteq Items /\ late \subseteq late'
      /\ running \in {"last", "ended"} => i \in late'
  BY <1>2, Zenon DEF Count, RestTypes
<1>5. /\ slots' \in [Items -> Int] /\ owed' \in [Items -> Int]
      /\ slots'[i] = slots[i] + 1 /\ owed'[i] = owed[i] + 1
      /\ \A j \in Items \ {i} : slots'[j] = slots[j] /\ owed'[j] = owed[j]
  BY <1>2, <1>3 DEF MemTypes, RestTypes
<1>6. AccTypeOK'
  <2>1. MemTypes'
    BY <1>2, <1>3, <1>5, Zenon DEF MemTypes
  <2>2. FlightTypes' /\ SinkTypes' /\ ProcTypes'
    BY <1>2, <1>3, Zenon DEF FlightTypes, SinkTypes, ProcTypes
  <2>3. RestTypes'
    BY <1>2, <1>3, <1>4, <1>5, Zenon DEF RestTypes
  <2> QED BY <2>1, <2>2, <2>3, TypePartsNext, Zenon
<1>7. EachCountOnce'
  <2> SUFFICES ASSUME ~torn, NEW j \in Items
               PROVE  slots'[j] + pending[j] + flight[j] + stored[j] + lost[j] = owed'[j]
    BY <1>3, Zenon DEF EachCountOnce
  <2>1. slots[j] + pending[j] + flight[j] + stored[j] + lost[j] = owed[j]
    BY Zenon DEF Books, EachCountOnce
  <2>2. /\ slots[j] \in Int /\ pending[j] \in Int /\ flight[j] \in Int
        /\ stored[j] \in Int /\ lost[j] \in Int /\ owed[j] \in Int
    BY <1>2, Zenon DEF MemTypes, FlightTypes, SinkTypes, RestTypes
  <2>3. \/ slots'[j] = slots[j] + 1 /\ owed'[j] = owed[j] + 1
        \/ slots'[j] = slots[j] /\ owed'[j] = owed[j]
    BY <1>5, Zenon
  <2> QED BY ONLY <2>1, <2>2, <2>3
<1>8. accPhase \notin {"last", "exit"}
  BY <1>1, Zenon DEF Books, LastFlushInv
<1>9. OnlyRedisTears' /\ NothingForgottenAtExit'
  BY <1>3, <1>8, Zenon DEF Books, OnlyRedisTears, NothingForgottenAtExit
<1>10. FlightInv'
  <2>1. flight[i] = 0
    BY <1>1, Zenon DEF Books, FlightInv
  <2>2. ASSUME NEW j \in Items, flight[j] # 0 PROVE RowKey(j)' \in rows /\ batch[j] # 0
    <3>1. j # i /\ row'[j] = row[j]
      BY <2>1, <2>2, Zenon
    <3>2. RowKey(j) \in rows /\ batch[j] # 0
      BY <2>2, Zenon DEF Books, FlightInv
    <3> QED BY <3>1, <3>2, <1>3, Zenon DEF RowKey
  <2>3. ASSUME NEW j \in Items, row'[j] = <<0, 0>>
        PROVE  slots'[j] = 0 /\ pending[j] = 0 /\ flight[j] = 0 /\ batch[j] = 0 /\ owed'[j] = 0
    BY <2>3, <1>5, Zenon DEF Books, FlightInv
  <2>4. /\ rows # {} => running \in {"flush", "last"} \/ accPhase = "last"
        /\ accKind = "writer" /\ rows # {} => batch = flight
    BY Zenon DEF Books, FlightInv
  <2> QED BY <1>3, <2>2, <2>3, <2>4, Zenon DEF FlightInv
<1>11. LastFlushInv'
  <2>1. LastFlushInv
    BY Zenon DEF Books
  <2>2. ASSUME accKind = "metrics", running \in {"last", "ended"}, NEW j \in Items
        PROVE  pending[j] = 0 /\ (slots'[j] # 0 => j \in late')
    BY <2>1, <2>2, <1>4, <1>5, Zenon DEF LastFlushInv
  <2> QED BY <2>1, <2>2, <1>3, <1>8, Zenon DEF LastFlushInv
<1>12. MarksInv'
  <2> SUFFICES ASSUME accKind = "edges", NEW j \in Items
               PROVE  /\ slots'[j] # 0 => ItemBucket[j] \in marks' \cup storedMarks
                      /\ flight[j] # 0 => Marker(ItemBucket[j]) \in rows
                                          \/ ItemBucket[j] \in storedMarks
                      /\ stored[j] # 0 => ItemBucket[j] \in storedMarks
    BY <1>3, Zenon DEF MarksInv
  <2> QED BY <1>5, Zenon DEF Books, MarksInv
<1> QED BY <1>6, <1>7, <1>9, <1>10, <1>11, <1>12, Zenon DEF Books

\* Tally.AddSpans with sign -1.
LEMMA TakeBackStep ==
    ASSUME Books, NEW i \in Items, TallyTakeBack(i)
    PROVE  Books'
<1>1. AccTypeOK /\ producing /\ owed[i] = 1 /\ accKind \in Tallies
  BY Zenon DEF Books, TallyTakeBack
<1>2. /\ MemTypes /\ FlightTypes /\ SinkTypes /\ ProcTypes /\ RestTypes /\ CapTypes
  BY <1>1, TypeParts, Zenon
<1>3. /\ slots' = [slots EXCEPT ![i] = @ - 1]
      /\ owed' = [owed EXCEPT ![i] = @ - 1]
      /\ accKind' = accKind /\ pending' = pending /\ marks' = marks
      /\ batch' = batch /\ flight' = flight /\ rows' = rows /\ retried' = retried
      /\ stored' = stored /\ storedMarks' = storedMarks
      /\ accPhase' = accPhase /\ running' = running /\ producing' = producing
      /\ lastFailed' = lastFailed /\ age' = age /\ accFaults' = accFaults
      /\ lost' = lost /\ torn' = torn /\ late' = late /\ row' = row
      /\ UNCHANGED capVars
  BY Zenon DEF TallyTakeBack, flightVars, sinkVars, procVars
<1>4. /\ slots' \in [Items -> Int] /\ owed' \in [Items -> Int]
      /\ slots'[i] = slots[i] - 1 /\ owed'[i] = owed[i] - 1
      /\ \A j \in Items \ {i} : slots'[j] = slots[j] /\ owed'[j] = owed[j]
  BY <1>2, <1>3 DEF MemTypes, RestTypes
<1>5. CapTypes' /\ CapsInv'
  BY <1>2, <1>3, CapsUntouched, Zenon DEF Books
<1>6. AccTypeOK'
  <2>1. MemTypes'
    BY <1>2, <1>3, <1>4, Zenon DEF MemTypes
  <2>2. FlightTypes' /\ SinkTypes' /\ ProcTypes'
    BY <1>2, <1>3, Zenon DEF FlightTypes, SinkTypes, ProcTypes
  <2>3. RestTypes'
    BY <1>2, <1>3, <1>4, Zenon DEF RestTypes
  <2> QED BY <2>1, <2>2, <2>3, <1>5, TypePartsNext, Zenon
<1>7. EachCountOnce'
  <2> SUFFICES ASSUME ~torn, NEW j \in Items
               PROVE  slots'[j] + pending[j] + flight[j] + stored[j] + lost[j] = owed'[j]
    BY <1>3, Zenon DEF EachCountOnce
  <2>1. slots[j] + pending[j] + flight[j] + stored[j] + lost[j] = owed[j]
    BY Zenon DEF Books, EachCountOnce
  <2>2. /\ slots[j] \in Int /\ pending[j] \in Int /\ flight[j] \in Int
        /\ stored[j] \in Int /\ lost[j] \in Int /\ owed[j] \in Int
    BY <1>2, Zenon DEF MemTypes, FlightTypes, SinkTypes, RestTypes
  <2>3. \/ slots'[j] = slots[j] - 1 /\ owed'[j] = owed[j] - 1
        \/ slots'[j] = slots[j] /\ owed'[j] = owed[j]
    BY <1>4, Zenon
  <2> QED BY ONLY <2>1, <2>2, <2>3
<1>8. accPhase \notin {"last", "exit"} /\ row[i] # <<0, 0>> /\ accKind \notin {"metrics", "edges"}
  BY <1>1, SMTT(30) DEF Books, LastFlushInv, FlightInv, Tallies
<1>9. OnlyRedisTears' /\ NothingForgottenAtExit'
  BY <1>3, <1>8, Zenon DEF Books, OnlyRedisTears, NothingForgottenAtExit
<1>10. FlightInv'
  <2>1. \A j \in Items : RowKey(j)' = RowKey(j)
    BY <1>3, Zenon DEF RowKey
  <2>2. ASSUME NEW j \in Items, row[j] = <<0, 0>> PROVE slots'[j] = slots[j] /\ owed'[j] = owed[j]
    BY <2>2, <1>4, <1>8, Zenon
  <2> QED BY <1>3, <2>1, <2>2, Zenon DEF Books, FlightInv
<1>11. LastFlushInv' /\ MarksInv'
  BY <1>3, <1>8, Zenon DEF Books, LastFlushInv, MarksInv
<1> QED BY <1>5, <1>6, <1>7, <1>9, <1>10, <1>11, Zenon DEF Books

\* How a flush starts: on the ticker, as the last one of the metrics loop, or as
\* the last one of the process, when nobody adds any more.
FlushStarts(S) ==
    \/ /\ running = "wait" /\ accPhase \in {"run", "stop"}
       /\ running' = "flush" /\ accPhase' = accPhase
    \/ /\ running = "wait" /\ accPhase = "stop" /\ accKind = "metrics" /\ S = Items
       /\ running' = "last" /\ accPhase' = accPhase
    \/ /\ running = "ended" /\ accPhase = "stop" /\ ~producing /\ S = Items
       /\ accKind \notin {"metrics", "standalone"}
       /\ running' = running /\ accPhase' = "last"

\* A flush moves the counts from memory to its way, with a row for each.
LEMMA TakeEffect ==
    ASSUME AccTypeOK, NEW S \in SUBSET Items, TakeSlots(S), row' = row,
           IsFiniteSet(rows')
    PROVE  /\ MemTypes' /\ FlightTypes'
           /\ \A i \in Items :
                 /\ slots'[i] = IF i \in S THEN 0 ELSE slots[i]
                 /\ pending'[i] = 0
                 /\ flight'[i] = (IF i \in S THEN slots[i] ELSE 0) + pending[i]
                 /\ flight'[i] # 0 => RowKey(i)' \in rows'
           /\ batch' = flight'
           /\ \A b \in marks : Marker(b) \in rows'
<1> DEFINE taken == Plus(Only(slots, S), pending)
           J == {j \in Items : taken[j] # 0}
           Key(i) == <<ItemBucket[i], row[i][1], row[i][2], IF pending[i] # 0 THEN 1 ELSE 0>>
           A == {Key(i) : i \in J}
           B == {Marker(b) : b \in marks}
<1>1. /\ slots' = Minus(slots, Only(slots, S)) /\ pending' = None
      /\ batch' = taken /\ flight' = taken
      /\ retried' = {i \in Items : pending[i] # 0}
      /\ rows' = A \cup B /\ marks' = {}
  BY Zenon DEF TakeSlots
<1>2. MemTypes /\ FlightTypes /\ RestTypes
  BY TypeParts, Zenon
<1>3. /\ Only(slots, S) \in [Items -> Int]
      /\ \A i \in Items : Only(slots, S)[i] = IF i \in S THEN slots[i] ELSE 0
  BY <1>2, OnlyOf DEF MemTypes
<1>4. /\ taken \in [Items -> Int]
      /\ \A i \in Items : taken[i] = (IF i \in S THEN slots[i] ELSE 0) + pending[i]
  BY <1>2, <1>3, PlusOf DEF MemTypes
<1>5. /\ slots' \in [Items -> Int]
      /\ \A i \in Items : slots'[i] = IF i \in S THEN 0 ELSE slots[i]
  <2>1. /\ slots' \in [Items -> Int]
        /\ \A i \in Items : slots'[i] = slots[i] - Only(slots, S)[i]
    BY <1>1, <1>2, <1>3, MinusOf, Zenon DEF MemTypes
  <2>2. \A i \in Items : slots[i] \in Int
    BY <1>2, Zenon DEF MemTypes
  <2> QED BY <2>1, <2>2, <1>3, SMTT(30)
<1>6. pending' \in [Items -> Int] /\ \A i \in Items : pending'[i] = 0
  <2>1. pending' = None
    BY <1>1, ZenonT(60)
  <2> QED BY ONLY <2>1, SMTT(30) DEF None
<1>7. \A i \in J : Key(i) \in Nat \X Nat \X Nat \X Nat
  <2>1. ItemBucket \in [Items -> Nat] /\ row \in [Items -> Nat \X Nat]
    BY AccAssumption, <1>2, Zenon DEF AccAssumption, RestTypes
  <2> QED BY <2>1, Zenon
<1>8. \A b \in marks : Marker(b) \in Nat \X Nat \X Nat \X Nat
  BY <1>2, AccAssumption, Zenon DEF AccAssumption, Buckets, Marker, MemTypes
<1> HIDE DEF taken, Key
<1>11. rows' \subseteq Nat \X Nat \X Nat \X Nat
  BY <1>1, <1>7, <1>8, Zenon
<1>12. MemTypes' /\ FlightTypes'
  BY <1>1, <1>4, <1>5, <1>6, <1>11, Zenon DEF MemTypes, FlightTypes
<1>13. ASSUME NEW i \in Items, flight'[i] # 0 PROVE RowKey(i)' \in rows'
  <2>1. i \in J
    BY <1>13, <1>1, ZenonT(60)
  <2>2. RowKey(i)' = Key(i)
    BY <1>1, Zenon DEF RowKey, Key
  <2> QED BY <2>1, <2>2, <1>1, Zenon
<1> QED BY <1>1, <1>4, <1>5, <1>6, <1>12, <1>13, Zenon

\* The books after a flush took the counts.
LEMMA TakeStep ==
    ASSUME Books, NEW S \in SUBSET Items, TakeSlots(S), FlushStarts(S),
           accKind # "metrics" => S = Items,
           UNCHANGED <<accKind, sinkVars, producing, lastFailed, row, age, accFaults,
                       owed, lost, late, torn>>,
           CapTypes', CapsInv', IsFiniteSet(rows')
    PROVE  Books'
<1>1. AccTypeOK
  BY Zenon DEF Books
<1>2. /\ MemTypes /\ FlightTypes /\ SinkTypes /\ ProcTypes /\ RestTypes
  BY <1>1, TypeParts, Zenon
<1>3. /\ accKind' = accKind /\ stored' = stored /\ storedMarks' = storedMarks
      /\ producing' = producing /\ lastFailed' = lastFailed /\ row' = row /\ age' = age
      /\ accFaults' = accFaults /\ owed' = owed /\ lost' = lost /\ late' = late /\ torn' = torn
  BY Zenon DEF sinkVars
<1>4. /\ MemTypes' /\ FlightTypes'
      /\ \A i \in Items :
            /\ slots'[i] = IF i \in S THEN 0 ELSE slots[i]
            /\ pending'[i] = 0
            /\ flight'[i] = (IF i \in S THEN slots[i] ELSE 0) + pending[i]
            /\ flight'[i] # 0 => RowKey(i)' \in rows'
      /\ batch' = flight'
      /\ \A b \in marks : Marker(b) \in rows'
  BY <1>1, <1>3, TakeEffect, Zenon
<1>5. rows = {} /\ \A i \in Items : flight[i] = 0
  <2>1. rows = {}
    BY Zenon DEF Books, FlightInv, FlushStarts
  <2> QED BY <2>1, Zenon DEF Books, FlightInv
<1>6. AccTypeOK'
  <2>1. SinkTypes' /\ RestTypes'
    BY <1>2, <1>3, Zenon DEF SinkTypes, RestTypes
  <2>2. ProcTypes'
    BY <1>2, <1>3, Zenon DEF ProcTypes, FlushStarts
  <2> QED BY <2>1, <2>2, <1>4, TypePartsNext, Zenon
<1>7. EachCountOnce'
  <2> SUFFICES ASSUME ~torn', NEW j \in Items
               PROVE  slots'[j] + pending'[j] + flight'[j] + stored'[j] + lost'[j] = owed'[j]
    BY Zenon DEF EachCountOnce
  <2>0. ~torn /\ stored'[j] = stored[j] /\ lost'[j] = lost[j] /\ owed'[j] = owed[j]
    <3>1. torn' = torn
      BY <1>3, Zenon
    <3>2. ~torn
      BY ONLY <3>1, ~torn', Zenon
    <3> QED BY <3>2, <1>3, Zenon
  <2>1. slots[j] + pending[j] + flight[j] + stored[j] + lost[j] = owed[j]
    BY <2>0, Zenon DEF Books, EachCountOnce
  <2>2. /\ slots[j] \in Int /\ pending[j] \in Int /\ flight[j] = 0
        /\ stored[j] \in Int /\ lost[j] \in Int /\ owed[j] \in Int
    BY <1>2, <1>5, Zenon DEF MemTypes, FlightTypes, SinkTypes, RestTypes
  <2>3. /\ slots'[j] = IF j \in S THEN 0 ELSE slots[j]
        /\ pending'[j] = 0
        /\ flight'[j] = (IF j \in S THEN slots[j] ELSE 0) + pending[j]
    BY ONLY <1>4, j \in Items, Zenon
  <2>4. CASE j \in S
    BY ONLY <2>0, <2>1, <2>2, <2>3, <2>4, SMTT(30)
  <2>5. CASE j \notin S
    BY ONLY <2>0, <2>1, <2>2, <2>3, <2>5, SMTT(30)
  <2> QED BY <2>4, <2>5, Zenon
<1>8. OnlyRedisTears' /\ NothingForgottenAtExit'
  <2>1. accPhase' # "exit"
    BY Zenon DEF FlushStarts
  <2>2. OnlyRedisTears
    BY Zenon DEF Books
  <2>3. OnlyRedisTears'
    BY ONLY <2>2, <1>3, Zenon DEF OnlyRedisTears
  <2>4. NothingForgottenAtExit'
    BY ONLY <2>1, Zenon DEF NothingForgottenAtExit
  <2> QED BY <2>3, <2>4, Zenon
<1>9. FlightInv'
  <2>1. ASSUME NEW j \in Items, row[j] = <<0, 0>>
        PROVE  slots'[j] = 0 /\ pending'[j] = 0 /\ flight'[j] = 0 /\ batch'[j] = 0 /\ owed[j] = 0
    <3>1. slots[j] = 0 /\ pending[j] = 0 /\ owed[j] = 0
      BY <2>1, Zenon DEF Books, FlightInv
    <3>2. /\ slots'[j] = IF j \in S THEN 0 ELSE slots[j]
          /\ pending'[j] = 0
          /\ flight'[j] = (IF j \in S THEN slots[j] ELSE 0) + pending[j]
          /\ batch' = flight'
      BY ONLY <1>4, j \in Items, Zenon
    <3> QED BY ONLY <3>1, <3>2, SMTT(30)
  <2>2. running' \in {"flush", "last"} \/ accPhase' = "last"
    BY Zenon DEF FlushStarts
  <2>3. \A j \in Items : flight'[j] # 0 => RowKey(j)' \in rows' /\ batch'[j] # 0
    BY <1>4, Zenon
  <2> QED BY <1>3, <1>4, <2>1, <2>2, <2>3, ZenonT(60) DEF FlightInv
<1>10. LastFlushInv'
  <2>1. \A j \in Items : pending'[j] = 0
    BY <1>4, ZenonT(60)
  <2>2. accPhase' = "last" \/ running' = "last" => \A j \in Items : slots'[j] = 0
    BY <1>4, Zenon DEF FlushStarts
  <2>3. accPhase \notin {"last", "exit"}
    BY Zenon DEF FlushStarts
  <2>4. CASE running' = "flush" /\ accPhase' \notin {"last", "exit"}
    BY <2>1, <2>4, <1>3, Zenon DEF LastFlushInv
  <2>5. CASE running' = "last" /\ accPhase' \notin {"last", "exit"} /\ accKind = "metrics"
    BY <2>1, <2>2, <2>5, <1>3, Zenon DEF LastFlushInv
  <2>6. CASE /\ running' = "ended" /\ accPhase' = "last" /\ ~producing
             /\ accKind \notin {"metrics", "standalone"}
    BY <2>1, <2>2, <2>6, <1>3, SMTT(30) DEF LastFlushInv
  <2> QED BY <2>4, <2>5, <2>6, Zenon DEF FlushStarts
<1>11. MarksInv'
  <2> SUFFICES ASSUME accKind = "edges", NEW j \in Items
               PROVE  /\ slots'[j] # 0 => ItemBucket[j] \in marks' \cup storedMarks
                      /\ flight'[j] # 0 => Marker(ItemBucket[j]) \in rows'
                                           \/ ItemBucket[j] \in storedMarks
                      /\ stored[j] # 0 => ItemBucket[j] \in storedMarks
    BY <1>3, Zenon DEF MarksInv
  <2>1. slots'[j] = 0 /\ flight'[j] = slots[j] + pending[j] /\ pending[j] = 0 /\ slots[j] \in Int
    BY <1>2, <1>4, Zenon DEF Books, LastFlushInv, MemTypes
  <2>2. flight'[j] = slots[j]
    BY ONLY <2>1, SMTT(30)
  <2>3. /\ slots[j] # 0 => ItemBucket[j] \in marks \cup storedMarks
        /\ stored[j] # 0 => ItemBucket[j] \in storedMarks
    BY Zenon DEF Books, MarksInv
  <2> QED BY <1>4, <2>1, <2>2, <2>3, Zenon
<1> QED BY <1>6, <1>7, <1>8, <1>9, <1>10, <1>11, Zenon DEF Books

\* Where the end of a flush leaves the loop and the process.
LEMMA EndsWhere ==
    ASSUME ProcTypes, NEW ok \in BOOLEAN, FlushEnds(ok)
    PROVE  /\ ProcTypes' /\ producing' = producing
           /\ running = "flush" => running' = "wait"
           /\ running = "last" => running' = "ended"
           /\ running \notin {"flush", "last"} => running' = running
           /\ accPhase = "last" => accPhase' = "exit"
           /\ accPhase # "last" => accPhase' = accPhase
           /\ lastFailed => lastFailed'
           /\ accPhase = "last" /\ ~ok => lastFailed'
  BY Zenon DEF ProcTypes, FlushEnds

\* A flush that runs is that of the loop, or the last one of the process.
LEMMA Flushing ==
    ASSUME FlightInv, LastFlushInv, rows # {}
    PROVE  /\ accPhase # "exit"
           /\ \/ running \in {"flush", "last"} /\ accPhase # "last"
              \/ running = "ended" /\ accPhase = "last" /\ accKind \notin {"metrics", "standalone"}
  BY Zenon DEF FlightInv, LastFlushInv

\* Some rows of the flush are written: their counts are in the store.
LEMMA CommitStep ==
    ASSUME Books, NEW C \in SUBSET rows, Commit(C), IsFiniteSet(rows'),
           accKind = "writer" => C = rows,
           accKind = "edges" => \A k \in C : Marker(k[1]) \in rows => Marker(k[1]) \in C
    PROVE  Books'
<1>1. AccTypeOK /\ FlightInv /\ LastFlushInv /\ rows # {}
  BY Zenon DEF Books, Commit
<1>2. /\ MemTypes /\ FlightTypes /\ SinkTypes /\ ProcTypes /\ RestTypes /\ CapTypes
  BY <1>1, TypeParts, Zenon
<1>3. /\ accKind' = accKind /\ slots' = slots /\ pending' = pending /\ marks' = marks
      /\ UNCHANGED capVars /\ row' = row /\ age' = age /\ accFaults' = accFaults
      /\ owed' = owed /\ lost' = lost /\ late' = late /\ torn' = torn
  BY Zenon DEF Commit, memVars
<1>4. /\ stored' = Plus(stored, Only(flight, RowItems(C)))
      /\ storedMarks' = storedMarks \cup {b \in Buckets : Marker(b) \in C}
      /\ flight' = Minus(flight, Only(flight, RowItems(C)))
      /\ rows' = rows \ C
  BY Zenon DEF Commit, Land
<1>5. \/ rows' = {} /\ FlushEnds(TRUE) /\ batch' = None /\ retried' = {}
      \/ rows' # {} /\ UNCHANGED <<procVars, batch, retried>>
  BY ZenonT(60) DEF Commit
<1>6. /\ Only(flight, RowItems(C)) \in [Items -> Int]
      /\ \A i \in Items : Only(flight, RowItems(C))[i] = IF RowKey(i) \in C THEN flight[i] ELSE 0
  BY <1>2, OnlyOf DEF FlightTypes, RowItems
<1>7. /\ stored' \in [Items -> Int] /\ flight' \in [Items -> Int]
      /\ \A i \in Items :
            \/ RowKey(i) \in C /\ flight'[i] = 0 /\ stored'[i] = stored[i] + flight[i]
            \/ RowKey(i) \notin C /\ flight'[i] = flight[i] /\ stored'[i] = stored[i]
  <2>1. /\ stored' \in [Items -> Int]
        /\ \A i \in Items : stored'[i] = stored[i] + Only(flight, RowItems(C))[i]
    BY <1>2, <1>4, <1>6, PlusOf, Zenon DEF SinkTypes
  <2>2. /\ flight' \in [Items -> Int]
        /\ \A i \in Items : flight'[i] = flight[i] - Only(flight, RowItems(C))[i]
    BY <1>2, <1>4, <1>6, MinusOf, Zenon DEF FlightTypes
  <2>3. \A i \in Items : flight[i] \in Int /\ stored[i] \in Int
    BY <1>2, Zenon DEF FlightTypes, SinkTypes
  <2> QED BY <2>1, <2>2, <2>3, <1>6
<1>8. rows' = {} => \A i \in Items : flight'[i] = 0
  BY <1>1, <1>4, <1>7, Zenon DEF FlightInv
<1>9. /\ accPhase # "exit"
      /\ \/ running \in {"flush", "last"} /\ accPhase # "last"
         \/ running = "ended" /\ accPhase = "last" /\ accKind \notin {"metrics", "standalone"}
  BY <1>1, Flushing, Zenon
<1>10. ASSUME rows' = {}, FlushEnds(TRUE), batch' = None, retried' = {}
       PROVE  FlightTypes' /\ ProcTypes' /\ FlightInv' /\ LastFlushInv' /\ NothingForgottenAtExit'
  <2>1. /\ ProcTypes' /\ producing' = producing
        /\ running = "flush" => running' = "wait"
        /\ running = "last" => running' = "ended"
        /\ running \notin {"flush", "last"} => running' = running
        /\ accPhase = "last" => accPhase' = "exit"
        /\ accPhase # "last" => accPhase' = accPhase
    BY <1>2, <1>10, EndsWhere, Zenon
  <2>2. batch' \in [Items -> Int] /\ \A i \in Items : batch'[i] = 0
    BY <1>10 DEF None
  <2>3. FlightTypes'
    BY <1>7, <1>10, <2>2, Zenon DEF FlightTypes
  <2>4. FlightInv'
    <3>1. \A i \in Items : flight'[i] = 0
      BY <1>8, <1>10, Zenon
    <3> QED BY <3>1, <2>2, <1>1, <1>3, <1>10, Zenon DEF FlightInv
  <2>5. LastFlushInv'
    <3>1. accPhase' # "last" /\ running' # "last"
      BY <1>9, <2>1, Zenon
    <3>2. accPhase' = "exit" => ~producing' /\ running' = "ended"
      BY <1>1, <1>9, <2>1, Zenon DEF LastFlushInv
    <3>3. ASSUME accKind = "metrics", running' = "ended"
          PROVE  \A i \in Items : pending[i] = 0 /\ (slots[i] # 0 => i \in late)
      BY <3>3, <1>1, <1>9, <2>1, Zenon DEF LastFlushInv
    <3> QED BY <3>1, <3>2, <3>3, <1>1, <1>3, Zenon DEF LastFlushInv
  <2>6. NothingForgottenAtExit'
    <3> SUFFICES ASSUME accPhase' = "exit", NEW i \in Items PROVE slots[i] + pending[i] = 0
      BY <1>3, ZenonT(60) DEF NothingForgottenAtExit
    <3>1. slots[i] = 0 /\ pending[i] = 0
      BY <1>1, <1>9, <2>1, Zenon DEF LastFlushInv
    <3> QED BY <3>1, SMTT(30)
  <2> QED BY <2>1, <2>3, <2>4, <2>5, <2>6, Zenon
<1>11. ASSUME rows' # {}, UNCHANGED <<procVars, batch, retried>>
       PROVE  FlightTypes' /\ ProcTypes' /\ FlightInv' /\ LastFlushInv' /\ NothingForgottenAtExit'
  <2>1. /\ accPhase' = accPhase /\ running' = running /\ producing' = producing
        /\ lastFailed' = lastFailed /\ batch' = batch /\ retried' = retried
    BY <1>11, Zenon DEF procVars
  <2>2. ProcTypes' /\ LastFlushInv' /\ NothingForgottenAtExit'
    BY <1>1, <1>2, <1>3, <1>9, <2>1, Zenon DEF ProcTypes, LastFlushInv, NothingForgottenAtExit
  <2>3. FlightTypes'
    <3>1. rows' \in SUBSET rows
      BY <1>4, Zenon
    <3> QED BY <3>1, <2>1, <1>2, <1>7, Zenon DEF FlightTypes
  <2>4. FlightInv'
    <3>1. \A i \in Items : RowKey(i)' = RowKey(i)
      BY <2>1, <1>3, ZenonT(60) DEF RowKey
    <3>2. ASSUME NEW i \in Items, flight'[i] # 0 PROVE RowKey(i) \in rows' /\ batch[i] # 0
      <4>1. RowKey(i) \notin C /\ flight[i] # 0
        BY <3>2, <1>7, Zenon
      <4> QED BY <4>1, <1>1, <1>4, Zenon DEF FlightInv
    <3>3. ASSUME NEW i \in Items, row[i] = <<0, 0>>
          PROVE  slots[i] = 0 /\ pending[i] = 0 /\ flight'[i] = 0 /\ batch[i] = 0 /\ owed[i] = 0
      <4>1. slots[i] = 0 /\ pending[i] = 0 /\ flight[i] = 0 /\ batch[i] = 0 /\ owed[i] = 0
        BY <3>3, <1>1, Zenon DEF FlightInv
      <4>2. flight'[i] = 0 \/ flight'[i] = flight[i]
        BY <1>7, Zenon
      <4> QED BY <4>1, <4>2, Zenon
    <3>4. accKind # "writer"
      BY <1>4, <1>11, Zenon
    <3> QED BY <3>1, <3>2, <3>3, <3>4, <2>1, <1>1, <1>3, <1>9, ZenonT(60) DEF FlightInv
  <2> QED BY <2>2, <2>3, <2>4, Zenon
<1>12. FlightTypes' /\ ProcTypes' /\ FlightInv' /\ LastFlushInv' /\ NothingForgottenAtExit'
  BY <1>5, <1>10, <1>11, Zenon
<1>13. CapTypes' /\ CapsInv'
  BY <1>2, <1>3, CapsUntouched, Zenon DEF Books
<1>14. AccTypeOK'
  <2>1. MemTypes' /\ RestTypes'
    BY <1>2, <1>3, Zenon DEF MemTypes, RestTypes
  <2>2. SinkTypes'
    BY <1>2, <1>4, <1>7, Zenon DEF SinkTypes
  <2> QED BY <2>1, <2>2, <1>12, <1>13, TypePartsNext, Zenon
<1>15. EachCountOnce'
  <2> SUFFICES ASSUME ~torn, NEW j \in Items
               PROVE  slots[j] + pending[j] + flight'[j] + stored'[j] + lost[j] = owed[j]
    BY <1>3, Zenon DEF EachCountOnce
  <2>1. slots[j] + pending[j] + flight[j] + stored[j] + lost[j] = owed[j]
    BY Zenon DEF Books, EachCountOnce
  <2>2. /\ slots[j] \in Int /\ pending[j] \in Int /\ flight[j] \in Int
        /\ stored[j] \in Int /\ lost[j] \in Int /\ owed[j] \in Int
    BY <1>2, Zenon DEF MemTypes, FlightTypes, SinkTypes, RestTypes
  <2>3. CASE flight'[j] = 0 /\ stored'[j] = stored[j] + flight[j]
    BY ONLY <2>1, <2>2, <2>3, SMTT(30)
  <2>4. CASE flight'[j] = flight[j] /\ stored'[j] = stored[j]
    BY ONLY <2>1, <2>2, <2>4, Zenon
  <2> QED BY <2>3, <2>4, <1>7, ZenonT(60)
<1>16. OnlyRedisTears'
  BY <1>3, Zenon DEF Books, OnlyRedisTears
<1>17. MarksInv'
  <2> SUFFICES ASSUME accKind = "edges", NEW j \in Items
               PROVE  /\ slots[j] # 0 => ItemBucket[j] \in marks \cup storedMarks'
                      /\ flight'[j] # 0 => Marker(ItemBucket[j]) \in rows'
                                           \/ ItemBucket[j] \in storedMarks'
                      /\ stored'[j] # 0 => ItemBucket[j] \in storedMarks'
    BY <1>3, ZenonT(60) DEF MarksInv
  <2>1. /\ slots[j] # 0 => ItemBucket[j] \in marks \cup storedMarks
        /\ flight[j] # 0 => Marker(ItemBucket[j]) \in rows \/ ItemBucket[j] \in storedMarks
        /\ stored[j] # 0 => ItemBucket[j] \in storedMarks
    BY Zenon DEF Books, MarksInv
  <2>2. ItemBucket[j] \in Buckets
    BY Zenon DEF Buckets
  <2>3. Marker(ItemBucket[j]) \in C => ItemBucket[j] \in storedMarks'
    BY <2>2, <1>4, Zenon
  <2>4. storedMarks \subseteq storedMarks'
    BY <1>4, Zenon
  <2>5. flight'[j] # 0 => Marker(ItemBucket[j]) \in rows' \/ ItemBucket[j] \in storedMarks'
    BY <2>1, <2>3, <2>4, <1>4, <1>7, ZenonT(60)
  <2>6. ASSUME stored'[j] # 0 PROVE ItemBucket[j] \in storedMarks'
    <3>1. CASE stored[j] # 0
      BY <3>1, <2>1, <2>4, Zenon
    <3>2. CASE stored[j] = 0
      <4>1. RowKey(j) \in C /\ flight[j] # 0
        BY <3>2, <2>6, <1>7
      <4>2. RowKey(j)[1] = ItemBucket[j]
        BY Zenon DEF RowKey
      <4>3. Marker(ItemBucket[j]) \in rows => Marker(ItemBucket[j]) \in C
        BY <4>1, <4>2, Zenon
      <4> QED BY <4>1, <4>3, <2>1, <2>3, <2>4, Zenon
    <3> QED BY <3>1, <3>2, Zenon
  <2> QED BY <2>1, <2>4, <2>5, <2>6, Zenon
<1> QED BY <1>12, <1>13, <1>14, <1>15, <1>16, <1>17, Zenon DEF Books

\* What a failed flush did not write goes back to memory or is reported as lost;
\* a report of the ledger goes back as it was taken.
LEMMA PutBackEffect ==
    ASSUME AccTypeOK,
           AggregatesRequeue \/ RollupsRequeue \/ EdgesRequeue \/ MetricsKeep \/ TallyMerge
    PROVE  /\ MemTypes' /\ lost' \in [Items -> Int] /\ marks \subseteq marks'
           /\ accKind \in Tallies =>
                 /\ pending' = pending /\ lost' = lost
                 /\ \A i \in Items : slots'[i] = slots[i] + batch[i]
           /\ accKind \notin Tallies /\ accKind # "metrics" =>
                 /\ pending' = pending
                 /\ \A i \in Items :
                       \/ slots'[i] = slots[i] + flight[i] /\ lost'[i] = lost[i]
                       \/ slots'[i] = slots[i] /\ lost'[i] = lost[i] + flight[i]
           /\ accKind = "metrics" =>
                 /\ slots' = slots
                 /\ \A i \in Items :
                       \/ /\ pending'[i] = pending[i] + flight[i] /\ lost'[i] = lost[i]
                          /\ running # "last"
                       \/ pending'[i] = pending[i] /\ lost'[i] = lost[i] + flight[i]
           /\ accKind = "edges" =>
                 \A i \in Items : slots'[i] # slots[i] /\ batch[i] # 0 => ItemBucket[i] \in marks'
<1>1. MemTypes /\ FlightTypes /\ RestTypes
  BY TypeParts, Zenon
<1>2. \A i \in Items : /\ slots[i] \in Int /\ pending[i] \in Int /\ flight[i] \in Int
                       /\ lost[i] \in Int /\ batch[i] \in Int
  BY <1>1, Zenon DEF MemTypes, FlightTypes, RestTypes
<1>3. ASSUME NEW K
      PROVE  /\ Only(flight, K) \in [Items -> Int]
             /\ \A i \in Items : Only(flight, K)[i] = IF i \in K THEN flight[i] ELSE 0
             /\ LoseRest(K) =>
                   /\ lost' \in [Items -> Int]
                   /\ \A i \in Items : lost'[i] = IF i \in K THEN lost[i] ELSE lost[i] + flight[i]
  <2>1. /\ Only(flight, K) \in [Items -> Int]
        /\ \A i \in Items : Only(flight, K)[i] = IF i \in K THEN flight[i] ELSE 0
    BY <1>1, OnlyOf DEF FlightTypes
  <2>2. /\ Minus(flight, Only(flight, K)) \in [Items -> Int]
        /\ \A i \in Items : Minus(flight, Only(flight, K))[i] = flight[i] - Only(flight, K)[i]
    BY <1>1, <2>1, MinusOf, Zenon DEF FlightTypes
  <2>3. ASSUME LoseRest(K)
        PROVE  /\ lost' \in [Items -> Int]
               /\ \A i \in Items : lost'[i] = IF i \in K THEN lost[i] ELSE lost[i] + flight[i]
    <3>1. /\ lost' \in [Items -> Int]
          /\ \A i \in Items : lost'[i] = lost[i] + Minus(flight, Only(flight, K))[i]
      BY <1>1, <2>2, <2>3, PlusOf, Zenon DEF LoseRest, RestTypes
    <3> QED BY <3>1, <2>1, <2>2, <1>2, SMTT(30)
  <2> QED BY <2>1, <2>3, Zenon
<1>4. ASSUME accKind \notin Tallies, accKind # "metrics", PutBack, LoseRest(Young), pending' = pending
      PROVE  /\ slots' \in [Items -> Int] /\ lost' \in [Items -> Int]
             /\ \A i \in Items :
                   \/ /\ slots'[i] = slots[i] + flight[i] /\ lost'[i] = lost[i]
                      /\ i \in Young
                   \/ slots'[i] = slots[i] /\ lost'[i] = lost[i] + flight[i]
  <2>1. /\ slots' \in [Items -> Int]
        /\ \A i \in Items : slots'[i] = slots[i] + Only(flight, Young)[i]
    <3>1. Only(flight, Young) \in [Items -> Int] /\ slots \in [Items -> Int]
      BY <1>1, <1>3, Zenon DEF MemTypes
    <3> QED BY <3>1, <1>4, PlusOf, Zenon DEF PutBack
  <2>2. /\ lost' \in [Items -> Int]
        /\ \A i \in Items : lost'[i] = IF i \in Young THEN lost[i] ELSE lost[i] + flight[i]
    BY <1>3, <1>4, Zenon
  <2>3. \A i \in Items : Only(flight, Young)[i] = IF i \in Young THEN flight[i] ELSE 0
    BY <1>3, Zenon
  <2> QED BY <2>1, <2>2, <2>3, <1>2
<1>5. CASE AggregatesRequeue \/ RollupsRequeue
  <2>1. /\ accKind \notin Tallies /\ accKind # "metrics" /\ accKind # "edges"
        /\ PutBack /\ LoseRest(Young) /\ pending' = pending /\ marks' = marks
    BY <1>5, Zenon DEF AggregatesRequeue, RollupsRequeue, Tallies
  <2> QED BY <2>1, <1>1, <1>4, Zenon DEF MemTypes
<1>6. CASE EdgesRequeue
  <2>1. /\ accKind = "edges" /\ accKind \notin Tallies /\ accKind # "metrics"
        /\ PutBack /\ LoseRest(Young) /\ pending' = pending
        /\ marks' = marks \cup {ItemBucket[i] : i \in {j \in Young : batch[j] # 0}}
    BY <1>6, Zenon DEF EdgesRequeue, Tallies
  <2>2. marks' \subseteq Buckets
    BY <2>1, <1>1, Zenon DEF MemTypes, Buckets, Young
  <2>3. ASSUME NEW i \in Items, slots'[i] # slots[i], batch[i] # 0 PROVE ItemBucket[i] \in marks'
    BY <2>1, <2>3, <1>4, Zenon
  <2> QED BY <2>1, <2>2, <2>3, <1>1, <1>4, ZenonT(60) DEF MemTypes
<1>7. CASE MetricsKeep
  <2> DEFINE kept == IF running = "last" THEN {} ELSE Young
  <2>1. /\ accKind = "metrics" /\ accKind \notin Tallies /\ accKind # "edges"
        /\ slots' = slots /\ marks' = marks
        /\ pending' = Plus(pending, Only(flight, kept)) /\ LoseRest(kept)
    BY <1>7, Zenon DEF MetricsKeep, Tallies
  <2>2. running = "last" => kept = {}
    BY Zenon
  <2> HIDE DEF kept
  <2>3. /\ pending' \in [Items -> Int]
        /\ \A i \in Items : pending'[i] = pending[i] + Only(flight, kept)[i]
    <3>1. Only(flight, kept) \in [Items -> Int] /\ pending \in [Items -> Int]
      BY <1>1, <1>3, Zenon DEF MemTypes
    <3> QED BY <3>1, <2>1, PlusOf, Zenon
  <2>4. /\ lost' \in [Items -> Int]
        /\ \A i \in Items : lost'[i] = IF i \in kept THEN lost[i] ELSE lost[i] + flight[i]
        /\ \A i \in Items : Only(flight, kept)[i] = IF i \in kept THEN flight[i] ELSE 0
    BY <2>1, <1>3, Zenon
  <2>5. \A i \in Items :
            \/ /\ pending'[i] = pending[i] + flight[i] /\ lost'[i] = lost[i]
               /\ running # "last"
            \/ pending'[i] = pending[i] /\ lost'[i] = lost[i] + flight[i]
    BY <2>2, <2>3, <2>4, <1>2, SMTT(30)
  <2> QED BY <2>1, <2>3, <2>4, <2>5, <1>1, Zenon DEF MemTypes
<1>8. CASE TallyMerge
  <2>1. /\ accKind \in Tallies /\ accKind # "metrics" /\ accKind # "edges"
        /\ slots' = Plus(slots, batch) /\ pending' = pending /\ marks' = marks /\ lost' = lost
    BY <1>8, Zenon DEF TallyMerge, Tallies
  <2>2. slots' \in [Items -> Int] /\ \A i \in Items : slots'[i] = slots[i] + batch[i]
    BY <2>1, <1>1, PlusOf, Zenon DEF MemTypes, FlightTypes
  <2> QED BY <2>1, <2>2, <1>1, Zenon DEF MemTypes, RestTypes
<1> QED BY <1>5, <1>6, <1>7, <1>8, Zenon

\* A chunk fails: the rest of the flush goes back, the written part stays.
LEMMA FailStep ==
    ASSUME Books, AccFails \/ AccReplyLost, IsFiniteSet(rows')
    PROVE  Books'
<1>1. AccTypeOK /\ FlightInv /\ LastFlushInv /\ rows # {} /\ FlushFails
  BY Zenon DEF Books, AccFails, AccReplyLost, FlushFails
<1>2. /\ MemTypes /\ FlightTypes /\ SinkTypes /\ ProcTypes /\ RestTypes /\ CapTypes
  BY <1>1, TypeParts, Zenon
<1>3. /\ accKind' = accKind /\ UNCHANGED capVars /\ row' = row /\ age' = age
      /\ owed' = owed /\ late' = late /\ accFaults' = accFaults + 1
      /\ batch' = None /\ flight' = None /\ rows' = {} /\ retried' = {}
      /\ FlushEnds(FALSE)
      /\ AggregatesRequeue \/ RollupsRequeue \/ EdgesRequeue \/ MetricsKeep \/ TallyMerge
  BY <1>1, Zenon DEF FlushFails
<1>4. \/ /\ torn' = (torn \/ (accKind \in Tallies /\ batch # flight))
         /\ stored' = stored /\ storedMarks' = storedMarks
      \/ accKind = "reader" /\ torn' = TRUE /\ Land(FirstRows(ChunkRows))
  BY Zenon DEF AccFails, AccReplyLost, sinkVars
<1>5. /\ MemTypes' /\ lost' \in [Items -> Int] /\ marks \subseteq marks'
      /\ accKind \in Tallies =>
            /\ pending' = pending /\ lost' = lost
            /\ \A i \in Items : slots'[i] = slots[i] + batch[i]
      /\ accKind \notin Tallies /\ accKind # "metrics" =>
            /\ pending' = pending
            /\ \A i \in Items :
                  \/ slots'[i] = slots[i] + flight[i] /\ lost'[i] = lost[i]
                  \/ slots'[i] = slots[i] /\ lost'[i] = lost[i] + flight[i]
      /\ accKind = "metrics" =>
            /\ slots' = slots
            /\ \A i \in Items :
                  \/ /\ pending'[i] = pending[i] + flight[i] /\ lost'[i] = lost[i]
                     /\ running # "last"
                  \/ pending'[i] = pending[i] /\ lost'[i] = lost[i] + flight[i]
      /\ accKind = "edges" =>
            \A i \in Items : slots'[i] # slots[i] /\ batch[i] # 0 => ItemBucket[i] \in marks'
  BY <1>1, <1>3, PutBackEffect, Zenon
<1>6. /\ ProcTypes' /\ producing' = producing
      /\ running = "flush" => running' = "wait"
      /\ running = "last" => running' = "ended"
      /\ running \notin {"flush", "last"} => running' = running
      /\ accPhase = "last" => accPhase' = "exit" /\ lastFailed'
      /\ accPhase # "last" => accPhase' = accPhase
  BY <1>2, <1>3, EndsWhere, Zenon
<1>7. /\ accPhase # "exit"
      /\ \/ running \in {"flush", "last"} /\ accPhase # "last"
         \/ running = "ended" /\ accPhase = "last" /\ accKind \notin {"metrics", "standalone"}
  BY <1>1, Flushing, Zenon
<1>8. None \in [Items -> Int] /\ \A i \in Items : None[i] = 0
  BY DEF None
<1>9. CapTypes' /\ CapsInv'
  BY <1>2, <1>3, CapsUntouched, Zenon DEF Books
<1>10. \A i \in Items : /\ slots[i] \in Int /\ pending[i] \in Int /\ flight[i] \in Int
                        /\ lost[i] \in Int /\ batch[i] \in Int /\ stored[i] \in Int
                        /\ owed[i] \in Int
  BY <1>2, Zenon DEF MemTypes, FlightTypes, SinkTypes, RestTypes
<1>11. SinkTypes'
  <2>1. CASE stored' = stored /\ storedMarks' = storedMarks
    BY <2>1, <1>2, Zenon DEF SinkTypes
  <2>2. CASE Land(FirstRows(ChunkRows))
    <3>1. Only(flight, RowItems(FirstRows(ChunkRows))) \in [Items -> Int]
      BY <1>2, OnlyOf, Zenon DEF FlightTypes
    <3>2. stored' \in [Items -> Int]
      BY <2>2, <3>1, <1>2, PlusOf, Zenon DEF Land, SinkTypes
    <3> QED BY <2>2, <3>2, <1>2, Zenon DEF Land, SinkTypes
  <2> QED BY <1>4, <2>1, <2>2, Zenon
<1>12. AccTypeOK'
  <2>1. FlightTypes'
    BY <1>3, <1>8, Zenon DEF FlightTypes
  <2>2. torn' \in BOOLEAN
    BY <1>4, Zenon
  <2>3. accFaults' \in Nat /\ lost' \in [Items -> Int]
    <3>1. accFaults \in Nat /\ accFaults' = accFaults + 1 /\ lost' \in [Items -> Int]
      BY <1>2, <1>3, <1>5, Zenon DEF RestTypes
    <3> QED BY ONLY <3>1
  <2>4. RestTypes'
    BY <1>2, <1>3, <2>2, <2>3, Zenon DEF RestTypes
  <2> QED BY <2>1, <2>4, <1>5, <1>6, <1>9, <1>11, TypePartsNext, Zenon
<1>13. EachCountOnce'
  <2> SUFFICES ASSUME ~torn', NEW j \in Items
               PROVE  slots'[j] + pending'[j] + flight'[j] + stored'[j] + lost'[j] = owed[j]
    BY <1>3, Zenon DEF EachCountOnce
  <2>1. /\ ~torn /\ stored'[j] = stored[j] /\ flight'[j] = 0
        /\ accKind \in Tallies => batch = flight
    BY <1>3, <1>4, <1>8, Zenon
  <2>2. slots[j] + pending[j] + flight[j] + stored[j] + lost[j] = owed[j]
    BY <2>1 DEF Books, EachCountOnce
  <2>3. /\ slots[j] \in Int /\ pending[j] \in Int /\ flight[j] \in Int
        /\ stored[j] \in Int /\ lost[j] \in Int /\ owed[j] \in Int
    BY <1>10, Zenon
  <2>5. CASE slots'[j] = slots[j] + flight[j] /\ pending'[j] = pending[j] /\ lost'[j] = lost[j]
    BY ONLY <2>1, <2>2, <2>3, <2>5
  <2>6. CASE slots'[j] = slots[j] /\ pending'[j] = pending[j] + flight[j] /\ lost'[j] = lost[j]
    BY ONLY <2>1, <2>2, <2>3, <2>6, SMTT(30)
  <2>7. CASE slots'[j] = slots[j] /\ pending'[j] = pending[j] /\ lost'[j] = lost[j] + flight[j]
    BY ONLY <2>1, <2>2, <2>3, <2>7, SMTT(30)
  <2>4. \/ slots'[j] = slots[j] + flight[j] /\ pending'[j] = pending[j] /\ lost'[j] = lost[j]
        \/ slots'[j] = slots[j] /\ pending'[j] = pending[j] + flight[j] /\ lost'[j] = lost[j]
        \/ slots'[j] = slots[j] /\ pending'[j] = pending[j] /\ lost'[j] = lost[j] + flight[j]
    <3>1. CASE accKind \in Tallies
      BY <3>1, <2>1, <1>5, ZenonT(60)
    <3>2. CASE accKind = "metrics"
      BY <3>2, <1>5, Zenon
    <3>3. CASE accKind \notin Tallies /\ accKind # "metrics"
      BY <3>3, <1>5, Zenon
    <3> QED BY <3>1, <3>2, <3>3, ZenonT(60)
  <2> QED BY <2>4, <2>5, <2>6, <2>7, Zenon
<1>14. OnlyRedisTears'
  <2>1. accKind = "writer" => batch = flight
    BY <1>1, Zenon DEF FlightInv
  <2>2. torn => accKind = "reader"
    BY Zenon DEF Books, OnlyRedisTears
  <2> QED BY <2>1, <2>2, <1>3, <1>4, ZenonT(60) DEF OnlyRedisTears, Tallies
<1>15. NothingForgottenAtExit'
  BY <1>6, <1>7, ZenonT(60) DEF NothingForgottenAtExit
<1>16. FlightInv'
  <2>1. ASSUME NEW i \in Items, row[i] = <<0, 0>>
        PROVE  slots'[i] = 0 /\ pending'[i] = 0 /\ owed[i] = 0
    <3>1. slots[i] = 0 /\ pending[i] = 0 /\ flight[i] = 0 /\ batch[i] = 0 /\ owed[i] = 0
      BY <2>1, <1>1, ZenonT(60) DEF FlightInv
    <3>2. CASE accKind \in Tallies
      <4>1. slots'[i] = slots[i] + batch[i] /\ pending'[i] = pending[i]
        BY <3>2, <1>5, ZenonT(60)
      <4> QED BY ONLY <3>1, <4>1, SMTT(30)
    <3>3. CASE accKind = "metrics"
      <4>1. /\ slots'[i] = slots[i]
            /\ pending'[i] = pending[i] + flight[i] \/ pending'[i] = pending[i]
        BY <3>3, <1>5, Zenon
      <4> QED BY ONLY <3>1, <4>1, SMTT(30)
    <3>4. CASE accKind \notin Tallies /\ accKind # "metrics"
      <4>1. /\ pending'[i] = pending[i]
            /\ slots'[i] = slots[i] + flight[i] \/ slots'[i] = slots[i]
        BY <3>4, <1>5, Zenon
      <4> QED BY ONLY <3>1, <4>1, SMTT(30)
    <3> QED BY <3>2, <3>3, <3>4, Zenon
  <2> QED BY <2>1, <1>3, <1>8 DEF FlightInv
<1>17. LastFlushInv'
  <2>1. accPhase' # "last" /\ running' # "last"
    BY <1>6, <1>7, Zenon
  <2>2. accPhase' = "exit" => ~producing' /\ running' = "ended"
    BY <1>1, <1>6, <1>7, Zenon DEF LastFlushInv
  <2>3. accKind # "metrics" => pending' = pending
    BY <1>5, Zenon
  <2>4. ASSUME accKind = "metrics", running' = "ended", NEW i \in Items
        PROVE  pending'[i] = 0 /\ (slots'[i] # 0 => i \in late)
    <3>1. running = "last"
      BY <2>4, <1>6, <1>7, Zenon
    <3>2. pending[i] = 0 /\ (slots[i] # 0 => i \in late)
      BY <3>1, <2>4, <1>1, Zenon DEF LastFlushInv
    <3> QED BY <3>1, <3>2, <2>4, <1>5, Zenon
  <2> QED BY <2>1, <2>2, <2>3, <2>4, <1>1, <1>3, Zenon DEF LastFlushInv
<1>18. MarksInv'
  <2> SUFFICES ASSUME accKind = "edges", NEW j \in Items
               PROVE  /\ slots'[j] # 0 => ItemBucket[j] \in marks' \cup storedMarks'
                      /\ stored'[j] # 0 => ItemBucket[j] \in storedMarks'
    BY <1>3, <1>8, Zenon DEF MarksInv
  <2>1. stored' = stored /\ storedMarks' = storedMarks
    BY <1>4, Zenon
  <2>2. /\ slots[j] # 0 => ItemBucket[j] \in marks \cup storedMarks
        /\ stored[j] # 0 => ItemBucket[j] \in storedMarks
    BY Zenon DEF Books, MarksInv
  <2>3. CASE slots'[j] = slots[j]
    BY <2>1, <2>2, <2>3, <1>5, Zenon
  <2>4. CASE slots'[j] # slots[j]
    <3>1. flight[j] # 0
      BY <2>4, <1>5, <1>10, SMTT(30) DEF Tallies
    <3>2. batch[j] # 0
      BY <3>1, <1>1, Zenon DEF FlightInv
    <3> QED BY <2>4, <3>2, <2>1, <2>2, <1>5, Zenon
  <2> QED BY <2>3, <2>4, Zenon
<1> QED BY <1>9, <1>12, <1>13, <1>14, <1>15, <1>16, <1>17, <1>18, Zenon DEF Books

\* A step that leaves the counts where they are.
LEMMA QuietStep ==
    ASSUME Books,
           UNCHANGED <<accKind, memVars, flightVars, sinkVars, capVars, lastFailed,
                       row, accFaults, owed, lost, late, torn>>,
           age' \in [Buckets -> {"open", "closed", "old"}], ProcTypes',
           rows # {} => running' \in {"flush", "last"} \/ accPhase' = "last",
           LastFlushInv', NothingForgottenAtExit'
    PROVE  Books'
<1>1. AccTypeOK
  BY Zenon DEF Books
<1>2. /\ MemTypes /\ FlightTypes /\ SinkTypes /\ RestTypes /\ CapTypes
  BY <1>1, TypeParts, Zenon
<1>3. /\ accKind' = accKind /\ slots' = slots /\ pending' = pending /\ marks' = marks
      /\ batch' = batch /\ flight' = flight /\ rows' = rows /\ retried' = retried
      /\ stored' = stored /\ storedMarks' = storedMarks /\ UNCHANGED capVars
      /\ row' = row /\ accFaults' = accFaults /\ owed' = owed /\ lost' = lost
      /\ late' = late /\ torn' = torn
  BY Zenon DEF memVars, flightVars, sinkVars
<1>4. CapTypes' /\ CapsInv'
  BY <1>2, <1>3, CapsUntouched, Zenon DEF Books
<1>5. AccTypeOK'
  <2>1. MemTypes' /\ FlightTypes' /\ SinkTypes' /\ RestTypes'
    BY <1>2, <1>3, Zenon DEF MemTypes, FlightTypes, SinkTypes, RestTypes
  <2> QED BY <2>1, <1>4, TypePartsNext, Zenon
<1>6. EachCountOnce' /\ OnlyRedisTears'
  <2>1. EachCountOnce /\ OnlyRedisTears
    BY Zenon DEF Books
  <2> QED BY ONLY <2>1, <1>3, Zenon DEF EachCountOnce, OnlyRedisTears
<1>7. FlightInv'
  <2>1. \A i \in Items : RowKey(i)' = RowKey(i)
    BY <1>3, ZenonT(60) DEF RowKey
  <2> QED BY <2>1, <1>3, ZenonT(60) DEF Books, FlightInv
<1>8. MarksInv'
  BY <1>3, Zenon DEF Books, MarksInv
<1> QED BY <1>4, <1>5, <1>6, <1>7, <1>8, Zenon DEF Books

\* Time, SIGTERM, and the ends of the producer, the loop and the process.
LEMMA ProcessSteps ==
    ASSUME Books,
           \/ \E b \in Buckets : AccAge(b)
           \/ AccStop \/ AccProducerEnds \/ RunEnds \/ AccExit
    PROVE  Books'
<1>1. AccTypeOK /\ FlightInv /\ LastFlushInv /\ NothingForgottenAtExit
  BY Zenon DEF Books
<1>2. ProcTypes /\ RestTypes /\ MemTypes
  BY <1>1, TypeParts, Zenon
<1>3. ASSUME ~Loaded(Items) PROVE \A i \in Items : slots[i] = 0 /\ pending[i] = 0
  BY <1>3, Zenon DEF Loaded
<1>4. CASE \E b \in Buckets : AccAge(b)
  <2>1. PICK b \in Buckets : AccAge(b)
    BY <1>4, Zenon
  <2>2. /\ UNCHANGED <<accKind, memVars, flightVars, sinkVars, capVars, lastFailed,
                       row, accFaults, owed, lost, late, torn>>
        /\ UNCHANGED <<accPhase, running, producing>>
        /\ slots' = slots /\ pending' = pending
    BY <2>1, Zenon DEF AccAge, procVars, memVars
  <2>3. age' \in [Buckets -> {"open", "closed", "old"}]
    BY <2>1, <1>2, Zenon DEF AccAge, RestTypes
  <2>4. ProcTypes' /\ LastFlushInv' /\ NothingForgottenAtExit'
    BY <2>2, <1>1, <1>2, Zenon DEF ProcTypes, LastFlushInv, NothingForgottenAtExit
  <2> QED BY <2>2, <2>3, <2>4, <1>1, QuietStep, Zenon DEF FlightInv
<1>5. CASE AccStop \/ AccProducerEnds
  <2>1. /\ UNCHANGED <<accKind, memVars, flightVars, sinkVars, capVars, lastFailed,
                       row, accFaults, owed, lost, late, torn>>
        /\ age' = age /\ running' = running
        /\ slots' = slots /\ pending' = pending
    BY <1>5, Zenon DEF AccStop, AccProducerEnds, memVars
  <2>2. accPhase \in {"run", "stop"} /\ accPhase' = "stop" /\ producing' \in BOOLEAN
    BY <1>2, <1>5, ZenonT(60) DEF AccStop, AccProducerEnds, ProcTypes
  <2>3. ProcTypes' /\ LastFlushInv' /\ NothingForgottenAtExit'
    BY <2>1, <2>2, <1>1, <1>2, Zenon DEF ProcTypes, LastFlushInv, NothingForgottenAtExit
  <2> QED BY <2>1, <2>2, <2>3, <1>1, <1>2, QuietStep, ZenonT(60) DEF FlightInv, RestTypes
<1>6. CASE RunEnds
  <2>1. /\ UNCHANGED <<accKind, memVars, flightVars, sinkVars, capVars, lastFailed,
                       row, accFaults, owed, lost, late, torn>>
        /\ age' = age /\ running = "wait" /\ running' = "ended"
        /\ accPhase = "stop" /\ accPhase' = accPhase /\ producing' = producing
        /\ slots' = slots /\ pending' = pending
        /\ accKind # "metrics" \/ ~Loaded(Items)
    BY <1>6, Zenon DEF RunEnds, memVars
  <2>2. rows = {}
    BY <2>1, <1>1, ZenonT(60) DEF FlightInv
  <2>3. ProcTypes' /\ NothingForgottenAtExit'
    BY <2>1, <1>2, ZenonT(60) DEF ProcTypes, NothingForgottenAtExit
  <2>4. LastFlushInv'
    BY <2>1, <1>1, <1>3, Zenon DEF LastFlushInv
  <2> QED BY <2>1, <2>2, <2>3, <2>4, <1>2, QuietStep, Zenon DEF RestTypes
<1>7. CASE AccExit
  <2>1. /\ UNCHANGED <<accKind, memVars, flightVars, sinkVars, capVars, lastFailed,
                       row, accFaults, owed, lost, late, torn>>
        /\ age' = age /\ running = "ended" /\ running' = running
        /\ accPhase = "stop" /\ accPhase' = "exit" /\ producing' = producing /\ ~producing
        /\ slots' = slots /\ pending' = pending
        /\ ~Loaded(Items) \/ accKind \in {"metrics", "standalone"}
    BY <1>7, Zenon DEF AccExit, memVars
  <2>2. rows = {}
    BY <2>1, <1>1, ZenonT(60) DEF FlightInv
  <2>3. ProcTypes' /\ LastFlushInv'
    BY <2>1, <1>1, <1>2, Zenon DEF ProcTypes, LastFlushInv
  <2>4. NothingForgottenAtExit'
    <3> SUFFICES ASSUME NEW i \in Items, slots[i] + pending[i] # 0
                 PROVE  accKind = "standalone" \/ (accKind = "metrics" /\ i \in late)
      BY <2>1 DEF NothingForgottenAtExit
    <3>1. slots[i] # 0 \/ pending[i] # 0
      BY <1>2 DEF MemTypes
    <3> QED BY <3>1, <2>1, <1>1, <1>3, ZenonT(60) DEF LastFlushInv
  <2> QED BY <2>1, <2>2, <2>3, <2>4, <1>2, QuietStep, Zenon DEF RestTypes
<1> QED BY <1>4, <1>5, <1>6, <1>7, Zenon

------------------------------------------------------------------------------
\* The caps

\* The members of a cap under one key.
Under(S, k) == {p \in S : p[1] = k}

\* They are finitely many, and no more than in a larger cap.
LEMMA UnderSubset ==
    ASSUME NEW S, IsFiniteSet(S), NEW T \in SUBSET S, NEW k
    PROVE  /\ IsFiniteSet(Under(S, k)) /\ Cardinality(Under(S, k)) \in Nat
           /\ IsFiniteSet(Under(T, k)) /\ Cardinality(Under(T, k)) \in Nat
           /\ Cardinality(Under(T, k)) <= Cardinality(Under(S, k))
<1>1. Under(S, k) \in SUBSET S /\ Under(T, k) \in SUBSET Under(S, k)
  BY Zenon DEF Under
<1>2. IsFiniteSet(Under(S, k))
  BY <1>1, FS_Subset, Zenon
<1>3. IsFiniteSet(Under(T, k)) /\ Cardinality(Under(T, k)) <= Cardinality(Under(S, k))
  BY <1>1, <1>2, FS_Subset, Zenon
<1> QED BY <1>2, <1>3, FS_CardinalityType, Zenon

\* Admitting one more value keeps a cap: the value is in, or there is room.
LEMMA CapKept ==
    ASSUME NEW S, IsFiniteSet(S), NEW limit \in Nat, NEW k, NEW v,
           AdmitOne(S, k, v, limit),
           NEW j, Cardinality(Under(S, j)) <= limit
    PROVE  Cardinality(Under(S \cup {<<k, v>>}, j)) <= limit
<1> DEFINE T == Under(S, j)
           U == Under(S \cup {<<k, v>>}, j)
<1>1. IsFiniteSet(T) /\ Cardinality(T) \in Nat
  BY UnderSubset, Zenon
<1>2. CASE j # k \/ <<k, v>> \in S
  <2>1. U = T
    BY <1>2 DEF Under
  <2> QED BY <2>1, Zenon
<1>3. CASE j = k /\ <<k, v>> \notin S
  <2>1. U = T \cup {<<k, v>>} /\ <<k, v>> \notin T
    BY <1>3 DEF Under
  <2>2. Cardinality(T) < limit
    BY <1>3, Zenon DEF AdmitOne, Under
  <2>3. Cardinality(T \cup {<<k, v>>}) = Cardinality(T) + 1
    BY <1>1, <2>1, FS_AddElement, Zenon
  <2> HIDE DEF T, U
  <2>4. Cardinality(U) <= limit
    BY <1>1, <2>1, <2>2, <2>3
  <2> QED BY <2>4, Zenon DEF U
<1> QED BY <1>2, <1>3, Zenon

\* A set that is numbered by the values under one key is no larger.
LEMMA CountedByKey ==
    ASSUME NEW S, IsFiniteSet(S), NEW k, NEW limit \in Nat,
           Cardinality(Under(S, k)) <= limit,
           NEW V, \A v \in V : <<k, v>> \in S
    PROVE  Cardinality(V) <= limit
<1> DEFINE T == Under(S, k)
           f == [v \in V |-> <<k, v>>]
<1>1. IsFiniteSet(T) /\ Cardinality(T) \in Nat
  BY UnderSubset, Zenon
<1>2. f \in Injection(V, T)
  BY Zenon DEF Injection, IsInjective, Under
<1>3. IsFiniteSet(V) /\ Cardinality(V) <= Cardinality(T)
  <2> HIDE DEF f, T
  <2> QED BY <1>1, <1>2, FS_Injection, Zenon
<1>4. Cardinality(V) \in Nat
  BY <1>3, FS_CardinalityType, Zenon
<1> HIDE DEF T
<1>5. Cardinality(T) <= limit
  BY Zenon DEF T
<1> QED BY ONLY <1>1, <1>3, <1>4, <1>5, limit \in Nat

\* The image of a finite set is finite.
LEMMA BucketsFinite ==
    IsFiniteSet(Buckets) /\ Buckets \subseteq Nat
<1> DEFINE f == [i \in Items |-> ItemBucket[i]]
<1>1. f \in Surjection(Items, Buckets)
  BY Zenon DEF Buckets, Surjection
<1>2. IsFiniteSet(Items)
  BY AccAssumption, Zenon DEF AccAssumption
<1>3. IsFiniteSet(Buckets)
  <2> HIDE DEF f
  <2> QED BY <1>1, <1>2, FS_Surjection, Zenon
<1>4. Buckets \subseteq Nat
  BY AccAssumption, Zenon DEF AccAssumption, Buckets
<1> QED BY <1>3, <1>4, Zenon

\* The rows of an hour are among those the caps remember, so there are no more.
LEMMA RowsWithinCaps ==
    ASSUME AccTypeOK, CapsInv
    PROVE  RowsCapped
<1> SUFFICES ASSUME accKind \in Capped, NEW h \in BucketHours \ forgot
             PROVE  LET used == {row[i] : i \in {j \in Items : Hour(ItemBucket[j]) = h}} \ {<<0, 0>>}
                        named == {r \in used : r[2] # OtherName}
                        services == {r[1] : r \in used} \ {OtherName}
                    IN  /\ Cardinality(services) <= MaxServices
                        /\ \A s \in services : Cardinality({r \in named : r[1] = s}) <= MaxNames
  BY Zenon DEF RowsCapped
<1> DEFINE used == {row[i] : i \in {j \in Items : Hour(ItemBucket[j]) = h}} \ {<<0, 0>>}
           named == {r \in used : r[2] # OtherName}
           services == {r[1] : r \in used} \ {OtherName}
<1>1. /\ row \in [Items -> Nat \X Nat]
      /\ IsFiniteSet(capServices) /\ IsFiniteSet(capNames)
      /\ capServices \subseteq BucketHours \X Named
      /\ MaxServices \in Nat /\ MaxNames \in Nat
  BY AccAssumption, Zenon DEF AccAssumption, AccTypeOK
<1>2. /\ Cardinality(Under(capServices, h)) <= MaxServices
      /\ \A k \in BucketHours \X Named : Cardinality(Under(capNames, k)) <= MaxNames
  BY Zenon DEF CapsInv, Under
<1>3. ASSUME NEW r \in used
      PROVE  /\ r \in Nat \X Nat
             /\ r[1] # OtherName => <<h, r[1]>> \in capServices
             /\ r[2] # OtherName => <<<<h, r[1]>>, r[2]>> \in capNames
  <2>1. PICK i \in Items : Hour(ItemBucket[i]) = h /\ r = row[i] /\ r # <<0, 0>>
    BY Zenon
  <2> QED BY <2>1, <1>1, Zenon DEF CapsInv
<1>4. \A v \in services : <<h, v>> \in capServices /\ v \in Named
  <2>1. \A v \in services : <<h, v>> \in capServices
    BY <1>3, Zenon
  <2> QED BY <2>1, <1>1, Zenon
<1>5. Cardinality(services) <= MaxServices
  <2> HIDE DEF services
  <2> QED BY <1>1, <1>2, <1>4, CountedByKey, Zenon
<1>6. ASSUME NEW s \in services
      PROVE  Cardinality({r \in named : r[1] = s}) <= MaxNames
  <2> DEFINE R == {r \in named : r[1] = s}
             T == Under(capNames, <<h, s>>)
             f == [r \in R |-> <<<<h, s>>, r[2]>>]
  <2>1. <<h, s>> \in BucketHours \X Named
    BY <1>4, Zenon
  <2>2. Cardinality(T) <= MaxNames
    BY <1>2, <2>1, Zenon
  <2>3. f \in Injection(R, T)
    <3>1. \A r \in R : f[r] \in T
      BY <1>3, Zenon DEF Under
    <3>2. ASSUME NEW r \in R PROVE r = <<s, r[2]>> /\ f[r] = <<<<h, s>>, r[2]>>
      <4>1. r \in used /\ r[1] = s /\ f[r] = <<<<h, s>>, r[2]>>
        BY Zenon
      <4>2. r \in Nat \X Nat
        BY <4>1, <1>3, Zenon
      <4> QED BY ONLY <4>1, <4>2
    <3>3. \A q, r \in R : f[q] = f[r] => q = r
      BY ONLY <3>2, Zenon
    <3> QED BY <3>1, <3>3, Zenon DEF Injection, IsInjective
  <2>4. IsFiniteSet(T)
    BY <1>1, UnderSubset, Zenon
  <2> HIDE DEF R, T, f
  <2>5. IsFiniteSet(R) /\ Cardinality(R) <= Cardinality(T)
    BY <2>3, <2>4, FS_Injection, Zenon
  <2>6. Cardinality(R) \in Nat /\ Cardinality(T) \in Nat
    BY <2>4, <2>5, FS_CardinalityType, Zenon
  <2>7. Cardinality(R) <= MaxNames
    BY ONLY <2>2, <2>5, <2>6, <1>1
  <2> QED BY <2>7, Zenon DEF R
<1> QED BY <1>5, <1>6, Zenon

\* rollupCaps.admit gives the item a row and keeps the caps.
LEMMA Admitted ==
    ASSUME AccTypeOK, CapsInv, NEW i \in Items, Admit(i), accKind' = accKind
    PROVE  /\ row' \in [Items -> Nat \X Nat] /\ row'[i] # <<0, 0>>
           /\ \A j \in Items \ {i} : row'[j] = row[j]
           /\ CapTypes' /\ CapsInv'
<1> DEFINE h == Hour(ItemBucket[i])
           s == ItemService[i]
           n == ItemName[i]
<1>1. /\ h \in BucketHours /\ s \in Named /\ n \in Named
      /\ s \in Nat /\ s # 0 /\ n \in Nat /\ OtherName \in Nat /\ OtherName # 0
      /\ MaxServices \in Nat /\ MaxNames \in Nat
  BY AccAssumption DEF AccAssumption, BucketHours, Buckets, OtherName, Named
<1>2. CapTypes /\ row \in [Items -> Nat \X Nat]
  BY Zenon DEF AccTypeOK, CapTypes
<1>3. forgot' = forgot
  BY Zenon DEF Admit
<1>4. \/ /\ row' = [row EXCEPT ![i] = <<OtherName, OtherName>>]
         /\ capServices' = capServices /\ capNames' = capNames
      \/ /\ AdmitOne(capServices, h, s, MaxServices)
         /\ capServices' = capServices \cup {<<h, s>>}
         /\ AdmitOne(capNames, <<h, s>>, n, MaxNames)
         /\ row' = [row EXCEPT ![i] = <<s, n>>]
         /\ capNames' = capNames \cup {<<<<h, s>>, n>>}
      \/ /\ AdmitOne(capServices, h, s, MaxServices)
         /\ capServices' = capServices \cup {<<h, s>>}
         /\ row' = [row EXCEPT ![i] = <<s, OtherName>>]
         /\ capNames' = capNames
  BY Zenon DEF Admit
<1> HIDE DEF h, s, n
<1>5. PICK v \in Nat \X Nat : row' = [row EXCEPT ![i] = v] /\ v # <<0, 0>>
  BY <1>1, <1>4, Zenon
<1>6. /\ row' \in [Items -> Nat \X Nat] /\ row'[i] = v
      /\ \A j \in Items \ {i} : row'[j] = row[j]
  BY <1>2, <1>5, Zenon
<1>7. CapTypes'
  <2>1. IsFiniteSet(capServices \cup {<<h, s>>}) /\ IsFiniteSet(capNames \cup {<<<<h, s>>, n>>})
    BY <1>2, FS_AddElement, Zenon DEF CapTypes
  <2>2. <<h, s>> \in BucketHours \X Named /\ <<<<h, s>>, n>> \in (BucketHours \X Named) \X Named
    BY <1>1, Zenon
  <2>3. IsFiniteSet(capServices') /\ IsFiniteSet(capNames')
    BY <2>1, <1>4, <1>2, Zenon DEF CapTypes
  <2>4. capServices' \subseteq BucketHours \X Named /\ capNames' \subseteq (BucketHours \X Named) \X Named
    BY <2>2, <1>4, <1>2, Zenon DEF CapTypes
  <2> QED BY <2>3, <2>4, <1>3, <1>2, Zenon DEF CapTypes
<1>8. ASSUME accKind \in Capped, NEW g \in BucketHours
      PROVE  Cardinality(Under(capServices', g)) <= MaxServices
  <2>1. Cardinality(Under(capServices, g)) <= MaxServices
    BY <1>8, Zenon DEF CapsInv, Under
  <2>2. CASE capServices' = capServices
    BY <2>1, <2>2, Zenon
  <2>3. CASE /\ AdmitOne(capServices, h, s, MaxServices)
             /\ capServices' = capServices \cup {<<h, s>>}
    <3>1. IsFiniteSet(capServices) /\ MaxServices \in Nat
      BY <1>1, <1>2, Zenon DEF CapTypes
    <3>2. Cardinality(Under(capServices \cup {<<h, s>>}, g)) <= MaxServices
      BY ONLY <2>1, <2>3, <3>1, CapKept, Zenon
    <3> QED BY <3>2, <2>3, Zenon
  <2> QED BY <1>4, <2>2, <2>3, Zenon
<1>9. ASSUME accKind \in Capped, NEW g \in BucketHours \X Named
      PROVE  Cardinality(Under(capNames', g)) <= MaxNames
  <2>1. Cardinality(Under(capNames, g)) <= MaxNames
    BY <1>9, Zenon DEF CapsInv, Under
  <2>2. CASE capNames' = capNames
    BY <2>1, <2>2, Zenon
  <2>3. CASE /\ AdmitOne(capNames, <<h, s>>, n, MaxNames)
             /\ capNames' = capNames \cup {<<<<h, s>>, n>>}
    <3>1. IsFiniteSet(capNames) /\ MaxNames \in Nat
      BY <1>1, <1>2, Zenon DEF CapTypes
    <3>2. Cardinality(Under(capNames \cup {<<<<h, s>>, n>>}, g)) <= MaxNames
      BY ONLY <2>1, <2>3, <3>1, CapKept, Zenon
    <3> QED BY <3>2, <2>3, Zenon
  <2> QED BY <1>4, <2>2, <2>3, Zenon
<1>10. capServices \subseteq capServices' /\ capNames \subseteq capNames'
  BY <1>4, Zenon
<1>11. ASSUME accKind \in Capped, NEW j \in Items, row'[j] # <<0, 0>>,
              Hour(ItemBucket[j]) \notin forgot'
       PROVE  /\ row'[j][1] # OtherName => <<Hour(ItemBucket[j]), row'[j][1]>> \in capServices'
              /\ row'[j][2] # OtherName =>
                    <<<<Hour(ItemBucket[j]), row'[j][1]>>, row'[j][2]>> \in capNames'
  <2>1. CASE j = i
    BY <2>1, <1>2, <1>4 DEF h
  <2>2. CASE j # i
    <3>1. row'[j] = row[j]
      BY <2>2, <1>6, Zenon
    <3>2. /\ row[j][1] # OtherName => <<Hour(ItemBucket[j]), row[j][1]>> \in capServices
          /\ row[j][2] # OtherName =>
                <<<<Hour(ItemBucket[j]), row[j][1]>>, row[j][2]>> \in capNames
      BY <1>11, <1>3, <3>1, Zenon DEF CapsInv
    <3> QED BY <3>1, <3>2, <1>10, Zenon
  <2> QED BY <2>1, <2>2, Zenon
<1>12. CapsInv'
  BY <1>8, <1>9, <1>11, Zenon DEF CapsInv, Under
<1> QED BY <1>5, <1>6, <1>7, <1>12, Zenon

\* rollupCaps.prune forgets whole hours.
LEMMA Pruned ==
    ASSUME AccTypeOK, CapsInv, Prune, UNCHANGED <<accKind, row>>
    PROVE  CapTypes' /\ CapsInv'
<1>1. PICK H \in SUBSET BucketHours :
          /\ capServices' = {p \in capServices : p[1] \notin H}
          /\ capNames' = {p \in capNames : p[1][1] \notin H}
          /\ forgot' = forgot \cup H
  BY Zenon DEF Prune
<1>2. CapTypes /\ row \in [Items -> Nat \X Nat] /\ MaxServices \in Nat /\ MaxNames \in Nat
  BY AccAssumption, Zenon DEF AccAssumption, AccTypeOK, CapTypes
<1>3. capServices' \in SUBSET capServices /\ capNames' \in SUBSET capNames
  BY <1>1, Zenon
<1>4. IsFiniteSet(capServices') /\ IsFiniteSet(capNames')
  BY <1>2, <1>3, FS_Subset, Zenon DEF CapTypes
<1>5. CapTypes'
  BY <1>1, <1>2, <1>3, <1>4, Zenon DEF CapTypes
<1>7. ASSUME accKind \in Capped, NEW g \in BucketHours
      PROVE  Cardinality(Under(capServices', g)) <= MaxServices
  <2>1. Cardinality(Under(capServices, g)) <= MaxServices
    BY <1>7, Zenon DEF CapsInv, Under
  <2>2. IsFiniteSet(capServices) /\ MaxServices \in Nat /\ capServices' \in SUBSET capServices
    BY <1>2, <1>3, Zenon DEF CapTypes
  <2>3. /\ Cardinality(Under(capServices, g)) \in Nat /\ Cardinality(Under(capServices', g)) \in Nat
        /\ Cardinality(Under(capServices', g)) <= Cardinality(Under(capServices, g))
    BY ONLY <2>2, UnderSubset, Zenon
  <2> QED BY ONLY <2>1, <2>2, <2>3
<1>8. ASSUME accKind \in Capped, NEW g \in BucketHours \X Named
      PROVE  Cardinality(Under(capNames', g)) <= MaxNames
  <2>1. Cardinality(Under(capNames, g)) <= MaxNames
    BY <1>8, Zenon DEF CapsInv, Under
  <2>2. IsFiniteSet(capNames) /\ MaxNames \in Nat /\ capNames' \in SUBSET capNames
    BY <1>2, <1>3, Zenon DEF CapTypes
  <2>3. /\ Cardinality(Under(capNames, g)) \in Nat /\ Cardinality(Under(capNames', g)) \in Nat
        /\ Cardinality(Under(capNames', g)) <= Cardinality(Under(capNames, g))
    BY ONLY <2>2, UnderSubset, Zenon
  <2> QED BY ONLY <2>1, <2>2, <2>3
<1>9. ASSUME accKind \in Capped, NEW j \in Items, row[j] # <<0, 0>>,
             Hour(ItemBucket[j]) \notin forgot'
      PROVE  /\ row[j][1] # OtherName => <<Hour(ItemBucket[j]), row[j][1]>> \in capServices'
             /\ row[j][2] # OtherName =>
                   <<<<Hour(ItemBucket[j]), row[j][1]>>, row[j][2]>> \in capNames'
  <2>1. Hour(ItemBucket[j]) \notin forgot /\ Hour(ItemBucket[j]) \notin H
    BY <1>1, <1>9, Zenon
  <2>2. /\ row[j][1] # OtherName => <<Hour(ItemBucket[j]), row[j][1]>> \in capServices
        /\ row[j][2] # OtherName =>
              <<<<Hour(ItemBucket[j]), row[j][1]>>, row[j][2]>> \in capNames
    BY <1>9, <2>1, Zenon DEF CapsInv
  <2> QED BY <2>1, <2>2, <1>1, Zenon
<1> QED BY <1>5, <1>7, <1>8, <1>9, Zenon DEF CapsInv, Under

------------------------------------------------------------------------------
\* The rows of a flush

\* Rows sort by bucket first, and a marker is the first row of its bucket.
LEMMA BeforeMarker ==
    ASSUME NEW b \in Nat, NEW j \in Nat \X Nat \X Nat \X Nat,
           NEW k \in Nat \X Nat \X Nat \X Nat, k[1] = b, KeyLess(j, Marker(b))
    PROVE  KeyLess(j, k)
<1>1. PICK n \in 1..4 : j[n] < Marker(b)[n] /\ \A m \in 1..(n - 1) : j[m] = Marker(b)[m]
  BY Zenon DEF KeyLess
<1>2. j[1] \in Nat /\ j[2] \in Nat /\ j[3] \in Nat /\ j[4] \in Nat
  BY Zenon
<1>3. /\ Marker(b)[1] = b /\ Marker(b)[2] = 0
      /\ Marker(b)[3] = 0 /\ Marker(b)[4] = 0
  BY Zenon DEF Marker
<1>4. n = 1
  <2>1. n = 1 \/ n = 2 \/ n = 3 \/ n = 4
    OBVIOUS
  <2> QED BY <1>1, <1>2, <1>3, <2>1
<1>5. j[1] < k[1]
  BY <1>1, <1>3, <1>4, Zenon
<1>6. \A m \in 1..(1 - 1) : j[m] = k[m]
  OBVIOUS
<1> QED BY <1>5, <1>6 DEF KeyLess

\* A chunk that holds a row of a bucket holds its marker, unless the marker was
\* written before: no more rows stand before the marker.
LEMMA MarkerFirst ==
    ASSUME AccTypeOK, NEW n \in Nat, NEW k \in FirstRows(n),
           NEW b \in Nat, k[1] = b, Marker(b) \in rows
    PROVE  Marker(b) \in FirstRows(n)
<1> DEFINE A == {j \in rows : KeyLess(j, Marker(b))}
           B == {j \in rows : KeyLess(j, k)}
<1>1. /\ rows \subseteq Nat \X Nat \X Nat \X Nat
      /\ IsFiniteSet(rows)
      /\ k \in rows /\ Cardinality(B) < n
  BY Zenon DEF AccTypeOK, FirstRows
<1>2. A \subseteq B
  BY <1>1, BeforeMarker, Zenon
<1>3. IsFiniteSet(A) /\ IsFiniteSet(B) /\ Cardinality(A) <= Cardinality(B)
  <2>1. A \in SUBSET rows /\ B \in SUBSET rows /\ A \in SUBSET B
    BY <1>2, Zenon
  <2> HIDE DEF A, B
  <2>2. IsFiniteSet(B)
    BY <1>1, <2>1, FS_Subset, Zenon
  <2> QED BY <1>1, <2>1, <2>2, FS_Subset, Zenon
<1>4. Cardinality(A) \in Nat /\ Cardinality(B) \in Nat
  BY <1>3, FS_CardinalityType, Zenon
<1>5. Cardinality(A) < n
  <2> HIDE DEF A, B
  <2> QED BY <1>1, <1>3, <1>4
<1> QED BY <1>5, Zenon DEF FirstRows

\* The first rows of a flush are rows of it.
LEMMA ChunkOfRows == \A n : FirstRows(n) \subseteq rows
  BY Zenon DEF FirstRows

\* The rows of a flush are finitely many.
LEMMA RowsTaken ==
    ASSUME AccTypeOK, NEW S \in SUBSET Items, TakeSlots(S)
    PROVE  IsFiniteSet(rows')
<1> DEFINE taken == Plus(Only(slots, S), pending)
           J == {j \in Items : taken[j] # 0}
           Key(i) == <<ItemBucket[i], row[i][1], row[i][2], IF pending[i] # 0 THEN 1 ELSE 0>>
           A == {Key(i) : i \in J}
           B == {Marker(b) : b \in marks}
<1>1. rows' = A \cup B
  BY Zenon DEF TakeSlots
<1>2. marks \in SUBSET Buckets
  BY Zenon DEF AccTypeOK
<1> HIDE DEF taken, Key
<1>3. IsFiniteSet(A)
  <2> DEFINE f == [i \in J |-> Key(i)]
  <2>1. f \in Surjection(J, A)
    BY Zenon DEF Surjection
  <2>2. IsFiniteSet(J)
    <3>1. J \in SUBSET Items /\ IsFiniteSet(Items)
      BY AccAssumption, Zenon DEF AccAssumption
    <3> QED BY <3>1, FS_Subset, Zenon
  <2> HIDE DEF f, A, J
  <2> QED BY <2>1, <2>2, FS_Surjection, Zenon
<1>4. IsFiniteSet(B)
  <2> DEFINE f == [b \in marks |-> Marker(b)]
  <2>1. f \in Surjection(marks, B)
    BY Zenon DEF Surjection
  <2>2. IsFiniteSet(marks)
    BY <1>2, BucketsFinite, FS_Subset, Zenon
  <2> HIDE DEF f, B
  <2> QED BY <2>1, <2>2, FS_Surjection, Zenon
<1> HIDE DEF A, B
<1> QED BY <1>1, <1>3, <1>4, FS_Union, Zenon

------------------------------------------------------------------------------
\* The books

\* No books are out of balance at start.
LEMMA AccInitial == AccInit => Books
<1> SUFFICES ASSUME AccInit PROVE Books
  BY Zenon
<1>1. None \in [Items -> Int] /\ \A i \in Items : None[i] = 0
  BY DEF None
<1>2. AccTypeOK
  <2>1. row \in [Items -> Nat \X Nat] /\ age \in [Buckets -> {"open", "closed", "old"}]
    BY Zenon DEF AccInit
  <2>2. accKind \in AllKinds
    BY AccAssumption, Zenon DEF AccAssumption, AccInit
  <2>3. IsFiniteSet({})
    BY FS_EmptySet, Zenon
  <2> QED BY <2>1, <2>2, <2>3, <1>1, Zenon DEF AccInit, AccTypeOK
<1>3. EachCountOnce
  BY <1>1 DEF AccInit, EachCountOnce
<1>4. OnlyRedisTears /\ NothingForgottenAtExit
  BY Zenon DEF AccInit, OnlyRedisTears, NothingForgottenAtExit
<1>5. FlightInv
  BY <1>1, Zenon DEF AccInit, FlightInv
<1>6. LastFlushInv
  BY <1>1, Zenon DEF AccInit, LastFlushInv
<1>7. MarksInv
  BY <1>1, Zenon DEF AccInit, MarksInv
<1>8. CapsInv
  <2>1. \A k : {p \in {} : p[1] = k} = {}
    BY Zenon
  <2>2. \A k : Cardinality({p \in {} : p[1] = k}) = 0
    BY <2>1, FS_EmptySet, Zenon
  <2>3. MaxServices \in Nat /\ MaxNames \in Nat
    BY AccAssumption, Zenon DEF AccAssumption
  <2>4. \A i \in Items : row[i] = <<0, 0>>
    BY Zenon DEF AccInit
  <2>5. capServices = {} /\ capNames = {}
    BY Zenon DEF AccInit
  <2> QED BY <2>2, <2>3, <2>4, <2>5 DEF CapsInv
<1> QED BY <1>2, <1>3, <1>4, <1>5, <1>6, <1>7, <1>8, Zenon DEF Books

\* Every step of an accumulator keeps the books.
LEMMA BooksKept == Books /\ [AccNext]_accVars => Books'
<1> SUFFICES ASSUME Books, [AccNext]_accVars PROVE Books'
  BY Zenon
<1>1. AccTypeOK /\ CapsInv
  BY Zenon DEF Books
<1>2. RestTypes /\ CapTypes /\ MemTypes /\ ProcTypes
  BY <1>1, TypeParts, Zenon
<1>3. ASSUME NEW i \in Items, Count(i), Record(i), marks' = marks, accKind \notin Capped
      PROVE  Books'
  <2>1. /\ ItemService[i] \in Nat /\ ItemService[i] # 0 /\ ItemName[i] \in Nat
    BY AccAssumption, SMTT(30) DEF AccAssumption, OtherName, Named
  <2>2. row' = [row EXCEPT ![i] = <<ItemService[i], ItemName[i]>>] /\ UNCHANGED capVars
    BY <1>3, ZenonT(60) DEF Record
  <2>3. /\ row' \in [Items -> Nat \X Nat] /\ row'[i] # <<0, 0>>
        /\ \A j \in Items \ {i} : row'[j] = row[j]
    BY <2>1, <2>2, <1>2, ZenonT(60) DEF RestTypes
  <2>4. accKind' = accKind
    BY <1>3, ZenonT(60) DEF Count
  <2>5. CapTypes' /\ CapsInv'
    BY <2>2, <2>4, <1>2, <1>3, Zenon DEF CapTypes, CapsInv, capVars
  <2>6. accKind # "edges"
    BY <1>3, Zenon DEF Capped
  <2> QED BY <1>3, <2>3, <2>5, <2>6, <1>2, AddStep, Zenon DEF MemTypes
<1>4. ASSUME NEW i \in Items, Count(i), Admit(i), marks' \subseteq Buckets, marks \subseteq marks',
             accKind = "edges" => ItemBucket[i] \in marks'
      PROVE  Books'
  <2>1. accKind' = accKind
    BY <1>4, Zenon DEF Count
  <2> QED BY <1>1, <1>4, <2>1, Admitted, AddStep, ZenonT(60)
<1>5. ASSUME NEW i \in Items,
             \/ AggregatesAdd(i) \/ RollupsAdd(i) \/ EdgesAdd(i) \/ MetricsAdd(i)
             \/ TallyAdd(i) \/ TallyTakeBack(i)
      PROVE  Books'
  <2>1. CASE AggregatesAdd(i) \/ MetricsAdd(i) \/ TallyAdd(i)
    <3>1. Count(i) /\ Record(i) /\ marks' = marks /\ accKind \notin Capped
      BY <2>1, Zenon DEF AggregatesAdd, MetricsAdd, TallyAdd, Capped, Tallies
    <3> QED BY <3>1, <1>3, Zenon
  <2>2. CASE RollupsAdd(i)
    <3>1. /\ Count(i) /\ Admit(i) /\ marks' = marks /\ accKind # "edges"
      BY <2>2, Zenon DEF RollupsAdd
    <3>2. marks' \subseteq Buckets
      BY <3>1, <1>2, Zenon DEF MemTypes
    <3> QED BY <3>1, <3>2, <1>4, Zenon
  <2>3. CASE EdgesAdd(i)
    <3>1. /\ Count(i) /\ Admit(i) /\ marks' = marks \cup {ItemBucket[i]}
      BY <2>3, Zenon DEF EdgesAdd
    <3>2. marks' \subseteq Buckets
      BY <3>1, <1>2, Zenon DEF MemTypes, Buckets
    <3> QED BY <3>1, <3>2, <1>4, Zenon
  <2>4. CASE TallyTakeBack(i)
    BY <2>4, TakeBackStep, Zenon
  <2> QED BY <1>5, <2>1, <2>2, <2>3, <2>4, Zenon
<1>6. ASSUME TakeCounts, UNCHANGED <<accKind, row>>
      PROVE  /\ CapTypes' /\ CapsInv' /\ IsFiniteSet(rows')
             /\ \E S \in SUBSET Items : TakeSlots(S) /\ (accKind # "metrics" => S = Items)
  <2>1. CASE AggregatesTake \/ TallyTake
    <3>1. TakeSlots(Items) /\ UNCHANGED capVars
      BY <2>1, Zenon DEF AggregatesTake, TallyTake
    <3>2. CapTypes' /\ CapsInv'
      BY <3>1, <1>1, <1>2, <1>6, CapsUntouched, Zenon
    <3>3. IsFiniteSet(rows')
      BY <3>1, <1>1, RowsTaken, Zenon
    <3> QED BY <3>1, <3>2, <3>3, Zenon
  <2>2. CASE RollupsTake \/ EdgesTake
    <3>1. TakeSlots(Items) /\ Prune
      BY <2>2, Zenon DEF RollupsTake, EdgesTake
    <3>2. CapTypes' /\ CapsInv'
      BY <3>1, <1>1, <1>6, Pruned, Zenon
    <3>3. IsFiniteSet(rows')
      BY <3>1, <1>1, RowsTaken, Zenon
    <3> QED BY <3>1, <3>2, <3>3, Zenon
  <2>3. CASE MetricsTake
    <3> DEFINE closed == {i \in Items : age[ItemBucket[i]] # "open"}
    <3>1. TakeSlots(closed) /\ UNCHANGED capVars /\ accKind = "metrics"
      BY <2>3, Zenon DEF MetricsTake
    <3>2. closed \in SUBSET Items
      BY Zenon
    <3> HIDE DEF closed
    <3>3. CapTypes' /\ CapsInv'
      BY <3>1, <1>1, <1>2, <1>6, CapsUntouched, Zenon
    <3>4. IsFiniteSet(rows')
      BY <3>1, <3>2, <1>1, RowsTaken, Zenon
    <3> QED BY <3>1, <3>2, <3>3, <3>4, Zenon
  <2> QED BY <1>6, <2>1, <2>2, <2>3, Zenon DEF TakeCounts
<1>7. CASE AccFlush
  <2>1. /\ running = "wait" /\ accPhase \in {"run", "stop"} /\ TakeCounts
        /\ running' = "flush" /\ accPhase' = accPhase
        /\ UNCHANGED <<accKind, sinkVars, producing, lastFailed, row, age, accFaults,
                       owed, lost, late, torn>>
    BY <1>7, Zenon DEF AccFlush
  <2>2. PICK S \in SUBSET Items : TakeSlots(S) /\ (accKind # "metrics" => S = Items)
    BY <2>1, <1>6, Zenon
  <2>3. CapTypes' /\ CapsInv' /\ IsFiniteSet(rows')
    BY <2>1, <1>6, Zenon
  <2>4. FlushStarts(S)
    BY <2>1, Zenon DEF FlushStarts
  <2> QED BY <2>1, <2>2, <2>3, <2>4, TakeStep, Zenon
<1>8. CASE FlushAll
  <2>1. /\ running = "wait" /\ accPhase = "stop" /\ accKind = "metrics" /\ TakeSlots(Items)
        /\ running' = "last" /\ accPhase' = accPhase /\ UNCHANGED capVars
        /\ UNCHANGED <<accKind, sinkVars, producing, lastFailed, row, age, accFaults,
                       owed, lost, late, torn>>
    BY <1>8, Zenon DEF FlushAll
  <2>2. CapTypes' /\ CapsInv' /\ IsFiniteSet(rows')
    BY <2>1, <1>1, <1>2, CapsUntouched, RowsTaken, Zenon
  <2>3. FlushStarts(Items)
    BY <2>1, Zenon DEF FlushStarts
  <2> QED BY <2>1, <2>2, <2>3, TakeStep, Zenon
<1>9. CASE FinalFlush
  <2>1. /\ running = "ended" /\ accPhase = "stop" /\ ~producing /\ TakeCounts
        /\ accKind \notin {"metrics", "standalone"}
        /\ running' = running /\ accPhase' = "last"
        /\ UNCHANGED <<accKind, sinkVars, producing, lastFailed, row, age, accFaults,
                       owed, lost, late, torn>>
    BY <1>9, Zenon DEF FinalFlush, FlushOnStop, FlushSpanRollupsOnStop, FinishLedger, Tallies
  <2>2. PICK S \in SUBSET Items : TakeSlots(S) /\ (accKind # "metrics" => S = Items)
    BY <2>1, <1>6, Zenon
  <2>3. CapTypes' /\ CapsInv' /\ IsFiniteSet(rows')
    BY <2>1, <1>6, Zenon
  <2>4. FlushStarts(S)
    BY <2>1, <2>2, Zenon DEF FlushStarts
  <2> QED BY <2>1, <2>2, <2>3, <2>4, TakeStep, Zenon
<1>10. CASE AccWrite
  <2>3. ASSUME NEW C \in SUBSET rows, Commit(C) PROVE IsFiniteSet(rows')
    <3>1. rows' \in SUBSET rows /\ IsFiniteSet(rows)
      BY <2>3, <1>1, Zenon DEF Commit, AccTypeOK
    <3> QED BY <3>1, FS_Subset, Zenon
  <2>1. CASE accKind = "writer" /\ Commit(rows)
    BY <2>1, <2>3, CommitStep, Zenon
  <2>2. CASE accKind # "writer" /\ Commit(FirstRows(ChunkRows))
    <3> DEFINE C == FirstRows(ChunkRows)
    <3>1. C \in SUBSET rows
      BY ChunkOfRows, Zenon
    <3>2. ASSUME NEW k \in C, Marker(k[1]) \in rows PROVE Marker(k[1]) \in C
      <4>1. k \in Nat \X Nat \X Nat \X Nat
        BY <3>1, <1>1, Zenon DEF AccTypeOK
      <4>2. k[1] \in Nat /\ ChunkRows \in Nat
        BY <4>1, AccAssumption, Zenon DEF AccAssumption
      <4> QED BY <3>2, <4>2, <1>1, MarkerFirst, Zenon
    <3> HIDE DEF C
    <3>3. Commit(C)
      BY <2>2, Zenon DEF C
    <3> QED BY <2>2, <2>3, <3>1, <3>2, <3>3, CommitStep, Zenon
  <2> QED BY <1>10, <2>1, <2>2, Zenon DEF AccWrite, UpsertAggregates, AddSpanRollups, AddSpanEdges,
             UpsertMetricRollups, PublishSpanLedger, AddSpanLedgerRows
<1>11. CASE UNCHANGED accVars
  <2>1. /\ UNCHANGED <<accKind, memVars, flightVars, sinkVars, capVars, lastFailed,
                       row, accFaults, owed, lost, late, torn>>
        /\ age' = age /\ accPhase' = accPhase /\ running' = running /\ producing' = producing
        /\ lastFailed' = lastFailed /\ accKind' = accKind /\ late' = late
        /\ slots' = slots /\ pending' = pending
    BY <1>11, Zenon DEF accVars, procVars, memVars
  <2>2. LastFlushInv /\ NothingForgottenAtExit
    BY Zenon DEF Books
  <2>4. ProcTypes'
    BY ONLY <2>1, <1>2, Zenon DEF ProcTypes
  <2>5. LastFlushInv'
    BY ONLY <2>1, <2>2, Zenon DEF LastFlushInv
  <2>6. NothingForgottenAtExit'
    BY ONLY <2>1, <2>2, SMTT(30) DEF NothingForgottenAtExit
  <2>3. rows # {} => running' \in {"flush", "last"} \/ accPhase' = "last"
    BY <2>1, Zenon DEF Books, FlightInv
  <2> QED BY <2>1, <2>3, <2>4, <2>5, <2>6, <1>2, QuietStep, ZenonT(60) DEF RestTypes
<1>12. CASE AccFails \/ AccReplyLost
  <2>1. rows' = {}
    BY <1>12 DEF AccFails, AccReplyLost, FlushFails
  <2> QED BY <2>1, <1>12, FS_EmptySet, FailStep, Zenon
<1> QED BY <1>5, <1>7, <1>8, <1>9, <1>10, <1>11, <1>12, ProcessSteps, Zenon DEF AccNext

\* The books hold what AccountsBalance promises.
LEMMA BooksBalance == Books => AccountsBalance
<1> SUFFICES ASSUME Books PROVE AccountsBalance
  BY Zenon
<1>1. RowsCapped
  BY RowsWithinCaps, Zenon DEF Books
<1>2. MarkerWithCalls
  BY DEF Books, MarksInv, MarkerWithCalls
<1> QED BY <1>1, <1>2, Zenon DEF Books, AccountsBalance

\* For any items, buckets, caps, chunk size and number of failing writes, the
\* accumulators lose and double no count, forget nothing at exit in silence,
\* write a marker no later than the calls of its bucket, and keep their caps
\* (Flush, requeue, Take, Merge, admit).
THEOREM AccountsInvariant == AccSpec => []AccountsBalance
<1>1. AccSpec => []Books
  BY AccInitial, BooksKept, PTL DEF AccSpec
<1> QED BY <1>1, BooksBalance, PTL

\* Unless a report to Redis was torn, each count is in one place: in memory, on
\* its way, in the store, or reported as lost, however flushes fail half-way.
THEOREM CountedOnce == AccSpec => []EachCountOnce
<1>1. AccountsBalance => EachCountOnce
  BY Zenon DEF AccountsBalance
<1> QED BY <1>1, AccountsInvariant, PTL

\* An exit leaves no count behind in silence but late metric points and the span
\* rollups of standalone mode (FlushOnStop, flushSpanRollupsOnStop, flushAll).
THEOREM ExitForgetsNothing == AccSpec => []NothingForgottenAtExit
<1>1. AccountsBalance => NothingForgottenAtExit
  BY Zenon DEF AccountsBalance
<1> QED BY <1>1, AccountsInvariant, PTL
==============================================================================
