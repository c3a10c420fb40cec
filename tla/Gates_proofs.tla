---------------------------- MODULE Gates_proofs ----------------------------
(* Proofs about the gates in front of ingest, for any number of clients, any *)
(* bucket size, any lifetimes and any bounds.                                *)
EXTENDS Gates, TLAPS

\* What Min picks of two integers.
LEMMA MinOfTwo ==
    ASSUME NEW a \in Int, NEW b \in Int
    PROVE  Min({a, b}) \in {a, b} /\ Min({a, b}) <= a /\ Min({a, b}) <= b
<1>1. \E x \in {a, b} : \A y \in {a, b} : x =< y
  OBVIOUS
<1> QED BY <1>1, Zenon DEF Min

\* A refill never takes a token away and stops at the bucket's size.
LEMMA RefillBounds ==
    ASSUME GtTypeOK, NEW b \in [tokens : -1..MaxTokens, at : 0..GtMaxTime], b.at <= gtClock, b.tokens >= 0
    PROVE  Refilled(b) \in 0..MaxTokens /\ Refilled(b) <= b.tokens + gtClock - b.at
<1>1. MaxTokens \in Nat /\ GtMaxTime \in Nat /\ gtClock \in Int /\ b.tokens \in 0..MaxTokens /\ b.at \in Int
  BY GateAssumption DEF GtTypeOK
<1>2. b.tokens + gtClock - b.at \in Nat
  BY <1>1
<1> DEFINE u == b.tokens + gtClock - b.at
           m == Min({MaxTokens, u})
<1> HIDE DEF u
<1>3. u \in Nat
  BY <1>2, Zenon DEF u
<1>4. m \in {MaxTokens, u} /\ m <= MaxTokens /\ m <= u
  <2>1. MaxTokens \in Int /\ u \in Int
    BY <1>1, <1>3
  <2> QED BY <2>1, MinOfTwo, Zenon
<1> HIDE DEF m
<1>5. m \in 0..MaxTokens
  BY <1>1, <1>3, <1>4
<1> QED BY <1>4, <1>5, Zenon DEF Refilled, m, u

\* What is known of an element of a sequence.
LEMMA Element ==
    ASSUME NEW S, NEW s \in Seq(S), NEW i \in DOMAIN s
    PROVE  s[i] \in S /\ i \in 1..Len(s) /\ Len(s) \in Nat
  OBVIOUS

\* A sequence with one more element.
LEMMA Appended ==
    ASSUME NEW m \in Nat, NEW s \in Seq(0..m), NEW e \in Int, NEW t, t = Append(s, e)
    PROVE  /\ Len(s) \in Nat /\ Len(t) = Len(s) + 1 /\ DOMAIN t = 1..(Len(s) + 1)
           /\ DOMAIN s = 1..Len(s)
           /\ \A i \in 1..Len(s) : t[i] = s[i] /\ s[i] \in Int
           /\ t[Len(s) + 1] = e
<1>1. \A i \in 1..Len(s) : s[i] \in Int
  <2>1. ASSUME NEW i \in 1..Len(s) PROVE s[i] \in 0..m
    OBVIOUS
  <2> QED BY <2>1
<1>2. s \in Seq(Int) /\ Len(s) \in Nat /\ DOMAIN s = 1..Len(s)
  BY <1>1
<1> QED BY <1>1, <1>2

\* All gates start sound.
LEMMA GtInitial == GtInit => GatesSound
<1> SUFFICES ASSUME GtInit PROVE GatesSound
  BY Zenon
<1> USE GateAssumption DEF GtInit
<1>1. GtTypeOK
  <2>1. limiters \in [Clients -> [tokens : -1..MaxTokens, at : 0..GtMaxTime]]
    BY DEF NoBucket
  <2>2. /\ prints \in [KeyPrints -> [logged : -1..GtMaxTime, suppressed : 0..MaxGtRequests]]
        /\ \A x \in KeyPrints : prints[x].suppressed <= gtRequests
    BY DEF NoPrint
  <2>3. reading \in [full : BOOLEAN, ok : BOOLEAN, at : Int] /\ roomAt \in Int
    BY DEF NeverRead
  <2>4. {diskFull, blindNow, admitted, chatty} \subseteq BOOLEAN
    BY Zenon
  <2>5. allowed \in [Clients -> Seq(0..GtMaxTime)] /\ lineAt \in [KeyPrints -> -1..GtMaxTime]
    OBVIOUS
  <2>6. {refusals, reported, forgotten} \subseteq [KeyPrints -> Nat]
    OBVIOUS
  <2> QED BY <2>1, <2>2, <2>3, <2>4, <2>5, <2>6 DEF GtTypeOK
<1>2. LimitKept /\ BucketInv
  BY DEF LimitKept, BucketInv, NoBucket
<1>3. AdmittedWithRoom /\ ReadingInv
  BY DEF AdmittedWithRoom, ReadingInv, NeverRead
<1>4. RefusalsCounted /\ RefusalsShow
  BY DEF RefusalsCounted, RefusalsShow, NoPrint
<1> QED BY <1>1, <1>2, <1>3, <1>4, Zenon DEF GatesSound

\* What a request of a client leaves in its bucket.
LEMMA AllowEffect ==
    ASSUME GtTypeOK, BucketInv, NEW c \in Clients, Allow(c)
    PROVE  \E n \in 0..MaxTokens, took \in {0, 1} :
               /\ limiters' = [limiters EXCEPT ![c] = [tokens |-> n, at |-> gtClock]]
               /\ allowed' = IF took = 1 THEN [allowed EXCEPT ![c] = Append(@, gtClock)] ELSE allowed
               /\ \A i \in DOMAIN allowed[c] :
                      Len(allowed[c]) - i + 1 + allowed[c][i] + took <= MaxTokens - n + gtClock
               /\ n + took <= MaxTokens
<1> DEFINE b == IF limiters[c] = NoBucket THEN [tokens |-> MaxTokens, at |-> gtClock] ELSE limiters[c]
           t == Refilled(b)
<1>1. /\ MaxTokens \in Nat \ {0} /\ GtMaxTime \in Nat /\ gtClock \in 0..GtMaxTime
      /\ limiters[c] \in [tokens : -1..MaxTokens, at : 0..GtMaxTime]
      /\ allowed[c] \in Seq(0..GtMaxTime)
  BY GateAssumption, Zenon DEF GtTypeOK
<1>n. MaxTokens \in Int /\ gtClock \in Int /\ MaxTokens >= 0
  BY <1>1
<1>2. b \in [tokens : -1..MaxTokens, at : 0..GtMaxTime] /\ b.at <= gtClock /\ b.tokens >= 0
  BY <1>1 DEF BucketInv
<1>3. t \in 0..MaxTokens /\ t <= b.tokens + gtClock - b.at
  BY <1>2, RefillBounds, Zenon
<1>4. /\ limiters' = [limiters EXCEPT ![c] = [tokens |-> IF t >= 1 THEN t - 1 ELSE t, at |-> gtClock]]
      /\ allowed' = IF t >= 1 THEN [allowed EXCEPT ![c] = Append(@, gtClock)] ELSE allowed
  BY Zenon DEF Allow
<1> HIDE DEF b, t
<1>5. ASSUME NEW i \in DOMAIN allowed[c]
      PROVE  Len(allowed[c]) - i + 1 + allowed[c][i] <= MaxTokens - t + gtClock
  <2>5. Len(allowed[c]) \in Nat /\ i \in 1..Len(allowed[c]) /\ allowed[c][i] \in 0..GtMaxTime
    BY <1>1, Element, Zenon
  <2>1. Len(allowed[c]) \in Nat /\ i \in Nat /\ allowed[c][i] \in Nat
    BY <1>1, <2>5
  <2>2. Len(allowed[c]) - i + 1 + allowed[c][i] <= Paid(c)
    BY Zenon DEF BucketInv
  <2> DEFINE v == Len(allowed[c]) - i + 1 + allowed[c][i]
  <2>3. CASE limiters[c] = NoBucket
    <3>1. Paid(c) = gtClock
      BY <2>3, Zenon DEF Paid
    <3>2. v \in Int /\ v <= gtClock
      BY <2>1, <2>2, <3>1
    <3>4. t \in Int /\ t <= MaxTokens
      BY <1>3, <1>n
    <3> HIDE DEF v
    <3>3. v <= MaxTokens - t + gtClock
      BY ONLY <1>n, <3>2, <3>4
    <3> QED BY <3>3, Zenon DEF v
  <2>4. CASE limiters[c] # NoBucket
    <3>1. Paid(c) = MaxTokens - b.tokens + b.at /\ b.tokens \in Int /\ b.at \in Int
      BY <1>2, <2>4 DEF Paid, b
    <3>2. v \in Int /\ v <= MaxTokens - b.tokens + b.at
      BY <2>1, <2>2, <3>1
    <3>4. t \in Int /\ t <= b.tokens + gtClock - b.at
      BY <1>3
    <3> HIDE DEF v
    <3>3. v <= MaxTokens - t + gtClock
      BY ONLY <1>n, <3>1, <3>2, <3>4
    <3> QED BY <3>3, Zenon DEF v
  <2> QED BY <2>3, <2>4, Zenon
<1>6. ASSUME NEW i \in DOMAIN allowed[c]
      PROVE  Len(allowed[c]) - i + 1 + allowed[c][i] \in Int
  <2>5. Len(allowed[c]) \in Nat /\ i \in 1..Len(allowed[c]) /\ allowed[c][i] \in 0..GtMaxTime
    BY <1>1, Element, Zenon
  <2> QED BY <1>1, <2>5
<1>8. CASE t >= 1
  <2>1. t - 1 \in 0..MaxTokens /\ t - 1 + 1 <= MaxTokens
    BY <1>1, <1>3, <1>8
  <2>2. ASSUME NEW i \in DOMAIN allowed[c]
        PROVE  Len(allowed[c]) - i + 1 + allowed[c][i] + 1 <= MaxTokens - (t - 1) + gtClock
    <3> DEFINE v == Len(allowed[c]) - i + 1 + allowed[c][i]
    <3>1. v \in Int /\ v <= MaxTokens - t + gtClock
      BY <1>5, <1>6, Zenon
    <3> HIDE DEF v
    <3>2. v + 1 <= MaxTokens - (t - 1) + gtClock
      BY ONLY <1>1, <1>3, <3>1
    <3> QED BY <3>2, Zenon DEF v
  <2>3. /\ limiters' = [limiters EXCEPT ![c] = [tokens |-> t - 1, at |-> gtClock]]
        /\ allowed' = IF 1 = 1 THEN [allowed EXCEPT ![c] = Append(@, gtClock)] ELSE allowed
    BY <1>4, <1>8, Zenon
  <2>4. t - 1 \in 0..MaxTokens
    BY <2>1, Zenon
  <2> DEFINE n == t - 1
  <2> HIDE DEF n
  <2>5. n \in 0..MaxTokens
    BY <2>4, Zenon DEF n
  <2> WITNESS n \in 0..MaxTokens, 1 \in {0, 1}
  <2> QED BY <2>1, <2>2, <2>3, Zenon DEF n
<1>9. CASE ~(t >= 1)
  <2>1. t + 0 <= MaxTokens
    BY <1>1, <1>3
  <2>2. ASSUME NEW i \in DOMAIN allowed[c]
        PROVE  Len(allowed[c]) - i + 1 + allowed[c][i] + 0 <= MaxTokens - t + gtClock
    <3> DEFINE v == Len(allowed[c]) - i + 1 + allowed[c][i]
    <3>1. v \in Int /\ v <= MaxTokens - t + gtClock
      BY <1>5, <1>6, Zenon
    <3> HIDE DEF v
    <3>2. v + 0 <= MaxTokens - t + gtClock
      BY ONLY <3>1
    <3> QED BY <3>2, Zenon DEF v
  <2>3. /\ limiters' = [limiters EXCEPT ![c] = [tokens |-> t, at |-> gtClock]]
        /\ allowed' = IF 0 = 1 THEN [allowed EXCEPT ![c] = Append(@, gtClock)] ELSE allowed
    BY <1>4, <1>9
  <2>4. t \in 0..MaxTokens
    BY <1>3, Zenon
  <2> WITNESS t \in 0..MaxTokens, 0 \in {0, 1}
  <2> QED BY <2>1, <2>2, <2>3, Zenon
<1> QED BY <1>8, <1>9, Zenon

\* The rate limit is kept: whatever a client is let through is paid for.
LEMMA LimitStep ==
    ASSUME GtTypeOK, LimitKept, BucketInv, [GtNext]_gtVars
    PROVE  LimitKept' /\ BucketInv'
<1> USE DEF limitVars
<1>0. /\ MaxTokens \in Nat \ {0} /\ GtMaxTime \in Nat /\ gtClock \in 0..GtMaxTime
      /\ limiters \in [Clients -> [tokens : -1..MaxTokens, at : 0..GtMaxTime]]
      /\ allowed \in [Clients -> Seq(0..GtMaxTime)]
  BY GateAssumption, Zenon DEF GtTypeOK
<1>n. MaxTokens \in Int /\ gtClock \in Int /\ MaxTokens >= 0 /\ gtClock >= 0
  BY <1>0
<1>1. CASE UNCHANGED <<gtClock, limitVars>>
  BY <1>1, Zenon DEF LimitKept, BucketInv, Paid
<1>2. ASSUME NEW c \in Clients, Allow(c)
      PROVE  LimitKept' /\ BucketInv'
  <2>1. PICK n \in 0..MaxTokens, took \in {0, 1} :
               /\ limiters' = [limiters EXCEPT ![c] = [tokens |-> n, at |-> gtClock]]
               /\ allowed' = IF took = 1 THEN [allowed EXCEPT ![c] = Append(@, gtClock)] ELSE allowed
               /\ \A i \in DOMAIN allowed[c] :
                      Len(allowed[c]) - i + 1 + allowed[c][i] + took <= MaxTokens - n + gtClock
               /\ n + took <= MaxTokens
    BY <1>2, AllowEffect, Zenon
  <2>2. gtClock' = gtClock
    BY <1>2, Zenon DEF Allow
  <2>3. ASSUME NEW d \in Clients, d # c
        PROVE  limiters'[d] = limiters[d] /\ allowed'[d] = allowed[d] /\ Paid(d)' = Paid(d)
    BY <1>0, <2>1, <2>2, <2>3, Zenon DEF Paid
  <2>4. limiters'[c] = [tokens |-> n, at |-> gtClock] /\ limiters'[c] # NoBucket
        /\ limiters'[c].tokens = n /\ limiters'[c].at = gtClock
    BY <1>0, <2>1 DEF NoBucket
  <2>5. Paid(c)' = MaxTokens - n + gtClock
    BY <2>2, <2>4, Zenon DEF Paid
  <2>6. CASE took = 0
    <3>1. allowed' = allowed
      BY <2>1, <2>6
    <3>2. LimitKept'
      BY <3>1, Zenon DEF LimitKept
    <3>3. ASSUME NEW i \in DOMAIN allowed[c]
          PROVE  allowed[c][i] <= gtClock /\ Len(allowed[c]) - i + 1 + allowed[c][i] <= Paid(c)'
      <4>1. Len(allowed[c]) \in Nat /\ i \in 1..Len(allowed[c]) /\ allowed[c][i] \in 0..GtMaxTime
        BY <1>0, Element, Zenon
      <4>2. Len(allowed[c]) - i + 1 + allowed[c][i] + took <= MaxTokens - n + gtClock
        BY <2>1, Zenon
      <4>3. allowed[c][i] <= gtClock
        BY Zenon DEF BucketInv
      <4> QED BY <2>5, <2>6, <4>1, <4>2, <4>3
    <3>4. n >= 0 /\ gtClock <= gtClock
      BY <1>0
    <3> QED BY <2>2, <2>3, <2>4, <3>1, <3>2, <3>3, <3>4, Zenon DEF BucketInv
  <2>7. CASE took = 1
    <3> DEFINE a == allowed[c]
               L == Len(a)
    <3>1. allowed'[c] = Append(a, gtClock) /\ a \in Seq(0..GtMaxTime)
      BY <1>0, <2>1, <2>7, Zenon
    <3>2. /\ L \in Nat /\ Len(allowed'[c]) = L + 1 /\ DOMAIN allowed'[c] = 1..(L + 1)
          /\ DOMAIN a = 1..L
          /\ \A i \in 1..L : allowed'[c][i] = a[i] /\ a[i] \in Int
          /\ allowed'[c][L + 1] = gtClock
      BY <1>0, <3>1, Appended, SMTT(30)
    <3>3. \A i \in 1..L : /\ L - i + 1 + a[i] + 1 <= MaxTokens - n + gtClock
                          /\ a[i] <= gtClock
      BY <2>1, <2>7, <3>2, Zenon DEF BucketInv
    <3>4. \A i, j \in 1..L : i <= j => j - i + 1 <= MaxTokens + a[j] - a[i]
      BY <3>2, SMTT(30) DEF LimitKept
    <3> HIDE DEF a, L
    <3>5. \A i \in 1..(L + 1) : i \in 1..L \/ i = L + 1
      BY <3>2
    <3>6. ASSUME NEW i \in DOMAIN allowed'[c]
          PROVE  allowed'[c][i] <= gtClock /\ Len(allowed'[c]) - i + 1 + allowed'[c][i] <= Paid(c)'
      <4>1. CASE i \in 1..L
        <5>1. /\ a[i] \in Int /\ allowed'[c][i] = a[i] /\ L \in Int /\ i \in Int
              /\ L - i + 1 + a[i] + 1 <= MaxTokens - n + gtClock /\ a[i] <= gtClock
          BY <3>2, <3>3, <4>1
        <5>2. L + 1 - i + 1 + a[i] <= MaxTokens - n + gtClock
          BY ONLY <1>n, <5>1, n \in Int
        <5> QED BY <2>5, <3>2, <5>1, <5>2
      <4>2. CASE i = L + 1
        <5>1. n \in Int /\ n + 1 <= MaxTokens
          BY <2>1, <2>7
        <5>2. allowed'[c][i] = gtClock /\ Len(allowed'[c]) - i = 0
          BY <3>2, <4>2
        <5> QED BY <1>0, <2>5, <3>2, <4>2, <5>1, <5>2, SMTT(30)
      <4> QED BY <3>2, <3>5, <4>1, <4>2, Zenon
    <3>7. ASSUME NEW i \in DOMAIN allowed'[c], NEW j \in DOMAIN allowed'[c], i <= j
          PROVE  j - i + 1 <= MaxTokens + allowed'[c][j] - allowed'[c][i]
      <4>1. CASE j \in 1..L
        <5>1. i \in 1..L
          BY <3>2, <3>7, <4>1
        <5> QED BY <3>2, <3>4, <3>7, <4>1, <5>1, Zenon
      <4>2. CASE j = L + 1
        <5>1. allowed'[c][i] \in Int /\ i \in Int /\ allowed'[c][j] = gtClock /\ Len(allowed'[c]) = j
          <6>1. allowed'[c][i] \in Int /\ i \in Int
            BY <1>n, <3>2, <3>5
          <6> QED BY <3>2, <4>2, <6>1, Zenon
        <5>2. j - i + 1 + allowed'[c][i] <= MaxTokens - n + gtClock
          BY <2>5, <3>6, <5>1, Zenon
        <5>3. n \in Nat /\ j \in Int
          BY <1>0, <3>2, <4>2
        <5>4. j - i + 1 <= MaxTokens + gtClock - allowed'[c][i]
          BY ONLY <1>n, <5>1, <5>2, <5>3
        <5> QED BY <5>1, <5>4, Zenon
      <4> QED BY <3>2, <3>5, <4>1, <4>2, Zenon
    <3>8. ASSUME NEW d \in Clients, d # c
          PROVE  allowed'[d] = allowed[d]
      BY <2>3, <3>8, Zenon
    <3>9. LimitKept'
      BY <3>7, <3>8, Zenon DEF LimitKept
    <3>10. n >= 0 /\ gtClock <= gtClock
      BY <1>0
    <3> QED BY <2>2, <2>3, <2>4, <3>6, <3>9, <3>10, Zenon DEF BucketInv
  <2> QED BY <2>6, <2>7, Zenon
<1>3. CASE Cleanup
  <2>1. gtClock' = gtClock /\ allowed' = allowed
    BY <1>3, Zenon DEF Cleanup
  <2>2. LimitKept'
    BY <2>1, Zenon DEF LimitKept
  <2>3. ASSUME NEW c \in Clients
        PROVE  /\ limiters'[c] # NoBucket => limiters'[c].tokens >= 0 /\ limiters'[c].at <= gtClock
               /\ \A i \in DOMAIN allowed[c] : /\ allowed[c][i] <= gtClock
                                               /\ Len(allowed[c]) - i + 1 + allowed[c][i] <= Paid(c)'
    <3>1. limiters'[c] = IF limiters[c] # NoBucket /\ IdleTooLong(limiters[c]) THEN NoBucket ELSE limiters[c]
      BY <1>3, Zenon DEF Cleanup
    <3>2. CASE limiters'[c] = limiters[c]
      <4>1. Paid(c)' = Paid(c)
        BY <2>1, <3>2, Zenon DEF Paid
      <4> QED BY <3>2, <4>1, Zenon DEF BucketInv
    <3>3. CASE limiters[c] # NoBucket /\ IdleTooLong(limiters[c])
      <4>1. limiters'[c] = NoBucket /\ Paid(c)' = gtClock
        BY <2>1, <3>1, <3>3, Zenon DEF Paid
      <4>2. /\ limiters[c].tokens \in Int /\ limiters[c].tokens >= 0 /\ limiters[c].at \in Int
            /\ gtClock - limiters[c].at > 2 * MaxTokens
            /\ Paid(c) = MaxTokens - limiters[c].tokens + limiters[c].at
        BY <1>0, <3>3 DEF BucketInv, IdleTooLong, Paid
      <4>3. Paid(c) <= gtClock /\ Paid(c) \in Int
        BY ONLY <1>0, <4>2
      <4>4. ASSUME NEW i \in DOMAIN allowed[c]
            PROVE  allowed[c][i] <= gtClock /\ Len(allowed[c]) - i + 1 + allowed[c][i] <= gtClock
        <5>1. Len(allowed[c]) \in Nat /\ i \in 1..Len(allowed[c]) /\ allowed[c][i] \in 0..GtMaxTime
          BY <1>0, Element, Zenon
        <5>2. allowed[c][i] <= gtClock /\ Len(allowed[c]) - i + 1 + allowed[c][i] <= Paid(c)
          BY Zenon DEF BucketInv
        <5> DEFINE v == Len(allowed[c]) - i + 1 + allowed[c][i]
        <5>3. v \in Int /\ v <= Paid(c)
          BY <5>1, <5>2
        <5> HIDE DEF v
        <5>4. v <= gtClock
          BY ONLY <1>n, <4>3, <5>3
        <5> QED BY <5>2, <5>4, Zenon DEF v
      <4> QED BY <4>1, <4>4, Zenon
    <3> QED BY <3>1, <3>2, <3>3, Zenon
  <2> QED BY <2>1, <2>2, <2>3, Zenon DEF BucketInv
<1>4. CASE GtTick
  <2>1. gtClock' = gtClock + 1 /\ limiters' = limiters /\ allowed' = allowed
    BY <1>4, Zenon DEF GtTick
  <2>2. LimitKept'
    BY <2>1, Zenon DEF LimitKept
  <2>3. ASSUME NEW c \in Clients
        PROVE  /\ limiters[c] # NoBucket => limiters[c].tokens >= 0 /\ limiters[c].at <= gtClock + 1
               /\ \A i \in DOMAIN allowed[c] : /\ allowed[c][i] <= gtClock + 1
                                               /\ Len(allowed[c]) - i + 1 + allowed[c][i] <= Paid(c)'
    <3>1. limiters[c] # NoBucket => limiters[c].tokens >= 0 /\ limiters[c].at <= gtClock + 1
      BY <1>0 DEF BucketInv
    <3>2. Paid(c) \in Int /\ Paid(c)' \in {Paid(c), Paid(c) + 1}
      BY <1>0, <2>1 DEF Paid
    <3>3. ASSUME NEW i \in DOMAIN allowed[c]
          PROVE  /\ allowed[c][i] <= gtClock + 1
                 /\ Len(allowed[c]) - i + 1 + allowed[c][i] <= Paid(c)'
      <4>1. Len(allowed[c]) \in Nat /\ i \in 1..Len(allowed[c]) /\ allowed[c][i] \in 0..GtMaxTime
        BY <1>0, Element, Zenon
      <4>2. allowed[c][i] <= gtClock /\ Len(allowed[c]) - i + 1 + allowed[c][i] <= Paid(c)
        BY Zenon DEF BucketInv
      <4> DEFINE v == Len(allowed[c]) - i + 1 + allowed[c][i]
      <4>3. v \in Int /\ v <= Paid(c) /\ allowed[c][i] \in Int /\ allowed[c][i] <= gtClock
        BY <4>1, <4>2
      <4> HIDE DEF v
      <4>4. v <= Paid(c)' /\ allowed[c][i] <= gtClock + 1
        BY ONLY <1>n, <3>2, <4>3
      <4> QED BY <4>4, Zenon DEF v
    <3> QED BY <3>1, <3>3, Zenon
  <2> QED BY <2>1, <2>2, <2>3, Zenon DEF BucketInv
<1>5. CASE VolumeChanges \/ (\E ok \in BOOLEAN : Admit(ok)) \/ (\E x \in KeyPrints : Reject(x))
  <2>1. UNCHANGED <<gtClock, limitVars>>
    BY <1>5, Zenon DEF VolumeChanges, Admit, Reject
  <2> QED BY <1>1, <2>1, Zenon
<1> QED BY <1>1, <1>2, <1>3, <1>4, <1>5, Zenon DEF GtNext, gtVars

\* The disk gate: the reading stays that of the last probe that worked.
LEMMA DiskStep ==
    ASSUME GtTypeOK, AdmittedWithRoom, ReadingInv, [GtNext]_gtVars
    PROVE  AdmittedWithRoom' /\ ReadingInv'
<1> USE DEF diskVars
<1>n. /\ ProbeTTL \in Int /\ ProbeTTL > 0 /\ gtClock \in Int /\ roomAt \in Int /\ reading.at \in Int
      /\ reading \in [full : BOOLEAN, ok : BOOLEAN, at : Int]
      /\ lastGood \in {"none", "full", "room"} /\ diskFull \in BOOLEAN /\ blindNow \in BOOLEAN
  BY GateAssumption DEF GtTypeOK
<1>1. CASE UNCHANGED <<gtClock, diskVars>>
  BY <1>1, Zenon DEF AdmittedWithRoom, ReadingInv
<1>2. ASSUME NEW ok \in BOOLEAN, Admit(ok)
      PROVE  AdmittedWithRoom' /\ ReadingInv'
  <2>1. UNCHANGED <<gtClock, diskFull, roomAt>>
    BY <1>2, Zenon DEF Admit
  <2>2. CASE gtClock - reading.at < ProbeTTL
    <3>1. UNCHANGED <<reading, lastGood, blindNow>> /\ admitted' = Accepting(reading)
      BY <1>2, <2>2, Zenon DEF Admit
    <3>2. ReadingInv'
      BY <2>1, <3>1, Zenon DEF ReadingInv
    <3>3. admitted' => lastGood # "full"
      BY <3>1, Zenon DEF Accepting, ReadingInv
    <3>4. lastGood = "room" /\ ~blindNow => gtClock - roomAt < ProbeTTL
      BY <1>n, <2>2 DEF ReadingInv
    <3> QED BY <1>n, <2>1, <3>1, <3>2, <3>3, <3>4, Zenon DEF AdmittedWithRoom
  <2>3. CASE ~(gtClock - reading.at < ProbeTTL) /\ ok
    <3>1. /\ reading' = [full |-> diskFull, ok |-> TRUE, at |-> gtClock]
          /\ lastGood' = (IF diskFull THEN "full" ELSE "room") /\ blindNow' = FALSE
          /\ admitted' = Accepting(reading')
      BY <1>2, <2>3, Zenon DEF Admit, Probed
    <3>2. ReadingInv'
      BY <1>n, <2>1, <3>1 DEF ReadingInv
    <3>3. admitted' => lastGood' = "room" /\ roomAt = gtClock
      BY <1>n, <3>1, Zenon DEF Accepting, ReadingInv
    <3> QED BY <1>n, <2>1, <3>2, <3>3 DEF AdmittedWithRoom
  <2>4. CASE ~(gtClock - reading.at < ProbeTTL) /\ ~ok
    <3>1. /\ reading' = [reading EXCEPT !.at = gtClock]
          /\ lastGood' = lastGood /\ blindNow' = TRUE /\ admitted' = Accepting(reading')
      BY <1>2, <2>4, Zenon DEF Admit, Probed
    <3>2. reading'.ok = reading.ok /\ reading'.full = reading.full /\ reading'.at = gtClock
      BY <1>n, <3>1, Zenon
    <3>3. ReadingInv'
      BY <1>n, <2>1, <3>1, <3>2 DEF ReadingInv
    <3>4. admitted' => lastGood # "full"
      BY <3>1, <3>2, Zenon DEF Accepting, ReadingInv
    <3> QED BY <1>n, <3>1, <3>3, <3>4, Zenon DEF AdmittedWithRoom
  <2> QED BY <2>2, <2>3, <2>4, Zenon
<1>3. CASE VolumeChanges
  <2>1. /\ gtClock' = gtClock /\ roomAt' = gtClock /\ admitted' = FALSE
        /\ UNCHANGED <<reading, lastGood, blindNow>>
    BY <1>3, Zenon DEF VolumeChanges
  <2>2. reading.at <= gtClock
    BY Zenon DEF ReadingInv
  <2> QED BY <1>n, <2>1, <2>2, Zenon DEF AdmittedWithRoom, ReadingInv
<1>4. CASE GtTick
  <2>1. /\ gtClock' = gtClock + 1 /\ roomAt' = (IF diskFull THEN roomAt ELSE gtClock + 1) /\ admitted' = FALSE
        /\ UNCHANGED <<reading, lastGood, blindNow, diskFull>>
    BY <1>4, Zenon DEF GtTick
  <2>2. (~diskFull => roomAt = gtClock) /\ reading.at <= gtClock
    BY Zenon DEF ReadingInv
  <2> QED BY <1>n, <2>1, <2>2 DEF AdmittedWithRoom, ReadingInv
<1>5. CASE (\E c \in Clients : Allow(c)) \/ Cleanup \/ \E x \in KeyPrints : Reject(x)
  <2>1. UNCHANGED <<gtClock, diskVars>>
    BY <1>5, Zenon DEF Allow, Cleanup, Reject
  <2> QED BY <1>1, <2>1, Zenon
<1> QED BY <1>1, <1>2, <1>3, <1>4, <1>5, Zenon DEF GtNext, gtVars

\* The log of refused keys accounts for every refusal and keeps its pace.
LEMMA LogStep ==
    ASSUME GtTypeOK, RefusalsCounted, RefusalsShow, [GtNext]_gtVars
    PROVE  RefusalsCounted' /\ RefusalsShow'
<1> USE DEF printVars
<1>1. CASE UNCHANGED printVars
  BY <1>1, Zenon DEF RefusalsCounted, RefusalsShow
<1>2. ASSUME NEW x \in KeyPrints, Reject(x)
      PROVE  RefusalsCounted' /\ RefusalsShow'
  <2>n. /\ prints \in [KeyPrints -> [logged : -1..GtMaxTime, suppressed : 0..MaxGtRequests]]
        /\ refusals \in [KeyPrints -> Nat] /\ reported \in [KeyPrints -> Nat] /\ forgotten \in [KeyPrints -> Nat]
        /\ lineAt \in [KeyPrints -> -1..GtMaxTime]
    BY Zenon DEF GtTypeOK
  <2>m. /\ \A y \in KeyPrints : prints[y].suppressed \in Int /\ prints[y].logged \in Int
        /\ \A y \in KeyPrints : refusals[y] \in Int /\ reported[y] \in Int /\ forgotten[y] \in Int
    BY <2>n, GateAssumption
  <2>1. refusals' = [refusals EXCEPT ![x] = @ + 1]
    BY <1>2, Zenon DEF Reject
  <2>2. refusals'[x] = refusals[x] + 1 /\ \A y \in KeyPrints \ {x} : refusals'[y] = refusals[y]
    BY <2>n, <2>1, Zenon
  <2>3. CASE prints[x] # NoPrint /\ gtClock - prints[x].logged < LogInterval
    <3>1. prints' = [prints EXCEPT ![x].suppressed = @ + 1] /\ UNCHANGED <<reported, forgotten, lineAt, chatty>>
      BY <1>2, <2>3, Zenon DEF Reject, Suppress
    <3>2. /\ prints'[x].suppressed = prints[x].suppressed + 1 /\ prints'[x].logged = prints[x].logged
          /\ \A y \in KeyPrints \ {x} : prints'[y] = prints[y]
      BY <2>n, <3>1, Zenon
    <3>3. RefusalsCounted'
      BY <2>m, <2>2, <3>1, <3>2 DEF RefusalsCounted
    <3>4. RefusalsShow'
      BY <2>3, <3>1, <3>2, Zenon DEF RefusalsShow
    <3> QED BY <3>3, <3>4, Zenon
  <2>4. CASE ~(prints[x] # NoPrint /\ gtClock - prints[x].logged < LogInterval)
    <3> DEFINE reset == prints[x] = NoPrint /\ Cardinality(Entries) >= MaxPrints
    <3>1. /\ prints' = [y \in KeyPrints |-> IF y = x THEN [logged |-> gtClock, suppressed |-> 0]
                                            ELSE IF reset THEN NoPrint ELSE prints[y]]
          /\ forgotten' = [y \in KeyPrints |-> IF reset THEN forgotten[y] + prints[y].suppressed ELSE forgotten[y]]
          /\ reported' = [reported EXCEPT ![x] = @ + (1 + prints[x].suppressed)]
          /\ chatty' = (chatty \/ (prints[x] # NoPrint /\ gtClock - lineAt[x] < LogInterval))
          /\ lineAt' = [lineAt EXCEPT ![x] = gtClock]
      BY <1>2, <2>4, Zenon DEF Reject, LineSays
    <3>2. reset => prints[x].suppressed = 0
      BY DEF NoPrint
    <3> HIDE DEF reset
    <3>3. /\ prints'[x].suppressed = 0 /\ prints'[x].logged = gtClock
          /\ \A y \in KeyPrints \ {x} : prints'[y] = IF reset THEN NoPrint ELSE prints[y]
          /\ \A y \in KeyPrints : forgotten'[y] = IF reset THEN forgotten[y] + prints[y].suppressed ELSE forgotten[y]
      BY <3>1, Zenon
    <3>4. reported'[x] = reported[x] + (1 + prints[x].suppressed) /\ \A y \in KeyPrints \ {x} : reported'[y] = reported[y]
      BY <2>n, <3>1, Zenon
    <3>5. lineAt'[x] = gtClock /\ \A y \in KeyPrints \ {x} : lineAt'[y] = lineAt[y]
      BY <2>n, <3>1, Zenon
    <3>6. refusals'[x] = reported'[x] + prints'[x].suppressed + forgotten'[x]
      <4>1. refusals[x] = reported[x] + prints[x].suppressed + forgotten[x]
        BY Zenon DEF RefusalsCounted
      <4>2. CASE reset
        BY <2>m, <2>2, <3>2, <3>3, <3>4, <4>1, <4>2
      <4>3. CASE ~reset
        BY <2>m, <2>2, <3>3, <3>4, <4>1, <4>3
      <4> QED BY <4>2, <4>3, Zenon
    <3>7. ASSUME NEW y \in KeyPrints \ {x}
          PROVE  refusals'[y] = reported'[y] + prints'[y].suppressed + forgotten'[y]
      <4>1. refusals[y] = reported[y] + prints[y].suppressed + forgotten[y]
        BY Zenon DEF RefusalsCounted
      <4>2. CASE reset
        <5>1. prints'[y].suppressed = 0
          BY <3>3, <4>2 DEF NoPrint
        <5> QED BY <2>m, <2>2, <3>3, <3>4, <4>1, <4>2, <5>1
      <4>3. CASE ~reset
        BY <2>m, <2>2, <3>3, <3>4, <4>1, <4>3, Zenon
      <4> QED BY <4>2, <4>3, Zenon
    <3>8. RefusalsCounted'
      BY <3>6, <3>7, Zenon DEF RefusalsCounted
    <3>9. ~chatty'
      BY <2>4, <3>1, Zenon DEF RefusalsShow
    <3>10. ASSUME NEW y \in KeyPrints, prints'[y] # NoPrint
           PROVE  prints'[y].logged = lineAt'[y]
      BY <3>3, <3>5, <3>10, Zenon DEF RefusalsShow
    <3> QED BY <3>8, <3>9, <3>10, Zenon DEF RefusalsShow
  <2> QED BY <2>3, <2>4, Zenon
<1>3. CASE (\E c \in Clients : Allow(c)) \/ Cleanup \/ VolumeChanges \/ (\E ok \in BOOLEAN : Admit(ok)) \/ GtTick
  <2>1. UNCHANGED printVars
    BY <1>3, Zenon DEF Allow, Cleanup, VolumeChanges, Admit, GtTick
  <2> QED BY <1>1, <2>1, Zenon
<1> QED BY <1>1, <1>2, <1>3, Zenon DEF GtNext, gtVars

\* What was counted stays below the requests.
LEMMA FewerSuppressed ==
    ASSUME GtTypeOK, gtRequests' \in 0..MaxGtRequests, gtRequests <= gtRequests', NEW x \in KeyPrints
    PROVE  prints[x].suppressed <= gtRequests'
<1>1. prints[x].suppressed \in Int /\ gtRequests \in Int /\ gtRequests' \in Int /\ prints[x].suppressed <= gtRequests
  BY GateAssumption DEF GtTypeOK
<1> QED BY ONLY <1>1, gtRequests <= gtRequests'

\* The variables keep their types.
LEMMA GtTypeKept ==
    ASSUME GtTypeOK, BucketInv, [GtNext]_gtVars
    PROVE  GtTypeOK'
<1> USE DEF limitVars, diskVars, printVars
<1>n. /\ MaxTokens \in Nat \ {0} /\ GtMaxTime \in Nat /\ MaxGtRequests \in Nat /\ MaxGtFaults \in Nat
      /\ gtClock \in 0..GtMaxTime
  BY GateAssumption, Zenon DEF GtTypeOK
<1>1. CASE UNCHANGED gtVars
  BY <1>1, Zenon DEF GtTypeOK, gtVars
<1>2. ASSUME NEW c \in Clients, Allow(c)
      PROVE  GtTypeOK'
  <2>1. gtRequests' \in 0..MaxGtRequests /\ gtRequests <= gtRequests'
    <3>1. gtRequests < MaxGtRequests /\ gtRequests' = gtRequests + 1 /\ gtRequests \in 0..MaxGtRequests
      BY <1>2, Zenon DEF Allow, RequestArrives, GtTypeOK
    <3> QED BY ONLY <1>n, <3>1
  <2>2. PICK n \in 0..MaxTokens, took \in {0, 1} :
               /\ limiters' = [limiters EXCEPT ![c] = [tokens |-> n, at |-> gtClock]]
               /\ allowed' = IF took = 1 THEN [allowed EXCEPT ![c] = Append(@, gtClock)] ELSE allowed
    BY <1>2, AllowEffect, Zenon
  <2>3. limiters' \in [Clients -> [tokens : -1..MaxTokens, at : 0..GtMaxTime]]
    BY <1>n, <2>2 DEF GtTypeOK
  <2>4. allowed' \in [Clients -> Seq(0..GtMaxTime)]
    <3>1. allowed[c] \in Seq(0..GtMaxTime)
      BY Zenon DEF GtTypeOK
    <3>2. Append(allowed[c], gtClock) \in Seq(0..GtMaxTime)
      BY <1>n, <3>1
    <3> QED BY <2>2, <3>2, Zenon DEF GtTypeOK
  <2>5. \A x \in KeyPrints : prints[x].suppressed <= gtRequests'
    BY <1>n, <2>1, FewerSuppressed, Zenon
  <2> QED BY <1>2, <2>1, <2>3, <2>4, <2>5, Zenon DEF GtTypeOK, Allow
<1>3. CASE Cleanup
  <2>1. limiters' \in [Clients -> [tokens : -1..MaxTokens, at : 0..GtMaxTime]]
    BY <1>3, <1>n DEF Cleanup, GtTypeOK, NoBucket
  <2> QED BY <1>3, <2>1, Zenon DEF GtTypeOK, Cleanup
<1>4. CASE VolumeChanges
  <2>1. diskFull' \in BOOLEAN /\ roomAt' \in Int /\ admitted' \in BOOLEAN
    <3>1. diskFull' = ~diskFull /\ roomAt' = gtClock /\ admitted' = FALSE
      BY <1>4, Zenon DEF VolumeChanges
    <3>2. gtClock \in Int
      BY <1>n
    <3> QED BY <3>1, <3>2, Zenon
  <2> QED BY <1>4, <2>1, Zenon DEF GtTypeOK, VolumeChanges
<1>5. ASSUME NEW ok \in BOOLEAN, Admit(ok)
      PROVE  GtTypeOK'
  <2>1. gtRequests' \in 0..MaxGtRequests /\ gtRequests <= gtRequests' /\ gtFaults' \in 0..MaxGtFaults
    BY <1>5, <1>n DEF Admit, RequestArrives, GtTypeOK
  <2>2. reading' \in [full : BOOLEAN, ok : BOOLEAN, at : Int]
    <3>1. reading' \in {reading, [full |-> diskFull, ok |-> TRUE, at |-> gtClock], [reading EXCEPT !.at = gtClock]}
      BY <1>5, Zenon DEF Admit, Probed
    <3>2. reading \in [full : BOOLEAN, ok : BOOLEAN, at : Int] /\ diskFull \in BOOLEAN /\ gtClock \in Int
      BY <1>n DEF GtTypeOK
    <3>3. CASE reading' = [full |-> diskFull, ok |-> TRUE, at |-> gtClock]
      BY <3>2, <3>3, Zenon
    <3>4. CASE reading' = [reading EXCEPT !.at = gtClock]
      BY <3>2, <3>4, Zenon
    <3> QED BY <3>1, <3>2, <3>3, <3>4, Zenon
  <2>3. blindNow' \in BOOLEAN /\ admitted' \in BOOLEAN /\ lastGood' \in {"none", "full", "room"}
    BY <1>5, Zenon DEF Admit, Accepting, GtTypeOK
  <2>4. \A x \in KeyPrints : prints[x].suppressed <= gtRequests'
    BY <1>n, <2>1, FewerSuppressed, Zenon
  <2> QED BY <1>5, <2>1, <2>2, <2>3, <2>4, Zenon DEF GtTypeOK, Admit
<1>6. ASSUME NEW x \in KeyPrints, Reject(x)
      PROVE  GtTypeOK'
  <2>1. gtRequests' = gtRequests + 1 /\ gtRequests' \in 0..MaxGtRequests
    BY <1>6, <1>n DEF Reject, RequestArrives, GtTypeOK
  <2>2. refusals' \in [KeyPrints -> Nat]
    BY <1>6, SMTT(30) DEF Reject, GtTypeOK
  <2>n. /\ prints \in [KeyPrints -> [logged : -1..GtMaxTime, suppressed : 0..MaxGtRequests]]
        /\ \A y \in KeyPrints : prints[y].suppressed <= gtRequests
        /\ reported \in [KeyPrints -> Nat] /\ forgotten \in [KeyPrints -> Nat]
        /\ lineAt \in [KeyPrints -> -1..GtMaxTime] /\ gtRequests \in Nat
    BY <1>n, SMTT(30) DEF GtTypeOK
  <2>3. CASE prints[x] # NoPrint /\ gtClock - prints[x].logged < LogInterval
    <3>1. prints' = [prints EXCEPT ![x].suppressed = @ + 1] /\ UNCHANGED <<reported, forgotten, lineAt, chatty>>
      BY <1>6, <2>3, Zenon DEF Reject, Suppress
    <3>2. prints[x].suppressed + 1 \in 0..MaxGtRequests /\ prints[x].suppressed + 1 <= gtRequests'
      BY <1>n, <2>1, <2>n
    <3>3. prints' \in [KeyPrints -> [logged : -1..GtMaxTime, suppressed : 0..MaxGtRequests]]
      BY <2>n, <3>1, <3>2, Zenon
    <3>4. ASSUME NEW y \in KeyPrints PROVE prints'[y].suppressed <= gtRequests'
      BY <1>n, <2>1, <2>n, <3>1, <3>2
    <3> QED BY <1>6, <2>1, <2>2, <3>1, <3>3, <3>4, Zenon DEF GtTypeOK, Reject
  <2>4. CASE ~(prints[x] # NoPrint /\ gtClock - prints[x].logged < LogInterval)
    <3> DEFINE reset == prints[x] = NoPrint /\ Cardinality(Entries) >= MaxPrints
    <3>1. /\ prints' = [y \in KeyPrints |-> IF y = x THEN [logged |-> gtClock, suppressed |-> 0]
                                            ELSE IF reset THEN NoPrint ELSE prints[y]]
          /\ forgotten' = [y \in KeyPrints |-> IF reset THEN forgotten[y] + prints[y].suppressed ELSE forgotten[y]]
          /\ reported' = [reported EXCEPT ![x] = @ + (1 + prints[x].suppressed)]
          /\ chatty' = (chatty \/ (prints[x] # NoPrint /\ gtClock - lineAt[x] < LogInterval))
          /\ lineAt' = [lineAt EXCEPT ![x] = gtClock]
      BY <1>6, <2>4, Zenon DEF Reject, LineSays
    <3> HIDE DEF reset
    <3>2. /\ [logged |-> gtClock, suppressed |-> 0] \in [logged : -1..GtMaxTime, suppressed : 0..MaxGtRequests]
          /\ NoPrint \in [logged : -1..GtMaxTime, suppressed : 0..MaxGtRequests]
          /\ NoPrint.suppressed = 0
      BY <1>n DEF NoPrint
    <3>3. prints' \in [KeyPrints -> [logged : -1..GtMaxTime, suppressed : 0..MaxGtRequests]]
      BY <2>n, <3>1, <3>2, Zenon
    <3>4. ASSUME NEW y \in KeyPrints PROVE prints'[y].suppressed <= gtRequests'
      BY <1>n, <2>1, <2>n, <3>1, <3>2
    <3>5. forgotten' \in [KeyPrints -> Nat] /\ reported' \in [KeyPrints -> Nat]
      <4>1. \A y \in KeyPrints : prints[y].suppressed \in Nat
        BY <1>n, <2>n
      <4> QED BY <2>n, <3>1, <4>1
    <3>6. lineAt' \in [KeyPrints -> -1..GtMaxTime]
      BY <1>n, <2>n, <3>1
    <3>7. chatty' \in BOOLEAN
      BY <3>1, Zenon
    <3> QED BY <1>6, <2>1, <2>2, <3>3, <3>4, <3>5, <3>6, <3>7, Zenon DEF GtTypeOK, Reject
  <2> QED BY <2>3, <2>4, Zenon
<1>7. CASE GtTick
  <2>1. gtClock' \in 0..GtMaxTime /\ roomAt' \in Int
    BY <1>7, <1>n DEF GtTick, GtTypeOK
  <2> QED BY <1>7, <2>1, Zenon DEF GtTypeOK, GtTick
<1> QED BY <1>1, <1>2, <1>3, <1>4, <1>5, <1>6, <1>7, Zenon DEF GtNext

\* The ingest gates hold in every window, across clean-ups, failed probes and a
\* full map of refused keys, for any clients, bucket size and lifetimes.
THEOREM GatesInvariant == GtSpec => []GatesSound
<1>1. GatesSound /\ [GtNext]_gtVars => GatesSound'
  BY GtTypeKept, LimitStep, DiskStep, LogStep, Zenon DEF GatesSound
<1> QED BY <1>1, GtInitial, PTL DEF GtSpec

\* In every window of n refill steps a client gets at most the bucket's size
\* plus n requests through, also around the removal of its idle bucket.
THEOREM RateLimitHolds == GtSpec => []LimitKept
<1>1. GatesSound => LimitKept
  BY Zenon DEF GatesSound
<1> QED BY <1>1, GatesInvariant, PTL

\* A full volume stays shut: a request is let in only on a reading with room,
\* or while no probe ever worked, and a failed probe does not change that.
THEOREM FullVolumeShut == GtSpec => []AdmittedWithRoom
<1>1. GatesSound => AdmittedWithRoom
  BY Zenon DEF GatesSound
<1> QED BY <1>1, GatesInvariant, PTL
=============================================================================
