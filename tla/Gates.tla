-------------------------------- MODULE Gates --------------------------------
(***************************************************************************)
(* What an ingest request passes before its handler: the rate limiter (one *)
(* token bucket per category and client), the disk admission gate with its *)
(* cached probe, and, when its key is refused, the log of refused keys.    *)
(*                                                                         *)
(* Clients share nothing but the clean-up of the limiter and the bound on  *)
(* the log's entries.  Time is in refill steps: one step refills one token.*)
(***************************************************************************)
EXTENDS Integers, Sequences, FiniteSets, FiniteSetsExt

CONSTANTS
    Clients,      \* client addresses
    KeyPrints,    \* fingerprints of refused keys
    MaxTokens,    \* bucket size; also the steps it takes to fill
    ProbeTTL,     \* how long a disk reading serves
    LogInterval,  \* rejectedAuthInterval
    MaxPrints,    \* rejectedAuthMaxKeys
    GtMaxTime, MaxGtRequests, MaxGtFaults

ASSUME GateAssumption ==
    /\ {MaxTokens, ProbeTTL, LogInterval, MaxPrints} \subseteq Nat \ {0}
    /\ {GtMaxTime, MaxGtRequests, MaxGtFaults} \subseteq Nat

VARIABLES
    gtMode,     \* bound: the gate this run follows
    gtClock,
    limiters,   \* RateLimiter.limiters
    allowed,    \* history: times of the allowed requests of a client
    diskFull,   \* the volume is over the threshold now
    reading,    \* Admission: last reading, when it was checked, and if any was good
    roomAt,     \* history: last time the volume was below the threshold
    lastGood,   \* history: what the last probe that worked said
    blindNow,   \* history: a probe failed since
    admitted,   \* history: the last step let a request in
    prints,     \* rejectedAuthLog.entries
    refusals, reported, forgotten,  \* history: refused, counted in a line, lost with the map
    lineAt,     \* history: last line of a fingerprint, or -1
    chatty,     \* history: a second line within the interval
    gtRequests, gtFaults

limitVars == <<limiters, allowed>>
diskVars == <<diskFull, reading, roomAt, lastGood, blindNow, admitted>>
printVars == <<prints, refusals, reported, forgotten, lineAt, chatty>>
gtVars == <<gtMode, gtClock, limitVars, diskVars, printVars, gtRequests, gtFaults>>

NoBucket == [tokens |-> -1, at |-> 0]
NoPrint == [logged |-> -1, suppressed |-> 0]
NeverRead == [full |-> FALSE, ok |-> FALSE, at |-> -1 - ProbeTTL]

GtInit ==
    /\ gtMode \in {"limit", "disk", "log"}
    /\ gtClock = 0
    /\ limiters = [c \in Clients |-> NoBucket] /\ allowed = [c \in Clients |-> <<>>]
    /\ diskFull \in IF gtMode = "disk" THEN BOOLEAN ELSE {FALSE}
    /\ reading = NeverRead
    /\ roomAt = IF diskFull THEN -1 - ProbeTTL ELSE 0
    /\ lastGood = "none" /\ blindNow = FALSE /\ admitted = FALSE
    /\ prints = [x \in KeyPrints |-> NoPrint]
    /\ refusals = [x \in KeyPrints |-> 0] /\ reported = refusals /\ forgotten = refusals
    /\ lineAt = [x \in KeyPrints |-> -1] /\ chatty = FALSE
    /\ gtRequests = 0 /\ gtFaults = 0

\* One more request, up to the bound.
RequestArrives == gtRequests < MaxGtRequests /\ gtRequests' = gtRequests + 1

-----------------------------------------------------------------------------
(* RateLimiter.                                                            *)

\* Mutant: the refill does not stop at the bucket's size.
Refilled_Unbounded(b) == b.tokens + gtClock - b.at

\* The tokens of a bucket now.
Refilled(b) == Min({MaxTokens, b.tokens + gtClock - b.at})

\* Allow: a new bucket starts full.
Allow(c) ==
    LET b == IF limiters[c] = NoBucket THEN [tokens |-> MaxTokens, at |-> gtClock] ELSE limiters[c]
        tokens == Refilled(b)
        ok == tokens >= 1 IN
    /\ RequestArrives
    /\ limiters' = [limiters EXCEPT ![c] = [tokens |-> IF ok THEN tokens - 1 ELSE tokens, at |-> gtClock]]
    /\ allowed' = IF ok THEN [allowed EXCEPT ![c] = Append(@, gtClock)] ELSE allowed
    /\ UNCHANGED <<gtMode, gtClock, diskVars, printVars, gtFaults>>

\* Mutant: a bucket goes as soon as it was idle for one step.
IdleTooLong_Soon(b) == gtClock - b.at >= 1

\* Idle for more than twice the time a bucket takes to fill.
IdleTooLong(b) == gtClock - b.at > 2 * MaxTokens

\* cleanup removes the idle buckets.
Cleanup ==
    /\ gtMode = "limit"
    /\ \E c \in Clients : limiters[c] # NoBucket /\ IdleTooLong(limiters[c])
    /\ limiters' = [c \in Clients |-> IF limiters[c] # NoBucket /\ IdleTooLong(limiters[c]) THEN NoBucket ELSE limiters[c]]
    /\ UNCHANGED <<gtMode, gtClock, allowed, diskVars, printVars, gtRequests, gtFaults>>

-----------------------------------------------------------------------------
(* Admission.                                                              *)

\* Mutant: a failed probe forgets the last reading.
Probed_Forgets(ok) == IF ok THEN [full |-> diskFull, ok |-> TRUE, at |-> gtClock] ELSE [NeverRead EXCEPT !.at = gtClock]

\* used: a probe that fails leaves the previous reading in place.
Probed(ok) ==
    IF ok THEN [full |-> diskFull, ok |-> TRUE, at |-> gtClock] ELSE [reading EXCEPT !.at = gtClock]

\* Accepting: refuse only on a good reading over the threshold.
Accepting(now) == ~(now.ok /\ now.full)

\* Middleware and UnaryInterceptor.
Admit(probeOk) ==
    /\ RequestArrives
    /\ LET cached == gtClock - reading.at < ProbeTTL
           now == IF cached THEN reading ELSE Probed(probeOk) IN
       /\ IF cached THEN probeOk /\ UNCHANGED <<gtFaults, lastGood, blindNow>>
          ELSE /\ probeOk \/ gtFaults < MaxGtFaults
               /\ gtFaults' = IF probeOk THEN gtFaults ELSE gtFaults + 1
               /\ blindNow' = ~probeOk
               /\ lastGood' = IF ~probeOk THEN lastGood ELSE IF diskFull THEN "full" ELSE "room"
       /\ reading' = now
       /\ admitted' = Accepting(now)
    /\ UNCHANGED <<gtMode, gtClock, diskFull, roomAt, limitVars, printVars>>

\* The volume fills up, or retention frees it.
VolumeChanges ==
    /\ gtMode = "disk"
    /\ diskFull' = ~diskFull
    /\ roomAt' = gtClock
    /\ admitted' = FALSE
    /\ UNCHANGED <<gtMode, gtClock, reading, lastGood, blindNow, limitVars, printVars, gtRequests, gtFaults>>

-----------------------------------------------------------------------------
(* The log of refused keys.                                                *)

Entries == {x \in KeyPrints : prints[x] # NoPrint}

\* Mutant: a counted refusal also restarts the interval.
Suppress_Restarts(x) == [prints EXCEPT ![x] = [logged |-> gtClock, suppressed |-> @.suppressed + 1]]

\* Within the interval a refusal is only counted.
Suppress(x) == [prints EXCEPT ![x].suppressed = @ + 1]

\* Mutant: the new line does not say how many were counted before it.
LineSays_One(x) == 1

\* A line stands for its own refusal and the ones counted since the last.
LineSays(x) == 1 + prints[x].suppressed

\* reject: log, or count; a full map is replaced by an empty one.
Reject(x) ==
    /\ RequestArrives
    /\ refusals' = [refusals EXCEPT ![x] = @ + 1]
    /\ IF prints[x] # NoPrint /\ gtClock - prints[x].logged < LogInterval
       THEN prints' = Suppress(x) /\ UNCHANGED <<reported, forgotten, lineAt, chatty>>
       ELSE LET reset == prints[x] = NoPrint /\ Cardinality(Entries) >= MaxPrints IN
            /\ prints' = [y \in KeyPrints |->
                            IF y = x THEN [logged |-> gtClock, suppressed |-> 0]
                            ELSE IF reset THEN NoPrint ELSE prints[y]]
            /\ forgotten' = [y \in KeyPrints |-> IF reset THEN forgotten[y] + prints[y].suppressed ELSE forgotten[y]]
            /\ reported' = [reported EXCEPT ![x] = @ + LineSays(x)]
            /\ chatty' = (chatty \/ (prints[x] # NoPrint /\ gtClock - lineAt[x] < LogInterval))
            /\ lineAt' = [lineAt EXCEPT ![x] = gtClock]
    /\ UNCHANGED <<gtMode, gtClock, limitVars, diskVars, gtFaults>>

GtTick ==
    /\ gtClock < GtMaxTime /\ gtClock' = gtClock + 1
    /\ roomAt' = IF diskFull THEN roomAt ELSE gtClock + 1
    /\ admitted' = FALSE
    /\ UNCHANGED <<gtMode, diskFull, reading, lastGood, blindNow, limitVars, printVars, gtRequests, gtFaults>>

GtNext ==
    \/ gtMode = "limit" /\ \E c \in Clients : Allow(c)
    \/ Cleanup \/ VolumeChanges
    \/ gtMode = "disk" /\ \E ok \in BOOLEAN : Admit(ok)
    \/ gtMode = "log" /\ \E x \in KeyPrints : Reject(x)
    \/ GtTick

GtSpec == GtInit /\ [][GtNext]_gtVars

-----------------------------------------------------------------------------
GtTypeOK ==
    /\ gtMode \in {"limit", "disk", "log"}
    /\ gtClock \in 0..GtMaxTime /\ gtRequests \in 0..MaxGtRequests /\ gtFaults \in 0..MaxGtFaults
    /\ limiters \in [Clients -> [tokens : -1..MaxTokens, at : 0..GtMaxTime]]
    /\ allowed \in [Clients -> Seq(0..GtMaxTime)]
    /\ {diskFull, blindNow, admitted, chatty} \subseteq BOOLEAN
    /\ reading \in [full : BOOLEAN, ok : BOOLEAN, at : Int] /\ roomAt \in Int
    /\ lastGood \in {"none", "full", "room"}
    /\ prints \in [KeyPrints -> [logged : -1..GtMaxTime, suppressed : 0..MaxGtRequests]]
    /\ \A x \in KeyPrints : prints[x].suppressed <= gtRequests
    /\ {refusals, reported, forgotten} \subseteq [KeyPrints -> Nat]
    /\ lineAt \in [KeyPrints -> -1..GtMaxTime]

\* In every window of n steps a client gets at most the bucket plus n refills,
\* however its requests fall around the clean-up of idle buckets.
LimitKept ==
    \A c \in Clients : \A i, j \in DOMAIN allowed[c] :
        i <= j => j - i + 1 <= MaxTokens + allowed[c][j] - allowed[c][i]

\* A request is let in only if no probe ever worked, or the last one that did
\* found room; unless a probe failed since, there was room within the lifetime
\* of a reading.  So one failed probe does not open the gate of a full volume.
AdmittedWithRoom ==
    admitted => \/ lastGood = "none"
                \/ lastGood = "room" /\ (blindNow \/ gtClock - roomAt < ProbeTTL)

\* Every refusal is accounted for: reported in a line, counted for the next
\* one, or lost with a map that was replaced.
RefusalsCounted ==
    \A x \in KeyPrints : refusals[x] = reported[x] + prints[x].suppressed + forgotten[x]

\* A sender that keeps being refused shows up in the log: its last line is
\* never older than the interval when a refusal is counted, and a fingerprint
\* that is remembered has one line per interval.
RefusalsShow ==
    /\ ~chatty
    /\ \A x \in KeyPrints : prints[x] # NoPrint => prints[x].logged = lineAt[x]

\* What a client got since any request of its own is paid for: by the tokens
\* missing from its bucket and the refills before the bucket was last touched,
\* or, once the bucket is gone, by the time that passed.
Paid(c) == IF limiters[c] = NoBucket THEN gtClock ELSE MaxTokens - limiters[c].tokens + limiters[c].at

BucketInv ==
    \A c \in Clients :
        /\ limiters[c] # NoBucket => limiters[c].tokens >= 0 /\ limiters[c].at <= gtClock
        /\ \A i \in DOMAIN allowed[c] :
               /\ allowed[c][i] <= gtClock
               /\ Len(allowed[c]) - i + 1 + allowed[c][i] <= Paid(c)

\* The reading is that of the last probe that worked, and there was room when
\* it said so.
ReadingInv ==
    /\ reading.ok <=> lastGood # "none"
    /\ reading.ok => (reading.full <=> lastGood = "full")
    /\ lastGood = "room" /\ ~blindNow => roomAt >= reading.at
    /\ ~diskFull => roomAt = gtClock
    /\ reading.at <= gtClock

\* The ingest gates hold in every window: the rate limit across clean-ups, the
\* disk gate across failed probes, and the accounting of refused keys
\* (ratelimit.go, admission.go, rejected_auth.go).  The last two make the rest
\* inductive.
GatesSound ==
    /\ GtTypeOK
    /\ LimitKept
    /\ AdmittedWithRoom
    /\ RefusalsCounted
    /\ RefusalsShow
    /\ BucketInv
    /\ ReadingInv
=============================================================================
