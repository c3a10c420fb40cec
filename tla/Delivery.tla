------------------------------ MODULE Delivery ------------------------------
(***************************************************************************)
(* What a write queue promises its producers: at-least-once delivery.  A   *)
(* batch that was accepted is never lost, it is handled only from a copy   *)
(* the queue holds, and every accepted batch is handled in the end.  A     *)
(* copy may come back after it was handled (a lost acknowledgement).       *)
(*                                                                         *)
(* WriteQueue implements this specification.                               *)
(***************************************************************************)
EXTENDS Naturals

CONSTANT Batches

VARIABLES
    accepted,  \* the batches a producer has handed over
    copies,    \* copies[b]: copies of b that are still to be handled
    handled,   \* handled[b]: how often b was stored or given up with a count
    again      \* again[b]: how often b was left with the queue although it was done with

vars == <<accepted, copies, handled, again>>

Init ==
    /\ accepted = {}
    /\ copies = [b \in Batches |-> 0]
    /\ handled = [b \in Batches |-> 0]
    /\ again = [b \in Batches |-> 0]

Accept(b) ==
    /\ b \in Batches \ accepted
    /\ accepted' = accepted \cup {b}
    /\ UNCHANGED <<handled, again>>
    /\ copies' = [copies EXCEPT ![b] = 1]

Handle(b) ==
    /\ UNCHANGED <<accepted, again>>
    /\ handled' = [handled EXCEPT ![b] = @ + 1]
    /\ copies[b] > 0
    /\ copies' = [copies EXCEPT ![b] = @ - 1]

\* b is handled, and its copy stays behind.
HandleUnacked(b) ==
    /\ again' = [again EXCEPT ![b] = @ + 1]
    /\ handled' = [handled EXCEPT ![b] = @ + 1]
    /\ copies[b] > 0
    /\ UNCHANGED <<accepted, copies>>

\* The acknowledgement of b was lost: the copy is there to be handled again.
Redeliver(b) ==
    /\ again' = [again EXCEPT ![b] = @ + 1]
    /\ handled[b] > 0 \/ copies[b] > 0
    /\ copies' = [copies EXCEPT ![b] = @ + 1]
    /\ UNCHANGED <<accepted, handled>>

Next == \E b \in Batches : Accept(b) \/ Handle(b) \/ HandleUnacked(b) \/ Redeliver(b)

Spec == Init /\ [][Next]_vars

\* The types of the variables.
TypeOK ==
    /\ accepted \subseteq Batches
    /\ copies \in [Batches -> Nat] /\ handled \in [Batches -> Nat] /\ again \in [Batches -> Nat]

\* The copies of a batch and the times it was handled add up to its deliveries:
\* the one a producer asked for, and one for each time it was left behind.
\* None is lost, and none comes from nowhere.
NeverLost ==
    \A b \in Batches :
       IF b \in accepted THEN copies[b] + handled[b] = 1 + again[b]
                         ELSE copies[b] = 0 /\ handled[b] = 0 /\ again[b] = 0
=============================================================================
