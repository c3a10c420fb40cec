----------------------------- MODULE RedisLists -----------------------------
(* Redis lists, as the write queues use them (external).  LPUSH puts an entry *)
(* at the left end; LMOVE and BLMOVE take the one at the right end.  These     *)
(* are defined here, not taken from SequencesExt, so that the proofs about     *)
(* the queue carry a small context.                                            *)
EXTENDS Sequences, FiniteSets, Naturals

RightEnd(list) == list[Len(list)]
DropRight(list) == SubSeq(list, 1, Len(list) - 1)

\* LREM with count 1: the first entry from the left that is equal to b.
LRem(list, b) ==
    LET at == {i \in DOMAIN list : list[i] = b}
        first == CHOOSE i \in at : \A j \in at : i <= j
    IN  IF at = {} THEN list
        ELSE SubSeq(list, 1, first - 1) \o SubSeq(list, first + 1, Len(list))

\* How often b is on the list.
Occurs(list, b) == Cardinality({i \in DOMAIN list : list[i] = b})
=============================================================================
