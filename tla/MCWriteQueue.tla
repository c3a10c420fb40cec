---------------------------- MODULE MCWriteQueue ----------------------------
(* Small instances of the write queue for TLC: two batches and each of the   *)
(* consumers.  The inline worker has a fresh batch and one with nothing to     *)
(* store, the staging worker one that panics the store, the logs and the       *)
(* ledger consumer one that is garbled.                                        *)
EXTENDS WriteQueue

CONSTANTS b1, b2

TwoBatches == {b1, b2}

Plain(kind) == [kind |-> kind, fresh |-> {}, boring |-> {}, poison |-> {}, garbled |-> {}]

EveryConsumer ==
    {[Plain("inline") EXCEPT !.fresh = {b2}, !.boring = {b1}],
     [Plain("staging") EXCEPT !.fresh = {b1}, !.poison = {b1}],
     [Plain("logs") EXCEPT !.garbled = {b1}],
     Plain("metrics"),
     [Plain("ledger") EXCEPT !.garbled = {b1}]}

StagingConsumer == {[Plain("staging") EXCEPT !.fresh = {b1}]}
=============================================================================
