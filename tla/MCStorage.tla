----------------------------- MODULE MCStorage ------------------------------
(* Small instances of what is kept and for how long: the coarser tiers,      *)
(* retention, the log shards, the move of the spans to a file of their own,  *)
(* the write-ahead log, the cache in front of the reads, and the boards.     *)
(* The components share no state; a behaviour is a behaviour of one of them. *)
EXTENDS RollupTiers, Retention, ShardFiles, SpansCutover, Checkpoints, ReadCache, Boards, TLC

CONSTANTS r1, r2   \* two requests

MCReqs == {r1, r2}

\* Requests differ by their names only.
ReqSymmetry == Permutations(MCReqs)

MCMetricTiers == <<0..9, {0, 2, 4, 6, 8}, {0, 3, 8}>>
MCSpanTiers == <<0..9, {0, 2, 4, 6, 8}, {0, 4, 8}>>
MCWindows == <<3, 4, 20>>

MCRetTrace == <<1, 1, 2>>
MCRetArrivals == <<{0}, {0}, {0, 1}>>
MCRetLoads == {<<"error", "plain", "durable">>, <<"slow", "boring", "slow">>}

MCShArrivals == <<{1}, {0, 4}, {}>>

VARIABLE part   \* the component this behaviour is about

\* One component runs; the others rest in one of their initial states.
Init ==
    /\ part \in {"tiers", "retention", "shards", "cutover", "wal", "reads", "boards"}
    /\ TierInit /\ (part # "tiers" => ladder = "metric")
    /\ RetInit /\ (part # "retention" => kindOf = CHOOSE k \in RetLoads : TRUE)
    /\ ShInit
    /\ CoInit /\ (part # "cutover" => newInstall)
    /\ CkInit /\ (part # "wal" => ckMode = "recover")
    /\ RcInit /\ (part # "reads" => rcMode = "read" /\ rcStore = "memory")
    /\ BdInit /\ (part # "boards" => bdMode = "boards")

Next ==
    /\ UNCHANGED part
    /\ \/ /\ part = "tiers" /\ TierNext
          /\ UNCHANGED <<retVars, shVars, coVars, ckVars, rcVars, bdVars>>
       \/ /\ part = "retention" /\ RetNext
          /\ UNCHANGED <<tierVars, shVars, coVars, ckVars, rcVars, bdVars>>
       \/ /\ part = "shards" /\ ShNext
          /\ UNCHANGED <<tierVars, retVars, coVars, ckVars, rcVars, bdVars>>
       \/ /\ part = "cutover" /\ CoNext
          /\ UNCHANGED <<tierVars, retVars, shVars, ckVars, rcVars, bdVars>>
       \/ /\ part = "wal" /\ CkNext
          /\ UNCHANGED <<tierVars, retVars, shVars, coVars, rcVars, bdVars>>
       \/ /\ part = "reads" /\ RcNext
          /\ UNCHANGED <<tierVars, retVars, shVars, coVars, ckVars, bdVars>>
       \/ /\ part = "boards" /\ BdNext
          /\ UNCHANGED <<tierVars, retVars, shVars, coVars, ckVars, rcVars>>

Spec == Init /\ [][Next]_<<part, tierVars, retVars, shVars, coVars, ckVars, rcVars, bdVars>>
-----------------------------------------------------------------------------
(* What holds of each component, in the behaviours that are about it: at rest *)
(* it stays in a state that is an initial state of its own behaviours.        *)

\* The tiers keep history: rows are summarised before retention deletes them,
\* coarse rows are built from whole windows, an idle compactor is not reported
\* as stalled, and a planned read counts each span once (rollup_tiers.go,
\* compactor.go, plan.go).
TiersSound == part = "tiers" => TiersInv

\* A retention cycle keeps what it promises, wherever it was stopped before:
\* error and durable spans are copied first, listed traces and exemplars can be
\* opened with current counts, nothing stays overdue, slow samples are capped
\* (retention.go, repo_trace_summaries_trim.go).
RetentionSound == part = "retention" => RetentionInv

\* Log shards come and go under running inserts and reads: no insert or pool
\* holds a deleted file, table and directory agree, protected logs outlive
\* their file, and a log is readable for its window (shards.go).
ShardsSound == part = "shards" => ShardsInv

\* The read cache leaks no slot and no refresh mark, cuts no scan short, and
\* serves nothing older than its window (cache.go, swr_cache.go).
CacheSound == part = "reads" => CacheInv

\* Boards, panels, their queries and the calculated fields stay consistent
\* whatever requests interleave and wherever EnsureBoard stops
\* (repo_boards.go, repo_project_boards.go, board_metrics.go).
BoardsSound == part = "boards" => BoardsInv
=============================================================================
