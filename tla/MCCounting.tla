----------------------------- MODULE MCCounting -----------------------------
(* Small instances of what is counted from the telemetry as it comes in: the *)
(* accumulators, the metric points and their rollups, the pages that read    *)
(* the counts, and the pod's own metrics.                                    *)
(* The components share no state; a behaviour is a behaviour of one of them. *)
EXTENDS Accumulators, MetricPoints, MetricRollups, ServiceStats, SelfMetrics

MCBucket == [i \in Items |-> IF i <= 2 THEN 2 ELSE 3]
MCService == [i \in Items |-> IF i <= 2 THEN 1 ELSE 2]
MCName == [i \in Items |-> i]

MCFirst == <<0, 6>>
MCBounds == <<5, 10, 25>>
MCGrowth == [m \in MpModes |-> IF m = "shared" THEN {0, 3} ELSE {0, 2}]
MCPoints == [hist |-> 0, shared |-> 6, single |-> 5, labelled |-> 4]

MCPaces == {<<3, 0, 1, 0, 2, 5, 0, 4, 1, 2>>}

VARIABLE part   \* the component this behaviour is about

\* One component runs; the others rest in one of their initial states.
Init ==
    /\ part \in {"accumulators", "points", "rollups", "pages", "self"}
    /\ AccInit /\ (part # "accumulators" => accKind = "writer")
    /\ MpInit /\ (part # "points" => mpMode = "single")
    /\ MrInit /\ (part # "rollups" => mrKind = "sum")
    /\ SsInit /\ (part # "pages" => ssMode = "writer")
    /\ SmInit

Next ==
    /\ UNCHANGED part
    /\ \/ /\ part = "accumulators" /\ AccNext
          /\ UNCHANGED <<mpVars, mrVars, ssVars, smVars>>
       \/ /\ part = "points" /\ MpNext
          /\ UNCHANGED <<accVars, mrVars, ssVars, smVars>>
       \/ /\ part = "rollups" /\ MrNext
          /\ UNCHANGED <<accVars, mpVars, ssVars, smVars>>
       \/ /\ part = "pages" /\ SsNext
          /\ UNCHANGED <<accVars, mpVars, mrVars, smVars>>
       \/ /\ part = "self" /\ SmNext
          /\ UNCHANGED <<accVars, mpVars, mrVars, ssVars>>

Spec == Init /\ [][Next]_<<part, accVars, mpVars, mrVars, ssVars, smVars>>
=============================================================================
