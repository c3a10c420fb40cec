------------------------------- MODULE MCPods -------------------------------
(* Small instances of a pod and what it answers to: how it starts and stops, *)
(* the gates in front of ingest, web sessions, projects and their keys, the  *)
(* alerts, and the clients that send telemetry.                              *)
(* The components share no state; a behaviour is a behaviour of one of them. *)
EXTENDS Lifecycle, Gates, WebSessions, Projects, Alerts, Exporters, TLC

CONSTANTS r1, r2   \* two requests

MCReqs == {r1, r2}

\* Requests differ by their names only.
ReqSymmetry == Permutations(MCReqs)

VARIABLE part   \* the component this behaviour is about

\* One component runs; the others rest in one of their initial states.
Init ==
    /\ part \in {"pods", "gates", "sessions", "projects", "alerts", "exporters"}
    /\ LcInit /\ (part # "pods" => lcMode = "reader")
    /\ GtInit /\ (part # "gates" => gtMode = "log")
    /\ SesInit
    /\ PjInit /\ (part # "projects" => pjMode = "requests")
    /\ AlInit /\ (part # "alerts" => alMode = "slo" /\ burnRow = NoAlert)
    /\ ExpInit /\ (part # "exporters" => expKind = "go")

Next ==
    /\ UNCHANGED part
    /\ \/ /\ part = "pods" /\ LcNext
          /\ UNCHANGED <<gtVars, sesVars, pjVars, alVars, expVars>>
       \/ /\ part = "gates" /\ GtNext
          /\ UNCHANGED <<lcVars, sesVars, pjVars, alVars, expVars>>
       \/ /\ part = "sessions" /\ SesNext
          /\ UNCHANGED <<lcVars, gtVars, pjVars, alVars, expVars>>
       \/ /\ part = "projects" /\ PjNext
          /\ UNCHANGED <<lcVars, gtVars, sesVars, alVars, expVars>>
       \/ /\ part = "alerts" /\ AlNext
          /\ UNCHANGED <<lcVars, gtVars, sesVars, pjVars, expVars>>
       \/ /\ part = "exporters" /\ ExpNext
          /\ UNCHANGED <<lcVars, gtVars, sesVars, pjVars, alVars>>

Spec == Init /\ [][Next]_<<part, lcVars, gtVars, sesVars, pjVars, alVars, expVars>>
-----------------------------------------------------------------------------
(* What holds of each component, in the behaviours that are about it: at rest *)
(* it stays in a state that is an initial state of its own behaviours.        *)

\* A pod of each mode starts and stops in an order that keeps what it accepted:
\* traffic meets a whole pod, handles outlive their users, schedulers outlive
\* the writers, the wait ends, and items and counts are kept (serve.go).
PodsSound == part = "pods" => PodsInv

\* Web sessions on the writer and its replicas: no token is replayed, no dead
\* session returns, nobody is served past the cap or the grace, and a
\* revocation bites (sessions.go, repo_sessions.go).
SessionsSound == part = "sessions" => SessionsInv

\* Projects and keys stay consistent under concurrent setup, seeding, deletes
\* and restarts, and a key's last use is shown in time (repo_projects.go,
\* setup.go).
ProjectsSound == part = "projects" => ProjectsInv

\* Alerts rest on final counts, tell before they are recorded as firing, keep
\* their cooldown, clear on data, keep their windows and are justified
\* (slo_eval.go, evaluator.go).
AlertsSound == part = "alerts" => AlertsInv

\* Each client's buffer is capped and accounts for every item: sent once,
\* dropped with a count, or delivered at shutdown (sdk exporters).
ExportersSound == part = "exporters" => ExportersInv
=============================================================================
