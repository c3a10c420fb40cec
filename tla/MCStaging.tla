------------------------------ MODULE MCStaging ------------------------------
(* Small instances of span staging for TLC. *)
EXTENDS Staging

CONSTANTS t1, t2

\* A span is its trace and a number; both traces run the same operation.
Span(t, i) == [trace |-> t, num |-> i]

TwoTraces == {Span(t1, 1), Span(t1, 2), Span(t2, 1)}
MCTraceOf == [s \in Spans |-> s.trace]
MCOpOf == [t \in {t1, t2} |-> "op"]

\* One trace has an error, or none has.
OneDirty == {{Span(t1, 1)}}
OneOrNoneDirty == OneDirty \cup {{}}
==============================================================================
