--------------------------- MODULE MCTraceBuffer ---------------------------
(* Small instances of the trace buffer for TLC.  A span is a trace with its *)
(* role: "r" root, "c" child, "e" child with an error, "s" slow root.        *)
EXTENDS TraceBuffer

CONSTANTS t1, t2, t3, t4, t5

\* Two traces, one of them with an error.
ErrorSpans == {<<t1, "r">>, <<t1, "c">>, <<t2, "r">>, <<t2, "e">>}

\* Three clean traces of one operation, one of them slow.
CarrySpans == {<<t3, "r">>, <<t3, "c">>, <<t4, "r">>, <<t5, "s">>}

\* A trace of two spans and one of a single span.
FewSpans == {<<t1, "r">>, <<t1, "c">>, <<t2, "r">>}

BothLoads == {ErrorSpans, CarrySpans}
FewLoads == {FewSpans}
OneInFlight == {<<t1, "c">>}

MCTraces == {s[1] : s \in Spans}
MCSpans == UNION Loads
MCTraceOf == [s \in Spans |-> s[1]]
MCRoots == {s \in Spans : s[2] \in {"r", "s"}}
MCErrors == {s \in Spans : s[2] = "e"}
MCSlow == {s \in Spans : s[2] = "s"}
MCOpOf == [t \in Traces |-> "op"]
=============================================================================
