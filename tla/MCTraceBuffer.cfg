\* Two loads over a cap of two spans: two traces of two spans, one with an
\* error, and three clean traces of one operation, one of them slow.  Every
\* order of spans, evictions, carried drops, flushes, late spans, shutdown.
CONSTANTS
    t1 = t1
    t2 = t2
    t3 = t3
    t4 = t4
    t5 = t5
    Traces <- MCTraces
    Spans <- MCSpans
    Loads <- BothLoads
    TraceOf <- MCTraceOf
    Roots <- MCRoots
    Errors <- MCErrors
    Slow <- MCSlow
    Ops = {"op"}
    OpOf <- MCOpOf
    SampledRooted = {t1, t3}
    SampledRootless = {t2, t3}
    Ratio = 3
    Floor = TRUE
    MaxSpans = 2
    MaxDecided = 2
    MaxHeldSpans = 1
    OutCap = 1
    InFlight <- OneInFlight
    NoSpan = NoSpan
SPECIFICATION Spec
INVARIANTS
    BufferLedger
    CapKeepsErrors
    DecisionSticks
    NothingLeftBehind
CHECK_DEADLOCK FALSE
