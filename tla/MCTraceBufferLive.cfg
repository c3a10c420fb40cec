\* Liveness of the shutdown.
CONSTANTS
    t1 = t1
    t2 = t2
    t3 = t3
    t4 = t4
    t5 = t5
    Traces <- MCTraces
    Spans <- MCSpans
    Loads <- FewLoads
    TraceOf <- MCTraceOf
    Roots <- MCRoots
    Errors <- MCErrors
    Slow <- MCSlow
    Ops = {"op"}
    OpOf <- MCOpOf
    SampledRooted = {t1}
    SampledRootless = {t2}
    Ratio = 3
    Floor = TRUE
    MaxSpans = 2
    MaxDecided = 2
    MaxHeldSpans = 1
    OutCap = 1
    InFlight <- OneInFlight
    NoSpan = NoSpan
SPECIFICATION FairSpec
PROPERTY
    DrainEnds
CHECK_DEADLOCK FALSE
