\* Whole-trace chunks, no failing commit.
SPECIFICATION Spec
CONSTANTS
    t1 = t1
    t2 = t2
    Spans <- TwoTraces
    TraceOf <- MCTraceOf
    OpOf <- MCOpOf
    Loads <- OneDirty
    Ratio = 0
    MinPerHour = 1
    MinPerMinute = 1
    ChunkRows = 10
    BatchTraces = 2
    MaxStaged = 4
    MaxFaults = 0
INVARIANT
    EveryRowAccounted
CHECK_DEADLOCK FALSE
