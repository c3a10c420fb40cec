\* Two traces of one operation, whole-trace chunks and parts side by side.  Rows
\* come as a bounded supply, so the system stops when they are flushed.
CONSTANTS
    t1 = t1
    t2 = t2
    Spans <- TwoTraces
    TraceOf <- MCTraceOf
    OpOf <- MCOpOf
    Loads <- OneOrNoneDirty
    Ratio = 2
    MinPerHour = 1
    MinPerMinute = 1
    ChunkRows = 2
    BatchTraces = 2
    MaxStaged = 3
    MaxFaults = 1
SPECIFICATION FairSpec
INVARIANTS
    StagedOnce
    FloorKeepsOne
PROPERTY
    StagingDrains
CHECK_DEADLOCK FALSE
