\* Four records over files that rotate after two, with every fault and a crash.
CONSTANTS
    NumRecords = 4
    QueueCap = 2
    MaxBytes = 2
    BatchSize = 2
    Faults = {"outage", "unknown", "full", "write", "rotate", "save"}
    MaxCrashes = 1
    MaxUnknown = 0
    NoFile = NoFile
SPECIFICATION FairSpec
INVARIANTS
    SpoolKeeps
    PublishedOnceInOrder
    DrainDelivers
PROPERTY
    EventuallyPublished
CHECK_DEADLOCK FALSE
