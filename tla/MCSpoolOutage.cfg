\* Rotation, and no fault but a Redis outage.
CONSTANTS
    NumRecords = 4
    QueueCap = 2
    MaxBytes = 2
    BatchSize = 2
    Faults = {"outage"}
    MaxCrashes = 0
    MaxUnknown = 4
    NoFile = NoFile
SPECIFICATION Spec
INVARIANT
    OutageLosesNothing
CHECK_DEADLOCK FALSE
