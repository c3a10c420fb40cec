\* The staging worker meets a full disk; nothing shuts it down.
CONSTANTS
    b1 = b1
    b2 = b2
    NoBatch = NoBatch
    Batches <- TwoBatches
    Loads <- StagingConsumer
    MaxRetries = 2
    MaxWriters = 1
    MaxFaults = 2
    MaxErrors = 2
SPECIFICATION Spec
INVARIANT
    DiskFullBatchKept
