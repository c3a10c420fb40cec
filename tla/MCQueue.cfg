\* Every consumer over two batches, lost replies, killed pods, failing inserts
\* and full disks, with two writers that overlap.  A panic ends the consumer
\* goroutine and nothing restarts it, so the system may stop.
CONSTANTS
    b1 = b1
    b2 = b2
    NoBatch = NoBatch
    Batches <- TwoBatches
    Loads <- EveryConsumer
    MaxRetries = 2
    MaxWriters = 2
    MaxFaults = 2
    MaxErrors = 2
SPECIFICATION FairSpec
INVARIANTS
    OncePerDelivery
    GivenUpRightly
PROPERTIES
    AtLeastOnce
    EventuallyHandled
CHECK_DEADLOCK FALSE
