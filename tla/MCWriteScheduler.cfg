\* Two writers of each priority over one-slot channels.
CONSTANTS
    HighJobs = {h1, h2}
    LowJobs = {l1, l2}
    HighCap = 1
    LowCap = 1
    NoJob = NoJob
SPECIFICATION FairSpec
INVARIANTS
    IInv
    ErrStoppedMeansNeverRun
    HighWaitsForOneLow
    QueuedJobsRunBeforeStop
PROPERTY
    SubmitReturns
CHECK_DEADLOCK FALSE
