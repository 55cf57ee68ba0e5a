SPECIFICATION FairSpec
CONSTANTS
    w1 = w1
    w2 = w2
    Workers = {w1, w2}
    NoWorker = NoWorker
    Jobs = {1, 2}
    SuiteJobs = {2}
    LeaseTtl = 1
    RetryDelay = 1
    MaximumAttempts = 2
    MaxClock = 3
    MaxClaims = 2
CHECK_DEADLOCK FALSE
INVARIANTS
    SuccessIsPublication
    CommitHoldsTheFence
PROPERTIES
    LiveLeaseIsKept
    ImplementsOutcome
    LeaseIsReclaimed
