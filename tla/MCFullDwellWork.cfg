SPECIFICATION FairSpec
CONSTANTS
    w1 = w1
    w2 = w2
    Workers = {w1, w2}
    Suites = {1, 2}
    NoSuite = 0
    MaximumActive = 1
    MaximumAdmissions = 1
    MaximumAttempts = 2
    MaximumConcurrency = 2
    MaxSupervisors = 2
    MaxFaults = 1
CHECK_DEADLOCK FALSE
INVARIANTS
    BacklogIsBounded
    GuardIsTheOwners
PROPERTIES
    AdmittedIsSettled
