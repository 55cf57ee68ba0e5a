SPECIFICATION FairSpec
CONSTANTS
    p1 = p1
    p2 = p2
    Procs = {p1, p2}
    Slots = 3
    MaximumCaptureInvocations = 2
    MaximumAnalysisInvocations = 2
    MaximumFreshAttempts = 2
    Qualification = FALSE
    WindowBatches = 2
    Stages = 2
    Items = {1, 2}
    Kinds = {"deferred", "one_shot", "canary"}
    Targets = {2, 5}
CHECK_DEADLOCK FALSE
INVARIANTS
    JournalIsCanonical
    NeverReplay
    CapturedOnce
    JournalIsBacked
    StageBarrier
PROPERTIES
    CaptureThenAnalysis
    HaltIsFinal
    DrainEnds
