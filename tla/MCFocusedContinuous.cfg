SPECIFICATION FocusedSpec
CONSTANTS
    p1 = p1
    p2 = p2
    Procs = {p1, p2}
    Slots = 2
    MaximumCaptureInvocations = 2
    MaximumAnalysisInvocations = 2
    MaximumFreshAttempts = 2
    Releases = {1,2}
    Children = {1,2,3}
    MaximumDwells = 2
    MaximumInFlightAnalyses = 1
    MaximumAnalysisAttempts = 2
    MaxStarts = 2
    NoChild = 0
    NoRelease = 0
CHECK_DEADLOCK FALSE
INVARIANTS
    RowHasEvidence
    AnalysisIsSerialized
    RunningRowsAreWatched
PROPERTIES
    StopDrains
