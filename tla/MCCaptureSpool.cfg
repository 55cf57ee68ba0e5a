SPECIFICATION FairSpec
CONSTANTS
    p1 = p1
    p2 = p2
    Plans = {p1, p2}
    NoPlan = NoPlan
    ReconcileLimit = 1
    MaxRetained = 2
    MaxRecordings = 3
INVARIANTS
    RowsTellTheTruth
    OneDurableRecordingPerPlan
    SettledBeforeAnswered
PROPERTIES
    LocalBytesOutlivePublication
    CompleteIsSettled
