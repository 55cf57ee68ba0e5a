SPECIFICATION Spec
CONSTANTS
    p1 = p1
    p2 = p2
    Plans = {p1, p2}
    NoPlan = NoPlan
    ReconcileLimit = 1
    MaxRetained = 2
    MaxRecordings = 2
INVARIANTS
    FinalizedPairIsOwned
