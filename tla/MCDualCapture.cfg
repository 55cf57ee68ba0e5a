SPECIFICATION FairSpec
CONSTANTS
    Modes = {"independent", "coordinated"}
    Slotted = TRUE
INVARIANTS
    CapturedAtMostOnce
    SuccessIsEarned
    TeardownPrecedesProjection
PROPERTIES
    CaptureIsReleased
    ImplementsBatch
    ExecutionEnds
