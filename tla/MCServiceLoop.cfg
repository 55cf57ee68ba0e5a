SPECIFICATION FairSpec
CONSTANT
    MaxUnits = 3
CHECK_DEADLOCK FALSE
INVARIANTS
    FailureIsNotForgotten
    CleanExitIsClean
    AtMostOneLateUnit
PROPERTIES
    StopIsHonoured
