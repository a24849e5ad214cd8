SPECIFICATION FairSpec
CONSTANTS
    MaxPid = 3
    WaitTimes = {"kill", "ever", "timed"}
    Unruly <- MCUnruly
    MayTerm = TRUE
INVARIANTS
    TypeOK
    OwnChild
    NoSurvivor
PROPERTIES
    ForkEnds
CHECK_DEADLOCK FALSE
