\* Three TCMs, a TP of the first IC may be deleted: one TCM may die, one
\* sync may time out, and a result may abort the test case.
CONSTANTS
    a = a
    b = b
    c = c
    TCM = {a, b, c}
    Master = a
    Zero = a
    NIC = 2
    tpcount <- MCtpcount
    Deletable <- MCDeletable
    MayAbort = TRUE
    MaxDead = 1
    MaxTimeouts = 1
SPECIFICATION FairSpec
INVARIANTS
    TypeOK
    InStep
    DeletedNotInvoked
    NoResultLost
    ErrorHasCause
PROPERTIES
    CleanupIsLast
    AllExit
