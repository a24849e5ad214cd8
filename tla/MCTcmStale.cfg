\* Two TCMs, nobody dies, no sync times out and no test is aborted.
CONSTANTS
    a = a
    b = b
    c = c
    TCM = {a, b}
    Master = a
    Zero = a
    NIC = 2
    tpcount <- MCtpcount
    Deletable <- MCDeletable
    MayAbort = FALSE
    MaxDead = 0
    MaxTimeouts = 0
SPECIFICATION Spec
INVARIANTS
    UninitiatedIsDeleted
