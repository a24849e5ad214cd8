\* Two TCMs, nobody dies and no sync times out; a result aborts the test.
CONSTANTS
    a = a
    b = b
    c = c
    TCM = {a, b}
    Master = a
    Zero = a
    NIC = 2
    tpcount <- MCtpcount
    Deletable <- MCNone
    MayAbort = TRUE
    MaxDead = 0
    MaxTimeouts = 0
SPECIFICATION Spec
INVARIANTS
    AbortIsClean
