SPECIFICATION Spec
CONSTANTS
    c = c
    c2 = c2
    m = m
    s = s
    Proc = {c, m, s}
    NoProc = NoProc
    ptr_sysid <- MCsysid
    ptr_ptype <- MCptype
    SysLists <- Systems0Or01
    Results = {"PASS", "NORESULT", "BROKEN"}
    AbortOn = {"BROKEN"}
    XRIDMAX = 1
    TFIDMAX = 0
    MaxLines = 4
    MaxGiven = 2
    Reconnect = FALSE
INVARIANTS
    TypeOK
    JournalWellFormed
    InProgressHasTcm
PROPERTIES
    EndedWhenUnused
    VerdictIsWorst
    AbortIsTold
CHECK_DEADLOCK FALSE
