SPECIFICATION Spec
CONSTANTS
    c = c
    c2 = c2
    m = m
    s = s
    Proc = {c, c2, m}
    NoProc = NoProc
    ptr_sysid <- MCsysid
    ptr_ptype <- MCptype
    SysLists <- Systems0Bad
    Results = {}
    AbortOn = {}
    XRIDMAX = 2
    TFIDMAX = 1
    MaxLines = 1
    MaxGiven = 2
    Reconnect = TRUE
INVARIANTS
    NoDanglingPtab
