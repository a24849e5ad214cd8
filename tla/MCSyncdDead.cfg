SPECIFICATION Spec
CONSTANTS
    m = m
    s = s
    s2 = s2
    t = t
    Proc = {m, s, t}
    NoProc = NoProc
    ptr_sysid <- MCsysid
    ptr_ptype <- MCptype
    SysLists <- Systems012
    UserLists <- None
    AutoReqs <- AutoThree
    UserReqs <- None
    SPMAX = 3
    SNIDMAX = 1
    MaxTimedOut = 1
    Siblings = FALSE
INVARIANT AssertsHold
CHECK_DEADLOCK FALSE
