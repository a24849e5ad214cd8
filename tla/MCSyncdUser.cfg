SPECIFICATION FairSpec
CONSTANTS
    m = m
    s = s
    s2 = s2
    t = t
    Proc = {m, s, s2}
    NoProc = NoProc
    ptr_sysid <- MCsysid
    ptr_ptype <- MCptype
    SysLists <- SystemsBad
    UserLists <- UsersBad
    AutoReqs <- None
    UserReqs <- UserLive
    SPMAX = 3
    SNIDMAX = 1
    MaxTimedOut = 1
    Siblings = FALSE
INVARIANTS
    NoDanglingPtab
PROPERTIES
    TimedWaitEnds
