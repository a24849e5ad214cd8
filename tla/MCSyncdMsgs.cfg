SPECIFICATION Spec
CONSTANTS
    m = m
    s = s
    s2 = s2
    t = t
    Proc = {m, s}
    NoProc = NoProc
    ptr_sysid <- MCsysid
    ptr_ptype <- MCptype
    SysLists <- Systems01
    UserLists <- Users01
    AutoReqs <- AutoOne
    UserReqs <- UserMsgs
    SPMAX = 3
    SNIDMAX = 2
    MaxTimedOut = 1
    Siblings = FALSE
INVARIANTS
    WaiterHeld
    UserSyncUnique
PROPERTIES
    DataComesFromEvent
