\* Three processes, two of which have one pid: one may be killed, one
\* system call may fail unexpectedly.
CONSTANTS
    p1 = p1
    p2 = p2
    p3 = p3
    Process = {p1, p2, p3}
    Pid <- MCPid
    SALTMAX = 1
    Timeouts = {"zero", "positive"}
    MaxDead = 1
    MaxErrors = 1
SPECIFICATION FairSpec
INVARIANTS
    TypeOK
    MutualExclusion
    HoldersAreOnDisk
    NothingLeftOver
PROPERTIES
    ImplementsRWLock
    TimedRequestEnds
