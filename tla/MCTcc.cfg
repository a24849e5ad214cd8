\* One test case on two systems, one on one of them, in one directory: one
\* operation may fail, and tools need not exit.
CONSTANTS
    a = a
    b = b
    s1 = s1
    s2 = s2
    src = src
    exe = exe
    NoDir = NoDir
    TC = {a, b}
    System = {s1, s2}
    Sys <- MCSys
    Dir <- MCDir
    ExecDir <- MCExecDir
    OneJournal <- MCManyJournals
    Api = FALSE
    Modes = {"BUILD", "EXEC", "CLEAN"}
    ExecLock = {"BUILD", "EXEC", "CLEAN"}
    ReadOnly <- MCReadOnly
    InPlace = FALSE
    Capture = TRUE
    Timed = TRUE
    MayFail = {"jnl", "start", "lock", "copy", "exec", "wait"}
    MaxFails = 1
    TERMWAIT = 1
    KILLWAIT = 1
    Signals = {"SIGQUIT", "SIGTERM"}
SPECIFICATION FairSpec
INVARIANTS
    TypeOK
    NobodyStuck
    ToolsAreIsolated
    NotExecutedUnbuilt
    NothingLeftBehind
PROPERTIES
    NothingStartsAfterAbort
    Termination
