SPECIFICATION MCSpec
CONSTANTS
    NoThread = NoThread
    Threads = {t1, t2, t3}
    Calls = 2
    SemProcs = {"p1", "p2", "p3", "p4"}
    SemOp <- MCSemOp
    MAX_TRIES = 2
    Garbage = {0, 5}
    FileProcs = {"p1", "p2", "p3"}
    PidStr <- MCPidStr
    Inodes = {"i1", "i2", "i3"}
    NoFile = "none"
    numChildren = 4
    MaxFd = 3
    OpenMax = {4}
    BD_MAX_CLOSE = 3
    SLEEP_TIME = 3
    MaxVersion = 1
    CountMod = 2
    MaxCmds = 2
    Orphans = {11}
    Others = {"o1"}
    MaxInterrupts = 2
INVARIANTS OnceSafe FirstOneSafe ChildrenCounted DaemonDetached HupSafe InitSafe SystemSafe
    TimersExact NamespacesSafe JobsSafe
PROPERTIES ProcessesSettle
CHECK_DEADLOCK FALSE
