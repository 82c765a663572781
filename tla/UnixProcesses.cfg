SPECIFICATION MCSpec
CONSTANTS
    None = None  f1 = f1  f2 = f2  joe = joe  staff = staff  nobody = nobody
    Text <- Texts
    Scenarios <- ProgramScenarios
    WithFile = {"t_flock"}
    Input <- String
    MaxProc = 3
    MaxFaults = 1
    PIPE_SIZE = 3
    EnvNames = {"a", "b"}  EnvValues = {"x", "y"}  MaxEnv = 3
INVARIANTS ProgramsRight ToolsRight AclExact LibraryExact
PROPERTIES EverythingEnds
CHECK_DEADLOCK FALSE
