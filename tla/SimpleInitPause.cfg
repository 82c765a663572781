SPECIFICATION FairSpec
CONSTANTS
    MaxCmds = 2
    Orphans = {}
PROPERTY PauseInterrupted
CHECK_DEADLOCK FALSE
