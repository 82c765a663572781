SPECIFICATION Spec
CONSTANTS
    NULL = NULL
    ArgvStep = 3
    MaxArgs = 5
    MaxPrefixes = 3
INVARIANTS ArgvFits
CHECK_DEADLOCK FALSE
