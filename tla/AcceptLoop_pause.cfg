SPECIFICATION Spec

CONSTANTS
    NumWorkers = 1
    NumListeners = 1
    Limit = 1
    MaxConns = 2
    MaxFaults = 0
    MaxErrors = 1
    MaxCmds = 3

INVARIANTS
    PausedIsDeaf

CHECK_DEADLOCK FALSE
