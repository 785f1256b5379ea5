SPECIFICATION Spec

CONSTANTS
    NumWorkers = 2
    NumListeners = 1
    Limit = 1
    MaxConns = 4
    MaxFaults = 0
    MaxErrors = 0
    MaxCmds = 0

INVARIANTS
    AcceptMustNotPanic

CHECK_DEADLOCK FALSE
