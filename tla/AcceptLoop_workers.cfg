SPECIFICATION StopSpec

CONSTANTS
    NumWorkers = 2
    NumListeners = 1
    Limit = 1
    MaxConns = 3
    MaxFaults = 1
    MaxErrors = 0
    MaxCmds = 0

INVARIANTS
    ConnLimit
    NoLostWakeup
    NoLostAvailability
    OneHolderPerIdx

PROPERTIES
    CountsConnections
    StopCompletes

CHECK_DEADLOCK FALSE
