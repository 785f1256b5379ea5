SPECIFICATION FairSpec

CONSTANTS
    NumWorkers = 1
    NumListeners = 2
    Limit = 1
    MaxConns = 2
    MaxFaults = 0
    MaxErrors = 1
    MaxCmds = 2

INVARIANTS
    ListenerWatched
    NoLostEdge

PROPERTIES
    BacklogDrains
    StopCompletes

CHECK_DEADLOCK FALSE
