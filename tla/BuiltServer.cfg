SPECIFICATION BuiltSpec

CONSTANTS
    NumWorkers = 2
    SystemStop = FALSE
    MaxCalls = 1
    MaxFaults = 2
    Addrs = {"a", "b"}
    Paths = {"p"}
    MaxBuilds = 2

INVARIANTS
    RightService

PROPERTIES
    KeepsContract
    StartupEnds
    CallsResolve
    NoOrphans

CHECK_DEADLOCK FALSE
