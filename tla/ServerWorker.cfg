SPECIFICATION Spec

CONSTANTS
    NumServices = 2
    ShutdownTimeout = 2
    MaxConns = 2
    MaxStops = 2
    MaxChanges = 1

INVARIANTS
    NoLostWake
    HonestReply
    DispatchToReady

PROPERTIES
    CountsConnections
    StopEndsWorker
    ConnsLeaveChannel

CHECK_DEADLOCK FALSE
