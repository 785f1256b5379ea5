SPECIFICATION FairSpec

CONSTANTS
    Arbiters = {a1, a2}
    SysArbiter = sys
    Waiters = {w1}
    MaxStops = 2
    MaxCmds = 2

INVARIANTS
    FirstStopWins

PROPERTY StopReachesArbiters

CHECK_DEADLOCK FALSE
