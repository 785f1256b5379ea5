SPECIFICATION FairRequestSpec

CONSTANTS
    V4 = {a4, b4}
    V6 = {a6}
    NoAddr = none
    MaxAddrs = 3

INVARIANT FirstReachableWins

PROPERTY RequestEnds

CHECK_DEADLOCK FALSE
