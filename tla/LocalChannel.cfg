SPECIFICATION FairSpec

CONSTANTS
    Tasks = {t1, t2}
    NoTask = none
    MaxSenders = 3
    MaxSends = 3

INVARIANT NoLostWake

PROPERTY
    StreamServed

CHECK_DEADLOCK FALSE
