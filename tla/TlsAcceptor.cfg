SPECIFICATION FairSpec

CONSTANTS
    Conns = {c1, c2}
    Worker = worker
    NoTask = none
    Limits = {0, 1}
    MaxChanges = 2

INVARIANTS
    LimitRespected
    NoLostWake

PROPERTIES
    HandshakesEnd
    QueueServed
