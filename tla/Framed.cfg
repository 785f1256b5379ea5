SPECIFICATION FairSpec

CONSTANTS
    NoLimit = 99
    Limits = {0, 1, 99}
    HW = 2
    MaxItem = 1
    MaxInput = 4
    MaxDuplex = 1
    MaxOutput = 4

INVARIANTS
    FramesAreLines
    NoLineHeldBack

PROPERTIES
    OkMeansDelivered
    StreamEnds
