SPECIFICATION FairSpec

CONSTANTS
    Trees <- MCTrees
    MaxPending = 2
    MaxRequests = 2

INVARIANTS
    AnswersAsComposed
    NoPollAfterEnd
    SleepsWithWakers
    CalledWhenReady

PROPERTIES
    JobsEnd

CHECK_DEADLOCK FALSE
