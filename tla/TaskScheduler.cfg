SPECIFICATION FairSpec
CONSTANTS
    MaxTask = 4
    MaxScope = 2
    TaskCapacity = 3
    ReadyQueueCapacity = 2
    TimerCapacity = 2
    MaxOps = 1
    MaxRootOps = 4
INVARIANTS
    TypeOK
    EveryTaskPlaced
    JoinReportsTarget
    FailureReported
PROPERTIES
    IdsAscend
    RootReturns
CHECK_DEADLOCK FALSE
