SPECIFICATION FairSpec
CONSTANTS
    TaskCount = 2
    LaneCount = 2
    SlotCount = 2
    PayloadCapacity = 2
    Scripts <- YieldScripts
    JoinTarget = 1
    MaxScopes = 1
INVARIANT DeadlockMeansIdle
CHECK_DEADLOCK FALSE
