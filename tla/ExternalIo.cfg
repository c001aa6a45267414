SPECIFICATION FairSpec
CONSTANTS
    TaskCount = 3
    LaneCount = 2
    SlotCount = 2
    PayloadCapacity = 2
    Scripts <- MCScripts
    JoinTarget = 1
    MaxScopes = 2
INVARIANTS
    TypeOK
    DrainQuiet
    SubmissionOrder
    AwaitedDone
PROPERTIES
    DrainEnds
    ReadyRuns
CHECK_DEADLOCK FALSE
