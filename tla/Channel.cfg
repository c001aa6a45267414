SPECIFICATION FairSpec
CONSTANTS
    MaxTask = 3
    TaskCapacity = 2
    Limits <- MCLimits
    MaxOps = 4
INVARIANTS
    TypeOK
    Fifo
    NoMissedMatch
    ParkedIsQueued
    ReleasedQuiet
    DefiniteOutcome
PROPERTIES
    WaitEnds
    AbandonReleases
CHECK_DEADLOCK FALSE
