CONSTANTS
    Tasks = {1, 2}
    Fds = {1, 2, 3, 4}
    Programs <- MeetingBodies
    WaitCapacity = 3
    TimerCapacity = 2
    TaskCapacity = 2
    ReadyBudget = 1
    OutsideFds = {1}
    MaxNs = 3
    MaxGen = 2
    MaxFaults = 1
SPECIFICATION FairSpec
CHECK_DEADLOCK FALSE
INVARIANTS
    TypeOK
    WaitPlaced
    GroupSpans
    RegistrationCovers
    LogicalOrder
    NoSpuriousFailure
PROPERTIES
    WaitsEnd
