CONSTANTS
    Tasks = {1}
    Fds = {1}
    Programs <- ChannelThenSocket
    WaitCapacity = 1
    TimerCapacity = 1
    TaskCapacity = 1
    ReadyBudget = 1
    OutsideFds = {}
    MaxNs = 1000
    MaxGen = 1
    MaxFaults = 0
SPECIFICATION FairSpec
CHECK_DEADLOCK FALSE
INVARIANTS
    WaitHasWaker
