SPECIFICATION Spec
CONSTANTS
    TaskCapacity = 3
    ReadyCapacity = 2
    Lanes = 1
    Workloads <- MCWorkloads
    Gaps = {0, 6}
    MaxId = 11
    Accepts <- MCAccepts
    MaxGeneration = 2
    Holders = {h1, h2}
INVARIANTS
    TypeOK
    LookupExact
    ResultExact
PROPERTIES
    ImplementsFifo
CHECK_DEADLOCK FALSE
