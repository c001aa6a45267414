SPECIFICATION Spec
CONSTANTS
    MaxTask = 2
    TaskCapacity = 2
    Limits <- MCLimits
    MaxOps = 4
PROPERTY
    MatchWakesReceiver
CHECK_DEADLOCK FALSE
