SPECIFICATION FairSpec
CONSTANTS
    l1 = l1
    l2 = l2
    Lanes = {l1, l2}
    Bodies = {"pure", "effect"}
    MaxRange = 3
    MaxTicket = 3
PROPERTIES EveryBatchDrains 
CHECK_DEADLOCK FALSE
