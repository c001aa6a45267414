SPECIFICATION FairSpec
CONSTANTS
    l1 = l1
    l2 = l2
    Lanes = {l1, l2}
    Bodies = {"pure", "reject", "effect"}
    MaxRange = 3
    MaxTicket = 5
INVARIANTS
    TypeOK
    CommitTurn
    SequencerExclusive
    NoAbort
    FrontierCaughtUp
    IndInv
PROPERTIES
    CommitOrder
    TurnMonotone
    BatchDrains
CHECK_DEADLOCK FALSE
