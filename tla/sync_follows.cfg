SPECIFICATION FairSpec
CONSTANTS
    Replica = {a}
    QueueSize = 1
    MaxVersion = 3
    MaxFaults = 1
    MaxCrashes = 1
    MaxMoves = 2
PROPERTIES AllRegister OwnerApplies OwnerForgets
CHECK_DEADLOCK FALSE
