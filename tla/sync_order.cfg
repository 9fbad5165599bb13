SPECIFICATION Spec
CONSTANTS
    Replica = {a, b}
    QueueSize = 2
    MaxVersion = 2
    MaxFaults = 1
    MaxCrashes = 1
    MaxMoves = 1
SYMMETRY Symmetry
INVARIANTS InOrder NothingMissed
PROPERTIES HpaNeverOlder
CHECK_DEADLOCK FALSE
