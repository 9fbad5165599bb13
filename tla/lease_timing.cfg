SPECIFICATION PromptSpec
CONSTANTS
    Replica = {a, b}
    LeaseDuration = 3
    RenewInterval = 1
    DrainDuration = 4
    OldAge = 6
    MaxStarts = 2
    MaxCrashes = 1
    MaxFaults = 1
    MaxLate = 0
    NoLease = NoLease
    NoList = NoList
SYMMETRY Symmetry
INVARIANTS DeadForgotten PeersSeeDrain
PROPERTIES LiveStaysActive
