SPECIFICATION SettledSpec
CONSTANTS
    Replica = {a, b}
    LeaseDuration = 2
    RenewInterval = 1
    DrainDuration = 0
    OldAge = 2
    MaxStarts = 1
    MaxCrashes = 1
    MaxFaults = 0
    MaxLate = 0
    NoLease = NoLease
    NoList = NoList
PROPERTIES Convergence
