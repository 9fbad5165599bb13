SPECIFICATION Spec
CONSTANTS
    Replica = {a}
    LeaseDuration = 2
    RenewInterval = 2
    DrainDuration = 2
    OldAge = 2
    MaxStarts = 2
    MaxCrashes = 1
    MaxFaults = 1
    MaxLate = 1
    NoLease = NoLease
    NoList = NoList
PROPERTIES SelfStaysOut NoReactivation DeletionHolds
