SPECIFICATION SettledSpec
CONSTANTS
    a = a
    b = b
    c = c
    e = e
    Replica = {a, b, c}
    Live = {a, b, c}
    Epa = {e}
    MaxWeight = 3
    Weight <- MCWeight
    Nobody = Nobody
    Period = {2}
    GraceBuffer = 1
    None = None
    MaxElapsed = 3
    MaxDeletes = 0
    Initially = {b, c}
    P = None
    MaxLag = 1
    DrainTicks = 4
    LeaseTicks = 2
    MaxJoins = 1
    MaxDrains = 1
    MaxCrashes = 1
    Gap = 0
    MaxCalm = 6
INVARIANTS Settles Recovers
