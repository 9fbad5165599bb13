SPECIFICATION SettledSpec
CONSTANTS
    a = a
    b = b
    c = c
    e = e
    Replica = {a, b, c}
    Live = {a, b, c}
    Epa = {e}
    MaxWeight = 3
    Weight <- MCWeight
    Nobody = Nobody
    Period = {2}
    GraceBuffer = 3
    None = None
    MaxElapsed = 5
    MaxDeletes = 0
    Initially = {a, b, c}
    P = 2
    MaxLag = 2
    DrainTicks = 6
    LeaseTicks = 2
    MaxJoins = 0
    MaxDrains = 2
    MaxCrashes = 0
    Gap = 8
    MaxCalm = 9
INVARIANTS FullAnswer TwoHops
