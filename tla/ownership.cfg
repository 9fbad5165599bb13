SPECIFICATION Spec
CONSTANTS
    a = a
    b = b
    c = c
    e = e
    f = f
    Replica = {a, b}
    Live = {a}
    Epa = {e, f}
    MaxWeight = 3
    Weight <- MCWeight
    Nobody = Nobody
    Period = {1, 2}
    GraceBuffer = 1
    None = None
    MaxElapsed = 3
    MaxDeletes = 1
INVARIANTS WonOrLost WindowAsOldAsOwnership
PROPERTIES GraceHonoured
