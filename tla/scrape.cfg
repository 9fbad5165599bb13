SPECIFICATION MCSpec
CONSTANTS
    Epa = {d, e}
    Pod = {p, q}
    Ready = {p}
    Worker = {v, w}
    First = e
    Second = d
    Hung = w
    Capacity = 1
    Interval = {2}
    None = None
    MaxFaults = 1
    MaxChanges = 1
    MaxRemovals = 1
    MaxDisturbances = 1
PROPERTIES CountedOnce EveryEpaPasses PodsScraped DepartedRest
