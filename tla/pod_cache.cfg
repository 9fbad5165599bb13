SPECIFICATION FairSpec
CONSTANTS
    Caller = {s, t}
    Reflector = {1, 2, 3, 4, 5, 6}
    None = None
    MaxTimeouts = 1
    MaxEnds = 1
INVARIANTS FewReflectors StoreIsLive
PROPERTIES CallReturns ReadyInTheEnd
