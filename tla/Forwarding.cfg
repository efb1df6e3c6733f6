SPECIFICATION FairAsks
CONSTANTS
    Calls = {c1}
    Commands = {c1}
    Conns = {k1, k2}
    Loops = {l1}
    None = None
    MayFail = TRUE
INVARIANT PendingIsAwaited
PROPERTY KeepsPromise
PROPERTY EveryAskEnds
CHECK_DEADLOCK FALSE
