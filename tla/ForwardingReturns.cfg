SPECIFICATION FairSpec
CONSTANTS
    Calls = {c1}
    Commands = {}
    Conns = {k1, k2, k3}
    Loops = {l1, l2}
    None = None
    MayFail = FALSE
INVARIANT LostAsksAreFailed
PROPERTY DeskComesBack
CHECK_DEADLOCK FALSE
