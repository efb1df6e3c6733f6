SPECIFICATION FairSpec
CONSTANTS
    Socks = {k1, k2, k3, k4}
    Sources = {a1}
    Tokens = {t1}
    Rendezvous = {r1, r2}
    None = None
    MaxConns = 4
    MaxPerSource = 3
    MaxRegs = 1
    MaxPerToken = 1
    MaxWaiting = 1
    Watched = {k1}
INVARIANT HoldsAreHeld
INVARIANT LentIsHeld
PROPERTY KeepsPairing
PROPERTY Settles
