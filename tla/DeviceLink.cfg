SPECIFICATION FairSpec
CONSTANTS
    Sessions = {s1}
    Devices = {d1}
    Desk = Desk
    BusySecs = 1
    GraceSecs = 1
    Conns = {c1, c2}
    MaxConns = 2
    StoreMayFail = FALSE
INVARIANT RevocationFindsEveryConnection
INVARIANT TableMatchesThreads
INVARIANT AbsentOwnerIsNoticed
PROPERTY AbsentOwnerLetsGo
PROPERTY RevokedLeaves
