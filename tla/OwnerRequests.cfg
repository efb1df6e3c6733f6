SPECIFICATION RequestsSpec
CONSTANTS
    Sessions = {s1, s2}
    Devices = {d1, d2}
    Desk = Desk
    BusySecs = 2
    GraceSecs = 2
INVARIANT RecordsCoherent
PROPERTY HolderIsAskedFirst
PROPERTY GraceIsNotRestarted
PROPERTY GraceEnds
