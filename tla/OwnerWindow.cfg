SPECIFICATION WindowSpec
CONSTANTS
    Sessions = {s1}
    Devices = {d1, d2}
    Desk = Desk
    Daemon = Daemon
    BusySecs = 1
    GraceSecs = 1
PROPERTY TakesOnlyFromTheSeen
SYMMETRY Symmetry
