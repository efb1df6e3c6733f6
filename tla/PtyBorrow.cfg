CONSTANTS
    Sessions = {"s"}
    Devices = {"phone", "tablet"}
    Conns = {"p1", "p2", "t1"}
    DeviceOf <- MCDeviceOf
    Desk = "desk"
    DeskSizes = {"150x40"}
    SizeOf <- MCSizeOf
    None = "none"
    MaxConnects = 2
SPECIFICATION Spec
INVARIANTS GoneKeepsNoBorrow RightUnlessCrossed
CHECK_DEADLOCK FALSE
