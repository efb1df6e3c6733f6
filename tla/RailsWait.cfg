SPECIFICATION Spec
CONSTANTS
    Rails <- Two
    Stages <- WaitStages
    Sequential <- WaitSequence
    Kind <- WaitKind
    Trigger <- WaitTrigger
    Target <- WaitTarget
    Blockable = {"m"}
    Lockable = {}
    MaxTries = 1
    MaxPresses = 1
    MaxFaults = 1
INVARIANTS RowsAreTrue RunningRailsWait
PROPERTIES TicksDrain
CHECK_DEADLOCK FALSE
