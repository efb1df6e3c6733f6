SPECIFICATION Spec
CONSTANTS
    Rails <- Two
    Stages <- LoopStages
    Sequential = {}
    Kind <- LoopKind
    Trigger <- LoopTrigger
    Target <- LoopTarget
    Blockable = {}
    Lockable = {"c"}
    MaxTries = 1
    MaxPresses = 2
    MaxFaults = 0
INVARIANTS RowsAreTrue RunningRailsWait StallsPause LoopBudget
PROPERTIES NoSecondAgent
CHECK_DEADLOCK FALSE
