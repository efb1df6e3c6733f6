CONSTANTS
    Windows = {v, w}
    Rails = {"rail"}
    Nested = {}
    MaxWrites = 3
    MaxOdd = 1
SPECIFICATION Spec
INVARIANTS OwnRowsKept QuietPlansAgree
CHECK_DEADLOCK FALSE
SYMMETRY Same
