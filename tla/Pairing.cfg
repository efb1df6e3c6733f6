SPECIFICATION FairSpec
CONSTANTS
    Attempts = {a, b}
    Phones = {p, q}
    Paired = {p}
    Desks = {s, t}
    Cap = 1
    Turns = 2
    MaxPresses = 2
    None = None
INVARIANTS ToldWhatIsTrue OneAskPerSecret RevokeAllReaches
PROPERTY EveryAttemptEnds
CHECK_DEADLOCK FALSE
