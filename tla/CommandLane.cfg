CONSTANTS
    Reqs = {"a", "b"}
    Versions = {80, 81}
    None = None
    MaxRestarts = 1
    MaxConns = 4
    MaxNoise = 2
SPECIFICATION FairSpec
INVARIANTS AnswersMatch RunsAsTold OrderKept GatedForItsDaemon
PROPERTY EveryRequestEnds
CHECK_DEADLOCK FALSE
