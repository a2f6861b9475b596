SPECIFICATION PsSpec
CONSTANTS
    Pids = {0, 1, 2, 3, 4}
    Bits = {0, 1}
    Garbage = {77}
    MaxForks = 3
    MaxCalls = 1
INVARIANTS DepthFirst DepthIsRight
PROPERTIES ListsEveryProcess
CHECK_DEADLOCK FALSE
