SPECIFICATION PsSpec
CONSTANTS
    Pids = {0, 1, 2, 3}
    Bits = {0, 1}
    Garbage = {77}
    MaxForks = 3
    MaxCalls = 1
INVARIANTS LastSiblingHasNone
CHECK_DEADLOCK FALSE
