SPECIFICATION BothSpec
CONSTANTS
    Tasks = {t1, t2, t3}
    Init0 = t1
    MayTrace <- OwnTracing
    MayGet <- AnyTracing
    MaxWrites = 1
    MaxCalls = 2
    Threads = {f1, f2}
    Nobody = nobody
    Flags = {{"READ"}, {"READ", "WRITE"}}
INVARIANTS NoUseAfterFree SemProtects NoWaitForOneself
PROPERTIES ImplementsTraceAbs
CHECK_DEADLOCK FALSE
