SPECIFICATION Spec
CONSTANTS
    a = a
    Tasks = {t1, t2}
    Movers = {t1}
    Owners = {t2}
    Other = other
    Groups = {root, a}
    Root = root
    Parent <- MCParent
    Prios = {0, 1}
    MAX_RT_PRIO = 2
    SetPrios = {1}
    PiPrios = {0}
    Period = 2
    Runtimes = {0, 1}
    GlobalRuntime = 1
    MaxOverrun = 2
    MaxTime = 2
    RUNTIME_INF = inf
    RatioUnit = 4
INVARIANTS HierarchyConsistent ThrottledHasTimer
PROPERTIES ThrottledMustGo
