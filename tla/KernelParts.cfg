SPECIFICATION PartsSpec
CONSTANTS
    t1 = t1
    c1 = c1
    Tasks = {t1}
    Groups = {root, a}
    Root = root
    Callers = {c1}
    Capable = {}
    Owns <- MCOwns
    RlimRtprio = 1
    NiceAllowed = {}
    Writers = {w1, w2}
    Prios = {0, 1}
    Policies = {"FIFO", "NORMAL"}
    Periods = {1}
    Runtimes = {0, 1}
    SysPeriods = {1}
    SysRuntimes = {inf}
    BootPeriod = 2
    BootRuntime = 2
    None = none
    RUNTIME_INF = inf
    RatioUnit = 4
    Waiters = {u1, u2}
    Modes = {"S", "D", "K"}
    MaxWakes = 2
    MaxDone = 3
    Workers = {k1, k2}
    LOAD_FREQ = 5
    WindowTicks = 2
    Jumps = {4, 16, 320}
    MaxJiffies = 22
    Procs = {p1, p2}
    Swapper = swapper
    g0 = g0
    g1 = g1
    g2 = g2
    AcctGroups = {g0, g1, g2}
    AcctRoot = g0
    Over <- MCOver
    TickKinds = {"user", "system"}
    Skips = {1, 2}
    MaxTime = 3
SYMMETRY Symmetry
INVARIANTS TreeFeasible SysctlsSettled NoLostCompletion TimeConserved
PROPERTIES SetParamKeepsPolicy SampleIsTheWindows CatchUpIsClose
CHECK_DEADLOCK FALSE
