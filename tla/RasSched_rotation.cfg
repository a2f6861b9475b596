SPECIFICATION Spec
CONSTANTS
    Tasks = {t1, t2, t3}
    Idle = idle
    MAX_RT_PRIO = 3
    StaticPrios = {3, 4}
    NICE_0_PRIO = 4
    MAX_PRIO = 5
    Policies = {"NORMAL", "RAS"}
    RtPriorities = {}
    ResetFlags = {FALSE}
    PiPrios = {}
    RAS_MAX_TIMESLICE = 1
    RaceScale = 1
    MaxWrites = 1
SYMMETRY Symmetry
INVARIANTS HeadRuns HighestClassRuns
PROPERTIES NoOvertaking
