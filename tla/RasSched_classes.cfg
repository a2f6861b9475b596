SPECIFICATION Spec
CONSTANTS
    Tasks = {t1, t2, t3}
    Idle = idle
    MAX_RT_PRIO = 3
    StaticPrios = {3, 4}
    NICE_0_PRIO = 4
    MAX_PRIO = 5
    Policies = {"NORMAL", "FIFO", "RR", "RAS"}
    RtPriorities = {1}
    ResetFlags = {FALSE}
    PiPrios = {0}
    RAS_MAX_TIMESLICE = 1
    RaceScale = 1
    MaxWrites = 0
SYMMETRY Symmetry
INVARIANTS TypeOK RqConsistent RunnableIsQueued RasClassHasRasPolicy RtPolicyHasRtClass
PROPERTIES OnlySelfSwitchHidesRt RasClassKept
