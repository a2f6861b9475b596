SPECIFICATION FairSpec
CONSTANTS
    Tasks = {t1, t2, t3}
    Idle = idle
    MAX_RT_PRIO = 3
    StaticPrios = {4}
    NICE_0_PRIO = 4
    MAX_PRIO = 5
    Policies = {"NORMAL", "RAS"}
    RtPriorities = {}
    ResetFlags = {FALSE, TRUE}
    PiPrios = {}
    RAS_MAX_TIMESLICE = 2
    RaceScale = 2
    MaxWrites = 0
PROPERTIES RasEventuallyRuns
