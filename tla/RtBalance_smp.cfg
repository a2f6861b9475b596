SPECIFICATION BalanceSpec
CONSTANTS
    b1 = b1
    b2 = b2
    b3 = b3
    Cpus = {1, 2}
    Threads = {b1, b2, b3}
    Idle = idle
    Stopper = stopper
    NoOne = noone
    FairPrio = 4
    MayPrio <- MCPrio
    MayMask <- MCMask
    HotCpus = {2}
    RT_MAX_TRIES = 3
INVARIANTS NoneWaitsInVain PushableExact DomainExact OnAllowedCpu OneCpu
CHECK_DEADLOCK FALSE
