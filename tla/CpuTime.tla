------------------------------ MODULE CpuTime -------------------------------
(***************************************************************************)
(* Where the ticks of one processor go (core.c): to the fields of cpustat   *)
(* and, for a task, to its accounting group and the groups above it; idle   *)
(* time counts as waiting for I/O as long as a task is inside io_schedule.  *)
(* The tick may stop in idle (NO_HZ); kernel/time is not in the repository: *)
(* it is modelled by when it calls account_process_tick and                 *)
(* account_idle_ticks.                                                      *)
(***************************************************************************)
EXTENDS Integers, FiniteSets, FiniteSetsExt

CONSTANTS
    Procs,        \* the tasks
    Swapper,      \* the idle task
    AcctGroups,   \* the cpuacct groups there may be
    AcctRoot,
    Over,         \* the parent of every group but the root
    TickKinds,    \* what a tick may find, of the fields below
    Skips,        \* how many ticks an interrupt in idle may find missed
    MaxTime       \* bound on the time

Fields == {"user", "nice", "system", "softirq", "irq", "idle", "iowait"}

ASSUME CpuTimeAssumption ==
    /\ IsFiniteSet(Procs) /\ Swapper \notin Procs /\ IsFiniteSet(AcctGroups)
    /\ AcctRoot \in AcctGroups /\ Over \in [AcctGroups \ {AcctRoot} -> AcctGroups]
    /\ TickKinds \subseteq Fields \ {"idle", "iowait"} /\ "system" \in TickKinds
    /\ Skips \subseteq Nat \ {0} /\ MaxTime \in Nat

VARIABLES
    time,       \* jiffies
    idleFrom,   \* idle_jiffies while the tick is stopped, else -1
    curr,       \* the task that runs
    ready,      \* the tasks that are TASK_RUNNING
    inIo,       \* those between the two halves of io_schedule
    nrIowait,   \* nr_iowait of the run queue
    cpustat,    \* kernel_cpustat
    acct,       \* the accounting groups there are, and what each was charged
    member,     \* the accounting group of every task
    waited,     \* ghost: the idle ticks with a task inside io_schedule
    direct      \* ghost: the ticks charged to a group by its own tasks and by
                \* groups below it that are gone

timeVars == <<time, idleFrom, curr, ready, inIo, nrIowait, cpustat, acct, member, waited, direct>>

Stopped == idleFrom # -1

TimeInit ==
    /\ time = 0 /\ idleFrom = -1
    /\ curr = Swapper
    /\ ready = Procs
    /\ inIo = {} /\ nrIowait = 0
    /\ cpustat = [f \in Fields |-> 0]
    /\ acct = [g \in AcctGroups |-> [live |-> g = AcctRoot, ticks |-> 0]]
    /\ member = [t \in Procs |-> AcctRoot]
    /\ waited = 0
    /\ direct = [g \in AcctGroups |-> 0]

-----------------------------------------------------------------------------
(* Tasks                                                                    *)

\* schedule: any task that is ready may come, the idle task when there is none.
Switch(t) ==
    /\ ~Stopped
    /\ IF ready = {} THEN t = Swapper ELSE t \in ready
    /\ t # curr /\ curr' = t
    /\ UNCHANGED <<time, idleFrom, ready, inIo, nrIowait, cpustat, acct, member, waited, direct>>

\* The caller has set its state; io_schedule up to schedule().
IoSchedule ==
    /\ curr \in ready \ inIo
    /\ ready' = ready \ {curr}
    /\ inIo' = inIo \cup {curr}
    /\ nrIowait' = nrIowait + 1
    /\ UNCHANGED <<time, idleFrom, curr, cpustat, acct, member, waited, direct>>

\* io_schedule after schedule() has come back.
IoReturn ==
    /\ curr \in ready \cap inIo
    /\ inIo' = inIo \ {curr}
    /\ nrIowait' = nrIowait - 1
    /\ UNCHANGED <<time, idleFrom, curr, ready, cpustat, acct, member, waited, direct>>

\* Any other sleep.
Sleep ==
    /\ curr \in ready \ inIo
    /\ ready' = ready \ {curr}
    /\ UNCHANGED <<time, idleFrom, curr, inIo, nrIowait, cpustat, acct, member, waited, direct>>

WakeProc(t) ==
    /\ t \notin ready
    /\ ready' = ready \cup {t}
    /\ UNCHANGED <<time, idleFrom, curr, inIo, nrIowait, cpustat, acct, member, waited, direct>>

-----------------------------------------------------------------------------
(* Accounting groups                                                        *)

\* task_ca and parent_ca, without the root, whose ticks are kernel_cpustat.
Chain(g) ==
    LET upward == {S \in SUBSET AcctGroups :
                      g \in S /\ \A h \in S \ {AcctRoot} : Over[h] \in S}
    IN {h \in AcctGroups \ {AcctRoot} : \A S \in upward : h \in S}

\* ghost: g was charged ticks that its groups were not.
Direct(g, ticks) ==
    IF g = AcctRoot THEN direct ELSE [direct EXCEPT ![g] = @ + ticks]

Below(g) == {h \in AcctGroups \ {AcctRoot} : acct[h].live /\ Over[h] = g}

\* cpuacct_create; the memory is zeroed.
AcctCreate(g) ==
    /\ ~acct[g].live /\ acct[Over[g]].live
    /\ acct' = [acct EXCEPT ![g] = [live |-> TRUE, ticks |-> 0]]
    /\ direct' = [direct EXCEPT ![g] = 0]
    /\ UNCHANGED <<time, idleFrom, curr, ready, inIo, nrIowait, cpustat, member, waited>>

\* cpuacct_destroy, of a group without tasks and children.
AcctDestroy(g) ==
    /\ acct[g].live /\ Below(g) = {}
    /\ \A t \in Procs : member[t] # g
    /\ acct' = [acct EXCEPT ![g].live = FALSE]
    /\ direct' = Direct(Over[g], acct[g].ticks)
    /\ UNCHANGED <<time, idleFrom, curr, ready, inIo, nrIowait, cpustat, member, waited>>

\* cgroup moves a task; cpuacct has no hook for it.
AcctMove(t, g) ==
    /\ acct[g].live /\ g # member[t]
    /\ member' = [member EXCEPT ![t] = g]
    /\ UNCHANGED <<time, idleFrom, curr, ready, inIo, nrIowait, cpustat, acct, waited, direct>>

-----------------------------------------------------------------------------
(* Ticks                                                                    *)

\* account_user_time and account_system_time of a task, the latter also of the
\* idle task that an interrupt or a softirq interrupts.
AccountTask(kind) ==
    LET g == IF curr = Swapper THEN AcctRoot ELSE member[curr]
    IN /\ cpustat' = [cpustat EXCEPT ![kind] = @ + 1]
       /\ acct' = [h \in AcctGroups |->
                     IF h \in Chain(g) THEN [acct[h] EXCEPT !.ticks = @ + 1] ELSE acct[h]]
       /\ direct' = Direct(g, 1)

\* Mutant: the field is chosen by the tasks that still sleep.
IdleField_Sleepers == IF inIo \ ready # {} THEN "iowait" ELSE "idle"

IdleField == IF nrIowait > 0 THEN "iowait" ELSE "idle"

\* account_idle_time
AccountIdle(ticks) ==
    /\ cpustat' = [cpustat EXCEPT ![IdleField] = @ + ticks]
    /\ UNCHANGED <<acct, direct>>

\* The tick: account_process_tick.
ProcessTick(kind) ==
    /\ ~Stopped
    /\ curr = Swapper => kind \notin {"user", "nice"}
    /\ IF curr = Swapper /\ kind = "system" THEN AccountIdle(1) ELSE AccountTask(kind)
    /\ time + 1 <= MaxTime /\ time' = time + 1
    /\ waited' = IF curr = Swapper /\ kind = "system" /\ inIo # {} THEN waited + 1 ELSE waited
    /\ UNCHANGED <<idleFrom, curr, ready, inIo, nrIowait, member>>

StopTick ==
    /\ ~Stopped /\ curr = Swapper /\ ready = {}
    /\ idleFrom' = time
    /\ UNCHANGED <<time, curr, ready, inIo, nrIowait, cpustat, acct, member, waited, direct>>

\* An interrupt in idle without a tick.
SleepOn(n) ==
    /\ Stopped /\ ready = {}
    /\ time + n <= MaxTime /\ time' = time + n
    /\ waited' = IF inIo # {} THEN waited + n ELSE waited
    /\ UNCHANGED <<idleFrom, curr, ready, inIo, nrIowait, cpustat, acct, member, direct>>

\* The processor leaves idle: account_idle_ticks.
StartTick ==
    /\ Stopped /\ ready # {}
    /\ AccountIdle(time - idleFrom)
    /\ idleFrom' = -1
    /\ UNCHANGED <<time, curr, ready, inIo, nrIowait, member, waited>>

TimeNext ==
    \/ \E t \in Procs \cup {Swapper} : Switch(t)
    \/ IoSchedule \/ IoReturn \/ Sleep
    \/ \E t \in Procs : WakeProc(t) \/ \E g \in AcctGroups : AcctMove(t, g)
    \/ \E g \in AcctGroups \ {AcctRoot} : AcctCreate(g) \/ AcctDestroy(g)
    \/ \E kind \in TickKinds : ProcessTick(kind)
    \/ StopTick \/ StartTick
    \/ \E n \in Skips : SleepOn(n)

TimeSpec == TimeInit /\ [][TimeNext]_timeVars

-----------------------------------------------------------------------------
(* Properties *)

Pending == IF Stopped THEN time - idleFrom ELSE 0

\* Every tick since the start is in one field of cpustat, but for those of the
\* idle period that has not ended.
AllAccounted ==
    cpustat.user + cpustat.nice + cpustat.system + cpustat.softirq + cpustat.irq
        + cpustat.idle + cpustat.iowait + Pending = time

\* The field iowait has the idle ticks that had a task inside io_schedule, and
\* no others, whenever the task was woken and ran again.
IoWaitExact ==
    cpustat.iowait + (IF inIo # {} THEN Pending ELSE 0) = waited

\* A group was charged what its own tasks used while they were in it and what
\* the groups below it were charged, whoever was moved or removed since.
GroupsAddUp ==
    \A g \in AcctGroups \ {AcctRoot} : acct[g].live =>
        acct[g].ticks = direct[g] + MapThenSumSet(LAMBDA h : acct[h].ticks, Below(g))

\* No tick is lost, counted twice or charged to the wrong place.
TimeConserved == AllAccounted /\ IoWaitExact /\ GroupsAddUp

=============================================================================
