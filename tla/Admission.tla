----------------------------- MODULE Admission ------------------------------
(***************************************************************************)
(* What the kernel admits: the tree of task groups with the run time of    *)
(* their real-time tasks (cgroup files, sysctl), tasks that move between   *)
(* the groups, and sched_setscheduler and sched_setparam, which test the   *)
(* task before they take the lock of its run queue and change it after.    *)
(***************************************************************************)
EXTENDS RtFeasible

CONSTANTS
    Tasks,
    Groups, Root,  \* the task groups there may be
    Callers,       \* the callers of sched_setscheduler and sched_setparam
    Capable,       \* those with CAP_SYS_NICE
    Owns,          \* the <<caller, task>> with the same owner
    RlimRtprio,    \* RLIMIT_RTPRIO of every task
    NiceAllowed,   \* the tasks that can_nice lets leave SCHED_IDLE
    Writers,       \* writers of rt_runtime_us and rt_period_us
    Prios,         \* the sched_priority that calls ask for, 0 included
    Policies,      \* the policies that calls ask for
    Periods, Runtimes, \* what is written to the files of a group
    SysPeriods, SysRuntimes, \* and to the two sysctls
    BootPeriod, BootRuntime,
    None

RtPolicies == {"FIFO", "RR"}
AllPolicies == RtPolicies \cup {"NORMAL", "IDLE", "RAS"}

ASSUME AdmissionAssumption ==
    /\ IsFiniteSet(Groups) /\ Root \in Groups
    /\ Capable \subseteq Callers /\ Owns \subseteq Callers \X Tasks
    /\ NiceAllowed \subseteq Tasks
    /\ RlimRtprio \in Nat /\ Prios \subseteq Nat
    /\ Policies \subseteq AllPolicies
    /\ Periods \cup SysPeriods \subseteq Nat
    /\ Runtimes \cup SysRuntimes \subseteq Nat \cup {RUNTIME_INF}
    /\ BootPeriod \in Nat \ {0} /\ BootRuntime \in 0 .. BootPeriod
    /\ None \notin Groups
ASSUME NoneAssumption == None \notin [period : Nat, runtime : Nat \cup {RUNTIME_INF}]

VARIABLES
    parent,  \* the parent of every group there is, None for the others
    dying,   \* the groups that wait for RCU to be freed
    bw,      \* rt_bandwidth of every group
    global,  \* sysctl_sched_rt_period and sysctl_sched_rt_runtime
    saved,   \* their old values while sched_rt_handler is at work, or None
    def,     \* def_rt_bandwidth
    task,    \* policy, rt_priority, sched_reset_on_fork, group and life of every task
    call,    \* what a caller has checked and not yet stored, or None
    write,   \* what a writer has read and not yet stored, or None
    moving   \* the <<task, group>> that cgroup has asked can_attach for, or None

vars == <<parent, dying, bw, global, saved, def, task, call, write, moving>>

Live == {Root} \cup {g \in Groups : parent[g] # None}
Bw(p, r) == [period |-> p, runtime |-> r]
Fresh == [policy |-> "NORMAL", prio |-> 0, reset |-> FALSE, group |-> Root, alive |-> TRUE]

Init ==
    /\ parent = [g \in Groups |-> None]
    /\ dying = {}
    /\ bw = [g \in Groups |-> Bw(BootPeriod, IF g = Root THEN BootRuntime ELSE 0)]
    /\ global = Bw(BootPeriod, BootRuntime)
    /\ saved = None
    /\ def = Bw(BootPeriod, BootRuntime)
    /\ task = [t \in Tasks |-> Fresh]
    /\ call = [c \in Callers |-> None]
    /\ write = [w \in Writers |-> None]
    /\ moving = None

groupVars == <<parent, dying, bw, write>>
sysVars   == <<global, saved, def>>

-----------------------------------------------------------------------------
(* Is the tree schedulable                                                  *)

Enabled == global.runtime # RUNTIME_INF
IsRt(t) == task[t].alive /\ task[t].policy \in RtPolicies

\* tg_has_rt_tasks: rt.tg of the run queue of a task is the root group.
Busy == {Root : t \in {t \in Tasks : IsRt(t)}}

Children == [g \in Groups |-> {c \in Live \ {Root} : parent[c] = g}]
GlobalRatio == ToRatio(global.period, global.runtime)

Schedulable(b) ==
    RtSchedulable([g \in Live |-> b[g]], Children, Busy, Enabled, GlobalRatio)

-----------------------------------------------------------------------------
(* The files of a group.  Each writer reads the value it does not change    *)
(* before tg_set_rt_bandwidth takes the mutex.                              *)

SetRtRuntime(w, g, r) ==
    /\ write[w] = None /\ g \in Live
    /\ write' = [write EXCEPT ![w] = [group |-> g, bw |-> Bw(bw[g].period, r)]]
    /\ UNCHANGED <<parent, dying, bw, sysVars, task, call, moving>>

SetRtPeriod(w, g, p) ==
    /\ write[w] = None /\ g \in Live
    /\ p # 0
    /\ write' = [write EXCEPT ![w] = [group |-> g, bw |-> Bw(p, bw[g].runtime)]]
    /\ UNCHANGED <<parent, dying, bw, sysVars, task, call, moving>>

\* Mutant: each write is tested against the old bandwidth of its group.
Admits_Old(w) == Schedulable(bw)

Admits(w) == Schedulable([bw EXCEPT ![write[w].group] = write[w].bw])

\* tg_set_rt_bandwidth; read_lock(&tasklist_lock) disables preemption.
SetBandwidth(w) ==
    /\ write[w] # None
    /\ bw' = IF Admits(w) THEN [bw EXCEPT ![write[w].group] = write[w].bw] ELSE bw
    /\ write' = [write EXCEPT ![w] = None]
    /\ UNCHANGED <<parent, dying, sysVars, task, call, moving>>

-----------------------------------------------------------------------------
(* sched_rt_handler: the new value is in place while it is tested           *)

SysctlWrite(new) ==
    /\ saved = None /\ new # global
    /\ saved' = global
    /\ global' = new
    /\ UNCHANGED <<groupVars, def, task, call, moving>>

SysctlAllowed ==
    /\ global.period > 0
    /\ global.runtime # RUNTIME_INF => global.runtime <= global.period
    /\ Schedulable(bw)

\* Mutant: the period is not put back.
Restored_RuntimeOnly == [global EXCEPT !.runtime = saved.runtime]

Restored == saved

SysctlCheck ==
    /\ saved # None
    /\ global' = IF SysctlAllowed THEN global ELSE Restored
    /\ def' = IF SysctlAllowed THEN global ELSE def
    /\ saved' = None
    /\ UNCHANGED <<groupVars, task, call, moving>>

-----------------------------------------------------------------------------
(* Groups come and go, and tasks move (cgroup_mutex serializes these)       *)

\* cpu_cgroup_create: sched_create_group, with memory for everything.
CreateGroup(g, p) ==
    /\ moving = None
    /\ g \in Groups \ (Live \cup dying) /\ p \in Live
    /\ parent' = [parent EXCEPT ![g] = p]
    /\ bw' = [bw EXCEPT ![g] = Bw(def.period, 0)]
    /\ UNCHANGED <<dying, write, sysVars, task, call, moving>>

\* cpu_cgroup_destroy, once cgroup has found no task, no child and no open file.
DestroyGroup(g) ==
    /\ moving = None
    /\ g \in Live \ {Root}
    /\ Children[g] = {} /\ \A t \in Tasks : task[t].alive => task[t].group # g
    /\ \A w \in Writers : write[w] # None => write[w].group # g
    /\ parent' = [parent EXCEPT ![g] = None]
    /\ dying' = dying \cup {g}
    /\ UNCHANGED <<bw, write, sysVars, task, call, moving>>

\* free_sched_group_rcu.
FreeGroup(g) ==
    /\ g \in dying
    /\ dying' = dying \ {g}
    /\ bw' = [bw EXCEPT ![g] = Bw(BootPeriod, 0)]
    /\ UNCHANGED <<parent, write, sysVars, task, call, moving>>

\* cpu_cgroup_can_attach.
CanAttach(t, g) ==
    /\ moving = None
    /\ task[t].alive /\ g \in Live \ {task[t].group}
    /\ ~(IsRt(t) /\ bw[g].runtime = 0)
    /\ moving' = <<t, g>>
    /\ UNCHANGED <<groupVars, sysVars, task, call>>

\* cpu_cgroup_attach of a task that has not exited since.
Attach ==
    /\ moving # None
    /\ task' = IF task[moving[1]].alive THEN [task EXCEPT ![moving[1]].group = moving[2]] ELSE task
    /\ moving' = None
    /\ UNCHANGED <<groupVars, sysVars, call>>

\* cgroup_exit: cpu_cgroup_exit moves the task to the root group.
Exit(t) ==
    /\ task[t].alive
    /\ task' = [task EXCEPT ![t].alive = FALSE, ![t].group = Root]
    /\ UNCHANGED <<groupVars, sysVars, call, moving>>

\* The child of a task elsewhere takes its place once nobody holds it.
Fork(t) ==
    /\ ~task[t].alive
    /\ \A c \in Callers : call[c] # None => call[c].task # t
    /\ moving # None => moving[1] # t
    /\ task' = [task EXCEPT ![t] = Fresh]
    /\ UNCHANGED <<groupVars, sysVars, call, moving>>

-----------------------------------------------------------------------------
(* sched_setscheduler and sched_setparam                                    *)

ValidPriority(policy, prio) == policy \in RtPolicies <=> prio # 0

\* What a caller without CAP_SYS_NICE may not do to p.
Permitted(c, t, policy, prio, reset) ==
    LET p == task[t]
    IN c \in Capable \/
       /\ policy \in RtPolicies =>
             /\ policy # p.policy => RlimRtprio # 0
             /\ prio <= p.prio \/ prio <= RlimRtprio
       /\ p.policy = "IDLE" /\ policy # "IDLE" => t \in NiceAllowed
       /\ <<c, t>> \in Owns
       /\ p.reset => reset

Request(t, asked, policy, prio, reset) ==
    [task |-> t, asked |-> asked, policy |-> policy, prio |-> prio, reset |-> reset]

\* sched_setscheduler up to task_rq_lock.
AskScheduler(c, t, policy, prio, reset) ==
    /\ call[c] = None /\ task[t].alive
    /\ ValidPriority(policy, prio) /\ Permitted(c, t, policy, prio, reset)
    /\ call' = [call EXCEPT ![c] = Request(t, policy, policy, prio, reset)]
    /\ UNCHANGED <<groupVars, sysVars, task, moving>>

\* sched_setparam: policy -1, so that the task's own policy and flag are read.
ParamRequest(c, t, prio) ==
    LET p == task[t]
    IN IF ValidPriority(p.policy, prio) /\ Permitted(c, t, p.policy, prio, p.reset)
       THEN Request(t, None, p.policy, prio, p.reset)
       ELSE None

AskParam(c, t, prio) ==
    /\ call[c] = None /\ task[t].alive
    /\ call' = [call EXCEPT ![c] = ParamRequest(c, t, prio)]
    /\ call'[c] # None
    /\ UNCHANGED <<groupVars, sysVars, task, moving>>

NothingNew(t, policy, prio) ==
    policy = task[t].policy /\ (policy \in RtPolicies => prio = task[t].prio)

\* Do not allow real-time tasks into groups that have no runtime assigned.
NoRuntime(t, policy) ==
    Enabled /\ policy \in RtPolicies /\ bw[task[t].group].runtime = 0

\* Mutant: the policy is not looked at again.
Outdated_Never(r) == FALSE

\* The policy that sched_setparam has read is not the task's any more.
Outdated(r) == r.asked = None /\ r.policy # task[r.task].policy

\* From task_rq_lock on; "goto recheck" starts the tests again.
StoreScheduler(c) ==
    LET r == call[c]
        refused == NothingNew(r.task, r.policy, r.prio) \/ NoRuntime(r.task, r.policy)
        again == ~refused /\ Outdated(r)
    IN /\ r # None
       /\ call' = [call EXCEPT ![c] = IF again THEN ParamRequest(c, r.task, r.prio) ELSE None]
       /\ task' = IF refused \/ again THEN task
                  ELSE [task EXCEPT ![r.task].policy = r.policy, ![r.task].prio = r.prio,
                                    ![r.task].reset = r.reset]
       /\ UNCHANGED <<groupVars, sysVars, moving>>

\* sched_setscheduler_nocheck by the kernel: nothing of the task is read
\* before the lock.
KernelSets(t, policy, prio) ==
    /\ task[t].alive /\ ValidPriority(policy, prio) /\ ~NothingNew(t, policy, prio)
    /\ task' = [task EXCEPT ![t].policy = policy, ![t].prio = prio, ![t].reset = FALSE]
    /\ UNCHANGED <<groupVars, sysVars, call, moving>>

Next ==
    \/ \E w \in Writers :
          \/ SetBandwidth(w)
          \/ \E g \in Groups :
                \/ \E r \in Runtimes : SetRtRuntime(w, g, r)
                \/ \E p \in Periods : SetRtPeriod(w, g, p)
    \/ \E r \in SysRuntimes : SysctlWrite([global EXCEPT !.runtime = r])
    \/ \E p \in SysPeriods : SysctlWrite([global EXCEPT !.period = p])
    \/ SysctlCheck
    \/ \E g \in Groups :
          \/ \E p \in Groups : CreateGroup(g, p)
          \/ DestroyGroup(g) \/ FreeGroup(g)
          \/ \E t \in Tasks : CanAttach(t, g)
    \/ Attach
    \/ \E t \in Tasks :
          \/ Exit(t) \/ Fork(t)
          \/ \E policy \in Policies, prio \in Prios :
                \/ KernelSets(t, policy, prio)
                \/ \E c \in Callers, reset \in BOOLEAN : AskScheduler(c, t, policy, prio, reset)
          \/ \E c \in Callers, prio \in Prios : AskParam(c, t, prio)
    \/ \E c \in Callers : StoreScheduler(c)

Spec == Init /\ [][Next]_vars

-----------------------------------------------------------------------------
(* Properties *)

Bandwidths == [period : Nat, runtime : Nat \cup {RUNTIME_INF}]
Requests == [task : Tasks, asked : AllPolicies \cup {None}, policy : AllPolicies,
             prio : Nat, reset : BOOLEAN]

TypeOK ==
    /\ parent \in [Groups -> Groups \cup {None}] /\ parent[Root] = None
    /\ \A g \in Live \ {Root} : parent[g] \in Live
    /\ dying \subseteq Groups \ Live
    /\ bw \in [Groups -> Bandwidths]
    /\ global \in Bandwidths /\ def \in Bandwidths /\ saved \in Bandwidths \cup {None}
    /\ task \in [Tasks -> [policy : AllPolicies, prio : Nat, reset : BOOLEAN,
                          group : Live, alive : BOOLEAN]]
    /\ call \in [Callers -> Requests \cup {None}]
    /\ write \in [Writers -> [group : Live, bw : Bandwidths] \cup {None}]
    /\ moving \in (Tasks \X Live) \cup {None}

\* However writes to the files of groups, to the sysctls and the coming and
\* going of groups follow each other, the run time of the real-time tasks of
\* every group fits into its period and the shares of its children into its own
\* ("the sum of our children's runtime should not exceed our own").
TreeFeasible ==
    \A g \in Live :
        /\ bw[g].runtime # RUNTIME_INF => bw[g].runtime <= bw[g].period
        /\ MapThenSumSet(LAMBDA c : ToRatio(bw[c].period, bw[c].runtime), Children[g])
              <= ToRatio(bw[g].period, bw[g].runtime)

\* Between two writes to the sysctls, refused ones included, the bandwidth that
\* new groups start from is that of the sysctls, and the pair makes sense.
SysctlsSettled ==
    saved = None =>
        /\ def = global
        /\ global.period > 0
        /\ global.runtime # RUNTIME_INF => global.runtime <= global.period

\* sched_setparam changes the priority of a task and never its policy, whatever
\* policy another call or the kernel gave the task in the meantime.
SetParamKeepsPolicy ==
    [][\A c \in Callers : StoreScheduler(c) /\ call[c].asked = None =>
          \A t \in Tasks : task'[t].policy = task[t].policy]_vars

=============================================================================
