------------------------------ MODULE RasSched ------------------------------
(***************************************************************************)
(* The uniprocessor run queue of the kernel with the Race-Averse Scheduler *)
(* (kernel/sched/ras.c) linked between the real-time and the fair class.   *)
(*                                                                         *)
(* Every operation of kernel/sched/core.c that is modelled runs under      *)
(* rq->lock with interrupts off, so it is one action.  What the processor  *)
(* may do between two of them (an interrupt, a wake-up, a tick, another    *)
(* task's system call after a preemption) is the interleaving of actions.  *)
(*                                                                         *)
(* Abstractions: the fair class is not part of this repository, so its     *)
(* picks and its preemption decisions are any it might make; the RT        *)
(* priority lists are one sequence, of which only the order among equal    *)
(* priorities matters; RT throttling is off (sched_rt_runtime_us = -1);    *)
(* an SCHED_RR slice may end at any tick; the privileged caller's system   *)
(* call is modelled, a refused one changes nothing.                        *)
(***************************************************************************)
EXTENDS Integers, Sequences, FiniteSets, SequencesExt

CONSTANTS
    Tasks,          \* the task_structs that may exist
    Idle,           \* rq->idle
    MAX_RT_PRIO,    \* priorities below it are real-time (100 in the code)
    StaticPrios,    \* the static_prio values nice can choose
    NICE_0_PRIO,    \* NICE_TO_PRIO(0)
    MAX_PRIO,       \* above every priority (140 in the code)
    Policies,       \* the policies sched_setscheduler is called with
    RtPriorities,   \* the sched_priority values it is called with
    ResetFlags,     \* the SCHED_RESET_ON_FORK bits it is called with
    PiPrios,        \* the priorities of rt_mutex waiters
    RAS_MAX_TIMESLICE, \* 10 ticks in the code
    RaceScale,      \* the factor 10 of task_tick_ras
    MaxWrites       \* bound on wcounts

AllPolicies == {"NORMAL", "FIFO", "RR", "RAS"}

ASSUME IdleAssumption == Idle \notin Tasks
ASSUME PrioAssumption ==
    /\ MAX_RT_PRIO \in Nat \ {0} /\ MAX_PRIO \in Nat
    /\ NICE_0_PRIO \in StaticPrios
    /\ StaticPrios \subseteq MAX_RT_PRIO .. MAX_PRIO - 1
    /\ RtPriorities \subseteq 1 .. MAX_RT_PRIO - 1
    /\ PiPrios \subseteq 0 .. MAX_PRIO - 1
ASSUME PolicyAssumption ==
    /\ Policies \subseteq AllPolicies
    /\ ResetFlags \subseteq BOOLEAN
ASSUME SliceAssumption ==
    /\ RAS_MAX_TIMESLICE \in Nat \ {0}
    /\ RaceScale \in 1 .. RAS_MAX_TIMESLICE
    /\ MaxWrites \in Nat

VARIABLES
    rq,          \* struct rq: the queues of the classes and their counters
    curr,        \* rq->curr
    needResched, \* TIF_NEED_RESCHED of curr
    state,       \* what exists, and ->state of what does
    onRq,        \* p->on_rq
    parent,      \* the task inside do_fork that is creating p, p itself otherwise
    class,       \* p->sched_class
    policy,      \* p->policy
    prio,        \* p->prio
    staticPrio,  \* p->static_prio
    rtPriority,  \* p->rt_priority
    resetOnFork, \* p->sched_reset_on_fork
    piTop,       \* priority of p's highest rt_mutex waiter
    timeSlice,   \* p->ras.time_slice, in ticks
    traceFlag,   \* p->trace_flag
    wcounts      \* p->wcounts

taskVars  == <<parent, policy, staticPrio, rtPriority, resetOnFork, piTop>>
traceVars == <<timeSlice, traceFlag, wcounts>>
vars == <<rq, curr, needResched, state, onRq, class, prio, taskVars, traceVars>>

-----------------------------------------------------------------------------
(* Types *)

Classes == {"rt", "ras", "fair", "idle"}
States  == {"unused", "new", "running", "sleeping"}

\* No task waits for an rt_mutex of p: a priority that is never the higher one.
NoWaiter == MAX_PRIO

TypeOK ==
    /\ rq \in [ras : Seq(Tasks), rasNrRunning : Int,
               rt : Seq(Tasks), fair : SUBSET Tasks, nrRunning : Int]
    /\ curr \in Tasks \cup {Idle}
    /\ needResched \in BOOLEAN
    /\ state \in [Tasks -> States]
    /\ onRq \in [Tasks -> BOOLEAN]
    /\ parent \in [Tasks -> Tasks]
    /\ class \in [Tasks \cup {Idle} -> Classes]
    /\ policy \in [Tasks -> AllPolicies]
    /\ prio \in [Tasks \cup {Idle} -> 0 .. MAX_PRIO]
    /\ staticPrio \in [Tasks -> StaticPrios]
    /\ rtPriority \in [Tasks -> RtPriorities \cup {0}]
    /\ resetOnFork \in [Tasks -> BOOLEAN]
    /\ piTop \in [Tasks -> PiPrios \cup {NoWaiter}]
    /\ DOMAIN timeSlice = Tasks         \* RaceProb has its values
    /\ traceFlag \in [Tasks -> BOOLEAN]
    /\ wcounts \in [Tasks -> 0 .. MaxWrites]

-----------------------------------------------------------------------------
(* Priorities *)

RtPolicy(pol) == pol \in {"FIFO", "RR"}
RtPrio(pr) == pr < MAX_RT_PRIO

\* Mutant: the RT base priority is forgotten.
NormalPrioOf_NoBase(pol, rtp, sp) == IF RtPolicy(pol) THEN 0 - rtp ELSE sp

NormalPrioOf(pol, rtp, sp) == IF RtPolicy(pol) THEN MAX_RT_PRIO - 1 - rtp ELSE sp

\* p->normal_prio: every place that changes one of its operands recomputes it.
NormalPrio(p) == NormalPrioOf(policy[p], rtPriority[p], staticPrio[p])

\* rt_mutex_getprio: the priority of the highest waiter, if it is higher.
PiPrio(pr, top) == IF top < pr THEN top ELSE pr

\* Mutant: the new class is the default.
ClassByPrio_RasDefault(pr) == IF RtPrio(pr) THEN "rt" ELSE "ras"

\* The class rt_mutex_setprio gives: by priority alone.
ClassByPrio(pr) == IF RtPrio(pr) THEN "rt" ELSE "fair"

\* The class __setscheduler gives: SCHED_RAS comes before the priority.
SchedClass(pol, pr) == IF pol = "RAS" THEN "ras" ELSE ClassByPrio(pr)

\* Mutant: sched_fork gives every child to the fair class.
ForkClass_AlwaysFair(t, pr) == "fair"

\* The class sched_fork leaves to a child of t: the copied one for a real-time
\* priority, else fair, for a child whose policy is SCHED_RAS too.
ForkClass(t, pr) == IF RtPrio(pr) THEN class[t] ELSE "fair"

\* The position of a class in the list that for_each_class walks.
ClassRank(c) == CASE c = "rt" -> 1 [] c = "ras" -> 2 [] c = "fair" -> 3 [] c = "idle" -> 4

-----------------------------------------------------------------------------
(* The run queues of the classes *)

\* Mutant: list_add where list_add_tail is meant.
ListAdd_AlwaysHead(s, p, head) == <<p>> \o s

ListAdd(s, p, head) == IF head THEN <<p>> \o s ELSE Append(s, p)

EnqueueRas(q, p, head) ==
    [q EXCEPT !.ras = ListAdd(@, p, head), !.rasNrRunning = @ + 1, !.nrRunning = @ + 1]

\* list_del_init of an entry that is on no list leaves the list alone; the
\* counters go down all the same.
DequeueRas(q, p) ==
    [q EXCEPT !.ras = RemoveFirst(@, p), !.rasNrRunning = @ - 1, !.nrRunning = @ - 1]

\* Mutant: list_move where list_move_tail is meant.
RequeueRas_ToHead(q, p) ==
    IF p \in Range(q.ras) THEN [q EXCEPT !.ras = <<p>> \o RemoveFirst(@, p)] ELSE q

RequeueRas(q, p) ==
    IF p \in Range(q.ras) THEN [q EXCEPT !.ras = Append(RemoveFirst(@, p), p)] ELSE q

EnqueueRt(q, p, head) == [q EXCEPT !.rt = ListAdd(@, p, head), !.nrRunning = @ + 1]
DequeueRt(q, p) == [q EXCEPT !.rt = RemoveFirst(@, p), !.nrRunning = @ - 1]
RequeueRt(q, p) ==
    IF p \in Range(q.rt) THEN [q EXCEPT !.rt = Append(RemoveFirst(@, p), p)] ELSE q

EnqueueFair(q, p) == [q EXCEPT !.fair = @ \cup {p}, !.nrRunning = @ + 1]
DequeueFair(q, p) == [q EXCEPT !.fair = @ \ {p}, !.nrRunning = @ - 1]

Enqueue(q, p, c, head) ==
    CASE c = "ras"  -> EnqueueRas(q, p, head)
      [] c = "rt"   -> EnqueueRt(q, p, head)
      [] c = "fair" -> EnqueueFair(q, p)

Dequeue(q, p, c) ==
    CASE c = "ras"  -> DequeueRas(q, p)
      [] c = "rt"   -> DequeueRt(q, p)
      [] c = "fair" -> DequeueFair(q, p)

-----------------------------------------------------------------------------
(* Who runs next *)

PickRt(q) ==
    {q.rt[i] : i \in {k \in DOMAIN q.rt : \A j \in DOMAIN q.rt :
        \/ prio[q.rt[k]] < prio[q.rt[j]]
        \/ prio[q.rt[k]] = prio[q.rt[j]] /\ k <= j}}

PickRas(q) == IF q.rasNrRunning = 0 THEN {} ELSE {Head(q.ras)}

\* The fair class returns any of its tasks, or none when it has none.
PickFair(q) == q.fair

\* The tasks pick_next_task may return: with only fair tasks queued it asks the
\* fair class first, otherwise the first class of the list that has a task.
PickNextTask(q) ==
    IF q.nrRunning = Cardinality(q.fair) /\ PickFair(q) # {} THEN PickFair(q)
    ELSE IF PickRt(q) # {} THEN PickRt(q)
    ELSE IF PickRas(q) # {} THEN PickRas(q)
    ELSE IF PickFair(q) # {} THEN PickFair(q)
    ELSE {Idle}

\* The end of __schedule on the queues q.
SwitchTo(q) ==
    /\ rq' = q
    /\ curr' \in PickNextTask(q)
    /\ needResched' = FALSE

-----------------------------------------------------------------------------
(* Preemption decisions.  Each operator is the set of values need_resched    *)
(* may have afterwards, given the classes cl and priorities pr then in force.*)

\* Mutant: a wake-up preempts nobody of another class.
CheckPreemptCurr_SameClassOnly(p, cl, pr) ==
    IF cl[p] = "rt" /\ cl[curr] = "rt" THEN {needResched \/ pr[p] < pr[curr]} ELSE {needResched}

CheckPreemptCurr(p, cl, pr) ==
    IF cl[p] = cl[curr]
    THEN CASE cl[p] = "ras"  -> {needResched}
           [] cl[p] = "rt"   -> {needResched \/ pr[p] < pr[curr]}
           [] cl[p] = "fair" -> {needResched, TRUE}
    ELSE {needResched \/ ClassRank(cl[p]) < ClassRank(cl[curr])}

\* Mutant: switched_to_rt, like prio_changed_ras, is left empty.
SwitchedTo_EmptyRt(p, cl, pr) ==
    CASE cl[p] = "ras"  -> {needResched \/ (onRq[p] /\ curr # p)}
      [] cl[p] = "rt"   -> {needResched}
      [] cl[p] = "fair" -> {needResched, TRUE}

SwitchedTo(p, cl, pr) ==
    CASE cl[p] = "ras"  -> {needResched \/ (onRq[p] /\ curr # p)}
      [] cl[p] = "rt"   -> {needResched \/ (onRq[p] /\ curr # p /\ pr[p] < pr[curr])}
      [] cl[p] = "fair" -> IF ~onRq[p] THEN {needResched}
                           ELSE IF curr = p THEN {TRUE}
                           ELSE CheckPreemptCurr(p, cl, pr)

PrioChanged(p, cl, pr) ==
    CASE cl[p] = "ras"  -> {needResched}
      [] cl[p] = "rt"   ->
            {needResched \/ (onRq[p] /\ IF curr = p THEN prio[p] < pr[p]
                                                    ELSE pr[p] < pr[curr])}
      [] cl[p] = "fair" -> IF ~onRq[p] THEN {needResched}
                           ELSE IF curr = p THEN {needResched \/ prio[p] < pr[p]}
                           ELSE CheckPreemptCurr(p, cl, pr)

CheckClassChanged(p, cl, pr) ==
    IF class[p] # cl[p] THEN SwitchedTo(p, cl, pr)
    ELSE IF prio[p] # pr[p] THEN PrioChanged(p, cl, pr)
    ELSE {needResched}

\* Mutant: the class changes before the task leaves its queue.
Reclass_ClassFirst(p, c, pr, head, need) ==
    /\ rq' = IF onRq[p] THEN Enqueue(Dequeue(rq, p, c), p, c, head) ELSE rq
    /\ class' = [class EXCEPT ![p] = c]
    /\ prio' = [prio EXCEPT ![p] = pr]
    /\ \E r \in CheckClassChanged(p, class', prio') : needResched' = (r \/ need)

\* Dequeue, change class and priority, enqueue again: what __sched_setscheduler,
\* rt_mutex_setprio and normalize_task share.  need is what the caller adds.
Reclass(p, c, pr, head, need) ==
    /\ rq' = IF onRq[p] THEN Enqueue(Dequeue(rq, p, class[p]), p, c, head) ELSE rq
    /\ class' = [class EXCEPT ![p] = c]
    /\ prio' = [prio EXCEPT ![p] = pr]
    /\ \E r \in CheckClassChanged(p, class', prio') : needResched' = (r \/ need)

-----------------------------------------------------------------------------
(* Where the processor is *)

Live(p) == state[p] \notin {"unused", "new"}

\* curr executes kernel code of its own choice, outside do_fork.
InSyscall(t) ==
    /\ curr = t /\ t \in Tasks
    /\ state[t] = "running"
    /\ \A c \in Tasks : state[c] = "new" => parent[c] # t

\* The kernel has booted far enough for one SCHED_NORMAL task to run.
Init ==
    \E t \in Tasks :
        /\ rq = [ras |-> <<>>, rasNrRunning |-> 0, rt |-> <<>>, fair |-> {t}, nrRunning |-> 1]
        /\ curr = t
        /\ needResched = FALSE
        /\ state = [p \in Tasks |-> IF p = t THEN "running" ELSE "unused"]
        /\ onRq = [p \in Tasks |-> p = t]
        /\ parent = [p \in Tasks |-> p]
        /\ class = [p \in Tasks \cup {Idle} |-> IF p = Idle THEN "idle" ELSE "fair"]
        /\ policy = [p \in Tasks |-> "NORMAL"]
        /\ prio = [p \in Tasks \cup {Idle} |-> IF p = Idle THEN MAX_PRIO ELSE NICE_0_PRIO]
        /\ staticPrio = [p \in Tasks |-> NICE_0_PRIO]
        /\ rtPriority = [p \in Tasks |-> 0]
        /\ resetOnFork = [p \in Tasks |-> FALSE]
        /\ piTop = [p \in Tasks |-> NoWaiter]
        /\ timeSlice = [p \in Tasks |-> RAS_MAX_TIMESLICE]
        /\ traceFlag = [p \in Tasks |-> FALSE]
        /\ wcounts = [p \in Tasks |-> 0]

-----------------------------------------------------------------------------
(* Schedule, sleep and wake up *)

\* curr is about to wait: it sets its state first and looks for the event after
\* that, so that a wake-up in between is not lost.
PrepareToWait ==
    /\ InSyscall(curr)
    /\ state' = [state EXCEPT ![curr] = "sleeping"]
    /\ UNCHANGED <<rq, curr, needResched, onRq, class, prio, taskVars, traceVars>>

\* The event was there: curr goes on without having slept.
FinishWait ==
    /\ curr \in Tasks /\ state[curr] = "sleeping"
    /\ state' = [state EXCEPT ![curr] = "running"]
    /\ UNCHANGED <<rq, curr, needResched, onRq, class, prio, taskVars, traceVars>>

\* schedule() called by curr itself in a state to keep running in, or with a
\* signal pending that makes __schedule put that state back.
ScheduleRunning ==
    /\ curr \in Tasks
    /\ InSyscall(curr) \/ state[curr] = "sleeping"
    /\ state' = [state EXCEPT ![curr] = "running"]
    /\ SwitchTo(rq)
    /\ UNCHANGED <<onRq, class, prio, taskVars, traceVars>>

\* Mutant: the state is not read again under rq->lock.
ScheduleAsleep_StaleState ==
    /\ curr \in Tasks
    /\ onRq' = [onRq EXCEPT ![curr] = FALSE]
    /\ SwitchTo(Dequeue(rq, curr, class[curr]))
    /\ UNCHANGED <<state, class, prio, taskVars, traceVars>>

\* schedule() called by curr after PrepareToWait: it leaves the run queue.
ScheduleAsleep ==
    /\ curr \in Tasks /\ state[curr] = "sleeping"
    /\ onRq' = [onRq EXCEPT ![curr] = FALSE]
    /\ SwitchTo(Dequeue(rq, curr, class[curr]))
    /\ UNCHANGED <<state, class, prio, taskVars, traceVars>>

\* preempt_schedule, preempt_schedule_irq, the return to user mode and the idle
\* loop: with PREEMPT_ACTIVE a task keeps its place whatever its state is.
PreemptSchedule ==
    /\ needResched
    /\ SwitchTo(rq)
    /\ UNCHANGED <<state, onRq, class, prio, taskVars, traceVars>>

\* try_to_wake_up(p, TASK_NORMAL), from an interrupt or from curr.  A p that has
\* not left the run queue yet only gets its state back (ttwu_remote).
WakeUp(p) ==
    /\ state[p] = "sleeping"
    /\ rq' = IF onRq[p] THEN rq ELSE Enqueue(rq, p, class[p], FALSE)
    /\ onRq' = [onRq EXCEPT ![p] = TRUE]
    /\ needResched' \in CheckPreemptCurr(p, class, prio)
    /\ state' = [state EXCEPT ![p] = "running"]
    /\ UNCHANGED <<curr, class, prio, taskVars, traceVars>>

\* sys_sched_yield: the class moves curr back, schedule() follows with no
\* interrupt in between.  The fair class has its own idea of yielding.
Yield ==
    /\ InSyscall(curr)
    /\ SwitchTo(CASE class[curr] = "ras"  -> RequeueRas(rq, curr)
                  [] class[curr] = "rt"   -> RequeueRt(rq, curr)
                  [] class[curr] = "fair" -> rq)
    /\ UNCHANGED <<state, onRq, class, prio, taskVars, traceVars>>

-----------------------------------------------------------------------------
(* Fork and exit *)

\* copy_process of curr: the child's task_struct is a copy of its parent's on
\* which sched_fork has run.  It is visible and not yet on the run queue.
SchedFork(c) ==
    LET t == curr
        revert == resetOnFork[t]
        pol == IF revert /\ RtPolicy(policy[t]) THEN "NORMAL" ELSE policy[t]
        rtp == IF revert /\ RtPolicy(policy[t]) THEN 0 ELSE rtPriority[t]
        sp  == IF revert /\ (RtPolicy(policy[t]) \/ staticPrio[t] < NICE_0_PRIO)
               THEN NICE_0_PRIO ELSE staticPrio[t]
        pr  == IF revert THEN sp ELSE NormalPrio(t)
    IN /\ InSyscall(t)
       /\ state[c] = "unused"
       /\ state' = [state EXCEPT ![c] = "new"]
       /\ parent' = [parent EXCEPT ![c] = t]
       /\ policy' = [policy EXCEPT ![c] = pol]
       /\ rtPriority' = [rtPriority EXCEPT ![c] = rtp]
       /\ staticPrio' = [staticPrio EXCEPT ![c] = sp]
       /\ prio' = [prio EXCEPT ![c] = pr]
       /\ class' = [class EXCEPT ![c] = ForkClass(t, pr)]
       /\ resetOnFork' = [resetOnFork EXCEPT ![c] = FALSE]
       /\ timeSlice' = [timeSlice EXCEPT ![c] = timeSlice[t]]
       /\ traceFlag' = [traceFlag EXCEPT ![c] = traceFlag[t]]
       /\ wcounts' = [wcounts EXCEPT ![c] = wcounts[t]]
       /\ UNCHANGED <<rq, curr, needResched, onRq, piTop>>

WakeUpNewTask(c) ==
    /\ state[c] = "new" /\ parent[c] = curr
    /\ rq' = Enqueue(rq, c, class[c], FALSE)
    /\ onRq' = [onRq EXCEPT ![c] = TRUE]
    /\ needResched' \in CheckPreemptCurr(c, class, prio)
    /\ state' = [state EXCEPT ![c] = "running"]
    /\ parent' = [parent EXCEPT ![c] = c]
    /\ UNCHANGED <<curr, class, prio, policy, staticPrio, rtPriority, resetOnFork, piTop,
                   traceVars>>

\* do_exit of curr: the state is TASK_DEAD when schedule() is called, and the
\* task_struct goes with the last reference.  init never exits.
Exit ==
    /\ InSyscall(curr)
    /\ piTop[curr] = NoWaiter
    /\ \E p \in Tasks \ {curr} : Live(p)
    /\ SwitchTo(Dequeue(rq, curr, class[curr]))
    /\ state' = [state EXCEPT ![curr] = "unused"]
    /\ onRq' = [onRq EXCEPT ![curr] = FALSE]
    /\ class' = [class EXCEPT ![curr] = "fair"]
    /\ policy' = [policy EXCEPT ![curr] = "NORMAL"]
    /\ prio' = [prio EXCEPT ![curr] = NICE_0_PRIO]
    /\ staticPrio' = [staticPrio EXCEPT ![curr] = NICE_0_PRIO]
    /\ rtPriority' = [rtPriority EXCEPT ![curr] = 0]
    /\ resetOnFork' = [resetOnFork EXCEPT ![curr] = FALSE]
    /\ timeSlice' = [timeSlice EXCEPT ![curr] = RAS_MAX_TIMESLICE]
    /\ traceFlag' = [traceFlag EXCEPT ![curr] = FALSE]
    /\ wcounts' = [wcounts EXCEPT ![curr] = 0]
    /\ UNCHANGED <<parent, piTop>>

-----------------------------------------------------------------------------
(* The tick *)

\* The loop of task_tick_ras over the queue.
WriteSum(q) ==
    LET sum[i \in 0 .. Len(q)] == IF i = 0 THEN 0 ELSE sum[i - 1] + wcounts[q[i]]
    IN sum[Len(q)]

\* The slice of a task with w writes among sum writes of the whole queue.
RaceSlice(w, sum) ==
    IF sum = 0 \/ sum = w THEN RAS_MAX_TIMESLICE
    ELSE RAS_MAX_TIMESLICE - (w * RaceScale) \div sum

NewSlice(p) ==
    IF rq.rasNrRunning = 1 THEN RAS_MAX_TIMESLICE
    ELSE RaceSlice(wcounts[p], WriteSum(rq.ras))

\* The run_list neighbours of p differ: it is queued, and not alone.
QueuedWithOthers(q, p) == p \in Range(q) /\ Len(q) > 1

\* Mutant: the expired task is requeued and runs on.
TaskTickRas_NoResched ==
    /\ class[curr] = "ras" /\ policy[curr] = "RAS"
    /\ timeSlice' = [timeSlice EXCEPT ![curr] = IF @ = 1 THEN NewSlice(curr) ELSE @ - 1]
    /\ rq' = IF timeSlice[curr] = 1 THEN RequeueRas(rq, curr) ELSE rq
    /\ UNCHANGED needResched

TaskTickRas ==
    /\ class[curr] = "ras" /\ policy[curr] = "RAS"
    /\ \/ /\ timeSlice[curr] # 1
          /\ timeSlice' = [timeSlice EXCEPT ![curr] = @ - 1]
          /\ UNCHANGED <<rq, needResched>>
       \/ /\ timeSlice[curr] = 1
          /\ timeSlice' = [timeSlice EXCEPT ![curr] = NewSlice(curr)]
          /\ IF QueuedWithOthers(rq.ras, curr)
             THEN rq' = RequeueRas(rq, curr) /\ needResched' = TRUE
             ELSE UNCHANGED <<rq, needResched>>

\* An SCHED_RR task whose slice ends (when it does is abstracted).
TaskTickRt ==
    /\ class[curr] = "rt" /\ policy[curr] = "RR"
    /\ QueuedWithOthers(SelectSeq(rq.rt, LAMBDA p : prio[p] = prio[curr]), curr)
    /\ rq' = RequeueRt(rq, curr)
    /\ needResched' = TRUE
    /\ UNCHANGED timeSlice

\* The fair class may decide that curr has run long enough.
TaskTickFair ==
    /\ class[curr] = "fair"
    /\ needResched' = TRUE
    /\ UNCHANGED <<rq, timeSlice>>

SchedulerTick ==
    /\ TaskTickRas \/ TaskTickRt \/ TaskTickFair
    /\ UNCHANGED <<curr, state, onRq, class, prio, taskVars, traceFlag, wcounts>>

-----------------------------------------------------------------------------
(* Policies and priorities *)

\* __sched_setscheduler by curr on p, past the checks of the arguments.  A call
\* that asks for the policy and priority p has returns before it changes
\* anything, the reset-on-fork flag included.
SetScheduler(p, pol, rtp, reset) ==
    LET pr == PiPrio(NormalPrioOf(pol, rtp, staticPrio[p]), piTop[p])
    IN /\ InSyscall(curr)
       /\ state[p] # "unused"
       /\ RtPolicy(pol) <=> rtp # 0
       /\ pol # policy[p] \/ (RtPolicy(pol) /\ rtp # rtPriority[p])
       /\ policy' = [policy EXCEPT ![p] = pol]
       /\ rtPriority' = [rtPriority EXCEPT ![p] = rtp]
       /\ resetOnFork' = [resetOnFork EXCEPT ![p] = reset]
       /\ Reclass(p, SchedClass(pol, pr), pr, FALSE, FALSE)
       /\ UNCHANGED <<curr, state, onRq, parent, staticPrio, piTop, traceVars>>

SetUserNice(p, sp) ==
    /\ InSyscall(curr)
    /\ state[p] # "unused"
    /\ sp # staticPrio[p]
    /\ staticPrio' = [staticPrio EXCEPT ![p] = sp]
    /\ IF RtPolicy(policy[p])
       THEN UNCHANGED <<rq, prio, needResched>>
       ELSE /\ prio' = [prio EXCEPT ![p] = IF RtPrio(@) THEN @ ELSE sp]
            /\ rq' = IF onRq[p] THEN Enqueue(Dequeue(rq, p, class[p]), p, class[p], FALSE)
                     ELSE rq
            /\ needResched' = \/ needResched
                              \/ onRq[p] /\ prio'[p] < prio[p]
                              \/ onRq[p] /\ prio'[p] > prio[p] /\ curr = p
    /\ UNCHANGED <<curr, state, onRq, class, parent, policy, rtPriority, resetOnFork, piTop,
                   traceVars>>

\* The highest waiter on p's rt_mutexes becomes top: rt_mutex_adjust_prio calls
\* rt_mutex_setprio when that makes a difference.
RtMutexSetPrio(p, top) ==
    LET pr == PiPrio(NormalPrio(p), top)
    IN /\ Live(p)
       /\ top # piTop[p]
       /\ piTop' = [piTop EXCEPT ![p] = top]
       /\ IF pr = prio[p]
          THEN UNCHANGED <<rq, class, prio, needResched>>
          ELSE Reclass(p, ClassByPrio(pr), pr, prio[p] < pr, FALSE)
       /\ UNCHANGED <<curr, state, onRq, parent, policy, staticPrio, rtPriority, resetOnFork,
                      traceVars>>

\* Mutant: the policy stays, the class goes.
NormalizeTask_KeepPolicy(p) ==
    LET pr == PiPrio(staticPrio[p], piTop[p])
    IN /\ Live(p)
       /\ RtPrio(prio[p])
       /\ Reclass(p, ClassByPrio(pr), pr, FALSE, onRq[p])
       /\ UNCHANGED <<curr, state, onRq, policy, rtPriority, parent, staticPrio, resetOnFork,
                      piTop, traceVars>>

\* SysRq-n on one real-time task.
NormalizeTask(p) ==
    LET pr == PiPrio(staticPrio[p], piTop[p])
    IN /\ Live(p)
       /\ RtPrio(prio[p])
       /\ policy' = [policy EXCEPT ![p] = "NORMAL"]
       /\ rtPriority' = [rtPriority EXCEPT ![p] = 0]
       /\ Reclass(p, ClassByPrio(pr), pr, FALSE, onRq[p])
       /\ UNCHANGED <<curr, state, onRq, parent, staticPrio, resetOnFork, piTop, traceVars>>

-----------------------------------------------------------------------------
(* Memory access tracing, one call at a time (MemTrace has its interleavings) *)

\* MaxWrites = 0 stands for a kernel without the trace modules.
StartTrace(p) ==
    /\ InSyscall(curr) /\ MaxWrites > 0
    /\ state[p] # "unused" /\ ~traceFlag[p]
    /\ traceFlag' = [traceFlag EXCEPT ![p] = TRUE]
    /\ wcounts' = [wcounts EXCEPT ![p] = 0]
    /\ UNCHANGED <<rq, curr, needResched, state, onRq, class, prio, taskVars, timeSlice>>

StopTrace(p) ==
    /\ InSyscall(curr) /\ MaxWrites > 0
    /\ state[p] # "unused"
    /\ traceFlag' = [traceFlag EXCEPT ![p] = FALSE]
    /\ wcounts' = [wcounts EXCEPT ![p] = 0]
    /\ UNCHANGED <<rq, curr, needResched, state, onRq, class, prio, taskVars, timeSlice>>

\* curr writes to a protected page: the SIGSEGV path of do_page_fault counts it.
TracedFault ==
    /\ InSyscall(curr)
    /\ traceFlag[curr] /\ wcounts[curr] < MaxWrites
    /\ wcounts' = [wcounts EXCEPT ![curr] = @ + 1]
    /\ UNCHANGED <<rq, curr, needResched, state, onRq, class, prio, taskVars, timeSlice,
                   traceFlag>>

-----------------------------------------------------------------------------

Next ==
    \/ PrepareToWait \/ FinishWait
    \/ ScheduleRunning \/ ScheduleAsleep \/ PreemptSchedule
    \/ Yield \/ Exit
    \/ SchedulerTick
    \/ TracedFault
    \/ \E p \in Tasks :
        \/ WakeUp(p)
        \/ SchedFork(p) \/ WakeUpNewTask(p)
        \/ NormalizeTask(p)
        \/ StartTrace(p) \/ StopTrace(p)
        \/ \E pol \in Policies, rtp \in RtPriorities \cup {0}, reset \in ResetFlags :
              SetScheduler(p, pol, rtp, reset)
        \/ \E sp \in StaticPrios : SetUserNice(p, sp)
        \/ \E top \in PiPrios \cup {NoWaiter} : RtMutexSetPrio(p, top)

Spec == Init /\ [][Next]_vars

\* The timer interrupt keeps coming, and a pending reschedule is acted upon:
\* interrupts and preemption are never off for ever.
FairSpec == Spec /\ WF_vars(SchedulerTick) /\ WF_vars(PreemptSchedule)

-----------------------------------------------------------------------------
(* Properties *)

\* The queues, the on_rq flags, the classes and the counters say the same: a
\* queued task is on exactly the list of its class, once, and ras_nr_running
\* and nr_running count what is there.  pick_next_task_ras dereferences the
\* head of a list it only knows to be non-empty from the counter.
RqConsistent ==
    /\ \A p \in Tasks :
        /\ p \in Range(rq.ras) <=> onRq[p] /\ class[p] = "ras"
        /\ p \in Range(rq.rt)  <=> onRq[p] /\ class[p] = "rt"
        /\ p \in rq.fair       <=> onRq[p] /\ class[p] = "fair"
    /\ IsInjective(rq.ras) /\ IsInjective(rq.rt)
    /\ rq.rasNrRunning = Len(rq.ras)
    /\ rq.nrRunning = Len(rq.ras) + Len(rq.rt) + Cardinality(rq.fair)

\* No wake-up is lost: whatever the order of PrepareToWait, wake-up, preemption
\* and schedule(), a task in state TASK_RUNNING is on the run queue, as is the
\* one that runs, and one not yet woken for the first time is not.
RunnableIsQueued ==
    /\ \A p \in Tasks : state[p] = "running" => onRq[p]
    /\ \A p \in Tasks : ~Live(p) => ~onRq[p]
    /\ curr \in Tasks => onRq[curr]

\* A task in the RAS class has the policy SCHED_RAS: task_tick_ras returns at
\* once for another policy, and its queue would never rotate.
RasClassHasRasPolicy == \A p \in Tasks : class[p] = "ras" => policy[p] = "RAS"

\* Priority, policy and class agree for real-time tasks: one that asked for
\* real-time and is not boosted away from it is in the RT class.
RtPolicyHasRtClass == \A p \in Tasks : RtPolicy(policy[p]) => class[p] = "rt" /\ RtPrio(prio[p])

\* Without a pending reschedule the RAS task that runs is the head of the queue
\* (what pick_next_task_ras would choose): round robin in queue order.
HeadRuns == class[curr] = "ras" /\ ~needResched => curr = Head(rq.ras)

\* Without a pending reschedule no queued task is of a higher class than curr.
HighestClassRuns ==
    needResched \/ \A p \in Tasks : onRq[p] => ClassRank(class[curr]) <= ClassRank(class[p])

\* The only step that leaves a task of a higher class waiting unnoticed is a
\* running real-time task that makes itself SCHED_RAS (switched_to_ras looks
\* only at tasks that do not run), or one that is so boosted that
\* switched_to_rt and prio_changed_rt compare it with a real-time priority.
OnlySelfSwitchHidesRt ==
    [][HighestClassRuns /\ ~HighestClassRuns' =>
        /\ curr' = curr /\ class'[curr] = "ras"
        /\ class[curr] = "rt" \/ RtPrio(prio[curr])]_vars

Before(s, a, b) == \E i, j \in DOMAIN s : i < j /\ s[i] = a /\ s[j] = b

\* Nobody overtakes in the RAS queue: two queued tasks keep their order unless
\* the first one was running (its slice ended, or it yielded) or was reniced.
NoOvertaking ==
    [][\A a, b \in Tasks :
        Before(rq.ras, a, b) /\ a \in Range(rq.ras') /\ b \in Range(rq.ras') =>
            \/ Before(rq.ras', a, b)
            \/ a = curr
            \/ staticPrio'[a] # staticPrio[a]]_vars

\* A task of the RAS queue gets the processor or leaves the queue.
RasEventuallyRuns ==
    \A p \in Tasks : p \in Range(rq.ras) ~> curr = p \/ p \notin Range(rq.ras)

\* A task leaves the RAS class only by a change of policy or by priority
\* inheritance: nice, wake-ups, SysRq and the tick leave it there.
RasClassKept ==
    [][\A p \in Tasks : class[p] = "ras" /\ class'[p] # "ras" =>
        policy'[p] # "RAS" \/ piTop'[p] # piTop[p]]_vars

=============================================================================
