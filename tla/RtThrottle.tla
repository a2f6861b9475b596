----------------------------- MODULE RtThrottle -----------------------------
(***************************************************************************)
(* Group scheduling and throttling of the real-time class (rt.c with        *)
(* CONFIG_RT_GROUP_SCHED): one processor, a tree of task groups, and the    *)
(* timers that replenish their run time.  A step is what the code does with *)
(* the lock of the run queue held and interrupts off.                       *)
(***************************************************************************)
EXTENDS RtFeasible, Sequences, SequencesExt

CONSTANTS
    Tasks,         \* the tasks that may become real-time
    Movers,        \* the tasks the administrator moves between groups
    Owners,        \* the tasks that hold an rt_mutex others wait for
    Other,         \* whatever runs when no real-time task does
    Groups, Root,  \* the task groups
    Parent,        \* the parent of every group but the root
    Prios,         \* the real-time priorities, 0 is the highest
    MAX_RT_PRIO,   \* the priority of every other task
    SetPrios,      \* the priorities given by sched_setscheduler
    PiPrios,       \* the priorities a waiter on an rt_mutex lends
    Period,        \* rt_period of every group
    Runtimes,      \* what is written to rt_runtime_us
    GlobalRuntime, \* sysctl_sched_rt_runtime while it limits
    MaxOverrun,    \* bound on the periods one expiry makes up for
    MaxTime        \* bound on rt_time

ASSUME TreeAssumption ==
    /\ Root \in Groups
    /\ Parent \in [Groups \ {Root} -> Groups]
    /\ IsFiniteSet(Groups) /\ IsFiniteSet(Tasks)
    /\ \E depth \in [Groups -> 0 .. Cardinality(Groups)] :
          \A g \in Groups \ {Root} : depth[g] = depth[Parent[g]] + 1
    /\ Movers \subseteq Tasks /\ Owners \subseteq Tasks
    /\ Groups \cap Tasks = {} /\ Other \notin Tasks
ASSUME PrioAssumption ==
    /\ MAX_RT_PRIO \in Nat /\ Prios = 0 .. MAX_RT_PRIO - 1
    /\ SetPrios \subseteq Prios /\ PiPrios \subseteq Prios
ASSUME TimeAssumption ==
    /\ Period \in Nat \ {0} /\ GlobalRuntime \in 0 .. Period
    /\ Runtimes \subseteq 0 .. Period \cup {RUNTIME_INF}
    /\ MaxOverrun \in Nat \ {0} /\ MaxTime \in Nat

VARIABLES
    rt,       \* the rt_rq of every group, one function per field
    task,     \* normal_prio, lent priority and group of every task
    asleep,   \* the tasks that are not on the run queue
    curr,     \* the task that runs
    resched,  \* TIF_NEED_RESCHED of curr
    runtime,  \* rt_runtime of every group
    limit,    \* sysctl_sched_rt_runtime: "on" since boot, "off", or "again" on
    moving    \* the <<task, group>> a cgroup attach has admitted, or <<>>

vars == <<rt, task, asleep, curr, resched, runtime, limit, moving>>

Levels == Prios \cup {MAX_RT_PRIO}
Entities == Tasks \cup (Groups \ {Root})
Enabled == limit # "off"

Init ==
    /\ rt = [q |-> [g \in Groups |-> [i \in Levels |-> <<>>]],
             bits |-> [g \in Groups |-> {}],
             nr |-> [g \in Groups |-> 0],
             hi |-> [g \in Groups |-> MAX_RT_PRIO],
             nb |-> [g \in Groups |-> 0],
             time |-> [g \in Groups |-> 0],
             thr |-> [g \in Groups |-> FALSE],
             timer |-> [g \in Groups |-> FALSE]]
    /\ task = [t \in Tasks |-> [normal |-> MAX_RT_PRIO, pi |-> MAX_RT_PRIO, group |-> Root]]
    /\ asleep = Tasks
    /\ curr = Other
    /\ resched = FALSE
    /\ runtime = [g \in Groups |-> IF g = Root THEN GlobalRuntime ELSE 0]
    /\ limit = "on"
    /\ moving = <<>>

-----------------------------------------------------------------------------
(* Entities: a task or a group, in the rt_rq of the group above it          *)

\* The groups from g up to the root's children.
path[g \in Groups] == IF g = Root THEN <<>> ELSE <<g>> \o path[Parent[g]]
Chain(tk, t) == <<t>> \o path[tk[t].group]
Above(g) == ToSet(path[g]) \cup {Root}

Prio(tk, t) == IF tk[t].pi < tk[t].normal THEN tk[t].pi ELSE tk[t].normal
IsRt(tk, t) == t \in Tasks /\ Prio(tk, t) < MAX_RT_PRIO
CurrPrio(tk) == IF curr = Other THEN MAX_RT_PRIO ELSE Prio(tk, curr)

RqOf(tk, e) == IF e \in Groups THEN Parent[e] ELSE tk[e].group
SePrio(r, tk, e) == IF e \in Groups THEN r.hi[e] ELSE Prio(tk, e)
SeBoosted(r, tk, e) == IF e \in Groups THEN r.nb[e] > 0 ELSE Prio(tk, e) # tk[e].normal
Throttled(r, g) == r.thr[g] /\ r.nb[g] = 0
OnRtRq(r, e) == \E g \in Groups, i \in Levels : Contains(r.q[g][i], e)

-----------------------------------------------------------------------------
(* Enqueue and dequeue, along the chain of entities                         *)

StartsTimer(g) == Enabled /\ runtime[g] # RUNTIME_INF

\* A group is not queued while it is throttled or empty.
MayQueue(r, e) == e \in Groups => ~Throttled(r, e) /\ r.nr[e] > 0

EnqueueOne(r, tk, e, head) ==
    LET g == RqOf(tk, e)
        p == SePrio(r, tk, e)
    IN IF ~MayQueue(r, e)
       THEN r
       ELSE [r EXCEPT !.q[g][p] = IF head THEN <<e>> \o @ ELSE Append(@, e),
                      !.bits[g] = @ \cup {p},
                      !.nr[g] = @ + 1,
                      !.hi[g] = IF p < @ THEN p ELSE @,
                      !.nb[g] = IF SeBoosted(r, tk, e) THEN @ + 1 ELSE @,
                      !.timer[g] = @ \/ StartsTimer(g)]

FirstBit(bits) == Min(bits \cup {MAX_RT_PRIO})

\* The entity leaves the list it is in; the bit that may be cleared is the one
\* of the priority it has now.
DequeueOne(r, tk, e) ==
    LET g    == RqOf(tk, e)
        p    == SePrio(r, tk, e)
        q    == [i \in Levels |-> RemoveFirst(r.q[g][i], e)]
        bits == IF q[p] = <<>> THEN r.bits[g] \ {p} ELSE r.bits[g]
    IN IF ~OnRtRq(r, e)
       THEN r
       ELSE [r EXCEPT !.q[g] = q,
                      !.bits[g] = bits,
                      !.nr[g] = @ - 1,
                      !.hi[g] = IF r.nr[g] = 1 THEN MAX_RT_PRIO
                                ELSE IF p = @ THEN FirstBit(bits) ELSE @,
                      !.nb[g] = IF SeBoosted(r, tk, e) THEN @ - 1 ELSE @]

\* Mutant: bottom up.
DequeueStack_BottomUp(r, tk, chain) ==
    FoldLeft(LAMBDA x, e : DequeueOne(x, tk, e), r, chain)

\* Top down, since the priority of an upper entry depends on the lower ones.
DequeueStack(r, tk, chain) ==
    FoldLeft(LAMBDA x, e : DequeueOne(x, tk, e), r, Reverse(chain))

EnqueueEntity(r, tk, chain, head) ==
    FoldLeft(LAMBDA x, e : EnqueueOne(x, tk, e, head), DequeueStack(r, tk, chain), chain)

DequeueEntity(r, tk, chain) ==
    FoldLeft(LAMBDA x, e : IF e \in Groups /\ x.nr[e] > 0 THEN EnqueueOne(x, tk, e, FALSE) ELSE x,
             DequeueStack(r, tk, chain), chain)

EnqueueTask(r, tk, t, head) ==
    IF IsRt(tk, t) THEN EnqueueEntity(r, tk, Chain(tk, t), head) ELSE r

-----------------------------------------------------------------------------
(* The run time of the groups of curr                                       *)

\* sched_rt_runtime_exceeded; stop says that curr has to go.
Exceeded(r, g) ==
    LET hit == ~r.thr[g] /\ runtime[g] < Period /\ r.time[g] > runtime[g]
        r1  == IF ~hit THEN r
               ELSE IF runtime[g] # 0 THEN [r EXCEPT !.thr[g] = TRUE]
               ELSE [r EXCEPT !.time[g] = 0]
        out == hit /\ Throttled(r1, g)
    IN [r |-> IF out THEN DequeueEntity(r1, task, path[g]) ELSE r1,
        stop |-> out \/ (r.thr[g] /\ Throttled(r, g))]

\* Mutant: a group that is throttled already is not looked at again.
Charge_OnlyFirst(acc, g, d) ==
    LET r == [acc.r EXCEPT !.time[g] = IF @ + d > MaxTime THEN @ ELSE @ + d]
        x == Exceeded(r, g)
    IN IF runtime[g] = RUNTIME_INF
       THEN acc
       ELSE [r |-> x.r, stop |-> acc.stop \/ (x.stop /\ ~r.thr[g])]

Charge(acc, g, d) ==
    LET r == [acc.r EXCEPT !.time[g] = IF @ + d > MaxTime THEN @ ELSE @ + d]
        x == Exceeded(r, g)
    IN IF runtime[g] = RUNTIME_INF
       THEN acc
       ELSE [r |-> x.r, stop |-> acc.stop \/ x.stop]

\* update_curr_rt after curr ran for d: every group above it is charged, from
\* its own to the root.
UpdateCurr(r, d) ==
    IF ~IsRt(task, curr) \/ ~Enabled
    THEN [r |-> r, stop |-> FALSE]
    ELSE FoldLeft(LAMBDA acc, e : Charge(acc, RqOf(task, e), d),
                  [r |-> r, stop |-> FALSE], Chain(task, curr))

\* How long curr has run since it was charged last; it matters for a real-time curr.
Elapsed == IF IsRt(task, curr) THEN 0 .. 1 ELSE {0}

\* dequeue_task_rt(t), curr having run for d.
DequeueTask(r, t, d) ==
    IF ~IsRt(task, t) THEN [r |-> r, stop |-> FALSE]
    ELSE LET u == UpdateCurr(r, d)
         IN [r |-> DequeueEntity(u.r, task, Chain(task, t)), stop |-> u.stop]

-----------------------------------------------------------------------------
(* Picking                                                                  *)

First(r, g) == Head(r.q[g][FirstBit(r.bits[g])])

\* _pick_next_task_rt, or Other when it returns NULL; that a queued group is
\* empty would be a bug of the kernel (BUG_ON).
PickRt(r) ==
    LET down[e \in Entities] ==
            IF e \in Groups /\ r.nr[e] > 0 THEN down[First(r, e)] ELSE e
    IN IF r.nr[Root] = 0 \/ Throttled(r, Root) THEN Other ELSE down[First(r, Root)]

\* When there is none, a class below runs one of its own.
PickNext(r, off) ==
    IF PickRt(r) # Other THEN {PickRt(r)}
    ELSE {Other} \cup {t \in Tasks \ off : ~IsRt(task, t)}

-----------------------------------------------------------------------------
(* What the scheduler core does                                             *)

\* __schedule when curr goes on: put_prev_task, pick_next_task.
Preempt ==
    /\ resched \/ ~IsRt(task, curr)
    /\ \E d \in Elapsed :
          LET u == UpdateCurr(rt, d)
          IN rt' = u.r /\ curr' \in PickNext(u.r, asleep)
    /\ resched' = FALSE
    /\ UNCHANGED <<task, asleep, runtime, limit, moving>>

\* __schedule when curr goes to sleep: deactivate_task comes first.
Sleep ==
    /\ curr # Other
    /\ \E d \in Elapsed :
          LET u == DequeueTask(rt, curr, d)
          IN /\ rt' = u.r
             /\ curr' \in PickNext(u.r, asleep \cup {curr})
    /\ asleep' = asleep \cup {curr}
    /\ resched' = FALSE
    /\ UNCHANGED <<task, runtime, limit, moving>>

\* try_to_wake_up: any real-time task preempts another class, and a lower one.
Wake(t) ==
    /\ t \in asleep
    /\ asleep' = asleep \ {t}
    /\ rt' = EnqueueTask(rt, task, t, FALSE)
    /\ resched' \in IF IsRt(task, t) THEN {resched \/ Prio(task, t) < CurrPrio(task)}
                    ELSE IF IsRt(task, curr) THEN {resched} ELSE {resched, TRUE}
    /\ UNCHANGED <<task, curr, runtime, limit, moving>>

Requeue(r, tk, t) ==
    FoldLeft(LAMBDA x, e :
                 IF OnRtRq(x, e)
                 THEN [x EXCEPT !.q[RqOf(tk, e)][SePrio(x, tk, e)] = Append(RemoveFirst(@, e), e)]
                 ELSE x,
             r, Chain(tk, t))

\* sched_yield of a real-time task, and the schedule() that follows.
Yield ==
    /\ IsRt(task, curr)
    /\ \E d \in Elapsed :
          LET u == UpdateCurr(Requeue(rt, task, curr), d)
          IN rt' = u.r /\ curr' \in PickNext(u.r, asleep)
    /\ resched' = FALSE
    /\ UNCHANGED <<task, asleep, runtime, limit, moving>>

HasCompany(r, e) ==
    OnRtRq(r, e) /\ Len(r.q[RqOf(task, e)][SePrio(r, task, e)]) > 1

\* task_tick_rt; last says that this was the last tick of a SCHED_RR slice.
Tick ==
    /\ IsRt(task, curr)
    /\ \E last \in BOOLEAN :
          LET u == UpdateCurr(rt, 1)
              rr == last /\ \E e \in ToSet(Chain(task, curr)) : HasCompany(u.r, e)
          IN /\ rt' = IF rr THEN Requeue(u.r, task, curr) ELSE u.r
             /\ resched' = (resched \/ u.stop \/ rr)
    /\ UNCHANGED <<task, asleep, curr, runtime, limit, moving>>

\* Dequeue, change, enqueue: what a change of the task's priority does to a
\* task on the run queue, and the check whether curr has to go.
Change(t, tk, head) ==
    \E d \in Elapsed :
        LET u1 == IF t \in asleep THEN [r |-> rt, stop |-> FALSE] ELSE DequeueTask(rt, t, d)
            u2 == IF t = curr THEN UpdateCurr(u1.r, 0) ELSE u1
            was == Prio(task, t)
            is  == Prio(tk, t)
            stop == resched \/ u1.stop \/ u2.stop
        IN /\ task' = tk
           /\ rt' = IF t \in asleep THEN rt ELSE EnqueueTask(u2.r, tk, t, head)
           /\ resched' \in
                 IF t \in asleep \/ was = is THEN {stop}
                 ELSE IF is = MAX_RT_PRIO
                 THEN IF t = curr THEN {TRUE} ELSE {stop, stop \/ ~IsRt(task, curr)}
                 ELSE IF t = curr THEN {stop \/ was < is}
                 ELSE {stop \/ is < CurrPrio(task)}
           /\ UNCHANGED <<asleep, curr, runtime, limit, moving>>

\* rt_mutex_setprio: a waiter lends its priority, or takes it back.
SetPi(t, p) ==
    /\ p # task[t].pi
    /\ LET tk == [task EXCEPT ![t].pi = p]
       IN IF Prio(tk, t) = Prio(task, t)
          THEN task' = tk /\ UNCHANGED <<rt, asleep, curr, resched, runtime, limit, moving>>
          ELSE Change(t, tk, Prio(task, t) < Prio(tk, t))

\* __sched_setscheduler, under the lock: no real-time policy in a group that
\* has no run time.
SetScheduler(t, p) ==
    /\ p # task[t].normal
    /\ ~(Enabled /\ p < MAX_RT_PRIO /\ runtime[task[t].group] = 0)
    /\ Change(t, [task EXCEPT ![t].normal = p], FALSE)

-----------------------------------------------------------------------------
(* Replenishment                                                            *)

\* sched_rt_rq_enqueue, with the check of curr.
RqEnqueue(r, g) ==
    IF r.nr[g] > 0 /\ g # Root /\ ~OnRtRq(r, g)
    THEN EnqueueEntity(r, task, path[g], FALSE) ELSE r

\* Mutant: an expiry that finds a throttled group stops the timer.
Idle_Throttled(r, g) == r.nr[g] = 0 \/ r.thr[g]

Idle(r, g) == r.time[g] = 0 /\ r.nr[g] = 0

Left(g, n) ==
    IF runtime[g] = RUNTIME_INF \/ n * runtime[g] >= rt.time[g] THEN 0
    ELSE rt.time[g] - n * runtime[g]

\* sched_rt_period_timer of g, n periods after it was set.
PeriodTimer(g, n) ==
    LET left == Left(g, n)
        free == rt.time[g] > 0 /\ rt.thr[g]
                /\ (runtime[g] = RUNTIME_INF \/ left < runtime[g])
        r1   == [rt EXCEPT !.time[g] = left, !.thr[g] = @ /\ ~free]
        enq  == free \/ (rt.time[g] = 0 /\ rt.nr[g] > 0 /\ ~Throttled(rt, g))
        r2   == IF enq THEN RqEnqueue(r1, g) ELSE r1
        stop == Idle(r1, g) \/ (~r1.thr[g] /\ (~Enabled \/ runtime[g] = RUNTIME_INF))
    IN /\ rt.timer[g]
       /\ rt' = [r2 EXCEPT !.timer[g] = ~stop]
       /\ resched' = (resched \/ (enq /\ rt.nr[g] > 0 /\ r2.hi[g] < CurrPrio(task)))
       /\ UNCHANGED <<task, asleep, curr, runtime, limit, moving>>

-----------------------------------------------------------------------------
(* The files of the administrator                                           *)

Children == [g \in Groups |-> {c \in Groups \ {Root} : Parent[c] = g}]
\* tg_has_rt_tasks: rt.tg of the run queue of a task is the root group.
Busy == {Root : t \in {t \in Tasks : IsRt(task, t)}}
GlobalRatio(on) == IF on THEN ToRatio(Period, GlobalRuntime) ELSE RatioUnit
Bandwidth(rs) == [g \in Groups |-> [period |-> Period, runtime |-> rs[g]]]

\* tg_set_rt_bandwidth.  read_lock disables preemption, so the test and the
\* change are one step on one processor.
SetRuntime(g, v) ==
    LET rs == [runtime EXCEPT ![g] = v]
    IN /\ v # runtime[g]
       /\ RtSchedulable(Bandwidth(rs), Children, Busy, Enabled, GlobalRatio(Enabled))
       /\ runtime' = rs
       /\ UNCHANGED <<rt, task, asleep, curr, resched, limit, moving>>

\* sched_rt_handler: -1 lifts the limit, the old value sets it again.
SetLimit(l) ==
    /\ limit' = l
    /\ RtSchedulable(Bandwidth(runtime), Children, Busy, l # "off", GlobalRatio(l # "off"))
    /\ UNCHANGED <<rt, task, asleep, curr, resched, runtime, moving>>

LimitOff == Enabled /\ SetLimit("off")
LimitOn  == ~Enabled /\ SetLimit("again")

\* sched_rt_can_attach.  The task may change before the cgroup core attaches it.
CanAttach(t, g) ==
    /\ moving = <<>> /\ g # task[t].group
    /\ ~(IsRt(task, t) /\ runtime[g] = 0)
    /\ moving' = <<t, g>>
    /\ UNCHANGED <<rt, task, asleep, curr, resched, runtime, limit>>

\* sched_move_task.
Attach ==
    /\ moving # <<>>
    /\ LET t == moving[1]
           tk == [task EXCEPT ![t].group = moving[2]]
       IN \E d \in Elapsed :
             LET u1 == IF t \in asleep THEN [r |-> rt, stop |-> FALSE] ELSE DequeueTask(rt, t, d)
                 u2 == IF t = curr THEN UpdateCurr(u1.r, 0) ELSE u1
             IN /\ task' = tk
                /\ rt' = IF t \in asleep THEN rt ELSE EnqueueTask(u2.r, tk, t, FALSE)
                /\ resched' = (resched \/ u1.stop \/ u2.stop)
    /\ moving' = <<>>
    /\ UNCHANGED <<asleep, curr, runtime, limit>>

Next ==
    \/ Preempt \/ Sleep \/ Yield \/ Tick
    \/ \E t \in Tasks :
          \/ Wake(t)
          \/ t \in Owners /\ \E p \in PiPrios \cup {MAX_RT_PRIO} : SetPi(t, p)
          \/ \E p \in SetPrios \cup {MAX_RT_PRIO} : SetScheduler(t, p)
          \/ t \in Movers /\ \E g \in Groups : CanAttach(t, g)
    \/ \E g \in Groups :
          \/ \E n \in 1 .. MaxOverrun : PeriodTimer(g, n)
          \/ \E v \in Runtimes : SetRuntime(g, v)
    \/ LimitOff \/ LimitOn \/ Attach

Spec == Init /\ [][Next]_vars

-----------------------------------------------------------------------------
(* Properties *)

TypeOK ==
    /\ DOMAIN rt = {"q", "bits", "nr", "hi", "nb", "time", "thr", "timer"}
    /\ rt.q \in [Groups -> [Levels -> Seq(Entities)]]
    /\ rt.bits \in [Groups -> SUBSET Prios]
    /\ rt.nr \in [Groups -> Nat] /\ rt.nb \in [Groups -> Nat]
    /\ rt.hi \in [Groups -> Levels]
    /\ rt.time \in [Groups -> 0 .. MaxTime]
    /\ rt.thr \in [Groups -> BOOLEAN] /\ rt.timer \in [Groups -> BOOLEAN]
    /\ task \in [Tasks -> [normal : Levels, pi : Levels, group : Groups]]
    /\ asleep \subseteq Tasks
    /\ curr \in (Tasks \ asleep) \cup {Other}
    /\ resched \in BOOLEAN
    /\ runtime \in [Groups -> Nat \cup {RUNTIME_INF}]
    /\ limit \in {"on", "off", "again"}
    /\ moving \in Tasks \X Groups \cup {<<>>}

Queued(g) == UNION {ToSet(rt.q[g][i]) : i \in Levels}

\* What every rt_rq says of itself (count, bitmap, highest priority, boosted
\* entities) is true of its lists, however wakes, boosts, policy changes,
\* moves, throttling and replenishment follow each other.
RqTrue(g) ==
    /\ rt.bits[g] = {i \in Levels : rt.q[g][i] # <<>>}
    /\ rt.nr[g] = Cardinality(Queued(g))
    /\ rt.hi[g] = FirstBit(rt.bits[g])
    /\ rt.nb[g] = Cardinality({e \in Queued(g) : SeBoosted(rt, task, e)})
    /\ \A i \in Levels : \A e \in ToSet(rt.q[g][i]) :
          RqOf(task, e) = g /\ SePrio(rt, task, e) = i

\* The lists of the hierarchy agree with each other and with the tasks: a group
\* is in the list of its parent exactly when it has entities and is not
\* throttled, at the priority of its best entity, and a real-time task is in
\* the list of its group exactly when it is awake.
HierarchyConsistent ==
    /\ \A g \in Groups : RqTrue(g)
    /\ \A g \in Groups \ {Root} : OnRtRq(rt, g) <=> rt.nr[g] > 0 /\ ~Throttled(rt, g)
    /\ \A t \in Tasks : OnRtRq(rt, t) <=> IsRt(task, t) /\ t \notin asleep

\* A throttled group has time to give back and, when it has entities, a timer
\* that will do it: nothing else would ever let them run again.  (After the
\* limit was lifted and set again the timer may be gone: start_rt_bandwidth is
\* called by enqueues only.)
ThrottledHasTimer ==
    limit = "on" =>
        \A g \in Groups : rt.thr[g] => rt.time[g] > 0 /\ (rt.nr[g] > 0 => rt.timer[g])

Overrun == IsRt(task, curr) /\ \E g \in Above(task[curr].group) : Throttled(rt, g)

\* After a tick, and after every choice of a task, a task below a throttled
\* group runs on only with a reschedule pending.
ThrottledMustGo ==
    [][Enabled /\ (Tick \/ Preempt \/ Sleep \/ Yield) => (Overrun' => resched')]_vars

=============================================================================
