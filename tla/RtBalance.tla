------------------------------ MODULE RtBalance ------------------------------
(***************************************************************************)
(* Real-time scheduling on several processors (CONFIG_SMP): every run queue *)
(* keeps the tasks it could give away, pushes them after it schedules and   *)
(* pulls others before it runs something less urgent, while tasks wake,     *)
(* change priority or affinity and processors are unplugged.  A step is     *)
(* what the code does without releasing a run queue lock: each time         *)
(* double_lock_balance lets go of one, the processor is left in ctx and any *)
(* other may move.  Groups and throttling are left out (see RtThrottle).    *)
(***************************************************************************)
EXTENDS Integers, FiniteSets, FiniteSetsExt, Sequences, SequencesExt

CONSTANTS
    Cpus,         \* the processors, numbered from 1
    Threads,      \* the tasks
    Idle,         \* the idle task of each processor
    Stopper,      \* the stop task of each processor, which migrates others
    NoOne,
    FairPrio,     \* MAX_RT_PRIO, and so every task that is not real-time
    MayPrio,      \* the priorities each task may be given; it starts with the least
    MayMask,      \* the affinities each task may be given
    HotCpus,      \* the processors that may be unplugged
    RT_MAX_TRIES

ASSUME CpuAssumption ==
    /\ Cpus # {} /\ IsFiniteSet(Cpus) /\ Cpus \subseteq Nat \ {0} /\ HotCpus \subseteq Cpus
    /\ RT_MAX_TRIES \in Nat \ {0}
ASSUME ThreadAssumption ==
    /\ IsFiniteSet(Threads)
    /\ FairPrio \in Nat \ {0}
    /\ MayPrio \in [Threads -> (SUBSET (1 .. FairPrio)) \ {{}}]
    /\ MayMask \in [Threads -> SUBSET ((SUBSET Cpus) \ {{}})]
    /\ {Idle, Stopper, NoOne} \cap Threads = {}

VARIABLES
    k,    \* the run queues and the scheduling fields of the tasks
    ctx,  \* what each processor is in the middle of, with its lock released
    hot,  \* the processor that goes down or comes up, and how far it is
    late  \* kept for the properties: a change has put tasks where they may wait

smpVars == <<k, ctx, hot, late>>

NoCtx == [at |-> "none", q |-> 0, task |-> NoOne, dest |-> 0, tries |-> 0,
          then |-> "none", who |-> NoOne]

NoPlug == [phase |-> "none", cpu |-> 0]

BalanceInit ==
    /\ k = [home |-> [t \in Threads |-> Min(Cpus)],
            onRq |-> [t \in Threads |-> FALSE],
            st |-> [t \in Threads |-> "sleep"],
            prio |-> [t \in Threads |-> Max(MayPrio[t])],
            mask |-> [t \in Threads |-> Cpus],
            curr |-> [c \in Cpus |-> Idle],
            resched |-> [c \in Cpus |-> FALSE],
            post |-> [c \in Cpus |-> FALSE],
            push |-> [c \in Cpus |-> <<>>],
            next |-> [c \in Cpus |-> FairPrio],
            mig |-> [c \in Cpus |-> 0],
            over |-> [c \in Cpus |-> FALSE],
            online |-> [c \in Cpus |-> TRUE],
            pri |-> [c \in Cpus |-> FairPrio],
            wakeList |-> [c \in Cpus |-> <<>>],
            rto |-> {}, rtoCount |-> 0,
            up |-> Cpus, active |-> Cpus, stops |-> {}, stray |-> {}]
    /\ ctx = [c \in Cpus |-> NoCtx]
    /\ hot = NoPlug
    /\ late = FALSE

-----------------------------------------------------------------------------
(* Reading a run queue *)

Queued(s, c) == {t \in Threads : s.onRq[t] /\ s.home[t] = c}
RtQueued(s, c) == {t \in Queued(s, c) : s.prio[t] < FairPrio}

\* rt.highest_prio.curr
Highest(s, c) == Min({s.prio[t] : t \in RtQueued(s, c)} \cup {FairPrio})

PrioOf(s, t) == IF t = Stopper THEN 0 ELSE IF t = Idle THEN FairPrio + 1 ELSE s.prio[t]

Movable(s, t) == t \in Threads /\ Cardinality(s.mask[t]) > 1
OnCpu(s, t) == \E c \in Cpus : s.curr[c] = t
PiFree(t) == \A c \in Cpus : ctx[c].who # t

-----------------------------------------------------------------------------
(* Queueing, and what is kept about every queue *)

\* update_rt_migration: the mask and the count of the processors that have more
\* than they can run are only told while the queue is online.
SetOverload(s, c, on) ==
    IF on THEN [s EXCEPT !.rto = @ \cup {c}, !.rtoCount = @ + 1]
          ELSE [s EXCEPT !.rto = @ \ {c}, !.rtoCount = @ - 1]

Migration(s, c) ==
    LET loaded == s.mig[c] > 0 /\ Cardinality(RtQueued(s, c)) > 1
        t == [s EXCEPT !.over[c] = loaded]
    IN IF loaded = s.over[c] THEN s
       ELSE IF s.online[c] THEN SetOverload(t, c, loaded) ELSE t

\* cpupri hears of the most urgent priority of a queue when it changes.
Cpupri(s, c, old) ==
    IF s.online[c] /\ Highest(s, c) # old THEN [s EXCEPT !.pri[c] = Highest(s, c)] ELSE s

\* The list is a plist: in the order of priorities, and of arrival among equals.
PushOff(s, c, t) ==
    LET rest == RemoveFirst(s.push[c], t)
    IN [s EXCEPT !.push[c] = rest,
                 !.next[c] = IF rest = <<>> THEN FairPrio ELSE s.prio[Head(rest)]]

PushOn(s, c, t) ==
    LET rest == RemoveFirst(s.push[c], t)
        place == Min({i \in 1 .. Len(rest) + 1 :
                        i > Len(rest) \/ s.prio[rest[i]] > s.prio[t]})
    IN [s EXCEPT !.push[c] = InsertAt(rest, place, t),
                 !.next[c] = IF s.prio[t] < @ THEN s.prio[t] ELSE @]

Counted(s, t) == IF Movable(s, t) THEN 1 ELSE 0

Dequeue(s, t) ==
    LET c == s.home[t]
        gone == [s EXCEPT !.onRq[t] = FALSE, !.mig[c] = @ - Counted(s, t)]
    IN IF s.prio[t] = FairPrio THEN [s EXCEPT !.onRq[t] = FALSE]
       ELSE PushOff(Migration(Cpupri(gone, c, Highest(s, c)), c), c, t)

Enqueue(s, t) ==
    LET c == s.home[t]
        come == [s EXCEPT !.onRq[t] = TRUE, !.mig[c] = @ + Counted(s, t)]
        told == Migration(Cpupri(come, c, Highest(s, c)), c)
    IN IF s.prio[t] = FairPrio THEN [s EXCEPT !.onRq[t] = TRUE]
       ELSE IF s.curr[c] # t /\ Movable(s, t) THEN PushOn(told, c, t) ELSE told

Move(s, t, c) == Enqueue([Dequeue(s, t) EXCEPT !.home[t] = c, !.stray = @ \ {t}], t)

Resched(s, c) == [s EXCEPT !.resched[c] = TRUE]

-----------------------------------------------------------------------------
(* What the last property does not hold after, kept in late until all is well: *)
(* these, and GivesUp, Misses and Robs below                                   *)

\* With nothing left to do anywhere.
AtRest ==
    /\ hot = NoPlug /\ k.stops = {}
    /\ \A c \in Cpus : /\ ctx[c] = NoCtx /\ ~k.resched[c] /\ ~k.post[c]
                        /\ k.wakeList[c] = <<>> /\ k.curr[c] # Stopper

Waiting == {t \in Threads : k.onRq[t] /\ k.prio[t] < FairPrio /\ ~OnCpu(k, t)}

\* A queued task that does not run, or one that stops to be real-time, changes
\* its priority; a queued task changes its affinity; a processor comes back.
Unsettling ==
    \/ \E t \in Threads :
        /\ k.onRq[t] /\ k'.onRq[t]
        /\ \/ k.mask[t] # k'.mask[t]
           \/ k.prio[t] # k'.prio[t] /\ (~OnCpu(k, t) \/ FairPrio \in {k.prio[t], k'.prio[t]})
    \/ k'.stray # k.stray
    \/ hot.phase = "up" /\ hot'.phase = "none"

NotedIf(more) ==
    late' = (Unsettling \/ more \/ (late /\ ~(AtRest /\ Waiting = {} /\ k.stray = {})))
Noted == NotedIf(FALSE)
Stays == UNCHANGED hot /\ Noted

-----------------------------------------------------------------------------
(* Where a task could go *)

\* External: cpupri_find, the processors of the task's mask that run the least
\* urgent work there is, if it is less urgent than the task.
CpupriFind(s, t) ==
    {c \in s.mask[t] : /\ s.pri[c] > s.prio[t]
                       /\ \A d \in s.mask[t] : s.pri[d] <= s.pri[c]}

\* find_lowest_rq: the processor the task last ran on, or any by topology.
FindLowest(s, t) ==
    LET low == CpupriFind(s, t) IN
    IF ~Movable(s, t) \/ low = {} THEN {0}
    ELSE IF s.home[t] \in low THEN {s.home[t]} ELSE low

\* check_preempt_curr_rt: the running task also makes way for one of its own
\* priority that can go nowhere else.
PreemptsRt(s, c, t) ==
    LET run == s.curr[c] IN
    \/ s.prio[t] < PrioOf(s, run)
    \/ /\ s.prio[t] = PrioOf(s, run) /\ ~s.resched[c]
       /\ Movable(s, run) /\ CpupriFind(s, run) # {}
       /\ ~Movable(s, t) \/ CpupriFind(s, t) = {}

\* The results of check_preempt_curr; what a fair task does to another one is
\* not known here.
CheckPreempt(s, c, t) ==
    LET run == PrioOf(s, s.curr[c])
        fair == s.prio[t] = FairPrio
    IN IF fair /\ run = FairPrio THEN {s, Resched(s, c)}
       ELSE IF IF fair THEN s.prio[t] < run ELSE PreemptsRt(s, c, t)
       THEN {Resched(s, c)} ELSE {s}

\* A loop that has run to its end, and one that waits for the lock of dest.
Done(s) == [s |-> s, task |-> NoOne, dest |-> 0, tries |-> 0, moved |-> FALSE]
Locking(s, t, d, n) == [s |-> s, task |-> t, dest |-> d, tries |-> n, moved |-> FALSE]

\* push_rt_task, to its end or to double_lock_balance of the chosen queue.
PushNext(s, q) ==
    LET t == Head(s.push[q]) IN
    IF t = s.curr[q] THEN {Done(s)}
    ELSE IF s.prio[t] < PrioOf(s, s.curr[q]) THEN {Done(Resched(s, q))}
    ELSE {IF d \in {0, q} THEN Done(s) ELSE Locking(s, t, d, 0) : d \in FindLowest(s, t)}

PushStart(s, q) ==
    IF ~s.over[q] \/ s.push[q] = <<>> THEN {Done(s)} ELSE PushNext(s, q)

\* Nothing was found to push t to: another task may be first by now.
PushFailed(s, q, t) ==
    IF s.push[q] = <<>> \/ (s.home[t] = q /\ Head(s.push[q]) = t) THEN {Done(s)}
    ELSE PushNext(s, q)

\* Mutant: the task is not looked at again after the lock was released.
Stale_Never(s, q, t, d) == FALSE

\* The task has moved, was bound elsewhere, runs or sleeps by now.
Stale(s, q, t, d) == s.home[t] # q \/ d \notin s.mask[t] \/ OnCpu(s, t) \/ ~s.onRq[t]

\* push_rt_task from there on, both locks held; push_rt_tasks goes on while one
\* was moved.
PushLocked(s, q, t, d, n, all) ==
    LET moved == Resched(Move(s, t, d), d) IN
    IF Stale(s, q, t, d) THEN PushFailed(s, q, t)
    ELSE IF Highest(s, d) > s.prio[t]
    THEN IF all THEN PushStart(moved, q) ELSE {[Done(moved) EXCEPT !.moved = TRUE]}
    ELSE IF n + 1 = RT_MAX_TRIES THEN PushFailed(s, q, t)
    ELSE UNION {IF e \in {0, q} THEN PushFailed(s, q, t) ELSE {Locking(s, t, e, n + 1)} :
                e \in FindLowest(s, t)}

\* The next queue after processor d that pull_rt_task bothers to lock, or 0.
PullNext(s, q, d) ==
    LET rich == {e \in s.rto \ {q} : e > d /\ s.next[e] < Highest(s, q)}
    IN IF s.rtoCount = 0 \/ rich = {} THEN 0 ELSE Min(rich)

\* Mutant: the affinity is not looked at.
Pullable_AnyMask(s, q, d) ==
    LET all == {t \in RtQueued(s, d) : ~OnCpu(s, t)}
    IN {t \in all : \A u \in all : s.prio[t] <= s.prio[u]}

\* pick_next_highest_task_rt: the most urgent tasks of queue d that may run on q.
Pullable(s, q, d) ==
    LET all == {t \in RtQueued(s, d) : ~OnCpu(s, t) /\ q \in s.mask[t] /\ Movable(s, t)}
    IN {t \in all : \A u \in all : s.prio[t] <= s.prio[u]}

PullLocked(s, q, d) ==
    LET some == {t \in Pullable(s, q, d) : /\ s.prio[t] < Highest(s, q)
                                          /\ s.prio[t] >= PrioOf(s, s.curr[d])}
    IN IF Cardinality(RtQueued(s, d)) <= 1 \/ some = {} THEN {s}
       ELSE {Move(s, t, q) : t \in some}

-----------------------------------------------------------------------------
(* Picking the next task: the previous one may be given away from now on, the *)
(* next one no longer *)

StopPending(s, c) == (\E x \in s.stops : x[2] = c) \/ hot.phase \in {"stop", "dying"}

PutPrev(s, c) ==
    LET prev == s.curr[c] IN
    IF prev \in Threads /\ s.onRq[prev] /\ s.prio[prev] < FairPrio /\ Movable(s, prev)
    THEN PushOn(s, c, prev) ELSE s

Switched(s, c, t) == [s EXCEPT !.curr[c] = t, !.resched[c] = FALSE]

Pick(s, c) ==
    LET put == PutPrev(s, c)
        best == {t \in RtQueued(put, c) : put.prio[t] = Highest(put, c)}
        taken(t) == PushOff(put, c, t)
    IN IF StopPending(s, c) THEN {Switched(put, c, Stopper)}
       ELSE IF best # {}
       THEN {[Switched(taken(t), c, t) EXCEPT !.post[c] = taken(t).push[c] # <<>>] : t \in best}
       ELSE {[Switched(put, c, t) EXCEPT !.post[c] = FALSE] :
             t \in IF Queued(put, c) = {} THEN {Idle} ELSE Queued(put, c)}

\* switched_to_fair, external: the running task reschedules.
SwitchedToFair(s, q, t) ==
    IF ~s.onRq[t] THEN {s}
    ELSE IF s.curr[q] = t THEN {Resched(s, q)} ELSE CheckPreempt(s, q, t)

-----------------------------------------------------------------------------
(* The ends of the loops: what their caller does next, the lock held again *)

Ends(s, c, x, moved) ==
    CASE x.then = "post" -> {[s EXCEPT !.post[c] = FALSE]}
      [] x.then = "woken" -> {s}
      [] x.then = "pick" -> Pick(s, c)
      [] x.then = "prio" ->
            {IF s.prio[x.who] > Highest(s, x.q) /\ s.curr[x.q] = x.who
             THEN Resched(s, x.q) ELSE s}
      [] x.then = "from" -> SwitchedToFair(s, x.q, x.who)
      [] x.then = "to" ->
            {IF (moved => s.home[x.who] = x.q) /\ s.prio[x.who] < PrioOf(s, s.curr[x.q])
             THEN Resched(s, x.q) ELSE s}

Leave(c, x) == ctx' = [ctx EXCEPT ![c] = x]

\* Processor c runs a push of queue x.q that has come to r.
PushRuns(c, x, r) ==
    IF r.task = NoOne
    THEN k' \in Ends(r.s, c, x, r.moved) /\ Leave(c, NoCtx)
    ELSE k' = r.s /\ Leave(c, [x EXCEPT !.at = "push", !.task = r.task, !.dest = r.dest,
                                        !.tries = r.tries])

\* Processor c runs a pull for queue x.q that has done the processors up to d.
PullRuns(c, x, s, d) ==
    LET e == PullNext(s, x.q, d) IN
    IF e = 0 THEN k' \in Ends(s, c, x, FALSE) /\ Leave(c, NoCtx)
    ELSE k' = s /\ Leave(c, [x EXCEPT !.at = "pull", !.dest = e])

Loop(q, then, who) == [NoCtx EXCEPT !.q = q, !.then = then, !.who = who]

\* Noted in late: a push gives up with processors left to try.
GivesUp(x) ==
    /\ ~Stale(k, x.q, x.task, x.dest) /\ Highest(k, x.dest) <= k.prio[x.task]
    /\ x.tries + 1 = RT_MAX_TRIES /\ FindLowest(k, x.task) # {0}

\* Noted in late: a pull for a task that became less urgent brings another to a
\* processor that no longer runs the first, and is not asked to choose again.
Misses(x) ==
    /\ x.then = "prio" /\ k.curr[x.q] # x.who /\ k'.home # k.home
    /\ ~k.resched[x.q] /\ ctx[x.q].then # "pick"

\* Noted in late: a processor loses the most urgent task of its queue while another
\* waits on a third, whose queue it may have passed over for the one it lost.
Robs ==
    \E t \in Threads :
        LET from == k.home[t]
            to == k'.home[t]
        IN /\ k.onRq[t] /\ from # to /\ Highest(k, from) < Highest(k', from)
           /\ \E u \in Waiting' : k'.home[u] \notin {from, to}

\* The locks are taken again.
PushGoes(c) ==
    LET x == ctx[c] IN
    /\ x.at = "push"
    /\ \E r \in PushLocked(k, x.q, x.task, x.dest, x.tries, x.then # "to") : PushRuns(c, x, r)
    /\ UNCHANGED hot /\ NotedIf(GivesUp(x) \/ Robs)

PullGoes(c) ==
    LET x == ctx[c] IN
    /\ x.at = "pull"
    /\ \E s \in PullLocked(k, x.q, x.dest) : PullRuns(c, x, s, x.dest)
    /\ UNCHANGED hot /\ NotedIf(Misses(x) \/ Robs)

-----------------------------------------------------------------------------
(* schedule() *)

Ready(c) == c \in k.up /\ ctx[c].at = "none" /\ hot.phase # "dying"

\* Mutant: the processor does not look for tasks to pull.
ScheduleFrom_NoPull(c, s) == k' \in Pick(s, c) /\ Leave(c, NoCtx)

\* A real-time task that makes way for less urgent work pulls first.
ScheduleFrom(c, s) ==
    LET prev == k.curr[c] IN
    IF prev \in Threads /\ s.prio[prev] < FairPrio /\ Highest(s, c) > s.prio[prev]
    THEN PullRuns(c, Loop(c, "pick", NoOne), s, 0)
    ELSE k' \in Pick(s, c) /\ Leave(c, NoCtx)

PreemptCurr(c) ==
    /\ Ready(c) /\ k.resched[c] /\ ~k.post[c]
    /\ ScheduleFrom(c, k)
    /\ Stays

SleepCurr(c) ==
    LET prev == k.curr[c] IN
    /\ Ready(c) /\ ~k.post[c] /\ prev \in Threads
    /\ ScheduleFrom(c, [Dequeue(k, prev) EXCEPT !.st[prev] = "sleep"])
    /\ Stays

PostSchedule(c) ==
    /\ Ready(c) /\ k.post[c]
    /\ IF PrioOf(k, k.curr[c]) \in 1 .. FairPrio - 1
       THEN \E r \in PushStart(k, c) : PushRuns(c, Loop(c, "post", NoOne), r)
       ELSE k' = [k EXCEPT !.post[c] = FALSE] /\ Leave(c, NoCtx)
    /\ Stays

-----------------------------------------------------------------------------
(* Affinity and wake-up *)

\* do_set_cpus_allowed, with set_cpus_allowed_rt for a real-time task.
SetMask(s, t, m) ==
    LET c == s.home[t]
        was == Movable(s, t)
        will == Cardinality(m) > 1
        off == IF s.curr[c] # t /\ was THEN PushOff(s, c, t) ELSE s
        on == IF s.curr[c] # t /\ will THEN PushOn(off, c, t) ELSE off
        n == IF was THEN IF will THEN 0 ELSE -1 ELSE IF will THEN 1 ELSE 0
        counted == Migration([on EXCEPT !.mig[c] = @ + n], c)
    IN IF /\ s.prio[t] < FairPrio /\ s.onRq[t]
          /\ Cardinality(m) # Cardinality(s.mask[t])
       THEN [counted EXCEPT !.mask[t] = m] ELSE [s EXCEPT !.mask[t] = m]

\* select_fallback_rq: with no allowed processor left, the task may run anywhere.
Fallback(s, t) ==
    LET there == s.up \cap s.active
        free == SetMask(s, t, Cpus)
    IN IF s.mask[t] \cap there # {}
       THEN {[s |-> s, cpu |-> d] : d \in s.mask[t] \cap there}
       ELSE {[s |-> free, cpu |-> d] : d \in there}

\* select_task_rq_rt, with the lock of no queue.
SelectRt(s, t) ==
    LET c == s.home[t]
        run == s.curr[c]
    IN IF /\ Movable(s, t)
          /\ PrioOf(s, run) < FairPrio
          /\ ~Movable(s, run) \/ PrioOf(s, run) <= s.prio[t]
       THEN {IF d = 0 THEN c ELSE d : d \in FindLowest(s, t)} ELSE {c}

\* Fair tasks are placed by code that is not here.
SelectRq(s, t) ==
    UNION {IF d \in s.mask[t] \cap s.up THEN {[s |-> s, cpu |-> d]} ELSE Fallback(s, t) :
           d \in IF s.prio[t] < FairPrio THEN SelectRt(s, t) ELSE Cpus}

\* try_to_wake_up as far as the lock of the chosen queue, or to its wake list
\* (TTWU_QUEUE, for processors that share no cache).  A task that still runs is
\* waited for.
WakeUp(c, t) ==
    /\ Ready(c) /\ k.st[t] = "sleep" /\ ~OnCpu(k, t) /\ PiFree(t)
    /\ \E r \in SelectRq(k, t) :
        LET s == [r.s EXCEPT !.home[t] = r.cpu, !.st[t] = "waking",
                               !.stray = @ \ {t}] IN
        \/ /\ k' = s
           /\ Leave(c, [Loop(r.cpu, "woken", t) EXCEPT !.at = "wake"])
        \/ /\ r.cpu # c
           /\ k' = [s EXCEPT !.wakeList[r.cpu] = Append(@, t)]
           /\ UNCHANGED ctx
    /\ Stays

\* task_woken_rt: the task will not run soon on queue q, and could elsewhere.
PushesWoken(s, q, t) ==
    LET run == s.curr[q] IN
    /\ s.prio[t] < FairPrio /\ ~s.resched[q] /\ s.push[q] # <<>> /\ Movable(s, t)
    /\ PrioOf(s, run) < FairPrio
    /\ ~Movable(s, run) \/ PrioOf(s, run) <= s.prio[t]

\* ttwu_do_activate, on the queue of the task.
Activate(c, s, t, who) ==
    LET q == s.home[t] IN
    \E w \in CheckPreempt(Enqueue([s EXCEPT !.st[t] = "run"], t), q, t) :
        IF PushesWoken(w, q, t)
        THEN \E r \in PushStart(w, q) : PushRuns(c, Loop(q, "woken", who), r)
        ELSE k' = w /\ Leave(c, NoCtx)

WakeLocked(c) ==
    /\ ctx[c].at = "wake"
    /\ Activate(c, k, ctx[c].who, ctx[c].who)
    /\ Stays

\* sched_ttwu_pending, in the interrupt that ttwu_queue_remote sent.
TtwuPending(c) ==
    /\ Ready(c) /\ k.wakeList[c] # <<>>
    /\ Activate(c, [k EXCEPT !.wakeList[c] = Tail(@)], Head(k.wakeList[c]), NoOne)
    /\ Stays

\* set_cpus_allowed_ptr: a queued task on a processor it may no longer use is
\* moved by the stop task of that one.  One on a wake list is not queued, and so
\* strays (kept for the properties).
SetCpusAllowed(t, m) ==
    LET s == SetMask(k, t, m)
        h == k.home[t]
        lost == h \notin m /\ s.st[t] = "waking"
    IN IF h \in m \/ ~k.onRq[t]
       THEN {[s EXCEPT !.stray = IF lost THEN @ \cup {t} ELSE @]}
       ELSE {[Resched(s, h) EXCEPT !.stops = @ \cup {<<t, h, d>>}] : d \in m \cap k.active}

\* sched_setaffinity keeps processors from coming and going.
SetAffinity(c, t, m) ==
    /\ Ready(c) /\ k.curr[c] \in Threads /\ PiFree(t) /\ hot = NoPlug
    /\ m # k.mask[t] /\ m \cap k.active # {}
    /\ k' \in SetCpusAllowed(t, m)
    /\ UNCHANGED ctx /\ Stays

-----------------------------------------------------------------------------
(* __sched_setscheduler and rt_mutex_setprio: out of the queue, changed, back *)

\* Mutant: the running task goes back among those that may be given away.
Requeued_Pushable(s, t, p) ==
    LET off == IF s.onRq[t] THEN Dequeue(s, t) ELSE s
        new == [off EXCEPT !.prio[t] = p]
        on == IF s.onRq[t] THEN Enqueue(new, t) ELSE new
    IN IF s.onRq[t] /\ p < FairPrio /\ Movable(s, t) THEN PushOn(on, s.home[t], t) ELSE on

Requeued(s, t, p) ==
    LET off == IF s.onRq[t] THEN Dequeue(s, t) ELSE s
        new == [off EXCEPT !.prio[t] = p]
        set == IF s.curr[s.home[t]] = t /\ p < FairPrio THEN PushOff(new, s.home[t], t) ELSE new
    IN IF s.onRq[t] THEN Enqueue(set, t) ELSE set

SwitchedFromRt(c, s, q, t) ==
    IF RtQueued(s, q) = {} THEN PullRuns(c, Loop(q, "from", t), s, 0)
    ELSE k' \in SwitchedToFair(s, q, t) /\ UNCHANGED ctx

SwitchedToRt(c, s, q, t) ==
    IF s.curr[q] # t /\ s.over[q]
    THEN \E r \in PushStart(s, q) : PushRuns(c, Loop(q, "to", t), r)
    ELSE k' = (IF s.curr[q] # t /\ s.prio[t] < PrioOf(s, s.curr[q]) THEN Resched(s, q) ELSE s)
         /\ UNCHANGED ctx

PrioChangedRt(c, s, q, t, old) ==
    IF s.curr[q] = t /\ old < s.prio[t]
    THEN PullRuns(c, Loop(q, "prio", t), s, 0)
    ELSE k' = (IF IF s.curr[q] = t THEN s.prio[t] > Highest(s, q)
                  ELSE s.prio[t] < PrioOf(s, s.curr[q])
               THEN Resched(s, q) ELSE s)
         /\ UNCHANGED ctx

\* A running task asks; check_class_changed does the rest.
SetPrio(c, t, p) ==
    LET q == k.home[t]
        old == k.prio[t]
        s == Requeued(k, t, p)
    IN /\ Ready(c) /\ k.curr[c] \in Threads /\ PiFree(t) /\ p # old
       /\ CASE ~s.onRq[t] -> k' = s /\ UNCHANGED ctx
            [] s.onRq[t] /\ p = FairPrio -> SwitchedFromRt(c, s, q, t)
            [] s.onRq[t] /\ old = FairPrio -> SwitchedToRt(c, s, q, t)
            [] OTHER -> PrioChangedRt(c, s, q, t, old)
       /\ Stays

-----------------------------------------------------------------------------
(* The stop task *)

\* Already moved, bound elsewhere since, or the processor went away.
Fits(x) == k.home[x[1]] = x[2] /\ x[3] \in k.active /\ x[3] \in k.mask[x[1]]

\* migration_cpu_stop: __migrate_task.
Migrate(c) ==
    /\ Ready(c) /\ k.curr[c] = Stopper
    /\ \E x \in k.stops :
        LET s == [k EXCEPT !.stops = @ \ {x}] IN
        /\ x[2] = c /\ PiFree(x[1])
        /\ IF Fits(x) /\ k.onRq[x[1]]
           THEN k' \in CheckPreempt(Move(s, x[1], x[3]), x[3], x[1])
           ELSE k' = s
    /\ UNCHANGED ctx /\ Stays

StopperSleeps(c) ==
    /\ Ready(c) /\ k.curr[c] = Stopper /\ ~StopPending(k, c) /\ ~k.post[c]
    /\ k' \in Pick(k, c)
    /\ UNCHANGED ctx /\ Stays

-----------------------------------------------------------------------------
(* Unplugging and plugging a processor *)

\* CPU_DOWN_PREPARE; the system calls that set an affinity are over.
DownPrepare(c) ==
    /\ hot = NoPlug /\ c \in HotCpus \cap k.up /\ k.up # {c} /\ k.stops = {}
    /\ k' = [k EXCEPT !.active = @ \ {c}]
    /\ hot' = [phase |-> "prepare", cpu |-> c]
    /\ UNCHANGED ctx /\ Noted

\* stop_machine wakes the stop task of every processor.
StopMachine ==
    /\ hot.phase = "prepare"
    /\ k' = [k EXCEPT !.resched = [c \in Cpus |-> c \in k.up]]
    /\ hot' = [hot EXCEPT !.phase = "stop"]
    /\ UNCHANGED ctx /\ Noted

\* Mutant: the queue goes offline without taking itself out of the mask.
RqOffline_KeepMask(s, c) == [s EXCEPT !.online[c] = FALSE, !.pri[c] = 0]

RqOffline(s, c) ==
    LET t == IF s.over[c] THEN SetOverload(s, c, FALSE) ELSE s
    IN [t EXCEPT !.online[c] = FALSE, !.pri[c] = 0]

\* CPU_DYING, when every processor is in its stop task; sched_ttwu_pending, which
\* it starts with, is TtwuPending.
Dying ==
    /\ hot.phase = "stop"
    /\ \A c \in k.up : k.curr[c] = Stopper /\ ctx[c] = NoCtx
    /\ k.wakeList[hot.cpu] = <<>>
    /\ k' = [RqOffline(k, hot.cpu) EXCEPT !.up = @ \ {hot.cpu}]
    /\ hot' = [hot EXCEPT !.phase = "dying"]
    /\ UNCHANGED ctx /\ Noted

\* One turn of the loop of migrate_tasks: picked, put back and moved away.
MigrateTask ==
    LET c == hot.cpu IN
    /\ hot.phase = "dying"
    /\ \E t \in Queued(k, c) :
        LET rt == k.prio[t] < FairPrio
            off == IF rt THEN PushOff(k, c, t) ELSE k
            put == IF rt /\ Movable(k, t) THEN PushOn(off, c, t) ELSE off
        IN /\ k.prio[t] = Highest(k, c)
           /\ \E f \in Fallback(put, t) :
                k' \in CheckPreempt(Move(f.s, t, f.cpu), f.cpu, t)
    /\ UNCHANGED ctx /\ Stays

\* The processor is dead, and the others go on.
Dead ==
    LET c == hot.cpu IN
    /\ hot.phase = "dying" /\ Queued(k, c) = {}
    /\ k' = [k EXCEPT !.curr[c] = Idle, !.resched[c] = FALSE, !.post[c] = FALSE]
    /\ hot' = NoPlug
    /\ UNCHANGED ctx /\ Noted

\* CPU_STARTING: tasks may be placed on it before CPU_ONLINE.
Starting(c) ==
    /\ hot = NoPlug /\ c \in Cpus \ k.up
    /\ k' = [k EXCEPT !.up = @ \cup {c}, !.active = @ \cup {c}]
    /\ hot' = [phase |-> "up", cpu |-> c]
    /\ UNCHANGED ctx /\ Noted

RqOnline(s, c) ==
    LET t == IF s.over[c] THEN SetOverload(s, c, TRUE) ELSE s
    IN [t EXCEPT !.online[c] = TRUE, !.pri[c] = Highest(s, c)]

Online ==
    /\ hot.phase = "up"
    /\ k' = RqOnline(k, hot.cpu)
    /\ hot' = NoPlug
    /\ UNCHANGED ctx /\ Noted

BalanceNext ==
    \/ \E c \in Cpus :
        \/ PreemptCurr(c) \/ SleepCurr(c) \/ PostSchedule(c) \/ PushGoes(c) \/ PullGoes(c)
        \/ WakeLocked(c) \/ TtwuPending(c) \/ Migrate(c) \/ StopperSleeps(c)
        \/ DownPrepare(c) \/ Starting(c)
        \/ \E t \in Threads :
            \/ WakeUp(c, t)
            \/ \E m \in MayMask[t] : SetAffinity(c, t, m)
            \/ \E p \in MayPrio[t] : SetPrio(c, t, p)
    \/ StopMachine \/ Dying \/ MigrateTask \/ Dead \/ Online

BalanceSpec == BalanceInit /\ [][BalanceNext]_smpVars

-----------------------------------------------------------------------------
(* Properties *)

\* The tasks a processor may give away are those that wait for it and may run
\* elsewhere, first the most urgent, and the cached priority of the first is
\* right, whatever happened while a lock was released.
PushableExact ==
    \A c \in Cpus :
        LET s == k.push[c] IN
        /\ ToSet(s) = {t \in RtQueued(k, c) : Movable(k, t) /\ k.curr[c] # t}
        /\ \A i, j \in DOMAIN s : i < j => s[i] # s[j] /\ k.prio[s[i]] <= k.prio[s[j]]
        /\ k.next[c] = IF s = <<>> THEN FairPrio ELSE k.prio[s[1]]

\* The root domain knows exactly which online processors have too much to do,
\* and how urgent the work of each is.
DomainExact ==
    LET full == {c \in Cpus : /\ Cardinality(RtQueued(k, c)) > 1
                              /\ \E t \in RtQueued(k, c) : Movable(k, t)}
        on == {c \in Cpus : k.online[c]}
    IN /\ k.rto = full \cap on
       /\ k.rtoCount = Cardinality(k.rto)
       /\ \A c \in on : k.pri[c] = Highest(k, c)
       /\ \A c \in Cpus : k.mig[c] = Cardinality({t \in RtQueued(k, c) : Movable(k, t)})

\* A queued task is on a processor it may run on, or its move is under way; but
\* for one whose affinity changed while it was on a wake list.
OnAllowedCpu ==
    \A t \in Threads :
        k.onRq[t] /\ k.home[t] \notin k.mask[t] /\ t \notin k.stray =>
            \E x \in k.stops : x[1] = t /\ x[2] = k.home[t]

\* A task runs on the processor whose queue it is in, and there only.
OneCpu ==
    \A c, d \in Cpus :
        k.curr[c] \in Threads =>
            /\ k.home[k.curr[c]] = c
            /\ c # d => k.curr[d] # k.curr[c]

\* With nothing left to do anywhere, no real-time task waits that an allowed
\* processor could run instead of something less urgent: the pushes and pulls
\* miss none, though they choose before they lock.
NoneWaitsInVain ==
    AtRest /\ ~late =>
        \A t \in Waiting : \A d \in k.mask[t] \cap k.up : PrioOf(k, k.curr[d]) <= k.prio[t]

=============================================================================
