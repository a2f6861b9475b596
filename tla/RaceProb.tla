------------------------------ MODULE RaceProb ------------------------------
(***************************************************************************)
(* The time slices of the Race-Averse Scheduler in C's integers:           *)
(* task_tick_ras of kernel/sched/ras.c, statement by statement, on a queue *)
(* whose tasks write, come and go between two ticks.                       *)
(*                                                                         *)
(* RasSched has the same computation in one step and in unbounded integers;*)
(* here an int has the values -INT_MAX - 1 .. INT_MAX.  The kernel is      *)
(* built with -fno-strict-overflow, so signed arithmetic wraps.            *)
(***************************************************************************)
EXTENDS Integers, Sequences, SequencesExt

CONSTANTS
    Tasks,             \* the tasks with policy SCHED_RAS
    INT_MAX,           \* 2^31 - 1 in the code
    RAS_MAX_TIMESLICE, \* 10 ticks in the code
    RaceScale,         \* the 10 of "wcounts * 10 / sum"
    MaxWrites,         \* bound on wcounts
    MaxQueue           \* bound on the tasks in the run queue

ASSUME WidthAssumption == INT_MAX \in Nat
ASSUME ScaleAssumption ==
    /\ RAS_MAX_TIMESLICE \in Nat \ {0}
    /\ RaceScale \in 1 .. RAS_MAX_TIMESLICE
ASSUME BoundAssumption == MaxWrites \in Nat /\ MaxQueue \in Nat \ {0}

VARIABLES
    queue,    \* rq->ras.queue
    curr,     \* rq->curr, a task of the queue
    wcounts,  \* ->wcounts
    slice,    \* ->ras.time_slice
    total,    \* ->ras.total_timeslice
    pc,       \* where the processor is: outside the tick, or in which part of it
    pos,      \* p of list_for_each, as an index of the queue
    sum,      \* the local variable sum
    w         \* the local variable wcounts

vars == <<queue, curr, wcounts, slice, total, pc, pos, sum, w>>
tickVars == <<pos, sum, w>>

\* The values of an int and of an unsigned int.
Half == INT_MAX + 1
Modulus == 2 * Half
ToInt(x) == ((x + Half) % Modulus) - Half
ToUInt(x) == x % Modulus

\* Division of C, towards zero.
AbsVal(x) == IF x < 0 THEN 0 - x ELSE x
CDiv(a, b) == IF (a < 0) = (b < 0) THEN AbsVal(a) \div AbsVal(b)
              ELSE 0 - (AbsVal(a) \div AbsVal(b))

TypeOK ==
    /\ queue \in Seq(Tasks) /\ Len(queue) \in 1 .. MaxQueue
    /\ curr \in Tasks
    /\ wcounts \in [Tasks -> 0 .. MaxWrites]
    /\ slice \in [Tasks -> Int] /\ total \in [Tasks -> Int]
    /\ pc \in {"user", "decide", "loop", "requeue"}
    /\ pos \in Nat /\ sum \in Int /\ w \in Int

Init ==
    /\ curr \in Tasks
    /\ queue = <<curr>>
    /\ wcounts = [t \in Tasks |-> 0]
    /\ slice = [t \in Tasks |-> RAS_MAX_TIMESLICE]
    /\ total = [t \in Tasks |-> RAS_MAX_TIMESLICE]
    /\ pc = "user"
    /\ pos = 1 /\ sum = 0 /\ w = 0

-----------------------------------------------------------------------------
(* Between two ticks *)

\* do_page_fault of curr, which is traced.
Fault ==
    /\ pc = "user"
    /\ wcounts[curr] < MaxWrites
    /\ wcounts' = [wcounts EXCEPT ![curr] = @ + 1]
    /\ UNCHANGED <<queue, curr, slice, total, pc, tickVars>>

\* Another task wakes up, with the count and the slice it slept with.
EnqueueTaskRas(t) ==
    /\ pc = "user"
    /\ t \notin Range(queue) /\ Len(queue) < MaxQueue
    /\ queue' = Append(queue, t)
    /\ UNCHANGED <<curr, wcounts, slice, total, pc, tickVars>>

\* curr sleeps and the next one of the queue runs.
DequeueTaskRas ==
    /\ pc = "user"
    /\ Len(queue) > 1
    /\ queue' = RemoveFirst(queue, curr)
    /\ curr' = Head(queue')
    /\ UNCHANGED <<wcounts, slice, total, pc, tickVars>>

\* sys_start_trace and sys_stop_trace of any task.
ResetCount(t) ==
    /\ pc = "user"
    /\ wcounts' = [wcounts EXCEPT ![t] = 0]
    /\ UNCHANGED <<queue, curr, slice, total, pc, tickVars>>

-----------------------------------------------------------------------------
(* The tick: interrupts are off from CountDown to RequeueTaskRas *)

\* "if (--task->ras.time_slice) return".
CountDown ==
    /\ pc = "user"
    /\ slice' = [slice EXCEPT ![curr] = ToUInt(@ - 1)]
    /\ pc' = IF slice'[curr] = 0 THEN "decide" ELSE "user"
    /\ UNCHANGED <<queue, curr, wcounts, total, tickVars>>

Refill(n) ==
    /\ slice' = [slice EXCEPT ![curr] = n]
    /\ total' = [total EXCEPT ![curr] = n]

\* ras_nr_running is one: no race.
NoRace ==
    /\ pc = "decide" /\ Len(queue) = 1
    /\ Refill(RAS_MAX_TIMESLICE)
    /\ pc' = "requeue"
    /\ UNCHANGED <<queue, curr, wcounts, tickVars>>

\* Mutant: the sum starts from the task's own count.
StartSum_FromOwn ==
    /\ pc = "decide" /\ Len(queue) # 1
    /\ w' = wcounts[curr]
    /\ sum' = w' /\ pos' = 1
    /\ pc' = "loop"
    /\ UNCHANGED <<queue, curr, wcounts, slice, total>>

StartSum ==
    /\ pc = "decide" /\ Len(queue) # 1
    /\ w' = wcounts[curr]
    /\ sum' = 0 /\ pos' = 1
    /\ pc' = "loop"
    /\ UNCHANGED <<queue, curr, wcounts, slice, total>>

AddCount ==
    /\ pc = "loop" /\ pos <= Len(queue)
    /\ sum' = ToInt(sum + wcounts[queue[pos]])
    /\ pos' = pos + 1
    /\ UNCHANGED <<queue, curr, wcounts, slice, total, pc, w>>

\* Mutant: the only writer is not told apart.
NoWrites_ZeroOnly == sum = 0

\* Not traced, no write, or nobody else writes.
NoWrites == sum = 0 \/ sum = w

RaceProbability == CDiv(ToInt(w * RaceScale), sum)

SetSlice ==
    /\ pc = "loop" /\ pos > Len(queue)
    /\ Refill(IF NoWrites THEN RAS_MAX_TIMESLICE
              ELSE ToUInt(RAS_MAX_TIMESLICE - RaceProbability))
    /\ pc' = "requeue"
    /\ UNCHANGED <<queue, curr, wcounts, tickVars>>

\* To the end of the queue; the reschedule this asks for follows.
RequeueTaskRas ==
    /\ pc = "requeue"
    /\ queue' = Append(RemoveFirst(queue, curr), curr)
    /\ curr' = Head(queue')
    /\ pc' = "user"
    /\ UNCHANGED <<wcounts, slice, total, tickVars>>

TaskTickRas == CountDown \/ NoRace \/ StartSum \/ AddCount \/ SetSlice \/ RequeueTaskRas

Next ==
    \/ Fault \/ DequeueTaskRas
    \/ \E t \in Tasks : EnqueueTaskRas(t) \/ ResetCount(t)
    \/ TaskTickRas

Spec == Init /\ [][Next]_vars

-----------------------------------------------------------------------------
(* Properties *)

\* What the counts must satisfy for no int to overflow in the computation.
NoOverflow ==
    /\ MaxQueue * MaxWrites <= INT_MAX
    /\ MaxWrites * RaceScale <= INT_MAX
    /\ RAS_MAX_TIMESLICE < Modulus

\* A slice is one of 10ms..100ms for race probabilities in [0, 10) (report,
\* chapter 2): in particular none is 0, which the next tick would wrap.
SliceInRange == pc = "user" => \A t \in Tasks : slice[t] \in 1 .. RAS_MAX_TIMESLICE

\* The race probability of the report, of all the writes of the queue.
ExactSum == FoldFunctionOnSet(+, 0, wcounts, Range(queue))
ExactSlice ==
    IF \E t \in Range(queue) \ {curr} : wcounts[t] > 0
    THEN RAS_MAX_TIMESLICE - (wcounts[curr] * RaceScale) \div ExactSum
    ELSE RAS_MAX_TIMESLICE

\* What the loop computes is that, whatever happened to the queue and the counts
\* since the last refill.
SliceIsExact == pc = "requeue" => slice[curr] = ExactSlice

=============================================================================
