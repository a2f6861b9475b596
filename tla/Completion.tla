----------------------------- MODULE Completion -----------------------------
(***************************************************************************)
(* Completions of core.c and their wait queue on one processor: complete,   *)
(* complete_all, the wait_for_completion family and the wake-ups they meet  *)
(* (timeouts, signals).  A step is what runs with the lock of the wait      *)
(* queue, or of the run queue, held and interrupts off; a task that is on   *)
(* the run queue may make the next step at any time.                        *)
(***************************************************************************)
EXTENDS Integers, Sequences, FiniteSets, SequencesExt

CONSTANTS
    Waiters,   \* the tasks that wait
    Modes,     \* the states they wait in, of those below
    MaxWakes,  \* bound on done: complete is not called beyond it
    MaxDone    \* what complete_all adds, UINT_MAX / 2 in the code

\* TASK_INTERRUPTIBLE, TASK_UNINTERRUPTIBLE and TASK_KILLABLE.
SleepStates == {"S", "D", "K"}

ASSUME CompletionAssumption ==
    /\ IsFiniteSet(Waiters)
    /\ Modes \subseteq SleepStates
    /\ MaxWakes \in Nat \ {0} /\ MaxDone \in Nat /\ MaxDone > MaxWakes

VARIABLES
    done,       \* x->done
    queue,      \* x->wait.task_list
    state,      \* the state field of every task
    onRq,       \* the tasks that are on the run queue
    wait,       \* where a task is in its wait, in which state, and what is left of its timeout
    signal      \* the pending signal of every task: "no", "sig" or "kill"

waitVars == <<done, queue, state, onRq, wait, signal>>

NotWaiting == [at |-> "out", mode |-> "S", left |-> "ever"]

WaitInit ==
    /\ done = 0
    /\ queue = <<>>
    /\ state = [t \in Waiters |-> "R"]
    /\ onRq = Waiters
    /\ wait = [t \in Waiters |-> NotWaiting]
    /\ signal = [t \in Waiters |-> "no"]

SignalPendingState(mode, t) ==
    \/ mode = "S" /\ signal[t] # "no"
    \/ mode = "K" /\ signal[t] = "kill"

-----------------------------------------------------------------------------
(* Waking up                                                                *)

\* try_to_wake_up of every task of ts, none of which is TASK_RUNNING.
TryToWakeUp(ts) ==
    /\ state' = [t \in Waiters |-> IF t \in ts THEN "R" ELSE state[t]]
    /\ onRq' = onRq \cup ts

\* Mutant: the return value of the wake function is not looked at.
Woken_Any(nr) ==
    {t \in {queue[i] : i \in 1 .. (IF nr < Len(queue) THEN nr ELSE Len(queue))} : state[t] # "R"}

\* __wake_up_common for TASK_NORMAL: the first nr waiters that try_to_wake_up
\* succeeds on.  All of them are exclusive.
Woken(nr) ==
    LET Sleeps(i) == state[queue[i]] # "R"
    IN {queue[i] : i \in {j \in 1 .. Len(queue) :
                             /\ Sleeps(j)
                             /\ Cardinality({h \in 1 .. j - 1 : Sleeps(h)}) < nr}}

Complete ==
    /\ done < MaxWakes
    /\ done' = done + 1
    /\ TryToWakeUp(Woken(1))
    /\ UNCHANGED <<queue, wait, signal>>

CompleteAll ==
    /\ done < MaxWakes
    /\ done' = done + MaxDone
    /\ TryToWakeUp(Woken(Len(queue)))
    /\ UNCHANGED <<queue, wait, signal>>

\* The owner makes the completion ready for its next use.
Reinit ==
    /\ done > 0 /\ queue = <<>>
    /\ done' = 0
    /\ UNCHANGED <<queue, state, onRq, wait, signal>>

\* A signal wakes a task that sleeps in a state it may interrupt.
Signal(t, s) ==
    /\ signal[t] = "no"
    /\ signal' = [signal EXCEPT ![t] = s]
    /\ TryToWakeUp({u \in {t} : \/ state[u] = "S"
                                \/ state[u] = "K" /\ s = "kill"})
    /\ UNCHANGED <<done, queue, wait>>

\* The timer of schedule_timeout.
Expire(t) ==
    /\ wait[t].left = "some"
    /\ wait' = [wait EXCEPT ![t].left = "none"]
    /\ TryToWakeUp({u \in {t} : state[u] # "R"})
    /\ UNCHANGED <<done, queue, signal>>

-----------------------------------------------------------------------------
(* Waiting                                                                  *)

SetWait(t, at, mode, left) ==
    wait' = [wait EXCEPT ![t] = [at |-> at, mode |-> mode, left |-> left]]

\* One turn of the loop of do_wait_for_common, done being 0: give up for a
\* signal, or set the state and let go of the lock.
Turn(t, q, mode, left) ==
    IF SignalPendingState(mode, t)
    THEN /\ queue' = RemoveFirst(q, t)
         /\ wait' = [wait EXCEPT ![t] = NotWaiting]
         /\ UNCHANGED state
    ELSE /\ queue' = q
         /\ SetWait(t, "sched", mode, left)
         /\ state' = [state EXCEPT ![t] = mode]

\* wait_for_completion and its relatives, up to the first schedule_timeout.
WaitFor(t, mode, left) ==
    /\ t \in onRq /\ wait[t].at = "out"
    /\ IF done > 0
       THEN done' = done - 1 /\ UNCHANGED <<queue, wait, state>>
       ELSE Turn(t, Append(queue, t), mode, left) /\ UNCHANGED done
    /\ UNCHANGED <<onRq, signal>>

\* __schedule of a task that has set its state; a wake-up or a signal may have
\* come since.
Schedule(t) ==
    /\ t \in onRq /\ wait[t].at = "sched"
    /\ wait' = [wait EXCEPT ![t].at = "back"]
    /\ IF state[t] = "R" \/ SignalPendingState(state[t], t)
       THEN state' = [state EXCEPT ![t] = "R"] /\ UNCHANGED onRq
       ELSE /\ onRq' = onRq \ {t}
            /\ UNCHANGED state
    /\ UNCHANGED <<done, queue, signal>>

\* The rest of the loop, after schedule_timeout has come back.
Back(t) ==
    /\ t \in onRq /\ wait[t].at = "back" /\ state[t] = "R"
    /\ IF done = 0 /\ wait[t].left # "none"
       THEN Turn(t, queue, wait[t].mode, wait[t].left) /\ UNCHANGED done
       ELSE /\ queue' = RemoveFirst(queue, t)
            /\ done' = IF done > 0 THEN done - 1 ELSE 0
            /\ wait' = [wait EXCEPT ![t] = NotWaiting]
            /\ UNCHANGED state
    /\ UNCHANGED <<onRq, signal>>

TryWait(t) ==
    /\ t \in onRq /\ wait[t].at = "out" /\ done > 0
    /\ done' = done - 1
    /\ UNCHANGED <<queue, state, onRq, wait, signal>>

\* A task outside of a wait handles its signal.
HandleSignal(t) ==
    /\ t \in onRq /\ wait[t].at = "out" /\ signal[t] # "no"
    /\ signal' = [signal EXCEPT ![t] = "no"]
    /\ UNCHANGED <<done, queue, state, onRq, wait>>

WaitNext ==
    \/ Complete \/ CompleteAll \/ Reinit
    \/ \E t \in Waiters :
          \/ Schedule(t) \/ Back(t) \/ TryWait(t) \/ HandleSignal(t) \/ Expire(t)
          \/ \E s \in {"sig", "kill"} : Signal(t, s)
          \/ \E mode \in Modes, left \in {"ever", "some"} : WaitFor(t, mode, left)

WaitSpec == WaitInit /\ [][WaitNext]_waitVars

-----------------------------------------------------------------------------
(* Properties *)

\* No completion is lost: as long as there is something to take, enough of the
\* waiters in the queue are awake to take it, whatever timeouts, signals and
\* other takers came between complete and the task it chose.
NoLostCompletion ==
    LET awake == {t \in ToSet(queue) : state[t] = "R"}
    IN Cardinality(awake) >= IF done < Len(queue) THEN done ELSE Len(queue)

=============================================================================
