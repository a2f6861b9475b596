------------------------------ MODULE TraceAbs ------------------------------
(***************************************************************************)
(* What memory access tracing promises (report, chapter 1): a task is      *)
(* traced or not, and while it is, the tracer counts its writes to         *)
(* protected memory.  Every operation is one step.                         *)
(***************************************************************************)
EXTENDS Naturals

CONSTANTS Tasks, MaxWrites

VARIABLE count  \* the writes of a traced task, Off for another one

Off == MaxWrites + 1

Init == count = [t \in Tasks |-> Off]

\* sys_start_trace
Start(t) == count[t] = Off /\ count' = [count EXCEPT ![t] = 0]

\* sys_stop_trace, or the end of the task
Stop(t) == count[t] # Off /\ count' = [count EXCEPT ![t] = Off]

\* A SIGSEGV of a traced task
Write(t) == count[t] < MaxWrites /\ count' = [count EXCEPT ![t] = @ + 1]

\* do_fork: the child is traced if its parent is, and starts with its count
Fork(p, c) == count[c] = Off /\ count[p] # Off /\ count' = [count EXCEPT ![c] = count[p]]

Next == \E t \in Tasks : \/ Start(t) \/ Stop(t) \/ Write(t)
                         \/ \E c \in Tasks : Fork(t, c)

Spec == Init /\ [][Next]_count

=============================================================================
