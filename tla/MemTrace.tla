------------------------------ MODULE MemTrace ------------------------------
(***************************************************************************)
(* Memory access tracing: the three system calls of project2/problem1 and  *)
(* the counter in do_page_fault, one access to a shared field at a time.   *)
(* The kernel is preemptible and none of them takes a lock, so between two *)
(* accesses any other task may run.                                        *)
(***************************************************************************)
EXTENDS Naturals, FiniteSets

CONSTANTS
    Tasks,      \* the task_structs
    Init0,      \* the task that is there at boot
    MayTrace,   \* the pairs <<caller, traced task>> that start and stop tracing
    MayGet,     \* the pairs <<caller, traced task>> that read the count
    MaxWrites,  \* bound on wcounts
    MaxCalls    \* bound on the references ever taken on a task_struct

ASSUME TaskAssumption == Init0 \in Tasks
ASSUME PairAssumption == MayTrace \subseteq Tasks \X Tasks /\ MayGet \subseteq Tasks \X Tasks
ASSUME BoundAssumption == MaxWrites \in Nat /\ MaxCalls \in Nat \ {0}

VARIABLES
    life,      \* "free" memory, a "live" task, or a "dead" one still referenced
    usage,     \* task->usage
    traceFlag, \* task->trace_flag
    wcounts,   \* task->wcounts
    pc,        \* what the task executes in the kernel
    target,    \* the local variable task of the system call it is in
    reg        \* the register of a fault that holds the new wcounts

vars == <<life, usage, traceFlag, wcounts, pc, target, reg>>
fields == <<life, usage, traceFlag, wcounts>>

CallPoints == {"start_check", "start_flag", "start_zero", "stop_flag", "stop_zero",
               "get_check", "get_read"}
Points == CallPoints \cup {"user", "fault_check", "fault_load", "fault_store"}

TypeOK ==
    /\ life \in [Tasks -> {"free", "live", "dead"}]
    /\ usage \in [Tasks -> 0 .. MaxCalls + 1]
    /\ traceFlag \in [Tasks -> BOOLEAN]
    /\ wcounts \in [Tasks -> 0 .. MaxWrites]
    /\ pc \in [Tasks -> Points]
    /\ target \in [Tasks -> Tasks]
    /\ reg \in [Tasks -> 0 .. MaxWrites]

Init ==
    /\ life = [t \in Tasks |-> IF t = Init0 THEN "live" ELSE "free"]
    /\ usage = [t \in Tasks |-> IF t = Init0 THEN 1 ELSE 0]
    /\ traceFlag = [t \in Tasks |-> FALSE]
    /\ wcounts = [t \in Tasks |-> 0]
    /\ pc = [t \in Tasks |-> "user"]
    /\ target = [t \in Tasks |-> t]
    /\ reg = [t \in Tasks |-> 0]

-----------------------------------------------------------------------------
(* Finding the task: get_pid_task looks it up and takes a reference at once  *)

\* Mutant: the task is looked up without a reference.
LookUp_NoGet(p, t, next) ==
    /\ life[p] = "live" /\ pc[p] = "user"
    /\ life[t] = "live"
    /\ target' = [target EXCEPT ![p] = t]
    /\ pc' = [pc EXCEPT ![p] = next]
    /\ UNCHANGED <<fields, reg>>

\* A task that is not found is -EINVAL, and nothing changes.
LookUp(p, t, next) ==
    /\ life[p] = "live" /\ pc[p] = "user"
    /\ life[t] = "live"
    /\ usage[t] <= MaxCalls
    /\ usage' = [usage EXCEPT ![t] = @ + 1]
    /\ target' = [target EXCEPT ![p] = t]
    /\ pc' = [pc EXCEPT ![p] = next]
    /\ UNCHANGED <<life, traceFlag, wcounts, reg>>

StartCall(p) == \E t \in Tasks : <<p, t>> \in MayTrace /\ LookUp(p, t, "start_check")
StopCall(p)  == \E t \in Tasks : <<p, t>> \in MayTrace /\ LookUp(p, t, "stop_flag")
GetCall(p)   == \E t \in Tasks : <<p, t>> \in MayGet /\ LookUp(p, t, "get_check")

Goto(p, from, to) == pc[p] = from /\ pc' = [pc EXCEPT ![p] = to]
Return(p, from) == Goto(p, from, "user") /\ target' = [target EXCEPT ![p] = p]

-----------------------------------------------------------------------------
(* sys_start_trace *)

StartCheck(p) ==
    /\ \/ traceFlag[target[p]] /\ Return(p, "start_check")
       \/ ~traceFlag[target[p]] /\ Goto(p, "start_check", "start_flag") /\ UNCHANGED target
    /\ UNCHANGED <<fields, reg>>

StartFlag(p) ==
    /\ Goto(p, "start_flag", "start_zero")
    /\ traceFlag' = [traceFlag EXCEPT ![target[p]] = TRUE]
    /\ UNCHANGED <<life, usage, wcounts, target, reg>>

StartZero(p) ==
    /\ Return(p, "start_zero")
    /\ wcounts' = [wcounts EXCEPT ![target[p]] = 0]
    /\ UNCHANGED <<life, usage, traceFlag, reg>>

-----------------------------------------------------------------------------
(* sys_stop_trace *)

StopFlag(p) ==
    /\ Goto(p, "stop_flag", "stop_zero")
    /\ traceFlag' = [traceFlag EXCEPT ![target[p]] = FALSE]
    /\ UNCHANGED <<life, usage, wcounts, target, reg>>

StopZero(p) ==
    /\ Return(p, "stop_zero")
    /\ wcounts' = [wcounts EXCEPT ![target[p]] = 0]
    /\ UNCHANGED <<life, usage, traceFlag, reg>>

-----------------------------------------------------------------------------
(* sys_get_trace *)

GetCheck(p) ==
    /\ \/ ~traceFlag[target[p]] /\ Return(p, "get_check")
       \/ traceFlag[target[p]] /\ Goto(p, "get_check", "get_read") /\ UNCHANGED target
    /\ UNCHANGED <<fields, reg>>

GetRead(p) ==
    /\ Return(p, "get_read")
    /\ UNCHANGED <<fields, reg>>

-----------------------------------------------------------------------------
(* do_page_fault of a task that writes to protected memory (SIGSEGV path) *)

Segv(p) ==
    /\ life[p] = "live" /\ Goto(p, "user", "fault_check")
    /\ wcounts[p] < MaxWrites
    /\ UNCHANGED <<fields, target, reg>>

FaultCheck(p) ==
    /\ \/ traceFlag[p] /\ Goto(p, "fault_check", "fault_load")
       \/ ~traceFlag[p] /\ Goto(p, "fault_check", "user")
    /\ UNCHANGED <<fields, target, reg>>

\* wcounts++ is a load, an addition and a store.
FaultLoad(p) ==
    /\ Goto(p, "fault_load", "fault_store")
    /\ reg' = [reg EXCEPT ![p] = wcounts[p] + 1]
    /\ UNCHANGED <<fields, target>>

FaultStore(p) ==
    /\ Goto(p, "fault_store", "user")
    /\ wcounts' = [wcounts EXCEPT ![p] = reg[p]]
    /\ reg' = [reg EXCEPT ![p] = 0]
    /\ UNCHANGED <<life, usage, traceFlag, target>>

-----------------------------------------------------------------------------
(* Birth and death *)

\* Mutant: the child inherits the count, not the flag.
Fork_CountOnly(p, c) ==
    /\ life[p] = "live" /\ pc[p] = "user"
    /\ life[c] = "free"
    /\ life' = [life EXCEPT ![c] = "live"]
    /\ usage' = [usage EXCEPT ![c] = 1]
    /\ traceFlag' = [traceFlag EXCEPT ![c] = FALSE]
    /\ wcounts' = [wcounts EXCEPT ![c] = wcounts[p]]
    /\ target' = [target EXCEPT ![c] = c]
    /\ UNCHANGED <<pc, reg>>

\* dup_task_struct copies the parent's structure, both tracing fields with it.
Fork(p, c) ==
    /\ life[p] = "live" /\ pc[p] = "user"
    /\ life[c] = "free"
    /\ life' = [life EXCEPT ![c] = "live"]
    /\ usage' = [usage EXCEPT ![c] = 1]
    /\ traceFlag' = [traceFlag EXCEPT ![c] = traceFlag[p]]
    /\ wcounts' = [wcounts EXCEPT ![c] = wcounts[p]]
    /\ target' = [target EXCEPT ![c] = c]
    /\ UNCHANGED <<pc, reg>>

\* The task is gone for get_pid_task; its structure is freed with the last
\* reference, and no system call ever drops the one it took.
Exit(p) ==
    /\ life[p] = "live" /\ pc[p] = "user" /\ p # Init0
    /\ usage' = [usage EXCEPT ![p] = @ - 1]
    /\ life' = [life EXCEPT ![p] = IF usage'[p] = 0 THEN "free" ELSE "dead"]
    /\ IF usage'[p] = 0
       THEN /\ traceFlag' = [traceFlag EXCEPT ![p] = FALSE]
            /\ wcounts' = [wcounts EXCEPT ![p] = 0]
       ELSE UNCHANGED <<traceFlag, wcounts>>
    /\ reg' = [reg EXCEPT ![p] = 0]
    /\ UNCHANGED <<pc, target>>

Next ==
    \E p \in Tasks :
        \/ StartCall(p) \/ StartCheck(p) \/ StartFlag(p) \/ StartZero(p)
        \/ StopCall(p) \/ StopFlag(p) \/ StopZero(p)
        \/ GetCall(p) \/ GetCheck(p) \/ GetRead(p)
        \/ Segv(p) \/ FaultCheck(p) \/ FaultLoad(p) \/ FaultStore(p)
        \/ Exit(p)
        \/ \E c \in Tasks : Fork(p, c)

Spec == Init /\ [][Next]_vars

-----------------------------------------------------------------------------
(* Properties *)

InCall(p) == pc[p] \in CallPoints

\* A task_struct is not freed, and so not reused for a new task, while a system
\* call that looked it up still reads and writes its fields.
NoUseAfterFree == \A p \in Tasks : InCall(p) => life[target[p]] # "free"

\* With every task tracing itself, as the test programs and the benchmark do,
\* the calls, the faults, fork and exit are the steps of TraceAbs, though any
\* task may read any count at any time.
TracedCount == [t \in Tasks |-> IF life[t] = "live" /\ traceFlag[t] THEN wcounts[t]
                                ELSE MaxWrites + 1]
Abs == INSTANCE TraceAbs WITH count <- TracedCount
ImplementsTraceAbs == Abs!Spec

=============================================================================
