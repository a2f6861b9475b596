----------------------------- MODULE PageFault ------------------------------
(***************************************************************************)
(* The faults of the threads of one process: the abort handlers of fault.c *)
(* from the exception to its end, under mmap_sem, while other threads map  *)
(* and protect memory and signals arrive.  One page of user memory and one *)
(* section of vmalloc memory stand for the two halves of the addresses.    *)
(* The count of writes at the SIGSEGV exit is the subject of MemTrace;     *)
(* min_flt, maj_flt and the perf events are statistics and are left out.   *)
(***************************************************************************)
EXTENDS Naturals, FiniteSets

CONSTANTS
    Threads,    \* the threads that share the mm
    Nobody,     \* no thread
    Flags       \* the vm_flags that mmap and mprotect give the page

ASSUME ThreadsAssumption == IsFiniteSet(Threads)
ASSUME NobodyAssumption == Nobody \notin Threads
ASSUME FlagsAssumption == Flags \subseteq SUBSET {"READ", "WRITE", "EXEC"}

VARIABLES
    at,      \* where a thread is in the handler; "run" is outside of it
    acc,     \* the access that faulted
    retry,   \* FAULT_FLAG_ALLOW_RETRY of the fault
    fault,   \* what __do_page_fault returned, as the set of its VM_FAULT_ flags
    readers, \* mmap_sem: how often it is held for reading,
    writer,  \* and who holds it for writing
    vma,     \* what find_vma finds for the page: [found, flags]
    killed,  \* the threads with a fatal signal pending
    forced,  \* the signal a fault has forced on a thread
    master,  \* is the vmalloc section in the tables of init_mm,
    copied   \* and in those of the process?

faultVars == <<at, acc, retry, fault, readers, writer, vma, killed, forced, master, copied>>
memory == <<writer, vma, killed, master>>

(* fsr: which handler of fsr_info the abort goes to; mode: user_mode(regs); *)
(* fixup: the pc has an entry in the exception table; atomic: in_atomic or  *)
(* interrupts off.  kind is FSR_WRITE, FSR_LNX_PF or neither.               *)
Access == [fsr : {"translation", "page", "section", "bad"},
           kind : {"read", "write", "exec"}, user : BOOLEAN, low : BOOLEAN,
           fixup : BOOLEAN, atomic : BOOLEAN]

NoAccess == [fsr |-> "page", kind |-> "read", user |-> TRUE, low |-> TRUE,
             fixup |-> FALSE, atomic |-> FALSE]

(* User code touches any address.  The kernel reads and writes user memory  *)
(* from places with a fix-up, some with faults disabled; a place without    *)
(* one is a mistake the handler has to live with, whatever locks are held:  *)
(* get_trace.c stores the count through the caller's pointer itself.        *)
Accesses ==
    {a \in Access :
        /\ a.user => ~a.fixup /\ ~a.atomic
        /\ ~a.user => a.kind # "exec"
        /\ a.atomic => a.fixup
        /\ ~a.low /\ ~a.user => a.fsr = "translation"
        /\ a.fsr \in {"section", "bad"} => a.low /\ ~a.atomic}

FaultInit ==
    /\ at = [t \in Threads |-> "run"]
    /\ acc = [t \in Threads |-> NoAccess]
    /\ retry = [t \in Threads |-> FALSE]
    /\ fault = [t \in Threads |-> {}]
    /\ readers = 0 /\ writer = Nobody
    /\ vma = [found |-> "none", flags |-> {}]
    /\ killed = {}
    /\ forced = [t \in Threads |-> "none"]
    /\ master = FALSE /\ copied = FALSE

-----------------------------------------------------------------------------
(* The ends of a fault *)

\* The thread goes on, or lies dead after an oops; what the fault left is gone.
Ends(t, where, sig) ==
    /\ at' = [at EXCEPT ![t] = where]
    /\ forced' = [forced EXCEPT ![t] = sig]
    /\ acc' = [acc EXCEPT ![t] = NoAccess]
    /\ retry' = [retry EXCEPT ![t] = FALSE]
    /\ fault' = [fault EXCEPT ![t] = {}]

Returns(t) == Ends(t, "run", "none")

\* __do_user_fault: force_sig_info.
UserFault(t, sig) == Ends(t, "run", sig)

\* __do_kernel_fault: the fix-up, or an oops that ends the task as it stands.
KernelFault(t, a) == IF a.fixup THEN Returns(t) ELSE Ends(t, "dead", "none")

BadArea(t, a) == IF a.user THEN UserFault(t, "SEGV") ELSE KernelFault(t, a)

-----------------------------------------------------------------------------
(* do_page_fault *)

\* down_read_trylock takes the semaphore unless a writer has it, or has queued up
\* behind the readers.
Trylock == {taken \in BOOLEAN : IF taken THEN writer = Nobody
                                         ELSE writer # Nobody \/ readers > 0}

\* Mutant: every fault waits for the semaphore.
TryLock_WaitAlways(t, a) ==
    \E taken \in Trylock :
        /\ at' = [at EXCEPT ![t] = IF taken THEN "area" ELSE "wait"]
        /\ readers' = IF taken THEN readers + 1 ELSE readers
        /\ acc' = [acc EXCEPT ![t] = [a EXCEPT !.fsr = "page"]]
        /\ retry' = [retry EXCEPT ![t] = TRUE]
        /\ UNCHANGED <<fault, forced>>

\* Code of the kernel that should not touch user memory is recognised by its
\* missing fix-up, and does not wait.
TryLock(t, a) ==
    \E taken \in Trylock :
        \/ /\ ~taken /\ ~a.user /\ ~a.fixup
           /\ KernelFault(t, a)
           /\ UNCHANGED readers
        \/ /\ taken \/ a.user \/ a.fixup
           /\ at' = [at EXCEPT ![t] = IF taken THEN "area" ELSE "wait"]
           /\ readers' = IF taken THEN readers + 1 ELSE readers
           /\ acc' = [acc EXCEPT ![t] = [a EXCEPT !.fsr = "page"]]
           /\ retry' = [retry EXCEPT ![t] = TRUE]
           /\ UNCHANGED <<fault, forced>>

\* do_page_fault to the semaphore: no fault is taken where it cannot sleep.
PageFault(t, a) ==
    \/ /\ a.atomic /\ KernelFault(t, a) /\ UNCHANGED readers
    \/ /\ ~a.atomic /\ TryLock(t, a)

\* down_read, at the label retry.
DownRead(t) ==
    /\ at[t] = "wait" /\ writer = Nobody
    /\ at' = [at EXCEPT ![t] = "area"]
    /\ readers' = readers + 1
    /\ UNCHANGED <<acc, retry, fault, forced, memory, copied>>

\* access_error: a write must find VM_WRITE and a fetch VM_EXEC, a read any flag.
AccessError(a, flags) ==
    (CASE a.kind = "write" -> {"WRITE"}
       [] a.kind = "exec"  -> {"EXEC"}
       [] OTHER            -> {"READ", "WRITE", "EXEC"}) \cap flags = {}

\* __do_page_fault before handle_mm_fault: the area is looked up, and a stack
\* below it is expanded when the limits allow.
FindArea(t) ==
    /\ at[t] = "area"
    /\ \E grown \in BOOLEAN :
        LET good == acc[t].low /\ (vma.found = "area" \/ grown)
        IN /\ grown => vma.found = "below" /\ acc[t].low
           /\ vma' = IF good THEN [vma EXCEPT !.found = "area"] ELSE vma
           /\ IF good /\ ~AccessError(acc[t], vma.flags)
              THEN at' = [at EXCEPT ![t] = "mm"] /\ UNCHANGED fault
              ELSE /\ at' = [at EXCEPT ![t] = "result"]
                   /\ fault' = [fault EXCEPT ![t] = {IF good THEN "BADACCESS" ELSE "BADMAP"}]
    /\ UNCHANGED <<acc, retry, readers, writer, killed, forced, master, copied>>

\* handle_mm_fault of mm/memory.c: when it has to wait for the page it returns
\* VM_FAULT_RETRY with the semaphore released, if it may or a fatal signal ends
\* the wait.
HandleMmFault(t) ==
    /\ at[t] = "mm"
    /\ \E f \in {{}, {"OOM"}, {"SIGBUS"}, {"RETRY"}} :
        /\ "RETRY" \in f => retry[t] \/ t \in killed
        /\ readers' = IF "RETRY" \in f THEN readers - 1 ELSE readers
        /\ fault' = [fault EXCEPT ![t] = f]
    /\ at' = [at EXCEPT ![t] = "result"]
    /\ UNCHANGED <<acc, retry, forced, memory, copied>>

(* What follows up_read: success and out of memory return, the kernel's own  *)
(* fault has no context, and user code gets SIGBUS or SIGSEGV.               *)
Outcome(t) ==
    LET a == acc[t]
        bad == fault[t] \cap {"SIGBUS", "BADMAP", "BADACCESS"}
    IN \/ bad = {} /\ Returns(t)
       \/ bad # {} /\ ~a.user /\ KernelFault(t, a)
       \/ bad = {"SIGBUS"} /\ a.user /\ UserFault(t, "BUS")
       \/ bad # {} /\ bad # {"SIGBUS"} /\ a.user /\ UserFault(t, "SEGV")

\* The one retry, without FAULT_FLAG_ALLOW_RETRY.
Again(t) ==
    /\ at' = [at EXCEPT ![t] = "wait"]
    /\ retry' = [retry EXCEPT ![t] = FALSE]
    /\ fault' = [fault EXCEPT ![t] = {}]
    /\ UNCHANGED <<acc, forced>>

\* Mutant: a fatal signal is left to the retry.
FaultResult_NoFatal(t) ==
    /\ at[t] = "result"
    /\ IF "RETRY" \in fault[t] /\ retry[t]
       THEN Again(t) /\ UNCHANGED readers
       ELSE Outcome(t) /\ readers' = readers - 1
    /\ UNCHANGED <<memory, copied>>

\* do_page_fault after __do_page_fault.  With a fatal signal a retry is given up;
\* the semaphore has been released for it.
FaultResult(t) ==
    /\ at[t] = "result"
    /\ IF "RETRY" \in fault[t] /\ t \in killed
       THEN Returns(t) /\ UNCHANGED readers
       ELSE IF "RETRY" \in fault[t] /\ retry[t]
       THEN Again(t) /\ UNCHANGED readers
       ELSE Outcome(t) /\ readers' = readers - 1
    /\ UNCHANGED <<memory, copied>>

-----------------------------------------------------------------------------
(* The other handlers of fsr_info *)

\* do_translation_fault: above TASK_SIZE the kernel's entry is copied from the
\* tables of init_mm, without a lock.
TranslationFault(t, a) ==
    \/ /\ a.low /\ PageFault(t, a) /\ UNCHANGED copied
    \/ /\ ~a.low /\ (a.user \/ ~master)
       /\ BadArea(t, a) /\ UNCHANGED <<readers, copied>>
    \/ /\ ~a.low /\ ~a.user /\ master
       /\ copied' = TRUE
       /\ Returns(t) /\ UNCHANGED readers

\* do_bad returns 1, and arm_notify_die gives the user the signal that fsr_info has
\* for the status (the table is not in the repository), or kills the kernel code.
UnhandledFault(t, a) ==
    IF a.user THEN \E sig \in {"SEGV", "BUS", "ILL", "KILL"} : UserFault(t, sig)
              ELSE Ends(t, "dead", "none")

\* do_DataAbort and do_PrefetchAbort: the handler of fsr_info.
Abort(t) ==
    /\ at[t] = "run" /\ forced[t] = "none"
    /\ \E a \in Accesses :
        /\ writer = t => ~a.user /\ ~a.fixup
        /\ ~a.low /\ ~a.user => ~copied
        /\ \/ a.fsr = "translation" /\ TranslationFault(t, a)
           \/ a.fsr = "page" /\ PageFault(t, a) /\ UNCHANGED copied
           \/ a.fsr = "section" /\ BadArea(t, a) /\ UNCHANGED <<readers, copied>>
           \/ a.fsr = "bad" /\ UnhandledFault(t, a) /\ UNCHANGED <<readers, copied>>
    /\ UNCHANGED memory

-----------------------------------------------------------------------------
(* The rest of the kernel *)

inFault == <<at, acc, retry, fault, forced>>

\* mmap, munmap, mprotect and brk change areas with the semaphore held for writing.
WriteLock(t) ==
    /\ at[t] = "run" /\ forced[t] = "none" /\ writer = Nobody /\ readers = 0
    /\ writer' = t
    /\ UNCHANGED <<inFault, readers, vma, killed, master, copied>>

ChangeArea(t) ==
    /\ writer = t /\ at[t] = "run"
    /\ vma' \in [found : {"area", "below"}, flags : Flags] \cup [found : {"none"}, flags : {{}}]
    /\ UNCHANGED <<inFault, readers, writer, killed, master, copied>>

WriteUnlock(t) ==
    /\ writer = t /\ at[t] = "run"
    /\ writer' = Nobody
    /\ UNCHANGED <<inFault, readers, vma, killed, master, copied>>

\* A vmalloc maps the section for the kernel; other processes learn of it by a fault.
Vmalloc ==
    /\ ~master /\ master' = TRUE
    /\ UNCHANGED <<inFault, readers, writer, vma, killed, copied>>

Kill(t) ==
    /\ at[t] # "dead" /\ t \notin killed
    /\ killed' = killed \cup {t}
    /\ UNCHANGED <<inFault, readers, writer, vma, master, copied>>

\* Back in user mode: a fatal signal ends the thread, a forced one its handler or
\* its default action.
Deliver(t) ==
    /\ at[t] = "run" /\ writer # t /\ (t \in killed \/ forced[t] # "none")
    /\ \E end \in BOOLEAN :
        /\ t \in killed \/ forced[t] = "KILL" => end
        /\ Ends(t, IF end THEN "dead" ELSE "run", "none")
    /\ UNCHANGED <<readers, memory, copied>>

FaultNext ==
    \/ Vmalloc
    \/ \E t \in Threads :
        \/ Abort(t) \/ DownRead(t) \/ FindArea(t) \/ HandleMmFault(t) \/ FaultResult(t)
        \/ WriteLock(t) \/ ChangeArea(t) \/ WriteUnlock(t)
        \/ Kill(t) \/ Deliver(t)

FaultSpec == FaultInit /\ [][FaultNext]_faultVars

-----------------------------------------------------------------------------
(* Properties *)

HoldsSem(t) ==
    \/ at[t] \in {"area", "mm"}
    \/ at[t] = "result" /\ "RETRY" \notin fault[t]

Permits(a) ==
    /\ vma.found = "area"
    /\ a.kind = "write" => "WRITE" \in vma.flags
    /\ a.kind = "exec" => "EXEC" \in vma.flags

\* do_page_fault releases mmap_sem exactly when it holds it, on each of its ways
\* out and although a retry released it elsewhere; and so the area a page is
\* brought in for still permits the access, whatever the other threads unmap or
\* protect meanwhile.
SemProtects ==
    /\ readers = Cardinality({t \in Threads : HoldsSem(t)})
    /\ \A t \in Threads : at[t] = "mm" => writer = Nobody /\ Permits(acc[t])

\* Code of the kernel that faults with mmap_sem held for writing gets its oops
\* and does not wait for the semaphore it holds itself ("we may deadlock here
\* ... we can bug out early", do_page_fault).
NoWaitForOneself == \A t \in Threads : at[t] = "wait" => writer # t

=============================================================================
