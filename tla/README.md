# TLA+ models of the OS labs: Race-Averse Scheduler, memory tracing, real-time bandwidth and balancing, process tree, encryption server

The repository holds the solutions of an operating systems course: kernel modules
and programs (`src/project0`, `src/project1`) and a modified Linux kernel for ARM
(`src/project2`) with memory access tracing and a scheduling class of its own, the
Race-Averse Scheduler (RAS). Paths below are relative to `src/`; `K/` stands for
`src/project2/problem2/kernel/kernel/sched/`.

## 1. The system

| Part | Where | State | Operations |
|---|---|---|---|
| RAS class | `K/ras.c`, `ras_rq` in `K/sched.h`, `sched_ras_entity` in `include/linux/sched.h` | the list of runnable tasks and its counter; a slice and a total per task | enqueue, dequeue, requeue, yield, pick, tick, switched_to |
| Scheduler core | `K/core.c`, `struct rq` | curr, need_resched, `->state`, `->on_rq`, policy, priorities, class | schedule, preempt, wake-up, fork, exit, tick, setscheduler, nice, PI boost, SysRq-n |
| RT class | `K/rt.c` | a list per priority, per group | the same interface, with preemption by priority; boosts |
| RT throttling | `K/rt.c` | `rt_time`, `rt_throttled`, a timer per `rt_bandwidth` | charge at update_curr_rt, replenish at the timer, limits on and off |
| RT on several processors | `K/rt.c`, `K/core.c` | pushable tasks, `rto_mask`, `cpupri`, wake lists, stop task | push, pull, affinity, migration, hotplug |
| Admission | `K/core.c` | task groups, `rt_bandwidth`, two sysctls, policies | create, destroy, attach, write the files, `sched_setscheduler`, `sched_setparam` |
| Completions | `K/core.c` | `done` and a wait queue | `complete`, `complete_all`, the `wait_for_completion` family |
| Load average | `K/core.c` | `calc_load_tasks`, two idle buckets, `avenrun` | tick, enter and exit idle, catch up |
| CPU time | `K/core.c` | `cpustat`, `cpuacct` groups, `nr_iowait` | tick, idle ticks, `io_schedule`, moves, removal |
| fair, idle, stop classes | not in the repository | | seen through `struct sched_class` |
| Trace calls | `project2/problem1/syscalls/*` | `trace_flag`, `wcounts`, `usage` of a `task_struct` | start, stop, get |
| Page fault | `arch/arm/mm/fault.c` | `mmap_sem`, the area of the address, a pending signal, `wcounts` | every abort handler |
| Process tree | `project1/problem1/pstree_module.c` | a buffer filled from the kernel's tree | `sys_pstreecall`, `dfs`, `convert` |
| Tree printer | `project1/problem2/jni/pstree_test.c` | depth and a stack of parents | `print_tree` |
| Encryption server | `project1/problem4/jni/server.c` | `client_cnt` under `mu`, main's `newsockfd`, descriptors | accept, a thread per connection |
| Encryption client | `project1/problem4/jni/client.c` | one connection | send a message, wait for the answer, `:q` |
| Cipher, benchmark, tests, scripts, report | | none the properties need | read for how the parts are used |

How they interact. The page fault handler counts the writes of a task, the trace
calls switch the counting on and off, and `task_tick_ras` turns the counts of all
tasks of the RAS queue into the next slice of the one whose slice ends: the more
of the writes are its own, the shorter. The core calls the classes through
`sched_class` with `rq->lock` held and interrupts off; the classes are tried in
the order stop, RT, RAS, fair, idle, so that RAS tasks live on the time that RT
throttling leaves them. Admission decides which limits the throttling works with.
Completions, load average and CPU time are driven by the wake-ups and ticks of the
core. The process tree call reads the tree under `tasklist_lock` while other
processes change it. The server's main hands each connection to a thread through
the address of a variable.

The kernel is the one `goldfish_armv7_defconfig` builds: one processor,
`CONFIG_PREEMPT`, HZ=100, `CONFIG_NO_HZ`, cgroups with `CONFIG_RT_GROUP_SCHED` and
`CONFIG_CGROUP_CPUACCT`, no CFS quota, no irq time accounting. `RtBalance` alone is
about code that only another configuration compiles.

What is hard:

- *Scheduling*: a task changes class, policy and priority through six different
  paths (setscheduler, nice, PI boost, SysRq, fork, exit), each of which may find
  it running, queued or asleep. RAS was added to the core in some of them
  (`__setscheduler`) and not in others (`rt_mutex_setprio`, `sched_fork`).
- *Sleep and wake-up*: a task announces that it will sleep and can be preempted or
  woken before it does; a completion is given to a waiter that a signal or a timeout
  has woken already.
- *Hierarchies*: an entity of a group is queued by the priority of its best task;
  boosts, moves, throttling and changes of the limits reach it from below and above.
- *Several processors*: `double_lock_balance` lets go of the lock it has; masks,
  priorities and queues are read without a lock.
- *Arithmetic*: int products and sums of counts the user controls, an unsigned
  slice that must not be 0; windows of the load average that were slept through.
- *Tracing*: two fields changed by two tasks without a lock in a preemptible kernel.
- *Page faults*: `mmap_sem` is taken in two ways, released in four places.
- *Server*: a shared variable, descriptors that are closed and reused, a counter
  that is changed in two critical sections and left by four exits.

## 2. Modules

| Module | Models | Its actions are |
|---|---|---|
| `RasSched` | the run queue of one processor: RAS, RT, fair and idle tasks | operations of `core.c` under `rq->lock`, atomic |
| `RaceProb` | the slices and the tick of RAS in C integers | the statements of `task_tick_ras`, and what happens between ticks |
| `RtFeasible` | `__rt_schedulable` | (operators, used by the next two) |
| `RtThrottle` | the RT lists of a tree of groups, boosts, throttling and its timer | operations under `rq->lock` |
| `Admission` | groups, bandwidths, sysctls; the policies of tasks | what a mutex or `rq->lock` makes one; what is read before it |
| `RtBalance` | real-time tasks on several processors | what runs between two releases of a run queue lock |
| `Completion` | completions and their wait queue | what the lock of the wait queue or of the run queue makes one |
| `LoadAvg` | the load average with a tick that stops | interrupts, entry into and exit from idle |
| `CpuTime` | where ticks are accounted | ticks, idle ticks, the halves of `io_schedule`, cgroup operations |
| `MemTrace` | the trace calls and the counter in the page fault | accesses to shared fields |
| `TraceAbs` | what tracing promises: a task has a count or none | the calls, atomic |
| `PageFault` | the abort handlers of `fault.c` | what runs between two operations on `mmap_sem` |
| `EncServer` | the server, its threads, its clients | statements between system calls; the critical sections |
| `PsTree` | the process tree, the system call and the printer | tree operations, the call, a line of output |
| `KernelParts` | `Admission`, `Completion`, `LoadAvg`, `CpuTime` side by side | those of one of the four |
| `MCMemTrace` | `MemTrace` and `PageFault` side by side | those of one of the two |
| other `MC*` | | constants and symmetry for TLC |
| `*Proofs` | | theorems |

Parts composed side by side share no variable in the code either: a run of
`KernelParts` chooses one part at the start and moves it alone, which checks each of
them and keeps their products out of the state space. The parts that do share state
are in one module: the RAS, RT and fair queues in `RasSched`, the count and the calls
in `MemTrace`, the lists and the limits in `RtThrottle`.

### RasSched

`rq` is `struct rq` with the RAS list, the RT tasks, the fair tasks and the two
counters `ras_nr_running` and `nr_running`, kept apart from the lists because the
code keeps them apart: `pick_next_task_ras` looks at the counter and dereferences
the head of the list. `state`, `onRq`, `class`, `policy`, `prio`, ... are the fields
of the `task_struct`s; `normal_prio` is an operator, since every place that changes
one of its operands recomputes it.

An operation is one action because the code holds `rq->lock` with interrupts off
for all of it. What may come between two operations is an interleaving: the model
splits what the code splits. `PrepareToWait` sets the state, `FinishWait`,
`ScheduleAsleep` and `ScheduleRunning` come later, and a `WakeUp`, a tick or a
`PreemptSchedule` may come before them. `SchedFork` and `WakeUpNewTask` are two
actions, and the child can be given another policy between them.
`NormalizeTask` is one round of the loop of `normalize_rt_tasks`, which the code
runs with interrupts off: the model allows more interleavings than the code.

Preemption decisions that depend on the fair class are sets of possible outcomes
(`CheckPreemptCurr`, `SwitchedTo`, `PrioChanged`). The RT lists are one sequence,
searched for the first task of the highest priority. An SCHED_RR slice may end at
any tick. Throttling is the subject of `RtThrottle`.

### RaceProb

The slice computation of `RasSched` in one step and in unbounded integers; here in
ints of -INT_MAX-1..INT_MAX, one statement of the C function at a time, with the
loop over the queue spelled out. `INT_MAX` is a constant: TLC checks with 15, the
theorem holds for every width. The kernel is built with `-fno-strict-overflow`, so
an overflow wraps.

### RtThrottle, RtFeasible

`rt` has a field for each field of an `rt_rq`: the lists `q` with their bitmap `bits`, the
count `nr`, the boosted `nb`, the highest priority `hi`, `time`, `thr`, and `timer` for the
timer of the `rt_bandwidth`. A queue entry is a task or a group. `DequeueStack` takes an
entity and the groups above it out, top down, before anything below changes;
`EnqueueEntity` and `DequeueEntity` put back those that have something to run: the order
matters, since a group is in the list of the priority it had. `Change` is what
`__sched_setscheduler` and `rt_mutex_setprio` have in common: the task out, the change,
the task back in, the hooks of the class. A cgroup attach is admitted by one action
(`CanAttach`) and made by another (`Attach`), as in the code.

`Charge` goes up the hierarchy as `update_curr_rt` does, and asks for a reschedule
wherever a level overruns. A tick charges one unit. `PeriodTimer` is
`do_sched_rt_period_timer`, with an overrun of up to `MaxOverrun` periods; it stops the
timer when all is idle. `limit` is `sysctl_sched_rt_runtime`: on since boot, off, or on
again. Once the limit was lifted and set again, a group may stay throttled without a
timer, as only an enqueue starts it: `ThrottledHasTimer` is stated for `"on"`.
`tg_has_rt_tasks` compares a group with the one of the processor's root list, so that it
finds tasks of the root group only (`Busy`): the runtime of a group with real-time tasks
can be set to 0, although the comment at core.c:7606 says that they are not starved, and
once throttled it gets nothing back from its timer. `Runtimes` includes 0.

### Admission

Groups come and go (`parent`, `dying`), tasks move (`moving` is an attach between
`can_attach` and `attach`), and bandwidths are written in two steps: a writer of
`rt_runtime_us` reads the period of the group before it takes `rt_constraints_mutex`,
so that of two concurrent writes one can be lost, and what is stored is nevertheless
what was tested (`TreeFeasible`). `SysctlWrite` and `SysctlCheck` are the two halves of
`sched_rt_handler`: the new pair is in place before it is tested, for others to see,
and `Restored` is the old one, put back. `AskScheduler`, `AskParam` and `StoreScheduler`
are `__sched_setscheduler`: permissions without the lock, then the lock, a comparison
with the policy read before (`Outdated`), and the retry.

### RtBalance

`k` has the run queues and the scheduling fields of the tasks; `ctx[c]` is what
processor c is in the middle of, with its lock released by `double_lock_balance`,
`find_lock_lowest_rq` or the drop of a queue for a push; `hot` is a processor that goes
down or comes up. `Stale` is the test after both locks are held again. Wake-ups of other
processors go through wake lists; `stops` are the works for the stop task.
`cpupri` is external: `pri` is what it was told. Pushes give up after `RT_MAX_TRIES`.

Two history variables name what the code does not promise. `k.stray` are tasks whose
affinity changed while they were on a wake list: `sched_ttwu_pending` activates them on
the processor chosen before, allowed or not, although `set_cpus_allowed_ptr` is to
"migrate the thread to a proper CPU" (it returns early or finds `on_rq` not set yet).
`late` is set where a task may be left waiting though another processor could run it, and
nothing pushes or pulls it; it stays until nothing waits any more. These are:

1. `prio_changed_rt` of a waiting task, which only asks its own processor to choose again;
2. `set_cpus_allowed_rt` of a queued task, or of one on a wake list (`stray`);
3. `switched_from_rt` with other real-time tasks left (it pulls only if there are none);
4. a processor that comes online: it pulls when it next chooses something less urgent;
5. a push that gives up after `RT_MAX_TRIES` with processors left to try (`GivesUp`);
6. a pull for a task that became less urgent and sleeps while the lock is released: what
   it pulls is queued, and nobody is told to choose it (`Misses`);
7. a push or pull that takes the most urgent task of a queue after that queue's processor
   has looked at a third queue, where a task waits (`Robs`).

The last three were found by TLC and by the proof of `NoneWaitsInVain` (section 3).

### Completion

`done` and `queue` under the lock of the wait queue; a wait is between setting its state
and `schedule`, asleep, or woken and on its way back to the loop. `Complete` wakes the
first waiter that it can wake (`Woken`): `default_wake_function` fails on a task that a
timeout or a signal has woken, and the wake-up goes to the next. `complete_all` adds
`MaxDone`, UINT_MAX / 2 in the code; a third call would overflow, which the bound
`MaxWakes` keeps out.

### LoadAvg, CpuTime

`LoadAvg` has jiffies and the ticks that may be missed in idle (`Jumps`). The code folds the
windows that were slept through in a step of its own (`calc_global_nohz`, `Behind`), with
the tasks of the first and a power by repeated squaring (`fixed_power_int`, a `Round` for
each bit). `CatchUpIsClose` says that the windows that are due are folded, each once, and
compares the average with the one that folding them in turn makes (`InTurn`). The two are
not equal, and the difference is not that of one rounding: a fold that rounds to the nearest
stops where it no longer moves, up to 6 units of 2048 above or below where it tends to (from
164 with no active task, 64 folds come to 6 and the power to 1), and the power itself is less
than 3/2048 off, which weighs as the average is away from the active tasks. `Rounding` is the
sum of the two, for any length of sleep. Numbers are not bounded: on the 32-bit processor
`avenrun * exp` would overflow with averages above 1000 tasks, which is left out.
`skipped` marks a window that the tick left out: `calc_load_exit_idle` after a missed
window moves the next update one window on, and that sample is not taken.

`CpuTime` has the fields of `cpustat`, and `waited` as a ghost: idle ticks with a task in
`io_schedule`. A tick is charged to the `cpuacct` group of the
task and to those above it (`Chain`); a group can be removed, and its charge stays with
the groups above it.

### MemTrace, TraceAbs

Each access to `trace_flag`, `wcounts` or `usage` is a step; `pc`, `target` and
`reg` are the position, the local pointer and the register of a task in the kernel.
`wcounts++` is a load and a store. `get_pid_task` takes a reference that no call
gives back, and `Exit` drops the task's own. `MayTrace` says who calls start and
stop on whom: `OwnTracing` is what all callers in the repository do
(`syscall(361, getpid())`).

`TraceAbs` is the promise: a count per task or none. `ImplementsTraceAbs` maps
`count` to `wcounts` of live tasks whose flag is set. `StartZero`, `StopZero` and the
reads are stutters, and `StartFlag` is the start: that this is correct depends on
`wcounts` being 0 by then.

### PageFault

A thread goes from a fault (`run`) to `down_read` (`wait`), `find_vma` and the test of the
access (`area`), `handle_mm_fault` (`mm`), the evaluation of what it returned (`result`),
and back, or to an oops (`dead`). `down_read_trylock` fails for a writer that has the semaphore
or is queued for it (`Trylock`). `Access` is what an abort tells: the handler of
`fsr_info`, the kind of access, user or kernel mode, the half of the addresses, whether
the place has a fix-up and whether faults are disabled. `readers` and `writer` are
`mmap_sem`; other threads hold it for writing, map, protect and unmap.
`handle_mm_fault` is external: any result that include/linux/mm.h allows, a retry
with the semaphore released among them, when it was allowed.

### EncServer

A connection, the client behind it and the thread made for it have one name.
`fdTable` is the descriptor table of the process; `accept` returns the lowest free
descriptor, so that a descriptor closed by one thread is the next connection's.
Nothing handles SIGPIPE: a write to a client that is gone fails (`WriteFails`) or ends the
process (`BrokenPipe`), as does a `pthread_create` that fails (`CreateFails`).
`Read` and `Recv` are the two halves of `read`: the descriptor is looked up, then
the thread blocks on what it found. `environment` is chosen once and says whether
clients connect while a thread has not read its argument yet (`crowd`), and whether
clients may be killed (`deaths`). Properties that the hand-over through `&newsockfd`
and the lost slot break in general are stated for the environments without them:
`OwnConnection` and `OwnAnswer` as long as connections come one at a time, killed clients or
not; `NoSlotLost` for the calm one; `SlotsCoverServing` for all.

### PsTree

Processes are pids, `children` are the lists of the kernel. `NextEntryPid` is what
`list_entry(task->sibling.next, ...)->pid` reads, for the last child too, where it
is a word of flags of the parent (`bits`, which an `execve` changes). `stack` is
`parent_pids` with arbitrary initial contents, `Garbage`: `parent_pids[0]` is never written
and is compared with at depth 0. When it is by chance the pid of a child of init_task, its
children are printed as its siblings; `DepthIsRight` says that this is the only way
a depth can be wrong. The run has a value that is no pid.

## 3. Runs

Every bound is a constant of the configuration.

| Run | Instance | Distinct states | Shows |
|---|---|---|---|
| `RasSched_classes` | 3 tasks, all 4 policies, an RT priority, 2 nice values, a PI waiter | 300 thousand | types, queues, wake-ups, classes; which steps hide a task of a higher class |
| `RasSched_rotation` | 3 tasks, NORMAL and RAS, 2 nice values, tracing with one write | 169 thousand | the head runs, no overtaking, preemption by class |
| `RasSched_live` | 3 tasks, NORMAL and RAS, slices of 2 ticks, reset-on-fork | 174 thousand | a queued RAS task runs |
| `RaceProb_exact` | 3 tasks, 3 writes each, slices of 3, INT_MAX 15 | 2.2 million | slices are exact and in range |
| `RtThrottle_groups` | a group under the root, 2 tasks of which one moves and one owns a mutex, period 2, runtimes 0 and 1 | 135 thousand | the lists of both levels agree; throttled groups get time back; who overran goes |
| `RtBalance_smp` | 2 processors of which one is unplugged, 3 tasks with priorities {1}, {1, 3, fair}, {2}, one with 2 masks, 3 tries | 936 thousand | one processor at a time, an allowed one; pushable lists and root domain exact; none waits in vain |
| `KernelParts` | 2 groups, 1 task, 2 writers, 1 caller; 2 waiters; 2 workers, windows of 5 ticks, time until 22 jiffies, sleeps of 4, 16 and 320; 2 tasks, 3 accounting groups in a chain, 3 ticks | 1.4 million | feasible bandwidths, settled sysctls, kept policy; no completion lost; exact samples and accounts, a catch-up close to folding in turn |
| `MemTrace_own` | 3 tasks that trace themselves, 1 write, 2 references; 2 threads that fault | 591 thousand | refinement of `TraceAbs`, no use after free; `mmap_sem` in balance, no wait for oneself |
| `EncServer_threads` | 3 clients, 1 slot, 2 descriptors, 2 messages, all environments | 776 thousand | slots, descriptors, answers |
| `EncServer_calm` | 2 clients, 1 slot, 2 descriptors, 4 messages | 13 thousand | every message is answered, after a refusal and in the second loop as well |
| `PsTree_print` | 5 pids, 3 forks, 1 call | 795 thousand | depth-first order, every process, depths |
| `PsTree_lastsibling` | 4 pids, 3 forks, 1 call | | a violation, see below |

Why the bounds are enough:

- Three tasks are one that runs, one that is next and one that can be overtaken, and a
  task of each of the classes RT, RAS and fair. `StaticPrios`, `RtPriorities` and
  `PiPrios` contain, around `MAX_RT_PRIO` = 3, a priority above nice 0, the default, a
  real-time policy and a boost above it.
- `INT_MAX` 15 is the smallest 2^n - 1 above the largest product (9) and sum (9), so
  that `NoOverflow` holds.
- One group under the root has every relation the code makes between a list and the one
  above it; a task in each lets one level be boosted while the other is throttled.
  An overrun of 2 periods is more than a timer gives back in one.
- Two processors are one that pushes or pulls and one that moves meanwhile. Of three
  tasks with three priorities one runs on each and one waits, and the queue of either can
  be overloaded. `b2` may be bound to processor 1, may become less urgent than the two
  others and stay real-time, and may stop being real-time; processor
  2 goes down and comes up with all of them in any place. What takes a third processor
  (6 and 7 of the list in section 2 take four tasks, or four processors) is covered by
  the proof, which is for any number of each.
- Two writers of bandwidths, one of a group and one of its parent or both of the same,
  are what concurrent reads before the mutex can mix up. Two waiters are one that gets a
  completion and one that could have. A window of 5 ticks can be
  slept through once (a sleep of 4), three or four times (16), 64 times (320), or not at all; with 64
  windows the two ways to fold them differ by 5 units, as in the example of section 2. A chain of three accounting groups has
  one in the middle that can be removed after its child.
- Two faulting threads are one that reads and one that holds the semaphore for writing or
  waits for it; a third would repeat the first.
- Two clients share a slot and a connection while a third takes a descriptor that was
  closed; there is always one client more than slots and, in `EncServer_threads`, than
  descriptors. In `EncServer_calm`, four messages let a client be refused, ask again when the
  other has quit, get the slot, and have answers from the second loop; an answer that the
  second loop forgets (`AfterMessage_ReadOn`) and a refused client that may not try again
  (`Write_RefusedOnce`) are both found.
- Five processes with three forks give a branch of depth three and two branches side by
  side, with exits that move children to init.

`CHECK_DEADLOCK FALSE` is set where a system ends or the bounds stop it: all calls and
forks used up (`MemTrace`, `PsTree`), threads that oopsed (`PageFault`), the end of time or of
wake-ups (`KernelParts`), everything asleep (`RtBalance`: nothing has to wake up), all
clients gone or the server out of descriptors (`EncServer`). The scheduler and the
throttling are checked for deadlock.

Each property of these runs was seen to fail with a mutant of a definition (the
definitions marked `Mutant:`), a plausible slip in the code it models.

### Where documents and code disagree

`PsTree_lastsibling` ends with a violation: the comment says that a last child is
recognised by the parent's pid. What is read there is another field; `testscript.txt`
has a line with the result.

Other places where the code does not do what is said of it. Properties are stated so that
they hold beside these; the models have them all unless it says otherwise.

- The report says that a class runs a task only when the classes before it have none.
  `switched_to_ras` (ras.c:234) ignores the task that runs: an RT task that makes itself
  SCHED_RAS and is alone in its queue keeps the processor from queued RT tasks.
  `OnlySelfSwitchHidesRt` shows that nothing else does.
- The report says that a new task with the RAS strategy is put into the RAS queue.
  `sched_fork` (core.c:1777) gives it the fair class, with the policy SCHED_RAS.
- The report says that stop_trace resets the count. A fault that is past its test of the
  flag brings the count back when another task stops the tracing (fault.c:402). In
  `MemTrace_own` tasks trace themselves.
- `sys_stop_trace` of an untraced task succeeds where the report says -EINVAL; two
  concurrent `sys_start_trace` both succeed.
- The report says that writes to protected memory are counted. The count is at the
  SIGSEGV exit of `do_page_fault`: reads, prefetches and unmapped addresses count as
  well, and faults that `do_bad_area` ends with a SIGSEGV do not.
- `get_trace` stores through the pointer of the caller; when the page is not there
  and another thread holds `mmap_sem` for writing, `do_page_fault` takes it for a mistake
  of the kernel and oopses (`PageFault` has this as an access without fix-up).
- `#define LAB_DEBUG 0;` in fault.c makes `if (LAB_DEBUG)` a syntax error; the models
  read it as 0.
- SCHED_RESET_ON_FORK does not revert SCHED_RAS, and a call that changes only
  that flag has no effect (core.c:4312).
- `first_child_pid` is the first child, "youngest" in the comment.
- Renicing a waiting RAS task sends it to the tail of the queue, so that it can be
  kept waiting for ever (this is why `RasSched_live` has a single nice value and
  `NoOvertaking` an exception).
- `tg_has_rt_tasks` sees tasks of the root group only (section 2, `RtThrottle`).
- `calc_load_exit_idle` after a missed window makes the next one be missed too.
- `sched_rt_handler` shows untested values to others while it tests them; a period of
  0 would be divided by, which the instance leaves out.
- Of two concurrent writes to the runtime and the period of a group one can be lost.
- On several processors: a task on a wake list can be activated where it may not run; the
  changes marked by `late` (section 2, `RtBalance`) leave a task waiting. `pull_rt_task`
  reads `highest_prio.next` of another queue without its lock, and says (rt.c:1731) "This
  may look racy, but if this value is about to go logically higher, the src_rq will push
  this task away. And if its going logically lower, we do not care"; `push_rt_task` says
  (rt.c:1673) "Do not retry in this case, since other cpus will pull from us when ready".
  Two traces that TLC found on instances larger than that of the run show that the two do
  not always suffice:
  - Two processors, four tasks: 2 runs `who`, and `w` waits there; 1 runs `a`, and `t`,
    more urgent than `w`, has been woken there. `who` is made less urgent, so that
    `prio_changed_rt` pulls for 2 and waits for the lock of 1. `who` goes to sleep, 2 runs
    `w`, and `a` becomes as urgent as `t` and goes on. The pull then
    brings `t` to 2, and since 2 no longer runs `who` (rt.c:1966) it is not told to choose
    again. `t` waits behind `w`.
  - Four processors, seven tasks: the pull of 2 skips 1, whose waiting task is less
    urgent than one that is queued on 2. A push that was under way takes this one away.
    2 then runs something less urgent than what waits on 1.

  With tasks bound to different sets of processors there is another: only the first
  pushable task of a queue is tried, and the second may have a processor that it could
  use. This is why the theorem about `NoneWaitsInVain` is for affinities that are all
  processors or one; the affinities of the run are of this kind.

## 4. Fairness

- `RasSched`: weak fairness of `SchedulerTick` and of `PreemptSchedule`. The timer
  interrupt keeps coming while a task runs (NO_HZ stops it for the idle task only),
  and a pending reschedule is acted upon when interrupts and preemption are on
  again, at the latest on the return to user mode. Nothing else is assumed fair: no
  task has to sleep, exit or be woken, and RAS tasks run nevertheless. Throttling of RT
  tasks is not needed: the instance has none.
- `EncServer`: weak fairness of main, of every thread and of a client's read. The
  kernel schedules runnable threads, and data that arrived is delivered. Clients
  need not type anything. Fairness of a thread covers its mutex, as each critical
  section is one action that is always enabled at its place.

The other modules state no fairness. What must eventually happen in them is stated as
an invariant: a throttled group has a timer, a completion has an awake waiter, at rest
nobody waits. The code promises less than liveness there (a real-time task may run for
ever where there is no limit).

## 5. Proofs

Checked by TLAPS for all values of the constants that satisfy the assumptions named in
the modules: `IdleAssumption`, `PrioAssumption`, `PolicyAssumption`, `SliceAssumption` of
`RasSched`; `WidthAssumption`, `ScaleAssumption`, `BoundAssumption` of `RaceProb`;
`TaskAssumption`, `PairAssumption`, `BoundAssumption` of `MemTrace`;
`ThreadsAssumption`, `NobodyAssumption`, `FlagsAssumption` of `PageFault`; `AdmissionAssumption`,
`NoneAssumption`, `RatioAssumption` of `Admission` and `RtFeasible`; `CompletionAssumption`,
`LoadAvgAssumption`, `CpuTimeAssumption` of the modules of these names; `ClientAssumption`, `FdAssumption`, `SlotAssumption`,
`EnvAssumption` of `EncServer`; `CpuAssumption`, `ThreadAssumption` of `RtBalance`;
`TreeAssumption`, `PrioAssumption`, `TimeAssumption` of `RtThrottle`; `PidAssumption`,
`BitsAssumption`, `StackAssumption`, `BoundAssumption` of `PsTree`. They give
the constants their types, keep names apart (an idle task is not a task) and make the groups
of `RtThrottle` a finite tree (a group is one deeper than its parent); TLC
evaluates them in the runs. Some theorems have a hypothesis besides, explained below:
`NoOverflow`, `OwnTracers`, `RasAndFairOnly`, `SameAffinity`, `GlobalRuntime < Period`.

`RunListProofs` has the lemmas on lists that the others use: what `list_add`,
`list_add_tail` and `list_del_init` do to a list without duplicates, and that a set of
numbers has a least element. It also has the lemmas on lists put together (`FlattenSeq`, in
the walk of `PsTree`) and on sums over finite sets. The
least element is from the well-foundedness of `<` on the
naturals and not by induction over data, which the provers cannot do.

**RasSched** (`RasSchedProofs`). The inductive invariant is
`IInv == AttrInv /\ QueueInv /\ RestTypes`. `AttrInv` is about the fields of tasks:
which class goes with which policy and priority; it does not depend on the queues
and is proved first. `QueueInv` says that each queue has exactly the members its
class and the `on_rq` flags give it, that the counters count them, and that the
states and the running task agree with the flags. None of its parts is inductive
alone: that a dequeue finds its task needs the flags and the classes to agree,
that `pick_next_task_ras` returns a task needs the counter, that the one it
returns has `on_rq` set needs the members. `EnqueueConsistent`,
`DequeueConsistent`, `RequeueRasConsistent` and `ReclassConsistent` carry the four
ways a queue changes, and `QueueNext` has one step per action. From `IInv`:

- the invariants `TypeOK`, `RqConsistent`, `RunnableIsQueued`, `RasClassHasRasPolicy`,
  `RtPolicyHasRtClass`;
- the action properties `RasClassKept`, `NoOvertaking` and `OnlySelfSwitchHidesRt`. For the
  second, each operation on the RAS list is shown to keep the order of two tasks that
  stay in it; for the last, each preemption check is shown to ask for a reschedule
  whenever a task of a higher class comes to wait, but for the one of
  `switched_to_ras`;
- `HeadRuns` and `HighestClassRuns`, if `RasAndFairOnly`: no real-time priority and no PI waiter
  above nice. With real-time tasks both are false, and `OnlySelfSwitchHidesRt` shows the
  one step that breaks them. `RasInv == NoRt /\ HighestClassRuns /\ HeadRuns` is what a
  step keeps: that a wake-up at the head of the list preempts needs that the running task
  is not a fair one. The run `RasSched_rotation` satisfies the hypothesis.

**RaceProb** (`SharesProofs`). `NoOverflow => (Spec => []SliceInRange)` and the same for
`SliceIsExact`. A slice is in
1..RAS_MAX_TIMESLICE outside the tick; in the loop `sum` is at most
`(pos - 1) * MaxWrites` and at least the count of the current task once it has been
passed (and it is in the queue), so that the probability is below the scale. The exact slice needs that `sum` is the sum of the counts before `pos`
(`LoopSum`), and that the two comparisons of the code tell whether another task writes
(`OthersWrite`); a loop that counts a task twice or leaves one out is found where the set
of the tasks seen grows by one. `NoOverflow` is a real condition: with 214748365 writes the
product overflows.

**MemTrace** (`TraceProofs`). `NoUseAfterFree`, for any callers: a task that a call has
in hand is alive with two references or dead and referenced for ever. And the
refinement, `OwnTracers => (Spec => ImplementsTraceAbs)`: `OwnTracers` is what every caller in
the repository does, and where it does not hold, a fault that has passed its test of the
flag does bring a count back (section 3). `OwnInv` says that the fields of a task agree with
where it is in its own call or fault, as nobody else changes them: only between the two
stores of stop_trace has a task that is not traced a count, and then it is not in a
fault, so that no store of `wcounts++` falls between. Every step is then a step of
`TraceAbs` or a stutter.

**PageFault** (`TraceProofs`). `SemProtects` and `NoWaitForOneself`, for any number of
threads. The inductive invariant is `SemInv == FaultTypes /\ Exclusion /\ Standing`. `Exclusion`
says that `readers` is the number of threads at a place where they hold the semaphore,
that a writer excludes them, and that no thread inside a fault is the writer; `Standing` is
what a place relies on: before `handle_mm_fault` the area permits the access, and
a retry is only returned when it was allowed or the thread is killed. The last is what
tells the place that released the semaphore already from those that have not.

**KernelParts** (`KernelPartsProofs`). Each of the four parts side by side in `KernelParts` has a
specification of its own, about which the theorems are.

- `Admission`: `TypeOK`; `SysctlsSettled`, whose inductive invariant `SysInv` says what holds
  while a write is being tested: the old pair is the one that groups start from, it is
  sane, and it is kept to be put back; `SetParamKeepsPolicy`: the policy stored is the one
  found under the lock, as the retry happens whenever it is no longer the one that was
  read; and `TreeFeasible`, for any tree of groups. `TreeInv` adds that no period stored, or
  about to be stored, is 0, so that every share is a natural number: a new group then adds
  nothing to the sum of its parent, and one that goes only takes away.
- `Completion`: `NoLostCompletion`, for any waiters. `WaitInv` follows the completions: those
  done and not taken are matched by waiters that were woken for them, unless all who are
  inside a wait are awake, and whoever is inside a wait is in the queue once, woken or not.
- `LoadAvg`: `SampleIsTheWindows` and `CatchUpIsClose`, for any tasks, windows and sleeps. `LoadInv` says where the samples
  are: the global count and the two idle buckets add up to what the run queue has given
  away (`Samples`), and the run queue of a processor that ticks is due at a window that has
  not been folded, a multiple of LOAD_FREQ away (`Windows`). From the opening of a window
  to its fold the bucket of the next one takes what changes. The second is arithmetic
  about the distance of the average from the active tasks, which a window multiplies by
  EXP_1 / 2048, rounded (`Shrunk`). Squaring EXP_1 passes eight factors until it comes to 0, after
  128 windows. For each `Near` bounds how far the distance after so many windows is from that
  factor times the distance before them, by a fixed part and one that grows with the distance
  (the tables `Fixed` and `Weight`; `StrideNear` doubles the windows). `RoundHolds` is a round of the loop
  of `fixed_power_int`: the factor of a bit multiplies the result as its windows shrink the
  distance, and the rounding of the product adds to the parts (`PowerFixed`, `PowerWeight`). They stay
  below 7 units and 3/2048 of the distance, the two terms of `Rounding` (`PowerNear`,
  `CatchUpNear`). `Power` is written with a recursive function over the rounds and not with a
  RECURSIVE operator, so that it can be unfolded here (`RunsOn`).
- `CpuTime`: `TimeConserved`, for any tasks and groups. `ClockInv` has the fields of cpustat and
  the ticks not accounted yet; `AcctInv` says that the groups there are form a tree, each one
  deeper than the one above it. That a tick adds one to a group and to at most one of
  its children needs that the walk up to the root passes one group at each depth
  (`OnePerDepth`).

The sums over groups, and over the tasks of a queue in `RaceProb`, are `MapThenSumSet` of the
community modules, a recursion over sets. What is needed of it (that a fixed point exists and is one only, that it is a natural
number, that it does not depend on the order and grows by what is added) is proved in the
lemmas of `RunListProofs` from `SmallestSet` to `SumZero` without induction: of the sets for which it fails
one has the least cardinality, and that one leads to a contradiction.

**EncServer** (`Project1Proofs`). `TypeOK`, `SlotsCoverServing`, `NoSlotLost`, `OwnConnection`,
`OwnAnswer`, for any clients, slots and descriptors. The inductive invariant is
`IInv == Types /\ Assigned /\ SlotInv /\ ConnInv /\ TokenInv /\ SlotsExact`. `SlotInv`
counts: the threads that serve are no more than `client_cnt`, which is no more than the
slots, in any environment. `Assigned` says that a variable is set before it is used. `ConnInv`
relates descriptors to connections when these come one at a time: one is on its way from
`connect` to the thread that reads `newsockfd`, and every other thread has the descriptor of
its own connection until it closes it. `TokenInv` follows one message on its way, from the client to the thread and back:
at most one of the places has it, which is why an unread answer is the right one.
`SlotsExact` holds in the calm environment only.

**PsTree** (`Project1Proofs`). `PsTypeOK`, `DepthFirst`, `ListsEveryProcess`, `DepthIsRight`, for any
pids and any word read as a pid. There are three parts:

- The processes form a tree: `TreeInv`. `Family` says that the lists of children agree with the
  parents. That there is no cycle cannot be said by the pids, which are used again, so
  `Ranked(d)` says that some numbers `d` grow from parent to child; a fork gives its
  child a greater one, and after an exit the old ones still grow, since init, which
  inherits the children, has the least but for init_task (`ForkStep`, `ExitStep`, `ReapStep`).
- A walk lists it: `OneLevel` takes the children one by one; the walk below a child, put behind a
  depth-first list that has not come to that child, is a depth-first list again (`JoinWalk`), and
  `LevelsWalk` goes down the levels. That the walk reaches everybody (`WalkReaches`) needs that
  a process and its ancestors (`Line`) are no more than there are processes. `Listing(buf)` is
  what an answer keeps while the tree under it changes.
- The printer: `Stacked` says that `parent_pids` has, from 1 to `depth`, the pids of the
  ancestors of the entry printed last; entries above `depth` are older and may be anything.
  The parent of the next entry is the last entry or an ancestor of it (`NextParent`, from
  the depth-first order), so that each of the four cases of print_tree finds the right depth
  (`LinePrinted`), and `depth` never leaves the array (`Bounded`). The walks over levels
  and entries go by least counterexamples (`LeastElement`).

The condition of `DepthIsRight` on `parent_pids[0]` was found by the proof, which fails
without it; TLC, given `Garbage = {1}`, then shows a child of init at the depth of init.

**RtBalance** (`RtBalanceProofs`). `OneCpu`, `OnAllowedCpu`, `PushableExact` and `DomainExact`, for
any number of processors and tasks, whatever is unplugged. The inductive invariant,
which TLC checked first on the instance of `RtBalance_smp`, is
`SmpInv == Sound(k, Free(ctx)) /\ CtxInv /\ WakeOk(...) /\ HotInv`:

- `Sound` is said of a value of `k`, since an action goes through many of them before it
  ends: `Exact`, that the lists, the counts and the root domain agree with the queues;
  `OnOwn`, that a processor runs a task of its own queue, and one that is queued unless it
  is about to choose another (the processors `Free`, which wait for a lock in the pull of
  `pre_schedule_rt` after their task went to sleep); `Awake`, that queued tasks are not
  asleep; `Placed`, that a task where it may not run has a request to a processor that
  it may run on.
- `CtxInv` says what a processor in the middle of a push or pull knows. It is little: that
  what it has chosen is still there is not known, and `PushLockedReached` and
  `PullLockedSound` show that the tests made again under both locks are enough.
- `WakeOk` says that a woken task is on one wake list or in the hands of one processor, so
  that it is queued once.
- `HotInv` says that no request to a stop task is pending while a processor goes down, and
  that a processor that dies runs its stop task while no other holds a lock.

Each operator of the model has a lemma that it keeps `Exact` or `Sound`
(`DequeueExact`, `EnqueueExact`, `SetMaskExact`, `LinedExact`, `MoveSound`, `SwitchSound`,
`PickSound`, `RequeuedSound`, `FallbackSound`, ...), and every action a lemma of its own, put
together in `StepInv`. That a plist stays sorted and that its first entry is the cached
one is `InsertSorted` and `RemoveSorted`.

`NoneWaitsInVain` (`SharesProofs`), `SameAffinity => (BalanceSpec => []NoneWaitsInVain)`:
`SameAffinity` says that a task may be bound to one processor or to none, as in the run. It is about states
at rest, and what it needs is who pushes or pulls a task until then. The invariant is
`WaitInv == SmpInv /\ Homes /\ (~late => Calm(k, ctx))`:

- `Calm` is an invariant in place of a progress argument. `Attended`: a processor whose
  queue has a more urgent task than it runs will choose again, or is in the pull that
  will tell it so. `Offered(s, x, q, d)`: if the first task that waits on q is more urgent
  than everything on d, then q will choose again or push (`Pushes`), or d is in a pull that
  has yet to look at q (`Pulling`). Neither is about one processor: a push relies on the
  pull of another, as the two comments of section 3 say, and each step has to hand over
  what it no longer does. `SleepCurrCalm`, `PickCalm`, `ActivateCalm`, `PushRunsCalm`,
  `PullRunsCalm` and `RunningPrioCalm` are the steps that do.
- `PushGoesCalm` and `PullGoesCalm` are the moves after the locks are taken again. They are
  where `GivesUp`, `Misses` and `Robs` were found: each is what remained when everything
  else about the state at that point had been used.
- `Plain` says what is not under way while all is calm (works for the stop task, pulls of a
  change of class), and `Homes`, whatever has been noted, where tasks and the processors
  in a push or pull are: on processors that are up, or on the one that dies.
- `StepCalm` has one step per action, `RestCalm` says that at rest, with nothing waiting,
  all is calm again, and `CalmWaits` that a calm state at rest satisfies the property.

**RtThrottle** (`RtThrottleProofs`). `TypeOK` and `HierarchyConsistent`, for any tree of groups and
any tasks; `ThrottledHasTimer` and `ThrottledMustGo`, if `GlobalRuntime < Period`. The inductive
invariant is `Inv == Types /\ Good(rt, task, Awake(task, asleep))`:

- `Lists(r, tk, M)` says that the lists of `r` hold exactly the entities of `M`, each in the rt_rq
  it belongs to and at the priority it has now, and that counts and bitmaps are theirs. It is a
  relation between `r` and a set, so that it can be said in the middle of an operation, when some
  entities are out. One enqueue adds an entity to `M`, one dequeue takes it out, provided that
  the group that holds it is not in a list itself (`EnqueueConsistent`,
  `DequeueConsistent`): otherwise the group would be left at a priority it no longer has. This is
  why the code takes the whole chain out first, from the top, and puts it back from below.
- `Good(r, tk, S)` says that `M` is the tasks `S` and the groups that have entities and are not
  throttled (`Up`). `StackKeeps` and `LoopKeeps` show that the two loops of
  `enqueue_rt_entity` and `dequeue_rt_entity` lead from lists that are right but for one entity
  to lists that are right. Throttling and replenishment change `Up`, and enqueue or
  dequeue the group at once (`ExceededKeeps`, `RqEnqueueKeeps`).
- `NextIs`: walking down from the root by first entities ends at a task (each group met is
  queued, hence has entities) and passes no throttled group, because none is queued.
- `TimerInv` is about throttling: as long as no group is without a limit, each step keeps that a
  group with entities has its timer and that a throttled one has time to give back (`Keeps`).
  No group is without a limit since the admission test would have refused it
  (`AdmittedLimits`); this needs the hypothesis. With `sched_rt_runtime_us` equal to
  `sched_rt_period_us` a group may be given no limit, and then TLC finds both properties violated: a
  group that is given a limit while it has tasks is throttled without a timer (only an enqueue
  starts it), and a task below a group that is throttled and has just lost its limit runs on. The default is 950000 of 1000000, and the run has 1 of 2.

Only model-checked: liveness (`RasSched_live`, `EncServer_calm`), which is out of the prover's
reach, and the violation of `PsTree_lastsibling`.

## 6. Not modelled

- Of several processors: scheduling domains, fair balancing, borrowing of run time
  (`do_balance_runtime`), real-time groups and throttling together with balancing.
- The CFS quota (not compiled), RLIMIT_RTTIME, scheduler statistics, hrtick,
  clocks, debug output, autogroups, cpusets.
- Wait queues with waiters that are not exclusive, bit wait queues.
- `fair.c`, `idle_task.c`, `stop_task.c`, `cpupri.c`, the timers of `kernel/time` and the
  memory manager are not in the repository: their results are chosen freely, or they
  are modelled by when they call the code.
- Fault counters (`min_flt`, `maj_flt`), `show_pte`, the printing of debug messages.
- The cipher, the formatting of output, failed copies to user space, leaks of kernel
  memory, the limits 1024 and 512 of the tree buffers, partial TCP reads.
- Loading and unloading of the system call modules.

## 7. Plan

Done, in order: `RasSched` with proofs; `RaceProb`; `MemTrace` over `TraceAbs`; `EncServer`;
`PsTree`; `RtThrottle`; `Admission`; `Completion`, `LoadAvg`, `CpuTime`; `RtBalance`;
`PageFault`; the proofs of section 5. Left, most important first:

1. Throttling together with RAS tasks: `RtThrottle` with the picks of `RasSched`.
2. `SyscallTable`: load and unload order of the modules.
