------------------------------ MODULE LoadAvg -------------------------------
(***************************************************************************)
(* The load average of core.c on one processor whose tick stops when it is  *)
(* idle (NO_HZ): samples of the active tasks are folded into                *)
(* calc_load_tasks by the tick or, as a delta, at the entry into idle, and  *)
(* into avenrun a few ticks after the sample window has opened.  A step is  *)
(* an interrupt, an entry into or exit from idle with interrupts off, or a  *)
(* task that blocks.  do_timer and the tick code (kernel/time) are not in   *)
(* the repository: they are modelled by when they call these functions.     *)
(***************************************************************************)
EXTENDS Integers, FiniteSets

CONSTANTS
    Workers,      \* the tasks
    LOAD_FREQ,    \* ticks between two sample windows
    WindowTicks,  \* ticks from a sample to its fold, 10 in the code
    Jumps,        \* how many ticks an interrupt may find missed
    MaxJiffies    \* bound on the jiffies at which the time still goes on

ASSUME LoadAvgAssumption ==
    /\ IsFiniteSet(Workers)
    /\ WindowTicks \in Nat \ {0} /\ LOAD_FREQ \in Nat /\ LOAD_FREQ > WindowTicks
    /\ Jumps \subseteq Nat \ {0} /\ MaxJiffies \in Nat

VARIABLES
    jiffies,
    load,         \* what is global: calc_load_update, calc_load_tasks,
                  \* calc_load_idle[2], the low bit of calc_load_idx, and
                  \* avenrun[0], the average over a minute
    rqUpdate,     \* calc_load_update of the run queue
    rqActive,     \* calc_load_active of the run queue
    work,         \* "R", "S" or "D" for every task: running, interruptible or not
    stopped,      \* the tick is stopped
    seen,         \* ghost: the active tasks when the last window opened
    skipped       \* ghost: the tick of the processor left out that window

loadVars == <<jiffies, load, rqUpdate, rqActive, work, stopped, seen, skipped>>

LoadInit ==
    /\ jiffies = 0
    /\ load = [update |-> LOAD_FREQ, tasks |-> 0, idle |-> <<0, 0>>, idx |-> 1,
               avenrun |-> 0]
    /\ rqUpdate = LOAD_FREQ /\ rqActive = 0
    /\ work = [w \in Workers |-> "R"]
    /\ stopped = FALSE
    /\ seen = 0 /\ skipped = FALSE

Running == {w \in Workers : work[w] = "R"}

\* nr_running and nr_uninterruptible of the run queue.
NrActive == Cardinality({w \in Workers : work[w] \in {"R", "D"}})

-----------------------------------------------------------------------------
(* The arithmetic                                                           *)

FSHIFT == 11
FIXED_1 == 2 ^ FSHIFT
EXP_1 == 1884
Half == FIXED_1 \div 2

\* calc_load
Decayed(avg, exp, active) == (avg * exp + active * (FIXED_1 - exp) + Half) \div FIXED_1

\* A round of the loop of fixed_power_int, for one bit of n.
Round(s) ==
    IF s.n = 0 THEN s
    ELSE [x |-> (s.x * s.x + Half) \div FIXED_1,
          n |-> s.n \div 2,
          result |-> IF s.n % 2 = 1 THEN (s.result * s.x + Half) \div FIXED_1 ELSE s.result]

\* fixed_power_int: base^n; n rounds are more than n has bits.
Power(base, n) ==
    LET after[i \in 0 .. n] == IF i = 0 THEN [x |-> base, n |-> n, result |-> FIXED_1]
                               ELSE Round(after[i - 1])
    IN after[n].result

\* Mutant: the window of the first fold is counted again.
DecayedBy_Again(avg, active, n) == Decayed(avg, Power(EXP_1, n + 1), active)

\* calc_load_n
DecayedBy(avg, active, n) == Decayed(avg, Power(EXP_1, n), active)

-----------------------------------------------------------------------------
(* do_timer: the time goes on and calc_global_load folds                    *)

\* calc_global_nohz: the windows still behind after the first fold.
Behind(now, update) ==
    IF now < update + WindowTicks THEN 0
    ELSE 1 + (now - update - WindowTicks) \div LOAD_FREQ

\* The active tasks as a load.
Active(tasks) == (IF tasks > 0 THEN tasks ELSE 0) * FIXED_1

Fold(now) ==
    LET tasks  == load.tasks + load.idle[load.idx]
        active == Active(tasks)
        next   == load.update + LOAD_FREQ
        once   == Decayed(load.avenrun, EXP_1, active)
        n      == Behind(now, next)
    IN [update |-> next + n * LOAD_FREQ,
        tasks |-> tasks,
        idle |-> [load.idle EXCEPT ![load.idx] = 0],
        idx |-> 3 - load.idx,
        avenrun |-> IF n = 0 THEN once ELSE DecayedBy(once, active, n)]

\* calc_global_load
GlobalLoad(now) == IF now < load.update + WindowTicks THEN load ELSE Fold(now)

\* calc_load_fold_active
ActiveDelta == NrActive - rqActive

\* The time has come to now and the global part to l.
TimeIs(now, l) ==
    /\ jiffies < MaxJiffies
    /\ jiffies' = now
    /\ IF jiffies < l.update /\ l.update <= now
       THEN seen' = NrActive /\ skipped' = (~stopped /\ now < rqUpdate)
       ELSE UNCHANGED <<seen, skipped>>

-----------------------------------------------------------------------------
(* The processor                                                            *)

\* The tick: do_timer, and calc_load_account_active from scheduler_tick.
Tick ==
    LET now == jiffies + 1
        l   == GlobalLoad(now)
    IN /\ ~stopped
       /\ TimeIs(now, l)
       /\ IF now < rqUpdate
          THEN load' = l /\ UNCHANGED <<rqUpdate, rqActive>>
          ELSE /\ load' = [l EXCEPT !.tasks = @ + ActiveDelta]
               /\ rqActive' = NrActive
               /\ rqUpdate' = rqUpdate + LOAD_FREQ
       /\ UNCHANGED <<work, stopped>>

\* An interrupt of the processor in idle without a tick; once it has woken a
\* task the processor leaves idle at once.
IdleInterrupt(n) ==
    LET l == GlobalLoad(jiffies + n)
    IN /\ stopped /\ Running = {}
       /\ TimeIs(jiffies + n, l)
       /\ load' = l
       /\ UNCHANGED <<rqUpdate, rqActive, work, stopped>>

\* Mutant: the delta of a window that is open goes with the one before it.
WriteIdx_SameInWindow == load.idx

\* calc_load_write_idx
WriteIdx == IF jiffies < load.update THEN load.idx ELSE 3 - load.idx

\* calc_load_enter_idle, when the tick stops.
EnterIdle ==
    /\ ~stopped /\ Running = {}
    /\ stopped' = TRUE
    /\ load' = [load EXCEPT !.idle[WriteIdx] = @ + ActiveDelta]
    /\ rqActive' = NrActive
    /\ UNCHANGED <<jiffies, rqUpdate, work, seen, skipped>>

\* The run queue is put to the next window.
Resynced ==
    IF jiffies < load.update + WindowTicks THEN load.update + LOAD_FREQ ELSE load.update

\* calc_load_exit_idle: a task has become runnable and the tick starts again.
ExitIdle ==
    /\ stopped /\ Running # {}
    /\ stopped' = FALSE
    /\ rqUpdate' = IF jiffies < rqUpdate THEN rqUpdate ELSE Resynced
    /\ UNCHANGED <<jiffies, load, rqActive, work, seen, skipped>>

Block(w, s) ==
    /\ ~stopped /\ work[w] = "R"
    /\ work' = [work EXCEPT ![w] = s]
    /\ UNCHANGED <<jiffies, load, rqUpdate, rqActive, stopped, seen, skipped>>

WakeWorker(w) ==
    /\ work[w] # "R"
    /\ work' = [work EXCEPT ![w] = "R"]
    /\ UNCHANGED <<jiffies, load, rqUpdate, rqActive, stopped, seen, skipped>>

LoadNext ==
    \/ Tick
    \/ \E n \in Jumps : IdleInterrupt(n)
    \/ EnterIdle \/ ExitIdle
    \/ \E w \in Workers : WakeWorker(w) \/ \E s \in {"S", "D"} : Block(w, s)

LoadSpec == LoadInit /\ [][LoadNext]_loadVars

-----------------------------------------------------------------------------
(* Properties *)

Folds == load'.update # load.update
Sample == IF jiffies < load.update THEN NrActive ELSE seen

\* What is folded into the average is what was active when the window opened,
\* whether the processor ticked, slept or woke then and whatever it did until
\* the fold; only a window that the tick left out is excepted.
SampleIsTheWindows ==
    [][Folds /\ ~skipped => load'.tasks = Sample]_loadVars

\* n windows folded one at a time, as a processor with a tick does it.
InTurn(avg, active, n) ==
    LET after[i \in 0 .. n] == IF i = 0 THEN avg ELSE Decayed(after[i - 1], EXP_1, active)
    IN after[n]

Distance(a, b) == IF a < b THEN b - a ELSE a - b

\* What the rounding may come to, of FIXED_1 to a task: a multiplication that
\* rounds to the nearest stops up to 6 units away from where it tends to, and the
\* power is less than 3 of FIXED_1 off, which weighs as the average is away from
\* the active tasks.
Rounding(avg, active) == 7 + (3 * Distance(avg, active)) \div FIXED_1

\* However long the processor slept, a fold takes every window that is due once,
\* and no other, and the average it makes is the one that folding them in turn
\* makes, up to the rounding of fixed_power_int and of the folds themselves.
CatchUpIsClose ==
    [][Folds =>
        LET due    == 1 + (jiffies' - load.update - WindowTicks) \div LOAD_FREQ
            active == Active(load'.tasks)
        IN /\ load'.update = load.update + due * LOAD_FREQ
           /\ Distance(load'.avenrun, InTurn(load.avenrun, active, due))
                <= Rounding(load.avenrun, active)]_loadVars

=============================================================================
