------------------------- MODULE KernelPartsProofs --------------------------
(***************************************************************************)
(* Theorems about the parts of core.c that KernelParts has side by side:   *)
(* the tree of task groups and the calls on it, completions, the load      *)
(* average and the account of time.                                        *)
(***************************************************************************)
EXTENDS KernelParts, RunListProofs

-----------------------------------------------------------------------------
(* Admission: the sysctls *)

Sane(b) ==
    /\ b \in Bandwidths
    /\ b.period > 0
    /\ b.runtime # RUNTIME_INF => b.runtime <= b.period

\* While sched_rt_handler tests a new pair of values, the old pair is the one
\* groups start from, and it is there to be put back.
SysInv ==
    /\ global \in Bandwidths
    /\ saved = None => def = global /\ Sane(global)
    /\ saved # None => def = saved /\ Sane(saved)

LEMMA SysInit == Init => SysInv
  BY AdmissionAssumption DEF Init, SysInv, Sane, Bandwidths, Bw

\* A write by the handler itself.
LEMMA SysctlWriteStep ==
  ASSUME SysInv, NEW new \in Bandwidths, SysctlWrite(new)
  PROVE  SysInv'
  <1>1. saved = None /\ saved' = global /\ global' = new /\ def' = def
    BY DEF SysctlWrite
  <1>2. def = global /\ Sane(global)
    BY <1>1 DEF SysInv
  <1>3. saved' # None
    BY <1>1, <1>2, NoneAssumption DEF Sane, Bandwidths
  <1> QED BY <1>1, <1>2, <1>3 DEF SysInv, Sane

LEMMA SysctlCheckStep == ASSUME SysInv, SysctlCheck PROVE SysInv'
  <1>1. /\ saved # None /\ saved' = None
        /\ global' = IF SysctlAllowed THEN global ELSE saved
        /\ def' = IF SysctlAllowed THEN global ELSE def
    BY DEF SysctlCheck, Restored
  <1>2. def = saved /\ Sane(saved) /\ global \in Bandwidths
    BY <1>1 DEF SysInv
  <1>3. CASE SysctlAllowed
    BY <1>1, <1>2, <1>3 DEF SysctlAllowed, SysInv, Sane
  <1>4. CASE ~SysctlAllowed
    BY <1>1, <1>2, <1>4 DEF SysInv, Sane
  <1> QED BY <1>3, <1>4

\* Nothing else touches the sysctls.
LEMMA SysQuiet == ASSUME SysInv, UNCHANGED sysVars PROVE SysInv'
  BY DEF SysInv, Sane, sysVars

LEMMA SysctlsWritten ==
  ASSUME SysInv, NEW r \in SysRuntimes \cup SysPeriods, NEW new,
         \/ r \in SysRuntimes /\ new = [global EXCEPT !.runtime = r]
         \/ r \in SysPeriods /\ new = [global EXCEPT !.period = r]
  PROVE  new \in Bandwidths
  BY AdmissionAssumption DEF SysInv, Bandwidths

LEMMA SysStep == SysInv /\ [Next]_vars => SysInv'
  <1> SUFFICES ASSUME SysInv, [Next]_vars PROVE SysInv'
    OBVIOUS
  <1>1. ASSUME NEW r \in SysRuntimes, SysctlWrite([global EXCEPT !.runtime = r])
        PROVE  SysInv'
    BY <1>1, SysctlsWritten, SysctlWriteStep
  <1>2. ASSUME NEW p \in SysPeriods, SysctlWrite([global EXCEPT !.period = p])
        PROVE  SysInv'
    BY <1>2, SysctlsWritten, SysctlWriteStep
  <1>3. CASE SysctlCheck
    BY <1>3, SysctlCheckStep
  <1>4. CASE \E w \in Writers :
               \/ SetBandwidth(w)
               \/ \E g \in Groups :
                     \/ \E r \in Runtimes : SetRtRuntime(w, g, r)
                     \/ \E p \in Periods : SetRtPeriod(w, g, p)
    <2>1. UNCHANGED sysVars
      BY <1>4 DEF SetBandwidth, SetRtRuntime, SetRtPeriod
    <2> QED BY <2>1, SysQuiet
  <1>5. CASE \/ Attach
             \/ \E g \in Groups :
                   \/ \E p \in Groups : CreateGroup(g, p)
                   \/ DestroyGroup(g) \/ FreeGroup(g)
                   \/ \E t \in Tasks : CanAttach(t, g)
    <2>1. UNCHANGED sysVars
      BY <1>5 DEF Attach, CreateGroup, DestroyGroup, FreeGroup, CanAttach
    <2> QED BY <2>1, SysQuiet
  <1>6. CASE \/ \E c \in Callers : StoreScheduler(c)
             \/ \E t \in Tasks :
                   \/ Exit(t) \/ Fork(t)
                   \/ \E policy \in Policies, prio \in Prios :
                         \/ KernelSets(t, policy, prio)
                         \/ \E c \in Callers, reset \in BOOLEAN :
                               AskScheduler(c, t, policy, prio, reset)
                   \/ \E c \in Callers, prio \in Prios : AskParam(c, t, prio)
    <2>1. ASSUME NEW c \in Callers, StoreScheduler(c) PROVE UNCHANGED sysVars
      BY <2>1, Zenon DEF StoreScheduler
    <2>2. ASSUME NEW t \in Tasks, Exit(t) \/ Fork(t) PROVE UNCHANGED sysVars
      BY <2>2, Zenon DEF Exit, Fork
    <2>3. ASSUME NEW t \in Tasks, NEW policy, NEW prio,
                 \/ KernelSets(t, policy, prio)
                 \/ \E c \in Callers, reset \in BOOLEAN : AskScheduler(c, t, policy, prio, reset)
          PROVE  UNCHANGED sysVars
      BY <2>3, Zenon DEF KernelSets, AskScheduler
    <2>4. ASSUME NEW t \in Tasks, NEW c, NEW prio, AskParam(c, t, prio)
          PROVE  UNCHANGED sysVars
      BY <2>4, Zenon DEF AskParam
    <2>5. UNCHANGED sysVars
      BY <1>6, <2>1, <2>2, <2>3, <2>4
    <2> QED BY <2>5, SysQuiet
  <1>7. CASE UNCHANGED vars
    <2>1. UNCHANGED sysVars
      BY <1>7 DEF vars, sysVars
    <2> QED BY <2>1, SysQuiet
  <1> QED BY <1>1, <1>2, <1>3, <1>4, <1>5, <1>6, <1>7 DEF Next

\* For any groups, tasks, callers and writers: between two writes to the sysctls
\* of the real-time bandwidth, refused ones included, new groups start from the
\* sysctls, and the run time fits into the period.
THEOREM SysctlsTheorem == Spec => []SysctlsSettled
  <1>1. SysInv => SysctlsSettled
    BY DEF SysInv, SysctlsSettled, Sane
  <1> QED BY <1>1, SysInit, SysStep, PTL DEF Spec

-----------------------------------------------------------------------------
(* Types: groups that tasks, children, writers and moves point to are there  *)

TaskRecords == [policy : AllPolicies, prio : Nat, reset : BOOLEAN, group : Live, alive : BOOLEAN]

TreeTypes ==
    /\ parent \in [Groups -> Groups \cup {None}] /\ parent[Root] = None
    /\ \A g \in Live \ {Root} : parent[g] \in Live
    /\ dying \subseteq Groups \ Live
    /\ bw \in [Groups -> Bandwidths]
    /\ write \in [Writers -> [group : Live, bw : Bandwidths] \cup {None}]
    /\ moving \in (Tasks \X Live) \cup {None}

\* A task that has exited is in the root group, so that its group may go.
TaskTypes ==
    /\ task \in [Tasks -> TaskRecords]
    /\ \A t \in Tasks : ~task[t].alive => task[t].group = Root

CallTypes == call \in [Callers -> Requests \cup {None}]

TypeInv == TreeTypes /\ TaskTypes /\ CallTypes

LEMMA TypeInit == Init => TypeInv
  <1> SUFFICES ASSUME Init PROVE TypeInv
    OBVIOUS
  <1>1. Live = {Root}
    BY DEF Init, Live
  <1>2. TreeTypes
    <2>1. \A r \in {0, BootRuntime} : Bw(BootPeriod, r) \in Bandwidths
      BY AdmissionAssumption DEF Bw, Bandwidths
    <2> QED BY <1>1, <2>1, AdmissionAssumption DEF Init, TreeTypes
  <1>3. TaskTypes
    BY <1>1 DEF Init, TaskTypes, TaskRecords, Fresh, AllPolicies
  <1> QED BY <1>2, <1>3 DEF Init, TypeInv, CallTypes

\* The requests that the two calls make.
LEMMA RequestTypes ==
    ASSUME TaskTypes, NEW t \in Tasks, NEW c, NEW prio \in Nat
    PROVE  ParamRequest(c, t, prio) \in Requests \cup {None}
  <1>1. task[t].policy \in AllPolicies /\ task[t].reset \in BOOLEAN
    BY DEF TaskTypes, TaskRecords
  <1> QED BY <1>1 DEF ParamRequest, Request, Requests

\* Steps that leave the tree alone.
LEMMA TreeKept ==
    ASSUME TreeTypes, UNCHANGED groupVars, moving' \in {moving, None}
    PROVE  TreeTypes' /\ Live' = Live
  BY DEF TreeTypes, groupVars, Live

LEMMA TasksKept ==
    ASSUME TaskTypes, task' = task, Live \subseteq Live'
    PROVE  TaskTypes'
  BY DEF TaskTypes, TaskRecords

\* The files of a group.
LEMMA WriterTypes ==
    ASSUME TypeInv, NEW w \in Writers,
           \/ SetBandwidth(w)
           \/ \E g \in Groups : \/ \E r \in Runtimes : SetRtRuntime(w, g, r)
                                \/ \E p \in Periods : SetRtPeriod(w, g, p)
    PROVE  TypeInv'
  <1>1. /\ write \in [Writers -> [group : Live, bw : Bandwidths] \cup {None}]
        /\ bw \in [Groups -> Bandwidths] /\ Live \subseteq Groups
    BY AdmissionAssumption DEF TypeInv, TreeTypes, Live
  <1>2. UNCHANGED <<parent, dying, task, call, moving>>
    BY DEF SetBandwidth, SetRtRuntime, SetRtPeriod
  <1>3. Live' = Live
    BY <1>2 DEF Live
  <1>4. /\ bw' \in [Groups -> Bandwidths]
        /\ write' \in [Writers -> [group : Live, bw : Bandwidths] \cup {None}]
    <2>1. CASE SetBandwidth(w)
      <3>1. /\ write[w] # None /\ write' = [write EXCEPT ![w] = None]
            /\ \/ bw' = [bw EXCEPT ![write[w].group] = write[w].bw]
               \/ bw' = bw
        BY <2>1 DEF SetBandwidth
      <3>2. write[w].group \in Groups /\ write[w].bw \in Bandwidths
        BY <1>1, <3>1
      <3>3. bw' \in [Groups -> Bandwidths]
        BY <1>1, <3>1, <3>2
      <3>4. write' \in [Writers -> [group : Live, bw : Bandwidths] \cup {None}]
        BY <1>1, <3>1
      <3> QED BY <3>3, <3>4
    <2>2. ASSUME NEW g \in Groups, NEW r \in Runtimes, SetRtRuntime(w, g, r)
          PROVE  /\ bw' \in [Groups -> Bandwidths]
                 /\ write' \in [Writers -> [group : Live, bw : Bandwidths] \cup {None}]
      <3>1. /\ g \in Live /\ bw' = bw
            /\ write' = [write EXCEPT ![w] = [group |-> g, bw |-> Bw(bw[g].period, r)]]
        BY <2>2 DEF SetRtRuntime
      <3>2. Bw(bw[g].period, r) \in Bandwidths
        BY <1>1, AdmissionAssumption DEF Bw, Bandwidths
      <3> QED BY <1>1, <3>1, <3>2
    <2>3. ASSUME NEW g \in Groups, NEW p \in Periods, SetRtPeriod(w, g, p)
          PROVE  /\ bw' \in [Groups -> Bandwidths]
                 /\ write' \in [Writers -> [group : Live, bw : Bandwidths] \cup {None}]
      <3>1. /\ g \in Live /\ bw' = bw
            /\ write' = [write EXCEPT ![w] = [group |-> g, bw |-> Bw(p, bw[g].runtime)]]
        BY <2>3 DEF SetRtPeriod
      <3>2. Bw(p, bw[g].runtime) \in Bandwidths
        BY <1>1, AdmissionAssumption DEF Bw, Bandwidths
      <3> QED BY <1>1, <3>1, <3>2
    <2> QED BY <2>1, <2>2, <2>3
  <1>5. TreeTypes'
    BY <1>2, <1>3, <1>4 DEF TypeInv, TreeTypes
  <1> QED BY <1>2, <1>3, <1>5, TasksKept DEF TypeInv, CallTypes

\* Groups come and go: a group that goes has no task, no child and no writer.
LEMMA GroupTypes ==
    ASSUME TypeInv, SysInv, NEW g \in Groups,
           \/ \E p \in Groups : CreateGroup(g, p)
           \/ DestroyGroup(g) \/ FreeGroup(g)
           \/ \E t \in Tasks : CanAttach(t, g)
    PROVE  TypeInv'
  <1>1. /\ parent \in [Groups -> Groups \cup {None}] /\ parent[Root] = None
        /\ \A h \in Live \ {Root} : parent[h] \in Live
        /\ dying \subseteq Groups \ Live
        /\ bw \in [Groups -> Bandwidths]
        /\ write \in [Writers -> [group : Live, bw : Bandwidths] \cup {None}]
        /\ moving \in (Tasks \X Live) \cup {None}
        /\ Root \in Groups /\ None \notin Groups
    BY AdmissionAssumption DEF TypeInv, TreeTypes
  <1>2. UNCHANGED <<task, call>>
    BY DEF CreateGroup, DestroyGroup, FreeGroup, CanAttach
  <1>3. \A h \in Groups : h \in Live <=> h = Root \/ parent[h] # None
    BY DEF Live
  <1>4. \A h \in Groups : h \in Live' <=> h = Root \/ parent'[h] # None
    BY DEF Live
  <1>5. Live \subseteq Groups /\ Live' \subseteq Groups
    BY <1>1 DEF Live
  <1>6. ASSUME NEW p \in Groups, CreateGroup(g, p) PROVE TypeInv'
    <2>1. /\ g \notin Live /\ g \notin dying /\ p \in Live
          /\ parent' = [parent EXCEPT ![g] = p] /\ bw' = [bw EXCEPT ![g] = Bw(def.period, 0)]
          /\ UNCHANGED <<dying, write, moving>>
      BY <1>6 DEF CreateGroup
    <2>2. g # Root /\ p # None /\ \A h \in Groups \ {g} : parent'[h] = parent[h]
      BY <1>1, <1>3, <2>1
    <2>3. Live' = Live \cup {g} /\ parent'[g] = p
      BY <1>1, <1>3, <1>4, <1>5, <2>1, <2>2
    <2>4. Bw(def.period, 0) \in Bandwidths
      BY DEF SysInv, Sane, Bandwidths, Bw
    <2>5. parent' \in [Groups -> Groups \cup {None}] /\ bw' \in [Groups -> Bandwidths]
      BY <1>1, <2>1, <2>4
    <2>6. \A h \in Live' \ {Root} : parent'[h] \in Live'
      BY <1>1, <1>5, <2>1, <2>2, <2>3
    <2>7. dying' \subseteq Groups \ Live' /\ parent'[Root] = None
      BY <1>1, <2>1, <2>2, <2>3
    <2>8. TreeTypes'
      BY <1>1, <2>1, <2>3, <2>5, <2>6, <2>7 DEF TreeTypes
    <2> QED BY <1>2, <2>3, <2>8, TasksKept DEF TypeInv, CallTypes
  <1>7. CASE DestroyGroup(g)
    <2>1. /\ moving = None /\ g \in Live \ {Root} /\ Children[g] = {}
          /\ \A t \in Tasks : task[t].alive => task[t].group # g
          /\ \A w \in Writers : write[w] # None => write[w].group # g
          /\ parent' = [parent EXCEPT ![g] = None] /\ dying' = dying \cup {g}
          /\ UNCHANGED <<bw, write, moving>>
      BY <1>7 DEF DestroyGroup
    <2>2. Live' = Live \ {g} /\ \A h \in Groups \ {g} : parent'[h] = parent[h]
      BY <1>1, <1>3, <1>4, <1>5, <2>1
    <2>3. \A h \in Live \ {Root} : parent[h] # g
      BY <1>5, <2>1 DEF Children
    <2>4. parent' \in [Groups -> Groups \cup {None}] /\ parent'[Root] = None
      BY <1>1, <2>1
    <2>5. \A h \in Live' \ {Root} : parent'[h] \in Live'
      BY <1>1, <1>5, <2>2, <2>3
    <2>6. write' \in [Writers -> [group : Live', bw : Bandwidths] \cup {None}]
      <3>1. ASSUME NEW w \in Writers PROVE write[w] \in [group : Live', bw : Bandwidths] \cup {None}
        <4>1. CASE write[w] = None
          BY <4>1
        <4>2. CASE write[w] # None
          <5>1. write[w] \in [group : Live, bw : Bandwidths] /\ write[w].group \in Live \ {g}
            BY <1>1, <2>1, <4>2
          <5> QED BY <2>2, <5>1
        <4> QED BY <4>1, <4>2
      <3> QED BY <1>1, <2>1, <3>1
    <2>7. dying' \subseteq Groups \ Live'
      BY <1>1, <2>1, <2>2
    <2>8. TreeTypes'
      BY <1>1, <2>1, <2>4, <2>5, <2>6, <2>7 DEF TreeTypes
    <2>9. TaskTypes'
      <3>1. \A t \in Tasks : task[t] \in TaskRecords /\ (~task[t].alive => task[t].group = Root)
        BY DEF TypeInv, TaskTypes
      <3>2. \A t \in Tasks : task[t].group \in Live'
        BY <2>1, <2>2, <3>1 DEF TaskRecords
      <3>3. \A t \in Tasks : task[t] \in TaskRecords'
        BY <3>1, <3>2 DEF TaskRecords
      <3>4. task \in [Tasks -> TaskRecords]
        BY DEF TypeInv, TaskTypes
      <3>5. task' \in [Tasks -> TaskRecords']
        BY <1>2, <3>3, <3>4
      <3> QED BY <1>2, <3>1, <3>5 DEF TaskTypes
    <2> QED BY <1>2, <2>8, <2>9 DEF TypeInv, CallTypes
  <1>8. CASE FreeGroup(g)
    <2>1. /\ dying' = dying \ {g} /\ bw' = [bw EXCEPT ![g] = Bw(BootPeriod, 0)]
          /\ UNCHANGED <<parent, write, moving>>
      BY <1>8 DEF FreeGroup
    <2>2. Bw(BootPeriod, 0) \in Bandwidths
      BY AdmissionAssumption DEF Bw, Bandwidths
    <2>3. bw' \in [Groups -> Bandwidths]
      BY <1>1, <2>1, <2>2
    <2>4. Live' = Live
      BY <2>1 DEF Live
    <2>5. TreeTypes'
      BY <1>1, <2>1, <2>3, <2>4 DEF TreeTypes
    <2> QED BY <1>2, <2>4, <2>5, TasksKept DEF TypeInv, CallTypes
  <1>9. ASSUME NEW t \in Tasks, CanAttach(t, g) PROVE TypeInv'
    <2>1. g \in Live /\ moving' = <<t, g>> /\ UNCHANGED <<parent, dying, bw, write>>
      BY <1>9 DEF CanAttach, groupVars
    <2>2. Live' = Live
      BY <2>1 DEF Live
    <2>3. TreeTypes'
      BY <1>1, <2>1, <2>2 DEF TreeTypes
    <2> QED BY <1>2, <2>2, <2>3, TasksKept DEF TypeInv, CallTypes
  <1> QED BY <1>6, <1>7, <1>8, <1>9

\* What happens to a task, and the calls that ask.
LEMMA TaskStepTypes ==
    ASSUME TypeInv, NEW t \in Tasks,
           \/ Attach \/ Exit(t) \/ Fork(t)
           \/ \E policy \in Policies, prio \in Prios :
                 \/ KernelSets(t, policy, prio)
                 \/ \E c \in Callers, reset \in BOOLEAN : AskScheduler(c, t, policy, prio, reset)
           \/ \E c \in Callers, prio \in Prios : AskParam(c, t, prio)
    PROVE  TypeInv'
  <1>1. /\ task \in [Tasks -> TaskRecords]
        /\ \A r \in Tasks : ~task[r].alive => task[r].group = Root
        /\ call \in [Callers -> Requests \cup {None}]
        /\ Root \in Live /\ moving \in (Tasks \X Live) \cup {None}
        /\ Policies \subseteq AllPolicies /\ Prios \subseteq Nat
    BY AdmissionAssumption DEF TypeInv, TaskTypes, CallTypes, TreeTypes, Live
  <1>2. UNCHANGED groupVars /\ moving' \in {moving, None}
    BY DEF Attach, Exit, Fork, KernelSets, AskScheduler, AskParam
  <1>3. TreeTypes' /\ Live' = Live
    BY <1>2, TreeKept DEF TypeInv
  <1>4. CASE Attach \/ Exit(t) \/ Fork(t) \/ \E policy \in Policies, prio \in Prios :
                                                KernelSets(t, policy, prio)
    <2>1. call' = call
      BY <1>4 DEF Attach, Exit, Fork, KernelSets
    <2>2. /\ task' \in [Tasks -> TaskRecords]
          /\ \A r \in Tasks : ~task'[r].alive => task'[r].group = Root
      <3>1. CASE Attach
        <4>1. /\ moving # None
              /\ \/ task' = task
                 \/ task[moving[1]].alive /\ task' = [task EXCEPT ![moving[1]].group = moving[2]]
          BY <3>1 DEF Attach
        <4>2. moving[1] \in Tasks /\ moving[2] \in Live
          BY <1>1, <4>1
        <4> QED BY <1>1, <4>1, <4>2 DEF TaskRecords
      <3>2. CASE Exit(t)
        BY <1>1, <3>2 DEF Exit, TaskRecords
      <3>3. CASE Fork(t)
        BY <1>1, <3>3 DEF Fork, Fresh, TaskRecords, AllPolicies
      <3>4. ASSUME NEW policy \in Policies, NEW prio \in Prios, KernelSets(t, policy, prio)
            PROVE  /\ task' \in [Tasks -> TaskRecords]
                   /\ \A r \in Tasks : ~task'[r].alive => task'[r].group = Root
        <4>1. /\ policy \in AllPolicies /\ prio \in Nat
              /\ task' = [task EXCEPT ![t].policy = policy, ![t].prio = prio, ![t].reset = FALSE]
          BY <1>1, <3>4 DEF KernelSets
        <4> DEFINE r == [task[t] EXCEPT !.policy = policy, !.prio = prio, !.reset = FALSE]
        <4>2. r \in TaskRecords /\ r.alive = task[t].alive /\ r.group = task[t].group
          BY <1>1, <4>1 DEF TaskRecords
        <4>3. task' = [task EXCEPT ![t] = r]
          BY <4>1
        <4> HIDE DEF r
        <4> QED BY <1>1, <4>2, <4>3
      <3> QED BY <1>4, <3>1, <3>2, <3>3, <3>4
    <2>3. TaskTypes'
      BY <1>3, <2>2 DEF TaskTypes, TaskRecords
    <2> QED BY <1>1, <1>3, <2>1, <2>3 DEF TypeInv, CallTypes
  <1>5. ASSUME NEW c \in Callers, NEW policy \in Policies, NEW prio \in Prios, NEW reset \in BOOLEAN,
               AskScheduler(c, t, policy, prio, reset) \/ AskParam(c, t, prio)
        PROVE  TypeInv'
    <2>1. task' = task
      BY <1>5 DEF AskScheduler, AskParam
    <2>2. Request(t, policy, policy, prio, reset) \in Requests
      BY <1>1 DEF Request, Requests
    <2>3. ParamRequest(c, t, prio) \in Requests \cup {None}
      BY <1>1, RequestTypes DEF TypeInv
    <2>4. \/ call' = [call EXCEPT ![c] = Request(t, policy, policy, prio, reset)]
          \/ call' = [call EXCEPT ![c] = ParamRequest(c, t, prio)]
      BY <1>5 DEF AskScheduler, AskParam
    <2>5. CallTypes'
      BY <1>1, <2>2, <2>3, <2>4 DEF CallTypes
    <2> QED BY <1>3, <2>1, <2>5, TasksKept DEF TypeInv
  <1>6. ASSUME NEW c \in Callers, NEW prio \in Prios, AskParam(c, t, prio) PROVE TypeInv'
    <2>1. task' = task /\ call' = [call EXCEPT ![c] = ParamRequest(c, t, prio)]
      BY <1>6 DEF AskParam
    <2>2. ParamRequest(c, t, prio) \in Requests \cup {None}
      BY <1>1, RequestTypes DEF TypeInv
    <2>3. CallTypes'
      BY <1>1, <2>1, <2>2 DEF CallTypes
    <2> QED BY <1>3, <2>1, <2>3, TasksKept DEF TypeInv
  <1> QED BY <1>4, <1>5, <1>6

\* sched_setscheduler and sched_setparam under the lock: what they store is what
\* they asked with, and a policy that was read and not asked for is still there.
LEMMA StoreStep ==
    ASSUME TypeInv, NEW c \in Callers, StoreScheduler(c)
    PROVE  /\ TypeInv'
           /\ call[c].asked = None => \A t \in Tasks : task'[t].policy = task[t].policy
  <1> DEFINE r == call[c]
             refused == NothingNew(r.task, r.policy, r.prio) \/ NoRuntime(r.task, r.policy)
             again == ~refused /\ Outdated(r)
  <1>1. /\ task \in [Tasks -> TaskRecords]
        /\ \A u \in Tasks : ~task[u].alive => task[u].group = Root
        /\ call \in [Callers -> Requests \cup {None}]
    BY DEF TypeInv, TaskTypes, CallTypes
  <1>2. /\ r # None /\ UNCHANGED groupVars /\ moving' = moving
        /\ call' = [call EXCEPT ![c] = IF again THEN ParamRequest(c, r.task, r.prio) ELSE None]
        /\ task' = IF refused \/ again THEN task
                   ELSE [task EXCEPT ![r.task].policy = r.policy, ![r.task].prio = r.prio,
                                     ![r.task].reset = r.reset]
    BY Zenon DEF StoreScheduler
  <1>3. /\ r.task \in Tasks /\ r.policy \in AllPolicies /\ r.prio \in Nat /\ r.reset \in BOOLEAN
    BY <1>1, <1>2 DEF Requests
  <1>4. ParamRequest(c, r.task, r.prio) \in Requests \cup {None}
    BY <1>3, RequestTypes DEF TypeInv
  <1> HIDE DEF refused
  <1>5. CallTypes'
    BY <1>1, <1>2, <1>4 DEF CallTypes
  <1>6. TreeTypes' /\ Live' = Live
    BY <1>2, TreeKept DEF TypeInv
  <1>7. CASE task' = task
    BY <1>5, <1>6, <1>7, TasksKept DEF TypeInv
  <1>8. CASE task' # task
    <2>1. /\ ~Outdated(r)
          /\ task' = [task EXCEPT ![r.task].policy = r.policy, ![r.task].prio = r.prio,
                                  ![r.task].reset = r.reset]
      BY <1>2, <1>8
    <2>2. r.asked = None => r.policy = task[r.task].policy
      BY <2>1 DEF Outdated
    <2>3. /\ task' \in [Tasks -> TaskRecords]
          /\ \A u \in Tasks : ~task'[u].alive => task'[u].group = Root
      BY <1>1, <1>3, <2>1 DEF TaskRecords
    <2>4. TaskTypes'
      BY <1>6, <2>3 DEF TaskTypes, TaskRecords
    <2>5. r.asked = None => \A t \in Tasks : task'[t].policy = task[t].policy
      BY <1>1, <1>3, <2>1, <2>2 DEF TaskRecords
    <2> QED BY <1>5, <1>6, <2>4, <2>5 DEF TypeInv
  <1> QED BY <1>7, <1>8

LEMMA TypeStep == TypeInv /\ SysInv /\ [Next]_vars => TypeInv'
  <1> SUFFICES ASSUME TypeInv, SysInv, [Next]_vars PROVE TypeInv'
    OBVIOUS
  <1>1. CASE UNCHANGED vars
    BY <1>1 DEF vars, TypeInv, TreeTypes, TaskTypes, CallTypes, TaskRecords, Live
  <1>2. ASSUME NEW new, SysctlWrite(new) \/ SysctlCheck PROVE TypeInv'
    <2>1. UNCHANGED groupVars /\ UNCHANGED <<task, call, moving>>
      BY <1>2 DEF SysctlWrite, SysctlCheck
    <2> QED BY <2>1, TreeKept, TasksKept DEF TypeInv, CallTypes
  <1>3. CASE Attach
    <2>1. moving # None
      BY <1>3 DEF Attach
    <2>2. moving[1] \in Tasks
      BY <2>1 DEF TypeInv, TreeTypes
    <2> QED BY <1>3, <2>2, TaskStepTypes
  <1>4. ASSUME NEW t \in Tasks,
               \/ Exit(t) \/ Fork(t)
               \/ \E policy \in Policies, prio \in Prios :
                     \/ KernelSets(t, policy, prio)
                     \/ \E c \in Callers, reset \in BOOLEAN :
                           AskScheduler(c, t, policy, prio, reset)
               \/ \E c \in Callers, prio \in Prios : AskParam(c, t, prio)
        PROVE  TypeInv'
    BY <1>4, TaskStepTypes
  <1> QED BY <1>1, <1>2, <1>3, <1>4, WriterTypes, GroupTypes, StoreStep DEF Next

\* Every variable keeps its type: above all, no task, no child group, no write
\* under way and no move under way is left with a group that is gone, whatever
\* is created, destroyed, moved, forked and exits in between.
THEOREM TypeCorrect == Spec => []TypeOK
  <1>1. TypeInv /\ SysInv => TypeOK
    <2> SUFFICES ASSUME TypeInv, SysInv PROVE TypeOK
      OBVIOUS
    <2>1. global \in Bandwidths /\ def \in Bandwidths /\ saved \in Bandwidths \cup {None}
      BY DEF SysInv, Sane
    <2> QED BY <2>1 DEF TypeInv, TreeTypes, TaskTypes, TaskRecords, CallTypes, TypeOK
  <1> QED BY <1>1, TypeInit, TypeStep, SysInit, SysStep, PTL DEF Spec

\* sched_setparam never changes a policy, although it reads the policy of the
\* task before it takes the lock and stores it after: whoever sets another
\* policy in between, the test under the lock finds it.
THEOREM SetParamTheorem == Spec => SetParamKeepsPolicy
  <1> DEFINE KeepsPolicy ==
        \A c \in Callers : StoreScheduler(c) /\ call[c].asked = None =>
           \A t \in Tasks : task'[t].policy = task[t].policy
  <1>1. TypeInv /\ SysInv /\ [Next]_vars => [KeepsPolicy]_vars
    BY StoreStep
  <1>2. Spec => [][KeepsPolicy]_vars
    BY <1>1, TypeInit, TypeStep, SysInit, SysStep, PTL DEF Spec
  <1> QED BY <1>2 DEF SetParamKeepsPolicy

-----------------------------------------------------------------------------
(* Completion: no completion is lost *)

Waits == [Waiters -> [at : {"out", "sched", "back"}, mode : SleepStates,
                      left : {"ever", "some", "none"}]]

WaitTypes ==
    /\ done \in Nat
    /\ queue \in Seq(Waiters) /\ IsInjective(queue)
    /\ state \in [Waiters -> SleepStates \cup {"R"}]
    /\ wait \in Waits

\* The tasks inside a wait, and those of them that are awake.
Inside == {t \in Waiters : wait[t].at # "out"}
AwakeInside == {t \in Inside : state[t] = "R"}

\* Whoever is inside is in the queue, once; and all of them are awake or as many
\* as there is to take.
WaitInv ==
    /\ WaitTypes
    /\ Range(queue) = Inside
    /\ AwakeInside = Inside \/ Cardinality(AwakeInside) >= done

LEMMA SomeFinite ==
    ASSUME NEW S \in SUBSET Waiters
    PROVE  IsFiniteSet(S) /\ Cardinality(S) \in Nat
  <1>1. IsFiniteSet(S)
    BY CompletionAssumption, FS_Subset
  <1> QED BY <1>1, FS_CardinalityType

LEMMA LengthIsCardinality ==
    ASSUME NEW S, NEW s \in Seq(S), IsInjective(s), IsFiniteSet(S)
    PROVE  Cardinality(Range(s)) = Len(s) /\ IsFiniteSet(Range(s))
  <1>1. /\ Len(s) \in Nat /\ Range(s) = {s[i] : i \in 1 .. Len(s)} /\ Range(s) \subseteq S
        /\ \A i, j \in 1 .. Len(s) : s[i] = s[j] => i = j
    BY RangeProperties
  <1>2. IsFiniteSet(1 .. Len(s)) /\ Cardinality(1 .. Len(s)) = Len(s)
    <2>1. /\ IsFiniteSet(1 .. Len(s))
          /\ Cardinality(1 .. Len(s)) = IF 1 > Len(s) THEN 0 ELSE Len(s) - 1 + 1
      BY <1>1, FS_Interval
    <2> QED BY <1>1, <2>1
  <1> DEFINE f == [i \in 1 .. Len(s) |-> s[i]]
  <1>3. f \in Bijection(1 .. Len(s), Range(s))
    <2>1. f \in [1 .. Len(s) -> Range(s)]
      BY <1>1
    <2>2. \A i, j \in 1 .. Len(s) : f[i] = f[j] => i = j
      BY <1>1
    <2>3. \A x \in Range(s) : \E i \in 1 .. Len(s) : f[i] = x
      BY <1>1
    <2> QED BY <2>1, <2>2, <2>3 DEF Bijection, Injection, Surjection
  <1>4. ExistsBijection(1 .. Len(s), Range(s))
    BY <1>3 DEF ExistsBijection
  <1> QED BY <1>2, <1>4, FS_Bijection

\* The tasks that complete wakes: one that sleeps, if any does; and those that
\* complete_all wakes: all that sleep.
LEMMA WokenSleepers ==
    ASSUME WaitInv
    PROVE  /\ Woken(1) \subseteq Inside \ AwakeInside
           /\ AwakeInside # Inside => Woken(1) # {}
           /\ Woken(Len(queue)) = Inside \ AwakeInside
  <1> DEFINE Sleeps(i) == state[queue[i]] # "R"
             Before(j) == {h \in 1 .. j - 1 : Sleeps(h)}
  <1>1. /\ Len(queue) \in Nat
        /\ Inside = {queue[i] : i \in 1 .. Len(queue)}
    BY RangeProperties DEF WaitInv, WaitTypes
  <1>2. \A nr : Woken(nr) = {queue[i] : i \in {j \in 1 .. Len(queue) :
                                                  Sleeps(j) /\ Cardinality(Before(j)) < nr}}
    BY DEF Woken
  <1>3. Inside \ AwakeInside = {queue[i] : i \in {j \in 1 .. Len(queue) : Sleeps(j)}}
    BY <1>1 DEF AwakeInside
  <1>4. ASSUME NEW j \in 1 .. Len(queue)
        PROVE  Cardinality(Before(j)) \in Nat /\ Cardinality(Before(j)) < Len(queue)
    <2>1. IsFiniteSet(1 .. j - 1) /\ Cardinality(1 .. j - 1) = j - 1
      <3>1. j \in Nat /\ j >= 1
        BY <1>1
      <3>2. /\ IsFiniteSet(1 .. j - 1)
            /\ Cardinality(1 .. j - 1) = IF 1 > j - 1 THEN 0 ELSE j - 1 - 1 + 1
        BY <3>1, FS_Interval
      <3> QED BY <3>1, <3>2
    <2>2. Before(j) \in SUBSET (1 .. j - 1)
      OBVIOUS
    <2>3. Cardinality(Before(j)) <= j - 1 /\ IsFiniteSet(Before(j))
      BY <2>1, <2>2, FS_Subset
    <2>4. Cardinality(Before(j)) \in Nat
      BY <2>3, FS_CardinalityType
    <2> QED BY <1>1, <2>3, <2>4
  <1>5. Woken(Len(queue)) = Inside \ AwakeInside
    BY <1>2, <1>3, <1>4
  <1>6. Woken(1) \subseteq Inside \ AwakeInside
    BY <1>2, <1>3
  <1>7. ASSUME AwakeInside # Inside PROVE Woken(1) # {}
    <2> DEFINE P == {j \in 1 .. Len(queue) : Sleeps(j)}
    <2>1. P \in SUBSET Nat /\ P # {}
      <3>1. Inside \ AwakeInside # {}
        BY <1>7 DEF AwakeInside
      <3>2. P # {}
        BY <1>3, <3>1
      <3>3. P \in SUBSET Nat
        BY <1>1
      <3> QED BY <3>2, <3>3
    <2>2. PICK n \in P : \A j \in P : n <= j
      BY <2>1, LeastElement
    <2>3. Before(n) = {}
      BY <1>1, <2>2
    <2>4. Cardinality(Before(n)) = 0
      BY <2>3, FS_EmptySet
    <2>5. queue[n] \in Woken(1)
      <3>1. n \in {j \in 1 .. Len(queue) : Sleeps(j) /\ Cardinality(Before(j)) < 1}
        BY <2>2, <2>4
      <3> HIDE DEF Sleeps, Before
      <3> QED BY <1>2, <3>1
    <2> QED BY <2>5
  <1> QED BY <1>5, <1>6, <1>7

LEMMA WaitInitInv == WaitInit => WaitInv
  <1> SUFFICES ASSUME WaitInit PROVE WaitInv
    OBVIOUS
  <1> DEFINE none == <<>>
  <1>1. /\ done = 0 /\ queue = none
        /\ state = [t \in Waiters |-> "R"] /\ wait = [t \in Waiters |-> NotWaiting]
    BY DEF WaitInit
  <1>2. none \in Seq(Waiters) /\ Len(none) = 0
    OBVIOUS
  <1> HIDE DEF none
  <1>3. Range(none) = {} /\ IsInjective(none)
    <2>1. /\ Range(none) = {none[i] : i \in 1 .. Len(none)}
          /\ IsInjective(none) <=> \A i, j \in 1 .. Len(none) : none[i] = none[j] => i = j
      <3>1. none \in Seq(Waiters)
        BY <1>2
      <3> QED BY ONLY <3>1, RangeProperties
    <2>2. 1 .. Len(none) = {}
      BY <1>2
    <2> QED BY <2>1, <2>2
  <1>4. Inside = {} /\ AwakeInside = {}
    BY <1>1 DEF Inside, AwakeInside, NotWaiting
  <1>5. WaitTypes
    BY <1>1, <1>2, <1>3 DEF WaitTypes, NotWaiting, SleepStates, Waits
  <1> QED BY <1>1, <1>3, <1>4, <1>5 DEF WaitInv

\* The tasks of ts are awake now.
Woke(ts) == state' = [t \in Waiters |-> IF t \in ts THEN "R" ELSE state[t]]

\* Wake-ups of waiters that do not change who is inside: complete and complete_all,
\* signals and timeouts.
LEMMA WakeStep ==
    ASSUME WaitInv, NEW ts \in SUBSET Waiters,
           Woke(ts),
           queue' = queue, Inside' = Inside, done' \in Nat,
           wait' \in Waits,
           \/ done' <= done
           \/ done' = done + 1 /\ ts = Woken(1)
           \/ Inside \ AwakeInside \subseteq ts
    PROVE  WaitInv'
  <1>1. /\ state \in [Waiters -> SleepStates \cup {"R"}]
        /\ state' = [t \in Waiters |-> IF t \in ts THEN "R" ELSE state[t]]
    BY DEF WaitInv, WaitTypes, Woke
  <1>2. WaitTypes' /\ (Range(queue) = Inside)'
    BY <1>1 DEF WaitInv, WaitTypes
  <1>3. AwakeInside' = AwakeInside \cup (ts \cap Inside)
    BY <1>1 DEF AwakeInside, Inside
  <1>4. AwakeInside \subseteq Inside /\ (AwakeInside = Inside \/ Cardinality(AwakeInside) >= done)
    BY DEF AwakeInside, WaitInv
  <1>5. /\ IsFiniteSet(Inside) /\ IsFiniteSet(AwakeInside) /\ IsFiniteSet(AwakeInside')
        /\ Cardinality(AwakeInside) \in Nat /\ Cardinality(AwakeInside') \in Nat
        /\ Cardinality(AwakeInside) <= Cardinality(AwakeInside')
    <2>1. IsFiniteSet(Inside) /\ IsFiniteSet(AwakeInside) /\ Cardinality(AwakeInside) \in Nat
      BY SomeFinite DEF Inside, AwakeInside
    <2>2. AwakeInside' \in SUBSET Inside /\ AwakeInside \in SUBSET AwakeInside'
      BY <1>3, <1>4
    <2>3. IsFiniteSet(AwakeInside')
      BY <2>1, <2>2, FS_Subset
    <2>4. Cardinality(AwakeInside) <= Cardinality(AwakeInside')
      BY <2>2, <2>3, FS_Subset
    <2> QED BY <2>1, <2>3, <2>4, FS_CardinalityType
  <1>6. AwakeInside' = Inside \/ Cardinality(AwakeInside') >= done'
    <2>1. CASE AwakeInside = Inside
      BY <1>3, <1>4, <2>1
    <2>2. CASE AwakeInside # Inside /\ done' <= done
      BY <1>4, <1>5, <2>2 DEF WaitInv, WaitTypes
    <2>3. CASE AwakeInside # Inside /\ done' = done + 1 /\ ts = Woken(1)
      <3>1. PICK u \in ts : u \in Inside /\ u \notin AwakeInside
        BY <2>3, WokenSleepers
      <3>2. Cardinality(AwakeInside \cup {u}) = Cardinality(AwakeInside) + 1
        BY <1>5, <3>1, FS_AddElement
      <3>3. AwakeInside \cup {u} \in SUBSET AwakeInside'
        BY <1>3, <3>1
      <3>4. Cardinality(AwakeInside \cup {u}) <= Cardinality(AwakeInside')
        BY <1>5, <3>3, FS_Subset
      <3>5. Cardinality(AwakeInside) >= done /\ done \in Nat
        BY <1>4, <2>3 DEF WaitInv, WaitTypes
      <3> QED BY <1>5, <2>3, <3>2, <3>4, <3>5
    <2>4. CASE Inside \ AwakeInside \subseteq ts
      BY <1>3, <1>4, <2>4
    <2> QED BY <2>1, <2>2, <2>3, <2>4
  <1> QED BY <1>2, <1>6 DEF WaitInv

\* Nobody wakes up.
LEMMA NoWakeStep ==
    ASSUME WaitInv, state' = state, queue' = queue, Inside' = Inside, done' \in Nat, done' <= done,
           wait' \in Waits
    PROVE  WaitInv'
  <1>1. Woke({})
    BY DEF WaitInv, WaitTypes, Woke
  <1> QED BY <1>1, WakeStep

\* A task gives up or gets ready to sleep when there is nothing to take.
LEMMA TurnStep ==
    ASSUME WaitInv, done = 0, done' = 0, NEW t \in Waiters,
           NEW q \in Seq(Waiters), IsInjective(q), Range(q) = Inside \cup {t},
           NEW mode \in SleepStates, NEW left \in {"ever", "some"}, Turn(t, q, mode, left)
    PROVE  WaitInv'
  <1>1. /\ state \in [Waiters -> SleepStates \cup {"R"}]
        /\ wait \in Waits
    BY DEF WaitInv, WaitTypes
  <1>2. CASE SignalPendingState(mode, t)
    <2>1. /\ queue' = RemoveFirst(q, t) /\ state' = state
          /\ wait' = [wait EXCEPT ![t] = NotWaiting]
      BY <1>2 DEF Turn
    <2>2. queue' \in Seq(Waiters) /\ IsInjective(queue') /\ Range(queue') = Range(q) \ {t}
      BY <2>1, DelFromList
    <2>3. Inside' = Inside \ {t}
      BY <1>1, <2>1 DEF Inside, NotWaiting, Waits
    <2>4. WaitTypes'
      BY <1>1, <2>1, <2>2 DEF WaitTypes, NotWaiting, SleepStates, Waits
    <2>5. Cardinality(AwakeInside') >= 0
      <3>1. AwakeInside' \in SUBSET Waiters
        BY DEF AwakeInside, Inside
      <3>2. Cardinality(AwakeInside') \in Nat
        BY <3>1, SomeFinite
      <3> QED BY <3>2
    <2> QED BY <2>2, <2>3, <2>4, <2>5 DEF WaitInv
  <1>3. CASE ~SignalPendingState(mode, t)
    <2>1. /\ queue' = q /\ state' = [state EXCEPT ![t] = mode]
          /\ wait' = [wait EXCEPT ![t] = [at |-> "sched", mode |-> mode, left |-> left]]
      BY <1>3 DEF Turn, SetWait
    <2>2. Inside' = Inside \cup {t}
      BY <1>1, <2>1 DEF Inside, Waits
    <2>3. WaitTypes'
      BY <1>1, <2>1 DEF WaitTypes, Waits
    <2>4. Cardinality(AwakeInside') >= 0
      <3>1. AwakeInside' \in SUBSET Waiters
        BY DEF AwakeInside, Inside
      <3>2. Cardinality(AwakeInside') \in Nat
        BY <3>1, SomeFinite
      <3> QED BY <3>2
    <2> QED BY <2>1, <2>2, <2>3, <2>4 DEF WaitInv
  <1> QED BY <1>2, <1>3

LEMMA BackStep ==
    ASSUME WaitInv, NEW t \in Waiters, Back(t)
    PROVE  WaitInv'
  <1>1. /\ done \in Nat /\ queue \in Seq(Waiters) /\ IsInjective(queue)
        /\ state \in [Waiters -> SleepStates \cup {"R"}]
        /\ wait \in Waits
        /\ Range(queue) = Inside
        /\ AwakeInside = Inside \/ Cardinality(AwakeInside) >= done
    BY DEF WaitInv, WaitTypes
  <1>2. t \in Inside /\ t \in AwakeInside
    BY DEF Back, Inside, AwakeInside
  <1>3. CASE done = 0 /\ wait[t].left # "none"
    <2>1. Turn(t, queue, wait[t].mode, wait[t].left) /\ done' = 0
      BY <1>3 DEF Back
    <2>2. wait[t].mode \in SleepStates /\ wait[t].left \in {"ever", "some"}
      BY <1>1, <1>3 DEF Waits
    <2>3. Range(queue) = Inside \cup {t}
      BY <1>1, <1>2
    <2> QED BY <1>1, <1>3, <2>1, <2>2, <2>3, TurnStep
  <1>4. CASE ~(done = 0 /\ wait[t].left # "none")
    <2>1. /\ queue' = RemoveFirst(queue, t) /\ done' = (IF done > 0 THEN done - 1 ELSE 0)
          /\ wait' = [wait EXCEPT ![t] = NotWaiting] /\ state' = state
      BY <1>4 DEF Back
    <2>2. queue' \in Seq(Waiters) /\ IsInjective(queue') /\ Range(queue') = Inside \ {t}
      BY <1>1, <1>2, <2>1, DelFromList
    <2>3. Inside' = Inside \ {t} /\ AwakeInside' = AwakeInside \ {t}
      BY <1>1, <2>1 DEF Inside, AwakeInside, NotWaiting, Waits
    <2>4. done' \in Nat /\ (done' = 0 \/ done' = done - 1)
      BY <1>1, <2>1
    <2>5. WaitTypes'
      BY <1>1, <2>1, <2>2, <2>4 DEF WaitTypes, NotWaiting, SleepStates, Waits
    <2>6. AwakeInside' = Inside' \/ Cardinality(AwakeInside') >= done'
      <3>1. /\ IsFiniteSet(AwakeInside) /\ Cardinality(AwakeInside) \in Nat
            /\ Cardinality(AwakeInside') \in Nat
        BY SomeFinite DEF AwakeInside, Inside
      <3>2. Cardinality(AwakeInside') = Cardinality(AwakeInside) - 1
        BY <1>2, <2>3, <3>1, FS_RemoveElement
      <3> QED BY <1>1, <2>3, <2>4, <3>1, <3>2
    <2> QED BY <2>2, <2>3, <2>5, <2>6 DEF WaitInv
  <1> QED BY <1>3, <1>4

LEMMA WaitForStep ==
    ASSUME WaitInv, NEW t \in Waiters, NEW mode \in Modes, NEW left \in {"ever", "some"},
           WaitFor(t, mode, left)
    PROVE  WaitInv'
  <1>1. /\ done \in Nat /\ queue \in Seq(Waiters) /\ IsInjective(queue)
        /\ wait \in Waits
        /\ Range(queue) = Inside
    BY DEF WaitInv, WaitTypes
  <1>2. CASE done > 0
    <2>1. done' = done - 1 /\ queue' = queue /\ wait' = wait /\ state' = state
      BY <1>2 DEF WaitFor
    <2>2. Inside' = Inside /\ done' \in Nat /\ done' <= done
      BY <1>1, <1>2, <2>1 DEF Inside
    <2> QED BY <1>1, <2>1, <2>2, NoWakeStep
  <1>3. CASE ~(done > 0)
    <2>1. done = 0 /\ done' = 0 /\ Turn(t, Append(queue, t), mode, left)
      BY <1>1, <1>3 DEF WaitFor
    <2>2. t \notin Range(queue)
      BY <1>1 DEF WaitFor, Inside
    <2>3. /\ Append(queue, t) \in Seq(Waiters) /\ IsInjective(Append(queue, t))
          /\ Range(Append(queue, t)) = Inside \cup {t}
      BY <1>1, <2>2, AddTail
    <2>4. mode \in SleepStates
      BY CompletionAssumption
    <2> QED BY <2>1, <2>3, <2>4, TurnStep
  <1> QED BY <1>2, <1>3

LEMMA WaitStep == WaitInv /\ [WaitNext]_waitVars => WaitInv'
  <1> SUFFICES ASSUME WaitInv, [WaitNext]_waitVars PROVE WaitInv'
    OBVIOUS
  <1>1. /\ done \in Nat /\ queue \in Seq(Waiters) /\ wait \in Waits
        /\ state \in [Waiters -> SleepStates \cup {"R"}]
        /\ Range(queue) = Inside
    BY DEF WaitInv, WaitTypes
  <1>2. wait' = wait => Inside' = Inside
    BY DEF Inside
  <1>3. CASE UNCHANGED waitVars
    BY <1>1, <1>2, <1>3, NoWakeStep DEF waitVars
  <1>4. CASE Complete
    <2>1. Woken(1) \in SUBSET Waiters
      BY WokenSleepers DEF Inside
    <2>2. /\ Woke(Woken(1)) /\ done' = done + 1 /\ done' \in Nat /\ queue' = queue /\ wait' = wait
      BY <1>1, <1>4 DEF Complete, TryToWakeUp, Woke
    <2> QED BY <1>1, <1>2, <2>1, <2>2, WakeStep
  <1>5. CASE CompleteAll
    <2>1. Woken(Len(queue)) \in SUBSET Waiters /\ Inside \ AwakeInside \subseteq Woken(Len(queue))
      BY WokenSleepers DEF Inside
    <2>2. /\ Woke(Woken(Len(queue))) /\ done' \in Nat /\ queue' = queue /\ wait' = wait
      BY <1>1, <1>5, CompletionAssumption DEF CompleteAll, TryToWakeUp, Woke
    <2> QED BY <1>1, <1>2, <2>1, <2>2, WakeStep
  <1>6. CASE Reinit
    BY <1>1, <1>2, <1>6, NoWakeStep DEF Reinit
  <1>7. ASSUME NEW t \in Waiters, NEW s \in {"sig", "kill"}, Signal(t, s)
        PROVE  WaitInv'
    <2> DEFINE ts == {u \in {t} : state[u] = "S" \/ (state[u] = "K" /\ s = "kill")}
    <2>1. ts \in SUBSET Waiters
      OBVIOUS
    <2>2. done' = done /\ queue' = queue /\ wait' = wait
      BY <1>7 DEF Signal
    <2>3. Woke(ts)
      BY <1>7 DEF Signal, TryToWakeUp, Woke
    <2> HIDE DEF ts
    <2> QED BY <1>1, <1>2, <2>1, <2>2, <2>3, WakeStep
  <1>8. ASSUME NEW t \in Waiters, Expire(t) PROVE WaitInv'
    <2> DEFINE ts == {u \in {t} : state[u] # "R"}
    <2>1. /\ ts \in SUBSET Waiters /\ TryToWakeUp(ts) /\ done' = done /\ queue' = queue
          /\ wait' = [wait EXCEPT ![t].left = "none"]
      BY <1>8 DEF Expire
    <2> HIDE DEF ts
    <2>2. wait' \in Waits /\ Inside' = Inside
      BY <1>1, <2>1 DEF Inside, Waits
    <2>3. Woke(ts)
      BY <2>1 DEF TryToWakeUp, Woke
    <2> QED BY <1>1, <2>1, <2>2, <2>3, WakeStep DEF Waits
  <1>9. ASSUME NEW t \in Waiters, Schedule(t) PROVE WaitInv'
    <2>1. /\ done' = done /\ queue' = queue /\ wait' = [wait EXCEPT ![t].at = "back"]
          /\ wait[t].at = "sched"
      BY <1>9 DEF Schedule
    <2>2. wait' \in Waits /\ Inside' = Inside
      BY <1>1, <2>1 DEF Inside, Waits
    <2>3. CASE state' = state
      BY <1>1, <2>1, <2>2, <2>3, NoWakeStep
    <2>4. CASE state' = [state EXCEPT ![t] = "R"]
      <3>1. Woke({t})
        BY <1>1, <2>4 DEF Woke
      <3> QED BY <1>1, <2>1, <2>2, <3>1, WakeStep DEF Waits
    <2> QED BY <1>9, <2>3, <2>4 DEF Schedule
  <1>10. ASSUME NEW t \in Waiters, TryWait(t) \/ HandleSignal(t) PROVE WaitInv'
    <2>1. /\ done' \in Nat /\ done' <= done /\ queue' = queue /\ wait' = wait /\ state' = state
      BY <1>1, <1>10 DEF TryWait, HandleSignal
    <2> QED BY <1>1, <1>2, <2>1, NoWakeStep
  <1> QED BY <1>3, <1>4, <1>5, <1>6, <1>7, <1>8, <1>9, <1>10, BackStep, WaitForStep DEF WaitNext

LEMMA WaitInvIsEnough == WaitInv => NoLostCompletion
  <1> SUFFICES ASSUME WaitInv PROVE NoLostCompletion
    OBVIOUS
  <1>1. /\ done \in Nat /\ queue \in Seq(Waiters) /\ IsInjective(queue) /\ Range(queue) = Inside
        /\ AwakeInside = Inside \/ Cardinality(AwakeInside) >= done
    BY DEF WaitInv, WaitTypes
  <1>2. ToSet(queue) = Inside
    BY <1>1 DEF ToSet, Range
  <1>3. Cardinality(Inside) = Len(queue) /\ Len(queue) \in Nat
    BY <1>1, LengthIsCardinality, CompletionAssumption
  <1>4. Cardinality(AwakeInside) \in Nat
    BY SomeFinite DEF AwakeInside, Inside
  <1>5. {t \in ToSet(queue) : state[t] = "R"} = AwakeInside
    BY <1>2 DEF AwakeInside
  <1>6. Cardinality(AwakeInside) >= IF done < Len(queue) THEN done ELSE Len(queue)
    BY <1>1, <1>3, <1>4
  <1> QED BY <1>5, <1>6 DEF NoLostCompletion

\* For any tasks, modes and orders of complete, timeouts, signals and other takers:
\* as long as there is something to take, as many waiters are awake to take it.
THEOREM CompletionTheorem == WaitSpec => []NoLostCompletion
  <1> QED BY WaitInitInv, WaitStep, WaitInvIsEnough, PTL DEF WaitSpec

-----------------------------------------------------------------------------
(* Admission: the tree stays feasible *)

Ratio(b, c) == ToRatio(b[c].period, b[c].runtime)
Ratios(b) == [c \in Groups |-> Ratio(b, c)]

LEMMA SharesAreSum ==
    ASSUME NEW b, NEW S, IsFiniteSet(S), S \subseteq Groups
    PROVE  MapThenSumSet(LAMBDA c : ToRatio(b[c].period, b[c].runtime), S) = Sum(Ratios(b), S)
  <1> DEFINE f == Ratios(b)
             P(i) == i = [s \in SUBSET S |->
                             IF s = {} THEN 0
                             ELSE LET x == CHOOSE x \in s : TRUE
                                  IN ToRatio(b[x].period, b[x].runtime) + i[s \ {x}]]
             i == CHOOSE i : P(i)
  <1>1. \A k : P(k) <=> Iterates(k, f, S)
    <2> SUFFICES ASSUME NEW k PROVE P(k) <=> Iterates(k, f, S)
      OBVIOUS
    <2>1. \A s \in SUBSET S : s # {} => (CHOOSE x \in s : TRUE) \in S
      OBVIOUS
    <2>2. \A x \in S : f[x] = ToRatio(b[x].period, b[x].runtime)
      BY DEF Ratios, Ratio
    <2> HIDE DEF f
    <2> QED BY <2>1, <2>2 DEF Iterates
  <1>2. PICK j : Iterates(j, f, S) /\ Sum(f, S) = j[S]
    BY SumIterates
  <1>3. P(j)
    BY <1>1, <1>2
  <1>4. i = CHOOSE k : P(k)
    OBVIOUS
  <1>5. MapThenSumSet(LAMBDA c : ToRatio(b[c].period, b[c].runtime), S) = i[S]
    BY DEF MapThenSumSet, MapThenFoldSet, P, i
  <1> HIDE DEF P, i
  <1>6. P(i)
    BY <1>3, <1>4
  <1>7. Iterates(i, f, S)
    BY <1>1, <1>6
  <1> HIDE DEF f
  <1>8. i[S] = j[S]
    BY <1>2, <1>7, SumAgrees
  <1> QED BY <1>2, <1>5, <1>8 DEF f

\* The shares of the children of each group fit into its own.
Feasible(b) ==
    \A g \in Live :
        /\ b[g].runtime # RUNTIME_INF => b[g].runtime <= b[g].period
        /\ Sum(Ratios(b), Children[g]) <= Ratio(b, g)

\* Nobody ever stores, or is about to store, a period of 0, by which ToRatio
\* would divide.
TreeInv ==
    /\ \A g \in Groups : bw[g].period > 0
    /\ \A w \in Writers : write[w] # None => write[w].bw.period > 0
    /\ Feasible(bw)

LEMMA ChildrenFinite ==
    /\ IsFiniteSet(Groups) /\ Live \subseteq Groups
    /\ \A g \in Groups : Children[g] \subseteq Live /\ IsFiniteSet(Children[g])
  <1>1. IsFiniteSet(Groups) /\ Live \subseteq Groups
    BY AdmissionAssumption DEF Live
  <1>2. \A g \in Groups : Children[g] \in SUBSET Groups /\ Children[g] \subseteq Live
    BY <1>1 DEF Children
  <1> QED BY <1>1, <1>2, FS_Subset

LEMMA RatioType ==
    ASSUME NEW b, NEW g \in Groups, b[g] \in Bandwidths, b[g].period > 0
    PROVE  Ratio(b, g) \in Nat /\ (b[g].runtime = 0 => Ratio(b, g) = 0)
  <1>1. /\ b[g].period \in Nat \ {0} /\ b[g].runtime \in Nat \cup {RUNTIME_INF}
        /\ RatioUnit \in Nat /\ RUNTIME_INF \notin Nat
    BY RatioAssumption DEF Bandwidths
  <1>2. CASE b[g].runtime = RUNTIME_INF
    BY <1>1, <1>2 DEF Ratio, ToRatio
  <1>3. CASE b[g].runtime \in Nat
    <2> DEFINE n == b[g].runtime * RatioUnit
    <2>1. n \in Nat /\ (b[g].runtime = 0 => n = 0)
      BY <1>1, <1>3
    <2>2. Ratio(b, g) = n \div b[g].period
      BY <1>1, <1>3 DEF Ratio, ToRatio
    <2> HIDE DEF n
    <2> QED BY <1>1, <2>1, <2>2
  <1> QED BY <1>1, <1>2, <1>3

LEMMA FeasibleIsTreeFeasible == Feasible(bw) <=> TreeFeasible
  <1>1. ASSUME NEW g \in Live
        PROVE  MapThenSumSet(LAMBDA c : ToRatio(bw[c].period, bw[c].runtime), Children[g])
               = Sum(Ratios(bw), Children[g])
    BY ChildrenFinite, SharesAreSum
  <1> QED BY <1>1 DEF Feasible, TreeFeasible, Ratio

\* What the walk of the tree lets pass.
LEMMA SchedulableIsFeasible ==
    ASSUME NEW b, Schedulable(b)
    PROVE  Feasible(b)
  <1> DEFINE a == [g \in Live |-> b[g]]
  <1>1. ASSUME NEW g \in Live
        PROVE  /\ a[g].runtime # RUNTIME_INF => a[g].runtime <= a[g].period
               /\ MapThenSumSet(LAMBDA c : ToRatio(a[c].period, a[c].runtime), Children[g])
                  <= ToRatio(a[g].period, a[g].runtime)
    BY DEF Schedulable, RtSchedulable, TgRtSchedulable
  <1>2. \A g \in Live : a[g] = b[g]
    OBVIOUS
  <1> HIDE DEF a
  <1>3. ASSUME NEW g \in Live
        PROVE  MapThenSumSet(LAMBDA c : ToRatio(a[c].period, a[c].runtime), Children[g])
               = Sum(Ratios(b), Children[g])
    <2>1. Children[g] \subseteq Live /\ IsFiniteSet(Children[g]) /\ Children[g] \subseteq Groups
      BY ChildrenFinite
    <2>2. Sum(Ratios(a), Children[g]) = Sum(Ratios(b), Children[g])
      <3>1. \A c \in Children[g] : Ratios(a)[c] = Ratios(b)[c]
        BY <1>2, <2>1 DEF Ratios, Ratio
      <3> QED BY <2>1, <3>1, SumSame
    <2> QED BY <2>1, <2>2, SharesAreSum
  <1> QED BY <1>1, <1>2, <1>3 DEF Feasible, Ratio

\* The tree, seen from a state and from the next one.
LEMMA TreeFacts ==
    ASSUME TypeInv
    PROVE  /\ parent \in [Groups -> Groups \cup {None}] /\ parent[Root] = None
           /\ \A g \in Live \ {Root} : parent[g] \in Live
           /\ dying \subseteq Groups \ Live
           /\ bw \in [Groups -> Bandwidths]
           /\ write \in [Writers -> [group : Live, bw : Bandwidths] \cup {None}]
           /\ Root \in Groups /\ None \notin Groups
  BY AdmissionAssumption DEF TypeInv, TreeTypes

LEMMA LiveOf ==
    /\ \A h \in Groups : h \in Live <=> h = Root \/ parent[h] # None
    /\ \A h \in Groups : h \in Live' <=> h = Root \/ parent'[h] # None
    /\ Live \subseteq Groups /\ Live' \subseteq Groups
    /\ \A h \in Groups : /\ Children[h] = {c \in Live \ {Root} : parent[c] = h}
                         /\ Children'[h] = {c \in Live' \ {Root} : parent'[c] = h}
  BY AdmissionAssumption DEF Live, Children

\* The ratios of the groups whose bandwidth a step leaves alone.
LEMMA RatiosKept ==
    ASSUME NEW b, NEW d, NEW S, IsFiniteSet(S), S \subseteq Groups, \A c \in S : b[c] = d[c]
    PROVE  Sum(Ratios(b), S) = Sum(Ratios(d), S)
  <1>1. \A c \in S : Ratios(b)[c] = Ratios(d)[c]
    BY DEF Ratios, Ratio
  <1> QED BY <1>1, SumSame

LEMMA RatiosNat ==
    ASSUME TypeInv, TreeInv
    PROVE  \A c \in Groups : Ratios(bw)[c] \in Nat
  <1>1. \A c \in Groups : bw[c] \in Bandwidths /\ bw[c].period > 0
    BY TreeFacts DEF TreeInv
  <1>2. \A c \in Groups : Ratio(bw, c) \in Nat
    BY <1>1, RatioType
  <1> QED BY <1>2 DEF Ratios

LEMMA TreeInit == Init => TreeInv
  <1> SUFFICES ASSUME Init PROVE TreeInv
    OBVIOUS
  <1>1. Live = {Root} /\ Root \in Groups /\ TypeInv
    BY AdmissionAssumption, TypeInit DEF Init, Live
  <1>2. \A g \in Groups : bw[g].period > 0
    BY AdmissionAssumption DEF Init, Bw
  <1>3. Children[Root] = {}
    BY <1>1 DEF Children
  <1>4. bw[Root].runtime <= bw[Root].period /\ bw[Root] \in Bandwidths
    BY <1>1, AdmissionAssumption, TreeFacts DEF Init, Bw
  <1>5. Ratio(bw, Root) \in Nat
    BY <1>1, <1>2, <1>4, RatioType
  <1>6. Sum(Ratios(bw), Children[Root]) <= Ratio(bw, Root)
    BY <1>3, <1>5, SumEmpty
  <1>7. Feasible(bw)
    BY <1>1, <1>4, <1>6 DEF Feasible
  <1> QED BY <1>2, <1>7 DEF TreeInv, Init

\* Steps that leave the groups alone.
LEMMA TreeQuiet ==
    ASSUME TreeInv, UNCHANGED <<parent, bw, write>>
    PROVE  TreeInv'
  <1>1. Live' = Live /\ Children' = Children /\ bw' = bw
    BY DEF Live, Children
  <1>2. Feasible(bw)'
    BY <1>1 DEF TreeInv, Feasible
  <1> QED BY <1>2 DEF TreeInv

\* The files of a group: what tg_set_rt_bandwidth stores has been tested with
\* the tree as it is then, whatever was read before the mutex was taken.
LEMMA WriterTree ==
    ASSUME TypeInv, TreeInv, NEW w \in Writers,
           \/ SetBandwidth(w)
           \/ \E g \in Groups : \/ \E r \in Runtimes : SetRtRuntime(w, g, r)
                                \/ \E p \in Periods : SetRtPeriod(w, g, p)
    PROVE  TreeInv'
  <1>1. Live' = Live /\ Children' = Children
    <2>1. parent' = parent
      BY DEF SetBandwidth, SetRtRuntime, SetRtPeriod
    <2> QED BY <2>1 DEF Live, Children
  <1>2. CASE SetBandwidth(w)
    <2>1. /\ write[w] # None /\ write' = [write EXCEPT ![w] = None]
          /\ bw' = IF Admits(w) THEN [bw EXCEPT ![write[w].group] = write[w].bw] ELSE bw
      BY <1>2 DEF SetBandwidth
    <2>2. \A v \in Writers : write'[v] # None => write'[v].bw.period > 0
      BY <2>1, TreeFacts DEF TreeInv
    <2>3. \A g \in Groups : bw'[g].period > 0
      BY <2>1, TreeFacts DEF TreeInv
    <2>4. Feasible(bw')
      <3>1. CASE Admits(w)
        BY <2>1, <3>1, SchedulableIsFeasible DEF Admits
      <3>2. CASE ~Admits(w)
        BY <2>1, <3>2 DEF TreeInv
      <3> QED BY <3>1, <3>2
    <2>5. Feasible(bw)'
      BY <1>1, <2>4 DEF Feasible
    <2> QED BY <2>2, <2>3, <2>5 DEF TreeInv
  <1>3. ASSUME NEW g \in Groups, NEW r, SetRtRuntime(w, g, r) \/ (r \in Periods /\ SetRtPeriod(w, g, r))
        PROVE  TreeInv'
    <2>1. /\ g \in Live /\ bw' = bw
          /\ \/ write' = [write EXCEPT ![w] = [group |-> g, bw |-> Bw(bw[g].period, r)]]
             \/ /\ r > 0
                /\ write' = [write EXCEPT ![w] = [group |-> g, bw |-> Bw(r, bw[g].runtime)]]
      BY <1>3, AdmissionAssumption DEF SetRtRuntime, SetRtPeriod
    <2>2. \A v \in Writers : write'[v] # None => write'[v].bw.period > 0
      BY <2>1, TreeFacts DEF TreeInv, Bw
    <2>3. Feasible(bw)'
      BY <1>1, <2>1 DEF TreeInv, Feasible
    <2> QED BY <2>1, <2>2, <2>3 DEF TreeInv
  <1> QED BY <1>2, <1>3

\* A new group asks for nothing and has no child.
LEMMA CreateTree ==
    ASSUME TypeInv, SysInv, TreeInv, NEW g \in Groups, NEW p \in Groups, CreateGroup(g, p)
    PROVE  TreeInv'
  <1>1. /\ g \notin Live /\ p \in Live /\ write' = write
        /\ parent' = [parent EXCEPT ![g] = p] /\ bw' = [bw EXCEPT ![g] = Bw(def.period, 0)]
    BY DEF CreateGroup
  <1>2. p # None /\ g # Root /\ g # p /\ \A h \in Groups \ {g} : parent'[h] = parent[h] /\ bw'[h] = bw[h]
    BY <1>1, TreeFacts, LiveOf
  <1>3. Live' = Live \cup {g} /\ parent'[g] = p /\ bw'[g] = Bw(def.period, 0)
    BY <1>1, <1>2, TreeFacts, LiveOf
  <1>4. bw'[g].period > 0 /\ bw'[g].runtime = 0 /\ bw'[g] \in Bandwidths
    BY <1>3 DEF SysInv, Sane, Bandwidths, Bw
  <1>5. \A h \in Groups : bw'[h].period > 0
    BY <1>2, <1>4 DEF TreeInv
  <1>6. Ratio(bw', g) = 0
    BY <1>4, RatioType
  <1>7. Children'[g] = {}
    BY <1>2, <1>3, <1>1, TreeFacts, LiveOf
  <1>8. Children'[p] = Children[p] \cup {g} /\ g \notin Children[p]
    BY <1>2, <1>3, <1>1, LiveOf
  <1>9. ASSUME NEW h \in Live, h # p PROVE Children'[h] = Children[h]
    <2>1. /\ Children'[h] = {c \in Live' \ {Root} : parent'[c] = h}
          /\ Children[h] = {c \in Live \ {Root} : parent[c] = h}
      BY LiveOf
    <2>2. \A c \in Live : c # g /\ parent'[c] = parent[c]
      BY <1>1, <1>2, LiveOf
    <2> QED BY <1>3, <1>9, <2>1, <2>2
  <1>10. \A h \in Live : /\ Ratio(bw', h) = Ratio(bw, h)
                         /\ bw'[h].runtime # RUNTIME_INF => bw'[h].runtime <= bw'[h].period
                         /\ Sum(Ratios(bw), Children[h]) <= Ratio(bw, h)
    BY <1>1, <1>2, LiveOf DEF TreeInv, Feasible, Ratio
  <1>11. \A h \in Live : Sum(Ratios(bw'), Children[h]) = Sum(Ratios(bw), Children[h])
    <2> TAKE h \in Live
    <2>1. \A c \in Children[h] : bw'[c] = bw[c]
      BY <1>1, <1>2, ChildrenFinite
    <2> QED BY <2>1, ChildrenFinite, RatiosKept
  <1>12. Sum(Ratios(bw'), Children'[p]) = Sum(Ratios(bw), Children[p])
    <2>1. \A c \in Children[p] \cup {g} : Ratios(bw')[c] \in Nat
      <3>1. \A c \in Children[p] : c \in Groups /\ c # g
        BY <1>8, <1>1, ChildrenFinite
      <3>2. \A c \in Children[p] : Ratios(bw')[c] = Ratios(bw)[c]
        BY <1>2, <3>1 DEF Ratios, Ratio
      <3>3. Ratios(bw')[g] = 0
        BY <1>6 DEF Ratios
      <3> QED BY <3>1, <3>2, <3>3, RatiosNat
    <2>2. Sum(Ratios(bw'), Children[p] \cup {g}) = Ratios(bw')[g] + Sum(Ratios(bw'), Children[p])
      BY <1>8, <2>1, ChildrenFinite, SumAdd
    <2>3. Ratios(bw')[g] = 0
      BY <1>6 DEF Ratios
    <2>4. Sum(Ratios(bw), Children[p]) \in Nat
      BY ChildrenFinite, RatiosNat, SumNat
    <2>5. Sum(Ratios(bw'), Children[p]) = Sum(Ratios(bw), Children[p])
      BY <1>1, <1>11
    <2>6. Sum(Ratios(bw'), Children[p] \cup {g}) = Sum(Ratios(bw), Children[p])
      BY <2>2, <2>3, <2>4, <2>5
    <2>7. Children'[p] = Children[p] \cup {g}
      BY <1>8
    <2> QED BY <2>6, <2>7
  <1>13. ASSUME NEW h \in Live PROVE Sum(Ratios(bw'), Children'[h]) <= Ratio(bw', h)
    <2>1. Sum(Ratios(bw'), Children'[h]) = Sum(Ratios(bw), Children[h])
      <3>1. CASE h = p
        BY <1>12, <3>1
      <3>2. CASE h # p
        <4>1. Children'[h] = Children[h]
          BY <1>9, <3>2
        <4> QED BY <1>11, <4>1
      <3> QED BY <3>1, <3>2
    <2> QED BY <1>10, <2>1
  <1>14. Sum(Ratios(bw'), Children'[g]) <= Ratio(bw', g)
    BY <1>6, <1>7, SumEmpty
  <1>15. bw'[g].runtime <= bw'[g].period
    BY <1>4 DEF Bandwidths
  <1>16. Feasible(bw)'
    BY <1>3, <1>10, <1>13, <1>14, <1>15 DEF Feasible
  <1> QED BY <1>1, <1>5, <1>16 DEF TreeInv

\* A group that goes gives its share back.
LEMMA DestroyTree ==
    ASSUME TypeInv, TreeInv, NEW g \in Groups, DestroyGroup(g)
    PROVE  TreeInv'
  <1>1. /\ g \in Live \ {Root} /\ Children[g] = {} /\ bw' = bw /\ write' = write
        /\ parent' = [parent EXCEPT ![g] = None]
    BY DEF DestroyGroup
  <1>2. Live' = Live \ {g} /\ \A h \in Groups \ {g} : parent'[h] = parent[h]
    BY <1>1, TreeFacts, LiveOf
  <1>3. \A h \in Live' : Children'[h] = Children[h] \ {g}
    BY <1>1, <1>2, LiveOf
  <1>4. \A h \in Live : Sum(Ratios(bw), Children[h]) <= Ratio(bw, h)
    BY DEF TreeInv, Feasible
  <1>5. ASSUME NEW h \in Live' PROVE Sum(Ratios(bw), Children'[h]) <= Ratio(bw, h)
    <2>1. CASE g \notin Children[h]
      BY <1>2, <1>3, <1>4, <2>1
    <2>2. CASE g \in Children[h]
      <3> DEFINE S == Children[h] \ {g}
      <3>1. IsFiniteSet(Children[h]) /\ S \cup {g} = Children[h] /\ g \notin S /\ S \subseteq Groups
        BY <1>2, <2>2, ChildrenFinite
      <3>2. IsFiniteSet(S)
        BY <3>1, FS_Subset
      <3> HIDE DEF S
      <3>3. /\ Sum(Ratios(bw), S) \in Nat /\ Ratios(bw)[g] \in Nat
            /\ \A c \in S \cup {g} : Ratios(bw)[c] \in Nat
        BY <3>1, <3>2, RatiosNat, SumNat
      <3>4. Sum(Ratios(bw), Children[h]) = Ratios(bw)[g] + Sum(Ratios(bw), S)
        BY <3>1, <3>2, <3>3, SumAdd
      <3>5. Sum(Ratios(bw), Children[h]) <= Ratio(bw, h) /\ Ratio(bw, h) \in Nat
        BY <1>2, <1>4, LiveOf, RatiosNat DEF Ratios
      <3>6. Children'[h] = S
        BY <1>3 DEF S
      <3> QED BY <3>3, <3>4, <3>5, <3>6
    <2> QED BY <2>1, <2>2
  <1>6. Feasible(bw)'
    BY <1>1, <1>2, <1>5 DEF TreeInv, Feasible
  <1> QED BY <1>1, <1>6 DEF TreeInv

\* A group that is freed has left the tree.
LEMMA FreeTree ==
    ASSUME TypeInv, TreeInv, NEW g \in Groups, FreeGroup(g)
    PROVE  TreeInv'
  <1>1. g \notin Live /\ bw' = [bw EXCEPT ![g] = Bw(BootPeriod, 0)] /\ UNCHANGED <<parent, write>>
    BY TreeFacts DEF FreeGroup
  <1>2. Live' = Live /\ Children' = Children
    BY <1>1 DEF Live, Children
  <1>3. \A h \in Groups : bw'[h].period > 0
    BY <1>1, TreeFacts, AdmissionAssumption DEF TreeInv, Bw
  <1>4. \A h \in Live : bw'[h] = bw[h]
    BY <1>1, TreeFacts, LiveOf
  <1>5. \A h \in Live : Sum(Ratios(bw'), Children[h]) = Sum(Ratios(bw), Children[h])
    <2> TAKE h \in Live
    <2>1. \A c \in Children[h] : bw'[c] = bw[c]
      BY <1>4, ChildrenFinite
    <2> QED BY <2>1, ChildrenFinite, RatiosKept
  <1>6. Feasible(bw)'
    BY <1>2, <1>4, <1>5 DEF TreeInv, Feasible, Ratio
  <1> QED BY <1>1, <1>3, <1>6 DEF TreeInv

LEMMA TreeStep == TypeInv /\ SysInv /\ TreeInv /\ [Next]_vars => TreeInv'
  <1> SUFFICES ASSUME TypeInv, SysInv, TreeInv, [Next]_vars PROVE TreeInv'
    OBVIOUS
  <1>1. ASSUME NEW new, SysctlWrite(new) \/ SysctlCheck \/ Attach \/ UNCHANGED vars
        PROVE  TreeInv'
    <2>1. UNCHANGED <<parent, bw, write>>
      BY <1>1 DEF SysctlWrite, SysctlCheck, Attach, vars, groupVars
    <2> QED BY <2>1, TreeQuiet
  <1>2. ASSUME NEW g \in Groups, NEW t \in Tasks, CanAttach(t, g) PROVE TreeInv'
    <2>1. UNCHANGED <<parent, bw, write>>
      BY <1>2 DEF CanAttach, groupVars
    <2> QED BY <2>1, TreeQuiet
  <1>3. ASSUME NEW t \in Tasks,
               \/ Exit(t) \/ Fork(t)
               \/ \E policy \in Policies, prio \in Prios :
                     \/ KernelSets(t, policy, prio)
                     \/ \E c \in Callers, reset \in BOOLEAN :
                           AskScheduler(c, t, policy, prio, reset)
               \/ \E c \in Callers, prio \in Prios : AskParam(c, t, prio)
        PROVE  TreeInv'
    <2>1. UNCHANGED <<parent, bw, write>>
      <3>1. ASSUME Exit(t) \/ Fork(t) PROVE UNCHANGED groupVars
        BY <3>1, Zenon DEF Exit, Fork
      <3>2. ASSUME NEW policy, NEW prio,
                   \/ KernelSets(t, policy, prio)
                   \/ \E c \in Callers, reset \in BOOLEAN : AskScheduler(c, t, policy, prio, reset)
            PROVE  UNCHANGED groupVars
        BY <3>2, Zenon DEF KernelSets, AskScheduler
      <3>3. ASSUME NEW c, NEW prio, AskParam(c, t, prio) PROVE UNCHANGED groupVars
        BY <3>3, Zenon DEF AskParam
      <3>4. UNCHANGED groupVars
        BY <1>3, <3>1, <3>2, <3>3
      <3> QED BY <3>4 DEF groupVars
    <2> QED BY <2>1, TreeQuiet
  <1>4. ASSUME NEW c \in Callers, StoreScheduler(c) PROVE TreeInv'
    <2>1. UNCHANGED groupVars
      BY <1>4, Zenon DEF StoreScheduler
    <2> QED BY <2>1, TreeQuiet DEF groupVars
  <1>5. ASSUME NEW g \in Groups,
               \/ \E p \in Groups : CreateGroup(g, p)
               \/ DestroyGroup(g) \/ FreeGroup(g)
        PROVE  TreeInv'
    BY <1>5, CreateTree, DestroyTree, FreeTree
  <1> QED BY <1>1, <1>2, <1>3, <1>4, <1>5, WriterTree DEF Next

\* For any tree of groups: however writes to the files of the groups, to the
\* sysctls and the coming and going of groups follow each other, the run time of
\* every group fits into its period and the shares of its children into its own.
THEOREM TreeTheorem == Spec => []TreeFeasible
  <1>1. TreeInv => TreeFeasible
    BY FeasibleIsTreeFeasible DEF TreeInv
  <1> QED BY <1>1, TypeInit, TypeStep, SysInit, SysStep, TreeInit, TreeStep, PTL DEF Spec

-----------------------------------------------------------------------------
(* Time: the fields of cpustat *)

\* What a processor without a tick has not accounted yet starts at idleFrom,
\* and only the idle task runs then.
ClockTypes ==
    /\ time \in Nat /\ idleFrom \in Nat \cup {-1} /\ idleFrom <= time
    /\ ready \subseteq Procs /\ inIo \subseteq Procs /\ curr \in Procs \cup {Swapper}
    /\ Stopped => curr = Swapper
    /\ nrIowait = Cardinality(inIo)
    /\ cpustat \in [Fields -> Nat] /\ waited \in Nat

ClockInv == ClockTypes /\ AllAccounted /\ IoWaitExact

LEMMA InIoFinite ==
    ASSUME inIo \subseteq Procs
    PROVE  /\ IsFiniteSet(inIo) /\ Cardinality(inIo) \in Nat
           /\ Cardinality(inIo) > 0 <=> inIo # {}
  <1>1. IsFiniteSet(Procs) /\ inIo \in SUBSET Procs
    BY CpuTimeAssumption
  <1>2. IsFiniteSet(inIo)
    BY <1>1, FS_Subset
  <1>3. Cardinality(inIo) \in Nat
    BY <1>2, FS_CardinalityType
  <1>4. Cardinality(inIo) = 0 <=> inIo = {}
    BY <1>2, FS_EmptySet
  <1> QED BY <1>2, <1>3, <1>4

LEMMA ClockInit == TimeInit => ClockInv
  <1> SUFFICES ASSUME TimeInit PROVE ClockInv
    OBVIOUS
  <1>1. /\ time = 0 /\ idleFrom = -1 /\ curr = Swapper /\ ready = Procs /\ inIo = {}
        /\ nrIowait = 0 /\ waited = 0 /\ cpustat = [f \in Fields |-> 0]
    BY DEF TimeInit
  <1>2. nrIowait = Cardinality(inIo)
    BY <1>1, FS_EmptySet
  <1>3. ~Stopped
    BY <1>1 DEF Stopped
  <1>4. ClockTypes
    BY <1>1, <1>2, <1>3 DEF ClockTypes
  <1>5. \A f \in Fields : cpustat[f] = 0
    BY <1>1
  <1>6. AllAccounted /\ IoWaitExact
    BY <1>1, <1>3, <1>5 DEF AllAccounted, IoWaitExact, Pending, Fields
  <1> QED BY <1>4, <1>6 DEF ClockInv

\* Steps that take no time.
LEMMA ClockKept ==
    ASSUME ClockInv, UNCHANGED <<time, idleFrom, cpustat, waited>>,
           inIo' = inIo \/ ~Stopped, ClockTypes'
    PROVE  ClockInv'
  <1>1. Pending' = Pending /\ (~Stopped => Pending = 0)
    BY DEF Pending, Stopped
  <1>2. AllAccounted'
    BY <1>1 DEF ClockInv, AllAccounted
  <1>3. IoWaitExact'
    BY <1>1 DEF ClockInv, IoWaitExact
  <1> QED BY <1>2, <1>3 DEF ClockInv

\* io_schedule.
LEMMA IoStep ==
    ASSUME ClockInv, IoSchedule \/ IoReturn
    PROVE  ClockInv'
  <1>1. /\ ClockTypes /\ IsFiniteSet(inIo) /\ Cardinality(inIo) \in Nat
        /\ UNCHANGED <<time, idleFrom, curr, cpustat, waited>>
    BY InIoFinite DEF ClockInv, ClockTypes, IoSchedule, IoReturn
  <1>2. curr \in Procs /\ ~Stopped /\ ready' \subseteq Procs /\ inIo' \subseteq Procs
    BY <1>1, CpuTimeAssumption DEF ClockTypes, IoSchedule, IoReturn
  <1>3. nrIowait' = Cardinality(inIo')
    <2>1. CASE IoSchedule
      <3>1. curr \notin inIo /\ inIo' = inIo \cup {curr} /\ nrIowait' = nrIowait + 1
        BY <2>1 DEF IoSchedule
      <3>2. Cardinality(inIo \cup {curr}) = Cardinality(inIo) + 1
        BY <1>1, <3>1, FS_AddElement
      <3> QED BY <1>1, <3>1, <3>2 DEF ClockTypes
    <2>2. CASE IoReturn
      <3>1. curr \in inIo /\ inIo' = inIo \ {curr} /\ nrIowait' = nrIowait - 1
        BY <2>2 DEF IoReturn
      <3>2. Cardinality(inIo \ {curr}) = Cardinality(inIo) - 1
        BY <1>1, <3>1, FS_RemoveElement
      <3> QED BY <1>1, <3>1, <3>2 DEF ClockTypes
    <2> QED BY <2>1, <2>2
  <1>4. ClockTypes'
    BY <1>1, <1>2, <1>3 DEF ClockTypes, Stopped
  <1> QED BY <1>1, <1>2, <1>4, ClockKept

\* A tick: one field takes it.
LEMMA TickStep ==
    ASSUME ClockInv, NEW kind \in TickKinds, ProcessTick(kind)
    PROVE  ClockInv'
  <1> DEFINE idle == curr = Swapper /\ kind = "system"
             field == IF idle THEN IdleField ELSE kind
  <1>1. /\ time' = time + 1 /\ ~Stopped
        /\ waited' = IF idle /\ inIo # {} THEN waited + 1 ELSE waited
        /\ UNCHANGED <<idleFrom, curr, ready, inIo, nrIowait>>
        /\ cpustat' = [cpustat EXCEPT ![field] = @ + 1]
    BY DEF ProcessTick, AccountIdle, AccountTask
  <1>2. /\ ClockTypes /\ AllAccounted /\ IoWaitExact
        /\ idleFrom = -1 /\ idleFrom' = -1
    BY <1>1 DEF ClockInv, Stopped
  <1>3. /\ nrIowait > 0 <=> inIo # {}
        /\ kind \in Fields \ {"idle", "iowait"}
    BY <1>2, InIoFinite, CpuTimeAssumption DEF ClockTypes
  <1>4. /\ field \in Fields
        /\ field = "iowait" <=> idle /\ inIo # {}
    BY <1>3 DEF IdleField, Fields
  <1> HIDE DEF field, idle
  <1>5. /\ cpustat \in [Fields -> Nat]
        /\ time \in Nat /\ waited \in Nat
    BY <1>2 DEF ClockTypes
  <1>6. cpustat' \in [Fields -> Nat] /\ \A f \in Fields : cpustat'[f] = cpustat[f] + IF f = field THEN 1 ELSE 0
    BY <1>1, <1>4, <1>5
  <1>7. ClockTypes'
    BY <1>1, <1>2, <1>5, <1>6 DEF ClockTypes, Stopped
  <1>8. Pending = 0 /\ Pending' = 0
    BY <1>1, <1>2 DEF Pending, Stopped
  <1>9. AllAccounted'
    <2> DEFINE S(c) == c.user + c.nice + c.system + c.softirq + c.irq + c.idle + c.iowait
    <2>1. S(cpustat) + 0 = time
      BY <1>2, <1>8 DEF AllAccounted
    <2>2. S(cpustat') = S(cpustat) + 1
      BY <1>4, <1>5, <1>6 DEF Fields
    <2>3. S(cpustat) \in Nat
      BY <1>5 DEF Fields
    <2>4. S(cpustat') + 0 = time'
      BY <1>1, <1>5, <2>1, <2>2, <2>3
    <2> QED BY <1>8, <2>4 DEF AllAccounted
  <1>10. IoWaitExact'
    <2>1. cpustat["iowait"] = waited /\ cpustat["iowait"] \in Nat
      BY <1>2, <1>5, <1>8 DEF IoWaitExact, Fields
    <2>2. cpustat'["iowait"] = cpustat["iowait"] + IF field = "iowait" THEN 1 ELSE 0
      BY <1>6 DEF Fields
    <2>3. cpustat'["iowait"] = waited' /\ waited' \in Nat
      BY <1>1, <1>4, <1>5, <2>1, <2>2
    <2> QED BY <1>8, <2>3 DEF IoWaitExact
  <1> QED BY <1>7, <1>9, <1>10 DEF ClockInv

\* Idle without a tick, and its end.
LEMMA SleepOnStep ==
    ASSUME ClockInv, NEW n \in Skips, SleepOn(n)
    PROVE  ClockInv'
  <1>1. /\ Stopped /\ time' = time + n /\ n \in Nat
        /\ waited' = IF inIo # {} THEN waited + n ELSE waited
        /\ UNCHANGED <<idleFrom, curr, ready, inIo, nrIowait, cpustat>>
    BY CpuTimeAssumption DEF SleepOn
  <1>2. ClockTypes /\ time \in Nat /\ idleFrom \in Nat /\ waited \in Nat
    BY <1>1 DEF ClockInv, ClockTypes, Stopped
  <1>3. ClockTypes'
    BY <1>1, <1>2 DEF ClockTypes, Stopped
  <1>4. Pending = time - idleFrom /\ Pending' = Pending + n /\ Pending \in Nat
    BY <1>1, <1>2 DEF Pending, Stopped, ClockTypes
  <1>5. \A f \in Fields : cpustat[f] \in Nat
    BY <1>2 DEF ClockTypes
  <1>6. AllAccounted'
    BY <1>1, <1>2, <1>4, <1>5 DEF ClockInv, AllAccounted, Fields
  <1>7. IoWaitExact'
    BY <1>1, <1>2, <1>4, <1>5 DEF ClockInv, IoWaitExact, Fields
  <1> QED BY <1>3, <1>6, <1>7 DEF ClockInv

LEMMA StartTickStep ==
    ASSUME ClockInv, StartTick
    PROVE  ClockInv'
  <1>1. /\ Stopped /\ cpustat' = [cpustat EXCEPT ![IdleField] = @ + (time - idleFrom)]
        /\ idleFrom' = -1
        /\ UNCHANGED <<time, curr, ready, inIo, nrIowait, waited>>
    BY DEF StartTick, AccountIdle
  <1>2. /\ ClockTypes /\ AllAccounted /\ IoWaitExact
        /\ time \in Nat /\ idleFrom \in Nat /\ idleFrom <= time
        /\ cpustat \in [Fields -> Nat] /\ waited \in Nat
    BY <1>1 DEF ClockInv, ClockTypes, Stopped
  <1>3. IdleField \in Fields \ {"user", "nice", "system", "softirq", "irq"} /\ (IdleField = "iowait" <=> inIo # {})
    BY <1>2, InIoFinite DEF ClockTypes, IdleField, Fields
  <1>4. Pending = time - idleFrom /\ Pending \in Nat /\ Pending' = 0 /\ ~Stopped'
    BY <1>1, <1>2 DEF Pending, Stopped
  <1> DEFINE field == IdleField
  <1> HIDE DEF field
  <1>5. /\ cpustat' = [cpustat EXCEPT ![field] = @ + Pending]
        /\ field \in Fields \ {"user", "nice", "system", "softirq", "irq"} /\ (field = "iowait" <=> inIo # {})
    BY <1>1, <1>3, <1>4 DEF field
  <1>6. cpustat' \in [Fields -> Nat] /\ \A f \in Fields : cpustat'[f] = cpustat[f] + IF f = field THEN Pending ELSE 0
    BY <1>2, <1>4, <1>5
  <1>7. ClockTypes'
    BY <1>1, <1>2, <1>4, <1>6 DEF ClockTypes
  <1>8. AllAccounted'
    <2> DEFINE S(c) == c.user + c.nice + c.system + c.softirq + c.irq + c.idle + c.iowait
    <2>1. S(cpustat) + Pending = time
      BY <1>2 DEF AllAccounted
    <2>2. S(cpustat') = S(cpustat) + Pending
      BY <1>2, <1>4, <1>5, <1>6 DEF Fields
    <2>3. S(cpustat) \in Nat
      BY <1>2 DEF Fields
    <2>4. S(cpustat') + 0 = time'
      BY <1>1, <1>2, <1>4, <2>1, <2>2, <2>3
    <2> QED BY <1>4, <2>4 DEF AllAccounted
  <1>9. IoWaitExact'
    <2>1. cpustat["iowait"] + (IF inIo # {} THEN Pending ELSE 0) = waited /\ cpustat["iowait"] \in Nat
      BY <1>2 DEF IoWaitExact, Fields
    <2>2. cpustat'["iowait"] = cpustat["iowait"] + IF field = "iowait" THEN Pending ELSE 0
      BY <1>6 DEF Fields
    <2>3. cpustat'["iowait"] + 0 = waited'
      BY <1>1, <1>4, <1>5, <2>1, <2>2
    <2> QED BY <1>4, <2>3 DEF IoWaitExact
  <1> QED BY <1>7, <1>8, <1>9 DEF ClockInv

LEMMA ClockStep == ClockInv /\ [TimeNext]_timeVars => ClockInv'
  <1> SUFFICES ASSUME ClockInv, [TimeNext]_timeVars PROVE ClockInv'
    OBVIOUS
  <1>1. ASSUME NEW t \in Procs \cup {Swapper}, Switch(t) PROVE ClockInv'
    <2>1. ClockTypes'
      BY <1>1 DEF ClockInv, ClockTypes, Switch, Stopped
    <2> QED BY <1>1, <2>1, ClockKept DEF Switch
  <1>2. ASSUME Sleep \/ \E t \in Procs : WakeProc(t) PROVE ClockInv'
    <2>1. ClockTypes'
      BY <1>2 DEF ClockInv, ClockTypes, Sleep, WakeProc, Stopped
    <2>2. UNCHANGED <<time, idleFrom, inIo, cpustat, waited>>
      BY <1>2 DEF Sleep, WakeProc
    <2> QED BY <2>1, <2>2, ClockKept
  <1>3. ASSUME \/ UNCHANGED timeVars
               \/ \E t \in Procs, g \in AcctGroups : AcctMove(t, g)
               \/ \E g \in AcctGroups \ {AcctRoot} : AcctCreate(g) \/ AcctDestroy(g)
        PROVE  ClockInv'
    <2>1. UNCHANGED <<time, idleFrom, curr, ready, inIo, nrIowait, cpustat, waited>>
      BY <1>3 DEF timeVars, AcctMove, AcctCreate, AcctDestroy
    <2>2. ClockTypes'
      BY <2>1 DEF ClockInv, ClockTypes, Stopped
    <2> QED BY <2>1, <2>2, ClockKept
  <1>4. ASSUME StopTick PROVE ClockInv'
    <2>1. /\ ~Stopped /\ curr = Swapper /\ idleFrom' = time
          /\ UNCHANGED <<time, curr, ready, inIo, nrIowait, cpustat, waited>>
      BY <1>4 DEF StopTick
    <2>2. ClockTypes' /\ Pending = 0 /\ Pending' = 0
      BY <2>1 DEF ClockInv, ClockTypes, Stopped, Pending
    <2>3. AllAccounted' /\ IoWaitExact'
      BY <2>1, <2>2 DEF ClockInv, AllAccounted, IoWaitExact
    <2> QED BY <2>2, <2>3 DEF ClockInv
  <1> QED BY <1>1, <1>2, <1>3, <1>4, IoStep, TickStep, SleepOnStep, StartTickStep DEF TimeNext

-----------------------------------------------------------------------------
(* Time: the accounting groups *)

\* One member of a set changes.
LEMMA SumBump ==
    ASSUME NEW S, IsFiniteSet(S), NEW x \in S, NEW f, NEW e, NEW n \in Nat,
           \A y \in S : f[y] \in Nat, e[x] = f[x] + n, \A y \in S \ {x} : e[y] = f[y]
    PROVE  Sum(e, S) = Sum(f, S) + n
  <1> DEFINE R == S \ {x}
  <1>1. IsFiniteSet(R) /\ x \notin R /\ R \cup {x} = S
    BY FS_RemoveElement
  <1>2. ASSUME NEW y \in S PROVE e[y] \in Nat
    <2>1. f[y] \in Nat
      OBVIOUS
    <2>2. CASE y = x
      BY <2>1, <2>2
    <2>3. CASE y # x
      BY <2>1, <2>3
    <2> QED BY <2>2, <2>3
  <1>3. \A y \in R : e[y] = f[y]
    OBVIOUS
  <1>4. \A y \in R : f[y] \in Nat
    OBVIOUS
  <1> HIDE DEF R
  <1>5. Sum(f, R \cup {x}) = f[x] + Sum(f, R)
    BY <1>1, SumAdd
  <1>6. Sum(e, R \cup {x}) = e[x] + Sum(e, R)
    BY <1>1, <1>2, SumAdd
  <1>7. Sum(e, R) = Sum(f, R)
    BY <1>1, <1>3, SumSame
  <1>8. Sum(f, R) \in Nat
    BY <1>1, <1>4, SumNat
  <1>9. Sum(f, S) = f[x] + Sum(f, R)
    BY <1>1, <1>5
  <1>10. Sum(e, S) = e[x] + Sum(e, R)
    BY <1>1, <1>6
  <1>11. f[x] \in Nat /\ e[x] = f[x] + n
    OBVIOUS
  <1> QED BY ONLY <1>7, <1>8, <1>9, <1>10, <1>11, n \in Nat

Ticks(a) == [h \in AcctGroups |-> a[h].ticks]

LEMMA TicksAreSum ==
    ASSUME NEW a, NEW S, IsFiniteSet(S), S \subseteq AcctGroups
    PROVE  MapThenSumSet(LAMBDA h : a[h].ticks, S) = Sum(Ticks(a), S)
  <1> DEFINE f == Ticks(a)
             P(i) == i = [s \in SUBSET S |->
                             IF s = {} THEN 0
                             ELSE LET x == CHOOSE x \in s : TRUE
                                  IN a[x].ticks + i[s \ {x}]]
             i == CHOOSE i : P(i)
  <1>1. \A k : P(k) <=> Iterates(k, f, S)
    <2> SUFFICES ASSUME NEW k PROVE P(k) <=> Iterates(k, f, S)
      OBVIOUS
    <2>1. \A s \in SUBSET S : s # {} => (CHOOSE x \in s : TRUE) \in S
      OBVIOUS
    <2>2. \A x \in S : f[x] = a[x].ticks
      BY DEF Ticks
    <2> HIDE DEF f
    <2> QED BY <2>1, <2>2 DEF Iterates
  <1>2. PICK j : Iterates(j, f, S) /\ Sum(f, S) = j[S]
    BY SumIterates
  <1>3. P(j)
    BY <1>1, <1>2
  <1>4. i = CHOOSE k : P(k)
    OBVIOUS
  <1>5. MapThenSumSet(LAMBDA h : a[h].ticks, S) = i[S]
    BY DEF MapThenSumSet, MapThenFoldSet, P, i
  <1> HIDE DEF P, i
  <1>6. P(i)
    BY <1>3, <1>4
  <1>7. Iterates(i, f, S)
    BY <1>1, <1>6
  <1> HIDE DEF f
  <1>8. i[S] = j[S]
    BY <1>2, <1>7, SumAgrees
  <1> QED BY <1>2, <1>5, <1>8 DEF f

\* The groups hang together: the one above a group is there, and so is that of
\* a task.
AcctTypes ==
    /\ acct \in [AcctGroups -> [live : BOOLEAN, ticks : Nat]] /\ acct[AcctRoot].live
    /\ direct \in [AcctGroups -> Nat]
    /\ member \in [Procs -> AcctGroups] /\ \A t \in Procs : acct[member[t]].live
    /\ \A g \in AcctGroups \ {AcctRoot} : acct[g].live => acct[Over[g]].live
    /\ curr \in Procs \cup {Swapper}

\* d is the depth of every group in the tree.
IsDepth(d) ==
    /\ d \in [AcctGroups -> Nat]
    /\ \A g \in AcctGroups \ {AcctRoot} : acct[g].live => d[g] = d[Over[g]] + 1

\* No group is above itself, although Over may be any function: of the groups of
\* a cycle none could be created first.
AcctInv ==
    /\ AcctTypes
    /\ \E d : IsDepth(d)
    /\ \A g \in AcctGroups \ {AcctRoot} : acct[g].live =>
          acct[g].ticks = direct[g] + Sum(Ticks(acct), Below(g))

LEMMA BelowFinite ==
    /\ IsFiniteSet(AcctGroups) /\ AcctRoot \in AcctGroups
    /\ \A g \in AcctGroups \ {AcctRoot} : Over[g] \in AcctGroups
    /\ \A g : Below(g) \subseteq AcctGroups /\ IsFiniteSet(Below(g))
  <1>1. /\ IsFiniteSet(AcctGroups) /\ AcctRoot \in AcctGroups
        /\ \A g \in AcctGroups \ {AcctRoot} : Over[g] \in AcctGroups
    BY CpuTimeAssumption
  <1>2. \A g : Below(g) \in SUBSET AcctGroups
    BY DEF Below
  <1> QED BY <1>1, <1>2, FS_Subset

LEMMA GroupsAddUpAsSum ==
    GroupsAddUp <=>
        \A g \in AcctGroups \ {AcctRoot} : acct[g].live =>
            acct[g].ticks = direct[g] + Sum(Ticks(acct), Below(g))
  <1>1. \A g : MapThenSumSet(LAMBDA h : acct[h].ticks, Below(g)) = Sum(Ticks(acct), Below(g))
    BY BelowFinite, TicksAreSum
  <1> QED BY <1>1 DEF GroupsAddUp

-----------------------------------------------------------------------------
(* The walk up from a group *)

\* What task_ca and parent_ca reach from g, the root with it.
Upward(g) == {S \in SUBSET AcctGroups : g \in S /\ \A h \in S \ {AcctRoot} : Over[h] \in S}
Reached(g) == {h \in AcctGroups : \A S \in Upward(g) : h \in S}

LEMMA ReachedFacts ==
    ASSUME NEW g \in AcctGroups
    PROVE  /\ g \in Reached(g) /\ Chain(g) = Reached(g) \ {AcctRoot}
           /\ \A h \in Reached(g) \ {AcctRoot} : Over[h] \in Reached(g)
           /\ \A S \in Upward(g) : Reached(g) \subseteq S
           /\ Reached(g) \subseteq AcctGroups
  <1>1. Chain(g) = Reached(g) \ {AcctRoot}
    BY DEF Chain, Reached, Upward
  <1>2. g \in Reached(g) /\ Reached(g) \subseteq AcctGroups
    BY DEF Reached, Upward
  <1>3. \A h \in Reached(g) \ {AcctRoot} : Over[h] \in Reached(g)
    BY BelowFinite DEF Reached, Upward
  <1>4. \A S \in Upward(g) : Reached(g) \subseteq S
    BY DEF Reached
  <1> QED BY <1>1, <1>2, <1>3, <1>4

\* Whoever is reached and is not the start is reached from below.
LEMMA FromBelow ==
    ASSUME NEW g \in AcctGroups, NEW h \in Reached(g), h # g
    PROVE  \E c \in Reached(g) \ {AcctRoot} : Over[c] = h
  <1> SUFFICES ASSUME \A c \in Reached(g) \ {AcctRoot} : Over[c] # h PROVE FALSE
    OBVIOUS
  <1>1. Reached(g) \ {h} \in Upward(g)
    BY ReachedFacts DEF Upward
  <1> QED BY <1>1, ReachedFacts

LEMMA ReachedLive ==
    ASSUME AcctTypes, NEW d, IsDepth(d), NEW g \in AcctGroups, acct[g].live
    PROVE  \A h \in Reached(g) : acct[h].live /\ d[h] <= d[g]
  <1> DEFINE S == {h \in AcctGroups : acct[h].live /\ d[h] <= d[g]}
  <1>1. d[g] \in Nat /\ \A h \in AcctGroups : d[h] \in Nat
    BY DEF IsDepth
  <1>2. ASSUME NEW h \in S \ {AcctRoot} PROVE Over[h] \in S
    <2>1. h \in AcctGroups \ {AcctRoot} /\ acct[h].live /\ d[h] <= d[g]
      OBVIOUS
    <2>2. Over[h] \in AcctGroups /\ acct[Over[h]].live /\ d[h] = d[Over[h]] + 1
      BY <2>1, BelowFinite DEF AcctTypes, IsDepth
    <2>3. d[Over[h]] <= d[g]
      BY <1>1, <2>1, <2>2
    <2> QED BY <2>2, <2>3
  <1>3. g \in S
    BY <1>1
  <1>4. S \in Upward(g)
    BY <1>2, <1>3 DEF Upward
  <1> QED BY <1>4, ReachedFacts

\* At each depth the walk passes one group.
LEMMA OnePerDepth ==
    ASSUME AcctTypes, NEW d, IsDepth(d), NEW g \in AcctGroups, acct[g].live,
           NEW x \in Reached(g), NEW y \in Reached(g), d[x] = d[y]
    PROVE  x = y
  <1> DEFINE Twin(u, v) == u \in Reached(g) /\ v \in Reached(g) /\ d[u] = d[v] /\ u # v
             T == {n \in Nat : \E u, v : Twin(u, v) /\ n = d[g] - d[u]}
  <1> SUFFICES ASSUME x # y PROVE FALSE
    OBVIOUS
  <1>1. \A u \in Reached(g) : u \in AcctGroups /\ d[u] \in Nat /\ d[u] <= d[g] /\ d[g] \in Nat
    BY ReachedLive, ReachedFacts DEF IsDepth
  <1>2. T \in SUBSET Nat /\ d[g] - d[x] \in T
    BY <1>1
  <1>3. PICK n \in T : \A m \in T : n <= m
    BY <1>2, LeastElement
  <1>4. PICK u, v : Twin(u, v) /\ n = d[g] - d[u]
    BY <1>3
  <1>5. ASSUME NEW a, NEW b, Twin(a, b), a # g PROVE b # g
    <2>1. PICK c \in Reached(g) \ {AcctRoot} : Over[c] = a
      BY <1>5, FromBelow
    <2>2. acct[c].live /\ c \in AcctGroups
      BY <2>1, ReachedLive, ReachedFacts
    <2>3. d[c] = d[a] + 1
      BY <2>1, <2>2 DEF IsDepth
    <2> QED BY <1>1, <1>5, <2>1, <2>3
  <1>6. u # g /\ v # g
    <2>1. Twin(u, v) /\ Twin(v, u)
      BY <1>4
    <2> HIDE DEF Twin
    <2>2. u # v
      BY <1>4 DEF Twin
    <2> QED BY <1>5, <2>1, <2>2
  <1>7. PICK a \in Reached(g) \ {AcctRoot} : Over[a] = u
    BY <1>4, <1>6, FromBelow
  <1>8. PICK b \in Reached(g) \ {AcctRoot} : Over[b] = v
    BY <1>4, <1>6, FromBelow
  <1>9. d[a] = d[u] + 1 /\ d[b] = d[v] + 1
    BY <1>7, <1>8, ReachedLive, ReachedFacts DEF IsDepth
  <1>10. Twin(a, b)
    BY <1>4, <1>7, <1>8, <1>9
  <1>11. d[g] - d[a] \in T
    BY <1>1, <1>10
  <1>12. d[g] - d[a] < n
    BY <1>1, <1>4, <1>7, <1>9
  <1> QED BY <1>1, <1>3, <1>7, <1>11, <1>12

\* Of the groups below h the walk passes one if it comes to h from below, and
\* none if it starts at h or does not come by.
LEMMA ChainBelow ==
    ASSUME AcctTypes, NEW d, IsDepth(d), NEW g \in AcctGroups, acct[g].live,
           NEW h \in AcctGroups \ {AcctRoot}
    PROVE  /\ h \in Chain(g) /\ h # g => \E c \in Below(h) : Below(h) \cap Chain(g) = {c}
           /\ h \notin Chain(g) \/ h = g => Below(h) \cap Chain(g) = {}
  <1>1. \A c \in Below(h) : c \in AcctGroups \ {AcctRoot} /\ acct[c].live /\ Over[c] = h /\ d[c] = d[h] + 1
    BY DEF Below, IsDepth
  <1>2. ASSUME h \in Chain(g), h # g PROVE \E c \in Below(h) : Below(h) \cap Chain(g) = {c}
    <2>1. PICK c \in Reached(g) \ {AcctRoot} : Over[c] = h
      BY <1>2, FromBelow, ReachedFacts
    <2>2. c \in Below(h) /\ c \in Chain(g)
      BY <2>1, ReachedLive, ReachedFacts DEF Below
    <2>3. \A b \in Below(h) \cap Chain(g) : b = c
      BY <1>1, <2>2, OnePerDepth, ReachedFacts
    <2> QED BY <2>2, <2>3
  <1>3. ASSUME NEW c \in Below(h), c \in Chain(g) PROVE h \in Chain(g) /\ h # g
    <2>1. c \in Reached(g) \ {AcctRoot} /\ Over[c] = h
      BY <1>1, <1>3, ReachedFacts
    <2>2. h \in Chain(g)
      BY <2>1, ReachedFacts
    <2>3. d[c] <= d[g] /\ d[c] = d[h] + 1 /\ d[h] \in Nat
      BY <1>1, <2>1, ReachedLive DEF IsDepth
    <2> QED BY <2>2, <2>3 DEF IsDepth
  <1> QED BY <1>2, <1>3

-----------------------------------------------------------------------------
(* The groups add up *)

LEMMA AcctInit == TimeInit => AcctInv
  <1> SUFFICES ASSUME TimeInit PROVE AcctInv
    OBVIOUS
  <1>1. /\ acct = [g \in AcctGroups |-> [live |-> g = AcctRoot, ticks |-> 0]]
        /\ member = [t \in Procs |-> AcctRoot] /\ curr = Swapper
        /\ direct = [g \in AcctGroups |-> 0]
    BY DEF TimeInit
  <1>2. AcctRoot \in AcctGroups /\ \A g \in AcctGroups : acct[g].live <=> g = AcctRoot
    BY <1>1, BelowFinite
  <1>3. acct \in [AcctGroups -> [live : BOOLEAN, ticks : Nat]]
    BY <1>1
  <1>4. AcctTypes
    BY <1>1, <1>2, <1>3 DEF AcctTypes
  <1>5. IsDepth([g \in AcctGroups |-> 0])
    BY <1>2 DEF IsDepth
  <1>6. \A g \in AcctGroups \ {AcctRoot} : ~acct[g].live
    BY <1>2
  <1> QED BY <1>4, <1>5, <1>6 DEF AcctInv

\* Steps that charge nobody.
LEMMA AcctKept ==
    ASSUME AcctInv, UNCHANGED <<acct, direct>>, AcctTypes'
    PROVE  AcctInv'
  <1>1. PICK d : IsDepth(d)
    BY DEF AcctInv
  <1>2. IsDepth(d)'
    BY <1>1 DEF IsDepth
  <1>3. \A g : Below(g)' = Below(g)
    BY DEF Below
  <1>4. \A g \in AcctGroups \ {AcctRoot} : acct'[g].live =>
            acct'[g].ticks = direct'[g] + Sum(Ticks(acct'), Below(g)')
    BY <1>3 DEF AcctInv
  <1> QED BY <1>2, <1>4 DEF AcctInv

\* A tick goes to a group and to those above it.
LEMMA ChargeStep ==
    ASSUME AcctInv, NEW kind, AccountTask(kind), UNCHANGED <<curr, member>>
    PROVE  AcctInv'
  <1> DEFINE g == IF curr = Swapper THEN AcctRoot ELSE member[curr]
  <1>1. /\ acct' = [h \in AcctGroups |->
                      IF h \in Chain(g) THEN [acct[h] EXCEPT !.ticks = @ + 1] ELSE acct[h]]
        /\ direct' = Direct(g, 1)
    BY DEF AccountTask
  <1>2. g \in AcctGroups /\ acct[g].live
    BY BelowFinite DEF AcctInv, AcctTypes
  <1> HIDE DEF g
  <1>3. AcctTypes
    BY DEF AcctInv
  <1>4. PICK d : IsDepth(d)
    BY DEF AcctInv
  <1>5. ASSUME NEW h \in AcctGroups
        PROVE  /\ acct'[h].live = acct[h].live
               /\ acct'[h].ticks = acct[h].ticks + IF h \in Chain(g) THEN 1 ELSE 0
               /\ acct[h].ticks \in Nat /\ acct'[h] \in [live : BOOLEAN, ticks : Nat]
    BY <1>1, <1>3 DEF AcctTypes
  <1>6. acct' \in [AcctGroups -> [live : BOOLEAN, ticks : Nat]]
    BY <1>1, <1>5
  <1>7. /\ direct' \in [AcctGroups -> Nat]
        /\ \A h \in AcctGroups \ {AcctRoot} :
              direct[h] \in Nat /\ direct'[h] = direct[h] + IF h = g THEN 1 ELSE 0
    BY <1>1, <1>2, <1>3 DEF AcctTypes, Direct
  <1>8. AcctTypes'
    BY <1>3, <1>5, <1>6, <1>7, BelowFinite DEF AcctTypes
  <1>9. IsDepth(d)'
    BY <1>4, <1>5 DEF IsDepth
  <1>10. \A h : Below(h)' = Below(h)
    BY <1>5 DEF Below
  <1>11. ASSUME NEW h \in AcctGroups \ {AcctRoot}, acct[h].live
         PROVE  acct'[h].ticks = direct'[h] + Sum(Ticks(acct'), Below(h))
    <2> DEFINE f == Ticks(acct)
               e == Ticks(acct')
    <2>1. acct[h].ticks = direct[h] + Sum(f, Below(h))
      BY <1>11 DEF AcctInv
    <2>2. \A c \in Below(h) : /\ f[c] \in Nat
                              /\ e[c] = f[c] + IF c \in Chain(g) THEN 1 ELSE 0
      BY <1>5, BelowFinite DEF Ticks
    <2>3. IsFiniteSet(Below(h))
      BY BelowFinite
    <2> HIDE DEF f, e
    <2>4. Sum(f, Below(h)) \in Nat
      BY <2>2, <2>3, SumNat
    <2>5. h = g => h \in Chain(g)
      BY <1>2, ReachedFacts
    <2>6. CASE h \in Chain(g) /\ h # g
      <3>1. PICK c \in Below(h) : Below(h) \cap Chain(g) = {c}
        BY <1>2, <1>3, <1>4, <2>6, ChainBelow
      <3>2. e[c] = f[c] + 1 /\ \A b \in Below(h) \ {c} : e[b] = f[b]
        <4>1. c \in Chain(g) /\ \A b \in Below(h) \ {c} : b \notin Chain(g)
          BY <3>1
        <4> QED BY <2>2, <4>1
      <3>3. Sum(e, Below(h)) = Sum(f, Below(h)) + 1
        BY <2>2, <2>3, <3>2, SumBump
      <3>4. acct'[h].ticks = acct[h].ticks + 1 /\ direct'[h] = direct[h] /\ direct[h] \in Nat
        BY <1>5, <1>7, <2>6
      <3> QED BY <2>1, <2>4, <3>3, <3>4 DEF e
    <2>7. CASE h \notin Chain(g) \/ h = g
      <3>1. Below(h) \cap Chain(g) = {}
        BY <1>2, <1>3, <1>4, <2>7, ChainBelow
      <3>2. \A b \in Below(h) : e[b] = f[b]
        BY <2>2, <3>1
      <3>3. Sum(e, Below(h)) = Sum(f, Below(h))
        BY <2>3, <3>2, SumSame
      <3>4. /\ acct'[h].ticks = acct[h].ticks + IF h = g THEN 1 ELSE 0
            /\ direct'[h] = direct[h] + IF h = g THEN 1 ELSE 0
            /\ direct[h] \in Nat
        BY <1>5, <1>7, <2>5, <2>7
      <3> QED BY <2>1, <2>4, <3>3, <3>4 DEF e
    <2> QED BY <2>6, <2>7
  <1>12. \A h \in AcctGroups \ {AcctRoot} : acct'[h].live =>
            acct'[h].ticks = direct'[h] + Sum(Ticks(acct'), Below(h)')
    BY <1>5, <1>10, <1>11
  <1> QED BY <1>8, <1>9, <1>12 DEF AcctInv

\* A new group has no ticks and nobody below it.
LEMMA AcctCreateStep ==
    ASSUME AcctInv, NEW g \in AcctGroups \ {AcctRoot}, AcctCreate(g)
    PROVE  AcctInv'
  <1>1. /\ ~acct[g].live /\ acct[Over[g]].live
        /\ acct' = [acct EXCEPT ![g] = [live |-> TRUE, ticks |-> 0]]
        /\ direct' = [direct EXCEPT ![g] = 0] /\ UNCHANGED <<member, curr>>
    BY DEF AcctCreate
  <1>2. AcctTypes /\ Over[g] \in AcctGroups /\ Over[g] # g
    BY <1>1, BelowFinite DEF AcctInv
  <1>3. \A h \in AcctGroups : /\ h # g => acct'[h] = acct[h] /\ direct'[h] = direct[h]
                              /\ h = g => acct'[h].live /\ acct'[h].ticks = 0 /\ direct'[h] = 0
    BY <1>1, <1>2 DEF AcctTypes
  <1>4. /\ acct' \in [AcctGroups -> [live : BOOLEAN, ticks : Nat]]
        /\ direct' \in [AcctGroups -> Nat]
    BY <1>1, <1>2 DEF AcctTypes
  <1>5. \A h \in AcctGroups \ {AcctRoot} : h # g /\ acct[h].live => Over[h] # g /\ Over[h] \in AcctGroups
    BY <1>1, <1>2, BelowFinite DEF AcctTypes
  <1>6. AcctTypes'
    <2>1. acct'[AcctRoot].live /\ \A t \in Procs : acct'[member'[t]].live
      BY <1>1, <1>2, <1>3, BelowFinite DEF AcctTypes
    <2>2. \A h \in AcctGroups \ {AcctRoot} : acct'[h].live => acct'[Over[h]].live
      BY <1>1, <1>2, <1>3, <1>5 DEF AcctTypes
    <2> QED BY <1>1, <1>2, <1>4, <2>1, <2>2 DEF AcctTypes
  <1>7. \E e : IsDepth(e)'
    <2>1. PICK d : IsDepth(d)
      BY DEF AcctInv
    <2> DEFINE e == [d EXCEPT ![g] = d[Over[g]] + 1]
    <2>2. d \in [AcctGroups -> Nat]
      BY <2>1 DEF IsDepth
    <2>3. e \in [AcctGroups -> Nat] /\ e[g] = d[Over[g]] + 1 /\ \A h \in AcctGroups : h # g => e[h] = d[h]
      BY <1>2, <2>2
    <2> HIDE DEF e
    <2>4. ASSUME NEW h \in AcctGroups \ {AcctRoot}, acct'[h].live PROVE e[h] = e[Over[h]] + 1
      <3>1. CASE h = g
        BY <1>2, <2>3, <3>1
      <3>2. CASE h # g
        BY <1>3, <1>5, <2>1, <2>3, <2>4, <3>2 DEF IsDepth
      <3> QED BY <3>1, <3>2
    <2>5. IsDepth(e)'
      BY <2>3, <2>4 DEF IsDepth
    <2> QED BY <2>5
  <1>8. ASSUME NEW h \in AcctGroups \ {AcctRoot}, acct'[h].live
        PROVE  acct'[h].ticks = direct'[h] + Sum(Ticks(acct'), Below(h)')
    <2>1. \A c \in AcctGroups : /\ c # g => Ticks(acct')[c] = Ticks(acct)[c]
                                /\ Ticks(acct)[c] \in Nat /\ Ticks(acct')[c] \in Nat
                                /\ Ticks(acct')[g] = 0
      BY <1>2, <1>3, <1>4 DEF Ticks, AcctTypes
    <2>2. Below(h) \subseteq AcctGroups /\ IsFiniteSet(Below(h)) /\ g \notin Below(h)
      BY <1>1, BelowFinite DEF Below
    <2>3. \A c : c \in Below(h)' <=> c \in AcctGroups \ {AcctRoot} /\ acct'[c].live /\ Over[c] = h
      BY DEF Below
    <2>4. \A c : c \in Below(h) <=> c \in AcctGroups \ {AcctRoot} /\ acct[c].live /\ Over[c] = h
      BY DEF Below
    <2>5. Below(h)' = IF Over[g] = h THEN Below(h) \cup {g} ELSE Below(h)
      <3>1. \A c \in AcctGroups : acct'[c].live <=> c = g \/ acct[c].live
        BY <1>3
      <3>2. CASE Over[g] = h
        <4>1. \A c : c \in Below(h)' <=> c \in Below(h) \/ c = g
          BY <2>3, <2>4, <3>1, <3>2
        <4> QED BY <3>2, <4>1
      <3>3. CASE Over[g] # h
        <4>1. \A c : c \in Below(h)' <=> c \in Below(h)
          BY <2>3, <2>4, <3>1, <3>3
        <4> QED BY <3>3, <4>1
      <3> QED BY <3>2, <3>3
    <2>6. Sum(Ticks(acct'), Below(h)) = Sum(Ticks(acct), Below(h)) /\ Sum(Ticks(acct), Below(h)) \in Nat
      <3>1. \A c \in Below(h) : Ticks(acct')[c] = Ticks(acct)[c] /\ Ticks(acct)[c] \in Nat
        BY <2>1, <2>2
      <3> QED BY <2>2, <3>1, SumSame, SumNat
    <2>7. Sum(Ticks(acct'), Below(h)') = Sum(Ticks(acct), Below(h))
      <3>1. CASE Over[g] = h
        <4>1. \A c \in Below(h) \cup {g} : Ticks(acct')[c] \in Nat
          BY <2>1, <2>2
        <4>2. Sum(Ticks(acct'), Below(h) \cup {g}) = Ticks(acct')[g] + Sum(Ticks(acct'), Below(h))
          BY <2>2, <4>1, SumAdd
        <4>3. Ticks(acct')[g] = 0
          BY <2>1
        <4>4. Sum(Ticks(acct'), Below(h) \cup {g}) = Sum(Ticks(acct), Below(h))
          BY <2>6, <4>2, <4>3
        <4> QED BY <2>5, <3>1, <4>4
      <3>2. CASE Over[g] # h
        BY <2>5, <2>6, <3>2
      <3> QED BY <3>1, <3>2
    <2>8. CASE h # g
      <3>1. acct[h].live /\ acct'[h].ticks = acct[h].ticks /\ direct'[h] = direct[h]
        BY <1>3, <1>8, <2>8
      <3>2. acct[h].ticks = direct[h] + Sum(Ticks(acct), Below(h))
        BY <3>1 DEF AcctInv
      <3> QED BY <2>7, <3>1, <3>2
    <2>9. CASE h = g
      <3>1. Below(g) = {}
        BY <1>1, <1>2 DEF Below, AcctTypes
      <3>2. Sum(Ticks(acct), Below(h)) = 0
        BY <2>9, <3>1, SumEmpty
      <3>3. acct'[h].ticks = 0 /\ direct'[h] = 0
        BY <1>3, <2>9
      <3> QED BY <2>7, <3>2, <3>3
    <2> QED BY <2>8, <2>9
  <1> QED BY <1>6, <1>7, <1>8 DEF AcctInv

\* The ticks of a group that goes stay with the one above it.
LEMMA AcctDestroyStep ==
    ASSUME AcctInv, NEW g \in AcctGroups \ {AcctRoot}, AcctDestroy(g)
    PROVE  AcctInv'
  <1>1. /\ acct[g].live /\ Below(g) = {} /\ \A t \in Procs : member[t] # g
        /\ acct' = [acct EXCEPT ![g].live = FALSE]
        /\ direct' = Direct(Over[g], acct[g].ticks) /\ UNCHANGED <<member, curr>>
    BY DEF AcctDestroy
  <1>2. AcctTypes /\ Over[g] \in AcctGroups /\ acct[g].ticks \in Nat
    BY BelowFinite DEF AcctInv, AcctTypes
  <1>3. \A h \in AcctGroups : /\ acct'[h].live <=> acct[h].live /\ h # g
                              /\ acct'[h].ticks = acct[h].ticks /\ acct[h].ticks \in Nat
    BY <1>1, <1>2 DEF AcctTypes
  <1>4. acct' \in [AcctGroups -> [live : BOOLEAN, ticks : Nat]]
    BY <1>1, <1>2 DEF AcctTypes
  <1>5. /\ direct' \in [AcctGroups -> Nat]
        /\ \A h \in AcctGroups \ {AcctRoot} :
              direct[h] \in Nat /\ direct'[h] = direct[h] + IF h = Over[g] THEN acct[g].ticks ELSE 0
    BY <1>1, <1>2 DEF AcctTypes, Direct
  <1>6. \A h \in AcctGroups \ {AcctRoot} : acct[h].live => Over[h] # g /\ Over[h] \in AcctGroups
    BY <1>1, BelowFinite DEF Below
  <1>7. AcctTypes'
    <2>1. acct'[AcctRoot].live /\ \A t \in Procs : acct'[member'[t]].live
      BY <1>1, <1>2, <1>3, BelowFinite DEF AcctTypes
    <2>2. \A h \in AcctGroups \ {AcctRoot} : acct'[h].live => acct'[Over[h]].live
      BY <1>2, <1>3, <1>6 DEF AcctTypes
    <2> QED BY <1>1, <1>2, <1>4, <1>5, <2>1, <2>2 DEF AcctTypes
  <1>8. PICK d : IsDepth(d)
    BY DEF AcctInv
  <1>9. IsDepth(d)'
    BY <1>3, <1>8 DEF IsDepth
  <1>10. ASSUME NEW h \in AcctGroups \ {AcctRoot}, acct'[h].live
         PROVE  acct'[h].ticks = direct'[h] + Sum(Ticks(acct'), Below(h)')
    <2>1. h # g /\ acct[h].live /\ acct'[h].ticks = acct[h].ticks
      BY <1>3, <1>10
    <2>2. acct[h].ticks = direct[h] + Sum(Ticks(acct), Below(h))
      BY <2>1 DEF AcctInv
    <2> DEFINE f == Ticks(acct)
    <2>3. \A c \in AcctGroups : f[c] = acct[c].ticks /\ f[c] \in Nat
      BY <1>3 DEF Ticks
    <2>4. Ticks(acct') = f
      BY <1>3 DEF Ticks
    <2> HIDE DEF f
    <2>5. Below(h) \subseteq AcctGroups /\ IsFiniteSet(Below(h))
      BY BelowFinite
    <2>6. \A c : c \in Below(h)' <=> c \in AcctGroups \ {AcctRoot} /\ acct'[c].live /\ Over[c] = h
      BY DEF Below
    <2>7. \A c : c \in Below(h) <=> c \in AcctGroups \ {AcctRoot} /\ acct[c].live /\ Over[c] = h
      BY DEF Below
    <2>8. Below(h)' = Below(h) \ {g}
      BY <1>3, <2>6, <2>7
    <2>9. CASE h = Over[g]
      <3>1. g \in Below(h)
        BY <1>1, <2>7, <2>9
      <3> DEFINE S == Below(h) \ {g}
      <3>2. IsFiniteSet(S) /\ g \notin S /\ S \cup {g} = Below(h) /\ \A c \in S \cup {g} : f[c] \in Nat
        BY <2>3, <2>5, <3>1, FS_RemoveElement
      <3>3. Below(h)' = S
        BY <2>8
      <3> HIDE DEF S
      <3>4. Sum(f, Below(h)) = f[g] + Sum(f, S) /\ Sum(f, S) \in Nat
        <4>1. Sum(f, S \cup {g}) = f[g] + Sum(f, S)
          BY <3>2, SumAdd
        <4>2. Sum(f, S) \in Nat
          BY <3>2, SumNat
        <4> QED BY <3>2, <4>1, <4>2
      <3>5. direct'[h] = direct[h] + f[g] /\ direct[h] \in Nat /\ f[g] \in Nat
        BY <1>5, <2>3, <2>9
      <3>6. acct[h].ticks = direct[h] + Sum(f, Below(h))
        BY <2>2 DEF f
      <3>7. acct[h].ticks = direct'[h] + Sum(f, S)
        BY <3>4, <3>5, <3>6
      <3> QED BY <2>1, <2>4, <3>3, <3>7
    <2>10. CASE h # Over[g]
      <3>1. Below(h)' = Below(h)
        BY <2>7, <2>8, <2>10
      <3>2. direct'[h] = direct[h]
        BY <1>5, <2>10
      <3> QED BY <2>1, <2>2, <2>4, <3>1, <3>2 DEF f
    <2> QED BY <2>9, <2>10
  <1> QED BY <1>7, <1>9, <1>10 DEF AcctInv

LEMMA AcctStep == AcctInv /\ ClockInv' /\ [TimeNext]_timeVars => AcctInv'
  <1> SUFFICES ASSUME AcctInv, ClockInv', [TimeNext]_timeVars PROVE AcctInv'
    OBVIOUS
  <1>1. curr' \in Procs \cup {Swapper}
    BY DEF ClockInv, ClockTypes
  <1>2. ASSUME UNCHANGED <<acct, direct, member>> PROVE AcctInv'
    <2>1. AcctTypes'
      BY <1>1, <1>2 DEF AcctInv, AcctTypes
    <2> QED BY <1>2, <2>1, AcctKept
  <1>3. ASSUME \/ \E t \in Procs \cup {Swapper} : Switch(t)
               \/ IoSchedule \/ IoReturn \/ Sleep
               \/ \E t \in Procs : WakeProc(t)
               \/ StopTick \/ StartTick
               \/ \E n \in Skips : SleepOn(n)
               \/ UNCHANGED timeVars
        PROVE  AcctInv'
    <2>1. UNCHANGED <<acct, direct, member>>
      BY <1>3 DEF Switch, IoSchedule, IoReturn, Sleep, WakeProc, StopTick, StartTick,
                  AccountIdle, SleepOn, timeVars
    <2> QED BY <1>2, <2>1
  <1>4. ASSUME NEW t \in Procs, NEW g \in AcctGroups, AcctMove(t, g) PROVE AcctInv'
    <2>1. acct[g].live /\ member' = [member EXCEPT ![t] = g] /\ UNCHANGED <<acct, direct>>
      BY <1>4 DEF AcctMove
    <2>2. AcctTypes'
      BY <1>1, <2>1 DEF AcctInv, AcctTypes
    <2> QED BY <2>1, <2>2, AcctKept
  <1>5. ASSUME NEW kind \in TickKinds, ProcessTick(kind) PROVE AcctInv'
    <2>1. UNCHANGED <<curr, member>> /\ (AccountTask(kind) \/ AccountIdle(1))
      BY <1>5 DEF ProcessTick
    <2>2. CASE AccountTask(kind)
      BY <2>1, <2>2, ChargeStep
    <2>3. CASE AccountIdle(1)
      BY <1>2, <2>1, <2>3 DEF AccountIdle
    <2> QED BY <2>1, <2>2, <2>3
  <1> QED BY <1>3, <1>4, <1>5, AcctCreateStep, AcctDestroyStep DEF TimeNext

\* For any tasks and any tree of accounting groups: every tick goes to one field
\* of cpustat, iowait has those idle ticks that had a task inside io_schedule,
\* and every group was charged what its tasks and the groups below it were,
\* although the processor sleeps without a tick and tasks and groups come, move
\* and go in between.
THEOREM TimeTheorem == TimeSpec => []TimeConserved
  <1>1. ClockInv /\ AcctInv => TimeConserved
    BY GroupsAddUpAsSum DEF ClockInv, AcctInv, TimeConserved
  <1>2. ClockInv /\ AcctInv /\ [TimeNext]_timeVars => ClockInv' /\ AcctInv'
    BY ClockStep, AcctStep
  <1> QED BY <1>1, <1>2, ClockInit, AcctInit, PTL DEF TimeSpec

-----------------------------------------------------------------------------
(* The load average: a fold sees the tasks of its window *)

IsLoad(l) ==
    /\ l = [update |-> l.update, tasks |-> l.tasks, idle |-> l.idle, idx |-> l.idx,
            avenrun |-> l.avenrun]
    /\ l.update \in Nat /\ l.tasks \in Int
    /\ l.idle \in [1 .. 2 -> Int] /\ l.idx \in 1 .. 2

LoadTypes ==
    /\ IsLoad(load) /\ jiffies \in Nat /\ rqUpdate \in Nat /\ rqActive \in Nat
    /\ work \in [Workers -> {"R", "S", "D"}] /\ stopped \in BOOLEAN
    /\ skipped \in BOOLEAN /\ seen \in Nat

\* What the next fold takes, and what it leaves to the one after it.
Taken(l) == l.tasks + l.idle[l.idx]
Left(l)  == l.idle[3 - l.idx]

\* The three places of the samples have what the run queue has given away: all of
\* its active tasks when it is idle without a tick.  Before a window opens nothing
\* is left to the next one; from then on the fold takes what was seen.
Samples ==
    /\ Taken(load) + Left(load) = rqActive
    /\ stopped /\ Running = {} => rqActive = NrActive
    /\ jiffies < load.update => Left(load) = 0
    /\ jiffies >= load.update /\ ~skipped => Taken(load) = seen

\* The run queue of a processor that ticks samples the next window or a later one.
Windows ==
    /\ jiffies < load.update + WindowTicks /\ load.update <= jiffies + LOAD_FREQ
    /\ \E k \in Int : rqUpdate = load.update + k * LOAD_FREQ
    /\ ~stopped => rqUpdate >= IF jiffies < load.update THEN load.update
                               ELSE load.update + LOAD_FREQ

LoadInv == LoadTypes /\ Samples /\ Windows

LEMMA LoadConstants ==
    /\ WindowTicks \in Nat /\ WindowTicks > 0 /\ LOAD_FREQ \in Nat /\ WindowTicks < LOAD_FREQ
    /\ \A n \in Jumps : n \in Nat /\ n > 0
  BY LoadAvgAssumption

LEMMA NrActiveType == NrActive \in Nat
  <1>1. IsFiniteSet({w \in Workers : work[w] \in {"R", "D"}})
    <2>1. IsFiniteSet(Workers) /\ {w \in Workers : work[w] \in {"R", "D"}} \in SUBSET Workers
      BY LoadAvgAssumption
    <2> QED BY <2>1, FS_Subset
  <1> QED BY <1>1, FS_CardinalityType DEF NrActive

LEMMA LoadInitInv == LoadInit => LoadInv
  <1> SUFFICES ASSUME LoadInit PROVE LoadInv
    OBVIOUS
  <1>1. /\ jiffies = 0 /\ rqUpdate = LOAD_FREQ /\ rqActive = 0 /\ stopped = FALSE
        /\ seen = 0 /\ skipped = FALSE /\ work = [w \in Workers |-> "R"]
        /\ load = [update |-> LOAD_FREQ, tasks |-> 0, idle |-> <<0, 0>>, idx |-> 1,
                   avenrun |-> 0]
    BY DEF LoadInit
  <1>2. LoadTypes
    <2>1. <<0, 0>> \in [1 .. 2 -> Int]
      OBVIOUS
    <2>2. IsLoad(load)
      BY <1>1, <2>1, LoadConstants DEF IsLoad
    <2> QED BY <1>1, <2>2, LoadConstants DEF LoadTypes
  <1>3. Samples
    BY <1>1, LoadConstants DEF Samples, Taken, Left
  <1>4. Windows
    <2>1. rqUpdate = load.update + 0 * LOAD_FREQ
      BY <1>1, LoadConstants
    <2> QED BY <1>1, <2>1, LoadConstants DEF Windows
  <1> QED BY <1>2, <1>3, <1>4 DEF LoadInv

\* Windows are LOAD_FREQ apart.
LEMMA NextWindow ==
    ASSUME NEW u \in Nat, NEW k \in Int, u + k * LOAD_FREQ > u
    PROVE  u + k * LOAD_FREQ >= u + LOAD_FREQ
  <1>1. LOAD_FREQ \in Nat
    BY LoadConstants
  <1>2. k * LOAD_FREQ \in Int /\ k * LOAD_FREQ > 0
    BY <1>1
  <1>3. k >= 1
    BY <1>1, <1>2
  <1>4. k * LOAD_FREQ >= LOAD_FREQ
    BY <1>1, <1>3
  <1> QED BY <1>1, <1>2, <1>4

\* calc_global_nohz goes past every window whose fold is due.
LEMMA BehindType ==
    ASSUME NEW u \in Nat, NEW now \in Nat
    PROVE  /\ Behind(now, u) \in Nat
           /\ now < u + Behind(now, u) * LOAD_FREQ + WindowTicks
           /\ now < u + WindowTicks => Behind(now, u) = 0
           /\ u <= now + LOAD_FREQ => u + Behind(now, u) * LOAD_FREQ <= now + LOAD_FREQ
  <1>1. WindowTicks \in Nat /\ LOAD_FREQ \in Nat /\ LOAD_FREQ > 0
    BY LoadConstants
  <1>2. CASE now < u + WindowTicks
    <2>1. Behind(now, u) = 0
      BY <1>2 DEF Behind
    <2>2. 0 * LOAD_FREQ = 0
      BY <1>1
    <2> QED BY <1>1, <1>2, <2>1, <2>2
  <1>3. CASE ~(now < u + WindowTicks)
    <2> DEFINE x == now - u - WindowTicks
               q == x \div LOAD_FREQ
    <2>1. x \in Nat
      BY <1>1, <1>3
    <2>2. Behind(now, u) = 1 + q
      BY <1>3 DEF Behind
    <2>3. now = x + u + WindowTicks
      BY <1>1
    <2> HIDE DEF x
    <2>4. q \in Nat /\ x < (1 + q) * LOAD_FREQ /\ (1 + q) * LOAD_FREQ <= x + LOAD_FREQ
      BY <1>1, <2>1
    <2> HIDE DEF q
    <2>5. (1 + q) * LOAD_FREQ \in Nat
      BY <1>1, <2>4
    <2> QED BY <1>1, <1>3, <2>1, <2>2, <2>3, <2>4, <2>5
  <1> QED BY <1>2, <1>3

\* A fold takes the samples of one window and leaves those of the next.
LEMMA FoldFacts ==
    ASSUME LoadTypes, NEW now \in Nat
    PROVE  /\ IsLoad(Fold(now))
           /\ Fold(now).tasks = Taken(load)
           /\ Fold(now).idx = 3 - load.idx
           /\ Taken(Fold(now)) = Taken(load) + Left(load) /\ Left(Fold(now)) = 0
           /\ \E n \in Nat : /\ Fold(now).update = load.update + LOAD_FREQ + n * LOAD_FREQ
                             /\ now < Fold(now).update + WindowTicks
                             /\ now < load.update + LOAD_FREQ + WindowTicks => n = 0
           /\ load.update <= now => Fold(now).update <= now + LOAD_FREQ
  <1> DEFINE l == Fold(now)
             u == load.update + LOAD_FREQ
             n == Behind(now, u)
             i == [load.idle EXCEPT ![load.idx] = 0]
  <1>1. /\ load.idx \in 1 .. 2 /\ load.idle \in [1 .. 2 -> Int] /\ load.tasks \in Int
        /\ load.update \in Nat /\ u \in Nat
    BY LoadConstants DEF LoadTypes, IsLoad
  <1>2. \E a : l = [update |-> u + n * LOAD_FREQ, tasks |-> load.tasks + load.idle[load.idx],
                       idle |-> i, idx |-> 3 - load.idx, avenrun |-> a]
    BY Zenon DEF Fold
  <1>3. /\ l.update = u + n * LOAD_FREQ /\ l.tasks = Taken(load) /\ l.idle = i /\ l.idx = 3 - load.idx
        /\ l = [update |-> l.update, tasks |-> l.tasks, idle |-> l.idle, idx |-> l.idx,
                avenrun |-> l.avenrun]
    BY <1>2 DEF Taken
  <1> HIDE DEF l
  <1>4. 3 - load.idx \in 1 .. 2 /\ 3 - load.idx # load.idx /\ 3 - (3 - load.idx) = load.idx
    BY <1>1
  <1>5. i \in [1 .. 2 -> Int] /\ i[load.idx] = 0 /\ i[3 - load.idx] = load.idle[3 - load.idx]
    BY <1>1, <1>4
  <1>6. Taken(load) \in Int
    BY <1>1 DEF Taken
  <1> HIDE DEF i
  <1>7. Taken(l) = Taken(load) + Left(load) /\ Left(l) = 0
    BY <1>3, <1>4, <1>5 DEF Taken, Left
  <1>8. /\ n \in Nat /\ now < u + n * LOAD_FREQ + WindowTicks /\ (now < u + WindowTicks => n = 0)
        /\ u <= now + LOAD_FREQ => u + n * LOAD_FREQ <= now + LOAD_FREQ
    BY <1>1, BehindType
  <1> HIDE DEF n
  <1>9. n * LOAD_FREQ \in Nat
    BY <1>8, LoadConstants
  <1>10. l.update \in Nat
    BY <1>1, <1>3, <1>9
  <1>11. IsLoad(l)
    BY <1>3, <1>4, <1>5, <1>6, <1>10 DEF IsLoad
  <1>12. \E m \in Nat : /\ l.update = load.update + LOAD_FREQ + m * LOAD_FREQ
                        /\ now < l.update + WindowTicks
                        /\ now < load.update + LOAD_FREQ + WindowTicks => m = 0
    BY <1>3, <1>8
  <1>13. load.update <= now => l.update <= now + LOAD_FREQ
    BY <1>1, <1>3, <1>8, LoadConstants
  <1> QED BY <1>3, <1>7, <1>11, <1>12, <1>13 DEF l

\* What a step must show of a fold.
Fair == Folds /\ ~skipped => load'.tasks = Sample

LEMMA LoadFacts ==
    ASSUME LoadInv
    PROVE  /\ jiffies \in Nat /\ rqUpdate \in Nat /\ rqActive \in Nat /\ NrActive \in Nat
           /\ load.update \in Nat /\ load.tasks \in Int /\ load.idx \in 1 .. 2
           /\ load.idle \in [1 .. 2 -> Int] /\ Taken(load) \in Int /\ Left(load) \in Int
           /\ WindowTicks \in Nat /\ WindowTicks > 0 /\ LOAD_FREQ \in Nat /\ WindowTicks < LOAD_FREQ
           /\ jiffies < load.update + WindowTicks /\ load.update <= jiffies + LOAD_FREQ
  <1>1. 3 - load.idx \in 1 .. 2
    BY DEF LoadInv, LoadTypes, IsLoad
  <1> QED BY <1>1, NrActiveType, LoadConstants DEF LoadInv, LoadTypes, IsLoad, Windows, Taken, Left

\* The multiple of LOAD_FREQ between the two updates after a fold.
LEMMA StillWhole ==
    ASSUME NEW u \in Nat, NEW n \in Nat, NEW r \in Nat, NEW k \in Int, r = u + k * LOAD_FREQ
    PROVE  \E m \in Int : r = (u + LOAD_FREQ + n * LOAD_FREQ) + m * LOAD_FREQ
  <1>1. LOAD_FREQ \in Nat
    BY LoadConstants
  <1> DEFINE m == k - 1 - n
  <1>2. m \in Int
    OBVIOUS
  <1>3. m * LOAD_FREQ = k * LOAD_FREQ - LOAD_FREQ - n * LOAD_FREQ
    BY <1>1
  <1>4. n * LOAD_FREQ \in Nat /\ k * LOAD_FREQ \in Int
    BY <1>1
  <1>5. r = (u + LOAD_FREQ + n * LOAD_FREQ) + m * LOAD_FREQ
    BY <1>1, <1>3, <1>4
  <1> QED BY <1>2, <1>5

\* An interrupt in idle without a tick: all that is active has been given away.
LEMMA IdleInterruptStep ==
    ASSUME LoadInv, NEW n \in Jumps, IdleInterrupt(n)
    PROVE  LoadInv' /\ Fair
  <1> DEFINE now == jiffies + n
             l == GlobalLoad(now)
  <1>1. /\ stopped /\ Running = {} /\ load' = l /\ jiffies' = now
        /\ UNCHANGED <<rqUpdate, rqActive, work, stopped>>
        /\ IF jiffies < l.update /\ l.update <= now
           THEN seen' = NrActive /\ skipped' = (~stopped /\ now < rqUpdate)
           ELSE UNCHANGED <<seen, skipped>>
    BY Zenon DEF IdleInterrupt, TimeIs
  <1>2. /\ rqActive = NrActive /\ NrActive' = NrActive /\ Running' = Running
        /\ Taken(load) + Left(load) = rqActive
    BY <1>1 DEF LoadInv, Samples, NrActive, Running
  <1>3. now \in Nat /\ jiffies < now /\ load.update <= now + LOAD_FREQ
    BY LoadFacts, LoadConstants
  <1>4. PICK k \in Int : rqUpdate = load.update + k * LOAD_FREQ
    BY DEF LoadInv, Windows
  <1>5. CASE now < load.update + WindowTicks
    <2>1. l = load
      BY <1>5 DEF GlobalLoad
    <2>2. ~Folds /\ load' = load
      BY <1>1, <2>1 DEF Folds
    <2>3. CASE jiffies < load.update /\ load.update <= now
      <3>1. seen' = NrActive /\ skipped' = FALSE
        BY <1>1, <2>1, <2>3
      <3>2. Left(load) = 0
        BY <2>3 DEF LoadInv, Samples
      <3>3. LoadTypes'
        BY <1>1, <1>3, <2>2, <3>1, LoadFacts DEF LoadInv, LoadTypes
      <3>4. Samples'
        BY <1>1, <1>2, <2>2, <2>3, <3>1, <3>2, LoadFacts DEF Samples
      <3>5. Windows'
        BY <1>1, <1>3, <1>4, <1>5, <2>2 DEF Windows
      <3> QED BY <2>2, <3>3, <3>4, <3>5 DEF LoadInv, Fair
    <2>4. CASE ~(jiffies < load.update /\ load.update <= now)
      <3>1. UNCHANGED <<seen, skipped>>
        BY <1>1, <2>1, <2>4
      <3>2. now < load.update <=> jiffies < load.update
        BY <1>3, <2>4, LoadFacts
      <3>3. LoadTypes'
        BY <1>1, <1>3, <2>2, <3>1 DEF LoadInv, LoadTypes
      <3>4. Samples'
        BY <1>1, <1>2, <1>3, <2>2, <3>1, <3>2, LoadFacts DEF LoadInv, Samples
      <3>5. Windows'
        BY <1>1, <1>3, <1>4, <1>5, <2>2 DEF Windows
      <3> QED BY <2>2, <3>3, <3>4, <3>5 DEF LoadInv, Fair
    <2> QED BY <2>3, <2>4
  <1>6. CASE ~(now < load.update + WindowTicks)
    <2>1. l = Fold(now)
      BY <1>6 DEF GlobalLoad
    <2> HIDE DEF l
    <2>2. PICK m \in Nat : /\ l.update = load.update + LOAD_FREQ + m * LOAD_FREQ
                           /\ now < l.update + WindowTicks
      BY <1>3, <2>1, FoldFacts DEF LoadInv
    <2>3. /\ IsLoad(l) /\ l.tasks = Taken(load)
          /\ Taken(l) = Taken(load) + Left(load) /\ Left(l) = 0
          /\ l.update <= now + LOAD_FREQ
      <3>1. load.update <= now
        BY <1>3, <1>6, LoadFacts
      <3> QED BY <1>3, <2>1, <3>1, FoldFacts DEF LoadInv
    <2>4. m * LOAD_FREQ \in Nat /\ l.update \in Nat
      BY <2>3, LoadFacts DEF IsLoad
    <2>5. jiffies < l.update
      BY <2>2, <2>4, LoadFacts
    <2>6. LoadTypes'
      <3>1. seen' \in Nat /\ skipped' \in BOOLEAN
        BY <1>1, LoadFacts DEF LoadInv, LoadTypes
      <3> QED BY <1>1, <1>3, <2>3, <3>1 DEF LoadInv, LoadTypes
    <2>7. Samples'
      <3>1. Taken(l) + Left(l) = rqActive /\ Taken(l) = rqActive
        BY <1>2, <2>3, LoadFacts
      <3>2. now >= l.update => seen' = NrActive
        BY <1>1, <2>4, <2>5
      <3> QED BY <1>1, <1>2, <2>3, <3>1, <3>2 DEF Samples
    <2>8. Windows'
      <3>1. \E i \in Int : rqUpdate = l.update + i * LOAD_FREQ
        <4>1. load.update \in Nat /\ rqUpdate \in Nat
          BY LoadFacts
        <4>2. \E i \in Int : rqUpdate = (load.update + LOAD_FREQ + m * LOAD_FREQ) + i * LOAD_FREQ
          BY <1>4, <4>1, StillWhole
        <4> QED BY <2>2, <4>2
      <3> QED BY <1>1, <2>2, <2>3, <3>1 DEF Windows
    <2>9. Fair
      <3>1. CASE jiffies < load.update
        <4>1. Left(load) = 0 /\ Taken(load) = NrActive /\ Sample = NrActive
          BY <1>2, <3>1, LoadFacts DEF LoadInv, Samples, Sample
        <4> QED BY <1>1, <2>3, <4>1 DEF Fair
      <3>2. CASE ~(jiffies < load.update)
        <4>1. ~skipped => Taken(load) = seen
          BY <3>2, LoadFacts DEF LoadInv, Samples
        <4> QED BY <1>1, <2>3, <3>2, <4>1 DEF Fair, Sample
      <3> QED BY <3>1, <3>2
    <2> QED BY <2>6, <2>7, <2>8, <2>9 DEF LoadInv
  <1> QED BY <1>5, <1>6

\* A tick: a processor that ticks samples a window before its fold is due.
LEMMA LoadTickStep ==
    ASSUME LoadInv, Tick
    PROVE  LoadInv' /\ Fair
  <1> DEFINE now == jiffies + 1
             l == GlobalLoad(now)
  <1>1. /\ ~stopped /\ jiffies' = now
        /\ IF now < rqUpdate
           THEN load' = l /\ UNCHANGED <<rqUpdate, rqActive>>
           ELSE /\ load' = [l EXCEPT !.tasks = @ + ActiveDelta]
                /\ rqActive' = NrActive
                /\ rqUpdate' = rqUpdate + LOAD_FREQ
        /\ UNCHANGED <<work, stopped>>
        /\ IF jiffies < l.update /\ l.update <= now
           THEN seen' = NrActive /\ skipped' = (~stopped /\ now < rqUpdate)
           ELSE UNCHANGED <<seen, skipped>>
    BY Zenon DEF Tick, TimeIs
  <1>2. /\ Taken(load) + Left(load) = rqActive /\ NrActive' = NrActive
        /\ rqUpdate >= IF jiffies < load.update THEN load.update ELSE load.update + LOAD_FREQ
    BY <1>1 DEF LoadInv, Samples, Windows, NrActive
  <1>3. now \in Nat /\ jiffies < now
    BY LoadFacts
  <1>4. PICK k \in Int : rqUpdate = load.update + k * LOAD_FREQ
    BY DEF LoadInv, Windows
  <1>5. CASE now < load.update
    <2>1. l = load
      BY <1>3, <1>5, LoadFacts DEF GlobalLoad
    <2>2. now < rqUpdate /\ jiffies < load.update
      BY <1>2, <1>3, <1>5, LoadFacts
    <2>3. load' = load /\ UNCHANGED <<rqUpdate, rqActive, seen, skipped>> /\ ~Folds
      BY <1>1, <1>3, <1>5, <2>1, <2>2, LoadFacts DEF Folds
    <2>4. LoadTypes'
      BY <1>1, <1>3, <2>3 DEF LoadInv, LoadTypes
    <2>5. Samples'
      BY <1>1, <1>3, <1>5, <2>2, <2>3, LoadFacts DEF LoadInv, Samples
    <2>6. Windows'
      BY <1>1, <1>2, <1>4, <1>5, <2>2, <2>3, LoadFacts DEF Windows
    <2> QED BY <2>3, <2>4, <2>5, <2>6 DEF LoadInv, Fair
  <1>6. CASE now = load.update
    <2>1. l = load /\ jiffies < load.update
      BY <1>3, <1>6, LoadFacts DEF GlobalLoad
    <2>2. Left(load) = 0 /\ Taken(load) = rqActive
      BY <1>2, <2>1, LoadFacts DEF LoadInv, Samples
    <2>3. seen' = NrActive /\ skipped' = (now < rqUpdate)
      BY <1>1, <1>6, <2>1, LoadFacts
    <2>4. CASE now < rqUpdate
      <3>1. load' = load /\ UNCHANGED <<rqUpdate, rqActive>> /\ ~Folds
        BY <1>1, <2>1, <2>4 DEF Folds
      <3>2. rqUpdate >= load.update + LOAD_FREQ
        BY <1>4, <1>6, <2>4, LoadFacts, NextWindow
      <3>3. LoadTypes'
        BY <1>1, <1>3, <2>3, <3>1, LoadFacts DEF LoadInv, LoadTypes
      <3>4. Samples'
        <4>1. ~stopped' /\ skipped' /\ jiffies' = load.update /\ load' = load /\ rqActive' = rqActive
          BY <1>1, <1>6, <2>3, <2>4, <3>1
        <4> QED BY <1>2, <4>1, LoadFacts DEF Samples
      <3>5. Windows'
        BY <1>1, <1>4, <1>6, <3>1, <3>2, LoadFacts DEF Windows
      <3> QED BY <3>1, <3>3, <3>4, <3>5 DEF LoadInv, Fair
    <2>5. CASE ~(now < rqUpdate)
      <3>1. /\ load' = [load EXCEPT !.tasks = @ + ActiveDelta]
            /\ rqActive' = NrActive /\ rqUpdate' = rqUpdate + LOAD_FREQ
        BY <1>1, <2>1, <2>5
      <3>2. ActiveDelta = NrActive - rqActive /\ ActiveDelta \in Int
        BY LoadFacts DEF ActiveDelta
      <3>3. IsLoad(load)
        BY DEF LoadInv, LoadTypes
      <3>4. /\ IsLoad(load') /\ load'.update = load.update /\ load'.idle = load.idle
            /\ load'.idx = load.idx /\ load'.tasks = load.tasks + ActiveDelta
        BY <3>1, <3>2, <3>3 DEF IsLoad
      <3>5. Taken(load') = Taken(load) + ActiveDelta /\ Left(load') = Left(load)
        BY <3>2, <3>4, LoadFacts DEF Taken, Left
      <3>6. rqUpdate = load.update
        BY <1>2, <1>6, <2>1, <2>5, LoadFacts
      <3>7. LoadTypes'
        BY <1>1, <1>3, <2>3, <3>1, <3>4, LoadFacts DEF LoadInv, LoadTypes
      <3>8. Samples'
        <4>1. Taken(load') = NrActive /\ Left(load') = 0
          BY <2>2, <3>2, <3>5, LoadFacts
        <4> QED BY <1>1, <1>2, <2>3, <3>1, <4>1, LoadFacts DEF Samples
      <3>9. Windows'
        <4>1. rqUpdate' = load'.update + 1 * LOAD_FREQ
          BY <3>1, <3>4, <3>6, LoadFacts
        <4> QED BY <1>1, <1>6, <3>4, <4>1, LoadFacts DEF Windows
      <3>10. ~Folds
        BY <3>4 DEF Folds
      <3> QED BY <3>7, <3>8, <3>9, <3>10 DEF LoadInv, Fair
    <2> QED BY <2>4, <2>5
  <1>7. CASE now > load.update /\ now < load.update + WindowTicks
    <2>1. l = load /\ ~(jiffies < load.update)
      BY <1>3, <1>7, LoadFacts DEF GlobalLoad
    <2>2. now < rqUpdate
      BY <1>2, <1>7, <2>1, LoadFacts
    <2>3. load' = load /\ UNCHANGED <<rqUpdate, rqActive, seen, skipped>> /\ ~Folds
      BY <1>1, <2>1, <2>2 DEF Folds
    <2>4. LoadTypes'
      BY <1>1, <1>3, <2>3 DEF LoadInv, LoadTypes
    <2>5. Samples'
      BY <1>1, <1>3, <1>7, <2>1, <2>3, LoadFacts DEF LoadInv, Samples
    <2>6. Windows'
      BY <1>1, <1>2, <1>4, <1>7, <2>1, <2>3, LoadFacts DEF Windows
    <2> QED BY <2>3, <2>4, <2>5, <2>6 DEF LoadInv, Fair
  <1>8. CASE ~(now < load.update + WindowTicks)
    <2>1. l = Fold(now) /\ now = load.update + WindowTicks /\ ~(jiffies < load.update)
      BY <1>3, <1>8, LoadFacts DEF GlobalLoad
    <2> HIDE DEF l
    <2>2. PICK m \in Nat : /\ l.update = load.update + LOAD_FREQ + m * LOAD_FREQ
                           /\ now < l.update + WindowTicks
                           /\ now < load.update + LOAD_FREQ + WindowTicks => m = 0
      BY <1>3, <2>1, FoldFacts DEF LoadInv
    <2>3. /\ IsLoad(l) /\ l.tasks = Taken(load)
          /\ Taken(l) = Taken(load) + Left(load) /\ Left(l) = 0
          /\ l.update <= now + LOAD_FREQ
      <3>1. load.update <= now
        BY <1>3, <1>8, LoadFacts
      <3> QED BY <1>3, <2>1, <3>1, FoldFacts DEF LoadInv
    <2>4. m = 0 /\ 0 * LOAD_FREQ = 0
      BY <2>1, <2>2, LoadFacts
    <2>5. l.update = load.update + LOAD_FREQ /\ now < l.update
      BY <2>1, <2>2, <2>4, LoadFacts
    <2>6. now < rqUpdate
      BY <1>2, <2>1, <2>5, LoadFacts
    <2>7. load' = l /\ UNCHANGED <<rqUpdate, rqActive, seen, skipped>>
      BY <1>1, <1>3, <2>5, <2>6, LoadFacts
    <2>8. LoadTypes'
      BY <1>1, <1>3, <2>3, <2>7 DEF LoadInv, LoadTypes
    <2>9. Samples'
      <3>1. Taken(l) + Left(l) = rqActive
        BY <1>2, <2>3, LoadFacts
      <3>2. ~stopped' /\ rqActive' = rqActive /\ load' = l /\ jiffies' < l.update
        BY <1>1, <2>5, <2>7
      <3>3. l.update \in Nat /\ jiffies' \in Nat
        BY <1>1, <1>3, <2>3 DEF IsLoad
      <3>4. ~(jiffies' >= l.update)
        BY <3>2, <3>3
      <3> QED BY <2>3, <3>1, <3>2, <3>4 DEF Samples
    <2>10. Windows'
      <3>1. \E i \in Int : rqUpdate = l.update + i * LOAD_FREQ
        <4>1. load.update \in Nat /\ rqUpdate \in Nat
          BY LoadFacts
        <4>2. \E i \in Int : rqUpdate = (load.update + LOAD_FREQ + m * LOAD_FREQ) + i * LOAD_FREQ
          BY <1>4, <4>1, StillWhole
        <4> QED BY <2>2, <4>2
      <3>2. rqUpdate >= l.update
        BY <1>2, <2>1, <2>5, LoadFacts
      <3>3. jiffies' < load'.update + WindowTicks /\ load'.update <= jiffies' + LOAD_FREQ
        BY <1>1, <2>2, <2>3, <2>7
      <3>4. \E i \in Int : rqUpdate' = load'.update + i * LOAD_FREQ
        BY <2>7, <3>1
      <3> QED BY <1>1, <2>5, <2>7, <3>2, <3>3, <3>4 DEF Windows
    <2>11. Fair
      <3>1. ~skipped => Taken(load) = seen
        BY <2>1, LoadFacts DEF LoadInv, Samples
      <3> QED BY <2>1, <2>3, <2>7, <3>1 DEF Fair, Sample
    <2> QED BY <2>8, <2>9, <2>10, <2>11 DEF LoadInv
  <1> QED BY <1>3, <1>5, <1>6, <1>7, <1>8, LoadFacts

\* The entry into idle gives the rest away: to the fold of a window that has not
\* opened yet, or to the one after it.
LEMMA EnterIdleStep ==
    ASSUME LoadInv, EnterIdle
    PROVE  LoadInv' /\ Fair
  <1> DEFINE w == WriteIdx
  <1>1. /\ ~stopped /\ Running = {} /\ stopped' = TRUE /\ rqActive' = NrActive
        /\ load' = [load EXCEPT !.idle[w] = @ + ActiveDelta]
        /\ UNCHANGED <<jiffies, rqUpdate, work, seen, skipped>>
    BY DEF EnterIdle
  <1>2. /\ w = IF jiffies < load.update THEN load.idx ELSE 3 - load.idx
        /\ w \in 1 .. 2 /\ 3 - load.idx \in 1 .. 2 /\ 3 - load.idx # load.idx
    BY LoadFacts DEF WriteIdx
  <1>3. ActiveDelta = NrActive - rqActive /\ ActiveDelta \in Int
    BY LoadFacts DEF ActiveDelta
  <1>4. IsLoad(load)
    BY DEF LoadInv, LoadTypes
  <1> HIDE DEF w
  <1>5. /\ load'.update = load.update /\ load'.idx = load.idx /\ load'.tasks = load.tasks
        /\ load'.idle = [load.idle EXCEPT ![w] = @ + ActiveDelta]
        /\ load' = [update |-> load'.update, tasks |-> load'.tasks, idle |-> load'.idle,
                    idx |-> load'.idx, avenrun |-> load'.avenrun]
    BY <1>1, <1>4 DEF IsLoad
  <1>6. /\ load'.idle \in [1 .. 2 -> Int] /\ load'.idle[w] = load.idle[w] + ActiveDelta
        /\ \A i \in 1 .. 2 : i # w => load'.idle[i] = load.idle[i]
    BY <1>2, <1>3, <1>4, <1>5 DEF IsLoad
  <1>7. IsLoad(load')
    BY <1>4, <1>5, <1>6 DEF IsLoad
  <1>8. LoadTypes'
    BY <1>1, <1>7, LoadFacts DEF LoadInv, LoadTypes
  <1>9. NrActive' = NrActive /\ Running' = Running
    BY <1>1 DEF NrActive, Running
  <1>10. CASE jiffies < load.update
    <2>1. Taken(load') = Taken(load) + ActiveDelta /\ Left(load') = Left(load)
      BY <1>2, <1>3, <1>5, <1>6, <1>10, LoadFacts DEF Taken, Left
    <2>2. Taken(load') + Left(load') = rqActive'
      BY <1>1, <1>3, <2>1, LoadFacts DEF LoadInv, Samples
    <2>3. Samples'
      BY <1>1, <1>5, <1>9, <1>10, <2>1, <2>2, LoadFacts DEF LoadInv, Samples
    <2> QED BY <1>1, <1>5, <1>8, <2>3 DEF LoadInv, Windows, Fair, Folds
  <1>11. CASE ~(jiffies < load.update)
    <2>1. Taken(load') = Taken(load) /\ Left(load') = Left(load) + ActiveDelta
      BY <1>2, <1>3, <1>5, <1>6, <1>11, LoadFacts DEF Taken, Left
    <2>2. Taken(load') + Left(load') = rqActive'
      BY <1>1, <1>3, <2>1, LoadFacts DEF LoadInv, Samples
    <2>3. Samples'
      BY <1>1, <1>5, <1>9, <1>11, <2>1, <2>2, LoadFacts DEF LoadInv, Samples
    <2> QED BY <1>1, <1>5, <1>8, <2>3 DEF LoadInv, Windows, Fair, Folds
  <1> QED BY <1>10, <1>11

\* The exit puts the run queue to a window that has not opened yet.
LEMMA ExitIdleStep ==
    ASSUME LoadInv, ExitIdle
    PROVE  LoadInv' /\ Fair
  <1>1. /\ stopped /\ stopped' = FALSE /\ rqUpdate' = IF jiffies < rqUpdate THEN rqUpdate ELSE Resynced
        /\ UNCHANGED <<jiffies, load, rqActive, work, seen, skipped>>
    BY DEF ExitIdle
  <1>2. Resynced = load.update + LOAD_FREQ
    BY LoadFacts DEF Resynced
  <1>3. Samples'
    BY <1>1 DEF LoadInv, Samples
  <1>4. PICK k \in Int : rqUpdate = load.update + k * LOAD_FREQ
    BY DEF LoadInv, Windows
  <1>5. CASE jiffies < rqUpdate
    <2>1. rqUpdate' = rqUpdate
      BY <1>1, <1>5
    <2>2. rqUpdate >= IF jiffies < load.update THEN load.update ELSE load.update + LOAD_FREQ
      <3>1. CASE rqUpdate > load.update
        <4>1. rqUpdate >= load.update + LOAD_FREQ
          BY <1>4, <3>1, LoadFacts, NextWindow
        <4> QED BY <4>1, LoadFacts
      <3>2. CASE ~(rqUpdate > load.update)
        <4>1. jiffies < load.update /\ load.update < rqUpdate + LOAD_FREQ
          BY <1>5, <3>2, LoadFacts
        <4>2. k * LOAD_FREQ > 0 - LOAD_FREQ
          BY <1>4, <4>1, LoadFacts
        <4>3. k >= 0
          BY <4>2, LoadFacts
        <4>4. k * LOAD_FREQ >= 0
          BY <4>3, LoadFacts
        <4> QED BY <1>4, <4>1, <4>4, LoadFacts
      <3> QED BY <3>1, <3>2
    <2> QED BY <1>1, <1>3, <2>1, <2>2 DEF LoadInv, LoadTypes, Windows, Fair, Folds
  <1>6. CASE ~(jiffies < rqUpdate)
    <2>1. rqUpdate' = load.update + LOAD_FREQ
      BY <1>1, <1>2, <1>6
    <2>2. rqUpdate' = load.update + 1 * LOAD_FREQ /\ rqUpdate' \in Nat
      BY <2>1, LoadFacts
    <2>3. Windows'
      BY <1>1, <2>1, <2>2, LoadFacts DEF Windows
    <2> QED BY <1>1, <1>3, <2>2, <2>3 DEF LoadInv, LoadTypes, Fair, Folds
  <1> QED BY <1>5, <1>6

LEMMA LoadStep == LoadInv /\ [LoadNext]_loadVars => LoadInv' /\ Fair
  <1> SUFFICES ASSUME LoadInv, [LoadNext]_loadVars PROVE LoadInv' /\ Fair
    OBVIOUS
  <1>1. ASSUME NEW w \in Workers, NEW s \in {"S", "D"}, Block(w, s) PROVE LoadInv' /\ Fair
    <2>1. /\ ~stopped /\ work' = [work EXCEPT ![w] = s]
          /\ UNCHANGED <<jiffies, load, rqUpdate, rqActive, stopped, seen, skipped>>
      BY <1>1 DEF Block
    <2>2. work' \in [Workers -> {"R", "S", "D"}]
      BY <2>1 DEF LoadInv, LoadTypes
    <2> QED BY <2>1, <2>2 DEF LoadInv, LoadTypes, Samples, Windows, Fair, Folds
  <1>2. ASSUME NEW w \in Workers, WakeWorker(w) PROVE LoadInv' /\ Fair
    <2>1. /\ work' = [work EXCEPT ![w] = "R"]
          /\ UNCHANGED <<jiffies, load, rqUpdate, rqActive, stopped, seen, skipped>>
      BY <1>2 DEF WakeWorker
    <2>2. work' \in [Workers -> {"R", "S", "D"}] /\ work'[w] = "R"
      BY <2>1 DEF LoadInv, LoadTypes
    <2>3. Running' # {}
      BY <2>2 DEF Running
    <2> QED BY <2>1, <2>2, <2>3 DEF LoadInv, LoadTypes, Samples, Windows, Fair, Folds
  <1>3. CASE UNCHANGED loadVars
    BY <1>3 DEF loadVars, LoadInv, LoadTypes, Samples, Windows, Fair, Folds, Running, NrActive
  <1> QED BY <1>1, <1>2, <1>3, LoadTickStep, IdleInterruptStep, EnterIdleStep, ExitIdleStep DEF LoadNext

\* For any tasks, window length and lengths of sleep: what calc_global_load folds
\* into the average is what was active when the window opened, whether the
\* processor ticked, slept or woke then and whatever it did until the fold.
THEOREM LoadTheorem == LoadSpec => SampleIsTheWindows
  <1>1. LoadInv /\ [LoadNext]_loadVars => [Fair]_loadVars
    BY LoadStep
  <1>2. LoadSpec => [][Fair]_loadVars
    BY <1>1, LoadInitInv, LoadStep, PTL DEF LoadSpec
  <1> QED BY <1>2 DEF SampleIsTheWindows, Fair

-----------------------------------------------------------------------------
(* The load average: a fold catches up with the windows slept through       *)

(* The factors that squaring EXP_1 passes, for 1, 2, 4, ... windows; and what *)
(* the rounding may come to, of the windows folded in turn over so many of     *)
(* them (Fixed, Weight) and of the power with the bits below these             *)
(* (PowerFixed, PowerWeight).                                                  *)
Stride == <<1, 2, 4, 8, 16, 32, 64, 128>>
Base   == <<1884, 1733, 1466, 1049, 537, 141, 10, 0>>
Fixed  == <<1024, 1966, 3630, 6230, 9426, 11906, 12733, 12798>>
Weight == <<0, 133, 675, 1360, 1700, 1088, 443, 54>>
PowerFixed  == <<0, 1024, 2833, 5659, 9133, 11829, 12727, 12798>>
PowerWeight == <<0, 500, 1057, 1932, 2851, 2950, 2950, 2950>>
MostFixed  == 12798
MostWeight == 2950

Mag(d) == IF d < 0 THEN -d ELSE d

\* 2048 e, of FIXED_1, is x d, give or take c and w thousandths of the size of d.
Near(d, e, x, c, w) ==
    /\ 1000 * (2048 * e - x * d) <= 1000 * c + w * Mag(d)
    /\ 1000 * (x * d - 2048 * e) <= 1000 * c + w * Mag(d)

\* In a window the distance d to the active tasks becomes e: EXP_1 / FIXED_1 of
\* it, rounded to the nearest.
Shrunk(d, e) == 2048 * e <= 1884 * d + 1024 /\ 1884 * d + 1024 < 2048 * e + 2048

\* d is how far the average is from the active tasks, over n windows in turn.
Shrinks(d, n) == d \in [0 .. n -> Int] /\ \A i \in 1 .. n : Shrunk(d[i - 1], d[i])

\* s is x / FIXED_1, rounded to the nearest.
Nearest(s, x) == 2048 * s - x <= 1024 /\ x - 2048 * s <= 1024

LEMMA Scale == FIXED_1 = 2048 /\ Half = 1024 /\ EXP_1 = 1884
  <1>1. 2 ^ 11 = 2048
    OBVIOUS
  <1> QED BY <1>1 DEF FIXED_1, FSHIFT, Half, EXP_1

\* Twice as many windows: the factor is squared, and rounded to the nearest.
LEMMA TwiceNear ==
    ASSUME NEW d \in Int, NEW e \in Int, NEW f \in Int, NEW k \in 1 .. 7,
           Near(d, e, Base[k], Fixed[k], Weight[k]), Near(e, f, Base[k], Fixed[k], Weight[k])
    PROVE  Near(d, f, Base[k + 1], Fixed[k + 1], Weight[k + 1])
  <1>1. CASE k = 1
    <2>1. Near(d, e, 1884, 1024, 0) /\ Near(e, f, 1884, 1024, 0)
      BY <1>1 DEF Base, Fixed, Weight
    <2>2. Near(d, f, 1733, 1966, 133)
      BY <2>1 DEF Near, Mag
    <2> QED BY <1>1, <2>2 DEF Base, Fixed, Weight
  <1>2. CASE k = 2
    <2>1. Near(d, e, 1733, 1966, 133) /\ Near(e, f, 1733, 1966, 133)
      BY <1>2 DEF Base, Fixed, Weight
    <2>2. Near(d, f, 1466, 3630, 675)
      BY <2>1 DEF Near, Mag
    <2> QED BY <1>2, <2>2 DEF Base, Fixed, Weight
  <1>3. CASE k = 3
    <2>1. Near(d, e, 1466, 3630, 675) /\ Near(e, f, 1466, 3630, 675)
      BY <1>3 DEF Base, Fixed, Weight
    <2>2. Near(d, f, 1049, 6230, 1360)
      BY <2>1 DEF Near, Mag
    <2> QED BY <1>3, <2>2 DEF Base, Fixed, Weight
  <1>4. CASE k = 4
    <2>1. Near(d, e, 1049, 6230, 1360) /\ Near(e, f, 1049, 6230, 1360)
      BY <1>4 DEF Base, Fixed, Weight
    <2>2. Near(d, f, 537, 9426, 1700)
      BY <2>1 DEF Near, Mag
    <2> QED BY <1>4, <2>2 DEF Base, Fixed, Weight
  <1>5. CASE k = 5
    <2>1. Near(d, e, 537, 9426, 1700) /\ Near(e, f, 537, 9426, 1700)
      BY <1>5 DEF Base, Fixed, Weight
    <2>2. Near(d, f, 141, 11906, 1088)
      BY <2>1 DEF Near, Mag
    <2> QED BY <1>5, <2>2 DEF Base, Fixed, Weight
  <1>6. CASE k = 6
    <2>1. Near(d, e, 141, 11906, 1088) /\ Near(e, f, 141, 11906, 1088)
      BY <1>6 DEF Base, Fixed, Weight
    <2>2. Near(d, f, 10, 12733, 443)
      BY <2>1 DEF Near, Mag
    <2> QED BY <1>6, <2>2 DEF Base, Fixed, Weight
  <1>7. CASE k = 7
    <2>1. Near(d, e, 10, 12733, 443) /\ Near(e, f, 10, 12733, 443)
      BY <1>7 DEF Base, Fixed, Weight
    <2>2. Near(d, f, 0, 12798, 54)
      BY <2>1 DEF Near, Mag
    <2> QED BY <1>7, <2>2 DEF Base, Fixed, Weight
  <1> QED BY <1>1, <1>2, <1>3, <1>4, <1>5, <1>6, <1>7

LEMMA StrideNear ==
    ASSUME NEW n \in Nat, NEW d, Shrinks(d, n), NEW k \in 1 .. 8,
           NEW i \in 0 .. n, i + Stride[k] <= n
    PROVE  Near(d[i], d[i + Stride[k]], Base[k], Fixed[k], Weight[k])
  <1> DEFINE P(j) == \A h \in 0 .. n : h + Stride[j] <= n =>
                        Near(d[h], d[h + Stride[j]], Base[j], Fixed[j], Weight[j])
  <1>1. P(1)
    <2> SUFFICES ASSUME NEW h \in 0 .. n, h + 1 <= n PROVE Near(d[h], d[h + 1], 1884, 1024, 0)
      BY DEF Stride, Base, Fixed, Weight
    <2>1. h + 1 \in 1 .. n /\ (h + 1) - 1 = h
      OBVIOUS
    <2>2. d[h] \in Int /\ d[h + 1] \in Int
      BY <2>1 DEF Shrinks
    <2>3. Shrunk(d[h], d[h + 1])
      BY <2>1 DEF Shrinks
    <2> QED BY <2>2, <2>3 DEF Shrunk, Near, Mag
  <1>2. ASSUME NEW j \in 1 .. 7, P(j) PROVE P(j + 1)
    <2> SUFFICES ASSUME NEW h \in 0 .. n, h + Stride[j + 1] <= n
                 PROVE  Near(d[h], d[h + Stride[j + 1]], Base[j + 1], Fixed[j + 1], Weight[j + 1])
      OBVIOUS
    <2>1. Stride[j] \in Nat /\ Stride[j + 1] = Stride[j] + Stride[j]
      BY DEF Stride
    <2> DEFINE s == Stride[j]
    <2>2. s \in Nat /\ Stride[j + 1] = s + s
      BY <2>1
    <2> HIDE DEF s
    <2>3. /\ h + s \in 0 .. n /\ h + s <= n /\ (h + s) + s <= n /\ h + s + s \in 0 .. n
          /\ h + Stride[j + 1] = (h + s) + s
      BY <2>2
    <2>4. d[h] \in Int /\ d[h + s] \in Int /\ d[(h + s) + s] \in Int
      BY <2>3 DEF Shrinks
    <2>5. /\ Near(d[h], d[h + s], Base[j], Fixed[j], Weight[j])
          /\ Near(d[h + s], d[(h + s) + s], Base[j], Fixed[j], Weight[j])
      BY <1>2, <2>3 DEF s
    <2> QED BY <2>3, <2>4, <2>5, TwiceNear
  <1> HIDE DEF P
  <1>3. P(1 + 1) /\ P(2 + 1) /\ P(3 + 1) /\ P(4 + 1) /\ P(5 + 1) /\ P(6 + 1) /\ P(7 + 1)
    BY <1>1, <1>2
  <1>4. P(k)
    BY <1>1, <1>3
  <1> QED BY <1>4 DEF P

\* What rounding the power to the nearest adds, at a distance of d.
LEMMA Carries ==
    ASSUME NEW b \in Int, NEW r \in Int, NEW s \in Int, NEW d \in Int, Nearest(s, b * r)
    PROVE  /\ 2048 * (s * d) - b * (r * d) <= 1024 * Mag(d)
           /\ b * (r * d) - 2048 * (s * d) <= 1024 * Mag(d)
  <1> DEFINE x == b * r
             t == 2048 * s - x
  <1>1. x \in Int /\ t \in Int /\ t <= 1024 /\ -t <= 1024
    BY DEF Nearest
  <1>2. t * d = 2048 * (s * d) - b * (r * d)
    <2>1. x * d = b * (r * d)
      OBVIOUS
    <2>2. t * d = 2048 * (s * d) - x * d
      <3> HIDE DEF x
      <3> QED BY <1>1
    <2> QED BY <2>1, <2>2
  <1> HIDE DEF x, t
  <1>3. t * d <= 1024 * Mag(d) /\ -(t * d) <= 1024 * Mag(d)
    <2>1. CASE d >= 0
      <3>1. t * d <= 1024 * d /\ (-t) * d <= 1024 * d
        BY <1>1, <2>1
      <3>2. (-t) * d = -(t * d) /\ Mag(d) = d
        BY <1>1, <2>1 DEF Mag
      <3> QED BY <3>1, <3>2
    <2>2. CASE d < 0
      <3>1. t * (-d) <= 1024 * (-d) /\ (-t) * (-d) <= 1024 * (-d)
        BY <1>1, <2>2
      <3>2. t * (-d) = -(t * d) /\ (-t) * (-d) = t * d /\ Mag(d) = -d
        BY <1>1, <2>2 DEF Mag
      <3> QED BY <3>1, <3>2
    <2> QED BY <2>1, <2>2
  <1>4. t * d \in Int /\ s * d \in Int /\ b * (r * d) \in Int
    BY <1>1
  <1> QED BY <1>2, <1>3, <1>4

\* A bit of n: the windows it stands for are folded, and the power is multiplied
\* by their factor, rounded to the nearest.
LEMMA BitNear ==
    ASSUME NEW d \in Int, NEW e \in Int, NEW f \in Int, NEW k \in 1 .. 7,
           NEW r \in Nat, r <= FIXED_1, NEW s \in Int,
           Nearest(s, Base[k] * r),
           Near(d, e, r, PowerFixed[k], PowerWeight[k]),
           Near(e, f, Base[k], Fixed[k], Weight[k])
    PROVE  Near(d, f, s, PowerFixed[k + 1], PowerWeight[k + 1])
  <1> DEFINE p == r * d
             q == s * d
             m == Mag(d)
  <1>1. p \in Int /\ q \in Int /\ m \in Nat
    BY DEF Mag
  <1>2. p <= 2048 * m /\ -p <= 2048 * m
    BY Scale DEF Mag
  <1>3. \A c, w \in Nat : Near(d, e, r, c, w) =>
            /\ 1000 * (2048 * e - p) <= 1000 * c + w * m
            /\ 1000 * (p - 2048 * e) <= 1000 * c + w * m
    BY DEF Near
  <1>4. \A c, w \in Nat :
            /\ 1000 * (2048 * f - q) <= 1000 * c + w * m
            /\ 1000 * (q - 2048 * f) <= 1000 * c + w * m
            => Near(d, f, s, c, w)
    BY DEF Near
  <1>5. 2048 * q - Base[k] * p <= 1024 * m /\ Base[k] * p - 2048 * q <= 1024 * m
    <2> DEFINE b == Base[k]
    <2>1. b \in Int /\ Nearest(s, b * r)
      BY DEF Base
    <2> HIDE DEF b
    <2>2. 2048 * q - b * p <= 1024 * m /\ b * p - 2048 * q <= 1024 * m
      BY <2>1, Carries
    <2> QED BY <2>2 DEF b
  <1> HIDE DEF p, q, m
  <1>6. CASE k = 1
    <2>1. 2048 * q - 1884 * p <= 1024 * m /\ 1884 * p - 2048 * q <= 1024 * m
      BY <1>5, <1>6 DEF Base
    <2>2. /\ 1000 * (2048 * e - p) <= 1000 * 0 + 0 * m
          /\ 1000 * (p - 2048 * e) <= 1000 * 0 + 0 * m
      BY <1>3, <1>6 DEF PowerFixed, PowerWeight
    <2>3. Near(e, f, 1884, 1024, 0)
      BY <1>6 DEF Base, Fixed, Weight
    <2>4. /\ 1000 * (2048 * f - q) <= 1000 * 1024 + 500 * m
          /\ 1000 * (q - 2048 * f) <= 1000 * 1024 + 500 * m
      BY <1>1, <1>2, <2>1, <2>2, <2>3 DEF Near, Mag
    <2> QED BY <1>4, <1>6, <2>4 DEF PowerFixed, PowerWeight
  <1>7. CASE k = 2
    <2>1. 2048 * q - 1733 * p <= 1024 * m /\ 1733 * p - 2048 * q <= 1024 * m
      BY <1>5, <1>7 DEF Base
    <2>2. /\ 1000 * (2048 * e - p) <= 1000 * 1024 + 500 * m
          /\ 1000 * (p - 2048 * e) <= 1000 * 1024 + 500 * m
      BY <1>3, <1>7 DEF PowerFixed, PowerWeight
    <2>3. Near(e, f, 1733, 1966, 133)
      BY <1>7 DEF Base, Fixed, Weight
    <2>4. /\ 1000 * (2048 * f - q) <= 1000 * 2833 + 1057 * m
          /\ 1000 * (q - 2048 * f) <= 1000 * 2833 + 1057 * m
      BY <1>1, <1>2, <2>1, <2>2, <2>3 DEF Near, Mag
    <2> QED BY <1>4, <1>7, <2>4 DEF PowerFixed, PowerWeight
  <1>8. CASE k = 3
    <2>1. 2048 * q - 1466 * p <= 1024 * m /\ 1466 * p - 2048 * q <= 1024 * m
      BY <1>5, <1>8 DEF Base
    <2>2. /\ 1000 * (2048 * e - p) <= 1000 * 2833 + 1057 * m
          /\ 1000 * (p - 2048 * e) <= 1000 * 2833 + 1057 * m
      BY <1>3, <1>8 DEF PowerFixed, PowerWeight
    <2>3. Near(e, f, 1466, 3630, 675)
      BY <1>8 DEF Base, Fixed, Weight
    <2>4. /\ 1000 * (2048 * f - q) <= 1000 * 5659 + 1932 * m
          /\ 1000 * (q - 2048 * f) <= 1000 * 5659 + 1932 * m
      BY <1>1, <1>2, <2>1, <2>2, <2>3 DEF Near, Mag
    <2> QED BY <1>4, <1>8, <2>4 DEF PowerFixed, PowerWeight
  <1>9. CASE k = 4
    <2>1. 2048 * q - 1049 * p <= 1024 * m /\ 1049 * p - 2048 * q <= 1024 * m
      BY <1>5, <1>9 DEF Base
    <2>2. /\ 1000 * (2048 * e - p) <= 1000 * 5659 + 1932 * m
          /\ 1000 * (p - 2048 * e) <= 1000 * 5659 + 1932 * m
      BY <1>3, <1>9 DEF PowerFixed, PowerWeight
    <2>3. Near(e, f, 1049, 6230, 1360)
      BY <1>9 DEF Base, Fixed, Weight
    <2>4. /\ 1000 * (2048 * f - q) <= 1000 * 9133 + 2851 * m
          /\ 1000 * (q - 2048 * f) <= 1000 * 9133 + 2851 * m
      BY <1>1, <1>2, <2>1, <2>2, <2>3 DEF Near, Mag
    <2> QED BY <1>4, <1>9, <2>4 DEF PowerFixed, PowerWeight
  <1>10. CASE k = 5
    <2>1. 2048 * q - 537 * p <= 1024 * m /\ 537 * p - 2048 * q <= 1024 * m
      BY <1>5, <1>10 DEF Base
    <2>2. /\ 1000 * (2048 * e - p) <= 1000 * 9133 + 2851 * m
          /\ 1000 * (p - 2048 * e) <= 1000 * 9133 + 2851 * m
      BY <1>3, <1>10 DEF PowerFixed, PowerWeight
    <2>3. Near(e, f, 537, 9426, 1700)
      BY <1>10 DEF Base, Fixed, Weight
    <2>4. /\ 1000 * (2048 * f - q) <= 1000 * 11829 + 2950 * m
          /\ 1000 * (q - 2048 * f) <= 1000 * 11829 + 2950 * m
      BY <1>1, <1>2, <2>1, <2>2, <2>3 DEF Near, Mag
    <2> QED BY <1>4, <1>10, <2>4 DEF PowerFixed, PowerWeight
  <1>11. CASE k = 6
    <2>1. 2048 * q - 141 * p <= 1024 * m /\ 141 * p - 2048 * q <= 1024 * m
      BY <1>5, <1>11 DEF Base
    <2>2. /\ 1000 * (2048 * e - p) <= 1000 * 11829 + 2950 * m
          /\ 1000 * (p - 2048 * e) <= 1000 * 11829 + 2950 * m
      BY <1>3, <1>11 DEF PowerFixed, PowerWeight
    <2>3. Near(e, f, 141, 11906, 1088)
      BY <1>11 DEF Base, Fixed, Weight
    <2>4. /\ 1000 * (2048 * f - q) <= 1000 * 12727 + 2950 * m
          /\ 1000 * (q - 2048 * f) <= 1000 * 12727 + 2950 * m
      BY <1>1, <1>2, <2>1, <2>2, <2>3 DEF Near, Mag
    <2> QED BY <1>4, <1>11, <2>4 DEF PowerFixed, PowerWeight
  <1>12. CASE k = 7
    <2>1. 2048 * q - 10 * p <= 1024 * m /\ 10 * p - 2048 * q <= 1024 * m
      BY <1>5, <1>12 DEF Base
    <2>2. /\ 1000 * (2048 * e - p) <= 1000 * 12727 + 2950 * m
          /\ 1000 * (p - 2048 * e) <= 1000 * 12727 + 2950 * m
      BY <1>3, <1>12 DEF PowerFixed, PowerWeight
    <2>3. Near(e, f, 10, 12733, 443)
      BY <1>12 DEF Base, Fixed, Weight
    <2>4. /\ 1000 * (2048 * f - q) <= 1000 * 12798 + 2950 * m
          /\ 1000 * (q - 2048 * f) <= 1000 * 12798 + 2950 * m
      BY <1>1, <1>2, <2>1, <2>2, <2>3 DEF Near, Mag
    <2> QED BY <1>4, <1>12, <2>4 DEF PowerFixed, PowerWeight
  <1> QED BY <1>6, <1>7, <1>8, <1>9, <1>10, <1>11, <1>12

\* A computation of n steps of G, from a, and that it can be run for any n.
IsRun(f, S, G, a, n) ==
    f \in [0 .. n -> S] /\ f[0] = a /\ \A i \in 1 .. n : f[i] = G[f[i - 1]]

LEMMA RunsOn ==
    ASSUME NEW S, NEW a \in S, NEW G \in [S -> S], NEW n \in Nat
    PROVE  \E f : IsRun(f, S, G, a, n)
  <1> DEFINE T == {m \in 0 .. n : \E f \in [0 .. m -> S] :
                     f[0] = a /\ \A i \in 1 .. m : f[i] = G[f[i - 1]]}
  <1>1. 0 \in T
    <2> DEFINE f == [i \in 0 .. 0 |-> a]
    <2>1. f \in [0 .. 0 -> S] /\ f[0] = a /\ \A i \in 1 .. 0 : f[i] = G[f[i - 1]]
      OBVIOUS
    <2> HIDE DEF f
    <2> QED BY <2>1
  <1>2. ASSUME NEW k \in 1 .. n, k - 1 \in T PROVE k \in T
    <2>1. PICK f \in [0 .. k - 1 -> S] : f[0] = a /\ \A i \in 1 .. k - 1 : f[i] = G[f[i - 1]]
      BY <1>2
    <2> DEFINE g == [i \in 0 .. k |-> IF i = k THEN G[f[k - 1]] ELSE f[i]]
    <2>2. /\ k - 1 \in 0 .. k - 1 /\ k \in 0 .. n /\ 0 \in 0 .. k /\ k # 0
          /\ \A i \in 1 .. k : i \in 0 .. k /\ i - 1 \in 0 .. k /\ i - 1 # k
          /\ \A i \in 0 .. k : i # k => i \in 0 .. k - 1
          /\ \A i \in 1 .. k : i # k => i \in 1 .. k - 1
      OBVIOUS
    <2>3. G[f[k - 1]] \in S
      BY <2>2
    <2>4. g \in [0 .. k -> S]
      BY <2>2, <2>3
    <2>5. g[0] = a
      BY <2>1, <2>2
    <2>6. ASSUME NEW i \in 1 .. k PROVE g[i] = G[g[i - 1]]
      BY <2>1, <2>2
    <2> HIDE DEF g
    <2> QED BY <2>2, <2>4, <2>5, <2>6
  <1> HIDE DEF T
  <1>3. n \in T
    BY <1>1, <1>2, UpTo
  <1> QED BY <1>3 DEF T, IsRun

\* A window: the distance shrinks by EXP_1, rounded to the nearest.
LEMMA OneWindow ==
    ASSUME NEW avg \in Int, NEW active \in Int
    PROVE  /\ Decayed(avg, EXP_1, active) \in Int
           /\ Shrunk(avg - active, Decayed(avg, EXP_1, active) - active)
  BY Scale DEF Decayed, Shrunk

LEMMA InTurnShrinks ==
    ASSUME NEW avg \in Int, NEW active \in Int, NEW n \in Nat
    PROVE  \E a \in [0 .. n -> Int] :
             /\ a[0] = avg /\ a[n] = InTurn(avg, active, n)
             /\ \A i \in 1 .. n : a[i] = Decayed(a[i - 1], EXP_1, active)
  <1> DEFINE F == [v \in Int |-> Decayed(v, EXP_1, active)]
  <1>1. F \in [Int -> Int]
    BY OneWindow
  <1>2. PICK f \in [0 .. n -> Int] : f[0] = avg /\ \A i \in 1 .. n : f[i] = F[f[i - 1]]
    <2> HIDE DEF F
    <2>1. \E f : IsRun(f, Int, F, avg, n)
      BY <1>1, RunsOn, Zenon
    <2> QED BY <2>1 DEF IsRun
  <1>3. f = [i \in 0 .. n |-> IF i = 0 THEN avg ELSE Decayed(f[i - 1], EXP_1, active)]
    <2>1. \A i \in 0 .. n : i # 0 => i \in 1 .. n /\ i - 1 \in 0 .. n
      OBVIOUS
    <2>2. ASSUME NEW i \in 1 .. n PROVE f[i] = Decayed(f[i - 1], EXP_1, active)
      <3>1. i - 1 \in 0 .. n
        OBVIOUS
      <3>2. f[i - 1] \in Int /\ f[i] = F[f[i - 1]]
        BY <1>2, <3>1
      <3> QED BY <3>2
    <2> QED BY <1>2, <2>1, <2>2
  <1> DEFINE after[i \in 0 .. n] == IF i = 0 THEN avg ELSE Decayed(after[i - 1], EXP_1, active)
  <1>4. after = [i \in 0 .. n |-> IF i = 0 THEN avg ELSE Decayed(after[i - 1], EXP_1, active)]
    BY <1>3, Zenon
  <1>5. InTurn(avg, active, n) = after[n]
    BY Zenon DEF InTurn
  <1> HIDE DEF after
  <1>6. after[0] = avg /\ \A i \in 1 .. n : after[i] = Decayed(after[i - 1], EXP_1, active)
    <2>1. 0 \in 0 .. n /\ \A i \in 1 .. n : i \in 0 .. n /\ i # 0
      OBVIOUS
    <2> QED BY <1>4, <2>1, Zenon
  <1>7. after \in [0 .. n -> Int]
    <2> DEFINE T == {i \in 0 .. n : after[i] \in Int}
    <2>1. 0 \in T
      BY <1>6
    <2>2. ASSUME NEW k \in 1 .. n, k - 1 \in T PROVE k \in T
      <3>1. k \in 0 .. n /\ after[k - 1] \in Int /\ after[k] = Decayed(after[k - 1], EXP_1, active)
        BY <1>6, <2>2
      <3>2. Decayed(after[k - 1], EXP_1, active) \in Int
        BY <3>1, OneWindow, Zenon
      <3> QED BY <3>1, <3>2
    <2>3. \A k \in 0 .. n : k \in T
      <3> HIDE DEF T
      <3> QED BY <2>1, <2>2, UpTo
    <2> QED BY <1>4, <2>3
  <1> QED BY <1>5, <1>6, <1>7

\* The rounds of fixed_power_int.
States == [x : Nat, n : Nat, result : Nat]

LEMMA RoundType ==
    ASSUME NEW s \in States
    PROVE  /\ Round(s) \in States
           /\ s.n = 0 => Round(s) = s
           /\ s.n # 0 => /\ Round(s).x = (s.x * s.x + 1024) \div 2048
                         /\ Round(s).n = s.n \div 2
                         /\ Round(s).result = IF s.n % 2 = 1 THEN (s.result * s.x + 1024) \div 2048
                                                             ELSE s.result
  <1>1. s.x \in Nat /\ s.n \in Nat /\ s.result \in Nat
    BY DEF States
  <1>2. s.x * s.x \in Nat /\ s.result * s.x \in Nat
    BY <1>1
  <1>3. \A v \in Nat : (v + 1024) \div 2048 \in Nat
    OBVIOUS
  <1>4. (s.x * s.x + 1024) \div 2048 \in Nat /\ (s.result * s.x + 1024) \div 2048 \in Nat
    BY <1>2, <1>3
  <1>5. s.n \div 2 \in Nat
    BY <1>1
  <1> QED BY <1>1, <1>4, <1>5, Scale DEF Round, States

LEMMA PowerRounds ==
    ASSUME NEW base \in Nat, NEW n \in Nat
    PROVE  \E a \in [0 .. n -> States] :
             /\ a[0] = [x |-> base, n |-> n, result |-> 2048] /\ a[n].result = Power(base, n)
             /\ \A i \in 1 .. n : a[i] = Round(a[i - 1])
  <1> DEFINE F == [s \in States |-> Round(s)]
             s0 == [x |-> base, n |-> n, result |-> FIXED_1]
  <1>1. F \in [States -> States]
    BY RoundType
  <1>2. s0 \in States /\ s0 = [x |-> base, n |-> n, result |-> 2048]
    BY Scale DEF States
  <1>3. PICK f \in [0 .. n -> States] : f[0] = s0 /\ \A i \in 1 .. n : f[i] = F[f[i - 1]]
    <2> HIDE DEF F, s0
    <2>1. s0 \in States
      BY <1>2
    <2>2. \E f : IsRun(f, States, F, s0, n)
      BY <1>1, <2>1, RunsOn, Zenon
    <2> QED BY <2>2 DEF IsRun
  <1>4. f = [i \in 0 .. n |-> IF i = 0 THEN s0 ELSE Round(f[i - 1])]
    <2> HIDE DEF s0
    <2>1. \A i \in 0 .. n : i # 0 => i \in 1 .. n /\ i - 1 \in 0 .. n
      OBVIOUS
    <2>2. ASSUME NEW i \in 1 .. n PROVE f[i] = Round(f[i - 1])
      <3>1. i - 1 \in 0 .. n
        OBVIOUS
      <3>2. f[i - 1] \in States /\ f[i] = F[f[i - 1]]
        BY <1>3, <3>1
      <3> QED BY <3>2
    <2> QED BY <1>3, <2>1, <2>2
  <1> DEFINE after[i \in 0 .. n] == IF i = 0 THEN [x |-> base, n |-> n, result |-> FIXED_1]
                                   ELSE Round(after[i - 1])
  <1>5. after = [i \in 0 .. n |-> IF i = 0 THEN s0 ELSE Round(after[i - 1])]
    BY <1>4, Zenon
  <1>6. Power(base, n) = after[n].result
    BY Zenon DEF Power
  <1> HIDE DEF after, s0
  <1>7. after[0] = s0 /\ \A i \in 1 .. n : after[i] = Round(after[i - 1])
    <2>1. 0 \in 0 .. n /\ \A i \in 1 .. n : i \in 0 .. n /\ i # 0
      OBVIOUS
    <2> QED BY <1>5, <2>1, Zenon
  <1>8. after \in [0 .. n -> States]
    <2> DEFINE T == {i \in 0 .. n : after[i] \in States}
    <2>1. 0 \in T
      BY <1>2, <1>7
    <2>2. ASSUME NEW k \in 1 .. n, k - 1 \in T PROVE k \in T
      BY <1>7, <2>2, RoundType
    <2>3. \A k \in 0 .. n : k \in T
      <3> HIDE DEF T
      <3> QED BY <2>1, <2>2, UpTo
    <2> QED BY <1>5, <2>3
  <1>9. after[0] = [x |-> base, n |-> n, result |-> 2048]
    BY <1>2, <1>7
  <1> WITNESS after \in [0 .. n -> States]
  <1> QED BY <1>6, <1>7, <1>9

\* Where the loop may be, of n windows that shrink the distance by d: some bits
\* are done, or all of them, or the factor is 0 and a bit is still to come.
Bits(s, k, d, n) ==
    /\ s.x = Base[k] /\ s.result \in Nat /\ s.result <= 2048
    /\ \E m \in 0 .. n : /\ m + Stride[k] * s.n = n
                         /\ Near(d[0], d[m], s.result, PowerFixed[k], PowerWeight[k])
Ended(s, d, n) ==
    s.n = 0 /\ s.result \in Nat /\ s.result <= 2048 /\ Near(d[0], d[n], s.result, MostFixed, MostWeight)
Vanishes(s, n) == s.x = 0 /\ (s.n = 0 => s.result = 0) /\ 128 <= n

Holds(s, d, n) == Ended(s, d, n) \/ Vanishes(s, n) \/ \E k \in 1 .. 8 : Bits(s, k, d, n)

LEMMA NearWeakens ==
    ASSUME NEW d \in Int, NEW e \in Int, NEW x \in Int, NEW k \in 1 .. 8,
           Near(d, e, x, PowerFixed[k], PowerWeight[k])
    PROVE  Near(d, e, x, MostFixed, MostWeight)
  <1> DEFINE a == 2048 * e - x * d
             m == Mag(d)
  <1>1. a \in Int /\ m \in Nat
    BY DEF Mag
  <1>2. \A c, w \in Nat : Near(d, e, x, c, w) <=> 1000 * a <= 1000 * c + w * m /\ 1000 * (-a) <= 1000 * c + w * m
    BY DEF Near
  <1> DEFINE c == PowerFixed[k]
             w == PowerWeight[k]
  <1>3. c \in Nat /\ c <= 12798 /\ w \in Nat /\ w <= 2950
    BY DEF PowerFixed, PowerWeight
  <1> HIDE DEF a, m
  <1>4. 1000 * a <= 1000 * c + w * m /\ 1000 * (-a) <= 1000 * c + w * m
    BY <1>2, <1>3
  <1> HIDE DEF c, w
  <1>5. w * m <= 2950 * m /\ w * m \in Nat
    BY <1>1, <1>3
  <1>6. 1000 * a <= 1000 * 12798 + 2950 * m /\ 1000 * (-a) <= 1000 * 12798 + 2950 * m
    BY <1>1, <1>3, <1>4, <1>5
  <1> QED BY <1>2, <1>6 DEF MostFixed, MostWeight

LEMMA Halves ==
    ASSUME NEW v \in Nat
    PROVE  /\ v \div 2 \in Nat /\ v % 2 \in {0, 1}
           /\ v % 2 = 0 => v = 2 * (v \div 2)
           /\ v % 2 = 1 => v = 2 * (v \div 2) + 1
  OBVIOUS

LEMMA Product ==
    ASSUME NEW x \in Nat, NEW y \in Nat, x <= 2048, y <= 2048
    PROVE  x * y \in Nat /\ x * y <= 2048 * 2048 /\ x * y = y * x
  <1>1. x * y <= x * 2048 /\ x * y \in Nat
    OBVIOUS
  <1>2. x * y = y * x
    OBVIOUS
  <1>3. x * y <= 2048 * 2048
    BY <1>1, <1>2
  <1> QED BY <1>1, <1>2, <1>3

LEMMA RoundHolds ==
    ASSUME NEW n \in Nat, NEW d, Shrinks(d, n), NEW s \in States, Holds(s, d, n)
    PROVE  Holds(Round(s), d, n)
  <1> DEFINE t == Round(s)
  <1>1. /\ t \in States /\ s.x \in Nat /\ s.n \in Nat /\ s.result \in Nat
        /\ s.n = 0 => t = s
        /\ s.n # 0 => /\ t.x = (s.x * s.x + 1024) \div 2048
                      /\ t.n = s.n \div 2
                      /\ t.result = IF s.n % 2 = 1 THEN (s.result * s.x + 1024) \div 2048
                                                   ELSE s.result
    BY RoundType DEF States
  <1> HIDE DEF t
  <1>2. CASE s.n = 0
    BY <1>1, <1>2 DEF t
  <1>3. ASSUME Vanishes(s, n), s.n # 0 PROVE Vanishes(t, n)
    <2>1. t.x = 0
      BY <1>1, <1>3 DEF Vanishes
    <2>2. t.n = 0 => s.n % 2 = 1
      BY <1>1, <1>3
    <2>3. s.n % 2 = 1 => t.result = 0
      BY <1>1, <1>3 DEF Vanishes
    <2> QED BY <1>3, <2>1, <2>2, <2>3 DEF Vanishes
  <1>4. ASSUME NEW k \in 1 .. 7, Bits(s, k, d, n), s.n # 0 PROVE Bits(t, k + 1, d, n)
    <2>1. PICK m \in 0 .. n : /\ m + Stride[k] * s.n = n
                              /\ Near(d[0], d[m], s.result, PowerFixed[k], PowerWeight[k])
      BY <1>4 DEF Bits
    <2>2. s.x = Base[k] /\ s.result \in Nat /\ s.result <= 2048 /\ Base[k] \in Nat /\ Base[k] <= 2048
      BY <1>4 DEF Bits, Base
    <2>3. t.x = Base[k + 1]
      <3>1. (Base[k] * Base[k] + 1024) \div 2048 = Base[k + 1]
        BY DEF Base
      <3> QED BY <1>1, <1>4, <2>2, <3>1
    <2>4. Stride[k] \in Nat /\ Stride[k + 1] = 2 * Stride[k]
      BY DEF Stride
    <2>5. 0 \in 0 .. n /\ d[0] \in Int /\ d[m] \in Int
      BY DEF Shrinks
    <2>6. CASE s.n % 2 = 0
      <3>1. s.n = 2 * t.n /\ t.n \in Nat /\ t.result = s.result
        BY <1>1, <1>4, <2>6, Halves
      <3>2. Stride[k + 1] * t.n = Stride[k] * s.n
        BY <2>4, <3>1
      <3>3. Near(d[0], d[m], t.result, PowerFixed[k + 1], PowerWeight[k + 1])
        <4> DEFINE a == 2048 * d[m] - s.result * d[0]
                   b == Mag(d[0])
        <4>1. a \in Int /\ b \in Nat
          BY <1>1, <2>5 DEF Mag
        <4>2. \A c, w \in Nat : Near(d[0], d[m], s.result, c, w) <=>
                1000 * a <= 1000 * c + w * b /\ 1000 * (-a) <= 1000 * c + w * b
          BY <1>1, <2>5 DEF Near
        <4>3. /\ PowerFixed[k] \in Nat /\ PowerFixed[k + 1] \in Nat /\ PowerFixed[k] <= PowerFixed[k + 1]
              /\ PowerWeight[k] \in Nat /\ PowerWeight[k + 1] \in Nat /\ PowerWeight[k] <= PowerWeight[k + 1]
          BY DEF PowerFixed, PowerWeight
        <4> HIDE DEF a, b
        <4>4. \A v, w \in Nat : v <= w => v * b <= w * b /\ v * b \in Nat /\ w * b \in Nat
          BY <4>1
        <4>5. PowerWeight[k] * b <= PowerWeight[k + 1] * b
          BY <4>3, <4>4
        <4>6. PowerWeight[k] * b \in Nat /\ PowerWeight[k + 1] * b \in Nat
          BY <4>3, <4>4
        <4>7. 1000 * a <= 1000 * PowerFixed[k] + PowerWeight[k] * b
              /\ 1000 * (-a) <= 1000 * PowerFixed[k] + PowerWeight[k] * b
          BY <2>1, <4>2, <4>3
        <4>8. 1000 * a <= 1000 * PowerFixed[k + 1] + PowerWeight[k + 1] * b
              /\ 1000 * (-a) <= 1000 * PowerFixed[k + 1] + PowerWeight[k + 1] * b
          BY <4>1, <4>3, <4>5, <4>6, <4>7
        <4> QED BY <3>1, <4>2, <4>3, <4>8
      <3> QED BY <2>1, <2>2, <2>3, <3>1, <3>2, <3>3 DEF Bits
    <2>7. CASE s.n % 2 = 1
      <3> DEFINE h == m + Stride[k]
      <3>1. s.n = 2 * t.n + 1 /\ t.n \in Nat /\ t.result = (s.result * s.x + 1024) \div 2048
        <4>1. s.n = 2 * t.n + 1 /\ t.n \in Nat
          <5>1. s.n \in Nat /\ t.n = s.n \div 2
            BY <1>1, <1>4
          <5> QED BY <2>7, <5>1, Halves
        <4>2. t.result = (s.result * s.x + 1024) \div 2048
          BY <1>1, <1>4, <2>7
        <4> QED BY <4>1, <4>2
      <3>2. Stride[k] * s.n = Stride[k] + Stride[k + 1] * t.n /\ Stride[k + 1] * t.n \in Nat
        BY <2>4, <3>1
      <3>3. h \in 0 .. n /\ h <= n /\ h + Stride[k + 1] * t.n = n
        BY <2>1, <2>4, <3>2
      <3>4. Near(d[m], d[h], Base[k], Fixed[k], Weight[k])
        BY <3>3, StrideNear
      <3>5. d[h] \in Int
        BY <3>3 DEF Shrinks
      <3> DEFINE p == s.result * s.x
      <3>6. p \in Nat /\ p <= 2048 * 2048
        <4>1. s.x \in Nat /\ s.x <= 2048 /\ s.result \in Nat /\ s.result <= 2048
          BY <2>2
        <4> QED BY <4>1, Product
      <3>7. p = Base[k] * s.result
        <4>1. s.x \in Int /\ s.result \in Int /\ s.x = Base[k]
          BY <2>2
        <4> QED BY <4>1
      <3>8. t.result = (p + 1024) \div 2048
        BY <3>1
      <3> HIDE DEF p, h
      <3>9. t.result \in Nat /\ t.result <= 2048
        BY <3>6, <3>8
      <3>10. t.result \in Int
        BY <3>9
      <3>11. Nearest(t.result, p)
        BY <3>6, <3>8 DEF Nearest
      <3>12. Nearest(t.result, Base[k] * s.result)
        BY <3>7, <3>11, Zenon
      <3>13. Near(d[0], d[h], t.result, PowerFixed[k + 1], PowerWeight[k + 1])
        <4>1. s.result \in Nat /\ s.result <= FIXED_1
          BY <2>2, Scale
        <4>2. Near(d[0], d[m], s.result, PowerFixed[k], PowerWeight[k])
          BY <2>1
        <4> QED BY <2>5, <3>4, <3>5, <3>10, <3>12, <4>1, <4>2, BitNear, Zenon
      <3> QED BY <2>3, <3>3, <3>9, <3>13 DEF Bits
    <2>8. s.n % 2 = 0 \/ s.n % 2 = 1
      BY <1>1
    <2> QED BY <2>6, <2>7, <2>8
  <1>5. ASSUME Bits(s, 8, d, n), s.n # 0 PROVE Vanishes(s, n)
    <2>1. PICK m \in 0 .. n : m + 128 * s.n = n
      BY <1>5 DEF Bits, Stride
    <2> QED BY <1>1, <1>5, <2>1 DEF Bits, Base, Vanishes
  <1>6. CASE s.n # 0
    <2>1. ~Ended(s, d, n)
      BY <1>6 DEF Ended
    <2>2. CASE Vanishes(s, n)
      BY <1>3, <1>6, <2>2 DEF Holds, t
    <2>3. CASE \E k \in 1 .. 8 : Bits(s, k, d, n)
      <3>1. PICK k \in 1 .. 8 : Bits(s, k, d, n)
        BY <2>3
      <3>2. CASE k = 8
        BY <1>3, <1>5, <1>6, <3>1, <3>2 DEF Holds, t
      <3>3. CASE k # 8
        <4>1. k \in 1 .. 7 /\ k + 1 \in 1 .. 8
          BY <3>3
        <4> QED BY <1>4, <1>6, <3>1, <4>1 DEF Holds, t
      <3> QED BY <3>2, <3>3
    <2> QED BY <2>1, <2>2, <2>3 DEF Holds
  <1> QED BY <1>2, <1>6

\* The average comes no further away in a window.
LEMMA StaysAsNear ==
    ASSUME NEW n \in Nat, NEW d, Shrinks(d, n), NEW m \in 0 .. n
    PROVE  Mag(d[n]) <= Mag(d[m])
  <1> DEFINE T == {j \in 0 .. n - m : Mag(d[m + j]) <= Mag(d[m])}
  <1>1. \A i \in 0 .. n : d[i] \in Int
    BY DEF Shrinks
  <1>2. 0 \in T
    BY <1>1 DEF Mag
  <1>3. ASSUME NEW k \in 1 .. n - m, k - 1 \in T PROVE k \in T
    <2>1. m + k \in 1 .. n /\ m + k \in 0 .. n /\ m + (k - 1) \in 0 .. n /\ (m + k) - 1 = m + (k - 1)
      OBVIOUS
    <2>2. d[m] \in Int /\ d[m + k] \in Int /\ d[m + (k - 1)] \in Int
      BY <1>1, <2>1
    <2>3. Shrunk(d[m + (k - 1)], d[m + k])
      BY <2>1 DEF Shrinks
    <2>4. Mag(d[m + (k - 1)]) <= Mag(d[m])
      BY <1>3
    <2>5. Mag(d[m + k]) <= Mag(d[m + (k - 1)])
      BY <2>2, <2>3 DEF Shrunk, Mag
    <2>6. Mag(d[m + k]) <= Mag(d[m])
      BY <2>2, <2>4, <2>5 DEF Mag
    <2> QED BY <2>6
  <1>4. n - m \in Nat /\ n - m \in 0 .. n - m /\ m + (n - m) = n
    OBVIOUS
  <1>5. n - m \in T
    <2> HIDE DEF T
    <2> QED BY <1>2, <1>3, <1>4, UpTo
  <1> QED BY <1>4, <1>5

LEMMA NoFurther ==
    ASSUME NEW d \in Int, NEW e \in Int, NEW f \in Int,
           Near(d, e, 0, 12798, 54), Mag(f) <= Mag(e)
    PROVE  Near(d, f, 0, MostFixed, MostWeight)
  <1>1. 0 * d = 0
    OBVIOUS
  <1>2. Mag(d) \in Nat /\ 54 * Mag(d) <= 2950 * Mag(d)
    BY DEF Mag
  <1>3. 1000 * (2048 * e) <= 1000 * 12798 + 54 * Mag(d) /\ 1000 * (-(2048 * e)) <= 1000 * 12798 + 54 * Mag(d)
    BY <1>1 DEF Near
  <1>4. f <= Mag(e) /\ -f <= Mag(e) /\ (Mag(e) = e \/ Mag(e) = -e) /\ Mag(e) \in Nat
    BY DEF Mag
  <1>5. 1000 * (2048 * f) <= 1000 * 12798 + 2950 * Mag(d) /\ 1000 * (-(2048 * f)) <= 1000 * 12798 + 2950 * Mag(d)
    BY <1>2, <1>3, <1>4
  <1> QED BY <1>1, <1>5 DEF Near, MostFixed, MostWeight

\* fixed_power_int is what n windows in turn do to the distance, but for rounding.
LEMMA PowerNear ==
    ASSUME NEW n \in Nat, NEW d, Shrinks(d, n)
    PROVE  /\ Power(EXP_1, n) \in Nat /\ Power(EXP_1, n) <= 2048
           /\ Near(d[0], d[n], Power(EXP_1, n), MostFixed, MostWeight)
  <1>1. PICK a \in [0 .. n -> States] :
          /\ a[0] = [x |-> 1884, n |-> n, result |-> 2048] /\ a[n].result = Power(EXP_1, n)
          /\ \A i \in 1 .. n : a[i] = Round(a[i - 1])
    BY PowerRounds, Scale
  <1>2. \A i \in 0 .. n : d[i] \in Int
    BY DEF Shrinks
  <1> DEFINE T == {i \in 0 .. n : Holds(a[i], d, n) /\ a[i].n <= n - i}
  <1>3. 0 \in T
    <2>1. a[0].x = 1884 /\ a[0].n = n /\ a[0].result = 2048
      BY <1>1
    <2>2. Near(d[0], d[0], 2048, 0, 0)
      BY <1>2 DEF Near, Mag
    <2>3. Bits(a[0], 1, d, n)
      <3>1. 0 \in 0 .. n /\ 0 + 1 * n = n
        OBVIOUS
      <3> QED BY <2>1, <2>2, <3>1 DEF Bits, Base, Stride, PowerFixed, PowerWeight
    <2> QED BY <2>1, <2>3 DEF Holds
  <1>4. ASSUME NEW k \in 1 .. n, k - 1 \in T PROVE k \in T
    <2>1. k - 1 \in 0 .. n /\ a[k - 1] \in States /\ a[k] = Round(a[k - 1])
      BY <1>1
    <2>2. Holds(a[k - 1], d, n) /\ a[k - 1].n <= n - (k - 1)
      BY <1>4
    <2>3. Holds(a[k], d, n)
      BY <2>1, <2>2, RoundHolds
    <2>4. a[k].n <= n - k
      <3>1. a[k - 1].n \in Nat
        BY <2>1 DEF States
      <3>2. CASE a[k - 1].n = 0
        BY <2>1, <3>2, RoundType
      <3>3. CASE a[k - 1].n # 0
        <4>1. a[k].n = a[k - 1].n \div 2
          BY <2>1, <3>3, RoundType
        <4> QED BY <2>2, <3>1, <3>3, <4>1
      <3> QED BY <3>2, <3>3
    <2> QED BY <2>3, <2>4
  <1>5. n \in T
    <2> HIDE DEF T
    <2> QED BY <1>3, <1>4, UpTo
  <1> DEFINE s == a[n]
  <1>6. s \in States /\ Holds(s, d, n) /\ s.n = 0 /\ s.result = Power(EXP_1, n)
    <2>1. a[n] \in States /\ a[n].n \in Nat
      BY <1>1 DEF States
    <2> QED BY <1>1, <1>5, <2>1
  <1> HIDE DEF s
  <1>7. CASE Ended(s, d, n)
    BY <1>6, <1>7 DEF Ended
  <1>8. CASE Vanishes(s, n)
    <2>1. s.result = 0 /\ 128 \in 0 .. n /\ 0 + 128 <= n /\ 0 \in 0 .. n
      BY <1>6, <1>8 DEF Vanishes
    <2>2. Near(d[0], d[128], 0, 12798, 54)
      <3>1. Near(d[0], d[0 + Stride[8]], Base[8], Fixed[8], Weight[8])
        BY <2>1, StrideNear DEF Stride
      <3> QED BY <3>1 DEF Stride, Base, Fixed, Weight
    <2>3. Mag(d[n]) <= Mag(d[128])
      BY <2>1, StaysAsNear
    <2>4. d[0] \in Int /\ d[128] \in Int /\ d[n] \in Int
      BY <1>2, <2>1
    <2>5. Near(d[0], d[n], 0, MostFixed, MostWeight)
      BY <2>2, <2>3, <2>4, NoFurther
    <2> QED BY <1>6, <2>1, <2>5
  <1>9. CASE \E k \in 1 .. 8 : Bits(s, k, d, n)
    <2>1. PICK k \in 1 .. 8, m \in 0 .. n :
            /\ s.result \in Nat /\ s.result <= 2048 /\ m + Stride[k] * s.n = n
            /\ Near(d[0], d[m], s.result, PowerFixed[k], PowerWeight[k])
      BY <1>9 DEF Bits
    <2>2. m = n
      <3>1. Stride[k] \in Nat
        BY DEF Stride
      <3>2. Stride[k] * 0 = 0
        BY <3>1
      <3> QED BY <1>6, <2>1, <3>2
    <2>3. 0 \in 0 .. n /\ n \in 0 .. n /\ d[0] \in Int /\ d[n] \in Int
      BY <1>2
    <2>4. s.result \in Nat /\ s.result <= 2048
      BY <2>1
    <2>5. s.result \in Int
      BY <2>4
    <2>6. Near(d[0], d[n], s.result, PowerFixed[k], PowerWeight[k])
      BY <2>1, <2>2
    <2>7. Near(d[0], d[n], s.result, MostFixed, MostWeight)
      BY <2>3, <2>5, <2>6, NearWeakens, Zenon
    <2> QED BY <1>6, <2>4, <2>7
  <1> QED BY <1>6, <1>7, <1>8, <1>9 DEF Holds

LEMMA Mixed ==
    ASSUME NEW o \in Int, NEW q \in Int, NEW a \in Int
    PROVE  o * q + a * (2048 - q) = q * (o - a) + 2048 * a
  <1>1. a * (2048 - q) = 2048 * a - q * a /\ q * (o - a) = o * q - q * a
    OBVIOUS
  <1> QED BY <1>1

\* n + 1 windows caught up with, against the same windows in turn.
LEMMA CatchUpNear ==
    ASSUME NEW avg \in Nat, NEW active \in Nat, NEW n \in Nat
    PROVE  LET once == Decayed(avg, EXP_1, active)
               made == IF n = 0 THEN once ELSE DecayedBy(once, active, n)
           IN  /\ made \in Nat
               /\ Distance(made, InTurn(avg, active, n + 1)) <= Rounding(avg, active)
  <1> DEFINE once == Decayed(avg, EXP_1, active)
             made == IF n = 0 THEN once ELSE DecayedBy(once, active, n)
             turn == InTurn(avg, active, n + 1)
  <1>1. PICK a \in [0 .. n + 1 -> Int] :
          /\ a[0] = avg /\ a[n + 1] = turn
          /\ \A i \in 1 .. n + 1 : a[i] = Decayed(a[i - 1], EXP_1, active)
    <2>1. avg \in Int /\ active \in Int /\ n + 1 \in Nat
      OBVIOUS
    <2> QED BY <2>1, InTurnShrinks, Zenon
  <1>2. once \in Nat /\ Mag(once - active) <= Mag(avg - active)
    <2>1. once \in Nat
      BY Scale DEF Decayed
    <2>2. Shrunk(avg - active, once - active)
      <3>1. avg \in Int /\ active \in Int
        OBVIOUS
      <3> QED BY <3>1, OneWindow, Zenon
    <2> HIDE DEF once
    <2> QED BY <2>1, <2>2 DEF Shrunk, Mag
  <1>3. a[1] = once
    <2>1. 1 \in 1 .. n + 1 /\ 1 - 1 = 0
      OBVIOUS
    <2> QED BY <1>1, <2>1
  <1> DEFINE d == [i \in 0 .. n |-> a[i + 1] - active]
  <1>4. Shrinks(d, n)
    <2>1. d \in [0 .. n -> Int]
      OBVIOUS
    <2>2. ASSUME NEW i \in 1 .. n
          PROVE  Shrunk(d[i - 1], d[i])
      <3>1. /\ i + 1 \in 1 .. n + 1 /\ (i + 1) - 1 = i /\ i \in 0 .. n /\ i - 1 \in 0 .. n
            /\ (i - 1) + 1 = i /\ i \in 0 .. n + 1
        OBVIOUS
      <3>2. a[i + 1] = Decayed(a[i], EXP_1, active) /\ a[i] \in Int
        BY <1>1, <3>1
      <3>3. d[i] = Decayed(a[i], EXP_1, active) - active /\ d[i - 1] = a[i] - active
        BY <3>1, <3>2
      <3> HIDE DEF d
      <3>4. active \in Int /\ a[i] \in Int
        BY <3>2
      <3> QED BY <3>3, <3>4, OneWindow, Zenon
    <2> QED BY <2>1, <2>2 DEF Shrinks
  <1>5. d[0] = once - active /\ d[n] = turn - active /\ turn \in Int
    BY <1>1, <1>3
  <1> DEFINE q == Power(EXP_1, n)
             e == once - active
             f == turn - active
             m == Mag(avg - active)
  <1>6. q \in Nat /\ q <= 2048 /\ Near(e, f, q, MostFixed, MostWeight)
    <2> HIDE DEF d, q, e, f
    <2>1. q \in Nat /\ q <= 2048 /\ Near(d[0], d[n], q, MostFixed, MostWeight)
      BY <1>4, PowerNear DEF q
    <2> QED BY <1>5, <2>1 DEF e, f
  <1>7. e \in Int /\ f \in Int /\ m \in Nat /\ Mag(e) <= m
    BY <1>2, <1>5 DEF Mag
  <1>8. Distance(avg, active) = m
    BY DEF Distance, Mag
  <1>9. m \in Nat => Rounding(avg, active) = 7 + (3 * m) \div 2048 /\ (3 * m) \div 2048 \in Nat
    <2> HIDE DEF m
    <2> QED BY <1>8, Scale DEF Rounding
  <1>10. CASE n = 0
    <2>1. made = turn /\ turn \in Nat
      BY <1>1, <1>2, <1>3, <1>10
    <2> HIDE DEF made, turn, m
    <2>2. Distance(made, turn) = 0
      BY <2>1 DEF Distance
    <2>3. made \in Nat /\ Distance(made, turn) <= Rounding(avg, active)
      BY <1>7, <1>9, <2>1, <2>2
    <2> QED BY <2>3 DEF made, turn
  <1>11. CASE n # 0
    <2> DEFINE p == q * e
               v == p + 2048 * active
    <2>1. made = (once * q + active * (2048 - q) + 1024) \div 2048
      BY <1>11, Scale DEF DecayedBy, Decayed
    <2>2. once * q + active * (2048 - q) = v /\ p \in Int /\ v \in Int
      <3>1. q \in Int /\ once \in Int /\ e \in Int
        <4> HIDE DEF q, once, e, f, m
        <4>1. q \in Nat /\ q <= 2048 /\ once \in Nat /\ e \in Int
          BY <1>2, <1>6, <1>7
        <4> QED BY <4>1
      <3> HIDE DEF once, q
      <3> QED BY <3>1, Mixed
    <2>3. v \in Nat
      <3> HIDE DEF once, q, v
      <3>1. q \in Nat /\ 2048 - q \in Nat
        BY <1>6
      <3>2. once * q \in Nat /\ active * (2048 - q) \in Nat
        BY <1>2, <3>1
      <3> QED BY <2>2, <3>2
    <2>4. /\ 1000 * (2048 * f - p) <= 1000 * 12798 + 2950 * m
          /\ 1000 * (p - 2048 * f) <= 1000 * 12798 + 2950 * m
      <3>1. /\ 1000 * (2048 * f - p) <= 1000 * 12798 + 2950 * Mag(e)
            /\ 1000 * (p - 2048 * f) <= 1000 * 12798 + 2950 * Mag(e)
        BY <1>6 DEF Near, MostFixed, MostWeight
      <3>2. Mag(e) \in Nat
        BY <1>7 DEF Mag
      <3> HIDE DEF p, m, e, f
      <3> QED BY <1>7, <2>2, <3>1, <3>2
    <2>5. turn = f + active
      BY <1>5
    <2>6. made = (v + 1024) \div 2048
      BY <2>1, <2>2
    <2> HIDE DEF made, p, q, turn, f, m, once
    <2>7. v + 1024 < 2048 * made + 2048 /\ 2048 * made <= v + 1024 /\ made \in Nat
      <3> HIDE DEF v
      <3> QED BY <2>3, <2>6
    <2>8. /\ 2048 * (made - turn) <= 14336 + 3 * m
          /\ 2048 * (turn - made) <= 14336 + 3 * m
      BY <1>7, <2>2, <2>4, <2>5, <2>7
    <2>9. made - turn <= 7 + (3 * m) \div 2048 /\ turn - made <= 7 + (3 * m) \div 2048
      BY <1>5, <1>7, <2>7, <2>8
    <2>10. made \in Nat /\ Distance(made, turn) <= Rounding(avg, active)
      BY <1>5, <1>7, <1>9, <2>7, <2>9 DEF Distance
    <2> QED BY <2>10 DEF made, turn, once
  <1> QED BY <1>10, <1>11

\* Windows one apart: the sleep that is due, and what calc_global_nohz is behind
\* after the first of them.
LEMMA DueWindows ==
    ASSUME NEW u \in Nat, NEW now \in Nat, u + WindowTicks <= now
    PROVE  1 + (now - u - WindowTicks) \div LOAD_FREQ = Behind(now, u + LOAD_FREQ) + 1
  <1> DEFINE x == now - u - WindowTicks
             y == now - (u + LOAD_FREQ) - WindowTicks
  <1>1. WindowTicks \in Nat /\ LOAD_FREQ \in Nat /\ LOAD_FREQ > 0
    BY LoadConstants
  <1>2. x \in Nat /\ y \in Int /\ x = y + LOAD_FREQ /\ (now < u + LOAD_FREQ + WindowTicks <=> y < 0)
    BY <1>1
  <1>3. Behind(now, u + LOAD_FREQ) = IF y < 0 THEN 0 ELSE 1 + y \div LOAD_FREQ
    BY <1>2 DEF Behind
  <1> HIDE DEF x, y
  <1>4. y < 0 => x \div LOAD_FREQ = 0
    BY <1>1, <1>2
  <1>5. y >= 0 => x \div LOAD_FREQ = 1 + y \div LOAD_FREQ
    BY <1>1, <1>2
  <1>6. x \div LOAD_FREQ \in Int /\ y \div LOAD_FREQ \in Int
    BY <1>1, <1>2
  <1> QED BY <1>2, <1>3, <1>4, <1>5, <1>6 DEF x

\* What a step must show of a fold, and the average it relies on.
Close ==
    Folds =>
        LET due    == 1 + (jiffies' - load.update - WindowTicks) \div LOAD_FREQ
            active == Active(load'.tasks)
        IN /\ load'.update = load.update + due * LOAD_FREQ
           /\ Distance(load'.avenrun, InTurn(load.avenrun, active, due))
                <= Rounding(load.avenrun, active)
Average == load.avenrun \in Nat

LEMMA FoldClose ==
    ASSUME LoadInv, Average, jiffies' \in Nat, load.update + WindowTicks <= jiffies',
           load' = Fold(jiffies')
    PROVE  Average' /\ Close
  <1> DEFINE now    == jiffies'
             tasks  == load.tasks + load.idle[load.idx]
             active == Active(tasks)
             n      == Behind(now, load.update + LOAD_FREQ)
             once   == Decayed(load.avenrun, EXP_1, active)
             made   == IF n = 0 THEN once ELSE DecayedBy(once, active, n)
  <1>1. /\ load.update \in Nat /\ load.update + LOAD_FREQ \in Nat /\ LOAD_FREQ \in Nat
        /\ tasks \in Int /\ now \in Nat
    BY LoadFacts DEF Taken
  <1>2. active \in Nat
    <2> HIDE DEF tasks
    <2> QED BY <1>1, Scale DEF Active
  <1>3. n \in Nat
    BY <1>1, BehindType
  <1>4. /\ load'.update = load.update + LOAD_FREQ + n * LOAD_FREQ
        /\ load'.tasks = tasks /\ load'.avenrun = made
    BY DEF Fold
  <1>5. 1 + (now - load.update - WindowTicks) \div LOAD_FREQ = n + 1
    BY <1>1, DueWindows
  <1> HIDE DEF now, tasks, active, n
  <1>6. made \in Nat /\ Distance(made, InTurn(load.avenrun, active, n + 1)) <= Rounding(load.avenrun, active)
    <2> HIDE DEF Average
    <2>1. load.avenrun \in Nat
      BY DEF Average
    <2> QED BY <1>2, <1>3, <2>1, CatchUpNear
  <1>7. load.update + LOAD_FREQ + n * LOAD_FREQ = load.update + (n + 1) * LOAD_FREQ
    BY <1>1, <1>3
  <1> HIDE DEF made
  <1>8. Average'
    BY <1>4, <1>6 DEF Average
  <1>9. Close
    <2>1. active = Active(load'.tasks)
      BY <1>4 DEF active
    <2>2. load'.update = load.update + (n + 1) * LOAD_FREQ
      BY <1>4, <1>7
    <2>3. Distance(load'.avenrun, InTurn(load.avenrun, Active(load'.tasks), n + 1))
            <= Rounding(load.avenrun, Active(load'.tasks))
      BY <1>4, <1>6, <2>1
    <2> QED BY <1>5, <2>2, <2>3, Zenon DEF Close, now
  <1> QED BY <1>8, <1>9

\* The time goes on: a fold, if one is due, or the average and its window stay.
LEMMA GlobalLoadClose ==
    ASSUME LoadInv, Average, jiffies' \in Nat, load' = GlobalLoad(jiffies')
    PROVE  Average' /\ Close
  <1>1. CASE jiffies' < load.update + WindowTicks
    <2>1. load' = load
      BY <1>1 DEF GlobalLoad
    <2> QED BY <2>1 DEF Average, Close, Folds
  <1>2. CASE ~(jiffies' < load.update + WindowTicks)
    <2>1. load' = Fold(jiffies')
      BY <1>2 DEF GlobalLoad
    <2>2. load.update + WindowTicks <= jiffies'
      BY <1>2, LoadFacts
    <2> QED BY <2>1, <2>2, FoldClose
  <1> QED BY <1>1, <1>2

LEMMA AverageStep == LoadInv /\ Average /\ [LoadNext]_loadVars => Average' /\ Close
  <1> SUFFICES ASSUME LoadInv, Average, [LoadNext]_loadVars PROVE Average' /\ Close
    OBVIOUS
  <1>1. ASSUME UNCHANGED load PROVE Average' /\ Close
    BY <1>1 DEF Average, Close, Folds
  <1>2. ASSUME Tick PROVE Average' /\ Close
    <2> DEFINE now == jiffies + 1
               l   == GlobalLoad(now)
    <2>1. /\ ~stopped /\ jiffies' = now
          /\ IF now < rqUpdate THEN load' = l ELSE load' = [l EXCEPT !.tasks = @ + ActiveDelta]
      BY <1>2, Zenon DEF Tick, TimeIs
    <2>2. now \in Nat
      BY LoadFacts
    <2>3. CASE now < rqUpdate
      BY <2>1, <2>2, <2>3, GlobalLoadClose
    <2>4. CASE ~(now < rqUpdate)
      <3>1. rqUpdate >= IF jiffies < load.update THEN load.update ELSE load.update + LOAD_FREQ
        BY <2>1 DEF LoadInv, Windows
      <3>2. now < load.update + WindowTicks
        BY <2>4, <3>1, LoadFacts
      <3>3. l = load
        BY <3>2 DEF GlobalLoad
      <3>4. load' = [load EXCEPT !.tasks = @ + ActiveDelta]
        BY <2>1, <2>4, <3>3
      <3>5. load'.update = load.update /\ load'.avenrun = load.avenrun
        BY <3>4 DEF LoadInv, LoadTypes, IsLoad
      <3> QED BY <3>5 DEF Average, Close, Folds
    <2> QED BY <2>3, <2>4
  <1>3. ASSUME NEW n \in Jumps, IdleInterrupt(n) PROVE Average' /\ Close
    <2>1. jiffies' = jiffies + n /\ load' = GlobalLoad(jiffies + n)
      BY <1>3, Zenon DEF IdleInterrupt, TimeIs
    <2>2. jiffies' \in Nat
      BY <2>1, LoadFacts, LoadConstants
    <2> QED BY <2>1, <2>2, GlobalLoadClose
  <1>4. ASSUME EnterIdle PROVE Average' /\ Close
    <2>1. load' = [load EXCEPT !.idle[WriteIdx] = @ + ActiveDelta]
      BY <1>4 DEF EnterIdle
    <2>2. load'.update = load.update /\ load'.avenrun = load.avenrun
      BY <2>1 DEF LoadInv, LoadTypes, IsLoad
    <2> QED BY <2>2 DEF Average, Close, Folds
  <1>5. ASSUME ExitIdle PROVE UNCHANGED load
    BY <1>5 DEF ExitIdle
  <1>6. ASSUME NEW w \in Workers, NEW s \in {"S", "D"}, WakeWorker(w) \/ Block(w, s)
        PROVE  UNCHANGED load
    BY <1>6 DEF WakeWorker, Block
  <1>7. ASSUME NEW w \in Workers, WakeWorker(w) PROVE UNCHANGED load
    BY <1>7 DEF WakeWorker
  <1>8. CASE UNCHANGED loadVars
    BY <1>1, <1>8 DEF loadVars
  <1> QED BY <1>1, <1>2, <1>3, <1>4, <1>5, <1>6, <1>7, <1>8 DEF LoadNext

\* For any tasks, window length and lengths of sleep: calc_global_load folds every
\* window that is due once, and the average it makes with fixed_power_int is the
\* one that folding them in turn makes, but for the rounding.
THEOREM CatchUpTheorem == LoadSpec => CatchUpIsClose
  <1>1. LoadInit => LoadInv /\ Average
    <2>1. LoadInit => Average
      BY DEF LoadInit, Average
    <2> QED BY <2>1, LoadInitInv
  <1>2. LoadInv /\ Average /\ [LoadNext]_loadVars => (LoadInv /\ Average)'
    BY LoadStep, AverageStep
  <1>3. LoadInv /\ Average /\ [LoadNext]_loadVars => [Close]_loadVars
    BY AverageStep
  <1>4. LoadSpec => [][Close]_loadVars
    BY <1>1, <1>2, <1>3, PTL DEF LoadSpec
  <1> QED BY <1>4 DEF CatchUpIsClose, Close

=============================================================================
