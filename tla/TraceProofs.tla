---------------------------- MODULE TraceProofs -----------------------------
(***************************************************************************)
(* Theorems about the tracing of memory accesses.  MemTrace: a task_struct *)
(* in use is never freed, and when tasks trace themselves, the calls and   *)
(* faults are those of TraceAbs.  PageFault: the semaphore of the address  *)
(* space is held and released as it should be, by any number of threads.   *)
(***************************************************************************)
EXTENDS MemTrace, PageFault, Integers, FiniteSetTheorems, TLAPS

-----------------------------------------------------------------------------
(* MemTrace: references and tracing *)

Types ==
    /\ life \in [Tasks -> {"free", "live", "dead"}]
    /\ usage \in [Tasks -> Int]
    /\ traceFlag \in [Tasks -> BOOLEAN]
    /\ wcounts \in [Tasks -> Int]
    /\ pc \in [Tasks -> Points]
    /\ target \in [Tasks -> Tasks]
    /\ reg \in [Tasks -> Int]

\* A task_struct that a call uses has the task's own reference and the call's,
\* and once it is dead, nobody drops the last one.
Referenced(t) == \/ life[t] = "live" /\ usage[t] >= 2
                 \/ life[t] = "dead"

Refs == /\ \A p \in Tasks : InCall(p) => Referenced(target[p])
        /\ \A t \in Tasks : life[t] = "live" => usage[t] >= 1
        /\ \A t \in Tasks : pc[t] # "user" => life[t] = "live"

RefInv == Types /\ Refs

LEMMA CallIsNotUser == \A p \in Tasks : InCall(p) => pc[p] # "user"
  BY DEF InCall, CallPoints

LEMMA RefInit == Init => RefInv
  <1> SUFFICES ASSUME Init PROVE RefInv
    OBVIOUS
  <1>1. Types
    BY BoundAssumption DEF Init, Types, Points
  <1>2. \A p \in Tasks : ~InCall(p)
    BY DEF Init, InCall, CallPoints
  <1>3. \A t \in Tasks : (life[t] = "live" => usage[t] >= 1) /\ pc[t] = "user"
    BY DEF Init
  <1> QED BY <1>1, <1>2, <1>3 DEF RefInv, Refs

\* A step of p that leaves life and usage alone and stays in its call, or leaves
\* it, or was in none and is in none.
LEMMA RefStep ==
    ASSUME RefInv, NEW p \in Tasks, NEW to \in Points, life[p] = "live" \/ pc[p] # "user",
           UNCHANGED <<life, usage>>, pc' = [pc EXCEPT ![p] = to],
           \/ target' = target /\ (to \in CallPoints => InCall(p))
           \/ target' = [target EXCEPT ![p] = p] /\ to \notin CallPoints,
           Types'
    PROVE  RefInv'
  <1>1. \A r \in Tasks \ {p} : pc'[r] = pc[r] /\ target'[r] = target[r]
    BY DEF RefInv, Types
  <1>2. pc'[p] = to
    BY DEF RefInv, Types
  <1>3. \A r \in Tasks : InCall(r)' => InCall(r) /\ target'[r] = target[r]
    BY <1>1, <1>2 DEF InCall
  <1>4. \A t \in Tasks : Referenced(t)' <=> Referenced(t)
    BY DEF Referenced
  <1>5. \A r \in Tasks : target[r] \in Tasks
    BY DEF RefInv, Types
  <1>6. \A r \in Tasks : pc'[r] # "user" => life'[r] = "live"
    BY <1>1, <1>2 DEF RefInv, Refs
  <1> QED BY <1>3, <1>4, <1>5, <1>6 DEF RefInv, Refs

LEMMA LookUpStep ==
    ASSUME RefInv, NEW p \in Tasks, NEW t \in Tasks, NEW next \in CallPoints, LookUp(p, t, next)
    PROVE  RefInv'
  <1>1. /\ life[p] = "live" /\ pc[p] = "user" /\ life[t] = "live"
        /\ usage' = [usage EXCEPT ![t] = usage[t] + 1]
        /\ target' = [target EXCEPT ![p] = t] /\ pc' = [pc EXCEPT ![p] = next]
        /\ UNCHANGED <<life, traceFlag, wcounts, reg>>
    BY DEF LookUp
  <1>2. Types'
    BY <1>1 DEF RefInv, Types, Points
  <1>3. usage[t] >= 1 /\ usage'[t] >= 2 /\ \A r \in Tasks \ {t} : usage'[r] = usage[r]
    BY <1>1 DEF RefInv, Types, Refs
  <1>4. \A r \in Tasks : Referenced(r) => Referenced(r)'
    BY <1>1, <1>3 DEF Referenced
  <1>5. Referenced(t)'
    BY <1>1, <1>3 DEF Referenced
  <1>6. /\ target'[p] = t /\ \A r \in Tasks \ {p} : target'[r] = target[r] /\ pc'[r] = pc[r]
    BY <1>1 DEF RefInv, Types
  <1>7. \A r \in Tasks : InCall(r)' => Referenced(target[r])'
    <2> SUFFICES ASSUME NEW r \in Tasks, InCall(r)' PROVE Referenced(target[r])'
      OBVIOUS
    <2>1. CASE r = p
      BY <1>5, <1>6, <2>1
    <2>2. CASE r # p
      <3>1. InCall(r) /\ target'[r] = target[r] /\ target[r] \in Tasks
        BY <1>6, <2>2 DEF InCall, RefInv, Types
      <3> QED BY <1>4, <3>1 DEF RefInv, Refs
    <2> QED BY <2>1, <2>2
  <1>8. \A r \in Tasks : life'[r] = "live" => usage'[r] >= 1
    <2> SUFFICES ASSUME NEW r \in Tasks, life'[r] = "live" PROVE usage'[r] >= 1
      OBVIOUS
    <2>1. usage[r] >= 1 /\ usage[r] \in Int
      BY <1>1 DEF RefInv, Refs, Types
    <2>2. usage'[r] \in {usage[r], usage[r] + 1}
      BY <1>1 DEF RefInv, Types
    <2> QED BY <2>1, <2>2
  <1>9. \A r \in Tasks : pc'[r] # "user" => life'[r] = "live"
    BY <1>1, <1>6 DEF RefInv, Refs
  <1> QED BY <1>2, <1>7, <1>8, <1>9 DEF RefInv, Refs

LEMMA RefNext ==
    ASSUME RefInv, [Next]_vars
    PROVE  RefInv'
  <1>1. Types
    BY DEF RefInv
  <1>2. CASE UNCHANGED vars
    BY <1>2 DEF vars, RefInv, Types, Refs, Referenced, InCall
  <1>3. ASSUME NEW p \in Tasks, StartCall(p) \/ StopCall(p) \/ GetCall(p) PROVE RefInv'
    <2>1. PICK t \in Tasks : \/ LookUp(p, t, "start_check") \/ LookUp(p, t, "stop_flag")
                            \/ LookUp(p, t, "get_check")
      BY <1>3 DEF StartCall, StopCall, GetCall
    <2> QED BY <2>1, LookUpStep DEF CallPoints
  <1>4. ASSUME NEW p \in Tasks, StartCheck(p) \/ GetCheck(p) PROVE RefInv'
    <2>1. UNCHANGED fields /\ reg' = reg
      BY <1>4 DEF StartCheck, GetCheck
    <2>2. PICK to \in {"user", "start_flag", "get_read"} :
            /\ pc' = [pc EXCEPT ![p] = to] /\ InCall(p) /\ pc[p] # "user"
            /\ \/ target' = target
               \/ target' = [target EXCEPT ![p] = p] /\ to = "user"
      BY <1>4 DEF StartCheck, GetCheck, Goto, Return, InCall, CallPoints
    <2>3. to \in Points /\ Types'
      BY <1>1, <2>1, <2>2 DEF Types, Points, CallPoints, fields
    <2> QED BY <2>1, <2>2, <2>3, RefStep DEF fields, CallPoints
  <1>5. ASSUME NEW p \in Tasks, StartFlag(p) \/ StopFlag(p) PROVE RefInv'
    <2>1. /\ UNCHANGED <<life, usage, wcounts, target, reg>> /\ InCall(p)
          /\ pc[p] # "user"
          /\ \/ pc' = [pc EXCEPT ![p] = "start_zero"]
                /\ traceFlag' = [traceFlag EXCEPT ![target[p]] = TRUE]
             \/ pc' = [pc EXCEPT ![p] = "stop_zero"]
                /\ traceFlag' = [traceFlag EXCEPT ![target[p]] = FALSE]
      BY <1>5 DEF StartFlag, StopFlag, Goto, InCall, CallPoints
    <2>2. Types' /\ "start_zero" \in Points /\ "stop_zero" \in Points
      BY <1>1, <2>1 DEF Types, Points, CallPoints
    <2> QED BY <2>1, <2>2, RefStep
  <1>6. ASSUME NEW p \in Tasks, StartZero(p) \/ StopZero(p) \/ GetRead(p) PROVE RefInv'
    <2>1. /\ UNCHANGED <<life, usage, traceFlag, reg>>
          /\ pc' = [pc EXCEPT ![p] = "user"] /\ target' = [target EXCEPT ![p] = p]
          /\ pc[p] # "user"
          /\ wcounts' \in {wcounts, [wcounts EXCEPT ![target[p]] = 0]}
      BY <1>6 DEF StartZero, StopZero, GetRead, Return, Goto, fields
    <2>2. Types' /\ "user" \in Points /\ "user" \notin CallPoints
      BY <1>1, <2>1 DEF Types, Points, CallPoints
    <2> QED BY <2>1, <2>2, RefStep
  <1>7. ASSUME NEW p \in Tasks, Segv(p) \/ FaultCheck(p) PROVE RefInv'
    <2>1. /\ UNCHANGED <<life, usage, traceFlag, wcounts, target, reg>>
          /\ \E to \in {"user", "fault_check", "fault_load"} : pc' = [pc EXCEPT ![p] = to]
          /\ life[p] = "live" \/ pc[p] # "user"
      BY <1>7 DEF Segv, FaultCheck, Goto, fields
    <2>2. PICK to \in {"user", "fault_check", "fault_load"} : pc' = [pc EXCEPT ![p] = to]
      BY <2>1
    <2>3. Types' /\ to \in Points /\ to \notin CallPoints
      BY <1>1, <2>1, <2>2 DEF Types, Points, CallPoints
    <2> QED BY <2>1, <2>2, <2>3, RefStep
  <1>8. ASSUME NEW p \in Tasks, FaultStore(p) PROVE RefInv'
    <2>1. /\ UNCHANGED <<life, usage, traceFlag, target>>
          /\ pc' = [pc EXCEPT ![p] = "user"] /\ pc[p] # "user"
          /\ wcounts' = [wcounts EXCEPT ![p] = reg[p]] /\ reg' = [reg EXCEPT ![p] = 0]
      BY <1>8 DEF FaultStore, Goto
    <2>2. Types' /\ "user" \in Points /\ "user" \notin CallPoints
      BY <1>1, <2>1 DEF Types, Points, CallPoints
    <2> QED BY <2>1, <2>2, RefStep
  <1>9. ASSUME NEW p \in Tasks, FaultLoad(p) PROVE RefInv'
    <2>1. /\ UNCHANGED <<life, usage, traceFlag, wcounts, target>>
          /\ pc' = [pc EXCEPT ![p] = "fault_store"] /\ pc[p] # "user"
          /\ reg' = [reg EXCEPT ![p] = wcounts[p] + 1]
      BY <1>9 DEF FaultLoad, Goto, fields
    <2>2. Types' /\ "fault_store" \in Points /\ "fault_store" \notin CallPoints
      BY <1>1, <2>1 DEF Types, Points, CallPoints
    <2> QED BY <2>1, <2>2, RefStep
  <1>10. ASSUME NEW p \in Tasks, NEW c \in Tasks, Fork(p, c) PROVE RefInv'
    <2>1. /\ life[c] = "free" /\ life' = [life EXCEPT ![c] = "live"]
          /\ usage' = [usage EXCEPT ![c] = 1] /\ target' = [target EXCEPT ![c] = c]
          /\ traceFlag' = [traceFlag EXCEPT ![c] = traceFlag[p]]
          /\ wcounts' = [wcounts EXCEPT ![c] = wcounts[p]] /\ UNCHANGED <<pc, reg>>
      BY <1>10 DEF Fork
    <2>2. Types'
      BY <1>1, <2>1 DEF Types
    <2>3. \A t \in Tasks : Referenced(t) => t # c /\ Referenced(t)'
      BY <1>1, <2>1 DEF Referenced, Types
    <2>4. ASSUME NEW r \in Tasks, InCall(r)' PROVE Referenced(target[r])'
      <3>1. InCall(r) /\ target[r] \in Tasks /\ Referenced(target[r])
        BY <1>1, <2>1, <2>4 DEF InCall, RefInv, Refs, Types
      <3>2. CASE r # c
        BY <1>1, <2>1, <2>3, <3>1, <3>2 DEF Types
      <3>3. r # c
        BY <2>1, <3>1, CallIsNotUser DEF RefInv, Refs
      <3> QED BY <3>2, <3>3
    <2>5. \A t \in Tasks : life'[t] = "live" => usage'[t] >= 1
      BY <1>1, <2>1 DEF Types, RefInv, Refs
    <2>6. \A t \in Tasks : pc'[t] # "user" => life'[t] = "live"
      BY <1>1, <2>1 DEF Types, RefInv, Refs
    <2> QED BY <2>2, <2>4, <2>5, <2>6 DEF RefInv, Refs
  <1>11. ASSUME NEW p \in Tasks, Exit(p) PROVE RefInv'
    <2>1. /\ life[p] = "live" /\ pc[p] = "user"
          /\ usage' = [usage EXCEPT ![p] = usage[p] - 1]
          /\ life' = [life EXCEPT ![p] = IF usage'[p] = 0 THEN "free" ELSE "dead"]
          /\ UNCHANGED <<pc, target>>
      BY <1>11 DEF Exit
    <2>2. /\ traceFlag' \in [Tasks -> BOOLEAN] /\ wcounts' \in [Tasks -> Int]
          /\ reg' \in [Tasks -> Int]
      <3>1. /\ traceFlag' \in {traceFlag, [traceFlag EXCEPT ![p] = FALSE]}
            /\ wcounts' \in {wcounts, [wcounts EXCEPT ![p] = 0]}
            /\ reg' = [reg EXCEPT ![p] = 0]
        BY <1>11 DEF Exit
      <3>2. traceFlag' \in [Tasks -> BOOLEAN]
        BY <1>1, <3>1 DEF Types
      <3>3. wcounts' \in [Tasks -> Int]
        BY <1>1, <3>1 DEF Types
      <3>4. reg' \in [Tasks -> Int]
        BY <1>1, <3>1 DEF Types
      <3> QED BY <3>2, <3>3, <3>4
    <2>3. usage' \in [Tasks -> Int] /\ life' \in [Tasks -> {"free", "live", "dead"}]
      BY <1>1, <2>1 DEF Types
    <2>4. Types'
      BY <1>1, <2>1, <2>2, <2>3 DEF Types
    <2>5. \A t \in Tasks : Referenced(t) => Referenced(t)'
      BY <1>1, <2>1 DEF Referenced, Types
    <2>6. \A r \in Tasks : InCall(r)' => InCall(r) /\ target[r] \in Tasks
      BY <1>1, <2>1 DEF InCall, Types
    <2>7. \A t \in Tasks : life'[t] = "live" => usage'[t] >= 1
      BY <1>1, <2>1 DEF Types, RefInv, Refs
    <2>8. \A t \in Tasks : pc'[t] # "user" => life'[t] = "live"
      BY <1>1, <2>1 DEF Types, RefInv, Refs
    <2> QED BY <2>1, <2>4, <2>5, <2>6, <2>7, <2>8 DEF RefInv, Refs
  <1> QED BY <1>2, <1>3, <1>4, <1>5, <1>6, <1>7, <1>8, <1>9, <1>10, <1>11 DEF Next

\* Whoever traces whom, a call never touches a task_struct that was freed.
THEOREM UseAfterFreeTheorem == Spec => []NoUseAfterFree
  <1>1. RefInv => NoUseAfterFree
    BY DEF RefInv, Refs, Referenced, NoUseAfterFree
  <1>2. RefInv /\ [Next]_vars => RefInv'
    BY RefNext
  <1> QED BY <1>1, <1>2, RefInit, PTL DEF Spec

-----------------------------------------------------------------------------
(* When every task traces itself, MemTrace implements TraceAbs *)

\* What the test programs and the benchmark do: syscall(361, getpid()).
OwnTracers == MayTrace \subseteq {<<t, t>> : t \in Tasks}

TracerPoints == {"start_check", "start_flag", "start_zero", "stop_flag", "stop_zero"}
FaultPoints  == {"fault_check", "fault_load", "fault_store"}

\* The fields of p agree with where p is in its own call or fault: nobody else
\* changes them.  Only between the two stores of stop_trace may a task that is
\* not traced have a count.
Own(p) ==
    /\ wcounts[p] \in 0 .. MaxWrites
    /\ pc[p] \in TracerPoints => target[p] = p
    /\ pc[p] \in FaultPoints => wcounts[p] < MaxWrites
    /\ pc[p] \in {"fault_load", "fault_store", "start_zero"} => traceFlag[p]
    /\ pc[p] \in {"start_flag", "stop_zero"} => ~traceFlag[p]
    /\ pc[p] = "fault_store" => reg[p] = wcounts[p] + 1
    /\ pc[p] = "start_zero" => wcounts[p] = 0
    /\ life[p] = "live" /\ ~traceFlag[p] /\ pc[p] # "stop_zero" => wcounts[p] = 0

OwnInv == RefInv /\ \A p \in Tasks : Own(p)

LEMMA OwnInit == Init => OwnInv
  <1>1. Init => \A p \in Tasks : Own(p)
    BY BoundAssumption DEF Init, Own, TracerPoints, FaultPoints
  <1> QED BY <1>1, RefInit DEF OwnInv

\* Own(p) depends on what p has only.
LEMMA OwnKept ==
    ASSUME NEW p \in Tasks, Own(p), pc'[p] = pc[p], target'[p] = target[p],
           traceFlag'[p] = traceFlag[p], wcounts'[p] = wcounts[p], reg'[p] = reg[p],
           life'[p] = life[p]
    PROVE  Own(p)'
  BY DEF Own

\* The step of TraceAbs that a step maps to: of the task p it is about, and none
\* if the count that TraceAbs sees stays.
AbsStep == Abs!Next \/ TracedCount' = TracedCount

LEMMA CountKept ==
    ASSUME Types, UNCHANGED <<life, traceFlag>>,
           \A t \in Tasks : life[t] = "live" /\ traceFlag[t] => wcounts'[t] = wcounts[t]
    PROVE  TracedCount' = TracedCount
  BY DEF TracedCount, Types

\* One task's count changes, to x.
LEMMA CountChanges ==
    ASSUME Types, NEW t \in Tasks, NEW x,
           \A r \in Tasks \ {t} : life'[r] = life[r] /\ traceFlag'[r] = traceFlag[r]
                                  /\ wcounts'[r] = wcounts[r],
           (IF life'[t] = "live" /\ traceFlag'[t] THEN wcounts'[t] ELSE MaxWrites + 1) = x
    PROVE  TracedCount' = [TracedCount EXCEPT ![t] = x]
  BY DEF TracedCount, Types

\* A traced task and its count, as TraceAbs has it.
LEMMA CountIs ==
    ASSUME NEW t \in Tasks, Own(t)
    PROVE  /\ TracedCount[t] = IF life[t] = "live" /\ traceFlag[t] THEN wcounts[t]
                               ELSE Abs!Off
           /\ TracedCount[t] = Abs!Off <=> ~(life[t] = "live" /\ traceFlag[t])
           /\ Abs!Off = MaxWrites + 1
  BY BoundAssumption DEF TracedCount, Own, Abs!Off

\* The steps of a tracing call of a task, which is on itself.
LEMMA OwnTracerStep ==
    ASSUME OwnInv, NEW p \in Tasks,
           StartCheck(p) \/ StartFlag(p) \/ StartZero(p) \/ StopFlag(p) \/ StopZero(p)
    PROVE  (\A r \in Tasks : Own(r)') /\ AbsStep
  <1>1. /\ life \in [Tasks -> {"free", "live", "dead"}] /\ traceFlag \in [Tasks -> BOOLEAN]
        /\ wcounts \in [Tasks -> Int] /\ pc \in [Tasks -> Points]
        /\ target \in [Tasks -> Tasks] /\ reg \in [Tasks -> Int] /\ MaxWrites \in Nat
        /\ Types
    BY BoundAssumption DEF OwnInv, RefInv, Types
  <1>2. /\ UNCHANGED <<life, reg>> /\ pc[p] \in TracerPoints /\ target[p] = p /\ life[p] = "live"
        /\ Own(p)
    BY DEF OwnInv, Own, RefInv, Refs, StartCheck, StartFlag, StartZero, StopFlag, StopZero, Goto,
           Return, TracerPoints, fields
  <1>3. CASE StartCheck(p)
    <2>1. /\ UNCHANGED <<traceFlag, wcounts>>
          /\ \/ traceFlag[p] /\ pc' = [pc EXCEPT ![p] = "user"] /\ target' = [target EXCEPT ![p] = p]
             \/ ~traceFlag[p] /\ pc' = [pc EXCEPT ![p] = "start_flag"] /\ target' = target
          /\ pc[p] = "start_check"
      BY <1>2, <1>3 DEF StartCheck, Goto, Return, fields
    <2>2. \A r \in Tasks \ {p} : Own(r)'
      BY <1>1, <1>2, <2>1, OwnKept DEF OwnInv
    <2>3. Own(p)'
      BY <1>1, <1>2, <2>1 DEF Own, TracerPoints, FaultPoints
    <2>4. TracedCount' = TracedCount
      BY <1>1, <1>2, <2>1, CountKept
    <2> QED BY <2>2, <2>3, <2>4 DEF AbsStep
  <1>4. CASE StartFlag(p)
    <2>1. /\ UNCHANGED <<wcounts, target>> /\ pc[p] = "start_flag"
          /\ pc' = [pc EXCEPT ![p] = "start_zero"]
          /\ traceFlag' = [traceFlag EXCEPT ![p] = TRUE]
      BY <1>2, <1>4 DEF StartFlag, Goto
    <2>2. \A r \in Tasks \ {p} : Own(r)'
      BY <1>1, <1>2, <2>1, OwnKept DEF OwnInv
    <2>3. ~traceFlag[p] /\ wcounts[p] = 0
      BY <1>2, <2>1 DEF Own
    <2>4. Own(p)'
      BY <1>1, <1>2, <2>1, <2>3 DEF Own, TracerPoints, FaultPoints
    <2>5. TracedCount' = [TracedCount EXCEPT ![p] = 0]
      BY <1>1, <1>2, <2>1, <2>3, CountChanges
    <2>6. Abs!Start(p)
      BY <1>2, <2>3, <2>5, CountIs DEF Abs!Start
    <2> QED BY <2>2, <2>4, <2>6 DEF AbsStep, Abs!Next
  <1>5. CASE StopFlag(p)
    <2>1. /\ UNCHANGED <<wcounts, target>> /\ pc[p] = "stop_flag"
          /\ pc' = [pc EXCEPT ![p] = "stop_zero"]
          /\ traceFlag' = [traceFlag EXCEPT ![p] = FALSE]
      BY <1>2, <1>5 DEF StopFlag, Goto
    <2>2. \A r \in Tasks \ {p} : Own(r)'
      BY <1>1, <1>2, <2>1, OwnKept DEF OwnInv
    <2>3. Own(p)'
      BY <1>1, <1>2, <2>1 DEF Own, TracerPoints, FaultPoints
    <2>4. CASE traceFlag[p]
      <3>1. TracedCount' = [TracedCount EXCEPT ![p] = Abs!Off]
        BY <1>1, <1>2, <2>1, CountChanges, CountIs
      <3>2. Abs!Stop(p)
        BY <1>2, <2>4, <3>1, CountIs DEF Abs!Stop
      <3> QED BY <2>2, <2>3, <3>2 DEF AbsStep, Abs!Next
    <2>5. CASE ~traceFlag[p]
      <3>1. UNCHANGED <<life, traceFlag, wcounts>>
        BY <1>1, <1>2, <2>1, <2>5
      <3> QED BY <1>1, <2>2, <2>3, <3>1, CountKept DEF AbsStep
    <2> QED BY <2>4, <2>5
  <1>6. CASE StartZero(p) \/ StopZero(p)
    <2>1. /\ traceFlag' = traceFlag /\ pc[p] \in {"start_zero", "stop_zero"}
          /\ pc' = [pc EXCEPT ![p] = "user"] /\ target' = [target EXCEPT ![p] = p]
          /\ wcounts' = [wcounts EXCEPT ![p] = 0]
      BY <1>2, <1>6 DEF StartZero, StopZero, Return, Goto
    <2>2. \A r \in Tasks \ {p} : Own(r)'
      BY <1>1, <1>2, <2>1, OwnKept DEF OwnInv
    <2>3. Own(p)'
      BY <1>1, <1>2, <2>1 DEF Own, TracerPoints, FaultPoints
    <2>4. traceFlag[p] => wcounts[p] = 0
      BY <1>2, <2>1 DEF Own
    <2>5. TracedCount' = TracedCount
      BY <1>1, <1>2, <2>1, <2>4, CountKept
    <2> QED BY <2>2, <2>3, <2>5 DEF AbsStep
  <1> QED BY <1>3, <1>4, <1>5, <1>6

\* The steps of a fault.
LEMMA OwnFaultStep ==
    ASSUME OwnInv, NEW p \in Tasks, Segv(p) \/ FaultCheck(p) \/ FaultLoad(p) \/ FaultStore(p)
    PROVE  (\A r \in Tasks : Own(r)') /\ AbsStep
  <1>1. /\ life \in [Tasks -> {"free", "live", "dead"}] /\ traceFlag \in [Tasks -> BOOLEAN]
        /\ wcounts \in [Tasks -> Int] /\ pc \in [Tasks -> Points]
        /\ target \in [Tasks -> Tasks] /\ reg \in [Tasks -> Int] /\ MaxWrites \in Nat
        /\ Types
    BY BoundAssumption DEF OwnInv, RefInv, Types
  <1>2. /\ UNCHANGED <<life, traceFlag, target>> /\ Own(p) /\ life[p] = "live"
    BY DEF OwnInv, Own, RefInv, Refs, Segv, FaultCheck, FaultLoad, FaultStore, Goto, fields
  <1>3. CASE Segv(p) \/ FaultCheck(p) \/ FaultLoad(p)
    <2>1. /\ wcounts' = wcounts
          /\ \/ /\ pc[p] = "user" /\ pc' = [pc EXCEPT ![p] = "fault_check"] /\ reg' = reg
                /\ wcounts[p] < MaxWrites
             \/ /\ pc[p] = "fault_check" /\ traceFlag[p] /\ reg' = reg
                /\ pc' = [pc EXCEPT ![p] = "fault_load"]
             \/ /\ pc[p] = "fault_check" /\ pc' = [pc EXCEPT ![p] = "user"] /\ reg' = reg
             \/ /\ pc[p] = "fault_load" /\ pc' = [pc EXCEPT ![p] = "fault_store"]
                /\ reg' = [reg EXCEPT ![p] = wcounts[p] + 1]
      BY <1>3 DEF Segv, FaultCheck, FaultLoad, Goto, fields
    <2>2. \A r \in Tasks \ {p} : Own(r)'
      BY <1>1, <1>2, <2>1, OwnKept DEF OwnInv
    <2>3. Own(p)'
      BY <1>1, <1>2, <2>1 DEF Own, TracerPoints, FaultPoints
    <2> QED BY <1>1, <1>2, <2>1, <2>2, <2>3, CountKept DEF AbsStep
  <1>4. CASE FaultStore(p)
    <2>1. /\ pc[p] = "fault_store" /\ pc' = [pc EXCEPT ![p] = "user"]
          /\ wcounts' = [wcounts EXCEPT ![p] = reg[p]] /\ reg' = [reg EXCEPT ![p] = 0]
      BY <1>4 DEF FaultStore, Goto
    <2>2. /\ traceFlag[p] /\ reg[p] = wcounts[p] + 1 /\ wcounts[p] < MaxWrites
          /\ wcounts[p] \in 0 .. MaxWrites
      BY <1>2, <2>1 DEF Own, FaultPoints
    <2>3. \A r \in Tasks \ {p} : Own(r)'
      BY <1>1, <1>2, <2>1, OwnKept DEF OwnInv
    <2>4. Own(p)'
      BY <1>1, <1>2, <2>1, <2>2 DEF Own, TracerPoints, FaultPoints
    <2>5. TracedCount' = [TracedCount EXCEPT ![p] = wcounts[p] + 1]
      BY <1>1, <1>2, <2>1, <2>2, CountChanges
    <2>6. TracedCount[p] = wcounts[p]
      BY <1>2, <2>2, CountIs
    <2>7. Abs!Write(p)
      BY <2>2, <2>5, <2>6 DEF Abs!Write
    <2> QED BY <2>3, <2>4, <2>7 DEF AbsStep, Abs!Next
  <1> QED BY <1>3, <1>4

\* Birth and death: the child takes flag and count of its parent.
LEMMA OwnLifeStep ==
    ASSUME OwnInv, NEW p \in Tasks, Exit(p) \/ \E c \in Tasks : Fork(p, c)
    PROVE  (\A r \in Tasks : Own(r)') /\ AbsStep
  <1>1. /\ life \in [Tasks -> {"free", "live", "dead"}] /\ traceFlag \in [Tasks -> BOOLEAN]
        /\ wcounts \in [Tasks -> Int] /\ pc \in [Tasks -> Points]
        /\ target \in [Tasks -> Tasks] /\ reg \in [Tasks -> Int] /\ MaxWrites \in Nat
        /\ Types
    BY BoundAssumption DEF OwnInv, RefInv, Types
  <1>2. life[p] = "live" /\ pc[p] = "user" /\ pc' = pc /\ Own(p)
    BY DEF Exit, Fork, OwnInv
  <1>3. CASE Exit(p)
    <2>1. /\ life' = [life EXCEPT ![p] = IF usage'[p] = 0 THEN "free" ELSE "dead"]
          /\ reg' = [reg EXCEPT ![p] = 0] /\ target' = target
          /\ \/ /\ traceFlag' = [traceFlag EXCEPT ![p] = FALSE]
                /\ wcounts' = [wcounts EXCEPT ![p] = 0]
             \/ UNCHANGED <<traceFlag, wcounts>>
      BY <1>3 DEF Exit
    <2>2. \A r \in Tasks \ {p} : /\ life'[r] = life[r] /\ traceFlag'[r] = traceFlag[r]
                                 /\ wcounts'[r] = wcounts[r] /\ reg'[r] = reg[r]
      BY <1>1, <2>1
    <2>3. \A r \in Tasks \ {p} : Own(r)'
      BY <1>2, <2>1, <2>2, OwnKept DEF OwnInv
    <2>4. life'[p] \in {"free", "dead"} /\ wcounts'[p] \in 0 .. MaxWrites
      BY <1>1, <1>2, <2>1 DEF Own
    <2>5. Own(p)'
      BY <1>2, <2>1, <2>4 DEF Own, TracerPoints, FaultPoints
    <2>6. TracedCount' = [TracedCount EXCEPT ![p] = Abs!Off]
      BY <1>1, <1>2, <2>2, <2>4, CountChanges, CountIs
    <2>7. CASE traceFlag[p]
      <3>1. Abs!Stop(p)
        BY <1>2, <2>6, <2>7, CountIs DEF Abs!Stop
      <3> QED BY <2>3, <2>5, <3>1 DEF AbsStep, Abs!Next
    <2>8. CASE ~traceFlag[p]
      <3>1. TracedCount[p] = Abs!Off
        BY <1>2, <2>8, CountIs
      <3>2. TracedCount' = TracedCount
        BY <2>6, <3>1 DEF TracedCount
      <3> QED BY <2>3, <2>5, <3>2 DEF AbsStep
    <2> QED BY <2>7, <2>8
  <1>4. ASSUME NEW c \in Tasks, Fork(p, c) PROVE (\A r \in Tasks : Own(r)') /\ AbsStep
    <2>1. /\ life[c] = "free" /\ life' = [life EXCEPT ![c] = "live"]
          /\ traceFlag' = [traceFlag EXCEPT ![c] = traceFlag[p]]
          /\ wcounts' = [wcounts EXCEPT ![c] = wcounts[p]]
          /\ target' = [target EXCEPT ![c] = c] /\ reg' = reg
      BY <1>4 DEF Fork
    <2>2. c # p /\ pc[c] = "user" /\ Own(c)
      BY <1>2, <2>1 DEF OwnInv, RefInv, Refs
    <2>3. \A r \in Tasks \ {c} : /\ life'[r] = life[r] /\ traceFlag'[r] = traceFlag[r]
                                 /\ wcounts'[r] = wcounts[r] /\ target'[r] = target[r]
      BY <1>1, <2>1
    <2>4. \A r \in Tasks \ {c} : Own(r)'
      BY <1>2, <2>1, <2>3, OwnKept DEF OwnInv
    <2>5. traceFlag'[c] = traceFlag[p] /\ wcounts'[c] = wcounts[p] /\ life'[c] = "live"
      BY <1>1, <2>1
    <2>6. Own(c)'
      BY <1>2, <2>2, <2>5 DEF Own, TracerPoints, FaultPoints
    <2>7. TracedCount' = [TracedCount EXCEPT ![c] = TracedCount[p]]
      <3>1. TracedCount[p] = IF traceFlag[p] THEN wcounts[p] ELSE MaxWrites + 1
        BY <1>2 DEF TracedCount
      <3> QED BY <1>1, <2>3, <2>5, <3>1, CountChanges
    <2>8. TracedCount[c] = Abs!Off
      BY <2>1, <2>2, CountIs
    <2>9. CASE traceFlag[p]
      <3>1. Abs!Fork(p, c)
        BY <1>2, <2>7, <2>8, <2>9, CountIs DEF Abs!Fork
      <3> QED BY <2>4, <2>6, <3>1 DEF AbsStep, Abs!Next
    <2>10. CASE ~traceFlag[p]
      <3>1. TracedCount[p] = Abs!Off
        BY <1>2, <2>10, CountIs
      <3>2. TracedCount' = TracedCount
        BY <2>7, <2>8, <3>1 DEF TracedCount
      <3> QED BY <2>4, <2>6, <3>2 DEF AbsStep
    <2> QED BY <2>9, <2>10
  <1> QED BY <1>3, <1>4

LEMMA OwnNext ==
    ASSUME OwnTracers, OwnInv, [Next]_vars
    PROVE  OwnInv' /\ AbsStep
  <1>1. /\ traceFlag \in [Tasks -> BOOLEAN] /\ pc \in [Tasks -> Points]
        /\ target \in [Tasks -> Tasks] /\ Types
    BY DEF OwnInv, RefInv, Types
  <1> SUFFICES (\A r \in Tasks : Own(r)') /\ AbsStep
    BY RefNext DEF OwnInv
  <1>2. CASE UNCHANGED vars
    <2>1. UNCHANGED <<life, traceFlag, wcounts, pc, target, reg>>
      BY <1>2 DEF vars
    <2> QED BY <1>1, <2>1, OwnKept, CountKept DEF OwnInv, AbsStep
  <1>3. ASSUME NEW p \in Tasks, StartCall(p) \/ StopCall(p) \/ GetCall(p)
        PROVE  (\A r \in Tasks : Own(r)') /\ AbsStep
    <2>1. PICK t \in Tasks, next \in {"start_check", "stop_flag", "get_check"} :
            /\ LookUp(p, t, next)
            /\ next # "get_check" => <<p, t>> \in MayTrace
      BY <1>3 DEF StartCall, StopCall, GetCall
    <2>2. next # "get_check" => t = p
      BY <2>1 DEF OwnTracers
    <2>3. /\ UNCHANGED <<life, traceFlag, wcounts, reg>> /\ pc[p] = "user" /\ Own(p)
          /\ target' = [target EXCEPT ![p] = t] /\ pc' = [pc EXCEPT ![p] = next]
      BY <2>1 DEF LookUp, OwnInv
    <2>4. \A r \in Tasks \ {p} : Own(r)'
      BY <1>1, <2>3, OwnKept DEF OwnInv
    <2>5. Own(p)'
      BY <1>1, <2>2, <2>3 DEF Own, TracerPoints, FaultPoints
    <2> QED BY <1>1, <2>3, <2>4, <2>5, CountKept DEF AbsStep
  <1>4. ASSUME NEW p \in Tasks, GetCheck(p) \/ GetRead(p)
        PROVE  (\A r \in Tasks : Own(r)') /\ AbsStep
    <2>1. /\ UNCHANGED <<life, traceFlag, wcounts, reg>> /\ pc[p] \in {"get_check", "get_read"}
          /\ \/ pc' = [pc EXCEPT ![p] = "user"] /\ target' = [target EXCEPT ![p] = p]
             \/ pc' = [pc EXCEPT ![p] = "get_read"] /\ target' = target
      BY <1>4 DEF GetCheck, GetRead, Goto, Return, fields
    <2>2. \A r \in Tasks \ {p} : Own(r)'
      BY <1>1, <2>1, OwnKept DEF OwnInv
    <2>3. Own(p)'
      <3>1. Own(p)
        BY DEF OwnInv
      <3> QED BY <1>1, <2>1, <3>1 DEF Own, TracerPoints, FaultPoints
    <2> QED BY <1>1, <2>1, <2>2, <2>3, CountKept DEF AbsStep
  <1> QED BY <1>2, <1>3, <1>4, OwnTracerStep, OwnFaultStep, OwnLifeStep DEF Next

\* When every task traces itself, as the tests and the benchmark do, the accesses
\* of the three calls, the faults, fork and exit to the two fields, one at a time
\* and without a lock, are the atomic steps of TraceAbs or none, for any number
\* of tasks, any readers of the counts and any number of writes.
THEOREM RefinementTheorem == OwnTracers => (Spec => ImplementsTraceAbs)
  <1> SUFFICES ASSUME OwnTracers PROVE Spec => ImplementsTraceAbs
    OBVIOUS
  <1>1. Init => OwnInv
    BY OwnInit
  <1>2. OwnInv /\ [Next]_vars => OwnInv' /\ [Abs!Next]_TracedCount
    BY OwnNext DEF AbsStep
  <1>3. Init => Abs!Init
    BY DEF Init, Abs!Init, TracedCount, Abs!Off
  <1> QED BY <1>1, <1>2, <1>3, PTL DEF Spec, ImplementsTraceAbs, Abs!Spec

-----------------------------------------------------------------------------
(* PageFault: the semaphore *)

HandlerPoints == {"run", "wait", "area", "mm", "result", "dead"}
VmFlags == {"READ", "WRITE", "EXEC"}
FaultFlags == {"OOM", "SIGBUS", "RETRY", "BADMAP", "BADACCESS"}

Signals == {"none", "SEGV", "BUS", "ILL", "KILL"}

FaultTypes ==
    /\ at \in [Threads -> HandlerPoints]
    /\ acc \in [Threads -> Access]
    /\ retry \in [Threads -> BOOLEAN]
    /\ fault \in [Threads -> SUBSET FaultFlags]
    /\ forced \in [Threads -> Signals]
    /\ writer \in Threads \cup {Nobody}
    /\ vma \in [found : {"area", "below", "none"}, flags : SUBSET VmFlags]

Holders == {t \in Threads : HoldsSem(t)}

\* Readers and a writer exclude each other, and a fault is none of the writer's.
Exclusion ==
    /\ readers = Cardinality(Holders)
    /\ writer # Nobody => Holders = {}
    /\ \A t \in Threads : at[t] \in {"wait", "area", "mm", "result"} => writer # t

\* What a fault relies on where it stands: the area it found, and that a retry
\* may be made or is given up.
Standing ==
    \A t \in Threads :
        /\ at[t] = "mm" => Permits(acc[t])
        /\ at[t] = "result" /\ "RETRY" \in fault[t] => retry[t] \/ t \in killed

SemInv == FaultTypes /\ Exclusion /\ Standing

-----------------------------------------------------------------------------
(* Counting the holders *)

LEMMA HoldersFinite == IsFiniteSet(Holders) /\ Cardinality(Holders) \in Nat
  <1>1. Holders \in SUBSET Threads
    BY DEF Holders
  <1>2. IsFiniteSet(Holders)
    BY <1>1, FS_Subset, ThreadsAssumption
  <1> QED BY <1>2, FS_CardinalityType

\* Only the thread that moves can begin or cease to hold the semaphore.
LEMMA OthersHold ==
  ASSUME FaultTypes, NEW t \in Threads, NEW x, NEW y,
         at' = [at EXCEPT ![t] = x], fault' = [fault EXCEPT ![t] = y]
  PROVE  /\ Holders' = IF HoldsSem(t)' THEN Holders \cup {t} ELSE Holders \ {t}
         /\ HoldsSem(t)' <=> x \in {"area", "mm"} \/ (x = "result" /\ "RETRY" \notin y)
  BY DEF FaultTypes, Holders, HoldsSem

LEMMA HoldersBegin ==
  ASSUME FaultTypes, readers = Cardinality(Holders), NEW t \in Threads, ~HoldsSem(t),
         Holders' = Holders \cup {t}
  PROVE  Cardinality(Holders') = readers + 1
  <1>1. t \notin Holders
    BY DEF Holders
  <1> QED BY <1>1, HoldersFinite, FS_AddElement

LEMMA HoldersEnd ==
  ASSUME FaultTypes, readers = Cardinality(Holders), NEW t \in Threads, HoldsSem(t),
         Holders' = Holders \ {t}
  PROVE  Cardinality(Holders') = readers - 1
  <1>1. t \in Holders
    BY DEF Holders
  <1> QED BY <1>1, HoldersFinite, FS_RemoveElement

-----------------------------------------------------------------------------
(* The initial states *)

LEMMA SemInvInit == FaultInit => SemInv
  <1> SUFFICES ASSUME FaultInit PROVE SemInv
    OBVIOUS
  <1>1. FaultTypes
    BY DEF FaultInit, FaultTypes, Signals, HandlerPoints, NoAccess, Access
  <1>2. Holders = {}
    BY DEF FaultInit, Holders, HoldsSem
  <1>3. Exclusion
    BY <1>2, FS_EmptySet, NobodyAssumption DEF FaultInit, Exclusion
  <1>4. Standing
    BY DEF FaultInit, Standing
  <1> QED BY <1>1, <1>3, <1>4 DEF SemInv

-----------------------------------------------------------------------------
(* Steps of do_page_fault *)

Leaves(t) == \E where \in {"run", "dead"}, sig \in Signals : Ends(t, where, sig)

LEMMA AllEnds ==
  ASSUME NEW t, NEW a
  PROVE  /\ Returns(t) => Leaves(t)
         /\ KernelFault(t, a) => Leaves(t)
         /\ BadArea(t, a) => Leaves(t)
         /\ UnhandledFault(t, a) => Leaves(t)
         /\ Outcome(t) => Leaves(t)
  BY DEF Returns, UserFault, KernelFault, BadArea, UnhandledFault, Outcome, Leaves, Signals

\* A fault that ends gives the semaphore back exactly when it holds it.
LEMMA LeavesStep ==
  ASSUME SemInv, NEW t \in Threads, Leaves(t), UNCHANGED <<writer, vma, killed>>,
         readers' = IF HoldsSem(t) THEN readers - 1 ELSE readers
  PROVE  SemInv'
  <1>1. PICK where \in {"run", "dead"}, sig \in Signals : Ends(t, where, sig)
    BY DEF Leaves
  <1>2. FaultTypes'
    BY <1>1 DEF SemInv, FaultTypes, Ends, HandlerPoints, Signals, NoAccess, Access
  <1>3. ~HoldsSem(t)' /\ Holders' = Holders \ {t}
    BY <1>1, OthersHold DEF SemInv, Ends
  <1>4. readers' = Cardinality(Holders')
    <2>1. CASE HoldsSem(t)
      BY <2>1, <1>3, HoldersEnd DEF SemInv, Exclusion
    <2>2. CASE ~HoldsSem(t)
      <3>1. Holders' = Holders
        BY <2>2, <1>3 DEF Holders
      <3> QED BY <3>1, <2>2 DEF SemInv, Exclusion
    <2> QED BY <2>1, <2>2
  <1>5. Exclusion'
    BY <1>1, <1>3, <1>4 DEF SemInv, FaultTypes, Exclusion, Ends
  <1>6. Standing'
    BY <1>1 DEF SemInv, FaultTypes, Standing, Ends, Permits
  <1> QED BY <1>2, <1>5, <1>6 DEF SemInv

\* A fault begins to hold the semaphore only when no writer does.
LEMMA AreaStep ==
  ASSUME SemInv, NEW t \in Threads, ~HoldsSem(t), writer = Nobody,
         at' = [at EXCEPT ![t] = "area"], readers' = readers + 1,
         FaultTypes', UNCHANGED <<fault, writer, vma, killed>>,
         \A u \in Threads \ {t} : acc'[u] = acc[u] /\ retry'[u] = retry[u]
  PROVE  SemInv'
  <1>1. fault' = [fault EXCEPT ![t] = fault[t]]
    BY DEF SemInv, FaultTypes
  <1>2. HoldsSem(t)' /\ Holders' = Holders \cup {t}
    BY <1>1, OthersHold DEF SemInv
  <1>3. readers' = Cardinality(Holders')
    BY <1>2, HoldersBegin DEF SemInv, Exclusion
  <1>4. Exclusion'
    BY <1>3, NobodyAssumption DEF SemInv, FaultTypes, Exclusion
  <1>5. Standing'
    BY DEF SemInv, FaultTypes, Standing, Permits
  <1> QED BY <1>4, <1>5 DEF SemInv

\* A fault waits without the semaphore.
LEMMA WaitStep ==
  ASSUME SemInv, NEW t \in Threads, ~HoldsSem(t), writer # t,
         NEW y, at' = [at EXCEPT ![t] = "wait"], fault' = [fault EXCEPT ![t] = y],
         FaultTypes', UNCHANGED <<readers, writer, vma, killed>>,
         \A u \in Threads \ {t} : acc'[u] = acc[u] /\ retry'[u] = retry[u]
  PROVE  SemInv'
  <1>1. ~HoldsSem(t)' /\ Holders' = Holders \ {t}
    <2>1. FaultTypes
      BY DEF SemInv
    <2>2. /\ Holders' = IF HoldsSem(t)' THEN Holders \cup {t} ELSE Holders \ {t}
          /\ HoldsSem(t)' <=> "wait" \in {"area", "mm"} \/ ("wait" = "result" /\ "RETRY" \notin y)
      BY <2>1, OthersHold
    <2> QED BY <2>2
  <1>2. Holders' = Holders
    BY <1>1 DEF Holders
  <1>3. Exclusion'
    BY <1>2 DEF SemInv, FaultTypes, Exclusion
  <1>4. Standing'
    BY DEF SemInv, FaultTypes, Standing, Permits
  <1> QED BY <1>3, <1>4 DEF SemInv

LEMMA TryLockStep ==
  ASSUME SemInv, NEW t \in Threads, at[t] = "run", NEW a \in Access, TryLock(t, a),
         writer = t => ~a.user /\ ~a.fixup, UNCHANGED <<writer, vma, killed>>
  PROVE  SemInv'
  <1>1. ~HoldsSem(t)
    BY DEF HoldsSem
  <1>2. PICK taken \in Trylock :
          \/ ~taken /\ ~a.user /\ ~a.fixup /\ KernelFault(t, a) /\ UNCHANGED readers
          \/ /\ taken \/ a.user \/ a.fixup
             /\ at' = [at EXCEPT ![t] = IF taken THEN "area" ELSE "wait"]
             /\ readers' = IF taken THEN readers + 1 ELSE readers
             /\ acc' = [acc EXCEPT ![t] = [a EXCEPT !.fsr = "page"]]
             /\ retry' = [retry EXCEPT ![t] = TRUE]
             /\ UNCHANGED <<fault, forced>>
    BY DEF TryLock
  <1>3. CASE KernelFault(t, a) /\ UNCHANGED readers
    BY <1>1, <1>3, AllEnds, LeavesStep
  <1>4. CASE ~(KernelFault(t, a) /\ UNCHANGED readers)
    <2>1. /\ taken \/ a.user \/ a.fixup
          /\ at' = [at EXCEPT ![t] = IF taken THEN "area" ELSE "wait"]
          /\ readers' = IF taken THEN readers + 1 ELSE readers
          /\ acc' = [acc EXCEPT ![t] = [a EXCEPT !.fsr = "page"]]
          /\ retry' = [retry EXCEPT ![t] = TRUE]
          /\ UNCHANGED <<fault, forced>>
      BY <1>2, <1>4
    <2>2. [a EXCEPT !.fsr = "page"] \in Access
      BY DEF Access
    <2>3. FaultTypes'
      BY <2>1, <2>2 DEF SemInv, FaultTypes, HandlerPoints
    <2>4. \A u \in Threads \ {t} : acc'[u] = acc[u] /\ retry'[u] = retry[u]
      BY <2>1 DEF SemInv, FaultTypes
    <2>5. CASE taken
      <3>1. writer = Nobody
        BY <2>5 DEF Trylock
      <3> QED BY <1>1, <2>1, <2>3, <2>4, <2>5, <3>1, AreaStep
    <2>6. CASE ~taken
      <3>1. writer # t
        BY <2>1, <2>6
      <3>2. fault' = [fault EXCEPT ![t] = fault[t]]
        BY <2>1 DEF SemInv, FaultTypes
      <3> QED BY <1>1, <2>1, <2>3, <2>4, <2>6, <3>1, <3>2, WaitStep
    <2> QED BY <2>5, <2>6
  <1> QED BY <1>3, <1>4

LEMMA PageFaultStep ==
  ASSUME SemInv, NEW t \in Threads, at[t] = "run", NEW a \in Access, PageFault(t, a),
         writer = t => ~a.user /\ ~a.fixup, UNCHANGED <<writer, vma, killed>>
  PROVE  SemInv'
  <1>1. ~HoldsSem(t)
    BY DEF HoldsSem
  <1>2. CASE a.atomic
    BY <1>1, <1>2, AllEnds, LeavesStep DEF PageFault
  <1>3. CASE ~a.atomic
    BY <1>3, TryLockStep DEF PageFault
  <1> QED BY <1>2, <1>3

LEMMA AbortStep == ASSUME SemInv, NEW t \in Threads, Abort(t) PROVE SemInv'
  <1>1. PICK a \in Accesses :
           /\ writer = t => ~a.user /\ ~a.fixup
           /\ \/ a.fsr = "translation" /\ TranslationFault(t, a)
              \/ a.fsr = "page" /\ PageFault(t, a) /\ UNCHANGED copied
              \/ a.fsr = "section" /\ BadArea(t, a) /\ UNCHANGED <<readers, copied>>
              \/ a.fsr = "bad" /\ UnhandledFault(t, a) /\ UNCHANGED <<readers, copied>>
    BY DEF Abort
  <1>2. a \in Access
    BY DEF Accesses
  <1>3. at[t] = "run" /\ ~HoldsSem(t) /\ UNCHANGED <<writer, vma, killed>>
    BY DEF Abort, HoldsSem, memory
  <1>4. CASE PageFault(t, a)
    BY <1>1, <1>2, <1>3, <1>4, PageFaultStep
  <1>5. CASE Leaves(t) /\ UNCHANGED readers
    BY <1>3, <1>5, LeavesStep
  <1>6. PageFault(t, a) \/ (Leaves(t) /\ UNCHANGED readers)
    BY <1>1, AllEnds DEF TranslationFault
  <1> QED BY <1>4, <1>5, <1>6

LEMMA DownReadStep == ASSUME SemInv, NEW t \in Threads, DownRead(t) PROVE SemInv'
  <1>1. ~HoldsSem(t) /\ UNCHANGED <<acc, retry, fault, forced, writer, vma, killed>>
    BY DEF DownRead, HoldsSem, memory
  <1>2. FaultTypes'
    BY <1>1 DEF DownRead, SemInv, FaultTypes, HandlerPoints
  <1> QED BY <1>1, <1>2, AreaStep DEF DownRead

LEMMA FindAreaStep == ASSUME SemInv, NEW t \in Threads, FindArea(t) PROVE SemInv'
  <1>1. PICK grown \in BOOLEAN :
          LET good == acc[t].low /\ (vma.found = "area" \/ grown)
          IN /\ grown => vma.found = "below" /\ acc[t].low
             /\ vma' = IF good THEN [vma EXCEPT !.found = "area"] ELSE vma
             /\ IF good /\ ~AccessError(acc[t], vma.flags)
                THEN at' = [at EXCEPT ![t] = "mm"] /\ UNCHANGED fault
                ELSE /\ at' = [at EXCEPT ![t] = "result"]
                     /\ fault' = [fault EXCEPT ![t] = {IF good THEN "BADACCESS" ELSE "BADMAP"}]
    BY DEF FindArea
  <1>2. /\ at[t] = "area" /\ HoldsSem(t)
        /\ UNCHANGED <<acc, retry, readers, writer, killed, forced>>
    BY DEF FindArea, HoldsSem
  <1>3. PICK y \in SUBSET FaultFlags, x \in {"mm", "result"} :
          /\ at' = [at EXCEPT ![t] = x] /\ fault' = [fault EXCEPT ![t] = y]
          /\ x = "result" => "RETRY" \notin y
    <2>1. CASE at' = [at EXCEPT ![t] = "mm"] /\ UNCHANGED fault
      <3>1. fault' = [fault EXCEPT ![t] = fault[t]] /\ fault[t] \in SUBSET FaultFlags
        BY <2>1 DEF SemInv, FaultTypes
      <3> QED BY <2>1, <3>1
    <2>2. CASE /\ at' = [at EXCEPT ![t] = "result"]
               /\ fault' = [fault EXCEPT ![t] = {"BADACCESS"}]
      BY <2>2 DEF FaultFlags
    <2>3. CASE /\ at' = [at EXCEPT ![t] = "result"]
               /\ fault' = [fault EXCEPT ![t] = {"BADMAP"}]
      BY <2>3 DEF FaultFlags
    <2> QED BY <1>1, <2>1, <2>2, <2>3
  <1>4. vma' \in [found : {"area", "below", "none"}, flags : SUBSET VmFlags]
        /\ vma'.flags = vma.flags /\ (vma'.found = vma.found \/ vma'.found = "area")
    BY <1>1 DEF SemInv, FaultTypes
  <1>5. FaultTypes'
    BY <1>2, <1>3, <1>4 DEF SemInv, FaultTypes, HandlerPoints
  <1>6. Holders' = Holders
    <2>1. FaultTypes
      BY DEF SemInv
    <2>2. /\ Holders' = IF HoldsSem(t)' THEN Holders \cup {t} ELSE Holders \ {t}
          /\ HoldsSem(t)' <=> x \in {"area", "mm"} \/ (x = "result" /\ "RETRY" \notin y)
      BY <1>3, <2>1, OthersHold
    <2>3. HoldsSem(t)' /\ t \in Holders
      BY <1>2, <1>3, <2>2 DEF Holders
    <2> QED BY <2>2, <2>3
  <1>7. Exclusion'
    BY <1>2, <1>3, <1>6 DEF SemInv, FaultTypes, Exclusion
  <1>8. \A a : Permits(a) => Permits(a)'
    BY <1>4 DEF Permits
  <1>9. at'[t] = "mm" => Permits(acc[t])'
    <2> SUFFICES ASSUME at'[t] = "mm" PROVE Permits(acc[t])'
      OBVIOUS
    <2>1. acc[t].low /\ (vma.found = "area" \/ grown) /\ ~AccessError(acc[t], vma.flags)
      BY <1>1 DEF SemInv, FaultTypes
    <2>2. vma'.found = "area" /\ vma'.flags = vma.flags
      BY <1>1, <2>1, <1>4 DEF SemInv, FaultTypes
    <2>3. acc[t].kind \in {"read", "write", "exec"}
      BY DEF SemInv, FaultTypes, Access
    <2>4. /\ acc[t].kind = "write" => "WRITE" \in vma.flags
          /\ acc[t].kind = "exec" => "EXEC" \in vma.flags
      BY <2>1, <2>3 DEF AccessError
    <2> QED BY <1>2, <2>2, <2>4 DEF Permits
  <1>10. Standing'
    BY <1>2, <1>3, <1>8, <1>9 DEF SemInv, FaultTypes, Standing
  <1> QED BY <1>5, <1>7, <1>10 DEF SemInv

LEMMA HandleMmFaultStep == ASSUME SemInv, NEW t \in Threads, HandleMmFault(t) PROVE SemInv'
  <1>1. PICK f \in {{}, {"OOM"}, {"SIGBUS"}, {"RETRY"}} :
          /\ "RETRY" \in f => retry[t] \/ t \in killed
          /\ readers' = IF "RETRY" \in f THEN readers - 1 ELSE readers
          /\ fault' = [fault EXCEPT ![t] = f]
    BY DEF HandleMmFault
  <1>2. /\ at[t] = "mm" /\ HoldsSem(t) /\ at' = [at EXCEPT ![t] = "result"]
        /\ UNCHANGED <<acc, retry, forced, writer, vma, killed>>
    BY DEF HandleMmFault, HoldsSem, memory
  <1>3. FaultTypes'
    BY <1>1, <1>2 DEF SemInv, FaultTypes, HandlerPoints, FaultFlags
  <1>4. /\ Holders' = IF HoldsSem(t)' THEN Holders \cup {t} ELSE Holders \ {t}
        /\ HoldsSem(t)' <=> "result" \in {"area", "mm"} \/ ("result" = "result" /\ "RETRY" \notin f)
    <2>1. FaultTypes
      BY DEF SemInv
    <2> QED BY <1>1, <1>2, <2>1, OthersHold
  <1>5. readers' = Cardinality(Holders')
    <2>1. CASE "RETRY" \in f
      BY <1>1, <1>2, <1>4, <2>1, HoldersEnd DEF SemInv, Exclusion
    <2>2. CASE "RETRY" \notin f
      <3>1. Holders' = Holders
        BY <1>2, <1>4, <2>2 DEF Holders
      <3> QED BY <1>1, <2>2, <3>1 DEF SemInv, Exclusion
    <2> QED BY <2>1, <2>2
  <1>6. Exclusion'
    BY <1>2, <1>4, <1>5 DEF SemInv, FaultTypes, Exclusion, Holders
  <1>7. Standing'
    BY <1>1, <1>2 DEF SemInv, FaultTypes, Standing, Permits
  <1> QED BY <1>3, <1>6, <1>7 DEF SemInv

LEMMA FaultResultStep == ASSUME SemInv, NEW t \in Threads, FaultResult(t) PROVE SemInv'
  <1>1. at[t] = "result" /\ UNCHANGED <<writer, vma, killed>>
    BY DEF FaultResult, memory
  <1>2. HoldsSem(t) <=> "RETRY" \notin fault[t]
    BY <1>1 DEF HoldsSem
  <1>3. CASE "RETRY" \in fault[t] /\ t \in killed
    BY <1>1, <1>2, <1>3, AllEnds, LeavesStep DEF FaultResult
  <1>4. CASE "RETRY" \in fault[t] /\ t \notin killed
    <2>1. Again(t) /\ UNCHANGED readers
      BY <1>1, <1>4 DEF FaultResult, SemInv, Standing
    <2>2. FaultTypes'
      BY <1>1, <2>1 DEF Again, SemInv, FaultTypes, HandlerPoints
    <2>3. \A u \in Threads \ {t} : acc'[u] = acc[u] /\ retry'[u] = retry[u]
      BY <2>1 DEF Again, SemInv, FaultTypes
    <2>4. writer # t
      BY <1>1 DEF SemInv, Exclusion
    <2> QED BY <1>1, <1>2, <1>4, <2>1, <2>2, <2>3, <2>4, WaitStep DEF Again
  <1>5. CASE "RETRY" \notin fault[t]
    BY <1>1, <1>2, <1>5, AllEnds, LeavesStep DEF FaultResult
  <1> QED BY <1>3, <1>4, <1>5

-----------------------------------------------------------------------------
(* Steps of the rest of the kernel *)

LEMMA MemoryStep ==
  ASSUME SemInv, UNCHANGED <<inFault, readers>>, NEW t \in Threads,
         \/ WriteLock(t) \/ ChangeArea(t) \/ WriteUnlock(t)
  PROVE  SemInv'
  <1>1. Holders' = Holders
    BY DEF Holders, HoldsSem, inFault
  <1>2. writer' # Nobody => Holders = {}
    BY HoldersFinite, FS_EmptySet
    DEF SemInv, Exclusion, WriteLock, ChangeArea, WriteUnlock
  <1>3. at[t] = "run" /\ writer' \in {t, Nobody}
    BY DEF WriteLock, ChangeArea, WriteUnlock
  <1>4. vma' \in [found : {"area", "below", "none"}, flags : SUBSET VmFlags]
    BY FlagsAssumption DEF SemInv, FaultTypes, WriteLock, ChangeArea, WriteUnlock, VmFlags
  <1>5. FaultTypes'
    BY <1>3, <1>4 DEF SemInv, FaultTypes, inFault
  <1>6. Exclusion'
    BY <1>1, <1>2, <1>3, NobodyAssumption DEF SemInv, FaultTypes, Exclusion, inFault
  <1>7. \A u \in Threads : at[u] = "mm" => vma' = vma
    <2>1. CASE ChangeArea(t)
      BY <2>1, NobodyAssumption DEF ChangeArea, SemInv, Exclusion, Holders, HoldsSem
    <2>2. CASE ~ChangeArea(t)
      BY <2>2 DEF WriteLock, WriteUnlock
    <2> QED BY <2>1, <2>2
  <1>8. UNCHANGED killed
    BY DEF WriteLock, ChangeArea, WriteUnlock
  <1>9. Standing'
    BY <1>7, <1>8 DEF SemInv, Standing, Permits, inFault
  <1> QED BY <1>5, <1>6, <1>9 DEF SemInv

LEMMA QuietStep ==
  ASSUME SemInv, UNCHANGED <<inFault, readers, writer, vma>>, killed \subseteq killed'
  PROVE  SemInv'
  <1>1. Holders' = Holders
    BY DEF Holders, HoldsSem, inFault
  <1> QED BY <1>1 DEF SemInv, FaultTypes, Exclusion, Standing, Permits, inFault

LEMMA DeliverStep == ASSUME SemInv, NEW t \in Threads, Deliver(t) PROVE SemInv'
  <1>1. ~HoldsSem(t) /\ Leaves(t) /\ UNCHANGED <<readers, writer, vma, killed>>
    BY DEF Deliver, HoldsSem, Leaves, Signals, memory
  <1> QED BY <1>1, LeavesStep

-----------------------------------------------------------------------------
(* Theorems about PageFault *)

LEMMA SemInvStep == SemInv /\ [FaultNext]_faultVars => SemInv'
  <1> SUFFICES ASSUME SemInv, [FaultNext]_faultVars PROVE SemInv'
    OBVIOUS
  <1>1. CASE Vmalloc
    BY <1>1, QuietStep DEF Vmalloc
  <1>2. ASSUME NEW t \in Threads, Abort(t) PROVE SemInv'
    BY <1>2, AbortStep
  <1>3. ASSUME NEW t \in Threads, DownRead(t) PROVE SemInv'
    BY <1>3, DownReadStep
  <1>4. ASSUME NEW t \in Threads, FindArea(t) PROVE SemInv'
    BY <1>4, FindAreaStep
  <1>5. ASSUME NEW t \in Threads, HandleMmFault(t) PROVE SemInv'
    BY <1>5, HandleMmFaultStep
  <1>6. ASSUME NEW t \in Threads, FaultResult(t) PROVE SemInv'
    BY <1>6, FaultResultStep
  <1>7. ASSUME NEW t \in Threads, WriteLock(t) \/ ChangeArea(t) \/ WriteUnlock(t)
        PROVE  SemInv'
    <2>1. UNCHANGED <<inFault, readers>>
      BY <1>7 DEF WriteLock, ChangeArea, WriteUnlock
    <2> QED BY <1>7, <2>1, MemoryStep
  <1>8. ASSUME NEW t \in Threads, Kill(t) PROVE SemInv'
    BY <1>8, QuietStep DEF Kill
  <1>9. ASSUME NEW t \in Threads, Deliver(t) PROVE SemInv'
    BY <1>9, DeliverStep
  <1>10. CASE UNCHANGED faultVars
    BY <1>10, QuietStep DEF faultVars, inFault
  <1> QED BY <1>1, <1>2, <1>3, <1>4, <1>5, <1>6, <1>7, <1>8, <1>9, <1>10 DEF FaultNext

LEMMA SemInvHolds == FaultSpec => []SemInv
  <1> QED BY SemInvInit, SemInvStep, PTL DEF FaultSpec

\* For any number of threads and any areas: do_page_fault holds and releases
\* mmap_sem in balance on every way through it, so that the area of a page it
\* brings in still permits the access.
THEOREM SemTheorem == FaultSpec => []SemProtects
  <1>1. SemInv => SemProtects
    <2> SUFFICES ASSUME SemInv PROVE SemProtects
      OBVIOUS
    <2>1. \A t \in Threads : at[t] = "mm" => writer = Nobody
      BY DEF SemInv, Exclusion, Holders, HoldsSem
    <2> QED BY <2>1 DEF SemInv, Exclusion, Standing, SemProtects, Holders
  <1> QED BY <1>1, SemInvHolds, PTL

\* For any number of threads: no fault waits for the semaphore its own thread
\* holds for writing.
THEOREM NoSelfWaitTheorem == FaultSpec => []NoWaitForOneself
  <1>1. SemInv => NoWaitForOneself
    BY DEF SemInv, Exclusion, NoWaitForOneself
  <1> QED BY <1>1, SemInvHolds, PTL

=============================================================================
