---------------------------- MODULE SharesProofs ----------------------------
(***************************************************************************)
(* Theorems about what tasks get of the processors: the slices that RAS    *)
(* computes, where no int overflows (RaceProb), and the real-time tasks    *)
(* that wait on one processor while another could run them (RtBalance,     *)
(* with the inductive invariant of RtBalanceProofs).                       *)
(***************************************************************************)
EXTENDS RaceProb, RtBalanceProofs

-----------------------------------------------------------------------------
(* C's integers where nothing overflows *)

LEMMA ToIntIdentity ==
    ASSUME NEW x \in 0 .. INT_MAX
    PROVE  ToInt(x) = x
  <1>1. Half \in Nat \ {0} /\ x + Half \in 0 .. Modulus - 1 /\ Modulus \in Nat \ {0}
    BY WidthAssumption DEF Half, Modulus
  <1>2. (x + Half) % Modulus = x + Half
    BY <1>1
  <1> QED BY <1>1, <1>2 DEF ToInt

LEMMA ToUIntIdentity ==
    ASSUME NEW x \in 0 .. Modulus - 1
    PROVE  ToUInt(x) = x
  BY WidthAssumption DEF ToUInt, Modulus, Half

LEMMA CDivNat ==
    ASSUME NEW a \in Nat, NEW b \in Nat \ {0}
    PROVE  CDiv(a, b) = a \div b
  BY DEF CDiv, AbsVal

\* A task that does not have all the writes has a race probability below the
\* scale.
LEMMA ProbabilityBound ==
    ASSUME NEW own \in Nat, NEW all \in Nat, own < all, NEW i \in Nat \ {0}
    PROVE  (own * i) \div all \in 0 .. i - 1
  <1> DEFINE d == (own * i) \div all
  <1>1. own * i \in Nat /\ all \in Nat \ {0}
    OBVIOUS
  <1>2. d \in Nat /\ all * d <= own * i
    BY <1>1
  <1>3. own * i < all * i
    OBVIOUS
  <1> HIDE DEF d
  <1>4. all * d < all * i
    BY <1>1, <1>2, <1>3
  <1>5. d < i
    BY <1>1, <1>2, <1>4
  <1> QED BY <1>2, <1>5 DEF d

-----------------------------------------------------------------------------
(* The inductive invariant *)

Types ==
    /\ queue \in Seq(Tasks) /\ IsInjective(queue) /\ Len(queue) \in 1 .. MaxQueue
    /\ curr \in Range(queue)
    /\ wcounts \in [Tasks -> 0 .. MaxWrites]
    /\ slice \in [Tasks -> Int]
    /\ pc \in {"user", "decide", "loop", "requeue"}

\* Every slice is good, the running task's while it is not being recomputed.
Slices == \A t \in Tasks : t # curr \/ pc \in {"user", "requeue"} =>
                               slice[t] \in 1 .. RAS_MAX_TIMESLICE

\* The loop has seen pos - 1 counts, its own among them once it is past it.
LoopInv ==
    pc = "loop" =>
        /\ w = wcounts[curr]
        /\ pos \in 1 .. Len(queue) + 1
        /\ sum \in 0 .. (pos - 1) * MaxWrites
        /\ \A i \in 1 .. pos - 1 : queue[i] = curr => w <= sum

IInv == Types /\ Slices /\ LoopInv

LEMMA QueueFacts ==
    ASSUME NEW q \in Seq(Tasks)
    PROVE  /\ Len(q) \in Nat /\ Range(q) = {q[i] : i \in 1 .. Len(q)}
           /\ \A i \in 1 .. Len(q) : q[i] \in Tasks
           /\ Range(q) \subseteq Tasks
           /\ Len(q) # 0 => Head(q) \in Range(q)
  <1>1. /\ Len(q) \in Nat /\ Range(q) = {q[i] : i \in 1 .. Len(q)}
        /\ \A i \in 1 .. Len(q) : q[i] \in Tasks
    BY RangeProperties, ElementOfSeq
  <1>2. Len(q) # 0 => Head(q) = q[1] /\ 1 \in 1 .. Len(q)
    BY <1>1
  <1> QED BY <1>1, <1>2

\* The running sum of the loop stays an int.
LEMMA SumBound ==
    ASSUME NoOverflow, NEW n \in 1 .. MaxQueue, NEW p \in 1 .. n,
           NEW s \in 0 .. (p - 1) * MaxWrites, NEW x \in 0 .. MaxWrites
    PROVE  /\ s + x \in 0 .. p * MaxWrites /\ s + x \in 0 .. INT_MAX
           /\ ToInt(s + x) = s + x
  <1>1. MaxWrites \in Nat /\ MaxQueue \in Nat /\ p \in Nat /\ p <= MaxQueue /\ INT_MAX \in Nat
    BY BoundAssumption, WidthAssumption
  <1>2. (p - 1) * MaxWrites + MaxWrites = p * MaxWrites
    BY <1>1
  <1>3. p * MaxWrites <= MaxQueue * MaxWrites
    BY <1>1
  <1>4. p * MaxWrites \in Nat /\ (p - 1) * MaxWrites \in Nat /\ MaxQueue * MaxWrites \in Nat
    BY <1>1
  <1>5. s + x \in Nat /\ s + x <= p * MaxWrites
    BY <1>1, <1>2, <1>4
  <1>6. MaxQueue * MaxWrites <= INT_MAX
    BY DEF NoOverflow
  <1>7. s + x \in 0 .. p * MaxWrites /\ s + x \in 0 .. INT_MAX
    BY <1>1, <1>3, <1>4, <1>5, <1>6
  <1> QED BY <1>7, ToIntIdentity

\* The slice that SetSlice gives, once the loop is done.
LEMMA SliceBound ==
    ASSUME NoOverflow, w \in 0 .. MaxWrites, sum \in Nat, w <= sum
    PROVE  /\ (IF NoWrites THEN RAS_MAX_TIMESLICE ELSE ToUInt(RAS_MAX_TIMESLICE - RaceProbability))
                = IF NoWrites THEN RAS_MAX_TIMESLICE ELSE RAS_MAX_TIMESLICE - (w * RaceScale) \div sum
           /\ (IF NoWrites THEN RAS_MAX_TIMESLICE ELSE ToUInt(RAS_MAX_TIMESLICE - RaceProbability))
                \in 1 .. RAS_MAX_TIMESLICE
  <1>1. /\ MaxWrites \in Nat /\ INT_MAX \in Nat
        /\ RAS_MAX_TIMESLICE \in Nat \ {0} /\ RaceScale \in 1 .. RAS_MAX_TIMESLICE
    BY BoundAssumption, WidthAssumption, ScaleAssumption
  <1>2. CASE NoWrites
    BY <1>1, <1>2
  <1>3. CASE ~NoWrites
    <2>1. w < sum /\ sum \in Nat \ {0} /\ w \in Nat
      BY <1>3 DEF NoWrites
    <2>2. ToInt(w * RaceScale) = w * RaceScale /\ w * RaceScale \in Nat
      <3>1. w * RaceScale \in Nat /\ w * RaceScale <= MaxWrites * RaceScale
        BY <1>1
      <3>2. w * RaceScale \in 0 .. INT_MAX
        BY <1>1, <3>1 DEF NoOverflow
      <3> QED BY <3>1, <3>2, ToIntIdentity
    <2>3. RaceProbability = (w * RaceScale) \div sum
      BY <2>1, <2>2, CDivNat DEF RaceProbability
    <2>4. RaceProbability \in 0 .. RaceScale - 1
      BY <1>1, <2>1, <2>3, ProbabilityBound
    <2>5. RAS_MAX_TIMESLICE - RaceProbability \in 1 .. RAS_MAX_TIMESLICE
      BY <1>1, <2>4
    <2>6. RAS_MAX_TIMESLICE - RaceProbability \in 0 .. Modulus - 1
      BY <1>1, <2>5 DEF NoOverflow, Modulus, Half
    <2>7. ToUInt(RAS_MAX_TIMESLICE - RaceProbability) = RAS_MAX_TIMESLICE - RaceProbability
      BY <2>6, ToUIntIdentity
    <2> QED BY <1>3, <2>3, <2>5, <2>7
  <1> QED BY <1>2, <1>3

LEMMA IInvInit == Init => IInv
  <1> SUFFICES ASSUME Init PROVE IInv
    OBVIOUS
  <1>1. /\ curr \in Tasks /\ queue = <<curr>> /\ pc = "user"
        /\ wcounts = [t \in Tasks |-> 0] /\ slice = [t \in Tasks |-> RAS_MAX_TIMESLICE]
    BY DEF Init
  <1>2. /\ <<curr>> \in Seq(Tasks) /\ Len(<<curr>>) = 1 /\ <<curr>>[1] = curr
    BY <1>1
  <1>3. Range(<<curr>>) = {curr} /\ IsInjective(<<curr>>)
    <2> DEFINE q == <<curr>>
    <2>1. q \in Seq(Tasks) /\ Len(q) = 1 /\ q[1] = curr
      BY <1>2
    <2> HIDE DEF q
    <2>2. /\ Range(q) = {q[i] : i \in 1 .. Len(q)}
          /\ IsInjective(q) <=> \A i, j \in 1 .. Len(q) : q[i] = q[j] => i = j
      BY ONLY <2>1, RangeProperties
    <2>3. Range(q) = {curr} /\ IsInjective(q)
      BY <2>1, <2>2
    <2> QED BY <2>3 DEF q
  <1>4. Types
    BY <1>1, <1>2, <1>3, BoundAssumption, ScaleAssumption DEF Types
  <1>5. Slices
    BY <1>1, ScaleAssumption DEF Slices
  <1> QED BY <1>1, <1>4, <1>5 DEF IInv, LoopInv

LEMMA IInvNext ==
    ASSUME NoOverflow, IInv, [Next]_vars
    PROVE  IInv'
  <1>1. /\ queue \in Seq(Tasks) /\ IsInjective(queue) /\ Len(queue) \in 1 .. MaxQueue
        /\ curr \in Range(queue) /\ curr \in Tasks
        /\ wcounts \in [Tasks -> 0 .. MaxWrites] /\ slice \in [Tasks -> Int]
        /\ RAS_MAX_TIMESLICE \in Nat \ {0} /\ MaxWrites \in Nat /\ MaxQueue \in Nat
        /\ pc \in {"user", "decide", "loop", "requeue"}
        /\ Slices /\ LoopInv
    BY ScaleAssumption, BoundAssumption, QueueFacts DEF IInv, Types
  <1>2. CASE UNCHANGED vars
    BY <1>2 DEF IInv, Types, Slices, LoopInv, vars, tickVars
  <1>3. CASE Fault
    <2>1. /\ pc = "user" /\ wcounts[curr] < MaxWrites
          /\ wcounts' = [wcounts EXCEPT ![curr] = wcounts[curr] + 1]
          /\ UNCHANGED <<queue, curr, slice, pc>>
      BY <1>3 DEF Fault
    <2>2. wcounts[curr] + 1 \in 0 .. MaxWrites
      BY <1>1, <2>1
    <2>3. wcounts' \in [Tasks -> 0 .. MaxWrites]
      BY <1>1, <2>1, <2>2
    <2> QED BY <1>1, <2>1, <2>3 DEF IInv, Types, Slices, LoopInv
  <1>4. ASSUME NEW t \in Tasks, EnqueueTaskRas(t) PROVE IInv'
    <2>1. /\ pc = "user" /\ t \notin Range(queue) /\ Len(queue) < MaxQueue
          /\ queue' = Append(queue, t) /\ UNCHANGED <<curr, wcounts, slice, pc>>
      BY <1>4 DEF EnqueueTaskRas
    <2>2. /\ queue' \in Seq(Tasks) /\ Range(queue') = Range(queue) \cup {t}
          /\ IsInjective(queue') /\ Len(queue') = Len(queue) + 1
      BY <1>1, <2>1, AddTail
    <2>3. Len(queue') \in 1 .. MaxQueue
      BY <1>1, <2>1, <2>2
    <2> QED BY <1>1, <2>1, <2>2, <2>3 DEF IInv, Types, Slices, LoopInv
  <1>5. CASE DequeueTaskRas
    <2>1. /\ pc = "user" /\ Len(queue) > 1 /\ queue' = RemoveFirst(queue, curr)
          /\ curr' = Head(queue') /\ UNCHANGED <<wcounts, slice, pc>>
      BY <1>5 DEF DequeueTaskRas
    <2>2. /\ queue' \in Seq(Tasks) /\ IsInjective(queue') /\ Len(queue') = Len(queue) - 1
      BY <1>1, <2>1, DelFromList
    <2>3. Len(queue') \in 1 .. MaxQueue
      <3>1. Len(queue) > 1 /\ Len(queue) \in 1 .. MaxQueue /\ MaxQueue \in Nat
        BY <1>1, <2>1
      <3>2. Len(queue') = Len(queue) - 1
        BY <2>2
      <3> QED BY ONLY <3>1, <3>2
    <2>4. curr' \in Range(queue')
      BY <2>1, <2>2, <2>3, QueueFacts
    <2> QED BY <1>1, <2>1, <2>2, <2>3, <2>4 DEF IInv, Types, Slices, LoopInv
  <1>6. ASSUME NEW t \in Tasks, ResetCount(t) PROVE IInv'
    BY <1>1, <1>6 DEF ResetCount, IInv, Types, Slices, LoopInv
  <1>7. CASE CountDown
    <2>1. /\ pc = "user"
          /\ slice' = [slice EXCEPT ![curr] = ToUInt(slice[curr] - 1)]
          /\ pc' = IF slice'[curr] = 0 THEN "decide" ELSE "user"
          /\ UNCHANGED <<queue, curr, wcounts>>
      BY <1>7 DEF CountDown
    <2>2. slice[curr] - 1 \in 0 .. RAS_MAX_TIMESLICE - 1
      BY <1>1, <2>1 DEF Slices
    <2>3. ToUInt(slice[curr] - 1) = slice[curr] - 1
      <3>1. slice[curr] - 1 \in 0 .. Modulus - 1
        BY <1>1, <2>2, WidthAssumption DEF NoOverflow, Modulus, Half
      <3> QED BY <3>1, ToUIntIdentity
    <2>4. slice' \in [Tasks -> Int] /\ slice'[curr] = slice[curr] - 1
      BY <1>1, <2>1, <2>2, <2>3
    <2>5. \A t \in Tasks \ {curr} : slice'[t] \in 1 .. RAS_MAX_TIMESLICE
      BY <1>1, <2>1 DEF Slices
    <2>6. Slices'
      BY <1>1, <2>1, <2>2, <2>4, <2>5 DEF Slices
    <2> QED BY <1>1, <2>1, <2>4, <2>6 DEF IInv, Types, LoopInv
  <1>8. CASE NoRace
    <2>1. /\ slice' = [slice EXCEPT ![curr] = RAS_MAX_TIMESLICE] /\ pc' = "requeue"
          /\ pc = "decide" /\ UNCHANGED <<queue, curr, wcounts>>
      BY <1>8 DEF NoRace, Refill
    <2>2. Slices'
      BY <1>1, <2>1 DEF Slices
    <2> QED BY <1>1, <2>1, <2>2 DEF IInv, Types, LoopInv
  <1>9. CASE StartSum
    <2>1. /\ pc = "decide" /\ w' = wcounts[curr] /\ sum' = 0 /\ pos' = 1 /\ pc' = "loop"
          /\ UNCHANGED <<queue, curr, wcounts, slice>>
      BY <1>9 DEF StartSum
    <2>2. LoopInv'
      BY <1>1, <2>1 DEF LoopInv
    <2> QED BY <1>1, <2>1, <2>2 DEF IInv, Types, Slices
  <1>10. CASE AddCount
    <2>1. /\ pc = "loop" /\ pos <= Len(queue)
          /\ sum' = ToInt(sum + wcounts[queue[pos]]) /\ pos' = pos + 1
          /\ UNCHANGED <<queue, curr, wcounts, slice, pc, w>>
      BY <1>10 DEF AddCount
    <2>2. /\ pos \in 1 .. Len(queue) /\ sum \in 0 .. (pos - 1) * MaxWrites
          /\ w = wcounts[curr] /\ \A i \in 1 .. pos - 1 : queue[i] = curr => w <= sum
      BY <1>1, <2>1 DEF LoopInv
    <2> DEFINE x == wcounts[queue[pos]]
    <2>3. x \in 0 .. MaxWrites
      BY <1>1, <2>2, QueueFacts
    <2>4. sum' = sum + x /\ sum' \in 0 .. pos * MaxWrites
      <3>1. sum' = ToInt(sum + x)
        BY <2>1
      <3>2. /\ Len(queue) \in 1 .. MaxQueue /\ pos \in 1 .. Len(queue)
            /\ sum \in 0 .. (pos - 1) * MaxWrites /\ x \in 0 .. MaxWrites
        BY <1>1, <2>2, <2>3
      <3> HIDE DEF x
      <3>3. sum + x \in 0 .. pos * MaxWrites /\ ToInt(sum + x) = sum + x
        BY ONLY NoOverflow, <3>2, SumBound
      <3> QED BY <3>1, <3>3
    <2>5. sum \in Nat /\ sum <= sum' /\ x <= sum' /\ sum' \in Nat
      <3>1. sum \in Nat
        BY <1>1, <2>2
      <3> HIDE DEF x
      <3> QED BY <1>1, <2>3, <2>4, <3>1
    <2>6. ASSUME NEW i \in 1 .. pos, queue[i] = curr PROVE w <= sum'
      <3>1. CASE i = pos
        BY <2>2, <2>5, <2>6, <3>1
      <3>2. CASE i # pos
        <4>1. i \in 1 .. pos - 1 /\ w \in Nat
          BY <1>1, <2>2, <3>2
        <4>2. w <= sum
          BY <2>2, <2>6, <4>1
        <4> QED BY <2>5, <4>1, <4>2
      <3> QED BY <3>1, <3>2
    <2>7. pos' \in 1 .. Len(queue) + 1 /\ pos' - 1 = pos
      BY <1>1, <2>1, <2>2
    <2>8. LoopInv'
      BY <2>1, <2>2, <2>4, <2>6, <2>7 DEF LoopInv
    <2> QED BY <1>1, <2>1, <2>8 DEF IInv, Types, Slices
  <1>11. CASE SetSlice
    <2> DEFINE n == IF NoWrites THEN RAS_MAX_TIMESLICE
                    ELSE ToUInt(RAS_MAX_TIMESLICE - RaceProbability)
    <2>1. /\ pc = "loop" /\ pos > Len(queue)
          /\ slice' = [slice EXCEPT ![curr] = n]
          /\ pc' = "requeue" /\ UNCHANGED <<queue, curr, wcounts>>
      BY <1>11 DEF SetSlice, Refill
    <2>2. PICK i \in 1 .. Len(queue) : queue[i] = curr
      BY <1>1, QueueFacts
    <2>3. /\ w = wcounts[curr] /\ i \in 1 .. pos - 1 /\ sum \in 0 .. (pos - 1) * MaxWrites
          /\ \A j \in 1 .. pos - 1 : queue[j] = curr => w <= sum
      BY <1>1, <2>1, <2>2 DEF LoopInv
    <2>4. w <= sum /\ w \in 0 .. MaxWrites /\ sum \in Nat
      BY <1>1, <2>2, <2>3
    <2>5. n \in 1 .. RAS_MAX_TIMESLICE
      BY <2>4, SliceBound
    <2> HIDE DEF n
    <2>6. slice' \in [Tasks -> Int] /\ Slices'
      BY <1>1, <2>1, <2>5 DEF Slices
    <2> QED BY <1>1, <2>1, <2>6 DEF IInv, Types, LoopInv
  <1>12. CASE RequeueTaskRas
    <2> DEFINE rest == RemoveFirst(queue, curr)
    <2>1. /\ pc = "requeue" /\ queue' = Append(rest, curr)
          /\ curr' = Head(queue') /\ pc' = "user" /\ UNCHANGED <<wcounts, slice>>
      BY <1>12 DEF RequeueTaskRas
    <2>2. /\ rest \in Seq(Tasks) /\ IsInjective(rest) /\ Len(rest) = Len(queue) - 1
          /\ Range(rest) = Range(queue) \ {curr}
      BY <1>1, DelFromList
    <2> HIDE DEF rest
    <2>3. /\ queue' \in Seq(Tasks) /\ IsInjective(queue') /\ Len(queue') = Len(rest) + 1
      BY <1>1, <2>1, <2>2, AddTail
    <2>4. Len(queue') \in 1 .. MaxQueue
      BY <1>1, <2>2, <2>3
    <2>5. curr' = Head(queue') /\ Len(queue') # 0
      BY <2>1, <2>4
    <2>6. Head(queue') \in Range(queue')
      BY <2>3, <2>5, QueueFacts, Zenon
    <2>7. curr' \in Range(queue')
      BY <2>5, <2>6
    <2> QED BY <1>1, <2>1, <2>3, <2>4, <2>7 DEF IInv, Types, Slices, LoopInv
  <1> QED BY <1>2, <1>3, <1>4, <1>5, <1>6, <1>7, <1>8, <1>9, <1>10, <1>11, <1>12
          DEF Next, TaskTickRas

\* However many tasks race, and however they come, go, write and are reset, every
\* slice is in 1 .. RAS_MAX_TIMESLICE as long as no int overflows.
THEOREM SliceInRangeTheorem == NoOverflow => (Spec => []SliceInRange)
  <1> SUFFICES ASSUME NoOverflow PROVE Spec => []SliceInRange
    OBVIOUS
  <1>1. IInv /\ [Next]_vars => IInv'
    BY IInvNext
  <1>2. IInv => SliceInRange
    BY DEF IInv, Slices, SliceInRange
  <1> QED BY <1>1, <1>2, IInvInit, PTL DEF Spec

-----------------------------------------------------------------------------
(* What the loop adds up, and the slice that comes of it *)

\* The tasks of q before position p.
Before(q, p) == {q[i] : i \in 1 .. p - 1}

LoopSum == pc = "loop" => sum = Sum(wcounts, Before(queue, pos))

LEMMA BeforeFacts ==
    ASSUME NEW q \in Seq(Tasks), IsInjective(q), NEW p \in 1 .. Len(q) + 1
    PROVE  /\ Before(q, 1) = {} /\ Before(q, Len(q) + 1) = Range(q)
           /\ IsFiniteSet(Before(q, p)) /\ Before(q, p) \subseteq Tasks
           /\ p <= Len(q) => /\ Before(q, p + 1) = Before(q, p) \cup {q[p]}
                             /\ q[p] \notin Before(q, p) /\ q[p] \in Tasks
  <1>1. /\ Len(q) \in Nat /\ p \in Nat
        /\ Range(q) = {q[i] : i \in 1 .. Len(q)}
        /\ \A i \in 1 .. Len(q) : q[i] \in Tasks
        /\ \A j, i \in 1 .. Len(q) : q[j] = q[i] => j = i
    BY RangeProperties, QueueFacts
  <1>2. Before(q, 1) = {}
    BY DEF Before
  <1>3. Before(q, Len(q) + 1) = Range(q)
    <2>1. Len(q) + 1 - 1 = Len(q)
      BY <1>1
    <2> QED BY <1>1, <2>1 DEF Before
  <1>4. IsFiniteSet(Before(q, p))
    <2>1. IsFiniteSet(1 .. p - 1)
      <3> DEFINE m == p - 1
      <3>1. 1 \in Int /\ m \in Int
        BY <1>1
      <3> HIDE DEF m
      <3>2. IsFiniteSet(1 .. m)
        BY ONLY <3>1, FS_Interval
      <3> QED BY <3>2 DEF m
    <2> DEFINE at == [i \in 1 .. p - 1 |-> q[i]]
    <2>2. at \in Surjection(1 .. p - 1, Before(q, p))
      BY DEF Before, Surjection
    <2> QED BY <2>1, <2>2, FS_Surjection DEF ExistsSurjection
  <1>5. Before(q, p) \subseteq Tasks
    <2>1. \A i \in 1 .. p - 1 : i \in 1 .. Len(q)
      BY <1>1
    <2> QED BY <1>1, <2>1 DEF Before
  <1>6. ASSUME p <= Len(q)
        PROVE  /\ Before(q, p + 1) = Before(q, p) \cup {q[p]}
               /\ q[p] \notin Before(q, p) /\ q[p] \in Tasks
    <2>1. 1 .. p + 1 - 1 = (1 .. p - 1) \cup {p}
      BY <1>1
    <2>2. Before(q, p + 1) = Before(q, p) \cup {q[p]}
      BY <2>1 DEF Before
    <2>3. p \in 1 .. Len(q) /\ \A i \in 1 .. p - 1 : i \in 1 .. Len(q) /\ i # p
      BY <1>1, <1>6
    <2>4. q[p] \notin Before(q, p)
      BY <1>1, <2>3 DEF Before
    <2> QED BY <1>1, <2>2, <2>3, <2>4
  <1> QED BY <1>2, <1>3, <1>4, <1>5, <1>6

LEMMA FoldIsSum ==
    ASSUME NEW f, NEW S
    PROVE  FoldFunctionOnSet(+, 0, f, S) = Sum(f, S)
  BY DEF FoldFunctionOnSet, Sum, MapThenSumSet

LEMMA ExactSumIsSum ==
    /\ ExactSum = Sum(wcounts, Range(queue))
    /\ UNCHANGED <<queue, curr, wcounts>> => ExactSlice' = ExactSlice
  <1>1. ExactSum = Sum(wcounts, Range(queue))
    BY FoldIsSum DEF ExactSum
  <1>2. (ExactSum = Sum(wcounts, Range(queue)))'
    BY <1>1, PTL
  <1>3. ExactSum' = Sum(wcounts', Range(queue'))
    BY <1>2
  <1>4. ASSUME UNCHANGED <<queue, curr, wcounts>> PROVE ExactSlice' = ExactSlice
    <2>1. queue' = queue /\ curr' = curr /\ wcounts' = wcounts
      BY <1>4
    <2>2. ExactSum' = ExactSum
      BY <1>1, <1>3, <2>1
    <2> QED BY <2>1, <2>2 DEF ExactSlice
  <1> QED BY <1>1, <1>4

\* The test of the code, for a writer alone or for none, finds out whether
\* another task writes.
LEMMA OthersWrite ==
    ASSUME IInv, w = wcounts[curr], sum = Sum(wcounts, Range(queue))
    PROVE  NoWrites <=> ~\E t \in Range(queue) \ {curr} : wcounts[t] > 0
  <1> DEFINE O == Range(queue) \ {curr}
  <1>1. queue \in Seq(Tasks) /\ IsInjective(queue) /\ curr \in Range(queue)
        /\ Len(queue) + 1 \in 1 .. Len(queue) + 1 /\ MaxWrites \in Nat
        /\ wcounts \in [Tasks -> 0 .. MaxWrites]
    BY BoundAssumption DEF IInv, Types
  <1>2. IsFiniteSet(Range(queue)) /\ Range(queue) \subseteq Tasks
    BY <1>1, BeforeFacts
  <1>3. IsFiniteSet(O) /\ curr \notin O /\ O \cup {curr} = Range(queue)
    BY <1>1, <1>2, FS_Subset
  <1>4. \A t \in Range(queue) : wcounts[t] \in Nat
    BY <1>1, <1>2
  <1> HIDE DEF O
  <1>5. sum = w + Sum(wcounts, O)
    BY <1>3, <1>4, SumAdd
  <1>6. \A t \in O : wcounts[t] \in Nat
    BY <1>3, <1>4
  <1>7. Sum(wcounts, O) \in Nat /\ (Sum(wcounts, O) = 0 <=> \A t \in O : wcounts[t] = 0)
    BY <1>3, <1>6, SumNat, SumZero
  <1>8. w \in Nat
    BY <1>1, <1>4
  <1>9. NoWrites <=> Sum(wcounts, O) = 0
    BY <1>5, <1>7, <1>8 DEF NoWrites
  <1> QED BY <1>6, <1>7, <1>9 DEF O

LEMMA ExactInit == Init => LoopSum /\ SliceIsExact
  BY DEF Init, LoopSum, SliceIsExact

LEMMA ExactNext ==
    ASSUME NoOverflow, IInv, LoopSum, SliceIsExact, [Next]_vars
    PROVE  LoopSum' /\ SliceIsExact'
  <1>1. /\ queue \in Seq(Tasks) /\ IsInjective(queue) /\ Len(queue) \in 1 .. MaxQueue
        /\ curr \in Range(queue) /\ curr \in Tasks
        /\ wcounts \in [Tasks -> 0 .. MaxWrites] /\ slice \in [Tasks -> Int]
        /\ MaxWrites \in Nat /\ MaxQueue \in Nat
    BY BoundAssumption, QueueFacts DEF IInv, Types
  <1>2. CASE UNCHANGED vars
    <2>1. /\ queue' = queue /\ curr' = curr /\ wcounts' = wcounts /\ slice' = slice
          /\ pc' = pc /\ pos' = pos /\ sum' = sum
      BY <1>2 DEF vars
    <2>2. ExactSlice' = ExactSlice
      BY <2>1, ExactSumIsSum
    <2>3. LoopSum'
      BY <2>1 DEF LoopSum
    <2> QED BY <2>1, <2>2, <2>3 DEF SliceIsExact
  <1>3. CASE Fault \/ DequeueTaskRas
    BY <1>3 DEF Fault, DequeueTaskRas, LoopSum, SliceIsExact
  <1>4. ASSUME NEW t \in Tasks, EnqueueTaskRas(t) \/ ResetCount(t) PROVE LoopSum' /\ SliceIsExact'
    BY <1>4 DEF EnqueueTaskRas, ResetCount, LoopSum, SliceIsExact
  <1>5. CASE CountDown \/ RequeueTaskRas
    BY <1>5 DEF CountDown, RequeueTaskRas, LoopSum, SliceIsExact
  <1>6. CASE NoRace
    <2>1. /\ Len(queue) = 1 /\ slice' = [slice EXCEPT ![curr] = RAS_MAX_TIMESLICE]
          /\ pc' = "requeue" /\ UNCHANGED <<queue, curr, wcounts>>
      BY <1>6 DEF NoRace, Refill
    <2>2. Range(queue) \ {curr} = {}
      <3>1. Range(queue) = {queue[i] : i \in 1 .. 1}
        BY <1>1, <2>1, QueueFacts
      <3> QED BY <1>1, <3>1
    <2>3. ExactSlice' = RAS_MAX_TIMESLICE
      BY <2>1, <2>2 DEF ExactSlice
    <2>4. slice'[curr'] = RAS_MAX_TIMESLICE
      BY <1>1, <2>1
    <2> QED BY <2>1, <2>3, <2>4 DEF LoopSum, SliceIsExact
  <1>7. CASE StartSum
    <2>1. sum' = 0 /\ pos' = 1 /\ pc' = "loop" /\ UNCHANGED <<queue, wcounts>>
      BY <1>7 DEF StartSum
    <2>2. Before(queue', pos') = {}
      BY <2>1 DEF Before
    <2>3. Sum(wcounts', Before(queue', pos')) = 0
      BY <2>2, SumEmpty
    <2> QED BY <2>1, <2>3 DEF LoopSum, SliceIsExact
  <1>8. CASE AddCount
    <2>1. /\ pc = "loop" /\ pos <= Len(queue)
          /\ sum' = ToInt(sum + wcounts[queue[pos]]) /\ pos' = pos + 1
          /\ UNCHANGED <<queue, wcounts, pc>>
      BY <1>8 DEF AddCount
    <2>2. /\ pos \in 1 .. Len(queue) /\ pos \in 1 .. Len(queue) + 1
          /\ sum \in 0 .. (pos - 1) * MaxWrites
      BY <1>1, <2>1 DEF IInv, LoopInv
    <2> DEFINE B == Before(queue, pos)
               x == queue[pos]
    <2>3. /\ IsFiniteSet(B) /\ B \subseteq Tasks /\ x \notin B /\ x \in Tasks
          /\ Before(queue', pos') = B \cup {x}
      BY <1>1, <2>1, <2>2, BeforeFacts
    <2> HIDE DEF B, x
    <2>4. wcounts[x] \in 0 .. MaxWrites
      BY <1>1, <2>3
    <2> DEFINE y == wcounts[x]
    <2>5. sum' = sum + y
      <3>1. sum' = ToInt(sum + y)
        BY <2>1 DEF x
      <3>2. /\ Len(queue) \in 1 .. MaxQueue /\ pos \in 1 .. Len(queue)
            /\ sum \in 0 .. (pos - 1) * MaxWrites /\ y \in 0 .. MaxWrites
        BY <1>1, <2>2, <2>4
      <3> HIDE DEF y
      <3>3. ToInt(sum + y) = sum + y
        BY ONLY NoOverflow, <3>2, SumBound
      <3> QED BY <3>1, <3>3
    <2>6. \A v \in B \cup {x} : wcounts[v] \in Nat
      BY <1>1, <2>3
    <2>7. Sum(wcounts, B \cup {x}) = wcounts[x] + Sum(wcounts, B)
      BY <2>3, <2>6, SumAdd
    <2>8. Sum(wcounts, B) \in Nat /\ sum = Sum(wcounts, B)
      BY <2>1, <2>3, <2>6, SumNat DEF LoopSum, B
    <2>9. sum' = Sum(wcounts, B \cup {x})
      BY <1>1, <2>4, <2>5, <2>7, <2>8
    <2>10. sum' = Sum(wcounts', Before(queue', pos'))
      <3>1. wcounts' = wcounts
        BY <2>1
      <3> QED BY <2>3, <2>9, <3>1
    <2> QED BY <2>1, <2>10 DEF LoopSum, SliceIsExact
  <1>9. CASE SetSlice
    <2> DEFINE n == IF NoWrites THEN RAS_MAX_TIMESLICE
                    ELSE ToUInt(RAS_MAX_TIMESLICE - RaceProbability)
    <2>1. /\ pc = "loop" /\ pos > Len(queue)
          /\ slice' = [slice EXCEPT ![curr] = n]
          /\ pc' = "requeue" /\ UNCHANGED <<queue, curr, wcounts>>
      BY <1>9 DEF SetSlice, Refill
    <2>2. /\ w = wcounts[curr] /\ pos \in 1 .. Len(queue) + 1 /\ sum \in 0 .. (pos - 1) * MaxWrites
          /\ \A i \in 1 .. pos - 1 : queue[i] = curr => w <= sum
      BY <2>1 DEF IInv, LoopInv
    <2>3. PICK i \in 1 .. Len(queue) : queue[i] = curr
      BY <1>1, QueueFacts
    <2>4. i \in 1 .. pos - 1 /\ pos = Len(queue) + 1
      BY <1>1, <2>1, <2>2, <2>3
    <2>5. w <= sum /\ w \in 0 .. MaxWrites /\ sum \in Nat
      BY <1>1, <2>2, <2>3, <2>4
    <2>6. sum = Sum(wcounts, Range(queue)) /\ sum = ExactSum
      BY <1>1, <2>1, <2>2, <2>4, BeforeFacts, ExactSumIsSum DEF LoopSum
    <2>7. n = IF NoWrites THEN RAS_MAX_TIMESLICE
              ELSE RAS_MAX_TIMESLICE - (w * RaceScale) \div sum
      BY <2>5, SliceBound
    <2>8. n = ExactSlice
      BY <2>2, <2>6, <2>7, OthersWrite DEF ExactSlice
    <2> HIDE DEF n
    <2>9. slice'[curr'] = n
      BY <1>1, <2>1
    <2>10. ExactSlice' = ExactSlice
      BY <2>1, ExactSumIsSum
    <2> QED BY <2>1, <2>8, <2>9, <2>10 DEF LoopSum, SliceIsExact
  <1> QED BY <1>2, <1>3, <1>4, <1>5, <1>6, <1>7, <1>8, <1>9 DEF Next, TaskTickRas

\* As long as no int overflows, the loop of a tick gives the slice of the report:
\* 10 ticks less the race probability, which counts the writes of all the tasks
\* that are in the queue, or all 10 when no other task writes.
THEOREM SliceExactTheorem == NoOverflow => (Spec => []SliceIsExact)
  <1> SUFFICES ASSUME NoOverflow PROVE Spec => []SliceIsExact
    OBVIOUS
  <1>1. IInv /\ [Next]_vars => IInv'
    BY IInvNext
  <1>2. IInv /\ LoopSum /\ SliceIsExact /\ [Next]_vars => LoopSum' /\ SliceIsExact'
    BY ExactNext
  <1> QED BY <1>1, <1>2, IInvInit, ExactInit, PTL DEF Spec


-----------------------------------------------------------------------------
(* What is under way for the tasks that wait *)

\* Some processor pushes tasks of queue q; has yet to look for tasks of queue q to
\* pull to queue d; pulls to queue q for g, which runs there and became less urgent.
Pushing(x, q)     == \E b \in Cpus : x[b].at = "push" /\ x[b].q = q
Pulling(x, d, q)  == \E b \in Cpus : x[b].at = "pull" /\ x[b].q = d /\ x[b].dest <= q
Lowering(x, q, g) ==
    \E b \in Cpus : x[b].at = "pull" /\ x[b].then = "prio" /\ x[b].q = q /\ x[b].who = g

\* Queue c has a task more urgent than the one its processor runs.
Urgent(s, c) == Highest(s, c) < FairPrio /\ Highest(s, c) < PrioOf(s, s.curr[c])

\* Processor c will choose again, or is about to be told so.
Attended(s, x, c) == s.resched[c] \/ Choosing(x[c]) \/ Lowering(x, c, s.curr[c])

\* Processor q will choose again or push, so that its first task will not wait.
Yields(s, x, q) == Urgent(s, q) \/ s.resched[q] \/ s.curr[q] = Stopper \/ Choosing(x[q])
Pushes(s, x, q) == Yields(s, x, q) \/ s.post[q] \/ Pushing(x, q)

\* The first task that waits on q is not for d, or d will have it, or q runs it.
Offered(s, x, q, d) == s.next[q] < Highest(s, d) => Pushes(s, x, q) \/ Pulling(x, d, q)

Quiet(s, x) ==
    /\ \A c \in s.up : Urgent(s, c) => Attended(s, x, c)
    /\ \A q, d \in Cpus : q # d /\ s.online[q] /\ s.online[d] => Offered(s, x, q, d)

\* No move of a stop task and no change of class is under way, and what comes
\* after a choice is not due before it.
Plain(s, x) ==
    /\ s.stops = {} /\ s.stray = {}
    /\ \A c \in Cpus :
        /\ x[c].then \notin {"to", "from"}
        /\ s.post[c] => s.curr[c] \in Threads /\ s.prio[s.curr[c]] < FairPrio
        /\ Choosing(x[c]) => ~s.post[c]

Calm(s, x) == Plain(s, x) /\ Quiet(s, x)

-----------------------------------------------------------------------------
(* The first task that waits on a queue *)

LEMMA NextIs ==
    ASSUME NEW s, Exact(s), NEW c \in Cpus
    PROVE  /\ s.next[c] \in 1 .. FairPrio
           /\ \A t \in Pushable(s, c) : s.next[c] <= s.prio[t]
           /\ s.push[c] = <<>> <=> Pushable(s, c) = {}
           /\ Pushable(s, c) = {} => s.next[c] = FairPrio
           /\ Pushable(s, c) # {} => /\ Head(s.push[c]) \in Pushable(s, c)
                                     /\ s.next[c] = s.prio[Head(s.push[c])]
  <1> DEFINE l == s.push[c]
  <1>1. /\ l \in Seq(Threads) /\ s.prio \in [Threads -> Int] /\ s.prio \in [Threads -> 1 .. FairPrio]
        /\ s.next[c] \in 1 .. FairPrio
    BY DEF Exact, States
  <1>2. /\ Range(l) = Pushable(s, c) /\ Sorted(l, s.prio)
        /\ s.next[c] = IF l = <<>> THEN FairPrio ELSE s.prio[l[1]]
    BY DEF Exact, PushList
  <1>3. CASE l = <<>>
    <2>1. Range(l) = {}
      BY <1>3, EmptyList
    <2> QED BY <1>1, <1>2, <1>3, <2>1
  <1>4. CASE l # <<>>
    <2>1. l[1] \in Range(l) /\ Head(l) = l[1] /\ \A u \in Range(l) : s.prio[l[1]] <= s.prio[u]
      BY <1>1, <1>2, <1>4, HeadIsLeast
    <2> QED BY <1>1, <1>2, <1>4, <2>1
  <1> QED BY <1>3, <1>4

\* Its priority is the least of those that wait, which are all queued.
LEMMA NextLeast ==
    ASSUME NEW s, Exact(s), NEW c \in Cpus
    PROVE  /\ s.next[c] < FairPrio <=> Pushable(s, c) # {}
           /\ Pushable(s, c) # {} => \E t \in Pushable(s, c) : s.next[c] = s.prio[t]
           /\ Highest(s, c) <= s.next[c]
           /\ Pushable(s, c) \subseteq RtQueued(s, c)
  <1>1. s \in States /\ s.prio \in [Threads -> 1 .. FairPrio]
    BY DEF Exact, States
  <1>2. Pushable(s, c) \subseteq RtQueued(s, c)
    BY DEF Pushable, RtMovable
  <1>3. \A t \in RtQueued(s, c) : t \in Threads /\ s.prio[t] < FairPrio
    BY DEF RtQueued, Queued
  <1>4. /\ Highest(s, c) \in 1 .. FairPrio
        /\ \A t \in RtQueued(s, c) : Highest(s, c) <= s.prio[t]
    BY <1>1, HighestIs
  <1>5. CASE Pushable(s, c) = {}
    <2>1. s.next[c] = FairPrio
      BY <1>5, NextIs
    <2> QED BY <1>2, <1>4, <1>5, <2>1, ThreadAssumption
  <1>6. CASE Pushable(s, c) # {}
    <2>1. PICK t \in Pushable(s, c) : s.next[c] = s.prio[t]
      BY <1>6, NextIs
    <2>2. t \in RtQueued(s, c) /\ s.prio[t] \in 1 .. FairPrio
      BY <1>1, <1>2, <1>3
    <2> QED BY <1>2, <1>3, <1>4, <1>6, <2>1, <2>2
  <1> QED BY <1>5, <1>6

\* It is the same where the same tasks wait.
LEMMA QueueSame ==
    ASSUME NEW s, Exact(s), NEW r, Exact(r), NEW c \in Cpus,
           RtQueued(r, c) = RtQueued(s, c), Pushable(r, c) = Pushable(s, c),
           \A t \in RtQueued(s, c) : r.prio[t] = s.prio[t]
    PROVE  Highest(r, c) = Highest(s, c) /\ r.next[c] = s.next[c]
  <1>1. {r.prio[t] : t \in RtQueued(r, c)} = {s.prio[t] : t \in RtQueued(s, c)}
    OBVIOUS
  <1>2. Highest(r, c) = Highest(s, c)
    BY <1>1 DEF Highest
  <1>3. Pushable(s, c) \subseteq RtQueued(s, c)
    BY NextLeast
  <1>4. CASE Pushable(s, c) = {}
    BY <1>2, <1>4, NextIs
  <1>5. CASE Pushable(s, c) # {}
    <2>1. PICK t \in Pushable(s, c) : s.next[c] = s.prio[t]
      BY <1>5, NextLeast
    <2>2. PICK u \in Pushable(s, c) : r.next[c] = r.prio[u]
      BY <1>5, NextLeast
    <2>3. s.next[c] <= s.prio[u] /\ r.next[c] <= r.prio[t]
      BY NextIs
    <2>4. s.next[c] \in Int /\ r.next[c] \in Int
      BY NextIs
    <2> QED BY <1>2, <1>3, <2>1, <2>2, <2>3, <2>4
  <1> QED BY <1>4, <1>5

-----------------------------------------------------------------------------
(* What is left of it when a processor goes on *)

ButFor(x, z, c) == \A b \in Cpus \ {c} : z[b] = x[b]

LEMMA ContextLeft ==
    ASSUME NEW x, NEW z, NEW c \in Cpus, ButFor(x, z, c)
    PROVE  /\ \A q : Pushing(x, q) => Pushing(z, q) \/ (x[c].at = "push" /\ x[c].q = q)
           /\ \A d, q : Pulling(x, d, q) =>
                  Pulling(z, d, q) \/ (x[c].at = "pull" /\ x[c].q = d /\ x[c].dest <= q)
           /\ \A q, g : Lowering(x, q, g) =>
                  \/ Lowering(z, q, g)
                  \/ x[c].at = "pull" /\ x[c].then = "prio" /\ x[c].q = q /\ x[c].who = g
  BY DEF Pushing, Pulling, Lowering, ButFor

LEMMA ContextNow ==
    ASSUME NEW z, NEW c \in Cpus
    PROVE  /\ z[c].at = "push" => Pushing(z, z[c].q)
           /\ z[c].at = "pull" => \A q : z[c].dest <= q => Pulling(z, z[c].q, q)
           /\ z[c].at = "pull" /\ z[c].then = "prio" => Lowering(z, z[c].q, z[c].who)
  BY DEF Pushing, Pulling, Lowering

\* All that is under way in x is under way in z.
Carries(x, z) ==
    /\ \A q : Pushing(x, q) => Pushing(z, q)
    /\ \A d, q : Pulling(x, d, q) => Pulling(z, d, q)
    /\ \A q, g : Lowering(x, q, g) => Lowering(z, q, g)
    /\ \A c \in Cpus : Choosing(x[c]) => Choosing(z[c])

LEMMA NoneLost ==
    ASSUME NEW x, NEW z, NEW c \in Cpus, ButFor(x, z, c), x[c].at # "pull",
           x[c].at = "push" => z[c].at = "push" /\ z[c].q = x[c].q
    PROVE  Carries(x, z)
  <1>1. \A q : Pushing(x, q) => Pushing(z, q)
    BY ContextLeft, ContextNow
  <1>2. \A d, q : Pulling(x, d, q) => Pulling(z, d, q)
    BY ContextLeft
  <1>3. \A q, g : Lowering(x, q, g) => Lowering(z, q, g)
    BY ContextLeft
  <1>4. \A b \in Cpus : Choosing(x[b]) => Choosing(z[b])
    BY DEF Choosing, ButFor
  <1> QED BY <1>1, <1>2, <1>3, <1>4 DEF Carries

\* Queue c and what runs on it look alike.
SameView(s, r, c) ==
    /\ Highest(r, c) = Highest(s, c) /\ r.next[c] = s.next[c]
    /\ r.curr[c] = s.curr[c] /\ PrioOf(r, r.curr[c]) = PrioOf(s, s.curr[c])

LEMMA QuietKept ==
    ASSUME NEW s, NEW x, Quiet(s, x), NEW z, Carries(x, z), NEW r, r.up \subseteq s.up,
           s.up \subseteq Cpus, \A c \in Cpus : r.online[c] => s.online[c],
           \A c \in Cpus : /\ SameView(s, r, c)
                           /\ s.resched[c] => r.resched[c]
                           /\ s.post[c] => r.post[c]
    PROVE  Quiet(r, z)
  <1>1. \A c \in Cpus : Urgent(r, c) <=> Urgent(s, c)
    BY DEF SameView, Urgent
  <1>2. \A c \in Cpus : Attended(s, x, c) => Attended(r, z, c)
    BY DEF SameView, Attended, Carries
  <1>3. \A c \in Cpus : Pushes(s, x, c) => Pushes(r, z, c)
    BY <1>1 DEF SameView, Pushes, Yields, Carries
  <1>4. \A q, d \in Cpus : Offered(s, x, q, d) => Offered(r, z, q, d)
    BY <1>3 DEF SameView, Offered, Carries
  <1> QED BY <1>1, <1>2, <1>4 DEF Quiet

-----------------------------------------------------------------------------
(* What the steps do to the flags, and what they keep *)

\* The tasks are in the same queues, alike in all but what runs.
Keeps(s, r) ==
    /\ r.home = s.home /\ r.onRq = s.onRq /\ r.prio = s.prio /\ r.mask = s.mask
    /\ r.stray = s.stray /\ r.online = s.online /\ SameRest(s, r)

LEMMA KeepsAll ==
    ASSUME NEW s, NEW r, Keeps(s, r), NEW c
    PROVE  /\ Queued(r, c) = Queued(s, c) /\ RtQueued(r, c) = RtQueued(s, c)
           /\ RtMovable(r, c) = RtMovable(s, c) /\ Highest(r, c) = Highest(s, c)
           /\ \A t : PrioOf(r, t) = PrioOf(s, t) /\ (Movable(r, t) <=> Movable(s, t))
  <1>1. Queued(r, c) = Queued(s, c)
    BY DEF Keeps, Queued
  <1>2. RtQueued(r, c) = RtQueued(s, c)
    BY <1>1 DEF Keeps, RtQueued
  <1>3. Highest(r, c) = Highest(s, c)
    BY <1>2 DEF Keeps, Highest
  <1>4. \A t : PrioOf(r, t) = PrioOf(s, t) /\ (Movable(r, t) <=> Movable(s, t))
    BY DEF Keeps, PrioOf, Movable
  <1>5. RtMovable(r, c) = RtMovable(s, c)
    BY <1>2, <1>4 DEF RtMovable
  <1> QED BY <1>1, <1>2, <1>3, <1>4, <1>5

LEMMA KeepsTrans ==
    ASSUME NEW s, NEW r, NEW v, Keeps(s, r), Keeps(r, v)
    PROVE  Keeps(s, v)
  BY DEF Keeps, SameRest

\* All but the flags, the lists and what is told of them.
LEMMA SameKeeps ==
    ASSUME NEW s, NEW r, SameTasks(s, r), SameRest(s, r), r.stray = s.stray, r.online = s.online
    PROVE  Keeps(s, r) /\ r.curr = s.curr
  BY DEF SameTasks, Keeps

LEMMA ReschedIs ==
    ASSUME NEW s \in States, NEW c \in Cpus, NEW r, r = Resched(s, c)
    PROVE  /\ r \in States /\ Keeps(s, r)
           /\ r.resched[c] /\ \A d \in Cpus \ {c} : r.resched[d] = s.resched[d]
           /\ r.post = s.post /\ r.curr = s.curr /\ r.push = s.push /\ r.next = s.next
  <1>1. /\ r \in States
        /\ SameTasks(s, r) /\ SamePush(s, r) /\ SameLoad(s, r) /\ SameRest(s, r)
        /\ r.stray = s.stray /\ r.post = s.post
    BY ReschedFields
  <1>2. r.resched = [s.resched EXCEPT ![c] = TRUE] /\ s.resched \in [Cpus -> BOOLEAN]
    BY DEF Resched, States
  <1> QED BY <1>1, <1>2, SameKeeps DEF SamePush, SameLoad

LEMMA PostedIs ==
    ASSUME NEW s \in States, NEW c \in Cpus, NEW on, on \in BOOLEAN, NEW r, r = Posted(s, c, on)
    PROVE  /\ r \in States /\ Keeps(s, r)
           /\ r.post[c] = on /\ \A d \in Cpus \ {c} : r.post[d] = s.post[d]
           /\ r.resched = s.resched /\ r.curr = s.curr /\ r.push = s.push /\ r.next = s.next
  <1>1. /\ r \in States
        /\ SameTasks(s, r) /\ SamePush(s, r) /\ SameLoad(s, r) /\ SameRest(s, r)
        /\ r.stray = s.stray /\ r.resched = s.resched
    BY PostedFields
  <1>2. r.post = [s.post EXCEPT ![c] = on] /\ s.post \in [Cpus -> BOOLEAN]
    BY DEF Posted, States
  <1> QED BY <1>1, <1>2, SameKeeps DEF SamePush, SameLoad

Pushed(s, c) == [s EXCEPT !.post[c] = FALSE]

LEMMA PushedIs ==
    ASSUME NEW s \in States, NEW c \in Cpus, NEW r, r = Pushed(s, c)
    PROVE  /\ r \in States /\ Keeps(s, r)
           /\ ~r.post[c] /\ \A d \in Cpus \ {c} : r.post[d] = s.post[d]
           /\ r.resched = s.resched /\ r.curr = s.curr /\ r.push = s.push /\ r.next = s.next
  <1>1. s \in States /\ c \in Cpus /\ FALSE \in BOOLEAN /\ r = Posted(s, c, FALSE)
    BY DEF Pushed, Posted
  <1>2. /\ r \in States
        /\ SameTasks(s, r) /\ SamePush(s, r) /\ SameLoad(s, r) /\ SameRest(s, r)
        /\ r.stray = s.stray /\ r.resched = s.resched
    BY ONLY <1>1, PostedFields
  <1>3. r.post = [s.post EXCEPT ![c] = FALSE] /\ s.post \in [Cpus -> BOOLEAN]
    BY DEF Pushed, States
  <1> QED BY <1>2, <1>3, SameKeeps DEF SamePush, SameLoad

LEMMA SwitchedIs ==
    ASSUME NEW s \in States, NEW c \in Cpus, NEW t \in Threads \cup {Idle, Stopper},
           NEW r, r = Switched(s, c, t)
    PROVE  /\ r \in States /\ Keeps(s, r)
           /\ r.curr[c] = t /\ \A d \in Cpus \ {c} : r.curr[d] = s.curr[d]
           /\ \A d \in Cpus \ {c} : r.resched[d] = s.resched[d]
           /\ r.post = s.post /\ r.push = s.push /\ r.next = s.next
  <1>1. /\ r \in States /\ r.curr = [s.curr EXCEPT ![c] = t]
        /\ r.home = s.home /\ r.onRq = s.onRq /\ r.prio = s.prio /\ r.mask = s.mask
        /\ SamePush(s, r) /\ SameLoad(s, r) /\ SameRest(s, r) /\ r.stray = s.stray
        /\ r.post = s.post
    BY SwitchedFields
  <1>2. r.resched = [s.resched EXCEPT ![c] = FALSE] /\ s.resched \in [Cpus -> BOOLEAN]
    BY DEF Switched, States
  <1>3. s.curr \in [Cpus -> Threads \cup {Idle, Stopper}]
    BY DEF States
  <1>4. r.curr[c] = t /\ \A d \in Cpus \ {c} : r.curr[d] = s.curr[d]
    BY <1>1, <1>3
  <1>5. \A d \in Cpus \ {c} : r.resched[d] = s.resched[d]
    BY <1>2
  <1> QED BY <1>1, <1>4, <1>5 DEF SamePush, SameLoad, Keeps

\* Only the running task makes way.
LEMMA CheckPreemptIs ==
    ASSUME NEW s \in States, NEW c \in Cpus, NEW t, NEW r \in CheckPreempt(s, c, t)
    PROVE  /\ r \in States /\ Keeps(s, r)
           /\ \A d \in Cpus : s.resched[d] => r.resched[d]
           /\ r.post = s.post /\ r.curr = s.curr /\ r.push = s.push /\ r.next = s.next
           /\ s.prio[t] < PrioOf(s, s.curr[c]) /\ s.prio[t] # FairPrio => r.resched[c]
  <1> DEFINE a == Resched(s, c)
  <1>1. r \in {s, a}
    BY DEF CheckPreempt
  <1>2. s.prio[t] < PrioOf(s, s.curr[c]) /\ s.prio[t] # FairPrio => r = a
    BY DEF CheckPreempt, PreemptsRt
  <1>3. /\ a \in States /\ Keeps(s, a)
        /\ a.resched[c] /\ \A d \in Cpus \ {c} : a.resched[d] = s.resched[d]
        /\ a.post = s.post /\ a.curr = s.curr /\ a.push = s.push /\ a.next = s.next
    BY ReschedIs
  <1>4. Keeps(s, s)
    BY DEF Keeps, SameRest
  <1> HIDE DEF a
  <1>5. CASE r = s
    BY <1>2, <1>3, <1>4, <1>5
  <1>6. CASE r = a
    BY <1>3, <1>6
  <1> QED BY <1>1, <1>5, <1>6

-----------------------------------------------------------------------------
(* Picking the next task *)

Elsewhere(s, r, c) ==
    \A d \in Cpus \ {c} : /\ r.curr[d] = s.curr[d] /\ r.next[d] = s.next[d]
                          /\ r.resched[d] = s.resched[d] /\ r.post[d] = s.post[d]

\* A queue b that differs from s in its list only.
LEMMA PickedFields ==
    ASSUME NEW s \in States, NEW c \in Cpus, NEW b \in States,
           SameTasks(s, b), SameLoad(s, b), SameRest(s, b), SameFlags(s, b), SameElsewhere(s, b, c),
           NEW t \in Threads \cup {Idle, Stopper}, NEW v, v = Switched(b, c, t)
    PROVE  /\ v \in States /\ Keeps(s, v) /\ Elsewhere(s, v, c)
           /\ v.curr[c] = t /\ v.post[c] = s.post[c] /\ v.push = b.push
           /\ \A on \in BOOLEAN : \A r : r = Posted(v, c, on) =>
                /\ Keeps(s, r) /\ Elsewhere(s, r, c)
                /\ r.curr[c] = t /\ r.post[c] = on /\ r.push = b.push
  <1>1. /\ v \in States /\ Keeps(b, v)
        /\ v.curr[c] = t /\ \A d \in Cpus \ {c} : v.curr[d] = b.curr[d]
        /\ \A d \in Cpus \ {c} : v.resched[d] = b.resched[d]
        /\ v.post = b.post /\ v.push = b.push /\ v.next = b.next
    BY SwitchedIs
  <1>2. b.curr = s.curr /\ b.resched = s.resched /\ b.post = s.post /\ Keeps(s, b)
        /\ \A d \in Cpus \ {c} : b.next[d] = s.next[d]
    BY SameKeeps DEF SameTasks, SameFlags, SameElsewhere, SameLoad
  <1>3. Keeps(s, v)
    BY <1>1, <1>2, KeepsTrans
  <1>4. /\ v.curr[c] = t /\ v.post[c] = s.post[c] /\ v.push = b.push
    BY <1>1, <1>2
  <1>5. Elsewhere(s, v, c)
    BY <1>1, <1>2 DEF Elsewhere
  <1>6. ASSUME NEW on \in BOOLEAN, NEW r, r = Posted(v, c, on)
        PROVE  /\ Keeps(s, r) /\ Elsewhere(s, r, c)
               /\ r.curr[c] = t /\ r.post[c] = on /\ r.push = b.push
    <2>1. /\ Keeps(v, r)
          /\ r.post[c] = on /\ \A d \in Cpus \ {c} : r.post[d] = v.post[d]
          /\ r.resched = v.resched /\ r.curr = v.curr /\ r.push = v.push /\ r.next = v.next
      BY <1>1, <1>6, PostedIs
    <2>2. Keeps(s, r)
      BY <1>3, <2>1, KeepsTrans
    <2>3. Elsewhere(s, r, c)
      BY <1>5, <2>1 DEF Elsewhere
    <2> QED BY <1>4, <2>1, <2>2, <2>3
  <1> QED BY <1>1, <1>3, <1>4, <1>5, <1>6

LEMMA PickIs ==
    ASSUME NEW s, NEW F, Sound(s, F), NEW c \in Cpus, NEW r \in Pick(s, c)
    PROVE  /\ Keeps(s, r) /\ Elsewhere(s, r, c)
           /\ \/ r.curr[c] = Stopper /\ r.post[c] = s.post[c]
              \/ /\ r.curr[c] \in RtQueued(s, c) /\ s.prio[r.curr[c]] = Highest(s, c)
                 /\ r.post[c] <=> r.push[c] # <<>>
              \/ RtQueued(s, c) = {} /\ ~r.post[c]
  <1> DEFINE b == PutPrev(s, c)
  <1>1. /\ s \in States /\ b \in States
        /\ SameTasks(s, b) /\ SameLoad(s, b) /\ SameRest(s, b) /\ SameFlags(s, b)
        /\ PushList(b, c, RtMovable(s, c)) /\ SameElsewhere(s, b, c)
    BY PutPrevList DEF Sound, Exact
  <1>2. RtQueued(b, c) = RtQueued(s, c) /\ Highest(b, c) = Highest(s, c) /\ Queued(b, c) = Queued(s, c)
        /\ b.prio = s.prio
    BY <1>1, SameTasksSameQueues DEF SameTasks
  <1> HIDE DEF b
  <1>3. Queued(s, c) \subseteq Threads /\ RtQueued(s, c) \subseteq Threads
    BY DEF Queued, RtQueued
  <1> DEFINE best == {t \in RtQueued(b, c) : b.prio[t] = Highest(b, c)}
  <1>4. \/ r = Switched(b, c, Stopper)
        \/ \E t \in best : LET v == PushOff(b, c, t)
                           IN r = Posted(Switched(v, c, t), c, v.push[c] # <<>>)
        \/ /\ best = {}
           /\ \E t \in Threads \cup {Idle, Stopper} : r = Posted(Switched(b, c, t), c, FALSE)
    BY <1>2, <1>3 DEF Pick, b, Posted
  <1>5. CASE r = Switched(b, c, Stopper)
    BY <1>1, <1>5, PickedFields
  <1>6. ASSUME NEW t \in best, NEW v, v = PushOff(b, c, t),
               r = Posted(Switched(v, c, t), c, v.push[c] # <<>>)
        PROVE  /\ Keeps(s, r) /\ Elsewhere(s, r, c)
               /\ r.curr[c] = t /\ (r.post[c] <=> r.push[c] # <<>>)
    <2>1. t \in Threads
      BY <1>2, <1>3
    <2>2. /\ v \in States
          /\ SameTasks(b, v) /\ SameLoad(b, v) /\ SameRest(b, v) /\ SameFlags(b, v)
          /\ SameElsewhere(b, v, c)
      BY <1>1, <1>6, <2>1, PushOffList
    <2>3. /\ SameTasks(s, v) /\ SameLoad(s, v) /\ SameRest(s, v) /\ SameFlags(s, v)
          /\ SameElsewhere(s, v, c)
      BY <1>1, <2>2 DEF SameTasks, SameLoad, SameRest, SameFlags, SameElsewhere
    <2> DEFINE g == Switched(v, c, t)
               on == v.push[c] # <<>>
    <2>4. on \in BOOLEAN /\ r = Posted(g, c, on)
      BY <1>6
    <2>5. \A o \in BOOLEAN : \A u : u = Posted(g, c, o) =>
                /\ Keeps(s, u) /\ Elsewhere(s, u, c)
                /\ u.curr[c] = t /\ u.post[c] = o /\ u.push = v.push
      BY <1>1, <2>1, <2>2, <2>3, PickedFields
    <2>6. /\ Keeps(s, r) /\ Elsewhere(s, r, c)
          /\ r.curr[c] = t /\ r.post[c] = on /\ r.push = v.push
      BY <2>4, <2>5
    <2> QED BY <2>6
  <1>7. ASSUME best = {}, NEW t \in Threads \cup {Idle, Stopper}, r = Posted(Switched(b, c, t), c, FALSE)
        PROVE  Keeps(s, r) /\ Elsewhere(s, r, c) /\ RtQueued(s, c) = {} /\ ~r.post[c]
    <2>1. RtQueued(s, c) = {}
      BY <1>1, <1>2, <1>7, HighestIs
    <2> DEFINE g == Switched(b, c, t)
    <2>2. \A o \in BOOLEAN : \A u : u = Posted(g, c, o) =>
                /\ Keeps(s, u) /\ Elsewhere(s, u, c)
                /\ u.curr[c] = t /\ u.post[c] = o /\ u.push = b.push
      BY <1>1, PickedFields
    <2>3. /\ Keeps(s, r) /\ Elsewhere(s, r, c) /\ r.post[c] = FALSE
      BY <1>7, <2>2
    <2> QED BY <2>1, <2>3
  <1>8. \A t \in best : t \in RtQueued(s, c) /\ s.prio[t] = Highest(s, c)
    BY <1>2
  <1> HIDE DEF best
  <1> QED BY <1>4, <1>5, <1>6, <1>7, <1>8

\* As quiet as can be while processor c is about to choose.
QuietBut(s, x, c) ==
    /\ \A d \in s.up \ {c} : Urgent(s, d) => Attended(s, x, d)
    /\ \A q \in Cpus \ {c} : \A d \in Cpus :
          q # d /\ s.online[q] /\ s.online[d] => Offered(s, x, q, d)

LEMMA PrioOfTasks ==
    ASSUME NEW s \in States
    PROVE  /\ PrioOf(s, Stopper) = 0
           /\ \A t \in Threads : PrioOf(s, t) = s.prio[t] /\ t # Stopper /\ t # Idle
                                 /\ s.prio[t] \in 1 .. FairPrio
           /\ \A t \in Threads \cup {Idle, Stopper} : PrioOf(s, t) \in 0 .. FairPrio + 1
  <1>1. \A t \in Threads : t # Stopper /\ t # Idle
    BY ThreadAssumption
  <1>2. s.prio \in [Threads -> 1 .. FairPrio] /\ FairPrio \in Nat
    BY ThreadAssumption DEF States
  <1> QED BY <1>1, <1>2 DEF PrioOf

\* What it chooses is the most urgent, or it was told to stop; and it will push what
\* is left.
LEMMA PickCalm ==
    ASSUME NEW s, NEW F, Sound(s, F), NEW c \in Cpus, NEW r \in Pick(s, c), ~s.post[c],
           NEW x, Plain(s, x), QuietBut(s, x, c), x[c].at = "none", s.up \subseteq Cpus
    PROVE  Calm(r, x)
  <1>1. Sound(r, F \ {c}) /\ Exact(r) /\ r \in States /\ s \in States /\ Exact(s)
    BY PickSound DEF Sound, Exact
  <1>2. /\ Keeps(s, r) /\ Elsewhere(s, r, c)
        /\ \/ r.curr[c] = Stopper /\ r.post[c] = s.post[c]
           \/ /\ r.curr[c] \in RtQueued(s, c) /\ s.prio[r.curr[c]] = Highest(s, c)
              /\ r.post[c] <=> r.push[c] # <<>>
           \/ RtQueued(s, c) = {} /\ ~r.post[c]
    BY PickIs
  <1>3. /\ r.up = s.up /\ r.online = s.online /\ r.stops = s.stops /\ r.stray = s.stray
        /\ r.prio = s.prio
    BY <1>2 DEF Keeps, SameRest
  <1>4. \A d \in Cpus : Highest(r, d) = Highest(s, d) /\ RtQueued(r, d) = RtQueued(s, d)
                        /\ Highest(s, d) \in 1 .. FairPrio
    BY <1>1, <1>2, KeepsAll, HighestIs
  <1>5. \A t \in RtQueued(s, c) : t \in Threads /\ s.prio[t] < FairPrio
    BY DEF RtQueued, Queued
  <1>6. \A t : PrioOf(r, t) = PrioOf(s, t)
    BY <1>2, KeepsAll
  <1>7. \A d \in Cpus \ {c} : Urgent(r, d) <=> Urgent(s, d)
    BY <1>2, <1>4, <1>6 DEF Urgent, Elsewhere
  <1>8. RtQueued(s, c) = {} => Highest(s, c) = FairPrio
    <2>1. ASSUME RtQueued(s, c) = {} PROVE {s.prio[t] : t \in RtQueued(s, c)} \cup {FairPrio} = {FairPrio}
      BY <2>1
    <2>2. Min({FairPrio}) = FairPrio
      BY ThreadAssumption DEF Min
    <2> QED BY <2>1, <2>2 DEF Highest
  <1>9. ~Urgent(r, c)
    BY <1>1, <1>2, <1>3, <1>4, <1>5, <1>8, PrioOfTasks DEF Urgent
  <1>10. ~Choosing(x[c])
    BY DEF Choosing
  <1>11. Plain(r, x)
    <2>1. r.post[c] => r.curr[c] \in Threads /\ r.prio[r.curr[c]] < FairPrio
      BY <1>2, <1>3, <1>5
    <2> QED BY <1>2, <1>3, <1>10, <2>1 DEF Plain, Elsewhere
  <1>12. ASSUME NEW d \in r.up, Urgent(r, d) PROVE Attended(r, x, d)
    <2>1. d \in Cpus \ {c} /\ d \in s.up /\ Urgent(s, d)
      BY <1>3, <1>7, <1>9, <1>12
    <2>2. Attended(s, x, d)
      BY <2>1 DEF QuietBut
    <2> QED BY <1>2, <2>1, <2>2 DEF Attended, Elsewhere
  <1>13. ASSUME NEW q \in Cpus, NEW d \in Cpus, q # d, r.online[q], r.online[d],
                r.next[q] < Highest(r, d)
         PROVE  Pushes(r, x, q) \/ Pulling(x, d, q)
    <2>1. CASE q = c
      <3>1. r.next[c] < FairPrio
        <4>1. r.next[c] \in 1 .. FairPrio
          BY <1>1, NextIs
        <4>2. Highest(r, d) \in 1 .. FairPrio
          BY <1>4
        <4> QED BY <1>13, <2>1, <4>1, <4>2, ThreadAssumption
      <3>2. Pushable(r, c) # {} /\ RtQueued(s, c) # {} /\ r.push[c] # <<>>
        BY <1>1, <1>4, <3>1, NextLeast, NextIs
      <3>3. r.curr[c] = Stopper \/ r.post[c]
        BY <1>2, <3>2
      <3> QED BY <2>1, <3>3 DEF Pushes, Yields
    <2>2. CASE q # c
      <3>1. Offered(s, x, q, d)
        BY <1>3, <1>13, <2>2 DEF QuietBut
      <3>2. s.next[q] < Highest(s, d)
        BY <1>2, <1>4, <1>13, <2>2 DEF Elsewhere
      <3>3. Pushes(s, x, q) \/ Pulling(x, d, q)
        BY <3>1, <3>2 DEF Offered
      <3> QED BY <1>2, <1>7, <2>2, <3>3 DEF Pushes, Yields, Elsewhere
    <2> QED BY <2>1, <2>2
  <1>14. Quiet(r, x)
    BY <1>12, <1>13 DEF Quiet, Offered
  <1> QED BY <1>11, <1>14 DEF Calm

-----------------------------------------------------------------------------
(* Pushing *)

\* A queue that is not overloaded, and on which a task waits, will run it.
LEMMA Alone ==
    ASSUME NEW s, NEW F, Sound(s, F), NEW x, \A b \in F : Choosing(x[b]),
           NEW c \in Cpus, ~s.over[c], Pushable(s, c) # {}
    PROVE  Yields(s, x, c)
  <1> DEFINE Q == RtQueued(s, c)
  <1>1. Exact(s) /\ s \in States /\ Load(s, c)
    BY DEF Sound, Exact
  <1>2. PICK t \in Pushable(s, c) : TRUE
    OBVIOUS
  <1>3. /\ t \in Q /\ t \in Threads /\ s.prio[t] < FairPrio /\ s.curr[c] # t
        /\ t \in RtMovable(s, c) /\ RtMovable(s, c) \subseteq Q
    BY <1>2 DEF Pushable, RtMovable, RtQueued, Queued
  <1>4. Cardinality(Q) <= 1
    <2>1. /\ IsFiniteSet(Q) /\ Cardinality(Q) \in Nat
          /\ IsFiniteSet(RtMovable(s, c)) /\ Cardinality(RtMovable(s, c)) \in Nat
      BY FiniteQueues
    <2>2. Cardinality(RtMovable(s, c)) # 0
      BY <1>3, <2>1, FS_EmptySet
    <2>3. s.mig[c] = Cardinality(RtMovable(s, c)) /\ ~(s.mig[c] > 0 /\ Cardinality(Q) > 1)
      BY <1>1 DEF Load
    <2> QED BY <2>1, <2>2, <2>3
  <1>5. ASSUME NEW u \in Q PROVE u = t
    <2>1. IsFiniteSet(Q) /\ Cardinality(Q) \in Nat
      BY FiniteQueues
    <2>2. /\ IsFiniteSet(Q \ {t}) /\ Cardinality(Q \ {t}) = Cardinality(Q) - 1
          /\ Cardinality(Q \ {t}) \in Nat
      BY <1>3, <2>1, FS_RemoveElement, FS_CardinalityType
    <2>3. Cardinality(Q \ {t}) = 0
      BY <1>4, <2>1, <2>2
    <2>4. Q \ {t} = {}
      BY <2>2, <2>3, FS_EmptySet
    <2> QED BY <1>5, <2>4
  <1>6. Highest(s, c) = s.prio[t] /\ s.prio[t] \in 1 .. FairPrio
    <2>1. \E u \in Q : s.prio[u] = Highest(s, c)
      BY <1>1, <1>3, HighestIs
    <2> QED BY <1>1, <1>5, <2>1, HighestIs DEF States
  <1> DEFINE run == s.curr[c]
  <1>7. run \in Threads \cup {Idle, Stopper}
    BY <1>1 DEF States
  <1>8. CASE run \in {Idle, Stopper}
    <2>1. run = Stopper \/ PrioOf(s, run) = FairPrio + 1
      BY <1>8 DEF PrioOf
    <2> QED BY <1>3, <1>6, <1>8, <2>1, ThreadAssumption DEF Yields, Urgent
  <1>9. CASE run \in Threads /\ s.prio[run] = FairPrio
    <2>1. PrioOf(s, run) = FairPrio
      BY <1>1, <1>9, PrioOfTasks
    <2> QED BY <1>3, <1>6, <2>1 DEF Yields, Urgent
  <1>10. CASE run \in Threads /\ s.prio[run] # FairPrio
    <2>1. s.prio[run] < FairPrio
      <3>1. s.prio[run] \in 1 .. FairPrio
        BY <1>1, <1>10 DEF States
      <3> QED BY <1>10, <3>1, ThreadAssumption
    <2>2. s.home[run] = c /\ (c \notin F => s.onRq[run])
      BY <1>10 DEF Sound, OnOwn
    <2>3. s.onRq[run] => run \in Q
      BY <1>10, <2>1, <2>2 DEF RtQueued, Queued
    <2>4. c \in F
      BY <1>3, <1>5, <2>2, <2>3
    <2> QED BY <2>4 DEF Yields
  <1> QED BY <1>7, <1>8, <1>9, <1>10

\* What a task may do that can move at all.
Roaming(s) == \A t \in Threads : Movable(s, t) => s.mask[t] = Cpus

\* Nothing is more urgent to do for the tasks of q than what runs elsewhere.
NoneFor(s, q) == \A d \in Cpus : s.online[d] => ~(s.next[q] < Highest(s, d))

\* find_lowest_rq only names processors whose queue is online.
LEMMA LowestOnline ==
    ASSUME NEW s, Exact(s), NEW t \in Threads, NEW d \in FindLowest(s, t), d # 0
    PROVE  d \in Cpus /\ s.online[d]
  <1>1. s \in States /\ s.mask[t] \subseteq Cpus /\ s.prio[t] \in 1 .. FairPrio
    BY DEF Exact, States
  <1>2. \A e \in Cpus : ~s.online[e] => s.pri[e] = 0
    BY DEF Exact, Load
  <1>3. d \in CpupriFind(s, t)
    BY DEF FindLowest
  <1>4. d \in Cpus /\ s.pri[d] > s.prio[t]
    BY <1>1, <1>3 DEF CpupriFind
  <1> QED BY <1>1, <1>2, <1>4

\* When find_lowest_rq finds none for the first task, or its own processor.
LEMMA NoTarget ==
    ASSUME NEW s, Exact(s), Roaming(s), NEW q \in Cpus, s.push[q] # <<>>,
           NEW t, t = Head(s.push[q])
    PROVE  /\ t \in Pushable(s, q) /\ s.next[q] = s.prio[t]
           /\ \A d \in FindLowest(s, t) : /\ d \in {0, q} => NoneFor(s, q)
                                          /\ d \notin {0, q} => d \in Cpus /\ s.online[d]
  <1>1. s \in States /\ Load(s, q) /\ q # 0 /\ 0 \notin Cpus
    BY CpuAssumption DEF Exact
  <1>2. t \in Pushable(s, q) /\ s.next[q] = s.prio[t]
    BY NextIs
  <1> SUFFICES ASSUME NEW d \in FindLowest(s, t)
               PROVE  /\ d \in {0, q} => NoneFor(s, q)
                      /\ d \notin {0, q} => d \in Cpus /\ s.online[d]
    BY <1>2
  <1>3. t \in RtQueued(s, q) /\ t \in Threads /\ s.home[t] = q /\ Movable(s, t) /\ s.prio[t] < FairPrio
    BY <1>2 DEF Pushable, RtMovable, RtQueued, Queued
  <1>4. s.mask[t] = Cpus
    BY <1>3 DEF Roaming
  <1>5. Highest(s, q) <= s.prio[t] /\ s.prio[t] \in 1 .. FairPrio /\ Highest(s, q) \in 1 .. FairPrio
    BY <1>1, <1>3, HighestIs DEF States
  <1>6. \A e \in Cpus : /\ Load(s, e) /\ s.pri[e] \in 0 .. FairPrio
                        /\ s.online[e] => s.pri[e] = Highest(s, e)
                        /\ ~s.online[e] => s.pri[e] = 0
    BY <1>1 DEF Exact, Load, States
  <1> DEFINE low == CpupriFind(s, t)
  <1>7. \A e \in low : e \in Cpus /\ s.pri[e] > s.prio[t] /\ s.online[e]
    <2>1. \A e \in low : e \in Cpus /\ s.pri[e] > s.prio[t]
      BY <1>4 DEF CpupriFind
    <2> QED BY <1>5, <1>6, <2>1
  <1>8. q \notin low
    BY <1>5, <1>6, <1>7
  <1>9. CASE low = {}
    <2>1. d = 0
      BY <1>9 DEF FindLowest
    <2>2. ASSUME NEW e \in Cpus, s.online[e], s.next[q] < Highest(s, e) PROVE FALSE
      <3> DEFINE P == {s.pri[a] : a \in {b \in Cpus : s.pri[b] > s.prio[t]}}
      <3>1. s.pri[e] > s.prio[t]
        BY <1>2, <1>5, <1>6, <2>2
      <3>2. P \subseteq 1 .. FairPrio /\ P # {}
        BY <1>5, <1>6, <3>1
      <3>3. Max(P) \in P /\ \A p \in P : Max(P) >= p
        <4> HIDE DEF P
        <4>1. P \in (SUBSET (1 .. FairPrio)) \ {{}}
          BY <3>2
        <4> QED BY <4>1, MostOf
      <3>4. PICK a \in Cpus : s.pri[a] > s.prio[t] /\ s.pri[a] = Max(P)
        BY <3>3
      <3>5. \A b \in Cpus : s.pri[b] > s.prio[t] => s.pri[a] >= s.pri[b]
        BY <3>3, <3>4
      <3>6. ASSUME NEW b \in Cpus PROVE s.pri[b] <= s.pri[a]
        <4>1. s.pri[a] \in Int /\ s.pri[b] \in Int /\ s.prio[t] \in Int
          BY <1>5, <1>6
        <4> QED BY <3>4, <3>5, <4>1
      <3>7. a \in low
        BY <1>4, <3>4, <3>6 DEF CpupriFind
      <3> QED BY <1>9, <3>7
    <2> QED BY <1>2, <2>1, <2>2 DEF NoneFor
  <1>10. CASE low # {}
    <2>1. d \in low
      BY <1>3, <1>8, <1>10 DEF FindLowest
    <2> QED BY <1>1, <1>2, <1>7, <1>8, <2>1
  <1> QED BY <1>9, <1>10

\* The tasks of q that wait have nowhere to go, or q will choose again.
Rests(s, x, q) == \A d \in Cpus : d # q /\ s.online[d] /\ s.next[q] < Highest(s, d) => Yields(s, x, q)

\* What a push of queue q has come to: its end, or the lock of an online processor.
PushTo(s, x, q, r) ==
    \/ r.task = NoOne /\ r.s \in {s, Resched(s, q)} /\ Rests(r.s, x, q)
    \/ r.task # NoOne /\ r.s = s /\ r.dest \in Cpus /\ s.online[r.dest]

LEMMA NoneRests ==
    ASSUME NEW s, NEW x, NEW q, NoneFor(s, q)
    PROVE  Rests(s, x, q)
  BY DEF NoneFor, Rests

LEMMA EmptyRests ==
    ASSUME NEW s, Exact(s), NEW x, NEW q \in Cpus, s.push[q] = <<>>
    PROVE  Rests(s, x, q)
  <1>1. s.next[q] = FairPrio
    BY NextIs
  <1>2. \A d \in Cpus : Highest(s, d) \in 1 .. FairPrio
    BY HighestIs DEF Exact
  <1> QED BY <1>1, <1>2, ThreadAssumption DEF Rests

LEMMA PushNextEnds ==
    ASSUME NEW s, NEW F, Sound(s, F), Roaming(s), NEW x, NEW q \in Cpus, s.push[q] # <<>>,
           NEW r \in PushNext(s, q)
    PROVE  PushTo(s, x, q, r)
  <1> DEFINE t == Head(s.push[q])
  <1>1. Exact(s) /\ s \in States
    BY DEF Sound, Exact
  <1>2. t \in Pushable(s, q)
    BY <1>1, NextIs
  <1>3. t \in Threads /\ t # s.curr[q] /\ t # NoOne
    BY <1>2, ThreadAssumption DEF Pushable, RtMovable, RtQueued, Queued
  <1> DEFINE v == Resched(s, q)
  <1>4. \/ r = Done(v)
        \/ \E d \in FindLowest(s, t) : d \in {0, q} /\ r = Done(s)
        \/ \E d \in FindLowest(s, t) : d \notin {0, q} /\ r = Locking(s, t, d, 0)
    BY <1>3 DEF PushNext
  <1>5. t = Head(s.push[q])
    OBVIOUS
  <1> HIDE DEF t, v
  <1>6. \A d \in FindLowest(s, t) :
          /\ d \in {0, q} => NoneFor(s, q)
          /\ d \notin {0, q} => d \in Cpus /\ s.online[d]
    BY ONLY <1>5, <1>1, Roaming(s), q \in Cpus, s.push[q] # <<>>, NoTarget
  <1>7. CASE r = Done(v)
    <2>1. v.resched[q]
      BY <1>1, ReschedIs DEF v
    <2>2. Rests(v, x, q)
      BY <2>1 DEF Rests, Yields
    <2>3. r.s = v /\ r.task = NoOne
      BY <1>7 DEF Done
    <2> QED BY <2>2, <2>3 DEF PushTo, v
  <1>8. ASSUME NEW d \in FindLowest(s, t), d \in {0, q}, r = Done(s) PROVE PushTo(s, x, q, r)
    <2> QED BY <1>8, <1>6, NoneRests DEF Done, PushTo
  <1>9. ASSUME NEW d \in FindLowest(s, t), d \notin {0, q}, r = Locking(s, t, d, 0)
        PROVE  PushTo(s, x, q, r)
    <2> QED BY <1>3, <1>9, <1>6 DEF Locking, PushTo
  <1> QED BY <1>4, <1>7, <1>8, <1>9

\* push_rt_tasks, from its start.
LEMMA PushStartEnds ==
    ASSUME NEW s, NEW F, Sound(s, F), Roaming(s), NEW x, \A b \in F : Choosing(x[b]),
           NEW q \in Cpus, NEW r \in PushStart(s, q)
    PROVE  PushTo(s, x, q, r)
  <1>1. Exact(s)
    BY DEF Sound
  <1>2. CASE ~s.over[q] \/ s.push[q] = <<>>
    <2>1. r.s = s /\ r.task = NoOne
      BY <1>2 DEF PushStart, Done
    <2>2. Rests(s, x, q)
      <3>1. CASE s.push[q] = <<>>
        BY <1>1, <3>1, EmptyRests
      <3>2. CASE s.push[q] # <<>>
        <4>1. Pushable(s, q) # {}
          BY <1>1, <3>2, NextIs
        <4>2. Yields(s, x, q)
          BY <1>2, <3>2, <4>1, Alone
        <4> QED BY <4>2 DEF Rests
      <3> QED BY <3>1, <3>2
    <2> QED BY <2>1, <2>2 DEF PushTo
  <1>3. CASE ~(~s.over[q] \/ s.push[q] = <<>>)
    <2>1. r \in PushNext(s, q) /\ s.push[q] # <<>>
      BY <1>3 DEF PushStart
    <2> QED BY <2>1, PushNextEnds
  <1> QED BY <1>2, <1>3

\* push_rt_task when nothing could be done for task t: it goes on with another one,
\* and if t is still the first, there is nothing for it.
LEMMA PushFailedEnds ==
    ASSUME NEW s, NEW F, Sound(s, F), Roaming(s), NEW x, NEW q \in Cpus, NEW t,
           s.push[q] # <<>> /\ s.home[t] = q /\ Head(s.push[q]) = t => NoneFor(s, q),
           NEW r \in PushFailed(s, q, t)
    PROVE  PushTo(s, x, q, r)
  <1>1. Exact(s)
    BY DEF Sound
  <1>2. CASE s.push[q] = <<>> \/ (s.home[t] = q /\ Head(s.push[q]) = t)
    <2>1. r.s = s /\ r.task = NoOne
      BY <1>2 DEF PushFailed, Done
    <2>2. Rests(s, x, q)
      BY <1>1, <1>2, EmptyRests, NoneRests
    <2> QED BY <2>1, <2>2 DEF PushTo
  <1>3. CASE ~(s.push[q] = <<>> \/ (s.home[t] = q /\ Head(s.push[q]) = t))
    <2>1. r \in PushNext(s, q) /\ s.push[q] # <<>>
      BY <1>3 DEF PushFailed
    <2> QED BY <2>1, PushNextEnds
  <1> QED BY <1>2, <1>3

\* Like s but for the flags: more processors are to choose, and c may have pushed.
Follows(s, r, c) ==
    /\ Keeps(s, r) /\ r.curr = s.curr /\ r.next = s.next
    /\ \A d \in Cpus : s.resched[d] => r.resched[d]
    /\ \A d \in Cpus : r.post[d] => s.post[d]
    /\ \A d \in Cpus \ {c} : s.post[d] => r.post[d]

LEMMA FollowsView ==
    ASSUME NEW s, NEW r, NEW c, Follows(s, r, c)
    PROVE  /\ \A d \in Cpus : SameView(s, r, d) /\ (Urgent(r, d) <=> Urgent(s, d))
           /\ r.up = s.up /\ r.online = s.online /\ r.stops = s.stops /\ r.stray = s.stray
           /\ r.prio = s.prio
  <1>1. \A d \in Cpus : Highest(r, d) = Highest(s, d) /\ \A t : PrioOf(r, t) = PrioOf(s, t)
    BY KeepsAll DEF Follows
  <1>2. \A d \in Cpus : SameView(s, r, d)
    BY <1>1 DEF SameView, Follows
  <1> QED BY <1>2 DEF SameView, Urgent, Follows, Keeps, SameRest

LEMMA FollowsPlain ==
    ASSUME NEW s, NEW x, Plain(s, x), NEW c \in Cpus, NEW r, Follows(s, r, c),
           NEW z, ButFor(x, z, c), z[c].then \notin {"to", "from"}, ~Choosing(z[c])
    PROVE  Plain(r, z)
  <1>1. r.stops = s.stops /\ r.stray = s.stray /\ r.prio = s.prio /\ r.curr = s.curr
    BY FollowsView DEF Follows
  <1>2. \A d \in Cpus : r.post[d] => s.post[d]
    BY DEF Follows
  <1> QED BY <1>1, <1>2 DEF Plain, ButFor

\* A push of queue q by c ends, or waits for a lock.
LEMMA PushRunsCalm ==
    ASSUME NEW s \in States, DOMAIN ctx = Cpus, NEW c \in Cpus, NEW q \in Cpus,
           NEW z, ButFor(ctx, z, c), z[c].at = "push", z[c].q = q, Calm(s, z),
           NEW y \in Contexts, y.q = q, y.then \in {"post", "woken"}, y.then = "post" => q = c,
           NEW r, PushTo(s, z, q, r), PushRuns(c, y, r)
    PROVE  Calm(k', ctx') /\ Keeps(s, k') /\ k'.curr = s.curr
  <1>1. Plain(s, z) /\ Quiet(s, z) /\ s.up \subseteq Cpus
    BY DEF Calm, States
  <1>2. CASE r.task # NoOne
    <2> DEFINE g == [y EXCEPT !.at = "push", !.task = r.task, !.dest = r.dest, !.tries = r.tries]
    <2>1. k' = s /\ ctx' = [ctx EXCEPT ![c] = g]
      BY <1>2 DEF PushRuns, PushTo, Leave
    <2>2. g.at = "push" /\ g.q = q /\ g.then = y.then
      BY DEF Contexts
    <2> HIDE DEF g
    <2>3. ctx'[c] = g /\ ButFor(z, ctx', c)
      BY <2>1 DEF ButFor
    <2>4. Carries(z, ctx')
      BY <1>1, <2>2, <2>3, NoneLost
    <2>5. Follows(s, k', c)
      BY <2>1 DEF Follows, Keeps, SameRest
    <2>6. Plain(k', ctx')
      <3>1. g.then \notin {"to", "from"} /\ ~Choosing(g)
        BY <2>2 DEF Choosing
      <3> QED BY <1>1, <2>3, <2>5, <3>1, FollowsPlain
    <2>7. Quiet(k', ctx')
      <3>1. \A d \in Cpus : SameView(s, k', d)
        BY <2>5, FollowsView
      <3> QED BY <1>1, <2>1, <2>4, <3>1, QuietKept
    <2> QED BY <2>5, <2>6, <2>7 DEF Calm, Follows
  <1>3. CASE r.task = NoOne
    <2> DEFINE u == r.s
    <2>1. u \in {s, Resched(s, q)} /\ Rests(u, z, q) /\ k' \in Ends(u, c, y, r.moved)
          /\ ctx' = [ctx EXCEPT ![c] = NoCtx]
      BY <1>3 DEF PushRuns, PushTo, Leave
    <2> HIDE DEF u
    <2>2. u \in States /\ Follows(s, u, c)
      <3>1. CASE u = s
        BY <3>1 DEF Follows, Keeps, SameRest
      <3>2. CASE u = Resched(s, q)
        <4>1. s \in States
          BY <1>1
        <4>2. /\ u \in States /\ Keeps(s, u)
              /\ u.resched[q] /\ \A d \in Cpus \ {q} : u.resched[d] = s.resched[d]
              /\ u.post = s.post /\ u.curr = s.curr /\ u.next = s.next
          BY ONLY <3>2, <4>1, q \in Cpus, ReschedIs
        <4> QED BY <4>2 DEF Follows
      <3> QED BY <2>1, <3>1, <3>2
    <2>3. k' \in {u, Pushed(u, c)} /\ (y.then = "woken" => k' = u)
      <3>1. CASE y.then = "post"
        <4>1. Ends(u, c, y, r.moved) = {Pushed(u, c)}
          BY <3>1, Zenon DEF Ends, Pushed
        <4> QED BY <2>1, <3>1, <4>1
      <3>2. CASE y.then = "woken"
        <4>1. Ends(u, c, y, r.moved) = {u}
          BY <3>2, Zenon DEF Ends
        <4> QED BY <2>1, <3>2, <4>1
      <3> QED BY <3>1, <3>2
    <2>4. /\ Follows(s, k', c)
          /\ y.then = "woken" => k'.post = u.post
          /\ k'.next = u.next /\ k'.curr = u.curr /\ k'.resched = u.resched /\ Keeps(u, k')
      <3>1. CASE k' = u
        BY <2>2, <3>1 DEF Keeps, SameRest
      <3>2. CASE k' = Pushed(u, c) /\ y.then # "woken"
        <4>1. /\ Keeps(u, k')
              /\ ~k'.post[c] /\ \A d \in Cpus \ {c} : k'.post[d] = u.post[d]
              /\ k'.resched = u.resched /\ k'.curr = u.curr /\ k'.next = u.next
          BY <2>2, <3>2, PushedIs
        <4>2. Keeps(s, k')
          BY <2>2, <4>1, KeepsTrans DEF Follows
        <4> QED BY <2>2, <3>2, <4>1, <4>2 DEF Follows
      <3> QED BY <2>3, <3>1, <3>2
    <2>5. y.then = "woken" => \A d \in Cpus : s.post[d] => k'.post[d]
      <3>1. \A d \in Cpus : s.post[d] => u.post[d]
        <4>1. CASE u = s
          BY <4>1
        <4>2. CASE u = Resched(s, q)
          <5>1. s \in States
            BY <1>1
          <5>2. u.post = s.post
            BY ONLY <4>2, <5>1, q \in Cpus, ReschedIs
          <5> QED BY <5>2
        <4> QED BY <2>1, <4>1, <4>2
      <3> QED BY <2>4, <3>1
    <2>6. ctx'[c] = NoCtx /\ ButFor(z, ctx', c)
      BY <2>1 DEF ButFor
    <2>7. NoCtx.then \notin {"to", "from"} /\ ~Choosing(NoCtx)
      BY DEF NoCtx, Choosing
    <2>8. Plain(k', ctx')
      BY <1>1, <2>4, <2>6, <2>7, FollowsPlain
    <2>9. /\ \A d \in Cpus : SameView(s, k', d) /\ (Urgent(k', d) <=> Urgent(s, d))
          /\ k'.up = s.up /\ k'.online = s.online
      BY <2>4, FollowsView
    <2>10. /\ \A p : Pushing(z, p) => Pushing(ctx', p) \/ p = q
           /\ \A d, p : Pulling(z, d, p) => Pulling(ctx', d, p)
           /\ \A p, g : Lowering(z, p, g) => Lowering(ctx', p, g)
           /\ \A d \in Cpus : Choosing(z[d]) => Choosing(ctx'[d])
      <3>1. z[c].at # "pull"
        OBVIOUS
      <3>2. \A p : Pushing(z, p) => Pushing(ctx', p) \/ p = q
        BY <2>6, <3>1, ContextLeft
      <3>3. \A d, p : Pulling(z, d, p) => Pulling(ctx', d, p)
        BY <2>6, <3>1, ContextLeft
      <3>4. \A p, g : Lowering(z, p, g) => Lowering(ctx', p, g)
        BY <2>6, <3>1, ContextLeft
      <3>5. \A d \in Cpus : Choosing(z[d]) => Choosing(ctx'[d])
        BY <2>6, <3>1 DEF Choosing, ButFor
      <3> QED BY <3>2, <3>3, <3>4, <3>5
    <2>11. \A d \in Cpus : Yields(s, z, d) \/ Yields(u, z, d) => Yields(k', ctx', d)
      <3>1. \A d \in Cpus : Urgent(u, d) <=> Urgent(s, d)
        BY <2>2, FollowsView
      <3> QED BY <2>2, <2>4, <2>9, <2>10, <3>1 DEF Yields, Follows
    <2>12. ASSUME NEW d \in k'.up, Urgent(k', d) PROVE Attended(k', ctx', d)
      <3>1. d \in Cpus /\ Attended(s, z, d)
        BY <1>1, <2>9, <2>12 DEF Quiet
      <3> QED BY <2>4, <2>10, <3>1 DEF Attended, Follows
    <2>13. ASSUME NEW p \in Cpus, NEW d \in Cpus, p # d, k'.online[p], k'.online[d],
                  k'.next[p] < Highest(k', d)
           PROVE  Pushes(k', ctx', p) \/ Pulling(ctx', d, p)
      <3>1. CASE p = q
        <4>1. u.online = s.online /\ Highest(u, d) = Highest(s, d) /\ Highest(k', d) = Highest(s, d)
              /\ u.next = k'.next
          BY <2>2, <2>4, <2>9, FollowsView DEF SameView
        <4>2. Yields(u, z, q)
          BY <2>1, <2>9, <2>13, <3>1, <4>1 DEF Rests
        <4> QED BY <2>11, <3>1, <4>2 DEF Pushes
      <3>2. CASE p # q
        <4>1. Pushes(s, z, p) \/ Pulling(z, d, p)
          BY <1>1, <2>9, <2>13 DEF Quiet, Offered, SameView
        <4>2. s.post[p] => k'.post[p]
          BY <2>4, <2>5, <3>2 DEF Follows
        <4> QED BY <2>10, <2>11, <3>2, <4>1, <4>2 DEF Pushes
      <3> QED BY <3>1, <3>2
    <2>14. Quiet(k', ctx')
      BY <2>12, <2>13 DEF Quiet, Offered
    <2> QED BY <2>4, <2>8, <2>14 DEF Calm, Follows
  <1> QED BY <1>2, <1>3

-----------------------------------------------------------------------------
(* Pulling *)

\* The queues that a pull does not lock are not overloaded, or have nothing for it.
LEMMA PullNextIs ==
    ASSUME NEW s, Exact(s), NEW q, NEW d, NEW e, e = PullNext(s, q, d)
    PROVE  /\ e = 0 \/ (e \in Cpus /\ e > d)
           /\ \A p \in Cpus : /\ p # q /\ p > d /\ s.next[p] < Highest(s, q)
                              /\ e = 0 \/ ~(e <= p)
                              => p \notin s.rto
  <1> DEFINE rich == {f \in s.rto \ {q} : f > d /\ s.next[f] < Highest(s, q)}
  <1>1. s.rto \subseteq Cpus /\ IsFiniteSet(s.rto) /\ s.rtoCount = Cardinality(s.rto)
    BY CpuAssumption, FS_Subset DEF Exact, States, Domain
  <1>2. rich \in SUBSET Nat /\ rich \subseteq Cpus
    BY <1>1, CpuAssumption
  <1>3. \A p \in Cpus : p # q /\ p > d /\ s.next[p] < Highest(s, q) /\ p \in s.rto => p \in rich
    OBVIOUS
  <1>4. \A p \in rich : p > d
    OBVIOUS
  <1>5. e = IF s.rtoCount = 0 \/ rich = {} THEN 0 ELSE Min(rich)
    BY DEF PullNext
  <1> HIDE DEF rich
  <1>6. CASE s.rtoCount = 0 \/ rich = {}
    <2>1. e = 0
      BY <1>5, <1>6
    <2>2. s.rto = {} \/ rich = {}
      BY <1>1, <1>6, FS_EmptySet
    <2> QED BY <1>3, <2>1, <2>2
  <1>7. CASE ~(s.rtoCount = 0 \/ rich = {})
    <2>1. Min(rich) \in rich /\ \A p \in rich : Min(rich) <= p
      <3>1. \E y \in rich : \A z \in rich : y <= z
        BY <1>2, <1>7, LeastElement
      <3> QED BY <3>1 DEF Min
    <2>2. e = Min(rich)
      BY <1>5, <1>7
    <2>3. e \in Cpus /\ e > d /\ e # 0
      BY <1>2, <1>4, <2>1, <2>2, CpuAssumption
    <2> QED BY <1>3, <2>1, <2>2, <2>3
  <1> QED BY <1>6, <1>7

LEMMA SkippedYields ==
    ASSUME NEW s, NEW F, Sound(s, F), NEW x, \A b \in F : Choosing(x[b]),
           NEW p \in Cpus, NEW q \in Cpus, s.online[p], s.next[p] < Highest(s, q), p \notin s.rto
    PROVE  Yields(s, x, p)
  <1>1. Exact(s) /\ Domain(s) /\ s \in States
    BY DEF Sound, Exact
  <1>2. ~s.over[p]
    BY <1>1 DEF Domain
  <1>3. s.next[p] < FairPrio
    <2>1. s.next[p] \in 1 .. FairPrio
      BY <1>1, NextIs
    <2>2. Highest(s, q) \in 1 .. FairPrio
      BY <1>1, HighestIs
    <2> QED BY <2>1, <2>2, ThreadAssumption
  <1>4. Pushable(s, p) # {}
    BY <1>1, <1>3, NextLeast
  <1> QED BY <1>2, <1>4, Alone

\* A pull by c for queue q goes on, from queue d.
LEMMA PullRunsCalm ==
    ASSUME NEW s, NEW F, Sound(s, F), NEW c \in Cpus, NEW q \in Cpus, NEW d \in Nat,
           NEW y \in Contexts, y.q = q, y.then \in {"pick", "prio"}, y.then = "pick" => q = c,
           y.then = "prio" => y.who \in Threads,
           NEW z, ButFor(ctx, z, c), z[c].at = "pull", z[c].q = q, z[c].then = y.then,
           z[c].who = y.who, z[c].dest = d + 1, Calm(s, z), \A b \in F : Choosing(z[b]),
           DOMAIN ctx = Cpus, PullRuns(c, y, s, d)
    PROVE  /\ Calm(k', ctx') /\ Keeps(s, k')
           /\ \A a \in Cpus \ {q} : k'.curr[a] = s.curr[a]
  <1> DEFINE e == PullNext(s, q, d)
  <1>1. /\ Plain(s, z) /\ Quiet(s, z) /\ s.up \subseteq Cpus /\ s \in States /\ Exact(s)
        /\ Choosing(z[c]) <=> y.then = "pick"
    BY DEF Calm, Sound, Exact, States, Choosing
  <1>2. /\ e = 0 \/ (e \in Cpus /\ e > d)
        /\ \A p \in Cpus : /\ p # q /\ p > d /\ s.next[p] < Highest(s, q)
                           /\ e = 0 \/ ~(e <= p)
                           => p \notin s.rto
    BY <1>1, PullNextIs
  <1>3. \/ e = 0 /\ k' \in Ends(s, c, y, FALSE) /\ ctx' = [ctx EXCEPT ![c] = NoCtx]
        \/ e # 0 /\ k' = s /\ ctx' = [ctx EXCEPT ![c] = [y EXCEPT !.at = "pull", !.dest = e]]
    BY DEF PullRuns, Leave
  <1> HIDE DEF e
  <1>4. /\ ButFor(z, ctx', c)
        /\ e = 0 => ctx'[c] = NoCtx
        /\ e # 0 => ctx'[c] = [y EXCEPT !.at = "pull", !.dest = e]
    BY <1>3 DEF ButFor
  <1>5. /\ e = 0 => ctx'[c].at = "none" /\ ctx'[c].then = "none"
        /\ e # 0 => /\ ctx'[c].at = "pull" /\ ctx'[c].dest = e /\ ctx'[c].q = q
                    /\ ctx'[c].then = y.then /\ ctx'[c].who = y.who
    <2>1. NoCtx.at = "none" /\ NoCtx.then = "none"
      BY DEF NoCtx
    <2> DEFINE g == [y EXCEPT !.at = "pull", !.dest = e]
    <2>2. g.at = "pull" /\ g.dest = e /\ g.q = q /\ g.then = y.then /\ g.who = y.who
      BY DEF Contexts
    <2> HIDE DEF g
    <2>3. e # 0 => ctx'[c] = g
      BY <1>4 DEF g
    <2> QED BY <1>4, <2>1, <2>2, <2>3
  <1>6. /\ \A p : Pushing(z, p) => Pushing(ctx', p)
        /\ \A a \in Cpus \ {c} : Choosing(z[a]) => Choosing(ctx'[a])
    BY <1>4, ContextLeft DEF Choosing, ButFor
  \* The queues that the pull has done with will run or push what they have.
  <1>7. ASSUME NEW a \in Cpus, NEW p \in Cpus, p # a, s.online[p], s.next[p] < Highest(s, a),
               Pulling(z, a, p)
        PROVE  Pulling(ctx', a, p) \/ Yields(s, z, p)
    <2>1. CASE Pulling(ctx', a, p)
      BY <2>1
    <2>2. CASE ~Pulling(ctx', a, p)
      <3>1. a = q /\ d + 1 <= p
        BY <1>4, <1>7, <2>2, ContextLeft
      <3>2. e = 0 \/ ~(e <= p)
        BY <1>5, <2>2, <3>1, ContextNow
      <3>3. p > d
        BY <3>1, CpuAssumption
      <3>4. p \notin s.rto
        BY <1>2, <1>7, <3>1, <3>2, <3>3
      <3> QED BY <1>7, <3>4, SkippedYields
    <2> QED BY <2>1, <2>2
  <1>8. ASSUME NEW p \in Cpus, NEW a \in Cpus, p # a, s.online[p], s.online[a],
               s.next[p] < Highest(s, a)
        PROVE  Pushes(s, z, p) \/ Pulling(ctx', a, p)
    <2>1. Pushes(s, z, p) \/ Pulling(z, a, p)
      BY <1>1, <1>8 DEF Quiet, Offered
    <2> QED BY <1>7, <1>8, <2>1 DEF Pushes
  <1>9. CASE e # 0
    <2>1. \A q1, g : Lowering(z, q1, g) => Lowering(ctx', q1, g)
      BY <1>4, <1>5, <1>9, ContextLeft, ContextNow
    <2>2. \A a \in Cpus : Choosing(z[a]) => Choosing(ctx'[a])
      BY <1>1, <1>5, <1>6, <1>9 DEF Choosing
    <2>3. k' = s /\ Keeps(s, k')
      BY <1>3, <1>9 DEF Keeps, SameRest
    <2>4. Plain(k', ctx')
      <3>1. \A a \in Cpus \ {c} : ctx'[a] = z[a]
        BY <1>4 DEF ButFor
      <3>2. ctx'[c].then \notin {"to", "from"} /\ (Choosing(ctx'[c]) => Choosing(z[c]))
        BY <1>1, <1>5, <1>9 DEF Choosing
      <3> QED BY <1>1, <2>3, <3>1, <3>2 DEF Plain
    <2>5. \A a \in k'.up : Urgent(k', a) => Attended(k', ctx', a)
      BY <1>1, <2>1, <2>2, <2>3 DEF Quiet, Attended
    <2>6. \A p \in Cpus : Pushes(s, z, p) => Pushes(k', ctx', p)
      BY <1>6, <2>2, <2>3 DEF Pushes, Yields
    <2>7. Quiet(k', ctx')
      BY <1>8, <2>3, <2>5, <2>6 DEF Quiet, Offered
    <2> QED BY <2>3, <2>4, <2>7 DEF Calm
  <1>10. CASE e = 0 /\ y.then = "pick"
    <2>1. k' \in Pick(s, c)
      <3>1. Ends(s, c, y, FALSE) = Pick(s, c)
        BY <1>10, Zenon DEF Ends
      <3> QED BY <1>3, <1>10, <3>1
    <2>2. q = c /\ Choosing(z[c]) /\ ~s.post[c]
      BY <1>1, <1>10 DEF Plain
    <2>3. \A q1, g : Lowering(z, q1, g) => Lowering(ctx', q1, g)
      BY <1>4, <1>10, ContextLeft
    <2>4. ~Choosing(ctx'[c]) /\ ctx'[c].then = "none" /\ ctx'[c].at = "none"
      BY <1>5, <1>10 DEF Choosing
    <2>5. Plain(s, ctx')
      <3>1. \A a \in Cpus \ {c} : ctx'[a] = z[a]
        BY <1>4 DEF ButFor
      <3> QED BY <1>1, <2>4, <3>1 DEF Plain
    <2>6. \A a \in s.up \ {c} : Urgent(s, a) => Attended(s, ctx', a)
      BY <1>1, <1>6, <2>3 DEF Quiet, Attended
    <2>7. \A p \in Cpus \ {c} : Pushes(s, z, p) => Pushes(s, ctx', p)
      BY <1>6 DEF Pushes, Yields
    <2>8. QuietBut(s, ctx', c)
      BY <1>8, <2>6, <2>7 DEF QuietBut, Offered
    <2>9. Calm(k', ctx')
      BY <1>1, <2>1, <2>2, <2>4, <2>5, <2>8, PickCalm
    <2> QED BY <2>1, <2>2, <2>9, PickIs DEF Elsewhere
  <1>11. CASE e = 0 /\ y.then = "prio"
    <2> DEFINE g == y.who
    <2>1. k' = IF s.prio[g] > Highest(s, q) /\ s.curr[q] = g THEN Resched(s, q) ELSE s
      <3>1. Ends(s, c, y, FALSE) = {IF s.prio[g] > Highest(s, q) /\ s.curr[q] = g
                                    THEN Resched(s, q) ELSE s}
        BY <1>11, Zenon DEF Ends
      <3> QED BY <1>3, <1>11, <3>1
    <2>2. Follows(s, k', c) /\ k'.post = s.post /\ (k' # s => k'.resched[q])
      <3>1. CASE k' = s
        BY <3>1 DEF Follows, Keeps, SameRest
      <3>2. CASE k' = Resched(s, q)
        <4>1. /\ Keeps(s, k')
              /\ k'.resched[q] /\ \A a \in Cpus \ {q} : k'.resched[a] = s.resched[a]
              /\ k'.post = s.post /\ k'.curr = s.curr /\ k'.next = s.next
          BY <1>1, <3>2, ReschedIs
        <4> QED BY <4>1 DEF Follows
      <3> QED BY <2>1, <3>1, <3>2
    <2>3. Plain(k', ctx')
      <3>1. ctx'[c].then \notin {"to", "from"} /\ ~Choosing(ctx'[c])
        BY <1>5, <1>11 DEF Choosing
      <3> QED BY <1>1, <1>4, <2>2, <3>1, FollowsPlain
    <2>4. /\ \A a \in Cpus : SameView(s, k', a) /\ (Urgent(k', a) <=> Urgent(s, a))
          /\ k'.up = s.up /\ k'.online = s.online
      BY <2>2, FollowsView
    <2>5. \A a \in Cpus : Choosing(z[a]) => Choosing(ctx'[a])
      BY <1>1, <1>6, <1>11
    <2>6. ASSUME NEW a \in k'.up, Urgent(k', a) PROVE Attended(k', ctx', a)
      <3>1. a \in Cpus /\ Urgent(s, a) /\ Attended(s, z, a)
        BY <1>1, <2>4, <2>6 DEF Quiet
      <3>2. CASE Lowering(z, a, s.curr[a]) /\ ~Lowering(ctx', a, s.curr[a])
        <4>1. a = q /\ s.curr[q] = g
          BY <1>4, <3>2, ContextLeft
        <4>2. Highest(s, q) < s.prio[g] /\ Highest(s, q) \in Int /\ s.prio[g] \in Int
          BY <1>1, <1>11, <3>1, <4>1, PrioOfTasks, HighestIs DEF Urgent
        <4>3. k' = Resched(s, q)
          BY <2>1, <4>1, <4>2
        <4>4. k'.resched[q]
          BY <1>1, <4>3, ReschedIs
        <4> QED BY <4>1, <4>4 DEF Attended
      <3>3. CASE ~(Lowering(z, a, s.curr[a]) /\ ~Lowering(ctx', a, s.curr[a]))
        BY <2>2, <2>5, <3>1, <3>3 DEF Attended, Follows
      <3> QED BY <3>2, <3>3
    <2>7. \A p \in Cpus : Pushes(s, z, p) => Pushes(k', ctx', p)
      BY <1>6, <2>2, <2>4, <2>5 DEF Pushes, Yields, Follows
    <2>8. Quiet(k', ctx')
      BY <1>8, <2>4, <2>6, <2>7 DEF Quiet, Offered, SameView
    <2> QED BY <2>2, <2>3, <2>8 DEF Calm, Follows
  <1> QED BY <1>9, <1>10, <1>11

-----------------------------------------------------------------------------
(* A task more or less in a queue *)

LEMMA HighestAttained ==
    ASSUME NEW s \in States, NEW c \in Cpus
    PROVE  Highest(s, c) = FairPrio \/ \E t \in RtQueued(s, c) : s.prio[t] = Highest(s, c)
  <1>1. CASE RtQueued(s, c) = {}
    <2>1. {s.prio[t] : t \in RtQueued(s, c)} \cup {FairPrio} = {FairPrio}
      BY <1>1
    <2>2. Min({FairPrio}) = FairPrio
      BY ThreadAssumption DEF Min
    <2> QED BY <2>1, <2>2 DEF Highest
  <1> QED BY <1>1, HighestIs

LEMMA Fewer ==
    ASSUME NEW s, Exact(s), NEW r, Exact(r), NEW c \in Cpus,
           RtQueued(r, c) \subseteq RtQueued(s, c), Pushable(r, c) \subseteq Pushable(s, c),
           \A t \in RtQueued(s, c) : r.prio[t] = s.prio[t]
    PROVE  Highest(s, c) <= Highest(r, c) /\ s.next[c] <= r.next[c]
  <1>1. /\ s \in States /\ r \in States
        /\ Highest(s, c) \in 1 .. FairPrio /\ Highest(r, c) \in 1 .. FairPrio
        /\ s.next[c] \in 1 .. FairPrio /\ r.next[c] \in 1 .. FairPrio
    BY HighestIs, NextIs DEF Exact
  <1>2. Highest(s, c) <= Highest(r, c)
    <2>1. CASE Highest(r, c) = FairPrio
      BY <1>1, <2>1
    <2>2. CASE Highest(r, c) # FairPrio
      <3>1. PICK t \in RtQueued(r, c) : r.prio[t] = Highest(r, c)
        BY <1>1, <2>2, HighestAttained
      <3>2. Highest(s, c) <= s.prio[t] /\ r.prio[t] = s.prio[t]
        BY <1>1, <3>1, HighestIs
      <3> QED BY <3>1, <3>2
    <2> QED BY <2>1, <2>2
  <1>3. s.next[c] <= r.next[c]
    <2>1. CASE Pushable(r, c) = {}
      <3>1. r.next[c] = FairPrio
        BY <2>1, NextIs
      <3> QED BY <1>1, <3>1
    <2>2. CASE Pushable(r, c) # {}
      <3>1. PICK t \in Pushable(r, c) : r.next[c] = r.prio[t]
        BY <2>2, NextLeast
      <3>2. t \in Pushable(s, c) /\ t \in RtQueued(s, c)
        BY NextLeast
      <3>3. s.next[c] <= s.prio[t] /\ r.prio[t] = s.prio[t]
        BY <3>2, NextIs
      <3> QED BY <3>1, <3>3
    <2> QED BY <2>1, <2>2
  <1> QED BY <1>2, <1>3

LEMMA OneMore ==
    ASSUME NEW s, Exact(s), NEW r, Exact(r), NEW c \in Cpus, NEW t \in Threads,
           RtQueued(r, c) = RtQueued(s, c) \cup {t},
           Pushable(r, c) \in {Pushable(s, c), Pushable(s, c) \cup {t}},
           \A u \in RtQueued(r, c) : r.prio[u] = s.prio[u]
    PROVE  /\ Highest(r, c) <= Highest(s, c) /\ Highest(r, c) <= s.prio[t]
           /\ Highest(r, c) \in {Highest(s, c), s.prio[t]}
           /\ r.next[c] \in {s.next[c], s.prio[t]}
           /\ r.next[c] # s.next[c] => t \in Pushable(r, c) /\ r.next[c] < s.next[c]
           /\ r.next[c] <= s.next[c]
           /\ t \in Pushable(r, c) => r.next[c] <= s.prio[t]
  <1>1. /\ s \in States /\ r \in States
        /\ Highest(s, c) \in 1 .. FairPrio /\ Highest(r, c) \in 1 .. FairPrio
        /\ s.next[c] \in 1 .. FairPrio /\ r.next[c] \in 1 .. FairPrio
        /\ \A u \in Threads : s.prio[u] \in 1 .. FairPrio
    BY HighestIs, NextIs DEF Exact, States
  <1>2. \A u \in RtQueued(s, c) : r.prio[u] = s.prio[u] /\ u \in RtQueued(r, c)
    OBVIOUS
  <1>3. r.prio[t] = s.prio[t] /\ t \in RtQueued(r, c)
    OBVIOUS
  <1>4. RtQueued(s, c) \subseteq RtQueued(r, c) /\ Pushable(s, c) \subseteq Pushable(r, c)
        /\ \A u \in RtQueued(r, c) : s.prio[u] = r.prio[u]
    OBVIOUS
  <1>5. Highest(r, c) <= Highest(s, c) /\ r.next[c] <= s.next[c]
    BY <1>4, Fewer
  <1>6. Highest(r, c) <= s.prio[t]
    BY <1>1, <1>3, HighestIs
  <1>7. Highest(r, c) \in {Highest(s, c), s.prio[t]}
    <2>1. CASE Highest(r, c) = FairPrio
      BY <1>1, <1>5, <2>1
    <2>2. CASE Highest(r, c) # FairPrio
      <3>1. PICK u \in RtQueued(r, c) : r.prio[u] = Highest(r, c)
        BY <1>1, <2>2, HighestAttained
      <3>2. CASE u = t
        BY <1>3, <3>1, <3>2
      <3>3. CASE u # t
        <4>1. u \in RtQueued(s, c) /\ r.prio[u] = s.prio[u]
          BY <3>3
        <4>2. Highest(s, c) <= s.prio[u]
          BY <1>1, <4>1, HighestIs
        <4> QED BY <1>1, <1>5, <3>1, <4>1, <4>2
      <3> QED BY <3>2, <3>3
    <2> QED BY <2>1, <2>2
  <1>8. t \in Pushable(r, c) => r.next[c] <= s.prio[t]
    BY <1>3, NextIs
  <1>9. r.next[c] = s.next[c] \/ (t \in Pushable(r, c) /\ r.next[c] = s.prio[t])
    <2>1. CASE Pushable(r, c) = {}
      <3>1. Pushable(s, c) = {}
        BY <1>4, <2>1
      <3> QED BY <2>1, <3>1, NextIs
    <2>2. CASE Pushable(r, c) # {}
      <3>1. PICK u \in Pushable(r, c) : r.next[c] = r.prio[u]
        BY <2>2, NextLeast
      <3>2. u \in RtQueued(r, c)
        BY NextLeast
      <3>3. CASE u = t
        BY <1>3, <3>1, <3>3
      <3>4. CASE u # t
        <4>1. u \in Pushable(s, c) /\ r.prio[u] = s.prio[u]
          BY <3>2, <3>4
        <4>2. s.next[c] <= s.prio[u]
          BY <4>1, NextIs
        <4> QED BY <1>1, <1>5, <3>1, <4>1, <4>2
      <3> QED BY <3>3, <3>4
    <2> QED BY <2>1, <2>2
  <1> QED BY <1>1, <1>5, <1>6, <1>7, <1>8, <1>9

\* A task that waits goes from queue q to queue d.
LEMMA MoveViews ==
    ASSUME NEW s, NEW F, Sound(s, F), NEW t \in Threads, s.onRq[t], s.prio[t] < FairPrio,
           Movable(s, t), ~OnCpu(s, t), NEW q \in Cpus, q = s.home[t], NEW d \in Cpus, d # q,
           NEW m, m = Move(s, t, d)
    PROVE  /\ Exact(m)
           /\ \A a \in Cpus \ {q, d} : /\ Highest(m, a) = Highest(s, a) /\ m.next[a] = s.next[a]
                                       /\ Pushable(m, a) = Pushable(s, a)
           /\ Highest(s, q) <= Highest(m, q) /\ s.next[q] <= m.next[q]
           /\ RtQueued(m, q) = RtQueued(s, q) \ {t}
           /\ t \in Pushable(s, q) /\ t \in Pushable(m, d)
           /\ Highest(m, d) <= Highest(s, d) /\ Highest(m, d) <= s.prio[t]
           /\ Highest(m, d) \in {Highest(s, d), s.prio[t]}
           /\ m.next[d] \in {s.next[d], s.prio[t]} /\ m.next[d] <= s.next[d]
           /\ m.next[d] <= s.prio[t]
  <1>1. Exact(s) /\ s \in States
    BY DEF Sound, Exact
  <1>2. /\ Exact(m)
        /\ m.home = [s.home EXCEPT ![t] = d]
        /\ m.prio = s.prio /\ m.mask = s.mask /\ m.curr = s.curr
        /\ m.onRq[t] /\ \A u \in Threads : m.onRq[u] <=> s.onRq[u]
    BY <1>1, MoveFields
  <1>3. s.home \in [Threads -> Cpus]
    BY <1>1 DEF States
  <1>4. m.home[t] = d /\ \A u \in Threads \ {t} : m.home[u] = s.home[u]
    BY <1>2, <1>3
  <1>5. s.curr[q] # t /\ s.curr[d] # t
    BY DEF OnCpu
  <1>6. \A u : Movable(m, u) <=> Movable(s, u)
    BY <1>2 DEF Movable
  <1>7. ASSUME NEW a \in Cpus, NEW u
        PROVE  /\ u \in RtQueued(s, a) <=> u \in Threads /\ s.onRq[u] /\ s.home[u] = a /\ s.prio[u] < FairPrio
               /\ u \in RtQueued(m, a) <=> u \in Threads /\ s.onRq[u] /\ m.home[u] = a /\ s.prio[u] < FairPrio
               /\ u \in Pushable(s, a) <=> u \in RtQueued(s, a) /\ Movable(s, u) /\ s.curr[a] # u
               /\ u \in Pushable(m, a) <=> u \in RtQueued(m, a) /\ Movable(s, u) /\ s.curr[a] # u
    BY <1>2, <1>6 DEF RtQueued, Queued, Pushable, RtMovable
  <1>8. ASSUME NEW a \in Cpus \ {q, d}
        PROVE  /\ Highest(m, a) = Highest(s, a) /\ m.next[a] = s.next[a]
               /\ Pushable(m, a) = Pushable(s, a)
    <2>1. RtQueued(m, a) = RtQueued(s, a)
      BY <1>4, <1>7
    <2>2. Pushable(m, a) = Pushable(s, a)
      <3>1. \A u : u \in Pushable(m, a) <=> u \in Pushable(s, a)
        BY <1>7, <2>1
      <3> QED BY <3>1
    <2>3. \A u \in RtQueued(s, a) : m.prio[u] = s.prio[u]
      BY <1>2
    <2> QED BY <1>1, <1>2, <2>1, <2>2, <2>3, QueueSame
  <1>9. /\ RtQueued(m, q) = RtQueued(s, q) \ {t} /\ Pushable(m, q) \subseteq Pushable(s, q)
        /\ t \in Pushable(s, q)
    <2>1. RtQueued(m, q) = RtQueued(s, q) \ {t}
      BY <1>4, <1>7
    <2>2. Pushable(m, q) \subseteq Pushable(s, q)
      BY <1>7, <2>1
    <2> QED BY <1>5, <1>7, <2>1, <2>2
  <1>10. Highest(s, q) <= Highest(m, q) /\ s.next[q] <= m.next[q]
    <2>1. RtQueued(m, q) \subseteq RtQueued(s, q) /\ \A u \in RtQueued(s, q) : m.prio[u] = s.prio[u]
      BY <1>2, <1>9
    <2> QED BY <1>1, <1>2, <1>9, <2>1, Fewer
  <1>11. /\ RtQueued(m, d) = RtQueued(s, d) \cup {t} /\ t \in Pushable(m, d)
         /\ Pushable(m, d) = Pushable(s, d) \cup {t}
    <2>1. RtQueued(m, d) = RtQueued(s, d) \cup {t}
      BY <1>4, <1>7
    <2>2. Pushable(m, d) = Pushable(s, d) \cup {t}
      BY <1>5, <1>7, <2>1
    <2> QED BY <2>1, <2>2
  <1>12. /\ Highest(m, d) <= Highest(s, d) /\ Highest(m, d) <= s.prio[t]
         /\ Highest(m, d) \in {Highest(s, d), s.prio[t]}
         /\ m.next[d] \in {s.next[d], s.prio[t]} /\ m.next[d] <= s.next[d]
         /\ m.next[d] <= s.prio[t]
    <2>1. \A u \in RtQueued(m, d) : m.prio[u] = s.prio[u]
      BY <1>2
    <2> QED BY <1>1, <1>2, <1>11, <2>1, OneMore
  <1> QED BY <1>2, <1>8, <1>9, <1>10, <1>11, <1>12

-----------------------------------------------------------------------------
(* A task that waits goes to another queue while all is calm *)

LEMMA TwoOf ==
    ASSUME NEW S, IsFiniteSet(S), NEW a \in S, NEW b \in S, a # b
    PROVE  Cardinality(S) > 1
  <1> DEFINE R == S \ {a}
  <1>1. IsFiniteSet(R) /\ Cardinality(R) = Cardinality(S) - 1
    BY FS_RemoveElement
  <1>2. R # {}
    OBVIOUS
  <1> HIDE DEF R
  <1>3. Cardinality(R) # 0 /\ Cardinality(R) \in Nat /\ Cardinality(S) \in Nat
    BY <1>1, <1>2, FS_EmptySet, FS_CardinalityType
  <1> QED BY <1>1, <1>3

LEMMA CanMove ==
    ASSUME NEW s, NEW F, Sound(s, F), s.stops = {}, s.stray = {}, NEW t \in Threads, s.onRq[t],
           NEW d \in s.mask[t], d # s.home[t]
    PROVE  Movable(s, t) /\ s.home[t] \in s.mask[t] /\ d \in Cpus
  <1>1. s.mask[t] \subseteq Cpus /\ s.home[t] \in Cpus
    BY DEF Sound, Exact, States
  <1>2. s.home[t] \in s.mask[t]
    BY DEF Sound, Placed
  <1>3. IsFiniteSet(s.mask[t])
    BY <1>1, FS_Subset, CpuAssumption
  <1>4. Cardinality(s.mask[t]) > 1
    BY <1>2, <1>3, TwoOf
  <1> QED BY <1>1, <1>2, <1>4 DEF Movable

LEMMA MoveIs ==
    ASSUME NEW s, Exact(s), NEW t \in Threads, s.onRq[t], NEW d \in Cpus, NEW m, m = Move(s, t, d)
    PROVE  /\ Exact(m) /\ m \in States /\ SameRest(s, m) /\ m.stray = s.stray \ {t}
           /\ m.home[t] = d /\ \A u \in Threads \ {t} : m.home[u] = s.home[u]
           /\ \A u \in Threads : m.onRq[u] <=> s.onRq[u]
           /\ m.prio = s.prio /\ m.mask = s.mask /\ m.curr = s.curr
           /\ m.resched = s.resched /\ m.post = s.post /\ m.online = s.online
  <1>1. /\ Exact(m)
        /\ m.home = [s.home EXCEPT ![t] = d] /\ m.stray = s.stray \ {t}
        /\ m.prio = s.prio /\ m.mask = s.mask /\ m.curr = s.curr
        /\ m.onRq[t] /\ \A u \in Threads : m.onRq[u] <=> s.onRq[u]
        /\ SameRest(s, m) /\ m.resched = s.resched /\ m.post = s.post /\ m.online = s.online
    BY MoveFields
  <1>2. s.home \in [Threads -> Cpus] /\ m \in States
    BY <1>1 DEF Exact, States
  <1>3. m.home[t] = d /\ \A u \in Threads \ {t} : m.home[u] = s.home[u]
    BY <1>1, <1>2
  <1> QED BY <1>1, <1>2, <1>3

\* Other queues are offered what they were, and if queue q has lost its most urgent
\* task, there is nothing for it elsewhere.
LEMMA MoveCalm ==
    ASSUME NEW s, NEW F, Sound(s, F), NEW t \in Threads, s.onRq[t], s.prio[t] < FairPrio,
           Movable(s, t), ~OnCpu(s, t), NEW q \in Cpus, q = s.home[t], NEW d \in Cpus, d # q,
           NEW m, m = Move(s, t, d),
           NEW r, Keeps(m, r), r.curr = m.curr, r.next = m.next, r.post = m.post,
           \A a \in Cpus : m.resched[a] => r.resched[a],
           NEW x, Calm(s, x), NEW z,
           \A a \in Cpus : z[a].then = x[a].then /\ (Choosing(z[a]) <=> Choosing(x[a])),
           \A p : Pushing(x, p) => Pushing(z, p),
           \A p, g : Lowering(x, p, g) => Lowering(z, p, g),
           \A b : \A p \in Cpus : p # q /\ Pulling(x, b, p) => Pulling(z, b, p),
           Urgent(r, d) => Attended(r, z, d),
           \A b \in Cpus \ {d} : r.online[b] => Offered(r, z, d, b),
           \A b \in Cpus \ {q} : r.online[q] /\ r.online[b] => Offered(r, z, q, b),
           Highest(s, q) < Highest(m, q) => \A a \in Cpus \ {q, d} : m.next[a] = FairPrio
    PROVE  Calm(r, z)
  <1>1. /\ Exact(m)
        /\ \A a \in Cpus \ {q, d} : Highest(m, a) = Highest(s, a) /\ m.next[a] = s.next[a]
        /\ Highest(s, q) <= Highest(m, q) /\ Highest(m, d) <= Highest(s, d)
    BY MoveViews
  <1>2. Exact(s) /\ s \in States /\ Plain(s, x) /\ Quiet(s, x)
    BY DEF Sound, Exact, Calm
  <1>3. /\ m.prio = s.prio /\ m.curr = s.curr /\ m.stray = s.stray \ {t}
        /\ SameRest(s, m) /\ m.resched = s.resched /\ m.post = s.post /\ m.online = s.online
    BY <1>2, MoveIs
  <1>4. /\ r.prio = s.prio /\ r.curr = s.curr /\ r.next = m.next /\ r.post = s.post
        /\ r.up = s.up /\ r.online = s.online /\ r.stops = {} /\ r.stray = {}
        /\ \A a \in Cpus : s.resched[a] => r.resched[a]
    BY <1>2, <1>3 DEF Keeps, SameRest, Plain
  <1>5. \A a \in Cpus : Highest(r, a) = Highest(m, a)
    BY KeepsAll
  <1>6. \A u : PrioOf(r, u) = PrioOf(s, u)
    BY <1>4 DEF PrioOf
  <1>7. \A a \in Cpus : /\ Highest(s, a) \in 1 .. FairPrio /\ Highest(m, a) \in 1 .. FairPrio
                        /\ PrioOf(s, s.curr[a]) \in 0 .. FairPrio + 1
                        /\ s.next[a] \in 1 .. FairPrio /\ FairPrio \in Nat
    <2>1. m \in States /\ FairPrio \in Nat /\ s.curr \in [Cpus -> Threads \cup {Idle, Stopper}]
      BY <1>1, <1>2, ThreadAssumption DEF Exact, States
    <2> QED BY <1>2, <2>1, HighestIs, PrioOfTasks, NextIs
  <1>8. Plain(r, z)
    BY <1>2, <1>4 DEF Plain
  <1>9. ASSUME NEW a \in r.up, Urgent(r, a) PROVE Attended(r, z, a)
    <2>1. a \in Cpus /\ a \in s.up
      BY <1>2, <1>4 DEF States
    <2>2. CASE a = d
      BY <1>9, <2>2
    <2>3. CASE a # d
      <3>1. Highest(s, a) <= Highest(m, a)
        BY <1>1, <1>7, <2>1, <2>3
      <3>2. Urgent(s, a)
        BY <1>4, <1>5, <1>6, <1>7, <1>9, <2>1, <3>1 DEF Urgent
      <3>3. Attended(s, x, a)
        BY <1>2, <2>1, <3>2 DEF Quiet
      <3> QED BY <1>4, <2>1, <3>3 DEF Attended
    <2> QED BY <2>2, <2>3
  <1>10. ASSUME NEW a \in Cpus, NEW b \in Cpus, a # b, r.online[a], r.online[b]
         PROVE  Offered(r, z, a, b)
    <2>1. CASE a = d \/ a = q
      BY <1>10, <2>1
    <2>2. CASE a \notin {q, d}
      <3>1. SUFFICES ASSUME r.next[a] < Highest(r, b)
                     PROVE  Pushes(r, z, a) \/ Pulling(z, b, a)
        BY DEF Offered
      <3>2. r.next[a] = s.next[a] /\ Highest(r, a) = Highest(s, a)
        BY <1>1, <1>4, <1>5, <2>2
      <3>3. r.next[a] # FairPrio
        BY <1>5, <1>7, <3>1, <3>2
      <3>4. Highest(m, b) <= Highest(s, b)
        BY <1>1, <1>4, <1>7, <2>2, <3>3
      <3>5. s.next[a] < Highest(s, b)
        BY <1>5, <1>7, <3>1, <3>2, <3>4
      <3>6. Pushes(s, x, a) \/ Pulling(x, b, a)
        BY <1>2, <1>4, <1>10, <3>5 DEF Quiet, Offered
      <3>7. Urgent(r, a) <=> Urgent(s, a)
        BY <1>4, <1>6, <3>2 DEF Urgent
      <3> QED BY <1>4, <2>2, <3>6, <3>7 DEF Pushes, Yields
    <2> QED BY <2>1, <2>2
  <1>11. Quiet(r, z)
    BY <1>9, <1>10 DEF Quiet
  <1> QED BY <1>8, <1>11 DEF Calm

\* push_rt_task once both locks are held: nothing more is done for the queue, or
\* the task moves and the next one is looked at.
LEMMA PushLockedTo ==
    ASSUME NEW s, NEW F, Sound(s, F), Roaming(s), NEW x, \A b \in F : Choosing(x[b]),
           NEW q \in Cpus, NEW t \in Threads, NEW d \in Cpus, NEW n,
           NEW r \in PushLocked(s, q, t, d, n, TRUE), s.stops = {}, s.stray = {},
           ~Stale(s, q, t, d) /\ Highest(s, d) <= s.prio[t] /\ n + 1 = RT_MAX_TRIES =>
               FindLowest(s, t) = {0}
    PROVE  \/ PushTo(s, x, q, r)
           \/ /\ ~Stale(s, q, t, d) /\ Highest(s, d) > s.prio[t]
              /\ r \in PushStart(Resched(Move(s, t, d), d), q)
  <1>1. Exact(s) /\ s \in States /\ OnOwn(s, F)
    BY DEF Sound, Exact
  <1> DEFINE first == s.push[q] # <<>> /\ s.home[t] = q /\ Head(s.push[q]) = t
  <1>2. first => t \in Pushable(s, q)
    BY <1>1, NextIs
  <1>3. first => ~Stale(s, q, t, d)
    <2>1. SUFFICES ASSUME first PROVE ~Stale(s, q, t, d)
      OBVIOUS
    <2>2. /\ s.onRq[t] /\ s.home[t] = q /\ Movable(s, t) /\ s.curr[q] # t
      BY <1>2, <2>1 DEF Pushable, RtMovable, RtQueued, Queued
    <2>3. d \in s.mask[t]
      BY <2>2 DEF Roaming
    <2>4. ~OnCpu(s, t)
      BY <1>1, <2>2 DEF OnCpu, OnOwn
    <2> QED BY <2>2, <2>3, <2>4 DEF Stale
  <1>4. ASSUME NEW e \in FindLowest(s, t), e \in {0, q}, first PROVE NoneFor(s, q)
    BY <1>1, <1>4, NoTarget
  <1>5. CASE Stale(s, q, t, d)
    <2>1. r \in PushFailed(s, q, t)
      BY <1>5 DEF PushLocked
    <2> QED BY <1>3, <1>5, <2>1, PushFailedEnds
  <1>6. CASE ~Stale(s, q, t, d) /\ Highest(s, d) > s.prio[t]
    BY <1>6 DEF PushLocked
  <1>7. CASE ~Stale(s, q, t, d) /\ ~(Highest(s, d) > s.prio[t])
    <2>1. CASE n + 1 = RT_MAX_TRIES
      <3>1. r \in PushFailed(s, q, t)
        BY <1>7, <2>1 DEF PushLocked
      <3>2. Highest(s, d) <= s.prio[t]
        <4>1. Highest(s, d) \in 1 .. FairPrio /\ s.prio[t] \in 1 .. FairPrio
          BY <1>1, HighestIs DEF States
        <4> QED BY <1>7, <4>1
      <3>3. 0 \in FindLowest(s, t)
        BY <1>7, <2>1, <3>2
      <3>4. first => NoneFor(s, q)
        BY <1>4, <3>3
      <3> QED BY <3>1, <3>4, PushFailedEnds
    <2>2. CASE n + 1 # RT_MAX_TRIES
      <3>1. PICK e \in FindLowest(s, t) :
               r \in IF e \in {0, q} THEN PushFailed(s, q, t) ELSE {Locking(s, t, e, n + 1)}
        BY <1>7, <2>2 DEF PushLocked
      <3>2. CASE e \in {0, q}
        <4>1. r \in PushFailed(s, q, t) /\ (first => NoneFor(s, q))
          BY <1>4, <3>1, <3>2
        <4> QED BY <4>1, PushFailedEnds
      <3>3. CASE e \notin {0, q}
        <4>1. r.s = s /\ r.task = t /\ r.dest = e
          BY <3>1, <3>3 DEF Locking
        <4>2. e \in Cpus /\ s.online[e]
          BY <1>1, <3>3, LowestOnline
        <4>3. t # NoOne
          BY ThreadAssumption
        <4> QED BY <4>1, <4>2, <4>3 DEF PushTo
      <3> QED BY <3>2, <3>3
    <2> QED BY <2>1, <2>2
  <1> QED BY <1>5, <1>6, <1>7

\* What is pushed keeps the queues, but for the task that has moved.
LEMMA PushRunsKeeps ==
    ASSUME NEW s \in States, NEW x, NEW c \in Cpus, NEW q \in Cpus, NEW y,
           y.then \in {"post", "woken"}, NEW r, PushTo(s, x, q, r), PushRuns(c, y, r)
    PROVE  Keeps(s, k') /\ k'.curr = s.curr
  <1>1. Keeps(s, s)
    BY DEF Keeps, SameRest
  <1>2. CASE r.task # NoOne
    BY <1>1, <1>2 DEF PushRuns, PushTo
  <1>3. CASE r.task = NoOne
    <2> DEFINE u == r.s
    <2>1. u \in {s, Resched(s, q)} /\ k' \in Ends(u, c, y, r.moved)
      BY <1>3 DEF PushRuns, PushTo
    <2> HIDE DEF u
    <2>2. u \in States /\ Keeps(s, u) /\ u.curr = s.curr
      <3>1. CASE u = s
        BY <1>1, <3>1
      <3>2. CASE u = Resched(s, q)
        BY <3>2, ReschedIs
      <3> QED BY <2>1, <3>1, <3>2
    <2>3. k' \in {u, Pushed(u, c)}
      <3>1. CASE y.then = "post"
        <4>1. Ends(u, c, y, r.moved) = {Pushed(u, c)}
          BY <3>1, Zenon DEF Ends, Pushed
        <4> QED BY <2>1, <3>1, <4>1
      <3>2. CASE y.then = "woken"
        <4>1. Ends(u, c, y, r.moved) = {u}
          BY <3>2, Zenon DEF Ends
        <4> QED BY <2>1, <3>2, <4>1
      <3> QED BY <3>1, <3>2
    <2>4. CASE k' = u
      BY <2>2, <2>4
    <2>5. CASE k' = Pushed(u, c)
      <3>1. Keeps(u, k') /\ k'.curr = u.curr
        BY <2>2, <2>5, PushedIs
      <3> QED BY <2>2, <3>1, KeepsTrans
    <2> QED BY <2>3, <2>4, <2>5
  <1> QED BY <1>2, <1>3

LEMMA PullRunsKeeps ==
    ASSUME NEW s, NEW F, Sound(s, F), NEW c \in Cpus, NEW q \in Cpus, NEW d,
           NEW y, y.q = q, y.then \in {"pick", "prio"}, y.then = "pick" => q = c,
           PullRuns(c, y, s, d)
    PROVE  Keeps(s, k') /\ \A a \in Cpus \ {q} : k'.curr[a] = s.curr[a]
  <1>1. Keeps(s, s) /\ s \in States
    BY DEF Keeps, SameRest, Sound, Exact
  <1>2. k' \in Ends(s, c, y, FALSE) \/ k' = s
    BY DEF PullRuns
  <1>3. CASE k' = s
    BY <1>1, <1>3
  <1>4. CASE k' \in Ends(s, c, y, FALSE) /\ y.then = "pick"
    <2>1. k' \in Pick(s, c)
      <3>1. Ends(s, c, y, FALSE) = Pick(s, c)
        BY <1>4, Zenon DEF Ends
      <3> QED BY <1>4, <3>1
    <2>2. q = c
      BY <1>4
    <2> QED BY <2>1, <2>2, PickIs DEF Elsewhere
  <1>5. CASE k' \in Ends(s, c, y, FALSE) /\ y.then = "prio"
    <2> DEFINE g == y.who
    <2>1. k' = IF s.prio[g] > Highest(s, q) /\ s.curr[q] = g THEN Resched(s, q) ELSE s
      <3>1. Ends(s, c, y, FALSE) = {IF s.prio[g] > Highest(s, q) /\ s.curr[q] = g
                                    THEN Resched(s, q) ELSE s}
        BY <1>5, Zenon DEF Ends
      <3> QED BY <1>5, <3>1
    <2>2. CASE k' = Resched(s, q)
      BY <1>1, <2>2, ReschedIs
    <2> QED BY <1>3, <2>1, <2>2
  <1> QED BY <1>2, <1>3, <1>4, <1>5

-----------------------------------------------------------------------------
(* Where tasks and processors are, whatever has been noted *)

CtxHome(x, c, up) ==
    /\ x.at = "push" => x.dest \in up /\ (x.then = "post" => x.q = c)
    /\ x.at = "pull" => x.q \in up
    /\ x.then = "pick" => x.at = "pull" /\ x.q = c
    /\ x.then = "prio" => x.who \in Threads

Homes ==
    /\ Roaming(k) /\ k.active \subseteq k.up
    /\ \A t \in Threads : k.onRq[t] => k.home[t] \in k.up \/ (hot.phase = "dying" /\ k.home[t] = hot.cpu)
    /\ \A t \in Threads : k.st[t] = "waking" =>
          /\ k.home[t] \in k.up
          /\ \/ \E c \in Cpus : ctx[c].at = "wake" /\ ctx[c].who = t
             \/ t \in Range(k.wakeList[k.home[t]])
    /\ \A c \in Cpus : CtxHome(ctx[c], c, k.up)
    /\ hot.phase \in {"prepare", "stop"} => hot.cpu \notin k.active
    /\ hot.phase = "dying" => hot.cpu \notin k.up /\ \A c \in k.up : k.curr[c] = Stopper

-----------------------------------------------------------------------------
(* The pushes and the pulls go on *)

\* What ~Robs says of the queues of the others.
LEMMA RobsNone ==
    ASSUME ~Robs, NEW q \in Cpus, NEW d \in Cpus, d # q, NEW t \in Threads,
           k.onRq[t], k.home[t] = q,
           NEW m, Exact(m), m.home[t] = d, Keeps(m, k'),
           \A a \in Cpus \ {q, d} : k'.curr[a] = m.curr[a],
           NEW F, OnOwn(k', F),
           Highest(k, q) < Highest(m, q)
    PROVE  \A a \in Cpus \ {q, d} : m.next[a] = FairPrio
  <1>1. SUFFICES ASSUME NEW a \in Cpus \ {q, d}, m.next[a] # FairPrio PROVE FALSE
    OBVIOUS
  <1>2. PICK u \in Pushable(m, a) : TRUE
    BY <1>1, NextIs
  <1>3. /\ u \in Threads /\ m.onRq[u] /\ m.home[u] = a /\ m.prio[u] < FairPrio /\ m.curr[a] # u
    BY <1>2 DEF Pushable, RtMovable, RtQueued, Queued
  <1>4. k'.home = m.home /\ k'.onRq = m.onRq /\ k'.prio = m.prio
    BY DEF Keeps
  <1>5. ~OnCpu(k', u)
    BY <1>1, <1>3, <1>4 DEF OnCpu, OnOwn
  <1>6. u \in Waiting' /\ k'.home[u] = a
    BY <1>3, <1>4, <1>5 DEF Waiting, OnCpu
  <1>7. Highest(k', q) = Highest(m, q) /\ k'.home[t] = d
    BY <1>4, KeepsAll
  <1>8. /\ k.onRq[t] /\ q # d /\ k'.home[t] = d /\ Highest(k, q) < Highest(k', q)
        /\ k'.home[u] \notin {q, d}
    BY <1>1, <1>6, <1>7
  <1>9. Robs
    BY <1>6, <1>8 DEF Robs
  <1> QED BY <1>9

LEMMA PushGoesCalm ==
    ASSUME SmpInv, SmpInv', Homes, Calm(k, ctx), NEW c \in Cpus, PushGoes(c),
           ~GivesUp(ctx[c]), ~Robs
    PROVE  Calm(k', ctx')
  <1> DEFINE x == ctx[c]
             q == x.q
             t == x.task
             d == x.dest
             F == Free(ctx)
             m == Move(k, t, d)
             v == Resched(m, d)
  <1>1. /\ Sound(k, F) /\ k \in States /\ ctx \in [Cpus -> Contexts] /\ InLoop(x)
        /\ x.at = "push" /\ k.stops = {} /\ k.stray = {} /\ x.then \notin {"to", "from"}
        /\ Roaming(k) /\ (x.then = "post" => q = c)
    BY InvParts DEF PushGoes, Calm, Plain, Homes, CtxHome
  <1>2. /\ q \in Cpus /\ t \in Threads /\ d \in Cpus /\ x.then \in {"post", "woken"}
        /\ x \in Contexts
    BY <1>1 DEF InLoop, PushEnds
  <1>3. \A b \in F : Choosing(ctx[b])
    BY DEF Free
  <1>4. PICK r \in PushLocked(k, q, t, d, x.tries, TRUE) : PushRuns(c, x, r)
    BY <1>2 DEF PushGoes
  <1>5. /\ ~Stale(k, q, t, d) /\ Highest(k, d) <= k.prio[t] /\ x.tries + 1 = RT_MAX_TRIES
        => FindLowest(k, t) = {0}
    BY DEF GivesUp
  <1>6. DOMAIN ctx = Cpus /\ ButFor(ctx, ctx, c) /\ Exact(k) /\ OnOwn(k', Free(ctx'))
    <2>1. OnOwn(k', Free(ctx'))
      BY DEF SmpInv, Sound
    <2> QED BY <1>1, <2>1 DEF ButFor, Sound
  <1> HIDE DEF x, q, t, d, F, m, v
  <1>7. \/ PushTo(k, ctx, q, r)
        \/ ~Stale(k, q, t, d) /\ Highest(k, d) > k.prio[t] /\ r \in PushStart(Resched(Move(k, t, d), d), q)
    BY <1>1, <1>2, <1>3, <1>4, <1>5, PushLockedTo
  <1>8. CASE PushTo(k, ctx, q, r)
    <2>1. ctx[c].at = "push" /\ ctx[c].q = q
      BY <1>1 DEF x, q
    <2>2. x.q = q
      BY DEF q
    <2> QED BY <1>1, <1>2, <1>4, <1>6, <1>8, <2>1, <2>2, PushRunsCalm
  <1>9. CASE /\ ~Stale(k, q, t, d) /\ Highest(k, d) > k.prio[t]
             /\ r \in PushStart(Resched(Move(k, t, d), d), q)
    <2>1. k.home[t] = q /\ d \in k.mask[t] /\ ~OnCpu(k, t) /\ k.onRq[t]
      BY <1>9 DEF Stale
    <2>2. /\ Highest(k, d) \in 1 .. FairPrio /\ k.prio[t] \in 1 .. FairPrio /\ FairPrio \in Nat
          /\ \A a \in Cpus : \A u \in RtQueued(k, a) : Highest(k, a) <= k.prio[u]
      BY <1>1, <1>2, HighestIs, ThreadAssumption DEF States
    <2>3. k.prio[t] < FairPrio
      BY <1>9, <2>2
    <2>4. d # q
      <3>1. t \in RtQueued(k, q)
        BY <1>2, <2>1, <2>3 DEF RtQueued, Queued
      <3> QED BY <1>2, <1>9, <2>2, <3>1
    <2>5. Movable(k, t)
      BY <1>1, <1>2, <2>1, <2>4, CanMove
    <2>6. /\ Exact(m) /\ m \in States /\ m.home[t] = d /\ m.prio = k.prio /\ m.mask = k.mask
          /\ m.curr = k.curr /\ m.resched = k.resched /\ m.online = k.online
      BY <1>2, <1>6, <2>1, MoveIs DEF m
    <2>7. Sound(m, F)
      BY <1>1, <1>2, <2>1, MoveSound DEF m
    <2>8. Sound(v, F)
      BY <1>2, <2>7, ReschedSound DEF v
    <2>9. /\ v \in States /\ Keeps(m, v) /\ v.resched[d]
          /\ \A a \in Cpus \ {d} : v.resched[a] = m.resched[a]
          /\ v.post = m.post /\ v.curr = m.curr /\ v.push = m.push /\ v.next = m.next
      <3>1. v = Resched(m, d)
        BY DEF v
      <3>2. m \in States /\ d \in Cpus
        BY <1>2, <2>6
      <3> QED BY ONLY <3>1, <3>2, ReschedIs
    <2>10. Roaming(v)
      BY <1>1, <2>6, <2>9 DEF Roaming, Keeps, Movable
    <2>11. r \in PushStart(v, q)
      BY <1>9 DEF v, m
    <2>12. PushTo(v, ctx, q, r)
      BY <1>2, <1>3, <2>8, <2>10, <2>11, PushStartEnds
    <2>13. Keeps(v, k') /\ k'.curr = v.curr
      BY <1>2, <1>4, <2>9, <2>12, PushRunsKeeps
    <2>14. Highest(k, q) < Highest(m, q) => \A a \in Cpus \ {q, d} : m.next[a] = FairPrio
      <3>1. Keeps(m, k') /\ \A a \in Cpus \ {q, d} : k'.curr[a] = m.curr[a]
        BY <2>9, <2>13, KeepsTrans
      <3> QED BY <1>2, <1>6, <2>1, <2>4, <2>6, <3>1, RobsNone
    <2>15. Calm(v, ctx)
      <3>1. \A a \in Cpus : m.resched[a] => v.resched[a]
        BY <2>9
      <3>2. Urgent(v, d) => Attended(v, ctx, d)
        BY <2>9 DEF Attended
      <3>3. \A b \in Cpus \ {d} : v.online[b] => Offered(v, ctx, d, b)
        BY <2>9 DEF Offered, Pushes, Yields
      <3>4. Pushing(ctx, q)
        BY <1>1 DEF Pushing, x, q
      <3>5. \A b \in Cpus \ {q} : v.online[q] /\ v.online[b] => Offered(v, ctx, q, b)
        BY <3>4 DEF Offered, Pushes
      <3>6. m = Move(k, t, d)
        BY DEF m
      <3> QED BY <1>1, <1>2, <2>1, <2>3, <2>4, <2>5, <2>9, <2>14, <3>1, <3>2, <3>3, <3>5, <3>6, MoveCalm
    <2>16. ctx[c].at = "push" /\ ctx[c].q = q /\ x.q = q
      BY <1>1 DEF x, q
    <2> QED BY <1>1, <1>2, <1>4, <1>6, <2>9, <2>12, <2>15, <2>16, PushRunsCalm
  <1> QED BY <1>7, <1>8, <1>9

\* A pull for queue q has gone on past queue d, and that is all.
Onward(x, z, q, d) ==
    /\ \A a \in Cpus : z[a].then = x[a].then /\ (Choosing(z[a]) <=> Choosing(x[a]))
    /\ \A p : Pushing(x, p) => Pushing(z, p)
    /\ \A p, g : Lowering(x, p, g) => Lowering(z, p, g)
    /\ \A b : \A p \in Cpus : Pulling(x, b, p) => Pulling(z, b, p) \/ (b = q /\ p = d)

LEMMA OnwardIs ==
    ASSUME NEW x, NEW z, NEW c \in Cpus, ButFor(x, z, c), x[c].at = "pull", x[c].dest \in Cpus,
           z[c].at = "pull", z[c].q = x[c].q, z[c].then = x[c].then, z[c].who = x[c].who,
           z[c].dest = x[c].dest + 1
    PROVE  Onward(x, z, x[c].q, x[c].dest)
  <1>1. \A a \in Cpus : z[a].then = x[a].then /\ (Choosing(z[a]) <=> Choosing(x[a]))
    BY DEF ButFor, Choosing
  <1>2. \A p : Pushing(x, p) => Pushing(z, p)
    BY ContextLeft
  <1>3. \A p, g : Lowering(x, p, g) => Lowering(z, p, g)
    BY ContextLeft, ContextNow
  <1>4. ASSUME NEW b, NEW p \in Cpus, Pulling(x, b, p)
        PROVE  Pulling(z, b, p) \/ (b = x[c].q /\ p = x[c].dest)
    <2>1. Pulling(z, b, p) \/ (x[c].q = b /\ x[c].dest <= p)
      BY <1>4, ContextLeft
    <2>2. x[c].dest \in Nat /\ p \in Nat
      BY CpuAssumption
    <2>3. x[c].dest <= p => p = x[c].dest \/ z[c].dest <= p
      BY <2>2
    <2> QED BY <2>1, <2>3, ContextNow
  <1> QED BY <1>1, <1>2, <1>3, <1>4 DEF Onward

\* Nothing is taken from queue d: what waits there will be run or pushed.
LEMMA PullSkipCalm ==
    ASSUME NEW s, NEW F, Sound(s, F), Roaming(s), NEW x, Calm(s, x), \A b \in F : Choosing(x[b]),
           NEW q \in Cpus, NEW d \in Cpus, NEW z, Onward(x, z, q, d),
           \/ Cardinality(RtQueued(s, d)) <= 1
           \/ \A t \in Pullable(s, q, d) : ~(/\ s.prio[t] < Highest(s, q)
                                            /\ s.prio[t] >= PrioOf(s, s.curr[d]))
    PROVE  Calm(s, z)
  <1>1. Exact(s) /\ s \in States /\ OnOwn(s, F) /\ Plain(s, x) /\ Quiet(s, x)
    BY DEF Sound, Exact, Calm
  <1>2. Plain(s, z)
    BY <1>1 DEF Plain, Onward
  <1>3. \A a \in Cpus : /\ Attended(s, x, a) => Attended(s, z, a)
                        /\ Yields(s, x, a) => Yields(s, z, a)
                        /\ Pushes(s, x, a) => Pushes(s, z, a)
    BY DEF Attended, Yields, Pushes, Onward
  <1>4. s.next[d] < Highest(s, q) => Yields(s, x, d)
    <2>1. SUFFICES ASSUME s.next[d] < Highest(s, q) PROVE Yields(s, x, d)
      OBVIOUS
    <2>2. /\ Highest(s, q) \in 1 .. FairPrio /\ Highest(s, d) \in 1 .. FairPrio
          /\ s.next[d] \in 1 .. FairPrio /\ FairPrio \in Nat
          /\ s.mig[d] \in Int
      BY <1>1, HighestIs, NextIs, ThreadAssumption DEF States
    <2>3. Pushable(s, d) # {}
      BY <1>1, <2>1, <2>2, NextLeast
    <2>4. CASE Cardinality(RtQueued(s, d)) <= 1
      <3>1. s.over[d] => Cardinality(RtQueued(s, d)) > 1
        BY <1>1 DEF Exact, Load
      <3>2. Cardinality(RtQueued(s, d)) \in Nat
        BY FiniteQueues
      <3>3. ~(Cardinality(RtQueued(s, d)) > 1)
        BY <2>4, <3>2
      <3>4. ~s.over[d]
        BY <3>1, <3>3
      <3> QED BY <2>3, <3>4, Alone
    <2>5. CASE \A t \in Pullable(s, q, d) : ~(/\ s.prio[t] < Highest(s, q)
                                             /\ s.prio[t] >= PrioOf(s, s.curr[d]))
      <3>1. PICK t \in Pushable(s, d) : s.next[d] = s.prio[t]
        BY <1>1, <2>3, NextLeast
      <3>2. t \in RtQueued(s, d) /\ Movable(s, t) /\ s.curr[d] # t /\ s.home[t] = d /\ t \in Threads
        BY DEF Pushable, RtMovable, RtQueued, Queued
      <3>3. ~OnCpu(s, t) /\ q \in s.mask[t]
        BY <1>1, <3>2 DEF OnCpu, OnOwn, Roaming
      <3>4. ASSUME NEW u \in RtQueued(s, d), ~OnCpu(s, u), Movable(s, u)
            PROVE  s.prio[t] <= s.prio[u]
        <4>1. u \in Pushable(s, d)
          BY <3>4 DEF Pushable, RtMovable, OnCpu
        <4> QED BY <1>1, <3>1, <4>1, NextIs
      <3>5. t \in Pullable(s, q, d)
        BY <3>2, <3>3, <3>4 DEF Pullable
      <3>6. ~(s.prio[t] >= PrioOf(s, s.curr[d]))
        BY <2>1, <2>5, <3>1, <3>5
      <3>7. Highest(s, d) <= s.prio[t] /\ s.prio[t] \in 1 .. FairPrio
            /\ PrioOf(s, s.curr[d]) \in 0 .. FairPrio + 1
        <4>1. s.curr[d] \in Threads \cup {Idle, Stopper}
          BY <1>1 DEF States
        <4> QED BY <1>1, <3>2, <4>1, HighestIs, PrioOfTasks
      <3>8. Urgent(s, d)
        BY <2>1, <2>2, <3>1, <3>6, <3>7 DEF Urgent
      <3> QED BY <3>8 DEF Yields
    <2> QED BY <2>4, <2>5
  <1>5. ASSUME NEW a \in Cpus, NEW b \in Cpus, Offered(s, x, a, b)
        PROVE  Offered(s, z, a, b)
    <2>1. Pulling(x, b, a) => Pulling(z, b, a) \/ (b = q /\ a = d)
      BY DEF Onward
    <2>2. Yields(s, x, d) => Pushes(s, z, d)
      BY <1>3 DEF Pushes
    <2> QED BY <1>3, <1>4, <1>5, <2>1, <2>2 DEF Offered
  <1>6. s.up \subseteq Cpus
    BY <1>1 DEF States
  <1>7. Quiet(s, z)
    BY <1>1, <1>3, <1>5, <1>6 DEF Quiet
  <1> QED BY <1>2, <1>7 DEF Calm

\* The most urgent task that may run on q goes there from queue d.
LEMMA PullMoveCalm ==
    ASSUME NEW s, NEW F, Sound(s, F), Roaming(s), NEW x, Calm(s, x), \A b \in F : Choosing(x[b]),
           NEW q \in Cpus, NEW d \in Cpus, NEW z, Onward(x, z, q, d),
           NEW t \in Pullable(s, q, d), s.prio[t] < Highest(s, q), s.prio[t] >= PrioOf(s, s.curr[d]),
           NEW m, m = Move(s, t, q),
           s.resched[q] \/ Choosing(z[q]) \/ Lowering(z, q, s.curr[q]),
           Highest(s, d) < Highest(m, d) => \A a \in Cpus \ {q, d} : m.next[a] = FairPrio
    PROVE  Calm(m, z) /\ Sound(m, F)
  <1>1. Exact(s) /\ s \in States /\ OnOwn(s, F) /\ Plain(s, x) /\ Quiet(s, x)
    BY DEF Sound, Exact, Calm
  <1>2. /\ t \in RtQueued(s, d) /\ ~OnCpu(s, t) /\ q \in s.mask[t] /\ Movable(s, t)
        /\ \A u \in RtQueued(s, d) : ~OnCpu(s, u) /\ q \in s.mask[u] /\ Movable(s, u) => s.prio[t] <= s.prio[u]
    BY DEF Pullable
  <1>3. t \in Threads /\ s.onRq[t] /\ s.home[t] = d /\ s.prio[t] < FairPrio
    BY <1>2 DEF RtQueued, Queued
  <1>4. /\ \A a \in Cpus : Highest(s, a) \in 1 .. FairPrio /\ s.next[a] \in 1 .. FairPrio
                           /\ PrioOf(s, s.curr[a]) \in 0 .. FairPrio + 1
        /\ s.prio[t] \in 1 .. FairPrio /\ FairPrio \in Nat
    <2>1. s.curr \in [Cpus -> Threads \cup {Idle, Stopper}] /\ s.prio[t] \in 1 .. FairPrio
      BY <1>1, <1>3 DEF States
    <2> QED BY <1>1, <2>1, HighestIs, NextIs, PrioOfTasks, ThreadAssumption
  <1>5. Highest(s, d) <= s.prio[t]
    BY <1>1, <1>2, HighestIs
  <1>6. d # q
    BY <1>4, <1>5
  <1>7. Sound(m, F)
    BY <1>2, <1>3, MoveSound
  <1>8. /\ m.prio = s.prio /\ m.mask = s.mask /\ m.curr = s.curr
        /\ m.resched = s.resched /\ m.post = s.post /\ m.online = s.online /\ m \in States
    <2>1. /\ Exact(m) /\ m \in States /\ SameRest(s, m) /\ m.stray = s.stray \ {t}
          /\ m.home[t] = q /\ \A u \in Threads \ {t} : m.home[u] = s.home[u]
          /\ \A u \in Threads : m.onRq[u] <=> s.onRq[u]
          /\ m.prio = s.prio /\ m.mask = s.mask /\ m.curr = s.curr
          /\ m.resched = s.resched /\ m.post = s.post /\ m.online = s.online
      BY <1>1, <1>3, MoveIs
    <2> QED BY <2>1
  <1>9. /\ \A a \in Cpus \ {q, d} : Highest(m, a) = Highest(s, a)
        /\ RtQueued(m, d) = RtQueued(s, d) \ {t} /\ s.next[d] <= m.next[d]
        /\ t \in Pushable(s, d)
        /\ Highest(m, q) <= s.prio[t] /\ Highest(m, q) \in {Highest(s, q), s.prio[t]}
    <2>1. s.onRq[t] /\ s.prio[t] < FairPrio /\ Movable(s, t) /\ ~OnCpu(s, t) /\ d = s.home[t]
          /\ q # d /\ m = Move(s, t, q)
      BY <1>2, <1>3, <1>6
    <2>2. /\ Exact(m)
          /\ \A a \in Cpus \ {d, q} : /\ Highest(m, a) = Highest(s, a) /\ m.next[a] = s.next[a]
                                      /\ Pushable(m, a) = Pushable(s, a)
          /\ Highest(s, d) <= Highest(m, d) /\ s.next[d] <= m.next[d]
          /\ RtQueued(m, d) = RtQueued(s, d) \ {t}
          /\ t \in Pushable(s, d) /\ t \in Pushable(m, q)
          /\ Highest(m, q) <= Highest(s, q) /\ Highest(m, q) <= s.prio[t]
          /\ Highest(m, q) \in {Highest(s, q), s.prio[t]}
          /\ m.next[q] \in {s.next[q], s.prio[t]} /\ m.next[q] <= s.next[q]
          /\ m.next[q] <= s.prio[t]
      BY <1>3, <2>1, MoveViews
    <2> QED BY <2>2
  <1>10. Highest(m, q) = s.prio[t]
    BY <1>4, <1>9
  <1>11. \A u : PrioOf(m, u) = PrioOf(s, u)
    BY <1>8 DEF PrioOf
  <1>12. m.next[d] \in 1 .. FairPrio
    BY <1>8 DEF States
  <1>13. s.prio[t] <= m.next[d]
    <2>1. PICK u \in Pushable(s, d) : s.next[d] = s.prio[u]
      BY <1>1, <1>9, NextLeast
    <2>2. u \in RtQueued(s, d) /\ Movable(s, u) /\ s.curr[d] # u /\ s.home[u] = d /\ u \in Threads
      BY DEF Pushable, RtMovable, RtQueued, Queued
    <2>3. ~OnCpu(s, u) /\ q \in s.mask[u]
      BY <1>1, <2>2 DEF OnCpu, OnOwn, Roaming
    <2>4. s.prio[t] <= s.next[d]
      BY <1>2, <2>1, <2>2, <2>3
    <2> QED BY <1>4, <1>9, <1>12, <2>4
  \* Queue q will run the task, or choose again.
  <1>14. Yields(m, z, q)
    <2>1. CASE Urgent(m, q)
      BY <2>1 DEF Yields
    <2>2. CASE ~Urgent(m, q)
      <3> DEFINE u == s.curr[q]
      <3>1. u \in Threads \cup {Idle, Stopper} /\ PrioOf(s, u) <= s.prio[t]
        <4>1. u \in Threads \cup {Idle, Stopper}
          BY <1>1 DEF States
        <4>2. ~(s.prio[t] < PrioOf(s, u))
          BY <1>3, <1>8, <1>10, <1>11, <2>2 DEF Urgent
        <4> QED BY <1>4, <4>1, <4>2
      <3>2. CASE u = Stopper
        BY <1>8, <3>2 DEF Yields
      <3>3. CASE u # Stopper
        <4>1. u \in Threads
          BY <1>4, <3>1, <3>3 DEF PrioOf
        <4>2. s.prio[u] < Highest(s, q) /\ s.prio[u] < FairPrio
          <5>1. PrioOf(s, u) = s.prio[u] /\ s.prio[u] \in 1 .. FairPrio
            BY <1>1, <4>1, PrioOfTasks
          <5> QED BY <1>3, <1>4, <3>1, <5>1
        <4>3. u \notin RtQueued(s, q)
          <5>1. u \in RtQueued(s, q) => Highest(s, q) <= s.prio[u]
            BY <1>1, HighestIs
          <5>2. s.prio[u] \in 1 .. FairPrio
            BY <1>1, <4>1 DEF States
          <5> QED BY <1>4, <4>2, <5>1, <5>2
        <4>4. s.home[u] = q /\ (q \notin F => s.onRq[u])
          BY <1>1, <4>1 DEF OnOwn
        <4>5. q \in F
          BY <4>1, <4>2, <4>3, <4>4 DEF RtQueued, Queued
        <4>6. Choosing(z[q])
          BY <4>5 DEF Onward
        <4> QED BY <4>6 DEF Yields
      <3> QED BY <3>2, <3>3
    <2> QED BY <2>1, <2>2
  \* What is left on queue d will be run, pushed or pulled as before.
  <1>15. ASSUME NEW b \in Cpus \ {d}, m.online[b], s.online[d] PROVE Offered(m, z, d, b)
    <2>1. SUFFICES ASSUME m.next[d] < Highest(m, b)
                   PROVE  Pushes(m, z, d) \/ Pulling(z, b, d)
      BY DEF Offered
    <2>2. b # q /\ b \in Cpus /\ b # d
      BY <1>4, <1>10, <1>12, <1>13, <2>1
    <2>3. s.next[d] < Highest(s, b)
      BY <1>4, <1>9, <1>12, <2>1, <2>2
    <2>4. Pushes(s, x, d) \/ Pulling(x, b, d)
      BY <1>1, <1>8, <1>15, <2>2, <2>3 DEF Quiet, Offered
    <2>5. Pulling(x, b, d) => Pulling(z, b, d)
      BY <2>2 DEF Onward
    <2>6. Urgent(s, d) => Urgent(m, d)
      <3>1. SUFFICES ASSUME Urgent(s, d) PROVE Urgent(m, d)
        OBVIOUS
      <3>2. Highest(s, d) < FairPrio /\ Highest(s, d) < s.prio[t]
            /\ Highest(s, d) < PrioOf(s, s.curr[d])
        BY <1>4, <3>1 DEF Urgent
      <3>3. PICK u \in RtQueued(s, d) : s.prio[u] = Highest(s, d)
        BY <1>1, <1>4, <3>2, HighestAttained
      <3>4. u \in RtQueued(m, d)
        BY <1>4, <1>9, <3>2, <3>3
      <3>5. Highest(m, d) <= Highest(s, d) /\ Highest(m, d) \in 1 .. FairPrio
        BY <1>8, <3>3, <3>4, HighestIs
      <3> QED BY <1>4, <1>8, <1>11, <3>2, <3>5 DEF Urgent
    <2>7. Pushes(s, x, d) => Pushes(m, z, d)
      BY <1>8, <2>6 DEF Pushes, Yields, Onward
    <2> QED BY <2>4, <2>5, <2>7
  <1>16. Calm(m, z)
    <2>1. Keeps(m, m) /\ \A a \in Cpus : m.resched[a] => m.resched[a]
      BY DEF Keeps, SameRest
    <2>2. /\ \A a \in Cpus : z[a].then = x[a].then /\ (Choosing(z[a]) <=> Choosing(x[a]))
          /\ \A p : Pushing(x, p) => Pushing(z, p)
          /\ \A p, g : Lowering(x, p, g) => Lowering(z, p, g)
      BY DEF Onward
    <2>3. \A b : \A p \in Cpus : p # d /\ Pulling(x, b, p) => Pulling(z, b, p)
      BY DEF Onward
    <2>4. Urgent(m, q) => Attended(m, z, q)
      BY <1>8 DEF Attended
    <2>5. \A b \in Cpus \ {q} : m.online[b] => Offered(m, z, q, b)
      BY <1>14 DEF Offered, Pushes
    <2>6. \A b \in Cpus \ {d} : m.online[d] /\ m.online[b] => Offered(m, z, d, b)
      BY <1>8, <1>15
    <2> QED BY <1>2, <1>3, <1>6, <2>1, <2>2, <2>3, <2>4, <2>5, <2>6, MoveCalm
  <1> QED BY <1>7, <1>16

LEMMA PullGoesCalm ==
    ASSUME SmpInv, SmpInv', Homes, Calm(k, ctx), NEW c \in Cpus, PullGoes(c),
           ~Misses(ctx[c]), ~Robs
    PROVE  Calm(k', ctx')
  <1> DEFINE x == ctx[c]
             q == x.q
             d == x.dest
             F == Free(ctx)
             y == [x EXCEPT !.dest = d + 1]
             z == [ctx EXCEPT ![c] = y]
  <1>1. /\ Sound(k, F) /\ k \in States /\ ctx \in [Cpus -> Contexts] /\ InLoop(x)
        /\ x.at = "pull" /\ k.stops = {} /\ k.stray = {} /\ x.then \notin {"to", "from"}
        /\ Roaming(k) /\ \A a \in Cpus : CtxHome(ctx[a], a, k.up)
    BY InvParts DEF PullGoes, Calm, Plain, Homes
  <1>2. /\ q \in Cpus /\ d \in Cpus /\ x.then \in {"pick", "prio"} /\ x \in Contexts
        /\ (x.then = "pick" => q = c) /\ (x.then = "prio" => x.who \in Threads)
    BY <1>1 DEF InLoop, PullEnds, CtxHome
  <1>3. PICK s \in PullLocked(k, q, d) : PullRuns(c, x, s, d)
    BY DEF PullGoes
  <1>4. /\ y.at = "pull" /\ y.q = q /\ y.then = x.then /\ y.who = x.who /\ y.dest = d + 1
    BY <1>1, <1>2 DEF Contexts
  <1>5. ButFor(ctx, z, c) /\ z[c] = y /\ DOMAIN ctx = Cpus
    BY <1>1 DEF ButFor
  <1>6. (\A b \in F : Choosing(ctx[b])) /\ Exact(k) /\ OnOwn(k', Free(ctx'))
    <2>1. OnOwn(k', Free(ctx'))
      BY DEF SmpInv, Sound
    <2> QED BY <1>1, <2>1 DEF Free, Sound
  <1> HIDE DEF x, q, d, F, y, z
  <1>7. ctx[c].at = "pull" /\ ctx[c].dest = d /\ ctx[c].q = q /\ ctx[c].then = x.then
        /\ ctx[c].who = x.who /\ x.q = q
    BY <1>1 DEF x, d, q
  <1>8. Onward(ctx, z, q, d)
    BY <1>2, <1>4, <1>5, <1>7, OnwardIs
  <1>9. \A b \in F : Choosing(z[b])
    BY <1>6, <1>8 DEF Onward, F, Free
  <1>10. d \in Nat
    BY <1>2, CpuAssumption
  <1>11. z[c].at = "pull" /\ z[c].q = q /\ z[c].then = x.then /\ z[c].who = x.who /\ z[c].dest = d + 1
    BY <1>4, <1>5
  <1>12. ASSUME Calm(s, z), Sound(s, F) PROVE Calm(k', ctx')
    BY <1>2, <1>3, <1>5, <1>7, <1>9, <1>10, <1>11, <1>12, PullRunsCalm
  <1>13. CASE /\ s = k
              /\ \/ Cardinality(RtQueued(k, d)) <= 1
                 \/ \A t \in Pullable(k, q, d) : ~(/\ k.prio[t] < Highest(k, q)
                                                  /\ k.prio[t] >= PrioOf(k, k.curr[d]))
    <2>1. Calm(k, z)
      BY <1>1, <1>2, <1>6, <1>8, <1>13, PullSkipCalm
    <2> QED BY <1>1, <1>12, <1>13, <2>1
  <1>14. ASSUME NEW t \in Pullable(k, q, d), k.prio[t] < Highest(k, q),
                k.prio[t] >= PrioOf(k, k.curr[d]), s = Move(k, t, q)
         PROVE  Calm(k', ctx')
    <2>1. /\ t \in RtQueued(k, d) /\ ~OnCpu(k, t) /\ q \in k.mask[t] /\ t \in Threads
          /\ k.onRq[t] /\ k.home[t] = d
      BY <1>14 DEF Pullable, RtQueued, Queued
    <2>2. Highest(k, d) <= k.prio[t] /\ Highest(k, d) \in 1 .. FairPrio /\ k.prio[t] \in 1 .. FairPrio
          /\ Highest(k, q) \in 1 .. FairPrio
      BY <1>1, <1>2, <2>1, HighestIs DEF States
    <2>3. d # q
      BY <1>14, <2>2
    <2>4. Sound(s, F)
      BY <1>1, <1>14, <2>1, MoveSound
    <2>5. Keeps(s, k') /\ \A a \in Cpus \ {q} : k'.curr[a] = s.curr[a]
      BY <1>2, <1>3, <1>7, <2>4, PullRunsKeeps
    <2>6. /\ Exact(s) /\ s \in States /\ SameRest(k, s) /\ s.stray = k.stray \ {t}
          /\ s.home[t] = q /\ \A u \in Threads \ {t} : s.home[u] = k.home[u]
          /\ \A u \in Threads : s.onRq[u] <=> k.onRq[u]
          /\ s.prio = k.prio /\ s.mask = k.mask /\ s.curr = k.curr
          /\ s.resched = k.resched /\ s.post = k.post /\ s.online = k.online
      <3>1. Exact(k) /\ t \in Threads /\ k.onRq[t] /\ q \in Cpus /\ s = Move(k, t, q)
        BY <1>2, <1>6, <1>14, <2>1
      <3> QED BY <3>1, MoveIs
    <2>7. k'.home # k.home
      BY <2>1, <2>3, <2>5, <2>6 DEF Keeps
    <2>8. Highest(k, d) < Highest(s, d) => \A a \in Cpus \ {d, q} : s.next[a] = FairPrio
      <3>1. \A a \in Cpus \ {d, q} : k'.curr[a] = s.curr[a]
        BY <2>5
      <3> QED BY <1>2, <1>6, <2>1, <2>3, <2>5, <2>6, <3>1, RobsNone
    <2>9. k.resched[q] \/ Choosing(z[q]) \/ Lowering(z, q, k.curr[q])
      <3>1. CASE x.then = "pick"
        BY <1>2, <1>11, <3>1 DEF Choosing
      <3>2. CASE x.then = "prio" /\ k.curr[q] = x.who
        <4>1. Lowering(z, q, x.who)
          BY <1>11, <3>2, ContextNow
        <4> QED BY <3>2, <4>1
      <3>3. CASE x.then = "prio" /\ k.curr[q] # x.who
        <4>1. k.resched[q] \/ ctx[q].then = "pick"
          BY <1>7, <2>7, <3>3 DEF Misses
        <4>2. ctx[q].then = "pick" => Choosing(z[q])
          BY <1>1, <1>2, <1>8 DEF CtxHome, Choosing, Onward
        <4> QED BY <4>1, <4>2
      <3> QED BY <1>2, <3>1, <3>2, <3>3
    <2>10. Highest(k, d) < Highest(s, d) => \A a \in Cpus \ {q, d} : s.next[a] = FairPrio
      BY <2>8
    <2>11. Calm(s, z)
      BY <1>1, <1>2, <1>6, <1>8, <1>14, <2>9, <2>10, PullMoveCalm
    <2> QED BY <1>12, <2>4, <2>11
  <1>15. \/ /\ s = k
            /\ \/ Cardinality(RtQueued(k, d)) <= 1
               \/ \A t \in Pullable(k, q, d) : ~(/\ k.prio[t] < Highest(k, q)
                                                /\ k.prio[t] >= PrioOf(k, k.curr[d]))
         \/ \E t \in Pullable(k, q, d) : /\ k.prio[t] < Highest(k, q)
                                        /\ k.prio[t] >= PrioOf(k, k.curr[d])
                                        /\ s = Move(k, t, q)
    <2> DEFINE some == {t \in Pullable(k, q, d) : /\ k.prio[t] < Highest(k, q)
                                                 /\ k.prio[t] >= PrioOf(k, k.curr[d])}
    <2>1. s \in IF Cardinality(RtQueued(k, d)) <= 1 \/ some = {} THEN {k}
                ELSE {Move(k, t, q) : t \in some}
      BY <1>3 DEF PullLocked
    <2>2. CASE Cardinality(RtQueued(k, d)) <= 1 \/ some = {}
      BY <2>1, <2>2
    <2>3. CASE ~(Cardinality(RtQueued(k, d)) <= 1 \/ some = {})
      <3>1. PICK t \in some : s = Move(k, t, q)
        BY <2>1, <2>3
      <3> QED BY <3>1
    <2> QED BY <2>2, <2>3
  <1> QED BY <1>13, <1>14, <1>15

-----------------------------------------------------------------------------
(* A task joins a queue *)

\* Like s, but for the tasks of the queues, and with more to choose again.
SameRun(s, r) ==
    /\ r.prio = s.prio /\ r.curr = s.curr /\ r.post = s.post /\ r.up = s.up
    /\ r.online = s.online /\ \A a \in Cpus : s.resched[a] => r.resched[a]

\* A real-time task t joins queue q: it makes way for it, or will push it.
LEMMA MoreCalm ==
    ASSUME NEW s, Exact(s), NEW x, Quiet(s, x), NEW q \in Cpus, NEW t \in Threads,
           s.prio[t] < FairPrio, NEW g, Exact(g), SameRun(s, g),
           \A a \in Cpus \ {q} : /\ RtQueued(g, a) = RtQueued(s, a)
                                 /\ Pushable(g, a) = Pushable(s, a),
           RtQueued(g, q) = RtQueued(s, q) \cup {t},
           Pushable(g, q) \in {Pushable(s, q), Pushable(s, q) \cup {t}},
           s.prio[t] < PrioOf(s, s.curr[q]) => g.resched[q],
           NEW z, Carries(x, z), t \in Pushable(g, q) => Pushes(g, z, q)
    PROVE  Quiet(g, z)
  <1>1. s \in States /\ g \in States /\ s.up \subseteq Cpus
    BY DEF Exact, States
  <1>2. /\ g.prio = s.prio /\ g.curr = s.curr /\ g.post = s.post /\ g.up = s.up
        /\ g.online = s.online /\ \A a \in Cpus : s.resched[a] => g.resched[a]
        /\ \A u : PrioOf(g, u) = PrioOf(s, u)
    BY DEF SameRun, PrioOf
  <1>3. \A a \in Cpus \ {q} : Highest(g, a) = Highest(s, a) /\ g.next[a] = s.next[a]
    <2>1. SUFFICES ASSUME NEW a \in Cpus \ {q}
                   PROVE  Highest(g, a) = Highest(s, a) /\ g.next[a] = s.next[a]
      OBVIOUS
    <2>2. /\ RtQueued(g, a) = RtQueued(s, a) /\ Pushable(g, a) = Pushable(s, a)
          /\ \A u \in RtQueued(s, a) : g.prio[u] = s.prio[u]
      BY <1>2
    <2> QED BY <2>2, QueueSame
  <1>4. /\ Highest(g, q) <= Highest(s, q) /\ Highest(g, q) <= s.prio[t]
        /\ Highest(g, q) \in {Highest(s, q), s.prio[t]}
        /\ g.next[q] \in {s.next[q], s.prio[t]}
        /\ g.next[q] # s.next[q] => t \in Pushable(g, q) /\ g.next[q] < s.next[q]
        /\ g.next[q] <= s.next[q]
        /\ t \in Pushable(g, q) => g.next[q] <= s.prio[t]
    <2>1. \A u \in RtQueued(g, q) : g.prio[u] = s.prio[u]
      BY <1>2
    <2> QED BY <2>1, OneMore
  <1>5. /\ \A a \in Cpus : /\ Highest(s, a) \in 1 .. FairPrio /\ Highest(g, a) \in 1 .. FairPrio
                           /\ s.next[a] \in 1 .. FairPrio /\ g.next[a] \in 1 .. FairPrio
                           /\ PrioOf(s, s.curr[a]) \in 0 .. FairPrio + 1
        /\ s.prio[t] \in 1 .. FairPrio /\ FairPrio \in Nat
    <2>1. s.curr \in [Cpus -> Threads \cup {Idle, Stopper}] /\ s.prio[t] \in 1 .. FairPrio
      BY <1>1 DEF States
    <2> QED BY <1>1, <2>1, HighestIs, NextIs, PrioOfTasks, ThreadAssumption
  <1>6. \A a \in Cpus : Attended(s, x, a) => Attended(g, z, a)
    BY <1>2 DEF Attended, Carries
  <1>7. ASSUME NEW a \in g.up, Urgent(g, a) PROVE Attended(g, z, a)
    <2>1. a \in Cpus /\ a \in s.up
      BY <1>1, <1>2
    <2>2. CASE Urgent(s, a)
      BY <1>6, <2>1, <2>2 DEF Quiet
    <2>3. CASE ~Urgent(s, a)
      <3>1. a = q /\ Highest(g, q) # Highest(s, q)
        BY <1>2, <1>3, <1>7, <2>1, <2>3 DEF Urgent
      <3>2. s.prio[t] < PrioOf(s, s.curr[q])
        BY <1>2, <1>4, <1>7, <3>1 DEF Urgent
      <3> QED BY <3>1, <3>2 DEF Attended
    <2> QED BY <2>2, <2>3
  <1>8. \A a \in Cpus : Urgent(s, a) => Urgent(g, a)
    <2>1. \A a \in Cpus : Highest(g, a) <= Highest(s, a)
      BY <1>3, <1>4, <1>5
    <2> QED BY <1>2, <1>5, <2>1 DEF Urgent
  <1>9. \A a \in Cpus : Pushes(s, x, a) => Pushes(g, z, a)
    BY <1>2, <1>8 DEF Pushes, Yields, Carries
  <1>10. ASSUME NEW a \in Cpus, NEW b \in Cpus, a # b, s.online[a], s.online[b]
         PROVE  Offered(g, z, a, b)
    <2>1. SUFFICES ASSUME g.next[a] < Highest(g, b)
                   PROVE  Pushes(g, z, a) \/ Pulling(z, b, a)
      BY DEF Offered
    <2>2. Highest(g, b) <= Highest(s, b)
      BY <1>3, <1>4, <1>5
    <2>3. CASE g.next[a] = s.next[a]
      <3>1. s.next[a] < Highest(s, b)
        BY <1>5, <2>1, <2>2, <2>3
      <3>2. Pushes(s, x, a) \/ Pulling(x, b, a)
        BY <1>10, <3>1 DEF Quiet, Offered
      <3> QED BY <1>9, <3>2 DEF Carries
    <2>4. CASE g.next[a] # s.next[a]
      BY <1>3, <1>4, <2>4
    <2> QED BY <2>3, <2>4
  <1> QED BY <1>2, <1>7, <1>10 DEF Quiet

\* ttwu_do_activate: the task that was woken runs, waits or is pushed.
LEMMA ActivateCalm ==
    ASSUME NEW s, NEW F, Sound(s, F), Roaming(s), Calm(s, ctx),
           F \subseteq Cpus, \A b \in F : Choosing(ctx[b]),
           DOMAIN ctx = Cpus, NEW c \in Cpus, ctx[c].at \in {"none", "wake"},
           NEW t \in Threads, s.st[t] = "waking", NEW who \in Threads \cup {NoOne},
           Activate(c, s, t, who)
    PROVE  Calm(k', ctx')
  <1> DEFINE q == s.home[t]
             a == InState(s, t, "run")
             b == Enqueue(a, t)
  <1>1. PICK g \in CheckPreempt(b, q, t) :
            IF PushesWoken(g, q, t)
            THEN \E r \in PushStart(g, q) : PushRuns(c, Loop(q, "woken", who), r)
            ELSE k' = g /\ Leave(c, NoCtx)
    BY DEF Activate, InState
  <1>2. /\ Exact(s) /\ s \in States /\ ~s.onRq[t] /\ q \in Cpus /\ Plain(s, ctx) /\ Quiet(s, ctx)
        /\ s.prio \in [Threads -> 1 .. FairPrio] /\ FairPrio \in Nat
        /\ s.curr \in [Cpus -> Threads \cup {Idle, Stopper}]
    BY ThreadAssumption DEF Sound, Exact, States, Awake, Calm
  <1>3. /\ a \in States /\ SameTasks(s, a) /\ SamePush(s, a) /\ SameLoad(s, a) /\ SameFlags(s, a)
        /\ a.up = s.up /\ a.stops = s.stops
    <2>1. "run" \in {"sleep", "waking", "run"} /\ s \in States /\ t \in Threads /\ a = InState(s, t, "run")
      BY <1>2
    <2> HIDE DEF a
    <2>2. /\ a \in States /\ a.st = [s.st EXCEPT ![t] = "run"]
          /\ SameTasks(s, a) /\ SamePush(s, a) /\ SameLoad(s, a) /\ SameFlags(s, a)
          /\ a.wakeList = s.wakeList /\ a.up = s.up /\ a.active = s.active /\ a.stops = s.stops
      BY <2>1, InStateFields
    <2> QED BY <2>2
  <1>4. Sound(b, F)
    BY ActivatedSound
  <1>5. b = Enqueue(a, t)
    OBVIOUS
  <1> HIDE DEF a, b
  <1>6. Exact(a) /\ ~a.onRq[t]
    <2>1. Exact(a)
      BY <1>2, <1>3, SameTasksExact
    <2> QED BY <1>2, <1>3, <2>1 DEF SameTasks
  <1>7. Moved(a, b, t) /\ b.onRq[t] /\ b \in States
    <2>1. Exact(b) /\ Moved(a, b, t) /\ b.onRq[t]
      BY <1>5, <1>6, EnqueueExact
    <2> QED BY <2>1 DEF Exact
  <1>8. Sound(g, F) /\ SameTasks(b, g) /\ Exact(g) /\ g \in States
    <2>1. Sound(g, F) /\ Frame(b, g) /\ SameTasks(b, g) /\ SamePush(b, g)
      BY <1>2, <1>4, CheckPreemptSound
    <2> QED BY <2>1 DEF Sound, Exact
  <1>9. /\ g \in States /\ Keeps(b, g)
        /\ \A d \in Cpus : b.resched[d] => g.resched[d]
        /\ g.post = b.post /\ g.curr = b.curr /\ g.push = b.push /\ g.next = b.next
        /\ b.prio[t] < PrioOf(b, b.curr[q]) /\ b.prio[t] # FairPrio => g.resched[q]
    BY <1>2, <1>7, CheckPreemptIs
  <1>10. /\ g.prio = s.prio /\ g.curr = s.curr /\ g.mask = s.mask /\ g.home = s.home
         /\ g.post = s.post /\ g.up = s.up /\ g.online = s.online
         /\ g.stops = s.stops /\ g.stray = s.stray
         /\ \A d \in Cpus : s.resched[d] => g.resched[d]
    <2>1. /\ a.prio = s.prio /\ a.curr = s.curr /\ a.mask = s.mask /\ a.home = s.home
          /\ a.post = s.post /\ a.up = s.up /\ a.online = s.online
          /\ a.stops = s.stops /\ a.stray = s.stray /\ a.resched = s.resched
      BY <1>3 DEF SameTasks, SameLoad, SameFlags
    <2>2. /\ b.prio = a.prio /\ b.curr = a.curr /\ b.mask = a.mask /\ b.home = a.home
          /\ b.post = a.post /\ b.up = a.up /\ b.online = a.online
          /\ b.stops = a.stops /\ b.stray = a.stray /\ b.resched = a.resched
      BY <1>7 DEF Moved, OtherFlag, SameRest, SameFlags
    <2>3. /\ g.prio = b.prio /\ g.mask = b.mask /\ g.home = b.home /\ g.up = b.up
          /\ g.online = b.online /\ g.stops = b.stops /\ g.stray = b.stray
      BY <1>9 DEF Keeps, SameRest
    <2> QED BY <1>9, <2>1, <2>2, <2>3
  <1>11. \A u : PrioOf(g, u) = PrioOf(s, u) /\ PrioOf(b, u) = PrioOf(s, u)
    <2>1. b.prio = s.prio
      BY <1>3, <1>7 DEF SameTasks, Moved, OtherFlag
    <2> QED BY <1>10, <2>1 DEF PrioOf
  <1>12. SameRun(s, g)
    BY <1>10 DEF SameRun
  <1>13. \A d \in Cpus : /\ RtQueued(a, d) = RtQueued(s, d) /\ RtQueued(g, d) = RtQueued(b, d)
                         /\ Pushable(a, d) = Pushable(s, d) /\ Pushable(g, d) = Pushable(b, d)
    BY <1>3, <1>8, SameTasksSameQueues
  <1>14. \A d \in Cpus : d # q \/ s.prio[t] = FairPrio =>
             RtQueued(g, d) = RtQueued(s, d) /\ Pushable(g, d) = Pushable(s, d)
    <2>1. SUFFICES ASSUME NEW d \in Cpus, d # q \/ s.prio[t] = FairPrio
                   PROVE  RtQueued(g, d) = RtQueued(s, d) /\ Pushable(g, d) = Pushable(s, d)
      OBVIOUS
    <2>2. d # a.home[t] \/ a.prio[t] = FairPrio
      BY <1>3, <2>1 DEF SameTasks
    <2>3. OtherFlag(a, b, t)
      BY <1>7 DEF Moved
    <2>4. RtQueued(b, d) = RtQueued(a, d) /\ Pushable(b, d) = Pushable(a, d)
      BY <1>3, <2>2, <2>3, OtherQueues
    <2> QED BY <1>13, <2>4
  \* What the processor is in the middle of.
  <1>15. ASSUME NEW z, ButFor(ctx, z, c), z[c].then \notin {"to", "from"}, ~Choosing(z[c])
         PROVE  Carries(ctx, z) /\ Plain(g, z)
    <2>1. Carries(ctx, z)
      BY <1>15, NoneLost
    <2>2. \A d \in Cpus \ {c} : z[d] = ctx[d]
      BY <1>15 DEF ButFor
    <2>3. Plain(g, z)
      BY <1>2, <1>10, <1>15, <2>2 DEF Plain
    <2> QED BY <2>1, <2>3
  <1>16. ASSUME NEW z, ButFor(ctx, z, c), z[c].then \notin {"to", "from"}, ~Choosing(z[c]),
                s.prio[t] < FairPrio /\ t \in Pushable(g, q) => Pushes(g, z, q)
         PROVE  Calm(g, z)
    <2>1. Carries(ctx, z) /\ Plain(g, z)
      BY <1>15, <1>16
    <2>2. CASE s.prio[t] = FairPrio
      <3>1. \A d \in Cpus : SameView(s, g, d)
        <4>1. SUFFICES ASSUME NEW d \in Cpus PROVE SameView(s, g, d)
          OBVIOUS
        <4>2. /\ RtQueued(g, d) = RtQueued(s, d) /\ Pushable(g, d) = Pushable(s, d)
              /\ \A u \in RtQueued(s, d) : g.prio[u] = s.prio[u]
          BY <1>10, <1>14, <2>2
        <4>3. Highest(g, d) = Highest(s, d) /\ g.next[d] = s.next[d]
          BY <1>2, <1>8, <4>2, QueueSame
        <4> QED BY <1>10, <1>11, <4>3 DEF SameView
      <3>2. s.up \subseteq Cpus
        BY <1>2 DEF States
      <3>3. Quiet(g, z)
        BY <1>2, <1>10, <2>1, <3>1, <3>2, QuietKept
      <3> QED BY <2>1, <3>3 DEF Calm
    <2>3. CASE s.prio[t] # FairPrio
      <3>1. s.prio[t] < FairPrio
        BY <1>2, <2>3
      <3>2. /\ b.home = s.home /\ b.prio = s.prio /\ a.prio = s.prio /\ a.home = s.home
            /\ a.onRq = s.onRq /\ \A u \in Threads \ {t} : b.onRq[u] = a.onRq[u]
        BY <1>3, <1>7 DEF SameTasks, Moved, OtherFlag
      <3>3. RtQueued(b, q) = RtQueued(a, q) \cup {t}
        <4>1. \A u : u \in RtQueued(b, q) <=> u \in RtQueued(a, q) \cup {t}
          BY <1>7, <3>1, <3>2 DEF RtQueued, Queued
        <4> QED BY <4>1
      <3>4. Pushable(b, q) \in {Pushable(a, q), Pushable(a, q) \cup {t}}
        <4>1. OtherFlag(a, b, t) /\ a.prio[t] # FairPrio /\ q = a.home[t]
          BY <1>7, <2>3, <3>2 DEF Moved
        <4>2. /\ a.curr[q] # t => Pushable(b, q) = Pushable(a, q) \cup MovableSet(a, t)
              /\ a.curr[q] = t => Pushable(b, q) = Pushable(a, q)
          BY <1>3, <1>6, <1>7, <4>1, JoinedQueue
        <4> QED BY <4>2 DEF MovableSet
      <3>5. s.prio[t] < PrioOf(s, s.curr[q]) => g.resched[q]
        <4>1. b.curr = s.curr
          BY <1>9, <1>10
        <4> QED BY <1>9, <1>11, <2>3, <3>2, <4>1
      <3>6. /\ RtQueued(g, q) = RtQueued(s, q) \cup {t}
            /\ Pushable(g, q) \in {Pushable(s, q), Pushable(s, q) \cup {t}}
        BY <1>2, <1>13, <3>3, <3>4
      <3>7. \A d \in Cpus \ {q} : RtQueued(g, d) = RtQueued(s, d) /\ Pushable(g, d) = Pushable(s, d)
        BY <1>14
      <3>8. Quiet(g, z)
        BY <1>2, <1>8, <1>12, <1>16, <2>1, <3>1, <3>5, <3>6, <3>7, MoreCalm
      <3> QED BY <2>1, <3>8 DEF Calm
    <2> QED BY <2>2, <2>3
  <1>17. CASE ~PushesWoken(g, q, t)
    <2>1. k' = g /\ ctx' = [ctx EXCEPT ![c] = NoCtx]
      BY <1>1, <1>17 DEF Leave
    <2>2. ButFor(ctx, ctx', c) /\ ctx'[c].then \notin {"to", "from"} /\ ~Choosing(ctx'[c])
      BY <2>1 DEF ButFor, NoCtx, Choosing
    <2>3. ASSUME s.prio[t] < FairPrio, t \in Pushable(g, q) PROVE Yields(g, ctx', q)
      <3>1. Movable(g, t) /\ t \in RtQueued(g, q)
        BY <2>3 DEF Pushable, RtMovable
      <3>2. g.push[q] # <<>>
        BY <1>2, <1>8, <2>3, NextIs
      <3>3. Highest(g, q) <= s.prio[t] /\ Highest(g, q) \in 1 .. FairPrio
            /\ PrioOf(g, g.curr[q]) \in 0 .. FairPrio + 1 /\ s.prio[t] \in 1 .. FairPrio
        <4>1. g.curr[q] \in Threads \cup {Idle, Stopper}
          BY <1>2, <1>10
        <4> QED BY <1>2, <1>8, <1>10, <3>1, <4>1, HighestIs, PrioOfTasks
      <3>4. g.resched[q] \/ s.prio[t] < PrioOf(g, g.curr[q])
        BY <1>2, <1>10, <1>17, <2>3, <3>1, <3>2, <3>3 DEF PushesWoken
      <3>5. s.prio[t] < PrioOf(g, g.curr[q]) => Urgent(g, q)
        BY <1>2, <2>3, <3>3 DEF Urgent
      <3> QED BY <3>4, <3>5 DEF Yields
    <2> QED BY <1>16, <2>1, <2>2, <2>3 DEF Pushes
  <1>18. CASE PushesWoken(g, q, t)
    <2>1. PICK r \in PushStart(g, q) : PushRuns(c, Loop(q, "woken", who), r)
      BY <1>1, <1>18
    <2> DEFINE y == Loop(q, "woken", who)
               p == [NoCtx EXCEPT !.at = "push", !.q = q]
               z == [ctx EXCEPT ![c] = p]
    <2>2. y \in Contexts /\ y.q = q /\ y.then = "woken"
      <3>1. "woken" \in PushEnds \cup PullEnds
        BY DEF PushEnds
      <3> QED BY <1>2, <3>1, LoopIs
    <2>3. p.at = "push" /\ p.q = q /\ p.then = "none"
      BY DEF NoCtx
    <2>4. ButFor(ctx, z, c) /\ z[c] = p
      BY DEF ButFor
    <2>5. PushRuns(c, y, r)
      BY <2>1
    <2> HIDE DEF y, p, z
    <2>6. z[c].at = "push" /\ z[c].q = q /\ z[c].then \notin {"to", "from"} /\ ~Choosing(z[c])
      BY <2>3, <2>4 DEF Choosing
    <2>7. Pushes(g, z, q)
      BY <2>6, ContextNow DEF Pushes
    <2>8. Calm(g, z)
      BY <1>16, <2>4, <2>6, <2>7
    <2>9. Roaming(g)
      BY <1>10 DEF Roaming, Movable
    <2>10. \A d \in F : Choosing(z[d])
      <3>1. ~Choosing(ctx[c])
        BY DEF Choosing
      <3> QED BY <2>4, <3>1 DEF ButFor
    <2>11. PushTo(g, z, q, r)
      BY <1>2, <1>8, <2>1, <2>9, <2>10, PushStartEnds
    <2>12. y.then \in {"post", "woken"} /\ (y.then = "post" => q = c)
      BY <2>2
    <2> QED BY <1>2, <1>8, <2>2, <2>4, <2>5, <2>6, <2>8, <2>11, <2>12, PushRunsCalm
  <1> QED BY <1>17, <1>18

\* What the invariants say together.
LEMMA KnownParts ==
    ASSUME SmpInv, Homes
    PROVE  /\ Sound(k, Free(ctx)) /\ Exact(k) /\ k \in States /\ Roaming(k)
           /\ OnOwn(k, Free(ctx)) /\ Awake(k)
           /\ ctx \in [Cpus -> Contexts] /\ DOMAIN ctx = Cpus /\ k.up \subseteq Cpus
           /\ Free(ctx) \subseteq Cpus /\ \A b \in Free(ctx) : Choosing(ctx[b])
           /\ FairPrio \in Nat
           /\ k.prio \in [Threads -> 1 .. FairPrio]
           /\ k.curr \in [Cpus -> Threads \cup {Idle, Stopper}]
  <1>1. Sound(k, Free(ctx)) /\ k \in States /\ ctx \in [Cpus -> Contexts]
    BY InvParts
  <1>2. Free(ctx) \subseteq Cpus /\ \A b \in Free(ctx) : Choosing(ctx[b])
    BY DEF Free
  <1>3. Exact(k) /\ OnOwn(k, Free(ctx)) /\ Awake(k)
    BY <1>1 DEF Sound
  <1> QED BY <1>1, <1>2, <1>3, ThreadAssumption DEF Homes, States

LEMMA WakeLockedCalm ==
    ASSUME SmpInv, Homes, Calm(k, ctx), NEW c \in Cpus, WakeLocked(c)
    PROVE  Calm(k', ctx')
  <1>1. /\ Sound(k, Free(ctx)) /\ Roaming(k) /\ DOMAIN ctx = Cpus
        /\ Free(ctx) \subseteq Cpus /\ \A b \in Free(ctx) : Choosing(ctx[b])
    BY KnownParts
  <1>2. ctx[c].at = "wake" /\ Activate(c, k, ctx[c].who, ctx[c].who)
    BY DEF WakeLocked
  <1>3. ctx[c].who \in Threads /\ k.st[ctx[c].who] = "waking"
    BY <1>2 DEF SmpInv, CtxInv, InLoop, WakeOk
  <1> DEFINE g == ctx[c].who
  <1>4. ctx[c].at \in {"none", "wake"} /\ g \in Threads /\ k.st[g] = "waking"
        /\ g \in Threads \cup {NoOne} /\ Activate(c, k, g, g)
    BY <1>2, <1>3
  <1> HIDE DEF g
  <1> QED BY <1>1, <1>4, ActivateCalm

LEMMA TtwuPendingCalm ==
    ASSUME SmpInv, Homes, Calm(k, ctx), NEW c \in Cpus, TtwuPending(c)
    PROVE  Calm(k', ctx')
  <1> DEFINE t == Head(k.wakeList[c])
             l == [k.wakeList EXCEPT ![c] = Tail(k.wakeList[c])]
             s == OnList(k, l)
             F == Free(ctx)
  <1>1. /\ Sound(k, F) /\ Exact(k) /\ k \in States /\ Roaming(k) /\ DOMAIN ctx = Cpus
        /\ F \subseteq Cpus /\ \A b \in F : Choosing(ctx[b])
        /\ ctx[c].at = "none" /\ k.wakeList[c] # <<>>
        /\ k.wakeList \in [Cpus -> Seq(Threads)]
    BY KnownParts, ReadyIs DEF TtwuPending, States
  <1>2. Activate(c, s, t, NoOne)
    BY DEF TtwuPending, OnList
  <1>3. /\ t \in Threads /\ k.st[t] = "waking" /\ l \in [Cpus -> Seq(Threads)]
    <2>1. k.wakeList[c] \in Seq(Threads) /\ IsInjective(k.wakeList[c])
      BY <1>1 DEF SmpInv, WakeOk
    <2>2. t \in Range(k.wakeList[c]) /\ t \in Threads /\ Tail(k.wakeList[c]) \in Seq(Threads)
      BY <1>1, <2>1, TailOfList
    <2> HIDE DEF t
    <2> QED BY <1>1, <2>2 DEF SmpInv, WakeOk
  <1> HIDE DEF t, l, F
  <1>4. /\ s \in States /\ s.wakeList = l
        /\ SameTasks(k, s) /\ SamePush(k, s) /\ SameLoad(k, s) /\ SameFlags(k, s)
        /\ s.st = k.st /\ s.up = k.up /\ s.active = k.active /\ s.stops = k.stops
    BY <1>1, <1>3, OnListFields
  <1> HIDE DEF s
  <1>5. Sound(s, F)
    BY <1>1, <1>4, SoundSame DEF SameFlags
  <1>6. /\ s.mask = k.mask /\ s.prio = k.prio /\ s.curr = k.curr /\ s.up = k.up
        /\ s.online = k.online /\ s.resched = k.resched /\ s.post = k.post
        /\ s.next = k.next /\ s.stops = k.stops /\ s.stray = k.stray
    BY <1>4 DEF SameTasks, SamePush, SameLoad, SameFlags
  <1>7. Roaming(s)
    BY <1>1, <1>6 DEF Roaming, Movable
  <1>8. Calm(s, ctx)
    <2>1. \A a \in Cpus : Highest(s, a) = Highest(k, a)
      BY <1>4, SameTasksSameQueues
    <2>2. \A u : PrioOf(s, u) = PrioOf(k, u)
      BY <1>6 DEF PrioOf
    <2>3. \A a \in Cpus : SameView(k, s, a)
      BY <1>6, <2>1, <2>2 DEF SameView
    <2>4. Carries(ctx, ctx)
      BY DEF Carries
    <2>5. k.up \subseteq Cpus /\ Quiet(k, ctx) /\ Plain(k, ctx)
      BY <1>1 DEF Calm, States
    <2>6. Quiet(s, ctx)
      BY <1>6, <2>3, <2>4, <2>5, QuietKept
    <2>7. Plain(s, ctx)
      BY <1>6, <2>5 DEF Plain
    <2> QED BY <2>6, <2>7 DEF Calm
  <1>9. s.st[t] = "waking" /\ NoOne \in Threads \cup {NoOne} /\ ctx[c].at \in {"none", "wake"}
    BY <1>1, <1>3, <1>4
  <1> QED BY <1>1, <1>2, <1>3, <1>5, <1>7, <1>8, <1>9, ActivateCalm

-----------------------------------------------------------------------------
(* schedule() *)

\* What is quiet stays so for the others when processor c goes on.
LEMMA QuietButKept ==
    ASSUME NEW s, NEW x, NEW c \in Cpus, QuietBut(s, x, c), s.up \subseteq Cpus,
           NEW z, Carries(x, z)
    PROVE  QuietBut(s, z, c)
  <1>1. \A d \in Cpus : Attended(s, x, d) => Attended(s, z, d)
    BY DEF Carries, Attended
  <1>2. \A q, d \in Cpus : Offered(s, x, q, d) => Offered(s, z, q, d)
    BY DEF Carries, Offered, Pushes, Yields
  <1>3. \A d \in s.up \ {c} : Urgent(s, d) => Attended(s, z, d)
    BY <1>1 DEF QuietBut
  <1>4. \A q \in Cpus \ {c} : \A d \in Cpus :
           q # d /\ s.online[q] /\ s.online[d] => Offered(s, z, q, d)
    BY <1>2 DEF QuietBut
  <1> QED BY <1>3, <1>4 DEF QuietBut

\* The next task is chosen at once.
LEMMA ChosenCalm ==
    ASSUME NEW s, NEW F, Sound(s, F), NEW c \in Cpus, ~s.post[c], Plain(s, ctx),
           QuietBut(s, ctx, c), ctx[c].at = "none", DOMAIN ctx = Cpus,
           k' \in Pick(s, c), Leave(c, NoCtx)
    PROVE  Calm(k', ctx')
  <1>1. ctx' = [ctx EXCEPT ![c] = NoCtx]
    BY DEF Leave
  <1>2. /\ ButFor(ctx, ctx', c) /\ ctx'[c].at = "none" /\ ctx'[c].then = "none"
        /\ ~Choosing(ctx'[c])
    BY <1>1 DEF ButFor, NoCtx, Choosing
  <1>3. Carries(ctx, ctx')
    BY <1>2, NoneLost
  <1>4. s.up \subseteq Cpus
    BY DEF Sound, Exact, States
  <1>5. QuietBut(s, ctx', c)
    BY <1>3, <1>4, QuietButKept
  <1>6. Plain(s, ctx')
    BY <1>2 DEF Plain, ButFor
  <1> QED BY <1>2, <1>4, <1>5, <1>6, PickCalm

LEMMA QuietIsBut ==
    ASSUME NEW s, NEW x, NEW c \in Cpus, Quiet(s, x), s.up \subseteq Cpus
    PROVE  QuietBut(s, x, c)
  BY DEF Quiet, QuietBut

LEMMA PreemptCurrCalm ==
    ASSUME SmpInv, Homes, Calm(k, ctx), NEW c \in Cpus, PreemptCurr(c)
    PROVE  Calm(k', ctx')
  <1> DEFINE prev == k.curr[c]
  <1>1. /\ Sound(k, Free(ctx)) /\ k \in States /\ DOMAIN ctx = Cpus /\ k.up \subseteq Cpus
        /\ OnOwn(k, Free(ctx)) /\ k.prio \in [Threads -> 1 .. FairPrio] /\ FairPrio \in Nat
    BY KnownParts
  <1>2. ctx[c].at = "none" /\ c \notin Free(ctx) /\ ~k.post[c] /\ ScheduleFrom(c, k)
    BY ReadyIs DEF PreemptCurr
  <1>3. ~(prev \in Threads /\ k.prio[prev] < FairPrio /\ Highest(k, c) > k.prio[prev])
    <2>1. SUFFICES ASSUME prev \in Threads, k.prio[prev] < FairPrio PROVE Highest(k, c) <= k.prio[prev]
      BY <1>1, HighestIs
    <2>2. k.onRq[prev] /\ k.home[prev] = c
      BY <1>1, <1>2, <2>1 DEF OnOwn
    <2>3. prev \in RtQueued(k, c)
      BY <2>1, <2>2 DEF RtQueued, Queued
    <2> QED BY <1>1, <2>3, HighestIs
  <1>4. k' \in Pick(k, c) /\ Leave(c, NoCtx)
    BY <1>2, <1>3 DEF ScheduleFrom
  <1>5. Plain(k, ctx) /\ QuietBut(k, ctx, c)
    BY <1>1, QuietIsBut DEF Calm
  <1> QED BY <1>1, <1>2, <1>4, <1>5, ChosenCalm

LEMMA StopperSleepsCalm ==
    ASSUME SmpInv, Homes, Calm(k, ctx), NEW c \in Cpus, StopperSleeps(c)
    PROVE  Calm(k', ctx')
  <1>1. Sound(k, Free(ctx)) /\ k.up \subseteq Cpus
    BY KnownParts
  <1>2. ctx[c].at = "none" /\ ~k.post[c] /\ k' \in Pick(k, c) /\ ctx' = ctx
    BY ReadyIs DEF StopperSleeps
  <1>3. Plain(k, ctx) /\ QuietBut(k, ctx, c)
    BY <1>1, QuietIsBut DEF Calm
  <1>4. Calm(k', ctx)
    BY <1>1, <1>2, <1>3, PickCalm
  <1> QED BY <1>2, <1>4

\* The running task t of processor c is taken from its queue.
LEMMA LeftView ==
    ASSUME NEW s, NEW F, Sound(s, F), NEW t \in Threads, s.onRq[t],
           NEW v, v = InState(Dequeue(s, t), t, "sleep"), NEW c, c = s.home[t]
    PROVE  /\ Exact(v) /\ v \in States
           /\ v.home = s.home /\ v.prio = s.prio /\ v.mask = s.mask /\ v.curr = s.curr
           /\ v.resched = s.resched /\ v.post = s.post /\ v.up = s.up /\ v.online = s.online
           /\ v.stops = s.stops /\ v.stray = s.stray /\ v.active = s.active
           /\ v.wakeList = s.wakeList /\ v.st[t] = "sleep"
           /\ \A u \in Threads \ {t} : v.onRq[u] = s.onRq[u] /\ v.st[u] = s.st[u]
           /\ ~v.onRq[t]
           /\ \A a \in Cpus : a # c \/ s.prio[t] = FairPrio =>
                 RtQueued(v, a) = RtQueued(s, a) /\ Pushable(v, a) = Pushable(s, a)
           /\ RtQueued(v, c) = RtQueued(s, c) \ {t}
  <1> DEFINE d == Dequeue(s, t)
  <1>1. /\ Exact(s) /\ s \in States /\ s.st \in [Threads -> {"sleep", "waking", "run"}]
        /\ s.home[t] \in Cpus
    BY DEF Sound, Exact, States
  <1>2. Exact(d) /\ Moved(s, d, t) /\ ~d.onRq[t]
    BY <1>1, DequeueExact
  <1>3. v = InState(d, t, "sleep")
    OBVIOUS
  <1> HIDE DEF d
  <1>4. /\ v \in States /\ v.st = [d.st EXCEPT ![t] = "sleep"]
        /\ SameTasks(d, v) /\ SamePush(d, v) /\ SameLoad(d, v) /\ SameFlags(d, v)
        /\ v.wakeList = d.wakeList /\ v.up = d.up /\ v.active = d.active /\ v.stops = d.stops
    <2>1. "sleep" \in {"sleep", "waking", "run"} /\ d \in States
      BY <1>2 DEF Exact
    <2> QED BY <1>3, <2>1, InStateFields
  <1>5. Exact(v)
    BY <1>2, <1>4, SameTasksExact
  <1>6. /\ v.home = s.home /\ v.prio = s.prio /\ v.mask = s.mask /\ v.curr = s.curr
        /\ \A u \in Threads \ {t} : v.onRq[u] = s.onRq[u]
        /\ ~v.onRq[t]
    BY <1>2, <1>4 DEF Moved, OtherFlag, SameTasks
  <1>7. /\ v.resched = s.resched /\ v.post = s.post /\ v.up = s.up /\ v.online = s.online
        /\ v.stops = s.stops /\ v.stray = s.stray /\ v.active = s.active
        /\ v.wakeList = s.wakeList /\ v.st = [s.st EXCEPT ![t] = "sleep"]
    BY <1>2, <1>4 DEF Moved, SameRest, SameFlags, SameLoad
  <1>8. OtherFlag(s, v, t)
    BY <1>6 DEF OtherFlag
  <1>9. ASSUME NEW a \in Cpus, a # c \/ s.prio[t] = FairPrio
        PROVE  RtQueued(v, a) = RtQueued(s, a) /\ Pushable(v, a) = Pushable(s, a)
    BY <1>1, <1>8, <1>9, OtherQueues
  <1>10. RtQueued(v, c) = RtQueued(s, c) \ {t}
    <2>1. \A u : u \in RtQueued(v, c) <=> u \in RtQueued(s, c) \ {t}
      BY <1>6 DEF RtQueued, Queued
    <2> QED BY <2>1
  <1>11. v.st[t] = "sleep" /\ \A u \in Threads \ {t} : v.st[u] = s.st[u]
    BY <1>1, <1>7
  <1> QED BY <1>4, <1>5, <1>6, <1>7, <1>9, <1>10, <1>11

LEMMA SleepCurrCalm ==
    ASSUME SmpInv, Homes, Calm(k, ctx), NEW c \in Cpus, SleepCurr(c)
    PROVE  Calm(k', ctx')
  <1> DEFINE prev == k.curr[c]
             v == InState(Dequeue(k, prev), prev, "sleep")
             F == Free(ctx) \cup {c}
  <1>1. /\ Sound(k, Free(ctx)) /\ Exact(k) /\ k \in States /\ DOMAIN ctx = Cpus
        /\ k.up \subseteq Cpus /\ OnOwn(k, Free(ctx)) /\ Awake(k) /\ Placed(k)
        /\ \A b \in Free(ctx) : Choosing(ctx[b])
        /\ k.prio \in [Threads -> 1 .. FairPrio] /\ FairPrio \in Nat
        /\ Plain(k, ctx) /\ Quiet(k, ctx)
    BY KnownParts DEF Calm, Sound
  <1>2. /\ ctx[c].at = "none" /\ c \notin Free(ctx) /\ ~k.post[c] /\ ScheduleFrom(c, v)
        /\ prev \in Threads /\ k.curr[c] = prev
    BY ReadyIs DEF SleepCurr, InState
  <1>3. k.onRq[prev] /\ k.home[prev] = c /\ k.st[prev] = "run"
    BY <1>1, <1>2 DEF OnOwn, Awake
  <1> HIDE DEF prev
  <1>4. v = InState(Dequeue(k, prev), prev, "sleep") /\ c = k.home[prev]
    BY <1>3
  <1> HIDE DEF v
  <1>5. /\ Exact(v) /\ v \in States
        /\ v.home = k.home /\ v.prio = k.prio /\ v.mask = k.mask /\ v.curr = k.curr
        /\ v.resched = k.resched /\ v.post = k.post /\ v.up = k.up /\ v.online = k.online
        /\ v.stops = k.stops /\ v.stray = k.stray /\ v.active = k.active
        /\ v.wakeList = k.wakeList /\ v.st[prev] = "sleep"
        /\ \A u \in Threads \ {prev} : v.onRq[u] = k.onRq[u] /\ v.st[u] = k.st[u]
        /\ ~v.onRq[prev]
        /\ \A a \in Cpus : a # c \/ k.prio[prev] = FairPrio =>
              RtQueued(v, a) = RtQueued(k, a) /\ Pushable(v, a) = Pushable(k, a)
        /\ RtQueued(v, c) = RtQueued(k, c) \ {prev}
    BY <1>1, <1>2, <1>3, <1>4, LeftView
  <1>6. Sound(v, F)
    <2>1. OnOwn(v, F)
      <3>1. \A e \in Cpus : k.curr[e] = prev => e = c
        BY <1>1, <1>2, <1>3 DEF OnOwn
      <3> QED BY <1>1, <1>5, <3>1 DEF OnOwn
    <2>2. Awake(v)
      BY <1>1, <1>5 DEF Awake
    <2>3. Placed(v)
      <3>1. \A u \in Threads : (v.onRq[u] => k.onRq[u]) /\ (v.st[u] = "waking" => k.st[u] = "waking")
        BY <1>5
      <3> QED BY <1>1, <1>5, <3>1 DEF Placed
    <2> QED BY <1>5, <2>1, <2>2, <2>3 DEF Sound
  <1>7. \A u : PrioOf(v, u) = PrioOf(k, u)
    BY <1>5 DEF PrioOf
  <1>8. \A a \in Cpus : a # c \/ k.prio[prev] = FairPrio =>
            Highest(v, a) = Highest(k, a) /\ v.next[a] = k.next[a]
    <2> SUFFICES ASSUME NEW a \in Cpus, a # c \/ k.prio[prev] = FairPrio
                 PROVE  Highest(v, a) = Highest(k, a) /\ v.next[a] = k.next[a]
      OBVIOUS
    <2>1. RtQueued(v, a) = RtQueued(k, a) /\ Pushable(v, a) = Pushable(k, a)
      BY <1>5
    <2>2. \A t \in RtQueued(k, a) : v.prio[t] = k.prio[t]
      BY <1>5
    <2> QED BY <1>1, <1>5, <2>1, <2>2, QueueSame
  <1>9. \A d \in v.up \ {c} : Urgent(v, d) => Attended(k, ctx, d) /\ Attended(v, ctx, d)
    <2>1. \A d \in Cpus \ {c} : Urgent(v, d) <=> Urgent(k, d)
      BY <1>5, <1>7, <1>8 DEF Urgent
    <2> QED BY <1>1, <1>5, <2>1 DEF Quiet, Attended
  <1>10. \A q \in Cpus \ {c} : Pushes(k, ctx, q) => Pushes(v, ctx, q)
    BY <1>5, <1>7, <1>8 DEF Pushes, Yields, Urgent
  <1>11. \A q \in Cpus \ {c} : \A d \in Cpus :
            /\ q # d /\ v.online[q] /\ v.online[d] /\ v.next[q] < Highest(v, d)
            /\ d # c \/ Highest(v, c) = Highest(k, c)
            => Pushes(v, ctx, q) \/ Pulling(ctx, d, q)
    BY <1>1, <1>5, <1>8, <1>10 DEF Quiet, Offered
  <1>12. CASE ~(k.prio[prev] < FairPrio /\ Highest(v, c) > k.prio[prev])
    <2>1. Highest(v, c) = Highest(k, c)
      <3>1. CASE k.prio[prev] = FairPrio
        BY <1>8, <3>1
      <3>2. CASE k.prio[prev] # FairPrio
        <4>1. Highest(v, c) \in 1 .. FairPrio /\ Highest(k, c) \in 1 .. FairPrio
          BY <1>1, <1>5, HighestIs
        <4>2. Highest(v, c) <= k.prio[prev]
          BY <1>1, <1>2, <1>12, <3>2, <4>1
        <4>3. \A u \in RtQueued(v, c) : u \in RtQueued(k, c) /\ Highest(k, c) <= v.prio[u]
          BY <1>1, <1>5, HighestIs
        <4>4. Highest(v, c) = FairPrio \/ \E u \in RtQueued(v, c) : v.prio[u] = Highest(v, c)
          BY <1>5, HighestAttained
        <4>5. Highest(k, c) = FairPrio \/ \E u \in RtQueued(k, c) : k.prio[u] = Highest(k, c)
          BY <1>1, HighestAttained
        <4>6. \A u \in RtQueued(k, c) : u # prev => Highest(v, c) <= k.prio[u]
          BY <1>5, HighestIs
        <4> QED BY <1>1, <1>2, <4>1, <4>2, <4>3, <4>4, <4>5, <4>6
      <3> QED BY <3>1, <3>2
    <2>2. QuietBut(v, ctx, c)
      BY <1>9, <1>11, <2>1 DEF QuietBut, Offered
    <2>3. k' \in Pick(v, c) /\ Leave(c, NoCtx)
      BY <1>2, <1>5, <1>12 DEF ScheduleFrom
    <2>4. Plain(v, ctx) /\ ~v.post[c]
      BY <1>1, <1>2, <1>5 DEF Plain
    <2> QED BY <1>1, <1>2, <1>6, <2>2, <2>3, <2>4, ChosenCalm
  <1>13. CASE k.prio[prev] < FairPrio /\ Highest(v, c) > k.prio[prev]
    <2> DEFINE y == Loop(c, "pick", NoOne)
               p == [NoCtx EXCEPT !.at = "pull", !.q = c, !.dest = 1, !.then = "pick"]
               z == [ctx EXCEPT ![c] = p]
    <2>1. PullRuns(c, y, v, 0)
      BY <1>2, <1>5, <1>13 DEF ScheduleFrom
    <2>2. y \in Contexts /\ y.q = c /\ y.then = "pick" /\ y.who = NoOne
      <3>1. "pick" \in PushEnds \cup PullEnds /\ NoOne \in Threads \cup {NoOne}
        BY DEF PullEnds
      <3> QED BY <3>1, LoopIs
    <2>3. p.at = "pull" /\ p.q = c /\ p.dest = 1 /\ p.then = "pick" /\ p.who = NoOne
      BY DEF NoCtx
    <2>4. ButFor(ctx, z, c) /\ z[c] = p
      BY <1>1 DEF ButFor
    <2> HIDE DEF y, p, z
    <2>5. z[c].at = "pull" /\ z[c].q = c /\ z[c].dest = 1 /\ z[c].then = "pick" /\ z[c].who = NoOne
          /\ Choosing(z[c])
      BY <2>3, <2>4 DEF Choosing
    <2>6. Carries(ctx, z)
      BY <1>2, <2>4, NoneLost
    <2>7. \A b \in F : Choosing(z[b])
      BY <1>1, <2>5, <2>6 DEF Carries, F, Free
    <2>8. Plain(v, z)
      <3>1. \A a \in Cpus \ {c} : z[a] = ctx[a]
        BY <2>4 DEF ButFor
      <3> QED BY <1>1, <1>2, <1>5, <2>5, <3>1 DEF Plain
    <2>9. \A d \in v.up : Urgent(v, d) => Attended(v, z, d)
      <3>1. \A d \in v.up \ {c} : Attended(v, ctx, d) => Attended(v, z, d)
        BY <1>1, <1>5, <2>6 DEF Attended, Carries
      <3> QED BY <1>9, <2>5, <3>1 DEF Attended
    <2>10. ASSUME NEW q \in Cpus, NEW d \in Cpus, q # d, v.online[q], v.online[d],
                  v.next[q] < Highest(v, d)
           PROVE  Pushes(v, z, q) \/ Pulling(z, d, q)
      <3>1. CASE q = c
        BY <2>5, <3>1 DEF Pushes, Yields
      <3>2. CASE d = c
        <4>1. 1 <= q
          BY CpuAssumption
        <4> QED BY <2>5, <3>2, <4>1, ContextNow
      <3>3. CASE q # c /\ d # c
        <4>1. Pushes(v, ctx, q) \/ Pulling(ctx, d, q)
          BY <1>11, <2>10, <3>3
        <4>2. Pushes(v, ctx, q) => Pushes(v, z, q)
          BY <2>6 DEF Pushes, Yields, Carries
        <4> QED BY <2>6, <4>1, <4>2 DEF Carries
      <3> QED BY <3>1, <3>2, <3>3
    <2>11. Calm(v, z)
      BY <2>8, <2>9, <2>10 DEF Calm, Quiet, Offered
    <2>12. 0 \in Nat /\ z[c].dest = 0 + 1 /\ y.then \in {"pick", "prio"} /\ z[c].then = y.then
           /\ z[c].who = y.who /\ (y.then = "prio" => y.who \in Threads)
      BY <2>2, <2>5
    <2> QED BY <1>1, <1>6, <2>1, <2>2, <2>4, <2>5, <2>7, <2>11, <2>12, PullRunsCalm
  <1> QED BY <1>12, <1>13

LEMMA PostScheduleCalm ==
    ASSUME SmpInv, Homes, Calm(k, ctx), NEW c \in Cpus, PostSchedule(c)
    PROVE  Calm(k', ctx')
  <1>1. /\ Sound(k, Free(ctx)) /\ k \in States /\ DOMAIN ctx = Cpus /\ Roaming(k)
        /\ k.up \subseteq Cpus /\ \A b \in Free(ctx) : Choosing(ctx[b])
        /\ Free(ctx) \subseteq Cpus
        /\ k.prio \in [Threads -> 1 .. FairPrio] /\ FairPrio \in Nat
        /\ Plain(k, ctx) /\ Quiet(k, ctx)
    BY KnownParts DEF Calm
  <1>2. ctx[c].at = "none" /\ c \notin Free(ctx) /\ k.post[c]
    BY ReadyIs DEF PostSchedule
  <1>3. PrioOf(k, k.curr[c]) \in 1 .. FairPrio - 1
    <2>1. k.curr[c] \in Threads /\ k.prio[k.curr[c]] < FairPrio
      BY <1>1, <1>2 DEF Plain
    <2> QED BY <1>1, <2>1, PrioOfTasks
  <1> DEFINE y == Loop(c, "post", NoOne)
             p == [NoCtx EXCEPT !.at = "push", !.q = c]
             z == [ctx EXCEPT ![c] = p]
  <1>4. PICK r \in PushStart(k, c) : PushRuns(c, y, r)
    BY <1>2, <1>3 DEF PostSchedule
  <1>5. y \in Contexts /\ y.q = c /\ y.then = "post"
    <2>1. "post" \in PushEnds \cup PullEnds /\ NoOne \in Threads \cup {NoOne}
      BY DEF PushEnds
    <2> QED BY <2>1, LoopIs
  <1>6. p.at = "push" /\ p.q = c /\ p.then = "none"
    BY DEF NoCtx
  <1>7. ButFor(ctx, z, c) /\ z[c] = p
    BY <1>1 DEF ButFor
  <1> HIDE DEF y, p, z
  <1>8. z[c].at = "push" /\ z[c].q = c /\ z[c].then = "none" /\ ~Choosing(z[c])
    BY <1>6, <1>7 DEF Choosing
  <1>9. Carries(ctx, z)
    BY <1>2, <1>7, NoneLost
  <1>10. \A a \in Cpus \ {c} : z[a] = ctx[a]
    BY <1>7 DEF ButFor
  <1>11. Calm(k, z)
    <2>1. Plain(k, z)
      BY <1>1, <1>8, <1>10 DEF Plain
    <2>2. \A a \in Cpus : SameView(k, k, a)
      BY DEF SameView
    <2>3. Quiet(k, z)
      BY <1>1, <1>9, <2>2, QuietKept
    <2> QED BY <2>1, <2>3 DEF Calm
  <1>12. \A b \in Free(ctx) : Choosing(z[b])
    BY <1>1, <1>9 DEF Carries
  <1>13. PushTo(k, z, c, r)
    BY <1>1, <1>4, <1>12, PushStartEnds
  <1>14. y.then \in {"post", "woken"} /\ (y.then = "post" => c = c) /\ PushRuns(c, y, r)
    BY <1>4, <1>5
  <1> QED BY <1>1, <1>5, <1>7, <1>8, <1>11, <1>13, <1>14, PushRunsCalm

-----------------------------------------------------------------------------
(* What changes of a task that is in no queue *)

Aside(s, r, t) ==
    /\ ~s.onRq[t] /\ r.onRq = s.onRq /\ r.curr = s.curr
    /\ \A u \in Threads \ {t} : r.home[u] = s.home[u] /\ r.prio[u] = s.prio[u] /\ r.mask[u] = s.mask[u]
    /\ r.resched = s.resched /\ r.post = s.post /\ r.up = s.up /\ r.online = s.online
    /\ r.stops = s.stops /\ r.stray = s.stray

LEMMA AsideCalm ==
    ASSUME NEW s, NEW F, Sound(s, F), NEW x, Calm(s, x), \A b \in F : Choosing(x[b]),
           NEW t \in Threads, NEW r, Exact(r), Aside(s, r, t), NEW z, Carries(x, z),
           \A a \in Cpus : /\ z[a].then \in {x[a].then, "woken"}
                           /\ Choosing(z[a]) => Choosing(x[a])
    PROVE  Calm(r, z)
  <1>1. /\ Exact(s) /\ s \in States /\ OnOwn(s, F) /\ Plain(s, x) /\ Quiet(s, x)
        /\ s.up \subseteq Cpus /\ s.curr \in [Cpus -> Threads \cup {Idle, Stopper}]
    BY DEF Sound, Exact, States, Calm
  <1>2. \A a \in Cpus : /\ RtQueued(r, a) = RtQueued(s, a) /\ Pushable(r, a) = Pushable(s, a)
                        /\ \A u \in RtQueued(s, a) : r.prio[u] = s.prio[u]
    <2> SUFFICES ASSUME NEW a \in Cpus
                 PROVE  /\ RtQueued(r, a) = RtQueued(s, a) /\ Pushable(r, a) = Pushable(s, a)
                        /\ \A u \in RtQueued(s, a) : r.prio[u] = s.prio[u]
      OBVIOUS
    <2>1. \A u : u \in RtQueued(r, a) <=> u \in RtQueued(s, a)
      BY DEF Aside, RtQueued, Queued
    <2>2. \A u \in RtQueued(s, a) : u \in Threads \ {t}
      BY DEF Aside, RtQueued, Queued
    <2>3. \A u : u \in Pushable(r, a) <=> u \in Pushable(s, a)
      BY <2>1, <2>2 DEF Aside, Pushable, RtMovable, Movable
    <2> QED BY <2>1, <2>2, <2>3 DEF Aside
  <1>3. \A a \in Cpus : Highest(r, a) = Highest(s, a) /\ r.next[a] = s.next[a]
    BY <1>1, <1>2, QueueSame
  <1>4. \A a \in Cpus : s.curr[a] = t => Choosing(x[a]) /\ Choosing(z[a])
    BY <1>1 DEF OnOwn, Aside, Carries
  <1>5. \A a \in Cpus : s.curr[a] # t => PrioOf(r, r.curr[a]) = PrioOf(s, s.curr[a])
    BY <1>1 DEF Aside, PrioOf
  <1>6. \A a \in Cpus : Urgent(r, a) => Urgent(s, a) \/ Choosing(z[a])
    BY <1>3, <1>4, <1>5 DEF Urgent
  <1>7. \A a \in Cpus : Urgent(s, a) => Urgent(r, a) \/ Choosing(z[a])
    BY <1>3, <1>4, <1>5 DEF Urgent
  <1>8. \A a \in r.up : Urgent(r, a) => Attended(r, z, a)
    BY <1>1, <1>6 DEF Quiet, Attended, Carries, Aside
  <1>9. \A q \in Cpus : Pushes(s, x, q) => Pushes(r, z, q)
    BY <1>7 DEF Pushes, Yields, Carries, Aside
  <1>10. Quiet(r, z)
    BY <1>1, <1>3, <1>8, <1>9 DEF Quiet, Offered, Carries, Aside
  <1>11. \A a \in Cpus : r.post[a] => r.curr[a] \in Threads /\ r.prio[r.curr[a]] < FairPrio
    BY <1>1, <1>4 DEF Plain, Aside
  <1>12. Plain(r, z)
    BY <1>1, <1>11 DEF Plain, Aside
  <1> QED BY <1>10, <1>12 DEF Calm

\* What choosing a processor does of the state, and what it chooses.
Alike(s, r) ==
    /\ r.home = s.home /\ r.onRq = s.onRq /\ r.prio = s.prio /\ r.curr = s.curr
    /\ SameRest(s, r) /\ SameFlags(s, r) /\ r.online = s.online

LEMMA AlikeSame ==
    ASSUME NEW s PROVE Alike(s, s)
  BY DEF Alike, SameRest, SameFlags

LEMMA FallbackIs ==
    ASSUME NEW s, Exact(s), NEW t \in Threads, NEW f \in Fallback(s, t)
    PROVE  /\ Exact(f.s) /\ Alike(s, f.s) /\ f.cpu \in s.up
           /\ f.s.mask \in {s.mask, [s.mask EXCEPT ![t] = Cpus]}
  <1> DEFINE there == s.up \cap s.active
             free == SetMask(s, t, Cpus)
  <1>1. \/ \E d \in s.mask[t] \cap there : f = [s |-> s, cpu |-> d]
        \/ \E d \in there : f = [s |-> free, cpu |-> d]
    BY DEF Fallback
  <1>2. free = SetMask(s, t, Cpus) /\ Cpus \subseteq Cpus
    OBVIOUS
  <1> HIDE DEF free
  <1>3. /\ Exact(free) /\ free.mask = [s.mask EXCEPT ![t] = Cpus]
        /\ free.home = s.home /\ free.onRq = s.onRq /\ free.prio = s.prio /\ free.curr = s.curr
        /\ SameRest(s, free) /\ SameFlags(s, free) /\ free.online = s.online
    BY <1>2, SetMaskExact
  <1>4. CASE \E d \in s.mask[t] \cap there : f = [s |-> s, cpu |-> d]
    BY <1>4, AlikeSame
  <1>5. CASE \E d \in there : f = [s |-> free, cpu |-> d]
    <2>1. f.s = free /\ f.cpu \in s.up
      BY <1>5
    <2> QED BY <1>3, <2>1 DEF Alike
  <1> QED BY <1>1, <1>4, <1>5

LEMMA SelectRqIs ==
    ASSUME NEW s, Exact(s), NEW t \in Threads, NEW f \in SelectRq(s, t)
    PROVE  /\ Exact(f.s) /\ Alike(s, f.s) /\ f.cpu \in s.up
           /\ f.s.mask \in {s.mask, [s.mask EXCEPT ![t] = Cpus]}
  <1>1. \/ \E d \in s.mask[t] \cap s.up : f = [s |-> s, cpu |-> d]
        \/ f \in Fallback(s, t)
    BY DEF SelectRq
  <1>2. CASE \E d \in s.mask[t] \cap s.up : f = [s |-> s, cpu |-> d]
    BY <1>2, AlikeSame
  <1> QED BY <1>1, <1>2, FallbackIs

\* try_to_wake_up, and what is left of it.
LEMMA WakeUpIs ==
    ASSUME SmpInv, NEW c \in Cpus, NEW t \in Threads, WakeUp(c, t)
    PROVE  /\ ctx[c].at = "none" /\ ~k.onRq[t] /\ hot' = hot
           /\ k'.onRq = k.onRq /\ k'.prio = k.prio /\ k'.curr = k.curr
           /\ k'.resched = k.resched /\ k'.post = k.post /\ k'.up = k.up /\ k'.online = k.online
           /\ k'.active = k.active /\ k'.stops = k.stops /\ k'.stray = k.stray \ {t}
           /\ k'.home[t] \in k.up /\ \A u \in Threads \ {t} : k'.home[u] = k.home[u]
           /\ k'.mask[t] \in {k.mask[t], Cpus} /\ \A u \in Threads \ {t} : k'.mask[u] = k.mask[u]
           /\ \A u \in Threads \ {t} : k'.st[u] = k.st[u]
           /\ \/ /\ k'.wakeList = k.wakeList
                 /\ ButFor(ctx, ctx', c) /\ ctx'[c].at = "wake" /\ ctx'[c].who = t
                 /\ ctx'[c].then = "woken"
              \/ /\ ctx' = ctx
                 /\ k'.wakeList[k'.home[t]] = Append(k.wakeList[k'.home[t]], t)
                 /\ \A a \in Cpus : a # k'.home[t] => k'.wakeList[a] = k.wakeList[a]
  <1>1. /\ Exact(k) /\ k \in States /\ Awake(k) /\ k.st[t] = "sleep" /\ ctx[c].at = "none"
        /\ hot' = hot /\ ctx \in [Cpus -> Contexts]
    BY InvParts, ReadyIs DEF WakeUp, Stays, Sound
  <1>2. PICK r \in SelectRq(k, t) :
           \/ /\ k' = Woken(r.s, t, r.cpu)
              /\ Leave(c, [Loop(r.cpu, "woken", t) EXCEPT !.at = "wake"])
           \/ /\ r.cpu # c
              /\ k' = [Woken(r.s, t, r.cpu) EXCEPT !.wakeList[r.cpu] = Append(@, t)]
              /\ ctx' = ctx
    BY DEF WakeUp, Woken
  <1>3. /\ Exact(r.s) /\ Alike(k, r.s) /\ r.cpu \in k.up
        /\ r.s.mask \in {k.mask, [k.mask EXCEPT ![t] = Cpus]}
    BY <1>1, SelectRqIs
  <1> DEFINE g == Woken(r.s, t, r.cpu)
             d == r.cpu
  <1>4. r.s \in States /\ d \in Cpus /\ k.mask \in [Threads -> SUBSET Cpus]
    BY <1>1, <1>3 DEF Exact, States
  <1>5. /\ g.home = [r.s.home EXCEPT ![t] = d] /\ g.st = [r.s.st EXCEPT ![t] = "waking"]
        /\ g.stray = r.s.stray \ {t}
        /\ g.onRq = r.s.onRq /\ g.prio = r.s.prio /\ g.mask = r.s.mask /\ g.curr = r.s.curr
        /\ g.resched = r.s.resched /\ g.post = r.s.post /\ g.up = r.s.up /\ g.online = r.s.online
        /\ g.active = r.s.active /\ g.stops = r.s.stops /\ g.wakeList = r.s.wakeList
    BY <1>4 DEF Woken, States
  <1>6. \/ /\ k' = g /\ ctx' = [ctx EXCEPT ![c] = [Loop(d, "woken", t) EXCEPT !.at = "wake"]]
        \/ /\ k' = [g EXCEPT !.wakeList[d] = Append(@, t)] /\ ctx' = ctx
    BY <1>2 DEF Leave
  <1>7. g \in States
    <2>1. "waking" \in {"sleep", "waking", "run"}
      OBVIOUS
    <2> QED BY <1>4, <2>1 DEF Woken, States
  <1> HIDE DEF g, d
  <1>8. /\ k'.home = g.home /\ k'.st = g.st /\ k'.stray = g.stray
        /\ k'.onRq = g.onRq /\ k'.prio = g.prio /\ k'.mask = g.mask /\ k'.curr = g.curr
        /\ k'.resched = g.resched /\ k'.post = g.post /\ k'.up = g.up /\ k'.online = g.online
        /\ k'.active = g.active /\ k'.stops = g.stops
        /\ \/ k' = g
           \/ k'.wakeList = [g.wakeList EXCEPT ![d] = Append(@, t)]
    BY <1>6, <1>7 DEF States
  <1>9. /\ k'.onRq = k.onRq /\ k'.prio = k.prio /\ k'.curr = k.curr
        /\ k'.resched = k.resched /\ k'.post = k.post /\ k'.up = k.up /\ k'.online = k.online
        /\ k'.active = k.active /\ k'.stops = k.stops /\ k'.stray = k.stray \ {t}
        /\ k'.home = [k.home EXCEPT ![t] = d] /\ k'.st = [k.st EXCEPT ![t] = "waking"]
        /\ k'.mask \in {k.mask, [k.mask EXCEPT ![t] = Cpus]}
        /\ g.wakeList = k.wakeList
    BY <1>3, <1>5, <1>8 DEF Alike, SameRest, SameFlags
  <1>10. /\ k'.home[t] = d /\ \A u \in Threads \ {t} : k'.home[u] = k.home[u]
         /\ \A u \in Threads \ {t} : k'.st[u] = k.st[u]
    BY <1>1, <1>9 DEF States
  <1>11. k'.mask[t] \in {k.mask[t], Cpus} /\ \A u \in Threads \ {t} : k'.mask[u] = k.mask[u]
    BY <1>4, <1>9
  <1>12. d \in k.up
    BY <1>3 DEF d
  <1>13. ~k.onRq[t]
    BY <1>1 DEF Awake
  <1>14. CASE k' = g /\ ctx' = [ctx EXCEPT ![c] = [Loop(d, "woken", t) EXCEPT !.at = "wake"]]
    <2> DEFINE y == [Loop(d, "woken", t) EXCEPT !.at = "wake"]
    <2>1. y.at = "wake" /\ y.who = t /\ y.then = "woken"
      BY DEF Loop, NoCtx
    <2> HIDE DEF y
    <2>2. ctx' = [ctx EXCEPT ![c] = y]
      BY <1>14 DEF y
    <2>3. ButFor(ctx, ctx', c) /\ ctx'[c] = y
      BY <1>1, <2>2 DEF ButFor
    <2> QED BY <1>1, <1>9, <1>10, <1>11, <1>12, <1>13, <1>14, <2>1, <2>3
  <1>15. CASE k' = [g EXCEPT !.wakeList[d] = Append(@, t)] /\ ctx' = ctx
    <2>1. k'.wakeList = [k.wakeList EXCEPT ![d] = Append(@, t)]
      BY <1>7, <1>9, <1>15 DEF States
    <2>2. k.wakeList \in [Cpus -> Seq(Threads)]
      BY <1>1 DEF States
    <2>3. /\ k'.wakeList[d] = Append(k.wakeList[d], t)
          /\ \A a \in Cpus : a # d => k'.wakeList[a] = k.wakeList[a]
      BY <1>4, <2>1, <2>2
    <2> QED BY <1>1, <1>9, <1>10, <1>11, <1>12, <1>13, <1>15, <2>3
  <1> QED BY <1>6, <1>14, <1>15

LEMMA WakeUpCalm ==
    ASSUME SmpInv, SmpInv', Homes, Calm(k, ctx), NEW c \in Cpus, NEW t \in Threads, WakeUp(c, t)
    PROVE  Calm(k', ctx')
  <1>1. /\ Sound(k, Free(ctx)) /\ \A b \in Free(ctx) : Choosing(ctx[b])
        /\ k.stray = {}
    BY KnownParts DEF Calm, Plain
  <1>2. Exact(k')
    BY DEF SmpInv, Sound
  <1>3. /\ ctx[c].at = "none" /\ Aside(k, k', t)
        /\ \/ ButFor(ctx, ctx', c) /\ ctx'[c].at = "wake" /\ ctx'[c].then = "woken"
           \/ ctx' = ctx
    BY <1>1, WakeUpIs DEF Aside
  <1>4. Carries(ctx, ctx')
    <2>1. CASE ctx' = ctx
      BY <2>1 DEF Carries
    <2>2. CASE ButFor(ctx, ctx', c)
      BY <1>3, <2>2, NoneLost
    <2> QED BY <1>3, <2>1, <2>2
  <1>5. \A a \in Cpus : /\ ctx'[a].then \in {ctx[a].then, "woken"}
                        /\ Choosing(ctx'[a]) => Choosing(ctx[a])
    BY <1>3 DEF ButFor, Choosing
  <1> QED BY <1>1, <1>2, <1>3, <1>4, <1>5, AsideCalm

\* sched_setaffinity, and what it changes.
LEMMA SetAffinityIs ==
    ASSUME SmpInv, NEW c \in Cpus, NEW t \in Threads, NEW m \in MayMask[t], SetAffinity(c, t, m)
    PROVE  /\ hot = NoPlug /\ hot' = hot /\ ctx' = ctx /\ m # k.mask[t]
           /\ k'.mask[t] = m /\ \A u \in Threads \ {t} : k'.mask[u] = k.mask[u]
           /\ k'.home = k.home /\ k'.onRq = k.onRq /\ k'.prio = k.prio /\ k'.curr = k.curr
           /\ k'.st = k.st /\ k'.wakeList = k.wakeList /\ k'.up = k.up /\ k'.active = k.active
           /\ k'.online = k.online /\ k'.post = k.post
           /\ ~k.onRq[t] => k'.resched = k.resched /\ k'.stops = k.stops
  <1> DEFINE s == SetMask(k, t, m)
             h == k.home[t]
  <1>1. /\ Exact(k) /\ k \in States /\ hot = NoPlug /\ hot' = hot /\ ctx' = ctx
        /\ k' \in SetCpusAllowed(t, m) /\ m # k.mask[t]
    BY InvParts DEF SetAffinity, Stays, Sound
  <1>2. m \subseteq Cpus /\ h \in Cpus /\ k.mask \in [Threads -> SUBSET Cpus]
    BY <1>1, ThreadAssumption DEF States
  <1>3. s = SetMask(k, t, m)
    OBVIOUS
  <1> HIDE DEF s
  <1>4. /\ Exact(s) /\ s.mask = [k.mask EXCEPT ![t] = m]
        /\ s.home = k.home /\ s.onRq = k.onRq /\ s.prio = k.prio /\ s.curr = k.curr
        /\ SameRest(k, s) /\ SameFlags(k, s) /\ s.online = k.online
    BY <1>1, <1>2, <1>3, SetMaskExact
  <1>5. s \in States /\ s.mask[t] = m /\ \A u \in Threads \ {t} : s.mask[u] = k.mask[u]
    BY <1>2, <1>4 DEF Exact
  <1>6. \/ /\ h \in m \/ ~k.onRq[t]
           /\ \E y : k' = [s EXCEPT !.stray = y]
        \/ /\ k.onRq[t]
           /\ \E x : k' = [Resched(s, h) EXCEPT !.stops = @ \cup {x}]
    BY <1>1 DEF SetCpusAllowed, s
  <1>7. /\ k'.mask = s.mask /\ k'.home = s.home /\ k'.onRq = s.onRq /\ k'.prio = s.prio
        /\ k'.curr = s.curr /\ k'.st = s.st /\ k'.wakeList = s.wakeList /\ k'.up = s.up
        /\ k'.active = s.active /\ k'.online = s.online /\ k'.post = s.post
        /\ ~k.onRq[t] => k'.resched = s.resched /\ k'.stops = s.stops
    <2>1. CASE /\ h \in m \/ ~k.onRq[t]
               /\ \E y : k' = [s EXCEPT !.stray = y]
      BY <1>5, <2>1 DEF States
    <2>2. CASE /\ k.onRq[t]
               /\ \E x : k' = [Resched(s, h) EXCEPT !.stops = @ \cup {x}]
      BY <1>5, <2>2 DEF States, Resched
    <2> QED BY <1>6, <2>1, <2>2
  <1> QED BY <1>1, <1>4, <1>5, <1>7 DEF SameRest, SameFlags

LEMMA SetAffinityCalm ==
    ASSUME SmpInv, SmpInv', Homes, Calm(k, ctx), NEW c \in Cpus, NEW t \in Threads,
           NEW m \in MayMask[t], SetAffinity(c, t, m), ~Unsettling
    PROVE  Calm(k', ctx')
  <1>1. /\ Sound(k, Free(ctx)) /\ \A b \in Free(ctx) : Choosing(ctx[b])
    BY KnownParts
  <1>2. Exact(k')
    BY DEF SmpInv, Sound
  <1>3. /\ ctx' = ctx /\ m # k.mask[t]
        /\ k'.mask[t] = m /\ \A u \in Threads \ {t} : k'.mask[u] = k.mask[u]
        /\ k'.home = k.home /\ k'.onRq = k.onRq /\ k'.prio = k.prio /\ k'.curr = k.curr
        /\ k'.up = k.up /\ k'.online = k.online /\ k'.post = k.post
        /\ ~k.onRq[t] => k'.resched = k.resched /\ k'.stops = k.stops
    BY SetAffinityIs
  <1>4. ~k.onRq[t] /\ k'.stray = k.stray
    BY <1>3 DEF Unsettling
  <1>5. Aside(k, k', t)
    BY <1>3, <1>4 DEF Aside
  <1>6. Carries(ctx, ctx') /\ \A a \in Cpus : /\ ctx'[a].then \in {ctx[a].then, "woken"}
                                              /\ Choosing(ctx'[a]) => Choosing(ctx[a])
    BY <1>3 DEF Carries
  <1> QED BY <1>1, <1>2, <1>5, <1>6, AsideCalm

-----------------------------------------------------------------------------
(* __sched_setscheduler and rt_mutex_setprio *)

\* The task is requeued with its new priority.
LEMMA RequeuedIs ==
    ASSUME NEW s, Exact(s), NEW t \in Threads, NEW p \in 1 .. FairPrio,
           NEW r, r = Requeued(s, t, p)
    PROVE  /\ Exact(r) /\ r \in States /\ r.home = s.home /\ r.onRq = s.onRq
           /\ r.mask = s.mask /\ r.curr = s.curr
           /\ r.stray = s.stray /\ SameRest(s, r) /\ r.online = s.online
           /\ r.resched = s.resched /\ r.post = s.post
           /\ r.prio[t] = p /\ \A u \in Threads \ {t} : r.prio[u] = s.prio[u]
  <1> DEFINE off == IF s.onRq[t] THEN Dequeue(s, t) ELSE s
             new == Prioed(off, t, p)
             h == s.home[t]
             set == IF s.curr[h] = t /\ p < FairPrio THEN PushOff(new, h, t) ELSE new
  <1>1. s \in States /\ h \in Cpus
    BY DEF Exact, States
  <1>2. r = IF s.onRq[t] THEN Enqueue(set, t) ELSE set
    BY DEF Requeued, Prioed
  <1>3. Exact(off) /\ Moved(s, off, t) /\ ~off.onRq[t]
    <2>1. CASE s.onRq[t]
      BY <1>1, <2>1, DequeueExact
    <2>2. CASE ~s.onRq[t]
      BY <1>1, <2>2 DEF Moved, OtherFlag, SameRest, SameFlags
    <2> QED BY <2>1, <2>2
  <1> HIDE DEF off, h
  <1>4. /\ new \in States /\ new.prio = [off.prio EXCEPT ![t] = p]
        /\ new.home = off.home /\ new.onRq = off.onRq /\ new.mask = off.mask
        /\ new.curr = off.curr
        /\ SamePush(off, new) /\ SameLoad(off, new) /\ SameRest(off, new) /\ SameFlags(off, new)
    BY <1>3, PrioedFields DEF Exact
  <1> HIDE DEF new
  <1>5. new.prio[t] = p /\ \A u \in Threads \ {t} : new.prio[u] = off.prio[u]
    BY <1>3, <1>4 DEF Exact, States
  <1>6. Exact(new) /\ ~new.onRq[t]
    BY <1>3, <1>4, <1>5, Unqueued
  <1>7. /\ Exact(set)
        /\ SameTasks(new, set) /\ SameLoad(new, set) /\ SameRest(new, set) /\ SameFlags(new, set)
    <2>1. CASE s.curr[h] = t /\ p < FairPrio
      <3>1. t \notin Pushable(new, h)
        BY <1>6 DEF Pushable, RtMovable, RtQueued, Queued
      <3> QED BY <1>1, <1>6, <2>1, <3>1, PushOffExact
    <2>2. CASE ~(s.curr[h] = t /\ p < FairPrio)
      BY <1>6, <2>2 DEF SameTasks, SameLoad, SameRest, SameFlags
    <2> QED BY <2>1, <2>2
  <1> HIDE DEF set
  <1>8. Exact(r) /\ Moved(set, r, t) /\ (r.onRq[t] <=> s.onRq[t])
    <2>1. ~set.onRq[t]
      BY <1>6, <1>7 DEF SameTasks
    <2>2. CASE s.onRq[t]
      <3>1. r = Enqueue(set, t)
        BY <1>2, <2>2
      <3> QED BY <1>7, <2>1, <2>2, <3>1, EnqueueExact
    <2>3. CASE ~s.onRq[t]
      <3>1. r = set
        BY <1>2, <2>3
      <3> QED BY <1>7, <2>1, <2>3, <3>1 DEF Moved, OtherFlag, SameRest, SameFlags
    <2> QED BY <2>2, <2>3
  <1>9. /\ r.home = s.home /\ r.mask = s.mask /\ r.curr = s.curr /\ r.stray = s.stray
        /\ SameRest(s, r) /\ r.online = s.online /\ r.resched = s.resched /\ r.post = s.post
    BY <1>3, <1>4, <1>7, <1>8
       DEF Moved, OtherFlag, SameTasks, SameRest, SameFlags, SameLoad
  <1>10. r.prio[t] = p /\ \A u \in Threads \ {t} : r.prio[u] = s.prio[u]
    BY <1>3, <1>5, <1>7, <1>8 DEF Moved, OtherFlag, SameTasks
  <1>11. r \in States
    BY <1>8 DEF Exact
  <1>12. r.onRq = s.onRq
    <2>1. \A u \in Threads \ {t} : r.onRq[u] = s.onRq[u]
      BY <1>3, <1>4, <1>7, <1>8 DEF Moved, OtherFlag, SameTasks
    <2>2. r.onRq[t] = s.onRq[t]
      <3>1. r.onRq[t] \in BOOLEAN /\ s.onRq[t] \in BOOLEAN
        BY <1>1, <1>11 DEF States
      <3>2. r.onRq[t] <=> s.onRq[t]
        BY <1>8
      <3> QED BY ONLY <3>1, <3>2
    <2>3. \A u \in Threads : r.onRq[u] = s.onRq[u]
      BY <2>1, <2>2
    <2>4. r.onRq \in [Threads -> BOOLEAN] /\ s.onRq \in [Threads -> BOOLEAN]
      BY <1>1, <1>11 DEF States
    <2> QED BY <2>3, <2>4
  <1> QED BY <1>8, <1>9, <1>10, <1>11, <1>12

\* A push or a pull that begins here, of queue q and for task t.
Begins(x, then, q, t) ==
    /\ x.then = then /\ x.q = q /\ x.who = t /\ x.at \in {"push", "pull"}
    /\ x.at = "push" => x.dest \in k.up

\* check_class_changed changes the flags and begins what is to follow.
LEMMA PullBegins ==
    ASSUME NEW s \in States, NEW c \in Cpus, DOMAIN ctx = Cpus, NEW q \in Cpus, NEW t \in Threads,
           NEW then, then \in {"from", "prio"}, PullRuns(c, Loop(q, then, t), s, 0)
    PROVE  /\ Keeps(s, k') /\ k'.curr = s.curr /\ ButFor(ctx, ctx', c)
           /\ ctx'[c] = NoCtx \/ Begins(ctx'[c], then, q, t)
  <1> DEFINE x == Loop(q, then, t)
             e == PullNext(s, x.q, 0)
  <1>1. x.then = then /\ x.q = q /\ x.who = t
    BY DEF Loop, NoCtx
  <1>2. \/ k' \in Ends(s, c, x, FALSE) /\ ctx' = [ctx EXCEPT ![c] = NoCtx]
        \/ k' = s /\ ctx' = [ctx EXCEPT ![c] = [x EXCEPT !.at = "pull", !.dest = e]]
    BY DEF PullRuns, Leave
  <1>3. Keeps(s, s)
    BY DEF Keeps, SameRest
  <1>4. CASE k' = s /\ ctx' = [ctx EXCEPT ![c] = [x EXCEPT !.at = "pull", !.dest = e]]
    <2> DEFINE y == [x EXCEPT !.at = "pull", !.dest = e]
    <2>1. y.then = then /\ y.q = q /\ y.who = t /\ y.at = "pull"
      BY DEF Loop, NoCtx
    <2> HIDE DEF y
    <2>2. ctx' = [ctx EXCEPT ![c] = y]
      BY <1>4 DEF y
    <2>3. ctx'[c] = y /\ ButFor(ctx, ctx', c)
      BY <2>2 DEF ButFor
    <2> QED BY <1>3, <1>4, <2>1, <2>3 DEF Begins
  <1>5. CASE k' \in Ends(s, c, x, FALSE) /\ ctx' = [ctx EXCEPT ![c] = NoCtx]
    <2>1. ctx'[c] = NoCtx /\ ButFor(ctx, ctx', c)
      BY <1>5 DEF ButFor
    <2> HIDE DEF x
    <2>2. k' = s \/ k' = Resched(s, q) \/ k' \in CheckPreempt(s, q, t)
      <3>1. CASE then = "from"
        <4>1. Ends(s, c, x, FALSE) = SwitchedToFair(s, x.q, x.who)
          BY <1>1, <3>1, Zenon DEF Ends
        <4> QED BY <1>1, <1>5, <4>1 DEF SwitchedToFair
      <3>2. CASE then = "prio"
        <4>1. Ends(s, c, x, FALSE) = {IF s.prio[x.who] > Highest(s, x.q) /\ s.curr[x.q] = x.who
                                      THEN Resched(s, x.q) ELSE s}
          BY <1>1, <3>2, Zenon DEF Ends
        <4> QED BY <1>1, <1>5, <4>1
      <3> QED BY <3>1, <3>2
    <2>3. Keeps(s, k') /\ k'.curr = s.curr
      BY <1>3, <2>2, ReschedIs, CheckPreemptIs
    <2> QED BY <2>1, <2>3
  <1> QED BY <1>2, <1>4, <1>5

LEMMA ClassBegins ==
    ASSUME NEW s, Exact(s), NEW c \in Cpus, DOMAIN ctx = Cpus, NEW q \in Cpus, NEW t \in Threads,
           NEW old, \A d \in Cpus : s.online[d] => d \in k.up,
           \/ SwitchedFromRt(c, s, q, t)
           \/ SwitchedToRt(c, s, q, t)
           \/ PrioChangedRt(c, s, q, t, old)
    PROVE  /\ Keeps(s, k') /\ k'.curr = s.curr /\ ButFor(ctx, ctx', c)
           /\ ctx' = ctx \/ ctx'[c] = NoCtx
              \/ \E then \in {"from", "to", "prio"} : Begins(ctx'[c], then, q, t)
  <1>1. s \in States /\ Keeps(s, s)
    BY DEF Exact, Keeps, SameRest
  <1>2. ASSUME k' = s \/ k' = Resched(s, q) \/ k' \in CheckPreempt(s, q, t)
        PROVE  Keeps(s, k') /\ k'.curr = s.curr
    BY <1>1, <1>2, ReschedIs, CheckPreemptIs
  <1>3. ButFor(ctx, ctx, c)
    BY DEF ButFor
  <1>4. CASE \E then \in {"from", "prio"} : PullRuns(c, Loop(q, then, t), s, 0)
    <2>1. PICK then \in {"from", "prio"} : PullRuns(c, Loop(q, then, t), s, 0)
      BY <1>4
    <2>2. /\ Keeps(s, k') /\ k'.curr = s.curr /\ ButFor(ctx, ctx', c)
          /\ ctx'[c] = NoCtx \/ Begins(ctx'[c], then, q, t)
      BY <1>1, <2>1, PullBegins
    <2> QED BY <2>2
  <1>5. CASE /\ k' = s \/ k' = Resched(s, q) \/ k' \in CheckPreempt(s, q, t)
             /\ ctx' = ctx
    BY <1>2, <1>3, <1>5
  <1>6. CASE \E r \in PushStart(s, q) : PushRuns(c, Loop(q, "to", t), r)
    <2> DEFINE x == Loop(q, "to", t)
    <2>1. PICK r \in PushStart(s, q) : PushRuns(c, x, r)
      BY <1>6
    <2>2. x.then = "to" /\ x.q = q /\ x.who = t
      BY DEF Loop, NoCtx
    <2>3. /\ r.s \in {s, Resched(s, q)}
          /\ r.task # NoOne => r.dest \in k.up
      <3>1. r = Done(s) \/ (s.push[q] # <<>> /\ r \in PushNext(s, q))
        BY <2>1 DEF PushStart
      <3>2. Done(s).s = s /\ Done(s).task = NoOne /\ Done(Resched(s, q)).s = Resched(s, q)
            /\ Done(Resched(s, q)).task = NoOne
        BY DEF Done
      <3> DEFINE u == Head(s.push[q])
      <3>3. ASSUME s.push[q] # <<>> PROVE u \in Threads
        BY <1>1, <3>3 DEF States
      <3>4. ASSUME NEW d \in FindLowest(s, u), d \notin {0, q}, u \in Threads PROVE d \in k.up
        BY <3>4, LowestOnline
      <3>5. \A d : Locking(s, u, d, 0).s = s /\ Locking(s, u, d, 0).dest = d
        BY DEF Locking
      <3>6. \/ r = Done(s) \/ r = Done(Resched(s, q))
            \/ s.push[q] # <<>> /\ \E d \in FindLowest(s, u) : d \notin {0, q} /\ r = Locking(s, u, d, 0)
        BY <3>1 DEF PushNext
      <3> HIDE DEF u
      <3> QED BY <3>2, <3>3, <3>4, <3>5, <3>6
    <2>4. \/ k' \in Ends(r.s, c, x, r.moved) /\ ctx' = [ctx EXCEPT ![c] = NoCtx]
          \/ /\ r.task # NoOne /\ k' = r.s
             /\ ctx' = [ctx EXCEPT ![c] = [x EXCEPT !.at = "push", !.task = r.task, !.dest = r.dest,
                                                   !.tries = r.tries]]
      BY <2>1 DEF PushRuns, Leave
    <2>5. r.s \in States /\ Keeps(s, r.s) /\ r.s.curr = s.curr
      BY <1>1, <2>3, ReschedIs
    <2>6. CASE /\ r.task # NoOne /\ k' = r.s
               /\ ctx' = [ctx EXCEPT ![c] = [x EXCEPT !.at = "push", !.task = r.task, !.dest = r.dest,
                                                     !.tries = r.tries]]
      <3> DEFINE y == [x EXCEPT !.at = "push", !.task = r.task, !.dest = r.dest, !.tries = r.tries]
      <3>1. y.then = "to" /\ y.q = q /\ y.who = t /\ y.at = "push" /\ y.dest = r.dest
        BY DEF Loop, NoCtx
      <3> HIDE DEF y
      <3>2. ctx' = [ctx EXCEPT ![c] = y]
        BY <2>6 DEF y
      <3>3. ctx'[c] = y /\ ButFor(ctx, ctx', c)
        BY <3>2 DEF ButFor
      <3>4. Begins(ctx'[c], "to", q, t)
        BY <2>3, <2>6, <3>1, <3>3 DEF Begins
      <3> QED BY <2>5, <2>6, <3>3, <3>4
    <2>7. CASE k' \in Ends(r.s, c, x, r.moved) /\ ctx' = [ctx EXCEPT ![c] = NoCtx]
      <3>1. ctx'[c] = NoCtx /\ ButFor(ctx, ctx', c)
        BY <2>7 DEF ButFor
      <3> DEFINE v == r.s
      <3> HIDE DEF x
      <3>2. k' = v \/ k' = Resched(v, q)
        <4>1. Ends(v, c, x, r.moved) =
                 {IF (r.moved => v.home[x.who] = x.q) /\ v.prio[x.who] < PrioOf(v, v.curr[x.q])
                  THEN Resched(v, x.q) ELSE v}
          BY <2>2, Zenon DEF Ends
        <4> QED BY <2>2, <2>7, <4>1
      <3>3. v \in States /\ Keeps(s, v) /\ v.curr = s.curr
        BY <2>5
      <3> HIDE DEF v
      <3>4. Keeps(v, k') /\ k'.curr = v.curr
        <4>1. CASE k' = v
          BY <4>1 DEF Keeps, SameRest
        <4>2. CASE k' = Resched(v, q)
          BY <3>3, <4>2, ReschedIs
        <4> QED BY <3>2, <4>1, <4>2
      <3>5. Keeps(s, k')
        BY <3>3, <3>4, KeepsTrans
      <3> QED BY <3>1, <3>3, <3>4, <3>5
    <2> QED BY <2>4, <2>6, <2>7
  <1>7. \/ \E then \in {"from", "prio"} : PullRuns(c, Loop(q, then, t), s, 0)
        \/ /\ k' = s \/ k' = Resched(s, q) \/ k' \in CheckPreempt(s, q, t)
           /\ ctx' = ctx
        \/ \E r \in PushStart(s, q) : PushRuns(c, Loop(q, "to", t), r)
    <2>1. CASE SwitchedFromRt(c, s, q, t)
      BY <2>1 DEF SwitchedFromRt, SwitchedToFair
    <2>2. CASE SwitchedToRt(c, s, q, t)
      BY <2>2 DEF SwitchedToRt
    <2>3. CASE PrioChangedRt(c, s, q, t, old)
      BY <2>3 DEF PrioChangedRt
    <2> QED BY <2>1, <2>2, <2>3
  <1> QED BY <1>4, <1>5, <1>6, <1>7

\* The priority of a running real-time task is changed, and nothing is left to wait.
LEMMA NextSame ==
    ASSUME NEW s, Exact(s), NEW r, Exact(r), NEW c \in Cpus, Pushable(r, c) = Pushable(s, c),
           \A u \in Pushable(s, c) : r.prio[u] = s.prio[u]
    PROVE  r.next[c] = s.next[c]
  <1>1. /\ s.next[c] \in 1 .. FairPrio /\ r.next[c] \in 1 .. FairPrio
        /\ \A u \in Pushable(s, c) : s.next[c] <= s.prio[u]
        /\ \A u \in Pushable(r, c) : r.next[c] <= r.prio[u]
        /\ Pushable(s, c) = {} => s.next[c] = FairPrio
        /\ Pushable(r, c) = {} => r.next[c] = FairPrio
    BY NextIs
  <1>2. /\ Pushable(s, c) # {} => \E u \in Pushable(s, c) : s.next[c] = s.prio[u]
        /\ Pushable(r, c) # {} => \E u \in Pushable(r, c) : r.next[c] = r.prio[u]
    BY NextLeast
  <1> QED BY <1>1, <1>2, ThreadAssumption

\* What runs on q has another priority; the others are as they were.
LEMMA RunningView ==
    ASSUME NEW s, Exact(s), NEW r, Exact(r), NEW t \in Threads, NEW q \in Cpus,
           s.onRq[t], s.home[t] = q, \A a \in Cpus : s.curr[a] = t <=> a = q,
           r.home = s.home, r.onRq = s.onRq, r.mask = s.mask, r.curr = s.curr,
           \A u \in Threads \ {t} : r.prio[u] = s.prio[u],
           s.prio[t] < FairPrio, r.prio[t] < FairPrio
    PROVE  /\ \A a \in Cpus : RtQueued(r, a) = RtQueued(s, a) /\ r.next[a] = s.next[a]
           /\ \A a \in Cpus \ {q} : SameView(s, r, a)
           /\ t \in RtQueued(s, q)
  <1>1. \A a \in Cpus : RtQueued(r, a) = RtQueued(s, a)
    <2> SUFFICES ASSUME NEW a \in Cpus PROVE RtQueued(r, a) = RtQueued(s, a)
      OBVIOUS
    <2>1. \A u \in Threads : r.prio[u] < FairPrio <=> s.prio[u] < FairPrio
      OBVIOUS
    <2>2. \A u : u \in RtQueued(r, a) <=> u \in RtQueued(s, a)
      BY <2>1 DEF RtQueued, Queued
    <2> QED BY <2>2
  <1>2. \A a \in Cpus : Pushable(r, a) = Pushable(s, a) /\ t \notin Pushable(s, a)
    <2> SUFFICES ASSUME NEW a \in Cpus
                 PROVE  Pushable(r, a) = Pushable(s, a) /\ t \notin Pushable(s, a)
      OBVIOUS
    <2>1. \A u : u \in Pushable(r, a) <=> u \in Pushable(s, a)
      BY <1>1 DEF Pushable, RtMovable, Movable
    <2>2. t \in RtQueued(s, a) => a = q
      BY DEF RtQueued, Queued
    <2> QED BY <2>1, <2>2 DEF Pushable, RtMovable
  <1>3. \A a \in Cpus : \A u \in Pushable(s, a) : u \in Threads \ {t}
    BY <1>2 DEF Pushable, RtMovable, RtQueued, Queued
  <1>4. \A a \in Cpus : r.next[a] = s.next[a]
    BY <1>2, <1>3, NextSame
  <1>5. ASSUME NEW a \in Cpus \ {q} PROVE SameView(s, r, a)
    <2>1. \A u \in RtQueued(s, a) : r.prio[u] = s.prio[u]
      BY <1>5 DEF RtQueued, Queued
    <2>2. Highest(r, a) = Highest(s, a)
      BY <1>1, <1>2, <2>1, QueueSame
    <2>3. s.curr[a] # t
      BY <1>5
    <2>4. s.curr[a] \in Threads \cup {Idle, Stopper}
      BY DEF Exact, States
    <2>5. PrioOf(r, r.curr[a]) = PrioOf(s, s.curr[a])
      BY <2>3, <2>4 DEF PrioOf
    <2> QED BY <1>4, <2>2, <2>5 DEF SameView
  <1>6. t \in RtQueued(s, q)
    BY DEF RtQueued, Queued
  <1> QED BY <1>1, <1>4, <1>5, <1>6

LEMMA RunningPrioCalm ==
    ASSUME SmpInv, Homes, Calm(k, ctx), NEW c \in Cpus, Ready(c), NEW t \in Threads,
           NEW p \in 1 .. FairPrio, p # k.prio[t], PiFree(t), k.onRq[t], OnCpu(k, t),
           k.prio[t] < FairPrio, p < FairPrio,
           NEW q, q = k.home[t], NEW s, s = Requeued(k, t, p), NEW old, old = k.prio[t],
           PrioChangedRt(c, s, q, t, old)
    PROVE  Calm(k', ctx')
  <1> DEFINE F == Free(ctx)
  <1>1. /\ Sound(k, F) /\ Exact(k) /\ k \in States /\ OnOwn(k, F) /\ DOMAIN ctx = Cpus
        /\ \A b \in F : Choosing(ctx[b])
        /\ k.prio \in [Threads -> 1 .. FairPrio] /\ FairPrio \in Nat
        /\ Plain(k, ctx) /\ Quiet(k, ctx) /\ k.up \subseteq Cpus
    BY KnownParts DEF Calm
  <1>2. q \in Cpus /\ q \in k.up /\ ctx[c].at = "none" /\ c \notin F
    BY <1>1, ReadyIs DEF Homes
  <1>3. k.curr[q] = t /\ \A a \in Cpus : k.curr[a] = t <=> a = q
    BY <1>1 DEF OnCpu, OnOwn
  <1>4. /\ Exact(s) /\ s \in States /\ s.home = k.home /\ s.onRq = k.onRq
        /\ s.mask = k.mask /\ s.curr = k.curr
        /\ s.stray = k.stray /\ SameRest(k, s) /\ s.online = k.online
        /\ s.resched = k.resched /\ s.post = k.post
        /\ s.prio[t] = p /\ \A u \in Threads \ {t} : s.prio[u] = k.prio[u]
    <2>1. Exact(k) /\ t \in Threads /\ p \in 1 .. FairPrio /\ s = Requeued(k, t, p)
      BY <1>1
    <2> QED BY <2>1, RequeuedIs
  <1>5. Sound(s, F)
    BY <1>1, RequeuedSound
  <1>6. /\ \A a \in Cpus : RtQueued(s, a) = RtQueued(k, a) /\ s.next[a] = k.next[a]
        /\ \A a \in Cpus \ {q} : SameView(k, s, a)
        /\ t \in RtQueued(k, q)
    BY <1>1, <1>2, <1>3, <1>4, RunningView
  <1>7. s.up = k.up /\ s.stops = k.stops
    BY <1>4 DEF SameRest
  <1>8. /\ Highest(k, q) \in 1 .. FairPrio /\ Highest(s, q) \in 1 .. FairPrio
        /\ \A u \in RtQueued(k, q) : Highest(k, q) <= k.prio[u] /\ Highest(s, q) <= s.prio[u]
        /\ \E u \in RtQueued(k, q) : k.prio[u] = Highest(k, q)
        /\ \E u \in RtQueued(k, q) : s.prio[u] = Highest(s, q)
        /\ \A u \in RtQueued(k, q) : u \in Threads
    <2>1. \A u \in RtQueued(k, q) : u \in Threads
      BY DEF RtQueued, Queued
    <2> QED BY <1>1, <1>2, <1>4, <1>6, <2>1, HighestIs
  <1>9. PrioOf(k, t) = old /\ PrioOf(s, t) = p /\ old \in Int /\ p \in Int
    BY <1>1, <1>4, PrioOfTasks
  <1>10. \A a \in Cpus \ {q} : Urgent(s, a) <=> Urgent(k, a)
    BY <1>6 DEF Urgent, SameView
  <1>11. \A a \in Cpus : k.post[a] => k.curr[a] \in Threads /\ s.prio[k.curr[a]] < FairPrio
    BY <1>1, <1>4 DEF Plain
  <1>12. CASE old < p
    <2> DEFINE y == Loop(q, "prio", t)
               n == [NoCtx EXCEPT !.at = "pull", !.q = q, !.dest = 1, !.then = "prio", !.who = t]
               z == [ctx EXCEPT ![c] = n]
    <2>1. PullRuns(c, y, s, 0)
      BY <1>3, <1>4, <1>12 DEF PrioChangedRt
    <2>2. y \in Contexts /\ y.q = q /\ y.then = "prio" /\ y.who = t
      <3>1. "prio" \in PushEnds \cup PullEnds /\ t \in Threads \cup {NoOne}
        BY DEF PullEnds
      <3> QED BY <1>2, <3>1, LoopIs
    <2>3. n.at = "pull" /\ n.q = q /\ n.dest = 1 /\ n.then = "prio" /\ n.who = t
      BY DEF NoCtx
    <2>4. ButFor(ctx, z, c) /\ z[c] = n
      BY <1>1 DEF ButFor
    <2> HIDE DEF y, n, z
    <2>5. z[c].at = "pull" /\ z[c].q = q /\ z[c].dest = 1 /\ z[c].then = "prio" /\ z[c].who = t
          /\ ~Choosing(z[c])
      BY <2>3, <2>4 DEF Choosing
    <2>6. Carries(ctx, z)
      BY <1>2, <2>4, NoneLost
    <2>7. \A b \in F : Choosing(z[b])
      BY <1>1, <2>6 DEF Carries, Free
    <2>8. Plain(s, z)
      <3>1. \A a \in Cpus \ {c} : z[a] = ctx[a]
        BY <2>4 DEF ButFor
      <3> QED BY <1>1, <1>4, <1>7, <1>11, <2>5, <3>1 DEF Plain
    <2>9. \A a \in s.up : Urgent(s, a) => Attended(s, z, a)
      <3>1. \A a \in s.up \ {q} : Urgent(s, a) => Attended(s, z, a)
        BY <1>1, <1>4, <1>7, <1>10, <2>6 DEF Quiet, Attended, Carries
      <3>2. Lowering(z, q, t)
        BY <2>5, ContextNow
      <3> QED BY <1>3, <1>4, <3>1, <3>2 DEF Attended
    <2>10. \A a \in Cpus : Pushes(k, ctx, a) => Pushes(s, z, a)
      <3>1. Urgent(k, q) => Urgent(s, q)
        <4> SUFFICES ASSUME Urgent(k, q) PROVE Urgent(s, q)
          OBVIOUS
        <4>1. Highest(k, q) < old
          BY <1>3, <1>9 DEF Urgent
        <4>2. PICK u \in RtQueued(k, q) : k.prio[u] = Highest(k, q)
          BY <1>8
        <4>3. u # t /\ s.prio[u] = k.prio[u]
          BY <1>4, <1>8, <4>1, <4>2
        <4>4. Highest(s, q) <= Highest(k, q)
          BY <1>8, <4>2, <4>3
        <4> QED BY <1>3, <1>4, <1>8, <1>9, <1>12, <4>1, <4>4 DEF Urgent
      <3> QED BY <1>4, <1>10, <2>6, <3>1 DEF Pushes, Yields, Carries
    <2>11. ASSUME NEW b \in Cpus, NEW d \in Cpus, b # d, s.online[b], s.online[d],
                  s.next[b] < Highest(s, d)
           PROVE  Pushes(s, z, b) \/ Pulling(z, d, b)
      <3>1. CASE d = q
        <4>1. 1 <= b
          BY CpuAssumption
        <4> QED BY <2>5, <3>1, <4>1, ContextNow
      <3>2. CASE d # q
        <4>1. k.next[b] < Highest(k, d)
          BY <1>6, <2>11, <3>2 DEF SameView
        <4>2. Pushes(k, ctx, b) \/ Pulling(ctx, d, b)
          BY <1>1, <1>4, <2>11, <4>1 DEF Quiet, Offered
        <4> QED BY <2>6, <2>10, <4>2 DEF Carries
      <3> QED BY <3>1, <3>2
    <2>12. Calm(s, z)
      BY <2>8, <2>9, <2>11 DEF Calm, Quiet, Offered
    <2>13. 0 \in Nat /\ z[c].dest = 0 + 1 /\ y.then \in {"pick", "prio"} /\ z[c].then = y.then
           /\ z[c].who = y.who /\ (y.then = "prio" => y.who \in Threads) /\ (y.then = "pick" => q = c)
      BY <2>2, <2>5
    <2> QED BY <1>1, <1>2, <1>5, <2>1, <2>2, <2>4, <2>5, <2>7, <2>12, <2>13, PullRunsCalm
  <1>13. CASE p < old
    <2>1. /\ ctx' = ctx
          /\ k' = IF p > Highest(s, q) THEN Resched(s, q) ELSE s
      BY <1>3, <1>4, <1>9, <1>13 DEF PrioChangedRt
    <2>2. /\ Keeps(s, k') /\ k'.curr = s.curr /\ k'.next = s.next /\ k'.post = s.post
          /\ \A a \in Cpus : s.resched[a] => k'.resched[a]
          /\ p > Highest(s, q) => k'.resched[q]
      <3>1. CASE k' = s /\ ~(p > Highest(s, q))
        BY <3>1 DEF Keeps, SameRest
      <3>2. CASE k' = Resched(s, q)
        <4>1. s \in States /\ q \in Cpus /\ k' = Resched(s, q)
          BY <1>2, <1>4, <3>2
        <4>2. /\ Keeps(s, k')
              /\ k'.resched[q] /\ \A a \in Cpus \ {q} : k'.resched[a] = s.resched[a]
              /\ k'.post = s.post /\ k'.curr = s.curr /\ k'.next = s.next
          BY ONLY <4>1, ReschedIs
        <4> QED BY <4>2
      <3> QED BY <2>1, <3>1, <3>2
    <2>3. \A a : Highest(k', a) = Highest(s, a) /\ \A u : PrioOf(k', u) = PrioOf(s, u)
      BY <2>2, KeepsAll
    <2>4. k'.up = k.up /\ k'.online = k.online /\ k'.stops = k.stops /\ k'.stray = k.stray
          /\ k'.prio = s.prio
      BY <1>4, <1>7, <2>2 DEF Keeps, SameRest
    <2>5. \A a \in k'.up : Urgent(k', a) => Attended(k', ctx, a)
      <3>1. Urgent(k', q) => k'.resched[q]
        BY <1>3, <1>4, <1>8, <1>9, <2>2, <2>3 DEF Urgent
      <3>2. \A a \in k.up \ {q} : Urgent(k', a) => Urgent(k, a)
        BY <1>1, <1>10, <2>2, <2>3 DEF Urgent
      <3> QED BY <1>1, <1>4, <2>2, <2>4, <3>1, <3>2 DEF Quiet, Attended
    <2>6. \A a \in Cpus : Pushes(k, ctx, a) => Pushes(k', ctx, a)
      <3>1. Urgent(k, q) => k.resched[q] \/ Choosing(ctx[q])
        <4>1. ~Lowering(ctx, q, t)
          BY DEF PiFree, Lowering
        <4> QED BY <1>1, <1>2, <1>3, <4>1 DEF Quiet, Attended
      <3>2. \A a \in Cpus \ {q} : Urgent(k, a) => Urgent(k', a)
        BY <1>10, <2>2, <2>3 DEF Urgent
      <3> QED BY <1>4, <2>2, <3>1, <3>2 DEF Pushes, Yields
    <2>7. Highest(s, q) <= Highest(k, q)
      <3>1. PICK u \in RtQueued(k, q) : k.prio[u] = Highest(k, q)
        BY <1>8
      <3>2. s.prio[u] <= k.prio[u]
        <4>1. u \in Threads
          BY <1>8, <3>1
        <4>2. CASE u = t
          BY <1>4, <1>9, <1>13, <4>2
        <4>3. CASE u # t
          BY <1>1, <1>4, <4>1, <4>3
        <4> QED BY <4>2, <4>3
      <3>3. Highest(s, q) <= s.prio[u] /\ s.prio[u] \in Int
        <4>1. s.prio[u] \in 1 .. FairPrio
          BY <1>4, <1>8, <3>1 DEF States
        <4> QED BY <1>8, <3>1, <4>1
      <3> QED BY <1>8, <3>1, <3>2, <3>3
    <2>8. ASSUME NEW b \in Cpus, NEW d \in Cpus, b # d, k'.online[b], k'.online[d],
                 k'.next[b] < Highest(k', d)
          PROVE  Pushes(k', ctx, b) \/ Pulling(ctx, d, b)
      <3>1. k.next[b] < Highest(k, d)
        <4>1. k.next[b] < Highest(s, d)
          BY <1>6, <2>2, <2>3, <2>8
        <4>2. CASE d = q
          <5>1. k.next[b] \in Int
            BY <1>1 DEF States
          <5> QED BY <1>8, <2>7, <4>1, <4>2, <5>1
        <4>3. CASE d # q
          BY <1>6, <4>1, <4>3 DEF SameView
        <4> QED BY <4>2, <4>3
      <3>2. Pushes(k, ctx, b) \/ Pulling(ctx, d, b)
        BY <1>1, <2>4, <2>8, <3>1 DEF Quiet, Offered
      <3> QED BY <2>6, <3>2
    <2>9. Quiet(k', ctx)
      BY <2>5, <2>8 DEF Quiet, Offered
    <2>10. Plain(k', ctx)
      BY <1>1, <1>4, <1>11, <2>2, <2>4 DEF Plain
    <2> QED BY <2>1, <2>9, <2>10 DEF Calm
  <1> QED BY <1>9, <1>12, <1>13

\* Which of them it is.
LEMMA SetPrioIs ==
    ASSUME SmpInv, NEW c \in Cpus, NEW t \in Threads, NEW p \in MayPrio[t], SetPrio(c, t, p),
           NEW q, q = k.home[t], NEW old, old = k.prio[t], NEW s, s = Requeued(k, t, p)
    PROVE  /\ Ready(c) /\ PiFree(t) /\ p # old /\ hot' = hot
           /\ p \in 1 .. FairPrio /\ q \in Cpus
           /\ Exact(s) /\ s \in States /\ s.home = k.home /\ s.onRq = k.onRq
           /\ s.mask = k.mask /\ s.curr = k.curr
           /\ s.stray = k.stray /\ SameRest(k, s) /\ s.online = k.online
           /\ s.resched = k.resched /\ s.post = k.post
           /\ s.prio[t] = p /\ \A u \in Threads \ {t} : s.prio[u] = k.prio[u]
           /\ \/ ~k.onRq[t] /\ k' = s /\ ctx' = ctx
              \/ k.onRq[t] /\ p = FairPrio /\ SwitchedFromRt(c, s, q, t)
              \/ k.onRq[t] /\ old = FairPrio /\ SwitchedToRt(c, s, q, t)
              \/ k.onRq[t] /\ p # FairPrio /\ old # FairPrio /\ PrioChangedRt(c, s, q, t, old)
  <1>1. Exact(k) /\ k \in States /\ hot' = hot /\ Ready(c) /\ PiFree(t) /\ p # old
    BY InvParts DEF SetPrio, Stays, Sound
  <1>2. q \in Cpus /\ p \in 1 .. FairPrio
    <2>1. p \in 1 .. FairPrio
      BY ThreadAssumption
    <2> QED BY <1>1, <2>1 DEF States
  <1>3. /\ Exact(s) /\ s \in States /\ s.home = k.home /\ s.onRq = k.onRq
        /\ s.mask = k.mask /\ s.curr = k.curr
        /\ s.stray = k.stray /\ SameRest(k, s) /\ s.online = k.online
        /\ s.resched = k.resched /\ s.post = k.post
        /\ s.prio[t] = p /\ \A u \in Threads \ {t} : s.prio[u] = k.prio[u]
    <2>1. Exact(k) /\ t \in Threads /\ p \in 1 .. FairPrio /\ s = Requeued(k, t, p)
      BY <1>1, <1>2
    <2> QED BY <2>1, RequeuedIs
  <1>4. (CASE ~s.onRq[t] -> k' = s /\ UNCHANGED ctx
           [] s.onRq[t] /\ p = FairPrio -> SwitchedFromRt(c, s, q, t)
           [] s.onRq[t] /\ old = FairPrio -> SwitchedToRt(c, s, q, t)
           [] OTHER -> PrioChangedRt(c, s, q, t, old))
    BY DEF SetPrio
  <1>5. \/ ~s.onRq[t] /\ k' = s /\ ctx' = ctx
        \/ s.onRq[t] /\ p = FairPrio /\ SwitchedFromRt(c, s, q, t)
        \/ s.onRq[t] /\ old = FairPrio /\ SwitchedToRt(c, s, q, t)
        \/ s.onRq[t] /\ p # FairPrio /\ old # FairPrio /\ PrioChangedRt(c, s, q, t, old)
    BY <1>4, Zenon
  <1> QED BY <1>1, <1>2, <1>3, <1>5

LEMMA SetPrioCalm ==
    ASSUME SmpInv, SmpInv', Homes, Calm(k, ctx), NEW c \in Cpus, NEW t \in Threads,
           NEW p \in MayPrio[t], SetPrio(c, t, p), ~Unsettling
    PROVE  Calm(k', ctx')
  <1> DEFINE q == k.home[t]
             old == k.prio[t]
             s == Requeued(k, t, p)
  <1>1. q = k.home[t] /\ old = k.prio[t] /\ s = Requeued(k, t, p)
    OBVIOUS
  <1> HIDE DEF q, old, s
  <1>2. /\ Ready(c) /\ PiFree(t) /\ p # old /\ hot' = hot
        /\ p \in 1 .. FairPrio /\ q \in Cpus
        /\ Exact(s) /\ s \in States /\ s.home = k.home /\ s.onRq = k.onRq
        /\ s.mask = k.mask /\ s.curr = k.curr
        /\ s.stray = k.stray /\ SameRest(k, s) /\ s.online = k.online
        /\ s.resched = k.resched /\ s.post = k.post
        /\ s.prio[t] = p /\ \A u \in Threads \ {t} : s.prio[u] = k.prio[u]
        /\ \/ ~k.onRq[t] /\ k' = s /\ ctx' = ctx
           \/ k.onRq[t] /\ p = FairPrio /\ SwitchedFromRt(c, s, q, t)
           \/ k.onRq[t] /\ old = FairPrio /\ SwitchedToRt(c, s, q, t)
           \/ k.onRq[t] /\ p # FairPrio /\ old # FairPrio /\ PrioChangedRt(c, s, q, t, old)
    BY <1>1, SetPrioIs
  <1>3. /\ Sound(k, Free(ctx)) /\ k \in States /\ DOMAIN ctx = Cpus
        /\ \A b \in Free(ctx) : Choosing(ctx[b])
        /\ k.prio \in [Threads -> 1 .. FairPrio] /\ FairPrio \in Nat
    BY KnownParts
  <1>4. CASE ~k.onRq[t] /\ k' = s /\ ctx' = ctx
    <2>1. Exact(k')
      BY <1>2, <1>4
    <2>2. Aside(k, k', t)
      BY <1>2, <1>4 DEF Aside, SameRest
    <2>3. Carries(ctx, ctx') /\ \A a \in Cpus : /\ ctx'[a].then \in {ctx[a].then, "woken"}
                                                /\ Choosing(ctx'[a]) => Choosing(ctx[a])
      BY <1>4 DEF Carries
    <2> QED BY <1>3, <2>1, <2>2, <2>3, AsideCalm
  <1>5. CASE k.onRq[t]
    <2>1. \/ SwitchedFromRt(c, s, q, t)
          \/ SwitchedToRt(c, s, q, t)
          \/ PrioChangedRt(c, s, q, t, old)
      BY <1>2, <1>5
    <2>2. \A d \in Cpus : s.online[d] => d \in k.up
      BY <1>2 DEF SmpInv, HotInv
    <2>3. Keeps(s, k')
      BY <1>2, <1>3, <2>1, <2>2, ClassBegins
    <2>4. k'.onRq[t] /\ k'.prio[t] = p
      BY <1>2, <1>5, <2>3 DEF Keeps
    <2>5. OnCpu(k, t) /\ old # FairPrio /\ p # FairPrio
      BY <1>1, <1>2, <1>5, <2>4 DEF Unsettling
    <2>6. old < FairPrio /\ p < FairPrio /\ k.prio[t] < FairPrio /\ p # k.prio[t]
      BY <1>1, <1>2, <1>3, <2>5
    <2>7. PrioChangedRt(c, s, q, t, old)
      BY <1>2, <1>5, <2>5
    <2> QED BY <1>1, <1>2, <1>5, <2>5, <2>6, <2>7, RunningPrioCalm
  <1> QED BY <1>2, <1>4, <1>5

-----------------------------------------------------------------------------
(* The stop task, unplugging and plugging *)

\* While every processor runs its stop task, there is nothing to wait for.
LEMMA AllStopped ==
    ASSUME NEW s \in States, NEW x, \A c \in s.up : s.curr[c] = Stopper,
           \A c \in Cpus : s.online[c] => c \in s.up
    PROVE  Quiet(s, x)
  <1>1. s.up \subseteq Cpus
    BY DEF States
  <1>2. ASSUME NEW c \in s.up PROVE ~Urgent(s, c)
    <2>1. PrioOf(s, s.curr[c]) = 0
      BY PrioOfTasks
    <2>2. Highest(s, c) \in 1 .. FairPrio
      BY <1>1, HighestIs
    <2> QED BY <2>1, <2>2 DEF Urgent
  <1>3. \A q \in Cpus : s.online[q] => Pushes(s, x, q)
    BY DEF Pushes, Yields
  <1> QED BY <1>2, <1>3 DEF Quiet, Offered

LEMMA DownPrepareIs ==
    ASSUME SmpInv, NEW c \in Cpus, DownPrepare(c)
    PROVE  /\ hot'.phase = "prepare" /\ ctx' = ctx /\ k'.active = k.active \ {c}
           /\ Keeps([k EXCEPT !.active = @ \ {c}], k')
           /\ k'.curr = k.curr /\ k'.resched = k.resched /\ k'.post = k.post
           /\ k'.next = k.next /\ k'.up = k.up /\ k'.home = k.home /\ k'.onRq = k.onRq
           /\ k'.prio = k.prio /\ k'.mask = k.mask /\ k'.stray = k.stray /\ k'.online = k.online
           /\ k'.stops = k.stops /\ k'.st = k.st /\ k'.wakeList = k.wakeList
  BY InvParts DEF DownPrepare, States, Keeps, SameRest

LEMMA DownPrepareCalm ==
    ASSUME SmpInv, Homes, Calm(k, ctx), NEW c \in Cpus, DownPrepare(c)
    PROVE  Calm(k', ctx')
  <1>1. /\ ctx' = ctx /\ k'.curr = k.curr /\ k'.resched = k.resched /\ k'.post = k.post
        /\ k'.next = k.next /\ k'.up = k.up /\ k'.home = k.home /\ k'.onRq = k.onRq
        /\ k'.prio = k.prio /\ k'.stray = k.stray /\ k'.online = k.online
        /\ k'.stops = k.stops
    BY DownPrepareIs
  <1>2. k.up \subseteq Cpus /\ Plain(k, ctx) /\ Quiet(k, ctx)
    BY KnownParts DEF Calm
  <1>3. \A a \in Cpus : Highest(k', a) = Highest(k, a)
    BY <1>1 DEF Highest, RtQueued, Queued
  <1>4. \A a \in Cpus : SameView(k, k', a)
    BY <1>1, <1>3 DEF SameView, PrioOf
  <1>5. Carries(ctx, ctx')
    BY <1>1 DEF Carries
  <1>6. Quiet(k', ctx')
    BY <1>1, <1>2, <1>4, <1>5, QuietKept
  <1>7. Plain(k', ctx')
    BY <1>1, <1>2 DEF Plain
  <1> QED BY <1>6, <1>7 DEF Calm

LEMMA StopMachineIs ==
    ASSUME SmpInv, StopMachine
    PROVE  /\ hot'.phase = "stop" /\ ctx' = ctx /\ \A c \in k.up : k'.resched[c]
           /\ k'.curr = k.curr /\ k'.post = k.post
           /\ k'.next = k.next /\ k'.up = k.up /\ k'.home = k.home /\ k'.onRq = k.onRq
           /\ k'.prio = k.prio /\ k'.mask = k.mask /\ k'.stray = k.stray /\ k'.online = k.online
           /\ k'.stops = k.stops /\ k'.st = k.st /\ k'.wakeList = k.wakeList
           /\ k'.active = k.active
  <1>1. k \in States /\ k.up \subseteq Cpus
    BY InvParts DEF States
  <1>2. k' = [k EXCEPT !.resched = [c \in Cpus |-> c \in k.up]] /\ ctx' = ctx
    BY DEF StopMachine
  <1>3. k'.resched = [c \in Cpus |-> c \in k.up]
    BY <1>1, <1>2 DEF States
  <1>4. hot'.phase = "stop"
    <2>1. hot # NoPlug
      BY DEF StopMachine, NoPlug
    <2> QED BY <2>1 DEF StopMachine, SmpInv, HotInv
  <1> QED BY <1>1, <1>2, <1>3, <1>4 DEF States

LEMMA StopMachineCalm ==
    ASSUME SmpInv, Homes, Calm(k, ctx), StopMachine
    PROVE  Calm(k', ctx')
  <1>1. /\ ctx' = ctx /\ \A c \in k.up : k'.resched[c]
        /\ k'.curr = k.curr /\ k'.post = k.post /\ k'.up = k.up
        /\ k'.prio = k.prio /\ k'.stray = k.stray /\ k'.online = k.online
        /\ k'.stops = k.stops
    BY StopMachineIs
  <1>2. \A q \in Cpus : k.online[q] => q \in k.up
    BY DEF SmpInv, HotInv
  <1>3. Quiet(k', ctx')
    BY <1>1, <1>2 DEF Quiet, Attended, Offered, Pushes, Yields
  <1>4. Plain(k', ctx')
    BY <1>1 DEF Plain, Calm
  <1> QED BY <1>3, <1>4 DEF Calm

LEMMA DyingIs ==
    ASSUME SmpInv, Dying
    PROVE  /\ hot.phase = "stop" /\ hot'.phase = "dying" /\ hot'.cpu = hot.cpu /\ ctx' = ctx
           /\ hot.cpu \in k.up
           /\ k'.up = k.up \ {hot.cpu} /\ \A c \in k.up : k.curr[c] = Stopper /\ ctx[c] = NoCtx
           /\ k.wakeList[hot.cpu] = <<>>
           /\ k'.curr = k.curr /\ k'.post = k.post /\ k'.resched = k.resched
           /\ k'.home = k.home /\ k'.onRq = k.onRq
           /\ k'.prio = k.prio /\ k'.mask = k.mask /\ k'.stray = k.stray
           /\ k'.stops = k.stops /\ k'.st = k.st /\ k'.wakeList = k.wakeList
           /\ k'.active = k.active
  <1> DEFINE r == RqOffline(k, hot.cpu)
  <1>1. k \in States /\ hot.phase = "stop" /\ hot # NoPlug
    BY InvParts DEF Dying, NoPlug
  <1>2. hot.cpu \in k.up /\ hot.cpu \in Cpus /\ k.online[hot.cpu]
        /\ hot'.phase = "dying" /\ hot'.cpu = hot.cpu
    BY <1>1 DEF SmpInv, HotInv, States, Dying
  <1>3. /\ Exact(r)
        /\ SameTasks(k, r) /\ SameRest(k, r) /\ SameFlags(k, r)
    <2>1. Exact(k) /\ r = RqOffline(k, hot.cpu)
      BY DEF SmpInv, Sound
    <2> HIDE DEF r
    <2> QED BY <1>2, <2>1, RqOfflineExact
  <1>4. k' = [r EXCEPT !.up = @ \ {hot.cpu}] /\ ctx' = ctx
    BY DEF Dying
  <1> HIDE DEF r
  <1>5. r \in States
    BY <1>3 DEF Exact
  <1>6. /\ k'.up = r.up \ {hot.cpu}
        /\ k'.curr = r.curr /\ k'.post = r.post /\ k'.resched = r.resched
        /\ k'.home = r.home /\ k'.onRq = r.onRq
        /\ k'.prio = r.prio /\ k'.mask = r.mask /\ k'.stray = r.stray
        /\ k'.stops = r.stops /\ k'.st = r.st /\ k'.wakeList = r.wakeList
        /\ k'.active = r.active
    BY <1>4, <1>5 DEF States
  <1>7. (\A c \in k.up : k.curr[c] = Stopper /\ ctx[c] = NoCtx) /\ k.wakeList[hot.cpu] = <<>>
    BY DEF Dying
  <1> QED BY <1>1, <1>2, <1>3, <1>4, <1>6, <1>7 DEF SameTasks, SameRest, SameFlags

LEMMA DyingCalm ==
    ASSUME SmpInv, SmpInv', Homes, Calm(k, ctx), Dying
    PROVE  Calm(k', ctx')
  <1>1. /\ ctx' = ctx /\ hot'.phase = "dying"
        /\ k'.up = k.up \ {hot.cpu} /\ \A c \in k.up : k.curr[c] = Stopper
        /\ k'.curr = k.curr /\ k'.post = k.post
        /\ k'.prio = k.prio /\ k'.stray = k.stray /\ k'.stops = k.stops
    BY DyingIs
  <1>2. k' \in States /\ \A q \in Cpus : k'.online[q] => q \in k'.up
    BY DEF SmpInv, HotInv, Sound, Exact
  <1>3. Quiet(k', ctx')
    BY <1>1, <1>2, AllStopped
  <1>4. Plain(k', ctx')
    BY <1>1 DEF Plain, Calm
  <1> QED BY <1>3, <1>4 DEF Calm

\* One turn of the loop of migrate_tasks.
LEMMA MigrateTaskIs ==
    ASSUME SmpInv, MigrateTask
    PROVE  /\ hot.phase = "dying" /\ hot' = hot /\ ctx' = ctx
           /\ \E t \in Threads :
                 /\ k.onRq[t] /\ k.home[t] = hot.cpu
                 /\ k'.home[t] \in k.up /\ \A u \in Threads \ {t} : k'.home[u] = k.home[u]
                 /\ k'.mask[t] \in {k.mask[t], Cpus}
                 /\ \A u \in Threads \ {t} : k'.mask[u] = k.mask[u]
                 /\ k'.stray = k.stray \ {t}
           /\ \A u \in Threads : k'.onRq[u] <=> k.onRq[u]
           /\ k'.prio = k.prio /\ k'.curr = k.curr /\ k'.post = k.post /\ k'.up = k.up
           /\ k'.active = k.active /\ k'.online = k.online /\ k'.stops = k.stops
           /\ k'.st = k.st /\ k'.wakeList = k.wakeList
  <1> DEFINE c == hot.cpu
  <1>1. Exact(k) /\ k \in States /\ hot.phase = "dying" /\ hot' = hot /\ ctx' = ctx
        /\ Sound(k, Free(ctx)) /\ k.curr[c] = Stopper /\ c \in Cpus
    <2>1. hot.phase = "dying" /\ hot # NoPlug
      BY DEF MigrateTask, NoPlug
    <2> QED BY <2>1, InvParts DEF MigrateTask, Stays, SmpInv, Sound, HotInv
  <1>2. PICK t \in Queued(k, c) :
          LET rt == k.prio[t] < FairPrio
              off == IF rt THEN PushOff(k, c, t) ELSE k
              put == IF rt /\ Movable(k, t) THEN PushOn(off, c, t) ELSE off
          IN \E f \in Fallback(put, t) : k' \in CheckPreempt(Move(f.s, t, f.cpu), f.cpu, t)
    BY DEF MigrateTask
  <1> DEFINE off == IF k.prio[t] < FairPrio THEN PushOff(k, c, t) ELSE k
             put == IF k.prio[t] < FairPrio /\ Movable(k, t) THEN PushOn(off, c, t) ELSE off
  <1>3. PICK f \in Fallback(put, t) : k' \in CheckPreempt(Move(f.s, t, f.cpu), f.cpu, t)
    BY <1>2
  <1>4. t \in Threads /\ k.onRq[t] /\ k.home[t] = c
    BY <1>2 DEF Queued
  <1>5. Sound(put, Free(ctx)) /\ Frame(k, put) /\ SameTasks(k, put)
    <2>1. /\ off = IF k.prio[t] < FairPrio THEN PushOff(k, c, t) ELSE k
          /\ put = IF k.prio[t] < FairPrio /\ Movable(k, t) THEN PushOn(off, c, t) ELSE off
      OBVIOUS
    <2> HIDE DEF off, put
    <2> QED BY <1>1, <1>2, <2>1, PutBackSound
  <1>6. put.post = k.post /\ put.stray = k.stray
    <2>1. \A a \in States : PushOff(a, c, t).post = a.post /\ PushOff(a, c, t).stray = a.stray
                            /\ PushOn(a, c, t).post = a.post /\ PushOn(a, c, t).stray = a.stray
      BY DEF PushOff, PushOn, States
    <2>2. DOMAIN off = DOMAIN k /\ off.post = k.post /\ off.stray = k.stray
      BY <1>1, <2>1 DEF PushOff, States
    <2>3. PushOn(off, c, t).post = off.post /\ PushOn(off, c, t).stray = off.stray
      <3> HIDE DEF off
      <3> QED BY <1>1, <2>2 DEF PushOn, States
    <2> QED BY <2>2, <2>3
  <1> HIDE DEF off, put
  <1>7. Exact(put) /\ put \in States
    BY <1>5 DEF Sound, Exact
  <1>8. /\ Exact(f.s) /\ Alike(put, f.s) /\ f.cpu \in put.up
        /\ f.s.mask \in {put.mask, [put.mask EXCEPT ![t] = Cpus]}
    BY <1>3, <1>4, <1>7, FallbackIs
  <1> DEFINE s == f.s
             d == f.cpu
             m == Move(s, t, d)
  <1>9. Exact(s) /\ t \in Threads /\ s.onRq[t] /\ d \in Cpus /\ m = Move(s, t, d)
    BY <1>4, <1>5, <1>7, <1>8 DEF Alike, SameTasks, States
  <1>10. k' \in CheckPreempt(m, d, t)
    BY <1>3
  <1>11. d \in k.up
    BY <1>5, <1>8 DEF Frame, SameRest
  <1>12. /\ s.home = k.home /\ s.onRq = k.onRq /\ s.prio = k.prio /\ s.curr = k.curr
         /\ s.post = k.post /\ s.up = k.up /\ s.active = k.active /\ s.online = k.online
         /\ s.stops = k.stops /\ s.st = k.st /\ s.wakeList = k.wakeList /\ s.stray = k.stray
         /\ s.mask \in {k.mask, [k.mask EXCEPT ![t] = Cpus]}
    BY <1>5, <1>6, <1>8 DEF Alike, SameTasks, SameRest, SameFlags, Frame
  <1> HIDE DEF s, d, m
  <1>13. /\ Exact(m) /\ m \in States /\ SameRest(s, m) /\ m.stray = s.stray \ {t}
         /\ m.home[t] = d /\ \A u \in Threads \ {t} : m.home[u] = s.home[u]
         /\ \A u \in Threads : m.onRq[u] <=> s.onRq[u]
         /\ m.prio = s.prio /\ m.mask = s.mask /\ m.curr = s.curr
         /\ m.resched = s.resched /\ m.post = s.post /\ m.online = s.online
    BY <1>9, MoveIs
  <1>14. Keeps(m, k') /\ k'.post = m.post /\ k'.curr = m.curr
    BY <1>9, <1>10, <1>13, CheckPreemptIs
  <1>15. s.mask[t] \in {k.mask[t], Cpus} /\ \A u \in Threads \ {t} : s.mask[u] = k.mask[u]
    BY <1>1, <1>4, <1>12 DEF States
  <1>16. /\ k'.home[t] \in k.up /\ \A u \in Threads \ {t} : k'.home[u] = k.home[u]
         /\ k'.mask[t] \in {k.mask[t], Cpus}
         /\ \A u \in Threads \ {t} : k'.mask[u] = k.mask[u]
         /\ k'.stray = k.stray \ {t}
    BY <1>11, <1>12, <1>13, <1>14, <1>15 DEF Keeps
  <1>17. /\ \A u \in Threads : k'.onRq[u] <=> k.onRq[u]
         /\ k'.prio = k.prio /\ k'.curr = k.curr /\ k'.post = k.post /\ k'.up = k.up
         /\ k'.active = k.active /\ k'.online = k.online /\ k'.stops = k.stops
         /\ k'.st = k.st /\ k'.wakeList = k.wakeList
    BY <1>12, <1>13, <1>14 DEF Keeps, SameRest
  <1> QED BY <1>1, <1>4, <1>16, <1>17

LEMMA MigrateTaskCalm ==
    ASSUME SmpInv, SmpInv', Homes, Calm(k, ctx), MigrateTask
    PROVE  Calm(k', ctx')
  <1>1. /\ hot.phase = "dying" /\ ctx' = ctx /\ \E t : k'.stray = k.stray \ {t}
        /\ k'.prio = k.prio /\ k'.curr = k.curr /\ k'.post = k.post /\ k'.up = k.up
        /\ k'.stops = k.stops
    BY MigrateTaskIs
  <1>2. k' \in States /\ \A q \in Cpus : k'.online[q] => q \in k'.up
    BY DEF SmpInv, HotInv, Sound, Exact
  <1>3. \A c \in k'.up : k'.curr[c] = Stopper
    BY <1>1 DEF Homes
  <1>4. Quiet(k', ctx')
    BY <1>2, <1>3, AllStopped
  <1>5. k.stray = {} /\ k'.stray = {}
    BY <1>1 DEF Calm, Plain
  <1>6. Plain(k', ctx')
    BY <1>1, <1>5 DEF Plain, Calm
  <1> QED BY <1>4, <1>6 DEF Calm

LEMMA DeadIs ==
    ASSUME SmpInv, Dead
    PROVE  /\ hot.phase = "dying" /\ hot' = NoPlug /\ ctx' = ctx /\ Queued(k, hot.cpu) = {}
           /\ \A a \in Cpus : a # hot.cpu => k'.curr[a] = k.curr[a] /\ k'.post[a] = k.post[a]
           /\ ~k'.post[hot.cpu]
           /\ k'.up = k.up /\ k'.home = k.home /\ k'.onRq = k.onRq
           /\ k'.prio = k.prio /\ k'.mask = k.mask /\ k'.stray = k.stray /\ k'.online = k.online
           /\ k'.stops = k.stops /\ k'.st = k.st /\ k'.wakeList = k.wakeList
           /\ k'.active = k.active
  <1> DEFINE c == hot.cpu
  <1>1. k \in States /\ hot.phase = "dying" /\ hot # NoPlug
    BY InvParts DEF Dead, NoPlug
  <1>2. c \in Cpus
    BY <1>1 DEF SmpInv, HotInv
  <1>3. k' = [k EXCEPT !.curr[c] = Idle, !.resched[c] = FALSE, !.post[c] = FALSE]
        /\ ctx' = ctx /\ hot' = NoPlug /\ Queued(k, c) = {}
    BY DEF Dead
  <1>4. k.curr \in [Cpus -> Threads \cup {Idle, Stopper}] /\ k.post \in [Cpus -> BOOLEAN]
    BY <1>1 DEF States
  <1>5. /\ k'.curr = [k.curr EXCEPT ![c] = Idle] /\ k'.post = [k.post EXCEPT ![c] = FALSE]
        /\ k'.up = k.up /\ k'.home = k.home /\ k'.onRq = k.onRq
        /\ k'.prio = k.prio /\ k'.mask = k.mask /\ k'.stray = k.stray /\ k'.online = k.online
        /\ k'.stops = k.stops /\ k'.st = k.st /\ k'.wakeList = k.wakeList
        /\ k'.active = k.active
    BY <1>1, <1>3 DEF States
  <1> QED BY <1>1, <1>2, <1>3, <1>4, <1>5

LEMMA DeadCalm ==
    ASSUME SmpInv, SmpInv', Homes, Calm(k, ctx), Dead
    PROVE  Calm(k', ctx')
  <1>1. /\ hot.phase = "dying" /\ ctx' = ctx
        /\ \A a \in Cpus : a # hot.cpu => k'.curr[a] = k.curr[a] /\ k'.post[a] = k.post[a]
        /\ ~k'.post[hot.cpu]
        /\ k'.up = k.up /\ k'.prio = k.prio /\ k'.stray = k.stray /\ k'.stops = k.stops
    BY DeadIs
  <1>2. k' \in States /\ \A q \in Cpus : k'.online[q] => q \in k'.up
    BY DEF SmpInv, HotInv, Sound, Exact
  <1>3. \A c \in k'.up : k'.curr[c] = Stopper
    BY <1>1, KnownParts DEF Homes
  <1>4. Quiet(k', ctx')
    BY <1>2, <1>3, AllStopped
  <1>5. Plain(k', ctx')
    BY <1>1 DEF Plain, Calm
  <1> QED BY <1>4, <1>5 DEF Calm

LEMMA StartingIs ==
    ASSUME SmpInv, NEW c \in Cpus, Starting(c)
    PROVE  /\ hot = NoPlug /\ hot'.phase = "up" /\ ctx' = ctx /\ c \notin k.up
           /\ k'.up = k.up \cup {c} /\ k'.active = k.active \cup {c}
           /\ k'.curr = k.curr /\ k'.post = k.post /\ k'.resched = k.resched /\ k'.next = k.next
           /\ k'.home = k.home /\ k'.onRq = k.onRq
           /\ k'.prio = k.prio /\ k'.mask = k.mask /\ k'.stray = k.stray /\ k'.online = k.online
           /\ k'.stops = k.stops /\ k'.st = k.st /\ k'.wakeList = k.wakeList
  BY InvParts DEF Starting, States

LEMMA StartingCalm ==
    ASSUME SmpInv, Homes, Calm(k, ctx), NEW c \in Cpus, Starting(c)
    PROVE  Calm(k', ctx')
  <1>1. /\ hot = NoPlug /\ ctx' = ctx /\ c \notin k.up /\ k'.up = k.up \cup {c}
        /\ k'.curr = k.curr /\ k'.post = k.post /\ k'.resched = k.resched /\ k'.next = k.next
        /\ k'.home = k.home /\ k'.onRq = k.onRq
        /\ k'.prio = k.prio /\ k'.stray = k.stray /\ k'.online = k.online /\ k'.stops = k.stops
    BY StartingIs
  <1>2. /\ k \in States /\ k.up \subseteq Cpus /\ Plain(k, ctx) /\ Quiet(k, ctx)
    BY KnownParts DEF Calm
  <1>3. \A a : Highest(k', a) = Highest(k, a)
    BY <1>1 DEF Highest, RtQueued, Queued
  <1>4. \A u : PrioOf(k', u) = PrioOf(k, u)
    BY <1>1 DEF PrioOf
  <1>5. \A a \in Cpus : Urgent(k', a) <=> Urgent(k, a)
    BY <1>1, <1>3, <1>4 DEF Urgent
  <1>6. ~Urgent(k, c)
    <2>1. RtQueued(k, c) = {}
      <3>1. \A u \in Threads : ~(k.onRq[u] /\ k.home[u] = c)
        BY <1>1 DEF Homes, NoPlug
      <3> QED BY <3>1 DEF RtQueued, Queued
    <2>2. Highest(k, c) = FairPrio
      BY <1>2, <2>1, HighestAttained
    <2> QED BY <2>2, ThreadAssumption DEF Urgent
  <1>7. \A a \in k'.up : Urgent(k', a) => Attended(k', ctx', a)
    BY <1>1, <1>2, <1>5, <1>6 DEF Quiet, Attended
  <1>8. \A q, d \in Cpus : q # d /\ k'.online[q] /\ k'.online[d] => Offered(k', ctx', q, d)
    BY <1>1, <1>2, <1>3, <1>5 DEF Quiet, Offered, Pushes, Yields
  <1>9. Plain(k', ctx')
    BY <1>1, <1>2 DEF Plain
  <1> QED BY <1>7, <1>8, <1>9 DEF Calm, Quiet

-----------------------------------------------------------------------------
(* Nothing waits in vain *)

\* When nothing waits and nothing is left to do, all is well again.
LEMMA RestCalm ==
    ASSUME SmpInv, Homes, AtRest, Waiting = {}, k.stray = {}
    PROVE  Calm(k, ctx)
  <1>1. /\ Exact(k) /\ k \in States /\ OnOwn(k, Free(ctx)) /\ k.up \subseteq Cpus /\ FairPrio \in Nat
        /\ k.prio \in [Threads -> 1 .. FairPrio]
    BY KnownParts
  <1>2. \A c \in Cpus : /\ ctx[c].at = "none" /\ ctx[c].then = "none" /\ ~k.post[c]
                        /\ ~Choosing(ctx[c])
    BY NoCtxIs DEF AtRest, NoCtx
  <1>3. \A c \in Cpus : \A t \in RtQueued(k, c) : k.curr[c] = t /\ t \in Threads
    <2> SUFFICES ASSUME NEW c \in Cpus, NEW t \in RtQueued(k, c) PROVE k.curr[c] = t /\ t \in Threads
      OBVIOUS
    <2>1. t \in Threads /\ k.onRq[t] /\ k.home[t] = c /\ k.prio[t] < FairPrio
      BY DEF RtQueued, Queued
    <2>2. t \notin Waiting
      OBVIOUS
    <2>3. PICK d \in Cpus : k.curr[d] = t
      BY <2>1, <2>2 DEF Waiting, OnCpu
    <2> QED BY <1>1, <2>1, <2>3 DEF OnOwn
  <1>4. \A c \in Cpus : k.next[c] = FairPrio
    <2> SUFFICES ASSUME NEW c \in Cpus PROVE k.next[c] = FairPrio
      OBVIOUS
    <2>1. Pushable(k, c) = {}
      BY <1>3 DEF Pushable, RtMovable
    <2> QED BY <1>1, <2>1, NextIs
  <1>5. \A c \in Cpus : ~Urgent(k, c)
    <2> SUFFICES ASSUME NEW c \in Cpus, Highest(k, c) < FairPrio
                 PROVE  ~(Highest(k, c) < PrioOf(k, k.curr[c]))
      BY DEF Urgent
    <2>1. PICK t \in RtQueued(k, c) : k.prio[t] = Highest(k, c)
      BY <1>1, HighestAttained, ThreadAssumption
    <2>2. t \in Threads /\ k.curr[c] = t
      BY <1>3
    <2>3. PrioOf(k, t) = k.prio[t] /\ k.prio[t] \in 1 .. FairPrio
      BY <1>1, <2>2, PrioOfTasks
    <2> QED BY <2>1, <2>2, <2>3
  <1>6. Quiet(k, ctx)
    <2>1. \A q, d \in Cpus : ~(k.next[q] < Highest(k, d))
      <3>1. \A d \in Cpus : Highest(k, d) \in 1 .. FairPrio
        BY <1>1, HighestIs
      <3> QED BY <1>1, <1>4, <3>1
    <2> QED BY <1>1, <1>5, <2>1 DEF Quiet, Offered
  <1>7. Plain(k, ctx)
    BY <1>2 DEF Plain, AtRest
  <1> QED BY <1>6, <1>7 DEF Calm

\* Every step keeps it, unless it is one after which tasks may wait.
LEMMA StepCalm ==
    ASSUME SmpInv, SmpInv', Homes, ~late => Calm(k, ctx), BalanceNext, ~late'
    PROVE  Calm(k', ctx')
  <1>1. ASSUME NEW more, NotedIf(more)
        PROVE  ~Unsettling /\ ~more /\ Calm(k, ctx)
    <2>1. ~Unsettling /\ ~more /\ ~(late /\ ~(AtRest /\ Waiting = {} /\ k.stray = {}))
      BY <1>1 DEF NotedIf
    <2> QED BY <2>1, RestCalm
  <1>2. Noted => ~Unsettling /\ Calm(k, ctx)
    BY <1>1 DEF Noted
  <1>3. Stays => ~Unsettling /\ Calm(k, ctx)
    BY <1>2 DEF Stays
  <1>4. ASSUME NEW c \in Cpus, Migrate(c) PROVE FALSE
    BY <1>3, <1>4 DEF Migrate, Calm, Plain
  <1>5. ASSUME Online PROVE FALSE
    BY <1>2, <1>5 DEF Online, Unsettling, NoPlug
  <1>6. ASSUME NEW c \in Cpus, PreemptCurr(c) PROVE Calm(k', ctx')
    BY <1>3, <1>6, PreemptCurrCalm DEF PreemptCurr
  <1>7. ASSUME NEW c \in Cpus, SleepCurr(c) PROVE Calm(k', ctx')
    BY <1>3, <1>7, SleepCurrCalm DEF SleepCurr
  <1>8. ASSUME NEW c \in Cpus, PostSchedule(c) PROVE Calm(k', ctx')
    BY <1>3, <1>8, PostScheduleCalm DEF PostSchedule
  <1>9. ASSUME NEW c \in Cpus, PushGoes(c) PROVE Calm(k', ctx')
    <2>1. NotedIf(GivesUp(ctx[c]) \/ Robs)
      BY <1>9 DEF PushGoes
    <2>2. ~(GivesUp(ctx[c]) \/ Robs) /\ Calm(k, ctx)
      BY <1>1, <2>1
    <2> QED BY <1>9, <2>2, PushGoesCalm
  <1>10. ASSUME NEW c \in Cpus, PullGoes(c) PROVE Calm(k', ctx')
    <2>1. NotedIf(Misses(ctx[c]) \/ Robs)
      BY <1>10 DEF PullGoes
    <2>2. ~(Misses(ctx[c]) \/ Robs) /\ Calm(k, ctx)
      BY <1>1, <2>1
    <2> QED BY <1>10, <2>2, PullGoesCalm
  <1>11. ASSUME NEW c \in Cpus, WakeLocked(c) PROVE Calm(k', ctx')
    BY <1>3, <1>11, WakeLockedCalm DEF WakeLocked
  <1>12. ASSUME NEW c \in Cpus, TtwuPending(c) PROVE Calm(k', ctx')
    BY <1>3, <1>12, TtwuPendingCalm DEF TtwuPending
  <1>13. ASSUME NEW c \in Cpus, StopperSleeps(c) PROVE Calm(k', ctx')
    BY <1>3, <1>13, StopperSleepsCalm DEF StopperSleeps
  <1>14. ASSUME NEW c \in Cpus, DownPrepare(c) PROVE Calm(k', ctx')
    BY <1>2, <1>14, DownPrepareCalm DEF DownPrepare
  <1>15. ASSUME NEW c \in Cpus, Starting(c) PROVE Calm(k', ctx')
    BY <1>2, <1>15, StartingCalm DEF Starting
  <1>16. ASSUME NEW c \in Cpus, NEW t \in Threads, WakeUp(c, t) PROVE Calm(k', ctx')
    BY <1>3, <1>16, WakeUpCalm DEF WakeUp
  <1>17. ASSUME NEW c \in Cpus, NEW t \in Threads, NEW m \in MayMask[t], SetAffinity(c, t, m)
         PROVE  Calm(k', ctx')
    BY <1>3, <1>17, SetAffinityCalm DEF SetAffinity
  <1>18. ASSUME NEW c \in Cpus, NEW t \in Threads, NEW p \in MayPrio[t], SetPrio(c, t, p)
         PROVE  Calm(k', ctx')
    BY <1>3, <1>18, SetPrioCalm DEF SetPrio
  <1>19. ASSUME StopMachine PROVE Calm(k', ctx')
    BY <1>2, <1>19, StopMachineCalm DEF StopMachine
  <1>20. ASSUME Dying PROVE Calm(k', ctx')
    BY <1>2, <1>20, DyingCalm DEF Dying
  <1>21. ASSUME MigrateTask PROVE Calm(k', ctx')
    BY <1>3, <1>21, MigrateTaskCalm DEF MigrateTask
  <1>22. ASSUME Dead PROVE Calm(k', ctx')
    BY <1>2, <1>22, DeadCalm DEF Dead
  <1> QED BY <1>4, <1>5, <1>6, <1>7, <1>8, <1>9, <1>10, <1>11, <1>12, <1>13, <1>14, <1>15,
             <1>16, <1>17, <1>18, <1>19, <1>20, <1>21, <1>22 DEF BalanceNext

-----------------------------------------------------------------------------
(* Tasks and processors stay where they may be *)

LEMMA EndsKeep ==
    ASSUME NEW s, NEW F, Sound(s, F), NEW c \in Cpus, NEW x, x.q \in Cpus,
           x.then \in PushEnds \cup PullEnds, NEW moved, NEW r \in Ends(s, c, x, moved)
    PROVE  Keeps(s, r)
  <1>1. s \in States /\ Keeps(s, s)
    BY DEF Sound, Exact, Keeps, SameRest
  <1>2. CASE x.then = "pick"
    <2>1. Ends(s, c, x, moved) = Pick(s, c)
      BY <1>2, Zenon DEF Ends
    <2>2. r \in Pick(s, c)
      BY <2>1
    <2> QED BY <2>2, PickIs
  <1>3. CASE x.then = "post"
    <2>1. r = Pushed(s, c)
      BY <1>3, Zenon DEF Ends, Pushed
    <2> QED BY <1>1, <2>1, PushedIs
  <1>4. CASE x.then = "woken"
    <2>1. r = s
      BY <1>4, Zenon DEF Ends
    <2> QED BY <1>1, <2>1
  <1>5. CASE x.then = "prio"
    <2>1. r = Resched(s, x.q) \/ r = s
      BY <1>5, Zenon DEF Ends
    <2> QED BY <1>1, <2>1, ReschedIs
  <1>6. CASE x.then = "to"
    <2>1. r = Resched(s, x.q) \/ r = s
      BY <1>6, Zenon DEF Ends
    <2> QED BY <1>1, <2>1, ReschedIs
  <1>7. CASE x.then = "from"
    <2>1. r \in SwitchedToFair(s, x.q, x.who)
      BY <1>7, Zenon DEF Ends
    <2>2. r = s \/ r = Resched(s, x.q) \/ r \in CheckPreempt(s, x.q, x.who)
      BY <2>1 DEF SwitchedToFair
    <2> QED BY <1>1, <2>2, ReschedIs, CheckPreemptIs
  <1> QED BY <1>2, <1>3, <1>4, <1>5, <1>6, <1>7 DEF PushEnds, PullEnds

LEMMA NoCtxHome ==
    ASSUME NEW c, NEW up
    PROVE  CtxHome(NoCtx, c, up) /\ NoCtx.at = "none"
  BY DEF CtxHome, NoCtx

\* A push by c goes on, to its end or to the lock of another queue.
LEMMA PushRunsHome ==
    ASSUME NEW r, NEW F, Sound(r.s, F), r.task # NoOne => r.dest \in k.up,
           DOMAIN ctx = Cpus, NEW c \in Cpus, NEW y \in Contexts, y.q \in Cpus,
           y.then \in PushEnds, y.then = "post" => y.q = c, PushRuns(c, y, r)
    PROVE  /\ Keeps(r.s, k') /\ ButFor(ctx, ctx', c)
           /\ CtxHome(ctx'[c], c, k.up) /\ ctx'[c].at # "wake"
  <1>1. CASE r.task = NoOne
    <2>1. k' \in Ends(r.s, c, y, r.moved) /\ ctx' = [ctx EXCEPT ![c] = NoCtx]
      BY <1>1 DEF PushRuns, Leave
    <2>2. y.then \in PushEnds \cup PullEnds
      OBVIOUS
    <2>3. Keeps(r.s, k')
      BY <2>1, <2>2, EndsKeep
    <2>4. ButFor(ctx, ctx', c) /\ ctx'[c] = NoCtx
      BY <2>1 DEF ButFor
    <2> QED BY <2>3, <2>4, NoCtxHome
  <1>2. CASE r.task # NoOne
    <2> DEFINE z == [y EXCEPT !.at = "push", !.task = r.task, !.dest = r.dest, !.tries = r.tries]
    <2>1. k' = r.s /\ ctx' = [ctx EXCEPT ![c] = z]
      BY <1>2 DEF PushRuns, Leave
    <2>2. z.at = "push" /\ z.q = y.q /\ z.dest = r.dest /\ z.then = y.then
      BY DEF Contexts
    <2> HIDE DEF z
    <2>3. ButFor(ctx, ctx', c) /\ ctx'[c] = z
      BY <2>1 DEF ButFor
    <2>4. CtxHome(z, c, k.up)
      BY <1>2, <2>2 DEF CtxHome, PushEnds
    <2>5. Keeps(r.s, k')
      BY <2>1 DEF Keeps, SameRest
    <2> QED BY <2>2, <2>3, <2>4, <2>5
  <1> QED BY <1>1, <1>2

\* A pull by c goes on, to its end or to the lock of another queue.
LEMMA PullRunsHome ==
    ASSUME NEW s, NEW F, Sound(s, F), DOMAIN ctx = Cpus, NEW c \in Cpus, NEW y \in Contexts,
           y.q \in Cpus, y.q \in k.up, y.then \in PullEnds, y.then = "pick" => y.q = c,
           y.then = "prio" => y.who \in Threads, NEW d, PullRuns(c, y, s, d)
    PROVE  /\ Keeps(s, k') /\ ButFor(ctx, ctx', c)
           /\ CtxHome(ctx'[c], c, k.up) /\ ctx'[c].at # "wake"
  <1> DEFINE e == PullNext(s, y.q, d)
  <1>1. CASE e = 0
    <2>1. k' \in Ends(s, c, y, FALSE) /\ ctx' = [ctx EXCEPT ![c] = NoCtx]
      BY <1>1 DEF PullRuns, Leave
    <2>2. y.then \in PushEnds \cup PullEnds
      OBVIOUS
    <2>3. Keeps(s, k')
      BY <2>1, <2>2, EndsKeep
    <2>4. ButFor(ctx, ctx', c) /\ ctx'[c] = NoCtx
      BY <2>1 DEF ButFor
    <2> QED BY <2>3, <2>4, NoCtxHome
  <1>2. CASE e # 0
    <2> DEFINE z == [y EXCEPT !.at = "pull", !.dest = e]
    <2>1. k' = s /\ ctx' = [ctx EXCEPT ![c] = z]
      BY <1>2 DEF PullRuns, Leave
    <2>2. z.at = "pull" /\ z.q = y.q /\ z.then = y.then /\ z.who = y.who
      BY DEF Contexts
    <2> HIDE DEF z
    <2>3. ButFor(ctx, ctx', c) /\ ctx'[c] = z
      BY <2>1 DEF ButFor
    <2>4. CtxHome(z, c, k.up)
      BY <2>2 DEF CtxHome
    <2>5. Keeps(s, k')
      BY <2>1 DEF Keeps, SameRest
    <2> QED BY <2>2, <2>3, <2>4, <2>5
  <1> QED BY <1>1, <1>2

\* A step of processor c in which only queued tasks move, to processors that are up,
\* and nobody is woken.
LEMMA HomesOn ==
    ASSUME SmpInv, Homes, NEW c \in Cpus, ctx[c].at # "wake", hot.phase # "dying", hot' = hot,
           ButFor(ctx, ctx', c), CtxHome(ctx'[c], c, k.up),
           k'.up = k.up, k'.active = k.active, k'.wakeList = k.wakeList, Roaming(k'),
           \A t \in Threads : /\ k'.onRq[t] => k.onRq[t]
                              /\ k'.st[t] = "waking" => k.st[t] = "waking"
                              /\ k'.home[t] = k.home[t] \/ (k.onRq[t] /\ k'.home[t] \in k.up)
    PROVE  Homes'
  <1>1. Awake(k)
    BY KnownParts
  <1>2. k'.active \subseteq k'.up
    BY DEF Homes
  <1>3. ASSUME NEW t \in Threads, k'.onRq[t] PROVE k'.home[t] \in k'.up
    BY <1>3 DEF Homes
  <1>4. ASSUME NEW t \in Threads, k'.st[t] = "waking"
        PROVE  /\ k'.home[t] \in k'.up
               /\ \/ \E a \in Cpus : ctx'[a].at = "wake" /\ ctx'[a].who = t
                  \/ t \in Range(k'.wakeList[k'.home[t]])
    <2>1. k.st[t] = "waking" /\ ~k.onRq[t] /\ k'.home[t] = k.home[t]
      BY <1>1, <1>4 DEF Awake
    <2>2. /\ k.home[t] \in k.up
          /\ \/ \E a \in Cpus : ctx[a].at = "wake" /\ ctx[a].who = t
             \/ t \in Range(k.wakeList[k.home[t]])
      BY <2>1 DEF Homes
    <2>3. ASSUME NEW a \in Cpus, ctx[a].at = "wake" PROVE ctx'[a] = ctx[a]
      BY <2>3 DEF ButFor
    <2> QED BY <2>1, <2>2, <2>3
  <1>5. \A a \in Cpus : CtxHome(ctx'[a], a, k'.up)
    BY DEF Homes, ButFor
  <1>6. hot'.phase # "dying" /\ (hot'.phase \in {"prepare", "stop"} => hot'.cpu \notin k'.active)
    BY DEF Homes
  <1> QED BY <1>2, <1>3, <1>4, <1>5, <1>6 DEF Homes

\* The same where the queues are kept.
LEMMA HomesKept ==
    ASSUME SmpInv, Homes, NEW c \in Cpus, ctx[c].at # "wake", hot.phase # "dying", hot' = hot,
           NEW s, Keeps(s, k'), s.home = k.home, s.mask = k.mask, s.up = k.up, s.active = k.active,
           s.wakeList = k.wakeList,
           \A t \in Threads : /\ s.onRq[t] => k.onRq[t]
                              /\ s.st[t] = "waking" => k.st[t] = "waking",
           ButFor(ctx, ctx', c), CtxHome(ctx'[c], c, k.up)
    PROVE  Homes'
  <1>1. /\ k'.up = k.up /\ k'.active = k.active /\ k'.wakeList = k.wakeList
        /\ k'.home = k.home /\ k'.mask = k.mask /\ k'.onRq = s.onRq /\ k'.st = s.st
    BY DEF Keeps, SameRest
  <1>2. Roaming(k')
    BY <1>1 DEF Homes, Roaming, Movable
  <1>3. \A t \in Threads : /\ k'.onRq[t] => k.onRq[t]
                           /\ k'.st[t] = "waking" => k.st[t] = "waking"
                           /\ k'.home[t] = k.home[t] \/ (k.onRq[t] /\ k'.home[t] \in k.up)
    BY <1>1
  <1> QED BY <1>1, <1>2, <1>3, HomesOn

LEMMA ScheduleFromHome ==
    ASSUME NEW s, NEW F, Sound(s, F), DOMAIN ctx = Cpus, NEW c \in Cpus, c \in k.up,
           ScheduleFrom(c, s)
    PROVE  Keeps(s, k') /\ ButFor(ctx, ctx', c) /\ CtxHome(ctx'[c], c, k.up)
  <1>1. CASE PullRuns(c, Loop(c, "pick", NoOne), s, 0)
    <2> DEFINE y == Loop(c, "pick", NoOne)
    <2>1. "pick" \in PushEnds \cup PullEnds /\ "pick" \in PullEnds /\ NoOne \in Threads \cup {NoOne}
      BY DEF PullEnds
    <2>2. y \in Contexts /\ y.q = c /\ y.then = "pick"
      BY <2>1, LoopIs
    <2>3. PullRuns(c, y, s, 0)
      BY <1>1
    <2> HIDE DEF y
    <2>4. y.q \in Cpus /\ y.q \in k.up /\ y.then \in PullEnds /\ (y.then = "pick" => y.q = c)
          /\ (y.then = "prio" => y.who \in Threads)
      BY <2>1, <2>2
    <2> QED BY <2>2, <2>3, <2>4, PullRunsHome
  <1>2. CASE k' \in Pick(s, c) /\ Leave(c, NoCtx)
    <2>1. Keeps(s, k')
      BY <1>2, PickIs
    <2>2. ButFor(ctx, ctx', c) /\ ctx'[c] = NoCtx
      BY <1>2 DEF ButFor, Leave
    <2> QED BY <2>1, <2>2, NoCtxHome
  <1> QED BY <1>1, <1>2 DEF ScheduleFrom

LEMMA PreemptCurrHome ==
    ASSUME SmpInv, Homes, NEW c \in Cpus, PreemptCurr(c)
    PROVE  Homes'
  <1>1. /\ Sound(k, Free(ctx)) /\ DOMAIN ctx = Cpus /\ c \in k.up /\ hot.phase # "dying"
        /\ ctx[c].at = "none" /\ ScheduleFrom(c, k) /\ hot' = hot
    BY KnownParts, ReadyIs DEF PreemptCurr, Stays
  <1>2. Keeps(k, k') /\ ButFor(ctx, ctx', c) /\ CtxHome(ctx'[c], c, k.up)
    BY <1>1, ScheduleFromHome
  <1> QED BY <1>1, <1>2, HomesKept

LEMMA SleepCurrHome ==
    ASSUME SmpInv, Homes, NEW c \in Cpus, SleepCurr(c)
    PROVE  Homes'
  <1> DEFINE prev == k.curr[c]
             v == InState(Dequeue(k, prev), prev, "sleep")
             F == Free(ctx) \cup {c}
  <1>1. /\ Sound(k, Free(ctx)) /\ Exact(k) /\ DOMAIN ctx = Cpus
        /\ OnOwn(k, Free(ctx)) /\ Awake(k) /\ Placed(k)
    BY KnownParts DEF Sound
  <1>2. /\ ctx[c].at = "none" /\ c \notin Free(ctx) /\ ScheduleFrom(c, v) /\ hot' = hot
        /\ c \in k.up /\ hot.phase # "dying" /\ prev \in Threads /\ k.curr[c] = prev
    BY ReadyIs DEF SleepCurr, InState, Stays
  <1>3. k.onRq[prev] /\ k.home[prev] = c
    BY <1>1, <1>2 DEF OnOwn
  <1> HIDE DEF prev
  <1>4. v = InState(Dequeue(k, prev), prev, "sleep") /\ c = k.home[prev]
    BY <1>3
  <1> HIDE DEF v
  <1>5. /\ Exact(v)
        /\ v.home = k.home /\ v.mask = k.mask /\ v.curr = k.curr /\ v.up = k.up
        /\ v.stops = k.stops /\ v.stray = k.stray /\ v.active = k.active
        /\ v.wakeList = k.wakeList /\ v.st[prev] = "sleep"
        /\ \A u \in Threads \ {prev} : v.onRq[u] = k.onRq[u] /\ v.st[u] = k.st[u]
        /\ ~v.onRq[prev]
    BY <1>1, <1>2, <1>3, <1>4, LeftView
  <1>6. \A t \in Threads : (v.onRq[t] => k.onRq[t]) /\ (v.st[t] = "waking" => k.st[t] = "waking")
    BY <1>5
  <1>7. Sound(v, F)
    <2>1. OnOwn(v, F)
      <3>1. \A e \in Cpus : k.curr[e] = prev => e = c
        BY <1>1, <1>2, <1>3 DEF OnOwn
      <3> QED BY <1>1, <1>5, <3>1 DEF OnOwn
    <2>2. Awake(v)
      BY <1>1, <1>5 DEF Awake
    <2>3. Placed(v)
      BY <1>1, <1>5, <1>6 DEF Placed
    <2> QED BY <1>5, <2>1, <2>2, <2>3 DEF Sound
  <1>8. Keeps(v, k') /\ ButFor(ctx, ctx', c) /\ CtxHome(ctx'[c], c, k.up)
    <2> HIDE DEF F
    <2> QED BY <1>1, <1>2, <1>7, ScheduleFromHome
  <1>9. ctx[c].at # "wake"
    BY <1>2
  <1> QED BY <1>2, <1>5, <1>6, <1>8, <1>9, HomesKept

LEMMA StopperSleepsHome ==
    ASSUME SmpInv, Homes, NEW c \in Cpus, StopperSleeps(c)
    PROVE  Homes'
  <1>1. /\ Sound(k, Free(ctx)) /\ hot.phase # "dying" /\ ctx[c].at = "none"
        /\ hot' = hot /\ ctx' = ctx /\ k' \in Pick(k, c)
    BY KnownParts, ReadyIs DEF StopperSleeps, Stays
  <1>2. Keeps(k, k')
    BY <1>1, PickIs
  <1>3. ButFor(ctx, ctx', c) /\ CtxHome(ctx'[c], c, k.up)
    BY <1>1 DEF ButFor, Homes
  <1> QED BY <1>1, <1>2, <1>3, HomesKept

LEMMA PostScheduleHome ==
    ASSUME SmpInv, Homes, NEW c \in Cpus, PostSchedule(c)
    PROVE  Homes'
  <1>1. /\ Sound(k, Free(ctx)) /\ Exact(k) /\ k \in States /\ Roaming(k) /\ DOMAIN ctx = Cpus
        /\ \A b \in Free(ctx) : Choosing(ctx[b])
        /\ c \in k.up /\ hot.phase # "dying" /\ ctx[c].at = "none" /\ hot' = hot
    BY KnownParts, ReadyIs DEF PostSchedule, Stays
  <1>2. CASE \E r \in PushStart(k, c) : PushRuns(c, Loop(c, "post", NoOne), r)
    <2> DEFINE x == Loop(c, "post", NoOne)
    <2>1. PICK r \in PushStart(k, c) : PushRuns(c, x, r)
      BY <1>2
    <2>2. "post" \in PushEnds \cup PullEnds /\ "post" \in PushEnds /\ NoOne \in Threads \cup {NoOne}
      BY DEF PushEnds
    <2>3. x \in Contexts /\ x.q = c /\ x.then = "post"
      BY <2>2, LoopIs
    <2> HIDE DEF x
    <2>4. PushTo(k, ctx, c, r)
      BY <1>1, <2>1, PushStartEnds
    <2>5. r.task # NoOne => r.dest \in k.up
      BY <2>4 DEF PushTo, SmpInv, HotInv
    <2>6. r.s = k \/ r.s = Resched(k, c)
      BY <2>4 DEF PushTo
    <2>7. Sound(r.s, Free(ctx)) /\ Keeps(k, r.s)
      <3>1. CASE r.s = k
        BY <1>1, <3>1 DEF Keeps, SameRest
      <3>2. CASE r.s = Resched(k, c)
        BY <1>1, <3>2, ReschedSound, ReschedIs
      <3> QED BY <2>6, <3>1, <3>2
    <2>8. x.q \in Cpus /\ x.then \in PushEnds /\ (x.then = "post" => x.q = c)
      BY <2>2, <2>3
    <2>9. Keeps(r.s, k') /\ ButFor(ctx, ctx', c) /\ CtxHome(ctx'[c], c, k.up)
      BY <1>1, <2>1, <2>3, <2>5, <2>7, <2>8, PushRunsHome
    <2>10. Keeps(k, k')
      BY <2>7, <2>9, KeepsTrans
    <2> QED BY <1>1, <2>9, <2>10, HomesKept
  <1>3. CASE k' = [k EXCEPT !.post[c] = FALSE] /\ Leave(c, NoCtx)
    <2>1. Keeps(k, k')
      BY <1>1, <1>3, PushedIs DEF Pushed
    <2>2. ButFor(ctx, ctx', c) /\ ctx'[c] = NoCtx
      BY <1>1, <1>3 DEF ButFor, Leave
    <2>3. CtxHome(ctx'[c], c, k.up)
      BY <2>2, NoCtxHome
    <2> QED BY <1>1, <2>1, <2>2, <2>3, HomesKept
  <1> QED BY <1>2, <1>3 DEF PostSchedule

\* Tasks are where they were, or queued and moved to d.
Gone(s, r, d) ==
    /\ r.mask = s.mask /\ SameRest(s, r) /\ r.online = s.online
    /\ \A u \in Threads : /\ r.onRq[u] <=> s.onRq[u]
                          /\ r.home[u] = s.home[u] \/ (s.onRq[u] /\ r.home[u] = d)

LEMMA KeepsGone ==
    ASSUME NEW s, NEW r, Keeps(s, r), NEW d
    PROVE  Gone(s, r, d)
  BY DEF Keeps, Gone

LEMMA GoneKeeps ==
    ASSUME NEW s, NEW r, NEW v, NEW d, Gone(s, r, d), Keeps(r, v)
    PROVE  Gone(s, v, d)
  BY DEF Keeps, Gone, SameRest

LEMMA MoveGone ==
    ASSUME NEW s, NEW F, Sound(s, F), NEW t \in Threads, s.onRq[t], NEW d \in s.mask[t],
           NEW m, m = Move(s, t, d), ~OnCpu(s, t)
    PROVE  Gone(s, m, d) /\ Sound(m, F)
  <1>1. Exact(s) /\ d \in Cpus
    BY DEF Sound, Exact, States
  <1>2. /\ SameRest(s, m) /\ m.home[t] = d /\ \A u \in Threads \ {t} : m.home[u] = s.home[u]
        /\ \A u \in Threads : m.onRq[u] <=> s.onRq[u]
        /\ m.mask = s.mask /\ m.online = s.online
    BY <1>1, MoveIs
  <1>3. Sound(m, F)
    BY MoveSound
  <1> QED BY <1>2, <1>3 DEF Gone

\* A step of processor c that moves queued tasks to a processor that is up.
LEMMA HomesGone ==
    ASSUME SmpInv, Homes, NEW c \in Cpus, ctx[c].at # "wake", hot.phase # "dying", hot' = hot,
           NEW d \in k.up, Gone(k, k', d),
           ButFor(ctx, ctx', c), CtxHome(ctx'[c], c, k.up)
    PROVE  Homes'
  <1>1. /\ k'.up = k.up /\ k'.active = k.active /\ k'.wakeList = k.wakeList
        /\ k'.mask = k.mask /\ k'.st = k.st
        /\ \A u \in Threads : /\ k'.onRq[u] => k.onRq[u]
                              /\ k'.home[u] = k.home[u] \/ (k.onRq[u] /\ k'.home[u] = d)
    BY DEF Gone, SameRest
  <1>2. Roaming(k')
    BY <1>1 DEF Homes, Roaming, Movable
  <1>3. \A u \in Threads : /\ k'.onRq[u] => k.onRq[u]
                           /\ k'.st[u] = "waking" => k.st[u] = "waking"
                           /\ k'.home[u] = k.home[u] \/ (k.onRq[u] /\ k'.home[u] \in k.up)
    BY <1>1
  <1> QED BY <1>1, <1>2, <1>3, HomesOn

\* What push_rt_task names next is online.
LEMMA PushNextOnline ==
    ASSUME NEW s, Exact(s), NEW q \in Cpus, s.push[q] # <<>>, NEW r \in PushNext(s, q)
    PROVE  r.s \in {s, Resched(s, q)} /\ (r.task # NoOne => r.dest \in Cpus /\ s.online[r.dest])
  <1> DEFINE u == Head(s.push[q])
  <1>1. u \in Threads
    BY DEF Exact, States
  <1>2. \A v : Done(v).s = v /\ Done(v).task = NoOne
    BY DEF Done
  <1>3. \A d : Locking(s, u, d, 0).s = s /\ Locking(s, u, d, 0).dest = d
    BY DEF Locking
  <1>4. \/ r = Done(s) \/ r = Done(Resched(s, q))
        \/ \E d \in FindLowest(s, u) : d \notin {0, q} /\ r = Locking(s, u, d, 0)
    BY DEF PushNext
  <1> HIDE DEF u
  <1>5. \A d \in FindLowest(s, u) : d \notin {0, q} => d \in Cpus /\ s.online[d]
    BY <1>1, LowestOnline
  <1> QED BY <1>2, <1>3, <1>4, <1>5

LEMMA PushStartOnline ==
    ASSUME NEW s, Exact(s), NEW q \in Cpus, NEW r \in PushStart(s, q)
    PROVE  r.s \in {s, Resched(s, q)} /\ (r.task # NoOne => r.dest \in Cpus /\ s.online[r.dest])
  <1>1. Done(s).s = s /\ Done(s).task = NoOne
    BY DEF Done
  <1>2. r = Done(s) \/ (s.push[q] # <<>> /\ r \in PushNext(s, q))
    BY DEF PushStart
  <1> QED BY <1>1, <1>2, PushNextOnline

LEMMA PushFailedOnline ==
    ASSUME NEW s, Exact(s), NEW q \in Cpus, NEW t, NEW r \in PushFailed(s, q, t)
    PROVE  r.s \in {s, Resched(s, q)} /\ (r.task # NoOne => r.dest \in Cpus /\ s.online[r.dest])
  <1>1. Done(s).s = s /\ Done(s).task = NoOne
    BY DEF Done
  <1>2. r = Done(s) \/ (s.push[q] # <<>> /\ r \in PushNext(s, q))
    BY DEF PushFailed
  <1> QED BY <1>1, <1>2, PushNextOnline

LEMMA PushLockedHome ==
    ASSUME NEW s, NEW F, Sound(s, F), NEW q \in Cpus, NEW t \in Threads, NEW d \in Cpus,
           NEW n \in Int, NEW all, NEW r \in PushLocked(s, q, t, d, n, all)
    PROVE  /\ Sound(r.s, F) /\ Gone(s, r.s, d)
           /\ r.task # NoOne => r.dest \in Cpus /\ s.online[r.dest]
  <1> DEFINE m == Move(s, t, d)
             moved == Resched(m, d)
  <1>1. Exact(s) /\ s \in States
    BY DEF Sound, Exact
  <1>2. \/ r \in PushFailed(s, q, t)
        \/ /\ ~Stale(s, q, t, d)
           /\ \/ r \in PushStart(moved, q)
              \/ r = [Done(moved) EXCEPT !.moved = TRUE]
        \/ \E e \in FindLowest(s, t) : e \notin {0, q} /\ r = Locking(s, t, e, n + 1)
    BY DEF PushLocked
  <1>3. Sound(r.s, F)
    BY PushLockedReached DEF Reached
  <1>4. Keeps(s, s)
    BY DEF Keeps, SameRest
  <1>5. CASE r \in PushFailed(s, q, t)
    <2>1. r.s \in {s, Resched(s, q)} /\ (r.task # NoOne => r.dest \in Cpus /\ s.online[r.dest])
      BY <1>1, <1>5, PushFailedOnline
    <2>2. Keeps(s, r.s)
      BY <1>1, <1>4, <2>1, ReschedIs
    <2> QED BY <1>3, <2>1, <2>2, KeepsGone
  <1>6. CASE \E e \in FindLowest(s, t) : e \notin {0, q} /\ r = Locking(s, t, e, n + 1)
    <2>1. PICK e \in FindLowest(s, t) : e \notin {0, q} /\ r = Locking(s, t, e, n + 1)
      BY <1>6
    <2>2. r.s = s /\ r.dest = e
      BY <2>1 DEF Locking
    <2>3. e \in Cpus /\ s.online[e]
      BY <1>1, <2>1, LowestOnline
    <2>4. Gone(s, s, d)
      BY <1>4, KeepsGone
    <2> QED BY <1>3, <2>2, <2>3, <2>4
  <1>7. CASE /\ ~Stale(s, q, t, d)
             /\ \/ r \in PushStart(moved, q)
                \/ r = [Done(moved) EXCEPT !.moved = TRUE]
    <2>1. d \in s.mask[t] /\ ~OnCpu(s, t) /\ s.onRq[t]
      BY <1>7 DEF Stale
    <2>2. Gone(s, m, d) /\ Sound(m, F)
      BY <2>1, MoveGone
    <2> HIDE DEF m
    <2>3. m \in States
      BY <2>2 DEF Sound, Exact
    <2>4. Keeps(m, moved) /\ moved \in States
      BY <2>3, ReschedIs
    <2>5. Sound(moved, F)
      BY <2>2, ReschedSound
    <2> HIDE DEF moved
    <2>6. Gone(s, moved, d) /\ Exact(moved)
      BY <2>2, <2>4, <2>5, GoneKeeps DEF Sound
    <2>7. CASE r \in PushStart(moved, q)
      <3>1. r.s \in {moved, Resched(moved, q)}
            /\ (r.task # NoOne => r.dest \in Cpus /\ moved.online[r.dest])
        BY <2>6, <2>7, PushStartOnline
      <3>2. Keeps(moved, moved)
        BY DEF Keeps, SameRest
      <3>3. Keeps(moved, r.s)
        BY <2>4, <3>1, <3>2, ReschedIs
      <3>4. Gone(s, r.s, d)
        BY <2>6, <3>3, GoneKeeps
      <3>5. moved.online = s.online
        BY <2>6 DEF Gone
      <3> QED BY <1>3, <3>1, <3>4, <3>5
    <2>8. CASE r = [Done(moved) EXCEPT !.moved = TRUE]
      <3>1. r.s = moved /\ r.task = NoOne
        BY <2>8 DEF Done
      <3> QED BY <1>3, <2>6, <3>1
    <2> QED BY <1>7, <2>7, <2>8
  <1> QED BY <1>2, <1>5, <1>6, <1>7

LEMMA PushGoesHome ==
    ASSUME SmpInv, Homes, NEW c \in Cpus, PushGoes(c)
    PROVE  Homes'
  <1> DEFINE x == ctx[c]
             all == x.then # "to"
  <1>1. PICK r \in PushLocked(k, x.q, x.task, x.dest, x.tries, all) : PushRuns(c, x, r)
    BY DEF PushGoes
  <1>2. x.at = "push" /\ hot' = hot
    BY DEF PushGoes
  <1>3. /\ Sound(k, Free(ctx)) /\ hot.phase # "dying" /\ x \in Contexts /\ InLoop(x)
        /\ CtxHome(x, c, k.up) /\ DOMAIN ctx = Cpus
    BY <1>2, KnownParts, InvParts DEF Homes
  <1> HIDE DEF x, all
  <1>4. /\ x.q \in Cpus /\ x.task \in Threads /\ x.dest \in Cpus /\ x.then \in PushEnds
        /\ x.tries \in Int /\ x.dest \in k.up /\ (x.then = "post" => x.q = c)
    BY <1>2, <1>3 DEF InLoop, Contexts, CtxHome
  <1>5. /\ Sound(r.s, Free(ctx)) /\ Gone(k, r.s, x.dest)
        /\ r.task # NoOne => r.dest \in Cpus /\ k.online[r.dest]
    BY <1>1, <1>3, <1>4, PushLockedHome
  <1>6. r.task # NoOne => r.dest \in k.up
    BY <1>5 DEF SmpInv, HotInv
  <1>7. /\ Keeps(r.s, k') /\ ButFor(ctx, ctx', c) /\ CtxHome(ctx'[c], c, k.up)
    BY <1>1, <1>3, <1>4, <1>5, <1>6, PushRunsHome
  <1>8. Gone(k, k', x.dest)
    BY <1>5, <1>7, GoneKeeps
  <1>9. ctx[c].at # "wake"
    BY <1>2 DEF x
  <1> QED BY <1>2, <1>3, <1>4, <1>7, <1>8, <1>9, HomesGone

LEMMA PullGoesHome ==
    ASSUME SmpInv, Homes, NEW c \in Cpus, PullGoes(c)
    PROVE  Homes'
  <1> DEFINE x == ctx[c]
  <1>1. PICK s \in PullLocked(k, x.q, x.dest) : PullRuns(c, x, s, x.dest)
    BY DEF PullGoes
  <1>2. x.at = "pull" /\ hot' = hot
    BY DEF PullGoes
  <1>3. /\ Sound(k, Free(ctx)) /\ hot.phase # "dying" /\ x \in Contexts /\ InLoop(x)
        /\ CtxHome(x, c, k.up) /\ DOMAIN ctx = Cpus
    BY <1>2, KnownParts, InvParts DEF Homes
  <1> HIDE DEF x
  <1>4. /\ x.q \in Cpus /\ x.q \in k.up /\ x.then \in PullEnds
        /\ (x.then = "pick" => x.q = c) /\ (x.then = "prio" => x.who \in Threads)
    BY <1>2, <1>3 DEF InLoop, CtxHome
  <1>5. Sound(s, Free(ctx)) /\ Gone(k, s, x.q)
    <2>1. s = k \/ \E t \in Pullable(k, x.q, x.dest) : s = Move(k, t, x.q)
      BY <1>1 DEF PullLocked
    <2>2. CASE s = k
      <3>1. Keeps(k, k)
        BY DEF Keeps, SameRest
      <3> QED BY <1>3, <2>2, <3>1, KeepsGone
    <2>3. CASE \E t \in Pullable(k, x.q, x.dest) : s = Move(k, t, x.q)
      <3>1. PICK t \in Pullable(k, x.q, x.dest) : s = Move(k, t, x.q)
        BY <2>3
      <3>2. t \in Threads /\ k.onRq[t] /\ ~OnCpu(k, t) /\ x.q \in k.mask[t]
        BY DEF Pullable, RtQueued, Queued
      <3>3. Gone(k, s, x.q) /\ Sound(s, Free(ctx))
        BY <1>3, <3>1, <3>2, MoveGone
      <3> QED BY <3>3
    <2> QED BY <2>1, <2>2, <2>3
  <1>6. /\ Keeps(s, k') /\ ButFor(ctx, ctx', c) /\ CtxHome(ctx'[c], c, k.up)
    BY <1>1, <1>3, <1>4, <1>5, PullRunsHome
  <1>7. Gone(k, k', x.q)
    BY <1>5, <1>6, GoneKeeps
  <1>8. ctx[c].at # "wake"
    BY <1>2 DEF x
  <1> QED BY <1>2, <1>3, <1>4, <1>6, <1>7, <1>8, HomesGone

\* The task that is woken is queued where it is.
LEMMA ActivateHome ==
    ASSUME NEW s, NEW F, Sound(s, F), DOMAIN ctx = Cpus, NEW c \in Cpus,
           \A d \in Cpus : s.online[d] => d \in k.up,
           NEW t \in Threads, s.st[t] = "waking", NEW who \in Threads \cup {NoOne},
           Activate(c, s, t, who)
    PROVE  /\ k'.home = s.home /\ k'.mask = s.mask /\ k'.up = s.up /\ k'.active = s.active
           /\ k'.wakeList = s.wakeList /\ k'.st[t] # "waking"
           /\ \A u \in Threads \ {t} : k'.st[u] = s.st[u] /\ k'.onRq[u] = s.onRq[u]
           /\ ButFor(ctx, ctx', c) /\ CtxHome(ctx'[c], c, k.up) /\ ctx'[c].at # "wake"
  <1> DEFINE q == s.home[t]
             a == InState(s, t, "run")
             b == Enqueue(a, t)
  <1>1. PICK g \in CheckPreempt(b, q, t) :
            \/ \E r \in PushStart(g, q) : PushRuns(c, Loop(q, "woken", who), r)
            \/ k' = g /\ Leave(c, NoCtx)
    BY DEF Activate, InState
  <1>2. q \in Cpus /\ s \in States /\ ~s.onRq[t] /\ s.st \in [Threads -> {"sleep", "waking", "run"}]
    BY DEF Sound, Exact, States, Awake
  <1>3. Sound(b, F)
    BY ActivatedSound
  <1>4. /\ a \in States /\ a.st = [s.st EXCEPT ![t] = "run"]
        /\ SameTasks(s, a) /\ SamePush(s, a) /\ SameLoad(s, a) /\ SameFlags(s, a)
        /\ a.wakeList = s.wakeList /\ a.up = s.up /\ a.active = s.active
    <2>1. "run" \in {"sleep", "waking", "run"} /\ s \in States /\ a = InState(s, t, "run")
      BY <1>2
    <2> HIDE DEF a
    <2> QED BY <2>1, InStateFields
  <1>5. b = Enqueue(a, t)
    OBVIOUS
  <1> HIDE DEF a, b, q
  <1>6. Exact(a) /\ ~a.onRq[t]
    <2>1. Exact(s)
      BY DEF Sound
    <2>2. Exact(a)
      BY <1>4, <2>1, SameTasksExact
    <2> QED BY <1>2, <1>4, <2>2 DEF SameTasks
  <1>7. Moved(a, b, t)
    BY <1>5, <1>6, EnqueueExact
  <1>8. /\ b.home = s.home /\ b.mask = s.mask /\ b.up = s.up /\ b.active = s.active
        /\ b.wakeList = s.wakeList /\ b.st = [s.st EXCEPT ![t] = "run"] /\ b.online = s.online
        /\ \A u \in Threads \ {t} : b.onRq[u] = s.onRq[u]
    BY <1>4, <1>7 DEF Moved, OtherFlag, SameTasks, SameRest, SameLoad
  <1>9. b.st[t] = "run" /\ \A u \in Threads \ {t} : b.st[u] = s.st[u]
    BY <1>2, <1>8
  <1>10. b \in States /\ Keeps(b, g) /\ Sound(g, F)
    <2>1. b \in States
      BY <1>3 DEF Sound, Exact
    <2>2. Keeps(b, g)
      BY <1>2, <2>1, CheckPreemptIs
    <2>3. Sound(g, F)
      BY <1>2, <1>3, CheckPreemptSound
    <2> QED BY <2>1, <2>2, <2>3
  <1>11. Keeps(g, k') /\ ButFor(ctx, ctx', c) /\ CtxHome(ctx'[c], c, k.up) /\ ctx'[c].at # "wake"
    <2>1. CASE k' = g /\ Leave(c, NoCtx)
      <3>1. ButFor(ctx, ctx', c) /\ ctx'[c] = NoCtx
        BY <2>1 DEF ButFor, Leave
      <3>2. Keeps(g, k')
        BY <2>1 DEF Keeps, SameRest
      <3> QED BY <3>1, <3>2, NoCtxHome
    <2>2. CASE \E r \in PushStart(g, q) : PushRuns(c, Loop(q, "woken", who), r)
      <3> DEFINE x == Loop(q, "woken", who)
      <3>1. PICK r \in PushStart(g, q) : PushRuns(c, x, r)
        BY <2>2
      <3>2. "woken" \in PushEnds \cup PullEnds /\ "woken" \in PushEnds
        BY DEF PushEnds
      <3>3. x \in Contexts /\ x.q = q /\ x.then = "woken"
        BY <1>2, <3>2, LoopIs
      <3> HIDE DEF x
      <3>4. g \in States /\ Exact(g) /\ g.online = s.online
        BY <1>8, <1>10 DEF Sound, Exact, Keeps
      <3>5. r.s \in {g, Resched(g, q)} /\ (r.task # NoOne => r.dest \in Cpus /\ g.online[r.dest])
        BY <1>2, <3>1, <3>4, PushStartOnline
      <3>6. r.task # NoOne => r.dest \in k.up
        BY <3>4, <3>5
      <3>7. Sound(r.s, F) /\ Keeps(g, r.s)
        <4>1. CASE r.s = g
          BY <1>10, <4>1 DEF Keeps, SameRest
        <4>2. CASE r.s = Resched(g, q)
          BY <1>2, <1>10, <3>4, <4>2, ReschedSound, ReschedIs
        <4> QED BY <3>5, <4>1, <4>2
      <3>8. x.q \in Cpus /\ x.then \in PushEnds /\ (x.then = "post" => x.q = c)
        BY <1>2, <3>2, <3>3
      <3>9. /\ Keeps(r.s, k') /\ ButFor(ctx, ctx', c) /\ CtxHome(ctx'[c], c, k.up)
            /\ ctx'[c].at # "wake"
        BY <3>1, <3>3, <3>6, <3>7, <3>8, PushRunsHome
      <3>10. Keeps(g, k')
        BY <3>7, <3>9, KeepsTrans
      <3> QED BY <3>9, <3>10
    <2> QED BY <1>1, <2>1, <2>2
  <1>12. Keeps(b, k')
    BY <1>10, <1>11, KeepsTrans
  <1>13. /\ k'.home = b.home /\ k'.mask = b.mask /\ k'.onRq = b.onRq /\ k'.up = b.up
         /\ k'.active = b.active /\ k'.wakeList = b.wakeList /\ k'.st = b.st
    BY <1>12 DEF Keeps, SameRest
  <1> QED BY <1>8, <1>9, <1>11, <1>13

\* A task is woken: it is queued on a processor that is up, and the others are left
\* where they were found.
LEMMA WokenHome ==
    ASSUME SmpInv, Homes, NEW c \in Cpus, hot.phase # "dying", hot' = hot,
           ButFor(ctx, ctx', c), CtxHome(ctx'[c], c, k.up), NEW t \in Threads,
           k.st[t] = "waking", k'.st[t] # "waking", ctx[c].at = "wake" => ctx[c].who = t,
           k'.home = k.home /\ k'.mask = k.mask /\ k'.up = k.up /\ k'.active = k.active,
           \A u \in Threads \ {t} : /\ k'.st[u] = k.st[u] /\ k'.onRq[u] = k.onRq[u]
                                    /\ \A a \in Cpus : u \in Range(k.wakeList[a]) =>
                                          u \in Range(k'.wakeList[a])
    PROVE  Homes'
  <1>1. k'.active \subseteq k'.up /\ Roaming(k')
    BY DEF Homes, Roaming, Movable
  <1>2. ASSUME NEW u \in Threads, k'.onRq[u] PROVE k'.home[u] \in k'.up
    BY <1>2 DEF Homes
  <1>3. ASSUME NEW u \in Threads, k'.st[u] = "waking"
        PROVE  /\ k'.home[u] \in k'.up
               /\ \/ \E a \in Cpus : ctx'[a].at = "wake" /\ ctx'[a].who = u
                  \/ u \in Range(k'.wakeList[k'.home[u]])
    <2>1. u # t /\ k.st[u] = "waking"
      BY <1>3
    <2>2. /\ k.home[u] \in k.up
          /\ \/ \E a \in Cpus : ctx[a].at = "wake" /\ ctx[a].who = u
             \/ u \in Range(k.wakeList[k.home[u]])
      BY <2>1 DEF Homes
    <2>3. k.home[u] \in Cpus
      BY KnownParts DEF States
    <2>4. ASSUME NEW a \in Cpus, ctx[a].at = "wake", ctx[a].who = u PROVE ctx'[a] = ctx[a]
      BY <2>1, <2>4 DEF ButFor
    <2> QED BY <2>1, <2>2, <2>3, <2>4
  <1>4. \A a \in Cpus : CtxHome(ctx'[a], a, k'.up)
    BY DEF Homes, ButFor
  <1>5. hot'.phase # "dying" /\ (hot'.phase \in {"prepare", "stop"} => hot'.cpu \notin k'.active)
    BY DEF Homes
  <1> QED BY <1>1, <1>2, <1>3, <1>4, <1>5 DEF Homes

LEMMA WakeLockedHome ==
    ASSUME SmpInv, Homes, NEW c \in Cpus, WakeLocked(c)
    PROVE  Homes'
  <1> DEFINE g == ctx[c].who
  <1>1. /\ Sound(k, Free(ctx)) /\ DOMAIN ctx = Cpus
        /\ \A d \in Cpus : k.online[d] => d \in k.up
    BY KnownParts DEF SmpInv, HotInv
  <1>2. ctx[c].at = "wake" /\ Activate(c, k, g, g) /\ hot' = hot
    BY DEF WakeLocked, Stays
  <1>3. g \in Threads /\ k.st[g] = "waking" /\ hot.phase # "dying"
    BY <1>2, InvParts DEF SmpInv, CtxInv, InLoop, WakeOk
  <1>4. g \in Threads \cup {NoOne} /\ (ctx[c].at = "wake" => ctx[c].who = g)
    BY <1>3
  <1> HIDE DEF g
  <1>5. /\ k'.home = k.home /\ k'.mask = k.mask /\ k'.up = k.up /\ k'.active = k.active
        /\ k'.wakeList = k.wakeList /\ k'.st[g] # "waking"
        /\ \A u \in Threads \ {g} : k'.st[u] = k.st[u] /\ k'.onRq[u] = k.onRq[u]
        /\ ButFor(ctx, ctx', c) /\ CtxHome(ctx'[c], c, k.up) /\ ctx'[c].at # "wake"
    BY <1>1, <1>2, <1>3, <1>4, ActivateHome
  <1> QED BY <1>2, <1>3, <1>4, <1>5, WokenHome

LEMMA TtwuPendingHome ==
    ASSUME SmpInv, Homes, NEW c \in Cpus, TtwuPending(c)
    PROVE  Homes'
  <1> DEFINE t == Head(k.wakeList[c])
             l == [k.wakeList EXCEPT ![c] = Tail(k.wakeList[c])]
             s == OnList(k, l)
             F == Free(ctx)
  <1>1. /\ Sound(k, F) /\ Exact(k) /\ k \in States /\ DOMAIN ctx = Cpus
        /\ ctx[c].at = "none" /\ k.wakeList[c] # <<>> /\ hot.phase # "dying" /\ hot' = hot
        /\ k.wakeList \in [Cpus -> Seq(Threads)]
        /\ \A d \in Cpus : k.online[d] => d \in k.up
    <2>1. /\ Sound(k, F) /\ Exact(k) /\ k \in States /\ DOMAIN ctx = Cpus
      BY KnownParts
    <2>2. Ready(c) /\ k.wakeList[c] # <<>> /\ hot' = hot
      BY DEF TtwuPending, Stays
    <2>3. ctx[c].at = "none" /\ hot.phase # "dying"
      BY <2>2, ReadyIs
    <2> QED BY <2>1, <2>2, <2>3 DEF States, SmpInv, HotInv
  <1>2. Activate(c, s, t, NoOne)
    BY DEF TtwuPending, OnList
  <1>3. /\ t \in Threads /\ k.st[t] = "waking" /\ l \in [Cpus -> Seq(Threads)]
        /\ Range(l[c]) = Range(k.wakeList[c]) \ {t}
        /\ \A a \in Cpus \ {c} : l[a] = k.wakeList[a]
    <2>1. k.wakeList[c] \in Seq(Threads) /\ IsInjective(k.wakeList[c])
      BY <1>1 DEF SmpInv, WakeOk
    <2>2. /\ t \in Range(k.wakeList[c]) /\ t \in Threads /\ Tail(k.wakeList[c]) \in Seq(Threads)
          /\ Range(Tail(k.wakeList[c])) = Range(k.wakeList[c]) \ {t}
      BY <1>1, <2>1, TailOfList
    <2> HIDE DEF t
    <2> QED BY <1>1, <2>2 DEF SmpInv, WakeOk
  <1> HIDE DEF t, l, F
  <1>4. /\ s \in States /\ s.wakeList = l
        /\ SameTasks(k, s) /\ SamePush(k, s) /\ SameLoad(k, s) /\ SameFlags(k, s)
        /\ s.st = k.st /\ s.up = k.up /\ s.active = k.active /\ s.stops = k.stops
    BY <1>1, <1>3, OnListFields
  <1> HIDE DEF s
  <1>5. Sound(s, F)
    BY <1>1, <1>4, SoundSame DEF SameFlags
  <1>6. s.home = k.home /\ s.mask = k.mask /\ s.onRq = k.onRq /\ s.online = k.online
    BY <1>4 DEF SameTasks, SameLoad
  <1>7. s.st[t] = "waking" /\ NoOne \in Threads \cup {NoOne}
        /\ \A d \in Cpus : s.online[d] => d \in k.up
    BY <1>1, <1>3, <1>4, <1>6
  <1>8. /\ k'.home = s.home /\ k'.mask = s.mask /\ k'.up = s.up /\ k'.active = s.active
        /\ k'.wakeList = s.wakeList /\ k'.st[t] # "waking"
        /\ \A u \in Threads \ {t} : k'.st[u] = s.st[u] /\ k'.onRq[u] = s.onRq[u]
        /\ ButFor(ctx, ctx', c) /\ CtxHome(ctx'[c], c, k.up) /\ ctx'[c].at # "wake"
    BY <1>1, <1>2, <1>3, <1>5, <1>7, ActivateHome
  <1>9. k'.home = k.home /\ k'.mask = k.mask /\ k'.up = k.up /\ k'.active = k.active
    BY <1>4, <1>6, <1>8
  <1>10. \A u \in Threads \ {t} : /\ k'.st[u] = k.st[u] /\ k'.onRq[u] = k.onRq[u]
                                   /\ \A a \in Cpus : u \in Range(k.wakeList[a]) =>
                                         u \in Range(k'.wakeList[a])
    <2>1. k'.wakeList = l
      BY <1>4, <1>8
    <2> QED BY <1>3, <1>4, <1>6, <1>8, <2>1
  <1>11. ctx[c].at = "wake" => ctx[c].who = t
    BY <1>1
  <1> QED BY <1>1, <1>3, <1>8, <1>9, <1>10, <1>11, WokenHome

LEMMA AppendRange ==
    ASSUME NEW l \in Seq(Threads), NEW t \in Threads
    PROVE  t \in Range(Append(l, t)) /\ Range(l) \subseteq Range(Append(l, t))
  <1> DEFINE a == Append(l, t)
  <1>1. /\ a \in Seq(Threads) /\ Len(a) = Len(l) + 1 /\ a[Len(l) + 1] = t
        /\ \A i \in 1 .. Len(l) : a[i] = l[i]
    BY AppendProperties
  <1>2. /\ Len(l) \in Nat
        /\ Range(l) = {l[i] : i \in 1 .. Len(l)} /\ Range(a) = {a[i] : i \in 1 .. Len(a)}
    <2> HIDE DEF a
    <2> QED BY ONLY <1>1, l \in Seq(Threads), RangeProperties
  <1> HIDE DEF a
  <1>3. t \in Range(a)
    <2>1. Len(l) + 1 \in 1 .. Len(a)
      BY <1>1, <1>2
    <2> QED BY <1>1, <1>2, <2>1
  <1>4. Range(l) \subseteq Range(a)
    <2> SUFFICES ASSUME NEW i \in 1 .. Len(l) PROVE l[i] \in Range(a)
      BY <1>2
    <2>1. i \in 1 .. Len(a) /\ a[i] = l[i]
      BY <1>1, <1>2
    <2> QED BY <1>2, <2>1
  <1> QED BY <1>3, <1>4 DEF a

LEMMA WakeUpHome ==
    ASSUME SmpInv, Homes, NEW c \in Cpus, NEW t \in Threads, WakeUp(c, t)
    PROVE  Homes'
  <1>1. /\ ctx[c].at = "none" /\ ~k.onRq[t] /\ hot' = hot
        /\ k'.onRq = k.onRq /\ k'.up = k.up /\ k'.active = k.active
        /\ k'.home[t] \in k.up /\ \A u \in Threads \ {t} : k'.home[u] = k.home[u]
        /\ k'.mask[t] \in {k.mask[t], Cpus} /\ \A u \in Threads \ {t} : k'.mask[u] = k.mask[u]
        /\ \A u \in Threads \ {t} : k'.st[u] = k.st[u]
        /\ \/ /\ k'.wakeList = k.wakeList
              /\ ButFor(ctx, ctx', c) /\ ctx'[c].at = "wake" /\ ctx'[c].who = t
              /\ ctx'[c].then = "woken"
           \/ /\ ctx' = ctx
              /\ k'.wakeList[k'.home[t]] = Append(k.wakeList[k'.home[t]], t)
              /\ \A a \in Cpus : a # k'.home[t] => k'.wakeList[a] = k.wakeList[a]
    BY WakeUpIs
  <1>2. hot.phase # "dying"
    BY ReadyIs DEF WakeUp
  <1>3. k \in States /\ k.up \subseteq Cpus
    BY KnownParts
  <1>4. Roaming(k') /\ k'.active \subseteq k'.up
    BY <1>1 DEF Homes, Roaming, Movable
  <1>5. \A u \in Threads : k'.onRq[u] => k'.home[u] \in k'.up
    BY <1>1, <1>2 DEF Homes
  <1>6. \A a \in Cpus : Range(k.wakeList[a]) \subseteq Range(k'.wakeList[a])
    <2> SUFFICES ASSUME NEW a \in Cpus PROVE Range(k.wakeList[a]) \subseteq Range(k'.wakeList[a])
      OBVIOUS
    <2>1. k.wakeList[a] \in Seq(Threads)
      BY <1>3 DEF States
    <2>2. k'.wakeList[a] \in {k.wakeList[a], Append(k.wakeList[a], t)}
      BY <1>1
    <2> QED BY <2>1, <2>2, AppendRange
  <1>7. (ctx'[c].at = "wake" /\ ctx'[c].who = t) \/ t \in Range(k'.wakeList[k'.home[t]])
    <2>1. k'.home[t] \in Cpus
      BY <1>1, <1>3
    <2>2. k.wakeList[k'.home[t]] \in Seq(Threads)
      BY <1>3, <2>1 DEF States
    <2>3. CASE k'.wakeList[k'.home[t]] = Append(k.wakeList[k'.home[t]], t)
      BY <2>2, <2>3, AppendRange
    <2> QED BY <1>1, <2>3
  <1>8. ASSUME NEW u \in Threads, k'.st[u] = "waking"
        PROVE  /\ k'.home[u] \in k'.up
               /\ \/ \E a \in Cpus : ctx'[a].at = "wake" /\ ctx'[a].who = u
                  \/ u \in Range(k'.wakeList[k'.home[u]])
    <2>1. CASE u = t
      BY <1>1, <1>7, <2>1
    <2>2. CASE u # t
      <3>1. /\ k.home[u] \in k.up /\ k'.home[u] = k.home[u]
            /\ \/ \E a \in Cpus : ctx[a].at = "wake" /\ ctx[a].who = u
               \/ u \in Range(k.wakeList[k.home[u]])
        BY <1>1, <1>8, <2>2 DEF Homes
      <3>2. k.home[u] \in Cpus
        BY <1>3, <3>1
      <3>3. \A a \in Cpus : ctx[a].at = "wake" => ctx'[a] = ctx[a]
        BY <1>1 DEF ButFor
      <3> QED BY <1>1, <1>6, <3>1, <3>2, <3>3
    <2> QED BY <2>1, <2>2
  <1>9. \A a \in Cpus : CtxHome(ctx'[a], a, k'.up)
    <2>1. CASE ctx' = ctx
      BY <1>1, <2>1 DEF Homes
    <2>2. CASE ButFor(ctx, ctx', c) /\ ctx'[c].at = "wake" /\ ctx'[c].then = "woken"
      <3>1. CtxHome(ctx'[c], c, k'.up)
        BY <2>2 DEF CtxHome
      <3> QED BY <1>1, <2>2, <3>1 DEF Homes, ButFor
    <2> QED BY <1>1, <2>1, <2>2
  <1>10. hot'.phase # "dying" /\ (hot'.phase \in {"prepare", "stop"} => hot'.cpu \notin k'.active)
    BY <1>1, <1>2 DEF Homes
  <1> QED BY <1>4, <1>5, <1>8, <1>9, <1>10 DEF Homes

\* A task may be bound to one processor, or to none.
SameAffinity == \A t \in Threads : \A m \in MayMask[t] : m = Cpus \/ Cardinality(m) = 1

LEMMA SetAffinityHome ==
    ASSUME SameAffinity, SmpInv, Homes, NEW c \in Cpus, NEW t \in Threads, NEW m \in MayMask[t],
           SetAffinity(c, t, m)
    PROVE  Homes'
  <1>1. /\ hot' = hot /\ ctx' = ctx
        /\ k'.mask[t] = m /\ \A u \in Threads \ {t} : k'.mask[u] = k.mask[u]
        /\ k'.home = k.home /\ k'.onRq = k.onRq /\ k'.st = k.st /\ k'.wakeList = k.wakeList
        /\ k'.up = k.up /\ k'.active = k.active
    BY SetAffinityIs
  <1>2. ctx[c].at = "none" /\ hot.phase # "dying"
    BY ReadyIs DEF SetAffinity
  <1>3. Roaming(k')
    <2>1. m = Cpus \/ Cardinality(m) = 1
      BY DEF SameAffinity
    <2>2. ASSUME NEW u \in Threads, Movable(k', u) PROVE k'.mask[u] = Cpus
      <3>1. Cardinality(k'.mask[u]) > 1
        BY <2>2 DEF Movable
      <3>2. CASE u = t
        BY <1>1, <2>1, <3>1, <3>2
      <3>3. CASE u # t
        BY <1>1, <3>1, <3>3 DEF Homes, Roaming, Movable
      <3> QED BY <3>2, <3>3
    <2> QED BY <2>2 DEF Roaming
  <1>4. ButFor(ctx, ctx', c) /\ CtxHome(ctx'[c], c, k.up)
    BY <1>1 DEF ButFor, Homes
  <1> QED BY <1>1, <1>2, <1>3, <1>4, HomesOn

LEMMA SetPrioHome ==
    ASSUME SmpInv, Homes, NEW c \in Cpus, NEW t \in Threads, NEW p \in MayPrio[t], SetPrio(c, t, p)
    PROVE  Homes'
  <1> DEFINE q == k.home[t]
             old == k.prio[t]
             s == Requeued(k, t, p)
  <1>1. /\ Ready(c) /\ hot' = hot /\ q \in Cpus /\ Exact(s) /\ s.home = k.home /\ s.onRq = k.onRq
        /\ s.mask = k.mask /\ SameRest(k, s) /\ s.online = k.online
        /\ \/ ~k.onRq[t] /\ k' = s /\ ctx' = ctx
           \/ k.onRq[t] /\ p = FairPrio /\ SwitchedFromRt(c, s, q, t)
           \/ k.onRq[t] /\ old = FairPrio /\ SwitchedToRt(c, s, q, t)
           \/ k.onRq[t] /\ p # FairPrio /\ old # FairPrio /\ PrioChangedRt(c, s, q, t, old)
    <2>1. q = k.home[t] /\ old = k.prio[t] /\ s = Requeued(k, t, p)
      OBVIOUS
    <2> HIDE DEF q, old, s
    <2> QED BY <2>1, SetPrioIs
  <1>2. /\ ctx[c].at = "none" /\ hot.phase # "dying" /\ DOMAIN ctx = Cpus
        /\ \A d \in Cpus : s.online[d] => d \in k.up
    BY <1>1, ReadyIs, KnownParts DEF SmpInv, HotInv
  <1> HIDE DEF s, old
  <1>3. /\ s.up = k.up /\ s.active = k.active /\ s.wakeList = k.wakeList /\ s.st = k.st
    BY <1>1 DEF SameRest
  <1>4. /\ Keeps(s, k') /\ ButFor(ctx, ctx', c) /\ CtxHome(ctx'[c], c, k.up)
    <2>1. CASE k' = s /\ ctx' = ctx
      BY <2>1 DEF Keeps, SameRest, ButFor, Homes
    <2>2. CASE k.onRq[t] /\ \/ SwitchedFromRt(c, s, q, t)
                            \/ SwitchedToRt(c, s, q, t)
                            \/ PrioChangedRt(c, s, q, t, old)
      <3>1. q \in k.up
        BY <1>2, <2>2 DEF Homes
      <3> HIDE DEF q
      <3>2. /\ Keeps(s, k') /\ k'.curr = s.curr /\ ButFor(ctx, ctx', c)
            /\ ctx' = ctx \/ ctx'[c] = NoCtx
               \/ \E then \in {"from", "to", "prio"} : Begins(ctx'[c], then, q, t)
        BY <1>1, <1>2, <2>2, ClassBegins
      <3>3. CASE ctx' = ctx
        BY <3>2, <3>3 DEF Homes
      <3>4. CASE ctx'[c] = NoCtx
        BY <3>2, <3>4, NoCtxHome
      <3>5. CASE \E then \in {"from", "to", "prio"} : Begins(ctx'[c], then, q, t)
        BY <3>1, <3>2, <3>5 DEF Begins, CtxHome
      <3> QED BY <3>2, <3>3, <3>4, <3>5
    <2> QED BY <1>1, <2>1, <2>2
  <1> QED BY <1>1, <1>2, <1>3, <1>4, HomesKept

LEMMA MigrateHome ==
    ASSUME SmpInv, Homes, NEW c \in Cpus, Migrate(c)
    PROVE  Homes'
  <1>1. /\ ctx[c].at = "none" /\ hot.phase # "dying" /\ Exact(k) /\ k \in States /\ Placed(k)
        /\ hot' = hot /\ ctx' = ctx
    BY ReadyIs, KnownParts DEF Migrate, Stays, Sound
  <1>2. PICK x \in k.stops :
            IF Fits(x) /\ k.onRq[x[1]]
            THEN k' \in CheckPreempt(Move(Served(k, x), x[1], x[3]), x[3], x[1])
            ELSE k' = Served(k, x)
    BY DEF Migrate, Served
  <1> DEFINE t == x[1]
             d == x[3]
             s == Served(k, x)
  <1>3. t \in Threads /\ d \in Cpus /\ d \in k.up
    BY <1>1 DEF States, Placed, Homes
  <1>4. /\ s \in States
        /\ SameTasks(k, s) /\ SamePush(k, s) /\ SameLoad(k, s)
        /\ s.st = k.st /\ s.wakeList = k.wakeList /\ s.up = k.up /\ s.active = k.active
    BY <1>1, ServedFields
  <1>5. \/ k' = s
        \/ k.onRq[t] /\ k' \in CheckPreempt(Move(s, t, d), d, t)
    BY <1>2
  <1> HIDE DEF t, d, s
  <1>6. Exact(s) /\ s.onRq = k.onRq /\ s.home = k.home /\ s.mask = k.mask
    BY <1>1, <1>4, SameTasksExact DEF SameTasks
  <1>7. /\ k'.up = k.up /\ k'.active = k.active /\ k'.wakeList = k.wakeList
        /\ k'.mask = k.mask /\ k'.st = k.st
        /\ \A u \in Threads : /\ k'.onRq[u] <=> k.onRq[u]
                              /\ k'.home[u] = k.home[u] \/ (k.onRq[u] /\ k'.home[u] = d)
    <2>1. CASE k' = s
      BY <1>4, <1>6, <2>1
    <2>2. CASE k.onRq[t] /\ k' \in CheckPreempt(Move(s, t, d), d, t)
      <3> DEFINE m == Move(s, t, d)
      <3>1. k' \in CheckPreempt(m, d, t) /\ s.onRq[t]
        BY <1>6, <2>2
      <3>2. /\ m \in States /\ SameRest(s, m)
            /\ m.home[t] = d /\ \A u \in Threads \ {t} : m.home[u] = s.home[u]
            /\ \A u \in Threads : m.onRq[u] <=> s.onRq[u]
            /\ m.mask = s.mask
        BY <1>3, <1>6, <3>1, MoveIs
      <3> HIDE DEF m
      <3>3. Keeps(m, k')
        BY <1>3, <3>1, <3>2, CheckPreemptIs
      <3> QED BY <1>4, <1>6, <2>2, <3>2, <3>3 DEF Keeps, SameRest
    <2> QED BY <1>5, <2>1, <2>2
  <1>8. Roaming(k')
    BY <1>7 DEF Homes, Roaming, Movable
  <1>9. ButFor(ctx, ctx', c) /\ CtxHome(ctx'[c], c, k.up)
    BY <1>1 DEF ButFor, Homes
  <1>10. \A u \in Threads : /\ k'.onRq[u] => k.onRq[u]
                            /\ k'.st[u] = "waking" => k.st[u] = "waking"
                            /\ k'.home[u] = k.home[u] \/ (k.onRq[u] /\ k'.home[u] \in k.up)
    BY <1>3, <1>7
  <1> QED BY <1>1, <1>7, <1>8, <1>9, <1>10, HomesOn

\* A processor goes or comes, and no task is where it was.
LEMMA HomesPlug ==
    ASSUME SmpInv, Homes, ctx' = ctx, k'.home = k.home, k'.onRq = k.onRq, k'.mask = k.mask,
           k'.st = k.st, k'.wakeList = k.wakeList, k.up \subseteq k'.up, k'.active \subseteq k'.up,
           hot'.phase # "dying", hot'.phase \in {"prepare", "stop"} => hot'.cpu \notin k'.active,
           hot.phase = "dying" => Queued(k, hot.cpu) = {}
    PROVE  Homes'
  <1>1. Roaming(k')
    BY DEF Homes, Roaming, Movable
  <1>2. ASSUME NEW t \in Threads, k'.onRq[t] PROVE k'.home[t] \in k'.up
    BY <1>2 DEF Homes, Queued
  <1>3. ASSUME NEW t \in Threads, k'.st[t] = "waking"
        PROVE  /\ k'.home[t] \in k'.up
               /\ \/ \E c \in Cpus : ctx'[c].at = "wake" /\ ctx'[c].who = t
                  \/ t \in Range(k'.wakeList[k'.home[t]])
    BY <1>3 DEF Homes
  <1>4. \A c \in Cpus : CtxHome(ctx'[c], c, k'.up)
    BY DEF Homes, CtxHome
  <1> QED BY <1>1, <1>2, <1>3, <1>4 DEF Homes

LEMMA DownPrepareHome ==
    ASSUME SmpInv, Homes, NEW c \in Cpus, DownPrepare(c)
    PROVE  Homes'
  <1>1. /\ ctx' = ctx /\ k'.active = k.active \ {c} /\ k'.up = k.up /\ k'.home = k.home
        /\ k'.onRq = k.onRq /\ k'.mask = k.mask /\ k'.st = k.st /\ k'.wakeList = k.wakeList
    BY DownPrepareIs
  <1>2. hot = NoPlug /\ hot' = [phase |-> "prepare", cpu |-> c]
    BY DEF DownPrepare
  <1>3. k'.active \subseteq k'.up /\ c \notin k'.active /\ k.up \subseteq k'.up
    BY <1>1 DEF Homes
  <1> QED BY <1>1, <1>2, <1>3, HomesPlug DEF NoPlug

LEMMA StopMachineHome ==
    ASSUME SmpInv, Homes, StopMachine
    PROVE  Homes'
  <1>1. /\ ctx' = ctx /\ k'.active = k.active /\ k'.up = k.up /\ k'.home = k.home
        /\ k'.onRq = k.onRq /\ k'.mask = k.mask /\ k'.st = k.st /\ k'.wakeList = k.wakeList
    BY StopMachineIs
  <1>2. hot.phase = "prepare" /\ hot' = [hot EXCEPT !.phase = "stop"]
        /\ hot \in [phase : {"prepare", "stop", "dying", "up"}, cpu : Cpus]
    BY DEF StopMachine, SmpInv, HotInv, NoPlug
  <1>3. hot'.phase = "stop" /\ hot'.cpu = hot.cpu
    BY <1>2
  <1>4. k'.active \subseteq k'.up /\ hot'.cpu \notin k'.active /\ k.up \subseteq k'.up
    BY <1>1, <1>2, <1>3 DEF Homes
  <1> QED BY <1>1, <1>2, <1>3, <1>4, HomesPlug

LEMMA DyingHome ==
    ASSUME SmpInv, Homes, Dying
    PROVE  Homes'
  <1>1. /\ hot.phase = "stop" /\ hot'.phase = "dying" /\ hot'.cpu = hot.cpu /\ ctx' = ctx
        /\ k'.up = k.up \ {hot.cpu} /\ \A c \in k.up : k.curr[c] = Stopper /\ ctx[c] = NoCtx
        /\ k.wakeList[hot.cpu] = <<>>
        /\ k'.curr = k.curr /\ k'.home = k.home /\ k'.onRq = k.onRq
        /\ k'.mask = k.mask /\ k'.st = k.st /\ k'.wakeList = k.wakeList /\ k'.active = k.active
    BY DyingIs
  <1>2. Roaming(k')
    BY <1>1 DEF Homes, Roaming, Movable
  <1>3. k'.active \subseteq k'.up
    BY <1>1 DEF Homes
  <1>4. ASSUME NEW t \in Threads, k'.onRq[t]
        PROVE  k'.home[t] \in k'.up \/ (hot'.phase = "dying" /\ k'.home[t] = hot'.cpu)
    BY <1>1, <1>4 DEF Homes
  <1>5. \A c \in Cpus : ctx[c].at = "none"
    BY <1>1, NoCtxIs DEF SmpInv, CtxInv
  <1>6. ASSUME NEW t \in Threads, k'.st[t] = "waking"
        PROVE  k'.home[t] \in k'.up /\ t \in Range(k'.wakeList[k'.home[t]])
    <2>1. k.home[t] \in k.up /\ t \in Range(k.wakeList[k.home[t]])
      BY <1>1, <1>5, <1>6 DEF Homes
    <2>2. k.home[t] # hot.cpu
      BY <1>1, <2>1, EmptyList
    <2> QED BY <1>1, <2>1, <2>2
  <1>7. \A c \in Cpus : CtxHome(ctx'[c], c, k'.up)
    BY <1>1, <1>5 DEF Homes, CtxHome
  <1>8. hot'.cpu \notin k'.up /\ \A c \in k'.up : k'.curr[c] = Stopper
    BY <1>1
  <1> QED BY <1>1, <1>2, <1>3, <1>4, <1>6, <1>7, <1>8 DEF Homes

LEMMA MigrateTaskHome ==
    ASSUME SmpInv, Homes, MigrateTask
    PROVE  Homes'
  <1>1. /\ hot.phase = "dying" /\ hot' = hot /\ ctx' = ctx
        /\ \A u \in Threads : k'.onRq[u] <=> k.onRq[u]
        /\ k'.curr = k.curr /\ k'.up = k.up /\ k'.active = k.active
        /\ k'.st = k.st /\ k'.wakeList = k.wakeList
    BY MigrateTaskIs
  <1>2. PICK t \in Threads :
            /\ k.onRq[t]
            /\ k'.home[t] \in k.up /\ \A u \in Threads \ {t} : k'.home[u] = k.home[u]
            /\ k'.mask[t] \in {k.mask[t], Cpus}
            /\ \A u \in Threads \ {t} : k'.mask[u] = k.mask[u]
    BY MigrateTaskIs
  <1>3. Roaming(k') /\ k'.active \subseteq k'.up
    BY <1>1, <1>2 DEF Homes, Roaming, Movable
  <1>4. \A u \in Threads : k'.onRq[u] =>
            k'.home[u] \in k'.up \/ (hot'.phase = "dying" /\ k'.home[u] = hot'.cpu)
    BY <1>1, <1>2 DEF Homes
  <1>5. ASSUME NEW u \in Threads, k'.st[u] = "waking"
        PROVE  /\ k'.home[u] \in k'.up
               /\ \/ \E c \in Cpus : ctx'[c].at = "wake" /\ ctx'[c].who = u
                  \/ u \in Range(k'.wakeList[k'.home[u]])
    <2>1. u # t
      BY <1>1, <1>2, <1>5, KnownParts DEF Awake
    <2> QED BY <1>1, <1>2, <1>5, <2>1 DEF Homes
  <1>6. \A c \in Cpus : CtxHome(ctx'[c], c, k'.up)
    BY <1>1 DEF Homes
  <1>7. /\ hot'.phase = "dying" => hot'.cpu \notin k'.up /\ \A c \in k'.up : k'.curr[c] = Stopper
        /\ hot'.phase \notin {"prepare", "stop"}
    BY <1>1 DEF Homes
  <1> QED BY <1>3, <1>4, <1>5, <1>6, <1>7 DEF Homes

LEMMA DeadHome ==
    ASSUME SmpInv, Homes, Dead
    PROVE  Homes'
  <1>1. /\ hot.phase = "dying" /\ hot' = NoPlug /\ ctx' = ctx /\ Queued(k, hot.cpu) = {}
        /\ k'.up = k.up /\ k'.home = k.home /\ k'.onRq = k.onRq /\ k'.mask = k.mask
        /\ k'.st = k.st /\ k'.wakeList = k.wakeList /\ k'.active = k.active
    BY DeadIs
  <1>2. k'.active \subseteq k'.up /\ k.up \subseteq k'.up
    BY <1>1 DEF Homes
  <1>3. hot'.phase = "none"
    BY <1>1 DEF NoPlug
  <1> QED BY <1>1, <1>2, <1>3, HomesPlug

LEMMA StartingHome ==
    ASSUME SmpInv, Homes, NEW c \in Cpus, Starting(c)
    PROVE  Homes'
  <1>1. /\ hot = NoPlug /\ hot'.phase = "up" /\ ctx' = ctx
        /\ k'.up = k.up \cup {c} /\ k'.active = k.active \cup {c}
        /\ k'.home = k.home /\ k'.onRq = k.onRq /\ k'.mask = k.mask
        /\ k'.st = k.st /\ k'.wakeList = k.wakeList
    BY StartingIs
  <1>2. k'.active \subseteq k'.up /\ k.up \subseteq k'.up
    BY <1>1 DEF Homes
  <1> QED BY <1>1, <1>2, HomesPlug DEF NoPlug

LEMMA OnlineHome ==
    ASSUME SmpInv, Homes, Online
    PROVE  Homes'
  <1>1. hot.phase = "up" /\ k' = RqOnline(k, hot.cpu) /\ hot' = NoPlug /\ ctx' = ctx
    BY DEF Online
  <1>2. hot.cpu \in Cpus /\ ~k.online[hot.cpu] /\ Exact(k)
    BY <1>1, KnownParts DEF SmpInv, HotInv, NoPlug
  <1> DEFINE c == hot.cpu
  <1> HIDE DEF c
  <1>3. c \in Cpus /\ ~k.online[c] /\ k' = RqOnline(k, c)
    BY <1>1, <1>2 DEF c
  <1>4. SameTasks(k, k') /\ SameRest(k, k')
    BY <1>2, <1>3, RqOnlineExact
  <1>5. /\ k'.home = k.home /\ k'.onRq = k.onRq /\ k'.mask = k.mask /\ k'.up = k.up
        /\ k'.active = k.active /\ k'.st = k.st /\ k'.wakeList = k.wakeList
    BY <1>4 DEF SameTasks, SameRest
  <1>6. k'.active \subseteq k'.up /\ k.up \subseteq k'.up /\ hot'.phase = "none"
    BY <1>1, <1>5 DEF Homes, NoPlug
  <1> QED BY <1>1, <1>5, <1>6, HomesPlug

\* Every step keeps tasks and processors where they may be.
LEMMA StepHomes ==
    ASSUME SameAffinity, SmpInv, Homes, BalanceNext
    PROVE  Homes'
  <1>1. CASE \E c \in Cpus :
               \/ PreemptCurr(c) \/ SleepCurr(c) \/ PostSchedule(c) \/ PushGoes(c) \/ PullGoes(c)
               \/ WakeLocked(c) \/ TtwuPending(c) \/ Migrate(c) \/ StopperSleeps(c)
               \/ DownPrepare(c) \/ Starting(c)
    BY <1>1, PreemptCurrHome, SleepCurrHome, PostScheduleHome, PushGoesHome, PullGoesHome,
       WakeLockedHome, TtwuPendingHome, MigrateHome, StopperSleepsHome, DownPrepareHome,
       StartingHome
  <1>2. CASE \E c \in Cpus : \E t \in Threads : WakeUp(c, t)
    BY <1>2, WakeUpHome
  <1>3. CASE \E c \in Cpus : \E t \in Threads : \E m \in MayMask[t] : SetAffinity(c, t, m)
    BY <1>3, SetAffinityHome
  <1>4. CASE \E c \in Cpus : \E t \in Threads : \E p \in MayPrio[t] : SetPrio(c, t, p)
    BY <1>4, SetPrioHome
  <1>5. CASE StopMachine \/ Dying \/ MigrateTask \/ Dead \/ Online
    BY <1>5, StopMachineHome, DyingHome, MigrateTaskHome, DeadHome, OnlineHome
  <1> QED BY <1>1, <1>2, <1>3, <1>4, <1>5 DEF BalanceNext

WaitInv == SmpInv /\ Homes /\ (~late => Calm(k, ctx))

LEMMA StartWaits ==
    ASSUME BalanceInit
    PROVE  WaitInv
  <1>1. SmpInv
    BY InitInv
  <1>2. /\ \A t \in Threads : ~k.onRq[t] /\ k.st[t] = "sleep" /\ k.mask[t] = Cpus
        /\ \A c \in Cpus : /\ ~k.resched[c] /\ ~k.post[c] /\ k.wakeList[c] = <<>>
                            /\ k.curr[c] = Idle /\ k.next[c] = FairPrio
        /\ k.up = Cpus /\ k.active = Cpus /\ k.stops = {} /\ k.stray = {}
        /\ hot = NoPlug /\ \A c \in Cpus : ctx[c] = NoCtx
    BY DEF BalanceInit
  <1>3. Homes
    <2>1. Roaming(k)
      BY <1>2 DEF Roaming, Movable
    <2>2. \A c \in Cpus : CtxHome(ctx[c], c, k.up)
      BY <1>2 DEF CtxHome, NoCtx
    <2> QED BY <1>2, <2>1, <2>2 DEF Homes, NoPlug
  <1>4. Calm(k, ctx)
    <2>1. \A c \in Cpus : RtQueued(k, c) = {}
      BY <1>2 DEF RtQueued, Queued
    <2>2. \A c \in Cpus : Highest(k, c) = FairPrio
      BY <1>1, <1>3, <2>1, HighestAttained, KnownParts
    <2>3. FairPrio \in Nat
      BY <1>1, <1>3, KnownParts
    <2>4. Quiet(k, ctx)
      BY <1>2, <2>2, <2>3 DEF Quiet, Urgent, Offered
    <2>5. Plain(k, ctx)
      BY <1>2 DEF Plain, NoCtx
    <2> QED BY <2>4, <2>5 DEF Calm
  <1> QED BY <1>1, <1>3, <1>4 DEF WaitInv

LEMMA StepWaits ==
    ASSUME SameAffinity, WaitInv, [BalanceNext]_smpVars
    PROVE  WaitInv'
  <1>1. CASE BalanceNext
    <2>1. SmpInv'
      BY <1>1, StepInv DEF WaitInv
    <2>2. Homes'
      BY <1>1, StepHomes DEF WaitInv
    <2>3. ~late' => Calm(k', ctx')
      BY <1>1, <2>1, StepCalm DEF WaitInv
    <2> QED BY <2>1, <2>2, <2>3 DEF WaitInv
  <1>2. CASE UNCHANGED smpVars
    <2>1. k' = k /\ ctx' = ctx /\ hot' = hot /\ late' = late
      BY <1>2 DEF smpVars
    <2>2. SmpInv'
      BY <1>2, StutterInv DEF WaitInv
    <2>3. Homes'
      BY <2>1 DEF WaitInv, Homes
    <2> QED BY <2>1, <2>2, <2>3 DEF WaitInv
  <1> QED BY <1>1, <1>2

\* With nothing left to do anywhere, calm queues have no task that waits in vain.
LEMMA CalmWaits ==
    ASSUME SmpInv, Homes, Calm(k, ctx), AtRest, NEW t \in Waiting, NEW d \in k.mask[t] \cap k.up
    PROVE  PrioOf(k, k.curr[d]) <= k.prio[t]
  <1> DEFINE h == k.home[t]
  <1>1. /\ Exact(k) /\ k \in States /\ Sound(k, Free(ctx)) /\ k.up \subseteq Cpus /\ FairPrio \in Nat
        /\ k.prio \in [Threads -> 1 .. FairPrio]
    BY KnownParts, InvParts
  <1>2. /\ t \in Threads /\ k.onRq[t] /\ k.prio[t] < FairPrio /\ ~OnCpu(k, t)
        /\ k.stops = {} /\ k.stray = {} /\ d \in Cpus /\ d \in k.up /\ hot = NoPlug
    BY <1>1 DEF Waiting, AtRest, Calm, Plain
  <1>3. \A c \in Cpus : /\ ctx[c].at = "none" /\ ~Choosing(ctx[c]) /\ ~k.resched[c] /\ ~k.post[c]
                        /\ k.curr[c] # Stopper
    BY NoCtxIs DEF AtRest, NoCtx
  <1>4. \A c \in k.up : ~Urgent(k, c)
    BY <1>1, <1>3 DEF Calm, Quiet, Attended, Lowering
  <1>5. h \in Cpus /\ h \in k.up
    BY <1>1, <1>2 DEF Homes, NoPlug
  <1>6. \A c \in k.up : k.online[c]
    <2>1. \A c \in Cpus : k.online[c] <=> c \in k.up /\ ~(hot.phase = "up" /\ hot.cpu = c)
      BY DEF SmpInv, HotInv
    <2> QED BY <1>1, <1>2, <2>1 DEF NoPlug
  <1>7. t \in RtQueued(k, h)
    BY <1>2 DEF RtQueued, Queued
  <1>8. \A c \in Cpus : /\ Highest(k, c) \in 1 .. FairPrio
                        /\ \A u \in RtQueued(k, c) : Highest(k, c) <= k.prio[u]
    BY <1>1, HighestIs
  <1>9. Highest(k, d) <= k.prio[t]
    <2>1. CASE h = d
      BY <1>2, <1>7, <1>8, <2>1
    <2>2. CASE h # d
      <3>1. Movable(k, t)
        BY <1>1, <1>2, <2>2, CanMove
      <3>2. t \in Pushable(k, h)
        BY <1>2, <1>5, <1>7, <3>1 DEF Pushable, RtMovable, OnCpu
      <3>3. k.next[h] <= k.prio[t] /\ k.next[h] \in 1 .. FairPrio
        BY <1>1, <1>5, <3>2, NextIs
      <3>4. ~Pushes(k, ctx, h) /\ ~Pulling(ctx, d, h)
        BY <1>3, <1>4, <1>5 DEF Pushes, Yields, Pushing, Pulling
      <3>5. ~(k.next[h] < Highest(k, d))
        BY <1>2, <1>5, <1>6, <2>2, <3>4 DEF Calm, Quiet, Offered
      <3>6. k.prio[t] \in 1 .. FairPrio /\ Highest(k, d) \in 1 .. FairPrio
        BY <1>1, <1>2, <1>8
      <3> QED BY <1>1, <3>3, <3>5, <3>6
    <2> QED BY <2>1, <2>2
  <1>10. ~(Highest(k, d) < PrioOf(k, k.curr[d]))
    <2>1. k.prio[t] \in 1 .. FairPrio /\ Highest(k, d) \in 1 .. FairPrio
      BY <1>1, <1>2, <1>8
    <2>2. Highest(k, d) < FairPrio
      BY <1>1, <1>2, <1>9, <2>1
    <2> QED BY <1>2, <1>4, <2>2 DEF Urgent
  <1>11. PrioOf(k, k.curr[d]) \in Int /\ k.prio[t] \in Int /\ Highest(k, d) \in Int
    <2>1. k.curr[d] \in Threads \cup {Idle, Stopper}
      BY <1>1, <1>2 DEF States
    <2>2. \A u \in Threads : k.prio[u] \in 1 .. FairPrio
      BY <1>1
    <2>3. PrioOf(k, k.curr[d]) \in Int
      BY <1>1, <2>1, <2>2 DEF PrioOf
    <2> QED BY <1>1, <1>2, <1>8, <2>2, <2>3
  <1> QED BY <1>9, <1>10, <1>11

\* Where every task may run on all processors, or is bound to one, a real-time task
\* that is queued and does not run waits for tasks as urgent as it is, on each
\* processor it may use, once schedule, the pushes and the pulls have come to rest:
\* what pull_rt_task and push_rt_task rely on, each for the other, when they let a
\* task be.  It does not hold after the changes that late keeps.
THEOREM NoneWaitsInVainTheorem == SameAffinity => (BalanceSpec => []NoneWaitsInVain)
  <1> SUFFICES ASSUME SameAffinity PROVE BalanceSpec => []NoneWaitsInVain
    OBVIOUS
  <1>1. BalanceInit => WaitInv
    BY StartWaits
  <1>2. WaitInv /\ [BalanceNext]_smpVars => WaitInv'
    BY StepWaits
  <1>3. WaitInv => NoneWaitsInVain
    <2>1. SmpInv /\ Homes /\ Calm(k, ctx) /\ AtRest =>
            \A t \in Waiting : \A d \in k.mask[t] \cap k.up : PrioOf(k, k.curr[d]) <= k.prio[t]
      BY CalmWaits
    <2> QED BY <2>1 DEF WaitInv, NoneWaitsInVain
  <1> QED BY <1>1, <1>2, <1>3, PTL DEF BalanceSpec
=============================================================================
