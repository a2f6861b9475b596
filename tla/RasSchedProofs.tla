--------------------------- MODULE RasSchedProofs ---------------------------
(***************************************************************************)
(* Theorems about RasSched, for every set of tasks and every value of the  *)
(* other constants.                                                        *)
(***************************************************************************)
EXTENDS RasSched, RunListProofs, FiniteSetTheorems

-----------------------------------------------------------------------------
(* The run queue as a value: q agrees with the flags on and the classes cl *)

RqType == [ras : Seq(Tasks), rasNrRunning : Int,
           rt : Seq(Tasks), fair : SUBSET Tasks, nrRunning : Int]

Members(q, on, cl) ==
    \A p \in Tasks :
        /\ p \in Range(q.ras) <=> on[p] /\ cl[p] = "ras"
        /\ p \in Range(q.rt)  <=> on[p] /\ cl[p] = "rt"
        /\ p \in q.fair       <=> on[p] /\ cl[p] = "fair"

Counted(q) ==
    /\ IsInjective(q.ras) /\ IsInjective(q.rt) /\ IsFiniteSet(q.fair)
    /\ q.rasNrRunning = Len(q.ras)
    /\ q.nrRunning = Len(q.ras) + Len(q.rt) + Cardinality(q.fair)

Queueable == {"ras", "rt", "fair"}

LEMMA QueueTypes ==
    ASSUME NEW q \in RqType
    PROVE  /\ q.ras \in Seq(Tasks) /\ q.rt \in Seq(Tasks)
           /\ q.fair \subseteq Tasks
           /\ q.rasNrRunning \in Int /\ q.nrRunning \in Int
           /\ Len(q.ras) \in Nat /\ Len(q.rt) \in Nat
           /\ Range(q.ras) \subseteq Tasks /\ Range(q.rt) \subseteq Tasks
  <1>1. /\ q.ras \in Seq(Tasks) /\ q.rt \in Seq(Tasks)
        /\ q.fair \subseteq Tasks
        /\ q.rasNrRunning \in Int /\ q.nrRunning \in Int
    BY DEF RqType
  <1> QED BY <1>1, RangeProperties

\* One more, or one less, on one of the three queues.
LEMMA CountOne ==
    ASSUME NEW a \in Nat, NEW b \in Nat, NEW c \in Nat
    PROVE  /\ (a + b + c) + 1 = (a + 1) + b + c
           /\ (a + b + c) + 1 = a + (b + 1) + c
           /\ (a + b + c) + 1 = a + b + (c + 1)
           /\ (a + b + c) - 1 = (a - 1) + b + c
           /\ (a + b + c) - 1 = a + (b - 1) + c
           /\ (a + b + c) - 1 = a + b + (c - 1)
  OBVIOUS

LEMMA ListAddProperties ==
    ASSUME NEW s \in Seq(Tasks), NEW p \in Tasks, NEW head \in BOOLEAN,
           p \notin Range(s), IsInjective(s)
    PROVE  /\ ListAdd(s, p, head) \in Seq(Tasks)
           /\ Range(ListAdd(s, p, head)) = Range(s) \cup {p}
           /\ IsInjective(ListAdd(s, p, head))
           /\ Len(ListAdd(s, p, head)) = Len(s) + 1
  BY AddHead, AddTail DEF ListAdd

\* enqueue_task puts a task that is on no list on the list of its class, and
\* counts it, whatever its class was before.
LEMMA EnqueueConsistent ==
    ASSUME NEW q \in RqType, NEW on \in [Tasks -> BOOLEAN],
           NEW cl \in [Tasks \cup {Idle} -> Classes],
           Members(q, on, cl), Counted(q),
           NEW p \in Tasks, ~on[p], NEW c \in Queueable, NEW head \in BOOLEAN
    PROVE  /\ Enqueue(q, p, c, head) \in RqType
           /\ Members(Enqueue(q, p, c, head), [on EXCEPT ![p] = TRUE], [cl EXCEPT ![p] = c])
           /\ Counted(Enqueue(q, p, c, head))
  <1> DEFINE n == Enqueue(q, p, c, head)
             on1 == [on EXCEPT ![p] = TRUE]
             cl1 == [cl EXCEPT ![p] = c]
  <1>1. /\ q.ras \in Seq(Tasks) /\ q.rt \in Seq(Tasks) /\ q.fair \subseteq Tasks
        /\ q.rasNrRunning \in Int /\ q.nrRunning \in Int
        /\ Len(q.ras) \in Nat /\ Len(q.rt) \in Nat
    BY QueueTypes
  <1>2. p \notin Range(q.ras) /\ p \notin Range(q.rt) /\ p \notin q.fair
    BY DEF Members
  <1>3. /\ IsInjective(q.ras) /\ IsInjective(q.rt) /\ IsFiniteSet(q.fair)
        /\ q.rasNrRunning = Len(q.ras)
        /\ q.nrRunning = Len(q.ras) + Len(q.rt) + Cardinality(q.fair)
        /\ Cardinality(q.fair) \in Nat
    BY FS_CardinalityType DEF Counted
  <1>4. /\ on1[p] /\ cl1[p] = c
        /\ \A r \in Tasks \ {p} : on1[r] = on[r] /\ cl1[r] = cl[r]
    OBVIOUS
  <1>5. q.nrRunning = Len(q.ras) + Len(q.rt) + Cardinality(q.fair)
    BY <1>3
  <1>6. Len(q.ras) \in Nat /\ Len(q.rt) \in Nat /\ Cardinality(q.fair) \in Nat
    BY <1>3, <1>1
  <1>7. CASE c = "ras"
    <2>1. n = [q EXCEPT !.ras = ListAdd(q.ras, p, head), !.rasNrRunning = q.rasNrRunning + 1,
                        !.nrRunning = q.nrRunning + 1]
      BY <1>7 DEF Enqueue, EnqueueRas
    <2>2. /\ n.ras = ListAdd(q.ras, p, head) /\ n.rt = q.rt /\ n.fair = q.fair
          /\ n.rasNrRunning = q.rasNrRunning + 1 /\ n.nrRunning = q.nrRunning + 1
      BY <2>1 DEF RqType
    <2>3. n = [ras |-> n.ras, rasNrRunning |-> n.rasNrRunning, rt |-> n.rt,
               fair |-> n.fair, nrRunning |-> n.nrRunning]
      BY <2>1 DEF RqType
    <2> HIDE DEF n
    <2>4. /\ n.ras \in Seq(Tasks) /\ Range(n.ras) = Range(q.ras) \cup {p}
          /\ IsInjective(n.ras) /\ Len(n.ras) = Len(q.ras) + 1
      BY <1>3, <1>1, <1>2, <2>2, ListAddProperties
    <2>5. n \in RqType
      BY <1>1, <2>3, <2>2, <2>4 DEF RqType
    <2>6. Counted(n)
      <3>1. n.rasNrRunning = Len(n.ras)
        BY <1>3, <1>1, <2>2, <2>4
      <3>2. n.nrRunning = Len(n.ras) + Len(n.rt) + Cardinality(n.fair)
        <4>1. Len(n.ras) = Len(q.ras) + 1
          BY <2>4
        <4>2. Len(n.rt) = Len(q.rt) /\ Cardinality(n.fair) = Cardinality(q.fair)
          BY <2>2
        <4>3. n.nrRunning = q.nrRunning + 1
          BY <2>2
        <4>4. (Len(q.ras) + Len(q.rt) + Cardinality(q.fair)) + 1
              = (Len(q.ras) + 1) + Len(q.rt) + Cardinality(q.fair)
          BY <1>6, CountOne, ZenonT(30)
        <4> QED BY <1>5, <4>1, <4>2, <4>3, <4>4, Zenon
      <3>3. IsInjective(n.ras) /\ IsInjective(n.rt) /\ IsFiniteSet(n.fair)
        BY <1>3, <2>2, <2>4
      <3> QED BY <3>1, <3>2, <3>3 DEF Counted
    <2>7. Members(n, on1, cl1)
      BY <1>2, <1>4, <1>7, <2>2, <2>4 DEF Members
    <2> QED BY <2>5, <2>6, <2>7 DEF n
  <1>8. CASE c = "rt"
    <2>1. n = [q EXCEPT !.rt = ListAdd(q.rt, p, head), !.nrRunning = q.nrRunning + 1]
      BY <1>8 DEF Enqueue, EnqueueRt
    <2>2. /\ n.rt = ListAdd(q.rt, p, head) /\ n.ras = q.ras /\ n.fair = q.fair
          /\ n.rasNrRunning = q.rasNrRunning /\ n.nrRunning = q.nrRunning + 1
      BY <2>1 DEF RqType
    <2>3. n = [ras |-> n.ras, rasNrRunning |-> n.rasNrRunning, rt |-> n.rt,
               fair |-> n.fair, nrRunning |-> n.nrRunning]
      BY <2>1 DEF RqType
    <2> HIDE DEF n
    <2>4. /\ n.rt \in Seq(Tasks) /\ Range(n.rt) = Range(q.rt) \cup {p}
          /\ IsInjective(n.rt) /\ Len(n.rt) = Len(q.rt) + 1
      BY <1>3, <1>1, <1>2, <2>2, ListAddProperties
    <2>5. n \in RqType
      BY <1>1, <2>3, <2>2, <2>4 DEF RqType
    <2>6. Counted(n)
      <3>1. n.rasNrRunning = Len(n.ras)
        BY <1>3, <1>1, <2>2, <2>4
      <3>2. n.nrRunning = Len(n.ras) + Len(n.rt) + Cardinality(n.fair)
        <4>1. Len(n.rt) = Len(q.rt) + 1
          BY <2>4
        <4>2. Len(n.ras) = Len(q.ras) /\ Cardinality(n.fair) = Cardinality(q.fair)
          BY <2>2
        <4>3. n.nrRunning = q.nrRunning + 1
          BY <2>2
        <4>4. (Len(q.ras) + Len(q.rt) + Cardinality(q.fair)) + 1
              = Len(q.ras) + (Len(q.rt) + 1) + Cardinality(q.fair)
          BY <1>6, CountOne, ZenonT(30)
        <4> QED BY <1>5, <4>1, <4>2, <4>3, <4>4, Zenon
      <3>3. IsInjective(n.ras) /\ IsInjective(n.rt) /\ IsFiniteSet(n.fair)
        BY <1>3, <2>2, <2>4
      <3> QED BY <3>1, <3>2, <3>3 DEF Counted
    <2>7. Members(n, on1, cl1)
      BY <1>2, <1>4, <1>8, <2>2, <2>4 DEF Members
    <2> QED BY <2>5, <2>6, <2>7 DEF n
  <1>9. CASE c = "fair"
    <2>1. n = [q EXCEPT !.fair = q.fair \cup {p}, !.nrRunning = q.nrRunning + 1]
      BY <1>9 DEF Enqueue, EnqueueFair
    <2>2. /\ n.fair = q.fair \cup {p} /\ n.ras = q.ras /\ n.rt = q.rt
          /\ n.rasNrRunning = q.rasNrRunning /\ n.nrRunning = q.nrRunning + 1
      BY <2>1 DEF RqType
    <2>3. n = [ras |-> n.ras, rasNrRunning |-> n.rasNrRunning, rt |-> n.rt,
               fair |-> n.fair, nrRunning |-> n.nrRunning]
      BY <2>1 DEF RqType
    <2> HIDE DEF n
    <2>4. IsFiniteSet(n.fair) /\ Cardinality(n.fair) = Cardinality(q.fair) + 1
      <3>1. /\ IsFiniteSet(q.fair \cup {p})
            /\ Cardinality(q.fair \cup {p}) = Cardinality(q.fair) + 1
        BY <1>3, <1>2, FS_AddElement
      <3> QED BY <3>1, <2>2
    <2>5. n \in RqType
      BY <1>1, <2>3, <2>2 DEF RqType
    <2>6. Counted(n)
      <3>1. n.rasNrRunning = Len(n.ras)
        BY <1>3, <1>1, <2>2, <2>4
      <3>2. n.nrRunning = Len(n.ras) + Len(n.rt) + Cardinality(n.fair)
        <4>1. Cardinality(n.fair) = Cardinality(q.fair) + 1
          BY <2>4
        <4>2. Len(n.ras) = Len(q.ras) /\ Len(n.rt) = Len(q.rt)
          BY <2>2
        <4>3. n.nrRunning = q.nrRunning + 1
          BY <2>2
        <4>4. (Len(q.ras) + Len(q.rt) + Cardinality(q.fair)) + 1
              = Len(q.ras) + Len(q.rt) + (Cardinality(q.fair) + 1)
          BY <1>6, CountOne, ZenonT(30)
        <4> QED BY <1>5, <4>1, <4>2, <4>3, <4>4, Zenon
      <3>3. IsInjective(n.ras) /\ IsInjective(n.rt) /\ IsFiniteSet(n.fair)
        BY <1>3, <2>2, <2>4
      <3> QED BY <3>1, <3>2, <3>3 DEF Counted
    <2>7. Members(n, on1, cl1)
      BY <1>2, <1>4, <1>9, <2>2 DEF Members
    <2> QED BY <2>5, <2>6, <2>7 DEF n
  <1> QED BY <1>7, <1>8, <1>9 DEF Queueable

\* dequeue_task takes a queued task off the list of its class, and discounts it.
LEMMA DequeueConsistent ==
    ASSUME NEW q \in RqType, NEW on \in [Tasks -> BOOLEAN],
           NEW cl \in [Tasks \cup {Idle} -> Classes],
           Members(q, on, cl), Counted(q),
           NEW p \in Tasks, on[p], NEW c \in Queueable, cl[p] = c
    PROVE  /\ Dequeue(q, p, c) \in RqType
           /\ Members(Dequeue(q, p, c), [on EXCEPT ![p] = FALSE], cl)
           /\ Counted(Dequeue(q, p, c))
  <1> DEFINE n == Dequeue(q, p, c)
             on0 == [on EXCEPT ![p] = FALSE]
  <1>1. /\ q.ras \in Seq(Tasks) /\ q.rt \in Seq(Tasks) /\ q.fair \subseteq Tasks
        /\ q.rasNrRunning \in Int /\ q.nrRunning \in Int
        /\ Len(q.ras) \in Nat /\ Len(q.rt) \in Nat
    BY QueueTypes
  <1>2. /\ p \in Range(q.ras) <=> c = "ras"
        /\ p \in Range(q.rt)  <=> c = "rt"
        /\ p \in q.fair       <=> c = "fair"
    BY DEF Members
  <1>3. /\ IsInjective(q.ras) /\ IsInjective(q.rt) /\ IsFiniteSet(q.fair)
        /\ q.rasNrRunning = Len(q.ras)
        /\ q.nrRunning = Len(q.ras) + Len(q.rt) + Cardinality(q.fair)
        /\ Cardinality(q.fair) \in Nat
    BY FS_CardinalityType DEF Counted
  <1>4. ~on0[p] /\ \A r \in Tasks \ {p} : on0[r] = on[r]
    OBVIOUS
  <1>5. q.nrRunning = Len(q.ras) + Len(q.rt) + Cardinality(q.fair)
    BY <1>3
  <1>6. Len(q.ras) \in Nat /\ Len(q.rt) \in Nat /\ Cardinality(q.fair) \in Nat
    BY <1>3, <1>1
  <1>7. CASE c = "ras"
    <2>1. n = [q EXCEPT !.ras = RemoveFirst(q.ras, p), !.rasNrRunning = q.rasNrRunning - 1,
                        !.nrRunning = q.nrRunning - 1]
      BY <1>7 DEF Dequeue, DequeueRas
    <2>2. /\ n.ras = RemoveFirst(q.ras, p) /\ n.rt = q.rt /\ n.fair = q.fair
          /\ n.rasNrRunning = q.rasNrRunning - 1 /\ n.nrRunning = q.nrRunning - 1
      BY <2>1 DEF RqType
    <2>3. n = [ras |-> n.ras, rasNrRunning |-> n.rasNrRunning, rt |-> n.rt,
               fair |-> n.fair, nrRunning |-> n.nrRunning]
      BY <2>1 DEF RqType
    <2> HIDE DEF n
    <2>4. p \in Range(q.ras)
      BY <1>2, <1>7
    <2>5. /\ n.ras \in Seq(Tasks) /\ Range(n.ras) = Range(q.ras) \ {p}
          /\ IsInjective(n.ras) /\ Len(n.ras) = Len(q.ras) - 1
      BY <1>3, <1>1, <2>2, <2>4, DelFromList
    <2>6. n \in RqType
      BY <1>1, <2>3, <2>2, <2>5 DEF RqType
    <2>7. Counted(n)
      <3>1. n.rasNrRunning = Len(n.ras)
        BY <1>3, <1>1, <2>2, <2>5
      <3>2. n.nrRunning = Len(n.ras) + Len(n.rt) + Cardinality(n.fair)
        <4>1. Len(n.ras) = Len(q.ras) - 1
          BY <2>5
        <4>2. Len(n.rt) = Len(q.rt) /\ Cardinality(n.fair) = Cardinality(q.fair)
          BY <2>2
        <4>3. n.nrRunning = q.nrRunning - 1
          BY <2>2
        <4>4. (Len(q.ras) + Len(q.rt) + Cardinality(q.fair)) - 1
              = (Len(q.ras) - 1) + Len(q.rt) + Cardinality(q.fair)
          BY <1>6, CountOne, ZenonT(30)
        <4> QED BY <1>5, <4>1, <4>2, <4>3, <4>4, Zenon
      <3>3. IsInjective(n.ras) /\ IsInjective(n.rt) /\ IsFiniteSet(n.fair)
        BY <1>3, <2>2, <2>5
      <3> QED BY <3>1, <3>2, <3>3 DEF Counted
    <2>8. Members(n, on0, cl)
      BY <1>2, <1>4, <1>7, <2>2, <2>5 DEF Members
    <2> QED BY <2>6, <2>7, <2>8 DEF n
  <1>8. CASE c = "rt"
    <2>1. n = [q EXCEPT !.rt = RemoveFirst(q.rt, p), !.nrRunning = q.nrRunning - 1]
      BY <1>8 DEF Dequeue, DequeueRt
    <2>2. /\ n.rt = RemoveFirst(q.rt, p) /\ n.ras = q.ras /\ n.fair = q.fair
          /\ n.rasNrRunning = q.rasNrRunning /\ n.nrRunning = q.nrRunning - 1
      BY <2>1 DEF RqType
    <2>3. n = [ras |-> n.ras, rasNrRunning |-> n.rasNrRunning, rt |-> n.rt,
               fair |-> n.fair, nrRunning |-> n.nrRunning]
      BY <2>1 DEF RqType
    <2> HIDE DEF n
    <2>4. p \in Range(q.rt)
      BY <1>2, <1>8
    <2>5. /\ n.rt \in Seq(Tasks) /\ Range(n.rt) = Range(q.rt) \ {p}
          /\ IsInjective(n.rt) /\ Len(n.rt) = Len(q.rt) - 1
      BY <1>3, <1>1, <2>2, <2>4, DelFromList
    <2>6. n \in RqType
      BY <1>1, <2>3, <2>2, <2>5 DEF RqType
    <2>7. Counted(n)
      <3>1. n.rasNrRunning = Len(n.ras)
        BY <1>3, <1>1, <2>2, <2>5
      <3>2. n.nrRunning = Len(n.ras) + Len(n.rt) + Cardinality(n.fair)
        <4>1. Len(n.rt) = Len(q.rt) - 1
          BY <2>5
        <4>2. Len(n.ras) = Len(q.ras) /\ Cardinality(n.fair) = Cardinality(q.fair)
          BY <2>2
        <4>3. n.nrRunning = q.nrRunning - 1
          BY <2>2
        <4>4. (Len(q.ras) + Len(q.rt) + Cardinality(q.fair)) - 1
              = Len(q.ras) + (Len(q.rt) - 1) + Cardinality(q.fair)
          BY <1>6, CountOne, ZenonT(30)
        <4> QED BY <1>5, <4>1, <4>2, <4>3, <4>4, Zenon
      <3>3. IsInjective(n.ras) /\ IsInjective(n.rt) /\ IsFiniteSet(n.fair)
        BY <1>3, <2>2, <2>5
      <3> QED BY <3>1, <3>2, <3>3 DEF Counted
    <2>8. Members(n, on0, cl)
      BY <1>2, <1>4, <1>8, <2>2, <2>5 DEF Members
    <2> QED BY <2>6, <2>7, <2>8 DEF n
  <1>9. CASE c = "fair"
    <2>1. n = [q EXCEPT !.fair = q.fair \ {p}, !.nrRunning = q.nrRunning - 1]
      BY <1>9 DEF Dequeue, DequeueFair
    <2>2. /\ n.fair = q.fair \ {p} /\ n.ras = q.ras /\ n.rt = q.rt
          /\ n.rasNrRunning = q.rasNrRunning /\ n.nrRunning = q.nrRunning - 1
      BY <2>1 DEF RqType
    <2>3. n = [ras |-> n.ras, rasNrRunning |-> n.rasNrRunning, rt |-> n.rt,
               fair |-> n.fair, nrRunning |-> n.nrRunning]
      BY <2>1 DEF RqType
    <2> HIDE DEF n
    <2>4. p \in q.fair
      BY <1>2, <1>9
    <2>5. IsFiniteSet(n.fair) /\ Cardinality(n.fair) = Cardinality(q.fair) - 1
      <3>1. /\ IsFiniteSet(q.fair \ {p})
            /\ Cardinality(q.fair \ {p}) = Cardinality(q.fair) - 1
        BY <1>3, <2>4, FS_RemoveElement
      <3> QED BY <3>1, <2>2
    <2>6. n \in RqType
      BY <1>1, <2>3, <2>2, <2>5 DEF RqType
    <2>7. Counted(n)
      <3>1. n.rasNrRunning = Len(n.ras)
        BY <1>3, <1>1, <2>2, <2>5
      <3>2. n.nrRunning = Len(n.ras) + Len(n.rt) + Cardinality(n.fair)
        <4>1. Cardinality(n.fair) = Cardinality(q.fair) - 1
          BY <2>5
        <4>2. Len(n.ras) = Len(q.ras) /\ Len(n.rt) = Len(q.rt)
          BY <2>2
        <4>3. n.nrRunning = q.nrRunning - 1
          BY <2>2
        <4>4. (Len(q.ras) + Len(q.rt) + Cardinality(q.fair)) - 1
              = Len(q.ras) + Len(q.rt) + (Cardinality(q.fair) - 1)
          BY <1>6, CountOne, ZenonT(30)
        <4> QED BY <1>5, <4>1, <4>2, <4>3, <4>4, Zenon
      <3>3. IsInjective(n.ras) /\ IsInjective(n.rt) /\ IsFiniteSet(n.fair)
        BY <1>3, <2>2, <2>5
      <3> QED BY <3>1, <3>2, <3>3 DEF Counted
    <2>8. Members(n, on0, cl)
      BY <1>2, <1>4, <1>9, <2>2, <2>5 DEF Members
    <2> QED BY <2>6, <2>7, <2>8 DEF n
  <1> QED BY <1>7, <1>8, <1>9 DEF Queueable

\* requeue_task_ras: the same tasks, in another order.
LEMMA RequeueRasConsistent ==
    ASSUME NEW q \in RqType, NEW on, NEW cl, Members(q, on, cl), Counted(q), NEW p \in Tasks
    PROVE  /\ RequeueRas(q, p) \in RqType
           /\ Members(RequeueRas(q, p), on, cl)
           /\ Counted(RequeueRas(q, p))
  <1> DEFINE n == RequeueRas(q, p)
             s == RemoveFirst(q.ras, p)
  <1>1. CASE p \notin Range(q.ras)
    BY <1>1 DEF RequeueRas
  <1>2. CASE p \in Range(q.ras)
    <2>1. q.ras \in Seq(Tasks) /\ IsInjective(q.ras) /\ Len(q.ras) \in Nat
      BY QueueTypes DEF Counted
    <2>2. /\ s \in Seq(Tasks) /\ Range(s) = Range(q.ras) \ {p}
          /\ IsInjective(s) /\ Len(s) = Len(q.ras) - 1
      BY <1>2, <2>1, DelFromList
    <2> HIDE DEF s
    <2>3. /\ Append(s, p) \in Seq(Tasks) /\ Range(Append(s, p)) = Range(s) \cup {p}
          /\ IsInjective(Append(s, p)) /\ Len(Append(s, p)) = Len(s) + 1
      BY <2>2, AddTail
    <2>4. n = [q EXCEPT !.ras = Append(s, p)]
      BY <1>2 DEF RequeueRas, s
    <2>5. /\ n.ras = Append(s, p) /\ n.rt = q.rt /\ n.fair = q.fair
          /\ n.rasNrRunning = q.rasNrRunning /\ n.nrRunning = q.nrRunning
      BY <2>4 DEF RqType
    <2>6. n \in RqType
      BY <2>3, <2>4 DEF RqType
    <2> HIDE DEF n
    <2>7. Range(n.ras) = Range(q.ras) /\ IsInjective(n.ras) /\ Len(n.ras) = Len(q.ras)
      <3>1. Len(n.ras) = Len(q.ras)
        BY <2>1, <2>2, <2>3, <2>5
      <3>2. Range(n.ras) = Range(q.ras) /\ IsInjective(n.ras)
        BY <1>2, <2>2, <2>3, <2>5
      <3> QED BY <3>1, <3>2
    <2>8. Members(n, on, cl)
      BY <2>5, <2>7 DEF Members
    <2>9. Counted(n)
      BY <2>5, <2>7, Zenon DEF Counted
    <2> QED BY <2>6, <2>8, <2>9 DEF n
  <1> QED BY <1>1, <1>2

\* requeue_task_rt: the same tasks, in another order.
LEMMA RequeueRtConsistent ==
    ASSUME NEW q \in RqType, NEW on, NEW cl, Members(q, on, cl), Counted(q), NEW p \in Tasks
    PROVE  /\ RequeueRt(q, p) \in RqType
           /\ Members(RequeueRt(q, p), on, cl)
           /\ Counted(RequeueRt(q, p))
  <1> DEFINE n == RequeueRt(q, p)
             s == RemoveFirst(q.rt, p)
  <1>1. CASE p \notin Range(q.rt)
    BY <1>1 DEF RequeueRt
  <1>2. CASE p \in Range(q.rt)
    <2>1. q.rt \in Seq(Tasks) /\ IsInjective(q.rt) /\ Len(q.rt) \in Nat
      BY QueueTypes DEF Counted
    <2>2. /\ s \in Seq(Tasks) /\ Range(s) = Range(q.rt) \ {p}
          /\ IsInjective(s) /\ Len(s) = Len(q.rt) - 1
      BY <1>2, <2>1, DelFromList
    <2> HIDE DEF s
    <2>3. /\ Append(s, p) \in Seq(Tasks) /\ Range(Append(s, p)) = Range(s) \cup {p}
          /\ IsInjective(Append(s, p)) /\ Len(Append(s, p)) = Len(s) + 1
      BY <2>2, AddTail
    <2>4. n = [q EXCEPT !.rt = Append(s, p)]
      BY <1>2 DEF RequeueRt, s
    <2>5. /\ n.rt = Append(s, p) /\ n.ras = q.ras /\ n.fair = q.fair
          /\ n.rasNrRunning = q.rasNrRunning /\ n.nrRunning = q.nrRunning
      BY <2>4 DEF RqType
    <2>6. n \in RqType
      BY <2>3, <2>4 DEF RqType
    <2> HIDE DEF n
    <2>7. Range(n.rt) = Range(q.rt) /\ IsInjective(n.rt) /\ Len(n.rt) = Len(q.rt)
      <3>1. Len(n.rt) = Len(q.rt)
        BY <2>1, <2>2, <2>3, <2>5
      <3>2. Range(n.rt) = Range(q.rt) /\ IsInjective(n.rt)
        BY <1>2, <2>2, <2>3, <2>5
      <3> QED BY <3>1, <3>2
    <2>8. Members(n, on, cl)
      BY <2>5, <2>7 DEF Members
    <2>9. Counted(n)
      BY <2>5, <2>7, Zenon DEF Counted
    <2> QED BY <2>6, <2>8, <2>9 DEF n
  <1> QED BY <1>1, <1>2

\* pick_next_task returns a queued task, or idle.
LEMMA PickQueued ==
    ASSUME NEW q \in RqType, NEW on, NEW cl, Members(q, on, cl), Counted(q),
           NEW t \in PickNextTask(q)
    PROVE  t = Idle \/ (t \in Tasks /\ on[t])
  <1>1. /\ q.ras \in Seq(Tasks) /\ q.rt \in Seq(Tasks) /\ q.fair \subseteq Tasks
        /\ Range(q.ras) \subseteq Tasks /\ Range(q.rt) \subseteq Tasks
    BY QueueTypes
  <1>2. PickRt(q) \subseteq Range(q.rt)
    BY DEF PickRt, Range
  <1>3. PickRas(q) \subseteq Range(q.ras)
    <2>1. CASE q.rasNrRunning = 0
      BY <2>1 DEF PickRas
    <2>2. CASE q.rasNrRunning # 0
      <3>1. Len(q.ras) \in Nat /\ Len(q.ras) # 0
        BY <2>2, <1>1, LenProperties DEF Counted
      <3>2. Head(q.ras) = q.ras[1] /\ 1 \in DOMAIN q.ras
        BY <3>1, <1>1, LenProperties
      <3>3. PickRas(q) = {q.ras[1]}
        BY <2>2, <3>2, Zenon DEF PickRas
      <3> QED BY <3>2, <3>3, Zenon DEF Range
    <2> QED BY <2>1, <2>2
  <1>4. t \in Range(q.rt) \cup Range(q.ras) \cup q.fair \cup {Idle}
    BY <1>2, <1>3 DEF PickNextTask, PickFair
  <1> QED BY <1>1, <1>4 DEF Members

\* Dequeue and enqueue again in another class, the queues of a task that is not
\* queued staying as they are.
LEMMA ReclassConsistent ==
    ASSUME NEW q \in RqType, NEW on \in [Tasks -> BOOLEAN],
           NEW cl \in [Tasks \cup {Idle} -> Classes],
           Members(q, on, cl), Counted(q),
           NEW p \in Tasks, cl[p] \in Queueable, NEW c \in Queueable, NEW head \in BOOLEAN,
           NEW n, n = IF on[p] THEN Enqueue(Dequeue(q, p, cl[p]), p, c, head) ELSE q
    PROVE  n \in RqType /\ Members(n, on, [cl EXCEPT ![p] = c]) /\ Counted(n)
  <1>1. CASE on[p]
    <2> DEFINE m == Dequeue(q, p, cl[p])
               on0 == [on EXCEPT ![p] = FALSE]
    <2>1. m \in RqType /\ Members(m, on0, cl) /\ Counted(m)
      BY <1>1, DequeueConsistent
    <2>2. on0 \in [Tasks -> BOOLEAN] /\ ~on0[p] /\ [on0 EXCEPT ![p] = TRUE] = on
      BY <1>1
    <2>3. n = Enqueue(m, p, c, head)
      BY <1>1
    <2> HIDE DEF m, on0
    <2>4. /\ Enqueue(m, p, c, head) \in RqType
          /\ Members(Enqueue(m, p, c, head), [on0 EXCEPT ![p] = TRUE], [cl EXCEPT ![p] = c])
          /\ Counted(Enqueue(m, p, c, head))
      BY <2>1, <2>2, EnqueueConsistent, Zenon
    <2> QED BY <2>2, <2>3, <2>4, Zenon
  <1>2. CASE ~on[p]
    <2>1. \A r \in Tasks : on[r] => [cl EXCEPT ![p] = c][r] = cl[r]
      BY <1>2
    <2>2. n = q
      BY <1>2
    <2> QED BY <2>1, <2>2 DEF Members
  <1> QED BY <1>1, <1>2

-----------------------------------------------------------------------------
(* Class, policy and priority: an invariant of its own, whatever the queues *)

AttrTypes ==
    /\ class \in [Tasks \cup {Idle} -> Classes]
    /\ policy \in [Tasks -> AllPolicies]
    /\ prio \in [Tasks \cup {Idle} -> 0 .. MAX_PRIO]
    /\ staticPrio \in [Tasks -> StaticPrios]
    /\ rtPriority \in [Tasks -> RtPriorities \cup {0}]
    /\ resetOnFork \in [Tasks -> BOOLEAN]
    /\ piTop \in [Tasks -> PiPrios \cup {NoWaiter}]

ClassesOK == class[Idle] = "idle" /\ \A p \in Tasks : class[p] \in Queueable

AttrInv == AttrTypes /\ ClassesOK /\ RasClassHasRasPolicy /\ RtPolicyHasRtClass

attrVars == <<class, policy, prio, staticPrio, rtPriority, resetOnFork, piTop>>

\* normal_prio is real-time for the real-time policies.
LEMMA NormalPrioBounds ==
    ASSUME NEW pol, NEW rtp \in RtPriorities \cup {0}, NEW sp \in StaticPrios
    PROVE  /\ NormalPrioOf(pol, rtp, sp) \in 0 .. MAX_PRIO
           /\ RtPolicy(pol) => RtPrio(NormalPrioOf(pol, rtp, sp))
  BY PrioAssumption DEF NormalPrioOf, RtPrio

\* No nice value is a real-time priority.
LEMMA NiceNotRt == \A x \in StaticPrios : x \in 0 .. MAX_PRIO /\ ~RtPrio(x)
  BY PrioAssumption DEF RtPrio

\* Priority inheritance can only make a priority higher.
LEMMA PiPrioBounds ==
    ASSUME NEW pr \in 0 .. MAX_PRIO, NEW top \in PiPrios \cup {NoWaiter}
    PROVE  PiPrio(pr, top) \in 0 .. MAX_PRIO /\ (RtPrio(pr) => RtPrio(PiPrio(pr, top)))
  BY PrioAssumption DEF PiPrio, NoWaiter, RtPrio

LEMMA ClassChoice ==
    ASSUME NEW pol, NEW pr
    PROVE  /\ ClassByPrio(pr) \in {"rt", "fair"} /\ (RtPrio(pr) => ClassByPrio(pr) = "rt")
           /\ SchedClass(pol, pr) \in Queueable
           /\ SchedClass(pol, pr) = "ras" => pol = "RAS"
           /\ RtPolicy(pol) /\ RtPrio(pr) => SchedClass(pol, pr) = "rt"
  BY DEF ClassByPrio, SchedClass, Queueable, RtPolicy

\* A step that gives one task a class, a priority and a policy that fit.
LEMMA AttrStep ==
    ASSUME AttrInv, NEW p \in Tasks, NEW c \in Queueable, NEW pr \in 0 .. MAX_PRIO,
           NEW pol \in AllPolicies, c = "ras" => pol = "RAS",
           RtPolicy(pol) => c = "rt" /\ RtPrio(pr),
           class' = [class EXCEPT ![p] = c], prio' = [prio EXCEPT ![p] = pr],
           policy' = [policy EXCEPT ![p] = pol],
           staticPrio' \in [Tasks -> StaticPrios],
           rtPriority' \in [Tasks -> RtPriorities \cup {0}],
           resetOnFork' \in [Tasks -> BOOLEAN],
           piTop' \in [Tasks -> PiPrios \cup {NoWaiter}]
    PROVE  AttrInv'
  <1>1. AttrTypes'
    BY DEF AttrInv, AttrTypes, Queueable, Classes
  <1>2. /\ class'[p] = c /\ policy'[p] = pol /\ prio'[p] = pr
        /\ \A r \in Tasks \ {p} :
              class'[r] = class[r] /\ policy'[r] = policy[r] /\ prio'[r] = prio[r]
        /\ class'[Idle] = class[Idle]
    BY IdleAssumption DEF AttrInv, AttrTypes
  <1>3. ClassesOK' /\ RasClassHasRasPolicy'
    BY <1>2 DEF AttrInv, ClassesOK, RasClassHasRasPolicy
  <1>4. RtPolicyHasRtClass'
    BY <1>2 DEF AttrInv, RtPolicyHasRtClass
  <1> QED BY <1>1, <1>3, <1>4 DEF AttrInv

LEMMA AttrInit == Init => AttrInv
  <1> SUFFICES ASSUME Init PROVE AttrInv
    OBVIOUS
  <1>1. AttrTypes
    BY PrioAssumption DEF Init, AttrTypes, Classes, AllPolicies, NoWaiter
  <1>2. class[Idle] = "idle" /\ \A p \in Tasks : class[p] = "fair" /\ policy[p] = "NORMAL"
    BY IdleAssumption DEF Init
  <1> QED BY <1>1, <1>2 DEF AttrInv, ClassesOK, RasClassHasRasPolicy,
                            RtPolicyHasRtClass, RtPolicy, Queueable

LEMMA AttrNext ==
    ASSUME AttrInv, [Next]_vars
    PROVE  AttrInv'
  <1>1. /\ AttrTypes /\ ClassesOK /\ RasClassHasRasPolicy /\ RtPolicyHasRtClass
        /\ NICE_0_PRIO \in StaticPrios /\ NICE_0_PRIO \in 0 .. MAX_PRIO
        /\ \A p \in Tasks : prio[p] \in 0 .. MAX_PRIO /\ staticPrio[p] \in StaticPrios
                            /\ rtPriority[p] \in RtPriorities \cup {0}
                            /\ piTop[p] \in PiPrios \cup {NoWaiter}
                            /\ policy[p] \in AllPolicies
        /\ StaticPrios \subseteq 0 .. MAX_PRIO
    BY PrioAssumption DEF AttrInv, AttrTypes
  <1>2. CASE UNCHANGED attrVars
    BY <1>1, <1>2 DEF AttrInv, AttrTypes, ClassesOK, RasClassHasRasPolicy,
                      RtPolicyHasRtClass, attrVars
  <1>3. ASSUME NEW c \in Tasks, SchedFork(c) PROVE AttrInv'
    <2> DEFINE t == curr
               revert == resetOnFork[t]
               pol == IF revert /\ RtPolicy(policy[t]) THEN "NORMAL" ELSE policy[t]
               rtp == IF revert /\ RtPolicy(policy[t]) THEN 0 ELSE rtPriority[t]
               sp  == IF revert /\ (RtPolicy(policy[t]) \/ staticPrio[t] < NICE_0_PRIO)
                      THEN NICE_0_PRIO ELSE staticPrio[t]
               pr  == IF revert THEN sp ELSE NormalPrio(t)
    <2>1. t \in Tasks
      BY <1>3 DEF SchedFork, InSyscall
    <2>2. pol \in AllPolicies /\ rtp \in RtPriorities \cup {0} /\ sp \in StaticPrios
      BY <1>1, <2>1 DEF AllPolicies
    <2>3. NormalPrio(t) \in 0 .. MAX_PRIO /\ (RtPolicy(policy[t]) => RtPrio(NormalPrio(t)))
      BY <1>1, <2>1, NormalPrioBounds DEF NormalPrio
    <2>4. ~RtPolicy(policy[t]) => ~RtPrio(NormalPrio(t))
      BY <1>1, <2>1, NiceNotRt DEF NormalPrio, NormalPrioOf
    <2>5. ~RtPrio(sp)
      BY <2>2, NiceNotRt
    <2>6. pr \in 0 .. MAX_PRIO /\ (RtPrio(pr) => ~revert /\ RtPolicy(policy[t]))
          /\ (RtPolicy(pol) => ~revert /\ RtPolicy(policy[t]) /\ RtPrio(pr))
      BY <1>1, <2>2, <2>3, <2>4, <2>5 DEF RtPolicy
    <2>7. /\ ForkClass(t, pr) \in {"rt", "fair"}
          /\ RtPolicy(pol) => ForkClass(t, pr) = "rt"
      BY <1>1, <2>1, <2>6 DEF ForkClass, RtPolicyHasRtClass
    <2>8. /\ policy' = [policy EXCEPT ![c] = pol] /\ prio' = [prio EXCEPT ![c] = pr]
          /\ class' = [class EXCEPT ![c] = ForkClass(t, pr)]
      BY <1>3 DEF SchedFork
    <2>9. /\ staticPrio' = [staticPrio EXCEPT ![c] = sp]
          /\ rtPriority' = [rtPriority EXCEPT ![c] = rtp]
          /\ resetOnFork' = [resetOnFork EXCEPT ![c] = FALSE] /\ piTop' = piTop
      BY <1>3 DEF SchedFork
    <2> HIDE DEF t, revert, pol, rtp, sp, pr
    <2>10. /\ staticPrio' \in [Tasks -> StaticPrios]
           /\ rtPriority' \in [Tasks -> RtPriorities \cup {0}]
           /\ resetOnFork' \in [Tasks -> BOOLEAN]
           /\ piTop' \in [Tasks -> PiPrios \cup {NoWaiter}]
      BY <1>1, <2>2, <2>9 DEF AttrTypes
    <2>11. /\ ForkClass(t, pr) \in Queueable
           /\ ForkClass(t, pr) = "ras" => pol = "RAS"
      BY <2>7 DEF Queueable
    <2> QED BY <2>2, <2>6, <2>7, <2>8, <2>10, <2>11, AttrStep
  <1>4. CASE Exit
    <2>1. curr \in Tasks
      BY <1>4 DEF Exit, InSyscall
    <2>2. /\ policy' = [policy EXCEPT ![curr] = "NORMAL"]
          /\ prio' = [prio EXCEPT ![curr] = NICE_0_PRIO]
          /\ class' = [class EXCEPT ![curr] = "fair"]
      BY <1>4 DEF Exit
    <2>3. /\ staticPrio' \in [Tasks -> StaticPrios]
          /\ rtPriority' \in [Tasks -> RtPriorities \cup {0}]
          /\ resetOnFork' \in [Tasks -> BOOLEAN]
          /\ piTop' \in [Tasks -> PiPrios \cup {NoWaiter}]
      BY <1>1, <1>4 DEF Exit, AttrTypes
    <2>4. "NORMAL" \in AllPolicies /\ ~RtPolicy("NORMAL") /\ "fair" \in Queueable
      BY DEF AllPolicies, RtPolicy, Queueable
    <2> QED BY <1>1, <2>1, <2>2, <2>3, <2>4, AttrStep
  <1>5. ASSUME NEW p \in Tasks, NEW pol \in Policies, NEW rtp \in RtPriorities \cup {0},
               NEW reset \in ResetFlags, SetScheduler(p, pol, rtp, reset)
        PROVE  AttrInv'
    <2> DEFINE np == NormalPrioOf(pol, rtp, staticPrio[p])
               pr == PiPrio(np, piTop[p])
    <2>1. np \in 0 .. MAX_PRIO /\ (RtPolicy(pol) => RtPrio(np))
      BY <1>1, NormalPrioBounds
    <2>2. pr \in 0 .. MAX_PRIO /\ (RtPolicy(pol) => RtPrio(pr))
      BY <1>1, <2>1, PiPrioBounds
    <2>3. /\ policy' = [policy EXCEPT ![p] = pol] /\ prio' = [prio EXCEPT ![p] = pr]
          /\ class' = [class EXCEPT ![p] = SchedClass(pol, pr)]
      BY <1>5 DEF SetScheduler, Reclass
    <2>4. /\ rtPriority' = [rtPriority EXCEPT ![p] = rtp]
          /\ resetOnFork' = [resetOnFork EXCEPT ![p] = reset]
          /\ staticPrio' = staticPrio /\ piTop' = piTop
      BY <1>5 DEF SetScheduler
    <2> HIDE DEF np, pr
    <2>5. /\ staticPrio' \in [Tasks -> StaticPrios]
          /\ rtPriority' \in [Tasks -> RtPriorities \cup {0}]
          /\ resetOnFork' \in [Tasks -> BOOLEAN]
          /\ piTop' \in [Tasks -> PiPrios \cup {NoWaiter}]
      BY <1>1, <2>4, PolicyAssumption DEF AttrTypes
    <2>6. pol \in AllPolicies
      BY PolicyAssumption
    <2> QED BY <2>2, <2>3, <2>5, <2>6, ClassChoice, AttrStep
  <1>6. ASSUME NEW p \in Tasks, NEW sp \in StaticPrios, SetUserNice(p, sp) PROVE AttrInv'
    <2>1. /\ class' = class /\ policy' = policy /\ rtPriority' = rtPriority
          /\ resetOnFork' = resetOnFork /\ piTop' = piTop
          /\ staticPrio' = [staticPrio EXCEPT ![p] = sp]
      BY <1>6 DEF SetUserNice
    <2>2. PICK pr \in 0 .. MAX_PRIO : /\ prio' = [prio EXCEPT ![p] = pr]
                                      /\ RtPrio(prio[p]) => pr = prio[p]
      <3>1. CASE RtPolicy(policy[p])
        <4>1. prio' = [prio EXCEPT ![p] = prio[p]]
          BY <1>1, <1>6, <3>1 DEF SetUserNice, AttrTypes
        <4> QED BY <1>1, <4>1
      <3>2. CASE ~RtPolicy(policy[p])
        <4> DEFINE pr == IF RtPrio(prio[p]) THEN prio[p] ELSE sp
        <4>1. prio' = [prio EXCEPT ![p] = pr]
          BY <1>6, <3>2 DEF SetUserNice
        <4>2. pr \in 0 .. MAX_PRIO /\ (RtPrio(prio[p]) => pr = prio[p])
          BY <1>1
        <4> QED BY <4>1, <4>2
      <3> QED BY <3>1, <3>2
    <2>3. class' = [class EXCEPT ![p] = class[p]] /\ policy' = [policy EXCEPT ![p] = policy[p]]
      BY <1>1, <2>1 DEF AttrTypes
    <2>4. /\ staticPrio' \in [Tasks -> StaticPrios]
          /\ rtPriority' \in [Tasks -> RtPriorities \cup {0}]
          /\ resetOnFork' \in [Tasks -> BOOLEAN]
          /\ piTop' \in [Tasks -> PiPrios \cup {NoWaiter}]
      BY <1>1, <2>1 DEF AttrTypes
    <2>5. /\ class[p] \in Queueable /\ (class[p] = "ras" => policy[p] = "RAS")
          /\ RtPolicy(policy[p]) => class[p] = "rt" /\ RtPrio(pr)
      BY <1>1, <2>2 DEF ClassesOK, RasClassHasRasPolicy, RtPolicyHasRtClass
    <2> QED BY <1>1, <2>2, <2>3, <2>4, <2>5, AttrStep
  <1>7. ASSUME NEW p \in Tasks, NEW top \in PiPrios \cup {NoWaiter}, RtMutexSetPrio(p, top)
        PROVE  AttrInv'
    <2> DEFINE pr == PiPrio(NormalPrio(p), top)
    <2>1. /\ policy' = policy /\ rtPriority' = rtPriority /\ resetOnFork' = resetOnFork
          /\ staticPrio' = staticPrio /\ piTop' = [piTop EXCEPT ![p] = top]
      BY <1>7 DEF RtMutexSetPrio
    <2>2. NormalPrio(p) \in 0 .. MAX_PRIO /\ (RtPolicy(policy[p]) => RtPrio(NormalPrio(p)))
      BY <1>1, NormalPrioBounds DEF NormalPrio
    <2>3. pr \in 0 .. MAX_PRIO /\ (RtPolicy(policy[p]) => RtPrio(pr))
      BY <2>2, PiPrioBounds
    <2>4. policy' = [policy EXCEPT ![p] = policy[p]]
      BY <1>1, <2>1 DEF AttrTypes
    <2>5. /\ staticPrio' \in [Tasks -> StaticPrios]
          /\ rtPriority' \in [Tasks -> RtPriorities \cup {0}]
          /\ resetOnFork' \in [Tasks -> BOOLEAN]
          /\ piTop' \in [Tasks -> PiPrios \cup {NoWaiter}]
      BY <1>1, <2>1 DEF AttrTypes
    <2>6. CASE pr = prio[p]
      <3>1. prio' = [prio EXCEPT ![p] = pr] /\ class' = [class EXCEPT ![p] = class[p]]
        BY <1>1, <1>7, <2>6 DEF RtMutexSetPrio, AttrTypes
      <3>2. /\ class[p] \in Queueable /\ (class[p] = "ras" => policy[p] = "RAS")
            /\ RtPolicy(policy[p]) => class[p] = "rt"
        BY <1>1 DEF ClassesOK, RasClassHasRasPolicy, RtPolicyHasRtClass
      <3> HIDE DEF pr
      <3> QED BY <1>1, <2>3, <2>4, <2>5, <3>1, <3>2, AttrStep
    <2>7. CASE pr # prio[p]
      <3>1. /\ prio' = [prio EXCEPT ![p] = pr]
            /\ class' = [class EXCEPT ![p] = ClassByPrio(pr)]
        BY <1>7, <2>7 DEF RtMutexSetPrio, Reclass
      <3> HIDE DEF pr
      <3>2. ClassByPrio(pr) \in Queueable /\ ClassByPrio(pr) # "ras"
        BY ClassChoice DEF Queueable
      <3> QED BY <1>1, <2>3, <2>4, <2>5, <3>1, <3>2, ClassChoice, AttrStep
    <2> QED BY <2>6, <2>7
  <1>8. ASSUME NEW p \in Tasks, NormalizeTask(p) PROVE AttrInv'
    <2> DEFINE pr == PiPrio(staticPrio[p], piTop[p])
    <2>1. pr \in 0 .. MAX_PRIO
      BY <1>1, PiPrioBounds
    <2>2. /\ policy' = [policy EXCEPT ![p] = "NORMAL"] /\ prio' = [prio EXCEPT ![p] = pr]
          /\ class' = [class EXCEPT ![p] = ClassByPrio(pr)]
      BY <1>8 DEF NormalizeTask, Reclass
    <2>3. /\ staticPrio' \in [Tasks -> StaticPrios]
          /\ rtPriority' \in [Tasks -> RtPriorities \cup {0}]
          /\ resetOnFork' \in [Tasks -> BOOLEAN]
          /\ piTop' \in [Tasks -> PiPrios \cup {NoWaiter}]
      BY <1>1, <1>8 DEF NormalizeTask, AttrTypes
    <2>4. "NORMAL" \in AllPolicies /\ ~RtPolicy("NORMAL")
      BY DEF AllPolicies, RtPolicy
    <2> HIDE DEF pr
    <2>5. ClassByPrio(pr) \in Queueable /\ ClassByPrio(pr) # "ras"
      BY ClassChoice DEF Queueable
    <2> QED BY <2>1, <2>2, <2>3, <2>4, <2>5, AttrStep
  <1>9. CASE PrepareToWait \/ FinishWait \/ ScheduleRunning \/ ScheduleAsleep
    BY <1>2, <1>9 DEF PrepareToWait, FinishWait, ScheduleRunning, ScheduleAsleep, taskVars,
                      attrVars
  <1>10. CASE PreemptSchedule \/ Yield \/ SchedulerTick \/ TracedFault \/ UNCHANGED vars
    BY <1>2, <1>10 DEF PreemptSchedule, Yield, SchedulerTick, TracedFault, taskVars, vars,
                      attrVars
  <1>11. ASSUME NEW p \in Tasks, WakeUp(p) \/ WakeUpNewTask(p) \/ StartTrace(p) \/ StopTrace(p)
         PROVE  AttrInv'
    BY <1>2, <1>11 DEF WakeUp, WakeUpNewTask, StartTrace, StopTrace, taskVars, attrVars
  <1> QED BY <1>3, <1>4, <1>5, <1>6, <1>7, <1>8, <1>9, <1>10, <1>11 DEF Next

\* Whatever the calls and their order, a task of the RAS class has the policy
\* SCHED_RAS, which is what task_tick_ras needs to rotate its queue.
THEOREM RasClassTheorem == Spec => []RasClassHasRasPolicy
  <1>1. AttrInv => RasClassHasRasPolicy
    BY DEF AttrInv
  <1>2. AttrInv /\ [Next]_vars => AttrInv'
    BY AttrNext
  <1> QED BY <1>1, <1>2, AttrInit, PTL DEF Spec

\* A task with a real-time policy is in the RT class with a real-time priority,
\* boosted or not.
THEOREM RtPolicyTheorem == Spec => []RtPolicyHasRtClass
  <1>1. AttrInv => RtPolicyHasRtClass
    BY DEF AttrInv
  <1>2. AttrInv /\ [Next]_vars => AttrInv'
    BY AttrNext
  <1> QED BY <1>1, <1>2, AttrInit, PTL DEF Spec

-----------------------------------------------------------------------------
(* The queues, the flags and the running task *)

QueueTypesOK ==
    /\ rq \in RqType
    /\ curr \in Tasks \cup {Idle}
    /\ needResched \in BOOLEAN
    /\ state \in [Tasks -> States]
    /\ onRq \in [Tasks -> BOOLEAN]

\* RunnableIsQueued without the running task.
StatesAgree(st, on) ==
    \A p \in Tasks : /\ st[p] = "running" => on[p]
                     /\ st[p] \in {"unused", "new"} => ~on[p]

QueueInv ==
    /\ QueueTypesOK
    /\ Members(rq, onRq, class) /\ Counted(rq)
    /\ StatesAgree(state, onRq)
    /\ curr \in Tasks => onRq[curr]

\* The preemption decisions are decisions.
LEMMA PreemptBoolean ==
    ASSUME NEW p \in Tasks, NEW cl, NEW pr, cl[p] \in Queueable, needResched \in BOOLEAN
    PROVE  CheckPreemptCurr(p, cl, pr) \subseteq BOOLEAN
  BY DEF CheckPreemptCurr, Queueable

LEMMA ClassChangedBoolean ==
    ASSUME NEW p \in Tasks, NEW cl, NEW pr, cl[p] \in Queueable, needResched \in BOOLEAN
    PROVE  CheckClassChanged(p, cl, pr) \subseteq BOOLEAN
  <1>1. SwitchedTo(p, cl, pr) \subseteq BOOLEAN
    <2>1. CASE cl[p] = "ras"
      <3>1. SwitchedTo(p, cl, pr) = {needResched \/ (onRq[p] /\ curr # p)}
        BY <2>1, Zenon DEF SwitchedTo
      <3> QED BY <3>1
    <2>2. CASE cl[p] = "rt"
      <3>1. SwitchedTo(p, cl, pr)
              = {needResched \/ (onRq[p] /\ curr # p /\ pr[p] < pr[curr])}
        BY <2>2, Zenon DEF SwitchedTo
      <3> QED BY <3>1
    <2>3. CASE cl[p] = "fair"
      <3>1. SwitchedTo(p, cl, pr) = IF ~onRq[p] THEN {needResched}
                                    ELSE IF curr = p THEN {TRUE}
                                    ELSE CheckPreemptCurr(p, cl, pr)
        BY <2>3, Zenon DEF SwitchedTo
      <3> QED BY <3>1, PreemptBoolean
    <2> QED BY <2>1, <2>2, <2>3 DEF Queueable
  <1>2. PrioChanged(p, cl, pr) \subseteq BOOLEAN
    <2>1. CASE cl[p] = "ras"
      <3>1. PrioChanged(p, cl, pr) = {needResched}
        BY <2>1, Zenon DEF PrioChanged
      <3> QED BY <3>1
    <2>2. CASE cl[p] = "rt"
      <3>1. PrioChanged(p, cl, pr)
              = {needResched \/ (onRq[p] /\ IF curr = p THEN prio[p] < pr[p]
                                                        ELSE pr[p] < pr[curr])}
        BY <2>2, Zenon DEF PrioChanged
      <3> QED BY <3>1
    <2>3. CASE cl[p] = "fair"
      <3> DEFINE lower == needResched \/ prio[p] < pr[p]
      <3>1. PrioChanged(p, cl, pr) = IF ~onRq[p] THEN {needResched}
                                     ELSE IF curr = p THEN {lower}
                                     ELSE CheckPreemptCurr(p, cl, pr)
        BY <2>3, Zenon DEF PrioChanged
      <3>2. lower \in BOOLEAN
        OBVIOUS
      <3> HIDE DEF lower
      <3> QED BY <3>1, <3>2, PreemptBoolean
    <2> QED BY <2>1, <2>2, <2>3 DEF Queueable
  <1> QED BY <1>1, <1>2 DEF CheckClassChanged

LEMMA SwitchToStep ==
    ASSUME NEW q \in RqType, Members(q, onRq', class'), Counted(q), SwitchTo(q),
           StatesAgree(state', onRq'),
           state' \in [Tasks -> States], onRq' \in [Tasks -> BOOLEAN]
    PROVE  QueueInv'
  <1>1. rq' = q /\ curr' \in PickNextTask(q) /\ needResched' = FALSE
    BY DEF SwitchTo
  <1>2. curr' = Idle \/ (curr' \in Tasks /\ onRq'[curr'])
    BY <1>1, PickQueued
  <1>3. QueueTypesOK'
    BY <1>1, <1>2 DEF QueueTypesOK
  <1>4. curr' \in Tasks => onRq'[curr']
    BY <1>2, IdleAssumption
  <1> QED BY <1>1, <1>3, <1>4 DEF QueueInv

LEMMA ReclassStep ==
    ASSUME QueueInv, AttrInv, NEW p \in Tasks, NEW c \in Queueable, NEW pr,
           NEW head \in BOOLEAN, NEW need \in BOOLEAN, Reclass(p, c, pr, head, need),
           UNCHANGED <<curr, state, onRq>>
    PROVE  QueueInv'
  <1>1. /\ rq \in RqType /\ onRq \in [Tasks -> BOOLEAN] /\ needResched \in BOOLEAN
        /\ class \in [Tasks \cup {Idle} -> Classes] /\ class[p] \in Queueable
        /\ Members(rq, onRq, class) /\ Counted(rq)
    BY DEF QueueInv, QueueTypesOK, AttrInv, AttrTypes, ClassesOK
  <1>2. /\ rq' = IF onRq[p] THEN Enqueue(Dequeue(rq, p, class[p]), p, c, head) ELSE rq
        /\ class' = [class EXCEPT ![p] = c]
        /\ \E r \in CheckClassChanged(p, class', prio') : needResched' = (r \/ need)
    BY DEF Reclass
  <1>3. /\ rq' \in RqType /\ Counted(rq')
        /\ Members(rq', onRq, [class EXCEPT ![p] = c])
    BY <1>1, <1>2, ReclassConsistent, Zenon
  <1>4. class'[p] = c
    BY <1>1, <1>2
  <1>5. CheckClassChanged(p, class', prio') \subseteq BOOLEAN
    BY <1>1, <1>4, ClassChangedBoolean
  <1>6. needResched' \in BOOLEAN
    BY <1>2, <1>5
  <1> QED BY <1>2, <1>3, <1>6 DEF QueueInv, QueueTypesOK

LEMMA QueueInit == Init => QueueInv
  <1> SUFFICES ASSUME Init PROVE QueueInv
    OBVIOUS
  <1>1. PICK t \in Tasks :
          /\ rq = [ras |-> <<>>, rasNrRunning |-> 0, rt |-> <<>>, fair |-> {t}, nrRunning |-> 1]
          /\ curr = t /\ needResched = FALSE
          /\ state = [p \in Tasks |-> IF p = t THEN "running" ELSE "unused"]
          /\ onRq = [p \in Tasks |-> p = t]
          /\ class = [p \in Tasks \cup {Idle} |-> IF p = Idle THEN "idle" ELSE "fair"]
    BY DEF Init
  <1>2. QueueTypesOK
    <2>1. <<>> \in Seq(Tasks) /\ {t} \in SUBSET Tasks /\ 0 \in Int /\ 1 \in Int
      OBVIOUS
    <2>2. rq \in RqType
      BY <1>1, <2>1 DEF RqType
    <2>3. state \in [Tasks -> States] /\ onRq \in [Tasks -> BOOLEAN]
      BY <1>1 DEF States
    <2> QED BY <1>1, <2>2, <2>3 DEF QueueTypesOK
  <1>3. Len(<<>>) = 0 /\ Range(<<>>) = {} /\ IsInjective(<<>>)
    BY RangeProperties DEF Range, IsInjective
  <1>4. /\ rq.ras = <<>> /\ rq.rt = <<>> /\ rq.fair = {t}
        /\ rq.rasNrRunning = 0 /\ rq.nrRunning = 1
    BY <1>1
  <1>5. \A p \in Tasks : class[p] = "fair" /\ (onRq[p] <=> p = t)
    BY <1>1, IdleAssumption
  <1>6. Members(rq, onRq, class)
    BY <1>3, <1>4, <1>5 DEF Members
  <1>7. Counted(rq)
    <2>1. IsFiniteSet({t}) /\ Cardinality({t}) = 1
      BY FS_Singleton
    <2> QED BY <1>3, <1>4, <2>1 DEF Counted
  <1>8. StatesAgree(state, onRq)
    BY <1>1 DEF StatesAgree
  <1> QED BY <1>1, <1>2, <1>5, <1>6, <1>7, <1>8 DEF QueueInv

\* A step that leaves the queues, the classes and the running task alone.
LEMMA StateStep ==
    ASSUME QueueInv, UNCHANGED <<rq, curr, needResched, onRq, class>>,
           state' \in [Tasks -> States], StatesAgree(state', onRq)
    PROVE  QueueInv'
  BY DEF QueueInv, QueueTypesOK

LEMMA QueueNext ==
    ASSUME QueueInv, AttrInv, [Next]_vars
    PROVE  QueueInv'
  <1>1. /\ rq \in RqType /\ onRq \in [Tasks -> BOOLEAN] /\ needResched \in BOOLEAN
        /\ state \in [Tasks -> States] /\ curr \in Tasks \cup {Idle}
        /\ class \in [Tasks \cup {Idle} -> Classes]
        /\ class[Idle] = "idle"
        /\ \A p \in Tasks : class[p] \in Queueable /\ [class EXCEPT ![p] = class[p]] = class
        /\ Members(rq, onRq, class) /\ Counted(rq) /\ StatesAgree(state, onRq)
        /\ curr \in Tasks => onRq[curr]
    BY DEF QueueInv, QueueTypesOK, AttrInv, AttrTypes, ClassesOK
  <1>2. CASE UNCHANGED vars
    BY <1>1, <1>2, StateStep DEF vars
  <1>3. CASE PrepareToWait
    <2>1. /\ curr \in Tasks
          /\ state' = [state EXCEPT ![curr] = "sleeping"]
          /\ UNCHANGED <<rq, curr, needResched, onRq, class>>
      BY <1>3 DEF PrepareToWait, InSyscall
    <2>2. state' \in [Tasks -> States] /\ StatesAgree(state', onRq)
      BY <1>1, <2>1 DEF StatesAgree, States
    <2> QED BY <2>1, <2>2, StateStep
  <1>4. CASE FinishWait
    <2>1. /\ curr \in Tasks
          /\ state' = [state EXCEPT ![curr] = "running"]
          /\ UNCHANGED <<rq, curr, needResched, onRq, class>>
      BY <1>4 DEF FinishWait
    <2>2. state' \in [Tasks -> States] /\ StatesAgree(state', onRq)
      BY <1>1, <2>1 DEF StatesAgree, States
    <2> QED BY <2>1, <2>2, StateStep
  <1>5. CASE ScheduleRunning
    <2>1. /\ curr \in Tasks /\ SwitchTo(rq) /\ onRq' = onRq /\ class' = class
          /\ state' = [state EXCEPT ![curr] = "running"]
      BY <1>5 DEF ScheduleRunning
    <2>2. state' \in [Tasks -> States] /\ StatesAgree(state', onRq)
      BY <1>1, <2>1 DEF StatesAgree, States
    <2> QED BY <1>1, <2>1, <2>2, SwitchToStep
  <1>6. CASE ScheduleAsleep
    <2>1. /\ curr \in Tasks /\ state[curr] = "sleeping"
          /\ SwitchTo(Dequeue(rq, curr, class[curr]))
          /\ onRq' = [onRq EXCEPT ![curr] = FALSE] /\ class' = class /\ state' = state
      BY <1>6 DEF ScheduleAsleep
    <2>2. /\ Dequeue(rq, curr, class[curr]) \in RqType
          /\ Members(Dequeue(rq, curr, class[curr]), onRq', class')
          /\ Counted(Dequeue(rq, curr, class[curr]))
      BY <1>1, <2>1, DequeueConsistent
    <2>3. onRq' \in [Tasks -> BOOLEAN] /\ StatesAgree(state', onRq')
      BY <1>1, <2>1 DEF StatesAgree
    <2> QED BY <1>1, <2>1, <2>2, <2>3, SwitchToStep
  <1>7. CASE PreemptSchedule
    <2>1. SwitchTo(rq) /\ onRq' = onRq /\ class' = class /\ state' = state
      BY <1>7 DEF PreemptSchedule
    <2> QED BY <1>1, <2>1, SwitchToStep
  <1>8. CASE Yield
    <2> DEFINE q == CASE class[curr] = "ras"  -> RequeueRas(rq, curr)
                      [] class[curr] = "rt"   -> RequeueRt(rq, curr)
                      [] class[curr] = "fair" -> rq
    <2>1. /\ curr \in Tasks /\ SwitchTo(q)
          /\ onRq' = onRq /\ class' = class /\ state' = state
      BY <1>8 DEF Yield, InSyscall
    <2>2. /\ class[curr] = "ras" => q = RequeueRas(rq, curr)
          /\ class[curr] = "rt" => q = RequeueRt(rq, curr)
          /\ class[curr] = "fair" => q = rq
      BY Zenon
    <2> HIDE DEF q
    <2>3. q \in RqType /\ Members(q, onRq, class) /\ Counted(q)
      <3>1. CASE class[curr] = "ras"
        BY <1>1, <2>1, <2>2, <3>1, RequeueRasConsistent
      <3>2. CASE class[curr] = "rt"
        BY <1>1, <2>1, <2>2, <3>2, RequeueRtConsistent
      <3>3. CASE class[curr] = "fair"
        BY <1>1, <2>2, <3>3
      <3> QED BY <1>1, <2>1, <3>1, <3>2, <3>3 DEF Queueable
    <2> QED BY <1>1, <2>1, <2>3, SwitchToStep
  <1>9. CASE Exit
    <2> DEFINE q == Dequeue(rq, curr, class[curr])
    <2>1. /\ curr \in Tasks /\ SwitchTo(q)
          /\ state' = [state EXCEPT ![curr] = "unused"]
          /\ onRq' = [onRq EXCEPT ![curr] = FALSE]
          /\ class' = [class EXCEPT ![curr] = "fair"]
      BY <1>9 DEF Exit, InSyscall
    <2>2. q \in RqType /\ Members(q, onRq', class) /\ Counted(q)
      BY <1>1, <2>1, DequeueConsistent
    <2> HIDE DEF q
    <2>3. ~onRq'[curr] /\ \A r \in Tasks \ {curr} : class'[r] = class[r]
      BY <1>1, <2>1
    <2>4. Members(q, onRq', class')
      BY <2>2, <2>3 DEF Members
    <2>5. /\ state' \in [Tasks -> States] /\ onRq' \in [Tasks -> BOOLEAN]
          /\ StatesAgree(state', onRq')
      BY <1>1, <2>1 DEF StatesAgree, States
    <2> QED BY <2>1, <2>2, <2>4, <2>5, SwitchToStep
  <1>10. CASE SchedulerTick
    <2>1. UNCHANGED <<curr, state, onRq, class>>
      BY <1>10 DEF SchedulerTick
    <2>2. curr \in Tasks /\ rq' \in {rq, RequeueRas(rq, curr), RequeueRt(rq, curr)}
          /\ needResched' \in BOOLEAN
      <3>1. CASE TaskTickRas
        BY <1>1, <3>1 DEF TaskTickRas
      <3>2. CASE TaskTickRt
        BY <1>1, <3>2 DEF TaskTickRt
      <3>3. CASE TaskTickFair
        BY <1>1, <3>3 DEF TaskTickFair
      <3> QED BY <1>10, <3>1, <3>2, <3>3 DEF SchedulerTick
    <2>3. rq' \in RqType /\ Members(rq', onRq, class) /\ Counted(rq')
      BY <1>1, <2>2, RequeueRasConsistent, RequeueRtConsistent
    <2> QED BY <1>1, <2>1, <2>2, <2>3 DEF QueueInv, QueueTypesOK
  <1>11. CASE TracedFault
    BY <1>1, <1>11, StateStep DEF TracedFault
  <1>12. ASSUME NEW p \in Tasks, StartTrace(p) \/ StopTrace(p) PROVE QueueInv'
    BY <1>1, <1>12, StateStep DEF StartTrace, StopTrace
  <1>13. ASSUME NEW p \in Tasks, WakeUp(p) PROVE QueueInv'
    <2>1. /\ rq' = IF onRq[p] THEN rq ELSE Enqueue(rq, p, class[p], FALSE)
          /\ onRq' = [onRq EXCEPT ![p] = TRUE]
          /\ needResched' \in CheckPreemptCurr(p, class, prio)
          /\ state' = [state EXCEPT ![p] = "running"]
          /\ curr' = curr /\ class' = class
      BY <1>13 DEF WakeUp
    <2>2. rq' \in RqType /\ Members(rq', onRq', class) /\ Counted(rq')
      <3>1. CASE onRq[p]
        <4>1. onRq' = onRq
          BY <1>1, <2>1, <3>1
        <4> QED BY <1>1, <2>1, <3>1, <4>1
      <3>2. CASE ~onRq[p]
        <4>1. /\ Enqueue(rq, p, class[p], FALSE) \in RqType
              /\ Counted(Enqueue(rq, p, class[p], FALSE))
              /\ Members(Enqueue(rq, p, class[p], FALSE), [onRq EXCEPT ![p] = TRUE],
                         [class EXCEPT ![p] = class[p]])
          BY <1>1, <3>2, EnqueueConsistent
        <4> QED BY <1>1, <2>1, <3>2, <4>1, Zenon
      <3> QED BY <3>1, <3>2
    <2>3. needResched' \in BOOLEAN
      BY <1>1, <2>1, PreemptBoolean
    <2>4. /\ state' \in [Tasks -> States] /\ onRq' \in [Tasks -> BOOLEAN]
          /\ StatesAgree(state', onRq')
      BY <1>1, <2>1 DEF StatesAgree, States
    <2>5. curr' \in Tasks => onRq'[curr']
      BY <1>1, <2>1
    <2> QED BY <1>1, <2>1, <2>2, <2>3, <2>4, <2>5 DEF QueueInv, QueueTypesOK
  <1>14. ASSUME NEW c \in Tasks, SchedFork(c) PROVE QueueInv'
    <2>1. /\ UNCHANGED <<rq, curr, needResched, onRq>>
          /\ state[c] = "unused" /\ state' = [state EXCEPT ![c] = "new"]
      BY <1>14 DEF SchedFork
    <2>2. \A r \in Tasks \ {c} : class'[r] = class[r]
      BY <1>1, <1>14 DEF SchedFork
    <2>3. ~onRq[c]
      BY <1>1, <2>1 DEF StatesAgree
    <2>4. Members(rq, onRq, class')
      BY <1>1, <2>2, <2>3 DEF Members
    <2>5. state' \in [Tasks -> States] /\ StatesAgree(state', onRq)
      BY <1>1, <2>1 DEF StatesAgree, States
    <2> QED BY <1>1, <2>1, <2>4, <2>5 DEF QueueInv, QueueTypesOK
  <1>15. ASSUME NEW c \in Tasks, WakeUpNewTask(c) PROVE QueueInv'
    <2>1. /\ rq' = Enqueue(rq, c, class[c], FALSE)
          /\ onRq' = [onRq EXCEPT ![c] = TRUE]
          /\ needResched' \in CheckPreemptCurr(c, class, prio)
          /\ state[c] = "new" /\ state' = [state EXCEPT ![c] = "running"]
          /\ curr' = curr /\ class' = class
      BY <1>15 DEF WakeUpNewTask
    <2>2. ~onRq[c]
      BY <1>1, <2>1 DEF StatesAgree
    <2>3. /\ Enqueue(rq, c, class[c], FALSE) \in RqType
          /\ Counted(Enqueue(rq, c, class[c], FALSE))
          /\ Members(Enqueue(rq, c, class[c], FALSE), [onRq EXCEPT ![c] = TRUE],
                     [class EXCEPT ![c] = class[c]])
      BY <1>1, <2>2, EnqueueConsistent
    <2>4. rq' \in RqType /\ Members(rq', onRq', class) /\ Counted(rq')
      BY <1>1, <2>1, <2>3, Zenon
    <2>5. needResched' \in BOOLEAN
      BY <1>1, <2>1, PreemptBoolean
    <2>6. /\ state' \in [Tasks -> States] /\ onRq' \in [Tasks -> BOOLEAN]
          /\ StatesAgree(state', onRq') /\ (curr' \in Tasks => onRq'[curr'])
      BY <1>1, <2>1 DEF StatesAgree, States
    <2> QED BY <1>1, <2>1, <2>4, <2>5, <2>6 DEF QueueInv, QueueTypesOK
  <1>16. ASSUME NEW p \in Tasks, NEW pol \in Policies, NEW rtp \in RtPriorities \cup {0},
                NEW reset \in ResetFlags, SetScheduler(p, pol, rtp, reset)
         PROVE  QueueInv'
    <2> DEFINE pr == PiPrio(NormalPrioOf(pol, rtp, staticPrio[p]), piTop[p])
    <2>1. /\ Reclass(p, SchedClass(pol, pr), pr, FALSE, FALSE)
          /\ UNCHANGED <<curr, state, onRq>>
      BY <1>16 DEF SetScheduler
    <2> HIDE DEF pr
    <2>2. SchedClass(pol, pr) \in Queueable
      BY ClassChoice
    <2> QED BY <2>1, <2>2, ReclassStep
  <1>17. ASSUME NEW p \in Tasks, NEW top \in PiPrios \cup {NoWaiter}, RtMutexSetPrio(p, top)
         PROVE  QueueInv'
    <2> DEFINE pr == PiPrio(NormalPrio(p), top)
               lower == prio[p] < pr
    <2>1. UNCHANGED <<curr, state, onRq>>
      BY <1>17 DEF RtMutexSetPrio
    <2>2. CASE pr = prio[p]
      <3>1. UNCHANGED <<rq, class, needResched>>
        BY <1>17, <2>2 DEF RtMutexSetPrio
      <3> QED BY <1>1, <2>1, <3>1, StateStep
    <2>3. CASE pr # prio[p]
      <3>1. Reclass(p, ClassByPrio(pr), pr, lower, FALSE)
        BY <1>17, <2>3 DEF RtMutexSetPrio
      <3>2. lower \in BOOLEAN
        OBVIOUS
      <3> HIDE DEF pr, lower
      <3>3. ClassByPrio(pr) \in Queueable
        BY ClassChoice DEF Queueable
      <3> QED BY <2>1, <3>1, <3>2, <3>3, ReclassStep
    <2> QED BY <2>2, <2>3
  <1>18. ASSUME NEW p \in Tasks, NormalizeTask(p) PROVE QueueInv'
    <2> DEFINE pr == PiPrio(staticPrio[p], piTop[p])
    <2>1. /\ Reclass(p, ClassByPrio(pr), pr, FALSE, onRq[p])
          /\ UNCHANGED <<curr, state, onRq>>
      BY <1>18 DEF NormalizeTask
    <2> HIDE DEF pr
    <2>2. ClassByPrio(pr) \in Queueable
      BY ClassChoice DEF Queueable
    <2>3. onRq[p] \in BOOLEAN
      BY <1>1
    <2> QED BY <2>1, <2>2, <2>3, ReclassStep
  <1>19. ASSUME NEW p \in Tasks, NEW sp \in StaticPrios, SetUserNice(p, sp) PROVE QueueInv'
    <2>1. UNCHANGED <<curr, state, onRq, class>>
      BY <1>19 DEF SetUserNice
    <2>2. CASE RtPolicy(policy[p])
      <3>1. UNCHANGED <<rq, needResched>>
        BY <1>19, <2>2 DEF SetUserNice
      <3> QED BY <1>1, <2>1, <3>1, StateStep
    <2>3. CASE ~RtPolicy(policy[p])
      <3>1. /\ rq' = IF onRq[p] THEN Enqueue(Dequeue(rq, p, class[p]), p, class[p], FALSE)
                     ELSE rq
            /\ needResched' \in BOOLEAN
        BY <1>19, <2>3 DEF SetUserNice
      <3>2. /\ rq' \in RqType /\ Counted(rq')
            /\ Members(rq', onRq, [class EXCEPT ![p] = class[p]])
        BY <1>1, <3>1, ReclassConsistent
      <3>3. Members(rq', onRq, class)
        BY <1>1, <3>2
      <3> QED BY <1>1, <2>1, <3>1, <3>2, <3>3 DEF QueueInv, QueueTypesOK
    <2> QED BY <2>2, <2>3
  <1> QED BY <1>2, <1>3, <1>4, <1>5, <1>6, <1>7, <1>8, <1>9, <1>10, <1>11, <1>12, <1>13,
             <1>14, <1>15, <1>16, <1>17, <1>18, <1>19 DEF Next

-----------------------------------------------------------------------------
(* The theorems about the queues *)

\* The variables no other one depends on.
RestTypes ==
    /\ parent \in [Tasks -> Tasks]
    /\ DOMAIN timeSlice = Tasks
    /\ traceFlag \in [Tasks -> BOOLEAN]
    /\ wcounts \in [Tasks -> 0 .. MaxWrites]

LEMMA RestInit == Init => RestTypes
  BY SliceAssumption DEF Init, RestTypes

LEMMA RestNext ==
    ASSUME RestTypes, [Next]_vars
    PROVE  RestTypes'
  <1>1. 0 \in 0 .. MaxWrites /\ MaxWrites \in Nat
    BY SliceAssumption
  <1>2. CASE UNCHANGED <<parent, timeSlice, traceFlag, wcounts>>
    BY <1>2 DEF RestTypes
  <1>3. CASE PrepareToWait \/ FinishWait \/ ScheduleRunning \/ ScheduleAsleep
    BY <1>2, <1>3 DEF PrepareToWait, FinishWait, ScheduleRunning, ScheduleAsleep, taskVars,
                      traceVars
  <1>4. CASE PreemptSchedule \/ Yield \/ UNCHANGED vars
    BY <1>2, <1>4 DEF PreemptSchedule, Yield, taskVars, traceVars, vars
  <1>5. CASE Exit
    BY <1>1, <1>5 DEF Exit, RestTypes
  <1>6. CASE SchedulerTick
    BY <1>6 DEF SchedulerTick, TaskTickRas, TaskTickRt, TaskTickFair, RestTypes, taskVars
  <1>7. CASE TracedFault
    <2>1. /\ UNCHANGED <<parent, timeSlice, traceFlag>>
          /\ curr \in Tasks /\ wcounts[curr] < MaxWrites
          /\ wcounts' = [wcounts EXCEPT ![curr] = wcounts[curr] + 1]
      BY <1>7 DEF TracedFault, InSyscall, taskVars
    <2>2. wcounts[curr] + 1 \in 0 .. MaxWrites
      BY <1>1, <2>1 DEF RestTypes
    <2> QED BY <2>1, <2>2 DEF RestTypes
  <1>8. ASSUME NEW p \in Tasks, WakeUp(p) \/ NormalizeTask(p) PROVE RestTypes'
    BY <1>2, <1>8 DEF WakeUp, NormalizeTask, taskVars, traceVars
  <1>9. ASSUME NEW p \in Tasks, SchedFork(p) PROVE RestTypes'
    <2>1. curr \in Tasks
      BY <1>9 DEF SchedFork, InSyscall
    <2>2. /\ parent' = [parent EXCEPT ![p] = curr]
          /\ timeSlice' = [timeSlice EXCEPT ![p] = timeSlice[curr]]
          /\ traceFlag' = [traceFlag EXCEPT ![p] = traceFlag[curr]]
          /\ wcounts' = [wcounts EXCEPT ![p] = wcounts[curr]]
      BY <1>9 DEF SchedFork
    <2> QED BY <2>1, <2>2 DEF RestTypes
  <1>10. ASSUME NEW p \in Tasks, WakeUpNewTask(p) PROVE RestTypes'
    BY <1>10 DEF WakeUpNewTask, RestTypes, traceVars
  <1>11. ASSUME NEW p \in Tasks, StartTrace(p) \/ StopTrace(p) PROVE RestTypes'
    <2>1. /\ parent' = parent /\ timeSlice' = timeSlice
          /\ wcounts' = [wcounts EXCEPT ![p] = 0]
      BY <1>11 DEF StartTrace, StopTrace, taskVars
    <2>2. \/ traceFlag' = [traceFlag EXCEPT ![p] = TRUE]
          \/ traceFlag' = [traceFlag EXCEPT ![p] = FALSE]
      BY <1>11 DEF StartTrace, StopTrace
    <2> QED BY <1>1, <2>1, <2>2 DEF RestTypes
  <1>12. ASSUME NEW p \in Tasks, NEW pol \in Policies, NEW rtp \in RtPriorities \cup {0},
                NEW reset \in ResetFlags, SetScheduler(p, pol, rtp, reset)
         PROVE  RestTypes'
    BY <1>2, <1>12 DEF SetScheduler, traceVars
  <1>13. ASSUME NEW p \in Tasks, NEW sp \in StaticPrios, SetUserNice(p, sp) PROVE RestTypes'
    BY <1>2, <1>13 DEF SetUserNice, traceVars
  <1>14. ASSUME NEW p \in Tasks, NEW top \in PiPrios \cup {NoWaiter}, RtMutexSetPrio(p, top)
         PROVE  RestTypes'
    BY <1>2, <1>14 DEF RtMutexSetPrio, traceVars
  <1> QED BY <1>3, <1>4, <1>5, <1>6, <1>7, <1>8, <1>9, <1>10, <1>11, <1>12, <1>13, <1>14
          DEF Next

IInv == AttrInv /\ QueueInv /\ RestTypes

LEMMA IInvariant == Spec => []IInv
  <1>1. Init => IInv
    BY AttrInit, QueueInit, RestInit DEF IInv
  <1>2. IInv /\ [Next]_vars => IInv'
    BY AttrNext, QueueNext, RestNext DEF IInv
  <1> QED BY <1>1, <1>2, PTL DEF Spec

\* Every variable keeps its type.
THEOREM TypeCorrect == Spec => []TypeOK
  <1>1. IInv => TypeOK
    BY DEF IInv, AttrInv, AttrTypes, QueueInv, QueueTypesOK, RqType, RestTypes, TypeOK
  <1> QED BY <1>1, IInvariant, PTL

\* The lists, the on_rq flags, the classes and the counters of the run queue
\* never disagree, through every enqueue, dequeue, requeue and change of class.
THEOREM QueuesConsistent == Spec => []RqConsistent
  <1>1. IInv => RqConsistent
    BY Zenon DEF IInv, QueueInv, Members, Counted, RqConsistent
  <1> QED BY <1>1, IInvariant, PTL

\* No wake-up is lost: what is in state TASK_RUNNING, and what runs, is queued.
THEOREM RunnableQueued == Spec => []RunnableIsQueued
  <1>1. IInv => RunnableIsQueued
    BY Zenon DEF IInv, QueueInv, QueueTypesOK, StatesAgree, RunnableIsQueued, Live
  <1> QED BY <1>1, IInvariant, PTL


-----------------------------------------------------------------------------
(* What the action properties need beyond IInv *)

\* A task of the fair class is not boosted to a real-time priority, an unused
\* task_struct is one of the fair class, and idle keeps its priority.
ClassInv ==
    /\ \A p \in Tasks : class[p] = "fair" => ~RtPrio(prio[p])
    /\ \A p \in Tasks : state[p] = "unused" => class[p] = "fair"
    /\ prio[Idle] = MAX_PRIO

LEMMA ClassInit == Init => ClassInv
  BY IdleAssumption, PrioAssumption DEF Init, ClassInv, RtPrio

\* A step that gives one task a class and a priority that fit.
LEMMA ClassStep ==
    ASSUME AttrInv, ClassInv, NEW p \in Tasks, NEW c, NEW pr,
           class' = [class EXCEPT ![p] = c], prio' = [prio EXCEPT ![p] = pr],
           c = "fair" => ~RtPrio(pr),
           state'[p] = "unused" => c = "fair",
           \A r \in Tasks \ {p} : state'[r] = state[r]
    PROVE  ClassInv'
  <1>1. /\ class'[p] = c /\ prio'[p] = pr
        /\ \A r \in Tasks \ {p} : class'[r] = class[r] /\ prio'[r] = prio[r]
        /\ prio'[Idle] = prio[Idle]
    BY IdleAssumption DEF AttrInv, AttrTypes
  <1> QED BY <1>1 DEF ClassInv, RtPrio

\* A step that changes neither class nor priority, and leaves no task unused.
LEMMA ClassSame ==
    ASSUME ClassInv, UNCHANGED <<class, prio>>,
           \A r \in Tasks : state'[r] = "unused" => state[r] = "unused"
    PROVE  ClassInv'
  BY DEF ClassInv, RtPrio

\* The class that follows from the priority fits it.
LEMMA ClassFits ==
    ASSUME NEW pol, NEW pr
    PROVE  /\ ClassByPrio(pr) = "fair" => ~RtPrio(pr)
           /\ SchedClass(pol, pr) = "fair" => ~RtPrio(pr)
  BY DEF ClassByPrio, SchedClass

\* What sched_fork gives the child: the fair class and a priority that fits, or
\* the class of a parent with a real-time policy.
LEMMA ForkFacts ==
    ASSUME AttrInv, NEW c \in Tasks, SchedFork(c)
    PROVE  \E cl \in {"rt", "fair"}, pr \in 0 .. MAX_PRIO :
              /\ class' = [class EXCEPT ![c] = cl] /\ prio' = [prio EXCEPT ![c] = pr]
              /\ cl = "fair" => ~RtPrio(pr)
              /\ staticPrio'[c] = pr \/ cl = "rt"
              /\ cl = "rt" => class[curr] = "rt"
  <1>1. /\ AttrTypes /\ RtPolicyHasRtClass
        /\ NICE_0_PRIO \in StaticPrios
        /\ \A p \in Tasks : staticPrio[p] \in StaticPrios
                            /\ rtPriority[p] \in RtPriorities \cup {0}
    BY PrioAssumption DEF AttrInv, AttrTypes
  <1> DEFINE t == curr
             revert == resetOnFork[t]
             sp  == IF revert /\ (RtPolicy(policy[t]) \/ staticPrio[t] < NICE_0_PRIO)
                    THEN NICE_0_PRIO ELSE staticPrio[t]
             pr  == IF revert THEN sp ELSE NormalPrio(t)
             cl  == ForkClass(t, pr)
  <1>2. t \in Tasks
    BY DEF SchedFork, InSyscall
  <1>3. sp \in StaticPrios
    BY <1>1, <1>2
  <1>4. NormalPrio(t) \in 0 .. MAX_PRIO
    BY <1>1, <1>2, NormalPrioBounds DEF NormalPrio
  <1>5. ~RtPolicy(policy[t]) => NormalPrio(t) = staticPrio[t]
    BY DEF NormalPrio, NormalPrioOf
  <1>6. pr \in 0 .. MAX_PRIO
    BY <1>3, <1>4, NiceNotRt
  <1>7. RtPrio(pr) => RtPolicy(policy[t])
    BY <1>1, <1>2, <1>3, <1>5, NiceNotRt
  <1>8. cl \in {"rt", "fair"} /\ (cl = "fair" => ~RtPrio(pr))
    BY <1>1, <1>2, <1>7 DEF ForkClass, RtPolicyHasRtClass
  <1>9. class' = [class EXCEPT ![c] = cl] /\ prio' = [prio EXCEPT ![c] = pr]
    BY DEF SchedFork
  <1>10. staticPrio'[c] = sp
    BY <1>1 DEF SchedFork, AttrTypes
  <1>11. sp = pr \/ cl = "rt"
    <2>1. CASE revert
      BY <2>1
    <2>2. CASE ~revert
      <3>1. sp = staticPrio[t] /\ pr = NormalPrio(t)
        BY <2>2
      <3>2. CASE ~RtPolicy(policy[t])
        BY <3>1, <3>2, <1>5
      <3>3. CASE RtPolicy(policy[t])
        <4>1. RtPrio(pr)
          BY <3>1, <3>3, <1>1, <1>2, NormalPrioBounds DEF NormalPrio
        <4>2. class[t] = "rt"
          BY <3>3, <1>1, <1>2 DEF RtPolicyHasRtClass
        <4> QED BY <4>1, <4>2 DEF ForkClass
      <3> QED BY <3>2, <3>3
    <2> QED BY <2>1, <2>2
  <1>12. cl = "rt" => class[curr] = "rt"
    BY DEF ForkClass
  <1> HIDE DEF sp, pr, cl
  <1> QED BY <1>6, <1>8, <1>9, <1>10, <1>11, <1>12

LEMMA ClassNext ==
    ASSUME IInv, ClassInv, [Next]_vars
    PROVE  ClassInv'
  <1>1. /\ AttrInv /\ AttrTypes
        /\ state \in [Tasks -> States]
        /\ NICE_0_PRIO \in StaticPrios
        /\ \A p \in Tasks : staticPrio[p] \in StaticPrios
    BY PrioAssumption DEF IInv, AttrInv, AttrTypes, QueueInv, QueueTypesOK
  <1>2. CASE PrepareToWait \/ FinishWait \/ ScheduleRunning \/ ScheduleAsleep
    BY <1>1, <1>2, ClassSame DEF PrepareToWait, FinishWait, ScheduleRunning, ScheduleAsleep
  <1>3. CASE PreemptSchedule \/ Yield \/ SchedulerTick \/ TracedFault \/ UNCHANGED vars
    <2>1. UNCHANGED <<class, prio, state>>
      BY <1>3, Zenon DEF PreemptSchedule, Yield, SchedulerTick, TracedFault, vars
    <2> QED BY <2>1, ClassSame
  <1>4. ASSUME NEW p \in Tasks, WakeUp(p) \/ WakeUpNewTask(p) \/ StartTrace(p) \/ StopTrace(p)
        PROVE  ClassInv'
    BY <1>1, <1>4, ClassSame DEF WakeUp, WakeUpNewTask, StartTrace, StopTrace
  <1>5. CASE Exit
    <2>1. /\ curr \in Tasks
          /\ class' = [class EXCEPT ![curr] = "fair"]
          /\ prio' = [prio EXCEPT ![curr] = NICE_0_PRIO]
          /\ state' = [state EXCEPT ![curr] = "unused"]
      BY <1>5 DEF Exit, InSyscall
    <2>2. ~RtPrio(NICE_0_PRIO)
      BY <1>1, NiceNotRt
    <2>3. \A r \in Tasks \ {curr} : state'[r] = state[r]
      BY <1>1, <2>1
    <2> QED BY <1>1, <2>1, <2>2, <2>3, ClassStep
  <1>6. ASSUME NEW c \in Tasks, SchedFork(c) PROVE ClassInv'
    <2>1. PICK cl \in {"rt", "fair"}, pr \in 0 .. MAX_PRIO :
              /\ class' = [class EXCEPT ![c] = cl] /\ prio' = [prio EXCEPT ![c] = pr]
              /\ cl = "fair" => ~RtPrio(pr)
      BY <1>1, <1>6, ForkFacts
    <2>2. state' = [state EXCEPT ![c] = "new"]
      BY <1>6 DEF SchedFork
    <2>3. state'[c] # "unused" /\ \A r \in Tasks \ {c} : state'[r] = state[r]
      BY <1>1, <2>2
    <2> QED BY <1>1, <2>1, <2>3, ClassStep
  <1>7. ASSUME NEW p \in Tasks, NEW pol \in Policies, NEW rtp \in RtPriorities \cup {0},
               NEW reset \in ResetFlags, SetScheduler(p, pol, rtp, reset)
        PROVE  ClassInv'
    <2> DEFINE pr == PiPrio(NormalPrioOf(pol, rtp, staticPrio[p]), piTop[p])
    <2>1. /\ prio' = [prio EXCEPT ![p] = pr]
          /\ class' = [class EXCEPT ![p] = SchedClass(pol, pr)]
          /\ state' = state /\ state[p] # "unused"
      BY <1>7 DEF SetScheduler, Reclass
    <2> HIDE DEF pr
    <2> QED BY <1>1, <2>1, ClassFits, ClassStep
  <1>8. ASSUME NEW p \in Tasks, NEW top \in PiPrios \cup {NoWaiter}, RtMutexSetPrio(p, top)
        PROVE  ClassInv'
    <2> DEFINE pr == PiPrio(NormalPrio(p), top)
    <2>1. state' = state /\ state[p] # "unused"
      BY <1>8 DEF RtMutexSetPrio, Live
    <2>2. CASE pr = prio[p]
      BY <1>8, <2>1, <2>2, ClassSame DEF RtMutexSetPrio
    <2>3. CASE pr # prio[p]
      <3>1. /\ prio' = [prio EXCEPT ![p] = pr]
            /\ class' = [class EXCEPT ![p] = ClassByPrio(pr)]
        BY <1>8, <2>3 DEF RtMutexSetPrio, Reclass
      <3> HIDE DEF pr
      <3> QED BY <1>1, <2>1, <3>1, ClassFits, ClassStep
    <2> QED BY <2>2, <2>3
  <1>9. ASSUME NEW p \in Tasks, NormalizeTask(p) PROVE ClassInv'
    <2> DEFINE pr == PiPrio(staticPrio[p], piTop[p])
    <2>1. /\ prio' = [prio EXCEPT ![p] = pr]
          /\ class' = [class EXCEPT ![p] = ClassByPrio(pr)]
          /\ state' = state /\ state[p] # "unused"
      BY <1>9 DEF NormalizeTask, Reclass, Live
    <2> HIDE DEF pr
    <2> QED BY <1>1, <2>1, ClassFits, ClassStep
  <1>10. ASSUME NEW p \in Tasks, NEW sp \in StaticPrios, SetUserNice(p, sp) PROVE ClassInv'
    <2>1. class' = class /\ state' = state /\ state[p] # "unused"
      BY <1>10 DEF SetUserNice
    <2>2. CASE RtPolicy(policy[p])
      BY <1>10, <2>1, <2>2, ClassSame DEF SetUserNice
    <2>3. CASE ~RtPolicy(policy[p])
      <3> DEFINE pr == IF RtPrio(prio[p]) THEN prio[p] ELSE sp
      <3>1. prio' = [prio EXCEPT ![p] = pr] /\ class' = [class EXCEPT ![p] = class[p]]
        BY <1>1, <1>10, <2>1, <2>3 DEF SetUserNice, AttrTypes
      <3>2. class[p] = "fair" => ~RtPrio(pr)
        BY NiceNotRt DEF ClassInv
      <3> HIDE DEF pr
      <3> QED BY <1>1, <2>1, <3>1, <3>2, ClassStep
    <2> QED BY <2>2, <2>3
  <1> QED BY <1>2, <1>3, <1>4, <1>5, <1>6, <1>7, <1>8, <1>9, <1>10 DEF Next

LEMMA ClassInvariant == Spec => [](IInv /\ ClassInv)
  <1>1. ClassInv /\ IInv /\ [Next]_vars => ClassInv'
    BY ClassNext
  <1> QED BY <1>1, IInvariant, ClassInit, PTL DEF Spec

\* The step behind RasClassKept.
LEMMA ClassKeptStep ==
    ASSUME IInv, ClassInv, [Next]_vars, NEW p \in Tasks,
           class[p] = "ras", class'[p] # "ras"
    PROVE  policy'[p] # "RAS" \/ piTop'[p] # piTop[p]
  <1>1. /\ AttrInv /\ AttrTypes /\ \A r \in Tasks : [class EXCEPT ![r] = class[r]] = class
        /\ class' # class
    BY DEF IInv, AttrInv, AttrTypes
  <1>2. CASE PrepareToWait \/ FinishWait \/ ScheduleRunning \/ ScheduleAsleep
    BY <1>1, <1>2 DEF PrepareToWait, FinishWait, ScheduleRunning, ScheduleAsleep
  <1>3. CASE PreemptSchedule \/ Yield \/ SchedulerTick \/ TracedFault \/ UNCHANGED vars
    BY <1>1, <1>3, Zenon DEF PreemptSchedule, Yield, SchedulerTick, TracedFault, vars
  <1>4. ASSUME NEW r \in Tasks, WakeUp(r) \/ WakeUpNewTask(r) \/ StartTrace(r) \/ StopTrace(r)
        PROVE  FALSE
    BY <1>1, <1>4 DEF WakeUp, WakeUpNewTask, StartTrace, StopTrace
  <1>5. CASE Exit
    <2>1. /\ curr \in Tasks /\ class' = [class EXCEPT ![curr] = "fair"]
          /\ policy' = [policy EXCEPT ![curr] = "NORMAL"]
      BY <1>5 DEF Exit, InSyscall
    <2> QED BY <1>1, <2>1 DEF AttrTypes
  <1>6. ASSUME NEW c \in Tasks, SchedFork(c) PROVE FALSE
    <2>1. state[c] = "unused" /\ class' = [class EXCEPT ![c] = class'[c]]
      BY <1>1, <1>6 DEF SchedFork, AttrTypes
    <2>2. class[c] = "fair"
      BY <2>1 DEF ClassInv
    <2> QED BY <1>1, <2>1, <2>2 DEF AttrTypes
  <1>7. ASSUME NEW r \in Tasks, NEW pol \in Policies, NEW rtp \in RtPriorities \cup {0},
               NEW reset \in ResetFlags, SetScheduler(r, pol, rtp, reset)
        PROVE  policy'[p] # "RAS"
    <2> DEFINE pr == PiPrio(NormalPrioOf(pol, rtp, staticPrio[r]), piTop[r])
    <2>1. /\ class' = [class EXCEPT ![r] = SchedClass(pol, pr)]
          /\ policy' = [policy EXCEPT ![r] = pol]
      BY <1>7 DEF SetScheduler, Reclass
    <2> HIDE DEF pr
    <2>2. pol = "RAS" => SchedClass(pol, pr) = "ras"
      BY DEF SchedClass
    <2> QED BY <1>1, <2>1, <2>2 DEF AttrTypes
  <1>8. ASSUME NEW r \in Tasks, NEW top \in PiPrios \cup {NoWaiter}, RtMutexSetPrio(r, top)
        PROVE  piTop'[p] # piTop[p]
    <2>1. top # piTop[r] /\ piTop' = [piTop EXCEPT ![r] = top]
      BY <1>8 DEF RtMutexSetPrio
    <2>2. class' = [class EXCEPT ![r] = class'[r]]
      BY <1>1, <1>8 DEF RtMutexSetPrio, Reclass, AttrTypes
    <2> QED BY <1>1, <2>1, <2>2 DEF AttrTypes
  <1>9. ASSUME NEW r \in Tasks, NormalizeTask(r) PROVE policy'[p] # "RAS"
    <2>1. policy' = [policy EXCEPT ![r] = "NORMAL"] /\ class' = [class EXCEPT ![r] = class'[r]]
      BY <1>1, <1>9 DEF NormalizeTask, Reclass, AttrTypes
    <2> QED BY <1>1, <2>1 DEF AttrTypes
  <1>10. ASSUME NEW r \in Tasks, NEW sp \in StaticPrios, SetUserNice(r, sp) PROVE FALSE
    BY <1>1, <1>10 DEF SetUserNice
  <1> QED BY <1>2, <1>3, <1>4, <1>5, <1>6, <1>7, <1>8, <1>9, <1>10 DEF Next

\* A task leaves the RAS class only when its policy changes or the priority of
\* its highest rt_mutex waiter does.
THEOREM RasClassKeptTheorem == Spec => RasClassKept
  <1>1. IInv /\ ClassInv /\ [Next]_vars
          => [\A p \in Tasks : class[p] = "ras" /\ class'[p] # "ras" =>
                policy'[p] # "RAS" \/ piTop'[p] # piTop[p]]_vars
    BY ClassKeptStep
  <1> QED BY <1>1, ClassInvariant, PTL DEF Spec, RasClassKept

-----------------------------------------------------------------------------
(* The order of the RAS list *)

LEMMA BeforeIndices ==
    ASSUME NEW s \in Seq(Tasks), NEW a, NEW b
    PROVE  /\ Before(s, a, b)
                <=> \E i, j \in 1 .. Len(s) : i < j /\ s[i] = a /\ s[j] = b
           /\ Before(s, a, b) => a \in Range(s) /\ b \in Range(s)
           /\ Before(s, a, b) /\ IsInjective(s) => a # b
  <1>1. DOMAIN s = 1 .. Len(s)
    BY LenProperties
  <1>2. /\ Len(s) \in Nat /\ Range(s) = {s[i] : i \in 1 .. Len(s)}
        /\ IsInjective(s) <=> \A i, j \in 1 .. Len(s) : s[i] = s[j] => i = j
    BY RangeProperties
  <1> QED BY <1>1, <1>2 DEF Before

\* list_add_tail leaves the order alone and puts the new entry last.
LEMMA AppendKeepsOrder ==
    ASSUME NEW s \in Seq(Tasks), NEW p \in Tasks, NEW a, NEW b
    PROVE  /\ Before(s, a, b) => Before(Append(s, p), a, b)
           /\ a \in Range(s) => Before(Append(s, p), a, p)
  <1> DEFINE t == Append(s, p)
  <1>1. /\ t \in Seq(Tasks) /\ Len(t) = Len(s) + 1 /\ t[Len(s) + 1] = p
        /\ \A i \in 1 .. Len(s) : t[i] = s[i]
    BY AppendProperties
  <1>2. Len(s) \in Nat /\ Range(s) = {s[i] : i \in 1 .. Len(s)}
    BY RangeProperties
  <1> HIDE DEF t
  <1>3. Before(s, a, b) => Before(t, a, b)
    <2> SUFFICES ASSUME Before(s, a, b) PROVE Before(t, a, b)
      OBVIOUS
    <2>1. PICK i \in 1 .. Len(s), j \in 1 .. Len(s) : i < j /\ s[i] = a /\ s[j] = b
      BY BeforeIndices
    <2>2. i \in 1 .. Len(t) /\ j \in 1 .. Len(t) /\ i < j /\ t[i] = a /\ t[j] = b
      BY <1>1, <1>2, <2>1
    <2> QED BY <1>1, <2>2, BeforeIndices
  <1>4. a \in Range(s) => Before(t, a, p)
    <2> SUFFICES ASSUME a \in Range(s) PROVE Before(t, a, p)
      OBVIOUS
    <2>1. PICK i \in 1 .. Len(s) : s[i] = a
      BY <1>2
    <2>2. /\ i \in 1 .. Len(t) /\ Len(s) + 1 \in 1 .. Len(t) /\ i < Len(s) + 1
          /\ t[i] = a /\ t[Len(s) + 1] = p
      BY <1>1, <1>2, <2>1
    <2> QED BY <1>1, <2>2, BeforeIndices
  <1> QED BY <1>3, <1>4 DEF t

\* list_del leaves the others in their order.
LEMMA DelKeepsOrder ==
    ASSUME NEW s \in Seq(Tasks), NEW p \in Range(s), IsInjective(s),
           NEW a, NEW b, a # p, b # p, Before(s, a, b)
    PROVE  Before(RemoveFirst(s, p), a, b)
  <1> DEFINE t == RemoveFirst(s, p)
  <1>1. t \in Seq(Tasks) /\ Len(t) = Len(s) - 1
    BY DelSplices
  <1>2. PICK k \in 1 .. Len(s) :
          /\ s[k] = p
          /\ \A i \in 1 .. Len(s) - 1 : t[i] = IF i < k THEN s[i] ELSE s[i + 1]
    BY DelSplices
  <1>3. Len(s) \in Nat
    BY RangeProperties
  <1>4. PICK i \in 1 .. Len(s), j \in 1 .. Len(s) : i < j /\ s[i] = a /\ s[j] = b
    BY BeforeIndices
  <1>5. i # k /\ j # k
    BY <1>2, <1>4
  <1> HIDE DEF t
  <1> DEFINE new(n) == IF n < k THEN n ELSE n - 1
  <1>6. \A n \in 1 .. Len(s) : n # k => new(n) \in 1 .. Len(t) /\ t[new(n)] = s[n]
    <2> SUFFICES ASSUME NEW n \in 1 .. Len(s), n # k
                 PROVE  new(n) \in 1 .. Len(t) /\ t[new(n)] = s[n]
      OBVIOUS
    <2>1. CASE n < k
      BY <1>1, <1>2, <1>3, <2>1
    <2>2. CASE n > k
      <3>1. n - 1 \in 1 .. Len(s) - 1 /\ ~(n - 1 < k) /\ n - 1 + 1 = n /\ new(n) = n - 1
        BY <1>3, <2>2
      <3>2. t[n - 1] = s[n]
        BY <1>2, <3>1
      <3> QED BY <1>1, <3>1, <3>2
    <2> QED BY <2>1, <2>2
  <1>7. new(i) < new(j)
    BY <1>4, <1>5
  <1>8. new(i) \in 1 .. Len(t) /\ new(j) \in 1 .. Len(t) /\ t[new(i)] = a /\ t[new(j)] = b
    BY <1>4, <1>5, <1>6
  <1> HIDE DEF new
  <1>9. Before(t, a, b)
    BY <1>1, <1>7, <1>8, BeforeIndices
  <1> QED BY <1>9 DEF t

\* What enqueue_task and dequeue_task do to the RAS list.
LEMMA EnqueueRasList ==
    ASSUME NEW q \in RqType, NEW p \in Tasks, NEW c \in Queueable, NEW head \in BOOLEAN,
           c = "ras" => ~head
    PROVE  Enqueue(q, p, c, head).ras = IF c = "ras" THEN Append(q.ras, p) ELSE q.ras
  <1>1. CASE c = "ras"
    <2>1. Enqueue(q, p, c, head) = EnqueueRas(q, p, head)
      BY <1>1 DEF Enqueue
    <2>2. EnqueueRas(q, p, head).ras = Append(q.ras, p)
      BY <1>1 DEF EnqueueRas, RqType, ListAdd
    <2> QED BY <1>1, <2>1, <2>2
  <1>2. CASE c = "rt"
    <2>1. Enqueue(q, p, c, head) = EnqueueRt(q, p, head)
      BY <1>2 DEF Enqueue
    <2> QED BY <1>2, <2>1 DEF EnqueueRt, RqType
  <1>3. CASE c = "fair"
    <2>1. Enqueue(q, p, c, head) = EnqueueFair(q, p)
      BY <1>3 DEF Enqueue
    <2> QED BY <1>3, <2>1 DEF EnqueueFair, RqType
  <1> QED BY <1>1, <1>2, <1>3 DEF Queueable

LEMMA DequeueRasList ==
    ASSUME NEW q \in RqType, NEW p \in Tasks, NEW c \in Queueable
    PROVE  Dequeue(q, p, c).ras = IF c = "ras" THEN RemoveFirst(q.ras, p) ELSE q.ras
  <1>1. CASE c = "ras"
    <2>1. Dequeue(q, p, c) = DequeueRas(q, p)
      BY <1>1 DEF Dequeue
    <2> QED BY <1>1, <2>1 DEF DequeueRas, RqType
  <1>2. CASE c = "rt"
    <2>1. Dequeue(q, p, c) = DequeueRt(q, p)
      BY <1>2 DEF Dequeue
    <2> QED BY <1>2, <2>1 DEF DequeueRt, RqType
  <1>3. CASE c = "fair"
    <2>1. Dequeue(q, p, c) = DequeueFair(q, p)
      BY <1>3 DEF Dequeue
    <2> QED BY <1>3, <2>1 DEF DequeueFair, RqType
  <1> QED BY <1>1, <1>2, <1>3 DEF Queueable

\* An entry that leaves the list, or goes to its end, leaves the others in
\* their order, and going to the end puts it after them.
LEMMA MoveKeepsOrder ==
    ASSUME NEW s \in Seq(Tasks), IsInjective(s), NEW p \in Range(s),
           NEW a, NEW b, Before(s, a, b)
    PROVE  /\ a # p => Before(Append(RemoveFirst(s, p), p), a, b)
           /\ a # p /\ b # p => Before(RemoveFirst(s, p), a, b)
  <1>1. p \in Tasks /\ a \in Range(s)
    BY RangeProperties, BeforeIndices
  <1>2. RemoveFirst(s, p) \in Seq(Tasks) /\ Range(RemoveFirst(s, p)) = Range(s) \ {p}
    BY DelFromList
  <1>3. a # p /\ b # p => Before(RemoveFirst(s, p), a, b)
    BY DelKeepsOrder
  <1>4. CASE a # p /\ b = p
    BY <1>1, <1>2, <1>4, AppendKeepsOrder
  <1>5. CASE a # p /\ b # p
    BY <1>1, <1>2, <1>3, <1>5, AppendKeepsOrder
  <1> QED BY <1>3, <1>4, <1>5

\* The order through dequeue_task and enqueue_task of p.
LEMMA ReclassOrder ==
    ASSUME IInv, NEW p \in Tasks, NEW c \in Queueable, NEW head \in BOOLEAN,
           c = "ras" => ~head,
           rq' = IF onRq[p] THEN Enqueue(Dequeue(rq, p, class[p]), p, c, head) ELSE rq,
           NEW a, NEW b, Before(rq.ras, a, b), a \in Range(rq'.ras), b \in Range(rq'.ras),
           a # p \/ class[p] # "ras" \/ c # "ras"
    PROVE  Before(rq'.ras, a, b)
  <1>1. /\ rq \in RqType /\ onRq \in [Tasks -> BOOLEAN]
        /\ class \in [Tasks \cup {Idle} -> Classes] /\ class[p] \in Queueable
        /\ Members(rq, onRq, class) /\ Counted(rq)
    BY DEF IInv, QueueInv, QueueTypesOK, AttrInv, AttrTypes, ClassesOK
  <1>2. CASE ~onRq[p]
    BY <1>2
  <1>3. CASE onRq[p]
    <2> DEFINE m == Dequeue(rq, p, class[p])
    <2>1. m \in RqType
      BY <1>1, <1>3, DequeueConsistent
    <2>2. m.ras = IF class[p] = "ras" THEN RemoveFirst(rq.ras, p) ELSE rq.ras
      BY <1>1, DequeueRasList
    <2>3. rq' = Enqueue(m, p, c, head)
      BY <1>3
    <2> HIDE DEF m
    <2>4. rq'.ras = IF c = "ras" THEN Append(m.ras, p) ELSE m.ras
      BY <2>1, <2>3, EnqueueRasList
    <2>5. /\ rq.ras \in Seq(Tasks) /\ IsInjective(rq.ras)
          /\ p \in Range(rq.ras) <=> class[p] = "ras"
      BY <1>1, <1>3, QueueTypes DEF Members, Counted
    <2>6. CASE class[p] = "ras" /\ c = "ras"
      BY <2>2, <2>4, <2>5, <2>6, MoveKeepsOrder
    <2>7. CASE class[p] = "ras" /\ c # "ras"
      <3>1. rq'.ras = RemoveFirst(rq.ras, p)
        BY <2>2, <2>4, <2>7
      <3>2. Range(rq'.ras) = Range(rq.ras) \ {p}
        BY <2>5, <2>7, <3>1, DelFromList
      <3> QED BY <2>5, <2>7, <3>1, <3>2, MoveKeepsOrder
    <2>8. CASE class[p] # "ras"
      <3>1. rq'.ras = rq.ras \/ rq'.ras = Append(rq.ras, p)
        BY <2>2, <2>4, <2>8
      <3> QED BY <2>5, <3>1, AppendKeepsOrder
    <2> QED BY <2>6, <2>7, <2>8
  <1> QED BY <1>2, <1>3

\* The step behind NoOvertaking.
LEMMA OrderStep ==
    ASSUME IInv, [Next]_vars, NEW a \in Tasks, NEW b \in Tasks,
           Before(rq.ras, a, b), a \in Range(rq.ras'), b \in Range(rq.ras')
    PROVE  Before(rq.ras', a, b) \/ a = curr \/ staticPrio'[a] # staticPrio[a]
  <1>1. /\ rq \in RqType /\ onRq \in [Tasks -> BOOLEAN]
        /\ class \in [Tasks \cup {Idle} -> Classes]
        /\ \A p \in Tasks : class[p] \in Queueable
        /\ Members(rq, onRq, class) /\ Counted(rq)
        /\ curr \in Tasks \cup {Idle} /\ class[Idle] = "idle"
        /\ curr \in Tasks => onRq[curr]
        /\ staticPrio \in [Tasks -> StaticPrios]
        /\ RasClassHasRasPolicy
    BY DEF IInv, QueueInv, QueueTypesOK, AttrInv, AttrTypes, ClassesOK
  <1>2. rq.ras \in Seq(Tasks) /\ IsInjective(rq.ras)
    BY <1>1, QueueTypes DEF Counted
  <1>3. \A p \in Tasks : onRq[p] => (p \in Range(rq.ras) <=> class[p] = "ras")
    BY <1>1 DEF Members
  <1>4. CASE rq'.ras = rq.ras
    BY <1>4
  <1>5. ASSUME curr \in Tasks, rq' = Dequeue(rq, curr, class[curr])
        PROVE  Before(rq'.ras, a, b)
    <2>1. rq'.ras = IF class[curr] = "ras" THEN RemoveFirst(rq.ras, curr) ELSE rq.ras
      BY <1>1, <1>5, DequeueRasList
    <2>2. CASE class[curr] = "ras"
      <3>1. Range(rq'.ras) = Range(rq.ras) \ {curr}
        BY <1>1, <1>5, <1>2, <1>3, <2>1, <2>2, DelFromList
      <3> QED BY <1>1, <1>5, <1>2, <1>3, <2>1, <2>2, <3>1, MoveKeepsOrder
    <2> QED BY <2>1, <2>2
  <1>6. ASSUME curr \in Tasks, rq' = RequeueRas(rq, curr)
        PROVE  Before(rq'.ras, a, b) \/ a = curr
    <2>1. CASE curr \in Range(rq.ras)
      <3>1. rq'.ras = Append(RemoveFirst(rq.ras, curr), curr)
        BY <1>1, <1>6, <2>1 DEF RequeueRas, RqType
      <3> QED BY <1>2, <2>1, <3>1, MoveKeepsOrder
    <2>2. CASE curr \notin Range(rq.ras)
      BY <1>6, <2>2 DEF RequeueRas
    <2> QED BY <2>1, <2>2
  <1>7. rq' = RequeueRt(rq, curr) => rq'.ras = rq.ras
    BY <1>1 DEF RequeueRt, RqType
  <1>8. CASE PrepareToWait \/ FinishWait \/ ScheduleRunning \/ PreemptSchedule
    BY <1>8 DEF PrepareToWait, FinishWait, ScheduleRunning, PreemptSchedule, SwitchTo
  <1>9. CASE TracedFault \/ UNCHANGED vars
    BY <1>9 DEF TracedFault, vars
  <1>10. ASSUME NEW p \in Tasks, SchedFork(p) \/ StartTrace(p) \/ StopTrace(p)
        PROVE  Before(rq'.ras, a, b)
    BY <1>10 DEF SchedFork, StartTrace, StopTrace
  <1>11. CASE ScheduleAsleep
    BY <1>5, <1>11 DEF ScheduleAsleep, SwitchTo
  <1>12. CASE Exit
    BY <1>5, <1>12 DEF Exit, InSyscall, SwitchTo
  <1>13. CASE Yield
    <2>1. /\ curr \in Tasks
          /\ rq' = CASE class[curr] = "ras"  -> RequeueRas(rq, curr)
                     [] class[curr] = "rt"   -> RequeueRt(rq, curr)
                     [] class[curr] = "fair" -> rq
      BY <1>13, Zenon DEF Yield, InSyscall, SwitchTo
    <2>2. /\ class[curr] = "ras" => rq' = RequeueRas(rq, curr)
          /\ class[curr] = "rt" => rq' = RequeueRt(rq, curr)
          /\ class[curr] = "fair" => rq' = rq
      BY <2>1, Zenon
    <2> QED BY <1>1, <1>6, <1>7, <2>1, <2>2 DEF Queueable
  <1>14. CASE SchedulerTick
    <2>1. CASE TaskTickRas
      <3>1. curr \in Tasks
        BY <1>1, <2>1 DEF TaskTickRas
      <3>2. rq' = rq \/ rq' = RequeueRas(rq, curr)
        BY <2>1 DEF TaskTickRas
      <3> QED BY <1>6, <3>1, <3>2
    <2>2. CASE TaskTickRt
      BY <1>7, <2>2 DEF TaskTickRt
    <2>3. CASE TaskTickFair
      BY <2>3 DEF TaskTickFair
    <2> QED BY <1>14, <2>1, <2>2, <2>3 DEF SchedulerTick
  <1>15. ASSUME NEW p \in Tasks, rq' = Enqueue(rq, p, class[p], FALSE)
         PROVE  Before(rq'.ras, a, b)
    <2>1. rq'.ras = IF class[p] = "ras" THEN Append(rq.ras, p) ELSE rq.ras
      <3>1. rq \in RqType /\ class[p] \in Queueable
        BY <1>1
      <3>2. Enqueue(rq, p, class[p], FALSE).ras
            = IF class[p] = "ras" THEN Append(rq.ras, p) ELSE rq.ras
        BY <3>1, EnqueueRasList
      <3> QED BY <1>15, <3>2
    <2> QED BY <1>2, <2>1, AppendKeepsOrder
  <1>16. ASSUME NEW p \in Tasks, WakeUp(p) \/ WakeUpNewTask(p) PROVE Before(rq'.ras, a, b)
    BY <1>15, <1>16 DEF WakeUp, WakeUpNewTask
  <1>17. ASSUME NEW p \in Tasks, NEW pol \in Policies, NEW rtp \in RtPriorities \cup {0},
                NEW reset \in ResetFlags, SetScheduler(p, pol, rtp, reset)
         PROVE  Before(rq'.ras, a, b)
    <2> DEFINE pr == PiPrio(NormalPrioOf(pol, rtp, staticPrio[p]), piTop[p])
               c  == SchedClass(pol, pr)
    <2>1. /\ rq' = IF onRq[p] THEN Enqueue(Dequeue(rq, p, class[p]), p, c, FALSE) ELSE rq
          /\ pol # policy[p] \/ RtPolicy(pol)
      BY <1>17 DEF SetScheduler, Reclass
    <2> HIDE DEF pr
    <2>2. c \in Queueable /\ (c = "ras" => pol = "RAS")
      BY ClassChoice
    <2>3. class[p] = "ras" => c # "ras"
      BY <1>1, <2>1, <2>2 DEF RasClassHasRasPolicy, RtPolicy
    <2> HIDE DEF c
    <2> QED BY <1>1, <2>1, <2>2, <2>3, ReclassOrder
  <1>18. ASSUME NEW p \in Tasks, NEW pr, NEW head \in BOOLEAN, NEW need,
                Reclass(p, ClassByPrio(pr), pr, head, need)
         PROVE  Before(rq'.ras, a, b)
    <2> DEFINE c == ClassByPrio(pr)
    <2>1. rq' = IF onRq[p] THEN Enqueue(Dequeue(rq, p, class[p]), p, c, head) ELSE rq
      BY <1>18 DEF Reclass
    <2>2. c \in Queueable /\ c # "ras"
      BY ClassChoice DEF Queueable
    <2> HIDE DEF c
    <2> QED BY <1>1, <2>1, <2>2, ReclassOrder
  <1>19. ASSUME NEW p \in Tasks, NEW top \in PiPrios \cup {NoWaiter}, RtMutexSetPrio(p, top)
         PROVE  Before(rq'.ras, a, b)
    <2> DEFINE pr == PiPrio(NormalPrio(p), top)
               lower == prio[p] < pr
    <2>1. rq' = rq \/ Reclass(p, ClassByPrio(pr), pr, lower, FALSE)
      BY <1>19 DEF RtMutexSetPrio
    <2>2. lower \in BOOLEAN
      OBVIOUS
    <2> HIDE DEF pr, lower
    <2> QED BY <1>18, <2>1, <2>2
  <1>20. ASSUME NEW p \in Tasks, NormalizeTask(p) PROVE Before(rq'.ras, a, b)
    BY <1>18, <1>20 DEF NormalizeTask
  <1>21. ASSUME NEW p \in Tasks, NEW sp \in StaticPrios, SetUserNice(p, sp)
         PROVE  Before(rq'.ras, a, b) \/ staticPrio'[a] # staticPrio[a]
    <2>1. sp # staticPrio[p] /\ staticPrio' = [staticPrio EXCEPT ![p] = sp]
      BY <1>21 DEF SetUserNice
    <2>2. rq' = rq
          \/ rq' = IF onRq[p] THEN Enqueue(Dequeue(rq, p, class[p]), p, class[p], FALSE) ELSE rq
      BY <1>21 DEF SetUserNice
    <2>3. CASE a = p
      BY <1>1, <2>1, <2>3
    <2>4. CASE a # p
      BY <1>1, <2>2, <2>4, ReclassOrder
    <2> QED BY <2>3, <2>4
  <1> QED BY <1>8, <1>9, <1>10, <1>11, <1>12, <1>13, <1>14, <1>16, <1>17, <1>19, <1>20, <1>21
          DEF Next

\* Nobody overtakes in the RAS queue: list_add_tail and list_move_tail
\* everywhere, so that only a task that was running, or was reniced, falls
\* behind another.
THEOREM NoOvertakingTheorem == Spec => NoOvertaking
  <1>1. IInv /\ [Next]_vars
          => [\A a, b \in Tasks :
                Before(rq.ras, a, b) /\ a \in Range(rq.ras') /\ b \in Range(rq.ras') =>
                    \/ Before(rq.ras', a, b)
                    \/ a = curr
                    \/ staticPrio'[a] # staticPrio[a]]_vars
    BY OrderStep
  <1> QED BY <1>1, IInvariant, PTL DEF Spec, NoOvertaking

-----------------------------------------------------------------------------
(* Who is picked *)

LEMMA Ranks ==
    ClassRank("rt") = 1 /\ ClassRank("ras") = 2 /\ ClassRank("fair") = 3 /\ ClassRank("idle") = 4
  <1>1. ClassRank("rt") = 1
    BY Zenon DEF ClassRank
  <1>2. ClassRank("ras") = 2
    BY Zenon DEF ClassRank
  <1>3. ClassRank("fair") = 3
    BY Zenon DEF ClassRank
  <1>4. ClassRank("idle") = 4
    BY Zenon DEF ClassRank
  <1> QED BY <1>1, <1>2, <1>3, <1>4

LEMMA CountSome ==
    ASSUME NEW a \in Nat, NEW b \in Nat, NEW c \in Nat, a # 0 \/ b # 0
    PROVE  a + b + c # c
  OBVIOUS

\* The RT class finds a task whenever it has one.
LEMMA PickRtFinds ==
    ASSUME NEW q, q.rt \in Seq(Tasks), q.rt # <<>>, \A p \in Tasks : prio[p] \in Nat
    PROVE  PickRt(q) # {}
  <1> DEFINE s == q.rt
             P == {prio[s[i]] : i \in 1 .. Len(s)}
  <1>1. /\ Len(s) \in Nat /\ 1 \in 1 .. Len(s) /\ DOMAIN s = 1 .. Len(s)
        /\ \A i \in 1 .. Len(s) : s[i] \in Tasks
    BY RangeProperties, LenProperties, ElementOfSeq
  <1>2. P \in SUBSET Nat /\ P # {}
    BY <1>1
  <1>3. PICK m \in P : \A x \in P : m <= x
    <2> HIDE DEF P
    <2> QED BY <1>2, LeastElement
  <1> DEFINE K == {i \in 1 .. Len(s) : prio[s[i]] = m}
  <1>4. K \in SUBSET Nat /\ K # {}
    BY <1>1
  <1>5. PICK k \in K : \A j \in K : k <= j
    <2> HIDE DEF K
    <2> QED BY <1>4, LeastElement
  <1>6. k \in DOMAIN s /\ \A j \in DOMAIN s :
          prio[s[k]] < prio[s[j]] \/ (prio[s[k]] = prio[s[j]] /\ k <= j)
    <2> SUFFICES ASSUME NEW j \in 1 .. Len(s)
                 PROVE  prio[s[k]] < prio[s[j]] \/ (prio[s[k]] = prio[s[j]] /\ k <= j)
      BY <1>1
    <2>1. prio[s[k]] = m /\ m \in Nat /\ prio[s[j]] \in Nat /\ m <= prio[s[j]]
      BY <1>1, <1>2, <1>3
    <2>2. prio[s[j]] = m => k <= j
      BY <1>5
    <2> QED BY <2>1, <2>2
  <1> QED BY <1>6 DEF PickRt

\* pick_next_task returns a task of the highest class that has one.
LEMMA PickHighest ==
    ASSUME NEW q \in RqType, NEW on, NEW cl, Members(q, on, cl), Counted(q),
           cl[Idle] = "idle", \A p \in Tasks : cl[p] \in Queueable /\ prio[p] \in Nat,
           NEW t \in PickNextTask(q), NEW p \in Tasks, on[p]
    PROVE  ClassRank(cl[t]) <= ClassRank(cl[p])
  <1>1. /\ q.ras \in Seq(Tasks) /\ q.rt \in Seq(Tasks) /\ q.fair \subseteq Tasks
        /\ Range(q.ras) \subseteq Tasks /\ Range(q.rt) \subseteq Tasks
        /\ Len(q.ras) \in Nat /\ Len(q.rt) \in Nat
        /\ q.ras = <<>> <=> Len(q.ras) = 0
        /\ q.rt = <<>> <=> Len(q.rt) = 0
        /\ Range(<<>>) = {}
    BY QueueTypes, RangeProperties DEF Range
  <1>2. /\ q.rasNrRunning = Len(q.ras) /\ Cardinality(q.fair) \in Nat
        /\ q.nrRunning = Len(q.ras) + Len(q.rt) + Cardinality(q.fair)
    BY FS_CardinalityType DEF Counted
  <1>3. ASSUME NEW r \in Tasks, on[r]
        PROVE  \/ cl[r] = "rt" /\ r \in Range(q.rt)
               \/ cl[r] = "ras" /\ r \in Range(q.ras)
               \/ cl[r] = "fair" /\ r \in q.fair
    <2>1. cl[r] = "rt" \/ cl[r] = "ras" \/ cl[r] = "fair"
      BY DEF Queueable
    <2> QED BY <1>3, <2>1, Zenon DEF Members
  <1>4. \A r \in PickRt(q) : cl[r] = "rt"
    BY <1>1 DEF PickRt, Range, Members
  <1>5. \A r \in PickRas(q) : cl[r] = "ras"
    <2> SUFFICES ASSUME q.rasNrRunning # 0 PROVE \A r \in PickRas(q) : cl[r] = "ras"
      BY DEF PickRas
    <2>1. Len(q.ras) # 0 /\ PickRas(q) = {Head(q.ras)}
      BY <1>2 DEF PickRas
    <2>2. Head(q.ras) = q.ras[1] /\ 1 \in DOMAIN q.ras
      BY <1>1, <2>1, LenProperties
    <2>3. Head(q.ras) \in Range(q.ras)
      BY <2>2 DEF Range
    <2> QED BY <1>1, <2>1, <2>3 DEF Members
  <1>6. \A r \in q.fair : cl[r] = "fair"
    BY <1>1 DEF Members
  <1>7. q.rt # <<>> => PickRt(q) # {}
    BY <1>1, PickRtFinds
  <1>8. q.ras # <<>> => PickRas(q) # {}
    BY <1>1, <1>2 DEF PickRas
  <1>9. CASE cl[p] = "rt"
    <2>1. q.rt # <<>>
      BY <1>1, <1>3, <1>9
    <2>2. q.nrRunning # Cardinality(q.fair)
      <3>1. Len(q.ras) # 0 \/ Len(q.rt) # 0
        BY <1>1, <2>1
      <3> QED BY <1>1, <1>2, <3>1, CountSome, Zenon
    <2>3. t \in PickRt(q)
      BY <1>7, <2>1, <2>2 DEF PickNextTask
    <2> QED BY <1>4, <1>9, <2>3, Ranks
  <1>10. CASE cl[p] = "ras"
    <2>1. q.ras # <<>>
      BY <1>1, <1>3, <1>10
    <2>2. q.nrRunning # Cardinality(q.fair)
      <3>1. Len(q.ras) # 0 \/ Len(q.rt) # 0
        BY <1>1, <2>1
      <3> QED BY <1>1, <1>2, <3>1, CountSome, Zenon
    <2>3. t \in PickRt(q) \cup PickRas(q)
      BY <1>8, <2>1, <2>2 DEF PickNextTask
    <2> QED BY <1>4, <1>5, <1>10, <2>3, Ranks
  <1>11. CASE cl[p] = "fair"
    <2>1. q.fair # {}
      BY <1>3, <1>11
    <2>2. t \in PickRt(q) \cup PickRas(q) \cup q.fair
      BY <2>1 DEF PickNextTask, PickFair
    <2> QED BY <1>4, <1>5, <1>6, <1>11, <2>2, Ranks
  <1> QED BY <1>9, <1>10, <1>11 DEF Queueable

\* A reschedule is never forgotten but by schedule() itself.
LEMMA NeedKept ==
    ASSUME needResched = TRUE, NEW p \in Tasks, NEW cl, NEW pr, cl[p] \in Queueable
    PROVE  /\ \A r \in CheckPreemptCurr(p, cl, pr) : r = TRUE
           /\ \A r \in CheckClassChanged(p, cl, pr) : r = TRUE
  <1>1. \A r \in CheckPreemptCurr(p, cl, pr) : r = TRUE
    BY DEF CheckPreemptCurr, Queueable
  <1>2. \A r \in SwitchedTo(p, cl, pr) : r = TRUE
    <2>1. CASE cl[p] = "ras"
      <3>1. SwitchedTo(p, cl, pr) = {needResched \/ (onRq[p] /\ curr # p)}
        BY <2>1, Zenon DEF SwitchedTo
      <3> QED BY <3>1
    <2>2. CASE cl[p] = "rt"
      <3>1. SwitchedTo(p, cl, pr)
              = {needResched \/ (onRq[p] /\ curr # p /\ pr[p] < pr[curr])}
        BY <2>2, Zenon DEF SwitchedTo
      <3> QED BY <3>1
    <2>3. CASE cl[p] = "fair"
      <3>1. SwitchedTo(p, cl, pr) = IF ~onRq[p] THEN {needResched}
                                    ELSE IF curr = p THEN {TRUE}
                                    ELSE CheckPreemptCurr(p, cl, pr)
        BY <2>3, Zenon DEF SwitchedTo
      <3> QED BY <3>1, <1>1
    <2> QED BY <2>1, <2>2, <2>3 DEF Queueable
  <1>3. \A r \in PrioChanged(p, cl, pr) : r = TRUE
    <2>1. CASE cl[p] = "ras"
      <3>1. PrioChanged(p, cl, pr) = {needResched}
        BY <2>1, Zenon DEF PrioChanged
      <3> QED BY <3>1
    <2>2. CASE cl[p] = "rt"
      <3>1. PrioChanged(p, cl, pr)
              = {needResched \/ (onRq[p] /\ IF curr = p THEN prio[p] < pr[p]
                                                        ELSE pr[p] < pr[curr])}
        BY <2>2, Zenon DEF PrioChanged
      <3> QED BY <3>1
    <2>3. CASE cl[p] = "fair"
      <3> DEFINE lower == needResched \/ prio[p] < pr[p]
      <3>1. PrioChanged(p, cl, pr) = IF ~onRq[p] THEN {needResched}
                                     ELSE IF curr = p THEN {lower}
                                     ELSE CheckPreemptCurr(p, cl, pr)
        BY <2>3, Zenon DEF PrioChanged
      <3>2. lower = TRUE
        OBVIOUS
      <3> HIDE DEF lower
      <3> QED BY <3>1, <3>2, <1>1
    <2> QED BY <2>1, <2>2, <2>3 DEF Queueable
  <1>4. \A r \in CheckClassChanged(p, cl, pr) : r = TRUE
    BY <1>2, <1>3 DEF CheckClassChanged
  <1> QED BY <1>1, <1>4

-----------------------------------------------------------------------------
(* The highest class runs, but for one step *)

\* After schedule() nobody of a higher class is queued.
LEMMA SwitchHighest ==
    ASSUME NEW q \in RqType, Members(q, onRq', class'), Counted(q), SwitchTo(q),
           class'[Idle] = "idle", \A p \in Tasks : class'[p] \in Queueable /\ prio[p] \in Nat
    PROVE  HighestClassRuns'
  <1>1. curr' \in PickNextTask(q)
    BY DEF SwitchTo
  <1>2. \A p \in Tasks : onRq'[p] => ClassRank(class'[curr']) <= ClassRank(class'[p])
    BY <1>1, PickHighest
  <1> QED BY <1>2 DEF HighestClassRuns

\* What the step that hides a real-time task from curr looks like.
SelfSwitch ==
    /\ curr' = curr /\ class'[curr] = "ras"
    /\ class[curr] = "rt" \/ RtPrio(prio[curr])

\* A change of class or priority asks for a reschedule when it makes another
\* task than curr the highest one, with that exception.
LEMMA ReclassHighest ==
    ASSUME IInv, ClassInv, HighestClassRuns,
           NEW p \in Tasks, NEW c \in Queueable, NEW pr \in 0 .. MAX_PRIO,
           NEW head, NEW need \in BOOLEAN, Reclass(p, c, pr, head, need),
           UNCHANGED <<curr, onRq>>, c = "rt" => RtPrio(pr)
    PROVE  HighestClassRuns' \/ SelfSwitch
  <1>1. /\ onRq \in [Tasks -> BOOLEAN] /\ needResched \in BOOLEAN
        /\ class \in [Tasks \cup {Idle} -> Classes]
        /\ prio \in [Tasks \cup {Idle} -> 0 .. MAX_PRIO]
        /\ curr \in Tasks \cup {Idle} /\ class[Idle] = "idle" /\ prio[Idle] = MAX_PRIO
        /\ curr \in Tasks => onRq[curr]
        /\ \A r \in Tasks : class[r] \in Queueable
        /\ \A r \in Tasks : class[r] = "fair" => ~RtPrio(prio[r])
        /\ MAX_RT_PRIO \in Nat /\ MAX_PRIO \in Nat /\ MAX_RT_PRIO <= MAX_PRIO
    BY PrioAssumption DEF IInv, QueueInv, QueueTypesOK, AttrInv, AttrTypes, ClassesOK, ClassInv
  <1>2. /\ class' = [class EXCEPT ![p] = c] /\ prio' = [prio EXCEPT ![p] = pr]
        /\ \E r \in CheckClassChanged(p, class', prio') : needResched' = (r \/ need)
    BY DEF Reclass
  <1>3. /\ class'[p] = c /\ prio'[p] = pr
        /\ \A r \in (Tasks \cup {Idle}) \ {p} : class'[r] = class[r] /\ prio'[r] = prio[r]
    BY <1>1, <1>2
  <1>4. CASE needResched = TRUE
    <2>1. \A r \in CheckClassChanged(p, class', prio') : r = TRUE
      BY <1>3, <1>4, NeedKept
    <2>2. needResched' = TRUE
      BY <1>2, <2>1
    <2> QED BY <2>2 DEF HighestClassRuns
  <1>5. CASE needResched = FALSE
    <2>1. \A r \in Tasks : onRq[r] => ClassRank(class[curr]) <= ClassRank(class[r])
      BY <1>5 DEF HighestClassRuns
    <2> SUFFICES ASSUME needResched' = FALSE
                 PROVE  \/ \A r \in Tasks : onRq[r] =>
                                 ClassRank(class'[curr]) <= ClassRank(class'[r])
                        \/ SelfSwitch
      <3>1. needResched' \in BOOLEAN
        BY <1>1, <1>2, <1>3, ClassChangedBoolean
      <3> QED BY <3>1 DEF HighestClassRuns
    <2>2. FALSE \in CheckClassChanged(p, class', prio')
      <3>1. CheckClassChanged(p, class', prio') \subseteq BOOLEAN
        BY <1>1, <1>3, ClassChangedBoolean
      <3> QED BY <1>2, <3>1
    <2>3. CASE class[p] = c
      <3>1. \A r \in Tasks \cup {Idle} : class'[r] = class[r]
        BY <1>3, <2>3
      <3> QED BY <1>1, <2>1, <3>1
    <2>4. CASE ~onRq[p]
      <3>1. curr # p /\ class'[curr] = class[curr]
        BY <1>1, <1>3, <2>4
      <3> QED BY <1>3, <2>1, <2>4, <3>1
    <2>5. CASE class[p] # c /\ onRq[p]
      <3>1. FALSE \in SwitchedTo(p, class', prio')
        BY <1>3, <2>2, <2>5 DEF CheckClassChanged
      <3>2. \A r \in Tasks : onRq[r] => class[r] \in Queueable /\ class'[r] \in Queueable
        BY <1>1, <1>3
      <3>3. CASE c = "ras"
        <4>1. SwitchedTo(p, class', prio') = {needResched \/ (onRq[p] /\ curr # p)}
          BY <1>3, <3>3, Zenon DEF SwitchedTo
        <4>2. curr = p
          BY <1>5, <2>5, <3>1, <4>1
        <4>3. class[p] = "rt" \/ class[p] = "fair"
          BY <1>1, <2>5, <3>3 DEF Queueable
        <4>4. CASE class[p] = "rt"
          BY <1>3, <3>3, <4>2, <4>4 DEF SelfSwitch
        <4>5. CASE class[p] = "fair"
          <5>1. \A r \in Tasks : onRq[r] => class[r] = "fair"
            BY <2>1, <3>2, <4>2, <4>5, Ranks DEF Queueable
          <5>2. \A r \in Tasks : onRq[r] => class'[r] \in {"fair", "ras"}
            BY <1>3, <3>3, <5>1
          <5> QED BY <1>3, <3>3, <4>2, <5>2, Ranks
        <4> QED BY <4>3, <4>4, <4>5
      <3>4. CASE c = "rt"
        <4>1. SwitchedTo(p, class', prio')
                = {needResched \/ (onRq[p] /\ curr # p /\ prio'[p] < prio'[curr])}
          BY <1>3, <3>4, Zenon DEF SwitchedTo
        <4>2. CASE curr = p
          BY <1>3, <3>2, <3>4, <4>2, Ranks DEF Queueable
        <4>3. CASE curr # p
          <5>1. ~(pr < prio[curr])
            <6>1. ~(prio'[p] < prio'[curr])
              BY <1>5, <2>5, <3>1, <4>1, <4>3
            <6> QED BY <1>1, <1>3, <4>3, <6>1
          <5>2. RtPrio(prio[curr])
            BY <1>1, <3>4, <5>1 DEF RtPrio
          <5>3. curr \in Tasks /\ class[curr] # "fair"
            BY <1>1, <5>2 DEF RtPrio
          <5>4. class'[curr] = class[curr] /\ (class[curr] = "rt" \/ class[curr] = "ras")
            BY <1>1, <1>3, <4>3, <5>3 DEF Queueable
          <5>5. CASE class[curr] = "rt"
            BY <3>2, <5>4, <5>5, Ranks DEF Queueable
          <5>6. CASE class[curr] = "ras"
            BY <5>2, <5>4, <5>6 DEF SelfSwitch
          <5> QED BY <5>4, <5>5, <5>6
        <4> QED BY <4>2, <4>3
      <3>5. CASE c = "fair"
        <4>1. SwitchedTo(p, class', prio') = IF curr = p THEN {TRUE}
                                             ELSE CheckPreemptCurr(p, class', prio')
          BY <1>3, <2>5, <3>5, Zenon DEF SwitchedTo
        <4>2. curr # p
          BY <3>1, <4>1
        <4>3. class'[curr] = class[curr]
          BY <1>1, <1>3, <4>2
        <4>4. ClassRank(class'[curr]) <= ClassRank(class'[p])
          <5>1. CASE class'[p] = class'[curr]
            BY <1>3, <3>5, <5>1, Ranks
          <5>2. CASE class'[p] # class'[curr]
            <6>1. CheckPreemptCurr(p, class', prio')
                    = {needResched \/ ClassRank(class'[p]) < ClassRank(class'[curr])}
              BY <5>2, Zenon DEF CheckPreemptCurr
            <6>2. ~(ClassRank(class'[p]) < ClassRank(class'[curr]))
              BY <1>5, <3>1, <4>1, <4>2, <6>1
            <6>3. class[curr] \in Classes
              BY <1>1
            <6> QED BY <1>3, <3>5, <4>3, <6>2, <6>3, Ranks DEF Classes
          <5> QED BY <5>1, <5>2
        <4> QED BY <1>3, <2>1, <4>3, <4>4
      <3> QED BY <3>3, <3>4, <3>5 DEF Queueable
    <2> QED BY <2>3, <2>4, <2>5
  <1> QED BY <1>1, <1>4, <1>5

\* A task of the queue takes no notice of a step that leaves it, curr and the
\* wish to reschedule alone.
LEMMA SameHighest ==
    ASSUME HighestClassRuns, curr' = curr, class'[curr] = class[curr],
           \A p \in Tasks : onRq'[p] => onRq[p] /\ class'[p] = class[p],
           needResched = TRUE => needResched' = TRUE,
           needResched \in BOOLEAN
    PROVE  HighestClassRuns'
  BY DEF HighestClassRuns

\* A wake-up compares the classes.
LEMMA WakeUpHighest ==
    ASSUME IInv, HighestClassRuns, NEW p \in Tasks,
           onRq' = [onRq EXCEPT ![p] = TRUE], class' = class, curr' = curr,
           needResched' \in CheckPreemptCurr(p, class, prio)
    PROVE  HighestClassRuns'
  <1>1. /\ onRq \in [Tasks -> BOOLEAN] /\ needResched \in BOOLEAN
        /\ class \in [Tasks \cup {Idle} -> Classes]
        /\ curr \in Tasks \cup {Idle} /\ class[p] \in Queueable
    BY DEF IInv, QueueInv, QueueTypesOK, AttrInv, AttrTypes, ClassesOK
  <1>2. needResched' \in BOOLEAN /\ (needResched = TRUE => needResched' = TRUE)
    BY <1>1, PreemptBoolean, NeedKept
  <1>3. ASSUME needResched' = FALSE PROVE ClassRank(class[curr]) <= ClassRank(class[p])
    <2>1. CASE class[p] = class[curr]
      BY <1>1, <2>1, Ranks DEF Queueable
    <2>2. CASE class[p] # class[curr]
      <3>1. CheckPreemptCurr(p, class, prio)
              = {needResched \/ ClassRank(class[p]) < ClassRank(class[curr])}
        BY <2>2, Zenon DEF CheckPreemptCurr
      <3>2. ~(ClassRank(class[p]) < ClassRank(class[curr]))
        BY <1>1, <1>3, <3>1
      <3>3. class[curr] \in Classes
        BY <1>1
      <3> QED BY <1>1, <3>2, <3>3, Ranks DEF Queueable, Classes
    <2> QED BY <2>1, <2>2
  <1>4. \A r \in Tasks \ {p} : onRq'[r] = onRq[r]
    BY <1>1
  <1> QED BY <1>1, <1>2, <1>3, <1>4 DEF HighestClassRuns

LEMMA HighestStep ==
    ASSUME IInv, ClassInv, [Next]_vars, HighestClassRuns
    PROVE  HighestClassRuns' \/ SelfSwitch
  <1>1. /\ rq \in RqType /\ onRq \in [Tasks -> BOOLEAN] /\ needResched \in BOOLEAN
        /\ class \in [Tasks \cup {Idle} -> Classes]
        /\ curr \in Tasks \cup {Idle} /\ class[Idle] = "idle"
        /\ curr \in Tasks => onRq[curr]
        /\ \A p \in Tasks : class[p] \in Queueable /\ prio[p] \in Nat
        /\ Members(rq, onRq, class) /\ Counted(rq) /\ StatesAgree(state, onRq)
    BY PrioAssumption DEF IInv, QueueInv, QueueTypesOK, AttrInv, AttrTypes, ClassesOK
  <1>2. \A p \in Tasks : /\ staticPrio[p] \in StaticPrios /\ piTop[p] \in PiPrios \cup {NoWaiter}
                         /\ rtPriority[p] \in RtPriorities \cup {0}
    BY DEF IInv, AttrInv, AttrTypes
  <1>3. CASE PrepareToWait \/ FinishWait \/ TracedFault \/ UNCHANGED vars
    <2>1. UNCHANGED <<curr, class, onRq, needResched>>
      BY <1>3 DEF PrepareToWait, FinishWait, TracedFault, vars
    <2> QED BY <1>1, <2>1, SameHighest
  <1>4. CASE ScheduleRunning \/ PreemptSchedule
    <2>1. SwitchTo(rq) /\ onRq' = onRq /\ class' = class
      BY <1>4 DEF ScheduleRunning, PreemptSchedule
    <2> QED BY <1>1, <2>1, SwitchHighest
  <1>5. CASE ScheduleAsleep
    <2>1. /\ curr \in Tasks /\ SwitchTo(Dequeue(rq, curr, class[curr]))
          /\ onRq' = [onRq EXCEPT ![curr] = FALSE] /\ class' = class
      BY <1>5 DEF ScheduleAsleep
    <2>2. /\ Dequeue(rq, curr, class[curr]) \in RqType
          /\ Members(Dequeue(rq, curr, class[curr]), onRq', class')
          /\ Counted(Dequeue(rq, curr, class[curr]))
      BY <1>1, <2>1, DequeueConsistent
    <2> QED BY <1>1, <2>1, <2>2, SwitchHighest
  <1>6. CASE Exit
    <2> DEFINE q == Dequeue(rq, curr, class[curr])
    <2>1. /\ curr \in Tasks /\ SwitchTo(q)
          /\ onRq' = [onRq EXCEPT ![curr] = FALSE]
          /\ class' = [class EXCEPT ![curr] = "fair"]
      BY <1>6 DEF Exit, InSyscall
    <2>2. q \in RqType /\ Members(q, onRq', class) /\ Counted(q)
      BY <1>1, <2>1, DequeueConsistent
    <2> HIDE DEF q
    <2>3. /\ ~onRq'[curr] /\ \A r \in Tasks \ {curr} : class'[r] = class[r]
          /\ class'[Idle] = "idle" /\ \A r \in Tasks : class'[r] \in Queueable
      BY <1>1, <2>1, IdleAssumption DEF Queueable
    <2>4. Members(q, onRq', class')
      BY <2>2, <2>3 DEF Members
    <2> QED BY <1>1, <2>1, <2>2, <2>3, <2>4, SwitchHighest
  <1>7. CASE Yield
    <2> DEFINE q == CASE class[curr] = "ras"  -> RequeueRas(rq, curr)
                      [] class[curr] = "rt"   -> RequeueRt(rq, curr)
                      [] class[curr] = "fair" -> rq
    <2>1. curr \in Tasks /\ SwitchTo(q) /\ onRq' = onRq /\ class' = class
      BY <1>7 DEF Yield, InSyscall
    <2>2. /\ class[curr] = "ras" => q = RequeueRas(rq, curr)
          /\ class[curr] = "rt" => q = RequeueRt(rq, curr)
          /\ class[curr] = "fair" => q = rq
      BY Zenon
    <2> HIDE DEF q
    <2>3. q \in RqType /\ Members(q, onRq, class) /\ Counted(q)
      <3>1. CASE class[curr] = "ras"
        BY <1>1, <2>1, <2>2, <3>1, RequeueRasConsistent
      <3>2. CASE class[curr] = "rt"
        BY <1>1, <2>1, <2>2, <3>2, RequeueRtConsistent
      <3>3. CASE class[curr] = "fair"
        BY <1>1, <2>2, <3>3
      <3> QED BY <1>1, <2>1, <3>1, <3>2, <3>3 DEF Queueable
    <2> QED BY <1>1, <2>1, <2>3, SwitchHighest
  <1>8. CASE SchedulerTick
    <2>1. UNCHANGED <<curr, onRq, class>>
      BY <1>8 DEF SchedulerTick
    <2>2. needResched = TRUE => needResched' = TRUE
      BY <1>8 DEF SchedulerTick, TaskTickRas, TaskTickRt, TaskTickFair
    <2> QED BY <1>1, <2>1, <2>2, SameHighest
  <1>9. ASSUME NEW p \in Tasks, WakeUp(p) \/ WakeUpNewTask(p) PROVE HighestClassRuns'
    BY <1>9, WakeUpHighest DEF WakeUp, WakeUpNewTask
  <1>10. ASSUME NEW p \in Tasks, StartTrace(p) \/ StopTrace(p) PROVE HighestClassRuns'
    <2>1. UNCHANGED <<curr, class, onRq, needResched>>
      BY <1>10 DEF StartTrace, StopTrace
    <2> QED BY <1>1, <2>1, SameHighest
  <1>11. ASSUME NEW c \in Tasks, SchedFork(c) PROVE HighestClassRuns'
    <2>1. UNCHANGED <<curr, onRq, needResched>> /\ state[c] = "unused" /\ curr \in Tasks
      BY <1>11 DEF SchedFork, InSyscall
    <2>2. ~onRq[c] /\ curr # c
      BY <1>1, <2>1 DEF StatesAgree
    <2>3. \A r \in Tasks \ {c} : class'[r] = class[r]
      BY <1>1, <1>11 DEF SchedFork
    <2> QED BY <1>1, <2>1, <2>2, <2>3, SameHighest
  <1>12. ASSUME NEW p \in Tasks, NEW pol \in Policies, NEW rtp \in RtPriorities \cup {0},
                NEW reset \in ResetFlags, SetScheduler(p, pol, rtp, reset)
         PROVE  HighestClassRuns' \/ SelfSwitch
    <2> DEFINE pr == PiPrio(NormalPrioOf(pol, rtp, staticPrio[p]), piTop[p])
    <2>1. /\ Reclass(p, SchedClass(pol, pr), pr, FALSE, FALSE)
          /\ UNCHANGED <<curr, onRq>>
      BY <1>12 DEF SetScheduler
    <2>2. pr \in 0 .. MAX_PRIO
      BY <1>2, NormalPrioBounds, PiPrioBounds
    <2> HIDE DEF pr
    <2>3. SchedClass(pol, pr) \in Queueable /\ (SchedClass(pol, pr) = "rt" => RtPrio(pr))
      BY ClassChoice DEF SchedClass, ClassByPrio
    <2> QED BY <2>1, <2>2, <2>3, ReclassHighest
  <1>13. ASSUME NEW p \in Tasks, NEW pr \in 0 .. MAX_PRIO, NEW head, NEW need \in BOOLEAN,
                Reclass(p, ClassByPrio(pr), pr, head, need), UNCHANGED <<curr, onRq>>
         PROVE  HighestClassRuns' \/ SelfSwitch
    <2>1. ClassByPrio(pr) \in Queueable /\ (ClassByPrio(pr) = "rt" => RtPrio(pr))
      BY DEF ClassByPrio, Queueable
    <2> QED BY <1>13, <2>1, ReclassHighest
  <1>14. ASSUME NEW p \in Tasks, NEW top \in PiPrios \cup {NoWaiter}, RtMutexSetPrio(p, top)
         PROVE  HighestClassRuns' \/ SelfSwitch
    <2> DEFINE pr == PiPrio(NormalPrio(p), top)
               lower == prio[p] < pr
    <2>1. UNCHANGED <<curr, onRq>>
      BY <1>14 DEF RtMutexSetPrio
    <2>2. UNCHANGED <<class, needResched>> \/ Reclass(p, ClassByPrio(pr), pr, lower, FALSE)
      BY <1>14 DEF RtMutexSetPrio
    <2>3. pr \in 0 .. MAX_PRIO
      BY <1>2, NormalPrioBounds, PiPrioBounds DEF NormalPrio
    <2> HIDE DEF pr, lower
    <2>4. CASE UNCHANGED <<class, needResched>>
      BY <1>1, <2>1, <2>4, SameHighest
    <2> QED BY <1>13, <2>1, <2>2, <2>3, <2>4
  <1>15. ASSUME NEW p \in Tasks, NormalizeTask(p) PROVE HighestClassRuns' \/ SelfSwitch
    <2> DEFINE pr == PiPrio(staticPrio[p], piTop[p])
    <2>1. /\ Reclass(p, ClassByPrio(pr), pr, FALSE, onRq[p])
          /\ UNCHANGED <<curr, onRq>>
      BY <1>15 DEF NormalizeTask
    <2>2. pr \in 0 .. MAX_PRIO
      BY <1>2, NiceNotRt, PiPrioBounds
    <2>3. onRq[p] \in BOOLEAN
      BY <1>1
    <2> HIDE DEF pr
    <2> QED BY <1>13, <2>1, <2>2, <2>3
  <1>16. ASSUME NEW p \in Tasks, NEW sp \in StaticPrios, SetUserNice(p, sp)
         PROVE  HighestClassRuns'
    <2>1. UNCHANGED <<curr, onRq, class>> /\ (needResched = TRUE => needResched' = TRUE)
      BY <1>16 DEF SetUserNice
    <2> QED BY <1>1, <2>1, SameHighest
  <1> QED BY <1>3, <1>4, <1>5, <1>6, <1>7, <1>8, <1>9, <1>10, <1>11, <1>12, <1>14, <1>15, <1>16
          DEF Next

\* The one step that leaves a task of a higher class waiting without a pending
\* reschedule: a running task, real-time or boosted, becomes SCHED_RAS, or
\* another one becomes real-time under it.
THEOREM OnlySelfSwitchTheorem == Spec => OnlySelfSwitchHidesRt
  <1>1. IInv /\ ClassInv /\ [Next]_vars
          => [HighestClassRuns /\ ~HighestClassRuns' =>
                /\ curr' = curr /\ class'[curr] = "ras"
                /\ class[curr] = "rt" \/ RtPrio(prio[curr])]_vars
    BY HighestStep DEF SelfSwitch
  <1> QED BY <1>1, ClassInvariant, PTL DEF Spec, OnlySelfSwitchHidesRt

-----------------------------------------------------------------------------
(* Without real-time tasks and priority inheritance *)

\* Nobody asks for a real-time priority, and no rt_mutex has a waiter: what a
\* system with the RAS and the fair class alone is.  With real-time tasks the
\* two invariants of this section are false (OnlySelfSwitchHidesRt has the step
\* that breaks them).
RasAndFairOnly == RtPriorities = {} /\ PiPrios = {}

NoRt ==
    \A p \in Tasks : /\ class[p] \in {"ras", "fair"}
                     /\ prio[p] = staticPrio[p]
                     /\ piTop[p] = NoWaiter

RasInv == NoRt /\ HighestClassRuns /\ HeadRuns

\* A step that gives one task a class and a priority that fit.
LEMMA NoRtStep ==
    ASSUME AttrInv, NoRt, NEW p \in Tasks,
           class' = [class EXCEPT ![p] = class'[p]], class'[p] \in {"ras", "fair"},
           prio' = [prio EXCEPT ![p] = prio'[p]], prio'[p] = staticPrio'[p],
           staticPrio' = [staticPrio EXCEPT ![p] = staticPrio'[p]],
           piTop' = piTop
    PROVE  NoRt'
  <1>1. \A r \in Tasks \ {p} : /\ class'[r] = class[r] /\ prio'[r] = prio[r]
                               /\ staticPrio'[r] = staticPrio[r]
    BY DEF AttrInv, AttrTypes
  <1> QED BY <1>1 DEF NoRt

\* What the hypothesis says of the priorities and of the calls that can happen.
LEMMA NoRtFacts ==
    ASSUME RasAndFairOnly, AttrInv, NoRt, NEW p \in Tasks
    PROVE  /\ ~RtPrio(prio[p]) /\ staticPrio[p] \in StaticPrios /\ prio[p] \in 0 .. MAX_PRIO
           /\ PiPrios \cup {NoWaiter} = {NoWaiter} /\ RtPriorities \cup {0} = {0}
           /\ \A pr \in 0 .. MAX_PRIO : PiPrio(pr, piTop[p]) = pr
           /\ \A pol : ~RtPolicy(pol) => NormalPrioOf(pol, 0, staticPrio[p]) = staticPrio[p]
  <1>1. staticPrio[p] \in StaticPrios /\ prio[p] \in 0 .. MAX_PRIO /\ prio[p] = staticPrio[p]
    BY DEF AttrInv, AttrTypes, NoRt
  <1>2. ~RtPrio(prio[p])
    BY <1>1, NiceNotRt
  <1>3. \A pr \in 0 .. MAX_PRIO : PiPrio(pr, piTop[p]) = pr
    BY PrioAssumption DEF NoRt, PiPrio, NoWaiter
  <1> QED BY <1>1, <1>2, <1>3 DEF RasAndFairOnly, NormalPrioOf

LEMMA NoRtNext ==
    ASSUME RasAndFairOnly, IInv, NoRt, [Next]_vars
    PROVE  NoRt'
  <1>1. AttrInv /\ AttrTypes /\ NICE_0_PRIO \in StaticPrios
    BY PrioAssumption DEF IInv, AttrInv
  <1>2. CASE UNCHANGED <<class, prio, staticPrio, piTop>>
    BY <1>2 DEF NoRt
  <1>3. CASE PrepareToWait \/ FinishWait \/ ScheduleRunning \/ ScheduleAsleep
    BY <1>2, <1>3 DEF PrepareToWait, FinishWait, ScheduleRunning, ScheduleAsleep, taskVars
  <1>4. CASE PreemptSchedule \/ Yield \/ SchedulerTick \/ TracedFault \/ UNCHANGED vars
    <2>1. UNCHANGED <<class, prio, staticPrio, piTop>>
      BY <1>4, Zenon DEF PreemptSchedule, Yield, SchedulerTick, TracedFault, vars, taskVars
    <2> QED BY <1>2, <2>1
  <1>5. ASSUME NEW p \in Tasks, WakeUp(p) \/ WakeUpNewTask(p) \/ StartTrace(p) \/ StopTrace(p)
        PROVE  NoRt'
    BY <1>2, <1>5 DEF WakeUp, WakeUpNewTask, StartTrace, StopTrace, taskVars
  <1>6. CASE Exit
    <2>1. /\ curr \in Tasks
          /\ class' = [class EXCEPT ![curr] = "fair"]
          /\ prio' = [prio EXCEPT ![curr] = NICE_0_PRIO]
          /\ staticPrio' = [staticPrio EXCEPT ![curr] = NICE_0_PRIO]
          /\ piTop' = piTop
      BY <1>6 DEF Exit, InSyscall
    <2>2. /\ class'[curr] = "fair" /\ prio'[curr] = NICE_0_PRIO
          /\ staticPrio'[curr] = NICE_0_PRIO
      BY <1>1, <2>1 DEF AttrTypes
    <2> QED BY <1>1, <2>1, <2>2, NoRtStep
  <1>7. ASSUME NEW c \in Tasks, SchedFork(c) PROVE NoRt'
    <2>1. PICK cl \in {"rt", "fair"}, pr \in 0 .. MAX_PRIO :
              /\ class' = [class EXCEPT ![c] = cl] /\ prio' = [prio EXCEPT ![c] = pr]
              /\ staticPrio'[c] = pr \/ cl = "rt"
              /\ cl = "rt" => class[curr] = "rt"
      BY <1>1, <1>7, ForkFacts
    <2>2. curr \in Tasks
      BY <1>7 DEF SchedFork, InSyscall
    <2>3. cl = "fair"
      BY <2>1, <2>2 DEF NoRt
    <2>4. staticPrio' = [staticPrio EXCEPT ![c] = staticPrio'[c]] /\ piTop' = piTop
      BY <1>1, <1>7 DEF SchedFork, AttrTypes
    <2>5. class'[c] = cl /\ prio'[c] = pr
      BY <1>1, <2>1 DEF AttrTypes
    <2> QED BY <1>1, <2>1, <2>3, <2>4, <2>5, NoRtStep
  <1>8. ASSUME NEW p \in Tasks, NEW pol \in Policies, NEW rtp \in RtPriorities \cup {0},
               NEW reset \in ResetFlags, SetScheduler(p, pol, rtp, reset)
        PROVE  NoRt'
    <2> DEFINE pr == PiPrio(NormalPrioOf(pol, rtp, staticPrio[p]), piTop[p])
    <2>1. /\ prio' = [prio EXCEPT ![p] = pr]
          /\ class' = [class EXCEPT ![p] = SchedClass(pol, pr)]
          /\ staticPrio' = staticPrio /\ piTop' = piTop
          /\ RtPolicy(pol) <=> rtp # 0
      BY <1>8 DEF SetScheduler, Reclass
    <2>2. rtp = 0 /\ ~RtPolicy(pol) /\ staticPrio[p] \in StaticPrios
      BY <1>1, <2>1, NoRtFacts
    <2>3. pr = staticPrio[p] /\ ~RtPrio(pr)
      BY <1>1, <2>2, NoRtFacts, NiceNotRt
    <2> HIDE DEF pr
    <2>4. SchedClass(pol, pr) \in {"ras", "fair"}
      BY <2>3 DEF SchedClass, ClassByPrio
    <2>5. class'[p] = SchedClass(pol, pr) /\ prio'[p] = pr
      BY <1>1, <2>1 DEF AttrTypes
    <2>6. staticPrio' = [staticPrio EXCEPT ![p] = staticPrio'[p]]
      BY <1>1, <2>1 DEF AttrTypes
    <2> QED BY <1>1, <2>1, <2>3, <2>4, <2>5, <2>6, NoRtStep
  <1>9. ASSUME NEW p \in Tasks, NEW top \in PiPrios \cup {NoWaiter}, RtMutexSetPrio(p, top)
        PROVE  NoRt'
    <2>1. top = NoWaiter /\ piTop[p] = NoWaiter
      BY <1>1, NoRtFacts DEF NoRt
    <2> QED BY <1>9, <2>1 DEF RtMutexSetPrio
  <1>10. ASSUME NEW p \in Tasks, NormalizeTask(p) PROVE NoRt'
    BY <1>1, <1>10, NoRtFacts DEF NormalizeTask
  <1>11. ASSUME NEW p \in Tasks, NEW sp \in StaticPrios, SetUserNice(p, sp) PROVE NoRt'
    <2>1. class' = class /\ piTop' = piTop /\ staticPrio' = [staticPrio EXCEPT ![p] = sp]
      BY <1>11 DEF SetUserNice
    <2>2. ~RtPolicy(policy[p]) /\ ~RtPrio(prio[p])
      BY <1>1, NoRtFacts DEF NoRt, AttrInv, RtPolicyHasRtClass
    <2>3. prio' = [prio EXCEPT ![p] = sp]
      BY <1>1, <1>11, <2>2 DEF SetUserNice
    <2>4. /\ class' = [class EXCEPT ![p] = class'[p]] /\ class'[p] \in {"ras", "fair"}
          /\ prio'[p] = sp /\ staticPrio'[p] = sp
      BY <1>1, <2>1, <2>3 DEF AttrTypes, NoRt
    <2> QED BY <1>1, <2>1, <2>3, <2>4, NoRtStep
  <1> QED BY <1>3, <1>4, <1>5, <1>6, <1>7, <1>8, <1>9, <1>10, <1>11 DEF Next

\* The head of a list stays when another entry leaves or a new one comes last.
LEMMA HeadStays ==
    ASSUME NEW s \in Seq(Tasks), s # <<>>
    PROVE  /\ Head(s) \in Range(s)
           /\ \A p \in Tasks : Append(s, p) # <<>> /\ Head(Append(s, p)) = Head(s)
           /\ \A p \in Range(s) : IsInjective(s) /\ p # Head(s) =>
                 RemoveFirst(s, p) # <<>> /\ Head(RemoveFirst(s, p)) = Head(s)
  <1>1. Len(s) \in Nat /\ Len(s) # 0 /\ DOMAIN s = 1 .. Len(s)
    BY RangeProperties, LenProperties
  <1>2. \A t \in Seq(Tasks) : Len(t) \in Nat /\ (Len(t) # 0 => t # <<>> /\ Head(t) = t[1])
    BY RangeProperties
  <1>3. Head(s) = s[1] /\ 1 \in 1 .. Len(s)
    BY <1>1, <1>2
  <1>4. Head(s) \in Range(s)
    BY <1>1, <1>3 DEF Range
  <1>5. ASSUME NEW p \in Tasks PROVE Append(s, p) # <<>> /\ Head(Append(s, p)) = Head(s)
    <2> DEFINE t == Append(s, p)
    <2>1. t \in Seq(Tasks) /\ Len(t) = Len(s) + 1 /\ t[1] = s[1]
      BY <1>3, AppendProperties
    <2> HIDE DEF t
    <2>2. t # <<>> /\ Head(t) = s[1]
      BY <1>1, <1>2, <2>1
    <2> QED BY <1>3, <2>2 DEF t
  <1>6. ASSUME NEW p \in Range(s), IsInjective(s), p # Head(s)
        PROVE  RemoveFirst(s, p) # <<>> /\ Head(RemoveFirst(s, p)) = Head(s)
    <2> DEFINE t == RemoveFirst(s, p)
    <2>1. t \in Seq(Tasks) /\ Len(t) = Len(s) - 1
      BY <1>6, DelSplices
    <2>2. PICK k \in 1 .. Len(s) :
            /\ s[k] = p
            /\ \A i \in 1 .. Len(s) - 1 : t[i] = IF i < k THEN s[i] ELSE s[i + 1]
      BY <1>6, DelSplices
    <2>3. k # 1
      BY <1>3, <1>6, <2>2
    <2> HIDE DEF t
    <2>4. 1 \in 1 .. Len(s) - 1 /\ 1 < k
      BY <1>1, <2>2, <2>3
    <2>5. Len(t) # 0 /\ t[1] = s[1]
      BY <1>1, <2>1, <2>2, <2>4
    <2>6. t # <<>> /\ Head(t) = s[1]
      BY <1>2, <2>1, <2>5
    <2> QED BY <1>3, <2>6 DEF t
  <1> QED BY <1>4, <1>5, <1>6

\* After schedule() a RAS task that runs is the head of its list.
LEMMA SwitchHead ==
    ASSUME NEW q \in RqType, Members(q, onRq', class'), Counted(q), SwitchTo(q),
           class'[Idle] = "idle"
    PROVE  HeadRuns'
  <1>1. curr' \in PickNextTask(q) /\ rq' = q
    BY DEF SwitchTo
  <1>2. /\ q.fair \subseteq Tasks /\ Range(q.rt) \subseteq Tasks
    BY QueueTypes
  <1>3. \A r \in PickRt(q) : class'[r] = "rt"
    BY <1>2 DEF PickRt, Range, Members
  <1>4. \A r \in q.fair : class'[r] = "fair"
    BY <1>2 DEF Members
  <1>5. class'[curr'] = "ras" => curr' \in PickRas(q)
    BY <1>1, <1>3, <1>4 DEF PickNextTask, PickFair
  <1>6. class'[curr'] = "ras" => curr' = Head(q.ras)
    BY <1>5 DEF PickRas
  <1> QED BY <1>1, <1>6 DEF HeadRuns

LEMMA EnqueueTail ==
    ASSUME NEW q \in RqType, NEW p \in Tasks, NEW c \in Queueable,
           rq' = Enqueue(q, p, c, FALSE)
    PROVE  /\ c = "ras" => rq'.ras = Append(q.ras, p)
           /\ c # "ras" => rq'.ras = q.ras
  <1>1. \A h \in BOOLEAN : ~h =>
          Enqueue(q, p, c, h).ras = IF c = "ras" THEN Append(q.ras, p) ELSE q.ras
    BY EnqueueRasList
  <1>2. Enqueue(q, p, c, FALSE).ras = IF c = "ras" THEN Append(q.ras, p) ELSE q.ras
    BY <1>1
  <1>3. rq'.ras = IF c = "ras" THEN Append(q.ras, p) ELSE q.ras
    BY <1>2, Zenon
  <1> QED BY <1>3

LEMMA FirstOnList ==
    ASSUME NEW s \in Seq(Tasks), Range(s) = {}, NEW p \in Tasks
    PROVE  Head(Append(s, p)) = p
  <1>1. Len(s) \in Nat /\ Range(s) = {s[i] : i \in 1 .. Len(s)}
    BY RangeProperties
  <1>2. Len(s) = 0
    <2>1. SUFFICES ASSUME Len(s) # 0 PROVE FALSE
      OBVIOUS
    <2>2. 1 \in 1 .. Len(s)
      BY <1>1, <2>1
    <2>3. s[1] \in Range(s)
      BY <1>1, <2>2
    <2> QED BY <2>3
  <1> DEFINE t == Append(s, p)
  <1>3. t \in Seq(Tasks) /\ Len(t) = 1 /\ t[1] = p
    BY <1>2, AppendProperties
  <1> HIDE DEF t
  <1>4. Head(t) = t[1]
    BY <1>3, RangeProperties
  <1> QED BY <1>3, <1>4 DEF t

\* A task that leaves its list and comes back to the end of one: the head that
\* runs stays the head if it is another task.
LEMMA OtherReclassed ==
    ASSUME IInv, NEW p \in Tasks, NEW c \in Queueable,
           rq' = IF onRq[p] THEN Enqueue(Dequeue(rq, p, class[p]), p, c, FALSE) ELSE rq,
           curr # p, curr \in Tasks, class[curr] = "ras", curr = Head(rq.ras)
    PROVE  curr = Head(rq'.ras)
  <1>1. /\ rq \in RqType /\ onRq \in [Tasks -> BOOLEAN] /\ onRq[curr]
        /\ class \in [Tasks \cup {Idle} -> Classes] /\ class[p] \in Queueable
        /\ Members(rq, onRq, class) /\ Counted(rq)
    BY DEF IInv, QueueInv, QueueTypesOK, AttrInv, AttrTypes, ClassesOK
  <1>2. CASE ~onRq[p]
    BY <1>2
  <1>3. CASE onRq[p]
    <2> DEFINE m == Dequeue(rq, p, class[p])
    <2>1. m \in RqType
      BY <1>1, <1>3, DequeueConsistent
    <2>2. m.ras = IF class[p] = "ras" THEN RemoveFirst(rq.ras, p) ELSE rq.ras
      BY <1>1, DequeueRasList
    <2>3. rq' = Enqueue(m, p, c, FALSE)
      BY <1>3
    <2> HIDE DEF m
    <2>4. /\ c = "ras" => rq'.ras = Append(m.ras, p)
          /\ c # "ras" => rq'.ras = m.ras
      BY <2>1, <2>3, EnqueueTail, Zenon
    <2>5. /\ rq.ras \in Seq(Tasks) /\ IsInjective(rq.ras) /\ m.ras \in Seq(Tasks)
          /\ p \in Range(rq.ras) <=> class[p] = "ras"
          /\ curr \in Range(rq.ras)
      BY <1>1, <1>3, <2>1, QueueTypes DEF Members, Counted
    <2>6. rq.ras # <<>>
      BY <2>5, RangeProperties
    <2>7. m.ras # <<>> /\ Head(m.ras) = curr
      BY <2>2, <2>5, <2>6, HeadStays
    <2>8. Head(Append(m.ras, p)) = curr
      BY <2>5, <2>7, HeadStays
    <2> QED BY <2>4, <2>7, <2>8
  <1> QED BY <1>2, <1>3

\* The only RAS task that comes to its list is the head.
LEMMA AloneOnList ==
    ASSUME IInv, NEW p \in Tasks, onRq[p], class[p] = "fair",
           \A r \in Tasks : onRq[r] => class[r] # "ras",
           rq' = Enqueue(Dequeue(rq, p, class[p]), p, "ras", FALSE)
    PROVE  p = Head(rq'.ras)
  <1>1. /\ rq \in RqType /\ onRq \in [Tasks -> BOOLEAN]
        /\ class \in [Tasks \cup {Idle} -> Classes]
        /\ Members(rq, onRq, class) /\ Counted(rq)
    BY DEF IInv, QueueInv, QueueTypesOK, AttrInv, AttrTypes, ClassesOK
  <1> DEFINE m == Dequeue(rq, p, class[p])
  <1>2. m \in RqType
    BY <1>1, DequeueConsistent DEF Queueable
  <1>3. m.ras = rq.ras
    BY <1>1, DequeueRasList DEF Queueable
  <1> HIDE DEF m
  <1>4. rq.ras \in Seq(Tasks) /\ Range(rq.ras) = {}
    BY <1>1, QueueTypes DEF Members
  <1>5. "ras" \in Queueable /\ rq' = Enqueue(m, p, "ras", FALSE)
    BY DEF m, Queueable
  <1>6. rq'.ras = Append(m.ras, p)
    BY <1>2, <1>5, EnqueueTail, Zenon
  <1> QED BY <1>3, <1>4, <1>6, FirstOnList

LEMMA HeadNext ==
    ASSUME RasAndFairOnly, IInv, RasInv, [Next]_vars
    PROVE  HeadRuns'
  <1>1. /\ rq \in RqType /\ onRq \in [Tasks -> BOOLEAN] /\ needResched \in BOOLEAN
        /\ class \in [Tasks \cup {Idle} -> Classes]
        /\ curr \in Tasks \cup {Idle} /\ class[Idle] = "idle"
        /\ curr \in Tasks => onRq[curr]
        /\ \A p \in Tasks : class[p] \in Queueable
        /\ Members(rq, onRq, class) /\ Counted(rq) /\ StatesAgree(state, onRq)
        /\ AttrInv /\ AttrTypes /\ RasClassHasRasPolicy /\ RtPolicyHasRtClass
    BY DEF IInv, QueueInv, QueueTypesOK, AttrInv, AttrTypes, ClassesOK
  <1>2. NoRt /\ HighestClassRuns /\ HeadRuns
    BY DEF RasInv
  <1>3. ASSUME UNCHANGED <<curr, rq>>, class'[curr] = class[curr],
               needResched = TRUE => needResched' = TRUE
        PROVE  HeadRuns'
    BY <1>1, <1>2, <1>3 DEF HeadRuns
  <1>4. CASE PrepareToWait \/ FinishWait \/ TracedFault \/ UNCHANGED vars
    <2>1. UNCHANGED <<curr, class, rq, needResched>>
      BY <1>4 DEF PrepareToWait, FinishWait, TracedFault, vars
    <2> QED BY <1>3, <2>1
  <1>5. CASE ScheduleRunning \/ PreemptSchedule
    <2>1. SwitchTo(rq) /\ onRq' = onRq /\ class' = class
      BY <1>5 DEF ScheduleRunning, PreemptSchedule
    <2> QED BY <1>1, <2>1, SwitchHead
  <1>6. CASE ScheduleAsleep
    <2>1. /\ curr \in Tasks /\ SwitchTo(Dequeue(rq, curr, class[curr]))
          /\ onRq' = [onRq EXCEPT ![curr] = FALSE] /\ class' = class
      BY <1>6 DEF ScheduleAsleep
    <2>2. /\ Dequeue(rq, curr, class[curr]) \in RqType
          /\ Members(Dequeue(rq, curr, class[curr]), onRq', class')
          /\ Counted(Dequeue(rq, curr, class[curr]))
      BY <1>1, <2>1, DequeueConsistent
    <2> QED BY <1>1, <2>1, <2>2, SwitchHead
  <1>7. CASE Exit
    <2> DEFINE q == Dequeue(rq, curr, class[curr])
    <2>1. /\ curr \in Tasks /\ SwitchTo(q)
          /\ onRq' = [onRq EXCEPT ![curr] = FALSE]
          /\ class' = [class EXCEPT ![curr] = "fair"]
      BY <1>7 DEF Exit, InSyscall
    <2>2. q \in RqType /\ Members(q, onRq', class) /\ Counted(q)
      BY <1>1, <2>1, DequeueConsistent
    <2> HIDE DEF q
    <2>3. /\ ~onRq'[curr] /\ \A r \in Tasks \ {curr} : class'[r] = class[r]
          /\ class'[Idle] = "idle"
      BY <1>1, <2>1, IdleAssumption
    <2>4. Members(q, onRq', class')
      BY <2>2, <2>3 DEF Members
    <2> QED BY <1>1, <2>1, <2>2, <2>3, <2>4, SwitchHead
  <1>8. CASE Yield
    <2> DEFINE q == CASE class[curr] = "ras"  -> RequeueRas(rq, curr)
                      [] class[curr] = "rt"   -> RequeueRt(rq, curr)
                      [] class[curr] = "fair" -> rq
    <2>1. curr \in Tasks /\ SwitchTo(q) /\ onRq' = onRq /\ class' = class
      BY <1>8 DEF Yield, InSyscall
    <2>2. /\ class[curr] = "ras" => q = RequeueRas(rq, curr)
          /\ class[curr] = "fair" => q = rq
      BY Zenon
    <2>3. class[curr] \in {"ras", "fair"}
      BY <1>2, <2>1 DEF NoRt
    <2> HIDE DEF q
    <2>4. q \in RqType /\ Members(q, onRq, class) /\ Counted(q)
      <3>1. CASE class[curr] = "ras"
        BY <1>1, <2>1, <2>2, <3>1, RequeueRasConsistent
      <3>2. CASE class[curr] = "fair"
        BY <1>1, <2>2, <3>2
      <3> QED BY <2>3, <3>1, <3>2
    <2> QED BY <1>1, <2>1, <2>4, SwitchHead
  <1>9. CASE SchedulerTick
    <2>1. UNCHANGED <<curr, onRq, class>>
      BY <1>9 DEF SchedulerTick
    <2>2. UNCHANGED <<rq, needResched>> \/ needResched' = TRUE
      BY <1>9 DEF SchedulerTick, TaskTickRas, TaskTickRt, TaskTickFair
    <2>3. CASE needResched' = TRUE
      BY <2>3 DEF HeadRuns
    <2>4. CASE UNCHANGED <<rq, needResched>>
      BY <1>3, <2>1, <2>4
    <2> QED BY <2>2, <2>3, <2>4
  \* A task joins the queue behind the head that runs.
  <1>10. ASSUME NEW p \in Tasks, rq' = rq \/ rq' = Enqueue(rq, p, class[p], FALSE),
               curr' = curr, class' = class, needResched = TRUE => needResched' = TRUE
        PROVE  HeadRuns'
    <2>1. CASE rq' = rq
      BY <1>3, <1>10, <2>1
    <2>2. CASE rq' = Enqueue(rq, p, class[p], FALSE)
      <3>1. rq'.ras = IF class[p] = "ras" THEN Append(rq.ras, p) ELSE rq.ras
        BY <1>1, <2>2, EnqueueTail
      <3> SUFFICES ASSUME class[curr] = "ras", ~needResched PROVE curr = Head(rq'.ras)
        BY <1>1, <1>10 DEF HeadRuns
      <3>2. curr \in Tasks /\ curr = Head(rq.ras)
        BY <1>1, <1>2 DEF HeadRuns
      <3>3. rq.ras \in Seq(Tasks) /\ curr \in Range(rq.ras)
        BY <1>1, <3>2, QueueTypes DEF Members
      <3>4. rq.ras # <<>>
        BY <3>3, RangeProperties
      <3> QED BY <3>1, <3>2, <3>3, <3>4, HeadStays
    <2> QED BY <1>10, <2>1, <2>2
  <1>11. ASSUME NEW p \in Tasks, WakeUp(p) \/ WakeUpNewTask(p) PROVE HeadRuns'
    <2>1. /\ rq' = rq \/ rq' = Enqueue(rq, p, class[p], FALSE)
          /\ curr' = curr /\ class' = class
          /\ needResched' \in CheckPreemptCurr(p, class, prio)
      BY <1>11 DEF WakeUp, WakeUpNewTask
    <2>2. needResched = TRUE => needResched' = TRUE
      BY <1>1, <2>1, NeedKept
    <2> QED BY <1>10, <2>1, <2>2
  <1>12. ASSUME NEW p \in Tasks, StartTrace(p) \/ StopTrace(p) PROVE HeadRuns'
    <2>1. UNCHANGED <<curr, class, rq, needResched>>
      BY <1>12 DEF StartTrace, StopTrace
    <2> QED BY <1>3, <2>1
  <1>13. ASSUME NEW c \in Tasks, SchedFork(c) PROVE HeadRuns'
    <2>1. UNCHANGED <<rq, curr, needResched>> /\ state[c] = "unused" /\ curr \in Tasks
      BY <1>13 DEF SchedFork, InSyscall
    <2>2. curr # c
      BY <1>1, <2>1 DEF StatesAgree
    <2>3. class'[curr] = class[curr]
      BY <1>1, <1>13, <2>1, <2>2 DEF SchedFork
    <2> QED BY <1>3, <2>1, <2>3
  <1>14. ASSUME NEW p \in Tasks, NEW pol \in Policies, NEW rtp \in RtPriorities \cup {0},
                NEW reset \in ResetFlags, SetScheduler(p, pol, rtp, reset)
         PROVE  HeadRuns'
    <2> DEFINE pr == PiPrio(NormalPrioOf(pol, rtp, staticPrio[p]), piTop[p])
               c  == SchedClass(pol, pr)
    <2>1. /\ Reclass(p, c, pr, FALSE, FALSE) /\ curr' = curr
          /\ pol # policy[p] \/ RtPolicy(pol)
      BY <1>14 DEF SetScheduler
    <2> HIDE DEF pr
    <2>2. c \in Queueable /\ (c = "ras" => pol = "RAS")
      BY ClassChoice
    <2>3. class[p] = "ras" => c # "ras"
      BY <1>1, <2>1, <2>2 DEF RasClassHasRasPolicy, RtPolicy
    <2> HIDE DEF c
    <2>4. /\ rq' = IF onRq[p] THEN Enqueue(Dequeue(rq, p, class[p]), p, c, FALSE) ELSE rq
          /\ class' = [class EXCEPT ![p] = c]
          /\ \E r \in CheckClassChanged(p, class', prio') : needResched' = (r \/ FALSE)
      BY <2>1 DEF Reclass
    <2>5. class'[p] = c /\ \A r \in (Tasks \cup {Idle}) \ {p} : class'[r] = class[r]
      BY <1>1, <2>4
    <2>6. needResched = TRUE => needResched' = TRUE
      BY <2>2, <2>4, <2>5, NeedKept
    <2> SUFFICES ASSUME class'[curr] = "ras", ~needResched' PROVE curr = Head(rq'.ras)
      BY <2>1 DEF HeadRuns
    <2>7. ~needResched
      BY <1>1, <2>6
    <2>8. CASE curr # p
      <3>1. class[curr] = "ras" /\ curr \in Tasks
        BY <1>1, <2>5, <2>8
      <3>2. curr = Head(rq.ras)
        BY <1>2, <2>7, <3>1 DEF HeadRuns
      <3> QED BY <2>2, <2>4, <2>8, <3>1, <3>2, OtherReclassed
    <2>9. CASE curr = p
      <3>1. c = "ras" /\ class[p] = "fair" /\ onRq[p]
        BY <1>1, <1>2, <2>3, <2>5, <2>9 DEF NoRt
      <3>2. \A r \in Tasks : onRq[r] => class[r] # "ras"
        BY <1>2, <2>7, <2>9, <3>1, Ranks DEF HighestClassRuns
      <3>3. rq' = Enqueue(Dequeue(rq, p, class[p]), p, "ras", FALSE)
        BY <2>4, <3>1
      <3> QED BY <2>9, <3>1, <3>2, <3>3, AloneOnList
    <2> QED BY <2>8, <2>9
  <1>15. ASSUME NEW p \in Tasks, NEW top \in PiPrios \cup {NoWaiter}, RtMutexSetPrio(p, top)
         PROVE  HeadRuns'
    <2>1. top = NoWaiter /\ piTop[p] = NoWaiter
      BY <1>1, <1>2, NoRtFacts DEF NoRt
    <2> QED BY <1>15, <2>1 DEF RtMutexSetPrio
  <1>16. ASSUME NEW p \in Tasks, NormalizeTask(p) PROVE HeadRuns'
    BY <1>1, <1>2, <1>16, NoRtFacts DEF NormalizeTask
  <1>17. ASSUME NEW p \in Tasks, NEW sp \in StaticPrios, SetUserNice(p, sp) PROVE HeadRuns'
    <2>1. /\ UNCHANGED <<curr, onRq, class>> /\ sp # staticPrio[p]
          /\ needResched = TRUE => needResched' = TRUE
      BY <1>17 DEF SetUserNice
    <2>2. ~RtPolicy(policy[p]) /\ ~RtPrio(prio[p]) /\ prio[p] = staticPrio[p]
          /\ prio[p] \in Nat /\ sp \in Nat
      BY <1>1, <1>2, NoRtFacts, NiceNotRt, PrioAssumption DEF NoRt, RtPolicyHasRtClass
    <2>3. /\ prio' = [prio EXCEPT ![p] = sp]
          /\ rq' = IF onRq[p] THEN Enqueue(Dequeue(rq, p, class[p]), p, class[p], FALSE)
                   ELSE rq
          /\ needResched' = \/ needResched
                            \/ onRq[p] /\ prio'[p] < prio[p]
                            \/ onRq[p] /\ prio'[p] > prio[p] /\ curr = p
      BY <1>17, <2>2 DEF SetUserNice
    <2> SUFFICES ASSUME class[curr] = "ras", ~needResched' PROVE curr = Head(rq'.ras)
      BY <2>1 DEF HeadRuns
    <2>4. curr \in Tasks /\ ~needResched /\ curr = Head(rq.ras)
      BY <1>1, <1>2, <2>1 DEF HeadRuns
    <2>5. curr # p
      <3> SUFFICES ASSUME curr = p PROVE FALSE
        OBVIOUS
      <3>1. prio'[p] = sp /\ onRq[p]
        BY <1>1, <2>3, <2>4 DEF AttrTypes
      <3> QED BY <2>1, <2>2, <2>3, <3>1
    <2> QED BY <1>1, <2>3, <2>4, <2>5, OtherReclassed
  <1> QED BY <1>4, <1>5, <1>6, <1>7, <1>8, <1>9, <1>11, <1>12, <1>13, <1>14, <1>15, <1>16,
             <1>17 DEF Next

LEMMA RasInit == Init => RasInv
  <1> SUFFICES ASSUME Init PROVE RasInv
    OBVIOUS
  <1>1. PICK t \in Tasks :
          /\ curr = t /\ onRq = [p \in Tasks |-> p = t]
          /\ class = [p \in Tasks \cup {Idle} |-> IF p = Idle THEN "idle" ELSE "fair"]
    BY DEF Init
  <1>2. \A p \in Tasks : class[p] = "fair"
    BY <1>1, IdleAssumption
  <1>3. NoRt
    BY <1>2, IdleAssumption DEF Init, NoRt
  <1>4. HighestClassRuns
    BY <1>1, <1>2, Ranks DEF HighestClassRuns
  <1>5. HeadRuns
    BY <1>1, <1>2 DEF HeadRuns
  <1> QED BY <1>3, <1>4, <1>5 DEF RasInv

LEMMA RasNext ==
    ASSUME RasAndFairOnly, IInv, ClassInv, RasInv, [Next]_vars
    PROVE  RasInv'
  <1>1. NoRt /\ HighestClassRuns /\ curr \in Tasks \cup {Idle} /\ AttrInv
        /\ class[Idle] = "idle" /\ prio[Idle] = MAX_PRIO
    BY DEF RasInv, IInv, QueueInv, QueueTypesOK, ClassInv, AttrInv, ClassesOK
  <1>2. ~SelfSwitch
    <2>1. ~RtPrio(MAX_PRIO)
      BY PrioAssumption DEF RtPrio
    <2>2. \A p \in Tasks : class[p] # "rt" /\ ~RtPrio(prio[p])
      BY <1>1, NoRtFacts DEF NoRt
    <2> QED BY <1>1, <2>1, <2>2 DEF SelfSwitch
  <1> QED BY <1>1, <1>2, NoRtNext, HighestStep, HeadNext DEF RasInv

LEMMA RasInvariant ==
    ASSUME RasAndFairOnly
    PROVE  Spec => []RasInv
  <1>1. RasInv /\ IInv /\ ClassInv /\ [Next]_vars => RasInv'
    BY RasNext
  <1> QED BY <1>1, ClassInvariant, RasInit, PTL DEF Spec

\* As long as nobody is real-time and no priority is inherited, the RAS task
\* that runs is the head of its queue unless a reschedule is pending.
THEOREM HeadRunsTheorem == RasAndFairOnly => (Spec => []HeadRuns)
  <1> SUFFICES ASSUME RasAndFairOnly PROVE Spec => []HeadRuns
    OBVIOUS
  <1>1. RasInv => HeadRuns
    BY DEF RasInv
  <1> QED BY <1>1, RasInvariant, PTL

\* As long as nobody is real-time and no priority is inherited, no RAS task
\* waits for a fair one, or for idle, without a pending reschedule.
THEOREM HighestClassTheorem == RasAndFairOnly => (Spec => []HighestClassRuns)
  <1> SUFFICES ASSUME RasAndFairOnly PROVE Spec => []HighestClassRuns
    OBVIOUS
  <1>1. RasInv => HighestClassRuns
    BY DEF RasInv
  <1> QED BY <1>1, RasInvariant, PTL

=============================================================================
