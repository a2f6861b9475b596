-------------------------- MODULE RtBalanceProofs ---------------------------
(***************************************************************************)
(* Theorems about RtBalance, for any number of processors and tasks, any   *)
(* priorities and affinities, and any processors that may be unplugged.    *)
(***************************************************************************)
EXTENDS RtBalance, RunListProofs, FiniteSetTheorems

-----------------------------------------------------------------------------
(* Priority lists (plist_add and plist_del of include/linux/plist.h) *)

Sorted(l, pr) == \A i, j \in 1 .. Len(l) : i < j => pr[l[i]] <= pr[l[j]]

LEMMA InsertAtProperties ==
    ASSUME NEW S, NEW l \in Seq(S), NEW i \in 1 .. Len(l) + 1, NEW e \in S
    PROVE  /\ InsertAt(l, i, e) \in Seq(S)
           /\ Len(InsertAt(l, i, e)) = Len(l) + 1
           /\ \A j \in 1 .. Len(l) + 1 :
                 InsertAt(l, i, e)[j] = IF j < i THEN l[j] ELSE IF j = i THEN e ELSE l[j - 1]
  <1>1. Len(l) \in Nat /\ \A j \in 1 .. Len(l) : l[j] \in S
    BY RangeProperties, ElementOfSeq
  <1> DEFINE a == SubSeq(l, 1, i - 1)
             b == SubSeq(l, i, Len(l))
             m == <<e>>
             am == a \o m
             t == am \o b
  <1>2. /\ a \in Seq(S) /\ Len(a) = i - 1
        /\ \A j \in 1 .. i - 1 : a[j] = l[j]
    <2>1. i - 1 \in Int /\ \A j \in 1 .. i - 1 : l[j] \in S
      BY <1>1
    <2>2. /\ a \in Seq(S)
          /\ Len(a) = IF 1 <= i - 1 THEN i - 1 - 1 + 1 ELSE 0
          /\ \A j \in 1 .. i - 1 - 1 + 1 : a[j] = l[1 + j - 1]
      BY <2>1, SubSeqProperties
    <2> HIDE DEF a
    <2> QED BY <2>2, <1>1
  <1>3. /\ b \in Seq(S) /\ Len(b) = Len(l) - i + 1
        /\ \A j \in 1 .. Len(l) - i + 1 : b[j] = l[i + j - 1]
    <2>1. i \in Int /\ Len(l) \in Int /\ \A j \in i .. Len(l) : l[j] \in S
      BY <1>1
    <2>2. /\ b \in Seq(S)
          /\ Len(b) = IF i <= Len(l) THEN Len(l) - i + 1 ELSE 0
          /\ \A j \in 1 .. Len(l) - i + 1 : b[j] = l[i + j - 1]
      BY <2>1, SubSeqProperties
    <2> HIDE DEF b
    <2> QED BY <2>2, <1>1
  <1>4. m \in Seq(S) /\ Len(m) = 1 /\ m[1] = e
    OBVIOUS
  <1>5. InsertAt(l, i, e) = t
    BY DEF InsertAt
  <1> HIDE DEF a, b, m
  <1>6. /\ am \in Seq(S) /\ Len(am) = Len(a) + Len(m)
        /\ \A j \in 1 .. Len(a) + Len(m) : am[j] = IF j <= Len(a) THEN a[j] ELSE m[j - Len(a)]
    BY <1>2, <1>4, ConcatProperties
  <1> HIDE DEF am
  <1>7. /\ t \in Seq(S) /\ Len(t) = Len(am) + Len(b)
        /\ \A j \in 1 .. Len(am) + Len(b) : t[j] = IF j <= Len(am) THEN am[j] ELSE b[j - Len(am)]
    <2>1. am \in Seq(S) /\ b \in Seq(S)
      BY <1>3, <1>6
    <2> QED BY <2>1, ConcatProperties
  <1> HIDE DEF t
  <1>8. Len(t) = Len(l) + 1 /\ Len(am) = i
    BY <1>1, <1>2, <1>3, <1>4, <1>6, <1>7
  <1>9. \A j \in 1 .. i : am[j] = IF j < i THEN l[j] ELSE e
    <2>1. i \in 1 .. Len(a) + Len(m) /\ am[i] = m[1]
      BY <1>1, <1>2, <1>4, <1>6
    <2>2. \A j \in 1 .. i - 1 : am[j] = l[j]
      BY <1>1, <1>2, <1>4, <1>6
    <2> QED BY <2>1, <2>2, <1>1, <1>4
  <1>10. \A j \in i + 1 .. Len(l) + 1 : t[j] = l[j - 1]
    <2> SUFFICES ASSUME NEW j \in i + 1 .. Len(l) + 1 PROVE t[j] = l[j - 1]
      OBVIOUS
    <2>1. t[j] = b[j - i] /\ j - i \in 1 .. Len(l) - i + 1
      BY <1>1, <1>3, <1>7, <1>8
    <2>2. b[j - i] = l[i + (j - i) - 1] /\ i + (j - i) - 1 = j - 1
      BY <1>3, <2>1
    <2> QED BY <2>1, <2>2
  <1>11. \A j \in 1 .. i : t[j] = am[j]
    BY <1>1, <1>3, <1>7, <1>8
  <1>12. \A j \in 1 .. Len(l) + 1 : t[j] = IF j < i THEN l[j] ELSE IF j = i THEN e ELSE l[j - 1]
    BY <1>1, <1>9, <1>10, <1>11
  <1> QED BY <1>5, <1>7, <1>8, <1>12

\* plist_del keeps the others in their order; of a task that is not on the list
\* it does nothing.
LEMMA RemoveSorted ==
    ASSUME NEW l \in Seq(Threads), IsInjective(l), NEW pr, Sorted(l, pr), NEW t \in Threads
    PROVE  /\ RemoveFirst(l, t) \in Seq(Threads)
           /\ IsInjective(RemoveFirst(l, t))
           /\ Range(RemoveFirst(l, t)) = Range(l) \ {t}
           /\ Sorted(RemoveFirst(l, t), pr)
  <1> DEFINE r == RemoveFirst(l, t)
  <1>1. CASE t \notin Range(l)
    <2>1. ~ \E i \in 1 .. Len(l) : l[i] = t
      BY <1>1, RangeProperties
    <2>2. r = l
      BY <2>1 DEF RemoveFirst
    <2> QED BY <1>1, <2>2
  <1>2. CASE t \in Range(l)
    <2>1. /\ r \in Seq(Threads) /\ IsInjective(r) /\ Range(r) = Range(l) \ {t}
          /\ Len(r) = Len(l) - 1
      BY <1>2, DelFromList
    <2>2. PICK n \in 1 .. Len(l) :
            \A i \in 1 .. Len(l) - 1 : r[i] = IF i < n THEN l[i] ELSE l[i + 1]
      BY <1>2, DelSplices
    <2> HIDE DEF r
    <2>3. Sorted(r, pr)
      <3> SUFFICES ASSUME NEW i \in 1 .. Len(r), NEW j \in 1 .. Len(r), i < j
                   PROVE  pr[r[i]] <= pr[r[j]]
        BY DEF Sorted
      <3>1. Len(l) \in Nat
        BY RangeProperties
      <3>2. \A x, y \in 1 .. Len(l) : x < y => pr[l[x]] <= pr[l[y]]
        BY DEF Sorted
      <3>3. /\ i \in 1 .. Len(l) /\ j \in 1 .. Len(l) /\ i + 1 \in 1 .. Len(l) /\ j + 1 \in 1 .. Len(l)
            /\ i < j + 1 /\ i + 1 < j + 1
        BY <2>1, <3>1
      <3>4. CASE j < n
        BY <2>1, <2>2, <3>1, <3>2, <3>3, <3>4
      <3>5. CASE ~(j < n) /\ i < n
        BY <2>1, <2>2, <3>1, <3>2, <3>3, <3>5
      <3>6. CASE ~(j < n) /\ ~(i < n)
        BY <2>1, <2>2, <3>1, <3>2, <3>3, <3>6
      <3> QED BY <3>4, <3>5, <3>6
    <2> QED BY <2>1, <2>3 DEF r
  <1> QED BY <1>1, <1>2

\* plist_add puts a task before the first that is less urgent.
Place(l, pr, t) == Min({i \in 1 .. Len(l) + 1 : i > Len(l) \/ pr[l[i]] > pr[t]})

LEMMA PlaceIsFirst ==
    ASSUME NEW l \in Seq(Threads), NEW pr, NEW t
    PROVE  /\ Place(l, pr, t) \in 1 .. Len(l) + 1
           /\ Place(l, pr, t) > Len(l) \/ pr[l[Place(l, pr, t)]] > pr[t]
           /\ \A i \in 1 .. Len(l) : i < Place(l, pr, t) => ~(pr[l[i]] > pr[t])
  <1> DEFINE P == {i \in 1 .. Len(l) + 1 : i > Len(l) \/ pr[l[i]] > pr[t]}
  <1>1. Len(l) \in Nat
    BY RangeProperties
  <1>2. P \in SUBSET Nat /\ P # {}
    <2>1. Len(l) + 1 \in P
      BY <1>1
    <2> QED BY <1>1, <2>1
  <1>3. P \subseteq 1 .. Len(l) + 1 /\ \A i \in 1 .. Len(l) + 1 : i \in P <=> i > Len(l) \/ pr[l[i]] > pr[t]
    OBVIOUS
  <1>4. Place(l, pr, t) = CHOOSE x \in P : \A y \in P : x <= y
    BY DEF Place, Min
  <1> HIDE DEF P
  <1>5. \E x \in P : \A y \in P : x <= y
    BY <1>2, LeastElement
  <1> DEFINE n == Place(l, pr, t)
  <1>6. n \in P /\ \A y \in P : n <= y
    BY <1>4, <1>5
  <1> HIDE DEF n
  <1>7. n \in 1 .. Len(l) + 1 /\ (n > Len(l) \/ pr[l[n]] > pr[t])
    BY <1>3, <1>6
  <1>8. ASSUME NEW i \in 1 .. Len(l), i < n PROVE ~(pr[l[i]] > pr[t])
    <2>1. i \notin P
      BY <1>1, <1>6, <1>7, <1>8
    <2> QED BY <1>1, <1>3, <2>1
  <1> QED BY <1>7, <1>8 DEF n

LEMMA InsertSorted ==
    ASSUME NEW l \in Seq(Threads), IsInjective(l), NEW pr \in [Threads -> Int], Sorted(l, pr),
           NEW t \in Threads, t \notin Range(l),
           NEW r, r = InsertAt(l, Place(l, pr, t), t)
    PROVE  /\ r \in Seq(Threads) /\ IsInjective(r) /\ Range(r) = Range(l) \cup {t} /\ Sorted(r, pr)
           /\ r # <<>>
           /\ r[1] = IF l = <<>> \/ pr[t] < pr[l[1]] THEN t ELSE l[1]
  <1> DEFINE n == Place(l, pr, t)
  <1>1. /\ Len(l) \in Nat /\ (l = <<>> <=> Len(l) = 0)
        /\ Range(l) = {l[i] : i \in 1 .. Len(l)}
        /\ \A i, j \in 1 .. Len(l) : l[i] = l[j] => i = j
        /\ \A i \in 1 .. Len(l) : l[i] \in Threads
        /\ \A i, j \in 1 .. Len(l) : i < j => pr[l[i]] <= pr[l[j]]
    BY RangeProperties, ElementOfSeq DEF Sorted
  <1>2. /\ n \in 1 .. Len(l) + 1
        /\ n > Len(l) \/ pr[l[n]] > pr[t]
        /\ \A i \in 1 .. Len(l) : i < n => ~(pr[l[i]] > pr[t])
    BY PlaceIsFirst
  <1>3. r = InsertAt(l, n, t)
    OBVIOUS
  <1> HIDE DEF n
  <1>4. /\ r \in Seq(Threads) /\ Len(r) = Len(l) + 1
        /\ \A j \in 1 .. Len(l) + 1 : r[j] = IF j < n THEN l[j] ELSE IF j = n THEN t ELSE l[j - 1]
    <2>1. n \in 1 .. Len(l) + 1
      BY <1>2
    <2>2. InsertAt(l, n, t) \in Seq(Threads)
      BY <2>1, InsertAtProperties
    <2>3. Len(InsertAt(l, n, t)) = Len(l) + 1
      BY <2>1, InsertAtProperties
    <2>4. \A j \in 1 .. Len(l) + 1 :
            InsertAt(l, n, t)[j] = IF j < n THEN l[j] ELSE IF j = n THEN t ELSE l[j - 1]
      BY <2>1, InsertAtProperties
    <2> QED BY <1>3, <2>2, <2>3, <2>4
  <1>5. /\ Range(r) = {r[i] : i \in 1 .. Len(l) + 1} /\ r # <<>>
        /\ IsInjective(r) <=> \A i, j \in 1 .. Len(l) + 1 : r[i] = r[j] => i = j
    <2>1. r \in Seq(Threads)
      BY <1>4
    <2>2. /\ Range(r) = {r[i] : i \in 1 .. Len(r)} /\ (r = <<>> <=> Len(r) = 0)
          /\ IsInjective(r) <=> \A i, j \in 1 .. Len(r) : r[i] = r[j] => i = j
      BY ONLY <2>1, RangeProperties
    <2>3. Len(r) = Len(l) + 1 /\ Len(r) # 0
      BY <1>1, <1>4
    <2> QED BY <2>2, <2>3
  <1> DEFINE old(j) == IF j < n THEN j ELSE j - 1
  <1>6. ASSUME NEW j \in 1 .. Len(l) + 1, j # n
        PROVE  old(j) \in 1 .. Len(l) /\ r[j] = l[old(j)]
    <2>1. Len(l) \in Nat /\ n \in 1 .. Len(l) + 1
      BY <1>1, <1>2
    <2>2. old(j) \in 1 .. Len(l)
      BY <1>6, <2>1
    <2>3. r[j] = IF j < n THEN l[j] ELSE l[j - 1]
      BY <1>4, <1>6
    <2> QED BY <2>2, <2>3
  <1>7. r[n] = t
    BY <1>1, <1>2, <1>4
  <1>8. \A i, j \in 1 .. Len(l) + 1 : i # n /\ j # n => (old(i) < old(j) <=> i < j)
    BY <1>1, <1>2
  <1>9. \A i \in 1 .. Len(l) : \E j \in 1 .. Len(l) + 1 : j # n /\ old(j) = i
    <2> SUFFICES ASSUME NEW i \in 1 .. Len(l) PROVE \E j \in 1 .. Len(l) + 1 : j # n /\ old(j) = i
      OBVIOUS
    <2>1. CASE i < n
      BY <2>1, <1>1, <1>2
    <2>2. CASE ~(i < n)
      <3>1. i + 1 \in 1 .. Len(l) + 1 /\ i + 1 # n /\ old(i + 1) = i
        BY <2>2, <1>1, <1>2
      <3> QED BY <3>1
    <2> QED BY <2>1, <2>2
  <1>10. \A j \in 1 .. Len(l) + 1 : j # n => (j < n <=> old(j) < n)
    BY <1>1, <1>2
  <1>11. \A i \in 1 .. Len(l) : ~(i < n) => pr[l[i]] > pr[t]
    <2> SUFFICES ASSUME NEW i \in 1 .. Len(l), ~(i < n) PROVE pr[l[i]] > pr[t]
      OBVIOUS
    <2>1. n \in 1 .. Len(l) /\ pr[l[n]] > pr[t] /\ pr[l[n]] \in Int /\ pr[l[i]] \in Int /\ pr[t] \in Int
      BY <1>1, <1>2
    <2>2. n = i \/ pr[l[n]] <= pr[l[i]]
      BY <1>1, <1>2, <2>1
    <2> QED BY <2>1, <2>2
  <1> HIDE DEF old
  <1>12. Range(r) = Range(l) \cup {t}
    <2>1. \A x \in Range(r) : x \in Range(l) \cup {t}
      BY <1>1, <1>5, <1>6, <1>7
    <2>2. \A x \in Range(l) : x \in Range(r)
      <3> SUFFICES ASSUME NEW i \in 1 .. Len(l) PROVE l[i] \in Range(r)
        BY <1>1
      <3>1. PICK j \in 1 .. Len(l) + 1 : j # n /\ old(j) = i
        BY <1>9
      <3> QED BY <3>1, <1>5, <1>6
    <2>3. t \in Range(r)
      BY <1>2, <1>5, <1>7
    <2> QED BY <2>1, <2>2, <2>3
  <1>13. IsInjective(r)
    <2> SUFFICES ASSUME NEW i \in 1 .. Len(l) + 1, NEW j \in 1 .. Len(l) + 1, r[i] = r[j]
                 PROVE  i = j
      BY <1>5
    <2>1. CASE i = n \/ j = n
      <3>1. \A m \in 1 .. Len(l) + 1 : m # n => r[m] # t
        <4>1. \A m \in 1 .. Len(l) : l[m] # t
          BY <1>1
        <4> QED BY <4>1, <1>6
      <3> QED BY <2>1, <3>1, <1>7
    <2>2. CASE i # n /\ j # n
      <3>1. old(i) \in 1 .. Len(l) /\ old(j) \in 1 .. Len(l) /\ l[old(i)] = l[old(j)]
        BY <2>2, <1>6
      <3>2. old(i) = old(j)
        BY <3>1, <1>1
      <3>3. ~(i < j) /\ ~(j < i)
        BY <2>2, <3>1, <3>2, <1>8
      <3> QED BY <3>3, <1>1
    <2> QED BY <2>1, <2>2
  <1>14. Sorted(r, pr)
    <2> SUFFICES ASSUME NEW i \in 1 .. Len(l) + 1, NEW j \in 1 .. Len(l) + 1, i < j
                 PROVE  pr[r[i]] <= pr[r[j]]
      BY <1>4 DEF Sorted
    <2>1. CASE i # n /\ j # n
      <3>1. old(i) \in 1 .. Len(l) /\ old(j) \in 1 .. Len(l) /\ old(i) < old(j)
        BY <2>1, <1>6, <1>8
      <3> QED BY <2>1, <3>1, <1>1, <1>6
    <2>2. CASE i = n /\ j # n
      <3>1. old(j) \in 1 .. Len(l) /\ ~(old(j) < n) /\ r[j] = l[old(j)]
        BY <2>2, <1>1, <1>2, <1>6, <1>10
      <3>2. pr[l[old(j)]] > pr[t] /\ pr[t] \in Int /\ pr[l[old(j)]] \in Int
        BY <3>1, <1>1, <1>11
      <3> QED BY <2>2, <3>1, <3>2, <1>7
    <2>3. CASE i # n /\ j = n
      <3>1. old(i) \in 1 .. Len(l) /\ old(i) < n /\ r[i] = l[old(i)]
        BY <2>3, <1>1, <1>2, <1>6, <1>10
      <3>2. ~(pr[l[old(i)]] > pr[t]) /\ pr[t] \in Int /\ pr[l[old(i)]] \in Int
        BY <3>1, <1>1, <1>2
      <3> QED BY <2>3, <3>1, <3>2, <1>7
    <2> QED BY <2>1, <2>2, <2>3
  <1>15. r[1] = IF l = <<>> \/ pr[t] < pr[l[1]] THEN t ELSE l[1]
    <2>1. CASE l = <<>>
      BY <2>1, <1>1, <1>2, <1>7
    <2>2. CASE l # <<>> /\ pr[t] < pr[l[1]]
      <3>1. 1 \in 1 .. Len(l) /\ pr[l[1]] \in Int /\ pr[t] \in Int
        BY <2>2, <1>1
      <3>2. n = 1
        BY <2>2, <3>1, <1>1, <1>2
      <3> QED BY <2>2, <3>2, <1>7
    <2>3. CASE l # <<>> /\ ~(pr[t] < pr[l[1]])
      <3>1. 1 \in 1 .. Len(l) /\ pr[l[1]] \in Int /\ pr[t] \in Int
        BY <2>3, <1>1
      <3>2. 1 < n
        <4>1. ~(pr[l[1]] > pr[t])
          BY <2>3, <3>1
        <4>2. n # 1
          BY <3>1, <4>1, <1>1, <1>2
        <4> QED BY <4>2, <1>1, <1>2
      <3>3. r[1] = l[1]
        BY <3>1, <3>2, <1>1, <1>4
      <3> QED BY <2>3, <3>3
    <2> QED BY <2>1, <2>2, <2>3
  <1> QED BY <1>4, <1>5, <1>12, <1>13, <1>14, <1>15

-----------------------------------------------------------------------------
(* The state of the queues as a value *)

States ==
    [home : [Threads -> Cpus], onRq : [Threads -> BOOLEAN],
     st : [Threads -> {"sleep", "waking", "run"}], prio : [Threads -> 1 .. FairPrio],
     mask : [Threads -> SUBSET Cpus], curr : [Cpus -> Threads \cup {Idle, Stopper}],
     resched : [Cpus -> BOOLEAN], post : [Cpus -> BOOLEAN],
     push : [Cpus -> Seq(Threads)], next : [Cpus -> 1 .. FairPrio], mig : [Cpus -> Int],
     over : [Cpus -> BOOLEAN], online : [Cpus -> BOOLEAN], pri : [Cpus -> 0 .. FairPrio],
     wakeList : [Cpus -> Seq(Threads)], rto : SUBSET Cpus, rtoCount : Int,
     up : SUBSET Cpus, active : SUBSET Cpus, stops : SUBSET (Threads \X Cpus \X Cpus),
     stray : SUBSET Threads]

\* What tells which tasks are in which queue, and how.
SameTasks(s, r) ==
    /\ r.home = s.home /\ r.onRq = s.onRq /\ r.prio = s.prio /\ r.mask = s.mask
    /\ r.curr = s.curr

\* What is kept about the queues and what the root domain knows.
SamePush(s, r) == r.push = s.push /\ r.next = s.next
SameLoad(s, r) ==
    /\ r.mig = s.mig /\ r.over = s.over /\ r.online = s.online /\ r.pri = s.pri
    /\ r.rto = s.rto /\ r.rtoCount = s.rtoCount

\* What pushes and pulls do not change.
SameRest(s, r) ==
    /\ r.st = s.st /\ r.wakeList = s.wakeList /\ r.up = s.up /\ r.active = s.active
    /\ r.stops = s.stops

LEMMA PushOffFields ==
    ASSUME NEW s \in States, NEW c \in Cpus, NEW t \in Threads,
           NEW rest, rest = RemoveFirst(s.push[c], t), rest \in Seq(Threads),
           NEW r, r = PushOff(s, c, t)
    PROVE  /\ r \in States
           /\ SameTasks(s, r) /\ SameLoad(s, r) /\ SameRest(s, r)
           /\ r.resched = s.resched /\ r.post = s.post /\ r.stray = s.stray
           /\ r.push = [s.push EXCEPT ![c] = rest]
           /\ r.next = [s.next EXCEPT ![c] = IF rest = <<>> THEN FairPrio ELSE s.prio[Head(rest)]]
  <1> DEFINE h == IF rest = <<>> THEN FairPrio ELSE s.prio[Head(rest)]
             p == [s.push EXCEPT ![c] = rest]
             n == [s.next EXCEPT ![c] = h]
  <1>1. h \in 1 .. FairPrio
    <2>1. s.prio \in [Threads -> 1 .. FairPrio]
      BY DEF States
    <2>2. rest # <<>> => Head(rest) \in Threads
      BY HeadTailProperties
    <2> QED BY <2>1, <2>2, ThreadAssumption
  <1> HIDE DEF h
  <1>2. p \in [Cpus -> Seq(Threads)] /\ n \in [Cpus -> 1 .. FairPrio]
    <2>1. s.push \in [Cpus -> Seq(Threads)] /\ s.next \in [Cpus -> 1 .. FairPrio]
      BY DEF States
    <2> QED BY <1>1, <2>1
  <1>3. r = [s EXCEPT !.push = p, !.next = n]
    BY DEF PushOff, h
  <1> HIDE DEF p, n
  <1>4. r \in States
    BY <1>2, <1>3, ZenonT(30) DEF States
  <1>5. /\ SameTasks(s, r) /\ SameLoad(s, r) /\ SameRest(s, r)
        /\ r.resched = s.resched /\ r.post = s.post /\ r.stray = s.stray
    BY <1>3 DEF States, SameTasks, SameLoad, SameRest
  <1>6. r.push = p /\ r.next = n
    BY <1>3 DEF States
  <1> QED BY <1>4, <1>5, <1>6 DEF p, n, h

\* The list of the tasks that queue c can give away has the members T.
PushList(s, c, T) ==
    LET l == s.push[c] IN
    /\ IsInjective(l) /\ Range(l) = T /\ Sorted(l, s.prio)
    /\ s.next[c] = IF l = <<>> THEN FairPrio ELSE s.prio[l[1]]

SameElsewhere(s, r, c) ==
    \A d \in Cpus \ {c} : r.push[d] = s.push[d] /\ r.next[d] = s.next[d]

\* What is not about queues either.
SameFlags(s, r) == r.resched = s.resched /\ r.post = s.post /\ r.stray = s.stray

LEMMA HeadIsLeast ==
    ASSUME NEW l \in Seq(Threads), NEW pr \in [Threads -> Int], Sorted(l, pr), l # <<>>
    PROVE  l[1] \in Range(l) /\ Head(l) = l[1] /\ \A u \in Range(l) : pr[l[1]] <= pr[u]
  <1>1. Len(l) \in Nat \ {0} /\ Range(l) = {l[i] : i \in 1 .. Len(l)}
    BY RangeProperties
  <1>2. 1 \in 1 .. Len(l) /\ \A i \in 1 .. Len(l) : i = 1 \/ 1 < i
    BY <1>1
  <1>3. \A i \in 1 .. Len(l) : l[i] \in Threads
    BY ElementOfSeq
  <1>4. \A i \in 1 .. Len(l) : pr[l[1]] <= pr[l[i]]
    BY <1>2, <1>3 DEF Sorted
  <1>5. Head(l) = l[1]
    OBVIOUS
  <1> QED BY <1>1, <1>2, <1>4, <1>5

LEMMA PushOffList ==
    ASSUME NEW s \in States, NEW c \in Cpus, NEW t \in Threads, NEW T, PushList(s, c, T),
           NEW r, r = PushOff(s, c, t)
    PROVE  /\ r \in States
           /\ SameTasks(s, r) /\ SameLoad(s, r) /\ SameRest(s, r) /\ SameFlags(s, r)
           /\ PushList(r, c, T \ {t}) /\ SameElsewhere(s, r, c)
  <1> DEFINE l == s.push[c]
             rest == RemoveFirst(l, t)
  <1>1. s.push \in [Cpus -> Seq(Threads)] /\ s.next \in [Cpus -> 1 .. FairPrio] /\ l \in Seq(Threads)
    BY DEF States
  <1>2. s.prio \in [Threads -> Int]
    BY DEF States
  <1>3. IsInjective(l) /\ Range(l) = T /\ Sorted(l, s.prio)
    BY DEF PushList
  <1>4. /\ rest \in Seq(Threads) /\ IsInjective(rest) /\ Range(rest) = Range(l) \ {t}
        /\ Sorted(rest, s.prio)
    BY <1>1, <1>3, RemoveSorted
  <1> DEFINE h == IF rest = <<>> THEN FairPrio ELSE s.prio[Head(rest)]
  <1>5. /\ r \in States
        /\ SameTasks(s, r) /\ SameLoad(s, r) /\ SameRest(s, r)
        /\ r.resched = s.resched /\ r.post = s.post /\ r.stray = s.stray
        /\ r.push = [s.push EXCEPT ![c] = rest]
        /\ r.next = [s.next EXCEPT ![c] = h]
    BY <1>4, PushOffFields
  <1>6. h = IF rest = <<>> THEN FairPrio ELSE s.prio[rest[1]]
    BY <1>2, <1>4, HeadIsLeast
  <1> HIDE DEF h, rest, l
  <1>7. r.push[c] = rest /\ r.next[c] = h /\ r.prio = s.prio
    BY <1>1, <1>5 DEF SameTasks
  <1>8. PushList(r, c, T \ {t})
    BY <1>3, <1>4, <1>6, <1>7 DEF PushList
  <1>9. SameElsewhere(s, r, c)
    BY <1>1, <1>5 DEF SameElsewhere
  <1> QED BY <1>5, <1>8, <1>9 DEF SameFlags

LEMMA PushOnFields ==
    ASSUME NEW s \in States, NEW c \in Cpus, NEW t \in Threads,
           NEW l, l \in Seq(Threads),
           l = InsertAt(RemoveFirst(s.push[c], t), Place(RemoveFirst(s.push[c], t), s.prio, t), t),
           NEW r, r = PushOn(s, c, t)
    PROVE  /\ r \in States
           /\ SameTasks(s, r) /\ SameLoad(s, r) /\ SameRest(s, r) /\ SameFlags(s, r)
           /\ r.push = [s.push EXCEPT ![c] = l]
           /\ r.next = [s.next EXCEPT ![c] = IF s.prio[t] < s.next[c] THEN s.prio[t] ELSE s.next[c]]
  <1> DEFINE h == IF s.prio[t] < s.next[c] THEN s.prio[t] ELSE s.next[c]
             p == [s.push EXCEPT ![c] = l]
             n == [s.next EXCEPT ![c] = h]
  <1>1. s.push \in [Cpus -> Seq(Threads)] /\ s.next \in [Cpus -> 1 .. FairPrio]
        /\ s.prio \in [Threads -> 1 .. FairPrio]
    BY DEF States
  <1>2. h \in 1 .. FairPrio
    BY <1>1
  <1>3. r = [s EXCEPT !.push = p, !.next = n]
    BY DEF PushOn, Place
  <1> HIDE DEF h
  <1>4. p \in [Cpus -> Seq(Threads)] /\ n \in [Cpus -> 1 .. FairPrio]
    BY <1>1, <1>2
  <1> HIDE DEF p, n
  <1>5. r \in States
    BY <1>3, <1>4, ZenonT(30) DEF States
  <1>6. SameTasks(s, r) /\ SameLoad(s, r) /\ SameRest(s, r) /\ SameFlags(s, r)
    BY <1>3 DEF States, SameTasks, SameLoad, SameRest, SameFlags
  <1>7. r.push = p /\ r.next = n
    BY <1>3 DEF States
  <1> QED BY <1>5, <1>6, <1>7 DEF p, n, h

LEMMA PushOnList ==
    ASSUME NEW s \in States, NEW c \in Cpus, NEW t \in Threads, NEW T, PushList(s, c, T),
           NEW r, r = PushOn(s, c, t)
    PROVE  /\ r \in States
           /\ SameTasks(s, r) /\ SameLoad(s, r) /\ SameRest(s, r) /\ SameFlags(s, r)
           /\ PushList(r, c, T \cup {t}) /\ SameElsewhere(s, r, c)
  <1> DEFINE l == s.push[c]
             rest == RemoveFirst(l, t)
             m == InsertAt(rest, Place(rest, s.prio, t), t)
             h == IF s.prio[t] < s.next[c] THEN s.prio[t] ELSE s.next[c]
  <1>1. s.push \in [Cpus -> Seq(Threads)] /\ s.next \in [Cpus -> 1 .. FairPrio] /\ l \in Seq(Threads)
    BY DEF States
  <1>2. s.prio \in [Threads -> Int] /\ \A u \in Threads : s.prio[u] \in 1 .. FairPrio
    BY DEF States
  <1>3. /\ IsInjective(l) /\ Range(l) = T /\ Sorted(l, s.prio)
        /\ s.next[c] = IF l = <<>> THEN FairPrio ELSE s.prio[l[1]]
    BY DEF PushList
  <1>4. /\ rest \in Seq(Threads) /\ IsInjective(rest) /\ Range(rest) = Range(l) \ {t}
        /\ Sorted(rest, s.prio)
    BY <1>1, <1>3, RemoveSorted
  <1> HIDE DEF rest
  <1>5. /\ m \in Seq(Threads) /\ IsInjective(m) /\ Range(m) = Range(rest) \cup {t}
        /\ Sorted(m, s.prio) /\ m # <<>>
        /\ m[1] = IF rest = <<>> \/ s.prio[t] < s.prio[rest[1]] THEN t ELSE rest[1]
    BY <1>2, <1>4, InsertSorted
  <1>6. /\ r \in States
        /\ SameTasks(s, r) /\ SameLoad(s, r) /\ SameRest(s, r) /\ SameFlags(s, r)
        /\ r.push = [s.push EXCEPT ![c] = m]
        /\ r.next = [s.next EXCEPT ![c] = h]
    BY <1>5, PushOnFields DEF rest
  <1> HIDE DEF m
  <1>7. r.push[c] = m /\ r.next[c] = h /\ r.prio = s.prio
    BY <1>1, <1>6 DEF SameTasks
  <1>8. Range(m) = T \cup {t}
    BY <1>3, <1>4, <1>5
  <1>9. h = s.prio[m[1]]
    <2>1. m[1] \in Range(m) /\ \A u \in Range(m) : s.prio[m[1]] <= s.prio[u]
      BY <1>2, <1>5, HeadIsLeast
    <2>2. T \subseteq Threads /\ m[1] \in Threads
      BY <1>1, <1>3, <1>8, <2>1, RangeProperties
    <2>3. CASE l = <<>>
      <3>1. T = {}
        BY <1>3, <2>3 DEF Range
      <3>2. m[1] = t
        BY <2>1, <3>1, <1>8
      <3>3. s.next[c] = FairPrio /\ s.prio[t] \in 1 .. FairPrio
        BY <1>2, <1>3, <2>3
      <3> QED BY <3>2, <3>3, ThreadAssumption
    <2>4. CASE l # <<>>
      <3>1. l[1] \in T /\ \A u \in T : s.prio[l[1]] <= s.prio[u]
        BY <1>1, <1>2, <1>3, <2>4, HeadIsLeast
      <3>2. s.next[c] = s.prio[l[1]]
        BY <1>3, <2>4
      <3>3. s.prio[m[1]] <= s.prio[l[1]] /\ s.prio[m[1]] <= s.prio[t]
        BY <1>8, <2>1, <3>1
      <3>4. s.prio[l[1]] <= s.prio[m[1]] \/ m[1] = t
        BY <1>8, <2>1, <3>1
      <3>5. s.prio[t] \in Int /\ s.prio[l[1]] \in Int /\ s.prio[m[1]] \in Int
        BY <1>2, <2>2, <3>1
      <3> QED BY <3>2, <3>3, <3>4, <3>5
    <2> QED BY <2>3, <2>4
  <1>10. PushList(r, c, T \cup {t})
    BY <1>5, <1>7, <1>8, <1>9 DEF PushList
  <1>11. SameElsewhere(s, r, c)
    BY <1>1, <1>6 DEF SameElsewhere
  <1> QED BY <1>6, <1>10, <1>11

-----------------------------------------------------------------------------
(* The load of a queue, and the root domain *)

RtMovable(s, c) == {t \in RtQueued(s, c) : Movable(s, t)}
Pushable(s, c)  == {t \in RtMovable(s, c) : s.curr[c] # t}

\* What is counted of queue c is right, the root domain apart.
Load(s, c) ==
    /\ s.mig[c] = Cardinality(RtMovable(s, c))
    /\ s.over[c] = (s.mig[c] > 0 /\ Cardinality(RtQueued(s, c)) > 1)
    /\ s.online[c] => s.pri[c] = Highest(s, c)
    /\ ~s.online[c] => s.pri[c] = 0

\* The root domain knows the queues that are online and overloaded.
Domain(s) ==
    /\ s.rto = {c \in Cpus : s.online[c] /\ s.over[c]}
    /\ s.rtoCount = Cardinality(s.rto)

LEMMA HighestIs ==
    ASSUME NEW s \in States, NEW c \in Cpus
    PROVE  /\ Highest(s, c) \in 1 .. FairPrio
           /\ \A t \in RtQueued(s, c) : Highest(s, c) <= s.prio[t]
           /\ RtQueued(s, c) # {} => \E t \in RtQueued(s, c) : s.prio[t] = Highest(s, c)
  <1> DEFINE P == {s.prio[t] : t \in RtQueued(s, c)} \cup {FairPrio}
  <1>1. s.prio \in [Threads -> 1 .. FairPrio] /\ FairPrio \in Nat \ {0}
        /\ RtQueued(s, c) \subseteq Threads /\ \A t \in RtQueued(s, c) : s.prio[t] < FairPrio
    BY ThreadAssumption DEF States, RtQueued, Queued
  <1>2. P \in SUBSET Nat /\ P # {} /\ P \subseteq 1 .. FairPrio
    BY <1>1
  <1>3. Highest(s, c) = CHOOSE x \in P : \A y \in P : x <= y
    BY DEF Highest, Min
  <1>4. \A x \in P : x = FairPrio \/ \E t \in RtQueued(s, c) : s.prio[t] = x
    OBVIOUS
  <1>5. FairPrio \in P /\ \A t \in RtQueued(s, c) : s.prio[t] \in P
    OBVIOUS
  <1> HIDE DEF P
  <1>6. Highest(s, c) \in P /\ \A y \in P : Highest(s, c) <= y
    BY <1>2, <1>3, LeastElement
  <1>7. RtQueued(s, c) # {} => Highest(s, c) # FairPrio
    <2> SUFFICES ASSUME NEW t \in RtQueued(s, c), Highest(s, c) = FairPrio PROVE FALSE
      OBVIOUS
    <2>1. Highest(s, c) <= s.prio[t] /\ s.prio[t] < FairPrio /\ s.prio[t] \in 1 .. FairPrio
      BY <1>1, <1>5, <1>6
    <2> QED BY <1>1, <2>1
  <1> QED BY <1>2, <1>4, <1>5, <1>6, <1>7

\* Equal tasks are queued, movable and urgent alike.
LEMMA SameTasksSameQueues ==
    ASSUME NEW s, NEW r, SameTasks(s, r), NEW c \in Cpus
    PROVE  /\ Queued(r, c) = Queued(s, c) /\ RtQueued(r, c) = RtQueued(s, c)
           /\ RtMovable(r, c) = RtMovable(s, c) /\ Pushable(r, c) = Pushable(s, c)
           /\ Highest(r, c) = Highest(s, c)
  BY DEF SameTasks, Queued, RtQueued, RtMovable, Pushable, Highest, Movable

LEMMA FiniteQueues ==
    ASSUME NEW s, NEW c
    PROVE  /\ IsFiniteSet(RtQueued(s, c)) /\ Cardinality(RtQueued(s, c)) \in Nat
           /\ IsFiniteSet(RtMovable(s, c)) /\ Cardinality(RtMovable(s, c)) \in Nat
  <1>1. RtQueued(s, c) \subseteq Threads /\ RtMovable(s, c) \subseteq Threads
    BY DEF RtQueued, RtMovable, Queued
  <1> QED BY <1>1, ThreadAssumption, FS_Subset, FS_CardinalityType

LEMMA SetOverloadFields ==
    ASSUME NEW s \in States, NEW c \in Cpus, NEW on, NEW r, r = SetOverload(s, c, on)
    PROVE  /\ r \in States
           /\ SameTasks(s, r) /\ SamePush(s, r) /\ SameRest(s, r) /\ SameFlags(s, r)
           /\ r.mig = s.mig /\ r.over = s.over /\ r.online = s.online /\ r.pri = s.pri
           /\ on => r.rto = s.rto \cup {c} /\ r.rtoCount = s.rtoCount + 1
           /\ ~on => r.rto = s.rto \ {c} /\ r.rtoCount = s.rtoCount - 1
  <1> DEFINE o == IF on THEN s.rto \cup {c} ELSE s.rto \ {c}
             n == IF on THEN s.rtoCount + 1 ELSE s.rtoCount - 1
  <1>1. s.rto \in SUBSET Cpus /\ s.rtoCount \in Int
    BY DEF States
  <1>2. o \in SUBSET Cpus /\ n \in Int
    BY <1>1
  <1>3. r = [s EXCEPT !.rto = o, !.rtoCount = n]
    BY DEF SetOverload
  <1> HIDE DEF o, n
  <1>4. r \in States
    BY <1>2, <1>3, ZenonT(30) DEF States
  <1>5. SameTasks(s, r) /\ SamePush(s, r) /\ SameRest(s, r) /\ SameFlags(s, r)
    BY <1>3 DEF States, SameTasks, SamePush, SameRest, SameFlags
  <1>6. /\ r.mig = s.mig /\ r.over = s.over /\ r.online = s.online /\ r.pri = s.pri
        /\ r.rto = o /\ r.rtoCount = n
    BY <1>3 DEF States
  <1> QED BY <1>4, <1>5, <1>6 DEF o, n

\* A queue enters or leaves the set of the online and overloaded ones.
LEMMA DomainStep ==
    ASSUME NEW s \in States, Domain(s), NEW c \in Cpus, NEW on \in BOOLEAN,
           c \in s.rto <=> ~on,
           NEW r \in States, r.rto = IF on THEN s.rto \cup {c} ELSE s.rto \ {c},
           r.rtoCount = IF on THEN s.rtoCount + 1 ELSE s.rtoCount - 1,
           \A d \in Cpus \ {c} : r.online[d] /\ r.over[d] <=> s.online[d] /\ s.over[d],
           r.online[c] /\ r.over[c] <=> on
    PROVE  Domain(r)
  <1>1. s.rto \subseteq Cpus /\ IsFiniteSet(s.rto)
    BY CpuAssumption, FS_Subset DEF States
  <1>2. s.rto = {d \in Cpus : s.online[d] /\ s.over[d]} /\ s.rtoCount = Cardinality(s.rto)
    BY DEF Domain
  <1>3. CASE on
    <2>1. r.rto = s.rto \cup {c} /\ c \notin s.rto
      BY <1>3
    <2>2. Cardinality(s.rto \cup {c}) = Cardinality(s.rto) + 1
      BY <1>1, <2>1, FS_AddElement
    <2>3. r.rto = {d \in Cpus : r.online[d] /\ r.over[d]}
      BY <1>2, <1>3, <2>1
    <2> QED BY <1>2, <1>3, <2>1, <2>2, <2>3 DEF Domain
  <1>4. CASE ~on
    <2>1. r.rto = s.rto \ {c} /\ c \in s.rto
      BY <1>4
    <2>2. Cardinality(s.rto \ {c}) = Cardinality(s.rto) - 1
      BY <1>1, <2>1, FS_RemoveElement
    <2>3. r.rto = {d \in Cpus : r.online[d] /\ r.over[d]}
      BY <1>2, <1>4, <2>1
    <2> QED BY <1>2, <1>4, <2>1, <2>2, <2>3 DEF Domain
  <1> QED BY <1>3, <1>4

Loaded(s, c) == s.mig[c] > 0 /\ Cardinality(RtQueued(s, c)) > 1

LEMMA MigrationFields ==
    ASSUME NEW s \in States, Domain(s), NEW c \in Cpus, NEW r, r = Migration(s, c)
    PROVE  /\ r \in States /\ Domain(r)
           /\ SameTasks(s, r) /\ SamePush(s, r) /\ SameRest(s, r) /\ SameFlags(s, r)
           /\ r.mig = s.mig /\ r.online = s.online /\ r.pri = s.pri
           /\ r.over = [s.over EXCEPT ![c] = Loaded(s, c)]
  <1> DEFINE loaded == Loaded(s, c)
             o == [s.over EXCEPT ![c] = loaded]
             t == [s EXCEPT !.over = o]
  <1>1. /\ s.over \in [Cpus -> BOOLEAN] /\ s.mig \in [Cpus -> Int] /\ s.online \in [Cpus -> BOOLEAN]
        /\ loaded \in BOOLEAN
    BY DEF States, Loaded
  <1>2. r = IF loaded = s.over[c] THEN s
            ELSE IF s.online[c] THEN SetOverload(t, c, loaded) ELSE t
    BY DEF Migration, Loaded
  <1>3. s.rto = {d \in Cpus : s.online[d] /\ s.over[d]} /\ s.rtoCount = Cardinality(s.rto)
    BY DEF Domain
  <1>4. CASE loaded = s.over[c]
    <2>1. r = s /\ o = s.over
      BY <1>1, <1>2, <1>4
    <2> QED BY <2>1 DEF SameTasks, SamePush, SameRest, SameFlags
  <1>5. CASE loaded # s.over[c]
    <2>1. o \in [Cpus -> BOOLEAN]
      BY <1>1
    <2>2. o[c] = loaded /\ \A d \in Cpus \ {c} : o[d] = s.over[d]
      BY <1>1
    <2> HIDE DEF loaded, o
    <2>3. t \in States
      BY <2>1 DEF States
    <2>4. /\ SameTasks(s, t) /\ SamePush(s, t) /\ SameRest(s, t) /\ SameFlags(s, t)
          /\ t.mig = s.mig /\ t.online = s.online /\ t.pri = s.pri /\ t.over = o
          /\ t.rto = s.rto /\ t.rtoCount = s.rtoCount
      BY DEF States, SameTasks, SamePush, SameRest, SameFlags
    <2> HIDE DEF t
    <2>5. CASE ~s.online[c]
      <3>1. r = t
        BY <1>2, <1>5, <2>5
      <3>2. s.rto = {d \in Cpus : t.online[d] /\ t.over[d]}
        BY <1>3, <2>2, <2>4, <2>5
      <3>3. Domain(t)
        BY <1>3, <2>4, <3>2 DEF Domain
      <3> QED BY <2>3, <2>4, <3>1, <3>3 DEF o, loaded
    <2>6. CASE s.online[c]
      <3>1. r = SetOverload(t, c, loaded)
        BY <1>2, <1>5, <2>6
      <3>2. /\ r \in States
            /\ SameTasks(t, r) /\ SamePush(t, r) /\ SameRest(t, r) /\ SameFlags(t, r)
            /\ r.mig = t.mig /\ r.over = t.over /\ r.online = t.online /\ r.pri = t.pri
            /\ loaded => r.rto = t.rto \cup {c} /\ r.rtoCount = t.rtoCount + 1
            /\ ~loaded => r.rto = t.rto \ {c} /\ r.rtoCount = t.rtoCount - 1
        BY <2>3, <3>1, SetOverloadFields
      <3>3. /\ SameTasks(s, r) /\ SamePush(s, r) /\ SameRest(s, r) /\ SameFlags(s, r)
        BY <2>4, <3>2 DEF SameTasks, SamePush, SameRest, SameFlags
      <3>4. c \in s.rto <=> ~loaded
        BY <1>1, <1>3, <1>5, <2>6
      <3>5. Domain(r)
        <4>1. \A d \in Cpus \ {c} : r.online[d] /\ r.over[d] <=> s.online[d] /\ s.over[d]
          BY <2>2, <2>4, <3>2
        <4>2. r.online[c] /\ r.over[c] <=> loaded
          BY <2>2, <2>4, <2>6, <3>2
        <4>3. /\ r.rto = IF loaded THEN s.rto \cup {c} ELSE s.rto \ {c}
              /\ r.rtoCount = IF loaded THEN s.rtoCount + 1 ELSE s.rtoCount - 1
          BY <2>4, <3>2
        <4> QED BY <1>1, <3>2, <3>4, <4>1, <4>2, <4>3, DomainStep
      <3> QED BY <2>4, <3>2, <3>3, <3>5 DEF o, loaded
    <2> QED BY <2>5, <2>6
  <1> QED BY <1>4, <1>5

LEMMA CpupriFields ==
    ASSUME NEW s \in States, NEW c \in Cpus, NEW old, NEW r, r = Cpupri(s, c, old)
    PROVE  /\ r \in States
           /\ SameTasks(s, r) /\ SamePush(s, r) /\ SameRest(s, r) /\ SameFlags(s, r)
           /\ r.mig = s.mig /\ r.over = s.over /\ r.online = s.online
           /\ r.rto = s.rto /\ r.rtoCount = s.rtoCount
           /\ \A d \in Cpus \ {c} : r.pri[d] = s.pri[d]
           /\ s.online[c] /\ s.pri[c] = old => r.pri[c] = Highest(s, c)
           /\ ~s.online[c] => r.pri[c] = s.pri[c]
  <1> DEFINE p == [s.pri EXCEPT ![c] = Highest(s, c)]
  <1>1. s.pri \in [Cpus -> 0 .. FairPrio]
    BY DEF States
  <1>2. p \in [Cpus -> 0 .. FairPrio] /\ p[c] = Highest(s, c) /\ \A d \in Cpus \ {c} : p[d] = s.pri[d]
    BY <1>1, HighestIs, ThreadAssumption
  <1>3. CASE s.online[c] /\ Highest(s, c) # old
    <2>1. r = [s EXCEPT !.pri = p]
      BY <1>3 DEF Cpupri
    <2> HIDE DEF p
    <2>2. r \in States
      BY <1>2, <2>1, ZenonT(30) DEF States
    <2>3. SameTasks(s, r) /\ SamePush(s, r) /\ SameRest(s, r) /\ SameFlags(s, r)
      BY <2>1 DEF States, SameTasks, SamePush, SameRest, SameFlags
    <2>4. /\ r.mig = s.mig /\ r.over = s.over /\ r.online = s.online
          /\ r.rto = s.rto /\ r.rtoCount = s.rtoCount /\ r.pri = p
      BY <2>1 DEF States
    <2> QED BY <1>2, <1>3, <2>2, <2>3, <2>4
  <1>4. CASE ~(s.online[c] /\ Highest(s, c) # old)
    <2>1. r = s
      BY <1>4 DEF Cpupri
    <2> QED BY <1>4, <2>1 DEF SameTasks, SamePush, SameRest, SameFlags
  <1> QED BY <1>3, <1>4

\* A queue whose count has changed tells the root domain.
LEMMA ToldLoads ==
    ASSUME NEW a \in States, Domain(a), NEW c \in Cpus,
           \A d \in Cpus \ {c} : Load(a, d),
           a.mig[c] = Cardinality(RtMovable(a, c)),
           NEW old, a.online[c] => a.pri[c] = old, ~a.online[c] => a.pri[c] = 0,
           NEW r, r = Migration(Cpupri(a, c, old), c)
    PROVE  /\ r \in States /\ Domain(r) /\ \A d \in Cpus : Load(r, d)
           /\ SameTasks(a, r) /\ SamePush(a, r) /\ SameRest(a, r) /\ SameFlags(a, r)
           /\ r.online = a.online
  <1> DEFINE b == Cpupri(a, c, old)
  <1>1. /\ b \in States
        /\ SameTasks(a, b) /\ SamePush(a, b) /\ SameRest(a, b) /\ SameFlags(a, b)
        /\ b.mig = a.mig /\ b.over = a.over /\ b.online = a.online
        /\ b.rto = a.rto /\ b.rtoCount = a.rtoCount
        /\ \A d \in Cpus \ {c} : b.pri[d] = a.pri[d]
        /\ a.online[c] => b.pri[c] = Highest(a, c)
        /\ ~a.online[c] => b.pri[c] = a.pri[c]
    BY CpupriFields
  <1>2. r = Migration(b, c)
    OBVIOUS
  <1> HIDE DEF b
  <1>3. Domain(b)
    BY <1>1 DEF Domain
  <1>4. /\ r \in States /\ Domain(r)
        /\ SameTasks(b, r) /\ SamePush(b, r) /\ SameRest(b, r) /\ SameFlags(b, r)
        /\ r.mig = b.mig /\ r.online = b.online /\ r.pri = b.pri
        /\ r.over = [b.over EXCEPT ![c] = Loaded(b, c)]
    BY <1>1, <1>2, <1>3, MigrationFields
  <1>5. /\ SameTasks(a, r) /\ SamePush(a, r) /\ SameRest(a, r) /\ SameFlags(a, r)
    BY <1>1, <1>4 DEF SameTasks, SamePush, SameRest, SameFlags
  <1>6. /\ b.over \in [Cpus -> BOOLEAN]
        /\ \A d \in Cpus : /\ RtQueued(b, d) = RtQueued(a, d)
                           /\ RtQueued(r, d) = RtQueued(a, d) /\ RtMovable(r, d) = RtMovable(a, d)
                           /\ Highest(r, d) = Highest(a, d)
    <2>1. b.over \in [Cpus -> BOOLEAN]
      BY <1>1 DEF States
    <2>2. \A d \in Cpus : RtQueued(b, d) = RtQueued(a, d)
      BY <1>1, SameTasksSameQueues
    <2>3. \A d \in Cpus : /\ RtQueued(r, d) = RtQueued(a, d) /\ RtMovable(r, d) = RtMovable(a, d)
                           /\ Highest(r, d) = Highest(a, d)
      BY <1>5, SameTasksSameQueues
    <2> QED BY <2>1, <2>2, <2>3
  <1>7. \A d \in Cpus \ {c} : Load(r, d)
    BY <1>1, <1>4, <1>6 DEF Load
  <1>8. Load(r, c)
    <2>1. r.over[c] = (a.mig[c] > 0 /\ Cardinality(RtQueued(a, c)) > 1)
      BY <1>1, <1>4, <1>6 DEF Loaded
    <2>2. /\ r.mig = a.mig /\ (r.online[c] => r.pri[c] = Highest(r, c))
          /\ ~r.online[c] => r.pri[c] = 0
      BY <1>1, <1>4, <1>6
    <2> QED BY <1>6, <2>1, <2>2 DEF Load
  <1> QED BY <1>1, <1>4, <1>5, <1>7, <1>8

\* The queues of s, their lists, their loads and the root domain are in order.
Exact(s) ==
    /\ s \in States /\ Domain(s)
    /\ \A c \in Cpus : PushList(s, c, Pushable(s, c)) /\ Load(s, c)

\* Lists that have not changed, of tasks whose priority has not.
LEMMA KeptList ==
    ASSUME NEW s \in States, NEW r \in States, NEW c \in Cpus, NEW T, PushList(s, c, T),
           r.push[c] = s.push[c], r.next[c] = s.next[c],
           \A t \in T : r.prio[t] = s.prio[t]
    PROVE  PushList(r, c, T)
  <1> DEFINE l == s.push[c]
  <1>1. /\ IsInjective(l) /\ Range(l) = T
        /\ \A i, j \in 1 .. Len(l) : i < j => s.prio[l[i]] <= s.prio[l[j]]
        /\ s.next[c] = IF l = <<>> THEN FairPrio ELSE s.prio[l[1]]
    BY DEF PushList, Sorted
  <1>2. l \in Seq(Threads)
    BY DEF States
  <1>3. /\ Len(l) \in Nat /\ T = {l[i] : i \in 1 .. Len(l)} /\ (l = <<>> <=> Len(l) = 0)
    BY <1>1, <1>2, RangeProperties
  <1> HIDE DEF l
  <1>4. \A i \in 1 .. Len(l) : r.prio[l[i]] = s.prio[l[i]]
    BY <1>3
  <1>5. l = <<>> \/ 1 \in 1 .. Len(l)
    BY <1>3
  <1>6. r.push[c] = l
    BY DEF l
  <1>7. Sorted(r.push[c], r.prio)
    BY <1>1, <1>4, <1>6 DEF Sorted
  <1>8. r.next[c] = IF l = <<>> THEN FairPrio ELSE r.prio[l[1]]
    BY <1>1, <1>4, <1>5
  <1> QED BY <1>1, <1>6, <1>7, <1>8 DEF PushList

\* A record of other queue flags, and of another count of queue c.
Flagged(s, o, m) == [s EXCEPT !.onRq = o, !.mig = m]

LEMMA FlagFields ==
    ASSUME NEW s \in States, NEW o \in [Threads -> BOOLEAN], NEW m \in [Cpus -> Int],
           NEW a, a = Flagged(s, o, m)
    PROVE  /\ a \in States
           /\ a.home = s.home /\ a.prio = s.prio /\ a.mask = s.mask /\ a.curr = s.curr
           /\ SamePush(s, a) /\ SameRest(s, a) /\ SameFlags(s, a)
           /\ a.over = s.over /\ a.online = s.online /\ a.pri = s.pri
           /\ a.rto = s.rto /\ a.rtoCount = s.rtoCount
           /\ a.onRq = o /\ a.mig = m
  <1>1. a \in States
    BY DEF States, Flagged
  <1>2. SamePush(s, a) /\ SameRest(s, a) /\ SameFlags(s, a)
    BY DEF States, Flagged, SamePush, SameRest, SameFlags
  <1>3. /\ a.home = s.home /\ a.prio = s.prio /\ a.mask = s.mask /\ a.curr = s.curr
        /\ a.over = s.over /\ a.online = s.online /\ a.pri = s.pri
        /\ a.rto = s.rto /\ a.rtoCount = s.rtoCount
        /\ a.onRq = o /\ a.mig = m
    BY DEF States, Flagged
  <1> QED BY <1>1, <1>2, <1>3

\* a is s with t in its queue instead of out of it, or the other way round.
OtherFlag(s, a, t) ==
    /\ a.home = s.home /\ a.prio = s.prio /\ a.mask = s.mask /\ a.curr = s.curr
    /\ \A u \in Threads \ {t} : a.onRq[u] = s.onRq[u]

MovableSet(s, t) == IF Movable(s, t) THEN {t} ELSE {}

LEMMA OtherQueues ==
    ASSUME NEW s \in States, NEW t \in Threads, NEW a, OtherFlag(s, a, t), NEW d \in Cpus,
           d # s.home[t] \/ s.prio[t] = FairPrio
    PROVE  /\ RtQueued(a, d) = RtQueued(s, d) /\ RtMovable(a, d) = RtMovable(s, d)
           /\ Pushable(a, d) = Pushable(s, d) /\ Highest(a, d) = Highest(s, d)
  <1>1. s.prio[t] = FairPrio => ~(s.prio[t] < FairPrio)
    BY ThreadAssumption
  <1>2. RtQueued(a, d) = RtQueued(s, d)
    BY <1>1 DEF RtQueued, Queued, OtherFlag
  <1>3. RtMovable(a, d) = RtMovable(s, d)
    BY <1>2 DEF RtMovable, OtherFlag, Movable
  <1> QED BY <1>2, <1>3 DEF Pushable, Highest, OtherFlag

LEMMA LeftQueue ==
    ASSUME NEW s \in States, NEW t \in Threads, NEW a, OtherFlag(s, a, t),
           s.onRq[t], ~a.onRq[t], s.prio[t] # FairPrio, NEW c, c = s.home[t]
    PROVE  /\ RtMovable(a, c) = RtMovable(s, c) \ MovableSet(s, t)
           /\ MovableSet(s, t) \subseteq RtMovable(s, c)
           /\ Pushable(a, c) = Pushable(s, c) \ {t}
  <1>1. s.prio[t] < FairPrio
    BY ThreadAssumption DEF States
  <1>2. RtQueued(a, c) = RtQueued(s, c) \ {t} /\ t \in RtQueued(s, c)
    BY <1>1 DEF RtQueued, Queued, OtherFlag
  <1>3. \A u : Movable(a, u) <=> Movable(s, u)
    BY DEF Movable, OtherFlag
  <1>4. RtMovable(a, c) = RtMovable(s, c) \ {t}
    BY <1>2, <1>3 DEF RtMovable
  <1>5. t \in RtMovable(s, c) <=> Movable(s, t)
    BY <1>2 DEF RtMovable
  <1> QED BY <1>4, <1>5 DEF Pushable, MovableSet, OtherFlag

LEMMA JoinedQueue ==
    ASSUME NEW s \in States, NEW t \in Threads, NEW a, OtherFlag(s, a, t),
           ~s.onRq[t], a.onRq[t], s.prio[t] # FairPrio, NEW c, c = s.home[t]
    PROVE  /\ RtMovable(a, c) = RtMovable(s, c) \cup MovableSet(s, t)
           /\ t \notin RtMovable(s, c)
           /\ s.curr[c] # t => Pushable(a, c) = Pushable(s, c) \cup MovableSet(s, t)
           /\ s.curr[c] = t => Pushable(a, c) = Pushable(s, c)
  <1>1. s.prio[t] < FairPrio
    BY ThreadAssumption DEF States
  <1>2. RtQueued(a, c) = RtQueued(s, c) \cup {t} /\ t \notin RtQueued(s, c)
    BY <1>1 DEF RtQueued, Queued, OtherFlag
  <1>3. \A u : Movable(a, u) <=> Movable(s, u)
    BY DEF Movable, OtherFlag
  <1>4. RtMovable(a, c) = RtMovable(s, c) \cup MovableSet(s, t)
    BY <1>2, <1>3 DEF RtMovable, MovableSet
  <1>5. t \notin RtMovable(s, c)
    BY <1>2 DEF RtMovable
  <1> QED BY <1>4, <1>5 DEF Pushable, MovableSet, OtherFlag

\* The count of queue c is n, and not yet told.
OtherCount(s, a, c, n) ==
    /\ a.mig = [s.mig EXCEPT ![c] = n]
    /\ a.over = s.over /\ a.online = s.online /\ a.pri = s.pri
    /\ a.rto = s.rto /\ a.rtoCount = s.rtoCount

\* A step of t in or out of its queue: what is counted and told.
LEMMA FlagLoads ==
    ASSUME NEW s, Exact(s), NEW t \in Threads, s.prio[t] # FairPrio,
           NEW c \in Cpus, c = s.home[t], NEW n \in Int,
           NEW a \in States, OtherFlag(s, a, t), OtherCount(s, a, c, n),
           SamePush(s, a), SameRest(s, a), SameFlags(s, a),
           \/ s.onRq[t] /\ ~a.onRq[t] /\ n = s.mig[c] - Counted(s, t)
           \/ ~s.onRq[t] /\ a.onRq[t] /\ n = s.mig[c] + Counted(s, t),
           NEW r, r = Migration(Cpupri(a, c, Highest(s, c)), c)
    PROVE  /\ r \in States /\ Domain(r) /\ \A d \in Cpus : Load(r, d)
           /\ SameTasks(a, r) /\ SamePush(s, r) /\ SameRest(s, r) /\ SameFlags(s, r)
           /\ r.online = s.online
  <1>1. s \in States /\ Domain(s) /\ c \in Cpus /\ \A d \in Cpus : Load(s, d)
    BY DEF Exact
  <1>2. s.mig[c] = Cardinality(RtMovable(s, c)) /\ s.mig \in [Cpus -> Int]
    BY <1>1 DEF Load, States
  <1>3. /\ a.over = s.over /\ a.online = s.online /\ a.pri = s.pri
        /\ a.rto = s.rto /\ a.rtoCount = s.rtoCount /\ a.mig = [s.mig EXCEPT ![c] = n]
    BY DEF OtherCount
  <1>4. OtherFlag(s, a, t)
    OBVIOUS
  <1>5. \A d \in Cpus \ {c} : /\ RtQueued(a, d) = RtQueued(s, d)
                              /\ RtMovable(a, d) = RtMovable(s, d) /\ Highest(a, d) = Highest(s, d)
    BY <1>1, <1>4, OtherQueues
  <1>6. \A d \in Cpus \ {c} : Load(a, d)
    <2> SUFFICES ASSUME NEW d \in Cpus \ {c} PROVE Load(a, d)
      OBVIOUS
    <2>1. a.mig[d] = s.mig[d]
      BY <1>2, <1>3
    <2> QED BY <1>1, <1>3, <1>5, <2>1 DEF Load
  <1>7. a.mig[c] = Cardinality(RtMovable(a, c))
    <2>1. a.mig[c] = n
      BY <1>1, <1>2, <1>3
    <2>2. IsFiniteSet(RtMovable(s, c))
      BY FiniteQueues
    <2>3. CASE s.onRq[t] /\ ~a.onRq[t] /\ n = s.mig[c] - Counted(s, t)
      <3>1. /\ RtMovable(a, c) = RtMovable(s, c) \ MovableSet(s, t)
            /\ MovableSet(s, t) \subseteq RtMovable(s, c)
        <4>1. s \in States /\ s.onRq[t] /\ ~a.onRq[t]
          BY <1>1, <1>3, <2>3
        <4> QED BY <1>4, <4>1, LeftQueue
      <3>2. CASE Movable(s, t)
        BY <1>2, <2>1, <2>2, <2>3, <3>1, <3>2, FS_RemoveElement DEF MovableSet, Counted
      <3>3. CASE ~Movable(s, t)
        BY <1>1, <1>2, <2>1, <2>3, <3>1, <3>3 DEF MovableSet, Counted
      <3> QED BY <3>2, <3>3
    <2>4. CASE ~s.onRq[t] /\ a.onRq[t] /\ n = s.mig[c] + Counted(s, t)
      <3>1. RtMovable(a, c) = RtMovable(s, c) \cup MovableSet(s, t) /\ t \notin RtMovable(s, c)
        <4>1. s \in States /\ ~s.onRq[t] /\ a.onRq[t]
          BY <1>1, <1>3, <2>4
        <4> QED BY <1>4, <4>1, JoinedQueue
      <3>2. CASE Movable(s, t)
        <4>1. RtMovable(a, c) = RtMovable(s, c) \cup {t} /\ t \notin RtMovable(s, c)
          BY <3>1, <3>2 DEF MovableSet
        <4>2. Cardinality(RtMovable(s, c) \cup {t}) = Cardinality(RtMovable(s, c)) + 1
          BY <2>2, <4>1, FS_AddElement
        <4>3. n = s.mig[c] + 1
          BY <2>4, <3>2 DEF Counted
        <4> QED BY <1>2, <2>1, <4>1, <4>2, <4>3
      <3>3. CASE ~Movable(s, t)
        BY <1>1, <1>2, <2>1, <2>4, <3>1, <3>3 DEF MovableSet, Counted
      <3> QED BY <3>2, <3>3
    <2> QED BY <2>3, <2>4
  <1>8. (a.online[c] => a.pri[c] = Highest(s, c)) /\ (~a.online[c] => a.pri[c] = 0)
    BY <1>1, <1>3 DEF Load
  <1>9. Domain(a)
    BY <1>1, <1>3 DEF Domain
  <1>10. a \in States
    OBVIOUS
  <1>11. /\ r \in States /\ Domain(r) /\ \A d \in Cpus : Load(r, d)
         /\ SameTasks(a, r) /\ SamePush(a, r) /\ SameRest(a, r) /\ SameFlags(a, r)
         /\ r.online = a.online
    <2>1. c \in Cpus
      BY <1>1
    <2> QED BY <2>1, <1>6, <1>7, <1>8, <1>9, <1>10, ToldLoads
  <1>12. SamePush(s, r) /\ SameRest(s, r) /\ SameFlags(s, r)
    BY <1>11 DEF SamePush, SameRest, SameFlags
  <1> QED BY <1>3, <1>11, <1>12

\* What a task in or out of its queue does not change.
Moved(s, r, t) ==
    /\ OtherFlag(s, r, t) /\ SameRest(s, r) /\ SameFlags(s, r) /\ r.online = s.online

\* The flag of a fair task is all that changes when it comes or goes.
LEMMA FairExact ==
    ASSUME NEW s, Exact(s), NEW t \in Threads, s.prio[t] = FairPrio,
           NEW o \in [Threads -> BOOLEAN], \A u \in Threads \ {t} : o[u] = s.onRq[u],
           NEW r, r = [s EXCEPT !.onRq = o]
    PROVE  Exact(r) /\ Moved(s, r, t) /\ r.onRq = o
  <1>1. s \in States /\ Domain(s)
    BY DEF Exact
  <1>2. r \in States
    BY <1>1, ZenonT(30) DEF States
  <1>3. /\ r.home = s.home /\ r.prio = s.prio /\ r.mask = s.mask /\ r.curr = s.curr
        /\ r.onRq = o /\ SamePush(s, r) /\ SameLoad(s, r) /\ SameRest(s, r) /\ SameFlags(s, r)
    BY <1>1 DEF States, SamePush, SameLoad, SameRest, SameFlags
  <1>4. OtherFlag(s, r, t)
    BY <1>3 DEF OtherFlag
  <1>5. \A d \in Cpus : /\ RtQueued(r, d) = RtQueued(s, d) /\ RtMovable(r, d) = RtMovable(s, d)
                        /\ Pushable(r, d) = Pushable(s, d) /\ Highest(r, d) = Highest(s, d)
    BY <1>1, <1>4, OtherQueues
  <1>6. \A d \in Cpus : PushList(r, d, Pushable(r, d)) /\ Load(r, d)
    BY <1>3, <1>5 DEF Exact, PushList, Load, SamePush, SameLoad
  <1>7. Domain(r)
    BY <1>1, <1>3 DEF Domain, SameLoad
  <1> QED BY <1>2, <1>3, <1>4, <1>6, <1>7 DEF Exact, Moved, SameLoad

\* Exact but for the list of one queue, which is then put in order.
LEMMA ListDone ==
    ASSUME NEW b \in States, Domain(b), NEW c \in Cpus, \A d \in Cpus : Load(b, d),
           \A d \in Cpus \ {c} : PushList(b, d, Pushable(b, d)),
           NEW r \in States, SameTasks(b, r), SameLoad(b, r), SameElsewhere(b, r, c),
           PushList(r, c, Pushable(b, c))
    PROVE  Exact(r)
  <1>1. \A d \in Cpus : /\ RtQueued(r, d) = RtQueued(b, d) /\ RtMovable(r, d) = RtMovable(b, d)
                        /\ Pushable(r, d) = Pushable(b, d) /\ Highest(r, d) = Highest(b, d)
    BY SameTasksSameQueues
  <1>2. \A d \in Cpus : Load(r, d)
    BY <1>1 DEF Load, SameLoad
  <1>3. \A d \in Cpus \ {c} : PushList(r, d, Pushable(r, d))
    BY <1>1 DEF PushList, SameElsewhere, SameTasks
  <1>4. Domain(r)
    BY DEF Domain, SameLoad
  <1> QED BY <1>1, <1>2, <1>3, <1>4 DEF Exact

\* What changes nothing of the queues.
LEMMA QueuesKept ==
    ASSUME NEW s, Exact(s), NEW r \in States, SamePush(s, r), SameLoad(s, r),
           \A d \in Cpus : /\ RtQueued(r, d) = RtQueued(s, d) /\ RtMovable(r, d) = RtMovable(s, d)
                           /\ Pushable(r, d) = Pushable(s, d)
                           /\ \A u \in RtQueued(s, d) : r.prio[u] = s.prio[u]
    PROVE  Exact(r)
  <1>1. s \in States /\ Domain(s)
    BY DEF Exact
  <1>2. \A d \in Cpus : Highest(r, d) = Highest(s, d)
    <2> SUFFICES ASSUME NEW d \in Cpus PROVE Highest(r, d) = Highest(s, d)
      OBVIOUS
    <2>1. {r.prio[u] : u \in RtQueued(r, d)} = {s.prio[u] : u \in RtQueued(s, d)}
      OBVIOUS
    <2> QED BY <2>1 DEF Highest
  <1>3. \A d \in Cpus : Load(r, d)
    BY <1>2 DEF Load, SameLoad, Exact
  <1>4. \A d \in Cpus : PushList(r, d, Pushable(r, d))
    <2> SUFFICES ASSUME NEW d \in Cpus PROVE PushList(r, d, Pushable(r, d))
      OBVIOUS
    <2>1. PushList(s, d, Pushable(s, d)) /\ Pushable(r, d) = Pushable(s, d)
      BY DEF Exact
    <2>2. \A u \in Pushable(s, d) : r.prio[u] = s.prio[u]
      BY DEF Pushable, RtMovable
    <2>3. r.push[d] = s.push[d] /\ r.next[d] = s.next[d]
      BY DEF SamePush
    <2> QED BY <1>1, <2>1, <2>2, <2>3, KeptList
  <1>5. Domain(r)
    BY <1>1 DEF Domain, SameLoad
  <1> QED BY <1>3, <1>4, <1>5 DEF Exact

\* dequeue_task: the task leaves its queue, and the list and the load of it.
LEMMA DequeueExact ==
    ASSUME NEW s, Exact(s), NEW t \in Threads, s.onRq[t], NEW r, r = Dequeue(s, t)
    PROVE  Exact(r) /\ Moved(s, r, t) /\ ~r.onRq[t]
  <1> DEFINE c == s.home[t]
             o == [s.onRq EXCEPT ![t] = FALSE]
             n == s.mig[c] - Counted(s, t)
             m == [s.mig EXCEPT ![c] = n]
  <1>1. /\ s \in States /\ c \in Cpus /\ s.onRq \in [Threads -> BOOLEAN] /\ s.mig \in [Cpus -> Int]
        /\ \A d \in Cpus : PushList(s, d, Pushable(s, d))
    BY DEF Exact, States
  <1>2. o \in [Threads -> BOOLEAN] /\ ~o[t] /\ \A u \in Threads \ {t} : o[u] = s.onRq[u]
    BY <1>1
  <1>3. n \in Int
    BY <1>1 DEF Counted
  <1>4. CASE s.prio[t] = FairPrio
    <2>1. r = [s EXCEPT !.onRq = o]
      BY <1>4 DEF Dequeue
    <2> HIDE DEF o
    <2> QED BY <1>2, <1>4, <2>1, FairExact
  <1>5. CASE s.prio[t] # FairPrio
    <2>1. PICK a : a = Flagged(s, o, m)
      OBVIOUS
    <2> DEFINE b == Migration(Cpupri(a, c, Highest(s, c)), c)
    <2>2. r = PushOff(b, c, t)
      BY <1>5, <2>1 DEF Dequeue, Flagged
    <2>3. m \in [Cpus -> Int]
      BY <1>1, <1>3
    <2> HIDE DEF o, m
    <2>4. /\ a \in States
          /\ a.home = s.home /\ a.prio = s.prio /\ a.mask = s.mask /\ a.curr = s.curr
          /\ SamePush(s, a) /\ SameRest(s, a) /\ SameFlags(s, a)
          /\ a.over = s.over /\ a.online = s.online /\ a.pri = s.pri
          /\ a.rto = s.rto /\ a.rtoCount = s.rtoCount
          /\ a.onRq = o /\ a.mig = m
      BY <1>1, <1>2, <2>3, <2>1, FlagFields
    <2>5. OtherFlag(s, a, t) /\ OtherCount(s, a, c, n) /\ ~a.onRq[t]
      BY <1>2, <2>4 DEF OtherFlag, OtherCount, m
    <2>6. n = s.mig[c] - Counted(s, t)
      OBVIOUS
    <2> HIDE DEF c, n
    <2>7. /\ b \in States /\ Domain(b) /\ \A d \in Cpus : Load(b, d)
          /\ SameTasks(a, b) /\ SamePush(s, b) /\ SameRest(s, b) /\ SameFlags(s, b)
          /\ b.online = s.online
      <3>1. c = s.home[t]
        BY DEF c
      <3> QED BY <1>1, <1>3, <1>5, <2>4, <2>5, <2>6, <3>1, FlagLoads
    <2> HIDE DEF b
    <2>8. /\ \A d \in Cpus \ {c} : Pushable(b, d) = Pushable(s, d)
          /\ Pushable(b, c) = Pushable(s, c) \ {t}
      <3>1. \A d \in Cpus : Pushable(b, d) = Pushable(a, d)
        BY <2>7, SameTasksSameQueues
      <3>2. \A d \in Cpus \ {c} : Pushable(a, d) = Pushable(s, d)
        BY <1>1, <2>5, OtherQueues DEF c
      <3>3. Pushable(a, c) = Pushable(s, c) \ {t}
        <4>1. s \in States /\ s.onRq[t] /\ c = s.home[t]
          BY <1>1 DEF c
        <4> QED BY <1>5, <2>5, <4>1, LeftQueue
      <3> QED BY <1>1, <3>1, <3>2, <3>3
    <2>9. \A d \in Cpus : PushList(b, d, Pushable(s, d))
      <3>1. b.prio = s.prio
        BY <2>4, <2>7 DEF SameTasks
      <3> QED BY <1>1, <2>7, <3>1 DEF PushList, SamePush
    <2>10. /\ r \in States
          /\ SameTasks(b, r) /\ SameLoad(b, r) /\ SameRest(b, r) /\ SameFlags(b, r)
          /\ PushList(r, c, Pushable(s, c) \ {t}) /\ SameElsewhere(b, r, c)
      BY <1>1, <2>2, <2>7, <2>9, PushOffList
    <2>11. Exact(r)
      <3>1. \A d \in Cpus \ {c} : PushList(b, d, Pushable(b, d))
        BY <2>8, <2>9
      <3>2. PushList(r, c, Pushable(b, c))
        BY <2>8, <2>10
      <3> QED BY <1>1, <2>7, <2>10, <3>1, <3>2, ListDone
    <2>12. Moved(s, r, t) /\ ~r.onRq[t]
      BY <2>4, <2>5, <2>7, <2>10
         DEF Moved, OtherFlag, SameTasks, SameRest, SameFlags, SameLoad
    <2> QED BY <2>11, <2>12
  <1> QED BY <1>4, <1>5

\* enqueue_task: the task joins its queue, and the list if it does not run.
LEMMA EnqueueExact ==
    ASSUME NEW s, Exact(s), NEW t \in Threads, ~s.onRq[t], NEW r, r = Enqueue(s, t)
    PROVE  Exact(r) /\ Moved(s, r, t) /\ r.onRq[t]
  <1> DEFINE c == s.home[t]
             o == [s.onRq EXCEPT ![t] = TRUE]
             n == s.mig[c] + Counted(s, t)
             m == [s.mig EXCEPT ![c] = n]
  <1>1. /\ s \in States /\ c \in Cpus /\ s.onRq \in [Threads -> BOOLEAN] /\ s.mig \in [Cpus -> Int]
        /\ \A d \in Cpus : PushList(s, d, Pushable(s, d))
    BY DEF Exact, States
  <1>2. o \in [Threads -> BOOLEAN] /\ o[t] /\ \A u \in Threads \ {t} : o[u] = s.onRq[u]
    BY <1>1
  <1>3. n \in Int
    BY <1>1 DEF Counted
  <1>4. CASE s.prio[t] = FairPrio
    <2>1. r = [s EXCEPT !.onRq = o]
      BY <1>4 DEF Enqueue
    <2> HIDE DEF o
    <2> QED BY <1>2, <1>4, <2>1, FairExact
  <1>5. CASE s.prio[t] # FairPrio
    <2>1. PICK a : a = Flagged(s, o, m)
      OBVIOUS
    <2> DEFINE b == Migration(Cpupri(a, c, Highest(s, c)), c)
    <2>2. r = IF s.curr[c] # t /\ Movable(s, t) THEN PushOn(b, c, t) ELSE b
      BY <1>5, <2>1 DEF Enqueue, Flagged
    <2>3. m \in [Cpus -> Int]
      BY <1>1, <1>3
    <2> HIDE DEF o, m
    <2>4. /\ a \in States
          /\ a.home = s.home /\ a.prio = s.prio /\ a.mask = s.mask /\ a.curr = s.curr
          /\ SamePush(s, a) /\ SameRest(s, a) /\ SameFlags(s, a)
          /\ a.over = s.over /\ a.online = s.online /\ a.pri = s.pri
          /\ a.rto = s.rto /\ a.rtoCount = s.rtoCount
          /\ a.onRq = o /\ a.mig = m
      BY <1>1, <1>2, <2>3, <2>1, FlagFields
    <2>5. OtherFlag(s, a, t) /\ OtherCount(s, a, c, n) /\ a.onRq[t]
      BY <1>2, <2>4 DEF OtherFlag, OtherCount, m
    <2>6. n = s.mig[c] + Counted(s, t)
      OBVIOUS
    <2> HIDE DEF c, n
    <2>7. /\ b \in States /\ Domain(b) /\ \A d \in Cpus : Load(b, d)
          /\ SameTasks(a, b) /\ SamePush(s, b) /\ SameRest(s, b) /\ SameFlags(s, b)
          /\ b.online = s.online
      <3>1. c = s.home[t]
        BY DEF c
      <3> QED BY <1>1, <1>3, <1>5, <2>4, <2>5, <2>6, <3>1, FlagLoads
    <2> HIDE DEF b
    <2>8. /\ \A d \in Cpus \ {c} : Pushable(b, d) = Pushable(s, d)
          /\ s.curr[c] # t => Pushable(b, c) = Pushable(s, c) \cup MovableSet(s, t)
          /\ s.curr[c] = t => Pushable(b, c) = Pushable(s, c)
      <3>1. \A d \in Cpus : Pushable(b, d) = Pushable(a, d)
        BY <2>7, SameTasksSameQueues
      <3>2. \A d \in Cpus \ {c} : Pushable(a, d) = Pushable(s, d)
        BY <1>1, <2>5, OtherQueues DEF c
      <3>3. /\ s.curr[c] # t => Pushable(a, c) = Pushable(s, c) \cup MovableSet(s, t)
            /\ s.curr[c] = t => Pushable(a, c) = Pushable(s, c)
        BY <1>1, <1>5, <2>5, JoinedQueue DEF c
      <3> QED BY <1>1, <3>1, <3>2, <3>3
    <2>9. \A d \in Cpus : PushList(b, d, Pushable(s, d))
      <3>1. b.prio = s.prio
        BY <2>4, <2>7 DEF SameTasks
      <3> QED BY <1>1, <2>7, <3>1 DEF PushList, SamePush
    <2>10. \A d \in Cpus \ {c} : PushList(b, d, Pushable(b, d))
      BY <2>8, <2>9
    <2>11. CASE s.curr[c] # t /\ Movable(s, t)
      <3>1. /\ r \in States
            /\ SameTasks(b, r) /\ SameLoad(b, r) /\ SameRest(b, r) /\ SameFlags(b, r)
            /\ PushList(r, c, Pushable(s, c) \cup {t}) /\ SameElsewhere(b, r, c)
        <4>1. r = PushOn(b, c, t)
          BY <2>2, <2>11
        <4> QED BY <1>1, <2>7, <2>9, <4>1, PushOnList
      <3>2. PushList(r, c, Pushable(b, c))
        BY <2>8, <2>11, <3>1 DEF MovableSet
      <3>3. Exact(r)
        BY <1>1, <2>7, <2>10, <3>1, <3>2, ListDone
      <3> QED BY <2>4, <2>5, <2>7, <3>1, <3>3
              DEF Moved, OtherFlag, SameTasks, SameRest, SameFlags, SameLoad
    <2>12. CASE ~(s.curr[c] # t /\ Movable(s, t))
      <3>1. r = b /\ Pushable(b, c) = Pushable(s, c)
        BY <2>2, <2>8, <2>12 DEF MovableSet
      <3>2. \A d \in Cpus : PushList(r, d, Pushable(r, d))
        BY <2>9, <2>10, <3>1
      <3>3. Exact(r)
        BY <2>7, <3>1, <3>2 DEF Exact
      <3> QED BY <2>4, <2>5, <2>7, <3>1, <3>3
              DEF Moved, OtherFlag, SameTasks, SameRest, SameFlags
    <2> QED BY <2>11, <2>12
  <1> QED BY <1>4, <1>5

-----------------------------------------------------------------------------
(* What every step keeps of the state of the queues *)

\* A processor runs a task of its own queue, and unless it is about to choose
\* another one (the processors F) one that is queued.
OnOwn(s, F) ==
    \A c \in Cpus : s.curr[c] \in Threads =>
        s.home[s.curr[c]] = c /\ (c \notin F => s.onRq[s.curr[c]])

Awake(s) == \A t \in Threads : s.onRq[t] => s.st[t] = "run"

\* The move of a task that is where it may not run is under way, to where it may.
Placed(s) ==
    /\ \A t \in Threads \ s.stray :
        /\ s.onRq[t] /\ s.home[t] \notin s.mask[t] =>
            \E x \in s.stops : x[1] = t /\ x[2] = s.home[t] /\ x[3] \in s.mask[t]
        /\ s.st[t] = "waking" => s.home[t] \in s.mask[t]
    /\ \A x \in s.stops : x[3] \in s.active

Sound(s, F) == Exact(s) /\ OnOwn(s, F) /\ Awake(s) /\ Placed(s)

Frame(s, r) == SameRest(s, r) /\ r.online = s.online

\* What is set of a task that is in no queue.
LEMMA Unqueued ==
    ASSUME NEW s, Exact(s), NEW t \in Threads, ~s.onRq[t],
           NEW r \in States, SamePush(s, r), SameLoad(s, r),
           r.onRq = s.onRq, r.curr = s.curr,
           \A u \in Threads \ {t} :
              r.home[u] = s.home[u] /\ r.prio[u] = s.prio[u] /\ r.mask[u] = s.mask[u]
    PROVE  Exact(r)
  <1>1. \A d \in Cpus : /\ RtQueued(r, d) = RtQueued(s, d)
                        /\ \A u \in RtQueued(s, d) :
                              u \in Threads \ {t} /\ r.prio[u] = s.prio[u] /\ r.mask[u] = s.mask[u]
    BY DEF RtQueued, Queued
  <1>2. \A d \in Cpus : RtMovable(r, d) = RtMovable(s, d)
    BY <1>1 DEF RtMovable, Movable
  <1>3. \A d \in Cpus : Pushable(r, d) = Pushable(s, d)
    BY <1>2 DEF Pushable
  <1> QED BY <1>1, <1>2, <1>3, QueuesKept

\* The new home of a task between two queues.
Homed(s, t, d) == [s EXCEPT !.home[t] = d, !.stray = @ \ {t}]

LEMMA HomedFields ==
    ASSUME NEW s \in States, NEW t \in Threads, NEW d \in Cpus, NEW r, r = Homed(s, t, d)
    PROVE  /\ r \in States
           /\ r.home = [s.home EXCEPT ![t] = d] /\ r.stray = s.stray \ {t}
           /\ r.onRq = s.onRq /\ r.prio = s.prio /\ r.mask = s.mask /\ r.curr = s.curr
           /\ SamePush(s, r) /\ SameLoad(s, r) /\ SameRest(s, r)
           /\ r.resched = s.resched /\ r.post = s.post
  <1> DEFINE h == [s.home EXCEPT ![t] = d]
             y == s.stray \ {t}
  <1>1. h \in [Threads -> Cpus] /\ y \in SUBSET Threads
    BY DEF States
  <1>2. r = [s EXCEPT !.home = h, !.stray = y]
    BY DEF Homed
  <1> HIDE DEF h, y
  <1>3. r \in States
    BY <1>1, <1>2, ZenonT(30) DEF States
  <1>4. SamePush(s, r) /\ SameLoad(s, r) /\ SameRest(s, r)
    BY <1>2 DEF States, SamePush, SameLoad, SameRest
  <1>5. /\ r.home = h /\ r.stray = y
        /\ r.onRq = s.onRq /\ r.prio = s.prio /\ r.mask = s.mask /\ r.curr = s.curr
        /\ r.resched = s.resched /\ r.post = s.post
    BY <1>2 DEF States
  <1> QED BY <1>3, <1>4, <1>5 DEF h, y

LEMMA MoveFields ==
    ASSUME NEW s, Exact(s), NEW t \in Threads, s.onRq[t], NEW d \in Cpus, NEW r, r = Move(s, t, d)
    PROVE  /\ Exact(r)
           /\ r.home = [s.home EXCEPT ![t] = d] /\ r.stray = s.stray \ {t}
           /\ r.prio = s.prio /\ r.mask = s.mask /\ r.curr = s.curr
           /\ r.onRq[t] /\ \A u \in Threads : r.onRq[u] <=> s.onRq[u]
           /\ SameRest(s, r) /\ r.resched = s.resched /\ r.post = s.post /\ r.online = s.online
  <1> DEFINE a == Dequeue(s, t)
             b == Homed(a, t, d)
  <1>1. Exact(a) /\ Moved(s, a, t) /\ ~a.onRq[t]
    BY DequeueExact
  <1>2. r = Enqueue(b, t)
    BY DEF Move, Homed
  <1> HIDE DEF a
  <1>3. /\ b \in States
        /\ b.home = [a.home EXCEPT ![t] = d] /\ b.stray = a.stray \ {t}
        /\ b.onRq = a.onRq /\ b.prio = a.prio /\ b.mask = a.mask /\ b.curr = a.curr
        /\ SamePush(a, b) /\ SameLoad(a, b) /\ SameRest(a, b)
        /\ b.resched = a.resched /\ b.post = a.post
    BY <1>1, HomedFields DEF Exact
  <1> HIDE DEF b
  <1>4. Exact(b) /\ ~b.onRq[t]
    <2>1. a.home \in [Threads -> Cpus]
      BY <1>1 DEF Exact, States
    <2>2. \A u \in Threads \ {t} :
              b.home[u] = a.home[u] /\ b.prio[u] = a.prio[u] /\ b.mask[u] = a.mask[u]
      BY <1>3, <2>1
    <2> QED BY <1>1, <1>3, <2>2, Unqueued
  <1>5. Exact(r) /\ Moved(b, r, t) /\ r.onRq[t]
    BY <1>2, <1>4, EnqueueExact
  <1>6. \A u \in Threads : r.onRq[u] <=> s.onRq[u]
    BY <1>1, <1>3, <1>5 DEF Moved, OtherFlag
  <1>7. /\ r.home = [s.home EXCEPT ![t] = d] /\ r.stray = s.stray \ {t}
        /\ r.prio = s.prio /\ r.mask = s.mask /\ r.curr = s.curr
    BY <1>1, <1>3, <1>5 DEF Moved, OtherFlag, SameFlags
  <1>8. SameRest(s, r) /\ r.resched = s.resched /\ r.post = s.post /\ r.online = s.online
    BY <1>1, <1>3, <1>5 DEF Moved, SameFlags, SameRest, SameLoad
  <1> QED BY <1>5, <1>6, <1>7, <1>8

\* A task that waits is moved to a processor it may run on.
LEMMA MoveSound ==
    ASSUME NEW s, NEW F, Sound(s, F), NEW t \in Threads, s.onRq[t], ~OnCpu(s, t),
           NEW d \in s.mask[t], NEW r, r = Move(s, t, d)
    PROVE  /\ Sound(r, F) /\ Frame(s, r)
           /\ r.curr = s.curr /\ r.prio = s.prio /\ r.mask = s.mask
           /\ r.onRq[t] /\ r.home[t] = d
  <1>1. Exact(s) /\ OnOwn(s, F) /\ Awake(s) /\ Placed(s) /\ s \in States
    BY DEF Sound, Exact
  <1>2. d \in Cpus /\ s.home \in [Threads -> Cpus]
    BY <1>1 DEF States
  <1>3. /\ Exact(r)
        /\ r.home = [s.home EXCEPT ![t] = d] /\ r.stray = s.stray \ {t}
        /\ r.prio = s.prio /\ r.mask = s.mask /\ r.curr = s.curr
        /\ r.onRq[t] /\ \A u \in Threads : r.onRq[u] <=> s.onRq[u]
        /\ SameRest(s, r) /\ r.resched = s.resched /\ r.post = s.post /\ r.online = s.online
    BY <1>1, <1>2, MoveFields
  <1>4. r.home[t] = d /\ \A u \in Threads \ {t} : r.home[u] = s.home[u]
    BY <1>2, <1>3
  <1>5. OnOwn(r, F)
    <2>1. \A c \in Cpus : s.curr[c] # t
      BY DEF OnCpu
    <2> QED BY <1>1, <1>3, <1>4, <2>1 DEF OnOwn
  <1>6. Awake(r)
    BY <1>1, <1>3 DEF Awake, SameRest
  <1>7. Placed(r)
    <2>1. /\ r.st = s.st /\ r.stops = s.stops /\ r.active = s.active
      BY <1>3 DEF SameRest
    <2>2. r.home[t] \in r.mask[t]
      BY <1>3, <1>4
    <2>3. ASSUME NEW u \in Threads \ r.stray, u # t
          PROVE  /\ r.onRq[u] /\ r.home[u] \notin r.mask[u] =>
                    \E x \in r.stops : x[1] = u /\ x[2] = r.home[u] /\ x[3] \in r.mask[u]
                 /\ r.st[u] = "waking" => r.home[u] \in r.mask[u]
      <3>1. u \in Threads \ s.stray /\ r.home[u] = s.home[u] /\ r.mask[u] = s.mask[u]
            /\ (r.onRq[u] <=> s.onRq[u])
        BY <1>3, <1>4, <2>3
      <3> QED BY <1>1, <2>1, <3>1 DEF Placed
    <2> QED BY <1>1, <2>1, <2>2, <2>3 DEF Placed
  <1> QED BY <1>3, <1>4, <1>5, <1>6, <1>7 DEF Sound, Frame

\* Flags that say when a processor schedules are not about the queues.
LEMMA FlagsSound ==
    ASSUME NEW s, NEW F, Sound(s, F), NEW r \in States,
           SameTasks(s, r), SamePush(s, r), SameLoad(s, r), SameRest(s, r), r.stray = s.stray
    PROVE  Sound(r, F) /\ Frame(s, r)
  <1>1. Exact(s) /\ OnOwn(s, F) /\ Awake(s) /\ Placed(s)
    BY DEF Sound
  <1>2. \A d \in Cpus : /\ RtQueued(r, d) = RtQueued(s, d) /\ RtMovable(r, d) = RtMovable(s, d)
                        /\ Pushable(r, d) = Pushable(s, d)
    BY SameTasksSameQueues
  <1>3. Exact(r)
    <2>1. \A d \in Cpus : \A u \in RtQueued(s, d) : r.prio[u] = s.prio[u]
      BY DEF SameTasks
    <2> QED BY <1>1, <1>2, <2>1, QueuesKept
  <1>4. OnOwn(r, F)
    BY <1>1 DEF OnOwn, SameTasks
  <1>5. Awake(r)
    BY <1>1 DEF Awake, SameTasks, SameRest
  <1>6. Placed(r)
    BY <1>1 DEF Placed, SameTasks, SameRest
  <1> QED BY <1>3, <1>4, <1>5, <1>6 DEF Sound, Frame, SameLoad

Posted(s, c, on) == [s EXCEPT !.post[c] = on]

LEMMA PostedFields ==
    ASSUME NEW s \in States, NEW c \in Cpus, NEW on, on \in BOOLEAN, NEW r, r = Posted(s, c, on)
    PROVE  /\ r \in States
           /\ SameTasks(s, r) /\ SamePush(s, r) /\ SameLoad(s, r) /\ SameRest(s, r)
           /\ r.stray = s.stray /\ r.resched = s.resched
  <1> DEFINE p == [s.post EXCEPT ![c] = on]
  <1>1. p \in [Cpus -> BOOLEAN]
    BY DEF States
  <1>2. r = [s EXCEPT !.post = p]
    BY DEF Posted
  <1> HIDE DEF p
  <1>3. r \in States
    BY <1>1, <1>2, ZenonT(30) DEF States
  <1> QED BY <1>2, <1>3 DEF States, SameTasks, SamePush, SameLoad, SameRest

LEMMA ReschedFields ==
    ASSUME NEW s \in States, NEW c \in Cpus, NEW r, r = Resched(s, c)
    PROVE  /\ r \in States
           /\ SameTasks(s, r) /\ SamePush(s, r) /\ SameLoad(s, r) /\ SameRest(s, r)
           /\ r.stray = s.stray /\ r.post = s.post
  <1> DEFINE p == [s.resched EXCEPT ![c] = TRUE]
  <1>1. p \in [Cpus -> BOOLEAN]
    BY DEF States
  <1>2. r = [s EXCEPT !.resched = p]
    BY DEF Resched
  <1> HIDE DEF p
  <1>3. r \in States
    BY <1>1, <1>2, ZenonT(30) DEF States
  <1> QED BY <1>2, <1>3 DEF States, SameTasks, SamePush, SameLoad, SameRest

LEMMA ReschedSound ==
    ASSUME NEW s, NEW F, Sound(s, F), NEW c \in Cpus, NEW r, r = Resched(s, c)
    PROVE  Sound(r, F) /\ Frame(s, r) /\ SameTasks(s, r) /\ SamePush(s, r)
  <1>1. s \in States
    BY DEF Sound, Exact
  <1> QED BY <1>1, ReschedFields, FlagsSound

LEMMA PostedSound ==
    ASSUME NEW s, NEW F, Sound(s, F), NEW c \in Cpus, NEW on, on \in BOOLEAN,
           NEW r, r = Posted(s, c, on)
    PROVE  Sound(r, F) /\ Frame(s, r) /\ SameTasks(s, r)
  <1>1. s \in States
    BY DEF Sound, Exact
  <1> QED BY <1>1, PostedFields, FlagsSound

LEMMA CheckPreemptSound ==
    ASSUME NEW s, NEW F, Sound(s, F), NEW c \in Cpus, NEW t, NEW r \in CheckPreempt(s, c, t)
    PROVE  Sound(r, F) /\ Frame(s, r) /\ SameTasks(s, r) /\ SamePush(s, r)
  <1>1. r = s \/ r = Resched(s, c)
    BY DEF CheckPreempt
  <1>2. Frame(s, s) /\ SameTasks(s, s) /\ SamePush(s, s)
    BY DEF Frame, SameRest, SameTasks, SamePush
  <1> QED BY <1>1, <1>2, ReschedSound

-----------------------------------------------------------------------------
(* Picking the next task *)

\* The list of a queue holds all that can be moved once the previous task is put
\* back.
LEMMA PutPrevList ==
    ASSUME NEW s, NEW F, Sound(s, F), NEW c \in Cpus, NEW r, r = PutPrev(s, c)
    PROVE  /\ r \in States
           /\ SameTasks(s, r) /\ SameLoad(s, r) /\ SameRest(s, r) /\ SameFlags(s, r)
           /\ PushList(r, c, RtMovable(s, c)) /\ SameElsewhere(s, r, c)
  <1> DEFINE prev == s.curr[c]
             put == prev \in Threads /\ s.onRq[prev] /\ s.prio[prev] < FairPrio /\ Movable(s, prev)
  <1>1. s \in States /\ PushList(s, c, Pushable(s, c))
    BY DEF Sound, Exact
  <1>2. prev \in Threads => s.home[prev] = c
    BY DEF Sound, OnOwn
  <1>3. put <=> prev \in RtMovable(s, c)
    BY <1>2 DEF RtMovable, RtQueued, Queued
  <1>4. CASE put
    <2>1. r = PushOn(s, c, prev) /\ prev \in Threads
      BY <1>4 DEF PutPrev
    <2>2. Pushable(s, c) \cup {prev} = RtMovable(s, c)
      BY <1>3, <1>4 DEF Pushable
    <2> HIDE DEF prev
    <2> QED BY <1>1, <2>1, <2>2, PushOnList
  <1>5. CASE ~put
    <2>1. r = s
      BY <1>5 DEF PutPrev
    <2>2. Pushable(s, c) = RtMovable(s, c)
      BY <1>3, <1>5 DEF Pushable
    <2> QED BY <1>1, <2>1, <2>2
            DEF SameTasks, SameLoad, SameRest, SameFlags, SameElsewhere
  <1> QED BY <1>4, <1>5

LEMMA SwitchedFields ==
    ASSUME NEW s \in States, NEW c \in Cpus, NEW t \in Threads \cup {Idle, Stopper},
           NEW r, r = Switched(s, c, t)
    PROVE  /\ r \in States /\ r.curr = [s.curr EXCEPT ![c] = t]
           /\ r.home = s.home /\ r.onRq = s.onRq /\ r.prio = s.prio /\ r.mask = s.mask
           /\ SamePush(s, r) /\ SameLoad(s, r) /\ SameRest(s, r) /\ r.stray = s.stray
           /\ r.post = s.post
  <1> DEFINE u == [s.curr EXCEPT ![c] = t]
             p == [s.resched EXCEPT ![c] = FALSE]
  <1>1. u \in [Cpus -> Threads \cup {Idle, Stopper}] /\ p \in [Cpus -> BOOLEAN]
    BY DEF States
  <1>2. r = [s EXCEPT !.curr = u, !.resched = p]
    BY DEF Switched
  <1> HIDE DEF u, p
  <1>3. r \in States
    BY <1>1, <1>2, ZenonT(30) DEF States
  <1>4. SamePush(s, r) /\ SameLoad(s, r) /\ SameRest(s, r)
    BY <1>2 DEF States, SamePush, SameLoad, SameRest
  <1>5. /\ r.curr = u /\ r.stray = s.stray /\ r.post = s.post
        /\ r.home = s.home /\ r.onRq = s.onRq /\ r.prio = s.prio /\ r.mask = s.mask
    BY <1>2 DEF States
  <1> QED BY <1>3, <1>4, <1>5 DEF u

\* The next task is of the queue, and no longer in its list.
LEMMA SwitchSound ==
    ASSUME NEW s, NEW F, Sound(s, F), NEW c \in Cpus,
           NEW t \in Threads \cup {Idle, Stopper}, t \in Threads => t \in Queued(s, c),
           NEW b \in States, SameTasks(s, b), SameLoad(s, b), SameRest(s, b),
           b.stray = s.stray, SameElsewhere(s, b, c), PushList(b, c, RtMovable(s, c) \ {t}),
           NEW r, r = Switched(b, c, t)
    PROVE  Sound(r, F \ {c}) /\ Frame(s, r)
  <1>1. /\ Exact(s) /\ OnOwn(s, F) /\ Awake(s) /\ Placed(s)
        /\ s \in States /\ s.curr \in [Cpus -> Threads \cup {Idle, Stopper}]
        /\ b.home = s.home /\ b.onRq = s.onRq /\ b.prio = s.prio /\ b.mask = s.mask
        /\ b.curr = s.curr
    BY DEF Sound, Exact, States, SameTasks
  <1>2. /\ r \in States /\ r.curr = [s.curr EXCEPT ![c] = t]
        /\ r.home = s.home /\ r.onRq = s.onRq /\ r.prio = s.prio /\ r.mask = s.mask
        /\ SamePush(b, r) /\ SameLoad(b, r) /\ SameRest(b, r) /\ r.stray = s.stray
    BY <1>1, SwitchedFields
  <1>3. /\ SameLoad(s, r) /\ SameRest(s, r)
        /\ r.push[c] = b.push[c] /\ r.next[c] = b.next[c]
        /\ \A d \in Cpus \ {c} : r.push[d] = s.push[d] /\ r.next[d] = s.next[d]
        /\ r.curr[c] = t /\ \A d \in Cpus \ {c} : r.curr[d] = s.curr[d]
    BY <1>1, <1>2 DEF SameLoad, SameRest, SamePush, SameElsewhere
  <1>4. \A d \in Cpus : /\ RtQueued(r, d) = RtQueued(s, d) /\ RtMovable(r, d) = RtMovable(s, d)
                        /\ Highest(r, d) = Highest(s, d)
    BY <1>2 DEF RtQueued, Queued, RtMovable, Movable, Highest
  <1>5. Pushable(r, c) = RtMovable(s, c) \ {t}
    BY <1>3, <1>4 DEF Pushable
  <1>6. \A d \in Cpus \ {c} : Pushable(r, d) = Pushable(s, d)
    BY <1>3, <1>4 DEF Pushable
  <1>7. Exact(r)
    <2>1. \A d \in Cpus : Load(r, d)
      BY <1>1, <1>3, <1>4 DEF Exact, Load, SameLoad
    <2>2. Domain(r)
      BY <1>1, <1>3 DEF Exact, Domain, SameLoad
    <2>3. PushList(r, c, Pushable(r, c))
      BY <1>1, <1>2, <1>3, <1>5 DEF PushList
    <2>4. \A d \in Cpus \ {c} : PushList(r, d, Pushable(r, d))
      BY <1>1, <1>2, <1>3, <1>6 DEF Exact, PushList
    <2> QED BY <1>2, <2>1, <2>2, <2>3, <2>4 DEF Exact
  <1>8. OnOwn(r, F \ {c})
    <2>1. t \in Threads => r.home[t] = c /\ r.onRq[t]
      BY <1>2 DEF Queued
    <2> QED BY <1>1, <1>2, <1>3, <2>1 DEF OnOwn
  <1>9. Awake(r)
    BY <1>1, <1>2, <1>3 DEF Awake, SameRest
  <1>10. Placed(r)
    BY <1>1, <1>2, <1>3 DEF Placed, SameRest
  <1> QED BY <1>3, <1>7, <1>8, <1>9, <1>10 DEF Sound, Frame, SameLoad

\* pick_next_task.
LEMMA PickSound ==
    ASSUME NEW s, NEW F, Sound(s, F), NEW c \in Cpus, NEW r \in Pick(s, c)
    PROVE  Sound(r, F \ {c}) /\ Frame(s, r)
  <1> DEFINE put == PutPrev(s, c)
             best == {t \in RtQueued(put, c) : put.prio[t] = Highest(put, c)}
             taken(t) == PushOff(put, c, t)
  <1>1. s \in States
    BY DEF Sound, Exact
  <1>2. /\ put \in States
        /\ SameTasks(s, put) /\ SameLoad(s, put) /\ SameRest(s, put) /\ SameFlags(s, put)
        /\ PushList(put, c, RtMovable(s, c)) /\ SameElsewhere(s, put, c)
    BY PutPrevList
  <1>3. /\ Queued(put, c) = Queued(s, c) /\ RtQueued(put, c) = RtQueued(s, c)
    BY <1>2, SameTasksSameQueues
  <1>4. \/ r = Switched(put, c, Stopper)
        \/ \E t \in best : r = Posted(Switched(taken(t), c, t), c, taken(t).push[c] # <<>>)
        \/ /\ best = {}
           /\ \E t \in IF Queued(put, c) = {} THEN {Idle} ELSE Queued(put, c) :
                r = Posted(Switched(put, c, t), c, FALSE)
    BY DEF Pick, Posted
  <1> HIDE DEF put
  <1>5. RtMovable(s, c) \subseteq RtQueued(s, c) /\ RtQueued(s, c) \subseteq Queued(s, c)
        /\ Queued(s, c) \subseteq Threads
    BY DEF RtMovable, RtQueued, Queued
  <1>6. CASE r = Switched(put, c, Stopper)
    <2>1. Stopper \notin Threads /\ RtMovable(s, c) \ {Stopper} = RtMovable(s, c)
      BY <1>5, ThreadAssumption
    <2>2. PushList(put, c, RtMovable(s, c) \ {Stopper})
      BY <1>2, <2>1
    <2>3. Stopper \in Threads \cup {Idle, Stopper} /\ put.stray = s.stray
      BY <1>2 DEF SameFlags
    <2> QED BY <1>2, <1>6, <2>1, <2>2, <2>3, SwitchSound
  <1>7. CASE \E t \in best : r = Posted(Switched(taken(t), c, t), c, taken(t).push[c] # <<>>)
    <2>1. PICK t \in best : r = Posted(Switched(taken(t), c, t), c, taken(t).push[c] # <<>>)
      BY <1>7
    <2>2. t \in Threads /\ t \in Queued(s, c)
      BY <1>3, <1>5
    <2> DEFINE b == taken(t)
               w == Switched(b, c, t)
               on == b.push[c] # <<>>
    <2>3. /\ b \in States
          /\ SameTasks(put, b) /\ SameLoad(put, b) /\ SameRest(put, b) /\ SameFlags(put, b)
          /\ PushList(b, c, RtMovable(s, c) \ {t}) /\ SameElsewhere(put, b, c)
      BY <1>2, <2>2, PushOffList
    <2>4. r = Posted(w, c, on) /\ on \in BOOLEAN
      BY <2>1
    <2> HIDE DEF b, taken
    <2>5. /\ SameTasks(s, b) /\ SameLoad(s, b) /\ SameRest(s, b)
          /\ b.stray = s.stray /\ SameElsewhere(s, b, c)
      BY <1>2, <2>3 DEF SameTasks, SameLoad, SameRest, SameFlags, SameElsewhere
    <2>6. Sound(w, F \ {c}) /\ Frame(s, w)
      BY <2>2, <2>3, <2>5, SwitchSound
    <2> HIDE DEF w, on
    <2>7. Sound(r, F \ {c}) /\ Frame(w, r)
      BY <2>4, <2>6, PostedSound
    <2> QED BY <2>6, <2>7 DEF Frame, SameRest
  <1>8. CASE /\ best = {}
             /\ \E t \in IF Queued(put, c) = {} THEN {Idle} ELSE Queued(put, c) :
                  r = Posted(Switched(put, c, t), c, FALSE)
    <2>1. PICK t \in IF Queued(put, c) = {} THEN {Idle} ELSE Queued(put, c) :
                r = Posted(Switched(put, c, t), c, FALSE)
      BY <1>8
    <2>2. RtQueued(put, c) = {}
      BY <1>2, <1>8, HighestIs
    <2>3. RtMovable(s, c) \ {t} = RtMovable(s, c)
      BY <1>3, <1>5, <2>2
    <2>4. t \in Threads \cup {Idle, Stopper} /\ (t \in Threads => t \in Queued(s, c))
      BY <1>3, <1>5, <2>1, ThreadAssumption
    <2> DEFINE w == Switched(put, c, t)
    <2>5. Sound(w, F \ {c}) /\ Frame(s, w)
      <3>1. PushList(put, c, RtMovable(s, c) \ {t}) /\ put.stray = s.stray
        BY <1>2, <2>3 DEF SameFlags
      <3> QED BY <1>2, <2>4, <3>1, SwitchSound
    <2>6. r = Posted(w, c, FALSE)
      BY <2>1
    <2> HIDE DEF w
    <2>7. Sound(r, F \ {c}) /\ Frame(w, r)
      BY <2>5, <2>6, PostedSound
    <2> QED BY <2>5, <2>7 DEF Frame, SameRest
  <1> QED BY <1>4, <1>6, <1>7, <1>8

-----------------------------------------------------------------------------
(* Pushing and pulling *)

\* What a push has come to: its end, or the lock of a processor.
Reached(s, F, r) ==
    /\ Sound(r.s, F) /\ Frame(s, r.s)
    /\ r.task = NoOne \/ (r.task \in Threads /\ r.dest \in Cpus)
    /\ r.task \in Threads \cup {NoOne} /\ r.tries \in Int

LEMMA SameFrame ==
    ASSUME NEW s PROVE Frame(s, s)
  BY DEF Frame, SameRest

LEMMA DoneReached ==
    ASSUME NEW s, NEW F, NEW w, Sound(w, F), Frame(s, w), NEW r, r = Done(w)
    PROVE  Reached(s, F, r)
  <1>1. r.s = w /\ r.task = NoOne /\ r.tries = 0
    BY DEF Done
  <1> QED BY <1>1 DEF Reached

LEMMA LockingReached ==
    ASSUME NEW s, NEW F, NEW w, Sound(w, F), Frame(s, w), NEW t \in Threads, NEW d \in Cpus,
           NEW n \in Int, NEW r, r = Locking(w, t, d, n)
    PROVE  Reached(s, F, r)
  <1>1. r.s = w /\ r.task = t /\ r.dest = d /\ r.tries = n
    BY DEF Locking
  <1> QED BY <1>1 DEF Reached

LEMMA FindLowestCpus ==
    ASSUME NEW s \in States, NEW t \in Threads, NEW d \in FindLowest(s, t)
    PROVE  d = 0 \/ d \in Cpus
  <1>1. s.mask[t] \subseteq Cpus
    BY DEF States
  <1>2. CpupriFind(s, t) \subseteq Cpus
    BY <1>1 DEF CpupriFind
  <1>3. d = 0 \/ d \in CpupriFind(s, t)
    BY DEF FindLowest
  <1> QED BY <1>2, <1>3

LEMMA PushNextReached ==
    ASSUME NEW s, NEW F, NEW w, Sound(w, F), Frame(s, w), NEW q \in Cpus, w.push[q] # <<>>,
           NEW r \in PushNext(w, q)
    PROVE  Reached(s, F, r)
  <1> DEFINE t == Head(w.push[q])
  <1>1. w \in States
    BY DEF Sound, Exact
  <1>2. t \in Threads
    <2>1. w.push[q] \in Seq(Threads)
      BY <1>1 DEF States
    <2> QED BY <2>1, HeadTailProperties
  <1>3. \/ r = Done(w)
        \/ r = Done(Resched(w, q))
        \/ \E d \in FindLowest(w, t) : d \notin {0, q} /\ r = Locking(w, t, d, 0)
    BY DEF PushNext
  <1> HIDE DEF t
  <1>4. CASE r = Done(w)
    BY <1>4, DoneReached
  <1>5. CASE r = Done(Resched(w, q))
    <2> DEFINE v == Resched(w, q)
    <2>1. Sound(v, F) /\ Frame(w, v)
      BY ReschedSound
    <2>2. r = Done(v)
      BY <1>5
    <2> HIDE DEF v
    <2>3. Frame(s, v)
      BY <2>1 DEF Frame, SameRest
    <2> QED BY <2>1, <2>2, <2>3, DoneReached
  <1>6. CASE \E d \in FindLowest(w, t) : d \notin {0, q} /\ r = Locking(w, t, d, 0)
    <2>1. PICK d \in FindLowest(w, t) : d \notin {0, q} /\ r = Locking(w, t, d, 0)
      BY <1>6
    <2>2. d \in Cpus
      BY <1>1, <1>2, <2>1, FindLowestCpus
    <2>3. 0 \in Int
      OBVIOUS
    <2> QED BY <1>2, <2>1, <2>2, <2>3, LockingReached
  <1> QED BY <1>3, <1>4, <1>5, <1>6

LEMMA PushStartReached ==
    ASSUME NEW s, NEW F, NEW w, Sound(w, F), Frame(s, w), NEW q \in Cpus,
           NEW r \in PushStart(w, q)
    PROVE  Reached(s, F, r)
  <1>1. CASE ~w.over[q] \/ w.push[q] = <<>>
    <2>1. r = Done(w)
      BY <1>1 DEF PushStart
    <2> QED BY <2>1, DoneReached
  <1>2. CASE ~(~w.over[q] \/ w.push[q] = <<>>)
    <2>1. r \in PushNext(w, q) /\ w.push[q] # <<>>
      BY <1>2 DEF PushStart
    <2> QED BY <2>1, PushNextReached
  <1> QED BY <1>1, <1>2

LEMMA PushFailedReached ==
    ASSUME NEW s, NEW F, Sound(s, F), NEW q \in Cpus, NEW t, NEW r \in PushFailed(s, q, t)
    PROVE  Reached(s, F, r)
  <1>1. Frame(s, s)
    BY SameFrame
  <1>2. CASE s.push[q] = <<>> \/ (s.home[t] = q /\ Head(s.push[q]) = t)
    <2>1. r = Done(s)
      BY <1>2 DEF PushFailed
    <2> QED BY <1>1, <2>1, DoneReached
  <1>3. CASE ~(s.push[q] = <<>> \/ (s.home[t] = q /\ Head(s.push[q]) = t))
    <2>1. r \in PushNext(s, q) /\ s.push[q] # <<>>
      BY <1>3 DEF PushFailed
    <2> QED BY <1>1, <2>1, PushNextReached
  <1> QED BY <1>2, <1>3

\* push_rt_task once both locks are held: it moves only what it has looked at again.
LEMMA PushLockedReached ==
    ASSUME NEW s, NEW F, Sound(s, F), NEW q \in Cpus, NEW t \in Threads, NEW d \in Cpus,
           NEW n \in Int, NEW all, NEW r \in PushLocked(s, q, t, d, n, all)
    PROVE  Reached(s, F, r)
  <1> DEFINE m == Move(s, t, d)
             moved == Resched(m, d)
  <1>1. s \in States /\ Frame(s, s)
    BY SameFrame DEF Sound, Exact
  <1>2. \/ r \in PushFailed(s, q, t)
        \/ /\ ~Stale(s, q, t, d)
           /\ \/ r \in PushStart(moved, q)
              \/ r = [Done(moved) EXCEPT !.moved = TRUE]
        \/ \E e \in FindLowest(s, t) : e \notin {0, q} /\ r = Locking(s, t, e, n + 1)
    BY DEF PushLocked
  <1>3. CASE r \in PushFailed(s, q, t)
    BY <1>3, PushFailedReached
  <1>4. CASE /\ ~Stale(s, q, t, d)
             /\ \/ r \in PushStart(moved, q)
                \/ r = [Done(moved) EXCEPT !.moved = TRUE]
    <2>1. d \in s.mask[t] /\ ~OnCpu(s, t) /\ s.onRq[t]
      BY <1>4 DEF Stale
    <2>2. Sound(m, F) /\ Frame(s, m)
      BY <2>1, MoveSound
    <2> HIDE DEF m
    <2>3. Sound(moved, F) /\ Frame(m, moved)
      BY <2>2, ReschedSound
    <2> HIDE DEF moved
    <2>4. Frame(s, moved)
      BY <2>2, <2>3 DEF Frame, SameRest
    <2>5. CASE r \in PushStart(moved, q)
      BY <2>3, <2>4, <2>5, PushStartReached
    <2>6. CASE r = [Done(moved) EXCEPT !.moved = TRUE]
      <3>1. r.s = moved /\ r.task = NoOne /\ r.tries = 0
        BY <2>6 DEF Done
      <3> QED BY <2>3, <2>4, <3>1 DEF Reached
    <2> QED BY <1>4, <2>5, <2>6
  <1>5. CASE \E e \in FindLowest(s, t) : e \notin {0, q} /\ r = Locking(s, t, e, n + 1)
    <2>1. PICK e \in FindLowest(s, t) : e \notin {0, q} /\ r = Locking(s, t, e, n + 1)
      BY <1>5
    <2>2. e \in Cpus
      BY <1>1, <2>1, FindLowestCpus
    <2>3. n + 1 \in Int
      OBVIOUS
    <2> QED BY <1>1, <2>1, <2>2, <2>3, LockingReached
  <1> QED BY <1>2, <1>3, <1>4, <1>5

\* pull_rt_task once it holds the lock of queue d.
LEMMA PullLockedSound ==
    ASSUME NEW s, NEW F, Sound(s, F), NEW q, NEW d, NEW r \in PullLocked(s, q, d)
    PROVE  Sound(r, F) /\ Frame(s, r)
  <1>1. \/ r = s
        \/ \E t \in Pullable(s, q, d) : r = Move(s, t, q)
    BY DEF PullLocked
  <1>2. CASE \E t \in Pullable(s, q, d) : r = Move(s, t, q)
    <2>1. PICK t \in Pullable(s, q, d) : r = Move(s, t, q)
      BY <1>2
    <2>2. t \in Threads /\ s.onRq[t] /\ ~OnCpu(s, t) /\ q \in s.mask[t]
      BY DEF Pullable, RtQueued, Queued
    <2> QED BY <2>1, <2>2, MoveSound
  <1> QED BY <1>1, <1>2, SameFrame

-----------------------------------------------------------------------------
(* What a processor is in the middle of *)

Contexts ==
    [at : {"none", "push", "pull", "wake"}, q : Cpus \cup {0}, task : Threads \cup {NoOne},
     dest : Cpus \cup {0}, tries : Int,
     then : {"none", "post", "woken", "pick", "prio", "from", "to"}, who : Threads \cup {NoOne}]

PushEnds == {"post", "woken", "to"}
PullEnds == {"pick", "prio", "from"}

InLoop(x) ==
    /\ x.at = "push" => /\ x.q \in Cpus /\ x.task \in Threads /\ x.dest \in Cpus
                        /\ x.then \in PushEnds
    /\ x.at = "pull" => x.q \in Cpus /\ x.dest \in Cpus /\ x.then \in PullEnds
    /\ x.at = "wake" => x.who \in Threads

Choosing(x) == x.at = "pull" /\ x.then = "pick"

\* Processor c has gone on from s with the tasks of F chosen anew.
Went(s, F, c) ==
    \E y \in Contexts :
        /\ Leave(c, y) /\ InLoop(y) /\ y.at # "wake"
        /\ Frame(s, k')
        /\ Sound(k', IF Choosing(y) THEN F \cup {c} ELSE F \ {c})

LEMMA NoCtxIs == NoCtx \in Contexts /\ InLoop(NoCtx) /\ NoCtx.at = "none" /\ ~Choosing(NoCtx)
  BY DEF NoCtx, Contexts, InLoop, Choosing

LEMMA LoopIs ==
    ASSUME NEW q \in Cpus, NEW then \in PushEnds \cup PullEnds, NEW who \in Threads \cup {NoOne},
           NEW x, x = Loop(q, then, who)
    PROVE  x \in Contexts /\ x.q = q /\ x.then = then /\ x.who = who
  <1>1. NoCtx \in Contexts
    BY NoCtxIs
  <1>2. x = [NoCtx EXCEPT !.q = q, !.then = then, !.who = who]
    BY DEF Loop
  <1>3. then \in {"none", "post", "woken", "pick", "prio", "from", "to"}
    BY DEF PushEnds, PullEnds
  <1> QED BY <1>1, <1>2, <1>3 DEF Contexts

LEMMA EndsSound ==
    ASSUME NEW s, NEW F, Sound(s, F), NEW c \in Cpus, NEW x, x.q \in Cpus,
           x.then \in PushEnds \cup PullEnds, x.then = "pick" \/ c \notin F,
           NEW moved, NEW r \in Ends(s, c, x, moved)
    PROVE  Sound(r, F \ {c}) /\ Frame(s, r)
  <1>1. CASE x.then = "pick"
    <2>1. r \in Pick(s, c)
      BY <1>1, Zenon DEF Ends
    <2> QED BY <2>1, PickSound
  <1>2. ASSUME x.then # "pick" PROVE F \ {c} = F
    BY <1>2
  <1>3. CASE x.then = "post"
    <2>1. r = Posted(s, c, FALSE)
      BY <1>3, Zenon DEF Ends, Posted
    <2> QED BY <1>2, <1>3, <2>1, PostedSound
  <1>4. CASE x.then = "woken"
    <2>1. r = s
      BY <1>4, Zenon DEF Ends
    <2> QED BY <1>2, <1>4, <2>1, SameFrame
  <1>5. CASE x.then = "prio"
    <2>1. r = Resched(s, x.q) \/ r = s
      BY <1>5, Zenon DEF Ends
    <2> QED BY <1>2, <1>5, <2>1, ReschedSound, SameFrame
  <1>6. CASE x.then = "to"
    <2>1. r = Resched(s, x.q) \/ r = s
      BY <1>6, Zenon DEF Ends
    <2> QED BY <1>2, <1>6, <2>1, ReschedSound, SameFrame
  <1>7. CASE x.then = "from"
    <2>1. r \in SwitchedToFair(s, x.q, x.who)
      BY <1>7, Zenon DEF Ends
    <2>2. r = s \/ r = Resched(s, x.q) \/ r \in CheckPreempt(s, x.q, x.who)
      BY <2>1 DEF SwitchedToFair
    <2> QED BY <1>2, <1>7, <2>2, ReschedSound, CheckPreemptSound, SameFrame
  <1> QED BY <1>1, <1>3, <1>4, <1>5, <1>6, <1>7 DEF PushEnds, PullEnds

\* A push of queue x.q goes on, to its end or to the next lock.
LEMMA PushRunsWent ==
    ASSUME NEW s, NEW F, NEW c \in Cpus, c \notin F, NEW x \in Contexts, x.q \in Cpus,
           x.then \in PushEnds, NEW r, Reached(s, F, r), PushRuns(c, x, r)
    PROVE  Went(s, F, c)
  <1>1. /\ Sound(r.s, F) /\ Frame(s, r.s)
        /\ r.task = NoOne \/ (r.task \in Threads /\ r.dest \in Cpus)
        /\ r.task \in Threads \cup {NoOne} /\ r.tries \in Int
    BY DEF Reached
  <1>2. CASE r.task = NoOne
    <2>1. k' \in Ends(r.s, c, x, r.moved) /\ Leave(c, NoCtx)
      BY <1>2 DEF PushRuns
    <2>2. Sound(k', F \ {c}) /\ Frame(r.s, k')
      BY <1>1, <2>1, EndsSound
    <2>3. Frame(s, k')
      BY <1>1, <2>2 DEF Frame, SameRest
    <2>4. NoCtx.at # "wake"
      BY NoCtxIs
    <2> QED BY <2>1, <2>2, <2>3, <2>4, NoCtxIs DEF Went
  <1>3. CASE r.task # NoOne
    <2> DEFINE y == [x EXCEPT !.at = "push", !.task = r.task, !.dest = r.dest, !.tries = r.tries]
    <2>1. k' = r.s /\ Leave(c, y)
      BY <1>3 DEF PushRuns
    <2>2. r.task \in Threads /\ r.dest \in Cpus
      BY <1>1, <1>3
    <2>3. y \in Contexts
      BY <1>1, <2>2 DEF Contexts
    <2>4. y.at = "push" /\ y.q = x.q /\ y.task = r.task /\ y.dest = r.dest /\ y.then = x.then
      BY DEF Contexts
    <2> HIDE DEF y
    <2>5. InLoop(y) /\ ~Choosing(y) /\ y.at # "wake"
      BY <2>2, <2>4 DEF InLoop, Choosing
    <2>6. Sound(k', F \ {c}) /\ Frame(s, k')
      <3>1. F \ {c} = F
        OBVIOUS
      <3> QED BY <1>1, <2>1, <3>1
    <2> QED BY <2>1, <2>3, <2>5, <2>6 DEF Went
  <1> QED BY <1>2, <1>3

\* A pull for queue x.q goes on.
LEMMA PullRunsWent ==
    ASSUME NEW s, NEW F, Sound(s, F), NEW v, Frame(v, s),
           NEW c \in Cpus, NEW x \in Contexts, x.q \in Cpus,
           x.then \in PullEnds, x.then = "pick" \/ c \notin F, NEW d \in Cpus \cup {0},
           PullRuns(c, x, s, d)
    PROVE  Went(v, F, c)
  <1> DEFINE e == PullNext(s, x.q, d)
  <1>1. e = 0 \/ e \in Cpus
    <2> DEFINE rich == {f \in s.rto \ {x.q} : f > d /\ s.next[f] < Highest(s, x.q)}
    <2>1. rich \subseteq Cpus
      BY DEF Sound, Exact, States
    <2>2. e = 0 \/ (rich # {} /\ e = Min(rich))
      BY DEF PullNext
    <2> HIDE DEF rich
    <2>3. rich # {} => Min(rich) \in rich
      <3> SUFFICES ASSUME rich # {} PROVE Min(rich) \in rich
        OBVIOUS
      <3>1. rich \in SUBSET Nat
        BY <2>1, CpuAssumption
      <3>2. \E y \in rich : \A z \in rich : y <= z
        BY <3>1, LeastElement
      <3> QED BY <3>2 DEF Min
    <2> QED BY <2>1, <2>2, <2>3
  <1>2. CASE e = 0
    <2>1. k' \in Ends(s, c, x, FALSE) /\ Leave(c, NoCtx)
      BY <1>2 DEF PullRuns
    <2>2. x.then \in PushEnds \cup PullEnds
      OBVIOUS
    <2>3. Sound(k', F \ {c}) /\ Frame(s, k')
      BY <2>1, <2>2, EndsSound
    <2>4. Frame(v, k')
      BY <2>3 DEF Frame, SameRest
    <2> QED BY <2>1, <2>3, <2>4, NoCtxIs DEF Went
  <1>3. CASE e # 0
    <2> DEFINE y == [x EXCEPT !.at = "pull", !.dest = e]
    <2>1. k' = s /\ Leave(c, y)
      BY <1>3 DEF PullRuns
    <2>2. e \in Cpus
      BY <1>1, <1>3
    <2> HIDE DEF e
    <2>3. y \in Contexts
      BY <2>2 DEF Contexts
    <2>4. y.at = "pull" /\ y.q = x.q /\ y.dest = e /\ y.then = x.then
      BY DEF Contexts
    <2> HIDE DEF y
    <2>5. InLoop(y) /\ y.at # "wake" /\ (Choosing(y) <=> x.then = "pick")
      BY <2>2, <2>4 DEF InLoop, Choosing
    <2>6. Sound(k', IF Choosing(y) THEN F \cup {c} ELSE F \ {c})
      <3>1. CASE Choosing(y)
        <4>1. OnOwn(s, F \cup {c}) /\ Exact(s) /\ Awake(s) /\ Placed(s)
          BY DEF Sound, OnOwn
        <4> QED BY <2>1, <3>1, <4>1 DEF Sound
      <3>2. CASE ~Choosing(y)
        <4>1. F \ {c} = F
          BY <2>5, <3>2
        <4> QED BY <2>1, <3>2, <4>1
      <3> QED BY <3>1, <3>2
    <2> QED BY <2>1, <2>3, <2>5, <2>6 DEF Went
  <1> QED BY <1>2, <1>3

\* A processor that goes on with a choice already made.
LEMMA StaysWent ==
    ASSUME NEW s, NEW F, NEW c \in Cpus, Frame(s, k'), Sound(k', F \ {c}), Leave(c, NoCtx)
    PROVE  Went(s, F, c)
  BY NoCtxIs DEF Went

\* schedule(), of the run queue s in which the previous task may have gone to sleep.
LEMMA ScheduleFromWent ==
    ASSUME NEW s, NEW F, NEW c \in Cpus, Sound(s, F), NEW v, Frame(v, s), ScheduleFrom(c, s)
    PROVE  Went(v, F, c)
  <1>1. \/ PullRuns(c, Loop(c, "pick", NoOne), s, 0)
        \/ k' \in Pick(s, c) /\ Leave(c, NoCtx)
    BY DEF ScheduleFrom
  <1>2. CASE PullRuns(c, Loop(c, "pick", NoOne), s, 0)
    <2> DEFINE x == Loop(c, "pick", NoOne)
    <2>1. "pick" \in PushEnds \cup PullEnds /\ "pick" \in PullEnds
      BY DEF PullEnds
    <2>2. x \in Contexts /\ x.q = c /\ x.then = "pick"
      BY <2>1, LoopIs
    <2>3. PullRuns(c, x, s, 0)
      BY <1>2
    <2> HIDE DEF x
    <2> QED BY <2>1, <2>2, <2>3, PullRunsWent
  <1>3. CASE k' \in Pick(s, c) /\ Leave(c, NoCtx)
    <2>1. Sound(k', F \ {c}) /\ Frame(s, k')
      BY <1>3, PickSound
    <2>2. Frame(v, k')
      BY <2>1 DEF Frame, SameRest
    <2> QED BY <1>3, <2>1, <2>2, StaysWent
  <1> QED BY <1>1, <1>2, <1>3

-----------------------------------------------------------------------------
(* The inductive invariant *)

\* The tasks that are woken are each on one wake list, or in the hands of one
\* processor.
WakeOk(st, lists, x) ==
    /\ \A c \in Cpus : x[c].at = "wake" =>
        /\ st[x[c].who] = "waking"
        /\ \A d \in Cpus : /\ d # c /\ x[d].at = "wake" => x[d].who # x[c].who
                           /\ x[c].who \notin Range(lists[d])
    /\ \A c \in Cpus :
        /\ IsInjective(lists[c]) /\ \A t \in Range(lists[c]) : st[t] = "waking"
        /\ \A d \in Cpus \ {c} : Range(lists[c]) \cap Range(lists[d]) = {}

Free(x) == {c \in Cpus : Choosing(x[c])}

CtxInv ==
    /\ ctx \in [Cpus -> Contexts]
    /\ \A c \in Cpus : InLoop(ctx[c]) /\ (c \notin k.up => ctx[c].at = "none")

HotInv ==
    /\ hot = NoPlug \/ hot \in [phase : {"prepare", "stop", "dying", "up"}, cpu : Cpus]
    /\ hot.phase \in {"prepare", "stop", "up"} => hot.cpu \in k.up
    /\ hot.phase \in {"prepare", "stop", "dying"} => k.stops = {}
    /\ hot.phase = "dying" => k.curr[hot.cpu] = Stopper /\ \A c \in Cpus : ctx[c].at = "none"
    /\ \A c \in Cpus : k.online[c] <=> c \in k.up /\ ~(hot.phase = "up" /\ hot.cpu = c)

SmpInv == Sound(k, Free(ctx)) /\ CtxInv /\ WakeOk(k.st, k.wakeList, ctx) /\ HotInv

LEMMA WakeLeft ==
    ASSUME NEW st, NEW lists, NEW x \in [Cpus -> Contexts], WakeOk(st, lists, x), NEW c \in Cpus,
           NEW y \in Contexts, y.at # "wake", NEW z, z = [x EXCEPT ![c] = y]
    PROVE  WakeOk(st, lists, z)
  <1>1. z[c] = y /\ \A d \in Cpus \ {c} : z[d] = x[d]
    OBVIOUS
  <1>2. \A d \in Cpus : z[d].at = "wake" => d # c /\ z[d] = x[d]
    BY <1>1
  <1> QED BY <1>2 DEF WakeOk

\* What a processor does that goes on, whoever the others are.
LEMMA WentInv ==
    ASSUME SmpInv, NEW v, NEW F, NEW c \in Cpus, c \in k.up, Went(v, F, c),
           F \cup {c} = Free(ctx) \cup {c},
           v.up = k.up, v.online = k.online, v.stops = k.stops,
           \A y \in Contexts : y.at # "wake" => WakeOk(v.st, v.wakeList, [ctx EXCEPT ![c] = y]),
           hot.phase # "dying", hot' = hot
    PROVE  SmpInv'
  <1>1. PICK y \in Contexts :
            /\ Leave(c, y) /\ InLoop(y) /\ y.at # "wake"
            /\ Frame(v, k')
            /\ Sound(k', IF Choosing(y) THEN F \cup {c} ELSE F \ {c})
    BY DEF Went
  <1>2. ctx' = [ctx EXCEPT ![c] = y] /\ ctx \in [Cpus -> Contexts]
    BY <1>1 DEF Leave, SmpInv, CtxInv
  <1>3. ctx' \in [Cpus -> Contexts] /\ ctx'[c] = y /\ \A d \in Cpus \ {c} : ctx'[d] = ctx[d]
    BY <1>2
  <1>4. /\ k'.st = v.st /\ k'.wakeList = v.wakeList /\ k'.up = k.up /\ k'.stops = k.stops
        /\ k'.online = k.online
    BY <1>1 DEF Frame, SameRest
  <1>5. Free(ctx') = IF Choosing(y) THEN F \cup {c} ELSE F \ {c}
    <2>1. \A d \in Cpus \ {c} : d \in Free(ctx') <=> d \in F
      BY <1>3 DEF Free
    <2>2. c \in Free(ctx') <=> Choosing(y)
      BY <1>3 DEF Free
    <2>3. Free(ctx') \subseteq Cpus /\ F \subseteq Cpus
      BY DEF Free
    <2> QED BY <2>1, <2>2, <2>3
  <1>6. CtxInv'
    <2>1. \A d \in Cpus : InLoop(ctx'[d]) /\ (d \notin k'.up => ctx'[d].at = "none")
      BY <1>1, <1>3, <1>4 DEF SmpInv, CtxInv
    <2> QED BY <1>3, <2>1 DEF CtxInv
  <1>7. HotInv'
    BY <1>4 DEF SmpInv, HotInv
  <1>8. WakeOk(k.st, k.wakeList, ctx)'
    BY <1>1, <1>2, <1>4
  <1>9. Sound(k, Free(ctx))'
    BY <1>1, <1>5
  <1> QED BY <1>6, <1>7, <1>8, <1>9 DEF SmpInv

\* The same where nobody is woken.
LEMMA WentOn ==
    ASSUME SmpInv, NEW v, NEW F, NEW c \in Cpus, c \in k.up, Went(v, F, c),
           F \cup {c} = Free(ctx) \cup {c}, Frame(k, v), hot.phase # "dying", hot' = hot
    PROVE  SmpInv'
  <1>1. /\ v.st = k.st /\ v.wakeList = k.wakeList /\ v.up = k.up /\ v.stops = k.stops
        /\ v.online = k.online
    BY DEF Frame, SameRest
  <1>2. \A y \in Contexts : y.at # "wake" => WakeOk(v.st, v.wakeList, [ctx EXCEPT ![c] = y])
    BY <1>1, WakeLeft DEF SmpInv, CtxInv
  <1> QED BY <1>1, <1>2, WentInv

\* A step that leaves the contexts alone.
LEMMA StayedInv ==
    ASSUME SmpInv, Sound(k', Free(ctx)), Frame(k, k'), k'.curr = k.curr \/ hot.phase # "dying",
           ctx' = ctx, hot' = hot
    PROVE  SmpInv'
  <1>1. /\ k'.st = k.st /\ k'.wakeList = k.wakeList /\ k'.up = k.up /\ k'.stops = k.stops
        /\ k'.online = k.online
    BY DEF Frame, SameRest
  <1>2. CtxInv'
    BY <1>1 DEF SmpInv, CtxInv
  <1>3. HotInv'
    BY <1>1 DEF SmpInv, HotInv
  <1>4. WakeOk(k.st, k.wakeList, ctx)'
    BY <1>1 DEF SmpInv
  <1> QED BY <1>2, <1>3, <1>4 DEF SmpInv

LEMMA InvParts ==
    ASSUME SmpInv
    PROVE  /\ Sound(k, Free(ctx)) /\ k \in States /\ ctx \in [Cpus -> Contexts]
           /\ \A c \in Cpus : InLoop(ctx[c])
           /\ \A c \in Cpus : ctx[c].at # "none" => c \in k.up /\ hot.phase # "dying"
           /\ \A c \in Cpus : ctx[c].at # "pull" => c \notin Free(ctx)
  BY DEF SmpInv, Sound, Exact, CtxInv, HotInv, Free, Choosing

LEMMA ReadyIs ==
    ASSUME SmpInv, NEW c \in Cpus, Ready(c)
    PROVE  c \in k.up /\ ctx[c].at = "none" /\ hot.phase # "dying" /\ c \notin Free(ctx)
  BY DEF Ready, Free, Choosing

-----------------------------------------------------------------------------
(* The steps of a processor *)

LEMMA PreemptCurrInv ==
    ASSUME SmpInv, NEW c \in Cpus, PreemptCurr(c)
    PROVE  SmpInv'
  <1>1. c \in k.up /\ hot.phase # "dying" /\ Sound(k, Free(ctx)) /\ Frame(k, k)
    BY InvParts, ReadyIs, SameFrame DEF PreemptCurr
  <1>2. ScheduleFrom(c, k) /\ hot' = hot
    BY DEF PreemptCurr, Stays
  <1>3. Went(k, Free(ctx), c)
    BY <1>1, <1>2, ScheduleFromWent
  <1> QED BY <1>1, <1>2, <1>3, WentOn

LEMMA PushGoesInv ==
    ASSUME SmpInv, NEW c \in Cpus, PushGoes(c)
    PROVE  SmpInv'
  <1> DEFINE x == ctx[c]
  <1>1. PICK r \in PushLocked(k, x.q, x.task, x.dest, x.tries, x.then # "to") : PushRuns(c, x, r)
    BY DEF PushGoes
  <1>2. x.at = "push" /\ hot' = hot
    BY DEF PushGoes
  <1>3. /\ c \in k.up /\ hot.phase # "dying" /\ Sound(k, Free(ctx)) /\ Frame(k, k)
        /\ c \notin Free(ctx) /\ x \in Contexts /\ InLoop(x)
    BY <1>2, InvParts, SameFrame
  <1> HIDE DEF x
  <1>4. x.q \in Cpus /\ x.task \in Threads /\ x.dest \in Cpus /\ x.then \in PushEnds /\ x.tries \in Int
    BY <1>2, <1>3 DEF InLoop, Contexts
  <1>5. Reached(k, Free(ctx), r)
    BY <1>1, <1>3, <1>4, PushLockedReached
  <1>6. Went(k, Free(ctx), c)
    BY <1>1, <1>3, <1>4, <1>5, PushRunsWent
  <1> QED BY <1>2, <1>3, <1>6, WentOn

LEMMA PullGoesInv ==
    ASSUME SmpInv, NEW c \in Cpus, PullGoes(c)
    PROVE  SmpInv'
  <1> DEFINE x == ctx[c]
  <1>1. PICK s \in PullLocked(k, x.q, x.dest) : PullRuns(c, x, s, x.dest)
    BY DEF PullGoes
  <1>2. x.at = "pull" /\ hot' = hot
    BY DEF PullGoes
  <1>3. /\ c \in k.up /\ hot.phase # "dying" /\ Sound(k, Free(ctx)) /\ Frame(k, k)
        /\ x \in Contexts /\ InLoop(x)
    BY <1>2, InvParts, SameFrame
  <1>4. x.then = "pick" \/ c \notin Free(ctx)
    BY DEF Free, Choosing
  <1> HIDE DEF x
  <1>5. x.q \in Cpus /\ x.dest \in Cpus \cup {0} /\ x.then \in PullEnds
    BY <1>2, <1>3 DEF InLoop
  <1>6. Sound(s, Free(ctx)) /\ Frame(k, s)
    BY <1>3, PullLockedSound
  <1>7. Went(k, Free(ctx), c)
    BY <1>1, <1>3, <1>4, <1>5, <1>6, PullRunsWent
  <1> QED BY <1>2, <1>3, <1>7, WentOn

LEMMA PostScheduleInv ==
    ASSUME SmpInv, NEW c \in Cpus, PostSchedule(c)
    PROVE  SmpInv'
  <1>1. /\ c \in k.up /\ hot.phase # "dying" /\ Sound(k, Free(ctx)) /\ Frame(k, k)
        /\ c \notin Free(ctx) /\ hot' = hot
    BY InvParts, ReadyIs, SameFrame DEF PostSchedule, Stays
  <1>2. CASE \E r \in PushStart(k, c) : PushRuns(c, Loop(c, "post", NoOne), r)
    <2>1. PICK r \in PushStart(k, c) : PushRuns(c, Loop(c, "post", NoOne), r)
      BY <1>2
    <2> DEFINE x == Loop(c, "post", NoOne)
    <2>2. "post" \in PushEnds \cup PullEnds /\ "post" \in PushEnds
      BY DEF PushEnds
    <2>3. x \in Contexts /\ x.q = c /\ x.then = "post"
      BY <2>2, LoopIs
    <2>4. PushRuns(c, x, r)
      BY <2>1
    <2> HIDE DEF x
    <2>5. Reached(k, Free(ctx), r)
      BY <1>1, <2>1, PushStartReached
    <2>6. Went(k, Free(ctx), c)
      BY <1>1, <2>2, <2>3, <2>4, <2>5, PushRunsWent
    <2> QED BY <1>1, <2>6, WentOn
  <1>3. CASE k' = [k EXCEPT !.post[c] = FALSE] /\ Leave(c, NoCtx)
    <2>1. k' = Posted(k, c, FALSE)
      BY <1>3 DEF Posted
    <2>2. Sound(k', Free(ctx)) /\ Frame(k, k')
      BY <1>1, <2>1, PostedSound
    <2>3. Free(ctx) \ {c} = Free(ctx)
      BY <1>1
    <2>4. Went(k, Free(ctx), c)
      BY <1>3, <2>2, <2>3, StaysWent
    <2> QED BY <1>1, <2>4, WentOn
  <1> QED BY <1>2, <1>3 DEF PostSchedule

\* Another state for those that are not woken.
LEMMA WakeOther ==
    ASSUME NEW st, NEW lists, NEW x, WakeOk(st, lists, x),
           NEW su, \A t : st[t] = "waking" => su[t] = "waking"
    PROVE  WakeOk(su, lists, x)
  BY DEF WakeOk

InState(s, t, a) == [s EXCEPT !.st[t] = a]

LEMMA InStateFields ==
    ASSUME NEW s \in States, NEW t \in Threads, NEW a, a \in {"sleep", "waking", "run"},
           NEW r, r = InState(s, t, a)
    PROVE  /\ r \in States /\ r.st = [s.st EXCEPT ![t] = a]
           /\ SameTasks(s, r) /\ SamePush(s, r) /\ SameLoad(s, r) /\ SameFlags(s, r)
           /\ r.wakeList = s.wakeList /\ r.up = s.up /\ r.active = s.active /\ r.stops = s.stops
  <1> DEFINE u == [s.st EXCEPT ![t] = a]
  <1>1. u \in [Threads -> {"sleep", "waking", "run"}]
    BY DEF States
  <1>2. r = [s EXCEPT !.st = u]
    BY DEF InState
  <1> HIDE DEF u
  <1>3. r \in States
    BY <1>1, <1>2, ZenonT(30) DEF States
  <1>4. /\ SameTasks(s, r) /\ SamePush(s, r) /\ SameLoad(s, r) /\ SameFlags(s, r)
    BY <1>2 DEF States, SameTasks, SamePush, SameLoad, SameFlags
  <1>5. /\ r.st = u
        /\ r.wakeList = s.wakeList /\ r.up = s.up /\ r.active = s.active /\ r.stops = s.stops
    BY <1>2 DEF States
  <1> QED BY <1>3, <1>4, <1>5 DEF u

\* Queues are the same where tasks are the same.
LEMMA SameTasksExact ==
    ASSUME NEW s, Exact(s), NEW r \in States, SameTasks(s, r), SamePush(s, r), SameLoad(s, r)
    PROVE  Exact(r)
  <1>1. \A d \in Cpus : /\ RtQueued(r, d) = RtQueued(s, d) /\ RtMovable(r, d) = RtMovable(s, d)
                        /\ Pushable(r, d) = Pushable(s, d)
    BY SameTasksSameQueues
  <1>2. \A d \in Cpus : \A u \in RtQueued(s, d) : r.prio[u] = s.prio[u]
    BY DEF SameTasks
  <1> QED BY <1>1, <1>2, QueuesKept

LEMMA SleepCurrInv ==
    ASSUME SmpInv, NEW c \in Cpus, SleepCurr(c)
    PROVE  SmpInv'
  <1> DEFINE prev == k.curr[c]
             d == Dequeue(k, prev)
             v == InState(d, prev, "sleep")
             F == Free(ctx) \cup {c}
  <1>1. /\ c \in k.up /\ hot.phase # "dying" /\ Sound(k, Free(ctx)) /\ c \notin Free(ctx)
        /\ hot' = hot /\ prev \in Threads
    BY InvParts, ReadyIs DEF SleepCurr, Stays
  <1>2. ScheduleFrom(c, v)
    BY DEF SleepCurr, InState
  <1>3. /\ Exact(k) /\ OnOwn(k, Free(ctx)) /\ Awake(k) /\ Placed(k) /\ k.st \in [Threads -> {"sleep", "waking", "run"}]
    BY <1>1 DEF Sound, Exact, States
  <1>4. k.onRq[prev] /\ k.home[prev] = c /\ k.st[prev] = "run"
    BY <1>1, <1>3 DEF OnOwn, Awake
  <1> HIDE DEF prev
  <1>5. Exact(d) /\ Moved(k, d, prev) /\ ~d.onRq[prev]
    BY <1>1, <1>3, <1>4, DequeueExact
  <1> HIDE DEF d
  <1>6. /\ v \in States /\ v.st = [d.st EXCEPT ![prev] = "sleep"]
        /\ SameTasks(d, v) /\ SamePush(d, v) /\ SameLoad(d, v) /\ SameFlags(d, v)
        /\ v.wakeList = d.wakeList /\ v.up = d.up /\ v.active = d.active /\ v.stops = d.stops
    <2>1. "sleep" \in {"sleep", "waking", "run"} /\ d \in States
      BY <1>5 DEF Exact
    <2> QED BY <1>1, <2>1, InStateFields
  <1> HIDE DEF v
  <1>7. /\ v.home = k.home /\ v.prio = k.prio /\ v.mask = k.mask /\ v.curr = k.curr
        /\ \A u \in Threads \ {prev} : v.onRq[u] = k.onRq[u] /\ v.st[u] = k.st[u]
        /\ ~v.onRq[prev] /\ v.st[prev] = "sleep" /\ v.stray = k.stray
        /\ v.wakeList = k.wakeList /\ v.up = k.up /\ v.active = k.active /\ v.stops = k.stops
        /\ v.online = k.online
    <2>1. d.st = k.st /\ d.st \in [Threads -> {"sleep", "waking", "run"}]
      BY <1>3, <1>5 DEF Moved, SameRest
    <2> QED BY <1>1, <1>5, <1>6, <2>1
            DEF Moved, OtherFlag, SameRest, SameTasks, SameFlags, SameLoad
  <1>8. Sound(v, F)
    <2>1. Exact(v)
      BY <1>5, <1>6, SameTasksExact
    <2>2. OnOwn(v, F)
      <3>1. \A e \in Cpus : k.curr[e] = prev => e = c
        BY <1>1, <1>3, <1>4 DEF OnOwn
      <3> QED BY <1>3, <1>7, <3>1 DEF OnOwn
    <2>3. Awake(v)
      BY <1>3, <1>7 DEF Awake
    <2>4. Placed(v)
      BY <1>3, <1>7 DEF Placed
    <2> QED BY <2>1, <2>2, <2>3, <2>4 DEF Sound
  <1>9. F \cup {c} = Free(ctx) \cup {c}
    OBVIOUS
  <1> HIDE DEF F
  <1>10. Went(v, F, c)
    BY <1>2, <1>8, SameFrame, ScheduleFromWent
  <1>11. \A y \in Contexts : y.at # "wake" => WakeOk(v.st, v.wakeList, [ctx EXCEPT ![c] = y])
    <2> SUFFICES ASSUME NEW y \in Contexts, y.at # "wake"
                 PROVE  WakeOk(v.st, v.wakeList, [ctx EXCEPT ![c] = y])
      OBVIOUS
    <2>1. WakeOk(k.st, k.wakeList, [ctx EXCEPT ![c] = y])
      BY WakeLeft DEF SmpInv, CtxInv
    <2>2. \A t : k.st[t] = "waking" => v.st[t] = "waking"
      <3>1. v.st = [k.st EXCEPT ![prev] = "sleep"]
        BY <1>5, <1>6 DEF Moved, SameRest
      <3> SUFFICES ASSUME NEW t, k.st[t] = "waking" PROVE v.st[t] = "waking"
        OBVIOUS
      <3> QED BY <1>3, <1>4, <3>1
    <2> QED BY <1>7, <2>1, <2>2, WakeOther
  <1> QED BY <1>1, <1>7, <1>9, <1>10, <1>11, WentInv

LEMMA StopperSleepsInv ==
    ASSUME SmpInv, NEW c \in Cpus, StopperSleeps(c)
    PROVE  SmpInv'
  <1>1. /\ hot.phase # "dying" /\ Sound(k, Free(ctx)) /\ c \notin Free(ctx)
        /\ hot' = hot /\ ctx' = ctx /\ k' \in Pick(k, c)
    BY InvParts, ReadyIs DEF StopperSleeps, Stays
  <1>2. Sound(k', Free(ctx) \ {c}) /\ Frame(k, k')
    BY <1>1, PickSound
  <1>3. Free(ctx) \ {c} = Free(ctx)
    BY <1>1
  <1> QED BY <1>1, <1>2, <1>3, StayedInv

-----------------------------------------------------------------------------
(* Affinity *)

Masked(s, t, m) == [s EXCEPT !.mask[t] = m]

LEMMA MaskedFields ==
    ASSUME NEW s \in States, NEW t \in Threads, NEW m, m \subseteq Cpus, NEW r, r = Masked(s, t, m)
    PROVE  /\ r \in States /\ r.mask = [s.mask EXCEPT ![t] = m]
           /\ r.home = s.home /\ r.onRq = s.onRq /\ r.prio = s.prio /\ r.curr = s.curr
           /\ SamePush(s, r) /\ SameLoad(s, r) /\ SameRest(s, r) /\ SameFlags(s, r)
  <1> DEFINE u == [s.mask EXCEPT ![t] = m]
  <1>1. u \in [Threads -> SUBSET Cpus]
    BY DEF States
  <1>2. r = [s EXCEPT !.mask = u]
    BY DEF Masked
  <1> HIDE DEF u
  <1>3. r \in States
    BY <1>1, <1>2, ZenonT(30) DEF States
  <1>4. SamePush(s, r) /\ SameLoad(s, r) /\ SameRest(s, r) /\ SameFlags(s, r)
    BY <1>2 DEF States, SamePush, SameLoad, SameRest, SameFlags
  <1>5. /\ r.mask = u
        /\ r.home = s.home /\ r.onRq = s.onRq /\ r.prio = s.prio /\ r.curr = s.curr
    BY <1>2 DEF States
  <1> QED BY <1>3, <1>4, <1>5 DEF u

Recounted(s, c, n) == [s EXCEPT !.mig[c] = @ + n]

LEMMA RecountedFields ==
    ASSUME NEW s \in States, NEW c \in Cpus, NEW n \in Int, NEW r, r = Recounted(s, c, n)
    PROVE  /\ r \in States /\ r.mig = [s.mig EXCEPT ![c] = s.mig[c] + n]
           /\ SameTasks(s, r) /\ SamePush(s, r) /\ SameRest(s, r) /\ SameFlags(s, r)
           /\ r.over = s.over /\ r.online = s.online /\ r.pri = s.pri
           /\ r.rto = s.rto /\ r.rtoCount = s.rtoCount
  <1> DEFINE u == [s.mig EXCEPT ![c] = s.mig[c] + n]
  <1>1. u \in [Cpus -> Int]
    BY DEF States
  <1>2. r = [s EXCEPT !.mig = u]
    BY DEF Recounted
  <1> HIDE DEF u
  <1>3. r \in States
    BY <1>1, <1>2, ZenonT(30) DEF States
  <1>4. SameTasks(s, r) /\ SamePush(s, r) /\ SameRest(s, r) /\ SameFlags(s, r)
    BY <1>2 DEF States, SameTasks, SamePush, SameRest, SameFlags
  <1>5. /\ r.mig = u /\ r.over = s.over /\ r.online = s.online /\ r.pri = s.pri
        /\ r.rto = s.rto /\ r.rtoCount = s.rtoCount
    BY <1>2 DEF States
  <1> QED BY <1>3, <1>4, <1>5 DEF u

\* set_cpus_allowed_rt: the list and the count follow whether the task can move.
LEMMA SetMaskExact ==
    ASSUME NEW s, Exact(s), NEW t \in Threads, NEW m, m \subseteq Cpus, NEW r, r = SetMask(s, t, m)
    PROVE  /\ Exact(r) /\ r.mask = [s.mask EXCEPT ![t] = m]
           /\ r.home = s.home /\ r.onRq = s.onRq /\ r.prio = s.prio /\ r.curr = s.curr
           /\ SameRest(s, r) /\ SameFlags(s, r) /\ r.online = s.online
  <1> DEFINE c == s.home[t]
             was == Movable(s, t)
             will == Cardinality(m) > 1
             off == IF s.curr[c] # t /\ was THEN PushOff(s, c, t) ELSE s
             on == IF s.curr[c] # t /\ will THEN PushOn(off, c, t) ELSE off
             n == IF was THEN IF will THEN 0 ELSE -1 ELSE IF will THEN 1 ELSE 0
             x == Recounted(on, c, n)
             y == Migration(x, c)
             rt == /\ s.prio[t] < FairPrio /\ s.onRq[t]
                   /\ Cardinality(m) # Cardinality(s.mask[t])
  <1>1. /\ s \in States /\ Domain(s) /\ c \in Cpus /\ s.mask \in [Threads -> SUBSET Cpus]
        /\ s.mig \in [Cpus -> Int] /\ s.over \in [Cpus -> BOOLEAN]
        /\ \A d \in Cpus : PushList(s, d, Pushable(s, d)) /\ Load(s, d)
    BY DEF Exact, States
  <1>2. r = IF rt THEN Masked(y, t, m) ELSE Masked(s, t, m)
    BY DEF SetMask, Masked, Recounted
  <1>3. CASE ~rt
    <2>1. r = Masked(s, t, m)
      BY <1>2, <1>3
    <2>2. /\ r \in States /\ r.mask = [s.mask EXCEPT ![t] = m]
          /\ r.home = s.home /\ r.onRq = s.onRq /\ r.prio = s.prio /\ r.curr = s.curr
          /\ SamePush(s, r) /\ SameLoad(s, r) /\ SameRest(s, r) /\ SameFlags(s, r)
      BY <1>1, <2>1, MaskedFields
    <2>3. r.mask[t] = m /\ \A u \in Threads \ {t} : r.mask[u] = s.mask[u]
      BY <1>1, <2>2
    <2>4. \A d \in Cpus : RtQueued(r, d) = RtQueued(s, d)
      BY <2>2 DEF RtQueued, Queued
    <2>5. \A d \in Cpus : \A u \in RtQueued(s, d) : Movable(r, u) <=> Movable(s, u)
      BY <1>3, <2>3 DEF RtQueued, Queued, Movable
    <2>6. \A d \in Cpus : RtMovable(r, d) = RtMovable(s, d)
      BY <2>4, <2>5 DEF RtMovable
    <2>7. \A d \in Cpus : Pushable(r, d) = Pushable(s, d)
      BY <2>2, <2>6 DEF Pushable
    <2>8. Exact(r)
      BY <2>2, <2>4, <2>6, <2>7, QueuesKept
    <2> QED BY <2>2, <2>8 DEF SameLoad
  <1>4. CASE rt
    <2>1. r = Masked(y, t, m) /\ t \in RtQueued(s, c) /\ (was <=> t \in RtMovable(s, c))
      BY <1>2, <1>4 DEF RtQueued, Queued, RtMovable
    <2> DEFINE P == Pushable(s, c)
               off_ == IF s.curr[c] # t /\ was THEN P \ {t} ELSE P
               on_ == IF s.curr[c] # t /\ will THEN off_ \cup {t} ELSE off_
    <2>2. will \in BOOLEAN /\ n \in Int /\ PushList(s, c, P)
      BY <1>1
    <2>3. n = IF was THEN IF will THEN 0 ELSE -1 ELSE IF will THEN 1 ELSE 0
      OBVIOUS
    <2>4. was <=> Cardinality(s.mask[t]) > 1
      BY DEF Movable
    <2>5. will <=> Cardinality(m) > 1
      OBVIOUS
    <2> HIDE DEF c, was, will, n, P
    <2>6. /\ off \in States
          /\ SameTasks(s, off) /\ SameLoad(s, off) /\ SameRest(s, off) /\ SameFlags(s, off)
          /\ PushList(off, c, off_) /\ SameElsewhere(s, off, c)
      <3>1. CASE s.curr[c] # t /\ was
        BY <1>1, <2>2, <3>1, PushOffList
      <3>2. CASE ~(s.curr[c] # t /\ was)
        BY <1>1, <2>2, <3>2 DEF SameTasks, SameLoad, SameRest, SameFlags, SameElsewhere
      <3> QED BY <3>1, <3>2
    <2> HIDE DEF off, off_
    <2>7. /\ on \in States
          /\ SameTasks(off, on) /\ SameLoad(off, on) /\ SameRest(off, on) /\ SameFlags(off, on)
          /\ PushList(on, c, on_) /\ SameElsewhere(off, on, c)
      <3>1. CASE s.curr[c] # t /\ will
        BY <1>1, <2>6, <3>1, PushOnList
      <3>2. CASE ~(s.curr[c] # t /\ will)
        BY <2>6, <3>2 DEF SameTasks, SameLoad, SameRest, SameFlags, SameElsewhere
      <3> QED BY <3>1, <3>2
    <2> HIDE DEF on, on_
    <2>8. /\ SameTasks(s, on) /\ SameLoad(s, on) /\ SameRest(s, on) /\ SameFlags(s, on)
          /\ SameElsewhere(s, on, c)
      BY <2>6, <2>7 DEF SameTasks, SameLoad, SameRest, SameFlags, SameElsewhere
    <2>9. /\ x \in States /\ x.mig = [on.mig EXCEPT ![c] = on.mig[c] + n]
          /\ SameTasks(on, x) /\ SamePush(on, x) /\ SameRest(on, x) /\ SameFlags(on, x)
          /\ x.over = on.over /\ x.online = on.online /\ x.pri = on.pri
          /\ x.rto = on.rto /\ x.rtoCount = on.rtoCount
      BY <1>1, <2>2, <2>7, RecountedFields
    <2> HIDE DEF x
    <2>10. Domain(x)
      BY <1>1, <2>8, <2>9 DEF Domain, SameLoad
    <2>11. /\ y \in States /\ Domain(y)
           /\ SameTasks(x, y) /\ SamePush(x, y) /\ SameRest(x, y) /\ SameFlags(x, y)
           /\ y.mig = x.mig /\ y.online = x.online /\ y.pri = x.pri
           /\ y.over = [x.over EXCEPT ![c] = Loaded(x, c)]
      <3>1. x \in States /\ c \in Cpus /\ y = Migration(x, c)
        BY <1>1, <2>9
      <3> HIDE DEF y
      <3> QED BY <2>10, <3>1, MigrationFields
    <2> HIDE DEF y
    <2>12. /\ r \in States /\ r.mask = [y.mask EXCEPT ![t] = m]
           /\ r.home = y.home /\ r.onRq = y.onRq /\ r.prio = y.prio /\ r.curr = y.curr
           /\ SamePush(y, r) /\ SameLoad(y, r) /\ SameRest(y, r) /\ SameFlags(y, r)
      BY <2>1, <2>11, MaskedFields
    <2>13. /\ r.home = s.home /\ r.onRq = s.onRq /\ r.prio = s.prio /\ r.curr = s.curr
           /\ r.mask = [s.mask EXCEPT ![t] = m]
           /\ SameRest(s, r) /\ SameFlags(s, r) /\ r.online = s.online /\ r.pri = s.pri
           /\ r.mig = [s.mig EXCEPT ![c] = s.mig[c] + n]
           /\ r.over = [s.over EXCEPT ![c] = Loaded(x, c)]
           /\ r.push = on.push /\ r.next = on.next
      BY <2>8, <2>9, <2>11, <2>12 DEF SameTasks, SameLoad, SameRest, SameFlags, SamePush
    <2>14. /\ r.mask[t] = m /\ \A u \in Threads \ {t} : r.mask[u] = s.mask[u]
           /\ r.mig[c] = s.mig[c] + n /\ r.over[c] = Loaded(x, c)
           /\ \A d \in Cpus \ {c} : r.mig[d] = s.mig[d] /\ r.over[d] = s.over[d]
      BY <1>1, <2>13
    <2>15. \A d \in Cpus : /\ RtQueued(r, d) = RtQueued(s, d) /\ Highest(r, d) = Highest(s, d)
                           /\ RtQueued(x, d) = RtQueued(s, d)
      <3>1. \A d \in Cpus : RtQueued(r, d) = RtQueued(s, d) /\ Highest(r, d) = Highest(s, d)
        BY <2>13 DEF RtQueued, Queued, Highest
      <3>2. \A d \in Cpus : RtQueued(x, d) = RtQueued(s, d)
        BY <2>8, <2>9 DEF RtQueued, Queued, SameTasks
      <3> QED BY <3>1, <3>2
    <2>16. \A u \in Threads \ {t} : Movable(r, u) <=> Movable(s, u)
      BY <2>14 DEF Movable
    <2>17. Movable(r, t) <=> will
      BY <2>5, <2>14 DEF Movable
    <2>18. \A d \in Cpus \ {c} : RtMovable(r, d) = RtMovable(s, d) /\ Pushable(r, d) = Pushable(s, d)
      <3>1. \A d \in Cpus \ {c} : t \notin RtQueued(s, d) /\ RtQueued(s, d) \subseteq Threads
        BY DEF RtQueued, Queued, c
      <3>2. \A d \in Cpus \ {c} : RtMovable(r, d) = RtMovable(s, d)
        BY <2>15, <2>16, <3>1 DEF RtMovable
      <3> QED BY <2>13, <3>2 DEF Pushable
    <2>19. RtMovable(r, c) = IF will THEN RtMovable(s, c) \cup {t} ELSE RtMovable(s, c) \ {t}
      <3>1. RtQueued(s, c) \subseteq Threads /\ RtQueued(r, c) = RtQueued(s, c)
        BY <1>1, <2>15 DEF RtQueued, Queued
      <3> QED BY <2>1, <2>16, <2>17, <3>1 DEF RtMovable
    <2>20. Pushable(r, c) = on_
      BY <2>1, <2>13, <2>19 DEF Pushable, on_, off_, P
    <2>21. r.mig[c] = Cardinality(RtMovable(r, c))
      <3>1. s.mig[c] = Cardinality(RtMovable(s, c)) /\ IsFiniteSet(RtMovable(s, c))
            /\ Cardinality(RtMovable(s, c)) \in Nat
        BY <1>1, FiniteQueues DEF Load
      <3>2. CASE will /\ was
        <4>1. RtMovable(r, c) = RtMovable(s, c) /\ n = 0
          BY <2>1, <2>3, <2>19, <3>2
        <4> QED BY <2>14, <3>1, <4>1
      <3>3. CASE will /\ ~was
        <4>1. RtMovable(r, c) = RtMovable(s, c) \cup {t} /\ n = 1 /\ t \notin RtMovable(s, c)
          BY <2>1, <2>3, <2>19, <3>3
        <4>2. Cardinality(RtMovable(s, c) \cup {t}) = Cardinality(RtMovable(s, c)) + 1
          BY <3>1, <4>1, FS_AddElement
        <4> QED BY <2>14, <3>1, <4>1, <4>2
      <3>4. CASE ~will /\ was
        <4>1. RtMovable(r, c) = RtMovable(s, c) \ {t} /\ n = -1 /\ t \in RtMovable(s, c)
          BY <2>1, <2>3, <2>19, <3>4
        <4>2. Cardinality(RtMovable(s, c) \ {t}) = Cardinality(RtMovable(s, c)) - 1
          BY <3>1, <4>1, FS_RemoveElement
        <4> QED BY <2>14, <3>1, <4>1, <4>2
      <3>5. CASE ~will /\ ~was
        <4>1. RtMovable(r, c) = RtMovable(s, c) /\ n = 0
          BY <2>1, <2>3, <2>19, <3>5
        <4> QED BY <2>14, <3>1, <4>1
      <3> QED BY <3>2, <3>3, <3>4, <3>5
    <2>22. Load(r, c)
      <3>1. x.mig[c] = r.mig[c]
        BY <2>11, <2>12 DEF SameLoad
      <3>2. r.over[c] = (r.mig[c] > 0 /\ Cardinality(RtQueued(r, c)) > 1)
        BY <1>1, <2>14, <2>15, <3>1 DEF Loaded
      <3>3. (r.online[c] => r.pri[c] = Highest(r, c)) /\ (~r.online[c] => r.pri[c] = 0)
        BY <1>1, <2>13, <2>15 DEF Load
      <3> QED BY <2>21, <3>2, <3>3 DEF Load
    <2>23. \A d \in Cpus \ {c} : Load(r, d)
      BY <1>1, <2>13, <2>14, <2>15, <2>18 DEF Load
    <2>24. Domain(r)
      BY <2>11, <2>12 DEF Domain, SameLoad
    <2>25. PushList(r, c, Pushable(r, c))
      <3>1. r.prio = on.prio
        BY <2>8, <2>13 DEF SameTasks
      <3> QED BY <2>7, <2>13, <2>20, <3>1 DEF PushList
    <2>26. \A d \in Cpus \ {c} : PushList(r, d, Pushable(r, d))
      BY <1>1, <2>8, <2>13, <2>18 DEF PushList, SameElsewhere
    <2>27. Exact(r)
      BY <2>12, <2>22, <2>23, <2>24, <2>25, <2>26 DEF Exact
    <2> QED BY <2>13, <2>27
  <1> QED BY <1>3, <1>4

\* All that the invariant says of the queues is in these fields.
LEMMA SoundSame ==
    ASSUME NEW s, NEW F, Sound(s, F), NEW r \in States,
           SameTasks(s, r), SamePush(s, r), SameLoad(s, r),
           r.st = s.st, r.stops = s.stops, r.active = s.active, r.stray = s.stray
    PROVE  Sound(r, F)
  <1>1. Exact(s) /\ OnOwn(s, F) /\ Awake(s) /\ Placed(s)
    BY DEF Sound
  <1>2. Exact(r)
    BY <1>1, SameTasksExact
  <1>3. OnOwn(r, F)
    BY <1>1 DEF OnOwn, SameTasks
  <1>4. Awake(r)
    BY <1>1 DEF Awake, SameTasks
  <1>5. Placed(r)
    BY <1>1 DEF Placed, SameTasks
  <1> QED BY <1>2, <1>3, <1>4, <1>5 DEF Sound

SameButMask(s, r) ==
    /\ r.home = s.home /\ r.onRq = s.onRq /\ r.prio = s.prio /\ r.curr = s.curr
    /\ r.stray = s.stray

LEMMA SetMaskSound ==
    ASSUME NEW s, NEW F, Sound(s, F), NEW t \in Threads, NEW m, m \subseteq Cpus,
           s.home[t] \in m, NEW r, r = SetMask(s, t, m)
    PROVE  /\ Sound(r, F) /\ Frame(s, r) /\ SameButMask(s, r)
           /\ r.mask = [s.mask EXCEPT ![t] = m]
  <1>1. Exact(s) /\ OnOwn(s, F) /\ Awake(s) /\ Placed(s)
    BY DEF Sound
  <1>2. /\ Exact(r) /\ r.mask = [s.mask EXCEPT ![t] = m]
        /\ r.home = s.home /\ r.onRq = s.onRq /\ r.prio = s.prio /\ r.curr = s.curr
        /\ SameRest(s, r) /\ SameFlags(s, r) /\ r.online = s.online
    BY <1>1, SetMaskExact
  <1>3. r.mask[t] = m /\ \A u \in Threads \ {t} : r.mask[u] = s.mask[u]
    BY <1>1, <1>2 DEF Exact, States
  <1>4. OnOwn(r, F)
    BY <1>1, <1>2 DEF OnOwn
  <1>5. Awake(r)
    BY <1>1, <1>2 DEF Awake, SameRest
  <1>6. Placed(r)
    <2>1. /\ r.stops = s.stops /\ r.active = s.active /\ r.st = s.st /\ r.stray = s.stray
          /\ r.home = s.home /\ r.onRq = s.onRq
      BY <1>2 DEF SameRest, SameFlags
    <2>2. r.home[t] \in r.mask[t]
      BY <1>2, <1>3
    <2>3. ASSUME NEW u \in Threads \ r.stray, u # t
          PROVE  /\ r.onRq[u] /\ r.home[u] \notin r.mask[u] =>
                    \E x \in r.stops : x[1] = u /\ x[2] = r.home[u] /\ x[3] \in r.mask[u]
                 /\ r.st[u] = "waking" => r.home[u] \in r.mask[u]
      <3>1. r.mask[u] = s.mask[u]
        BY <1>3, <2>3
      <3> QED BY <1>1, <2>1, <2>3, <3>1 DEF Placed
    <2> QED BY <1>1, <2>1, <2>2, <2>3 DEF Placed
  <1> QED BY <1>2, <1>4, <1>5, <1>6 DEF Sound, Frame, SameButMask, SameFlags

\* select_fallback_rq: the task may run on the processor it is given.
LEMMA FallbackSound ==
    ASSUME NEW s, NEW F, Sound(s, F), NEW t \in Threads, NEW f \in Fallback(s, t)
    PROVE  /\ Sound(f.s, F) /\ Frame(s, f.s) /\ SameButMask(s, f.s)
           /\ f.cpu \in f.s.mask[t]
  <1> DEFINE there == s.up \cap s.active
             free == SetMask(s, t, Cpus)
  <1>1. s \in States /\ there \subseteq Cpus /\ s.home[t] \in Cpus
    BY DEF Sound, Exact, States
  <1>2. \/ \E d \in s.mask[t] : f = [s |-> s, cpu |-> d]
        \/ \E d \in there : f = [s |-> free, cpu |-> d]
    BY DEF Fallback
  <1>3. CASE \E d \in s.mask[t] : f = [s |-> s, cpu |-> d]
    BY <1>3, SameFrame DEF SameButMask
  <1>4. CASE \E d \in there : f = [s |-> free, cpu |-> d]
    <2>1. PICK d \in there : f = [s |-> free, cpu |-> d]
      BY <1>4
    <2>2. /\ Sound(free, F) /\ Frame(s, free) /\ SameButMask(s, free)
          /\ free.mask = [s.mask EXCEPT ![t] = Cpus]
      <3>1. Cpus \subseteq Cpus
        OBVIOUS
      <3>2. free = SetMask(s, t, Cpus)
        OBVIOUS
      <3> HIDE DEF free
      <3> QED BY <1>1, <3>1, <3>2, SetMaskSound
    <2> HIDE DEF free
    <2>3. free.mask[t] = Cpus
      BY <1>1, <2>2 DEF States
    <2>4. f.s = free /\ f.cpu \in Cpus
      BY <1>1, <2>1
    <2> QED BY <2>2, <2>3, <2>4
  <1> QED BY <1>2, <1>3, <1>4

LEMMA SelectRqSound ==
    ASSUME NEW s, NEW F, Sound(s, F), NEW t \in Threads, NEW f \in SelectRq(s, t)
    PROVE  /\ Sound(f.s, F) /\ Frame(s, f.s) /\ SameButMask(s, f.s)
           /\ f.cpu \in f.s.mask[t]
  <1>1. \/ \E d \in s.mask[t] : f = [s |-> s, cpu |-> d]
        \/ f \in Fallback(s, t)
    BY DEF SelectRq
  <1>2. CASE \E d \in s.mask[t] : f = [s |-> s, cpu |-> d]
    BY <1>2, SameFrame DEF SameButMask
  <1> QED BY <1>1, <1>2, FallbackSound

\* A sleeping task that is given a processor.
Woken(s, t, d) == [s EXCEPT !.home[t] = d, !.st[t] = "waking", !.stray = @ \ {t}]

LEMMA WokenSound ==
    ASSUME NEW s, NEW F, Sound(s, F), NEW t \in Threads, s.st[t] = "sleep", ~OnCpu(s, t),
           NEW d, d \in s.mask[t], NEW r, r = Woken(s, t, d)
    PROVE  /\ Sound(r, F) /\ r.st = [s.st EXCEPT ![t] = "waking"]
           /\ r.wakeList = s.wakeList /\ r.up = s.up /\ r.stops = s.stops /\ r.online = s.online
           /\ r.home[t] = d
  <1> DEFINE h == [s.home EXCEPT ![t] = d]
             u == [s.st EXCEPT ![t] = "waking"]
             y == s.stray \ {t}
  <1>1. /\ Exact(s) /\ OnOwn(s, F) /\ Awake(s) /\ Placed(s)
        /\ s \in States /\ d \in Cpus /\ ~s.onRq[t]
    BY DEF Sound, Exact, States, Awake
  <1>2. h \in [Threads -> Cpus] /\ u \in [Threads -> {"sleep", "waking", "run"}]
        /\ y \in SUBSET Threads
    BY <1>1 DEF States
  <1>3. /\ h[t] = d /\ u[t] = "waking"
        /\ \A v \in Threads \ {t} : h[v] = s.home[v] /\ u[v] = s.st[v]
    BY <1>1 DEF States
  <1>4. r = [s EXCEPT !.home = h, !.st = u, !.stray = y]
    BY DEF Woken
  <1> HIDE DEF h, u
  <1>5. r \in States
    BY <1>1, <1>2, <1>4, ZenonT(30) DEF States
  <1>6. /\ r.home = h /\ r.st = u /\ r.stray = y
        /\ r.onRq = s.onRq /\ r.prio = s.prio /\ r.mask = s.mask /\ r.curr = s.curr
        /\ r.wakeList = s.wakeList /\ r.up = s.up /\ r.stops = s.stops /\ r.active = s.active
    BY <1>1, <1>4 DEF States
  <1>7. SamePush(s, r) /\ SameLoad(s, r)
    BY <1>1, <1>4 DEF States, SamePush, SameLoad
  <1>8. Exact(r)
    BY <1>1, <1>3, <1>5, <1>6, <1>7, Unqueued
  <1>9. OnOwn(r, F)
    <2>1. \A c \in Cpus : s.curr[c] # t
      BY DEF OnCpu
    <2> QED BY <1>1, <1>3, <1>6, <2>1 DEF OnOwn
  <1>10. Awake(r)
    BY <1>1, <1>3, <1>6 DEF Awake
  <1>11. Placed(r)
    <2>1. r.home[t] \in r.mask[t]
      BY <1>3, <1>6
    <2>2. ASSUME NEW v \in Threads \ r.stray, v # t
          PROVE  /\ r.onRq[v] /\ r.home[v] \notin r.mask[v] =>
                    \E x \in r.stops : x[1] = v /\ x[2] = r.home[v] /\ x[3] \in r.mask[v]
                 /\ r.st[v] = "waking" => r.home[v] \in r.mask[v]
      <3>1. v \in Threads \ s.stray /\ r.home[v] = s.home[v] /\ r.st[v] = s.st[v]
        BY <1>3, <1>6, <2>2
      <3> QED BY <1>1, <1>6, <3>1 DEF Placed
    <2> QED BY <1>1, <1>6, <2>1, <2>2 DEF Placed
  <1> QED BY <1>3, <1>6, <1>7, <1>8, <1>9, <1>10, <1>11 DEF Sound, SameLoad, u

OnList(s, l) == [s EXCEPT !.wakeList = l]

LEMMA OnListFields ==
    ASSUME NEW s \in States, NEW l \in [Cpus -> Seq(Threads)], NEW r, r = OnList(s, l)
    PROVE  /\ r \in States /\ r.wakeList = l
           /\ SameTasks(s, r) /\ SamePush(s, r) /\ SameLoad(s, r) /\ SameFlags(s, r)
           /\ r.st = s.st /\ r.up = s.up /\ r.active = s.active /\ r.stops = s.stops
  <1>1. r = [s EXCEPT !.wakeList = l]
    BY DEF OnList
  <1>2. r \in States
    BY <1>1, ZenonT(30) DEF States
  <1>3. SameTasks(s, r) /\ SamePush(s, r) /\ SameLoad(s, r) /\ SameFlags(s, r)
    BY <1>1 DEF States, SameTasks, SamePush, SameLoad, SameFlags
  <1>4. r.wakeList = l /\ r.st = s.st /\ r.up = s.up /\ r.active = s.active /\ r.stops = s.stops
    BY <1>1 DEF States
  <1> QED BY <1>2, <1>3, <1>4

\* try_to_wake_up: the task is in the hands of this processor, or on the list of
\* the one it was given, and was on no list before.
LEMMA WakeUpInv ==
    ASSUME SmpInv, NEW c \in Cpus, NEW t \in Threads, WakeUp(c, t)
    PROVE  SmpInv'
  <1> DEFINE F == Free(ctx)
             s(r) == [r.s EXCEPT !.home[t] = r.cpu, !.st[t] = "waking", !.stray = @ \ {t}]
  <1>1. /\ c \in k.up /\ hot.phase # "dying" /\ Sound(k, F) /\ c \notin F /\ k \in States
        /\ hot' = hot /\ ctx[c].at = "none"
        /\ k.st[t] = "sleep" /\ ~OnCpu(k, t)
    BY InvParts, ReadyIs DEF WakeUp, Stays
  <1>2. PICK r \in SelectRq(k, t) :
           \/ /\ k' = Woken(r.s, t, r.cpu)
              /\ Leave(c, [Loop(r.cpu, "woken", t) EXCEPT !.at = "wake"])
           \/ /\ r.cpu # c
              /\ k' = [Woken(r.s, t, r.cpu) EXCEPT !.wakeList[r.cpu] = Append(@, t)]
              /\ ctx' = ctx
    BY DEF WakeUp, Woken
  <1> DEFINE w == Woken(r.s, t, r.cpu)
             d == r.cpu
  <1> HIDE DEF F
  <1>3. /\ Sound(r.s, F) /\ Frame(k, r.s) /\ SameButMask(k, r.s) /\ d \in r.s.mask[t]
    BY <1>1, SelectRqSound
  <1>4. r.s.st[t] = "sleep" /\ ~OnCpu(r.s, t)
    BY <1>1, <1>3 DEF Frame, SameRest, SameButMask, OnCpu
  <1>5. /\ Sound(w, F) /\ w.st = [r.s.st EXCEPT ![t] = "waking"]
        /\ w.wakeList = r.s.wakeList /\ w.up = r.s.up /\ w.stops = r.s.stops
        /\ w.online = r.s.online
    BY <1>3, <1>4, WokenSound
  <1>6. d \in Cpus
    BY <1>3 DEF Sound, Exact, States
  <1>7. w \in States
    BY <1>5 DEF Sound, Exact
  <1>8. /\ k' = w /\ Leave(c, [Loop(d, "woken", t) EXCEPT !.at = "wake"])
        \/ /\ d # c /\ k' = [w EXCEPT !.wakeList[d] = Append(@, t)] /\ ctx' = ctx
    BY <1>2
  <1> HIDE DEF w, d
  <1>9. /\ w.st = [k.st EXCEPT ![t] = "waking"] /\ k.st \in [Threads -> {"sleep", "waking", "run"}]
        /\ w.wakeList = k.wakeList /\ w.up = k.up /\ w.stops = k.stops /\ w.online = k.online
    BY <1>1, <1>3, <1>5 DEF Frame, SameRest, States
  <1>10. /\ w.st[t] = "waking" /\ \A u : k.st[u] = "waking" => u # t /\ w.st[u] = "waking"
    BY <1>1, <1>9
  <1>11. /\ ctx \in [Cpus -> Contexts] /\ WakeOk(k.st, k.wakeList, ctx) /\ HotInv
         /\ \A e \in Cpus : InLoop(ctx[e]) /\ (e \notin k.up => ctx[e].at = "none")
    BY DEF SmpInv, CtxInv
  <1>12. /\ \A e \in Cpus : ctx[e].at = "wake" => ctx[e].who # t
         /\ \A e \in Cpus : t \notin Range(k.wakeList[e])
    BY <1>10, <1>11 DEF WakeOk
  <1>13. CASE k' = w /\ Leave(c, [Loop(d, "woken", t) EXCEPT !.at = "wake"])
    <2> DEFINE l == Loop(d, "woken", t)
               y == [l EXCEPT !.at = "wake"]
    <2>1. l \in Contexts /\ l.q = d /\ l.then = "woken" /\ l.who = t
      <3>1. "woken" \in PushEnds \cup PullEnds /\ t \in Threads \cup {NoOne}
        BY DEF PushEnds
      <3> QED BY <1>6, <3>1, LoopIs
    <2>2. ctx' = [ctx EXCEPT ![c] = y]
      BY <1>13 DEF Leave
    <2> HIDE DEF l
    <2>3. y \in Contexts /\ y.at = "wake" /\ y.who = t
      BY <2>1 DEF Contexts
    <2> HIDE DEF y
    <2>4. /\ ctx' \in [Cpus -> Contexts] /\ ctx'[c] = y
          /\ \A e \in Cpus \ {c} : ctx'[e] = ctx[e]
      BY <1>11, <2>2, <2>3
    <2>5. InLoop(y) /\ ~Choosing(y)
      BY <2>3 DEF InLoop, Choosing
    <2>6. Free(ctx') = F
      BY <1>1, <2>4, <2>5 DEF Free, F
    <2>7. CtxInv'
      <3>1. \A e \in Cpus : InLoop(ctx'[e]) /\ (e \notin k'.up => ctx'[e].at = "none")
        BY <1>1, <1>9, <1>11, <1>13, <2>4, <2>5
      <3> QED BY <2>4, <3>1 DEF CtxInv
    <2>8. HotInv'
      BY <1>1, <1>9, <1>11, <1>13 DEF HotInv
    <2>9. WakeOk(k'.st, k'.wakeList, ctx')
      <3>1. k'.st = w.st /\ k'.wakeList = k.wakeList
        BY <1>9, <1>13
      <3>2. \A e \in Cpus : ctx'[e].at = "wake" =>
              /\ w.st[ctx'[e].who] = "waking"
              /\ \A f \in Cpus : /\ f # e /\ ctx'[f].at = "wake" => ctx'[f].who # ctx'[e].who
                                 /\ ctx'[e].who \notin Range(k.wakeList[f])
        BY <1>10, <1>11, <1>12, <2>3, <2>4 DEF WakeOk
      <3>3. \A e \in Cpus :
              /\ IsInjective(k.wakeList[e]) /\ \A u \in Range(k.wakeList[e]) : w.st[u] = "waking"
              /\ \A f \in Cpus \ {e} : Range(k.wakeList[e]) \cap Range(k.wakeList[f]) = {}
        BY <1>10, <1>11 DEF WakeOk
      <3> QED BY <3>1, <3>2, <3>3 DEF WakeOk
    <2>10. Sound(k', Free(ctx'))
      BY <1>5, <1>13, <2>6
    <2> QED BY <2>7, <2>8, <2>9, <2>10 DEF SmpInv
  <1>14. CASE d # c /\ k' = [w EXCEPT !.wakeList[d] = Append(@, t)] /\ ctx' = ctx
    <2> DEFINE a == Append(k.wakeList[d], t)
               l == [k.wakeList EXCEPT ![d] = a]
    <2>1. k.wakeList \in [Cpus -> Seq(Threads)]
      BY <1>1 DEF States
    <2>2. a \in Seq(Threads) /\ Range(a) = Range(k.wakeList[d]) \cup {t} /\ IsInjective(a)
      <3>1. k.wakeList[d] \in Seq(Threads) /\ IsInjective(k.wakeList[d]) /\ t \notin Range(k.wakeList[d])
        BY <1>6, <1>11, <1>12, <2>1 DEF WakeOk
      <3> QED BY <3>1, AddTail
    <2>3. k' = OnList(w, l)
      BY <1>9, <1>14 DEF OnList
    <2> HIDE DEF a
    <2>4. l \in [Cpus -> Seq(Threads)] /\ l[d] = a /\ \A e \in Cpus \ {d} : l[e] = k.wakeList[e]
      BY <1>6, <2>1, <2>2
    <2> HIDE DEF l
    <2>5. /\ k' \in States /\ k'.wakeList = l
          /\ SameTasks(w, k') /\ SamePush(w, k') /\ SameLoad(w, k') /\ SameFlags(w, k')
          /\ k'.st = w.st /\ k'.up = w.up /\ k'.active = w.active /\ k'.stops = w.stops
      BY <1>7, <2>3, <2>4, OnListFields
    <2>6. Sound(k', F)
      BY <1>5, <2>5, SoundSame DEF SameFlags
    <2>7. WakeOk(k'.st, k'.wakeList, ctx')
      <3>1. k'.st = w.st /\ k'.wakeList = l /\ ctx' = ctx
        BY <1>14, <2>5
      <3>2. \A e \in Cpus : Range(l[e]) = IF e = d THEN Range(k.wakeList[e]) \cup {t} ELSE Range(k.wakeList[e])
        BY <2>2, <2>4
      <3>3. \A e \in Cpus : ctx[e].at = "wake" =>
              /\ w.st[ctx[e].who] = "waking"
              /\ \A f \in Cpus : /\ f # e /\ ctx[f].at = "wake" => ctx[f].who # ctx[e].who
                                 /\ ctx[e].who \notin Range(l[f])
        <4>1. \A e \in Cpus : ctx[e].at = "wake" =>
              /\ k.st[ctx[e].who] = "waking"
              /\ \A f \in Cpus : /\ f # e /\ ctx[f].at = "wake" => ctx[f].who # ctx[e].who
                                 /\ ctx[e].who \notin Range(k.wakeList[f])
          BY <1>11 DEF WakeOk
        <4>2. \A e \in Cpus : ctx[e].at = "wake" =>
                ctx[e].who # t /\ w.st[ctx[e].who] = "waking"
          BY <1>10, <1>12, <4>1
        <4>3. \A e, f \in Cpus : ctx[e].at = "wake" => ctx[e].who \notin Range(l[f])
          BY <3>2, <4>1, <4>2
        <4> QED BY <4>1, <4>2, <4>3
      <3>4. \A e \in Cpus :
              /\ IsInjective(l[e]) /\ \A u \in Range(l[e]) : w.st[u] = "waking"
        <4>1. \A e \in Cpus : /\ IsInjective(k.wakeList[e])
                             /\ \A u \in Range(k.wakeList[e]) : k.st[u] = "waking"
          BY <1>11 DEF WakeOk
        <4>2. \A e \in Cpus : IsInjective(l[e])
          BY <2>2, <2>4, <4>1
        <4>3. \A e \in Cpus : \A u \in Range(l[e]) : w.st[u] = "waking"
          BY <1>10, <3>2, <4>1
        <4> QED BY <4>2, <4>3
      <3>5. \A e \in Cpus : \A f \in Cpus \ {e} : Range(l[e]) \cap Range(l[f]) = {}
        <4>1. \A e \in Cpus : \A f \in Cpus \ {e} :
                Range(k.wakeList[e]) \cap Range(k.wakeList[f]) = {}
          BY <1>11 DEF WakeOk
        <4> QED BY <1>12, <3>2, <4>1
      <3> QED BY <3>1, <3>3, <3>4, <3>5 DEF WakeOk
    <2>8. HotInv'
      <3>1. k'.stops = k.stops /\ k'.up = k.up /\ k'.online = k.online
        BY <1>9, <2>5 DEF SameLoad
      <3> QED BY <1>1, <1>11, <3>1 DEF HotInv
    <2>9. CtxInv'
      BY <1>9, <1>11, <1>14, <2>5 DEF CtxInv
    <2> QED BY <1>14, <2>6, <2>7, <2>8, <2>9 DEF SmpInv, F
  <1> QED BY <1>8, <1>13, <1>14

-----------------------------------------------------------------------------
(* Wake-up, once the lock of the queue is held *)

\* A task that was woken joins its queue.
LEMMA ActivatedSound ==
    ASSUME NEW s, NEW F, Sound(s, F), NEW t \in Threads, s.st[t] = "waking",
           NEW a, a = InState(s, t, "run"), NEW b, b = Enqueue(a, t)
    PROVE  /\ Sound(b, F) /\ Frame(a, b)
           /\ a.st = [s.st EXCEPT ![t] = "run"] /\ a.wakeList = s.wakeList /\ a.up = s.up
           /\ a.online = s.online /\ a.stops = s.stops /\ b.home = s.home
  <1>1. /\ Exact(s) /\ OnOwn(s, F) /\ Awake(s) /\ Placed(s)
        /\ s \in States /\ ~s.onRq[t] /\ s.st \in [Threads -> {"sleep", "waking", "run"}]
    BY DEF Sound, Exact, States, Awake
  <1>2. /\ a \in States /\ a.st = [s.st EXCEPT ![t] = "run"]
        /\ SameTasks(s, a) /\ SamePush(s, a) /\ SameLoad(s, a) /\ SameFlags(s, a)
        /\ a.wakeList = s.wakeList /\ a.up = s.up /\ a.active = s.active /\ a.stops = s.stops
    <2>1. "run" \in {"sleep", "waking", "run"}
      OBVIOUS
    <2> QED BY <1>1, <2>1, InStateFields
  <1>3. Exact(a) /\ ~a.onRq[t]
    <2>1. ~a.onRq[t]
      BY <1>1, <1>2 DEF SameTasks
    <2> QED BY <1>1, <1>2, <2>1, SameTasksExact
  <1>4. Exact(b) /\ Moved(a, b, t) /\ b.onRq[t]
    BY <1>3, EnqueueExact
  <1>5. /\ b.home = s.home /\ b.mask = s.mask /\ b.curr = s.curr /\ b.stray = s.stray
        /\ b.stops = s.stops /\ b.active = s.active
        /\ \A u \in Threads \ {t} : b.onRq[u] = s.onRq[u]
    BY <1>2, <1>4 DEF Moved, OtherFlag, SameTasks, SameRest, SameFlags
  <1>6. b.st[t] = "run" /\ \A u \in Threads \ {t} : b.st[u] = s.st[u]
    BY <1>1, <1>2, <1>4 DEF Moved, SameRest
  <1>7. OnOwn(b, F)
    BY <1>1, <1>4, <1>5 DEF OnOwn
  <1>8. Awake(b)
    BY <1>1, <1>5, <1>6 DEF Awake
  <1>9. Placed(b)
    <2>1. ASSUME NEW u \in Threads \ b.stray
          PROVE  /\ b.onRq[u] /\ b.home[u] \notin b.mask[u] =>
                    \E x \in b.stops : x[1] = u /\ x[2] = b.home[u] /\ x[3] \in b.mask[u]
                 /\ b.st[u] = "waking" => b.home[u] \in b.mask[u]
      <3>1. CASE u = t
        <4>1. s.home[t] \in s.mask[t]
          BY <1>1, <1>5, <2>1, <3>1 DEF Placed
        <4> QED BY <1>5, <3>1, <4>1
      <3>2. CASE u # t
        BY <1>1, <1>5, <1>6, <2>1, <3>2 DEF Placed
      <3> QED BY <3>1, <3>2
    <2> QED BY <1>1, <1>5, <2>1 DEF Placed
  <1>10. Frame(a, b)
    BY <1>4 DEF Moved, Frame
  <1> QED BY <1>2, <1>4, <1>5, <1>7, <1>8, <1>9, <1>10 DEF Sound, SameLoad

LEMMA ActivateWent ==
    ASSUME NEW s, NEW F, Sound(s, F), NEW c \in Cpus, c \notin F, NEW t \in Threads,
           s.st[t] = "waking", NEW who \in Threads \cup {NoOne}, Activate(c, s, t, who),
           NEW a, a = InState(s, t, "run")
    PROVE  Went(a, F, c)
  <1> DEFINE q == s.home[t]
             b == Enqueue(a, t)
  <1>1. PICK w \in CheckPreempt(b, q, t) :
            \/ \E r \in PushStart(w, q) : PushRuns(c, Loop(q, "woken", who), r)
            \/ k' = w /\ Leave(c, NoCtx)
    BY DEF Activate, InState
  <1>2. q \in Cpus
    BY DEF Sound, Exact, States
  <1>3. Sound(b, F) /\ Frame(a, b)
    BY ActivatedSound
  <1> HIDE DEF b, q
  <1>4. Sound(w, F) /\ Frame(a, w)
    <2>1. Sound(w, F) /\ Frame(b, w)
      BY <1>2, <1>3, CheckPreemptSound
    <2> QED BY <1>3, <2>1 DEF Frame, SameRest
  <1>5. CASE \E r \in PushStart(w, q) : PushRuns(c, Loop(q, "woken", who), r)
    <2>1. PICK r \in PushStart(w, q) : PushRuns(c, Loop(q, "woken", who), r)
      BY <1>5
    <2> DEFINE x == Loop(q, "woken", who)
    <2>2. "woken" \in PushEnds \cup PullEnds /\ "woken" \in PushEnds
      BY DEF PushEnds
    <2>3. x \in Contexts /\ x.q = q /\ x.then = "woken"
      BY <1>2, <2>2, LoopIs
    <2>4. PushRuns(c, x, r)
      BY <2>1
    <2> HIDE DEF x
    <2>5. Reached(a, F, r)
      BY <1>2, <1>4, <2>1, PushStartReached
    <2> QED BY <1>2, <2>2, <2>3, <2>4, <2>5, PushRunsWent
  <1>6. CASE k' = w /\ Leave(c, NoCtx)
    <2>1. F \ {c} = F
      OBVIOUS
    <2> QED BY <1>4, <1>6, <2>1, StaysWent
  <1> QED BY <1>1, <1>5, <1>6

LEMMA WakeLockedInv ==
    ASSUME SmpInv, NEW c \in Cpus, WakeLocked(c)
    PROVE  SmpInv'
  <1> DEFINE t == ctx[c].who
             a == InState(k, t, "run")
             F == Free(ctx)
  <1>1. /\ ctx[c].at = "wake" /\ hot' = hot /\ Activate(c, k, t, t)
    BY DEF WakeLocked, Stays
  <1>2. /\ c \in k.up /\ hot.phase # "dying" /\ Sound(k, F) /\ c \notin F
        /\ ctx \in [Cpus -> Contexts] /\ InLoop(ctx[c])
        /\ k.st \in [Threads -> {"sleep", "waking", "run"}]
    BY <1>1, InvParts DEF States
  <1>3. t \in Threads
    BY <1>1, <1>2 DEF InLoop
  <1>4. WakeOk(k.st, k.wakeList, ctx) /\ k.st[t] = "waking"
    BY <1>1 DEF SmpInv, WakeOk
  <1>5. /\ \A e \in Cpus \ {c} : ctx[e].at = "wake" => ctx[e].who # t
        /\ \A e \in Cpus : t \notin Range(k.wakeList[e])
    BY <1>1, <1>4 DEF WakeOk
  <1> HIDE DEF t, F
  <1>6. Went(a, F, c)
    <2>1. t \in Threads \cup {NoOne}
      BY <1>3
    <2> QED BY <1>1, <1>2, <1>3, <1>4, <2>1, ActivateWent
  <1>7. /\ a.st = [k.st EXCEPT ![t] = "run"] /\ a.wakeList = k.wakeList /\ a.up = k.up
        /\ a.online = k.online /\ a.stops = k.stops
    BY <1>2, <1>3, <1>4, ActivatedSound
  <1> HIDE DEF a
  <1>8. \A u : u # t /\ k.st[u] = "waking" => a.st[u] = "waking"
    BY <1>2, <1>7
  <1>9. \A y \in Contexts : y.at # "wake" => WakeOk(a.st, a.wakeList, [ctx EXCEPT ![c] = y])
    <2> SUFFICES ASSUME NEW y \in Contexts, y.at # "wake"
                 PROVE  WakeOk(a.st, k.wakeList, [ctx EXCEPT ![c] = y])
      BY <1>7
    <2> DEFINE z == [ctx EXCEPT ![c] = y]
    <2>1. \A e \in Cpus : z[e].at = "wake" => e # c /\ z[e] = ctx[e]
      BY <1>2
    <2> HIDE DEF z
    <2>2. \A e \in Cpus : z[e].at = "wake" =>
              /\ a.st[z[e].who] = "waking"
              /\ \A f \in Cpus : /\ f # e /\ z[f].at = "wake" => z[f].who # z[e].who
                                 /\ z[e].who \notin Range(k.wakeList[f])
      BY <1>4, <1>5, <1>8, <2>1 DEF WakeOk
    <2>3. \A e \in Cpus :
              /\ IsInjective(k.wakeList[e]) /\ \A u \in Range(k.wakeList[e]) : a.st[u] = "waking"
              /\ \A f \in Cpus \ {e} : Range(k.wakeList[e]) \cap Range(k.wakeList[f]) = {}
      BY <1>4, <1>5, <1>8 DEF WakeOk
    <2>4. WakeOk(a.st, k.wakeList, z)
      BY <2>2, <2>3 DEF WakeOk
    <2> QED BY <2>4 DEF z
  <1> QED BY <1>1, <1>2, <1>6, <1>7, <1>9, WentInv DEF F

LEMMA TailOfList ==
    ASSUME NEW l \in Seq(Threads), l # <<>>, IsInjective(l)
    PROVE  /\ Head(l) \in Range(l) /\ Head(l) \in Threads
           /\ Tail(l) \in Seq(Threads) /\ IsInjective(Tail(l))
           /\ Range(Tail(l)) = Range(l) \ {Head(l)}
  <1> DEFINE t == Tail(l)
  <1>1. Len(l) \in Nat \ {0} /\ Range(l) = {l[i] : i \in 1 .. Len(l)} /\ Range(l) \subseteq Threads
    BY RangeProperties
  <1>2. Head(l) = l[1] /\ 1 \in 1 .. Len(l)
    BY <1>1
  <1>3. /\ t \in Seq(Threads) /\ Len(t) = Len(l) - 1
        /\ \A i \in 1 .. Len(l) - 1 : t[i] = l[i + 1]
    BY HeadTailProperties
  <1> HIDE DEF t
  <1>4. \A i \in 1 .. Len(l) - 1 : t[i] = IF i < 1 THEN l[i] ELSE l[i + 1]
    BY <1>3
  <1>5. Range(t) = Range(l) \ {l[1]} /\ IsInjective(t)
    BY <1>2, <1>3, <1>4, Spliced
  <1> QED BY <1>1, <1>2, <1>3, <1>5 DEF t

LEMMA TtwuPendingInv ==
    ASSUME SmpInv, NEW c \in Cpus, TtwuPending(c)
    PROVE  SmpInv'
  <1> DEFINE t == Head(k.wakeList[c])
             l == [k.wakeList EXCEPT ![c] = Tail(k.wakeList[c])]
             s == OnList(k, l)
             a == InState(s, t, "run")
             F == Free(ctx)
  <1>1. /\ c \in k.up /\ ctx[c].at = "none" /\ hot.phase # "dying" /\ c \notin F
        /\ Sound(k, F) /\ k \in States /\ ctx \in [Cpus -> Contexts]
        /\ k.wakeList \in [Cpus -> Seq(Threads)] /\ k.wakeList[c] # <<>>
        /\ hot' = hot
    BY ReadyIs, InvParts DEF TtwuPending, Stays, States
  <1>2. Activate(c, s, t, NoOne)
    BY DEF TtwuPending, OnList
  <1>3. WakeOk(k.st, k.wakeList, ctx)
    BY DEF SmpInv
  <1>4. /\ t \in Threads /\ t \in Range(k.wakeList[c])
        /\ l \in [Cpus -> Seq(Threads)] /\ IsInjective(l[c])
        /\ Range(l[c]) = Range(k.wakeList[c]) \ {t}
        /\ \A e \in Cpus \ {c} : l[e] = k.wakeList[e]
    <2>1. k.wakeList[c] \in Seq(Threads) /\ IsInjective(k.wakeList[c])
      BY <1>1, <1>3 DEF WakeOk
    <2>2. /\ t \in Range(k.wakeList[c]) /\ t \in Threads
          /\ Tail(k.wakeList[c]) \in Seq(Threads) /\ IsInjective(Tail(k.wakeList[c]))
          /\ Range(Tail(k.wakeList[c])) = Range(k.wakeList[c]) \ {t}
      BY <1>1, <2>1, TailOfList
    <2> HIDE DEF t
    <2> QED BY <1>1, <2>2
  <1> HIDE DEF t, l, F
  <1>5. /\ s \in States /\ s.wakeList = l
        /\ SameTasks(k, s) /\ SamePush(k, s) /\ SameLoad(k, s) /\ SameFlags(k, s)
        /\ s.st = k.st /\ s.up = k.up /\ s.active = k.active /\ s.stops = k.stops
    BY <1>1, <1>4, OnListFields
  <1> HIDE DEF s
  <1>6. Sound(s, F)
    BY <1>1, <1>5, SoundSame DEF SameFlags
  <1>7. s.st[t] = "waking" /\ k.st \in [Threads -> {"sleep", "waking", "run"}]
    BY <1>1, <1>3, <1>4, <1>5 DEF WakeOk, States
  <1>8. Went(a, F, c)
    <2>1. NoOne \in Threads \cup {NoOne}
      OBVIOUS
    <2> QED BY <1>1, <1>2, <1>4, <1>6, <1>7, <2>1, ActivateWent
  <1>9. /\ a.st = [k.st EXCEPT ![t] = "run"] /\ a.wakeList = l /\ a.up = k.up
        /\ a.online = k.online /\ a.stops = k.stops
    <2>1. /\ a.st = [s.st EXCEPT ![t] = "run"] /\ a.wakeList = s.wakeList /\ a.up = s.up
          /\ a.online = s.online /\ a.stops = s.stops
      <3>1. "run" \in {"sleep", "waking", "run"}
        OBVIOUS
      <3>2. /\ a.st = [s.st EXCEPT ![t] = "run"] /\ SameLoad(s, a)
            /\ a.wakeList = s.wakeList /\ a.up = s.up /\ a.stops = s.stops
        BY <1>4, <1>5, <3>1, InStateFields
      <3> QED BY <3>2 DEF SameLoad
    <2> QED BY <1>5, <2>1 DEF SameLoad
  <1> HIDE DEF a
  <1>10. \A u : u # t /\ k.st[u] = "waking" => a.st[u] = "waking"
    BY <1>7, <1>9
  <1>11. \A e \in Cpus : ctx[e].at = "wake" => ctx[e].who # t
    BY <1>3, <1>4 DEF WakeOk
  <1>12. \A e \in Cpus : /\ t \notin Range(l[e]) /\ Range(l[e]) \subseteq Range(k.wakeList[e])
                         /\ IsInjective(l[e])
    BY <1>3, <1>4 DEF WakeOk
  <1>13. WakeOk(a.st, l, ctx)
    <2>1. \A e \in Cpus : ctx[e].at = "wake" =>
              /\ a.st[ctx[e].who] = "waking"
              /\ \A f \in Cpus : /\ f # e /\ ctx[f].at = "wake" => ctx[f].who # ctx[e].who
                                 /\ ctx[e].who \notin Range(l[f])
      BY <1>3, <1>10, <1>11, <1>12 DEF WakeOk
    <2>2. \A e \in Cpus : /\ IsInjective(l[e]) /\ \A u \in Range(l[e]) : a.st[u] = "waking"
      BY <1>3, <1>10, <1>12 DEF WakeOk
    <2>3. \A e \in Cpus : \A f \in Cpus \ {e} : Range(l[e]) \cap Range(l[f]) = {}
      <3>1. \A e \in Cpus : \A f \in Cpus \ {e} :
                Range(k.wakeList[e]) \cap Range(k.wakeList[f]) = {}
        BY <1>3 DEF WakeOk
      <3> QED BY <1>12, <3>1
    <2> QED BY <2>1, <2>2, <2>3 DEF WakeOk
  <1>14. \A y \in Contexts : y.at # "wake" => WakeOk(a.st, a.wakeList, [ctx EXCEPT ![c] = y])
    BY <1>1, <1>9, <1>13, WakeLeft
  <1> QED BY <1>1, <1>8, <1>9, <1>14, WentInv DEF F

\* sched_setaffinity: what the change leaves where it may not run is to be moved.
Strayed(s, y) == [s EXCEPT !.stray = y]
Stopping(s, x) == [s EXCEPT !.stops = @ \cup {x}]

LEMMA StrayedFields ==
    ASSUME NEW s \in States, NEW y, y \subseteq Threads, NEW r, r = Strayed(s, y)
    PROVE  /\ r \in States /\ r.stray = y
           /\ SameTasks(s, r) /\ SamePush(s, r) /\ SameLoad(s, r) /\ SameRest(s, r)
  <1>1. r = [s EXCEPT !.stray = y]
    BY DEF Strayed
  <1>2. r \in States
    BY <1>1, ZenonT(30) DEF States
  <1>3. SameTasks(s, r) /\ SamePush(s, r) /\ SameLoad(s, r) /\ SameRest(s, r)
    BY <1>1 DEF States, SameTasks, SamePush, SameLoad, SameRest
  <1> QED BY <1>1, <1>2, <1>3 DEF States

LEMMA StoppingFields ==
    ASSUME NEW s \in States, NEW x \in Threads \X Cpus \X Cpus, NEW r, r = Stopping(s, x)
    PROVE  /\ r \in States /\ r.stops = s.stops \cup {x}
           /\ SameTasks(s, r) /\ SamePush(s, r) /\ SameLoad(s, r)
           /\ r.st = s.st /\ r.wakeList = s.wakeList /\ r.up = s.up /\ r.active = s.active
           /\ r.stray = s.stray
  <1> DEFINE y == s.stops \cup {x}
  <1>1. y \in SUBSET (Threads \X Cpus \X Cpus)
    BY DEF States
  <1>2. r = [s EXCEPT !.stops = y]
    BY DEF Stopping
  <1> HIDE DEF y
  <1>3. r \in States
    BY <1>1, <1>2, ZenonT(30) DEF States
  <1>4. SameTasks(s, r) /\ SamePush(s, r) /\ SameLoad(s, r)
    BY <1>2 DEF States, SameTasks, SamePush, SameLoad
  <1>5. /\ r.stops = y
        /\ r.st = s.st /\ r.wakeList = s.wakeList /\ r.up = s.up /\ r.active = s.active
        /\ r.stray = s.stray
    BY <1>2 DEF States
  <1> QED BY <1>3, <1>4, <1>5 DEF y

\* Whatever else a step changes, the others are placed as before.
LEMMA PlacedBut ==
    ASSUME NEW s, Placed(s), NEW t \in Threads, NEW r,
           r.onRq = s.onRq, r.home = s.home, r.st = s.st,
           \A u \in Threads \ {t} : r.mask[u] = s.mask[u],
           s.stray \subseteq r.stray, s.stops \subseteq r.stops, r.active = s.active,
           \A x \in r.stops : x[3] \in r.active,
           \/ t \in r.stray
           \/ /\ r.onRq[t] /\ r.home[t] \notin r.mask[t] =>
                    \E x \in r.stops : x[1] = t /\ x[2] = r.home[t] /\ x[3] \in r.mask[t]
              /\ r.st[t] = "waking" => r.home[t] \in r.mask[t]
    PROVE  Placed(r)
  <1>1. ASSUME NEW u \in Threads \ r.stray
        PROVE  /\ r.onRq[u] /\ r.home[u] \notin r.mask[u] =>
                    \E x \in r.stops : x[1] = u /\ x[2] = r.home[u] /\ x[3] \in r.mask[u]
               /\ r.st[u] = "waking" => r.home[u] \in r.mask[u]
    <2>1. CASE u = t
      BY <1>1, <2>1
    <2>2. CASE u # t
      <3>1. u \in Threads \ s.stray /\ r.mask[u] = s.mask[u]
        BY <1>1, <2>2
      <3> QED BY <3>1 DEF Placed
    <2> QED BY <2>1, <2>2
  <1> QED BY <1>1 DEF Placed

LEMMA SetAffinityInv ==
    ASSUME SmpInv, NEW c \in Cpus, NEW t \in Threads, NEW m \in MayMask[t], SetAffinity(c, t, m)
    PROVE  SmpInv'
  <1> DEFINE F == Free(ctx)
             s == SetMask(k, t, m)
             h == k.home[t]
             lost == h \notin m /\ s.st[t] = "waking"
             z == IF lost THEN s.stray \cup {t} ELSE s.stray
  <1>1. /\ Sound(k, F) /\ k \in States /\ hot = NoPlug /\ hot' = hot /\ ctx' = ctx
        /\ k' \in SetCpusAllowed(t, m)
    BY InvParts DEF SetAffinity, Stays
  <1>2. /\ Exact(k) /\ OnOwn(k, F) /\ Awake(k) /\ Placed(k) /\ h \in Cpus
        /\ k.mask \in [Threads -> SUBSET Cpus] /\ m \subseteq Cpus
        /\ k.st \in [Threads -> {"sleep", "waking", "run"}] /\ k.stray \subseteq Threads
        /\ k.stops \subseteq Threads \X Cpus \X Cpus
    <2>1. m \subseteq Cpus
      BY ThreadAssumption
    <2> QED BY <1>1, <2>1 DEF Sound, States
  <1>3. /\ Exact(s) /\ s.mask = [k.mask EXCEPT ![t] = m]
        /\ s.home = k.home /\ s.onRq = k.onRq /\ s.prio = k.prio /\ s.curr = k.curr
        /\ SameRest(k, s) /\ SameFlags(k, s) /\ s.online = k.online
    BY <1>2, SetMaskExact
  <1>4. \/ /\ h \in m \/ ~k.onRq[t]
           /\ k' = Strayed(s, z)
        \/ /\ h \notin m /\ k.onRq[t]
           /\ \E d \in m \cap k.active : k' = Stopping(Resched(s, h), <<t, h, d>>)
    BY <1>1 DEF SetCpusAllowed, Strayed, Stopping
  <1>5. lost \in BOOLEAN /\ (lost <=> h \notin m /\ s.st[t] = "waking")
    OBVIOUS
  <1>6. z = IF lost THEN s.stray \cup {t} ELSE s.stray
    OBVIOUS
  <1> HIDE DEF F, s, h, lost, z
  <1>7. s \in States /\ s.mask[t] = m /\ \A u \in Threads \ {t} : s.mask[u] = k.mask[u]
    BY <1>2, <1>3 DEF Exact
  <1>8. s.st = k.st /\ s.stray = k.stray /\ s.stops = k.stops /\ s.active = k.active
        /\ s.wakeList = k.wakeList /\ s.up = k.up
    BY <1>3 DEF SameRest, SameFlags
  <1>9. ASSUME Exact(k'), SameTasks(s, k'), k'.st = s.st, k'.wakeList = s.wakeList,
               k'.up = s.up, k'.online = s.online, Placed(k')
        PROVE  SmpInv'
    <2>1. OnOwn(k', F)
      BY <1>2, <1>3, <1>9 DEF OnOwn, SameTasks
    <2>2. Awake(k')
      BY <1>2, <1>3, <1>8, <1>9 DEF Awake, SameTasks
    <2>3. Sound(k', F)
      BY <1>9, <2>1, <2>2 DEF Sound
    <2>4. CtxInv'
      BY <1>1, <1>8, <1>9 DEF SmpInv, CtxInv
    <2>5. HotInv'
      <3>1. hot.phase = "none"
        BY <1>1 DEF NoPlug
      <3> QED BY <1>1, <1>3, <1>8, <1>9, <3>1 DEF SmpInv, HotInv
    <2>6. WakeOk(k.st, k.wakeList, ctx)'
      BY <1>1, <1>8, <1>9 DEF SmpInv
    <2> QED BY <1>1, <2>3, <2>4, <2>5, <2>6 DEF SmpInv, F
  <1>10. CASE (h \in m \/ ~k.onRq[t]) /\ k' = Strayed(s, z)
    <2>1. z \subseteq Threads /\ k.stray \subseteq z /\ (lost => t \in z)
      BY <1>2, <1>6, <1>8
    <2>2. /\ k' \in States /\ k'.stray = z
          /\ SameTasks(s, k') /\ SamePush(s, k') /\ SameLoad(s, k') /\ SameRest(s, k')
      BY <1>7, <1>10, <2>1, StrayedFields
    <2>3. Exact(k')
      BY <1>3, <2>2, SameTasksExact
    <2>4. Placed(k')
      <3>1. /\ k'.onRq = k.onRq /\ k'.home = k.home /\ k'.st = k.st /\ k'.stops = k.stops
            /\ k'.active = k.active /\ k'.mask = s.mask
        BY <1>3, <1>8, <2>2 DEF SameTasks, SameRest
      <3>2. t \in k'.stray \/ ((k'.onRq[t] => k'.home[t] \in k'.mask[t])
                               /\ (k'.st[t] = "waking" => k'.home[t] \in k'.mask[t]))
        BY <1>5, <1>7, <1>8, <1>10, <2>1, <2>2, <3>1 DEF h
      <3>3. \A x \in k'.stops : x[3] \in k'.active
        BY <1>2, <3>1 DEF Placed
      <3>4. \A u \in Threads \ {t} : k'.mask[u] = k.mask[u]
        BY <1>7, <3>1
      <3> QED BY <1>2, <2>1, <2>2, <3>1, <3>2, <3>3, <3>4, PlacedBut
    <2> QED BY <1>9, <2>2, <2>3, <2>4 DEF SameRest, SameLoad
  <1>11. CASE /\ h \notin m /\ k.onRq[t]
              /\ \E d \in m \cap k.active : k' = Stopping(Resched(s, h), <<t, h, d>>)
    <2>1. PICK d \in m \cap k.active : k' = Stopping(Resched(s, h), <<t, h, d>>)
      BY <1>11
    <2> DEFINE a == Resched(s, h)
               x == <<t, h, d>>
    <2>2. /\ a \in States
          /\ SameTasks(s, a) /\ SamePush(s, a) /\ SameLoad(s, a) /\ SameRest(s, a)
          /\ a.stray = s.stray
      BY <1>2, <1>7, ReschedFields
    <2>3. x \in Threads \X Cpus \X Cpus /\ x[1] = t /\ x[2] = h /\ x[3] = d
      BY <1>2, <2>1
    <2>4. k' = Stopping(a, x)
      BY <2>1
    <2> HIDE DEF a, x
    <2>5. /\ k' \in States /\ k'.stops = a.stops \cup {x}
          /\ SameTasks(a, k') /\ SamePush(a, k') /\ SameLoad(a, k')
          /\ k'.st = a.st /\ k'.wakeList = a.wakeList /\ k'.up = a.up /\ k'.active = a.active
          /\ k'.stray = a.stray
      BY <2>2, <2>3, <2>4, StoppingFields
    <2>6. /\ SameTasks(s, k') /\ SamePush(s, k') /\ SameLoad(s, k')
          /\ k'.st = s.st /\ k'.wakeList = s.wakeList /\ k'.up = s.up /\ k'.active = s.active
          /\ k'.stray = s.stray /\ k'.stops = s.stops \cup {x}
      BY <2>2, <2>5 DEF SameTasks, SamePush, SameLoad, SameRest
    <2>7. Exact(k')
      BY <1>3, <2>5, <2>6, SameTasksExact
    <2>8. Placed(k')
      <3>1. /\ k'.onRq = k.onRq /\ k'.home = k.home /\ k'.st = k.st
            /\ k'.active = k.active /\ k'.mask = s.mask
        BY <1>3, <1>8, <2>6 DEF SameTasks
      <3>2. \A u \in Threads \ {t} : k'.mask[u] = k.mask[u]
        BY <1>7, <3>1
      <3>3. \A v \in k'.stops : v[3] \in k'.active
        BY <1>2, <1>8, <2>1, <2>3, <2>6 DEF Placed
      <3>4. \E v \in k'.stops : v[1] = t /\ v[2] = k'.home[t] /\ v[3] \in k'.mask[t]
        BY <1>7, <2>1, <2>3, <2>6, <3>1 DEF h
      <3>5. k'.st[t] # "waking"
        BY <1>2, <1>11, <3>1 DEF Awake
      <3>6. k.stray \subseteq k'.stray /\ k.stops \subseteq k'.stops
        BY <1>8, <2>6
      <3> QED BY <1>2, <3>1, <3>2, <3>3, <3>4, <3>5, <3>6, PlacedBut
    <2> QED BY <1>9, <2>6, <2>7, <2>8 DEF SameLoad
  <1> QED BY <1>4, <1>10, <1>11

-----------------------------------------------------------------------------
(* Priority *)

Prioed(s, t, p) == [s EXCEPT !.prio[t] = p]

LEMMA PrioedFields ==
    ASSUME NEW s \in States, NEW t \in Threads, NEW p \in 1 .. FairPrio, NEW r, r = Prioed(s, t, p)
    PROVE  /\ r \in States /\ r.prio = [s.prio EXCEPT ![t] = p]
           /\ r.home = s.home /\ r.onRq = s.onRq /\ r.mask = s.mask /\ r.curr = s.curr
           /\ SamePush(s, r) /\ SameLoad(s, r) /\ SameRest(s, r) /\ SameFlags(s, r)
  <1> DEFINE u == [s.prio EXCEPT ![t] = p]
  <1>1. u \in [Threads -> 1 .. FairPrio]
    BY DEF States
  <1>2. r = [s EXCEPT !.prio = u]
    BY DEF Prioed
  <1> HIDE DEF u
  <1>3. r \in States
    BY <1>1, <1>2, ZenonT(30) DEF States
  <1>4. SamePush(s, r) /\ SameLoad(s, r) /\ SameRest(s, r) /\ SameFlags(s, r)
    BY <1>2 DEF States, SamePush, SameLoad, SameRest, SameFlags
  <1>5. /\ r.prio = u
        /\ r.home = s.home /\ r.onRq = s.onRq /\ r.mask = s.mask /\ r.curr = s.curr
    BY <1>2 DEF States
  <1> QED BY <1>3, <1>4, <1>5 DEF u

\* Taking a task that is in no queue off the list of one does nothing.
LEMMA PushOffExact ==
    ASSUME NEW s, Exact(s), NEW c \in Cpus, NEW t \in Threads, t \notin Pushable(s, c),
           NEW r, r = PushOff(s, c, t)
    PROVE  /\ Exact(r)
           /\ SameTasks(s, r) /\ SameLoad(s, r) /\ SameRest(s, r) /\ SameFlags(s, r)
  <1>1. /\ s \in States /\ Domain(s) /\ \A d \in Cpus : Load(s, d)
        /\ \A d \in Cpus : PushList(s, d, Pushable(s, d))
    BY DEF Exact
  <1>2. /\ r \in States
        /\ SameTasks(s, r) /\ SameLoad(s, r) /\ SameRest(s, r) /\ SameFlags(s, r)
        /\ PushList(r, c, Pushable(s, c) \ {t}) /\ SameElsewhere(s, r, c)
    BY <1>1, PushOffList
  <1>3. Pushable(s, c) \ {t} = Pushable(s, c)
    OBVIOUS
  <1>4. Exact(r)
    BY <1>1, <1>2, <1>3, ListDone
  <1> QED BY <1>2, <1>4

\* Out of the queue, changed, back: the task is queued as before.
LEMMA RequeuedSound ==
    ASSUME NEW s, NEW F, Sound(s, F), NEW t \in Threads, NEW p \in 1 .. FairPrio,
           NEW r, r = Requeued(s, t, p)
    PROVE  Sound(r, F) /\ Frame(s, r) /\ (r.onRq[t] <=> s.onRq[t]) /\ r.home = s.home
  <1> DEFINE off == IF s.onRq[t] THEN Dequeue(s, t) ELSE s
             new == Prioed(off, t, p)
             h == s.home[t]
             set == IF s.curr[h] = t /\ p < FairPrio THEN PushOff(new, h, t) ELSE new
  <1>1. Exact(s) /\ OnOwn(s, F) /\ Awake(s) /\ Placed(s) /\ s \in States /\ h \in Cpus
    BY DEF Sound, Exact, States
  <1>2. r = IF s.onRq[t] THEN Enqueue(set, t) ELSE set
    BY DEF Requeued, Prioed
  <1>3. Exact(off) /\ Moved(s, off, t) /\ ~off.onRq[t]
    <2>1. CASE s.onRq[t]
      BY <1>1, <2>1, DequeueExact
    <2>2. CASE ~s.onRq[t]
      BY <1>1, <2>2 DEF Moved, OtherFlag, SameRest, SameFlags
    <2> QED BY <2>1, <2>2
  <1> HIDE DEF off, h
  <1>4. /\ new \in States /\ new.prio = [off.prio EXCEPT ![t] = p]
        /\ new.home = off.home /\ new.onRq = off.onRq /\ new.mask = off.mask
        /\ new.curr = off.curr
        /\ SamePush(off, new) /\ SameLoad(off, new) /\ SameRest(off, new) /\ SameFlags(off, new)
    BY <1>3, PrioedFields DEF Exact
  <1> HIDE DEF new
  <1>5. Exact(new) /\ ~new.onRq[t]
    <2>1. \A u \in Threads \ {t} : new.prio[u] = off.prio[u]
      BY <1>3, <1>4 DEF Exact, States
    <2> QED BY <1>3, <1>4, <2>1, Unqueued
  <1>6. /\ Exact(set)
        /\ SameTasks(new, set) /\ SameLoad(new, set) /\ SameRest(new, set) /\ SameFlags(new, set)
    <2>1. CASE s.curr[h] = t /\ p < FairPrio
      <3>1. t \notin Pushable(new, h)
        BY <1>5 DEF Pushable, RtMovable, RtQueued, Queued
      <3> QED BY <1>1, <1>5, <2>1, <3>1, PushOffExact
    <2>2. CASE ~(s.curr[h] = t /\ p < FairPrio)
      BY <1>5, <2>2 DEF SameTasks, SameLoad, SameRest, SameFlags
    <2> QED BY <2>1, <2>2
  <1> HIDE DEF set
  <1>7. ~set.onRq[t]
    BY <1>5, <1>6 DEF SameTasks
  <1>8. Exact(r) /\ Moved(set, r, t) /\ (r.onRq[t] <=> s.onRq[t])
    <2>1. CASE s.onRq[t]
      <3>1. r = Enqueue(set, t)
        BY <1>2, <2>1
      <3> QED BY <1>6, <1>7, <2>1, <3>1, EnqueueExact
    <2>2. CASE ~s.onRq[t]
      <3>1. r = set
        BY <1>2, <2>2
      <3> QED BY <1>6, <1>7, <2>2, <3>1 DEF Moved, OtherFlag, SameRest, SameFlags
    <2> QED BY <2>1, <2>2
  <1>9. /\ r.home = s.home /\ r.mask = s.mask /\ r.curr = s.curr /\ r.stray = s.stray
        /\ SameRest(s, r) /\ r.online = s.online
    BY <1>3, <1>4, <1>6, <1>8
       DEF Moved, OtherFlag, SameTasks, SameRest, SameFlags, SameLoad
  <1>10. \A u \in Threads : r.onRq[u] <=> s.onRq[u]
    BY <1>3, <1>4, <1>6, <1>8 DEF Moved, OtherFlag, SameTasks
  <1>11. OnOwn(r, F)
    BY <1>1, <1>9, <1>10 DEF OnOwn
  <1>12. Awake(r)
    BY <1>1, <1>9, <1>10 DEF Awake, SameRest
  <1>13. Placed(r)
    BY <1>1, <1>9, <1>10 DEF Placed, SameRest
  <1> QED BY <1>8, <1>9, <1>11, <1>12, <1>13 DEF Sound, Frame

SwitchedBy(s, F, c) ==
    \/ Went(s, F, c)
    \/ ctx' = ctx /\ Sound(k', F) /\ Frame(s, k')

LEMMA PullsFor ==
    ASSUME NEW s, NEW F, Sound(s, F), NEW v, Frame(v, s), NEW c \in Cpus, c \notin F,
           NEW q \in Cpus, NEW t \in Threads, NEW then \in {"from", "prio"},
           PullRuns(c, Loop(q, then, t), s, 0)
    PROVE  Went(v, F, c)
  <1> DEFINE x == Loop(q, then, t)
  <1>1. then \in PushEnds \cup PullEnds /\ then \in PullEnds /\ t \in Threads \cup {NoOne}
    BY DEF PullEnds
  <1>2. x \in Contexts /\ x.q = q /\ x.then = then
    BY <1>1, LoopIs
  <1>3. PullRuns(c, x, s, 0)
    OBVIOUS
  <1> HIDE DEF x
  <1> QED BY <1>1, <1>2, <1>3, PullRunsWent

\* check_class_changed: what the class does of a queued task that has changed.
LEMMA ClassChanged ==
    ASSUME NEW s, NEW F, Sound(s, F), NEW v, Frame(v, s), NEW c \in Cpus, c \notin F,
           NEW q \in Cpus, NEW t \in Threads, NEW old,
           \/ SwitchedFromRt(c, s, q, t)
           \/ SwitchedToRt(c, s, q, t)
           \/ PrioChangedRt(c, s, q, t, old)
    PROVE  SwitchedBy(v, F, c)
  <1>1. ASSUME NEW w, w = s \/ w = Resched(s, q) \/ w \in CheckPreempt(s, q, t)
        PROVE  Sound(w, F) /\ Frame(v, w)
    <2>1. Sound(w, F) /\ Frame(s, w)
      BY <1>1, ReschedSound, CheckPreemptSound, SameFrame
    <2> QED BY <2>1 DEF Frame, SameRest
  <1>2. CASE SwitchedFromRt(c, s, q, t)
    <2>1. \/ PullRuns(c, Loop(q, "from", t), s, 0)
          \/ k' \in SwitchedToFair(s, q, t) /\ ctx' = ctx
      BY <1>2 DEF SwitchedFromRt
    <2>2. CASE PullRuns(c, Loop(q, "from", t), s, 0)
      <3>1. "from" \in {"from", "prio"}
        OBVIOUS
      <3> QED BY <2>2, <3>1, PullsFor DEF SwitchedBy
    <2>3. CASE k' \in SwitchedToFair(s, q, t) /\ ctx' = ctx
      <3>1. k' = s \/ k' = Resched(s, q) \/ k' \in CheckPreempt(s, q, t)
        BY <2>3 DEF SwitchedToFair
      <3>2. Sound(k', F) /\ Frame(v, k')
        BY <1>1, <3>1
      <3> QED BY <2>3, <3>2 DEF SwitchedBy
    <2> QED BY <2>1, <2>2, <2>3
  <1>3. CASE SwitchedToRt(c, s, q, t)
    <2>1. \/ \E r \in PushStart(s, q) : PushRuns(c, Loop(q, "to", t), r)
          \/ (k' = s \/ k' = Resched(s, q)) /\ ctx' = ctx
      BY <1>3 DEF SwitchedToRt
    <2>2. CASE \E r \in PushStart(s, q) : PushRuns(c, Loop(q, "to", t), r)
      <3>1. PICK r \in PushStart(s, q) : PushRuns(c, Loop(q, "to", t), r)
        BY <2>2
      <3> DEFINE x == Loop(q, "to", t)
      <3>2. "to" \in PushEnds \cup PullEnds /\ "to" \in PushEnds /\ t \in Threads \cup {NoOne}
        BY DEF PushEnds
      <3>3. x \in Contexts /\ x.q = q /\ x.then = "to"
        BY <3>2, LoopIs
      <3>4. PushRuns(c, x, r)
        BY <3>1
      <3> HIDE DEF x
      <3>5. Reached(v, F, r)
        BY <3>1, PushStartReached
      <3>6. Went(v, F, c)
        BY <3>2, <3>3, <3>4, <3>5, PushRunsWent
      <3> QED BY <3>6 DEF SwitchedBy
    <2>3. CASE (k' = s \/ k' = Resched(s, q)) /\ ctx' = ctx
      <3>1. Sound(k', F) /\ Frame(v, k')
        BY <1>1, <2>3
      <3> QED BY <2>3, <3>1 DEF SwitchedBy
    <2> QED BY <2>1, <2>2, <2>3
  <1>4. CASE PrioChangedRt(c, s, q, t, old)
    <2>1. \/ PullRuns(c, Loop(q, "prio", t), s, 0)
          \/ (k' = s \/ k' = Resched(s, q)) /\ ctx' = ctx
      BY <1>4 DEF PrioChangedRt
    <2>2. CASE PullRuns(c, Loop(q, "prio", t), s, 0)
      <3>1. "prio" \in {"from", "prio"}
        OBVIOUS
      <3> QED BY <2>2, <3>1, PullsFor DEF SwitchedBy
    <2>3. CASE (k' = s \/ k' = Resched(s, q)) /\ ctx' = ctx
      <3>1. Sound(k', F) /\ Frame(v, k')
        BY <1>1, <2>3
      <3> QED BY <2>3, <3>1 DEF SwitchedBy
    <2> QED BY <2>1, <2>2, <2>3
  <1> QED BY <1>2, <1>3, <1>4

LEMMA SetPrioInv ==
    ASSUME SmpInv, NEW c \in Cpus, NEW t \in Threads, NEW p \in MayPrio[t], SetPrio(c, t, p)
    PROVE  SmpInv'
  <1> DEFINE q == k.home[t]
             old == k.prio[t]
             s == Requeued(k, t, p)
             F == Free(ctx)
  <1>1. /\ c \in k.up /\ hot.phase # "dying" /\ c \notin F /\ Sound(k, F) /\ k \in States
        /\ hot' = hot
    BY ReadyIs, InvParts DEF SetPrio, Stays
  <1>2. q \in Cpus /\ p \in 1 .. FairPrio
    <2>1. p \in 1 .. FairPrio
      BY ThreadAssumption
    <2> QED BY <1>1, <2>1 DEF States
  <1>3. \/ k' = s /\ ctx' = ctx
        \/ SwitchedFromRt(c, s, q, t)
        \/ SwitchedToRt(c, s, q, t)
        \/ PrioChangedRt(c, s, q, t, old)
    <2>1. (CASE ~s.onRq[t] -> k' = s /\ UNCHANGED ctx
             [] s.onRq[t] /\ p = FairPrio -> SwitchedFromRt(c, s, q, t)
             [] s.onRq[t] /\ old = FairPrio -> SwitchedToRt(c, s, q, t)
             [] OTHER -> PrioChangedRt(c, s, q, t, old))
      BY DEF SetPrio
    <2> HIDE DEF s, q, old
    <2> QED BY <2>1, Zenon
  <1>4. Sound(s, F) /\ Frame(k, s)
    BY <1>1, <1>2, RequeuedSound
  <1> HIDE DEF q, old, s, F
  <1>5. SwitchedBy(k, F, c)
    <2>1. CASE k' = s /\ ctx' = ctx
      BY <1>4, <2>1 DEF SwitchedBy
    <2> QED BY <1>1, <1>2, <1>3, <1>4, <2>1, ClassChanged
  <1>6. CASE Went(k, F, c)
    <2>1. F \cup {c} = Free(ctx) \cup {c} /\ Frame(k, k)
      BY SameFrame DEF F
    <2> QED BY <1>1, <1>6, <2>1, WentOn
  <1>7. CASE ctx' = ctx /\ Sound(k', F) /\ Frame(k, k')
    BY <1>1, <1>7, StayedInv DEF F
  <1> QED BY <1>5, <1>6, <1>7 DEF SwitchedBy


-----------------------------------------------------------------------------
(* The stop task *)

\* A step that may also take requests from the stop tasks.
LEMMA ServedInv ==
    ASSUME SmpInv, Sound(k', Free(ctx)), k'.st = k.st, k'.wakeList = k.wakeList,
           k'.up = k.up, k'.online = k.online, k'.stops \subseteq k.stops,
           hot.phase # "dying", ctx' = ctx, hot' = hot
    PROVE  SmpInv'
  <1>1. CtxInv'
    BY DEF SmpInv, CtxInv
  <1>2. HotInv'
    BY DEF SmpInv, HotInv
  <1>3. WakeOk(k.st, k.wakeList, ctx)'
    BY DEF SmpInv
  <1> QED BY <1>1, <1>2, <1>3 DEF SmpInv

Served(s, x) == [s EXCEPT !.stops = @ \ {x}]

LEMMA ServedFields ==
    ASSUME NEW s \in States, NEW x, NEW r, r = Served(s, x)
    PROVE  /\ r \in States /\ r.stops = s.stops \ {x}
           /\ SameTasks(s, r) /\ SamePush(s, r) /\ SameLoad(s, r)
           /\ r.st = s.st /\ r.wakeList = s.wakeList /\ r.up = s.up /\ r.active = s.active
           /\ r.stray = s.stray
  <1> DEFINE y == s.stops \ {x}
  <1>1. y \in SUBSET (Threads \X Cpus \X Cpus)
    BY DEF States
  <1>2. r = [s EXCEPT !.stops = y]
    BY DEF Served
  <1> HIDE DEF y
  <1>3. r \in States
    BY <1>1, <1>2, ZenonT(30) DEF States
  <1>4. SameTasks(s, r) /\ SamePush(s, r) /\ SameLoad(s, r)
    BY <1>2 DEF States, SameTasks, SamePush, SameLoad
  <1>5. /\ r.stops = y
        /\ r.st = s.st /\ r.wakeList = s.wakeList /\ r.up = s.up /\ r.active = s.active
        /\ r.stray = s.stray
    BY <1>2 DEF States
  <1> QED BY <1>3, <1>4, <1>5 DEF y

\* A task is placed without the request if it has no use for it, or has moved.
LEMMA PlacedWithout ==
    ASSUME NEW s, Placed(s), NEW x, NEW t, t = x[1], NEW r,
           \A u \in Threads : r.onRq[u] <=> s.onRq[u],
           \A u \in Threads \ {t} : r.home[u] = s.home[u],
           r.mask = s.mask, r.st = s.st, r.active = s.active, r.stops = s.stops \ {x},
           r.stray \subseteq s.stray, s.stray \subseteq r.stray \cup {t},
           \/ r.home[t] \in r.mask[t]
           \/ /\ r.home[t] = s.home[t] /\ r.stray = s.stray
              /\ ~(s.onRq[t] /\ s.home[t] = x[2] /\ x[3] \in s.active /\ x[3] \in s.mask[t])
    PROVE  Placed(r)
  <1>1. ASSUME NEW u \in Threads \ r.stray
        PROVE  /\ r.onRq[u] /\ r.home[u] \notin r.mask[u] =>
                    \E y \in r.stops : y[1] = u /\ y[2] = r.home[u] /\ y[3] \in r.mask[u]
               /\ r.st[u] = "waking" => r.home[u] \in r.mask[u]
    <2>1. CASE u # t
      <3>1. u \in Threads \ s.stray /\ r.home[u] = s.home[u]
        BY <1>1, <2>1
      <3>2. ASSUME r.onRq[u], r.home[u] \notin r.mask[u]
            PROVE  \E y \in r.stops : y[1] = u /\ y[2] = r.home[u] /\ y[3] \in r.mask[u]
        <4>1. PICK y \in s.stops : y[1] = u /\ y[2] = s.home[u] /\ y[3] \in s.mask[u]
          BY <3>1, <3>2 DEF Placed
        <4>2. y \in r.stops
          BY <2>1, <4>1
        <4> QED BY <3>1, <4>1, <4>2
      <3> QED BY <3>1, <3>2 DEF Placed
    <2>2. CASE u = t /\ r.home[t] \notin r.mask[t]
      <3>1. /\ r.home[t] = s.home[t] /\ u \in Threads \ s.stray
            /\ ~(s.onRq[t] /\ s.home[t] = x[2] /\ x[3] \in s.active /\ x[3] \in s.mask[t])
        BY <1>1, <2>2
      <3>2. ASSUME r.onRq[u]
            PROVE  \E y \in r.stops : y[1] = u /\ y[2] = r.home[u] /\ y[3] \in r.mask[u]
        <4>1. PICK y \in s.stops : y[1] = u /\ y[2] = s.home[u] /\ y[3] \in s.mask[u]
          BY <2>2, <3>1, <3>2 DEF Placed
        <4>2. y[3] \in s.active
          BY <4>1 DEF Placed
        <4>3. y # x
          BY <2>2, <3>1, <3>2, <4>1, <4>2
        <4> QED BY <2>2, <3>1, <4>1, <4>3
      <3> QED BY <2>2, <3>1, <3>2 DEF Placed
    <2>3. CASE u = t /\ r.home[t] \in r.mask[t]
      BY <2>3
    <2> QED BY <2>1, <2>2, <2>3
  <1>2. \A y \in r.stops : y[3] \in r.active
    BY DEF Placed
  <1> QED BY <1>1, <1>2 DEF Placed

LEMMA MigrateInv ==
    ASSUME SmpInv, NEW c \in Cpus, Migrate(c)
    PROVE  SmpInv'
  <1> DEFINE F == Free(ctx)
  <1>1. /\ c \in k.up /\ hot.phase # "dying" /\ Sound(k, F) /\ k \in States
        /\ hot' = hot /\ ctx' = ctx /\ k.curr[c] = Stopper
    BY ReadyIs, InvParts DEF Migrate, Stays
  <1>2. /\ Exact(k) /\ OnOwn(k, F) /\ Awake(k) /\ Placed(k)
        /\ k.home \in [Threads -> Cpus] /\ k.stops \subseteq Threads \X Cpus \X Cpus
    BY <1>1 DEF Sound, States
  <1>3. PICK x \in k.stops :
          /\ x[2] = c
          /\ IF Fits(x) /\ k.onRq[x[1]]
             THEN k' \in CheckPreempt(Move(Served(k, x), x[1], x[3]), x[3], x[1])
             ELSE k' = Served(k, x)
    BY DEF Migrate, Served
  <1> DEFINE t == x[1]
             d == x[3]
             s == Served(k, x)
  <1>4. t \in Threads /\ d \in Cpus
    BY <1>2
  <1>5. /\ s \in States /\ s.stops = k.stops \ {x}
        /\ SameTasks(k, s) /\ SamePush(k, s) /\ SameLoad(k, s)
        /\ s.st = k.st /\ s.wakeList = k.wakeList /\ s.up = k.up /\ s.active = k.active
        /\ s.stray = k.stray
    BY <1>1, ServedFields
  <1>6. Exact(s)
    BY <1>2, <1>5, SameTasksExact
  <1>7. ASSUME Fits(x), k.onRq[t]
        PROVE  SmpInv'
    <2> DEFINE m == Move(s, t, d)
    <2>1. k' \in CheckPreempt(m, d, t)
      BY <1>3, <1>7
    <2>2. k.home[t] = c /\ d \in k.active /\ d \in k.mask[t]
      BY <1>3, <1>7 DEF Fits
    <2>3. s.onRq[t]
      BY <1>5, <1>7 DEF SameTasks
    <2> HIDE DEF s, t, d
    <2>4. /\ Exact(m)
          /\ m.home = [s.home EXCEPT ![t] = d] /\ m.stray = s.stray \ {t}
          /\ m.prio = s.prio /\ m.mask = s.mask /\ m.curr = s.curr
          /\ m.onRq[t] /\ \A u \in Threads : m.onRq[u] <=> s.onRq[u]
          /\ SameRest(s, m) /\ m.resched = s.resched /\ m.post = s.post /\ m.online = s.online
      BY <1>4, <1>6, <2>3, MoveFields
    <2> HIDE DEF m
    <2>5. /\ m.home = [k.home EXCEPT ![t] = d] /\ m.stray = k.stray \ {t}
          /\ m.mask = k.mask /\ m.curr = k.curr /\ m.online = k.online
          /\ \A u \in Threads : m.onRq[u] <=> k.onRq[u]
          /\ m.st = k.st /\ m.wakeList = k.wakeList /\ m.up = k.up /\ m.active = k.active
          /\ m.stops = k.stops \ {x}
      BY <1>5, <2>4 DEF SameTasks, SameRest, SameLoad
    <2>6. m.home[t] = d /\ \A u \in Threads \ {t} : m.home[u] = k.home[u]
      BY <1>2, <1>4, <2>5
    <2>7. OnOwn(m, F)
      <3>1. \A e \in Cpus : k.curr[e] # t
        BY <1>1, <1>2, <1>4, <2>2, ThreadAssumption DEF OnOwn
      <3> QED BY <1>2, <2>5, <2>6, <3>1 DEF OnOwn
    <2>8. Awake(m)
      BY <1>2, <2>5 DEF Awake
    <2>9. Placed(m)
      <3>1. m.home[t] \in m.mask[t] /\ m.stray \subseteq k.stray /\ k.stray \subseteq m.stray \cup {t}
        BY <2>2, <2>5, <2>6
      <3>2. t = x[1]
        BY DEF t
      <3> QED BY <1>2, <2>5, <2>6, <3>1, <3>2, PlacedWithout
    <2>10. Sound(m, F)
      BY <2>4, <2>7, <2>8, <2>9 DEF Sound
    <2>11. Sound(k', F) /\ Frame(m, k')
      BY <1>4, <2>1, <2>10, CheckPreemptSound
    <2> QED BY <1>1, <2>5, <2>11, ServedInv DEF Frame, SameRest
  <1>8. ASSUME ~(Fits(x) /\ k.onRq[t])
        PROVE  SmpInv'
    <2>1. k' = s
      BY <1>3, <1>8
    <2>2. ~(k.onRq[t] /\ k.home[t] = x[2] /\ x[3] \in k.active /\ x[3] \in k.mask[t])
      BY <1>8 DEF Fits
    <2>3. t = x[1]
      OBVIOUS
    <2> HIDE DEF s, t
    <2>4. /\ s.onRq = k.onRq /\ s.home = k.home /\ s.mask = k.mask /\ s.curr = k.curr
          /\ s.online = k.online
      BY <1>5 DEF SameTasks, SameLoad
    <2>5. Placed(s)
      BY <1>2, <1>5, <2>2, <2>3, <2>4, PlacedWithout
    <2>6. OnOwn(s, F) /\ Awake(s)
      BY <1>2, <1>5, <2>4 DEF OnOwn, Awake
    <2>7. Sound(k', F)
      BY <1>6, <2>1, <2>5, <2>6 DEF Sound
    <2>8. k'.stops \subseteq k.stops
      BY <1>5, <2>1
    <2> QED BY <1>1, <1>5, <2>1, <2>4, <2>7, <2>8, ServedInv
  <1> QED BY <1>7, <1>8

-----------------------------------------------------------------------------
(* Unplugging and plugging *)

\* A step of the processor that comes or goes.
LEMMA PluggedInv ==
    ASSUME SmpInv, Sound(k', Free(ctx)), k'.st = k.st, k'.wakeList = k.wakeList, ctx' = ctx,
           \A c \in Cpus : c \notin k'.up => ctx[c].at = "none", HotInv'
    PROVE  SmpInv'
  <1>1. CtxInv'
    BY DEF SmpInv, CtxInv
  <1>2. WakeOk(k.st, k.wakeList, ctx)'
    BY DEF SmpInv
  <1> QED BY <1>1, <1>2 DEF SmpInv

\* Queues in order, of the same tasks.
LEMMA SoundKept ==
    ASSUME NEW s, NEW F, Sound(s, F), NEW r, Exact(r),
           r.home = s.home, r.onRq = s.onRq, r.mask = s.mask, r.st = s.st, r.stops = s.stops,
           r.stray = s.stray, \A c \in Cpus : r.curr[c] \in Threads => r.curr[c] = s.curr[c],
           \A x \in r.stops : x[3] \in r.active
    PROVE  Sound(r, F)
  <1>1. OnOwn(s, F) /\ Awake(s) /\ Placed(s)
    BY DEF Sound
  <1>2. OnOwn(r, F)
    BY <1>1 DEF OnOwn
  <1>3. Awake(r)
    BY <1>1 DEF Awake
  <1>4. Placed(r)
    BY <1>1 DEF Placed
  <1> QED BY <1>2, <1>3, <1>4 DEF Sound

Plugged(s, u, a) == [s EXCEPT !.up = u, !.active = a]

LEMMA PluggedFields ==
    ASSUME NEW s \in States, NEW u, u \subseteq Cpus, NEW a, a \subseteq Cpus,
           NEW r, r = Plugged(s, u, a)
    PROVE  /\ r \in States /\ r.up = u /\ r.active = a
           /\ SameTasks(s, r) /\ SamePush(s, r) /\ SameLoad(s, r) /\ SameFlags(s, r)
           /\ r.st = s.st /\ r.wakeList = s.wakeList /\ r.stops = s.stops
  <1>1. r = [s EXCEPT !.up = u, !.active = a]
    BY DEF Plugged
  <1>2. r \in States
    <2>1. u \in SUBSET Cpus /\ a \in SUBSET Cpus
      OBVIOUS
    <2> QED BY <2>1 DEF States, Plugged
  <1>3. SameTasks(s, r) /\ SamePush(s, r) /\ SameLoad(s, r) /\ SameFlags(s, r)
    BY <1>1 DEF States, SameTasks, SamePush, SameLoad, SameFlags
  <1> QED BY <1>1, <1>2, <1>3 DEF States

\* Who is up and active is not about the queues, while no request is pending.
LEMMA PluggedSound ==
    ASSUME NEW s, NEW F, Sound(s, F), NEW u, u \subseteq Cpus, NEW a, a \subseteq Cpus,
           s.stops = {} \/ s.active \subseteq a, NEW r, r = Plugged(s, u, a)
    PROVE  /\ Sound(r, F) /\ r.up = u /\ r.st = s.st /\ r.wakeList = s.wakeList
           /\ r.stops = s.stops /\ r.online = s.online /\ r.curr = s.curr
  <1>1. Exact(s) /\ s \in States /\ Placed(s)
    BY DEF Sound, Exact
  <1>2. /\ r \in States /\ r.up = u /\ r.active = a
        /\ SameTasks(s, r) /\ SamePush(s, r) /\ SameLoad(s, r) /\ SameFlags(s, r)
        /\ r.st = s.st /\ r.wakeList = s.wakeList /\ r.stops = s.stops
    BY <1>1, PluggedFields
  <1>3. Exact(r)
    BY <1>1, <1>2, SameTasksExact
  <1>4. \A x \in r.stops : x[3] \in r.active
    BY <1>1, <1>2 DEF Placed
  <1>5. Sound(r, F)
    BY <1>2, <1>3, <1>4, SoundKept DEF SameTasks, SameFlags
  <1> QED BY <1>2, <1>5 DEF SameTasks, SameLoad

LEMMA DownPrepareInv ==
    ASSUME SmpInv, NEW c \in Cpus, DownPrepare(c)
    PROVE  SmpInv'
  <1> DEFINE a == k.active \ {c}
             u == k.up
  <1>1. /\ Sound(k, Free(ctx)) /\ k \in States /\ k.stops = {} /\ hot = NoPlug /\ c \in u
        /\ hot' = [phase |-> "prepare", cpu |-> c] /\ ctx' = ctx
    BY InvParts DEF DownPrepare
  <1>2. u \subseteq Cpus /\ a \subseteq Cpus
    BY <1>1 DEF States
  <1>3. k' = Plugged(k, u, a)
    <2>1. k' = [k EXCEPT !.active = @ \ {c}]
      BY DEF DownPrepare
    <2> QED BY <1>1, <2>1 DEF Plugged, States
  <1> HIDE DEF a, u
  <1>4. /\ Sound(k', Free(ctx)) /\ k'.up = u /\ k'.st = k.st /\ k'.wakeList = k.wakeList
        /\ k'.stops = k.stops /\ k'.online = k.online /\ k'.curr = k.curr
    BY <1>1, <1>2, <1>3, PluggedSound
  <1>5. HotInv'
    <2>1. \A d \in Cpus : k.online[d] <=> d \in k.up
      BY <1>1 DEF SmpInv, HotInv, NoPlug
    <2> QED BY <1>1, <1>4, <2>1 DEF HotInv, u
  <1>6. \A d \in Cpus : d \notin k'.up => ctx[d].at = "none"
    BY <1>4 DEF SmpInv, CtxInv, u
  <1> QED BY <1>1, <1>4, <1>5, <1>6, PluggedInv

LEMMA StartingInv ==
    ASSUME SmpInv, NEW c \in Cpus, Starting(c)
    PROVE  SmpInv'
  <1> DEFINE a == k.active \cup {c}
             u == k.up \cup {c}
  <1>1. /\ Sound(k, Free(ctx)) /\ k \in States /\ hot = NoPlug /\ c \notin k.up
        /\ hot' = [phase |-> "up", cpu |-> c] /\ ctx' = ctx
        /\ k' = Plugged(k, u, a)
    BY InvParts DEF Starting, Plugged
  <1>2. u \subseteq Cpus /\ a \subseteq Cpus /\ k.active \subseteq a /\ k.up \subseteq u
    BY <1>1 DEF States
  <1>3. \A d \in Cpus : d \in u <=> d \in k.up \/ d = c
    OBVIOUS
  <1> HIDE DEF a, u
  <1>4. /\ Sound(k', Free(ctx)) /\ k'.up = u /\ k'.st = k.st /\ k'.wakeList = k.wakeList
        /\ k'.stops = k.stops /\ k'.online = k.online /\ k'.curr = k.curr
    BY <1>1, <1>2, PluggedSound
  <1>5. HotInv'
    <2>1. \A d \in Cpus : k.online[d] <=> d \in k.up
      BY <1>1 DEF SmpInv, HotInv, NoPlug
    <2> QED BY <1>1, <1>3, <1>4, <2>1 DEF HotInv
  <1>6. \A d \in Cpus : d \notin k'.up => ctx[d].at = "none"
    BY <1>2, <1>4 DEF SmpInv, CtxInv
  <1> QED BY <1>1, <1>4, <1>5, <1>6, PluggedInv

Interrupted(s, f) == [s EXCEPT !.resched = f]

LEMMA StopMachineInv ==
    ASSUME SmpInv, StopMachine
    PROVE  SmpInv'
  <1> DEFINE f == [c \in Cpus |-> c \in k.up]
  <1>1. /\ Sound(k, Free(ctx)) /\ k \in States /\ hot.phase = "prepare"
        /\ hot' = [hot EXCEPT !.phase = "stop"] /\ ctx' = ctx
        /\ k' = Interrupted(k, f)
    BY InvParts DEF StopMachine, Interrupted
  <1>2. f \in [Cpus -> BOOLEAN]
    OBVIOUS
  <1> HIDE DEF f
  <1>3. k' = [k EXCEPT !.resched = f]
    BY <1>1 DEF Interrupted
  <1>4. k' \in States
    BY <1>1, <1>2, <1>3, ZenonT(30) DEF States
  <1>5. SameTasks(k, k') /\ SamePush(k, k') /\ SameLoad(k, k') /\ SameRest(k, k')
        /\ k'.stray = k.stray
    BY <1>1, <1>3 DEF States, SameTasks, SamePush, SameLoad, SameRest
  <1>6. Sound(k', Free(ctx))
    BY <1>1, <1>4, <1>5, FlagsSound
  <1>7. HotInv'
    <2>1. /\ hot \in [phase : {"prepare", "stop", "dying", "up"}, cpu : Cpus]
          /\ hot.cpu \in k.up /\ k.stops = {}
          /\ \A d \in Cpus : k.online[d] <=> d \in k.up
      BY <1>1 DEF SmpInv, HotInv, NoPlug
    <2>2. /\ hot' \in [phase : {"prepare", "stop", "dying", "up"}, cpu : Cpus]
          /\ hot'.phase = "stop" /\ hot'.cpu = hot.cpu
      BY <1>1, <2>1
    <2> QED BY <1>5, <2>1, <2>2 DEF HotInv, SameLoad, SameRest
  <1>8. \A d \in Cpus : d \notin k'.up => ctx[d].at = "none"
    BY <1>5 DEF SmpInv, CtxInv, SameRest
  <1> QED BY <1>1, <1>5, <1>6, <1>7, <1>8, PluggedInv DEF SameRest

\* Queue c goes online or offline, and the root domain hears of it.
Lined(s, o, p) == [s EXCEPT !.online = o, !.pri = p]

LEMMA LinedFields ==
    ASSUME NEW s \in States, NEW o \in [Cpus -> BOOLEAN], NEW p \in [Cpus -> 0 .. FairPrio],
           NEW r, r = Lined(s, o, p)
    PROVE  /\ r \in States /\ r.online = o /\ r.pri = p
           /\ SameTasks(s, r) /\ SamePush(s, r) /\ SameRest(s, r) /\ SameFlags(s, r)
           /\ r.mig = s.mig /\ r.over = s.over /\ r.rto = s.rto /\ r.rtoCount = s.rtoCount
  <1>1. r = [s EXCEPT !.online = o, !.pri = p]
    BY DEF Lined
  <1>2. r \in States
    BY DEF States, Lined
  <1>3. SameTasks(s, r) /\ SamePush(s, r) /\ SameRest(s, r) /\ SameFlags(s, r)
    BY <1>1 DEF States, SameTasks, SamePush, SameRest, SameFlags
  <1> QED BY <1>1, <1>2, <1>3 DEF States

Told(s, c, on) == IF s.over[c] THEN SetOverload(s, c, on) ELSE s

LEMMA LinedExact ==
    ASSUME NEW s, Exact(s), NEW c \in Cpus, NEW on \in BOOLEAN, s.online[c] <=> ~on,
           NEW p \in 0 .. FairPrio, on => p = Highest(s, c), ~on => p = 0,
           NEW o, o = [s.online EXCEPT ![c] = on], NEW q, q = [s.pri EXCEPT ![c] = p],
           NEW t, t = Told(s, c, on), NEW r, r = Lined(t, o, q)
    PROVE  /\ Exact(r) /\ r.online = o
           /\ SameTasks(s, r) /\ SamePush(s, r) /\ SameRest(s, r) /\ SameFlags(s, r)
  <1>1. /\ s \in States /\ Domain(s)
        /\ s.online \in [Cpus -> BOOLEAN] /\ s.pri \in [Cpus -> 0 .. FairPrio]
        /\ s.over \in [Cpus -> BOOLEAN]
    BY DEF Exact, States
  <1>2. o \in [Cpus -> BOOLEAN] /\ q \in [Cpus -> 0 .. FairPrio]
    BY <1>1
  <1>3. /\ t \in States
        /\ SameTasks(s, t) /\ SamePush(s, t) /\ SameRest(s, t) /\ SameFlags(s, t)
        /\ t.mig = s.mig /\ t.over = s.over /\ t.online = s.online /\ t.pri = s.pri
        /\ s.over[c] /\ on => t.rto = s.rto \cup {c} /\ t.rtoCount = s.rtoCount + 1
        /\ s.over[c] /\ ~on => t.rto = s.rto \ {c} /\ t.rtoCount = s.rtoCount - 1
        /\ ~s.over[c] => t.rto = s.rto /\ t.rtoCount = s.rtoCount
    <2>1. CASE s.over[c]
      <3>1. t = SetOverload(s, c, on)
        BY <2>1 DEF Told
      <3> QED BY <1>1, <2>1, <3>1, SetOverloadFields
    <2>2. CASE ~s.over[c]
      <3>1. t = s
        BY <2>2 DEF Told
      <3> QED BY <1>1, <2>2, <3>1 DEF SameTasks, SamePush, SameRest, SameFlags
    <2> QED BY <2>1, <2>2
  <1>4. /\ r \in States /\ r.online = o /\ r.pri = q
        /\ SameTasks(t, r) /\ SamePush(t, r) /\ SameRest(t, r) /\ SameFlags(t, r)
        /\ r.mig = t.mig /\ r.over = t.over /\ r.rto = t.rto /\ r.rtoCount = t.rtoCount
    BY <1>2, <1>3, LinedFields
  <1>5. /\ SameTasks(s, r) /\ SamePush(s, r) /\ SameRest(s, r) /\ SameFlags(s, r)
    BY <1>3, <1>4 DEF SameTasks, SamePush, SameRest, SameFlags
  <1>6. /\ r.online[c] = on /\ r.pri[c] = p
        /\ \A d \in Cpus \ {c} : r.online[d] = s.online[d] /\ r.pri[d] = s.pri[d]
    BY <1>1, <1>4
  <1>7. s.rto = {d \in Cpus : s.online[d] /\ s.over[d]} /\ s.rtoCount = Cardinality(s.rto)
    BY <1>1 DEF Domain
  <1>8. Domain(r)
    <2>1. CASE s.over[c]
      <3>1. c \in s.rto <=> ~on
        BY <1>7, <2>1
      <3>2. /\ r.rto = IF on THEN s.rto \cup {c} ELSE s.rto \ {c}
            /\ r.rtoCount = IF on THEN s.rtoCount + 1 ELSE s.rtoCount - 1
        BY <1>3, <1>4, <2>1
      <3>3. r.over = s.over
        BY <1>3, <1>4
      <3>4. \A d \in Cpus \ {c} : r.online[d] /\ r.over[d] <=> s.online[d] /\ s.over[d]
        BY <1>6, <3>3
      <3>5. r.online[c] /\ r.over[c] <=> on
        BY <1>6, <2>1, <3>3
      <3>6. s \in States /\ Domain(s) /\ r \in States /\ on \in BOOLEAN /\ c \in Cpus
        BY <1>1, <1>4
      <3> QED BY <3>1, <3>2, <3>4, <3>5, <3>6, DomainStep
    <2>2. CASE ~s.over[c]
      <3>1. r.rto = s.rto /\ r.rtoCount = s.rtoCount
        BY <1>3, <1>4, <2>2
      <3>2. r.rto = {d \in Cpus : r.online[d] /\ r.over[d]}
        BY <1>3, <1>4, <1>6, <1>7, <2>2, <3>1
      <3> QED BY <1>7, <3>1, <3>2 DEF Domain
    <2> QED BY <2>1, <2>2
  <1>9. ASSUME NEW d \in Cpus PROVE PushList(r, d, Pushable(r, d)) /\ Load(r, d)
    <2>1. /\ RtQueued(r, d) = RtQueued(s, d) /\ RtMovable(r, d) = RtMovable(s, d)
          /\ Pushable(r, d) = Pushable(s, d) /\ Highest(r, d) = Highest(s, d)
      BY <1>5, SameTasksSameQueues
    <2>2. PushList(s, d, Pushable(s, d)) /\ Load(s, d)
      BY DEF Exact
    <2>3. PushList(r, d, Pushable(r, d))
      BY <1>1, <1>4, <1>5, <2>1, <2>2, KeptList DEF SamePush, SameTasks
    <2>4. Load(r, d)
      BY <1>3, <1>4, <1>6, <2>1, <2>2 DEF Load
    <2> QED BY <2>3, <2>4
  <1> QED BY <1>4, <1>5, <1>8, <1>9 DEF Exact

LEMMA ToldSame ==
    ASSUME NEW s \in States, NEW c \in Cpus, NEW on \in BOOLEAN, NEW t, t = Told(s, c, on)
    PROVE  t \in States /\ t.online = s.online /\ t.pri = s.pri
  <1>1. t = SetOverload(s, c, on) \/ t = s
    BY DEF Told
  <1> QED BY <1>1, SetOverloadFields

LEMMA RqOfflineExact ==
    ASSUME NEW s, Exact(s), NEW c \in Cpus, s.online[c], NEW r, r = RqOffline(s, c)
    PROVE  /\ Exact(r) /\ r.online = [s.online EXCEPT ![c] = FALSE]
           /\ SameTasks(s, r) /\ SamePush(s, r) /\ SameRest(s, r) /\ SameFlags(s, r)
  <1> DEFINE t == Told(s, c, FALSE)
             o == [s.online EXCEPT ![c] = FALSE]
             q == [s.pri EXCEPT ![c] = 0]
             on == FALSE
             p == 0
  <1>1. s \in States /\ on \in BOOLEAN /\ p \in 0 .. FairPrio
    BY ThreadAssumption DEF Exact
  <1>2. t \in States /\ t.online = s.online /\ t.pri = s.pri
    BY <1>1, ToldSame
  <1>3. r = [t EXCEPT !.online[c] = FALSE, !.pri[c] = 0]
    BY DEF RqOffline, Told
  <1> HIDE DEF t
  <1>4. r = Lined(t, o, q)
    BY <1>2, <1>3 DEF Lined, States
  <1>5. t = Told(s, c, on) /\ o = [s.online EXCEPT ![c] = on] /\ q = [s.pri EXCEPT ![c] = p]
    BY DEF t
  <1>6. (s.online[c] <=> ~on) /\ (on => p = Highest(s, c)) /\ (~on => p = 0)
    OBVIOUS
  <1>7. o = [s.online EXCEPT ![c] = FALSE]
    OBVIOUS
  <1> HIDE DEF o, q, on, p
  <1>8. /\ Exact(r) /\ r.online = o
        /\ SameTasks(s, r) /\ SamePush(s, r) /\ SameRest(s, r) /\ SameFlags(s, r)
    BY <1>1, <1>4, <1>5, <1>6, LinedExact
  <1> QED BY <1>7, <1>8

LEMMA RqOnlineExact ==
    ASSUME NEW s, Exact(s), NEW c \in Cpus, ~s.online[c], NEW r, r = RqOnline(s, c)
    PROVE  /\ Exact(r) /\ r.online = [s.online EXCEPT ![c] = TRUE]
           /\ SameTasks(s, r) /\ SamePush(s, r) /\ SameRest(s, r) /\ SameFlags(s, r)
  <1> DEFINE p == Highest(s, c)
             t == Told(s, c, TRUE)
             o == [s.online EXCEPT ![c] = TRUE]
             q == [s.pri EXCEPT ![c] = p]
             on == TRUE
  <1>1. s \in States /\ on \in BOOLEAN /\ p \in 0 .. FairPrio
    <2>1. s \in States
      BY DEF Exact
    <2>2. p \in 1 .. FairPrio
      BY <2>1, HighestIs
    <2> HIDE DEF p
    <2> QED BY <2>1, <2>2, ThreadAssumption
  <1>2. t \in States /\ t.online = s.online /\ t.pri = s.pri
    BY <1>1, ToldSame
  <1>3. r = [t EXCEPT !.online[c] = TRUE, !.pri[c] = p]
    BY DEF RqOnline, Told
  <1>4. (s.online[c] <=> ~on) /\ (on => p = Highest(s, c)) /\ (~on => p = 0)
    OBVIOUS
  <1> HIDE DEF t, p
  <1>5. r = Lined(t, o, q)
    BY <1>2, <1>3 DEF Lined, States
  <1>6. t = Told(s, c, on) /\ o = [s.online EXCEPT ![c] = on] /\ q = [s.pri EXCEPT ![c] = p]
    BY DEF t
  <1>7. o = [s.online EXCEPT ![c] = TRUE]
    OBVIOUS
  <1> HIDE DEF o, q, on
  <1>8. /\ Exact(r) /\ r.online = o
        /\ SameTasks(s, r) /\ SamePush(s, r) /\ SameRest(s, r) /\ SameFlags(s, r)
    BY <1>1, <1>5, <1>6, <1>4, LinedExact
  <1> QED BY <1>7, <1>8

LEMMA DyingInv ==
    ASSUME SmpInv, Dying
    PROVE  SmpInv'
  <1> DEFINE c == hot.cpu
             r == RqOffline(k, c)
             u == r.up \ {c}
             a == r.active
  <1>1. /\ Sound(k, Free(ctx)) /\ k \in States /\ hot.phase = "stop"
        /\ \A d \in k.up : k.curr[d] = Stopper /\ ctx[d] = NoCtx
        /\ k' = [r EXCEPT !.up = @ \ {c}]
        /\ hot' = [hot EXCEPT !.phase = "dying"] /\ ctx' = ctx
    BY InvParts DEF Dying
  <1>2. /\ hot \in [phase : {"prepare", "stop", "dying", "up"}, cpu : Cpus]
        /\ c \in k.up /\ c \in Cpus /\ k.stops = {}
        /\ \A d \in Cpus : k.online[d] <=> d \in k.up
    BY <1>1 DEF SmpInv, HotInv, NoPlug
  <1>3. Exact(k)
    BY <1>1 DEF Sound
  <1>4. /\ Exact(r) /\ r.online = [k.online EXCEPT ![c] = FALSE]
        /\ SameTasks(k, r) /\ SamePush(k, r) /\ SameRest(k, r) /\ SameFlags(k, r)
    BY <1>2, <1>3, RqOfflineExact
  <1> HIDE DEF r, c
  <1>5. /\ r.st = k.st /\ r.wakeList = k.wakeList /\ r.up = k.up /\ r.active = k.active
        /\ r.stops = k.stops
    BY <1>4 DEF SameRest
  <1>6. k' = Plugged(r, u, a) /\ u \subseteq Cpus /\ a \subseteq Cpus
    <2>1. r \in States
      BY <1>4 DEF Exact
    <2> QED BY <1>1, <2>1 DEF Plugged, States
  <1>7. Sound(r, Free(ctx))
    <2>1. \A x \in r.stops : x[3] \in r.active
      BY <1>2, <1>5
    <2> QED BY <1>1, <1>4, <1>5, <2>1, SoundKept DEF SameTasks, SameFlags
  <1>8. u = k.up \ {c}
    BY <1>5
  <1> HIDE DEF u, a
  <1>9. /\ Sound(k', Free(ctx)) /\ k'.up = u /\ k'.st = r.st /\ k'.wakeList = r.wakeList
        /\ k'.stops = r.stops /\ k'.online = r.online /\ k'.curr = r.curr
    BY <1>2, <1>5, <1>6, <1>7, PluggedSound
  <1>10. \A d \in Cpus : ctx[d].at = "none"
    BY <1>1 DEF SmpInv, CtxInv, NoCtx
  <1>11. HotInv'
    <2>1. /\ hot' \in [phase : {"prepare", "stop", "dying", "up"}, cpu : Cpus]
          /\ hot'.phase = "dying" /\ hot'.cpu = c
      BY <1>1, <1>2 DEF c
    <2>2. k'.curr[c] = Stopper /\ k'.stops = {}
      BY <1>1, <1>2, <1>4, <1>5, <1>9 DEF SameTasks
    <2>3. \A d \in Cpus : k'.online[d] <=> d \in k'.up
      <3>1. k.online \in [Cpus -> BOOLEAN]
        BY <1>1 DEF States
      <3> QED BY <1>2, <1>4, <1>8, <1>9, <3>1
    <2> QED BY <1>1, <1>10, <2>1, <2>2, <2>3 DEF HotInv
  <1> QED BY <1>1, <1>5, <1>9, <1>10, <1>11, PluggedInv

LEMMA OnlineInv ==
    ASSUME SmpInv, Online
    PROVE  SmpInv'
  <1> DEFINE c == hot.cpu
  <1>1. /\ Sound(k, Free(ctx)) /\ k \in States /\ hot.phase = "up"
        /\ k' = RqOnline(k, c) /\ hot' = NoPlug /\ ctx' = ctx
    BY InvParts DEF Online
  <1>2. /\ c \in k.up /\ c \in Cpus
        /\ \A d \in Cpus : k.online[d] <=> d \in k.up /\ d # c
    BY <1>1 DEF SmpInv, HotInv, NoPlug
  <1> HIDE DEF c
  <1>3. Exact(k) /\ Placed(k)
    BY <1>1 DEF Sound
  <1>4. /\ Exact(k') /\ k'.online = [k.online EXCEPT ![c] = TRUE]
        /\ SameTasks(k, k') /\ SamePush(k, k') /\ SameRest(k, k') /\ SameFlags(k, k')
    BY <1>1, <1>2, <1>3, RqOnlineExact
  <1>5. /\ k'.st = k.st /\ k'.wakeList = k.wakeList /\ k'.up = k.up /\ k'.active = k.active
        /\ k'.stops = k.stops
    BY <1>4 DEF SameRest
  <1>6. Sound(k', Free(ctx))
    <2>1. \A x \in k'.stops : x[3] \in k'.active
      BY <1>3, <1>5 DEF Placed
    <2> QED BY <1>1, <1>4, <1>5, <2>1, SoundKept DEF SameTasks, SameFlags
  <1>7. HotInv'
    <2>1. \A d \in Cpus : k'.online[d] <=> d \in k'.up
      <3>1. k.online \in [Cpus -> BOOLEAN]
        BY <1>1 DEF States
      <3> QED BY <1>2, <1>4, <1>5, <3>1
    <2> QED BY <1>1, <2>1 DEF HotInv, NoPlug
  <1>8. \A d \in Cpus : d \notin k'.up => ctx[d].at = "none"
    BY <1>5 DEF SmpInv, CtxInv
  <1> QED BY <1>1, <1>5, <1>6, <1>7, <1>8, PluggedInv

\* The processor that has died runs nothing.
Stopped(s, u, f, p) == [s EXCEPT !.curr = u, !.resched = f, !.post = p]

LEMMA StoppedFields ==
    ASSUME NEW s \in States, NEW u \in [Cpus -> Threads \cup {Idle, Stopper}],
           NEW f \in [Cpus -> BOOLEAN], NEW p \in [Cpus -> BOOLEAN], NEW r, r = Stopped(s, u, f, p)
    PROVE  /\ r \in States /\ r.curr = u
           /\ r.home = s.home /\ r.onRq = s.onRq /\ r.prio = s.prio /\ r.mask = s.mask
           /\ SamePush(s, r) /\ SameLoad(s, r) /\ SameRest(s, r) /\ r.stray = s.stray
  <1>1. r \in States
    BY DEF States, Stopped
  <1>2. SamePush(s, r) /\ SameLoad(s, r) /\ SameRest(s, r)
    BY DEF States, Stopped, SamePush, SameLoad, SameRest
  <1>3. /\ r.curr = u
        /\ r.home = s.home /\ r.onRq = s.onRq /\ r.prio = s.prio /\ r.mask = s.mask
        /\ r.stray = s.stray
    BY DEF States, Stopped
  <1> QED BY <1>1, <1>2, <1>3

LEMMA DeadInv ==
    ASSUME SmpInv, Dead
    PROVE  SmpInv'
  <1> DEFINE c == hot.cpu
             u == [k.curr EXCEPT ![c] = Idle]
             f == [k.resched EXCEPT ![c] = FALSE]
             p == [k.post EXCEPT ![c] = FALSE]
  <1>1. /\ Sound(k, Free(ctx)) /\ k \in States /\ hot.phase = "dying"
        /\ k' = [k EXCEPT !.curr[c] = Idle, !.resched[c] = FALSE, !.post[c] = FALSE]
        /\ hot' = NoPlug /\ ctx' = ctx
    BY InvParts DEF Dead
  <1>2. /\ c \in Cpus /\ k.curr[c] = Stopper
        /\ \A d \in Cpus : ctx[d].at = "none"
        /\ \A d \in Cpus : k.online[d] <=> d \in k.up
    BY <1>1 DEF SmpInv, HotInv, NoPlug
  <1> HIDE DEF c
  <1>3. Exact(k) /\ Placed(k) /\ k.curr \in [Cpus -> Threads \cup {Idle, Stopper}]
        /\ k.resched \in [Cpus -> BOOLEAN] /\ k.post \in [Cpus -> BOOLEAN]
    BY <1>1 DEF Sound, States
  <1>4. /\ u \in [Cpus -> Threads \cup {Idle, Stopper}]
        /\ f \in [Cpus -> BOOLEAN] /\ p \in [Cpus -> BOOLEAN]
    BY <1>3
  <1>5. k' = Stopped(k, u, f, p)
    BY <1>1 DEF Stopped, States
  <1>6. u[c] = Idle /\ \A d \in Cpus \ {c} : u[d] = k.curr[d]
    BY <1>2, <1>3
  <1> HIDE DEF u, f, p
  <1>7. /\ k' \in States /\ k'.curr = u
        /\ k'.home = k.home /\ k'.onRq = k.onRq /\ k'.prio = k.prio /\ k'.mask = k.mask
        /\ SamePush(k, k') /\ SameLoad(k, k') /\ SameRest(k, k') /\ k'.stray = k.stray
    <2>1. k \in States
      BY <1>1
    <2> QED BY <1>4, <1>5, <2>1, StoppedFields
  <1>8. /\ k'.st = k.st /\ k'.wakeList = k.wakeList /\ k'.up = k.up /\ k'.active = k.active
        /\ k'.stops = k.stops /\ k'.online = k.online
    BY <1>7 DEF SameRest, SameLoad
  <1>9. Exact(k')
    <2>1. ASSUME NEW d \in Cpus
          PROVE  /\ RtQueued(k', d) = RtQueued(k, d) /\ RtMovable(k', d) = RtMovable(k, d)
                 /\ Pushable(k', d) = Pushable(k, d)
                 /\ \A t \in RtQueued(k, d) : k'.prio[t] = k.prio[t]
      <3>1. RtQueued(k', d) = RtQueued(k, d)
        BY <1>7 DEF RtQueued, Queued
      <3>2. RtMovable(k', d) = RtMovable(k, d)
        BY <1>7, <3>1 DEF RtMovable, Movable
      <3>3. \A t \in Threads : k'.curr[d] = t <=> k.curr[d] = t
        BY <1>2, <1>6, <1>7, ThreadAssumption
      <3>4. RtMovable(k, d) \subseteq Threads
        BY DEF RtMovable, RtQueued, Queued
      <3>5. Pushable(k', d) = Pushable(k, d)
        BY <3>2, <3>3, <3>4 DEF Pushable
      <3> QED BY <1>7, <3>1, <3>2, <3>5
    <2> QED BY <1>3, <1>7, <2>1, QueuesKept
  <1>10. Sound(k', Free(ctx))
    <2>1. \A d \in Cpus : k'.curr[d] \in Threads => k'.curr[d] = k.curr[d]
      BY <1>6, <1>7, ThreadAssumption
    <2>2. \A x \in k'.stops : x[3] \in k'.active
      BY <1>3, <1>8 DEF Placed
    <2> QED BY <1>1, <1>7, <1>8, <1>9, <2>1, <2>2, SoundKept
  <1>11. HotInv'
    BY <1>1, <1>2, <1>8 DEF HotInv, NoPlug
  <1> QED BY <1>1, <1>2, <1>8, <1>10, <1>11, PluggedInv

\* One turn of migrate_tasks: the task, off the list and back on it, goes away.
LEMMA PutBackSound ==
    ASSUME NEW s, NEW F, Sound(s, F), NEW c \in Cpus, s.curr[c] = Stopper,
           NEW t \in Queued(s, c),
           NEW off, off = IF s.prio[t] < FairPrio THEN PushOff(s, c, t) ELSE s,
           NEW r, r = IF s.prio[t] < FairPrio /\ Movable(s, t) THEN PushOn(off, c, t) ELSE off
    PROVE  Sound(r, F) /\ Frame(s, r) /\ SameTasks(s, r)
  <1>1. /\ Exact(s) /\ s \in States /\ Domain(s) /\ t \in Threads
        /\ \A d \in Cpus : PushList(s, d, Pushable(s, d)) /\ Load(s, d)
    BY DEF Sound, Exact, Queued
  <1>2. t \in Pushable(s, c) <=> s.prio[t] < FairPrio /\ Movable(s, t)
    BY <1>1, ThreadAssumption DEF Pushable, RtMovable, RtQueued
  <1>3. CASE s.prio[t] < FairPrio /\ Movable(s, t)
    <2>1. off = PushOff(s, c, t) /\ r = PushOn(off, c, t) /\ t \in Pushable(s, c)
      BY <1>2, <1>3
    <2>2. /\ off \in States
          /\ SameTasks(s, off) /\ SameLoad(s, off) /\ SameRest(s, off) /\ SameFlags(s, off)
          /\ PushList(off, c, Pushable(s, c) \ {t}) /\ SameElsewhere(s, off, c)
      BY <1>1, <2>1, PushOffList
    <2>3. /\ r \in States
          /\ SameTasks(off, r) /\ SameLoad(off, r) /\ SameRest(off, r) /\ SameFlags(off, r)
          /\ PushList(r, c, (Pushable(s, c) \ {t}) \cup {t}) /\ SameElsewhere(off, r, c)
      BY <1>1, <2>1, <2>2, PushOnList
    <2>4. (Pushable(s, c) \ {t}) \cup {t} = Pushable(s, c)
      BY <2>1
    <2>5. /\ SameTasks(s, r) /\ SameLoad(s, r) /\ SameRest(s, r) /\ SameFlags(s, r)
          /\ SameElsewhere(s, r, c) /\ PushList(r, c, Pushable(s, c))
      <3>1. SameTasks(s, r)
        BY <2>2, <2>3 DEF SameTasks
      <3>2. SameLoad(s, r) /\ SameRest(s, r) /\ SameFlags(s, r)
        BY <2>2, <2>3 DEF SameLoad, SameRest, SameFlags
      <3>3. SameElsewhere(s, r, c)
        BY <2>2, <2>3 DEF SameElsewhere
      <3>4. PushList(r, c, Pushable(s, c))
        BY <2>3, <2>4
      <3> QED BY <3>1, <3>2, <3>3, <3>4
    <2>6. Exact(r)
      BY <1>1, <2>3, <2>5, ListDone
    <2>7. Sound(r, F)
      <3>1. \A x \in r.stops : x[3] \in r.active
        BY <2>5 DEF Sound, Placed, SameRest
      <3> QED BY <2>5, <2>6, <3>1, SoundKept DEF SameTasks, SameRest, SameFlags
    <2> QED BY <2>5, <2>7 DEF Frame, SameLoad
  <1>4. CASE s.prio[t] < FairPrio /\ ~Movable(s, t)
    <2>1. r = PushOff(s, c, t) /\ t \notin Pushable(s, c)
      BY <1>2, <1>4
    <2>2. /\ Exact(r)
          /\ SameTasks(s, r) /\ SameLoad(s, r) /\ SameRest(s, r) /\ SameFlags(s, r)
      BY <1>1, <2>1, PushOffExact
    <2>3. Sound(r, F)
      <3>1. \A x \in r.stops : x[3] \in r.active
        BY <2>2 DEF Sound, Placed, SameRest
      <3> QED BY <2>2, <3>1, SoundKept DEF SameTasks, SameRest, SameFlags
    <2> QED BY <2>2, <2>3 DEF Frame, SameLoad
  <1>5. CASE ~(s.prio[t] < FairPrio)
    BY <1>5, SameFrame DEF SameTasks
  <1> QED BY <1>3, <1>4, <1>5

LEMMA MigrateTaskInv ==
    ASSUME SmpInv, MigrateTask
    PROVE  SmpInv'
  <1> DEFINE c == hot.cpu
             F == Free(ctx)
  <1>1. /\ Sound(k, F) /\ k \in States /\ hot.phase = "dying"
        /\ hot' = hot /\ ctx' = ctx
    BY InvParts DEF MigrateTask, Stays
  <1>2. c \in Cpus /\ k.curr[c] = Stopper
    BY <1>1 DEF SmpInv, HotInv, NoPlug
  <1>3. PICK t \in Queued(k, c) :
          LET rt == k.prio[t] < FairPrio
              off == IF rt THEN PushOff(k, c, t) ELSE k
              put == IF rt /\ Movable(k, t) THEN PushOn(off, c, t) ELSE off
          IN \E f \in Fallback(put, t) : k' \in CheckPreempt(Move(f.s, t, f.cpu), f.cpu, t)
    BY DEF MigrateTask
  <1> DEFINE off == IF k.prio[t] < FairPrio THEN PushOff(k, c, t) ELSE k
             put == IF k.prio[t] < FairPrio /\ Movable(k, t) THEN PushOn(off, c, t) ELSE off
  <1>4. PICK f \in Fallback(put, t) : k' \in CheckPreempt(Move(f.s, t, f.cpu), f.cpu, t)
    BY <1>3
  <1> HIDE DEF c, F
  <1>5. Sound(put, F) /\ Frame(k, put) /\ SameTasks(k, put)
    <2>1. /\ off = IF k.prio[t] < FairPrio THEN PushOff(k, c, t) ELSE k
          /\ put = IF k.prio[t] < FairPrio /\ Movable(k, t) THEN PushOn(off, c, t) ELSE off
      OBVIOUS
    <2> HIDE DEF off, put
    <2> QED BY <1>1, <1>2, <2>1, PutBackSound
  <1> HIDE DEF off, put
  <1>6. t \in Threads /\ k.onRq[t] /\ k.home[t] = c
    BY DEF Queued
  <1>7. /\ Sound(f.s, F) /\ Frame(put, f.s) /\ SameButMask(put, f.s)
        /\ f.cpu \in f.s.mask[t]
    BY <1>4, <1>5, <1>6, FallbackSound
  <1>8. f.s.onRq[t] /\ f.s.curr = k.curr /\ f.s.home = k.home
    BY <1>5, <1>6, <1>7 DEF SameButMask, SameTasks
  <1>9. ~OnCpu(f.s, t)
    <2>1. \A d \in Cpus : k.curr[d] = t => d = c
      BY <1>1, <1>6 DEF Sound, OnOwn
    <2>2. k.curr[c] # t
      BY <1>2, <1>6, ThreadAssumption
    <2> QED BY <1>8, <2>1, <2>2 DEF OnCpu
  <1> DEFINE s == f.s
             d == f.cpu
             m == Move(s, t, d)
  <1>10. s.mask \in [Threads -> SUBSET Cpus] /\ d \in Cpus
    <2>1. s.mask \in [Threads -> SUBSET Cpus]
      BY <1>7 DEF Sound, Exact, States
    <2> QED BY <1>6, <1>7, <2>1
  <1>11. /\ Sound(m, F) /\ Frame(s, m) /\ m.curr = s.curr
    <2>1. /\ Sound(s, F) /\ t \in Threads /\ s.onRq[t] /\ ~OnCpu(s, t) /\ d \in s.mask[t]
          /\ m = Move(s, t, d)
      BY <1>6, <1>7, <1>8, <1>9
    <2> HIDE DEF s, d, m
    <2> QED BY <2>1, MoveSound
  <1>12. k' \in CheckPreempt(m, d, t)
    BY <1>4
  <1>13. s.curr = k.curr /\ Frame(put, s)
    BY <1>7, <1>8
  <1> HIDE DEF s, d, m
  <1>14. Sound(k', F) /\ Frame(m, k') /\ SameTasks(m, k')
    BY <1>10, <1>11, <1>12, CheckPreemptSound
  <1>15. Frame(k, k')
    BY <1>5, <1>11, <1>13, <1>14 DEF Frame, SameRest
  <1>16. k'.curr = k.curr
    BY <1>11, <1>13, <1>14 DEF SameTasks
  <1> QED BY <1>1, <1>14, <1>15, <1>16, StayedInv DEF F

-----------------------------------------------------------------------------
(* The invariant *)

LEMMA MostOf ==
    ASSUME NEW S, S \in (SUBSET (1 .. FairPrio)) \ {{}}
    PROVE  Max(S) \in S /\ \A p \in S : Max(S) >= p
  <1> DEFINE D == {FairPrio - p : p \in S}
  <1>1. FairPrio \in Nat /\ S \subseteq 1 .. FairPrio /\ S # {}
    BY ThreadAssumption
  <1>2. D \in SUBSET Nat /\ D # {}
    <2>1. \A p \in S : FairPrio - p \in Nat
      BY <1>1
    <2> QED BY <1>1, <2>1
  <1>3. PICK x \in D : \A y \in D : x <= y
    <2> HIDE DEF D
    <2> QED BY <1>2, LeastElement
  <1>4. PICK p \in S : x = FairPrio - p
    OBVIOUS
  <1>5. \A q \in S : p >= q
    <2>1. \A q \in S : FairPrio - p <= FairPrio - q
      BY <1>3, <1>4
    <2> QED BY <1>1, <2>1
  <1>6. \E e \in S : \A q \in S : e >= q
    BY <1>5
  <1> QED BY <1>6 DEF Max

LEMMA FirstCpu == Min(Cpus) \in Cpus
  <1>1. Cpus \subseteq Nat /\ Cpus # {}
    BY CpuAssumption
  <1>2. Cpus \in SUBSET Nat
    BY <1>1
  <1>3. \E x \in Cpus : \A y \in Cpus : x <= y
    BY <1>1, <1>2, LeastElement
  <1> QED BY <1>3 DEF Min

LEMMA EmptyList == IsInjective(<<>>) /\ Range(<<>>) = {}
  <1>1. DOMAIN <<>> = {}
    OBVIOUS
  <1> QED BY <1>1 DEF IsInjective, Range

LEMMA InitInv ==
    ASSUME BalanceInit
    PROVE  SmpInv
  <1> DEFINE home == [t \in Threads |-> Min(Cpus)]
             off == [t \in Threads |-> FALSE]
             st == [t \in Threads |-> "sleep"]
             prio == [t \in Threads |-> Max(MayPrio[t])]
             mask == [t \in Threads |-> Cpus]
             curr == [c \in Cpus |-> Idle]
             no == [c \in Cpus |-> FALSE]
             empty == [c \in Cpus |-> <<>>]
             fair == [c \in Cpus |-> FairPrio]
             zero == [c \in Cpus |-> 0]
             yes == [c \in Cpus |-> TRUE]
  <1>1. /\ home \in [Threads -> Cpus] /\ off \in [Threads -> BOOLEAN]
        /\ st \in [Threads -> {"sleep", "waking", "run"}]
        /\ mask \in [Threads -> SUBSET Cpus]
    BY FirstCpu
  <1>2. prio \in [Threads -> 1 .. FairPrio]
    <2> SUFFICES ASSUME NEW t \in Threads PROVE Max(MayPrio[t]) \in 1 .. FairPrio
      OBVIOUS
    <2>1. MayPrio[t] \in (SUBSET (1 .. FairPrio)) \ {{}}
      BY ThreadAssumption
    <2> QED BY <2>1, MostOf
  <1>3. /\ curr \in [Cpus -> Threads \cup {Idle, Stopper}] /\ no \in [Cpus -> BOOLEAN]
        /\ empty \in [Cpus -> Seq(Threads)] /\ fair \in [Cpus -> 1 .. FairPrio]
        /\ fair \in [Cpus -> 0 .. FairPrio] /\ zero \in [Cpus -> Int]
        /\ yes \in [Cpus -> BOOLEAN]
    BY ThreadAssumption
  <1>4. /\ k = [home |-> home, onRq |-> off, st |-> st, prio |-> prio, mask |-> mask,
                curr |-> curr, resched |-> no, post |-> no, push |-> empty, next |-> fair,
                mig |-> zero, over |-> no, online |-> yes, pri |-> fair, wakeList |-> empty,
                rto |-> {}, rtoCount |-> 0, up |-> Cpus, active |-> Cpus, stops |-> {},
                stray |-> {}]
        /\ ctx = [c \in Cpus |-> NoCtx] /\ hot = NoPlug
    BY DEF BalanceInit
  <1>5. /\ \A t \in Threads : ~off[t] /\ st[t] = "sleep"
        /\ \A c \in Cpus : /\ curr[c] = Idle /\ ~no[c] /\ empty[c] = <<>>
                            /\ fair[c] = FairPrio /\ zero[c] = 0 /\ yes[c]
    OBVIOUS
  <1> HIDE DEF home, off, st, prio, mask, curr, no, empty, fair, zero, yes
  <1>6. k \in States
    BY <1>1, <1>2, <1>3, <1>4 DEF States
  <1>7. /\ k.onRq = off /\ k.st = st /\ k.curr = curr
        /\ k.push = empty /\ k.next = fair /\ k.mig = zero /\ k.over = no /\ k.online = yes
        /\ k.pri = fair /\ k.wakeList = empty /\ k.rto = {} /\ k.rtoCount = 0
        /\ k.up = Cpus /\ k.stops = {}
    BY <1>4
  <1>8. ASSUME NEW c \in Cpus PROVE PushList(k, c, Pushable(k, c)) /\ Load(k, c)
    <2>1. RtQueued(k, c) = {}
      BY <1>5, <1>7 DEF RtQueued, Queued
    <2>2. RtMovable(k, c) = {} /\ Pushable(k, c) = {}
      BY <2>1 DEF RtMovable, Pushable
    <2>3. Highest(k, c) = FairPrio
      <3>1. Highest(k, c) = Min({FairPrio})
        <4>1. {k.prio[t] : t \in RtQueued(k, c)} \cup {FairPrio} = {FairPrio}
          BY <2>1
        <4> QED BY <4>1 DEF Highest
      <3>2. \E x \in {FairPrio} : \A y \in {FairPrio} : x <= y
        BY ThreadAssumption
      <3> QED BY <3>1, <3>2 DEF Min
    <2>4. Load(k, c)
      <3>1. Cardinality(RtMovable(k, c)) = 0 /\ Cardinality(RtQueued(k, c)) = 0
        BY <2>1, <2>2, FS_EmptySet
      <3>2. /\ k.mig[c] = 0 /\ ~k.over[c] /\ k.over[c] \in BOOLEAN /\ k.pri[c] = FairPrio
            /\ k.online[c]
        BY <1>5, <1>6, <1>7 DEF States
      <3>3. k.over[c] = (k.mig[c] > 0 /\ Cardinality(RtQueued(k, c)) > 1)
        BY <3>2
      <3> QED BY <2>3, <3>1, <3>2, <3>3 DEF Load
    <2>5. PushList(k, c, {})
      <3>1. Sorted(<<>>, k.prio)
        BY DEF Sorted
      <3> QED BY <1>5, <1>7, <3>1, EmptyList DEF PushList
    <2> QED BY <2>2, <2>4, <2>5
  <1>9. Domain(k)
    <2>1. {c \in Cpus : k.online[c] /\ k.over[c]} = {}
      BY <1>5, <1>7
    <2> QED BY <1>7, <2>1, FS_EmptySet DEF Domain
  <1>10. Sound(k, Free(ctx))
    <2>1. OnOwn(k, Free(ctx))
      BY <1>5, <1>7, ThreadAssumption DEF OnOwn
    <2>2. Awake(k) /\ Placed(k)
      BY <1>5, <1>7 DEF Awake, Placed
    <2> QED BY <1>6, <1>8, <1>9, <2>1, <2>2 DEF Sound, Exact
  <1>11. CtxInv
    BY <1>4, <1>7, NoCtxIs DEF CtxInv
  <1>12. WakeOk(k.st, k.wakeList, ctx)
    <2>1. \A c \in Cpus : ctx[c].at # "wake"
      BY <1>4, NoCtxIs
    <2>2. \A c \in Cpus : k.wakeList[c] = <<>>
      BY <1>5, <1>7
    <2> QED BY <2>1, <2>2, EmptyList DEF WakeOk
  <1>13. HotInv
    BY <1>4, <1>5, <1>7 DEF HotInv, NoPlug
  <1> QED BY <1>10, <1>11, <1>12, <1>13 DEF SmpInv

\* Every step of a processor, of the stop machine or of hotplug keeps it.
LEMMA StepInv ==
    ASSUME SmpInv, BalanceNext
    PROVE  SmpInv'
  <1>1. CASE \E c \in Cpus :
               \/ PreemptCurr(c) \/ SleepCurr(c) \/ PostSchedule(c) \/ PushGoes(c) \/ PullGoes(c)
               \/ WakeLocked(c) \/ TtwuPending(c) \/ Migrate(c) \/ StopperSleeps(c)
               \/ DownPrepare(c) \/ Starting(c)
    BY <1>1, PreemptCurrInv, SleepCurrInv, PostScheduleInv, PushGoesInv, PullGoesInv,
       WakeLockedInv, TtwuPendingInv, MigrateInv, StopperSleepsInv, DownPrepareInv, StartingInv
  <1>2. CASE \E c \in Cpus : \E t \in Threads : WakeUp(c, t)
    BY <1>2, WakeUpInv
  <1>3. CASE \E c \in Cpus : \E t \in Threads : \E m \in MayMask[t] : SetAffinity(c, t, m)
    BY <1>3, SetAffinityInv
  <1>4. CASE \E c \in Cpus : \E t \in Threads : \E p \in MayPrio[t] : SetPrio(c, t, p)
    BY <1>4, SetPrioInv
  <1>5. CASE StopMachine
    BY <1>5, StopMachineInv
  <1>6. CASE Dying
    BY <1>6, DyingInv
  <1>7. CASE MigrateTask
    BY <1>7, MigrateTaskInv
  <1>8. CASE Dead
    BY <1>8, DeadInv
  <1>9. CASE Online
    BY <1>9, OnlineInv
  <1> QED BY <1>1, <1>2, <1>3, <1>4, <1>5, <1>6, <1>7, <1>8, <1>9 DEF BalanceNext

LEMMA StutterInv ==
    ASSUME SmpInv, UNCHANGED smpVars
    PROVE  SmpInv'
  <1>1. k' = k /\ ctx' = ctx /\ hot' = hot
    BY DEF smpVars
  <1>2. Sound(k, Free(ctx))' /\ WakeOk(k.st, k.wakeList, ctx)'
    BY <1>1 DEF SmpInv
  <1>3. CtxInv' /\ HotInv'
    BY <1>1 DEF SmpInv, CtxInv, HotInv
  <1> QED BY <1>2, <1>3 DEF SmpInv

-----------------------------------------------------------------------------
(* What the invariant says *)

LEMMA OnOneCpu == SmpInv => OneCpu
  BY DEF SmpInv, Sound, OnOwn, OneCpu

LEMMA IsPlaced == SmpInv => OnAllowedCpu
  <1> SUFFICES ASSUME SmpInv, NEW t \in Threads, k.onRq[t], k.home[t] \notin k.mask[t],
                      t \notin k.stray
               PROVE  \E x \in k.stops : x[1] = t /\ x[2] = k.home[t]
    BY DEF OnAllowedCpu
  <1> QED BY DEF SmpInv, Sound, Placed

LEMMA IsPushable == SmpInv => PushableExact
  <1> SUFFICES ASSUME SmpInv, NEW c \in Cpus
               PROVE  LET s == k.push[c] IN
                      /\ ToSet(s) = {t \in RtQueued(k, c) : Movable(k, t) /\ k.curr[c] # t}
                      /\ \A i, j \in DOMAIN s :
                            i < j => s[i] # s[j] /\ k.prio[s[i]] <= k.prio[s[j]]
                      /\ k.next[c] = IF s = <<>> THEN FairPrio ELSE k.prio[s[1]]
    BY DEF PushableExact
  <1> DEFINE s == k.push[c]
  <1>1. /\ PushList(k, c, Pushable(k, c)) /\ s \in Seq(Threads)
    BY DEF SmpInv, Sound, Exact, States
  <1>2. /\ IsInjective(s) /\ Range(s) = Pushable(k, c) /\ Sorted(s, k.prio)
        /\ k.next[c] = IF s = <<>> THEN FairPrio ELSE k.prio[s[1]]
    BY <1>1 DEF PushList
  <1> HIDE DEF s
  <1>3. ToSet(s) = {t \in RtQueued(k, c) : Movable(k, t) /\ k.curr[c] # t}
    <2>1. ToSet(s) = Range(s)
      BY DEF ToSet, Range
    <2>2. Pushable(k, c) = {t \in RtQueued(k, c) : Movable(k, t) /\ k.curr[c] # t}
      BY DEF Pushable, RtMovable
    <2> QED BY <1>2, <2>1, <2>2
  <1>4. ASSUME NEW i \in DOMAIN s, NEW j \in DOMAIN s, i < j
        PROVE  s[i] # s[j] /\ k.prio[s[i]] <= k.prio[s[j]]
    <2>1. DOMAIN s = 1 .. Len(s) /\ Len(s) \in Nat
      BY <1>1, LenProperties
    <2>2. \A x, y \in 1 .. Len(s) : s[x] = s[y] => x = y
      BY <1>1, <1>2, RangeProperties
    <2>3. i # j
      BY <1>4, <2>1
    <2>4. s[i] # s[j]
      BY <2>1, <2>2, <2>3
    <2>5. k.prio[s[i]] <= k.prio[s[j]]
      BY <1>2, <1>4, <2>1 DEF Sorted
    <2> QED BY <2>4, <2>5
  <1> QED BY <1>2, <1>3, <1>4 DEF s

LEMMA IsInDomain == SmpInv => DomainExact
  <1> SUFFICES ASSUME SmpInv PROVE DomainExact
    OBVIOUS
  <1> DEFINE full == {c \in Cpus : /\ Cardinality(RtQueued(k, c)) > 1
                                  /\ \E t \in RtQueued(k, c) : Movable(k, t)}
             on == {c \in Cpus : k.online[c]}
  <1>1. Domain(k) /\ \A c \in Cpus : Load(k, c)
    BY DEF SmpInv, Sound, Exact
  <1>2. \A c \in Cpus : RtMovable(k, c) = {t \in RtQueued(k, c) : Movable(k, t)}
    BY DEF RtMovable
  <1>3. \A c \in Cpus : k.mig[c] = Cardinality({t \in RtQueued(k, c) : Movable(k, t)})
    BY <1>1, <1>2 DEF Load
  <1>4. \A c \in on : k.pri[c] = Highest(k, c)
    BY <1>1 DEF Load
  <1>5. ASSUME NEW c \in Cpus PROVE k.over[c] <=> c \in full
    <2>1. /\ IsFiniteSet(RtMovable(k, c)) /\ Cardinality(RtMovable(k, c)) \in Nat
      BY FiniteQueues
    <2>2. Cardinality(RtMovable(k, c)) = 0 <=> RtMovable(k, c) = {}
      BY <2>1, FS_EmptySet
    <2>3. k.mig[c] > 0 <=> \E t \in RtQueued(k, c) : Movable(k, t)
      BY <1>1, <1>2, <2>1, <2>2 DEF Load
    <2>4. k.over[c] = (k.mig[c] > 0 /\ Cardinality(RtQueued(k, c)) > 1)
      BY <1>1 DEF Load
    <2> QED BY <2>3, <2>4
  <1>6. k.rto = full \cap on
    <2>1. k.rto = {c \in Cpus : k.online[c] /\ k.over[c]}
      BY <1>1 DEF Domain
    <2>2. \A c \in Cpus : c \in k.rto <=> c \in full \cap on
      BY <1>5, <2>1
    <2>3. k.rto \subseteq Cpus /\ full \cap on \subseteq Cpus
      BY <2>1
    <2> HIDE DEF full, on
    <2> QED BY <2>2, <2>3
  <1>7. k.rtoCount = Cardinality(k.rto)
    BY <1>1 DEF Domain
  <1> QED BY <1>3, <1>4, <1>6, <1>7 DEF DomainExact

\* The queues, the lists and the root domain are in order, processors run what is
\* theirs, tasks that are woken are on one list, and processors that go or come
\* are where the code of hotplug takes them to be: what every step of schedule,
\* push, pull, wake-up, affinity, priority, the stop task and hotplug keeps.
THEOREM SmpInvariant == BalanceSpec => []SmpInv
  <1>1. BalanceInit => SmpInv
    BY InitInv
  <1>2. SmpInv /\ [BalanceNext]_smpVars => SmpInv'
    BY StepInv, StutterInv
  <1> QED BY <1>1, <1>2, PTL DEF BalanceSpec

\* A task runs on the processor whose queue it is in, and on no other: the pushes
\* and pulls of rt.c, which choose before they lock, the wake-ups and the stop
\* tasks never move a task that runs.
THEOREM OneCpuTheorem == BalanceSpec => []OneCpu
  BY SmpInvariant, OnOneCpu, PTL

\* A queued task is on a processor of its affinity, or the stop task of the one it
\* is on has been asked to move it: set_cpus_allowed_ptr, the pushes, the pulls and
\* the fallback of an unplugged processor leave no other behind.
THEOREM OnAllowedCpuTheorem == BalanceSpec => []OnAllowedCpu
  BY SmpInvariant, IsPlaced, PTL

\* The list of pushable tasks of each queue holds exactly those that wait and may
\* run elsewhere, in the order of their priorities, with the right cached first
\* one, through every way a task comes, goes and changes.
THEOREM PushableExactTheorem == BalanceSpec => []PushableExact
  BY SmpInvariant, IsPushable, PTL

\* The root domain's mask of overloaded queues, their number, the priorities in
\* cpupri and the counts of the tasks that can migrate agree with the queues, also
\* where queues go offline and come back.
THEOREM DomainExactTheorem == BalanceSpec => []DomainExact
  BY SmpInvariant, IsInDomain, PTL
=============================================================================
