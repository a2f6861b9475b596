-------------------------- MODULE RtThrottleProofs --------------------------
(***************************************************************************)
(* Theorems about RtThrottle, for any tree of groups: the lists of the      *)
(* hierarchy agree with each other, a throttled group will get run time     *)
(* again, and a task below one does not run on.                             *)
(***************************************************************************)
EXTENDS RtThrottle, RunListProofs

-----------------------------------------------------------------------------
(* Types, and the tree *)

Rqs ==
    [q : [Groups -> [Levels -> Seq(Entities)]], bits : [Groups -> SUBSET Levels],
     nr : [Groups -> Int], hi : [Groups -> Levels], nb : [Groups -> Int],
     time : [Groups -> 0 .. MaxTime], thr : [Groups -> BOOLEAN], timer : [Groups -> BOOLEAN]]
TaskFields == [Tasks -> [normal : Levels, pi : Levels, group : Groups]]

LEMMA Statics ==
    /\ Root \in Groups /\ Root \notin Entities /\ Groups \cap Tasks = {}
    /\ IsFiniteSet(Groups) /\ IsFiniteSet(Tasks) /\ IsFiniteSet(Entities)
    /\ \A g \in Groups \ {Root} : g \in Entities /\ Parent[g] \in Groups
    /\ \A e \in Entities : e \in Tasks \/ e \in Groups \ {Root}
    /\ Tasks \subseteq Entities
    /\ MAX_RT_PRIO \in Nat /\ Levels = 0 .. MAX_RT_PRIO
  <1>1. IsFiniteSet(Groups \ {Root})
    BY TreeAssumption, FS_Difference
  <1>2. IsFiniteSet(Entities)
    BY <1>1, TreeAssumption, FS_Union DEF Entities
  <1>3. Levels = 0 .. MAX_RT_PRIO
    BY PrioAssumption DEF Levels
  <1> QED BY <1>2, <1>3, TreeAssumption, PrioAssumption DEF Entities

Depths(d) ==
    /\ d \in [Groups -> 0 .. Cardinality(Groups)]
    /\ \A g \in Groups \ {Root} : d[g] = d[Parent[g]] + 1
Deep == CHOOSE d : Depths(d)

LEMMA DeepIs ==
    /\ Cardinality(Groups) \in Nat
    /\ \A g \in Groups : Deep[g] \in Nat /\ Deep[g] <= Cardinality(Groups)
    /\ \A g \in Groups \ {Root} : Deep[g] = Deep[Parent[g]] + 1
  <1>1. Cardinality(Groups) \in Nat
    BY TreeAssumption, FS_CardinalityType
  <1>2. \E d : Depths(d)
    BY TreeAssumption DEF Depths
  <1>3. Depths(Deep)
    BY <1>2 DEF Deep
  <1> QED BY <1>1, <1>3 DEF Depths

LEMMA PathIs ==
    /\ path[Root] = <<>>
    /\ \A g \in Groups \ {Root} : path[g] = <<g>> \o path[Parent[g]]
  <1> DEFINE Body(p, g) == IF g = Root THEN <<>> ELSE <<g>> \o p[Parent[g]]
             P(p) == p = [g \in Groups |-> Body(p, g)]
             Q(n) == \E p : \A g \in Groups : Deep[g] <= n => p[g] = Body(p, g)
             N == Cardinality(Groups)
             S == {n \in 0 .. N : Q(n)}
  <1>1. 0 \in S
    <2> DEFINE p == [g \in Groups |-> <<>>]
    <2>1. \A g \in Groups : Deep[g] <= 0 => g = Root
      BY DeepIs, Statics
    <2>2. \A g \in Groups : Deep[g] <= 0 => p[g] = Body(p, g)
      BY <2>1
    <2> HIDE DEF p, Body
    <2>3. Q(0)
      BY <2>2
    <2> QED BY <2>3, DeepIs
  <1>2. ASSUME NEW n \in 1 .. N, n - 1 \in S PROVE n \in S
    <2>1. PICK p : \A g \in Groups : Deep[g] <= n - 1 => p[g] = Body(p, g)
      BY <1>2
    <2> DEFINE x == [g \in Groups |-> Body(p, g)]
    <2>2. \A g \in Groups : Deep[g] <= n - 1 => x[g] = p[g]
      BY <2>1
    <2>3. ASSUME NEW g \in Groups, Deep[g] <= n PROVE x[g] = Body(x, g)
      <3>1. CASE g = Root
        BY <3>1
      <3>2. CASE g # Root
        <4>1. Parent[g] \in Groups /\ Deep[Parent[g]] <= n - 1
          BY <2>3, <3>2, DeepIs, Statics
        <4>2. x[Parent[g]] = p[Parent[g]]
          BY <2>2, <4>1
        <4>3. x[g] = <<g>> \o p[Parent[g]]
          BY <3>2
        <4> HIDE DEF x
        <4> QED BY <3>2, <4>2, <4>3
      <3> QED BY <3>1, <3>2
    <2> HIDE DEF x, Body
    <2>4. Q(n)
      BY <2>3
    <2> QED BY <2>4
  <1>3. N \in S
    <2> HIDE DEF S
    <2>1. \A n \in 0 .. N : n \in S
      BY <1>1, <1>2, DeepIs, UpTo
    <2> QED BY <2>1, DeepIs
  <1>4. PICK p : \A g \in Groups : Deep[g] <= N => p[g] = Body(p, g)
    BY <1>3
  <1> DEFINE x == [g \in Groups |-> p[g]]
  <1>5. \A g \in Groups : x[g] = Body(x, g)
    <2>1. \A g \in Groups : p[g] = Body(p, g)
      <3> HIDE DEF Body
      <3> QED BY <1>4, DeepIs
    <2>2. \A g \in Groups : Body(p, g) = Body(x, g)
      BY Statics
    <2>3. \A g \in Groups : x[g] = p[g]
      OBVIOUS
    <2> HIDE DEF x, Body
    <2> QED BY <2>1, <2>2, <2>3
  <1>6. P(x)
    <2> HIDE DEF Body
    <2>1. \A g \in Groups : x[g] = Body(x, g)
      <3> HIDE DEF x
      <3> QED BY <1>5
    <2>2. \A g \in Groups : p[g] = Body(x, g)
      BY <2>1
    <2> QED BY <2>2
  <1>7. path = CHOOSE y : P(y)
    BY DEF path
  <1>8. P(path)
    <2> HIDE DEF P, x
    <2> QED BY <1>6, <1>7
  <1>9. \A g \in Groups : path[g] = Body(path, g)
    <2> HIDE DEF Body
    <2> QED BY <1>8
  <1> QED BY <1>9, Statics

\* A chain of entities: each is in the rt_rq of the next, the last in the root's.
Rising(c, tk) ==
    /\ c \in Seq(Entities) /\ IsInjective(c)
    /\ \A k \in 1 .. Len(c) :
          /\ RqOf(tk, c[k]) = IF k < Len(c) THEN c[k + 1] ELSE Root
          /\ k > 1 => c[k] \in Groups \ {Root}

LEMMA RisingOn ==
    ASSUME NEW tk, NEW c, Rising(c, tk), NEW e \in Entities, e \notin Range(c),
           \A k \in 1 .. Len(c) : c[k] \in Groups \ {Root},
           RqOf(tk, e) = IF Len(c) > 0 THEN c[1] ELSE Root
    PROVE  /\ Rising(<<e>> \o c, tk) /\ Len(<<e>> \o c) = Len(c) + 1
           /\ (<<e>> \o c)[1] = e /\ \A k \in 1 .. Len(c) : (<<e>> \o c)[k + 1] = c[k]
           /\ Range(<<e>> \o c) = {e} \cup Range(c)
  <1> DEFINE s == <<e>>
             b == s \o c
  <1>1. c \in Seq(Entities) /\ Len(c) \in Nat /\ s \in Seq(Entities) /\ Len(s) = 1 /\ s[1] = e
    BY DEF Rising
  <1>2. /\ b \in Seq(Entities) /\ Range(b) = Range(c) \cup {e}
        /\ IsInjective(b) /\ Len(b) = Len(c) + 1
    BY AddHead DEF Rising
  <1>3. b[1] = e /\ \A k \in 1 .. Len(c) : b[k + 1] = c[k]
    <2>1. \A i \in 1 .. 1 + Len(c) : b[i] = IF i <= 1 THEN s[i] ELSE c[i - 1]
      BY <1>1, ConcatProperties
    <2> HIDE DEF s, b
    <2>2. b[1] = e
      BY <1>1, <2>1
    <2>3. ASSUME NEW k \in 1 .. Len(c) PROVE b[k + 1] = c[k]
      <3>1. k + 1 \in 1 .. 1 + Len(c) /\ ~(k + 1 <= 1) /\ (k + 1) - 1 = k
        BY <1>1
      <3> QED BY <2>1, <3>1
    <2> QED BY <2>2, <2>3
  <1> HIDE DEF b
  <1>4. ASSUME NEW k \in 1 .. Len(b)
        PROVE  /\ RqOf(tk, b[k]) = IF k < Len(b) THEN b[k + 1] ELSE Root
               /\ k > 1 => b[k] \in Groups \ {Root}
    <2>1. CASE k = 1
      BY <1>1, <1>2, <1>3, <2>1
    <2>2. CASE k # 1
      <3>1. k - 1 \in 1 .. Len(c) /\ b[k] = c[k - 1]
        <4>1. k - 1 \in 1 .. Len(c) /\ (k - 1) + 1 = k
          BY <1>1, <1>2, <2>2
        <4> QED BY <1>3, <4>1
      <3>2. RqOf(tk, c[k - 1]) = IF k - 1 < Len(c) THEN c[k - 1 + 1] ELSE Root
        BY <3>1 DEF Rising
      <3>3. k < Len(b) <=> k - 1 < Len(c)
        BY <1>1, <1>2
      <3>4. k < Len(b) => b[k + 1] = c[k - 1 + 1]
        BY <1>1, <1>2, <1>3, <2>2
      <3> QED BY <3>1, <3>2, <3>3, <3>4
    <2> QED BY <2>1, <2>2
  <1>5. Rising(b, tk)
    BY <1>2, <1>4 DEF Rising
  <1> QED BY <1>2, <1>3, <1>5 DEF b

\* The groups from g up; they are the less deep the higher they are.
LEMMA PathRises ==
    ASSUME NEW g \in Groups, NEW tk
    PROVE  /\ Rising(path[g], tk)
           /\ g = Root <=> Len(path[g]) = 0
           /\ Len(path[g]) > 0 => path[g][1] = g
           /\ \A k \in 1 .. Len(path[g]) : path[g][k] \in Groups \ {Root}
           /\ \A h \in Range(path[g]) : Deep[h] <= Deep[g]
  <1> DEFINE Ok(h) ==
               LET p == path[h]
               IN /\ Rising(p, tk)
                  /\ h = Root <=> Len(p) = 0
                  /\ Len(p) > 0 => p[1] = h
                  /\ \A k \in 1 .. Len(p) : p[k] \in Groups \ {Root}
                  /\ \A a \in Range(p) : Deep[a] <= Deep[h]
             N == Cardinality(Groups)
             S == {n \in 0 .. N : \A h \in Groups : Deep[h] <= n => Ok(h)}
  <1>1. Ok(Root)
    <2>1. path[Root] = <<>> /\ Len(<<>>) = 0 /\ <<>> \in Seq(Entities)
      BY PathIs
    <2>2. Range(<<>>) = {} /\ IsInjective(<<>>)
      BY DEF Range, IsInjective
    <2> QED BY <2>1, <2>2 DEF Rising
  <1>2. 0 \in S
    <2>1. \A h \in Groups : Deep[h] <= 0 => h = Root
      BY DeepIs, Statics
    <2> HIDE DEF Ok
    <2> QED BY <1>1, <2>1, DeepIs
  <1>3. ASSUME NEW n \in 1 .. N, n - 1 \in S PROVE n \in S
    <2>1. ASSUME NEW h \in Groups, Deep[h] <= n PROVE Ok(h)
      <3>1. CASE h = Root
        BY <1>1, <3>1
      <3>2. CASE h # Root
        <4> DEFINE c == path[Parent[h]]
        <4>1. /\ Parent[h] \in Groups /\ Deep[h] = Deep[Parent[h]] + 1 /\ h \in Entities
              /\ Deep[h] \in Nat /\ Deep[Parent[h]] \in Nat
          BY <3>2, DeepIs, Statics
        <4>2. Ok(Parent[h])
          <5>1. Deep[Parent[h]] <= n - 1
            BY <2>1, <4>1
          <5> HIDE DEF Ok
          <5> QED BY <1>3, <4>1, <5>1
        <4>3. path[h] = <<h>> \o c
          BY <3>2, PathIs
        <4>4. /\ Rising(c, tk) /\ (Parent[h] = Root <=> Len(c) = 0) /\ (Len(c) > 0 => c[1] = Parent[h])
              /\ \A k \in 1 .. Len(c) : c[k] \in Groups \ {Root}
              /\ \A a \in Range(c) : Deep[a] <= Deep[Parent[h]]
          BY <4>2
        <4>5. RqOf(tk, h) = Parent[h]
          BY DEF RqOf
        <4>6. h \notin Range(c)
          BY <4>1, <4>4
        <4>7. c \in Seq(Entities) /\ Len(c) \in Nat
          BY <4>4 DEF Rising
        <4> HIDE DEF c
        <4>8. RqOf(tk, h) = IF Len(c) > 0 THEN c[1] ELSE Root
          BY <4>4, <4>5, <4>7
        <4> DEFINE b == <<h>> \o c
        <4>9. /\ Rising(b, tk) /\ Len(b) = Len(c) + 1
              /\ b[1] = h /\ \A k \in 1 .. Len(c) : b[k + 1] = c[k]
              /\ Range(b) = {h} \cup Range(c)
          BY <4>1, <4>4, <4>6, <4>8, RisingOn
        <4> HIDE DEF b
        <4>10. \A k \in 1 .. Len(b) : b[k] \in Groups \ {Root}
          <5> SUFFICES ASSUME NEW k \in 1 .. Len(b) PROVE b[k] \in Groups \ {Root}
            OBVIOUS
          <5>1. CASE k = 1
            BY <3>2, <4>9, <5>1
          <5>2. CASE k # 1
            <6>1. k - 1 \in 1 .. Len(c) /\ k - 1 + 1 = k
              BY <4>7, <4>9, <5>2
            <6> QED BY <4>4, <4>9, <6>1
          <5> QED BY <5>1, <5>2
        <4>11. \A a \in Range(b) : Deep[a] <= Deep[h]
          <5> SUFFICES ASSUME NEW a \in Range(c) PROVE Deep[a] <= Deep[h]
            BY <4>1, <4>9
          <5>1. a \in Groups
            BY <4>4, <4>7, RangeProperties
          <5> QED BY <4>1, <4>4, <5>1, DeepIs
        <4>12. path[h] = b
          BY <4>3 DEF b
        <4>13. Len(b) > 0 /\ Len(b) # 0
          BY <4>7, <4>9
        <4> QED BY <3>2, <4>9, <4>10, <4>11, <4>12, <4>13
      <3> QED BY <3>1, <3>2
    <2> HIDE DEF Ok
    <2> QED BY <2>1
  <1>4. N \in S
    <2> HIDE DEF S
    <2>1. \A n \in 0 .. N : n \in S
      BY <1>2, <1>3, DeepIs, UpTo
    <2> QED BY <2>1, DeepIs
  <1>5. Ok(g)
    <2> HIDE DEF Ok
    <2> QED BY <1>4, DeepIs
  <1> QED BY <1>5

LEMMA ChainRises ==
    ASSUME NEW tk \in TaskFields, NEW t \in Tasks
    PROVE  /\ Rising(Chain(tk, t), tk)
           /\ Len(Chain(tk, t)) > 0 /\ Chain(tk, t)[1] = t
           /\ Range(Chain(tk, t)) = {t} \cup Range(path[tk[t].group])
           /\ Range(Chain(tk, t)) \cap Tasks = {t}
  <1> DEFINE g == tk[t].group
             c == path[g]
  <1>1. g \in Groups /\ t \in Entities /\ t \notin Groups
    BY Statics DEF TaskFields
  <1> HIDE DEF g
  <1>2. /\ Rising(c, tk) /\ (g = Root <=> Len(c) = 0) /\ (Len(c) > 0 => c[1] = g)
        /\ \A k \in 1 .. Len(c) : c[k] \in Groups \ {Root}
    BY <1>1, PathRises
  <1>3. c \in Seq(Entities) /\ Len(c) \in Nat /\ Range(c) = {c[k] : k \in 1 .. Len(c)}
    BY <1>2, RangeProperties DEF Rising
  <1>4. t \notin Range(c) /\ Range(c) \cap Tasks = {}
    BY <1>1, <1>2, <1>3, Statics
  <1>5. RqOf(tk, t) = g
    BY <1>1 DEF RqOf, g
  <1> HIDE DEF c
  <1>6. RqOf(tk, t) = IF Len(c) > 0 THEN c[1] ELSE Root
    BY <1>2, <1>3, <1>5
  <1>7. /\ Rising(<<t>> \o c, tk) /\ Len(<<t>> \o c) = Len(c) + 1 /\ (<<t>> \o c)[1] = t
        /\ Range(<<t>> \o c) = {t} \cup Range(c)
    BY <1>1, <1>2, <1>4, <1>6, RisingOn
  <1>8. Chain(tk, t) = <<t>> \o c
    BY DEF Chain, c, g
  <1> QED BY <1>3, <1>4, <1>7, <1>8 DEF c, g

-----------------------------------------------------------------------------
(* One entity *)

LEMMA FirstBitIs ==
    ASSUME NEW bits \in SUBSET Levels
    PROVE  /\ FirstBit(bits) \in Levels /\ FirstBit(bits) \in bits \cup {MAX_RT_PRIO}
           /\ \A i \in bits : FirstBit(bits) <= i
           /\ FirstBit(bits) <= MAX_RT_PRIO
  <1> DEFINE T == bits \cup {MAX_RT_PRIO}
  <1>1. T \in SUBSET Nat /\ T # {} /\ T \subseteq Levels
    BY Statics
  <1>2. FirstBit(bits) = CHOOSE x \in T : \A y \in T : x <= y
    BY DEF FirstBit, Min
  <1>3. \A i \in bits : i \in T
    OBVIOUS
  <1>4. MAX_RT_PRIO \in T
    OBVIOUS
  <1> HIDE DEF T
  <1>5. PICK x \in T : \A y \in T : x <= y
    BY <1>1, LeastElement
  <1>6. FirstBit(bits) \in T /\ \A y \in T : FirstBit(bits) <= y
    BY <1>2, <1>5
  <1> QED BY <1>1, <1>3, <1>4, <1>6 DEF T

\* What is the least of a set of levels is its first bit.
LEMMA FirstBitLeast ==
    ASSUME NEW bits \in SUBSET Levels, NEW p \in bits \cup {MAX_RT_PRIO},
           \A i \in bits : p <= i, p <= MAX_RT_PRIO
    PROVE  FirstBit(bits) = p
  <1>1. p \in Nat /\ FirstBit(bits) \in Nat
    BY FirstBitIs, Statics
  <1>2. FirstBit(bits) <= p
    BY <1>1, FirstBitIs
  <1>3. p <= FirstBit(bits)
    BY <1>1, FirstBitIs
  <1> QED BY <1>1, <1>2, <1>3

LEMMA RemoveType ==
    ASSUME NEW S, NEW s \in Seq(S), NEW e
    PROVE  /\ RemoveFirst(s, e) \in Seq(S)
           /\ e \notin Range(s) => RemoveFirst(s, e) = s
           /\ Contains(s, e) <=> e \in Range(s)
  <1>1. /\ Len(s) \in Nat /\ Range(s) = {s[i] : i \in 1 .. Len(s)}
        /\ \A i \in 1 .. Len(s) : s[i] \in S
    BY RangeProperties, ElementOfSeq
  <1>2. Contains(s, e) <=> e \in Range(s)
    BY <1>1 DEF Contains
  <1>3. e \notin Range(s) => RemoveFirst(s, e) = s
    BY <1>1 DEF RemoveFirst
  <1>4. ASSUME e \in Range(s) PROVE RemoveFirst(s, e) \in Seq(S)
    <2> DEFINE k == SelectInSeq(s, LAMBDA v : v = e)
               I == {i \in 1 .. Len(s) : s[i] = e}
    <2>1. k = Min(I)
      BY <1>1, <1>4 DEF SelectInSeq
    <2>2. I \in SUBSET Nat /\ I # {}
      BY <1>1, <1>4
    <2>3. \A i \in I : i \in 1 .. Len(s)
      OBVIOUS
    <2> HIDE DEF I, k
    <2>4. Min(I) \in I
      <3>1. PICK x \in I : \A y \in I : x <= y
        BY <2>2, LeastElement
      <3> QED BY <3>1 DEF Min
    <2>5. k \in 1 .. Len(s)
      BY <2>1, <2>3, <2>4
    <2>6. RemoveFirst(s, e) = SubSeq(s, 1, k - 1) \o SubSeq(s, k + 1, Len(s))
      BY <1>1, <1>4 DEF RemoveFirst, RemoveAt, k
    <2>7. SubSeq(s, 1, k - 1) \in Seq(S)
      <3>1. k - 1 \in Int /\ \A i \in 1 .. k - 1 : s[i] \in S
        BY <1>1, <2>5
      <3> QED BY <3>1, SubSeqProperties
    <2>8. SubSeq(s, k + 1, Len(s)) \in Seq(S)
      <3>1. k + 1 \in Int /\ Len(s) \in Int /\ \A i \in k + 1 .. Len(s) : s[i] \in S
        BY <1>1, <2>5
      <3> QED BY <3>1, SubSeqProperties
    <2> QED BY <2>6, <2>7, <2>8, ConcatProperties
  <1> QED BY <1>2, <1>3, <1>4

\* Where an entity belongs.
LEMMA PlaceTypes ==
    ASSUME NEW tk \in TaskFields, NEW r \in Rqs, NEW e \in Entities
    PROVE  /\ RqOf(tk, e) \in Groups /\ SePrio(r, tk, e) \in Levels
           /\ e \in Tasks => RqOf(tk, e) = tk[e].group /\ SePrio(r, tk, e) = Prio(tk, e)
           /\ e \in Groups => RqOf(tk, e) = Parent[e] /\ SePrio(r, tk, e) = r.hi[e]
  <1>1. CASE e \in Tasks
    BY <1>1, Statics DEF TaskFields, RqOf, SePrio, Prio
  <1>2. CASE e \in Groups \ {Root}
    BY <1>2, Statics DEF Rqs, RqOf, SePrio
  <1> QED BY <1>1, <1>2, Statics

\* What a dequeue changes.
Dequeued(r, tk, e, g, p, x) ==
    /\ x \in Rqs /\ g \in Groups /\ p \in Levels
    /\ x.time = r.time /\ x.thr = r.thr /\ x.timer = r.timer
    /\ \A h \in Groups \ {g} :
          /\ x.q[h] = r.q[h] /\ x.bits[h] = r.bits[h] /\ x.nr[h] = r.nr[h]
          /\ x.hi[h] = r.hi[h] /\ x.nb[h] = r.nb[h]
    /\ \A i \in Levels : x.q[g][i] = RemoveFirst(r.q[g][i], e)
    /\ x.bits[g] = IF x.q[g][p] = <<>> THEN r.bits[g] \ {p} ELSE r.bits[g]
    /\ x.nr[g] = r.nr[g] - 1
    /\ x.hi[g] = IF r.nr[g] = 1 THEN MAX_RT_PRIO
                 ELSE IF p = r.hi[g] THEN FirstBit(x.bits[g]) ELSE r.hi[g]
    /\ x.nb[g] = IF SeBoosted(r, tk, e) THEN r.nb[g] - 1 ELSE r.nb[g]

LEMMA DequeueOneIs ==
    ASSUME NEW tk \in TaskFields, NEW r \in Rqs, NEW e \in Entities, OnRtRq(r, e)
    PROVE  Dequeued(r, tk, e, RqOf(tk, e), SePrio(r, tk, e), DequeueOne(r, tk, e))
  <1> DEFINE g == RqOf(tk, e)
             p == SePrio(r, tk, e)
             x == DequeueOne(r, tk, e)
             q == [i \in Levels |-> RemoveFirst(r.q[g][i], e)]
             bits == IF q[p] = <<>> THEN r.bits[g] \ {p} ELSE r.bits[g]
             hi == IF r.nr[g] = 1 THEN MAX_RT_PRIO
                   ELSE IF p = r.hi[g] THEN FirstBit(bits) ELSE r.hi[g]
             nb == IF SeBoosted(r, tk, e) THEN r.nb[g] - 1 ELSE r.nb[g]
  <1>1. g \in Groups /\ p \in Levels
    BY PlaceTypes
  <1>2. x = [r EXCEPT !.q[g] = q, !.bits[g] = bits, !.nr[g] = r.nr[g] - 1,
                      !.hi[g] = hi, !.nb[g] = nb]
    BY DEF DequeueOne
  <1>3. q \in [Levels -> Seq(Entities)]
    BY <1>1, RemoveType DEF Rqs
  <1>4. bits \in SUBSET Levels
    BY <1>1 DEF Rqs
  <1>5. hi \in Levels
    <2>1. r.hi[g] \in Levels /\ MAX_RT_PRIO \in Levels
      BY <1>1, Statics DEF Rqs
    <2> HIDE DEF bits, g, p
    <2>2. FirstBit(bits) \in Levels
      BY <1>4, FirstBitIs
    <2> QED BY <2>1, <2>2
  <1>6. nb \in Int /\ r.nr[g] - 1 \in Int
    BY <1>1 DEF Rqs
  <1>0. \A i \in Levels : q[i] = RemoveFirst(r.q[g][i], e)
    OBVIOUS
  <1> HIDE DEF g, p, x, q, bits, hi, nb
  <1>7. x \in Rqs
    <2> DEFINE Q == [r.q EXCEPT ![g] = q]
               b == [r.bits EXCEPT ![g] = bits]
               n == [r.nr EXCEPT ![g] = r.nr[g] - 1]
               y == [r.hi EXCEPT ![g] = hi]
               z == [r.nb EXCEPT ![g] = nb]
    <2>1. Q \in [Groups -> [Levels -> Seq(Entities)]]
      BY <1>1, <1>3 DEF Rqs
    <2>2. /\ b \in [Groups -> SUBSET Levels] /\ n \in [Groups -> Int]
          /\ y \in [Groups -> Levels] /\ z \in [Groups -> Int]
      BY <1>1, <1>4, <1>5, <1>6 DEF Rqs
    <2>3. x = [r EXCEPT !.q = Q, !.bits = b, !.nr = n, !.hi = y, !.nb = z]
      BY <1>2
    <2> HIDE DEF Q, b, n, y, z
    <2> QED BY <2>1, <2>2, <2>3 DEF Rqs
  <1>8. /\ x.time = r.time /\ x.thr = r.thr /\ x.timer = r.timer
        /\ \A h \in Groups \ {g} :
              /\ x.q[h] = r.q[h] /\ x.bits[h] = r.bits[h] /\ x.nr[h] = r.nr[h]
              /\ x.hi[h] = r.hi[h] /\ x.nb[h] = r.nb[h]
        /\ x.q[g] = q /\ x.bits[g] = bits /\ x.nr[g] = r.nr[g] - 1
        /\ x.hi[g] = hi /\ x.nb[g] = nb
    BY <1>1, <1>2 DEF Rqs
  <1>9. Dequeued(r, tk, e, g, p, x)
    BY <1>0, <1>1, <1>7, <1>8 DEF Dequeued, bits, hi, nb
  <1> QED BY <1>9 DEF g, p, x

\* What an enqueue changes.
Enqueued(r, tk, e, head, g, p, x) ==
    /\ x \in Rqs /\ g \in Groups /\ p \in Levels
    /\ x.time = r.time /\ x.thr = r.thr
    /\ \A h \in Groups \ {g} :
          /\ x.q[h] = r.q[h] /\ x.bits[h] = r.bits[h] /\ x.nr[h] = r.nr[h]
          /\ x.hi[h] = r.hi[h] /\ x.nb[h] = r.nb[h] /\ x.timer[h] = r.timer[h]
    /\ \A i \in Levels \ {p} : x.q[g][i] = r.q[g][i]
    /\ x.q[g][p] = IF head THEN <<e>> \o r.q[g][p] ELSE Append(r.q[g][p], e)
    /\ x.bits[g] = r.bits[g] \cup {p} /\ x.nr[g] = r.nr[g] + 1
    /\ x.hi[g] = IF p < r.hi[g] THEN p ELSE r.hi[g]
    /\ x.nb[g] = IF SeBoosted(r, tk, e) THEN r.nb[g] + 1 ELSE r.nb[g]
    /\ x.timer[g] <=> r.timer[g] \/ StartsTimer(g)

LEMMA EnqueueOneIs ==
    ASSUME NEW tk \in TaskFields, NEW r \in Rqs, NEW e \in Entities, MayQueue(r, e),
           NEW head \in BOOLEAN
    PROVE  Enqueued(r, tk, e, head, RqOf(tk, e), SePrio(r, tk, e), EnqueueOne(r, tk, e, head))
  <1> DEFINE g == RqOf(tk, e)
             p == SePrio(r, tk, e)
             x == EnqueueOne(r, tk, e, head)
             l == IF head THEN <<e>> \o r.q[g][p] ELSE Append(r.q[g][p], e)
             hi == IF p < r.hi[g] THEN p ELSE r.hi[g]
             nb == IF SeBoosted(r, tk, e) THEN r.nb[g] + 1 ELSE r.nb[g]
             tm == r.timer[g] \/ StartsTimer(g)
  <1>1. g \in Groups /\ p \in Levels
    BY PlaceTypes
  <1>2. x = [r EXCEPT !.q[g][p] = l, !.bits[g] = r.bits[g] \cup {p}, !.nr[g] = r.nr[g] + 1,
                      !.hi[g] = hi, !.nb[g] = nb, !.timer[g] = tm]
    BY <1>1 DEF EnqueueOne, Rqs
  <1>3. l \in Seq(Entities)
    <2>1. r.q[g][p] \in Seq(Entities) /\ <<e>> \in Seq(Entities)
      BY <1>1 DEF Rqs
    <2> QED BY <2>1, ConcatProperties, AppendProperties
  <1>4. hi \in Levels /\ nb \in Int /\ r.nr[g] + 1 \in Int /\ tm \in BOOLEAN
    BY <1>1 DEF Rqs, StartsTimer
  <1> HIDE DEF g, p, x, l, hi, nb, tm
  <1>5. x \in Rqs
    <2> DEFINE row == [r.q[g] EXCEPT ![p] = l]
    <2>1. r.q \in [Groups -> [Levels -> Seq(Entities)]]
      BY DEF Rqs
    <2>2. row \in [Levels -> Seq(Entities)]
      BY <1>1, <1>3, <2>1
    <2>3. x = [r EXCEPT !.q[g] = row, !.bits[g] = r.bits[g] \cup {p}, !.nr[g] = r.nr[g] + 1,
                        !.hi[g] = hi, !.nb[g] = nb, !.timer[g] = tm]
      BY <1>2
    <2> HIDE DEF row
    <2> DEFINE q == [r.q EXCEPT ![g] = row]
               b == [r.bits EXCEPT ![g] = r.bits[g] \cup {p}]
               n == [r.nr EXCEPT ![g] = r.nr[g] + 1]
               m == [r.timer EXCEPT ![g] = tm]
               y == [r.hi EXCEPT ![g] = hi]
               z == [r.nb EXCEPT ![g] = nb]
    <2>4. q \in [Groups -> [Levels -> Seq(Entities)]]
      BY <1>1, <2>1, <2>2
    <2>5. /\ b \in [Groups -> SUBSET Levels] /\ n \in [Groups -> Int] /\ m \in [Groups -> BOOLEAN]
          /\ y \in [Groups -> Levels] /\ z \in [Groups -> Int]
      BY <1>1, <1>4 DEF Rqs
    <2>6. x = [r EXCEPT !.q = q, !.bits = b, !.nr = n, !.hi = y, !.nb = z, !.timer = m]
      BY <2>3
    <2> HIDE DEF q, b, n, m, y, z
    <2> QED BY <2>4, <2>5, <2>6 DEF Rqs
  <1>6. /\ x.time = r.time /\ x.thr = r.thr
        /\ \A h \in Groups \ {g} :
              /\ x.q[h] = r.q[h] /\ x.bits[h] = r.bits[h] /\ x.nr[h] = r.nr[h]
              /\ x.hi[h] = r.hi[h] /\ x.nb[h] = r.nb[h] /\ x.timer[h] = r.timer[h]
        /\ \A i \in Levels \ {p} : x.q[g][i] = r.q[g][i]
        /\ x.q[g][p] = l
        /\ x.bits[g] = r.bits[g] \cup {p} /\ x.nr[g] = r.nr[g] + 1
        /\ x.hi[g] = hi /\ x.nb[g] = nb /\ x.timer[g] = tm
    BY <1>1, <1>2 DEF Rqs
  <1>7. Enqueued(r, tk, e, head, g, p, x)
    BY <1>1, <1>5, <1>6 DEF Enqueued, l, hi, nb, tm
  <1> QED BY <1>7 DEF g, p, x

LEMMA EntityTypes ==
    ASSUME NEW tk \in TaskFields, NEW r \in Rqs, NEW e \in Entities, NEW head \in BOOLEAN
    PROVE  DequeueOne(r, tk, e) \in Rqs /\ EnqueueOne(r, tk, e, head) \in Rqs
  <1>1. ~OnRtRq(r, e) => DequeueOne(r, tk, e) = r
    BY DEF DequeueOne
  <1>2. MayQueue(r, e) => EnqueueOne(r, tk, e, head) \in Rqs
    BY EnqueueOneIs DEF Enqueued
  <1>3. ~MayQueue(r, e) => EnqueueOne(r, tk, e, head) = r
    BY DEF EnqueueOne
  <1>4. OnRtRq(r, e) => DequeueOne(r, tk, e) \in Rqs
    BY DequeueOneIs DEF Dequeued
  <1> QED BY <1>1, <1>2, <1>3, <1>4

-----------------------------------------------------------------------------
(* Along a chain.  What FoldLeft computes is a function defined by recursion *)
(* over the subsets of 1 .. n, the greatest first; that there is one is      *)
(* shown by the number of elements.  Of it, the values at the sets 1 .. k    *)
(* are the states the loop over the chain goes through.                      *)

LEMMA Greatest ==
    ASSUME NEW n \in Nat, NEW s \in SUBSET (1 .. n), s # {}
    PROVE  Max(s) \in s /\ \A i \in s : i <= Max(s)
  <1> DEFINE T == {n - i : i \in s}
  <1>0. \A i \in s : i \in 1 .. n
    OBVIOUS
  <1>1. T \in SUBSET Nat /\ T # {}
    <2>1. \A i \in s : n - i \in Nat
      BY <1>0
    <2> QED BY <2>1
  <1>2. PICK m \in T : \A x \in T : m <= x
    <2> HIDE DEF T
    <2> QED BY <1>1, LeastElement
  <1>3. PICK j \in s : m = n - j
    BY <1>2
  <1>4. ASSUME NEW i \in s PROVE j >= i
    <2>1. m <= n - i /\ i \in 1 .. n /\ j \in 1 .. n
      BY <1>0, <1>2
    <2> QED BY <1>3, <2>1
  <1>5. Max(s) \in s /\ \A i \in s : Max(s) >= i
    BY <1>3, <1>4 DEF Max
  <1>6. \A i \in s : i \in Nat
    BY <1>0
  <1> QED BY <1>5, <1>6

LEMMA GreatestOfPrefix ==
    ASSUME NEW n \in Nat, NEW k \in 1 .. n
    PROVE  /\ 1 .. k \in SUBSET (1 .. n) /\ 1 .. k # {} /\ Max(1 .. k) = k
           /\ (1 .. k) \ {k} = 1 .. k - 1
  <1>1. 1 .. k \in SUBSET (1 .. n) /\ k \in 1 .. k
    OBVIOUS
  <1>2. Max(1 .. k) \in 1 .. k /\ k <= Max(1 .. k)
    BY <1>1, Greatest
  <1>3. Max(1 .. k) = k
    BY <1>2
  <1> QED BY <1>1, <1>3

Folds(i, n, D, b, h) ==
    /\ i = [s \in SUBSET (1 .. n) |-> IF s = {} THEN b ELSE h[<<Max(s), i[s \ {Max(s)}]>>]]
    /\ \A s \in SUBSET (1 .. n) : i[s] \in D

LEMMA FoldExists ==
    ASSUME NEW n \in Nat, NEW D, NEW b \in D, NEW h, h \in [(1 .. n) \X D -> D]
    PROVE  \E i : Folds(i, n, D, b, h)
  <1> DEFINE All == SUBSET (1 .. n)
             Body(i, s) == IF s = {} THEN b ELSE h[<<Max(s), i[s \ {Max(s)}]>>]
             Q(m) == \E i : /\ i \in [All -> D]
                            /\ \A s \in All : Cardinality(s) <= m => i[s] = Body(i, s)
             S == {m \in 0 .. n : Q(m)}
  <1>1. /\ \A s \in All : IsFiniteSet(s) /\ Cardinality(s) \in Nat /\ Cardinality(s) <= n
        /\ \A s \in All : \A x \in s : Cardinality(s \ {x}) = Cardinality(s) - 1
    <2>1. IsFiniteSet(1 .. n) /\ Cardinality(1 .. n) = n
      <3>1. 1 \in Int /\ n \in Int
        OBVIOUS
      <3>2. IsFiniteSet(1 .. n) /\ Cardinality(1 .. n) = IF 1 > n THEN 0 ELSE n - 1 + 1
        BY ONLY <3>1, FS_Interval
      <3> QED BY <3>2
    <2>2. ASSUME NEW s \in All PROVE IsFiniteSet(s) /\ Cardinality(s) \in Nat /\ Cardinality(s) <= n
      <3> DEFINE R == 1 .. n
      <3>1. IsFiniteSet(R) /\ Cardinality(R) = n /\ s \in SUBSET R
        BY <2>1
      <3> HIDE DEF R, All
      <3> QED BY <3>1, FS_Subset, FS_CardinalityType
    <2>3. ASSUME NEW s \in All, NEW x \in s PROVE Cardinality(s \ {x}) = Cardinality(s) - 1
      BY <2>2, FS_RemoveElement
    <2> QED BY <2>2, <2>3
  <1>2. \A s \in All : s # {} => Max(s) \in s
    BY Greatest
  <1>3. \A i \in [All -> D], s \in All : Body(i, s) \in D
    <2> SUFFICES ASSUME NEW i \in [All -> D], NEW s \in All, s # {} PROVE Body(i, s) \in D
      OBVIOUS
    <2>1. Max(s) \in 1 .. n /\ s \ {Max(s)} \in All
      BY <1>2
    <2> QED BY <2>1
  <1>4. 0 \in S
    <2> DEFINE i == [s \in All |-> b]
    <2>1. ASSUME NEW s \in All, Cardinality(s) <= 0 PROVE i[s] = Body(i, s)
      <3>1. s = {}
        BY <1>1, <2>1, FS_EmptySet
      <3> QED BY <3>1
    <2>2. i \in [All -> D]
      OBVIOUS
    <2> HIDE DEF i, Body, All
    <2>3. Q(0)
      BY <2>1, <2>2
    <2> QED BY <2>3
  <1>5. ASSUME NEW m \in 1 .. n, m - 1 \in S PROVE m \in S
    <2>1. PICK i \in [All -> D] : \A s \in All : Cardinality(s) <= m - 1 => i[s] = Body(i, s)
      BY <1>5
    <2> DEFINE j == [s \in All |-> Body(i, s)]
    <2>2. j \in [All -> D] /\ \A s \in All : j[s] = Body(i, s)
      <3> HIDE DEF Body, All
      <3> QED BY <1>3
    <2>3. ASSUME NEW s \in All, Cardinality(s) <= m PROVE j[s] = Body(j, s)
      <3>1. CASE s = {}
        BY <2>2, <3>1
      <3>2. CASE s # {}
        <4>1. Max(s) \in s /\ s \ {Max(s)} \in All
          BY <1>2, <3>2
        <4>2. Cardinality(s \ {Max(s)}) <= m - 1
          <5> DEFINE x == Max(s)
          <5>1. x \in s
            BY <4>1
          <5> HIDE DEF x
          <5>2. Cardinality(s \ {x}) = Cardinality(s) - 1 /\ Cardinality(s) \in Nat
            BY <1>1, <5>1
          <5>3. Cardinality(s \ {x}) <= m - 1
            BY <2>3, <5>2
          <5> QED BY <5>3 DEF x
        <4>3. j[s \ {Max(s)}] = i[s \ {Max(s)}]
          <5> HIDE DEF Body, j, All
          <5> QED BY <2>1, <2>2, <4>1, <4>2
        <4> HIDE DEF j, All
        <4> QED BY <2>2, <4>3
      <3> QED BY <3>1, <3>2
    <2> HIDE DEF j, Body, All
    <2>4. Q(m)
      BY <2>2, <2>3
    <2> QED BY <2>4
  <1>6. n \in S
    <2> HIDE DEF S
    <2>1. \A m \in 0 .. n : m \in S
      BY <1>4, <1>5, UpTo
    <2> QED BY <2>1
  <1>7. PICK i \in [All -> D] : \A s \in All : i[s] = Body(i, s)
    <2> HIDE DEF Body, All
    <2> QED BY <1>1, <1>6
  <1>8. i = [s \in All |-> Body(i, s)]
    <2> HIDE DEF Body, All
    <2> QED BY <1>7
  <1> QED BY <1>7, <1>8 DEF Folds

\* dequeue_rt_stack.
LEMMA DequeueStackFold ==
    ASSUME NEW tk \in TaskFields, NEW r \in Rqs, NEW chain \in Seq(Entities), Reverse(chain) \in Seq(Entities)
    PROVE  \E f : /\ f[0] = r
                  /\ \A k \in 0 .. Len(Reverse(chain)) : f[k] \in Rqs
                  /\ \A k \in 1 .. Len(Reverse(chain)) : f[k] = DequeueOne(f[k - 1], tk, Reverse(chain)[k])
                  /\ DequeueStack(r, tk, chain) = f[Len(Reverse(chain))]
  <1> DEFINE c == Reverse(chain)
             b == r
             n == Len(c)
             op(x, e) == DequeueOne(x, tk, e)
             Body(i, s) == IF s = {} THEN b
                           ELSE op(i[s \ {Max(s)}], c[Max(s)])
             P(i) == i = [s \in SUBSET (1 .. n) |-> Body(i, s)]
             F == CHOOSE i : P(i)
             h == [y \in (1 .. n) \X Rqs |-> op(y[2], c[y[1]])]
  <1>1. n \in Nat /\ DOMAIN c = 1 .. n /\ \A k \in 1 .. n : c[k] \in Entities
    BY ElementOfSeq, LenProperties
  <1>2. \A x \in Rqs, e \in Entities : op(x, e) \in Rqs
    BY EntityTypes
  <1>3. DequeueStack(r, tk, chain) = F[1 .. n]
    BY <1>1 DEF DequeueStack, FoldLeft, MapThenFoldSet
  <1> HIDE DEF op
  <1>4. b \in Rqs
    BY Zenon
  <1> HIDE DEF n, b, c
  <1>5. h \in [(1 .. n) \X Rqs -> Rqs]
    BY <1>1, <1>2
  <1>6. PICK i : Folds(i, n, Rqs, b, h)
    <2> HIDE DEF h
    <2> QED BY <1>1, <1>4, <1>5, FoldExists
  <1>7. P(i)
    <2>1. \A s \in SUBSET (1 .. n) : s # {} => h[<<Max(s), i[s \ {Max(s)}]>>] = op(i[s \ {Max(s)}], c[Max(s)])
      <3> SUFFICES ASSUME NEW s \in SUBSET (1 .. n), s # {}
                   PROVE  h[<<Max(s), i[s \ {Max(s)}]>>] = op(i[s \ {Max(s)}], c[Max(s)])
        OBVIOUS
      <3>1. Max(s) \in 1 .. n /\ i[s \ {Max(s)}] \in Rqs
        BY <1>1, <1>6, Greatest DEF Folds
      <3> QED BY <3>1
    <2>2. \A s \in SUBSET (1 .. n) : i[s] = IF s = {} THEN b ELSE h[<<Max(s), i[s \ {Max(s)}]>>]
      <3> HIDE DEF h
      <3> QED BY <1>6 DEF Folds
    <2>3. \A s \in SUBSET (1 .. n) : i[s] = Body(i, s)
      BY <2>1, <2>2
    <2>4. i = [s \in SUBSET (1 .. n) |-> i[s]]
      <3> HIDE DEF h
      <3> QED BY <1>6 DEF Folds
    <2> HIDE DEF Body
    <2> QED BY <2>3, <2>4
  <1>8. P(F)
    <2> HIDE DEF P
    <2> QED BY <1>7
  <1> HIDE DEF F, h
  <1>9. \A s \in SUBSET (1 .. n) : F[s] = Body(F, s)
    <2> HIDE DEF Body
    <2> QED BY <1>8
  <1> DEFINE f == [k \in 0 .. n |-> F[1 .. k]]
  <1>10. f[0] = b
    <2>1. 1 .. 0 = {} /\ 0 \in 0 .. n /\ {} \in SUBSET (1 .. n)
      BY <1>1
    <2>2. F[{}] = b
      BY <1>9, <2>1
    <2> QED BY <2>1, <2>2
  <1>11. ASSUME NEW k \in 1 .. n PROVE f[k] = op(f[k - 1], c[k])
    <2>1. /\ 1 .. k \in SUBSET (1 .. n) /\ 1 .. k # {} /\ Max(1 .. k) = k
          /\ (1 .. k) \ {k} = 1 .. k - 1
      BY <1>1, GreatestOfPrefix
    <2>2. F[1 .. k] = op(F[1 .. k - 1], c[k])
      BY <1>9, <2>1
    <2>3. k \in 0 .. n /\ k - 1 \in 0 .. n
      BY <1>1
    <2> QED BY <2>2, <2>3
  <1>12. f[n] = F[1 .. n]
    BY <1>1
  <1> HIDE DEF f
  <1>13. \A k \in 0 .. n : f[k] \in Rqs
    <2> DEFINE S == {k \in 0 .. n : f[k] \in Rqs}
    <2>1. 0 \in S
      BY <1>1, <1>4, <1>10
    <2>2. \A k \in 1 .. n : k - 1 \in S => k \in S
      BY <1>1, <1>2, <1>11
    <2>3. \A k \in 0 .. n : k \in S
      <3> HIDE DEF S
      <3> QED BY <1>1, <2>1, <2>2, UpTo
    <2> QED BY <2>3
  <1> HIDE DEF P, Body
  <1>14. \A k \in 1 .. n : f[k] = DequeueOne(f[k - 1], tk, c[k])
    BY <1>11 DEF op
  <1> QED BY <1>3, <1>10, <1>12, <1>13, <1>14 DEF n, b, c

\* The loop of enqueue_rt_entity.
LEMMA EnqueueFold ==
    ASSUME NEW tk \in TaskFields, NEW r \in Rqs, NEW chain \in Seq(Entities), NEW head \in BOOLEAN,
           DequeueStack(r, tk, chain) \in Rqs
    PROVE  \E f : /\ f[0] = DequeueStack(r, tk, chain)
                  /\ \A k \in 0 .. Len(chain) : f[k] \in Rqs
                  /\ \A k \in 1 .. Len(chain) : f[k] = EnqueueOne(f[k - 1], tk, chain[k], head)
                  /\ EnqueueEntity(r, tk, chain, head) = f[Len(chain)]
  <1> DEFINE c == chain
             b == DequeueStack(r, tk, chain)
             n == Len(c)
             op(x, e) == EnqueueOne(x, tk, e, head)
             Body(i, s) == IF s = {} THEN b
                           ELSE op(i[s \ {Max(s)}], c[Max(s)])
             P(i) == i = [s \in SUBSET (1 .. n) |-> Body(i, s)]
             F == CHOOSE i : P(i)
             h == [y \in (1 .. n) \X Rqs |-> op(y[2], c[y[1]])]
  <1>1. n \in Nat /\ DOMAIN c = 1 .. n /\ \A k \in 1 .. n : c[k] \in Entities
    BY ElementOfSeq, LenProperties
  <1>2. \A x \in Rqs, e \in Entities : op(x, e) \in Rqs
    BY EntityTypes
  <1>3. EnqueueEntity(r, tk, chain, head) = F[1 .. n]
    BY <1>1 DEF EnqueueEntity, FoldLeft, MapThenFoldSet
  <1> HIDE DEF op
  <1>4. b \in Rqs
    BY Zenon
  <1> HIDE DEF n, b, c
  <1>5. h \in [(1 .. n) \X Rqs -> Rqs]
    BY <1>1, <1>2
  <1>6. PICK i : Folds(i, n, Rqs, b, h)
    <2> HIDE DEF h
    <2> QED BY <1>1, <1>4, <1>5, FoldExists
  <1>7. P(i)
    <2>1. \A s \in SUBSET (1 .. n) : s # {} => h[<<Max(s), i[s \ {Max(s)}]>>] = op(i[s \ {Max(s)}], c[Max(s)])
      <3> SUFFICES ASSUME NEW s \in SUBSET (1 .. n), s # {}
                   PROVE  h[<<Max(s), i[s \ {Max(s)}]>>] = op(i[s \ {Max(s)}], c[Max(s)])
        OBVIOUS
      <3>1. Max(s) \in 1 .. n /\ i[s \ {Max(s)}] \in Rqs
        BY <1>1, <1>6, Greatest DEF Folds
      <3> QED BY <3>1
    <2>2. \A s \in SUBSET (1 .. n) : i[s] = IF s = {} THEN b ELSE h[<<Max(s), i[s \ {Max(s)}]>>]
      <3> HIDE DEF h
      <3> QED BY <1>6 DEF Folds
    <2>3. \A s \in SUBSET (1 .. n) : i[s] = Body(i, s)
      BY <2>1, <2>2
    <2>4. i = [s \in SUBSET (1 .. n) |-> i[s]]
      <3> HIDE DEF h
      <3> QED BY <1>6 DEF Folds
    <2> HIDE DEF Body
    <2> QED BY <2>3, <2>4
  <1>8. P(F)
    <2> HIDE DEF P
    <2> QED BY <1>7
  <1> HIDE DEF F, h
  <1>9. \A s \in SUBSET (1 .. n) : F[s] = Body(F, s)
    <2> HIDE DEF Body
    <2> QED BY <1>8
  <1> DEFINE f == [k \in 0 .. n |-> F[1 .. k]]
  <1>10. f[0] = b
    <2>1. 1 .. 0 = {} /\ 0 \in 0 .. n /\ {} \in SUBSET (1 .. n)
      BY <1>1
    <2>2. F[{}] = b
      BY <1>9, <2>1
    <2> QED BY <2>1, <2>2
  <1>11. ASSUME NEW k \in 1 .. n PROVE f[k] = op(f[k - 1], c[k])
    <2>1. /\ 1 .. k \in SUBSET (1 .. n) /\ 1 .. k # {} /\ Max(1 .. k) = k
          /\ (1 .. k) \ {k} = 1 .. k - 1
      BY <1>1, GreatestOfPrefix
    <2>2. F[1 .. k] = op(F[1 .. k - 1], c[k])
      BY <1>9, <2>1
    <2>3. k \in 0 .. n /\ k - 1 \in 0 .. n
      BY <1>1
    <2> QED BY <2>2, <2>3
  <1>12. f[n] = F[1 .. n]
    BY <1>1
  <1> HIDE DEF f
  <1>13. \A k \in 0 .. n : f[k] \in Rqs
    <2> DEFINE S == {k \in 0 .. n : f[k] \in Rqs}
    <2>1. 0 \in S
      BY <1>1, <1>4, <1>10
    <2>2. \A k \in 1 .. n : k - 1 \in S => k \in S
      BY <1>1, <1>2, <1>11
    <2>3. \A k \in 0 .. n : k \in S
      <3> HIDE DEF S
      <3> QED BY <1>1, <2>1, <2>2, UpTo
    <2> QED BY <2>3
  <1> HIDE DEF P, Body
  <1>14. \A k \in 1 .. n : f[k] = EnqueueOne(f[k - 1], tk, c[k], head)
    BY <1>11 DEF op
  <1> QED BY <1>3, <1>10, <1>12, <1>13, <1>14 DEF n, b, c

\* The loop of dequeue_rt_entity.
LEMMA ReenqueueFold ==
    ASSUME NEW tk \in TaskFields, NEW r \in Rqs, NEW chain \in Seq(Entities), DequeueStack(r, tk, chain) \in Rqs
    PROVE  \E f : /\ f[0] = DequeueStack(r, tk, chain)
                  /\ \A k \in 0 .. Len(chain) : f[k] \in Rqs
                  /\ \A k \in 1 .. Len(chain) : f[k] = IF chain[k] \in Groups /\ f[k - 1].nr[chain[k]] > 0
                            THEN EnqueueOne(f[k - 1], tk, chain[k], FALSE) ELSE f[k - 1]
                  /\ DequeueEntity(r, tk, chain) = f[Len(chain)]
  <1> DEFINE c == chain
             b == DequeueStack(r, tk, chain)
             n == Len(c)
             op(x, e) == IF e \in Groups /\ x.nr[e] > 0
                            THEN EnqueueOne(x, tk, e, FALSE) ELSE x
             Body(i, s) == IF s = {} THEN b
                           ELSE op(i[s \ {Max(s)}], c[Max(s)])
             P(i) == i = [s \in SUBSET (1 .. n) |-> Body(i, s)]
             F == CHOOSE i : P(i)
             h == [y \in (1 .. n) \X Rqs |-> op(y[2], c[y[1]])]
  <1>1. n \in Nat /\ DOMAIN c = 1 .. n /\ \A k \in 1 .. n : c[k] \in Entities
    BY ElementOfSeq, LenProperties
  <1>2. \A x \in Rqs, e \in Entities : op(x, e) \in Rqs
    BY EntityTypes
  <1>3. DequeueEntity(r, tk, chain) = F[1 .. n]
    BY <1>1 DEF DequeueEntity, FoldLeft, MapThenFoldSet
  <1> HIDE DEF op
  <1>4. b \in Rqs
    BY Zenon
  <1> HIDE DEF n, b, c
  <1>5. h \in [(1 .. n) \X Rqs -> Rqs]
    BY <1>1, <1>2
  <1>6. PICK i : Folds(i, n, Rqs, b, h)
    <2> HIDE DEF h
    <2> QED BY <1>1, <1>4, <1>5, FoldExists
  <1>7. P(i)
    <2>1. \A s \in SUBSET (1 .. n) : s # {} => h[<<Max(s), i[s \ {Max(s)}]>>] = op(i[s \ {Max(s)}], c[Max(s)])
      <3> SUFFICES ASSUME NEW s \in SUBSET (1 .. n), s # {}
                   PROVE  h[<<Max(s), i[s \ {Max(s)}]>>] = op(i[s \ {Max(s)}], c[Max(s)])
        OBVIOUS
      <3>1. Max(s) \in 1 .. n /\ i[s \ {Max(s)}] \in Rqs
        BY <1>1, <1>6, Greatest DEF Folds
      <3> QED BY <3>1
    <2>2. \A s \in SUBSET (1 .. n) : i[s] = IF s = {} THEN b ELSE h[<<Max(s), i[s \ {Max(s)}]>>]
      <3> HIDE DEF h
      <3> QED BY <1>6 DEF Folds
    <2>3. \A s \in SUBSET (1 .. n) : i[s] = Body(i, s)
      BY <2>1, <2>2
    <2>4. i = [s \in SUBSET (1 .. n) |-> i[s]]
      <3> HIDE DEF h
      <3> QED BY <1>6 DEF Folds
    <2> HIDE DEF Body
    <2> QED BY <2>3, <2>4
  <1>8. P(F)
    <2> HIDE DEF P
    <2> QED BY <1>7
  <1> HIDE DEF F, h
  <1>9. \A s \in SUBSET (1 .. n) : F[s] = Body(F, s)
    <2> HIDE DEF Body
    <2> QED BY <1>8
  <1> DEFINE f == [k \in 0 .. n |-> F[1 .. k]]
  <1>10. f[0] = b
    <2>1. 1 .. 0 = {} /\ 0 \in 0 .. n /\ {} \in SUBSET (1 .. n)
      BY <1>1
    <2>2. F[{}] = b
      BY <1>9, <2>1
    <2> QED BY <2>1, <2>2
  <1>11. ASSUME NEW k \in 1 .. n PROVE f[k] = op(f[k - 1], c[k])
    <2>1. /\ 1 .. k \in SUBSET (1 .. n) /\ 1 .. k # {} /\ Max(1 .. k) = k
          /\ (1 .. k) \ {k} = 1 .. k - 1
      BY <1>1, GreatestOfPrefix
    <2>2. F[1 .. k] = op(F[1 .. k - 1], c[k])
      BY <1>9, <2>1
    <2>3. k \in 0 .. n /\ k - 1 \in 0 .. n
      BY <1>1
    <2> QED BY <2>2, <2>3
  <1>12. f[n] = F[1 .. n]
    BY <1>1
  <1> HIDE DEF f
  <1>13. \A k \in 0 .. n : f[k] \in Rqs
    <2> DEFINE S == {k \in 0 .. n : f[k] \in Rqs}
    <2>1. 0 \in S
      BY <1>1, <1>4, <1>10
    <2>2. \A k \in 1 .. n : k - 1 \in S => k \in S
      BY <1>1, <1>2, <1>11
    <2>3. \A k \in 0 .. n : k \in S
      <3> HIDE DEF S
      <3> QED BY <1>1, <2>1, <2>2, UpTo
    <2> QED BY <2>3
  <1> HIDE DEF P, Body
  <1>14. \A k \in 1 .. n : f[k] = IF c[k] \in Groups /\ f[k - 1].nr[c[k]] > 0
                            THEN EnqueueOne(f[k - 1], tk, c[k], FALSE) ELSE f[k - 1]
    BY <1>11 DEF op
  <1> QED BY <1>3, <1>10, <1>12, <1>13, <1>14 DEF n, b, c

-----------------------------------------------------------------------------
(* Lists that agree with a set M of queued entities *)

\* The entities of M whose place is the rt_rq of g.
Mem(tk, M, g) == {e \in M : RqOf(tk, e) = g}

ListsOf(r, tk, M, g) ==
    /\ \A i \in Levels :
          /\ IsInjective(r.q[g][i])
          /\ Range(r.q[g][i]) = {e \in Mem(tk, M, g) : SePrio(r, tk, e) = i}
    /\ r.bits[g] = {i \in Levels : r.q[g][i] # <<>>}
    /\ r.nr[g] = Cardinality(Mem(tk, M, g))
    /\ r.hi[g] = FirstBit(r.bits[g])
    /\ r.nb[g] = Cardinality({e \in Mem(tk, M, g) : SeBoosted(r, tk, e)})

Lists(r, tk, M) == M \subseteq Entities /\ \A g \in Groups : ListsOf(r, tk, M, g)

LEMMA EmptyRange ==
    ASSUME NEW S, NEW s \in Seq(S)
    PROVE  s = <<>> <=> Range(s) = {}
  <1>1. Len(s) \in Nat /\ Range(s) = {s[i] : i \in 1 .. Len(s)} /\ (s = <<>> <=> Len(s) = 0)
    BY RangeProperties
  <1>2. Len(s) # 0 => s[1] \in Range(s)
    BY <1>1
  <1>3. Len(s) = 0 => Range(s) = {}
    BY <1>1
  <1> QED BY <1>1, <1>2, <1>3

LEMMA MemIs ==
    ASSUME NEW tk \in TaskFields, NEW M \in SUBSET Entities, NEW g \in Groups, NEW r
    PROVE  /\ Mem(tk, M, g) \subseteq Entities /\ IsFiniteSet(Mem(tk, M, g))
           /\ Cardinality(Mem(tk, M, g)) \in Nat
           /\ Cardinality(Mem(tk, M, g)) = 0 <=> Mem(tk, M, g) = {}
           /\ IsFiniteSet({e \in Mem(tk, M, g) : SeBoosted(r, tk, e)})
           /\ Cardinality({e \in Mem(tk, M, g) : SeBoosted(r, tk, e)}) \in Nat
  <1> DEFINE A == Mem(tk, M, g)
             B == {e \in A : SeBoosted(r, tk, e)}
  <1>1. A \in SUBSET Entities
    BY DEF Mem
  <1>2. B \in SUBSET A
    OBVIOUS
  <1> HIDE DEF A, B
  <1>3. IsFiniteSet(A)
    BY <1>1, Statics, FS_Subset
  <1>4. IsFiniteSet(B)
    BY <1>2, <1>3, FS_Subset
  <1> QED BY <1>1, <1>3, <1>4, FS_CardinalityType, FS_EmptySet DEF A, B

LEMMA QueuedIsMember ==
    ASSUME NEW tk \in TaskFields, NEW r \in Rqs, NEW M, Lists(r, tk, M), NEW e \in Entities
    PROVE  OnRtRq(r, e) <=> e \in M
  <1>1. ASSUME NEW g \in Groups, NEW i \in Levels
        PROVE  Contains(r.q[g][i], e) <=> e \in M /\ RqOf(tk, e) = g /\ SePrio(r, tk, e) = i
    <2>1. r.q[g][i] \in Seq(Entities)
      BY DEF Rqs
    <2>2. Contains(r.q[g][i], e) <=> e \in Range(r.q[g][i])
      BY <2>1, RemoveType
    <2>3. Range(r.q[g][i]) = {d \in Mem(tk, M, g) : SePrio(r, tk, d) = i}
      BY DEF Lists, ListsOf
    <2> QED BY <2>2, <2>3 DEF Mem
  <1>2. RqOf(tk, e) \in Groups /\ SePrio(r, tk, e) \in Levels
    BY PlaceTypes
  <1> QED BY <1>1, <1>2 DEF OnRtRq

\* The lists of a group depend on its own fields and on its members.
LEMMA ListsSame ==
    ASSUME NEW r, NEW tk, NEW M, NEW g \in Groups, ListsOf(r, tk, M, g), NEW x, NEW tl, NEW N,
           x.q[g] = r.q[g], x.bits[g] = r.bits[g], x.nr[g] = r.nr[g],
           x.hi[g] = r.hi[g], x.nb[g] = r.nb[g],
           Mem(tl, N, g) = Mem(tk, M, g),
           \A e \in Mem(tk, M, g) : /\ SePrio(x, tl, e) = SePrio(r, tk, e)
                                    /\ SeBoosted(x, tl, e) <=> SeBoosted(r, tk, e)
    PROVE  ListsOf(x, tl, N, g)
  <1> DEFINE A == Mem(tk, M, g)
  <1>0. \A e \in A : /\ SePrio(x, tl, e) = SePrio(r, tk, e)
                     /\ SeBoosted(x, tl, e) <=> SeBoosted(r, tk, e)
    BY Zenon
  <1> HIDE DEF A
  <1>1. ASSUME NEW i
        PROVE  {e \in A : SePrio(x, tl, e) = i} = {e \in A : SePrio(r, tk, e) = i}
    BY ONLY <1>0, Zenon
  <1>2. {e \in A : SeBoosted(x, tl, e)} = {e \in A : SeBoosted(r, tk, e)}
    BY ONLY <1>0, Zenon
  <1>3. Mem(tl, N, g) = A /\ Mem(tk, M, g) = A
    BY DEF A
  <1> QED BY <1>1, <1>2, <1>3 DEF ListsOf

LEMMA Elsewhere ==
    ASSUME NEW tk \in TaskFields, NEW e \in Entities
    PROVE  RqOf(tk, e) \in Groups /\ RqOf(tk, e) # e
  <1>1. CASE e \in Tasks
    BY <1>1, Statics DEF TaskFields, RqOf
  <1>2. CASE e \in Groups \ {Root}
    BY <1>2, DeepIs, Statics DEF RqOf
  <1> QED BY <1>1, <1>2, Statics

\* A change of the rt_rq of g concerns no entity but g.
LEMMA PlaceKept ==
    ASSUME NEW tk \in TaskFields, NEW r \in Rqs, NEW x \in Rqs, NEW g \in Groups,
           \A h \in Groups \ {g} : x.hi[h] = r.hi[h] /\ x.nb[h] = r.nb[h],
           NEW e \in Entities, e # g
    PROVE  SePrio(x, tk, e) = SePrio(r, tk, e) /\ (SeBoosted(x, tk, e) <=> SeBoosted(r, tk, e))
  BY Statics DEF SePrio, SeBoosted

LEMMA DequeueConsistent ==
    ASSUME NEW tk \in TaskFields, NEW r \in Rqs, NEW M, Lists(r, tk, M), NEW e \in Entities,
           RqOf(tk, e) \notin M
    PROVE  Lists(DequeueOne(r, tk, e), tk, M \ {e})
  <1> DEFINE g == RqOf(tk, e)
             p == SePrio(r, tk, e)
             x == DequeueOne(r, tk, e)
             bits == x.bits[g]
             q == x.q[g]
             A == Mem(tk, M, g)
             N == M \ {e}
  <1>1. CASE e \notin M
    <2>1. ~OnRtRq(r, e)
      BY <1>1, QueuedIsMember
    <2>2. x = r /\ M \ {e} = M
      BY <1>1, <2>1 DEF DequeueOne
    <2> QED BY <2>2
  <1>2. CASE e \in M
    <2>1. OnRtRq(r, e)
      BY <1>2, QueuedIsMember
    <2>2. /\ x \in Rqs /\ g \in Groups /\ p \in Levels
          /\ \A h \in Groups \ {g} :
                /\ x.q[h] = r.q[h] /\ x.bits[h] = r.bits[h] /\ x.nr[h] = r.nr[h]
                /\ x.hi[h] = r.hi[h] /\ x.nb[h] = r.nb[h]
          /\ \A i \in Levels : q[i] = RemoveFirst(r.q[g][i], e)
          /\ bits = IF q[p] = <<>> THEN r.bits[g] \ {p} ELSE r.bits[g]
          /\ x.nr[g] = r.nr[g] - 1
          /\ x.hi[g] = IF r.nr[g] = 1 THEN MAX_RT_PRIO
                       ELSE IF p = r.hi[g] THEN FirstBit(bits) ELSE r.hi[g]
          /\ x.nb[g] = IF SeBoosted(r, tk, e) THEN r.nb[g] - 1 ELSE r.nb[g]
      <3>1. Dequeued(r, tk, e, g, p, x)
        BY <2>1, DequeueOneIs
      <3> HIDE DEF g, p, x
      <3> QED BY <3>1 DEF Dequeued
    <2>3. g \in Groups /\ p \in Levels /\ g \notin M /\ M \in SUBSET Entities
      BY <2>2 DEF Lists
    <2>4. ListsOf(r, tk, M, g)
      BY <2>3 DEF Lists
    <2>5. RqOf(tk, e) = g /\ SePrio(r, tk, e) = p
      OBVIOUS
    <2>6. (\A i \in Levels : q[i] = RemoveFirst(r.q[g][i], e)) /\ q = x.q[g] /\ bits = x.bits[g]
      BY <2>2
    <2>7. q[p] = <<>> => bits = r.bits[g] \ {p}
      BY <2>2
    <2>8. q[p] # <<>> => bits = r.bits[g]
      BY <2>2
    <2> HIDE DEF g, p, x, q, bits
    <2>9. \A d \in M : SePrio(x, tk, d) = SePrio(r, tk, d) /\ (SeBoosted(x, tk, d) <=> SeBoosted(r, tk, d))
      BY <2>2, <2>3, PlaceKept
    <2>10. ASSUME NEW h \in Groups \ {g} PROVE ListsOf(x, tk, N, h)
      <3>1. Mem(tk, N, h) = Mem(tk, M, h)
        BY <2>5, <2>10 DEF Mem
      <3>2. ListsOf(r, tk, M, h)
        BY DEF Lists
      <3>3. \A d \in Mem(tk, M, h) : d \in M
        BY DEF Mem
      <3> HIDE DEF N
      <3> QED BY <2>2, <2>9, <3>1, <3>2, <3>3, ListsSame
    <2>11. Mem(tk, N, g) = A \ {e} /\ e \in A /\ A \subseteq M
      BY <1>2, <2>5 DEF Mem
    <2>12. /\ \A i \in Levels : /\ IsInjective(r.q[g][i]) /\ r.q[g][i] \in Seq(Entities)
                               /\ Range(r.q[g][i]) = {d \in A : SePrio(r, tk, d) = i}
           /\ r.bits[g] = {i \in Levels : r.q[g][i] # <<>>}
           /\ r.nr[g] = Cardinality(A) /\ r.hi[g] = FirstBit(r.bits[g])
           /\ r.nb[g] = Cardinality({d \in A : SeBoosted(r, tk, d)})
      BY <2>3, <2>4 DEF ListsOf, Rqs
    <2> DEFINE B == {d \in A : SeBoosted(r, tk, d)}
               C == {d \in A \ {e} : SeBoosted(x, tk, d)}
    <2>13. IsFiniteSet(A) /\ Cardinality(A) \in Nat /\ IsFiniteSet(B) /\ Cardinality(B) \in Nat
      BY <2>3, MemIs
    <2>14. C = B \ {e} /\ (e \in B <=> SeBoosted(r, tk, e))
      BY <2>9, <2>11
    <2>15. \A i \in Levels : {d \in A \ {e} : SePrio(x, tk, d) = i} = {d \in A : SePrio(r, tk, d) = i} \ {e}
      BY <2>9, <2>11
    <2> HIDE DEF A, B, C, N
    <2>16. ASSUME NEW i \in Levels
           PROVE  /\ IsInjective(q[i]) /\ Range(q[i]) = Range(r.q[g][i]) \ {e}
                  /\ i # p => q[i] = r.q[g][i]
      <3>1. q[i] = RemoveFirst(r.q[g][i], e) /\ r.q[g][i] \in Seq(Entities) /\ IsInjective(r.q[g][i])
        BY <2>6, <2>12
      <3>2. CASE i = p
        <4>1. e \in Range(r.q[g][i])
          BY <2>5, <2>11, <2>12, <3>2
        <4> QED BY <3>1, <3>2, <4>1, DelFromList
      <3>3. CASE i # p
        <4>1. e \notin Range(r.q[g][i])
          BY <2>5, <2>11, <2>12, <3>3
        <4>2. q[i] = r.q[g][i]
          BY <3>1, <4>1, RemoveType
        <4> QED BY <3>1, <4>1, <4>2
      <3> QED BY <3>2, <3>3
    <2>17. \A i \in Levels : IsInjective(q[i]) /\ Range(q[i]) = {d \in A \ {e} : SePrio(x, tk, d) = i}
      BY <2>12, <2>15, <2>16
    <2>18. p \in r.bits[g]
      <3>1. e \in Range(r.q[g][p])
        BY <2>3, <2>5, <2>11, <2>12
      <3>2. r.q[g][p] # <<>>
        <4>1. r.q[g][p] \in Seq(Entities)
          BY <2>3, <2>12
        <4> QED BY <3>1, <4>1, RangeProperties
      <3> QED BY <2>3, <2>12, <3>2
    <2>19. bits = {i \in Levels : q[i] # <<>>}
      <3>1. \A i \in Levels \ {p} : q[i] # <<>> <=> i \in r.bits[g]
        BY <2>12, <2>16
      <3>2. r.bits[g] \subseteq Levels
        BY <2>12
      <3> QED BY <2>3, <2>7, <2>8, <2>18, <3>1, <3>2
    <2>20. Cardinality(A \ {e}) = Cardinality(A) - 1
      BY <2>11, <2>13, FS_RemoveElement
    <2>21. x.nb[g] = Cardinality(C)
      <3>1. CASE SeBoosted(r, tk, e)
        <4>1. Cardinality(B \ {e}) = Cardinality(B) - 1
          BY <2>13, <2>14, <3>1, FS_RemoveElement
        <4>2. r.nb[g] = Cardinality(B)
          BY <2>12 DEF B
        <4> QED BY <2>2, <2>14, <3>1, <4>1, <4>2
      <3>2. CASE ~SeBoosted(r, tk, e)
        <4>1. C = B
          BY <2>14, <3>2
        <4> QED BY <2>2, <2>5, <2>12, <3>2, <4>1 DEF B
      <3> QED BY <3>1, <3>2
    <2>22. x.hi[g] = FirstBit(bits)
      <3>1. bits \in SUBSET Levels
        BY <2>19
      <3>2. CASE r.nr[g] = 1
        <4>1. A \ {e} = {}
          <5>1. Cardinality(A \ {e}) = 0
            BY <2>12, <2>20, <3>2
          <5>2. IsFiniteSet(A \ {e})
            BY <2>13, FS_Difference
          <5> QED BY <5>1, <5>2, FS_EmptySet
        <4>2. \A i \in Levels : Range(q[i]) = {}
          BY <2>17, <4>1
        <4>3. \A i \in Levels : q[i] = <<>>
          <5>1. \A i \in Levels : q[i] \in Seq(Entities)
            BY <2>6, <2>12, RemoveType
          <5>2. ASSUME NEW i \in Levels PROVE q[i] = <<>>
            <6> DEFINE s == q[i]
            <6>1. s \in Seq(Entities) /\ Range(s) = {}
              BY <4>2, <5>1
            <6> HIDE DEF s
            <6>2. s = <<>>
              BY <6>1, EmptyRange
            <6> QED BY <6>2 DEF s
          <5> QED BY <5>2
        <4>4. bits = {}
          BY <2>19, <4>3
        <4>5. FirstBit(bits) = MAX_RT_PRIO
          BY <3>1, <4>4, FirstBitIs
        <4> QED BY <2>2, <3>2, <4>5
      <3>3. CASE r.nr[g] # 1 /\ p = r.hi[g]
        BY <2>2, <3>3
      <3>4. CASE r.nr[g] # 1 /\ p # r.hi[g]
        <4> DEFINE m == r.hi[g]
        <4>1. /\ m \in Levels /\ m \in r.bits[g] \cup {MAX_RT_PRIO} /\ m <= MAX_RT_PRIO
              /\ \A i \in r.bits[g] : m <= i
          <5>1. r.bits[g] \in SUBSET Levels /\ m = FirstBit(r.bits[g])
            BY <2>12
          <5> HIDE DEF m
          <5> QED BY <5>1, FirstBitIs
        <4>2. m <= p /\ m # p /\ p <= MAX_RT_PRIO /\ m \in Nat /\ p \in Nat /\ MAX_RT_PRIO \in Nat
          BY <2>3, <2>18, <3>4, <4>1, Statics
        <4>3. m \in r.bits[g] \ {p} /\ r.bits[g] \ {p} \subseteq bits /\ bits \subseteq r.bits[g]
          BY <2>7, <2>8, <4>1, <4>2
        <4>4. x.hi[g] = m
          BY <2>2, <3>4
        <4> HIDE DEF m
        <4>5. FirstBit(bits) = m
          BY <3>1, <4>1, <4>3, FirstBitLeast
        <4> QED BY <4>4, <4>5
      <3> QED BY <3>2, <3>3, <3>4
    <2>23. ListsOf(x, tk, N, g)
      <3>1. x.q[g] = q /\ x.bits[g] = bits /\ Mem(tk, N, g) = A \ {e}
        BY <2>6, <2>11
      <3>2. x.nr[g] = Cardinality(A \ {e})
        BY <2>2, <2>12, <2>20
      <3> QED BY <2>17, <2>19, <2>21, <2>22, <3>1, <3>2 DEF ListsOf, C
    <2>24. \A h \in Groups : ListsOf(x, tk, N, h)
      BY <2>10, <2>23
    <2> QED BY <2>3, <2>24 DEF Lists, N, x
  <1> QED BY <1>1, <1>2

LEMMA EnqueueConsistent ==
    ASSUME NEW tk \in TaskFields, NEW r \in Rqs, NEW M, Lists(r, tk, M), NEW e \in Entities,
           e \notin M, RqOf(tk, e) \notin M, MayQueue(r, e), NEW head \in BOOLEAN
    PROVE  Lists(EnqueueOne(r, tk, e, head), tk, M \cup {e})
  <1> DEFINE g == RqOf(tk, e)
             p == SePrio(r, tk, e)
             x == EnqueueOne(r, tk, e, head)
             A == Mem(tk, M, g)
             N == M \cup {e}
  <1>1. Enqueued(r, tk, e, head, g, p, x)
    BY EnqueueOneIs
  <1>2. g \notin M /\ M \in SUBSET Entities /\ RqOf(tk, e) = g /\ SePrio(r, tk, e) = p /\ g # e
    BY Elsewhere DEF Lists
  <1> HIDE DEF g, p, x
  <1>3. x \in Rqs /\ g \in Groups /\ p \in Levels
    BY <1>1 DEF Enqueued
  <1>4. ListsOf(r, tk, M, g)
    BY <1>3 DEF Lists
  <1>5. \A d \in N : SePrio(x, tk, d) = SePrio(r, tk, d) /\ (SeBoosted(x, tk, d) <=> SeBoosted(r, tk, d))
    <2>1. \A h \in Groups \ {g} : x.hi[h] = r.hi[h] /\ x.nb[h] = r.nb[h]
      BY <1>1 DEF Enqueued
    <2>2. \A d \in N : d \in Entities /\ d # g
      BY <1>2
    <2> HIDE DEF N
    <2> QED BY <1>3, <2>1, <2>2, PlaceKept
  <1>6. ASSUME NEW h \in Groups \ {g} PROVE ListsOf(x, tk, N, h)
    <2>1. Mem(tk, N, h) = Mem(tk, M, h)
      BY <1>2 DEF Mem
    <2>2. ListsOf(r, tk, M, h)
      BY DEF Lists
    <2>3. \A d \in Mem(tk, M, h) : d \in N
      BY DEF Mem
    <2>4. /\ x.q[h] = r.q[h] /\ x.bits[h] = r.bits[h] /\ x.nr[h] = r.nr[h]
          /\ x.hi[h] = r.hi[h] /\ x.nb[h] = r.nb[h]
      BY <1>1 DEF Enqueued
    <2> HIDE DEF N
    <2> QED BY <1>5, <2>1, <2>2, <2>3, <2>4, ListsSame
  <1>7. Mem(tk, N, g) = A \cup {e} /\ e \notin A /\ A \subseteq N /\ e \in N
    BY <1>2 DEF Mem
  <1>8. /\ \A i \in Levels : /\ IsInjective(r.q[g][i]) /\ r.q[g][i] \in Seq(Entities)
                             /\ Range(r.q[g][i]) = {d \in A : SePrio(r, tk, d) = i}
        /\ r.bits[g] = {i \in Levels : r.q[g][i] # <<>>}
        /\ r.nr[g] = Cardinality(A) /\ r.hi[g] = FirstBit(r.bits[g])
        /\ r.nb[g] = Cardinality({d \in A : SeBoosted(r, tk, d)})
    BY <1>3, <1>4 DEF ListsOf, Rqs
  <1> DEFINE B == {d \in A : SeBoosted(r, tk, d)}
             C == {d \in A \cup {e} : SeBoosted(x, tk, d)}
  <1>9. IsFiniteSet(A) /\ Cardinality(A) \in Nat /\ IsFiniteSet(B) /\ Cardinality(B) \in Nat
    BY <1>2, <1>3, MemIs
  <1>10. /\ SeBoosted(r, tk, e) => C = B \cup {e}
         /\ ~SeBoosted(r, tk, e) => C = B
         /\ e \notin B
    BY <1>5, <1>7
  <1>11. \A i \in Levels : {d \in A \cup {e} : SePrio(x, tk, d) = i}
                           = {d \in A : SePrio(r, tk, d) = i} \cup (IF i = p THEN {e} ELSE {})
    BY <1>2, <1>5, <1>7
  <1> HIDE DEF A, B, C, N
  <1>12. /\ \A i \in Levels \ {p} : x.q[g][i] = r.q[g][i]
         /\ IsInjective(x.q[g][p]) /\ Range(x.q[g][p]) = Range(r.q[g][p]) \cup {e}
         /\ x.q[g][p] \in Seq(Entities)
    <2> DEFINE s == r.q[g][p]
    <2>1. s \in Seq(Entities) /\ IsInjective(s) /\ e \notin Range(s)
      BY <1>3, <1>7, <1>8
    <2>2. x.q[g][p] = IF head THEN <<e>> \o s ELSE Append(s, e)
      BY <1>1 DEF Enqueued
    <2>3. \A i \in Levels \ {p} : x.q[g][i] = r.q[g][i]
      BY <1>1 DEF Enqueued
    <2> HIDE DEF s
    <2>4. /\ IsInjective(Append(s, e)) /\ Range(Append(s, e)) = Range(s) \cup {e}
          /\ Append(s, e) \in Seq(Entities)
      BY <2>1, AddTail
    <2>5. /\ IsInjective(<<e>> \o s) /\ Range(<<e>> \o s) = Range(s) \cup {e}
          /\ <<e>> \o s \in Seq(Entities)
      BY <2>1, AddHead
    <2> QED BY <2>2, <2>3, <2>4, <2>5 DEF s
  <1>13. \A i \in Levels : IsInjective(x.q[g][i]) /\ Range(x.q[g][i]) = {d \in A \cup {e} : SePrio(x, tk, d) = i}
    <2> SUFFICES ASSUME NEW i \in Levels
                 PROVE  IsInjective(x.q[g][i]) /\ Range(x.q[g][i]) = {d \in A \cup {e} : SePrio(x, tk, d) = i}
      OBVIOUS
    <2>1. CASE i = p
      BY <1>8, <1>11, <1>12, <2>1
    <2>2. CASE i # p
      BY <1>8, <1>11, <1>12, <2>2
    <2> QED BY <2>1, <2>2
  <1>14. x.bits[g] = {i \in Levels : x.q[g][i] # <<>>}
    <2>1. x.bits[g] = r.bits[g] \cup {p}
      BY <1>1 DEF Enqueued
    <2>2. x.q[g][p] # <<>>
      <3> DEFINE s == x.q[g][p]
      <3>1. s \in Seq(Entities) /\ Range(s) # {}
        BY <1>12
      <3> HIDE DEF s
      <3>2. s # <<>>
        BY <3>1, EmptyRange
      <3> QED BY <3>2 DEF s
    <2> QED BY <1>3, <1>8, <1>12, <2>1, <2>2
  <1>15. x.nr[g] = Cardinality(A \cup {e})
    <2>1. x.nr[g] = r.nr[g] + 1
      BY <1>1 DEF Enqueued
    <2>2. Cardinality(A \cup {e}) = Cardinality(A) + 1
      BY <1>7, <1>9, FS_AddElement
    <2> QED BY <1>8, <2>1, <2>2
  <1>16. x.nb[g] = Cardinality(C)
    <2>1. x.nb[g] = IF SeBoosted(r, tk, e) THEN r.nb[g] + 1 ELSE r.nb[g]
      BY <1>1 DEF Enqueued
    <2>2. Cardinality(B \cup {e}) = Cardinality(B) + 1
      BY <1>9, <1>10, FS_AddElement
    <2>3. r.nb[g] = Cardinality(B)
      BY <1>8 DEF B
    <2> QED BY <1>10, <2>1, <2>2, <2>3
  <1>17. x.hi[g] = FirstBit(x.bits[g])
    <2> DEFINE m == r.hi[g]
    <2>1. /\ m \in Levels /\ m \in r.bits[g] \cup {MAX_RT_PRIO} /\ m <= MAX_RT_PRIO
          /\ \A i \in r.bits[g] : m <= i
      <3>1. r.bits[g] \in SUBSET Levels /\ m = FirstBit(r.bits[g])
        BY <1>8
      <3> HIDE DEF m
      <3> QED BY <3>1, FirstBitIs
    <2>2. x.bits[g] = r.bits[g] \cup {p} /\ x.hi[g] = IF p < m THEN p ELSE m
      BY <1>1 DEF Enqueued
    <2>3. m \in Nat /\ p \in Nat /\ MAX_RT_PRIO \in Nat /\ p <= MAX_RT_PRIO /\ r.bits[g] \in SUBSET Nat
      BY <1>3, <1>8, <2>1, Statics
    <2>4. r.bits[g] \cup {p} \in SUBSET Levels
      BY <1>3, <1>8
    <2> DEFINE b == r.bits[g] \cup {p}
               y == IF p < m THEN p ELSE m
    <2>5. y \in b \cup {MAX_RT_PRIO} /\ y <= MAX_RT_PRIO
      BY <2>1, <2>3
    <2>6. \A i \in b : y <= i
      BY <2>1, <2>3
    <2> HIDE DEF m, b, y
    <2>7. FirstBit(b) = y
      BY <2>4, <2>5, <2>6, FirstBitLeast DEF b
    <2> QED BY <2>2, <2>7 DEF b, y
  <1>18. ListsOf(x, tk, N, g)
    BY <1>7, <1>13, <1>14, <1>15, <1>16, <1>17 DEF ListsOf, C
  <1>19. \A h \in Groups : ListsOf(x, tk, N, h)
    BY <1>6, <1>18
  <1>20. N \subseteq Entities
    BY <1>2 DEF N
  <1> QED BY <1>19, <1>20 DEF Lists, N, x

LEMMA ReverseIs ==
    ASSUME NEW S, NEW s \in Seq(S)
    PROVE  /\ Reverse(s) \in Seq(S) /\ Len(Reverse(s)) = Len(s) /\ Len(s) \in Nat
           /\ \A k \in 1 .. Len(s) : Len(s) - k + 1 \in 1 .. Len(s) /\ Reverse(s)[k] = s[Len(s) - k + 1]
  <1> DEFINE n == Len(s)
  <1>1. n \in Nat /\ \A k \in 1 .. n : s[k] \in S
    BY ElementOfSeq
  <1>2. Reverse(s) = [k \in 1 .. n |-> s[(n - k) + 1]]
    BY DEF Reverse
  <1> HIDE DEF n
  <1>3. \A k \in 1 .. n : (n - k) + 1 \in 1 .. n
    BY <1>1
  <1>4. Reverse(s) \in [1 .. n -> S]
    BY <1>1, <1>2, <1>3
  <1>5. Reverse(s) \in Seq(S)
    BY <1>1, <1>4
  <1>6. Len(Reverse(s)) = n
    BY <1>1, <1>4
  <1> QED BY <1>1, <1>2, <1>3, <1>5, <1>6 DEF n

-----------------------------------------------------------------------------
(* The entities of a chain leave and come back *)

\* What a chain has above its k-th entity, and the rt_rqs it is in.
After(c, k) == {c[j] : j \in k + 1 .. Len(c)}
Under(tk, c) == {RqOf(tk, c[k]) : k \in 1 .. Len(c)}

\* The groups that are in the lists when these agree with the counts.
Up(r) == {g \in Groups \ {Root} : r.nr[g] > 0 /\ ~Throttled(r, g)}

LEMMA ChainIs ==
    ASSUME NEW tk \in TaskFields, NEW c, Rising(c, tk)
    PROVE  /\ c \in Seq(Entities) /\ Len(c) \in Nat
           /\ Range(c) = After(c, 0) /\ After(c, Len(c)) = {}
           /\ \A k \in 1 .. Len(c) :
                 /\ c[k] \in Entities /\ After(c, k - 1) = {c[k]} \cup After(c, k)
                 /\ c[k] \notin After(c, k)
                 /\ RqOf(tk, c[k]) \in After(c, k) \cup {Root}
           /\ Under(tk, c) \subseteq After(c, 1) \cup {Root}
  <1>1. /\ c \in Seq(Entities) /\ Len(c) \in Nat /\ Range(c) = {c[k] : k \in 1 .. Len(c)}
        /\ \A k \in 1 .. Len(c) : c[k] \in Entities
    BY RangeProperties, ElementOfSeq DEF Rising
  <1>2. Range(c) = After(c, 0) /\ After(c, Len(c)) = {}
    BY <1>1 DEF After
  <1>3. ASSUME NEW k \in 1 .. Len(c)
        PROVE  After(c, k - 1) = {c[k]} \cup After(c, k) /\ c[k] \notin After(c, k)
    <2>1. k - 1 + 1 .. Len(c) = {k} \cup (k + 1 .. Len(c))
      BY <1>1
    <2>2. After(c, k - 1) = {c[k]} \cup After(c, k)
      BY <2>1 DEF After
    <2>3. \A j \in k + 1 .. Len(c) : j \in 1 .. Len(c) /\ j # k
      BY <1>1
    <2>4. DOMAIN c = 1 .. Len(c)
      BY <1>1, LenProperties
    <2>5. \A j \in k + 1 .. Len(c) : c[j] # c[k]
      BY <2>3, <2>4 DEF Rising, IsInjective
    <2> QED BY <2>2, <2>5 DEF After
  <1>4. ASSUME NEW k \in 1 .. Len(c)
        PROVE  RqOf(tk, c[k]) \in After(c, k) \cup {Root} /\ RqOf(tk, c[k]) \in After(c, 1) \cup {Root}
    <2>1. RqOf(tk, c[k]) = IF k < Len(c) THEN c[k + 1] ELSE Root
      BY DEF Rising
    <2>2. k < Len(c) => k + 1 \in k + 1 .. Len(c) /\ k + 1 \in 1 + 1 .. Len(c)
      BY <1>1
    <2> QED BY <2>1, <2>2 DEF After
  <1>5. Under(tk, c) \subseteq After(c, 1) \cup {Root}
    BY <1>4 DEF Under
  <1> QED BY <1>1, <1>2, <1>3, <1>4, <1>5

\* What x keeps of r when only the rt_rqs in G change.
Kept(r, x, G) ==
    /\ x \in Rqs /\ x.time = r.time /\ x.thr = r.thr
    /\ \A g \in Groups \ G : x.nr[g] = r.nr[g] /\ x.nb[g] = r.nb[g] /\ x.hi[g] = r.hi[g]
Timers(r) == \A g \in Groups : r.nr[g] > 0 => r.timer[g]
AllStart == \A g \in Groups : StartsTimer(g)
KeptTimers(r, x) == AllStart /\ Timers(r) => Timers(x)

LEMMA KeptStep ==
    ASSUME NEW r, NEW x, NEW y, NEW G, Kept(r, x, G), Kept(x, y, G), KeptTimers(r, x), KeptTimers(x, y)
    PROVE  Kept(r, y, G) /\ KeptTimers(r, y)
  BY DEF Kept, KeptTimers

LEMMA DequeueKept ==
    ASSUME NEW tk \in TaskFields, NEW r \in Rqs, NEW e \in Entities, NEW G, RqOf(tk, e) \in G
    PROVE  Kept(r, DequeueOne(r, tk, e), G) /\ KeptTimers(r, DequeueOne(r, tk, e))
  <1> DEFINE x == DequeueOne(r, tk, e)
             g == RqOf(tk, e)
             p == SePrio(r, tk, e)
  <1>1. CASE ~OnRtRq(r, e)
    <2>1. x = r
      BY <1>1 DEF DequeueOne
    <2> HIDE DEF x
    <2>2. Kept(r, x, G) /\ KeptTimers(r, x)
      BY <2>1 DEF Kept, KeptTimers
    <2> QED BY <2>2 DEF x
  <1>2. CASE OnRtRq(r, e)
    <2>1. Dequeued(r, tk, e, g, p, x)
      BY <1>2, DequeueOneIs
    <2>2. g \in G
      OBVIOUS
    <2> HIDE DEF g, p, x
    <2>3. Kept(r, x, G)
      BY <2>1, <2>2 DEF Dequeued, Kept
    <2>4. ASSUME NEW h \in Groups PROVE x.nr[h] \in Int /\ r.nr[h] \in Int /\ x.nr[h] <= r.nr[h]
      <3>1. x.nr[h] \in Int /\ r.nr[h] \in Int
        BY <2>1 DEF Dequeued, Rqs
      <3>2. x.nr[h] = r.nr[h] \/ x.nr[h] = r.nr[h] - 1
        BY <2>1 DEF Dequeued
      <3> QED BY <3>1, <3>2
    <2>5. x.timer = r.timer
      BY <2>1 DEF Dequeued
    <2>6. KeptTimers(r, x)
      <3> SUFFICES ASSUME Timers(r), NEW h \in Groups, x.nr[h] > 0 PROVE x.timer[h]
        BY DEF KeptTimers, Timers
      <3>1. r.nr[h] > 0
        BY <2>4
      <3> QED BY <2>5, <3>1 DEF Timers
    <2> QED BY <2>3, <2>6 DEF x
  <1> QED BY <1>1, <1>2

LEMMA EnqueueKept ==
    ASSUME NEW tk \in TaskFields, NEW r \in Rqs, NEW e \in Entities, NEW G, RqOf(tk, e) \in G,
           NEW head \in BOOLEAN
    PROVE  Kept(r, EnqueueOne(r, tk, e, head), G) /\ KeptTimers(r, EnqueueOne(r, tk, e, head))
  <1> DEFINE x == EnqueueOne(r, tk, e, head)
             g == RqOf(tk, e)
             p == SePrio(r, tk, e)
  <1>1. CASE ~MayQueue(r, e)
    <2>1. x = r
      BY <1>1 DEF EnqueueOne
    <2> HIDE DEF x
    <2>2. Kept(r, x, G) /\ KeptTimers(r, x)
      BY <2>1 DEF Kept, KeptTimers
    <2> QED BY <2>2 DEF x
  <1>2. CASE MayQueue(r, e)
    <2>1. Enqueued(r, tk, e, head, g, p, x)
      BY <1>2, EnqueueOneIs
    <2>2. g \in G
      OBVIOUS
    <2> HIDE DEF g, p, x
    <2>3. Kept(r, x, G)
      BY <2>1, <2>2 DEF Enqueued, Kept
    <2>4. KeptTimers(r, x)
      <3> SUFFICES ASSUME AllStart, Timers(r), NEW h \in Groups, x.nr[h] > 0 PROVE x.timer[h]
        BY DEF KeptTimers, Timers
      <3>1. CASE h = g
        BY <2>1, <3>1 DEF Enqueued, AllStart
      <3>2. CASE h # g
        BY <2>1, <3>2 DEF Enqueued, Timers
      <3> QED BY <3>1, <3>2
    <2> QED BY <2>3, <2>4 DEF x
  <1> QED BY <1>1, <1>2

\* Without the rt_rqs of a chain, the same groups are up.
LEMMA UpKept ==
    ASSUME NEW r, NEW x, NEW G, Kept(r, x, G)
    PROVE  Up(x) \ G = Up(r) \ G
  BY DEF Kept, Up, Throttled

LEMMA StackKeeps ==
    ASSUME NEW tk \in TaskFields, NEW r \in Rqs, NEW c, Rising(c, tk), NEW M, Lists(r, tk, M)
    PROVE  /\ DequeueStack(r, tk, c) \in Rqs
           /\ Lists(DequeueStack(r, tk, c), tk, M \ Range(c))
           /\ Kept(r, DequeueStack(r, tk, c), Under(tk, c))
           /\ KeptTimers(r, DequeueStack(r, tk, c))
  <1> DEFINE n == Len(c)
             d == Reverse(c)
             G == Under(tk, c)
  <1>1. c \in Seq(Entities) /\ n \in Nat /\ Range(c) = After(c, 0) /\ After(c, n) = {}
    BY ChainIs
  <1>2. /\ d \in Seq(Entities) /\ Len(d) = n
        /\ \A k \in 1 .. n : n - k + 1 \in 1 .. n /\ d[k] = c[n - k + 1]
    BY <1>1, ReverseIs
  <1>3. PICK f : /\ f[0] = r
                 /\ \A k \in 0 .. n : f[k] \in Rqs
                 /\ \A k \in 1 .. n : f[k] = DequeueOne(f[k - 1], tk, d[k])
                 /\ DequeueStack(r, tk, c) = f[n]
    <2>1. \E f : /\ f[0] = r
                 /\ \A k \in 0 .. Len(Reverse(c)) : f[k] \in Rqs
                 /\ \A k \in 1 .. Len(Reverse(c)) : f[k] = DequeueOne(f[k - 1], tk, Reverse(c)[k])
                 /\ DequeueStack(r, tk, c) = f[Len(Reverse(c))]
      <3>1. c \in Seq(Entities) /\ Reverse(c) \in Seq(Entities)
        BY <1>1, <1>2
      <3> HIDE DEF d, n
      <3> QED BY <3>1, DequeueStackFold
    <2>2. Len(Reverse(c)) = n
      BY <1>2
    <2> HIDE DEF n
    <2> QED BY <2>1, <2>2 DEF d
  <1> DEFINE Ok(k) == /\ Lists(f[k], tk, M \ After(c, n - k))
                      /\ Kept(r, f[k], G) /\ KeptTimers(r, f[k])
             S == {k \in 0 .. n : Ok(k)}
  <1> HIDE DEF n, d, G
  <1>4. 0 \in S
    <2>1. n - 0 = n /\ M \ After(c, n) = M /\ 0 \in 0 .. n
      BY <1>1
    <2>2. Kept(r, r, G) /\ KeptTimers(r, r)
      BY DEF Kept, KeptTimers
    <2> QED BY <1>3, <2>1, <2>2
  <1>5. ASSUME NEW k \in 1 .. n, k - 1 \in S PROVE k \in S
    <2> DEFINE m == n - k + 1
               e == c[m]
               x == f[k - 1]
               N == M \ After(c, m)
    <2>1. m \in 1 .. n /\ n - (k - 1) = m /\ m - 1 = n - k /\ k - 1 \in 0 .. n
      BY <1>1
    <2>2. /\ e \in Entities /\ After(c, m - 1) = {e} \cup After(c, m)
          /\ RqOf(tk, e) \in After(c, m) \cup {Root} /\ RqOf(tk, e) \in G
      <3>1. m \in 1 .. Len(c)
        BY <2>1 DEF n
      <3> HIDE DEF m
      <3> QED BY <3>1, ChainIs DEF Under, G
    <2>3. x \in Rqs /\ Lists(x, tk, N) /\ Kept(r, x, G) /\ KeptTimers(r, x) /\ f[k] = DequeueOne(x, tk, e)
      BY <1>2, <1>3, <1>5, <2>1
    <2>4. RqOf(tk, e) \notin N
      BY <2>2, Statics DEF Lists
    <2>5. N \ {e} = M \ After(c, n - k)
      BY <2>1, <2>2
    <2> HIDE DEF m, e, x, N
    <2>6. Lists(f[k], tk, N \ {e})
      BY <2>2, <2>3, <2>4, DequeueConsistent
    <2>7. Kept(r, f[k], G) /\ KeptTimers(r, f[k])
      BY <2>2, <2>3, DequeueKept, KeptStep
    <2> QED BY <2>5, <2>6, <2>7
  <1>6. n \in S
    <2> HIDE DEF S
    <2>1. \A k \in 0 .. n : k \in S
      BY <1>1, <1>4, <1>5, UpTo
    <2> QED BY <1>1, <2>1
  <1>7. n - n = 0
    BY <1>1
  <1> QED BY <1>1, <1>3, <1>6, <1>7 DEF Kept, G

Good(r, tk, S) == r \in Rqs /\ S \subseteq Tasks /\ Lists(r, tk, S \cup Up(r))

Looped(r, x, tk, c, k, S, head) ==
    x = IF c[k] \in S \cup Up(r) THEN EnqueueOne(r, tk, c[k], head) ELSE r

LEMMA LoopStep ==
    ASSUME NEW tk \in TaskFields, NEW r \in Rqs, NEW c, Rising(c, tk), NEW k \in 1 .. Len(c),
           NEW S \in SUBSET Tasks, Lists(r, tk, (S \cup Up(r)) \ After(c, k - 1)),
           NEW head \in BOOLEAN, NEW x, Looped(r, x, tk, c, k, S, head)
    PROVE  /\ x \in Rqs /\ Lists(x, tk, (S \cup Up(x)) \ After(c, k))
           /\ Kept(r, x, Under(tk, c)) /\ KeptTimers(r, x)
  <1> DEFINE e == c[k]
             G == Under(tk, c)
             A == After(c, k)
             N == (S \cup Up(r)) \ After(c, k - 1)
  <1>1. /\ e \in Entities /\ After(c, k - 1) = {e} \cup A /\ e \notin A
        /\ RqOf(tk, e) \in A \cup {Root} /\ RqOf(tk, e) \in G
    BY ChainIs DEF Under
  <1>2. Lists(r, tk, N) /\ e \notin N /\ RqOf(tk, e) \notin N
    BY <1>1, Statics DEF Lists
  <1>3. x = IF e \in S \cup Up(r) THEN EnqueueOne(r, tk, e, head) ELSE r
    BY DEF Looped
  <1>4. N = ((S \cup Up(r)) \ A) \ {e}
    BY <1>1
  <1>5. CASE e \notin S \cup Up(r)
    <2>1. x = r
      BY <1>3, <1>5
    <2>2. N = (S \cup Up(x)) \ A
      BY <1>4, <1>5, <2>1
    <2>3. Kept(r, x, G) /\ KeptTimers(r, x)
      BY <2>1 DEF Kept, KeptTimers
    <2> QED BY <1>2, <2>1, <2>2, <2>3
  <1>6. CASE e \in S \cup Up(r)
    <2>1. MayQueue(r, e)
      BY <1>6, Statics DEF MayQueue, Up
    <2>2. x = EnqueueOne(r, tk, e, head)
      BY <1>3, <1>6
    <2> HIDE DEF N, A, G, e
    <2>3. Lists(x, tk, N \cup {e})
      BY <1>1, <1>2, <2>1, <2>2, EnqueueConsistent
    <2>4. Kept(r, x, {RqOf(tk, e)}) /\ Kept(r, x, G) /\ KeptTimers(r, x)
      BY <1>1, <2>2, EnqueueKept
    <2>5. Up(x) \ {RqOf(tk, e)} = Up(r) \ {RqOf(tk, e)}
      BY <2>4, UpKept
    <2>6. Root \notin Up(x) /\ Root \notin Up(r)
      BY DEF Up
    <2>7. Up(x) \ A = Up(r) \ A
      BY <1>1, <2>5, <2>6
    <2>8. N \cup {e} = (S \cup Up(x)) \ A
      BY <1>1, <1>4, <1>6, <2>7
    <2>9. x \in Rqs
      BY <2>4 DEF Kept
    <2> QED BY <2>3, <2>4, <2>8, <2>9 DEF A, G
  <1> QED BY <1>5, <1>6

Loops(f, r, tk, c, S, head) ==
    /\ f[0] = DequeueStack(r, tk, c)
    /\ \A k \in 1 .. Len(c) : f[k] = IF c[k] \in S \cup Up(f[k - 1])
                                      THEN EnqueueOne(f[k - 1], tk, c[k], head) ELSE f[k - 1]

\* The loop of enqueue_rt_entity and of dequeue_rt_entity, S being the tasks
\* that are to be queued after it.
LEMMA LoopKeeps ==
    ASSUME NEW tk \in TaskFields, NEW r \in Rqs, NEW c, Rising(c, tk), NEW M, Lists(r, tk, M),
           NEW S \in SUBSET Tasks, M \ Range(c) = (S \cup Up(r)) \ Range(c), NEW head \in BOOLEAN,
           NEW f, Loops(f, r, tk, c, S, head)
    PROVE  /\ Good(f[Len(c)], tk, S) /\ Kept(r, f[Len(c)], Under(tk, c))
           /\ KeptTimers(r, f[Len(c)])
  <1> DEFINE n == Len(c)
             G == Under(tk, c)
             b == DequeueStack(r, tk, c)
             Ok(k) == /\ f[k] \in Rqs /\ Lists(f[k], tk, (S \cup Up(f[k])) \ After(c, k))
                      /\ Kept(r, f[k], G) /\ KeptTimers(r, f[k])
             K == {k \in 0 .. n : Ok(k)}
  <1>1. n \in Nat /\ Range(c) = After(c, 0) /\ After(c, n) = {} /\ G \subseteq After(c, 0) \cup {Root}
    <2>1. After(c, 1) \subseteq After(c, 0)
      BY DEF After
    <2> QED BY <2>1, ChainIs
  <1>2. /\ b \in Rqs /\ Lists(b, tk, M \ Range(c)) /\ Kept(r, b, G) /\ KeptTimers(r, b)
    BY StackKeeps
  <1>3. M \ Range(c) = (S \cup Up(b)) \ After(c, 0)
    <2> HIDE DEF b, G
    <2>1. Up(b) \ G = Up(r) \ G
      BY <1>2, UpKept
    <2>2. Root \notin Up(b) /\ Root \notin Up(r)
      BY DEF Up
    <2>3. Up(b) \ After(c, 0) = Up(r) \ After(c, 0)
      BY <1>1, <2>1, <2>2
    <2> QED BY <1>1, <2>3
  <1>4. 0 \in K
    <2>1. f[0] = b /\ 0 \in 0 .. n
      BY <1>1 DEF Loops
    <2> HIDE DEF b, G, n
    <2> QED BY <1>2, <1>3, <2>1
  <1>5. ASSUME NEW k \in 1 .. n, k - 1 \in K PROVE k \in K
    <2> DEFINE x == f[k - 1]
    <2>1. f[k] = IF c[k] \in S \cup Up(x) THEN EnqueueOne(x, tk, c[k], head) ELSE x
      BY DEF Loops
    <2>2. Ok(k - 1) /\ k \in 1 .. Len(c) /\ k \in 0 .. n
      BY <1>5
    <2>3. x \in Rqs /\ Lists(x, tk, (S \cup Up(x)) \ After(c, k - 1)) /\ Kept(r, x, G) /\ KeptTimers(r, x)
      BY <2>2
    <2> DEFINE y == f[k]
    <2> HIDE DEF x, y, n
    <2>4. y \in Rqs /\ Lists(y, tk, (S \cup Up(y)) \ After(c, k)) /\ Kept(x, y, G) /\ KeptTimers(x, y)
      <3>1. Looped(x, y, tk, c, k, S, head)
        BY <2>1 DEF y, Looped
      <3>2. x \in Rqs /\ Lists(x, tk, (S \cup Up(x)) \ After(c, k - 1))
        BY <2>3
      <3>3. k \in 1 .. Len(c)
        BY <2>2
      <3> QED BY <3>1, <3>2, <3>3, LoopStep, Zenon
    <2> HIDE DEF G
    <2>5. Kept(r, y, G) /\ KeptTimers(r, y)
      BY <2>3, <2>4, KeptStep
    <2> QED BY <2>2, <2>4, <2>5 DEF y
  <1>6. n \in K
    <2> HIDE DEF K
    <2>1. \A k \in 0 .. n : k \in K
      BY <1>1, <1>4, <1>5, UpTo
    <2> QED BY <1>1, <2>1
  <1>7. (S \cup Up(f[n])) \ After(c, n) = S \cup Up(f[n])
    BY <1>1
  <1> QED BY <1>6, <1>7 DEF Good

LEMMA EnqueueEntityKeeps ==
    ASSUME NEW tk \in TaskFields, NEW r \in Rqs, NEW c, Rising(c, tk), NEW M, Lists(r, tk, M),
           NEW S \in SUBSET Tasks, M \ Range(c) = (S \cup Up(r)) \ Range(c), NEW head \in BOOLEAN,
           Range(c) \cap Tasks \subseteq S
    PROVE  /\ Good(EnqueueEntity(r, tk, c, head), tk, S)
           /\ Kept(r, EnqueueEntity(r, tk, c, head), Under(tk, c))
           /\ KeptTimers(r, EnqueueEntity(r, tk, c, head))
  <1>1. c \in Seq(Entities) /\ DequeueStack(r, tk, c) \in Rqs
    BY ChainIs, StackKeeps
  <1>2. PICK f : /\ f[0] = DequeueStack(r, tk, c)
                 /\ \A k \in 0 .. Len(c) : f[k] \in Rqs
                 /\ \A k \in 1 .. Len(c) : f[k] = EnqueueOne(f[k - 1], tk, c[k], head)
                 /\ EnqueueEntity(r, tk, c, head) = f[Len(c)]
    BY <1>1, EnqueueFold
  <1>3. ASSUME NEW k \in 1 .. Len(c)
        PROVE  f[k] = IF c[k] \in S \cup Up(f[k - 1])
                      THEN EnqueueOne(f[k - 1], tk, c[k], head) ELSE f[k - 1]
    <2>1. f[k] = EnqueueOne(f[k - 1], tk, c[k], head)
      BY <1>2
    <2>2. c[k] \in Entities /\ c[k] \in Range(c)
      BY ChainIs, RangeProperties
    <2>3. c[k] \in S \/ c[k] \in Groups \ {Root}
      BY <2>2, Statics
    <2>4. c[k] \in Groups \ {Root} /\ c[k] \notin Up(f[k - 1]) => ~MayQueue(f[k - 1], c[k])
      BY DEF MayQueue, Up
    <2> QED BY <2>1, <2>3, <2>4 DEF EnqueueOne
  <1>4. Loops(f, r, tk, c, S, head)
    BY <1>2, <1>3 DEF Loops
  <1>5. /\ Good(f[Len(c)], tk, S) /\ Kept(r, f[Len(c)], Under(tk, c))
        /\ KeptTimers(r, f[Len(c)])
    BY <1>4, LoopKeeps
  <1> QED BY <1>2, <1>5

LEMMA DequeueEntityKeeps ==
    ASSUME NEW tk \in TaskFields, NEW r \in Rqs, NEW c, Rising(c, tk), NEW M, Lists(r, tk, M),
           NEW S \in SUBSET Tasks, M \ Range(c) = (S \cup Up(r)) \ Range(c),
           Range(c) \cap S = {}
    PROVE  /\ Good(DequeueEntity(r, tk, c), tk, S)
           /\ Kept(r, DequeueEntity(r, tk, c), Under(tk, c))
           /\ KeptTimers(r, DequeueEntity(r, tk, c))
  <1>1. c \in Seq(Entities) /\ DequeueStack(r, tk, c) \in Rqs
    BY ChainIs, StackKeeps
  <1>2. PICK f : /\ f[0] = DequeueStack(r, tk, c)
                 /\ \A k \in 0 .. Len(c) : f[k] \in Rqs
                 /\ \A k \in 1 .. Len(c) : f[k] = IF c[k] \in Groups /\ f[k - 1].nr[c[k]] > 0
                                                  THEN EnqueueOne(f[k - 1], tk, c[k], FALSE) ELSE f[k - 1]
                 /\ DequeueEntity(r, tk, c) = f[Len(c)]
    BY <1>1, ReenqueueFold
  <1>3. ASSUME NEW k \in 1 .. Len(c)
        PROVE  f[k] = IF c[k] \in S \cup Up(f[k - 1])
                      THEN EnqueueOne(f[k - 1], tk, c[k], FALSE) ELSE f[k - 1]
    <2>1. f[k] = IF c[k] \in Groups /\ f[k - 1].nr[c[k]] > 0
                 THEN EnqueueOne(f[k - 1], tk, c[k], FALSE) ELSE f[k - 1]
      BY <1>2
    <2>2. c[k] \in Entities /\ c[k] \notin S
      BY ChainIs, RangeProperties
    <2>3. c[k] \notin Groups \/ c[k] \in Groups \ {Root}
      BY <2>2, Statics
    <2>4. c[k] \in Groups \ {Root} /\ c[k] \notin Up(f[k - 1]) => ~MayQueue(f[k - 1], c[k])
      BY DEF MayQueue, Up
    <2>5. c[k] \in Up(f[k - 1]) => c[k] \in Groups /\ f[k - 1].nr[c[k]] > 0
      BY DEF Up
    <2> QED BY <2>1, <2>2, <2>3, <2>4, <2>5 DEF EnqueueOne
  <1>4. Loops(f, r, tk, c, S, FALSE)
    BY <1>2, <1>3 DEF Loops
  <1>5. /\ Good(f[Len(c)], tk, S) /\ Kept(r, f[Len(c)], Under(tk, c))
        /\ KeptTimers(r, f[Len(c)])
    BY <1>4, LoopKeeps
  <1> QED BY <1>2, <1>5

-----------------------------------------------------------------------------
(* Requeue, and the charge of the groups of curr *)

Limits(rs) == rs \in [Groups -> 0 .. Period \cup {RUNTIME_INF}]
Accs == [r : Rqs, stop : BOOLEAN]

RequeueOne(x, tk, e) ==
    IF OnRtRq(x, e)
    THEN [x EXCEPT !.q[RqOf(tk, e)][SePrio(x, tk, e)] = Append(RemoveFirst(@, e), e)]
    ELSE x

LEMMA RequeueTypes ==
    ASSUME NEW tk \in TaskFields, NEW r \in Rqs, NEW e \in Entities
    PROVE  RequeueOne(r, tk, e) \in Rqs
  <1> DEFINE g == RqOf(tk, e)
             p == SePrio(r, tk, e)
             l == Append(RemoveFirst(r.q[g][p], e), e)
             x == [r EXCEPT !.q[g][p] = l]
             Q == [r.q EXCEPT ![g] = [r.q[g] EXCEPT ![p] = l]]
  <1>1. g \in Groups /\ p \in Levels
    BY PlaceTypes
  <1>2. l \in Seq(Entities)
    <2>1. r.q[g][p] \in Seq(Entities)
      BY <1>1 DEF Rqs
    <2>2. RemoveFirst(r.q[g][p], e) \in Seq(Entities)
      BY <2>1, RemoveType
    <2> QED BY <2>2, AppendProperties
  <1>3. RequeueOne(r, tk, e) = IF OnRtRq(r, e) THEN x ELSE r
    BY <1>1 DEF RequeueOne, Rqs
  <1> HIDE DEF g, p, l
  <1>4. Q \in [Groups -> [Levels -> Seq(Entities)]]
    BY <1>1, <1>2 DEF Rqs
  <1>5. x = [r EXCEPT !.q = Q]
    BY <1>1 DEF Rqs
  <1> HIDE DEF Q
  <1>6. x \in Rqs
    BY <1>4, <1>5 DEF Rqs
  <1> QED BY <1>3, <1>6

LEMMA EntityFoldTypes ==
    ASSUME NEW tk \in TaskFields, NEW r \in Rqs, NEW c \in Seq(Entities)
    PROVE  DequeueEntity(r, tk, c) \in Rqs
  <1>1. Reverse(c) \in Seq(Entities) /\ Len(Reverse(c)) \in Nat /\ Len(c) \in Nat
    BY ReverseIs
  <1>2. DequeueStack(r, tk, c) \in Rqs
    <2>1. PICK f : /\ f[0] = r
                   /\ \A k \in 0 .. Len(Reverse(c)) : f[k] \in Rqs
                   /\ \A k \in 1 .. Len(Reverse(c)) : f[k] = DequeueOne(f[k - 1], tk, Reverse(c)[k])
                   /\ DequeueStack(r, tk, c) = f[Len(Reverse(c))]
      BY <1>1, DequeueStackFold
    <2> QED BY <1>1, <2>1
  <1>3. PICK f : /\ f[0] = DequeueStack(r, tk, c)
                 /\ \A k \in 0 .. Len(c) : f[k] \in Rqs
                 /\ \A k \in 1 .. Len(c) : f[k] = IF c[k] \in Groups /\ f[k - 1].nr[c[k]] > 0
                                                  THEN EnqueueOne(f[k - 1], tk, c[k], FALSE) ELSE f[k - 1]
                 /\ DequeueEntity(r, tk, c) = f[Len(c)]
    BY <1>2, ReenqueueFold
  <1> QED BY <1>1, <1>3

\* A group's time passes.
Charged(r, g, d, x) == x = [r EXCEPT !.time[g] = IF @ + d > MaxTime THEN @ ELSE @ + d]

LEMMA ChargedTypes ==
    ASSUME NEW r \in Rqs, NEW g \in Groups, NEW d \in Nat,
           NEW x, Charged(r, g, d, x)
    PROVE  /\ x \in Rqs /\ x.time[g] >= r.time[g] /\ \A h \in Groups \ {g} : x.time[h] = r.time[h]
           /\ x.q = r.q /\ x.bits = r.bits /\ x.nr = r.nr /\ x.hi = r.hi /\ x.nb = r.nb
           /\ x.thr = r.thr /\ x.timer = r.timer
  <1> DEFINE v == IF r.time[g] + d > MaxTime THEN r.time[g] ELSE r.time[g] + d
             T == [r.time EXCEPT ![g] = v]
  <1>1. r.time \in [Groups -> 0 .. MaxTime] /\ MaxTime \in Nat
    BY TimeAssumption DEF Rqs
  <1>2. v \in 0 .. MaxTime /\ v >= r.time[g]
    BY <1>1
  <1>3. x = [r EXCEPT !.time = T]
    BY <1>1 DEF Rqs, Charged
  <1> HIDE DEF v
  <1>4. T \in [Groups -> 0 .. MaxTime] /\ T[g] = v /\ \A h \in Groups \ {g} : T[h] = r.time[h]
    BY <1>1, <1>2
  <1> HIDE DEF T
  <1> QED BY <1>2, <1>3, <1>4 DEF Rqs

LEMMA ExceededTypes ==
    ASSUME task \in TaskFields, NEW r \in Rqs, NEW g \in Groups
    PROVE  Exceeded(r, g) \in Accs
  <1> DEFINE hit == ~r.thr[g] /\ runtime[g] < Period /\ r.time[g] > runtime[g]
             r1 == IF ~hit THEN r
                   ELSE IF runtime[g] # 0 THEN [r EXCEPT !.thr[g] = TRUE]
                   ELSE [r EXCEPT !.time[g] = 0]
             out == hit /\ Throttled(r1, g)
             stop == out \/ (r.thr[g] /\ Throttled(r, g))
  <1>1. r1 \in Rqs
    <2>1. [r EXCEPT !.thr[g] = TRUE] \in Rqs
      BY DEF Rqs
    <2>2. [r EXCEPT !.time[g] = 0] \in Rqs
      <3>1. 0 \in 0 .. MaxTime
        BY TimeAssumption
      <3> QED BY <3>1 DEF Rqs
    <2> QED BY <2>1, <2>2
  <1>2. path[g] \in Seq(Entities)
    BY PathRises DEF Rising
  <1>3. Exceeded(r, g) = [r |-> IF out THEN DequeueEntity(r1, task, path[g]) ELSE r1, stop |-> stop]
    BY DEF Exceeded
  <1>4. stop \in BOOLEAN
    OBVIOUS
  <1> HIDE DEF hit, r1, out, stop
  <1>5. (IF out THEN DequeueEntity(r1, task, path[g]) ELSE r1) \in Rqs
    BY <1>1, <1>2, EntityFoldTypes
  <1> QED BY <1>3, <1>4, <1>5 DEF Accs

LEMMA ChargeTypes ==
    ASSUME task \in TaskFields, NEW d \in Nat
    PROVE  \A acc \in Accs, e \in Entities : Charge(acc, RqOf(task, e), d) \in Accs
  <1> SUFFICES ASSUME NEW acc \in Accs, NEW e \in Entities
               PROVE  Charge(acc, RqOf(task, e), d) \in Accs
    OBVIOUS
  <1> DEFINE g == RqOf(task, e)
             r == [acc.r EXCEPT !.time[g] = IF @ + d > MaxTime THEN @ ELSE @ + d]
             x == Exceeded(r, g)
             stop == acc.stop \/ x.stop
  <1>1. g \in Groups
    BY Elsewhere
  <1>2. acc.r \in Rqs /\ acc.stop \in BOOLEAN
    BY DEF Accs
  <1>3. r \in Rqs
    <2> DEFINE y == r
    <2>1. Charged(acc.r, g, d, y)
      BY DEF Charged
    <2> HIDE DEF y, g
    <2>2. y \in Rqs
      BY <1>1, <1>2, <2>1, ChargedTypes
    <2> QED BY <2>2 DEF y
  <1>4. Charge(acc, g, d) = IF runtime[g] = RUNTIME_INF THEN acc ELSE [r |-> x.r, stop |-> stop]
    BY DEF Charge
  <1> HIDE DEF g, r
  <1>5. x \in Accs
    BY <1>1, <1>3, ExceededTypes
  <1> HIDE DEF x
  <1>6. x.r \in Rqs /\ stop \in BOOLEAN
    BY <1>2, <1>5 DEF Accs
  <1> HIDE DEF stop
  <1>7. Charge(acc, g, d) \in Accs
    BY <1>4, <1>6 DEF Accs
  <1> QED BY <1>7 DEF g

\* requeue_task_rt.
LEMMA RequeueFold ==
    ASSUME NEW tk \in TaskFields, NEW r \in Rqs, NEW t, Chain(tk, t) \in Seq(Entities)
    PROVE  \E f : /\ f[0] = r
                  /\ \A k \in 0 .. Len(Chain(tk, t)) : f[k] \in Rqs
                  /\ \A k \in 1 .. Len(Chain(tk, t)) : f[k] = RequeueOne(f[k - 1], tk, Chain(tk, t)[k])
                  /\ Requeue(r, tk, t) = f[Len(Chain(tk, t))]
  <1> DEFINE c == Chain(tk, t)
             b == r
             n == Len(c)
             op(x, e) == RequeueOne(x, tk, e)
             Body(i, s) == IF s = {} THEN b
                           ELSE op(i[s \ {Max(s)}], c[Max(s)])
             P(i) == i = [s \in SUBSET (1 .. n) |-> Body(i, s)]
             F == CHOOSE i : P(i)
             h == [y \in (1 .. n) \X Rqs |-> op(y[2], c[y[1]])]
  <1>1. n \in Nat /\ DOMAIN c = 1 .. n /\ \A k \in 1 .. n : c[k] \in Entities
    BY ElementOfSeq, LenProperties
  <1>2. \A x \in Rqs, e \in Entities : op(x, e) \in Rqs
    BY RequeueTypes
  <1>3. Requeue(r, tk, t) = F[1 .. n]
    BY <1>1 DEF Requeue, RequeueOne, FoldLeft, MapThenFoldSet
  <1> HIDE DEF op
  <1>4. b \in Rqs
    BY Zenon
  <1> HIDE DEF n, b, c
  <1>5. h \in [(1 .. n) \X Rqs -> Rqs]
    BY <1>1, <1>2
  <1>6. PICK i : Folds(i, n, Rqs, b, h)
    <2> HIDE DEF h
    <2> QED BY <1>1, <1>4, <1>5, FoldExists
  <1>7. P(i)
    <2>1. \A s \in SUBSET (1 .. n) : s # {} => h[<<Max(s), i[s \ {Max(s)}]>>] = op(i[s \ {Max(s)}], c[Max(s)])
      <3> SUFFICES ASSUME NEW s \in SUBSET (1 .. n), s # {}
                   PROVE  h[<<Max(s), i[s \ {Max(s)}]>>] = op(i[s \ {Max(s)}], c[Max(s)])
        OBVIOUS
      <3>1. Max(s) \in 1 .. n /\ i[s \ {Max(s)}] \in Rqs
        BY <1>1, <1>6, Greatest DEF Folds
      <3> QED BY <3>1
    <2>2. \A s \in SUBSET (1 .. n) : i[s] = IF s = {} THEN b ELSE h[<<Max(s), i[s \ {Max(s)}]>>]
      <3> HIDE DEF h
      <3> QED BY <1>6 DEF Folds
    <2>3. \A s \in SUBSET (1 .. n) : i[s] = Body(i, s)
      BY <2>1, <2>2
    <2>4. i = [s \in SUBSET (1 .. n) |-> i[s]]
      <3> HIDE DEF h
      <3> QED BY <1>6 DEF Folds
    <2> HIDE DEF Body
    <2> QED BY <2>3, <2>4
  <1>8. P(F)
    <2> HIDE DEF P
    <2> QED BY <1>7
  <1> HIDE DEF F, h
  <1>9. \A s \in SUBSET (1 .. n) : F[s] = Body(F, s)
    <2> HIDE DEF Body
    <2> QED BY <1>8
  <1> DEFINE f == [k \in 0 .. n |-> F[1 .. k]]
  <1>10. f[0] = b
    <2>1. 1 .. 0 = {} /\ 0 \in 0 .. n /\ {} \in SUBSET (1 .. n)
      BY <1>1
    <2>2. F[{}] = b
      BY <1>9, <2>1
    <2> QED BY <2>1, <2>2
  <1>11. ASSUME NEW k \in 1 .. n PROVE f[k] = op(f[k - 1], c[k])
    <2>1. /\ 1 .. k \in SUBSET (1 .. n) /\ 1 .. k # {} /\ Max(1 .. k) = k
          /\ (1 .. k) \ {k} = 1 .. k - 1
      BY <1>1, GreatestOfPrefix
    <2>2. F[1 .. k] = op(F[1 .. k - 1], c[k])
      BY <1>9, <2>1
    <2>3. k \in 0 .. n /\ k - 1 \in 0 .. n
      BY <1>1
    <2> QED BY <2>2, <2>3
  <1>12. f[n] = F[1 .. n]
    BY <1>1
  <1> HIDE DEF f
  <1>13. \A k \in 0 .. n : f[k] \in Rqs
    <2> DEFINE S == {k \in 0 .. n : f[k] \in Rqs}
    <2>1. 0 \in S
      BY <1>1, <1>4, <1>10
    <2>2. \A k \in 1 .. n : k - 1 \in S => k \in S
      BY <1>1, <1>2, <1>11
    <2>3. \A k \in 0 .. n : k \in S
      <3> HIDE DEF S
      <3> QED BY <1>1, <2>1, <2>2, UpTo
    <2> QED BY <2>3
  <1> HIDE DEF P, Body
  <1>14. \A k \in 1 .. n : f[k] = RequeueOne(f[k - 1], tk, c[k])
    BY <1>11 DEF op
  <1> QED BY <1>3, <1>10, <1>12, <1>13, <1>14 DEF n, b, c


\* update_curr_rt.
LEMMA UpdateFold ==
    ASSUME task \in TaskFields, NEW r \in Rqs, NEW d \in Nat, IsRt(task, curr), Enabled,
           Chain(task, curr) \in Seq(Entities), Limits(runtime)
    PROVE  \E f : /\ f[0] = [r |-> r, stop |-> FALSE]
                  /\ \A k \in 0 .. Len(Chain(task, curr)) : f[k] \in Accs
                  /\ \A k \in 1 .. Len(Chain(task, curr)) : f[k] = Charge(f[k - 1], RqOf(task, Chain(task, curr)[k]), d)
                  /\ UpdateCurr(r, d) = f[Len(Chain(task, curr))]
  <1> DEFINE c == Chain(task, curr)
             b == [r |-> r, stop |-> FALSE]
             n == Len(c)
             op(x, e) == Charge(x, RqOf(task, e), d)
             Body(i, s) == IF s = {} THEN b
                           ELSE op(i[s \ {Max(s)}], c[Max(s)])
             P(i) == i = [s \in SUBSET (1 .. n) |-> Body(i, s)]
             F == CHOOSE i : P(i)
             h == [y \in (1 .. n) \X Accs |-> op(y[2], c[y[1]])]
  <1>1. n \in Nat /\ DOMAIN c = 1 .. n /\ \A k \in 1 .. n : c[k] \in Entities
    BY ElementOfSeq, LenProperties
  <1>2. \A x \in Accs, e \in Entities : op(x, e) \in Accs
    BY ChargeTypes
  <1>3. UpdateCurr(r, d) = F[1 .. n]
    BY <1>1 DEF UpdateCurr, FoldLeft, MapThenFoldSet
  <1> HIDE DEF op
  <1>4. b \in Accs
    BY DEF Accs
  <1> HIDE DEF n, b, c
  <1>5. h \in [(1 .. n) \X Accs -> Accs]
    BY <1>1, <1>2
  <1>6. PICK i : Folds(i, n, Accs, b, h)
    <2> HIDE DEF h
    <2> QED BY <1>1, <1>4, <1>5, FoldExists
  <1>7. P(i)
    <2>1. \A s \in SUBSET (1 .. n) : s # {} => h[<<Max(s), i[s \ {Max(s)}]>>] = op(i[s \ {Max(s)}], c[Max(s)])
      <3> SUFFICES ASSUME NEW s \in SUBSET (1 .. n), s # {}
                   PROVE  h[<<Max(s), i[s \ {Max(s)}]>>] = op(i[s \ {Max(s)}], c[Max(s)])
        OBVIOUS
      <3>1. Max(s) \in 1 .. n /\ i[s \ {Max(s)}] \in Accs
        BY <1>1, <1>6, Greatest DEF Folds
      <3> QED BY <3>1
    <2>2. \A s \in SUBSET (1 .. n) : i[s] = IF s = {} THEN b ELSE h[<<Max(s), i[s \ {Max(s)}]>>]
      <3> HIDE DEF h
      <3> QED BY <1>6 DEF Folds
    <2>3. \A s \in SUBSET (1 .. n) : i[s] = Body(i, s)
      BY <2>1, <2>2
    <2>4. i = [s \in SUBSET (1 .. n) |-> i[s]]
      <3> HIDE DEF h
      <3> QED BY <1>6 DEF Folds
    <2> HIDE DEF Body
    <2> QED BY <2>3, <2>4
  <1>8. P(F)
    <2> HIDE DEF P
    <2> QED BY <1>7
  <1> HIDE DEF F, h
  <1>9. \A s \in SUBSET (1 .. n) : F[s] = Body(F, s)
    <2> HIDE DEF Body
    <2> QED BY <1>8
  <1> DEFINE f == [k \in 0 .. n |-> F[1 .. k]]
  <1>10. f[0] = b
    <2>1. 1 .. 0 = {} /\ 0 \in 0 .. n /\ {} \in SUBSET (1 .. n)
      BY <1>1
    <2>2. F[{}] = b
      BY <1>9, <2>1
    <2> QED BY <2>1, <2>2
  <1>11. ASSUME NEW k \in 1 .. n PROVE f[k] = op(f[k - 1], c[k])
    <2>1. /\ 1 .. k \in SUBSET (1 .. n) /\ 1 .. k # {} /\ Max(1 .. k) = k
          /\ (1 .. k) \ {k} = 1 .. k - 1
      BY <1>1, GreatestOfPrefix
    <2>2. F[1 .. k] = op(F[1 .. k - 1], c[k])
      BY <1>9, <2>1
    <2>3. k \in 0 .. n /\ k - 1 \in 0 .. n
      BY <1>1
    <2> QED BY <2>2, <2>3
  <1>12. f[n] = F[1 .. n]
    BY <1>1
  <1> HIDE DEF f
  <1>13. \A k \in 0 .. n : f[k] \in Accs
    <2> DEFINE S == {k \in 0 .. n : f[k] \in Accs}
    <2>1. 0 \in S
      BY <1>1, <1>4, <1>10
    <2>2. \A k \in 1 .. n : k - 1 \in S => k \in S
      BY <1>1, <1>2, <1>11
    <2>3. \A k \in 0 .. n : k \in S
      <3> HIDE DEF S
      <3> QED BY <1>1, <2>1, <2>2, UpTo
    <2> QED BY <2>3
  <1> HIDE DEF P, Body
  <1>14. \A k \in 1 .. n : f[k] = Charge(f[k - 1], RqOf(task, c[k]), d)
    BY <1>11 DEF op
  <1> QED BY <1>3, <1>10, <1>12, <1>13, <1>14 DEF n, b, c

\* A throttled group has time to give back.
PosTime(r) == \A g \in Groups : r.thr[g] => r.time[g] > 0
NoInf == \A g \in Groups : runtime[g] # RUNTIME_INF

\* What the steps of a call keep.
Keeps(r, x) == KeptTimers(r, x) /\ (PosTime(r) => PosTime(x))

LEMMA KeepsStep ==
    ASSUME NEW r, NEW x, NEW y, Keeps(r, x), Keeps(x, y)
    PROVE  Keeps(r, y)
  BY DEF Keeps, KeptTimers

LEMMA KeptKeeps ==
    ASSUME NEW r, NEW x, NEW G, Kept(r, x, G), KeptTimers(r, x)
    PROVE  Keeps(r, x)
  BY DEF Keeps, Kept, PosTime

\* Lists do not depend on times and throttling.
LEMMA ListsOfFields ==
    ASSUME NEW tk, NEW M, NEW r, Lists(r, tk, M), NEW x,
           x.q = r.q, x.bits = r.bits, x.nr = r.nr, x.hi = r.hi, x.nb = r.nb
    PROVE  Lists(x, tk, M)
  <1>1. ASSUME NEW g \in Groups PROVE ListsOf(x, tk, M, g)
    <2>1. ListsOf(r, tk, M, g)
      BY DEF Lists
    <2>2. \A e : SePrio(x, tk, e) = SePrio(r, tk, e) /\ (SeBoosted(x, tk, e) <=> SeBoosted(r, tk, e))
      BY DEF SePrio, SeBoosted
    <2> QED BY <2>1, <2>2, ListsSame
  <1> QED BY <1>1 DEF Lists

LEMMA ExceededKeeps ==
    ASSUME task \in TaskFields, Limits(runtime), NEW S, NEW r, Good(r, task, S), NEW g \in Groups,
           runtime[g] # RUNTIME_INF, NEW x, x = Exceeded(r, g)
    PROVE  /\ Good(x.r, task, S) /\ Keeps(r, x.r)
           /\ Throttled(x.r, g) => x.stop
           /\ \A h \in Groups \ {g} : Deep[h] >= Deep[g] =>
                 x.r.thr[h] = r.thr[h] /\ x.r.nb[h] = r.nb[h]
  <1> DEFINE hit == ~r.thr[g] /\ runtime[g] < Period /\ r.time[g] > runtime[g]
             r1 == IF ~hit THEN r
                   ELSE IF runtime[g] # 0 THEN [r EXCEPT !.thr[g] = TRUE]
                   ELSE [r EXCEPT !.time[g] = 0]
             out == hit /\ Throttled(r1, g)
             stop == out \/ (r.thr[g] /\ Throttled(r, g))
             y == DequeueEntity(r1, task, path[g])
             c == path[g]
             M == S \cup Up(r)
  <1>1. x.r = (IF out THEN y ELSE r1) /\ (x.stop <=> stop)
    BY DEF Exceeded
  <1>2. /\ r \in Rqs /\ S \in SUBSET Tasks /\ Lists(r, task, M)
        /\ runtime[g] \in 0 .. Period /\ r.time \in [Groups -> 0 .. MaxTime]
    BY DEF Good, Limits, Rqs
  <1>3. /\ r1 \in Rqs /\ r1.q = r.q /\ r1.bits = r.bits /\ r1.nr = r.nr /\ r1.hi = r.hi
        /\ r1.nb = r.nb /\ r1.timer = r.timer
        /\ \A h \in Groups \ {g} : r1.thr[h] = r.thr[h] /\ r1.time[h] = r.time[h]
        /\ r1.thr[g] => (r.thr[g] \/ r.time[g] > 0) /\ r1.time[g] = r.time[g]
        /\ r1.thr[g] # r.thr[g] => r1.thr[g] /\ hit
        /\ ~hit => r1 = r
    <2>1. CASE ~hit
      BY <1>2, <2>1
    <2>2. CASE hit /\ runtime[g] # 0
      <3>1. r1 = [r EXCEPT !.thr[g] = TRUE]
        BY <2>2
      <3>2. r.time[g] > 0
        BY <1>2, <2>2
      <3> HIDE DEF r1, hit
      <3> QED BY <1>2, <2>2, <3>1, <3>2 DEF Rqs
    <2>3. CASE hit /\ runtime[g] = 0
      <3>1. r1 = [r EXCEPT !.time[g] = 0]
        BY <2>3
      <3>2. 0 \in 0 .. MaxTime
        BY TimeAssumption
      <3>3. ~r.thr[g]
        BY <2>3
      <3> HIDE DEF r1, hit
      <3> QED BY <1>2, <2>3, <3>1, <3>2, <3>3 DEF Rqs
    <2> QED BY <2>1, <2>2, <2>3
  <1> HIDE DEF hit, r1, M, c, y
  <1>4. Lists(r1, task, M)
    BY <1>2, <1>3, ListsOfFields
  <1>5. Keeps(r, r1)
    BY <1>3 DEF Keeps, KeptTimers, Timers, PosTime
  <1>6. Up(r1) \ {g} = Up(r) \ {g} /\ (~Throttled(r1, g) => Up(r1) = Up(r))
    <2>1. Up(r1) \ {g} = Up(r) \ {g}
      BY <1>3 DEF Up, Throttled
    <2>2. ASSUME ~Throttled(r1, g) PROVE g \in Up(r1) <=> g \in Up(r)
      BY <1>3, <2>2 DEF Up, Throttled
    <2> QED BY <2>1, <2>2
  <1>7. CASE ~out
    <2>1. x.r = r1
      BY <1>1, <1>7
    <2>2. Up(r1) = Up(r)
      <3>1. CASE hit
        BY <1>6, <1>7, <3>1
      <3>2. CASE ~hit
        BY <1>3, <3>2
      <3> QED BY <3>1, <3>2
    <2>3. Good(x.r, task, S)
      BY <1>2, <1>3, <1>4, <2>1, <2>2 DEF Good, M
    <2>4. Throttled(r1, g) => x.stop
      <3>1. CASE hit
        BY <1>7, <3>1
      <3>2. CASE ~hit
        BY <1>1, <1>3, <3>2 DEF Throttled
      <3> QED BY <3>1, <3>2
    <2> QED BY <1>3, <1>5, <2>1, <2>3, <2>4
  <1>8. CASE out
    <2>1. x.r = y /\ x.stop
      BY <1>1, <1>8
    <2>2. Rising(c, task) /\ (g = Root => Range(c) = {}) /\ (g # Root => g \in Range(c))
      <3>1. /\ Rising(c, task) /\ (g = Root <=> Len(c) = 0) /\ (Len(c) > 0 => c[1] = g)
        BY PathRises DEF c
      <3>2. c \in Seq(Entities) /\ Len(c) \in Nat /\ Range(c) = {c[k] : k \in 1 .. Len(c)}
        BY <3>1, ChainIs, RangeProperties
      <3>3. g = Root => Range(c) = {}
        BY <3>1, <3>2
      <3>4. g # Root => 1 \in 1 .. Len(c) /\ c[1] = g
        BY <3>1, <3>2
      <3> QED BY <3>1, <3>2, <3>3, <3>4
    <2>3. M \ Range(c) = (S \cup Up(r1)) \ Range(c)
      <3>1. Root \notin Up(r1) /\ Root \notin Up(r)
        BY DEF Up
      <3> QED BY <1>6, <2>2, <3>1 DEF M
    <2>4. Range(c) \cap S = {}
      <3>1. \A k \in 1 .. Len(c) : c[k] \in Groups
        BY PathRises DEF c
      <3>2. c \in Seq(Entities)
        BY <2>2 DEF Rising
      <3>3. Range(c) \subseteq Groups
        BY <3>1, <3>2, RangeProperties
      <3> QED BY <1>2, <3>3, Statics
    <2>5. /\ Good(y, task, S) /\ Kept(r1, y, Under(task, c)) /\ KeptTimers(r1, y)
      BY <1>2, <1>3, <1>4, <2>2, <2>3, <2>4, DequeueEntityKeeps DEF y, c
    <2>6. Keeps(r, y)
      BY <1>5, <2>5, KeptKeeps, KeepsStep
    <2>7. ASSUME NEW h \in Groups \ {g}, Deep[h] >= Deep[g] PROVE h \notin Under(task, c)
      <3> SUFFICES ASSUME NEW k \in 1 .. Len(c), h = RqOf(task, c[k]) PROVE FALSE
        BY DEF Under
      <3>1. c[k] \in Groups \ {Root} /\ Deep[c[k]] <= Deep[g]
        <4>1. c \in Seq(Entities)
          BY <2>2 DEF Rising
        <4>2. c[k] \in Range(c)
          BY <4>1, RangeProperties
        <4> QED BY <4>2, PathRises DEF c
      <3>2. h = Parent[c[k]]
        BY <3>1 DEF RqOf
      <3>3. Deep[c[k]] = Deep[h] + 1 /\ Deep[h] \in Nat /\ Deep[g] \in Nat
        BY <3>1, <3>2, DeepIs
      <3> QED BY <2>7, <3>1, <3>3
    <2>8. \A h \in Groups \ {g} : Deep[h] >= Deep[g] => y.thr[h] = r.thr[h] /\ y.nb[h] = r.nb[h]
      BY <1>3, <2>5, <2>7 DEF Kept
    <2> QED BY <2>1, <2>5, <2>6, <2>8
  <1> QED BY <1>7, <1>8

LEMMA ChargeKeeps ==
    ASSUME task \in TaskFields, Limits(runtime), NEW S, NEW acc \in Accs, Good(acc.r, task, S),
           NEW g \in Groups, NEW d \in Nat, NEW y, y = Charge(acc, g, d)
    PROVE  /\ Good(y.r, task, S) /\ Keeps(acc.r, y.r)
           /\ acc.stop => y.stop
           /\ runtime[g] # RUNTIME_INF => (Throttled(y.r, g) => y.stop)
           /\ \A h \in Groups \ {g} : Deep[h] >= Deep[g] =>
                 y.r.thr[h] = acc.r.thr[h] /\ y.r.nb[h] = acc.r.nb[h]
  <1> DEFINE r == [acc.r EXCEPT !.time[g] = IF @ + d > MaxTime THEN @ ELSE @ + d]
             x == Exceeded(r, g)
             a == acc.r
  <1>1. y = IF runtime[g] = RUNTIME_INF THEN acc ELSE [r |-> x.r, stop |-> acc.stop \/ x.stop]
    BY DEF Charge
  <1>2. CASE runtime[g] = RUNTIME_INF
    BY <1>1, <1>2 DEF Keeps, KeptTimers
  <1>3. CASE runtime[g] # RUNTIME_INF
    <2>1. y.r = x.r /\ (y.stop <=> acc.stop \/ x.stop)
      <3> DEFINE st == acc.stop \/ x.stop
      <3>1. y = [r |-> x.r, stop |-> st]
        BY <1>1, <1>3
      <3>2. st \in BOOLEAN
        OBVIOUS
      <3> HIDE DEF r, x, st
      <3>3. y.r = x.r /\ y.stop = st
        BY <3>1
      <3>4. y.stop <=> st
        BY <3>2, <3>3
      <3> QED BY <3>3, <3>4 DEF st
    <2>2. a \in Rqs /\ S \in SUBSET Tasks /\ Lists(a, task, S \cup Up(a))
      BY DEF Good
    <2>3. Charged(a, g, d, r)
      BY DEF Charged
    <2> HIDE DEF r
    <2>4. /\ r \in Rqs /\ r.time[g] >= a.time[g] /\ \A h \in Groups \ {g} : r.time[h] = a.time[h]
          /\ r.q = a.q /\ r.bits = a.bits /\ r.nr = a.nr /\ r.hi = a.hi /\ r.nb = a.nb
          /\ r.thr = a.thr /\ r.timer = a.timer
      <3> HIDE DEF a
      <3> QED BY <2>2, <2>3, ChargedTypes
    <2> HIDE DEF a, x
    <2>5. Lists(r, task, S \cup Up(a)) /\ Up(r) = Up(a)
      BY <2>2, <2>4, ListsOfFields DEF Up, Throttled
    <2>6. Good(r, task, S)
      BY <2>2, <2>4, <2>5 DEF Good
    <2>7. Keeps(a, r)
      <3>1. KeptTimers(a, r)
        BY <2>4 DEF KeptTimers, Timers
      <3>2. a.time \in [Groups -> 0 .. MaxTime] /\ r.time \in [Groups -> 0 .. MaxTime]
        BY <2>2, <2>4 DEF Rqs
      <3>3. \A h \in Groups : a.time[h] > 0 => r.time[h] > 0
        BY <2>4, <3>2, TimeAssumption
      <3>4. PosTime(a) => PosTime(r)
        BY <2>4, <3>3 DEF PosTime
      <3> QED BY <3>1, <3>4 DEF Keeps
    <2>8. /\ Good(x.r, task, S) /\ Keeps(r, x.r)
          /\ Throttled(x.r, g) => x.stop
          /\ \A h \in Groups \ {g} : Deep[h] >= Deep[g] =>
                x.r.thr[h] = r.thr[h] /\ x.r.nb[h] = r.nb[h]
      BY <1>3, <2>6, ExceededKeeps DEF x
    <2>9. Keeps(a, x.r)
      BY <2>7, <2>8, KeepsStep
    <2> QED BY <2>1, <2>4, <2>8, <2>9 DEF a
  <1> QED BY <1>2, <1>3

LEMMA AboveIs ==
    ASSUME NEW tk \in TaskFields, NEW t \in Tasks
    PROVE  Above(tk[t].group) = Under(tk, Chain(tk, t))
  <1> DEFINE c == Chain(tk, t)
             p == path[tk[t].group]
             n == Len(c)
  <1>1. /\ Rising(c, tk) /\ n > 0 /\ c[1] = t /\ Range(c) = {t} \cup Range(p)
        /\ Range(c) \cap Tasks = {t}
    BY ChainRises
  <1>2. p \in Seq(Entities)
    <2>1. tk[t].group \in Groups
      BY DEF TaskFields
    <2> QED BY <2>1, PathRises DEF Rising
  <1>3. ToSet(p) = Range(p)
    BY DEF ToSet, Range
  <1>4. c \in Seq(Entities) /\ n \in Nat /\ Range(c) = {c[k] : k \in 1 .. n}
    BY <1>1, RangeProperties DEF Rising
  <1>5. Above(tk[t].group) = (Range(c) \ {t}) \cup {Root}
    <2>1. t \notin Range(p)
      <3>1. tk[t].group \in Groups
        BY DEF TaskFields
      <3>2. \A k \in 1 .. Len(p) : p[k] \in Groups
        BY <3>1, PathRises
      <3>3. Range(p) = {p[k] : k \in 1 .. Len(p)}
        BY <1>2, RangeProperties
      <3> QED BY <3>2, <3>3, Statics
    <2> QED BY <1>1, <1>3, <2>1 DEF Above
  <1> HIDE DEF c, n, p
  <1>6. \A k \in 1 .. n : RqOf(tk, c[k]) = IF k < n THEN c[k + 1] ELSE Root
    BY <1>1 DEF Rising, n
  <1>7. ASSUME NEW k \in 1 .. n PROVE RqOf(tk, c[k]) \in (Range(c) \ {t}) \cup {Root}
    <2>1. k < n => k + 1 \in 1 .. n /\ k + 1 > 1
      BY <1>4
    <2>2. k < n => c[k + 1] \in Groups
      BY <1>1, <2>1 DEF Rising, n
    <2>3. t \notin Groups
      BY Statics
    <2> QED BY <1>4, <1>6, <2>1, <2>2, <2>3
  <1>8. Root \in {RqOf(tk, c[k]) : k \in 1 .. n}
    <2>1. n \in 1 .. n /\ ~(n < n)
      BY <1>1, <1>4 DEF n
    <2> QED BY <1>6, <2>1
  <1>9. ASSUME NEW a \in Range(c) \ {t} PROVE a \in {RqOf(tk, c[k]) : k \in 1 .. n}
    <2>1. PICK k \in 1 .. n : a = c[k]
      BY <1>4
    <2>2. k # 1
      BY <1>1, <2>1
    <2>3. k - 1 \in 1 .. n /\ k - 1 < n /\ k - 1 + 1 = k
      BY <1>4, <2>2
    <2>4. RqOf(tk, c[k - 1]) = a
      BY <1>6, <2>1, <2>3
    <2> QED BY <2>3, <2>4
  <1>10. Under(tk, c) = {RqOf(tk, c[k]) : k \in 1 .. n}
    BY DEF Under, n
  <1>11. Above(tk[t].group) = Under(tk, c)
    BY <1>5, <1>7, <1>8, <1>9, <1>10
  <1> QED BY <1>11 DEF c

\* Every group above t has stop set, or is not throttled.
Stops(r, tk, t, stop) == \A g \in Above(tk[t].group) : Throttled(r, g) => stop

LEMMA UpdateKeeps ==
    ASSUME task \in TaskFields, Limits(runtime), NEW S, NEW r, Good(r, task, S), NEW d \in Nat,
           NEW u, u = UpdateCurr(r, d)
    PROVE  /\ u \in Accs /\ Good(u.r, task, S) /\ Keeps(r, u.r)
           /\ IsRt(task, curr) /\ Enabled /\ NoInf => Stops(u.r, task, curr, u.stop)
  <1>1. CASE ~IsRt(task, curr) \/ ~Enabled
    <2>1. u = [r |-> r, stop |-> FALSE]
      BY <1>1, Zenon DEF UpdateCurr
    <2>2. Keeps(r, r)
      BY DEF Keeps, KeptTimers
    <2>3. r \in Rqs
      BY DEF Good
    <2>4. u \in Accs /\ u.r = r
      BY <2>1, <2>3 DEF Accs
    <2> QED BY <1>1, <2>2, <2>4
  <1>2. CASE IsRt(task, curr) /\ Enabled
    <2> DEFINE c == Chain(task, curr)
               n == Len(c)
    <2>1. curr \in Tasks /\ r \in Rqs
      BY <1>2 DEF IsRt, Good
    <2>2. /\ Rising(c, task) /\ c \in Seq(Entities) /\ n \in Nat /\ n > 0
          /\ Above(task[curr].group) = Under(task, c)
      <3>1. Rising(c, task) /\ n > 0
        BY <2>1, ChainRises
      <3>2. Above(task[curr].group) = Under(task, c)
        BY <2>1, AboveIs
      <3> HIDE DEF c
      <3> QED BY <3>1, <3>2, ChainIs
    <2>3. PICK f : /\ f[0] = [r |-> r, stop |-> FALSE]
                   /\ \A k \in 0 .. n : f[k] \in Accs
                   /\ \A k \in 1 .. n : f[k] = Charge(f[k - 1], RqOf(task, c[k]), d)
                   /\ UpdateCurr(r, d) = f[n]
      BY <1>2, <2>1, <2>2, UpdateFold
    <2> HIDE DEF c, n
    <2>4. /\ \A k \in 1 .. n : c[k] \in Entities
          /\ \A k \in 1 .. n : k > 1 => /\ RqOf(task, c[k - 1]) = c[k]
                                        /\ c[k] \in Groups \ {Root} /\ RqOf(task, c[k]) = Parent[c[k]]
      <3>1. \A k \in 1 .. n : c[k] \in Entities
        BY <2>2, ChainIs DEF n
      <3>2. ASSUME NEW k \in 1 .. n, k > 1
            PROVE  RqOf(task, c[k - 1]) = c[k] /\ c[k] \in Groups \ {Root} /\ RqOf(task, c[k]) = Parent[c[k]]
        <4>1. k - 1 \in 1 .. Len(c) /\ k - 1 < Len(c) /\ k - 1 + 1 = k /\ k \in 1 .. Len(c)
          BY <2>2, <3>2 DEF n
        <4>2. RqOf(task, c[k - 1]) = c[k]
          BY <2>2, <4>1 DEF Rising
        <4>3. c[k] \in Groups \ {Root}
          BY <2>2, <3>2, <4>1 DEF Rising
        <4> QED BY <4>2, <4>3 DEF RqOf
      <3> QED BY <3>1, <3>2
    <2> DEFINE G(k) == RqOf(task, c[k])
               Ok(k) == /\ Good(f[k].r, task, S) /\ Keeps(r, f[k].r)
                        /\ NoInf => \A j \in 1 .. k : Throttled(f[k].r, G(j)) => f[k].stop
                        /\ k > 0 => \A j \in 1 .. k - 1 : Deep[G(j)] > Deep[G(k)]
               K == {k \in 0 .. n : Ok(k)}
    <2>5. \A k \in 1 .. n : G(k) \in Groups /\ Deep[G(k)] \in Nat
      BY <2>4, Elsewhere, DeepIs
    <2>6. \A k \in 1 .. n : k > 1 => Deep[G(k - 1)] = Deep[G(k)] + 1
      BY <2>4, DeepIs
    <2> HIDE DEF G
    <2>7. 0 \in K
      <3>1. f[0].r = r /\ 0 \in 0 .. n
        BY <2>2, <2>3
      <3>2. Keeps(r, r)
        BY DEF Keeps, KeptTimers
      <3>3. Ok(0)
        BY <3>1, <3>2
      <3> QED BY <3>1, <3>3
    <2>8. ASSUME NEW k \in 1 .. n, k - 1 \in K PROVE k \in K
      <3> DEFINE acc == f[k - 1]
                 y == f[k]
                 g == G(k)
      <3>1. Ok(k - 1) /\ k - 1 \in 0 .. n /\ k \in 0 .. n
        BY <2>8
      <3>2. y = Charge(acc, g, d) /\ acc \in Accs /\ g \in Groups
        BY <2>3, <2>5, <3>1 DEF G
      <3>3. Good(acc.r, task, S) /\ Keeps(r, acc.r)
        BY <3>1
      <3>4. ASSUME NEW j \in 1 .. k - 1 PROVE j \in 1 .. n /\ Deep[G(j)] > Deep[g]
        <4>1. k > 1 /\ j \in 1 .. n /\ k - 1 \in 1 .. n
          BY <2>2
        <4>2. Deep[G(k - 1)] = Deep[g] + 1
          BY <2>6, <4>1
        <4>3. Deep[G(j)] >= Deep[G(k - 1)]
          <5>1. CASE j = k - 1
            BY <2>5, <4>1, <5>1
          <5>2. CASE j # k - 1
            <6>1. j \in 1 .. (k - 1) - 1 /\ k - 1 > 0
              BY <5>2
            <6>2. Deep[G(j)] > Deep[G(k - 1)]
              BY <3>1, <6>1
            <6> QED BY <2>5, <4>1, <6>2
          <5> QED BY <5>1, <5>2
        <4> QED BY <2>5, <4>1, <4>2, <4>3
      <3> HIDE DEF acc, y, g
      <3>5. /\ Good(y.r, task, S) /\ Keeps(acc.r, y.r)
            /\ acc.stop => y.stop
            /\ runtime[g] # RUNTIME_INF => (Throttled(y.r, g) => y.stop)
            /\ \A h \in Groups \ {g} : Deep[h] >= Deep[g] =>
                  y.r.thr[h] = acc.r.thr[h] /\ y.r.nb[h] = acc.r.nb[h]
        BY <3>2, <3>3, ChargeKeeps
      <3>6. Keeps(r, y.r)
        BY <3>3, <3>5, KeepsStep
      <3>7. ASSUME NoInf, NEW j \in 1 .. k, Throttled(y.r, G(j)) PROVE y.stop
        <4>1. CASE j = k
          BY <3>2, <3>5, <3>7, <4>1 DEF NoInf, g
        <4>2. CASE j # k
          <5>1. j \in 1 .. k - 1
            BY <4>2
          <5>2. G(j) \in Groups /\ Deep[G(j)] > Deep[g] /\ Deep[G(j)] \in Nat /\ Deep[g] \in Nat
            BY <2>5, <3>4, <5>1 DEF g
          <5>3. G(j) \in Groups \ {g} /\ Deep[G(j)] >= Deep[g]
            BY <5>2
          <5>4. Throttled(acc.r, G(j))
            BY <3>5, <3>7, <5>3 DEF Throttled
          <5>5. acc.stop
            BY <3>1, <3>7, <5>1, <5>4 DEF acc
          <5> QED BY <3>5, <5>5
        <4> QED BY <4>1, <4>2
      <3>8. Ok(k)
        BY <3>4, <3>5, <3>6, <3>7 DEF y, g
      <3> QED BY <3>1, <3>8
    <2>9. Ok(n)
      <3> HIDE DEF K, Ok
      <3>1. \A k \in 0 .. n : k \in K
        BY <2>2, <2>7, <2>8, UpTo
      <3>2. n \in K
        BY <2>2, <3>1
      <3> QED BY <3>2 DEF K
    <2>10. u = f[n] /\ u \in Accs
      <3>1. n \in 0 .. n
        BY <2>2
      <3>2. f[n] \in Accs
        BY <2>3, <3>1
      <3>3. u = f[n]
        BY <2>3, Zenon
      <3> QED BY <3>2, <3>3
    <2>11. ASSUME NoInf PROVE Stops(u.r, task, curr, u.stop)
      <3> SUFFICES ASSUME NEW g \in Under(task, c), Throttled(u.r, g) PROVE u.stop
        BY <2>2 DEF Stops
      <3>1. PICK j \in 1 .. n : g = G(j)
        BY DEF Under, n, G
      <3> QED BY <2>9, <2>10, <2>11, <3>1
    <2> QED BY <2>9, <2>10, <2>11
  <1> QED BY <1>1, <1>2

LEMMA DequeueTaskKeeps ==
    ASSUME task \in TaskFields, Limits(runtime), NEW S, NEW r, Good(r, task, S), NEW d \in Nat,
           NEW t \in Tasks, IsRt(task, t) \/ t \notin S,
           NEW u, u = DequeueTask(r, t, d)
    PROVE  u.stop \in BOOLEAN /\ Good(u.r, task, S \ {t}) /\ Keeps(r, u.r)
  <1>1. CASE ~IsRt(task, t)
    <2>1. u = [r |-> r, stop |-> FALSE] /\ S \ {t} = S
      BY <1>1 DEF DequeueTask
    <2>2. Keeps(r, r)
      BY DEF Keeps, KeptTimers
    <2> QED BY <2>1, <2>2
  <1>2. CASE IsRt(task, t)
    <2> DEFINE v == UpdateCurr(r, d)
               c == Chain(task, t)
               x == DequeueEntity(v.r, task, c)
               M == S \cup Up(v.r)
               N == S \ {t}
    <2>1. u = [r |-> x, stop |-> v.stop]
      BY <1>2 DEF DequeueTask
    <2>2. v \in Accs /\ Good(v.r, task, S) /\ Keeps(r, v.r)
      BY UpdateKeeps
    <2>3. Rising(c, task) /\ t \in Range(c) /\ Range(c) \cap Tasks = {t}
      BY ChainRises
    <2>4. v.stop \in BOOLEAN /\ v.r \in Rqs /\ S \in SUBSET Tasks /\ Lists(v.r, task, M)
      BY <2>2 DEF Accs, Good
    <2>5. M \ Range(c) = (N \cup Up(v.r)) \ Range(c) /\ Range(c) \cap N = {} /\ N \in SUBSET Tasks
      BY <2>3, <2>4
    <2> HIDE DEF v, c, M, N
    <2>6. Good(x, task, N) /\ Kept(v.r, x, Under(task, c)) /\ KeptTimers(v.r, x)
      BY <2>3, <2>4, <2>5, DequeueEntityKeeps
    <2>7. Keeps(r, x)
      BY <2>2, <2>6, KeptKeeps, KeepsStep
    <2> HIDE DEF x
    <2> QED BY <2>1, <2>4, <2>6, <2>7 DEF N
  <1> QED BY <1>1, <1>2

\* A task that is not queued may change.
LEMMA GoodOther ==
    ASSUME NEW tk \in TaskFields, NEW tl \in TaskFields, NEW S, NEW r, Good(r, tk, S), NEW t \in Tasks,
           t \notin S, \A s \in Tasks \ {t} : tl[s] = tk[s]
    PROVE  Good(r, tl, S)
  <1> DEFINE M == S \cup Up(r)
  <1>1. t \notin M /\ M \subseteq Entities /\ Lists(r, tk, M)
    BY Statics DEF Good, Up, Lists
  <1>2. \A e \in M : RqOf(tl, e) = RqOf(tk, e) /\ SePrio(r, tl, e) = SePrio(r, tk, e)
                     /\ (SeBoosted(r, tl, e) <=> SeBoosted(r, tk, e))
    <2> SUFFICES ASSUME NEW e \in M
                 PROVE  RqOf(tl, e) = RqOf(tk, e) /\ SePrio(r, tl, e) = SePrio(r, tk, e)
                        /\ (SeBoosted(r, tl, e) <=> SeBoosted(r, tk, e))
      OBVIOUS
    <2>1. e \in Entities /\ e # t
      BY <1>1
    <2>2. e \in Groups \/ (e \in Tasks /\ tl[e] = tk[e])
      BY <2>1, Statics
    <2> QED BY <2>2 DEF RqOf, SePrio, SeBoosted, Prio
  <1> HIDE DEF M
  <1>3. ASSUME NEW g \in Groups PROVE ListsOf(r, tl, M, g)
    <2>1. Mem(tl, M, g) = Mem(tk, M, g)
      BY <1>2 DEF Mem
    <2>2. \A e \in Mem(tk, M, g) : e \in M
      BY DEF Mem
    <2>3. ListsOf(r, tk, M, g)
      BY <1>1 DEF Lists
    <2> QED BY <1>2, <2>1, <2>2, <2>3, ListsSame
  <1> QED BY <1>1, <1>3 DEF Good, Lists, M

LEMMA EnqueueTaskKeeps ==
    ASSUME NEW tk \in TaskFields, NEW S, NEW r, Good(r, tk, S), NEW t \in Tasks, NEW head \in BOOLEAN,
           NEW x, x = EnqueueTask(r, tk, t, head)
    PROVE  Good(x, tk, IF IsRt(tk, t) THEN S \cup {t} ELSE S) /\ Keeps(r, x)
  <1>1. CASE ~IsRt(tk, t)
    BY <1>1 DEF EnqueueTask, Keeps, KeptTimers
  <1>2. CASE IsRt(tk, t)
    <2> DEFINE c == Chain(tk, t)
               M == S \cup Up(r)
               N == S \cup {t}
    <2>1. x = EnqueueEntity(r, tk, c, head)
      BY <1>2 DEF EnqueueTask
    <2>2. Rising(c, tk) /\ t \in Range(c) /\ Range(c) \cap Tasks = {t}
      BY ChainRises
    <2>3. r \in Rqs /\ N \in SUBSET Tasks /\ Lists(r, tk, M)
      BY DEF Good
    <2>4. M \ Range(c) = (N \cup Up(r)) \ Range(c) /\ Range(c) \cap Tasks \subseteq N
      BY <2>2
    <2> HIDE DEF c, M, N
    <2>5. Good(x, tk, N) /\ Kept(r, x, Under(tk, c)) /\ KeptTimers(r, x)
      BY <2>1, <2>2, <2>3, <2>4, EnqueueEntityKeeps
    <2>6. Keeps(r, x)
      BY <2>5, KeptKeeps
    <2> QED BY <1>2, <2>5, <2>6 DEF N
  <1> QED BY <1>1, <1>2

LEMMA RequeueOneKeeps ==
    ASSUME NEW tk \in TaskFields, NEW r \in Rqs, NEW M, Lists(r, tk, M), NEW e \in Entities,
           NEW x, x = RequeueOne(r, tk, e)
    PROVE  /\ x \in Rqs /\ Lists(x, tk, M)
           /\ x.bits = r.bits /\ x.nr = r.nr /\ x.hi = r.hi /\ x.nb = r.nb
           /\ x.time = r.time /\ x.thr = r.thr /\ x.timer = r.timer
  <1>1. CASE ~OnRtRq(r, e)
    BY <1>1 DEF RequeueOne
  <1>2. CASE OnRtRq(r, e)
    <2> DEFINE g == RqOf(tk, e)
               p == SePrio(r, tk, e)
               s == r.q[g][p]
               l == Append(RemoveFirst(s, e), e)
    <2>1. g \in Groups /\ p \in Levels
      BY PlaceTypes
    <2>2. x \in Rqs
      BY RequeueTypes
    <2>3. x = [r EXCEPT !.q[g][p] = l]
      BY <1>2, <2>1 DEF RequeueOne, Rqs
    <2>4. e \in M /\ s \in Seq(Entities)
      <3>1. e \in M
        BY <1>2, QueuedIsMember
      <3>2. s \in Seq(Entities)
        BY <2>1 DEF Rqs
      <3> QED BY <3>1, <3>2
    <2>5. IsInjective(s) /\ Range(s) = {d \in Mem(tk, M, g) : SePrio(r, tk, d) = p}
      BY <2>1 DEF Lists, ListsOf
    <2>6. e \in Range(s)
      BY <2>4, <2>5 DEF Mem
    <2> HIDE DEF g, p, s
    <2>7. l \in Seq(Entities) /\ IsInjective(l) /\ Range(l) = Range(s)
      <3> DEFINE m == RemoveFirst(s, e)
      <3>1. m \in Seq(Entities) /\ Range(m) = Range(s) \ {e} /\ IsInjective(m)
        BY <2>4, <2>5, <2>6, DelFromList
      <3>2. e \notin Range(m)
        BY <3>1
      <3> HIDE DEF m
      <3>3. /\ Append(m, e) \in Seq(Entities) /\ Range(Append(m, e)) = Range(m) \cup {e}
            /\ IsInjective(Append(m, e))
        BY <3>1, <3>2, AddTail
      <3> QED BY <2>6, <3>1, <3>3 DEF m
    <2> HIDE DEF l
    <2>8. l # <<>> /\ s # <<>>
      BY <2>4, <2>6, <2>7, EmptyRange
    <2>9. /\ x.bits = r.bits /\ x.nr = r.nr /\ x.hi = r.hi /\ x.nb = r.nb
          /\ x.time = r.time /\ x.thr = r.thr /\ x.timer = r.timer
          /\ \A h \in Groups, i \in Levels : x.q[h][i] = IF h = g /\ i = p THEN l ELSE r.q[h][i]
      BY <2>1, <2>3 DEF Rqs
    <2>10. \A d : SePrio(x, tk, d) = SePrio(r, tk, d) /\ (SeBoosted(x, tk, d) <=> SeBoosted(r, tk, d))
      BY <2>9 DEF SePrio, SeBoosted
    <2>11. ASSUME NEW h \in Groups PROVE ListsOf(x, tk, M, h)
      <3> DEFINE A == Mem(tk, M, h)
      <3>1. /\ \A i \in Levels : IsInjective(r.q[h][i]) /\ Range(r.q[h][i]) = {d \in A : SePrio(r, tk, d) = i}
            /\ r.bits[h] = {i \in Levels : r.q[h][i] # <<>>}
            /\ r.nr[h] = Cardinality(A) /\ r.hi[h] = FirstBit(r.bits[h])
            /\ r.nb[h] = Cardinality({d \in A : SeBoosted(r, tk, d)})
        BY DEF Lists, ListsOf
      <3> HIDE DEF A
      <3>2. {d \in A : SeBoosted(x, tk, d)} = {d \in A : SeBoosted(r, tk, d)}
        BY <2>10
      <3>3. \A i \in Levels : {d \in A : SePrio(x, tk, d) = i} = {d \in A : SePrio(r, tk, d) = i}
        BY <2>10
      <3>4. \A i \in Levels : IsInjective(x.q[h][i]) /\ Range(x.q[h][i]) = {d \in A : SePrio(x, tk, d) = i}
        <4> SUFFICES ASSUME NEW i \in Levels
                     PROVE  IsInjective(x.q[h][i]) /\ Range(x.q[h][i]) = Range(r.q[h][i])
          BY <3>1, <3>3
        <4>1. CASE h = g /\ i = p
          BY <2>1, <2>7, <2>9, <4>1 DEF s
        <4>2. CASE ~(h = g /\ i = p)
          BY <2>9, <3>1, <4>2
        <4> QED BY <4>1, <4>2
      <3>5. \A i \in Levels : x.q[h][i] # <<>> <=> r.q[h][i] # <<>>
        BY <2>1, <2>8, <2>9 DEF s
      <3>6. x.bits[h] = {i \in Levels : x.q[h][i] # <<>>}
        BY <2>9, <3>1, <3>5
      <3> QED BY <2>9, <3>1, <3>2, <3>4, <3>6 DEF ListsOf, A
    <2> QED BY <2>2, <2>9, <2>11 DEF Lists
  <1> QED BY <1>1, <1>2

LEMMA RequeueKeeps ==
    ASSUME NEW tk \in TaskFields, NEW S, NEW r, Good(r, tk, S), NEW t \in Tasks,
           NEW x, x = Requeue(r, tk, t)
    PROVE  Good(x, tk, S) /\ Keeps(r, x) /\ x.nb = r.nb /\ x.thr = r.thr
  <1> DEFINE c == Chain(tk, t)
             n == Len(c)
             M == S \cup Up(r)
  <1>1. Rising(c, tk)
    BY ChainRises
  <1>2. c \in Seq(Entities) /\ n \in Nat /\ \A k \in 1 .. n : c[k] \in Entities
    <2> HIDE DEF c
    <2> QED BY <1>1, ChainIs
  <1>3. r \in Rqs /\ S \in SUBSET Tasks /\ Lists(r, tk, M)
    BY DEF Good
  <1>4. PICK f : /\ f[0] = r
                 /\ \A k \in 0 .. n : f[k] \in Rqs
                 /\ \A k \in 1 .. n : f[k] = RequeueOne(f[k - 1], tk, c[k])
                 /\ Requeue(r, tk, t) = f[n]
    BY <1>2, <1>3, RequeueFold
  <1> DEFINE Ok(k) == /\ Lists(f[k], tk, M) /\ f[k].nr = r.nr /\ f[k].nb = r.nb
                      /\ f[k].time = r.time /\ f[k].thr = r.thr /\ f[k].timer = r.timer
             K == {k \in 0 .. n : Ok(k)}
  <1> HIDE DEF c, n, M
  <1>5. 0 \in K
    BY <1>2, <1>3, <1>4
  <1>6. ASSUME NEW k \in 1 .. n, k - 1 \in K PROVE k \in K
    <2> DEFINE y == f[k - 1]
               z == f[k]
    <2>1. y \in Rqs /\ z = RequeueOne(y, tk, c[k]) /\ c[k] \in Entities /\ Ok(k - 1) /\ k \in 0 .. n
      BY <1>2, <1>4, <1>6
    <2>2. Lists(y, tk, M)
      BY <2>1
    <2> HIDE DEF y, z
    <2>3. /\ Lists(z, tk, M) /\ z.nr = y.nr /\ z.nb = y.nb
          /\ z.time = y.time /\ z.thr = y.thr /\ z.timer = y.timer
      BY <2>1, <2>2, RequeueOneKeeps
    <2> QED BY <2>1, <2>3 DEF y, z
  <1>7. Ok(n) /\ f[n] \in Rqs
    <2> HIDE DEF K, Ok
    <2>1. \A k \in 0 .. n : k \in K
      BY <1>2, <1>5, <1>6, UpTo
    <2>2. n \in K /\ n \in 0 .. n
      BY <1>2, <2>1
    <2> QED BY <1>4, <2>2 DEF K
  <1>8. x = f[n]
    BY <1>4, Zenon
  <1>9. Up(x) = Up(r)
    BY <1>7, <1>8 DEF Up, Throttled
  <1>10. Keeps(r, x)
    BY <1>7, <1>8 DEF Keeps, KeptTimers, Timers, PosTime
  <1> QED BY <1>3, <1>7, <1>8, <1>9, <1>10 DEF Good, M

-----------------------------------------------------------------------------
(* Replenishment *)

LEMMA PathIsChain ==
    ASSUME NEW tk, NEW g \in Groups
    PROVE  /\ Rising(path[g], tk) /\ Range(path[g]) \subseteq Groups \ {Root}
           /\ g = Root => Range(path[g]) = {}
           /\ g # Root => g \in Range(path[g])
           /\ g \notin Under(tk, path[g])
  <1> DEFINE c == path[g]
  <1>1. /\ Rising(c, tk) /\ (g = Root <=> Len(c) = 0) /\ (Len(c) > 0 => c[1] = g)
        /\ \A k \in 1 .. Len(c) : c[k] \in Groups \ {Root}
        /\ \A h \in Range(c) : Deep[h] <= Deep[g]
    BY PathRises
  <1>2. c \in Seq(Entities) /\ Len(c) \in Nat /\ Range(c) = {c[k] : k \in 1 .. Len(c)}
    <2> HIDE DEF c
    <2> QED BY <1>1, RangeProperties DEF Rising
  <1> HIDE DEF c
  <1>3. g = Root => Range(c) = {}
    BY <1>1, <1>2
  <1>4. g # Root => g \in Range(c)
    <2>1. g # Root => 1 \in 1 .. Len(c) /\ c[1] = g
      BY <1>1, <1>2
    <2> QED BY <1>2, <2>1
  <1>5. ASSUME NEW k \in 1 .. Len(c) PROVE RqOf(tk, c[k]) # g
    <2>1. c[k] \in Groups \ {Root} /\ Deep[c[k]] <= Deep[g]
      BY <1>1, <1>2
    <2>2. RqOf(tk, c[k]) = Parent[c[k]]
      BY <2>1 DEF RqOf
    <2> QED BY <2>1, <2>2, DeepIs, Statics
  <1>6. g \notin Under(tk, c)
    BY <1>5 DEF Under
  <1> QED BY <1>1, <1>2, <1>3, <1>4, <1>6 DEF c

LEMMA RqEnqueueKeeps ==
    ASSUME task \in TaskFields, NEW r \in Rqs, NEW S \in SUBSET Tasks, NEW M, Lists(r, task, M),
           NEW g \in Groups, M \ {g} = (S \cup Up(r)) \ {g}, g \in M => g \in Up(r),
           NEW x, x = RqEnqueue(r, g)
    PROVE  Good(x, task, S) /\ Keeps(r, x) /\ x.nr[g] = r.nr[g] /\ x.time = r.time /\ x.thr = r.thr
  <1> DEFINE c == path[g]
  <1>1. /\ Rising(c, task) /\ Range(c) \subseteq Groups \ {Root}
        /\ (g # Root => g \in Range(c)) /\ g \notin Under(task, c)
    BY PathIsChain
  <1>2. Root \notin M /\ Root \notin Up(r) /\ S \cap Groups = {}
    BY Statics DEF Lists, Up
  <1>3. CASE r.nr[g] > 0 /\ g # Root /\ ~OnRtRq(r, g)
    <2>1. x = EnqueueEntity(r, task, c, FALSE)
      BY <1>3 DEF RqEnqueue
    <2>2. M \ Range(c) = (S \cup Up(r)) \ Range(c) /\ Range(c) \cap Tasks \subseteq S
      BY <1>1, <1>3, Statics
    <2> HIDE DEF c
    <2>3. Good(x, task, S) /\ Kept(r, x, Under(task, c)) /\ KeptTimers(r, x)
      <3>1. Rising(c, task)
        BY <1>1
      <3>2. ASSUME NEW head \in BOOLEAN
            PROVE  /\ Good(EnqueueEntity(r, task, c, head), task, S)
                   /\ Kept(r, EnqueueEntity(r, task, c, head), Under(task, c))
                   /\ KeptTimers(r, EnqueueEntity(r, task, c, head))
        BY <2>2, <3>1, EnqueueEntityKeeps
      <3> QED BY <2>1, <3>2
    <2>4. Keeps(r, x)
      BY <2>3, KeptKeeps
    <2> QED BY <1>1, <2>3, <2>4 DEF Kept
  <1>4. CASE ~(r.nr[g] > 0 /\ g # Root /\ ~OnRtRq(r, g))
    <2>1. x = r
      BY <1>4 DEF RqEnqueue
    <2>2. g \in M <=> g \in S \cup Up(r)
      <3>1. CASE g = Root
        BY <1>2, <3>1
      <3>2. CASE g # Root /\ OnRtRq(r, g)
        <4>1. g \in M
          BY <3>2, Statics, QueuedIsMember
        <4> QED BY <4>1
      <3>3. CASE ~(r.nr[g] > 0)
        BY <1>2, <3>3 DEF Up
      <3> QED BY <1>4, <3>1, <3>2, <3>3
    <2>3. M = S \cup Up(r)
      BY <2>2
    <2> QED BY <2>1, <2>3 DEF Good, Keeps, KeptTimers
  <1> QED BY <1>3, <1>4

LEMMA PeriodKeeps ==
    ASSUME task \in TaskFields, Limits(runtime), NEW S, Good(rt, task, S), NEW g \in Groups,
           NEW n \in Nat, PeriodTimer(g, n)
    PROVE  Good(rt', task, S) /\ (Enabled /\ NoInf => Keeps(rt, rt'))
  <1> DEFINE left == Left(g, n)
             free == rt.time[g] > 0 /\ rt.thr[g] /\ (runtime[g] = RUNTIME_INF \/ left < runtime[g])
             r1   == [rt EXCEPT !.time[g] = left, !.thr[g] = @ /\ ~free]
             enq  == free \/ (rt.time[g] = 0 /\ rt.nr[g] > 0 /\ ~Throttled(rt, g))
             r2   == IF enq THEN RqEnqueue(r1, g) ELSE r1
             stop == Idle(r1, g) \/ (~r1.thr[g] /\ (~Enabled \/ runtime[g] = RUNTIME_INF))
             M == S \cup Up(rt)
  <1>1. rt' = [r2 EXCEPT !.timer[g] = ~stop]
    BY DEF PeriodTimer
  <1>2. /\ rt \in Rqs /\ S \in SUBSET Tasks /\ Lists(rt, task, M)
        /\ runtime[g] \in 0 .. Period \cup {RUNTIME_INF} /\ rt.time[g] \in 0 .. MaxTime
        /\ rt.thr[g] \in BOOLEAN
    BY DEF Good, Limits, Rqs
  <1>3. /\ left \in 0 .. MaxTime
        /\ rt.time[g] > 0 /\ rt.thr[g] /\ ~free => left > 0
    <2> DEFINE m == n * runtime[g]
    <2>1. CASE runtime[g] = RUNTIME_INF
      <3>1. left = 0 /\ 0 \in 0 .. MaxTime
        BY <2>1, TimeAssumption DEF Left
      <3> QED BY <2>1, <3>1
    <2>2. CASE runtime[g] # RUNTIME_INF
      <3>1. runtime[g] \in Nat
        BY <1>2, <2>2, TimeAssumption
      <3>2. m \in Nat /\ (runtime[g] = 0 => m = 0)
        BY <3>1
      <3>3. left = IF m >= rt.time[g] THEN 0 ELSE rt.time[g] - m
        BY <2>2 DEF Left
      <3> HIDE DEF m, left
      <3>4. rt.time[g] \in Nat /\ MaxTime \in Nat /\ rt.time[g] <= MaxTime
        BY <1>2, TimeAssumption
      <3>5. left \in 0 .. MaxTime
        BY <3>2, <3>3, <3>4
      <3>6. ASSUME rt.time[g] > 0, rt.thr[g], ~free PROVE left > 0
        <4>1. ~(left < runtime[g])
          BY <2>2, <3>6
        <4> QED BY <3>1, <3>2, <3>3, <3>4, <3>5, <3>6, <4>1
      <3> QED BY <3>5, <3>6
    <2> QED BY <2>1, <2>2
  <1> HIDE DEF left
  <1>4. /\ r1 \in Rqs /\ r1.q = rt.q /\ r1.bits = rt.bits /\ r1.nr = rt.nr /\ r1.hi = rt.hi
        /\ r1.nb = rt.nb /\ r1.timer = rt.timer
        /\ \A h \in Groups \ {g} : r1.thr[h] = rt.thr[h] /\ r1.time[h] = rt.time[h]
        /\ r1.time[g] = left /\ (r1.thr[g] <=> rt.thr[g] /\ ~free)
    <2> DEFINE th == rt.thr[g] /\ ~free
    <2>1. th \in BOOLEAN
      OBVIOUS
    <2>2. r1 = [rt EXCEPT !.time[g] = left, !.thr[g] = th]
      OBVIOUS
    <2>3. th <=> rt.thr[g] /\ ~free
      OBVIOUS
    <2> HIDE DEF th, free, r1
    <2> QED BY <1>2, <1>3, <2>1, <2>2, <2>3 DEF Rqs
  <1>5. Lists(r1, task, M)
    <2> HIDE DEF r1, M
    <2> QED BY <1>2, <1>4, ListsOfFields
  <1>6. free => rt.thr[g]
    OBVIOUS
  <1>7. enq => free \/ ~Throttled(rt, g)
    OBVIOUS
  <1>8. free => enq
    OBVIOUS
  <1> HIDE DEF free, r1, M
  <1>9. /\ M \ {g} = (S \cup Up(r1)) \ {g} /\ (g \in M => g \in Up(r1))
        /\ ~free => Up(r1) = Up(rt)
    <2>1. Up(r1) \ {g} = Up(rt) \ {g}
      BY <1>4 DEF Up, Throttled
    <2>2. g \in Up(rt) => g \in Up(r1)
      BY <1>4 DEF Up, Throttled
    <2>3. ~free => (g \in Up(r1) <=> g \in Up(rt))
      BY <1>4 DEF Up, Throttled
    <2>4. g \notin S
      BY <1>2, Statics
    <2> QED BY <2>1, <2>2, <2>3, <2>4 DEF M
  <1>10. /\ Good(r2, task, S) /\ Keeps(r1, r2) /\ r2.nr[g] = r1.nr[g]
         /\ r2.time = r1.time /\ r2.thr = r1.thr
    <2>1. CASE enq
      <3>1. r2 = RqEnqueue(r1, g)
        BY <2>1
      <3> HIDE DEF r2, enq
      <3> QED BY <1>2, <1>4, <1>5, <1>9, <3>1, RqEnqueueKeeps
    <2>2. CASE ~enq
      <3>1. r2 = r1 /\ ~free
        BY <1>8, <2>2
      <3>2. M = S \cup Up(r1)
        BY <1>9, <3>1 DEF M
      <3> HIDE DEF r2, enq
      <3> QED BY <1>2, <1>4, <1>5, <3>1, <3>2 DEF Good, Keeps, KeptTimers
    <2> QED BY <2>1, <2>2
  <1> DEFINE x == rt'
  <1>11. x = [r2 EXCEPT !.timer[g] = ~stop]
    BY <1>1
  <1>12. stop \in BOOLEAN
    BY DEF Idle
  <1> HIDE DEF x, r2, enq, stop
  <1>13. r2 \in Rqs
    BY <1>10 DEF Good
  <1>14. /\ x \in Rqs /\ x.q = r2.q /\ x.bits = r2.bits /\ x.nr = r2.nr /\ x.hi = r2.hi /\ x.nb = r2.nb
         /\ x.time = r2.time /\ x.thr = r2.thr
         /\ (x.timer[g] <=> ~stop) /\ \A h \in Groups \ {g} : x.timer[h] = r2.timer[h]
    BY <1>11, <1>12, <1>13 DEF Rqs
  <1>15. Good(x, task, S)
    <2>1. Lists(r2, task, S \cup Up(r2))
      BY <1>10 DEF Good
    <2>2. Lists(x, task, S \cup Up(r2))
      BY <1>14, <2>1, ListsOfFields
    <2>3. Up(x) = Up(r2)
      BY <1>14 DEF Up, Throttled
    <2> QED BY <1>2, <1>14, <2>2, <2>3 DEF Good
  <1>16. ASSUME Enabled, NoInf PROVE Keeps(rt, x)
    <2>1. ASSUME PosTime(rt) PROVE PosTime(x)
      <3> SUFFICES ASSUME NEW h \in Groups, x.thr[h] PROVE x.time[h] > 0
        BY DEF PosTime
      <3>1. x.thr[h] = r1.thr[h] /\ x.time[h] = r1.time[h]
        BY <1>10, <1>14
      <3>2. CASE h = g
        BY <1>3, <1>4, <2>1, <3>1, <3>2 DEF PosTime
      <3>3. CASE h # g
        BY <1>4, <2>1, <3>1, <3>3 DEF PosTime
      <3> QED BY <3>2, <3>3
    <2>2. ASSUME AllStart, Timers(rt) PROVE Timers(x)
      <3>1. Timers(r1)
        BY <1>4, <2>2 DEF Timers
      <3>2. Timers(r2)
        BY <1>10, <2>2, <3>1 DEF Keeps, KeptTimers
      <3> SUFFICES ASSUME NEW h \in Groups, x.nr[h] > 0 PROVE x.timer[h]
        BY DEF Timers
      <3>3. CASE h = g
        <4>1. r1.nr[g] > 0
          BY <1>10, <1>14, <3>3
        <4>2. ~Idle(r1, g)
          <5>1. r1.nr[g] # 0
            BY <4>1
          <5> QED BY <5>1 DEF Idle
        <4>3. ~stop
          BY <1>16, <4>2 DEF stop, NoInf
        <4> QED BY <1>14, <3>3, <4>3
      <3>4. CASE h # g
        BY <1>14, <3>2, <3>4 DEF Timers
      <3> QED BY <3>3, <3>4
    <2> QED BY <2>1, <2>2 DEF Keeps, KeptTimers
  <1> QED BY <1>15, <1>16 DEF x

-----------------------------------------------------------------------------
(* Picking *)

LEMMA AboveStep ==
    ASSUME NEW g \in Groups \ {Root}
    PROVE  Above(g) = {g} \cup Above(Parent[g])
  <1> DEFINE c == path[Parent[g]]
             b == path[g]
  <1>1. Parent[g] \in Groups /\ Deep[g] = Deep[Parent[g]] + 1 /\ Deep[Parent[g]] \in Nat /\ g \in Entities
    BY Statics, DeepIs
  <1>2. /\ Rising(c, 0) /\ (Parent[g] = Root <=> Len(c) = 0) /\ (Len(c) > 0 => c[1] = Parent[g])
        /\ \A k \in 1 .. Len(c) : c[k] \in Groups \ {Root}
        /\ \A h \in Range(c) : Deep[h] <= Deep[Parent[g]]
    BY <1>1, PathRises
  <1>3. b = <<g>> \o c
    BY PathIs
  <1>4. c \in Seq(Entities) /\ Len(c) \in Nat /\ RqOf(0, g) = Parent[g] /\ g \notin Range(c)
    BY <1>1, <1>2 DEF Rising, RqOf
  <1> HIDE DEF b, c
  <1>5. RqOf(0, g) = IF Len(c) > 0 THEN c[1] ELSE Root
    BY <1>2, <1>4
  <1>6. Range(b) = {g} \cup Range(c)
    BY <1>1, <1>2, <1>3, <1>4, <1>5, RisingOn
  <1>7. ToSet(b) = Range(b) /\ ToSet(c) = Range(c)
    BY DEF ToSet, Range
  <1> QED BY <1>6, <1>7 DEF Above, b, c

LEMMA AboveRoot == Above(Root) = {Root}
  <1>1. path[Root] = <<>>
    BY PathIs
  <1>2. ToSet(<<>>) = {}
    BY DEF ToSet
  <1> QED BY <1>1, <1>2 DEF Above

\* The first entity of a group that has some.
LEMMA FirstIs ==
    ASSUME NEW tk \in TaskFields, NEW S, NEW r, Good(r, tk, S), NEW g \in Groups, r.nr[g] > 0
    PROVE  /\ First(r, g) \in S \cup Up(r) /\ RqOf(tk, First(r, g)) = g
           /\ FirstBit(r.bits[g]) \in r.bits[g]
  <1> DEFINE M == S \cup Up(r)
             A == Mem(tk, M, g)
             b == r.bits[g]
             p == FirstBit(b)
  <1>1. r \in Rqs /\ M \in SUBSET Entities /\ ListsOf(r, tk, M, g)
    BY DEF Good, Lists
  <1> HIDE DEF M
  <1>2. /\ \A i \in Levels : Range(r.q[g][i]) = {d \in A : SePrio(r, tk, d) = i}
        /\ \A i \in Levels : r.q[g][i] \in Seq(Entities)
        /\ b = {i \in Levels : r.q[g][i] # <<>>}
        /\ r.nr[g] = Cardinality(A)
    BY <1>1 DEF ListsOf, Rqs
  <1>3. Cardinality(A) = 0 <=> A = {}
    BY <1>1, MemIs
  <1>4. PICK e \in A : TRUE
    <2>1. Cardinality(A) # 0
      BY <1>2
    <2> QED BY <1>3, <2>1
  <1>5. e \in Entities /\ SePrio(r, tk, e) \in Levels
    BY <1>1, <1>4, PlaceTypes DEF Mem
  <1> HIDE DEF A, b, p
  <1>6. SePrio(r, tk, e) \in b
    <2> DEFINE s == r.q[g][SePrio(r, tk, e)]
    <2>1. s \in Seq(Entities) /\ e \in Range(s)
      BY <1>2, <1>4, <1>5
    <2> HIDE DEF s
    <2>2. s # <<>>
      BY <2>1, EmptyRange
    <2> QED BY <1>2, <1>5, <2>2 DEF s
  <1>7. p \in b
    <2>1. b \in SUBSET Levels
      BY <1>2
    <2>2. p \in b \cup {MAX_RT_PRIO} /\ \A i \in b : p <= i
      BY <2>1, FirstBitIs DEF p
    <2>3. p = MAX_RT_PRIO => SePrio(r, tk, e) = MAX_RT_PRIO
      BY <1>5, <1>6, <2>2, Statics
    <2> QED BY <1>6, <2>2, <2>3
  <1>8. Head(r.q[g][p]) \in A
    <2> DEFINE s == r.q[g][p]
    <2>1. p \in Levels /\ s \in Seq(Entities) /\ s # <<>>
      BY <1>2, <1>7
    <2>2. Range(s) \subseteq A
      BY <1>2, <2>1
    <2> HIDE DEF s
    <2>3. Len(s) \in Nat /\ Len(s) # 0 /\ Range(s) = {s[i] : i \in 1 .. Len(s)} /\ Head(s) = s[1]
      BY <2>1, RangeProperties, EmptySeq
    <2>4. 1 \in 1 .. Len(s)
      BY <2>3
    <2> QED BY <2>2, <2>3, <2>4 DEF s
  <1>9. First(r, g) = Head(r.q[g][p])
    BY DEF First, p, b
  <1> QED BY <1>7, <1>8, <1>9 DEF A, M, Mem, p, b

Rank(e) == IF e \in Groups THEN Cardinality(Groups) + 1 - Deep[e] ELSE 0

LEMMA RankIs ==
    /\ Cardinality(Groups) + 1 \in Nat
    /\ \A e \in Entities : Rank(e) \in 0 .. Cardinality(Groups) + 1 /\ (e \in Groups => Rank(e) > 0)
  <1>1. ASSUME NEW e \in Entities
        PROVE  Rank(e) \in 0 .. Cardinality(Groups) + 1 /\ (e \in Groups => Rank(e) > 0)
    BY DeepIs DEF Rank
  <1> QED BY <1>1, DeepIs

LEMMA RankBelow ==
    ASSUME NEW tk \in TaskFields, NEW e \in Entities, NEW g \in Entities, RqOf(tk, e) = g
    PROVE  Rank(e) <= Rank(g) - 1
  <1>1. g \in Groups
    BY Elsewhere
  <1>2. Rank(g) \in Nat /\ Rank(g) > 0
    BY <1>1, RankIs
  <1>3. CASE e \in Tasks
    <2>1. Rank(e) = 0
      BY <1>3, Statics DEF Rank
    <2> QED BY <1>2, <2>1
  <1>4. CASE e \in Groups \ {Root}
    <2>1. g = Parent[e]
      BY <1>4 DEF RqOf
    <2>2. Deep[e] = Deep[g] + 1
      BY <1>4, <2>1, DeepIs
    <2> QED BY <1>1, <1>4, <2>2, DeepIs DEF Rank
  <1> QED BY <1>3, <1>4, Statics

\* The walk of _pick_next_task_rt down the tree comes to an end.
LEMMA PickIs ==
    ASSUME task \in TaskFields, NEW S, NEW r, Good(r, task, S)
    PROVE  \E down :
              /\ \A e \in Entities :
                    down[e] = IF e \in Groups /\ r.nr[e] > 0 THEN down[First(r, e)] ELSE e
              /\ PickRt(r) = IF r.nr[Root] = 0 \/ Throttled(r, Root) THEN Other
                             ELSE down[First(r, Root)]
  <1> DEFINE Body(p, e) == IF e \in Groups /\ r.nr[e] > 0 THEN p[First(r, e)] ELSE e
             P(p) == p = [e \in Entities |-> Body(p, e)]
             N == Cardinality(Groups) + 1
             Q(m) == \E p : \A e \in Entities : Rank(e) <= m => p[e] = Body(p, e)
             K == {m \in 0 .. N : Q(m)}
  <1>1. \A e \in Entities : e \in Groups /\ r.nr[e] > 0 =>
            /\ First(r, e) \in Entities /\ Rank(First(r, e)) <= Rank(e) - 1
    <2> SUFFICES ASSUME NEW e \in Entities, e \in Groups, r.nr[e] > 0
                 PROVE  First(r, e) \in Entities /\ Rank(First(r, e)) <= Rank(e) - 1
      OBVIOUS
    <2>1. First(r, e) \in S \cup Up(r) /\ RqOf(task, First(r, e)) = e
      BY FirstIs
    <2>2. First(r, e) \in Entities
      BY <2>1 DEF Good, Lists
    <2> QED BY <2>1, <2>2, RankBelow
  <1>2. 0 \in K
    <2> DEFINE p == [e \in Entities |-> e]
    <2>1. ASSUME NEW e \in Entities, Rank(e) <= 0 PROVE p[e] = Body(p, e)
      <3>1. e \notin Groups
        BY <2>1, RankIs
      <3> QED BY <3>1
    <2> HIDE DEF p, Body
    <2>2. Q(0)
      BY <2>1
    <2> QED BY <2>2, RankIs
  <1>3. ASSUME NEW m \in 1 .. N, m - 1 \in K PROVE m \in K
    <2>1. PICK p : \A e \in Entities : Rank(e) <= m - 1 => p[e] = Body(p, e)
      BY <1>3
    <2> DEFINE x == [e \in Entities |-> Body(p, e)]
    <2>2. \A e \in Entities : Rank(e) <= m - 1 => x[e] = p[e]
      BY <2>1
    <2>3. ASSUME NEW e \in Entities, Rank(e) <= m PROVE x[e] = Body(x, e)
      <3>1. CASE e \in Groups /\ r.nr[e] > 0
        <4>1. First(r, e) \in Entities /\ Rank(First(r, e)) <= m - 1
          <5>1. First(r, e) \in Entities /\ Rank(First(r, e)) <= Rank(e) - 1
            BY <1>1, <3>1
          <5>2. Rank(e) \in Nat /\ Rank(First(r, e)) \in Nat
            BY <5>1, RankIs
          <5> QED BY <2>3, <5>1, <5>2
        <4>2. x[First(r, e)] = p[First(r, e)]
          BY <2>2, <4>1
        <4>3. x[e] = p[First(r, e)]
          BY <3>1
        <4> HIDE DEF x
        <4> QED BY <3>1, <4>2, <4>3
      <3>2. CASE ~(e \in Groups /\ r.nr[e] > 0)
        BY <3>2
      <3> QED BY <3>1, <3>2
    <2> HIDE DEF x, Body
    <2>4. Q(m)
      BY <2>3
    <2> QED BY <2>4
  <1>4. N \in K
    <2> HIDE DEF K
    <2>1. N \in Nat
      BY RankIs
    <2> HIDE DEF N
    <2>2. \A m \in 0 .. N : m \in K
      BY <1>2, <1>3, <2>1, UpTo
    <2> QED BY <2>1, <2>2
  <1>5. PICK p : \A e \in Entities : Rank(e) <= N => p[e] = Body(p, e)
    BY <1>4
  <1>6. \A e \in Entities : p[e] = Body(p, e)
    <2> HIDE DEF Body
    <2>1. \A e \in Entities : Rank(e) <= N
      BY RankIs
    <2> QED BY <1>5, <2>1
  <1> DEFINE x == [e \in Entities |-> p[e]]
  <1>7. \A e \in Entities : x[e] = p[e] /\ Body(p, e) = Body(x, e)
    BY <1>1
  <1>8. P(x)
    <2> HIDE DEF Body
    <2>1. \A e \in Entities : p[e] = Body(x, e)
      <3> HIDE DEF x
      <3> QED BY <1>6, <1>7
    <2> QED BY <2>1
  <1> DEFINE down == CHOOSE y : P(y)
  <1>9. PickRt(r) = IF r.nr[Root] = 0 \/ Throttled(r, Root) THEN Other ELSE down[First(r, Root)]
    BY DEF PickRt
  <1>10. P(down)
    <2> HIDE DEF P, x
    <2> QED BY <1>8
  <1> HIDE DEF down
  <1>11. \A e \in Entities : down[e] = Body(down, e)
    <2> HIDE DEF Body
    <2> QED BY <1>10
  <1> QED BY <1>9, <1>11

LEMMA PickOpen ==
    ASSUME task \in TaskFields, NEW S, NEW r, Good(r, task, S), NEW t, t = PickRt(r), t # Other
    PROVE  t \in S /\ \A g \in Above(task[t].group) : ~Throttled(r, g)
  <1>1. PICK down :
          /\ \A e \in Entities :
                down[e] = IF e \in Groups /\ r.nr[e] > 0 THEN down[First(r, e)] ELSE e
          /\ PickRt(r) = IF r.nr[Root] = 0 \/ Throttled(r, Root) THEN Other
                         ELSE down[First(r, Root)]
    BY PickIs
  <1> DEFINE M == S \cup Up(r)
             N == Cardinality(Groups) + 1
             D(e) == /\ down[e] \in S
                     /\ Above(task[down[e]].group) \subseteq Up(r) \cup Above(RqOf(task, e))
             K == {m \in 0 .. N : \A e \in M : Rank(e) <= m => D(e)}
  <1>2. /\ M \subseteq Entities /\ S \subseteq Tasks /\ r \in Rqs
        /\ \A e \in M : e \in S \/ e \in Up(r)
    BY DEF Good, Lists
  <1>3. ASSUME NEW e \in S PROVE D(e)
    <2>1. e \in Tasks /\ e \in Entities /\ e \notin Groups
      BY <1>2, Statics
    <2>2. down[e] = e /\ RqOf(task, e) = task[e].group
      BY <1>1, <2>1 DEF RqOf
    <2> QED BY <2>2
  <1>4. ASSUME NEW e \in Up(r), D(First(r, e)) PROVE D(e)
    <2>1. e \in Groups \ {Root} /\ r.nr[e] > 0 /\ e \in Entities
      BY Statics DEF Up
    <2>2. down[e] = down[First(r, e)]
      BY <1>1, <2>1
    <2>3. RqOf(task, First(r, e)) = e /\ RqOf(task, e) = Parent[e]
      BY <2>1, FirstIs DEF RqOf
    <2>4. Above(e) = {e} \cup Above(Parent[e])
      BY <2>1, AboveStep
    <2> QED BY <1>4, <2>2, <2>3, <2>4
  <1>5. \A e \in Up(r) : First(r, e) \in M /\ Rank(First(r, e)) <= Rank(e) - 1
    <2> SUFFICES ASSUME NEW e \in Up(r) PROVE First(r, e) \in M /\ Rank(First(r, e)) <= Rank(e) - 1
      OBVIOUS
    <2>1. e \in Groups \ {Root} /\ r.nr[e] > 0 /\ e \in Entities
      BY Statics DEF Up
    <2>2. First(r, e) \in M /\ RqOf(task, First(r, e)) = e
      BY <2>1, FirstIs
    <2>3. First(r, e) \in Entities
      BY <1>2, <2>2
    <2> QED BY <2>1, <2>2, <2>3, RankBelow
  <1>6. \A e \in M : Rank(e) \in 0 .. N /\ (Rank(e) <= 0 => e \in S)
    <2>1. \A e \in M : e \in Entities
      BY <1>2
    <2>2. \A e \in Up(r) : e \in Groups
      BY DEF Up
    <2> QED BY <1>2, <2>1, <2>2, RankIs
  <1>7. N \in Nat
    BY RankIs
  <1> HIDE DEF D, N, M
  <1>8. 0 \in K
    BY <1>3, <1>6, <1>7
  <1>9. ASSUME NEW m \in 1 .. N, m - 1 \in K PROVE m \in K
    <2> SUFFICES ASSUME NEW e \in M, Rank(e) <= m PROVE D(e)
      OBVIOUS
    <2>1. CASE e \in Up(r)
      <3>1. First(r, e) \in M /\ Rank(First(r, e)) <= m - 1
        <4>1. First(r, e) \in M /\ Rank(First(r, e)) <= Rank(e) - 1
          BY <1>5, <2>1
        <4>2. Rank(e) \in Nat /\ Rank(First(r, e)) \in Nat
          BY <1>6, <1>7, <4>1
        <4> QED BY <4>1, <4>2
      <3> QED BY <1>4, <1>9, <2>1, <3>1
    <2> QED BY <1>2, <1>3, <2>1
  <1>10. \A e \in M : D(e)
    <2> HIDE DEF K
    <2>1. \A m \in 0 .. N : m \in K
      BY <1>7, <1>8, <1>9, UpTo
    <2>2. N \in K
      BY <1>7, <2>1
    <2>3. \A e \in M : Rank(e) <= N
      BY <1>6, <1>7
    <2> QED BY <2>2, <2>3 DEF K
  <1>11. ~Throttled(r, Root) /\ r.nr[Root] # 0 /\ t = down[First(r, Root)]
    BY <1>1
  <1>12. First(r, Root) \in M /\ RqOf(task, First(r, Root)) = Root
    <2>1. r.nr[Root] > 0
      <3> DEFINE A == Mem(task, M, Root)
      <3>1. Root \in Groups /\ M \in SUBSET Entities
        BY <1>2, Statics
      <3>2. r.nr[Root] = Cardinality(A)
        BY <3>1 DEF Good, Lists, ListsOf, M
      <3>3. Cardinality(A) \in Nat
        BY <3>1, MemIs
      <3> QED BY <1>11, <3>2, <3>3
    <2> QED BY <2>1, Statics, FirstIs DEF M
  <1>13. D(First(r, Root))
    BY <1>10, <1>12
  <1>14. t \in S /\ Above(task[t].group) \subseteq Up(r) \cup {Root}
    BY <1>11, <1>12, <1>13, AboveRoot DEF D
  <1>15. \A g \in Up(r) : ~Throttled(r, g)
    BY DEF Up
  <1> QED BY <1>11, <1>14, <1>15

LEMMA NextIs ==
    ASSUME task \in TaskFields, NEW off, NEW S, S \subseteq Tasks \ off, NEW r, Good(r, task, S),
           NEW c \in PickNext(r, off)
    PROVE  /\ c \in (Tasks \ off) \cup {Other}
           /\ IsRt(task, c) => \A g \in Above(task[c].group) : ~Throttled(r, g)
  <1>1. CASE PickRt(r) # Other
    <2>1. c = PickRt(r)
      BY <1>1 DEF PickNext
    <2>2. c \in S /\ \A g \in Above(task[c].group) : ~Throttled(r, g)
      BY <1>1, <2>1, PickOpen
    <2> QED BY <2>2
  <1>2. CASE PickRt(r) = Other
    <2>1. c \in {Other} \cup {t \in Tasks \ off : ~IsRt(task, t)}
      BY <1>2 DEF PickNext
    <2>2. ~IsRt(task, Other)
      BY TreeAssumption DEF IsRt
    <2> QED BY <2>1, <2>2
  <1> QED BY <1>1, <1>2

\* No list of real-time entities has the priority of other tasks.
LEMMA BitsBelow ==
    ASSUME NEW tk \in TaskFields, NEW S, \A t \in S : IsRt(tk, t), NEW r, Good(r, tk, S)
    PROVE  \A g \in Groups : r.bits[g] \subseteq Prios
  <1> DEFINE N == Cardinality(Groups) + 1
             B(g) == r.bits[g] \subseteq Prios
             K == {m \in 0 .. N : \A g \in Groups : Rank(g) <= m => B(g)}
  <1>1. N \in Nat /\ \A g \in Groups : Rank(g) \in 0 .. N /\ Rank(g) > 0
    BY DeepIs DEF Rank
  <1>2. r \in Rqs /\ S \in SUBSET Tasks /\ \A g \in Groups : ListsOf(r, tk, S \cup Up(r), g)
    BY DEF Good, Lists
  <1>3. ASSUME NEW g \in Groups, \A e \in Groups \ {Root} : Parent[e] = g => B(e) PROVE B(g)
    <2> SUFFICES ASSUME NEW i \in r.bits[g] PROVE i \in Prios
      OBVIOUS
    <2> DEFINE s == r.q[g][i]
               A == Mem(tk, S \cup Up(r), g)
    <2>1. i \in Levels /\ s # <<>> /\ s \in Seq(Entities)
          /\ Range(s) = {d \in A : SePrio(r, tk, d) = i}
      BY <1>2 DEF ListsOf, Rqs
    <2> HIDE DEF s
    <2>2. Range(s) # {}
      BY <2>1, EmptyRange
    <2>3. PICK e \in A : SePrio(r, tk, e) = i
      BY <2>1, <2>2
    <2>4. e \in S \cup Up(r) /\ RqOf(tk, e) = g
      BY <2>3 DEF Mem
    <2>5. CASE e \in S
      <3>1. SePrio(r, tk, e) = Prio(tk, e) /\ Prio(tk, e) < MAX_RT_PRIO
        BY <1>2, <2>5, Statics DEF SePrio, IsRt
      <3> QED BY <2>1, <2>3, <3>1, Statics, PrioAssumption
    <2>6. CASE e \in Up(r)
      <3>1. e \in Groups \ {Root} /\ r.nr[e] > 0
        BY <2>6 DEF Up
      <3>2. Parent[e] = g /\ i = r.hi[e]
        BY <2>3, <2>4, <3>1 DEF RqOf, SePrio
      <3>3. r.hi[e] = FirstBit(r.bits[e])
        BY <1>2, <3>1 DEF ListsOf
      <3>4. FirstBit(r.bits[e]) \in r.bits[e]
        BY <3>1, FirstIs
      <3> QED BY <1>3, <3>1, <3>2, <3>3, <3>4
    <2> QED BY <2>4, <2>5, <2>6
  <1> HIDE DEF B, N
  <1>4. 0 \in K
    BY <1>1
  <1>5. ASSUME NEW m \in 1 .. N, m - 1 \in K PROVE m \in K
    <2> SUFFICES ASSUME NEW g \in Groups, Rank(g) <= m PROVE B(g)
      BY <1>1
    <2>1. ASSUME NEW e \in Groups \ {Root}, Parent[e] = g PROVE B(e)
      <3>1. Rank(e) = Rank(g) - 1
        BY <2>1, DeepIs DEF Rank
      <3>2. Rank(e) <= m - 1
        BY <1>1, <3>1
      <3> QED BY <1>5, <3>2
    <2> QED BY <1>3, <2>1
  <1>6. N \in K
    <2> HIDE DEF K
    <2>1. \A m \in 0 .. N : m \in K
      BY <1>1, <1>4, <1>5, UpTo
    <2> QED BY <1>1, <2>1
  <1> QED BY <1>1, <1>6 DEF B

-----------------------------------------------------------------------------
(* The inductive invariant *)

Awake(tk, off) == {t \in Tasks : IsRt(tk, t) /\ t \notin off}

Types ==
    /\ task \in TaskFields /\ Limits(runtime)
    /\ asleep \in SUBSET Tasks /\ curr \in (Tasks \ asleep) \cup {Other}
    /\ resched \in BOOLEAN /\ limit \in {"on", "off", "again"}
    /\ moving \in Tasks \X Groups \cup {<<>>}
Inv == Types /\ Good(rt, task, Awake(task, asleep))

LEMMA InvInit == Init => Inv
  <1> SUFFICES ASSUME Init PROVE Inv
    OBVIOUS
  <1>1. MAX_RT_PRIO \in Levels /\ Root \in Groups /\ Period \in Nat /\ GlobalRuntime \in 0 .. Period
        /\ 0 \in 0 .. Period /\ 0 \in 0 .. MaxTime
    BY Statics, TimeAssumption
  <1>2. Types
    <2>1. task \in TaskFields
      BY <1>1 DEF Init, TaskFields
    <2>2. Limits(runtime)
      BY <1>1 DEF Init, Limits
    <2> QED BY <2>1, <2>2 DEF Init, Types
  <1>3. rt \in Rqs
    <2>1. <<>> \in Seq(Entities)
      OBVIOUS
    <2> QED BY <1>1, <2>1 DEF Init, Rqs
  <1>4. Awake(task, asleep) = {} /\ Up(rt) = {}
    BY DEF Init, Awake, Up
  <1>5. ASSUME NEW g \in Groups PROVE ListsOf(rt, task, {}, g)
    <2>1. Mem(task, {}, g) = {} /\ Cardinality({}) = 0
      BY FS_EmptySet DEF Mem
    <2>2. FirstBit({}) = MAX_RT_PRIO
      <3>1. {} \in SUBSET Levels
        OBVIOUS
      <3>2. FirstBit({}) \in {} \cup {MAX_RT_PRIO}
        BY <3>1, FirstBitIs
      <3> QED BY <3>2
    <2>3. IsInjective(<<>>) /\ Range(<<>>) = {}
      BY DEF IsInjective, Range
    <2>4. /\ \A i \in Levels : rt.q[g][i] = <<>>
          /\ rt.bits[g] = {} /\ rt.nr[g] = 0 /\ rt.nb[g] = 0 /\ rt.hi[g] = MAX_RT_PRIO
      BY DEF Init
    <2>5. {e \in {} : SeBoosted(rt, task, e)} = {}
      OBVIOUS
    <2> QED BY <2>1, <2>2, <2>3, <2>4, <2>5 DEF ListsOf
  <1> QED BY <1>2, <1>3, <1>4, <1>5 DEF Inv, Good, Lists

LEMMA ElapsedIs == ASSUME NEW d \in Elapsed PROVE d \in Nat
  BY DEF Elapsed

\* A task is taken off the run queue, changed, and put back.
LEMMA MoveKeeps ==
    ASSUME Inv, NEW t \in Tasks, NEW tk \in TaskFields, \A s \in Tasks \ {t} : tk[s] = task[s],
           NEW head \in BOOLEAN, NEW d \in Nat, t \notin asleep,
           NEW u1, u1 = DequeueTask(rt, t, d),
           NEW u2, u2 = IF t = curr THEN UpdateCurr(u1.r, 0) ELSE u1,
           NEW x, x = EnqueueTask(u2.r, tk, t, head)
    PROVE  /\ Good(x, tk, Awake(tk, asleep)) /\ Keeps(rt, x)
           /\ u1.stop \in BOOLEAN /\ u2.stop \in BOOLEAN
  <1> DEFINE S == Awake(task, asleep)
             N == S \ {t}
  <1>1. task \in TaskFields /\ Limits(runtime) /\ Good(rt, task, S)
    BY DEF Inv, Types
  <1>2. IsRt(task, t) \/ t \notin S
    BY DEF Awake
  <1>3. u1.stop \in BOOLEAN /\ Good(u1.r, task, N) /\ Keeps(rt, u1.r)
    <2> HIDE DEF S
    <2> QED BY <1>1, <1>2, DequeueTaskKeeps
  <1>4. u2.stop \in BOOLEAN /\ Good(u2.r, task, N) /\ Keeps(rt, u2.r)
    <2>1. CASE t = curr
      <3> DEFINE z == 0
      <3>1. u2 = UpdateCurr(u1.r, z) /\ z \in Nat
        BY <2>1
      <3> HIDE DEF N, z
      <3>2. u2 \in Accs /\ Good(u2.r, task, N) /\ Keeps(u1.r, u2.r)
        BY <1>1, <1>3, <3>1, UpdateKeeps
      <3>3. Keeps(rt, u2.r)
        BY <1>3, <3>2, KeepsStep
      <3> QED BY <3>2, <3>3 DEF Accs
    <2>2. CASE t # curr
      BY <1>3, <2>2
    <2> QED BY <2>1, <2>2
  <1>5. Good(u2.r, tk, N)
    <2>1. t \notin N
      OBVIOUS
    <2> HIDE DEF N
    <2> QED BY <1>1, <1>4, <2>1, GoodOther
  <1>6. Good(x, tk, IF IsRt(tk, t) THEN N \cup {t} ELSE N) /\ Keeps(u2.r, x)
    <2> HIDE DEF N
    <2> QED BY <1>5, EnqueueTaskKeeps
  <1>7. Awake(tk, asleep) = IF IsRt(tk, t) THEN N \cup {t} ELSE N
    <2>1. \A s \in Tasks \ {t} : IsRt(tk, s) <=> IsRt(task, s)
      BY DEF IsRt, Prio
    <2> QED BY <2>1 DEF Awake
  <1>8. Keeps(rt, x)
    BY <1>4, <1>6, KeepsStep
  <1> QED BY <1>3, <1>4, <1>6, <1>7, <1>8

LEMMA ChangeKeeps ==
    ASSUME Inv, NEW t \in Tasks, NEW tk \in TaskFields, \A s \in Tasks \ {t} : tk[s] = task[s],
           NEW head \in BOOLEAN, Change(t, tk, head)
    PROVE  Inv' /\ Keeps(rt, rt')
  <1>1. PICK d \in Elapsed :
        LET u1 == IF t \in asleep THEN [r |-> rt, stop |-> FALSE] ELSE DequeueTask(rt, t, d)
            u2 == IF t = curr THEN UpdateCurr(u1.r, 0) ELSE u1
            was == Prio(task, t)
            is  == Prio(tk, t)
            stop == resched \/ u1.stop \/ u2.stop
        IN /\ task' = tk
           /\ rt' = IF t \in asleep THEN rt ELSE EnqueueTask(u2.r, tk, t, head)
           /\ resched' \in
                 IF t \in asleep \/ was = is THEN {stop}
                 ELSE IF is = MAX_RT_PRIO
                 THEN IF t = curr THEN {TRUE} ELSE {stop, stop \/ ~IsRt(task, curr)}
                 ELSE IF t = curr THEN {stop \/ was < is}
                 ELSE {stop \/ is < CurrPrio(task)}
           /\ UNCHANGED <<asleep, curr, runtime, limit, moving>>
    BY DEF Change
  <1> DEFINE u1 == IF t \in asleep THEN [r |-> rt, stop |-> FALSE] ELSE DequeueTask(rt, t, d)
             u2 == IF t = curr THEN UpdateCurr(u1.r, 0) ELSE u1
             stop == resched \/ u1.stop \/ u2.stop
  <1>2. /\ task' = tk
        /\ rt' = IF t \in asleep THEN rt ELSE EnqueueTask(u2.r, tk, t, head)
        /\ UNCHANGED <<asleep, curr, runtime, limit, moving>>
    BY <1>1
  <1>3. resched' \in BOOLEAN
    <2>1. \E a, b, c \in BOOLEAN : resched' \in {stop, TRUE, stop \/ a, stop \/ b, stop \/ c}
      BY <1>1, Zenon
    <2> QED BY <2>1
  <1>4. Types'
    BY <1>2, <1>3 DEF Inv, Types, Limits
  <1>5. Good(rt', tk, Awake(tk, asleep)) /\ Keeps(rt, rt')
    <2>1. CASE t \in asleep
      <3>1. rt' = rt /\ t \notin Awake(task, asleep) /\ task \in TaskFields
            /\ Good(rt, task, Awake(task, asleep))
        BY <1>2, <2>1 DEF Inv, Types, Awake
      <3>2. Awake(tk, asleep) = Awake(task, asleep)
        BY <2>1 DEF Awake, IsRt, Prio
      <3>3. Good(rt, tk, Awake(task, asleep))
        BY <3>1, GoodOther
      <3>4. Keeps(rt, rt)
        BY DEF Keeps, KeptTimers
      <3> QED BY <3>1, <3>2, <3>3, <3>4
    <2>2. CASE t \notin asleep
      <3>1. u1 = DequeueTask(rt, t, d) /\ rt' = EnqueueTask(u2.r, tk, t, head)
        BY <1>2, <2>2
      <3>2. u2 = IF t = curr THEN UpdateCurr(u1.r, 0) ELSE u1
        OBVIOUS
      <3>3. d \in Nat
        BY ElapsedIs
      <3> DEFINE x == rt'
      <3>4. x = EnqueueTask(u2.r, tk, t, head)
        BY <3>1
      <3> HIDE DEF u1, u2, x
      <3>5. Good(x, tk, Awake(tk, asleep)) /\ Keeps(rt, x)
        BY <2>2, <3>1, <3>2, <3>3, <3>4, MoveKeeps
      <3> QED BY <3>5 DEF x
    <2> QED BY <2>1, <2>2
  <1>6. Good(rt, task, Awake(task, asleep))'
    BY <1>2, <1>5
  <1> QED BY <1>4, <1>5, <1>6 DEF Inv

\* Nothing is known of the tasks that are not queued, and little of the others.
LEMMA GoodSame ==
    ASSUME NEW tk \in TaskFields, NEW tl \in TaskFields, NEW S, NEW r, Good(r, tk, S),
           \A s \in Tasks : /\ tl[s].group = tk[s].group /\ tl[s].normal = tk[s].normal
                            /\ Prio(tl, s) = Prio(tk, s)
    PROVE  Good(r, tl, S)
  <1> DEFINE M == S \cup Up(r)
  <1>1. M \subseteq Entities /\ Lists(r, tk, M)
    BY Statics DEF Good, Up, Lists
  <1>2. ASSUME NEW e \in M
        PROVE  /\ RqOf(tl, e) = RqOf(tk, e) /\ SePrio(r, tl, e) = SePrio(r, tk, e)
               /\ SeBoosted(r, tl, e) <=> SeBoosted(r, tk, e)
    <2>1. e \in Tasks \/ e \in Groups
      BY <1>1, Statics
    <2> QED BY <2>1 DEF RqOf, SePrio, SeBoosted
  <1>3. ASSUME NEW g \in Groups PROVE ListsOf(r, tl, M, g)
    <2>1. ListsOf(r, tk, M, g)
      BY <1>1 DEF Lists
    <2>2. Mem(tl, M, g) = Mem(tk, M, g)
      BY <1>2 DEF Mem
    <2>3. \A e \in Mem(tk, M, g) : /\ SePrio(r, tl, e) = SePrio(r, tk, e)
                                   /\ SeBoosted(r, tl, e) <=> SeBoosted(r, tk, e)
      BY <1>2 DEF Mem
    <2> HIDE DEF M
    <2> QED BY <2>1, <2>2, <2>3, ListsSame
  <1> QED BY <1>1, <1>3 DEF Good, Lists

-----------------------------------------------------------------------------
(* The steps of the scheduler core *)

LEMMA SelfKeeps == ASSUME NEW r PROVE Keeps(r, r)
  BY DEF Keeps, KeptTimers

LEMMA PreemptKeeps ==
    ASSUME Inv, Preempt
    PROVE  Inv' /\ Keeps(rt, rt') /\ ~Overrun'
  <1> DEFINE S == Awake(task, asleep)
  <1>1. PICK d \in Elapsed : rt' = UpdateCurr(rt, d).r /\ curr' \in PickNext(UpdateCurr(rt, d).r, asleep)
    BY DEF Preempt
  <1> DEFINE u == UpdateCurr(rt, d)
  <1>2. resched' = FALSE /\ UNCHANGED <<task, asleep, runtime, limit, moving>>
    BY DEF Preempt
  <1>3. /\ task \in TaskFields /\ Limits(runtime) /\ Good(rt, task, S) /\ d \in Nat
        /\ S \subseteq Tasks \ asleep
    BY ElapsedIs DEF Inv, Types, Awake
  <1>4. rt' = u.r /\ curr' \in PickNext(u.r, asleep)
    BY <1>1
  <1> HIDE DEF S, u
  <1>5. Good(u.r, task, S) /\ Keeps(rt, u.r)
    BY <1>3, UpdateKeeps DEF u
  <1>6. /\ curr' \in (Tasks \ asleep) \cup {Other}
        /\ IsRt(task, curr') => \A g \in Above(task[curr'].group) : ~Throttled(u.r, g)
    <2> DEFINE c == curr'
    <2>1. c \in PickNext(u.r, asleep)
      BY <1>4
    <2> HIDE DEF c
    <2>2. /\ c \in (Tasks \ asleep) \cup {Other}
          /\ IsRt(task, c) => \A g \in Above(task[c].group) : ~Throttled(u.r, g)
      BY <1>3, <1>5, <2>1, NextIs
    <2> QED BY <2>2 DEF c
  <1>7. Types'
    BY <1>2, <1>6 DEF Inv, Types, Limits
  <1>8. Good(rt, task, Awake(task, asleep))'
    BY <1>2, <1>4, <1>5 DEF S
  <1>9. ~Overrun'
    BY <1>2, <1>4, <1>6 DEF Overrun
  <1> QED BY <1>4, <1>5, <1>7, <1>8, <1>9 DEF Inv

LEMMA YieldKeeps ==
    ASSUME Inv, Yield
    PROVE  Inv' /\ Keeps(rt, rt') /\ ~Overrun'
  <1> DEFINE S == Awake(task, asleep)
             x == Requeue(rt, task, curr)
  <1>1. PICK d \in Elapsed : rt' = UpdateCurr(x, d).r /\ curr' \in PickNext(UpdateCurr(x, d).r, asleep)
    BY DEF Yield
  <1> DEFINE u == UpdateCurr(x, d)
  <1>2. resched' = FALSE /\ UNCHANGED <<task, asleep, runtime, limit, moving>> /\ curr \in Tasks
    BY DEF Yield, IsRt
  <1>3. /\ task \in TaskFields /\ Limits(runtime) /\ Good(rt, task, S) /\ d \in Nat
        /\ S \subseteq Tasks \ asleep
    BY ElapsedIs DEF Inv, Types, Awake
  <1>4. rt' = u.r /\ curr' \in PickNext(u.r, asleep)
    BY <1>1
  <1> HIDE DEF S, u
  <1>5. Good(x, task, S) /\ Keeps(rt, x)
    BY <1>2, <1>3, RequeueKeeps
  <1>6. Good(u.r, task, S) /\ Keeps(x, u.r)
    <2> HIDE DEF x
    <2> QED BY <1>3, <1>5, UpdateKeeps DEF u
  <1>7. Keeps(rt, u.r)
    <2> HIDE DEF x
    <2> QED BY <1>5, <1>6, KeepsStep
  <1>8. /\ curr' \in (Tasks \ asleep) \cup {Other}
        /\ IsRt(task, curr') => \A g \in Above(task[curr'].group) : ~Throttled(u.r, g)
    <2> DEFINE c == curr'
    <2>1. c \in PickNext(u.r, asleep)
      BY <1>4
    <2> HIDE DEF c, x
    <2>2. /\ c \in (Tasks \ asleep) \cup {Other}
          /\ IsRt(task, c) => \A g \in Above(task[c].group) : ~Throttled(u.r, g)
      BY <1>3, <1>6, <2>1, NextIs
    <2> QED BY <2>2 DEF c
  <1>9. Types'
    BY <1>2, <1>8 DEF Inv, Types, Limits
  <1>10. Good(rt, task, Awake(task, asleep))'
    BY <1>2, <1>4, <1>6 DEF S
  <1>11. ~Overrun'
    BY <1>2, <1>4, <1>8 DEF Overrun
  <1> QED BY <1>4, <1>7, <1>9, <1>10, <1>11 DEF Inv

LEMMA SleepKeeps ==
    ASSUME Inv, Sleep
    PROVE  Inv' /\ Keeps(rt, rt') /\ ~Overrun'
  <1> DEFINE S == Awake(task, asleep)
             off == asleep \cup {curr}
             N == S \ {curr}
  <1>1. PICK d \in Elapsed : /\ rt' = DequeueTask(rt, curr, d).r
                             /\ curr' \in PickNext(DequeueTask(rt, curr, d).r, off)
    BY DEF Sleep
  <1> DEFINE u == DequeueTask(rt, curr, d)
  <1>2. resched' = FALSE /\ asleep' = off /\ UNCHANGED <<task, runtime, limit, moving>> /\ curr \in Tasks
    BY DEF Sleep, Inv, Types
  <1>3. /\ task \in TaskFields /\ Limits(runtime) /\ Good(rt, task, S) /\ d \in Nat
        /\ N \subseteq Tasks \ off /\ (IsRt(task, curr) \/ curr \notin S)
        /\ off \in SUBSET Tasks /\ N = Awake(task, off)
    BY <1>2, ElapsedIs DEF Inv, Types, Awake
  <1>4. rt' = u.r /\ curr' \in PickNext(u.r, off)
    BY <1>1
  <1> HIDE DEF S, u, off
  <1>5. Good(u.r, task, N) /\ Keeps(rt, u.r)
    BY <1>2, <1>3, DequeueTaskKeeps DEF u
  <1> HIDE DEF N
  <1>6. /\ curr' \in (Tasks \ off) \cup {Other}
        /\ IsRt(task, curr') => \A g \in Above(task[curr'].group) : ~Throttled(u.r, g)
    <2> DEFINE c == curr'
    <2>1. c \in PickNext(u.r, off)
      BY <1>4
    <2> HIDE DEF c
    <2>2. /\ c \in (Tasks \ off) \cup {Other}
          /\ IsRt(task, c) => \A g \in Above(task[c].group) : ~Throttled(u.r, g)
      BY <1>3, <1>5, <2>1, NextIs
    <2> QED BY <2>2 DEF c
  <1>7. Types'
    BY <1>2, <1>3, <1>6 DEF Inv, Types, Limits
  <1>8. Good(rt, task, Awake(task, asleep))'
    BY <1>2, <1>3, <1>4, <1>5
  <1>9. ~Overrun'
    BY <1>2, <1>4, <1>6 DEF Overrun
  <1> QED BY <1>4, <1>5, <1>7, <1>8, <1>9 DEF Inv

LEMMA TickKeeps ==
    ASSUME Inv, Tick
    PROVE  Inv' /\ Keeps(rt, rt') /\ (Enabled /\ NoInf => (Overrun' => resched'))
  <1> DEFINE S == Awake(task, asleep)
             d == 1
             u == UpdateCurr(rt, d)
             y == Requeue(u.r, task, curr)
  <1>1. PICK rr \in BOOLEAN : rt' = (IF rr THEN y ELSE u.r) /\ resched' = (resched \/ u.stop \/ rr)
    <2>1. PICK last \in BOOLEAN :
             /\ rt' = IF (last /\ \E e \in ToSet(Chain(task, curr)) : HasCompany(u.r, e)) THEN y ELSE u.r
             /\ resched' = (resched \/ u.stop \/ (last /\ \E e \in ToSet(Chain(task, curr)) : HasCompany(u.r, e)))
      BY DEF Tick
    <2> DEFINE rr == last /\ \E e \in ToSet(Chain(task, curr)) : HasCompany(u.r, e)
    <2>2. rt' = (IF rr THEN y ELSE u.r) /\ resched' = (resched \/ u.stop \/ rr) /\ rr \in BOOLEAN
      BY <2>1
    <2> HIDE DEF rr, u, y
    <2> QED BY <2>2
  <1>2. UNCHANGED <<task, asleep, curr, runtime, limit, moving>> /\ IsRt(task, curr) /\ curr \in Tasks
    BY DEF Tick, IsRt
  <1>3. /\ task \in TaskFields /\ Limits(runtime) /\ Good(rt, task, S) /\ d \in Nat
        /\ S \subseteq Tasks \ asleep
    BY DEF Inv, Types, Awake
  <1> HIDE DEF S, d
  <1>4. /\ u \in Accs /\ Good(u.r, task, S) /\ Keeps(rt, u.r)
        /\ IsRt(task, curr) /\ Enabled /\ NoInf => Stops(u.r, task, curr, u.stop)
    BY <1>3, UpdateKeeps
  <1> HIDE DEF u
  <1>5. Good(y, task, S) /\ Keeps(u.r, y) /\ y.nb = u.r.nb /\ y.thr = u.r.thr
    BY <1>2, <1>3, <1>4, RequeueKeeps
  <1> HIDE DEF y
  <1>6. Keeps(rt, y)
    BY <1>4, <1>5, KeepsStep
  <1>7. Good(rt', task, S) /\ Keeps(rt, rt') /\ rt'.nb = u.r.nb /\ rt'.thr = u.r.thr
    <2>1. CASE rr
      <3>1. rt' = y
        BY <1>1, <2>1
      <3> QED BY <1>5, <1>6, <3>1
    <2>2. CASE ~rr
      <3>1. rt' = u.r
        BY <1>1, <2>2
      <3> QED BY <1>4, <3>1
    <2> QED BY <2>1, <2>2
  <1>8. resched' \in BOOLEAN /\ (u.stop => resched')
    BY <1>1
  <1>9. Types'
    BY <1>2, <1>8 DEF Inv, Types, Limits
  <1>10. Good(rt, task, Awake(task, asleep))'
    BY <1>2, <1>7 DEF S
  <1>11. ASSUME Enabled, NoInf, Overrun' PROVE resched'
    <2>1. PICK g \in Above(task[curr].group) : Throttled(rt', g)
      BY <1>2, <1>11 DEF Overrun
    <2>2. Throttled(u.r, g)
      BY <1>7, <2>1 DEF Throttled
    <2>3. u.stop
      BY <1>2, <1>4, <1>11, <2>2 DEF Stops
    <2> QED BY <1>8, <2>3
  <1> QED BY <1>7, <1>9, <1>10, <1>11 DEF Inv

LEMMA WakeKeeps ==
    ASSUME Inv, NEW t \in Tasks, Wake(t)
    PROVE  Inv' /\ Keeps(rt, rt')
  <1> DEFINE S == Awake(task, asleep)
             x == rt'
             head == FALSE
  <1>1. /\ t \in asleep /\ asleep' = asleep \ {t} /\ x = EnqueueTask(rt, task, t, head)
        /\ UNCHANGED <<task, curr, runtime, limit, moving>> /\ head \in BOOLEAN
    BY DEF Wake
  <1>2. resched' \in BOOLEAN
    <2>1. resched' \in IF IsRt(task, t) THEN {resched \/ Prio(task, t) < CurrPrio(task)}
                       ELSE IF IsRt(task, curr) THEN {resched} ELSE {resched, TRUE}
      BY DEF Wake
    <2>2. \E b \in BOOLEAN : resched' \in {resched, TRUE, resched \/ b}
      BY <2>1
    <2> QED BY <2>2 DEF Inv, Types
  <1>3. Types'
    BY <1>1, <1>2 DEF Inv, Types, Limits
  <1>4. task \in TaskFields /\ Good(rt, task, S)
    BY DEF Inv, Types
  <1>5. Awake(task, asleep') = IF IsRt(task, t) THEN S \cup {t} ELSE S
    BY <1>1 DEF Awake
  <1> HIDE DEF S, x, head
  <1>6. Good(x, task, IF IsRt(task, t) THEN S \cup {t} ELSE S) /\ Keeps(rt, x)
    BY <1>1, <1>4, EnqueueTaskKeeps
  <1>7. Good(rt, task, Awake(task, asleep))'
    BY <1>1, <1>5, <1>6 DEF x
  <1> QED BY <1>3, <1>6, <1>7 DEF Inv, x

LEMMA SetPiKeeps ==
    ASSUME Inv, NEW t \in Tasks, NEW p \in Levels, SetPi(t, p)
    PROVE  Inv' /\ Keeps(rt, rt')
  <1> DEFINE tk == [task EXCEPT ![t].pi = p]
             head == Prio(task, t) < Prio(tk, t)
             S == Awake(task, asleep)
  <1>1. task \in TaskFields /\ Good(rt, task, S)
    BY DEF Inv, Types
  <1>2. /\ tk \in TaskFields /\ \A s \in Tasks \ {t} : tk[s] = task[s]
        /\ tk[t].group = task[t].group /\ tk[t].normal = task[t].normal
    BY <1>1 DEF TaskFields
  <1>3. CASE Prio(tk, t) = Prio(task, t)
    <2>1. task' = tk /\ UNCHANGED <<rt, asleep, curr, resched, runtime, limit, moving>>
      BY <1>3 DEF SetPi
    <2> HIDE DEF tk, S
    <2>2. \A s \in Tasks : /\ tk[s].group = task[s].group /\ tk[s].normal = task[s].normal
                           /\ Prio(tk, s) = Prio(task, s)
      BY <1>2, <1>3 DEF Prio
    <2>3. Good(rt, tk, S)
      BY <1>1, <1>2, <2>2, GoodSame
    <2>4. Awake(tk, asleep) = S
      BY <2>2 DEF Awake, IsRt, S
    <2>5. Types'
      BY <1>2, <2>1 DEF Inv, Types, Limits
    <2>6. Good(rt, task, Awake(task, asleep))'
      BY <2>1, <2>3, <2>4
    <2>7. Keeps(rt, rt')
      BY <2>1, SelfKeeps
    <2> QED BY <2>5, <2>6, <2>7 DEF Inv
  <1>4. CASE Prio(tk, t) # Prio(task, t)
    <2>1. Change(t, tk, head) /\ head \in BOOLEAN
      BY <1>4 DEF SetPi
    <2> HIDE DEF tk, head
    <2> QED BY <1>2, <2>1, ChangeKeeps
  <1> QED BY <1>3, <1>4

LEMMA SetSchedulerKeeps ==
    ASSUME Inv, NEW t \in Tasks, NEW p \in Levels, SetScheduler(t, p)
    PROVE  Inv' /\ Keeps(rt, rt')
  <1> DEFINE tk == [task EXCEPT ![t].normal = p]
             head == FALSE
  <1>1. task \in TaskFields
    BY DEF Inv, Types
  <1>2. tk \in TaskFields /\ \A s \in Tasks \ {t} : tk[s] = task[s]
    BY <1>1 DEF TaskFields
  <1>3. Change(t, tk, head) /\ head \in BOOLEAN
    BY DEF SetScheduler
  <1> HIDE DEF tk, head
  <1> QED BY <1>2, <1>3, ChangeKeeps

\* The group of a task changes as its priority does.
LEMMA AttachKeeps ==
    ASSUME Inv, Attach
    PROVE  Inv' /\ Keeps(rt, rt')
  <1> DEFINE t == moving[1]
             g == moving[2]
             tk == [task EXCEPT ![t].group = g]
             S == Awake(task, asleep)
             head == FALSE
  <1>1. t \in Tasks /\ g \in Groups /\ task \in TaskFields /\ Good(rt, task, S)
    BY DEF Attach, Inv, Types
  <1>2. PICK d \in Elapsed :
           LET u1 == IF t \in asleep THEN [r |-> rt, stop |-> FALSE] ELSE DequeueTask(rt, t, d)
               u2 == IF t = curr THEN UpdateCurr(u1.r, 0) ELSE u1
           IN /\ task' = tk
              /\ rt' = IF t \in asleep THEN rt ELSE EnqueueTask(u2.r, tk, t, FALSE)
              /\ resched' = (resched \/ u1.stop \/ u2.stop)
    BY DEF Attach
  <1> DEFINE u1 == IF t \in asleep THEN [r |-> rt, stop |-> FALSE] ELSE DequeueTask(rt, t, d)
             u2 == IF t = curr THEN UpdateCurr(u1.r, 0) ELSE u1
             x == rt'
  <1>3. /\ task' = tk /\ x = (IF t \in asleep THEN rt ELSE EnqueueTask(u2.r, tk, t, head))
        /\ resched' = (resched \/ u1.stop \/ u2.stop)
        /\ moving' = <<>> /\ UNCHANGED <<asleep, curr, runtime, limit>> /\ head \in BOOLEAN /\ d \in Nat
    BY <1>2, ElapsedIs DEF Attach
  <1>4. tk \in TaskFields /\ \A s \in Tasks \ {t} : tk[s] = task[s]
    BY <1>1 DEF TaskFields
  <1>5. Types'
    <2>1. resched' \in BOOLEAN
      BY <1>3
    <2> HIDE DEF tk, x, u1, u2
    <2> QED BY <1>3, <1>4, <2>1 DEF Inv, Types, Limits
  <1>6. Good(x, tk, Awake(tk, asleep)) /\ Keeps(rt, x)
    <2>1. CASE t \in asleep
      <3>1. x = rt /\ t \notin S
        BY <1>3, <2>1 DEF Awake
      <3>2. Awake(tk, asleep) = S
        BY <1>4, <2>1 DEF Awake, IsRt, Prio
      <3> HIDE DEF t, S, tk, x
      <3>3. Good(rt, tk, S)
        BY <1>1, <1>4, <3>1, GoodOther
      <3> QED BY <3>1, <3>2, <3>3, SelfKeeps
    <2>2. CASE t \notin asleep
      <3>1. u1 = DequeueTask(rt, t, d) /\ x = EnqueueTask(u2.r, tk, t, head)
        BY <1>3, <2>2
      <3>2. u2 = IF t = curr THEN UpdateCurr(u1.r, 0) ELSE u1
        OBVIOUS
      <3> HIDE DEF t, S, tk, u1, u2, x, head
      <3> QED BY <1>1, <1>3, <1>4, <2>2, <3>1, <3>2, MoveKeeps
    <2> QED BY <2>1, <2>2
  <1>7. Good(rt, task, Awake(task, asleep))'
    BY <1>3, <1>6
  <1> QED BY <1>5, <1>6, <1>7 DEF Inv

LEMMA PeriodTimerKeeps ==
    ASSUME Inv, NEW g \in Groups, NEW n \in Nat, PeriodTimer(g, n)
    PROVE  Inv' /\ (Enabled /\ NoInf => Keeps(rt, rt'))
  <1> DEFINE S == Awake(task, asleep)
             x == rt'
  <1>1. task \in TaskFields /\ Limits(runtime) /\ Good(rt, task, S)
    BY DEF Inv, Types
  <1>2. UNCHANGED <<task, asleep, curr, runtime, limit, moving>> /\ resched' \in BOOLEAN
    <2>1. \E b \in BOOLEAN : resched' = (resched \/ b)
      BY DEF PeriodTimer
    <2>2. UNCHANGED <<task, asleep, curr, runtime, limit, moving>>
      BY DEF PeriodTimer
    <2> QED BY <2>1, <2>2
  <1> HIDE DEF S
  <1>3. Good(x, task, S) /\ (Enabled /\ NoInf => Keeps(rt, x))
    BY <1>1, PeriodKeeps
  <1>4. Types'
    BY <1>2 DEF Inv, Types, Limits
  <1>5. Good(rt, task, Awake(task, asleep))'
    BY <1>2, <1>3 DEF S
  <1> QED BY <1>3, <1>4, <1>5 DEF Inv

LEMMA InvNext ==
    ASSUME Inv, [Next]_vars
    PROVE  Inv' /\ (Enabled /\ NoInf => Keeps(rt, rt'))
  <1> USE DEF vars
  <1>1. PiPrios \cup {MAX_RT_PRIO} \subseteq Levels /\ SetPrios \cup {MAX_RT_PRIO} \subseteq Levels
    BY PrioAssumption DEF Levels
  <1>2. \A n \in 1 .. MaxOverrun : n \in Nat
    BY TimeAssumption
  <1>3. ASSUME UNCHANGED <<rt, task, asleep>>, Types' PROVE Inv' /\ Keeps(rt, rt')
    BY <1>3, SelfKeeps DEF Inv
  <1>4. CASE Preempt \/ Sleep \/ Yield \/ Tick
    BY <1>4, PreemptKeeps, SleepKeeps, YieldKeeps, TickKeeps
  <1>5. ASSUME NEW t \in Tasks, Wake(t) PROVE Inv' /\ Keeps(rt, rt')
    BY <1>5, WakeKeeps
  <1>6. ASSUME NEW t \in Tasks, NEW p \in PiPrios \cup {MAX_RT_PRIO}, SetPi(t, p)
        PROVE  Inv' /\ Keeps(rt, rt')
    BY <1>1, <1>6, SetPiKeeps
  <1>7. ASSUME NEW t \in Tasks, NEW p \in SetPrios \cup {MAX_RT_PRIO}, SetScheduler(t, p)
        PROVE  Inv' /\ Keeps(rt, rt')
    BY <1>1, <1>7, SetSchedulerKeeps
  <1>8. ASSUME NEW t \in Tasks, NEW g \in Groups, CanAttach(t, g)
        PROVE  Inv' /\ Keeps(rt, rt')
    <2>1. moving' = <<t, g>> /\ UNCHANGED <<rt, task, asleep, curr, resched, runtime, limit>>
      BY <1>8 DEF CanAttach
    <2>2. Types'
      BY <2>1 DEF Inv, Types, Limits
    <2> QED BY <1>3, <2>1, <2>2
  <1>9. ASSUME NEW g \in Groups, NEW n \in 1 .. MaxOverrun, PeriodTimer(g, n)
        PROVE  Inv' /\ (Enabled /\ NoInf => Keeps(rt, rt'))
    BY <1>2, <1>9, PeriodTimerKeeps
  <1>10. ASSUME NEW g \in Groups, NEW v \in Runtimes, SetRuntime(g, v)
         PROVE  Inv' /\ Keeps(rt, rt')
    <2>1. runtime' = [runtime EXCEPT ![g] = v] /\ UNCHANGED <<rt, task, asleep, curr, resched, limit, moving>>
      BY <1>10 DEF SetRuntime
    <2>2. Types'
      BY <2>1, TimeAssumption DEF Inv, Types, Limits
    <2> QED BY <1>3, <2>1, <2>2
  <1>11. CASE LimitOff \/ LimitOn
    <2>1. limit' \in {"off", "again"} /\ UNCHANGED <<rt, task, asleep, curr, resched, runtime, moving>>
      BY <1>11 DEF LimitOff, LimitOn, SetLimit
    <2>2. Types'
      BY <2>1 DEF Inv, Types, Limits
    <2> QED BY <1>3, <2>1, <2>2
  <1>12. CASE Attach
    BY <1>12, AttachKeeps
  <1>13. CASE UNCHANGED vars
    <2>1. Types'
      BY <1>13 DEF Inv, Types, Limits
    <2> QED BY <1>3, <1>13, <2>1
  <1>14. CASE Next
    BY <1>4, <1>5, <1>6, <1>7, <1>8, <1>9, <1>10, <1>11, <1>12, <1>14 DEF Next
  <1> QED BY <1>13, <1>14

-----------------------------------------------------------------------------
(* What the invariant says of the lists *)

LEMMA InvTypes == Inv => TypeOK
  <1> SUFFICES ASSUME Inv PROVE TypeOK
    OBVIOUS
  <1> DEFINE S == Awake(task, asleep)
             M == S \cup Up(rt)
  <1>1. Types /\ rt \in Rqs /\ Good(rt, task, S)
    BY DEF Inv, Good
  <1>2. rt.bits \in [Groups -> SUBSET Prios]
    <2>1. \A t \in S : IsRt(task, t)
      BY DEF Awake
    <2>2. task \in TaskFields
      BY <1>1 DEF Types
    <2> HIDE DEF S
    <2>3. \A g \in Groups : rt.bits[g] \subseteq Prios
      BY <1>1, <2>1, <2>2, BitsBelow
    <2> QED BY <1>1, <2>3 DEF Rqs
  <1>3. rt.nr \in [Groups -> Nat] /\ rt.nb \in [Groups -> Nat]
    <2>1. \A g \in Groups : rt.nr[g] \in Nat /\ rt.nb[g] \in Nat
      <3> SUFFICES ASSUME NEW g \in Groups PROVE rt.nr[g] \in Nat /\ rt.nb[g] \in Nat
        OBVIOUS
      <3>1. M \in SUBSET Entities /\ ListsOf(rt, task, M, g) /\ task \in TaskFields
        BY <1>1 DEF Good, Lists, Types
      <3> HIDE DEF M
      <3>2. /\ Cardinality(Mem(task, M, g)) \in Nat
            /\ Cardinality({e \in Mem(task, M, g) : SeBoosted(rt, task, e)}) \in Nat
        BY <3>1, MemIs
      <3> QED BY <3>1, <3>2 DEF ListsOf
    <2> QED BY <1>1, <2>1 DEF Rqs
  <1>4. Limits(runtime) => runtime \in [Groups -> Nat \cup {RUNTIME_INF}]
    BY TimeAssumption DEF Limits
  <1>5. DOMAIN rt = {"q", "bits", "nr", "hi", "nb", "time", "thr", "timer"}
    BY <1>1 DEF Rqs
  <1>6. /\ rt.q \in [Groups -> [Levels -> Seq(Entities)]] /\ rt.hi \in [Groups -> Levels]
        /\ rt.time \in [Groups -> 0 .. MaxTime] /\ rt.thr \in [Groups -> BOOLEAN]
        /\ rt.timer \in [Groups -> BOOLEAN]
    BY <1>1 DEF Rqs
  <1> QED BY <1>1, <1>2, <1>3, <1>4, <1>5, <1>6 DEF TypeOK, Types, TaskFields

LEMMA InvConsistent == Inv => HierarchyConsistent
  <1> SUFFICES ASSUME Inv PROVE HierarchyConsistent
    OBVIOUS
  <1> DEFINE S == Awake(task, asleep)
             M == S \cup Up(rt)
  <1>1. task \in TaskFields /\ rt \in Rqs /\ Lists(rt, task, M)
    BY DEF Inv, Types, Good
  <1>2. ASSUME NEW g \in Groups PROVE RqTrue(g)
    <2> DEFINE A == Mem(task, M, g)
    <2>1. ListsOf(rt, task, M, g)
      BY <1>1 DEF Lists
    <2>2. ASSUME NEW i \in Levels PROVE ToSet(rt.q[g][i]) = {e \in A : SePrio(rt, task, e) = i}
      <3>1. ToSet(rt.q[g][i]) = Range(rt.q[g][i])
        BY DEF ToSet, Range
      <3> QED BY <2>1, <3>1 DEF ListsOf
    <2>3. \A e \in A : SePrio(rt, task, e) \in Levels
      <3>1. \A e \in A : e \in Entities
        BY <1>1 DEF Mem, Lists
      <3> QED BY <1>1, <3>1, PlaceTypes
    <2>4. Queued(g) = A
      <3> HIDE DEF A
      <3> QED BY <2>2, <2>3 DEF Queued
    <2>5. \A i \in Levels : \A e \in ToSet(rt.q[g][i]) :
             RqOf(task, e) = g /\ SePrio(rt, task, e) = i
      BY <2>2 DEF Mem
    <2> HIDE DEF M
    <2>6. /\ rt.bits[g] = {i \in Levels : rt.q[g][i] # <<>>}
          /\ rt.nr[g] = Cardinality(A) /\ rt.hi[g] = FirstBit(rt.bits[g])
          /\ rt.nb[g] = Cardinality({e \in A : SeBoosted(rt, task, e)})
      BY <2>1 DEF ListsOf
    <2> QED BY <2>4, <2>5, <2>6 DEF RqTrue
  <1>3. \A e \in Entities : OnRtRq(rt, e) <=> e \in M
    <2> HIDE DEF M
    <2> QED BY <1>1, QueuedIsMember
  <1>4. ASSUME NEW g \in Groups \ {Root} PROVE OnRtRq(rt, g) <=> rt.nr[g] > 0 /\ ~Throttled(rt, g)
    <2>1. g \in Entities /\ g \notin S
      BY Statics DEF Awake
    <2> QED BY <1>3, <2>1 DEF Up
  <1>5. ASSUME NEW t \in Tasks PROVE OnRtRq(rt, t) <=> IsRt(task, t) /\ t \notin asleep
    <2>1. t \in Entities /\ t \notin Up(rt)
      BY Statics DEF Up
    <2> QED BY <1>3, <2>1 DEF Awake
  <1> QED BY <1>2, <1>4, <1>5 DEF HierarchyConsistent

-----------------------------------------------------------------------------
(* The timers *)

\* While the limit is on and leaves some time, no group is without a limit.
TimerInv ==
    /\ GlobalRuntime < Period /\ Enabled => NoInf
    /\ GlobalRuntime < Period /\ limit = "on" => PosTime(rt) /\ Timers(rt)

\* A limit below the period is a ratio below that of no limit.
LEMMA LimitedRatio ==
    ASSUME GlobalRuntime < Period
    PROVE  ToRatio(Period, GlobalRuntime) < RatioUnit
  <1> DEFINE k == RatioUnit
             d == (GlobalRuntime * k) \div Period
  <1>1. k \in Nat \ {0} /\ Period \in Nat \ {0} /\ GlobalRuntime \in Nat /\ GlobalRuntime # RUNTIME_INF
    BY RatioAssumption, TimeAssumption
  <1>2. GlobalRuntime * k \in Nat /\ d \in Nat /\ Period * d <= GlobalRuntime * k
    BY <1>1
  <1>3. GlobalRuntime * k < Period * k
    BY <1>1
  <1>4. ToRatio(Period, GlobalRuntime) = d
    BY <1>1 DEF ToRatio
  <1> HIDE DEF d, k
  <1>5. Period * d < Period * k
    BY <1>1, <1>2, <1>3
  <1>6. d < k
    BY <1>1, <1>2, <1>5
  <1> QED BY <1>4, <1>6 DEF k

\* What passes the admission test has a limit for every group.
LEMMA AdmittedLimits ==
    ASSUME GlobalRuntime < Period, NEW rs,
           NEW busy, RtSchedulable(Bandwidth(rs), Children, busy, TRUE, GlobalRatio(TRUE))
    PROVE  \A g \in Groups : rs[g] # RUNTIME_INF
  <1> SUFFICES ASSUME NEW g \in Groups, rs[g] = RUNTIME_INF PROVE FALSE
    OBVIOUS
  <1> DEFINE bw == Bandwidth(rs)
  <1>1. DOMAIN bw = Groups /\ bw[g].period = Period /\ bw[g].runtime = RUNTIME_INF
    BY DEF Bandwidth
  <1> HIDE DEF bw
  <1>2. TgRtSchedulable(g, bw, Children, busy, TRUE, GlobalRatio(TRUE))
    BY <1>1 DEF RtSchedulable, bw
  <1>3. ToRatio(bw[g].period, bw[g].runtime) <= GlobalRatio(TRUE)
    BY <1>2 DEF TgRtSchedulable
  <1>4. RatioUnit <= ToRatio(Period, GlobalRuntime)
    BY <1>1, <1>3 DEF ToRatio, GlobalRatio
  <1>5. RatioUnit \in Nat /\ ToRatio(Period, GlobalRuntime) \in Int
    BY RatioAssumption, TimeAssumption DEF ToRatio
  <1> QED BY <1>4, <1>5, LimitedRatio

LEMMA TimerInit == Init => TimerInv
  <1> SUFFICES ASSUME Init PROVE TimerInv
    OBVIOUS
  <1>1. NoInf
    BY RatioAssumption, TimeAssumption DEF Init, NoInf
  <1>2. PosTime(rt) /\ Timers(rt)
    BY DEF Init, PosTime, Timers
  <1> QED BY <1>1, <1>2 DEF TimerInv

LEMMA LimitsKept ==
    ASSUME Inv, TimerInv, [Next]_vars, GlobalRuntime < Period, Enabled'
    PROVE  NoInf'
  <1>1. CASE limit' = limit /\ runtime' = runtime
    BY <1>1 DEF TimerInv, Enabled, NoInf
  <1>2. ASSUME NEW g \in Groups, NEW v \in Runtimes, SetRuntime(g, v) PROVE NoInf'
    <2>1. Enabled
      BY <1>2 DEF SetRuntime, Enabled
    <2>2. RtSchedulable(Bandwidth(runtime'), Children, Busy, TRUE, GlobalRatio(TRUE))
      BY <1>2, <2>1, Zenon DEF SetRuntime
    <2> DEFINE rs == runtime'
    <2> HIDE DEF rs
    <2>3. \A h \in Groups : rs[h] # RUNTIME_INF
      BY <2>2, AdmittedLimits DEF rs
    <2> QED BY <2>3 DEF NoInf, rs
  <1>3. CASE LimitOn
    <2>1. /\ RtSchedulable(Bandwidth(runtime), Children, Busy, "again" # "off", GlobalRatio("again" # "off"))
          /\ runtime' = runtime
      BY <1>3 DEF LimitOn, SetLimit
    <2>2. ("again" # "off") = TRUE
      OBVIOUS
    <2>3. RtSchedulable(Bandwidth(runtime), Children, Busy, TRUE, GlobalRatio(TRUE))
      BY <2>1, <2>2
    <2>4. \A h \in Groups : runtime[h] # RUNTIME_INF
      BY <2>3, AdmittedLimits
    <2> QED BY <2>1, <2>4 DEF NoInf
  <1>4. CASE LimitOff
    BY <1>4 DEF LimitOff, SetLimit, Enabled
  <1>5. (limit' = limit /\ runtime' = runtime) \/ LimitOn \/ LimitOff
        \/ \E g \in Groups, v \in Runtimes : SetRuntime(g, v)
    <2>1. CASE UNCHANGED vars
      BY <2>1 DEF vars
    <2>2. CASE Preempt \/ Sleep \/ Yield \/ Tick \/ Attach
      BY <2>2 DEF Preempt, Sleep, Yield, Tick, Attach
    <2>3. ASSUME NEW t, NEW tk, NEW head, Change(t, tk, head)
          PROVE  limit' = limit /\ runtime' = runtime
      BY <2>3 DEF Change
    <2>4. ASSUME NEW t, NEW p, SetPi(t, p) PROVE limit' = limit /\ runtime' = runtime
      <3>1. (limit' = limit /\ runtime' = runtime) \/ \E tk, head : Change(t, tk, head)
        BY <2>4 DEF SetPi
      <3> QED BY <2>3, <3>1
    <2>5. ASSUME NEW t, NEW p, SetScheduler(t, p) PROVE limit' = limit /\ runtime' = runtime
      <3>1. \E tk, head : Change(t, tk, head)
        BY <2>5 DEF SetScheduler
      <3> QED BY <2>3, <3>1
    <2>6. ASSUME NEW t, Wake(t) \/ \E g \in Groups : CanAttach(t, g)
          PROVE  limit' = limit /\ runtime' = runtime
      BY <2>6 DEF Wake, CanAttach
    <2>7. ASSUME NEW g, NEW n, PeriodTimer(g, n) PROVE limit' = limit /\ runtime' = runtime
      BY <2>7 DEF PeriodTimer
    <2> QED BY <2>1, <2>2, <2>4, <2>5, <2>6, <2>7 DEF Next
  <1> QED BY <1>1, <1>2, <1>3, <1>4, <1>5

LEMMA TimerNext ==
    ASSUME Inv, TimerInv, [Next]_vars
    PROVE  TimerInv'
  <1>1. GlobalRuntime < Period /\ Enabled' => NoInf'
    BY LimitsKept
  <1>2. ASSUME GlobalRuntime < Period, limit' = "on" PROVE (PosTime(rt) /\ Timers(rt))'
    <2>1. limit = "on"
      <3>1. CASE UNCHANGED vars
        BY <1>2, <3>1 DEF vars
      <3>2. CASE LimitOn \/ LimitOff
        BY <1>2, <3>2 DEF LimitOn, LimitOff, SetLimit
      <3>3. CASE Preempt \/ Sleep \/ Yield \/ Tick \/ Attach
        BY <1>2, <3>3 DEF Preempt, Sleep, Yield, Tick, Attach
      <3>4. ASSUME NEW t, NEW tk, NEW head, Change(t, tk, head) PROVE limit = "on"
        BY <1>2, <3>4 DEF Change
      <3>5. ASSUME NEW t, NEW p, SetPi(t, p) \/ SetScheduler(t, p) PROVE limit = "on"
        <4>1. limit' = limit \/ \E tk, head : Change(t, tk, head)
          BY <3>5 DEF SetPi, SetScheduler
        <4> QED BY <1>2, <3>4, <4>1
      <3>6. ASSUME NEW t, NEW g, Wake(t) \/ CanAttach(t, g) PROVE limit = "on"
        BY <1>2, <3>6 DEF Wake, CanAttach
      <3>7. ASSUME NEW g, NEW n, PeriodTimer(g, n) \/ SetRuntime(g, n) PROVE limit = "on"
        BY <1>2, <3>7 DEF PeriodTimer, SetRuntime
      <3> QED BY <3>1, <3>2, <3>3, <3>5, <3>6, <3>7 DEF Next
    <2>2. Enabled /\ NoInf /\ PosTime(rt) /\ Timers(rt)
      BY <1>2, <2>1 DEF TimerInv, Enabled
    <2>3. AllStart
      BY <2>2 DEF AllStart, StartsTimer, NoInf
    <2>4. Keeps(rt, rt')
      BY <2>2, InvNext
    <2> QED BY <2>2, <2>3, <2>4 DEF Keeps, KeptTimers, PosTime, Timers
  <1> QED BY <1>1, <1>2 DEF TimerInv

-----------------------------------------------------------------------------
(* Theorems *)

LEMMA InvAlways == Spec => []Inv
  BY InvInit, InvNext, PTL DEF Spec

LEMMA TimerAlways == Spec => []TimerInv
  <1>1. Inv /\ TimerInv /\ [Next]_vars => TimerInv'
    BY TimerNext
  <1> QED BY <1>1, TimerInit, InvAlways, PTL DEF Spec

\* The counts of every rt_rq stay natural numbers, and its bitmap has bits of
\* real-time priorities only.
THEOREM TypeTheorem == Spec => []TypeOK
  BY InvTypes, InvAlways, PTL

\* In any tree of groups, whatever wakes, boosts, changes of policy and group,
\* throttling and replenishment follow each other: the counts, the bitmap and the
\* highest priority of every rt_rq are those of its lists, a group is queued
\* exactly when it has entities and is not throttled, a real-time task exactly
\* when it is awake (enqueue_rt_entity, dequeue_rt_entity, sched_rt_rq_enqueue,
\* sched_rt_rq_dequeue and their callers).
THEOREM HierarchyTheorem == Spec => []HierarchyConsistent
  BY InvConsistent, InvAlways, PTL

\* A throttled group has time to give back and, while it has entities, a timer
\* that gives it back (start_rt_bandwidth, sched_rt_period_timer), as long as the
\* limit of real-time tasks leaves some time to others and is not lifted.
THEOREM TimerTheorem ==
    ASSUME GlobalRuntime < Period
    PROVE  Spec => []ThrottledHasTimer
  <1>1. TimerInv => ThrottledHasTimer
    BY DEF TimerInv, PosTime, Timers, ThrottledHasTimer
  <1> QED BY <1>1, TimerAlways, PTL

\* While the limit leaves some time to others, a task below a throttled group
\* does not run on after a tick, nor is one picked (update_curr_rt,
\* sched_rt_runtime_exceeded, _pick_next_task_rt).
THEOREM ThrottledGoesTheorem ==
    ASSUME GlobalRuntime < Period
    PROVE  Spec => ThrottledMustGo
  <1> DEFINE Step == Enabled /\ (Tick \/ Preempt \/ Sleep \/ Yield) => (Overrun' => resched')
  <1>1. ASSUME Inv, TimerInv, [Next]_vars PROVE [Step]_vars
    <2> SUFFICES ASSUME Enabled, Tick \/ Preempt \/ Sleep \/ Yield, Overrun' PROVE resched'
      OBVIOUS
    <2>1. NoInf
      BY <1>1 DEF TimerInv
    <2> QED BY <1>1, <2>1, TickKeeps, PreemptKeeps, SleepKeeps, YieldKeeps
  <1>2. Inv /\ TimerInv /\ [Next]_vars => [Step]_vars
    BY <1>1
  <1> QED BY <1>2, InvAlways, TimerAlways, PTL DEF Spec, ThrottledMustGo

=============================================================================
