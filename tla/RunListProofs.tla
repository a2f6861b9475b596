---------------------------- MODULE RunListProofs ----------------------------
(***************************************************************************)
(* What the operations of a run list (list_add, list_add_tail and          *)
(* list_del_init of include/linux/list.h, as ras.c and rt.c use them) do   *)
(* to a list without duplicates; lists put together, as dfs of             *)
(* pstree_module.c does; and sums over finite sets, which the write counts *)
(* of a queue, the shares of the groups and the fields of cpustat need.    *)
(***************************************************************************)
EXTENDS Integers, FiniteSets, Sequences, SequencesExt,
        SequenceTheorems, FiniteSetTheorems, WellFoundedInduction, TLAPS

\* A list seen through its indices.
LEMMA RangeProperties ==
    ASSUME NEW S, NEW s \in Seq(S)
    PROVE  /\ Len(s) \in Nat
           /\ Range(s) = {s[i] : i \in 1 .. Len(s)}
           /\ Range(s) \subseteq S
           /\ s = <<>> <=> Len(s) = 0
           /\ IsInjective(s) <=> \A i, j \in 1 .. Len(s) : s[i] = s[j] => i = j
  <1>1. Len(s) \in Nat /\ DOMAIN s = 1 .. Len(s) /\ \A i \in 1 .. Len(s) : s[i] \in S
    BY LenProperties, ElementOfSeq
  <1>2. s = <<>> <=> Len(s) = 0
    BY EmptySeq
  <1> QED BY <1>1, <1>2 DEF Range, IsInjective

\* list_add_tail.
LEMMA AddTail ==
    ASSUME NEW S, NEW s \in Seq(S), NEW p \in S, p \notin Range(s), IsInjective(s)
    PROVE  /\ Append(s, p) \in Seq(S)
           /\ Range(Append(s, p)) = Range(s) \cup {p}
           /\ IsInjective(Append(s, p))
           /\ Len(Append(s, p)) = Len(s) + 1
  <1> DEFINE t == Append(s, p)
  <1>1. /\ t \in Seq(S)
        /\ Len(t) = Len(s) + 1
        /\ t[Len(s) + 1] = p
        /\ \A i \in 1 .. Len(s) : t[i] = s[i]
    BY AppendProperties
  <1>2. /\ Len(s) \in Nat
        /\ Range(s) = {s[i] : i \in 1 .. Len(s)}
        /\ \A i, j \in 1 .. Len(s) : s[i] = s[j] => i = j
    BY RangeProperties
  <1> HIDE DEF t
  <1>3. /\ Range(t) = {t[i] : i \in 1 .. Len(s) + 1}
        /\ IsInjective(t) <=> \A i, j \in 1 .. Len(s) + 1 : t[i] = t[j] => i = j
    BY <1>1, RangeProperties
  <1>4. 1 .. Len(s) + 1 = (1 .. Len(s)) \cup {Len(s) + 1}
    BY <1>2
  <1>5. Range(t) = Range(s) \cup {p}
    BY <1>1, <1>2, <1>3, <1>4
  <1>6. IsInjective(t)
    BY <1>1, <1>2, <1>3, <1>4
  <1> QED BY <1>1, <1>5, <1>6 DEF t

\* list_add.
LEMMA AddHead ==
    ASSUME NEW S, NEW s \in Seq(S), NEW p \in S, p \notin Range(s), IsInjective(s)
    PROVE  /\ <<p>> \o s \in Seq(S)
           /\ Range(<<p>> \o s) = Range(s) \cup {p}
           /\ IsInjective(<<p>> \o s)
           /\ Len(<<p>> \o s) = Len(s) + 1
  <1> DEFINE t == <<p>> \o s
  <1>1. <<p>> \in Seq(S) /\ Len(<<p>>) = 1 /\ <<p>>[1] = p
    OBVIOUS
  <1>2. /\ Len(s) \in Nat
        /\ Range(s) = {s[i] : i \in 1 .. Len(s)}
        /\ \A i, j \in 1 .. Len(s) : s[i] = s[j] => i = j
    BY RangeProperties
  <1>3. /\ t \in Seq(S)
        /\ Len(t) = 1 + Len(s)
        /\ \A i \in 1 .. 1 + Len(s) : t[i] = IF i <= 1 THEN <<p>>[i] ELSE s[i - 1]
    BY <1>1, ConcatProperties
  <1>4. t[1] = p /\ \A i \in 1 .. Len(s) : t[i + 1] = s[i]
    BY <1>1, <1>2, <1>3
  <1> HIDE DEF t
  <1>5. /\ Range(t) = {t[i] : i \in 1 .. Len(s) + 1}
        /\ IsInjective(t) <=> \A i, j \in 1 .. Len(s) + 1 : t[i] = t[j] => i = j
    BY <1>2, <1>3, RangeProperties
  <1>6. \A k \in 1 .. Len(s) + 1 : k = 1 \/ (k - 1 \in 1 .. Len(s) /\ t[k] = s[k - 1])
    BY <1>2, <1>4
  <1>7. Range(t) \subseteq Range(s) \cup {p}
    BY <1>2, <1>4, <1>5, <1>6
  <1>8. Range(s) \cup {p} \subseteq Range(t)
    <2>1. p \in Range(t)
      BY <1>2, <1>4, <1>5
    <2>2. \A i \in 1 .. Len(s) : i + 1 \in 1 .. Len(s) + 1
      BY <1>2
    <2> QED BY <2>1, <2>2, <1>2, <1>4, <1>5
  <1>9. IsInjective(t)
    <2> SUFFICES ASSUME NEW i \in 1 .. Len(s) + 1, NEW j \in 1 .. Len(s) + 1, t[i] = t[j]
                 PROVE  i = j
      BY <1>5
    <2>1. CASE i = 1 \/ j = 1
      BY <2>1, <1>2, <1>4, <1>6
    <2>2. CASE i # 1 /\ j # 1
      <3>1. i - 1 = j - 1
        BY <2>2, <1>2, <1>6
      <3> QED BY <3>1
    <2> QED BY <2>1, <2>2
  <1> QED BY <1>2, <1>3, <1>7, <1>8, <1>9 DEF t

\* A list that has lost its entry k.
LEMMA Spliced ==
    ASSUME NEW S, NEW s \in Seq(S), IsInjective(s), NEW k \in 1 .. Len(s), NEW t \in Seq(S),
           Len(t) = Len(s) - 1,
           \A i \in 1 .. Len(s) - 1 : t[i] = IF i < k THEN s[i] ELSE s[i + 1]
    PROVE  Range(t) = Range(s) \ {s[k]} /\ IsInjective(t)
  <1>1. /\ Len(s) \in Nat
        /\ Range(s) = {s[i] : i \in 1 .. Len(s)}
        /\ \A i, j \in 1 .. Len(s) : s[i] = s[j] => i = j
    BY RangeProperties
  <1>2. /\ Range(t) = {t[i] : i \in 1 .. Len(t)}
        /\ IsInjective(t) <=> \A i, j \in 1 .. Len(t) : t[i] = t[j] => i = j
    BY RangeProperties
  <1> DEFINE old(i) == IF i < k THEN i ELSE i + 1
  <1>3. \A i \in 1 .. Len(t) : old(i) \in 1 .. Len(s) /\ old(i) # k /\ t[i] = s[old(i)]
    BY <1>1
  <1>4. \A i, j \in 1 .. Len(t) : old(i) = old(j) => i = j
    BY <1>1
  <1>5. \A j \in 1 .. Len(s) : j # k => \E i \in 1 .. Len(t) : old(i) = j
    <2> SUFFICES ASSUME NEW j \in 1 .. Len(s), j # k
                 PROVE  \E i \in 1 .. Len(t) : old(i) = j
      OBVIOUS
    <2>1. CASE j < k
      BY <2>1, <1>1
    <2>2. CASE j > k
      <3>1. j - 1 \in 1 .. Len(t) /\ old(j - 1) = j
        BY <2>2, <1>1
      <3> QED BY <3>1
    <2> QED BY <2>1, <2>2
  <1> HIDE DEF old
  <1>6. Range(t) \subseteq Range(s) \ {s[k]}
    <2> SUFFICES ASSUME NEW i \in 1 .. Len(t) PROVE t[i] \in Range(s) \ {s[k]}
      BY <1>2
    <2>1. old(i) \in 1 .. Len(s) /\ old(i) # k /\ t[i] = s[old(i)]
      BY <1>3
    <2> QED BY <2>1, <1>1
  <1>7. Range(s) \ {s[k]} \subseteq Range(t)
    <2> SUFFICES ASSUME NEW j \in 1 .. Len(s), s[j] # s[k] PROVE s[j] \in Range(t)
      BY <1>1
    <2>1. PICK i \in 1 .. Len(t) : old(i) = j
      BY <1>5
    <2>2. t[i] = s[j]
      BY <2>1, <1>3
    <2> QED BY <2>2, <1>2
  <1>8. IsInjective(t)
    <2> SUFFICES ASSUME NEW i \in 1 .. Len(t), NEW j \in 1 .. Len(t), t[i] = t[j] PROVE i = j
      BY <1>2
    <2>1. old(i) \in 1 .. Len(s) /\ old(j) \in 1 .. Len(s) /\ s[old(i)] = s[old(j)]
      BY <1>3
    <2>2. old(i) = old(j)
      BY <2>1, <1>1
    <2> QED BY <2>2, <1>4
  <1> QED BY <1>6, <1>7, <1>8

\* list_del_init of an entry that is on the list closes the gap it leaves.
LEMMA DelSplices ==
    ASSUME NEW S, NEW s \in Seq(S), NEW p \in Range(s), IsInjective(s)
    PROVE  /\ RemoveFirst(s, p) \in Seq(S)
           /\ Len(RemoveFirst(s, p)) = Len(s) - 1
           /\ \E k \in 1 .. Len(s) :
                 /\ s[k] = p
                 /\ \A i \in 1 .. Len(s) - 1 :
                       RemoveFirst(s, p)[i] = IF i < k THEN s[i] ELSE s[i + 1]
  <1>1. /\ Len(s) \in Nat
        /\ Range(s) = {s[i] : i \in 1 .. Len(s)}
        /\ \A i, j \in 1 .. Len(s) : s[i] = s[j] => i = j
        /\ \A i \in 1 .. Len(s) : s[i] \in S
    BY RangeProperties, ElementOfSeq
  <1>2. PICK k \in 1 .. Len(s) : s[k] = p
    BY <1>1
  <1> DEFINE I == {i \in 1 .. Len(s) : s[i] = p}
  <1>3. I = {k}
    BY <1>1, <1>2
  <1>4. SelectInSeq(s, LAMBDA v : v = p) = k
    <2>1. Min({k}) = k
      BY <1>2 DEF Min
    <2>2. SelectInSeq(s, LAMBDA v : v = p) = IF I # {} THEN Min(I) ELSE 0
      BY DEF SelectInSeq
    <2> QED BY <2>1, <2>2, <1>3
  <1> DEFINE a == SubSeq(s, 1, k - 1)
             b == SubSeq(s, k + 1, Len(s))
             t == a \o b
  <1>5. RemoveFirst(s, p) = t
    BY <1>2, <1>4 DEF RemoveFirst, RemoveAt
  <1>6. /\ a \in Seq(S) /\ Len(a) = k - 1
        /\ \A i \in 1 .. k - 1 : a[i] = s[i]
    <2>1. k - 1 \in Int /\ \A i \in 1 .. k - 1 : s[i] \in S
      BY <1>1, <1>2
    <2>2. /\ a \in Seq(S)
          /\ Len(a) = IF 1 <= k - 1 THEN k - 1 - 1 + 1 ELSE 0
          /\ \A i \in 1 .. k - 1 - 1 + 1 : a[i] = s[1 + i - 1]
      BY <2>1, SubSeqProperties
    <2> HIDE DEF a
    <2> QED BY <2>2, <1>2
  <1>7. /\ b \in Seq(S) /\ Len(b) = Len(s) - k
        /\ \A i \in 1 .. Len(s) - k : b[i] = s[k + i]
    <2>1. k + 1 \in Int /\ Len(s) \in Int /\ \A i \in k + 1 .. Len(s) : s[i] \in S
      BY <1>1, <1>2
    <2>2. /\ b \in Seq(S)
          /\ Len(b) = IF k + 1 <= Len(s) THEN Len(s) - (k + 1) + 1 ELSE 0
          /\ \A i \in 1 .. Len(s) - (k + 1) + 1 : b[i] = s[k + 1 + i - 1]
      BY <2>1, SubSeqProperties
    <2> HIDE DEF b
    <2> QED BY <2>2, <1>1, <1>2
  <1> HIDE DEF a, b, I
  <1>8. /\ t \in Seq(S) /\ Len(t) = Len(a) + Len(b)
        /\ \A i \in 1 .. Len(a) + Len(b) : t[i] = IF i <= Len(a) THEN a[i] ELSE b[i - Len(a)]
    BY <1>6, <1>7, ConcatProperties
  <1> HIDE DEF t
  <1>9. Len(t) = Len(s) - 1
    BY <1>1, <1>2, <1>6, <1>7, <1>8
  <1>10. \A i \in 1 .. Len(s) - 1 : t[i] = IF i < k THEN s[i] ELSE s[i + 1]
    <2> SUFFICES ASSUME NEW i \in 1 .. Len(s) - 1
                 PROVE  t[i] = IF i < k THEN s[i] ELSE s[i + 1]
      OBVIOUS
    <2>1. t[i] = IF i <= k - 1 THEN a[i] ELSE b[i - (k - 1)]
      BY <1>1, <1>2, <1>6, <1>7, <1>8
    <2>2. CASE i < k
      BY <2>1, <2>2, <1>1, <1>2, <1>6
    <2>3. CASE ~(i < k)
      <3>1. i - (k - 1) \in 1 .. Len(s) - k /\ k + (i - (k - 1)) = i + 1
        BY <2>3, <1>1, <1>2
      <3>2. b[i - (k - 1)] = s[i + 1]
        BY <3>1, <1>7
      <3> QED BY <3>2, <2>1, <2>3, <1>1, <1>2
    <2> QED BY <2>2, <2>3
  <1> QED BY <1>2, <1>5, <1>8, <1>9, <1>10

\* What is left is a list without duplicates of the other entries.
LEMMA DelFromList ==
    ASSUME NEW S, NEW s \in Seq(S), NEW p \in Range(s), IsInjective(s)
    PROVE  /\ RemoveFirst(s, p) \in Seq(S)
           /\ Range(RemoveFirst(s, p)) = Range(s) \ {p}
           /\ IsInjective(RemoveFirst(s, p))
           /\ Len(RemoveFirst(s, p)) = Len(s) - 1
  <1> DEFINE t == RemoveFirst(s, p)
  <1>1. t \in Seq(S) /\ Len(t) = Len(s) - 1
    BY DelSplices
  <1>2. PICK k \in 1 .. Len(s) :
          /\ s[k] = p
          /\ \A i \in 1 .. Len(s) - 1 : t[i] = IF i < k THEN s[i] ELSE s[i + 1]
    BY DelSplices
  <1> HIDE DEF t
  <1>3. Range(t) = Range(s) \ {s[k]} /\ IsInjective(t)
    BY <1>1, <1>2, Spliced, Zenon
  <1> QED BY <1>1, <1>2, <1>3 DEF t

\* Least priorities and first places: a set of naturals has its least element.
LEMMA LeastElement ==
    ASSUME NEW T \in SUBSET Nat, T # {}
    PROVE  \E x \in T : \A y \in T : x <= y
  <1> DEFINE R == OpToRel(<, Nat)
  <1>1. IsWellFoundedOn(R, Nat)
    BY NatLessThanWellFounded
  <1>2. \A x, y \in Nat : x < y => <<x, y>> \in R
    BY DEF OpToRel
  <1> HIDE DEF R
  <1>3. PICK x \in T : \A y \in T : ~(<<y, x>> \in R)
    BY <1>1, WFMin
  <1>4. ASSUME NEW y \in T PROVE x <= y
    <2>1. x \in Nat /\ y \in Nat /\ ~(y < x)
      BY <1>2, <1>3
    <2> QED BY <2>1
  <1> QED BY <1>4

\* Steps that lead from 0 to n: a set with 0 that has each next number.
LEMMA UpTo ==
    ASSUME NEW n \in Nat, NEW S, 0 \in S, \A k \in 1 .. n : k - 1 \in S => k \in S
    PROVE  \A k \in 0 .. n : k \in S
  <1> DEFINE T == {k \in 0 .. n : k \notin S}
  <1>1. SUFFICES ASSUME T # {} PROVE FALSE
    OBVIOUS
  <1>2. T \in SUBSET Nat
    OBVIOUS
  <1>3. PICK k \in T : \A j \in T : k <= j
    <2> HIDE DEF T
    <2> QED BY <1>1, <1>2, LeastElement
  <1>4. k \in 0 .. n /\ k \notin S /\ k # 0
    BY <1>3
  <1>5. k \in 1 .. n /\ k - 1 \in 0 .. n /\ ~(k <= k - 1)
    BY <1>4
  <1>6. k - 1 \in S
    BY <1>3, <1>5
  <1> QED BY <1>4, <1>5, <1>6

-----------------------------------------------------------------------------
(* Lists put together *)

\* The empty list, and a list of one.
LEMMA NoList == ASSUME NEW S PROVE <<>> \in Seq(S) /\ IsInjective(<<>>) /\ Range(<<>>) = {}
  BY DEF IsInjective, Range

LEMMA OneList == ASSUME NEW S, NEW e \in S PROVE <<e>> \in Seq(S) /\ IsInjective(<<e>>) /\ Range(<<e>>) = {e}
  <1> DEFINE q == <<e>>
  <1>1. q \in Seq(S) /\ Len(q) = 1 /\ q[1] = e
    OBVIOUS
  <1> HIDE DEF q
  <1>2. /\ Range(q) = {q[i] : i \in 1 .. Len(q)}
        /\ IsInjective(q) <=> \A i, j \in 1 .. Len(q) : q[i] = q[j] => i = j
    BY ONLY <1>1, RangeProperties
  <1>3. Range(q) = {e} /\ IsInjective(q)
    BY <1>1, <1>2
  <1> QED BY <1>1, <1>3 DEF q

\* The list of two lists without a common member.
LEMMA JoinLists ==
    ASSUME NEW S, NEW s \in Seq(S), NEW t \in Seq(S), IsInjective(s), IsInjective(t),
           Range(s) \cap Range(t) = {}
    PROVE  /\ s \o t \in Seq(S) /\ IsInjective(s \o t)
           /\ Range(s \o t) = Range(s) \cup Range(t) /\ Len(s \o t) = Len(s) + Len(t)
  <1> DEFINE b == s \o t
  <1>1. /\ b \in Seq(S) /\ Len(b) = Len(s) + Len(t) /\ Len(s) \in Nat /\ Len(t) \in Nat
        /\ \A i \in 1 .. Len(s) + Len(t) : b[i] = IF i <= Len(s) THEN s[i] ELSE t[i - Len(s)]
    BY ConcatProperties, LenProperties
  <1>2. Range(s) = {s[i] : i \in 1 .. Len(s)} /\ \A i, j \in 1 .. Len(s) : s[i] = s[j] => i = j
    BY RangeProperties
  <1>3. Range(t) = {t[i] : i \in 1 .. Len(t)} /\ \A i, j \in 1 .. Len(t) : t[i] = t[j] => i = j
    BY RangeProperties
  <1>4. Range(b) = {b[i] : i \in 1 .. Len(b)} /\ (IsInjective(b) <=> \A i, j \in 1 .. Len(b) : b[i] = b[j] => i = j)
    <2> HIDE DEF b
    <2>1. b \in Seq(S)
      BY <1>1
    <2> QED BY ONLY <2>1, RangeProperties
  <1> HIDE DEF b
  <1>5. \A i \in 1 .. Len(b) : \/ i \in 1 .. Len(s) /\ b[i] = s[i]
                               \/ i - Len(s) \in 1 .. Len(t) /\ b[i] = t[i - Len(s)] /\ i \notin 1 .. Len(s)
    BY <1>1
  <1>6. ASSUME NEW i \in 1 .. Len(b), NEW j \in 1 .. Len(b), b[i] = b[j] PROVE i = j
    <2>1. CASE i \in 1 .. Len(s) /\ j \in 1 .. Len(s)
      BY <1>2, <1>5, <1>6, <2>1
    <2>2. CASE i \notin 1 .. Len(s) /\ j \notin 1 .. Len(s)
      <3>1. i - Len(s) = j - Len(s)
        BY <1>3, <1>5, <1>6, <2>2
      <3> QED BY <1>1, <3>1
    <2>3. CASE i \in 1 .. Len(s) /\ j \notin 1 .. Len(s)
      <3>1. b[i] \in Range(s) /\ b[j] \in Range(t)
        BY <1>2, <1>3, <1>5, <2>3
      <3> QED BY <1>6, <3>1
    <2>4. CASE i \notin 1 .. Len(s) /\ j \in 1 .. Len(s)
      <3>1. b[j] \in Range(s) /\ b[i] \in Range(t)
        BY <1>2, <1>3, <1>5, <2>4
      <3> QED BY <1>6, <3>1
    <2> QED BY <2>1, <2>2, <2>3, <2>4
  <1>7. Range(b) \subseteq Range(s) \cup Range(t)
    BY <1>2, <1>3, <1>4, <1>5
  <1>8. ASSUME NEW x \in Range(s) PROVE x \in Range(b)
    <2>1. PICK i \in 1 .. Len(s) : x = s[i]
      BY <1>2, <1>8
    <2>2. i \in 1 .. Len(b) /\ b[i] = s[i]
      BY <1>1, <2>1
    <2> QED BY <1>4, <2>1, <2>2
  <1>9. ASSUME NEW x \in Range(t) PROVE x \in Range(b)
    <2>1. PICK i \in 1 .. Len(t) : x = t[i]
      BY <1>3, <1>9
    <2>2. i + Len(s) \in 1 .. Len(s) + Len(t) /\ ~(i + Len(s) <= Len(s)) /\ (i + Len(s)) - Len(s) = i
      BY <1>1
    <2> DEFINE k == i + Len(s)
    <2>3. k \in 1 .. Len(b) /\ b[k] = t[i]
      <3> HIDE DEF k
      <3>1. k \in 1 .. Len(s) + Len(t) /\ ~(k <= Len(s)) /\ k - Len(s) = i
        BY <2>2 DEF k
      <3>2. b[k] = t[k - Len(s)]
        BY <1>1, <3>1
      <3> QED BY <1>1, <3>1, <3>2
    <2> HIDE DEF k
    <2> QED BY <1>4, <2>1, <2>3
  <1> QED BY <1>1, <1>4, <1>6, <1>7, <1>8, <1>9 DEF b

\* Of three lists, it does not matter which two are joined first.
LEMMA Associates ==
    ASSUME NEW P, NEW a \in Seq(P), NEW b \in Seq(P), NEW c \in Seq(P)
    PROVE  (a \o b) \o c = a \o (b \o c)
  <1>0. /\ a \o b \in Seq(P) /\ b \o c \in Seq(P)
    BY ConcatProperties
  <1> SUFFICES ASSUME NEW x \in Seq(P), x = a \o b, NEW y \in Seq(P), y = b \o c
               PROVE  x \o c = a \o y
    BY <1>0
  <1> DEFINE l == x \o c
             r == a \o y
  <1>1. /\ x \in Seq(P) /\ Len(x) = Len(a) + Len(b)
        /\ \A i \in 1 .. Len(a) + Len(b) : x[i] = IF i <= Len(a) THEN a[i] ELSE b[i - Len(a)]
    BY ConcatProperties
  <1>2. /\ y \in Seq(P) /\ Len(y) = Len(b) + Len(c)
        /\ \A i \in 1 .. Len(b) + Len(c) : y[i] = IF i <= Len(b) THEN b[i] ELSE c[i - Len(b)]
    BY ConcatProperties
  <1>3. /\ l \in Seq(P) /\ Len(l) = Len(x) + Len(c)
        /\ \A i \in 1 .. Len(x) + Len(c) : l[i] = IF i <= Len(x) THEN x[i] ELSE c[i - Len(x)]
    BY ConcatProperties
  <1>4. /\ r \in Seq(P) /\ Len(r) = Len(a) + Len(y)
        /\ \A i \in 1 .. Len(a) + Len(y) : r[i] = IF i <= Len(a) THEN a[i] ELSE y[i - Len(a)]
    BY ConcatProperties
  <1> HIDE DEF l, r
  <1>5. Len(a) \in Nat /\ Len(b) \in Nat /\ Len(c) \in Nat
    BY LenProperties
  <1>6. ASSUME NEW i \in 1 .. Len(l) PROVE l[i] = r[i]
    <2>1. i \in 1 .. Len(a) + Len(b) + Len(c)
      BY <1>1, <1>3, <1>5
    <2>2. CASE i <= Len(a)
      <3>1. i \in 1 .. Len(a) + Len(b) /\ x[i] = a[i]
        BY <1>1, <1>5, <2>1, <2>2
      <3>2. l[i] = x[i]
        BY <1>1, <1>3, <1>5, <2>1, <2>2
      <3>3. r[i] = a[i]
        BY <1>2, <1>4, <1>5, <2>1, <2>2
      <3> QED BY <3>1, <3>2, <3>3
    <2>3. CASE ~(i <= Len(a)) /\ i <= Len(a) + Len(b)
      <3> DEFINE j == i - Len(a)
      <3>1. j \in 1 .. Len(b) + Len(c) /\ j <= Len(b) /\ i \in 1 .. Len(a) + Len(b)
        BY <1>5, <2>1, <2>3
      <3> HIDE DEF j
      <3>2. y[j] = b[j]
        BY <1>2, <3>1
      <3>3. x[i] = b[j] /\ r[i] = y[j]
        BY <1>1, <1>2, <1>4, <1>5, <2>1, <2>3, <3>1 DEF j
      <3>4. l[i] = x[i]
        BY <1>1, <1>3, <1>5, <2>1, <2>3
      <3> QED BY <3>2, <3>3, <3>4
    <2>4. CASE ~(i <= Len(a) + Len(b))
      <3> DEFINE j == i - Len(a)
      <3>1. j \in 1 .. Len(b) + Len(c) /\ ~(j <= Len(b)) /\ j - Len(b) = i - Len(x)
        BY <1>1, <1>5, <2>1, <2>4
      <3> HIDE DEF j
      <3>2. y[j] = c[j - Len(b)]
        BY <1>2, <3>1
      <3>3. r[i] = y[j]
        BY <1>2, <1>4, <1>5, <2>1, <2>4 DEF j
      <3>4. l[i] = c[i - Len(x)]
        BY <1>1, <1>3, <1>5, <2>1, <2>4
      <3> QED BY <3>1, <3>2, <3>3, <3>4
    <2> QED BY <2>2, <2>3, <2>4
  <1>7. Len(l) = Len(r)
    BY <1>1, <1>2, <1>3, <1>4, <1>5
  <1>8. l = r
    BY <1>3, <1>4, <1>6, <1>7, SeqEqual
  <1> QED BY <1>8 DEF l, r

\* What FlattenSeq computes, one list after the other.
LEMMA FlattenIs ==
    ASSUME NEW s, Len(s) \in Nat
    PROVE  /\ Len(s) = 0 => FlattenSeq(s) = s
           /\ \E f : /\ \A i \in 1 .. Len(s) : f[i] = IF i = 1 THEN s[i] ELSE f[i - 1] \o s[i]
                     /\ Len(s) > 0 => FlattenSeq(s) = f[Len(s)]
  <1> DEFINE L == Len(s)
             Body(f, i) == IF i = 1 THEN s[i] ELSE f[i - 1] \o s[i]
             P(f) == f = [i \in 1 .. L |-> Body(f, i)]
             Q(k) == \E f : \A i \in 1 .. k : f[i] = Body(f, i)
             S == {k \in 0 .. L : Q(k)}
  <1>0. L \in Nat
    OBVIOUS
  <1>1. 0 \in S
    <2> HIDE DEF L, Body
    <2> QED BY <1>0
  <1>2. ASSUME NEW k \in 1 .. L, k - 1 \in S PROVE k \in S
    <2>1. PICK f : \A i \in 1 .. k - 1 : f[i] = Body(f, i)
      BY <1>2
    <2> DEFINE x == [i \in 1 .. L |-> Body(f, i)]
    <2> HIDE DEF L
    <2>2. \A i \in 1 .. L : x[i] = Body(f, i)
      OBVIOUS
    <2>3. ASSUME NEW i \in 1 .. k PROVE x[i] = Body(x, i)
      <3>1. i \in 1 .. L
        BY <1>0
      <3>2. CASE i = 1
        BY <2>2, <3>1, <3>2
      <3>3. CASE i # 1
        <4>1. i - 1 \in 1 .. k - 1 /\ i - 1 \in 1 .. L
          BY <1>0, <3>3
        <4>2. x[i - 1] = f[i - 1]
          <5> HIDE DEF x, Body
          <5> QED BY <2>1, <2>2, <4>1
        <4>3. x[i] = f[i - 1] \o s[i]
          BY <2>2, <3>1, <3>3
        <4> HIDE DEF x
        <4> QED BY <3>3, <4>2, <4>3
      <3> QED BY <3>2, <3>3
    <2> HIDE DEF x, Body
    <2>4. Q(k)
      BY <2>3
    <2> HIDE DEF Q
    <2> QED BY <2>4
  <1>3. L \in S
    <2> HIDE DEF S, L
    <2>1. \A n \in 0 .. L : n \in S
      BY <1>0, <1>1, <1>2, UpTo
    <2> QED BY <1>0, <2>1
  <1>4. PICK f : \A i \in 1 .. L : f[i] = Body(f, i)
    BY <1>3
  <1> DEFINE x == [i \in 1 .. L |-> f[i]]
  <1>5. ASSUME NEW i \in 1 .. L PROVE f[i] = Body(x, i)
    <2> HIDE DEF L
    <2>1. \A j \in 1 .. L : x[j] = f[j]
      OBVIOUS
    <2>2. CASE i = 1
      BY <1>4, <2>2
    <2>3. CASE i # 1
      <3>1. i - 1 \in 1 .. L
        BY <1>0, <2>3
      <3>2. x[i - 1] = f[i - 1]
        BY <2>1, <3>1
      <3>3. f[i] = f[i - 1] \o s[i]
        BY <1>4, <2>3
      <3> HIDE DEF x
      <3> QED BY <2>3, <3>2, <3>3
    <2> QED BY <2>2, <2>3
  <1>6. P(x)
    <2> HIDE DEF L, Body
    <2> QED BY <1>5
  <1> DEFINE y == CHOOSE f1 : P(f1)
  <1>7. P(y)
    <2> HIDE DEF P, x
    <2> QED BY <1>6
  <1>8. L > 0 => FlattenSeq(s) = y[L]
    BY DEF FlattenSeq
  <1>9. \A i \in 1 .. L : y[i] = Body(y, i)
    <2> HIDE DEF y, L, Body
    <2>1. y = [i \in 1 .. L |-> Body(y, i)]
      BY <1>7
    <2> QED BY <2>1
  <1>10. L = 0 => FlattenSeq(s) = s
    BY DEF FlattenSeq
  <1> HIDE DEF y
  <1> QED BY <1>8, <1>9, <1>10

-----------------------------------------------------------------------------
(* Sums over finite sets.  What MapThenSumSet computes is a function defined *)
(* by recursion over subsets; that there is one, and that taking out any     *)
(* member takes out its part, is shown with a least counterexample.          *)

Iterates(i, f, S) ==
    i = [s \in SUBSET S |->
            IF s = {} THEN 0 ELSE LET x == CHOOSE x \in s : TRUE IN f[x] + i[s \ {x}]]

LEMMA SmallestSet ==
    ASSUME NEW S, IsFiniteSet(S), NEW B \in SUBSET (SUBSET S), B # {}
    PROVE  \E s \in B : \A x \in s : s \ {x} \notin B
  <1>1. \A s \in B : IsFiniteSet(s) /\ Cardinality(s) \in Nat
    BY FS_Subset, FS_CardinalityType
  <1> DEFINE T == {Cardinality(s) : s \in B}
  <1>2. T \in SUBSET Nat /\ T # {}
    BY <1>1
  <1>3. PICK n \in T : \A m \in T : n <= m
    BY <1>2, LeastElement
  <1>4. PICK s \in B : Cardinality(s) = n
    BY <1>3
  <1>5. ASSUME NEW x \in s, s \ {x} \in B PROVE FALSE
    <2>1. Cardinality(s \ {x}) = Cardinality(s) - 1
      BY <1>1, FS_RemoveElement
    <2>2. n <= Cardinality(s \ {x})
      BY <1>3, <1>5
    <2> QED BY <1>1, <1>4, <2>1, <2>2
  <1> QED BY <1>5

LEMMA SumExists ==
    ASSUME NEW S, IsFiniteSet(S), NEW f
    PROVE  \E i : Iterates(i, f, S)
  <1> DEFINE Body(j, s) == IF s = {} THEN 0
                           ELSE LET x == CHOOSE x \in s : TRUE IN f[x] + j[s \ {x}]
             Q(n) == \E j : \A s \in SUBSET S : Cardinality(s) <= n => j[s] = Body(j, s)
             N == {n \in Nat : ~Q(n)}
  <1>1. \A s \in SUBSET S : IsFiniteSet(s) /\ Cardinality(s) \in Nat /\ Cardinality(s) <= Cardinality(S)
    BY FS_Subset, FS_CardinalityType
  <1>2. Cardinality(S) \in Nat
    BY <1>1
  <1>3. Q(0)
    <2> DEFINE j == [s \in SUBSET S |-> 0]
    <2>1. ASSUME NEW s \in SUBSET S, Cardinality(s) <= 0 PROVE j[s] = Body(j, s)
      <3>1. Cardinality(s) = 0
        BY <1>1, <2>1
      <3>2. s = {}
        BY <1>1, <3>1, FS_EmptySet
      <3> QED BY <3>2
    <2> HIDE DEF j
    <2> QED BY <2>1
  <1>4. ASSUME NEW n \in Nat \ {0}, Q(n - 1) PROVE Q(n)
    <2>1. PICK j : \A s \in SUBSET S : Cardinality(s) <= n - 1 => j[s] = Body(j, s)
      BY <1>4
    <2> DEFINE k == [s \in SUBSET S |-> Body(j, s)]
    <2>2. \A s \in SUBSET S : Cardinality(s) <= n - 1 => k[s] = j[s]
      BY <2>1
    <2>3. ASSUME NEW s \in SUBSET S, Cardinality(s) <= n PROVE k[s] = Body(k, s)
      <3>1. CASE s = {}
        BY <3>1
      <3>2. CASE s # {}
        <4> DEFINE x == CHOOSE x \in s : TRUE
        <4>1. x \in s
          BY <3>2
        <4>2. k[s] = f[x] + j[s \ {x}]
          BY <3>2
        <4> HIDE DEF x
        <4>3. s \ {x} \in SUBSET S /\ Cardinality(s \ {x}) <= n - 1
          <5>1. Cardinality(s \ {x}) = Cardinality(s) - 1
            BY <1>1, <4>1, FS_RemoveElement
          <5> QED BY <1>1, <2>3, <5>1
        <4>4. k[s \ {x}] = j[s \ {x}]
          BY <2>2, <4>3
        <4> HIDE DEF k
        <4>5. k[s] = f[x] + k[s \ {x}]
          BY <4>2, <4>4
        <4> QED BY <3>2, <4>5 DEF x
      <3> QED BY <3>1, <3>2
    <2> HIDE DEF k, Body
    <2> QED BY <2>3
  <1>5. N = {}
    <2> SUFFICES ASSUME N # {} PROVE FALSE
      OBVIOUS
    <2> HIDE DEF Q
    <2>1. N \in SUBSET Nat
      OBVIOUS
    <2>2. PICK n \in N : \A m \in N : n <= m
      BY <2>1, LeastElement
    <2>3. n \in Nat /\ ~Q(n) /\ n # 0
      BY <1>3, <2>2
    <2>4. n - 1 \in Nat
      BY <2>3
    <2>5. n - 1 \notin N
      <3> HIDE DEF N
      <3> QED BY <2>2, <2>3, <2>4
    <2>6. Q(n - 1)
      BY <2>4, <2>5
    <2> QED BY <1>4, <2>3, <2>6
  <1>6. Q(Cardinality(S))
    <2> HIDE DEF Q
    <2> QED BY <1>2, <1>5
  <1>7. PICK j : \A s \in SUBSET S : Cardinality(s) <= Cardinality(S) => j[s] = Body(j, s)
    BY <1>6
  <1> DEFINE i == [s \in SUBSET S |-> j[s]]
  <1>8. \A s \in SUBSET S : j[s] = Body(j, s)
    <2> HIDE DEF Body
    <2> QED BY <1>1, <1>7
  <1>9. \A s \in SUBSET S : Body(j, s) = Body(i, s)
    <2> SUFFICES ASSUME NEW s \in SUBSET S, s # {} PROVE Body(j, s) = Body(i, s)
      OBVIOUS
    <2> DEFINE x == CHOOSE x \in s : TRUE
    <2>1. i[s \ {x}] = j[s \ {x}]
      <3> HIDE DEF x
      <3> QED OBVIOUS
    <2> QED BY <2>1
  <1>10. i = [s \in SUBSET S |-> Body(i, s)]
    <2> HIDE DEF Body
    <2>1. \A s \in SUBSET S : j[s] = Body(i, s)
      BY <1>8, <1>9
    <2> QED BY <2>1
  <1> QED BY <1>10 DEF Iterates

LEMMA IterateStep ==
    ASSUME NEW S, NEW f, NEW i, Iterates(i, f, S), NEW s \in SUBSET S
    PROVE  /\ s = {} => i[s] = 0
           /\ s # {} => \E x \in s : x = (CHOOSE y \in s : TRUE) /\ i[s] = f[x] + i[s \ {x}]
  <1>1. i[s] = IF s = {} THEN 0 ELSE LET x == CHOOSE x \in s : TRUE IN f[x] + i[s \ {x}]
    BY DEF Iterates
  <1>2. s # {} => (CHOOSE y \in s : TRUE) \in s
    OBVIOUS
  <1> QED BY <1>1, <1>2

\* The sum depends on the members' values only, and not on what it is a part of.
LEMMA SumAgrees ==
    ASSUME NEW S, IsFiniteSet(S), NEW f, NEW i, Iterates(i, f, S),
           NEW T, NEW g, NEW j, Iterates(j, g, T),
           NEW R \in SUBSET S, R \in SUBSET T, \A x \in R : f[x] = g[x]
    PROVE  i[R] = j[R]
  <1> DEFINE B == {s \in SUBSET R : i[s] # j[s]}
  <1>1. SUFFICES ASSUME B # {} PROVE FALSE
    OBVIOUS
  <1>2. B \in SUBSET (SUBSET S)
    OBVIOUS
  <1>3. PICK s \in B : \A x \in s : s \ {x} \notin B
    <2> HIDE DEF B
    <2> QED BY <1>1, <1>2, SmallestSet
  <1>4. s \in SUBSET S /\ s \in SUBSET T /\ s \in SUBSET R /\ i[s] # j[s]
    BY <1>3
  <1>5. s # {}
    BY <1>4, IterateStep
  <1>6. PICK x \in s : x = (CHOOSE y \in s : TRUE) /\ i[s] = f[x] + i[s \ {x}]
    BY <1>4, <1>5, IterateStep
  <1>7. j[s] = g[x] + j[s \ {x}]
    <2>1. PICK z \in s : z = (CHOOSE y \in s : TRUE) /\ j[s] = g[z] + j[s \ {z}]
      BY <1>4, <1>5, IterateStep
    <2> QED BY <1>6, <2>1
  <1>8. i[s \ {x}] = j[s \ {x}]
    <2>1. s \ {x} \in SUBSET R /\ s \ {x} \notin B
      BY <1>3, <1>4, <1>6
    <2> QED BY <2>1
  <1>9. f[x] = g[x]
    BY <1>4, <1>6
  <1> QED BY <1>4, <1>6, <1>7, <1>8, <1>9

LEMMA SumType ==
    ASSUME NEW S, IsFiniteSet(S), NEW f, \A x \in S : f[x] \in Nat, NEW i, Iterates(i, f, S),
           NEW R \in SUBSET S
    PROVE  i[R] \in Nat
  <1> DEFINE B == {s \in SUBSET S : i[s] \notin Nat}
  <1>1. SUFFICES ASSUME B # {} PROVE FALSE
    OBVIOUS
  <1>2. PICK s \in B : \A x \in s : s \ {x} \notin B
    <2>1. B \in SUBSET (SUBSET S)
      OBVIOUS
    <2> HIDE DEF B
    <2> QED BY <1>1, <2>1, SmallestSet
  <1>3. s \in SUBSET S /\ i[s] \notin Nat
    BY <1>2
  <1>4. s # {}
    BY <1>3, IterateStep
  <1>5. PICK x \in s : i[s] = f[x] + i[s \ {x}]
    BY <1>3, <1>4, IterateStep
  <1>6. f[x] \in Nat /\ i[s \ {x}] \in Nat
    BY <1>2, <1>3
  <1> QED BY <1>3, <1>5, <1>6

\* Whichever member is taken out first.
LEMMA SumTakesOut ==
    ASSUME NEW S, IsFiniteSet(S), NEW f, \A x \in S : f[x] \in Nat, NEW i, Iterates(i, f, S),
           NEW R \in SUBSET S, NEW m \in R
    PROVE  i[R] = f[m] + i[R \ {m}]
  <1> DEFINE B == {s \in SUBSET S : \E y \in s : i[s] # f[y] + i[s \ {y}]}
  <1>1. SUFFICES ASSUME B # {} PROVE FALSE
    OBVIOUS
  <1>2. PICK s \in B : \A x \in s : s \ {x} \notin B
    <2>1. B \in SUBSET (SUBSET S)
      OBVIOUS
    <2> HIDE DEF B
    <2> QED BY <1>1, <2>1, SmallestSet
  <1>3. s \in SUBSET S
    BY <1>2
  <1>4. PICK y \in s : i[s] # f[y] + i[s \ {y}]
    BY <1>2
  <1>5. PICK x \in s : i[s] = f[x] + i[s \ {x}]
    BY <1>3, <1>4, IterateStep
  <1>6. x # y
    BY <1>4, <1>5
  <1> DEFINE r == (s \ {x}) \ {y}
  <1>7. i[s \ {x}] = f[y] + i[r]
    BY <1>2, <1>3, <1>4, <1>6
  <1>8. i[s \ {y}] = f[x] + i[r]
    <2>1. (s \ {y}) \ {x} = r
      OBVIOUS
    <2>2. s \ {y} \in SUBSET S /\ s \ {y} \notin B /\ x \in s \ {y}
      BY <1>2, <1>3, <1>4, <1>6
    <2>3. i[s \ {y}] = f[x] + i[(s \ {y}) \ {x}]
      BY <2>2
    <2> QED BY <2>1, <2>3
  <1>9. f[x] \in Nat /\ f[y] \in Nat /\ i[r] \in Nat
    BY <1>3, SumType
  <1> HIDE DEF r
  <1> QED BY <1>4, <1>5, <1>7, <1>8, <1>9

Sum(f, S) == MapThenSumSet(LAMBDA x : f[x], S)

LEMMA SumIterates ==
    ASSUME NEW S, IsFiniteSet(S), NEW f
    PROVE  \E i : Iterates(i, f, S) /\ Sum(f, S) = i[S]
  <1> DEFINE i == CHOOSE i : Iterates(i, f, S)
  <1>1. Iterates(i, f, S)
    BY SumExists
  <1>2. Sum(f, S) = i[S]
    BY DEF Sum, MapThenSumSet, MapThenFoldSet, Iterates
  <1> QED BY <1>1, <1>2

LEMMA SumEmpty == ASSUME NEW f PROVE Sum(f, {}) = 0
  <1>1. IsFiniteSet({})
    BY FS_EmptySet
  <1>2. PICK i : Iterates(i, f, {}) /\ Sum(f, {}) = i[{}]
    BY <1>1, SumIterates
  <1> QED BY <1>2, IterateStep

LEMMA SumNat ==
    ASSUME NEW S, IsFiniteSet(S), NEW f, \A x \in S : f[x] \in Nat
    PROVE  Sum(f, S) \in Nat
  <1>1. PICK i : Iterates(i, f, S) /\ Sum(f, S) = i[S]
    BY SumIterates
  <1> QED BY <1>1, SumType

LEMMA SumSame ==
    ASSUME NEW S, IsFiniteSet(S), NEW f, NEW g, \A x \in S : f[x] = g[x]
    PROVE  Sum(f, S) = Sum(g, S)
  <1>1. PICK i : Iterates(i, f, S) /\ Sum(f, S) = i[S]
    BY SumIterates
  <1>2. PICK j : Iterates(j, g, S) /\ Sum(g, S) = j[S]
    BY SumIterates
  <1> QED BY <1>1, <1>2, SumAgrees

LEMMA SumAdd ==
    ASSUME NEW S, IsFiniteSet(S), NEW x, x \notin S, NEW f, \A y \in S \cup {x} : f[y] \in Nat
    PROVE  Sum(f, S \cup {x}) = f[x] + Sum(f, S)
  <1> DEFINE T == S \cup {x}
  <1>1. IsFiniteSet(T) /\ S \in SUBSET T /\ T \in SUBSET T /\ T \ {x} = S /\ x \in T
    BY FS_AddElement
  <1> HIDE DEF T
  <1>2. PICK i : Iterates(i, f, T) /\ Sum(f, T) = i[T]
    BY <1>1, SumIterates
  <1>3. PICK j : Iterates(j, f, S) /\ Sum(f, S) = j[S]
    BY SumIterates
  <1>4. i[T] = f[x] + i[T \ {x}]
    BY <1>1, <1>2, SumTakesOut DEF T
  <1>5. i[S] = j[S]
    BY <1>1, <1>2, <1>3, SumAgrees
  <1> QED BY <1>1, <1>2, <1>3, <1>4, <1>5 DEF T

\* A sum of naturals is 0 when every one of them is.
LEMMA SumZero ==
    ASSUME NEW S, IsFiniteSet(S), NEW f, \A x \in S : f[x] \in Nat
    PROVE  Sum(f, S) = 0 <=> \A x \in S : f[x] = 0
  <1>1. PICK i : Iterates(i, f, S) /\ Sum(f, S) = i[S]
    BY SumIterates
  <1>2. ASSUME i[S] = 0, NEW x \in S PROVE f[x] = 0
    <2>1. i[S] = f[x] + i[S \ {x}]
      BY <1>1, SumTakesOut
    <2>2. i[S \ {x}] \in Nat
      BY <1>1, SumType
    <2> QED BY <1>2, <2>1, <2>2
  <1>3. ASSUME \A x \in S : f[x] = 0 PROVE i[S] = 0
    <2> DEFINE B == {s \in SUBSET S : i[s] # 0}
    <2>1. SUFFICES ASSUME B # {} PROVE FALSE
      OBVIOUS
    <2>2. PICK s \in B : \A x \in s : s \ {x} \notin B
      <3>1. B \in SUBSET (SUBSET S)
        OBVIOUS
      <3> HIDE DEF B
      <3> QED BY <2>1, <3>1, SmallestSet
    <2>3. s \in SUBSET S /\ i[s] # 0
      BY <2>2
    <2>4. PICK x \in s : i[s] = f[x] + i[s \ {x}]
      BY <1>1, <2>3, IterateStep
    <2>5. f[x] = 0 /\ i[s \ {x}] = 0
      BY <1>3, <2>2, <2>3
    <2> QED BY <2>3, <2>4, <2>5
  <1> QED BY <1>1, <1>2, <1>3

=============================================================================
