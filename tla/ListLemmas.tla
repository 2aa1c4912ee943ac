----------------------------- MODULE ListLemmas ------------------------------
(***************************************************************************)
(* What the proofs about the tables need beyond the library: induction by  *)
(* the least element, and linked lists that are sorted, described by what  *)
(* each pointer is next to, for any nodes, order and null pointer.         *)
(***************************************************************************)
EXTENDS Naturals, FiniteSetTheorems, WellFoundedInduction, TLAPS

\* less, a set of pairs, is a strict total order of the nodes S.
StrictOrder(S, less) ==
  /\ \A a \in S : <<a, a>> \notin less
  /\ \A a, b, c \in S : <<a, b>> \in less /\ <<b, c>> \in less => <<a, c>> \in less
  /\ \A a, b \in S : a = b \/ <<a, b>> \in less \/ <<b, a>> \in less

\* The pointer first and those of nexts go through all of S in the order less:
\* a pointer leads to a later node, and to none behind an earlier one.
Chained(S, first, nexts, less, null) ==
  /\ first \in S \union {null}
  /\ \A a \in S : /\ nexts[a] \in S \union {null}
                  /\ nexts[a] # null => <<a, nexts[a]>> \in less
  /\ \A m \in S : first # null /\ <<m, first>> \notin less
  /\ \A a, m \in S : <<a, m>> \in less => nexts[a] # null /\ <<m, nexts[a]>> \notin less

-----------------------------------------------------------------------------
(* Induction.                                                              *)

(* A set of naturals that is not empty has a least element: the principle  *)
(* of induction, in the form in which it is used here.                     *)
LEMMA LeastElement ==
  ASSUME NEW B \in SUBSET Nat, B # {}
  PROVE  \E n \in B : \A m \in B : n <= m
<1> DEFINE T == {0 .. n : n \in B}
<1>1. T \subseteq FiniteSubsetsOf(Nat) /\ T # {}
  <2>1. \A n \in B : IsFiniteSet(0 .. n) /\ 0 .. n \in SUBSET Nat
    BY FS_Interval
  <2> QED
    BY <2>1 DEF FiniteSubsetsOf
<1>2. PICK x \in T : \A y \in T : ~ (<<y, x>> \in StrictSubsetOrdering(Nat))
  <2> HIDE DEF T
  <2> QED
    BY <1>1, FS_StrictSubsetOrderingWellFounded, WFMin
<1>3. PICK n \in B : x = 0 .. n
  OBVIOUS
<1>4. ASSUME NEW m \in B, m < n
      PROVE  FALSE
  <2>1. 0 .. m \in T
    OBVIOUS
  <2>2. <<0 .. m, x>> \in StrictSubsetOrdering(Nat)
    BY <1>3, <1>4 DEF StrictSubsetOrdering
  <2> QED
    BY <1>2, <2>1, <2>2
<1> QED
  BY <1>3, <1>4

(* What holds at 0, and at i when it holds at i - 1, holds up to n: Good   *)
(* is the set of the places where it holds.                                *)
LEMMA UpTo ==
  ASSUME NEW n \in Nat, NEW Good, 0 \in Good, \A i \in 1 .. n : i - 1 \in Good => i \in Good
  PROVE  \A i \in 0 .. n : i \in Good
<1> DEFINE Bad == {i \in 0 .. n : i \notin Good}
<1> SUFFICES ASSUME Bad # {}
             PROVE  FALSE
  OBVIOUS
<1>1. Bad \in SUBSET Nat
  OBVIOUS
<1>2. PICK i \in Bad : \A j \in Bad : i <= j
  <2> HIDE DEF Bad
  <2> QED
    BY <1>1, LeastElement
<1>3. i \in 1 .. n /\ i - 1 \in 0 .. n
  OBVIOUS
<1>4. i - 1 \notin Bad
  <2> HIDE DEF Bad
  <2> QED
    BY <1>2, <1>3
<1> QED
  BY <1>3, <1>4

-----------------------------------------------------------------------------
(* Walking a list.                                                         *)

\* What comes after a, null after the end.
After(a, nexts, null) == IF a = null THEN null ELSE nexts[a]

\* The first n + 1 places of the list that begins with first.
Places(n, first, nexts, null) ==
  LET at[i \in 0 .. n] ==
        IF i = 0 THEN first ELSE IF at[i - 1] = null THEN null ELSE nexts[at[i - 1]]
  IN  at

(* The places of a list exist: what the recursive definition defines.      *)
LEMMA PlacesExist ==
  ASSUME NEW n \in Nat, NEW first, NEW nexts, NEW null
  PROVE  \E at : at = [i \in 0 .. n |->
                         IF i = 0 THEN first
                         ELSE IF at[i - 1] = null THEN null ELSE nexts[at[i - 1]]]
<1> DEFINE Good == {k \in Nat : \E at : at = [i \in 0 .. k |->
                                IF i = 0 THEN first ELSE After(at[i - 1], nexts, null)]}
<1>1. 0 \in Good
  <2> DEFINE f == [i \in 0 .. 0 |-> first]
  <2>1. f = [i \in 0 .. 0 |-> IF i = 0 THEN first ELSE After(f[i - 1], nexts, null)]
    OBVIOUS
  <2> QED
    BY <2>1
<1>2. ASSUME NEW k \in 1 .. n, k - 1 \in Good
      PROVE  k \in Good
  <2>1. k \in Nat /\ k - 1 \in Nat /\ k # 0
    OBVIOUS
  <2>2. PICK f : f = [i \in 0 .. k - 1 |->
                        IF i = 0 THEN first ELSE After(f[i - 1], nexts, null)]
    BY <1>2
  <2> DEFINE g == [i \in 0 .. k |-> IF i = k THEN After(f[k - 1], nexts, null) ELSE f[i]]
  <2>3. \A i \in 0 .. k : g[i] = IF i = 0 THEN first ELSE After(g[i - 1], nexts, null)
    BY <2>1, <2>2
  <2>4. g = [i \in 0 .. k |-> IF i = 0 THEN first ELSE After(g[i - 1], nexts, null)]
    BY <2>3
  <2> QED
    BY <2>1, <2>4
<1>3. n \in Good
  <2> HIDE DEF Good
  <2>1. \A i \in 0 .. n : i \in Good
    BY <1>1, <1>2, UpTo
  <2> QED
    BY <2>1
<1> QED
  BY <1>3 DEF After

LEMMA PlacesAre ==
  ASSUME NEW n \in Nat, NEW first, NEW nexts, NEW null
  PROVE  /\ DOMAIN Places(n, first, nexts, null) = 0 .. n
         /\ Places(n, first, nexts, null)[0] = first
         /\ \A i \in 1 .. n :
              Places(n, first, nexts, null)[i] =
                IF Places(n, first, nexts, null)[i - 1] = null THEN null
                ELSE nexts[Places(n, first, nexts, null)[i - 1]]
<1> DEFINE at == CHOOSE at : at = [i \in 0 .. n |->
                                     IF i = 0 THEN first
                                     ELSE IF at[i - 1] = null THEN null
                                     ELSE nexts[at[i - 1]]]
<1>1. at = [i \in 0 .. n |-> IF i = 0 THEN first
                             ELSE IF at[i - 1] = null THEN null ELSE nexts[at[i - 1]]]
  BY PlacesExist
<1>2. Places(n, first, nexts, null) = at
  BY DEF Places
<1> HIDE DEF at
<1>3. /\ DOMAIN at = 0 .. n
      /\ at[0] = first
      /\ \A i \in 1 .. n : at[i] = IF at[i - 1] = null THEN null ELSE nexts[at[i - 1]]
  BY <1>1
<1> QED
  BY <1>2, <1>3

\* The places at, from 0 to n, are those of S in the order less, then null.
Walked(S, at, n, less, null) ==
  /\ \A i \in 0 .. n : at[i] \in S \union {null}
  /\ \A i \in 1 .. n :
       at[i] # null => at[i - 1] # null /\ <<at[i - 1], at[i]>> \in less
  /\ at[n] = null
  /\ \A m \in S : \E i \in 0 .. n : at[i] = m

(* A walk along a chain meets exactly its nodes, in their order, and ends. *)
LEMMA ChainWalked ==
  ASSUME NEW A, IsFiniteSet(A), NEW null, null \notin A,
         NEW S, S \subseteq A, NEW less, StrictOrder(S, less),
         NEW first, NEW nexts, Chained(S, first, nexts, less, null)
  PROVE  Walked(S, Places(Cardinality(A), first, nexts, null), Cardinality(A), less, null)
<1> DEFINE at == Places(Cardinality(A), first, nexts, null)
<1>1. PICK n \in Nat : n = Cardinality(A)
  BY FS_CardinalityType
<1>0. /\ at[0] = first
      /\ \A i \in 1 .. n : at[i] = IF at[i - 1] = null THEN null ELSE nexts[at[i - 1]]
  BY <1>1, PlacesAre
<1> HIDE DEF at
<1>2. \A i \in 0 .. n : at[i] \in S \union {null}
  <2> DEFINE Good == {i \in 0 .. n : at[i] \in S \union {null}}
  <2>1. 0 \in Good
    BY <1>0 DEF Chained
  <2>2. ASSUME NEW i \in 1 .. n, i - 1 \in Good
        PROVE  i \in Good
    <3>1. at[i - 1] \in S \union {null} /\ i \in 0 .. n
      BY <2>2
    <3>2. at[i] = IF at[i - 1] = null THEN null ELSE nexts[at[i - 1]]
      BY <1>0
    <3> QED
      BY <3>1, <3>2 DEF Chained
  <2>3. \A i \in 0 .. n : i \in Good
    <3> HIDE DEF Good
    <3> QED
      BY <2>1, <2>2, UpTo
  <2> QED
    BY <2>3
<1>3. \A i \in 1 .. n : at[i] # null =>
        /\ at[i - 1] # null /\ at[i - 1] \in S
        /\ <<at[i - 1], at[i]>> \in less
  <2> SUFFICES ASSUME NEW i \in 1 .. n, at[i] # null
               PROVE  /\ at[i - 1] # null /\ at[i - 1] \in S
                      /\ <<at[i - 1], at[i]>> \in less
    OBVIOUS
  <2>1. i - 1 \in 0 .. n
    OBVIOUS
  <2>2. at[i - 1] \in S \union {null}
    BY <1>2, <2>1
  <2> QED
    BY <1>0, <2>2 DEF Chained
<1>4. ASSUME NEW i \in 0 .. n
      PROVE  \A j \in 0 .. n : i < j /\ at[j] # null => <<at[i], at[j]>> \in less
  <2> DEFINE Good == {j \in 0 .. n : i < j /\ at[j] # null => <<at[i], at[j]>> \in less}
  <2>1. 0 \in Good
    OBVIOUS
  <2>2. ASSUME NEW j \in 1 .. n, j - 1 \in Good
        PROVE  j \in Good
    <3> SUFFICES ASSUME i < j, at[j] # null
                 PROVE  <<at[i], at[j]>> \in less
      OBVIOUS
    <3>1. at[j - 1] # null /\ at[j - 1] \in S /\ <<at[j - 1], at[j]>> \in less
      BY <1>3
    <3>2. at[j] \in S
      BY <1>2
    <3>3. CASE i = j - 1
      BY <3>1, <3>3
    <3>4. CASE i # j - 1
      <4>1. i < j - 1
        BY <3>4
      <4>2. <<at[i], at[j - 1]>> \in less
        BY <2>2, <3>1, <4>1
      <4>3. at[i] \in S
        <5>1. i + 1 \in 1 .. n /\ i + 1 <= j - 1 /\ (i + 1) - 1 = i
          BY <4>1
        <5>2. at[i] # null
          <6> SUFFICES ASSUME at[i] = null
                       PROVE  FALSE
            OBVIOUS
          <6> DEFINE Null2 == {k \in 0 .. n : i <= k => at[k] = null}
          <6>1. 0 \in Null2
            OBVIOUS
          <6>2. ASSUME NEW k \in 1 .. n, k - 1 \in Null2
                PROVE  k \in Null2
            <7>1. k - 1 \in 0 .. n /\ (i <= k - 1 \/ i = k \/ i > k)
              OBVIOUS
            <7> QED
              BY <1>0, <6>2, <7>1
          <6>3. \A k \in 0 .. n : k \in Null2
            <7> HIDE DEF Null2
            <7> QED
              BY <6>1, <6>2, UpTo
          <6>4. j \in 0 .. n /\ i <= j
            OBVIOUS
          <6> QED
            BY <6>3, <6>4
        <5> QED
          BY <1>2, <5>2
      <4> QED
        BY <3>1, <3>2, <4>2, <4>3 DEF StrictOrder
    <3> QED
      BY <3>3, <3>4
  <2>3. \A j \in 0 .. n : j \in Good
    <3> HIDE DEF Good
    <3> QED
      BY <2>1, <2>2, UpTo
  <2> QED
    BY <2>3
<1>5. at[n] = null
  <2> SUFFICES ASSUME at[n] # null
               PROVE  FALSE
    OBVIOUS
  <2>1. \A i \in 0 .. n : at[i] \in S
    <3>1. ASSUME NEW i \in 0 .. n, i # n
          PROVE  at[i] # null
      <4>1. i < n /\ n \in 0 .. n /\ i + 1 \in 1 .. n
        BY <3>1
      <4> DEFINE Good == {k \in 0 .. n : i <= k /\ at[i] = null => at[k] = null}
      <4>2. 0 \in Good
        OBVIOUS
      <4>3. ASSUME NEW k \in 1 .. n, k - 1 \in Good
            PROVE  k \in Good
        <5>1. k - 1 \in 0 .. n /\ (i <= k - 1 \/ i = k \/ i > k)
          OBVIOUS
        <5> QED
          BY <1>0, <4>3, <5>1
      <4>4. \A k \in 0 .. n : k \in Good
        <5> HIDE DEF Good
        <5> QED
          BY <4>2, <4>3, UpTo
      <4> QED
        BY <4>1, <4>4
    <3> QED
      BY <1>2, <3>1
  <2> DEFINE f == [i \in 0 .. n |-> at[i]]
  <2>2. f \in [0 .. n -> A]
    BY <2>1
  <2>3. IsFiniteSet(0 .. n) /\ Cardinality(0 .. n) = n + 1
    BY FS_Interval
  <2>4. n < n + 1
    OBVIOUS
  <2>5. PICK i, j \in 0 .. n : i # j /\ f[i] = f[j]
    <3> HIDE DEF f
    <3> QED
      BY <1>1, <2>2, <2>3, <2>4, FS_PigeonHole
  <2>6. at[i] = at[j] /\ at[i] # null /\ at[i] \in S
    BY <2>1, <2>5
  <2>7. i < j \/ j < i
    BY <2>5
  <2>8. <<at[i], at[j]>> \in less \/ <<at[j], at[i]>> \in less
    BY <1>4, <2>6, <2>7
  <2> QED
    BY <2>6, <2>8 DEF StrictOrder
<1>6. ASSUME NEW m \in S
      PROVE  \E i \in 0 .. n : at[i] = m
  <2> SUFFICES ASSUME \A i \in 0 .. n : at[i] # m
               PROVE  FALSE
    OBVIOUS
  <2> DEFINE Good == {i \in 0 .. n : at[i] # null /\ <<at[i], m>> \in less}
  <2>1. 0 \in Good
    <3>1. 0 \in 0 .. n /\ at[0] # m /\ at[0] # null /\ at[0] \in S /\ <<m, at[0]>> \notin less
      BY <1>0 DEF Chained
    <3> QED
      BY <3>1 DEF StrictOrder
  <2>2. ASSUME NEW i \in 1 .. n, i - 1 \in Good
        PROVE  i \in Good
    <3>1. i - 1 \in 0 .. n /\ at[i - 1] \in S /\ at[i] = nexts[at[i - 1]]
      BY <1>0, <1>2, <2>2
    <3>2. at[i] # null /\ <<m, at[i]>> \notin less /\ at[i] # m /\ at[i] \in S
      BY <1>2, <2>2, <3>1 DEF Chained
    <3> QED
      BY <3>2 DEF StrictOrder
  <2>3. \A i \in 0 .. n : i \in Good
    <3> HIDE DEF Good
    <3> QED
      BY <2>1, <2>2, UpTo
  <2>4. n \in 0 .. n
    OBVIOUS
  <2> QED
    BY <1>5, <2>3, <2>4
<1> QED
  BY <1>1, <1>2, <1>3, <1>5, <1>6 DEF at, Walked

-----------------------------------------------------------------------------
(* Changing a list.                                                        *)

(* A subset of what is ordered is ordered.                                 *)
LEMMA OrderInside ==
  ASSUME NEW S, NEW less, StrictOrder(S, less), NEW T, T \subseteq S
  PROVE  StrictOrder(T, less)
BY DEF StrictOrder

(* A list depends on the pointers of its own nodes only.                   *)
LEMMA ChainSame ==
  ASSUME NEW S, NEW less, NEW null, NEW first, NEW nexts, NEW nexts2,
         Chained(S, first, nexts, less, null), \A a \in S : nexts2[a] = nexts[a]
  PROVE  Chained(S, first, nexts2, less, null)
BY DEF Chained

(* Behind its first node a list is the list of the other nodes, all greater. *)
LEMMA ChainTail ==
  ASSUME NEW S, NEW null, null \notin S, NEW less, StrictOrder(S, less),
         NEW first, first # null, NEW nexts, Chained(S, first, nexts, less, null)
  PROVE  /\ first \in S
         /\ \A a \in S \ {first} : <<first, a>> \in less
         /\ Chained(S \ {first}, nexts[first], nexts, less, null)
<1>1. first \in S
  BY DEF Chained
<1>2. \A a \in S \ {first} : <<first, a>> \in less
  BY <1>1 DEF Chained, StrictOrder
<1>3. \A a \in S : nexts[a] # first
  BY <1>1, <1>2 DEF Chained, StrictOrder
<1> QED
  BY <1>1, <1>2, <1>3 DEF Chained, StrictOrder

(* A node that is unlinked from behind p is out of the list.               *)
LEMMA ChainUnlink ==
  ASSUME NEW S, NEW null, null \notin S, NEW less, StrictOrder(S, less),
         NEW first, NEW nexts, NEW nexts2, Chained(S, first, nexts, less, null),
         NEW c \in S, NEW p \in S, nexts[p] = c, nexts2[p] = nexts[c],
         \A a \in S \ {c, p} : nexts2[a] = nexts[a]
  PROVE  Chained(S \ {c}, first, nexts2, less, null)
<1>1. <<p, c>> \in less /\ p # c
  BY DEF Chained, StrictOrder
<1>2. first # c
  BY <1>1 DEF Chained
<1>3. ASSUME NEW a \in S \ {p}
      PROVE  nexts[a] # c
  <2> SUFFICES ASSUME nexts[a] = c
               PROVE  FALSE
    OBVIOUS
  <2>1. <<a, c>> \in less
    BY DEF Chained
  <2>2. <<a, p>> \in less \/ <<p, a>> \in less
    BY DEF StrictOrder
  <2> QED
    BY <1>1, <2>1, <2>2 DEF Chained, StrictOrder
<1>4. first \in (S \ {c}) \union {null}
  BY <1>2 DEF Chained
<1>5. \A m \in S \ {c} : first # null /\ <<m, first>> \notin less
  BY DEF Chained
<1>6. ASSUME NEW a \in S \ {c}
      PROVE  /\ nexts2[a] \in (S \ {c}) \union {null}
             /\ nexts2[a] # null => <<a, nexts2[a]>> \in less
             /\ \A m \in S \ {c} : <<a, m>> \in less =>
                  nexts2[a] # null /\ <<m, nexts2[a]>> \notin less
  <2>1. CASE a # p
    <3>1. nexts2[a] = nexts[a] /\ nexts[a] # c
      BY <1>3, <2>1
    <3> QED
      BY <3>1 DEF Chained
  <2>2. CASE a = p
    <3>1. nexts2[a] = nexts[c] /\ nexts[c] \in S \union {null} /\ nexts[c] # c
      BY <2>2 DEF Chained, StrictOrder
    <3>2. nexts[c] # null => <<c, nexts[c]>> \in less /\ <<p, nexts[c]>> \in less
      BY <1>1, <3>1 DEF Chained, StrictOrder
    <3>3. ASSUME NEW m \in S \ {c}, <<a, m>> \in less
          PROVE  nexts2[a] # null /\ <<m, nexts2[a]>> \notin less
      <4>1. <<m, c>> \notin less
        BY <2>2, <3>3 DEF Chained
      <4>2. <<c, m>> \in less
        BY <4>1 DEF StrictOrder
      <4> QED
        BY <3>1, <4>2 DEF Chained
    <3> QED
      BY <2>2, <3>1, <3>2, <3>3
  <2> QED
    BY <2>1, <2>2
<1> QED
  BY <1>4, <1>5, <1>6 DEF Chained

(* A node is linked in before a list whose nodes are greater.              *)
LEMMA ChainPut ==
  ASSUME NEW S, NEW null, null \notin S, NEW c, c \notin S, c # null,
         NEW less, StrictOrder(S \union {c}, less),
         NEW first, NEW nexts, NEW nexts2, Chained(S, first, nexts, less, null),
         first = null \/ <<c, first>> \in less, nexts2[c] = first,
         \A a \in S : nexts2[a] = nexts[a]
  PROVE  Chained(S \union {c}, c, nexts2, less, null)
<1>1. ASSUME NEW m \in S
      PROVE  <<c, m>> \in less /\ <<m, c>> \notin less
  <2>1. first \in S /\ (m = first \/ <<first, m>> \in less)
    BY DEF Chained, StrictOrder
  <2> QED
    BY <2>1 DEF StrictOrder
<1>2. <<c, c>> \notin less
  BY DEF StrictOrder
<1>3. \A m \in S \union {c} : c # null /\ <<m, c>> \notin less
  BY <1>1, <1>2
<1>4. \A a \in S \union {c} :
        /\ nexts2[a] \in (S \union {c}) \union {null}
        /\ nexts2[a] # null => <<a, nexts2[a]>> \in less
  BY DEF Chained
<1>5. ASSUME NEW a \in S \union {c}, NEW m \in S \union {c}, <<a, m>> \in less
      PROVE  nexts2[a] # null /\ <<m, nexts2[a]>> \notin less
  <2>1. m \in S
    BY <1>3, <1>5
  <2> QED
    BY <1>5, <2>1 DEF Chained
<1> QED
  BY <1>3, <1>4, <1>5 DEF Chained

(* A node is linked in behind p, where the order has it.                   *)
LEMMA ChainLink ==
  ASSUME NEW S, NEW null, null \notin S, NEW c, c \notin S, c # null,
         NEW less, StrictOrder(S \union {c}, less),
         NEW first, NEW nexts, NEW nexts2, Chained(S, first, nexts, less, null),
         NEW p \in S, <<p, c>> \in less, nexts[p] = null \/ <<c, nexts[p]>> \in less,
         nexts2[p] = c, nexts2[c] = nexts[p],
         \A a \in S \ {p} : nexts2[a] = nexts[a]
  PROVE  Chained(S \union {c}, first, nexts2, less, null)
<1>1. ASSUME NEW m \in S, <<c, m>> \in less
      PROVE  nexts[p] # null /\ <<m, nexts[p]>> \notin less
  <2>1. <<p, m>> \in less
    BY <1>1 DEF StrictOrder
  <2> QED
    BY <2>1 DEF Chained
<1>2. ASSUME NEW m \in S, <<p, m>> \in less
      PROVE  <<m, c>> \notin less
  <2>1. nexts[p] # null /\ nexts[p] \in S /\ <<m, nexts[p]>> \notin less
    BY <1>2 DEF Chained
  <2>2. m = nexts[p] \/ <<nexts[p], m>> \in less
    BY <2>1 DEF StrictOrder
  <2> QED
    BY <2>1, <2>2 DEF StrictOrder
<1>3. first \in S /\ <<c, first>> \notin less
  <2>1. first \in S /\ <<p, first>> \notin less
    BY DEF Chained
  <2>2. first = p \/ <<first, p>> \in less
    BY <2>1 DEF StrictOrder
  <2> QED
    BY <2>1, <2>2 DEF StrictOrder
<1>4. \A m \in S \union {c} : first # null /\ <<m, first>> \notin less
  BY <1>3 DEF Chained
<1>5. \A a \in S \union {c} :
        /\ nexts2[a] \in (S \union {c}) \union {null}
        /\ nexts2[a] # null => <<a, nexts2[a]>> \in less
  BY DEF Chained
<1>6. ASSUME NEW a \in S \union {c}, NEW m \in S \union {c}, <<a, m>> \in less
      PROVE  nexts2[a] # null /\ <<m, nexts2[a]>> \notin less
  <2>1. CASE a = c
    <3>1. m \in S
      BY <1>6, <2>1 DEF StrictOrder
    <3> QED
      BY <1>1, <1>6, <2>1, <3>1
  <2>2. CASE a = p
    <3>1. m = c \/ m \in S
      OBVIOUS
    <3> QED
      BY <1>2, <1>6, <2>2, <3>1 DEF StrictOrder
  <2>3. CASE a \in S \ {p} /\ m \in S
    BY <1>6, <2>3 DEF Chained
  <2>4. CASE a \in S \ {p} /\ m = c
    <3>1. a \in S /\ nexts2[a] = nexts[a]
      BY <2>4
    <3>2. <<a, p>> \in less
      <4>1. <<p, a>> \notin less
        BY <1>2, <1>6, <2>4
      <4> QED
        BY <2>4, <4>1 DEF StrictOrder
    <3>3. nexts[a] # null /\ <<p, nexts[a]>> \notin less /\ nexts[a] \in S
      BY <3>1, <3>2 DEF Chained
    <3>4. nexts[a] = p \/ <<nexts[a], p>> \in less
      BY <3>3 DEF StrictOrder
    <3>5. <<nexts[a], c>> \in less
      BY <3>3, <3>4 DEF StrictOrder
    <3>6. <<c, nexts[a]>> \notin less
      BY <3>3, <3>5 DEF StrictOrder
    <3> QED
      BY <2>4, <3>1, <3>3, <3>6
  <2> QED
    BY <2>1, <2>2, <2>3, <2>4
<1> QED
  BY <1>3, <1>4, <1>5, <1>6 DEF Chained

\* place is the first of the places at, from 0 to n, that is the end of the list
\* or has a node greater than c.
Stops(place, at, n, c, less, null) ==
  /\ place \in 0 .. n
  /\ at[place] = null \/ <<c, at[place]>> \in less
  /\ \A j \in 0 .. n : at[j] = null \/ <<c, at[j]>> \in less => place <= j

\* c belongs behind p, at the head if that is null.
Belongs(c, p, S, first, nexts, less, null) ==
  IF p = null THEN first = null \/ <<c, first>> \in less
  ELSE p \in S /\ <<p, c>> \in less /\ (nexts[p] = null \/ <<c, nexts[p]>> \in less)

(* Where a walk stops is where c belongs.                                  *)
LEMMA WalkStops ==
  ASSUME NEW A, IsFiniteSet(A), NEW null, null \notin A,
         NEW S, S \subseteq A, NEW c, c \notin S, NEW less, StrictOrder(S \union {c}, less),
         NEW first, NEW nexts, Chained(S, first, nexts, less, null), NEW place,
         Stops(place, Places(Cardinality(A), first, nexts, null), Cardinality(A), c, less, null)
  PROVE  Belongs(c, IF place = 0 THEN null
                    ELSE Places(Cardinality(A), first, nexts, null)[place - 1],
                 S, first, nexts, less, null)
<1> DEFINE at == Places(Cardinality(A), first, nexts, null)
<1>1. PICK n \in Nat : n = Cardinality(A)
  BY FS_CardinalityType
<1>2. /\ at[0] = first
      /\ \A i \in 1 .. n : at[i] = IF at[i - 1] = null THEN null ELSE nexts[at[i - 1]]
  BY <1>1, PlacesAre
<1>0. /\ place \in 0 .. n
      /\ at[place] = null \/ <<c, at[place]>> \in less
      /\ \A j \in 0 .. n : at[j] = null \/ <<c, at[j]>> \in less => place <= j
  BY <1>1 DEF Stops
<1>3. \A i \in 0 .. n : at[i] \in S \union {null}
  <2>1. StrictOrder(S, less)
    BY OrderInside
  <2>2. Walked(S, Places(Cardinality(A), first, nexts, null), Cardinality(A), less, null)
    BY <2>1, ChainWalked
  <2> QED
    BY <1>1, <2>2 DEF Walked
<1> HIDE DEF at
<1>4. ASSUME place # 0
      PROVE  /\ at[place - 1] \in S
             /\ <<at[place - 1], c>> \in less
             /\ nexts[at[place - 1]] = null \/ <<c, nexts[at[place - 1]]>> \in less
  <2>1. place \in 1 .. n /\ place - 1 \in 0 .. n /\ ~ (place <= place - 1)
    BY <1>0, <1>1, <1>4
  <2>2. at[place - 1] # null /\ <<c, at[place - 1]>> \notin less
    BY <1>0, <2>1
  <2>3. at[place - 1] \in S
    BY <1>3, <2>1, <2>2
  <2>4. at[place] = nexts[at[place - 1]]
    BY <1>2, <2>1, <2>2
  <2> QED
    BY <1>0, <2>2, <2>3, <2>4 DEF StrictOrder
<1>5. Belongs(c, IF place = 0 THEN null ELSE at[place - 1], S, first, nexts, less, null)
  <2>1. CASE place = 0
    BY <1>0, <1>2, <2>1 DEF Belongs
  <2>2. CASE place # 0
    BY <1>3, <1>4, <2>2 DEF Belongs
  <2> QED
    BY <2>1, <2>2
<1> QED
  BY <1>5 DEF at

-----------------------------------------------------------------------------
(* Making a list.                                                          *)

(* Some nodes that are ordered have a least one.                           *)
LEMMA OrderLeast ==
  ASSUME NEW S, IsFiniteSet(S), S # {}, NEW less, StrictOrder(S, less)
  PROVE  \E a \in S : \A c \in S \ {a} : <<a, c>> \in less
<1> DEFINE under(a) == {c \in S : <<c, a>> \in less}
           B == {Cardinality(under(a)) : a \in S}
<1>1. \A a \in S : IsFiniteSet(under(a)) /\ Cardinality(under(a)) \in Nat
  <2> SUFFICES ASSUME NEW a \in S
               PROVE  IsFiniteSet(under(a)) /\ Cardinality(under(a)) \in Nat
    OBVIOUS
  <2>1. under(a) \in SUBSET S
    OBVIOUS
  <2> HIDE DEF under
  <2> QED
    BY <2>1, FS_Subset, FS_CardinalityType
<1>2. PICK n \in B : \A m \in B : n <= m
  <2>1. B \in SUBSET Nat /\ B # {}
    BY <1>1
  <2> HIDE DEF B
  <2> QED
    BY <2>1, LeastElement
<1>3. PICK a \in S : n = Cardinality(under(a))
  BY <1>2
<1>4. ASSUME NEW c \in S \ {a}, <<a, c>> \notin less
      PROVE  FALSE
  <2>1. <<c, a>> \in less
    BY <1>4 DEF StrictOrder
  <2>2. under(c) \in SUBSET under(a) /\ c \in under(a) /\ c \notin under(c)
    BY <2>1 DEF StrictOrder
  <2>3. n <= Cardinality(under(c))
    BY <1>2
  <2> HIDE DEF under, B
  <2>4. Cardinality(under(c)) <= Cardinality(under(a))
        /\ (Cardinality(under(c)) = Cardinality(under(a)) => under(c) = under(a))
    BY <1>1, <2>2, FS_Subset
  <2> QED
    BY <1>1, <1>3, <2>2, <2>3, <2>4
<1> QED
  BY <1>4

\* a is null if S is empty, and the least of S if it is not.
IsLeast(a, S, less, null) ==
  IF S = {} THEN a = null ELSE a \in S /\ \A c \in S \ {a} : <<a, c>> \in less

(* A list whose pointers lead to the least of what is greater.             *)
LEMMA ChainMade ==
  ASSUME NEW S, NEW null, null \notin S, NEW less, StrictOrder(S, less),
         NEW first, NEW nexts, IsLeast(first, S, less, null),
         \A a \in S : IsLeast(nexts[a], {c \in S : <<a, c>> \in less}, less, null)
  PROVE  Chained(S, first, nexts, less, null)
<1>1. /\ first \in S \union {null}
      /\ \A m \in S : first # null /\ <<m, first>> \notin less
  BY DEF IsLeast, StrictOrder
<1>2. ASSUME NEW a \in S
      PROVE  /\ nexts[a] \in S \union {null}
             /\ nexts[a] # null => <<a, nexts[a]>> \in less
             /\ \A m \in S : <<a, m>> \in less =>
                  nexts[a] # null /\ <<m, nexts[a]>> \notin less
  <2> DEFINE above == {c \in S : <<a, c>> \in less}
  <2>1. IsLeast(nexts[a], above, less, null)
    OBVIOUS
  <2> QED
    BY <2>1 DEF IsLeast, StrictOrder
<1> QED
  BY <1>1, <1>2 DEF Chained

=============================================================================
