--------------------------- MODULE CollectorProofs ---------------------------
(***************************************************************************)
(* Theorems about Collector, for any diagram, hash function, number of     *)
(* buckets and references. The inductive invariant describes a loop that   *)
(* is half done: Ahead are the nodes it has yet to visit, the lists are    *)
(* whole (mark, sweep, unmark) or split into what is ahead and what was    *)
(* moved (grow) or freed (drop), and what is known of the marks holds for  *)
(* the nodes behind it.                                                    *)
(***************************************************************************)
EXTENDS Collector, ListLemmas

-----------------------------------------------------------------------------
(* The inductive invariant.                                                *)

\* The order of keys, as a set of pairs of nodes.
Less == {p \in Addr \X Addr : KeyLess(KeyAt[p[1]], KeyAt[p[2]])}

\* Those of S whose bucket is i, of n.
Chain(S, i, n) == {a \in S : BucketOf(a, n) = i}

Closed(S) == \A a \in S : Children(a) \subseteq S

Referenced == {a \in Addr : refCnt[a] # 0}

\* Those of S that a loop over n buckets which is at c in bucket i has yet to visit.
AheadOf(S, n, i, c) ==
  {a \in S : \/ BucketOf(a, n) > i
             \/ BucketOf(a, n) = i /\ c # Null /\ (a = c \/ <<c, a>> \in Less)}

Ahead == AheadOf(live, size, b, curr)

\* Nothing is added to the table the work began with.
FromTable == \E T \in Tables : live \subseteq T

\* The lists of the table, of which a collection keeps or unlinks one node after
\* the other.
WholeLists ==
  pc \in {"idle", "mark", "sweep", "unmark"} =>
    \A i \in Buckets : Chained(Chain(live, i, size), head[i], next, Less, Null)

\* What is left of them while grow and drop take the nodes away.
AheadLists ==
  pc \in {"grow", "drop"} =>
    \A i \in b .. size - 1 :
      Chained(Chain(Ahead, i, size), IF i = b THEN curr ELSE head[i], next, Less, Null)

\* The lists grow has made so far.
NewLists ==
  pc = "grow" =>
    \A j \in 0 .. 2 * size - 1 :
      Chained(Chain(live \ Ahead, j, 2 * size), newHead[j], next, Less, Null)

\* Where the loop is: prev is the last node kept, and its pointer, or the head of
\* the bucket, leads to curr.
Position ==
  /\ curr # Null => curr \in live /\ BucketOf(curr, size) = b
  /\ pc \in {"idle", "dropped"} => curr = Null
  /\ pc # "sweep" => prev = Null
  /\ pc = "sweep" => IF prev = Null THEN head[b] = curr
                     ELSE prev \in live /\ BucketOf(prev, size) = b /\ next[prev] = curr

\* What is marked is marked with all below it, once, and was held or below what
\* was when marking began.
Marking ==
  pc \in {"mark", "sweep"} =>
    /\ Closed(marked)
    /\ numMarks = Cardinality(marked)
    /\ marked \subseteq Below(held, {})

\* Behind the loop, what is referenced is marked (mark), what is left is marked
\* (sweep), and nothing is marked (unmark).
Marks ==
  /\ pc = "mark" => Referenced \subseteq held /\ Referenced \ Ahead \subseteq marked
  /\ pc = "sweep" => Referenced \subseteq marked /\ live \ Ahead \subseteq marked
  /\ pc = "unmark" => marked \subseteq Ahead
  /\ pc \in {"idle", "grow", "drop", "dropped"} => marked = {}

\* What is referenced is in the table, and all below a node is, but for a sweep
\* that is half done.
Nodes ==
  /\ pc \notin {"drop", "dropped"} => Referenced \subseteq live
  /\ pc \notin {"sweep", "drop", "dropped"} => Closed(live) /\ numEntry = Cardinality(live)
  /\ pc = "drop" => live \subseteq Ahead
  /\ pc = "dropped" => live = {}

\* A table that grows stays within the bound.
Growth ==
  /\ grows => pc \in {"unmark", "grow"} /\ 2 * size <= MaxSize
  /\ pc = "grow" => grows

Inv ==
  /\ TypeOK /\ FromTable
  /\ WholeLists /\ AheadLists /\ NewLists
  /\ Position /\ Marking /\ Marks /\ Nodes /\ Growth

-----------------------------------------------------------------------------
(* Keys and buckets.                                                       *)

LEMMA KeyParts ==
  ASSUME NEW a \in Addr
  PROVE  /\ KeyAt[a] = <<KeyAt[a][1], KeyAt[a][2], KeyAt[a][3]>>
         /\ KeyAt[a][1] \in Nat /\ KeyAt[a][2] \in Nat /\ KeyAt[a][3] \in Nat
         /\ Children(a) \subseteq Addr
<1>1. KeyAt[a] \in (0 .. NumVars + 1) \X (Addr \union {Null}) \X (Addr \union {Null})
  BY CollectorAssumption
<1>2. Addr \subseteq Nat /\ Null \in Nat /\ 0 .. NumVars + 1 \subseteq Nat
  BY CollectorAssumption DEF Null
<1>3. /\ KeyAt[a] = <<KeyAt[a][1], KeyAt[a][2], KeyAt[a][3]>>
      /\ KeyAt[a][1] \in 0 .. NumVars + 1
      /\ KeyAt[a][2] \in Addr \union {Null} /\ KeyAt[a][3] \in Addr \union {Null}
  BY <1>1
<1> QED
  BY <1>2, <1>3 DEF Children

(* The nodes of a table are ordered by their keys.                         *)
LEMMA LessOrder ==
  ASSUME NEW S, FromTable, S \subseteq live
  PROVE  StrictOrder(S, Less)
<1>1. PICK T \in Tables : live \subseteq T
  BY DEF FromTable
<1>2. S \subseteq Addr /\ \A a, c \in S : KeyAt[a] = KeyAt[c] => a = c
  BY <1>1, TablesAssumption
<1>3. ASSUME NEW a \in S, NEW c \in S
      PROVE  /\ <<a, c>> \in Less <=> KeyLess(KeyAt[a], KeyAt[c])
             /\ a = c \/ KeyLess(KeyAt[a], KeyAt[c]) \/ KeyLess(KeyAt[c], KeyAt[a])
             /\ ~ KeyLess(KeyAt[a], KeyAt[a])
  <2>1. a \in Addr /\ c \in Addr
    BY <1>2
  <2>2. <<a, c>> \in Less <=> KeyLess(KeyAt[a], KeyAt[c])
    BY <2>1 DEF Less
  <2>3. KeyAt[a] # KeyAt[c] => \/ KeyAt[a][1] # KeyAt[c][1] \/ KeyAt[a][2] # KeyAt[c][2]
                               \/ KeyAt[a][3] # KeyAt[c][3]
    BY <2>1, KeyParts
  <2>4. a = c \/ KeyLess(KeyAt[a], KeyAt[c]) \/ KeyLess(KeyAt[c], KeyAt[a])
    BY <1>2, <2>1, <2>3, KeyParts DEF KeyLess
  <2>5. ~ KeyLess(KeyAt[a], KeyAt[a])
    BY <2>1, KeyParts DEF KeyLess
  <2> QED
    BY <2>2, <2>4, <2>5
<1>4. \A a, c, d \in S : KeyLess(KeyAt[a], KeyAt[c]) /\ KeyLess(KeyAt[c], KeyAt[d])
                           => KeyLess(KeyAt[a], KeyAt[d])
  BY <1>2, KeyParts DEF KeyLess
<1> QED
  BY <1>3, <1>4 DEF StrictOrder

(* A node has one bucket.                                                  *)
LEMMA BucketType ==
  ASSUME NEW a \in Addr, NEW n \in Nat \ {0}
  PROVE  BucketOf(a, n) \in 0 .. n - 1
<1>1. PICK h \in Nat : h = Hash(KeyAt[a])
  BY CollectorAssumption
<1>2. h % n \in 0 .. n - 1
  OBVIOUS
<1> QED
  BY <1>1, <1>2 DEF BucketOf

-----------------------------------------------------------------------------
(* Marking.                                                                *)

Onward(s, stop) == s \union ((UNION {Children(a) : a \in s}) \ stop)

\* f has what is below S, one layer after the other.
IsLayered(f, S, stop) ==
  f = [i \in 0 .. NumVars |-> IF i = 0 THEN S ELSE Onward(f[i - 1], stop)]

(* The layers of a marking exist: what the recursive definition defines.   *)
LEMMA LayersExist ==
  ASSUME NEW S, NEW stop
  PROVE  \E f : IsLayered(f, S, stop)
<1> DEFINE Good == {n \in Nat : \E f : f = [i \in 0 .. n |->
                                  IF i = 0 THEN S ELSE Onward(f[i - 1], stop)]}
<1>1. 0 \in Good
  <2> DEFINE f == [i \in 0 .. 0 |-> S]
  <2>1. f = [i \in 0 .. 0 |-> IF i = 0 THEN S ELSE Onward(f[i - 1], stop)]
    OBVIOUS
  <2> QED
    BY <2>1
<1>2. ASSUME NEW k \in 1 .. NumVars, k - 1 \in Good
      PROVE  k \in Good
  <2>1. k \in Nat /\ k - 1 \in Nat /\ k # 0
    BY CollectorAssumption
  <2>2. PICK f : f = [i \in 0 .. k - 1 |-> IF i = 0 THEN S ELSE Onward(f[i - 1], stop)]
    BY <1>2
  <2> DEFINE g == [i \in 0 .. k |-> IF i = k THEN Onward(f[k - 1], stop) ELSE f[i]]
  <2>3. \A i \in 0 .. k : g[i] = IF i = 0 THEN S ELSE Onward(g[i - 1], stop)
    BY <2>1, <2>2
  <2>4. g = [i \in 0 .. k |-> IF i = 0 THEN S ELSE Onward(g[i - 1], stop)]
    BY <2>3
  <2> QED
    BY <2>1, <2>4
<1>3. NumVars \in Good
  <2> HIDE DEF Good
  <2>1. NumVars \in Nat
    BY CollectorAssumption
  <2>2. \A i \in 0 .. NumVars : i \in Good
    BY <1>1, <1>2, <2>1, UpTo
  <2> QED
    BY <2>1, <2>2
<1> QED
  BY <1>3 DEF IsLayered

(* What a layer has, and that the last one is what is below.               *)
LEMMA Layers ==
  ASSUME NEW S, NEW stop
  PROVE  \E f : /\ f[0] = S
                /\ \A i \in 1 .. NumVars : f[i] = Onward(f[i - 1], stop)
                /\ Below(S, stop) = f[NumVars]
<1> DEFINE f == CHOOSE f : f = [i \in 0 .. NumVars |->
                                  IF i = 0 THEN S ELSE Onward(f[i - 1], stop)]
<1>1. f = [i \in 0 .. NumVars |-> IF i = 0 THEN S ELSE Onward(f[i - 1], stop)]
  <2>1. \E g : IsLayered(g, S, stop)
    BY LayersExist
  <2> QED
    BY <2>1, Zenon DEF IsLayered
<1>2. Below(S, stop) = f[NumVars]
  BY DEF Below, Onward
<1> HIDE DEF f
<1>3. f[0] = S /\ \A i \in 1 .. NumVars : f[i] = Onward(f[i - 1], stop)
  BY <1>1, CollectorAssumption
<1> QED
  BY <1>2, <1>3

(* What is below nodes is in every set that has them and, but for what     *)
(* stops the walk, the children of its nodes.                              *)
LEMMA BelowInside ==
  ASSUME NEW S, NEW stop, NEW C, S \subseteq C, \A a \in C : Children(a) \ stop \subseteq C
  PROVE  Below(S, stop) \subseteq C
<1>1. PICK f : /\ f[0] = S
               /\ \A i \in 1 .. NumVars : f[i] = Onward(f[i - 1], stop)
               /\ Below(S, stop) = f[NumVars]
  BY Layers
<1> DEFINE Good == {i \in 0 .. NumVars : f[i] \subseteq C}
<1>2. 0 \in Good
  BY <1>1, CollectorAssumption
<1>3. ASSUME NEW i \in 1 .. NumVars, i - 1 \in Good
      PROVE  i \in Good
  <2>1. f[i - 1] \subseteq C /\ f[i] = Onward(f[i - 1], stop) /\ i \in 0 .. NumVars
    BY <1>1, <1>3, CollectorAssumption
  <2> QED
    BY <2>1 DEF Onward
<1>4. \A i \in 0 .. NumVars : i \in Good
  <2> HIDE DEF Good
  <2> QED
    BY <1>2, <1>3, UpTo, CollectorAssumption
<1> QED
  BY <1>1, <1>4, CollectorAssumption

(* A walk that nothing stops goes at least as far, from as many nodes.     *)
LEMMA BelowMonotone ==
  ASSUME NEW S, NEW stop, NEW R, S \subseteq R
  PROVE  Below(S, stop) \subseteq Below(R, {})
<1>1. PICK f : /\ f[0] = S
               /\ \A i \in 1 .. NumVars : f[i] = Onward(f[i - 1], stop)
               /\ Below(S, stop) = f[NumVars]
  BY Layers
<1>2. PICK g : /\ g[0] = R
               /\ \A i \in 1 .. NumVars : g[i] = Onward(g[i - 1], {})
               /\ Below(R, {}) = g[NumVars]
  BY Layers
<1> DEFINE Good == {i \in 0 .. NumVars : f[i] \subseteq g[i]}
<1>3. 0 \in Good
  BY <1>1, <1>2, CollectorAssumption
<1>4. ASSUME NEW i \in 1 .. NumVars, i - 1 \in Good
      PROVE  i \in Good
  <2>1. /\ f[i - 1] \subseteq g[i - 1] /\ i \in 0 .. NumVars
        /\ f[i] = Onward(f[i - 1], stop) /\ g[i] = Onward(g[i - 1], {})
    BY <1>1, <1>2, <1>4, CollectorAssumption
  <2> QED
    BY <2>1 DEF Onward
<1>5. \A i \in 0 .. NumVars : i \in Good
  <2> HIDE DEF Good
  <2> QED
    BY <1>3, <1>4, UpTo, CollectorAssumption
<1> QED
  BY <1>1, <1>2, <1>5, CollectorAssumption

(* A walk in a table starts at its nodes, keeps off what stops it, and     *)
(* misses no child: levels grow along a path, so that no path is longer    *)
(* than the variables.                                                     *)
LEMMA BelowClosed ==
  ASSUME FromTable, NEW S, S \subseteq live, NEW stop, S \intersect stop = {}
  PROVE  /\ S \subseteq Below(S, stop)
         /\ Below(S, stop) \intersect stop = {}
         /\ \A a \in Below(S, stop) : Children(a) \ stop \subseteq Below(S, stop)
<1>1. PICK f : /\ f[0] = S
               /\ \A i \in 1 .. NumVars : f[i] = Onward(f[i - 1], stop)
               /\ Below(S, stop) = f[NumVars]
  BY Layers
<1>2. PICK T \in Tables : live \subseteq T
  BY DEF FromTable
<1>3. /\ \A a \in T : Children(a) # {} => KeyAt[a][1] < NumVars
      /\ \A a \in T : \A c \in Children(a) :
           c \in T /\ (Children(c) # {} => KeyAt[a][1] < KeyAt[c][1])
      /\ \A a \in T : KeyAt[a][1] \in Nat
  BY <1>2, TablesAssumption, KeyParts
<1>4. NumVars \in Nat
  BY CollectorAssumption
<1> DEFINE Fine(i, a) == \/ Children(a) \ stop \subseteq f[i]
                         \/ Children(a) # {} /\ KeyAt[a][1] >= i
           Good == {i \in 0 .. NumVars :
                      /\ S \subseteq f[i] /\ f[i] \subseteq T /\ f[i] \intersect stop = {}
                      /\ \A a \in f[i] : Fine(i, a)}
<1>5. 0 \in Good
  <2>1. \A a \in f[0] : a \in T /\ KeyAt[a][1] >= 0
    BY <1>1, <1>2, <1>3
  <2>2. \A a \in f[0] : Fine(0, a)
    BY <2>1
  <2> QED
    BY <1>1, <1>2, <1>4, <2>1, <2>2
<1>6. ASSUME NEW i \in 1 .. NumVars, i - 1 \in Good
      PROVE  i \in Good
  <2>1. i \in 0 .. NumVars /\ i \in Nat /\ i - 1 \in Nat
    BY <1>4
  <2>2. f[i] = f[i - 1] \union ((UNION {Children(a) : a \in f[i - 1]}) \ stop)
    BY <1>1 DEF Onward
  <2>3. /\ S \subseteq f[i - 1] /\ f[i - 1] \subseteq T /\ f[i - 1] \intersect stop = {}
        /\ \A a \in f[i - 1] : Fine(i - 1, a)
    BY <1>6
  <2>4. S \subseteq f[i] /\ f[i] \subseteq T /\ f[i] \intersect stop = {}
    BY <1>3, <2>2, <2>3
  <2>5. ASSUME NEW a \in f[i], ~ (Children(a) \ stop \subseteq f[i])
        PROVE  Children(a) # {} /\ KeyAt[a][1] >= i
    <3>1. a \notin f[i - 1]
      BY <2>2, <2>5
    <3>2. PICK c \in f[i - 1] : a \in Children(c) \ stop
      BY <2>2, <3>1
    <3>3. KeyAt[c][1] >= i - 1
      BY <2>3, <3>1, <3>2
    <3>4. KeyAt[c][1] < KeyAt[a][1] /\ KeyAt[c][1] \in Nat /\ KeyAt[a][1] \in Nat
      BY <1>3, <2>3, <2>4, <2>5, <3>2
    <3> QED
      BY <2>1, <2>5, <3>3, <3>4
  <2> QED
    BY <2>1, <2>4, <2>5
<1>7. \A i \in 0 .. NumVars : i \in Good
  <2> HIDE DEF Good
  <2> QED
    BY <1>4, <1>5, <1>6, UpTo
<1>8. NumVars \in Good
  BY <1>4, <1>7
<1>9. ASSUME NEW a \in f[NumVars]
      PROVE  Children(a) \ stop \subseteq f[NumVars]
  <2>1. a \in T /\ Fine(NumVars, a)
    BY <1>8
  <2>2. ~ (Children(a) # {} /\ KeyAt[a][1] >= NumVars)
    BY <1>3, <1>4, <2>1
  <2> QED
    BY <2>1, <2>2
<1> QED
  BY <1>1, <1>8, <1>9

-----------------------------------------------------------------------------
(* Loops.                                                                  *)

(* A loop that begins a bucket has all of it ahead.                        *)
LEMMA AheadList ==
  ASSUME NEW S, S \subseteq Addr, StrictOrder(S, Less), NEW n \in Nat \ {0}, NEW i \in Nat,
         NEW c, NEW nexts, Chained(Chain(S, i, n), c, nexts, Less, Null)
  PROVE  AheadOf(S, n, i, c) = {a \in S : BucketOf(a, n) >= i}
<1>1. ASSUME NEW a \in S
      PROVE  /\ BucketOf(a, n) \in Nat
             /\ BucketOf(a, n) = i => c # Null /\ (a = c \/ <<c, a>> \in Less)
  <2>1. BucketOf(a, n) \in Nat
    BY BucketType
  <2>2. ASSUME BucketOf(a, n) = i
        PROVE  c # Null /\ (a = c \/ <<c, a>> \in Less)
    <3>1. a \in Chain(S, i, n)
      BY <2>2 DEF Chain
    <3>2. c # Null /\ <<a, c>> \notin Less /\ c \in Chain(S, i, n)
      BY <3>1 DEF Chained
    <3> QED
      BY <3>2 DEF StrictOrder, Chain
  <2> QED
    BY <2>1, <2>2
<1> QED
  BY <1>1 DEF AheadOf

(* A loop that ends a bucket has the later ones ahead, and none at the end. *)
LEMMA AheadEnd ==
  ASSUME NEW S, NEW n, NEW i
  PROVE  AheadOf(S, n, i, Null) = {a \in S : BucketOf(a, n) > i}
BY DEF AheadOf

LEMMA AheadOver ==
  ASSUME NEW S, S \subseteq Addr, NEW n \in Nat \ {0}, NEW i \in 0 .. n - 1,
         i + 1 \notin 0 .. n - 1
  PROVE  AheadOf(S, n, i, Null) = {}
<1>1. \A a \in S : BucketOf(a, n) \in 0 .. n - 1
  BY BucketType
<1> QED
  BY <1>1, AheadEnd

(* A loop that follows a pointer leaves one node behind, whether the node  *)
(* stays or is freed.                                                      *)
LEMMA AheadStep ==
  ASSUME NEW S, S \subseteq Addr, StrictOrder(S, Less), NEW n \in Nat \ {0}, NEW i \in Nat,
         NEW c \in S, BucketOf(c, n) = i, NEW d,
         d # Null => d \in S /\ <<c, d>> \in Less,
         \A m \in S : BucketOf(m, n) = i /\ <<c, m>> \in Less => d # Null /\ <<m, d>> \notin Less
  PROVE  /\ AheadOf(S, n, i, d) = AheadOf(S, n, i, c) \ {c}
         /\ AheadOf(S \ {c}, n, i, d) = AheadOf(S, n, i, c) \ {c}
<1>1. c # Null /\ \A a \in S : BucketOf(a, n) \in Nat
  BY BucketType, CollectorAssumption
<1>5. <<c, c>> \notin Less
  BY DEF StrictOrder
<1>6. ASSUME NEW a \in S, BucketOf(a, n) = i
      PROVE  d # Null /\ (a = d \/ <<d, a>> \in Less) <=> <<c, a>> \in Less
  BY <1>6 DEF StrictOrder
<1>7. ASSUME NEW a \in S
      PROVE  a \in AheadOf(S, n, i, d) <=> a \in AheadOf(S, n, i, c) \ {c}
  <2>1. CASE BucketOf(a, n) = i
    <3>1. a \in AheadOf(S, n, i, d) <=> <<c, a>> \in Less
      BY <1>1, <1>6, <2>1 DEF AheadOf
    <3>2. a \in AheadOf(S, n, i, c) \ {c} <=> <<c, a>> \in Less
      BY <1>1, <1>5, <2>1 DEF AheadOf
    <3> QED
      BY <3>1, <3>2
  <2>2. CASE BucketOf(a, n) # i
    BY <2>2 DEF AheadOf
  <2> QED
    BY <2>1, <2>2
<1>8. AheadOf(S, n, i, d) = AheadOf(S, n, i, c) \ {c}
  <2>1. AheadOf(S, n, i, d) \subseteq S /\ AheadOf(S, n, i, c) \subseteq S
    BY DEF AheadOf
  <2> QED
    BY <1>7, <2>1
<1>9. AheadOf(S \ {c}, n, i, d) = AheadOf(S, n, i, d) \ {c}
  BY DEF AheadOf
<1> QED
  BY <1>8, <1>9

-----------------------------------------------------------------------------
(* The initial states.                                                     *)

LEMMA FirstLeast ==
  ASSUME NEW S, S \subseteq Addr, StrictOrder(S, Less)
  PROVE  IsLeast(First(S), S, Less, Null)
<1>1. CASE S = {}
  BY <1>1 DEF First, IsLeast
<1>2. CASE S # {}
  <2>1. IsFiniteSet(S)
    BY FS_Subset, CollectorAssumption
  <2>2. \E a \in S : \A c \in S \ {a} : <<a, c>> \in Less
    BY <1>2, <2>1, OrderLeast
  <2>3. \A a, c \in S : <<a, c>> \in Less <=> KeyLess(KeyAt[a], KeyAt[c])
    BY DEF Less
  <2>4. \E a \in S : \A c \in S \ {a} : KeyLess(KeyAt[a], KeyAt[c])
    BY <2>2, <2>3
  <2>5. First(S) \in S /\ \A c \in S \ {First(S)} : KeyLess(KeyAt[First(S)], KeyAt[c])
    BY <1>2, <2>4 DEF First
  <2> QED
    BY <1>2, <2>3, <2>5 DEF IsLeast
<1> QED
  BY <1>1, <1>2

LEMMA InOrderLeast ==
  ASSUME NEW S, S \subseteq Addr, StrictOrder(S, Less), NEW a \in S
  PROVE  IsLeast(InOrder(S)[a], {c \in S : <<a, c>> \in Less}, Less, Null)
<1> DEFINE above == {c \in S : KeyLess(KeyAt[a], KeyAt[c])}
<1>1. above = {c \in S : <<a, c>> \in Less} /\ above \subseteq S
  BY DEF Less
<1>2. InOrder(S)[a] =
        IF above = {} THEN Null
        ELSE CHOOSE c \in above : \A d \in above \ {c} : KeyLess(KeyAt[c], KeyAt[d])
  BY DEF InOrder
<1>3. InOrder(S)[a] = First(above)
  BY <1>2 DEF First
<1>4. IsLeast(First(above), above, Less, Null)
  <2>1. StrictOrder(above, Less) /\ above \subseteq Addr
    BY <1>1, OrderInside
  <2> HIDE DEF above
  <2> QED
    BY <2>1, FirstLeast
<1> QED
  BY <1>1, <1>3, <1>4

LEMMA Finite ==
  ASSUME NEW S, S \subseteq Addr
  PROVE  IsFiniteSet(S) /\ Cardinality(S) \in Nat
BY FS_Subset, FS_CardinalityType, CollectorAssumption

LEMMA InitInv == Init => Inv
<1> SUFFICES ASSUME Init
             PROVE  Inv
  OBVIOUS
<1>1. live \in Tables /\ live \subseteq Addr /\ Boot \subseteq live
  BY TablesAssumption DEF Init
<1>2. FromTable
  BY <1>1 DEF FromTable
<1>3. size = InitSize /\ size \in Nat \ {0} /\ 0 \in Buckets /\ Buckets = 0 .. InitSize - 1
  BY CollectorAssumption DEF Init, Buckets
<1>4. ASSUME NEW i \in Buckets
      PROVE  /\ head[i] \in Ptr
             /\ Chained(Chain(live, i, size), head[i], next, Less, Null)
  <2> DEFINE S == Chain(live, i, size)
  <2>1. S \subseteq live /\ S \subseteq Addr /\ Null \notin S
    BY <1>1, CollectorAssumption DEF Chain
  <2>2. StrictOrder(S, Less)
    BY <1>2, <2>1, LessOrder
  <2>3. head[i] = First(S)
    BY <1>3 DEF Init, Chain
  <2>4. ASSUME NEW a \in S
        PROVE  next[a] = InOrder(S)[a]
    <3>1. a \in live /\ BucketOf(a, InitSize) = i /\ a \in Addr
      BY <1>1, <1>3 DEF Chain
    <3> QED
      BY <1>3, <3>1 DEF Init, Chain
  <2> HIDE DEF S
  <2>5. IsLeast(head[i], S, Less, Null)
    BY <2>1, <2>2, <2>3, FirstLeast
  <2>6. \A a \in S : IsLeast(next[a], {c \in S : <<a, c>> \in Less}, Less, Null)
    BY <2>1, <2>2, <2>4, InOrderLeast
  <2>7. Chained(S, head[i], next, Less, Null)
    BY <2>1, <2>2, <2>5, <2>6, ChainMade
  <2>8. head[i] \in Ptr
    BY <2>1, <2>5 DEF IsLeast, Ptr
  <2> QED
    BY <2>7, <2>8 DEF S
<1>5. ASSUME NEW a \in Addr
      PROVE  next[a] \in Ptr
  <2>1. CASE a \in live
    <3> DEFINE S == Chain(live, BucketOf(a, size), size)
    <3>1. BucketOf(a, size) \in Buckets
      BY <1>3, BucketType DEF Buckets
    <3>2. Chained(S, head[BucketOf(a, size)], next, Less, Null)
      BY <1>4, <3>1
    <3>3. a \in S /\ S \subseteq Addr
      BY <1>1, <2>1 DEF Chain
    <3> HIDE DEF S
    <3> QED
      BY <3>2, <3>3 DEF Chained, Ptr
  <2>2. CASE a \notin live
    BY <2>2 DEF Init, Ptr
  <2> QED
    BY <2>1, <2>2
<1>6. /\ head \in [Buckets -> Ptr] /\ next \in [Addr -> Ptr]
  <2>1. /\ head = [i \in Buckets |-> head[i]]
        /\ next = [a \in Addr |-> next[a]]
    BY DEF Init
  <2> QED
    BY <1>4, <1>5, <2>1
<1>7. refCnt \in [Addr -> 0 .. MaxRef] /\ Referenced \subseteq live
  <2>1. refCnt \in [Addr -> 0 .. MaxRef]
    BY DEF Init
  <2>2. \A a \in Addr : a \notin Boot /\ a \notin live => refCnt[a] = 0
    BY DEF Init
  <2> QED
    BY <1>1, <2>1, <2>2 DEF Referenced
<1>8. Cardinality(live) \in Nat /\ Cardinality({}) = 0
  BY <1>1, Finite, FS_EmptySet
<1>9. newHead \in [0 .. 2 * size - 1 -> Ptr]
  BY <1>3 DEF Init, Ptr
<1>10. TypeOK
  <2>1. size \in InitSize .. MaxSize
    BY <1>3, CollectorAssumption
  <2>2. /\ live \in SUBSET Addr /\ marked \in SUBSET live /\ held \in SUBSET Addr
        /\ {numEntry, numMarks} \subseteq Nat
    BY <1>1, <1>8 DEF Init
  <2>3. /\ pc = "idle" /\ grows \in BOOLEAN
        /\ b \in Buckets /\ {prev, curr} \subseteq Ptr
    BY <1>3 DEF Init, Ptr
  <2> QED
    BY <1>6, <1>7, <1>9, <2>1, <2>2, <2>3 DEF TypeOK
<1>11. Closed(live)
  BY <1>1, TablesAssumption DEF Closed
<1> QED
  BY <1>2, <1>4, <1>7, <1>8, <1>10, <1>11
     DEF Init, Inv, WholeLists, AheadLists, NewLists, Position, Marking, Marks, Nodes, Growth

-----------------------------------------------------------------------------
(* Steps that leave the lists alone.                                       *)

LEMMA Facts ==
  ASSUME Inv
  PROVE  /\ live \subseteq Addr /\ Null \notin Addr /\ StrictOrder(live, Less)
         /\ size \in Nat \ {0} /\ Buckets = 0 .. size - 1
         /\ b \in Nat /\ b \in 0 .. size - 1 /\ Ahead \subseteq live
         /\ marked \subseteq live /\ 0 \in Buckets
<1>1. live \subseteq Addr /\ Null \notin Addr /\ marked \subseteq live
  BY CollectorAssumption DEF Inv, TypeOK
<1>2. StrictOrder(live, Less)
  BY LessOrder DEF Inv
<1>3. size \in Nat \ {0}
  BY CollectorAssumption DEF Inv, TypeOK
<1>4. Buckets = 0 .. size - 1 /\ b \in Buckets
  BY DEF Buckets, Inv, TypeOK
<1> QED
  BY <1>1, <1>2, <1>3, <1>4 DEF Ahead, AheadOf

LEMMA StutterStep ==
  ASSUME Inv, UNCHANGED vars
  PROVE  Inv'
<1> USE DEF vars, tableVars, markVars, sizeVars, walkVars, callVars
<1>1. TypeOK' /\ FromTable'
  BY DEF Inv, TypeOK, FromTable, Buckets
<1>2. Ahead' = Ahead /\ Referenced' = Referenced
  BY DEF Ahead, Referenced
<1>3. WholeLists' /\ AheadLists' /\ NewLists'
  BY <1>2 DEF Inv, WholeLists, AheadLists, NewLists, Buckets
<1>4. Position' /\ Growth'
  BY DEF Inv, Position, Growth
<1>5. Marking'
  BY DEF Inv, Marking
<1>6. Marks' /\ Nodes'
  BY <1>2 DEF Inv, Marks, Nodes
<1> QED
  BY <1>1, <1>3, <1>4, <1>5, <1>6 DEF Inv

(* References are only dropped, but for those of what has some already.    *)
LEMMA ClientStep ==
  ASSUME Inv, NEW a \in Addr, Ref(a) \/ Deref(a)
  PROVE  Inv'
<1> USE DEF tableVars, markVars, sizeVars, walkVars, callVars
<1>1. UNCHANGED <<live, head, next, marked, numMarks, held, walkVars, sizeVars, callVars, numEntry>>
  BY DEF Ref, Deref
<1>2. refCnt' \in [Addr -> 0 .. MaxRef] /\ Referenced' \subseteq Referenced
  <2>1. refCnt \in [Addr -> 0 .. MaxRef] /\ MaxRef \in Nat
    BY CollectorAssumption DEF Inv, TypeOK
  <2>2. CASE Ref(a)
    BY <2>1, <2>2 DEF Ref, Referenced
  <2>3. CASE Deref(a)
    BY <2>1, <2>3 DEF Deref, Referenced
  <2> QED
    BY <2>2, <2>3
<1>3. TypeOK' /\ FromTable'
  BY <1>1, <1>2 DEF Inv, TypeOK, FromTable, Buckets
<1>4. Ahead' = Ahead
  BY <1>1 DEF Ahead
<1>5. WholeLists' /\ AheadLists' /\ NewLists'
  BY <1>1, <1>4 DEF Inv, WholeLists, AheadLists, NewLists, Buckets
<1>6. Position' /\ Growth'
  BY <1>1 DEF Inv, Position, Growth
<1>7. Marking'
  BY <1>1 DEF Inv, Marking
<1>8. Marks' /\ Nodes'
  BY <1>1, <1>2, <1>4 DEF Inv, Marks, Nodes
<1> QED
  BY <1>3, <1>5, <1>6, <1>7, <1>8 DEF Inv

(* A function that begins has every node ahead.                            *)
LEMMA RunAhead ==
  ASSUME Inv, pc \in {"idle", "mark", "sweep", "unmark"}
  PROVE  /\ AheadOf(live, size, 0, head[0]) = live
         /\ head[0] \in Ptr
         /\ head[0] # Null => head[0] \in live /\ BucketOf(head[0], size) = 0
<1>1. Chained(Chain(live, 0, size), head[0], next, Less, Null)
  BY Facts DEF Inv, WholeLists
<1>2. AheadOf(live, size, 0, head[0]) = {a \in live : BucketOf(a, size) >= 0}
  BY <1>1, Facts, AheadList
<1>3. \A a \in live : BucketOf(a, size) >= 0
  <2>1. \A a \in live : BucketOf(a, size) \in 0 .. size - 1
    BY Facts, BucketType
  <2> QED
    BY <2>1, Facts
<1>4. AheadOf(live, size, 0, head[0]) = live
  BY <1>2, <1>3, Facts
<1>5. head[0] \in Chain(live, 0, size) \union {Null}
  BY <1>1 DEF Chained
<1>6. head[0] # Null => head[0] \in live /\ BucketOf(head[0], size) = 0
  BY <1>5 DEF Chain
<1> QED
  BY <1>4, <1>6, Facts DEF Ptr

(* A function that is over has visited every node.                         *)
LEMMA OverAhead ==
  ASSUME Inv, curr = Null, b + 1 \notin Buckets
  PROVE  Ahead = {}
BY Facts, AheadOver DEF Ahead

LEMMA BeginStep ==
  ASSUME Inv, Begin
  PROVE  Inv'
<1> USE DEF Begin, Run, WalkFrom, tableVars, sizeVars
<1>1. AheadOf(live, size, 0, head[0]) = live /\ head[0] \in Ptr
      /\ (head[0] # Null => head[0] \in live /\ BucketOf(head[0], size) = 0)
  BY RunAhead
<1>2. Ahead' = live' /\ Referenced' = Referenced
  BY <1>1 DEF Ahead, Referenced
<1>3. marked = {} /\ Referenced \subseteq live /\ ~ grows
  BY DEF Inv, Marks, Nodes, Growth
<1>4. TypeOK'
  BY <1>1, Facts DEF Inv, TypeOK, Buckets, Ptr
<1>5. FromTable'
  BY DEF Inv, FromTable
<1>6. WholeLists' /\ AheadLists' /\ NewLists'
  BY DEF Inv, WholeLists, AheadLists, NewLists, Buckets
<1>7. Position' /\ Growth'
  BY <1>1, <1>3 DEF Position, Growth
<1>8. Marking'
  BY <1>3, FS_EmptySet DEF Marking, Closed
<1>9. Marks' /\ Nodes'
  BY <1>2, <1>3 DEF Inv, Marks, Nodes, Referenced
<1> QED
  BY <1>4, <1>5, <1>6, <1>7, <1>8, <1>9 DEF Inv

LEMMA BeginDropStep ==
  ASSUME Inv, BeginDrop
  PROVE  Inv'
<1> USE DEF BeginDrop, Run, WalkFrom, tableVars, sizeVars, markVars
<1>1. AheadOf(live, size, 0, head[0]) = live /\ head[0] \in Ptr
      /\ (head[0] # Null => head[0] \in live /\ BucketOf(head[0], size) = 0)
  BY RunAhead
<1>2. Ahead' = live'
  BY <1>1 DEF Ahead
<1>3. marked = {} /\ ~ grows
  BY DEF Inv, Marks, Growth
<1>4. TypeOK'
  BY <1>1, Facts DEF Inv, TypeOK, Buckets, Ptr
<1>5. FromTable'
  BY DEF Inv, FromTable
<1>6. AheadLists'
  BY <1>2 DEF Inv, WholeLists, AheadLists, Buckets
<1>7. WholeLists' /\ NewLists' /\ Marking'
  BY DEF WholeLists, NewLists, Marking
<1>8. Position' /\ Growth'
  BY <1>1, <1>3 DEF Position, Growth
<1>9. Marks' /\ Nodes'
  BY <1>2, <1>3 DEF Inv, Marks, Nodes
<1> QED
  BY <1>4, <1>5, <1>6, <1>7, <1>8, <1>9 DEF Inv

LEMMA MarkedStep ==
  ASSUME Inv, Marked
  PROVE  Inv'
<1> USE DEF Marked, Over, Run, WalkFrom, tableVars, sizeVars, markVars
<1>1. AheadOf(live, size, 0, head[0]) = live /\ head[0] \in Ptr
      /\ (head[0] # Null => head[0] \in live /\ BucketOf(head[0], size) = 0)
  BY RunAhead
<1>2. Ahead' = live' /\ Referenced' = Referenced /\ Ahead = {}
  BY <1>1, OverAhead DEF Ahead, Referenced
<1>3. Referenced \subseteq marked /\ marked \subseteq live
  BY <1>2, Facts DEF Inv, Marks
<1>4. TypeOK'
  BY <1>1, Facts DEF Inv, TypeOK, Buckets, Ptr
<1>5. FromTable'
  BY DEF Inv, FromTable
<1>6. WholeLists' /\ AheadLists' /\ NewLists'
  BY DEF Inv, WholeLists, AheadLists, NewLists, Buckets
<1>7. Position' /\ Growth'
  BY <1>1 DEF Position, Growth
<1>8. Marking'
  BY DEF Inv, Marking
<1>9. Marks' /\ Nodes'
  BY <1>2, <1>3 DEF Inv, Marks, Nodes
<1> QED
  BY <1>4, <1>5, <1>6, <1>7, <1>8, <1>9 DEF Inv

LEMMA SweptStep ==
  ASSUME Inv, Swept
  PROVE  Inv'
<1> USE DEF Swept, Over, Run, WalkFrom, tableVars, sizeVars, markVars
<1>1. AheadOf(live, size, 0, head[0]) = live /\ head[0] \in Ptr
      /\ (head[0] # Null => head[0] \in live /\ BucketOf(head[0], size) = 0)
  BY RunAhead
<1>2. Ahead' = live' /\ Referenced' = Referenced /\ Ahead = {}
  BY <1>1, OverAhead DEF Ahead, Referenced
<1>3. /\ Referenced \subseteq live /\ marked = live /\ ~ grows
      /\ numMarks = Cardinality(live) /\ Closed(live)
  <2>1. Referenced \subseteq marked /\ live \ Ahead \subseteq marked /\ marked \subseteq live
    BY Facts DEF Inv, Marks
  <2>2. numMarks = Cardinality(marked) /\ Closed(marked)
    BY DEF Inv, Marking
  <2>3. marked = live
    BY <1>2, <2>1
  <2>4. ~ grows
    BY DEF Inv, Growth
  <2> QED
    BY <2>1, <2>2, <2>3, <2>4
<1>4. TypeOK'
  BY <1>1, Facts DEF Inv, TypeOK, Buckets, Ptr
<1>5. FromTable'
  BY DEF Inv, FromTable
<1>6. WholeLists' /\ AheadLists' /\ NewLists'
  BY DEF Inv, WholeLists, AheadLists, NewLists, Buckets
<1>7. Position' /\ Growth' /\ Marking'
  BY <1>1, <1>3 DEF Position, Growth, Marking
<1>8. Marks'
  BY <1>2, <1>3 DEF Marks
<1>9. Nodes'
  BY <1>2, <1>3 DEF Nodes, Closed
<1> QED
  BY <1>4, <1>5, <1>6, <1>7, <1>8, <1>9 DEF Inv

LEMMA DroppedStep ==
  ASSUME Inv, Dropped
  PROVE  Inv'
<1> USE DEF Dropped, Over, tableVars, sizeVars, markVars, walkVars
<1>1. live = {} /\ marked = {} /\ ~ grows
  BY OverAhead DEF Inv, Nodes, Marks, Growth
<1>2. TypeOK'
  BY DEF Inv, TypeOK, Buckets
<1>3. FromTable'
  BY DEF Inv, FromTable
<1>4. WholeLists' /\ AheadLists' /\ NewLists' /\ Marking'
  BY DEF WholeLists, AheadLists, NewLists, Marking
<1>5. Position' /\ Growth'
  BY <1>1 DEF Inv, Position, Growth
<1>6. Marks' /\ Nodes'
  BY <1>1 DEF Marks, Nodes
<1> QED
  BY <1>2, <1>3, <1>4, <1>5, <1>6 DEF Inv

LEMMA UnmarkedStep ==
  ASSUME Inv, Unmarked
  PROVE  Inv'
<1> USE DEF Unmarked, Over, tableVars, markVars
<1>1. AheadOf(live, size, 0, head[0]) = live /\ head[0] \in Ptr
      /\ (head[0] # Null => head[0] \in live /\ BucketOf(head[0], size) = 0)
  BY RunAhead
<1>2. marked = {} /\ Ahead = {} /\ Referenced' = Referenced
  BY OverAhead DEF Inv, Marks, Referenced
<1>3. newHead' \in [0 .. 2 * size' - 1 -> Ptr] /\ \A j \in 0 .. 2 * size - 1 : newHead'[j] = Null
  BY Facts DEF Ptr
<1>4. FromTable'
  BY DEF Inv, FromTable
<1>5. Closed(live) /\ numEntry = Cardinality(live) /\ Referenced \subseteq live
  BY DEF Inv, Nodes
<1>6. CASE grows
  <2> USE DEF Run, WalkFrom
  <2>1. Ahead' = live'
    BY <1>1, <1>6 DEF Ahead
  <2>2. TypeOK'
    BY <1>1, <1>3, <1>6, Facts DEF Inv, TypeOK, Buckets
  <2>3. WholeLists' /\ Marking'
    BY <1>6 DEF WholeLists, Marking
  <2>4. AheadLists'
    BY <1>6, <2>1 DEF Inv, WholeLists, AheadLists, Buckets
  <2>5. NewLists'
    <3> SUFFICES ASSUME NEW j \in 0 .. 2 * size' - 1
                 PROVE  Chained(Chain(live \ Ahead, j, 2 * size), newHead[j], next, Less, Null)'
      BY DEF NewLists
    <3>1. newHead'[j] = Null
      BY <1>3
    <3>2. \A c \in live' \ Ahead' : FALSE
      BY <2>1
    <3> QED
      BY <3>1, <3>2 DEF Chained, Chain
  <2>6. Position' /\ Growth'
    BY <1>1, <1>6 DEF Inv, Position, Growth
  <2>7. Marks' /\ Nodes'
    BY <1>2, <1>5, <1>6 DEF Marks, Nodes, Closed
  <2> QED
    BY <1>4, <2>2, <2>3, <2>4, <2>5, <2>6, <2>7 DEF Inv
<1>7. CASE ~ grows
  <2> USE DEF Finish
  <2>2. TypeOK'
    BY <1>3, <1>7, Facts DEF Inv, TypeOK, Buckets, Ptr
  <2>3. WholeLists'
    BY <1>7 DEF Inv, WholeLists, Buckets
  <2>4. AheadLists' /\ NewLists' /\ Marking'
    BY <1>7 DEF AheadLists, NewLists, Marking
  <2>6. Position' /\ Growth'
    BY <1>7 DEF Position, Growth
  <2>7. Marks' /\ Nodes'
    BY <1>2, <1>5, <1>7 DEF Marks, Nodes, Closed
  <2> QED
    BY <1>4, <2>2, <2>3, <2>4, <2>6, <2>7 DEF Inv
<1> QED
  BY <1>6, <1>7

LEMMA GrownStep ==
  ASSUME Inv, Grown
  PROVE  Inv'
<1> USE DEF Grown, Over, Finish, markVars
<1>1. Ahead = {} /\ marked = {} /\ grows /\ 2 * size <= MaxSize
  BY OverAhead DEF Inv, Marks, Growth
<1>2. live \ Ahead = live
  BY <1>1
<1>3. size \in Nat \ {0} /\ size \in InitSize .. MaxSize /\ InitSize \in Nat \ {0} /\ MaxSize \in Nat
  BY Facts, CollectorAssumption DEF Inv, TypeOK
<1>4. size' \in InitSize .. MaxSize /\ 2 * size' = 4 * size /\ 0 \in Buckets'
      /\ Buckets' = 0 .. 2 * size - 1
  BY <1>1, <1>3 DEF Buckets
<1>5. newHead' \in [0 .. 2 * size' - 1 -> Ptr] /\ head' \in [Buckets' -> Ptr]
  BY <1>4 DEF Inv, TypeOK, Ptr
<1>6. TypeOK'
  BY <1>4, <1>5 DEF Inv, TypeOK, Ptr
<1>7. FromTable'
  BY DEF Inv, FromTable
<1>8. WholeLists'
  BY <1>2, <1>4 DEF Inv, NewLists, WholeLists
<1>9. AheadLists' /\ NewLists' /\ Marking' /\ Position' /\ Growth'
  BY DEF AheadLists, NewLists, Marking, Position, Growth
<1>10. Closed(live) /\ numEntry = Cardinality(live) /\ Referenced \subseteq live
  BY DEF Inv, Nodes
<1>11. Marks' /\ Nodes'
  BY <1>1, <1>10 DEF Marks, Nodes, Closed, Referenced
<1> QED
  BY <1>6, <1>7, <1>8, <1>9, <1>11 DEF Inv

LEMMA NextBucketStep ==
  ASSUME Inv, NextBucket
  PROVE  Inv'
<1> USE DEF NextBucket, WalkFrom, tableVars, markVars, sizeVars, callVars
<1>1. /\ b' \in 0 .. size - 1 /\ b' = b + 1 /\ b' \in Nat
      /\ curr' = head[b'] /\ curr = Null /\ size' = size /\ live' = live
  BY Facts
<1>2. pc \in {"mark", "sweep", "unmark", "grow", "drop"}
  BY DEF Inv, TypeOK
<1>3. \A a \in live : BucketOf(a, size) \in Nat
  BY Facts, BucketType
<1>4. Ahead = {a \in live : BucketOf(a, size) >= b'}
  BY <1>1, <1>3, Facts, AheadEnd DEF Ahead
<1>5. Chain(Ahead, b', size) = Chain(live, b', size)
  BY <1>1, <1>4 DEF Chain
<1>6. Chained(Chain(live, b', size), head[b'], next, Less, Null)
  <2>1. CASE pc \in {"mark", "sweep", "unmark"}
    BY <1>1, <2>1, Facts DEF Inv, WholeLists
  <2>2. CASE pc \in {"grow", "drop"}
    <3>1. b' \in b .. size - 1 /\ b' # b
      BY <1>1, Facts
    <3>2. Chained(Chain(Ahead, b', size), head[b'], next, Less, Null)
      BY <2>2, <3>1 DEF Inv, AheadLists
    <3> QED
      BY <1>5, <3>2
  <2> QED
    BY <1>2, <2>1, <2>2
<1>7. Ahead' = Ahead
  <2>1. AheadOf(live, size, b', head[b']) = {a \in live : BucketOf(a, size) >= b'}
    BY <1>1, <1>6, Facts, AheadList
  <2> QED
    BY <1>1, <1>4, <2>1 DEF Ahead
<1>8. curr' \in Ptr /\ (curr' # Null => curr' \in live /\ BucketOf(curr', size) = b')
  BY <1>1, <1>6, Facts DEF Chained, Chain, Ptr
<1>9. Referenced' = Referenced
  BY DEF Referenced
<1>10. TypeOK'
  BY <1>1, <1>8, Facts DEF Inv, TypeOK, Buckets, Ptr
<1>11. FromTable'
  BY DEF Inv, FromTable
<1>12. WholeLists'
  BY DEF Inv, WholeLists, Buckets
<1>13. AheadLists'
  <2> SUFFICES ASSUME pc \in {"grow", "drop"}, NEW i \in b' .. size - 1
               PROVE  Chained(Chain(Ahead, i, size), IF i = b' THEN head[b'] ELSE head[i],
                              next, Less, Null)
    BY <1>1, <1>7 DEF AheadLists
  <2>1. i \in b .. size - 1 /\ i # b
    BY <1>1, Facts
  <2> QED
    BY <2>1 DEF Inv, AheadLists
<1>14. NewLists'
  BY <1>1, <1>7 DEF Inv, NewLists
<1>15. Position'
  BY <1>1, <1>2, <1>8 DEF Position
<1>16. Growth' /\ Marking'
  BY DEF Inv, Growth, Marking
<1>17. Marks' /\ Nodes'
  BY <1>7, <1>9 DEF Inv, Marks, Nodes
<1> QED
  BY <1>10, <1>11, <1>12, <1>13, <1>14, <1>15, <1>16, <1>17 DEF Inv

-----------------------------------------------------------------------------
(* Steps to the next node of a list.                                       *)

(* Where the running loop is after it has followed a pointer.              *)
LEMMA StepAhead ==
  ASSUME Inv, curr # Null, pc \in {"mark", "sweep", "unmark", "grow", "drop"}
  PROVE  /\ curr \in live /\ BucketOf(curr, size) = b
         /\ AheadOf(live, size, b, next[curr]) = Ahead \ {curr}
         /\ AheadOf(live \ {curr}, size, b, next[curr]) = Ahead \ {curr}
         /\ curr \in Ahead
         /\ next[curr] \in Ptr
         /\ next[curr] # Null => next[curr] \in live \ {curr} /\ BucketOf(next[curr], size) = b
<1>1. curr \in live /\ BucketOf(curr, size) = b
  BY DEF Inv, Position
<1>2. curr \in Ahead
  BY <1>1 DEF Ahead, AheadOf
<1>3. PICK R, first : /\ R \subseteq Chain(live, b, size)
                      /\ Chain(Ahead, b, size) \subseteq R
                      /\ Chained(R, first, next, Less, Null)
  <2>1. Chain(Ahead, b, size) \subseteq Chain(live, b, size)
    BY Facts DEF Chain
  <2>2. CASE pc \in {"mark", "sweep", "unmark"}
    <3>1. Chained(Chain(live, b, size), head[b], next, Less, Null)
      BY <2>2, Facts DEF Inv, WholeLists
    <3> QED
      BY <2>1, <3>1
  <2>3. CASE pc \in {"grow", "drop"}
    <3>1. b \in b .. size - 1
      BY Facts
    <3>2. Chained(Chain(Ahead, b, size), curr, next, Less, Null)
      BY <2>3, <3>1 DEF Inv, AheadLists
    <3> QED
      BY <2>1, <3>2
  <2> QED
    BY <2>2, <2>3
<1>4. curr \in R
  BY <1>1, <1>2, <1>3 DEF Chain
<1>5. /\ next[curr] \in R \union {Null}
      /\ next[curr] # Null => <<curr, next[curr]>> \in Less
  BY <1>3, <1>4 DEF Chained
<1>6. <<curr, curr>> \notin Less
  BY <1>1, Facts DEF StrictOrder
<1>7. next[curr] # Null => next[curr] \in live \ {curr} /\ BucketOf(next[curr], size) = b
  BY <1>3, <1>5, <1>6 DEF Chain
<1>8. /\ AheadOf(live, size, b, next[curr]) = Ahead \ {curr}
      /\ AheadOf(live \ {curr}, size, b, next[curr]) = Ahead \ {curr}
  <2>1. ASSUME NEW m \in live, BucketOf(m, size) = b, <<curr, m>> \in Less
        PROVE  next[curr] # Null /\ <<m, next[curr]>> \notin Less
    <3>1. m \in R
      BY <1>3, <2>1 DEF Ahead, AheadOf, Chain
    <3> QED
      BY <1>3, <1>4, <2>1, <3>1 DEF Chained
  <2>2. /\ live \subseteq Addr /\ StrictOrder(live, Less) /\ size \in Nat \ {0} /\ b \in Nat
    BY Facts
  <2>3. /\ AheadOf(live, size, b, next[curr]) = AheadOf(live, size, b, curr) \ {curr}
        /\ AheadOf(live \ {curr}, size, b, next[curr]) = AheadOf(live, size, b, curr) \ {curr}
    BY <1>1, <1>5, <1>7, <2>1, <2>2, AheadStep
  <2> QED
    BY <2>3 DEF Ahead
<1> QED
  BY <1>1, <1>2, <1>7, <1>8, Facts DEF Ptr

(* A node is marked with all below it that is not marked yet.              *)
LEMMA MarkGrows ==
  ASSUME Inv, pc = "mark", curr # Null, refCnt[curr] # 0, curr \notin marked
  PROVE  /\ marked \union MarkRec(curr) \subseteq live
         /\ curr \in MarkRec(curr)
         /\ Closed(marked \union MarkRec(curr))
         /\ Cardinality(marked \union MarkRec(curr)) = numMarks + Cardinality(MarkRec(curr))
         /\ numMarks + Cardinality(MarkRec(curr)) \in Nat
         /\ MarkRec(curr) \subseteq Below(held, {})
<1>1. curr \in live /\ curr \in Addr
  BY StepAhead, Facts
<1>2. Closed(marked) /\ numMarks = Cardinality(marked) /\ Closed(live)
      /\ Referenced \subseteq held
  BY DEF Inv, Marking, Marks, Nodes
<1> DEFINE M == Below({curr}, marked)
<1>3. /\ {curr} \subseteq M /\ M \intersect marked = {}
      /\ \A a \in M : Children(a) \ marked \subseteq M
  BY <1>1, BelowClosed DEF Inv
<1>4. M \subseteq live
  BY <1>1, <1>2, BelowInside DEF Closed
<1>5. M \subseteq Below(held, {})
  <2>1. {curr} \subseteq held
    BY <1>1, <1>2 DEF Referenced
  <2> QED
    BY <2>1, BelowMonotone
<1>6. M = MarkRec(curr)
  BY DEF MarkRec
<1> HIDE DEF M
<1>7. Closed(marked \union M)
  BY <1>2, <1>3 DEF Closed
<1>8. /\ Cardinality(marked \union M) = Cardinality(marked) + Cardinality(M)
      /\ Cardinality(marked) + Cardinality(M) \in Nat
  <2>1. /\ IsFiniteSet(marked) /\ IsFiniteSet(M) /\ Cardinality(marked) \in Nat
        /\ Cardinality(M) \in Nat
    BY <1>4, Facts, Finite
  <2>2. Cardinality(marked \union M) =
          Cardinality(marked) + Cardinality(M) - Cardinality(marked \intersect M)
    BY <2>1, FS_Union
  <2>3. Cardinality(marked \intersect M) = 0
    BY <1>3, FS_EmptySet
  <2> QED
    BY <2>1, <2>2, <2>3
<1> QED
  BY <1>2, <1>3, <1>4, <1>5, <1>6, <1>7, <1>8, Facts

LEMMA MarkNodeStep ==
  ASSUME Inv, MarkNode
  PROVE  Inv'
<1> USE DEF MarkNode, tableVars, sizeVars, callVars
<1>1. /\ curr \in live /\ AheadOf(live, size, b, next[curr]) = Ahead \ {curr}
      /\ next[curr] \in Ptr
      /\ next[curr] # Null => next[curr] \in live \ {curr} /\ BucketOf(next[curr], size) = b
  BY StepAhead
<1>2. Ahead' = Ahead \ {curr} /\ Referenced' = Referenced
  BY <1>1 DEF Ahead, Referenced
<1>3. /\ marked' \subseteq live /\ Closed(marked') /\ numMarks' = Cardinality(marked')
      /\ numMarks' \in Nat /\ marked' \subseteq Below(held, {})
      /\ marked \subseteq marked' /\ (refCnt[curr] # 0 => curr \in marked')
  <2>1. CASE refCnt[curr] # 0 /\ curr \notin marked
    BY <2>1, MarkGrows DEF Counted, Inv, Marking
  <2>2. CASE ~ (refCnt[curr] # 0 /\ curr \notin marked)
    BY <2>2 DEF Inv, TypeOK, Marking
  <2> QED
    BY <2>1, <2>2
<1>4. TypeOK'
  BY <1>1, <1>3 DEF Inv, TypeOK, Buckets
<1>5. FromTable'
  BY DEF Inv, FromTable
<1>6. WholeLists' /\ AheadLists' /\ NewLists'
  BY DEF Inv, WholeLists, AheadLists, NewLists, Buckets
<1>7. Position' /\ Growth'
  BY <1>1 DEF Inv, Position, Growth
<1>8. Marking'
  BY <1>3 DEF Marking, Closed
<1>9. Marks'
  <2>1. Referenced \subseteq held /\ Referenced \ Ahead \subseteq marked
    BY DEF Inv, Marks
  <2>2. Referenced' \ Ahead' \subseteq marked'
    BY <1>2, <1>3, <2>1 DEF Referenced
  <2> QED
    BY <1>2, <2>1, <2>2 DEF Marks
<1>10. Nodes'
  BY <1>2 DEF Inv, Nodes
<1> QED
  BY <1>4, <1>5, <1>6, <1>7, <1>8, <1>9, <1>10 DEF Inv

LEMMA UnmarkNodeStep ==
  ASSUME Inv, UnmarkNode
  PROVE  Inv'
<1> USE DEF UnmarkNode, tableVars, sizeVars, callVars
<1>1. /\ curr \in live /\ AheadOf(live, size, b, next[curr]) = Ahead \ {curr}
      /\ next[curr] \in Ptr
      /\ next[curr] # Null => next[curr] \in live \ {curr} /\ BucketOf(next[curr], size) = b
  BY StepAhead
<1>2. Ahead' = Ahead \ {curr} /\ Referenced' = Referenced
  BY <1>1 DEF Ahead, Referenced
<1>3. marked' = marked \ {curr}
  OBVIOUS
<1>4. TypeOK'
  BY <1>1, <1>3 DEF Inv, TypeOK, Buckets
<1>5. FromTable'
  BY DEF Inv, FromTable
<1>6. WholeLists' /\ AheadLists' /\ NewLists' /\ Marking'
  BY DEF Inv, WholeLists, AheadLists, NewLists, Marking, Buckets
<1>7. Position' /\ Growth'
  BY <1>1 DEF Inv, Position, Growth
<1>8. Marks' /\ Nodes'
  BY <1>2, <1>3 DEF Inv, Marks, Nodes
<1> QED
  BY <1>4, <1>5, <1>6, <1>7, <1>8 DEF Inv

(* A node that is freed is out of its list, and the other lists are as     *)
(* they were.                                                              *)
LEMMA SweepLists ==
  ASSUME Inv, SweepNode, Dead(curr)
  PROVE  /\ head' \in [Buckets -> Ptr] /\ next' \in [Addr -> Ptr]
         /\ prev = Null => head'[b] = next[curr]
         /\ prev # Null => prev # curr /\ next'[prev] = next[curr]
         /\ \A i \in Buckets :
              Chained(Chain(live \ {curr}, i, size), head'[i], next', Less, Null)
<1> USE DEF SweepNode
<1>1. /\ curr \in live /\ curr \in Addr /\ BucketOf(curr, size) = b /\ next[curr] \in Ptr
  BY StepAhead, Facts
<1>2. head \in [Buckets -> Ptr] /\ next \in [Addr -> Ptr] /\ b \in Buckets
  BY DEF Inv, TypeOK
<1>3. \A i \in Buckets : Chained(Chain(live, i, size), head[i], next, Less, Null)
  BY DEF Inv, WholeLists
<1>4. curr \in Chain(live, b, size) /\ Chain(live, b, size) \subseteq live
  BY <1>1 DEF Chain
<1>5. StrictOrder(Chain(live, b, size), Less) /\ Null \notin Chain(live, b, size)
  BY <1>4, Facts, OrderInside
<1>6. Chain(live \ {curr}, b, size) = Chain(live, b, size) \ {curr}
  BY DEF Chain
<1>7. \A i \in Buckets \ {b} : /\ Chain(live \ {curr}, i, size) = Chain(live, i, size)
                               /\ curr \notin Chain(live, i, size)
  BY <1>1 DEF Chain
<1>8. CASE prev = Null
  <2>1. /\ head' = [head EXCEPT ![b] = next[curr]] /\ next' = [next EXCEPT ![curr] = Null]
    BY <1>8
  <2>2. head' \in [Buckets -> Ptr] /\ next' \in [Addr -> Ptr] /\ head'[b] = next[curr]
    BY <1>1, <1>2, <2>1 DEF Ptr
  <2>3. \A a \in Addr : a # curr => next'[a] = next[a]
    BY <1>2, <2>1
  <2>4. head[b] = curr
    BY <1>8 DEF Inv, Position
  <2>5. Chained(Chain(live, b, size) \ {curr}, next[curr], next, Less, Null)
    <3>1. Chained(Chain(live, b, size), curr, next, Less, Null)
      BY <1>2, <1>3, <2>4
    <3> QED
      BY <1>5, <3>1, ChainTail
  <2>6. Chained(Chain(live, b, size) \ {curr}, next[curr], next', Less, Null)
    <3>1. \A a \in Chain(live, b, size) \ {curr} : next'[a] = next[a]
      BY <1>4, <2>3, Facts
    <3> QED
      BY <2>5, <3>1, ChainSame
  <2>7. ASSUME NEW i \in Buckets, i # b
        PROVE  Chained(Chain(live, i, size), head'[i], next', Less, Null)
    <3>1. Chained(Chain(live, i, size), head[i], next, Less, Null) /\ head'[i] = head[i]
      BY <1>2, <1>3, <2>1, <2>7
    <3>2. \A a \in Chain(live, i, size) : next'[a] = next[a]
      <4>1. \A a \in Chain(live, i, size) : a \in Addr /\ a # curr
        BY <1>7, <2>7, Facts DEF Chain
      <4> QED
        BY <2>3, <4>1
    <3> QED
      BY <3>1, <3>2, ChainSame
  <2> QED
    BY <1>6, <1>7, <1>8, <2>2, <2>6, <2>7
<1>9. CASE prev # Null
  <2>1. /\ head' = head /\ next' = [next EXCEPT ![prev] = next[curr], ![curr] = Null]
    BY <1>9
  <2>2. prev \in live /\ prev \in Addr /\ BucketOf(prev, size) = b /\ next[prev] = curr
    BY <1>9, Facts DEF Inv, Position
  <2>3. prev # curr
    <3>1. prev \in Chain(live, b, size)
      BY <2>2 DEF Chain
    <3>2. <<prev, curr>> \in Less
      BY <1>1, <1>2, <1>3, <2>2, <3>1, Facts DEF Chained
    <3> QED
      BY <1>5, <3>1, <3>2 DEF StrictOrder
  <2>4. /\ next' \in [Addr -> Ptr] /\ next'[prev] = next[curr]
        /\ \A a \in Addr : a # curr /\ a # prev => next'[a] = next[a]
    BY <1>1, <1>2, <2>1, <2>2, <2>3 DEF Ptr
  <2>5. Chained(Chain(live, b, size) \ {curr}, head[b], next', Less, Null)
    <3>1. Chained(Chain(live, b, size), head[b], next, Less, Null)
      BY <1>2, <1>3
    <3>2. prev \in Chain(live, b, size)
      BY <2>2 DEF Chain
    <3>3. \A a \in Chain(live, b, size) \ {curr, prev} : next'[a] = next[a]
      BY <1>4, <2>4, Facts
    <3> QED
      BY <1>4, <1>5, <2>2, <2>4, <3>1, <3>2, <3>3, ChainUnlink
  <2>6. ASSUME NEW i \in Buckets, i # b
        PROVE  Chained(Chain(live, i, size), head[i], next', Less, Null)
    <3>1. Chained(Chain(live, i, size), head[i], next, Less, Null)
      BY <1>3
    <3>2. \A a \in Chain(live, i, size) : next'[a] = next[a]
      <4>1. \A a \in Chain(live, i, size) : a \in Addr /\ a # curr /\ a # prev
        BY <1>7, <2>2, <2>6, Facts DEF Chain
      <4> QED
        BY <2>4, <4>1
    <3> QED
      BY <3>1, <3>2, ChainSame
  <2> QED
    BY <1>2, <1>6, <1>7, <1>9, <2>1, <2>3, <2>4, <2>5, <2>6
<1> QED
  BY <1>8, <1>9

LEMMA SweepNodeStep ==
  ASSUME Inv, SweepNode
  PROVE  Inv'
<1> USE DEF SweepNode, markVars, sizeVars, callVars
<1>1. /\ curr \in live /\ AheadOf(live, size, b, next[curr]) = Ahead \ {curr}
      /\ AheadOf(live \ {curr}, size, b, next[curr]) = Ahead \ {curr}
      /\ next[curr] \in Ptr /\ BucketOf(curr, size) = b /\ curr # Null
      /\ next[curr] # Null => next[curr] \in live \ {curr} /\ BucketOf(next[curr], size) = b
  BY StepAhead
<1>2. /\ Referenced \subseteq marked /\ live \ Ahead \subseteq marked
      /\ marked \subseteq live /\ ~ grows
  BY Facts DEF Inv, Marks, Growth
<1>3. curr' = next[curr] /\ Referenced' = Referenced
  BY DEF Following, Referenced
<1>4. CASE Dead(curr)
  <2>1. live' = live \ {curr} /\ prev' = prev /\ curr \notin marked
    BY <1>4 DEF LastKept, Dead
  <2>2. /\ head' \in [Buckets -> Ptr] /\ next' \in [Addr -> Ptr]
        /\ prev = Null => head'[b] = next[curr]
        /\ prev # Null => prev # curr /\ next'[prev] = next[curr]
        /\ \A i \in Buckets :
             Chained(Chain(live \ {curr}, i, size), head'[i], next', Less, Null)
    BY <1>4, SweepLists
  <2>3. Ahead' = Ahead \ {curr}
    BY <1>1, <1>3, <2>1 DEF Ahead
  <2>4. TypeOK'
    <3>1. live' \in SUBSET Addr /\ marked' \in SUBSET live'
      BY <1>2, <2>1, Facts
    <3> QED
      BY <1>1, <1>3, <2>1, <2>2, <3>1 DEF Inv, TypeOK, Buckets
  <2>5. FromTable'
    BY <2>1 DEF Inv, FromTable
  <2>6. WholeLists'
    BY <2>1, <2>2 DEF WholeLists, Buckets
  <2>7. AheadLists' /\ NewLists'
    BY DEF AheadLists, NewLists
  <2>8. Position'
    <3>1. curr' # Null => curr' \in live' /\ BucketOf(curr', size') = b'
      BY <1>1, <1>3, <2>1
    <3>2. prev # Null => prev \in live /\ BucketOf(prev, size) = b
      BY DEF Inv, Position
    <3>3. IF prev' = Null THEN head'[b'] = curr'
          ELSE prev' \in live' /\ BucketOf(prev', size') = b' /\ next'[prev'] = curr'
      BY <1>3, <2>1, <2>2, <3>2
    <3> QED
      BY <3>1, <3>3 DEF Position
  <2>9. Growth' /\ Marking'
    BY <1>2 DEF Inv, Growth, Marking
  <2>10. Marks' /\ Nodes'
    BY <1>2, <1>3, <2>1, <2>3 DEF Marks, Nodes
  <2> QED
    BY <2>4, <2>5, <2>6, <2>7, <2>8, <2>9, <2>10 DEF Inv
<1>5. CASE ~ Dead(curr)
  <2> USE DEF tableVars
  <2>1. live' = live /\ head' = head /\ next' = next /\ prev' = curr /\ curr \in marked
    BY <1>5 DEF LastKept, Dead
  <2>3. Ahead' = Ahead \ {curr}
    BY <1>1, <1>3, <2>1 DEF Ahead
  <2>4. TypeOK'
    BY <1>1, <1>3, <2>1, Facts DEF Inv, TypeOK, Buckets, Ptr
  <2>5. FromTable'
    BY <2>1 DEF Inv, FromTable
  <2>6. WholeLists' /\ AheadLists' /\ NewLists'
    BY <2>1 DEF Inv, WholeLists, AheadLists, NewLists, Buckets
  <2>8. Position'
    BY <1>1, <1>3, <2>1 DEF Position
  <2>9. Growth' /\ Marking'
    BY <1>2 DEF Inv, Growth, Marking
  <2>10. Marks' /\ Nodes'
    BY <1>2, <1>3, <2>1, <2>3 DEF Marks, Nodes
  <2> QED
    BY <2>4, <2>5, <2>6, <2>8, <2>9, <2>10 DEF Inv
<1> QED
  BY <1>4, <1>5

(* A loop that takes its nodes off their lists leaves those ahead linked,  *)
(* whatever becomes of the pointers behind it.                             *)
LEMMA RestLists ==
  ASSUME Inv, pc \in {"grow", "drop"}, curr # Null,
         NEW nexts, \A a \in Ahead \ {curr} : nexts[a] = next[a],
         NEW i \in b .. size - 1
  PROVE  Chained(Chain(Ahead \ {curr}, i, size), IF i = b THEN next[curr] ELSE head[i],
                 nexts, Less, Null)
<1>1. curr \in Ahead /\ curr \in live /\ BucketOf(curr, size) = b
  BY StepAhead
<1>2. Chained(Chain(Ahead, i, size), IF i = b THEN curr ELSE head[i], next, Less, Null)
  BY DEF Inv, AheadLists
<1>3. CASE i = b
  <2> DEFINE S == Chain(Ahead, b, size)
  <2>1. S \subseteq live /\ Chain(Ahead \ {curr}, b, size) = S \ {curr}
        /\ S \ {curr} \subseteq Ahead \ {curr}
    BY Facts DEF Chain
  <2>2. Chained(S, curr, next, Less, Null)
    BY <1>2, <1>3
  <2> HIDE DEF S
  <2>3. StrictOrder(S, Less) /\ Null \notin S
    BY <2>1, Facts, OrderInside
  <2>4. Chained(S \ {curr}, next[curr], next, Less, Null)
    BY <2>2, <2>3, ChainTail
  <2>5. \A a \in S \ {curr} : nexts[a] = next[a]
    BY <2>1
  <2>6. Chained(S \ {curr}, next[curr], nexts, Less, Null)
    BY <2>4, <2>5, ChainSame
  <2> QED
    BY <1>3, <2>1, <2>6
<1>4. CASE i # b
  <2>1. Chain(Ahead \ {curr}, i, size) = Chain(Ahead, i, size)
    BY <1>1, <1>4 DEF Chain
  <2>2. \A a \in Chain(Ahead, i, size) : nexts[a] = next[a]
    BY <1>1, <1>4 DEF Chain
  <2>3. Chained(Chain(Ahead, i, size), head[i], next, Less, Null)
    BY <1>2, <1>4
  <2>4. Chained(Chain(Ahead, i, size), head[i], nexts, Less, Null)
    BY <2>2, <2>3, ChainSame
  <2> QED
    BY <1>4, <2>1, <2>4
<1> QED
  BY <1>3, <1>4

LEMMA DropNodeStep ==
  ASSUME Inv, DropNode
  PROVE  Inv'
<1> USE DEF DropNode, markVars, sizeVars, callVars
<1>1. /\ curr \in live /\ curr \in Addr /\ next[curr] \in Ptr /\ curr # Null
      /\ AheadOf(live \ {curr}, size, b, next[curr]) = Ahead \ {curr}
      /\ next[curr] # Null => next[curr] \in live \ {curr} /\ BucketOf(next[curr], size) = b
  BY StepAhead, Facts
<1>2. Ahead' = Ahead \ {curr}
  BY <1>1 DEF Ahead
<1>3. live \subseteq Ahead /\ marked = {} /\ ~ grows
  BY DEF Inv, Nodes, Marks, Growth
<1>4. next' \in [Addr -> Ptr] /\ \A a \in Addr \ {curr} : next'[a] = next[a]
  BY DEF Inv, TypeOK, Ptr
<1>5. TypeOK'
  <2>1. live' \in SUBSET Addr /\ marked' \in SUBSET live'
    BY <1>3, Facts
  <2> QED
    BY <1>1, <1>4, <2>1 DEF Inv, TypeOK, Buckets
<1>6. FromTable'
  BY DEF Inv, FromTable
<1>7. AheadLists'
  <2> SUFFICES ASSUME NEW i \in b .. size - 1
               PROVE  Chained(Chain(Ahead \ {curr}, i, size),
                              IF i = b THEN next[curr] ELSE head[i], next', Less, Null)
    BY <1>2 DEF AheadLists
  <2>1. \A a \in Ahead \ {curr} : next'[a] = next[a]
    BY <1>4, Facts
  <2> QED
    BY <1>1, <2>1, RestLists
<1>8. WholeLists' /\ NewLists' /\ Marking'
  BY DEF WholeLists, NewLists, Marking
<1>9. Position' /\ Growth'
  BY <1>1, <1>3 DEF Inv, Position, Growth
<1>10. Marks' /\ Nodes'
  BY <1>2, <1>3 DEF Marks, Nodes
<1> QED
  BY <1>5, <1>6, <1>7, <1>8, <1>9, <1>10 DEF Inv

(* grow walks a new list to the place of the node it moves.                *)
LEMMA BeforePlace ==
  ASSUME Inv, pc = "grow", NEW c \in Addr, NEW S, S \subseteq Addr, c \notin S,
         StrictOrder(S \union {c}, Less), NEW first, Chained(S, first, next, Less, Null)
  PROVE  Belongs(c, Before(c, first), S, first, next, Less, Null)
<1> DEFINE at == NodeAt(first, next)
           greater == {i \in DOMAIN at : at[i] = Null \/
                                         KeyLess(Key(c, marked), Key(at[i], marked))}
           place == CHOOSE i \in greater : \A j \in greater : i <= j
<1>1. at = Places(Cardinality(Addr), first, next, Null)
  BY DEF NodeAt, Places
<1>2. Before(c, first) = IF place = 0 THEN Null ELSE at[place - 1]
  BY DEF Before
<1>3. marked = {} /\ IsFiniteSet(Addr) /\ Null \notin Addr /\ Cardinality(Addr) \in Nat
  BY CollectorAssumption, FS_CardinalityType DEF Inv, Marks
<1>4. Walked(S, Places(Cardinality(Addr), first, next, Null), Cardinality(Addr), Less, Null)
  <2>1. StrictOrder(S, Less)
    BY OrderInside
  <2> QED
    BY <1>3, <2>1, ChainWalked
<1>5. DOMAIN Places(Cardinality(Addr), first, next, Null) = 0 .. Cardinality(Addr)
  BY <1>3, PlacesAre
<1> HIDE DEF at
<1>6. /\ DOMAIN at = 0 .. Cardinality(Addr) /\ at[Cardinality(Addr)] = Null
      /\ \A i \in 0 .. Cardinality(Addr) : at[i] \in S \union {Null}
  BY <1>1, <1>4, <1>5 DEF Walked
<1>7. ASSUME NEW a \in Addr
      PROVE  KeyLess(Key(c, marked), Key(a, marked)) <=> <<c, a>> \in Less
  <2>1. /\ Key(c, marked)[1] = KeyAt[c][1] /\ Key(c, marked)[2] = KeyAt[c][2]
        /\ Key(c, marked)[3] = KeyAt[c][3]
    BY <1>3, KeyParts DEF Key
  <2>2. /\ Key(a, marked)[1] = KeyAt[a][1] /\ Key(a, marked)[2] = KeyAt[a][2]
        /\ Key(a, marked)[3] = KeyAt[a][3]
    BY <1>3, KeyParts DEF Key
  <2> QED
    BY <2>1, <2>2 DEF KeyLess, Less
<1>8. greater = {i \in 0 .. Cardinality(Addr) : at[i] = Null \/ <<c, at[i]>> \in Less}
  <2>1. \A i \in 0 .. Cardinality(Addr) : at[i] # Null => at[i] \in Addr
    BY <1>6
  <2> QED
    BY <1>6, <1>7, <2>1
<1>9. greater \in SUBSET Nat /\ greater # {}
  BY <1>3, <1>6, <1>8
<1> HIDE DEF greater
<1>10. place \in greater /\ \A j \in greater : place <= j
  <2>1. \E i \in greater : \A j \in greater : i <= j
    BY <1>9, LeastElement
  <2> QED
    BY <2>1
<1> HIDE DEF place
<1>11. Stops(place, at, Cardinality(Addr), c, Less, Null)
  BY <1>8, <1>10 DEF Stops
<1>12. Stops(place, Places(Cardinality(Addr), first, next, Null), Cardinality(Addr), c,
             Less, Null)
  BY <1>1, <1>11
<1>13. Belongs(c, IF place = 0 THEN Null
                  ELSE Places(Cardinality(Addr), first, next, Null)[place - 1],
               S, first, next, Less, Null)
  BY <1>3, <1>12, WalkStops
<1> QED
  BY <1>1, <1>2, <1>13

(* A node that grow moves is linked into its new list, and no other list   *)
(* changes.                                                                *)
LEMMA GrowLists ==
  ASSUME Inv, GrowNode
  PROVE  /\ next' \in [Addr -> Ptr] /\ newHead' \in [0 .. 2 * size - 1 -> Ptr]
         /\ \A a \in Ahead \ {curr} : next'[a] = next[a]
         /\ \A j \in 0 .. 2 * size - 1 :
              Chained(Chain((live \ Ahead) \union {curr}, j, 2 * size), newHead'[j], next',
                      Less, Null)
<1> DEFINE n == 2 * size
           moved == live \ Ahead
           k == BucketOf(curr, n)
           S == Chain(moved, k, n)
           first == newHead[k]
           p == Before(curr, first)
<1>1. /\ curr \in live /\ curr \in Addr /\ curr # Null /\ curr \in Ahead /\ next[curr] \in Ptr
      /\ pc = "grow"
  BY StepAhead, Facts DEF GrowNode
<1>2. n \in Nat \ {0}
  BY Facts
<1>3. k \in 0 .. n - 1
  BY <1>1, <1>2, BucketType
<1>4. next \in [Addr -> Ptr] /\ newHead \in [0 .. n - 1 -> Ptr]
  BY DEF Inv, TypeOK
<1>5. \A j \in 0 .. n - 1 : Chained(Chain(moved, j, n), newHead[j], next, Less, Null)
  BY <1>1 DEF Inv, NewLists
<1>6. IF p = Null
      THEN /\ newHead' = [newHead EXCEPT ![k] = curr]
           /\ next' = [next EXCEPT ![curr] = first]
      ELSE /\ next' = [next EXCEPT ![p] = curr, ![curr] = next[p]]
           /\ newHead' = newHead
  BY DEF GrowNode
<1>7. moved \subseteq live /\ curr \notin moved /\ S \subseteq moved /\ S \union {curr} \subseteq live
  BY <1>1 DEF Chain
<1>8. /\ Chain(moved \union {curr}, k, n) = S \union {curr}
      /\ \A j \in 0 .. n - 1 : j # k => Chain(moved \union {curr}, j, n) = Chain(moved, j, n)
  BY DEF Chain
<1>9. \A j \in 0 .. n - 1 : Chain(moved, j, n) \subseteq moved
                            /\ (j # k => \A a \in Chain(moved, j, n) : a \notin S)
  BY DEF Chain
<1>10. Chained(S, first, next, Less, Null)
  BY <1>3, <1>5
<1>11. moved \intersect Ahead = {} /\ Ahead \subseteq live
  BY Facts
<1> HIDE DEF n, moved, k, S, first
<1>12. StrictOrder(S \union {curr}, Less) /\ S \subseteq Addr /\ curr \notin S /\ Null \notin S
  BY <1>7, Facts, OrderInside
<1>13. Belongs(curr, p, S, first, next, Less, Null)
  BY <1>1, <1>10, <1>12, BeforePlace
<1>14. first \in Ptr
  BY <1>3, <1>4 DEF first
<1> HIDE DEF p
<1>15. CASE p = Null
  <2>1. /\ newHead' = [newHead EXCEPT ![k] = curr] /\ next' = [next EXCEPT ![curr] = first]
    BY <1>6, <1>15
  <2>2. /\ next' \in [Addr -> Ptr] /\ newHead' \in [0 .. n - 1 -> Ptr]
        /\ next'[curr] = first /\ \A a \in Addr \ {curr} : next'[a] = next[a]
        /\ newHead'[k] = curr /\ \A j \in 0 .. n - 1 : j # k => newHead'[j] = newHead[j]
    BY <1>1, <1>3, <1>4, <1>14, <2>1 DEF Ptr
  <2>3. Chained(S \union {curr}, curr, next', Less, Null)
    <3>1. \A a \in S : next'[a] = next[a]
      BY <1>12, <2>2
    <3>2. first = Null \/ <<curr, first>> \in Less
      BY <1>13, <1>15 DEF Belongs
    <3> QED
      BY <1>1, <1>10, <1>12, <2>2, <3>1, <3>2, ChainPut
  <2>4. ASSUME NEW j \in 0 .. n - 1, j # k
        PROVE  Chained(Chain(moved, j, n), newHead'[j], next', Less, Null)
    <3>1. \A a \in Chain(moved, j, n) : next'[a] = next[a]
      BY <1>7, <1>9, <2>2, Facts
    <3>2. Chained(Chain(moved, j, n), newHead[j], next, Less, Null)
      BY <1>5
    <3> QED
      BY <2>2, <2>4, <3>1, <3>2, ChainSame
  <2>5. \A a \in Ahead \ {curr} : next'[a] = next[a]
    BY <2>2, Facts
  <2> QED
    BY <1>8, <2>2, <2>3, <2>4, <2>5 DEF n, moved
<1>16. CASE p # Null
  <2>1. /\ next' = [next EXCEPT ![p] = curr, ![curr] = next[p]] /\ newHead' = newHead
    BY <1>6, <1>16
  <2>2. /\ p \in S /\ <<p, curr>> \in Less
        /\ next[p] = Null \/ <<curr, next[p]>> \in Less
    BY <1>13, <1>16 DEF Belongs
  <2>3. p # curr /\ p \in Addr /\ p \notin Ahead
    BY <1>7, <1>11, <1>12, <2>2
  <2>4. /\ next' \in [Addr -> Ptr]
        /\ next'[p] = curr /\ next'[curr] = next[p]
        /\ \A a \in Addr \ {curr, p} : next'[a] = next[a]
    BY <1>1, <1>4, <2>1, <2>3 DEF Ptr
  <2>5. Chained(S \union {curr}, first, next', Less, Null)
    <3>1. \A a \in S \ {p} : next'[a] = next[a]
      BY <1>12, <2>4
    <3> QED
      BY <1>1, <1>10, <1>12, <2>2, <2>4, <3>1, ChainLink
  <2>6. ASSUME NEW j \in 0 .. n - 1, j # k
        PROVE  Chained(Chain(moved, j, n), newHead[j], next', Less, Null)
    <3>1. \A a \in Chain(moved, j, n) : next'[a] = next[a]
      BY <1>7, <1>9, <2>2, <2>4, <2>6, Facts
    <3>2. Chained(Chain(moved, j, n), newHead[j], next, Less, Null)
      BY <1>5
    <3> QED
      BY <3>1, <3>2, ChainSame
  <2>7. \A a \in Ahead \ {curr} : next'[a] = next[a]
    BY <2>3, <2>4, Facts
  <2>8. newHead'[k] = first
    BY <2>1 DEF first
  <2> QED
    BY <1>4, <1>8, <2>1, <2>4, <2>5, <2>6, <2>7, <2>8 DEF n, moved
<1> QED
  BY <1>15, <1>16

LEMMA GrowNodeStep ==
  ASSUME Inv, GrowNode
  PROVE  Inv'
<1> USE DEF markVars, callVars
<1>1. /\ curr \in live /\ curr # Null /\ next[curr] \in Ptr /\ curr \in Ahead
      /\ AheadOf(live, size, b, next[curr]) = Ahead \ {curr}
      /\ next[curr] # Null => next[curr] \in live \ {curr} /\ BucketOf(next[curr], size) = b
  BY StepAhead DEF GrowNode
<1>2. /\ pc = "grow" /\ curr' = next[curr]
      /\ UNCHANGED <<markVars, callVars, live, head, refCnt, size, numEntry, b, prev>>
  BY DEF GrowNode, ReadsNext
<1>3. Ahead' = Ahead \ {curr} /\ Referenced' = Referenced
  BY <1>1, <1>2 DEF Ahead, Referenced
<1>4. live' \ Ahead' = (live \ Ahead) \union {curr}
  BY <1>1, <1>2, <1>3
<1>5. /\ next' \in [Addr -> Ptr] /\ newHead' \in [0 .. 2 * size - 1 -> Ptr]
      /\ \A a \in Ahead \ {curr} : next'[a] = next[a]
      /\ \A j \in 0 .. 2 * size - 1 :
           Chained(Chain((live \ Ahead) \union {curr}, j, 2 * size), newHead'[j], next',
                   Less, Null)
  BY GrowLists
<1>6. TypeOK'
  BY <1>1, <1>2, <1>5 DEF Inv, TypeOK, Buckets
<1>7. FromTable'
  BY <1>2 DEF Inv, FromTable
<1>8. AheadLists'
  <2> SUFFICES ASSUME NEW i \in b .. size - 1
               PROVE  Chained(Chain(Ahead \ {curr}, i, size),
                              IF i = b THEN next[curr] ELSE head[i], next', Less, Null)
    BY <1>2, <1>3 DEF AheadLists
  <2> QED
    BY <1>1, <1>2, <1>5, RestLists
<1>9. NewLists'
  BY <1>2, <1>4, <1>5 DEF NewLists
<1>10. WholeLists' /\ Marking'
  BY <1>2 DEF WholeLists, Marking
<1>11. Position' /\ Growth'
  BY <1>1, <1>2 DEF Inv, Position, Growth
<1>12. Marks' /\ Nodes'
  BY <1>2, <1>3 DEF Inv, Marks, Nodes
<1> QED
  BY <1>6, <1>7, <1>8, <1>9, <1>10, <1>11, <1>12 DEF Inv

-----------------------------------------------------------------------------
(* Theorems.                                                               *)

LEMMA StepInv == Inv /\ [Next]_vars => Inv'
<1> SUFFICES ASSUME Inv, [Next]_vars
             PROVE  Inv'
  OBVIOUS
<1>1. CASE UNCHANGED vars
  BY <1>1, StutterStep
<1>2. CASE Begin \/ BeginDrop
  BY <1>2, BeginStep, BeginDropStep
<1>3. CASE NextBucket
  BY <1>3, NextBucketStep
<1>4. CASE MarkNode \/ Marked \/ SweepNode \/ Swept \/ UnmarkNode \/ Unmarked
  BY <1>4, MarkNodeStep, MarkedStep, SweepNodeStep, SweptStep, UnmarkNodeStep, UnmarkedStep
<1>5. CASE GrowNode \/ Grown \/ DropNode \/ Dropped
  BY <1>5, GrowNodeStep, GrownStep, DropNodeStep, DroppedStep
<1>6. CASE \E a \in Addr : Ref(a) \/ Deref(a)
  BY <1>6, ClientStep
<1> QED
  BY <1>1, <1>2, <1>3, <1>4, <1>5, <1>6 DEF Next, Step

\* The invariant holds in every reachable state: at each step of each loop the
\* lists, the marks and the counts are what the loop has made of them so far.
THEOREM Invariance == Spec => []Inv
BY InitInv, StepInv, PTL DEF Spec

\* The variables keep their types: what is marked has not been freed.
THEOREM TypeCorrect == Spec => []TypeOK
<1>1. Inv => TypeOK
  BY DEF Inv
<1> QED
  BY <1>1, Invariance, PTL

\* Between collections every node is in the list of its bucket, once, in the order
\* of keys, whatever has been collected and however often the table has grown.
THEOREM Sanity == Spec => []SanityCheck
<1>1. Inv => SanityCheck
  <2> SUFFICES ASSUME Inv, pc = "idle", NEW i \in Buckets
               PROVE  /\ marked = {}
                      /\ {NodeAt(head[i], next)[j] : j \in 0 .. Cardinality(Addr)} \ {Null}
                           = {a \in live : BucketOf(a, size) = i}
                      /\ NodeAt(head[i], next)[Cardinality(Addr)] = Null
                      /\ \A j \in 1 .. Cardinality(Addr) :
                           NodeAt(head[i], next)[j] # Null =>
                             KeyLess(KeyAt[NodeAt(head[i], next)[j - 1]],
                                     KeyAt[NodeAt(head[i], next)[j]])
    BY Facts DEF SanityCheck, Inv, Marks
  <2> DEFINE at == NodeAt(head[i], next)
             S == Chain(live, i, size)
  <2>1. at = Places(Cardinality(Addr), head[i], next, Null)
    BY DEF NodeAt, Places
  <2>2. Chained(S, head[i], next, Less, Null) /\ marked = {}
    BY DEF Inv, WholeLists, Marks
  <2>3. S \subseteq live /\ S \subseteq Addr /\ Null \notin S
    BY Facts DEF Chain
  <2>4. StrictOrder(S, Less) /\ IsFiniteSet(Addr) /\ Null \notin Addr
    BY <2>3, Facts, OrderInside, CollectorAssumption
  <2> HIDE DEF at, S
  <2>5. Walked(S, Places(Cardinality(Addr), head[i], next, Null), Cardinality(Addr), Less, Null)
    BY <2>2, <2>3, <2>4, ChainWalked
  <2>6. Walked(S, at, Cardinality(Addr), Less, Null)
    BY <2>1, <2>5
  <2>7. \A a, c : <<a, c>> \in Less => KeyLess(KeyAt[a], KeyAt[c])
    BY DEF Less
  <2>8. {at[j] : j \in 0 .. Cardinality(Addr)} \ {Null} = S
    BY <2>3, <2>6 DEF Walked
  <2> QED
    BY <2>2, <2>6, <2>7, <2>8 DEF Walked, at, S, Chain
<1> QED
  BY <1>1, Invariance, PTL

\* No collection frees a node that a client holds or that is below one, whatever
\* references are dropped or doubled while it marks and sweeps.
THEOREM HeldNodesSurvive == Spec => []HeldSurvive
<1>1. Inv => HeldSurvive
  <2> SUFFICES ASSUME Inv, pc \notin {"drop", "dropped"}
               PROVE  Below(Referenced, {}) \subseteq live
    BY DEF HeldSurvive, Referenced
  <2>1. CASE pc = "sweep"
    <3>1. Referenced \subseteq marked /\ Closed(marked) /\ marked \subseteq live
      BY <2>1, Facts DEF Inv, Marks, Marking
    <3> QED
      BY <3>1, BelowInside DEF Closed
  <2>2. CASE pc # "sweep"
    <3>1. Referenced \subseteq live /\ Closed(live)
      BY <2>2 DEF Inv, Nodes
    <3> QED
      BY <3>1, BelowInside DEF Closed
  <2> QED
    BY <2>1, <2>2
<1> QED
  BY <1>1, Invariance, PTL

\* A collection frees every node that was garbage when it began to mark.
THEOREM GarbageGoes == Spec => []GarbageFreed
<1>1. Inv => GarbageFreed
  <2> SUFFICES ASSUME Inv, Over("sweep")
               PROVE  live = marked /\ live \subseteq Below(held, {})
    BY DEF GarbageFreed
  <2>1. Ahead = {}
    BY OverAhead DEF Over
  <2>2. live \ Ahead \subseteq marked /\ marked \subseteq live /\ marked \subseteq Below(held, {})
    BY Facts DEF Over, Inv, Marks, Marking
  <2> QED
    BY <2>1, <2>2
<1> QED
  BY <1>1, Invariance, PTL

\* Between collections num_entry is the number of nodes.
THEOREM Counting == Spec => []EntryCount
<1>1. Inv => EntryCount
  BY DEF Inv, Nodes, EntryCount
<1> QED
  BY <1>1, Invariance, PTL

\* No loop holds a pointer to a node it has freed, and the drop of the table frees
\* every node.
THEOREM NothingDangles == Spec => []WalksLive
<1>1. Inv => WalksLive
  BY DEF Inv, Position, Nodes, WalksLive
<1> QED
  BY <1>1, Invariance, PTL

=============================================================================
