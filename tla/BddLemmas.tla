------------------------------ MODULE BddLemmas ------------------------------
(***************************************************************************)
(* What the proofs about BddManager need to know of Boolean functions, of  *)
(* the operations on them, and of marking, which follows the children of   *)
(* nodes as far as there are variables.                                    *)
(***************************************************************************)
EXTENDS BddInvariant, ListLemmas

-----------------------------------------------------------------------------
(* Functions.                                                              *)

LEMMA MuxType ==
  ASSUME NEW v, NEW f \in SUBSET Assignments, NEW g \in SUBSET Assignments
  PROVE  Mux(v, f, g) \in SUBSET Assignments
BY DEF Mux

(* A function is its own cofactor when it is not tested.                   *)
LEMMA MuxSame ==
  ASSUME NEW v, NEW f
  PROVE  Mux(v, f, f) = f
BY DEF Mux

(* A test of another variable depends on nothing new.                      *)
LEMMA MuxFree ==
  ASSUME NEW u \in Vars, NEW v \in Vars, u # v, NEW f, NEW g, Free(f, u), Free(g, u)
  PROVE  Free(Mux(v, f, g), u)
BY DEF Mux, Free, Assignments

(* A function that tests a variable determines its cofactors.              *)
LEMMA MuxInjective ==
  ASSUME NEW v \in Vars,
         NEW f \in SUBSET Assignments, NEW g \in SUBSET Assignments,
         NEW h \in SUBSET Assignments, NEW k \in SUBSET Assignments,
         Free(f, v), Free(g, v), Free(h, v), Free(k, v),
         Mux(v, f, g) = Mux(v, h, k)
  PROVE  f = h /\ g = k
<1>1. ASSUME NEW s \in Assignments
      PROVE  s \in f <=> s \in h
  <2>1. s \ {v} \in Assignments
    BY DEF Assignments
  <2>2. s \ {v} \in f <=> s \ {v} \in Mux(v, f, g)
    BY DEF Mux
  <2>3. s \ {v} \in h <=> s \ {v} \in Mux(v, h, k)
    BY DEF Mux
  <2>4. (s \in f <=> s \ {v} \in f) /\ (s \in h <=> s \ {v} \in h)
    <3>1. CASE v \in s
      <4>1. s \union {v} = s
        BY <3>1
      <4> QED BY <4>1 DEF Free
    <3>2. CASE v \notin s
      <4>1. s \ {v} = s
        BY <3>2
      <4> QED BY <4>1
    <3> QED BY <3>1, <3>2
  <2> QED BY <2>2, <2>3, <2>4
<1>2. ASSUME NEW s \in Assignments
      PROVE  s \in g <=> s \in k
  <2>1. s \union {v} \in Assignments
    BY DEF Assignments
  <2>2. s \union {v} \in g <=> s \union {v} \in Mux(v, f, g)
    BY DEF Mux
  <2>3. s \union {v} \in k <=> s \union {v} \in Mux(v, h, k)
    BY DEF Mux
  <2>4. (s \in g <=> s \union {v} \in g) /\ (s \in k <=> s \union {v} \in k)
    <3>1. CASE v \in s
      <4>1. s \union {v} = s
        BY <3>1
      <4> QED BY <4>1
    <3>2. CASE v \notin s
      <4>1. s \ {v} = s
        BY <3>2
      <4> QED BY <4>1 DEF Free
    <3> QED BY <3>1, <3>2
  <2> QED BY <2>2, <2>3, <2>4
<1> QED BY <1>1, <1>2

(* A test on which the function does not depend is redundant.              *)
LEMMA MuxNotFree ==
  ASSUME NEW v \in Vars,
         NEW f \in SUBSET Assignments, NEW g \in SUBSET Assignments,
         Free(f, v), Free(g, v), Free(Mux(v, f, g), v)
  PROVE  f = g
<1>1. Mux(v, Mux(v, f, g), Mux(v, f, g)) = Mux(v, f, g)
  BY MuxSame
<1>2. Mux(v, f, g) \in SUBSET Assignments
  BY MuxType
<1>3. Mux(v, f, g) = f /\ Mux(v, f, g) = g
  BY <1>1, <1>2, MuxInjective
<1> QED BY <1>3

LEMMA ApplyType ==
  ASSUME NEW op \in Ops, NEW f \in SUBSET Assignments, NEW g \in SUBSET Assignments
  PROVE  Apply(op, f, g) \in SUBSET Assignments
BY DEF Apply, Ops

LEMMA ApplyFree ==
  ASSUME NEW op \in Ops, NEW f, NEW g, NEW v \in Vars, Free(f, v), Free(g, v)
  PROVE  Free(Apply(op, f, g), v)
<1>1. \A s \in Assignments : s \union {v} \in Assignments /\ s \ {v} \in Assignments
  BY DEF Assignments
<1> QED BY <1>1 DEF Apply, Ops, Free

(* Shannon expansion: an operation works on the cofactors.                 *)
LEMMA Shannon ==
  ASSUME NEW op \in Ops, NEW v \in Vars,
         NEW f \in SUBSET Assignments, NEW g \in SUBSET Assignments,
         NEW h \in SUBSET Assignments, NEW k \in SUBSET Assignments
  PROVE  Apply(op, Mux(v, f, g), Mux(v, h, k)) = Mux(v, Apply(op, f, h), Apply(op, g, k))
BY DEF Apply, Ops, Mux

LEMMA ConstantsFree ==
  ASSUME NEW v \in Vars
  PROVE  Free({}, v) /\ Free(Assignments, v)
BY DEF Free, Assignments

-----------------------------------------------------------------------------
(* Marking.                                                                *)

Onward(s) == s \union UNION {Children(a) : a \in s}

(* The layers of the marking exist: what the recursive definition defines. *)
LEMMA LayersExist ==
  ASSUME NEW roots
  PROVE  \E f : f = [i \in 0 .. NumVars |-> IF i = 0 THEN roots ELSE Onward(f[i - 1])]
<1> DEFINE Bad == {n \in Nat : ~ \E f : f = [i \in 0 .. n |-> IF i = 0 THEN roots
                                                         ELSE Onward(f[i - 1])]}
<1>1. Bad = {}
  <2> SUFFICES ASSUME Bad # {}
               PROVE  FALSE
    OBVIOUS
  <2>1. PICK n \in Bad : \A m \in Bad : n <= m
    <3> HIDE DEF Bad
    <3>1. Bad \in SUBSET Nat
      BY DEF Bad
    <3> QED
      BY <3>1, LeastElement
  <2>2. CASE n = 0
    <3> DEFINE f == [i \in 0 .. 0 |-> roots]
    <3>1. f = [i \in 0 .. 0 |-> IF i = 0 THEN roots ELSE Onward(f[i - 1])]
      OBVIOUS
    <3> QED
      BY <2>2, <3>1
  <2>3. CASE n # 0
    <3>1. n - 1 \in Nat /\ n \in Nat /\ n - 1 \notin Bad
      <4>1. n \in Nat
        OBVIOUS
      <4> HIDE DEF Bad
      <4> QED
        BY <2>1, <2>3, <4>1
    <3>2. PICK f : f = [i \in 0 .. n - 1 |-> IF i = 0 THEN roots ELSE Onward(f[i - 1])]
      BY <3>1
    <3> DEFINE g == [i \in 0 .. n |-> IF i = n THEN Onward(f[n - 1]) ELSE f[i]]
    <3>3. \A i \in 0 .. n : g[i] = IF i = 0 THEN roots ELSE Onward(g[i - 1])
      BY <3>1, <3>2, <2>3
    <3>4. g = [i \in 0 .. n |-> IF i = 0 THEN roots ELSE Onward(g[i - 1])]
      BY <3>3
    <3> QED
      BY <3>4, <2>1
  <2> QED
    BY <2>2, <2>3
<1> QED
  BY <1>1, BootAssumption

(* What a layer has, and that the last one is what is marked.              *)
LEMMA Layers ==
  ASSUME NEW roots
  PROVE  \E f : /\ f[0] = roots
                /\ \A i \in 1 .. NumVars : f[i] = Onward(f[i - 1])
                /\ Reach(roots) = f[NumVars]
<1> DEFINE f == CHOOSE f : f = [i \in 0 .. NumVars |->
                                  IF i = 0 THEN roots ELSE Onward(f[i - 1])]
<1>1. f = [i \in 0 .. NumVars |-> IF i = 0 THEN roots ELSE Onward(f[i - 1])]
  BY LayersExist
<1>2. Reach(roots) = f[NumVars]
  BY DEF Reach, Onward
<1> HIDE DEF f
<1>3. f[0] = roots /\ \A i \in 1 .. NumVars : f[i] = Onward(f[i - 1])
  BY <1>1, BootAssumption
<1> QED
  BY <1>2, <1>3

(* Marking starts at the roots.                                            *)
LEMMA ReachRoots ==
  ASSUME NEW roots
  PROVE  roots \subseteq Reach(roots)
<1>1. PICK f : /\ f[0] = roots
               /\ \A i \in 1 .. NumVars : f[i] = Onward(f[i - 1])
               /\ Reach(roots) = f[NumVars]
  BY Layers
<1> DEFINE Bad == {i \in 0 .. NumVars : ~ (roots \subseteq f[i])}
<1>2. Bad = {}
  <2> SUFFICES ASSUME Bad # {}
               PROVE  FALSE
    OBVIOUS
  <2>1. Bad \in SUBSET Nat
    BY BootAssumption
  <2>2. PICK i \in Bad : \A j \in Bad : i <= j
    <3> HIDE DEF Bad
    <3> QED
      BY <2>1, LeastElement
  <2>3. i \in 1 .. NumVars /\ i - 1 \in 0 .. NumVars
    BY <1>1, BootAssumption
  <2>4. i - 1 \notin Bad
    <3> HIDE DEF Bad
    <3> QED
      BY <2>2, <2>3, BootAssumption
  <2>5. f[i] = Onward(f[i - 1])
    BY <1>1, <2>3
  <2>6. roots \subseteq f[i]
    BY <2>3, <2>4, <2>5 DEF Onward
  <2> QED
    BY <2>6
<1> QED
  BY <1>1, <1>2, BootAssumption

(* Marking does not leave a set that has the children of its nodes.        *)
LEMMA ReachInside ==
  ASSUME NEW roots, NEW C, roots \subseteq C, \A a \in C : Children(a) \subseteq C
  PROVE  Reach(roots) \subseteq C
<1>1. PICK f : /\ f[0] = roots
               /\ \A i \in 1 .. NumVars : f[i] = Onward(f[i - 1])
               /\ Reach(roots) = f[NumVars]
  BY Layers
<1> DEFINE Bad == {i \in 0 .. NumVars : ~ (f[i] \subseteq C)}
<1>2. Bad = {}
  <2> SUFFICES ASSUME Bad # {}
               PROVE  FALSE
    OBVIOUS
  <2>1. Bad \in SUBSET Nat
    BY BootAssumption
  <2>2. PICK i \in Bad : \A j \in Bad : i <= j
    <3> HIDE DEF Bad
    <3> QED
      BY <2>1, LeastElement
  <2>3. i \in 1 .. NumVars /\ i - 1 \in 0 .. NumVars
    BY <1>1, BootAssumption
  <2>4. i - 1 \notin Bad
    <3> HIDE DEF Bad
    <3> QED
      BY <2>2, <2>3, BootAssumption
  <2>5. f[i] = Onward(f[i - 1])
    BY <1>1, <2>3
  <2>6. f[i] \subseteq C
    BY <2>3, <2>4, <2>5 DEF Onward
  <2> QED
    BY <2>6
<1> QED
  BY <1>1, <1>2, BootAssumption

(* Levels grow along a path, so that a node that is i steps away from the  *)
(* roots is below i variables or more.                                     *)
LEMMA LayersDescend ==
  ASSUME Ordered, TerminalsAgree, Typed, NEW roots \in SUBSET nodes, NEW f,
         f[0] = roots, \A i \in 1 .. NumVars : f[i] = Onward(f[i - 1])
  PROVE  \A i \in 0 .. NumVars :
           /\ f[i] \subseteq nodes
           /\ \A a \in f[i] : \/ Children(a) \subseteq f[i]
                              \/ a \notin Terminals /\ Level(a) >= i
<1> DEFINE Good(i) == /\ f[i] \subseteq nodes
                      /\ \A a \in f[i] : \/ Children(a) \subseteq f[i]
                                         \/ a \notin Terminals /\ Level(a) >= i
<1> DEFINE Bad == {i \in 0 .. NumVars : ~ Good(i)}
<1>2. Bad = {}
  <2> SUFFICES ASSUME Bad # {}
               PROVE  FALSE
    OBVIOUS
  <2>1. Bad \in SUBSET Nat
    BY BootAssumption
  <2>2. PICK i \in Bad : \A j \in Bad : i <= j
    <3> HIDE DEF Bad
    <3> QED
      BY <2>1, LeastElement
  <2>3. \A a \in nodes \ Terminals : Level(a) \in Nat
    BY DEF Ordered, Vars
  <2>4. \A a \in Terminals : Children(a) = {}
    BY DEF TerminalsAgree, Children
  <2>5. i # 0
    <3> SUFFICES ASSUME i = 0
                 PROVE  Good(0)
      OBVIOUS
    <3> QED
      BY <2>3, <2>4, BootAssumption
  <2>6. i \in 1 .. NumVars /\ i - 1 \in 0 .. NumVars
    BY <2>5, BootAssumption
  <2>7. i - 1 \notin Bad
    <3> HIDE DEF Bad
    <3> QED
      BY <2>2, <2>6, BootAssumption
  <2>8. Good(i - 1)
    BY <2>6, <2>7
  <2>9. f[i] = f[i - 1] \union UNION {Children(a) : a \in f[i - 1]}
    BY <2>6 DEF Onward
  <2>10. \A a \in nodes : Children(a) \subseteq nodes
    BY <2>4 DEF Ordered, Children
  <2>11. f[i] \subseteq nodes
    BY <2>8, <2>9, <2>10
  <2>12. ASSUME NEW a \in f[i], ~ (Children(a) \subseteq f[i])
         PROVE  a \notin Terminals /\ Level(a) >= i
    <3>1. a \notin f[i - 1]
      BY <2>9, <2>12
    <3>2. PICK b \in f[i - 1] : a \in Children(b)
      BY <2>9, <3>1
    <3>3. ~ (Children(b) \subseteq f[i - 1])
      BY <3>1, <3>2
    <3>4. b \in nodes \ Terminals /\ Level(b) >= i - 1
      BY <2>8, <3>3
    <3>5. a \notin Terminals
      BY <2>4, <2>12
    <3>6. Level(a) > Level(b)
      BY <3>2, <3>4, <3>5 DEF Ordered, Below, Children
    <3> QED
      BY <2>3, <2>6, <2>11, <3>4, <3>5, <3>6
  <2>13. Good(i)
    BY <2>11, <2>12
  <2> QED
    BY <2>13
<1> QED
  BY <1>2

(* No path is longer than the variables, so that marking is closed.        *)
LEMMA ReachClosed ==
  ASSUME Ordered, TerminalsAgree, Typed, NEW roots \in SUBSET nodes
  PROVE  /\ Reach(roots) \subseteq nodes
         /\ \A a \in Reach(roots) : Children(a) \subseteq Reach(roots)
<1>1. PICK f : /\ f[0] = roots
               /\ \A i \in 1 .. NumVars : f[i] = Onward(f[i - 1])
               /\ Reach(roots) = f[NumVars]
  BY Layers
<1>2. /\ f[NumVars] \subseteq nodes
      /\ \A a \in f[NumVars] : \/ Children(a) \subseteq f[NumVars]
                               \/ a \notin Terminals /\ Level(a) >= NumVars
  BY <1>1, LayersDescend, BootAssumption
<1>3. \A a \in nodes \ Terminals : Level(a) < NumVars
  BY BootAssumption DEF Ordered, Vars
<1>4. \A a \in nodes \ Terminals : Level(a) \in Nat
  BY DEF Ordered, Vars
<1> QED
  BY <1>1, <1>2, <1>3, <1>4, BootAssumption

-----------------------------------------------------------------------------
(* The diagram.                                                            *)

LEMMA NodesTyped ==
  ASSUME Typed
  PROVE  /\ nodes \subseteq Addr
         /\ \A a \in Addr : den[a] \in SUBSET Assignments
         /\ \A a \in Addr : key[a] = <<Level(a), Low(a), High(a)>>
         /\ \A a \in Addr : Level(a) \in Nat /\ Low(a) \in Ptr /\ High(a) \in Ptr
         /\ Null \notin nodes
<1>1. nodes \subseteq Addr /\ Null \notin nodes
  BY AddrAssumption DEF Typed, DataOK
<1>2. \A a \in Addr : den[a] \in SUBSET Assignments
  BY DEF Typed, DataOK
<1>3. ASSUME NEW a \in Addr
      PROVE  /\ key[a] = <<Level(a), Low(a), High(a)>>
             /\ Level(a) \in Nat /\ Low(a) \in Ptr /\ High(a) \in Ptr
  <2>1. key[a] \in Nat \X Ptr \X Ptr
    BY DEF Typed, DataOK
  <2> QED
    BY <2>1 DEF Level, Low, High
<1> QED
  BY <1>1, <1>2, <1>3

(* A node that tests a variable depends on it.                             *)
LEMMA LevelTested ==
  ASSUME Typed, Diagram, NEW a \in nodes \ Terminals
  PROVE  ~ Free(den[a], Level(a))
<1>1. /\ Level(a) \in Vars
      /\ Low(a) \in nodes /\ High(a) \in nodes /\ Low(a) # High(a)
      /\ Below(Low(a), Level(a)) /\ Below(High(a), Level(a))
      /\ den[a] = Mux(Level(a), den[Low(a)], den[High(a)])
  BY DEF Diagram, Ordered
<1>2. Free(den[Low(a)], Level(a)) /\ Free(den[High(a)], Level(a))
  BY <1>1 DEF Diagram, Independent
<1>3. den[Low(a)] # den[High(a)]
  BY <1>1 DEF Diagram, Canonical
<1>4. den[Low(a)] \in SUBSET Assignments /\ den[High(a)] \in SUBSET Assignments
  BY <1>1, NodesTyped
<1> QED
  BY <1>1, <1>2, <1>3, <1>4, MuxNotFree

(* So a node that does not depend on the variables down to v is below v.   *)
LEMMA FreeBelow ==
  ASSUME Typed, Diagram, NEW a \in nodes, NEW v \in Vars,
         \A u \in Vars : u <= v => Free(den[a], u)
  PROVE  Below(a, v)
<1> SUFFICES ASSUME a \notin Terminals
             PROVE  Level(a) > v
  BY DEF Below
<1>1. Level(a) \in Vars
  BY DEF Diagram, Ordered
<1>2. ~ (Level(a) <= v)
  BY <1>1, LevelTested
<1> QED
  BY <1>1, <1>2, BootAssumption DEF Vars

(* The node that is made for a key that no node has stands for a function  *)
(* that no node has.                                                       *)
LEMMA NewFunction ==
  ASSUME Typed, Diagram, NEW v \in Vars, NEW lo \in nodes, NEW hi \in nodes, lo # hi,
         Below(lo, v), Below(hi, v), NEW b \in nodes, key[b] # <<v, lo, hi>>
  PROVE  den[b] # Mux(v, den[lo], den[hi])
<1> SUFFICES ASSUME den[b] = Mux(v, den[lo], den[hi])
             PROVE  FALSE
  OBVIOUS
<1>1. /\ \A a \in nodes : den[a] \in SUBSET Assignments
      /\ key[b] = <<Level(b), Low(b), High(b)>>
  BY NodesTyped
<1>2. Free(den[lo], v) /\ Free(den[hi], v)
  BY DEF Diagram, Independent
<1>3. den[lo] # den[hi]
  BY DEF Diagram, Canonical
<1>4. ~ Free(den[b], v)
  BY <1>1, <1>2, <1>3, MuxNotFree
<1>5. b \notin Terminals /\ ~ (Level(b) > v)
  BY <1>4 DEF Diagram, Independent, Below
<1>6. /\ Level(b) \in Vars
      /\ Low(b) \in nodes /\ High(b) \in nodes
      /\ Below(Low(b), Level(b)) /\ Below(High(b), Level(b))
      /\ den[b] = Mux(Level(b), den[Low(b)], den[High(b)])
  BY <1>5 DEF Diagram, Ordered
<1>7. Level(b) \in Nat /\ v \in Nat
  BY <1>6 DEF Vars
<1>8. CASE Level(b) < v
  <2>1. Below(lo, Level(b)) /\ Below(hi, Level(b))
    <3>1. ASSUME NEW a \in nodes, Below(a, v)
          PROVE  Below(a, Level(b))
      <4>1. CASE a \in Terminals
        BY <4>1 DEF Below
      <4>2. CASE a \notin Terminals
        <5>1. Level(a) \in Nat
          BY <4>2 DEF Diagram, Ordered, Vars
        <5> QED
          BY <1>7, <1>8, <3>1, <4>2, <5>1 DEF Below
      <4> QED
        BY <4>1, <4>2
    <3> QED
      BY <3>1
  <2>2. Free(den[lo], Level(b)) /\ Free(den[hi], Level(b))
    BY <1>6, <2>1 DEF Diagram, Independent
  <2>3. Free(den[b], Level(b))
    <3>1. Level(b) # v
      BY <1>7, <1>8
    <3>2. Free(Mux(v, den[lo], den[hi]), Level(b))
      BY <1>6, <2>2, <3>1, MuxFree
    <3> QED
      BY <3>2
  <2> QED
    BY <1>5, <2>3, LevelTested
<1>9. CASE Level(b) = v
  <2>1. Free(den[Low(b)], v) /\ Free(den[High(b)], v)
    BY <1>6, <1>9 DEF Diagram, Independent
  <2>2. den[Low(b)] = den[lo] /\ den[High(b)] = den[hi]
    BY <1>1, <1>2, <1>6, <1>9, <2>1, MuxInjective
  <2>3. Low(b) = lo /\ High(b) = hi
    BY <1>6, <2>2 DEF Diagram, Canonical
  <2> QED
    BY <1>1, <1>9, <2>3
<1> QED
  BY <1>5, <1>7, <1>8, <1>9

-----------------------------------------------------------------------------
(* Calls.                                                                  *)

LEMMA TerminalsAlive ==
  ASSUME RootsAlive
  PROVE  /\ Terminals \subseteq Permanent /\ Permanent \subseteq Addr
         /\ Permanent \subseteq nodes
         /\ TrueId # Null /\ FalseId # Null
<1>1. BootLen \in Nat /\ BootLen >= 2
  BY BootAssumption DEF BootLen
<1>2. Terminals \subseteq Permanent /\ Permanent \subseteq Addr
  BY <1>1, BootAssumption DEF Terminals, TrueId, FalseId, Permanent
<1>3. Permanent \subseteq nodes
  BY <1>2 DEF RootsAlive, Rooted
<1>4. TrueId # Null /\ FalseId # Null
  BY <1>2, AddrAssumption DEF Terminals
<1> QED
  BY <1>2, <1>3, <1>4

LEMMA WantType ==
  ASSUME Typed, NEW c, OnNodes(c), c.op \in Ops
  PROVE  Want(c) \in SUBSET Assignments
<1>1. den[c.l] \in SUBSET Assignments
  BY NodesTyped DEF OnNodes
<1>2. (IF c.op = "not" THEN {} ELSE den[c.r]) \in SUBSET Assignments
  BY NodesTyped DEF OnNodes
<1> QED
  BY <1>1, <1>2, ApplyType DEF Want

(* Sorting the operands, or taking the complement of the other one, is to  *)
(* ask for the same function.                                              *)
LEMMA EffectiveSame ==
  ASSUME Typed, Diagram, RootsAlive, NEW c \in Call, OnNodes(c), c.op \in Ops
  PROVE  /\ Effective(c) \in Call
         /\ OnNodes(Effective(c))
         /\ Effective(c).op \in Ops
         /\ Want(Effective(c)) = Want(c)
<1>1. CASE c.op = "comp" /\ c.l = TrueId
  <2>1. /\ TrueMinus(c) \in Call
        /\ OnNodes(TrueMinus(c))
        /\ TrueMinus(c).op \in Ops
    BY <1>1 DEF TrueMinus, Call, OnNodes, Ptr, Null, Ops
  <2>2. Want(TrueMinus(c)) = Want(c)
    BY <1>1 DEF TrueMinus, Want, Apply, Diagram, TerminalsAgree
  <2>3. Sorted(c) = c
    BY <1>1 DEF Sorted
  <2> QED
    BY <2>1, <2>2, <2>3 DEF Effective
<1>2. CASE ~ (c.op = "comp" /\ c.l = TrueId)
  <2>1. Effective(c) = Sorted(c)
    BY <1>2 DEF Effective
  <2>2. CASE Sorted(c) = c
    BY <2>1, <2>2
  <2>3. CASE Sorted(c) # c
    <3>1. c.op \in {"and", "or"} /\ Sorted(c) = [c EXCEPT !.l = c.r, !.r = c.l]
      BY <2>3 DEF Sorted
    <3>2. Sorted(c) \in Call /\ OnNodes(Sorted(c)) /\ Sorted(c).op \in Ops
      BY <3>1 DEF Call, OnNodes
    <3>3. Want(Sorted(c)) = Want(c)
      BY <3>1 DEF Want, Apply, Call
    <3> QED
      BY <2>1, <3>2, <3>3
  <2> QED
    BY <2>2, <2>3
<1> QED
  BY <1>1, <1>2

(* A terminal case answers with the node of the function.                  *)
LEMMA TrivialAnswer ==
  ASSUME Typed, Diagram, RootsAlive, NEW c \in Call, OnNodes(c), c.op \in Ops,
         Trivial(c) # Null
  PROVE  Trivial(c) \in nodes /\ den[Trivial(c)] = Want(c)
<1>1. TrueId \in nodes /\ FalseId \in nodes /\ TrueId # Null /\ FalseId # Null
  BY TerminalsAlive DEF Terminals
<1>2. den[TrueId] = Assignments /\ den[FalseId] = {}
  BY DEF Diagram, TerminalsAgree
<1>3. c.l \in nodes /\ den[c.l] \subseteq Assignments
  BY NodesTyped DEF OnNodes
<1>4. c.op # "not" => c.r \in nodes /\ den[c.r] \subseteq Assignments
  BY NodesTyped DEF OnNodes
<1>5. CASE c.op = "not"
  BY <1>1, <1>2, <1>3, <1>5 DEF Trivial, Want, Apply
<1>6. CASE c.op = "and"
  BY <1>1, <1>2, <1>3, <1>4, <1>6 DEF Trivial, Want, Apply
<1>7. CASE c.op = "or"
  BY <1>1, <1>2, <1>3, <1>4, <1>7 DEF Trivial, Want, Apply
<1>8. CASE c.op = "comp"
  BY <1>1, <1>2, <1>3, <1>4, <1>8 DEF Trivial, Want, Apply
<1> QED
  BY <1>5, <1>6, <1>7, <1>8 DEF Ops

(* What is left to the recursion are calls on nodes that test variables.   *)
LEMMA NotTrivialProper ==
  ASSUME Typed, Diagram, RootsAlive, NEW c \in Call, OnNodes(c), c.op \in Ops,
         Trivial(Effective(c)) = Null
  PROVE  Proper(Effective(c))
<1>1. TrueId # Null /\ FalseId # Null /\ Null \notin nodes
  BY TerminalsAlive, NodesTyped
<1>2. OnNodes(Effective(c)) /\ Effective(c).op \in Ops
  BY EffectiveSame
<1>3. CASE c.op = "comp" /\ c.l = TrueId
  <2>1. Sorted(c) = c
    BY <1>3 DEF Sorted
  <2>2. Effective(c) = TrueMinus(c)
    BY <2>1, <1>3 DEF Effective
  <2>3. c.r \notin Terminals
    BY <1>1, <2>2 DEF TrueMinus, Trivial, Terminals
  <2> QED
    BY <1>2, <2>2, <2>3 DEF Proper, TrueMinus, Operands
<1>4. CASE ~ (c.op = "comp" /\ c.l = TrueId)
  <2> DEFINE e == Effective(c)
  <2>1. e = Sorted(c) /\ ~ (e.op = "comp" /\ e.l = TrueId)
    BY <1>4 DEF Effective, Sorted, Call
  <2>2. e.l \in nodes /\ (e.op # "not" => e.r \in nodes)
    BY <1>2 DEF OnNodes
  <2> HIDE DEF e
  <2>3. e.op \in Ops /\ Trivial(e) = Null
    BY <1>2 DEF e
  <2>4. e.l \notin Terminals
    BY <1>1, <2>1, <2>2, <2>3 DEF Trivial, Terminals, Ops
  <2>5. e.op # "not" => e.r \notin Terminals
    BY <1>1, <2>1, <2>2, <2>3 DEF Trivial, Terminals, Ops
  <2> QED
    BY <1>2, <2>4, <2>5 DEF Proper, Operands, e
<1> QED
  BY <1>3, <1>4

(* The topmost level of the operands.                                      *)
LEMMA TopLevelLeast ==
  ASSUME Typed, Diagram, NEW c, Proper(c)
  PROVE  /\ TopLevel(c) \in Vars
         /\ \A a \in Operands(c) : TopLevel(c) <= Level(a)
<1>1. \A a \in Operands(c) : Level(a) \in Vars /\ Level(a) \in Nat
  BY DEF Proper, OnNodes, Operands, Diagram, Ordered, Vars
<1>2. \E b \in Operands(c) : \A a \in Operands(c) : Level(b) <= Level(a)
  <2>1. c.l \in Operands(c) /\ Operands(c) \subseteq {c.l, c.r}
    BY DEF Operands
  <2>2. CASE c.r \in Operands(c)
    <3>1. Level(c.l) <= Level(c.r) \/ Level(c.r) <= Level(c.l)
      BY <1>1, <2>1, <2>2
    <3> QED
      BY <1>1, <2>1, <2>2, <3>1
  <2>3. CASE c.r \notin Operands(c)
    BY <1>1, <2>1, <2>3
  <2> QED
    BY <2>2, <2>3
<1>3. /\ TopLevel(c) \in {Level(a) : a \in Operands(c)}
      /\ \A a \in Operands(c) : TopLevel(c) <= Level(a)
  BY <1>2 DEF TopLevel
<1> QED
  BY <1>1, <1>3

(* The recursive calls are on nodes below the topmost level, and what they *)
(* return makes up the result.                                             *)
LEMMA CofactorsMakeUp ==
  ASSUME Typed, Diagram, NEW c \in Call, Proper(c)
  PROVE  /\ \A k \in {2, 3} :
              /\ Cofactor(c, k) \in Call
              /\ OnNodes(Cofactor(c, k))
              /\ Cofactor(c, k).op = c.op
              /\ \A u \in Vars : u <= TopLevel(c) => Free(Want(Cofactor(c, k)), u)
         /\ Want(c) = Mux(TopLevel(c), Want(Cofactor(c, 2)), Want(Cofactor(c, 3)))
<1> DEFINE v == TopLevel(c)
           of(a, k) == IF Level(a) = v THEN key[a][k] ELSE a
<1>1. v \in Vars /\ \A a \in Operands(c) : v <= Level(a)
  BY TopLevelLeast
<1>2. c.op \in Ops /\ Operands(c) \subseteq nodes \ Terminals
  BY DEF Proper, OnNodes, Operands
<1>3. \A k : /\ Cofactor(c, k).op = c.op
             /\ Cofactor(c, k).l = of(c.l, k)
             /\ Cofactor(c, k).r = IF c.op = "not" THEN Null ELSE of(c.r, k)
  BY DEF Cofactor, Call
<1>4. ASSUME NEW k, of(c.l, k) \in Ptr, c.op # "not" => of(c.r, k) \in Ptr
      PROVE  Cofactor(c, k) \in Call
  <2>1. \A x, y \in Ptr : [c EXCEPT !.l = x, !.r = y] \in Call
    BY DEF Call
  <2> DEFINE x == of(c.l, k)
             y == IF c.op = "not" THEN Null ELSE of(c.r, k)
  <2>2. x \in Ptr /\ y \in Ptr
    BY <1>4 DEF Ptr
  <2>3. Cofactor(c, k) = [c EXCEPT !.l = x, !.r = y]
    BY DEF Cofactor
  <2> HIDE DEF x, y
  <2> QED
    BY <2>1, <2>2, <2>3
<1> HIDE DEF v
<1>5. ASSUME NEW a \in Operands(c)
      PROVE  /\ of(a, 2) \in nodes /\ of(a, 3) \in nodes
             /\ den[a] = Mux(v, den[of(a, 2)], den[of(a, 3)])
             /\ \A k \in {2, 3}, u \in Vars : u <= v => Free(den[of(a, k)], u)
  <2>1. /\ a \in nodes \ Terminals /\ Level(a) \in Vars
        /\ v <= Level(a)
        /\ Low(a) \in nodes /\ High(a) \in nodes
        /\ Below(Low(a), Level(a)) /\ Below(High(a), Level(a))
        /\ den[a] = Mux(Level(a), den[Low(a)], den[High(a)])
    BY <1>1, <1>2 DEF Diagram, Ordered
  <2>2. v \in Nat /\ Level(a) \in Nat
    BY <1>1, <2>1 DEF Vars
  <2>3. CASE Level(a) = v
    <3>1. of(a, 2) = Low(a) /\ of(a, 3) = High(a)
      BY <2>3 DEF Low, High
    <3>2. ASSUME NEW b \in {Low(a), High(a)}, NEW u \in Vars, u <= v
          PROVE  Free(den[b], u)
      <4>1. Below(b, v) /\ b \in nodes
        BY <2>1, <2>3
      <4>2. u \in Nat
        BY DEF Vars
      <4>3. Below(b, u)
        <5>1. b \in Terminals \/ Level(b) \in Nat
          BY <4>1 DEF Diagram, Ordered, Vars
        <5> QED
          BY <2>2, <3>2, <4>1, <4>2, <5>1 DEF Below
      <4> QED
        BY <4>1, <4>3 DEF Diagram, Independent
    <3> QED
      BY <2>1, <2>3, <3>1, <3>2
  <2>4. CASE Level(a) # v
    <3>1. of(a, 2) = a /\ of(a, 3) = a
      BY <2>4
    <3>2. ASSUME NEW u \in Vars, u <= v
          PROVE  Free(den[a], u)
      <4>1. Below(a, u)
        BY <2>1, <2>2, <2>4, <3>2 DEF Below, Vars
      <4> QED
        BY <2>1, <4>1 DEF Diagram, Independent
    <3>3. den[a] = Mux(v, den[a], den[a])
      BY MuxSame
    <3> QED
      BY <2>1, <3>1, <3>2, <3>3
  <2> QED
    BY <2>3, <2>4
<1> HIDE DEF of
<1>6. c.l \in Operands(c) /\ (c.op # "not" => c.r \in Operands(c))
  BY DEF Operands
<1>7. nodes \subseteq Ptr /\ Null \in Ptr
  BY NodesTyped DEF Ptr
<1>8. ASSUME NEW k \in {2, 3}
      PROVE  /\ Cofactor(c, k) \in Call
             /\ OnNodes(Cofactor(c, k))
             /\ \A u \in Vars : u <= v => Free(Want(Cofactor(c, k)), u)
  <2>1. Cofactor(c, k) \in Call
    BY <1>2, <1>4, <1>5, <1>6, <1>7 DEF Call
  <2>2. OnNodes(Cofactor(c, k))
    BY <1>2, <1>3, <1>5, <1>6 DEF OnNodes
  <2>3. ASSUME NEW u \in Vars, u <= v
        PROVE  Free(Want(Cofactor(c, k)), u)
    <3>1. Free(den[of(c.l, k)], u)
      BY <1>5, <1>6, <2>3
    <3>2. Free(IF c.op = "not" THEN {} ELSE den[of(c.r, k)], u)
      BY <1>5, <1>6, <2>3, ConstantsFree
    <3>3. Want(Cofactor(c, k)) =
            Apply(c.op, den[of(c.l, k)], IF c.op = "not" THEN {} ELSE den[of(c.r, k)])
      BY <1>3 DEF Want
    <3> QED
      BY <1>2, <3>1, <3>2, <3>3, ApplyFree
  <2> QED
    BY <2>1, <2>2, <2>3
<1>9. Want(c) = Mux(v, Want(Cofactor(c, 2)), Want(Cofactor(c, 3)))
  <2> DEFINE right(k) == IF c.op = "not" THEN {} ELSE den[of(c.r, k)]
  <2>1. \A k : Want(Cofactor(c, k)) = Apply(c.op, den[of(c.l, k)], right(k))
    BY <1>3 DEF Want
  <2>2. Want(c) = Apply(c.op, Mux(v, den[of(c.l, 2)], den[of(c.l, 3)]),
                              Mux(v, right(2), right(3)))
    <3>1. CASE c.op = "not"
      <4>1. Mux(v, right(2), right(3)) = {}
        BY <3>1, MuxSame
      <4> QED
        BY <1>5, <1>6, <3>1, <4>1 DEF Want
    <3>2. CASE c.op # "not"
      BY <1>5, <1>6, <3>2 DEF Want
    <3> QED
      BY <3>1, <3>2
  <2>3. \A k \in {2, 3} : /\ den[of(c.l, k)] \in SUBSET Assignments
                          /\ right(k) \in SUBSET Assignments
    BY <1>5, <1>6, NodesTyped
  <2> HIDE DEF right
  <2> QED
    BY <1>1, <1>2, <2>1, <2>2, <2>3, Shannon
<1> QED
  BY <1>3, <1>8, <1>9 DEF v

=============================================================================
