-------------------------- MODULE UniqueTableProofs --------------------------
(***************************************************************************)
(* Proofs about UniqueTable, for any threads, addresses, allocator, number *)
(* of variables and hash function: the safety properties of its runs and   *)
(* that every step of the lock-free list is a step, or a stutter, of the   *)
(* atomic table of NodeSet.                                                *)
(*                                                                         *)
(* The inductive invariant describes a sorted list locally. A node's       *)
(* successor has a greater key (Linked) and, the heart of it, no published *)
(* key lies strictly between a node and its successor, nor before the head *)
(* (NoGap). A thread that stands in front of its place (Walking) and finds *)
(* its cell unchanged therefore knows that no node holds its key, whatever *)
(* happened since it looked, and that is all Canonical needs.              *)
(***************************************************************************)
EXTENDS UniqueTable, ListLemmas

Busy(t) == pc[t] \in {"head", "walk", "cas"}

SameBucket(a, b) == BucketOf(key[a]) = BucketOf(key[b])

\* Manager::init has inserted the nodes it has recorded, and no other thread
\* runs before it is over.
Booting ==
  /\ Len(boot) <= BootLen
  /\ \A i \in 1 .. Len(boot) : boot[i] \in published
  /\ ~Booted => \A t \in Threads :
                  /\ freeId[t] = Null
                  /\ t # Main => pc[t] = "idle"

\* The node a call works on and the spare of a thread are out of reach of the
\* other threads until they are published.
Private ==
  /\ \A t \in Threads :
       /\ mine[t] \in allocated \union {Null}
       /\ freeId[t] \in allocated \union {Null}
       /\ Busy(t) => mine[t] # Null /\ mine[t] \notin published
       /\ pc[t] = "count" => mine[t] \in published
       /\ Booted /\ pc[t] # "idle" => mine[t] = freeId[t]
  /\ SparesPrivate

\* Every pointer of the table leads to a node of the same bucket with a greater
\* key.
Linked ==
  /\ \A b \in Buckets :
       head[b] # Null => head[b] \in published /\ BucketOf(key[head[b]]) = b
  /\ \A a \in published :
       next[a] # Null =>
         /\ next[a] \in published
         /\ SameBucket(a, next[a])
         /\ KeyLess(key[a], key[next[a]])

\* No published node lies between a cell and what it points to.
NoGap ==
  \A m \in published :
    /\ head[BucketOf(key[m])] # Null
    /\ ~KeyLess(key[m], key[head[BucketOf(key[m])]])
    /\ \A a \in published :
         SameBucket(a, m) /\ KeyLess(key[a], key[m]) =>
           next[a] # Null /\ ~KeyLess(key[m], key[next[a]])

\* Where a thread stands in the list of its bucket.
Walking ==
  \A t \in Threads :
    pc[t] \in {"walk", "cas"} =>
      /\ prev[t] # Null =>
           /\ prev[t] \in published
           /\ SameBucket(prev[t], mine[t])
           /\ KeyLess(key[prev[t]], key[mine[t]])
      /\ curr[t] # Null => curr[t] \in published /\ SameBucket(curr[t], mine[t])
      /\ pc[t] = "cas" =>
           /\ next[mine[t]] = curr[t]
           /\ curr[t] # Null => KeyLess(key[mine[t]], key[curr[t]])

Inv ==
  /\ TypeOK
  /\ Booting
  /\ Private
  /\ Linked
  /\ NoGap
  /\ Canonical
  /\ Walking
  /\ ResultIsRequested

-----------------------------------------------------------------------------
(* Keys.                                                                   *)

\* The order of keys is a strict total order.
LEMMA KeyOrder ==
  \A k, l, m \in Key :
    /\ ~KeyLess(k, k)
    /\ KeyLess(k, l) /\ KeyLess(l, m) => KeyLess(k, m)
    /\ k = l \/ KeyLess(k, l) \/ KeyLess(l, k)
<1> SUFFICES ASSUME NEW k \in Key, NEW l \in Key, NEW m \in Key
             PROVE  /\ ~KeyLess(k, k)
                    /\ KeyLess(k, l) /\ KeyLess(l, m) => KeyLess(k, m)
                    /\ k = l \/ KeyLess(k, l) \/ KeyLess(l, k)
  OBVIOUS
<1>1. \A x \in Key : /\ x = <<x[1], x[2], x[3]>>
                     /\ x[1] \in Nat /\ x[2] \in Nat /\ x[3] \in Nat
  <2>1. Levels \subseteq Nat /\ Ptr \subseteq Nat
    BY AddrAssumption, NumVarsAssumption DEF Levels, Ptr, Null
  <2>2. \A x \in Key : /\ x = <<x[1], x[2], x[3]>>
                       /\ x[1] \in Levels /\ x[2] \in Ptr /\ x[3] \in Ptr
    BY DEF Key
  <2> QED
    BY <2>1, <2>2
<1>2. /\ k[1] \in Nat /\ k[2] \in Nat /\ k[3] \in Nat
      /\ l[1] \in Nat /\ l[2] \in Nat /\ l[3] \in Nat
      /\ m[1] \in Nat /\ m[2] \in Nat /\ m[3] \in Nat
  BY <1>1
<1>3. ~KeyLess(k, k)
  BY <1>2 DEF KeyLess
<1>4. KeyLess(k, l) /\ KeyLess(l, m) => KeyLess(k, m)
  BY <1>2 DEF KeyLess
<1>5. k[1] = l[1] /\ k[2] = l[2] /\ k[3] = l[3] => k = l
  BY <1>1
<1>6. k = l \/ KeyLess(k, l) \/ KeyLess(l, k)
  BY <1>2, <1>5 DEF KeyLess
<1> QED
  BY <1>3, <1>4, <1>6

LEMMA BucketType == \A k \in Key : BucketOf(k) \in Buckets
BY HashAssumption DEF BucketOf, Buckets

LEMMA KeyIsNotNoKey == \A k \in Key : k # NoKey
BY DEF Key, NoKey

\* The keys of Manager::init.
LEMMA BootKeyType ==
  ASSUME Inv, ~Booted
  PROVE  BootKey(Len(boot) + 1) \in Key
<1> DEFINE i == Len(boot) + 1
<1>1. i \in 1 .. 2 + 2 * NumVars
  BY NumVarsAssumption DEF Inv, Booting, Booted, BootLen, TypeOK
<1>2. CASE i = 1
  BY <1>2, NumVarsAssumption DEF BootKey, TrueKey, Key, Levels, Ptr
<1>3. CASE i = 2
  BY <1>3, NumVarsAssumption DEF BootKey, FalseKey, Key, Levels, Ptr
<1>4. CASE i > 2
  <2>1. TrueId \in Ptr /\ FalseId \in Ptr
    BY <1>1, <1>4 DEF Inv, TypeOK, TrueId, FalseId, Ptr
  <2>2. i % 2 = 0 \/ i % 2 = 1
    BY <1>1
  <2>3. (i - 3) \div 2 \in Levels
    BY <1>1, <1>4, NumVarsAssumption DEF Levels
  <2>4. i % 2 = 0 => (i - 4) \div 2 \in Levels
    BY <1>1, <1>4, NumVarsAssumption DEF Levels
  <2>5. CASE i % 2 = 1
    <3>1. BootKey(i) = <<(i - 3) \div 2, FalseId, TrueId>>
      BY <1>4, <2>5 DEF BootKey
    <3> QED
      BY <3>1, <2>1, <2>3 DEF Key
  <2>6. CASE i % 2 = 0
    <3>1. BootKey(i) = <<(i - 4) \div 2, TrueId, FalseId>>
      BY <1>4, <2>6 DEF BootKey
    <3> QED
      BY <3>1, <2>1, <2>4, <2>6 DEF Key
  <2> QED
    BY <2>2, <2>5, <2>6
<1> QED
  BY <1>1, <1>2, <1>3, <1>4

LEMMA MallocFresh ==
  \A a \in Malloc(Addr \ allocated) : a \in Addr \ allocated /\ a # Null
<1> DEFINE free == Addr \ allocated
<1>1. free \in SUBSET Addr
  OBVIOUS
<1>2. Malloc(free) \subseteq free
  BY <1>1, AddrAssumption
<1>3. free \subseteq Nat \ {Null}
  BY AddrAssumption
<1> QED
  BY <1>2, <1>3

-----------------------------------------------------------------------------
(* The steps.                                                              *)

LEMMA InitInv == Init => Inv
<1> SUFFICES ASSUME Init PROVE Inv
  OBVIOUS
<1>1. <<0, Null, Null>> \in Key
  BY NumVarsAssumption DEF Key, Levels, Ptr
<1>2. TypeOK
  BY <1>1 DEF Init, TypeOK, Ptr, Steps
<1>3. Booting
  BY NumVarsAssumption DEF Init, Booting, BootLen
<1>4. Private
  BY DEF Init, Private, SparesPrivate, Busy
<1>5. Linked /\ NoGap /\ Canonical /\ Walking /\ ResultIsRequested
  BY DEF Init, Linked, NoGap, Canonical, Walking, ResultIsRequested
<1> QED
  BY <1>2, <1>3, <1>4, <1>5 DEF Inv

\* The beginning of a call on a node of its own changes nothing that another
\* thread relies on.
LEMMA BeginKeeps ==
  ASSUME Inv, NEW t \in Threads, NEW a \in Addr, NEW k \in Key,
         BeginInsert(t, a, k), a \notin published,
         \A u \in Threads \ {t} : mine[u] # a
  PROVE  /\ Linked' /\ NoGap' /\ Canonical' /\ Walking' /\ ResultIsRequested'
         /\ key' \in [Addr -> Key] /\ mine' \in [Threads -> Ptr]
         /\ ret' \in [Threads -> Ptr] /\ pc' \in [Threads -> Steps]
<1> USE DEF Inv, TypeOK
<1>1. /\ published \subseteq Addr
      /\ \A x \in published : key'[x] = key[x]
      /\ UNCHANGED <<published, head, next>>
  BY DEF BeginInsert
<1>2. Linked'
  BY <1>1 DEF Linked, SameBucket
<1>3. NoGap'
  BY <1>1, BucketType DEF NoGap, SameBucket, Linked
<1>4. Canonical'
  BY <1>1 DEF Canonical
<1>5. \A u \in Threads \ {t} : /\ mine'[u] = mine[u]
                               /\ mine[u] # Null => key'[mine[u]] = key[mine[u]]
                               /\ pc'[u] = pc[u] /\ ret'[u] = ret[u]
  BY DEF BeginInsert, Ptr
<1>6. Walking'
  <2> SUFFICES ASSUME NEW u \in Threads, pc'[u] \in {"walk", "cas"}
               PROVE  Walking!(u)'
    BY DEF Walking
  <2>1. u # t
    BY DEF BeginInsert
  <2>2. mine[u] # Null
    BY <2>1, <1>5 DEF Private, Busy
  <2> QED
    BY <2>1, <2>2, <1>1, <1>5 DEF Walking, SameBucket, BeginInsert
<1>7. ResultIsRequested'
  BY <1>1, <1>5 DEF ResultIsRequested, BeginInsert
<1>8. key' \in [Addr -> Key] /\ mine' \in [Threads -> Ptr]
      /\ ret' \in [Threads -> Ptr] /\ pc' \in [Threads -> Steps]
  BY DEF BeginInsert, Ptr, Steps
<1> QED
  BY <1>2, <1>3, <1>4, <1>6, <1>7, <1>8

LEMMA BootInsertStep ==
  ASSUME Inv, NEW t \in Threads, BootInsert(t)
  PROVE  Inv'
<1>1. PICK a \in Malloc(Addr \ allocated) :
        /\ allocated' = allocated \union {a}
        /\ BeginInsert(t, a, BootKey(Len(boot) + 1))
  BY DEF BootInsert
<1>2. a \in Addr \ allocated /\ a # Null
  BY MallocFresh
<1>3. a \notin published /\ \A u \in Threads \ {t} : mine[u] # a
  BY <1>2 DEF Inv, TypeOK, Private
<1>4. BootKey(Len(boot) + 1) \in Key
  BY BootKeyType DEF BootInsert
<1>5. /\ Linked' /\ NoGap' /\ Canonical' /\ Walking' /\ ResultIsRequested'
      /\ key' \in [Addr -> Key] /\ mine' \in [Threads -> Ptr]
      /\ ret' \in [Threads -> Ptr] /\ pc' \in [Threads -> Steps]
  BY <1>1, <1>2, <1>3, <1>4, BeginKeeps
<1>6. TypeOK'
  BY <1>1, <1>2, <1>5 DEF Inv, TypeOK, BeginInsert, BootInsert
<1>7. ~Booted /\ ~Booted' /\ boot' = boot /\ freeId' = freeId /\ t = Main
  BY DEF BootInsert, Booted
<1>8. Booting'
  BY <1>1, <1>7 DEF Inv, TypeOK, Booting, BeginInsert
<1>9. \A u \in Threads : freeId'[u] = Null
  BY <1>7 DEF Inv, Booting
<1>10. Private'
  BY <1>1, <1>2, <1>3, <1>7, <1>9
     DEF Inv, TypeOK, Private, SparesPrivate, Busy, BeginInsert
<1> QED
  BY <1>5, <1>6, <1>8, <1>10 DEF Inv

\* make_node works on a node that no other thread has and that is not in the
\* table.
LEMMA MakeNodeOwns ==
  ASSUME Inv, NEW t \in Threads, NEW k \in Key, MakeNode(t, k)
  PROVE  \E a \in Addr :
           /\ BeginInsert(t, a, k)
           /\ a \notin published
           /\ \A u \in Threads \ {t} : a \notin {mine[u], freeId[u]}
           /\ allocated' = allocated \union {a}
           /\ freeId' = [freeId EXCEPT ![t] = a]
<1>1. CASE freeId[t] = Null
  <2>1. PICK a \in Malloc(Addr \ allocated) :
          /\ allocated' = allocated \union {a}
          /\ freeId' = [freeId EXCEPT ![t] = a]
          /\ BeginInsert(t, a, k)
    BY <1>1 DEF MakeNode, Spare
  <2>2. a \in Addr \ allocated /\ a # Null
    BY MallocFresh
  <2>3. a \notin published /\ \A u \in Threads : a \notin {mine[u], freeId[u]}
    BY <2>2 DEF Inv, TypeOK, Private
  <2> QED
    BY <2>1, <2>2, <2>3
<1>2. CASE freeId[t] # Null
  <2>1. /\ BeginInsert(t, freeId[t], k)
        /\ pc[t] = "idle"
        /\ UNCHANGED <<allocated, freeId>>
    BY <1>2 DEF MakeNode, Spare
  <2>2. freeId[t] \in Addr /\ freeId[t] \in allocated
    BY <1>2 DEF Inv, TypeOK, Private, Ptr
  <2>3. /\ freeId[t] \notin published
        /\ \A u \in Threads \ {t} : freeId[t] \notin {mine[u], freeId[u]}
    BY <1>2, <2>1 DEF Inv, Private, SparesPrivate
  <2>4. freeId' = [freeId EXCEPT ![t] = freeId[t]]
    BY <2>1 DEF Inv, TypeOK
  <2>5. allocated' = allocated \union {freeId[t]}
    BY <2>1, <2>2
  <2> QED
    BY <2>1, <2>2, <2>3, <2>4, <2>5
<1> QED
  BY <1>1, <1>2

LEMMA MakeNodeStep ==
  ASSUME Inv, NEW t \in Threads, NEW k \in Key, MakeNode(t, k)
  PROVE  Inv'
<1>1. PICK a \in Addr :
        /\ BeginInsert(t, a, k)
        /\ a \notin published
        /\ \A u \in Threads \ {t} : a \notin {mine[u], freeId[u]}
        /\ allocated' = allocated \union {a}
        /\ freeId' = [freeId EXCEPT ![t] = a]
  BY MakeNodeOwns
<1>2. a # Null /\ Booted /\ Booted' /\ boot' = boot
  BY AddrAssumption DEF MakeNode, Booted
<1>3. /\ Linked' /\ NoGap' /\ Canonical' /\ Walking' /\ ResultIsRequested'
      /\ key' \in [Addr -> Key] /\ mine' \in [Threads -> Ptr]
      /\ ret' \in [Threads -> Ptr] /\ pc' \in [Threads -> Steps]
  BY <1>1, BeginKeeps
<1>4. TypeOK'
  BY <1>1, <1>2, <1>3 DEF Inv, TypeOK, BeginInsert, Ptr
<1>5. Booting'
  BY <1>1, <1>2 DEF Inv, Booting, BeginInsert
<1>6. Private'
  <2>1. /\ \A u \in Threads \ {t} : /\ mine'[u] = mine[u] /\ freeId'[u] = freeId[u]
                                    /\ pc'[u] = pc[u]
        /\ mine'[t] = a /\ freeId'[t] = a /\ pc'[t] = "head"
        /\ published' = published
    BY <1>1 DEF Inv, TypeOK, BeginInsert
  <2>2. SparesPrivate'
    BY <2>1, <1>1, <1>2 DEF Inv, Private, SparesPrivate
  <2> QED
    BY <2>1, <2>2, <1>1, <1>2 DEF Inv, Private, Busy
<1> QED
  BY <1>3, <1>4, <1>5, <1>6 DEF Inv

LEMMA MakeNoNodeStep ==
  ASSUME Inv, NEW t \in Threads, NEW k \in Key, MakeNoNode(t, k)
  PROVE  Inv'
<1>1. /\ UNCHANGED <<tableVars, pc, prev, curr, allocated, boot, freeId>>
      /\ mine' = [mine EXCEPT ![t] = Null] /\ pc[t] = "idle"
      /\ ret' = [ret EXCEPT ![t] = k[2]] /\ k[2] \in published /\ Booted
  BY DEF MakeNoNode, IsRequest
<1>2. published \subseteq Addr
  BY DEF Inv, TypeOK
<1>3. TypeOK'
  BY <1>1, <1>2 DEF Inv, TypeOK, tableVars, Ptr
<1>4. Booting' /\ Linked' /\ NoGap' /\ Canonical'
  BY <1>1 DEF Inv, tableVars, Booting, Booted, Linked, NoGap, Canonical, SameBucket
<1>5. \A u \in Threads : /\ u # t => mine'[u] = mine[u] /\ ret'[u] = ret[u]
                        /\ u = t => mine'[u] = Null /\ ret'[u] = k[2]
  BY <1>1 DEF Inv, TypeOK
<1>6. Private'
  BY <1>1, <1>5 DEF Inv, tableVars, Private, SparesPrivate, Busy, Booted
<1>7. Walking'
  BY <1>1, <1>5 DEF Inv, tableVars, Walking, SameBucket
<1>8. ResultIsRequested'
  BY <1>1, <1>5 DEF Inv, tableVars, ResultIsRequested
<1> QED
  BY <1>3, <1>4, <1>6, <1>7, <1>8 DEF Inv

\* A step that only moves a thread along its list.
LEMMA WalkKeeps ==
  ASSUME Inv, NEW t \in Threads,
         UNCHANGED <<head, key, published, mine, allocated, boot, freeId>>,
         \A a \in published : next'[a] = next[a],
         Busy(t), pc' \in [Threads -> Steps], Busy(t)',
         \A u \in Threads \ {t} : pc'[u] = pc[u]
  PROVE  Booting' /\ Private' /\ Linked' /\ NoGap' /\ Canonical'
<1>1. ~Booted => t = Main
  BY DEF Inv, Booting, Busy
<1>2. Booting'
  BY <1>1 DEF Inv, Booting, Booted
<1>3. Private'
  BY <1>1 DEF Inv, Private, SparesPrivate, Busy, Booted
<1>4. Linked' /\ Canonical'
  BY DEF Inv, Linked, Canonical, SameBucket
<1>5. NoGap'
  BY DEF Inv, NoGap, SameBucket
<1> QED
  BY <1>2, <1>3, <1>4, <1>5

LEMMA LoadHeadStep ==
  ASSUME Inv, NEW t \in Threads, LoadHead(t)
  PROVE  Inv'
<1> USE DEF Inv, TypeOK
<1>1. key[mine[t]] \in Key /\ Bucket(t) \in Buckets
  BY BucketType DEF LoadHead, Private, Busy, Bucket, Ptr
<1>2. TypeOK'
  BY <1>1 DEF LoadHead, tableVars, Ptr, Steps
<1>3. Booting' /\ Private' /\ Linked' /\ NoGap' /\ Canonical'
  BY <1>2, WalkKeeps DEF LoadHead, tableVars, Busy
<1>4. Walking'
  BY <1>1 DEF LoadHead, tableVars, Walking, Linked, SameBucket, Bucket
<1>5. ResultIsRequested'
  BY DEF LoadHead, tableVars, ResultIsRequested
<1> QED
  BY <1>2, <1>3, <1>4, <1>5

LEMMA WalkOnStep ==
  ASSUME Inv, NEW t \in Threads, WalkOn(t)
  PROVE  Inv'
<1> USE DEF Inv, TypeOK
<1>1. /\ curr[t] \in published /\ SameBucket(curr[t], mine[t])
      /\ KeyLess(key[curr[t]], key[mine[t]])
  BY DEF WalkOn, Walking
<1>2. TypeOK'
  BY <1>1 DEF WalkOn, tableVars, Ptr
<1>3. Booting' /\ Private' /\ Linked' /\ NoGap' /\ Canonical'
  BY <1>2, WalkKeeps DEF WalkOn, tableVars, Busy
<1>4. Walking'
  BY <1>1 DEF WalkOn, tableVars, Walking, Linked, SameBucket
<1>5. ResultIsRequested'
  BY DEF WalkOn, tableVars, ResultIsRequested
<1> QED
  BY <1>2, <1>3, <1>4, <1>5

LEMMA WalkStopStep ==
  ASSUME Inv, NEW t \in Threads, WalkStop(t)
  PROVE  Inv'
<1> USE DEF Inv, TypeOK
<1>1. mine[t] \in Addr /\ mine[t] \notin published
  BY DEF WalkStop, Private, Busy, Ptr
<1>2. TypeOK'
  BY <1>1 DEF WalkStop, Successor, Steps
<1>3. \A a \in published : next'[a] = next[a]
  BY <1>1 DEF WalkStop
<1>4. Booting' /\ Private' /\ Linked' /\ NoGap' /\ Canonical'
  BY <1>2, <1>3, WalkKeeps DEF WalkStop, Busy
<1>5. \A u \in Threads \ {t} : Busy(u) => mine[u] # mine[t]
  BY DEF WalkStop, Private, SparesPrivate, Busy, Booting
<1>6. Walking'
  <2> SUFFICES ASSUME NEW u \in Threads, pc'[u] \in {"walk", "cas"}
               PROVE  Walking!(u)'
    BY DEF Walking
  <2>1. CASE u = t
    BY <2>1, <1>1 DEF WalkStop, Successor, Walking, SameBucket
  <2>2. CASE u # t
    <3>1. next'[mine[u]] = next[mine[u]]
      BY <2>2, <1>5 DEF WalkStop, Private, Busy, Ptr
    <3> QED
      BY <2>2, <3>1 DEF WalkStop, Walking, SameBucket
  <2> QED
    BY <2>1, <2>2
<1>7. ResultIsRequested'
  BY DEF WalkStop, ResultIsRequested
<1> QED
  BY <1>2, <1>4, <1>6, <1>7

LEMMA CasFailStep ==
  ASSUME Inv, NEW t \in Threads, CasFail(t)
  PROVE  Inv'
<1> USE DEF Inv, TypeOK
<1>1. TypeOK'
  BY DEF CasFail, tableVars, Retry, Steps
<1>2. Booting' /\ Private' /\ Linked' /\ NoGap' /\ Canonical'
  BY <1>1, WalkKeeps DEF CasFail, tableVars, Retry, Busy
<1>3. Walking' /\ ResultIsRequested'
  BY DEF CasFail, tableVars, Retry, Walking, SameBucket, ResultIsRequested
<1> QED
  BY <1>1, <1>2, <1>3

LEMMA WalkFoundStep ==
  ASSUME Inv, NEW t \in Threads, WalkFound(t)
  PROVE  Inv'
<1> USE DEF Inv, TypeOK
<1>1. /\ curr[t] \in published /\ key[curr[t]] = key[mine[t]]
      /\ pc' = [pc EXCEPT ![t] = "idle"] /\ ret' = [ret EXCEPT ![t] = curr[t]]
      /\ prev' = [prev EXCEPT ![t] = Null] /\ curr' = [curr EXCEPT ![t] = Null]
      /\ UNCHANGED <<head, next, key, published, mine, allocated, boot, freeId,
                     numEntry>>
  BY DEF WalkFound, Walking, Return, Present, EntriesIfFound
<1>2. TypeOK'
  BY <1>1 DEF Steps, Ptr
<1>3. Booting' /\ Linked' /\ NoGap' /\ Canonical'
  BY <1>1 DEF Booting, Booted, Linked, NoGap, Canonical, SameBucket
<1>4. Private'
  BY <1>1 DEF WalkFound, Private, SparesPrivate, Busy, Booted
<1>5. Walking' /\ ResultIsRequested'
  BY <1>1 DEF Walking, SameBucket, ResultIsRequested
<1> QED
  BY <1>2, <1>3, <1>4, <1>5

LEMMA CountStep ==
  ASSUME Inv, NEW t \in Threads, Count(t)
  PROVE  Inv'
<1> USE DEF Inv, TypeOK
<1>1. /\ pc[t] = "count" /\ mine[t] \in published
      /\ pc' = [pc EXCEPT ![t] = "idle"] /\ ret' = [ret EXCEPT ![t] = mine[t]]
      /\ prev' = [prev EXCEPT ![t] = Null] /\ curr' = [curr EXCEPT ![t] = Null]
      /\ UNCHANGED <<head, next, key, published, mine>>
      /\ numEntry' = numEntry + 1
  BY DEF Count, Private, Return
<1>2. Linked' /\ NoGap' /\ Canonical' /\ Walking' /\ ResultIsRequested'
  BY <1>1 DEF Linked, NoGap, Canonical, SameBucket, Walking, ResultIsRequested
<1>3. CASE Booted
  <2>1. PICK a \in Malloc(Addr \ allocated) :
          /\ allocated' = allocated \union {a}
          /\ freeId' = [freeId EXCEPT ![t] = a]
          /\ boot' = boot
    BY <1>3 DEF Count, Renewed
  <2>2. a \in Addr \ allocated /\ a # Null
    BY MallocFresh
  <2>3. TypeOK'
    BY <1>1, <2>1, <2>2 DEF Steps, Ptr
  <2>4. Booting'
    BY <1>1, <1>3, <2>1 DEF Booting, Booted
  <2>5. a \notin published /\ \A u \in Threads : a \notin {mine[u], freeId[u]}
    BY <2>2 DEF Private
  <2>6. Private'
    BY <1>1, <1>3, <2>1, <2>2, <2>5 DEF Private, SparesPrivate, Busy, Booted
  <2> QED
    BY <1>2, <2>3, <2>4, <2>6
<1>4. CASE ~Booted
  <2>1. boot' = Append(boot, mine[t]) /\ UNCHANGED <<allocated, freeId>>
    BY <1>4 DEF Count, Inserted
  <2>2. mine[t] \in Addr
    BY <1>1
  <2>3. TypeOK'
    BY <1>1, <2>1, <2>2 DEF Steps, Ptr
  <2>4. t = Main /\ \A u \in Threads : freeId[u] = Null /\ (u # Main => pc[u] = "idle")
    BY <1>1, <1>4 DEF Booting
  <2>5. Len(boot') = Len(boot) + 1 /\ Len(boot) + 1 <= BootLen
    BY <1>4, <2>1, <2>2, NumVarsAssumption DEF Booting, Booted, BootLen
  <2>6. \A i \in 1 .. Len(boot') : boot'[i] \in published
    BY <1>1, <2>1, <2>2, <2>5 DEF Booting
  <2>7. Booting'
    BY <1>1, <2>1, <2>4, <2>5, <2>6 DEF Booting, Booted
  <2>8. Private'
    BY <1>1, <2>1, <2>4 DEF Private, SparesPrivate, Busy
  <2> QED
    BY <1>2, <2>3, <2>7, <2>8
<1> QED
  BY <1>3, <1>4

\* The exchange: the new node goes between its cell and what the cell still
\* points to.
LEMMA CasOkStep ==
  ASSUME Inv, NEW t \in Threads, CasOk(t)
  PROVE  Inv'
<1> DEFINE n == mine[t]
           p == prev[t]
           c == curr[t]
           K(a) == key[a]
           B(a) == BucketOf(key[a])
<1> USE DEF Inv, TypeOK
<1>1. /\ n \in Addr /\ n \notin published /\ n \in allocated
      /\ published \subseteq Addr
      /\ \A a \in published \union {n} : K(a) \in Key /\ B(a) \in Buckets
  BY BucketType DEF CasOk, Private, Busy, Ptr
<1>2. /\ next[n] = c
      /\ c # Null => c \in published /\ B(c) = B(n) /\ KeyLess(K(n), K(c))
      /\ p # Null => p \in published /\ B(p) = B(n) /\ KeyLess(K(p), K(n))
      /\ p = Null => head[B(n)] = c
      /\ p # Null => next[p] = c
  BY DEF CasOk, Walking, Cell, SameBucket, Bucket
<1>3. /\ published' = published \union {n} /\ key' = key /\ mine' = mine
      /\ pc' = [pc EXCEPT ![t] = "count"]
      /\ UNCHANGED <<numEntry, prev, curr, ret, allocated, boot, freeId>>
      /\ p = Null => next' = next /\ head' = [head EXCEPT ![B(n)] = n]
      /\ p # Null => head' = head /\ next' = [next EXCEPT ![p] = n]
  BY DEF CasOk, Bucket
<1>4. TypeOK'
  BY <1>1, <1>2, <1>3 DEF Steps, Ptr
<1>5. \A u \in Threads \ {t} : Busy(u) => mine[u] # n
  BY DEF CasOk, Private, SparesPrivate, Busy, Booting
<1>6. Booting'
  BY <1>3 DEF CasOk, Booting, Booted
<1>7. Private'
  <2>1. /\ \A u \in Threads \ {t} : pc'[u] = pc[u]
        /\ pc'[t] = "count" /\ pc[t] = "cas"
    BY <1>3 DEF CasOk
  <2>2. \A u \in Threads \ {t} : freeId[u] # Null => freeId[u] # n
    BY <1>1, AddrAssumption DEF Private, SparesPrivate
  <2>3. SparesPrivate'
    BY <1>3, <2>1, <2>2 DEF Private, SparesPrivate
  <2> QED
    BY <1>1, <1>3, <1>5, <2>1, <2>3 DEF Private, Busy, Booted
<1>8. Linked'
  <2>1. \A b \in Buckets : head'[b] # Null =>
          head'[b] \in published' /\ BucketOf(key'[head'[b]]) = b
    BY <1>1, <1>3 DEF Linked
  <2>2. ASSUME NEW a \in published', next'[a] # Null
        PROVE  /\ next'[a] \in published'
               /\ B(a) = B(next'[a]) /\ KeyLess(K(a), K(next'[a]))
    <3>1. CASE a = p
      BY <1>1, <1>2, <1>3, <2>2, <3>1, AddrAssumption
    <3>2. CASE a # p /\ a = n
      BY <1>1, <1>2, <1>3, <2>2, <3>2
    <3>3. CASE a # p /\ a # n
      BY <1>1, <1>3, <2>2, <3>3 DEF Linked, SameBucket
    <3> QED
      BY <3>1, <3>2, <3>3
  <2> QED
    BY <1>3, <2>1, <2>2 DEF Linked, SameBucket
<1>9. ASSUME NEW m \in published, B(m) = B(n)
      PROVE  /\ K(m) # K(n)
             /\ p = Null => KeyLess(K(n), K(m))
             /\ p # Null /\ KeyLess(K(p), K(m)) => KeyLess(K(n), K(m))
             /\ KeyLess(K(n), K(m)) => c # Null /\ ~KeyLess(K(m), K(c))
  <2> HIDE DEF n, p, c
  <2>1. K(m) \in Key /\ K(n) \in Key /\ (c # Null => K(c) \in Key)
                    /\ (p # Null => K(p) \in Key)
    BY <1>1, <1>2
  <2>2. CASE p = Null
    <3>1. c # Null /\ ~KeyLess(K(m), K(c))
      BY <1>2, <1>9, <2>2 DEF NoGap
    <3> QED
      BY <1>2, <2>1, <2>2, <3>1, KeyOrder
  <2>3. CASE p # Null
    <3>1. KeyLess(K(p), K(m)) => c # Null /\ ~KeyLess(K(m), K(c))
      BY <1>2, <1>9, <2>3 DEF NoGap, SameBucket
    <3>2. KeyLess(K(p), K(m)) => KeyLess(K(n), K(m))
      BY <1>2, <2>1, <3>1, KeyOrder
    <3>3. ~KeyLess(K(p), K(m)) => KeyLess(K(m), K(n))
      BY <1>2, <2>1, <2>3, KeyOrder
    <3> QED
      BY <2>1, <2>3, <3>1, <3>2, <3>3, KeyOrder
  <2> QED
    BY <2>2, <2>3
<1>10. Canonical'
  BY <1>1, <1>3, <1>9 DEF Canonical
<1>11. NoGap'
  <2> SUFFICES ASSUME NEW m \in published'
               PROVE  /\ head'[B(m)] # Null /\ ~KeyLess(K(m), K(head'[B(m)]))
                      /\ \A a \in published' :
                           B(a) = B(m) /\ KeyLess(K(a), K(m)) =>
                             next'[a] # Null /\ ~KeyLess(K(m), K(next'[a]))
    BY <1>3 DEF NoGap, SameBucket
  <2> HIDE DEF n, p, c
  <2>0. n # Null
    BY <1>1, AddrAssumption
  <2>1. head'[B(m)] # Null /\ ~KeyLess(K(m), K(head'[B(m)]))
    <3>1. CASE m = n /\ p = Null
      BY <1>1, <1>3, <2>0, <3>1, KeyOrder
    <3>2. CASE m = n /\ p # Null
      <4>1. head[B(n)] # Null /\ ~KeyLess(K(p), K(head[B(n)]))
        BY <1>2, <3>2 DEF NoGap
      <4>2. head[B(n)] \in published
        BY <1>1, <4>1 DEF Linked
      <4>3. ~KeyLess(K(n), K(head[B(n)]))
        BY <1>1, <1>2, <3>2, <4>1, <4>2, KeyOrder
      <4> QED
        BY <1>3, <3>2, <4>1, <4>3
    <3>3. CASE m # n /\ p = Null /\ B(m) = B(n)
      <4>1. head'[B(m)] = n /\ KeyLess(K(n), K(m))
        BY <1>1, <1>3, <1>9, <3>3
      <4> QED
        BY <1>1, <1>3, <2>0, <4>1, KeyOrder
    <3>4. CASE m # n /\ (p # Null \/ B(m) # B(n))
      <4>1. head'[B(m)] = head[B(m)] /\ m \in published
        BY <1>1, <1>3, <3>4
      <4> QED
        BY <4>1 DEF NoGap
    <3> QED
      BY <3>1, <3>2, <3>3, <3>4
  <2>2. ASSUME NEW a \in published', B(a) = B(m), KeyLess(K(a), K(m))
        PROVE  next'[a] # Null /\ ~KeyLess(K(m), K(next'[a]))
    <3>1. CASE a = p /\ p # Null
      <4>1. next'[a] = n
        BY <1>1, <1>2, <1>3, <3>1
      <4>2. m # n => KeyLess(K(n), K(m))
        BY <1>2, <1>3, <1>9, <2>2, <3>1
      <4> QED
        BY <1>1, <1>3, <2>0, <4>1, <4>2, KeyOrder
    <3>2. CASE a = n
      <4>1. m # n
        BY <1>1, <2>2, <3>2, KeyOrder
      <4>2. next'[a] = c
        BY <1>1, <1>2, <1>3, <3>2
      <4> QED
        BY <1>3, <1>9, <2>2, <3>2, <4>1, <4>2
    <3>3. CASE a # n /\ (a # p \/ p = Null) /\ m # n
      <4>1. next'[a] = next[a] /\ a \in published /\ m \in published
        BY <1>1, <1>3, <3>3, AddrAssumption
      <4> QED
        BY <2>2, <4>1 DEF NoGap, SameBucket
    <3>4. CASE a # n /\ (a # p \/ p = Null) /\ m = n
      <4>1. next'[a] = next[a] /\ a \in published
        BY <1>1, <1>3, <3>4, AddrAssumption
      <4>2. ~KeyLess(K(n), K(a))
        BY <1>1, <2>2, <3>4, <4>1, KeyOrder
      <4>3. p # Null /\ ~KeyLess(K(p), K(a)) /\ a # p
        BY <1>9, <2>2, <3>4, <4>1, <4>2
      <4>4. KeyLess(K(a), K(p))
        BY <1>1, <1>2, <4>1, <4>3, KeyOrder DEF Canonical
      <4>5. next[a] # Null /\ ~KeyLess(K(p), K(next[a]))
        BY <1>2, <2>2, <3>4, <4>1, <4>3, <4>4 DEF NoGap, SameBucket
      <4>6. next[a] \in published
        BY <4>1, <4>5 DEF Linked
      <4>7. ~KeyLess(K(n), K(next[a]))
        BY <1>1, <1>2, <4>3, <4>5, <4>6, KeyOrder
      <4> QED
        BY <3>4, <4>1, <4>5, <4>7
    <3> QED
      BY <3>1, <3>2, <3>3, <3>4
  <2> QED
    BY <2>1, <2>2
<1>12. Walking'
  <2> SUFFICES ASSUME NEW u \in Threads, pc'[u] \in {"walk", "cas"}
               PROVE  Walking!(u)'
    BY DEF Walking
  <2>1. u # t /\ pc[u] = pc'[u]
    BY <1>3
  <2>2. mine[u] \in Addr /\ mine[u] \notin published
    BY <2>1 DEF Private, Busy, Ptr
  <2>3. next'[mine[u]] = next[mine[u]]
    BY <1>2, <1>3, <2>2
  <2> QED
    BY <1>3, <2>1, <2>3 DEF Walking, SameBucket
<1>13. ResultIsRequested'
  BY <1>3 DEF ResultIsRequested
<1> QED
  BY <1>4, <1>6, <1>7, <1>8, <1>10, <1>11, <1>12, <1>13

-----------------------------------------------------------------------------
(* Theorems.                                                               *)

LEMMA StepInv ==
  ASSUME Inv, [Next]_vars
  PROVE  Inv'
<1>1. CASE UNCHANGED vars
  BY <1>1 DEF vars, tableVars, callVars, Inv, TypeOK, Booting, Booted, Private,
              SparesPrivate, Busy, Linked, NoGap, Canonical, SameBucket, Walking,
              ResultIsRequested
<1>2. CASE Next
  <2>1. PICK t \in Threads :
          \/ BootInsert(t)
          \/ \E k \in Workload : MakeNode(t, k) \/ MakeNoNode(t, k)
          \/ Step(t)
    BY <1>2 DEF Next
  <2>2. CASE \E k \in Workload : MakeNode(t, k) \/ MakeNoNode(t, k)
    BY <2>2, WorkloadAssumption, MakeNodeStep, MakeNoNodeStep
  <2>3. CASE Step(t)
    BY <2>3, LoadHeadStep, WalkOnStep, WalkFoundStep, WalkStopStep, CasOkStep,
       CasFailStep, CountStep DEF Step
  <2> QED
    BY <2>1, <2>2, <2>3, BootInsertStep
<1> QED
  BY <1>1, <1>2

\* The invariant holds in every reachable state.
THEOREM Invariance == SafeSpec => []Inv
BY InitInv, StepInv, PTL DEF SafeSpec

\* The variables keep their types.
THEOREM TypeCorrect == SafeSpec => []TypeOK
<1>1. Inv => TypeOK
  BY DEF Inv
<1> QED
  BY <1>1, Invariance, PTL

\* However the calls of any number of threads interleave, no two nodes of the
\* table hold one key.
THEOREM Canonicity == SafeSpec => []Canonical
<1>1. Inv => Canonical
  BY DEF Inv
<1> QED
  BY <1>1, Invariance, PTL

\* A call returns a published node with the key it asked for.
THEOREM Answers == SafeSpec => []ResultIsRequested
<1>1. Inv => ResultIsRequested
  BY DEF Inv
<1> QED
  BY <1>1, Invariance, PTL

\* At every instant each list of the table ends, is sorted and has exactly the
\* published nodes of its bucket: what sanity_check asserts, and that no exchange
\* drops a node that another thread linked in.
THEOREM Sanity == SafeSpec => []SanityCheck
<1>1. Inv => SanityCheck
  <2> SUFFICES ASSUME Inv, NEW b \in Buckets
               PROVE  /\ NodeAt(b)[Cardinality(Addr)] = Null
                      /\ \A i \in 1 .. Cardinality(Addr) :
                           NodeAt(b)[i] # Null =>
                             KeyLess(key[NodeAt(b)[i - 1]], key[NodeAt(b)[i]])
                      /\ {NodeAt(b)[i] : i \in 0 .. Cardinality(Addr)} \ {Null} =
                           {a \in published : BucketOf(key[a]) = b}
    BY DEF SanityCheck
  <2> DEFINE S == {a \in published : BucketOf(key[a]) = b}
             less == {p \in Addr \X Addr : KeyLess(key[p[1]], key[p[2]])}
  <2>1. S \in SUBSET Addr /\ \A a \in Addr : key[a] \in Key
    BY DEF Inv, TypeOK
  <2>2. \A a, c \in Addr : <<a, c>> \in less <=> KeyLess(key[a], key[c])
    OBVIOUS
  <2>3. StrictOrder(S, less)
    <3>1. \A a, c \in S : key[a] = key[c] => a = c
      BY DEF Inv, Canonical
    <3> HIDE DEF S, less
    <3> QED
      BY <2>1, <2>2, <3>1, KeyOrder DEF StrictOrder
  <2>4. Chained(S, head[b], next, less, Null)
    <3>1. \A m \in S : m \in published /\ m \in Addr /\ BucketOf(key[m]) = b
      BY <2>1
    <3>2. head[b] # Null => head[b] \in S
      BY DEF Inv, Linked
    <3>3. ASSUME NEW a \in S, next[a] # Null
          PROVE  next[a] \in S /\ <<a, next[a]>> \in less
      <4>1. /\ next[a] \in published
            /\ SameBucket(a, next[a])
            /\ KeyLess(key[a], key[next[a]])
        BY <3>1, <3>3 DEF Inv, Linked
      <4>2. next[a] \in S
        BY <3>1, <4>1 DEF SameBucket
      <4> QED
        BY <2>1, <4>1, <4>2
    <3>4. \A m \in S : head[b] # Null /\ ~ KeyLess(key[m], key[head[b]])
      BY <3>1 DEF Inv, NoGap
    <3>5. \A a, m \in S : KeyLess(key[a], key[m]) =>
                            next[a] # Null /\ ~ KeyLess(key[m], key[next[a]])
      BY <3>1 DEF Inv, NoGap, SameBucket
    <3> HIDE DEF S, less
    <3> QED
      BY <2>1, <2>2, <3>2, <3>3, <3>4, <3>5 DEF Chained
  <2> DEFINE at == NodeAt(b)
  <2>5. at = Places(Cardinality(Addr), head[b], next, Null)
    BY DEF NodeAt, Places
  <2> HIDE DEF S, less
  <2>6. /\ \A i \in 0 .. Cardinality(Addr) : at[i] \in S \union {Null}
        /\ \A i \in 1 .. Cardinality(Addr) :
             at[i] # Null => at[i - 1] # Null /\ <<at[i - 1], at[i]>> \in less
        /\ at[Cardinality(Addr)] = Null
        /\ \A m \in S : \E i \in 0 .. Cardinality(Addr) : at[i] = m
    <3>1. IsFiniteSet(Addr) /\ Null \notin Addr
      BY AddrAssumption
    <3>2. Walked(S, Places(Cardinality(Addr), head[b], next, Null), Cardinality(Addr),
                 less, Null)
      <4> HIDE DEF at
      <4> QED
        BY <2>1, <2>3, <2>4, <3>1, ChainWalked
    <3>3. Walked(S, at, Cardinality(Addr), less, Null)
      <4> HIDE DEF at
      <4> QED
        BY <2>5, <3>2
    <3> HIDE DEF at
    <3> QED
      BY <3>3 DEF Walked
  <2> HIDE DEF at
  <2>7. ASSUME NEW i \in 1 .. Cardinality(Addr), at[i] # Null
        PROVE  KeyLess(key[at[i - 1]], key[at[i]])
    <3>1. <<at[i - 1], at[i]>> \in less
      BY <2>6, <2>7
    <3> QED
      BY <3>1 DEF less
  <2>8. {at[i] : i \in 0 .. Cardinality(Addr)} \ {Null} = S
    <3>1. Null \notin S
      BY <2>1, AddrAssumption
    <3> QED
      BY <2>6, <3>1
  <2> QED
    BY <2>6, <2>7, <2>8 DEF at, S
<1> QED
  BY <1>1, Invariance, PTL

\* The node that make_node writes to is no other thread's and not in the table.
THEOREM Spares == SafeSpec => []SparesPrivate
<1>1. Inv => SparesPrivate
  BY DEF Inv, Private
<1> QED
  BY <1>1, Invariance, PTL

\* Where a call begins, and on what.
LEMMA Begins ==
  ASSUME Inv, NEW t \in Threads,
         BootInsert(t) \/ \E k \in Workload : MakeNode(t, k)
  PROVE  \E a \in Addr, k \in Key :
           /\ BeginInsert(t, a, k)
           /\ a \notin published
           /\ \A u \in Threads \ {t} : mine[u] # a
           /\ pc[t] = "idle"
<1>1. CASE BootInsert(t)
  <2>1. PICK a \in Malloc(Addr \ allocated) :
          BeginInsert(t, a, BootKey(Len(boot) + 1))
    BY <1>1 DEF BootInsert
  <2>2. a \in Addr \ allocated /\ a # Null
    BY MallocFresh
  <2>3. a \notin published /\ \A u \in Threads \ {t} : mine[u] # a
    BY <2>2 DEF Inv, TypeOK, Private
  <2>4. BootKey(Len(boot) + 1) \in Key /\ pc[t] = "idle"
    BY <1>1, BootKeyType DEF BootInsert
  <2> QED
    BY <2>1, <2>2, <2>3, <2>4
<1>2. CASE \E k \in Workload : MakeNode(t, k)
  <2>1. PICK k \in Workload : MakeNode(t, k)
    BY <1>2
  <2>2. k \in Key /\ pc[t] = "idle"
    BY <2>1, WorkloadAssumption DEF MakeNode
  <2> QED
    BY <2>1, <2>2, MakeNodeOwns
<1> QED
  BY <1>1, <1>2

LEMMA FrozenStep ==
  ASSUME Inv, [Next]_vars
  PROVE  \A a \in published : a \in published' /\ key'[a] = key[a]
<1>1. CASE UNCHANGED vars
  BY <1>1 DEF vars, tableVars
<1>2. CASE Next
  <2>1. PICK t \in Threads :
          \/ BootInsert(t) \/ \E k \in Workload : MakeNode(t, k)
          \/ \E k \in Workload : MakeNoNode(t, k)
          \/ Step(t)
    BY <1>2 DEF Next
  <2>2. CASE BootInsert(t) \/ \E k \in Workload : MakeNode(t, k)
    BY <2>2, Begins DEF BeginInsert, Inv, TypeOK
  <2>3. CASE \E k \in Workload : MakeNoNode(t, k)
    BY <2>3 DEF MakeNoNode, tableVars
  <2>4. CASE Step(t)
    BY <2>4 DEF Step, LoadHead, WalkOn, WalkFound, WalkStop, CasOk, CasFail, Count,
                tableVars
  <2> QED
    BY <2>1, <2>2, <2>3, <2>4
<1> QED
  BY <1>1, <1>2

\* What a thread has read of the table without a lock stays true.
THEOREM Immutability == SafeSpec => PublishedFrozen
<1>1. Inv /\ [Next]_vars =>
        [\A a \in published : a \in published' /\ key'[a] = key[a]]_vars
  BY FrozenStep
<1> QED
  BY <1>1, Invariance, PTL DEF SafeSpec, PublishedFrozen

-----------------------------------------------------------------------------
(* The count of entries.                                                   *)

Uncounted == {t \in Threads : pc[t] = "count"}

LEMMA CountsAreFinite ==
  ASSUME TypeOK
  PROVE  /\ IsFiniteSet(Uncounted) /\ Cardinality(Uncounted) \in Nat
         /\ IsFiniteSet(published) /\ Cardinality(published) \in Nat
<1>1. IsFiniteSet(Uncounted)
  BY ThreadsAssumption, FS_Subset DEF Uncounted
<1>2. IsFiniteSet(published)
  <2>1. published \subseteq Addr
    BY DEF TypeOK
  <2> QED
    BY <2>1, AddrAssumption, FS_Subset
<1> QED
  BY <1>1, <1>2, FS_CardinalityType

LEMMA EntryCountStep ==
  ASSUME Inv, EntryCount, [Next]_vars
  PROVE  EntryCount'
<1> USE DEF Inv, TypeOK
<1>c. /\ IsFiniteSet(Uncounted) /\ Cardinality(Uncounted) \in Nat
      /\ IsFiniteSet(published) /\ Cardinality(published) \in Nat
      /\ numEntry \in Nat
      /\ numEntry + Cardinality(Uncounted) = Cardinality(published)
  BY CountsAreFinite DEF EntryCount, Uncounted
<1>s. SUFFICES numEntry' + Cardinality(Uncounted)' = Cardinality(published)'
  BY DEF EntryCount, Uncounted
<1>q. ASSUME UNCHANGED <<numEntry, published>>,
             \A t \in Threads : (pc'[t] = "count") <=> (pc[t] = "count")
      PROVE  numEntry' + Cardinality(Uncounted)' = Cardinality(published)'
  <2>1. Uncounted' = Uncounted
    BY <1>q DEF Uncounted
  <2> QED
    BY <1>c, <1>q, <2>1
<1>1. CASE UNCHANGED vars
  BY <1>1, <1>q DEF vars, tableVars, callVars
<1>2. CASE Next
  <2>1. PICK t \in Threads :
          \/ BootInsert(t) \/ \E k \in Workload : MakeNode(t, k)
          \/ \E k \in Workload : MakeNoNode(t, k)
          \/ Step(t)
    BY <1>2 DEF Next
  <2>2. CASE BootInsert(t) \/ \E k \in Workload : MakeNode(t, k)
    BY <2>2, Begins, <1>q DEF BeginInsert
  <2>3. CASE \E k \in Workload : MakeNoNode(t, k)
    BY <2>3, <1>q DEF MakeNoNode, tableVars
  <2>4. CASE LoadHead(t) \/ WalkOn(t) \/ WalkFound(t) \/ WalkStop(t) \/ CasFail(t)
    BY <2>4, <1>q DEF LoadHead, WalkOn, WalkFound, WalkStop, CasFail, Retry, Return,
                      EntriesIfFound, tableVars
  <2>5. CASE CasOk(t)
    <3>1. /\ Uncounted' = Uncounted \union {t} /\ t \notin Uncounted
          /\ published' = published \union {mine[t]} /\ mine[t] \notin published
          /\ numEntry' = numEntry
      BY <2>5 DEF CasOk, Uncounted, Private, Busy
    <3>2. /\ Cardinality(Uncounted') = Cardinality(Uncounted) + 1
          /\ Cardinality(published') = Cardinality(published) + 1
      BY <1>c, <3>1, FS_AddElement
    <3> QED
      BY <1>c, <3>1, <3>2
  <2>6. CASE Count(t)
    <3>1. /\ Uncounted' = Uncounted \ {t} /\ t \in Uncounted
          /\ published' = published /\ numEntry' = numEntry + 1
      BY <2>6 DEF Count, Return, Uncounted
    <3>2. Cardinality(Uncounted') = Cardinality(Uncounted) - 1
      BY <1>c, <3>1, FS_RemoveElement
    <3> QED
      BY <1>c, <3>1, <3>2
  <2> QED
    BY <2>1, <2>2, <2>3, <2>4, <2>5, <2>6 DEF Step
<1> QED
  BY <1>1, <1>2

\* num_entry never counts a node twice and never loses one.
THEOREM Counting == SafeSpec => []EntryCount
<1>1. Init => EntryCount
  <2> SUFFICES ASSUME Init PROVE EntryCount
    OBVIOUS
  <2>1. Uncounted = {} /\ published = {} /\ numEntry = 0
    BY DEF Init, Uncounted
  <2> QED
    BY <2>1, FS_EmptySet DEF EntryCount, Uncounted
<1> QED
  BY <1>1, EntryCountStep, Invariance, PTL DEF SafeSpec

-----------------------------------------------------------------------------
(* Steps of the abstract table.                                            *)

keyOf == [a \in published |-> key[a]]
want == [t \in Threads |-> IF mine[t] = Null THEN NoKey ELSE key[mine[t]]]
got == [t \in Threads |-> IF pc[t] = "count" THEN mine[t] ELSE ret[t]]
absVars == <<published, keyOf, want, got>>

\* A call has its answer when it is over, and not before.
Answered ==
  \A t \in Threads :
    /\ Busy(t) => ret[t] = Null
    /\ pc[t] = "idle" /\ mine[t] # Null => ret[t] # Null

LEMMA AnsweredStep ==
  ASSUME Inv, Answered, [Next]_vars
  PROVE  Answered'
<1> USE DEF Inv, TypeOK, Answered, Busy
<1>1. CASE UNCHANGED vars
  BY <1>1 DEF vars, callVars
<1>2. ASSUME NEW t \in Threads, NEW a \in Addr, NEW k, BeginInsert(t, a, k)
      PROVE  Answered'
  BY <1>2 DEF BeginInsert
<1>3. ASSUME NEW t \in Threads, BootInsert(t)
      PROVE  Answered'
  BY <1>2, <1>3, AddrAssumption DEF BootInsert
<1>4. ASSUME NEW t \in Threads, NEW k, MakeNode(t, k)
      PROVE  Answered'
  <2>1. CASE Spare(t) = Null
    <3>1. PICK a \in Malloc(Addr \ allocated) : BeginInsert(t, a, k)
      BY <1>4, <2>1 DEF MakeNode
    <3>2. a \in Addr
      BY AddrAssumption
    <3> QED
      BY <1>2, <3>1, <3>2
  <2>2. CASE Spare(t) # Null
    <3>1. BeginInsert(t, Spare(t), k)
      BY <1>4, <2>2 DEF MakeNode
    <3>2. Spare(t) \in Addr
      BY <2>2 DEF Spare, Ptr
    <3> QED
      BY <1>2, <3>1, <3>2
  <2> QED
    BY <2>1, <2>2
<1>5. ASSUME NEW t \in Threads, NEW k, MakeNoNode(t, k)
      PROVE  Answered'
  BY <1>5 DEF MakeNoNode
<1>6. ASSUME NEW t \in Threads, LoadHead(t) \/ WalkOn(t) \/ WalkStop(t) \/ CasOk(t) \/ CasFail(t)
      PROVE  Answered'
  BY <1>6 DEF LoadHead, WalkOn, WalkStop, CasOk, CasFail, Retry
<1>7. ASSUME NEW t \in Threads, WalkFound(t)
      PROVE  Answered'
  BY <1>7 DEF WalkFound, Return, Present
<1>8. ASSUME NEW t \in Threads, Count(t)
      PROVE  Answered'
  <2>1. mine[t] # Null
    BY <1>8, AddrAssumption DEF Count, Private
  <2>2. /\ pc' = [pc EXCEPT ![t] = "idle"] /\ ret' = [ret EXCEPT ![t] = mine[t]]
        /\ UNCHANGED mine
    BY <1>8 DEF Count, Return
  <2> QED
    BY <2>1, <2>2
<1> QED
  BY <1>1, <1>3, <1>4, <1>5, <1>6, <1>7, <1>8 DEF Next, Step

LEMMA BeginRefines ==
  ASSUME Inv, NEW t \in Threads, NEW a \in Addr, NEW k \in Key,
         BeginInsert(t, a, k), a \notin published,
         \A u \in Threads \ {t} : mine[u] # a, pc[t] = "idle", Answered
  PROVE  Abstract!Ask(t, k)
<1> USE DEF Inv, TypeOK
<1>1. keyOf' = keyOf
  BY DEF BeginInsert, keyOf
<1>2. ~Abstract!Pending(t)
  BY DEF Abstract!Pending, want, got, Answered
<1>3. want' = [want EXCEPT ![t] = k]
  <2>1. want'[t] = k
    BY AddrAssumption DEF want, BeginInsert
  <2>2. ASSUME NEW u \in Threads \ {t} PROVE want'[u] = want[u]
    BY DEF want, BeginInsert, Private, Ptr
  <2> QED
    BY <2>1, <2>2 DEF want
<1>4. got' = [got EXCEPT ![t] = Null]
  BY DEF got, BeginInsert
<1> QED
  BY <1>1, <1>2, <1>3, <1>4
  DEF Abstract!Ask, Abstract!Pending, BeginInsert, keyOf, want, got

\* Meeting the key answers the request.
LEMMA FoundRefines ==
  ASSUME Inv, Answered, NEW t \in Threads, WalkFound(t)
  PROVE  Abstract!Find(t)
<1> USE DEF Inv, TypeOK
<1>1. /\ curr[t] \in published /\ key[curr[t]] = key[mine[t]]
      /\ pc[t] = "walk" /\ mine[t] \in Addr
      /\ pc' = [pc EXCEPT ![t] = "idle"] /\ ret' = [ret EXCEPT ![t] = curr[t]]
      /\ UNCHANGED <<key, published, mine>>
  BY DEF WalkFound, Walking, Return, Present, Private, Busy, Ptr
<1>2. want[t] = key[mine[t]] /\ Abstract!Pending(t)
  BY <1>1, AddrAssumption, KeyIsNotNoKey DEF Abstract!Pending, want, got, Answered, Busy
<1>3. want' = want
  BY <1>1 DEF want
<1>4. got' = [got EXCEPT ![t] = curr[t]]
  BY <1>1 DEF got
<1>5. keyOf' = keyOf /\ keyOf[curr[t]] = want[t]
  BY <1>1, <1>2 DEF keyOf
<1> QED
  BY <1>1, <1>2, <1>3, <1>4, <1>5 DEF Abstract!Find, Abstract!Answer,
     Abstract!Pending, keyOf, want, got

\* The exchange is the instant at which a new node is published. That no node
\* holds its key then is what Canonical says of the state after the step.
LEMMA ExchangeRefines ==
  ASSUME Inv, Answered, NEW t \in Threads, CasOk(t)
  PROVE  Abstract!Publish(t)
<1> USE DEF Inv, TypeOK
<1>1. /\ pc[t] = "cas" /\ mine[t] \in Addr /\ mine[t] \notin published
      /\ pc' = [pc EXCEPT ![t] = "count"]
      /\ published' = published \union {mine[t]}
      /\ UNCHANGED <<key, mine, ret>>
  BY DEF CasOk, Private, Busy, Ptr
<1>2. want[t] = key[mine[t]] /\ Abstract!Pending(t)
  BY <1>1, AddrAssumption, KeyIsNotNoKey DEF Abstract!Pending, want, got, Answered, Busy
<1>3. want' = want
  BY <1>1 DEF want
<1>4. got' = [got EXCEPT ![t] = mine[t]]
  BY <1>1 DEF got
<1>5. \A a \in published : keyOf[a] # want[t]
  <2>1. Canonical'
    BY CasOkStep
  <2> QED
    BY <1>1, <1>2, <2>1 DEF Canonical, keyOf
<1>6. keyOf' = [b \in published \union {mine[t]} |->
                  IF b = mine[t] THEN want[t] ELSE keyOf[b]]
  BY <1>1, <1>2 DEF keyOf
<1> QED
  BY <1>1, <1>2, <1>3, <1>4, <1>5, <1>6 DEF Abstract!Publish, Abstract!Answer,
     Abstract!Pending, keyOf, want, got

\* The other steps of a call are invisible.
LEMMA SilentSteps ==
  ASSUME Inv, NEW t \in Threads,
         \/ LoadHead(t) \/ WalkOn(t) \/ WalkStop(t) \/ CasFail(t) \/ Count(t)
  PROVE  UNCHANGED absVars
<1> USE DEF Inv, TypeOK
<1>1. UNCHANGED <<published, key, mine>>
  BY DEF LoadHead, WalkOn, WalkStop, CasFail, Count, tableVars
<1>2. UNCHANGED want
  BY <1>1 DEF want
<1>3. UNCHANGED got
  <2>1. CASE Count(t)
    BY <1>1, <2>1 DEF Count, Return, got
  <2>2. CASE \/ LoadHead(t) \/ WalkOn(t) \/ WalkStop(t) \/ CasFail(t)
    BY <1>1, <2>2 DEF LoadHead, WalkOn, WalkStop, CasFail, Retry, got
  <2> QED
    BY <2>1, <2>2
<1> QED
  BY <1>1, <1>2, <1>3 DEF absVars, keyOf

LEMMA InitRefines == Init => Abstract!Init
<1> SUFFICES ASSUME Init PROVE Abstract!Init
  OBVIOUS
<1>1. published = {} /\ \A t \in Threads : pc[t] = "idle" /\ mine[t] = Null /\ ret[t] = Null
  BY DEF Init
<1>2. keyOf = [a \in {} |-> NoKey]
  BY <1>1 DEF keyOf
<1>3. want = [t \in Threads |-> NoKey] /\ got = [t \in Threads |-> Null]
  BY <1>1 DEF want, got
<1> QED
  BY <1>1, <1>2, <1>3 DEF Abstract!Init, keyOf, want, got

LEMMA StepRefines ==
  ASSUME Inv, Answered, [Next]_vars
  PROVE  [Abstract!Next]_absVars
<1>1. CASE UNCHANGED vars
  BY <1>1 DEF vars, tableVars, callVars, absVars, keyOf, want, got
<1>2. CASE Next
  <2>1. PICK t \in Threads :
          \/ BootInsert(t) \/ \E k \in Workload : MakeNode(t, k)
          \/ \E k \in Workload : MakeNoNode(t, k)
          \/ Step(t)
    BY <1>2 DEF Next
  <2>2. CASE BootInsert(t) \/ \E k \in Workload : MakeNode(t, k)
    <3>1. PICK a \in Addr, k \in Key :
            /\ BeginInsert(t, a, k)
            /\ a \notin published
            /\ \A u \in Threads \ {t} : mine[u] # a
            /\ pc[t] = "idle"
      BY <2>2, Begins
    <3>2. Abstract!Ask(t, k)
      BY <3>1, BeginRefines
    <3> QED
      BY <3>2 DEF Abstract!Next
  <2>3. CASE \E k \in Workload : MakeNoNode(t, k)
    <3>1. PICK k \in Workload : MakeNoNode(t, k)
      BY <2>3
    <3>2. /\ UNCHANGED <<published, key, pc>> /\ pc[t] = "idle"
          /\ mine' = [mine EXCEPT ![t] = Null]
          /\ ret' = [ret EXCEPT ![t] = k[2]] /\ k[2] \in published
      BY <3>1 DEF MakeNoNode, IsRequest, tableVars
    <3>3. /\ keyOf' = keyOf /\ want' = [want EXCEPT ![t] = NoKey]
          /\ ~Abstract!Pending(t)
      BY <3>2 DEF keyOf, want, got, Abstract!Pending, Answered, Inv, TypeOK
    <3>4. got' = [got EXCEPT ![t] = k[2]]
      BY <3>2 DEF got, Inv, TypeOK
    <3>5. Abstract!Elide(t)
      BY <3>2, <3>3, <3>4 DEF Abstract!Elide, Abstract!Pending, keyOf, want, got
    <3> QED
      BY <3>5 DEF Abstract!Next
  <2>4. CASE Step(t)
    BY <2>4, FoundRefines, ExchangeRefines, SilentSteps DEF Step, Abstract!Next
  <2> QED
    BY <2>1, <2>2, <2>3, <2>4
<1> QED
  BY <1>1, <1>2

\* Every behaviour of the lock-free list is, in its published nodes, requests
\* and answers, a behaviour of the table whose get_or_insert is atomic.
THEOREM Refinement == SafeSpec => ImplementsNodeSet
<1>1. absVars = Abstract!nodeVars
  BY DEF absVars, Abstract!nodeVars, keyOf, want, got
<1>2. Inv /\ Answered /\ [Next]_vars => [Abstract!Next]_(Abstract!nodeVars)
  BY StepRefines, <1>1 DEF absVars, Abstract!nodeVars, keyOf, want, got
<1>3. Init => Answered
  BY DEF Init, Answered, Busy
<1> QED
  BY InitRefines, <1>2, <1>3, AnsweredStep, Invariance, PTL
     DEF SafeSpec, ImplementsNodeSet, Abstract!Spec

=============================================================================
