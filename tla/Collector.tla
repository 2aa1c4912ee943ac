------------------------------- MODULE Collector ------------------------------
(***************************************************************************)
(* The exclusive phases of the unique table of src/src/set.rs: mark_nodes, *)
(* gc_unmarked, unmark_nodes and grow on the linked lists, one node at a   *)
(* time, in the order in which gc and enter_op of src/src/tobdd.rs call    *)
(* them under the write guard, and the drop of the table. No operation is  *)
(* under way meanwhile (BddManager!MaintenanceAlone), but ref_bdd and      *)
(* deref_bdd take no lock: clients drop references between any two steps.  *)
(* The build is one without debug assertions: MarksBounded states the one  *)
(* of mark_nodes.                                                          *)
(***************************************************************************)
EXTENDS Naturals, FiniteSets, Sequences

CONSTANTS
  Addr,         \* the addresses of nodes
  Boot,         \* those of the nodes Manager::init made and references
  KeyAt,        \* the level, low and high of the node at each address
  Tables,       \* the sets of nodes a table may have when the work begins
  NumVars,      \* var_num
  Hash(_),      \* splitmix64_3 of a key
  InitSize,     \* bucket_size() at first
  MaxSize,      \* bound: the table grows no further
  MaxRef        \* bound: references to a node

Null == 0

\* MARK: a bit no level has.
Mark == NumVars + 2

ASSUME CollectorAssumption ==
  /\ Addr \subseteq Nat \ {Null} /\ IsFiniteSet(Addr)
  /\ NumVars \in Nat /\ MaxRef \in Nat \ {0}
  /\ InitSize \in Nat \ {0} /\ MaxSize \in Nat /\ InitSize <= MaxSize
  /\ KeyAt \in [Addr -> (0 .. NumVars + 1) \X (Addr \union {Null}) \X (Addr \union {Null})]
  /\ \A a \in Addr : Hash(KeyAt[a]) \in Nat

VARIABLES
  live,         \* the nodes that have not been freed
  head,         \* buckets
  next,         \* the next field of each node
  refCnt,       \* the ref_cnt of each node
  marked,       \* the nodes with the MARK bit in their level
  size,         \* bucket_size(), 1 << size_exp
  numEntry,     \* num_entry
  numMarks,     \* counter of mark_nodes, then num_marks
  newHead,      \* new_buckets of grow
  pc,           \* the function that is running
  grows,        \* whether it is grow that comes after unmark_nodes
  b, prev, curr,   \* its loop variables; prev is Null for the head of bucket b
  held          \* history: the nodes that had references when marking began

tableVars == <<live, head, next>>
markVars == <<marked, numMarks, held>>
sizeVars == <<size, newHead>>
walkVars == <<b, prev, curr>>
callVars == <<pc, grows>>
vars == <<tableVars, refCnt, markVars, numEntry, sizeVars, callVars, walkVars>>

Ptr == Addr \union {Null}

Buckets == 0 .. size - 1

TypeOK ==
  /\ live \in SUBSET Addr
  /\ head \in [Buckets -> Ptr]
  /\ next \in [Addr -> Ptr]
  /\ refCnt \in [Addr -> 0 .. MaxRef]
  /\ marked \in SUBSET live
  /\ size \in InitSize .. MaxSize
  /\ {numEntry, numMarks} \subseteq Nat
  /\ newHead \in [0 .. 2 * size - 1 -> Ptr]
  /\ pc \in {"idle", "mark", "sweep", "unmark", "grow", "drop", "dropped"}
  /\ grows \in BOOLEAN
  /\ b \in Buckets /\ {prev, curr} \subseteq Ptr
  /\ held \in SUBSET Addr

-----------------------------------------------------------------------------
(* Keys, lists and diagrams.                                               *)

\* Node::key reads the level with its MARK bit.
Key(a, marks) ==
  <<KeyAt[a][1] + IF a \in marks THEN Mark ELSE 0, KeyAt[a][2], KeyAt[a][3]>>

\* The derived order of the tuples that Node::key returns.
KeyLess(k, l) ==
  \/ k[1] < l[1]
  \/ k[1] = l[1] /\ k[2] < l[2]
  \/ k[1] = l[1] /\ k[2] = l[2] /\ k[3] < l[3]

\* node_hash, which rehash computed before any mark, and the bits of an index
\* among n buckets.
BucketOf(a, n) == Hash(KeyAt[a]) % n

Children(a) == {KeyAt[a][2], KeyAt[a][3]} \ {Null}

\* The tables that operations make (BddManager!Reduced): ordered diagrams, whose
\* terminals have no children, without two nodes of one key.
ASSUME TablesAssumption ==
  \A T \in Tables :
    /\ Boot \subseteq T /\ T \subseteq Addr
    /\ \A a \in T : Children(a) # {} => KeyAt[a][1] < NumVars
    /\ \A a \in T : \A c \in Children(a) :
         c \in T /\ (Children(c) # {} => KeyAt[a][1] < KeyAt[c][1])
    /\ \A a, c \in T : KeyAt[a] = KeyAt[c] => a = c

\* What is below the nodes of S, not passing through the nodes of stop.
Below(S, stop) ==
  LET upTo[i \in 0 .. NumVars] ==
        IF i = 0 THEN S
        ELSE upTo[i - 1] \union ((UNION {Children(a) : a \in upTo[i - 1]}) \ stop)
  IN  upTo[NumVars]

\* The places of a list, up to the last that can be.
NodeAt(first, nexts) ==
  LET at[i \in 0 .. Cardinality(Addr)] ==
        IF i = 0 THEN first ELSE IF at[i - 1] = Null THEN Null ELSE nexts[at[i - 1]]
  IN  at

\* The nodes of a bucket, in the order get_or_insert keeps.
InOrder(S) ==
  [a \in S |-> LET above == {c \in S : KeyLess(KeyAt[a], KeyAt[c])}
               IN  IF above = {} THEN Null
                   ELSE CHOOSE c \in above : \A d \in above \ {c} : KeyLess(KeyAt[c], KeyAt[d])]

First(S) == IF S = {} THEN Null
            ELSE CHOOSE a \in S : \A c \in S \ {a} : KeyLess(KeyAt[a], KeyAt[c])

\* A table that operations have filled, and any references to what they made.
Init ==
  /\ live \in Tables
  /\ size = InitSize
  /\ LET chain(i) == {a \in live : BucketOf(a, InitSize) = i}
     IN  /\ head = [i \in Buckets |-> First(chain(i))]
         /\ next = [a \in Addr |-> IF a \in live
                                   THEN InOrder(chain(BucketOf(a, InitSize)))[a] ELSE Null]
  /\ refCnt \in {f \in [Addr -> 0 .. MaxRef] :
                  \A a \in Addr : f[a] = IF a \in Boot THEN 1 ELSE IF a \in live THEN f[a] ELSE 0}
  /\ marked = {} /\ numEntry = Cardinality(live) /\ numMarks = 0
  /\ newHead = [i \in 0 .. 2 * InitSize - 1 |-> Null]
  /\ pc = "idle" /\ grows = FALSE
  /\ b = 0 /\ prev = Null /\ curr = Null
  /\ held = {}

-----------------------------------------------------------------------------
(* Clients.                                                                *)

\* ref_bdd and deref_bdd of a node that some client holds.
Ref(a) ==
  /\ a \notin Boot /\ refCnt[a] \in 1 .. MaxRef - 1
  /\ refCnt' = [refCnt EXCEPT ![a] = @ + 1]
  /\ UNCHANGED <<tableVars, markVars, walkVars, sizeVars, callVars, numEntry>>

Deref(a) ==
  /\ a \notin Boot /\ refCnt[a] > 0
  /\ refCnt' = [refCnt EXCEPT ![a] = @ - 1]
  /\ UNCHANGED <<tableVars, markVars, walkVars, sizeVars, callVars, numEntry>>

-----------------------------------------------------------------------------
(* The loops over buckets and their lists.                                 *)

WalkFrom(i) == b' = i /\ prev' = Null /\ curr' = head[i]

\* The function step begins.
Run(step) == pc' = step /\ WalkFrom(0)

NextBucket ==
  /\ pc \notin {"idle", "dropped"}
  /\ curr = Null /\ b + 1 \in Buckets
  /\ WalkFrom(b + 1)
  /\ UNCHANGED <<tableVars, markVars, sizeVars, callVars, refCnt, numEntry>>

\* The loops of the function step are over.
Over(step) == pc = step /\ curr = Null /\ b + 1 \notin Buckets

Finish == pc' = "idle" /\ b' = 0 /\ prev' = Null /\ curr' = Null

\* gc, or the clean-up of enter_op.
Begin ==
  /\ pc = "idle"
  /\ Run("mark")
  /\ numMarks' = 0
  /\ held' = {a \in live : refCnt[a] # 0}
  /\ UNCHANGED <<tableVars, sizeVars, refCnt, marked, numEntry, grows>>

\* Mutation: the counter counts the roots only.
RootsOnly(S) == 1

Counted(S) == Cardinality(S)

\* Mutation: children that have no reference are not marked.
RootAlone(a) == {a}

MarkRec(a) == Below({a}, marked)

MarkNode ==
  /\ pc = "mark" /\ curr # Null
  /\ IF refCnt[curr] # 0 /\ curr \notin marked
     THEN /\ marked' = marked \union MarkRec(curr)
          /\ numMarks' = numMarks + Counted(MarkRec(curr))
     ELSE UNCHANGED <<marked, numMarks>>
  /\ curr' = next[curr]
  /\ UNCHANGED <<tableVars, sizeVars, callVars, refCnt, numEntry, b, prev, held>>

\* gc goes on to sweep; enter_op may decide to grow (BddManager!FreesLittle).
Marked ==
  /\ Over("mark")
  /\ \/ Run("sweep") /\ grows' = FALSE
     \/ Run("unmark") /\ grows' = TRUE /\ 2 * size <= MaxSize
  /\ UNCHANGED <<tableVars, markVars, sizeVars, refCnt, numEntry>>

\* Mutation: the sweep looks at the reference count again.
Unreferenced(a) == refCnt[a] = 0

Dead(a) == a \notin marked

\* Mutation: prev moves on to the node that is freed.
MovesOn(a) == a

LastKept(a) == IF Dead(a) THEN prev ELSE a

\* Mutation: the node behind one that is freed is skipped.
SkipsOne(a) == IF Dead(a) /\ next[a] # Null THEN next[next[a]] ELSE next[a]

Following(a) == next[a]

\* prev.store(next), then the node is freed.
SweepNode ==
  /\ pc = "sweep" /\ curr # Null
  /\ IF Dead(curr)
     THEN /\ IF prev = Null
             THEN head' = [head EXCEPT ![b] = next[curr]] /\ next' = [next EXCEPT ![curr] = Null]
             ELSE next' = [next EXCEPT ![prev] = next[curr], ![curr] = Null] /\ UNCHANGED head
          /\ live' = live \ {curr}
     ELSE UNCHANGED tableVars
  /\ prev' = LastKept(curr)
  /\ curr' = Following(curr)
  /\ UNCHANGED <<markVars, sizeVars, callVars, refCnt, numEntry, b>>

Swept ==
  /\ Over("sweep")
  /\ numEntry' = numMarks
  /\ Run("unmark")
  /\ UNCHANGED <<tableVars, markVars, sizeVars, refCnt, grows>>

UnmarkNode ==
  /\ pc = "unmark" /\ curr # Null
  /\ marked' = marked \ {curr}
  /\ curr' = next[curr]
  /\ UNCHANGED <<tableVars, sizeVars, callVars, refCnt, numEntry, numMarks, b, prev,
                 held>>

Unmarked ==
  /\ Over("unmark")
  /\ IF grows THEN Run("grow") ELSE Finish
  /\ newHead' = [i \in 0 .. 2 * size - 1 |-> Null]
  /\ UNCHANGED <<tableVars, markVars, refCnt, size, numEntry, grows>>

\* The node of a new bucket after which a goes, Null for the bucket's head: the
\* walk stops at the first greater key.
Before(a, first) ==
  LET at == NodeAt(first, next)
      greater == {i \in DOMAIN at : at[i] = Null \/ KeyLess(Key(a, marked), Key(at[i], marked))}
      place == CHOOSE i \in greater : \A j \in greater : i <= j
  IN  IF place = 0 THEN Null ELSE at[place - 1]

\* Mutation: next is read after the node has been linked into its new list.
ReadsNextLate == next'[curr]

ReadsNext == next[curr]

GrowNode ==
  /\ pc = "grow" /\ curr # Null
  /\ LET i == BucketOf(curr, 2 * size)
         p == Before(curr, newHead[i])
     IN  IF p = Null
         THEN /\ newHead' = [newHead EXCEPT ![i] = curr]
              /\ next' = [next EXCEPT ![curr] = newHead[i]]
         ELSE /\ next' = [next EXCEPT ![p] = curr, ![curr] = next[p]]
              /\ UNCHANGED newHead
  /\ curr' = ReadsNext
  /\ UNCHANGED <<markVars, callVars, live, head, refCnt, size, numEntry, b, prev>>

Grown ==
  /\ Over("grow")
  /\ head' = newHead
  /\ size' = 2 * size
  /\ newHead' = [i \in 0 .. 4 * size - 1 |-> Null]
  /\ grows' = FALSE
  /\ Finish
  /\ UNCHANGED <<markVars, live, next, refCnt, numEntry>>

\* LockFreeSet::drop.
BeginDrop ==
  /\ pc = "idle"
  /\ Run("drop")
  /\ UNCHANGED <<tableVars, markVars, sizeVars, refCnt, numEntry, grows>>

DropNode ==
  /\ pc = "drop" /\ curr # Null
  /\ live' = live \ {curr}
  /\ next' = [next EXCEPT ![curr] = Null]
  /\ curr' = next[curr]
  /\ UNCHANGED <<markVars, sizeVars, callVars, head, refCnt, numEntry, b, prev>>

Dropped ==
  /\ Over("drop")
  /\ pc' = "dropped"
  /\ UNCHANGED <<tableVars, markVars, walkVars, sizeVars, refCnt, numEntry, grows>>

-----------------------------------------------------------------------------

Step ==
  \/ NextBucket
  \/ MarkNode \/ Marked \/ SweepNode \/ Swept \/ UnmarkNode \/ Unmarked
  \/ GrowNode \/ Grown
  \/ DropNode \/ Dropped

Next ==
  \/ Begin \/ BeginDrop
  \/ Step
  \/ \E a \in Addr : Ref(a) \/ Deref(a)

Spec == Init /\ [][Next]_vars

-----------------------------------------------------------------------------
(* Properties.                                                             *)

\* sanity_check, and more: when operations may run again every node is in the
\* list of its bucket, once, in the order of keys, and no MARK is left in a level.
SanityCheck ==
  pc = "idle" =>
    /\ marked = {}
    /\ \A i \in Buckets :
         LET at == NodeAt(head[i], next)
             last == Cardinality(Addr)
             nodes == {at[j] : j \in 0 .. last} \ {Null}
         IN  /\ nodes = {a \in live : BucketOf(a, size) = i}
             /\ at[last] = Null
             /\ \A j \in 1 .. last : at[j] # Null => KeyLess(KeyAt[at[j - 1]], KeyAt[at[j]])

\* Whatever clients drop while nodes are marked and freed, what is referenced
\* stays, and so does all that is below it.
HeldSurvive ==
  pc \notin {"drop", "dropped"} =>
    Below({a \in Addr : refCnt[a] # 0}, {}) \subseteq live

\* A collection leaves nothing that was garbage when it began to mark: what it
\* keeps beyond the nodes now in use was dropped while it was marking.
GarbageFreed ==
  Over("sweep") => live = marked /\ live \subseteq Below(held, {})

\* num_entry, set to the nodes mark_nodes counted, is the number of nodes.
EntryCount == pc = "idle" => numEntry = Cardinality(live)

\* No loop reads a node that has been freed, in its own list or in a new one,
\* and the drop of the table frees every node.
WalksLive ==
  /\ {prev, curr} \subseteq live \union {Null}
  /\ pc = "dropped" => live = {}

-----------------------------------------------------------------------------

\* debug_assert!(counter <= (2 << self.size_exp.get())) of mark_nodes.
MarksBounded == Over("mark") => numMarks <= 2 * size

=============================================================================
