----------------------------- MODULE UniqueTable -----------------------------
(***************************************************************************)
(* The unique table of BDD nodes: get_or_insert of src/src/set.rs, the     *)
(* make_node of src/src/tobdd.rs that calls it with a thread-local spare   *)
(* node, and the Manager::init that fills the table before it is shared.   *)
(*                                                                         *)
(* The table is an array of buckets, each the head of a linked list sorted *)
(* by key. While threads hold read guards of the manager's lock nothing is *)
(* removed and the array keeps its size, so this module has neither; the   *)
(* exclusive phases are another module's subject. Each access to a shared  *)
(* pointer or counter is one action.                                       *)
(*                                                                         *)
(* Pointers are natural numbers, null is 0: keys are compared as triples   *)
(* (level, low, high) of numbers, so the place of a node in its list       *)
(* depends on where the allocator put its children.                        *)
(***************************************************************************)
EXTENDS Naturals, FiniteSets, Sequences

CONSTANTS
  Threads,      \* the threads that share the table
  Main,         \* the one of them that runs Manager::init
  Addr,         \* the addresses the allocator has
  Malloc(_),    \* of a set of free addresses, those Box::new may return
  NumVars,      \* var_num
  NumBuckets,   \* 1 << size_exp
  Hash(_),      \* splitmix64_3 of a key
  Workload      \* bound: the keys the threads ask for

Null == 0

Ptr == Addr \union {Null}

\* The true node has level 1 whatever NumVars is.
Levels == 0 .. NumVars + 1

\* What Node::key returns.
Key == Levels \X Ptr \X Ptr

ASSUME AddrAssumption ==
  /\ Addr \subseteq Nat \ {Null}
  /\ IsFiniteSet(Addr)
  /\ \A free \in SUBSET Addr : Malloc(free) \subseteq free

ASSUME HashAssumption ==
  /\ NumBuckets \in Nat \ {0}
  /\ \A k \in Key : Hash(k) \in Nat

ASSUME ThreadsAssumption == Main \in Threads /\ IsFiniteSet(Threads)

ASSUME NumVarsAssumption == NumVars \in Nat

ASSUME WorkloadAssumption == Workload \subseteq Key

VARIABLES
  head,         \* buckets: the first node of each list
  next,         \* the next field of each node
  key,          \* the level, low and high fields of each node
  numEntry,     \* num_entry
  allocated,    \* the addresses Box::new has returned
  boot,         \* the nodes Manager::init has inserted so far, in order
  pc,           \* where each thread is in make_node or get_or_insert
  freeId,       \* FREE_ID of each thread
  mine,         \* new_ptr: the node each thread is inserting or last asked for
  prev,         \* the list cell a thread looks at: Null is the bucket's head
  curr,         \* the node that cell pointed to
  ret,          \* what the last call returned
  published     \* history: the nodes linked into the table

tableVars == <<head, next, key, numEntry, published>>
callVars == <<pc, mine, prev, curr, ret>>
vars == <<tableVars, callVars, allocated, boot, freeId>>

Buckets == 0 .. NumBuckets - 1

Steps == {"idle", "head", "walk", "cas", "count"}

TypeOK ==
  /\ head \in [Buckets -> Ptr]
  /\ next \in [Addr -> Ptr]
  /\ key \in [Addr -> Key]
  /\ numEntry \in Nat
  /\ allocated \in SUBSET Addr
  /\ boot \in Seq(Addr)
  /\ pc \in [Threads -> Steps]
  /\ freeId \in [Threads -> Ptr]
  /\ mine \in [Threads -> Ptr]
  /\ prev \in [Threads -> Ptr]
  /\ curr \in [Threads -> Ptr]
  /\ ret \in [Threads -> Ptr]
  /\ published \in SUBSET allocated

Init ==
  /\ head = [b \in Buckets |-> Null]
  /\ next = [a \in Addr |-> Null]
  /\ key = [a \in Addr |-> <<0, Null, Null>>]
  /\ numEntry = 0
  /\ allocated = {}
  /\ boot = <<>>
  /\ pc = [t \in Threads |-> "idle"]
  /\ freeId = [t \in Threads |-> Null]
  /\ mine = [t \in Threads |-> Null]
  /\ prev = [t \in Threads |-> Null]
  /\ curr = [t \in Threads |-> Null]
  /\ ret = [t \in Threads |-> Null]
  /\ published = {}

-----------------------------------------------------------------------------
(* Keys and nodes.                                                         *)

\* The derived order of the tuples that Node::key returns.
KeyLess(k, l) ==
  \/ k[1] < l[1]
  \/ k[1] = l[1] /\ k[2] < l[2]
  \/ k[1] = l[1] /\ k[2] = l[2] /\ k[3] < l[3]

\* hash & ((1 << size_exp) - 1)
BucketOf(k) == Hash(k) % NumBuckets

TrueKey == <<1, Null, Null>>
FalseKey == <<0, Null, Null>>

TrueId == boot[1]
FalseId == boot[2]

\* true, false, then each variable and its negation.
BootLen == 2 + 2 * NumVars

Booted == Len(boot) = BootLen

BootKey(i) ==
  CASE i = 1 -> TrueKey
    [] i = 2 -> FalseKey
    [] i > 2 /\ i % 2 = 1 -> <<(i - 3) \div 2, FalseId, TrueId>>
    [] i > 2 /\ i % 2 = 0 -> <<(i - 4) \div 2, TrueId, FalseId>>

Level(a) == key[a][1]

\* The calls of make_node that the manager's operations make: both children
\* are nodes of the table, below the new node in the order of variables.
IsRequest(k) ==
  /\ k[1] < NumVars
  /\ k[2] \in published /\ k[3] \in published
  /\ \A i \in {2, 3} : k[i] \in {TrueId, FalseId} \/ k[1] < Level(k[i])

-----------------------------------------------------------------------------
(* Bound of the model: a call starts only when the allocator can serve it   *)
(* and every call under way, or when the key is there and a spare is not    *)
(* needed. (A real allocator that is out of memory aborts the program.)     *)

InCall == {t \in Threads : pc[t] # "idle"}

AllocatorServes(t, k) ==
  IF freeId[t] = Null
  THEN Cardinality(Addr \ allocated) >= Cardinality(InCall) + 2
  ELSE \/ Cardinality(Addr \ allocated) >= Cardinality(InCall) + 1
       \/ \E a \in published : key[a] = k

-----------------------------------------------------------------------------
(* Beginning of a call.                                                    *)

\* get_or_insert(a) starts, on a node whose key has been set to k.
BeginInsert(t, a, k) ==
  /\ key' = [key EXCEPT ![a] = k]
  /\ mine' = [mine EXCEPT ![t] = a]
  /\ ret' = [ret EXCEPT ![t] = Null]
  /\ pc' = [pc EXCEPT ![t] = "head"]
  /\ UNCHANGED <<head, next, numEntry, published, prev, curr>>

\* One step of Manager::init: a fresh node, no other thread yet.
BootInsert(t) ==
  /\ t = Main
  /\ ~Booted
  /\ pc[t] = "idle"
  /\ \E a \in Malloc(Addr \ allocated) :
       /\ allocated' = allocated \union {a}
       /\ BeginInsert(t, a, BootKey(Len(boot) + 1))
  /\ UNCHANGED <<boot, freeId>>

\* Mutation: the node of the last call is taken again, published or not.
SpareOrLast(t) == IF mine[t] # Null THEN mine[t] ELSE freeId[t]

\* The node that FREE_ID holds, Null before the thread's first call.
Spare(t) == freeId[t]

\* make_node fills in the spare node of the thread, which it allocates on the
\* thread's first call.
MakeNode(t, k) ==
  /\ Booted
  /\ pc[t] = "idle"
  /\ IsRequest(k)
  /\ k[2] # k[3]
  /\ AllocatorServes(t, k)
  /\ IF Spare(t) = Null
     THEN \E a \in Malloc(Addr \ allocated) :
            /\ allocated' = allocated \union {a}
            /\ freeId' = [freeId EXCEPT ![t] = a]
            /\ BeginInsert(t, a, k)
     ELSE /\ BeginInsert(t, Spare(t), k)
          /\ UNCHANGED <<allocated, freeId>>
  /\ UNCHANGED boot

\* low == high: the node would not test its variable, the child is the answer.
MakeNoNode(t, k) ==
  /\ Booted
  /\ pc[t] = "idle"
  /\ IsRequest(k)
  /\ k[2] = k[3]
  /\ ret' = [ret EXCEPT ![t] = k[2]]
  /\ mine' = [mine EXCEPT ![t] = Null]
  /\ UNCHANGED <<tableVars, pc, prev, curr, allocated, boot, freeId>>

-----------------------------------------------------------------------------
(* get_or_insert.                                                          *)

Bucket(t) == BucketOf(key[mine[t]])

\* Mutation: the exchange does not compare.
CellUnchecked(t) == curr[t]

\* The cell that thread t reads and tries to change.
Cell(t) == IF prev[t] = Null THEN head[Bucket(t)] ELSE next[prev[t]]

\* 'retry: start from the head of the bucket.
LoadHead(t) ==
  /\ pc[t] = "head"
  /\ prev' = [prev EXCEPT ![t] = Null]
  /\ curr' = [curr EXCEPT ![t] = head[Bucket(t)]]
  /\ pc' = [pc EXCEPT ![t] = "walk"]
  /\ UNCHANGED <<tableVars, mine, ret, allocated, boot, freeId>>

\* Mutation: a failed exchange goes on from the node it had reached.
RetryFromCurr == "walk"

\* 'retry: a failed exchange starts over.
Retry == "head"

\* Less: go on to the next node.
WalkOn(t) ==
  /\ pc[t] = "walk"
  /\ curr[t] # Null
  /\ KeyLess(key[curr[t]], key[mine[t]])
  /\ prev' = [prev EXCEPT ![t] = curr[t]]
  /\ curr' = [curr EXCEPT ![t] = next[curr[t]]]
  /\ UNCHANGED <<tableVars, pc, mine, ret, allocated, boot, freeId>>

\* The call returns a.
Return(t, a) ==
  /\ ret' = [ret EXCEPT ![t] = a]
  /\ prev' = [prev EXCEPT ![t] = Null]
  /\ curr' = [curr EXCEPT ![t] = Null]
  /\ pc' = [pc EXCEPT ![t] = "idle"]

\* Mutation: the caller is given the node it passed in.
AnswerPassed(t) == mine[t]

\* The answer when the key is there.
Present(t) == curr[t]

\* Mutation: a call that finds its key counts a node too.
CountedAnyway(t) == numEntry + 1

\* num_entry after a call that finds its key.
EntriesIfFound(t) == numEntry

\* Equal: the node is there, the spare stays a spare.
WalkFound(t) ==
  /\ pc[t] = "walk"
  /\ curr[t] # Null
  /\ key[curr[t]] = key[mine[t]]
  /\ Return(t, Present(t))
  /\ numEntry' = EntriesIfFound(t)
  /\ UNCHANGED <<head, next, key, published, mine, allocated, boot, freeId>>

\* Mutation: the node's own next is not set.
KeepsNext(t) == next[mine[t]]

\* What follows the new node.
Successor(t) == curr[t]

\* Greater, or the end of the list: the node belongs before curr.
WalkStop(t) ==
  /\ pc[t] = "walk"
  /\ curr[t] # Null => KeyLess(key[mine[t]], key[curr[t]])
  /\ next' = [next EXCEPT ![mine[t]] = Successor(t)]
  /\ pc' = [pc EXCEPT ![t] = "cas"]
  /\ UNCHANGED <<head, key, numEntry, published, mine, prev, curr, ret,
                 allocated, boot, freeId>>

CasOk(t) ==
  /\ pc[t] = "cas"
  /\ Cell(t) = curr[t]
  /\ IF prev[t] = Null
     THEN /\ head' = [head EXCEPT ![Bucket(t)] = mine[t]]
          /\ UNCHANGED next
     ELSE /\ next' = [next EXCEPT ![prev[t]] = mine[t]]
          /\ UNCHANGED head
  /\ published' = published \union {mine[t]}
  /\ pc' = [pc EXCEPT ![t] = "count"]
  /\ UNCHANGED <<key, numEntry, mine, prev, curr, ret, allocated, boot, freeId>>

CasFail(t) ==
  /\ pc[t] = "cas"
  /\ Cell(t) # curr[t]
  /\ pc' = [pc EXCEPT ![t] = Retry]
  /\ UNCHANGED <<tableVars, mine, prev, curr, ret, allocated, boot, freeId>>

\* Mutation: the published node stays the thread's spare.
KeepSpare(t, a) == freeId

\* FREE_ID once a has been allocated in place of the published node.
Renewed(t, a) == [freeId EXCEPT ![t] = a]

\* Mutation: init records the previous answer.
PreviousAnswer(t) == ret[t]

\* The node whose insertion is over.
Inserted(t) == mine[t]

\* After the exchange the node is counted; init records it, make_node gives
\* the thread a new spare.
Count(t) ==
  /\ pc[t] = "count"
  /\ numEntry' = numEntry + 1
  /\ Return(t, mine[t])
  /\ IF Booted
     THEN \E a \in Malloc(Addr \ allocated) :
            /\ allocated' = allocated \union {a}
            /\ freeId' = Renewed(t, a)
            /\ UNCHANGED boot
     ELSE /\ boot' = Append(boot, Inserted(t))
          /\ UNCHANGED <<allocated, freeId>>
  /\ UNCHANGED <<head, next, key, published, mine>>

-----------------------------------------------------------------------------

Step(t) ==
  \/ LoadHead(t)
  \/ WalkOn(t)
  \/ WalkFound(t)
  \/ WalkStop(t)
  \/ CasOk(t)
  \/ CasFail(t)
  \/ Count(t)

Next ==
  \E t \in Threads :
    \/ BootInsert(t)
    \/ \E k \in Workload :
         \/ MakeNode(t, k)
         \/ MakeNoNode(t, k)
    \/ Step(t)

SafeSpec == Init /\ [][Next]_vars

\* A thread that has entered get_or_insert keeps executing.
Fairness == \A t \in Threads : WF_vars(Step(t))

Spec == SafeSpec /\ Fairness

-----------------------------------------------------------------------------
(* Properties.                                                             *)

\* No two nodes of the table hold one key, however the calls interleave: this
\* is what lets the manager compare BDDs by pointer and what the comment of
\* get_or_insert claims of the retry after a failed exchange.
Canonical ==
  \A a, b \in published : key[a] = key[b] => a = b

\* The i-th node of bucket b, Null after the last.
NodeAt(b) ==
  LET at[i \in 0 .. Cardinality(Addr)] ==
        IF i = 0 THEN head[b]
        ELSE IF at[i - 1] = Null THEN Null ELSE next[at[i - 1]]
  IN  at

\* What sanity_check asserts, at every instant and not only at rest: every
\* list ends, is strictly sorted by key, and holds exactly the published nodes
\* of its bucket, so no exchange ever drops a node another thread linked in.
SanityCheck ==
  \A b \in Buckets :
    LET at == NodeAt(b)
        last == Cardinality(Addr)
    IN  /\ at[last] = Null
        /\ \A i \in 1 .. last : at[i] # Null => KeyLess(key[at[i - 1]], key[at[i]])
        /\ {at[i] : i \in 0 .. last} \ {Null} =
             {a \in published : BucketOf(key[a]) = b}

\* num_entry, which the load check and the gc threshold use, lags the table by
\* exactly the insertions between their exchange and their fetch_add.
EntryCount ==
  LET uncounted == {t \in Threads : pc[t] = "count"}
  IN  numEntry + Cardinality(uncounted) = Cardinality(published)

\* A call that has returned returned a node of the table that holds the key it
\* asked for, also when the exchange was lost to another thread's insertion of
\* the same key.
ResultIsRequested ==
  \A t \in Threads :
    ret[t] # Null =>
      /\ ret[t] \in published
      /\ mine[t] # Null => key[ret[t]] = key[mine[t]]

\* The spare that make_node overwrites at the next call belongs to one thread
\* and is not in the table, where others would see its fields change.
SparesPrivate ==
  \A t \in Threads :
    freeId[t] # Null =>
      /\ freeId[t] \in published => pc[t] = "count" /\ mine[t] = freeId[t]
      /\ \A u \in Threads \ {t} : freeId[t] \notin {freeId[u], mine[u]}

\* A node that is in the table stays there and keeps its key: threads read it
\* without a lock for as long as they hold a read guard.
PublishedFrozen ==
  [][\A a \in published : a \in published' /\ key'[a] = key[a]]_vars

\* Every call of get_or_insert returns. The list is lock-free and no more: the
\* exchange fails only when another thread has inserted a node, and memory, as
\* nothing is freed under read guards, bounds how often that happens.
Terminates ==
  \A t \in Threads : pc[t] # "idle" ~> pc[t] = "idle"

NoKey == <<>>

\* A call is pending in the abstract table until its exchange succeeds or it
\* meets its key, and has its answer from then on. The key it asked for is that
\* of the node it passed in, which nobody changes before the next call.
Abstract ==
  INSTANCE NodeSet WITH
    nodes <- published,
    keyOf <- [a \in published |-> key[a]],
    want <- [t \in Threads |-> IF mine[t] = Null THEN NoKey ELSE key[mine[t]]],
    got <- [t \in Threads |-> IF pc[t] = "count" THEN mine[t] ELSE ret[t]]

\* The lock-free list implements a table whose get_or_insert is atomic.
ImplementsNodeSet == Abstract!Spec

=============================================================================
