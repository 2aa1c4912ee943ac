----------------------------- MODULE BddManager ------------------------------
(***************************************************************************)
(* The Manager of src/src/tobdd.rs: threads that compute not, and, or and  *)
(* comp on shared BDDs, drop the results, and clean up or grow the table   *)
(* between operations.                                                     *)
(*                                                                         *)
(* The lock is RwLock, which WriterLock implements; get_or_insert is one   *)
(* step, as UniqueTable implements it (NodeSet). Every access of an        *)
(* operation to the table, a cache, a counter or the lock is one action,   *)
(* and so is each step of its recursion.                                   *)
(*                                                                         *)
(* den is a history variable: the function each node stands for, as the    *)
(* set of its satisfying assignments. An assignment is the set of the      *)
(* variables that are true in it.                                          *)
(***************************************************************************)
EXTENDS Naturals, FiniteSets, Sequences

CONSTANTS
  Threads,          \* the threads that share the manager
  NoThread,         \* the owner of a free writer slot
  Addr,             \* the addresses the allocator has
  Malloc(_),        \* of a set of free addresses, those Box::new may return
  NumVars,          \* var_num
  BootAddr,         \* where Manager::init put true, false, x0, not x0, x1, ...
  InitBuckets,      \* 1 << size_exp of the table after init
  InitSlots,        \* 1 << size_exp of each cache after init
  CacheHash(_, _),  \* splitmix64 and splitmix64_2 of a cache key
  Workload,         \* bound: the calls the clients make
  MaxCalls          \* bound: how many each of them makes

Null == 0

Vars == 0 .. NumVars - 1

BootLen == 2 + 2 * NumVars

ASSUME AddrAssumption ==
  /\ Addr \subseteq Nat \ {Null}
  /\ IsFiniteSet(Addr)
  /\ \A free \in SUBSET Addr : Malloc(free) \subseteq free

ASSUME BootAssumption ==
  /\ NumVars \in Nat
  /\ BootAddr \in [1 .. BootLen -> Addr]
  /\ \A i, j \in 1 .. BootLen : BootAddr[i] = BootAddr[j] => i = j

ASSUME SizeAssumption ==
  /\ InitBuckets \in Nat \ {0}
  /\ InitSlots \in Nat \ {0}
  /\ \A a, b \in Addr \union {Null} : CacheHash(a, b) \in Nat

ASSUME ThreadsAssumption == NoThread \notin Threads

ASSUME MaxCallsAssumption == MaxCalls \in Nat

VARIABLES
  nodes,        \* the nodes in the unique table
  key,          \* their level, low and high
  refs,         \* their ref_cnt
  marked,       \* those with the MARK bit in their level
  den,          \* history: the function each of them stands for
  numEntry,     \* num_entry
  buckets,      \* bucket_size()
  slots,        \* the number of entries of each cache
  cache,        \* the entries of the caches of not, and, or, comp
  readers, slot, writing,   \* rw_lock
  pc,           \* where each thread is
  call,         \* the call it is in
  entries,      \* entry_num of its enter_op
  size,         \* bucket_size of its enter_op
  eval,         \* the recursive call it is about to make
  val,          \* what the last recursive call returned, Null while it runs
  stack,        \* the activations of the recursion, innermost first
  owned,        \* how many references to each node its client holds
  calls         \* bound: how many calls it has made

tableVars == <<nodes, key, refs, den, numEntry>>
sizeVars == <<buckets, slots>>
lockVars == <<readers, slot, writing>>
loadVars == <<entries, size>>
recVars == <<eval, val, stack>>
clientVars == <<call, owned, calls>>
vars == <<tableVars, marked, sizeVars, cache, lockVars, pc, loadVars, recVars,
          clientVars>>

Lock == INSTANCE RwLock

-----------------------------------------------------------------------------
(* Functions and nodes.                                                    *)

Assignments == SUBSET Vars

TrueId == BootAddr[1]
FalseId == BootAddr[2]

Terminals == {TrueId, FalseId}

\* What Manager::init references and no client may drop.
Permanent == {BootAddr[i] : i \in 1 .. BootLen}

\* if v then hi else lo
Mux(v, lo, hi) == {s \in hi : v \in s} \union {s \in lo : v \notin s}

Level(a) == key[a][1]
Low(a) == key[a][2]
High(a) == key[a][3]

Children(a) == {Low(a), High(a)} \ {Null}

FreeKey == <<0, Null, Null>>

IndexOf(a) == CHOOSE i \in 1 .. BootLen : BootAddr[i] = a

BootKey(i) ==
  CASE i = 1 -> <<1, Null, Null>>
    [] i = 2 -> <<0, Null, Null>>
    [] i > 2 /\ i % 2 = 1 -> <<(i - 3) \div 2, FalseId, TrueId>>
    [] i > 2 /\ i % 2 = 0 -> <<(i - 4) \div 2, TrueId, FalseId>>

BootDen(i) ==
  CASE i = 1 -> Assignments
    [] i = 2 -> {}
    [] i > 2 /\ i % 2 = 1 -> Mux((i - 3) \div 2, {}, Assignments)
    [] i > 2 /\ i % 2 = 0 -> Mux((i - 4) \div 2, Assignments, {})

\* mark_rec from every node of roots: no path is longer than the variables.
Reach(roots) ==
  LET upTo[i \in 0 .. NumVars] ==
        IF i = 0 THEN roots
        ELSE upTo[i - 1] \union UNION {Children(a) : a \in upTo[i - 1]}
  IN  upTo[NumVars]

-----------------------------------------------------------------------------
(* Calls and caches.                                                       *)

Ptr == Addr \union {Null}

Ops == {"not", "and", "or", "comp"}

\* The quantifiers are in the interface and panic.
Unimplemented == {"exist", "forall"}

Call == [op : Ops \union Unimplemented \union {"gc", "ref", "none"}, l : Ptr, r : Ptr]

NoCall == [op |-> "none", l |-> Null, r |-> Null]

Gc == [op |-> "gc", l |-> Null, r |-> Null]

\* Clients pass pointers to nodes; not and ref take one.
ASSUME WorkloadAssumption ==
  \A c \in Workload \ {Gc} :
    /\ c \in Call /\ c.op \notin {"none", "gc"}
    /\ c.l \in Addr
    /\ IF c.op \in {"not", "ref"} THEN c.r = Null ELSE c.r \in Addr

\* What an operation promises of the functions of its operands.
Apply(op, f, g) ==
  CASE op = "not"  -> Assignments \ f
    [] op = "and"  -> f \intersect g
    [] op = "or"   -> f \union g
    [] op = "comp" -> f \ g

NoEntry == [l |-> Null, r |-> Null, val |-> Null]

EmptyCache(n) == [op \in Ops |-> [i \in 0 .. n - 1 |-> NoEntry]]

Index(c) == CacheHash(c.l, c.r) % slots

\* get: the default value, a null pointer, when the entry has another key.
Cached(c) ==
  LET entry == cache[c.op][Index(c)]
  IN  IF entry.l = c.l /\ entry.r = c.r THEN entry.val ELSE Null

Frame == [call : Call, low : Ptr, made : BOOLEAN]

Steps ==
  {"idle", "entries", "buckets", "claim", "wait", "mark", "sweep", "clear", "grow",
   "release", "enter", "run", "exit", "panicked"}

\* Every variable but refs and pc, which have more values where streams are read.
DataOK ==
  /\ nodes \in SUBSET Addr
  /\ key \in [Addr -> Nat \X Ptr \X Ptr]
  /\ marked \in SUBSET nodes
  /\ den \in [Addr -> SUBSET Assignments]
  /\ numEntry \in Nat
  /\ buckets \in Nat \ {0}
  /\ slots \in Nat \ {0}
  /\ cache \in [Ops -> [0 .. slots - 1 -> [l : Ptr, r : Ptr, val : Ptr]]]
  /\ Lock!TypeOK
  /\ call \in [Threads -> Call]
  /\ entries \in [Threads -> Nat]
  /\ size \in [Threads -> Nat]
  /\ eval \in [Threads -> Call]
  /\ val \in [Threads -> Ptr]
  /\ stack \in [Threads -> Seq(Frame)]
  /\ owned \in [Threads -> [Addr -> Nat]]
  /\ calls \in [Threads -> 0 .. MaxCalls]

TypeOK ==
  /\ DataOK
  /\ refs \in [Addr -> Nat]
  /\ pc \in [Threads -> Steps]

\* The state in which Manager::init leaves the manager.
Init ==
  /\ nodes = Permanent
  /\ key = [a \in Addr |-> IF a \in Permanent THEN BootKey(IndexOf(a)) ELSE FreeKey]
  /\ den = [a \in Addr |-> IF a \in Permanent THEN BootDen(IndexOf(a)) ELSE {}]
  /\ refs = [a \in Addr |-> IF a \in Permanent THEN 1 ELSE 0]
  /\ marked = {}
  /\ numEntry = BootLen
  /\ buckets = InitBuckets
  /\ slots = InitSlots
  /\ cache = EmptyCache(InitSlots)
  /\ Lock!Init
  /\ pc = [t \in Threads |-> "idle"]
  /\ call = [t \in Threads |-> NoCall]
  /\ entries = [t \in Threads |-> 0]
  /\ size = [t \in Threads |-> 0]
  /\ eval = [t \in Threads |-> NoCall]
  /\ val = [t \in Threads |-> Null]
  /\ stack = [t \in Threads |-> <<>>]
  /\ owned = [t \in Threads |-> [a \in Addr |-> 0]]
  /\ calls = [t \in Threads |-> 0]

Goto(t, step) == pc' = [pc EXCEPT ![t] = step]

-----------------------------------------------------------------------------
(* The clients.                                                            *)

IsOperand(t, a) == a \in Permanent \/ owned[t][a] > 0

\* The references that clients hold to a.
Held(a) == UNION {{t} \X (1 .. owned[t][a]) : t \in Threads}

MayCall(t) == pc[t] = "idle" /\ calls[t] < MaxCalls

Start(t, c, step) ==
  /\ call' = [call EXCEPT ![t] = c]
  /\ calls' = [calls EXCEPT ![t] = @ + 1]
  /\ Goto(t, step)
  /\ UNCHANGED <<tableVars, marked, sizeVars, cache, lockVars, loadVars, recVars,
                 owned>>

\* An operation on nodes that the client holds, or that nobody can drop.
BeginOp(t, c) ==
  /\ MayCall(t)
  /\ c.op \notin {"gc", "ref"}
  /\ IsOperand(t, c.l)
  /\ c.op # "not" => IsOperand(t, c.r)
  /\ Start(t, c, "entries")

BeginGc(t) ==
  /\ MayCall(t)
  /\ Gc \in Workload
  /\ Start(t, Gc, "claim")

\* Mutation: the result is not referenced.
NotReferenced(n) == n

Referenced(n) == n + 1

\* ref_bdd by a client, on a node it may use.
Ref(t, c) ==
  /\ MayCall(t)
  /\ c.op = "ref"
  /\ IsOperand(t, c.l)
  /\ refs' = [refs EXCEPT ![c.l] = Referenced(@)]
  /\ owned' = [owned EXCEPT ![t][c.l] = @ + 1]
  /\ calls' = [calls EXCEPT ![t] = @ + 1]
  /\ UNCHANGED <<nodes, key, den, numEntry, marked, sizeVars, cache, lockVars, pc,
                 loadVars, recVars, call>>

\* Mutation: a reference is taken back twice.
LessTwo(n) == n - 2

LessOne(n) == n - 1

\* deref_bdd takes no lock: it runs at any moment of the others' calls.
Deref(t, a) ==
  /\ pc[t] = "idle"
  /\ owned[t][a] > 0
  /\ refs' = [refs EXCEPT ![a] = LessOne(@)]
  /\ owned' = [owned EXCEPT ![t][a] = @ - 1]
  /\ UNCHANGED <<nodes, key, den, numEntry, marked, sizeVars, cache, lockVars, pc,
                 loadVars, recVars, call, calls>>

-----------------------------------------------------------------------------
(* enter_op and gc.                                                        *)

LoadEntries(t) ==
  /\ pc[t] = "entries"
  /\ entries' = [entries EXCEPT ![t] = numEntry]
  /\ Goto(t, "buckets")
  /\ UNCHANGED <<tableVars, marked, sizeVars, cache, lockVars, size, recVars,
                 clientVars>>

\* MAX_LOAD_FACTOR is 1.
LoadBuckets(t) ==
  /\ pc[t] = "buckets"
  /\ size' = [size EXCEPT ![t] = buckets]
  /\ Goto(t, IF entries[t] >= buckets THEN "claim" ELSE "enter")
  /\ UNCHANGED <<tableVars, marked, sizeVars, cache, lockVars, entries, recVars,
                 clientVars>>

\* try_write, once it is over: gc() is over too, an operation goes on to read.
AfterWrite(t) == IF call[t].op = "gc" THEN "idle" ELSE "enter"

TryWriteFails(t) ==
  /\ pc[t] = "claim"
  /\ slot # NoThread
  /\ Goto(t, AfterWrite(t))
  /\ UNCHANGED <<tableVars, marked, sizeVars, cache, lockVars, loadVars, recVars,
                 clientVars>>

TryWriteClaims(t) ==
  /\ pc[t] = "claim"
  /\ Lock!Claim(t)
  /\ Goto(t, "wait")
  /\ UNCHANGED <<tableVars, marked, sizeVars, cache, loadVars, recVars, clientVars>>

\* Mutation: the guard is bound to _ and dropped as soon as it is there.
DropsGuardAtOnce(t) ==
  /\ slot = t /\ ~writing /\ readers = {}
  /\ slot' = NoThread
  /\ UNCHANGED <<readers, writing>>

TakesGuard(t) == Lock!EnterWrite(t)

TryWriteEnters(t) ==
  /\ pc[t] = "wait"
  /\ TakesGuard(t)
  /\ Goto(t, "mark")
  /\ UNCHANGED <<tableVars, marked, sizeVars, cache, loadVars, recVars, clientVars>>

\* entry_num - marked wraps around when nodes were made since entry_num was
\* read; MIN_GC_RATIO is a quarter.
FreesLittle(t, numMarks) ==
  /\ entries[t] >= numMarks
  /\ entries[t] - numMarks < size[t] \div 4

\* Mutation: the children of a referenced node are not marked.
ReachNone(roots) == roots

Marking(roots) == Reach(roots)

MarkNodes(t) ==
  /\ pc[t] = "mark"
  /\ marked' = Marking({a \in nodes : refs[a] # 0})
  /\ Goto(t, IF call[t].op # "gc" /\ FreesLittle(t, Cardinality(marked'))
             THEN "grow" ELSE "sweep")
  /\ UNCHANGED <<tableVars, sizeVars, cache, lockVars, loadVars, recVars, clientVars>>

\* gc_unmarked frees what has no MARK and stores num_marks in num_entry, then
\* unmark_nodes. What is in freed memory is of no account.
Sweep(t) ==
  /\ pc[t] = "sweep"
  /\ nodes' = marked
  /\ key' = [a \in Addr |-> IF a \in marked THEN key[a] ELSE FreeKey]
  /\ den' = [a \in Addr |-> IF a \in marked THEN den[a] ELSE {}]
  /\ numEntry' = Cardinality(marked)
  /\ marked' = {}
  /\ Goto(t, "clear")
  /\ UNCHANGED <<refs, sizeVars, cache, lockVars, loadVars, recVars, clientVars>>

\* Mutation: the guard lives to the end of the function.
KeepsGuard(t) == AfterWrite(t)

DropsGuard(t) == "release"

\* Mutation: one cache is forgotten.
AllButComp == [EmptyCache(slots) EXCEPT !["comp"] = cache["comp"]]

Invalidated == EmptyCache(slots)

\* invalidate_all of every cache.
Clear(t) ==
  /\ pc[t] = "clear"
  /\ cache' = Invalidated
  /\ Goto(t, DropsGuard(t))
  /\ UNCHANGED <<tableVars, marked, sizeVars, lockVars, loadVars, recVars, clientVars>>

\* unmark_nodes, then the table and the caches double; the caches come out
\* empty.
Grow(t) ==
  /\ pc[t] = "grow"
  /\ marked' = {}
  /\ buckets' = 2 * buckets
  /\ slots' = 2 * slots
  /\ cache' = EmptyCache(2 * slots)
  /\ Goto(t, DropsGuard(t))
  /\ UNCHANGED <<tableVars, lockVars, loadVars, recVars, clientVars>>

\* The WriteGuard is dropped.
Release(t) ==
  /\ pc[t] = "release"
  /\ Lock!ReleaseWrite(t)
  /\ Goto(t, AfterWrite(t))
  /\ UNCHANGED <<tableVars, marked, sizeVars, cache, loadVars, recVars, clientVars>>

-----------------------------------------------------------------------------
(* The recursion.                                                          *)

Return(t, a) == val' = [val EXCEPT ![t] = a]

Recur(t, c) ==
  /\ eval' = [eval EXCEPT ![t] = c]
  /\ Return(t, Null)

Enter(t) ==
  /\ pc[t] = "enter"
  /\ Lock!AcquireRead(t)
  /\ Recur(t, call[t])
  /\ Goto(t, "run")
  /\ entries' = [entries EXCEPT ![t] = 0]
  /\ size' = [size EXCEPT ![t] = 0]
  /\ UNCHANGED <<tableVars, marked, sizeVars, cache, stack, clientVars>>

\* todo!(): the guard is dropped as the stack unwinds.
Quantify(t) ==
  /\ pc[t] = "run"
  /\ call[t].op \in Unimplemented
  /\ Lock!ReleaseRead(t)
  /\ Goto(t, "panicked")
  /\ UNCHANGED <<tableVars, marked, sizeVars, cache, loadVars, recVars, clientVars>>

Running(t) == pc[t] = "run" /\ call[t].op \in Ops

\* and and or sort their operands by address.
Sorted(c) ==
  IF c.op \in {"and", "or"} /\ c.l > c.r THEN [c EXCEPT !.l = c.r, !.r = c.l] ELSE c

\* The answer of a call that does not recurse, Null when it does.
Trivial(c) ==
  CASE c.op = "not" ->
         CASE c.l = TrueId -> FalseId
           [] c.l = FalseId -> TrueId
           [] OTHER -> Null
    [] c.op = "and" ->
         CASE c.l = c.r \/ c.r = TrueId -> c.l
           [] c.l = FalseId \/ c.r = FalseId -> FalseId
           [] c.l = TrueId -> c.r
           [] OTHER -> Null
    [] c.op = "or" ->
         CASE c.l = c.r \/ c.r = FalseId -> c.l
           [] c.l = TrueId \/ c.r = TrueId -> TrueId
           [] c.l = FalseId -> c.r
           [] OTHER -> Null
    [] c.op = "comp" ->
         CASE c.l = c.r \/ c.l = FalseId \/ c.r = TrueId -> FalseId
           [] c.r = FalseId -> c.l
           [] OTHER -> Null

\* Mutation: true \ g is taken for g.
TrueMinusIsSame(c) == [op |-> "or", l |-> c.r, r |-> c.r]

TrueMinus(c) == [op |-> "not", l |-> c.r, r |-> Null]

\* comp of true is not of the other operand, which uses another cache.
Effective(c) == IF c.op = "comp" /\ c.l = TrueId /\ Trivial(c) = Null
                THEN TrueMinus(c) ELSE Sorted(c)

Evaluating(t) == Running(t) /\ val[t] = Null

\* A terminal case.
Settle(t) ==
  /\ Evaluating(t)
  /\ LET c == Effective(eval[t])
     IN  Trivial(c) # Null /\ Return(t, Trivial(c))
  /\ UNCHANGED <<tableVars, marked, sizeVars, cache, lockVars, pc, loadVars, eval,
                 stack, clientVars>>

Operands(c) == IF c.op = "not" THEN {c.l} ELSE {c.l, c.r}

\* The level of the topmost operand.
TopLevel(c) == CHOOSE v \in {Level(a) : a \in Operands(c)} :
                 \A a \in Operands(c) : v <= Level(a)

\* The call for one child, 2 the low and 3 the high one, of the operands of the
\* top level.
Cofactor(c, child) ==
  LET of(a) == IF Level(a) = TopLevel(c) THEN key[a][child] ELSE a
  IN  [c EXCEPT !.l = of(c.l), !.r = IF c.op = "not" THEN Null ELSE of(c.r)]

CacheHit(t) ==
  /\ Evaluating(t)
  /\ LET c == Effective(eval[t])
     IN  /\ Trivial(c) = Null
         /\ Cached(c) # Null
         /\ Return(t, Cached(c))
  /\ UNCHANGED <<tableVars, marked, sizeVars, cache, lockVars, pc, loadVars, eval,
                 stack, clientVars>>

CacheMiss(t) ==
  /\ Evaluating(t)
  /\ LET c == Effective(eval[t])
     IN  /\ Trivial(c) = Null
         /\ Cached(c) = Null
         /\ stack' = [stack EXCEPT ![t] =
                         <<[call |-> c, low |-> Null, made |-> FALSE]>> \o @]
         /\ Recur(t, Cofactor(c, 2))
  /\ UNCHANGED <<tableVars, marked, sizeVars, cache, lockVars, pc, loadVars,
                 clientVars>>

\* A recursive call has returned to the innermost activation.
Returning(t) == Running(t) /\ val[t] # Null /\ stack[t] # <<>>

Top(t) == Head(stack[t])

\* f_low is there, f_high is next.
LowDone(t) ==
  /\ Returning(t)
  /\ Top(t).low = Null
  /\ stack' = [stack EXCEPT ![t][1].low = val[t]]
  /\ Recur(t, Cofactor(Top(t).call, 3))
  /\ UNCHANGED <<tableVars, marked, sizeVars, cache, lockVars, pc, loadVars,
                 clientVars>>

\* Mutation: nodes that do not test their variable are made.
NeverRedundant(low, high) == FALSE

Redundant(low, high) == low = high

\* make_node(level, low, high) gives a.
MakeNode(level, low, high, a) ==
  LET k == <<level, low, high>>
      same == {b \in nodes : key[b] = k}
  IN  IF Redundant(low, high)
      THEN a = low /\ UNCHANGED tableVars
      ELSE IF same # {}
      THEN a \in same /\ UNCHANGED tableVars
      ELSE /\ a \in Malloc(Addr \ nodes)
           /\ nodes' = nodes \union {a}
           /\ key' = [key EXCEPT ![a] = k]
           /\ refs' = [refs EXCEPT ![a] = 0]
           /\ den' = [den EXCEPT ![a] = Mux(level, den[low], den[high])]
           /\ numEntry' = numEntry + 1

HighDone(t) ==
  /\ Returning(t)
  /\ Top(t).low # Null
  /\ ~Top(t).made
  /\ \E a \in Addr :
       /\ MakeNode(TopLevel(Top(t).call), Top(t).low, val[t], a)
       /\ Return(t, a)
  /\ stack' = [stack EXCEPT ![t][1].made = TRUE]
  /\ UNCHANGED <<marked, sizeVars, cache, lockVars, pc, loadVars, eval, clientVars>>

\* insert replaces the entry, or gives up when another thread is using it.
CacheInsert(t) ==
  /\ Returning(t)
  /\ Top(t).made
  /\ LET c == Top(t).call
         entry == [l |-> c.l, r |-> c.r, val |-> val[t]]
     IN  \/ cache' = [cache EXCEPT ![c.op][Index(c)] = entry]
         \/ (\E u \in Threads \ {t} : Running(u)) /\ UNCHANGED cache
  /\ stack' = [stack EXCEPT ![t] = Tail(@)]
  /\ UNCHANGED <<tableVars, marked, sizeVars, lockVars, pc, loadVars, eval, val,
                 clientVars>>

\* ref_bdd(ret), while no collection can run.
RefResult(t) ==
  /\ Running(t)
  /\ val[t] # Null
  /\ stack[t] = <<>>
  /\ refs' = [refs EXCEPT ![val[t]] = Referenced(@)]
  /\ owned' = [owned EXCEPT ![t][val[t]] = @ + 1]
  /\ Goto(t, "exit")
  /\ UNCHANGED <<nodes, key, den, numEntry, marked, sizeVars, cache, lockVars,
                 loadVars, recVars, call, calls>>

\* The ReadGuard is dropped and the operation returns.
Exit(t) ==
  /\ pc[t] = "exit"
  /\ Lock!ReleaseRead(t)
  /\ Recur(t, NoCall)
  /\ call' = [call EXCEPT ![t] = NoCall]
  /\ Goto(t, "idle")
  /\ UNCHANGED <<tableVars, marked, sizeVars, cache, loadVars, stack, owned, calls>>

-----------------------------------------------------------------------------

Maintain(t) ==
  \/ TryWriteFails(t)
  \/ TryWriteClaims(t)
  \/ TryWriteEnters(t)
  \/ MarkNodes(t)
  \/ Sweep(t)
  \/ Clear(t)
  \/ Grow(t)
  \/ Release(t)

Compute(t) ==
  \/ Settle(t)
  \/ CacheHit(t)
  \/ CacheMiss(t)
  \/ LowDone(t)
  \/ HighDone(t)
  \/ CacheInsert(t)
  \/ RefResult(t)

Step(t) ==
  \/ LoadEntries(t)
  \/ LoadBuckets(t)
  \/ Maintain(t)
  \/ Enter(t)
  \/ Quantify(t)
  \/ Compute(t)
  \/ Exit(t)

Next ==
  \E t \in Threads :
    \/ \E c \in Workload : BeginOp(t, c) \/ Ref(t, c)
    \/ BeginGc(t)
    \/ \E a \in Addr : Deref(t, a)
    \/ Step(t)

SafeSpec == Init /\ [][Next]_vars

\* A thread in a call keeps executing. Waiting for the lock is a spin, so a
\* step that is enabled only now and then need not be taken.
Fairness == \A t \in Threads : WF_vars(Step(t))

Spec == SafeSpec /\ Fairness

-----------------------------------------------------------------------------
(* Properties.                                                             *)

\* The table is a reduced ordered diagram, and so canonical in the strong sense:
\* no two of its nodes stand for one function, which is what comparing BDDs by
\* pointer (is_true, is_false, the terminal cases) relies on.
Reduced ==
  /\ \A a \in nodes \ {TrueId, FalseId} :
       /\ {Low(a), High(a)} \subseteq nodes
       /\ Low(a) # High(a)
       /\ \A b \in {Low(a), High(a)} \ {TrueId, FalseId} : Level(a) < Level(b)
  /\ \A a, b \in nodes : den[a] = den[b] => a = b

\* What a client holds has not been freed, nor anything below it, whatever the
\* other threads dropped and collected.
HandlesAlive ==
  /\ Permanent \subseteq nodes
  /\ \A t \in Threads, a \in Addr :
       owned[t][a] > 0 => a \in nodes /\ Reach({a}) \subseteq nodes

\* The nodes an operation has its hands on, most of which nobody references.
InFlight(t) ==
  {eval[t].l, eval[t].r, val[t]}
    \union UNION {{stack[t][i].call.l, stack[t][i].call.r, stack[t][i].low} :
                   i \in DOMAIN stack[t]}

\* No collection frees a node under a running operation.
InFlightAlive ==
  \A t \in Threads : pc[t] \in {"run", "exit"} => InFlight(t) \subseteq nodes \union {Null}

\* Outside a collection every cache entry is a true equation between nodes of
\* the table: none survives the nodes it names, whose addresses new nodes get.
CacheSound ==
  (\A t \in Threads : pc[t] # "clear") =>
    \A op \in Ops, i \in 0 .. slots - 1 :
      LET entry == cache[op][i]
      IN  entry # NoEntry =>
            /\ {entry.l, entry.val} \subseteq nodes
            /\ op # "not" => entry.r \in nodes
            /\ den[entry.val] =
                 Apply(op, den[entry.l], IF op = "not" THEN {} ELSE den[entry.r])

\* An operation returns the node of the function it promises, whatever other
\* threads did to the table and the caches meanwhile.
ResultCorrect ==
  \A t \in Threads : pc[t] = "exit" =>
    LET c == call[t]
    IN  den[val[t]] = Apply(c.op, den[c.l], IF c.op = "not" THEN {} ELSE den[c.r])

\* While a client holds a node, the node stands for the same function.
HeldFrozen ==
  [][\A t \in Threads, a \in Addr :
       owned[t][a] > 0 => key'[a] = key[a] /\ den'[a] = den[a]]_vars

\* Nodes leave the table and the table is resized only while no operation is
\* between its read guard's beginning and its end.
MaintenanceAlone ==
  [][nodes \ nodes' # {} \/ buckets' # buckets =>
       \A t \in Threads : pc[t] \notin {"run", "exit"}]_vars

\* Every call returns, or panics: the writer does not wait for itself, and a
\* reader that is kept out by writers gets in when they stop coming.
CallsReturn ==
  \A t \in Threads : pc[t] \notin {"idle", "panicked"} ~> pc[t] \in {"idle", "panicked"}

-----------------------------------------------------------------------------
(* What the comment of enter_op says and the code does not do, because it   *)
(* decides with an entry_num and a bucket_size that it read before it had   *)
(* the lock.                                                                *)

\* "if gc only clean a small amout of nodes, we need a resize": a thread that
\* collects an overloaded table in enter_op frees a quarter of the table's size.
CollectsOnlyIfWorthIt ==
  [][\A t \in Threads :
       /\ pc[t] = "mark" /\ pc'[t] = "sweep"
       /\ call[t].op # "gc"
       /\ numEntry >= buckets
       => Cardinality(nodes \ marked') >= buckets \div 4]_vars

=============================================================================
