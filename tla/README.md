# tobdd-rs in TLA+

tobdd-rs is a library of shared binary decision diagrams (BDDs). A `Manager` owns all nodes;
threads build BDDs through it, compare them by pointer, hold them by reference counts and give
them back. This directory holds its specification: modules, TLC runs, and proofs checked by
TLAPS. Source paths below are those of the repository (`src/tobdd.rs` and so on).

## The system

| part | state | operations |
|---|---|---|
| Manager, `src/tobdd.rs`, `src/lib.rs` | the terminals, `vars`, `nvars`, one table, six caches, one lock | `init`, `not`, `and`, `or`, `comp`, `exist` and `forall` (both `todo!()`), `deref_bdd`, `ref_bdd`, `gc`, `enter_op`, `serialize`, `deserialize`, `print` |
| Unique table, `src/set.rs` | array of sorted linked lists, `size_exp`, `num_marks`, `num_entry` | `get_or_insert` (lock-free), `grow`, `mark_nodes`, `gc_unmarked`, `unmark_nodes` (exclusive), `sanity_check`, `table_stat_report` |
| Node, `src/node.rs` | `ref_cnt`, `level` (its top bit is the mark), `low`, `high`, `next`, `hash` | field access, `key`, `rehash` |
| Operation caches, `src/cache.rs` | array of (key, value) entries, each with a lock | `get`, `insert` (may give up), `invalidate_all`, `grow` |
| Manager's lock, `src/spin/rw_w_pre.rs` | one atomic word: locked, pending, readers | `read`, `try_write`, the drops of both guards |
| Entry lock, `src/spin/rw_r_pre.rs` | one atomic counter, -1 for a writer | `read`, `try_write_once`, the drop of the guard |
| Hashes, `src/hash.rs` | none | `splitmix64`, `_2`, `_3` |
| Node store, `src/.store.rs` | free list, segments | not part of the crate |
| Benchmark, `benches/` | none | n queens, a client |

How they interact. Every operation calls `enter_op`: it compares `num_entry` with the number of
buckets and, when the table is full, tries to take the lock for writing, marks what is
referenced and either sweeps the rest or doubles table and caches. Then it takes the lock for
reading. Under read guards the table only grows, by compare-and-exchange on list cells, and
recursions run in parallel, sharing nodes and cache entries. The result is referenced and the
guard dropped. `deref_bdd` takes no lock at all. `make_node` keeps one spare node per thread in
the thread-local `FREE_ID`.

What is hard:

* interleavings of insertions in one list; readers of the lists that hold no lock on them;
* a collection against operations whose nodes nobody references yet;
* references dropped at any moment, in particular between mark and sweep;
* caches that name nodes nobody references, and addresses that are used again after a collection;
* decisions taken on values read before the lock was there;
* `serialize` and `print`, which read nodes without a lock while a collection sets the mark in their
  levels; `deserialize`, which counts references by itself;
* progress: a writer that waits for readers, a reader behind writers, a thread that takes the
  lock twice in a row, operations that panic.

What makes each part correct: for the lock, exclusion, writer preference and the writer's
progress; for the table, that `get_or_insert` acts at one instant and never makes a duplicate;
for the caches, that an entry is a true equation between live nodes; for the manager, that what
is held is alive and unchanged, that results are the right functions, and that calls return; for
the collector, that it keeps what is held, frees the rest and leaves the lists in order; for
streams, that each record becomes the node of its function and no reference is forged or lost.

## The modules

```
NodeSet  <--implements--  UniqueTable    <--about--  UniqueTableProofs
RwLock   <--implements--  WriterLock     <--about--  WriterLockProofs
   |
   +--INSTANCE--  LockFreeCache  --implements-->  OpCache
   |                   ^--about--  LockFreeCacheProofs
   |
   +--INSTANCE--  BddManager  <--EXTENDS--  BddIo  <--about--  BddIoProofs
                       ^--about--  BddInvariant, BddLemmas, BddManagerProofs
                   the table is one step per get_or_insert, as in NodeSet,
                   a cache one per get or insert, as in OpCache

Collector          the phases of a collection or a growth that BddManager takes in
                   one step each
                       ^--about--  CollectorProofs

ListLemmas         induction by the least element, sorted linked lists: cited by
                   UniqueTableProofs, CollectorProofs and BddLemmas

MCUniqueTable, MCWriterLock, MCLockFreeCache, MCBddManager, MCCollector, MCBddIo:
                   the instances TLC checks
```

**RwLock** is what `rw_w_pre.rs` promises: `AcquireRead`, `ReleaseRead`, `Claim` (the pending
bit), `EnterWrite` (the readers are gone), `ReleaseWrite`. **WriterLock** is the code: the word
as a record of its three fields, and one action per load, exchange and fetch of `read()` and
`try_write()`. `seen` is the local variable `s`. Exchanges fail when the word has changed and
also spuriously (`compare_exchange_weak`). The reader count has 62 bits and does not wrap.

**NodeSet** is what the table promises: a call takes effect at one instant, and its answer is for the key
it asked for and does not change before the next call. **UniqueTable** is
`get_or_insert`, `make_node` and `Manager::init`: `LoadHead`, `WalkOn`, `WalkFound`, `WalkStop`,
`CasOk`, `CasFail`, `Count` are the accesses of the loop in order; `BootInsert` is one insertion
of `init`, `MakeNode` and `MakeNoNode` are the two entries of `make_node`. `prev` is the cell
under the thread's eyes, `Null` for the head of the bucket. Keys are compared as triples of
numbers, as the pointers are in the code, so lists are sorted by where the allocator put the
children. Bound: a call starts only while the allocator can serve it (`AllocatorServes`).

**BddManager** is the manager. A call goes through `enter_op` (`LoadEntries`, `LoadBuckets`,
`TryWriteFails`, `TryWriteClaims`, `TryWriteEnters`, `MarkNodes`, `Sweep`, `Clear`, `Grow`,
`Release`, `Enter`), the recursion (`Settle` for a terminal case, `CacheHit`, `CacheMiss`,
`LowDone`, `HighDone` with `make_node`, `CacheInsert`) and `RefResult`, `Exit`. The recursion is an
explicit stack of activations. `_not_rec`, `_and_rec`, `_or_rec` and `_comp_rec` differ in their
terminal cases (`Trivial`), in the sorting of operands (`Effective`) and in the cache; the rest
is one scheme, `Cofactor`. `Deref` may happen whenever its client is idle, which is at any
moment of the others' calls; `Ref` is `ref_bdd`; `BeginGc` is `gc`; `Quantify` is the panic of
`exist` and `forall`.

**OpCache** is what a cache promises: a call keeps the key, and for an insertion the value, it was made
with (`CallGet`, `CallInsert`) and acts on them at one instant (`Get`, `Insert`): a lookup answers with
the value of that key or with none; an insertion is lost only when another operation is under way;
`Clear` (a collection or a growth) empties the cache at once. The variable `answer`, here and in
LockFreeCache, is the interface: what the thread's call asks for, then what it returned.
**LockFreeCache** is the code of `cache.rs` on `rw_r_pre.rs`: `Load` and `Cas` are `read()`,
with a weak exchange that may fail for nothing; `Compare` and `Take` are the two reads of `get` under
the guard, `Drop` its end; `TryLoad`, `TryCas`, `WriteKey`, `WriteVal`, `Store` are `try_write_once`,
for `insert` and for each entry in turn of `invalidate_all` (`NextEntry`); `Grow` is `grow`. Around
them is the manager's lock (`Join`, `Leave`, `Claim`, `Alone`, `Release`), which is why
`invalidate_all` may ignore that an entry was in use: none is. What an operation inserts for a key is
the key with the generation of the table, so that an entry that outlives a collection is seen.

**Collector** is the exclusive part of the table on its linked lists: `Begin` and `MarkNode` are
`mark_nodes` with `mark_rec` (one step per node of the walk), `SweepNode` is a turn of the loop of
`gc_unmarked` with its `prev` and `next`, `UnmarkNode` is `unmark_nodes`, `GrowNode` moves a node into its
place in a new bucket, `BeginDrop` and `DropNode` are the table's `drop`; `NextBucket` is the outer loop
they have in common. Between any two steps a client may take or drop a reference (`Ref`, `Deref`).
It begins with any table of the instance and any references to its nodes. That the nodes a walk
meets change in no other way is `MaintenanceAlone` of BddManager; whether `enter_op` sweeps or grows is
left open here, and decided as coded there (`FreesLittle`).

**BddIo** adds `serialize`, `deserialize` and `print` to the manager. `BeginSerialize`, `WriteRecord`,
`EndSerialize` write the records in the order of `write_buffer_rec`, without a lock, so a level comes
with the mark it has at that moment. `Open` takes the read guard and reads the header, `ReadRecord` is
`make_node` of a record with its children looked up in the map, `RefRecord` its reference and its
entry in the map, `LevelPanic` the debug assertion on the level (this module is a build with debug
assertions; what a release build does instead is under `io_marked` below), `ReadEnd` the drop of everything in the map, the
terminals too, and the reference for the caller, `Close` the end of the guard; `NullRet` is the
dereference of a null pointer when there was no record, after which the program is gone. A reader may
find a part of the stream only (`cut`). `Lines` is what `print` prints, line by line. Each
`deserialize` takes a reference from the terminals, whose counts begin with 1, and the counts of the
code wrap around at zero; here they become negative, as nothing asks of a count but whether it is
zero. A stream carries the function of each
record as history (`den`), which no action reads. The streams at first are `WellFormed`: the records of
a diagram, children first, with the ids of any manager. What `serialize` writes is well-formed again
(a conjunct of the invariant of BddIoProofs), so that nothing is assumed of it.

Abstractions of BddManager, each to be kept in mind when reading its results:

* `get_or_insert` is one step (UniqueTable implements such a table, NodeSet), and `num_entry` changes in
  it; in the code it lags by the insertions under way (`EntryCount`).
* A cache access is one step, an insertion may do nothing while another thread operates
  (LockFreeCache implements such a cache, OpCache). The two
  quantifier caches are left out, as nothing reads or fills them.
* `mark_nodes`, `gc_unmarked` with `unmark_nodes`, the invalidation of all caches and the growth of
  table and caches are one step each; Collector takes them node by node. Marking in one step reads
  all counts at one instant, which the code does not: what a walk may keep or free with counts that
  change under it is the subject of `HeldSurvive` and `GarbageFreed`. Other threads' `Deref` and reads
  fall between the steps.
* `den` is a history variable: the function a node stands for, a set of assignments, computed
  when the node is made. No action reads it.
* A freed address forgets its key; what is in freed memory is not modelled, the properties say
  that nobody looks.
* `usize` subtraction in `enter_op` wraps around, as the profiles in `Cargo.toml` have it
  (`FreesLittle`). Reference counts are natural numbers: no client drops what it does not hold,
  which is what `src/lib.rs:45` asks of it.

In every module, an operator that begins with `\* Mutation:` is a slip the code could have had;
no action uses it. PROJECT.json pairs each property with one that breaks it.

## What the runs check

| run | instance | shows |
|---|---|---|
| `writer_lock` | 3 threads, any sequence of read and try_write | `MutualExclusion`, `WordAgrees` (the word counts the guards that exist), `NoReaderPassesClaim`, `ClaimBecomesWrite`, `ImplementsRwLock` with its fairness |
| `table_pair` | 2 threads, 2 variables, 2 buckets, 4 keys | `ResultIsRequested`, `EntryCount`, `SparesPrivate`, `PublishedFrozen`, `ImplementsNodeSet`, `Terminates` |
| `table_contention` | 3 threads that want the two keys of neighbouring places | `Canonical`, `SanityCheck` at every instant |
| `manager_mixed` | 2 threads, 3 variables, two calls each: operations, their results as operands, a second reference, `gc`; 8 buckets, 2 cache entries | `HandlesAlive`, `Reduced`, `InFlightAlive`, `CacheSound`, `ResultCorrect`, `HeldFrozen` |
| `manager_load` | 2 threads, a table of 4 buckets that is overloaded from the start, a call that panics, `gc` | `MaintenanceAlone`, `CallsReturn` |
| `manager_apply` | 1 thread, 3 variables, two calls of any operation on any nodes it may use | `ResultCorrect` |
| `manager_stale` | three calls each, 8 buckets | `CollectsOnlyIfWorthIt` fails, see below |
| `cache_entries` | 3 threads, 2 keys that share an entry until the cache grows from 2 entries to 4, one collection or growth | `StateAgrees` (the counter is the guards there are), `EntrySound` (no torn or outlived entry), `ImplementsOpCache` (among others, that a lookup answers for the key it was asked for), `WritesReturn` |
| `collector` | 5 tables of 8 to 12 nodes, 2 buckets, then 4 (a release build, see `collector_bound`), up to 2 references each; collections and growths in any order, then `drop` | `SanityCheck`, `HeldSurvive`, `GarbageFreed`, `EntryCount`, `WalksLive` |
| `collector_bound` | the same | `MarksBounded` fails, see below |
| `io` | 2 threads, 4 variables, two calls each of `serialize`, `deserialize` of a whole stream or a part, `gc`; a foreign stream of 6 records, two of them twice; a build with debug assertions | `ReadsBack`, `HandlesAlive`, `OnlyLostLeak`, `PrintsTheFunction` |
| `io_marked` | the same | `LevelInRange` fails, see below |

Why the bounds are enough to be interesting. Three threads are a writer, a refused writer and a
reader, or two readers and a writer, and the count passes through 2. Two buckets put all nodes of
level 0 (with the two of level 0's parity) in one list, so insertions meet at its middle and end;
three threads make a failed exchange fail again. Two entries per cache make entries collide all
the time. The allocator returns the lowest free address, so a freed address is reused at the
next allocation, the worst case for a stale cache. With two variables every child of an inner
node belongs to the manager for ever; the third variable in `manager_mixed` gives nodes that live
only as children, and one of its calls meets a recursion whose two results are the same node, which
`make_node` must not make a parent of (`Reduced`). In `manager_apply` the boot addresses are descending, so that sorting by
address puts the terminals last and the terminal cases of the right operand are met.
In `cache_entries` the third thread is a second reader, or a writer
between the two steps of a reader's exchange; the single collection is enough for an entry to
outlive it. The tables of `collector` have long lists, so that dead nodes come at the
head, in a row and at the end, and a node that lives only as a child of another. The stream of `io`
has the smallest diagram in which a node that is not a variable is shared and so is written twice,
which takes four variables; the allocator returns the highest free address, so ids and addresses
differ. One client can read it and write what it made, and the other read that.
`manager_mixed` uses the symmetry of its two threads, `table_contention` that of the two that do not
run `init`, `io` that of its two; no liveness is checked under symmetry. Clients make `MaxCalls` calls
and stop, so deadlock is not checked in the runs of BddManager and BddIo, nor in those of Collector, which stops
when the table is dropped; that nobody is stuck in a call is `CallsReturn`.

Fairness. `WriterLock`: a thread that holds a guard drops it, and a claiming writer keeps
executing (weak fairness); its exchange does not fail spuriously for ever (strong fairness on the
successful one: with the pending bit set and no readers the word is stable). A reader or a first
claim is promised nothing, as the code promises nothing. `UniqueTable`: a thread inside
`get_or_insert` keeps executing; that exchanges fail only finitely often is a result, not an
assumption. `BddManager`: a thread inside a call keeps executing; waiting for the lock is a
spin, so weak fairness only takes the lock when it stays free, and `CallsReturn` holds because the
bounded clients stop collecting. A client that collects for ever can starve a reader.
`LockFreeCache`: a thread inside a call keeps executing; a reader of an entry is promised nothing, as
its exchange may fail for ever, and writing must end all the same (`WritesReturn`).

### What the code does not do

* `manager_stale`: `enter_op` reads `num_entry` before it has the lock (`tobdd.rs:595`) and decides with
  it under the lock (`tobdd.rs:601`). t1 reads 8 entries in 8 buckets; before it has the guard, t2,
  already inside its operation, makes and references a ninth node. t1 marks 9, `8 - 9` wraps around,
  the "large gain" branch collects nothing, clears all caches and leaves the table overloaded. The
  comment at `tobdd.rs:594` says that a small gain leads to a resize. No result is wrong for it: the
  other runs of BddManager include this behaviour. For the same reason the second of two threads that
  find a table overloaded may grow it once more than the load asks for.
* `collector_bound`: `mark_nodes` asserts that at most twice as many nodes are marked as there are
  buckets (`set.rs:385`). `init` chooses the buckets from its first argument alone and references two
  nodes per variable; with two buckets and three variables the assertion fails in the first
  collection.
* `io_marked`: a collection marks a node between two records that another thread writes; the record
  has the mark in its level, and `deserialize` asserts that no level exceeds the number of variables
  (`tobdd.rs:347`). A release build has no assertion and makes a node of that level: it is no node of the
  diagram, and `mark_rec` takes it for one that is marked already and passes over its children, so that
  a collection can free them under a client that holds it. What the run `io` and BddIoProofs say of
  streams (`HandlesAlive`, `Reduced` and the others) is therefore said of builds with debug assertions,
  or of streams without such a record.

Seen while modelling, and no property: a stream of a terminal has no record and `deserialize`
dereferences null (`NullRet`); the nodes that a stream has twice keep a reference for ever (`lost`), so
they are never collected, and `OnlyLostLeak` excuses exactly them; `deserialize` accepts a stream that
ends in a record and returns the last node it made, so that the caller takes a part for the whole
(`ReadsBack` is about the records that were read); it accepts the level `num_vars`, one more than the
last; `print` reads a marked level as one below every variable and prints the node as if no variable
mattered (`PrintsTheFunction` is about states in which nothing is marked).

## What is proved

Every safety property of the passing runs is a theorem, for every value of the constants that
satisfies the named assumptions of the modules. These say that the allocator returns free addresses,
finitely many, that hashes are natural numbers, that no size is zero, that `NoThread` is no thread, and:

* `ThreadsAssumption` of WriterLock and UniqueTable, `CacheAssumption`: finitely many threads (the code
  counts them in a word);
* `WorkloadAssumption`: the calls of the clients are calls; the invariant itself gives that an operand
  is a node, since a client may only use what it holds;
* `TablesAssumption` of Collector: the tables a collection may find are diagrams, reduced and ordered.
  It is what `Canonicity` proves of BddManager, whose steps between collections make the tables;
* `MarkAssumption` and `FilesAssumption` of BddIo: the mark is a bit no level has, and the streams that
  another manager wrote are well-formed.

**WriterLockProofs**: `TypeCorrect`, `WordAgreement`, `Exclusion`, `Preference`, and `Refinement`: the
safety part of `WriterLock` implements the safety part of `RwLock`. `WordAgrees` is not inductive
alone: `Inv` adds that a thread about to exchange has seen a word that passed its test
(`SeenTested`: no writer at `read_cas` and `try_cas`, no reader at `wait_cas`), so that a successful
exchange is on such a word, and that the locked bit is set over a reader count of zero
(`LockedOverZero`). The count of the readers uses the cardinality theorems of the library.

**UniqueTableProofs**: `TypeCorrect`, `Canonicity`, `Answers`, `Spares`, `Immutability`, `Counting`,
`Refinement` (every step is a step or a stutter of `NodeSet`; a call has its answer when it is over and
not before, `Answered`) and `Sanity`. The difficulty is
`Canonical`: an exchange compares one cell, yet it must follow that the key is nowhere in the table.
The invariant describes a sorted list locally: a successor has a greater key of the same bucket
(`Linked`); no published key lies strictly between a cell and what it points to (`NoGap`, for the head
as for each node); a thread stands behind a smaller key of its bucket, and in front of a greater one
when it is about to exchange (`Walking`). So when an exchange finds its cell unchanged, no published
node has the key. The rest is ownership: a spare or pending node is its thread's own and unpublished
(`Private`), and no other thread runs before `init` is over (`Booting`). `Sanity` goes from this local
description to the walk of `sanity_check`, which is a recursive function: lists without gaps are
`Chained`, and a chained list is walked in order and to its end (`ChainWalked`).

**ListLemmas** has what these and the next proofs share. `LeastElement` is the induction of all of them,
from the library's theorem that finite sets are well-founded: a least number that fails does not
exist. With it the recursive functions of the models exist and satisfy their equations
(`PlacesExist`, `LayersExist`, `VisitsExist`, `LinesExist`). `ChainUnlink`, `ChainPut` and `ChainTail`
say what unlinking, inserting and passing a node do to a chained list.

**LockFreeCacheProofs**: `Invariance`, `TypeCorrect`, `CounterAgreement`, `EntriesSound` and
`Refinement` (every step is a step of `OpCache` or none, with the key and the value of the call kept from
its beginning to its answer). `EntrySound` speaks of what is read, which
nobody guards alone. `Inv` says that the step of a thread tells which guard of the manager it has
(`GuardsAgree`), that a counter is -1 under the one writer of the entry and the number of its readers
otherwise (`CellAgrees`), what a thread carries, which is what its call asked for (`LocalsAgree`), and that an entry nobody writes is
empty or the result of its key in this generation of the table, one that is being written holds what
its writer has written so far, and those behind an invalidation are empty (`EntriesAgree`). That
`invalidate_all` never skips an entry in use follows from the manager's lock.

**BddManagerProofs**: `Invariance`, `TypeCorrect`, `Canonicity`, `HandlesStayAlive`, `InFlightStaysAlive`,
`CachesSound`, `ResultsCorrect`, `HeldStaysFrozen`, `MaintainsAlone`. The invariant is `Inv` of
BddInvariant: `RefsAgree` (a count is the references the clients hold and that of `Manager::init`) and
`Core`, of which the parts are needed together:

* `GuardsAgree`: the step of a thread tells which guard it has, so that nothing is collected beside an
  operation;
* `MarksAgree`: before a sweep what is held is marked, and with a node all below it. The marks are
  `Reach` of the referenced nodes; it is closed because a path in an ordered diagram is no longer than
  there are variables (`LayersDescend`, `ReachClosed`). Clients may drop references between mark and
  sweep, but not take any of a node that is not marked;
* `Diagram`: terminals, order and functions of the nodes; that no node depends on a variable above it
  (`Independent`), without which two nodes of one key could not be told from two of one function: from
  it `MuxInjective` and `MuxNotFree` give that a new node has a new function (`NewFunction`), which is
  `Canonical`;
* `CachesAgree`: entries are true, but between a sweep and the clearing of the caches (`clear`), when
  they may name freed nodes and the write guard keeps everybody from reading them;
* `RecursionAgrees`: each activation on the stack computes what the one around it waits for, and the
  innermost result is the value of the call, by Shannon's expansion (`Shannon`, `CofactorsMakeUp`).

`Core` does not count references; it only needs that what is held is not freed (`RootsAlive`), so that
it holds beside streams too.

**CollectorProofs**: `Invariance`, `TypeCorrect`, `Sanity`, `HeldNodesSurvive`, `GarbageGoes`, `Counting`,
`NothingDangles`. The invariant describes loops that are half done. `Ahead` are the nodes a loop has
yet to visit. In `mark_nodes`, `gc_unmarked` and `unmark_nodes` the lists are whole (`WholeLists`); in
`grow` what is ahead is in the old lists and the rest in the new ones (`AheadLists`, `NewLists`), in
`drop` only what is ahead is left. `prev` or the head points to the node under the loop (`Position`).
Behind the loop, what is referenced is marked, what is left is marked, nothing is marked (`Marks`);
what is marked is closed, counted, and below something that was held when marking began (`Marking`).
`HeldSurvive` and `GarbageFreed` follow from the two at the end of the sweep, whatever the clients
drop meanwhile.

**BddIoProofs**: `IoInvariance`, `NodesReadBack`, `OnlyLostOnesLeak`, `HandlesSurviveStreams`,
`ManagerBesideStreams` (`Reduced`, `InFlightAlive`, `CacheSound`, `ResultCorrect` with streams) and
`PrintsWhatItStandsFor`. `IoInv` is `Core` with: the stream is one client's at a time (`OneStream`);
what `serialize` has written and has yet to write is below a node the client holds, children first, so
that no collection frees it (`WriteAgrees`); what `deserialize` has in its map stands for the functions
of the records it has read (`ReadAgrees`); a count is the references of clients and of the map, and
more only where a reference was lost (`StreamRefsAgree`). It does not hold of the terminals, which lose
a reference with each stream that is read: they survive because the node of the first variable has
both as children (`TerminalsRooted`), and without variables no stream has a record, so that none is
read to its end. `PrintsTheFunction` is by induction over the variables that are left: the lines of a
node that is not false are disjoint and together its function (`PrintsNode`).

Model-checked only: liveness (`ClaimBecomesWrite`, `Terminates`, `CallsReturn`, `WritesReturn`, the
fairness part of `ImplementsRwLock`), which needs fairness and `ENABLED`, out of reach for TLAPS. The
three runs that expect a violation have no theorem.

## What is not modelled, and the plan

The work that is left is in proofs:

1. Collector and BddManager: an abstract collection of which both are implementations, so that the
   steps `MarkNodes`, `Sweep` and `Grow` of BddManager are justified by a refinement, as
   `get_or_insert` and the caches are.
2. BddIo: what a whole stream returns. `ReadsBack` is about each record; that the last one is the root,
   so that `serialize` and `deserialize` are inverse to each other, is a statement about `Visit`.
3. The safety argument behind `Terminates`: an exchange of `get_or_insert` that fails has seen another
   call succeed.

Not modelled: the arithmetic of capacities at its extremes (`1 << size_exp` in an `i32`, the quarter of
two buckets, which is zero), streams between managers with different numbers of variables, and the
bytes and errors of the reader and writer.

Left out for good: the quantifiers (unimplemented in the code; their panic is modelled), statistics
and formatting (no state of the manager), the hash functions' values (arbitrary here), the memory
orders (all accesses are sequentially consistent in the models; publication in the code is by
acquire and release), the benchmark, and `.store.rs`: no module includes it, and it does not parse
(line 108), so it has no behaviour a model could be compared with.
