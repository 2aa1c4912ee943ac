---------------------------- MODULE LockFreeCache -----------------------------
(***************************************************************************)
(* An operation cache of src/src/cache.rs on the entry lock of             *)
(* src/src/spin/rw_r_pre.rs, under the Manager's lock as RwLock has it:    *)
(* operations get and insert under a read guard of the Manager, a          *)
(* collection or growth empties the cache under the write guard.           *)
(*                                                                         *)
(* Each access to the atomic counter of an entry is one action, and so is  *)
(* each access to one of the two fields it guards. A thread that spins     *)
(* stutters. The counter never nears isize::MAX, where read() would panic, *)
(* as a thread holds one guard at a time.                                  *)
(*                                                                         *)
(* The operands of an operation stand for another result after every       *)
(* collection, as their addresses may be other nodes then: what operations *)
(* insert for a key is the key with the generation of the table. The       *)
(* number of entries is any, where the code has a power of two and masks.  *)
(***************************************************************************)
EXTENDS Integers, FiniteSets

CONSTANTS
  Threads,      \* the threads that share the manager
  NoThread,     \* the owner of a free writer slot
  Keys,         \* the operands of operations
  NoKey,        \* K::default()
  NoValue,      \* V::default(), a null pointer
  Hash(_),      \* the hash of a key
  InitSlots,    \* 1 << size_exp after with_capacity
  MaxSlots,     \* bound: the cache grows no further
  MaxGen        \* bound: the number of collections and growths

ASSUME CacheAssumption ==
  /\ InitSlots \in Nat \ {0} /\ MaxSlots \in Nat /\ MaxGen \in Nat
  /\ NoKey \notin Keys
  /\ \A k \in Keys : Hash(k) \in Nat
  /\ IsFiniteSet(Threads) /\ NoThread \notin Threads

VARIABLES
  entries,      \* the pair in each entry
  state,        \* the counter of each entry's lock
  slots,        \* 1 << size_exp, the number of entries
  readers, slot, writing,   \* the Manager's lock
  pc,           \* where each thread is
  arg,          \* the pair a call looks for or is to write
  idx,          \* the entry it works on
  seen,         \* the local variable s of read()
  answer,       \* history: what its call asks for, then what it returned
  gen           \* history: the generation of the table

cellVars == <<entries, state, slots>>
lockVars == <<readers, slot, writing>>
vars == <<cellVars, lockVars, pc, arg, idx, seen, answer, gen>>

Lock == INSTANCE RwLock

Slots == 0 .. slots - 1

Values == Keys \X (0 .. MaxGen)

Empty == [key |-> NoKey, val |-> NoValue]

Pair == [key : Keys \union {NoKey}, val : Values \union {NoValue}]

GetOf(k) == [type |-> "get", key |-> k]
InsertOf(k, v) == [type |-> "insert", key |-> k, val |-> v]
Got(v) == [type |-> "got", val |-> v]
Wrote(b) == [type |-> "wrote", done |-> b]

Calls == {GetOf(k) : k \in Keys} \union {InsertOf(k, v) : k \in Keys, v \in Values}

Answers == {Got(v) : v \in Values \union {NoValue}} \union {Wrote(b) : b \in BOOLEAN}

Steps ==
  { "out", "in",                            \* without and with a read guard
    "claim", "alone", "release",            \* around and in a write guard
    "load", "cas", "compare", "take", "drop",          \* get
    "try_load", "try_cas", "write_key", "write_val", "store" }  \* try_write_once

Writing == {"write_key", "write_val", "store"}

TypeOK ==
  /\ entries \in [Slots -> Pair]
  /\ state \in [Slots -> -1 .. Cardinality(Threads)]
  /\ slots \in Nat \ {0}
  /\ Lock!TypeOK
  /\ pc \in [Threads -> Steps]
  /\ arg \in [Threads -> Pair]
  /\ idx \in [Threads -> Slots]
  /\ seen \in [Threads -> 0 .. Cardinality(Threads)]
  /\ answer \in [Threads -> Calls \union Answers]
  /\ gen \in 0 .. MaxGen

Init ==
  /\ slots = InitSlots
  /\ entries = [i \in Slots |-> Empty]
  /\ state = [i \in Slots |-> 0]
  /\ Lock!Init
  /\ pc = [t \in Threads |-> "out"]
  /\ arg = [t \in Threads |-> Empty]
  /\ idx = [t \in Threads |-> 0]
  /\ seen = [t \in Threads |-> 0]
  /\ answer = [t \in Threads |-> Got(NoValue)]
  /\ gen = 0

Goto(t, step) == pc' = [pc EXCEPT ![t] = step]

-----------------------------------------------------------------------------
(* Operations and collections, as the Manager's lock lets them in.          *)

Join(t) ==
  /\ pc[t] = "out"
  /\ Lock!AcquireRead(t)
  /\ Goto(t, "in")
  /\ UNCHANGED <<cellVars, arg, idx, seen, answer, gen>>

Leave(t) ==
  /\ pc[t] = "in"
  /\ Lock!ReleaseRead(t)
  /\ Goto(t, "out")
  /\ UNCHANGED <<cellVars, arg, idx, seen, answer, gen>>

Claim(t) ==
  /\ pc[t] = "out"
  /\ gen < MaxGen
  /\ Lock!Claim(t)
  /\ Goto(t, "claim")
  /\ UNCHANGED <<cellVars, arg, idx, seen, answer, gen>>

\* Mutation: the collection does not wait for the operations.
DoesNotWait(t) == slot = t /\ writing' = TRUE /\ UNCHANGED <<readers, slot>>

Waits(t) == Lock!EnterWrite(t)

\* The guard is there and the nodes of the table change.
Alone(t) ==
  /\ pc[t] = "claim"
  /\ Waits(t)
  /\ gen' = gen + 1
  /\ Goto(t, "alone")
  /\ UNCHANGED <<cellVars, arg, idx, seen, answer>>

Release(t) ==
  /\ pc[t] = "release"
  /\ Lock!ReleaseWrite(t)
  /\ Goto(t, "out")
  /\ UNCHANGED <<cellVars, arg, idx, seen, answer, gen>>

-----------------------------------------------------------------------------
(* get: read() of the entry, the comparison, the drop of the guard.         *)

Index(k) == Hash(k) % slots

Begin(t, call, pair, i, step) ==
  /\ arg' = [arg EXCEPT ![t] = pair]
  /\ idx' = [idx EXCEPT ![t] = i]
  /\ answer' = [answer EXCEPT ![t] = call]
  /\ Goto(t, step)

CallGet(t) ==
  /\ pc[t] = "in"
  /\ \E k \in Keys :
       Begin(t, GetOf(k), [key |-> k, val |-> NoValue], Index(k), "load")
  /\ UNCHANGED <<cellVars, lockVars, seen, gen>>

\* Mutation: a reader does not look for the writer.
AnyState(s) == TRUE

Readable(s) == s >= 0

Load(t) ==
  /\ pc[t] = "load"
  /\ Readable(state[idx[t]])
  /\ seen' = [seen EXCEPT ![t] = state[idx[t]]]
  /\ Goto(t, "cas")
  /\ UNCHANGED <<cellVars, lockVars, arg, idx, answer, gen>>

SetState(t, s) ==
  /\ state' = [state EXCEPT ![idx[t]] = s]
  /\ UNCHANGED <<entries, slots>>

\* The weak exchange may fail although the counter is the expected one.
Cas(t) ==
  /\ pc[t] = "cas"
  /\ \/ /\ state[idx[t]] = seen[t]
        /\ SetState(t, seen[t] + 1)
        /\ Goto(t, "compare")
     \/ Goto(t, "load") /\ UNCHANGED cellVars
  /\ seen' = [seen EXCEPT ![t] = 0]
  /\ UNCHANGED <<lockVars, arg, idx, answer, gen>>

Reply(t, a) == answer' = [answer EXCEPT ![t] = a]

\* Mutation: what is in the entry is the answer, whatever its key.
AnyKey(entry, k) == entry.key # NoKey

Matches(entry, k) == entry.key = k

Compare(t) ==
  /\ pc[t] = "compare"
  /\ IF Matches(entries[idx[t]], arg[t].key)
     THEN Goto(t, "take") /\ UNCHANGED answer
     ELSE Goto(t, "drop") /\ Reply(t, Got(NoValue))
  /\ UNCHANGED <<cellVars, lockVars, arg, idx, seen, gen>>

Take(t) ==
  /\ pc[t] = "take"
  /\ Reply(t, Got(entries[idx[t]].val))
  /\ Goto(t, "drop")
  /\ UNCHANGED <<cellVars, lockVars, arg, idx, seen, gen>>

\* Mutation: the drop takes away two readers.
TwoLess(s) == s - 2

OneLess(s) == s - 1

Return(t, step) ==
  /\ Goto(t, step)
  /\ arg' = [arg EXCEPT ![t] = Empty]
  /\ idx' = [idx EXCEPT ![t] = 0]

Drop(t) ==
  /\ pc[t] = "drop"
  /\ SetState(t, OneLess(state[idx[t]]))
  /\ Return(t, "in")
  /\ UNCHANGED <<lockVars, seen, answer, gen>>

-----------------------------------------------------------------------------
(* insert, invalidate_all and grow.                                         *)

CallInsert(t) ==
  /\ pc[t] = "in"
  /\ \E k \in Keys :
       LET v == <<k, gen>>
       IN  Begin(t, InsertOf(k, v), [key |-> k, val |-> v], Index(k), "try_load")
  /\ UNCHANGED <<cellVars, lockVars, seen, gen>>

CallInvalidateAll(t) ==
  /\ pc[t] = "alone"
  /\ Goto(t, "try_load")
  /\ UNCHANGED <<cellVars, lockVars, arg, idx, seen, answer, gen>>

Invalidating(t) == slot = t /\ pc[t] \notin {"claim", "alone", "release"}

\* Mutation: insert retries.
Retry(t, wrote) ==
  IF wrote THEN Return(t, "in") /\ Reply(t, Wrote(TRUE))
  ELSE Goto(t, "try_load") /\ UNCHANGED <<arg, idx, answer>>

EndInsert(t, wrote) == Return(t, "in") /\ Reply(t, Wrote(wrote))

\* invalidate_all takes the next entry, whether it could write this one or not.
NextEntry(t) ==
  /\ IF idx[t] + 1 \in Slots
     THEN Goto(t, "try_load") /\ idx' = [idx EXCEPT ![t] = @ + 1] /\ UNCHANGED arg
     ELSE Return(t, "release")
  /\ UNCHANGED answer

\* try_write_once returns.
EndTry(t, wrote) == IF Invalidating(t) THEN NextEntry(t) ELSE EndInsert(t, wrote)

\* Mutation: the counter is not looked at.
Always(s) == TRUE

Free(s) == s = 0

TryLoad(t) ==
  /\ pc[t] = "try_load"
  /\ IF Free(state[idx[t]])
     THEN Goto(t, "try_cas") /\ UNCHANGED <<arg, idx, answer>>
     ELSE EndTry(t, FALSE)
  /\ UNCHANGED <<cellVars, lockVars, seen, gen>>

TryCas(t) ==
  /\ pc[t] = "try_cas"
  /\ IF Free(state[idx[t]])
     THEN SetState(t, -1) /\ Goto(t, "write_key") /\ UNCHANGED <<arg, idx, answer>>
     ELSE EndTry(t, FALSE) /\ UNCHANGED cellVars
  /\ UNCHANGED <<lockVars, seen, gen>>

Write(t, from, to, pair) ==
  /\ pc[t] = from
  /\ entries' = [entries EXCEPT ![idx[t]] = pair]
  /\ Goto(t, to)
  /\ UNCHANGED <<state, slots, lockVars, arg, idx, seen, answer, gen>>

WriteKey(t) ==
  Write(t, "write_key", "write_val", [entries[idx[t]] EXCEPT !.key = arg[t].key])

WriteVal(t) ==
  Write(t, "write_val", "store", [entries[idx[t]] EXCEPT !.val = arg[t].val])

Store(t) ==
  /\ pc[t] = "store"
  /\ SetState(t, 0)
  /\ EndTry(t, TRUE)
  /\ UNCHANGED <<lockVars, seen, gen>>

\* Twice as many entries, all new.
Grow(t) ==
  /\ pc[t] = "alone"
  /\ 2 * slots =< MaxSlots
  /\ slots' = 2 * slots
  /\ entries' = [i \in Slots' |-> Empty]
  /\ state' = [i \in Slots' |-> 0]
  /\ Goto(t, "release")
  /\ UNCHANGED <<lockVars, arg, idx, seen, answer, gen>>

-----------------------------------------------------------------------------

Call(t) == Join(t) \/ Leave(t) \/ Claim(t) \/ CallGet(t) \/ CallInsert(t)

Step(t) ==
  \/ Alone(t) \/ CallInvalidateAll(t) \/ Grow(t) \/ Release(t)
  \/ Load(t) \/ Cas(t) \/ Compare(t) \/ Take(t) \/ Drop(t)
  \/ TryLoad(t) \/ TryCas(t) \/ WriteKey(t) \/ WriteVal(t) \/ Store(t)

Next == \E t \in Threads : Call(t) \/ Step(t)

\* A thread keeps executing once it is in a call; it spins when it has to.
Spec == Init /\ [][Next]_vars /\ \A t \in Threads : WF_vars(Step(t))

-----------------------------------------------------------------------------
(* Properties.                                                             *)

\* The counter of an entry is the number of its read guards, or -1 while one
\* thread writes: no guard is lost, forged or shared with a writer.
StateAgrees ==
  \A i \in Slots :
    LET at(steps) == {t \in Threads : pc[t] \in steps /\ idx[t] = i}
    IN  /\ Cardinality(at(Writing)) =< 1
        /\ state[i] = IF at(Writing) # {} THEN -1
                      ELSE Cardinality(at({"compare", "take", "drop"}))

\* While operations may run, an entry that nobody writes is empty, or it is the
\* result of its own key in this generation of the table: it is never half of
\* one insertion and half of another, and no collection leaves an old one.
EntrySound ==
  slot = NoThread =>
    \A i \in Slots : state[i] # -1 /\ entries[i] # Empty =>
      /\ entries[i].val = <<entries[i].key, gen>>
      /\ Index(entries[i].key) = i

\* An insertion acts when it has the entry, invalidate_all when it begins.
AbsEntries ==
  [i \in Slots |->
     IF \E t \in Threads : Invalidating(t) THEN Empty
     ELSE IF \E t \in Threads : pc[t] \in Writing /\ idx[t] = i
          THEN arg[CHOOSE t \in Threads : pc[t] \in Writing /\ idx[t] = i]
          ELSE entries[i]]

AbsAnswer ==
  [t \in Threads |->
     IF pc[t] \in Writing /\ ~Invalidating(t) THEN Wrote(TRUE) ELSE answer[t]]

Abstract ==
  INSTANCE OpCache WITH
    using <- readers, entries <- AbsEntries, answer <- AbsAnswer

\* The cache is the atomic one of OpCache: a lookup answers with the value of
\* the key it was asked for, or with none, an insertion writes its own pair and
\* gives up only when another operation is under way, and invalidate_all, which
\* ignores the entries it cannot get, gets them all.
ImplementsOpCache == Abstract!Spec

\* "Writing is wait-free" (rw_r_pre.rs): insert and invalidate_all return,
\* whatever readers do, and so a collection ends.
WritesReturn ==
  \A t \in Threads :
    pc[t] \in {"try_load", "try_cas"} \union Writing ~> pc[t] \in {"in", "release"}

=============================================================================
