------------------------- MODULE LockFreeCacheProofs --------------------------
(***************************************************************************)
(* Proofs about LockFreeCache for every finite set of threads, every set   *)
(* of keys, every hash and every number of entries: the counters agree     *)
(* with the guards, no entry is torn or outlives a collection, and every   *)
(* step of the cache is a step of OpCache or leaves its variables alone.   *)
(***************************************************************************)
EXTENDS LockFreeCache, FiniteSetTheorems, TLAPS

GetSteps == {"load", "cas", "compare", "take", "drop"}

TrySteps == {"try_load", "try_cas"} \union Writing

Reading == {"compare", "take", "drop"}

\* The steps under a read guard of the Manager, or of invalidate_all.
Operating == {"in"} \union GetSteps \union TrySteps

\* The steps of a collection outside the cache.
Maintaining == {"claim", "alone", "release"}

(* Where a thread is says which guard of the Manager it has: the readers   *)
(* are the threads in an operation, and the owner of the slot is in no     *)
(* operation.                                                              *)
GuardsAgree ==
  /\ readers = {t \in Threads : slot # t /\ pc[t] \in Operating}
  /\ \A t \in Threads : pc[t] \in Maintaining => slot = t
  /\ \A t \in Threads : slot = t => pc[t] \in Maintaining \union TrySteps
  /\ writing <=> \E t \in Threads : slot = t /\ pc[t] # "claim"
  /\ writing => readers = {}

(* What a thread carries from the beginning of a call to its end.          *)
LocalsAgree ==
  \A t \in Threads :
    /\ pc[t] \in {"out", "in"} \union Maintaining => arg[t] = Empty /\ idx[t] = 0
    /\ pc[t] = "claim" => gen < MaxGen
    /\ Invalidating(t) => arg[t] = Empty
    /\ pc[t] \in GetSteps => arg[t].key \in Keys /\ idx[t] = Index(arg[t].key)
    /\ pc[t] \in TrySteps /\ slot # t =>
         /\ arg[t].key \in Keys
         /\ arg[t].val = <<arg[t].key, gen>>
         /\ idx[t] = Index(arg[t].key)
    /\ pc[t] \in GetSteps \ {"drop"} => answer[t] = GetOf(arg[t].key)
    /\ pc[t] \in TrySteps /\ slot # t => answer[t] = InsertOf(arg[t].key, arg[t].val)
    /\ pc[t] \in {"out", "in", "drop"} \/ slot = t => answer[t].type \in {"got", "wrote"}

Writers(i) == {t \in Threads : pc[t] \in Writing /\ idx[t] = i}

Readers(i) == {t \in Threads : pc[t] \in Reading /\ idx[t] = i}

(* The counter of an entry, with the facts that keep it right: writers     *)
(* are one at most and never there with readers.                           *)
CellAgrees ==
  \A i \in Slots :
    /\ \A t, u \in Writers(i) : t = u
    /\ Writers(i) # {} => Readers(i) = {} /\ state[i] = -1
    /\ Writers(i) = {} => state[i] = Cardinality(Readers(i))

(* What a thread that has an entry to itself has written, and what one     *)
(* that shares it has compared.                                            *)
HalfDone ==
  \A t \in Threads :
    /\ pc[t] = "take" => entries[idx[t]].key = arg[t].key
    /\ pc[t] = "write_val" => entries[idx[t]].key = arg[t].key
    /\ pc[t] = "store" => entries[idx[t]] = arg[t]

(* An entry nobody writes is empty or the result of its key in this        *)
(* generation.                                                             *)
Sound(i) ==
  Writers(i) = {} /\ entries[i] # Empty =>
    /\ entries[i].key \in Keys
    /\ entries[i].val = <<entries[i].key, gen>>
    /\ Index(entries[i].key) = i

(* While a thread invalidates, the entries behind it are empty; once it is *)
(* done, all of them.                                                      *)
Emptied ==
  \A t \in Threads : slot = t =>
    /\ pc[t] = "release" => \A i \in Slots : entries[i] = Empty
    /\ pc[t] \in TrySteps => \A i \in Slots : i < idx[t] => entries[i] = Empty

EntriesAgree ==
  /\ ~writing => \A i \in Slots : Sound(i)
  /\ HalfDone
  /\ Emptied

Inv == TypeOK /\ GuardsAgree /\ LocalsAgree /\ CellAgrees /\ EntriesAgree

(* What every action that moves one thread shares.                         *)
LEMMA GotoMoves ==
  ASSUME TypeOK, NEW t \in Threads, NEW step \in Steps, Goto(t, step)
  PROVE  /\ pc' \in [Threads -> Steps]
         /\ pc'[t] = step
         /\ \A u \in Threads : u # t => pc'[u] = pc[u]
BY DEF Goto, TypeOK

(* A thread in an operation excludes every writer.                         *)
LEMMA OperatingShares ==
  ASSUME TypeOK, GuardsAgree, NEW t \in Threads, slot # t, pc[t] \in Operating
  PROVE  t \in readers /\ ~writing
BY DEF GuardsAgree, TypeOK, Lock!TypeOK

(* A thread with the write guard is the only one with a guard.             *)
LEMMA WriterAlone ==
  ASSUME TypeOK, GuardsAgree, NEW t \in Threads, slot = t, pc[t] # "claim"
  PROVE  /\ writing
         /\ readers = {}
         /\ \A u \in Threads : u # t => pc[u] = "out"
<1>1. writing /\ readers = {}
  BY DEF GuardsAgree
<1>2. ASSUME NEW u \in Threads, u # t
      PROVE  pc[u] = "out"
  <2>1. pc[u] \notin Operating /\ pc[u] \notin Maintaining
    BY <1>1, <1>2 DEF GuardsAgree
  <2> QED
    BY <2>1 DEF TypeOK, Steps, Operating, GetSteps, TrySteps, Writing, Maintaining
<1> QED
  BY <1>1, <1>2

(* A step inside an operation, or under the write guard.                   *)
LEMMA GuardsSame ==
  ASSUME TypeOK, GuardsAgree, NEW t \in Threads, NEW step \in Steps, Goto(t, step),
         UNCHANGED lockVars,
         \/ slot # t /\ pc[t] \in Operating /\ step \in Operating
         \/ /\ slot = t /\ pc[t] # "claim"
            /\ step \in {"release"} \union TrySteps
  PROVE  GuardsAgree'
BY GotoMoves DEF GuardsAgree, lockVars, Operating, Maintaining, TrySteps, GetSteps,
                 Writing, TypeOK, Steps

(* A step that gives no guard of an entry and takes none back.             *)
LEMMA CellSame ==
  ASSUME TypeOK, NEW t \in Threads, NEW step \in Steps, Goto(t, step), NEW i,
         \A u \in Threads : u # t => idx'[u] = idx[u],
         \/ {pc[t], step} \intersect (Reading \union Writing) = {}
         \/ /\ idx'[t] = idx[t]
            /\ pc[t] \in Reading <=> step \in Reading
            /\ pc[t] \in Writing <=> step \in Writing
  PROVE  Writers(i)' = Writers(i) /\ Readers(i)' = Readers(i)
BY GotoMoves DEF Writers, Readers

(* The readers of an entry are finitely many.                              *)
LEMMA ReadersFinite ==
  ASSUME NEW i
  PROVE  /\ IsFiniteSet(Readers(i))
         /\ Cardinality(Readers(i)) \in 0 .. Cardinality(Threads)
         /\ Cardinality(Readers(i)) = 0 <=> Readers(i) = {}
<1>1. Readers(i) \subseteq Threads
  BY DEF Readers
<1>2. Cardinality(Threads) \in Nat
  BY CacheAssumption, FS_CardinalityType
<1>3. IsFiniteSet(Readers(i)) /\ Cardinality(Readers(i)) =< Cardinality(Threads)
  BY <1>1, CacheAssumption, FS_Subset
<1> QED
  BY <1>2, <1>3, FS_CardinalityType, FS_EmptySet

(* The entry of a key is one of the entries.                               *)
LEMMA IndexInSlots ==
  ASSUME TypeOK, NEW k \in Keys
  PROVE  Index(k) \in Slots
BY CacheAssumption DEF TypeOK, Index, Slots

(* The answers of each kind of call.                                       *)
LEMMA AnswerTypes ==
  /\ \A k \in Keys : GetOf(k) \in Calls
  /\ \A k \in Keys, v \in Values : InsertOf(k, v) \in Calls
  /\ \A v \in Values \union {NoValue} :
       Got(v) \in Answers /\ Got(v).type \in {"got", "wrote"}
  /\ \A b \in BOOLEAN : Wrote(b) \in Answers /\ Wrote(b).type \in {"got", "wrote"}
<1>1. \A k \in Keys : GetOf(k) \in Calls
  BY DEF Calls
<1>2. \A k \in Keys, v \in Values : InsertOf(k, v) \in Calls
  BY DEF Calls
<1>3. /\ \A v \in Values \union {NoValue} : Got(v) \in Answers
      /\ \A b \in BOOLEAN : Wrote(b) \in Answers
  BY DEF Answers
<1>4. /\ \A v : Got(v).type \in {"got", "wrote"}
      /\ \A b : Wrote(b).type \in {"got", "wrote"}
  BY DEF Got, Wrote
<1> QED
  BY <1>1, <1>2, <1>3, <1>4

LEMMA InitInv == Init => Inv
<1> SUFFICES ASSUME Init PROVE Inv
  OBVIOUS
<1>1. Cardinality(Threads) \in Nat
  BY CacheAssumption, FS_CardinalityType
<1>2. TypeOK
  <2>1. Empty \in Pair /\ Got(NoValue) \in Answers
    BY AnswerTypes DEF Pair, Empty
  <2>2. entries \in [Slots -> Pair] /\ state \in [Slots -> -1 .. Cardinality(Threads)]
    BY <1>1, <2>1 DEF Init
  <2>3. slots \in Nat \ {0} /\ gen \in 0 .. MaxGen
    BY CacheAssumption DEF Init
  <2>4. Lock!TypeOK
    BY DEF Init, Lock!Init, Lock!TypeOK
  <2>5. idx \in [Threads -> Slots] /\ seen \in [Threads -> 0 .. Cardinality(Threads)]
    BY <1>1, <2>3 DEF Init, Slots
  <2>6. pc \in [Threads -> Steps] /\ arg \in [Threads -> Pair]
    BY <2>1 DEF Init, Steps
  <2>7. answer \in [Threads -> Answers]
    BY <2>1 DEF Init
  <2> QED
    BY <2>2, <2>3, <2>4, <2>5, <2>6, <2>7 DEF TypeOK
<1>3. GuardsAgree
  BY CacheAssumption DEF Init, GuardsAgree, Lock!Init, Operating, GetSteps, TrySteps,
                         Writing, Maintaining
<1>4. LocalsAgree
  BY AnswerTypes DEF Init, LocalsAgree, Invalidating, Maintaining, GetSteps, TrySteps, Writing
<1>5. \A i \in Slots : Writers(i) = {} /\ Readers(i) = {}
  BY DEF Init, Writers, Readers, Writing, Reading
<1>6. CellAgrees
  BY <1>5, FS_EmptySet DEF Init, CellAgrees
<1>7. EntriesAgree
  BY DEF Init, EntriesAgree, Sound, HalfDone, Emptied, TrySteps, Writing
<1> QED
  BY <1>2, <1>3, <1>4, <1>6, <1>7 DEF Inv

-----------------------------------------------------------------------------
(* Every step preserves the invariant.                                     *)

(* A step that changes no entry, no counter and no generation, and gives   *)
(* and takes no guard of an entry.                                         *)
LEMMA EntriesSame ==
  ASSUME Inv, NEW t \in Threads, NEW step \in Steps, Goto(t, step),
         UNCHANGED <<entries, state, slots, gen, writing>>,
         \A i \in Slots : Writers(i)' = Writers(i) /\ Readers(i)' = Readers(i),
         HalfDone', Emptied'
  PROVE  CellAgrees' /\ EntriesAgree'
<1>1. Slots' = Slots
  BY DEF Slots
<1>2. CellAgrees'
  BY <1>1 DEF Inv, CellAgrees
<1>3. ASSUME NEW i \in Slots, Sound(i)
      PROVE  Sound(i)'
  BY <1>3 DEF Inv, EntriesAgree, Sound, Index
<1> QED
  BY <1>1, <1>2, <1>3 DEF Inv, EntriesAgree

LEMMA CallStep ==
  ASSUME Inv, NEW t \in Threads, Call(t)
  PROVE  Inv'
<1> USE DEF Inv
<1>1. CASE Join(t)
  <2>1. TypeOK'
    BY <1>1 DEF Join, Lock!AcquireRead, TypeOK, Lock!TypeOK, cellVars, Goto, Steps, Slots
  <2>2. GuardsAgree'
    BY <1>1, CacheAssumption DEF Join, Lock!AcquireRead, Lock!Holds, TypeOK, Lock!TypeOK,
                Goto, GuardsAgree, Operating, Maintaining, TrySteps, GetSteps, Writing
  <2>3. LocalsAgree'
    BY <1>1 DEF Join, Lock!AcquireRead, cellVars, TypeOK, Goto, LocalsAgree, Invalidating,
                Index, Maintaining, TrySteps, GetSteps, Writing
  <2>4. \A i \in Slots : Writers(i)' = Writers(i) /\ Readers(i)' = Readers(i)
    BY <1>1, CellSame DEF Join, Reading, Writing, Steps
  <2>5. HalfDone' /\ Emptied'
    BY <1>1 DEF Join, Lock!AcquireRead, cellVars, TypeOK, Goto, EntriesAgree, HalfDone, Emptied,
                Slots, TrySteps, Writing
  <2> QED
    BY <1>1, <2>1, <2>2, <2>3, <2>4, <2>5, EntriesSame
    DEF Join, Lock!AcquireRead, cellVars, Steps
<1>2. CASE Leave(t)
  <2>1. TypeOK'
    BY <1>2 DEF Leave, Lock!ReleaseRead, TypeOK, Lock!TypeOK, cellVars, Goto, Steps, Slots
  <2>2. GuardsAgree'
    BY <1>2 DEF Leave, Lock!ReleaseRead, TypeOK, Lock!TypeOK,
                Goto, GuardsAgree, Operating, Maintaining, TrySteps, GetSteps, Writing
  <2>3. LocalsAgree'
    BY <1>2 DEF Leave, Lock!ReleaseRead, cellVars, TypeOK, Goto, LocalsAgree, Invalidating,
                Index, Maintaining, TrySteps, GetSteps, Writing
  <2>4. \A i \in Slots : Writers(i)' = Writers(i) /\ Readers(i)' = Readers(i)
    BY <1>2, CellSame DEF Leave, Reading, Writing, Steps
  <2>5. HalfDone' /\ Emptied'
    BY <1>2 DEF Leave, Lock!ReleaseRead, cellVars, TypeOK, Goto, EntriesAgree, HalfDone, Emptied,
                Slots, TrySteps, Writing
  <2> QED
    BY <1>2, <2>1, <2>2, <2>3, <2>4, <2>5, EntriesSame
    DEF Leave, Lock!ReleaseRead, cellVars, Steps
<1>3. CASE Claim(t)
  <2>1. TypeOK'
    BY <1>3 DEF Claim, Lock!Claim, TypeOK, Lock!TypeOK, cellVars, Goto, Steps, Slots
  <2>2. GuardsAgree'
    BY <1>3, CacheAssumption DEF Claim, Lock!Claim, Lock!Holds, TypeOK, Lock!TypeOK,
                Goto, GuardsAgree, Operating, Maintaining, TrySteps, GetSteps, Writing
  <2>3. LocalsAgree'
    BY <1>3, CacheAssumption DEF Claim, Lock!Claim, cellVars, TypeOK, Goto, LocalsAgree, Invalidating,
                Index, Maintaining, TrySteps, GetSteps, Writing
  <2>4. \A i \in Slots : Writers(i)' = Writers(i) /\ Readers(i)' = Readers(i)
    BY <1>3, CellSame DEF Claim, Reading, Writing, Steps
  <2>5. HalfDone' /\ Emptied'
    BY <1>3 DEF Claim, Lock!Claim, cellVars, TypeOK, Goto, EntriesAgree, HalfDone, Emptied,
                Slots, TrySteps, Writing
  <2> QED
    BY <1>3, <2>1, <2>2, <2>3, <2>4, <2>5, EntriesSame
    DEF Claim, Lock!Claim, cellVars, Steps
<1>4. ASSUME pc[t] = "in", NEW k \in Keys, NEW v \in Values \union {NoValue},
             NEW step \in {"load", "try_load"}, step = "try_load" => v = <<k, gen>>,
             NEW call \in Calls, call = IF step = "load" THEN GetOf(k) ELSE InsertOf(k, v),
             Begin(t, call, [key |-> k, val |-> v], Index(k), step),
             UNCHANGED <<cellVars, lockVars, seen, gen>>
      PROVE  Inv'
  <2>0. slot # t /\ Index(k) \in Slots
    BY <1>4, IndexInSlots DEF GuardsAgree, Maintaining, TrySteps, Writing
  <2>1. TypeOK'
    BY <1>4, <2>0, AnswerTypes
    DEF Begin, lockVars, TypeOK, Lock!TypeOK, cellVars, Goto, Steps, Slots, Pair
  <2>2. GuardsAgree'
    BY <1>4, <2>0, GuardsSame DEF Begin, Steps, Operating, GetSteps, TrySteps
  <2>3. LocalsAgree'
    BY <1>4, <2>0 DEF Begin, lockVars, cellVars, TypeOK, Goto, LocalsAgree, Invalidating,
                Index, Maintaining, TrySteps, GetSteps, Writing
  <2>4. \A i \in Slots : Writers(i)' = Writers(i) /\ Readers(i)' = Readers(i)
    BY <1>4, CellSame DEF Begin, Reading, Writing, Steps, TypeOK
  <2>5. HalfDone' /\ Emptied'
    BY <1>4, <2>0 DEF Begin, lockVars, cellVars, TypeOK, Goto, EntriesAgree, HalfDone, Emptied,
                Slots, TrySteps, Writing
  <2> QED
    BY <1>4, <2>1, <2>2, <2>3, <2>4, <2>5, EntriesSame
    DEF Begin, lockVars, cellVars, Steps
<1>5. CASE CallGet(t)
  BY <1>4, <1>5, AnswerTypes DEF CallGet
<1>6. CASE CallInsert(t)
  BY <1>4, <1>6, AnswerTypes DEF CallInsert, TypeOK, Values
<1> QED
  BY <1>1, <1>2, <1>3, <1>5, <1>6 DEF Call

LEMMA MaintainStep ==
  ASSUME Inv, NEW t \in Threads,
         Alone(t) \/ CallInvalidateAll(t) \/ Grow(t) \/ Release(t)
  PROVE  Inv'
<1> USE DEF Inv
<1>1. CASE Alone(t)
  <2>0. slot = t /\ readers = {}
    BY <1>1 DEF Alone, Waits, Lock!EnterWrite
  <2>1. TypeOK'
    <3>1. gen' \in 0 .. MaxGen
      BY <1>1, CacheAssumption DEF Alone, TypeOK, LocalsAgree
    <3> QED
      BY <1>1, <3>1 DEF Alone, Waits, Lock!EnterWrite, TypeOK, Lock!TypeOK, cellVars, Goto,
                        Steps, Slots
  <2>2. GuardsAgree'
    BY <1>1 DEF Alone, Waits, Lock!EnterWrite, TypeOK, Lock!TypeOK, Goto, GuardsAgree,
                Operating, Maintaining, TrySteps, GetSteps, Writing
  <2>3. \A u \in Threads : u # t => pc[u] \notin Operating \union Maintaining
    BY <2>0 DEF GuardsAgree
  <2>4. LocalsAgree'
    BY <1>1, <2>3 DEF Alone, Waits, Lock!EnterWrite, cellVars, TypeOK, Goto, LocalsAgree,
                Invalidating, Index, Maintaining, TrySteps, GetSteps, Writing, Operating
  <2>5. \A i \in Slots : Writers(i)' = Writers(i) /\ Readers(i)' = Readers(i)
    BY <1>1, CellSame DEF Alone, Reading, Writing, Steps
  <2>6. CellAgrees'
    BY <1>1, <2>5 DEF Alone, cellVars, CellAgrees, Slots
  <2>7. EntriesAgree'
    BY <1>1, <2>3 DEF Alone, Waits, Lock!EnterWrite, cellVars, TypeOK, Goto, EntriesAgree,
                HalfDone, Emptied, Slots, TrySteps, Writing
  <2> QED
    BY <2>1, <2>2, <2>4, <2>6, <2>7
<1>2. CASE CallInvalidateAll(t)
  <2>0. slot = t /\ idx[t] = 0
    BY <1>2 DEF CallInvalidateAll, GuardsAgree, LocalsAgree, Maintaining
  <2>1. TypeOK'
    BY <1>2 DEF CallInvalidateAll, TypeOK, Lock!TypeOK, lockVars, cellVars, Goto, Steps, Slots
  <2>2. GuardsAgree'
    BY <1>2, <2>0, GuardsSame DEF CallInvalidateAll, TrySteps, Steps
  <2>3. LocalsAgree'
    BY <1>2, <2>0 DEF CallInvalidateAll, lockVars, cellVars, TypeOK, Goto, LocalsAgree,
                Invalidating, Index, Maintaining, TrySteps, GetSteps, Writing
  <2>4. \A i \in Slots : Writers(i)' = Writers(i) /\ Readers(i)' = Readers(i)
    BY <1>2, CellSame DEF CallInvalidateAll, Reading, Writing, Steps
  <2>5. HalfDone' /\ Emptied'
    BY <1>2, <2>0 DEF CallInvalidateAll, lockVars, cellVars, TypeOK, Goto, EntriesAgree,
                HalfDone, Emptied, Slots, TrySteps, Writing
  <2> QED
    BY <1>2, <2>1, <2>2, <2>3, <2>4, <2>5, EntriesSame
    DEF CallInvalidateAll, lockVars, cellVars, Steps
<1>3. CASE Grow(t)
  <2>0. slot = t
    BY <1>3 DEF Grow, GuardsAgree, Maintaining
  <2>1. \A u \in Threads : u # t => pc[u] = "out"
    BY <1>3, <2>0, WriterAlone DEF Grow
  <2>2. TypeOK'
    <3>1. Slots \subseteq Slots' /\ slots' \in Nat \ {0}
      BY <1>3 DEF Grow, TypeOK, Slots
    <3>2. Cardinality(Threads) \in Nat /\ Empty \in Pair
      BY CacheAssumption, FS_CardinalityType DEF Pair, Empty
    <3>3. entries' \in [Slots' -> Pair] /\ state' \in [Slots' -> -1 .. Cardinality(Threads)]
      BY <1>3, <3>2 DEF Grow
    <3> QED
      BY <1>3, <3>1, <3>3 DEF Grow, TypeOK, Lock!TypeOK, lockVars, Goto, Steps
  <2>3. GuardsAgree'
    BY <1>3, <2>0, GuardsSame DEF Grow, Steps
  <2>4. LocalsAgree'
    BY <1>3, <2>0, <2>1 DEF Grow, lockVars, TypeOK, Goto, LocalsAgree,
                Invalidating, Maintaining, TrySteps, GetSteps, Writing
  <2>5. \A i : Writers(i)' = {} /\ Readers(i)' = {}
    BY <1>3, <2>1 DEF Grow, TypeOK, Goto, Writers, Readers, Reading, Writing
  <2>6. CellAgrees'
    BY <1>3, <2>5, FS_EmptySet DEF Grow, CellAgrees
  <2>7. EntriesAgree'
    BY <1>3, <2>0, <2>1 DEF Grow, lockVars, TypeOK, Goto, EntriesAgree, GuardsAgree,
                HalfDone, Emptied, TrySteps, Writing
  <2> QED
    BY <2>2, <2>3, <2>4, <2>6, <2>7
<1>4. CASE Release(t)
  <2>0. slot = t /\ readers = {}
    BY <1>4 DEF Release, Lock!ReleaseWrite, GuardsAgree
  <2>1. TypeOK'
    BY <1>4 DEF Release, Lock!ReleaseWrite, TypeOK, Lock!TypeOK, cellVars, Goto, Steps, Slots
  <2>2. \A u \in Threads : u # t => pc[u] = "out"
    BY <1>4, <2>0, WriterAlone DEF Release
  <2>3. GuardsAgree'
    BY <1>4, <2>2, CacheAssumption DEF Release, Lock!ReleaseWrite, TypeOK, Lock!TypeOK, Goto,
                GuardsAgree, Operating, Maintaining, TrySteps, GetSteps, Writing
  <2>4. LocalsAgree'
    BY <1>4, <2>0, <2>2, CacheAssumption
    DEF Release, Lock!ReleaseWrite, cellVars, TypeOK, Goto, LocalsAgree, Invalidating,
        Maintaining, TrySteps, GetSteps, Writing
  <2>5. \A i \in Slots : Writers(i)' = Writers(i) /\ Readers(i)' = Readers(i)
    BY <1>4, CellSame DEF Release, Reading, Writing, Steps
  <2>6. CellAgrees'
    BY <1>4, <2>5 DEF Release, cellVars, CellAgrees, Slots
  <2>7. \A i \in Slots : entries[i] = Empty
    BY <1>4, <2>0 DEF Release, EntriesAgree, Emptied
  <2>8. EntriesAgree'
    BY <1>4, <2>2, <2>7, CacheAssumption DEF Release, Lock!ReleaseWrite, cellVars, TypeOK, Goto,
                EntriesAgree, Sound, HalfDone, Emptied, Slots, Writing
  <2> QED
    BY <2>1, <2>3, <2>4, <2>6, <2>8
<1> QED
  BY <1>1, <1>2, <1>3, <1>4

(* A thread that reads an entry is in an operation, not in a collection.   *)
LEMMA GetOperates ==
  ASSUME Inv, NEW t \in Threads, pc[t] \in GetSteps
  PROVE  /\ slot # t /\ pc[t] \in Operating /\ ~writing
         /\ arg[t].key \in Keys
         /\ idx[t] = Index(arg[t].key)
         /\ idx[t] \in Slots
<1>1. slot # t
  BY DEF Inv, GuardsAgree, GetSteps, Maintaining, TrySteps, Writing
<1> QED
  BY <1>1, OperatingShares DEF Inv, TypeOK, LocalsAgree, Operating

LEMMA GetStep ==
  ASSUME Inv, NEW t \in Threads,
         Load(t) \/ Cas(t) \/ Compare(t) \/ Take(t) \/ Drop(t)
  PROVE  Inv'
<1> USE DEF Inv
<1>0. pc[t] \in GetSteps
  BY DEF GetSteps, Load, Cas, Compare, Take, Drop
<1>a. /\ slot # t /\ pc[t] \in Operating /\ ~writing
      /\ arg[t].key \in Keys
      /\ idx[t] = Index(arg[t].key)
      /\ idx[t] \in Slots
  BY <1>0, GetOperates
<1>1. CASE Load(t)
  <2>1. TypeOK'
    BY <1>1, <1>a DEF Load, Readable, TypeOK, Lock!TypeOK, lockVars, cellVars, Goto, Steps, Slots
  <2>2. GuardsAgree'
    BY <1>1, <1>a, GuardsSame DEF Load, Operating, GetSteps, Steps
  <2>3. LocalsAgree'
    BY <1>1, <1>a DEF Load, lockVars, cellVars, TypeOK, Goto, LocalsAgree,
                Invalidating, Index, Maintaining, TrySteps, GetSteps, Writing
  <2>4. \A i \in Slots : Writers(i)' = Writers(i) /\ Readers(i)' = Readers(i)
    BY <1>1, CellSame DEF Load, Reading, Writing, Steps
  <2>5. HalfDone' /\ Emptied'
    BY <1>1, <1>a DEF Load, lockVars, cellVars, TypeOK, Goto, EntriesAgree,
                HalfDone, Emptied, Slots, TrySteps, Writing
  <2> QED
    BY <1>1, <2>1, <2>2, <2>3, <2>4, <2>5, EntriesSame DEF Load, lockVars, cellVars, Steps
<1>2. CASE Cas(t) /\ pc'[t] = "compare"
  <2>0. /\ Goto(t, "compare") /\ UNCHANGED <<entries, slots, lockVars, arg, idx, answer, gen>>
        /\ state[idx[t]] = seen[t]
        /\ state' = [state EXCEPT ![idx[t]] = seen[t] + 1]
    BY <1>2 DEF Cas, SetState, Goto, TypeOK
  <2>1. GuardsAgree'
    BY <2>0, <1>a, GuardsSame DEF Operating, GetSteps, Steps
  <2>2. LocalsAgree'
    BY <2>0, <1>a, <1>2 DEF Cas, lockVars, TypeOK, Goto, LocalsAgree,
                Invalidating, Index, Maintaining, TrySteps, GetSteps, Writing
  <2> PICK i \in Slots : i = idx[t]
    BY <1>a
  <2>3. Writers(i) = {}
    BY <2>0, <1>a DEF CellAgrees, TypeOK
  <2>4. state[i] = Cardinality(Readers(i))
    BY <2>3, <1>a DEF CellAgrees
  <2>5. \A j : Writers(j)' = Writers(j)
    BY <2>0, <1>2 DEF Cas, Writers, Writing, Goto, TypeOK
  <2>6. \A j : j # i => Readers(j)' = Readers(j)
    BY <2>0, <1>2 DEF Cas, Readers, Reading, Goto, TypeOK
  <2>7. t \notin Readers(i) /\ Readers(i)' = Readers(i) \union {t}
    BY <2>0, <1>2 DEF Cas, Readers, Reading, Goto, TypeOK
  <2>8. Cardinality(Readers(i))' = seen[t] + 1
    <3>1. Cardinality(Readers(i) \union {t}) = Cardinality(Readers(i)) + 1
      BY <2>7, ReadersFinite, FS_AddElement
    <3> QED
      BY <2>0, <2>4, <2>7, <3>1
  <2>9. CellAgrees'
    <3>1. Slots' = Slots
      BY <2>0 DEF Slots
    <3>2. state'[i] = seen[t] + 1
      BY <2>0, <1>a DEF TypeOK
    <3>3. \A j \in Slots : j # i => state'[j] = state[j]
      BY <2>0 DEF TypeOK
    <3> QED
      BY <3>1, <3>2, <3>3, <2>3, <2>5, <2>6, <2>8 DEF CellAgrees
  <2>10. TypeOK'
    <3>1. seen[t] + 1 \in -1 .. Cardinality(Threads)
      <4>1. Readers(i)' \subseteq Threads
        BY DEF Readers
      <4>2. Cardinality(Readers(i)') =< Cardinality(Threads)
        BY <4>1, CacheAssumption, FS_Subset
      <4> QED
        BY <4>2, <2>8, CacheAssumption, FS_CardinalityType DEF TypeOK
    <3>2. 0 \in 0 .. Cardinality(Threads)
      BY CacheAssumption, FS_CardinalityType
    <3> QED
      BY <2>0, <3>1, <3>2, <1>2 DEF Cas, TypeOK, Lock!TypeOK, lockVars, Goto, Steps, Slots
  <2>11. EntriesAgree'
    BY <2>0, <2>5, <1>2 DEF Cas, lockVars, TypeOK, Goto, EntriesAgree, Sound, Index,
                HalfDone, Emptied, Slots, TrySteps, Writing
  <2> QED
    BY <2>1, <2>2, <2>9, <2>10, <2>11
<1>3. CASE Cas(t) /\ pc'[t] # "compare"
  <2>0. /\ Goto(t, "load") /\ UNCHANGED <<cellVars, lockVars, arg, idx, answer, gen>>
    BY <1>3 DEF Cas, Goto, TypeOK
  <2>1. TypeOK'
    <3>1. 0 \in 0 .. Cardinality(Threads)
      BY CacheAssumption, FS_CardinalityType
    <3> QED
      BY <2>0, <1>3, <3>1 DEF Cas, TypeOK, Lock!TypeOK, lockVars, cellVars, Goto, Steps, Slots
  <2>2. GuardsAgree'
    BY <2>0, <1>a, GuardsSame DEF Operating, GetSteps, Steps
  <2>3. LocalsAgree'
    BY <2>0, <1>a, <1>3 DEF Cas, lockVars, cellVars, TypeOK, Goto, LocalsAgree,
                Invalidating, Index, Maintaining, TrySteps, GetSteps, Writing
  <2>4. \A i \in Slots : Writers(i)' = Writers(i) /\ Readers(i)' = Readers(i)
    BY <2>0, <1>3, CellSame DEF Cas, Reading, Writing, Steps
  <2>5. HalfDone' /\ Emptied'
    BY <2>0, <1>a, <1>3 DEF Cas, lockVars, cellVars, TypeOK, Goto, EntriesAgree,
                HalfDone, Emptied, Slots, TrySteps, Writing
  <2> QED
    BY <2>0, <2>1, <2>2, <2>3, <2>4, <2>5, EntriesSame DEF lockVars, cellVars, Steps
<1>4. CASE Compare(t)
  <2>2. PICK step \in {"take", "drop"} : Goto(t, step)
    BY <1>4 DEF Compare
  <2>1. TypeOK'
    <3>1. answer' \in [Threads -> Calls \union Answers]
      BY <1>4, AnswerTypes DEF Compare, Reply, TypeOK
    <3> QED
      BY <1>4, <2>2, <3>1
      DEF Compare, TypeOK, Lock!TypeOK, lockVars, cellVars, Goto, Steps, Slots
  <2>3. GuardsAgree'
    BY <1>4, <2>2, <1>a, GuardsSame DEF Compare, Operating, GetSteps, Steps
  <2>4. LocalsAgree'
    <3>0. Got(NoValue).type \in {"got", "wrote"}
      BY AnswerTypes
    <3>1. CASE step = "take"
      BY <1>4, <1>a, <2>2, <3>1 DEF Compare, lockVars, cellVars, TypeOK, Goto, LocalsAgree,
                Invalidating, Index, Maintaining, TrySteps, GetSteps, Writing
    <3>2. CASE step = "drop"
      BY <1>4, <1>a, <2>2, <3>0, <3>2 DEF Compare, Reply, lockVars, cellVars, TypeOK, Goto,
                LocalsAgree, Invalidating, Index, Maintaining, TrySteps, GetSteps, Writing
    <3> QED
      BY <3>1, <3>2
  <2>5. \A i \in Slots : Writers(i)' = Writers(i) /\ Readers(i)' = Readers(i)
    BY <1>4, <2>2, CellSame DEF Compare, Reading, Writing, Steps
  <2>6. HalfDone' /\ Emptied'
    BY <1>4, <1>a DEF Compare, Matches, lockVars, cellVars, TypeOK, Goto, EntriesAgree,
                HalfDone, Emptied, Slots, TrySteps, Writing
  <2> QED
    BY <1>4, <2>1, <2>2, <2>3, <2>4, <2>5, <2>6, EntriesSame
    DEF Compare, lockVars, cellVars, Steps
<1>5. CASE Take(t)
  <2>0. /\ Got(entries[idx[t]].val) \in Answers
        /\ Got(entries[idx[t]].val).type \in {"got", "wrote"}
    BY <1>a, AnswerTypes DEF TypeOK, Pair
  <2>1. TypeOK'
    BY <1>5, <2>0 DEF Take, Reply, TypeOK, Lock!TypeOK, lockVars, cellVars, Goto, Steps, Slots
  <2>2. GuardsAgree'
    BY <1>5, <1>a, GuardsSame DEF Take, Operating, GetSteps, Steps
  <2>3. LocalsAgree'
    BY <1>5, <1>a, <2>0 DEF Take, Reply, lockVars, cellVars, TypeOK, Goto, LocalsAgree,
                Invalidating, Index, Maintaining, TrySteps, GetSteps, Writing
  <2>4. \A i \in Slots : Writers(i)' = Writers(i) /\ Readers(i)' = Readers(i)
    BY <1>5, CellSame DEF Take, Reading, Writing, Steps
  <2>5. HalfDone' /\ Emptied'
    BY <1>5, <1>a DEF Take, lockVars, cellVars, TypeOK, Goto, EntriesAgree,
                HalfDone, Emptied, Slots, TrySteps, Writing
  <2> QED
    BY <1>5, <2>1, <2>2, <2>3, <2>4, <2>5, EntriesSame DEF Take, lockVars, cellVars, Steps
<1>6. CASE Drop(t)
  <2>0. /\ Goto(t, "in") /\ UNCHANGED <<entries, slots, lockVars, seen, answer, gen>>
        /\ state' = [state EXCEPT ![idx[t]] = state[idx[t]] - 1]
        /\ arg' = [arg EXCEPT ![t] = Empty] /\ idx' = [idx EXCEPT ![t] = 0]
    BY <1>6 DEF Drop, SetState, OneLess, Return
  <2>1. GuardsAgree'
    BY <2>0, <1>a, GuardsSame DEF Operating, GetSteps, Steps
  <2>2. LocalsAgree'
    BY <2>0, <1>a, <1>6 DEF Drop, lockVars, TypeOK, Goto, LocalsAgree,
                Invalidating, Index, Maintaining, TrySteps, GetSteps, Writing
  <2> PICK i \in Slots : i = idx[t]
    BY <1>a
  <2>3. t \in Readers(i)
    BY <1>6 DEF Drop, Readers, Reading
  <2>4. Writers(i) = {} /\ state[i] = Cardinality(Readers(i))
    BY <2>3, <1>a DEF CellAgrees
  <2>5. \A j : Writers(j)' = Writers(j)
    BY <2>0, <1>6 DEF Drop, Writers, Writing, Goto, TypeOK
  <2>6. \A j : j # i => Readers(j)' = Readers(j)
    BY <2>0, <1>6 DEF Drop, Readers, Reading, Goto, TypeOK
  <2>7. Readers(i)' = Readers(i) \ {t}
    BY <2>0, <1>6 DEF Drop, Readers, Reading, Goto, TypeOK
  <2>8. Cardinality(Readers(i))' = state[i] - 1
    <3>1. Cardinality(Readers(i) \ {t}) = Cardinality(Readers(i)) - 1
      BY <2>3, ReadersFinite, FS_RemoveElement
    <3> QED
      BY <2>4, <2>7, <3>1
  <2>9. CellAgrees'
    <3>1. Slots' = Slots
      BY <2>0 DEF Slots
    <3>2. state'[i] = state[i] - 1
      BY <2>0, <1>a DEF TypeOK
    <3>3. \A j \in Slots : j # i => state'[j] = state[j]
      BY <2>0 DEF TypeOK
    <3> QED
      BY <3>1, <3>2, <3>3, <2>4, <2>5, <2>6, <2>8 DEF CellAgrees
  <2>10. TypeOK'
    <3>1. state[i] - 1 \in -1 .. Cardinality(Threads)
      BY <2>4, ReadersFinite, CacheAssumption, FS_CardinalityType
    <3>2. Empty \in Pair /\ 0 \in Slots
      BY DEF Empty, Pair, TypeOK, Slots
    <3> QED
      BY <2>0, <3>1, <3>2 DEF TypeOK, Lock!TypeOK, lockVars, Goto, Steps, Slots
  <2>11. EntriesAgree'
    BY <2>0, <2>5, <1>6, <1>a DEF Drop, lockVars, TypeOK, Goto, EntriesAgree, Sound, Index,
                HalfDone, Emptied, Slots, TrySteps, Writing
  <2> QED
    BY <2>1, <2>2, <2>9, <2>10, <2>11
<1> QED
  BY <1>1, <1>2, <1>3, <1>4, <1>5, <1>6

(* A thread in try_write_once for an insertion works on the entry of its   *)
(* key; for a collection, it is alone and every counter is 0 or its own.   *)
LEMMA TryPlace ==
  ASSUME Inv, NEW t \in Threads, pc[t] \in TrySteps
  PROVE  /\ idx[t] \in Slots
         /\ Invalidating(t) <=> slot = t
         /\ slot # t => pc[t] \in Operating /\ ~writing
         /\ slot = t => /\ writing
                        /\ \A u \in Threads : u # t => pc[u] = "out"
                        /\ arg[t] = Empty
<1>1. idx[t] \in Slots /\ (Invalidating(t) <=> slot = t)
  BY DEF Inv, TypeOK, Invalidating, TrySteps, Writing
<1>2. CASE slot # t
  <2>1. pc[t] \in Operating
    BY DEF Operating
  <2> QED
    BY <1>1, <1>2, <2>1, OperatingShares DEF Inv
<1>3. CASE slot = t
  <2>1. pc[t] # "claim"
    BY DEF TrySteps, Writing
  <2>2. arg[t] = Empty
    BY <1>1, <1>3 DEF Inv, LocalsAgree
  <2> QED
    BY <1>1, <1>3, <2>1, <2>2, WriterAlone DEF Inv
<1> QED
  BY <1>2, <1>3

(* invalidate_all finds every entry free.                                  *)
LEMMA InvalidateFinds ==
  ASSUME Inv, NEW t \in Threads, pc[t] \in TrySteps \ Writing, slot = t
  PROVE  state[idx[t]] = 0
<1>0. idx[t] \in Slots /\ \A u \in Threads : u # t => pc[u] = "out"
  BY TryPlace
<1>1. Writers(idx[t]) = {} /\ Readers(idx[t]) = {}
  BY <1>0 DEF Writers, Readers, Writing, Reading, TrySteps
<1> QED
  BY <1>0, <1>1, FS_EmptySet DEF Inv, CellAgrees

(* The end of try_write_once, which gives no guard back that it took: what *)
(* it does to the thread and its locals.                                   *)
LEMMA EndTryEffect ==
  ASSUME Inv, NEW t \in Threads, pc[t] \in TrySteps, NEW wrote \in BOOLEAN,
         EndTry(t, wrote)
  PROVE  \/ /\ slot # t /\ Goto(t, "in")
            /\ arg' = [arg EXCEPT ![t] = Empty] /\ idx' = [idx EXCEPT ![t] = 0]
            /\ answer' = [answer EXCEPT ![t] = Wrote(wrote)]
         \/ /\ slot = t /\ idx[t] + 1 \in Slots /\ Goto(t, "try_load")
            /\ idx' = [idx EXCEPT ![t] = idx[t] + 1] /\ UNCHANGED <<arg, answer>>
         \/ /\ slot = t /\ idx[t] + 1 \notin Slots /\ Goto(t, "release")
            /\ arg' = [arg EXCEPT ![t] = Empty] /\ idx' = [idx EXCEPT ![t] = 0]
            /\ UNCHANGED answer
<1>1. Invalidating(t) <=> slot = t
  BY TryPlace
<1>2. idx \in [Threads -> Slots]
  BY DEF Inv, TypeOK
<1> QED
  BY <1>1, <1>2 DEF EndTry, NextEntry, EndInsert, Return, Reply

(* So it keeps the types, the guards of the Manager and the locals, and    *)
(* what is behind an invalidation stays empty.                             *)
LEMMA EndTryKeeps ==
  ASSUME Inv, NEW t \in Threads, pc[t] \in TrySteps, NEW wrote \in BOOLEAN,
         EndTry(t, wrote), UNCHANGED <<entries, slots, lockVars, seen, gen>>,
         state' \in [Slots -> -1 .. Cardinality(Threads)],
         slot = t => entries[idx[t]] = Empty
  PROVE  TypeOK' /\ GuardsAgree' /\ LocalsAgree' /\ HalfDone' /\ Emptied'
<1> USE DEF Inv
<1>1. /\ idx[t] \in Slots
      /\ Invalidating(t) <=> slot = t
      /\ slot # t => pc[t] \in Operating /\ ~writing
      /\ slot = t => /\ writing
                     /\ \A u \in Threads : u # t => pc[u] = "out"
                     /\ arg[t] = Empty
  BY TryPlace
<1>2. /\ Empty \in Pair /\ 0 \in Slots
      /\ Wrote(wrote) \in Answers /\ Wrote(wrote).type \in {"got", "wrote"}
  BY AnswerTypes DEF Empty, Pair, TypeOK, Slots
<1>3. CASE /\ slot # t /\ Goto(t, "in")
           /\ arg' = [arg EXCEPT ![t] = Empty] /\ idx' = [idx EXCEPT ![t] = 0]
           /\ answer' = [answer EXCEPT ![t] = Wrote(wrote)]
  <2>1. TypeOK'
    BY <1>2, <1>3 DEF TypeOK, Lock!TypeOK, lockVars, Goto, Steps, Slots
  <2>2. GuardsAgree'
    BY <1>1, <1>3, GuardsSame DEF Operating, Steps
  <2>3. LocalsAgree'
    BY <1>2, <1>3 DEF lockVars, TypeOK, Goto, LocalsAgree, Invalidating, Index, Maintaining,
                TrySteps, GetSteps, Writing
  <2>4. HalfDone' /\ Emptied'
    BY <1>3 DEF lockVars, TypeOK, Goto, EntriesAgree, HalfDone, Emptied, Slots, TrySteps,
                Writing
  <2> QED
    BY <2>1, <2>2, <2>3, <2>4
<1>4. CASE /\ slot = t /\ idx[t] + 1 \in Slots /\ Goto(t, "try_load")
           /\ idx' = [idx EXCEPT ![t] = idx[t] + 1] /\ UNCHANGED <<arg, answer>>
  <2>1. TypeOK'
    BY <1>4 DEF TypeOK, Lock!TypeOK, lockVars, Goto, Steps, Slots
  <2>2. GuardsAgree'
    BY <1>4, GuardsSame DEF TrySteps, Writing, Steps
  <2>3. LocalsAgree'
    BY <1>1, <1>4 DEF lockVars, TypeOK, Goto, LocalsAgree, Invalidating, Index, Maintaining,
                TrySteps, GetSteps, Writing
  <2>4. HalfDone'
    BY <1>4 DEF lockVars, TypeOK, Goto, EntriesAgree, HalfDone
  <2>5. Emptied'
    BY <1>1, <1>4 DEF lockVars, TypeOK, Goto, EntriesAgree, Emptied, Slots, TrySteps
  <2> QED
    BY <2>1, <2>2, <2>3, <2>4, <2>5
<1>5. CASE /\ slot = t /\ idx[t] + 1 \notin Slots /\ Goto(t, "release")
           /\ arg' = [arg EXCEPT ![t] = Empty] /\ idx' = [idx EXCEPT ![t] = 0]
           /\ UNCHANGED answer
  <2>1. TypeOK'
    BY <1>2, <1>5 DEF TypeOK, Lock!TypeOK, lockVars, Goto, Steps, Slots
  <2>2. GuardsAgree'
    BY <1>5, GuardsSame DEF TrySteps, Writing, Steps
  <2>3. LocalsAgree'
    BY <1>1, <1>5 DEF lockVars, TypeOK, Goto, LocalsAgree, Invalidating, Index, Maintaining,
                TrySteps, GetSteps, Writing
  <2>4. HalfDone'
    BY <1>5 DEF lockVars, TypeOK, Goto, EntriesAgree, HalfDone
  <2>5. \A i \in Slots : i = idx[t] \/ i < idx[t]
    <3>1. idx[t] \in Slots /\ idx[t] + 1 \notin Slots /\ slots \in Nat
      BY <1>1, <1>5 DEF TypeOK
    <3> QED
      BY <3>1 DEF Slots
  <2>6. Emptied'
    BY <1>1, <1>5, <2>5 DEF lockVars, TypeOK, Goto, EntriesAgree, Emptied, Slots, TrySteps,
                            Writing
  <2> QED
    BY <2>1, <2>2, <2>3, <2>4, <2>6
<1> QED
  BY <1>3, <1>4, <1>5, EndTryEffect

LEMMA TryStep ==
  ASSUME Inv, NEW t \in Threads,
         TryLoad(t) \/ TryCas(t) \/ WriteKey(t) \/ WriteVal(t) \/ Store(t)
  PROVE  Inv'
<1> USE DEF Inv
<1>0. pc[t] \in TrySteps
  BY DEF TrySteps, Writing, TryLoad, TryCas, WriteKey, WriteVal, Store, Write
<1>a. /\ idx[t] \in Slots
      /\ Invalidating(t) <=> slot = t
      /\ slot # t => pc[t] \in Operating /\ ~writing
      /\ slot = t => /\ writing
                     /\ \A u \in Threads : u # t => pc[u] = "out"
                     /\ arg[t] = Empty
  BY <1>0, TryPlace
<1>b. ASSUME NEW step \in TrySteps, Goto(t, step), UNCHANGED <<lockVars, slots, arg, idx, answer, gen>>
      PROVE  GuardsAgree' /\ LocalsAgree'
  <2>1. GuardsAgree'
    BY <1>0, <1>a, <1>b, GuardsSame DEF Operating, TrySteps, Writing, Steps
  <2>2. LocalsAgree'
    BY <1>0, <1>a, <1>b DEF lockVars, TypeOK, Goto, LocalsAgree, Invalidating, Index,
                            Maintaining, TrySteps, GetSteps, Writing
  <2> QED
    BY <2>1, <2>2
<1>1. ASSUME TryLoad(t) \/ TryCas(t), pc'[t] # "write_key",
             UNCHANGED <<cellVars, lockVars, seen, gen>>
      PROVE  Inv'
  <2>1. pc[t] \in {"try_load", "try_cas"}
    BY <1>1 DEF TryLoad, TryCas
  <2>2. CASE Goto(t, "try_cas") /\ UNCHANGED <<arg, idx, answer>>
    <3>1. TypeOK'
      BY <1>1, <2>2 DEF TypeOK, Lock!TypeOK, lockVars, cellVars, Goto, Steps, Slots
    <3>2. GuardsAgree' /\ LocalsAgree'
      BY <1>1, <1>b, <2>2 DEF TrySteps, cellVars
    <3>3. \A i \in Slots : Writers(i)' = Writers(i) /\ Readers(i)' = Readers(i)
      BY <2>1, <2>2, CellSame DEF Reading, Writing, Steps
    <3>4. HalfDone' /\ Emptied'
      BY <1>1, <2>1, <2>2 DEF lockVars, cellVars, TypeOK, Goto, EntriesAgree, HalfDone,
                              Emptied, Slots, TrySteps, Writing
    <3> QED
      BY <1>1, <2>2, <3>1, <3>2, <3>3, <3>4, EntriesSame DEF lockVars, cellVars, Steps
  <2>3. CASE EndTry(t, FALSE) /\ ~Free(state[idx[t]])
    <3>1. slot # t
      BY <2>1, <2>3, InvalidateFinds DEF TrySteps, Writing, Free
    <3>2. /\ Goto(t, "in")
          /\ arg' = [arg EXCEPT ![t] = Empty] /\ idx' = [idx EXCEPT ![t] = 0]
      BY <1>0, <2>3, <3>1, EndTryEffect
    <3>3. /\ TypeOK' /\ GuardsAgree' /\ LocalsAgree' /\ HalfDone' /\ Emptied'
      BY <1>0, <1>1, <2>3, <3>1, EndTryKeeps DEF cellVars, TypeOK
    <3>4. \A i \in Slots : Writers(i)' = Writers(i) /\ Readers(i)' = Readers(i)
      BY <2>1, <3>2, CellSame DEF Reading, Writing, Steps, TypeOK
    <3> QED
      BY <1>1, <3>2, <3>3, <3>4, EntriesSame DEF lockVars, cellVars, Steps
  <2> QED
    BY <1>1, <2>1, <2>2, <2>3 DEF TryLoad, TryCas, Goto, TypeOK
<1>2. CASE TryLoad(t)
  <2>1. pc'[t] # "write_key"
    BY <1>0, <1>2, EndTryEffect DEF TryLoad, Goto, TypeOK
  <2> QED
    BY <1>1, <1>2, <2>1 DEF TryLoad
<1>3. CASE TryCas(t) /\ ~Free(state[idx[t]])
  <2>1. pc'[t] # "write_key"
    BY <1>0, <1>3, EndTryEffect DEF TryCas, Goto, TypeOK
  <2> QED
    BY <1>1, <1>3, <2>1 DEF TryCas
<1>4. CASE TryCas(t) /\ Free(state[idx[t]])
  <2>0. /\ Goto(t, "write_key") /\ pc[t] = "try_cas"
        /\ UNCHANGED <<entries, slots, lockVars, arg, idx, answer, seen, gen>>
        /\ state[idx[t]] = 0
        /\ state' = [state EXCEPT ![idx[t]] = -1]
    BY <1>4 DEF TryCas, SetState, Free
  <2>1. GuardsAgree' /\ LocalsAgree'
    BY <1>b, <2>0 DEF TrySteps, Writing
  <2>2. TypeOK'
    <3>1. -1 \in -1 .. Cardinality(Threads)
      BY CacheAssumption, FS_CardinalityType
    <3> QED
      BY <2>0, <3>1 DEF TypeOK, Lock!TypeOK, lockVars, Goto, Steps, Slots
  <2> PICK i \in Slots : i = idx[t]
    BY <1>a
  <2>3. Writers(i) = {} /\ Readers(i) = {}
    BY <2>0, ReadersFinite DEF CellAgrees
  <2>4. \A j : /\ j # i => Writers(j)' = Writers(j)
               /\ Readers(j)' = Readers(j)
    BY <2>0 DEF Writers, Readers, Reading, Writing, Goto, TypeOK
  <2>5. Writers(i)' = {t}
    BY <2>0, <2>3 DEF Writers, Writing, Goto, TypeOK
  <2>6. CellAgrees'
    <3>1. Slots' = Slots
      BY <2>0 DEF Slots
    <3>2. state'[i] = -1 /\ \A j \in Slots : j # i => state'[j] = state[j]
      BY <2>0 DEF TypeOK
    <3> QED
      BY <3>1, <3>2, <2>3, <2>4, <2>5 DEF CellAgrees
  <2>7. EntriesAgree'
    BY <2>0, <2>4, <2>5 DEF lockVars, TypeOK, Goto, EntriesAgree, Sound, Index,
                HalfDone, Emptied, Slots, TrySteps, Writing
  <2> QED
    BY <2>1, <2>2, <2>6, <2>7
<1>5. ASSUME NEW from \in Writing, NEW to \in Writing, NEW pair, Write(t, from, to, pair),
             pair \in Pair, from # "store",
             to = "write_val" => pair.key = arg[t].key,
             to = "store" => pair = arg[t],
             to # "write_key"
      PROVE  Inv'
  <2>0. /\ Goto(t, to) /\ pc[t] \in Writing
        /\ UNCHANGED <<state, slots, lockVars, arg, idx, answer, seen, gen>>
        /\ entries' = [entries EXCEPT ![idx[t]] = pair]
    BY <1>5 DEF Write
  <2>1. GuardsAgree' /\ LocalsAgree'
    BY <1>b, <2>0 DEF TrySteps
  <2>2. TypeOK'
    BY <1>5, <2>0 DEF TypeOK, Lock!TypeOK, lockVars, Goto, Steps, Slots, Writing
  <2>3. \A i \in Slots : Writers(i)' = Writers(i) /\ Readers(i)' = Readers(i)
    BY <2>0, <1>5, CellSame DEF Reading, Writing, Steps, TypeOK
  <2>4. CellAgrees'
    BY <2>0, <2>3 DEF CellAgrees, Slots
  <2> PICK i \in Slots : i = idx[t]
    BY <1>a
  <2>5. t \in Writers(i)
    BY <2>0 DEF Writers
  <2>6. \A j \in Slots : j # i => entries'[j] = entries[j]
    BY <2>0 DEF TypeOK
  <2>7. ASSUME NEW j \in Slots, Sound(j) PROVE Sound(j)'
    BY <2>0, <2>3, <2>5, <2>6, <2>7 DEF Sound, Index
  <2>8. HalfDone'
    <3>1. \A u \in Threads : u # t /\ pc[u] \in {"take"} \union Writing => idx[u] # i
      BY <2>5 DEF CellAgrees, Writers, Readers, Reading
    <3>2. \A u \in Threads : u # t => entries'[idx[u]] = entries[idx[u]] \/ idx[u] = i
      BY <2>6 DEF TypeOK
    <3>3. entries'[idx[t]] = pair
      BY <2>0, <1>a DEF TypeOK
    <3> QED
      BY <1>5, <2>0, <3>1, <3>2, <3>3 DEF EntriesAgree, HalfDone, Goto, TypeOK, Writing
  <2>9. Emptied'
    <3>1. CASE slot = t
      <4>1. \A j \in Slots : j < idx[t] => entries[j] = Empty
        BY <1>0, <3>1 DEF EntriesAgree, Emptied
      <4>2. pc'[t] \in Writing /\ \A j \in Slots : j < idx[t] => j # i
        BY <2>0 DEF Goto, TypeOK, Slots
      <4> QED
        BY <2>0, <2>6, <3>1, <4>1, <4>2 DEF Emptied, lockVars, Slots, Writing
    <3>2. CASE slot # t
      <4>1. \A u \in Threads : slot = u => pc[u] = "claim" /\ pc'[u] = "claim"
        BY <1>a, <2>0, <3>2 DEF GuardsAgree, Goto, TypeOK
      <4> QED
        BY <2>0, <4>1 DEF Emptied, lockVars, TrySteps, Writing
    <3> QED
      BY <3>1, <3>2
  <2> QED
    BY <2>0, <2>1, <2>2, <2>4, <2>7, <2>8, <2>9 DEF EntriesAgree, lockVars, Slots
<1>6. CASE WriteKey(t)
  <2> DEFINE pair == [entries[idx[t]] EXCEPT !.key = arg[t].key]
  <2>1. entries[idx[t]] \in Pair /\ arg[t] \in Pair
    BY <1>a DEF TypeOK
  <2>2. pair \in Pair /\ pair.key = arg[t].key
    BY <2>1 DEF Pair
  <2>3. Write(t, "write_key", "write_val", pair)
    BY <1>6 DEF WriteKey
  <2> HIDE DEF pair
  <2> QED
    BY <1>5, <2>2, <2>3 DEF Writing
<1>7. CASE WriteVal(t)
  <2>1. [entries[idx[t]] EXCEPT !.val = arg[t].val] = arg[t]
    <3>1. entries[idx[t]] \in Pair /\ arg[t] \in Pair
      BY <1>a DEF TypeOK
    <3>2. entries[idx[t]].key = arg[t].key
      BY <1>7 DEF WriteVal, Write, EntriesAgree, HalfDone
    <3> QED
      BY <3>1, <3>2 DEF Pair
  <2>2. arg[t] \in Pair
    BY DEF TypeOK
  <2> QED
    BY <1>5, <1>7, <2>1, <2>2 DEF WriteVal, Writing
<1>8. CASE Store(t)
  <2>0. /\ pc[t] = "store" /\ EndTry(t, TRUE)
        /\ UNCHANGED <<entries, slots, lockVars, seen, gen>>
        /\ state' = [state EXCEPT ![idx[t]] = 0]
    BY <1>8 DEF Store, SetState
  <2>1. entries[idx[t]] = arg[t]
    BY <2>0 DEF EntriesAgree, HalfDone
  <2>2. state' \in [Slots -> -1 .. Cardinality(Threads)]
    <3>1. 0 \in -1 .. Cardinality(Threads)
      BY CacheAssumption, FS_CardinalityType
    <3> QED
      BY <2>0, <3>1 DEF TypeOK
  <2>3. TypeOK' /\ GuardsAgree' /\ LocalsAgree' /\ HalfDone' /\ Emptied'
    BY <1>0, <1>a, <2>0, <2>1, <2>2, EndTryKeeps
  <2>4. PICK step \in {"in", "try_load", "release"} :
          Goto(t, step) /\ \A u \in Threads : u # t => idx'[u] = idx[u]
    BY <1>0, <2>0, EndTryEffect DEF TypeOK
  <2> PICK i \in Slots : i = idx[t]
    BY <1>a
  <2>5. Writers(i) = {t} /\ Readers(i) = {}
    BY <2>0 DEF CellAgrees, Writers, Writing
  <2>6. \A j : /\ j # i => Writers(j)' = Writers(j)
               /\ Readers(j)' = Readers(j)
    BY <2>0, <2>4 DEF Writers, Readers, Reading, Writing, Goto, TypeOK
  <2>7. Writers(i)' = {}
    BY <2>0, <2>4, <2>5 DEF Writers, Writing, Goto, TypeOK
  <2>8. CellAgrees'
    <3>1. Slots' = Slots
      BY <2>0 DEF Slots
    <3>2. state'[i] = 0 /\ \A j \in Slots : j # i => state'[j] = state[j]
      BY <2>0 DEF TypeOK
    <3> QED
      BY <3>1, <3>2, <2>5, <2>6, <2>7, FS_EmptySet DEF CellAgrees
  <2>9. ASSUME NEW j \in Slots, ~writing, Sound(j) PROVE Sound(j)'
    <3>1. CASE j = i
      <4>1. /\ arg[t].key \in Keys
            /\ arg[t].val = <<arg[t].key, gen>>
            /\ idx[t] = Index(arg[t].key)
        BY <1>0, <1>a, <2>9 DEF LocalsAgree
      <4> QED
        BY <2>0, <2>1, <3>1, <4>1 DEF Sound, Index
    <3>2. CASE j # i
      BY <2>0, <2>6, <2>9, <3>2 DEF Sound, Index
    <3> QED
      BY <3>1, <3>2
  <2>10. EntriesAgree'
    BY <2>0, <2>3, <2>9 DEF EntriesAgree, lockVars, Slots
  <2> QED
    BY <2>3, <2>8, <2>10
<1> QED
  BY <1>2, <1>3, <1>4, <1>6, <1>7, <1>8

LEMMA StutterStep ==
  ASSUME Inv, UNCHANGED vars
  PROVE  Inv'
<1> USE DEF Inv, vars, cellVars, lockVars
<1>1. TypeOK'
  BY DEF TypeOK, Lock!TypeOK, Slots
<1>2. GuardsAgree'
  BY DEF GuardsAgree
<1>3. LocalsAgree'
  BY DEF LocalsAgree, Index, Invalidating
<1>4. \A i : Writers(i)' = Writers(i) /\ Readers(i)' = Readers(i)
  BY DEF Writers, Readers
<1>5. CellAgrees'
  BY <1>4 DEF CellAgrees, Slots
<1>6. EntriesAgree'
  BY <1>4 DEF EntriesAgree, Sound, HalfDone, Emptied, Slots, Index
<1> QED
  BY <1>1, <1>2, <1>3, <1>5, <1>6

(* The inductive invariant holds in every reachable state.                 *)
THEOREM Invariance == Spec => []Inv
<1>1. Inv /\ [Next]_vars => Inv'
  BY StutterStep, CallStep, MaintainStep, GetStep, TryStep DEF Next, Step
<1> QED
  BY <1>1, InitInv, PTL DEF Spec

(* The counters, locals and answers keep their types: in particular a      *)
(* dropped read guard never takes the counter of an entry below -1.        *)
THEOREM TypeCorrect == Spec => []TypeOK
<1>1. Inv => TypeOK
  BY DEF Inv
<1> QED
  BY <1>1, Invariance, PTL

(* The counter of an entry is the number of its read guards, or -1 while   *)
(* one thread writes: what the unsynchronised accesses to the pair of an   *)
(* entry rely on.                                                          *)
THEOREM CounterAgreement == Spec => []StateAgrees
<1>1. Inv => StateAgrees
  <2> SUFFICES ASSUME Inv, NEW i \in Slots
               PROVE  /\ Cardinality(Writers(i)) =< 1
                      /\ state[i] = IF Writers(i) # {} THEN -1
                                    ELSE Cardinality(Readers(i))
    BY DEF StateAgrees, Writers, Readers, Reading
  <2>1. CASE Writers(i) = {}
    BY <2>1, FS_EmptySet DEF Inv, CellAgrees
  <2>2. CASE Writers(i) # {}
    <3>1. PICK t : Writers(i) = {t}
      BY <2>2 DEF Inv, CellAgrees
    <3>2. Cardinality({t}) = 1
      BY FS_Singleton
    <3> QED
      BY <2>2, <3>1, <3>2 DEF Inv, CellAgrees
  <2> QED
    BY <2>1, <2>2
<1> QED
  BY <1>1, Invariance, PTL

(* While operations may run, no entry is torn between two insertions or    *)
(* left over from before a collection.                                     *)
THEOREM EntriesSound == Spec => []EntrySound
<1>1. Inv => EntrySound
  <2> SUFFICES ASSUME Inv, slot = NoThread, NEW i \in Slots, state[i] # -1, entries[i] # Empty
               PROVE  /\ entries[i].val = <<entries[i].key, gen>>
                      /\ Index(entries[i].key) = i
    BY DEF EntrySound
  <2>1. Writers(i) = {}
    BY DEF Inv, CellAgrees
  <2>2. ~writing
    BY CacheAssumption DEF Inv, GuardsAgree
  <2> QED
    BY <2>1, <2>2 DEF Inv, EntriesAgree, Sound
<1> QED
  BY <1>1, Invariance, PTL

-----------------------------------------------------------------------------
(* Refinement of OpCache.                                                  *)

(* The entry the atomic cache has.                                         *)
LEMMA AbsEntryIs ==
  ASSUME Inv, NEW i \in Slots
  PROVE  /\ (\E t \in Threads : Invalidating(t)) => AbsEntries[i] = Empty
         /\ (\A t \in Threads : ~Invalidating(t)) =>
              /\ Writers(i) = {} => AbsEntries[i] = entries[i]
              /\ \A t \in Writers(i) : AbsEntries[i] = arg[t]
<1>1. CASE \E t \in Threads : Invalidating(t)
  BY <1>1 DEF AbsEntries
<1>2. CASE \A t \in Threads : ~Invalidating(t)
  <2>1. CASE Writers(i) = {}
    BY <1>2, <2>1 DEF AbsEntries, Writers
  <2>2. ASSUME NEW t \in Writers(i)
        PROVE  AbsEntries[i] = arg[t]
    <3>1. \A u \in Threads : pc[u] \in Writing /\ idx[u] = i => u = t
      BY <2>2 DEF Inv, CellAgrees, Writers
    <3>2. t \in Threads /\ pc[t] \in Writing /\ idx[t] = i
      BY <2>2 DEF Writers
    <3>3. (CHOOSE u \in Threads : pc[u] \in Writing /\ idx[u] = i) = t
      BY <3>1, <3>2
    <3> QED
      BY <1>2, <3>2, <3>3 DEF AbsEntries
  <2> QED
    BY <1>2, <2>1, <2>2
<1> QED
  BY <1>1, <1>2

(* A step that changes no entry as the atomic cache sees it.               *)
LEMMA AbsEntriesSame ==
  ASSUME UNCHANGED slots, \A i \in Slots : AbsEntries'[i] = AbsEntries[i]
  PROVE  AbsEntries' = AbsEntries
<1>1. Slots' = Slots
  BY DEF Slots
<1> DEFINE f(i) == IF \E t \in Threads : Invalidating(t) THEN Empty
                   ELSE IF \E t \in Threads : pc[t] \in Writing /\ idx[t] = i
                        THEN arg[CHOOSE t \in Threads : pc[t] \in Writing /\ idx[t] = i]
                        ELSE entries[i]
<1>2. AbsEntries = [i \in Slots |-> f(i)]
  BY DEF AbsEntries
<1>3. AbsEntries' = [i \in Slots |-> f(i)']
  BY <1>1 DEF AbsEntries
<1> HIDE DEF f
<1>4. \A i \in Slots : f(i)' = f(i)
  BY <1>2, <1>3
<1> QED
  BY <1>2, <1>3, <1>4

LEMMA InitRefines == Init => Abstract!Init
<1> SUFFICES ASSUME Init PROVE Abstract!Init
  OBVIOUS
<1>1. \A t \in Threads : ~Invalidating(t) /\ pc[t] \notin Writing
  BY CacheAssumption DEF Init, Lock!Init, Invalidating, Writing
<1>2. AbsEntries = [i \in Slots |-> entries[i]]
  BY <1>1 DEF AbsEntries
<1>3. AbsEntries = Abstract!EmptyCache(InitSlots)
  BY <1>2 DEF Init, Slots, Empty, Abstract!EmptyCache, Abstract!Empty
<1>4. AbsAnswer = [t \in Threads |-> Abstract!Got(NoValue)]
  BY <1>1 DEF AbsAnswer, Init, Got, Abstract!Got
<1> QED
  BY <1>3, <1>4 DEF Abstract!Init, Init, Lock!Init

(* The answers the atomic cache has given.                                 *)
LEMMA AbsAnswerSame ==
  ASSUME \A u \in Threads : AbsAnswer'[u] = AbsAnswer[u]
  PROVE  AbsAnswer' = AbsAnswer
BY DEF AbsAnswer

(* A step that leaves entries and writers alone, and neither begins nor    *)
(* ends an invalidation.                                                   *)
LEMMA CellsUnseen ==
  ASSUME Inv, Inv', UNCHANGED <<entries, slots>>,
         \A u \in Threads : Invalidating(u)' <=> Invalidating(u),
         \A i \in Slots : Writers(i)' = Writers(i),
         \A u \in Threads : pc[u] \in Writing => arg'[u] = arg[u]
  PROVE  AbsEntries' = AbsEntries
<1>1. Slots' = Slots
  BY DEF Slots
<1>2. ASSUME NEW i \in Slots
      PROVE  AbsEntries'[i] = AbsEntries[i]
  <2>1. CASE \E u \in Threads : Invalidating(u)
    <3>1. AbsEntries[i] = Empty
      BY <2>1, AbsEntryIs
    <3>2. AbsEntries'[i] = Empty
      BY <1>1, <2>1 DEF AbsEntries
    <3> QED
      BY <3>1, <3>2
  <2>2. CASE \A u \in Threads : ~Invalidating(u)
    <3>1. CASE Writers(i) = {}
      <4>1. AbsEntries[i] = entries[i]
        BY <2>2, <3>1, AbsEntryIs
      <4>2. \A u \in Threads : ~(pc'[u] \in Writing /\ idx'[u] = i)
        BY <3>1 DEF Writers
      <4>3. AbsEntries'[i] = entries'[i]
        BY <1>1, <2>2, <4>2 DEF AbsEntries
      <4> QED
        BY <4>1, <4>3
    <3>2. ASSUME NEW u \in Writers(i)
          PROVE  AbsEntries'[i] = AbsEntries[i]
      <4>1. AbsEntries[i] = arg[u]
        BY <2>2, AbsEntryIs
      <4>2. u \in Threads /\ pc[u] \in Writing
        BY DEF Writers
      <4>3. \A v \in Threads : pc'[v] \in Writing /\ idx'[v] = i <=> v = u
        <5>1. \A v \in Threads : pc'[v] \in Writing /\ idx'[v] = i <=> v \in Writers(i)
          BY DEF Writers
        <5> QED
          BY <3>2, <5>1 DEF Inv, CellAgrees, Writers
      <4>4. (CHOOSE v \in Threads : pc'[v] \in Writing /\ idx'[v] = i) = u
        BY <4>2, <4>3
      <4>5. AbsEntries'[i] = arg'[u]
        BY <1>1, <2>2, <4>2, <4>3, <4>4 DEF AbsEntries
      <4> QED
        BY <4>1, <4>2, <4>5
    <3> QED
      BY <3>1, <3>2
  <2> QED
    BY <2>1, <2>2
<1> QED
  BY <1>2, AbsEntriesSame

LEMMA CallRefines ==
  ASSUME Inv, Inv', NEW t \in Threads, Call(t)
  PROVE  [Abstract!Next]_Abstract!cacheVars
<1>1. PICK step \in Steps : Goto(t, step) /\ {pc[t], step} \intersect (Reading \union Writing) = {}
  BY DEF Call, Join, Leave, Claim, CallGet, CallInsert, Begin, Steps, Reading, Writing
<1>2. /\ UNCHANGED <<entries, slots, gen>>
      /\ \A u \in Threads : u # t => idx'[u] = idx[u] /\ arg'[u] = arg[u]
  BY DEF Call, Join, Leave, Claim, CallGet, CallInsert, Begin, cellVars, Inv, TypeOK
<1>3. \A i \in Slots : Writers(i)' = Writers(i)
  BY <1>1, <1>2, CellSame DEF Inv
<1>4. \A u \in Threads : Invalidating(u)' <=> Invalidating(u)
  <2>1. CASE Join(t) \/ Leave(t) \/ CallGet(t) \/ CallInsert(t)
    <3>1. UNCHANGED slot
      BY <2>1 DEF Join, Leave, CallGet, CallInsert, Lock!AcquireRead, Lock!ReleaseRead, lockVars
    <3>2. slot # t
      BY <2>1 DEF Join, Leave, CallGet, CallInsert, Inv, GuardsAgree, Maintaining, TrySteps, Writing
    <3> QED
      BY <1>1, <3>1, <3>2, GotoMoves DEF Inv, Invalidating
  <2>2. CASE Claim(t)
    BY <2>2, CacheAssumption DEF Claim, Lock!Claim, Invalidating, Inv, TypeOK, Goto
  <2> QED
    BY <2>1, <2>2 DEF Call
<1>5. AbsEntries' = AbsEntries
  BY <1>1, <1>2, <1>3, <1>4, CellsUnseen DEF Inv, TypeOK
<1>6. \A u \in Threads : u # t => AbsAnswer'[u] = AbsAnswer[u]
  <2>1. \A u \in Threads : u # t => pc'[u] = pc[u] /\ answer'[u] = answer[u]
    BY <1>1, GotoMoves DEF Call, Join, Leave, Claim, CallGet, CallInsert, Begin, Inv, TypeOK
  <2> QED
    BY <1>4, <2>1 DEF AbsAnswer
<1>7. AbsAnswer'[t] = answer'[t] /\ AbsAnswer[t] = answer[t]
  BY <1>1, GotoMoves DEF AbsAnswer, Inv
<1>8. CASE Join(t)
  <2>1. AbsAnswer' = AbsAnswer
    BY <1>6, <1>7, <1>8, AbsAnswerSame DEF Join
  <2>2. Abstract!Join(t)
    BY <1>2, <1>5, <1>8, <2>1 DEF Join, Lock!AcquireRead, Abstract!Join
  <2> QED
    BY <2>2 DEF Abstract!Next
<1>9. CASE Leave(t)
  <2>1. AbsAnswer' = AbsAnswer
    BY <1>6, <1>7, <1>9, AbsAnswerSame DEF Leave
  <2>2. Abstract!Returned(t)
    BY <1>7, <1>9 DEF Leave, Inv, LocalsAgree, Abstract!Returned
  <2>3. Abstract!Leave(t)
    BY <1>2, <1>5, <1>9, <2>1, <2>2 DEF Leave, Lock!ReleaseRead, Abstract!Leave
  <2> QED
    BY <2>3 DEF Abstract!Next
<1>10. CASE Claim(t)
  <2>1. AbsAnswer' = AbsAnswer
    BY <1>6, <1>7, <1>10, AbsAnswerSame DEF Claim
  <2> QED
    BY <1>2, <1>5, <1>10, <2>1 DEF Claim, Lock!Claim, Abstract!cacheVars
<1>11. ASSUME pc[t] = "in", UNCHANGED lockVars, NEW call, answer' = [answer EXCEPT ![t] = call]
       PROVE  Abstract!Call(t, call)
  <2>1. t \in readers
    BY <1>11, OperatingShares DEF Inv, GuardsAgree, Operating, Maintaining, TrySteps, Writing
  <2>2. Abstract!Returned(t)
    BY <1>7, <1>11 DEF Inv, LocalsAgree, Abstract!Returned
  <2>3. AbsAnswer' = [AbsAnswer EXCEPT ![t] = call]
    <3>1. AbsAnswer'[t] = call
      BY <1>7, <1>11 DEF Inv, TypeOK
    <3> QED
      BY <1>6, <3>1 DEF AbsAnswer
  <2> QED
    BY <1>2, <1>5, <1>11, <2>1, <2>2, <2>3 DEF Abstract!Call, Abstract!Answer, lockVars
<1>12. CASE CallGet(t)
  <2>1. PICK k \in Keys : /\ pc[t] = "in" /\ UNCHANGED lockVars
                          /\ answer' = [answer EXCEPT ![t] = GetOf(k)]
    BY <1>12 DEF CallGet, Begin
  <2>2. Abstract!CallGet(t, k)
    BY <1>11, <2>1 DEF Abstract!CallGet, Abstract!GetOf, GetOf
  <2> QED
    BY <2>2 DEF Abstract!Next
<1>13. CASE CallInsert(t)
  <2>1. PICK k \in Keys : /\ pc[t] = "in" /\ UNCHANGED lockVars
                          /\ answer' = [answer EXCEPT ![t] = InsertOf(k, <<k, gen>>)]
    BY <1>13 DEF CallInsert, Begin
  <2>2. Abstract!CallInsert(t, k, <<k, gen>>)
    BY <1>11, <2>1 DEF Abstract!CallInsert, Abstract!InsertOf, InsertOf
  <2>3. <<k, gen>> \in Values
    BY DEF Inv, TypeOK, Values
  <2> QED
    BY <2>2, <2>3 DEF Abstract!Next
<1> QED
  BY <1>8, <1>9, <1>10, <1>12, <1>13 DEF Call

LEMMA MaintainRefines ==
  ASSUME Inv, Inv', NEW t \in Threads,
         Alone(t) \/ CallInvalidateAll(t) \/ Grow(t) \/ Release(t)
  PROVE  [Abstract!Next]_Abstract!cacheVars
<1>1. PICK step \in Steps : Goto(t, step) /\ {pc[t], step} \intersect (Reading \union Writing) = {}
  BY DEF Alone, CallInvalidateAll, Grow, Release, Steps, Reading, Writing
<1>2. UNCHANGED <<answer, arg, idx, readers>> /\ slot = t
  BY DEF Alone, CallInvalidateAll, Grow, Release, Lock!ReleaseWrite, Waits, Lock!EnterWrite,
         lockVars, Inv, GuardsAgree, Maintaining
<1>3. \A i \in Slots : Writers(i)' = Writers(i)
  BY <1>1, <1>2, CellSame DEF Inv
<1>4. AbsAnswer' = AbsAnswer
  <2>1. \A u \in Threads : pc'[u] \in Writing <=> pc[u] \in Writing
    BY <1>1, GotoMoves DEF Inv
  <2>2. \A u \in Threads : ~(pc[u] \in Writing /\ Invalidating(u))
    BY <1>1, <1>2 DEF Invalidating
  <2>3. \A u \in Threads : ~(pc'[u] \in Writing /\ Invalidating(u)')
    BY <1>1, <1>2, <2>1, CacheAssumption
    DEF Invalidating, Alone, CallInvalidateAll, Grow, Release, Lock!ReleaseWrite, Waits,
        Lock!EnterWrite, lockVars
  <2> QED
    BY <1>2, <2>1, <2>2, <2>3 DEF AbsAnswer
<1>5. CASE Alone(t) \/ Release(t)
  <2>1. \A u \in Threads : ~Invalidating(u) /\ ~Invalidating(u)'
    BY <1>2, <1>5, CacheAssumption DEF Alone, Release, Invalidating, Lock!ReleaseWrite, Waits,
       Lock!EnterWrite, Goto, Inv, TypeOK
  <2>2. AbsEntries' = AbsEntries
    BY <1>2, <1>3, <1>5, <2>1, CellsUnseen DEF Alone, Release, cellVars
  <2> QED
    BY <1>2, <1>4, <1>5, <2>2 DEF Alone, Release, cellVars, Abstract!cacheVars
<1>6. CASE CallInvalidateAll(t) \/ Grow(t)
  <2>1. readers = {} /\ \A u \in Threads : u # t => pc[u] = "out"
    BY <1>2, <1>6, WriterAlone DEF CallInvalidateAll, Grow, Inv
  <2>2. slots' \in {slots, 2 * slots}
    BY <1>6 DEF CallInvalidateAll, Grow, cellVars
  <2>3. AbsEntries' = [i \in Slots' |-> Empty]
    <3>1. CASE CallInvalidateAll(t)
      <4>1. Invalidating(t)'
        BY <1>2, <3>1 DEF CallInvalidateAll, Invalidating, lockVars, Goto, Inv, TypeOK
      <4> QED
        BY <4>1 DEF AbsEntries
    <3>2. CASE Grow(t)
      <4>1. \A u \in Threads : ~(pc'[u] \in Writing) /\ ~Invalidating(u)'
        BY <1>2, <2>1, <3>2 DEF Grow, Goto, Inv, TypeOK, Writing, Invalidating, lockVars
      <4>2. AbsEntries' = [i \in Slots' |-> entries'[i]]
        BY <4>1 DEF AbsEntries
      <4> QED
        BY <3>2, <4>2 DEF Grow
    <3> QED
      BY <1>6, <3>1, <3>2
  <2>4. Abstract!Clear
    BY <1>2, <1>4, <2>1, <2>2, <2>3
    DEF Abstract!Clear, Abstract!EmptyCache, Abstract!Empty, Slots, Empty
  <2> QED
    BY <2>4 DEF Abstract!Next
<1> QED
  BY <1>5, <1>6

(* While nobody writes to the table nobody invalidates.                    *)
LEMMA NoInvalidation ==
  ASSUME Inv, ~writing
  PROVE  \A u \in Threads : ~Invalidating(u)
BY DEF Inv, GuardsAgree, Invalidating

LEMMA NoInvalidationNext ==
  ASSUME Inv', ~writing'
  PROVE  \A u \in Threads : ~Invalidating(u)'
BY DEF Inv, GuardsAgree, Invalidating

LEMMA GetRefines ==
  ASSUME Inv, Inv', NEW t \in Threads,
         Load(t) \/ Cas(t) \/ Compare(t) \/ Take(t) \/ Drop(t)
  PROVE  [Abstract!Next]_Abstract!cacheVars
<1>1. PICK step \in Steps \ Writing : Goto(t, step) /\ pc[t] \in GetSteps
  <2>1. pc[t] \in GetSteps
    BY DEF Load, Cas, Compare, Take, Drop, GetSteps
  <2>2. \E step \in {"in", "load", "cas", "compare", "take", "drop"} : Goto(t, step)
    BY DEF Load, Cas, Compare, Take, Drop, Return
  <2> QED
    BY <2>1, <2>2 DEF Steps, Writing
<1>2. /\ UNCHANGED <<entries, slots, gen, readers, writing>>
      /\ \A u \in Threads : u # t => idx'[u] = idx[u] /\ arg'[u] = arg[u]
  BY DEF Load, Cas, Compare, Take, Drop, SetState, Return, cellVars, lockVars, Inv, TypeOK
<1>3. /\ arg[t].key \in Keys /\ idx[t] \in Slots
      /\ idx[t] = Index(arg[t].key)
      /\ slot # t /\ ~writing
  BY <1>1, GetOperates
<1>4. \A u \in Threads : ~Invalidating(u) /\ ~Invalidating(u)'
  BY <1>2, <1>3, NoInvalidation, NoInvalidationNext
<1>5. \A i \in Slots : Writers(i)' = Writers(i)
  BY <1>1, <1>2, GotoMoves DEF Inv, Writers, GetSteps, Writing
<1>6. AbsEntries' = AbsEntries
  BY <1>1, <1>2, <1>4, <1>5, CellsUnseen DEF GetSteps, Writing
<1>7. /\ AbsAnswer'[t] = answer'[t] /\ AbsAnswer[t] = answer[t]
      /\ \A u \in Threads : u # t => AbsAnswer'[u] = AbsAnswer[u]
  <2>1. \A u \in Threads : u # t => pc'[u] = pc[u] /\ answer'[u] = answer[u]
    BY <1>1, GotoMoves DEF Load, Cas, Compare, Take, Drop, Reply, Inv, TypeOK
  <2> QED
    BY <1>1, <1>4, <2>1, GotoMoves DEF AbsAnswer, Inv, GetSteps, Writing
<1>8. ASSUME pc[t] \in Reading \ {"drop"}, NEW v \in Values \union {NoValue},
             answer' = [answer EXCEPT ![t] = Got(v)],
             v = IF entries[idx[t]].key = arg[t].key THEN entries[idx[t]].val ELSE NoValue
      PROVE  Abstract!Next
  <2>1. AbsEntries[idx[t]] = entries[idx[t]]
    <3>1. Writers(idx[t]) = {}
      BY <1>3, <1>8 DEF Inv, CellAgrees, Readers
    <3> QED
      BY <1>3, <1>4, <3>1, AbsEntryIs
  <2>2. AbsAnswer[t] = Abstract!GetOf(arg[t].key)
    BY <1>1, <1>7, <1>8 DEF Inv, LocalsAgree, GetSteps, Reading, GetOf, Abstract!GetOf
  <2>3. AbsAnswer' = [AbsAnswer EXCEPT ![t] = Abstract!Got(v)]
    <3>1. AbsAnswer'[t] = Abstract!Got(v)
      BY <1>7, <1>8 DEF Inv, TypeOK, Got, Abstract!Got
    <3> QED
      BY <1>7, <3>1 DEF AbsAnswer
  <2>4. Abstract!Index(arg[t].key) = idx[t]
    BY <1>3 DEF Index, Abstract!Index
  <2>5. Abstract!Get(t, arg[t].key)
    BY <1>2, <1>6, <1>8, <2>1, <2>2, <2>3, <2>4 DEF Abstract!Get, Abstract!Answer
  <2> QED
    BY <1>3, <2>5 DEF Abstract!Next
<1>9. CASE UNCHANGED answer
  BY <1>2, <1>6, <1>7, <1>9, AbsAnswerSame DEF Abstract!cacheVars
<1>10. CASE Compare(t) /\ entries[idx[t]].key # arg[t].key
  <2>1. pc[t] = "compare" /\ answer' = [answer EXCEPT ![t] = Got(NoValue)]
    BY <1>10 DEF Compare, Matches, Reply
  <2> QED
    BY <1>8, <1>10, <2>1 DEF Reading
<1>11. CASE Take(t)
  <2>1. pc[t] = "take" /\ answer' = [answer EXCEPT ![t] = Got(entries[idx[t]].val)]
    BY <1>11 DEF Take, Reply
  <2>2. entries[idx[t]].key = arg[t].key
    BY <2>1 DEF Inv, EntriesAgree, HalfDone
  <2>3. entries[idx[t]].val \in Values \union {NoValue}
    BY <1>3 DEF Inv, TypeOK, Pair
  <2> QED
    BY <1>8, <2>1, <2>2, <2>3 DEF Reading
<1> QED
  BY <1>9, <1>10, <1>11 DEF Load, Cas, Compare, Matches, Drop

(* The steps of invalidate_all are unseen: the cache is empty since it     *)
(* began.                                                                  *)
LEMMA InvalidateRefines ==
  ASSUME Inv, Inv', NEW t \in Threads, slot = t,
         TryLoad(t) \/ TryCas(t) \/ WriteKey(t) \/ WriteVal(t) \/ Store(t)
  PROVE  UNCHANGED Abstract!cacheVars
<1>0. pc[t] \in TrySteps
  BY DEF TrySteps, Writing, TryLoad, TryCas, WriteKey, WriteVal, Store, Write
<1>1. Invalidating(t) /\ \A u \in Threads : u # t => pc[u] = "out"
  BY <1>0, TryPlace
<1>2. UNCHANGED <<slots, readers, slot, answer>>
  <2>1. ASSUME NEW wrote \in BOOLEAN, EndTry(t, wrote)
        PROVE  UNCHANGED answer
    BY <1>0, <2>1, EndTryEffect
  <2> QED
    BY <2>1 DEF TryLoad, TryCas, WriteKey, WriteVal, Store, Write, SetState, lockVars, cellVars
<1>3. PICK step \in TrySteps \union {"release"} : Goto(t, step)
  <2>1. ASSUME NEW wrote \in BOOLEAN, EndTry(t, wrote)
        PROVE  \E step \in TrySteps \union {"release"} : Goto(t, step)
    BY <1>0, <2>1, EndTryEffect DEF TrySteps
  <2> QED
    BY <2>1 DEF TryLoad, TryCas, WriteKey, WriteVal, Store, Write, TrySteps, Writing
<1>4. \A u \in Threads : u # t => pc'[u] = "out"
  BY <1>1, <1>3 DEF Goto, Inv, TypeOK
<1>5. pc'[t] = step
  BY <1>3 DEF Goto, Inv, TypeOK
<1>6. AbsAnswer' = AbsAnswer
  <2>1. \A u \in Threads : ~(pc[u] \in Writing /\ ~Invalidating(u))
    BY <1>1 DEF Writing
  <2>2. \A u \in Threads : ~(pc'[u] \in Writing /\ ~Invalidating(u)')
    BY <1>2, <1>4, <1>5 DEF Writing, Invalidating
  <2> QED
    BY <1>2, <2>1, <2>2 DEF AbsAnswer
<1>7. AbsEntries = [i \in Slots |-> Empty]
  BY <1>1 DEF AbsEntries
<1>8. AbsEntries' = [i \in Slots' |-> Empty]
  <2>1. CASE step # "release"
    <3>1. Invalidating(t)'
      BY <1>2, <1>5, <2>1 DEF Invalidating, TrySteps, Writing
    <3> QED
      BY <3>1 DEF AbsEntries
  <2>2. CASE step = "release"
    <3>1. \A u \in Threads : ~(pc'[u] \in Writing) /\ ~Invalidating(u)'
      BY <1>2, <1>4, <1>5, <2>2 DEF Invalidating, Writing
    <3>2. AbsEntries' = [i \in Slots' |-> entries'[i]]
      BY <3>1 DEF AbsEntries
    <3>3. \A i \in Slots' : entries'[i] = Empty
      BY <1>2, <1>5, <2>2 DEF Inv, EntriesAgree, Emptied
    <3> QED
      BY <3>2, <3>3
  <2> QED
    BY <2>1, <2>2
<1>9. Slots' = Slots
  BY <1>2 DEF Slots
<1> QED
  BY <1>2, <1>6, <1>7, <1>8, <1>9 DEF Abstract!cacheVars

(* An entry that a counter shows in use is used by another operation.      *)
LEMMA UsedByAnother ==
  ASSUME Inv, NEW t \in Threads, pc[t] \in TrySteps \ Writing, slot # t,
         state[idx[t]] # 0
  PROVE  readers # {t}
<1>1. idx[t] \in Slots /\ ~writing
  BY TryPlace
<1>2. Writers(idx[t]) # {} \/ Readers(idx[t]) # {}
  BY <1>1, FS_EmptySet DEF Inv, CellAgrees
<1>3. PICK u \in Threads : pc[u] \in Writing \union Reading
  BY <1>2 DEF Writers, Readers
<1>4. u # t
  BY <1>3 DEF TrySteps, Writing, Reading
<1>5. slot # u
  BY <1>1, <1>3, NoInvalidation DEF Invalidating, Writing, Reading
<1>6. u \in readers
  BY <1>3, <1>5, OperatingShares DEF Inv, Operating, GetSteps, TrySteps, Writing, Reading
<1> QED
  BY <1>4, <1>6

LEMMA InsertRefines ==
  ASSUME Inv, Inv', NEW t \in Threads, slot # t,
         TryLoad(t) \/ TryCas(t) \/ WriteKey(t) \/ WriteVal(t) \/ Store(t)
  PROVE  [Abstract!Next]_Abstract!cacheVars
<1>0. pc[t] \in TrySteps
  BY DEF TrySteps, Writing, TryLoad, TryCas, WriteKey, WriteVal, Store, Write
<1>1. idx[t] \in Slots /\ ~writing
  BY <1>0, TryPlace
<1>2. /\ arg[t].key \in Keys /\ arg[t].val = <<arg[t].key, gen>> /\ arg[t].val \in Values
      /\ arg[t] = [key |-> arg[t].key, val |-> arg[t].val]
      /\ idx[t] = Index(arg[t].key) /\ Abstract!Index(arg[t].key) = idx[t]
      /\ answer[t] = Abstract!InsertOf(arg[t].key, arg[t].val)
  <2>1. /\ arg[t].key \in Keys /\ arg[t].val = <<arg[t].key, gen>>
        /\ idx[t] = Index(arg[t].key) /\ answer[t] = InsertOf(arg[t].key, arg[t].val)
    BY <1>0 DEF Inv, LocalsAgree
  <2>2. gen \in 0 .. MaxGen /\ arg[t] \in Pair
    BY DEF Inv, TypeOK
  <2> QED
    BY <2>1, <2>2 DEF Values, Pair, Index, Abstract!Index, InsertOf, Abstract!InsertOf
<1>3. UNCHANGED <<slots, readers, slot, writing>>
  BY DEF TryLoad, TryCas, WriteKey, WriteVal, Store, Write, SetState, lockVars, cellVars
<1>4. \A u \in Threads : ~Invalidating(u) /\ ~Invalidating(u)'
  BY <1>1, <1>3, NoInvalidation, NoInvalidationNext
<1>5. Slots' = Slots
  BY <1>3 DEF Slots
<1>6. ASSUME NEW step \in Steps, Goto(t, step), UNCHANGED <<entries, idx, arg>>,
             pc[t] \in Writing <=> step \in Writing
      PROVE  AbsEntries' = AbsEntries
  <2>1. \A i \in Slots : Writers(i)' = Writers(i)
    BY <1>6, GotoMoves DEF Inv, Writers
  <2> QED
    BY <1>3, <1>4, <1>6, <2>1, CellsUnseen
<1>7. ASSUME \A u \in Threads : u # t => pc'[u] = pc[u] /\ answer'[u] = answer[u]
      PROVE  /\ \A u \in Threads : u # t => AbsAnswer'[u] = AbsAnswer[u]
             /\ AbsAnswer[t] = IF pc[t] \in Writing THEN Wrote(TRUE) ELSE answer[t]
             /\ AbsAnswer'[t] = IF pc'[t] \in Writing THEN Wrote(TRUE) ELSE answer'[t]
  BY <1>4, <1>7 DEF AbsAnswer
<1>8. CASE (TryLoad(t) \/ TryCas(t)) /\ ~Free(state[idx[t]])
  <2>1. EndTry(t, FALSE) /\ UNCHANGED entries /\ pc[t] \notin Writing
    BY <1>8 DEF TryLoad, TryCas, cellVars, Writing
  <2>2. /\ Goto(t, "in")
        /\ arg' = [arg EXCEPT ![t] = Empty] /\ idx' = [idx EXCEPT ![t] = 0]
        /\ answer' = [answer EXCEPT ![t] = Wrote(FALSE)]
    BY <1>0, <2>1, EndTryEffect
  <2>3. AbsEntries' = AbsEntries
    <3>1. \A i \in Slots : Writers(i)' = Writers(i)
      BY <2>1, <2>2 DEF Goto, Inv, TypeOK, Writers, Writing
    <3>2. \A u \in Threads : pc[u] \in Writing => arg'[u] = arg[u]
      BY <2>1, <2>2 DEF Inv, TypeOK
    <3> QED
      BY <1>3, <1>4, <2>1, <3>1, <3>2, CellsUnseen
  <2>4. /\ \A u \in Threads : u # t => pc'[u] = pc[u] /\ answer'[u] = answer[u]
        /\ pc'[t] = "in" /\ answer'[t] = Wrote(FALSE)
    BY <2>2 DEF Goto, Inv, TypeOK
  <2>5. AbsAnswer[t] = Abstract!InsertOf(arg[t].key, arg[t].val)
    BY <1>2, <1>7, <2>1, <2>4
  <2>6. AbsAnswer' = [AbsAnswer EXCEPT ![t] = Abstract!Wrote(FALSE)]
    <3>1. AbsAnswer'[t] = Abstract!Wrote(FALSE)
      BY <1>7, <2>4 DEF Writing, Wrote, Abstract!Wrote
    <3> QED
      BY <1>7, <2>4, <3>1 DEF AbsAnswer
  <2>7. readers # {t}
    BY <1>0, <1>8, <2>1, UsedByAnother DEF Free
  <2>8. Abstract!Insert(t, arg[t].key, arg[t].val)
    BY <1>3, <2>3, <2>5, <2>6, <2>7 DEF Abstract!Insert, Abstract!Answer
  <2> QED
    BY <1>2, <2>8 DEF Abstract!Next
<1>9. CASE TryLoad(t) /\ Free(state[idx[t]])
  <2>1. /\ Goto(t, "try_cas") /\ pc[t] = "try_load"
        /\ UNCHANGED <<entries, arg, idx, answer>>
    BY <1>9 DEF TryLoad, cellVars
  <2>2. AbsEntries' = AbsEntries
    BY <1>6, <2>1 DEF Steps, Writing
  <2>3. AbsAnswer' = AbsAnswer
    BY <1>7, <2>1, AbsAnswerSame DEF Goto, Inv, TypeOK, Writing
  <2> QED
    BY <1>3, <2>2, <2>3 DEF Abstract!cacheVars
<1>10. CASE TryCas(t) /\ Free(state[idx[t]])
  <2>1. /\ Goto(t, "write_key") /\ pc[t] = "try_cas"
        /\ UNCHANGED <<entries, arg, idx, answer>>
    BY <1>10 DEF TryCas, SetState
  <2>2. pc'[t] = "write_key" /\ \A u \in Threads : u # t => pc'[u] = pc[u]
    BY <2>1 DEF Goto, Inv, TypeOK
  <2>3. t \in Writers(idx[t])'
    BY <2>1, <2>2 DEF Writers, Writing
  <2>4. AbsEntries'[idx[t]] = arg[t]
    <3>1. PICK i \in Slots : i = idx[t]
      BY <1>1
    <3>2. \A u \in Threads : pc'[u] \in Writing /\ idx'[u] = i <=> u = t
      <4>1. t \in Writers(i)'
        BY <2>1, <2>3, <3>1
      <4>2. \A u \in Writers(i)' : u = t
        BY <1>5, <4>1 DEF Inv, CellAgrees
      <4> QED
        BY <4>1, <4>2 DEF Writers
    <3>3. (CHOOSE u \in Threads : pc'[u] \in Writing /\ idx'[u] = i) = t
      BY <3>2
    <3>4. AbsEntries'[i] = arg'[t]
      BY <1>4, <1>5, <3>2, <3>3 DEF AbsEntries
    <3> QED
      BY <2>1, <3>1, <3>4
  <2>5. \A i \in Slots : i # idx[t] => AbsEntries'[i] = AbsEntries[i]
    <3> SUFFICES ASSUME NEW i \in Slots, i # idx[t]
                 PROVE  AbsEntries'[i] = AbsEntries[i]
      OBVIOUS
    <3> DEFINE W(u) == pc[u] \in Writing /\ idx[u] = i
               W1(u) == pc'[u] \in Writing /\ idx'[u] = i
    <3>1. \A u \in Threads : W1(u) <=> W(u)
      BY <2>1, <2>2 DEF Writing
    <3>2. AbsEntries[i] = IF \E u \in Threads : W(u) THEN arg[CHOOSE u \in Threads : W(u)]
                          ELSE entries[i]
      BY <1>4 DEF AbsEntries
    <3>3. AbsEntries'[i] = IF \E u \in Threads : W1(u) THEN arg'[CHOOSE u \in Threads : W1(u)]
                           ELSE entries'[i]
      BY <1>4, <1>5 DEF AbsEntries
    <3> HIDE DEF W, W1
    <3>4. (CHOOSE u \in Threads : W1(u)) = CHOOSE u \in Threads : W(u)
      BY <3>1
    <3> QED
      BY <2>1, <3>1, <3>2, <3>3, <3>4
  <2>6. AbsEntries' = [AbsEntries EXCEPT ![idx[t]] = arg[t]]
    <3>1. \A i \in Slots : AbsEntries'[i] = [AbsEntries EXCEPT ![idx[t]] = arg[t]][i]
      BY <2>4, <2>5 DEF AbsEntries
    <3> DEFINE f == [AbsEntries EXCEPT ![idx[t]] = arg[t]]
    <3>2. DOMAIN f = Slots /\ f = [i \in Slots |-> f[i]]
      BY DEF AbsEntries
    <3>3. DOMAIN AbsEntries' = Slots /\ AbsEntries' = [i \in Slots |-> AbsEntries'[i]]
      BY <1>5 DEF AbsEntries
    <3> QED
      BY <3>1, <3>2, <3>3
  <2>7. AbsAnswer[t] = Abstract!InsertOf(arg[t].key, arg[t].val)
    BY <1>2, <1>7, <2>1, <2>2 DEF Writing
  <2>8. AbsAnswer' = [AbsAnswer EXCEPT ![t] = Abstract!Wrote(TRUE)]
    <3>1. AbsAnswer'[t] = Abstract!Wrote(TRUE)
      BY <1>7, <2>1, <2>2 DEF Writing, Wrote, Abstract!Wrote
    <3> QED
      BY <1>7, <2>1, <2>2, <3>1 DEF AbsAnswer
  <2>9. Abstract!Insert(t, arg[t].key, arg[t].val)
    BY <1>2, <1>3, <2>6, <2>7, <2>8 DEF Abstract!Insert, Abstract!Answer
  <2> QED
    BY <1>2, <2>9 DEF Abstract!Next
<1>11. CASE WriteKey(t) \/ WriteVal(t)
  <2>1. PICK step \in Writing : /\ Goto(t, step) /\ pc[t] \in Writing
                                /\ UNCHANGED <<arg, idx, answer>>
    BY <1>11 DEF WriteKey, WriteVal, Write, Writing
  <2>2. \A i \in Slots : i # idx[t] => entries'[i] = entries[i]
    BY <1>11 DEF WriteKey, WriteVal, Write, Inv, TypeOK
  <2>3. \A i \in Slots : Writers(i)' = Writers(i)
    BY <2>1 DEF Goto, Inv, TypeOK, Writers
  <2>4. AbsEntries' = AbsEntries
    <3> SUFFICES ASSUME NEW i \in Slots
                 PROVE  AbsEntries'[i] = AbsEntries[i]
      BY <1>3, AbsEntriesSame
    <3> DEFINE W(u) == pc[u] \in Writing /\ idx[u] = i
               W1(u) == pc'[u] \in Writing /\ idx'[u] = i
    <3>1. \A u \in Threads : W1(u) <=> W(u)
      BY <2>3 DEF Writers
    <3>2. AbsEntries[i] = IF \E u \in Threads : W(u) THEN arg[CHOOSE u \in Threads : W(u)]
                          ELSE entries[i]
      BY <1>4 DEF AbsEntries
    <3>3. AbsEntries'[i] = IF \E u \in Threads : W1(u) THEN arg'[CHOOSE u \in Threads : W1(u)]
                           ELSE entries'[i]
      BY <1>4, <1>5 DEF AbsEntries
    <3>4. i = idx[t] => W(t)
      BY <2>1
    <3> HIDE DEF W, W1
    <3>5. (CHOOSE u \in Threads : W1(u)) = CHOOSE u \in Threads : W(u)
      BY <3>1
    <3> QED
      BY <2>1, <2>2, <3>1, <3>2, <3>3, <3>4, <3>5
  <2>5. AbsAnswer' = AbsAnswer
    BY <1>7, <2>1, AbsAnswerSame DEF Goto, Inv, TypeOK
  <2> QED
    BY <1>3, <2>4, <2>5 DEF Abstract!cacheVars
<1>12. CASE Store(t)
  <2>1. EndTry(t, TRUE) /\ UNCHANGED entries /\ pc[t] = "store"
    BY <1>12 DEF Store, SetState
  <2>2. /\ Goto(t, "in")
        /\ arg' = [arg EXCEPT ![t] = Empty] /\ idx' = [idx EXCEPT ![t] = 0]
        /\ answer' = [answer EXCEPT ![t] = Wrote(TRUE)]
    BY <1>0, <2>1, EndTryEffect
  <2>3. /\ \A u \in Threads : u # t => /\ pc'[u] = pc[u] /\ answer'[u] = answer[u]
                                       /\ arg'[u] = arg[u] /\ idx'[u] = idx[u]
        /\ pc'[t] = "in" /\ answer'[t] = Wrote(TRUE)
    BY <2>2 DEF Goto, Inv, TypeOK
  <2>4. AbsAnswer' = AbsAnswer
    BY <1>7, <2>1, <2>3, AbsAnswerSame DEF Writing
  <2>5. AbsEntries' = AbsEntries
    <3> SUFFICES ASSUME NEW i \in Slots
                 PROVE  AbsEntries'[i] = AbsEntries[i]
      BY <1>3, AbsEntriesSame
    <3> DEFINE W(u) == pc[u] \in Writing /\ idx[u] = i
               W1(u) == pc'[u] \in Writing /\ idx'[u] = i
    <3>1. AbsEntries[i] = IF \E u \in Threads : W(u) THEN arg[CHOOSE u \in Threads : W(u)]
                          ELSE entries[i]
      BY <1>4 DEF AbsEntries
    <3>2. AbsEntries'[i] = IF \E u \in Threads : W1(u) THEN arg'[CHOOSE u \in Threads : W1(u)]
                           ELSE entries'[i]
      BY <1>4, <1>5 DEF AbsEntries
    <3>3. CASE i = idx[t]
      <4>1. \A u \in Threads : W(u) => u = t
        <5>1. t \in Writers(i)
          BY <2>1, <3>3 DEF Writers, Writing
        <5> QED
          BY <5>1 DEF Inv, CellAgrees, Writers
      <4>2. W(t) /\ \A u \in Threads : ~W1(u)
        BY <2>1, <2>3, <3>3, <4>1 DEF Writing
      <4>3. (CHOOSE u \in Threads : W(u)) = t
        BY <4>1, <4>2
      <4>4. entries[i] = arg[t]
        BY <2>1, <3>3 DEF Inv, EntriesAgree, HalfDone
      <4> HIDE DEF W, W1
      <4> QED
        BY <2>1, <3>1, <3>2, <4>2, <4>3, <4>4
    <3>4. CASE i # idx[t]
      <4>1. \A u \in Threads : W1(u) <=> W(u)
        BY <2>1, <2>3, <3>4 DEF Writing
      <4>2. ~W(t)
        BY <3>4
      <4> HIDE DEF W, W1
      <4>3. (CHOOSE u \in Threads : W1(u)) = CHOOSE u \in Threads : W(u)
        BY <4>1
      <4>4. (\E u \in Threads : W(u)) =>
              LET u == CHOOSE u \in Threads : W(u) IN u \in Threads /\ u # t
        BY <4>2
      <4> QED
        BY <2>1, <2>3, <3>1, <3>2, <4>1, <4>3, <4>4
    <3> QED
      BY <3>3, <3>4
  <2> QED
    BY <1>3, <2>4, <2>5 DEF Abstract!cacheVars
<1> QED
  BY <1>8, <1>9, <1>10, <1>11, <1>12 DEF TryLoad, TryCas

(* The cache as it is coded implements the atomic one, for every number of *)
(* threads, keys and entries: a lookup and an insertion act at one         *)
(* instant, on the key and the value they were called with, a lookup       *)
(* answers with the value written for its key or with none, an insertion   *)
(* is lost only to another operation, and no entry outlives a collection   *)
(* or a growth.                                                            *)
THEOREM Refinement == Spec => ImplementsOpCache
<1>1. Init => Abstract!Init
  BY InitRefines
<1>2. Inv /\ Inv' /\ [Next]_vars => [Abstract!Next]_Abstract!cacheVars
  <2> SUFFICES ASSUME Inv, Inv', [Next]_vars
               PROVE  [Abstract!Next]_Abstract!cacheVars
    OBVIOUS
  <2>1. CASE UNCHANGED vars
    <3>1. Slots' = Slots
      BY <2>1 DEF vars, cellVars, Slots
    <3>2. AbsEntries' = AbsEntries
      BY <2>1, <3>1 DEF vars, cellVars, lockVars, AbsEntries, Invalidating
    <3>3. AbsAnswer' = AbsAnswer
      BY <2>1 DEF vars, lockVars, AbsAnswer, Invalidating
    <3> QED
      BY <2>1, <3>2, <3>3 DEF vars, cellVars, lockVars, Abstract!cacheVars
  <2> QED
    BY <2>1, CallRefines, MaintainRefines, GetRefines, InvalidateRefines, InsertRefines
    DEF Next, Step
<1> QED
  BY <1>1, <1>2, Invariance, PTL DEF Spec, ImplementsOpCache, Abstract!Spec

=============================================================================
