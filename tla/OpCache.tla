------------------------------- MODULE OpCache --------------------------------
(***************************************************************************)
(* What a cache of src/src/cache.rs promises to the operations of the      *)
(* Manager, and what BddManager takes it for: a lookup and an insertion    *)
(* act at one instant, on the key they were called with; an insertion is   *)
(* lost only when another operation is under way; a collection or a        *)
(* growth, which has the cache to itself, empties it at once.              *)
(*                                                                         *)
(* LockFreeCache is the cache as it is coded and implements this module.   *)
(***************************************************************************)
EXTENDS Naturals

CONSTANTS
  Threads,      \* the threads that share the cache
  Keys,         \* the operands of operations
  NoKey,        \* the key of an empty entry
  Values,       \* the results of operations
  NoValue,      \* the value of an empty entry, the answer to a miss
  Hash(_),      \* the hash of a key
  InitSlots     \* the number of entries at first

VARIABLES
  slots,        \* the number of entries
  entries,      \* the entries
  using,        \* the threads inside an operation
  answer        \* what each thread's call asks for, then what it returned

cacheVars == <<slots, entries, using, answer>>

GetOf(k) == [type |-> "get", key |-> k]
InsertOf(k, v) == [type |-> "insert", key |-> k, val |-> v]
Got(v) == [type |-> "got", val |-> v]
Wrote(b) == [type |-> "wrote", done |-> b]

Empty == [key |-> NoKey, val |-> NoValue]

EmptyCache(n) == [i \in 0 .. n - 1 |-> Empty]

Index(k) == Hash(k) % slots

Init ==
  /\ slots = InitSlots
  /\ entries = EmptyCache(InitSlots)
  /\ using = {}
  /\ answer = [t \in Threads |-> Got(NoValue)]

Returned(t) == answer[t].type \in {"got", "wrote"}

\* An operation begins or ends.
Join(t) == using' = using \union {t} /\ UNCHANGED <<slots, entries, answer>>

Leave(t) ==
  /\ Returned(t)
  /\ using' = using \ {t}
  /\ UNCHANGED <<slots, entries, answer>>

Answer(t, a) == answer' = [answer EXCEPT ![t] = a] /\ UNCHANGED <<slots, using>>

\* A call keeps the key, and the value to write, until it is answered.
Call(t, call) == t \in using /\ Returned(t) /\ Answer(t, call) /\ UNCHANGED entries

CallGet(t, k) == Call(t, GetOf(k))

CallInsert(t, k, v) == Call(t, InsertOf(k, v))

Get(t, k) ==
  /\ answer[t] = GetOf(k)
  /\ LET entry == entries[Index(k)]
     IN  Answer(t, Got(IF entry.key = k THEN entry.val ELSE NoValue))
  /\ UNCHANGED entries

Insert(t, k, v) ==
  /\ answer[t] = InsertOf(k, v)
  /\ \/ /\ entries' = [entries EXCEPT ![Index(k)] = [key |-> k, val |-> v]]
        /\ Answer(t, Wrote(TRUE))
     \/ /\ using # {t}
        /\ UNCHANGED entries
        /\ Answer(t, Wrote(FALSE))

\* invalidate_all, or grow.
Clear ==
  /\ using = {}
  /\ slots' \in {slots, 2 * slots}
  /\ entries' = EmptyCache(slots')
  /\ UNCHANGED <<using, answer>>

Next ==
  \/ \E t \in Threads :
       \/ Join(t) \/ Leave(t)
       \/ \E k \in Keys : CallGet(t, k) \/ Get(t, k)
       \/ \E k \in Keys, v \in Values : CallInsert(t, k, v) \/ Insert(t, k, v)
  \/ Clear

Spec == Init /\ [][Next]_cacheVars

=============================================================================
