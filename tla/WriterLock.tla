----------------------------- MODULE WriterLock -----------------------------
(***************************************************************************)
(* The lock of src/src/spin/rw_w_pre.rs, which the Manager takes for       *)
(* reading in every operation and for writing in gc and grow.              *)
(*                                                                         *)
(* The lock is one atomic word. Each load, compare-and-exchange, fetch_sub *)
(* and fetch_and of the code is one action, so that every interleaving of  *)
(* two threads inside read() and try_write() is a behaviour. An iteration  *)
(* that only spins changes nothing and is a stuttering step. A weak        *)
(* compare-and-exchange may fail although the word is the expected one.    *)
(*                                                                         *)
(* The word is a record of its three bit fields; the reader count has 62   *)
(* bits in the code and cannot wrap with fewer than 2^62 threads. A thread *)
(* holds at most one guard, as in the Manager.                             *)
(***************************************************************************)
EXTENDS Naturals, FiniteSets

CONSTANTS
  Threads,    \* the threads that share the lock
  NoThread    \* refinement only: the owner of a free writer slot

ASSUME ThreadsAssumption == IsFiniteSet(Threads) /\ NoThread \notin Threads

VARIABLES
  state,      \* the atomic word
  pc,         \* where each thread is in read() or try_write()
  seen        \* the local variable s of each thread: the last word it loaded

vars == <<state, pc, seen>>

Word == [readers : Nat, locked : BOOLEAN, pending : BOOLEAN]

Unlocked == [readers |-> 0, locked |-> FALSE, pending |-> FALSE]

Steps ==
  { "idle",                               \* holds no guard
    "read_load", "read_cas",              \* in the loop of read()
    "reading",                            \* holds a ReadGuard
    "try_load", "try_cas",                \* in the first loop of try_write()
    "wait_load", "wait_cas",              \* in the second loop of try_write()
    "writing" }                           \* holds a WriteGuard

Claiming == {"wait_load", "wait_cas"}

TypeOK ==
  /\ state \in Word
  /\ pc \in [Threads -> Steps]
  /\ seen \in [Threads -> Word]

Init ==
  /\ state = Unlocked
  /\ pc = [t \in Threads |-> "idle"]
  /\ seen = [t \in Threads |-> Unlocked]

-----------------------------------------------------------------------------
(* The tests and stores of the code on the word.                           *)

\* Mutation: a pending writer is not seen.
LockedOnly(s) == s.locked

HasWriter(s) == s.locked \/ s.pending

\* Mutation: the writer does not wait for the readers.
AnyReaders(s) == TRUE

NoReaders(s) == s.readers = 0

AddReader(s) == [s EXCEPT !.readers = @ + 1]

\* Mutation: a dropped guard takes away two readers.
SubTwo(s) == [s EXCEPT !.readers = @ - 2]

SubReader(s) == [s EXCEPT !.readers = @ - 1]

SetPending(s) == [s EXCEPT !.pending = TRUE]

PendingToLocked(s) == [s EXCEPT !.pending = FALSE, !.locked = TRUE]

\* Mutation: the pending bit comes back when the guard is dropped.
KeepPending(s) == [s EXCEPT !.locked = FALSE, !.pending = @ \/ s.locked]

ClearWriter(s) == [s EXCEPT !.locked = FALSE, !.pending = FALSE]

Goto(t, step) == pc' = [pc EXCEPT ![t] = step]

\* s is assigned, or goes out of scope.
See(t, s) == seen' = [seen EXCEPT ![t] = s]
Forget(t) == See(t, Unlocked)

-----------------------------------------------------------------------------
(* read() and the drop of a ReadGuard.                                     *)

CallRead(t) ==
  /\ pc[t] = "idle"
  /\ Goto(t, "read_load")
  /\ UNCHANGED <<state, seen>>

\* A load that sees a writer spins.
ReadLoad(t) ==
  /\ pc[t] = "read_load"
  /\ ~HasWriter(state)
  /\ See(t, state)
  /\ Goto(t, "read_cas")
  /\ UNCHANGED state

ReadCasOk(t) ==
  /\ pc[t] = "read_cas"
  /\ state = seen[t]
  /\ state' = AddReader(state)
  /\ Forget(t)
  /\ Goto(t, "reading")

\* The exchange fails, rightly or spuriously, and the loop starts over.
ReadCasFail(t) ==
  /\ pc[t] = "read_cas"
  /\ Forget(t)
  /\ Goto(t, "read_load")
  /\ UNCHANGED state

DropRead(t) ==
  /\ pc[t] = "reading"
  /\ state' = SubReader(state)
  /\ Goto(t, "idle")
  /\ UNCHANGED seen

-----------------------------------------------------------------------------
(* try_write() and the drop of a WriteGuard.                               *)

CallTryWrite(t) ==
  /\ pc[t] = "idle"
  /\ Goto(t, "try_load")
  /\ UNCHANGED <<state, seen>>

\* The test at the head of the first loop, on the word just obtained: a
\* writer makes try_write() return None, otherwise the exchange is tried.
TestForWriter(t) ==
  IF HasWriter(state)
  THEN Forget(t) /\ Goto(t, "idle")
  ELSE See(t, state) /\ Goto(t, "try_cas")

TryLoad(t) ==
  /\ pc[t] = "try_load"
  /\ TestForWriter(t)
  /\ UNCHANGED state

TryCasOk(t) ==
  /\ pc[t] = "try_cas"
  /\ state = seen[t]
  /\ state' = SetPending(state)
  /\ Forget(t)
  /\ Goto(t, "wait_load")

\* A failed exchange, right or spurious, yields the current word.
TryCasFail(t) ==
  /\ pc[t] = "try_cas"
  /\ TestForWriter(t)
  /\ UNCHANGED state

\* A load that sees readers spins.
WaitLoad(t) ==
  /\ pc[t] = "wait_load"
  /\ NoReaders(state)
  /\ See(t, state)
  /\ Goto(t, "wait_cas")
  /\ UNCHANGED state

WaitCasOk(t) ==
  /\ pc[t] = "wait_cas"
  /\ state = seen[t]
  /\ state' = PendingToLocked(state)
  /\ Forget(t)
  /\ Goto(t, "writing")

WaitCasFail(t) ==
  /\ pc[t] = "wait_cas"
  /\ Forget(t)
  /\ Goto(t, "wait_load")
  /\ UNCHANGED state

DropWrite(t) ==
  /\ pc[t] = "writing"
  /\ state' = ClearWriter(state)
  /\ Goto(t, "idle")
  /\ UNCHANGED seen

-----------------------------------------------------------------------------

Read(t) ==
  \/ CallRead(t)
  \/ ReadLoad(t)
  \/ ReadCasOk(t)
  \/ ReadCasFail(t)
  \/ DropRead(t)

TryWrite(t) ==
  \/ CallTryWrite(t)
  \/ TryLoad(t)
  \/ TryCasOk(t)
  \/ TryCasFail(t)
  \/ WaitLoad(t)
  \/ WaitCasOk(t)
  \/ WaitCasFail(t)
  \/ DropWrite(t)

Next == \E t \in Threads : Read(t) \/ TryWrite(t)

SafeSpec == Init /\ [][Next]_vars

\* A started thread keeps running and drops its guards. A weak exchange does
\* not fail spuriously for ever: an owner of the slot that reaches its
\* exchange again and again executes it with the right word in the end.
Fairness ==
  \A t \in Threads :
    /\ WF_vars(DropRead(t))
    /\ WF_vars(WaitLoad(t))
    /\ SF_vars(WaitCasOk(t))
    /\ WF_vars(DropWrite(t))

Spec == SafeSpec /\ Fairness

-----------------------------------------------------------------------------
(* Properties.                                                             *)

Reading == {t \in Threads : pc[t] = "reading"}

InSlot(t) == pc[t] \in Claiming \union {"writing"}

\* While one thread mutates under a WriteGuard no other thread holds a guard
\* of either kind (the safety comments of both guards' deref in rw_w_pre.rs).
MutualExclusion ==
  \A t, u \in Threads :
    pc[t] = "writing" /\ u # t => pc[u] \notin {"reading", "writing"}

\* The word counts the read guards that exist, and its bits are set exactly
\* while a thread waits in, or has passed, the second loop of try_write():
\* no failed or repeated exchange loses or forges a reader or a writer.
WordAgrees ==
  /\ state.readers = Cardinality(Reading)
  /\ state.pending <=> \E t \in Threads : pc[t] \in Claiming
  /\ state.locked <=> \E t \in Threads : pc[t] = "writing"
  /\ \A t, u \in Threads : InSlot(t) /\ InSlot(u) => t = u

\* Writer preference: no thread obtains a read guard while another one waits
\* for the readers to leave, whatever word it had loaded before.
NoReaderPassesClaim ==
  [][\A t \in Threads :
       (\E u \in Threads : InSlot(u)) /\ pc'[t] = "reading"
         => pc[t] = "reading"]_vars

\* The thread that took the slot gets its WriteGuard: the readers present
\* leave and none is let in.
ClaimBecomesWrite ==
  \A t \in Threads : pc[t] \in Claiming ~> pc[t] = "writing"

\* The lock does what RwLock says, step by step and under its fairness.
Owner ==
  IF \E t \in Threads : InSlot(t)
  THEN CHOOSE t \in Threads : InSlot(t)
  ELSE NoThread

Abstract == INSTANCE RwLock WITH
  readers <- Reading,
  slot    <- Owner,
  writing <- \E t \in Threads : pc[t] = "writing"

ImplementsRwLock == Abstract!Spec

=============================================================================
