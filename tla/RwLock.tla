------------------------------- MODULE RwLock -------------------------------
(***************************************************************************)
(* What the writer-preferring lock of src/src/spin/rw_w_pre.rs promises to *)
(* the Manager that uses it: read guards are shared, one thread at a time  *)
(* owns the writer slot, the owner starts to write once the readers it     *)
(* found are gone, and nobody starts to read while the slot is owned.      *)
(*                                                                         *)
(* Every acquisition is one step here. WriterLock is the lock as it is     *)
(* coded, one atomic access at a time, and implements this module;         *)
(* BddManager composes the manager with this module.                       *)
(***************************************************************************)
CONSTANTS
  Threads,    \* the threads that share the lock
  NoThread    \* the owner of a free writer slot, not a thread

VARIABLES
  readers,    \* the threads that hold a read guard
  slot,       \* the thread that owns the writer slot
  writing     \* whether the owner of the slot holds a write guard

lockVars == <<readers, slot, writing>>

TypeOK ==
  /\ readers \in SUBSET Threads
  /\ slot \in Threads \union {NoThread}
  /\ writing \in BOOLEAN

Init ==
  /\ readers = {}
  /\ slot = NoThread
  /\ writing = FALSE

-----------------------------------------------------------------------------

Holds(t) == t \in readers \/ slot = t

\* read() returns.
AcquireRead(t) ==
  /\ ~Holds(t)
  /\ slot = NoThread
  /\ readers' = readers \union {t}
  /\ UNCHANGED <<slot, writing>>

\* The ReadGuard is dropped.
ReleaseRead(t) ==
  /\ t \in readers
  /\ readers' = readers \ {t}
  /\ UNCHANGED <<slot, writing>>

\* try_write() takes the writer slot; from now on no reader enters.
Claim(t) ==
  /\ ~Holds(t)
  /\ slot = NoThread
  /\ slot' = t
  /\ UNCHANGED <<readers, writing>>

\* try_write() returns a guard: the readers have drained.
EnterWrite(t) ==
  /\ slot = t
  /\ ~writing
  /\ readers = {}
  /\ writing' = TRUE
  /\ UNCHANGED <<readers, slot>>

\* The WriteGuard is dropped.
ReleaseWrite(t) ==
  /\ slot = t
  /\ writing
  /\ slot' = NoThread
  /\ writing' = FALSE
  /\ UNCHANGED readers

Next ==
  \E t \in Threads :
    \/ AcquireRead(t)
    \/ ReleaseRead(t)
    \/ Claim(t)
    \/ EnterWrite(t)
    \/ ReleaseWrite(t)

\* A guard is dropped at the end of a bounded computation, and the owner of
\* the slot spins until it may write.
Fairness ==
  \A t \in Threads :
    /\ WF_lockVars(ReleaseRead(t))
    /\ WF_lockVars(EnterWrite(t))
    /\ WF_lockVars(ReleaseWrite(t))

SafeSpec == Init /\ [][Next]_lockVars

Spec == SafeSpec /\ Fairness

-----------------------------------------------------------------------------

\* A write guard excludes every read guard.
WriterExcludesReaders == writing => slot \in Threads /\ readers = {}

\* The owner of the slot gets to write.
ClaimIsServed == \A t \in Threads : slot = t ~> (slot = t /\ writing)

=============================================================================
