-------------------------- MODULE WriterLockProofs --------------------------
(***************************************************************************)
(* Proofs about WriterLock for every finite set of threads: the word of    *)
(* the lock agrees with the guards that exist, a writer is alone, no       *)
(* reader passes a claimed slot, and every step of the lock is a step of   *)
(* RwLock or leaves its variables alone.                                   *)
(***************************************************************************)
EXTENDS WriterLock, FiniteSetTheorems, TLAPS

(* A word that an exchange is about to compare passed the test that        *)
(* follows its load.                                                       *)
SeenTested ==
  \A t \in Threads :
    /\ pc[t] \in {"read_cas", "try_cas"} => ~HasWriter(seen[t])
    /\ pc[t] = "wait_cas" => NoReaders(seen[t])

(* The locked bit is only ever set over a reader count of zero.            *)
LockedOverZero == state.locked => NoReaders(state)

Inv == TypeOK /\ WordAgrees /\ SeenTested /\ LockedOverZero

(* The set of readers is finite, and counts as sets of threads do.         *)
LEMMA ReadingFinite ==
  ASSUME TypeOK
  PROVE  /\ Reading \in SUBSET Threads
         /\ IsFiniteSet(Reading)
         /\ Cardinality(Reading) \in Nat
         /\ Cardinality(Reading) = 0 <=> Reading = {}
<1>1. Reading \in SUBSET Threads
  BY DEF Reading
<1>2. IsFiniteSet(Reading)
  BY <1>1, ThreadsAssumption, FS_Subset
<1> QED
  BY <1>1, <1>2, FS_CardinalityType, FS_EmptySet

(* A step that moves one thread between two places outside "reading"       *)
(* leaves the readers as they are.                                         *)
LEMMA ReadingSame ==
  ASSUME TypeOK, NEW t \in Threads, NEW step \in Steps, Goto(t, step),
         pc[t] # "reading", step # "reading"
  PROVE  Reading' = Reading
BY DEF Reading, Goto, TypeOK

LEMMA InitInv == Init => Inv
<1> SUFFICES ASSUME Init PROVE Inv
  OBVIOUS
<1>1. TypeOK
  BY DEF Init, TypeOK, Word, Unlocked, Steps
<1>2. Reading = {}
  BY DEF Init, Reading
<1>3. WordAgrees
  BY <1>2, FS_EmptySet DEF Init, WordAgrees, Unlocked, InSlot, Claiming
<1> QED
  BY <1>1, <1>3 DEF Inv, Init, SeenTested, LockedOverZero, Unlocked, NoReaders

LEMMA ReadStep ==
  ASSUME Inv, NEW t \in Threads, Read(t)
  PROVE  Inv'
<1> USE DEF Inv, TypeOK, Word, Steps
<1>f. Cardinality(Reading) \in Nat /\ IsFiniteSet(Reading)
  BY ReadingFinite
<1>1. CASE CallRead(t)
  <2>1. Reading' = Reading
    BY <1>1, ReadingSame DEF CallRead
  <2> QED
    BY <1>1, <2>1 DEF CallRead, Goto, WordAgrees, SeenTested, LockedOverZero,
                      InSlot, Claiming
<1>2. CASE ReadLoad(t)
  <2>1. Reading' = Reading
    BY <1>2, ReadingSame DEF ReadLoad
  <2> QED
    BY <1>2, <2>1 DEF ReadLoad, See, Goto, WordAgrees, SeenTested,
                      LockedOverZero, InSlot, Claiming
<1>3. CASE ReadCasOk(t)
  <2>1. Reading' = Reading \union {t} /\ t \notin Reading
    BY <1>3 DEF ReadCasOk, Goto, Reading
  <2>2. Cardinality(Reading') = Cardinality(Reading) + 1
    BY <2>1, <1>f, FS_AddElement
  <2>3. TypeOK'
    BY <1>3 DEF ReadCasOk, AddReader, Forget, See, Goto, Unlocked
  <2>4. ~state.locked
    BY <1>3 DEF ReadCasOk, SeenTested, HasWriter
  <2>5. WordAgrees'
    BY <1>3, <2>2 DEF ReadCasOk, AddReader, Goto, WordAgrees, InSlot, Claiming
  <2>6. SeenTested' /\ LockedOverZero'
    BY <1>3, <2>4 DEF ReadCasOk, AddReader, Forget, See, Goto, SeenTested,
                      LockedOverZero
  <2> QED
    BY <2>3, <2>5, <2>6
<1>4. CASE ReadCasFail(t)
  <2>1. Reading' = Reading
    BY <1>4, ReadingSame DEF ReadCasFail
  <2> QED
    BY <1>4, <2>1 DEF ReadCasFail, Forget, See, Goto, Unlocked, WordAgrees,
                      SeenTested, LockedOverZero, InSlot, Claiming
<1>5. CASE DropRead(t)
  <2>1. Reading' = Reading \ {t} /\ t \in Reading
    BY <1>5 DEF DropRead, Goto, Reading
  <2>2. Cardinality(Reading') = Cardinality(Reading) - 1
    BY <2>1, <1>f, FS_RemoveElement
  <2>3. Cardinality(Reading) # 0
    BY <2>1, ReadingFinite
  <2>a. state.readers \in Nat /\ state.readers # 0
    BY <2>3 DEF WordAgrees
  <2>b. state.readers - 1 \in Nat
    BY <2>a
  <2>4. TypeOK'
    BY <1>5, <2>b DEF DropRead, SubReader, Goto
  <2>5. ~state.locked
    BY <2>3 DEF LockedOverZero, NoReaders, WordAgrees
  <2>6. WordAgrees'
    BY <1>5, <2>2 DEF DropRead, SubReader, Goto, WordAgrees, InSlot, Claiming
  <2>7. SeenTested' /\ LockedOverZero'
    BY <1>5, <2>5 DEF DropRead, SubReader, Goto, SeenTested, LockedOverZero
  <2> QED
    BY <2>4, <2>6, <2>7
<1> QED
  BY <1>1, <1>2, <1>3, <1>4, <1>5 DEF Read

LEMMA TryWriteStep ==
  ASSUME Inv, NEW t \in Threads, TryWrite(t)
  PROVE  Inv'
<1> USE DEF Inv, TypeOK, Word, Steps
<1>1. CASE CallTryWrite(t)
  <2>1. Reading' = Reading
    BY <1>1, ReadingSame DEF CallTryWrite
  <2> QED
    BY <1>1, <2>1 DEF CallTryWrite, Goto, WordAgrees, SeenTested,
                      LockedOverZero, InSlot, Claiming
<1>2. ASSUME pc[t] \in {"try_load", "try_cas"}, TestForWriter(t),
             UNCHANGED state
      PROVE  Inv'
  <2>1. Reading' = Reading
    BY <1>2, ReadingSame DEF TestForWriter
  <2>2. TypeOK' /\ SeenTested'
    <3>1. CASE HasWriter(state)
      <4>1. Forget(t) /\ Goto(t, "idle")
        BY <1>2, <3>1 DEF TestForWriter
      <4> QED
        BY <1>2, <4>1 DEF Forget, See, Goto, Unlocked, SeenTested
    <3>2. CASE ~HasWriter(state)
      BY <1>2, <3>2 DEF TestForWriter, See, Goto, SeenTested
    <3> QED
      BY <3>1, <3>2
  <2>6. LockedOverZero'
    BY <1>2 DEF LockedOverZero
  <2>3. PICK step \in {"idle", "try_cas"} : Goto(t, step)
    BY <1>2 DEF TestForWriter
  <2>4. \A u \in Threads : /\ pc'[u] \in Claiming <=> pc[u] \in Claiming
                           /\ pc'[u] = "writing" <=> pc[u] = "writing"
    BY <1>2, <2>3 DEF Goto, Claiming
  <2>5. WordAgrees'
    BY <1>2, <2>1, <2>4 DEF WordAgrees, InSlot
  <2> QED
    BY <2>2, <2>5, <2>6
<1>3. CASE TryCasOk(t)
  <2>1. Reading' = Reading
    BY <1>3, ReadingSame DEF TryCasOk
  <2>2. ~state.locked /\ ~state.pending
    BY <1>3 DEF TryCasOk, SeenTested, HasWriter
  <2>3. TypeOK' /\ SeenTested' /\ LockedOverZero'
    BY <1>3, <2>2 DEF TryCasOk, SetPending, Forget, See, Goto, Unlocked,
                      SeenTested, LockedOverZero
  <2>4. WordAgrees'
    BY <1>3, <2>1, <2>2 DEF TryCasOk, SetPending, Goto, WordAgrees, InSlot,
                            Claiming
  <2> QED
    BY <2>3, <2>4
<1>4. CASE WaitLoad(t)
  <2>1. Reading' = Reading
    BY <1>4, ReadingSame DEF WaitLoad
  <2> QED
    BY <1>4, <2>1 DEF WaitLoad, See, Goto, WordAgrees, SeenTested,
                      LockedOverZero, InSlot, Claiming
<1>5. CASE WaitCasOk(t)
  <2>1. Reading' = Reading
    BY <1>5, ReadingSame DEF WaitCasOk
  <2>2. NoReaders(state)
    BY <1>5 DEF WaitCasOk, SeenTested
  <2>3. TypeOK' /\ SeenTested' /\ LockedOverZero'
    BY <1>5, <2>2 DEF WaitCasOk, PendingToLocked, Forget, See, Goto, Unlocked,
                      SeenTested, LockedOverZero, NoReaders
  <2>4. WordAgrees'
    BY <1>5, <2>1 DEF WaitCasOk, PendingToLocked, Goto, WordAgrees, InSlot,
                      Claiming
  <2> QED
    BY <2>3, <2>4
<1>6. CASE WaitCasFail(t)
  <2>1. Reading' = Reading
    BY <1>6, ReadingSame DEF WaitCasFail
  <2> QED
    BY <1>6, <2>1 DEF WaitCasFail, Forget, See, Goto, Unlocked, WordAgrees,
                      SeenTested, LockedOverZero, InSlot, Claiming
<1>7. CASE DropWrite(t)
  <2>1. Reading' = Reading
    BY <1>7, ReadingSame DEF DropWrite
  <2>2. TypeOK' /\ SeenTested' /\ LockedOverZero'
    BY <1>7 DEF DropWrite, ClearWriter, Goto, SeenTested, LockedOverZero
  <2>3. WordAgrees'
    BY <1>7, <2>1 DEF DropWrite, ClearWriter, Goto, WordAgrees, InSlot,
                      Claiming
  <2> QED
    BY <2>2, <2>3
<1> QED
  BY <1>1, <1>2, <1>3, <1>4, <1>5, <1>6, <1>7
  DEF TryWrite, TryLoad, TryCasFail

(* The inductive invariant holds in every reachable state.                 *)
THEOREM Invariance == SafeSpec => []Inv
<1>1. Inv /\ [Next]_vars => Inv'
  <2>1. CASE UNCHANGED vars
    BY <2>1 DEF vars, Inv, TypeOK, WordAgrees, SeenTested, LockedOverZero,
                Reading, InSlot
  <2> QED
    BY <2>1, ReadStep, TryWriteStep DEF Next
<1> QED
  BY <1>1, InitInv, PTL DEF SafeSpec

(* The word and the locals of every thread keep their types; in particular *)
(* a dropped read guard never takes the count below zero.                  *)
THEOREM TypeCorrect == SafeSpec => []TypeOK
<1>1. Inv => TypeOK
  BY DEF Inv
<1> QED
  BY <1>1, Invariance, PTL

(* The word always agrees with the guards and claims that exist.           *)
THEOREM WordAgreement == SafeSpec => []WordAgrees
<1>1. Inv => WordAgrees
  BY DEF Inv
<1> QED
  BY <1>1, Invariance, PTL

(* A thread that writes is alone: what makes the deref_mut of a WriteGuard *)
(* and the single-threaded code of gc and grow sound.                      *)
THEOREM Exclusion == SafeSpec => []MutualExclusion
<1>1. Inv => MutualExclusion
  <2> SUFFICES ASSUME Inv, NEW t \in Threads, NEW u \in Threads,
                      pc[t] = "writing", u # t
               PROVE  pc[u] \notin {"reading", "writing"}
    BY DEF MutualExclusion
  <2>1. pc[u] # "writing"
    BY DEF Inv, WordAgrees, InSlot
  <2>2. Cardinality(Reading) = 0
    BY DEF Inv, WordAgrees, LockedOverZero, NoReaders
  <2>3. Reading = {}
    BY <2>2, ReadingFinite DEF Inv
  <2> QED
    BY <2>1, <2>3 DEF Reading
<1> QED
  BY <1>1, Invariance, PTL

(* No step gives a thread a read guard while the writer slot is taken.     *)
THEOREM Preference == SafeSpec => NoReaderPassesClaim
<1>1. ASSUME Inv, [Next]_vars
      PROVE  [\A t \in Threads :
                (\E u \in Threads : InSlot(u)) /\ pc'[t] = "reading"
                  => pc[t] = "reading"]_vars
  <2> SUFFICES ASSUME Next, NEW t \in Threads, NEW u \in Threads, InSlot(u),
                      pc'[t] = "reading", pc[t] # "reading"
               PROVE  FALSE
    BY <1>1
  <2>1. ReadCasOk(t)
    BY <1>1 DEF Inv, TypeOK, Next, Read, TryWrite, CallRead, ReadLoad,
                ReadCasOk, ReadCasFail, DropRead, CallTryWrite, TryLoad,
                TryCasOk, TryCasFail, WaitLoad, WaitCasOk, WaitCasFail,
                DropWrite, TestForWriter, Goto
  <2>2. ~HasWriter(state)
    BY <1>1, <2>1 DEF ReadCasOk, Inv, SeenTested
  <2>3. HasWriter(state)
    BY <1>1 DEF Inv, WordAgrees, InSlot, HasWriter
  <2> QED
    BY <2>2, <2>3
<1> QED
  BY <1>1, Invariance, PTL DEF SafeSpec, NoReaderPassesClaim

-----------------------------------------------------------------------------
(* Refinement of RwLock.                                                   *)

(* The thread in the slot is the only one, so Owner names it.              *)
LEMMA OwnerIs ==
  ASSUME WordAgrees, NEW t \in Threads, InSlot(t)
  PROVE  Owner = t
<1>1. \A u \in Threads : InSlot(u) => u = t
  BY DEF WordAgrees
<1>2. Owner = CHOOSE u \in Threads : InSlot(u)
  BY DEF Owner
<1> QED
  BY <1>1, <1>2

LEMMA OwnerNone ==
  ASSUME \A t \in Threads : ~InSlot(t)
  PROVE  Owner = NoThread
BY DEF Owner

(* A step that moves no thread into or out of the slot keeps the owner.    *)
LEMMA OwnerSame ==
  ASSUME \A t \in Threads : InSlot(t)' <=> InSlot(t)
  PROVE  Owner' = Owner
<1>1. CASE \E t \in Threads : InSlot(t)
  <2>1. Owner = CHOOSE t \in Threads : InSlot(t)
    BY <1>1 DEF Owner
  <2>2. Owner' = CHOOSE t \in Threads : InSlot(t)'
    BY <1>1 DEF Owner
  <2>3. (CHOOSE t \in Threads : InSlot(t)) = (CHOOSE t \in Threads : InSlot(t)')
    OBVIOUS
  <2> QED
    BY <2>1, <2>2, <2>3
<1>2. CASE \A t \in Threads : ~InSlot(t)
  BY <1>2 DEF Owner
<1> QED
  BY <1>1, <1>2

(* A step of a thread that neither takes nor gives up a guard or the slot. *)
LEMMA Silent ==
  ASSUME TypeOK, NEW t \in Threads, NEW from \in Steps, NEW to \in Steps,
         pc[t] = from, Goto(t, to),
         from \notin {"reading", "writing"}, to \notin {"reading", "writing"},
         from \in Claiming <=> to \in Claiming
  PROVE  UNCHANGED Abstract!lockVars
<1>1. Reading' = Reading
  BY ReadingSame
<1>2. \A u \in Threads : /\ InSlot(u)' <=> InSlot(u)
                         /\ pc'[u] = "writing" <=> pc[u] = "writing"
  BY DEF InSlot, Goto, TypeOK
<1> QED
  BY <1>1, <1>2, OwnerSame DEF Abstract!lockVars

LEMMA ReadRefines ==
  ASSUME Inv, Inv', NEW t \in Threads, Read(t)
  PROVE  [Abstract!Next]_(Abstract!lockVars)
<1> USE DEF Inv
<1>1. CASE CallRead(t) \/ ReadLoad(t) \/ ReadCasFail(t)
  <2>1. PICK from \in {"idle", "read_load", "read_cas"},
             to \in {"read_load", "read_cas"} : pc[t] = from /\ Goto(t, to)
    BY <1>1 DEF CallRead, ReadLoad, ReadCasFail
  <2>2. UNCHANGED Abstract!lockVars
    BY <2>1, Silent DEF Steps, Claiming
  <2> QED
    BY <2>2
<1>2. CASE ReadCasOk(t)
  <2>1. ~state.pending /\ ~state.locked
    BY <1>2 DEF ReadCasOk, SeenTested, HasWriter
  <2>2. \A u \in Threads : ~InSlot(u) /\ ~InSlot(u)'
    BY <1>2, <2>1 DEF ReadCasOk, Goto, WordAgrees, InSlot, Claiming, TypeOK
  <2>3. Owner = NoThread /\ Owner' = NoThread
    BY <2>2, OwnerNone DEF Owner
  <2>4. Reading' = Reading \union {t} /\ t \notin Reading
    BY <1>2 DEF ReadCasOk, Goto, Reading, TypeOK
  <2>5. \A u \in Threads : pc[u] # "writing" /\ pc'[u] # "writing"
    BY <2>2 DEF InSlot
  <2>6. t # NoThread
    BY ThreadsAssumption
  <2>7. Abstract!AcquireRead(t)
    BY <2>3, <2>4, <2>5, <2>6 DEF Abstract!AcquireRead, Abstract!Holds
  <2> QED
    BY <2>7 DEF Abstract!Next
<1>3. CASE DropRead(t)
  <2>1. Reading' = Reading \ {t} /\ t \in Reading
    BY <1>3 DEF DropRead, Goto, Reading, TypeOK
  <2>2. \A u \in Threads : /\ InSlot(u)' <=> InSlot(u)
                           /\ pc'[u] = "writing" <=> pc[u] = "writing"
    BY <1>3 DEF DropRead, Goto, InSlot, Claiming, TypeOK
  <2>3. Owner' = Owner
    BY <2>2, OwnerSame
  <2>4. Abstract!ReleaseRead(t)
    BY <2>1, <2>2, <2>3 DEF Abstract!ReleaseRead
  <2> QED
    BY <2>4 DEF Abstract!Next
<1> QED
  BY <1>1, <1>2, <1>3 DEF Read

LEMMA TryWriteRefines ==
  ASSUME Inv, Inv', NEW t \in Threads, TryWrite(t)
  PROVE  [Abstract!Next]_(Abstract!lockVars)
<1> USE DEF Inv
<1>1. CASE CallTryWrite(t) \/ TryLoad(t) \/ TryCasFail(t)
  <2>1. PICK from \in {"idle", "try_load", "try_cas"},
             to \in {"idle", "try_load", "try_cas"} :
               pc[t] = from /\ Goto(t, to)
    BY <1>1 DEF CallTryWrite, TryLoad, TryCasFail, TestForWriter
  <2>2. UNCHANGED Abstract!lockVars
    BY <2>1, Silent DEF Steps, Claiming
  <2> QED
    BY <2>2
<1>2. CASE WaitLoad(t) \/ WaitCasFail(t)
  <2>1. PICK from \in Claiming, to \in Claiming : pc[t] = from /\ Goto(t, to)
    BY <1>2 DEF WaitLoad, WaitCasFail, Claiming
  <2>2. UNCHANGED Abstract!lockVars
    BY <2>1, Silent DEF Steps, Claiming
  <2> QED
    BY <2>2
<1>3. CASE TryCasOk(t)
  <2>1. ~state.pending /\ ~state.locked
    BY <1>3 DEF TryCasOk, SeenTested, HasWriter
  <2>2. \A u \in Threads : ~InSlot(u)
    BY <2>1 DEF WordAgrees, InSlot
  <2>3. Owner = NoThread
    BY <2>2, OwnerNone
  <2>4. InSlot(t)' /\ pc'[t] # "writing"
    BY <1>3 DEF TryCasOk, Goto, InSlot, Claiming, TypeOK
  <2>5. Owner' = t
    <3>1. \A u \in Threads : InSlot(u)' <=> u = t
      BY <2>4 DEF WordAgrees
    <3>2. Owner' = CHOOSE u \in Threads : InSlot(u)'
      BY <2>4 DEF Owner
    <3> QED
      BY <3>1, <3>2
  <2>6. Reading' = Reading /\ t \notin Reading
    BY <1>3, ReadingSame DEF TryCasOk, Steps, Reading
  <2>7. \A u \in Threads : pc[u] # "writing" /\ pc'[u] # "writing"
    BY <1>3, <2>2, <2>4 DEF InSlot, TryCasOk, Goto, TypeOK
  <2>8. t # NoThread
    BY ThreadsAssumption
  <2>9. Abstract!Claim(t)
    BY <2>3, <2>5, <2>6, <2>7, <2>8 DEF Abstract!Claim, Abstract!Holds
  <2> QED
    BY <2>9 DEF Abstract!Next
<1>4. CASE WaitCasOk(t)
  <2>1. InSlot(t) /\ InSlot(t)'
    BY <1>4 DEF WaitCasOk, Goto, InSlot, Claiming, TypeOK
  <2>2. Owner = t /\ \A u \in Threads : InSlot(u) <=> u = t
    BY <2>1, OwnerIs DEF WordAgrees
  <2>3. \A u \in Threads : InSlot(u)' <=> InSlot(u)
    BY <1>4, <2>1 DEF WaitCasOk, Goto, InSlot, TypeOK
  <2>4. Owner' = Owner
    BY <2>3, OwnerSame
  <2>5. Cardinality(Reading) = 0
    BY <1>4 DEF WaitCasOk, SeenTested, NoReaders, WordAgrees
  <2>6. Reading = {} /\ Reading' = Reading
    BY <1>4, <2>5, ReadingFinite, ReadingSame DEF WaitCasOk, Steps
  <2>7. \A u \in Threads : pc[u] # "writing"
    BY <1>4, <2>2 DEF WaitCasOk, InSlot
  <2>8. pc'[t] = "writing"
    BY <1>4 DEF WaitCasOk, Goto, TypeOK
  <2>9. Abstract!EnterWrite(t)
    BY <2>2, <2>4, <2>6, <2>7, <2>8 DEF Abstract!EnterWrite
  <2> QED
    BY <2>9 DEF Abstract!Next
<1>5. CASE DropWrite(t)
  <2>1. InSlot(t) /\ pc[t] = "writing"
    BY <1>5 DEF DropWrite, InSlot
  <2>2. Owner = t /\ \A u \in Threads : InSlot(u) <=> u = t
    BY <2>1, OwnerIs DEF WordAgrees
  <2>3. \A u \in Threads : ~InSlot(u)'
    BY <1>5, <2>2 DEF DropWrite, Goto, InSlot, Claiming, TypeOK
  <2>4. Owner' = NoThread
    BY <2>3 DEF Owner
  <2>5. Reading' = Reading
    BY <1>5, ReadingSame DEF DropWrite, Steps
  <2>6. \A u \in Threads : pc'[u] # "writing"
    BY <2>3 DEF InSlot
  <2>7. Abstract!ReleaseWrite(t)
    BY <2>1, <2>2, <2>4, <2>5, <2>6 DEF Abstract!ReleaseWrite
  <2> QED
    BY <2>7 DEF Abstract!Next
<1> QED
  BY <1>1, <1>2, <1>3, <1>4, <1>5 DEF TryWrite

(* Every behaviour of the lock is one of RwLock: BddManager may use RwLock *)
(* in place of the instructions of rw_w_pre.rs.                            *)
THEOREM Refinement == SafeSpec => Abstract!SafeSpec
<1>1. Init => Abstract!Init
  <2> SUFFICES ASSUME Init PROVE Abstract!Init
    OBVIOUS
  <2>1. \A t \in Threads : ~InSlot(t) /\ pc[t] = "idle"
    BY DEF Init, InSlot, Claiming
  <2>2. Owner = NoThread
    BY <2>1, OwnerNone
  <2> QED
    BY <2>1, <2>2 DEF Abstract!Init, Reading
<1>2. Inv /\ Inv' /\ [Next]_vars => [Abstract!Next]_(Abstract!lockVars)
  <2>1. CASE UNCHANGED vars
    <3>1. Reading' = Reading
      BY <2>1 DEF vars, Reading
    <3>2. \A u \in Threads : /\ InSlot(u)' <=> InSlot(u)
                             /\ pc'[u] = "writing" <=> pc[u] = "writing"
      BY <2>1 DEF vars, InSlot
    <3> QED
      BY <3>1, <3>2, OwnerSame DEF Abstract!lockVars
  <2> QED
    BY <2>1, ReadRefines, TryWriteRefines DEF Next
<1> QED
  BY <1>1, <1>2, Invariance, PTL DEF SafeSpec, Abstract!SafeSpec

=============================================================================
