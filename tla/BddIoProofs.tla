----------------------------- MODULE BddIoProofs ------------------------------
(***************************************************************************)
(* Proofs about BddIo for every set of threads, every heap, allocator and  *)
(* number of variables, and every well-formed stream at first. The part    *)
(* that is not about streams is Core of BddInvariant, which the steps of   *)
(* the Manager preserve as long as all roots are marked (CoreStep).        *)
(***************************************************************************)
EXTENDS BddIo, BddManagerProofs

-----------------------------------------------------------------------------
(* The inductive invariant.                                                *)

\* The steps at which a client has the stream.
StreamInUse == {"write", "open", "read", "ref"}

(* The stream is one client's at a time.                                   *)
OneStream ==
  \A t, u \in Threads : pc[t] \in StreamInUse /\ pc[u] \in StreamInUse => t = u

StreamTyped ==
  /\ WellFormed(stream)
  /\ todo \in [Threads -> Seq(Addr)]
  /\ cut \in [Threads -> Nat]
  /\ pos \in [Threads -> Nat]
  /\ DOMAIN map = Threads
  /\ ret \in [Threads -> Ptr]

\* The ids that the maps have for a: only one thread has a map at a time.
InMap(a) ==
  {id \in UNION {DOMAIN map[t] : t \in Threads} :
     \E t \in Threads : id \in DOMAIN map[t] /\ map[t][id] = a}

(* The terminals lose a reference with each stream that is read. They are  *)
(* not freed: the first variable has both as children.                     *)
TerminalsRooted == NumVars > 0 => key[BootAddr[3]] = <<0, FalseId, TrueId>>

\* The nodes whose references are counted.
Counted == IF NumVars = 0 THEN Addr ELSE Addr \ Terminals

(* A node has a reference for each that a client holds, for Manager::init  *)
(* and for each entry of the map of the stream that is being read; if one  *)
(* was lost it has more.                                                   *)
Surplus(a) ==
  refs[a] - (Cardinality(Held(a)) + (IF a \in Permanent THEN 1 ELSE 0) + Cardinality(InMap(a)))

StreamRefsAgree ==
  /\ \A a \in Addr : IsFiniteSet(Held(a)) /\ IsFiniteSet(InMap(a))
  /\ \A a \in Counted : Surplus(a) >= 0 /\ (a \notin lost => Surplus(a) = 0)

(* What serialize has written and what it has yet to write are nodes below *)
(* one that the client holds.                                              *)
WriteHeld(t) ==
  \E r \in Addr :
    /\ IsOperand(t, r)
    /\ \A n \in 1 .. Len(stream) : stream[n].id \in Reach({r})
    /\ \A i \in 1 .. Len(todo[t]) : todo[t][i] \in Reach({r})

(* What is written is what the nodes are.                                  *)
WrittenAgrees ==
  \A n \in 1 .. Len(stream) :
    /\ stream[n].id \notin Terminals
    /\ Unmarked(stream[n]) = Level(stream[n].id)
    /\ stream[n].den = den[stream[n].id]

(* The children come first.                                                *)
ChildrenFirst(t) ==
  \A i \in 1 .. Len(todo[t]) :
    /\ todo[t][i] \notin Terminals
    /\ \A c \in Children(todo[t][i]) \ Terminals :
         \/ \E n \in 1 .. Len(stream) : stream[n].id = c
         \/ \E j \in 1 .. i - 1 : todo[t][j] = c

WriteAgrees(t) == WriteHeld(t) /\ WrittenAgrees /\ ChildrenFirst(t)

(* What deserialize has of the records it has read.                        *)
ReadAgrees(t) ==
  /\ cut[t] <= Len(stream)
  /\ pos[t] <= cut[t]
  /\ DOMAIN map[t] = {stream[n].id : n \in 1 .. pos[t]}
  /\ \A n \in 1 .. pos[t] :
       map[t][stream[n].id] \in nodes /\ den[map[t][stream[n].id]] = stream[n].den
  /\ ret[t] # Null => ret[t] \in nodes /\ stream # <<>>
  /\ pc[t] = "read" => (ret[t] = Null <=> pos[t] = 0)
  /\ pc[t] = "ref" => ret[t] # Null /\ pos[t] < cut[t] /\ den[ret[t]] = Upcoming(t).den

StreamAgrees(t) ==
  /\ pc[t] = "write" => WriteAgrees(t)
  /\ pc[t] = "open" => cut[t] <= Len(stream)
  /\ pc[t] \in {"read", "ref"} => ReadAgrees(t)
  /\ pc[t] \notin {"read", "ref"} =>
       pos[t] = 0 /\ ret[t] = Null /\ DOMAIN map[t] = {}

IoInv ==
  /\ Core
  /\ OneStream
  /\ StreamTyped
  /\ TerminalsRooted
  /\ StreamRefsAgree
  /\ \A t \in Threads : StreamAgrees(t)

-----------------------------------------------------------------------------
(* What a stream does to the rest of the Manager.                          *)

(* A step of a thread that is or was at a stream is no step of a call.     *)
LEMMA StreamKeepsCalls ==
  ASSUME Core, NEW t \in Threads, NEW step \in StreamSteps \union {"idle", "panicked"},
         Goto(t, step), pc[t] \in StreamSteps \union {"idle"},
         Grows, UNCHANGED <<slots, cache, call, eval, val, stack>>,
         \A u \in Threads : u # t => owned'[u] = owned[u]
  PROVE  CachesAgree' /\ \A u \in Threads : CallAgrees(u)' /\ RecursionAgrees(u)'
<1>1. /\ Typed /\ CachesAgree /\ Diagram
      /\ \A u \in Threads : CallAgrees(u) /\ RecursionAgrees(u)
  BY DEF Core
<1>2. step \in Steps \union StreamSteps
  BY DEF Steps
<1>3. pc'[t] = step /\ \A u \in Threads : u # t => pc'[u] = pc[u]
  BY <1>1, <1>2, GotoMoves
<1>4. pc[t] # "clear" /\ pc[t] # "run"
  BY DEF StreamSteps
<1>5. CachesAgree'
  BY <1>1, <1>3, <1>4, CachesSame
<1>6. ASSUME NEW u \in Threads
      PROVE  CallAgrees(u)' /\ RecursionAgrees(u)'
  <2>1. CASE u = t
    <3>1. stack[t] = <<>>
      BY <1>1, <1>4 DEF RecursionAgrees
    <3> QED
      BY <1>3, <2>1, <3>1 DEF CallAgrees, RecursionAgrees, StreamSteps
  <2>2. CASE u # t
    <3>1. nodes \subseteq nodes'
      BY DEF Grows
    <3> QED
      BY <1>1, <1>3, <2>2, <3>1, CallSame, RecursionSame
  <2> QED
    BY <2>1, <2>2
<1> QED
  BY <1>5, <1>6

(* One that leaves the table and what clients hold alone.                  *)
LEMMA StreamMoves ==
  ASSUME Core, NEW t \in Threads, NEW step \in StreamSteps \union {"idle", "panicked"},
         Goto(t, step), pc[t] \in StreamSteps \union {"idle"},
         UNCHANGED <<managerVars, call, owned>>, refs' \in [Addr -> Int],
         calls' \in [Threads -> 0 .. MaxCalls], Lock!TypeOK', GuardsAgree'
  PROVE  Core'
<1>1. /\ Typed /\ RootsAlive /\ MarksAgree /\ Diagram
  BY DEF Core
<1>2. /\ UNCHANGED <<nodes, key, den, numEntry, marked, sizeVars, slots, cache, call, owned>>
      /\ UNCHANGED <<buckets, entries, size, eval, val, stack>>
  BY DEF managerVars, sizeVars, loadVars, recVars
<1>3. Grows
  BY <1>2 DEF Grows
<1>4. step \in Steps \union StreamSteps /\ step # "sweep"
  BY DEF Steps, StreamSteps
<1>5. /\ pc' \in [Threads -> Steps \union StreamSteps]
      /\ pc'[t] = step /\ \A u \in Threads : u # t => pc'[u] = pc[u]
  BY <1>1, <1>4, GotoMoves
<1>6. RootsAlive' /\ Diagram'
  BY <1>1, <1>2, RootsSame, DiagramSame
<1>7. MarksAgree'
  <2>1. \A a \in Addr : Rooted(a)' => Rooted(a)
    BY <1>2 DEF Rooted
  <2> QED
    BY <1>1, <1>2, <1>4, <1>5, <2>1, MarksSame
<1>8. CachesAgree' /\ \A u \in Threads : CallAgrees(u)' /\ RecursionAgrees(u)'
  BY <1>2, <1>3, StreamKeepsCalls
<1>9. Typed'
  BY <1>1, <1>2, <1>5 DEF Typed, DataOK
<1> QED
  BY <1>6, <1>7, <1>8, <1>9 DEF Core

(* Where no lock is taken or released.                                     *)
LEMMA StreamMovesOn ==
  ASSUME Core, NEW t \in Threads, NEW step \in StreamSteps \union {"idle"},
         Goto(t, step), pc[t] \in StreamSteps \union {"idle"},
         pc[t] \in ReadSteps <=> step \in ReadSteps,
         UNCHANGED <<managerVars, lockVars, call, owned>>, refs' \in [Addr -> Int],
         calls' \in [Threads -> 0 .. MaxCalls]
  PROVE  Core'
<1>1. Typed /\ GuardsAgree
  BY DEF Core
<1>2. step \in Steps \union StreamSteps
  BY DEF Steps
<1>3. GuardsAgree'
  BY <1>1, <1>2, GuardsSame DEF StreamSteps, WriteSteps
<1>4. Lock!TypeOK'
  BY <1>1 DEF lockVars, Typed, DataOK, Lock!TypeOK
<1> QED
  BY <1>3, <1>4, StreamMoves

(* Where the read guard is dropped.                                        *)
LEMMA StreamMovesOut ==
  ASSUME Core, NEW t \in Threads, NEW step \in {"idle", "panicked"},
         Goto(t, step), pc[t] \in StreamSteps, Lock!ReleaseRead(t),
         UNCHANGED <<managerVars, refs, clientVars>>
  PROVE  Core'
<1>1. Typed /\ GuardsAgree
  BY DEF Core
<1>2. step \in Steps \union StreamSteps
  BY DEF Steps
<1>3. pc'[t] = step /\ \A u \in Threads : u # t => pc'[u] = pc[u]
  BY <1>1, <1>2, GotoMoves
<1>4. readers' = readers \ {t} /\ UNCHANGED <<slot, writing>>
  BY DEF Lock!ReleaseRead
<1>5. GuardsAgree'
  BY <1>1, <1>3, <1>4 DEF GuardsAgree, ReadSteps, WriteSteps, StreamSteps
<1>6. Lock!TypeOK'
  BY <1>1, <1>4 DEF Typed, DataOK, Lock!TypeOK
<1>7. /\ refs' \in [Addr -> Int] /\ calls' \in [Threads -> 0 .. MaxCalls]
      /\ UNCHANGED <<managerVars, call, owned>>
  BY <1>1 DEF Typed, DataOK, clientVars
<1> QED
  BY <1>5, <1>6, <1>7, StreamMoves

LEMMA CallCounted ==
  ASSUME Typed, NEW t \in Threads, MayCall(t), calls' = [calls EXCEPT ![t] = @ + 1]
  PROVE  calls' \in [Threads -> 0 .. MaxCalls]
BY MaxCallsAssumption DEF Typed, DataOK, MayCall

LEMMA BeginSerializeCore ==
  ASSUME Core, NEW t \in Threads, NEW a \in Addr, BeginSerialize(t, a)
  PROVE  Core'
<1>1. Typed
  BY DEF Core
<1>2. /\ Goto(t, "write") /\ pc[t] = "idle"
      /\ UNCHANGED <<managerVars, lockVars, call, owned>>
  BY DEF BeginSerialize, MayCall
<1>3. refs' \in [Addr -> Int] /\ calls' \in [Threads -> 0 .. MaxCalls]
  BY <1>1, CallCounted DEF BeginSerialize, Typed
<1> QED
  BY <1>2, <1>3, StreamMovesOn DEF StreamSteps, ReadSteps

LEMMA WriteRecordCore ==
  ASSUME Core, NEW t \in Threads, WriteRecord(t)
  PROVE  Core'
<1>1. UNCHANGED vars
  BY DEF WriteRecord, vars, managerVars, tableVars, sizeVars
<1> QED
  BY <1>1, StutterStep

LEMMA EndSerializeCore ==
  ASSUME Core, NEW t \in Threads, EndSerialize(t)
  PROVE  Core'
<1>1. /\ Goto(t, "idle") /\ pc[t] = "write"
      /\ UNCHANGED <<managerVars, lockVars, call, owned>>
  BY DEF EndSerialize, clientVars
<1>2. refs' \in [Addr -> Int] /\ calls' \in [Threads -> 0 .. MaxCalls]
  BY DEF EndSerialize, Core, Typed, DataOK, clientVars
<1> QED
  BY <1>1, <1>2, StreamMovesOn DEF StreamSteps, ReadSteps

LEMMA BeginDeserializeCore ==
  ASSUME Core, NEW t \in Threads, NEW n, BeginDeserialize(t, n)
  PROVE  Core'
<1>1. Typed
  BY DEF Core
<1>2. /\ Goto(t, "open") /\ pc[t] = "idle"
      /\ UNCHANGED <<managerVars, lockVars, call, owned>>
  BY DEF BeginDeserialize, MayCall
<1>3. refs' \in [Addr -> Int] /\ calls' \in [Threads -> 0 .. MaxCalls]
  BY <1>1, CallCounted DEF BeginDeserialize, Typed
<1> QED
  BY <1>2, <1>3, StreamMovesOn DEF StreamSteps, ReadSteps

LEMMA OpenCore ==
  ASSUME Core, NEW t \in Threads, Open(t)
  PROVE  Core'
<1>1. Typed /\ GuardsAgree
  BY DEF Core
<1>2. /\ Goto(t, "read") /\ pc[t] = "open" /\ "read" \in StreamSteps
      /\ UNCHANGED <<managerVars, call, owned>>
  BY DEF Open, clientVars, StreamSteps
<1>3. pc'[t] = "read" /\ \A u \in Threads : u # t => pc'[u] = pc[u]
  BY <1>1, <1>2, GotoMoves
<1>4. slot = NoThread /\ readers' = readers \union {t} /\ UNCHANGED <<slot, writing>>
  BY DEF Open, Lock!AcquireRead
<1>5. GuardsAgree'
  BY <1>1, <1>2, <1>3, <1>4, ThreadsAssumption DEF GuardsAgree, ReadSteps, WriteSteps
<1>6. Lock!TypeOK'
  BY <1>1, <1>4 DEF Typed, DataOK, Lock!TypeOK
<1>7. refs' \in [Addr -> Int] /\ calls' \in [Threads -> 0 .. MaxCalls]
  BY <1>1 DEF Open, Typed, DataOK, clientVars
<1> QED
  BY <1>2, <1>5, <1>6, <1>7, StreamMoves DEF StreamSteps

LEMMA LevelPanicCore ==
  ASSUME Core, NEW t \in Threads, LevelPanic(t)
  PROVE  Core'
BY StreamMovesOut DEF LevelPanic, Reading, StreamSteps

LEMMA CloseCore ==
  ASSUME Core, NEW t \in Threads, Close(t)
  PROVE  Core'
BY StreamMovesOut DEF Close, StreamSteps

LEMMA NullRetCore ==
  ASSUME Core, NEW t \in Threads, NullRet(t)
  PROVE  Core'
<1>1. /\ Goto(t, "crashed") /\ pc[t] = "read"
      /\ UNCHANGED <<managerVars, lockVars, call, owned>>
  BY DEF NullRet, clientVars
<1>2. refs' \in [Addr -> Int] /\ calls' \in [Threads -> 0 .. MaxCalls]
  BY DEF NullRet, Core, Typed, DataOK, clientVars
<1> QED
  BY <1>1, <1>2, StreamMovesOn DEF StreamSteps, ReadSteps

LEMMA RefRecordCore ==
  ASSUME Core, NEW t \in Threads, RefRecord(t), ret[t] \in Addr
  PROVE  Core'
<1>1. /\ Goto(t, "read") /\ pc[t] = "ref"
      /\ UNCHANGED <<managerVars, lockVars, call, owned>>
  BY DEF RefRecord, managerVars, clientVars
<1>2. refs' \in [Addr -> Int] /\ calls' \in [Threads -> 0 .. MaxCalls]
  BY DEF RefRecord, Core, Typed, DataOK, clientVars
<1> QED
  BY <1>1, <1>2, StreamMovesOn DEF StreamSteps, ReadSteps

(* No collection is under way while a stream is read.                      *)
LEMMA ReaderAlone ==
  ASSUME Core, NEW t \in Threads, pc[t] \in ReadSteps
  PROVE  \A u \in Threads : pc[u] \notin WriteSteps
BY DEF Core, GuardsAgree

LEMMA ReadEndCore ==
  ASSUME Core, NEW t \in Threads, ReadEnd(t), ret[t] \in nodes, NEW d \in Addr, d = ret[t],
         refs' \in [Addr -> Int]
  PROVE  Core'
<1>1. Typed /\ GuardsAgree /\ RootsAlive /\ Diagram
  BY DEF Core
<1>2. /\ Goto(t, "close") /\ pc[t] = "read"
      /\ "close" \in StreamSteps /\ "close" \in Steps \union StreamSteps
      /\ owned' = [owned EXCEPT ![t][d] = @ + 1]
  BY DEF ReadEnd, StreamSteps
<1>3. /\ UNCHANGED <<nodes, key, den, numEntry, marked, buckets, slots, cache, call>>
      /\ UNCHANGED <<entries, size, eval, val, stack, calls>>
      /\ UNCHANGED lockVars
  BY DEF ReadEnd, sizeVars, loadVars, recVars
<1>4. /\ owned' \in [Threads -> [Addr -> Nat]]
      /\ \A u \in Threads, a \in Addr :
           owned'[u][a] = IF u = t /\ a = d THEN owned[u][a] + 1 ELSE owned[u][a]
      /\ \A u \in Threads : u # t => owned'[u] = owned[u]
  <2>1. owned \in [Threads -> [Addr -> Nat]]
    BY <1>1 DEF Typed, DataOK
  <2>2. \A u \in Threads, a \in Addr : owned[u][a] \in Nat
    BY <2>1
  <2> QED
    BY <1>2, <2>1, <2>2
<1>5. Grows /\ Diagram'
  BY <1>1, <1>3, DiagramSame DEF Grows
<1>6. RootsAlive'
  <2>1. \A a \in Addr : Rooted(a)' => Rooted(a) \/ a = d
    BY <1>4 DEF Rooted
  <2> QED
    BY <1>1, <1>3, <2>1 DEF RootsAlive
<1>7. GuardsAgree'
  BY <1>1, <1>2, <1>3, GuardsSame DEF ReadSteps, WriteSteps
<1>8. /\ pc' \in [Threads -> Steps \union StreamSteps]
      /\ pc'[t] = "close" /\ \A u \in Threads : u # t => pc'[u] = pc[u]
  BY <1>1, <1>2, GotoMoves
<1>9. MarksAgree'
  <2>1. \A u \in Threads : pc[u] \notin WriteSteps
    BY <1>2, ReaderAlone DEF ReadSteps
  <2> QED
    BY <1>8, <2>1, NoSweepNoMarks DEF WriteSteps
<1>10. CachesAgree' /\ \A u \in Threads : CallAgrees(u)' /\ RecursionAgrees(u)'
  BY <1>2, <1>3, <1>4, <1>5, StreamKeepsCalls DEF StreamSteps
<1>11. Typed'
  BY <1>1, <1>3, <1>4, <1>8 DEF Typed, DataOK, lockVars, Lock!TypeOK
<1> QED
  BY <1>5, <1>6, <1>7, <1>9, <1>10, <1>11 DEF Core

-----------------------------------------------------------------------------
(* What a stream says.                                                     *)

(* The function of a record depends on no variable above its level.        *)
LEMMA RecordsIndependent ==
  ASSUME NEW s, WellFormed(s)
  PROVE  \A n \in 1 .. Len(s) : \A v \in Vars : v < Unmarked(s[n]) => Free(s[n].den, v)
<1> DEFINE Good(n) == \A v \in Vars : v < Unmarked(s[n]) => Free(s[n].den, v)
           Bad == {n \in 1 .. Len(s) : ~ Good(n)}
<1>0. Len(s) \in Nat
  BY DEF WellFormed
<1>1. Bad = {}
  <2> SUFFICES ASSUME Bad # {}
               PROVE  FALSE
    OBVIOUS
  <2>1. PICK n \in Bad : \A m \in Bad : n <= m
    <3>1. Bad \in SUBSET Nat
      BY <1>0
    <3> HIDE DEF Bad
    <3> QED
      BY <3>1, LeastElement
  <2>2. n \in 1 .. Len(s)
    OBVIOUS
  <2>3. /\ Unmarked(s[n]) \in Vars
        /\ \E lo, hi : /\ Stands(s, n, s[n].low, lo) /\ Stands(s, n, s[n].high, hi)
                       /\ s[n].den = Mux(Unmarked(s[n]), lo, hi)
    BY <2>2 DEF WellFormed
  <2>4. PICK lo, hi : /\ Stands(s, n, s[n].low, lo) /\ Stands(s, n, s[n].high, hi)
                      /\ s[n].den = Mux(Unmarked(s[n]), lo, hi)
    BY <2>3
  <2>5. ASSUME NEW id, NEW f, Stands(s, n, id, f), NEW v \in Vars, v < Unmarked(s[n])
        PROVE  Free(f, v)
    <3>1. CASE f = {} \/ f = Assignments
      BY <3>1, ConstantsFree
    <3>2. CASE \E m \in 1 .. n - 1 :
                 s[m].id = id /\ s[m].den = f /\ Unmarked(s[m]) > Unmarked(s[n])
      <4>1. PICK m \in 1 .. n - 1 :
                   s[m].id = id /\ s[m].den = f /\ Unmarked(s[m]) > Unmarked(s[n])
        BY <3>2
      <4>2. m \in 1 .. Len(s) /\ ~ (n <= m)
        BY <1>0, <2>2, <4>1
      <4>3. m \notin Bad
        <5> HIDE DEF Bad
        <5> QED
          BY <2>1, <4>2
      <4>4. Good(m)
        BY <4>2, <4>3
      <4>5. Unmarked(s[m]) \in Vars
        BY <4>2 DEF WellFormed
      <4>6. v < Unmarked(s[m])
        BY <2>3, <2>5, <4>1, <4>5 DEF Vars
      <4> QED
        BY <4>1, <4>4, <4>6
    <3> QED
      BY <2>5, <3>1, <3>2 DEF Stands
  <2>6. ASSUME NEW v \in Vars, v < Unmarked(s[n])
        PROVE  Free(s[n].den, v)
    <3>1. Free(lo, v) /\ Free(hi, v)
      BY <2>4, <2>5, <2>6
    <3>2. v # Unmarked(s[n])
      BY <2>3, <2>6 DEF Vars
    <3> QED
      BY <2>3, <2>4, <3>1, <3>2, MuxFree
  <2>7. n \notin Bad
    BY <2>6
  <2> QED
    BY <2>7
<1> QED
  BY <1>1

(* An id that a record has is that of a terminal or of a node made before, *)
(* below the level of the record.                                          *)
LEMMA ChildRead ==
  ASSUME Core, WellFormed(stream), NEW t \in Threads, ReadAgrees(t),
         pos \in [Threads -> Nat], cut \in [Threads -> Nat],
         pos[t] < cut[t], NEW id, NEW f, Stands(stream, pos[t] + 1, id, f)
  PROVE  /\ Mapped(t, id) \in nodes /\ den[Mapped(t, id)] = f
         /\ Below(Mapped(t, id), Unmarked(Upcoming(t)))
<1> DEFINE n == pos[t] + 1
<1>1. Typed /\ Diagram /\ RootsAlive /\ Len(stream) \in Nat /\ pos[t] \in Nat /\ cut[t] \in Nat
  BY DEF Core, WellFormed
<1>2. n \in 1 .. Len(stream) /\ cut[t] <= Len(stream)
  BY <1>1 DEF ReadAgrees
<1>3. Unmarked(stream[n]) \in Vars
  BY <1>2 DEF WellFormed
<1>4. CASE id \in Terminals
  <2>1. Mapped(t, id) = id /\ id \in nodes
    BY <1>1, <1>4, TerminalsAlive DEF Mapped
  <2>2. \A m \in 1 .. n - 1 : stream[m].id \notin Terminals
    BY <1>2 DEF WellFormed
  <2>3. den[id] = f
    BY <1>1, <1>4, <2>2 DEF Stands, Terminals, Diagram, TerminalsAgree
  <2> QED
    BY <1>4, <2>1, <2>3 DEF Below
<1>5. CASE id \notin Terminals
  <2>1. PICK m \in 1 .. n - 1 :
               /\ stream[m].id = id /\ stream[m].den = f
               /\ Unmarked(stream[m]) > Unmarked(stream[n])
    BY <1>5 DEF Stands, Terminals
  <2>2. m \in 1 .. pos[t] /\ m \in 1 .. Len(stream)
    BY <1>1, <1>2, <2>1
  <2>3. Mapped(t, id) \in nodes /\ den[Mapped(t, id)] = f
    BY <1>5, <2>1, <2>2 DEF ReadAgrees, Mapped
  <2>4. Unmarked(stream[m]) \in Vars
    BY <2>2 DEF WellFormed
  <2>5. ASSUME NEW u \in Vars, u <= Unmarked(stream[n])
        PROVE  Free(f, u)
    <3>1. u < Unmarked(stream[m])
      BY <1>3, <2>1, <2>4, <2>5 DEF Vars
    <3> QED
      BY <2>1, <2>2, <3>1, RecordsIndependent
  <2>6. Below(Mapped(t, id), Unmarked(stream[n]))
    BY <1>1, <1>3, <2>3, <2>5, FreeBelow
  <2> QED
    BY <2>3, <2>6 DEF Upcoming
<1> QED
  BY <1>4, <1>5

-----------------------------------------------------------------------------
(* The steps of the Manager beside the streams.                            *)

(* They change no node that stays in the table.                            *)
LEMMA KeptSame ==
  ASSUME Core, [Next]_vars
  PROVE  \A a \in nodes : a \in nodes' => key'[a] = key[a] /\ den'[a] = den[a]
<1>1. ASSUME NEW t \in Threads, Sweep(t), NEW a \in nodes'
      PROVE  key'[a] = key[a] /\ den'[a] = den[a]
  <2>1. a \in marked /\ a \in Addr
    BY <1>1 DEF Sweep, Core, Typed, DataOK
  <2> QED
    BY <1>1, <2>1 DEF Sweep
<1>2. ASSUME NEW t \in Threads, Grow(t)
      PROVE  UNCHANGED <<key, den>>
  BY <1>2 DEF Grow, tableVars
<1>3. ASSUME NEW t \in Threads, HighDone(t)
      PROVE  Grows
  BY <1>3, HighDoneAdds
<1> QED
  BY <1>1, <1>2, <1>3, TableChanges DEF Grows

(* Under a read guard none goes.                                           *)
LEMMA ReaderKeeps ==
  ASSUME Core, [Next]_vars, NEW t \in Threads, pc[t] \in ReadSteps
  PROVE  Grows
<1>1. \A u \in Threads : pc[u] \notin WriteSteps
  BY ReaderAlone
<1>2. ASSUME NEW u \in Threads
      PROVE  ~ Sweep(u) /\ ~ Grow(u)
  BY <1>1 DEF Sweep, Grow, WriteSteps
<1> QED
  BY <1>2, TableChanges, HighDoneAdds DEF Grows

\* What is below a node of the table is in the table.
BelowAlive ==
  Core => \A r \in nodes : /\ r \in Reach({r})
                           /\ Reach({r}) \subseteq nodes
                           /\ \A a \in Reach({r}) : Children(a) \subseteq Reach({r})

LEMMA CoreBelowAlive == BelowAlive
BY ReachRoots, ReachClosed DEF BelowAlive, Core, Diagram

(* What is below a node that stays in the table stays, too.                *)
LEMMA ReachKept ==
  ASSUME Core, Core', NEW r \in nodes, r \in nodes',
         \A a \in nodes : a \in nodes' => key'[a] = key[a] /\ den'[a] = den[a]
  PROVE  \A a \in Reach({r}) : /\ a \in Reach({r})'
                               /\ a \in nodes /\ a \in nodes'
                               /\ key'[a] = key[a] /\ den'[a] = den[a]
<1> DEFINE R == Reach({r})'
           C == {a \in R : a \in nodes /\ a \in nodes'}
<1>1. Typed /\ Typed' /\ Diagram /\ Diagram'
  BY DEF Core
<1>2. r \in R /\ \A a \in R : a \in nodes' /\ \A c \in Children(a)' : c \in R
  <2>1. BelowAlive'
    BY CoreBelowAlive, PTL
  <2> QED
    BY <2>1 DEF BelowAlive
<1>3. \A a \in nodes : Children(a) \subseteq nodes
  BY <1>1 DEF Children, Diagram, Ordered, TerminalsAgree
<1>4. \A a \in nodes : a \in nodes' => Children(a)' = Children(a)
  BY DEF Children, Low, High
<1> HIDE DEF R
<1>5. \A a \in C : Children(a) \subseteq C
  BY <1>2, <1>3, <1>4
<1>6. {r} \subseteq C
  BY <1>2
<1>7. Reach({r}) \subseteq C
  <2> HIDE DEF C
  <2> QED
    BY <1>5, <1>6, ReachInside
<1> QED
  BY <1>7 DEF R

(* What clients and Manager::init hold stays.                              *)
LEMMA RootStays ==
  ASSUME Core, Core', NEW r \in Addr, Rooted(r), Rooted(r)'
  PROVE  r \in nodes /\ r \in nodes'
BY DEF Core, RootsAlive

(* They are not of a thread that is at a stream.                           *)
LEMMA StreamStays ==
  ASSUME Typed, [Next]_vars, NEW t \in Threads, pc[t] \in StreamSteps \/ pc'[t] \in StreamSteps
  PROVE  pc'[t] = pc[t] /\ owned'[t] = owned[t]
<1>1. Steps \intersect StreamSteps = {}
  BY DEF Steps, StreamSteps
<1>2. ASSUME NEW u \in Threads, pc[u] \in Steps, \A v \in Threads : v # u => owned'[v] = owned[v],
             pc' = pc \/ \E step \in Steps : Goto(u, step)
      PROVE  pc'[t] = pc[t] /\ owned'[t] = owned[t]
  <2>1. CASE pc' = pc
    BY <1>1, <1>2, <2>1
  <2>2. ASSUME NEW step \in Steps, Goto(u, step)
        PROVE  pc'[t] = pc[t] /\ owned'[t] = owned[t]
    BY <1>1, <1>2, <2>2, GotoMoves
  <2> QED
    BY <1>2, <2>1, <2>2
<1> QED
  BY <1>2, OneThreadMoves

LEMMA WriteSame ==
  ASSUME Core, Core', NEW t \in Threads, WriteAgrees(t),
         \A a \in nodes : a \in nodes' => key'[a] = key[a] /\ den'[a] = den[a],
         UNCHANGED stream, todo'[t] = todo[t], owned'[t] = owned[t]
  PROVE  WriteAgrees(t)'
<1>1. PICK r \in Addr :
             /\ IsOperand(t, r)
             /\ \A n \in 1 .. Len(stream) : stream[n].id \in Reach({r})
             /\ \A i \in 1 .. Len(todo[t]) : todo[t][i] \in Reach({r})
  BY DEF WriteAgrees, WriteHeld
<1>2. IsOperand(t, r)' /\ Rooted(r) /\ Rooted(r)'
  BY <1>1 DEF IsOperand, Rooted
<1>3. r \in nodes /\ r \in nodes'
  BY <1>2, RootStays
<1>4. \A a \in Reach({r}) : a \in Reach({r})' /\ key'[a] = key[a] /\ den'[a] = den[a]
  BY <1>3, ReachKept
<1>5. WriteHeld(t)'
  BY <1>1, <1>2, <1>4 DEF WriteHeld
<1>6. WrittenAgrees'
  BY <1>1, <1>4 DEF WriteAgrees, WrittenAgrees, Unmarked, Level
<1>7. ChildrenFirst(t)'
  <2>1. \A i \in 1 .. Len(todo[t]) : key'[todo[t][i]] = key[todo[t][i]]
    BY <1>1, <1>4
  <2>2. ChildrenFirst(t)
    BY DEF WriteAgrees
  <2> QED
    BY <2>1, <2>2 DEF ChildrenFirst, Children, Low, High
<1> QED
  BY <1>5, <1>6, <1>7 DEF WriteAgrees

LEMMA ReadSame ==
  ASSUME NEW t \in Threads, ReadAgrees(t), Grows, UNCHANGED stream, pc'[t] = pc[t],
         cut'[t] = cut[t], pos'[t] = pos[t], map'[t] = map[t], ret'[t] = ret[t]
  PROVE  ReadAgrees(t)'
BY DEF ReadAgrees, Grows, Upcoming

LEMMA StreamAgreesSame ==
  ASSUME Core, Core', [Next]_vars, UNCHANGED ioVars, NEW t \in Threads, StreamAgrees(t)
  PROVE  StreamAgrees(t)'
<1>1. UNCHANGED <<stream, todo, cut, pos, map, ret>>
  BY DEF ioVars, readVars
<1>2. CASE pc[t] \in StreamSteps \/ pc'[t] \in StreamSteps
  <2>1. pc'[t] = pc[t] /\ owned'[t] = owned[t]
    BY <1>2, StreamStays DEF Core
  <2>2. pc[t] = "write" => WriteAgrees(t)'
    BY <1>1, <2>1, KeptSame, WriteSame DEF StreamAgrees
  <2>3. pc[t] \in {"read", "ref"} => ReadAgrees(t)'
    <3> SUFFICES ASSUME pc[t] \in {"read", "ref"}
                 PROVE  ReadAgrees(t)'
      OBVIOUS
    <3>1. Grows
      BY ReaderKeeps DEF ReadSteps
    <3> QED
      BY <1>1, <2>1, <3>1, ReadSame DEF StreamAgrees
  <2> QED
    BY <1>1, <2>1, <2>2, <2>3 DEF StreamAgrees
<1>3. CASE ~ (pc[t] \in StreamSteps \/ pc'[t] \in StreamSteps)
  BY <1>1, <1>3 DEF StreamAgrees, StreamSteps
<1> QED
  BY <1>2, <1>3

LEMMA OneStreamSame ==
  ASSUME Typed, OneStream, [Next]_vars
  PROVE  OneStream'
<1>1. \A t \in Threads : pc'[t] \in StreamInUse => pc[t] \in StreamInUse
  BY StreamStays DEF StreamInUse, StreamSteps
<1> QED
  BY <1>1 DEF OneStream

(* Only nodes of the table are in a map.                                   *)
LEMMA InMapAlive ==
  ASSUME \A t \in Threads : StreamAgrees(t), NEW a, a \notin nodes
  PROVE  InMap(a) = {}
<1>1. ASSUME NEW t \in Threads, NEW id \in DOMAIN map[t]
      PROVE  map[t][id] \in nodes
  <2>1. ReadAgrees(t)
    BY <1>1 DEF StreamAgrees
  <2> QED
    BY <1>1, <2>1 DEF ReadAgrees
<1> QED
  BY <1>1 DEF InMap

(* The count of the references goes on as beside the streams.              *)
LEMMA StreamRefsCount ==
  ASSUME Core, Core', StreamRefsAgree, \A t \in Threads : StreamAgrees(t),
         UNCHANGED <<map, lost>>, \A b \in Addr : IsFiniteSet(Held(b)) => Counts(b)
  PROVE  StreamRefsAgree'
<1>0. RootsAlive
  BY DEF Core
<1> SUFFICES ASSUME NEW b \in Addr
             PROVE  /\ IsFiniteSet(Held(b)') /\ IsFiniteSet(InMap(b)')
                    /\ b \in Counted => /\ Surplus(b)' >= 0
                                        /\ b \notin lost => Surplus(b)' = 0
  BY DEF StreamRefsAgree, Counted
<1>1. /\ IsFiniteSet(Held(b)) /\ IsFiniteSet(InMap(b)) /\ InMap(b)' = InMap(b)
      /\ b \in Counted => Surplus(b) >= 0 /\ (b \notin lost => Surplus(b) = 0)
  BY DEF StreamRefsAgree, InMap
<1>2. Counts(b)
  BY <1>1
<1>3. /\ Cardinality(Held(b)) \in Nat /\ Cardinality(Held(b)') \in Nat
      /\ Cardinality(InMap(b)) \in Nat /\ IsFiniteSet(Held(b)')
  BY <1>1, <1>2, FS_CardinalityType DEF Counts
<1>4. refs[b] \in Int /\ refs'[b] \in Int
  BY DEF Core, Typed
<1>5. CASE refs'[b] - Cardinality(Held(b)') = refs[b] - Cardinality(Held(b))
  <2> DEFINE perm == IF b \in Permanent THEN 1 ELSE 0
  <2>1. Surplus(b) = refs[b] - (Cardinality(Held(b)) + perm + Cardinality(InMap(b)))
    BY DEF Surplus
  <2>2. Surplus(b)' = refs'[b] - (Cardinality(Held(b)') + perm + Cardinality(InMap(b)'))
    BY DEF Surplus
  <2>3. perm \in Nat
    OBVIOUS
  <2>4. Cardinality(InMap(b)') = Cardinality(InMap(b))
    BY <1>1
  <2> HIDE DEF perm
  <2>5. Surplus(b)' = Surplus(b)
    BY <1>3, <1>4, <1>5, <2>1, <2>2, <2>3, <2>4
  <2> QED
    BY <1>1, <1>3, <2>5
<1>6. CASE b \notin nodes /\ refs'[b] = 0 /\ Held(b)' = {}
  <2>1. InMap(b)' = {}
    BY <1>1, <1>6, InMapAlive
  <2>2. b \notin Permanent
    BY <1>0, <1>6, TerminalsAlive
  <2>3. Cardinality(Held(b)') = 0 /\ Cardinality(InMap(b)') = 0
    BY <1>6, <2>1, FS_EmptySet
  <2>4. Surplus(b)' = 0
    BY <1>6, <2>2, <2>3 DEF Surplus
  <2> QED
    BY <1>1, <1>3, <2>4
<1> QED
  BY <1>2, <1>5, <1>6 DEF Counts

LEMMA StreamRefsSame ==
  ASSUME IoInv, Core', [Next]_vars, UNCHANGED ioVars
  PROVE  StreamRefsAgree'
BY StreamRefsCount, CountsStep DEF IoInv, ioVars, readVars

LEMMA BootThird ==
  ASSUME NumVars > 0
  PROVE  BootAddr[3] \in Permanent /\ BootAddr[3] \in Addr
<1>1. 3 \in 1 .. BootLen
  BY BootAssumption DEF BootLen
<1> QED
  BY <1>1, BootAssumption DEF Permanent

LEMMA TerminalsRootedSame ==
  ASSUME Core, Core', TerminalsRooted,
         \A a \in nodes : a \in nodes' => key'[a] = key[a] /\ den'[a] = den[a]
  PROVE  TerminalsRooted'
<1> SUFFICES ASSUME NumVars > 0
             PROVE  key'[BootAddr[3]] = key[BootAddr[3]]
  BY DEF TerminalsRooted
<1> QED
  BY BootThird, RootStays DEF Rooted

(* Everything that clients hold is marked.                                 *)
LEMMA StreamRootsReached ==
  ASSUME IoInv
  PROVE  RootsReached
<1> DEFINE roots == {b \in nodes : refs[b] # 0}
<1>1. Core /\ Typed /\ RootsAlive /\ Diagram
  BY DEF IoInv, Core
<1>2. roots \subseteq Reach(roots) /\ \A a \in Reach(roots) : Children(a) \subseteq Reach(roots)
  <2>1. roots \in SUBSET nodes
    OBVIOUS
  <2> HIDE DEF roots
  <2> QED
    BY <1>1, <2>1, ReachRoots, ReachClosed DEF Diagram
<1>3. ASSUME NEW a \in Counted, Rooted(a)
      PROVE  a \in roots
  <2>1. a \in Addr /\ a \in nodes
    BY <1>1, <1>3 DEF Counted, RootsAlive
  <2>2. IsFiniteSet(Held(a)) /\ IsFiniteSet(InMap(a)) /\ Surplus(a) >= 0
    BY <2>1 DEF IoInv, StreamRefsAgree
  <2>3. Cardinality(Held(a)) \in Nat /\ Cardinality(InMap(a)) \in Nat
    BY <2>2, FS_CardinalityType
  <2>4. a \notin Permanent => Cardinality(Held(a)) # 0
    BY <1>1, <1>3, <2>1, <2>2, HeldCounted DEF Rooted
  <2>5. refs[a] \in Int
    BY <1>1, <2>1 DEF Typed
  <2>6. refs[a] # 0
    BY <2>2, <2>3, <2>4, <2>5 DEF Surplus
  <2> QED
    BY <2>1, <2>6
<1>4. ASSUME NEW a \in Terminals, NumVars > 0
      PROVE  a \in Reach(roots)
  <2>1. key[BootAddr[3]] = <<0, FalseId, TrueId>>
    BY <1>4 DEF IoInv, TerminalsRooted
  <2>2. Children(BootAddr[3]) = {FalseId, TrueId}
    BY <1>1, <2>1, TerminalsAlive DEF Children, Low, High
  <2>3. BootAddr[3] \notin Terminals
    <3>1. 1 \in 1 .. BootLen /\ 2 \in 1 .. BootLen /\ 3 \in 1 .. BootLen
      BY <1>4, BootAssumption DEF BootLen
    <3> QED
      BY <3>1, BootAssumption DEF Terminals, TrueId, FalseId
  <2>4. BootAddr[3] \in Counted
    BY <1>4, <2>3, BootThird DEF Counted
  <2>5. BootAddr[3] \in roots
    BY <1>3, <1>4, <2>4, BootThird DEF Rooted
  <2> QED
    BY <1>2, <2>2, <2>5 DEF Terminals
<1> HIDE DEF roots
<1>5. ASSUME NEW a \in Addr, Rooted(a)
      PROVE  a \in Reach(roots)
  <2>1. a \in Counted \/ (NumVars > 0 /\ a \in Terminals)
    BY <1>5, BootAssumption DEF Counted
  <2>2. CASE a \in Counted
    BY <1>2, <1>3, <1>5, <2>2
  <2>3. CASE NumVars > 0 /\ a \in Terminals
    BY <1>4, <2>3
  <2> QED
    BY <2>1, <2>2, <2>3
<1> QED
  BY <1>5 DEF RootsReached, roots

-----------------------------------------------------------------------------
(* What serialize writes.                                                  *)

\* One level more of the nodes that are written, from what is written for children.
Onto(f) ==
  [a \in Addr |->
     IF a \in Terminals THEN <<>> ELSE f[Low(a)] \o f[High(a)] \o <<a>>]

Nothing == [a \in Addr |-> <<>>]

LEMMA VisitsExist ==
  \E f : f = [i \in 0 .. NumVars |-> IF i = 0 THEN Nothing ELSE Onto(f[i - 1])]
<1> DEFINE Bad == {n \in Nat : ~ \E f : f = [i \in 0 .. n |-> IF i = 0 THEN Nothing
                                                         ELSE Onto(f[i - 1])]}
<1>1. Bad = {}
  <2> SUFFICES ASSUME Bad # {}
               PROVE  FALSE
    OBVIOUS
  <2>1. PICK n \in Bad : \A m \in Bad : n <= m
    <3> HIDE DEF Bad
    <3>1. Bad \in SUBSET Nat
      BY DEF Bad
    <3> QED
      BY <3>1, LeastElement
  <2>2. CASE n = 0
    <3> DEFINE f == [i \in 0 .. 0 |-> Nothing]
    <3>1. f = [i \in 0 .. 0 |-> IF i = 0 THEN Nothing ELSE Onto(f[i - 1])]
      OBVIOUS
    <3> QED
      BY <2>2, <3>1
  <2>3. CASE n # 0
    <3>1. n - 1 \in Nat /\ n \in Nat /\ n - 1 \notin Bad
      <4>1. n \in Nat
        OBVIOUS
      <4> HIDE DEF Bad
      <4> QED
        BY <2>1, <2>3, <4>1
    <3>2. PICK f : f = [i \in 0 .. n - 1 |-> IF i = 0 THEN Nothing ELSE Onto(f[i - 1])]
      BY <3>1
    <3> DEFINE g == [i \in 0 .. n |-> IF i = n THEN Onto(f[n - 1]) ELSE f[i]]
    <3>3. \A i \in 0 .. n : g[i] = IF i = 0 THEN Nothing ELSE Onto(g[i - 1])
      BY <3>1, <3>2, <2>3
    <3>4. g = [i \in 0 .. n |-> IF i = 0 THEN Nothing ELSE Onto(g[i - 1])]
      BY <3>3
    <3> QED
      BY <3>4, <2>1
  <2> QED
    BY <2>2, <2>3
<1> QED
  BY <1>1, BootAssumption

(* What is written for the nodes of each level, and for a BDD.             *)
LEMMA Visits ==
  \E f : /\ \A a \in Addr : f[0][a] = <<>>
         /\ \A i \in 1 .. NumVars, a \in Addr :
              f[i][a] = IF a \in Terminals THEN <<>>
                        ELSE f[i - 1][Low(a)] \o f[i - 1][High(a)] \o <<a>>
         /\ \A root : Visit(root) = f[NumVars][root]
<1> DEFINE body(f) == [i \in 0 .. NumVars |->
                         [a \in Addr |->
                            IF i = 0 \/ a \in Terminals THEN <<>>
                            ELSE f[i - 1][Low(a)] \o f[i - 1][High(a)] \o <<a>>]]
           g == CHOOSE f : f = body(f)
<1>1. \E f : f = body(f)
  <2>1. PICK f : f = [i \in 0 .. NumVars |-> IF i = 0 THEN Nothing ELSE Onto(f[i - 1])]
    BY VisitsExist
  <2>2. ASSUME NEW i \in 0 .. NumVars
        PROVE  (IF i = 0 THEN Nothing ELSE Onto(f[i - 1]))
                 = [a \in Addr |-> IF i = 0 \/ a \in Terminals THEN <<>>
                                   ELSE f[i - 1][Low(a)] \o f[i - 1][High(a)] \o <<a>>]
    <3>1. CASE i = 0
      BY <3>1 DEF Nothing
    <3>2. CASE i # 0
      BY <3>2 DEF Onto
    <3> QED
      BY <3>1, <3>2
  <2>3. [i \in 0 .. NumVars |-> IF i = 0 THEN Nothing ELSE Onto(f[i - 1])] = body(f)
    BY <2>2
  <2>4. f = body(f)
    BY <2>1, <2>3
  <2> QED
    BY <2>4
<1>2. g = body(g)
  <2> HIDE DEF body
  <2> QED
    BY <1>1, Zenon
<1>3. ASSUME NEW root
      PROVE  Visit(root) = g[NumVars][root]
  BY Zenon DEF Visit
<1> HIDE DEF g
<1>4. \A i \in 0 .. NumVars, a \in Addr :
        g[i][a] = IF i = 0 \/ a \in Terminals THEN <<>>
                  ELSE g[i - 1][Low(a)] \o g[i - 1][High(a)] \o <<a>>
  <2>1. \A i \in 0 .. NumVars, a \in Addr :
          body(g)[i][a] = IF i = 0 \/ a \in Terminals THEN <<>>
                          ELSE g[i - 1][Low(a)] \o g[i - 1][High(a)] \o <<a>>
    OBVIOUS
  <2> HIDE DEF body
  <2> QED
    BY <1>2, <2>1
<1>5. (\A a \in Addr : g[0][a] = <<>>)
      /\ \A i \in 1 .. NumVars, a \in Addr :
           g[i][a] = IF a \in Terminals THEN <<>>
                     ELSE g[i - 1][Low(a)] \o g[i - 1][High(a)] \o <<a>>
  <2>1. 0 \in 0 .. NumVars /\ \A i \in 1 .. NumVars : i \in 0 .. NumVars /\ i # 0
    BY BootAssumption
  <2> HIDE DEF body
  <2> QED
    BY <1>4, <2>1
<1> QED
  BY <1>3, <1>5

\* s has nodes of C, a among them, and each of them after its children.
Visited(s, C, a) ==
  /\ s \in Seq(C \ Terminals)
  /\ a \notin Terminals => \E i \in 1 .. Len(s) : s[i] = a
  /\ \A i \in 1 .. Len(s) : \A c \in Children(s[i]) \ Terminals : \E j \in 1 .. i - 1 : s[j] = c

LEMMA VisitedParent ==
  ASSUME NEW C, NEW a \in C \ Terminals, Children(a) \subseteq {Low(a), High(a)},
         NEW x, Visited(x, C, Low(a)), NEW y, Visited(y, C, High(a))
  PROVE  Visited(x \o y \o <<a>>, C, a)
<1> DEFINE s == x \o y \o <<a>>
<1>1. x \in Seq(C \ Terminals) /\ y \in Seq(C \ Terminals)
  BY DEF Visited
<1>2. /\ s \in Seq(C \ Terminals) /\ Len(s) = Len(x) + Len(y) + 1
      /\ Len(x) \in Nat /\ Len(y) \in Nat
      /\ \A i \in 1 .. Len(x) : s[i] = x[i]
      /\ \A i \in 1 .. Len(y) : s[Len(x) + i] = y[i]
      /\ s[Len(x) + Len(y) + 1] = a
  BY <1>1
<1> HIDE DEF s
<1>3. ASSUME NEW i \in 1 .. Len(s), NEW c \in Children(s[i]) \ Terminals
      PROVE  \E j \in 1 .. i - 1 : s[j] = c
  <2>1. CASE i \in 1 .. Len(x)
    <3>1. PICK j \in 1 .. i - 1 : x[j] = c
      BY <1>2, <1>3, <2>1 DEF Visited
    <3> QED
      BY <1>2, <2>1, <3>1
  <2>2. CASE i \in Len(x) + 1 .. Len(x) + Len(y)
    <3>1. i - Len(x) \in 1 .. Len(y) /\ s[i] = y[i - Len(x)]
      BY <1>2, <2>2
    <3>2. PICK j \in 1 .. i - Len(x) - 1 : y[j] = c
      BY <1>3, <3>1 DEF Visited
    <3>3. Len(x) + j \in 1 .. i - 1 /\ j \in 1 .. Len(y)
      BY <1>2, <2>2, <3>2
    <3>4. s[Len(x) + j] = c
      BY <1>2, <3>2, <3>3
    <3> QED
      BY <3>3, <3>4
  <2>3. CASE i = Len(x) + Len(y) + 1
    <3>1. c \in {Low(a), High(a)} \ Terminals
      BY <1>2, <1>3, <2>3
    <3>2. CASE c = Low(a)
      <4>1. PICK j \in 1 .. Len(x) : x[j] = c
        BY <3>1, <3>2 DEF Visited
      <4> QED
        BY <1>2, <2>3, <4>1
    <3>3. CASE c = High(a)
      <4>1. PICK j \in 1 .. Len(y) : y[j] = c
        BY <3>1, <3>3 DEF Visited
      <4>2. Len(x) + j \in 1 .. i - 1 /\ s[Len(x) + j] = c
        BY <1>2, <2>3, <4>1
      <4> QED
        BY <4>2
    <3> QED
      BY <3>1, <3>2, <3>3
  <2>4. \/ i \in 1 .. Len(x) \/ i \in Len(x) + 1 .. Len(x) + Len(y)
        \/ i = Len(x) + Len(y) + 1
    <3>1. /\ i \in 1 .. Len(x) + Len(y) + 1
          /\ Len(x) \in Nat /\ Len(y) \in Nat
      BY <1>2, <1>3
    <3> QED
      BY <3>1
  <2> QED
    BY <1>3, <2>1, <2>2, <2>3, <2>4
<1>4. \E i \in 1 .. Len(s) : s[i] = a
  BY <1>2
<1>5. Visited(s, C, a)
  BY <1>2, <1>3, <1>4 DEF Visited
<1> QED
  BY <1>5 DEF s

(* No path is longer than the variables, so that nothing is left out.      *)
LEMMA VisitVisits ==
  ASSUME Core, NEW C \in SUBSET nodes, \A a \in C : Children(a) \subseteq C, NEW root \in C
  PROVE  Visited(Visit(root), C, root)
<1>1. PICK f :
        /\ \A a \in Addr : f[0][a] = <<>>
        /\ \A i \in 1 .. NumVars, a \in Addr :
             f[i][a] = IF a \in Terminals THEN <<>>
                       ELSE f[i - 1][Low(a)] \o f[i - 1][High(a)] \o <<a>>
        /\ \A r : Visit(r) = f[NumVars][r]
  BY Visits
<1>2. Typed /\ Diagram /\ C \subseteq Addr
  BY NodesTyped DEF Core
<1>3. \A a \in C \ Terminals :
        /\ Level(a) \in Vars
        /\ {Low(a), High(a)} \subseteq C /\ Children(a) \subseteq {Low(a), High(a)}
        /\ Below(Low(a), Level(a)) /\ Below(High(a), Level(a))
  <2> SUFFICES ASSUME NEW a \in C \ Terminals
               PROVE  /\ Level(a) \in Vars
                      /\ {Low(a), High(a)} \subseteq C /\ Children(a) \subseteq {Low(a), High(a)}
                      /\ Below(Low(a), Level(a)) /\ Below(High(a), Level(a))
    OBVIOUS
  <2>1. /\ Level(a) \in Vars /\ {Low(a), High(a)} \subseteq nodes
        /\ Below(Low(a), Level(a)) /\ Below(High(a), Level(a))
    BY <1>2 DEF Diagram, Ordered
  <2>2. Low(a) # Null /\ High(a) # Null
    BY <1>2, <2>1, NodesTyped
  <2> QED
    BY <2>1, <2>2 DEF Children
<1> DEFINE Deep(a, i) == a \in Terminals \/ Level(a) >= NumVars - i
           Good == {i \in 0 .. NumVars : \A a \in C : Deep(a, i) => Visited(f[i][a], C, a)}
<1>4. NumVars \in Nat
  BY BootAssumption
<1>5. ASSUME NEW i \in 0 .. NumVars, NEW a \in C \intersect Terminals
      PROVE  Visited(f[i][a], C, a)
  <2>1. i = 0 \/ i \in 1 .. NumVars
    BY <1>4
  <2>2. f[i][a] = <<>>
    BY <1>1, <1>2, <2>1
  <2> QED
    BY <1>5, <2>2 DEF Visited
<1>6. 0 \in Good
  BY <1>3, <1>4, <1>5 DEF Vars
<1>7. ASSUME NEW i \in 1 .. NumVars, i - 1 \in Good
      PROVE  i \in Good
  <2> SUFFICES ASSUME NEW a \in C \ Terminals, Level(a) >= NumVars - i
               PROVE  Visited(f[i][a], C, a)
    BY <1>4, <1>5
  <2>1. ASSUME NEW c \in {Low(a), High(a)}
        PROVE  Visited(f[i - 1][c], C, c)
    <3>1. c \in C /\ (c \in Terminals \/ Level(c) > Level(a))
      BY <1>3 DEF Below
    <3>2. c \notin Terminals => Level(c) \in Vars /\ Level(a) \in Vars
      BY <1>3, <3>1
    <3>3. Deep(c, i - 1)
      BY <1>4, <3>1, <3>2 DEF Vars
    <3> QED
      BY <1>7, <3>1, <3>3
  <2>2. f[i][a] = f[i - 1][Low(a)] \o f[i - 1][High(a)] \o <<a>>
    BY <1>1, <1>2
  <2>3. Visited(f[i - 1][Low(a)] \o f[i - 1][High(a)] \o <<a>>, C, a)
    BY <1>3, <2>1, VisitedParent
  <2> QED
    BY <2>2, <2>3
<1>8. NumVars \in Good
  <2> HIDE DEF Good
  <2>1. \A i \in 0 .. NumVars : i \in Good
    BY <1>4, <1>6, <1>7, UpTo
  <2> QED
    BY <1>4, <2>1
<1>9. Deep(root, NumVars)
  BY <1>3, <1>4 DEF Vars
<1> QED
  BY <1>1, <1>8, <1>9

-----------------------------------------------------------------------------
(* The steps of serialize.                                                 *)

\* The step is t's alone.
OthersStay(t) ==
  \A u \in Threads : u # t =>
    /\ pc'[u] = pc[u] /\ todo'[u] = todo[u] /\ owned'[u] = owned[u]
    /\ cut'[u] = cut[u] /\ pos'[u] = pos[u] /\ map'[u] = map[u] /\ ret'[u] = ret[u]

LEMMA OtherAgrees ==
  ASSUME Core, Core', Grows, NEW t \in Threads, OthersStay(t),
         NEW u \in Threads, u # t, StreamAgrees(u), pc[u] \notin StreamInUse \/ UNCHANGED stream
  PROVE  StreamAgrees(u)'
<1>1. /\ pc'[u] = pc[u] /\ todo'[u] = todo[u] /\ owned'[u] = owned[u]
      /\ cut'[u] = cut[u] /\ pos'[u] = pos[u] /\ map'[u] = map[u] /\ ret'[u] = ret[u]
  BY DEF OthersStay
<1>2. CASE pc[u] \notin StreamInUse
  BY <1>1, <1>2 DEF StreamAgrees, StreamInUse
<1>3. CASE pc[u] = "write"
  <2>1. WriteAgrees(u)'
    BY <1>1, <1>3, WriteSame DEF StreamAgrees, Grows, StreamInUse
  <2> QED
    BY <1>1, <1>3, <2>1 DEF StreamAgrees
<1>4. CASE pc[u] = "open"
  BY <1>1, <1>4 DEF StreamAgrees, StreamInUse
<1>5. CASE pc[u] \in {"read", "ref"}
  <2>1. ReadAgrees(u)'
    BY <1>1, <1>5, ReadSame DEF StreamAgrees, StreamInUse
  <2> QED
    BY <1>1, <1>5, <2>1 DEF StreamAgrees
<1> QED
  BY <1>2, <1>3, <1>4, <1>5 DEF StreamInUse

LEMMA StreamStep ==
  ASSUME IoInv, Core', Grows, NEW t \in Threads, OthersStay(t),
         pc'[t] \in StreamInUse => pc[t] \in StreamInUse \/ StreamFree,
         pc[t] \in StreamInUse \/ StreamFree \/ UNCHANGED stream,
         StreamTyped', StreamRefsAgree', StreamAgrees(t)'
  PROVE  IoInv'
<1>1. Core /\ OneStream /\ TerminalsRooted /\ \A u \in Threads : StreamAgrees(u)
  BY DEF IoInv
<1>2. \A u \in Threads : u # t => pc'[u] = pc[u]
  BY DEF OthersStay
<1>3. OneStream'
  BY <1>1, <1>2 DEF OneStream, StreamFree, StreamInUse
<1>4. \A u \in Threads : u # t => pc[u] \notin StreamInUse \/ UNCHANGED stream
  BY <1>1 DEF OneStream, StreamFree, StreamInUse
<1>5. \A u \in Threads : StreamAgrees(u)'
  BY <1>1, <1>4, OtherAgrees
<1>6. TerminalsRooted'
  BY <1>1, TerminalsRootedSame DEF Grows
<1> QED
  BY <1>3, <1>5, <1>6 DEF IoInv

(* Where no reference changes, though some may be lost.                    *)
LEMMA StreamRefsKept ==
  ASSUME StreamRefsAgree, UNCHANGED <<refs, owned, map>>, lost \subseteq lost'
  PROVE  StreamRefsAgree'
<1>1. \A a \in Addr : Held(a)' = Held(a) /\ InMap(a)' = InMap(a) /\ Surplus(a)' = Surplus(a)
  BY DEF Surplus, Held, InMap
<1> QED
  BY <1>1 DEF StreamRefsAgree, Counted

(* Where the table is left alone nothing moves under a node.               *)
LEMMA ReachSame ==
  ASSUME Core, Core', UNCHANGED <<nodes, key, den>>, NEW r \in nodes
  PROVE  \A a \in Reach({r}) : a \in Reach({r})'
BY ReachKept

LEMMA BeginSerializeIo ==
  ASSUME IoInv, NEW t \in Threads, NEW r \in Addr, BeginSerialize(t, r)
  PROVE  IoInv'
<1>1. Core /\ Core' /\ Typed /\ Diagram /\ RootsAlive /\ StreamTyped
  BY BeginSerializeCore DEF IoInv, Core
<1>2. /\ Goto(t, "write") /\ pc[t] = "idle" /\ IsOperand(t, r) /\ StreamFree
      /\ stream' = <<>> /\ todo' = [todo EXCEPT ![t] = Visit(r)]
      /\ UNCHANGED <<nodes, key, den, refs, owned, map, lost, cut, pos, ret>>
  BY DEF BeginSerialize, MayCall, managerVars, readVars
<1>3. pc'[t] = "write" /\ \A u \in Threads : u # t => pc'[u] = pc[u]
  BY <1>1, <1>2, GotoMoves DEF StreamSteps
<1> DEFINE s == Visit(r)
           C == Reach({r})
<1>4. r \in nodes /\ r \in C /\ C \subseteq nodes /\ \A a \in C : Children(a) \subseteq C
  BY <1>1, <1>2, CoreBelowAlive DEF RootsAlive, Rooted, IsOperand, BelowAlive
<1>5. Visited(s, C, r)
  <2> HIDE DEF C
  <2> QED
    BY <1>1, <1>4, VisitVisits
<1>6. s \in Seq(Addr)
  <2>1. s \in Seq(C \ Terminals) /\ C \ Terminals \subseteq Addr
    BY <1>1, <1>4, <1>5, NodesTyped DEF Visited
  <2> HIDE DEF s, C
  <2> QED
    BY <2>1
<1>7. \A a \in C : a \in Reach({r})'
  BY <1>1, <1>2, <1>4, ReachSame
<1> HIDE DEF s, C
<1>8. todo'[t] = s /\ todo' \in [Threads -> Seq(Addr)] /\ \A u \in Threads : u # t => todo'[u] = todo[u]
  BY <1>1, <1>2, <1>6 DEF StreamTyped, s
<1>9. WellFormed(stream')
  BY <1>2 DEF WellFormed
<1>10. StreamTyped'
  BY <1>1, <1>2, <1>8, <1>9 DEF StreamTyped
<1>11. \A i \in 1 .. Len(s) : s[i] \in C /\ s[i] \notin Terminals
  BY <1>5 DEF Visited
<1>12. WriteAgrees(t)'
  <2>1. WriteHeld(t)'
    <3>1. \A i \in 1 .. Len(todo'[t]) : todo'[t][i] \in Reach({r})'
      BY <1>7, <1>8, <1>11
    <3>2. 1 .. Len(stream') = {}
      BY <1>2
    <3>3. IsOperand(t, r)'
      BY <1>2 DEF IsOperand
    <3> QED
      BY <3>1, <3>2, <3>3 DEF WriteHeld
  <2>2. WrittenAgrees'
    BY <1>2 DEF WrittenAgrees
  <2>3. ChildrenFirst(t)'
    BY <1>2, <1>5, <1>8, <1>11 DEF ChildrenFirst, Visited, Children, Low, High
  <2> QED
    BY <2>1, <2>2, <2>3 DEF WriteAgrees
<1>13. StreamAgrees(t)'
  BY <1>2, <1>3, <1>12 DEF StreamAgrees, IoInv
<1>14. OthersStay(t) /\ Grows
  BY <1>2, <1>3, <1>8 DEF OthersStay, Grows
<1>15. StreamRefsAgree'
  BY <1>2, StreamRefsKept DEF IoInv
<1> QED
  BY <1>1, <1>2, <1>10, <1>13, <1>14, <1>15, StreamStep

(* A stream goes on with a record whose children it has.                   *)
LEMMA WellFormedMore ==
  ASSUME NEW s, WellFormed(s),
         NEW r \in [id : Nat, level : Nat, low : Nat, high : Nat, den : SUBSET Assignments],
         r.id \notin Terminals, Unmarked(r) \in Vars,
         NEW lo \in Earlier(Append(s, r), Len(s) + 1),
         NEW hi \in Earlier(Append(s, r), Len(s) + 1),
         Stands(Append(s, r), Len(s) + 1, r.low, lo),
         Stands(Append(s, r), Len(s) + 1, r.high, hi),
         r.den = Mux(Unmarked(r), lo, hi),
         \A m \in 1 .. Len(s) : s[m].id = r.id => s[m].den = r.den
  PROVE  WellFormed(Append(s, r))
<1> DEFINE R == [id : Nat, level : Nat, low : Nat, high : Nat, den : SUBSET Assignments]
           w == Append(s, r)
<1>1. s \in Seq(R) /\ r \in R
  BY DEF WellFormed
<1>2. /\ w \in Seq(R) /\ Len(w) = Len(s) + 1 /\ Len(s) \in Nat
      /\ w[Len(s) + 1] = r /\ \A n \in 1 .. Len(s) : w[n] = s[n]
  <2> HIDE DEF R
  <2> QED
    BY <1>1
<1> HIDE DEF w, R
<1>3. ASSUME NEW n \in 1 .. Len(s)
      PROVE  /\ w[n] = s[n]
             /\ \A m \in 1 .. n - 1 : w[m] = s[m]
             /\ \A id, f : Stands(s, n, id, f) => Stands(w, n, id, f)
  <2>1. w[n] = s[n] /\ \A m \in 1 .. n - 1 : w[m] = s[m]
    BY <1>2
  <2> QED
    BY <2>1 DEF Stands
<1>4. ASSUME NEW n \in 1 .. Len(s)
      PROVE  /\ w[n].id \notin Terminals
             /\ Unmarked(w[n]) \in Vars
             /\ \E f, g \in Earlier(w, n) :
                  /\ Stands(w, n, w[n].low, f) /\ Stands(w, n, w[n].high, g)
                  /\ w[n].den = Mux(Unmarked(w[n]), f, g)
  <2>1. PICK f, g \in Earlier(s, n) :
               /\ Stands(s, n, s[n].low, f) /\ Stands(s, n, s[n].high, g)
               /\ s[n].den = Mux(Unmarked(s[n]), f, g)
    <3>1. \E f, g \in Earlier(s, n) :
               /\ Stands(s, n, s[n].low, f) /\ Stands(s, n, s[n].high, g)
               /\ s[n].den = Mux(Unmarked(s[n]), f, g)
      BY DEF WellFormed
    <3> QED
      BY <3>1
  <2>2. Earlier(s, n) = Earlier(w, n)
    <3>1. \A m \in 1 .. n - 1 : s[m].den = w[m].den
      BY <1>3
    <3>2. {s[m].den : m \in 1 .. n - 1} = {w[m].den : m \in 1 .. n - 1}
      BY <3>1
    <3> QED
      BY <3>2 DEF Earlier
  <2>3. s[n].id \notin Terminals /\ Unmarked(s[n]) \in Vars
    BY DEF WellFormed
  <2> QED
    BY <1>3, <2>1, <2>2, <2>3
<1>5. ASSUME NEW n \in 1 .. Len(w), n = Len(s) + 1
      PROVE  /\ w[n].id \notin Terminals
             /\ Unmarked(w[n]) \in Vars
             /\ \E f, g \in Earlier(w, n) :
                  /\ Stands(w, n, w[n].low, f) /\ Stands(w, n, w[n].high, g)
                  /\ w[n].den = Mux(Unmarked(w[n]), f, g)
  <2>1. w[n] = r
    BY <1>2, <1>5
  <2> QED
    BY <1>5, <2>1 DEF w
<1>6. \A n \in 1 .. Len(w) : n \in 1 .. Len(s) \/ n = Len(s) + 1
  BY <1>2
<1>7. \A m, n \in 1 .. Len(w) : w[m].id = w[n].id => w[m].den = w[n].den
  <2>1. \A m, n \in 1 .. Len(s) : s[m].id = s[n].id => s[m].den = s[n].den
    BY DEF WellFormed
  <2> QED
    BY <1>2, <1>6, <2>1
<1>8. WellFormed(w)
  BY <1>2, <1>4, <1>5, <1>6, <1>7 DEF WellFormed, R
<1> QED
  BY <1>8 DEF w

(* A record says what the node is, MARK or not.                            *)
LEMMA RecordSays ==
  ASSUME Core, NEW h \in nodes \ Terminals
  PROVE  /\ Record(h) \in [id : Nat, level : Nat, low : Nat, high : Nat,
                           den : SUBSET Assignments]
         /\ Record(h).id = h /\ Record(h).den = den[h]
         /\ Record(h).low = Low(h) /\ Record(h).high = High(h)
         /\ Unmarked(Record(h)) = Level(h)
<1>1. Typed /\ Diagram /\ Mark \in Nat /\ Mark > NumVars /\ NumVars \in Nat
  BY MarkAssumption, BootAssumption DEF Core
<1>2. /\ h \in Nat /\ Low(h) \in Nat /\ High(h) \in Nat /\ den[h] \in SUBSET Assignments
      /\ Level(h) \in Vars
  BY <1>1, NodesTyped, AddrAssumption DEF Ptr, Null, Diagram, Ordered
<1>3. Level(h) \in Nat /\ Level(h) < NumVars
  BY <1>1, <1>2 DEF Vars
<1>4. Record(h).level = Level(h) + IF h \in marked THEN Mark ELSE 0
  BY DEF Record
<1>5. Record(h).level \in Nat /\ Unmarked(Record(h)) = Level(h)
  BY <1>1, <1>3, <1>4 DEF Unmarked
<1> QED
  BY <1>2, <1>4, <1>5 DEF Record

LEMMA WriteRecordIo ==
  ASSUME IoInv, NEW t \in Threads, WriteRecord(t)
  PROVE  IoInv'
<1> DEFINE q == todo[t]
           h == Head(q)
           s == stream
           w == Append(s, Record(h))
<1>1. Core /\ Core' /\ Typed /\ Diagram /\ RootsAlive /\ StreamTyped
  BY WriteRecordCore DEF IoInv, Core
<1>2. /\ pc[t] = "write" /\ q # <<>> /\ stream' = w
      /\ todo' = [todo EXCEPT ![t] = Tail(q)]
      /\ UNCHANGED <<nodes, key, den, refs, owned, pc, map, lost, cut, pos, ret>>
  BY DEF WriteRecord, managerVars, clientVars, readVars
<1>3. WellFormed(s) /\ q \in Seq(Addr)
  BY <1>1 DEF StreamTyped
<1>4. /\ Len(q) \in Nat \ {0} /\ h = q[1]
      /\ Tail(q) \in Seq(Addr) /\ Len(Tail(q)) = Len(q) - 1
      /\ \A i \in 1 .. Len(q) - 1 : Tail(q)[i] = q[i + 1]
  <2> HIDE DEF q
  <2> QED
    BY <1>2, <1>3
<1>5. WriteHeld(t) /\ WrittenAgrees /\ ChildrenFirst(t)
  BY <1>2 DEF IoInv, StreamAgrees, WriteAgrees
<1>6. PICK r \in Addr :
             /\ IsOperand(t, r)
             /\ \A n \in 1 .. Len(s) : s[n].id \in Reach({r})
             /\ \A i \in 1 .. Len(q) : q[i] \in Reach({r})
  BY <1>5 DEF WriteHeld
<1>7. r \in nodes /\ Reach({r}) \subseteq nodes
  BY <1>1, <1>6, CoreBelowAlive DEF RootsAlive, Rooted, IsOperand, BelowAlive
<1>8. h \in nodes \ Terminals /\ h \in Reach({r})
  <2> HIDE DEF h, q
  <2>1. 1 \in 1 .. Len(q)
    BY <1>4
  <2>2. q[1] \notin Terminals
    BY <1>5, <2>1 DEF ChildrenFirst, q
  <2> QED
    BY <1>4, <1>6, <1>7, <2>1, <2>2
<1> HIDE DEF h, w, q, s
<1>9. /\ s \in Seq([id : Nat, level : Nat, low : Nat, high : Nat, den : SUBSET Assignments])
      /\ Record(h) \in [id : Nat, level : Nat, low : Nat, high : Nat, den : SUBSET Assignments]
  BY <1>1, <1>3, <1>8, RecordSays DEF WellFormed
<1>10. /\ Len(s) \in Nat /\ Len(w) = Len(s) + 1
       /\ w[Len(s) + 1] = Record(h) /\ \A n \in 1 .. Len(s) : w[n] = s[n]
  <2>1. PICK S : s \in Seq(S) /\ Record(h) \in S
    BY <1>9
  <2> QED
    BY <2>1 DEF w
<1>11. /\ Record(h).id = h /\ Record(h).den = den[h]
       /\ Record(h).low = Low(h) /\ Record(h).high = High(h)
       /\ Unmarked(Record(h)) = Level(h)
  BY <1>1, <1>8, RecordSays
<1>12. /\ Level(h) \in Vars /\ Low(h) \in nodes /\ High(h) \in nodes
       /\ Below(Low(h), Level(h)) /\ Below(High(h), Level(h))
       /\ den[h] = Mux(Level(h), den[Low(h)], den[High(h)])
  BY <1>1, <1>8 DEF Diagram, Ordered
<1>13. ASSUME NEW c \in {Low(h), High(h)}
       PROVE  Stands(w, Len(s) + 1, c, den[c]) /\ den[c] \in Earlier(w, Len(s) + 1)
  <2>1. CASE c \in Terminals
    <3>1. (c = TrueId /\ den[c] = Assignments) \/ (c = FalseId /\ den[c] = {})
      BY <1>1, <2>1 DEF Terminals, Diagram, TerminalsAgree
    <3> QED
      BY <3>1 DEF Stands, Earlier
  <2>2. CASE c \notin Terminals
    <3>1. c \in Children(h)
      <4>1. c # Null
        BY <1>1, <1>12, NodesTyped
      <4> QED
        BY <4>1 DEF Children
    <3>2. PICK n \in 1 .. Len(s) : s[n].id = c
      <4>1. /\ 1 \in 1 .. Len(q) /\ q[1] = h /\ 1 .. 1 - 1 = {}
        BY <1>4
      <4> QED
        BY <1>5, <2>2, <3>1, <4>1 DEF ChildrenFirst, q, s
    <3>3. Unmarked(s[n]) = Level(c) /\ s[n].den = den[c]
      BY <1>5, <3>2 DEF WrittenAgrees, s
    <3>4. w[n] = s[n] /\ n \in 1 .. (Len(s) + 1) - 1 /\ Unmarked(w[Len(s) + 1]) = Level(h)
      BY <1>10, <1>11, <3>2
    <3>5. Level(c) > Level(h)
      BY <1>12, <2>2 DEF Below
    <3> QED
      BY <3>2, <3>3, <3>4, <3>5 DEF Stands, Earlier
  <2> QED
    BY <2>1, <2>2
<1>14. \A m \in 1 .. Len(s) : s[m].id = h => s[m].den = den[h]
  BY <1>5 DEF WrittenAgrees, s
<1>15. WellFormed(w)
  BY <1>3, <1>8, <1>9, <1>11, <1>12, <1>13, <1>14, WellFormedMore DEF w
<1>16. /\ todo'[t] = Tail(q) /\ todo' \in [Threads -> Seq(Addr)]
       /\ \A u \in Threads : u # t => todo'[u] = todo[u]
  BY <1>1, <1>2, <1>4 DEF StreamTyped
<1>17. StreamTyped'
  BY <1>1, <1>2, <1>15, <1>16 DEF StreamTyped
<1>18. \A a \in Reach({r}) : a \in Reach({r})'
  BY <1>1, <1>2, <1>7, ReachSame
<1>19. \A n \in 1 .. Len(w) : n \in 1 .. Len(s) \/ n = Len(s) + 1
  BY <1>10
<1>20. WriteHeld(t)'
  <2>1. \A n \in 1 .. Len(stream') : stream'[n].id \in Reach({r})'
    BY <1>2, <1>6, <1>8, <1>10, <1>11, <1>18, <1>19
  <2>2. \A i \in 1 .. Len(todo'[t]) : todo'[t][i] \in Reach({r})'
    <3> SUFFICES ASSUME NEW i \in 1 .. Len(Tail(q))
                 PROVE  Tail(q)[i] \in Reach({r})'
      BY <1>16
    <3>1. i + 1 \in 1 .. Len(q) /\ Tail(q)[i] = q[i + 1]
      BY <1>4
    <3> QED
      BY <1>6, <1>18, <3>1
  <2>3. IsOperand(t, r)'
    BY <1>2, <1>6 DEF IsOperand
  <2> QED
    BY <2>1, <2>2, <2>3 DEF WriteHeld
<1>21. WrittenAgrees'
  <2>1. \A n \in 1 .. Len(w) : /\ w[n].id \notin Terminals
                               /\ Unmarked(w[n]) = Level(w[n].id)
                               /\ w[n].den = den[w[n].id]
    BY <1>5, <1>8, <1>10, <1>11, <1>19 DEF WrittenAgrees, s
  <2> QED
    BY <1>2, <2>1 DEF WrittenAgrees, Level, Unmarked
<1>22. ChildrenFirst(t)'
  <2> SUFFICES ASSUME NEW i \in 1 .. Len(Tail(q))
               PROVE  /\ Tail(q)[i] \notin Terminals
                      /\ \A c \in Children(Tail(q)[i]) \ Terminals :
                           \/ \E n \in 1 .. Len(w) : w[n].id = c
                           \/ \E j \in 1 .. i - 1 : Tail(q)[j] = c
    <3>1. key' = key /\ stream' = w /\ todo'[t] = Tail(q)
      BY <1>2, <1>16
    <3>2. \A i : Children(todo[t][i])' = Children(Tail(q)[i])
      BY <3>1 DEF Children, Low, High
    <3> QED
      BY <3>1, <3>2 DEF ChildrenFirst
  <2>1. i + 1 \in 1 .. Len(q) /\ Tail(q)[i] = q[i + 1]
    BY <1>4
  <2>2. Tail(q)[i] \notin Terminals
    BY <1>5, <2>1 DEF ChildrenFirst, q
  <2>3. ASSUME NEW c \in Children(Tail(q)[i]) \ Terminals
        PROVE  \/ \E n \in 1 .. Len(w) : w[n].id = c
               \/ \E j \in 1 .. i - 1 : Tail(q)[j] = c
    <3>1. \/ \E n \in 1 .. Len(s) : s[n].id = c
          \/ \E j \in 1 .. (i + 1) - 1 : q[j] = c
      BY <1>5, <2>1, <2>3 DEF ChildrenFirst, q, s
    <3>2. ASSUME NEW n \in 1 .. Len(s), s[n].id = c
          PROVE  n \in 1 .. Len(w) /\ w[n].id = c
      BY <1>10, <3>2
    <3>3. ASSUME NEW j \in 1 .. (i + 1) - 1, q[j] = c
          PROVE  \/ \E n \in 1 .. Len(w) : w[n].id = c
                 \/ \E k \in 1 .. i - 1 : Tail(q)[k] = c
      <4>1. CASE j = 1
        <5>1. Len(s) + 1 \in 1 .. Len(w) /\ w[Len(s) + 1].id = c
          BY <1>4, <1>10, <1>11, <3>3, <4>1
        <5> QED
          BY <5>1
      <4>2. CASE j # 1
        <5>1. j - 1 \in 1 .. i - 1 /\ j - 1 \in 1 .. Len(q) - 1 /\ (j - 1) + 1 = j
          BY <1>4, <2>1, <4>2
        <5>2. Tail(q)[j - 1] = c
          BY <1>4, <3>3, <5>1
        <5> QED
          BY <5>1, <5>2
      <4> QED
        BY <4>1, <4>2
    <3> QED
      BY <3>1, <3>2, <3>3
  <2> QED
    BY <2>2, <2>3
<1>23. StreamAgrees(t)'
  BY <1>2, <1>20, <1>21, <1>22 DEF StreamAgrees, WriteAgrees, IoInv
<1>24. OthersStay(t) /\ Grows
  BY <1>2, <1>16 DEF OthersStay, Grows
<1>25. StreamRefsAgree'
  BY <1>2, StreamRefsKept DEF IoInv
<1> QED
  BY <1>1, <1>2, <1>17, <1>23, <1>24, <1>25, StreamStep DEF StreamInUse

LEMMA EndSerializeIo ==
  ASSUME IoInv, NEW t \in Threads, EndSerialize(t)
  PROVE  IoInv'
<1>1. Core /\ Core' /\ Typed /\ StreamTyped
  BY EndSerializeCore DEF IoInv, Core
<1>2. /\ pc[t] = "write" /\ Goto(t, "idle")
      /\ UNCHANGED <<nodes, key, den, refs, owned, stream, todo, map, lost, cut, pos, ret>>
  BY DEF EndSerialize, managerVars, clientVars, ioVars, readVars
<1>3. pc'[t] = "idle" /\ \A u \in Threads : u # t => pc'[u] = pc[u]
  BY <1>1, <1>2, GotoMoves DEF Steps
<1>4. StreamTyped' /\ OthersStay(t) /\ Grows
  BY <1>1, <1>2, <1>3 DEF StreamTyped, OthersStay, Grows
<1>5. StreamAgrees(t)'
  BY <1>2, <1>3 DEF IoInv, StreamAgrees
<1>6. StreamRefsAgree'
  BY <1>2, StreamRefsKept DEF IoInv
<1> QED
  BY <1>1, <1>2, <1>4, <1>5, <1>6, StreamStep DEF StreamInUse

-----------------------------------------------------------------------------
(* The steps of deserialize.                                               *)

LEMMA BeginDeserializeIo ==
  ASSUME IoInv, NEW t \in Threads, NEW n \in 0 .. Len(stream), BeginDeserialize(t, n)
  PROVE  IoInv'
<1>1. Core /\ Core' /\ Typed /\ StreamTyped
  BY BeginDeserializeCore DEF IoInv, Core
<1>2. /\ pc[t] = "idle" /\ Goto(t, "open") /\ StreamFree /\ cut' = [cut EXCEPT ![t] = n]
      /\ UNCHANGED <<nodes, key, den, refs, owned, stream, todo, map, lost, pos, ret>>
  BY DEF BeginDeserialize, MayCall, managerVars
<1>3. pc'[t] = "open" /\ \A u \in Threads : u # t => pc'[u] = pc[u]
  BY <1>1, <1>2, GotoMoves DEF StreamSteps
<1>4. n \in Nat /\ n <= Len(stream)
  BY <1>1 DEF StreamTyped, WellFormed
<1>5. cut'[t] = n /\ cut' \in [Threads -> Nat] /\ \A u \in Threads : u # t => cut'[u] = cut[u]
  BY <1>1, <1>2, <1>4 DEF StreamTyped
<1>6. StreamTyped' /\ OthersStay(t) /\ Grows
  BY <1>1, <1>2, <1>3, <1>5 DEF StreamTyped, OthersStay, Grows
<1>7. StreamAgrees(t)'
  BY <1>2, <1>3, <1>4, <1>5 DEF IoInv, StreamAgrees
<1>8. StreamRefsAgree'
  BY <1>2, StreamRefsKept DEF IoInv
<1> QED
  BY <1>1, <1>2, <1>6, <1>7, <1>8, StreamStep

LEMMA OpenIo ==
  ASSUME IoInv, NEW t \in Threads, Open(t)
  PROVE  IoInv'
<1>1. Core /\ Core' /\ Typed /\ StreamTyped
  BY OpenCore DEF IoInv, Core
<1>2. /\ pc[t] = "open" /\ Goto(t, "read")
      /\ UNCHANGED <<nodes, key, den, refs, owned, stream, todo, map, lost, cut, pos, ret>>
  BY DEF Open, managerVars, clientVars, ioVars, readVars
<1>3. pc'[t] = "read" /\ \A u \in Threads : u # t => pc'[u] = pc[u]
  BY <1>1, <1>2, GotoMoves DEF StreamSteps
<1>4. StreamTyped' /\ OthersStay(t) /\ Grows
  BY <1>1, <1>2, <1>3 DEF StreamTyped, OthersStay, Grows
<1>5. /\ cut[t] <= Len(stream) /\ cut[t] \in Nat
      /\ pos[t] = 0 /\ ret[t] = Null /\ DOMAIN map[t] = {}
  BY <1>1, <1>2 DEF IoInv, StreamAgrees, StreamTyped
<1>6. ReadAgrees(t)'
  <2>1. 1 .. pos[t] = {} /\ pos[t] <= cut[t]
    BY <1>5
  <2> QED
    BY <1>2, <1>3, <1>5, <2>1 DEF ReadAgrees
<1>7. StreamAgrees(t)'
  BY <1>3, <1>6 DEF StreamAgrees
<1>8. StreamRefsAgree'
  BY <1>2, StreamRefsKept DEF IoInv
<1> QED
  BY <1>1, <1>2, <1>4, <1>7, <1>8, StreamStep DEF StreamInUse

LEMMA CloseIo ==
  ASSUME IoInv, NEW t \in Threads, Close(t)
  PROVE  IoInv'
<1>1. Core /\ Core' /\ Typed /\ StreamTyped
  BY CloseCore DEF IoInv, Core
<1>2. /\ pc[t] = "close" /\ Goto(t, "idle")
      /\ UNCHANGED <<nodes, key, den, refs, owned, stream, todo, map, lost, cut, pos, ret>>
  BY DEF Close, managerVars, clientVars, ioVars, readVars
<1>3. pc'[t] = "idle" /\ \A u \in Threads : u # t => pc'[u] = pc[u]
  BY <1>1, <1>2, GotoMoves DEF Steps
<1>4. StreamTyped' /\ OthersStay(t) /\ Grows
  BY <1>1, <1>2, <1>3 DEF StreamTyped, OthersStay, Grows
<1>5. StreamAgrees(t)'
  BY <1>2, <1>3 DEF IoInv, StreamAgrees
<1>6. StreamRefsAgree'
  BY <1>2, StreamRefsKept DEF IoInv
<1> QED
  BY <1>1, <1>2, <1>3, <1>4, <1>5, <1>6, StreamStep DEF StreamInUse

LEMMA RecordsTyped ==
  ASSUME NEW s, WellFormed(s)
  PROVE  \A n \in 1 .. Len(s) : s[n].level \in Nat
<1> DEFINE R == [id : Nat, level : Nat, low : Nat, high : Nat, den : SUBSET Assignments]
<1>1. s \in Seq(R)
  BY DEF WellFormed
<1>2. \A x \in R : x.level \in Nat
  OBVIOUS
<1> HIDE DEF R
<1> QED
  BY <1>1, <1>2

(* The record that comes next.                                             *)
LEMMA UpcomingSays ==
  ASSUME IoInv, NEW t \in Threads, pc[t] \in {"read", "ref"}, pos[t] < cut[t]
  PROVE  /\ ReadAgrees(t) /\ pos[t] \in Nat /\ pos[t] + 1 \in 1 .. Len(stream)
         /\ Upcoming(t).id \notin Terminals /\ Unmarked(Upcoming(t)) \in Vars
         /\ \E lo, hi :
              /\ Stands(stream, pos[t] + 1, Upcoming(t).low, lo)
              /\ Stands(stream, pos[t] + 1, Upcoming(t).high, hi)
              /\ Upcoming(t).den = Mux(Unmarked(Upcoming(t)), lo, hi)
<1>1. WellFormed(stream) /\ pos[t] \in Nat /\ cut[t] \in Nat /\ Len(stream) \in Nat
  BY DEF IoInv, StreamTyped, WellFormed
<1>2. ReadAgrees(t) /\ cut[t] <= Len(stream)
  BY DEF IoInv, StreamAgrees, ReadAgrees
<1>3. pos[t] + 1 \in 1 .. Len(stream)
  BY <1>1, <1>2
<1>4. PICK n \in 1 .. Len(stream) : n = pos[t] + 1
  BY <1>3
<1>5. /\ stream[n].id \notin Terminals /\ Unmarked(stream[n]) \in Vars
      /\ \E lo, hi : /\ Stands(stream, n, stream[n].low, lo)
                     /\ Stands(stream, n, stream[n].high, hi)
                     /\ stream[n].den = Mux(Unmarked(stream[n]), lo, hi)
  BY <1>1 DEF WellFormed
<1> QED
  BY <1>1, <1>2, <1>3, <1>4, <1>5 DEF Upcoming

LEMMA ReadRecordIo ==
  ASSUME IoInv, NEW t \in Threads, ReadRecord(t)
  PROVE  IoInv'
<1> DEFINE r == Upcoming(t)
           v == r.level
<1>1. /\ Core /\ StreamTyped /\ Typed /\ GuardsAgree /\ RootsAlive /\ Diagram
      /\ \A u \in Threads : StreamAgrees(u)
  BY DEF IoInv, Core
<1>2. pc[t] = "read" /\ pos[t] < cut[t] /\ v <= NumVars /\ Goto(t, "ref")
  BY DEF ReadRecord, Reading
<1>3. /\ UNCHANGED <<marked, buckets, slots, cache, entries, size, eval, val, stack>>
      /\ UNCHANGED <<call, owned, calls, stream, todo, cut, pos, map, lost>>
      /\ UNCHANGED lockVars
  BY DEF ReadRecord, sizeVars, loadVars, recVars, clientVars
<1>4. /\ ReadAgrees(t) /\ pos[t] \in Nat /\ Unmarked(r) \in Vars
      /\ \E lo, hi : /\ Stands(stream, pos[t] + 1, r.low, lo)
                     /\ Stands(stream, pos[t] + 1, r.high, hi)
                     /\ r.den = Mux(Unmarked(r), lo, hi)
  BY <1>2, UpcomingSays
<1>5. Unmarked(r) = v
  <2>1. ~ (v > NumVars)
    <3>1. v \in Nat
      <4>1. pos[t] + 1 \in 1 .. Len(stream)
        BY <1>2, UpcomingSays
      <4>2. \A n \in 1 .. Len(stream) : stream[n].level \in Nat
        BY <1>1, RecordsTyped DEF StreamTyped
      <4> QED
        BY <4>1, <4>2 DEF Upcoming
    <3> QED
      BY <1>2, <3>1, BootAssumption
  <2> QED
    BY <2>1 DEF Unmarked
<1>6. PICK lo, hi : /\ Stands(stream, pos[t] + 1, r.low, lo)
                    /\ Stands(stream, pos[t] + 1, r.high, hi)
                    /\ r.den = Mux(v, lo, hi)
  BY <1>4, <1>5
<1> DEFINE l == Mapped(t, r.low)
           h == Mapped(t, r.high)
<1>7. /\ l \in nodes /\ den[l] = lo /\ Below(l, v)
      /\ h \in nodes /\ den[h] = hi /\ Below(h, v)
  <2>1. WellFormed(stream) /\ pos \in [Threads -> Nat] /\ cut \in [Threads -> Nat]
    BY <1>1 DEF StreamTyped
  <2>2. ASSUME NEW id, NEW f, Stands(stream, pos[t] + 1, id, f)
        PROVE  /\ Mapped(t, id) \in nodes /\ den[Mapped(t, id)] = f
               /\ Below(Mapped(t, id), Unmarked(r))
    BY <1>1, <1>2, <1>4, <2>1, <2>2, ChildRead
  <2> QED
    BY <1>5, <1>6, <2>2
<1>8. PICK a \in Addr : MakeNode(v, l, h, a) /\ ret' = [ret EXCEPT ![t] = a]
  BY DEF ReadRecord
<1> HIDE DEF l, h, v, r
<1>9. /\ Grows /\ Diagram' /\ RootsAlive'
      /\ a \in nodes' /\ den'[a] = Mux(v, den[l], den[h])
      /\ nodes' \in SUBSET Addr /\ key' \in [Addr -> Nat \X Ptr \X Ptr]
      /\ refs' \in [Addr -> Int] /\ den' \in [Addr -> SUBSET Assignments]
      /\ numEntry' \in Nat
  BY <1>1, <1>3, <1>4, <1>5, <1>7, <1>8, MakeNodeAnswers
<1>10. /\ pc' \in [Threads -> Steps \union StreamSteps]
       /\ pc'[t] = "ref" /\ \A u \in Threads : u # t => pc'[u] = pc[u]
  BY <1>1, <1>2, GotoMoves DEF StreamSteps
<1>11. Core'
  <2>1. GuardsAgree'
    BY <1>1, <1>2, <1>3, GuardsSame DEF StreamSteps, ReadSteps, WriteSteps
  <2>2. MarksAgree'
    <3>1. \A u \in Threads : pc[u] \notin WriteSteps
      BY <1>1, <1>2, ReaderAlone DEF ReadSteps
    <3> QED
      BY <1>10, <3>1, NoSweepNoMarks DEF WriteSteps
  <2>3. CachesAgree' /\ \A u \in Threads : CallAgrees(u)' /\ RecursionAgrees(u)'
    <3>1. /\ "ref" \in StreamSteps \union {"idle", "panicked"}
          /\ pc[t] \in StreamSteps \union {"idle"}
      BY <1>2 DEF StreamSteps
    <3> QED
      BY <1>1, <1>2, <1>3, <1>9, <3>1, StreamKeepsCalls
  <2>4. Typed'
    <3>1. marked' \in SUBSET nodes'
      BY <1>1, <1>3, <1>9 DEF Typed, DataOK, Grows
    <3> QED
      BY <1>1, <1>3, <1>9, <1>10, <3>1 DEF Typed, DataOK, lockVars, Lock!TypeOK
  <2> QED
    BY <1>9, <2>1, <2>2, <2>3, <2>4 DEF Core
<1>12. ret'[t] = a /\ a # Null /\ \A u \in Threads : u # t => ret'[u] = ret[u]
  BY <1>1, <1>8, AddrAssumption DEF StreamTyped
<1>13. StreamTyped'
  <2>1. ret' \in [Threads -> Ptr]
    BY <1>1, <1>8 DEF StreamTyped, Ptr
  <2> QED
    BY <1>1, <1>3, <2>1 DEF StreamTyped
<1>14. OthersStay(t)
  BY <1>3, <1>10, <1>12 DEF OthersStay
<1>15. StreamRefsAgree'
  <2>1. \A b \in Addr : IsFiniteSet(Held(b)) => Counts(b)
    BY <1>1, <1>3, <1>8, CountsMade
  <2> QED
    BY <1>1, <1>3, <1>11, <2>1, StreamRefsCount DEF IoInv
<1>16. ReadAgrees(t)'
  <2>1. /\ Upcoming(t)' = r /\ den'[a] = r.den
    BY <1>3, <1>6, <1>7, <1>9 DEF Upcoming, r
  <2>2. pos[t] < cut[t] /\ stream # <<>>
    <3>1. Len(stream) \in Nat /\ cut[t] <= Len(stream) /\ cut[t] \in Nat
      BY <1>1, <1>4 DEF StreamTyped, WellFormed, ReadAgrees
    <3> QED
      BY <1>2, <1>4, <3>1
  <2> QED
    BY <1>3, <1>4, <1>9, <1>10, <1>12, <2>1, <2>2 DEF ReadAgrees, Grows
<1>17. StreamAgrees(t)'
  BY <1>10, <1>16 DEF StreamAgrees
<1> QED
  BY <1>2, <1>9, <1>11, <1>13, <1>14, <1>15, <1>17, StreamStep DEF StreamInUse

LEMMA NullRetIo ==
  ASSUME IoInv, NEW t \in Threads, NullRet(t)
  PROVE  IoInv'
<1>1. Core /\ Core' /\ Typed /\ StreamTyped
  BY NullRetCore DEF IoInv, Core
<1>2. /\ pc[t] = "read" /\ ret[t] = Null /\ Goto(t, "crashed")
      /\ UNCHANGED <<nodes, key, den, refs, owned, stream, todo, map, lost, cut, pos, ret>>
  BY DEF NullRet, managerVars, clientVars, ioVars, readVars
<1>3. pc'[t] = "crashed" /\ \A u \in Threads : u # t => pc'[u] = pc[u]
  BY <1>1, <1>2, GotoMoves DEF StreamSteps
<1>4. StreamTyped' /\ OthersStay(t) /\ Grows
  BY <1>1, <1>2, <1>3 DEF StreamTyped, OthersStay, Grows
<1>5. ReadAgrees(t) /\ pos[t] = 0
  BY <1>2 DEF IoInv, StreamAgrees, ReadAgrees
<1>6. DOMAIN map[t] = {}
  BY <1>5 DEF ReadAgrees
<1>7. StreamAgrees(t)'
  BY <1>2, <1>3, <1>5, <1>6 DEF StreamAgrees
<1>8. StreamRefsAgree'
  BY <1>2, StreamRefsKept DEF IoInv
<1> QED
  BY <1>1, <1>2, <1>3, <1>4, <1>7, <1>8, StreamStep DEF StreamInUse

-----------------------------------------------------------------------------
(* The references that deserialize counts.                                 *)

\* The ids that a map has for a.
MapOf(m, a) == {id \in DOMAIN m : m[id] = a}

(* There is no other map beside that of the stream that is read.           *)
LEMMA OneMap ==
  ASSUME IoInv, NEW t \in Threads, pc[t] \in {"read", "ref"}
  PROVE  /\ \A u \in Threads : u # t => DOMAIN map[u] = {}
         /\ \A a : InMap(a) = MapOf(map[t], a)
<1>1. \A u \in Threads : u # t => DOMAIN map[u] = {}
  BY DEF IoInv, OneStream, StreamInUse, StreamAgrees
<1> QED
  BY <1>1 DEF InMap, MapOf

LEMMA OneMapNext ==
  ASSUME NEW t \in Threads, \A u \in Threads : u # t => DOMAIN map[u] = {},
         \A u \in Threads : u # t => map'[u] = map[u]
  PROVE  \A a : InMap(a)' = MapOf(map'[t], a)
BY DEF InMap, MapOf

(* A record that the stream has again is of the node that the map has.     *)
LEMMA RecordAgain ==
  ASSUME IoInv, NEW t \in Threads, pc[t] = "ref", Upcoming(t).id \in DOMAIN map[t]
  PROVE  map[t][Upcoming(t).id] = ret[t]
<1> DEFINE id == Upcoming(t).id
<1>1. ReadAgrees(t) /\ Canonical /\ WellFormed(stream)
  BY DEF IoInv, StreamAgrees, StreamTyped, Core, Diagram
<1>2. ret[t] \in nodes /\ pos[t] < cut[t] /\ den[ret[t]] = Upcoming(t).den
  BY <1>1 DEF ReadAgrees
<1>3. pos[t] + 1 \in 1 .. Len(stream) /\ pos[t] \in Nat
  BY <1>2, UpcomingSays
<1>4. PICK n \in 1 .. pos[t] : id = stream[n].id
  BY <1>1 DEF ReadAgrees
<1>5. map[t][id] \in nodes /\ den[map[t][id]] = stream[n].den
  BY <1>1, <1>4 DEF ReadAgrees
<1>6. stream[n].den = Upcoming(t).den
  <2>1. n \in 1 .. Len(stream)
    BY <1>3, <1>4
  <2> QED
    BY <1>1, <1>3, <1>4, <2>1 DEF WellFormed, Upcoming
<1> QED
  BY <1>1, <1>2, <1>5, <1>6 DEF Canonical

LEMMA RefRecordIo ==
  ASSUME IoInv, NEW t \in Threads, RefRecord(t)
  PROVE  IoInv'
<1> DEFINE r == Upcoming(t)
           d == ret[t]
           m == map[t]
           w == [id \in DOMAIN m \union {r.id} |-> IF id = r.id THEN d ELSE m[id]]
<1>1. /\ Core /\ StreamTyped /\ Typed /\ StreamRefsAgree
      /\ \A u \in Threads : StreamAgrees(u)
  BY DEF IoInv, Core
<1>2. /\ pc[t] = "ref" /\ Goto(t, "read")
      /\ refs' = [refs EXCEPT ![d] = @ + 1]
      /\ map' = [map EXCEPT ![t] = w]
      /\ lost' = lost \union IF r.id \in DOMAIN m THEN {d} ELSE {}
      /\ pos' = [pos EXCEPT ![t] = @ + 1]
      /\ UNCHANGED <<nodes, key, den, owned, stream, todo, cut, ret>>
  BY DEF RefRecord, clientVars
<1>3. ReadAgrees(t) /\ d \in nodes /\ d # Null /\ pos[t] < cut[t] /\ den[d] = r.den
  BY <1>1, <1>2 DEF StreamAgrees, ReadAgrees
<1>4. /\ pos[t] \in Nat /\ cut[t] \in Nat /\ Len(stream) \in Nat
      /\ pos[t] + 1 \in 1 .. Len(stream) /\ d \in Addr
  BY <1>1, <1>2, <1>3, UpcomingSays, NodesTyped DEF StreamTyped, WellFormed
<1>5. Core'
  BY <1>1, <1>4, RefRecordCore
<1>6. pc'[t] = "read" /\ \A u \in Threads : u # t => pc'[u] = pc[u]
  BY <1>1, <1>2, GotoMoves DEF StreamSteps
<1>7. /\ map'[t] = w /\ DOMAIN map' = Threads /\ \A u \in Threads : u # t => map'[u] = map[u]
      /\ pos'[t] = pos[t] + 1 /\ pos' \in [Threads -> Nat]
      /\ \A u \in Threads : u # t => pos'[u] = pos[u]
  <2> HIDE DEF w
  <2> QED
    BY <1>1, <1>2, <1>4 DEF StreamTyped
<1>8. DOMAIN w = DOMAIN m \union {r.id} /\ w[r.id] = d
      /\ \A id \in DOMAIN m : id # r.id => w[id] = m[id]
  OBVIOUS
<1> HIDE DEF r, m, w, d
<1>9. StreamTyped' /\ OthersStay(t) /\ Grows
  BY <1>1, <1>2, <1>6, <1>7 DEF StreamTyped, OthersStay, Grows
<1>10. StreamAgrees(t)'
  <2>1. \A n \in 1 .. pos[t] + 1 : n \in 1 .. pos[t] \/ (n = pos[t] + 1 /\ stream[n] = r)
    BY <1>4 DEF Upcoming, r
  <2>2. \A n \in 1 .. pos[t] : n \in 1 .. pos[t] + 1
    BY <1>4
  <2>3. pos[t] + 1 \in 1 .. pos[t] + 1 /\ stream[pos[t] + 1] = r
    BY <1>4 DEF Upcoming, r
  <2>4. DOMAIN m = {stream[n].id : n \in 1 .. pos[t]}
    BY <1>3 DEF ReadAgrees, m
  <2>5. DOMAIN w = {stream[n].id : n \in 1 .. pos[t] + 1}
    BY <1>8, <2>1, <2>2, <2>3, <2>4
  <2>6. ASSUME NEW n \in 1 .. pos[t] + 1
        PROVE  w[stream[n].id] \in nodes /\ den[w[stream[n].id]] = stream[n].den
    <3>1. CASE stream[n].id = r.id
      <4>1. n \in 1 .. Len(stream)
        BY <1>4
      <4>2. stream[n].den = r.den
        BY <1>1, <1>4, <3>1, <4>1, <2>3 DEF StreamTyped, WellFormed
      <4> QED
        BY <1>3, <1>8, <3>1, <4>2
    <3>2. CASE stream[n].id # r.id
      <4>1. n \in 1 .. pos[t]
        BY <2>1, <3>2
      <4> QED
        BY <1>3, <1>8, <2>4, <3>2, <4>1 DEF ReadAgrees, m
    <3> QED
      BY <3>1, <3>2
  <2>7. pos[t] + 1 <= cut[t] /\ pos[t] + 1 # 0
    BY <1>3, <1>4
  <2>8. ReadAgrees(t)'
    BY <1>2, <1>3, <1>6, <1>7, <2>5, <2>6, <2>7 DEF ReadAgrees, d
  <2> QED
    BY <1>6, <2>8 DEF StreamAgrees
<1>11. StreamRefsAgree'
  <2>1. /\ \A b : InMap(b) = MapOf(m, b)
        /\ \A b : InMap(b)' = MapOf(w, b)
    BY <1>2, <1>7, OneMap, OneMapNext DEF m
  <2>2. ASSUME NEW b \in Addr
        PROVE  /\ IsFiniteSet(InMap(b)')
               /\ Cardinality(InMap(b)) \in Nat
               /\ Cardinality(InMap(b)') =
                    Cardinality(InMap(b)) + (IF b = d /\ r.id \notin DOMAIN m THEN 1 ELSE 0)
    <3>1. IsFiniteSet(InMap(b)) /\ Cardinality(InMap(b)) \in Nat
      BY <1>1, FS_CardinalityType DEF StreamRefsAgree
    <3>2. r.id \in DOMAIN m => m[r.id] = d
      BY <1>2, RecordAgain DEF r, m, d
    <3>3. CASE b = d /\ r.id \notin DOMAIN m
      <4>1. InMap(b)' = InMap(b) \union {r.id} /\ r.id \notin InMap(b)
        BY <1>8, <2>1, <3>3 DEF MapOf
      <4>2. /\ IsFiniteSet(InMap(b) \union {r.id})
            /\ Cardinality(InMap(b) \union {r.id}) = Cardinality(InMap(b)) + 1
        BY <3>1, <4>1, FS_AddElement
      <4> QED
        BY <3>1, <3>3, <4>1, <4>2
    <3>4. CASE ~ (b = d /\ r.id \notin DOMAIN m)
      <4>1. InMap(b)' = InMap(b)
        BY <1>8, <2>1, <3>2, <3>4 DEF MapOf
      <4>2. Cardinality(InMap(b)') = Cardinality(InMap(b))
        BY <4>1
      <4> QED
        BY <3>1, <3>4, <4>1, <4>2
    <3> QED
      BY <3>3, <3>4
  <2> SUFFICES ASSUME NEW b \in Addr
               PROVE  /\ IsFiniteSet(Held(b)') /\ IsFiniteSet(InMap(b)')
                      /\ b \in Counted => /\ Surplus(b)' >= 0
                                          /\ b \notin lost' => Surplus(b)' = 0
    BY DEF StreamRefsAgree, Counted
  <2>3. /\ IsFiniteSet(Held(b))
        /\ b \in Counted => Surplus(b) >= 0 /\ (b \notin lost => Surplus(b) = 0)
    BY <1>1 DEF StreamRefsAgree
  <2>4. Held(b)' = Held(b) /\ Cardinality(Held(b)) \in Nat
    BY <1>2, <2>3, FS_CardinalityType DEF Held
  <2>5. refs[b] \in Int /\ refs'[b] = IF b = d THEN refs[b] + 1 ELSE refs[b]
    BY <1>1, <1>2 DEF Typed
  <2> DEFINE perm == IF b \in Permanent THEN 1 ELSE 0
  <2>6. Surplus(b) = refs[b] - (Cardinality(Held(b)) + perm + Cardinality(InMap(b)))
    BY DEF Surplus
  <2>7. Surplus(b)' = refs'[b] - (Cardinality(Held(b)') + perm + Cardinality(InMap(b)'))
    BY DEF Surplus
  <2>8. perm \in Nat
    OBVIOUS
  <2>9. Cardinality(Held(b)') = Cardinality(Held(b))
    BY <2>4
  <2> HIDE DEF perm
  <2>10. Surplus(b) \in Int
         /\ Surplus(b)' = Surplus(b) + (IF b = d /\ r.id \in DOMAIN m THEN 1 ELSE 0)
    BY <2>2, <2>4, <2>5, <2>6, <2>7, <2>8, <2>9
  <2>11. b \notin lost' => b \notin lost /\ ~ (b = d /\ r.id \in DOMAIN m)
    BY <1>2
  <2> QED
    BY <2>2, <2>3, <2>4, <2>10, <2>11
<1> QED
  BY <1>2, <1>5, <1>6, <1>9, <1>10, <1>11, StreamStep DEF StreamInUse

(* When what deserialize had is gone no map has an entry.                  *)
LEMMA UnwindMoves ==
  ASSUME IoInv, NEW t \in Threads, pc[t] \in {"read", "ref"}, Unwind(t)
  PROVE  /\ cut' \in [Threads -> Nat] /\ pos' \in [Threads -> Nat]
         /\ ret' \in [Threads -> Ptr] /\ DOMAIN map' = Threads
         /\ pos'[t] = 0 /\ ret'[t] = Null /\ DOMAIN map'[t] = {}
         /\ \A u \in Threads : u # t => /\ cut'[u] = cut[u] /\ pos'[u] = pos[u]
                                        /\ map'[u] = map[u] /\ ret'[u] = ret[u]
         /\ \A a : InMap(a)' = {}
<1>1. StreamTyped
  BY DEF IoInv
<1>2. /\ cut' \in [Threads -> Nat] /\ pos' \in [Threads -> Nat]
      /\ ret' \in [Threads -> Ptr] /\ DOMAIN map' = Threads
      /\ pos'[t] = 0 /\ ret'[t] = Null /\ map'[t] = NoMap
      /\ \A u \in Threads : u # t => /\ cut'[u] = cut[u] /\ pos'[u] = pos[u]
                                     /\ map'[u] = map[u] /\ ret'[u] = ret[u]
  BY <1>1 DEF StreamTyped, Unwind, Ptr
<1>3. DOMAIN NoMap = {}
  BY DEF NoMap
<1>4. \A a : InMap(a)' = MapOf(NoMap, a)
  BY <1>2, OneMap, OneMapNext
<1> QED
  BY <1>2, <1>3, <1>4 DEF MapOf

LEMMA LevelPanicIo ==
  ASSUME IoInv, NEW t \in Threads, LevelPanic(t)
  PROVE  IoInv'
<1>1. /\ Core /\ Core' /\ Typed /\ StreamTyped /\ StreamRefsAgree
      /\ \A u \in Threads : StreamAgrees(u)
  BY LevelPanicCore DEF IoInv, Core
<1>2. /\ pc[t] = "read" /\ Goto(t, "panicked") /\ Unwind(t)
      /\ lost' = lost \union {map[t][id] : id \in DOMAIN map[t]}
      /\ UNCHANGED <<nodes, key, den, refs, owned, stream, todo>>
  BY DEF LevelPanic, Reading, managerVars, clientVars
<1>3. pc'[t] = "panicked" /\ \A u \in Threads : u # t => pc'[u] = pc[u]
  BY <1>1, <1>2, GotoMoves DEF Steps
<1>4. /\ cut' \in [Threads -> Nat] /\ pos' \in [Threads -> Nat]
      /\ ret' \in [Threads -> Ptr] /\ DOMAIN map' = Threads
      /\ pos'[t] = 0 /\ ret'[t] = Null /\ DOMAIN map'[t] = {}
      /\ \A u \in Threads : u # t => /\ cut'[u] = cut[u] /\ pos'[u] = pos[u]
                                     /\ map'[u] = map[u] /\ ret'[u] = ret[u]
      /\ \A a : InMap(a)' = {}
  BY <1>2, UnwindMoves
<1>5. StreamTyped' /\ OthersStay(t) /\ Grows
  BY <1>1, <1>2, <1>3, <1>4 DEF StreamTyped, OthersStay, Grows
<1>6. StreamAgrees(t)'
  BY <1>3, <1>4 DEF StreamAgrees
<1>7. StreamRefsAgree'
  <2> SUFFICES ASSUME NEW b \in Addr
               PROVE  /\ IsFiniteSet(Held(b)') /\ IsFiniteSet(InMap(b)')
                      /\ b \in Counted => /\ Surplus(b)' >= 0
                                          /\ b \notin lost' => Surplus(b)' = 0
    BY DEF StreamRefsAgree, Counted
  <2>1. /\ IsFiniteSet(Held(b)) /\ IsFiniteSet(InMap(b))
        /\ b \in Counted => Surplus(b) >= 0 /\ (b \notin lost => Surplus(b) = 0)
    BY <1>1 DEF StreamRefsAgree
  <2>2. InMap(b)' = {} /\ IsFiniteSet(InMap(b)') /\ Cardinality(InMap(b)') = 0
    BY <1>4, FS_EmptySet
  <2>3. Held(b)' = Held(b) /\ Cardinality(Held(b)) \in Nat /\ Cardinality(InMap(b)) \in Nat
    BY <1>2, <2>1, FS_CardinalityType DEF Held
  <2>4. b \notin lost' => b \notin lost /\ Cardinality(InMap(b)) = 0
    <3>1. InMap(b) = MapOf(map[t], b)
      BY <1>2, OneMap
    <3>2. b \notin lost' => InMap(b) = {}
      BY <1>2, <3>1 DEF MapOf
    <3> QED
      BY <1>2, <3>2, FS_EmptySet
  <2> DEFINE perm == IF b \in Permanent THEN 1 ELSE 0
  <2>5. Surplus(b) = refs[b] - (Cardinality(Held(b)) + perm + Cardinality(InMap(b)))
    BY DEF Surplus
  <2>6. Surplus(b)' = refs'[b] - (Cardinality(Held(b)') + perm + Cardinality(InMap(b)'))
    BY DEF Surplus
  <2>7. perm \in Nat /\ refs[b] \in Int /\ refs'[b] = refs[b]
    BY <1>1, <1>2 DEF Typed
  <2>8. Cardinality(Held(b)') = Cardinality(Held(b))
    BY <2>3
  <2> HIDE DEF perm
  <2>9. Surplus(b) \in Int /\ Surplus(b)' = Surplus(b) + Cardinality(InMap(b))
    BY <2>2, <2>3, <2>5, <2>6, <2>7, <2>8
  <2> QED
    BY <2>1, <2>2, <2>3, <2>4, <2>9
<1> QED
  BY <1>1, <1>2, <1>3, <1>5, <1>6, <1>7, StreamStep DEF StreamInUse

LEMMA ReadEndIo ==
  ASSUME IoInv, NEW t \in Threads, ReadEnd(t)
  PROVE  IoInv'
<1> DEFINE d == ret[t]
<1>1. /\ Core /\ Typed /\ StreamTyped /\ StreamRefsAgree
      /\ \A u \in Threads : StreamAgrees(u)
  BY DEF IoInv, Core
<1>2. /\ pc[t] = "read" /\ d # Null /\ Goto(t, "close") /\ Unwind(t)
      /\ refs' = [a \in Addr |-> refs[a] + Kept(t, a) - Drops(t, a)]
      /\ owned' = [owned EXCEPT ![t][d] = @ + 1]
      /\ UNCHANGED <<nodes, key, den, stream, todo, lost>>
  BY DEF ReadEnd
<1>3. ReadAgrees(t) /\ d \in nodes /\ d \in Addr /\ stream # <<>>
  BY <1>1, <1>2, NodesTyped DEF StreamAgrees, ReadAgrees
<1>4. pc'[t] = "close" /\ \A u \in Threads : u # t => pc'[u] = pc[u]
  BY <1>1, <1>2, GotoMoves DEF StreamSteps
<1>5. /\ cut' \in [Threads -> Nat] /\ pos' \in [Threads -> Nat]
      /\ ret' \in [Threads -> Ptr] /\ DOMAIN map' = Threads
      /\ pos'[t] = 0 /\ ret'[t] = Null /\ DOMAIN map'[t] = {}
      /\ \A u \in Threads : u # t => /\ cut'[u] = cut[u] /\ pos'[u] = pos[u]
                                     /\ map'[u] = map[u] /\ ret'[u] = ret[u]
      /\ \A a : InMap(a)' = {}
  BY <1>2, UnwindMoves
<1>6. \A u \in Threads : u # t => owned'[u] = owned[u]
  BY <1>1, <1>2 DEF Typed, DataOK
<1>7. ASSUME NEW b \in Addr
      PROVE  /\ IsFiniteSet(InMap(b)) /\ Cardinality(InMap(b)) \in Nat
             /\ IsFiniteSet(Held(b)) /\ refs[b] \in Int
             /\ refs'[b] = refs[b] + (IF b = d THEN 1 ELSE 0)
                             - ((IF b \in Terminals THEN 1 ELSE 0) + Cardinality(InMap(b)))
  <2>1. IsFiniteSet(InMap(b)) /\ IsFiniteSet(Held(b)) /\ Cardinality(InMap(b)) \in Nat
    BY <1>1, FS_CardinalityType DEF StreamRefsAgree
  <2>2. InMap(b) = MapOf(map[t], b)
    BY <1>2, OneMap
  <2>3. Drops(t, b) = (IF b \in Terminals THEN 1 ELSE 0) + Cardinality(InMap(b))
    BY <2>2 DEF Drops, MapOf
  <2>4. refs'[b] = refs[b] + Kept(t, b) - Drops(t, b) /\ refs[b] \in Int
    BY <1>1, <1>2 DEF Typed
  <2>5. Kept(t, b) = IF b = d THEN 1 ELSE 0
    BY DEF Kept
  <2> HIDE DEF d
  <2> QED
    BY <2>1, <2>3, <2>4, <2>5
<1>8. refs' \in [Addr -> Int]
  <2>1. \A b \in Addr : refs'[b] \in Int
    BY <1>7
  <2> QED
    BY <1>2, <2>1
<1>9. Core'
  BY <1>1, <1>3, <1>8, ReadEndCore
<1>10. StreamTyped' /\ OthersStay(t) /\ Grows
  BY <1>1, <1>2, <1>4, <1>5, <1>6 DEF StreamTyped, OthersStay, Grows
<1>11. StreamAgrees(t)'
  BY <1>4, <1>5 DEF StreamAgrees
<1>12. NumVars # 0
  <2>1. Len(stream) \in Nat /\ 1 \in 1 .. Len(stream)
    <3>1. PICK S : stream \in Seq(S)
      BY <1>1 DEF StreamTyped, WellFormed
    <3> QED
      BY <1>3, <3>1
  <2>2. Unmarked(stream[1]) \in Vars
    BY <1>1, <2>1 DEF StreamTyped, WellFormed
  <2> QED
    BY <2>2 DEF Vars
<1> HIDE DEF d
<1>13. StreamRefsAgree'
  <2> SUFFICES ASSUME NEW b \in Addr
               PROVE  /\ IsFiniteSet(Held(b)') /\ IsFiniteSet(InMap(b)')
                      /\ b \in Counted => /\ Surplus(b)' >= 0
                                          /\ b \notin lost' => Surplus(b)' = 0
    BY DEF StreamRefsAgree, Counted
  <2>1. b \in Counted => Surplus(b) >= 0 /\ (b \notin lost => Surplus(b) = 0)
    BY <1>1 DEF StreamRefsAgree
  <2>2. InMap(b)' = {} /\ IsFiniteSet(InMap(b)') /\ Cardinality(InMap(b)') = 0
    BY <1>5, FS_EmptySet
  <2>3. /\ IsFiniteSet(Held(b)') /\ Cardinality(Held(b)) \in Nat
        /\ Cardinality(Held(b)') = Cardinality(Held(b)) + (IF b = d THEN 1 ELSE 0)
    BY <1>1, <1>2, <1>3, <1>7, HeldMore
  <2> DEFINE perm == IF b \in Permanent THEN 1 ELSE 0
  <2>4. Surplus(b) = refs[b] - (Cardinality(Held(b)) + perm + Cardinality(InMap(b)))
    BY DEF Surplus
  <2>5. Surplus(b)' = refs'[b] - (Cardinality(Held(b)') + perm + Cardinality(InMap(b)'))
    BY DEF Surplus
  <2>6. perm \in Nat
    OBVIOUS
  <2> HIDE DEF perm
  <2>7. b \in Counted => Surplus(b)' = Surplus(b)
    <3>1. b \in Counted => b \notin Terminals
      BY <1>12 DEF Counted
    <3> QED
      BY <1>7, <2>2, <2>3, <2>4, <2>5, <2>6, <3>1
  <2> QED
    BY <1>2, <2>1, <2>2, <2>3, <2>7
<1> QED
  BY <1>2, <1>4, <1>9, <1>10, <1>11, <1>13, StreamStep DEF StreamInUse

-----------------------------------------------------------------------------
(* The invariant.                                                          *)

LEMMA IoInitInv ==
  ASSUME IoInit
  PROVE  IoInv
<1>1. Init /\ Inv /\ Core /\ Typed /\ RefsAgree
  BY InitInv DEF IoInit, Inv, Core
<1>2. /\ stream \in Files /\ lost = {}
      /\ todo = [t \in Threads |-> <<>>]
      /\ cut = [t \in Threads |-> 0]
      /\ pos = [t \in Threads |-> 0]
      /\ map = [t \in Threads |-> NoMap]
      /\ ret = [t \in Threads |-> Null]
  BY DEF IoInit
<1>3. \A t \in Threads : pc[t] = "idle"
  BY <1>1 DEF Init
<1>4. OneStream
  BY <1>3 DEF OneStream, StreamInUse
<1>5. StreamTyped
  BY <1>2, FilesAssumption DEF StreamTyped, Ptr
<1>6. TerminalsRooted
  <2> SUFFICES ASSUME NumVars > 0
               PROVE  key[BootAddr[3]] = <<0, FalseId, TrueId>>
    BY DEF TerminalsRooted
  <2>1. 3 \in 1 .. BootLen
    BY BootAssumption DEF BootLen
  <2>2. /\ BootAddr[3] \in Permanent /\ BootAddr[3] \in Addr
        /\ IndexOf(BootAddr[3]) = 3
    BY <2>1, BootIndex
  <2>3. key[BootAddr[3]] = BootKey(3)
    BY <1>1, <2>2 DEF Init
  <2> QED
    BY <2>3 DEF BootKey
<1>7. \A t \in Threads : DOMAIN map[t] = {}
  BY <1>2 DEF NoMap
<1>8. StreamRefsAgree
  <2> SUFFICES ASSUME NEW b \in Addr
               PROVE  /\ IsFiniteSet(Held(b)) /\ IsFiniteSet(InMap(b))
                      /\ b \in Counted => /\ Surplus(b) >= 0
                                          /\ b \notin lost => Surplus(b) = 0
    BY DEF StreamRefsAgree, Counted
  <2>1. IsFiniteSet(Held(b)) /\ Cardinality(Held(b)) \in Nat
        /\ refs[b] = Cardinality(Held(b)) + (IF b \in Permanent THEN 1 ELSE 0)
    BY <1>1, FS_CardinalityType DEF RefsAgree
  <2>2. InMap(b) = {}
    BY <1>7 DEF InMap
  <2>3. IsFiniteSet(InMap(b)) /\ Cardinality(InMap(b)) = 0
    BY <2>2, FS_EmptySet
  <2>4. Surplus(b) = 0
    BY <2>1, <2>3 DEF Surplus
  <2> QED
    BY <2>1, <2>3, <2>4
<1>9. \A t \in Threads : StreamAgrees(t)
  BY <1>2, <1>3, <1>7 DEF StreamAgrees
<1> QED
  BY <1>1, <1>4, <1>5, <1>6, <1>8, <1>9 DEF IoInv

LEMMA ManagerStep ==
  ASSUME IoInv, [Next]_vars, UNCHANGED ioVars
  PROVE  IoInv'
<1>1. /\ Core /\ Typed /\ OneStream /\ StreamTyped /\ TerminalsRooted
      /\ \A t \in Threads : StreamAgrees(t)
  BY DEF IoInv, Core
<1>2. Core'
  BY <1>1, StreamRootsReached, CoreStep
<1>3. OneStream'
  BY <1>1, OneStreamSame
<1>4. StreamTyped'
  BY <1>1 DEF StreamTyped, ioVars, readVars
<1>5. TerminalsRooted'
  BY <1>1, <1>2, KeptSame, TerminalsRootedSame
<1>6. StreamRefsAgree'
  BY <1>2, StreamRefsSame
<1>7. \A t \in Threads : StreamAgrees(t)'
  BY <1>1, <1>2, StreamAgreesSame
<1> QED
  BY <1>2, <1>3, <1>4, <1>5, <1>6, <1>7 DEF IoInv

LEMMA IoStep == IoInv /\ [IoNext]_<<vars, ioVars>> => IoInv'
<1> SUFFICES ASSUME IoInv, [IoNext]_<<vars, ioVars>>
             PROVE  IoInv'
  OBVIOUS
<1>1. CASE [Next]_vars /\ UNCHANGED ioVars
  BY <1>1, ManagerStep
<1>2. ASSUME NEW t \in Threads, Serialize(t)
      PROVE  IoInv'
  BY <1>2, BeginSerializeIo, WriteRecordIo, EndSerializeIo DEF Serialize
<1>3. ASSUME NEW t \in Threads, Deserialize(t)
      PROVE  IoInv'
  BY <1>3, BeginDeserializeIo, OpenIo, ReadRecordIo, RefRecordIo, LevelPanicIo,
     ReadEndIo, CloseIo, NullRetIo DEF Deserialize
<1> QED
  BY <1>1, <1>2, <1>3 DEF IoNext

-----------------------------------------------------------------------------
(* The theorems.                                                           *)

(* The invariant holds: whatever well-formed stream there is at first and  *)
(* however serialize, deserialize, operations and collections of all       *)
(* threads interleave, the diagram is reduced, everything held is in the   *)
(* table, and a stream that is being written or read is of nodes that are. *)
THEOREM IoInvariance == IoSpec => []IoInv
BY IoInitInv, IoStep, PTL DEF IoSpec

(* What deserialize makes of a record is the node of the function that the *)
(* written node had, of a stream of this manager or another, complete or   *)
(* not, written while a collection marked nodes or not.                    *)
THEOREM NodesReadBack == IoSpec => []ReadsBack
<1>1. IoInv => ReadsBack
  BY DEF IoInv, StreamAgrees, ReadAgrees, ReadsBack
<1> QED
  BY <1>1, IoInvariance, PTL

(* Between calls a node of which deserialize lost no reference has one for *)
(* each that clients hold: what it made on the way is garbage.             *)
THEOREM OnlyLostOnesLeak == IoSpec => []OnlyLostLeak
<1>1. IoInv => OnlyLostLeak
  <2> SUFFICES ASSUME IoInv, \A t \in Threads : pc[t] \notin {"read", "ref"},
                      NEW a \in nodes \ (Permanent \union lost)
               PROVE  refs[a] = Cardinality(Held(a))
    BY DEF OnlyLostLeak
  <2>1. Core /\ Typed /\ RootsAlive /\ StreamRefsAgree
    BY DEF IoInv, Core
  <2>2. a \in Addr /\ a \in Counted
    BY <2>1, NodesTyped, TerminalsAlive DEF Counted
  <2>3. Surplus(a) = 0 /\ IsFiniteSet(Held(a)) /\ refs[a] \in Int
    BY <2>1, <2>2 DEF StreamRefsAgree, Typed
  <2>4. InMap(a) = {}
    BY DEF IoInv, StreamAgrees, InMap
  <2>5. Cardinality(InMap(a)) = 0 /\ Cardinality(Held(a)) \in Nat
    BY <2>3, <2>4, FS_EmptySet, FS_CardinalityType
  <2> QED
    BY <2>3, <2>5 DEF Surplus
<1> QED
  BY <1>1, IoInvariance, PTL

(* A BDD that a client holds stays in the table with everything below it,  *)
(* though each stream that is read takes a reference of the terminals away.*)
THEOREM HandlesSurviveStreams == IoSpec => []HandlesAlive
<1>1. IoInv => HandlesAlive
  BY CoreHandles DEF IoInv
<1> QED
  BY <1>1, IoInvariance, PTL

(* Beside streams the Manager keeps the promises it keeps without them:    *)
(* one node for each function, no node of a recursion freed, no false      *)
(* entry in a cache, and results of the function that was asked for.       *)
THEOREM ManagerBesideStreams ==
  IoSpec => [](Reduced /\ InFlightAlive /\ CacheSound /\ ResultCorrect)
<1>1. IoInv => Reduced /\ InFlightAlive /\ CacheSound /\ ResultCorrect
  BY CoreReduced, CoreInFlight, CoreCaches, CoreResults DEF IoInv
<1> QED
  BY <1>1, IoInvariance, PTL

-----------------------------------------------------------------------------
(* What print prints.                                                      *)

\* The lines of a from the lines of the rest of the variables.
LinesWith(f, left) ==
  [a \in Addr |->
     IF Skips(a, NumVars - left) \/ a = TrueId
     THEN With("*", f[a])
     ELSE (IF Low(a) = FalseId THEN <<>> ELSE With("0", f[Low(a)]))
          \o (IF High(a) = FalseId THEN <<>> ELSE With("1", f[High(a)]))]

Blank == [a \in Addr |-> <<<<>>>>]

LEMMA LinesExist ==
  \E f : f = [i \in 0 .. NumVars |-> IF i = 0 THEN Blank ELSE LinesWith(f[i - 1], i)]
<1> DEFINE Bad == {n \in Nat : ~ \E f : f = [i \in 0 .. n |-> IF i = 0 THEN Blank
                                                         ELSE LinesWith(f[i - 1], i)]}
<1>1. Bad = {}
  <2> SUFFICES ASSUME Bad # {}
               PROVE  FALSE
    OBVIOUS
  <2>1. PICK n \in Bad : \A m \in Bad : n <= m
    <3> HIDE DEF Bad
    <3>1. Bad \in SUBSET Nat
      BY DEF Bad
    <3> QED
      BY <3>1, LeastElement
  <2>2. CASE n = 0
    <3> DEFINE f == [i \in 0 .. 0 |-> Blank]
    <3>1. f = [i \in 0 .. 0 |-> IF i = 0 THEN Blank ELSE LinesWith(f[i - 1], i)]
      OBVIOUS
    <3> QED
      BY <2>2, <3>1
  <2>3. CASE n # 0
    <3>1. n - 1 \in Nat /\ n \in Nat /\ n - 1 \notin Bad
      <4>1. n \in Nat
        OBVIOUS
      <4> HIDE DEF Bad
      <4> QED
        BY <2>1, <2>3, <4>1
    <3>2. PICK f : f = [i \in 0 .. n - 1 |-> IF i = 0 THEN Blank ELSE LinesWith(f[i - 1], i)]
      BY <3>1
    <3> DEFINE g == [i \in 0 .. n |-> IF i = n THEN LinesWith(f[n - 1], n) ELSE f[i]]
    <3>3. \A i \in 0 .. n : g[i] = IF i = 0 THEN Blank ELSE LinesWith(g[i - 1], i)
      BY <3>1, <3>2, <2>3
    <3>4. g = [i \in 0 .. n |-> IF i = 0 THEN Blank ELSE LinesWith(g[i - 1], i)]
      BY <3>3
    <3> QED
      BY <3>4, <2>1
  <2> QED
    BY <2>2, <2>3
<1> QED
  BY <1>1, BootAssumption

(* The lines for the rest of the variables, and for a BDD.                 *)
LEMMA LinesLeft ==
  \E f : /\ \A a \in Addr : f[0][a] = <<<<>>>>
         /\ \A i \in 1 .. NumVars, a \in Addr :
              f[i][a] =
                IF Skips(a, NumVars - i) \/ a = TrueId
                THEN With("*", f[i - 1][a])
                ELSE (IF Low(a) = FalseId THEN <<>> ELSE With("0", f[i - 1][Low(a)]))
                     \o (IF High(a) = FalseId THEN <<>> ELSE With("1", f[i - 1][High(a)]))
         /\ \A root : Lines(root) = f[NumVars][root]
<1> DEFINE body(f) ==
             [left \in 0 .. NumVars |->
                [a \in Addr |->
                   IF left = 0 THEN <<<<>>>>
                   ELSE IF Skips(a, NumVars - left) \/ a = TrueId
                   THEN With("*", f[left - 1][a])
                   ELSE (IF Low(a) = FalseId THEN <<>> ELSE With("0", f[left - 1][Low(a)]))
                        \o (IF High(a) = FalseId THEN <<>>
                            ELSE With("1", f[left - 1][High(a)]))]]
           g == CHOOSE f : f = body(f)
<1>1. \E f : f = body(f)
  <2>1. PICK f : f = [i \in 0 .. NumVars |-> IF i = 0 THEN Blank ELSE LinesWith(f[i - 1], i)]
    BY LinesExist
  <2>2. ASSUME NEW i \in 0 .. NumVars
        PROVE  (IF i = 0 THEN Blank ELSE LinesWith(f[i - 1], i)) = body(f)[i]
    <3>1. CASE i = 0
      BY <3>1 DEF Blank
    <3>2. CASE i # 0
      BY <3>2 DEF LinesWith
    <3> QED
      BY <3>1, <3>2
  <2>3. [i \in 0 .. NumVars |-> IF i = 0 THEN Blank ELSE LinesWith(f[i - 1], i)] = body(f)
    BY <2>2
  <2>4. f = body(f)
    BY <2>1, <2>3
  <2> QED
    BY <2>4
<1>2. g = body(g)
  <2> HIDE DEF body
  <2> QED
    BY <1>1, Zenon
<1>3. ASSUME NEW root
      PROVE  Lines(root) = g[NumVars][root]
  BY Zenon DEF Lines
<1> HIDE DEF g
<1>4. \A i \in 0 .. NumVars, a \in Addr :
        g[i][a] = IF i = 0 THEN <<<<>>>>
                  ELSE IF Skips(a, NumVars - i) \/ a = TrueId
                  THEN With("*", g[i - 1][a])
                  ELSE (IF Low(a) = FalseId THEN <<>> ELSE With("0", g[i - 1][Low(a)]))
                       \o (IF High(a) = FalseId THEN <<>> ELSE With("1", g[i - 1][High(a)]))
  <2>1. \A i \in 0 .. NumVars, a \in Addr :
          body(g)[i][a] =
            IF i = 0 THEN <<<<>>>>
            ELSE IF Skips(a, NumVars - i) \/ a = TrueId
            THEN With("*", g[i - 1][a])
            ELSE (IF Low(a) = FalseId THEN <<>> ELSE With("0", g[i - 1][Low(a)]))
                 \o (IF High(a) = FalseId THEN <<>> ELSE With("1", g[i - 1][High(a)]))
    OBVIOUS
  <2> HIDE DEF body
  <2> QED
    BY <1>2, <2>1
<1>5. 0 \in 0 .. NumVars /\ \A i \in 1 .. NumVars : i \in 0 .. NumVars /\ i # 0
  BY BootAssumption
<1> HIDE DEF body
<1> QED
  BY <1>3, <1>4, <1>5

-----------------------------------------------------------------------------
(* Lines and the assignments they stand for.                               *)

Characters == {"*", "0", "1"}

\* The assignments that a line for the last left variables stands for.
PartCube(line, left) ==
  {s \in Assignments :
     \A k \in 1 .. left :
       line[k] # "*" => (line[k] = "1") = (NumVars - left + k - 1 \in s)}

\* The lines for the last left variables are disjoint, and together f.
Prints(lines, left, f) ==
  /\ lines \in Seq(Seq(Characters))
  /\ \A i \in 1 .. Len(lines) : Len(lines[i]) = left
  /\ \A i, j \in 1 .. Len(lines) :
       i # j => PartCube(lines[i], left) \intersect PartCube(lines[j], left) = {}
  /\ \A s \in Assignments :
       s \in f <=> \E i \in 1 .. Len(lines) : s \in PartCube(lines[i], left)

LEMMA PrintsNothing ==
  ASSUME NEW left \in Nat
  PROVE  Prints(<<>>, left, {})
BY DEF Prints

LEMMA PrintsAll == Prints(<<<<>>>>, 0, Assignments)
<1>1. <<<<>>>> \in Seq(Seq(Characters)) /\ Len(<<<<>>>>) = 1 /\ <<<<>>>>[1] = <<>>
  OBVIOUS
<1>2. PartCube(<<>>, 0) = Assignments
  BY DEF PartCube
<1> QED
  BY <1>1, <1>2 DEF Prints

(* A character before a line says what its variable is.                    *)
LEMMA CubeWith ==
  ASSUME NEW left \in 1 .. NumVars, NEW c \in Characters, NEW line \in Seq(Characters),
         Len(line) = left - 1
  PROVE  PartCube(<<c>> \o line, left)
           = {s \in PartCube(line, left - 1) :
                c # "*" => (c = "1") = (NumVars - left \in s)}
<1> DEFINE whole == <<c>> \o line
<1>1. NumVars \in Nat /\ left \in Nat /\ left - 1 \in Nat
  BY BootAssumption
<1>2. whole[1] = c
  OBVIOUS
<1>3. \A k \in 1 .. left - 1 : whole[k + 1] = line[k]
  BY <1>1
<1> HIDE DEF whole
<1>4. ASSUME NEW s \in Assignments
      PROVE  (\A k \in 1 .. left :
                whole[k] # "*" => (whole[k] = "1") = (NumVars - left + k - 1 \in s))
              <=> /\ c # "*" => (c = "1") = (NumVars - left \in s)
                  /\ \A k \in 1 .. left - 1 :
                       line[k] # "*"
                         => (line[k] = "1") = (NumVars - (left - 1) + k - 1 \in s)
  <2> DEFINE Says(k) == whole[k] # "*" => (whole[k] = "1") = (NumVars - left + k - 1 \in s)
  <2>1. Says(1) <=> (c # "*" => (c = "1") = (NumVars - left \in s))
    <3>1. NumVars - left + 1 - 1 = NumVars - left
      BY <1>1
    <3> QED
      BY <3>1, <1>2
  <2>2. ASSUME NEW k \in 1 .. left - 1
        PROVE  Says(k + 1)
                 <=> (line[k] # "*"
                        => (line[k] = "1") = (NumVars - (left - 1) + k - 1 \in s))
    <3>1. NumVars - left + (k + 1) - 1 = NumVars - (left - 1) + k - 1
      BY <1>1
    <3> QED
      BY <3>1, <1>3
  <2> HIDE DEF Says
  <2>3. (\A k \in 1 .. left : Says(k)) <=> Says(1) /\ \A k \in 1 .. left - 1 : Says(k + 1)
    <3>1. \A k \in 1 .. left : k = 1 \/ (k - 1 \in 1 .. left - 1 /\ (k - 1) + 1 = k)
      BY <1>1
    <3>2. 1 \in 1 .. left /\ \A k \in 1 .. left - 1 : k + 1 \in 1 .. left
      BY <1>1
    <3> QED
      BY <3>1, <3>2
  <2>4. (\A k \in 1 .. left - 1 : Says(k + 1))
          <=> \A k \in 1 .. left - 1 :
                line[k] # "*" => (line[k] = "1") = (NumVars - (left - 1) + k - 1 \in s)
    BY <2>2
  <2>5. (\A k \in 1 .. left :
           whole[k] # "*" => (whole[k] = "1") = (NumVars - left + k - 1 \in s))
          <=> \A k \in 1 .. left : Says(k)
    BY DEF Says
  <2> QED
    BY <2>1, <2>3, <2>4, <2>5
<1>5. PartCube(whole, left)
        = {s \in PartCube(line, left - 1) : c # "*" => (c = "1") = (NumVars - left \in s)}
  BY <1>4 DEF PartCube
<1> QED
  BY <1>5 DEF whole

(* A character before all lines is a condition on what they are together.  *)
LEMMA PrintsWith ==
  ASSUME NEW left \in 1 .. NumVars, NEW c \in Characters, NEW lines, NEW f,
         Prints(lines, left - 1, f)
  PROVE  Prints(With(c, lines), left,
                {s \in f : c # "*" => (c = "1") = (NumVars - left \in s)})
<1> DEFINE more == With(c, lines)
           Said(s) == c # "*" => (c = "1") = (NumVars - left \in s)
<1>1. lines \in Seq(Seq(Characters)) /\ \A i \in 1 .. Len(lines) : Len(lines[i]) = left - 1
  BY DEF Prints
<1>2. Len(lines) \in Nat /\ DOMAIN lines = 1 .. Len(lines)
      /\ \A i \in 1 .. Len(lines) : lines[i] \in Seq(Characters)
  BY <1>1
<1>3. more = [i \in 1 .. Len(lines) |-> <<c>> \o lines[i]]
  BY <1>2 DEF With
<1>4. \A i \in 1 .. Len(lines) :
        <<c>> \o lines[i] \in Seq(Characters) /\ Len(<<c>> \o lines[i]) = left
  BY <1>1, <1>2, BootAssumption
<1>5. more \in Seq(Seq(Characters)) /\ Len(more) = Len(lines)
  BY <1>2, <1>3, <1>4
<1>6. \A i \in 1 .. Len(lines) :
        PartCube(more[i], left) = {s \in PartCube(lines[i], left - 1) : Said(s)}
  <2> TAKE i \in 1 .. Len(lines)
  <2>1. PartCube(<<c>> \o lines[i], left) = {s \in PartCube(lines[i], left - 1) : Said(s)}
    BY <1>1, <1>2, CubeWith
  <2> QED
    BY <2>1, <1>3
<1>7. \A i \in 1 .. Len(more) : Len(more[i]) = left
  BY <1>3, <1>4, <1>5
<1> HIDE DEF more, Said
<1>8. \A i, j \in 1 .. Len(more) :
        i # j => PartCube(more[i], left) \intersect PartCube(more[j], left) = {}
  <2>1. \A i, j \in 1 .. Len(lines) :
          i # j => PartCube(lines[i], left - 1) \intersect PartCube(lines[j], left - 1) = {}
    BY DEF Prints
  <2> QED
    BY <2>1, <1>5, <1>6
<1>9. ASSUME NEW s \in Assignments
      PROVE  s \in {u \in f : Said(u)}
               <=> \E i \in 1 .. Len(more) : s \in PartCube(more[i], left)
  <2>1. s \in f <=> \E i \in 1 .. Len(lines) : s \in PartCube(lines[i], left - 1)
    BY DEF Prints
  <2> QED
    BY <2>1, <1>5, <1>6
<1>10. Prints(more, left, {s \in f : Said(s)})
  BY <1>5, <1>7, <1>8, <1>9 DEF Prints
<1> QED
  BY <1>10 DEF more, Said

(* The lines of two functions without a common assignment.                 *)
LEMMA PrintsBoth ==
  ASSUME NEW left \in Nat, NEW x, NEW y, NEW f, NEW g,
         Prints(x, left, f), Prints(y, left, g), f \intersect g = {}
  PROVE  Prints(x \o y, left, f \union g)
<1> DEFINE both == x \o y
<1>1. x \in Seq(Seq(Characters)) /\ y \in Seq(Seq(Characters))
  BY DEF Prints
<1>2. /\ both \in Seq(Seq(Characters)) /\ Len(both) = Len(x) + Len(y)
      /\ Len(x) \in Nat /\ Len(y) \in Nat
  BY <1>1
<1>3. \A i \in 1 .. Len(x) : both[i] = x[i] /\ i \in 1 .. Len(both)
  BY <1>1, <1>2
<1>4. \A i \in 1 .. Len(y) : both[Len(x) + i] = y[i] /\ Len(x) + i \in 1 .. Len(both)
  BY <1>1, <1>2
<1>5. ASSUME NEW i \in 1 .. Len(both)
      PROVE  \/ i \in 1 .. Len(x)
             \/ \E j \in 1 .. Len(y) : i = Len(x) + j
  <2>1. i \in 1 .. Len(x) \/ i - Len(x) \in 1 .. Len(y)
    BY <1>2
  <2>2. i = Len(x) + (i - Len(x))
    BY <1>2
  <2> QED
    BY <2>1, <2>2
<1> HIDE DEF both
<1>6. \A i \in 1 .. Len(both) : Len(both[i]) = left
  <2>1. /\ \A i \in 1 .. Len(x) : Len(x[i]) = left
        /\ \A i \in 1 .. Len(y) : Len(y[i]) = left
    BY DEF Prints
  <2> QED
    BY <2>1, <1>3, <1>4, <1>5
<1> DEFINE CX(i) == PartCube(x[i], left)
           CY(i) == PartCube(y[i], left)
           CB(i) == PartCube(both[i], left)
<1>7. /\ \A i \in 1 .. Len(x) : CB(i) = CX(i)
      /\ \A i \in 1 .. Len(y) : CB(Len(x) + i) = CY(i)
  BY <1>3, <1>4
<1>8. /\ \A i, j \in 1 .. Len(x) : i # j => CX(i) \intersect CX(j) = {}
      /\ \A i, j \in 1 .. Len(y) : i # j => CY(i) \intersect CY(j) = {}
      /\ \A s \in Assignments : s \in f <=> \E i \in 1 .. Len(x) : s \in CX(i)
      /\ \A s \in Assignments : s \in g <=> \E i \in 1 .. Len(y) : s \in CY(i)
  BY DEF Prints
<1>9. \A i : CX(i) \subseteq Assignments /\ CY(i) \subseteq Assignments
  BY DEF PartCube
<1> HIDE DEF CX, CY, CB
<1>10. \A i \in 1 .. Len(x), j \in 1 .. Len(y) : CX(i) \intersect CY(j) = {}
  BY <1>8, <1>9
<1>11. ASSUME NEW i \in 1 .. Len(both), NEW j \in 1 .. Len(both), i # j
       PROVE  CB(i) \intersect CB(j) = {}
  <2>1. CASE i \in 1 .. Len(x) /\ j \in 1 .. Len(x)
    BY <2>1, <1>7, <1>8, <1>11
  <2>2. CASE i \in 1 .. Len(x) /\ j \notin 1 .. Len(x)
    BY <2>2, <1>5, <1>7, <1>10
  <2>3. CASE i \notin 1 .. Len(x) /\ j \in 1 .. Len(x)
    BY <2>3, <1>5, <1>7, <1>10
  <2>4. CASE i \notin 1 .. Len(x) /\ j \notin 1 .. Len(x)
    <3>1. PICK k \in 1 .. Len(y) : i = Len(x) + k
      BY <2>4, <1>5
    <3>2. PICK l \in 1 .. Len(y) : j = Len(x) + l
      BY <2>4, <1>5
    <3>3. CB(i) = CY(k) /\ CB(j) = CY(l) /\ k # l
      BY <3>1, <3>2, <1>7, <1>11
    <3> QED
      BY <3>3, <1>8
  <2> QED
    BY <2>1, <2>2, <2>3, <2>4
<1>12. ASSUME NEW s \in Assignments
       PROVE  s \in f \union g <=> \E i \in 1 .. Len(both) : s \in CB(i)
  <2>1. \A i \in 1 .. Len(x) : i \in 1 .. Len(both) /\ CB(i) = CX(i)
    BY <1>3, <1>7
  <2>2. \A i \in 1 .. Len(y) : Len(x) + i \in 1 .. Len(both) /\ CB(Len(x) + i) = CY(i)
    BY <1>4, <1>7
  <2>3. CASE s \in f
    BY <2>1, <2>3, <1>8
  <2>4. CASE s \in g
    BY <2>2, <2>4, <1>8
  <2>5. ASSUME NEW i \in 1 .. Len(both), s \in CB(i)
        PROVE  s \in f \union g
    <3>1. CASE i \in 1 .. Len(x)
      BY <3>1, <2>1, <2>5, <1>8
    <3>2. CASE \E j \in 1 .. Len(y) : i = Len(x) + j
      BY <3>2, <2>2, <2>5, <1>8
    <3> QED
      BY <3>1, <3>2, <1>5
  <2> QED
    BY <2>3, <2>4, <2>5
<1>13. Prints(both, left, f \union g)
  BY <1>2, <1>6, <1>11, <1>12 DEF Prints, CB
<1> QED
  BY <1>13 DEF both

(* What print prints of a node from the first variable it may test on.     *)
LEMMA PrintsNode ==
  ASSUME Diagram, \A a \in Addr : den[a] \in SUBSET Assignments, nodes \subseteq Addr,
         NEW left \in 1 .. NumVars, NEW a \in nodes, NEW rest, NEW lines,
         a # FalseId, a \in Terminals \/ Level(a) >= NumVars - left,
         \A b \in nodes :
           b # FalseId /\ (b \in Terminals \/ Level(b) >= NumVars - (left - 1))
             => Prints(rest[b], left - 1, den[b]),
         lines = IF Skips(a, NumVars - left) \/ a = TrueId
                 THEN With("*", rest[a])
                 ELSE (IF Low(a) = FalseId THEN <<>> ELSE With("0", rest[Low(a)]))
                      \o (IF High(a) = FalseId THEN <<>> ELSE With("1", rest[High(a)]))
  PROVE  Prints(lines, left, den[a])
<1> DEFINE curr == NumVars - left
<1>1. /\ NumVars \in Nat /\ left \in Nat /\ curr \in Vars
      /\ NumVars - (left - 1) = curr + 1
      /\ \A n \in Nat : n > curr => n >= curr + 1
  BY BootAssumption DEF Vars
<1>2. a \in Terminals \/ Level(a) \in Vars
  BY DEF Diagram, Ordered
<1>3. \A v \in Vars : v \in Nat
  BY DEF Vars
<1> HIDE DEF curr
<1>4. CASE Skips(a, curr) \/ a = TrueId
  <2>1. a \in Terminals \/ Level(a) >= NumVars - (left - 1)
    BY <1>4, <1>1, <1>2, <1>3 DEF Skips, Terminals
  <2>2. Prints(rest[a], left - 1, den[a])
    BY <2>1
  <2>3. "*" \in Characters
    BY DEF Characters
  <2>4. Prints(With("*", rest[a]), left,
               {s \in den[a] : "*" # "*" => ("*" = "1") = (NumVars - left \in s)})
    BY <2>2, <2>3, PrintsWith
  <2>5. {s \in den[a] : "*" # "*" => ("*" = "1") = (NumVars - left \in s)} = den[a]
    OBVIOUS
  <2>6. lines = With("*", rest[a])
    BY <1>4 DEF curr
  <2> QED
    BY <2>4, <2>5, <2>6
<1>5. CASE ~ (Skips(a, curr) \/ a = TrueId)
  <2>1. a \notin Terminals /\ Level(a) = curr
    <3>1. a \notin Terminals
      BY <1>5 DEF Terminals
    <3>2. Level(a) \in Nat /\ Level(a) >= curr /\ ~ (Level(a) > curr)
      BY <3>1, <1>2, <1>3, <1>5 DEF Skips, curr
    <3>3. curr \in Nat
      BY <1>1, <1>3
    <3> QED
      BY <3>1, <3>2, <3>3
  <2>2. /\ Low(a) \in nodes /\ High(a) \in nodes
        /\ Below(Low(a), curr) /\ Below(High(a), curr)
        /\ den[a] = Mux(curr, den[Low(a)], den[High(a)])
    BY <2>1 DEF Diagram, Ordered
  <2>3. den[FalseId] = {}
    BY DEF Diagram, TerminalsAgree
  <2> DEFINE Side(c, b) == IF b = FalseId THEN <<>> ELSE With(c, rest[b])
             Half(c, b) == {s \in den[b] : c # "*" => (c = "1") = (NumVars - left \in s)}
  <2>4. ASSUME NEW c \in Characters, NEW b \in nodes, Below(b, curr)
        PROVE  Prints(Side(c, b), left, Half(c, b))
    <3>1. CASE b = FalseId
      <4>1. Half(c, b) = {} /\ Side(c, b) = <<>>
        BY <3>1, <2>3
      <4> QED
        BY <4>1, <1>1, PrintsNothing
    <3>2. CASE b # FalseId
      <4>1. b \in Terminals \/ Level(b) \in Vars
        BY DEF Diagram, Ordered
      <4>2. b \in Terminals \/ Level(b) >= NumVars - (left - 1)
        BY <4>1, <2>4, <1>1, <1>3 DEF Below
      <4>3. Prints(rest[b], left - 1, den[b])
        BY <3>2, <4>2
      <4>4. Prints(With(c, rest[b]), left, Half(c, b))
        BY <4>3, PrintsWith
      <4> QED
        BY <4>4, <3>2
    <3> QED
      BY <3>1, <3>2
  <2>5. "0" \in Characters /\ "1" \in Characters
    BY DEF Characters
  <2>6. Half("0", Low(a)) = {s \in den[Low(a)] : curr \notin s}
    BY DEF curr
  <2>7. Half("1", High(a)) = {s \in den[High(a)] : curr \in s}
    BY DEF curr
  <2>8. lines = Side("0", Low(a)) \o Side("1", High(a))
    BY <1>5 DEF curr
  <2> HIDE DEF Side, Half
  <2>9. Prints(Side("0", Low(a)), left, Half("0", Low(a)))
        /\ Prints(Side("1", High(a)), left, Half("1", High(a)))
    BY <2>2, <2>4, <2>5
  <2>10. Half("0", Low(a)) \intersect Half("1", High(a)) = {}
    BY <2>6, <2>7
  <2>11. Half("0", Low(a)) \union Half("1", High(a)) = den[a]
    BY <2>2, <2>6, <2>7 DEF Mux
  <2>12. Prints(Side("0", Low(a)) \o Side("1", High(a)), left,
                Half("0", Low(a)) \union Half("1", High(a)))
    BY <2>9, <2>10, <1>1, PrintsBoth
  <2> QED
    BY <2>8, <2>11, <2>12
<1> QED
  BY <1>4, <1>5

(* The lines of a node that is not false are its function.                 *)
LEMMA LinesPrint ==
  ASSUME Core, NEW a \in nodes \ Terminals
  PROVE  Prints(Lines(a), NumVars, den[a])
<1>1. PICK f :
        /\ \A b \in Addr : f[0][b] = <<<<>>>>
        /\ \A i \in 1 .. NumVars, b \in Addr :
             f[i][b] =
               IF Skips(b, NumVars - i) \/ b = TrueId
               THEN With("*", f[i - 1][b])
               ELSE (IF Low(b) = FalseId THEN <<>> ELSE With("0", f[i - 1][Low(b)]))
                    \o (IF High(b) = FalseId THEN <<>> ELSE With("1", f[i - 1][High(b)]))
        /\ \A root : Lines(root) = f[NumVars][root]
  BY LinesLeft
<1>2. Diagram /\ nodes \subseteq Addr /\ \A b \in Addr : den[b] \in SUBSET Assignments
  BY DEF Core, Typed, DataOK
<1>3. NumVars \in Nat
  BY BootAssumption
<1> DEFINE Does(i) == \A b \in nodes :
                        b # FalseId /\ (b \in Terminals \/ Level(b) >= NumVars - i)
                          => Prints(f[i][b], i, den[b])
           Good == {i \in 0 .. NumVars : Does(i)}
<1>4. Does(0)
  <2> SUFFICES ASSUME NEW b \in nodes, b # FalseId,
                      b \in Terminals \/ Level(b) >= NumVars - 0
               PROVE  Prints(f[0][b], 0, den[b])
    OBVIOUS
  <2>1. b \in Terminals \/ (Level(b) \in Nat /\ ~ (Level(b) >= NumVars - 0))
    BY <1>2, <1>3 DEF Diagram, Ordered, Vars
  <2>2. b = TrueId
    BY <2>1 DEF Terminals
  <2>3. den[b] = Assignments /\ f[0][b] = <<<<>>>>
    BY <2>2, <1>1, <1>2 DEF Diagram, TerminalsAgree
  <2> QED
    BY <2>3, PrintsAll
<1>5. ASSUME NEW i \in 1 .. NumVars, Does(i - 1)
      PROVE  Does(i)
  <2> SUFFICES ASSUME NEW b \in nodes, b # FalseId,
                      b \in Terminals \/ Level(b) >= NumVars - i
               PROVE  Prints(f[i][b], i, den[b])
    OBVIOUS
  <2> DEFINE rest == f[i - 1]
             lines == f[i][b]
  <2>1. lines = IF Skips(b, NumVars - i) \/ b = TrueId
                THEN With("*", rest[b])
                ELSE (IF Low(b) = FalseId THEN <<>> ELSE With("0", rest[Low(b)]))
                     \o (IF High(b) = FalseId THEN <<>> ELSE With("1", rest[High(b)]))
    BY <1>1, <1>2
  <2>2. \A d \in nodes :
          d # FalseId /\ (d \in Terminals \/ Level(d) >= NumVars - (i - 1))
            => Prints(rest[d], i - 1, den[d])
    BY <1>5
  <2> HIDE DEF rest, lines
  <2>3. Prints(lines, i, den[b])
    BY <2>1, <2>2, <1>2, PrintsNode
  <2> QED
    BY <2>3 DEF lines
<1> HIDE DEF Does
<1>6. \A i \in 0 .. NumVars : i \in Good
  <2>1. 0 \in Good
    BY <1>3, <1>4
  <2>2. \A i \in 1 .. NumVars : i - 1 \in Good => i \in Good
    BY <1>3, <1>5
  <2> HIDE DEF Good
  <2> QED
    BY <2>1, <2>2, <1>3, UpTo
<1>7. Does(NumVars)
  BY <1>3, <1>6
<1>8. a \in nodes /\ a # FalseId /\ Level(a) >= NumVars - NumVars
  <2>1. Level(a) \in Nat
    BY <1>2 DEF Diagram, Ordered, Vars
  <2> QED
    BY <2>1, <1>3 DEF Terminals
<1>9. Prints(f[NumVars][a], NumVars, den[a])
  BY <1>7, <1>8 DEF Does
<1> QED
  BY <1>1, <1>9

(* The lines that print writes of a BDD, while no collection has marked    *)
(* nodes, are disjoint, and together they are its function.                *)
THEOREM PrintsWhatItStandsFor == IoSpec => []PrintsTheFunction
<1>1. IoInv => PrintsTheFunction
  <2> SUFFICES ASSUME IoInv, NEW a \in nodes \ Terminals
               PROVE  LET lines == Lines(a)
                      IN  /\ \A i, j \in DOMAIN lines :
                               i # j => Cube(lines[i]) \intersect Cube(lines[j]) = {}
                          /\ UNION {Cube(lines[i]) : i \in DOMAIN lines} = den[a]
    BY DEF PrintsTheFunction
  <2> DEFINE lines == Lines(a)
  <2>1. Prints(lines, NumVars, den[a])
    BY LinesPrint DEF IoInv
  <2>2. den[a] \in SUBSET Assignments
    BY DEF IoInv, Core, Typed, DataOK
  <2> HIDE DEF lines
  <2>3. \A line : Cube(line) = PartCube(line, NumVars)
    <3>1. NumVars \in Nat
      BY BootAssumption
    <3>2. /\ \A v \in Vars : v + 1 \in 1 .. NumVars /\ NumVars - NumVars + (v + 1) - 1 = v
          /\ \A k \in 1 .. NumVars : NumVars - NumVars + k - 1 \in Vars
                                     /\ (NumVars - NumVars + k - 1) + 1 = k
      BY <3>1 DEF Vars
    <3>3. ASSUME NEW line, NEW s \in Assignments
          PROVE  (\A v \in Vars : line[v + 1] # "*" => (line[v + 1] = "1") = (v \in s))
                 <=> \A k \in 1 .. NumVars :
                       line[k] # "*"
                         => (line[k] = "1") = (NumVars - NumVars + k - 1 \in s)
      BY <3>2
    <3> QED
      BY <3>3 DEF Cube, PartCube
  <2>4. DOMAIN lines = 1 .. Len(lines)
    BY <2>1 DEF Prints
  <2>5. \A i, j \in DOMAIN lines :
          i # j => Cube(lines[i]) \intersect Cube(lines[j]) = {}
    BY <2>1, <2>3, <2>4 DEF Prints
  <2>6. \A i \in DOMAIN lines : Cube(lines[i]) \subseteq Assignments
    BY DEF Cube
  <2>7. \A s \in Assignments : s \in den[a] <=> \E i \in DOMAIN lines : s \in Cube(lines[i])
    BY <2>1, <2>3, <2>4 DEF Prints
  <2>8. UNION {Cube(lines[i]) : i \in DOMAIN lines} = den[a]
    BY <2>2, <2>6, <2>7
  <2> QED
    BY <2>5, <2>8 DEF lines
<1> QED
  BY <1>1, IoInvariance, PTL

=============================================================================
