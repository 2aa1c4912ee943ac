-------------------------- MODULE BddManagerProofs ---------------------------
(***************************************************************************)
(* Proofs about BddManager for every set of threads, every heap, allocator,*)
(* number of variables, hash, size of the table and of the caches, and     *)
(* every workload.                                                         *)
(***************************************************************************)
EXTENDS BddLemmas, SequenceTheorems

-----------------------------------------------------------------------------
(* What steps leave alone.                                                 *)

LEMMA GotoMoves ==
  ASSUME Typed, NEW t \in Threads, NEW step \in Steps \union StreamSteps, Goto(t, step)
  PROVE  /\ pc' \in [Threads -> Steps \union StreamSteps]
         /\ pc'[t] = step
         /\ \A u \in Threads : u # t => pc'[u] = pc[u]
BY DEF Goto, Typed, DataOK

\* Nodes may come but none goes or changes: all steps but Sweep.
Grows ==
  /\ nodes \subseteq nodes'
  /\ \A a \in nodes : key'[a] = key[a] /\ den'[a] = den[a]

LEMMA OnNodesSame ==
  ASSUME Grows, NEW c, OnNodes(c)
  PROVE  OnNodes(c)' /\ Want(c)' = Want(c)
BY DEF Grows, OnNodes, Want

LEMMA ProperSame ==
  ASSUME Grows, NEW c, Proper(c)
  PROVE  /\ Proper(c)'
         /\ Want(c)' = Want(c)
         /\ TopLevel(c)' = TopLevel(c)
         /\ \A k : Cofactor(c, k)' = Cofactor(c, k)
<1>1. OnNodes(c) /\ c.op \in Ops /\ Operands(c) \intersect Terminals = {}
  BY DEF Proper
<1>2. OnNodes(c)' /\ Want(c)' = Want(c)
  BY <1>1, OnNodesSame
<1>3. \A a \in Operands(c) : a \in nodes
  BY <1>1 DEF OnNodes, Operands
<1>4. \A a \in Operands(c) : key'[a] = key[a]
  BY <1>3 DEF Grows
<1>5. TopLevel(c)' = TopLevel(c)
  <2>1. {Level(a) : a \in Operands(c)}' = {Level(a) : a \in Operands(c)}
    BY <1>4 DEF Level
  <2>2. \A v : (\A a \in Operands(c) : v <= Level(a))' <=> \A a \in Operands(c) : v <= Level(a)
    BY <1>4 DEF Level
  <2> QED
    BY <2>1, <2>2 DEF TopLevel
<1>6. \A k : Cofactor(c, k)' = Cofactor(c, k)
  BY <1>4, <1>5 DEF Cofactor, Level, Operands
<1> QED
  BY <1>1, <1>2, <1>5, <1>6 DEF Proper

LEMMA DiagramSame ==
  ASSUME Diagram, UNCHANGED <<nodes, key, den>>
  PROVE  Diagram'
BY DEF Diagram, TerminalsAgree, Ordered, Independent, Canonical, Below, Level, Low, High,
       Free

LEMMA RootsSame ==
  ASSUME RootsAlive, nodes \subseteq nodes', UNCHANGED owned
  PROVE  RootsAlive'
BY DEF RootsAlive, Rooted

(* While no one sweeps marks are of no account.                            *)
LEMMA MarksSame ==
  ASSUME MarksAgree, UNCHANGED <<marked, key>>,
         \A u \in Threads : pc'[u] = "sweep" => pc[u] = "sweep",
         \A a \in Addr : Rooted(a)' => Rooted(a)
  PROVE  MarksAgree'
BY DEF MarksAgree, Children, Low, High

LEMMA NoSweepNoMarks ==
  ASSUME \A u \in Threads : pc'[u] # "sweep"
  PROVE  MarksAgree'
BY DEF MarksAgree

LEMMA CachesSame ==
  ASSUME Typed, CachesAgree, Grows, UNCHANGED <<slots, cache>>,
         \A u \in Threads : pc[u] = "clear" => pc'[u] = "clear"
  PROVE  CachesAgree'
<1> SUFFICES ASSUME \A u \in Threads : pc'[u] # "clear",
                    NEW op \in Ops, NEW i \in 0 .. slots - 1
             PROVE  EntryAgrees(op, cache[op][i])'
  BY DEF CachesAgree
<1>1. EntryAgrees(op, cache[op][i])
  BY DEF CachesAgree
<1> DEFINE entry == cache[op][i]
           c == [op |-> op, l |-> entry.l, r |-> entry.r]
<1>2. SUFFICES ASSUME entry # NoEntry
               PROVE  OnNodes(c)' /\ entry.val \in nodes' /\ den'[entry.val] = Want(c)'
  BY DEF EntryAgrees
<1>3. OnNodes(c) /\ entry.val \in nodes /\ den[entry.val] = Want(c)
  BY <1>1, <1>2 DEF EntryAgrees
<1> HIDE DEF c
<1>4. OnNodes(c)' /\ Want(c)' = Want(c)
  <2>1. c' = c
    BY DEF c
  <2>2. PICK d : d = c
    OBVIOUS
  <2>3. OnNodes(d)' /\ Want(d)' = Want(d)
    BY <1>3, <2>2, OnNodesSame
  <2> QED
    BY <2>1, <2>2, <2>3
<1> QED
  BY <1>3, <1>4 DEF Grows

(* The others' calls.                                                      *)
LEMMA CallSame ==
  ASSUME NEW u \in Threads, CallAgrees(u), nodes \subseteq nodes',
         pc'[u] = pc[u], call'[u] = call[u], owned'[u] = owned[u]
  PROVE  CallAgrees(u)'
BY DEF CallAgrees, StreamSteps, OnNodes, IsOperand

LEMMA FrameTyped ==
  ASSUME Typed, NEW u \in Threads
  PROVE  /\ stack[u] \in Seq(Frame)
         /\ Len(stack[u]) \in Nat
         /\ \A i \in 1 .. Len(stack[u]) :
              /\ stack[u][i].call \in Call
              /\ stack[u][i].low \in Ptr
              /\ stack[u][i].made \in BOOLEAN
<1>1. stack[u] \in Seq(Frame)
  BY DEF Typed, DataOK
<1>2. Len(stack[u]) \in Nat /\ \A i \in 1 .. Len(stack[u]) : stack[u][i] \in Frame
  BY <1>1
<1> QED
  BY <1>1, <1>2 DEF Frame

LEMMA RecursionSame ==
  ASSUME Typed, Diagram, NEW u \in Threads, RecursionAgrees(u), CallAgrees(u), Grows,
         pc'[u] = pc[u], call'[u] = call[u], eval'[u] = eval[u], val'[u] = val[u],
         stack'[u] = stack[u]
  PROVE  RecursionAgrees(u)'
<1> SUFFICES ASSUME pc[u] \in {"run", "exit"}
             PROVE  ValueAgrees(u)' /\ \A i \in 1 .. Len(stack[u]) : FrameAgrees(u, i)'
  BY DEF RecursionAgrees
<1>1. ValueAgrees(u) /\ \A i \in 1 .. Len(stack[u]) : FrameAgrees(u, i)
  BY DEF RecursionAgrees
<1>2. ASSUME NEW i \in 1 .. Len(stack[u])
      PROVE  /\ Proper(stack[u][i].call)' /\ Proper(stack[u][i].call)
             /\ Want(stack[u][i].call)' = Want(stack[u][i].call)
             /\ \A k : Cofactor(stack[u][i].call, k)' = Cofactor(stack[u][i].call, k)
  <2>1. PICK c : c = stack[u][i].call
    OBVIOUS
  <2> QED
    BY <1>1, <2>1, ProperSame DEF FrameAgrees
<1>3. OnNodes(call[u]) /\ OnNodes(call[u])' /\ Want(call[u])' = Want(call[u])
  <2>1. OnNodes(call[u])
    BY DEF CallAgrees, StreamSteps
  <2>2. PICK c : c = call[u]
    OBVIOUS
  <2> QED
    BY <2>1, <2>2, OnNodesSame
<1>4. OnNodes(eval[u])' /\ Want(eval[u])' = Want(eval[u])
  <2>1. PICK c : c = eval[u]
    OBVIOUS
  <2> QED
    BY <1>1, <2>1, OnNodesSame DEF ValueAgrees
<1>5. \A i \in 1 .. Len(stack[u]) + 1 : Want(Waits(u, i))' = Want(Waits(u, i))
  <2> SUFFICES ASSUME NEW i \in 1 .. Len(stack[u]) + 1
               PROVE  Want(Waits(u, i))' = Want(Waits(u, i))
    OBVIOUS
  <2>1. CASE i > Len(stack[u])
    BY <1>3, <2>1 DEF Waits
  <2>2. CASE ~ (i > Len(stack[u]))
    <3>1. i \in 1 .. Len(stack[u])
      BY <2>2
    <3> DEFINE k == IF stack[u][i].low = Null THEN 2 ELSE 3
               c == Cofactor(stack[u][i].call, k)
    <3>2. Waits(u, i) = c /\ Waits(u, i)' = c'
      BY <2>2 DEF Waits
    <3>3. c' = c
      BY <1>2, <3>1
    <3>4. OnNodes(c)
      BY <1>2, <3>1, FrameTyped, CofactorsMakeUp
    <3>5. PICK d : d = c
      OBVIOUS
    <3> HIDE DEF c
    <3> QED
      BY <3>2, <3>3, <3>4, <3>5, OnNodesSame
  <2> QED
    BY <2>1, <2>2
<1>6. ValueAgrees(u)'
  <2>1. /\ OnNodes(eval[u])
        /\ val[u] = Null /\ eval[u].op \in Ops => Want(eval[u]) = Want(Waits(u, 1))
        /\ val[u] # Null =>
             /\ val[u] \in nodes
             /\ den[val[u]] = IF stack[u] # <<>> /\ Head(stack[u]).made
                              THEN Want(Head(stack[u]).call) ELSE Want(Waits(u, 1))
    BY <1>1 DEF ValueAgrees
  <2>2. 1 \in 1 .. Len(stack[u]) + 1
    BY FrameTyped
  <2>3. Want(Waits(u, 1))' = Want(Waits(u, 1))
    BY <1>5, <2>2
  <2>4. stack[u] # <<>> => /\ 1 \in 1 .. Len(stack[u])
                           /\ Head(stack[u]) = stack[u][1]
    BY FrameTyped
  <2>5. stack[u] # <<>> => Want(Head(stack[u]).call)' = Want(Head(stack[u]).call)
    BY <1>2, <2>4
  <2>6. val[u] # Null => den'[val[u]] = den[val[u]] /\ val[u] \in nodes'
    BY <2>1 DEF Grows
  <2> QED
    BY <1>4, <2>1, <2>3, <2>5, <2>6 DEF ValueAgrees
<1>7. ASSUME NEW i \in 1 .. Len(stack[u])
      PROVE  FrameAgrees(u, i)'
  <2>1. FrameAgrees(u, i)
    BY <1>1
  <2>2. i + 1 \in 1 .. Len(stack[u]) + 1
    BY FrameTyped
  <2>3. Want(Waits(u, i + 1))' = Want(Waits(u, i + 1))
    BY <1>5, <2>2
  <2>4. Want(Cofactor(stack[u][i].call, 2))' = Want(Cofactor(stack[u][i].call, 2))
    <3> DEFINE c == Cofactor(stack[u][i].call, 2)
    <3>1. c' = c /\ OnNodes(c)
      BY <1>2, FrameTyped, CofactorsMakeUp
    <3>2. PICK d : d = c
      OBVIOUS
    <3> HIDE DEF c
    <3>3. Want(c)' = Want(c)
      BY <3>1, <3>2, OnNodesSame
    <3> QED
      BY <3>3 DEF c
  <2>5. stack[u][i].low \in nodes => /\ den'[stack[u][i].low] = den[stack[u][i].low]
                                     /\ stack[u][i].low \in nodes'
    BY DEF Grows
  <2> QED
    BY <1>2, <2>1, <2>3, <2>4, <2>5 DEF FrameAgrees
<1> QED
  BY <1>6, <1>7

LEMMA GuardsSame ==
  ASSUME Typed, GuardsAgree, NEW t \in Threads,
         NEW step \in Steps \union StreamSteps, Goto(t, step),
         UNCHANGED lockVars,
         pc[t] \in ReadSteps <=> step \in ReadSteps,
         pc[t] = "wait" <=> step = "wait",
         pc[t] \in WriteSteps <=> step \in WriteSteps
  PROVE  GuardsAgree'
BY GotoMoves DEF GuardsAgree, ReadSteps, lockVars

(* A step of a call outside its read guard that leaves the table alone.    *)
LEMMA Outside ==
  ASSUME Core, NEW t \in Threads, NEW step \in Steps, Goto(t, step),
         UNCHANGED <<tableVars, recVars, clientVars>>,
         pc[t] \in {"entries", "buckets", "claim", "enter"} \union {"wait"} \union WriteSteps,
         step \notin {"run", "exit"},
         step \in {"entries", "buckets", "enter"} => call[t].op # "gc"
  PROVE  /\ Grows /\ RootsAlive' /\ Diagram'
         /\ \A a \in Addr : Rooted(a)' => Rooted(a)
         /\ \A u \in Threads : CallAgrees(u)' /\ RecursionAgrees(u)'
<1>1. /\ Typed /\ RootsAlive /\ Diagram
      /\ \A u \in Threads : CallAgrees(u) /\ RecursionAgrees(u)
  BY DEF Core
<1>2. UNCHANGED <<nodes, key, den, refs, eval, val, stack, call, owned>>
  BY DEF tableVars, recVars, clientVars
<1>3. Grows
  BY <1>2 DEF Grows
<1>4. /\ pc'[t] = step
      /\ \A u \in Threads : u # t => pc'[u] = pc[u]
  BY <1>1, GotoMoves
<1>5. ASSUME NEW u \in Threads
      PROVE  CallAgrees(u)' /\ RecursionAgrees(u)'
  <2>1. CASE u = t
    <3>1. CallAgrees(t)'
      BY <1>1, <1>2, <1>4 DEF CallAgrees, StreamSteps, WriteSteps, OnNodes, IsOperand
    <3>2. RecursionAgrees(t)'
      BY <1>1, <1>2, <1>4 DEF RecursionAgrees, WriteSteps
    <3> QED
      BY <2>1, <3>1, <3>2
  <2>2. CASE u # t
    BY <1>1, <1>2, <1>3, <1>4, <2>2, CallSame, RecursionSame
  <2> QED
    BY <2>1, <2>2
<1>6. \A a \in Addr : Rooted(a)' => Rooted(a)
  BY <1>2 DEF Rooted
<1> QED
  BY <1>1, <1>2, <1>3, <1>5, <1>6, RootsSame, DiagramSame

(* With the write guard no other thread has a guard or is in such a step.  *)
LEMMA WriterAlone ==
  ASSUME Typed, GuardsAgree, NEW t \in Threads, pc[t] \in WriteSteps
  PROVE  /\ writing /\ slot = t /\ readers = {}
         /\ \A u \in Threads : pc[u] \notin {"run", "exit"} /\ pc[u] \notin ReadSteps
         /\ \A u \in Threads : u # t => pc[u] \notin {"wait"} \union WriteSteps
BY DEF GuardsAgree, ReadSteps

-----------------------------------------------------------------------------
(* enter_op and gc.                                                        *)

LEMMA LoadEntriesStep ==
  ASSUME Core, NEW t \in Threads, LoadEntries(t)
  PROVE  Core'
<1>1. /\ Typed /\ GuardsAgree /\ MarksAgree /\ CachesAgree
      /\ CallAgrees(t)
  BY DEF Core
<1>2. /\ Goto(t, "buckets") /\ "buckets" \in Steps
      /\ pc[t] = "entries"
  BY DEF LoadEntries, Steps
<1>3. UNCHANGED <<tableVars, recVars, clientVars>> /\ UNCHANGED <<marked, key, slots, cache, lockVars>>
  BY DEF LoadEntries, tableVars, sizeVars
<1>4. /\ Grows /\ RootsAlive' /\ Diagram'
      /\ \A a \in Addr : Rooted(a)' => Rooted(a)
      /\ \A u \in Threads : CallAgrees(u)' /\ RecursionAgrees(u)'
  BY <1>1, <1>2, <1>3, Outside DEF WriteSteps, CallAgrees, StreamSteps
<1>5. GuardsAgree'
  BY <1>1, <1>2, <1>3, GuardsSame DEF ReadSteps, WriteSteps
<1>6. MarksAgree' /\ CachesAgree'
  BY <1>1, <1>2, <1>3, <1>4, GotoMoves, MarksSame, CachesSame
<1>7. Typed'
  BY <1>1, <1>2, GotoMoves DEF LoadEntries, Typed, DataOK, tableVars, sizeVars, lockVars, recVars,
        clientVars, Lock!TypeOK
<1> QED
  BY <1>4, <1>5, <1>6, <1>7 DEF Core

LEMMA LoadBucketsStep ==
  ASSUME Core, NEW t \in Threads, LoadBuckets(t)
  PROVE  Core'
<1>1. /\ Typed /\ GuardsAgree /\ MarksAgree /\ CachesAgree
      /\ CallAgrees(t)
  BY DEF Core
<1>2. PICK step \in {"claim", "enter"} : Goto(t, step)
  BY DEF LoadBuckets
<1>3. step \in Steps /\ pc[t] = "buckets"
  BY DEF LoadBuckets, Steps
<1>4. /\ UNCHANGED <<tableVars, recVars, clientVars>>
      /\ UNCHANGED <<marked, key, slots, cache, lockVars>>
  BY DEF LoadBuckets, tableVars, sizeVars
<1>5. /\ Grows /\ RootsAlive' /\ Diagram'
      /\ \A a \in Addr : Rooted(a)' => Rooted(a)
      /\ \A u \in Threads : CallAgrees(u)' /\ RecursionAgrees(u)'
  BY <1>1, <1>2, <1>3, <1>4, Outside DEF WriteSteps, CallAgrees, StreamSteps
<1>6. GuardsAgree'
  BY <1>1, <1>2, <1>3, <1>4, GuardsSame DEF ReadSteps, WriteSteps
<1>7. MarksAgree' /\ CachesAgree'
  BY <1>1, <1>2, <1>3, <1>4, <1>5, GotoMoves, MarksSame, CachesSame
<1>8. Typed'
  BY <1>1, <1>2, <1>3, GotoMoves DEF LoadBuckets, Typed, DataOK, tableVars, sizeVars, lockVars,
        recVars, clientVars, Lock!TypeOK
<1> QED
  BY <1>5, <1>6, <1>7, <1>8 DEF Core

LEMMA TryWriteFailsStep ==
  ASSUME Core, NEW t \in Threads, TryWriteFails(t)
  PROVE  Core'
<1>1. Typed /\ GuardsAgree /\ MarksAgree /\ CachesAgree
  BY DEF Core
<1>2. PICK step \in {"idle", "enter"} :
        Goto(t, step) /\ (step = "enter" => call[t].op # "gc")
  BY DEF TryWriteFails, AfterWrite
<1>3. step \in Steps /\ pc[t] = "claim"
  BY DEF TryWriteFails, Steps
<1>4. /\ UNCHANGED <<tableVars, recVars, clientVars>>
      /\ UNCHANGED <<marked, key, slots, cache, lockVars>>
  BY DEF TryWriteFails, tableVars, sizeVars
<1>5. /\ Grows /\ RootsAlive' /\ Diagram'
      /\ \A a \in Addr : Rooted(a)' => Rooted(a)
      /\ \A u \in Threads : CallAgrees(u)' /\ RecursionAgrees(u)'
  BY <1>2, <1>3, <1>4, Outside DEF WriteSteps
<1>6. GuardsAgree'
  BY <1>1, <1>2, <1>3, <1>4, GuardsSame DEF ReadSteps, WriteSteps
<1>7. MarksAgree' /\ CachesAgree'
  BY <1>1, <1>2, <1>3, <1>4, <1>5, GotoMoves, MarksSame, CachesSame
<1>8. Typed'
  BY <1>1, <1>2, <1>3, GotoMoves DEF TryWriteFails, Typed, DataOK, tableVars, sizeVars, lockVars,
        loadVars, recVars, clientVars, Lock!TypeOK
<1> QED
  BY <1>5, <1>6, <1>7, <1>8 DEF Core

LEMMA TryWriteClaimsStep ==
  ASSUME Core, NEW t \in Threads, TryWriteClaims(t)
  PROVE  Core'
<1>1. Typed /\ GuardsAgree /\ MarksAgree /\ CachesAgree
  BY DEF Core
<1>2. Goto(t, "wait") /\ "wait" \in Steps /\ pc[t] = "claim"
  BY DEF TryWriteClaims, Steps
<1>3. /\ UNCHANGED <<tableVars, recVars, clientVars>>
      /\ UNCHANGED <<marked, key, slots, cache>>
  BY DEF TryWriteClaims, tableVars, sizeVars
<1>4. /\ Grows /\ RootsAlive' /\ Diagram'
      /\ \A a \in Addr : Rooted(a)' => Rooted(a)
      /\ \A u \in Threads : CallAgrees(u)' /\ RecursionAgrees(u)'
  BY <1>2, <1>3, Outside DEF WriteSteps
<1>5. GuardsAgree'
  <2>1. slot = NoThread /\ slot' = t /\ UNCHANGED <<readers, writing>>
    BY DEF TryWriteClaims, Lock!Claim
  <2> QED
    BY <1>1, <1>2, <2>1, GotoMoves, ThreadsAssumption DEF GuardsAgree, ReadSteps, WriteSteps
<1>6. MarksAgree' /\ CachesAgree'
  BY <1>1, <1>2, <1>3, <1>4, GotoMoves, MarksSame, CachesSame
<1>7. Typed'
  BY <1>1, <1>2, GotoMoves DEF TryWriteClaims, Typed, DataOK, tableVars, sizeVars, Lock!Claim,
        loadVars, recVars, clientVars, Lock!TypeOK
<1> QED
  BY <1>4, <1>5, <1>6, <1>7 DEF Core

LEMMA TryWriteEntersStep ==
  ASSUME Core, NEW t \in Threads, TryWriteEnters(t)
  PROVE  Core'
<1>1. Typed /\ GuardsAgree /\ MarksAgree /\ CachesAgree
  BY DEF Core
<1>2. Goto(t, "mark") /\ "mark" \in Steps /\ pc[t] = "wait"
  BY DEF TryWriteEnters, Steps
<1>3. /\ UNCHANGED <<tableVars, recVars, clientVars>>
      /\ UNCHANGED <<marked, key, slots, cache>>
  BY DEF TryWriteEnters, tableVars, sizeVars
<1>4. /\ Grows /\ RootsAlive' /\ Diagram'
      /\ \A a \in Addr : Rooted(a)' => Rooted(a)
      /\ \A u \in Threads : CallAgrees(u)' /\ RecursionAgrees(u)'
  BY <1>2, <1>3, Outside DEF WriteSteps
<1>5. GuardsAgree'
  <2>1. slot = t /\ readers = {} /\ writing' = TRUE /\ UNCHANGED <<readers, slot>>
    BY DEF TryWriteEnters, TakesGuard, Lock!EnterWrite
  <2> QED
    BY <1>1, <1>2, <2>1, GotoMoves DEF GuardsAgree, ReadSteps, WriteSteps
<1>6. MarksAgree' /\ CachesAgree'
  BY <1>1, <1>2, <1>3, <1>4, GotoMoves, MarksSame, CachesSame
<1>7. Typed'
  BY <1>1, <1>2, GotoMoves DEF TryWriteEnters, TakesGuard, Typed, DataOK, tableVars, sizeVars,
        Lock!EnterWrite, loadVars, recVars, clientVars, Lock!TypeOK
<1> QED
  BY <1>4, <1>5, <1>6, <1>7 DEF Core

LEMMA ReleaseStep ==
  ASSUME Core, NEW t \in Threads, Release(t)
  PROVE  Core'
<1>1. Typed /\ GuardsAgree /\ MarksAgree /\ CachesAgree
  BY DEF Core
<1>2. PICK step \in {"idle", "enter"} :
        Goto(t, step) /\ (step = "enter" => call[t].op # "gc")
  BY DEF Release, AfterWrite
<1>3. step \in Steps /\ pc[t] = "release"
  BY DEF Release, Steps
<1>4. /\ UNCHANGED <<tableVars, recVars, clientVars>>
      /\ UNCHANGED <<marked, key, slots, cache>>
  BY DEF Release, tableVars, sizeVars
<1>5. /\ Grows /\ RootsAlive' /\ Diagram'
      /\ \A a \in Addr : Rooted(a)' => Rooted(a)
      /\ \A u \in Threads : CallAgrees(u)' /\ RecursionAgrees(u)'
  BY <1>2, <1>3, <1>4, Outside DEF WriteSteps
<1>6. GuardsAgree'
  <2>1. slot' = NoThread /\ writing' = FALSE /\ UNCHANGED readers
    BY DEF Release, Lock!ReleaseWrite
  <2>2. \A u \in Threads : u # t => pc[u] \notin {"wait"} \union WriteSteps
    BY <1>1, <1>3, WriterAlone DEF WriteSteps
  <2> QED
    BY <1>1, <1>2, <1>3, <2>1, <2>2, GotoMoves, ThreadsAssumption DEF GuardsAgree, ReadSteps, WriteSteps
<1>7. MarksAgree' /\ CachesAgree'
  BY <1>1, <1>2, <1>3, <1>4, <1>5, GotoMoves, MarksSame, CachesSame
<1>8. Typed'
  BY <1>1, <1>2, <1>3, GotoMoves DEF Release, Typed, DataOK, tableVars, sizeVars, Lock!ReleaseWrite,
        loadVars, recVars, clientVars, Lock!TypeOK
<1> QED
  BY <1>5, <1>6, <1>7, <1>8 DEF Core

(* What a collection must not free is reached from what is referenced.     *)
RootsReached ==
  \A a \in Addr : Rooted(a) => a \in Reach({b \in nodes : refs[b] # 0})

(* What is marked has all that clients hold, and all that is below.        *)
LEMMA MarkNodesStep ==
  ASSUME Core, RootsReached, NEW t \in Threads, MarkNodes(t)
  PROVE  Core'
<1>1. /\ Typed /\ GuardsAgree /\ MarksAgree /\ CachesAgree
      /\ RootsAlive /\ Diagram
  BY DEF Core
<1>2. PICK step \in {"grow", "sweep"} : Goto(t, step)
  BY DEF MarkNodes
<1>3. step \in Steps /\ pc[t] = "mark"
  BY DEF MarkNodes, Steps
<1>4. /\ UNCHANGED <<tableVars, recVars, clientVars>>
      /\ UNCHANGED <<key, slots, cache, lockVars>>
  BY DEF MarkNodes, tableVars, sizeVars
<1>5. /\ Grows /\ RootsAlive' /\ Diagram'
      /\ \A a \in Addr : Rooted(a)' => Rooted(a)
      /\ \A u \in Threads : CallAgrees(u)' /\ RecursionAgrees(u)'
  BY <1>2, <1>3, <1>4, Outside DEF WriteSteps
<1>6. GuardsAgree'
  BY <1>1, <1>2, <1>3, <1>4, GuardsSame DEF ReadSteps, WriteSteps
<1> DEFINE roots == {a \in nodes : refs[a] # 0}
<1>7. marked' = Reach(roots)
  BY DEF MarkNodes, Marking
<1>8. /\ roots \subseteq Reach(roots)
      /\ Reach(roots) \subseteq nodes
      /\ \A a \in Reach(roots) : Children(a) \subseteq Reach(roots)
  BY <1>1, ReachRoots, ReachClosed DEF Diagram
<1>9. \A a \in Addr : Rooted(a) => a \in Reach(roots)
  BY DEF RootsReached
<1>10. MarksAgree'
  <2> HIDE DEF roots
  <2>1. \A a \in Addr : Rooted(a)' => a \in marked'
    BY <1>5, <1>7, <1>8, <1>9
  <2>2. \A a \in marked' : Children(a)' \subseteq marked'
    BY <1>4, <1>7, <1>8 DEF Children, Low, High
  <2> QED
    BY <2>1, <2>2 DEF MarksAgree
<1>11. CachesAgree'
  BY <1>1, <1>2, <1>3, <1>4, <1>5, GotoMoves, CachesSame
<1>12. Typed'
  <2>1. marked' \in SUBSET nodes'
    BY <1>4, <1>7, <1>8 DEF tableVars
  <2> QED
    BY <1>1, <1>2, <1>3, <2>1, GotoMoves DEF MarkNodes, Typed, DataOK, tableVars, sizeVars, lockVars,
          loadVars, recVars, clientVars, Lock!TypeOK
<1> QED
  BY <1>5, <1>6, <1>10, <1>11, <1>12 DEF Core

(* What is left of the diagram when nodes go is a diagram.                 *)
LEMMA DiagramSwept ==
  ASSUME Typed, Diagram, nodes' \subseteq nodes, Terminals \subseteq nodes',
         \A a \in nodes' : Children(a) \subseteq nodes',
         \A a \in nodes' : key'[a] = key[a] /\ den'[a] = den[a]
  PROVE  Diagram'
<1>1. \A a \in nodes' : /\ Level(a)' = Level(a) /\ Low(a)' = Low(a) /\ High(a)' = High(a)
                        /\ a \in nodes /\ den'[a] = den[a]
  BY DEF Level, Low, High
<1>2. TerminalsAgree'
  BY <1>1 DEF Diagram, TerminalsAgree, Terminals
<1>3. \A a \in nodes' : \A v : Below(a, v)' <=> Below(a, v)
  BY <1>1 DEF Below
<1>4. Ordered'
  <2> SUFFICES ASSUME NEW a \in nodes' \ Terminals
               PROVE  /\ Level(a) \in Vars
                      /\ {Low(a), High(a)} \subseteq nodes'
                      /\ Low(a) # High(a)
                      /\ Below(Low(a), Level(a))' /\ Below(High(a), Level(a))'
                      /\ den[a] = Mux(Level(a), den'[Low(a)], den'[High(a)])
    BY <1>1 DEF Ordered
  <2>1. /\ Level(a) \in Vars
        /\ {Low(a), High(a)} \subseteq nodes
        /\ Low(a) # High(a)
        /\ Below(Low(a), Level(a)) /\ Below(High(a), Level(a))
        /\ den[a] = Mux(Level(a), den[Low(a)], den[High(a)])
    BY DEF Diagram, Ordered
  <2>2. {Low(a), High(a)} \subseteq nodes'
    BY <2>1, NodesTyped DEF Children
  <2>3. den'[Low(a)] = den[Low(a)] /\ den'[High(a)] = den[High(a)]
    BY <1>1, <2>2
  <2>4. Below(Low(a), Level(a))' /\ Below(High(a), Level(a))'
    BY <1>1, <2>1, <2>2 DEF Below
  <2> QED
    BY <2>1, <2>2, <2>3, <2>4
<1>5. Independent'
  BY <1>1, <1>3 DEF Diagram, Independent, Free
<1>6. Canonical'
  BY <1>1 DEF Diagram, Canonical
<1> QED
  BY <1>2, <1>4, <1>5, <1>6 DEF Diagram

LEMMA SweepStep ==
  ASSUME Core, NEW t \in Threads, Sweep(t)
  PROVE  Core'
<1>1. /\ Typed /\ GuardsAgree /\ MarksAgree /\ CachesAgree
      /\ RootsAlive /\ Diagram
      /\ \A u \in Threads : CallAgrees(u) /\ RecursionAgrees(u)
  BY DEF Core
<1>2. Goto(t, "clear") /\ "clear" \in Steps /\ pc[t] = "sweep"
  BY DEF Sweep, Steps
<1>3. /\ pc' \in [Threads -> Steps \union StreamSteps]
      /\ pc'[t] = "clear"
      /\ \A u \in Threads : u # t => pc'[u] = pc[u]
  BY <1>1, <1>2, GotoMoves
<1>4. UNCHANGED <<refs, owned, lockVars, call, eval, val, stack>>
  BY DEF Sweep, recVars, clientVars
<1>5. /\ nodes' = marked
      /\ \A a \in marked : key'[a] = key[a] /\ den'[a] = den[a]
  BY <1>1 DEF Sweep, Typed, DataOK
<1>6. /\ \A u \in Threads : pc[u] \notin {"run", "exit"}
      /\ \A u \in Threads : u # t => pc[u] \notin {"wait"} \union WriteSteps
  BY <1>1, <1>2, WriterAlone DEF WriteSteps
<1>7. /\ \A a \in Addr : Rooted(a) => a \in marked
      /\ \A a \in marked : Children(a) \subseteq marked
      /\ marked \subseteq nodes
  BY <1>1, <1>2 DEF MarksAgree, Typed, DataOK
<1>8. RootsAlive'
  BY <1>1, <1>4, <1>5, <1>7 DEF RootsAlive, Rooted
<1>9. Diagram'
  <2>1. Terminals \subseteq marked
    BY <1>1, <1>7, TerminalsAlive DEF Rooted
  <2> QED
    BY <1>1, <1>5, <1>7, <2>1, DiagramSwept
<1>10. GuardsAgree'
  BY <1>1, <1>2, <1>4, GuardsSame DEF ReadSteps, WriteSteps
<1>11. MarksAgree' /\ CachesAgree'
  BY <1>3, <1>6 DEF MarksAgree, CachesAgree, WriteSteps
<1>12. ASSUME NEW u \in Threads
       PROVE  CallAgrees(u)' /\ RecursionAgrees(u)'
  <2>1. CallAgrees(u)'
    <3>1. \A a \in nodes : IsOperand(u, a) => a \in nodes'
      BY <1>1, <1>5, <1>7 DEF IsOperand, Rooted, Typed, DataOK
    <3>2. \A a : IsOperand(u, a)' <=> IsOperand(u, a)
      BY <1>4 DEF IsOperand
    <3> QED
      BY <1>1, <1>2, <1>3, <1>4, <3>1, <3>2 DEF CallAgrees, StreamSteps, OnNodes
  <2>2. RecursionAgrees(u)'
    BY <1>1, <1>2, <1>3, <1>4, <1>6 DEF RecursionAgrees
  <2> QED
    BY <2>1, <2>2
<1>13. Typed'
  <2>1. marked \in SUBSET Addr /\ Cardinality(marked) \in Nat
    BY <1>1, AddrAssumption, FS_Subset, FS_CardinalityType DEF Typed, DataOK
  <2>2. nodes' \in SUBSET Addr /\ marked' \in SUBSET nodes' /\ numEntry' \in Nat
    BY <2>1 DEF Sweep
  <2>3. key' \in [Addr -> Nat \X Ptr \X Ptr] /\ den' \in [Addr -> SUBSET Assignments]
    BY <1>1 DEF Sweep, Typed, DataOK, FreeKey, Ptr
  <2> QED
    BY <1>1, <1>3, <2>2, <2>3 DEF Sweep, Typed, DataOK, sizeVars, lockVars, loadVars, recVars,
          clientVars, Lock!TypeOK
<1> QED
  BY <1>8, <1>9, <1>10, <1>11, <1>12, <1>13 DEF Core

LEMMA EmptyCacheAgrees ==
  ASSUME NEW n \in Nat
  PROVE  /\ EmptyCache(n) \in [Ops -> [0 .. n - 1 -> [l : Ptr, r : Ptr, val : Ptr]]]
         /\ \A op \in Ops, i \in 0 .. n - 1 : EmptyCache(n)[op][i] = NoEntry
BY DEF EmptyCache, NoEntry, Ptr

LEMMA ClearStep ==
  ASSUME Core, NEW t \in Threads, Clear(t)
  PROVE  Core'
<1>1. Typed /\ GuardsAgree /\ MarksAgree /\ CachesAgree
  BY DEF Core
<1>2. Goto(t, "release") /\ "release" \in Steps /\ pc[t] = "clear"
  BY DEF Clear, DropsGuard, Steps
<1>3. /\ UNCHANGED <<tableVars, recVars, clientVars>>
      /\ UNCHANGED <<marked, key, slots, lockVars>>
      /\ cache' = EmptyCache(slots)
  BY DEF Clear, Invalidated, tableVars, sizeVars
<1>4. /\ Grows /\ RootsAlive' /\ Diagram'
      /\ \A a \in Addr : Rooted(a)' => Rooted(a)
      /\ \A u \in Threads : CallAgrees(u)' /\ RecursionAgrees(u)'
  BY <1>2, <1>3, Outside DEF WriteSteps
<1>5. GuardsAgree'
  BY <1>1, <1>2, <1>3, GuardsSame DEF ReadSteps, WriteSteps
<1>6. MarksAgree'
  BY <1>1, <1>2, <1>3, <1>4, GotoMoves, MarksSame
<1>7. slots \in Nat
  BY <1>1 DEF Typed, DataOK
<1>8. CachesAgree'
  BY <1>3, <1>7, EmptyCacheAgrees DEF CachesAgree, EntryAgrees
<1>9. Typed'
  BY <1>1, <1>2, <1>3, <1>7, GotoMoves, EmptyCacheAgrees DEF Clear, Typed, DataOK, tableVars,
        sizeVars, lockVars, loadVars, recVars, clientVars, Lock!TypeOK
<1> QED
  BY <1>4, <1>5, <1>6, <1>8, <1>9 DEF Core

LEMMA GrowStep ==
  ASSUME Core, NEW t \in Threads, Grow(t)
  PROVE  Core'
<1>1. Typed /\ GuardsAgree /\ MarksAgree /\ CachesAgree
  BY DEF Core
<1>2. Goto(t, "release") /\ "release" \in Steps /\ pc[t] = "grow"
  BY DEF Grow, DropsGuard, Steps
<1>3. /\ UNCHANGED <<tableVars, recVars, clientVars>>
      /\ UNCHANGED <<key, lockVars>>
      /\ cache' = EmptyCache(2 * slots) /\ slots' = 2 * slots
  BY DEF Grow, tableVars
<1>4. /\ Grows /\ RootsAlive' /\ Diagram'
      /\ \A a \in Addr : Rooted(a)' => Rooted(a)
      /\ \A u \in Threads : CallAgrees(u)' /\ RecursionAgrees(u)'
  BY <1>2, <1>3, Outside DEF WriteSteps
<1>5. GuardsAgree'
  BY <1>1, <1>2, <1>3, GuardsSame DEF ReadSteps, WriteSteps
<1>6. MarksAgree'
  <2>1. \A u \in Threads : u # t => pc[u] # "sweep"
    BY <1>1, <1>2, WriterAlone DEF WriteSteps
  <2> QED
    BY <1>1, <1>2, <2>1, GotoMoves, NoSweepNoMarks
<1>7. slots \in Nat \ {0} /\ slots' \in Nat \ {0}
  BY <1>1, <1>3 DEF Typed, DataOK
<1>8. CachesAgree'
  BY <1>3, <1>7, EmptyCacheAgrees DEF CachesAgree, EntryAgrees
<1>9. Typed'
  <2>1. cache' \in [Ops -> [0 .. slots' - 1 -> [l : Ptr, r : Ptr, val : Ptr]]]
    BY <1>3, <1>7, EmptyCacheAgrees
  <2>2. marked' \in SUBSET nodes' /\ buckets' \in Nat \ {0}
    BY <1>1 DEF Grow, Typed, DataOK
  <2>3. pc' \in [Threads -> Steps \union StreamSteps]
    BY <1>1, <1>2, GotoMoves
  <2>4. /\ UNCHANGED <<nodes, key, refs, den, numEntry, readers, slot, writing>>
        /\ UNCHANGED <<entries, size, eval, val, stack, call, owned, calls>>
    BY DEF Grow, tableVars, lockVars, loadVars, recVars, clientVars
  <2> QED
    BY <1>1, <1>7, <2>1, <2>2, <2>3, <2>4 DEF Typed, DataOK, Lock!TypeOK
<1> QED
  BY <1>4, <1>5, <1>6, <1>8, <1>9 DEF Core

-----------------------------------------------------------------------------
(* The clients.                                                            *)

LEMMA BeginOpStep ==
  ASSUME Core, NEW t \in Threads, NEW c \in Workload, BeginOp(t, c)
  PROVE  Core'
<1>1. /\ Typed /\ GuardsAgree /\ MarksAgree /\ CachesAgree
      /\ RootsAlive /\ Diagram
      /\ \A u \in Threads : CallAgrees(u) /\ RecursionAgrees(u)
  BY DEF Core
<1>2. Goto(t, "entries") /\ "entries" \in Steps /\ pc[t] = "idle"
  BY DEF BeginOp, Start, MayCall, Steps
<1>3. /\ pc' \in [Threads -> Steps \union StreamSteps]
      /\ pc'[t] = "entries"
      /\ \A u \in Threads : u # t => pc'[u] = pc[u]
  BY <1>1, <1>2, GotoMoves
<1>4. /\ UNCHANGED <<nodes, key, den, refs, marked, slots, cache, eval, val, stack, owned>>
      /\ UNCHANGED lockVars
      /\ call' = [call EXCEPT ![t] = c]
  BY DEF BeginOp, Start, tableVars, sizeVars, recVars
<1>5. Grows
  BY <1>4 DEF Grows
<1>6. RootsAlive' /\ Diagram'
  BY <1>1, <1>4, RootsSame, DiagramSame
<1>7. GuardsAgree'
  BY <1>1, <1>2, <1>4, GuardsSame DEF ReadSteps, WriteSteps
<1>8. MarksAgree' /\ CachesAgree'
  <2>1. \A a \in Addr : Rooted(a)' => Rooted(a)
    BY <1>4 DEF Rooted
  <2> QED
    BY <1>1, <1>2, <1>3, <1>4, <1>5, <2>1, MarksSame, CachesSame
<1>9. ASSUME NEW u \in Threads
      PROVE  CallAgrees(u)' /\ RecursionAgrees(u)'
  <2>1. CASE u = t
    <3>1. /\ c \in Call /\ c.op \in Ops \union Unimplemented
          /\ c.l \in Addr /\ IF c.op = "not" THEN c.r = Null ELSE c.r \in Addr
      <4>1. c # Gc
        BY DEF BeginOp, Gc
      <4> QED
        BY <4>1, WorkloadAssumption DEF BeginOp, Call
    <3>2. IsOperand(t, c.l) /\ (c.op # "not" => IsOperand(t, c.r))
      BY DEF BeginOp
    <3>3. \A a \in Addr : IsOperand(t, a) => a \in nodes
      BY <1>1 DEF IsOperand, RootsAlive, Rooted
    <3>5. OnNodes(c)'
      BY <1>4, <3>1, <3>2, <3>3 DEF OnNodes
    <3>6. call'[t] = c /\ c.op # "gc"
      BY <1>1, <1>4, <3>1 DEF Typed, DataOK, Ops, Unimplemented
    <3>7. CallAgrees(t)'
      BY <1>4, <3>2, <3>5, <3>6 DEF CallAgrees, StreamSteps, IsOperand
    <3>8. RecursionAgrees(t)'
      BY <1>1, <1>2, <1>3, <1>4 DEF RecursionAgrees
    <3> QED
      BY <2>1, <3>7, <3>8
  <2>2. CASE u # t
    <3>1. call'[u] = call[u]
      BY <1>1, <1>4, <2>2 DEF Typed, DataOK
    <3> QED
      BY <1>1, <1>3, <1>4, <1>5, <2>2, <3>1, CallSame, RecursionSame
  <2> QED
    BY <2>1, <2>2
<1>10. Typed'
  <2>1. c \in Call
    BY WorkloadAssumption DEF BeginOp, Gc
  <2>2. call' \in [Threads -> Call]
    BY <1>1, <1>4, <2>1 DEF Typed, DataOK
  <2>3. calls' \in [Threads -> 0 .. MaxCalls]
    BY <1>1, MaxCallsAssumption DEF Typed, DataOK, BeginOp, Start, MayCall
  <2> QED
    BY <1>1, <1>3, <2>2, <2>3 DEF BeginOp, Start, Typed, DataOK, tableVars, sizeVars, lockVars,
          loadVars, recVars, Lock!TypeOK
<1> QED
  BY <1>6, <1>7, <1>8, <1>9, <1>10 DEF Core

LEMMA BeginGcStep ==
  ASSUME Core, NEW t \in Threads, BeginGc(t)
  PROVE  Core'
<1>1. /\ Typed /\ GuardsAgree /\ MarksAgree /\ CachesAgree
      /\ RootsAlive /\ Diagram
      /\ \A u \in Threads : CallAgrees(u) /\ RecursionAgrees(u)
  BY DEF Core
<1>2. Goto(t, "claim") /\ "claim" \in Steps /\ pc[t] = "idle"
  BY DEF BeginGc, Start, MayCall, Steps
<1>3. /\ pc' \in [Threads -> Steps \union StreamSteps]
      /\ pc'[t] = "claim"
      /\ \A u \in Threads : u # t => pc'[u] = pc[u]
  BY <1>1, <1>2, GotoMoves
<1>4. /\ UNCHANGED <<nodes, key, den, refs, marked, slots, cache, eval, val, stack, owned>>
      /\ UNCHANGED lockVars
      /\ call' = [call EXCEPT ![t] = Gc]
  BY DEF BeginGc, Start, tableVars, sizeVars, recVars
<1>5. Grows
  BY <1>4 DEF Grows
<1>6. RootsAlive' /\ Diagram'
  BY <1>1, <1>4, RootsSame, DiagramSame
<1>7. GuardsAgree'
  BY <1>1, <1>2, <1>4, GuardsSame DEF ReadSteps, WriteSteps
<1>8. MarksAgree' /\ CachesAgree'
  <2>1. \A a \in Addr : Rooted(a)' => Rooted(a)
    BY <1>4 DEF Rooted
  <2> QED
    BY <1>1, <1>2, <1>3, <1>4, <1>5, <2>1, MarksSame, CachesSame
<1>9. ASSUME NEW u \in Threads
      PROVE  CallAgrees(u)' /\ RecursionAgrees(u)'
  <2>1. CASE u = t
    <3>1. call'[t].op = "gc"
      BY <1>1, <1>4 DEF Typed, DataOK, Gc
    <3> QED
      BY <1>1, <1>2, <1>3, <1>4, <2>1, <3>1 DEF CallAgrees, StreamSteps, RecursionAgrees
  <2>2. CASE u # t
    <3>1. call'[u] = call[u]
      BY <1>1, <1>4, <2>2 DEF Typed, DataOK
    <3> QED
      BY <1>1, <1>3, <1>4, <1>5, <2>2, <3>1, CallSame, RecursionSame
  <2> QED
    BY <2>1, <2>2
<1>10. Typed'
  <2>1. Gc \in Call
    BY DEF Gc, Call, Ptr
  <2>2. call' \in [Threads -> Call]
    BY <1>1, <1>4, <2>1 DEF Typed, DataOK
  <2>3. calls' \in [Threads -> 0 .. MaxCalls]
    BY <1>1, MaxCallsAssumption DEF Typed, DataOK, BeginGc, Start, MayCall
  <2> QED
    BY <1>1, <1>3, <2>2, <2>3 DEF BeginGc, Start, Typed, DataOK, tableVars, sizeVars, lockVars,
          loadVars, recVars, Lock!TypeOK
<1> QED
  BY <1>6, <1>7, <1>8, <1>9, <1>10 DEF Core

(* One more reference of one client to a node.                             *)
LEMMA OneMore ==
  ASSUME Typed, NEW t \in Threads, NEW b \in Addr,
         refs' = [refs EXCEPT ![b] = Referenced(@)],
         owned' = [owned EXCEPT ![t][b] = @ + 1]
  PROVE  /\ \A u \in Threads, a \in Addr :
              owned'[u][a] = IF u = t /\ a = b THEN owned[u][a] + 1 ELSE owned[u][a]
         /\ owned' \in [Threads -> [Addr -> Nat]] /\ refs' \in [Addr -> Int]
<1>1. \A u \in Threads, a \in Addr :
        owned'[u][a] = IF u = t /\ a = b THEN owned[u][a] + 1 ELSE owned[u][a]
  BY DEF Typed, DataOK
<1>2. owned' \in [Threads -> [Addr -> Nat]] /\ refs' \in [Addr -> Int]
  BY DEF Typed, DataOK, Referenced
<1> QED
  BY <1>1, <1>2

LEMMA RefStep ==
  ASSUME Core, NEW t \in Threads, NEW c \in Workload, Ref(t, c)
  PROVE  Core'
<1>1. /\ Typed /\ GuardsAgree /\ MarksAgree /\ CachesAgree
      /\ RootsAlive /\ Diagram
      /\ \A u \in Threads : CallAgrees(u) /\ RecursionAgrees(u)
  BY DEF Core
<1>2. /\ UNCHANGED <<nodes, key, den, marked, slots, cache, pc, eval, val, stack, call>>
      /\ UNCHANGED lockVars
      /\ refs' = [refs EXCEPT ![c.l] = Referenced(@)]
      /\ owned' = [owned EXCEPT ![t][c.l] = @ + 1]
  BY DEF Ref, sizeVars, recVars
<1>3. c.l \in Addr /\ Rooted(c.l)
  BY WorkloadAssumption DEF Ref, Gc, IsOperand, Rooted
<1>4. /\ \A u \in Threads, a \in Addr :
           owned'[u][a] = IF u = t /\ a = c.l THEN owned[u][a] + 1 ELSE owned[u][a]
      /\ owned' \in [Threads -> [Addr -> Nat]] /\ refs' \in [Addr -> Int]
  BY <1>1, <1>2, <1>3, OneMore
<1>5. Grows
  BY <1>2 DEF Grows
<1>6. \A a \in Addr : Rooted(a)' => Rooted(a)
  BY <1>3, <1>4 DEF Rooted
<1>7. RootsAlive' /\ Diagram' /\ GuardsAgree'
  BY <1>1, <1>2, <1>6, DiagramSame DEF RootsAlive, GuardsAgree, ReadSteps, lockVars
<1>8. MarksAgree' /\ CachesAgree'
  BY <1>1, <1>2, <1>5, <1>6, MarksSame, CachesSame
<1>9. ASSUME NEW u \in Threads
      PROVE  CallAgrees(u)' /\ RecursionAgrees(u)'
  <2>1. CASE u = t
    BY <1>1, <1>2, <2>1 DEF CallAgrees, StreamSteps, RecursionAgrees, Ref, MayCall
  <2>2. CASE u # t
    <3>1. owned'[u] = owned[u]
      BY <1>1, <1>2, <2>2 DEF Typed, DataOK
    <3> QED
      BY <1>1, <1>2, <1>5, <3>1, CallSame, RecursionSame
  <2> QED
    BY <2>1, <2>2
<1>10. Typed'
  <2>1. calls' \in [Threads -> 0 .. MaxCalls]
    BY <1>1, MaxCallsAssumption DEF Typed, DataOK, Ref, MayCall
  <2> QED
    BY <1>1, <1>4, <2>1 DEF Ref, Typed, DataOK, sizeVars, lockVars, loadVars, recVars, Lock!TypeOK
<1> QED
  BY <1>4, <1>7, <1>8, <1>9, <1>10 DEF Core

LEMMA DerefStep ==
  ASSUME Core, NEW t \in Threads, NEW b \in Addr, Deref(t, b)
  PROVE  Core'
<1>1. /\ Typed /\ GuardsAgree /\ MarksAgree /\ CachesAgree
      /\ RootsAlive /\ Diagram
      /\ \A u \in Threads : CallAgrees(u) /\ RecursionAgrees(u)
  BY DEF Core
<1>2. /\ UNCHANGED <<nodes, key, den, marked, slots, cache, pc, eval, val, stack, call>>
      /\ UNCHANGED lockVars
      /\ refs' = [refs EXCEPT ![b] = @ - 1]
      /\ owned' = [owned EXCEPT ![t][b] = @ - 1]
      /\ owned[t][b] > 0
  BY DEF Deref, LessOne, sizeVars, recVars
<1>3. \A u \in Threads, a \in Addr :
        /\ owned[u][a] \in Nat
        /\ owned'[u][a] = IF u = t /\ a = b THEN owned[u][a] - 1 ELSE owned[u][a]
  BY <1>1, <1>2 DEF Typed, DataOK
<1>9. Grows
  BY <1>2 DEF Grows
<1>10. \A a \in Addr : Rooted(a)' => Rooted(a)
  BY <1>3 DEF Rooted
<1>11. RootsAlive' /\ Diagram' /\ GuardsAgree'
  BY <1>1, <1>2, <1>10, DiagramSame DEF RootsAlive, GuardsAgree, ReadSteps, lockVars
<1>12. MarksAgree' /\ CachesAgree'
  BY <1>1, <1>2, <1>9, <1>10, MarksSame, CachesSame
<1>13. ASSUME NEW u \in Threads
       PROVE  CallAgrees(u)' /\ RecursionAgrees(u)'
  <2>1. CASE u = t
    BY <1>1, <1>2, <2>1 DEF CallAgrees, StreamSteps, RecursionAgrees, Deref
  <2>2. CASE u # t
    <3>1. owned'[u] = owned[u]
      BY <1>1, <1>2, <2>2 DEF Typed, DataOK
    <3> QED
      BY <1>1, <1>2, <1>9, <3>1, CallSame, RecursionSame
  <2> QED
    BY <2>1, <2>2
<1>14. Typed'
  <2>2. refs' \in [Addr -> Int] /\ owned' \in [Threads -> [Addr -> Nat]]
    BY <1>1, <1>2 DEF Typed, DataOK
  <2> QED
    BY <1>1, <2>2 DEF Deref, Typed, DataOK, sizeVars, lockVars, loadVars, recVars, Lock!TypeOK
<1> QED
  BY <1>11, <1>12, <1>13, <1>14 DEF Core

-----------------------------------------------------------------------------
(* Operations.                                                             *)

LEMMA EnterStep ==
  ASSUME Core, NEW t \in Threads, Enter(t)
  PROVE  Core'
<1>1. /\ Typed /\ GuardsAgree /\ MarksAgree /\ CachesAgree
      /\ RootsAlive /\ Diagram
      /\ \A u \in Threads : CallAgrees(u) /\ RecursionAgrees(u)
  BY DEF Core
<1>2. Goto(t, "run") /\ "run" \in Steps /\ pc[t] = "enter"
  BY DEF Enter, Steps
<1>3. /\ pc' \in [Threads -> Steps \union StreamSteps]
      /\ pc'[t] = "run"
      /\ \A u \in Threads : u # t => pc'[u] = pc[u]
  BY <1>1, <1>2, GotoMoves
<1>4. /\ UNCHANGED <<nodes, key, den, refs, marked, slots, cache, stack, owned, call>>
      /\ eval' = [eval EXCEPT ![t] = call[t]]
      /\ val' = [val EXCEPT ![t] = Null]
  BY DEF Enter, tableVars, sizeVars, clientVars, Recur, Return
<1>5. Grows
  BY <1>4 DEF Grows
<1>6. RootsAlive' /\ Diagram'
  BY <1>1, <1>4, RootsSame, DiagramSame
<1>7. GuardsAgree'
  <2>1. slot = NoThread /\ readers' = readers \union {t} /\ UNCHANGED <<slot, writing>>
    BY DEF Enter, Lock!AcquireRead
  <2>2. ~ writing
    BY <1>1, <2>1, ThreadsAssumption DEF GuardsAgree, ReadSteps
  <2> QED
    BY <1>1, <1>2, <1>3, <2>1, <2>2 DEF GuardsAgree, ReadSteps, WriteSteps
<1>8. MarksAgree' /\ CachesAgree'
  <2>1. \A a \in Addr : Rooted(a)' => Rooted(a)
    BY <1>4 DEF Rooted
  <2> QED
    BY <1>1, <1>2, <1>3, <1>4, <1>5, <2>1, MarksSame, CachesSame
<1>9. ASSUME NEW u \in Threads
      PROVE  CallAgrees(u)' /\ RecursionAgrees(u)'
  <2>1. CASE u = t
    <3>1. /\ call[t].op # "gc"
          /\ OnNodes(call[t])
          /\ IsOperand(t, call[t].l) /\ (call[t].op # "not" => IsOperand(t, call[t].r))
      BY <1>1, <1>2 DEF CallAgrees, StreamSteps
    <3>2. OnNodes(call[t])'
      BY <1>4, <3>1 DEF OnNodes
    <3>3. CallAgrees(t)'
      BY <1>4, <3>1, <3>2 DEF CallAgrees, StreamSteps, IsOperand
    <3>4. stack[t] = <<>>
      BY <1>1, <1>2 DEF RecursionAgrees
    <3>5. eval'[t] = call[t] /\ val'[t] = Null
      BY <1>1, <1>4 DEF Typed, DataOK
    <3>6. Waits(t, 1)' = call[t]
      BY <1>4, <3>4 DEF Waits
    <3>7. ValueAgrees(t)'
      BY <1>4, <3>2, <3>5, <3>6 DEF ValueAgrees, OnNodes, Want
    <3>8. RecursionAgrees(t)'
      BY <1>3, <1>4, <3>4, <3>5, <3>7 DEF RecursionAgrees
    <3> QED
      BY <2>1, <3>3, <3>8
  <2>2. CASE u # t
    <3>1. eval'[u] = eval[u] /\ val'[u] = val[u]
      BY <1>1, <1>4, <2>2 DEF Typed, DataOK
    <3> QED
      BY <1>1, <1>3, <1>4, <1>5, <2>2, <3>1, CallSame, RecursionSame
  <2> QED
    BY <2>1, <2>2
<1>10. Typed'
  <2>1. eval' \in [Threads -> Call] /\ val' \in [Threads -> Ptr]
    BY <1>1, <1>4 DEF Typed, DataOK, Ptr
  <2> QED
    BY <1>1, <1>3, <2>1 DEF Enter, Typed, DataOK, tableVars, sizeVars, Lock!AcquireRead,
          clientVars, Lock!TypeOK
<1> QED
  BY <1>6, <1>7, <1>8, <1>9, <1>10 DEF Core

LEMMA QuantifyStep ==
  ASSUME Core, NEW t \in Threads, Quantify(t)
  PROVE  Core'
<1>1. /\ Typed /\ GuardsAgree /\ MarksAgree /\ CachesAgree
      /\ RootsAlive /\ Diagram
      /\ \A u \in Threads : CallAgrees(u) /\ RecursionAgrees(u)
  BY DEF Core
<1>2. Goto(t, "panicked") /\ "panicked" \in Steps /\ pc[t] = "run"
  BY DEF Quantify, Steps
<1>3. /\ pc' \in [Threads -> Steps \union StreamSteps]
      /\ pc'[t] = "panicked"
      /\ \A u \in Threads : u # t => pc'[u] = pc[u]
  BY <1>1, <1>2, GotoMoves
<1>4. UNCHANGED <<nodes, key, den, refs, marked, slots, cache, eval, val, stack, owned, call>>
  BY DEF Quantify, tableVars, sizeVars, clientVars, recVars
<1>5. Grows
  BY <1>4 DEF Grows
<1>6. RootsAlive' /\ Diagram'
  BY <1>1, <1>4, RootsSame, DiagramSame
<1>7. GuardsAgree'
  <2>1. readers' = readers \ {t} /\ UNCHANGED <<slot, writing>>
    BY DEF Quantify, Lock!ReleaseRead
  <2> QED
    BY <1>1, <1>2, <1>3, <2>1 DEF GuardsAgree, ReadSteps, WriteSteps
<1>8. MarksAgree' /\ CachesAgree'
  <2>1. \A a \in Addr : Rooted(a)' => Rooted(a)
    BY <1>4 DEF Rooted
  <2> QED
    BY <1>1, <1>2, <1>3, <1>4, <1>5, <2>1, MarksSame, CachesSame
<1>9. ASSUME NEW u \in Threads
      PROVE  CallAgrees(u)' /\ RecursionAgrees(u)'
  <2>1. CASE u = t
    <3>1. call[t].op \in Unimplemented
      BY DEF Quantify
    <3>2. stack[t] = <<>>
      BY <1>1, <1>2, <3>1 DEF RecursionAgrees
    <3>3. CallAgrees(t)'
      BY <1>3 DEF CallAgrees, StreamSteps
    <3> QED
      BY <1>3, <1>4, <2>1, <3>2, <3>3 DEF RecursionAgrees
  <2>2. CASE u # t
    BY <1>1, <1>3, <1>4, <1>5, <2>2, CallSame, RecursionSame
  <2> QED
    BY <2>1, <2>2
<1>10. Typed'
  BY <1>1, <1>3 DEF Quantify, Typed, DataOK, tableVars, sizeVars, Lock!ReleaseRead, loadVars,
     recVars, clientVars, Lock!TypeOK
<1> QED
  BY <1>6, <1>7, <1>8, <1>9, <1>10 DEF Core

(* A step of the recursion that leaves the table alone.                    *)
LEMMA Inside ==
  ASSUME Core, NEW t \in Threads,
         UNCHANGED <<nodes, key, den, refs, owned, marked, pc, call>>, UNCHANGED lockVars,
         \A u \in Threads : u # t => eval'[u] = eval[u] /\ val'[u] = val[u]
                                     /\ stack'[u] = stack[u]
  PROVE  /\ Grows /\ RootsAlive' /\ Diagram' /\ GuardsAgree' /\ MarksAgree'
         /\ \A u \in Threads : CallAgrees(u)' /\ (u # t => RecursionAgrees(u)')
<1>1. /\ Typed /\ GuardsAgree /\ MarksAgree /\ CachesAgree
      /\ RootsAlive /\ Diagram
      /\ \A u \in Threads : CallAgrees(u) /\ RecursionAgrees(u)
  BY DEF Core
<1>2. Grows
  BY DEF Grows
<1>3. RootsAlive' /\ Diagram'
  BY <1>1, RootsSame, DiagramSame
<1>4. GuardsAgree'
  BY <1>1 DEF GuardsAgree, ReadSteps, lockVars
<1>5. MarksAgree'
  <2>1. \A a \in Addr : Rooted(a)' => Rooted(a)
    BY DEF Rooted
  <2> QED
    BY <1>1, <2>1, MarksSame
<1>6. ASSUME NEW u \in Threads
      PROVE  CallAgrees(u)' /\ (u # t => RecursionAgrees(u)')
  BY <1>1, <1>2, CallSame, RecursionSame
<1> QED
  BY <1>2, <1>3, <1>4, <1>5, <1>6

(* What the meaning of a call depends on.                                  *)
LEMMA MeaningSame ==
  ASSUME UNCHANGED <<nodes, key, den>>, NEW c
  PROVE  /\ OnNodes(c)' <=> OnNodes(c)
         /\ Proper(c)' <=> Proper(c)
         /\ Want(c)' = Want(c)
         /\ \A k : Cofactor(c, k)' = Cofactor(c, k)
<1>1. OnNodes(c)' <=> OnNodes(c)
  BY DEF OnNodes
<1>2. TopLevel(c)' = TopLevel(c)
  BY DEF TopLevel, Level
<1> QED
  BY <1>1, <1>2 DEF Proper, Want, Cofactor, Level

(* What a thread in its recursion knows.                                   *)
LEMMA RunningAgrees ==
  ASSUME Core, NEW t \in Threads, Running(t)
  PROVE  /\ Typed /\ Diagram /\ RootsAlive /\ GuardsAgree
         /\ pc[t] = "run" /\ call[t].op \in Ops
         /\ eval[t] \in Call /\ eval[t].op \in Ops
         /\ OnNodes(call[t])
         /\ ValueAgrees(t)
         /\ \A i \in 1 .. Len(stack[t]) : FrameAgrees(t, i)
         /\ \A u \in Threads : pc[u] \notin WriteSteps
         /\ CachesAgree
         /\ \A op \in Ops, i \in 0 .. slots - 1 : EntryAgrees(op, cache[op][i])
<1>1. /\ Typed /\ GuardsAgree /\ CachesAgree /\ RootsAlive /\ Diagram
      /\ CallAgrees(t) /\ RecursionAgrees(t)
  BY DEF Core
<1>2. pc[t] = "run" /\ call[t].op \in Ops
  BY DEF Running
<1>3. /\ eval[t].op \in Ops /\ ValueAgrees(t)
      /\ \A i \in 1 .. Len(stack[t]) : FrameAgrees(t, i)
  BY <1>1, <1>2 DEF RecursionAgrees
<1>4. OnNodes(call[t])
  BY <1>1, <1>2 DEF CallAgrees, StreamSteps, Ops
<1>5. eval[t] \in Call
  BY <1>1 DEF Typed, DataOK
<1>6. \A u \in Threads : pc[u] \notin WriteSteps
  BY <1>1, <1>2 DEF GuardsAgree, ReadSteps
<1>7. \A op \in Ops, i \in 0 .. slots - 1 : EntryAgrees(op, cache[op][i])
  BY <1>1, <1>6 DEF CachesAgree, WriteSteps
<1> QED
  BY <1>1, <1>2, <1>3, <1>4, <1>5, <1>6, <1>7

(* A call that does not recurse returns the node of its function.          *)
LEMMA Returned ==
  ASSUME Core, NEW t \in Threads, Evaluating(t), NEW b \in nodes, den[b] = Want(eval[t]),
         Return(t, b),
         UNCHANGED <<nodes, key, den, refs, owned, marked, pc, call, eval, stack>>,
         UNCHANGED <<lockVars, slots, cache>>
  PROVE  /\ RootsAlive' /\ Diagram' /\ GuardsAgree' /\ MarksAgree'
         /\ CachesAgree'
         /\ \A u \in Threads : CallAgrees(u)' /\ RecursionAgrees(u)'
         /\ val' \in [Threads -> Ptr]
<1>1. Running(t) /\ val[t] = Null
  BY DEF Evaluating
<1>2. /\ Typed /\ Diagram /\ ValueAgrees(t) /\ CachesAgree
      /\ eval[t].op \in Ops /\ pc[t] = "run" /\ call[t].op \in Ops
      /\ \A i \in 1 .. Len(stack[t]) : FrameAgrees(t, i)
  BY <1>1, RunningAgrees
<1>3. b \in Ptr /\ b # Null
  BY <1>2, NodesTyped DEF Ptr
<1>4. /\ val' \in [Threads -> Ptr] /\ val'[t] = b
      /\ \A u \in Threads : u # t => val'[u] = val[u]
  BY <1>2, <1>3 DEF Return, Typed, DataOK
<1>5. /\ Grows /\ RootsAlive' /\ Diagram' /\ GuardsAgree' /\ MarksAgree'
      /\ \A u \in Threads : CallAgrees(u)' /\ (u # t => RecursionAgrees(u)')
  BY <1>4, Inside DEF lockVars
<1>6. CachesAgree'
  BY <1>2, <1>5, CachesSame
<1>7. Want(Waits(t, 1)) = den[b]
  BY <1>1, <1>2 DEF ValueAgrees
<1>8. stack[t] # <<>> => ~ Head(stack[t]).made
  <2> SUFFICES ASSUME stack[t] # <<>>
               PROVE  ~ Head(stack[t]).made
    OBVIOUS
  <2>1. 1 \in 1 .. Len(stack[t]) /\ Head(stack[t]) = stack[t][1]
    BY <1>2, FrameTyped
  <2>2. FrameAgrees(t, 1)
    BY <1>2, <2>1
  <2> QED
    BY <1>1, <2>1, <2>2 DEF FrameAgrees
<1>9. \A i : Waits(t, i)' = Waits(t, i) /\ Want(Waits(t, i))' = Want(Waits(t, i))
  <2> SUFFICES ASSUME NEW i
               PROVE  Waits(t, i)' = Waits(t, i) /\ Want(Waits(t, i))' = Want(Waits(t, i))
    OBVIOUS
  <2>1. PICK c : c = stack[t][i].call
    OBVIOUS
  <2>2. \A k : Cofactor(c, k)' = Cofactor(c, k)
    BY MeaningSame
  <2>3. Waits(t, i)' = Waits(t, i)
    BY <2>1, <2>2 DEF Waits
  <2>4. PICK d : d = Waits(t, i)
    OBVIOUS
  <2> QED
    BY <2>3, <2>4, MeaningSame
<1>10. ValueAgrees(t)'
  <2>1. OnNodes(eval[t])'
    BY <1>2 DEF ValueAgrees, OnNodes
  <2> QED
    BY <1>3, <1>4, <1>7, <1>8, <1>9, <2>1 DEF ValueAgrees
<1>11. ASSUME NEW i \in 1 .. Len(stack[t])
       PROVE  FrameAgrees(t, i)'
  <2>1. FrameAgrees(t, i)
    BY <1>2
  <2>2. PICK c : c = stack[t][i].call
    OBVIOUS
  <2>3. Proper(c)' /\ Want(c)' = Want(c)
    BY <2>1, <2>2, MeaningSame DEF FrameAgrees
  <2>4. PICK d : d = Cofactor(c, 2)
    OBVIOUS
  <2>5. Cofactor(c, 2)' = d /\ Want(d)' = Want(d)
    BY <2>4, MeaningSame
  <2> QED
    BY <1>3, <1>4, <1>9, <2>1, <2>2, <2>3, <2>4, <2>5 DEF FrameAgrees
<1>12. RecursionAgrees(t)'
  BY <1>2, <1>10, <1>11 DEF RecursionAgrees, Ops, Unimplemented
<1> QED
  BY <1>4, <1>5, <1>6, <1>12

LEMMA SettleStep ==
  ASSUME Core, NEW t \in Threads, Settle(t)
  PROVE  Core'
<1> DEFINE c == Effective(eval[t])
<1>1. Evaluating(t) /\ Running(t) /\ Trivial(c) # Null /\ Return(t, Trivial(c))
  BY DEF Settle, Evaluating
<1>2. /\ Typed /\ Diagram /\ RootsAlive /\ ValueAgrees(t)
      /\ eval[t] \in Call /\ eval[t].op \in Ops
  BY <1>1, RunningAgrees
<1>3. c \in Call /\ OnNodes(c) /\ c.op \in Ops /\ Want(c) = Want(eval[t])
  BY <1>2, EffectiveSame DEF ValueAgrees
<1> HIDE DEF c
<1>4. Trivial(c) \in nodes /\ den[Trivial(c)] = Want(eval[t])
  BY <1>1, <1>2, <1>3, TrivialAnswer
<1>5. /\ UNCHANGED <<nodes, key, den, refs, owned, marked, pc, call, eval, stack>>
      /\ UNCHANGED <<lockVars, slots, cache>>
  BY DEF Settle, tableVars, sizeVars, clientVars
<1>6. /\ RootsAlive' /\ Diagram' /\ GuardsAgree' /\ MarksAgree'
      /\ CachesAgree'
      /\ \A u \in Threads : CallAgrees(u)' /\ RecursionAgrees(u)'
      /\ val' \in [Threads -> Ptr]
  BY <1>1, <1>4, <1>5, Returned
<1>7. Typed'
  BY <1>2, <1>6 DEF Settle, Typed, DataOK, tableVars, sizeVars, lockVars, loadVars, clientVars,
     Lock!TypeOK
<1> QED
  BY <1>6, <1>7 DEF Core

(* The entry of a call.                                                    *)
LEMMA CachedTyped ==
  ASSUME Typed, NEW c \in Call, OnNodes(c), c.op \in Ops
  PROVE  /\ Index(c) \in 0 .. slots - 1
         /\ cache[c.op][Index(c)] \in [l : Ptr, r : Ptr, val : Ptr]
<1>1. CacheHash(c.l, c.r) \in Nat
  BY SizeAssumption DEF Call, Ptr
<1>2. slots \in Nat /\ slots > 0
  BY DEF Typed, DataOK
<1>3. Index(c) \in 0 .. slots - 1
  BY <1>1, <1>2 DEF Index
<1> QED
  BY <1>3 DEF Typed, DataOK

LEMMA CacheHitStep ==
  ASSUME Core, NEW t \in Threads, CacheHit(t)
  PROVE  Core'
<1> DEFINE c == Effective(eval[t])
<1>1. Evaluating(t) /\ Running(t) /\ Cached(c) # Null /\ Return(t, Cached(c))
  BY DEF CacheHit, Evaluating
<1>2. /\ Typed /\ Diagram /\ RootsAlive /\ ValueAgrees(t)
      /\ eval[t] \in Call /\ eval[t].op \in Ops
      /\ \A op \in Ops, i \in 0 .. slots - 1 : EntryAgrees(op, cache[op][i])
  BY <1>1, RunningAgrees
<1>3. c \in Call /\ OnNodes(c) /\ c.op \in Ops /\ Want(c) = Want(eval[t])
  BY <1>2, EffectiveSame DEF ValueAgrees
<1> HIDE DEF c
<1>4. Cached(c) \in nodes /\ den[Cached(c)] = Want(eval[t])
  <2> DEFINE entry == cache[c.op][Index(c)]
             d == [op |-> c.op, l |-> entry.l, r |-> entry.r]
  <2>1. entry.l = c.l /\ entry.r = c.r /\ Cached(c) = entry.val
    BY <1>1 DEF Cached
  <2>2. EntryAgrees(c.op, entry)
    BY <1>2, <1>3, CachedTyped
  <2>3. entry # NoEntry
    BY <1>1, <2>1 DEF NoEntry
  <2>4. entry.val \in nodes /\ den[entry.val] = Want(d)
    BY <2>2, <2>3 DEF EntryAgrees
  <2>5. Want(d) = Want(c)
    BY <2>1 DEF Want
  <2> QED
    BY <1>3, <2>1, <2>4, <2>5
<1>5. /\ UNCHANGED <<nodes, key, den, refs, owned, marked, pc, call, eval, stack>>
      /\ UNCHANGED <<lockVars, slots, cache>>
  BY DEF CacheHit, tableVars, sizeVars, clientVars
<1>6. /\ RootsAlive' /\ Diagram' /\ GuardsAgree' /\ MarksAgree'
      /\ CachesAgree'
      /\ \A u \in Threads : CallAgrees(u)' /\ RecursionAgrees(u)'
      /\ val' \in [Threads -> Ptr]
  BY <1>1, <1>4, <1>5, Returned
<1>7. Typed'
  BY <1>2, <1>6 DEF CacheHit, Typed, DataOK, tableVars, sizeVars, lockVars, loadVars, clientVars,
     Lock!TypeOK
<1> QED
  BY <1>6, <1>7 DEF Core

(* Sequences as stacks.                                                    *)
LEMMA Pushed ==
  ASSUME NEW S, NEW s \in Seq(S), NEW x \in S
  PROVE  /\ <<x>> \o s \in Seq(S)
         /\ Len(<<x>> \o s) = Len(s) + 1
         /\ (<<x>> \o s)[1] = x
         /\ \A i \in 1 .. Len(s) : (<<x>> \o s)[i + 1] = s[i]
<1>1. <<x>> \in Seq(S) /\ Len(<<x>>) = 1 /\ <<x>>[1] = x
  OBVIOUS
<1> QED
  BY <1>1, ConcatProperties

LEMMA Popped ==
  ASSUME NEW S, NEW s \in Seq(S), s # <<>>
  PROVE  /\ Tail(s) \in Seq(S)
         /\ Len(s) \in Nat /\ Len(s) >= 1 /\ Head(s) = s[1]
         /\ Len(Tail(s)) = Len(s) - 1
         /\ \A i \in 1 .. Len(s) - 1 : Tail(s)[i] = s[i + 1]
BY HeadTailProperties

LEMMA CacheMissStep ==
  ASSUME Core, NEW t \in Threads, CacheMiss(t)
  PROVE  Core'
<1> DEFINE c == Effective(eval[t])
           frame == [call |-> c, low |-> Null, made |-> FALSE]
           d == Cofactor(c, 2)
           s == stack[t]
<1>1. /\ Evaluating(t) /\ Running(t) /\ val[t] = Null
      /\ Trivial(c) = Null
      /\ stack' = [stack EXCEPT ![t] = <<frame>> \o @]
      /\ eval' = [eval EXCEPT ![t] = d]
      /\ val' = [val EXCEPT ![t] = Null]
  BY DEF CacheMiss, Evaluating, Recur, Return
<1>2. /\ Typed /\ Diagram /\ RootsAlive /\ ValueAgrees(t)
      /\ eval[t] \in Call /\ eval[t].op \in Ops
      /\ pc[t] = "run" /\ call[t].op \in Ops /\ CachesAgree
      /\ \A i \in 1 .. Len(s) : FrameAgrees(t, i)
  BY <1>1, RunningAgrees
<1>3. /\ c \in Call /\ OnNodes(c) /\ c.op \in Ops
      /\ Want(c) = Want(eval[t])
  BY <1>2, EffectiveSame DEF ValueAgrees
<1>4. Proper(c)
  BY <1>1, <1>2, NotTrivialProper DEF ValueAgrees
<1> HIDE DEF c
<1>5. d \in Call /\ OnNodes(d) /\ d.op \in Ops
  BY <1>2, <1>3, <1>4, CofactorsMakeUp
<1>6. frame \in Frame
  BY <1>3 DEF Frame, Ptr
<1>7. /\ s \in Seq(Frame) /\ Len(s) \in Nat
      /\ <<frame>> \o s \in Seq(Frame)
      /\ Len(<<frame>> \o s) = Len(s) + 1
      /\ (<<frame>> \o s)[1] = frame
      /\ \A i \in 1 .. Len(s) : (<<frame>> \o s)[i + 1] = s[i]
  BY <1>2, <1>6, FrameTyped, Pushed
<1>8. /\ stack' \in [Threads -> Seq(Frame)] /\ stack'[t] = <<frame>> \o s
      /\ eval' \in [Threads -> Call] /\ eval'[t] = d
      /\ val' \in [Threads -> Ptr] /\ val'[t] = Null
      /\ \A u \in Threads : u # t => eval'[u] = eval[u] /\ val'[u] = val[u]
                                     /\ stack'[u] = stack[u]
  BY <1>1, <1>2, <1>5, <1>7 DEF Typed, DataOK, Ptr
<1>9. /\ UNCHANGED <<nodes, key, den, refs, owned, marked, pc, call>>
      /\ UNCHANGED lockVars /\ UNCHANGED <<slots, cache>>
  BY DEF CacheMiss, tableVars, sizeVars, clientVars
<1>10. /\ Grows /\ RootsAlive' /\ Diagram' /\ GuardsAgree' /\ MarksAgree'
       /\ \A u \in Threads : CallAgrees(u)' /\ (u # t => RecursionAgrees(u)')
  BY <1>8, <1>9, Inside
<1>11. CachesAgree'
  BY <1>2, <1>9, <1>10, CachesSame
<1> HIDE DEF d
<1>12. Waits(t, 1)' = d
  <2>1. PICK e : e = c
    OBVIOUS
  <2>2. Cofactor(e, 2)' = d
    BY <1>9, <2>1, MeaningSame DEF d
  <2>3. stack'[t][1].call = e /\ stack'[t][1].low = Null /\ ~ (1 > Len(stack'[t]))
    BY <1>7, <1>8, <2>1
  <2> QED
    BY <2>2, <2>3 DEF Waits
<1>13. \A i \in 1 .. Len(s) + 1 : Waits(t, i + 1)' = Waits(t, i)
  <2> SUFFICES ASSUME NEW i \in 1 .. Len(s) + 1
               PROVE  Waits(t, i + 1)' = Waits(t, i)
    OBVIOUS
  <2>1. CASE i > Len(s)
    BY <1>7, <1>8, <1>9, <2>1 DEF Waits
  <2>2. CASE ~ (i > Len(s))
    <3>1. i \in 1 .. Len(s) /\ i + 1 \in Nat /\ ~ (i + 1 > Len(stack'[t]))
      BY <1>7, <1>8, <2>2
    <3>2. stack'[t][i + 1] = s[i]
      BY <1>7, <1>8, <3>1
    <3>3. PICK e : e = s[i].call
      OBVIOUS
    <3>4. \A k : Cofactor(e, k)' = Cofactor(e, k)
      BY <1>9, MeaningSame
    <3> QED
      BY <2>2, <3>1, <3>2, <3>3, <3>4 DEF Waits
  <2> QED
    BY <2>1, <2>2
<1>14. ValueAgrees(t)'
  <2>1. PICK e : e = d
    OBVIOUS
  <2>2. OnNodes(e)' /\ Want(e)' = Want(e)
    BY <1>5, <1>9, <2>1, MeaningSame
  <2> QED
    BY <1>8, <1>12, <2>1, <2>2 DEF ValueAgrees
<1>15. ASSUME NEW i \in 1 .. Len(s) + 1
       PROVE  FrameAgrees(t, i)'
  <2>1. CASE i = 1
    <3>1. stack'[t][1] = frame
      BY <1>7, <1>8
    <3>2. PICK e : e = c
      OBVIOUS
    <3>3. Proper(e)' /\ Want(e)' = Want(e)
      BY <1>4, <1>9, <3>2, MeaningSame
    <3>4. Waits(t, 2)' = Waits(t, 1)
      <4>1. 1 \in 1 .. Len(s) + 1
        BY <1>7
      <4> QED
        BY <1>13, <4>1
    <3>5. PICK w : w = Waits(t, 1)
      OBVIOUS
    <3>6. Want(Waits(t, 2))' = Want(w)
      BY <1>9, <3>4, <3>5, MeaningSame
    <3>7. Want(c) = Want(w)
      BY <1>1, <1>2, <1>3, <3>5 DEF ValueAgrees
    <3> QED
      BY <2>1, <3>1, <3>2, <3>3, <3>6, <3>7 DEF FrameAgrees
  <2>2. CASE i # 1
    <3>1. PICK j \in 1 .. Len(s) : i = j + 1
      <4>1. i - 1 \in 1 .. Len(s) /\ i = (i - 1) + 1
        BY <1>7, <2>2
      <4> QED
        BY <4>1
    <3>2. stack'[t][i] = s[j] /\ FrameAgrees(t, j)
      BY <1>2, <1>7, <1>8, <3>1
    <3>3. PICK e : e = s[j].call
      OBVIOUS
    <3>4. Proper(e)' /\ Want(e)' = Want(e)
      BY <1>9, <3>2, <3>3, MeaningSame DEF FrameAgrees
    <3>5. PICK w : w = Waits(t, j + 1)
      OBVIOUS
    <3>6. Waits(t, i + 1)' = w
      <4>1. j + 1 \in 1 .. Len(s) + 1
        BY <1>7
      <4> QED
        BY <1>13, <3>1, <3>5, <4>1
    <3>7. Want(Waits(t, i + 1))' = Want(w)
      BY <1>9, <3>6, MeaningSame
    <3>8. PICK b : b = Cofactor(e, 2)
      OBVIOUS
    <3>9. Cofactor(e, 2)' = b /\ Want(b)' = Want(b)
      BY <1>9, <3>8, MeaningSame
    <3>10. ~ s[j].made
      BY <1>1, <3>2 DEF FrameAgrees
    <3> QED
      BY <1>9, <3>2, <3>3, <3>4, <3>5, <3>7, <3>8, <3>9, <3>10 DEF FrameAgrees
  <2> QED
    BY <2>1, <2>2
<1>16. RecursionAgrees(t)'
  BY <1>2, <1>5, <1>7, <1>8, <1>9, <1>14, <1>15 DEF RecursionAgrees, Ops, Unimplemented
<1>17. Typed'
  BY <1>2, <1>8 DEF CacheMiss, Typed, DataOK, tableVars, sizeVars, lockVars, loadVars, clientVars,
     Lock!TypeOK
<1> QED
  BY <1>10, <1>11, <1>16, <1>17 DEF Core

(* The innermost activation, when a recursive call has returned to it.     *)
LEMMA ReturningAgrees ==
  ASSUME Core, NEW t \in Threads, Returning(t)
  PROVE  /\ Running(t) /\ val[t] # Null /\ stack[t] # <<>>
         /\ stack[t] \in Seq(Frame) /\ Len(stack[t]) \in Nat /\ 1 \in 1 .. Len(stack[t])
         /\ Top(t) = stack[t][1] /\ Head(stack[t]) = stack[t][1]
         /\ Top(t) \in Frame /\ Top(t).call \in Call
         /\ FrameAgrees(t, 1)
         /\ Proper(Top(t).call)
         /\ val[t] \in nodes
         /\ den[val[t]] = IF Top(t).made THEN Want(Top(t).call) ELSE Want(Waits(t, 1))
<1>1. Running(t) /\ val[t] # Null /\ stack[t] # <<>>
  BY DEF Returning
<1>2. /\ Typed /\ ValueAgrees(t)
      /\ \A i \in 1 .. Len(stack[t]) : FrameAgrees(t, i)
  BY <1>1, RunningAgrees
<1>3. /\ stack[t] \in Seq(Frame) /\ Len(stack[t]) \in Nat /\ 1 \in 1 .. Len(stack[t])
      /\ Top(t) = stack[t][1] /\ Head(stack[t]) = stack[t][1]
  BY <1>1, <1>2, FrameTyped, Popped DEF Top
<1>4. Top(t) \in Frame
  BY <1>3
<1>5. Top(t).call \in Call
  BY <1>4 DEF Frame
<1> QED
  BY <1>1, <1>2, <1>3, <1>4, <1>5 DEF FrameAgrees, ValueAgrees

(* Another field of the innermost activation.                              *)
LEMMA TopReplaced ==
  ASSUME Typed, NEW t \in Threads, stack[t] # <<>>, NEW frame \in Frame,
         stack' = [stack EXCEPT ![t] = [@ EXCEPT ![1] = frame]]
  PROVE  /\ stack' \in [Threads -> Seq(Frame)]
         /\ Len(stack'[t]) = Len(stack[t]) /\ Len(stack[t]) \in Nat
         /\ stack'[t] # <<>>
         /\ stack'[t][1] = frame /\ Head(stack'[t]) = frame
         /\ \A i \in 2 .. Len(stack[t]) : stack'[t][i] = stack[t][i]
         /\ \A u \in Threads : u # t => stack'[u] = stack[u]
<1> DEFINE s == stack[t]
           r == [s EXCEPT ![1] = frame]
<1>1. s \in Seq(Frame) /\ Len(s) \in Nat /\ Len(s) >= 1
  BY FrameTyped, Popped
<1>2. /\ r \in Seq(Frame) /\ Len(r) = Len(s) /\ r[1] = frame
      /\ \A i \in 2 .. Len(s) : r[i] = s[i]
  BY <1>1
<1>3. r # <<>> /\ Head(r) = frame
  BY <1>1, <1>2
<1>4. stack' = [stack EXCEPT ![t] = r]
  OBVIOUS
<1>5. stack \in [Threads -> Seq(Frame)]
  BY DEF Typed, DataOK
<1> HIDE DEF r
<1>6. /\ stack' \in [Threads -> Seq(Frame)] /\ stack'[t] = r
      /\ \A u \in Threads : u # t => stack'[u] = stack[u]
  BY <1>2, <1>4, <1>5
<1> QED
  BY <1>1, <1>2, <1>3, <1>6

LEMMA LowDoneStep ==
  ASSUME Core, NEW t \in Threads, LowDone(t)
  PROVE  Core'
<1> DEFINE c == Top(t).call
           d == Cofactor(c, 3)
           s == stack[t]
           frame == [s[1] EXCEPT !.low = val[t]]
<1>1. /\ Returning(t) /\ Top(t).low = Null
      /\ stack' = [stack EXCEPT ![t][1].low = val[t]]
      /\ eval' = [eval EXCEPT ![t] = d]
      /\ val' = [val EXCEPT ![t] = Null]
  BY DEF LowDone, Recur, Return
<1>2. /\ Running(t) /\ val[t] # Null /\ s # <<>>
      /\ s \in Seq(Frame) /\ Len(s) \in Nat /\ 1 \in 1 .. Len(s)
      /\ Top(t) = s[1] /\ Top(t) \in Frame /\ c \in Call
      /\ FrameAgrees(t, 1) /\ Proper(c)
      /\ val[t] \in nodes
      /\ den[val[t]] = IF Top(t).made THEN Want(c) ELSE Want(Waits(t, 1))
  BY <1>1, ReturningAgrees
<1>3. /\ Typed /\ Diagram /\ CachesAgree /\ pc[t] = "run" /\ call[t].op \in Ops
      /\ \A i \in 1 .. Len(s) : FrameAgrees(t, i)
  BY <1>2, RunningAgrees
<1>4. ~ Top(t).made
  BY <1>1, <1>2 DEF FrameAgrees
<1>5. Waits(t, 1) = Cofactor(c, 2)
  BY <1>1, <1>2 DEF Waits
<1>6. den[val[t]] = Want(Cofactor(c, 2))
  BY <1>2, <1>4, <1>5
<1>7. d \in Call /\ OnNodes(d) /\ d.op \in Ops
  BY <1>2, <1>3, CofactorsMakeUp DEF Proper
<1>8. /\ frame \in Frame
      /\ frame.call = c /\ frame.low = val[t] /\ ~ frame.made
  <2>1. val[t] \in Ptr
    BY <1>3 DEF Typed, DataOK
  <2> QED
    BY <1>2, <1>4, <2>1 DEF Frame
<1>9. stack' = [stack EXCEPT ![t] = [@ EXCEPT ![1] = frame]]
  BY <1>1
<1> HIDE DEF frame
<1>10. /\ stack' \in [Threads -> Seq(Frame)]
       /\ Len(stack'[t]) = Len(s)
       /\ stack'[t] # <<>> /\ stack'[t][1] = frame
       /\ \A i \in 2 .. Len(s) : stack'[t][i] = s[i]
       /\ \A u \in Threads : u # t => stack'[u] = stack[u]
  BY <1>2, <1>3, <1>8, <1>9, TopReplaced
<1>11. /\ eval' \in [Threads -> Call] /\ eval'[t] = d
       /\ val' \in [Threads -> Ptr] /\ val'[t] = Null
       /\ \A u \in Threads : u # t => eval'[u] = eval[u] /\ val'[u] = val[u]
  BY <1>1, <1>3, <1>7 DEF Typed, DataOK, Ptr
<1>12. /\ UNCHANGED <<nodes, key, den, refs, owned, marked, pc, call>>
       /\ UNCHANGED lockVars /\ UNCHANGED <<slots, cache>>
  BY DEF LowDone, tableVars, sizeVars, clientVars
<1>13. /\ Grows /\ RootsAlive' /\ Diagram' /\ GuardsAgree' /\ MarksAgree'
       /\ \A u \in Threads : CallAgrees(u)' /\ (u # t => RecursionAgrees(u)')
  BY <1>10, <1>11, <1>12, Inside
<1>14. CachesAgree'
  BY <1>3, <1>12, <1>13, CachesSame
<1> HIDE DEF c, d
<1>15. \A k, e : Cofactor(e, k)' = Cofactor(e, k)
  BY <1>12, MeaningSame
<1>16. Waits(t, 1)' = d
  <2>1. PICK e : e = c
    OBVIOUS
  <2>2. Cofactor(e, 3)' = d
    BY <1>15, <2>1 DEF d
  <2>3. stack'[t][1].call = e /\ stack'[t][1].low # Null /\ ~ (1 > Len(stack'[t]))
    BY <1>2, <1>8, <1>10, <2>1
  <2> QED
    BY <2>2, <2>3 DEF Waits
<1>17. \A i \in 2 .. Len(s) + 1 : Waits(t, i)' = Waits(t, i)
  <2> SUFFICES ASSUME NEW i \in 2 .. Len(s) + 1
               PROVE  Waits(t, i)' = Waits(t, i)
    OBVIOUS
  <2>1. CASE i > Len(s)
    BY <1>10, <1>12, <2>1 DEF Waits
  <2>2. CASE ~ (i > Len(s))
    <3>1. stack'[t][i] = s[i] /\ ~ (i > Len(stack'[t]))
      BY <1>2, <1>10, <2>2
    <3>2. PICK e : e = s[i].call
      OBVIOUS
    <3> QED
      BY <1>15, <2>2, <3>1, <3>2 DEF Waits
  <2> QED
    BY <2>1, <2>2
<1>18. ValueAgrees(t)'
  <2>1. PICK e : e = d
    OBVIOUS
  <2>2. OnNodes(e)' /\ Want(e)' = Want(e)
    BY <1>7, <1>12, <2>1, MeaningSame
  <2> QED
    BY <1>11, <1>16, <2>1, <2>2 DEF ValueAgrees
<1>19. ASSUME NEW i \in 1 .. Len(s)
       PROVE  FrameAgrees(t, i)'
  <2>1. FrameAgrees(t, i)
    BY <1>3
  <2>2. PICK e : e = s[i].call
    OBVIOUS
  <2>3. Proper(e)' /\ Want(e)' = Want(e)
    BY <1>12, <2>1, <2>2, MeaningSame DEF FrameAgrees
  <2>4. PICK w : w = Waits(t, i + 1)
    OBVIOUS
  <2>5. Waits(t, i + 1)' = w /\ Want(w)' = Want(w)
    <3>1. i + 1 \in 2 .. Len(s) + 1
      BY <1>2
    <3> QED
      BY <1>12, <1>17, <2>4, <3>1, MeaningSame
  <2>6. PICK b : b = Cofactor(e, 2)
    OBVIOUS
  <2>7. Cofactor(e, 2)' = b /\ Want(b)' = Want(b)
    BY <1>12, <2>6, MeaningSame
  <2>8. CASE i = 1
    <3>1. e = c /\ stack'[t][1] = frame
      BY <1>2, <1>10, <2>2, <2>8 DEF c
    <3> QED
      BY <1>2, <1>6, <1>8, <1>12, <2>1, <2>2, <2>3, <2>4, <2>5, <2>6, <2>7, <2>8, <3>1
         DEF FrameAgrees
  <2>9. CASE i # 1
    <3>1. stack'[t][i] = s[i]
      BY <1>2, <1>10, <2>9
    <3>2. ~ s[i].made
      BY <2>1, <2>9 DEF FrameAgrees
    <3> QED
      BY <1>12, <2>1, <2>2, <2>3, <2>4, <2>5, <2>6, <2>7, <3>1, <3>2 DEF FrameAgrees
  <2> QED
    BY <2>8, <2>9
<1>20. RecursionAgrees(t)'
  BY <1>3, <1>7, <1>10, <1>11, <1>12, <1>18, <1>19 DEF RecursionAgrees, Ops, Unimplemented
<1>21. Typed'
  BY <1>3, <1>10, <1>11 DEF LowDone, Typed, DataOK, tableVars, sizeVars, lockVars, loadVars,
     clientVars, Lock!TypeOK
<1> QED
  BY <1>13, <1>14, <1>20, <1>21 DEF Core

LEMMA CacheReplaced ==
  ASSUME Typed, NEW o \in Ops, NEW j \in 0 .. slots - 1,
         NEW entry \in [l : Ptr, r : Ptr, val : Ptr],
         cache' = [cache EXCEPT ![o][j] = entry]
  PROVE  /\ cache' \in [Ops -> [0 .. slots - 1 -> [l : Ptr, r : Ptr, val : Ptr]]]
         /\ \A op \in Ops, i \in 0 .. slots - 1 :
              cache'[op][i] = IF op = o /\ i = j THEN entry ELSE cache[op][i]
<1>1. cache \in [Ops -> [0 .. slots - 1 -> [l : Ptr, r : Ptr, val : Ptr]]]
  BY DEF Typed, DataOK
<1> QED
  BY <1>1

LEMMA CacheInsertStep ==
  ASSUME Core, NEW t \in Threads, CacheInsert(t)
  PROVE  Core'
<1> DEFINE c == Top(t).call
           s == stack[t]
           entry == [l |-> c.l, r |-> c.r, val |-> val[t]]
<1>1. /\ Returning(t) /\ Top(t).made
      /\ stack' = [stack EXCEPT ![t] = Tail(@)]
      /\ \/ cache' = [cache EXCEPT ![c.op][Index(c)] = entry]
         \/ UNCHANGED cache
  BY DEF CacheInsert
<1>2. /\ Running(t) /\ val[t] # Null /\ s # <<>>
      /\ s \in Seq(Frame) /\ Len(s) \in Nat /\ 1 \in 1 .. Len(s)
      /\ Top(t) = s[1] /\ Top(t) \in Frame /\ c \in Call
      /\ FrameAgrees(t, 1) /\ Proper(c)
      /\ val[t] \in nodes
      /\ den[val[t]] = Want(c)
  BY <1>1, ReturningAgrees
<1>3. /\ Typed /\ Diagram /\ CachesAgree /\ pc[t] = "run" /\ call[t].op \in Ops
      /\ eval[t].op \in Ops /\ ValueAgrees(t)
      /\ \A i \in 1 .. Len(s) : FrameAgrees(t, i)
      /\ \A op \in Ops, i \in 0 .. slots - 1 : EntryAgrees(op, cache[op][i])
  BY <1>2, RunningAgrees
<1>4. /\ Tail(s) \in Seq(Frame) /\ Len(Tail(s)) = Len(s) - 1
      /\ \A i \in 1 .. Len(s) - 1 : Tail(s)[i] = s[i + 1]
  BY <1>2, Popped
<1>5. /\ stack' \in [Threads -> Seq(Frame)] /\ stack'[t] = Tail(s)
      /\ \A u \in Threads : u # t => stack'[u] = stack[u]
  BY <1>1, <1>3, <1>4 DEF Typed, DataOK
<1>6. /\ UNCHANGED <<nodes, key, den, refs, owned, marked, pc, call, eval, val>>
      /\ UNCHANGED lockVars /\ UNCHANGED slots
  BY DEF CacheInsert, tableVars, sizeVars, clientVars
<1>7. /\ Grows /\ RootsAlive' /\ Diagram' /\ GuardsAgree' /\ MarksAgree'
      /\ \A u \in Threads : CallAgrees(u)' /\ (u # t => RecursionAgrees(u)')
  BY <1>5, <1>6, Inside
<1>8. OnNodes(c) /\ c.op \in Ops
  BY <1>2 DEF Proper
<1>9. /\ Index(c) \in 0 .. slots - 1
      /\ entry \in [l : Ptr, r : Ptr, val : Ptr]
  BY <1>2, <1>3, <1>8, CachedTyped DEF Call, Typed, DataOK
<1> HIDE DEF entry
<1>10. /\ cache' \in [Ops -> [0 .. slots' - 1 -> [l : Ptr, r : Ptr, val : Ptr]]]
       /\ \A op \in Ops, i \in 0 .. slots - 1 :
            cache'[op][i] = cache[op][i] \/ (op = c.op /\ cache'[op][i] = entry)
  <2>1. CASE UNCHANGED cache
    BY <1>3, <1>6, <2>1 DEF Typed, DataOK
  <2>2. CASE cache' = [cache EXCEPT ![c.op][Index(c)] = entry]
    BY <1>3, <1>6, <1>8, <1>9, <2>2, CacheReplaced
  <2> QED
    BY <1>1, <2>1, <2>2
<1> USE DEF entry
<1>12. CachesAgree'
  <2> SUFFICES ASSUME NEW op \in Ops, NEW i \in 0 .. slots - 1
               PROVE  EntryAgrees(op, cache[op][i])'
    BY <1>6 DEF CachesAgree
  <2>1. CASE cache'[op][i] = cache[op][i]
    <3>1. PICK e : e = cache[op][i]
      OBVIOUS
    <3>2. EntryAgrees(op, e)
      BY <1>3, <3>1
    <3>3. EntryAgrees(op, e)'
      BY <1>6, <3>2 DEF EntryAgrees, OnNodes, Want
    <3> QED
      BY <2>1, <3>1, <3>3
  <2>2. CASE cache'[op][i] # cache[op][i]
    <3>1. op = c.op /\ cache'[op][i] = entry
      BY <1>10, <2>2
    <3>2. PICK e : e = entry
      OBVIOUS
    <3>3. OnNodes([op |-> op, l |-> e.l, r |-> e.r])
      BY <1>8, <3>1, <3>2 DEF OnNodes
    <3>4. Want([op |-> op, l |-> e.l, r |-> e.r]) = den[e.val]
      BY <1>2, <3>1, <3>2 DEF Want
    <3>5. e.val \in nodes
      BY <1>2, <3>2
    <3>6. EntryAgrees(op, e)'
      BY <1>6, <3>3, <3>4, <3>5 DEF EntryAgrees, OnNodes, Want
    <3> QED
      BY <3>1, <3>2, <3>6
  <2> QED
    BY <2>1, <2>2
<1> HIDE DEF c, entry
<1>13. \A k, e : Cofactor(e, k)' = Cofactor(e, k)
  BY <1>6, MeaningSame
<1>14. \A i \in 1 .. Len(s) : Waits(t, i)' = Waits(t, i + 1)
  <2> SUFFICES ASSUME NEW i \in 1 .. Len(s)
               PROVE  Waits(t, i)' = Waits(t, i + 1)
    OBVIOUS
  <2>1. CASE i = Len(s)
    BY <1>2, <1>4, <1>5, <1>6, <2>1 DEF Waits
  <2>2. CASE i # Len(s)
    <3>1. /\ stack'[t][i] = s[i + 1] /\ ~ (i > Len(stack'[t])) /\ ~ (i + 1 > Len(s))
      BY <1>2, <1>4, <1>5, <2>2
    <3>2. PICK e : e = s[i + 1].call
      OBVIOUS
    <3> QED
      BY <1>13, <3>1, <3>2 DEF Waits
  <2> QED
    BY <2>1, <2>2
<1>15. ASSUME NEW i \in 1 .. Len(s) - 1
       PROVE  FrameAgrees(t, i)' /\ ~ stack'[t][i].made
  <2>1. i + 1 \in 1 .. Len(s) /\ i + 1 # 1
    BY <1>2
  <2>2. FrameAgrees(t, i + 1) /\ stack'[t][i] = s[i + 1]
    BY <1>3, <1>4, <1>5, <2>1
  <2>3. ~ s[i + 1].made
    BY <2>1, <2>2 DEF FrameAgrees
  <2>4. PICK e : e = s[i + 1].call
    OBVIOUS
  <2>5. Proper(e)' /\ Want(e)' = Want(e)
    BY <1>6, <2>2, <2>4, MeaningSame DEF FrameAgrees
  <2>6. PICK w : w = Waits(t, i + 2)
    OBVIOUS
  <2>7. Waits(t, i + 1)' = w /\ Want(w)' = Want(w)
    <3>1. (i + 1) + 1 = i + 2
      OBVIOUS
    <3> QED
      BY <1>6, <1>14, <2>1, <2>6, <3>1, MeaningSame
  <2>8. PICK b : b = Cofactor(e, 2)
    OBVIOUS
  <2>9. Cofactor(e, 2)' = b /\ Want(b)' = Want(b)
    BY <1>6, <2>8, MeaningSame
  <2>10. Want(e) = Want(w)
    <3>1. (i + 1) + 1 = i + 2
      OBVIOUS
    <3> QED
      BY <2>2, <2>4, <2>6, <3>1 DEF FrameAgrees
  <2> QED
    BY <1>6, <2>2, <2>3, <2>4, <2>5, <2>7, <2>8, <2>9, <2>10 DEF FrameAgrees
<1>16. ValueAgrees(t)'
  <2>1. Waits(t, 1)' = Waits(t, 2)
    <3>1. 1 \in 1 .. Len(s)
      BY <1>2
    <3> QED
      BY <1>14, <3>1
  <2>2. PICK w : w = Waits(t, 2)
    OBVIOUS
  <2>3. Want(w)' = Want(w)
    BY <1>6, MeaningSame
  <2>4. den[val[t]] = Want(w)
    BY <1>2, <2>2 DEF FrameAgrees, c
  <2>5. stack'[t] # <<>> => ~ Head(stack'[t]).made
    <3> SUFFICES ASSUME stack'[t] # <<>>
                 PROVE  ~ Head(stack'[t]).made
      OBVIOUS
    <3>1. Len(Tail(s)) >= 1 /\ Head(stack'[t]) = stack'[t][1]
      BY <1>4, <1>5, Popped
    <3>2. 1 \in 1 .. Len(s) - 1
      BY <1>2, <1>4, <3>1
    <3> QED
      BY <1>15, <3>1, <3>2
  <2>6. OnNodes(eval[t])'
    BY <1>3, <1>6 DEF ValueAgrees, OnNodes
  <2> QED
    BY <1>2, <1>6, <2>1, <2>2, <2>3, <2>4, <2>5, <2>6 DEF ValueAgrees
<1>17. RecursionAgrees(t)'
  BY <1>3, <1>4, <1>5, <1>6, <1>15, <1>16 DEF RecursionAgrees, Ops, Unimplemented
<1>18. Typed'
  BY <1>3, <1>5, <1>10 DEF CacheInsert, Typed, DataOK, tableVars, sizeVars, lockVars, loadVars,
     clientVars, Lock!TypeOK
<1> QED
  BY <1>7, <1>12, <1>17, <1>18 DEF Core

(* A node more, of a function that no node has, and a level above its      *)
(* children's.                                                             *)
LEMMA DiagramExtended ==
  ASSUME Typed, Diagram, RootsAlive,
         NEW v \in Vars, NEW lo \in nodes, NEW hi \in nodes, lo # hi,
         Below(lo, v), Below(hi, v), \A b \in nodes : key[b] # <<v, lo, hi>>,
         NEW a \in Addr \ nodes,
         nodes' = nodes \union {a},
         key' = [key EXCEPT ![a] = <<v, lo, hi>>],
         den' = [den EXCEPT ![a] = Mux(v, den[lo], den[hi])]
  PROVE  Diagram' /\ Grows
<1> DEFINE f == Mux(v, den[lo], den[hi])
<1>1. \A b \in nodes : /\ key'[b] = key[b] /\ den'[b] = den[b]
                       /\ Level(b)' = Level(b) /\ Low(b)' = Low(b) /\ High(b)' = High(b)
  BY NodesTyped DEF Typed, DataOK, Level, Low, High
<1>2. den'[a] = f /\ Level(a)' = v /\ Low(a)' = lo /\ High(a)' = hi
  BY DEF Typed, DataOK, Level, Low, High
<1> HIDE DEF f
<1>3. Terminals \subseteq nodes /\ a \notin Terminals
  BY TerminalsAlive
<1>4. \A b \in nodes : \A u : Below(b, u)' <=> Below(b, u)
  BY <1>1 DEF Below
<1>5. TerminalsAgree'
  BY <1>1, <1>3 DEF Diagram, TerminalsAgree, Terminals
<1>6. Ordered'
  <2> SUFFICES ASSUME NEW b \in nodes' \ Terminals
               PROVE  /\ Level(b)' \in Vars
                      /\ {Low(b)', High(b)'} \subseteq nodes'
                      /\ Low(b)' # High(b)'
                      /\ Below(Low(b), Level(b))' /\ Below(High(b), Level(b))'
                      /\ den'[b] = Mux(Level(b)', den'[Low(b)'], den'[High(b)'])
    BY DEF Ordered
  <2>1. CASE b = a
    BY <1>1, <1>2, <2>1 DEF Below, f
  <2>2. CASE b # a
    <3>1. b \in nodes
      BY <2>2
    <3>2. /\ Level(b) \in Vars
          /\ {Low(b), High(b)} \subseteq nodes
          /\ Low(b) # High(b)
          /\ Below(Low(b), Level(b)) /\ Below(High(b), Level(b))
          /\ den[b] = Mux(Level(b), den[Low(b)], den[High(b)])
      BY <3>1 DEF Diagram, Ordered
    <3> QED
      BY <1>1, <3>1, <3>2 DEF Below
  <2> QED
    BY <2>1, <2>2
<1>7. Independent'
  <2> SUFFICES ASSUME NEW b \in nodes', NEW u \in Vars, Below(b, u)'
               PROVE  Free(den'[b], u)
    BY DEF Independent, Free
  <2>1. CASE b = a
    <3>1. u \in Nat /\ v \in Nat /\ u < v
      BY <1>2, <1>3, <2>1 DEF Below, Vars
    <3>2. \A c \in {lo, hi} : Below(c, u)
      <4> SUFFICES ASSUME NEW c \in {lo, hi}, c \notin Terminals
                   PROVE  Level(c) > u
        BY DEF Below
      <4>1. Level(c) > v /\ Level(c) \in Nat
        BY DEF Below, Diagram, Ordered, Vars
      <4> QED
        BY <3>1, <4>1
    <3>3. Free(den[lo], u) /\ Free(den[hi], u)
      BY <3>2 DEF Diagram, Independent
    <3>4. Free(f, u)
      BY <3>1, <3>3, MuxFree DEF f
    <3> QED
      BY <1>2, <2>1, <3>4
  <2>2. CASE b # a
    BY <1>1, <1>4, <2>2 DEF Diagram, Independent
  <2> QED
    BY <2>1, <2>2
<1>8. Canonical'
  <2>1. \A b \in nodes : den[b] # f
    BY NewFunction DEF f
  <2> QED
    BY <1>1, <1>2, <2>1 DEF Diagram, Canonical
<1>9. Grows
  BY <1>1 DEF Grows
<1> QED
  BY <1>5, <1>6, <1>7, <1>8, <1>9 DEF Diagram

(* make_node answers with the node of the function.                        *)
LEMMA MakeNodeAnswers ==
  ASSUME Typed, Diagram, RootsAlive,
         NEW v \in Vars, NEW lo \in nodes, NEW hi \in nodes,
         Below(lo, v), Below(hi, v), NEW a \in Addr, MakeNode(v, lo, hi, a),
         UNCHANGED owned
  PROVE  /\ Grows /\ Diagram' /\ RootsAlive'
         /\ a \in nodes' /\ den'[a] = Mux(v, den[lo], den[hi])
         /\ nodes' \in SUBSET Addr /\ key' \in [Addr -> Nat \X Ptr \X Ptr]
         /\ refs' \in [Addr -> Int] /\ den' \in [Addr -> SUBSET Assignments]
         /\ numEntry' \in Nat
<1> DEFINE k == <<v, lo, hi>>
           same == {b \in nodes : key[b] = k}
<1>1. CASE lo = hi \/ same # {}
  <2>1. UNCHANGED <<nodes, key, refs, den, numEntry>>
    BY <1>1 DEF MakeNode, Redundant, tableVars
  <2>2. Grows
    BY <2>1 DEF Grows
  <2>3. a \in nodes /\ den[a] = Mux(v, den[lo], den[hi])
    <3>1. CASE lo = hi
      BY <3>1, MuxSame DEF MakeNode, Redundant
    <3>2. CASE lo # hi
      <4>1. a \in nodes /\ key[a] = k
        BY <1>1, <3>2 DEF MakeNode, Redundant
      <4>2. Level(a) = v /\ Low(a) = lo /\ High(a) = hi
        BY <4>1 DEF Level, Low, High
      <4>3. a \notin Terminals
        BY <4>2, NodesTyped DEF Diagram, TerminalsAgree
      <4> QED
        BY <4>1, <4>2, <4>3 DEF Diagram, Ordered
    <3> QED
      BY <3>1, <3>2
  <2> QED
    BY <2>1, <2>2, <2>3, DiagramSame, RootsSame DEF Typed, DataOK
<1>2. CASE lo # hi /\ same = {}
  <2>1. /\ a \in Malloc(Addr \ nodes)
        /\ nodes' = nodes \union {a}
        /\ key' = [key EXCEPT ![a] = k]
        /\ refs' = [refs EXCEPT ![a] = 0]
        /\ den' = [den EXCEPT ![a] = Mux(v, den[lo], den[hi])]
        /\ numEntry' = numEntry + 1
    BY <1>2 DEF MakeNode, Redundant
  <2>2. a \in Addr \ nodes
    BY <2>1, AddrAssumption
  <2>3. Diagram' /\ Grows
    BY <1>2, <2>1, <2>2, DiagramExtended
  <2>4. RootsAlive'
    BY <2>1, RootsSame
  <2>6. /\ nodes' \in SUBSET Addr /\ key' \in [Addr -> Nat \X Ptr \X Ptr]
        /\ refs' \in [Addr -> Int] /\ numEntry' \in Nat
    <3>1. v \in Nat /\ lo \in Ptr /\ hi \in Ptr
      BY NodesTyped DEF Ptr, Vars
    <3> QED
      BY <2>1, <3>1 DEF Typed, DataOK
  <2>7. den' \in [Addr -> SUBSET Assignments] /\ den'[a] = Mux(v, den[lo], den[hi])
    <3>1. Mux(v, den[lo], den[hi]) \in SUBSET Assignments
      BY NodesTyped, MuxType
    <3> QED
      BY <2>1, <3>1 DEF Typed, DataOK
  <2> QED
    BY <2>1, <2>3, <2>4, <2>6, <2>7
<1> QED
  BY <1>1, <1>2

LEMMA HighDoneStep ==
  ASSUME Core, NEW t \in Threads, HighDone(t)
  PROVE  Core'
<1> DEFINE c == Top(t).call
           s == stack[t]
           v == TopLevel(c)
           low == Top(t).low
           frame == [s[1] EXCEPT !.made = TRUE]
<1>1. /\ Returning(t) /\ low # Null /\ ~ Top(t).made
      /\ stack' = [stack EXCEPT ![t][1].made = TRUE]
  BY DEF HighDone
<1>2. PICK a \in Addr : MakeNode(v, low, val[t], a) /\ val' = [val EXCEPT ![t] = a]
  BY DEF HighDone, Return
<1>3. /\ Running(t) /\ val[t] # Null /\ s # <<>>
      /\ s \in Seq(Frame) /\ Len(s) \in Nat /\ 1 \in 1 .. Len(s)
      /\ Top(t) = s[1] /\ Top(t) \in Frame /\ c \in Call
      /\ FrameAgrees(t, 1) /\ Proper(c)
      /\ val[t] \in nodes
      /\ den[val[t]] = Want(Waits(t, 1))
  BY <1>1, ReturningAgrees
<1>4. /\ Typed /\ Diagram /\ CachesAgree /\ pc[t] = "run" /\ call[t].op \in Ops
      /\ RootsAlive /\ GuardsAgree
      /\ eval[t].op \in Ops /\ ValueAgrees(t)
      /\ \A i \in 1 .. Len(s) : FrameAgrees(t, i)
      /\ \A u \in Threads : pc[u] \notin WriteSteps
  BY <1>3, RunningAgrees
<1>5. MarksAgree /\ \A u \in Threads : CallAgrees(u) /\ RecursionAgrees(u)
  BY DEF Core
<1>6. /\ v \in Vars
      /\ \A k \in {2, 3} :
           \A u \in Vars : u <= v => Free(Want(Cofactor(c, k)), u)
      /\ Want(c) = Mux(v, Want(Cofactor(c, 2)), Want(Cofactor(c, 3)))
  BY <1>3, <1>4, TopLevelLeast, CofactorsMakeUp
<1>7. low \in nodes /\ den[low] = Want(Cofactor(c, 2))
  BY <1>1, <1>3 DEF FrameAgrees
<1>8. den[val[t]] = Want(Cofactor(c, 3))
  BY <1>1, <1>3 DEF Waits
<1>9. Below(low, v) /\ Below(val[t], v)
  BY <1>3, <1>4, <1>6, <1>7, <1>8, FreeBelow
<1>10. UNCHANGED <<marked, slots, cache, pc, eval, call, owned>> /\ UNCHANGED lockVars
  BY DEF HighDone, sizeVars, clientVars
<1> HIDE DEF v, low
<1>11. /\ Grows /\ Diagram' /\ RootsAlive'
       /\ a \in nodes' /\ den'[a] = Mux(v, den[low], den[val[t]])
       /\ nodes' \in SUBSET Addr /\ key' \in [Addr -> Nat \X Ptr \X Ptr]
       /\ refs' \in [Addr -> Int] /\ den' \in [Addr -> SUBSET Assignments]
       /\ numEntry' \in Nat
  BY <1>2, <1>3, <1>4, <1>5, <1>6, <1>7, <1>9, <1>10, MakeNodeAnswers
<1>12. den'[a] = Want(c)
  BY <1>6, <1>7, <1>8, <1>11
<1>13. a \in Ptr /\ a # Null
  BY AddrAssumption DEF Ptr
<1>14. frame \in Frame /\ frame.call = c /\ frame.low = low /\ frame.made
  BY <1>3 DEF Frame, low
<1>15. stack' = [stack EXCEPT ![t] = [@ EXCEPT ![1] = frame]]
  BY <1>1
<1> HIDE DEF frame
<1>16. /\ stack' \in [Threads -> Seq(Frame)]
       /\ Len(stack'[t]) = Len(s)
       /\ stack'[t] # <<>> /\ stack'[t][1] = frame /\ Head(stack'[t]) = frame
       /\ \A i \in 2 .. Len(s) : stack'[t][i] = s[i]
       /\ \A u \in Threads : u # t => stack'[u] = stack[u]
  BY <1>3, <1>4, <1>14, <1>15, TopReplaced
<1>17. /\ val' \in [Threads -> Ptr] /\ val'[t] = a
       /\ \A u \in Threads : u # t => val'[u] = val[u]
  BY <1>2, <1>4, <1>13 DEF Typed, DataOK
<1>18. GuardsAgree' /\ MarksAgree' /\ CachesAgree'
  <2>1. GuardsAgree'
    BY <1>4, <1>10 DEF GuardsAgree, ReadSteps, lockVars
  <2>2. MarksAgree'
    BY <1>4, <1>10, NoSweepNoMarks DEF WriteSteps
  <2>3. CachesAgree'
    BY <1>4, <1>10, <1>11, CachesSame
  <2> QED
    BY <2>1, <2>2, <2>3
<1>19. \A u \in Threads : CallAgrees(u)'
  BY <1>5, <1>10, <1>11, CallSame DEF Grows
<1>20. \A u \in Threads : u # t => RecursionAgrees(u)'
  BY <1>4, <1>5, <1>10, <1>11, <1>16, <1>17, RecursionSame
<1> HIDE DEF c
<1>21. ASSUME NEW i \in 1 .. Len(s)
       PROVE  /\ Proper(s[i].call)
              /\ \A e : e = s[i].call =>
                   /\ Proper(e)' /\ Want(e)' = Want(e)
                   /\ \A k : Cofactor(e, k)' = Cofactor(e, k)
                   /\ \A k \in {2, 3} : \A d : d = Cofactor(e, k) => Want(d)' = Want(d)
  <2>1. Proper(s[i].call) /\ s[i].call \in Call
    BY <1>4, FrameTyped DEF FrameAgrees
  <2>2. ASSUME NEW e, e = s[i].call
        PROVE  /\ Proper(e)' /\ Want(e)' = Want(e)
               /\ \A k : Cofactor(e, k)' = Cofactor(e, k)
    BY <1>11, <2>1, <2>2, ProperSame
  <2>3. ASSUME NEW e, e = s[i].call, NEW k \in {2, 3}, NEW d, d = Cofactor(e, k)
        PROVE  Want(d)' = Want(d)
    <3>1. OnNodes(d)
      BY <1>4, <2>1, <2>3, CofactorsMakeUp
    <3> QED
      BY <1>11, <3>1, OnNodesSame
  <2> QED
    BY <2>1, <2>2, <2>3
<1>22. ASSUME NEW i \in 2 .. Len(s) + 1
       PROVE  Want(Waits(t, i))' = Want(Waits(t, i))
  <2>1. CASE i > Len(s)
    <3>1. OnNodes(call[t])
      BY <1>3, RunningAgrees
    <3>2. PICK d : d = call[t]
      OBVIOUS
    <3>3. Want(d)' = Want(d)
      BY <1>11, <3>1, <3>2, OnNodesSame
    <3>4. Waits(t, i) = d /\ Waits(t, i)' = d
      BY <1>10, <1>16, <2>1, <3>2 DEF Waits
    <3> QED
      BY <3>3, <3>4
  <2>2. CASE ~ (i > Len(s))
    <3>1. i \in 1 .. Len(s) /\ i \in 2 .. Len(s)
      BY <1>3, <2>2
    <3>2. PICK e : e = s[i].call
      OBVIOUS
    <3>3. PICK k \in {2, 3} : k = IF s[i].low = Null THEN 2 ELSE 3
      OBVIOUS
    <3>4. PICK d : d = Cofactor(e, k)
      OBVIOUS
    <3>5. Cofactor(e, k)' = d /\ Want(d)' = Want(d)
      BY <1>21, <3>1, <3>2, <3>4
    <3>6. Waits(t, i) = d
      BY <2>2, <3>2, <3>3, <3>4 DEF Waits
    <3>7. Waits(t, i)' = d
      BY <1>16, <2>2, <3>1, <3>2, <3>3, <3>5 DEF Waits
    <3> QED
      BY <3>5, <3>6, <3>7
  <2> QED
    BY <2>1, <2>2
<1>23. PICK e : e = c
  OBVIOUS
<1>24. Want(e)' = Want(e)
  BY <1>3, <1>21, <1>23 DEF c
<1>25. ValueAgrees(t)'
  <2>1. OnNodes(eval[t])'
    <3>1. PICK d : d = eval[t]
      OBVIOUS
    <3> QED
      BY <1>4, <1>10, <1>11, <3>1, OnNodesSame DEF ValueAgrees
  <2> QED
    BY <1>11, <1>12, <1>13, <1>14, <1>16, <1>17, <1>23, <1>24, <2>1 DEF ValueAgrees
<1>26. ASSUME NEW i \in 1 .. Len(s)
       PROVE  FrameAgrees(t, i)'
  <2>1. FrameAgrees(t, i)
    BY <1>4
  <2>2. PICK d : d = s[i].call
    OBVIOUS
  <2>3. PICK b : b = Cofactor(d, 2)
    OBVIOUS
  <2>4. Proper(d)' /\ Want(d)' = Want(d) /\ Cofactor(d, 2)' = b /\ Want(b)' = Want(b)
    BY <1>21, <2>2, <2>3
  <2>5. Want(Waits(t, i + 1))' = Want(Waits(t, i + 1))
    <3>1. i + 1 \in 2 .. Len(s) + 1
      BY <1>3
    <3> QED
      BY <1>22, <3>1
  <2>6. s[i].low # Null => s[i].low \in nodes' /\ den'[s[i].low] = den[s[i].low]
    BY <1>11, <2>1 DEF FrameAgrees, Grows
  <2>7. stack'[t][i].call = d /\ stack'[t][i].low = s[i].low
    BY <1>3, <1>14, <1>16, <2>2 DEF c, low
  <2>8. stack'[t][i].made => i = 1 /\ s[i].low # Null /\ val'[t] # Null
    <3>1. CASE i = 1
      BY <1>1, <1>3, <1>13, <1>17, <3>1 DEF low
    <3>2. CASE i # 1
      BY <1>3, <1>16, <2>1, <3>2 DEF FrameAgrees
    <3> QED
      BY <3>1, <3>2
  <2> QED
    BY <2>1, <2>2, <2>3, <2>4, <2>5, <2>6, <2>7, <2>8 DEF FrameAgrees
<1>27. RecursionAgrees(t)'
  BY <1>4, <1>10, <1>16, <1>25, <1>26 DEF RecursionAgrees, Ops, Unimplemented
<1>28. Typed'
  <2>1. marked' \in SUBSET nodes'
    BY <1>4, <1>10, <1>11 DEF Typed, DataOK, Grows
  <2> QED
    BY <1>4, <1>11, <1>16, <1>17, <2>1 DEF HighDone, Typed, DataOK, sizeVars, lockVars, loadVars,
       clientVars, Lock!TypeOK
<1> QED
  BY <1>11, <1>18, <1>19, <1>20, <1>27, <1>28 DEF Core

(* What the recursion returns last is the promised result, and the call    *)
(* references it before it drops its read guard.                           *)
LEMMA RefResultStep ==
  ASSUME Core, NEW t \in Threads, RefResult(t)
  PROVE  Core'
<1> DEFINE b == val[t]
<1>1. /\ Typed /\ GuardsAgree /\ MarksAgree /\ CachesAgree
      /\ RootsAlive /\ Diagram
      /\ \A u \in Threads : CallAgrees(u) /\ RecursionAgrees(u)
  BY DEF Core
<1>2. /\ Running(t) /\ b # Null /\ stack[t] = <<>>
      /\ Goto(t, "exit") /\ "exit" \in Steps
  BY DEF RefResult, Steps
<1>3. /\ pc[t] = "run" /\ call[t].op \in Ops /\ ValueAgrees(t)
      /\ \A u \in Threads : pc[u] \notin WriteSteps
  BY <1>2, RunningAgrees
<1>4. /\ pc' \in [Threads -> Steps \union StreamSteps]
      /\ pc'[t] = "exit"
      /\ \A u \in Threads : u # t => pc'[u] = pc[u]
  BY <1>1, <1>2, GotoMoves
<1>5. /\ UNCHANGED <<nodes, key, den, marked, slots, cache, eval, val, stack, call>>
      /\ UNCHANGED lockVars
      /\ refs' = [refs EXCEPT ![b] = Referenced(@)]
      /\ owned' = [owned EXCEPT ![t][b] = @ + 1]
  BY DEF RefResult, sizeVars, recVars
<1>6. b \in nodes /\ b \in Addr
  BY <1>1, <1>2, <1>3, NodesTyped DEF ValueAgrees
<1> HIDE DEF b
<1>7. /\ \A u \in Threads, a \in Addr :
           owned'[u][a] = IF u = t /\ a = b THEN owned[u][a] + 1 ELSE owned[u][a]
      /\ owned' \in [Threads -> [Addr -> Nat]] /\ refs' \in [Addr -> Int]
  BY <1>1, <1>5, <1>6, OneMore
<1>8. Grows
  BY <1>5 DEF Grows
<1>9. RootsAlive' /\ Diagram' /\ GuardsAgree'
  <2>1. RootsAlive'
    BY <1>1, <1>5, <1>6, <1>7 DEF RootsAlive, Rooted
  <2> QED
    BY <1>1, <1>2, <1>3, <1>5, <2>1, DiagramSame, GuardsSame DEF ReadSteps, WriteSteps
<1>10. MarksAgree' /\ CachesAgree'
  BY <1>1, <1>3, <1>4, <1>5, <1>8, NoSweepNoMarks, CachesSame DEF WriteSteps
<1>11. ASSUME NEW u \in Threads
       PROVE  CallAgrees(u)' /\ RecursionAgrees(u)'
  <2>1. CASE u = t
    <3>1. /\ call[t].op # "gc"
          /\ OnNodes(call[t])
          /\ IsOperand(t, call[t].l) /\ (call[t].op # "not" => IsOperand(t, call[t].r))
      BY <1>1, <1>3 DEF CallAgrees, StreamSteps, Ops
    <3>2. OnNodes(call[t])'
      BY <1>5, <3>1 DEF OnNodes
    <3>3. ASSUME NEW a \in nodes, IsOperand(t, a)
          PROVE  IsOperand(t, a)'
      <4>1. a \in Addr /\ owned[t][a] \in Nat
        BY <1>1, NodesTyped DEF Typed, DataOK
      <4>2. owned'[t][a] = IF a = b THEN owned[t][a] + 1 ELSE owned[t][a]
        BY <1>7, <4>1
      <4> QED
        BY <3>3, <4>1, <4>2 DEF IsOperand
    <3>4. CallAgrees(t)'
      BY <1>5, <3>1, <3>2, <3>3 DEF CallAgrees, StreamSteps, OnNodes
    <3>5. ValueAgrees(t)'
      <4>1. Waits(t, 1) = call[t] /\ Waits(t, 1)' = call[t]
        BY <1>2, <1>5 DEF Waits
      <4> QED
        BY <1>2, <1>3, <1>5, <4>1 DEF ValueAgrees, OnNodes, Want, b
    <3>6. RecursionAgrees(t)'
      BY <1>2, <1>3, <1>4, <1>5, <3>5 DEF RecursionAgrees, b
    <3> QED
      BY <2>1, <3>4, <3>6
  <2>2. CASE u # t
    <3>1. owned'[u] = owned[u]
      BY <1>1, <1>5, <2>2 DEF Typed, DataOK
    <3> QED
      BY <1>1, <1>4, <1>5, <1>8, <2>2, <3>1, CallSame, RecursionSame
  <2> QED
    BY <2>1, <2>2
<1>12. Typed'
  BY <1>1, <1>4, <1>7 DEF RefResult, Typed, DataOK, sizeVars, lockVars, loadVars, recVars,
     Lock!TypeOK
<1> QED
  BY <1>7, <1>9, <1>10, <1>11, <1>12 DEF Core

LEMMA ExitStep ==
  ASSUME Core, NEW t \in Threads, Exit(t)
  PROVE  Core'
<1>1. /\ Typed /\ GuardsAgree /\ MarksAgree /\ CachesAgree
      /\ RootsAlive /\ Diagram
      /\ \A u \in Threads : CallAgrees(u) /\ RecursionAgrees(u)
  BY DEF Core
<1>2. Goto(t, "idle") /\ "idle" \in Steps /\ pc[t] = "exit"
  BY DEF Exit, Steps
<1>3. /\ pc' \in [Threads -> Steps \union StreamSteps]
      /\ pc'[t] = "idle"
      /\ \A u \in Threads : u # t => pc'[u] = pc[u]
  BY <1>1, <1>2, GotoMoves
<1>4. /\ UNCHANGED <<nodes, key, den, refs, marked, slots, cache, stack, owned>>
      /\ eval' = [eval EXCEPT ![t] = NoCall]
      /\ val' = [val EXCEPT ![t] = Null]
      /\ call' = [call EXCEPT ![t] = NoCall]
  BY DEF Exit, tableVars, sizeVars, Recur, Return
<1>5. Grows
  BY <1>4 DEF Grows
<1>6. RootsAlive' /\ Diagram'
  BY <1>1, <1>4, RootsSame, DiagramSame
<1>7. GuardsAgree'
  <2>1. readers' = readers \ {t} /\ UNCHANGED <<slot, writing>>
    BY DEF Exit, Lock!ReleaseRead
  <2> QED
    BY <1>1, <1>2, <1>3, <2>1 DEF GuardsAgree, ReadSteps, WriteSteps
<1>8. MarksAgree' /\ CachesAgree'
  <2>1. \A a \in Addr : Rooted(a)' => Rooted(a)
    BY <1>4 DEF Rooted
  <2> QED
    BY <1>1, <1>2, <1>3, <1>4, <1>5, <2>1, MarksSame, CachesSame
<1>9. ASSUME NEW u \in Threads
      PROVE  CallAgrees(u)' /\ RecursionAgrees(u)'
  <2>1. CASE u = t
    <3>1. stack[t] = <<>>
      BY <1>1, <1>2 DEF RecursionAgrees
    <3> QED
      BY <1>3, <1>4, <2>1, <3>1 DEF CallAgrees, StreamSteps, RecursionAgrees
  <2>2. CASE u # t
    <3>1. eval'[u] = eval[u] /\ val'[u] = val[u] /\ call'[u] = call[u]
      BY <1>1, <1>4, <2>2 DEF Typed, DataOK
    <3> QED
      BY <1>1, <1>3, <1>4, <1>5, <2>2, <3>1, CallSame, RecursionSame
  <2> QED
    BY <2>1, <2>2
<1>10. Typed'
  <2>1. /\ eval' \in [Threads -> Call] /\ val' \in [Threads -> Ptr]
        /\ call' \in [Threads -> Call]
    BY <1>1, <1>4 DEF Typed, DataOK, Ptr, NoCall, Call
  <2> QED
    BY <1>1, <1>3, <2>1 DEF Exit, Typed, DataOK, tableVars, sizeVars, Lock!ReleaseRead,
       loadVars, Lock!TypeOK
<1> QED
  BY <1>6, <1>7, <1>8, <1>9, <1>10 DEF Core

-----------------------------------------------------------------------------
(* Manager::init.                                                          *)

LEMMA BootIndex ==
  ASSUME NEW i \in 1 .. BootLen
  PROVE  BootAddr[i] \in Permanent /\ BootAddr[i] \in Addr /\ IndexOf(BootAddr[i]) = i
<1>1. BootAddr[i] \in Permanent /\ BootAddr[i] \in Addr
  BY BootAssumption DEF Permanent
<1>2. \E j \in 1 .. BootLen : BootAddr[j] = BootAddr[i]
  OBVIOUS
<1>3. IndexOf(BootAddr[i]) \in 1 .. BootLen /\ BootAddr[IndexOf(BootAddr[i])] = BootAddr[i]
  BY <1>2 DEF IndexOf
<1> QED
  BY <1>1, <1>3, BootAssumption

\* A node that tests a variable and has the terminals for children.
Positive(a, v) ==
  key[a] = <<v, FalseId, TrueId>> /\ den[a] = Mux(v, {}, Assignments)

Negative(a, v) ==
  key[a] = <<v, TrueId, FalseId>> /\ den[a] = Mux(v, Assignments, {})

LEMMA BootNodes ==
  ASSUME Init
  PROVE  /\ TrueId \in nodes /\ key[TrueId] = <<1, Null, Null>> /\ den[TrueId] = Assignments
         /\ FalseId \in nodes /\ key[FalseId] = <<0, Null, Null>> /\ den[FalseId] = {}
         /\ TrueId # FalseId
         /\ nodes \subseteq Addr
         /\ \A a \in nodes \ Terminals :
              \E v \in Vars :
                \/ a = BootAddr[2 * v + 3] /\ Positive(a, v)
                \/ a = BootAddr[2 * v + 4] /\ Negative(a, v)
<1>1. /\ nodes = Permanent
      /\ \A a \in Addr \intersect Permanent :
           key[a] = BootKey(IndexOf(a)) /\ den[a] = BootDen(IndexOf(a))
  BY DEF Init
<1>2. \A i \in 1 .. BootLen : /\ BootAddr[i] \in nodes /\ BootAddr[i] \in Addr
                              /\ key[BootAddr[i]] = BootKey(i)
                              /\ den[BootAddr[i]] = BootDen(i)
  BY <1>1, BootIndex
<1>3. BootLen \in Nat /\ 1 \in 1 .. BootLen /\ 2 \in 1 .. BootLen
  BY BootAssumption DEF BootLen
<1>4. /\ TrueId \in nodes /\ key[TrueId] = <<1, Null, Null>> /\ den[TrueId] = Assignments
      /\ FalseId \in nodes /\ key[FalseId] = <<0, Null, Null>> /\ den[FalseId] = {}
  <2>1. /\ BootKey(1) = <<1, Null, Null>> /\ BootDen(1) = Assignments
        /\ BootKey(2) = <<0, Null, Null>> /\ BootDen(2) = {}
    BY DEF BootKey, BootDen
  <2>2. /\ BootAddr[1] \in nodes /\ key[BootAddr[1]] = BootKey(1)
        /\ den[BootAddr[1]] = BootDen(1)
        /\ BootAddr[2] \in nodes /\ key[BootAddr[2]] = BootKey(2)
        /\ den[BootAddr[2]] = BootDen(2)
    BY <1>2, <1>3
  <2> QED
    BY <2>1, <2>2 DEF TrueId, FalseId
<1>5. TrueId # FalseId
  BY <1>3, BootAssumption DEF TrueId, FalseId
<1>6. ASSUME NEW a \in nodes \ Terminals
      PROVE  \E v \in Vars : \/ a = BootAddr[2 * v + 3] /\ Positive(a, v)
                             \/ a = BootAddr[2 * v + 4] /\ Negative(a, v)
  <2>1. PICK i \in 1 .. BootLen : a = BootAddr[i]
    BY <1>1 DEF Permanent
  <2>2. i > 2 /\ i \in Nat
    BY <1>3, <2>1 DEF Terminals, TrueId, FalseId
  <2>3. key[a] = BootKey(i) /\ den[a] = BootDen(i)
    BY <1>2, <2>1
  <2>4. CASE i % 2 = 1
    <3>1. PICK v : v = (i - 3) \div 2
      OBVIOUS
    <3>2. v \in Vars /\ i = 2 * v + 3
      BY <2>2, <2>4, <3>1, BootAssumption DEF Vars, BootLen
    <3>3. BootKey(i) = <<v, FalseId, TrueId>> /\ BootDen(i) = Mux(v, {}, Assignments)
      BY <2>2, <2>4, <3>1 DEF BootKey, BootDen
    <3> QED
      BY <2>1, <2>3, <3>2, <3>3 DEF Positive
  <2>5. CASE i % 2 = 0
    <3>1. PICK v : v = (i - 4) \div 2
      OBVIOUS
    <3>2. v \in Vars /\ i = 2 * v + 4
      BY <2>2, <2>5, <3>1, BootAssumption DEF Vars, BootLen
    <3>3. BootKey(i) = <<v, TrueId, FalseId>> /\ BootDen(i) = Mux(v, Assignments, {})
      BY <2>2, <2>5, <3>1 DEF BootKey, BootDen
    <3> QED
      BY <2>1, <2>3, <3>2, <3>3 DEF Negative
  <2> QED
    BY <2>2, <2>4, <2>5
<1>7. nodes \subseteq Addr
  BY <1>1, <1>2 DEF Permanent
<1> QED
  BY <1>4, <1>5, <1>6, <1>7

(* The nodes of init stand for different functions: the assignments in     *)
(* which at most one variable is true tell them apart.                     *)
LEMMA BootDiagram ==
  ASSUME Init
  PROVE  Diagram
<1>1. TerminalsAgree
  BY BootNodes DEF TerminalsAgree, Terminals, Low, High
<1>2. Ordered
  <2> SUFFICES ASSUME NEW a \in nodes \ Terminals
               PROVE  /\ Level(a) \in Vars
                      /\ {Low(a), High(a)} \subseteq nodes
                      /\ Low(a) # High(a)
                      /\ Below(Low(a), Level(a)) /\ Below(High(a), Level(a))
                      /\ den[a] = Mux(Level(a), den[Low(a)], den[High(a)])
    BY DEF Ordered
  <2>1. PICK v \in Vars : Positive(a, v) \/ Negative(a, v)
    BY BootNodes
  <2>2. /\ TrueId \in nodes /\ FalseId \in nodes /\ TrueId # FalseId
        /\ den[TrueId] = Assignments /\ den[FalseId] = {}
    BY BootNodes
  <2>3. CASE Positive(a, v)
    <3>1. Level(a) = v /\ Low(a) = FalseId /\ High(a) = TrueId
      BY <2>3 DEF Positive, Level, Low, High
    <3> QED
      BY <2>2, <2>3, <3>1 DEF Positive, Below, Terminals
  <2>4. CASE Negative(a, v)
    <3>1. Level(a) = v /\ Low(a) = TrueId /\ High(a) = FalseId
      BY <2>4 DEF Negative, Level, Low, High
    <3> QED
      BY <2>2, <2>4, <3>1 DEF Negative, Below, Terminals
  <2> QED
    BY <2>1, <2>3, <2>4
<1>3. Independent
  <2> SUFFICES ASSUME NEW a \in nodes, NEW u \in Vars, Below(a, u)
               PROVE  Free(den[a], u)
    BY DEF Independent
  <2>1. CASE a \in Terminals
    BY <2>1, BootNodes, ConstantsFree DEF Terminals
  <2>2. CASE a \notin Terminals
    <3>1. PICK v \in Vars : Positive(a, v) \/ Negative(a, v)
      BY <2>2, BootNodes
    <3>2. u # v
      <4>1. Level(a) = v
        BY <3>1 DEF Positive, Negative, Level
      <4> QED
        BY <2>2, <4>1 DEF Below, Vars
    <3> QED
      BY <3>1, <3>2, MuxFree, ConstantsFree DEF Positive, Negative
  <2> QED
    BY <2>1, <2>2
<1>4. Canonical
  <2> SUFFICES ASSUME NEW a \in nodes, NEW b \in nodes, den[a] = den[b]
               PROVE  a = b
    BY DEF Canonical
  <2>1. {} \in Assignments /\ \A u \in Vars : {u} \in Assignments
    BY DEF Assignments
  <2>2. \A c, v : Positive(c, v) => /\ {} \notin den[c]
                                    /\ \A u \in Vars : {u} \in den[c] <=> u = v
    BY <2>1 DEF Positive, Mux
  <2>3. \A c, v : Negative(c, v) => /\ {} \in den[c]
                                    /\ \A u \in Vars : {u} \in den[c] <=> u # v
    BY <2>1 DEF Negative, Mux
  <2>4. /\ {} \in den[TrueId] /\ \A u \in Vars : {u} \in den[TrueId]
        /\ {} \notin den[FalseId] /\ \A u \in Vars : {u} \notin den[FalseId]
    BY <2>1, BootNodes
  <2>5. CASE a \in Terminals /\ b \in Terminals
    BY <2>4, <2>5 DEF Terminals
  <2>6. CASE a \notin Terminals /\ b \in Terminals
    <3>1. PICK v \in Vars : Positive(a, v) \/ Negative(a, v)
      BY <2>6, BootNodes
    <3>2. b = TrueId \/ b = FalseId
      BY <2>6 DEF Terminals
    <3>3. ({} \in den[a] /\ {v} \notin den[a]) \/ ({} \notin den[a] /\ {v} \in den[a])
      BY <2>2, <2>3, <3>1
    <3> QED
      BY <2>4, <3>2, <3>3
  <2>7. CASE a \in Terminals /\ b \notin Terminals
    <3>1. PICK v \in Vars : Positive(b, v) \/ Negative(b, v)
      BY <2>7, BootNodes
    <3>2. a = TrueId \/ a = FalseId
      BY <2>7 DEF Terminals
    <3>3. ({} \in den[b] /\ {v} \notin den[b]) \/ ({} \notin den[b] /\ {v} \in den[b])
      BY <2>2, <2>3, <3>1
    <3> QED
      BY <2>4, <3>2, <3>3
  <2>8. CASE a \notin Terminals /\ b \notin Terminals
    <3>1. PICK v \in Vars : \/ a = BootAddr[2 * v + 3] /\ Positive(a, v)
                            \/ a = BootAddr[2 * v + 4] /\ Negative(a, v)
      BY <2>8, BootNodes
    <3>2. PICK w \in Vars : \/ b = BootAddr[2 * w + 3] /\ Positive(b, w)
                            \/ b = BootAddr[2 * w + 4] /\ Negative(b, w)
      BY <2>8, BootNodes
    <3> QED
      BY <2>2, <2>3, <3>1, <3>2
  <2> QED
    BY <2>5, <2>6, <2>7, <2>8
<1> QED
  BY <1>1, <1>2, <1>3, <1>4 DEF Diagram

LEMMA BootTyped ==
  ASSUME Init
  PROVE  TypeOK /\ Typed
<1>1. BootLen \in Nat /\ \A i \in 1 .. BootLen : BootAddr[i] \in Addr
  BY BootAssumption DEF BootLen
<1>2. Permanent \subseteq Addr /\ TrueId \in Addr /\ FalseId \in Addr
  <2>1. 1 \in 1 .. BootLen /\ 2 \in 1 .. BootLen
    BY BootAssumption DEF BootLen
  <2> QED
    BY <1>1, <2>1 DEF Permanent, TrueId, FalseId
<1>3. ASSUME NEW a \in Addr
      PROVE  key[a] \in Nat \X Ptr \X Ptr /\ den[a] \in SUBSET Assignments
  <2>1. CASE a \notin Permanent
    <3>1. key[a] = <<0, Null, Null>> /\ den[a] = {}
      BY <2>1 DEF Init, FreeKey
    <3> QED
      BY <3>1 DEF Ptr
  <2>2. CASE a \in Terminals
    <3>1. \/ key[a] = <<0, Null, Null>> /\ den[a] = {}
          \/ key[a] = <<1, Null, Null>> /\ den[a] = Assignments
      BY <2>2, BootNodes DEF Terminals
    <3> QED
      BY <3>1 DEF Ptr
  <2>3. CASE a \in Permanent \ Terminals
    <3>1. PICK v \in Vars : Positive(a, v) \/ Negative(a, v)
      BY <2>3, BootNodes DEF Init
    <3>2. v \in Nat
      BY DEF Vars
    <3>3. \/ key[a] = <<v, FalseId, TrueId>> /\ den[a] = Mux(v, {}, Assignments)
          \/ key[a] = <<v, TrueId, FalseId>> /\ den[a] = Mux(v, Assignments, {})
      BY <3>1 DEF Positive, Negative
    <3>4. /\ Mux(v, {}, Assignments) \in SUBSET Assignments
          /\ Mux(v, Assignments, {}) \in SUBSET Assignments
      BY DEF Mux
    <3> QED
      BY <1>2, <3>2, <3>3, <3>4 DEF Ptr
  <2> QED
    BY <2>1, <2>2, <2>3
<1>4. key \in [Addr -> Nat \X Ptr \X Ptr] /\ den \in [Addr -> SUBSET Assignments]
  BY <1>3 DEF Init
<1>5. cache \in [Ops -> [0 .. slots - 1 -> [l : Ptr, r : Ptr, val : Ptr]]]
  BY EmptyCacheAgrees, SizeAssumption DEF Init
<1>6. Null \in Ptr /\ NoCall \in Call /\ <<>> \in Seq(Frame) /\ "idle" \in Steps
  BY DEF Ptr, NoCall, Call, Steps
<1>7. /\ nodes \in SUBSET Addr /\ refs \in [Addr -> Nat] /\ marked \in SUBSET nodes
      /\ numEntry \in Nat /\ buckets \in Nat \ {0} /\ slots \in Nat \ {0}
  BY <1>1, <1>2, SizeAssumption DEF Init
<1>8. Lock!TypeOK
  BY DEF Init, Lock!Init, Lock!TypeOK
<1>9. /\ pc \in [Threads -> Steps] /\ call \in [Threads -> Call]
      /\ eval \in [Threads -> Call] /\ val \in [Threads -> Ptr]
      /\ stack \in [Threads -> Seq(Frame)]
  BY <1>6 DEF Init
<1>10. /\ entries \in [Threads -> Nat] /\ size \in [Threads -> Nat]
       /\ owned \in [Threads -> [Addr -> Nat]] /\ calls \in [Threads -> 0 .. MaxCalls]
  BY MaxCallsAssumption DEF Init
<1> QED
  BY <1>4, <1>5, <1>7, <1>8, <1>9, <1>10 DEF TypeOK, Typed, DataOK

LEMMA InitInv ==
  ASSUME Init
  PROVE  Inv
<1>1. /\ TypeOK /\ Typed /\ Diagram
      /\ pc = [t \in Threads |-> "idle"] /\ stack = [t \in Threads |-> <<>>]
      /\ owned = [t \in Threads |-> [a \in Addr |-> 0]]
      /\ readers = {} /\ slot = NoThread /\ writing = FALSE
      /\ nodes = Permanent
  BY BootTyped, BootDiagram DEF Init, Lock!Init
<1>2. GuardsAgree
  BY <1>1, ThreadsAssumption DEF GuardsAgree, ReadSteps, WriteSteps
<1>3. RefsAgree
  <2>1. \A a \in Addr : Held(a) = {}
    BY <1>1 DEF Held
  <2>2. \A a \in Addr : refs[a] = IF a \in Permanent THEN 1 ELSE 0
    BY DEF Init
  <2> QED
    BY <2>1, <2>2, FS_EmptySet DEF RefsAgree
<1>4. RootsAlive /\ MarksAgree
  BY <1>1 DEF RootsAlive, Rooted, MarksAgree
<1>5. CachesAgree
  BY EmptyCacheAgrees, SizeAssumption DEF Init, CachesAgree, EntryAgrees
<1>6. \A t \in Threads : CallAgrees(t) /\ RecursionAgrees(t)
  BY <1>1 DEF CallAgrees, StreamSteps, RecursionAgrees
<1> QED
  BY <1>1, <1>2, <1>3, <1>4, <1>5, <1>6 DEF Inv, Core

-----------------------------------------------------------------------------
(* The invariant.                                                          *)

LEMMA StutterStep ==
  ASSUME Core, UNCHANGED vars
  PROVE  Core'
<1>1. /\ Typed /\ GuardsAgree /\ MarksAgree /\ CachesAgree
      /\ RootsAlive /\ Diagram
      /\ \A u \in Threads : CallAgrees(u) /\ RecursionAgrees(u)
  BY DEF Core
<1>2. /\ UNCHANGED <<nodes, key, den, refs, owned, marked, slots, cache, pc, call, eval,
                     val, stack>>
      /\ UNCHANGED lockVars
  BY DEF vars, tableVars, sizeVars, recVars, clientVars
<1>3. Grows /\ \A a \in Addr : Rooted(a)' => Rooted(a)
  BY <1>2 DEF Grows, Rooted
<1>4. RootsAlive' /\ Diagram' /\ MarksAgree' /\ CachesAgree'
  BY <1>1, <1>2, <1>3, RootsSame, DiagramSame, MarksSame, CachesSame
<1>5. GuardsAgree'
  BY <1>1, <1>2 DEF GuardsAgree, ReadSteps, lockVars
<1>6. \A u \in Threads : CallAgrees(u)' /\ RecursionAgrees(u)'
  BY <1>1, <1>2, <1>3, CallSame, RecursionSame
<1>7. Typed'
  BY <1>1 DEF vars, Typed, DataOK, tableVars, sizeVars, lockVars, loadVars, recVars, clientVars,
     Lock!TypeOK
<1> QED
  BY <1>4, <1>5, <1>6, <1>7 DEF Core

(* All steps of the Manager preserve Core.                                 *)
LEMMA CoreStep ==
  ASSUME Core, RootsReached, [Next]_vars
  PROVE  Core'
<1>1. CASE UNCHANGED vars
  BY <1>1, StutterStep
<1>2. ASSUME NEW t \in Threads, NEW c \in Workload, BeginOp(t, c) \/ Ref(t, c)
      PROVE  Core'
  BY <1>2, BeginOpStep, RefStep
<1>3. ASSUME NEW t \in Threads, BeginGc(t)
      PROVE  Core'
  BY <1>3, BeginGcStep
<1>4. ASSUME NEW t \in Threads, NEW a \in Addr, Deref(t, a)
      PROVE  Core'
  BY <1>4, DerefStep
<1>5. ASSUME NEW t \in Threads, LoadEntries(t) \/ LoadBuckets(t)
      PROVE  Core'
  BY <1>5, LoadEntriesStep, LoadBucketsStep
<1>6. ASSUME NEW t \in Threads, Maintain(t)
      PROVE  Core'
  BY <1>6, TryWriteFailsStep, TryWriteClaimsStep, TryWriteEntersStep, MarkNodesStep,
     SweepStep, ClearStep, GrowStep, ReleaseStep DEF Maintain
<1>7. ASSUME NEW t \in Threads, Compute(t)
      PROVE  Core'
  BY <1>7, SettleStep, CacheHitStep, CacheMissStep, LowDoneStep, HighDoneStep,
     CacheInsertStep, RefResultStep DEF Compute
<1>8. ASSUME NEW t \in Threads, Enter(t) \/ Quantify(t) \/ Exit(t)
      PROVE  Core'
  BY <1>8, EnterStep, QuantifyStep, ExitStep
<1> QED
  BY <1>1, <1>2, <1>3, <1>4, <1>5, <1>6, <1>7, <1>8 DEF Next, Step

-----------------------------------------------------------------------------
(* The references.                                                         *)

(* The references to a node change with what clients hold, and a new node  *)
(* has none.                                                               *)
Counts(b) ==
  /\ IsFiniteSet(Held(b)')
  /\ \/ refs'[b] - Cardinality(Held(b)') = refs[b] - Cardinality(Held(b))
     \/ b \notin nodes /\ refs'[b] = 0 /\ Held(b)' = {}

LEMMA CountsSame ==
  ASSUME UNCHANGED owned, NEW b \in Addr, IsFiniteSet(Held(b)), refs'[b] = refs[b]
  PROVE  Counts(b)
BY DEF Counts, Held

(* A client has one reference more.                                        *)
LEMMA HeldMore ==
  ASSUME Typed, NEW t \in Threads, NEW d \in Addr,
         owned' = [owned EXCEPT ![t][d] = @ + 1],
         NEW b \in Addr, IsFiniteSet(Held(b))
  PROVE  /\ IsFiniteSet(Held(b)')
         /\ Cardinality(Held(b)) \in Nat
         /\ Cardinality(Held(b)') = Cardinality(Held(b)) + (IF b = d THEN 1 ELSE 0)
<1>1. \A u \in Threads, a \in Addr :
        /\ owned[u][a] \in Nat
        /\ owned'[u][a] = IF u = t /\ a = d THEN owned[u][a] + 1 ELSE owned[u][a]
  BY DEF Typed, DataOK
<1>2. Cardinality(Held(b)) \in Nat
  BY FS_CardinalityType
<1>3. CASE b # d
  <2>1. Held(b)' = Held(b)
    BY <1>1, <1>3 DEF Held
  <2>2. Cardinality(Held(b)') = Cardinality(Held(b))
    BY <2>1
  <2> QED
    BY <1>2, <1>3, <2>1, <2>2
<1>4. CASE b = d
  <2> DEFINE S == Held(b)
             x == <<t, owned[t][b] + 1>>
  <2>1. S \union {x} = Held(b)'
    <3>1. \A u \in Threads : u # t => 1 .. owned'[u][b] = 1 .. owned[u][b]
      BY <1>1
    <3>2. 1 .. owned'[t][b] = (1 .. owned[t][b]) \union {owned[t][b] + 1}
      BY <1>1, <1>4
    <3> QED
      BY <3>1, <3>2 DEF Held
  <2>2. x \notin S
    BY <1>1 DEF Held
  <2> HIDE DEF S, x
  <2>3. IsFiniteSet(S) /\ Cardinality(S) \in Nat
    BY FS_CardinalityType DEF S
  <2>4. IsFiniteSet(S \union {x}) /\ Cardinality(S \union {x}) = Cardinality(S) + 1
    BY <2>2, <2>3, FS_AddElement
  <2>5. /\ IsFiniteSet(Held(b)')
        /\ Cardinality(Held(b)') = Cardinality(Held(b)) + 1
    BY <2>1, <2>3, <2>4 DEF S
  <2> QED
    BY <1>2, <1>4, <2>5
<1> QED
  BY <1>3, <1>4

LEMMA CountsMore ==
  ASSUME Typed, NEW t \in Threads, NEW d \in Addr,
         refs' = [refs EXCEPT ![d] = Referenced(@)],
         owned' = [owned EXCEPT ![t][d] = @ + 1],
         NEW b \in Addr, IsFiniteSet(Held(b))
  PROVE  Counts(b)
<1>1. refs[b] \in Int /\ refs'[b] = IF b = d THEN refs[b] + 1 ELSE refs[b]
  BY DEF Typed, Referenced
<1>2. /\ IsFiniteSet(Held(b)') /\ Cardinality(Held(b)) \in Nat
      /\ Cardinality(Held(b)') = Cardinality(Held(b)) + (IF b = d THEN 1 ELSE 0)
  BY HeldMore
<1> QED
  BY <1>1, <1>2 DEF Counts

LEMMA CountsLess ==
  ASSUME Typed, NEW t \in Threads, NEW d \in Addr, Deref(t, d),
         NEW b \in Addr, IsFiniteSet(Held(b))
  PROVE  Counts(b)
<1>1. \A u \in Threads, a \in Addr :
        /\ owned[u][a] \in Nat
        /\ owned'[u][a] = IF u = t /\ a = d THEN owned[u][a] - 1 ELSE owned[u][a]
  BY DEF Typed, DataOK, Deref
<1>2. refs[b] \in Int /\ refs'[b] = IF b = d THEN refs[b] - 1 ELSE refs[b]
  BY DEF Typed, Deref, LessOne
<1>3. CASE b # d
  <2>1. Held(b)' = Held(b)
    BY <1>1, <1>3 DEF Held
  <2> QED
    BY <1>2, <1>3, <2>1 DEF Counts
<1>4. CASE b = d
  <2> DEFINE S == Held(b)
             x == <<t, owned[t][b]>>
  <2>1. S \ {x} = Held(b)'
    <3>1. \A u \in Threads : u # t => 1 .. owned'[u][b] = 1 .. owned[u][b]
      BY <1>1
    <3>2. 1 .. owned'[t][b] = (1 .. owned[t][b]) \ {owned[t][b]}
      BY <1>1, <1>4 DEF Deref
    <3>3. \A u \in Threads, n \in Nat : n \in 1 .. owned'[u][b] <=>
                                         n \in 1 .. owned[u][b] /\ <<u, n>> # x
      BY <3>1, <3>2
    <3> HIDE DEF x
    <3>4. ASSUME NEW h, h \in Held(b)'
          PROVE  h \in S \ {x}
      <4>1. PICK u \in Threads : h \in {u} \X (1 .. owned'[u][b])
        BY <3>4 DEF Held
      <4>2. PICK n \in 1 .. owned'[u][b] : h = <<u, n>>
        BY <4>1
      <4> QED
        BY <3>3, <4>2 DEF Held
    <3>5. ASSUME NEW h, h \in S \ {x}
          PROVE  h \in Held(b)'
      <4>1. PICK u \in Threads : h \in {u} \X (1 .. owned[u][b])
        BY <3>5 DEF Held
      <4>2. PICK n \in 1 .. owned[u][b] : h = <<u, n>>
        BY <4>1
      <4> QED
        BY <3>3, <3>5, <4>2 DEF Held
    <3> QED
      BY <3>4, <3>5
  <2>2. x \in S
    BY <1>1, <1>4 DEF Held, Deref
  <2> HIDE DEF S, x
  <2>3. IsFiniteSet(S) /\ Cardinality(S) \in Nat
    BY FS_CardinalityType DEF S
  <2>4. IsFiniteSet(S \ {x}) /\ Cardinality(S \ {x}) = Cardinality(S) - 1
    BY <2>2, <2>3, FS_RemoveElement
  <2>5. /\ IsFiniteSet(Held(b)')
        /\ Cardinality(Held(b)') = Cardinality(Held(b)) - 1
        /\ Cardinality(Held(b)) \in Nat
    BY <2>1, <2>3, <2>4 DEF S
  <2> QED
    BY <1>2, <1>4, <2>5 DEF Counts
<1> QED
  BY <1>3, <1>4

(* A node that make_node makes has no reference, and nobody holds it.      *)
LEMMA CountsMade ==
  ASSUME Typed, RootsAlive, UNCHANGED owned,
         NEW v, NEW lo, NEW hi, NEW a \in Addr, MakeNode(v, lo, hi, a),
         NEW b \in Addr, IsFiniteSet(Held(b))
  PROVE  Counts(b)
<1>1. CASE UNCHANGED refs
  BY <1>1, CountsSame
<1>2. CASE ~ UNCHANGED refs
  <2>1. a \in Malloc(Addr \ nodes) /\ refs' = [refs EXCEPT ![a] = 0]
    BY <1>2 DEF MakeNode, tableVars
  <2>2. a \notin nodes
    BY <2>1, AddrAssumption
  <2>3. CASE b # a
    BY <2>1, <2>3, CountsSame DEF Typed
  <2>4. CASE b = a
    <3>1. \A u \in Threads : owned[u][b] \in Nat /\ ~ (owned[u][b] > 0)
      BY <2>2, <2>4 DEF RootsAlive, Rooted, Typed, DataOK
    <3>2. Held(b)' = {}
      BY <3>1 DEF Held
    <3>3. refs'[b] = 0
      BY <2>1, <2>4 DEF Typed
    <3> QED
      BY <2>2, <2>4, <3>2, <3>3, FS_EmptySet DEF Counts
  <2> QED
    BY <2>3, <2>4
<1> QED
  BY <1>1, <1>2

LEMMA CountsStep ==
  ASSUME Core, [Next]_vars, NEW b \in Addr, IsFiniteSet(Held(b))
  PROVE  Counts(b)
<1>0. Typed /\ RootsAlive
  BY DEF Core
<1>1. CASE UNCHANGED <<refs, owned>>
  BY <1>1, CountsSame
<1>2. ASSUME NEW t \in Threads, NEW c \in Workload, Ref(t, c)
      PROVE  Counts(b)
  <2>1. c.l \in Addr
    BY <1>2, WorkloadAssumption DEF Ref, Gc
  <2> QED
    BY <1>0, <1>2, <2>1, CountsMore DEF Ref
<1>3. ASSUME NEW t \in Threads, NEW a \in Addr, Deref(t, a)
      PROVE  Counts(b)
  BY <1>0, <1>3, CountsLess
<1>4. ASSUME NEW t \in Threads, HighDone(t)
      PROVE  Counts(b)
  BY <1>0, <1>4, CountsMade DEF HighDone, clientVars
<1>5. ASSUME NEW t \in Threads, RefResult(t)
      PROVE  Counts(b)
  <2>1. val[t] \in Addr
    BY <1>0, <1>5 DEF RefResult, Typed, DataOK, Ptr
  <2> QED
    BY <1>0, <1>5, <2>1, CountsMore DEF RefResult
<1>6. ASSUME NEW t \in Threads,
             \/ LoadEntries(t) \/ LoadBuckets(t) \/ Maintain(t)
             \/ Enter(t) \/ Quantify(t) \/ Exit(t)
      PROVE  UNCHANGED <<refs, owned>>
  BY <1>6 DEF LoadEntries, LoadBuckets, Maintain, TryWriteFails, TryWriteClaims, TryWriteEnters,
     MarkNodes, Sweep, Clear, Grow, Release, Enter, Quantify, Exit, tableVars, clientVars
<1>7. ASSUME NEW t \in Threads, Compute(t)
      PROVE  HighDone(t) \/ RefResult(t) \/ UNCHANGED <<refs, owned>>
  BY <1>7 DEF Compute, Settle, CacheHit, CacheMiss, LowDone, CacheInsert, tableVars, clientVars
<1>8. CASE UNCHANGED vars
  BY <1>1, <1>8 DEF vars, tableVars, clientVars
<1>9. ASSUME NEW t \in Threads, NEW c \in Workload, BeginOp(t, c)
      PROVE  UNCHANGED <<refs, owned>>
  BY <1>9 DEF BeginOp, Start, tableVars
<1>10. ASSUME NEW t \in Threads, BeginGc(t)
       PROVE  UNCHANGED <<refs, owned>>
  BY <1>10 DEF BeginGc, Start, tableVars
<1> QED
  BY <1>1, <1>2, <1>3, <1>4, <1>5, <1>6, <1>7, <1>8, <1>9, <1>10 DEF Next, Step

LEMMA RefsAgreeStep ==
  ASSUME Core, Core', RefsAgree, [Next]_vars
  PROVE  RefsAgree'
<1> SUFFICES ASSUME NEW b \in Addr
             PROVE  /\ IsFiniteSet(Held(b)')
                    /\ refs'[b] = Cardinality(Held(b)') + (IF b \in Permanent THEN 1 ELSE 0)
  BY DEF RefsAgree
<1>1. /\ IsFiniteSet(Held(b))
      /\ refs[b] = Cardinality(Held(b)) + (IF b \in Permanent THEN 1 ELSE 0)
  BY DEF RefsAgree
<1>2. Counts(b)
  BY <1>1, CountsStep
<1>3. Cardinality(Held(b)) \in Nat /\ Cardinality(Held(b)') \in Nat
  BY <1>1, <1>2, FS_CardinalityType DEF Counts
<1>4. b \in Permanent => b \in nodes
  BY DEF Core, RootsAlive, Rooted
<1>5. refs'[b] \in Int
  BY DEF Core, Typed
<1>6. Cardinality({}) = 0
  BY FS_EmptySet
<1>7. CASE refs'[b] - Cardinality(Held(b)') = refs[b] - Cardinality(Held(b))
  BY <1>1, <1>2, <1>3, <1>5, <1>7 DEF Counts
<1>8. CASE b \notin nodes /\ refs'[b] = 0 /\ Held(b)' = {}
  BY <1>2, <1>4, <1>6, <1>8 DEF Counts
<1> QED
  BY <1>2, <1>7, <1>8 DEF Counts

(* A node that clients hold or that is permanent is referenced.            *)
LEMMA HeldCounted ==
  ASSUME Typed, NEW a \in Addr, IsFiniteSet(Held(a)), NEW t \in Threads, owned[t][a] > 0
  PROVE  Cardinality(Held(a)) \in Nat \ {0}
<1>1. owned[t][a] \in Nat
  BY DEF Typed, DataOK
<1>2. <<t, 1>> \in Held(a)
  BY <1>1 DEF Held
<1> QED
  BY <1>2, FS_CardinalityType, FS_EmptySet

LEMMA RootsAreReached ==
  ASSUME Core, RefsAgree
  PROVE  RootsReached
<1>1. Typed /\ RootsAlive
  BY DEF Core
<1>2. {b \in nodes : refs[b] # 0} \subseteq Reach({b \in nodes : refs[b] # 0})
  BY ReachRoots
<1> SUFFICES ASSUME NEW a \in Addr, Rooted(a)
             PROVE  a \in nodes /\ refs[a] # 0
  BY <1>2 DEF RootsReached
<1>3. a \in nodes
  BY <1>1 DEF RootsAlive
<1>4. /\ IsFiniteSet(Held(a)) /\ Cardinality(Held(a)) \in Nat
      /\ refs[a] = Cardinality(Held(a)) + (IF a \in Permanent THEN 1 ELSE 0)
  BY FS_CardinalityType DEF RefsAgree
<1>5. a \notin Permanent => Cardinality(Held(a)) # 0
  BY <1>1, <1>4, HeldCounted DEF Rooted
<1> QED
  BY <1>3, <1>4, <1>5

(* A step is one thread's, which is not at a step of a stream before or    *)
(* after it.                                                               *)
LEMMA OneThreadMoves ==
  ASSUME Typed, [Next]_vars
  PROVE  \/ UNCHANGED <<pc, owned>>
         \/ \E t \in Threads :
              /\ pc[t] \in Steps
              /\ pc' = pc \/ \E step \in Steps : Goto(t, step)
              /\ \A u \in Threads : u # t => owned'[u] = owned[u]
<1> DEFINE Moves(t) == /\ pc[t] \in Steps
                       /\ pc' = pc \/ \E step \in Steps : Goto(t, step)
                       /\ \A u \in Threads : u # t => owned'[u] = owned[u]
<1>1. CASE UNCHANGED vars
  BY <1>1 DEF vars, clientVars
<1>2. ASSUME NEW t \in Threads, NEW c \in Workload, BeginOp(t, c)
      PROVE  Moves(t)
  BY <1>2 DEF BeginOp, Start, MayCall, Steps
<1>3. ASSUME NEW t \in Threads, NEW c \in Workload, Ref(t, c)
      PROVE  Moves(t)
  BY <1>3 DEF Ref, MayCall, Steps, Typed, DataOK
<1>4. ASSUME NEW t \in Threads, BeginGc(t)
      PROVE  Moves(t)
  BY <1>4 DEF BeginGc, Start, MayCall, Steps
<1>5. ASSUME NEW t \in Threads, NEW a \in Addr, Deref(t, a)
      PROVE  Moves(t)
  BY <1>5 DEF Deref, Steps, Typed, DataOK
<1>6. ASSUME NEW t \in Threads, Maintain(t)
      PROVE  Moves(t)
  <2>1. pc[t] \in Steps /\ UNCHANGED owned
    BY <1>6 DEF Maintain, TryWriteFails, TryWriteClaims, TryWriteEnters, MarkNodes, Sweep,
       Clear, Grow, Release, Steps, clientVars
  <2>2. \E step \in Steps : Goto(t, step)
    BY <1>6 DEF Maintain, TryWriteFails, TryWriteClaims, TryWriteEnters, MarkNodes, Sweep,
       Clear, Grow, Release, AfterWrite, DropsGuard, Steps
  <2> QED
    BY <2>1, <2>2
<1>7. ASSUME NEW t \in Threads, Compute(t)
      PROVE  Moves(t)
  <2>1. CASE RefResult(t)
    BY <2>1 DEF RefResult, Running, Steps, Typed, DataOK
  <2>2. CASE ~ RefResult(t)
    BY <1>7, <2>2 DEF Compute, Settle, CacheHit, CacheMiss, LowDone, HighDone, CacheInsert,
       Evaluating, Returning, Running, Steps, clientVars
  <2> QED
    BY <2>1, <2>2
<1>8. ASSUME NEW t \in Threads,
             LoadEntries(t) \/ LoadBuckets(t) \/ Enter(t) \/ Quantify(t) \/ Exit(t)
      PROVE  Moves(t)
  BY <1>8 DEF LoadEntries, LoadBuckets, Enter, Quantify, Exit, Steps, clientVars
<1> HIDE DEF Moves
<1>9. ASSUME ~ UNCHANGED vars
      PROVE  \E t \in Threads : Moves(t)
  <2>1. PICK t \in Threads :
          \/ \E c \in Workload : BeginOp(t, c) \/ Ref(t, c)
          \/ BeginGc(t)
          \/ \E a \in Addr : Deref(t, a)
          \/ Step(t)
    BY <1>9 DEF Next
  <2>2. Moves(t)
    BY <2>1, <1>2, <1>3, <1>4, <1>5, <1>6, <1>7, <1>8 DEF Step
  <2> QED
    BY <2>2
<1> QED
  BY <1>1, <1>9 DEF Moves

(* The counts are natural numbers, and no thread is at a step of a stream. *)
LEMMA TypeStep ==
  ASSUME TypeOK, Core, Core', RefsAgree', [Next]_vars
  PROVE  TypeOK'
<1>1. DataOK' /\ refs' \in [Addr -> Int]
  BY DEF Core, Typed
<1>2. \A a \in Addr : refs'[a] \in Nat
  BY FS_CardinalityType DEF RefsAgree
<1>3. pc' \in [Threads -> Steps]
  <2>1. pc' = pc \/ \E t \in Threads : \E step \in Steps : Goto(t, step)
    BY OneThreadMoves DEF Core
  <2> QED
    BY <2>1 DEF Goto, TypeOK
<1> QED
  BY <1>1, <1>2, <1>3 DEF TypeOK

(* Every reachable state satisfies the inductive invariant.                *)
THEOREM Invariance == Spec => []Inv
<1>1. Inv /\ [Next]_vars => Inv'
  BY RootsAreReached, CoreStep, RefsAgreeStep, TypeStep DEF Inv
<1> QED
  BY <1>1, InitInv, PTL DEF Spec, SafeSpec

LEMMA CoreHolds == Spec => []Core
<1>1. Inv => Core
  BY DEF Inv
<1> QED
  BY <1>1, Invariance, PTL

(* The variables keep their types. In particular no ref_cnt is ever        *)
(* decremented below zero, and marks are only on nodes of the table.       *)
THEOREM TypeCorrect == Spec => []TypeOK
<1>1. Inv => TypeOK
  BY DEF Inv
<1> QED
  BY <1>1, Invariance, PTL

LEMMA CoreReduced == Core => Reduced
<1> SUFFICES ASSUME Core
             PROVE  Reduced
  OBVIOUS
<1>1. Typed /\ Diagram
  BY DEF Core
<1>2. ASSUME NEW a \in nodes \ {TrueId, FalseId}
      PROVE  /\ {Low(a), High(a)} \subseteq nodes
             /\ Low(a) # High(a)
             /\ \A b \in {Low(a), High(a)} \ {TrueId, FalseId} : Level(a) < Level(b)
  <2>1. /\ Level(a) \in Vars
        /\ {Low(a), High(a)} \subseteq nodes
        /\ Low(a) # High(a)
        /\ Below(Low(a), Level(a)) /\ Below(High(a), Level(a))
    BY <1>1 DEF Diagram, Ordered, Terminals
  <2>2. ASSUME NEW b \in {Low(a), High(a)} \ {TrueId, FalseId}
        PROVE  Level(a) < Level(b)
    <3>1. Level(b) > Level(a)
      BY <2>1 DEF Below, Terminals
    <3>2. Level(a) \in Nat /\ Level(b) \in Nat
      BY <1>1, <2>1, NodesTyped DEF Vars
    <3> QED
      BY <3>1, <3>2
  <2> QED
    BY <2>1, <2>2
<1>3. \A a, b \in nodes : den[a] = den[b] => a = b
  BY <1>1 DEF Diagram, Canonical
<1> QED
  BY <1>2, <1>3 DEF Reduced

(* Operations of any number of threads, collections and growths leave the  *)
(* table a reduced ordered diagram in which a function has one node, so    *)
(* that comparing two BDDs by pointer compares their functions.            *)
THEOREM Canonicity == Spec => []Reduced
BY CoreReduced, CoreHolds, PTL

LEMMA CoreHandles ==
  ASSUME Core
  PROVE  HandlesAlive
<1>1. Typed /\ Diagram /\ RootsAlive
  BY DEF Core
<1>2. \A a \in nodes : Children(a) \subseteq nodes
  BY <1>1 DEF Children, Diagram, Ordered, TerminalsAgree
<1>3. \A a \in nodes : Reach({a}) \subseteq nodes
  BY <1>2, ReachInside
<1>4. \A a \in Addr : Rooted(a) => a \in nodes
  BY <1>1 DEF RootsAlive
<1>5. \A t \in Threads, a \in Addr : owned[t][a] > 0 => a \in nodes
  BY <1>4 DEF Rooted
<1> QED
  BY <1>1, <1>3, <1>5, TerminalsAlive DEF HandlesAlive

(* Whatever the others drop and collect, a BDD that a client holds is in   *)
(* the table with everything below it.                                     *)
THEOREM HandlesStayAlive == Spec => []HandlesAlive
BY CoreHandles, CoreHolds, PTL

LEMMA CoreInFlight == Core => InFlightAlive
<1> SUFFICES ASSUME Core, NEW t \in Threads, pc[t] \in {"run", "exit"}
             PROVE  InFlight(t) \subseteq nodes \union {Null}
  BY DEF InFlightAlive
<1>1. Typed /\ RecursionAgrees(t)
  BY DEF Core
<1>2. ValueAgrees(t) /\ \A i \in 1 .. Len(stack[t]) : FrameAgrees(t, i)
  BY <1>1 DEF RecursionAgrees
<1>3. {eval[t].l, eval[t].r, val[t]} \subseteq nodes \union {Null}
  BY <1>2 DEF ValueAgrees, OnNodes
<1>4. ASSUME NEW i \in DOMAIN stack[t]
      PROVE  {stack[t][i].call.l, stack[t][i].call.r, stack[t][i].low}
               \subseteq nodes \union {Null}
  <2>1. DOMAIN stack[t] = 1 .. Len(stack[t])
    BY <1>1, FrameTyped
  <2> QED
    BY <1>2, <2>1 DEF FrameAgrees, Proper, OnNodes
<1> QED
  BY <1>3, <1>4 DEF InFlight

(* No collection frees a node that the recursion of an operation has in    *)
(* its locals, though nobody references it.                                *)
THEOREM InFlightStaysAlive == Spec => []InFlightAlive
BY CoreInFlight, CoreHolds, PTL

LEMMA CoreCaches == Core => CacheSound
<1> SUFFICES ASSUME Core, \A t \in Threads : pc[t] # "clear",
                    NEW op \in Ops, NEW i \in 0 .. slots - 1, cache[op][i] # NoEntry
             PROVE  /\ {cache[op][i].l, cache[op][i].val} \subseteq nodes
                    /\ op # "not" => cache[op][i].r \in nodes
                    /\ den[cache[op][i].val] =
                         Apply(op, den[cache[op][i].l],
                               IF op = "not" THEN {} ELSE den[cache[op][i].r])
  BY DEF CacheSound
<1>1. EntryAgrees(op, cache[op][i])
  BY DEF Core, CachesAgree
<1> QED
  BY <1>1 DEF EntryAgrees, OnNodes, Want

(* Outside the moment between freeing and invalidate_all, an entry of a    *)
(* cache is a true equation between nodes of the table: no address is      *)
(* reused under a live entry.                                              *)
THEOREM CachesSound == Spec => []CacheSound
BY CoreCaches, CoreHolds, PTL

LEMMA CoreResults == Core => ResultCorrect
<1> SUFFICES ASSUME Core, NEW t \in Threads, pc[t] = "exit"
             PROVE  den[val[t]] = Want(call[t])
  BY DEF ResultCorrect, Want
<1>1. RecursionAgrees(t)
  BY DEF Core
<1>2. stack[t] = <<>> /\ ValueAgrees(t) /\ val[t] # Null
  BY <1>1 DEF RecursionAgrees
<1>3. Waits(t, 1) = call[t]
  BY <1>2 DEF Waits
<1> QED
  BY <1>2, <1>3 DEF ValueAgrees

(* not, and, or and comp return the node of the function they promise.     *)
THEOREM ResultsCorrect == Spec => []ResultCorrect
BY CoreResults, CoreHolds, PTL

-----------------------------------------------------------------------------
(* The steps that change the table.                                        *)

LEMMA TableChanges ==
  ASSUME [Next]_vars
  PROVE  \/ UNCHANGED <<nodes, key, den, buckets>>
         \/ \E t \in Threads : Sweep(t) \/ Grow(t) \/ HighDone(t)
<1>1. CASE UNCHANGED vars
  BY <1>1 DEF vars, tableVars, sizeVars
<1>2. ASSUME NEW t \in Threads, NEW c \in Workload, BeginOp(t, c) \/ Ref(t, c)
      PROVE  UNCHANGED <<nodes, key, den, buckets>>
  BY <1>2 DEF BeginOp, Start, Ref, tableVars, sizeVars
<1>3. ASSUME NEW t \in Threads, BeginGc(t)
      PROVE  UNCHANGED <<nodes, key, den, buckets>>
  BY <1>3 DEF BeginGc, Start, tableVars, sizeVars
<1>4. ASSUME NEW t \in Threads, NEW a \in Addr, Deref(t, a)
      PROVE  UNCHANGED <<nodes, key, den, buckets>>
  BY <1>4 DEF Deref, sizeVars
<1>5. ASSUME NEW t \in Threads, LoadEntries(t) \/ LoadBuckets(t)
      PROVE  UNCHANGED <<nodes, key, den, buckets>>
  BY <1>5 DEF LoadEntries, LoadBuckets, tableVars, sizeVars
<1>6. ASSUME NEW t \in Threads, Maintain(t)
      PROVE  UNCHANGED <<nodes, key, den, buckets>> \/ Sweep(t) \/ Grow(t)
  BY <1>6 DEF Maintain, TryWriteFails, TryWriteClaims, TryWriteEnters, MarkNodes, Clear,
     Release, tableVars, sizeVars
<1>7. ASSUME NEW t \in Threads, Compute(t)
      PROVE  UNCHANGED <<nodes, key, den, buckets>> \/ HighDone(t)
  BY <1>7 DEF Compute, Settle, CacheHit, CacheMiss, LowDone, CacheInsert, RefResult,
     tableVars, sizeVars
<1>8. ASSUME NEW t \in Threads, Enter(t) \/ Quantify(t) \/ Exit(t)
      PROVE  UNCHANGED <<nodes, key, den, buckets>>
  BY <1>8 DEF Enter, Quantify, Exit, tableVars, sizeVars
<1> QED
  BY <1>1, <1>2, <1>3, <1>4, <1>5, <1>6, <1>7, <1>8 DEF Next, Step

LEMMA HighDoneAdds ==
  ASSUME Core, NEW t \in Threads, HighDone(t)
  PROVE  Grows /\ UNCHANGED buckets
<1>1. UNCHANGED buckets
  BY DEF HighDone, sizeVars
<1>2. PICK a \in Addr : MakeNode(TopLevel(Top(t).call), Top(t).low, val[t], a)
  BY DEF HighDone
<1>3. CASE UNCHANGED tableVars
  BY <1>1, <1>3 DEF Grows, tableVars
<1>4. CASE ~ UNCHANGED tableVars
  <2>1. /\ a \in Malloc(Addr \ nodes)
        /\ nodes' = nodes \union {a}
        /\ \E k : key' = [key EXCEPT ![a] = k]
        /\ \E f : den' = [den EXCEPT ![a] = f]
    BY <1>2, <1>4 DEF MakeNode
  <2>2. a \notin nodes
    BY <2>1, AddrAssumption
  <2>3. Typed /\ nodes \subseteq Addr
    BY NodesTyped DEF Core
  <2> QED
    BY <1>1, <2>1, <2>2, <2>3 DEF Grows, Typed, DataOK
<1> QED
  BY <1>3, <1>4

(* While a client holds a BDD no step, not even a collection by another    *)
(* thread, changes its node or the function it stands for.                 *)
THEOREM HeldStaysFrozen == Spec => HeldFrozen
<1>1. Core /\ [Next]_vars =>
        [\A t \in Threads, a \in Addr :
           owned[t][a] > 0 => key'[a] = key[a] /\ den'[a] = den[a]]_vars
  <2> SUFFICES ASSUME Core, [Next]_vars, NEW a \in Addr, Rooted(a)
               PROVE  key'[a] = key[a] /\ den'[a] = den[a]
    BY DEF Rooted
  <2>1. a \in nodes
    BY DEF Core, RootsAlive
  <2>2. ASSUME NEW t \in Threads, Sweep(t)
        PROVE  key'[a] = key[a] /\ den'[a] = den[a]
    <3>1. a \in marked
      BY <2>2 DEF Core, MarksAgree, Sweep
    <3> QED
      BY <2>2, <3>1 DEF Sweep
  <2>3. ASSUME NEW t \in Threads, Grow(t)
        PROVE  key'[a] = key[a] /\ den'[a] = den[a]
    BY <2>3 DEF Grow, tableVars
  <2>4. ASSUME NEW t \in Threads, HighDone(t)
        PROVE  key'[a] = key[a] /\ den'[a] = den[a]
    BY <2>1, <2>4, HighDoneAdds DEF Grows
  <2> QED
    BY <2>2, <2>3, <2>4, TableChanges
<1> QED
  BY <1>1, CoreHolds, PTL DEF Spec, SafeSpec, HeldFrozen

(* Nodes are freed and the table is resized only while no operation has    *)
(* its read guard.                                                         *)
THEOREM MaintainsAlone == Spec => MaintenanceAlone
<1>1. Core /\ [Next]_vars =>
        [nodes \ nodes' # {} \/ buckets' # buckets =>
           \A t \in Threads : pc[t] \notin {"run", "exit"}]_vars
  <2> SUFFICES ASSUME Core, [Next]_vars, nodes \ nodes' # {} \/ buckets' # buckets
               PROVE  \A t \in Threads : pc[t] \notin {"run", "exit"}
    OBVIOUS
  <2>1. PICK t \in Threads : Sweep(t) \/ Grow(t) \/ HighDone(t)
    BY TableChanges
  <2>2. ~ HighDone(t)
    BY HighDoneAdds DEF Grows
  <2>3. pc[t] \in WriteSteps
    BY <2>1, <2>2 DEF Sweep, Grow, WriteSteps
  <2> QED
    BY <2>3, WriterAlone DEF Core
<1> QED
  BY <1>1, CoreHolds, PTL DEF Spec, SafeSpec, MaintenanceAlone

=============================================================================
