---------------------------- MODULE BddInvariant -----------------------------
(***************************************************************************)
(* The inductive invariant of BddManager, from which BddManagerProofs      *)
(* derives its safety properties. Core is the part that holds beside the   *)
(* streams of BddIo, too, which go through the steps StreamSteps, count    *)
(* references by themselves and take a read guard.                         *)
(***************************************************************************)
EXTENDS BddManager, Integers

StreamSteps == {"write", "open", "read", "ref", "close", "crashed"}

Typed ==
  /\ DataOK
  /\ refs \in [Addr -> Int]
  /\ pc \in [Threads -> Steps \union StreamSteps]

-----------------------------------------------------------------------------
(* The lock.                                                               *)

\* The steps under a read guard.
ReadSteps == {"run", "exit", "read", "ref", "close", "crashed"}

\* The steps of the thread that may change the table and empty the caches.
WriteSteps == {"mark", "sweep", "clear", "grow", "release"}

(* Where a thread is says which guard it has.                              *)
GuardsAgree ==
  /\ readers = {t \in Threads : pc[t] \in ReadSteps}
  /\ \A t \in Threads : slot = t <=> pc[t] \in {"wait"} \union WriteSteps
  /\ writing <=> \E t \in Threads : pc[t] \in WriteSteps
  /\ writing => readers = {}

-----------------------------------------------------------------------------
(* The references.                                                         *)

(* ref_cnt counts them, and the one that Manager::init takes.              *)
RefsAgree ==
  \A a \in Addr :
    /\ IsFiniteSet(Held(a))
    /\ refs[a] = Cardinality(Held(a)) + (IF a \in Permanent THEN 1 ELSE 0)

\* What no collection may free.
Rooted(a) == a \in Permanent \/ \E t \in Threads : owned[t][a] > 0

RootsAlive == \A a \in Addr : Rooted(a) => a \in nodes

(* What the thread that is about to sweep has marked.                      *)
MarksAgree ==
  \A t \in Threads : pc[t] = "sweep" =>
    /\ \A a \in Addr : Rooted(a) => a \in marked
    /\ \A a \in marked : Children(a) \subseteq marked

-----------------------------------------------------------------------------
(* The diagram.                                                            *)

\* The function f does not depend on v.
Free(f, v) == \A s \in Assignments : s \union {v} \in f <=> s \ {v} \in f

\* a is below every node of level v.
Below(a, v) == a \in Terminals \/ Level(a) > v

TerminalsAgree ==
  /\ TrueId # FalseId
  /\ den[TrueId] = Assignments /\ den[FalseId] = {}
  /\ \A a \in Terminals : Low(a) = Null /\ High(a) = Null

(* A node has a variable, its children are below it, and it stands for the *)
(* function that tests the variable.                                       *)
Ordered ==
  \A a \in nodes \ Terminals :
    /\ Level(a) \in Vars
    /\ {Low(a), High(a)} \subseteq nodes
    /\ Low(a) # High(a)
    /\ Below(Low(a), Level(a)) /\ Below(High(a), Level(a))
    /\ den[a] = Mux(Level(a), den[Low(a)], den[High(a)])

(* No node depends on a variable above it.                                 *)
Independent ==
  \A a \in nodes : \A v \in Vars : Below(a, v) => Free(den[a], v)

Canonical == \A a, b \in nodes : den[a] = den[b] => a = b

Diagram == TerminalsAgree /\ Ordered /\ Independent /\ Canonical

-----------------------------------------------------------------------------
(* Calls.                                                                  *)

\* A call of an operation on nodes of the table.
OnNodes(c) ==
  /\ c.op \in Ops \union Unimplemented
  /\ c.l \in nodes
  /\ IF c.op = "not" THEN c.r = Null ELSE c.r \in nodes

\* What a call promises to return.
Want(c) == Apply(c.op, den[c.l], IF c.op = "not" THEN {} ELSE den[c.r])

\* A call that recurses.
Proper(c) == c.op \in Ops /\ OnNodes(c) /\ Operands(c) \intersect Terminals = {}

(* The operands of a call stay alive, since the caller holds them.         *)
CallAgrees(t) ==
  /\ pc[t] \in {"entries", "buckets", "enter", "run", "exit"} => call[t].op # "gc"
  /\ pc[t] \notin {"idle", "panicked"} \union StreamSteps /\ call[t].op # "gc" =>
       /\ OnNodes(call[t])
       /\ IsOperand(t, call[t].l)
       /\ call[t].op # "not" => IsOperand(t, call[t].r)

(* Until a collection has freed nodes, each cache entry is true.           *)
EntryAgrees(op, entry) ==
  entry # NoEntry =>
    LET c == [op |-> op, l |-> entry.l, r |-> entry.r]
    IN  OnNodes(c) /\ entry.val \in nodes /\ den[entry.val] = Want(c)

CachesAgree ==
  (\A t \in Threads : pc[t] # "clear") =>
    \A op \in Ops, i \in 0 .. slots - 1 : EntryAgrees(op, cache[op][i])

-----------------------------------------------------------------------------
(* The recursion.                                                          *)

\* The call whose result the innermost activations from the i-th on wait for.
Waits(t, i) ==
  IF i > Len(stack[t]) THEN call[t]
  ELSE Cofactor(stack[t][i].call, IF stack[t][i].low = Null THEN 2 ELSE 3)

(* An activation computes what the one around it waits for.                *)
FrameAgrees(t, i) ==
  LET frame == stack[t][i]
  IN  /\ Proper(frame.call)
      /\ Want(frame.call) = Want(Waits(t, i + 1))
      /\ frame.low # Null =>
           frame.low \in nodes /\ den[frame.low] = Want(Cofactor(frame.call, 2))
      /\ frame.made => i = 1 /\ frame.low # Null /\ val[t] # Null

(* So does the call that is being made, or the result that came back.      *)
ValueAgrees(t) ==
  /\ OnNodes(eval[t])
  /\ val[t] = Null /\ eval[t].op \in Ops => Want(eval[t]) = Want(Waits(t, 1))
  /\ val[t] # Null =>
       /\ val[t] \in nodes
       /\ den[val[t]] = IF stack[t] # <<>> /\ Head(stack[t]).made
                        THEN Want(Head(stack[t]).call) ELSE Want(Waits(t, 1))

RecursionAgrees(t) ==
  /\ pc[t] # "run" => stack[t] = <<>>
  /\ pc[t] \in {"run", "exit"} =>
       /\ ValueAgrees(t)
       /\ \A i \in 1 .. Len(stack[t]) : FrameAgrees(t, i)
  /\ pc[t] = "run" /\ call[t].op \in Ops => eval[t].op \in Ops
  /\ pc[t] = "run" /\ call[t].op \in Unimplemented =>
       eval[t] = call[t] /\ val[t] = Null /\ stack[t] = <<>>
  /\ pc[t] = "exit" => call[t].op \in Ops /\ val[t] # Null

Core ==
  /\ Typed
  /\ GuardsAgree
  /\ RootsAlive
  /\ MarksAgree
  /\ Diagram
  /\ CachesAgree
  /\ \A t \in Threads : CallAgrees(t) /\ RecursionAgrees(t)

Inv == TypeOK /\ RefsAgree /\ Core

=============================================================================
