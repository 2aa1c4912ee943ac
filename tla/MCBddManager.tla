---------------------------- MODULE MCBddManager -----------------------------
(* Instances of BddManager for TLC. *)
EXTENDS BddManager, TLC

CONSTANTS
  Size          \* how many addresses there are

MCAddr == 1 .. Size

\* The lowest free address, so that freed nodes are soon reused.
LowestFree(free) == {a \in free : \A b \in free : a <= b}

\* Manager::init on a fresh heap.
MCBootAddr == [i \in 1 .. BootLen |-> i]

\* The heap has what it takes to put the terminals above their variables.
DescendingBootAddr == [i \in 1 .. BootLen |-> BootLen + 1 - i]

\* Entries collide when the sums of their operands have the same parity.
SumHash(a, b) == a + b

Do(op, l, r) == [op |-> op, l |-> l, r |-> r]

\* Operations on x1 and x2, on what they return (9 is the first node made), a
\* second reference, a collection by hand.
MixedWorkload ==
  {Do("or", 7, 5), Do("comp", 5, 7), Do("comp", 1, 9),
   Do("and", 3, 9), Do("or", 9, 6), Do("ref", 9, Null), Gc}

\* Calls that overload a small table, one that panics, a collection by hand.
FillingWorkload ==
  {Do("comp", 3, 5), Do("exist", 3, 5), Gc}

\* Every operation on any two nodes.
AnyWorkload ==
  {Do("not", l, Null) : l \in MCAddr} \union
  {Do(op, l, r) : op \in {"and", "or", "comp"}, l \in MCAddr, r \in MCAddr}

\* Calls that overlap, each of which makes a node.
OverlapWorkload == {Do("and", 5, 3), Do("comp", 3, 5), Do("or", 3, 5)}

\* Every thread makes the same calls.
Alike == Permutations(Threads)

=============================================================================
