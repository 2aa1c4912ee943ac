------------------------------ MODULE MCBddIo -------------------------------
(* Instances of BddIo for TLC: four variables, and a stream of a manager     *)
(* that gave its nodes other addresses.                                      *)
EXTENDS BddIo, TLC

CONSTANTS
  Size          \* how many addresses there are

MCAddr == 1 .. Size

\* The highest free address: the addresses are not those of the other manager.
HighestFree(free) == {a \in free : \A b \in free : b <= a}

\* Manager::init on a fresh heap.
MCBootAddr == [i \in 1 .. BootLen |-> i]

SumHash(a, b) == a + b

\* Only collections beside the streams.
OnlyGc == {Gc}

Entry(id, level, low, high, f) ==
  [id |-> id, level |-> level, low |-> low, high |-> high, den |-> f]

\* x2 /\ x3 unless x0 and x1: both children of the root need x2 /\ x3, which has a
\* place of its own in the stream for each.
Foreign ==
  LET has(v) == {s \in Assignments : v \in s}
      n == has(2) \intersect has(3)
      three == Entry(101, 3, FalseId, TrueId, has(3))
      two == Entry(102, 2, FalseId, 101, n)
  IN  <<three, two, three, two, Entry(103, 1, 102, FalseId, n \ has(1)),
        Entry(104, 0, 102, 103, Mux(0, n, n \ has(1)))>>

MCFiles == {Foreign}

\* The clients are alike.
Alike == Permutations(Threads)

\* A terminal, a variable, and what a deserialize can make.
MCWanted == {TrueId, 3} \union (BootLen + 1 .. Size)

=============================================================================
