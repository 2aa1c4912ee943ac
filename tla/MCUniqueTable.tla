---------------------------- MODULE MCUniqueTable ----------------------------
(* Instances of UniqueTable for TLC. *)
EXTENDS UniqueTable, TLC

CONSTANTS
  Size,         \* how many addresses there are
  main, t2, t3  \* threads, in the run with three

\* Only the thread that runs Manager::init differs from the others.
OthersAlike == Permutations({t2, t3})

MCAddr == 1 .. Size

\* The lowest free address: which thread allocates first still varies.
LowestFree(free) == {a \in free : \A b \in free : a <= b}

\* A bucket for each parity of the level, so that long lists form.
HashByLevel(k) == k[1]

\* Manager::init with two variables puts true, false, x0, not x0, x1, not x1 at
\* 1 .. 6. A new node in the middle and one at the end of the list of level 0,
\* a node that is there and one that is not made.
MixedWorkload == {<<0, 1, 5>>, <<0, 5, 1>>, <<0, 2, 1>>, <<0, 5, 5>>}

\* Two new nodes that are neighbours, for more threads.
ContendedWorkload == {<<0, 1, 5>>, <<0, 1, 6>>}

=============================================================================
