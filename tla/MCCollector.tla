----------------------------- MODULE MCCollector ------------------------------
(* Instances of Collector for TLC. *)
EXTENDS Collector

\* Manager::init with three variables on a fresh heap: true, false, x0, not x0,
\* x1, ... at 1 .. 8. Then x1 and x2 at 9, x0 and 9 at 10, not x0 or 9 at 11,
\* and x0 xor x1 at 12.
MCKeyAt ==
  << <<1, 0, 0>>, <<0, 0, 0>>,
     <<0, 2, 1>>, <<0, 1, 2>>, <<1, 2, 1>>, <<1, 1, 2>>, <<2, 2, 1>>, <<2, 1, 2>>,
     <<1, 2, 7>>, <<0, 2, 9>>, <<0, 1, 9>>, <<0, 5, 6>> >>

MCBoot == 1 .. 8

MCTables == {MCBoot \union made : made \in {{}, {9}, {9, 10}, {9, 10, 11}, {9, 10, 11, 12}}}

SpreadHash(k) == k[1] + k[2] + 2 * k[3]

=============================================================================
