------------------------------- MODULE NodeSet -------------------------------
(***************************************************************************)
(* What the unique table of src/src/set.rs promises to make_node: a call   *)
(* get_or_insert(k) takes effect at one instant, at which it answers with  *)
(* the node that holds k or publishes a new one when no node does. So no   *)
(* key is ever held by two nodes, and two BDDs are equal exactly when      *)
(* their pointers are.                                                     *)
(*                                                                         *)
(* UniqueTable is the table as it is coded and implements this module.     *)
(***************************************************************************)
CONSTANTS
  Threads,    \* the threads that call make_node
  Addr,       \* the addresses of nodes
  Null,       \* the null pointer
  Key,        \* the triples (level, low, high)
  NoKey       \* the key of no request

VARIABLES
  nodes,      \* the published nodes
  keyOf,      \* the key of each published node
  want,       \* the key each thread asked for last
  got         \* the answer to that, Null while the call is pending

nodeVars == <<nodes, keyOf, want, got>>

Init ==
  /\ nodes = {}
  /\ keyOf = [a \in {} |-> NoKey]
  /\ want = [t \in Threads |-> NoKey]
  /\ got = [t \in Threads |-> Null]

Pending(t) == want[t] # NoKey /\ got[t] = Null

Ask(t, k) ==
  /\ ~Pending(t)
  /\ want' = [want EXCEPT ![t] = k]
  /\ got' = [got EXCEPT ![t] = Null]
  /\ UNCHANGED <<nodes, keyOf>>

\* The answer to a call is given once: it changes with the next call only.
Answer(t, a) == got' = [got EXCEPT ![t] = a] /\ UNCHANGED want

Find(t) ==
  /\ Pending(t)
  /\ \E a \in nodes : keyOf[a] = want[t] /\ Answer(t, a)
  /\ UNCHANGED <<nodes, keyOf>>

Publish(t) ==
  /\ Pending(t)
  /\ \A a \in nodes : keyOf[a] # want[t]
  /\ \E a \in Addr \ nodes :
       /\ nodes' = nodes \union {a}
       /\ keyOf' = [b \in nodes \union {a} |->
                      IF b = a THEN want[t] ELSE keyOf[b]]
       /\ Answer(t, a)

\* A request for a node with equal children is answered with the child.
Elide(t) ==
  /\ ~Pending(t)
  /\ want' = [want EXCEPT ![t] = NoKey]
  /\ \E a \in nodes : got' = [got EXCEPT ![t] = a]
  /\ UNCHANGED <<nodes, keyOf>>

Next ==
  \E t \in Threads :
    \/ \E k \in Key : Ask(t, k)
    \/ Elide(t)
    \/ Find(t)
    \/ Publish(t)

Spec == Init /\ [][Next]_nodeVars

=============================================================================
