--------------------------- MODULE MCLockFreeCache ----------------------------
(* Instances of LockFreeCache for TLC. *)
EXTENDS LockFreeCache

CONSTANTS
  k1, k2        \* two keys

\* They share an entry in a cache of two entries and part in one of four.
CollidingHash(k) == IF k = k1 THEN 1 ELSE 3

=============================================================================
