----------------------------- MODULE MCLRUCache -----------------------------
(* A cache of three slots, four keys, and one node that install may allocate. *)
EXTENDS LRUCache

CONSTANTS n1, n2, n3, n4, k1, k2, k3, k4

MCpool == [t \in Tag |-> <<n1, n2, n3>>]
KeySymmetry == Permutations({k1, k2, k3, k4})
=============================================================================
