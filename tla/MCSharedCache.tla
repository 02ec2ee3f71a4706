---------------------------- MODULE MCSharedCache ----------------------------
(* Two tenants that start with one slot each, three keys, and one node that*)
(* install may allocate.                                                   *)
EXTENDS SharedCache

CONSTANTS A, B, n1, n2, n3, k1, k2, k3

MCpool == [t \in Tag |-> IF t = A THEN <<n1>> ELSE <<n2>>]
KeySymmetry == Permutations({k1, k2, k3})
=============================================================================
