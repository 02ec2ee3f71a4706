------------------------------ MODULE MCLRULinks ------------------------------
(* Two slots and one node that install may allocate; k1 and k2 have the    *)
(* same hash, k3 another one in the same bucket, k4 the other bucket.      *)
EXTENDS LRULinks

CONSTANTS n1, n2, n3, k1, k2, k3, k4

MCpool == <<n1, n2>>
MCHash == (k1 :> 4) @@ (k2 :> 4) @@ (k3 :> 6) @@ (k4 :> 1)

(* The hash of a key is used for its bucket only.                          *)
KeySymmetry == Permutations({k1, k2, k3})

(* Identifies states no step tells apart: next_hash of a node that is not  *)
(* in the table is never read, and ret never is.                           *)
Live ==
  <<next, prev, [q \in DOMAIN slot |-> IF q \in Bucket \cup Cached THEN slot[q] ELSE Nil],
    size, capacity, key, refs, extra_pool, pins>>
=============================================================================
