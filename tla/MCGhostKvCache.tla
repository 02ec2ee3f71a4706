---------------------------- MODULE MCGhostKvCache ----------------------------
(* Counts 2, 4 and 6 (4, 8 and 12 before sampling); the hash 16 is not     *)
(* sampled.                                                                *)
EXTENDS GhostKvCache

CONSTANTS n1, n2, n3, n4, n5, n6, n7, n8

MCpool == [t \in Tag |-> SubSeq(<<n1, n2, n3, n4, n5, n6, n7, n8>>, 1, max_size)]

(* See MCGhostCache: a step depends on places only.                        *)
Place(e) == IF e \in Range(lru(self)) THEN CHOOSE i \in 1..Len(lru(self)) : lru(self)[i] = e ELSE 0
Shape ==
  <<[i \in 1..Len(lru(self)) |-> LET e == lru(self)[i]
                                 IN <<size_idx[e], kv_size[e], given[key[e]]>>],
    [i \in DOMAIN boundaries |-> Place(boundaries[i])],
    reuse_distances, reuse_count, caches_stat, query, curve>>
=============================================================================
