---------------------------- MODULE MCGhostCache ----------------------------
(* The spectrum of the example in ghost_cache.h:232: sizes 3, 5 and 7 (6,  *)
(* 10 and 14 before sampling), one sampled key more than that, and one key *)
(* that is not sampled.                                                    *)
EXTENDS SampledGhostCache

CONSTANTS n1, n2, n3, n4, n5, n6, n7, k1, k2, k3, k4, k5, k6, k7, k8, k9

MCpool == [t \in Tag |-> <<n1, n2, n3, n4, n5, n6, n7>>]
MCHash ==
  (k1 :> 0) @@ (k2 :> 1) @@ (k3 :> 2) @@ (k4 :> 3) @@ (k5 :> 4) @@ (k6 :> 5) @@ (k7 :> 6)
  @@ (k8 :> 7) @@ (k9 :> 16)

(* A step depends on the places of nodes and keys in the list only, so     *)
(* states that differ by a renaming of nodes and of keys are identified.   *)
(* (WellFormed is true in the states where the places say it all.)  No step *)
(* reads asked.                                                            *)
Place(e) == IF e \in Range(lru(self)) THEN CHOOSE i \in 1..Len(lru(self)) : lru(self)[i] = e ELSE 0
WellFormed == CoreInv /\ On(self, "in_use") = {} /\ On(self, "erased") = {}
Shape ==
  <<[i \in 1..Len(lru(self)) |-> size_idx[lru(self)[i]]],
    [i \in DOMAIN boundaries |-> IF boundaries[i] \in Node THEN Place(boundaries[i])
                                 ELSE boundaries[i]],
    reuse_distances, reuse_count, caches_stat, query, WellFormed>>
=============================================================================
