------------------------------ MODULE MCLRUWalk ------------------------------
(* A cache of three slots and three keys; install reuses erased nodes only. *)
EXTENDS LRUWalk

CONSTANTS n1, n2, n3

(* Identifies states no step tells apart: ret and the key of an erased     *)
(* node are never read.                                                    *)
Live ==
  <<list, size, capacity, [e \in Node |-> IF e \in On(self, "erased") THEN NoKey ELSE key[e]],
    refs, table, pins, walkVars>>

MCpool == [t \in Tag |-> <<n1, n2, n3>>]
=============================================================================
