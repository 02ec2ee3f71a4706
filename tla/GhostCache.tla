----------------------------- MODULE GhostCache -----------------------------
(***************************************************************************)
(* class GhostCache (ghost_cache.h): one LRU cache of max_size nodes that  *)
(* stands for num_ticks caches of sizes min_size, min_size + tick, ...,    *)
(* max_size.  Each node carries size_idx, the smallest of these caches it  *)
(* would still be in; boundaries[i] is the oldest node cache i would have  *)
(* once it is full.  An access moves the boundaries instead of scanning    *)
(* the list, and counts the hit at the node's size_idx; the statistics per *)
(* size are computed from these counts when somebody asks.                 *)
(***************************************************************************)
EXTENDS LRUCore

CONSTANTS
  self,        \* the tag of the cache
  tick, min_size, max_size,
  DummyHead,   \* &lru_, the list head
  NoQuery,     \* no statistics were just asked for
  MaxCount     \* bound on reuse_count, a uint32_t in the code

num_ticks == (max_size - min_size) \div tick + 1
Idx == 0..(num_ticks - 1)
Mode == {"DEFAULT", "AS_MISS", "AS_HIT", "NOOP"}

(* The assertions of the constructor, whose arguments are unsigned.        *)
ASSUME GhostAssumption ==
  /\ tick \in Nat /\ min_size \in Nat /\ max_size \in Nat
  /\ tick > 0 /\ min_size > 1
  /\ min_size + (num_ticks - 1) * tick = max_size
  /\ num_ticks > 2
  /\ Tag = {self} /\ Len(pool[self]) = max_size
  /\ MaxCount \in Nat

VARIABLES
  size_idx,          \* value.size_idx of each node
  boundaries,        \* for every index but the last; Nil is nullptr
  reuse_distances,   \* the histogram of the hits
  reuse_count,
  caches_stat,       \* the statistics last built
  query,             \* the index get_stat was just called for
  asked              \* the mode the last access was called with

vars ==
  <<coreVars, size_idx, boundaries, reuse_distances, reuse_count, caches_stat, query, asked>>

(* size_idx is not initialized in a pool node, but no access reads it      *)
(* before it has written it.                                               *)
Init ==
  /\ CoreInit
  /\ size_idx = [e \in Node |-> 0]
  /\ boundaries = [i \in 0..(num_ticks - 2) |-> Nil]
  /\ reuse_distances = [i \in Idx |-> 0]
  /\ reuse_count = 0
  /\ caches_stat = [i \in Idx |-> [hit_cnt |-> 0, miss_cnt |-> 0]]
  /\ query = NoQuery
  /\ asked = "NOOP"

-----------------------------------------------------------------------------
(* e->next in the list s.                                                  *)
after(s, e) ==
  LET i == CHOOSE j \in 1..Len(s) : s[j] = e
  IN IF i = Len(s) THEN DummyHead ELSE s[i + 1]

(* The successor refresh returns; e itself if e is the newest node.        *)
successor(e) == IF e = Last(lru(self)) THEN e ELSE after(lru(self), e)

(* Mutant: the division rounds down.                                       *)
size_idx_floor(n) == IF n > min_size THEN (n - min_size) \div tick ELSE 0

(* The smallest of the caches a node would be in when it is one of n.      *)
size_idx_new(n) == IF n > min_size THEN (n - min_size + tick - 1) \div tick ELSE 0

(* Mutant: a boundary that is not moved when its node is accessed.         *)
own_boundary_kept(h, hit, idx, n) ==
  IF idx < num_ticks - 1 /\ ~hit /\ n = idx * tick + min_size
  THEN [boundaries EXCEPT ![idx] = Head(lru(self)')]
  ELSE boundaries

(* The boundary at the accessed node's own index: h leaves its place, or a *)
(* new node makes the cache of that index full.                            *)
own_boundary(h, hit, idx, n) ==
  CASE idx < num_ticks - 1 /\ hit /\ boundaries[idx] = h ->
         [boundaries EXCEPT ![idx] = successor(h)]
    [] idx < num_ticks - 1 /\ ~hit /\ n = idx * tick + min_size ->
         [boundaries EXCEPT ![idx] = Head(lru(self)')]
    [] OTHER -> boundaries

(* Every boundary below the node's index moves one node towards the MRU    *)
(* end; the node it leaves no longer fits the cache of that index.         *)
shift_boundaries(h, idx, bounds) ==
  LET shifted == {i \in 0..(idx - 1) : bounds[i] # Nil}
  IN /\ boundaries' = [i \in DOMAIN bounds |->
                         IF i \in shifted THEN after(lru(self)', bounds[i]) ELSE bounds[i]]
     /\ size_idx' = [[e \in Node |->
                        size_idx[e] + Cardinality({i \in shifted : bounds[i] = e})]
                      EXCEPT ![h] = 0]

(* Mutants: an access forced to be a hit is counted where it was found, or *)
(* not counted among the accesses.                                         *)
count_access_hit_only(hit, idx, mode) ==
  /\ reuse_distances' =
       CASE mode = "DEFAULT" /\ hit -> [reuse_distances EXCEPT ![idx] = @ + 1]
         [] mode = "AS_HIT" -> [reuse_distances EXCEPT ![0] = @ + 1]
         [] OTHER -> reuse_distances
  /\ reuse_count' = IF mode \in {"NOOP", "AS_HIT"} THEN reuse_count ELSE reuse_count + 1
count_access_found(hit, idx, mode) ==
  /\ reuse_distances' =
       IF hit /\ mode \in {"DEFAULT", "AS_HIT"}
       THEN [reuse_distances EXCEPT ![idx] = @ + 1] ELSE reuse_distances
  /\ reuse_count' = IF mode = "NOOP" THEN reuse_count ELSE reuse_count + 1

count_access(hit, idx, mode) ==
  /\ reuse_distances' =
       CASE mode = "DEFAULT" /\ hit -> [reuse_distances EXCEPT ![idx] = @ + 1]
         [] mode = "AS_HIT" -> [reuse_distances EXCEPT ![0] = @ + 1]
         [] OTHER -> reuse_distances
  /\ reuse_count' = IF mode = "NOOP" THEN reuse_count ELSE reuse_count + 1

(* access_impl: no node is in use, so refresh always finds a node.         *)
Access(k, mode) ==
  /\ mode # "NOOP" => reuse_count < MaxCount
  /\ \E h \in Node :
       /\ refresh(self, k, h)
       /\ LET hit == table[k] # Nil
              n == size'[self]
              idx == IF hit THEN size_idx[h] ELSE size_idx_new(n)
          IN /\ shift_boundaries(h, idx, own_boundary(h, hit, idx, n))
             /\ count_access(hit, idx, mode)
  /\ query' = NoQuery
  /\ asked' = mode
  /\ UNCHANGED caches_stat

-----------------------------------------------------------------------------
(* The hits of cache i are those counted at the indices up to i.           *)
accum_hit_cnt[i \in Idx] == reuse_distances[i] + IF i = 0 THEN 0 ELSE accum_hit_cnt[i - 1]

(* Mutant: the counts are not accumulated.                                 *)
built_stat_plain ==
  [i \in Idx |-> [hit_cnt |-> reuse_distances[i], miss_cnt |-> reuse_count - reuse_distances[i]]]

built_stat ==
  [i \in Idx |-> [hit_cnt |-> accum_hit_cnt[i], miss_cnt |-> reuse_count - accum_hit_cnt[i]]]

(* get_stat rebuilds the statistics when their total is not reuse_count.   *)
Outdated(i) == caches_stat[i].hit_cnt + caches_stat[i].miss_cnt # reuse_count

GetStat(i) ==
  /\ caches_stat' = IF Outdated(i) THEN built_stat ELSE caches_stat
  /\ query' = i
  /\ UNCHANGED <<coreVars, size_idx, boundaries, reuse_distances, reuse_count, asked>>

PrintStat ==
  /\ caches_stat' = built_stat
  /\ query' = NoQuery
  /\ UNCHANGED <<coreVars, size_idx, boundaries, reuse_distances, reuse_count, asked>>

cleared_distances == [i \in Idx |-> 0]

ResetStat ==
  /\ reuse_count' = 0
  /\ reuse_distances' = cleared_distances
  /\ query' = NoQuery
  /\ UNCHANGED <<coreVars, size_idx, boundaries, caches_stat, asked>>

Next ==
  \/ \E k \in Key, mode \in Mode : Access(k, mode)
  \/ \E i \in Idx : GetStat(i)
  \/ PrintStat \/ ResetStat

Spec == Init /\ [][Next]_vars

-----------------------------------------------------------------------------
Stat == [hit_cnt : Nat, miss_cnt : Nat]

(* Types.  In particular no miss count becomes negative (in the code it    *)
(* would wrap around) and no boundary runs off the list.                   *)
TypeOK ==
  /\ CoreTypeOK
  /\ size_idx \in [Node -> Idx]
  /\ boundaries \in [0..(num_ticks - 2) -> Node \cup {Nil}]
  /\ reuse_distances \in [Idx -> Nat]
  /\ reuse_count \in Nat
  /\ caches_stat \in [Idx -> Stat]
  /\ query \in Idx \cup {NoQuery}
  /\ asked \in Mode

(* The node at distance d from the MRU end is in the caches of at least d  *)
(* pages (ghost_cache.h:43-45: "the least non-negative number such that    *)
(* the key will in cache if the cache size is size_idx * tick + min_size").  *)
SizeIdxExact ==
  \A d \in 1..Len(lru(self)) :
    LET i == size_idx[lru(self)[Len(lru(self)) + 1 - d]]
    IN d <= i * tick + min_size /\ (i > 0 => d > (i - 1) * tick + min_size)

(* boundaries[i] is the oldest node of cache i as soon as that is full.    *)
BoundariesExact ==
  \A i \in 0..(num_ticks - 2) :
    LET s == i * tick + min_size
    IN boundaries[i] = IF Len(lru(self)) < s THEN Nil ELSE lru(self)[Len(lru(self)) + 1 - s]

(* The assertion at the end of get_stat, and a larger cache never has      *)
(* fewer hits: no hit rate is above 100% and the curve is monotone.        *)
StatConsistent ==
  /\ query # NoQuery => ~Outdated(query)
  /\ \A i, j \in Idx : i <= j => caches_stat[i].hit_cnt <= caches_stat[j].hit_cnt

(* What get_stat returns counts the accesses since the last reset_stat     *)
(* only (README.md:104, "don't count the preheat ops towards hit rate      *)
(* status").                                                               *)
StatCurrent == query # NoQuery => caches_stat[query] = built_stat[query]

-----------------------------------------------------------------------------
(* The keys of the n newest nodes: a cache of n pages would hold them.     *)
NewestKeys(n) ==
  LET m == IF n < Len(lru(self)) THEN n ELSE Len(lru(self))
  IN [i \in 1..m |-> key[lru(self)[Len(lru(self)) - m + i]]]
=============================================================================
