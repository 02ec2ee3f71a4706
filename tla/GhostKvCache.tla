----------------------------- MODULE GhostKvCache -----------------------------
(***************************************************************************)
(* class SampledGhostKvCache (ghost_kv_cache.h) over SampledGhostCache:    *)
(* the keys are the hashes of the client's keys (idhash).  Each node also  *)
(* carries the size of the key-value pair, from which the curve gives the  *)
(* space that the pairs of a cache of each count need.  Sizes and counts   *)
(* are uint32_t.                                                           *)
(***************************************************************************)
EXTENDS SampledGhostCache

CONSTANTS
  KvSize,        \* the sizes the client passes
  Word           \* 2^32

ASSUME KvAssumption == KvSize \subseteq Nat /\ Word \in Nat \ {0}

(* What Hash is here: the keys are hashes already.                         *)
idhash == [key_hash \in Key |-> key_hash]

VARIABLES
  kv_size,   \* value.kv_size of each node
  curve,     \* the counts and sizes get_cache_stat_curve just returned
  given      \* the size of each key's last sampled access

kvVars == <<kv_size, curve, given>>

KvInit ==
  /\ Init
  /\ kv_size = [e \in Node |-> 0]
  /\ curve = {}
  /\ given = [h \in Key |-> 0]

-----------------------------------------------------------------------------
(* Mutant: a pair keeps the size of its first access.                      *)
sized_first(h, key_hash, bytes) ==
  IF table[key_hash] = Nil THEN [kv_size EXCEPT ![h] = bytes] ELSE kv_size

sized(h, key_hash, bytes) == [kv_size EXCEPT ![h] = bytes]

AccessKv(key_hash, bytes, mode) ==
  /\ curve' = {}
  /\ IF sampled(key_hash)
     THEN /\ Access(key_hash, mode)
          /\ kv_size' = sized(table'[key_hash], key_hash, bytes)
          /\ given' = [given EXCEPT ![key_hash] = bytes]
     ELSE UNCHANGED <<vars, kv_size, given>>

-----------------------------------------------------------------------------
(* The sum of kv_size of the n newest nodes, MRU first in the code.        *)
curr_size(n) ==
  FoldFunctionOnSet(+, 0, [i \in 1..Len(lru(self)) |-> kv_size[lru(self)[i]]],
                    (Len(lru(self)) - n + 1)..Len(lru(self)))

(* The counts a point is emitted for.  curr_count - min_size is unsigned.  *)
Emitted == {n \in 1..Len(lru(self)) : ((n - min_size) % Word) % tick = 0}

Shifted(n) == Unshifted(n) % Word

(* Each point asks for its statistics.  An index beyond caches_stat is     *)
(* undefined in a release build (and stops a debug build): what is read    *)
(* there may or may not look outdated.                                     *)
GetCurve ==
  /\ curve' = {[count |-> Shifted(n), size |-> Shifted(curr_size(n))] : n \in Emitted}
  /\ \E beyond \in IF \E n \in Emitted : n < min_size THEN BOOLEAN ELSE {FALSE} :
       caches_stat' = IF \/ beyond
                         \/ \E n \in Emitted : n >= min_size /\ Outdated((n - min_size) \div tick)
                      THEN built_stat ELSE caches_stat
  /\ query' = NoQuery
  /\ UNCHANGED <<coreVars, size_idx, boundaries, reuse_distances, reuse_count, asked, kv_size, given>>

Unsized(A) == A /\ curve' = {} /\ UNCHANGED <<kv_size, given>>

KvNext ==
  \/ \E h \in Key, bytes \in KvSize, mode \in Mode : AccessKv(h, bytes, mode)
  \/ \E count \in 0..Unshifted(max_size) : Unsized(SampledGetStat(count))
  \/ Unsized(ResetStat)
  \/ GetCurve

KvSpec == KvInit /\ [][KvNext]_<<vars, kvVars>>

-----------------------------------------------------------------------------
(* The curve has a point for each simulated count that is full, and its    *)
(* size is that of the pairs a cache of this count holds, each as large as *)
(* the client last said: also after nodes were recycled for other keys.    *)
CurveExact ==
  curve # {} =>
    curve = {[count |-> Shifted(n),
              size |-> Shifted(FoldFunction(+, 0, [i \in 1..n |-> given[NewestKeys(n)[i]]]))] :
             n \in {i * tick + min_size : i \in Idx} \cap 0..Len(lru(self))}

(* "assert(cache_size >= min_size)" (ghost_cache.h:95): the curve asks for *)
(* the statistics of simulated counts only.                                *)
CurveAsksSimulated == \A point \in curve : point.count >= Shifted(min_size)
=============================================================================
