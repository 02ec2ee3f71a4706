-------------------------- MODULE SampledGhostCache --------------------------
(***************************************************************************)
(* class SampledGhostCache (ghost_cache.h): a GhostCache that looks only   *)
(* at the keys whose hash starts with SampleShift zero bits, and is        *)
(* 2^SampleShift times smaller than the sizes its client speaks of.        *)
(*                                                                         *)
(* tick, min_size and max_size of GhostCache are the constructor's         *)
(* arguments shifted right by SampleShift.  The bounds of loops and lists  *)
(* are those of GhostCache.                                                *)
(***************************************************************************)
EXTENDS GhostCache

CONSTANTS
  Hash,          \* the hash of each key
  HashBits,      \* the width of a hash, 32 in the code
  SampleShift    \* how many leading bits must be zero

Unshifted(n) == n * 2^SampleShift

(* The constructor asserts that the bits used for sampling do not overlap  *)
(* those that choose a bucket.  With SampleShift = 0 access would shift by *)
(* the width of the hash, which is undefined.                              *)
ASSUME SampleAssumption ==
  /\ HashBits \in Nat /\ SampleShift \in 1..HashBits
  /\ Hash \in [Key -> 0..(2^HashBits - 1)]
  /\ Unshifted(max_size) <= 2^(HashBits - SampleShift)
  /\ 2^(HashBits - SampleShift) > 0    \* as is every power of two

-----------------------------------------------------------------------------
sampled(k) == Hash[k] \div 2^(HashBits - SampleShift) = 0

SampledAccess(k, mode) == IF sampled(k) THEN Access(k, mode) ELSE UNCHANGED vars

(* get_stat(cache_size), for the sizes its assertions allow.               *)
get_stat_shifted(cache_size) ==
  /\ cache_size \in min_size..max_size /\ (cache_size - min_size) % tick = 0
  /\ GetStat((cache_size - min_size) \div tick)

SampledGetStat(cache_size) == get_stat_shifted(cache_size \div 2^SampleShift)

SampledNext ==
  \/ \E k \in Key, mode \in Mode : SampledAccess(k, mode)
  \/ \E cache_size \in 0..Unshifted(max_size) : SampledGetStat(cache_size)
  \/ PrintStat \/ ResetStat

SampledSpec == Init /\ [][SampledNext]_vars

-----------------------------------------------------------------------------
Caches == INSTANCE PageCaches WITH
  Key <- {k \in Key : Hash[k] < 2^(HashBits - SampleShift)},
  Sizes <- [i \in Idx |-> i * tick + min_size],
  cached <- [i \in Idx |-> NewestKeys(i * tick + min_size)],
  hits <- accum_hit_cnt,
  count <- reuse_count

(* "Only update ghost cache if the first few bits of hash is all zero"     *)
(* (ghost_cache.h:186): it simulates num_ticks LRU caches, each as large   *)
(* as the sampled share of its size, that the sampled keys alone go to -   *)
(* what each holds and how many hits it had, under every access mode.  One *)
(* list with boundaries stands for all of them.                            *)
SimulatesCaches == Caches!Spec
=============================================================================
