----------------------------- MODULE StatReader -----------------------------
(***************************************************************************)
(* A CacheStat (stat.h) of a GhostCache, read by another thread.  The      *)
(* owner of the cache counts accesses, and get_stat copies the counts to   *)
(* hit_cnt and miss_cnt (build_caches_stat) when their sum is out of date. *)
(* The reader calls get_hit_rate on a CacheStat it got earlier.  Nothing   *)
(* orders the two threads ("we don't use atomic here"), so each load and   *)
(* each store is a step; the store of one 64-bit word is not torn.         *)
(***************************************************************************)
EXTENDS Naturals

CONSTANTS
  MaxCount,  \* bound on the accesses between two calls of reset_stat
  Reloads    \* may the build load hit_cnt a second time for the numerator?
             \* An optimized build does not, a Debug build (-O0) does

VARIABLES
  hits, count,         \* the owner's: accum_hit_cnt of the size, reuse_count
  hit_cnt, miss_cnt,   \* the CacheStat
  todo,                \* the stores build_caches_stat has yet to do
  pc,                  \* where the reader is in get_hit_rate
  acc_cnt, numerator   \* what it has loaded

memory == <<hit_cnt, miss_cnt>>
reader == <<pc, acc_cnt, numerator>>
vars == <<hits, count, memory, todo, reader>>

Init ==
  /\ hits = 0 /\ count = 0 /\ hit_cnt = 0 /\ miss_cnt = 0 /\ todo = {}
  /\ pc = "idle" /\ acc_cnt = 0 /\ numerator = 0

-----------------------------------------------------------------------------
(* The owner.                                                              *)
Access(hit) ==
  /\ todo = {} /\ count < MaxCount
  /\ count' = count + 1
  /\ hits' = IF hit THEN hits + 1 ELSE hits
  /\ UNCHANGED <<memory, todo, reader>>

ResetStat ==
  /\ todo = {}
  /\ hits' = 0 /\ count' = 0
  /\ UNCHANGED <<memory, todo, reader>>

(* get_stat, when the statistics are out of date.                          *)
GetStat ==
  /\ todo = {} /\ hit_cnt + miss_cnt # count
  /\ todo' = {"hit_cnt", "miss_cnt"}
  /\ UNCHANGED <<hits, count, memory, reader>>

(* The stores of build_caches_stat, in either order.                       *)
Store(member) ==
  /\ member \in todo
  /\ todo' = todo \ {member}
  /\ IF member = "hit_cnt"
     THEN hit_cnt' = hits /\ UNCHANGED miss_cnt
     ELSE miss_cnt' = count - hits /\ UNCHANGED hit_cnt
  /\ UNCHANGED <<hits, count, reader>>

-----------------------------------------------------------------------------
(* The reader in get_hit_rate: acc_cnt = hit_cnt + miss_cnt, and unless it *)
(* is 0 the quotient of hit_cnt, loaded before or now, and acc_cnt.        *)
LoadHit ==
  /\ pc \in {"idle", "done"} /\ pc' = "hit"
  /\ acc_cnt' = hit_cnt /\ numerator' = hit_cnt
  /\ UNCHANGED <<hits, count, memory, todo>>

LoadMiss ==
  /\ pc = "hit"
  /\ acc_cnt' = acc_cnt + miss_cnt
  /\ pc' = IF acc_cnt' = 0 THEN "idle" ELSE "acc"
  /\ UNCHANGED <<hits, count, memory, todo, numerator>>

Divide ==
  /\ pc = "acc" /\ pc' = "done"
  /\ \E reload \in Reloads : numerator' = IF reload THEN hit_cnt ELSE numerator
  /\ UNCHANGED <<hits, count, memory, todo, acc_cnt>>

Next ==
  \/ \E hit \in BOOLEAN : Access(hit)
  \/ ResetStat \/ GetStat \/ Store("hit_cnt") \/ Store("miss_cnt")
  \/ LoadHit \/ LoadMiss \/ Divide

Spec == Init /\ [][Next]_vars

-----------------------------------------------------------------------------
(* "most inaccuracy is tolerable, unless it produces a unreasonable value, *)
(* e.g., hit_rate > 100%" (stat.h:19-20).                                  *)
ReasonableRate == pc = "done" => numerator <= acc_cnt
=============================================================================
