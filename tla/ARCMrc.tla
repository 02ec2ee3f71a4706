------------------------------- MODULE ARCMrc -------------------------------
(***************************************************************************)
(* class ARC_mrc (arc_cache.h): the miss-ratio curve as one ARC_cache per  *)
(* size, each of which sees every access.  The constructor's loop adds the *)
(* points one after the other; access and reset_stat are the calls after   *)
(* it.  add_point and rm_point are private and never called.               *)
(***************************************************************************)
EXTENDS ARCCache

CONSTANTS
  Args,      \* the arguments the constructor may get, with the keys accessed afterwards
  MaxStat    \* bound: accesses between two calls of reset_stat

(* int init_ticks = (min_ticks + max_ticks) / 2                            *)
init_ticks(a) == ((a.min_ticks + a.max_ticks) % Word) \div 2

(* What the constructor needs of its arguments: it ends only if init_ticks *)
(* is not 0 and the loop variable does not wrap around.                    *)
ASSUME ArgsAssumption ==
  /\ Word \in Nat /\ MaxStat \in Nat /\ MaxStat < Word
  /\ \A a \in Args :
       /\ {a.min_size, a.max_size, a.min_ticks, a.max_ticks} \subseteq 0..(Word - 1)
       /\ a.min_size > 0 /\ init_ticks(a) > 0 /\ a.keys \subseteq Key
       /\ a.max_size + init_ticks(a) <= Word /\ 2 * a.max_size < Word

VARIABLES
  args,        \* min_size, max_size, min_ticks, max_ticks; keys
  cache_list,  \* from the size of each cache to the cache
  i,           \* the loop variable of the constructor
  pc           \* "loop" in the constructor, "made" after it

vars == <<args, cache_list, i, pc>>

Init ==
  /\ args \in Args
  /\ cache_list = <<>>
  /\ i = args.min_size
  /\ pc = "loop"

Sizes == DOMAIN cache_list

(* cache_list.insert leaves a point that is there alone.                   *)
inserted(n) ==
  [s \in Sizes \cup {n} |-> IF s \in Sizes THEN cache_list[s] ELSE ARC_cache(n)]

(* Mutant: the step is not added to the loop variable.                     *)
AddPoint_stuck ==
  /\ pc = "loop" /\ i < args.max_size
  /\ cache_list' = inserted(i)
  /\ UNCHANGED <<args, pc, i>>

(* One iteration.                                                          *)
AddPoint ==
  /\ pc = "loop" /\ i < args.max_size
  /\ cache_list' = inserted(i)
  /\ i' = (i + init_ticks(args)) % Word
  /\ UNCHANGED <<args, pc>>

EndLoop ==
  /\ pc = "loop" /\ i >= args.max_size
  /\ pc' = "made"
  /\ UNCHANGED <<args, cache_list, i>>

Accesses(c) == (c.stat_hit + c.stat_miss) % Word

(* access(key) of every point.                                             *)
Access(k) ==
  /\ pc = "made"
  /\ \A s \in Sizes : Accesses(cache_list[s]) < MaxStat /\ ~undefined(cache_list[s], k)
  /\ cache_list' = [s \in Sizes |-> access(cache_list[s], k)]
  /\ UNCHANGED <<args, i, pc>>

reset_stat ==
  /\ pc = "made"
  /\ cache_list' = [s \in Sizes |-> rst_stat(cache_list[s])]
  /\ UNCHANGED <<args, i, pc>>

Next == AddPoint \/ EndLoop \/ reset_stat \/ \E k \in args.keys : Access(k)

(* The constructor runs to its end; the client need not make any call.     *)
Spec == Init /\ [][Next]_vars /\ WF_vars(AddPoint \/ EndLoop)

-----------------------------------------------------------------------------
(* Types; the fields of a cache have the width the code gives them.        *)
TypeOK ==
  /\ args \in Args
  /\ i \in 0..(Word - 1) /\ pc \in {"loop", "made"}
  /\ \A s \in Sizes : cache_list[s] \in CacheType /\ cache_list[s].capacity = s

(* In every cache of the curve, at any time: a key is in one list at most, *)
(* once, and in_ghost is true for the keys of the ghost lists only.        *)
(* access decides by it that B2 holds the key when B1 does not, and        *)
(* divides by the length of that list.                                     *)
ListsAgree == \A s \in Sizes : ListsAgreeIn(cache_list[s])

(* T1 and B1 together never exceed the size, and all lists never exceed    *)
(* twice the size: the exact tests "== capacity_" and "== 2*capacity_" of  *)
(* case 4 are never jumped over.                                           *)
DirectoryBound == \A s \in Sizes : DirectoryBoundOf(cache_list[s])

(* The points of the curve have counted the same accesses since the last   *)
(* reset_stat, whatever case of access each of them took: their miss rates *)
(* can be compared.                                                        *)
SameAccesses == \A s, u \in Sizes : Accesses(cache_list[s]) = Accesses(cache_list[u])

(* The counters of a cache account for its size: it grows by the misses    *)
(* and shrinks by the evictions stat_ev counts, on every path of access.   *)
Balanced(c, d) ==
  Accesses(d) # 0 =>
    actual_size(d) - actual_size(c) = (d.stat_miss - c.stat_miss) - (d.stat_ev - c.stat_ev)
EvictionBalance == [][\A s \in Sizes : Balanced(cache_list[s], cache_list'[s])]_vars

(* A cache evicts only when it is full: no access costs a key while there  *)
(* is a free page.                                                         *)
EvictsWhenFull ==
  [][\A s \in Sizes :
       cache_list'[s].stat_ev > cache_list[s].stat_ev => actual_size(cache_list[s]) >= s]_vars

(* actual_size() <= capacity(): the cache holds no more keys than its size, *)
(* the size get_miss_rates reports the miss rate for.                      *)
WithinCapacityOf(c) == actual_size(c) <= c.capacity
WithinCapacity == \A s \in Sizes : WithinCapacityOf(cache_list[s])

(* As long as the target p is one the clamps of arc_cache.h:86 and :95     *)
(* mean it to be, no access makes the cache larger than its capacity.      *)
StaysWithin(c, d) ==
  c.p <= c.capacity /\ d.p <= c.capacity /\ WithinCapacityOf(c) => WithinCapacityOf(d)
WithinCapacityIfClamped == [][\A s \in Sizes : StaysWithin(cache_list[s], cache_list'[s])]_vars

(* The constructor ends, and the curve then has one point every init_ticks *)
(* from min_size up to but not at max_size.                                *)
CurveMade ==
  <>(pc = "made" /\
     Sizes = {s \in args.min_size..(args.max_size - 1) :
                (s - args.min_size) % init_ticks(args) = 0})
=============================================================================
