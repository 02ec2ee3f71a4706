------------------------------ MODULE ARCCache ------------------------------
(***************************************************************************)
(* class ARC_cache (arc_cache.h): adaptive replacement.  A cache is the    *)
(* record of its data members, and a member function the operator that     *)
(* returns the cache after the call, so that ARCMrc can keep many of them. *)
(* T1 holds the keys used once, T2 those used more often; B1 and B2        *)
(* remember the keys that were evicted from them.  p is the target size of *)
(* T1.  A std::list is the sequence of its elements, front first; in_ghost *)
(* is the set of the keys the map of that name holds true for; a uint32_t  *)
(* is a number modulo Word.  stat_ev_t1 and stat_ev_t2 are never counted.  *)
(***************************************************************************)
EXTENDS Integers, SequencesExt

CONSTANTS
  Key,
  Word        \* 2^32: the values of a uint32_t are 0..Word-1

ARC_cache(capacity) ==
  [capacity |-> capacity, T1 |-> <<>>, T2 |-> <<>>, B1 |-> <<>>, B2 |-> <<>>, p |-> 0,
   in_ghost |-> {}, stat_hit |-> 0, stat_miss |-> 0, stat_ev |-> 0]

-----------------------------------------------------------------------------
max(a, b) == IF a > b THEN a ELSE b
min(a, b) == IF a < b THEN a ELSE b
inc(n) == (n + 1) % Word

push_front(s, k) == <<k>> \o s
back(s) == Last(s)
pop_back(s) == Front(s)
without(s, k) == RemoveFirst(s, k)   \* find, then erase unless it is end()

cached(c) == Range(c.T1) \cup Range(c.T2)
ghosts(c) == Range(c.B1) \cup Range(c.B2)
actual_size(c) == Len(c.T1) + Len(c.T2)
all_size(c) == actual_size(c) + Len(c.B1) + Len(c.B2)

(* Mutant: the eviction is not counted.                                    *)
evict_uncounted(c, T, B) ==
  [c EXCEPT ![T] = pop_back(@), ![B] = push_front(@, back(c[T])),
            !.in_ghost = @ \cup {back(c[T])}]

(* The oldest key of list T is evicted and remembered in list B.           *)
evict(c, T, B) ==
  [c EXCEPT ![T] = pop_back(@), ![B] = push_front(@, back(c[T])),
            !.in_ghost = @ \cup {back(c[T])}, !.stat_ev = inc(@)]

(* Mutant: the forgotten key stays marked as a ghost.                      *)
forget_unmarked(c, B) == [c EXCEPT ![B] = pop_back(@)]

(* The oldest key of ghost list B is forgotten.                            *)
forget(c, B) == [c EXCEPT ![B] = pop_back(@), !.in_ghost = @ \ {back(c[B])}]

replace(c, in_b2) ==
  LET from_T1 == c.T1 # <<>> /\ (Len(c.T1) > c.p \/ (in_b2 /\ Len(c.T1) = c.p))
  IN CASE from_T1 -> evict(c, "T1", "B1")
       [] ~from_T1 /\ c.T2 # <<>> -> evict(c, "T2", "B2")
       [] OTHER -> c

-----------------------------------------------------------------------------
(* Case 1: a hit.  The key moves to the front of T2.                       *)
hit(c, k) ==
  [c EXCEPT !.T1 = without(@, k), !.T2 = push_front(without(@, k), k), !.stat_hit = inc(@)]

(* Mutant: no wrap, no clamp.                                              *)
smaller_p_signed(c) == c.p - max(1, Len(c.B1) \div Len(c.B2))

(* The target after a hit in B1, and after one in B2.                      *)
larger_p(c) == min((c.p + max(1, Len(c.B2) \div Len(c.B1))) % Word, c.capacity)
smaller_p(c) == max((c.p - max(1, Len(c.B1) \div Len(c.B2))) % Word, 0)

(* Mutant: a hit in a ghost list counts as no access.                      *)
ghost_hit_uncounted(c, k) ==
  LET in_b2 == k \notin Range(c.B1)
      s == replace([c EXCEPT !.p = IF in_b2 THEN smaller_p(c) ELSE larger_p(c)], in_b2)
  IN [s EXCEPT !.T2 = push_front(@, k), !.B1 = without(@, k), !.B2 = without(@, k),
               !.in_ghost = @ \ {k}]

(* Cases 2 and 3: the key is remembered in B1, or else in B2.              *)
ghost_hit(c, k) ==
  LET in_b2 == k \notin Range(c.B1)
      s == replace([c EXCEPT !.p = IF in_b2 THEN smaller_p(c) ELSE larger_p(c)], in_b2)
  IN [s EXCEPT !.T2 = push_front(@, k), !.B1 = without(@, k), !.B2 = without(@, k),
               !.in_ghost = @ \ {k}, !.stat_miss = inc(@)]

(* The tests of case 4; mutants: the first two with a bound off by one.    *)
cache_full_early(c) == all_size(c) + 1 >= c.capacity
first_half_full_late(c) == Len(c.T1) + Len(c.B1) = c.capacity + 1
cache_full_late(c) == all_size(c) > c.capacity

first_half_full(c) == Len(c.T1) + Len(c.B1) = c.capacity
cache_full(c) == all_size(c) >= c.capacity
directory_full(c) == all_size(c) = 2 * c.capacity

(* Cases 4A and 4B: what makes place for a new key.                        *)
make_place(c) ==
  CASE first_half_full(c) /\ Len(c.T1) < c.capacity -> replace(forget(c, "B1"), FALSE)
    [] first_half_full(c) /\ Len(c.T1) >= c.capacity ->
         [c EXCEPT !.T1 = pop_back(@), !.stat_ev = inc(@)]
    [] ~first_half_full(c) /\ cache_full(c) ->
         replace(IF directory_full(c) THEN forget(c, "B2") ELSE c, FALSE)
    [] OTHER -> c

new_key(c, k) == [make_place(c) EXCEPT !.T1 = push_front(@, k), !.stat_miss = inc(@)]

access(c, k) ==
  CASE k \in cached(c) -> hit(c, k)
    [] k \in c.in_ghost \ cached(c) -> ghost_hit(c, k)
    [] OTHER -> new_key(c, k)

(* A new key makes access call pop_back on an empty list, which is         *)
(* undefined: it frees the list's own head.  This is so of T1 when the     *)
(* capacity is 0, and of B2 when the directory is full without it.         *)
undefined(c, k) ==
  /\ k \notin cached(c) \cup c.in_ghost
  /\ \/ c.capacity = 0
     \/ ~first_half_full(c) /\ directory_full(c) /\ c.B2 = <<>>

rst_stat(c) == [c EXCEPT !.stat_hit = 0, !.stat_miss = 0, !.stat_ev = 0]

-----------------------------------------------------------------------------
CacheType ==
  [capacity : 0..(Word - 1),
   T1 : Seq(Key), T2 : Seq(Key), B1 : Seq(Key), B2 : Seq(Key), p : 0..(Word - 1),
   in_ghost : SUBSET Key,
   stat_hit : 0..(Word - 1), stat_miss : 0..(Word - 1), stat_ev : 0..(Word - 1)]

(* No key is in two lists, or twice in one.                                *)
DisjointLists(c) ==
  /\ IsInjective(c.T1) /\ IsInjective(c.T2) /\ IsInjective(c.B1) /\ IsInjective(c.B2)
  /\ Range(c.T1) \cap Range(c.T2) = {} /\ Range(c.B1) \cap Range(c.B2) = {}
  /\ cached(c) \cap ghosts(c) = {}

ListsAgreeIn(c) == DisjointLists(c) /\ c.in_ghost = ghosts(c)

DirectoryBoundOf(c) == Len(c.T1) + Len(c.B1) <= c.capacity /\ all_size(c) <= 2 * c.capacity
=============================================================================
