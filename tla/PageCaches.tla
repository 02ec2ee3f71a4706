----------------------------- MODULE PageCaches -----------------------------
(***************************************************************************)
(* What a ghost cache simulates (ghost_cache.h: "Simulate a set of page    *)
(* cache"): for each size of a spectrum, a separate cache of that many     *)
(* pages with LRU replacement, and the number of hits each would have had. *)
(***************************************************************************)
EXTENDS Naturals, SequencesExt

CONSTANTS
  Key,
  Sizes,   \* Sizes[i] is the number of pages of cache i
  Mode     \* the access modes

VARIABLES
  cached,  \* the pages in cache i, the least recently used one first
  hits,    \* the hits cache i had since the last reset
  count,   \* the accesses counted since the last reset
  asked    \* the mode of the last access

pageVars == <<cached, hits, count, asked>>

Init ==
  /\ cached = [i \in DOMAIN Sizes |-> <<>>]
  /\ hits = [i \in DOMAIN Sizes |-> 0]
  /\ count = 0
  /\ asked = "NOOP"

(* Cache i, which has no page twice, has k after the access, in the newest *)
(* place.                                                                  *)
Use(i, k) ==
  LET others == RemoveFirst(cached[i], k)
  IN Append(IF Len(others) = Sizes[i] THEN Tail(others) ELSE others, k)

Hit(i, k, mode) == mode = "AS_HIT" \/ (mode = "DEFAULT" /\ k \in Range(cached[i]))

Access(k, mode) ==
  /\ cached' = [i \in DOMAIN Sizes |-> Use(i, k)]
  /\ hits' = [i \in DOMAIN Sizes |-> IF Hit(i, k, mode) THEN hits[i] + 1 ELSE hits[i]]
  /\ count' = IF mode = "NOOP" THEN count ELSE count + 1
  /\ asked' = mode

Reset ==
  /\ hits' = [i \in DOMAIN Sizes |-> 0]
  /\ count' = 0
  /\ UNCHANGED <<cached, asked>>

Next == Reset \/ \E k \in Key, mode \in Mode : Access(k, mode)

Spec == Init /\ [][Next]_pageVars
=============================================================================
