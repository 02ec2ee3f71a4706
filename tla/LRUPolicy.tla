------------------------------ MODULE LRUPolicy ------------------------------
(***************************************************************************)
(* What a cache with LRU replacement and pinning promises its client, in   *)
(* terms of keys only: which keys are in the cache, how often each is      *)
(* pinned, and in which order the unpinned ones were last used.  There are *)
(* no nodes, no lists and no reference counts.                             *)
(***************************************************************************)
EXTENDS Naturals

CONSTANTS Key, NoKey, Size

VARIABLES
  unpinned,  \* the keys in the cache that are not pinned
  pinned,    \* how many times each key is pinned
  older,     \* <<j, k>>: unpinned j was used before unpinned k
  room,      \* how many keys can come in before one must be evicted
  answer     \* the last call and the key it answered with, if any

policyVars == <<unpinned, pinned, older, room, answer>>

resident == unpinned \cup {k \in Key : pinned[k] > 0}

Init ==
  /\ unpinned = {}
  /\ pinned = [k \in Key |-> 0]
  /\ older = {}
  /\ room = Size
  /\ answer = [op |-> "none", key |-> NoKey]

Answer(op, k) == answer' = [op |-> op, key |-> k]

(* The unpinned keys become U, and k (if any) is the most recently used.   *)
Order(U, k) ==
  /\ unpinned' = U
  /\ older' = {p \in older : {p[1], p[2]} \subseteq U \ {k}}
                \cup {<<j, k>> : j \in IF k \in U THEN U \ {k} ELSE {}}

(* A key in the cache is used.                                             *)
Use(k, pin) ==
  /\ k \in resident
  /\ \/ pin /\ pinned' = [pinned EXCEPT ![k] = @ + 1] /\ Order(unpinned \ {k}, NoKey)
     \/ ~pin /\ k \in unpinned /\ Order(unpinned, k) /\ UNCHANGED pinned
     \/ ~pin /\ pinned[k] > 0 /\ UNCHANGED <<unpinned, older, pinned>>
  /\ UNCHANGED room

(* A new key comes in; the keys of Rest are the unpinned ones that stay.   *)
Enter(k, pin, Rest) ==
  IF pin
  THEN Order(Rest, NoKey) /\ pinned' = [pinned EXCEPT ![k] = 1]
  ELSE Order(Rest \cup {k}, k) /\ UNCHANGED pinned

LeastRecent(k) == k \in unpinned /\ \A j \in unpinned : <<j, k>> \notin older

Hit(op, k, pin) == Use(k, pin) /\ Answer(op, k)
Miss(k) == k \notin resident /\ Answer("lookup", NoKey) /\ UNCHANGED <<unpinned, pinned, older, room>>

(* There is room: nothing is evicted.                                      *)
Add(k, pin) ==
  /\ k \notin resident /\ room > 0
  /\ Enter(k, pin, unpinned)
  /\ room' = room - 1
  /\ Answer("insert", k)

(* No room: the least recently used unpinned key is evicted.               *)
Replace(k, pin) ==
  /\ k \notin resident /\ room = 0
  /\ \E victim \in unpinned : LeastRecent(victim) /\ Enter(k, pin, unpinned \ {victim})
  /\ UNCHANGED room
  /\ Answer("insert", k)

(* Everything is pinned: the only case in which an insert fails.           *)
Full(k) ==
  /\ k \notin resident /\ room = 0 /\ unpinned = {}
  /\ Answer("insert", NoKey)
  /\ UNCHANGED <<unpinned, pinned, older, room>>

Release(k) ==
  /\ pinned[k] > 0
  /\ pinned' = [pinned EXCEPT ![k] = @ - 1]
  /\ IF pinned[k] = 1 THEN Order(unpinned \cup {k}, k) ELSE UNCHANGED <<unpinned, older>>
  /\ UNCHANGED room /\ Answer("none", NoKey)

(* Erasing takes a slot away with the key, installing brings one with it.  *)
Erase(k) ==
  /\ k \in unpinned /\ Order(unpinned \ {k}, NoKey)
  /\ UNCHANGED <<pinned, room>> /\ Answer("erase", k)

EraseFails == Answer("erase", NoKey) /\ UNCHANGED <<unpinned, pinned, older, room>>

Install(k) ==
  /\ k \notin resident /\ Order(unpinned \cup {k}, k)
  /\ UNCHANGED <<pinned, room>> /\ Answer("install", k)

Next ==
  \/ EraseFails
  \/ \E k \in Key :
       \/ Miss(k) \/ Full(k) \/ Release(k) \/ Erase(k) \/ Install(k)
       \/ Use(k, TRUE) /\ Answer("none", NoKey)
       \/ \E pin \in BOOLEAN :
            Hit("insert", k, pin) \/ Hit("lookup", k, pin) \/ Add(k, pin) \/ Replace(k, pin)

Spec == Init /\ [][Next]_policyVars
=============================================================================
