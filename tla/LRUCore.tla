------------------------------- MODULE LRUCore -------------------------------
(***************************************************************************)
(* The member functions of class LRUCache (lru_cache.h) over the nodes of  *)
(* node.h.  A cache is identified by a tag: a stand-alone cache is the     *)
(* only tag there is, the tenants of a SharedCache are several tags over   *)
(* one node pool and one hash table (init_from).                           *)
(*                                                                         *)
(* Abstractions:                                                           *)
(*  - a circular doubly linked list is the sequence of its nodes, oldest   *)
(*    (head.next) first;                                                   *)
(*  - NodeTable is the function from a key to the node its look-up finds;  *)
(*  - a node's value stays with the node, so it is the node's identity;    *)
(*  - an assert(...) on the arguments of a call is a precondition.         *)
(***************************************************************************)
EXTENDS Integers, SequencesExt

CONSTANTS
  Tag,     \* the caches that share one table_
  Key,     \* the keys the clients use
  Node,    \* every node there can be: the pool's and those install allocates
  pool,    \* pool[t] is the part of pool_ given to cache t by init/init_from
  NoKey,   \* the key of a node init(key, hash) was never called on
  Nil      \* nullptr

Kind == {"lru", "in_use", "free", "erased"}
PoolNodes == UNION {Range(pool[t]) : t \in Tag}

(* Distinct caches get disjoint, non-empty slices of the pool.             *)
ASSUME PoolAssumption ==
  /\ pool \in [Tag -> Seq(Node)]
  /\ \A t \in Tag : Len(pool[t]) > 0
  /\ \A t, u \in Tag : \A i \in 1..Len(pool[t]), j \in 1..Len(pool[u]) :
        pool[t][i] = pool[u][j] => t = u /\ i = j

ASSUME NilAssumption == NoKey \notin Key /\ Nil \notin Node

VARIABLES
  list,        \* lru(t) etc.: the four lists of cache t
  size,        \* size_, the number of nodes of cache t in the table
  capacity,    \* capacity_
  key,         \* key of each node
  refs,        \* refs of each node
  table,       \* the hash table: the node lookup(k) returns, or Nil
  extra_pool   \* the nodes install allocated (all caches together)

coreVars == <<list, size, capacity, key, refs, table, extra_pool>>

(***************************************************************************)
(* init / init_from: the slice of the pool becomes the free list, in pool  *)
(* order.  refs is not initialized there; no function reads it before      *)
(* LRUNode::init has written it, so its first value does not matter.       *)
(***************************************************************************)
CoreInit ==
  /\ list = [L \in Tag \X Kind |-> IF L[2] = "free" THEN pool[L[1]] ELSE <<>>]
  /\ size = [t \in Tag |-> 0]
  /\ capacity = [t \in Tag |-> Len(pool[t])]
  /\ key = [e \in Node |-> NoKey]
  /\ refs = [e \in Node |-> 0]
  /\ table = [k \in Key |-> Nil]
  /\ extra_pool = {}

-----------------------------------------------------------------------------
(* The four lists of cache t: lru_, in_use_, free_ and erased_.            *)

lru(t) == list[<<t, "lru">>]
in_use(t) == list[<<t, "in_use">>]
free(t) == list[<<t, "free">>]
erased(t) == list[<<t, "erased">>]

(* List surgery.  list_remove unlinks e from whatever list it is in: the   *)
(* code does not name the list either.                                     *)

list_remove(l, e) == [L \in DOMAIN l |-> RemoveFirst(l[L], e)]
list_append(l, L, e) == [l EXCEPT ![L] = Append(@, e)]
move(l, L, e) == list_append(list_remove(l, e), L, e)

-----------------------------------------------------------------------------
(* ref, unref, lru_refresh, lookup_refresh.                                *)

(* Mutants (not part of the model): a list_remove or a count forgotten.    *)
ref_once(t, e) ==
  /\ list' = IF refs[e] = 1 THEN move(list, <<t, "in_use">>, e) ELSE list
  /\ refs' = [refs EXCEPT ![e] = 2]
unref_no_remove(t, e) ==
  /\ refs' = [refs EXCEPT ![e] = @ - 1]
  /\ list' = IF refs[e] = 2 THEN list_append(list, <<t, "lru">>, e) ELSE list

ref(t, e) ==
  /\ list' = IF refs[e] = 1 THEN move(list, <<t, "in_use">>, e) ELSE list
  /\ refs' = [refs EXCEPT ![e] = @ + 1]

unref(t, e) ==
  /\ refs' = [refs EXCEPT ![e] = @ - 1]
  /\ list' = CASE refs[e] = 1 -> list_append(list, <<t, "free">>, e)
               [] refs[e] = 2 -> move(list, <<t, "lru">>, e)
               [] OTHER -> list

(* Mutant: FIFO instead of LRU order.                                      *)
lru_refresh_fifo(t, e) == UNCHANGED list

(* Moving the newest node to the newest place changes nothing, which is    *)
(* the early return of lru_refresh.                                        *)
lru_refresh(t, e) == list' = move(list, <<t, "lru">>, e)

lookup_refresh(t, e, pin) ==
  /\ \/ pin /\ ref(t, e)
     \/ ~pin /\ refs[e] = 1 /\ lru_refresh(t, e) /\ UNCHANGED refs
     \/ ~pin /\ refs[e] # 1 /\ UNCHANGED <<list, refs>>
  /\ UNCHANGED <<size, capacity, key, table, extra_pool>>

-----------------------------------------------------------------------------
(* alloc_node takes the first free node, else the oldest node of the LRU   *)
(* list, which then leaves the table.                                      *)

(* Mutants: no eviction; an eviction from the first cache that has a node  *)
(* to evict; one that leaves the table or size_ as it was.                 *)
CanAlloc_free_only(t) == free(t) # <<>>
alloc_node_any(t) ==
  IF free(t) = <<>> THEN Head(lru(CHOOSE u \in Tag : lru(u) # <<>>)) ELSE Head(free(t))
AllocTable_stale(t) == table
AllocSize_stale(t) == size[t]

CanAlloc(t) == free(t) # <<>> \/ lru(t) # <<>>
Evicts(t) == free(t) = <<>>
alloc_node(t) == IF Evicts(t) THEN Head(lru(t)) ELSE Head(free(t))
AllocTable(t) == IF Evicts(t) THEN [table EXCEPT ![key[alloc_node(t)]] = Nil] ELSE table
AllocSize(t) == IF Evicts(t) THEN size[t] - 1 ELSE size[t]

(* Mutant: ++refs forgotten when the new node is pinned.                   *)
insert_new_unpinned(t, k, pin, r) ==
  /\ CanAlloc(t)
  /\ r = alloc_node(t)
  /\ key' = [key EXCEPT ![r] = k]
  /\ refs' = [refs EXCEPT ![r] = 1]
  /\ table' = [AllocTable(t) EXCEPT ![k] = r]
  /\ list' = move(list, <<t, IF pin THEN "in_use" ELSE "lru">>, r)
  /\ size' = [size EXCEPT ![t] = AllocSize(t) + 1]
  /\ UNCHANGED <<capacity, extra_pool>>

(* The second half of insert_impl and of refresh: the key is not in the    *)
(* table, the node r is allocated, initialized, and linked.                *)
insert_new(t, k, pin, r) ==
  /\ CanAlloc(t)
  /\ r = alloc_node(t)
  /\ key' = [key EXCEPT ![r] = k]
  /\ refs' = [refs EXCEPT ![r] = IF pin THEN 2 ELSE 1]
  /\ table' = [AllocTable(t) EXCEPT ![k] = r]
  /\ list' = move(list, <<t, IF pin THEN "in_use" ELSE "lru">>, r)
  /\ size' = [size EXCEPT ![t] = AllocSize(t) + 1]
  /\ UNCHANGED <<capacity, extra_pool>>

alloc_fails(t, r) == ~CanAlloc(t) /\ r = Nil /\ UNCHANGED coreVars

(* insert_impl returns r.  hint_nonexist only skips the look-up, under the *)
(* assertion that it would have failed.                                    *)
insert_impl(t, k, pin, r) ==
  \/ r = table[k] /\ r # Nil /\ lookup_refresh(t, r, pin)
  \/ /\ table[k] = Nil
     /\ insert_new(t, k, pin, r) \/ alloc_fails(t, r)

lookup_impl(t, k, pin, r) ==
  \/ r = table[k] /\ r # Nil /\ lookup_refresh(t, r, pin)
  \/ table[k] = Nil /\ r = Nil /\ UNCHANGED coreVars

(* refresh, for GhostCache: no node is ever pinned.                        *)
refresh(t, k, r) ==
  \/ /\ r = table[k] /\ r # Nil
     /\ lru_refresh(t, r)
     /\ UNCHANGED <<size, capacity, key, refs, table, extra_pool>>
  \/ /\ table[k] = Nil
     /\ insert_new(t, k, FALSE, r) \/ alloc_fails(t, r)

-----------------------------------------------------------------------------
(* release, pin, erase, install on a handle; preempt and assign are used   *)
(* by SharedCache::relocate.                                               *)

release_handle(t, e) ==
  unref(t, e) /\ UNCHANGED <<size, capacity, key, table, extra_pool>>

pin_handle(t, e) ==
  ref(t, e) /\ UNCHANGED <<size, capacity, key, table, extra_pool>>

(* Mutants: the test refs != 1 of erase weakened to refs > 1 and to refs == 0. *)
Erasable_twice(e) == refs[e] <= 1
Erasable_pinned(e) == refs[e] >= 1

Erasable(e) == refs[e] = 1

(* Mutant: the erased node goes to the free list, as unref would put it.   *)
erase_to_free(t, e, ok) ==
  /\ ok = Erasable(e)
  /\ IF ok
     THEN /\ list' = move(list, <<t, "free">>, e)
          /\ refs' = [refs EXCEPT ![e] = @ - 1]
          /\ table' = [table EXCEPT ![key[e]] = Nil]
          /\ size' = [size EXCEPT ![t] = @ - 1]
          /\ UNCHANGED <<key, capacity, extra_pool>>
     ELSE UNCHANGED coreVars

(* erase returns ok.  It trusts refs: a node with refs = 1 is taken to be  *)
(* on the LRU list of this cache.                                          *)
erase_handle(t, e, ok) ==
  /\ ok = Erasable(e)
  /\ IF ok
     THEN /\ list' = move(list, <<t, "erased">>, e)
          /\ refs' = [refs EXCEPT ![e] = @ - 1]
          /\ table' = [table EXCEPT ![key[e]] = Nil]
          /\ size' = [size EXCEPT ![t] = @ - 1]
          /\ capacity' = [capacity EXCEPT ![t] = @ - 1]
          /\ UNCHANGED <<key, extra_pool>>
     ELSE UNCHANGED coreVars

(* install_impl reuses the oldest erased node, else allocates a new one.   *)
install_node(t, r) ==
  IF erased(t) = <<>>
  THEN r \in Node \ (PoolNodes \cup extra_pool)
  ELSE r = Head(erased(t))

install_impl(t, k, r) ==
  /\ install_node(t, r)
  /\ extra_pool' = IF erased(t) = <<>> THEN extra_pool \cup {r} ELSE extra_pool
  /\ key' = [key EXCEPT ![r] = k]
  /\ refs' = [refs EXCEPT ![r] = 1]
  /\ table' = [table EXCEPT ![k] = r]
  /\ list' = move(list, <<t, "lru">>, r)
  /\ size' = [size EXCEPT ![t] = @ + 1]
  /\ capacity' = [capacity EXCEPT ![t] = @ + 1]

-----------------------------------------------------------------------------
(* Properties of the shared state of the caches.                           *)

On(t, kind) == Range(list[<<t, kind>>])
Resident(t) == On(t, "lru") \cup On(t, "in_use")

(* Types.  refs and size are natural numbers: no call decrements one that  *)
(* is zero, which in the code would wrap around.                           *)
CoreTypeOK ==
  /\ list \in [Tag \X Kind -> Seq(Node)]
  /\ size \in [Tag -> Nat]
  /\ capacity \in [Tag -> Nat]
  /\ key \in [Node -> Key \cup {NoKey}]
  /\ refs \in [Node -> Nat]
  /\ table \in [Key -> Node \cup {Nil}]
  /\ extra_pool \in SUBSET (Node \ PoolNodes)

(* No node is linked twice: not in two lists, not twice in one (node.h:    *)
(* "in one list or the other, and never both").                            *)
LinkedOnce ==
  \A L, M \in Tag \X Kind : \A i \in 1..Len(list[L]), j \in 1..Len(list[M]) :
     list[L][i] = list[M][j] => L = M /\ i = j

(* Every node of the pool and of extra_pool_ is on a list: none leaks from *)
(* the circulation, whatever the order of evictions, erases and installs.  *)
NoLeak == PoolNodes \cup extra_pool = UNION {On(t, kind) : t \in Tag, kind \in Kind}

(* Every node is linked exactly once.                                      *)
OneList == LinkedOnce /\ NoLeak

(* The hash table finds exactly the nodes of the LRU and in-use lists, each *)
(* under its key: no stale entry survives an eviction, an erase or a reuse. *)
TableAgrees ==
  /\ \A k \in Key : table[k] # Nil =>
        key[table[k]] = k /\ \E t \in Tag : table[k] \in Resident(t)
  /\ \A t \in Tag : \A e \in Resident(t) : key[e] \in Key /\ table[key[e]] = e

(* refs tells the list a node is on: every function of lru_cache.h trusts  *)
(* it instead of looking at the list.                                      *)
RefState ==
  \A t \in Tag :
    /\ \A e \in On(t, "lru") : refs[e] = 1
    /\ \A e \in On(t, "in_use") : refs[e] > 1
    /\ \A e \in On(t, "erased") : refs[e] = 0

(* size_ and capacity_ count the nodes on the lists.                       *)
Counts ==
  \A t \in Tag :
    /\ size[t] = Len(lru(t)) + Len(in_use(t))
    /\ capacity[t] = size[t] + Len(free(t))

CoreInv == OneList /\ TableAgrees /\ RefState /\ Counts
=============================================================================
