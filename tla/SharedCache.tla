----------------------------- MODULE SharedCache -----------------------------
(***************************************************************************)
(* class SharedCache (shared_cache.h): the caches of several tenants over  *)
(* one node pool and one hash table, and the client that calls it.  The    *)
(* cache of a tenant is the cache of LRUCore with the tenant's tag.  Every *)
(* node also carries a tag: insert and install write it, look-up, release, *)
(* pin and erase trust it to find the cache a handle belongs to.           *)
(***************************************************************************)
EXTENDS LRUCore

CONSTANTS
  NoTag,         \* the tag of a node set_tag was never called on
  MaxRefs,       \* bound on refs
  MaxMove,       \* bound on the size asked of relocate
  StaleHandles   \* may the client erase a handle whose node was preempted?

(* The tenants are the finite list the constructor is given.               *)
ASSUME SharedAssumption ==
  /\ IsFiniteSet(Tag) /\ NoTag \notin Tag
  /\ MaxRefs \in Nat \ {0} /\ MaxMove \in Nat /\ StaleHandles \in BOOLEAN

VARIABLES
  tag,              \* value.tag of each node
  total_capacity,   \* total_capacity_
  pins,             \* how many pins of each node the client has not released
  ret               \* the last call and the handle it returned

vars == <<coreVars, tag, total_capacity, pins, ret>>

NoRet == [op |-> "none", node |-> Nil]
Op == {"none", "insert", "lookup", "erase", "install", "relocate"}
SumCapacity == SumFunction(capacity)

Init ==
  /\ CoreInit
  /\ tag = [e \in Node |-> NoTag]
  /\ total_capacity = SumCapacity
  /\ pins = [e \in Node |-> 0]
  /\ ret = NoRet

Returns(op, r) == ret' = [op |-> op, node |-> r]
Pinned(pin, r) == pins' = IF pin /\ r # Nil THEN [pins EXCEPT ![r] = @ + 1] ELSE pins
RefsBound(e) == e # Nil => refs[e] < MaxRefs

-----------------------------------------------------------------------------
(* lookup_impl finds the node of any tenant and refreshes it in the cache  *)
(* its tag names.                                                          *)
shared_lookup(k, pin, r) ==
  \/ r = table[k] /\ r # Nil /\ lookup_refresh(tag[r], r, pin)
  \/ table[k] = Nil /\ r = Nil /\ UNCHANGED coreVars

set_tag(r, t) == tag' = [tag EXCEPT ![r] = t]

(* Mutant: a new node keeps the tag of its former tenant.                  *)
tag_new_only(r, t) == tag' = IF tag[r] = NoTag THEN [tag EXCEPT ![r] = t] ELSE tag

tag_inserted(r, t) == set_tag(r, t)

Insert(t, k, pin) ==
  /\ pin => RefsBound(table[k])
  /\ \E r \in Node \cup {Nil} :
       /\ \/ table[k] # Nil /\ shared_lookup(k, pin, r) /\ UNCHANGED tag
          \/ /\ table[k] = Nil /\ capacity[t] > 0
             /\ \/ insert_new(t, k, pin, r) /\ tag_inserted(r, t)
                \/ alloc_fails(t, r) /\ UNCHANGED tag
       /\ Returns("insert", r) /\ Pinned(pin, r)
  /\ UNCHANGED total_capacity

LookupKey(k, pin) ==
  /\ pin => RefsBound(table[k])
  /\ \E r \in Node \cup {Nil} :
       shared_lookup(k, pin, r) /\ Returns("lookup", r) /\ Pinned(pin, r)
  /\ UNCHANGED <<tag, total_capacity>>

Release(e) ==
  /\ pins[e] > 0
  /\ release_handle(tag[e], e)
  /\ pins' = [pins EXCEPT ![e] = @ - 1]
  /\ ret' = NoRet
  /\ UNCHANGED <<tag, total_capacity>>

Pin(e) ==
  /\ \E t \in Tag : e \in Resident(t)
  /\ RefsBound(e)
  /\ pin_handle(tag[e], e)
  /\ pins' = [pins EXCEPT ![e] = @ + 1]
  /\ ret' = NoRet
  /\ UNCHANGED <<tag, total_capacity>>

(* A handle of a node that relocate preempted and assign put on a free     *)
(* list: refs still has the value it had in the cache.                     *)
Stale(e) == \E t \in Tag : e \in On(t, "free")

Erase(e) ==
  /\ key[e] # NoKey
  /\ StaleHandles \/ ~Stale(e)
  /\ \E ok \in BOOLEAN :
       /\ erase_handle(tag[e], e, ok)
       /\ total_capacity' = IF ok THEN total_capacity - 1 ELSE total_capacity
       /\ Returns("erase", IF ok THEN e ELSE Nil)
  /\ UNCHANGED <<tag, pins>>

Install(t, k) ==
  /\ table[k] = Nil
  /\ \E r \in Node : install_impl(t, k, r) /\ set_tag(r, t) /\ Returns("install", r)
  /\ total_capacity' = total_capacity + 1
  /\ UNCHANGED pins

-----------------------------------------------------------------------------
(* relocate(src, dst, n) preempts up to n nodes of src, free ones first,   *)
(* then the oldest of its LRU list, and assigns each to dst's free list.   *)
(* The number it returns is the number of nodes that moved.                *)

(* Mutants: the nodes preempted from the LRU list stay in the table; assign *)
(* forgets ++capacity_; preempt takes free nodes only.                     *)
EvictedKeys_none(src, v) == {}
MoveCount_free(src, n) == IF n < Len(free(src)) THEN n ELSE Len(free(src))
Moved_unassigned(src, dst, n, v) ==
  [list |-> [list EXCEPT ![<<src, "free">>] = SubSeq(@, n + 1, Len(@)),
                         ![<<src, "lru">>] = SubSeq(@, v + 1, Len(@)),
                         ![<<dst, "free">>] = @ \o SubSeq(free(src) \o lru(src), 1, n)],
   size |-> [size EXCEPT ![src] = @ - v],
   capacity |-> [capacity EXCEPT ![src] = @ - n],
   table |-> [k \in Key |-> IF \E i \in 1..v : k = key[lru(src)[i]] THEN Nil ELSE table[k]]]

Available(src) == free(src) \o lru(src)
MoveCount(src, n) == IF n < Len(Available(src)) THEN n ELSE Len(Available(src))

(* The keys of the v oldest nodes of src's LRU list.                       *)
EvictedKeys(src, v) == {key[lru(src)[i]] : i \in 1..v}

(* n slots move to another tenant; v of them are taken from the LRU list.  *)
Moved(src, dst, n, v) ==
  [list |-> [list EXCEPT ![<<src, "free">>] = SubSeq(@, n + 1, Len(@)),
                         ![<<src, "lru">>] = SubSeq(@, v + 1, Len(@)),
                         ![<<dst, "free">>] = @ \o SubSeq(Available(src), 1, n)],
   size |-> [size EXCEPT ![src] = @ - v],
   capacity |-> [capacity EXCEPT ![src] = @ - n, ![dst] = @ + n],
   table |-> [k \in Key |-> IF k \in EvictedKeys(src, v) THEN Nil ELSE table[k]]]

(* To itself: the free list rotates; if it is empty one node is evicted    *)
(* and then preempted from the free list again and again.                  *)
Rotated(t, n, v) ==
  LET f == SubSeq(Available(t), 1, Len(free(t)) + v)
      r == IF f = <<>> THEN 0 ELSE n % Len(f)
  IN [list |-> [list EXCEPT ![<<t, "free">>] = SubSeq(f, r + 1, Len(f)) \o SubSeq(f, 1, r),
                            ![<<t, "lru">>] = SubSeq(@, v + 1, Len(@))],
      size |-> [size EXCEPT ![t] = @ - v],
      capacity |-> capacity,
      table |-> [k \in Key |-> IF k \in EvictedKeys(t, v) THEN Nil ELSE table[k]]]

Relocated(src, dst, n) ==
  LET m == MoveCount(src, n)
      v == IF m > Len(free(src)) THEN m - Len(free(src)) ELSE 0
  IN IF src # dst THEN Moved(src, dst, m, v)
     ELSE Rotated(src, n, IF free(src) = <<>> /\ v > 0 THEN 1 ELSE 0)

Relocate(src, dst, n) ==
  LET s == Relocated(src, dst, n)
  IN /\ list' = s.list /\ size' = s.size
     /\ capacity' = s.capacity /\ table' = s.table
     /\ ret' = [op |-> "relocate", node |-> Nil]
     /\ UNCHANGED <<key, refs, extra_pool, tag, total_capacity, pins>>

(* The loop itself: preempt (alloc_node and --capacity_), then assign      *)
(* (++capacity_ and free_node).  A loop that breaks changes nothing more.  *)
preempt_assign(src, dst, s) ==
  LET f == s.list[<<src, "free">>]
      l == s.list[<<src, "lru">>]
      e == IF f # <<>> THEN Head(f) ELSE Head(l)
      evicts == f = <<>>
  IN IF f = <<>> /\ l = <<>> THEN s
     ELSE [list |-> move(s.list, <<dst, "free">>, e),
           size |-> IF evicts THEN [s.size EXCEPT ![src] = @ - 1] ELSE s.size,
           capacity |-> [[s.capacity EXCEPT ![src] = @ - 1] EXCEPT ![dst] = @ + 1],
           table |-> IF evicts THEN [s.table EXCEPT ![key[e]] = Nil] ELSE s.table]

RelocateLoop(src, dst, n) ==
  LET loop[i \in 0..n] ==
        IF i = 0
        THEN [list |-> list, size |-> size, capacity |-> capacity, table |-> table]
        ELSE preempt_assign(src, dst, loop[i - 1])
  IN loop[n]

-----------------------------------------------------------------------------
Next ==
  \/ \E t \in Tag, k \in Key : Install(t, k) \/ \E pin \in BOOLEAN : Insert(t, k, pin)
  \/ \E k \in Key, pin \in BOOLEAN : LookupKey(k, pin)
  \/ \E e \in Node : Release(e) \/ Pin(e) \/ Erase(e)
  \/ \E src, dst \in Tag, n \in 0..MaxMove : Relocate(src, dst, n)

Spec == Init /\ [][Next]_vars

-----------------------------------------------------------------------------
(* Types of the whole state; see CoreTypeOK.                               *)
TypeOK ==
  /\ CoreTypeOK
  /\ tag \in [Node -> Tag \cup {NoTag}]
  /\ total_capacity \in Nat
  /\ pins \in [Node -> Nat]
  /\ ret \in [op : Op, node : Node \cup {Nil}]

(* The tag of a node names the cache whose list it is on, also after the   *)
(* node moved to another tenant: every call on a handle relies on it.      *)
TagAgrees ==
  \A t \in Tag : \A e \in Resident(t) \cup On(t, "erased") : tag[e] = t

(* capacity() is the sum of the tenants' capacities, whatever relocate,    *)
(* erase and install did.                                                  *)
TotalCapacity == total_capacity = SumCapacity

(* refs counts the cache's own reference and the unreleased pins.          *)
PinsCounted ==
  \A e \in Node :
    pins[e] = IF \E t \in Tag : e \in Resident(t) THEN refs[e] - 1 ELSE 0

(* A pinned node keeps its key, its tenant and its place in the table: no  *)
(* other tenant's insert and no relocate takes it away.                    *)
PinnedStays ==
  [][\A e \in Node : pins[e] > 0 =>
       key'[e] = key[e] /\ table'[key[e]] = e /\ tag'[e] = tag[e]]_vars

(* An insert for one tenant evicts at most one key, and never a key of     *)
(* another tenant.                                                         *)
Isolates ==
  LET gone == {k \in Key : table[k] # Nil /\ table'[k] = Nil}
  IN ret'.op = "insert" =>
       \A k \in gone : gone = {k} /\ tag[table[k]] = tag'[ret'.node]
TenantIsolation == [][Isolates]_vars

(* "return whether erasing succeeds (fail if not in lru)"                  *)
(* (lru_cache.h:106-107): only a node of an LRU list is ever erased.       *)
EraseOnlyFromLRU ==
  [][\A t \in Tag : \A e \in Range(list'[<<t, "erased">>]) \ On(t, "erased") :
       e \in On(t, "lru")]_vars

(* The closed form above is what the loop of relocate computes.            *)
RelocateIsLoop ==
  \A src, dst \in Tag, n \in 0..MaxMove : Relocated(src, dst, n) = RelocateLoop(src, dst, n)

(* A node that has a key is one of the nodes in circulation.               *)
KeyedKnown == \A e \in Node : key[e] # NoKey => e \in PoolNodes \cup extra_pool

(* The inductive invariant (when the client erases no stale handle).       *)
Inv == TypeOK /\ CoreInv /\ TagAgrees /\ PinsCounted /\ TotalCapacity /\ KeyedKnown
=============================================================================
