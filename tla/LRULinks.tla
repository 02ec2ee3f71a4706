------------------------------- MODULE LRULinks -------------------------------
(***************************************************************************)
(* A stand-alone LRUCache at the level of its pointers: the circular       *)
(* doubly linked lists with their dummy heads (node.h, lru_cache.h) and    *)
(* the collision chains of the hash table (table.h), which LRUCache        *)
(* abstracts to sequences and to a function.                               *)
(*                                                                         *)
(* The hash stored in a node is that of its key, so find_pointer compares  *)
(* keys only: equal keys have equal hashes.                                *)
(***************************************************************************)
EXTENDS Integers, SequencesExt

CONSTANTS
  Key, Node,
  pool_,      \* the array of nodes init allocates
  Hash,       \* the hash of each key
  NoKey, Nil,
  self,       \* the tag of the cache in LRUCache
  MaxRefs     \* bound on refs, a uint32_t in the code

DummyHead == {"lru_", "in_use_", "free_", "erased_"}
Ptr == Node \cup DummyHead

(* The table has as many buckets as the next power of two of the capacity. *)
bit_ceil(n) == Min({p \in {2^i : i \in 0..n} : p >= n})
length_ == bit_ceil(Len(pool_))
Bucket == 0..(length_ - 1)

ASSUME LinksAssumption ==
  /\ IsInjective(pool_) /\ pool_ \in Seq(Node) /\ pool_ # <<>>
  /\ IsFiniteSet(Node) /\ MaxRefs \in Nat \ {0}
  /\ Hash \in [Key -> Nat]
  /\ length_ \in Nat \ {0}    \* as is every power of two
  /\ Nil \notin Ptr /\ NoKey \notin Key
  /\ Node \cap DummyHead = {} /\ Node \cap Bucket = {}

VARIABLES
  next, prev,   \* of nodes and list heads
  slot,         \* what a Node** of the table points to: list_[b] of a bucket b,
                \* next_hash of a node
  size, capacity, key, refs, extra_pool,
  pins, ret     \* as in LRUCache

vars == <<next, prev, slot, size, capacity, key, refs, extra_pool, pins, ret>>

(* In init the heads of the empty lists point to themselves.  The links of *)
(* a node nobody has written are never read; they are Nil here.            *)
Init ==
  LET n == Len(pool_)
      place(e) == CHOOSE i \in 1..n : pool_[i] = e
  IN /\ next = [q \in Ptr |->
          CASE q = "free_" -> pool_[1]
            [] q \in Range(pool_) -> IF place(q) = n THEN "free_" ELSE pool_[place(q) + 1]
            [] q \in Node \ Range(pool_) -> Nil
            [] OTHER -> q]
     /\ prev = [q \in Ptr |->
          CASE q = "free_" -> pool_[n]
            [] q \in Range(pool_) -> IF place(q) = 1 THEN "free_" ELSE pool_[place(q) - 1]
            [] q \in Node \ Range(pool_) -> Nil
            [] OTHER -> q]
     /\ slot = [q \in Bucket \cup Node |-> Nil]
     /\ size = 0 /\ capacity = n
     /\ key = [e \in Node |-> NoKey]
     /\ refs = [e \in Node |-> 0]
     /\ extra_pool = {}
     /\ pins = [e \in Node |-> 0]
     /\ ret = [op |-> "none", node |-> Nil]

-----------------------------------------------------------------------------
(* Lists.  The assignments are in the order of the code.                   *)
links == [next |-> next, prev |-> prev]
SetLinks(l) == next' = l.next /\ prev' = l.prev
Empty(head) == next[head] = head

list_remove(l, e) ==
  LET prev1 == [l.prev EXCEPT ![l.next[e]] = l.prev[e]]
  IN [next |-> [l.next EXCEPT ![prev1[e]] = l.next[e]], prev |-> prev1]

(* Mutant: the list head keeps its old prev.                               *)
list_append_oneway(l, head, e) ==
  [next |-> [l.next EXCEPT ![e] = head, ![l.prev[head]] = e],
   prev |-> [l.prev EXCEPT ![e] = l.prev[head]]]

list_append(l, head, e) ==
  [next |-> [l.next EXCEPT ![e] = head, ![l.prev[head]] = e],
   prev |-> [l.prev EXCEPT ![e] = l.prev[head], ![head] = e]]

move(head, e) == list_append(list_remove(links, e), head, e)

-----------------------------------------------------------------------------
(* The table.  find_pointer follows the chain of k's bucket to the slot    *)
(* that points to the node of key k, or to the slot at the end.            *)
bucket(k) == Hash[k] % length_

find_pointer(s, k) ==
  LET ptr[i \in 0..Cardinality(Node)] ==
        IF i = 0 THEN bucket(k)
        ELSE LET q == ptr[i - 1]
             IN IF s[q] = Nil \/ key[s[q]] = k THEN q ELSE s[q]
  IN ptr[Cardinality(Node)]

lookup(k) == slot[find_pointer(slot, k)]

table_insert(s, e, k) == [s EXCEPT ![e] = s[bucket(k)], ![bucket(k)] = e]

(* Mutant: the bucket is cleared, with the rest of the chain.              *)
table_remove_chain(s, k) ==
  LET q == find_pointer(s, k) IN IF s[q] = Nil THEN s ELSE [s EXCEPT ![q] = Nil]

table_remove(s, k) ==
  LET q == find_pointer(s, k) IN IF s[q] = Nil THEN s ELSE [s EXCEPT ![q] = s[s[q]]]

-----------------------------------------------------------------------------
(* The functions of LRUCache; see LRUCore for their meaning.               *)
ref(e) ==
  /\ SetLinks(IF refs[e] = 1 THEN move("in_use_", e) ELSE links)
  /\ refs' = [refs EXCEPT ![e] = @ + 1]

unref(e) ==
  /\ refs' = [refs EXCEPT ![e] = @ - 1]
  /\ SetLinks(CASE refs[e] = 1 -> list_append(links, "free_", e)
                [] refs[e] = 2 -> move("lru_", e)
                [] OTHER -> links)

lru_refresh(e) == SetLinks(IF next[e] = "lru_" THEN links ELSE move("lru_", e))

lookup_refresh(e, pin) ==
  /\ \/ pin /\ ref(e)
     \/ ~pin /\ refs[e] = 1 /\ lru_refresh(e) /\ UNCHANGED refs
     \/ ~pin /\ refs[e] # 1 /\ UNCHANGED <<next, prev, refs>>
  /\ UNCHANGED <<slot, size, capacity, key, extra_pool>>

(* Mutant: the wrong end of the LRU list.                                  *)
alloc_node_newest ==
  IF ~Empty("free_") THEN next["free_"]
  ELSE IF ~Empty("lru_") THEN prev["lru_"] ELSE Nil

alloc_node ==
  IF ~Empty("free_") THEN next["free_"]
  ELSE IF ~Empty("lru_") THEN next["lru_"] ELSE Nil

insert_new(k, pin, r) ==
  /\ r = alloc_node /\ r # Nil
  /\ IF Empty("free_")
     THEN slot' = table_insert(table_remove(slot, key[r]), r, k) /\ UNCHANGED size
     ELSE slot' = table_insert(slot, r, k) /\ size' = size + 1
  /\ key' = [key EXCEPT ![r] = k]
  /\ refs' = [refs EXCEPT ![r] = IF pin THEN 2 ELSE 1]
  /\ SetLinks(move(IF pin THEN "in_use_" ELSE "lru_", r))
  /\ UNCHANGED <<capacity, extra_pool>>

Unchanged(r) ==
  r = Nil /\ UNCHANGED <<next, prev, slot, size, capacity, key, refs, extra_pool>>

erase(e, ok) ==
  /\ ok = (refs[e] = 1)
  /\ IF ok
     THEN /\ SetLinks(move("erased_", e))
          /\ refs' = [refs EXCEPT ![e] = @ - 1]
          /\ slot' = table_remove(slot, key[e])
          /\ size' = size - 1 /\ capacity' = capacity - 1
          /\ UNCHANGED <<key, extra_pool>>
     ELSE Unchanged(Nil)

(* An erased node is unlinked first; a new one has no links yet.           *)
install_impl(k, r) ==
  /\ IF Empty("erased_")
     THEN /\ r \in Node \ (Range(pool_) \cup extra_pool)
          /\ extra_pool' = extra_pool \cup {r}
          /\ SetLinks(list_append(links, "lru_", r))
     ELSE r = next["erased_"] /\ SetLinks(move("lru_", r)) /\ UNCHANGED extra_pool
  /\ key' = [key EXCEPT ![r] = k]
  /\ refs' = [refs EXCEPT ![r] = 1]
  /\ slot' = table_insert(slot, r, k)
  /\ size' = size + 1 /\ capacity' = capacity + 1

-----------------------------------------------------------------------------
(* The client; see LRUCache.                                               *)
Returns(op, r) == ret' = [op |-> op, node |-> r]
Pinned(pin, r) == pins' = IF pin /\ r # Nil THEN [pins EXCEPT ![r] = @ + 1] ELSE pins
RefsBound(e) == e # Nil => refs[e] < MaxRefs

Insert(k, pin) ==
  /\ capacity > 0
  /\ pin => RefsBound(lookup(k))
  /\ \E r \in Node \cup {Nil} :
       /\ \/ lookup(k) # Nil /\ r = lookup(k) /\ lookup_refresh(r, pin)
          \/ lookup(k) = Nil /\ insert_new(k, pin, r)
          \/ lookup(k) = Nil /\ alloc_node = Nil /\ Unchanged(r)
       /\ Returns("insert", r) /\ Pinned(pin, r)

LookupKey(k, pin) ==
  /\ pin => RefsBound(lookup(k))
  /\ \E r \in Node \cup {Nil} :
       /\ r = lookup(k)
       /\ IF r # Nil THEN lookup_refresh(r, pin) ELSE Unchanged(r)
       /\ Returns("lookup", r) /\ Pinned(pin, r)

Release(e) ==
  /\ pins[e] > 0
  /\ unref(e)
  /\ pins' = [pins EXCEPT ![e] = @ - 1]
  /\ ret' = [op |-> "none", node |-> Nil]
  /\ UNCHANGED <<slot, size, capacity, key, extra_pool>>

Pin(e) ==
  /\ key[e] # NoKey /\ lookup(key[e]) = e /\ RefsBound(e)
  /\ ref(e)
  /\ pins' = [pins EXCEPT ![e] = @ + 1]
  /\ ret' = [op |-> "none", node |-> Nil]
  /\ UNCHANGED <<slot, size, capacity, key, extra_pool>>

Erase(e) ==
  /\ key[e] # NoKey
  /\ \E ok \in BOOLEAN : erase(e, ok) /\ Returns("erase", IF ok THEN e ELSE Nil)
  /\ UNCHANGED pins

Install(k) ==
  /\ lookup(k) = Nil
  /\ \E r \in Node : install_impl(k, r) /\ Returns("install", r)
  /\ UNCHANGED pins

Next ==
  \/ \E k \in Key, pin \in BOOLEAN : Insert(k, pin) \/ LookupKey(k, pin)
  \/ \E k \in Key : Install(k)
  \/ \E e \in Node : Release(e) \/ Pin(e) \/ Erase(e)

Spec == Init /\ [][Next]_vars

-----------------------------------------------------------------------------
(* The nodes met from start along step, up to stop (at most all of them).  *)
Walk(step, start, stop) ==
  LET walk[i \in 0..Cardinality(Node)] ==
        IF i = 0 THEN <<>>
        ELSE LET met == walk[i - 1]
                 e == step[IF met = <<>> THEN start ELSE Last(met)]
             IN IF e \in Node \ {stop} THEN Append(met, e) ELSE met
  IN walk[Cardinality(Node)]

ListOf(head) == Walk(next, head, head)
Chain(b) == Walk(slot, b, Nil)
Cached == Range(ListOf("lru_")) \cup Range(ListOf("in_use_"))

(* Both directions of every list agree (the assertion of print_list,       *)
(* node.h:78 and :82), for every node that was ever allocated: a node      *)
(* unlinked twice or appended while linked tears a list apart.             *)
LinksAgree ==
  \A q \in DummyHead \cup Range(pool_) \cup extra_pool : prev[next[q]] = q /\ next[prev[q]] = q

(* Each chain holds the cached nodes whose key hashes to its bucket, once: *)
(* removing a node loses none of the nodes it collides with.               *)
ChainsExact ==
  \A b \in Bucket :
    IsInjective(Chain(b)) /\ Range(Chain(b)) = {e \in Cached : bucket(key[e]) = b}

(* The sequences and the function the pointers represent.                  *)
Kinds == {"lru", "in_use", "free", "erased"}
HeadOf(m) ==
  CASE m = "lru" -> "lru_" [] m = "in_use" -> "in_use_"
    [] m = "free" -> "free_" [] m = "erased" -> "erased_"

SequenceOf == [L \in {self} \X Kinds |-> ListOf(HeadOf(L[2]))]
TableOf == [k \in Key |-> lookup(k)]

(* Every call is a step of LRUCache on them.                               *)
Lists == INSTANCE LRUCache WITH
  Tag <- {self},
  pool <- [t \in {self} |-> pool_],
  list <- SequenceOf,
  table <- TableOf,
  size <- [t \in {self} |-> size],
  capacity <- [t \in {self} |-> capacity]

ImplementsLRUCache == Lists!Spec
=============================================================================
