# gcache: specifications, model checking and proofs

gcache is a header-only C++ library of caches and of simulated ("ghost") caches.
This directory holds TLA+ modules of its classes, TLC configurations that check
them on small instances, and TLAPS proofs about `LRUCache`, `SharedCache`,
`GhostCache` with its sampled variant, the ARC caches of a miss-ratio curve, and a
reader of the statistics. Three refinements are proved: the links and collision
chains of `LRUCache` implement the lists and the table the other modules use,
`LRUCache` implements an LRU policy on keys, and a ghost cache simulates one LRU
cache per size.

## 1. The system

| part | source (`src/include/gcache/`) | state | operations |
|---|---|---|---|
| LRUNode, LRUHandle | `node.h` | `next`, `prev`, `next_hash`, `refs`, `hash`, `key`, `value` | `init`, printing |
| NodeTable | `table.h` | an array of collision chains | `insert`, `lookup`, `remove` |
| LRUCache | `lru_cache.h` | four circular lists (`lru_`, `in_use_`, `free_`, `erased_`), `size_`, `capacity_`, node pool, `extra_pool_`, a NodeTable | `insert`, `lookup`, `release`, `pin`, `erase`, `install`, seven `for_each` functions; for SharedCache `init_from`, `preempt`, `assign`; for GhostCache `refresh` |
| SharedCache | `shared_cache.h` | one pool and one table, an LRUCache per tenant, a tag in every node, `total_capacity_` | the same calls with a tag, and `relocate` |
| GhostCache | `ghost_cache.h` | an LRUCache whose nodes carry `size_idx`; `boundaries`, `reuse_distances`, `reuse_count`, `caches_stat` | `access` in four modes, `get_stat`, `reset_stat`, `print` |
| SampledGhostCache, SampledGhostKvCache | `ghost_cache.h`, `ghost_kv_cache.h` | a GhostCache; `kv_size` in each node | `access` for sampled keys, `get_stat`, `get_cache_stat_curve` |
| ARC_cache | `arc_cache.h` | lists T1, T2, B1, B2, map `in_ghost`, target `p`, three counters | `access`, `rst_stat` |
| ARC_mrc | `arc_cache.h` | a map from sizes to ARC_cache objects | the constructor, `access`, `reset_stat` |
| CacheStat, hashes | `stat.h`, `hash.h` | two counters; none | rates; bit mixing |

How they interact: a client calls the member functions; `SharedCache` calls the
private functions of several `LRUCache` objects that share its pool and its table
and finds the right one by the tag in the node; `GhostCache` calls `refresh` and
reads the list links of its one `LRUCache`; the nodes are shared by all of them as
bare pointers ("handles") that the client keeps as long as it likes.

What is hard here. The library starts no thread, takes no lock, does no I/O and
keeps nothing on disk, so there are no crashes, messages or timeouts to model. The
difficulty is in long sequences of calls: handles outlive the calls that returned
them, the functions trust `refs` and the tag of a node instead of looking at the
lists, nodes circulate among four lists and several tenants, the ghost cache
maintains incrementally what a definition would compute by scanning, and several
sizes are unsigned and may wrap. Two things interleave all the same: a `for_each`
function calls the client's `fn` in the middle of a loop over live links, and
`stat.h` allows another thread to read statistics while their owner rebuilds them.
PROJECT.json lists each such place as a hazard with the properties that cover it.

What makes each part correct:

* LRUCache: each node is linked once; the table finds the cached nodes and no
  others; `refs` agrees with the list and with the pins of the client; pinned
  nodes stay; eviction is in LRU order and only when there is no room; a walk
  visits what its callback leaves alone, once and in order, and ends.
* SharedCache: all that, and the tag of a node names the tenant that has it;
  slots are conserved by `relocate`; one tenant's insert evicts only its own keys.
* GhostCache: the index of each node and each boundary are what their definition
  says; the counts are those of one separate LRU cache per size.
* ARC_cache: the four lists are disjoint, bounded and agree with `in_ghost`; the
  cache is never larger than its capacity and evicts only when it is full.
* ARC_mrc: the constructor ends with the points it should make, and the points
  count the same accesses.
* CacheStat: a rate that is read while the counts are rebuilt is still a rate.

## 2. The modules

| module | models |
|---|---|
| `LRUCore` | every member function of `LRUCache`, for a family of caches (`Tag`) over one pool and one table, and the invariants of the shared state |
| `LRUCache` | a stand-alone cache (`Tag = {self}`) with the client that calls its public functions |
| `LRUPolicy` | the abstract specification: keys, pin counts and recency order only |
| `LRULinks` | the same cache with its pointers: `next`, `prev`, dummy heads, buckets and collision chains; refines `LRUCache` |
| `SharedCache` | the tenants: the operators of `LRUCore` at the tag of each node |
| `GhostCache` | `access_impl` and the statistics, over `refresh` of `LRUCore` |
| `PageCaches` | the abstract specification of a ghost cache: one LRU cache per size |
| `LRUWalk` | the `for_each` functions of `LRUCache`, a call of `fn` at a time, and what `fn` does to the cache meanwhile; extends `LRUCache` |
| `SampledGhostCache` | the filter on the hash and the scaling of the sizes; extends `GhostCache`, and states its refinement of `PageCaches` |
| `GhostKvCache` | `SampledGhostKvCache`: the size of each pair, the curve; extends `SampledGhostCache` |
| `ARCCache` | class `ARC_cache`, as operators on the record of its members |
| `ARCMrc` | class `ARC_mrc`: many such records |
| `StatReader` | `CacheStat::get_hit_rate` in another thread than the owner of the cache |
| `MC...` | small instances for TLC |
| `SequenceLemmas` | lists without duplicates: their order, their newest end, sums over finite sets |
| `LRUCoreProofs` | lemmas about the operators of `LRUCore`, for a family of caches |
| `LRULinksProofs` | the theorems about `LRULinks`: rings, chains, and the refinement of `LRUCache` |
| `LRUCacheProofs`, `LRUWalkProofs`, `SharedCacheProofs` | the theorems about `LRUCache`, `LRUWalk` and `SharedCache` |
| `GhostCacheProofs` | the theorems about `GhostCache`, `SampledGhostCache`, `GhostKvCache` and `StatReader` |
| `ARCMrcProofs` | the theorems about `ARCMrc` |

Correspondence of the state. A circular list is the sequence of its nodes, oldest
(`head.next`) first, in `list[<<t, kind>>]`; `list_remove(e)` removes `e` from
whatever list has it, as unlinking does. `table[k]` is the node a look-up of `k`
returns, or `Nil`. `pool[t]` is the slice of the pool a cache was initialized
with. `extra_pool` is the set of nodes `install` allocated. `key` and `refs` are
the fields of the nodes. The value of a node stays with the node, so a node's
identity stands for it. `pins` (how often the client has pinned a node and not
released it) and `ret` (what the last call returned) belong to the client and
exist for the properties and the refinement; so do `query` and `asked` (what
GhostCache was last called with) and `given` (the sizes the client last passed).

Correspondence of the actions. One action per public call, containing all it does:
`Insert` is look-up, refresh or pin, and otherwise allocation with eviction,
initialization, table entry and linking. `lookup_refresh`, `ref`, `unref`,
`alloc_node`, `refresh` and so on are operators with the names of the functions.
`relocate` is a loop in the code; `Relocated` is its effect in closed form, and
the property `RelocateIsLoop` compares it with the loop step by step in every
reachable state. In GhostCache `boundaries` and `size_idx` are the code's; the
loop over the boundaries is a simultaneous update, which is the same because no
iteration reads what another wrote.

`LRULinks` has one variable `slot` for everything a `Node_t**` of the table can point
to: `list_[b]` for a bucket, `next_hash` for a node. `find_pointer` returns such a
place, and `table_remove` writes through it, as in the code. Its refinement mapping
reads each list by following `next` from its head (`SequenceOf`) and defines
`table[k]` as what the look-up of `k` finds (`TableOf`). `GhostKvCache` takes
`Access` of `GhostCache` as it is; its keys are the hashes, since the code passes the
hash as the key, and the runs instantiate `Hash` with the code's `idhash`.

`LRUWalk` has the loop variable `h` and the list it is on. `Begin` is a call of a
`for_each` function up to the first call of `fn`; `FnReturns` follows one link and
calls `fn` again or ends, `FnStops` is a `false` from `fn`. In between,
`ByCallback` lets `fn` make any call a client can make, under a contract the code
does not state but needs: `fn` leaves the node `h` alone, whose next link the loop
will follow (an `h` that changes lists leads the loop past the wrong dummy head),
and in a walk along `next` it does not put nodes at the end of the list (the walk
need not end). Nodes of the in-use list may be pinned and released as long as they
stay there. A walk along `prev` may refresh and insert.

In `ARCMrc`, one step adds one point of the constructor's loop; `Access` is the call on
every point. `ARCCache` writes each member function as an operator from a cache to
a cache; `undefined` says which calls reach `pop_back` on an empty list, and such a
call is not modelled further.

In `StatReader` every load and every store is a step, since nothing orders the two
threads; the two stores of `build_caches_stat` come in either order. Whether
`hit_cnt` is loaded once or twice is up to the build (`Reloads`).

Asserts on the arguments of a call are preconditions (release only what is pinned,
pin only what is cached, install only a key that is absent, insert with a positive
capacity); asserts about the state are not assumed anywhere. `Erase` has no
precondition in LRUCache beyond a handle that was once returned: the function
tests `refs` itself.

Bounds, all in the cfg files: `MaxRefs` (references of a node), `MaxMove` (slots
asked of one relocation), `MaxCount` (counted accesses since a reset), `HashBits`
(32, the width of a hash), `Word` (2^32, the width of `p` and of the counts) and
`MaxStat` (accesses of a curve since a reset).

## 3. The runs

| run | instance | shows |
|---|---|---|
| `lru` | 3 slots, 4 keys, 1 node for `install`, `MaxRefs = 3` | ten properties of `LRUCache`, `ImplementsPolicy` among them |
| `links` | 2 slots, 1 node for `install`, 4 keys, 3 of them in one bucket, `MaxRefs = 3` | links and chains stay intact; `ImplementsLRUCache` |
| `walk` | 3 slots, 3 keys, `MaxRefs = 2` | the seven `for_each` functions, with a busy `fn`: order, once, and an end |
| `shared` | 2 tenants with 1 slot each, 1 node for `install`, 3 keys, `MaxRefs = 2`, `MaxMove = 2` | nine properties of `SharedCache`, `CoreInv` of `LRUCore` among them, without stale handles |
| `shared_stale` | the same, with stale handles | `erase` takes a node from a free list (violation) |
| `ghost` | sizes 3, 5, 7 (6, 10, 14 before sampling), 8 sampled keys and 1 unsampled, `MaxCount = 2` | exactness of indices and boundaries; `SimulatesCaches` |
| `ghost_stat` | the same | statistics of before a reset are returned (violation) |
| `ghost_kv` | counts 2, 4, 6, 7 sampled keys and 1 unsampled, 2 sizes, `MaxCount = 1` | the curve is exact |
| `ghost_kv_small` | counts 4, 6, 8 | the curve asks for a count below all of them (violation) |
| `mrc` | curves of the size 2 with 5 keys, of the sizes 1 and 2 with 4 keys, and of no size; `Word = 8`, `MaxStat = 1` | eight properties of the caches and of the curve |
| `arc_size` | one cache of 2 pages, 5 keys, `Word = 16` | the cache outgrows its capacity (violation) |
| `stat_reader` | `MaxCount = 2`, a build that loads once or twice | a hit rate above 100% (violation) |

Why the bounds are enough. `lru`: three slots are the least with an oldest, a
middle and a newest node; one key more than slots gives eviction, and one
installed node exercises the growth of the pool, the reuse of an erased node and
the recycling of an installed one by eviction; three references distinguish
unpinned, pinned and pinned twice. `shared`: one slot per tenant and one
installed node reach tenants with zero, one, two and three slots; two moves make
`relocate` stop early, evict after draining the free list, and come back to where
it started when both tenants are the same. `links`: three nodes in one list and three
in one chain are the least for which removing the first, a middle and the last one
differ; its view leaves out what no step reads (`ret`, and `next_hash` of a node
that is not in the table). `ghost`: the spectrum is that of the
comment at `ghost_cache.h:232`, with a first, an inner and a last cache; a key
more than the largest size gives evictions. Its view identifies states that
differ by a renaming of nodes and keys, on which no step depends. Two counted
accesses can be two hits at different indices, and any number of uncounted ones
(`NOOP`) move the list. `ghost_kv`: `tick` is a power of two, so that it divides
`Word` as it divides 2^32. `mrc`: one key
more than the directory of the largest cache can hold, and two points, one of
which evicts while the other does not. A small `Word` keeps `p` wrapping below zero
and above the top; it makes the way down from a wrapped value short, which takes
billions of accesses with 32 bits, so the runs visit more states than the program
soon would, never fewer. `MaxStat` bounds the counters only: `reset_stat` is always
possible, so it does not bound the accesses. `walk`: a node behind `h`, `h`, and one
ahead of it, each of which `fn` may release, pin, erase or recycle. `stat_reader`:
two accesses are the least for which the counts of two rebuilds differ.

Fairness and liveness. `WalkEnds` assumes weak fairness of `FnReturns`: the
client's function returns each time it is called, as a loop in one thread must
wait for it. `CurveMade` assumes weak fairness of the constructor's steps, which
nothing can interrupt. Between calls the client promises nothing, so no other
fairness is assumed, and no property says that a call will be made.

Deadlock is checked in all passing runs: some call is always possible.

## 4. Disagreements between the code and its documentation

1. `ghost_stat`: `get_stat` takes its cached statistics for current when their total
   equals `reuse_count` (`ghost_cache.h:101`); `reset_stat` does not clear them, so
   after as many accesses as were counted before the reset, the old hit rate comes
   back, against README.md:104.
2. `shared_stale`: a node that `relocate` preempted from an LRU list keeps
   `refs = 1`. `erase` through an older handle then takes it out of the free list it
   is on and decrements the size and capacity of the wrong tenant, against
   `lru_cache.h:106-107`. (A debug build stops at the assert after it.)
3. `arc_size`: `p` is unsigned and `std::max(p - x, 0u)` does not clamp
   (`arc_cache.h:95`): `p` wraps, `replace` stops evicting from T1, and the cache
   holds more pages than the size its miss rate is reported for.
   `WithinCapacityIfClamped` in the run `mrc` shows that this is the only cause.
4. `ghost_kv_small`: `curr_count - min_size` wraps (`ghost_kv_cache.h:100`), so with a
   `min_size` of 4 and a `tick` of 2 the curve has a point for two keys and calls
   `get_stat` below `min_size`, against the assert at `ghost_cache.h:95`. The only test
   of the curve has `min_size` equal to `tick`, a power of two, where this cannot happen.
5. `stat_reader`: `get_hit_rate` names `hit_cnt` twice (`stat.h:23` and `:25`). A Debug
   build loads it twice, and if the owner of the cache rebuilds the statistics in
   between, the rate exceeds 100%, which `stat.h:18-20` calls unreasonable. The
   optimized builds load it once; then the rate is at most 100%
   (`OneLoadIsReasonable`), but nothing in the source demands that they do.

One more was met that no model can show: `GhostCache::for_each_until_lru` and
`for_each_until_mru` (`ghost_cache.h:131-139`) pass a lambda that returns nothing to
a loop that tests its result, so a call of either does not compile.

## 5. The proofs

PROJECT.json lists the theorems. Each holds for every value of the constants that
the modules' assumptions admit: the slices of the pool are disjoint, duplicate-free
and not empty (`PoolAssumption`); `NoKey` and `Nil` are no key and no node
(`NilAssumption`); there is one cache (`SelfAssumption`), or finitely many tenants
(`SharedAssumption`); the constructor of a ghost cache accepts its sizes, and the
pool has as many nodes as the largest of them (`GhostAssumption`,
`SampleAssumption`); the sizes of a curve are positive and, doubled, below `Word`
(`ArgsAssumption`); there are finitely many nodes, none of which is a list head or a
bucket (`LinksAssumption`). A few conjuncts of these are there because the prover
cannot find them: `2^k > 0`, that the number of buckets, a power of two, is not
zero, and that the arguments of the ghost cache are natural numbers.

**LRUCache.** The inductive invariant is
`Inv == TypeOK /\ CoreInv /\ PinsCounted /\ Issued`.
None of its parts is inductive alone: that the table stays exact when a node is
recycled needs that the node is linked once and that `refs` tells its list; that
`refs` tells its list needs that the client releases only what `PinsCounted` says it
has pinned; and `erase`, which takes any handle the client ever got, is safe only
because a node with a key is never free (`Issued`): a free node could have
`refs = 1`, and `erase` would take it for one on the LRU list. `Issued` is what
breaks in a SharedCache, where `relocate` puts used nodes on a free list: that is
the second disagreement above.

`SequenceLemmas` says what removing, appending, pushing and popping do to a list
without duplicates. `LRUCoreProofs` holds the lemmas about the operators, all about
a family of caches so that they serve SharedCache and GhostCache too. `MoveStep`
says that moving a node to the end of a list keeps every node linked once; the table
lemmas (`SameTable`, `ResidentShift`, `NewKeyTable`) say what a change of the lists
does to the table invariant; `RefKeeps`, `UnrefKeeps`, `LookupRefreshKeeps`,
`InsertKeeps`, `EraseKeeps` and `InstallKeeps` say that each member function
preserves `CoreInv`. `LRUCacheProofs` adds the client, one step per action.

That LRUCache implements `LRUPolicy` is proved from `Inv`, action by action. The
policy's order of two keys is that of their nodes on the LRU list (`Older`), its room
is the length of the free list, its pin counts are `refs - 1`. The step that carries
the argument is eviction: the head of the LRU list holds the least recently used of
the unpinned keys, since distinct cached nodes have distinct keys (`KeysApart`) and
the order on the list is the order of the policy (`OldestKey`); and a call that
moves a node to the end of the list changes the order exactly as the policy does.

**LRULinks.** Two questions are asked of the pointers: are the links of every list
and every collision chain intact, and do the lists and look-ups they represent
change as `LRUCache` says? Neither can be answered alone. Unlinking a node is harmless
only if it is on exactly one list, removing the node that a look-up finds needs
that no two nodes have the same key, and appending needs that the node is linked
nowhere. All of these are invariants of `LRUCache`. So the inductive invariant
(`Represents`) is that the pointers represent lists and a table (`LinkInv`), and that
`Inv` of `LRUCache` holds of what they represent, taken with its proof from
`LRUCacheProofs` through the refinement mapping. `IsRing(next, prev, h, s)` says that
the circular list with the head `h` has the nodes of `s`, in both directions;
`IsChain(slot, b, c)` the same of a bucket. A walk along the links is a recursive
function; that it meets exactly the nodes of `s` (`WalkIs`) is shown by taking the
least step at which it would not, and that it needs no more steps than there are
nodes is a cardinality argument (`ShortLists`). `RemoveRing`, `AppendRing`, `ChainInsert`
and `ChainRemove` are the four pieces of pointer surgery on one ring or chain;
`RemoveRings` to `RemoveChains` say that they leave the other rings and chains alone.
Then each call represents the call of `LRUCache`. The only one that does not do so
literally is `lru_refresh`, which returns early for the newest node: moving it to
where it is changes nothing (`NewestStays`).

**LRUWalk.** A walk looks at one link at a time, and between two looks `fn` may insert,
look up, pin, release, erase and install. `WalkInv` says where it stands: of the
nodes no call has touched since the walk began, those `fn` was called with are just
those that are *not* ahead of `h` (`MetInOrder`); and of two of them, the one promised
first was met first, or is still the first ahead. "Ahead" is the order of one list, the
way of the walk (`Way`): the list it is on, forwards or backwards, or for the first loop
of `for_each` both lists, one after the other. Three facts make it inductive. A call moves
at most one node, which it touches, and never a node of the in-use list to the end of
that list (`CallMoves`); this needs `Inv` of the cache, for instance that `refs = 1` means
"on the LRU list". Moving it leaves the order of all the others as it was, and with
the contract of `ByCallback` it puts no node ahead of `h` (`WayKept`). And the node that
`h->next` or `h->prev` leads to, also from the end of the first list to the second, is
the first of those ahead (`NextOnWay`). When a loop ends there is nothing ahead, so every
node left alone was met; when `fn` stops an `until` walk, what was not met is ahead. `VisitsOnce` and `VisitsInOrder` follow for every pool, key set
and sequence of calls, where the run `walk` has three nodes.

**SharedCache.** The theorems assume `StaleHandles = FALSE`: the client does not call
`erase` through a handle whose node a relocation has preempted. The hypothesis is
needed; with such handles the invariant is false, as the run `shared_stale` shows.
The invariant is `TypeOK /\ CoreInv /\ TagAgrees /\ PinsCounted /\ TotalCapacity`
with what the client knows of the keys (`KeyedKnown`). The member functions of one
tenant come from `LRUCoreProofs`; new is `relocate`, whose effect is that a set of
nodes, free or on an LRU list of the source, goes to the free list of the
destination (`Reassigned`), and the table loses the keys of those that were cached.
That the capacities add up to `total_capacity_` is a sum over the finite set of
tenants of which two terms change by opposite amounts, or none if source and
destination are the same. Tenant isolation follows from the table invariant and
the tags: an insert takes a key from the table only with the node it recycles, and
that is the head of its own tenant's list.

The action `Relocate` is a closed form of the code's loop, and `RelocateIsLoop` says
that the two agree. The proof (`LoopIs`) is for a request of any size and is an
induction on it: the closed forms for 0, 1, 2, ... slots satisfy the recursion that
defines the loop, so they are its values. One more slot to another tenant
(`MoveOneMore`) is the next node in the order of `alloc_node` (`NextGiven`), which the
links take from its list and put last on the other; relocating from a tenant to itself
rotates the free list by one (`RotateOneMore`), after one eviction if it was empty
(`RotateFirst`).

**GhostCache.** The proofs look at the list from its newest end: `FromEnd(lru, d)` is the
node at depth `d`, and the cache of `n` pages holds the nodes of depth `n` or less.
The invariant says that the `size_idx` of the node at depth `d` is the index of the
least size that is `d` or more, and that boundary `i` is the node at depth
`size_i` (`Bounded`). It is inductive because an access to the node at depth `m` puts
those of smaller depth one place deeper and moves no other: just the nodes *at* a
boundary of smaller size change their class, and these are the ones the loop of
`access_impl` increments. Statistics need two more facts: each count of hits by index
is a part of `reuse_count` (`HitsCounted`), and what `accum_hit_cnt`, a recursive
function, returns is the sum of the counts up to an index, by taking the least index
at which it would not be. `SampledSpec => Spec` lets the filter on the hash be
left out of all this.

That SampledGhostCache implements `PageCaches` follows: the keys of the `n` newest
nodes are the pages of the cache of `n` pages, an access changes them as an access of
that cache does (`UsesNewest`), and it is a hit there if and only if the node's index
is not greater than that cache's.

For the curve of SampledGhostKvCache one more invariant is needed, that a node on the
list has the size its key was last given (`SizesKept`); a node is recycled and sized in
the same access, so none keeps the size of the key it had. The space of a point is a
fold of `+` over an interval, in an order `CHOOSE` decides: any element may be the one
added last (`SumInAnyOrder`), so the sum over the newest end of the list is that over
`1..n` (`SumShifted`). `CurveIsExact` has two hypotheses: `max_size <= Word`, which
32-bit sizes satisfy, and `NoPointBelow`, that `curr_count - min_size` does not wrap
to a multiple of `tick`. The second is needed, since without it the curve has points
for counts that are not simulated (disagreement 4); it holds for the spectrum of the
only test of the curve, where `min_size` is `tick` and divides 2^32 (`TickDividesWord`).

**ARC.** `ARCMrcProofs` proves the invariants and the action properties of `ARCMrc` for
every set of sizes and every `Word`. The inductive invariant is `CacheInv` of every
cache. It is closed under each case of `access` only as a whole: that the ghost hit
divides by the length of a list that is not empty needs `in_ghost` to agree with B1
and B2; that case 4A finds B1 not empty needs T1 + B1 to be exactly the size; that the
directory does not outgrow its bound needs that no key is in two lists, since each
case moves one key. The target `p` does not occur in it: the bounds hold even after
`p` has wrapped, and only the share of T2 is then wrong. `ClampedStaysWithin` says the
rest: while `p` has not wrapped, no access makes a cache outgrow its capacity. The
counters are compared modulo `Word` (`CountInv`), so their wrapping is covered.

**StatReader.** `ReasonableRate` is proved for the builds that load `hit_cnt` once,
for any number of accesses: the numerator is what `acc_cnt` began with, and
`miss_cnt` is never negative, however old.

Every safety property the passing runs check is proved. Only model-checked: the two
liveness properties, `WalkEnds` and `CurveMade`, which are not provable with these tools.

## 6. What is not modelled

* The accuracy of sampling, which is statistical. `SampleShift = 0` shifts a 32-bit
  hash by 32, which is undefined, although a comment offers it
  (`ghost_kv_cache.h:17`).
* What a call does after `pop_back` on an empty list, in an `ARC_mrc` with
  `min_size = 0` or after a wrapped `p` has been counted down: undefined behaviour.
  `add_point` and `rm_point` of ARC_mrc: private and never called.
* A callback that breaks the contract above: the loop then runs over dummy heads.
* `for_each` of SharedCache and GhostCache: they forward to those of LRUCache.
* Printing, hash functions (pure bit mixing), tests, benchmarks and scripts.
* `get_miss_rate` in a reader thread: the same as `get_hit_rate` with the other
  counter.

## 7. Plan

1. Done: the core (`LRUCore`, `LRUCache`, `LRUPolicy`) with its proofs, `SharedCache`,
   `GhostCache` with `PageCaches`, `SampledGhostCache`, `GhostKvCache`, `ARCCache` and
   `ARCMrc` with their first proofs, `LRULinks`, `LRUWalk`, `StatReader`.
2. Done: the proofs of section 5.
3. Done: `VisitsOnce` and `VisitsInOrder` of LRUWalk, from lemmas on what a call does to
   the part of a list it leaves alone.
