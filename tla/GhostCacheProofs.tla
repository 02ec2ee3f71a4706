--------------------------- MODULE GhostCacheProofs ---------------------------
(***************************************************************************)
(* One list with boundaries stands for all the caches of the spectrum: for *)
(* every spectrum, key set and pool, size_idx and boundaries are exact in  *)
(* every state, and the statistics are consistent.                         *)
(*                                                                         *)
(* The proofs look at the list from its newest end: FromEnd(lru, d) is the *)
(* node at depth d, and it is in the caches of d pages and more.  An       *)
(* access to the node of depth m (of depth size + 1, for a new one) puts   *)
(* those of smaller depth one place deeper and no other.  From this also   *)
(* follows that every access is a step of PageCaches: the keys of the n    *)
(* newest nodes are the pages of the cache of n pages, and the sum of      *)
(* their sizes is the space the curve gives for n.                         *)
(***************************************************************************)
EXTENDS GhostKvCache, LRUCoreProofs

LEMMA SelfTag == self \in Tag /\ \A u \in Tag : u = self
BY GhostAssumption

-----------------------------------------------------------------------------
(* The spectrum: the sizes of the caches.                                  *)
SizeOf(i) == i * tick + min_size

(* The node at depth d is in cache i and in no smaller one.                *)
Class(i, d) == d <= SizeOf(i) /\ (i > 0 => d > SizeOf(i - 1))

LEMMA Ticks ==
  /\ tick \in Nat /\ tick > 0 /\ min_size \in Nat /\ min_size > 1 /\ max_size \in Nat
  /\ num_ticks \in Int /\ num_ticks > 2
  /\ SizeOf(num_ticks - 1) = max_size
<1>1. tick \in Nat /\ tick > 0 /\ min_size \in Nat /\ min_size > 1 /\ max_size \in Nat
  BY GhostAssumption
<1>2. num_ticks \in Int
  BY <1>1 DEF num_ticks
<1> QED BY <1>1, <1>2, GhostAssumption DEF SizeOf

LEMMA Sizes ==
  /\ \A i \in Int : SizeOf(i) \in Int
  /\ SizeOf(0) = min_size
  /\ \A i \in Int : SizeOf(i + 1) = SizeOf(i) + tick /\ SizeOf(i - 1) = SizeOf(i) - tick
  /\ \A i, j \in Int : i < j => SizeOf(i) + tick <= SizeOf(j)
<1>1. tick \in Nat /\ tick > 0 /\ min_size \in Nat
  BY Ticks
<1>2. \A i \in Int : i * tick \in Int
  BY <1>1
<1>3. \A i \in Int : (i + 1) * tick = i * tick + tick /\ (i - 1) * tick = i * tick - tick
  BY <1>1
<1>4. 0 * tick = 0
  BY <1>1
<1>5. ASSUME NEW i \in Int, NEW j \in Int, i < j PROVE i * tick + tick <= j * tick
  <2>1. j - i - 1 \in Nat
    BY <1>5
  <2>2. (j - i - 1) * tick \in Nat
    BY <1>1, <2>1
  <2>3. (j - i - 1) * tick = j * tick - i * tick - tick
    BY <1>1
  <2> QED BY <1>2, <1>1, <2>2, <2>3
<1>6. \A i \in Int : SizeOf(i) \in Int
  BY <1>1, <1>2 DEF SizeOf
<1>7. SizeOf(0) = min_size
  BY <1>1, <1>4 DEF SizeOf
<1>8. \A i \in Int : SizeOf(i + 1) = SizeOf(i) + tick /\ SizeOf(i - 1) = SizeOf(i) - tick
  BY <1>1, <1>2, <1>3 DEF SizeOf
<1>9. \A i, j \in Int : i < j => SizeOf(i) + tick <= SizeOf(j)
  BY <1>1, <1>2, <1>5 DEF SizeOf
<1> QED BY <1>6, <1>7, <1>8, <1>9

(* Each depth has one class.                                               *)
LEMMA OneClass ==
  ASSUME NEW i \in Nat, NEW j \in Nat, NEW d \in Nat, Class(i, d), Class(j, d)
  PROVE  i = j
<1>1. SizeOf(i) \in Int /\ SizeOf(j) \in Int /\ SizeOf(i - 1) \in Int /\ SizeOf(j - 1) \in Int
  BY Sizes
<1>2. i < j => SizeOf(i) + tick <= SizeOf(j)
  BY Sizes
<1>3. j < i => SizeOf(j) + tick <= SizeOf(i)
  BY Sizes
<1>4. SizeOf(j - 1) = SizeOf(j) - tick /\ SizeOf(i - 1) = SizeOf(i) - tick
  BY Sizes
<1>5. i < j => SizeOf(i) <= SizeOf(j) - tick
  BY <1>1, <1>2, Ticks
<1>6. j < i => SizeOf(j) <= SizeOf(i) - tick
  BY <1>1, <1>3, Ticks
<1> QED BY <1>1, <1>4, <1>5, <1>6, Ticks DEF Class

(* One place deeper is the next class exactly from a boundary.             *)
LEMMA DeeperClass ==
  ASSUME NEW i \in Nat, NEW d \in Nat, Class(i, d)
  PROVE  Class(IF d = SizeOf(i) THEN i + 1 ELSE i, d + 1)
<1>1. /\ SizeOf(i) \in Int /\ SizeOf(i + 1) = SizeOf(i) + tick
      /\ SizeOf(i - 1) \in Int /\ (i + 1) - 1 = i
  BY Sizes
<1>2. tick \in Nat /\ tick > 0
  BY Ticks
<1>3. CASE d = SizeOf(i)
  <2>1. d + 1 <= SizeOf(i + 1) /\ d + 1 > SizeOf((i + 1) - 1)
    BY <1>1, <1>2, <1>3
  <2> QED BY <1>3, <2>1 DEF Class
<1>4. CASE d # SizeOf(i)
  <2>1. d + 1 <= SizeOf(i) /\ (i > 0 => d + 1 > SizeOf(i - 1))
    BY <1>1, <1>4 DEF Class
  <2> QED BY <1>4, <2>1 DEF Class
<1> QED BY <1>3, <1>4

(* The class of what fits in the largest cache is an index.                *)
LEMMA ClassIsIdx ==
  ASSUME NEW i \in Nat, NEW d \in Nat, d <= max_size, Class(i, d)
  PROVE  i \in Idx /\ (d = max_size => i = num_ticks - 1)
<1> DEFINE l == num_ticks - 1
<1>1. l \in Nat /\ SizeOf(l) = max_size /\ tick \in Nat /\ tick > 0 /\ max_size \in Nat
  BY Ticks
<1> HIDE DEF l
<1>2. /\ SizeOf(i) \in Int /\ SizeOf(i - 1) = SizeOf(i) - tick
      /\ l < i => SizeOf(l) + tick <= SizeOf(i)
      /\ i < l => SizeOf(i) + tick <= SizeOf(l)
  <2>1. i \in Int /\ l \in Int
    BY <1>1
  <2>2. SizeOf(i) \in Int /\ SizeOf(i - 1) = SizeOf(i) - tick
    BY <2>1, Sizes
  <2>3. l < i => SizeOf(l) + tick <= SizeOf(i)
    BY <2>1, Sizes
  <2>4. i < l => SizeOf(i) + tick <= SizeOf(l)
    BY <2>1, Sizes
  <2> QED BY <2>2, <2>3, <2>4
<1>3. ~(l < i)
  <2>1. ASSUME l < i PROVE FALSE
    <3>1. d > SizeOf(i) - tick /\ max_size + tick <= SizeOf(i)
      BY <1>1, <1>2, <2>1 DEF Class
    <3> QED BY <1>1, <1>2, <3>1
  <2> QED BY <2>1
<1>4. d = max_size => ~(i < l)
  <2>1. d <= SizeOf(i)
    BY DEF Class
  <2> QED BY <1>1, <1>2, <2>1
<1>5. Idx = 0..l
  BY DEF Idx, l
<1>6. i \in Idx /\ (d = max_size => i = l)
  BY <1>1, <1>3, <1>4, <1>5
<1> QED BY <1>6 DEF l

(* The division in access_impl computes the class of a new node.           *)
LEMMA NewClass ==
  ASSUME NEW n \in Nat, n > 0
  PROVE  size_idx_new(n) \in Nat /\ Class(size_idx_new(n), n)
<1>0. tick \in Nat /\ tick > 0 /\ min_size \in Nat
  BY Ticks
<1>1. CASE n > min_size
  <2> DEFINE x == n - min_size + tick - 1
             q == x \div tick
  <2>1. x \in Nat
    BY <1>0, <1>1
  <2>2. q \in Int /\ q * tick <= x /\ x < (q + 1) * tick
    <3> HIDE DEF x
    <3>1. q \in Int
      BY <1>0, <2>1
    <3>2. x = tick * q + (x % tick) /\ x % tick \in 0..(tick - 1)
      BY <1>0, <2>1
    <3>3. tick * q = q * tick /\ (q + 1) * tick = q * tick + tick /\ q * tick \in Int
      BY <1>0, <3>1
    <3> HIDE DEF q
    <3> QED BY <1>0, <2>1, <3>1, <3>2, <3>3
  <2>3. size_idx_new(n) = q
    BY <1>1 DEF size_idx_new
  <2>4. /\ q * tick \in Int /\ (q + 1) * tick = q * tick + tick
        /\ (q - 1) * tick = q * tick - tick
    BY <1>0, <2>2
  <2> HIDE DEF q
  <2>5. n - min_size <= q * tick /\ q * tick <= n - min_size + tick - 1
    BY <1>0, <2>2, <2>4
  <2>6. q > 0
    <3>1. q <= 0 => q * tick <= 0
      BY <1>0, <2>2
    <3> QED BY <1>0, <1>1, <2>2, <2>4, <2>5, <3>1
  <2>7. n <= q * tick + min_size /\ n > (q - 1) * tick + min_size
    BY <1>0, <2>4, <2>5
  <2> QED BY <2>2, <2>3, <2>6, <2>7 DEF Class, SizeOf
<1>2. CASE ~(n > min_size)
  <2>1. size_idx_new(n) = 0
    BY <1>2 DEF size_idx_new
  <2>2. n <= SizeOf(0)
    BY <1>0, <1>2, Sizes
  <2> QED BY <2>1, <2>2 DEF Class
<1> QED BY <1>1, <1>2

-----------------------------------------------------------------------------
(* No node is ever pinned or erased: the lists in use are lru_ and free_.  *)
LruOnly == in_use(self) = <<>> /\ capacity[self] = max_size

(* The LRU list, by its length.                                            *)
Filling ==
  /\ lru(self) \in Seq(Node) /\ Inj(lru(self)) /\ On(self, "lru") = Range(lru(self))
  /\ Len(lru(self)) \in Nat
  /\ size[self] = Len(lru(self)) /\ Len(lru(self)) <= max_size
  /\ free(self) = <<>> => Len(lru(self)) = max_size

LEMMA Fills == CoreTypeOK /\ CoreInv /\ LruOnly => Filling
<1> SUFFICES ASSUME CoreTypeOK, CoreInv, LruOnly PROVE Filling
  OBVIOUS
<1>1. /\ lru(self) \in Seq(Node) /\ Inj(lru(self)) /\ On(self, "lru") = Range(lru(self))
      /\ free(self) \in Seq(Node)
  BY SelfTag, ListIs DEF lru, free, Kind
<1> DEFINE l == Len(lru(self))
           f == Len(free(self))
<1>2. l \in Nat /\ f \in Nat /\ (free(self) = <<>> => f = 0)
  BY <1>1
<1>3. Len(in_use(self)) = 0
  BY DEF LruOnly
<1>4. size[self] = l + 0 /\ max_size = size[self] + f
  BY <1>3, SelfTag DEF LruOnly, CoreInv, Counts
<1> HIDE DEF l, f
<1>5. size[self] = l /\ l <= max_size /\ (free(self) = <<>> => l = max_size)
  BY <1>2, <1>4
<1> QED BY <1>1, <1>2, <1>5 DEF l, Filling

LEMMA FillsNext == (CoreTypeOK /\ CoreInv /\ LruOnly)' => Filling'
BY Fills, PTL

(* An access to the key k finds or makes the node h, of depth m.           *)
Found(k, h, m) ==
  /\ m \in 1..max_size /\ m <= Len(lru(self)) + 1
  /\ m <= Len(lru(self)) => FromEnd(lru(self), m) = h
  /\ m > Len(lru(self)) => h \notin Range(lru(self))
  /\ table[k] # Nil => m <= Len(lru(self))
  /\ table[k] = Nil => /\ m = size'[self]
                       /\ m <= Len(lru(self)) => m = max_size

LEMMA Moves1 ==
  ASSUME CoreTypeOK, CoreInv, LruOnly, NEW h \in Node, NEW m \in 1..(Len(lru(self)) + 1),
         m <= Len(lru(self)) => FromEnd(lru(self), m) = h,
         m > Len(lru(self)) => h \notin Range(lru(self)),
         list' = move(list, <<self, "lru">>, h), UNCHANGED capacity
  PROVE  LruOnly' /\ Refreshed(lru(self), lru(self)', h, m)
<1>1. "lru" \in Kind /\ "in_use" \in Kind
  BY DEF Kind
<1>2. /\ lru(self)' = Append(RemoveFirst(lru(self), h), h)
      /\ in_use(self)' = RemoveFirst(in_use(self), h)
  BY <1>1, SelfTag, MoveLists DEF lru, in_use
<1>3. in_use(self)' = <<>>
  <2>1. RemoveFirst(<<>>, h) = <<>>
    BY DEF RemoveFirst
  <2> QED BY <1>2, <2>1 DEF LruOnly
<1>4. lru(self) \in Seq(Node) /\ Inj(lru(self))
  BY Fills DEF Filling
<1>5. Refreshed(lru(self), lru(self)', h, m)
  BY <1>2, <1>4, RefreshProps
<1> QED BY <1>3, <1>5 DEF LruOnly

LEMMA RefreshFinds ==
  ASSUME CoreTypeOK, CoreInv, LruOnly, NEW k \in Key, NEW h \in Node, refresh(self, k, h)
  PROVE  /\ CoreTypeOK' /\ CoreInv' /\ LruOnly'
         /\ \E m \in 1..max_size : Found(k, h, m) /\ Refreshed(lru(self), lru(self)', h, m)
<1> DEFINE s == lru(self)
           n == Len(s)
<1>1. /\ s \in Seq(Node) /\ Inj(s) /\ On(self, "lru") = Range(s)
      /\ n \in Nat /\ size[self] = n /\ n <= max_size
      /\ free(self) = <<>> => n = max_size
  BY Fills DEF Filling
<1>2. Range(s) = {FromEnd(s, m) : m \in 1..n}
  <2>1. Range(s) = {s[i] : i \in 1..n}
    BY <1>1, RangeEquality
  <2>2. \A i \in 1..n : n + 1 - i \in 1..n /\ n + 1 - (n + 1 - i) = i
    BY <1>1
  <2> QED BY <2>1, <2>2 DEF FromEnd
<1>3. max_size \in Nat /\ max_size > 1
  <2>1. SizeOf(0) = min_size /\ SizeOf(num_ticks - 1) = max_size /\ 0 < num_ticks - 1
        /\ num_ticks - 1 \in Int
    BY Ticks, Sizes
  <2>2. SizeOf(0) + tick <= SizeOf(num_ticks - 1)
    BY <2>1, Sizes
  <2> QED BY <2>1, <2>2, Ticks
<1>4. CASE h = table[k] /\ lru_refresh(self, h)
                        /\ UNCHANGED <<size, capacity, key, refs, table, extra_pool>>
  <2>1. h # Nil /\ h \in Resident(self)
    BY <1>4, SelfTag, NilAssumption DEF CoreInv, TableAgrees
  <2>2. h \in On(self, "lru")
    <3>1. On(self, "in_use") = {}
      <4>1. Range(<<>>) = {}
        BY DEF Range
      <4> QED BY <4>1 DEF LruOnly, in_use, On
    <3> QED BY <2>1, <3>1 DEF Resident
  <2>3. refs[h] = 1
    BY <2>2, SelfTag DEF CoreInv, RefState
  <2>4. lookup_refresh(self, h, FALSE)
    BY <1>4, <2>3 DEF lookup_refresh
  <2>5. CoreTypeOK' /\ CoreInv'
    BY <2>1, <2>4, SelfTag, LookupRefreshKeeps
  <2>6. PICK m \in 1..n : FromEnd(s, m) = h
    BY <1>1, <1>2, <2>2
  <2>7. m \in 1..(n + 1) /\ m <= n /\ ~(m > n) /\ m \in 1..max_size /\ m <= n + 1
    BY <1>1, <1>3, <2>6
  <2>8. list' = move(list, <<self, "lru">>, h)
    BY <1>4 DEF lru_refresh
  <2>9. LruOnly' /\ Refreshed(s, lru(self)', h, m)
    <3> HIDE DEF n
    <3> QED BY <1>4, <2>6, <2>7, <2>8, Moves1 DEF n
  <2>10. Found(k, h, m)
    BY <1>4, <2>1, <2>6, <2>7 DEF Found
  <2> QED BY <2>5, <2>7, <2>9, <2>10
<1>5. CASE table[k] = Nil /\ insert_new(self, k, FALSE, h)
  <2>1. CoreTypeOK' /\ CoreInv'
    BY <1>5, SelfTag, InsertKeeps
  <2>2. /\ CanAlloc(self) /\ h = alloc_node(self)
        /\ list' = move(list, <<self, "lru">>, h)
        /\ UNCHANGED capacity
    BY <1>5 DEF insert_new
  <2> DEFINE m == IF Evicts(self) THEN n ELSE n + 1
  <2>3. /\ m \in 1..(n + 1)
        /\ m <= n => FromEnd(s, m) = h /\ m = max_size
        /\ m > n => h \notin Range(s)
    <3>1. CASE Evicts(self)
      <4>1. s # <<>> /\ h = Head(s) /\ n = max_size
        BY <1>1, <2>2, <3>1 DEF CanAlloc, Evicts, alloc_node
      <4>2. h = s[1] /\ n + 1 - n = 1
        BY <1>1, <4>1
      <4>3. FromEnd(s, n) = h
        BY <4>2 DEF FromEnd
      <4> QED BY <1>1, <1>3, <3>1, <4>1, <4>3
    <3>2. CASE ~Evicts(self)
      <4>1. h \in On(self, "free")
        BY <2>2, <3>2, SelfTag, OnNodes DEF Evicts, alloc_node, free, Kind
      <4>2. h \notin Range(s)
        BY <1>1, <4>1, SelfTag, OnUnique DEF CoreInv, OneList, Kind
      <4> QED BY <1>1, <3>2, <4>2
    <3> QED BY <3>1, <3>2
  <2> HIDE DEF m
  <2>4. LruOnly' /\ Refreshed(s, lru(self)', h, m)
    BY <2>2, <2>3, Moves1
  <2>5. Filling'
    BY <2>1, <2>4, FillsNext
  <2>6. m = Len(lru(self)')
    <3>1. Len(lru(self)') = IF m > n THEN n + 1 ELSE n
      BY <2>4 DEF Refreshed
    <3> HIDE DEF n
    <3> QED BY <1>1, <3>1 DEF m
  <2>7. m = size'[self] /\ m \in 1..max_size /\ m <= n + 1
    BY <1>1, <1>3, <2>3, <2>5, <2>6 DEF Filling
  <2>8. Found(k, h, m)
    BY <1>5, <2>3, <2>7 DEF Found
  <2> QED BY <2>1, <2>4, <2>7, <2>8
<1>6. ~alloc_fails(self, h)
  BY NilAssumption DEF alloc_fails
<1> QED BY <1>4, <1>5, <1>6 DEF refresh

-----------------------------------------------------------------------------
(* The neighbour towards the newest end.                                   *)
LEMMA AfterIs ==
  ASSUME NEW S, NEW s \in Seq(S), Inj(s), NEW d \in 1..(Len(s) - 1)
  PROVE  after(s, FromEnd(s, d + 1)) = FromEnd(s, d)
<1> DEFINE n == Len(s)
           e == FromEnd(s, d + 1)
<1>1. n \in Nat /\ d \in 1..(n - 1) /\ Len(s) = n
  OBVIOUS
<1>2. n - d \in 1..n /\ e = s[n - d] /\ n - d # n
  <2>1. n + 1 - (d + 1) = n - d
    BY <1>1
  <2> QED BY <1>1, <2>1 DEF FromEnd
<1> HIDE DEF n, e
<1>3. \A j \in 1..n : s[j] = e <=> j = n - d
  BY <1>1, <1>2 DEF Inj
<1>4. (CHOOSE j \in 1..Len(s) : s[j] = e) = n - d
  BY <1>1, <1>2, <1>3
<1>5. after(s, e) = s[(n - d) + 1]
  BY <1>1, <1>2, <1>4 DEF after
<1>6. (n - d) + 1 = n + 1 - d
  BY <1>1
<1> QED BY <1>1, <1>5, <1>6 DEF FromEnd, e

(* The nodes of a list, and each by its depth only.                        *)
LEMMA Depths ==
  ASSUME NEW S, NEW s \in Seq(S), Inj(s)
  PROVE  /\ \A d \in 1..Len(s) : FromEnd(s, d) \in S /\ FromEnd(s, d) \in Range(s)
         /\ \A d, c \in 1..Len(s) : FromEnd(s, d) = FromEnd(s, c) => d = c
         /\ \A e \in Range(s) : \E d \in 1..Len(s) : e = FromEnd(s, d)
         /\ Len(s) > 0 => Last(s) = FromEnd(s, 1) /\ Head(s) = FromEnd(s, Len(s))
<1> DEFINE n == Len(s)
<1>1. n \in Nat /\ Len(s) = n
  OBVIOUS
<1>2. Range(s) = {s[i] : i \in 1..n}
  BY RangeEquality
<1>3. \A d \in 1..n : n + 1 - d \in 1..n /\ n + 1 - (n + 1 - d) = d
  BY <1>1
<1>4. \A d \in 1..n : FromEnd(s, d) = s[n + 1 - d]
  BY <1>1 DEF FromEnd
<1>5. \A d \in 1..n : FromEnd(s, d) \in S /\ FromEnd(s, d) \in Range(s)
  BY <1>1, <1>2, <1>3, <1>4
<1>6. \A d, c \in 1..n : FromEnd(s, d) = FromEnd(s, c) => d = c
  <2>1. SUFFICES ASSUME NEW d \in 1..n, NEW c \in 1..n, s[n + 1 - d] = s[n + 1 - c]
                 PROVE  d = c
    BY <1>4
  <2>2. n + 1 - d = n + 1 - c
    BY <1>3, <2>1 DEF Inj
  <2> QED BY <1>1, <2>2
<1>7. \A e \in Range(s) : \E d \in 1..n : e = FromEnd(s, d)
  <2>1. SUFFICES ASSUME NEW i \in 1..n PROVE s[i] = FromEnd(s, n + 1 - i) /\ n + 1 - i \in 1..n
    BY <1>2
  <2> QED BY <1>3, <1>4, <2>1
<1>8. n > 0 => Last(s) = FromEnd(s, 1) /\ Head(s) = FromEnd(s, n)
  <2>1. ASSUME n > 0 PROVE Last(s) = s[n] /\ Head(s) = s[1]
    BY <2>1, EmptySeq DEF Last
  <2>2. n > 0 => 1 \in 1..n /\ n \in 1..n /\ n + 1 - 1 = n /\ n + 1 - n = 1
    BY <1>1
  <2> QED BY <1>4, <2>1, <2>2
<1> QED BY <1>5, <1>6, <1>7, <1>8 DEF n

-----------------------------------------------------------------------------
(* SizeIdxExact and BoundariesExact, by depth.                             *)
Classed ==
  \A d \in 1..Len(lru(self)) :
    size_idx[FromEnd(lru(self), d)] \in Nat /\ Class(size_idx[FromEnd(lru(self), d)], d)

BoundaryOf(s, i) == IF Len(s) < SizeOf(i) THEN Nil ELSE FromEnd(s, SizeOf(i))

Bounded == boundaries = [i \in 0..(num_ticks - 2) |-> BoundaryOf(lru(self), i)]

(* What an access is about: the node h of depth m, the class of m.         *)
Accessed(k, h, m, idx) ==
  /\ Filling /\ Filling' /\ Found(k, h, m) /\ Refreshed(lru(self), lru(self)', h, m)
  /\ m \in 1..max_size /\ idx \in Idx /\ idx \in Nat /\ Class(idx, m)
  /\ m = max_size => idx = num_ticks - 1

LEMMA AccessedClass ==
  ASSUME CoreTypeOK, CoreInv, LruOnly, Classed,
         NEW k \in Key, NEW h \in Node, refresh(self, k, h),
         NEW idx, idx = IF table[k] # Nil THEN size_idx[h] ELSE size_idx_new(size'[self])
  PROVE  \E m \in 1..max_size : Accessed(k, h, m, idx)
<1>1. PICK m \in 1..max_size : Found(k, h, m) /\ Refreshed(lru(self), lru(self)', h, m)
  BY RefreshFinds
<1>2. Filling /\ Filling'
  BY Fills, FillsNext, RefreshFinds
<1>3. m \in Nat /\ m > 0 /\ m <= max_size
  BY <1>1, Ticks
<1>4. idx \in Nat /\ Class(idx, m)
  <2>1. CASE table[k] # Nil
    <3>1. m <= Len(lru(self)) /\ FromEnd(lru(self), m) = h /\ Len(lru(self)) \in Nat
      BY <1>1, <1>2, <2>1 DEF Found, Filling
    <3>2. m \in 1..Len(lru(self))
      BY <1>3, <3>1
    <3> QED BY <2>1, <3>1, <3>2 DEF Classed
  <2>2. CASE table[k] = Nil
    <3>1. m = size'[self] /\ idx = size_idx_new(m)
      BY <1>1, <2>2 DEF Found
    <3> QED BY <1>3, <3>1, NewClass
  <2> QED BY <2>1, <2>2
<1>5. idx \in Idx /\ (m = max_size => idx = num_ticks - 1)
  BY <1>3, <1>4, ClassIsIdx
<1> QED BY <1>1, <1>2, <1>4, <1>5 DEF Accessed

(* Which boundaries there are, and how they lie with respect to m.         *)
LEMMA Boundary ==
  ASSUME NEW k, NEW h, NEW m, NEW idx, Accessed(k, h, m, idx), NEW i \in 0..(num_ticks - 2)
  PROVE  /\ SizeOf(i) \in Nat /\ SizeOf(i) > 1 /\ SizeOf(i) < max_size /\ max_size \in Nat
         /\ m \in Nat /\ idx \in Nat
         /\ i < idx <=> SizeOf(i) < m
<1>1. /\ tick \in Nat /\ tick > 0 /\ min_size \in Nat /\ min_size > 1
      /\ max_size \in Nat /\ num_ticks \in Int
      /\ SizeOf(num_ticks - 1) = max_size
  BY Ticks
<1>2. m \in 1..max_size /\ idx \in Nat /\ Class(idx, m)
  BY DEF Accessed
<1> DEFINE l == num_ticks - 1
<1>3. l \in Int /\ i \in Nat /\ i < l /\ SizeOf(l) = max_size
  BY <1>1
<1> HIDE DEF l
<1>4. /\ SizeOf(i) \in Int /\ SizeOf(idx) \in Int /\ SizeOf(0) = min_size
      /\ SizeOf(idx - 1) = SizeOf(idx) - tick
  BY <1>2, <1>3, Sizes
<1>5. SizeOf(i) + tick <= SizeOf(l)
  BY <1>3, Sizes
<1>6. i = 0 \/ SizeOf(0) + tick <= SizeOf(i)
  BY <1>3, Sizes
<1>7. i < idx => SizeOf(i) + tick <= SizeOf(idx)
  BY <1>2, <1>3, Sizes
<1>8. idx < i => SizeOf(idx) + tick <= SizeOf(i)
  BY <1>2, <1>3, Sizes
<1>9. SizeOf(i) \in Nat /\ SizeOf(i) > 1 /\ SizeOf(i) < max_size
  BY <1>1, <1>3, <1>4, <1>5, <1>6
<1>10. i < idx => SizeOf(i) < m
  <2>1. SUFFICES ASSUME i < idx PROVE SizeOf(i) < m
    OBVIOUS
  <2>2. m > SizeOf(idx) - tick
    BY <1>2, <1>3, <1>4, <2>1 DEF Class
  <2> QED BY <1>1, <1>2, <1>4, <1>7, <2>1, <2>2
<1>11. SizeOf(i) < m => i < idx
  <2>1. SUFFICES ASSUME ~(i < idx) PROVE m <= SizeOf(i)
    BY <1>1, <1>2, <1>9
  <2>2. m <= SizeOf(idx)
    BY <1>2 DEF Class
  <2>3. SizeOf(idx) <= SizeOf(i)
    <3>1. i = idx \/ idx < i
      BY <1>2, <1>3, <2>1
    <3> QED BY <1>1, <1>4, <1>8, <3>1
  <2> QED BY <1>2, <1>4, <2>2, <2>3
<1> QED BY <1>1, <1>2, <1>9, <1>10, <1>11

(* The lengths before and after, and m.                                    *)
LEMMA Lengths ==
  ASSUME NEW k, NEW h, NEW m, NEW idx, Accessed(k, h, m, idx)
  PROVE  /\ Len(lru(self)) \in Nat /\ Len(lru(self)') \in Nat /\ m \in Nat /\ m > 0
         /\ Len(lru(self)') <= max_size /\ max_size \in Nat
         /\ m <= Len(lru(self)) => Len(lru(self)') = Len(lru(self)) /\ FromEnd(lru(self), m) = h
         /\ m > Len(lru(self)) => Len(lru(self)') = m /\ m = Len(lru(self)) + 1
         /\ table[k] = Nil => /\ m = size'[self] /\ Len(lru(self)') = m
                              /\ m <= Len(lru(self)) => m = max_size
         /\ table[k] # Nil => m <= Len(lru(self))
<1>1. /\ Len(lru(self)) \in Nat /\ Len(lru(self)') \in Nat
      /\ Len(lru(self)') <= max_size /\ size'[self] = Len(lru(self)')
      /\ Len(lru(self)') = IF m > Len(lru(self)) THEN Len(lru(self)) + 1 ELSE Len(lru(self))
      /\ m \in 1..max_size /\ m <= Len(lru(self)) + 1
  BY DEF Accessed, Filling, Refreshed, Found
<1>2. max_size \in Nat
  BY Ticks
<1> QED BY <1>1, <1>2 DEF Accessed, Found

(* The boundary at the index of the accessed node.                         *)
LEMMA OwnExact ==
  ASSUME NEW k, NEW h \in Node, NEW m, NEW idx, Accessed(k, h, m, idx), Bounded
  PROVE  own_boundary(h, table[k] # Nil, idx, size'[self])
           = [i \in 0..(num_ticks - 2) |-> IF i = idx THEN BoundaryOf(lru(self)', i)
                                                      ELSE BoundaryOf(lru(self), i)]
<1> DEFINE s == lru(self)
           t == lru(self)'
           n == Len(s)
           q == Len(t)
           B == 0..(num_ticks - 2)
           o == own_boundary(h, table[k] # Nil, idx, size'[self])
<1>1. /\ n \in Nat /\ q \in Nat /\ m \in Nat /\ m > 0 /\ max_size \in Nat
      /\ m <= n => q = n /\ FromEnd(s, m) = h
      /\ m > n => q = m /\ m = n + 1
      /\ table[k] = Nil => m = size'[self] /\ q = m /\ (m <= n => m = max_size)
      /\ table[k] # Nil => m <= n
  BY Lengths
<1>2. /\ s \in Seq(Node) /\ Inj(s) /\ t \in Seq(Node) /\ Inj(t)
      /\ \A d \in 1..n : d < m => FromEnd(t, d + 1) = FromEnd(s, d)
      /\ \A d \in 1..n : d > m => FromEnd(t, d) = FromEnd(s, d)
      /\ idx \in Idx
  BY DEF Accessed, Filling, Refreshed
<1>3. \A i \in B : /\ SizeOf(i) \in Nat /\ SizeOf(i) > 1 /\ SizeOf(i) < max_size
                   /\ i < idx <=> SizeOf(i) < m
  BY Boundary
<1>4. boundaries = [i \in B |-> BoundaryOf(s, i)]
  BY DEF Bounded
<1>5. idx < num_ticks - 1 <=> idx \in B
  BY <1>2, Ticks DEF Idx
<1>6. h # Nil
  BY NilAssumption
<1>7. /\ \A d \in 1..n : FromEnd(s, d) \in Node
      /\ \A d, c \in 1..n : FromEnd(s, d) = FromEnd(s, c) => d = c
      /\ n > 0 => Last(s) = FromEnd(s, 1)
      /\ q > 0 => Head(t) = FromEnd(t, q)
  BY <1>2, Depths
<1>8. CASE idx \notin B
  <2>1. o = boundaries
    BY <1>5, <1>8 DEF own_boundary
  <2> HIDE DEF o
  <2> QED BY <1>4, <1>8, <2>1 DEF o
<1>9. CASE idx \in B
  <2> DEFINE S == SizeOf(idx)
  <2>1. S \in Nat /\ S > 1 /\ S < max_size /\ m <= S /\ m < max_size
    BY <1>1, <1>3, <1>9
  <2>2. boundaries[idx] = IF n < S THEN Nil ELSE FromEnd(s, S)
    BY <1>4, <1>9 DEF BoundaryOf
  <2>3. BoundaryOf(t, idx) = IF q < S THEN Nil ELSE FromEnd(t, S)
    BY DEF BoundaryOf
  <2>4. S = idx * tick + min_size
    BY DEF SizeOf
  <2> HIDE DEF S
  <2>5. o = [boundaries EXCEPT ![idx] = BoundaryOf(t, idx)]
    <3>1. CASE table[k] # Nil
      <4>1. m \in 1..n /\ q = n /\ FromEnd(s, m) = h
        BY <1>1, <3>1
      <4>2. CASE boundaries[idx] = h
        <5>1. ~(n < S) /\ FromEnd(s, S) = h /\ S \in 1..n
          BY <1>1, <1>6, <2>1, <2>2, <4>2
        <5>2. m = S
          BY <1>7, <4>1, <5>1
        <5>3. 1 \in 1..n /\ m - 1 \in 1..(n - 1) /\ m - 1 \in 1..n /\ (m - 1) + 1 = m
              /\ m - 1 < m /\ m # 1
          BY <1>1, <2>1, <4>1, <5>2
        <5>4. h # Last(s)
          BY <1>1, <1>7, <4>1, <5>3
        <5>5. after(s, h) = FromEnd(s, m - 1)
          BY <1>2, <4>1, <5>3, AfterIs
        <5>6. successor(h) = FromEnd(s, m - 1)
          BY <5>4, <5>5 DEF successor
        <5>7. successor(h) = FromEnd(t, S)
          BY <1>2, <5>2, <5>3, <5>6
        <5>8. o = [boundaries EXCEPT ![idx] = successor(h)]
          BY <1>5, <1>9, <3>1, <4>2 DEF own_boundary
        <5> QED BY <2>3, <4>1, <5>1, <5>7, <5>8
      <4>3. CASE boundaries[idx] # h
        <5>1. o = boundaries
          BY <3>1, <4>3 DEF own_boundary
        <5>2. boundaries[idx] = BoundaryOf(t, idx)
          <6>1. CASE n < S
            BY <2>2, <2>3, <4>1, <6>1
          <6>2. CASE ~(n < S)
            <7>1. S \in 1..n /\ S # m
              BY <1>1, <2>1, <2>2, <4>1, <4>3, <6>2
            <7>2. S > m
              BY <1>1, <2>1, <7>1
            <7> QED BY <1>2, <2>2, <2>3, <4>1, <6>2, <7>1, <7>2
          <6> QED BY <6>1, <6>2
        <5> HIDE DEF o
        <5> QED BY <1>4, <1>9, <5>1, <5>2
      <4> QED BY <4>2, <4>3
    <3>2. CASE table[k] = Nil
      <4>1. m > n /\ q = m /\ m = n + 1 /\ size'[self] = q
        BY <1>1, <2>1, <3>2
      <4>2. CASE q = S
        <5>1. o = [boundaries EXCEPT ![idx] = Head(t)]
          BY <1>5, <1>9, <2>4, <3>2, <4>1, <4>2 DEF own_boundary
        <5>2. Head(t) = FromEnd(t, S)
          BY <1>1, <1>7, <4>1, <4>2
        <5>3. ~(q < S)
          BY <1>1, <2>1, <4>2
        <5>4. BoundaryOf(t, idx) = Head(t)
          BY <2>3, <5>2, <5>3
        <5> HIDE DEF o
        <5> QED BY <5>1, <5>4
      <4>3. CASE q # S
        <5>1. o = boundaries
          BY <2>4, <3>2, <4>1, <4>3 DEF own_boundary
        <5>2. n < S /\ q < S
          BY <1>1, <2>1, <4>1, <4>3
        <5> HIDE DEF o
        <5> QED BY <1>4, <1>9, <2>2, <2>3, <5>1, <5>2
      <4> QED BY <4>2, <4>3
    <3> QED BY <3>1, <3>2
  <2> HIDE DEF o
  <2> QED BY <1>4, <1>9, <2>5 DEF o
<1> QED BY <1>8, <1>9

(* The other boundaries and the classes of the nodes they pass.            *)
LEMMA ShiftExact ==
  ASSUME NEW k, NEW h \in Node, NEW m, NEW idx, Accessed(k, h, m, idx), Classed,
         size_idx \in [Node -> Idx], NEW bounds,
         bounds = [i \in 0..(num_ticks - 2) |-> IF i = idx THEN BoundaryOf(lru(self)', i)
                                                           ELSE BoundaryOf(lru(self), i)],
         shift_boundaries(h, idx, bounds)
  PROVE  Bounded' /\ Classed' /\ size_idx' \in [Node -> Idx]
<1> DEFINE s == lru(self)
           t == lru(self)'
           n == Len(s)
           q == Len(t)
           B == 0..(num_ticks - 2)
<1>1. /\ n \in Nat /\ q \in Nat /\ m \in Nat /\ m > 0 /\ max_size \in Nat /\ q <= max_size
      /\ m <= n => q = n
      /\ m > n => q = m /\ m = n + 1
  BY Lengths
<1>2. /\ s \in Seq(Node) /\ Inj(s) /\ t \in Seq(Node) /\ Inj(t)
      /\ FromEnd(t, 1) = h
      /\ \A d \in 1..n : d < m => FromEnd(t, d + 1) = FromEnd(s, d)
      /\ \A d \in 1..n : d > m => FromEnd(t, d) = FromEnd(s, d)
      /\ idx \in Idx /\ idx \in Nat /\ Class(idx, m)
      /\ On(self, "lru")' = Range(t)
  BY DEF Accessed, Filling, Refreshed
<1>3. \A i \in B : /\ SizeOf(i) \in Nat /\ SizeOf(i) > 1 /\ SizeOf(i) < max_size
                   /\ i < idx <=> SizeOf(i) < m
  BY Boundary
<1>4. /\ \A d \in 1..n : FromEnd(s, d) \in Node
      /\ \A d \in 1..q : FromEnd(t, d) \in Node /\ FromEnd(t, d) \in Range(t)
      /\ \A d, c \in 1..q : FromEnd(t, d) = FromEnd(t, c) => d = c
      /\ \A e \in Range(t) : \E d \in 1..q : e = FromEnd(t, d)
  BY <1>2, Depths
<1>5. /\ num_ticks \in Int /\ num_ticks > 2
      /\ idx <= num_ticks - 1 /\ 0..(idx - 1) \subseteq B
  <2>1. num_ticks \in Int /\ num_ticks > 2
    BY Ticks
  <2> QED BY <1>2, <2>1 DEF Idx
<1>6. ASSUME NEW i \in 0..(idx - 1)
      PROVE  /\ SizeOf(i) \in 1..(q - 1) /\ SizeOf(i) + 1 \in 1..q
             /\ SizeOf(i) \in Nat /\ SizeOf(i) < m
             /\ bounds[i] = FromEnd(t, SizeOf(i) + 1) /\ bounds[i] # Nil
             /\ after(t, bounds[i]) = FromEnd(t, SizeOf(i))
             /\ BoundaryOf(t, i) = FromEnd(t, SizeOf(i))
  <2> DEFINE S == SizeOf(i)
  <2>1. i \in B /\ i # idx /\ i < idx
    BY <1>2, <1>5
  <2>2. S \in Nat /\ S > 1 /\ S < m
    BY <1>3, <2>1
  <2> HIDE DEF S
  <2>3. S \in 1..n /\ S \in 1..(q - 1) /\ S + 1 \in 1..q /\ ~(n < S) /\ ~(q < S)
    BY <1>1, <2>2
  <2>4. bounds[i] = BoundaryOf(s, i)
    BY <2>1
  <2>5. BoundaryOf(s, i) = FromEnd(s, S) /\ BoundaryOf(t, i) = FromEnd(t, S)
    BY <2>3 DEF BoundaryOf, S
  <2>6. FromEnd(s, S) = FromEnd(t, S + 1) /\ FromEnd(s, S) \in Node
    BY <1>2, <1>4, <2>2, <2>3
  <2>7. after(t, FromEnd(t, S + 1)) = FromEnd(t, S)
    BY <1>2, <2>3, AfterIs
  <2> QED BY <2>2, <2>3, <2>4, <2>5, <2>6, <2>7, NilAssumption DEF S
<1> DEFINE shifted == {i \in 0..(idx - 1) : bounds[i] # Nil}
<1>7. shifted = 0..(idx - 1)
  BY <1>6
<1>8. /\ boundaries' = [i \in B |-> IF i \in 0..(idx - 1) THEN after(t, bounds[i]) ELSE bounds[i]]
      /\ size_idx' = [[e \in Node |->
                         size_idx[e] + Cardinality({i \in 0..(idx - 1) : bounds[i] = e})]
                       EXCEPT ![h] = 0]
  BY <1>7 DEF shift_boundaries
<1> HIDE DEF shifted
<1>9. Bounded'
  <2>1. ASSUME NEW i \in B
        PROVE  (IF i \in 0..(idx - 1) THEN after(t, bounds[i]) ELSE bounds[i]) = BoundaryOf(t, i)
    <3>1. CASE i \in 0..(idx - 1)
      BY <1>6, <3>1
    <3>2. CASE i = idx
      BY <1>2, <3>2
    <3>3. CASE i \notin 0..(idx - 1) /\ i # idx
      <4> DEFINE S == SizeOf(i)
      <4>1. ~(i < idx)
        BY <1>2, <1>5, <3>3
      <4>2. S \in Nat /\ S > 1 /\ m <= S
        BY <1>1, <1>3, <4>1
      <4>3. bounds[i] = BoundaryOf(s, i)
        BY <3>3
      <4>4. S # m
        <5>1. i \in Int /\ idx \in Int /\ idx < i /\ tick \in Nat /\ tick > 0
          BY <1>2, <1>5, <3>3, <4>1, Ticks
        <5>2. SizeOf(idx) + tick <= SizeOf(i) /\ SizeOf(idx) \in Int
          BY <5>1, Sizes
        <5>3. m <= SizeOf(idx)
          BY <1>2 DEF Class
        <5> HIDE DEF S
        <5> QED BY <1>1, <4>2, <5>1, <5>2, <5>3 DEF S
      <4>5. BoundaryOf(s, i) = IF n < S THEN Nil ELSE FromEnd(s, S)
        BY DEF BoundaryOf
      <4>6. BoundaryOf(t, i) = IF q < S THEN Nil ELSE FromEnd(t, S)
        BY DEF BoundaryOf
      <4> HIDE DEF S
      <4>7. CASE n < S
        <5>1. q < S
          BY <1>1, <4>2, <4>4, <4>7
        <5> QED BY <3>3, <4>3, <4>5, <4>6, <4>7, <5>1
      <4>8. CASE ~(n < S)
        <5>1. S \in 1..n /\ S > m /\ ~(q < S)
          BY <1>1, <4>2, <4>4, <4>8
        <5> QED BY <1>2, <3>3, <4>3, <4>5, <4>6, <4>8, <5>1
      <4> QED BY <4>7, <4>8
    <3> QED BY <3>1, <3>2, <3>3
  <2>2. boundaries' = [i \in B |-> BoundaryOf(t, i)]
    BY <1>8, <2>1
  <2> QED BY <2>2 DEF Bounded, BoundaryOf
<1>10. /\ size_idx'[h] = 0
       /\ \A e \in Node : e # h =>
            size_idx'[e] = size_idx[e] + Cardinality({i \in 0..(idx - 1) : bounds[i] = e})
  BY <1>8
<1>11. ASSUME NEW d \in 1..q
       PROVE  size_idx'[FromEnd(t, d)] \in Nat /\ Class(size_idx'[FromEnd(t, d)], d)
  <2> DEFINE e == FromEnd(t, d)
             P == {i \in 0..(idx - 1) : bounds[i] = e}
  <2>0. d \in Nat /\ d >= 1 /\ d <= q
    BY <1>1
  <2>1. P = {i \in 0..(idx - 1) : SizeOf(i) + 1 = d}
    BY SMTT(60), <1>4, <1>6
  <2>2. CASE d = 1
    <3>1. 1 <= SizeOf(0)
      BY Sizes, Ticks
    <3>2. size_idx'[e] = 0
      BY <1>2, <1>10, <2>2
    <3> QED BY <2>2, <3>1, <3>2 DEF Class
  <2>3. CASE d > 1 /\ d <= m
    <3> DEFINE b == d - 1
               c == size_idx[e]
    <3>1. b \in 1..n /\ b \in Nat /\ b < m /\ b + 1 = d
      BY <1>1, <2>0, <2>3
    <3>2. e = FromEnd(s, b)
      BY <1>2, <3>1
    <3> HIDE DEF b
    <3>3. c \in Nat /\ Class(c, b)
      BY <3>1, <3>2 DEF Classed
    <3>4. e # h /\ e \in Node
      BY <1>1, <1>2, <1>4, <2>0, <2>3
    <3> HIDE DEF c, e
    <3>5. P = IF b = SizeOf(c) THEN {c} ELSE {}
      <4>1. ASSUME NEW i \in 0..(idx - 1), SizeOf(i) + 1 = d
            PROVE  i = c /\ b = SizeOf(c)
        <5>1. i \in Nat /\ SizeOf(i) \in Nat
          BY <1>6
        <5>2. SizeOf(i) = b
          BY <3>1, <4>1, <5>1
        <5>3. tick \in Nat /\ tick > 0 /\ SizeOf(i - 1) = SizeOf(i) - tick
          BY <5>1, Sizes, Ticks
        <5>4. Class(i, b)
          BY <3>1, <5>2, <5>3 DEF Class
        <5>5. i = c
          BY <3>1, <3>3, <5>1, <5>4, OneClass
        <5> QED BY <5>2, <5>5
      <4>2. ASSUME b = SizeOf(c) PROVE c \in 0..(idx - 1) /\ SizeOf(c) + 1 = d
        <5>1. SizeOf(idx) \in Int /\ SizeOf(c) \in Int /\ tick \in Nat /\ m <= SizeOf(idx)
              /\ (idx < c => SizeOf(idx) + tick <= SizeOf(c))
          BY <1>2, <3>3, Sizes, Ticks DEF Class
        <5>2. c < idx
          BY <1>1, <1>2, <3>1, <3>3, <4>2, <5>1
        <5> QED BY <1>2, <3>1, <3>3, <4>2, <5>2
      <4> QED BY <2>1, <4>1, <4>2
    <3>6. Cardinality(P) = IF b = SizeOf(c) THEN 1 ELSE 0
      BY <3>5, FS_Singleton, FS_EmptySet
    <3> HIDE DEF P
    <3>7. size_idx'[e] = IF b = SizeOf(c) THEN c + 1 ELSE c
      <4>1. size_idx'[e] = size_idx[e] + Cardinality(P)
        BY <1>10, <3>4 DEF P
      <4>2. size_idx'[e] = c + Cardinality(P)
        BY <4>1 DEF c
      <4> QED BY <3>3, <3>6, <4>2
    <3>8. Class(IF b = SizeOf(c) THEN c + 1 ELSE c, b + 1)
      BY <3>1, <3>3, DeeperClass
    <3>9. size_idx'[e] \in Nat /\ Class(size_idx'[e], d)
      BY <3>1, <3>3, <3>7, <3>8
    <3> QED BY <3>9 DEF e
  <2>4. CASE d > m
    <3>1. d \in 1..n
      BY <1>1, <2>0, <2>4
    <3>2. e = FromEnd(s, d)
      BY <1>2, <2>4, <3>1
    <3>3. size_idx[e] \in Nat /\ Class(size_idx[e], d)
      BY <3>1, <3>2 DEF Classed
    <3>4. e # h /\ e \in Node
      BY <1>1, <1>2, <1>4, <2>0, <2>4
    <3>5. P = {}
      <4>1. ASSUME NEW i \in 0..(idx - 1) PROVE SizeOf(i) + 1 # d
        <5>1. SizeOf(i) < m /\ SizeOf(i) \in Nat
          BY <1>6
        <5> QED BY <1>1, <2>0, <2>4, <5>1
      <4> QED BY <2>1, <4>1
    <3>6. Cardinality(P) = 0
      BY <3>5, FS_EmptySet
    <3> HIDE DEF e, P
    <3>7. size_idx'[e] = size_idx[e]
      <4>1. size_idx'[e] = size_idx[e] + Cardinality(P)
        BY <1>10, <3>4 DEF P
      <4> QED BY <3>3, <3>6, <4>1
    <3> QED BY <3>3, <3>7 DEF e
  <2> QED BY <1>1, <2>0, <2>2, <2>3, <2>4
<1>12. Classed'
  <2>1. \A d \in 1..Len(lru(self)') :
          size_idx'[FromEnd(lru(self)', d)] \in Nat /\ Class(size_idx'[FromEnd(lru(self)', d)], d)
    BY <1>11
  <2> QED BY <2>1 DEF Classed, FromEnd, Class
<1>13. ASSUME NEW e \in Node PROVE size_idx'[e] \in Idx
  <2>1. CASE e \in Range(t)
    <3>1. PICK d \in 1..q : e = FromEnd(t, d)
      BY <1>4, <2>1
    <3>2. d \in Nat /\ d <= max_size
      BY <1>1
    <3> QED BY <1>11, <3>1, <3>2, ClassIsIdx
  <2>2. CASE e \notin Range(t)
    <3>1. {i \in 0..(idx - 1) : bounds[i] = e} = {}
      <4>1. ASSUME NEW i \in 0..(idx - 1) PROVE bounds[i] # e
        <5>1. bounds[i] = FromEnd(t, SizeOf(i) + 1) /\ SizeOf(i) + 1 \in 1..q
          BY <1>6
        <5> QED BY <1>4, <2>2, <5>1
      <4> QED BY <4>1
    <3>2. e # h
      <4>1. q > 0
        BY <1>1
      <4> QED BY <1>1, <1>2, <1>4, <2>2, <4>1
    <3>3. size_idx[e] \in Idx /\ size_idx[e] + 0 = size_idx[e]
      BY <1>5 DEF Idx
    <3> QED BY <1>10, <3>1, <3>2, <3>3, FS_EmptySet
  <2> QED BY <2>1, <2>2
<1>14. size_idx' \in [Node -> Idx]
  BY <1>8, <1>13
<1> QED BY <1>9, <1>12, <1>14

-----------------------------------------------------------------------------
(* The statistics.  accum_hit_cnt sums the histogram up to each index.     *)
AccumOf(f) == CHOOSE g : g = [i \in Idx |-> f[i] + IF i = 0 THEN 0 ELSE g[i - 1]]

LEMMA AccumIs ==
  /\ accum_hit_cnt = AccumOf(reuse_distances)
  /\ accum_hit_cnt' = AccumOf(reuse_distances')
BY DEF accum_hit_cnt, AccumOf

LEMMA AccumExists ==
  ASSUME NEW f \in [Idx -> Nat]
  PROVE  AccumOf(f) = [i \in Idx |-> f[i] + IF i = 0 THEN 0 ELSE AccumOf(f)[i - 1]]
<1>1. num_ticks \in Int /\ num_ticks > 2 /\ 0 \in Idx /\ Idx \subseteq Nat
  BY Ticks DEF Idx
<1> DEFINE Upto(n, g) == g[0] = f[0] /\ \A i \in 1..n : i \in Idx => g[i] = f[i] + g[i - 1]
           C == {n \in Nat : ~\E g \in [Nat -> Nat] : Upto(n, g)}
<1>2. C = {}
  <2>1. SUFFICES ASSUME C # {} PROVE FALSE
    OBVIOUS
  <2>2. PICK n \in C : \A x \in C : n <= x
    <3>1. C \subseteq Nat
      OBVIOUS
    <3> HIDE DEF C
    <3> QED BY <2>1, <3>1, LeastNumber
  <2>3. n # 0
    <3>1. [x \in Nat |-> f[0]] \in [Nat -> Nat]
      BY <1>1
    <3>2. Upto(0, [x \in Nat |-> f[0]])
      OBVIOUS
    <3> QED BY <3>1, <3>2
  <2>4. n \in Nat /\ n - 1 \in Nat /\ n - 1 \notin C
    <3>1. C \subseteq Nat
      OBVIOUS
    <3> HIDE DEF C
    <3>2. n \in Nat /\ n - 1 \in Nat /\ n - 1 < n
      BY <2>2, <2>3, <3>1
    <3> QED BY <2>2, <3>2
  <2>5. PICK g \in [Nat -> Nat] : Upto(n - 1, g)
    BY <2>4
  <2> DEFINE g2 == [g EXCEPT ![n] = IF n \in Idx THEN f[n] + g[n - 1] ELSE 0]
  <2>6. g2 \in [Nat -> Nat] /\ g2[n] = IF n \in Idx THEN f[n] + g[n - 1] ELSE 0
    BY <2>4
  <2>7. \A i \in Nat : i # n => g2[i] = g[i]
    BY <2>4
  <2>8. Upto(n, g2)
    <3>1. g2[0] = f[0]
      BY <2>3, <2>5, <2>7
    <3>2. ASSUME NEW i \in 1..n, i \in Idx PROVE g2[i] = f[i] + g2[i - 1]
      <4>1. i - 1 \in Nat /\ i - 1 # n /\ i \in Nat
        BY <2>4
      <4>2. g2[i - 1] = g[i - 1]
        BY <2>7, <4>1
      <4>3. CASE i = n
        BY <2>6, <3>2, <4>2, <4>3
      <4>4. CASE i # n
        <5>1. i \in 1..(n - 1) /\ g2[i] = g[i]
          BY <2>4, <2>7, <4>1, <4>4
        <5> QED BY <2>5, <3>2, <4>2, <5>1
      <4> QED BY <4>3, <4>4
    <3> QED BY <3>1, <3>2
  <2> HIDE DEF g2, Upto
  <2> QED BY <2>2, <2>6, <2>8
<1>3. PICK g \in [Nat -> Nat] : Upto(num_ticks, g)
  <2>1. num_ticks \in Nat
    BY <1>1
  <2> HIDE DEF Upto
  <2> QED BY <1>2, <2>1
<1> DEFINE a == [i \in Idx |-> g[i]]
<1>4. ASSUME NEW i \in Idx PROVE a[i] = f[i] + IF i = 0 THEN 0 ELSE a[i - 1]
  <2>1. CASE i = 0
    BY <1>1, <1>3, <2>1
  <2>2. CASE i # 0
    <3>1. i \in 1..num_ticks /\ i - 1 \in Idx
      BY <1>1, <2>2 DEF Idx
    <3> QED BY <1>3, <2>2, <3>1
  <2> QED BY <2>1, <2>2
<1>5. a = [i \in Idx |-> f[i] + IF i = 0 THEN 0 ELSE a[i - 1]]
  BY <1>4
<1> QED BY <1>5 DEF AccumOf

(* What holds of a sum up to i, if it carries over to the next index.      *)
LEMMA AccumProps ==
  ASSUME NEW f \in [Idx -> Nat]
  PROVE  /\ AccumOf(f) \in [Idx -> Nat]
         /\ AccumOf(f)[0] = f[0]
         /\ \A i \in Idx \ {0} : AccumOf(f)[i] = f[i] + AccumOf(f)[i - 1]
         /\ \A i, j \in Idx : i <= j => AccumOf(f)[i] <= AccumOf(f)[j]
<1> DEFINE g == AccumOf(f)
<1>0. num_ticks \in Int /\ num_ticks > 2 /\ 0 \in Idx /\ Idx \subseteq Nat
  BY Ticks DEF Idx
<1>1. g = [i \in Idx |-> f[i] + IF i = 0 THEN 0 ELSE g[i - 1]]
  BY AccumExists
<1> HIDE DEF g
<1>2. DOMAIN g = Idx /\ \A i \in Idx : g[i] = f[i] + IF i = 0 THEN 0 ELSE g[i - 1]
  BY <1>1
<1>3. \A i \in Idx : i # 0 => i - 1 \in Idx /\ i - 1 \in Nat
  BY <1>0 DEF Idx
<1>4. \A i \in Idx : g[i] \in Nat
  <2> DEFINE C == {i \in Idx : g[i] \notin Nat}
  <2>1. SUFFICES ASSUME C # {} PROVE FALSE
    OBVIOUS
  <2>2. PICK n \in C : \A x \in C : n <= x
    <3>1. C \subseteq Nat
      BY <1>0
    <3> HIDE DEF C
    <3> QED BY <2>1, <3>1, LeastNumber
  <2>3. CASE n = 0
    <3>1. g[0] = f[0] + 0 /\ f[0] \in Nat
      BY <1>0, <1>2
    <3> QED BY <2>2, <2>3, <3>1
  <2>4. CASE n # 0
    <3>1. n - 1 \in Idx /\ n - 1 \notin C /\ n \in Nat
      BY <1>0, <1>3, <2>2, <2>4
    <3>2. g[n] = f[n] + g[n - 1] /\ f[n] \in Nat /\ g[n - 1] \in Nat
      BY <1>2, <2>2, <2>4, <3>1
    <3> QED BY <2>2, <3>2
  <2> QED BY <2>3, <2>4
<1>5. g \in [Idx -> Nat]
  BY <1>1, <1>4
<1>6. g[0] = f[0]
  <2>1. g[0] = f[0] + 0 /\ f[0] \in Nat
    BY <1>0, <1>2
  <2> QED BY <2>1
<1>7. ASSUME NEW i \in Idx PROVE \A j \in Idx : i <= j => g[i] <= g[j]
  <2> DEFINE C == {j \in Idx : i <= j /\ ~(g[i] <= g[j])}
  <2>1. SUFFICES ASSUME C # {} PROVE FALSE
    OBVIOUS
  <2>2. PICK n \in C : \A x \in C : n <= x
    <3>1. C \subseteq Nat
      BY <1>0
    <3> HIDE DEF C
    <3> QED BY <2>1, <3>1, LeastNumber
  <2>3. n # i /\ i \in Nat /\ n \in Nat /\ i <= n /\ n \in Idx
    BY <1>0, <1>4, <2>2
  <2>4. n # 0 /\ n - 1 \in Idx /\ i <= n - 1 /\ n - 1 \notin C
    BY <1>3, <2>2, <2>3
  <2>5. g[i] <= g[n - 1]
    BY <2>4
  <2>6. g[n] = f[n] + g[n - 1] /\ f[n] \in Nat /\ g[n - 1] \in Nat /\ g[i] \in Nat
    BY <1>2, <1>4, <2>3, <2>4
  <2>7. g[i] <= g[n]
    BY <2>5, <2>6
  <2> QED BY <2>2, <2>7
<1>8. \A i \in Idx \ {0} : g[i] = f[i] + g[i - 1]
  BY <1>2
<1> QED BY <1>5, <1>6, <1>7, <1>8 DEF g

(* A hit counted at index x is a hit of the caches from x on.              *)
LEMMA AccumStep ==
  ASSUME NEW f \in [Idx -> Nat], NEW x \in Idx
  PROVE  /\ [f EXCEPT ![x] = f[x] + 1] \in [Idx -> Nat]
         /\ AccumOf([f EXCEPT ![x] = f[x] + 1])
              = [i \in Idx |-> IF x <= i THEN AccumOf(f)[i] + 1 ELSE AccumOf(f)[i]]
<1> DEFINE f2 == [f EXCEPT ![x] = f[x] + 1]
           g == AccumOf(f)
           g2 == AccumOf(f2)
<1>0. num_ticks \in Int /\ num_ticks > 2 /\ 0 \in Idx /\ Idx \subseteq Nat
  BY Ticks DEF Idx
<1>1. f2 \in [Idx -> Nat] /\ f2[x] = f[x] + 1 /\ \A i \in Idx : i # x => f2[i] = f[i]
  OBVIOUS
<1> HIDE DEF f2
<1>2. /\ g \in [Idx -> Nat] /\ g[0] = f[0]
      /\ \A i \in Idx \ {0} : g[i] = f[i] + g[i - 1]
  BY AccumProps
<1>3. /\ g2 \in [Idx -> Nat] /\ g2[0] = f2[0]
      /\ \A i \in Idx \ {0} : g2[i] = f2[i] + g2[i - 1]
  BY <1>1, AccumProps
<1> HIDE DEF g, g2
<1>4. \A i \in Idx : i # 0 => i - 1 \in Idx /\ i - 1 \in Nat
  BY <1>0 DEF Idx
<1>5. \A i \in Idx : g2[i] = IF x <= i THEN g[i] + 1 ELSE g[i]
  <2> DEFINE C == {i \in Idx : g2[i] # IF x <= i THEN g[i] + 1 ELSE g[i]}
  <2>1. SUFFICES ASSUME C # {} PROVE FALSE
    OBVIOUS
  <2>2. PICK n \in C : \A y \in C : n <= y
    <3>1. C \subseteq Nat
      BY <1>0
    <3> HIDE DEF C
    <3> QED BY <2>1, <3>1, LeastNumber
  <2>3. n \in Idx /\ n \in Nat /\ x \in Nat /\ f[n] \in Nat /\ f2[n] \in Nat
    BY <1>0, <1>1, <2>2
  <2>4. f2[n] = IF n = x THEN f[n] + 1 ELSE f[n]
    BY <1>1, <2>3
  <2>5. CASE n = 0
    <3>1. g2[0] = IF x <= 0 THEN g[0] + 1 ELSE g[0]
      BY <1>2, <1>3, <2>3, <2>4, <2>5
    <3> QED BY <2>2, <2>5, <3>1
  <2>6. CASE n # 0
    <3>1. n - 1 \in Idx /\ n - 1 \in Nat /\ n - 1 \notin C
      BY <1>4, <2>2, <2>3, <2>6
    <3>2. g2[n - 1] = IF x <= n - 1 THEN g[n - 1] + 1 ELSE g[n - 1]
      BY <3>1
    <3>3. g[n] = f[n] + g[n - 1] /\ g2[n] = f2[n] + g2[n - 1]
          /\ g[n - 1] \in Nat /\ g2[n - 1] \in Nat
      BY <1>2, <1>3, <2>3, <2>6, <3>1
    <3>4. g2[n] = IF x <= n THEN g[n] + 1 ELSE g[n]
      <4>1. CASE x <= n - 1
        BY <2>3, <2>4, <3>2, <3>3, <4>1
      <4>2. CASE x = n
        BY <2>3, <2>4, <3>2, <3>3, <4>2
      <4>3. CASE x > n
        BY <2>3, <2>4, <3>2, <3>3, <4>3
      <4> QED BY <2>3, <4>1, <4>2, <4>3
    <3> QED BY <2>2, <3>4
  <2> QED BY <2>5, <2>6
<1>6. g2 = [i \in Idx |-> IF x <= i THEN g[i] + 1 ELSE g[i]]
  BY <1>3, <1>5
<1> QED BY <1>1, <1>6 DEF f2, g, g2

LEMMA AccumZero == AccumOf([i \in Idx |-> 0]) = [i \in Idx |-> 0]
<1> DEFINE f == [i \in Idx |-> 0]
           g == AccumOf(f)
<1>0. num_ticks \in Int /\ num_ticks > 2 /\ 0 \in Idx /\ Idx \subseteq Nat
  BY Ticks DEF Idx
<1>1. f \in [Idx -> Nat] /\ \A i \in Idx : f[i] = 0
  OBVIOUS
<1> HIDE DEF f
<1>2. /\ g \in [Idx -> Nat] /\ g[0] = f[0]
      /\ \A i \in Idx \ {0} : g[i] = f[i] + g[i - 1]
  BY <1>1, AccumProps
<1> HIDE DEF g
<1>3. \A i \in Idx : g[i] = 0
  <2> DEFINE C == {i \in Idx : g[i] # 0}
  <2>1. SUFFICES ASSUME C # {} PROVE FALSE
    OBVIOUS
  <2>2. PICK n \in C : \A y \in C : n <= y
    <3>1. C \subseteq Nat
      BY <1>0
    <3> HIDE DEF C
    <3> QED BY <2>1, <3>1, LeastNumber
  <2>3. n \in Idx /\ n # 0 /\ n \in Nat
    BY <1>0, <1>1, <1>2, <2>2
  <2>4. n - 1 \in Idx /\ n - 1 \notin C
    BY <1>0, <2>2, <2>3 DEF Idx
  <2>5. g[n - 1] = 0 /\ g[n] = 0 + g[n - 1]
    BY <1>1, <1>2, <2>3, <2>4
  <2> QED BY <2>2, <2>5
<1>4. g = [i \in Idx |-> 0]
  BY <1>2, <1>3
<1> QED BY <1>4 DEF g, f

-----------------------------------------------------------------------------
(* The inductive invariant.  HitsCounted is what keeps the miss counts from *)
(* wrapping: no cache has more hits than there were accesses.              *)
HitsCounted == AccumOf(reuse_distances)[num_ticks - 1] <= reuse_count

GhostInv == TypeOK /\ CoreInv /\ LruOnly /\ Classed /\ Bounded /\ HitsCounted /\ StatConsistent

(* A boundary is a node of the list, or there is none.                     *)
LEMMA BoundaryType ==
  ASSUME NEW S, NEW s \in Seq(S), Inj(s), NEW i \in 0..(num_ticks - 2)
  PROVE  BoundaryOf(s, i) \in S \cup {Nil}
<1> DEFINE n == Len(s)
           z == SizeOf(i)
<1>1. n \in Nat /\ \A d \in 1..n : FromEnd(s, d) \in S
  BY Depths
<1>2. z \in Int /\ z > 1
  <2>1. i \in Int /\ i >= 0 /\ tick \in Nat /\ min_size \in Nat /\ min_size > 1
    BY Ticks
  <2>2. SizeOf(i) \in Int /\ SizeOf(0) = min_size /\ (i = 0 \/ SizeOf(0) + tick <= SizeOf(i))
    BY <2>1, Sizes
  <2> QED BY <2>1, <2>2
<1>3. BoundaryOf(s, i) = IF n < z THEN Nil ELSE FromEnd(s, z)
  BY DEF BoundaryOf
<1> HIDE DEF n, z
<1>4. CASE n < z
  BY <1>3, <1>4
<1>5. CASE ~(n < z)
  <2>1. z \in 1..n
    BY <1>1, <1>2, <1>5
  <2> QED BY <1>1, <1>3, <1>5, <2>1
<1> QED BY <1>4, <1>5

LEMMA InitGhost == Init => GhostInv
<1> SUFFICES ASSUME Init PROVE GhostInv
  OBVIOUS
<1>1. CoreTypeOK /\ CoreInv
  BY InitCore DEF Init
<1>2. num_ticks \in Int /\ num_ticks > 2 /\ 0 \in Idx /\ num_ticks - 1 \in Idx
  BY Ticks DEF Idx
<1>3. lru(self) = <<>> /\ in_use(self) = <<>> /\ capacity[self] = max_size
  BY SelfTag, GhostAssumption DEF Init, CoreInit, lru, in_use, Kind
<1>4. LruOnly
  BY <1>3 DEF LruOnly
<1>5. Classed
  <2>1. 1..Len(lru(self)) = {}
    BY <1>3
  <2> QED BY <2>1 DEF Classed
<1>6. Bounded
  <2>1. ASSUME NEW i \in 0..(num_ticks - 2) PROVE BoundaryOf(lru(self), i) = Nil
    <3>1. i \in Int /\ i >= 0 /\ tick \in Nat /\ min_size \in Nat /\ min_size > 1
      BY <1>2, Ticks
    <3>2. SizeOf(i) \in Int /\ SizeOf(0) = min_size /\ (i = 0 \/ SizeOf(0) + tick <= SizeOf(i))
      BY <3>1, Sizes
    <3>3. Len(lru(self)) = 0
      BY <1>3
    <3>4. Len(lru(self)) < SizeOf(i)
      BY <3>1, <3>2, <3>3
    <3> QED BY <3>4 DEF BoundaryOf
  <2> QED BY <2>1 DEF Init, Bounded
<1>7. /\ reuse_distances = [i \in Idx |-> 0] /\ reuse_count = 0
      /\ AccumOf(reuse_distances)[num_ticks - 1] = 0
  BY <1>2, AccumZero DEF Init
<1>8. TypeOK
  <2>1. caches_stat \in [Idx -> Stat]
    BY DEF Init, Stat
  <2>2. boundaries \in [0..(num_ticks - 2) -> Node \cup {Nil}]
    BY DEF Init
  <2> QED BY <1>1, <1>2, <1>7, <2>1, <2>2 DEF Init, TypeOK, Mode
<1>9. HitsCounted
  BY <1>7 DEF HitsCounted
<1>10. StatConsistent
  BY DEF Init, StatConsistent
<1> QED BY <1>1, <1>4, <1>5, <1>6, <1>8, <1>9, <1>10 DEF GhostInv

(* An access counts at most one hit, and if it does, an access with it.    *)
LEMMA CountKeeps ==
  ASSUME TypeOK, HitsCounted, NEW hit \in BOOLEAN, NEW idx \in Idx, NEW mode \in Mode,
         count_access(hit, idx, mode)
  PROVE  reuse_distances' \in [Idx -> Nat] /\ reuse_count' \in Nat /\ HitsCounted'
<1> DEFINE f == reuse_distances
           l == num_ticks - 1
<1>1. num_ticks \in Int /\ num_ticks > 2 /\ 0 \in Idx /\ l \in Idx /\ \A i \in Idx : i <= l
  BY Ticks DEF Idx
<1>2. f \in [Idx -> Nat] /\ reuse_count \in Nat
  BY DEF TypeOK
<1>3. AccumOf(f) \in [Idx -> Nat] /\ AccumOf(f)[l] <= reuse_count
  BY <1>2, AccumProps DEF HitsCounted
<1>4. ASSUME NEW x \in Idx, reuse_distances' = [f EXCEPT ![x] = @ + 1],
             reuse_count' = reuse_count + 1
      PROVE  reuse_distances' \in [Idx -> Nat] /\ reuse_count' \in Nat
             /\ AccumOf(reuse_distances')[l] <= reuse_count'
  <2>1. reuse_distances' = [f EXCEPT ![x] = f[x] + 1]
    BY <1>2, <1>4
  <2>2. /\ reuse_distances' \in [Idx -> Nat]
        /\ AccumOf(reuse_distances')
             = [i \in Idx |-> IF x <= i THEN AccumOf(f)[i] + 1 ELSE AccumOf(f)[i]]
    BY <1>2, <2>1, AccumStep
  <2>3. AccumOf(reuse_distances')[l] = AccumOf(f)[l] + 1
    BY <1>1, <2>2
  <2>4. AccumOf(f)[l] \in Nat
    BY <1>1, <1>3
  <2> HIDE DEF l, f
  <2> QED BY <1>2, <1>3, <1>4, <2>2, <2>3, <2>4
<1>5. ASSUME reuse_distances' = f, reuse_count' \in {reuse_count, reuse_count + 1}
      PROVE  reuse_distances' \in [Idx -> Nat] /\ reuse_count' \in Nat
             /\ AccumOf(reuse_distances')[l] <= reuse_count'
  <2>1. AccumOf(f)[l] \in Nat
    BY <1>1, <1>3
  <2>2. AccumOf(reuse_distances')[l] = AccumOf(f)[l]
    BY <1>5
  <2> HIDE DEF l
  <2> QED BY <1>2, <1>3, <1>5, <2>1, <2>2
<1>6. CASE mode = "DEFAULT" /\ hit
  BY <1>4, <1>6 DEF count_access, HitsCounted
<1>7. CASE mode = "AS_HIT"
  BY <1>1, <1>4, <1>7 DEF count_access, HitsCounted
<1>8. CASE ~(mode = "DEFAULT" /\ hit) /\ mode # "AS_HIT"
  BY <1>5, <1>8 DEF count_access, HitsCounted
<1> QED BY <1>6, <1>7, <1>8

LEMMA AccessKeeps ==
  ASSUME GhostInv, NEW k \in Key, NEW mode \in Mode, Access(k, mode)
  PROVE  GhostInv'
<1> USE DEF GhostInv
<1>1. CoreTypeOK /\ size_idx \in [Node -> Idx]
  BY DEF TypeOK
<1> DEFINE hit == table[k] # Nil
           n == size'[self]
<1>2. PICK h \in Node :
        /\ refresh(self, k, h)
        /\ LET idx == IF hit THEN size_idx[h] ELSE size_idx_new(n)
           IN /\ shift_boundaries(h, idx, own_boundary(h, hit, idx, n))
              /\ count_access(hit, idx, mode)
  BY DEF Access
<1> DEFINE idx == IF hit THEN size_idx[h] ELSE size_idx_new(n)
           bounds == own_boundary(h, hit, idx, n)
<1>3. shift_boundaries(h, idx, bounds) /\ count_access(hit, idx, mode)
  BY <1>2
<1>4. PICK m \in 1..max_size : Accessed(k, h, m, idx)
  BY <1>1, <1>2, AccessedClass
<1> HIDE DEF idx
<1>5. bounds = [i \in 0..(num_ticks - 2) |-> IF i = idx THEN BoundaryOf(lru(self)', i)
                                                        ELSE BoundaryOf(lru(self), i)]
  BY <1>4, OwnExact
<1> HIDE DEF bounds
<1>6. Bounded' /\ Classed' /\ size_idx' \in [Node -> Idx]
  BY <1>1, <1>3, <1>4, <1>5, ShiftExact
<1>7. CoreTypeOK' /\ CoreInv' /\ LruOnly'
  BY <1>1, <1>2, RefreshFinds
<1>8. lru(self)' \in Seq(Node) /\ Inj(lru(self)') /\ idx \in Idx
  BY <1>4 DEF Accessed, Filling
<1>9. boundaries' \in [0..(num_ticks - 2) -> Node \cup {Nil}]
  <2>1. boundaries' = [i \in 0..(num_ticks - 2) |-> BoundaryOf(lru(self)', i)]
    BY <1>6 DEF Bounded, BoundaryOf
  <2>2. \A i \in 0..(num_ticks - 2) : BoundaryOf(lru(self)', i) \in Node \cup {Nil}
    BY <1>8, BoundaryType
  <2> QED BY <2>1, <2>2
<1>10. reuse_distances' \in [Idx -> Nat] /\ reuse_count' \in Nat /\ HitsCounted'
  BY <1>3, <1>8, CountKeeps
<1>11. query' = NoQuery /\ asked' = mode /\ caches_stat' = caches_stat
  BY DEF Access
<1>12. TypeOK'
  BY <1>6, <1>7, <1>9, <1>10, <1>11 DEF TypeOK
<1>13. StatConsistent'
  BY <1>11 DEF StatConsistent
<1> QED BY <1>6, <1>7, <1>10, <1>12, <1>13

(* The statistics just built: hits and misses add up, in every cache.      *)
LEMMA BuiltStat ==
  ASSUME TypeOK, HitsCounted
  PROVE  /\ built_stat \in [Idx -> Stat]
         /\ \A i \in Idx : built_stat[i].hit_cnt + built_stat[i].miss_cnt = reuse_count
         /\ \A i, j \in Idx : i <= j => built_stat[i].hit_cnt <= built_stat[j].hit_cnt
<1> DEFINE g == AccumOf(reuse_distances)
<1>1. g \in [Idx -> Nat] /\ \A i, j \in Idx : i <= j => g[i] <= g[j]
  BY AccumProps DEF TypeOK
<1>2. \A i \in Idx : g[i] <= g[num_ticks - 1]
  BY <1>1, Ticks DEF Idx
<1>3. g[num_ticks - 1] <= reuse_count /\ reuse_count \in Nat /\ g[num_ticks - 1] \in Nat
  BY <1>1, Ticks DEF TypeOK, HitsCounted, Idx
<1>4. built_stat = [i \in Idx |-> [hit_cnt |-> g[i], miss_cnt |-> reuse_count - g[i]]]
  BY AccumIs DEF built_stat
<1> HIDE DEF g
<1>5. \A i \in Idx : reuse_count - g[i] \in Nat /\ g[i] + (reuse_count - g[i]) = reuse_count
  BY <1>1, <1>2, <1>3
<1> QED BY <1>1, <1>4, <1>5 DEF Stat

(* The lists, the classes and the boundaries are left alone.               *)
LEMMA ListsUnchanged ==
  ASSUME GhostInv, UNCHANGED <<coreVars, size_idx, boundaries>>
  PROVE  /\ CoreTypeOK' /\ CoreInv' /\ LruOnly' /\ Classed' /\ Bounded'
         /\ size_idx' \in [Node -> Idx]
         /\ boundaries' \in [0..(num_ticks - 2) -> Node \cup {Nil}]
<1>1. CoreTypeOK' /\ CoreInv'
  BY CoreUnchanged DEF GhostInv, TypeOK
<1>2. LruOnly' /\ Classed' /\ Bounded'
  BY DEF GhostInv, coreVars, LruOnly, Classed, Bounded, BoundaryOf, lru, in_use, Class, FromEnd
<1> QED BY <1>1, <1>2 DEF GhostInv, TypeOK

LEMMA StatKeeps ==
  ASSUME GhostInv, UNCHANGED <<coreVars, size_idx, boundaries>>,
         UNCHANGED <<reuse_distances, reuse_count, asked>>,
         \/ \E i \in Idx : query' = i /\ caches_stat' = IF Outdated(i) THEN built_stat ELSE caches_stat
         \/ query' = NoQuery /\ caches_stat' \in {built_stat, caches_stat}
  PROVE  GhostInv'
<1>1. /\ CoreTypeOK' /\ CoreInv' /\ LruOnly' /\ Classed' /\ Bounded'
      /\ size_idx' \in [Node -> Idx]
      /\ boundaries' \in [0..(num_ticks - 2) -> Node \cup {Nil}]
  BY ListsUnchanged
<1>2. /\ built_stat \in [Idx -> Stat]
      /\ \A i \in Idx : built_stat[i].hit_cnt + built_stat[i].miss_cnt = reuse_count
      /\ \A i, j \in Idx : i <= j => built_stat[i].hit_cnt <= built_stat[j].hit_cnt
  BY BuiltStat DEF GhostInv
<1>3. caches_stat' \in {built_stat, caches_stat} /\ query' \in Idx \cup {NoQuery}
  OBVIOUS
<1>4. TypeOK'
  BY <1>1, <1>2, <1>3 DEF GhostInv, TypeOK
<1>5. HitsCounted'
  BY DEF GhostInv, HitsCounted
<1>6. StatConsistent'
  <2> HIDE DEF built_stat
  <2>1. \A i, j \in Idx : i <= j => caches_stat'[i].hit_cnt <= caches_stat'[j].hit_cnt
    BY <1>2, <1>3 DEF GhostInv, StatConsistent
  <2>2. ASSUME NEW i \in Idx, query' = i,
               caches_stat' = IF Outdated(i) THEN built_stat ELSE caches_stat
        PROVE  ~(caches_stat'[i].hit_cnt + caches_stat'[i].miss_cnt # reuse_count)
    BY <1>2, <2>2 DEF Outdated
  <2> QED BY <2>1, <2>2 DEF StatConsistent, Outdated
<1> QED BY <1>1, <1>4, <1>5, <1>6 DEF GhostInv

LEMMA ResetKeeps ==
  ASSUME GhostInv, ResetStat
  PROVE  GhostInv'
<1>1. /\ CoreTypeOK' /\ CoreInv' /\ LruOnly' /\ Classed' /\ Bounded'
      /\ size_idx' \in [Node -> Idx]
      /\ boundaries' \in [0..(num_ticks - 2) -> Node \cup {Nil}]
  BY ListsUnchanged DEF ResetStat
<1>2. reuse_distances' = [i \in Idx |-> 0] /\ reuse_count' = 0
  BY DEF ResetStat, cleared_distances
<1>3. TypeOK'
  BY <1>1, <1>2 DEF GhostInv, TypeOK, ResetStat
<1>4. HitsCounted'
  <2>1. AccumOf(reuse_distances')[num_ticks - 1] = 0
    BY <1>2, AccumZero, Ticks DEF Idx
  <2> QED BY <1>2, <2>1 DEF HitsCounted
<1>5. StatConsistent'
  BY DEF GhostInv, ResetStat, StatConsistent
<1> QED BY <1>1, <1>3, <1>4, <1>5 DEF GhostInv

LEMMA NextKeeps == GhostInv /\ [Next]_vars => GhostInv'
<1> SUFFICES ASSUME GhostInv, [Next]_vars PROVE GhostInv'
  OBVIOUS
<1>1. ASSUME NEW k \in Key, NEW mode \in Mode, Access(k, mode) PROVE GhostInv'
  BY <1>1, AccessKeeps
<1>2. ASSUME NEW i \in Idx, GetStat(i) PROVE GhostInv'
  BY <1>2, StatKeeps DEF GetStat
<1>3. CASE PrintStat
  BY <1>3, StatKeeps DEF PrintStat
<1>4. CASE ResetStat
  BY <1>4, ResetKeeps
<1>5. CASE UNCHANGED vars
  <2>1. UNCHANGED <<coreVars, size_idx, boundaries>>
    BY <1>5 DEF vars
  <2>2. /\ CoreTypeOK' /\ CoreInv' /\ LruOnly' /\ Classed' /\ Bounded'
        /\ size_idx' \in [Node -> Idx]
        /\ boundaries' \in [0..(num_ticks - 2) -> Node \cup {Nil}]
    BY <2>1, ListsUnchanged
  <2>3. TypeOK' /\ HitsCounted' /\ StatConsistent'
    BY <1>5, <2>2 DEF vars, GhostInv, TypeOK, HitsCounted, StatConsistent, Outdated
  <2> QED BY <2>2, <2>3 DEF GhostInv
<1> QED BY <1>1, <1>2, <1>3, <1>4, <1>5 DEF Next

THEOREM GhostInvariance == Spec => []GhostInv
<1> QED BY InitGhost, NextKeeps, PTL DEF Spec

(* The sizes get_stat accepts are those of the spectrum.                   *)
LEMMA StatIndex ==
  ASSUME NEW c \in min_size..max_size, (c - min_size) % tick = 0
  PROVE  (c - min_size) \div tick \in Idx
<1> DEFINE q == (c - min_size) \div tick
           x == c - min_size
<1>1. /\ tick \in Nat /\ tick > 0 /\ min_size \in Nat /\ max_size \in Nat
      /\ num_ticks \in Int /\ num_ticks > 2 /\ SizeOf(num_ticks - 1) = max_size
  BY Ticks
<1>2. c \in Nat /\ x \in Nat /\ c <= max_size
  BY <1>1
<1>3. q \in Int /\ x = tick * q + (x % tick)
  <2> HIDE DEF x
  <2>1. x \div tick \in Int /\ x = tick * (x \div tick) + (x % tick)
    BY <1>1, <1>2
  <2> QED BY <2>1 DEF x
<1>4. x = q * tick
  <2> HIDE DEF q
  <2>1. tick * q = q * tick /\ q * tick \in Int /\ x % tick = 0
    BY <1>1, <1>3
  <2> HIDE DEF x
  <2> QED BY <1>2, <1>3, <2>1
<1> HIDE DEF q
<1>5. c = SizeOf(q)
  <2>1. q * tick \in Int
    BY <1>1, <1>3
  <2> QED BY <1>1, <1>2, <1>4, <2>1 DEF SizeOf
<1>6. q >= 0
  <2>1. q < 0 => SizeOf(q) + tick <= SizeOf(0) /\ SizeOf(0) = min_size
    BY <1>3, Sizes
  <2> QED BY <1>1, <1>2, <1>3, <1>5, <2>1
<1>7. q <= num_ticks - 1
  <2>1. num_ticks - 1 < q => SizeOf(num_ticks - 1) + tick <= SizeOf(q)
    BY <1>1, <1>3, Sizes
  <2> QED BY <1>1, <1>2, <1>3, <1>5, <2>1
<1>8. q \in Idx
  BY <1>1, <1>3, <1>6, <1>7 DEF Idx
<1> QED BY <1>8 DEF q

(* Seen from the sampled keys, the sampled cache is a GhostCache.          *)
LEMMA SampledStep == [SampledNext]_vars => [Next]_vars
<1> SUFFICES ASSUME [SampledNext]_vars PROVE [Next]_vars
  OBVIOUS
<1>1. ASSUME NEW k \in Key, NEW mode \in Mode, SampledAccess(k, mode) PROVE [Next]_vars
  BY <1>1 DEF SampledAccess, Next
<1>2. ASSUME NEW cache_size \in 0..Unshifted(max_size), SampledGetStat(cache_size)
      PROVE  [Next]_vars
  <2> DEFINE c == cache_size \div 2^SampleShift
  <2>1. c \in min_size..max_size /\ (c - min_size) % tick = 0 /\ GetStat((c - min_size) \div tick)
    BY <1>2 DEF SampledGetStat, get_stat_shifted
  <2> HIDE DEF c
  <2> QED BY <2>1, StatIndex DEF Next
<1>3. PrintStat \/ ResetStat => [Next]_vars
  BY DEF Next
<1> QED BY <1>1, <1>2, <1>3 DEF SampledNext

(* Sampling leaves out accesses and adds no behaviour: what holds of every *)
(* GhostCache holds of the sampled ones too.                               *)
THEOREM SampledIsGhost == SampledSpec => Spec
<1> QED BY SampledStep, PTL DEF SampledSpec, Spec

(* The types; no miss count is negative, no boundary runs off the list.    *)
THEOREM TypeCorrect == SampledSpec => []TypeOK
<1>1. GhostInv => TypeOK
  BY DEF GhostInv
<1> QED BY <1>1, GhostInvariance, SampledIsGhost, PTL

(* Every node carries the index of the smallest cache that still has it    *)
(* (ghost_cache.h:43-45), though an access looks at the boundaries alone.  *)
THEOREM SizeIdxIsExact == SampledSpec => []SizeIdxExact
<1>1. GhostInv => SizeIdxExact
  BY DEF GhostInv, Classed, SizeIdxExact, Class, SizeOf, FromEnd
<1> QED BY <1>1, GhostInvariance, SampledIsGhost, PTL

(* Every boundary is the oldest node of its cache, from the access that    *)
(* makes the cache full.                                                   *)
THEOREM BoundariesAreExact == SampledSpec => []BoundariesExact
<1>1. GhostInv => BoundariesExact
  BY DEF GhostInv, Bounded, BoundaryOf, BoundariesExact, SizeOf, FromEnd
<1> QED BY <1>1, GhostInvariance, SampledIsGhost, PTL

(* What get_stat returns adds up to reuse_count - the assertion at its end *)
(* - and larger caches have no fewer hits.                                 *)
THEOREM StatIsConsistent == SampledSpec => []StatConsistent
<1>1. GhostInv => StatConsistent
  BY DEF GhostInv
<1> QED BY <1>1, GhostInvariance, SampledIsGhost, PTL

-----------------------------------------------------------------------------
(* The refinement: what each simulated cache holds.                        *)

LEMMA SameDepths ==
  ASSUME NEW S, NEW s \in Seq(S), NEW t \in Seq(S), Len(s) = Len(t),
         \A d \in 1..Len(s) : FromEnd(s, d) = FromEnd(t, d)
  PROVE  s = t
<1> DEFINE n == Len(s)
<1>1. n \in Nat /\ Len(s) = n /\ Len(t) = n
  OBVIOUS
<1>2. ASSUME NEW i \in 1..n PROVE s[i] = t[i]
  <2>1. n + 1 - i \in 1..n /\ n + 1 - (n + 1 - i) = i
    BY <1>1
  <2>2. FromEnd(s, n + 1 - i) = FromEnd(t, n + 1 - i)
    BY <2>1
  <2> QED BY <1>1, <2>1, <2>2 DEF FromEnd
<1> HIDE DEF n
<1> QED BY <1>1, <1>2

(* Refreshed says all of the new list.                                     *)
LEMMA RefreshedSame ==
  ASSUME NEW S, NEW s \in Seq(S), NEW t \in Seq(S), NEW u \in Seq(S),
         NEW h, NEW m \in 1..(Len(s) + 1),
         Refreshed(s, t, h, m), Refreshed(s, u, h, m)
  PROVE  t = u
<1> DEFINE n == Len(s)
           q == Len(t)
<1>1. /\ n \in Nat /\ q = IF m > n THEN n + 1 ELSE n
      /\ Len(u) = q
      /\ FromEnd(t, 1) = FromEnd(u, 1)
      /\ \A d \in 1..n : d < m => FromEnd(t, d + 1) = FromEnd(u, d + 1)
      /\ \A d \in 1..n : d > m => FromEnd(t, d) = FromEnd(u, d)
  BY DEF Refreshed
<1>2. ASSUME NEW d \in 1..q PROVE FromEnd(t, d) = FromEnd(u, d)
  <2> HIDE DEF n, q
  <2>1. d = 1 \/ (d - 1 \in 1..n /\ d - 1 < m /\ (d - 1) + 1 = d) \/ (d \in 1..n /\ d > m)
    BY <1>1 DEF n
  <2> QED BY <1>1, <2>1
<1> QED BY <1>1, <1>2, SameDepths

(* What a cache of z pages would hold: the keys f of the z newest nodes.   *)
Content == Key \cup {NoKey}

Newest(s, f, z) ==
  LET c == IF z < Len(s) THEN z ELSE Len(s)
  IN [i \in 1..c |-> f[s[Len(s) - c + i]]]

LEMMA NewestIs ==
  ASSUME NEW s \in Seq(Node), NEW f \in [Node -> Content], NEW z \in Nat
  PROVE  /\ Newest(s, f, z) \in Seq(Content)
         /\ Len(Newest(s, f, z)) = IF z < Len(s) THEN z ELSE Len(s)
         /\ \A d \in 1..Len(Newest(s, f, z)) :
              d \in 1..Len(s) /\ FromEnd(Newest(s, f, z), d) = f[FromEnd(s, d)]
<1> DEFINE n == Len(s)
           c == IF z < n THEN z ELSE n
           w == Newest(s, f, z)
<1>1. n \in Nat /\ c \in Nat /\ c <= n
  OBVIOUS
<1>2. w = [i \in 1..c |-> f[s[n - c + i]]]
  BY DEF Newest
<1>3. \A j \in 1..n : s[j] \in Node /\ f[s[j]] \in Content
  OBVIOUS
<1> HIDE DEF c, n, w
<1>4. w \in Seq(Content) /\ Len(w) = c
  <2>1. ASSUME NEW i \in 1..c PROVE f[s[n - c + i]] \in Content
    <3>1. n - c + i \in 1..n
      BY <1>1
    <3> QED BY <1>3, <3>1
  <2> QED BY <1>1, <1>2, <2>1
<1>5. ASSUME NEW d \in 1..c PROVE d \in 1..n /\ FromEnd(w, d) = f[FromEnd(s, d)]
  <2>1. d \in 1..n /\ c + 1 - d \in 1..c /\ n - c + (c + 1 - d) = n + 1 - d
    BY <1>1
  <2>2. w[c + 1 - d] = f[s[n + 1 - d]]
    BY <1>2, <2>1
  <2> QED BY <1>4, <2>1, <2>2 DEF FromEnd, n
<1> QED BY <1>4, <1>5 DEF c, n, w

(* No two nodes of s have the same key.                                    *)
Distinct(s, f) ==
  \A d, b \in 1..Len(s) : f[FromEnd(s, d)] = f[FromEnd(s, b)] => d = b

(* Where k is: at depth m (r is its node), or nowhere (r is Nil), and then *)
(* a new node comes in or takes the place of the oldest, when no cache is  *)
(* larger than the list.                                                   *)
KeyAt(s, f, k, m, z, r) ==
  /\ r # Nil => m <= Len(s) /\ f[FromEnd(s, m)] = k
  /\ r = Nil => /\ \A d \in 1..Len(s) : f[FromEnd(s, d)] # k
                /\ m > Len(s) \/ (m = Len(s) /\ z <= Len(s))

(* An access puts the key k of the node h, at depth m, into the newest     *)
(* place of the list, which was s and is t; the keys were f and are g.     *)
PutsFirst(s, t, f, g, h, k, m, z, r) ==
  /\ s \in Seq(Node) /\ t \in Seq(Node) /\ Inj(s) /\ Inj(t)
  /\ f \in [Node -> Content] /\ g \in [Node -> Content] /\ h \in Node /\ k \in Content
  /\ m \in 1..(Len(s) + 1) /\ Refreshed(s, t, h, m) /\ z \in Nat /\ z > 0
  /\ g[h] = k /\ (\A e \in Node : e # h => g[e] = f[e]) /\ Distinct(s, f)
  /\ KeyAt(s, f, k, m, z, r)

(* This is a use of k in a cache of z pages.                               *)
LEMMA UsesNewest ==
  ASSUME NEW s, NEW t, NEW f, NEW g, NEW h, NEW k, NEW m, NEW z, NEW r,
         PutsFirst(s, t, f, g, h, k, m, z, r),
         NEW others, others = RemoveFirst(Newest(s, f, z), k)
  PROVE  /\ Newest(t, g, z) = Append(IF Len(others) = z THEN Tail(others) ELSE others, k)
         /\ k \in Range(Newest(s, f, z)) <=> r # Nil /\ m <= z
<1> SUFFICES ASSUME s \in Seq(Node), t \in Seq(Node), Inj(s), Inj(t),
                    f \in [Node -> Content], g \in [Node -> Content],
                    h \in Node, k \in Content,
                    m \in 1..(Len(s) + 1), Refreshed(s, t, h, m), z \in Nat, z > 0,
                    g[h] = k, \A e \in Node : e # h => g[e] = f[e], Distinct(s, f),
                    KeyAt(s, f, k, m, z, r)
             PROVE  /\ Newest(t, g, z)
                         = Append(IF Len(others) = z THEN Tail(others) ELSE others, k)
                    /\ k \in Range(Newest(s, f, z)) <=> r # Nil /\ m <= z
  BY DEF PutsFirst
<1> DEFINE n == Len(s)
           q == Len(t)
           C == Newest(s, f, z)
           D == Newest(t, g, z)
           c == Len(C)
           x == Len(D)
<1>1. /\ n \in Nat /\ q \in Nat /\ m \in 1..(n + 1)
      /\ q = IF m > n THEN n + 1 ELSE n
      /\ FromEnd(t, 1) = h
      /\ \A d \in 1..n : d < m => FromEnd(t, d + 1) = FromEnd(s, d)
      /\ \A d \in 1..n : d > m => FromEnd(t, d) = FromEnd(s, d)
  BY DEF Refreshed
<1>2. /\ C \in Seq(Content) /\ c = IF z < n THEN z ELSE n
      /\ \A d \in 1..c : d \in 1..n /\ FromEnd(C, d) = f[FromEnd(s, d)]
  BY NewestIs
<1>3. /\ D \in Seq(Content) /\ x = IF z < q THEN z ELSE q
      /\ \A d \in 1..x : d \in 1..q /\ FromEnd(D, d) = g[FromEnd(t, d)]
  BY NewestIs
<1>4. /\ \A d \in 1..q : FromEnd(t, d) \in Node
      /\ \A d, b \in 1..q : FromEnd(t, d) = FromEnd(t, b) => d = b
  BY Depths
<1> HIDE DEF n, q, C, D
<1>5. c \in Nat /\ x \in Nat /\ Len(C) = c /\ Len(D) = x
  BY <1>1, <1>2, <1>3
<1> HIDE DEF c, x
<1>6. c <= z /\ c <= n /\ x <= z /\ x <= q /\ x > 0
  BY <1>1, <1>2, <1>3
<1>7. FromEnd(D, 1) = k
  <2>1. 1 \in 1..x
    BY <1>5, <1>6
  <2> QED BY <1>1, <1>3, <2>1
<1>8. ASSUME NEW d \in 1..x, d > 1, d <= m
      PROVE  d - 1 \in 1..c /\ FromEnd(D, d) = FromEnd(C, d - 1)
  <2>1. d - 1 \in 1..n /\ d - 1 < m /\ (d - 1) + 1 = d /\ d - 1 \in 1..c /\ d \in 1..q /\ 1 \in 1..q
    BY <1>1, <1>2, <1>5, <1>6, <1>8
  <2>2. FromEnd(t, d) = FromEnd(s, d - 1) /\ FromEnd(t, d) \in Node /\ FromEnd(t, d) # h
    BY <1>1, <1>4, <1>8, <2>1
  <2>3. g[FromEnd(t, d)] = f[FromEnd(s, d - 1)]
    BY <2>2
  <2> QED BY <1>2, <1>3, <2>1, <2>3
<1>9. ASSUME NEW d \in 1..x, d > m
      PROVE  d \in 1..c /\ FromEnd(D, d) = FromEnd(C, d)
  <2>1. d \in 1..n /\ d \in 1..c /\ d \in 1..q /\ d # 1 /\ 1 \in 1..q
    BY <1>1, <1>2, <1>5, <1>6, <1>9
  <2>2. FromEnd(t, d) = FromEnd(s, d) /\ FromEnd(t, d) \in Node /\ FromEnd(t, d) # h
    BY <1>1, <1>4, <1>9, <2>1
  <2>3. g[FromEnd(t, d)] = f[FromEnd(s, d)]
    BY <2>2
  <2> QED BY <1>2, <1>3, <2>1, <2>3
<1>10. Inj(C)
  <2>1. ASSUME NEW i \in 1..c, NEW j \in 1..c, C[i] = C[j] PROVE i = j
    <3>1. c + 1 - i \in 1..c /\ c + 1 - (c + 1 - i) = i /\ c + 1 - j \in 1..c /\ c + 1 - (c + 1 - j) = j
      BY <1>5
    <3>2. FromEnd(C, c + 1 - i) = C[i] /\ FromEnd(C, c + 1 - j) = C[j]
      BY <1>5, <3>1 DEF FromEnd
    <3>3. f[FromEnd(s, c + 1 - i)] = f[FromEnd(s, c + 1 - j)] /\ c + 1 - i \in 1..n /\ c + 1 - j \in 1..n
      BY <1>2, <2>1, <3>1, <3>2
    <3>4. c + 1 - i = c + 1 - j
      BY <3>3 DEF n, Distinct
    <3> QED BY <1>5, <3>4
  <2> QED BY <1>5, <2>1 DEF Inj
<1>11. Range(C) = {FromEnd(C, d) : d \in 1..c}
  BY <1>2, <1>5, <1>10, Depths
<1>12. k \in Range(C) <=> r # Nil /\ m <= z
  <2>1. ASSUME NEW d \in 1..c, FromEnd(C, d) = k PROVE r # Nil /\ m <= z
    <3>1. d \in 1..n /\ f[FromEnd(s, d)] = k
      BY <1>2, <2>1
    <3>2. r # Nil
      BY <3>1 DEF n, KeyAt
    <3>3. m \in 1..n /\ f[FromEnd(s, m)] = k
      BY <1>1, <3>2 DEF n, KeyAt
    <3>4. d = m
      BY <3>1, <3>3 DEF n, Distinct
    <3> QED BY <1>5, <1>6, <3>2, <3>4
  <2>2. ASSUME r # Nil, m <= z PROVE k \in Range(C)
    <3>1. m <= n /\ f[FromEnd(s, m)] = k
      BY <2>2 DEF n, KeyAt
    <3>2. m \in 1..c
      BY <1>1, <1>2, <1>5, <2>2, <3>1
    <3> QED BY <1>2, <1>11, <3>1, <3>2
  <2> QED BY <1>11, <2>1, <2>2
<1> DEFINE R == Append(RemoveFirst(C, k), k)
<1>13. ASSUME NEW p \in 1..(c + 1), p <= c => FromEnd(C, p) = k, p > c => k \notin Range(C),
              Len(others) # z, Refreshed(C, D, k, p)
       PROVE  D = Append(IF Len(others) = z THEN Tail(others) ELSE others, k)
  <2>1. R \in Seq(Content) /\ Refreshed(C, R, k, p)
    BY <1>2, <1>5, <1>10, <1>13, RefreshProps
  <2> HIDE DEF R
  <2>2. D = R
    BY <1>2, <1>3, <1>5, <1>13, <2>1, RefreshedSame
  <2> QED BY <1>13, <2>2 DEF R, C
<1>14. Len(others) = IF k \in Range(C) THEN c - 1 ELSE c
  BY <1>2, <1>5, <1>10, RemoveFirstProps DEF C
<1>15. CASE r # Nil /\ m <= z
  <2>1. m <= n /\ f[FromEnd(s, m)] = k
    BY <1>15 DEF n, KeyAt
  <2>2. m \in 1..c /\ m \in 1..(c + 1) /\ ~(m > c) /\ x = c
    BY <1>1, <1>2, <1>3, <1>5, <1>15, <2>1
  <2>3. FromEnd(C, m) = k
    BY <1>2, <2>1, <2>2
  <2>4. Len(others) # z
    BY <1>5, <1>6, <1>12, <1>14, <1>15
  <2>5. Refreshed(C, D, k, m)
    <3>1. ASSUME NEW d \in 1..c, d < m PROVE FromEnd(D, d + 1) = FromEnd(C, d)
      <4>1. d + 1 \in 1..x /\ d + 1 > 1 /\ d + 1 <= m /\ (d + 1) - 1 = d
        BY <1>1, <1>5, <2>2, <3>1
      <4> QED BY <1>8, <4>1
    <3>2. ASSUME NEW d \in 1..c, d > m PROVE FromEnd(D, d) = FromEnd(C, d)
      BY <1>9, <2>2, <3>2
    <3> QED BY <1>5, <1>7, <2>2, <3>1, <3>2 DEF Refreshed
  <2>6. D = Append(IF Len(others) = z THEN Tail(others) ELSE others, k)
    BY <1>13, <2>2, <2>3, <2>4, <2>5
  <2> QED BY <1>12, <2>6 DEF C, D
<1>16. CASE ~(r # Nil /\ m <= z) /\ c < z
  <2>1. c = n
    BY <1>1, <1>2, <1>16
  <2>2. m = n + 1
    <3>1. r # Nil => m <= n
      BY DEF n, KeyAt
    <3>2. r = Nil => m > n
      BY <1>1, <1>16, <2>1 DEF n, KeyAt
    <3> QED BY <1>1, <1>5, <1>16, <2>1, <3>1, <3>2
  <2>3. q = n + 1 /\ x = c + 1 /\ m = c + 1 /\ c + 1 \in 1..(c + 1) /\ ~(c + 1 <= c)
    BY <1>1, <1>3, <1>5, <1>16, <2>1, <2>2
  <2>4. k \notin Range(C) /\ Len(others) # z
    BY <1>5, <1>12, <1>14, <1>16
  <2>5. Refreshed(C, D, k, c + 1)
    <3>1. ASSUME NEW d \in 1..c, d < c + 1 PROVE FromEnd(D, d + 1) = FromEnd(C, d)
      <4>1. d + 1 \in 1..x /\ d + 1 > 1 /\ d + 1 <= m /\ (d + 1) - 1 = d
        BY <1>5, <2>3
      <4> QED BY <1>8, <4>1
    <3>2. \A d \in 1..c : ~(d > c + 1)
      BY <1>5
    <3>3. c + 1 > c
      BY <1>5
    <3> QED BY <1>5, <1>7, <2>3, <3>1, <3>2, <3>3 DEF Refreshed
  <2>6. D = Append(IF Len(others) = z THEN Tail(others) ELSE others, k)
    BY <1>13, <2>3, <2>4, <2>5
  <2> QED BY <1>12, <2>6 DEF C, D
<1>17. CASE ~(r # Nil /\ m <= z) /\ ~(c < z)
  <2>1. c = z /\ z <= n /\ x = z /\ m >= z
    <3>1. c = z /\ z <= n
      BY <1>1, <1>2, <1>17
    <3>2. x = z
      BY <1>1, <1>3, <3>1
    <3>3. r = Nil => m >= n
      BY <1>1 DEF n, KeyAt
    <3> QED BY <1>1, <1>17, <3>1, <3>2, <3>3
  <2>2. k \notin Range(C) /\ Len(others) = z /\ others = C
    BY <1>2, <1>5, <1>10, <1>12, <1>14, <1>17, <2>1, RemoveFirstIs DEF C
  <2> DEFINE T == Tail(C)
             A == Append(T, k)
  <2>3. /\ T \in Seq(Content) /\ Len(T) = c - 1
        /\ \A i \in 1..(c - 1) : T[i] = C[i + 1]
    <3>1. C # <<>>
      BY <1>5, <2>1
    <3> QED BY <1>2, <1>5, <3>1, HeadTailProperties
  <2> HIDE DEF T
  <2>4. /\ A \in Seq(Content) /\ Len(A) = c /\ A[c] = k
        /\ \A i \in 1..(c - 1) : A[i] = C[i + 1]
    <3>1. Len(T) + 1 = c
      BY <1>5, <2>3
    <3> QED BY <1>5, <2>3, <3>1
  <2> HIDE DEF A
  <2>5. ASSUME NEW d \in 1..c PROVE FromEnd(A, d) = FromEnd(D, d)
    <3>1. CASE d = 1
      BY <1>5, <1>7, <2>4, <3>1 DEF FromEnd
    <3>2. CASE d > 1
      <4>1. c + 1 - d \in 1..(c - 1) /\ (c + 1 - d) + 1 = c + 1 - (d - 1)
        BY <1>5, <3>2
      <4>2. FromEnd(A, d) = FromEnd(C, d - 1)
        BY <1>5, <2>4, <4>1 DEF FromEnd
      <4>3. d \in 1..x /\ d <= m
        BY <1>1, <1>5, <2>1
      <4> QED BY <1>8, <3>2, <4>2, <4>3
    <3> QED BY <1>5, <3>1, <3>2
  <2>6. A = D
    BY <1>3, <1>5, <2>1, <2>4, <2>5, SameDepths
  <2> QED BY <1>12, <2>2, <2>6 DEF A, T, C, D
<1> QED BY <1>15, <1>16, <1>17

(* The sizes of the simulated caches, and which of them have depth m.      *)
LEMMA CacheSizes ==
  ASSUME NEW i \in Idx
  PROVE  SizeOf(i) \in Nat /\ SizeOf(i) > 0 /\ SizeOf(i) <= max_size
<1>1. /\ tick \in Nat /\ min_size \in Nat /\ min_size > 1 /\ max_size \in Nat
      /\ num_ticks \in Int /\ SizeOf(num_ticks - 1) = max_size
      /\ i \in Int /\ i >= 0 /\ i <= num_ticks - 1
  BY Ticks DEF Idx
<1>2. /\ SizeOf(i) \in Int /\ SizeOf(0) = min_size
      /\ i = 0 \/ SizeOf(0) + tick <= SizeOf(i)
      /\ i = num_ticks - 1 \/ SizeOf(i) + tick <= SizeOf(num_ticks - 1)
  <2>1. SizeOf(i) \in Int /\ SizeOf(0) = min_size
    BY <1>1, Sizes
  <2>2. i = 0 \/ SizeOf(0) + tick <= SizeOf(i)
    BY <1>1, Sizes
  <2>3. i = num_ticks - 1 \/ SizeOf(i) + tick <= SizeOf(num_ticks - 1)
    BY <1>1, Sizes
  <2> QED BY <2>1, <2>2, <2>3
<1> QED BY <1>1, <1>2

LEMMA CachesAt ==
  ASSUME NEW k, NEW h, NEW m, NEW idx, Accessed(k, h, m, idx), NEW i \in Idx
  PROVE  m <= SizeOf(i) <=> idx <= i
<1>1. /\ num_ticks \in Int /\ SizeOf(num_ticks - 1) = max_size /\ max_size \in Nat
      /\ i \in Int /\ i >= 0 /\ i <= num_ticks - 1
  BY Ticks DEF Idx
<1>2. m \in Nat /\ m <= max_size /\ idx \in Nat /\ idx <= num_ticks - 1
  BY <1>1 DEF Accessed, Idx
<1>3. CASE i = num_ticks - 1
  BY <1>1, <1>2, <1>3
<1>4. CASE i # num_ticks - 1
  <2>1. i \in 0..(num_ticks - 2)
    BY <1>1, <1>4
  <2>2. SizeOf(i) \in Nat /\ (i < idx <=> SizeOf(i) < m)
    BY <2>1, Boundary
  <2> QED BY <1>1, <1>2, <2>2
<1> QED BY <1>3, <1>4

LEMMA NewestSeen ==
  ASSUME NEW z
  PROVE  /\ NewestKeys(z) = Newest(lru(self), key, z)
         /\ NewestKeys(z)' = Newest(lru(self)', key', z)
BY DEF NewestKeys, Newest

(* An access puts k in the node h and leaves the other keys alone.         *)
LEMMA AccessKeys ==
  ASSUME CoreTypeOK, CoreInv, NEW k \in Key, NEW h \in Node, refresh(self, k, h)
  PROVE  /\ key'[h] = k /\ \A e \in Node : e # h => key'[e] = key[e]
         /\ table[k] # Nil => h = table[k] /\ key[h] = k
<1>1. CASE h = table[k] /\ h # Nil /\ UNCHANGED key
  BY <1>1 DEF CoreInv, TableAgrees
<1>2. CASE table[k] = Nil /\ insert_new(self, k, FALSE, h)
  <2>1. key' = [key EXCEPT ![h] = k] /\ key \in [Node -> Key \cup {NoKey}]
    BY <1>2 DEF insert_new, CoreTypeOK
  <2> QED BY <1>2, <2>1
<1>3. ~alloc_fails(self, h)
  BY NilAssumption DEF alloc_fails
<1> QED BY <1>1, <1>2, <1>3 DEF refresh

(* Each key is at one depth of the list, and there if the table has it.    *)
LEMMA KeyDepths ==
  ASSUME CoreTypeOK, CoreInv, LruOnly
  PROVE  /\ Distinct(lru(self), key)
         /\ \A d \in 1..Len(lru(self)) :
              /\ key[FromEnd(lru(self), d)] \in Key
              /\ table[key[FromEnd(lru(self), d)]] = FromEnd(lru(self), d)
              /\ FromEnd(lru(self), d) \in Node
<1>1. lru(self) \in Seq(Node) /\ Inj(lru(self)) /\ On(self, "lru") = Range(lru(self))
  BY Fills DEF Filling
<1>2. /\ \A d \in 1..Len(lru(self)) : FromEnd(lru(self), d) \in Node
                                      /\ FromEnd(lru(self), d) \in Range(lru(self))
      /\ \A d, b \in 1..Len(lru(self)) : FromEnd(lru(self), d) = FromEnd(lru(self), b) => d = b
  BY <1>1, Depths
<1>3. \A e \in Range(lru(self)) : key[e] \in Key /\ table[key[e]] = e
  BY <1>1, SelfTag DEF CoreInv, TableAgrees, Resident
<1>4. Distinct(lru(self), key)
  BY <1>2, <1>3 DEF Distinct
<1> QED BY <1>2, <1>3, <1>4

(* An access is a use of its key in every cache, and a hit where it was.   *)
LEMMA AccessUses ==
  ASSUME GhostInv, NEW k \in Key, NEW h \in Node, refresh(self, k, h),
         NEW m, NEW idx, Accessed(k, h, m, idx), NEW i \in Idx,
         NEW z, z = SizeOf(i), NEW others, others = RemoveFirst(NewestKeys(z), k)
  PROVE  /\ NewestKeys(z)' = Append(IF Len(others) = z THEN Tail(others) ELSE others, k)
         /\ k \in Range(NewestKeys(z)) <=> table[k] # Nil /\ idx <= i
<1>1. CoreTypeOK /\ CoreInv /\ LruOnly
  BY DEF GhostInv, TypeOK
<1>2. /\ lru(self) \in Seq(Node) /\ Inj(lru(self)) /\ lru(self)' \in Seq(Node) /\ Inj(lru(self)')
      /\ Refreshed(lru(self), lru(self)', h, m)
      /\ Len(lru(self)) \in Nat /\ Len(lru(self)) <= max_size
      /\ m \in 1..max_size /\ m <= Len(lru(self)) + 1
  BY DEF Accessed, Filling, Found
<1>3. m \in 1..(Len(lru(self)) + 1) /\ m \in Nat
  BY <1>2, Ticks
<1>4. key \in [Node -> Content] /\ key' \in [Node -> Content]
  <2>1. CoreTypeOK'
    BY <1>1, RefreshFinds
  <2> QED BY <1>1, <2>1 DEF CoreTypeOK, Content
<1>5. /\ key'[h] = k /\ \A e \in Node : e # h => key'[e] = key[e]
      /\ table[k] # Nil => h = table[k] /\ key[h] = k
  BY <1>1, AccessKeys
<1>6. /\ Distinct(lru(self), key)
      /\ \A d \in 1..Len(lru(self)) :
           /\ table[key[FromEnd(lru(self), d)]] = FromEnd(lru(self), d)
           /\ FromEnd(lru(self), d) \in Node
  BY <1>1, KeyDepths
<1>7. z \in Nat /\ z > 0 /\ z <= max_size
  BY CacheSizes
<1>8. KeyAt(lru(self), key, k, m, z, table[k])
  <2>1. ASSUME table[k] # Nil
        PROVE  m <= Len(lru(self)) /\ key[FromEnd(lru(self), m)] = k
    BY <1>5, <2>1, Lengths
  <2>2. ASSUME table[k] = Nil
        PROVE  /\ \A d \in 1..Len(lru(self)) : key[FromEnd(lru(self), d)] # k
               /\ m > Len(lru(self)) \/ (m = Len(lru(self)) /\ z <= Len(lru(self)))
    <3>1. \A d \in 1..Len(lru(self)) : key[FromEnd(lru(self), d)] # k
      BY <1>6, <2>2, NilAssumption
    <3>2. m <= Len(lru(self)) => m = max_size
      BY <2>2, Lengths
    <3> DEFINE n == Len(lru(self))
    <3> HIDE DEF n
    <3>3. m > n \/ (m = n /\ z <= n)
      BY <1>2, <1>3, <1>7, <3>2, Ticks DEF n
    <3> QED BY <3>1, <3>3 DEF n
  <2> QED BY <2>1, <2>2 DEF KeyAt
<1>9. k \in Content
  BY DEF Content
<1>10. others = RemoveFirst(Newest(lru(self), key, z), k)
  BY NewestSeen
<1>11. /\ Newest(lru(self)', key', z)
            = Append(IF Len(others) = z THEN Tail(others) ELSE others, k)
       /\ k \in Range(Newest(lru(self), key, z)) <=> table[k] # Nil /\ m <= z
  <2>1. PutsFirst(lru(self), lru(self)', key, key', h, k, m, z, table[k])
    BY <1>2, <1>3, <1>4, <1>5, <1>6, <1>7, <1>8, <1>9 DEF PutsFirst
  <2> QED BY <1>10, <2>1, UsesNewest
<1>12. m <= z <=> idx <= i
  BY CachesAt
<1> QED BY <1>11, <1>12, NewestSeen

(* What the simulated caches hold, as the instance of PageCaches sees it.  *)
Held == [i \in Idx |-> NewestKeys(i * tick + min_size)]

LEMMA HeldIs ==
  /\ Held = [i \in Idx |-> NewestKeys(SizeOf(i))]
  /\ Held' = [i \in Idx |-> NewestKeys(SizeOf(i))']
BY DEF Held, SizeOf

(* The hits of each cache after an access.                                 *)
LEMMA HitsSeen ==
  ASSUME TypeOK, NEW hit \in BOOLEAN, NEW idx \in Idx, NEW mode \in Mode,
         count_access(hit, idx, mode)
  PROVE  accum_hit_cnt' = [i \in Idx |->
           IF mode = "AS_HIT" \/ (mode = "DEFAULT" /\ hit /\ idx <= i)
           THEN accum_hit_cnt[i] + 1 ELSE accum_hit_cnt[i]]
<1> DEFINE f == reuse_distances
<1>1. f \in [Idx -> Nat] /\ 0 \in Idx /\ \A i \in Idx : 0 <= i
  BY Ticks DEF TypeOK, Idx
<1>2. AccumOf(f) \in [Idx -> Nat]
  BY <1>1, AccumProps
<1>3. ASSUME NEW x \in Idx, reuse_distances' = [f EXCEPT ![x] = @ + 1]
      PROVE  AccumOf(reuse_distances')
               = [i \in Idx |-> IF x <= i THEN AccumOf(f)[i] + 1 ELSE AccumOf(f)[i]]
  <2>1. reuse_distances' = [f EXCEPT ![x] = f[x] + 1]
    BY <1>1, <1>3
  <2> QED BY <1>1, <2>1, AccumStep
<1>4. AccumOf(reuse_distances') = [i \in Idx |->
           IF mode = "AS_HIT" \/ (mode = "DEFAULT" /\ hit /\ idx <= i)
           THEN AccumOf(f)[i] + 1 ELSE AccumOf(f)[i]]
  <2>1. CASE mode = "DEFAULT" /\ hit
    <3>1. AccumOf(reuse_distances')
            = [i \in Idx |-> IF idx <= i THEN AccumOf(f)[i] + 1 ELSE AccumOf(f)[i]]
      BY <1>3, <2>1 DEF count_access
    <3> QED BY <2>1, <3>1
  <2>2. CASE mode = "AS_HIT"
    <3>1. AccumOf(reuse_distances')
            = [i \in Idx |-> IF 0 <= i THEN AccumOf(f)[i] + 1 ELSE AccumOf(f)[i]]
      BY <1>1, <1>3, <2>2 DEF count_access
    <3> QED BY <1>1, <2>2, <3>1
  <2>3. CASE ~(mode = "DEFAULT" /\ hit) /\ mode # "AS_HIT"
    <3>1. reuse_distances' = f
      BY <2>3 DEF count_access
    <3> QED BY <1>2, <2>3, <3>1
  <2> QED BY <2>1, <2>2, <2>3
<1> QED BY <1>4, AccumIs

(* PageCaches has the library's operators under its own names.             *)
LEMMA SameOperators ==
  ASSUME NEW s, NEW k
  PROVE  Caches!RemoveFirst(s, k) = RemoveFirst(s, k) /\ Caches!Range(s) = Range(s)
<1>1. Caches!Range(s) = Range(s)
  BY DEF Caches!Range, Range
<1>2. Caches!RemoveFirst(s, k) = RemoveFirst(s, k)
  BY DEF Caches!RemoveFirst, RemoveFirst, Caches!RemoveAt, RemoveAt,
         Caches!SelectInSeq, SelectInSeq, Caches!Min, Min
<1> QED BY <1>1, <1>2

LEMMA AccessSeen ==
  ASSUME GhostInv, NEW k \in Key, NEW mode \in Mode, Access(k, mode)
  PROVE  Caches!Access(k, mode)
<1>1. CoreTypeOK /\ CoreInv /\ LruOnly /\ Classed
  BY DEF GhostInv, TypeOK
<1> DEFINE hit == table[k] # Nil
           n == size'[self]
<1>2. PICK h \in Node :
        /\ refresh(self, k, h)
        /\ LET idx == IF hit THEN size_idx[h] ELSE size_idx_new(n)
           IN /\ shift_boundaries(h, idx, own_boundary(h, hit, idx, n))
              /\ count_access(hit, idx, mode)
  BY DEF Access
<1> DEFINE idx == IF hit THEN size_idx[h] ELSE size_idx_new(n)
<1>3. count_access(hit, idx, mode)
  BY <1>2
<1>4. PICK m \in 1..max_size : Accessed(k, h, m, idx)
  BY <1>1, <1>2, AccessedClass
<1>5. idx \in Idx
  BY <1>4 DEF Accessed
<1> HIDE DEF idx
<1>6. ASSUME NEW i \in Idx
      PROVE  /\ Held'[i] = LET others == RemoveFirst(Held[i], k)
                           IN Append(IF Len(others) = SizeOf(i) THEN Tail(others) ELSE others, k)
             /\ k \in Range(Held[i]) <=> hit /\ idx <= i
  <2> DEFINE z == SizeOf(i)
             others == RemoveFirst(NewestKeys(z), k)
  <2>1. /\ NewestKeys(z)' = Append(IF Len(others) = z THEN Tail(others) ELSE others, k)
        /\ k \in Range(NewestKeys(z)) <=> table[k] # Nil /\ idx <= i
    BY <1>2, <1>4, AccessUses
  <2>2. Held[i] = NewestKeys(z) /\ Held'[i] = NewestKeys(z)'
    BY HeldIs
  <2> QED BY <2>1, <2>2
<1>7. accum_hit_cnt' = [i \in Idx |->
           IF mode = "AS_HIT" \/ (mode = "DEFAULT" /\ hit /\ idx <= i)
           THEN accum_hit_cnt[i] + 1 ELSE accum_hit_cnt[i]]
  <2>1. TypeOK /\ hit \in BOOLEAN
    BY DEF GhostInv
  <2> HIDE DEF hit
  <2> QED BY <1>3, <1>5, <2>1, HitsSeen
<1>8. reuse_count' = (IF mode = "NOOP" THEN reuse_count ELSE reuse_count + 1) /\ asked' = mode
  BY <1>3 DEF Access, count_access
<1>9. Held' = [i \in Idx |-> LET others == RemoveFirst(Held[i], k)
                             IN Append(IF Len(others) = SizeOf(i) THEN Tail(others) ELSE others, k)]
  BY <1>6, HeldIs
<1>10. accum_hit_cnt' = [i \in Idx |->
           IF mode = "AS_HIT" \/ (mode = "DEFAULT" /\ k \in Range(Held[i]))
           THEN accum_hit_cnt[i] + 1 ELSE accum_hit_cnt[i]]
  BY <1>6, <1>7
<1> HIDE DEF hit
<1>11. Held' = [i \in Idx |->
            LET others == Caches!RemoveFirst(Held[i], k)
            IN Append(IF Len(others) = SizeOf(i) THEN Tail(others) ELSE others, k)]
  BY <1>9, SameOperators
<1>12. accum_hit_cnt' = [i \in Idx |->
           IF mode = "AS_HIT" \/ (mode = "DEFAULT" /\ k \in Caches!Range(Held[i]))
           THEN accum_hit_cnt[i] + 1 ELSE accum_hit_cnt[i]]
  BY <1>10, SameOperators
<1>13. DOMAIN [i \in Idx |-> SizeOf(i)] = Idx /\ \A i \in Idx : [j \in Idx |-> SizeOf(j)][i] = SizeOf(i)
  OBVIOUS
<1> QED BY <1>8, <1>11, <1>12, <1>13 DEF Caches!Access, Caches!Use, Caches!Hit, Held, SizeOf

(* The keys the simulated caches are asked for.                            *)
LEMMA SampledKeys ==
  ASSUME NEW k \in Key, sampled(k)
  PROVE  Hash[k] < 2^(HashBits - SampleShift)
<1> DEFINE p == 2^(HashBits - SampleShift)
           x == Hash[k]
<1>1. /\ HashBits \in Nat /\ SampleShift \in Int /\ SampleShift >= 1 /\ SampleShift <= HashBits
      /\ p > 0 /\ Hash \in [Key -> 0..(2^HashBits - 1)]
  BY SampleAssumption
<1>2. HashBits - SampleShift \in Nat
  BY <1>1
<1>3. p \in Int
  <2> HIDE DEF p
  <2>1. \A e \in Nat : 2^e \in Int
    OBVIOUS
  <2> QED BY <1>2, <2>1 DEF p
<1>4. x \in Int
  <2>1. 2^HashBits \in Int
    BY <1>1
  <2>2. Hash[k] \in 0..(2^HashBits - 1)
    BY <1>1
  <2> DEFINE q == 2^HashBits
  <2> HIDE DEF q
  <2> QED BY <2>1, <2>2
<1>5. x \div p = 0
  BY DEF sampled
<1> HIDE DEF x, p
<1>6. x = p * (x \div p) + (x % p) /\ x % p \in 0..(p - 1)
  BY <1>1, <1>3, <1>4
<1>7. x < p
  BY <1>3, <1>5, <1>6
<1> QED BY <1>7 DEF x, p

(* The list and the counts are all that the simulated caches show.         *)
LEMMA SeenUnchanged ==
  UNCHANGED <<list, key, reuse_distances, reuse_count, asked>> => UNCHANGED Caches!pageVars
<1> SUFFICES ASSUME UNCHANGED <<list, key, reuse_distances, reuse_count, asked>>
             PROVE  UNCHANGED Caches!pageVars
  OBVIOUS
<1>1. accum_hit_cnt' = accum_hit_cnt
  BY AccumIs
<1>2. Held' = Held
  BY DEF Held, NewestKeys, lru
<1> QED BY <1>1, <1>2 DEF Caches!pageVars, Held

LEMMA ResetSeen == ResetStat => Caches!Reset
<1> SUFFICES ASSUME ResetStat PROVE Caches!Reset
  OBVIOUS
<1>1. accum_hit_cnt' = [i \in Idx |-> 0]
  <2>1. reuse_distances' = [i \in Idx |-> 0]
    BY DEF ResetStat, cleared_distances
  <2> QED BY <2>1, AccumIs, AccumZero
<1>2. Held' = Held /\ reuse_count' = 0 /\ asked' = asked
  BY DEF ResetStat, coreVars, Held, NewestKeys, lru
<1>3. DOMAIN [i \in Idx |-> SizeOf(i)] = Idx
  OBVIOUS
<1> QED BY <1>1, <1>2, <1>3 DEF Caches!Reset, Held, SizeOf

LEMMA InitSeen == Init => Caches!Init
<1> SUFFICES ASSUME Init PROVE Caches!Init
  OBVIOUS
<1>1. accum_hit_cnt = [i \in Idx |-> 0] /\ reuse_count = 0 /\ asked = "NOOP"
  BY AccumIs, AccumZero DEF Init
<1>2. Held = [i \in Idx |-> <<>>]
  <2>1. lru(self) = <<>> /\ Len(<<>>) = 0
    BY SelfTag DEF Init, CoreInit, lru, Kind
  <2>2. ASSUME NEW i \in Idx PROVE NewestKeys(SizeOf(i)) = <<>>
    <3>1. SizeOf(i) \in Nat /\ ~(SizeOf(i) < 0)
      BY CacheSizes
    <3>2. NewestKeys(SizeOf(i)) = [j \in 1..0 |-> key[lru(self)[0 - 0 + j]]]
      BY <2>1, <3>1 DEF NewestKeys
    <3>3. 1..0 = {}
      OBVIOUS
    <3> QED BY <3>2, <3>3
  <2> QED BY <2>2, HeldIs
<1>3. DOMAIN [i \in Idx |-> SizeOf(i)] = Idx
  OBVIOUS
<1> QED BY <1>1, <1>2, <1>3 DEF Caches!Init, Held, SizeOf

LEMMA StepSeen == GhostInv /\ [SampledNext]_vars => [Caches!Next]_(Caches!pageVars)
<1> SUFFICES ASSUME GhostInv, [SampledNext]_vars
             PROVE  Caches!Next \/ UNCHANGED Caches!pageVars
  OBVIOUS
<1>1. ASSUME UNCHANGED <<list, key, reuse_distances, reuse_count, asked>>
      PROVE  UNCHANGED Caches!pageVars
  BY <1>1, SeenUnchanged
<1>2. ASSUME NEW k \in Key, NEW mode \in Mode, SampledAccess(k, mode)
      PROVE  Caches!Next \/ UNCHANGED Caches!pageVars
  <2>1. CASE sampled(k) /\ Access(k, mode)
    <3>1. k \in {j \in Key : Hash[j] < 2^(HashBits - SampleShift)}
      BY <2>1, SampledKeys
    <3>2. Caches!Access(k, mode)
      BY <2>1, AccessSeen
    <3> QED BY <3>1, <3>2 DEF Caches!Next
  <2>2. CASE UNCHANGED vars
    BY <1>1, <2>2 DEF vars, coreVars
  <2> QED BY <1>2, <2>1, <2>2 DEF SampledAccess
<1>3. ASSUME NEW cache_size \in 0..Unshifted(max_size), SampledGetStat(cache_size)
      PROVE  UNCHANGED Caches!pageVars
  <2>1. UNCHANGED <<list, key, reuse_distances, reuse_count, asked>>
    BY <1>3 DEF SampledGetStat, get_stat_shifted, GetStat, coreVars
  <2> QED BY <1>1, <2>1
<1>4. CASE PrintStat
  BY <1>1, <1>4 DEF PrintStat, coreVars
<1>5. CASE ResetStat
  BY <1>5, ResetSeen DEF Caches!Next
<1>6. CASE UNCHANGED vars
  BY <1>1, <1>6 DEF vars, coreVars
<1> QED BY <1>2, <1>3, <1>4, <1>5, <1>6 DEF SampledNext

(* One list with boundaries simulates the separate LRU caches, for every   *)
(* spectrum: what each would hold, and how many hits it would have had.    *)
THEOREM SimulatesPageCaches == SampledSpec => SimulatesCaches
<1>1. Init => Caches!Init
  BY InitSeen
<1>2. GhostInv /\ [SampledNext]_vars => [Caches!Next]_(Caches!pageVars)
  BY StepSeen
<1> QED BY <1>1, <1>2, GhostInvariance, SampledIsGhost, PTL
        DEF SampledSpec, SimulatesCaches, Caches!Spec

-----------------------------------------------------------------------------
(* The curve of SampledGhostKvCache.                                       *)

(* Below the smallest count, where curr_count - min_size wraps around, the *)
(* code must not find a multiple of tick.                                  *)
NoPointBelow == \A n \in 1..(min_size - 1) : ((n - min_size) % Word) % tick # 0

(* The remainder is the only one there can be.                             *)
LEMMA ModIs ==
  ASSUME NEW x \in Int, NEW w \in Nat, NEW q \in Int, NEW r \in 0..(w - 1), x = q * w + r
  PROVE  x % w = r
<1> DEFINE a == x \div w
           b == x % w
           z == q - a
<1>1. w > 0 /\ x = w * a + b /\ b \in 0..(w - 1) /\ a \in Int
  OBVIOUS
<1> HIDE DEF a, b
<1>2. /\ z \in Int /\ z * w \in Int /\ z * w = q * w - w * a
      /\ z > 0 => z * w >= w
      /\ z < 0 => z * w <= -w
      /\ z = 0 => z * w = 0
  <2>1. z \in Int
    BY <1>1
  <2>2. z * w = q * w - w * a
    BY <1>1
  <2> HIDE DEF z
  <2>3. z * w \in Int /\ (z > 0 => z * w >= w) /\ (z < 0 => z * w <= -w) /\ (z = 0 => z * w = 0)
    BY <1>1, <2>1
  <2> QED BY <2>1, <2>2, <2>3
<1> DEFINE y == z * w
<1>3. y = b - r
  <2> DEFINE u == q * w
             v == w * a
  <2>1. u \in Int /\ v \in Int /\ x = u + r /\ x = v + b /\ y = u - v
    BY <1>1, <1>2
  <2> HIDE DEF u, v, y
  <2> QED BY <1>1, <2>1
<1>4. (z > 0 => y >= w) /\ (z < 0 => y <= -w) /\ (z = 0 => y = 0) /\ z \in Int
  BY <1>2
<1> HIDE DEF y, z
<1>5. b = r
  BY <1>1, <1>3, <1>4
<1> QED BY <1>5 DEF b

LEMMA MultipleOfTick ==
  ASSUME NEW i \in Nat
  PROVE  i * tick \in Nat /\ (i * tick) % tick = 0
<1>1. tick \in Nat /\ 0 \in 0..(tick - 1)
  BY Ticks
<1>2. i * tick \in Nat /\ i * tick = i * tick + 0
  BY <1>1
<1> DEFINE x == i * tick
<1> HIDE DEF x
<1>3. x \in Nat /\ x = i * tick + 0
  BY <1>2 DEF x
<1>4. x % tick = 0
  BY <1>1, <1>3, ModIs
<1> QED BY <1>3, <1>4 DEF x

(* So it is in test_ghost_kv.cpp:27, where min_size is tick, which divides *)
(* 2^32.                                                                   *)
LEMMA TickDividesWord ==
  ASSUME min_size <= tick, NEW c \in Nat, Word = c * tick
  PROVE  NoPointBelow
<1> SUFFICES ASSUME NEW n \in 1..(min_size - 1) PROVE ((n - min_size) % Word) % tick # 0
  BY DEF NoPointBelow
<1>1. tick \in Nat /\ tick > 0 /\ min_size \in Nat /\ Word \in Nat /\ Word > 0
  BY Ticks, KvAssumption
<1> DEFINE x == n - min_size
<1>2. x \in Int /\ x < 0 /\ x > -tick
  BY <1>1
<1> HIDE DEF x
<1>3. c > 0 /\ (c - 1) * tick = Word - tick /\ (c - 1) * tick \in Nat
  <2>1. c # 0
    BY <1>1
  <2>2. (c - 1) * tick = c * tick - tick
    BY <1>1
  <2>3. c - 1 \in Nat
    BY <2>1
  <2> QED BY <1>1, <2>2, <2>3
<1>4. tick <= Word
  BY <1>1, <1>3
<1>5. x % Word = x + Word
  <2>1. x + Word \in 0..(Word - 1) /\ x = (-1) * Word + (x + Word)
    BY <1>1, <1>2, <1>4
  <2> QED BY <1>1, <1>2, <2>1, ModIs
<1>6. (x + Word) % tick = x + tick
  <2> DEFINE r == x + tick
             w == x + Word
  <2>1. r \in 0..(tick - 1) /\ w \in Int /\ w = (c - 1) * tick + r
    BY <1>1, <1>2, <1>3
  <2>2. c - 1 \in Int
    OBVIOUS
  <2> HIDE DEF r, w
  <2>3. w % tick = r
    BY <1>1, <2>1, <2>2, ModIs
  <2> QED BY <2>3 DEF r, w
<1>7. x + tick # 0
  BY <1>1, <1>2
<1> QED BY <1>5, <1>6, <1>7 DEF x

(* The counts the code emits points for are those of the spectrum that the *)
(* list has reached.                                                       *)
Reached(s) == {i * tick + min_size : i \in Idx} \cap 0..Len(s)

LEMMA EmittedReached ==
  ASSUME Filling, max_size <= Word, NoPointBelow
  PROVE  Emitted = Reached(lru(self))
<1> DEFINE l == Len(lru(self))
<1>1. /\ tick \in Nat /\ tick > 0 /\ min_size \in Nat /\ min_size > 1 /\ max_size \in Nat
      /\ Word \in Nat /\ l \in Nat /\ l <= max_size
  BY Ticks, KvAssumption DEF Filling
<1>2. Idx \subseteq Nat
  BY Ticks DEF Idx
<1>3. ASSUME NEW n \in 1..l, n >= min_size
      PROVE  ((n - min_size) % Word) % tick = 0 <=> \E i \in Idx : n = i * tick + min_size
  <2> DEFINE x == n - min_size
  <2>1. x \in Nat /\ x < Word /\ n \in min_size..max_size
    BY <1>1, <1>3
  <2>2. x % Word = x
    <3> HIDE DEF x
    <3>1. x \in 0..(Word - 1) /\ x = 0 * Word + x /\ x \in Int
      BY <1>1, <2>1
    <3> QED BY <1>1, <3>1, ModIs
  <2>3. ASSUME x % tick = 0 PROVE \E i \in Idx : n = i * tick + min_size
    <3> DEFINE q == x \div tick
    <3>1. q \in Idx
      BY <2>1, <2>3, StatIndex
    <3>2. x = tick * q + (x % tick)
      <4> HIDE DEF x
      <4> QED BY <1>1, <2>1
    <3>3. q \in Nat
      BY <1>2, <3>1
    <3> HIDE DEF q
    <3>4. tick * q = q * tick /\ q * tick \in Nat
      BY <1>1, <3>3
    <3>5. n = q * tick + min_size
      BY <1>1, <2>1, <2>3, <3>2, <3>4
    <3> QED BY <3>1, <3>5
  <2>4. ASSUME NEW i \in Idx, n = i * tick + min_size PROVE x % tick = 0
    <3>1. i * tick \in Nat /\ (i * tick) % tick = 0
      BY <1>2, MultipleOfTick
    <3>2. x = i * tick
      BY <1>1, <2>4, <3>1
    <3> QED BY <3>1, <3>2
  <2> QED BY <2>2, <2>3, <2>4
<1>4. ASSUME NEW n \in 1..l, n < min_size
      PROVE  /\ ((n - min_size) % Word) % tick # 0
             /\ ~\E i \in Idx : n = i * tick + min_size
  <2>1. n \in 1..(min_size - 1)
    BY <1>1, <1>4
  <2>2. \A i \in Idx : i * tick \in Nat
    BY <1>2, MultipleOfTick
  <2>3. \A i \in Idx : n # i * tick + min_size
    <3>1. ASSUME NEW i \in Idx PROVE n # i * tick + min_size
      <4> DEFINE y == i * tick
      <4>1. y \in Nat
        BY <2>2
      <4> HIDE DEF y
      <4>2. n # y + min_size
        BY <1>1, <1>4, <4>1
      <4> QED BY <4>2 DEF y
    <3> QED BY <3>1
  <2> QED BY <2>1, <2>3 DEF NoPointBelow
<1>5. ASSUME NEW i \in Idx, i * tick + min_size \in 0..l
      PROVE  i * tick + min_size \in 1..l
  <2>1. i * tick \in Nat
    BY <1>2, MultipleOfTick
  <2> DEFINE y == i * tick
  <2> HIDE DEF y
  <2>2. y \in Nat /\ y + min_size \in 0..l
    BY <1>5, <2>1 DEF y
  <2>3. y + min_size \in 1..l
    BY <1>1, <2>2
  <2> QED BY <2>3 DEF y
<1>6. ASSUME NEW n \in 1..l
      PROVE  ((n - min_size) % Word) % tick = 0 <=> \E i \in Idx : n = i * tick + min_size
  <2>1. n >= min_size \/ n < min_size
    BY <1>1
  <2> QED BY <1>3, <1>4, <2>1
<1>7. Emitted = {n \in 1..l : ((n - min_size) % Word) % tick = 0}
  BY DEF Emitted
<1>8. 1..l \subseteq 0..l
  BY <1>1
<1> HIDE DEF l
<1>9. Reached(lru(self)) = {i * tick + min_size : i \in Idx} \cap 0..l
  BY DEF Reached, l
<1> QED BY <1>5, <1>6, <1>7, <1>8, <1>9

-----------------------------------------------------------------------------
(* The pairs of the n newest nodes, by the sizes their keys were given.    *)
PairsSize(s, f, g, n) == SumFunction([i \in 1..n |-> g[f[s[Len(s) - n + i]]]])

CurveOf(s, f, g) ==
  {[count |-> Shifted(n), size |-> Shifted(PairsSize(s, f, g, n))] : n \in Reached(s)}

CurveIs == curve # {} => curve = CurveOf(lru(self), key, given)

LEMMA CurveExactIs == Filling => (CurveExact <=> CurveIs)
<1> SUFFICES ASSUME Filling PROVE CurveExact <=> CurveIs
  OBVIOUS
<1> DEFINE s == lru(self)
           l == Len(s)
<1>1. l \in Nat
  BY DEF Filling
<1>2. ASSUME NEW n \in Reached(s)
      PROVE  FoldFunction(+, 0, [i \in 1..n |-> given[NewestKeys(n)[i]]])
               = PairsSize(s, key, given, n)
  <2>1. n \in 0..l
    BY DEF Reached
  <2>2. NewestKeys(n) = [i \in 1..n |-> key[s[l - n + i]]]
    <3>1. (IF n < l THEN n ELSE l) = n
      BY <1>1, <2>1
    <3> QED BY <3>1 DEF NewestKeys
  <2>3. [i \in 1..n |-> given[NewestKeys(n)[i]]] = [i \in 1..n |-> given[key[s[l - n + i]]]]
    BY <2>2
  <2>4. FoldFunction(+, 0, [i \in 1..n |-> given[key[s[l - n + i]]]])
          = SumFunction([i \in 1..n |-> given[key[s[l - n + i]]]])
    BY DEF FoldFunction, SumFunction, SumFunctionOnSet
  <2> QED BY <2>3, <2>4 DEF PairsSize
<1>3. {[count |-> Shifted(n),
        size |-> Shifted(FoldFunction(+, 0, [i \in 1..n |-> given[NewestKeys(n)[i]]]))] :
         n \in Reached(s)} = CurveOf(s, key, given)
  BY <1>2 DEF CurveOf, Shifted, Unshifted
<1> QED BY <1>3 DEF CurveExact, CurveIs, Reached

LEMMA CurveExactNext == Filling' => (CurveExact' <=> CurveIs')
BY CurveExactIs, PTL

(* A node on the list has the size its key was last given.                 *)
SizesKept == \A e \in Range(lru(self)) : kv_size[e] = given[key[e]]

KvInv ==
  /\ GhostInv /\ SizesKept /\ CurveIs
  /\ kv_size \in [Node -> Nat] /\ given \in [Key -> Nat]

(* The sum over the newest nodes is that of what their keys were given.    *)
LEMMA SpaceIs ==
  ASSUME Filling, SizesKept, NEW n \in 0..Len(lru(self)),
         kv_size \in [Node -> Nat]
  PROVE  curr_size(n) = PairsSize(lru(self), key, given, n)
<1> DEFINE s == lru(self)
           l == Len(s)
           a == l - n
           f == [i \in 1..l |-> kv_size[s[i]]]
<1>1. l \in Nat /\ n \in Nat /\ a \in Nat /\ a + n = l /\ s \in Seq(Node)
  BY DEF Filling
<1>2. \A i \in 1..l : s[i] \in Node /\ s[i] \in Range(s)
  BY <1>1, RangeEquality
<1>3. \A i \in 1..l : f[i] = given[key[s[i]]] /\ f[i] \in Int
  BY <1>2 DEF SizesKept
<1>4. curr_size(n) = SumFunctionOnSet(f, (a + 1)..(a + n))
  BY <1>1 DEF curr_size, SumFunctionOnSet
<1> HIDE DEF f
<1>5. \A j \in (a + 1)..(a + n) : f[j] \in Int
  BY <1>1, <1>3
<1>6. SumFunctionOnSet(f, (a + 1)..(a + n)) = SumFunction([i \in 1..n |-> f[a + i]])
  <2> HIDE DEF a, l
  <2> QED BY <1>1, <1>5, SumShifted
<1>7. [i \in 1..n |-> f[a + i]] = [i \in 1..n |-> given[key[s[l - n + i]]]]
  <2>1. \A i \in 1..n : a + i \in 1..l /\ l - n + i = a + i
    BY <1>1
  <2> QED BY <1>3, <2>1
<1> QED BY <1>4, <1>6, <1>7 DEF PairsSize

LEMMA GivesCurve ==
  ASSUME KvInv, GetCurve, max_size <= Word, NoPointBelow
  PROVE  curve' = CurveOf(lru(self), key, given)
<1>1. Filling
  BY Fills DEF KvInv, GhostInv, TypeOK
<1>2. Emitted = Reached(lru(self))
  BY <1>1, EmittedReached
<1>3. \A n \in Reached(lru(self)) : curr_size(n) = PairsSize(lru(self), key, given, n)
  <2>1. \A n \in Reached(lru(self)) : n \in 0..Len(lru(self))
    BY DEF Reached
  <2> QED BY <1>1, <2>1, SpaceIs DEF KvInv
<1>4. curve' = {[count |-> Shifted(n), size |-> Shifted(curr_size(n))] : n \in Emitted}
  BY DEF GetCurve
<1> QED BY <1>2, <1>3, <1>4 DEF CurveOf

-----------------------------------------------------------------------------
LEMMA InitKv == KvInit => KvInv
<1> SUFFICES ASSUME KvInit PROVE KvInv
  OBVIOUS
<1>1. GhostInv
  BY InitGhost DEF KvInit
<1>2. Range(lru(self)) = {}
  <2>1. lru(self) = <<>>
    BY SelfTag DEF KvInit, Init, CoreInit, lru, Kind
  <2> QED BY <2>1 DEF Range
<1> QED BY <1>1, <1>2 DEF KvInit, KvInv, SizesKept, CurveIs

LEMMA ListedKeys ==
  CoreTypeOK /\ CoreInv /\ LruOnly =>
    \A e \in Range(lru(self)) : e \in Node /\ key[e] \in Key /\ table[key[e]] = e
<1> SUFFICES ASSUME CoreTypeOK, CoreInv, LruOnly, NEW e \in Range(lru(self))
             PROVE  e \in Node /\ key[e] \in Key /\ table[key[e]] = e
  OBVIOUS
<1>1. lru(self) \in Seq(Node) /\ Inj(lru(self))
  BY Fills DEF Filling
<1>2. PICK d \in 1..Len(lru(self)) : e = FromEnd(lru(self), d)
  BY <1>1, Depths
<1> QED BY <1>2, KeyDepths

LEMMA ListedKeysNext ==
  (CoreTypeOK /\ CoreInv /\ LruOnly)' =>
    \A e \in Range(lru(self)') : e \in Node /\ key'[e] \in Key /\ table'[key'[e]] = e
<1>1. (CoreTypeOK /\ CoreInv /\ LruOnly)' =>
        (\A e \in Range(lru(self)) : e \in Node /\ key[e] \in Key /\ table[key[e]] = e)'
  BY ListedKeys, PTL
<1> QED BY <1>1

(* A refresh brings no other node to the list.                             *)
LEMMA RefreshedRange ==
  ASSUME NEW S, NEW s \in Seq(S), NEW t \in Seq(S), Inj(s), Inj(t), NEW h, NEW m \in Nat,
         Refreshed(s, t, h, m), NEW e \in Range(t), e # h
  PROVE  e \in Range(s)
<1>1. PICK d \in 1..Len(t) : e = FromEnd(t, d)
  BY Depths
<1> DEFINE n == Len(s)
<1>2. n \in Nat /\ d \in Nat /\ d > 1 /\ d <= IF m > n THEN n + 1 ELSE n
  <2>1. d # 1
    BY <1>1 DEF Refreshed
  <2>2. Len(t) = IF m > n THEN n + 1 ELSE n
    BY DEF Refreshed
  <2> QED BY <1>1, <2>1, <2>2
<1>3. \A c \in 1..n : FromEnd(s, c) \in Range(s)
  BY Depths
<1>4. CASE d - 1 < m
  <2>1. d - 1 \in 1..n /\ (d - 1) + 1 = d
    BY <1>2, <1>4
  <2>2. FromEnd(t, d) = FromEnd(s, d - 1)
    BY <1>4, <2>1 DEF Refreshed
  <2> QED BY <1>1, <1>3, <2>1, <2>2
<1>5. CASE ~(d - 1 < m)
  <2>1. d \in 1..n /\ d > m
    BY <1>2, <1>5
  <2>2. FromEnd(t, d) = FromEnd(s, d)
    BY <2>1 DEF Refreshed
  <2> QED BY <1>1, <1>3, <2>1, <2>2
<1> QED BY <1>4, <1>5

LEMMA AccessKvKeeps ==
  ASSUME KvInv, NEW k \in Key, NEW bytes \in KvSize, NEW mode \in Mode, Access(k, mode),
         kv_size' = sized(table'[k], k, bytes), given' = [given EXCEPT ![k] = bytes]
  PROVE  /\ GhostInv' /\ SizesKept'
         /\ kv_size' \in [Node -> Nat] /\ given' \in [Key -> Nat]
<1>1. GhostInv'
  BY AccessKeeps DEF KvInv
<1>2. /\ CoreTypeOK /\ CoreInv /\ LruOnly /\ (CoreTypeOK /\ CoreInv /\ LruOnly)'
  BY <1>1 DEF KvInv, GhostInv, TypeOK
<1>3. bytes \in Nat /\ kv_size \in [Node -> Nat] /\ given \in [Key -> Nat]
  BY KvAssumption DEF KvInv
<1>4. kv_size' = [kv_size EXCEPT ![table'[k]] = bytes]
  BY DEF sized
<1>5. kv_size' \in [Node -> Nat] /\ given' \in [Key -> Nat]
  BY <1>3, <1>4
<1>6. PICK h \in Node : refresh(self, k, h)
  BY DEF Access
<1>7. PICK m \in 1..max_size : Refreshed(lru(self), lru(self)', h, m)
  BY <1>2, <1>6, RefreshFinds
<1>8. key'[h] = k /\ \A e \in Node : e # h => key'[e] = key[e]
  BY <1>2, <1>6, AccessKeys
<1>9. ASSUME NEW e \in Range(lru(self)') PROVE kv_size'[e] = given'[key'[e]]
  <2>1. e \in Node /\ key'[e] \in Key /\ table'[key'[e]] = e
    BY <1>2, <1>9, ListedKeysNext
  <2>2. CASE key'[e] = k
    BY <1>3, <1>4, <2>1, <2>2
  <2>3. CASE key'[e] # k
    <3>1. e # h /\ key'[e] = key[e]
      BY <1>8, <2>1, <2>3
    <3>2. e \in Range(lru(self))
      <4>1. /\ lru(self) \in Seq(Node) /\ Inj(lru(self))
            /\ lru(self)' \in Seq(Node) /\ Inj(lru(self)')
        BY <1>2, Fills, FillsNext DEF Filling
      <4> QED BY <1>7, <1>9, <3>1, <4>1, RefreshedRange
    <3>3. e # table'[k]
      <4>1. table'[k] # Nil => key'[table'[k]] = k
        BY <1>2 DEF CoreInv, TableAgrees
      <4>2. e # Nil
        BY <2>1, NilAssumption
      <4> QED BY <2>3, <4>1, <4>2
    <3>4. kv_size'[e] = kv_size[e] /\ given'[key'[e]] = given[key'[e]]
      BY <1>3, <1>4, <2>1, <2>3, <3>3
    <3> QED BY <3>1, <3>2, <3>4 DEF KvInv, SizesKept
  <2> QED BY <2>2, <2>3
<1>10. SizesKept'
  BY <1>9 DEF SizesKept
<1> QED BY <1>1, <1>5, <1>10

LEMMA UnsizedKeeps ==
  ASSUME KvInv, GhostInv', UNCHANGED <<list, key, kv_size, given>>
  PROVE  SizesKept' /\ kv_size' \in [Node -> Nat] /\ given' \in [Key -> Nat]
BY DEF KvInv, SizesKept, lru

LEMMA KvKeeps ==
  ASSUME max_size <= Word, NoPointBelow
  PROVE  KvInv /\ [KvNext]_<<vars, kvVars>> => KvInv'
<1> SUFFICES ASSUME KvInv, [KvNext]_<<vars, kvVars>> PROVE KvInv'
  OBVIOUS
<1>1. ASSUME UNCHANGED <<list, key, kv_size, given>>, GhostInv', curve' = {} \/ curve' = curve
      PROVE  KvInv'
  <2>1. SizesKept' /\ kv_size' \in [Node -> Nat] /\ given' \in [Key -> Nat]
    BY <1>1, UnsizedKeeps
  <2>2. lru(self)' = lru(self) /\ CurveOf(lru(self), key, given)' = CurveOf(lru(self), key, given)
    BY <1>1 DEF lru, CurveOf, PairsSize, Reached
  <2>3. CurveIs'
    BY <1>1, <2>2 DEF KvInv, CurveIs
  <2> QED BY <1>1, <2>1, <2>3 DEF KvInv
<1>2. ASSUME UNCHANGED vars PROVE GhostInv'
  BY <1>2, NextKeeps DEF KvInv
<1>3. ASSUME NEW k \in Key, NEW bytes \in KvSize, NEW mode \in Mode, AccessKv(k, bytes, mode)
      PROVE  KvInv'
  <2>1. CASE sampled(k)
    <3>1. /\ Access(k, mode) /\ curve' = {} /\ kv_size' = sized(table'[k], k, bytes)
          /\ given' = [given EXCEPT ![k] = bytes]
      BY <1>3, <2>1 DEF AccessKv
    <3>2. /\ GhostInv' /\ SizesKept'
          /\ kv_size' \in [Node -> Nat] /\ given' \in [Key -> Nat]
      BY <3>1, AccessKvKeeps
    <3> QED BY <3>1, <3>2 DEF KvInv, CurveIs
  <2>2. CASE ~sampled(k)
    <3>1. UNCHANGED <<vars, kv_size, given>> /\ curve' = {}
      BY <1>3, <2>2 DEF AccessKv
    <3> QED BY <1>1, <1>2, <3>1 DEF vars, coreVars
  <2> QED BY <2>1, <2>2
<1>4. ASSUME NEW count \in 0..Unshifted(max_size), Unsized(SampledGetStat(count))
      PROVE  KvInv'
  <2> DEFINE c == count \div 2^SampleShift
  <2>1. /\ c \in min_size..max_size /\ (c - min_size) % tick = 0
        /\ GetStat((c - min_size) \div tick)
        /\ curve' = {} /\ UNCHANGED <<kv_size, given>>
    BY <1>4 DEF Unsized, SampledGetStat, get_stat_shifted
  <2> HIDE DEF c
  <2>2. (c - min_size) \div tick \in Idx
    BY <2>1, StatIndex
  <2>3. GhostInv'
    BY <2>1, <2>2, StatKeeps DEF KvInv, GetStat
  <2> QED BY <1>1, <2>1, <2>3 DEF GetStat, coreVars
<1>5. CASE Unsized(ResetStat)
  <2>1. ResetStat /\ curve' = {} /\ UNCHANGED <<kv_size, given>>
    BY <1>5 DEF Unsized
  <2>2. GhostInv'
    BY <2>1, ResetKeeps DEF KvInv
  <2> QED BY <1>1, <2>1, <2>2 DEF ResetStat, coreVars
<1>6. CASE GetCurve
  <2>1. /\ UNCHANGED <<coreVars, size_idx, boundaries, reuse_distances, reuse_count, asked>>
        /\ UNCHANGED <<kv_size, given>>
        /\ query' = NoQuery /\ caches_stat' \in {built_stat, caches_stat}
    BY <1>6 DEF GetCurve
  <2>2. GhostInv'
    BY <2>1, StatKeeps DEF KvInv
  <2>3. UNCHANGED <<list, key, kv_size, given>>
    BY <2>1 DEF coreVars
  <2>4. SizesKept' /\ kv_size' \in [Node -> Nat] /\ given' \in [Key -> Nat]
    BY <2>2, <2>3, UnsizedKeeps
  <2>5. curve' = CurveOf(lru(self), key, given)
    BY <1>6, GivesCurve
  <2>6. CurveOf(lru(self), key, given)' = CurveOf(lru(self), key, given)
    BY <2>3 DEF lru, CurveOf, PairsSize, Reached
  <2>7. CurveIs'
    BY <2>5, <2>6 DEF CurveIs
  <2> QED BY <2>2, <2>4, <2>7 DEF KvInv
<1>7. CASE UNCHANGED <<vars, kvVars>>
  <2>1. UNCHANGED vars /\ UNCHANGED <<kv_size, curve, given>>
    BY <1>7 DEF kvVars
  <2> QED BY <1>1, <1>2, <2>1 DEF vars, coreVars
<1> QED BY <1>3, <1>4, <1>5, <1>6, <1>7 DEF KvNext

(* get_cache_stat_curve has a point for every full cache of the spectrum,  *)
(* with the size of exactly the pairs that cache holds, as the client last *)
(* said it: for every spectrum that gives no point below its smallest size.  *)
THEOREM CurveIsExact ==
  ASSUME max_size <= Word, NoPointBelow
  PROVE  KvSpec => []CurveExact
<1>1. KvInv => CurveExact
  <2>1. KvInv => Filling
    BY Fills DEF KvInv, GhostInv, TypeOK
  <2> QED BY <2>1, CurveExactIs DEF KvInv
<1> QED BY <1>1, InitKv, KvKeeps, PTL DEF KvSpec

-----------------------------------------------------------------------------
(* A thread that reads a CacheStat of the cache (StatReader): what         *)
(* get_hit_rate computes in a build that loads hit_cnt once, whatever the  *)
(* owner of the cache does in the meantime.                                *)
CONSTANT Reloads
VARIABLES hits, count, hit_cnt, miss_cnt, todo, pc, acc_cnt, numerator

Reader == INSTANCE StatReader

(* The owner's counts are those of one cache: no more hits than accesses.  *)
OwnerInv ==
  /\ hits \in Nat /\ count \in Nat /\ hits <= count
  /\ hit_cnt \in Nat /\ miss_cnt \in Nat

(* What the reader has loaded for the numerator is part of acc_cnt.        *)
ReaderInv ==
  /\ acc_cnt \in Nat /\ numerator \in Nat
  /\ pc \in {"idle", "hit", "acc", "done"}
  /\ pc # "idle" => numerator <= acc_cnt

ReadInv == OwnerInv /\ ReaderInv

LEMMA InitReadInv == Reader!Init => ReadInv
BY DEF Reader!Init, ReadInv, OwnerInv, ReaderInv

(* A step of the owner leaves the counts of the reader alone.              *)
LEMMA OwnerKeeps ==
  ASSUME ReadInv, \/ \E hit \in BOOLEAN : Reader!Access(hit)
                  \/ Reader!ResetStat \/ Reader!GetStat
                  \/ Reader!Store("hit_cnt") \/ Reader!Store("miss_cnt")
  PROVE  ReadInv'
<1>1. OwnerInv'
  <2>1. CASE \E hit \in BOOLEAN : Reader!Access(hit)
    BY <2>1 DEF ReadInv, OwnerInv, Reader!Access, Reader!memory
  <2>2. CASE Reader!ResetStat
    BY <2>2 DEF ReadInv, OwnerInv, Reader!ResetStat, Reader!memory
  <2>3. CASE Reader!GetStat
    BY <2>3 DEF ReadInv, OwnerInv, Reader!GetStat, Reader!memory
  <2>4. CASE Reader!Store("hit_cnt")
    BY <2>4 DEF ReadInv, OwnerInv, Reader!Store
  <2>5. CASE Reader!Store("miss_cnt")
    BY <2>5 DEF ReadInv, OwnerInv, Reader!Store
  <2> QED
    BY <2>1, <2>2, <2>3, <2>4, <2>5
<1>2. UNCHANGED Reader!reader
  BY DEF Reader!Access, Reader!ResetStat, Reader!GetStat, Reader!Store
<1>3. ReaderInv'
  BY <1>2 DEF ReadInv, ReaderInv, Reader!reader
<1> QED
  BY <1>1, <1>3 DEF ReadInv

(* A load adds to acc_cnt; only a second load of hit_cnt could break the   *)
(* bound, and the build has none.                                          *)
LEMMA ReaderKeeps ==
  ASSUME Reloads = {FALSE}, ReadInv, Reader!LoadHit \/ Reader!LoadMiss \/ Reader!Divide
  PROVE  ReadInv'
<1>1. CASE Reader!LoadHit
  BY <1>1 DEF ReadInv, OwnerInv, ReaderInv, Reader!LoadHit, Reader!memory
<1>2. CASE Reader!LoadMiss
  BY <1>2 DEF ReadInv, OwnerInv, ReaderInv, Reader!LoadMiss, Reader!memory
<1>3. CASE Reader!Divide
  BY <1>3 DEF ReadInv, OwnerInv, ReaderInv, Reader!Divide, Reader!memory
<1> QED
  BY <1>1, <1>2, <1>3

LEMMA NextReadInv ==
  ASSUME Reloads = {FALSE}, ReadInv, [Reader!Next]_(Reader!vars)
  PROVE  ReadInv'
<1>1. CASE UNCHANGED Reader!vars
  BY <1>1 DEF ReadInv, OwnerInv, ReaderInv, Reader!vars, Reader!memory, Reader!reader
<1>2. CASE Reader!Next
  BY <1>2, OwnerKeeps, ReaderKeeps DEF Reader!Next
<1> QED
  BY <1>1, <1>2

LEMMA ReadInvSuffices == ReadInv => Reader!ReasonableRate
BY DEF ReadInv, ReaderInv, Reader!ReasonableRate

(* A build that loads hit_cnt once never reports a hit rate above 100%,    *)
(* however the loads of the reader fall between the stores of the owner    *)
(* and in whatever order these are done.                                   *)
THEOREM OneLoadIsReasonable ==
  ASSUME Reloads = {FALSE}
  PROVE  Reader!Spec => []Reader!ReasonableRate
<1>1. Reader!Init => ReadInv
  BY InitReadInv
<1>2. ReadInv /\ [Reader!Next]_(Reader!vars) => ReadInv'
  BY NextReadInv
<1>3. ReadInv => Reader!ReasonableRate
  BY ReadInvSuffices
<1> QED
  BY <1>1, <1>2, <1>3, PTL DEF Reader!Spec
==============================================================================
