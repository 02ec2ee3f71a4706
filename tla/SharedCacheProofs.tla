-------------------------- MODULE SharedCacheProofs --------------------------
(***************************************************************************)
(* The invariant of SharedCache, for any number of tenants, any slices of  *)
(* the pool, any keys and nodes, as long as the client does not erase      *)
(* through a handle whose node was preempted.  The calls on one tenant are *)
(* the member functions of LRUCoreProofs; what is new here is relocate,    *)
(* the tags, and the sum of the capacities.                                *)
(***************************************************************************)
EXTENDS SharedCache, LRUCoreProofs

-----------------------------------------------------------------------------
(* relocate: which nodes move, and what becomes of the lists.              *)

(* The nodes of G, free ones and residents of src, go to dst's free list.  *)
Reassigned(src, dst, G) ==
  /\ list' \in Lists
  /\ \A L \in Tag \X Kind : Inj(list'[L])
  /\ G \subseteq On(src, "free") \cup On(src, "lru")
  /\ \A u \in Tag, m \in Kind :
       On(u, m)' = IF u = dst /\ m = "free" THEN On(u, m) \cup G ELSE On(u, m) \ G

(* Taking n of the nodes alloc_node would give, v of them by eviction.     *)
LEMMA Taken ==
  ASSUME NEW t \in Tag, CoreTypeOK, LinkedOnce,
         NEW n \in 0..(Len(free(t)) + Len(lru(t))),
         NEW v \in Nat, n > Len(free(t)) => v = n - Len(free(t)), n <= Len(free(t)) => v = 0
  PROVE  LET g == SubSeq(Available(t), 1, n)
             f2 == SubSeq(free(t), n + 1, Len(free(t)))
             l2 == SubSeq(lru(t), v + 1, Len(lru(t)))
         IN /\ g \in Seq(Node) /\ Inj(g) /\ Len(g) = n
            /\ f2 \in Seq(Node) /\ Inj(f2) /\ Len(f2) = Len(free(t)) - (n - v)
            /\ l2 \in Seq(Node) /\ Inj(l2) /\ Len(l2) = Len(lru(t)) - v /\ v <= Len(lru(t))
            /\ Range(g) \subseteq On(t, "free") \cup On(t, "lru")
            /\ Range(f2) = On(t, "free") \ Range(g)
            /\ Range(l2) = On(t, "lru") \ Range(g)
            /\ Range(g) \cap On(t, "lru") = {lru(t)[i] : i \in 1..v}
<1>1. Once(list) /\ list \in Lists
  BY OnceByPlaces DEF CoreTypeOK, Lists, LinkedOnce
<1>2. <<t, "free">> \in Tag \X Kind /\ <<t, "lru">> \in Tag \X Kind /\ <<t, "free">> # <<t, "lru">>
  BY DEF Kind
<1>3. /\ free(t) \in Seq(Node) /\ lru(t) \in Seq(Node)
      /\ Inj(free(t)) /\ Inj(lru(t))
      /\ Range(free(t)) \cap Range(lru(t)) = {}
  BY <1>1, <1>2 DEF Once, Lists, free, lru
<1>4. On(t, "free") = Range(free(t)) /\ On(t, "lru") = Range(lru(t))
  BY DEF On, free, lru
<1>5. Available(t) = free(t) \o lru(t)
  BY DEF Available
<1> DEFINE f == free(t)
           l == lru(t)
<1> HIDE DEF f, l
<1>6. /\ f \in Seq(Node) /\ l \in Seq(Node) /\ Inj(f) /\ Inj(l)
      /\ Range(f) \cap Range(l) = {} /\ n \in 0..(Len(f) + Len(l))
      /\ n > Len(f) => v = n - Len(f)
      /\ n <= Len(f) => v = 0
  BY <1>3 DEF f, l
<1>7. Takes(Node, f, l, n, v)
  BY <1>6, TakeProps
<1> QED BY <1>4, <1>5, <1>7 DEF f, l, Takes

(* How many nodes relocate moves, and how many of them it evicts.          *)
Evicted(t, m) == IF m > Len(free(t)) THEN m - Len(free(t)) ELSE 0

LEMMA MoveCounts ==
  ASSUME NEW t \in Tag, CoreTypeOK, NEW n \in Nat
  PROVE  LET m == MoveCount(t, n)
             v == Evicted(t, m)
         IN /\ m \in 0..(Len(free(t)) + Len(lru(t))) /\ m \in Nat
            /\ v \in Nat /\ v <= Len(lru(t))
            /\ m > Len(free(t)) => v = m - Len(free(t))
            /\ m <= Len(free(t)) => v = 0
<1>1. free(t) \in Seq(Node) /\ lru(t) \in Seq(Node)
  BY DEF CoreTypeOK, free, lru, Kind
<1>2. Len(Available(t)) = Len(free(t)) + Len(lru(t)) /\ Len(free(t)) \in Nat /\ Len(lru(t)) \in Nat
  BY <1>1, ConcatProperties DEF Available
<1> DEFINE F == Len(free(t))
           L == Len(lru(t))
           m == MoveCount(t, n)
           v == Evicted(t, m)
<1>3. /\ m = IF n < F + L THEN n ELSE F + L
      /\ v = IF m > F THEN m - F ELSE 0
      /\ F \in Nat /\ L \in Nat
  BY <1>2 DEF MoveCount, Evicted
<1> HIDE DEF F, L, m, v
<1>4. /\ m \in 0..(F + L) /\ m \in Nat /\ v \in Nat /\ v <= L
      /\ m > F => v = m - F
      /\ m <= F => v = 0
  BY <1>3
<1> QED BY <1>4 DEF F, L, m, v

(* The keys of the residents of src among G leave the table.               *)
Drops(src, G) ==
  table' = [k \in Key |-> IF \E e \in G \cap On(src, "lru") : k = key[e] THEN Nil ELSE table[k]]

LEMMA DroppedKeys ==
  ASSUME NEW t \in Tag, NEW v \in Nat, NEW G,
         G \cap On(t, "lru") = {lru(t)[i] : i \in 1..v},
         table' = [k \in Key |-> IF k \in EvictedKeys(t, v) THEN Nil ELSE table[k]]
  PROVE  Drops(t, G)
<1>1. ASSUME NEW k \in Key
      PROVE  k \in EvictedKeys(t, v) <=> \E e \in G \cap On(t, "lru") : k = key[e]
  BY DEF EvictedKeys
<1> QED BY <1>1 DEF Drops

(* Nodes go to another tenant.                                             *)
LEMMA MovedProps ==
  ASSUME NEW src \in Tag, NEW dst \in Tag, src # dst, CoreTypeOK, CoreInv,
         NEW n \in Nat, n \in 0..(Len(free(src)) + Len(lru(src))),
         NEW v \in Nat, n > Len(free(src)) => v = n - Len(free(src)), n <= Len(free(src)) => v = 0,
         LET s == Moved(src, dst, n, v)
         IN list' = s.list /\ size' = s.size /\ capacity' = s.capacity /\ table' = s.table
  PROVE  \E G \in SUBSET Node :
           /\ Reassigned(src, dst, G) /\ Drops(src, G)
           /\ Counts' /\ size' \in [Tag -> Nat] /\ capacity' \in [Tag -> Nat]
<1> DEFINE g == SubSeq(Available(src), 1, n)
           f2 == SubSeq(free(src), n + 1, Len(free(src)))
           l2 == SubSeq(lru(src), v + 1, Len(lru(src)))
           G == Range(g)
           d2 == free(dst) \o g
           sf == <<src, "free">>
           sl == <<src, "lru">>
           df == <<dst, "free">>
<1>0. /\ Once(list) /\ list \in Lists
      /\ LinkedOnce
  BY OnceByPlaces DEF CoreTypeOK, CoreInv, OneList, Lists, LinkedOnce
<1>1. /\ g \in Seq(Node) /\ Inj(g) /\ Len(g) = n
      /\ f2 \in Seq(Node) /\ Inj(f2) /\ Len(f2) = Len(free(src)) - (n - v)
      /\ l2 \in Seq(Node) /\ Inj(l2) /\ Len(l2) = Len(lru(src)) - v /\ v <= Len(lru(src))
      /\ G \subseteq On(src, "free") \cup On(src, "lru")
      /\ Range(f2) = On(src, "free") \ G
      /\ Range(l2) = On(src, "lru") \ G
      /\ G \cap On(src, "lru") = {lru(src)[i] : i \in 1..v}
  BY <1>0, Taken
<1>2. /\ sf \in Tag \X Kind /\ sl \in Tag \X Kind /\ df \in Tag \X Kind
      /\ sf # sl /\ sf # df /\ sl # df
      /\ \A u \in Tag, m \in Kind :
           /\ <<u, m>> \in Tag \X Kind
           /\ <<u, m>> = sf <=> u = src /\ m = "free"
           /\ <<u, m>> = sl <=> u = src /\ m = "lru"
           /\ <<u, m>> = df <=> u = dst /\ m = "free"
  BY DEF Kind
<1>3. /\ free(dst) \in Seq(Node) /\ Inj(free(dst)) /\ Range(free(dst)) = On(dst, "free")
      /\ list[df] = free(dst) /\ list[sf] = free(src) /\ list[sl] = lru(src)
  BY <1>0, <1>2 DEF Once, Lists, On, free, lru
<1>4. On(dst, "free") \cap G = {}
  <2>1. \A e \in On(dst, "free") : e \notin On(src, "free") /\ e \notin On(src, "lru")
    BY <1>0, OnUnique DEF Kind
  <2> QED BY <1>1, <2>1
<1>5. list' = [list EXCEPT ![sf] = f2, ![sl] = l2, ![df] = d2]
  BY <1>2, <1>3 DEF Moved, Lists, CoreTypeOK
<1>6. /\ size' = [size EXCEPT ![src] = size[src] - v]
      /\ capacity' = [capacity EXCEPT ![src] = capacity[src] - n, ![dst] = capacity[dst] + n]
      /\ table' = [k \in Key |-> IF k \in EvictedKeys(src, v) THEN Nil ELSE table[k]]
  BY DEF Moved, CoreTypeOK
<1> HIDE DEF g, f2, l2, G
<1>7. /\ d2 \in Seq(Node) /\ Inj(d2) /\ Len(d2) = Len(free(dst)) + n
      /\ Range(d2) = On(dst, "free") \cup G
  <2>1. Range(free(dst)) \cap Range(g) = {}
    BY <1>3, <1>4 DEF G
  <2>2. /\ free(dst) \o g \in Seq(Node) /\ Inj(free(dst) \o g)
        /\ Len(free(dst) \o g) = Len(free(dst)) + Len(g)
        /\ Range(free(dst) \o g) = Range(free(dst)) \cup Range(g)
    <3>1. free(dst) \in Seq(Node) /\ Inj(free(dst)) /\ g \in Seq(Node) /\ Inj(g)
      BY <1>1, <1>3
    <3> QED BY <2>1, <3>1, JoinProps
  <2> QED BY <1>1, <1>3, <2>2 DEF G
<1> HIDE DEF d2, sf, sl, df
<1>8. /\ list'[sf] = f2 /\ list'[sl] = l2 /\ list'[df] = d2
      /\ \A L \in Tag \X Kind : L \notin {sf, sl, df} => list'[L] = list[L]
      /\ list' = [L \in Tag \X Kind |-> list'[L]]
  BY <1>0, <1>2, <1>5 DEF Lists
<1>9. \A L \in Tag \X Kind : list'[L] \in Seq(Node) /\ Inj(list'[L])
  <2>1. \A L \in Tag \X Kind : list[L] \in Seq(Node) /\ Inj(list[L])
    BY <1>0 DEF Once, Lists
  <2> QED BY <1>1, <1>7, <1>8, <2>1
<1>10. ASSUME NEW u \in Tag, NEW m \in Kind
       PROVE  On(u, m)' = IF u = dst /\ m = "free" THEN On(u, m) \cup G ELSE On(u, m) \ G
  <2>1. On(u, m)' = Range(list'[<<u, m>>]) /\ On(u, m) = Range(list[<<u, m>>])
    BY DEF On
  <2>2. CASE u = dst /\ m = "free"
    BY <1>2, <1>7, <1>8, <2>1, <2>2
  <2>3. CASE u = src /\ m = "free"
    BY <1>1, <1>2, <1>8, <2>1, <2>3
  <2>4. CASE u = src /\ m = "lru"
    <3>1. m # "free"
      BY <2>4
    <3> QED BY <1>1, <1>2, <1>8, <2>1, <2>4, <3>1
  <2>5. CASE ~(u = dst /\ m = "free") /\ ~(u = src /\ m = "free") /\ ~(u = src /\ m = "lru")
    <3>1. On(u, m)' = On(u, m)
      BY <1>2, <1>8, <2>1, <2>5
    <3>2. \A e \in On(u, m) : e \notin On(src, "free") /\ e \notin On(src, "lru")
      BY <1>0, <2>5, OnUnique DEF Kind
    <3> QED BY <1>1, <2>5, <3>1, <3>2
  <2> QED BY <2>2, <2>3, <2>4, <2>5
<1>11. Reassigned(src, dst, G)
  BY <1>1, <1>8, <1>9, <1>10 DEF Reassigned, Lists
<1>12. Drops(src, G)
  <2>1. G \cap On(src, "lru") = {lru(src)[i] : i \in 1..v}
    BY <1>1
  <2>2. table' = [k \in Key |-> IF k \in EvictedKeys(src, v) THEN Nil ELSE table[k]]
    BY <1>6
  <2> QED BY <2>1, <2>2, DroppedKeys
<1>13. Counts' /\ size' \in [Tag -> Nat] /\ capacity' \in [Tag -> Nat]
  <2>1. \A u \in Tag : /\ size[u] = Len(lru(u)) + Len(in_use(u))
                       /\ capacity[u] = size[u] + Len(free(u))
                       /\ size[u] \in Nat /\ capacity[u] \in Nat
                       /\ Len(lru(u)) \in Nat /\ Len(in_use(u)) \in Nat /\ Len(free(u)) \in Nat
    BY OnNodes DEF CoreInv, Counts, CoreTypeOK, lru, in_use, free, Kind
  <2>2. /\ size'[src] = size[src] - v /\ capacity'[src] = capacity[src] - n
        /\ capacity'[dst] = capacity[dst] + n /\ size'[dst] = size[dst]
        /\ \A u \in Tag : u # src /\ u # dst => size'[u] = size[u] /\ capacity'[u] = capacity[u]
        /\ size' = [u \in Tag |-> size'[u]] /\ capacity' = [u \in Tag |-> capacity'[u]]
    BY <1>6 DEF CoreTypeOK
  <2>3. /\ Len(lru(src)') = Len(lru(src)) - v
        /\ Len(in_use(src)') = Len(in_use(src))
        /\ Len(free(src)') = Len(free(src)) - (n - v)
    BY <1>1, <1>2, <1>8 DEF lru, in_use, free, sf, sl, df, Kind
  <2>4. /\ Len(lru(dst)') = Len(lru(dst))
        /\ Len(in_use(dst)') = Len(in_use(dst))
        /\ Len(free(dst)') = Len(free(dst)) + n
    BY <1>2, <1>7, <1>8 DEF lru, in_use, free, sf, sl, df, Kind
  <2>5. ASSUME NEW u \in Tag, u # src, u # dst
        PROVE  lru(u)' = lru(u) /\ in_use(u)' = in_use(u) /\ free(u)' = free(u)
    BY <1>2, <1>8, <2>5 DEF lru, in_use, free, sf, sl, df, Kind
  <2>6. \A u \in Tag : /\ size'[u] = Len(lru(u)') + Len(in_use(u)')
                       /\ capacity'[u] = size'[u] + Len(free(u)')
                       /\ size'[u] \in Nat /\ capacity'[u] \in Nat
    <3>1. SUFFICES ASSUME NEW u \in Tag
                   PROVE  /\ size'[u] = Len(lru(u)') + Len(in_use(u)')
                          /\ capacity'[u] = size'[u] + Len(free(u)')
                          /\ size'[u] \in Nat /\ capacity'[u] \in Nat
      OBVIOUS
    <3>2. CASE u = src
      <4> DEFINE L == Len(lru(src))  I == Len(in_use(src))  F == Len(free(src))
                 c2 == capacity'[src]  s2 == size'[src]
                 Lp == Len(lru(src)')  Ip == Len(in_use(src)')  Fp == Len(free(src)')
      <4>1. /\ L \in Nat /\ I \in Nat /\ F \in Nat /\ v <= L /\ n <= F + L
            /\ n > F => v = n - F
            /\ n <= F => v = 0
            /\ s2 = (L + I) - v /\ c2 = (L + I + F) - n
            /\ Lp = L - v /\ Ip = I /\ Fp = F - (n - v)
        <5>1. L \in Nat /\ I \in Nat /\ F \in Nat /\ size[src] = L + I /\ capacity[src] = size[src] + F
          BY <2>1
        <5>2. s2 = size[src] - v /\ c2 = capacity[src] - n /\ Lp = L - v /\ Ip = I /\ Fp = F - (n - v)
          BY <2>2, <2>3
        <5>3. v <= L /\ n <= F + L /\ (n > F => v = n - F) /\ (n <= F => v = 0)
          <6>1. v <= Len(lru(src))
            BY <1>1
          <6> QED BY <5>1, <6>1
        <5>4. s2 = (L + I) - v /\ c2 = (L + I + F) - n
          BY <5>1, <5>2
        <5> QED BY <5>1, <5>2, <5>3, <5>4
      <4> HIDE DEF L, I, F, c2, s2, Lp, Ip, Fp
      <4>2. s2 = Lp + Ip /\ c2 = s2 + Fp /\ s2 \in Nat /\ c2 \in Nat
        BY <4>1
      <4> QED BY <3>2, <4>2 DEF c2, s2, Lp, Ip, Fp
    <3>3. CASE u = dst
      <4> DEFINE L == Len(lru(dst))  I == Len(in_use(dst))  F == Len(free(dst))
                 c2 == capacity'[dst]  s2 == size'[dst]
                 Lp == Len(lru(dst)')  Ip == Len(in_use(dst)')  Fp == Len(free(dst)')
      <4>1. /\ L \in Nat /\ I \in Nat /\ F \in Nat
            /\ s2 = L + I /\ c2 = (L + I + F) + n
            /\ Lp = L /\ Ip = I /\ Fp = F + n
        BY <2>1, <2>2, <2>4
      <4> HIDE DEF L, I, F, c2, s2, Lp, Ip, Fp
      <4>2. s2 = Lp + Ip /\ c2 = s2 + Fp /\ s2 \in Nat /\ c2 \in Nat
        BY <4>1
      <4> QED BY <3>3, <4>2 DEF c2, s2, Lp, Ip, Fp
    <3>4. CASE u # src /\ u # dst
      BY <2>1, <2>2, <2>5, <3>4
    <3> QED BY <3>2, <3>3, <3>4
  <2>7. size' \in [Tag -> Nat] /\ capacity' \in [Tag -> Nat]
    BY <2>2, <2>6
  <2> QED BY <2>6, <2>7 DEF Counts
<1>14. G \in SUBSET Node
  BY <1>1, OnNodes DEF Kind
<1> QED BY <1>11, <1>12, <1>13, <1>14

(* A remainder is a place of the list.                                     *)
LEMMA Remainder ==
  ASSUME NEW n \in Nat, NEW k \in Nat \ {0}
  PROVE  n % k \in 0..k
OBVIOUS

(* Nodes go to the tenant they come from: the free list rotates.           *)
LEMMA RotatedProps ==
  ASSUME NEW t \in Tag, CoreTypeOK, CoreInv, NEW n \in Nat,
         NEW v \in Nat, v <= Len(lru(t)), v > 0 => free(t) = <<>>,
         LET s == Rotated(t, n, v)
         IN list' = s.list /\ size' = s.size /\ capacity' = s.capacity /\ table' = s.table
  PROVE  \E G \in SUBSET Node :
           /\ Reassigned(t, t, G) /\ Drops(t, G)
           /\ Counts' /\ size' \in [Tag -> Nat] /\ capacity' \in [Tag -> Nat]
<1> DEFINE m == Len(free(t)) + v
           g == SubSeq(Available(t), 1, m)
           f2 == SubSeq(free(t), m + 1, Len(free(t)))
           l2 == SubSeq(lru(t), v + 1, Len(lru(t)))
           G == Range(g)
           r == IF g = <<>> THEN 0 ELSE n % Len(g)
           d2 == SubSeq(g, r + 1, Len(g)) \o SubSeq(g, 1, r)
           tf == <<t, "free">>
           tl == <<t, "lru">>
<1>0. /\ Once(list) /\ list \in Lists
      /\ LinkedOnce
      /\ Len(free(t)) \in Nat /\ Len(lru(t)) \in Nat
  BY OnceByPlaces, OnNodes DEF CoreTypeOK, CoreInv, OneList, Lists, LinkedOnce, free, lru, Kind
<1>1. /\ g \in Seq(Node) /\ Inj(g) /\ Len(g) = m
      /\ f2 \in Seq(Node) /\ Len(f2) = Len(free(t)) - (m - v)
      /\ l2 \in Seq(Node) /\ Inj(l2) /\ Len(l2) = Len(lru(t)) - v
      /\ G \subseteq On(t, "free") \cup On(t, "lru")
      /\ Range(f2) = On(t, "free") \ G
      /\ Range(l2) = On(t, "lru") \ G
      /\ G \cap On(t, "lru") = {lru(t)[i] : i \in 1..v}
  <2>1. m \in 0..(Len(free(t)) + Len(lru(t)))
    BY <1>0
  <2>2. (m > Len(free(t)) => v = m - Len(free(t))) /\ (m <= Len(free(t)) => v = 0)
    BY <1>0
  <2> HIDE DEF m
  <2> QED BY <1>0, <2>1, <2>2, Taken
<1>2. /\ tf \in Tag \X Kind /\ tl \in Tag \X Kind /\ tf # tl
      /\ \A u \in Tag, x \in Kind :
           /\ <<u, x>> \in Tag \X Kind
           /\ <<u, x>> = tf <=> u = t /\ x = "free"
           /\ <<u, x>> = tl <=> u = t /\ x = "lru"
  BY DEF Kind
<1>3. list[tf] = free(t) /\ list[tl] = lru(t)
  BY DEF free, lru
<1>4. On(t, "free") \subseteq G
  <2>1. Len(f2) = 0
    <3> DEFINE F == Len(free(t))  X == Len(f2)
    <3>1. F \in Nat /\ X = F - ((F + v) - v)
      BY <1>0, <1>1
    <3> HIDE DEF F, X
    <3>2. X = 0
      BY <3>1
    <3> QED BY <3>2 DEF X
  <2> HIDE DEF f2
  <2>2. Range(f2) = {}
    <3>1. f2 \in Seq(Node)
      BY <1>1
    <3>2. Range(f2) = {f2[i] : i \in 1..Len(f2)}
      BY <3>1, RangeEquality
    <3> QED BY <2>1, <3>2
  <2> QED BY <1>1, <2>2
<1>5. r \in 0..Len(g)
  <2> HIDE DEF g
  <2>1. Len(g) \in Nat /\ (g # <<>> => Len(g) \in Nat \ {0})
    BY <1>1, EmptySeq
  <2>2. CASE g = <<>>
    BY <2>1, <2>2
  <2>3. CASE g # <<>>
    <3>1. n % Len(g) \in 0..Len(g)
      BY SMTT(60), <2>1, <2>3, Remainder
    <3> QED BY <2>3, <3>1
  <2> QED BY <2>2, <2>3
<1>6. /\ list' = [list EXCEPT ![tf] = d2, ![tl] = l2]
      /\ size' = [size EXCEPT ![t] = size[t] - v]
      /\ capacity' = capacity
      /\ table' = [k \in Key |-> IF k \in EvictedKeys(t, v) THEN Nil ELSE table[k]]
  BY <1>2, <1>3 DEF Rotated, Lists, CoreTypeOK
<1> HIDE DEF g, f2, l2, G, r
<1>7. d2 \in Seq(Node) /\ Inj(d2) /\ Len(d2) = m /\ Range(d2) = G
  BY <1>1, <1>5, RotateProps DEF G
<1> HIDE DEF d2, tf, tl
<1>8. /\ list'[tf] = d2 /\ list'[tl] = l2
      /\ \A L \in Tag \X Kind : L \notin {tf, tl} => list'[L] = list[L]
      /\ list' = [L \in Tag \X Kind |-> list'[L]]
  BY <1>0, <1>2, <1>6 DEF Lists
<1>9. \A L \in Tag \X Kind : list'[L] \in Seq(Node) /\ Inj(list'[L])
  <2>1. \A L \in Tag \X Kind : list[L] \in Seq(Node) /\ Inj(list[L])
    BY <1>0 DEF Once, Lists
  <2> QED BY <1>1, <1>7, <1>8, <2>1
<1>10. ASSUME NEW u \in Tag, NEW x \in Kind
       PROVE  On(u, x)' = IF u = t /\ x = "free" THEN On(u, x) \cup G ELSE On(u, x) \ G
  <2>1. On(u, x)' = Range(list'[<<u, x>>]) /\ On(u, x) = Range(list[<<u, x>>])
    BY DEF On
  <2>2. CASE u = t /\ x = "free"
    BY <1>2, <1>4, <1>7, <1>8, <2>1, <2>2
  <2>3. CASE u = t /\ x = "lru"
    <3>1. x # "free"
      BY <2>3
    <3> QED BY <1>1, <1>2, <1>8, <2>1, <2>3, <3>1
  <2>4. CASE ~(u = t /\ x = "free") /\ ~(u = t /\ x = "lru")
    <3>1. On(u, x)' = On(u, x)
      BY <1>2, <1>8, <2>1, <2>4
    <3>2. \A e \in On(u, x) : e \notin On(t, "free") /\ e \notin On(t, "lru")
      BY <1>0, <2>4, OnUnique DEF Kind
    <3> QED BY <1>1, <2>4, <3>1, <3>2
  <2> QED BY <2>2, <2>3, <2>4
<1>11. Reassigned(t, t, G)
  BY <1>1, <1>8, <1>9, <1>10 DEF Reassigned, Lists
<1>12. Drops(t, G)
  <2>1. G \cap On(t, "lru") = {lru(t)[i] : i \in 1..v}
    BY <1>1
  <2>2. table' = [k \in Key |-> IF k \in EvictedKeys(t, v) THEN Nil ELSE table[k]]
    BY <1>6
  <2> QED BY <2>1, <2>2, DroppedKeys
<1>13. Counts' /\ size' \in [Tag -> Nat] /\ capacity' \in [Tag -> Nat]
  <2>1. \A u \in Tag : /\ size[u] = Len(lru(u)) + Len(in_use(u))
                       /\ capacity[u] = size[u] + Len(free(u))
                       /\ size[u] \in Nat /\ capacity[u] \in Nat
                       /\ Len(lru(u)) \in Nat /\ Len(in_use(u)) \in Nat /\ Len(free(u)) \in Nat
    BY OnNodes DEF CoreInv, Counts, CoreTypeOK, lru, in_use, free, Kind
  <2>2. /\ size'[t] = size[t] - v
        /\ \A u \in Tag : u # t => size'[u] = size[u]
        /\ size' = [u \in Tag |-> size'[u]]
    BY <1>6 DEF CoreTypeOK
  <2>3. /\ Len(lru(t)') = Len(lru(t)) - v
        /\ Len(in_use(t)') = Len(in_use(t))
        /\ Len(free(t)') = Len(free(t)) + v
    BY <1>1, <1>2, <1>7, <1>8 DEF lru, in_use, free, tf, tl, Kind
  <2>4. ASSUME NEW u \in Tag, u # t
        PROVE  lru(u)' = lru(u) /\ in_use(u)' = in_use(u) /\ free(u)' = free(u)
    BY <1>2, <1>8, <2>4 DEF lru, in_use, free, tf, tl, Kind
  <2>5. \A u \in Tag : /\ size'[u] = Len(lru(u)') + Len(in_use(u)')
                       /\ capacity'[u] = size'[u] + Len(free(u)')
                       /\ size'[u] \in Nat
    <3>1. SUFFICES ASSUME NEW u \in Tag
                   PROVE  /\ size'[u] = Len(lru(u)') + Len(in_use(u)')
                          /\ capacity'[u] = size'[u] + Len(free(u)')
                          /\ size'[u] \in Nat
      OBVIOUS
    <3>2. CASE u = t
      <4> DEFINE L == Len(lru(t))  I == Len(in_use(t))  F == Len(free(t))
                 c2 == capacity'[t]  s2 == size'[t]
                 Lp == Len(lru(t)')  Ip == Len(in_use(t)')  Fp == Len(free(t)')
      <4>1. L \in Nat /\ I \in Nat /\ F \in Nat /\ size[t] = L + I /\ capacity[t] = size[t] + F /\ v <= L
        BY <2>1
      <4>2. s2 = size[t] - v /\ c2 = capacity[t] /\ Lp = L - v /\ Ip = I /\ Fp = F + v
        BY <1>6, <2>2, <2>3
      <4> HIDE DEF L, I, F, c2, s2, Lp, Ip, Fp
      <4>3. s2 = Lp + Ip /\ c2 = s2 + Fp /\ s2 \in Nat
        BY SMTT(60), <4>1, <4>2
      <4> QED BY <3>2, <4>3 DEF c2, s2, Lp, Ip, Fp
    <3>3. CASE u # t
      BY <1>6, <2>1, <2>2, <2>4, <3>3
    <3> QED BY <3>2, <3>3
  <2>6. size' \in [Tag -> Nat] /\ capacity' \in [Tag -> Nat]
    BY <1>6, <2>2, <2>5 DEF CoreTypeOK
  <2> QED BY <2>5, <2>6 DEF Counts
<1>14. G \in SUBSET Node
  BY <1>1, OnNodes DEF Kind
<1> QED BY <1>11, <1>12, <1>13, <1>14

(* relocate moves free nodes and residents of src that are not pinned.     *)
LEMMA RelocateMoves ==
  ASSUME NEW src \in Tag, NEW dst \in Tag, NEW n \in Nat, CoreTypeOK, CoreInv,
         Relocate(src, dst, n)
  PROVE  \E G \in SUBSET Node :
           /\ Reassigned(src, dst, G) /\ Drops(src, G)
           /\ Counts' /\ size' \in [Tag -> Nat] /\ capacity' \in [Tag -> Nat]
<1> DEFINE m == MoveCount(src, n)
           v == Evicted(src, m)
           w == IF free(src) = <<>> /\ v > 0 THEN 1 ELSE 0
           s == Relocated(src, dst, n)
<1>1. /\ m \in 0..(Len(free(src)) + Len(lru(src))) /\ m \in Nat
      /\ v \in Nat /\ v <= Len(lru(src))
      /\ m > Len(free(src)) => v = m - Len(free(src))
      /\ m <= Len(free(src)) => v = 0
  BY MoveCounts
<1>2. list' = s.list /\ size' = s.size /\ capacity' = s.capacity /\ table' = s.table
  BY DEF Relocate
<1>3. s = IF src # dst THEN Moved(src, dst, m, v) ELSE Rotated(src, n, w)
  BY DEF Relocated, Evicted
<1> HIDE DEF m, v, s
<1>4. CASE src # dst
  <2>1. s = Moved(src, dst, m, v)
    BY <1>3, <1>4
  <2>2. LET q == Moved(src, dst, m, v)
        IN list' = q.list /\ size' = q.size /\ capacity' = q.capacity /\ table' = q.table
    BY <1>2, <2>1
  <2> QED BY <1>1, <1>4, <2>2, MovedProps
<1>5. CASE src = dst
  <2>1. s = Rotated(src, n, w)
    BY <1>3, <1>5
  <2>2. w \in Nat /\ w <= Len(lru(src)) /\ (w > 0 => free(src) = <<>>)
    BY <1>1, OnNodes DEF lru, Kind
  <2> HIDE DEF w
  <2>3. LET q == Rotated(src, n, w)
        IN list' = q.list /\ size' = q.size /\ capacity' = q.capacity /\ table' = q.table
    BY <1>2, <2>1
  <2> QED BY <1>5, <2>2, <2>3, RotatedProps
<1> QED BY <1>4, <1>5

-----------------------------------------------------------------------------
(* relocate keeps the properties of the caches.  A pinned or erased node   *)
(* is not among the nodes that move.                                       *)
LEMMA RelocateCore ==
  ASSUME NEW src \in Tag, NEW dst \in Tag, NEW n \in Nat, CoreTypeOK, CoreInv,
         Relocate(src, dst, n)
  PROVE  /\ CoreTypeOK' /\ CoreInv'
         /\ \A u \in Tag : /\ On(u, "in_use")' = On(u, "in_use")
                           /\ On(u, "erased")' = On(u, "erased")
                           /\ On(u, "lru")' \subseteq On(u, "lru")
         /\ UNCHANGED <<key, refs, extra_pool, tag, pins>>
         /\ ret'.op = "relocate" /\ ret' \in [op : Op, node : Node \cup {Nil}]
<1>1. PICK G \in SUBSET Node :
        /\ Reassigned(src, dst, G) /\ Drops(src, G)
        /\ Counts' /\ size' \in [Tag -> Nat] /\ capacity' \in [Tag -> Nat]
  BY RelocateMoves
<1>2. /\ list' \in Lists
      /\ \A L \in Tag \X Kind : Inj(list'[L])
      /\ G \subseteq On(src, "free") \cup On(src, "lru")
      /\ \A u \in Tag, m \in Kind :
           On(u, m)' = IF u = dst /\ m = "free" THEN On(u, m) \cup G ELSE On(u, m) \ G
  BY <1>1 DEF Reassigned
<1>3. UNCHANGED <<key, refs, extra_pool, tag, pins>>
  BY DEF Relocate
<1>4. table' = [k \in Key |-> IF \E e \in G \cap On(src, "lru") : k = key[e] THEN Nil ELSE table[k]]
  BY <1>1 DEF Drops
<1>5. CoreTypeOK'
  <2>1. table' \in [Key -> Node \cup {Nil}]
    BY <1>4 DEF CoreTypeOK
  <2> QED BY <1>1, <1>2, <1>3, <2>1 DEF CoreTypeOK, Lists, PoolNodes
<1>6. \A u \in Tag, m \in Kind : u # src \/ m \notin {"free", "lru"} => On(u, m) \cap G = {}
  BY <1>2, OnUnique DEF CoreInv, OneList, Kind
<1>7. \A u \in Tag : /\ On(u, "in_use")' = On(u, "in_use")
                     /\ On(u, "erased")' = On(u, "erased")
                     /\ On(u, "lru")' = On(u, "lru") \ G
  BY ZenonT(60), <1>2, <1>6 DEF Kind
<1>8. LinkedOnce'
  <2>1. ASSUME NEW u \in Tag, NEW m \in Kind, NEW x \in Tag, NEW y \in Kind,
               NEW e \in On(u, m)', e \in On(x, y)'
        PROVE  u = x /\ m = y
    <3>1. CASE e \in G
      BY <1>2, <2>1, <3>1
    <3>2. CASE e \notin G
      <4>1. e \in On(u, m) /\ e \in On(x, y)
        BY <1>2, <2>1, <3>2
      <4> QED BY <4>1, OnUnique DEF CoreInv, OneList
    <3> QED BY <3>1, <3>2
  <2>2. Once(list')
    <3>1. SUFFICES ASSUME NEW L \in Tag \X Kind, NEW M \in Tag \X Kind, L # M
                   PROVE  Range(list'[L]) \cap Range(list'[M]) = {}
      BY <1>2 DEF Once
    <3>2. PICK u \in Tag, m \in Kind : L = <<u, m>>
      OBVIOUS
    <3>3. PICK x \in Tag, y \in Kind : M = <<x, y>>
      OBVIOUS
    <3>4. Range(list'[L]) = On(u, m)' /\ Range(list'[M]) = On(x, y)'
      BY <3>2, <3>3 DEF On
    <3> QED BY <2>1, <3>1, <3>2, <3>3, <3>4
  <2> QED BY <1>2, <2>2, OnceByPlaces DEF LinkedOnce
<1>9. NoLeak'
  <2>1. ASSUME NEW e
        PROVE  (\E u \in Tag, m \in Kind : e \in On(u, m)')
               <=> (\E u \in Tag, m \in Kind : e \in On(u, m))
    <3>1. CASE e \in G
      <4>1. e \in On(dst, "free")' /\ (e \in On(src, "free") \/ e \in On(src, "lru"))
        BY <1>2, <3>1 DEF Kind
      <4> QED BY <4>1 DEF Kind
    <3>2. CASE e \notin G
      BY <1>2, <3>2
    <3> QED BY <3>1, <3>2
  <2>2. (UNION {On(t, m) : t \in Tag, m \in Kind})' = UNION {On(t, m)' : t \in Tag, m \in Kind}
    BY DEF Kind
  <2>3. UNION {On(t, m)' : t \in Tag, m \in Kind} = UNION {On(t, m) : t \in Tag, m \in Kind}
    BY <2>1
  <2>4. (PoolNodes \cup extra_pool)' = PoolNodes \cup extra_pool
    BY <1>3 DEF PoolNodes
  <2> QED BY <2>2, <2>3, <2>4 DEF NoLeak, CoreInv, OneList
<1>10. \A u \in Tag : Resident(u)' = Resident(u) \ G
  BY <1>6, <1>7 DEF Resident, Kind
<1>11. TableAgrees'
  <2>1. \A u \in Tag : \A e \in Resident(u) : key[e] \in Key /\ table[key[e]] = e
    BY DEF CoreInv, TableAgrees
  <2>2. ASSUME NEW k \in Key, table'[k] # Nil
        PROVE  key[table'[k]] = k /\ \E u \in Tag : table'[k] \in Resident(u)'
    <3>1. table'[k] = table[k] /\ ~(\E e \in G \cap On(src, "lru") : k = key[e])
      BY <1>4, <2>2
    <3>2. key[table[k]] = k /\ \E u \in Tag : table[k] \in Resident(u)
      BY <2>2, <3>1 DEF CoreInv, TableAgrees
    <3>3. PICK u \in Tag : table[k] \in Resident(u)
      BY <3>2
    <3>4. table[k] \notin G
      <4>1. SUFFICES ASSUME table[k] \in G PROVE FALSE
        OBVIOUS
      <4>2. u = src /\ table[k] \in On(src, "lru")
        BY <1>6, <3>3, <4>1 DEF Resident, Kind
      <4> QED BY <3>1, <3>2, <4>1, <4>2
    <3> QED BY <1>10, <3>1, <3>2, <3>3, <3>4
  <2>3. ASSUME NEW u \in Tag, NEW e \in Resident(u)'
        PROVE  key[e] \in Key /\ table'[key[e]] = e
    <3>1. e \in Resident(u) /\ e \notin G
      BY <1>10, <2>3
    <3>2. ~(\E x \in G \cap On(src, "lru") : key[e] = key[x])
      BY <2>1, <3>1 DEF Resident
    <3> QED BY <1>4, <2>1, <3>1, <3>2
  <2> QED BY <1>3, <2>2, <2>3 DEF TableAgrees
<1>12. RefState'
  BY <1>3, <1>7 DEF RefState, CoreInv
<1>13. ret'.op = "relocate" /\ ret' \in [op : Op, node : Node \cup {Nil}]
  BY DEF Relocate, Op
<1> QED BY <1>1, <1>3, <1>5, <1>7, <1>8, <1>9, <1>11, <1>12, <1>13 DEF CoreInv, OneList

-----------------------------------------------------------------------------
(* What a step may do to the nodes: a pinned node stays, with its key and  *)
(* its tag, and only a node of an LRU list is erased.                      *)
Stays ==
  \A e \in Node : pins[e] > 0 =>
     key'[e] = key[e] /\ tag'[e] = tag[e] /\ \E u \in Tag : e \in Resident(u)'

ErasesLRU ==
  \A t \in Tag : \A e \in On(t, "erased")' \ On(t, "erased") : e \in On(t, "lru")

(* The client's side of the invariant.                                     *)
ClientInv == TagAgrees /\ PinsCounted /\ KeyedKnown

NodeTypes == tag \in [Node -> Tag \cup {NoTag}] /\ pins \in [Node -> Nat]

(* The invariant without the return value and total_capacity_.             *)
NodeInv == CoreTypeOK /\ CoreInv /\ NodeTypes /\ ClientInv

NodeStep == NodeInv' /\ Stays /\ ErasesLRU

(* A node's tag leads to the cache it is in.                               *)
LEMMA TagLeads ==
  ASSUME NodeInv, NEW e \in Node, IsResident(e)
  PROVE  /\ tag[e] \in Tag /\ e \in Resident(tag[e])
         /\ refs[e] \in Nat /\ pins[e] \in Nat /\ pins[e] = refs[e] - 1
         /\ \A u \in Tag : e \in Resident(u) <=> u = tag[e]
<1>1. PICK t \in Tag : e \in Resident(t)
  BY DEF IsResident
<1>2. \A u \in Tag : e \in Resident(u) => tag[e] = u
  BY DEF NodeInv, ClientInv, TagAgrees
<1>3. pins[e] = refs[e] - 1 /\ refs[e] \in Nat /\ pins[e] \in Nat
  BY <1>1 DEF NodeInv, ClientInv, PinsCounted, NodeTypes, CoreTypeOK
<1> QED BY <1>1, <1>2, <1>3

(* A pinned node is in a cache.                                            *)
LEMMA PinnedResident ==
  ASSUME NodeInv, NEW e \in Node, pins[e] > 0
  PROVE  IsResident(e)
<1>1. ~IsResident(e) => pins[e] = 0
  BY DEF IsResident, NodeInv, ClientInv, PinsCounted
<1> QED BY <1>1

(* A step that moves no node in or out of a cache and changes refs and     *)
(* pins of at most the resident e, by the same amount.                     *)
LEMMA SamePins ==
  ASSUME NodeInv, NEW e \in Node, IsResident(e), CoreTypeOK', CoreInv', SameResidents,
         UNCHANGED <<key, tag, extra_pool>>, pins' \in [Node -> Nat],
         refs'[e] - 1 = pins'[e],
         \A x \in Node : x # e => refs'[x] = refs[x] /\ pins'[x] = pins[x]
  PROVE  NodeStep
<1>1. \A u \in Tag : Resident(u)' = Resident(u) /\ On(u, "erased")' = On(u, "erased")
  BY DEF SameResidents
<1>2. TagAgrees'
  BY <1>1 DEF TagAgrees, NodeInv, ClientInv
<1>3. PinsCounted'
  BY <1>1 DEF PinsCounted, NodeInv, ClientInv, IsResident
<1>4. KeyedKnown'
  BY DEF KeyedKnown, NodeInv, ClientInv, PoolNodes
<1>5. NodeTypes'
  BY DEF NodeTypes, NodeInv
<1>6. Stays
  BY <1>1, PinnedResident DEF Stays, IsResident
<1>7. ErasesLRU
  BY <1>1 DEF ErasesLRU
<1> QED BY <1>2, <1>3, <1>4, <1>5, <1>6, <1>7 DEF NodeStep, NodeInv, ClientInv

(* A step that changes nothing about the nodes.                            *)
LEMMA NoChange ==
  ASSUME NodeInv, UNCHANGED <<coreVars, tag, pins>>
  PROVE  NodeStep
<1>1. CoreTypeOK' /\ CoreInv' /\ SameResidents
  BY CoreUnchanged DEF NodeInv
<1>2. \A u \in Tag : Resident(u)' = Resident(u) /\ On(u, "erased")' = On(u, "erased")
  BY <1>1 DEF SameResidents
<1>3. UNCHANGED <<key, refs, extra_pool>>
  BY DEF coreVars
<1>4. TagAgrees' /\ PinsCounted'
  BY <1>2, <1>3 DEF TagAgrees, PinsCounted, NodeInv, ClientInv
<1>5. KeyedKnown' /\ NodeTypes'
  BY <1>3 DEF KeyedKnown, NodeTypes, NodeInv, ClientInv, PoolNodes
<1>6. Stays /\ ErasesLRU
  BY <1>2, <1>3, PinnedResident DEF Stays, ErasesLRU, IsResident
<1> QED BY <1>1, <1>4, <1>5, <1>6 DEF NodeStep, NodeInv, ClientInv

(* A step that puts the key k into node r for tenant t; r was free,        *)
(* erased, never used, or the victim.                                      *)
LEMMA NewPins ==
  ASSUME NodeInv, NEW t \in Tag, NEW r \in Node, NEW to \in {"lru", "in_use"}, NEW k \in Key,
         CoreTypeOK', CoreInv', Placed(t, to, r), pins[r] = 0,
         extra_pool \subseteq extra_pool',
         key' = [key EXCEPT ![r] = k],
         refs' = [refs EXCEPT ![r] = IF to = "in_use" THEN 2 ELSE 1],
         tag' = [tag EXCEPT ![r] = t],
         pins' = IF to = "in_use" THEN [pins EXCEPT ![r] = pins[r] + 1] ELSE pins
  PROVE  NodeStep
<1>1. /\ key \in [Node -> Key \cup {NoKey}] /\ refs \in [Node -> Nat]
      /\ pins \in [Node -> Nat] /\ tag \in [Node -> Tag \cup {NoTag}]
  BY DEF NodeInv, NodeTypes, CoreTypeOK
<1>2. \A u \in Tag : (r \in Resident(u)' <=> u = t) /\ r \notin On(u, "erased")'
  BY DEF Placed, Resident, Kind
<1>3. \A u \in Tag, x \in Node : x # r =>
        /\ x \in Resident(u)' <=> x \in Resident(u)
        /\ x \in On(u, "erased")' <=> x \in On(u, "erased")
  BY DEF Placed, Resident, Kind
<1>4. \A u \in Tag : Resident(u)' \subseteq Node /\ On(u, "erased")' \subseteq Node
  BY RangeOfLists DEF CoreTypeOK, Lists, On, Resident, Kind
<1>5. TagAgrees'
  <2>1. ASSUME NEW u \in Tag, NEW x \in Resident(u)' \cup On(u, "erased")'
        PROVE  tag'[x] = u
    <3>1. x \in Node
      BY <1>4
    <3>2. CASE x = r
      BY <1>1, <1>2, <2>1, <3>2
    <3>3. CASE x # r
      <4>1. x \in Resident(u) \cup On(u, "erased")
        BY <1>3, <2>1, <3>1, <3>3
      <4> QED BY <1>1, <3>1, <3>3, <4>1 DEF NodeInv, ClientInv, TagAgrees
    <3> QED BY <3>2, <3>3
  <2> QED BY <2>1 DEF TagAgrees
<1>6. PinsCounted'
  <2>1. ASSUME NEW x \in Node
        PROVE  pins'[x] = IF \E u \in Tag : x \in Resident(u)' THEN refs'[x] - 1 ELSE 0
    <3>1. CASE x = r
      <4>1. \E u \in Tag : x \in Resident(u)'
        BY <1>2, <3>1
      <4>2. pins'[r] = refs'[r] - 1
        BY <1>1
      <4> QED BY <3>1, <4>1, <4>2
    <3>2. CASE x # r
      <4>1. pins'[x] = pins[x] /\ refs'[x] = refs[x]
        BY <1>1, <3>2
      <4> QED BY <1>3, <3>2, <4>1 DEF NodeInv, ClientInv, PinsCounted
    <3> QED BY <3>1, <3>2
  <2> QED BY <2>1 DEF PinsCounted
<1>7. KeyedKnown'
  <2>1. r \in PoolNodes' \cup extra_pool'
    <3>1. r \in On(t, to)' /\ to \in Kind
      BY DEF Placed, Kind
    <3>2. r \in (UNION {On(u, m) : u \in Tag, m \in Kind})'
      BY <3>1 DEF Kind
    <3> QED BY <3>2 DEF CoreInv, OneList, NoLeak
  <2>2. PoolNodes' = PoolNodes
    BY DEF PoolNodes
  <2>3. ASSUME NEW x \in Node, key'[x] # NoKey PROVE x \in PoolNodes' \cup extra_pool'
    <3>1. CASE x = r
      BY <2>1, <3>1
    <3>2. CASE x # r
      <4>1. key[x] # NoKey
        BY <1>1, <2>3, <3>2
      <4> QED BY <2>2, <4>1 DEF NodeInv, ClientInv, KeyedKnown
    <3> QED BY <3>1, <3>2
  <2> QED BY <2>3 DEF KeyedKnown
<1>8. NodeTypes'
  BY <1>1 DEF NodeTypes
<1>9. Stays
  <2>1. ASSUME NEW x \in Node, pins[x] > 0
        PROVE  key'[x] = key[x] /\ tag'[x] = tag[x] /\ \E u \in Tag : x \in Resident(u)'
    <3>1. x # r
      BY <2>1
    <3>2. \E u \in Tag : x \in Resident(u)
      BY <2>1, PinnedResident DEF IsResident
    <3> QED BY <1>1, <1>3, <3>1, <3>2
  <2> QED BY <2>1 DEF Stays
<1>10. ErasesLRU
  BY <1>2, <1>3, <1>4 DEF ErasesLRU
<1> QED BY <1>5, <1>6, <1>7, <1>8, <1>9, <1>10 DEF NodeStep, NodeInv, ClientInv

-----------------------------------------------------------------------------
(* One lemma per action.                                                   *)

(* A hit of insert or lookup, through whichever tenant.                    *)
LEMMA HitStep ==
  ASSUME NodeInv, NEW k \in Key, NEW pin \in BOOLEAN, NEW r,
         r = table[k], r # Nil, lookup_refresh(tag[r], r, pin), Pinned(pin, r), UNCHANGED tag
  PROVE  NodeStep
<1>1. r \in Node /\ IsResident(r)
  BY DEF NodeInv, CoreInv, TableAgrees, CoreTypeOK, IsResident
<1>2. /\ tag[r] \in Tag /\ r \in Resident(tag[r])
      /\ refs[r] \in Nat /\ pins[r] \in Nat /\ pins[r] = refs[r] - 1
  BY <1>1, TagLeads
<1>3. CoreTypeOK' /\ CoreInv' /\ SameResidents
  BY <1>2, LookupRefreshKeeps DEF NodeInv
<1>4. UNCHANGED <<key, extra_pool>>
  BY DEF lookup_refresh
<1>5. refs \in [Node -> Nat] /\ pins \in [Node -> Nat]
  BY DEF NodeInv, NodeTypes, CoreTypeOK
<1>6. /\ pins' \in [Node -> Nat]
      /\ refs'[r] - 1 = pins'[r]
      /\ \A x \in Node : x # r => refs'[x] = refs[x] /\ pins'[x] = pins[x]
  <2>1. CASE pin
    <3>1. refs' = [refs EXCEPT ![r] = refs[r] + 1] /\ pins' = [pins EXCEPT ![r] = pins[r] + 1]
      BY <2>1 DEF lookup_refresh, ref, Pinned
    <3> QED BY <1>1, <1>2, <1>5, <3>1
  <2>2. CASE ~pin
    <3>1. refs' = refs /\ pins' = pins
      BY <2>2 DEF lookup_refresh, Pinned
    <3> QED BY <1>2, <1>5, <3>1
  <2> QED BY <2>1, <2>2
<1> QED BY <1>1, <1>3, <1>4, <1>6, SamePins

(* A new key: the tag is the caller's, and so was the victim's.            *)
LEMMA NewKeyStep ==
  ASSUME NodeInv, NEW t \in Tag, NEW k \in Key, NEW pin \in BOOLEAN, NEW r,
         table[k] = Nil, insert_new(t, k, pin, r), set_tag(r, t), Pinned(pin, r)
  PROVE  NodeStep /\ r \in Node /\ r \in On(t, "free") \cup On(t, "lru")
<1> DEFINE to == IF pin THEN "in_use" ELSE "lru"
<1>1. /\ CoreTypeOK' /\ CoreInv'
      /\ r \in On(t, "free") \cup On(t, "lru")
      /\ Placed(t, to, r)
  BY InsertKeeps DEF NodeInv
<1>2. r \in Node
  BY <1>1, OnNodes DEF NodeInv, Kind
<1>3. pins[r] = 0
  <2>1. CASE r \in On(t, "lru")
    <3>1. IsResident(r) /\ refs[r] = 1
      BY <2>1 DEF IsResident, Resident, NodeInv, CoreInv, RefState
    <3> QED BY <1>2, <3>1, TagLeads
  <2>2. CASE r \in On(t, "free")
    <3>1. ~IsResident(r)
      BY <2>2, OnUnique DEF IsResident, Resident, NodeInv, CoreInv, OneList, Kind
    <3> QED BY <1>2, <3>1 DEF IsResident, NodeInv, ClientInv, PinsCounted
  <2> QED BY <1>1, <2>1, <2>2
<1>4. /\ to \in {"lru", "in_use"}
      /\ key' = [key EXCEPT ![r] = k]
      /\ refs' = [refs EXCEPT ![r] = IF to = "in_use" THEN 2 ELSE 1]
      /\ pins' = IF to = "in_use" THEN [pins EXCEPT ![r] = pins[r] + 1] ELSE pins
      /\ extra_pool' = extra_pool
      /\ tag' = [tag EXCEPT ![r] = t]
  BY <1>2, NilAssumption DEF insert_new, Pinned, set_tag
<1> HIDE DEF to
<1> QED BY <1>1, <1>2, <1>3, <1>4, NewPins

LEMMA InsertStep ==
  ASSUME NodeInv, NEW t \in Tag, NEW k \in Key, NEW pin \in BOOLEAN, Insert(t, k, pin)
  PROVE  NodeStep
<1>1. PICK r \in Node \cup {Nil} :
        /\ \/ table[k] # Nil /\ shared_lookup(k, pin, r) /\ UNCHANGED tag
           \/ /\ table[k] = Nil /\ capacity[t] > 0
              /\ \/ insert_new(t, k, pin, r) /\ tag_inserted(r, t)
                 \/ alloc_fails(t, r) /\ UNCHANGED tag
        /\ Returns("insert", r) /\ Pinned(pin, r)
  BY DEF Insert
<1>2. CASE table[k] # Nil /\ shared_lookup(k, pin, r) /\ UNCHANGED tag
  BY <1>1, <1>2, HitStep DEF shared_lookup
<1>3. CASE table[k] = Nil /\ insert_new(t, k, pin, r) /\ tag_inserted(r, t)
  BY <1>1, <1>3, NewKeyStep DEF tag_inserted
<1>4. CASE alloc_fails(t, r) /\ UNCHANGED tag
  <2>1. UNCHANGED <<coreVars, tag, pins>>
    BY <1>1, <1>4 DEF alloc_fails, Pinned
  <2> QED BY <2>1, NoChange
<1> QED BY <1>1, <1>2, <1>3, <1>4

LEMMA LookupStep ==
  ASSUME NodeInv, NEW k \in Key, NEW pin \in BOOLEAN, LookupKey(k, pin)
  PROVE  NodeStep
<1>1. PICK r \in Node \cup {Nil} :
        shared_lookup(k, pin, r) /\ Returns("lookup", r) /\ Pinned(pin, r)
  BY DEF LookupKey
<1>2. UNCHANGED tag
  BY DEF LookupKey
<1>3. CASE r = table[k] /\ r # Nil /\ lookup_refresh(tag[r], r, pin)
  BY <1>1, <1>2, <1>3, HitStep
<1>4. CASE r = Nil /\ UNCHANGED coreVars
  <2>1. UNCHANGED <<coreVars, tag, pins>>
    BY <1>1, <1>2, <1>4 DEF Pinned
  <2> QED BY <2>1, NoChange
<1> QED BY <1>1, <1>3, <1>4 DEF shared_lookup

LEMMA ReleaseStep ==
  ASSUME NodeInv, NEW e \in Node, Release(e)
  PROVE  NodeStep
<1>1. /\ unref(tag[e], e)
      /\ UNCHANGED <<size, capacity, key, table, extra_pool, tag>>
      /\ pins[e] > 0 /\ pins' = [pins EXCEPT ![e] = pins[e] - 1]
  BY DEF Release, release_handle
<1>2. IsResident(e)
  BY <1>1, PinnedResident
<1>3. /\ tag[e] \in Tag /\ e \in Resident(tag[e])
      /\ refs[e] \in Nat /\ pins[e] \in Nat /\ pins[e] = refs[e] - 1
  BY <1>2, TagLeads
<1>4. CoreTypeOK' /\ CoreInv' /\ SameResidents
  <2>1. refs[e] > 1 /\ UNCHANGED <<size, capacity, key, table, extra_pool>>
    BY <1>1, <1>3
  <2> QED BY <1>1, <1>3, <2>1, UnrefKeeps DEF NodeInv
<1>5. refs' = [refs EXCEPT ![e] = refs[e] - 1] /\ refs \in [Node -> Nat] /\ pins \in [Node -> Nat]
  BY <1>1 DEF unref, NodeInv, NodeTypes, CoreTypeOK
<1>6. /\ pins' \in [Node -> Nat]
      /\ refs'[e] - 1 = pins'[e]
      /\ \A x \in Node : x # e => refs'[x] = refs[x] /\ pins'[x] = pins[x]
  BY <1>1, <1>3, <1>5
<1>7. UNCHANGED <<key, tag, extra_pool>>
  BY <1>1
<1> QED BY <1>2, <1>4, <1>6, <1>7, SamePins

LEMMA PinStep ==
  ASSUME NodeInv, NEW e \in Node, Pin(e)
  PROVE  NodeStep
<1>1. /\ ref(tag[e], e)
      /\ UNCHANGED <<size, capacity, key, table, extra_pool, tag>>
      /\ pins' = [pins EXCEPT ![e] = pins[e] + 1]
      /\ IsResident(e)
  BY DEF Pin, pin_handle, IsResident
<1>2. /\ tag[e] \in Tag /\ e \in Resident(tag[e])
      /\ refs[e] \in Nat /\ pins[e] \in Nat /\ pins[e] = refs[e] - 1
  BY <1>1, TagLeads
<1>3. CoreTypeOK' /\ CoreInv' /\ SameResidents
  <2>1. UNCHANGED <<size, capacity, key, table, extra_pool>>
    BY <1>1
  <2> QED BY <1>1, <1>2, <2>1, RefKeeps DEF NodeInv
<1>4. refs' = [refs EXCEPT ![e] = refs[e] + 1] /\ refs \in [Node -> Nat] /\ pins \in [Node -> Nat]
  BY <1>1 DEF ref, NodeInv, NodeTypes, CoreTypeOK
<1>5. /\ pins' \in [Node -> Nat]
      /\ refs'[e] - 1 = pins'[e]
      /\ \A x \in Node : x # e => refs'[x] = refs[x] /\ pins'[x] = pins[x]
  BY <1>1, <1>2, <1>4
<1>6. UNCHANGED <<key, tag, extra_pool>>
  BY <1>1
<1> QED BY <1>1, <1>3, <1>5, <1>6, SamePins

(* The handle of a node that is not free leads to a resident or to an      *)
(* erased node, and refs tells which.                                      *)
LEMMA ErasedFrom ==
  ASSUME NodeInv, NEW e \in Node, key[e] # NoKey, ~Stale(e), refs[e] = 1
  PROVE  tag[e] \in Tag /\ e \in On(tag[e], "lru")
<1>1. PICK t \in Tag, m \in Kind : e \in On(t, m)
  <2>1. e \in UNION {On(t, m) : t \in Tag, m \in Kind}
    BY DEF NodeInv, ClientInv, KeyedKnown, CoreInv, OneList, NoLeak
  <2> QED BY <2>1
<1>2. m # "free"
  BY <1>1 DEF Stale
<1>3. m # "erased" /\ m # "in_use"
  BY <1>1 DEF NodeInv, CoreInv, RefState
<1>4. e \in On(t, "lru")
  BY <1>1, <1>2, <1>3 DEF Kind
<1>5. tag[e] = t
  BY <1>4 DEF Resident, NodeInv, ClientInv, TagAgrees
<1> QED BY <1>4, <1>5

LEMMA EraseStep ==
  ASSUME StaleHandles = FALSE, NodeInv, NEW e \in Node, Erase(e)
  PROVE  NodeStep
<1>1. PICK ok \in BOOLEAN : erase_handle(tag[e], e, ok)
  BY DEF Erase
<1>2. UNCHANGED <<tag, pins>> /\ key[e] # NoKey /\ ~Stale(e)
  BY DEF Erase
<1>3. CASE ok
  <2>1. refs[e] = 1 /\ erase_handle(tag[e], e, TRUE)
    BY <1>1, <1>3 DEF erase_handle, Erasable
  <2>2. tag[e] \in Tag /\ e \in On(tag[e], "lru")
    BY <1>2, <2>1, ErasedFrom
  <2>3. CoreTypeOK' /\ CoreInv' /\ Placed(tag[e], "erased", e)
    BY <2>1, <2>2, EraseKeeps DEF NodeInv
  <2>4. pins[e] = 0
    <3>1. IsResident(e)
      BY <2>2 DEF IsResident, Resident
    <3> QED BY <2>1, <3>1, TagLeads
  <2>5. /\ key' = key /\ extra_pool' = extra_pool
        /\ \A x \in Node : x # e => refs'[x] = refs[x]
    BY <2>1 DEF erase_handle, NodeInv, CoreTypeOK
  <2>6. \A u \in Tag : e \notin Resident(u)' /\ (e \in On(u, "erased")' <=> u = tag[e])
    BY <2>2, <2>3 DEF Placed, Resident, Kind
  <2>7. \A u \in Tag, x \in Node : x # e =>
          /\ x \in Resident(u)' <=> x \in Resident(u)
          /\ x \in On(u, "erased")' <=> x \in On(u, "erased")
    BY <2>3 DEF Placed, Resident, Kind
  <2>8. \A u \in Tag : Resident(u)' \subseteq Node /\ On(u, "erased")' \subseteq Node
    BY <2>3, RangeOfLists DEF CoreTypeOK, Lists, On, Resident, Kind
  <2>9. TagAgrees'
    <3>1. ASSUME NEW u \in Tag, NEW x \in Resident(u)' \cup On(u, "erased")' PROVE tag[x] = u
      <4>1. CASE x = e
        BY <2>6, <3>1, <4>1
      <4>2. CASE x # e
        <5>1. x \in Resident(u) \cup On(u, "erased")
          BY <2>7, <2>8, <3>1, <4>2
        <5> QED BY <5>1 DEF NodeInv, ClientInv, TagAgrees
      <4> QED BY <4>1, <4>2
    <3> QED BY <1>2, <3>1 DEF TagAgrees
  <2>10. PinsCounted'
    <3>1. ASSUME NEW x \in Node
          PROVE  pins[x] = IF \E u \in Tag : x \in Resident(u)' THEN refs'[x] - 1 ELSE 0
      <4>1. CASE x = e
        BY <2>4, <2>6, <4>1
      <4>2. CASE x # e
        BY <2>5, <2>7, <4>2 DEF NodeInv, ClientInv, PinsCounted
      <4> QED BY <4>1, <4>2
    <3> QED BY <1>2, <3>1 DEF PinsCounted
  <2>11. KeyedKnown' /\ NodeTypes'
    BY <1>2, <2>5 DEF NodeInv, ClientInv, KeyedKnown, NodeTypes, PoolNodes
  <2>12. Stays
    <3>1. ASSUME NEW x \in Node, pins[x] > 0
          PROVE  key'[x] = key[x] /\ tag'[x] = tag[x] /\ \E u \in Tag : x \in Resident(u)'
      <4>1. x # e /\ \E u \in Tag : x \in Resident(u)
        BY <2>4, <3>1, PinnedResident DEF IsResident
      <4> QED BY <1>2, <2>5, <2>7, <4>1
    <3> QED BY <3>1 DEF Stays
  <2>13. ErasesLRU
    <3>1. ASSUME NEW u \in Tag, NEW x \in On(u, "erased")' \ On(u, "erased")
          PROVE  x \in On(u, "lru")
      <4>1. x = e
        BY <2>7, <2>8, <3>1
      <4> QED BY <2>2, <2>6, <3>1, <4>1
    <3> QED BY <3>1 DEF ErasesLRU
  <2> QED BY <2>3, <2>9, <2>10, <2>11, <2>12, <2>13 DEF NodeStep, NodeInv, ClientInv
<1>4. CASE ~ok
  <2>1. UNCHANGED <<coreVars, tag, pins>>
    BY <1>1, <1>2, <1>4 DEF erase_handle
  <2> QED BY <2>1, NoChange
<1> QED BY <1>3, <1>4

LEMMA InstallStep ==
  ASSUME NodeInv, NEW t \in Tag, NEW k \in Key, Install(t, k)
  PROVE  NodeStep
<1>1. PICK r \in Node : install_impl(t, k, r) /\ set_tag(r, t) /\ Returns("install", r)
  BY DEF Install
<1>2. UNCHANGED pins /\ table[k] = Nil
  BY DEF Install
<1>3. CoreTypeOK' /\ CoreInv' /\ ~IsResident(r) /\ Placed(t, "lru", r)
  BY <1>1, <1>2, InstallKeeps DEF NodeInv
<1>4. pins[r] = 0
  BY <1>3 DEF IsResident, NodeInv, ClientInv, PinsCounted
<1>5. /\ key' = [key EXCEPT ![r] = k] /\ refs' = [refs EXCEPT ![r] = 1]
      /\ tag' = [tag EXCEPT ![r] = t] /\ extra_pool \subseteq extra_pool'
  BY <1>1 DEF install_impl, set_tag
<1>6. "lru" \in {"lru", "in_use"} /\ "lru" # "in_use"
  OBVIOUS
<1>7. /\ refs' = [refs EXCEPT ![r] = IF "lru" = "in_use" THEN 2 ELSE 1]
      /\ pins' = IF "lru" = "in_use" THEN [pins EXCEPT ![r] = pins[r] + 1] ELSE pins
  BY <1>2, <1>5, <1>6
<1> QED BY <1>3, <1>4, <1>5, <1>6, <1>7, NewPins

LEMMA RelocateStep ==
  ASSUME NodeInv, NEW src \in Tag, NEW dst \in Tag, NEW n \in Nat, Relocate(src, dst, n)
  PROVE  NodeStep
<1>1. /\ CoreTypeOK' /\ CoreInv'
      /\ \A u \in Tag : /\ On(u, "in_use")' = On(u, "in_use")
                        /\ On(u, "erased")' = On(u, "erased")
                        /\ On(u, "lru")' \subseteq On(u, "lru")
      /\ UNCHANGED <<key, refs, extra_pool, tag, pins>>
  BY RelocateCore DEF NodeInv
<1>2. \A u \in Tag : Resident(u)' \subseteq Resident(u)
  BY <1>1 DEF Resident
<1>3. TagAgrees'
  BY <1>1, <1>2 DEF TagAgrees, NodeInv, ClientInv
<1>4. ASSUME NEW e \in Node, NEW u \in Tag, e \in Resident(u), pins[e] > 0
      PROVE  e \in Resident(u)'
  <2>1. refs[e] > 1
    <3>1. IsResident(e)
      BY <1>4 DEF IsResident
    <3>2. pins[e] = refs[e] - 1 /\ refs[e] \in Nat
      BY <3>1, TagLeads
    <3> QED BY <1>4, <3>2
  <2>2. e \in On(u, "in_use")
    BY <1>4, <2>1, RefTells DEF NodeInv
  <2> QED BY <1>1, <2>2 DEF Resident
<1>5. PinsCounted'
  <2>1. ASSUME NEW e \in Node
        PROVE  pins[e] = IF \E u \in Tag : e \in Resident(u)' THEN refs[e] - 1 ELSE 0
    <3>1. CASE \E u \in Tag : e \in Resident(u)'
      <4>1. \E u \in Tag : e \in Resident(u)
        BY <1>2, <3>1
      <4> QED BY <3>1, <4>1 DEF NodeInv, ClientInv, PinsCounted
    <3>2. CASE ~(\E u \in Tag : e \in Resident(u)')
      <4>1. ~(pins[e] > 0)
        BY <1>4, <3>2, PinnedResident DEF IsResident
      <4>2. pins[e] \in Nat
        BY DEF NodeInv, NodeTypes
      <4> QED BY <3>2, <4>1, <4>2
    <3> QED BY <3>1, <3>2
  <2> QED BY <1>1, <2>1 DEF PinsCounted
<1>6. KeyedKnown' /\ NodeTypes'
  BY <1>1 DEF NodeInv, ClientInv, KeyedKnown, NodeTypes, PoolNodes
<1>7. Stays
  BY <1>1, <1>4, PinnedResident DEF Stays, IsResident
<1>8. ErasesLRU
  BY <1>1 DEF ErasesLRU
<1> QED BY <1>1, <1>3, <1>5, <1>6, <1>7, <1>8 DEF NodeStep, NodeInv, ClientInv

-----------------------------------------------------------------------------
(* The sum of the capacities.                                              *)

(* One tenant gains or loses d slots.                                      *)
LEMMA SumOneTenant ==
  ASSUME CoreTypeOK, NEW t \in Tag, NEW d \in Int,
         capacity' = [capacity EXCEPT ![t] = capacity[t] + d]
  PROVE  SumCapacity' = SumCapacity + d
<1>1. IsFiniteSet(Tag) /\ capacity \in [Tag -> Int]
  BY SharedAssumption DEF CoreTypeOK
<1>2. AddsTo(Tag, capacity, t, d)
  BY <1>1, SumChange
<1> QED BY <1>2 DEF AddsTo, SumCapacity

(* relocate leaves the sum as it was.                                      *)
LEMMA SumRelocated ==
  ASSUME CoreTypeOK, NEW src \in Tag, NEW dst \in Tag, NEW n \in Nat, Relocate(src, dst, n)
  PROVE  SumCapacity' = SumCapacity
<1> DEFINE m == MoveCount(src, n)
           c1 == [capacity EXCEPT ![src] = capacity[src] + (-m)]
           c2 == [c1 EXCEPT ![dst] = c1[dst] + m]
<1>1. m \in Nat
  BY SMTT(60), MoveCounts
<1>2. capacity' = IF src # dst THEN [capacity EXCEPT ![src] = @ - m, ![dst] = @ + m] ELSE capacity
  BY DEF Relocate, Relocated, Moved, Rotated
<1> HIDE DEF m
<1>3. IsFiniteSet(Tag) /\ capacity \in [Tag -> Int] /\ capacity \in [Tag -> Nat]
  BY SharedAssumption DEF CoreTypeOK
<1>4. CASE src # dst
  <2>1. c1 \in [Tag -> Int] /\ -m \in Int
    BY <1>1, <1>3
  <2>2. capacity[src] - m = capacity[src] + (-m)
    BY <1>1, <1>3
  <2>3. capacity' = c2
    BY <1>2, <1>3, <1>4, <2>2
  <2>4. SumFunction(c1) = SumFunction(capacity) + (-m)
    <3>1. AddsTo(Tag, capacity, src, -m)
      BY <1>3, <2>1, SumChange
    <3> QED BY <3>1 DEF AddsTo
  <2> HIDE DEF c1
  <2>5. SumFunction(c2) = SumFunction(c1) + m
    <3>1. AddsTo(Tag, c1, dst, m)
      BY <1>1, <1>3, <2>1, SumChange
    <3> QED BY <3>1 DEF AddsTo
  <2> HIDE DEF c2
  <2>6. SumFunction(capacity) \in Nat
    BY <1>3, SumBound
  <2>7. SumFunction(c2) = SumFunction(capacity)
    BY <1>1, <2>4, <2>5, <2>6
  <2> QED BY <2>3, <2>7 DEF SumCapacity
<1>5. CASE src = dst
  BY <1>2, <1>5 DEF SumCapacity
<1> QED BY <1>4, <1>5

LEMMA SumUnchanged ==
  ASSUME UNCHANGED <<capacity, total_capacity>>, TotalCapacity
  PROVE  TotalCapacity'
BY DEF TotalCapacity, SumCapacity

(* total_capacity_ is a natural number: it is a sum of natural numbers.    *)
LEMMA TotalIsNat ==
  ASSUME CoreTypeOK, TotalCapacity
  PROVE  total_capacity \in Nat
<1>1. IsFiniteSet(Tag) /\ capacity \in [Tag -> Nat]
  BY SharedAssumption DEF CoreTypeOK
<1>2. SumFunction(capacity) \in Nat
  BY <1>1, SumBound
<1> QED BY <1>2 DEF TotalCapacity, SumCapacity

LEMMA TotalErase ==
  ASSUME StaleHandles = FALSE, NodeInv, TotalCapacity, NEW e \in Node, Erase(e)
  PROVE  TotalCapacity'
<1>1. PICK ok \in BOOLEAN :
        /\ erase_handle(tag[e], e, ok)
        /\ total_capacity' = IF ok THEN total_capacity - 1 ELSE total_capacity
  BY DEF Erase
<1>2. CASE ok
  <2>1. refs[e] = 1 /\ key[e] # NoKey /\ ~Stale(e)
    BY <1>1, <1>2 DEF Erase, erase_handle, Erasable
  <2>2. tag[e] \in Tag
    BY <2>1, ErasedFrom
  <2>3. capacity[tag[e]] - 1 = capacity[tag[e]] + (-1)
    BY <2>2 DEF NodeInv, CoreTypeOK
  <2>4. capacity' = [capacity EXCEPT ![tag[e]] = capacity[tag[e]] + (-1)]
    BY <1>1, <1>2, <2>3 DEF erase_handle
  <2>5. SumCapacity' = SumCapacity + (-1)
    <3>1. -1 \in Int /\ CoreTypeOK
      BY DEF NodeInv
    <3> QED BY <2>2, <2>4, <3>1, SumOneTenant
  <2>6. total_capacity \in Nat /\ total_capacity = SumCapacity
    BY TotalIsNat DEF NodeInv, TotalCapacity
  <2>7. total_capacity' = total_capacity - 1
    BY <1>1, <1>2
  <2> QED BY <2>5, <2>6, <2>7 DEF TotalCapacity
<1>3. CASE ~ok
  <2>1. UNCHANGED <<capacity, total_capacity>>
    BY <1>1, <1>3 DEF erase_handle, coreVars
  <2> QED BY <2>1, SumUnchanged
<1> QED BY <1>2, <1>3

LEMMA TotalInstall ==
  ASSUME NodeInv, TotalCapacity, NEW t \in Tag, NEW k \in Key, Install(t, k)
  PROVE  TotalCapacity'
<1>1. capacity' = [capacity EXCEPT ![t] = capacity[t] + 1] /\ total_capacity' = total_capacity + 1
  BY DEF Install, install_impl
<1>2. SumCapacity' = SumCapacity + 1
  <2>1. 1 \in Int /\ CoreTypeOK
    BY DEF NodeInv
  <2> QED BY <1>1, <2>1, SumOneTenant
<1> QED BY <1>1, <1>2 DEF TotalCapacity

LEMMA TotalRelocate ==
  ASSUME NodeInv, TotalCapacity, NEW src \in Tag, NEW dst \in Tag, NEW n \in Nat,
         Relocate(src, dst, n)
  PROVE  TotalCapacity'
<1>1. total_capacity' = total_capacity
  BY DEF Relocate
<1>2. SumCapacity' = SumCapacity
  BY SumRelocated DEF NodeInv
<1> QED BY <1>1, <1>2 DEF TotalCapacity

-----------------------------------------------------------------------------
(* What a call returns.                                                    *)
RetType == ret \in [op : Op, node : Node \cup {Nil}]

LEMMA InsertIsolates ==
  ASSUME NodeInv, NEW t \in Tag, NEW k \in Key, NEW pin \in BOOLEAN, Insert(t, k, pin)
  PROVE  Isolates
<1> DEFINE gone == {x \in Key : table[x] # Nil /\ table'[x] = Nil}
<1>1. PICK r \in Node \cup {Nil} :
        /\ \/ table[k] # Nil /\ shared_lookup(k, pin, r) /\ UNCHANGED tag
           \/ /\ table[k] = Nil /\ capacity[t] > 0
              /\ \/ insert_new(t, k, pin, r) /\ tag_inserted(r, t)
                 \/ alloc_fails(t, r) /\ UNCHANGED tag
        /\ Returns("insert", r) /\ Pinned(pin, r)
  BY DEF Insert
<1>2. CASE table[k] = Nil /\ insert_new(t, k, pin, r) /\ tag_inserted(r, t)
  <2>1. r \in Node /\ r \in On(t, "free") \cup On(t, "lru")
    BY <1>1, <1>2, NewKeyStep DEF tag_inserted
  <2>2. /\ table' = [AllocTable(t) EXCEPT ![k] = r]
        /\ r = alloc_node(t)
        /\ tag' = [tag EXCEPT ![r] = t]
        /\ ret'.node = r
    BY <1>1, <1>2 DEF insert_new, tag_inserted, set_tag, Returns
  <2>3. table \in [Key -> Node \cup {Nil}] /\ tag \in [Node -> Tag \cup {NoTag}]
    BY DEF NodeInv, NodeTypes, CoreTypeOK
  <2>4. tag'[r] = t
    BY <2>1, <2>2, <2>3
  <2>5. ASSUME NEW x \in gone
        PROVE  x = key[r] /\ tag[table[x]] = t
    <3>1. x # k
      BY <1>2, <2>5
    <3>2. table'[x] = AllocTable(t)[x]
      BY <2>2, <2>3, <3>1 DEF AllocTable
    <3>3. Evicts(t) /\ x = key[r]
      BY <2>2, <2>3, <2>5, <3>2 DEF AllocTable
    <3>4. r \in On(t, "lru")
      <4>1. On(t, "free") = {}
        <5>1. Range(<<>>) = {}
          BY DEF Range
        <5> QED BY <3>3, <5>1 DEF Evicts, On, free
      <4> QED BY <2>1, <4>1
    <3>5. table[key[r]] = r /\ tag[r] = t
      BY <3>4 DEF Resident, NodeInv, ClientInv, TagAgrees, CoreInv, TableAgrees
    <3> QED BY <3>3, <3>5
  <2>6. \A x \in gone : gone = {x}
    BY <2>5
  <2> QED BY <2>2, <2>4, <2>5, <2>6 DEF Isolates
<1>3. CASE ~(table[k] = Nil /\ insert_new(t, k, pin, r) /\ tag_inserted(r, t))
  <2>1. UNCHANGED table
    <3>1. CASE shared_lookup(k, pin, r)
      BY <3>1 DEF shared_lookup, lookup_refresh, coreVars
    <3>2. CASE alloc_fails(t, r)
      BY <3>2 DEF alloc_fails, coreVars
    <3> QED BY <1>1, <1>3, <3>1, <3>2
  <2> QED BY <2>1 DEF Isolates
<1> QED BY <1>2, <1>3

(* A step that is not an insert.                                           *)
LEMMA OtherIsolates ==
  ASSUME ret'.op # "insert"
  PROVE  Isolates
BY DEF Isolates

-----------------------------------------------------------------------------
(* Every step.                                                             *)

LEMMA InvParts ==
  /\ Inv <=> NodeInv /\ RetType /\ TotalCapacity
  /\ Inv' <=> NodeInv' /\ RetType' /\ TotalCapacity'
<1>1. Inv => NodeInv /\ RetType /\ TotalCapacity
  BY DEF Inv, TypeOK, NodeInv, NodeTypes, ClientInv, RetType
<1>2. NodeInv /\ RetType /\ TotalCapacity => Inv
  BY TotalIsNat DEF Inv, TypeOK, NodeInv, NodeTypes, ClientInv, RetType
<1>3. Inv' => NodeInv' /\ RetType' /\ TotalCapacity'
  BY DEF Inv, TypeOK, NodeInv, NodeTypes, ClientInv, RetType
<1>4. NodeInv' /\ RetType' /\ TotalCapacity' => Inv'
  <2>1. SUFFICES ASSUME NodeInv', RetType', TotalCapacity' PROVE total_capacity' \in Nat
    BY DEF Inv, TypeOK, NodeInv, NodeTypes, ClientInv, RetType
  <2>2. IsFiniteSet(Tag) /\ capacity' \in [Tag -> Nat]
    BY <2>1, SharedAssumption DEF NodeInv, CoreTypeOK
  <2>3. SumFunction(capacity') \in Nat
    BY <2>2, SumBound
  <2> QED BY <2>1, <2>3 DEF TotalCapacity, SumCapacity
<1> QED BY <1>1, <1>2, <1>3, <1>4

LEMMA InitInv == Init => Inv
<1> SUFFICES ASSUME Init PROVE Inv
  OBVIOUS
<1>1. CoreTypeOK /\ CoreInv
  BY InitCore DEF Init
<1>2. \A t \in Tag, m \in Kind : m # "free" => On(t, m) = {}
  <2>1. Range(<<>>) = {}
    BY DEF Range
  <2> QED BY <2>1 DEF Init, CoreInit, On
<1>3. ClientInv
  <2>1. \A t \in Tag : Resident(t) = {} /\ On(t, "erased") = {}
    BY <1>2 DEF Resident, Kind
  <2> QED BY <2>1 DEF ClientInv, TagAgrees, PinsCounted, KeyedKnown, Init, CoreInit
<1>4. NodeTypes /\ RetType /\ TotalCapacity
  BY DEF Init, NodeTypes, RetType, NoRet, Op, TotalCapacity
<1> QED BY <1>1, <1>3, <1>4, InvParts DEF NodeInv

(* What every step does.                                                   *)
Step == Inv' /\ Stays /\ ErasesLRU /\ (Isolates \/ UNCHANGED vars)

LEMMA NextStep ==
  ASSUME StaleHandles = FALSE, Inv, [Next]_vars
  PROVE  Step
<1>0. NodeInv /\ RetType /\ TotalCapacity
  BY InvParts
<1>1. ASSUME NEW t \in Tag, NEW k \in Key, NEW pin \in BOOLEAN, Insert(t, k, pin) PROVE Step
  <2>1. NodeStep /\ Isolates
    BY <1>0, <1>1, InsertStep, InsertIsolates
  <2>2. RetType'
    BY <1>1 DEF Insert, Returns, RetType, Op
  <2>3. UNCHANGED <<capacity, total_capacity>>
    BY <1>1 DEF Insert, shared_lookup, lookup_refresh, insert_new, alloc_fails, coreVars
  <2> QED BY <1>0, <2>1, <2>2, <2>3, SumUnchanged, InvParts DEF Step, NodeStep
<1>2. ASSUME NEW k \in Key, NEW pin \in BOOLEAN, LookupKey(k, pin) PROVE Step
  <2>1. NodeStep
    BY <1>0, <1>2, LookupStep
  <2>2. RetType' /\ ret'.op # "insert"
    BY <1>2 DEF LookupKey, Returns, RetType, Op
  <2>3. UNCHANGED <<capacity, total_capacity>>
    BY <1>2 DEF LookupKey, shared_lookup, lookup_refresh, coreVars
  <2> QED BY <1>0, <2>1, <2>2, <2>3, SumUnchanged, OtherIsolates, InvParts DEF Step, NodeStep
<1>3. ASSUME NEW e \in Node, Release(e) PROVE Step
  <2>1. NodeStep
    BY <1>0, <1>3, ReleaseStep
  <2>2. RetType' /\ ret'.op # "insert"
    BY <1>3 DEF Release, NoRet, RetType, Op
  <2>3. UNCHANGED <<capacity, total_capacity>>
    BY <1>3 DEF Release, release_handle
  <2> QED BY <1>0, <2>1, <2>2, <2>3, SumUnchanged, OtherIsolates, InvParts DEF Step, NodeStep
<1>4. ASSUME NEW e \in Node, Pin(e) PROVE Step
  <2>1. NodeStep
    BY <1>0, <1>4, PinStep
  <2>2. RetType' /\ ret'.op # "insert"
    BY <1>4 DEF Pin, NoRet, RetType, Op
  <2>3. UNCHANGED <<capacity, total_capacity>>
    BY <1>4 DEF Pin, pin_handle
  <2> QED BY <1>0, <2>1, <2>2, <2>3, SumUnchanged, OtherIsolates, InvParts DEF Step, NodeStep
<1>5. ASSUME NEW e \in Node, Erase(e) PROVE Step
  <2>1. NodeStep /\ TotalCapacity'
    BY <1>0, <1>5, EraseStep, TotalErase
  <2>2. RetType' /\ ret'.op # "insert"
    BY <1>5 DEF Erase, Returns, RetType, Op
  <2> QED BY <1>0, <2>1, <2>2, OtherIsolates, InvParts DEF Step, NodeStep
<1>6. ASSUME NEW t \in Tag, NEW k \in Key, Install(t, k) PROVE Step
  <2>1. NodeStep /\ TotalCapacity'
    BY <1>0, <1>6, InstallStep, TotalInstall
  <2>2. RetType' /\ ret'.op # "insert"
    BY <1>6 DEF Install, Returns, RetType, Op
  <2> QED BY <1>0, <2>1, <2>2, OtherIsolates, InvParts DEF Step, NodeStep
<1>7. ASSUME NEW src \in Tag, NEW dst \in Tag, NEW n \in 0..MaxMove, Relocate(src, dst, n)
      PROVE  Step
  <2>1. n \in Nat
    BY SharedAssumption
  <2>2. NodeStep /\ TotalCapacity'
    BY <1>0, <1>7, <2>1, RelocateStep, TotalRelocate
  <2>3. RetType' /\ ret'.op # "insert"
    BY <1>7 DEF Relocate, RetType, Op
  <2> QED BY <1>0, <2>2, <2>3, OtherIsolates, InvParts DEF Step, NodeStep
<1>8. CASE UNCHANGED vars
  <2>1. UNCHANGED <<coreVars, tag, pins>> /\ ret' = ret /\ UNCHANGED <<capacity, total_capacity>>
    BY <1>8 DEF vars, coreVars
  <2>2. NodeStep
    BY <1>0, <2>1, NoChange
  <2>3. RetType'
    BY <1>0, <2>1 DEF RetType
  <2> QED BY <1>0, <1>8, <2>1, <2>2, <2>3, SumUnchanged, InvParts DEF Step, NodeStep
<1> QED BY <1>1, <1>2, <1>3, <1>4, <1>5, <1>6, <1>7, <1>8 DEF Next

-----------------------------------------------------------------------------
(* The theorems are about a client that erases no handle of a node that    *)
(* relocate preempted: the run MCSharedStale shows what happens otherwise. *)

(* The invariant holds in every state, for any tenants, pool slices, keys  *)
(* and nodes, whatever is relocated, erased and installed.                 *)
THEOREM Invariance ==
  ASSUME StaleHandles = FALSE
  PROVE  Spec => []Inv
<1>1. Init => Inv
  BY InitInv
<1>2. Inv /\ [Next]_vars => Inv'
  BY NextStep DEF Step
<1> QED BY <1>1, <1>2, PTL DEF Spec

(* The types, among them that no call of SharedCache takes refs, size_,    *)
(* capacity_ or total_capacity_ below zero.                                *)
THEOREM TypeCorrect ==
  ASSUME StaleHandles = FALSE
  PROVE  Spec => []TypeOK
<1>1. Inv => TypeOK
  BY DEF Inv
<1> QED BY <1>1, Invariance, PTL

(* The tenants' lists, the one table they share, refs and the counters     *)
(* agree: no node is lost or linked twice, also when relocate moves it.    *)
THEOREM CachesAgree ==
  ASSUME StaleHandles = FALSE
  PROVE  Spec => []CoreInv
<1>1. Inv => CoreInv
  BY DEF Inv
<1> QED BY <1>1, Invariance, PTL

(* Every call on a handle finds the right cache: the tag of a node names   *)
(* the tenant whose list it is on.                                         *)
THEOREM TagsLead ==
  ASSUME StaleHandles = FALSE
  PROVE  Spec => []TagAgrees
<1>1. Inv => TagAgrees
  BY DEF Inv
<1> QED BY <1>1, Invariance, PTL

(* refs is the number of unreleased pins, plus one for the cache.          *)
THEOREM RefsCountPins ==
  ASSUME StaleHandles = FALSE
  PROVE  Spec => []PinsCounted
<1>1. Inv => PinsCounted
  BY DEF Inv
<1> QED BY <1>1, Invariance, PTL

(* total_capacity_ is the sum of the tenants' capacities.                  *)
THEOREM CapacitiesAddUp ==
  ASSUME StaleHandles = FALSE
  PROVE  Spec => []TotalCapacity
<1>1. Inv => TotalCapacity
  BY DEF Inv
<1> QED BY <1>1, Invariance, PTL

(* A pinned node keeps its key, its tenant and its entry in the table: no  *)
(* insert of another tenant and no relocate takes it away.                 *)
THEOREM PinnedNodesStay ==
  ASSUME StaleHandles = FALSE
  PROVE  Spec => PinnedStays
<1> DEFINE A == \A e \in Node : pins[e] > 0 =>
                  key'[e] = key[e] /\ table'[key[e]] = e /\ tag'[e] = tag[e]
<1>1. Inv /\ [Next]_vars => [A]_vars
  <2>1. SUFFICES ASSUME Inv, [Next]_vars, NEW e \in Node, pins[e] > 0
                 PROVE  key'[e] = key[e] /\ table'[key[e]] = e /\ tag'[e] = tag[e]
    OBVIOUS
  <2>2. Inv' /\ Stays
    BY <2>1, NextStep DEF Step
  <2>3. PICK u \in Tag : e \in Resident(u)' /\ key'[e] = key[e] /\ tag'[e] = tag[e]
    BY <2>1, <2>2 DEF Stays
  <2>4. table'[key'[e]] = e
    BY <2>2, <2>3 DEF Inv, CoreInv, TableAgrees
  <2> QED BY <2>3, <2>4
<1>2. Spec => [][A]_vars
  <2> HIDE DEF A
  <2> QED BY <1>1, Invariance, PTL DEF Spec
<1> QED BY <1>2 DEF PinnedStays

(* An insert takes at most one key from the table, and it is a key of the  *)
(* tenant that inserts.                                                    *)
THEOREM TenantsIsolated ==
  ASSUME StaleHandles = FALSE
  PROVE  Spec => TenantIsolation
<1>1. Inv /\ [Next]_vars => [Isolates]_vars
  BY NextStep DEF Step
<1>2. Spec => [][Isolates]_vars
  <2> HIDE DEF Isolates
  <2> QED BY <1>1, Invariance, PTL DEF Spec
<1> QED BY <1>2 DEF TenantIsolation

(* erase takes a node from an LRU list only: refs = 1 does not mislead it. *)
THEOREM ErasedWasUnpinned ==
  ASSUME StaleHandles = FALSE
  PROVE  Spec => EraseOnlyFromLRU
<1> DEFINE A == \A t \in Tag : \A e \in Range(list'[<<t, "erased">>]) \ On(t, "erased") :
                  e \in On(t, "lru")
<1>1. Inv /\ [Next]_vars => [A]_vars
  <2>1. ErasesLRU => A
    BY DEF ErasesLRU, On
  <2> QED BY <2>1, NextStep DEF Step
<1>2. Spec => [][A]_vars
  <2> HIDE DEF A
  <2> QED BY <1>1, Invariance, PTL DEF Spec
<1> QED BY <1>2 DEF EraseOnlyFromLRU

-----------------------------------------------------------------------------
(* The closed form of relocate is what its loop computes: one more slot is *)
(* one more preempt and assign.                                            *)
(* A node leaves the front of a part of a list.                            *)
LEMMA PopPart ==
  ASSUME NEW s \in Seq(Node), Inj(s), NEW a \in 1..Len(s)
  PROVE  LET b == SubSeq(s, a, Len(s))
         IN /\ b \in Seq(Node) /\ b # <<>> /\ Head(b) = s[a]
            /\ RemoveFirst(b, s[a]) = SubSeq(s, a + 1, Len(s))
<1> DEFINE n == Len(s)
           b == SubSeq(s, a, n)
           c == SubSeq(s, a + 1, n)
           r == RemoveAt(b, 1)
<1>1. n \in Nat /\ n \in 0..n /\ a \in Nat \ {0} /\ a + 1 \in Nat \ {0} /\ a <= n
  OBVIOUS
<1>2. /\ b \in Seq(Node) /\ Len(b) = n - a + 1
      /\ \A i \in 1..(n - a + 1) : b[i] = s[a + i - 1]
  BY <1>1, SubSeqProperties
<1>3. /\ c \in Seq(Node) /\ Len(c) = n - a
      /\ \A i \in 1..(n - a) : c[i] = s[a + i]
  <2>1. /\ c \in Seq(Node) /\ Len(c) = IF a + 1 <= n THEN n - (a + 1) + 1 ELSE 0
        /\ \A i \in 1..(n - (a + 1) + 1) : c[i] = s[(a + 1) + i - 1]
    BY <1>1, SubSeqProperties
  <2> HIDE DEF c, n
  <2>2. \A i \in 1..(n - a) : (a + 1) + i - 1 = a + i /\ i \in 1..(n - (a + 1) + 1)
    BY <1>1
  <2> QED BY <1>1, <2>1, <2>2
<1>4. Inj(b)
  BY <1>1, PartProps
<1> HIDE DEF b, c
<1>5. b # <<>> /\ 1 \in 1..Len(b) /\ b[1] = s[a] /\ Head(b) = b[1]
  BY <1>1, <1>2
<1>6. RemoveFirst(b, s[a]) = r
  BY <1>2, <1>4, <1>5, RemoveFirstIs
<1>7. r \in Seq(Node) /\ Len(r) = n - a /\ \A i \in 1..(n - a) : r[i] = s[a + i]
  <2>1. /\ r \in Seq(Node) /\ Len(r) = Len(b) - 1
        /\ \A i \in 1..(Len(b) - 1) : r[i] = IF i < 1 THEN b[i] ELSE b[i + 1]
    BY <1>2, <1>5, RemoveAtProps
  <2> HIDE DEF r, n
  <2>2. \A i \in 1..(n - a) : i + 1 \in 1..(n - a + 1) /\ a + (i + 1) - 1 = a + i /\ ~(i < 1)
    BY <1>1
  <2> QED BY <1>1, <1>2, <2>1, <2>2
<1> HIDE DEF r
<1>8. r = c
  BY SMTT(60), <1>1, <1>3, <1>7, SeqEqual
<1> QED BY <1>2, <1>5, <1>6, <1>8 DEF b, c

(* ... and goes behind the ones that left before it.                       *)
LEMMA PushPart ==
  ASSUME NEW d \in Seq(Node), NEW s \in Seq(Node), NEW m \in 0..(Len(s) - 1)
  PROVE  Append(d \o SubSeq(s, 1, m), s[m + 1]) = d \o SubSeq(s, 1, m + 1)
<1> DEFINE a == SubSeq(s, 1, m)
           b == SubSeq(s, 1, m + 1)
           D == Len(d)
           p == Append(d \o a, s[m + 1])
           q == d \o b
<1>1. m \in Nat /\ D \in Nat /\ m + 1 \in 1..Len(s) /\ s[m + 1] \in Node
  OBVIOUS
<1>2. a \in Seq(Node) /\ Len(a) = m /\ \A i \in 1..m : a[i] = s[i]
  BY <1>1, SubSeqProperties
<1>3. b \in Seq(Node) /\ Len(b) = m + 1 /\ \A i \in 1..(m + 1) : b[i] = s[i]
  BY <1>1, SubSeqProperties
<1> HIDE DEF a, b
<1>4. /\ d \o a \in Seq(Node) /\ Len(d \o a) = D + m
      /\ \A i \in 1..(D + m) : (d \o a)[i] = IF i <= D THEN d[i] ELSE a[i - D]
  BY <1>1, <1>2, ConcatProperties
<1>5. /\ q \in Seq(Node) /\ Len(q) = D + m + 1
      /\ \A i \in 1..(D + m + 1) : q[i] = IF i <= D THEN d[i] ELSE b[i - D]
  <2>1. D + (m + 1) = D + m + 1 /\ Len(b) = m + 1
    BY <1>1, <1>3
  <2>2. /\ d \o b \in Seq(Node) /\ Len(d \o b) = Len(d) + Len(b)
        /\ \A i \in 1..(Len(d) + Len(b)) : (d \o b)[i] = IF i <= Len(d) THEN d[i] ELSE b[i - Len(d)]
    BY <1>3, ConcatProperties
  <2> QED BY <2>1, <2>2
<1> DEFINE x == d \o a
<1> HIDE DEF x, q
<1>6. /\ Append(x, s[m + 1]) \in Seq(Node) /\ Len(Append(x, s[m + 1])) = D + m + 1
      /\ \A i \in 1..(D + m) : Append(x, s[m + 1])[i] = x[i]
      /\ Append(x, s[m + 1])[D + m + 1] = s[m + 1]
  <2>1. x \in Seq(Node) /\ Len(x) = D + m
    BY <1>4 DEF x
  <2>2. s[m + 1] \in Node /\ Len(x) + 1 = D + m + 1
    BY <1>1, <2>1
  <2> DEFINE y == s[m + 1]
  <2> HIDE DEF y, D
  <2>3. y \in Node
    BY <2>2 DEF y
  <2>4. /\ Append(x, y) \in Seq(Node) /\ Len(Append(x, y)) = Len(x) + 1
        /\ \A i \in 1..Len(x) : Append(x, y)[i] = x[i]
        /\ Append(x, y)[Len(x) + 1] = y
    BY <2>1, <2>3, AppendProperties
  <2> QED BY <2>1, <2>2, <2>4 DEF y
<1>7. p = Append(x, s[m + 1])
  BY DEF x
<1> HIDE DEF p
<1>8. ASSUME NEW i \in 1..(D + m + 1) PROVE p[i] = q[i]
  <2>1. CASE i <= D
    BY <1>1, <1>4, <1>5, <1>6, <1>7, <2>1 DEF x
  <2>2. CASE i > D /\ i <= D + m
    <3>1. i - D \in 1..m /\ i - D \in 1..(m + 1) /\ i \in 1..(D + m) /\ ~(i <= D)
      BY <1>1, <2>2
    <3>2. p[i] = a[i - D] /\ q[i] = b[i - D]
      BY <1>4, <1>5, <1>6, <1>7, <3>1 DEF x
    <3> QED BY <1>2, <1>3, <3>1, <3>2
  <2>3. CASE i = D + m + 1
    <3>1. i - D = m + 1 /\ m + 1 \in 1..(m + 1) /\ ~(i <= D)
      BY <1>1, <2>3
    <3> QED BY <1>3, <1>5, <1>6, <1>7, <2>3, <3>1
  <2> QED BY <1>1, <2>1, <2>2, <2>3
<1>9. p = q
  BY <1>1, <1>5, <1>6, <1>7, <1>8, SeqEqual
<1> QED BY <1>9 DEF p, q, a, b

(* r nodes went from the front of a list to its back.                      *)
Rotation(s, r) == SubSeq(s, r + 1, Len(s)) \o SubSeq(s, 1, r)

LEMMA RotationAt ==
  ASSUME NEW s \in Seq(Node), NEW r \in 0..Len(s)
  PROVE  /\ Rotation(s, r) \in Seq(Node) /\ Len(Rotation(s, r)) = Len(s)
         /\ \A i \in 1..Len(s) :
              Rotation(s, r)[i] = IF i <= Len(s) - r THEN s[r + i] ELSE s[i - (Len(s) - r)]
<1> DEFINE n == Len(s)
           a == SubSeq(s, r + 1, n)
           b == SubSeq(s, 1, r)
<1>1. n \in Nat /\ r \in Nat /\ r <= n
  OBVIOUS
<1>2. a \in Seq(Node) /\ Len(a) = n - r /\ \A i \in 1..(n - r) : a[i] = s[r + i]
  <2>1. /\ a \in Seq(Node) /\ Len(a) = IF r + 1 <= n THEN n - (r + 1) + 1 ELSE 0
        /\ \A i \in 1..(n - (r + 1) + 1) : a[i] = s[(r + 1) + i - 1]
    BY <1>1, SubSeqProperties
  <2> HIDE DEF a, n
  <2>2. \A i \in 1..(n - r) : (r + 1) + i - 1 = r + i /\ i \in 1..(n - (r + 1) + 1)
    BY <1>1
  <2> QED BY <1>1, <2>1, <2>2
<1>3. b \in Seq(Node) /\ Len(b) = r /\ \A i \in 1..r : b[i] = s[i]
  BY <1>1, SubSeqProperties
<1> HIDE DEF a, b
<1>4. /\ a \o b \in Seq(Node) /\ Len(a \o b) = (n - r) + r
      /\ \A i \in 1..((n - r) + r) : (a \o b)[i] = IF i <= n - r THEN a[i] ELSE b[i - (n - r)]
  BY <1>2, <1>3, ConcatProperties
<1>5. Rotation(s, r) = a \o b
  BY DEF Rotation, a, b
<1> HIDE DEF n
<1>6. ASSUME NEW i \in 1..n
      PROVE  (a \o b)[i] = IF i <= n - r THEN s[r + i] ELSE s[i - (n - r)]
  <2>1. CASE i <= n - r
    <3>1. i \in 1..(n - r) /\ i \in 1..((n - r) + r)
      BY <1>1, <2>1
    <3> QED BY <1>2, <1>4, <2>1, <3>1
  <2>2. CASE ~(i <= n - r)
    <3>1. i - (n - r) \in 1..r /\ i \in 1..((n - r) + r)
      BY <1>1, <2>2
    <3> QED BY <1>3, <1>4, <2>2, <3>1
  <2> QED BY <2>1, <2>2
<1>7. (n - r) + r = n
  BY <1>1
<1> QED BY <1>4, <1>5, <1>6, <1>7 DEF n

(* Moving the first node to the back rotates by one more.                  *)
LEMMA RotateOne ==
  ASSUME NEW s \in Seq(Node), Inj(s), NEW r \in 0..(Len(s) - 1)
  PROVE  /\ Rotation(s, r) # <<>> /\ Head(Rotation(s, r)) = s[r + 1]
         /\ Append(RemoveFirst(Rotation(s, r), s[r + 1]), s[r + 1])
              = Rotation(s, IF r + 1 = Len(s) THEN 0 ELSE r + 1)
<1> DEFINE n == Len(s)
           e == s[r + 1]
           a == Rotation(s, r)
           c == RemoveAt(a, 1)
           p == Append(c, e)
           t == IF r + 1 = n THEN 0 ELSE r + 1
           q == Rotation(s, t)
<1>1. n \in Nat /\ r \in Nat /\ r < n /\ r \in 0..n /\ r + 1 \in 0..n /\ e \in Node
      /\ t \in 0..n
  OBVIOUS
<1>2. /\ a \in Seq(Node) /\ Len(a) = n
      /\ \A i \in 1..n : a[i] = IF i <= n - r THEN s[r + i] ELSE s[i - (n - r)]
  BY <1>1, RotationAt
<1>3. Inj(a)
  BY <1>1, RotateProps DEF Rotation
<1>4. /\ q \in Seq(Node) /\ Len(q) = n
      /\ \A i \in 1..n : q[i] = IF i <= n - t THEN s[t + i] ELSE s[i - (n - t)]
  BY <1>1, RotationAt
<1>5. t = (IF r + 1 = n THEN 0 ELSE r + 1) /\ e = s[r + 1]
  OBVIOUS
<1> HIDE DEF a, q, e, t
<1>6. a # <<>> /\ Head(a) = a[1] /\ 1 \in 1..Len(a) /\ a[1] = e
  <2>1. n > 0 /\ 1 \in 1..n /\ 1 <= n - r
    BY <1>1
  <2> QED BY <1>2, <1>5, <2>1
<1>7. RemoveFirst(a, e) = c
  BY <1>2, <1>3, <1>6, RemoveFirstIs
<1>8. c \in Seq(Node) /\ Len(c) = n - 1 /\ \A i \in 1..(n - 1) : c[i] = a[i + 1]
  <2>1. /\ c \in Seq(Node) /\ Len(c) = Len(a) - 1
        /\ \A i \in 1..(Len(a) - 1) : c[i] = IF i < 1 THEN a[i] ELSE a[i + 1]
    BY <1>2, <1>6, RemoveAtProps
  <2> HIDE DEF c, n
  <2>2. \A i \in 1..(n - 1) : ~(i < 1)
    BY <1>1
  <2> QED BY <1>2, <2>1, <2>2
<1> HIDE DEF c
<1>9. /\ p \in Seq(Node) /\ Len(p) = n
      /\ \A i \in 1..(n - 1) : p[i] = c[i]
      /\ p[n] = e
  BY <1>1, <1>8, AppendProperties
<1> HIDE DEF p, n
<1>10. ASSUME NEW i \in 1..n PROVE p[i] = q[i]
  <2>1. CASE i = n
    <3>1. q[n] = s[r + 1]
      <4>1. CASE r + 1 = n
        <5>1. t = 0 /\ n \in 1..n /\ n <= n - t /\ t + n = r + 1
          BY <1>1, <1>5, <4>1
        <5> QED BY <1>4, <5>1
      <4>2. CASE r + 1 # n
        <5>1. t = r + 1 /\ n \in 1..n /\ ~(n <= n - t) /\ n - (n - t) = r + 1
          BY <1>1, <1>5, <4>2
        <5> QED BY <1>4, <5>1
      <4> QED BY <4>1, <4>2
    <3> QED BY <1>5, <1>9, <2>1, <3>1
  <2>2. CASE i < n
    <3>1. i \in 1..(n - 1) /\ i + 1 \in 1..n
      BY <1>1, <2>2
    <3>2. p[i] = IF i + 1 <= n - r THEN s[r + (i + 1)] ELSE s[(i + 1) - (n - r)]
      BY <1>2, <1>8, <1>9, <3>1
    <3>3. q[i] = IF i <= n - t THEN s[t + i] ELSE s[i - (n - t)]
      BY <1>4
    <3>4. CASE r + 1 = n
      <4>1. t = 0 /\ i <= n - t /\ t + i = i /\ ~(i + 1 <= n - r) /\ (i + 1) - (n - r) = i
        BY <1>1, <1>5, <2>2, <3>1, <3>4
      <4> QED BY <3>2, <3>3, <4>1
    <3>5. CASE r + 1 # n
      <4>1. t = r + 1 /\ (i + 1 <= n - r <=> i <= n - t) /\ r + (i + 1) = t + i
            /\ (i + 1) - (n - r) = i - (n - t)
        BY <1>1, <1>5, <3>1, <3>5
      <4> QED BY <3>2, <3>3, <4>1
    <3> QED BY <3>4, <3>5
  <2> QED BY <1>1, <2>1, <2>2
<1>11. p = q
  BY <1>4, <1>9, <1>10, SeqEqual
<1> QED BY <1>6, <1>7, <1>11 DEF a, c, e, p, q, t, n

(* The lists once n of src's nodes are on dst's free list, v by eviction.  *)
MovedTo(src, dst, n, v) ==
  [L \in Tag \X Kind |->
     IF L = <<src, "free">> THEN SubSeq(free(src), n + 1, Len(free(src)))
     ELSE IF L = <<src, "lru">> THEN SubSeq(lru(src), v + 1, Len(lru(src)))
     ELSE IF L = <<dst, "free">> THEN free(dst) \o SubSeq(Available(src), 1, n)
     ELSE list[L]]

LEMMA MovedLists ==
  ASSUME NEW src \in Tag, NEW dst \in Tag, src # dst, CoreTypeOK, NEW n, NEW v
  PROVE  Moved(src, dst, n, v).list = MovedTo(src, dst, n, v)
<1> DEFINE sf == <<src, "free">>
           sl == <<src, "lru">>
           df == <<dst, "free">>
           a == SubSeq(free(src), n + 1, Len(free(src)))
           b == SubSeq(lru(src), v + 1, Len(lru(src)))
           c == SubSeq(Available(src), 1, n)
<1>1. sf # sl /\ sf # df /\ sl # df /\ sf \in Tag \X Kind /\ sl \in Tag \X Kind /\ df \in Tag \X Kind
  BY DEF Kind
<1>2. DOMAIN list = Tag \X Kind /\ free(src) = list[sf] /\ lru(src) = list[sl] /\ free(dst) = list[df]
  BY DEF CoreTypeOK, free, lru
<1>3. Moved(src, dst, n, v).list =
        [list EXCEPT ![sf] = SubSeq(@, n + 1, Len(@)), ![sl] = SubSeq(@, v + 1, Len(@)), ![df] = @ \o c]
  BY DEF Moved
<1> HIDE DEF sf, sl, df, c
<1>4. Moved(src, dst, n, v).list = [list EXCEPT ![sf] = a, ![sl] = b, ![df] = free(dst) \o c]
  BY <1>1, <1>2, <1>3
<1> HIDE DEF a, b
<1>5. [list EXCEPT ![sf] = a, ![sl] = b, ![df] = free(dst) \o c] = [L \in Tag \X Kind |->
         IF L = sf THEN a ELSE IF L = sl THEN b ELSE IF L = df THEN free(dst) \o c ELSE list[L]]
  BY <1>1, <1>2
<1> QED BY <1>4, <1>5 DEF MovedTo, a, b, c, sf, sl, df

(* The next node alloc_node gives, once n are gone, v of them evicted.     *)
Gives(t, n, v, w) ==
  LET f2 == SubSeq(free(t), n + 1, Len(free(t)))
      l2 == SubSeq(lru(t), v + 1, Len(lru(t)))
      e == Available(t)[n + 1]
  IN /\ f2 # <<>> \/ l2 # <<>>
     /\ e = IF f2 # <<>> THEN Head(f2) ELSE Head(l2)
     /\ RemoveFirst(f2, e) = SubSeq(free(t), n + 2, Len(free(t)))
     /\ RemoveFirst(l2, e) = SubSeq(lru(t), w + 1, Len(lru(t)))
     /\ e \in Node /\ e \notin Range(SubSeq(Available(t), 1, n))
     /\ e \in On(t, "free") \cup On(t, "lru")
     /\ w \in Nat /\ v \in Nat /\ w = (IF f2 = <<>> THEN v + 1 ELSE v)
     /\ f2 = <<>> => w \in 1..Len(lru(t)) /\ lru(t)[w] = e

(* It is the next node in Available(t): a free one, or the oldest of LRU.  *)
LEMMA NextGiven ==
  ASSUME NEW t \in Tag, CoreTypeOK, LinkedOnce,
         NEW n \in 0..(Len(free(t)) + Len(lru(t)) - 1)
  PROVE  Gives(t, n, Evicted(t, n), Evicted(t, n + 1))
<1> DEFINE f == free(t)
           l == lru(t)
           F == Len(f)
           M == Len(l)
           a == Available(t)
           v == Evicted(t, n)
           w == Evicted(t, n + 1)
           g == SubSeq(a, 1, n)
           f2 == SubSeq(f, n + 1, F)
           l2 == SubSeq(l, v + 1, M)
           e == a[n + 1]
<1>1. Once(list) /\ list \in Lists /\ <<t, "free">> \in Tag \X Kind /\ <<t, "lru">> \in Tag \X Kind
      /\ <<t, "free">> # <<t, "lru">>
  BY OnceByPlaces DEF CoreTypeOK, Lists, LinkedOnce, Kind
<1>2. /\ f \in Seq(Node) /\ l \in Seq(Node) /\ Inj(f) /\ Inj(l)
      /\ F \in Nat /\ M \in Nat /\ Range(f) \cap Range(l) = {}
      /\ Range(f) = On(t, "free") /\ Range(l) = On(t, "lru")
      /\ Range(f) = {f[i] : i \in 1..F} /\ Range(l) = {l[i] : i \in 1..M}
  <2>1. f \in Seq(Node) /\ l \in Seq(Node) /\ Inj(f) /\ Inj(l) /\ Range(f) \cap Range(l) = {}
    BY <1>1 DEF Once, Lists, free, lru
  <2>2. Range(f) = On(t, "free") /\ Range(l) = On(t, "lru")
    BY DEF On, free, lru
  <2> HIDE DEF f, l
  <2> QED BY <2>1, <2>2, RangeEquality
<1>3. /\ a \in Seq(Node) /\ Len(a) = F + M
      /\ \A i \in 1..(F + M) : a[i] = IF i <= F THEN f[i] ELSE l[i - F]
  BY <1>2, ConcatProperties DEF Available
<1>4. n \in Nat /\ v = (IF n > F THEN n - F ELSE 0) /\ w = (IF n + 1 > F THEN n + 1 - F ELSE 0)
  BY DEF Evicted
<1>5. n \in 0..(F + M) /\ n < F + M
  BY <1>2
<1>6. g \in Seq(Node) /\ Range(g) = {a[i] : i \in 1..n} /\ e \in Node
  <2>1. a \in Seq(Node) /\ Inj(a)
    BY <1>2, JoinProps DEF Available
  <2>2. n \in 0..Len(a) /\ n + 1 \in 1..Len(a)
    BY <1>2, <1>3, <1>5
  <2> HIDE DEF a
  <2>3. Range(g) = {a[i] : i \in 1..n} /\ g \in Seq(Node)
    BY <2>1, <2>2, PartProps
  <2>4. a[n + 1] \in Node
    BY <2>1, <2>2
  <2> QED BY <2>3, <2>4
<1>7. e \notin Range(g)
  <2>1. a \in Seq(Node) /\ Inj(a)
    BY <1>2, JoinProps DEF Available
  <2>2. n + 1 \in 1..Len(a) /\ \A i \in 1..n : i \in 1..Len(a) /\ i # n + 1
    BY <1>2, <1>3, <1>5
  <2> HIDE DEF a, g
  <2> QED BY <1>6, <2>1, <2>2 DEF Inj
<1> HIDE DEF f, l, F, M, a, v, w, g, e
<1>8. CASE n < F
  <2>1. n + 1 \in 1..F /\ n + 1 \in 1..(F + M) /\ v = 0 /\ w = 0
    BY <1>2, <1>4, <1>8
  <2>2. e = f[n + 1]
    BY <1>3, <2>1 DEF e
  <2>3. f2 \in Seq(Node) /\ f2 # <<>> /\ Head(f2) = e /\ RemoveFirst(f2, e) = SubSeq(f, (n + 1) + 1, F)
    BY <1>2, <2>1, <2>2, PopPart DEF F
  <2>4. l2 = l
    BY <1>2, <2>1 DEF M
  <2>5. e \in Range(f) /\ e \notin Range(l)
    BY <1>2, <2>1, <2>2
  <2>6. RemoveFirst(l2, e) = l2
    BY <1>2, <2>4, <2>5, RemoveFirstIs
  <2>7. (n + 1) + 1 = n + 2 /\ v \in Nat /\ w \in Nat
    BY <1>4, <2>1
  <2>8. SubSeq(l, w + 1, M) = l2
    BY <2>1
  <2>9. /\ f2 # <<>> /\ e = Head(f2) /\ RemoveFirst(f2, e) = SubSeq(f, n + 2, F)
        /\ RemoveFirst(l2, e) = SubSeq(l, w + 1, M)
        /\ e \in On(t, "free") /\ w = v
    BY <1>2, <2>1, <2>3, <2>5, <2>6, <2>7, <2>8
  <2> HIDE DEF f2, l2
  <2>10. /\ f2 # <<>> \/ l2 # <<>>
         /\ e = (IF f2 # <<>> THEN Head(f2) ELSE Head(l2))
         /\ e \in On(t, "free") \cup On(t, "lru")
         /\ w = (IF f2 = <<>> THEN v + 1 ELSE v)
         /\ f2 = <<>> => w \in 1..M /\ l[w] = e
    BY <2>9
  <2> QED BY <1>6, <1>7, <2>7, <2>9, <2>10 DEF Gives, f, l, F, M, a, v, w, g, e, f2, l2
<1>9. CASE ~(n < F)
  <2>1. /\ v = n - F /\ w = v + 1 /\ v \in Nat /\ w \in 1..M /\ w \in Nat
        /\ n + 1 \in 1..(F + M) /\ ~(n + 1 <= F) /\ (n + 1) - F = w
    BY <1>2, <1>4, <1>5, <1>9
  <2>2. e = l[w]
    BY <1>3, <2>1 DEF e
  <2>3. l2 \in Seq(Node) /\ l2 # <<>> /\ Head(l2) = e /\ RemoveFirst(l2, e) = SubSeq(l, w + 1, M)
    BY <1>2, <2>1, <2>2, PopPart DEF M
  <2>4. f2 = <<>> /\ SubSeq(f, n + 2, F) = <<>>
    BY SMTT(60), <1>2, <1>4, <1>9
  <2>5. RemoveFirst(f2, e) = SubSeq(f, n + 2, F)
    <3>1. f2 \in Seq(Node) /\ Inj(f2) /\ e \notin Range(f2)
      <4>1. <<>> \in Seq(Node) /\ Inj(<<>>)
        BY DEF Inj
      <4>2. f2 \in Seq(Node) /\ Inj(f2) /\ Len(f2) = 0
        BY <2>4, <4>1
      <4> HIDE DEF f2
      <4>3. e \in Range(f2) => Len(f2) > 0
        BY <4>2, EmptyRange
      <4> QED BY <4>2, <4>3
    <3> HIDE DEF f2
    <3> QED BY <2>4, <3>1, RemoveFirstIs
  <2>6. e \in On(t, "lru")
    BY <1>2, <2>1, <2>2
  <2> HIDE DEF f2, l2
  <2> QED BY <1>6, <1>7, <2>1, <2>2, <2>3, <2>4, <2>5, <2>6 DEF Gives, f, l, F, M, a, v, w, g, e, f2, l2
<1> QED BY <1>8, <1>9

(* A node of one list is on no other.                                      *)
LEMMA OffOther ==
  ASSUME CoreTypeOK, LinkedOnce, NEW L \in Tag \X Kind, NEW M \in Tag \X Kind, L # M,
         NEW e \in Range(list[L])
  PROVE  RemoveFirst(list[M], e) = list[M]
<1>1. Once(list) /\ list[M] \in Seq(Node)
  BY OnceByPlaces DEF CoreTypeOK, Lists, LinkedOnce
<1>2. Inj(list[M]) /\ e \notin Range(list[M])
  BY <1>1 DEF Once
<1> QED BY <1>1, <1>2, RemoveFirstIs

(* One more slot to another tenant: the lists.                             *)
LEMMA MovedListsStep ==
  ASSUME NEW src \in Tag, NEW dst \in Tag, src # dst, CoreTypeOK, LinkedOnce,
         NEW n \in 0..(Len(free(src)) + Len(lru(src)) - 1)
  PROVE  move(Moved(src, dst, n, Evicted(src, n)).list, <<dst, "free">>, Available(src)[n + 1])
           = Moved(src, dst, n + 1, Evicted(src, n + 1)).list
<1> DEFINE sf == <<src, "free">>
           sl == <<src, "lru">>
           df == <<dst, "free">>
           v == Evicted(src, n)
           w == Evicted(src, n + 1)
           e == Available(src)[n + 1]
           f2 == SubSeq(free(src), n + 1, Len(free(src)))
           l2 == SubSeq(lru(src), v + 1, Len(lru(src)))
           f3 == SubSeq(free(src), n + 2, Len(free(src)))
           l3 == SubSeq(lru(src), w + 1, Len(lru(src)))
           g == SubSeq(Available(src), 1, n)
           h == SubSeq(Available(src), 1, n + 1)
           d == free(dst)
           x == Moved(src, dst, n, v).list
           y == Moved(src, dst, n + 1, w).list
<1>1. /\ RemoveFirst(f2, e) = f3 /\ RemoveFirst(l2, e) = l3
      /\ e \in Node /\ e \notin Range(g)
      /\ e \in On(src, "free") \cup On(src, "lru")
  <2>1. Gives(src, n, Evicted(src, n), Evicted(src, n + 1))
    BY NextGiven
  <2> QED BY <2>1 DEF Gives
<1>2. x = [L \in Tag \X Kind |-> IF L = sf THEN f2 ELSE IF L = sl THEN l2
                                 ELSE IF L = df THEN d \o g ELSE list[L]]
  <2>1. x = MovedTo(src, dst, n, v)
    BY MovedLists
  <2> QED BY <2>1 DEF MovedTo
<1>3. y = [L \in Tag \X Kind |-> IF L = sf THEN f3 ELSE IF L = sl THEN l3
                                 ELSE IF L = df THEN d \o h ELSE list[L]]
  <2>1. (n + 1) + 1 = n + 2
    OBVIOUS
  <2>2. y = MovedTo(src, dst, n + 1, w)
    BY MovedLists
  <2> QED BY <2>1, <2>2 DEF MovedTo
<1>4. sf # sl /\ sf # df /\ sl # df /\ sf \in Tag \X Kind /\ sl \in Tag \X Kind /\ df \in Tag \X Kind
  BY DEF Kind
<1>5. e \in Range(list[sf]) \/ e \in Range(list[sl])
  BY <1>1 DEF On
<1>6. ASSUME NEW L \in Tag \X Kind, L # sf, L # sl PROVE RemoveFirst(list[L], e) = list[L]
  BY <1>4, <1>5, <1>6, OffOther
<1>7. Append(RemoveFirst(d \o g, e), e) = d \o h
  <2>1. free(src) \in Seq(Node) /\ lru(src) \in Seq(Node) /\ d \in Seq(Node)
    BY <1>4 DEF CoreTypeOK, free, lru
  <2>2. Available(src) \in Seq(Node) /\ Len(Available(src)) = Len(free(src)) + Len(lru(src))
    BY <2>1, ConcatProperties DEF Available
  <2>3. Once(list)
    BY OnceByPlaces DEF CoreTypeOK, Lists, LinkedOnce
  <2>4. Inj(Available(src)) /\ Inj(d) /\ e \notin Range(d)
        /\ Range(Available(src)) \cap Range(d) = {}
    <3>1. Range(list[sf]) \cap Range(list[sl]) = {} /\ Range(list[sf]) \cap Range(list[df]) = {}
          /\ Range(list[sl]) \cap Range(list[df]) = {}
          /\ Inj(list[sf]) /\ Inj(list[sl]) /\ Inj(list[df])
      BY <1>4, <2>3 DEF Once
    <3>2. Inj(Available(src)) /\ Range(Available(src)) = Range(list[sf]) \cup Range(list[sl])
      <4>1. free(src) = list[sf] /\ lru(src) = list[sl] /\ Available(src) = free(src) \o lru(src)
        BY DEF Available, free, lru
      <4> HIDE DEF sf, sl
      <4>2. /\ Inj(free(src) \o lru(src))
            /\ Range(free(src) \o lru(src)) = Range(free(src)) \cup Range(lru(src))
        BY <2>1, <3>1, <4>1, JoinProps
      <4> QED BY <4>1, <4>2
    <3> QED BY <1>5, <3>1, <3>2 DEF free
  <2>5. n \in 0..Len(Available(src)) /\ 1 \in Nat \ {0} /\ n \in Nat
        /\ n \in 0..(Len(Available(src)) - 1)
        /\ \A i \in 1..n : i \in 1..Len(Available(src))
    BY <2>1, <2>2
  <2> DEFINE a == Available(src)
  <2>6. g = SubSeq(a, 1, n) /\ h = SubSeq(a, 1, n + 1) /\ e = a[n + 1]
    OBVIOUS
  <2> HIDE DEF a, d, g, h, e
  <2>7. g \in Seq(Node) /\ Inj(g) /\ Range(g) = {a[i] : i \in 1..n}
    <3>1. a \in Seq(Node) /\ Inj(a) /\ n \in 0..Len(a) /\ 1 \in Nat \ {0}
      BY <2>2, <2>4, <2>5 DEF a
    <3>2. /\ SubSeq(a, 1, n) \in Seq(Node) /\ Inj(SubSeq(a, 1, n))
          /\ Range(SubSeq(a, 1, n)) = {a[i] : i \in 1..n}
      BY <3>1, PartProps
    <3> QED BY <2>6, <3>2
  <2>8. Range(a) = {a[i] : i \in 1..Len(a)}
    BY <2>2, RangeEquality DEF a
  <2>9. Range(g) \subseteq Range(a)
    BY <2>5, <2>7, <2>8 DEF a
  <2>10. d \o g \in Seq(Node) /\ Inj(d \o g) /\ Range(d \o g) = Range(d) \cup Range(g)
    <3>1. Range(d) \cap Range(g) = {}
      BY <2>4, <2>9 DEF a
    <3> QED BY <2>1, <2>4, <2>7, <3>1, JoinProps
  <2>11. RemoveFirst(d \o g, e) = d \o g
    BY <1>1, <2>4, <2>10, RemoveFirstIs
  <2>12. Append(d \o SubSeq(a, 1, n), a[n + 1]) = d \o SubSeq(a, 1, n + 1)
    BY <2>1, <2>2, <2>5, PushPart DEF a
  <2> QED BY <2>6, <2>11, <2>12
<1> HIDE DEF sf, sl, df, f2, f3, l2, l3, d, g, h, e, x, y
<1>8. move(x, df, e) = [L \in Tag \X Kind |->
           IF L = df THEN Append(RemoveFirst(x[L], e), e) ELSE RemoveFirst(x[L], e)]
  <2>1. DOMAIN x = Tag \X Kind
    BY <1>2
  <2> QED BY <1>4, <2>1 DEF move, list_append, list_remove
<1>9. move(x, df, e) = y
  <2>1. ASSUME NEW L \in Tag \X Kind
        PROVE  (IF L = df THEN Append(RemoveFirst(x[L], e), e) ELSE RemoveFirst(x[L], e)) = y[L]
    <3>1. CASE L = sf
      BY <1>1, <1>2, <1>3, <1>4, <3>1
    <3>2. CASE L = sl
      BY <1>1, <1>2, <1>3, <1>4, <3>2
    <3>3. CASE L = df
      BY <1>2, <1>3, <1>4, <1>7, <3>3
    <3>4. CASE L # sf /\ L # sl /\ L # df
      BY <1>2, <1>3, <1>6, <3>4
    <3> QED BY <3>1, <3>2, <3>3, <3>4
  <2>2. y = [L \in Tag \X Kind |-> y[L]]
    BY <1>3
  <2> QED BY <1>8, <2>1, <2>2
<1> QED BY <1>9 DEF x, y, df, e

(* The whole state.                                                        *)
LEMMA MoveOneMore ==
  ASSUME NEW src \in Tag, NEW dst \in Tag, src # dst, CoreTypeOK, LinkedOnce,
         NEW n \in 0..(Len(free(src)) + Len(lru(src)) - 1)
  PROVE  preempt_assign(src, dst, Moved(src, dst, n, Evicted(src, n)))
           = Moved(src, dst, n + 1, Evicted(src, n + 1))
<1> DEFINE v == Evicted(src, n)
           w == Evicted(src, n + 1)
           e == Available(src)[n + 1]
           f2 == SubSeq(free(src), n + 1, Len(free(src)))
           l2 == SubSeq(lru(src), v + 1, Len(lru(src)))
           x == Moved(src, dst, n, v)
           y == Moved(src, dst, n + 1, w)
           L3 == move(x.list, <<dst, "free">>, e)
           S3 == IF f2 = <<>> THEN [x.size EXCEPT ![src] = @ - 1] ELSE x.size
           C3 == [[x.capacity EXCEPT ![src] = @ - 1] EXCEPT ![dst] = @ + 1]
           T3 == IF f2 = <<>> THEN [x.table EXCEPT ![key[e]] = Nil] ELSE x.table
<1>0. Gives(src, n, v, w)
  BY NextGiven
<1>1. /\ f2 # <<>> \/ l2 # <<>>
      /\ e = IF f2 # <<>> THEN Head(f2) ELSE Head(l2)
  BY <1>0 DEF Gives
<1>2. /\ w \in Nat /\ v \in Nat /\ w = (IF f2 = <<>> THEN v + 1 ELSE v)
      /\ f2 = <<>> => w \in 1..Len(lru(src)) /\ lru(src)[w] = e
  BY <1>0 DEF Gives
<1>3. x.list[<<src, "free">>] = f2 /\ x.list[<<src, "lru">>] = l2
  <2>1. <<src, "free">> # <<src, "lru">> /\ <<src, "free">> \in Tag \X Kind /\ <<src, "lru">> \in Tag \X Kind
    BY DEF Kind
  <2>2. x.list = MovedTo(src, dst, n, v)
    BY MovedLists
  <2> HIDE DEF x
  <2> QED BY <2>1, <2>2 DEF MovedTo
<1>4. y = [list |-> y.list, size |-> y.size, capacity |-> y.capacity, table |-> y.table]
  BY DEF Moved
<1>5. /\ x.size = [size EXCEPT ![src] = @ - v] /\ y.size = [size EXCEPT ![src] = @ - w]
      /\ x.capacity = [capacity EXCEPT ![src] = @ - n, ![dst] = @ + n]
      /\ y.capacity = [capacity EXCEPT ![src] = @ - (n + 1), ![dst] = @ + (n + 1)]
      /\ x.table = [k \in Key |-> IF k \in EvictedKeys(src, v) THEN Nil ELSE table[k]]
      /\ y.table = [k \in Key |-> IF k \in EvictedKeys(src, w) THEN Nil ELSE table[k]]
  BY DEF Moved
<1>6. L3 = y.list
  BY MovedListsStep
<1> HIDE DEF x, y, f2, l2, e, v, w
<1>7. S3 = y.size
  <2>1. size \in [Tag -> Int]
    BY DEF CoreTypeOK
  <2>2. CASE f2 = <<>>
    <3>1. S3 = [size EXCEPT ![src] = (size[src] - v) - 1]
      BY <1>5, <2>1, <2>2
    <3>2. (size[src] - v) - 1 = size[src] - w
      BY <1>2, <2>1, <2>2
    <3> QED BY <1>5, <3>1, <3>2
  <2>3. CASE f2 # <<>>
    BY <1>2, <1>5, <2>3
  <2> QED BY <2>2, <2>3
<1>8. C3 = y.capacity
  <2>1. capacity \in [Tag -> Int] /\ n \in Int
    BY DEF CoreTypeOK
  <2>2. C3 = [u \in Tag |-> IF u = src THEN (capacity[src] - n) - 1
                            ELSE IF u = dst THEN (capacity[dst] + n) + 1 ELSE capacity[u]]
    BY <1>5, <2>1
  <2>3. y.capacity = [u \in Tag |-> IF u = src THEN capacity[src] - (n + 1)
                            ELSE IF u = dst THEN capacity[dst] + (n + 1) ELSE capacity[u]]
    BY <1>5, <2>1
  <2>4. (capacity[src] - n) - 1 = capacity[src] - (n + 1) /\ (capacity[dst] + n) + 1 = capacity[dst] + (n + 1)
    BY <2>1
  <2> HIDE DEF C3
  <2> QED BY <2>2, <2>3, <2>4
<1>9. T3 = y.table
  <2>1. CASE f2 = <<>>
    <3>1. EvictedKeys(src, w) = EvictedKeys(src, v) \cup {key[e]}
      <4>1. w = v + 1 /\ v \in Nat /\ lru(src)[w] = e
        BY <1>2, <2>1
      <4>2. 1..w = (1..v) \cup {w}
        BY <4>1
      <4>3. EvictedKeys(src, w) = {key[lru(src)[i]] : i \in (1..v) \cup {w}}
        BY <4>2 DEF EvictedKeys
      <4> QED BY <4>1, <4>3 DEF EvictedKeys
    <3>2. T3 = [k \in Key |-> IF k = key[e] THEN Nil ELSE x.table[k]]
      BY <1>5, <2>1
    <3> HIDE DEF T3
    <3> QED BY <1>5, <3>1, <3>2
  <2>2. CASE f2 # <<>>
    BY <1>2, <1>5, <2>2
  <2> QED BY <2>1, <2>2
<1>10. preempt_assign(src, dst, x) = [list |-> L3, size |-> S3, capacity |-> C3, table |-> T3]
  BY <1>1, <1>3 DEF preempt_assign
<1> HIDE DEF L3, S3, C3, T3
<1>11. preempt_assign(src, dst, x) = y
  BY <1>4, <1>6, <1>7, <1>8, <1>9, <1>10
<1> QED BY <1>11 DEF x, y, v, w

(* Counting on modulo k.                                                   *)
LEMMA NextRemainder ==
  ASSUME NEW n \in Nat, NEW k \in Nat \ {0}
  PROVE  /\ n % k \in 0..(k - 1)
         /\ (n + 1) % k = IF (n % k) + 1 = k THEN 0 ELSE (n % k) + 1
<1> DEFINE q == n \div k
           r == n % k
           p == (n + 1) \div k
           s == (n + 1) % k
<1>1. q \in Int /\ r \in 0..(k - 1) /\ n = k * q + r
  OBVIOUS
<1>2. p \in Int /\ s \in 0..(k - 1) /\ n + 1 = k * p + s
  OBVIOUS
<1> HIDE DEF q, r, p, s
<1>3. k * p - k * q = k * (p - q) /\ k * (p - q) = r + 1 - s
  BY <1>1, <1>2
<1> DEFINE d == p - q
<1>4. d \in Int /\ k * d = r + 1 - s
  BY <1>1, <1>2, <1>3
<1> HIDE DEF d
<1>5. d = 0 \/ d = 1
  <2>1. ASSUME d >= 2 PROVE FALSE
    <3>1. k * d >= k * 2
      BY <1>4, <2>1
    <3> QED BY <1>1, <1>2, <1>4, <3>1
  <2>2. ASSUME d <= -1 PROVE FALSE
    <3>1. k * d <= k * (-1)
      BY <1>4, <2>2
    <3> QED BY <1>1, <1>2, <1>4, <3>1
  <2> QED BY <1>4, <2>1, <2>2
<1>6. CASE d = 0
  <2>1. k * d = 0
    BY <1>6
  <2> QED BY <1>1, <1>2, <1>4, <2>1 DEF r, s
<1>7. CASE d = 1
  <2>1. k * d = k
    BY <1>7
  <2> QED BY <1>1, <1>2, <1>4, <2>1 DEF r, s
<1> QED BY <1>5, <1>6, <1>7

(* The nodes that rotate: the free ones, or the one taken from the LRU     *)
(* list (v = 1) when there were none.                                      *)
Rotating(t, v) == SubSeq(Available(t), 1, Len(free(t)) + v)

(* The lists once n slots went from t to itself.                           *)
RotatedTo(t, n, v) ==
  LET f == Rotating(t, v)
      r == IF f = <<>> THEN 0 ELSE n % Len(f)
  IN [L \in Tag \X Kind |->
        IF L = <<t, "free">> THEN Rotation(f, r)
        ELSE IF L = <<t, "lru">> THEN SubSeq(lru(t), v + 1, Len(lru(t)))
        ELSE list[L]]

LEMMA RotatedIs ==
  ASSUME NEW t \in Tag, CoreTypeOK, NEW n, NEW v
  PROVE  /\ Rotated(t, n, v).list = RotatedTo(t, n, v)
         /\ Rotated(t, n, v).size = [size EXCEPT ![t] = @ - v]
         /\ Rotated(t, n, v).capacity = capacity
         /\ Rotated(t, n, v).table =
              [k \in Key |-> IF k \in EvictedKeys(t, v) THEN Nil ELSE table[k]]
         /\ Rotated(t, n, v) = [list |-> Rotated(t, n, v).list, size |-> Rotated(t, n, v).size,
                                capacity |-> Rotated(t, n, v).capacity,
                                table |-> Rotated(t, n, v).table]
<1> DEFINE sf == <<t, "free">>
           sl == <<t, "lru">>
           f == Rotating(t, v)
           r == IF f = <<>> THEN 0 ELSE n % Len(f)
           g == SubSeq(f, r + 1, Len(f)) \o SubSeq(f, 1, r)
           b == SubSeq(lru(t), v + 1, Len(lru(t)))
           x == Rotated(t, n, v)
<1>1. sf # sl /\ sf \in Tag \X Kind /\ sl \in Tag \X Kind
  BY DEF Kind
<1>2. DOMAIN list = Tag \X Kind /\ list[sl] = lru(t)
  BY SMTT(60) DEF CoreTypeOK, lru
<1>3. /\ x.list = [list EXCEPT ![sf] = g, ![sl] = SubSeq(@, v + 1, Len(@))]
      /\ x.size = [size EXCEPT ![t] = @ - v] /\ x.capacity = capacity
      /\ x.table = [k \in Key |-> IF k \in EvictedKeys(t, v) THEN Nil ELSE table[k]]
      /\ x = [list |-> x.list, size |-> x.size, capacity |-> x.capacity, table |-> x.table]
  BY DEF Rotated, Rotating
<1>4. g = Rotation(f, r)
  BY DEF Rotation
<1> HIDE DEF sf, sl, g, x
<1>5. x.list = [list EXCEPT ![sf] = g, ![sl] = b]
  BY <1>1, <1>2, <1>3
<1> HIDE DEF b
<1>6. x.list = [L \in Tag \X Kind |-> IF L = sf THEN g ELSE IF L = sl THEN b ELSE list[L]]
  BY <1>1, <1>2, <1>5
<1>7. x.list = RotatedTo(t, n, v)
  BY <1>4, <1>6 DEF RotatedTo, sf, sl, b
<1> QED BY <1>3, <1>7 DEF x

(* What Rotating(t, v) is, and which list its nodes are on.                *)
RotatingIs(t, v) ==
  LET f == Rotating(t, v)
  IN /\ f \in Seq(Node) /\ Inj(f) /\ Len(f) = Len(free(t)) + v
     /\ v = 0 => f = free(t) /\ SubSeq(lru(t), v + 1, Len(lru(t))) = lru(t)
     /\ v = 1 => /\ f = <<lru(t)[1]>>
                 /\ SubSeq(lru(t), v + 1, Len(lru(t))) = RemoveFirst(lru(t), lru(t)[1])
     /\ \A e \in Range(f) : /\ e \in Node
                            /\ RemoveFirst(SubSeq(lru(t), v + 1, Len(lru(t))), e)
                                 = SubSeq(lru(t), v + 1, Len(lru(t)))
                            /\ \A L \in Tag \X Kind :
                                 L # <<t, "free">> /\ L # <<t, "lru">> =>
                                   RemoveFirst(list[L], e) = list[L]

LEMMA RotatingProps ==
  ASSUME NEW t \in Tag, CoreTypeOK, LinkedOnce, NEW v \in 0..1,
         v = 1 => free(t) = <<>> /\ lru(t) # <<>>
  PROVE  RotatingIs(t, v)
<1> DEFINE F == free(t)
           l == lru(t)
           f == Rotating(t, v)
           l2 == SubSeq(l, v + 1, Len(l))
           sf == <<t, "free">>
           sl == <<t, "lru">>
<1>1. Once(list) /\ list \in Lists /\ sf \in Tag \X Kind /\ sl \in Tag \X Kind /\ sf # sl
  BY OnceByPlaces DEF CoreTypeOK, Lists, LinkedOnce, Kind
<1>2. /\ F \in Seq(Node) /\ l \in Seq(Node) /\ Inj(F) /\ Inj(l)
      /\ Range(F) \cap Range(l) = {} /\ F = list[sf] /\ l = list[sl]
  BY <1>1 DEF Once, Lists, free, lru
<1>3. f = SubSeq(F \o l, 1, Len(F) + v)
  BY DEF Rotating, Available
<1>4. v = 1 => F = <<>> /\ l # <<>>
  OBVIOUS
<1> HIDE DEF F, l, f, sf, sl
<1>5. Len(F) \in Nat /\ Len(l) \in Nat /\ (l # <<>> => Len(l) > 0)
  BY <1>2
<1>6. CASE v = 0
  <2>1. f = F
    <3>1. /\ F \o l \in Seq(Node) /\ Len(F \o l) = Len(F) + Len(l)
          /\ \A i \in 1..Len(F) + Len(l) : (F \o l)[i] = IF i <= Len(F) THEN F[i] ELSE l[i - Len(F)]
      <4>1. F \in Seq(Node) /\ l \in Seq(Node)
        BY <1>2
      <4> QED BY <4>1, ConcatProperties
    <3> DEFINE a == F \o l
    <3> HIDE DEF a
    <3>2. a \in Seq(Node) /\ Len(F) \in 0..Len(a) /\ Len(F) + v = Len(F)
          /\ \A i \in 1..Len(F) : a[i] = F[i]
      BY <1>5, <1>6, <3>1 DEF a
    <3>3. /\ SubSeq(a, 1, Len(F)) \in Seq(Node) /\ Len(SubSeq(a, 1, Len(F))) = Len(F)
          /\ \A i \in 1..Len(F) : SubSeq(a, 1, Len(F))[i] = a[i]
      BY <1>5, <3>2, SubSeqProperties
    <3>4. f = SubSeq(a, 1, Len(F))
      BY <1>3, <3>2 DEF a
    <3> QED BY <1>2, <3>2, <3>3, <3>4, SeqEqual
  <2>2. l2 = l
    BY <1>2, <1>6
  <2>3. ASSUME NEW e \in Range(f) PROVE e \in Node /\ e \in Range(list[sf]) /\ RemoveFirst(l2, e) = l2
    <3>1. e \in Range(F) /\ e \notin Range(l)
      BY <1>2, <2>1
    <3>2. e \in Node
      BY <1>2, <3>1, EmptyRange
    <3> QED BY <1>2, <2>2, <3>1, <3>2, RemoveFirstIs
  <2>4. ASSUME NEW e \in Range(f), NEW L \in Tag \X Kind, L # sf, L # sl
        PROVE  RemoveFirst(list[L], e) = list[L]
    BY <1>1, <2>3, <2>4, OffOther
  <2>5. f \in Seq(Node) /\ Inj(f) /\ Len(f) = Len(F) + v /\ v # 1
    BY <1>2, <1>5, <1>6, <2>1
  <2> HIDE DEF l2
  <2> QED BY <2>1, <2>2, <2>3, <2>4, <2>5 DEF RotatingIs, f, F, l, l2, sf, sl
<1>7. CASE v = 1
  <2> DEFINE h == l[1]
  <2>1. F = <<>> /\ 1 \in 1..Len(l) /\ Len(F) = 0 /\ h \in Node
    BY <1>2, <1>4, <1>5, <1>7
  <2>2. f = <<h>>
    <3>1. F \o l = l
      BY <1>2, <2>1
    <3>2. f = SubSeq(l, 1, 1)
      BY <1>3, <1>7, <2>1, <3>1
    <3>3. /\ SubSeq(l, 1, 1) \in Seq(Node) /\ Len(SubSeq(l, 1, 1)) = 1
          /\ \A i \in 1..1 : SubSeq(l, 1, 1)[i] = l[i]
      BY <1>2, <2>1, SubSeqProperties
    <3> DEFINE x == <<h>>
    <3>4. x \in Seq(Node) /\ Len(x) = 1 /\ x[1] = h
      BY <2>1
    <3> HIDE DEF x, h
    <3>5. f \in Seq(Node) /\ Len(f) = 1 /\ \A i \in 1..1 : f[i] = x[i]
      BY <3>2, <3>3, <3>4 DEF h
    <3>6. f = x
      BY <3>4, <3>5, SeqEqual
    <3> QED BY <3>6 DEF x
  <2>3. l2 = RemoveFirst(l, h)
    <3>1. SubSeq(l, 1, Len(l)) = l
      BY <1>2
    <3>2. RemoveFirst(SubSeq(l, 1, Len(l)), l[1]) = SubSeq(l, 1 + 1, Len(l))
      BY ZenonT(60), <1>2, <2>1, PopPart
    <3> QED BY <1>7, <3>1, <3>2
  <2>4. /\ RemoveFirst(l, h) \in Seq(Node) /\ Inj(RemoveFirst(l, h))
        /\ Range(RemoveFirst(l, h)) = Range(l) \ {h}
    BY SMTT(60), <1>2, RemoveFirstProps
  <2>5. h \in Range(l) /\ Range(f) = {h} /\ f \in Seq(Node) /\ Inj(f) /\ Len(f) = 1
    <3>1. Range(l) = {l[i] : i \in 1..Len(l)}
      BY <1>2, RangeEquality
    <3>2. f \in Seq(Node) /\ Len(f) = 1 /\ f[1] = h
      BY <2>1, <2>2
    <3> HIDE DEF f, h
    <3>3. Range(f) = {f[i] : i \in 1..1}
      BY <3>2, RangeEquality
    <3>4. h \in Range(l)
      BY <2>1, <3>1 DEF h
    <3> QED BY <3>2, <3>3, <3>4 DEF Inj
  <2> HIDE DEF h, l2
  <2>6. RemoveFirst(l2, h) = l2
    BY <2>3, <2>4, RemoveFirstIs
  <2>7. ASSUME NEW L \in Tag \X Kind, L # sf, L # sl PROVE RemoveFirst(list[L], h) = list[L]
    BY <1>1, <1>2, <2>5, <2>7, OffOther
  <2> QED BY <1>7, <2>1, <2>2, <2>3, <2>5, <2>6, <2>7 DEF RotatingIs, f, F, l, l2, sf, sl, h
<1> QED BY <1>6, <1>7

(* One more slot when there is a node to rotate.                           *)
LEMMA RotateOneMore ==
  ASSUME NEW t \in Tag, CoreTypeOK, LinkedOnce, NEW n \in Nat, NEW v \in 0..1,
         v = 1 => free(t) = <<>> /\ lru(t) # <<>>, Rotating(t, v) # <<>>
  PROVE  preempt_assign(t, t, Rotated(t, n, v)) = Rotated(t, n + 1, v)
<1> DEFINE sf == <<t, "free">>
           sl == <<t, "lru">>
           f == Rotating(t, v)
           k == Len(f)
           r == n % k
           q == (n + 1) % k
           e == f[r + 1]
           l2 == SubSeq(lru(t), v + 1, Len(lru(t)))
           x == Rotated(t, n, v)
           y == Rotated(t, n + 1, v)
           L3 == move(x.list, sf, e)
           C3 == [[x.capacity EXCEPT ![t] = @ - 1] EXCEPT ![t] = @ + 1]
<1>1. /\ x.list = RotatedTo(t, n, v) /\ y.list = RotatedTo(t, n + 1, v)
      /\ x.size = y.size /\ x.capacity = capacity /\ y.capacity = capacity /\ x.table = y.table
      /\ y = [list |-> y.list, size |-> y.size, capacity |-> y.capacity, table |-> y.table]
  <2>1. /\ x.list = RotatedTo(t, n, v)
        /\ x.size = [size EXCEPT ![t] = @ - v]
        /\ x.capacity = capacity
        /\ x.table = [j \in Key |-> IF j \in EvictedKeys(t, v) THEN Nil ELSE table[j]]
    BY RotatedIs
  <2>2. /\ y.list = RotatedTo(t, n + 1, v)
        /\ y.size = [size EXCEPT ![t] = @ - v]
        /\ y.capacity = capacity
        /\ y.table = [j \in Key |-> IF j \in EvictedKeys(t, v) THEN Nil ELSE table[j]]
        /\ y = [list |-> y.list, size |-> y.size, capacity |-> y.capacity, table |-> y.table]
    BY RotatedIs
  <2> HIDE DEF x, y
  <2> QED BY <2>1, <2>2
<1>2. RotatingIs(t, v)
  BY RotatingProps
<1>3. f \in Seq(Node) /\ Inj(f) /\ f # <<>>
  BY <1>2 DEF RotatingIs
<1>4. sf # sl /\ sf \in Tag \X Kind /\ sl \in Tag \X Kind
  BY DEF Kind
<1> HIDE DEF x, y, f
<1>5. k \in Nat \ {0}
  BY <1>3
<1>6. r \in 0..(k - 1) /\ q = IF r + 1 = k THEN 0 ELSE r + 1
  BY <1>5, NextRemainder
<1>7. /\ x.list = [L \in Tag \X Kind |-> IF L = sf THEN Rotation(f, r)
                                         ELSE IF L = sl THEN l2 ELSE list[L]]
      /\ y.list = [L \in Tag \X Kind |-> IF L = sf THEN Rotation(f, q)
                                         ELSE IF L = sl THEN l2 ELSE list[L]]
  BY <1>1, <1>3 DEF RotatedTo, f
<1> DEFINE a == Rotation(f, r)
           b == Rotation(f, q)
<1> HIDE DEF r, q, k
<1>8. a # <<>> /\ Head(a) = e /\ Append(RemoveFirst(a, e), e) = b
  <2>1. r \in 0..(Len(f) - 1)
    BY <1>6 DEF k
  <2> HIDE DEF k
  <2>2. /\ Rotation(f, r) # <<>> /\ Head(Rotation(f, r)) = f[r + 1]
        /\ Append(RemoveFirst(Rotation(f, r), f[r + 1]), f[r + 1])
             = Rotation(f, IF r + 1 = Len(f) THEN 0 ELSE r + 1)
    BY <1>3, <2>1, RotateOne
  <2> QED BY <1>6, <2>2 DEF k
<1>9. e \in Range(f)
  <2>1. Range(f) = {f[i] : i \in 1..Len(f)}
    BY <1>3, RangeEquality
  <2>2. r + 1 \in 1..Len(f)
    BY <1>5, <1>6 DEF k
  <2> QED BY <2>1, <2>2
<1>10. /\ e \in Node /\ RemoveFirst(l2, e) = l2
       /\ \A L \in Tag \X Kind : L # sf /\ L # sl => RemoveFirst(list[L], e) = list[L]
  BY <1>2, <1>9 DEF RotatingIs, f
<1> HIDE DEF a, b, e, l2, sf, sl
<1>11. L3 = y.list
  <2>1. /\ x.list = [L \in Tag \X Kind |-> IF L = sf THEN a ELSE IF L = sl THEN l2 ELSE list[L]]
        /\ y.list = [L \in Tag \X Kind |-> IF L = sf THEN b ELSE IF L = sl THEN l2 ELSE list[L]]
    BY <1>7 DEF a, b
  <2> DEFINE xl == x.list
             yl == y.list
  <2> HIDE DEF xl, yl
  <2>2. DOMAIN xl = Tag \X Kind
    BY <2>1 DEF xl
  <2>3. move(xl, sf, e) = [L \in Tag \X Kind |->
           IF L = sf THEN Append(RemoveFirst(xl[L], e), e) ELSE RemoveFirst(xl[L], e)]
    BY <1>4, <2>2 DEF move, list_append, list_remove
  <2>4. ASSUME NEW L \in Tag \X Kind
        PROVE  (IF L = sf THEN Append(RemoveFirst(xl[L], e), e) ELSE RemoveFirst(xl[L], e)) = yl[L]
    <3>1. CASE L = sf
      BY <1>8, <2>1, <3>1 DEF xl, yl
    <3>2. CASE L = sl
      BY <1>4, <1>10, <2>1, <3>2 DEF xl, yl
    <3>3. CASE L # sf /\ L # sl
      BY <1>10, <2>1, <3>3 DEF xl, yl
    <3> QED BY <3>1, <3>2, <3>3
  <2>5. yl = [L \in Tag \X Kind |-> yl[L]]
    BY <2>1 DEF yl
  <2>6. move(xl, sf, e) = yl
    BY <2>3, <2>4, <2>5
  <2> QED BY <2>6 DEF xl, yl
<1>12. C3 = capacity
  <2>1. capacity \in [Tag -> Int] /\ (capacity[t] - 1) + 1 = capacity[t]
    BY DEF CoreTypeOK
  <2>2. C3 = [u \in Tag |-> IF u = t THEN (capacity[t] - 1) + 1 ELSE capacity[u]]
    BY <1>1, <2>1
  <2> HIDE DEF C3
  <2> QED BY <2>1, <2>2
<1>13. x.list[sf] = a /\ x.list[sf] # <<>>
  BY <1>4, <1>7, <1>8 DEF a
<1>14. preempt_assign(t, t, x) = [list |-> L3, size |-> x.size, capacity |-> C3, table |-> x.table]
  <2>1. x.list[<<t, "free">>] # <<>> /\ Head(x.list[<<t, "free">>]) = e
        /\ L3 = move(x.list, <<t, "free">>, e)
    BY <1>8, <1>13 DEF sf
  <2> HIDE DEF L3
  <2> QED BY <2>1 DEF preempt_assign
<1> HIDE DEF L3, C3
<1>15. preempt_assign(t, t, x) = y
  BY <1>1, <1>11, <1>12, <1>14
<1> QED BY <1>15 DEF x, y

(* The first slot when there is no free node: one node leaves the LRU list. *)
LEMMA RotateFirst ==
  ASSUME NEW t \in Tag, CoreTypeOK, LinkedOnce, free(t) = <<>>, lru(t) # <<>>
  PROVE  preempt_assign(t, t, Rotated(t, 0, 0)) = Rotated(t, 1, 1)
<1> DEFINE sf == <<t, "free">>
           sl == <<t, "lru">>
           h == lru(t)[1]
           f == Rotating(t, 1)
           l2 == SubSeq(lru(t), 1 + 1, Len(lru(t)))
           x == Rotated(t, 0, 0)
           y == Rotated(t, 1, 1)
           L3 == move(x.list, sf, h)
           S3 == [x.size EXCEPT ![t] = @ - 1]
           C3 == [[x.capacity EXCEPT ![t] = @ - 1] EXCEPT ![t] = @ + 1]
           T3 == [x.table EXCEPT ![key[h]] = Nil]
<1>1. /\ x.list = RotatedTo(t, 0, 0)
      /\ x.size = [size EXCEPT ![t] = @ - 0]
      /\ x.capacity = capacity
      /\ x.table = [j \in Key |-> IF j \in EvictedKeys(t, 0) THEN Nil ELSE table[j]]
  BY RotatedIs
<1>2. /\ y.list = RotatedTo(t, 1, 1)
      /\ y.size = [size EXCEPT ![t] = @ - 1]
      /\ y.capacity = capacity
      /\ y.table = [j \in Key |-> IF j \in EvictedKeys(t, 1) THEN Nil ELSE table[j]]
      /\ y = [list |-> y.list, size |-> y.size, capacity |-> y.capacity, table |-> y.table]
  BY RotatedIs
<1>3. sf # sl /\ sf \in Tag \X Kind /\ sl \in Tag \X Kind
  BY DEF Kind
<1>4. lru(t) = list[sl] /\ free(t) = list[sf] /\ lru(t) \in Seq(Node) /\ h \in Range(list[sl])
  <2>1. lru(t) = list[sl] /\ free(t) = list[sf] /\ lru(t) \in Seq(Node)
    BY <1>3 DEF CoreTypeOK, lru, free
  <2> DEFINE l == lru(t)
  <2>2. l \in Seq(Node) /\ l # <<>>
    BY <2>1
  <2> HIDE DEF l
  <2>3. Range(l) = {l[i] : i \in 1..Len(l)}
    BY <2>2, RangeEquality
  <2>4. 1 \in 1..Len(l)
    BY <2>2
  <2>5. l[1] \in Range(l)
    BY <2>3, <2>4
  <2> QED BY <2>1, <2>5 DEF l
<1>5. RotatingIs(t, 0) /\ RotatingIs(t, 1)
  BY RotatingProps
<1>6. Rotating(t, 0) = <<>> /\ SubSeq(lru(t), 0 + 1, Len(lru(t))) = lru(t)
  BY <1>5 DEF RotatingIs
<1>7. f = <<h>> /\ l2 = RemoveFirst(lru(t), h) /\ Len(f) = 1
  BY <1>5 DEF RotatingIs
<1>8. x.list = list
  <2>1. Rotation(Rotating(t, 0), 0) = <<>>
    BY <1>6 DEF Rotation
  <2>2. RotatedTo(t, 0, 0) = [L \in Tag \X Kind |-> list[L]]
    <3>1. RotatedTo(t, 0, 0) = [L \in Tag \X Kind |->
             IF L = sf THEN <<>> ELSE IF L = sl THEN lru(t) ELSE list[L]]
      BY <1>6, <2>1 DEF RotatedTo
    <3> HIDE DEF sf, sl
    <3> QED BY <1>3, <1>4, <3>1
  <2> QED BY <1>1, <2>2 DEF CoreTypeOK
<1>9. y.list = [L \in Tag \X Kind |-> IF L = sf THEN <<h>> ELSE IF L = sl THEN l2 ELSE list[L]]
  <2>1. 1 % 1 = 0 /\ f # <<>> /\ f = <<h>>
    <3>1. 1 % 1 = 0
      <4>1. 1 \in Nat /\ 1 \in Nat \ {0} /\ 0..(1 - 1) = {0}
        OBVIOUS
      <4> QED BY <4>1, NextRemainder
    <3>2. f = <<h>>
      BY <1>7
    <3> HIDE DEF f, h
    <3>3. f # <<>>
      BY <3>2
    <3> QED BY <3>1, <3>2, <3>3
  <2>2. Rotation(f, 1 % 1) = <<h>>
    <3>1. f \in Seq(Node)
      BY <1>5 DEF RotatingIs
    <3> HIDE DEF f
    <3>2. SubSeq(f, 0 + 1, Len(f)) = f /\ SubSeq(f, 1, 0) = <<>>
      BY <3>1
    <3>3. f \o <<>> = f
      BY <3>1
    <3> QED BY <2>1, <3>2, <3>3 DEF Rotation
  <2>3. RotatedTo(t, 1, 1) = [L \in Tag \X Kind |->
           IF L = sf THEN Rotation(f, 1 % 1) ELSE IF L = sl THEN l2 ELSE list[L]]
    <3>1. f # <<>> /\ Len(f) = 1
      BY <1>7, <2>1
    <3> HIDE DEF f
    <3>2. (IF f = <<>> THEN 0 ELSE 1 % Len(f)) = 1 % 1
      BY <3>1
    <3> QED BY <3>1, <3>2 DEF RotatedTo, f
  <2> HIDE DEF f, l2, h, y
  <2> QED BY <1>2, <2>2, <2>3
<1> HIDE DEF x, y, f, l2, h, sf, sl
<1>10. L3 = y.list
  <2>1. DOMAIN list = Tag \X Kind
    BY DEF CoreTypeOK
  <2>2. L3 = [L \in Tag \X Kind |->
           IF L = sf THEN Append(RemoveFirst(list[L], h), h) ELSE RemoveFirst(list[L], h)]
    BY <1>3, <1>8, <2>1 DEF move, list_append, list_remove
  <2>3. ASSUME NEW L \in Tag \X Kind, L # sl PROVE RemoveFirst(list[L], h) = list[L]
    BY <1>3, <1>4, <2>3, OffOther
  <2>4. Append(RemoveFirst(list[sf], h), h) = <<h>>
    <3>1. RemoveFirst(list[sf], h) = list[sf] /\ list[sf] = <<>>
      BY <1>3, <1>4, <2>3
    <3>2. Append(<<>>, h) = <<h>>
      OBVIOUS
    <3> QED BY <3>1, <3>2
  <2>5. RemoveFirst(list[sl], h) = l2
    BY <1>4, <1>7
  <2> HIDE DEF L3
  <2> DEFINE yl == y.list
  <2>6. yl = [L \in Tag \X Kind |-> IF L = sf THEN <<h>> ELSE IF L = sl THEN l2 ELSE list[L]]
    BY <1>9
  <2> HIDE DEF yl
  <2>7. ASSUME NEW L \in Tag \X Kind
        PROVE  (IF L = sf THEN Append(RemoveFirst(list[L], h), h) ELSE RemoveFirst(list[L], h)) = yl[L]
    <3>1. CASE L = sf
      BY <2>4, <2>6, <3>1
    <3>2. CASE L = sl
      BY <1>3, <2>5, <2>6, <3>2
    <3>3. CASE L # sf /\ L # sl
      BY <2>3, <2>6, <3>3
    <3> QED BY <3>1, <3>2, <3>3
  <2>8. yl = [L \in Tag \X Kind |-> yl[L]]
    BY <2>6
  <2>9. L3 = yl
    BY <2>2, <2>7, <2>8
  <2> QED BY <2>9 DEF yl
<1>11. S3 = y.size
  <2>1. size \in [Tag -> Int]
    BY DEF CoreTypeOK
  <2> QED BY <1>1, <1>2, <2>1
<1>12. C3 = y.capacity
  <2>1. capacity \in [Tag -> Int] /\ (capacity[t] - 1) + 1 = capacity[t]
    BY DEF CoreTypeOK
  <2>2. C3 = [u \in Tag |-> IF u = t THEN (capacity[t] - 1) + 1 ELSE capacity[u]]
    BY <1>1, <2>1
  <2> HIDE DEF C3
  <2> QED BY <1>2, <2>1, <2>2
<1>13. T3 = y.table
  <2>1. EvictedKeys(t, 0) = {} /\ EvictedKeys(t, 1) = {key[h]}
    BY DEF EvictedKeys, h
  <2>2. T3 = [j \in Key |-> IF j = key[h] THEN Nil ELSE table[j]]
    BY <1>1, <2>1
  <2> HIDE DEF T3
  <2> QED BY <1>2, <2>1, <2>2
<1>14. preempt_assign(t, t, x) = [list |-> L3, size |-> S3, capacity |-> C3, table |-> T3]
  <2>1. /\ x.list[<<t, "free">>] = <<>> /\ x.list[<<t, "lru">>] # <<>>
        /\ Head(x.list[<<t, "lru">>]) = h /\ L3 = move(x.list, <<t, "free">>, h)
    BY <1>4, <1>8 DEF sf, sl, h
  <2> HIDE DEF L3
  <2> QED BY <2>1 DEF preempt_assign
<1> HIDE DEF L3, S3, C3, T3
<1>15. preempt_assign(t, t, x) = y
  BY <1>2, <1>10, <1>11, <1>12, <1>13, <1>14
<1> QED BY <1>15 DEF x, y

(* The state the loop starts from.                                        *)
Here == [list |-> list, size |-> size, capacity |-> capacity, table |-> table]

(* No slot asked for: nothing changes.                                     *)
LEMMA RelocateNone ==
  ASSUME NEW src \in Tag, NEW dst \in Tag, CoreTypeOK, LinkedOnce
  PROVE  Relocated(src, dst, 0) = Here
<1> DEFINE F == Len(free(src))
           M == Len(lru(src))
           m == MoveCount(src, 0)
           v == Evicted(src, m)
           sf == <<src, "free">>
           sl == <<src, "lru">>
           df == <<dst, "free">>
<1>1. /\ free(src) \in Seq(Node) /\ lru(src) \in Seq(Node) /\ free(dst) \in Seq(Node)
      /\ free(src) = list[sf] /\ lru(src) = list[sl] /\ free(dst) = list[df]
      /\ F \in Nat /\ M \in Nat
  BY DEF CoreTypeOK, free, lru, Kind
<1>2. m = 0 /\ v = 0
  <2>1. m \in 0..(F + M) /\ m \in Nat /\ (m <= F => v = 0)
    BY MoveCounts
  <2>2. Len(Available(src)) = F + M
    BY <1>1, ConcatProperties DEF Available
  <2>3. m = 0
    <3> DEFINE c == Len(Available(src))
    <3>1. m = IF 0 < c THEN 0 ELSE c
      BY DEF MoveCount
    <3>2. c \in Nat
      <4>1. Available(src) \in Seq(Node)
        BY <1>1, ConcatProperties DEF Available
      <4> QED BY <4>1
    <3> HIDE DEF m, c
    <3> QED BY <3>1, <3>2
  <2> QED BY <1>1, <2>1, <2>3
<1>3. Relocated(src, dst, 0) =
        IF src # dst THEN Moved(src, dst, 0, 0) ELSE Rotated(src, 0, 0)
  <2>1. Relocated(src, dst, 0) =
          IF src # dst THEN Moved(src, dst, m, v)
          ELSE Rotated(src, 0, IF free(src) = <<>> /\ v > 0 THEN 1 ELSE 0)
    BY DEF Relocated, Evicted
  <2> HIDE DEF m, v
  <2> QED BY <1>2, <2>1
<1>4. /\ size \in [Tag -> Int] /\ capacity \in [Tag -> Int]
      /\ DOMAIN list = Tag \X Kind /\ list = [L \in Tag \X Kind |-> list[L]]
      /\ table = [k \in Key |-> table[k]]
  BY DEF CoreTypeOK
<1>5. EvictedKeys(src, 0) = {} /\ [k \in Key |-> IF k \in EvictedKeys(src, 0) THEN Nil ELSE table[k]] = table
  <2>1. EvictedKeys(src, 0) = {}
    BY DEF EvictedKeys
  <2> QED BY <1>4, <2>1
<1>6. \A s \in Seq(Node) : SubSeq(s, 0 + 1, Len(s)) = s /\ SubSeq(s, 1, 0) = <<>> /\ s \o <<>> = s
  OBVIOUS
<1>7. CASE src # dst
  <2> DEFINE x == Moved(src, dst, 0, 0)
  <2>1. /\ x.list = MovedTo(src, dst, 0, 0)
        /\ x.size = [size EXCEPT ![src] = @ - 0]
        /\ x.capacity = [capacity EXCEPT ![src] = @ - 0, ![dst] = @ + 0]
        /\ x.table = [k \in Key |-> IF k \in EvictedKeys(src, 0) THEN Nil ELSE table[k]]
        /\ x = [list |-> x.list, size |-> x.size, capacity |-> x.capacity, table |-> x.table]
    <3>1. x.list = MovedTo(src, dst, 0, 0)
      BY <1>7, MovedLists
    <3> QED BY <3>1 DEF Moved
  <2> HIDE DEF x
  <2>2. x.size = size /\ x.capacity = capacity /\ x.table = table
    BY <1>4, <1>5, <2>1
  <2>3. x.list = list
    <3>1. /\ SubSeq(free(src), 0 + 1, Len(free(src))) = free(src)
          /\ SubSeq(lru(src), 0 + 1, Len(lru(src))) = lru(src)
          /\ free(dst) \o SubSeq(Available(src), 1, 0) = free(dst)
      <4>1. Available(src) \in Seq(Node)
        BY <1>1, ConcatProperties DEF Available
      <4> QED BY <1>1, <1>6, <4>1
    <3>2. MovedTo(src, dst, 0, 0) = [L \in Tag \X Kind |->
            IF L = sf THEN list[sf] ELSE IF L = sl THEN list[sl] ELSE IF L = df THEN list[df] ELSE list[L]]
      BY <1>1, <3>1 DEF MovedTo
    <3> HIDE DEF sf, sl, df
    <3> QED BY ZenonT(60), <1>4, <2>1, <3>2
  <2> QED BY <1>3, <1>7, <2>1, <2>2, <2>3 DEF Here, x
<1>8. CASE src = dst
  <2> DEFINE x == Rotated(src, 0, 0)
  <2>1. /\ x.list = RotatedTo(src, 0, 0)
        /\ x.size = [size EXCEPT ![src] = @ - 0]
        /\ x.capacity = capacity
        /\ x.table = [k \in Key |-> IF k \in EvictedKeys(src, 0) THEN Nil ELSE table[k]]
        /\ x = [list |-> x.list, size |-> x.size, capacity |-> x.capacity, table |-> x.table]
    BY RotatedIs
  <2> HIDE DEF x
  <2>2. x.size = size /\ x.table = table
    BY <1>4, <1>5, <2>1
  <2>3. x.list = list
    <3>1. Rotating(src, 0) = free(src)
      <4>1. RotatingIs(src, 0)
        BY RotatingProps
      <4> QED BY <4>1 DEF RotatingIs
    <3>2. Rotation(free(src), IF free(src) = <<>> THEN 0 ELSE 0 % Len(free(src))) = free(src)
      <4> DEFINE f == free(src)
                 r == IF f = <<>> THEN 0 ELSE 0 % Len(f)
      <4>1. f \in Seq(Node)
        BY <1>1
      <4> HIDE DEF f
      <4>2. r = 0
        <5>1. CASE f = <<>>
          BY <5>1
        <5>2. CASE f # <<>>
          <6>1. Len(f) \in Nat \ {0}
            BY <4>1, <5>2
          <6>2. \A k \in Nat \ {0} : 0 % k = 0
            OBVIOUS
          <6> QED BY <5>2, <6>1, <6>2
        <5> QED BY <5>1, <5>2
      <4>3. Rotation(f, 0) = f
        BY <1>6, <4>1 DEF Rotation
      <4> HIDE DEF r
      <4>4. Rotation(f, r) = f
        BY <4>2, <4>3
      <4> QED BY <4>4 DEF f, r
    <3>3. SubSeq(lru(src), 0 + 1, Len(lru(src))) = lru(src)
      BY <1>1, <1>6
    <3>4. RotatedTo(src, 0, 0) = [L \in Tag \X Kind |->
            IF L = sf THEN free(src) ELSE IF L = sl THEN lru(src) ELSE list[L]]
      BY <3>1, <3>2, <3>3 DEF RotatedTo
    <3>5. RotatedTo(src, 0, 0) = [L \in Tag \X Kind |->
            IF L = sf THEN list[sf] ELSE IF L = sl THEN list[sl] ELSE list[L]]
      BY <1>1, <3>4
    <3> HIDE DEF sf, sl, df
    <3> QED BY <1>4, <2>1, <3>5
  <2> QED BY <1>3, <1>8, <2>1, <2>2, <2>3 DEF Here, x
<1> QED BY <1>7, <1>8

(* One slot more is one more preempt and assign.                           *)
LEMMA RelocateOneMore ==
  ASSUME NEW src \in Tag, NEW dst \in Tag, NEW n \in Nat, CoreTypeOK, LinkedOnce
  PROVE  Relocated(src, dst, n + 1) = preempt_assign(src, dst, Relocated(src, dst, n))
<1> DEFINE F == Len(free(src))
           M == Len(lru(src))
           V(c) == IF free(src) = <<>> /\ Evicted(src, c) > 0 THEN 1 ELSE 0
<1>1. /\ free(src) \in Seq(Node) /\ lru(src) \in Seq(Node)
      /\ F \in Nat /\ M \in Nat
      /\ Len(Available(src)) = F + M
      /\ free(src) = <<>> <=> F = 0
      /\ lru(src) = <<>> <=> M = 0
  <2>1. free(src) \in Seq(Node) /\ lru(src) \in Seq(Node)
    BY DEF CoreTypeOK, free, lru, Kind
  <2> QED BY <2>1, EmptyRange, ConcatProperties DEF Available
<1>2. ASSUME NEW j \in Nat
      PROVE  Relocated(src, dst, j) =
               IF src # dst THEN Moved(src, dst, MoveCount(src, j), Evicted(src, MoveCount(src, j)))
               ELSE Rotated(src, j, V(MoveCount(src, j)))
  BY DEF Relocated, Evicted
<1>3. \A j \in Nat : MoveCount(src, j) = IF j < F + M THEN j ELSE F + M
  BY <1>1 DEF MoveCount
<1>4. n + 1 \in Nat
  OBVIOUS
<1>5. CASE src # dst /\ n < F + M
  <2>1. n \in 0..(F + M - 1)
    BY <1>1, <1>5
  <2>2. MoveCount(src, n) = n /\ MoveCount(src, n + 1) = n + 1
    BY <1>1, <1>3, <1>4, <1>5
  <2>3. /\ Relocated(src, dst, n) = Moved(src, dst, n, Evicted(src, n))
        /\ Relocated(src, dst, n + 1) = Moved(src, dst, n + 1, Evicted(src, n + 1))
    BY <1>2, <1>4, <1>5, <2>2
  <2> QED BY <1>5, <2>1, <2>3, MoveOneMore
<1>6. CASE src # dst /\ ~(n < F + M)
  <2> DEFINE c == F + M
             v == Evicted(src, c)
             x == Moved(src, dst, c, v)
  <2>1. MoveCount(src, n) = c /\ MoveCount(src, n + 1) = c
    BY <1>1, <1>3, <1>4, <1>6
  <2>2. Relocated(src, dst, n) = x /\ Relocated(src, dst, n + 1) = x
    BY <1>2, <1>4, <1>6, <2>1
  <2>3. v = M
    BY <1>1 DEF Evicted
  <2>4. x.list = MovedTo(src, dst, c, v)
    BY <1>6, MovedLists
  <2>5. SubSeq(free(src), c + 1, Len(free(src))) = <<>> /\ SubSeq(lru(src), v + 1, Len(lru(src))) = <<>>
    BY <1>1, <2>3
  <2>6. <<src, "free">> \in Tag \X Kind /\ <<src, "lru">> \in Tag \X Kind /\ <<src, "free">> # <<src, "lru">>
    BY DEF Kind
  <2> HIDE DEF x, c, v
  <2>7. x.list[<<src, "free">>] = <<>> /\ x.list[<<src, "lru">>] = <<>>
    BY <2>4, <2>5, <2>6 DEF MovedTo
  <2>8. preempt_assign(src, dst, x) = x
    BY <2>7 DEF preempt_assign
  <2> QED BY <2>2, <2>8
<1>7. CASE src = dst /\ F > 0
  <2>1. ASSUME NEW j \in Nat PROVE V(MoveCount(src, j)) = 0
    BY <1>1, <1>7
  <2>2. Relocated(src, dst, n) = Rotated(src, n, 0) /\ Relocated(src, dst, n + 1) = Rotated(src, n + 1, 0)
    BY <1>2, <1>4, <1>7, <2>1
  <2>3. Rotating(src, 0) # <<>>
    <3>1. RotatingIs(src, 0)
      BY RotatingProps
    <3> QED BY <1>1, <1>7, <3>1 DEF RotatingIs
  <2>4. preempt_assign(src, src, Rotated(src, n, 0)) = Rotated(src, n + 1, 0)
    BY <2>3, RotateOneMore
  <2> QED BY <1>7, <2>2, <2>4
<1>8. CASE src = dst /\ F = 0 /\ M > 0 /\ n > 0
  <2>1. ASSUME NEW j \in Nat, j > 0 PROVE V(MoveCount(src, j)) = 1
    BY <1>1, <1>3, <1>8, <2>1 DEF Evicted
  <2>2. Relocated(src, dst, n) = Rotated(src, n, 1) /\ Relocated(src, dst, n + 1) = Rotated(src, n + 1, 1)
    BY <1>2, <1>4, <1>8, <2>1
  <2>3. Rotating(src, 1) # <<>>
    <3>1. RotatingIs(src, 1)
      BY <1>1, <1>8, RotatingProps
    <3>2. Rotating(src, 1) \in Seq(Node) /\ Len(Rotating(src, 1)) = F + 1
      BY <3>1 DEF RotatingIs
    <3> DEFINE f == Rotating(src, 1)
    <3> HIDE DEF f
    <3>3. f # <<>>
      BY <1>1, <3>2 DEF f
    <3> QED BY <3>3 DEF f
  <2>4. preempt_assign(src, src, Rotated(src, n, 1)) = Rotated(src, n + 1, 1)
    BY <1>1, <1>8, <2>3, RotateOneMore
  <2> QED BY <1>8, <2>2, <2>4
<1>9. CASE src = dst /\ F = 0 /\ M > 0 /\ n = 0
  <2>1. V(MoveCount(src, 0)) = 0 /\ V(MoveCount(src, 1)) = 1
    BY <1>1, <1>3, <1>9 DEF Evicted
  <2>2. Relocated(src, dst, n) = Rotated(src, 0, 0) /\ Relocated(src, dst, n + 1) = Rotated(src, 1, 1)
    BY <1>2, <1>4, <1>9, <2>1
  <2>3. preempt_assign(src, src, Rotated(src, 0, 0)) = Rotated(src, 1, 1)
    BY <1>1, <1>9, RotateFirst
  <2> QED BY <1>9, <2>2, <2>3
<1>10. CASE src = dst /\ F = 0 /\ M = 0
  <2>1. ASSUME NEW j \in Nat PROVE V(MoveCount(src, j)) = 0
    BY <1>1, <1>3, <1>10 DEF Evicted
  <2> DEFINE x == Rotated(src, n, 0)
             y == Rotated(src, n + 1, 0)
  <2>2. Relocated(src, dst, n) = x /\ Relocated(src, dst, n + 1) = y
    BY <1>2, <1>4, <1>10, <2>1
  <2>3. Rotating(src, 0) = <<>>
    <3>1. RotatingIs(src, 0)
      BY RotatingProps
    <3> QED BY <1>1, <1>10, <3>1 DEF RotatingIs
  <2>4. /\ x.list = RotatedTo(src, n, 0) /\ x.size = [size EXCEPT ![src] = @ - 0]
        /\ x.capacity = capacity
        /\ x.table = [k \in Key |-> IF k \in EvictedKeys(src, 0) THEN Nil ELSE table[k]]
        /\ x = [list |-> x.list, size |-> x.size, capacity |-> x.capacity, table |-> x.table]
    BY RotatedIs
  <2>5. /\ y.list = RotatedTo(src, n + 1, 0) /\ y.size = [size EXCEPT ![src] = @ - 0]
        /\ y.capacity = capacity
        /\ y.table = [k \in Key |-> IF k \in EvictedKeys(src, 0) THEN Nil ELSE table[k]]
        /\ y = [list |-> y.list, size |-> y.size, capacity |-> y.capacity, table |-> y.table]
    BY RotatedIs
  <2>6. RotatedTo(src, n, 0) = RotatedTo(src, n + 1, 0)
    BY <2>3 DEF RotatedTo
  <2>7. SubSeq(lru(src), 0 + 1, Len(lru(src))) = <<>> /\ Rotation(<<>>, 0) = <<>>
    BY <1>1, <1>10 DEF Rotation
  <2>8. <<src, "free">> \in Tag \X Kind /\ <<src, "lru">> \in Tag \X Kind /\ <<src, "free">> # <<src, "lru">>
    BY DEF Kind
  <2> HIDE DEF x, y
  <2>9. x = y
    BY <2>4, <2>5, <2>6
  <2>10. x.list[<<src, "free">>] = <<>> /\ x.list[<<src, "lru">>] = <<>>
    BY <2>3, <2>4, <2>7, <2>8 DEF RotatedTo
  <2>11. preempt_assign(src, src, x) = x
    BY <2>10 DEF preempt_assign
  <2> QED BY <1>10, <2>2, <2>9, <2>11
<1> QED BY <1>1, <1>5, <1>6, <1>7, <1>8, <1>9, <1>10

(* w is the sequence of the states the loop goes through.                  *)
Loops(src, dst, n, w) ==
  w = [i \in 0..n |-> IF i = 0
                      THEN [list |-> list, size |-> size, capacity |-> capacity, table |-> table]
                      ELSE preempt_assign(src, dst, w[i - 1])]

(* The loop run n times gives the closed form, by induction on n.          *)
LEMMA LoopIs ==
  ASSUME NEW src \in Tag, NEW dst \in Tag, NEW n \in Nat, CoreTypeOK, LinkedOnce
  PROVE  Relocated(src, dst, n) = RelocateLoop(src, dst, n)
<1> DEFINE u == [i \in 0..n |-> Relocated(src, dst, i)]
           w == CHOOSE x : Loops(src, dst, n, x)
<1>1. Loops(src, dst, n, u)
  <2>1. ASSUME NEW i \in 0..n
        PROVE  u[i] = IF i = 0 THEN Here ELSE preempt_assign(src, dst, u[i - 1])
    <3>1. CASE i = 0
      BY <3>1, RelocateNone
    <3>2. CASE i # 0
      <4>1. i - 1 \in Nat /\ i - 1 \in 0..n /\ (i - 1) + 1 = i
        BY <3>2
      <4>2. Relocated(src, dst, (i - 1) + 1) = preempt_assign(src, dst, Relocated(src, dst, i - 1))
        BY <4>1, RelocateOneMore
      <4>3. u[i] = Relocated(src, dst, i) /\ u[i - 1] = Relocated(src, dst, i - 1)
        BY <4>1
      <4> HIDE DEF u
      <4> QED BY <3>2, <4>1, <4>2, <4>3
    <3> QED BY <3>1, <3>2
  <2>2. u = [i \in 0..n |-> u[i]]
    OBVIOUS
  <2> HIDE DEF u
  <2>3. u = [i \in 0..n |-> IF i = 0 THEN Here ELSE preempt_assign(src, dst, u[i - 1])]
    BY <2>1, <2>2
  <2> QED BY <2>3 DEF Loops, Here
<1> HIDE DEF u
<1>2. Loops(src, dst, n, w)
  BY <1>1
<1>3. RelocateLoop(src, dst, n) = w[n]
  BY DEF RelocateLoop, Loops
<1> HIDE DEF w
<1>4. ASSUME NEW x, Loops(src, dst, n, x), NEW i \in 0..n
      PROVE  x[i] = IF i = 0 THEN Here ELSE preempt_assign(src, dst, x[i - 1])
  BY <1>4 DEF Loops, Here
<1> DEFINE S == {i \in Nat : i <= n => u[i] = w[i]}
<1>5. 0 \in S
  <2>1. 0 \in 0..n
    OBVIOUS
  <2> QED BY <1>1, <1>2, <1>4, <2>1
<1>6. ASSUME NEW i \in Nat, i \in S PROVE i + 1 \in S
  <2>1. CASE i + 1 <= n
    <3>1. i + 1 \in 0..n /\ i + 1 # 0 /\ (i + 1) - 1 = i /\ i <= n
      BY <2>1
    <3>2. u[i] = w[i]
      BY <1>6, <3>1
    <3>3. u[i + 1] = preempt_assign(src, dst, u[i]) /\ w[i + 1] = preempt_assign(src, dst, w[i])
      BY <1>1, <1>2, <1>4, <3>1
    <3> QED BY <3>2, <3>3
  <2>2. CASE ~(i + 1 <= n)
    BY <2>2
  <2> QED BY <2>1, <2>2
<1>7. \A i \in Nat : i \in S
  <2> HIDE DEF S
  <2> QED BY <1>5, <1>6, SetInduction
<1>8. u[n] = w[n]
  BY <1>7
<1>9. u[n] = Relocated(src, dst, n)
  BY DEF u
<1> QED BY <1>3, <1>8, <1>9

(* relocate(src, dst, n) of shared_cache.h: the closed form of the action  *)
(* Relocate gives the state the loop of preempt and assign ends in, for    *)
(* any two tenants (also one and itself) in every reachable state.         *)
THEOREM RelocateByLoop ==
  ASSUME StaleHandles = FALSE
  PROVE  Spec => []RelocateIsLoop
<1>1. Inv => RelocateIsLoop
  <2> SUFFICES ASSUME Inv, NEW src \in Tag, NEW dst \in Tag, NEW n \in 0..MaxMove
               PROVE  Relocated(src, dst, n) = RelocateLoop(src, dst, n)
    BY DEF RelocateIsLoop
  <2>1. CoreTypeOK /\ LinkedOnce /\ n \in Nat
    BY SharedAssumption DEF Inv, TypeOK, CoreInv, OneList
  <2> QED BY <2>1, LoopIs
<1> QED BY <1>1, Invariance, PTL
==============================================================================
