---------------------------- MODULE ARCMrcProofs ----------------------------
(***************************************************************************)
(* Every case of access keeps the four lists of an ARC_cache disjoint, in  *)
(* step with in_ghost and within their bounds, whatever the target p is;   *)
(* hence so does a curve of them, for any sizes, keys and word width.  The *)
(* calls the code leaves undefined (ARCCache!undefined) are excluded, as   *)
(* they are in ARCMrc.                                                     *)
(***************************************************************************)
EXTENDS ARCMrc, SequenceLemmas

(***************************************************************************)
(* One cache.                                                              *)
(***************************************************************************)
(* DisjointLists and in_ghost, in terms of what is on the lists.           *)
Apart(c) ==
  /\ Inj(c.T1) /\ Inj(c.T2) /\ Inj(c.B1) /\ Inj(c.B2)
  /\ Range(c.T1) \cap Range(c.T2) = {} /\ Range(c.B1) \cap Range(c.B2) = {}
  /\ (Range(c.T1) \cup Range(c.T2)) \cap (Range(c.B1) \cup Range(c.B2)) = {}
  /\ c.in_ghost = Range(c.B1) \cup Range(c.B2)

Sound(c) == c \in CacheType /\ Apart(c)

(* Both say the same.                                                      *)
LEMMA ApartIsAgree ==
  ASSUME NEW c \in CacheType
  PROVE  ListsAgreeIn(c) <=> Apart(c)
<1>1. c.T1 \in Seq(Key) /\ c.T2 \in Seq(Key) /\ c.B1 \in Seq(Key) /\ c.B2 \in Seq(Key)
  BY DEF CacheType
<1>2. /\ IsInjective(c.T1) <=> Inj(c.T1)
      /\ IsInjective(c.T2) <=> Inj(c.T2)
      /\ IsInjective(c.B1) <=> Inj(c.B1)
      /\ IsInjective(c.B2) <=> Inj(c.B2)
  BY <1>1, InjectiveLists
<1> QED
  BY <1>2 DEF ListsAgreeIn, DisjointLists, cached, ghosts, Apart

(* Arithmetic modulo Word.                                                 *)
LEMMA Uint ==
  ASSUME Word \in Nat \ {0}, NEW x \in Int
  PROVE  x % Word \in 0..(Word - 1)
OBVIOUS

(* What an operation that moves keys to the ghost lists keeps.             *)
Evicted(c, d) ==
  /\ Sound(d)
  /\ d.capacity = c.capacity
  /\ Range(d.T1) \cup Range(d.T2) \subseteq Range(c.T1) \cup Range(c.T2)
  /\ Range(d.B1) \cup Range(d.B2) \subseteq
       Range(c.T1) \cup Range(c.T2) \cup Range(c.B1) \cup Range(c.B2)
  /\ Range(c.B1) \subseteq Range(d.B1) /\ Range(c.B2) \subseteq Range(d.B2)
  /\ Range(d.B1) \subseteq Range(c.B1) \cup Range(c.T1)
  /\ Range(d.B2) \subseteq Range(c.B2) \cup Range(c.T2)
  /\ Len(d.T1) + Len(d.B1) = Len(c.T1) + Len(c.B1)
  /\ Len(d.T2) + Len(d.B2) = Len(c.T2) + Len(c.B2)

(* replace from T1; and from T2.                                           *)
LEMMA EvictT1 ==
  ASSUME Word \in Nat \ {0}, NEW c, Sound(c), c.T1 # <<>>
  PROVE  Evicted(c, evict(c, "T1", "B1"))
<1> DEFINE d == evict(c, "T1", "B1")
           e == Last(c.T1)
<1>1. /\ c.T1 \in Seq(Key) /\ c.T2 \in Seq(Key) /\ c.B1 \in Seq(Key) /\ c.B2 \in Seq(Key)
      /\ Inj(c.T1) /\ Inj(c.B1) /\ c \in CacheType /\ c.stat_ev \in Int
  BY DEF Sound, Apart, CacheType
<1>2. /\ Front(c.T1) \in Seq(Key) /\ Inj(Front(c.T1))
      /\ e \in Range(c.T1) /\ e \in Key
      /\ Range(Front(c.T1)) = Range(c.T1) \ {e}
      /\ Len(Front(c.T1)) = Len(c.T1) - 1
  BY <1>1, PopBackProps
<1>3. e \notin Range(c.B1)
  BY <1>2 DEF Sound, Apart
<1>4. /\ <<e>> \o c.B1 \in Seq(Key) /\ Inj(<<e>> \o c.B1)
      /\ Range(<<e>> \o c.B1) = Range(c.B1) \cup {e}
      /\ Len(<<e>> \o c.B1) = Len(c.B1) + 1
  BY <1>1, <1>2, <1>3, PushFrontProps
<1>5. inc(c.stat_ev) \in 0..(Word - 1)
  BY <1>1, Uint DEF inc
<1>6. d = [c EXCEPT !.T1 = Front(c.T1), !.B1 = <<e>> \o c.B1,
                    !.in_ghost = c.in_ghost \cup {e}, !.stat_ev = inc(c.stat_ev)]
  BY DEF evict, pop_back, push_front, back
<1> HIDE DEF d, e
<1>7. /\ d \in CacheType
      /\ d.capacity = c.capacity /\ d.T1 = Front(c.T1) /\ d.T2 = c.T2
      /\ d.B1 = <<e>> \o c.B1 /\ d.B2 = c.B2 /\ d.in_ghost = c.in_ghost \cup {e}
  BY <1>1, <1>2, <1>4, <1>5, <1>6 DEF CacheType
<1>8. Apart(d)
  BY <1>2, <1>3, <1>4, <1>7 DEF Sound, Apart
<1>9. Len(d.T1) + Len(d.B1) = Len(c.T1) + Len(c.B1)
  <2> DEFINE a == Len(c.T1)  b == Len(c.B1)  x == Len(d.T1)  y == Len(d.B1)
  <2>1. x = a - 1 /\ y = b + 1
    BY <1>2, <1>4, <1>7
  <2>2. a \in Nat /\ b \in Nat
    BY <1>1
  <2> HIDE DEF a, b, x, y
  <2>3. x + y = a + b
    BY <2>1, <2>2
  <2> QED BY <2>3 DEF a, b, x, y
<1> QED
  BY <1>2, <1>4, <1>7, <1>8, <1>9 DEF Sound, Evicted, d

LEMMA EvictT2 ==
  ASSUME Word \in Nat \ {0}, NEW c, Sound(c), c.T2 # <<>>
  PROVE  Evicted(c, evict(c, "T2", "B2"))
<1> DEFINE d == evict(c, "T2", "B2")
           e == Last(c.T2)
<1>1. /\ c.T1 \in Seq(Key) /\ c.T2 \in Seq(Key) /\ c.B1 \in Seq(Key) /\ c.B2 \in Seq(Key)
      /\ Inj(c.T2) /\ Inj(c.B2) /\ c \in CacheType /\ c.stat_ev \in Int
  BY DEF Sound, Apart, CacheType
<1>2. /\ Front(c.T2) \in Seq(Key) /\ Inj(Front(c.T2))
      /\ e \in Range(c.T2) /\ e \in Key
      /\ Range(Front(c.T2)) = Range(c.T2) \ {e}
      /\ Len(Front(c.T2)) = Len(c.T2) - 1
  BY <1>1, PopBackProps
<1>3. e \notin Range(c.B2)
  BY <1>2 DEF Sound, Apart
<1>4. /\ <<e>> \o c.B2 \in Seq(Key) /\ Inj(<<e>> \o c.B2)
      /\ Range(<<e>> \o c.B2) = Range(c.B2) \cup {e}
      /\ Len(<<e>> \o c.B2) = Len(c.B2) + 1
  BY <1>1, <1>2, <1>3, PushFrontProps
<1>5. inc(c.stat_ev) \in 0..(Word - 1)
  BY <1>1, Uint DEF inc
<1>6. d = [c EXCEPT !.T2 = Front(c.T2), !.B2 = <<e>> \o c.B2,
                    !.in_ghost = c.in_ghost \cup {e}, !.stat_ev = inc(c.stat_ev)]
  BY DEF evict, pop_back, push_front, back
<1> HIDE DEF d, e
<1>7. /\ d \in CacheType
      /\ d.capacity = c.capacity /\ d.T2 = Front(c.T2) /\ d.T1 = c.T1
      /\ d.B2 = <<e>> \o c.B2 /\ d.B1 = c.B1 /\ d.in_ghost = c.in_ghost \cup {e}
  BY <1>1, <1>2, <1>4, <1>5, <1>6 DEF CacheType
<1>8. Apart(d)
  BY <1>2, <1>3, <1>4, <1>7 DEF Sound, Apart
<1>9. Len(d.T2) + Len(d.B2) = Len(c.T2) + Len(c.B2)
  <2> DEFINE a == Len(c.T2)  b == Len(c.B2)  x == Len(d.T2)  y == Len(d.B2)
  <2>1. x = a - 1 /\ y = b + 1
    BY <1>2, <1>4, <1>7
  <2>2. a \in Nat /\ b \in Nat
    BY <1>1
  <2> HIDE DEF a, b, x, y
  <2>3. x + y = a + b
    BY <2>1, <2>2
  <2> QED BY <2>3 DEF a, b, x, y
<1> QED
  BY <1>2, <1>4, <1>7, <1>8, <1>9 DEF Sound, Evicted, d

(* replace moves at most one key, from T1 to B1 or from T2 to B2.          *)
LEMMA ReplaceKeeps ==
  ASSUME Word \in Nat \ {0}, NEW c, Sound(c), NEW in_b2
  PROVE  Evicted(c, replace(c, in_b2))
<1>1. CASE replace(c, in_b2) = evict(c, "T1", "B1") /\ c.T1 # <<>>
  BY <1>1, EvictT1
<1>2. CASE replace(c, in_b2) = evict(c, "T2", "B2") /\ c.T2 # <<>>
  BY <1>2, EvictT2
<1>3. CASE replace(c, in_b2) = c
  BY <1>3 DEF Sound, Evicted
<1> QED
  BY <1>1, <1>2, <1>3 DEF replace

(* The oldest key of B1 is forgotten; and that of B2.                      *)
LEMMA ForgetB1 ==
  ASSUME NEW c, Sound(c), c.B1 # <<>>
  PROVE  LET d == forget(c, "B1")
         IN /\ Sound(d) /\ d.capacity = c.capacity
            /\ d.T1 = c.T1 /\ d.T2 = c.T2 /\ d.B2 = c.B2
            /\ Range(d.B1) \subseteq Range(c.B1)
            /\ Len(d.B1) = Len(c.B1) - 1
<1> DEFINE d == forget(c, "B1")
           e == Last(c.B1)
<1>1. c.B1 \in Seq(Key) /\ Inj(c.B1) /\ c \in CacheType
  BY DEF Sound, Apart, CacheType
<1>2. /\ Front(c.B1) \in Seq(Key) /\ Inj(Front(c.B1))
      /\ e \in Range(c.B1)
      /\ Range(Front(c.B1)) = Range(c.B1) \ {e}
      /\ Len(Front(c.B1)) = Len(c.B1) - 1
  BY <1>1, PopBackProps
<1>3. d = [c EXCEPT !.B1 = Front(c.B1), !.in_ghost = c.in_ghost \ {e}]
  BY DEF forget, pop_back, back
<1> HIDE DEF d, e
<1>4. /\ d \in CacheType
      /\ d.capacity = c.capacity /\ d.T1 = c.T1 /\ d.T2 = c.T2
      /\ d.B1 = Front(c.B1) /\ d.B2 = c.B2 /\ d.in_ghost = c.in_ghost \ {e}
  BY <1>1, <1>2, <1>3 DEF CacheType
<1>5. Apart(d)
  BY <1>2, <1>4 DEF Sound, Apart
<1> QED
  BY <1>2, <1>4, <1>5 DEF Sound, d

LEMMA ForgetB2 ==
  ASSUME NEW c, Sound(c), c.B2 # <<>>
  PROVE  LET d == forget(c, "B2")
         IN /\ Sound(d) /\ d.capacity = c.capacity
            /\ d.T1 = c.T1 /\ d.T2 = c.T2 /\ d.B1 = c.B1
            /\ Range(d.B2) \subseteq Range(c.B2)
            /\ Len(d.B2) = Len(c.B2) - 1
<1> DEFINE d == forget(c, "B2")
           e == Last(c.B2)
<1>1. c.B2 \in Seq(Key) /\ Inj(c.B2) /\ c \in CacheType
  BY DEF Sound, Apart, CacheType
<1>2. /\ Front(c.B2) \in Seq(Key) /\ Inj(Front(c.B2))
      /\ e \in Range(c.B2)
      /\ Range(Front(c.B2)) = Range(c.B2) \ {e}
      /\ Len(Front(c.B2)) = Len(c.B2) - 1
  BY <1>1, PopBackProps
<1>3. d = [c EXCEPT !.B2 = Front(c.B2), !.in_ghost = c.in_ghost \ {e}]
  BY DEF forget, pop_back, back
<1> HIDE DEF d, e
<1>4. /\ d \in CacheType
      /\ d.capacity = c.capacity /\ d.T1 = c.T1 /\ d.T2 = c.T2
      /\ d.B2 = Front(c.B2) /\ d.B1 = c.B1 /\ d.in_ghost = c.in_ghost \ {e}
  BY <1>1, <1>2, <1>3 DEF CacheType
<1>5. Apart(d)
  BY <1>2, <1>4 DEF Sound, Apart
<1> QED
  BY <1>2, <1>4, <1>5 DEF Sound, d

(* What access keeps in one cache.                                         *)
CacheInv(c) == Sound(c) /\ DirectoryBoundOf(c)

(* The lengths of the lists are numbers.                                   *)
LEMMA Lengths ==
  ASSUME NEW c, Sound(c)
  PROVE  /\ c.T1 \in Seq(Key) /\ c.T2 \in Seq(Key) /\ c.B1 \in Seq(Key) /\ c.B2 \in Seq(Key)
         /\ Len(c.T1) \in Nat /\ Len(c.T2) \in Nat /\ Len(c.B1) \in Nat /\ Len(c.B2) \in Nat
         /\ c.capacity \in Nat
<1>1. c.T1 \in Seq(Key) /\ c.T2 \in Seq(Key) /\ c.B1 \in Seq(Key) /\ c.B2 \in Seq(Key)
  BY DEF Sound, CacheType
<1>2. c.capacity \in Nat
  BY DEF Sound, CacheType
<1> QED
  BY <1>1, <1>2

(* Case 1.                                                                 *)
LEMMA HitKeeps ==
  ASSUME Word \in Nat \ {0}, NEW c, CacheInv(c), NEW k \in cached(c)
  PROVE  CacheInv(hit(c, k)) /\ hit(c, k).capacity = c.capacity
<1> DEFINE d == hit(c, k)
           r1 == RemoveFirst(c.T1, k)
           r2 == RemoveFirst(c.T2, k)
<1>1. /\ c.T1 \in Seq(Key) /\ c.T2 \in Seq(Key)
      /\ Inj(c.T1) /\ Inj(c.T2) /\ c \in CacheType /\ c.stat_hit \in Int
  BY DEF CacheInv, Sound, Apart, CacheType
<1>2. k \in Key
  BY <1>1, EmptyRange DEF cached
<1>3. /\ r1 \in Seq(Key) /\ Inj(r1) /\ Range(r1) = Range(c.T1) \ {k}
      /\ Len(r1) = IF k \in Range(c.T1) THEN Len(c.T1) - 1 ELSE Len(c.T1)
  BY <1>1, RemoveFirstProps
<1>4. /\ r2 \in Seq(Key) /\ Inj(r2) /\ Range(r2) = Range(c.T2) \ {k}
      /\ Len(r2) = IF k \in Range(c.T2) THEN Len(c.T2) - 1 ELSE Len(c.T2)
  BY <1>1, RemoveFirstProps
<1>5. inc(c.stat_hit) \in 0..(Word - 1)
  BY <1>1, Uint DEF inc
<1>6. d = [c EXCEPT !.T1 = r1, !.T2 = <<k>> \o r2, !.stat_hit = inc(c.stat_hit)]
  BY DEF hit, without, push_front
<1> HIDE DEF d, r1, r2
<1>7. /\ <<k>> \o r2 \in Seq(Key) /\ Inj(<<k>> \o r2)
      /\ Range(<<k>> \o r2) = Range(r2) \cup {k}
      /\ Len(<<k>> \o r2) = Len(r2) + 1
  BY <1>2, <1>4, PushFrontProps
<1>8. /\ d \in CacheType
      /\ d.capacity = c.capacity /\ d.T1 = r1 /\ d.T2 = <<k>> \o r2
      /\ d.B1 = c.B1 /\ d.B2 = c.B2 /\ d.in_ghost = c.in_ghost
  BY <1>1, <1>3, <1>5, <1>6, <1>7 DEF CacheType
<1>9. Apart(d)
  BY <1>3, <1>4, <1>7, <1>8 DEF CacheInv, Sound, Apart, cached
<1>10. DirectoryBoundOf(d)
  <2> DEFINE t1 == Len(c.T1)  t2 == Len(c.T2)  b1 == Len(c.B1)  b2 == Len(c.B2)
             u1 == Len(d.T1)  u2 == Len(d.T2)
  <2>1. u1 = IF k \in Range(c.T1) THEN t1 - 1 ELSE t1
    BY <1>3, <1>8
  <2>2. u2 = IF k \in Range(c.T2) THEN t2 - 1 + 1 ELSE t2 + 1
    BY <1>4, <1>7, <1>8
  <2>3. k \in Range(c.T1) <=> k \notin Range(c.T2)
    BY DEF CacheInv, Sound, Apart, cached
  <2>4. t1 \in Nat /\ t2 \in Nat /\ b1 \in Nat /\ b2 \in Nat
    BY Lengths DEF CacheInv
  <2>5. t1 + b1 <= c.capacity /\ t1 + t2 + b1 + b2 <= 2 * c.capacity
    BY DEF CacheInv, DirectoryBoundOf, all_size, actual_size
  <2>6. c.capacity \in Nat
    BY Lengths DEF CacheInv
  <2>7. DirectoryBoundOf(d) <=> u1 + b1 <= c.capacity /\ u1 + u2 + b1 + b2 <= 2 * c.capacity
    BY <1>8 DEF DirectoryBoundOf, all_size, actual_size
  <2> HIDE DEF t1, t2, b1, b2, u1, u2
  <2>8. CASE k \in Range(c.T1)
    BY <2>1, <2>2, <2>3, <2>4, <2>5, <2>6, <2>7, <2>8
  <2>9. CASE k \notin Range(c.T1)
    BY <2>1, <2>2, <2>3, <2>4, <2>5, <2>6, <2>7, <2>9
  <2> QED BY <2>8, <2>9
<1> QED
  BY <1>8, <1>9, <1>10 DEF CacheInv, Sound, d

(* The new target is a uint32_t, and access divides by no empty list.      *)
LEMMA MaxInt ==
  ASSUME NEW x \in Int, NEW y \in Int
  PROVE  max(x, y) \in Int
BY DEF max

(* Both targets, when the key is in a ghost list.                          *)
LEMMA TargetInRange ==
  ASSUME Word \in Nat \ {0}, NEW c \in CacheType, NEW k
  PROVE  /\ k \in Range(c.B2) => Len(c.B2) > 0 /\ smaller_p(c) \in 0..(Word - 1)
         /\ k \in Range(c.B1) => Len(c.B1) > 0 /\ larger_p(c) \in 0..(Word - 1)
<1>1. /\ c.B1 \in Seq(Key) /\ c.B2 \in Seq(Key)
      /\ c.p \in Int /\ c.capacity \in 0..(Word - 1)
  BY DEF CacheType
<1>2. Len(c.B1) \in Nat /\ Len(c.B2) \in Nat
  BY <1>1
<1>3. ASSUME k \in Range(c.B2)
      PROVE  Len(c.B2) > 0 /\ smaller_p(c) \in 0..(Word - 1)
  <2> DEFINE share == Len(c.B1) \div Len(c.B2)
             dec == max(1, share)
             x == (c.p - dec) % Word
  <2>1. Len(c.B2) > 0
    BY <1>1, <1>3, EmptyRange
  <2>2. share \in Int
    BY <1>2, <2>1
  <2> HIDE DEF share
  <2>3. dec \in Int
    BY <2>2, MaxInt
  <2> HIDE DEF dec
  <2>4. c.p - dec \in Int
    BY <1>1, <2>3
  <2>5. x \in 0..(Word - 1)
    BY <2>4, Uint
  <2>6. smaller_p(c) = max(x, 0)
    BY DEF smaller_p, dec, share
  <2> HIDE DEF x
  <2>7. max(x, 0) = x
    BY <2>5 DEF max
  <2> QED BY <2>1, <2>5, <2>6, <2>7
<1>4. ASSUME k \in Range(c.B1)
      PROVE  Len(c.B1) > 0 /\ larger_p(c) \in 0..(Word - 1)
  <2> DEFINE share == Len(c.B2) \div Len(c.B1)
             add == max(1, share)
             x == (c.p + add) % Word
  <2>1. Len(c.B1) > 0
    BY <1>1, <1>4, EmptyRange
  <2>2. share \in Int
    BY <1>2, <2>1
  <2> HIDE DEF share
  <2>3. add \in Int
    BY <2>2, MaxInt
  <2> HIDE DEF add
  <2>4. c.p + add \in Int
    BY <1>1, <2>3
  <2>5. x \in 0..(Word - 1)
    BY <2>4, Uint
  <2>6. larger_p(c) = min(x, c.capacity)
    BY DEF larger_p, add, share
  <2> HIDE DEF x
  <2>7. min(x, c.capacity) \in 0..(Word - 1)
    BY <1>1, <2>5 DEF min
  <2> QED BY <2>1, <2>6, <2>7
<1> QED
  BY <1>3, <1>4

(* Cases 2 and 3.                                                          *)
LEMMA GhostHitKeeps ==
  ASSUME Word \in Nat \ {0}, NEW c, CacheInv(c), NEW k \in ghosts(c)
  PROVE  CacheInv(ghost_hit(c, k)) /\ ghost_hit(c, k).capacity = c.capacity
<1> DEFINE in_b2 == k \notin Range(c.B1)
           q == IF in_b2 THEN smaller_p(c) ELSE larger_p(c)
           b == [c EXCEPT !.p = q]
           s == replace(b, in_b2)
           d == ghost_hit(c, k)
           r1 == RemoveFirst(s.B1, k)
           r2 == RemoveFirst(s.B2, k)
<1>1. /\ c.T1 \in Seq(Key) /\ c.T2 \in Seq(Key) /\ c.B1 \in Seq(Key) /\ c.B2 \in Seq(Key)
      /\ c \in CacheType
  BY DEF CacheInv, Sound, CacheType
<1>3. k \in Key
  BY <1>1, EmptyRange DEF ghosts
<1>4. q \in 0..(Word - 1)
  BY <1>1, TargetInRange DEF ghosts
<1> HIDE DEF q
<1>5. /\ b \in CacheType /\ b.capacity = c.capacity /\ b.T1 = c.T1 /\ b.T2 = c.T2
      /\ b.B1 = c.B1 /\ b.B2 = c.B2 /\ b.in_ghost = c.in_ghost
  BY <1>1, <1>4 DEF CacheType
<1> HIDE DEF b
<1>6. Sound(b)
  BY <1>5 DEF CacheInv, Sound, Apart
<1>7. Evicted(b, s)
  BY <1>6, ReplaceKeeps
<1>8. d = [s EXCEPT !.T2 = <<k>> \o s.T2, !.B1 = r1, !.B2 = r2,
                    !.in_ghost = s.in_ghost \ {k}, !.stat_miss = inc(s.stat_miss)]
  BY DEF ghost_hit, without, push_front, b, q
<1> HIDE DEF s, d, r1, r2
<1>9. /\ s.T1 \in Seq(Key) /\ s.T2 \in Seq(Key) /\ s.B1 \in Seq(Key) /\ s.B2 \in Seq(Key)
      /\ Inj(s.T2) /\ Inj(s.B1) /\ Inj(s.B2) /\ s \in CacheType /\ s.stat_miss \in Int
  BY <1>7 DEF Evicted, Sound, Apart, CacheType
<1>10. k \in Range(s.B1) \cup Range(s.B2)
  BY <1>5, <1>7 DEF Evicted, ghosts
<1>11. k \notin Range(s.T1) \cup Range(s.T2) /\ Range(s.B1) \cap Range(s.B2) = {}
  BY <1>7, <1>10 DEF Evicted, Sound, Apart
<1>12. /\ r1 \in Seq(Key) /\ Inj(r1) /\ Range(r1) = Range(s.B1) \ {k}
       /\ Len(r1) = IF k \in Range(s.B1) THEN Len(s.B1) - 1 ELSE Len(s.B1)
  BY <1>9, RemoveFirstProps DEF r1
<1>13. /\ r2 \in Seq(Key) /\ Inj(r2) /\ Range(r2) = Range(s.B2) \ {k}
       /\ Len(r2) = IF k \in Range(s.B2) THEN Len(s.B2) - 1 ELSE Len(s.B2)
  BY <1>9, RemoveFirstProps DEF r2
<1>14. /\ <<k>> \o s.T2 \in Seq(Key) /\ Inj(<<k>> \o s.T2)
       /\ Range(<<k>> \o s.T2) = Range(s.T2) \cup {k}
       /\ Len(<<k>> \o s.T2) = Len(s.T2) + 1
  BY <1>3, <1>9, <1>11, PushFrontProps
<1>15. inc(s.stat_miss) \in 0..(Word - 1)
  <2>1. s.stat_miss + 1 \in Int
    BY <1>9
  <2> QED BY <2>1, Uint DEF inc
<1>16. /\ d \in CacheType
       /\ d.capacity = s.capacity /\ d.T1 = s.T1 /\ d.T2 = <<k>> \o s.T2
       /\ d.B1 = r1 /\ d.B2 = r2 /\ d.in_ghost = s.in_ghost \ {k}
  BY <1>8, <1>9, <1>12, <1>13, <1>14, <1>15 DEF CacheType
<1>17. Apart(d)
  BY <1>7, <1>11, <1>12, <1>13, <1>14, <1>16 DEF Evicted, Sound, Apart
<1>18. s.capacity = c.capacity
  BY <1>5, <1>7 DEF Evicted
<1>19. DirectoryBoundOf(d)
  <2> DEFINE t1 == Len(c.T1)  t2 == Len(c.T2)  b1 == Len(c.B1)  b2 == Len(c.B2)
             s1 == Len(s.T1)  s2 == Len(s.T2)  s3 == Len(s.B1)  s4 == Len(s.B2)
             u1 == Len(d.T1)  u2 == Len(d.T2)  u3 == Len(d.B1)  u4 == Len(d.B2)
  <2>1. /\ u1 = s1 /\ u2 = s2 + 1
        /\ u3 = IF k \in Range(s.B1) THEN s3 - 1 ELSE s3
        /\ u4 = IF k \in Range(s.B2) THEN s4 - 1 ELSE s4
    BY <1>12, <1>13, <1>14, <1>16
  <2>2. s1 + s3 = t1 + b1 /\ s2 + s4 = t2 + b2
    BY <1>5, <1>7 DEF Evicted
  <2>3. /\ t1 \in Nat /\ t2 \in Nat /\ b1 \in Nat /\ b2 \in Nat
        /\ s1 \in Nat /\ s2 \in Nat /\ s3 \in Nat /\ s4 \in Nat /\ c.capacity \in Nat
    BY <1>7, Lengths DEF CacheInv, Evicted
  <2>4. t1 + b1 <= c.capacity /\ t1 + t2 + b1 + b2 <= 2 * c.capacity
    BY DEF CacheInv, DirectoryBoundOf, all_size, actual_size
  <2>5. DirectoryBoundOf(d) <=> u1 + u3 <= c.capacity /\ u1 + u2 + u3 + u4 <= 2 * c.capacity
    BY <1>16, <1>18 DEF DirectoryBoundOf, all_size, actual_size
  <2> HIDE DEF t1, t2, b1, b2, s1, s2, s3, s4, u1, u2, u3, u4
  <2>6. CASE k \in Range(s.B1)
    <3>1. u3 = s3 - 1 /\ u4 = s4
      BY <2>1, <2>6, <1>11
    <3> QED BY <2>1, <2>2, <2>3, <2>4, <2>5, <3>1
  <2>7. CASE k \notin Range(s.B1)
    <3>1. u3 = s3 /\ u4 = s4 - 1
      BY <2>1, <2>7, <1>10
    <3> QED BY <2>1, <2>2, <2>3, <2>4, <2>5, <3>1
  <2> QED BY <2>6, <2>7
<1> QED
  BY <1>16, <1>17, <1>18, <1>19 DEF CacheInv, Sound, d

(* Case 4: room for one key more, in T1 and in the directory.              *)
Room(c, s) ==
  /\ Sound(s) /\ s.capacity = c.capacity
  /\ cached(s) \cup ghosts(s) \subseteq cached(c) \cup ghosts(c)
  /\ Len(s.T1) + Len(s.B1) + 1 <= c.capacity
  /\ all_size(s) + 1 <= 2 * c.capacity

(* replace moves a key and keeps the room there is.                        *)
LEMMA RoomReplaced ==
  ASSUME Word \in Nat \ {0}, NEW c, NEW b, Room(c, b)
  PROVE  Room(c, replace(b, FALSE))
<1> DEFINE s == replace(b, FALSE)
<1>1. Evicted(b, s)
  BY ReplaceKeeps DEF Room
<1> HIDE DEF s
<1>2. Len(s.T1) + Len(s.B1) = Len(b.T1) + Len(b.B1)
  BY <1>1 DEF Evicted
<1>3. all_size(s) = all_size(b)
  <2> DEFINE t1 == Len(b.T1)  t2 == Len(b.T2)  b1 == Len(b.B1)  b2 == Len(b.B2)
             s1 == Len(s.T1)  s2 == Len(s.T2)  s3 == Len(s.B1)  s4 == Len(s.B2)
  <2>1. s1 + s3 = t1 + b1 /\ s2 + s4 = t2 + b2
    BY <1>1 DEF Evicted
  <2>2. /\ t1 \in Nat /\ t2 \in Nat /\ b1 \in Nat /\ b2 \in Nat
        /\ s1 \in Nat /\ s2 \in Nat /\ s3 \in Nat /\ s4 \in Nat
    BY <1>1, Lengths DEF Evicted, Room
  <2>3. all_size(s) = s1 + s2 + s3 + s4 /\ all_size(b) = t1 + t2 + b1 + b2
    BY DEF all_size, actual_size
  <2> HIDE DEF t1, t2, b1, b2, s1, s2, s3, s4
  <2> QED BY <2>1, <2>2, <2>3
<1>4. cached(s) \cup ghosts(s) \subseteq cached(b) \cup ghosts(b)
  BY <1>1 DEF Evicted, cached, ghosts
<1> QED
  BY <1>1, <1>2, <1>3, <1>4 DEF Room, Evicted, s

(* Case 4A with T1 as long as the cache: its oldest key is dropped.        *)
LEMMA DropT1 ==
  ASSUME Word \in Nat \ {0}, NEW c, CacheInv(c), c.T1 # <<>>, first_half_full(c)
  PROVE  Room(c, [c EXCEPT !.T1 = pop_back(c.T1), !.stat_ev = inc(c.stat_ev)])
<1> DEFINE s == [c EXCEPT !.T1 = pop_back(c.T1), !.stat_ev = inc(c.stat_ev)]
<1>1. c.T1 \in Seq(Key) /\ Inj(c.T1) /\ c \in CacheType /\ c.stat_ev \in Int
  BY DEF CacheInv, Sound, Apart, CacheType
<1>2. /\ pop_back(c.T1) \in Seq(Key) /\ Inj(pop_back(c.T1))
      /\ Range(pop_back(c.T1)) \subseteq Range(c.T1)
      /\ Len(pop_back(c.T1)) = Len(c.T1) - 1
  BY <1>1, PopBackProps DEF pop_back
<1>3. inc(c.stat_ev) \in 0..(Word - 1)
  <2>1. c.stat_ev + 1 \in Int
    BY <1>1
  <2> QED BY <2>1, Uint DEF inc
<1>4. /\ s \in CacheType /\ s.capacity = c.capacity
      /\ s.T1 = pop_back(c.T1) /\ s.T2 = c.T2 /\ s.B1 = c.B1 /\ s.B2 = c.B2
      /\ s.in_ghost = c.in_ghost
  BY <1>1, <1>2, <1>3 DEF CacheType
<1> HIDE DEF s
<1>5. Apart(s)
  BY <1>2, <1>4 DEF CacheInv, Sound, Apart
<1>6. Len(s.T1) + Len(s.B1) + 1 <= c.capacity /\ all_size(s) + 1 <= 2 * c.capacity
  <2> DEFINE t1 == Len(c.T1)  t2 == Len(c.T2)  b1 == Len(c.B1)  b2 == Len(c.B2)  u1 == Len(s.T1)
  <2>1. u1 = t1 - 1
    BY <1>2, <1>4
  <2>2. t1 \in Nat /\ t2 \in Nat /\ b1 \in Nat /\ b2 \in Nat /\ c.capacity \in Nat
    BY Lengths DEF CacheInv
  <2>3. t1 + b1 = c.capacity /\ t1 + t2 + b1 + b2 <= 2 * c.capacity
    BY DEF CacheInv, DirectoryBoundOf, all_size, actual_size, first_half_full
  <2>4. /\ Len(s.T1) + Len(s.B1) + 1 = u1 + b1 + 1
        /\ all_size(s) + 1 = u1 + t2 + b1 + b2 + 1
    BY <1>4 DEF all_size, actual_size
  <2> HIDE DEF t1, t2, b1, b2, u1
  <2>5. u1 + b1 + 1 <= c.capacity /\ u1 + t2 + b1 + b2 + 1 <= 2 * c.capacity
    BY <2>1, <2>2, <2>3
  <2> QED BY <2>4, <2>5
<1> QED
  BY <1>2, <1>4, <1>5, <1>6 DEF Room, Sound, cached, ghosts, s

(* Cases 4A and 4B together.                                               *)
LEMMA MakesPlace ==
  ASSUME Word \in Nat \ {0}, NEW c, CacheInv(c), NEW k, k \notin cached(c) \cup c.in_ghost,
         ~undefined(c, k)
  PROVE  Room(c, make_place(c))
<1> DEFINE t1 == Len(c.T1)  t2 == Len(c.T2)  b1 == Len(c.B1)  b2 == Len(c.B2)
<1>1. /\ t1 \in Nat /\ t2 \in Nat /\ b1 \in Nat /\ b2 \in Nat
      /\ c.capacity \in Nat /\ c.capacity # 0
  BY Lengths DEF CacheInv, undefined
<1>2. t1 + b1 <= c.capacity /\ t1 + t2 + b1 + b2 <= 2 * c.capacity
  BY DEF CacheInv, DirectoryBoundOf, all_size, actual_size
<1>3. c.T1 \in Seq(Key) /\ c.B1 \in Seq(Key) /\ c.B2 \in Seq(Key)
  BY Lengths DEF CacheInv
<1>4. first_half_full(c) <=> t1 + b1 = c.capacity
  BY DEF first_half_full
<1>5. all_size(c) = t1 + t2 + b1 + b2
  BY DEF all_size, actual_size
<1>6. CASE first_half_full(c) /\ t1 < c.capacity
  <2> DEFINE b == forget(c, "B1")
  <2>1. b1 > 0
    <3> HIDE DEF t1, t2, b1, b2
    <3> QED BY <1>1, <1>4, <1>6
  <2>2. c.B1 # <<>>
    BY <2>1, <1>3, EmptyRange
  <2>3. /\ Sound(b) /\ b.capacity = c.capacity
        /\ b.T1 = c.T1 /\ b.T2 = c.T2 /\ b.B2 = c.B2
        /\ Range(b.B1) \subseteq Range(c.B1) /\ Len(b.B1) = b1 - 1
    BY <2>2, ForgetB1 DEF CacheInv
  <2> HIDE DEF b
  <2>4. Len(b.T1) + Len(b.B1) + 1 <= c.capacity /\ all_size(b) + 1 <= 2 * c.capacity
    <3> DEFINE u == Len(b.B1)
    <3>1. /\ Len(b.T1) + Len(b.B1) + 1 = t1 + u + 1
          /\ all_size(b) + 1 = t1 + t2 + u + b2 + 1
      BY <2>3 DEF all_size, actual_size
    <3>2. u = b1 - 1
      BY <2>3
    <3> HIDE DEF t1, t2, b1, b2, u
    <3>3. t1 + u + 1 <= c.capacity /\ t1 + t2 + u + b2 + 1 <= 2 * c.capacity
      BY <1>1, <1>2, <3>2
    <3> QED BY <3>1, <3>3
  <2>5. Room(c, b)
    BY <2>3, <2>4 DEF Room, cached, ghosts
  <2>6. ~(t1 >= c.capacity)
    <3> HIDE DEF t1, t2, b1, b2
    <3> QED BY <1>1, <1>6
  <2>7. make_place(c) = replace(b, FALSE)
    BY <1>6, <2>6 DEF make_place, b
  <2> QED BY <2>5, <2>7, RoomReplaced
<1>7. CASE first_half_full(c) /\ t1 >= c.capacity
  <2>1. t1 # 0
    <3> HIDE DEF t1, t2, b1, b2
    <3> QED BY <1>1, <1>7
  <2>2. c.T1 # <<>>
    BY <2>1, <1>3, EmptyRange
  <2>3. ~(t1 < c.capacity)
    <3> HIDE DEF t1, t2, b1, b2
    <3> QED BY <1>1, <1>7
  <2>4. make_place(c) = [c EXCEPT !.T1 = pop_back(c.T1), !.stat_ev = inc(c.stat_ev)]
    BY <1>7, <2>3 DEF make_place
  <2> QED BY <1>7, <2>2, <2>4, DropT1
<1>8. CASE ~first_half_full(c) /\ ~directory_full(c)
  <2>1. t1 + b1 + 1 <= c.capacity /\ all_size(c) + 1 <= 2 * c.capacity
    <3>1. t1 + t2 + b1 + b2 # 2 * c.capacity
      BY <1>5, <1>8 DEF directory_full
    <3> HIDE DEF t1, t2, b1, b2
    <3> QED BY <1>1, <1>2, <1>4, <1>5, <1>8, <3>1
  <2>2. Room(c, c)
    BY <2>1 DEF Room, CacheInv
  <2>3. make_place(c) = replace(c, FALSE) \/ make_place(c) = c
    BY <1>8 DEF make_place
  <2> QED BY <2>2, <2>3, RoomReplaced
<1>9. CASE ~first_half_full(c) /\ directory_full(c)
  <2> DEFINE b == forget(c, "B2")
  <2>1. c.B2 # <<>>
    BY <1>9 DEF undefined
  <2>2. /\ Sound(b) /\ b.capacity = c.capacity
        /\ b.T1 = c.T1 /\ b.T2 = c.T2 /\ b.B1 = c.B1
        /\ Range(b.B2) \subseteq Range(c.B2) /\ Len(b.B2) = b2 - 1
    BY <2>1, ForgetB2 DEF CacheInv
  <2> HIDE DEF b
  <2>3. Len(b.T1) + Len(b.B1) + 1 <= c.capacity /\ all_size(b) + 1 <= 2 * c.capacity
    <3> DEFINE u == Len(b.B2)
    <3>1. /\ Len(b.T1) + Len(b.B1) + 1 = t1 + b1 + 1
          /\ all_size(b) + 1 = t1 + t2 + b1 + u + 1
      BY <2>2 DEF all_size, actual_size
    <3>2. u = b2 - 1
      BY <2>2
    <3>3. t1 + b1 # c.capacity
      BY <1>4, <1>9
    <3> HIDE DEF t1, t2, b1, b2, u
    <3>4. t1 + b1 + 1 <= c.capacity /\ t1 + t2 + b1 + u + 1 <= 2 * c.capacity
      BY <1>1, <1>2, <3>2, <3>3
    <3> QED BY <3>1, <3>4
  <2>4. Room(c, b)
    BY <2>2, <2>3 DEF Room, cached, ghosts
  <2>5. cache_full(c)
    <3>1. t1 + t2 + b1 + b2 = 2 * c.capacity
      BY <1>5, <1>9 DEF directory_full
    <3>2. cache_full(c) <=> t1 + t2 + b1 + b2 >= c.capacity
      BY <1>5 DEF cache_full
    <3> HIDE DEF t1, t2, b1, b2
    <3> QED BY <1>1, <3>1, <3>2
  <2>6. make_place(c) = replace(b, FALSE)
    BY <1>9, <2>5 DEF make_place, b
  <2> QED BY <2>4, <2>6, RoomReplaced
<1>10. t1 < c.capacity \/ t1 >= c.capacity
  BY <1>1
<1> QED
  BY <1>6, <1>7, <1>8, <1>9, <1>10

(* Case 4, and the key in front of T1.                                     *)
LEMMA NewKeyKeeps ==
  ASSUME Word \in Nat \ {0}, NEW c, CacheInv(c), NEW k \in Key,
         k \notin cached(c) \cup c.in_ghost, ~undefined(c, k)
  PROVE  CacheInv(new_key(c, k)) /\ new_key(c, k).capacity = c.capacity
<1> DEFINE s == make_place(c)
           d == new_key(c, k)
<1>1. Room(c, s)
  BY MakesPlace
<1>2. d = [s EXCEPT !.T1 = <<k>> \o s.T1, !.stat_miss = inc(s.stat_miss)]
  BY DEF new_key, push_front
<1> HIDE DEF s, d
<1>3. s.T1 \in Seq(Key) /\ Inj(s.T1) /\ s \in CacheType /\ s.stat_miss \in Int
  BY <1>1 DEF Room, Sound, Apart, CacheType
<1>4. k \notin cached(s) \cup ghosts(s)
  BY <1>1 DEF Room, CacheInv, Sound, Apart, ghosts
<1>5. /\ <<k>> \o s.T1 \in Seq(Key) /\ Inj(<<k>> \o s.T1)
      /\ Range(<<k>> \o s.T1) = Range(s.T1) \cup {k}
      /\ Len(<<k>> \o s.T1) = Len(s.T1) + 1
  BY <1>3, <1>4, PushFrontProps DEF cached
<1>6. inc(s.stat_miss) \in 0..(Word - 1)
  <2>1. s.stat_miss + 1 \in Int
    BY <1>3
  <2> QED BY <2>1, Uint DEF inc
<1>7. /\ d \in CacheType /\ d.capacity = s.capacity
      /\ d.T1 = <<k>> \o s.T1 /\ d.T2 = s.T2 /\ d.B1 = s.B1 /\ d.B2 = s.B2
      /\ d.in_ghost = s.in_ghost
  BY <1>2, <1>3, <1>5, <1>6 DEF CacheType
<1>8. Apart(d)
  BY <1>1, <1>4, <1>5, <1>7 DEF Room, Sound, Apart, cached, ghosts
<1>9. DirectoryBoundOf(d)
  <2> DEFINE s1 == Len(s.T1)  s2 == Len(s.T2)  s3 == Len(s.B1)  s4 == Len(s.B2)  u1 == Len(d.T1)
  <2>1. u1 = s1 + 1
    BY <1>5, <1>7
  <2>2. s1 \in Nat /\ s2 \in Nat /\ s3 \in Nat /\ s4 \in Nat /\ d.capacity \in Nat
    BY <1>1, <1>7, Lengths DEF Room
  <2>3. s1 + s3 + 1 <= d.capacity /\ s1 + s2 + s3 + s4 + 1 <= 2 * d.capacity
    BY <1>1, <1>7 DEF Room, all_size, actual_size
  <2>4. DirectoryBoundOf(d) <=> u1 + s3 <= d.capacity /\ u1 + s2 + s3 + s4 <= 2 * d.capacity
    BY <1>7 DEF DirectoryBoundOf, all_size, actual_size
  <2> HIDE DEF s1, s2, s3, s4, u1
  <2> QED BY <2>1, <2>2, <2>3, <2>4
<1>10. d.capacity = c.capacity
  BY <1>1, <1>7 DEF Room
<1> QED
  BY <1>7, <1>8, <1>9, <1>10 DEF CacheInv, Sound, d

(* No case of access harms the lists or outgrows the directory.            *)
LEMMA AccessKeeps ==
  ASSUME Word \in Nat \ {0}, NEW c, CacheInv(c), NEW k \in Key, ~undefined(c, k)
  PROVE  CacheInv(access(c, k)) /\ access(c, k).capacity = c.capacity
<1>1. CASE k \in cached(c)
  <2>1. access(c, k) = hit(c, k)
    BY <1>1 DEF access
  <2> QED BY <1>1, <2>1, HitKeeps
<1>2. CASE k \in c.in_ghost \ cached(c)
  <2>1. access(c, k) = ghost_hit(c, k)
    BY <1>2 DEF access
  <2>2. k \in ghosts(c)
    BY <1>2 DEF CacheInv, Sound, Apart, ghosts
  <2> QED BY <2>1, <2>2, GhostHitKeeps
<1>3. CASE k \notin cached(c) \cup c.in_ghost
  <2>1. access(c, k) = new_key(c, k)
    BY <1>3 DEF access
  <2> QED BY <1>3, <2>1, NewKeyKeeps
<1> QED
  BY <1>1, <1>2, <1>3

-----------------------------------------------------------------------------
(* What access does to the counters and to the number of cached keys.      *)

(* Keys are remembered only since the cache was full for the first time,   *)
(* and it never gets smaller.                                              *)
Filled(c) == ghosts(c) # {} => actual_size(c) >= c.capacity

(* An eviction; and a cache replace takes nothing from.                    *)
Shrinks(b, s) ==
  /\ s.p = b.p /\ s.stat_hit = b.stat_hit /\ s.stat_miss = b.stat_miss
  /\ s.stat_ev = inc(b.stat_ev) /\ actual_size(s) = actual_size(b) - 1

Stuck(b, in_b2) ==
  b.T2 = <<>> /\ (b.T1 # <<>> => ~(Len(b.T1) > b.p) /\ ~(in_b2 /\ Len(b.T1) = b.p))

LEMMA ReplaceCounts ==
  ASSUME Word \in Nat \ {0}, NEW b, Sound(b), NEW in_b2
  PROVE  \/ Shrinks(b, replace(b, in_b2))
         \/ replace(b, in_b2) = b /\ Stuck(b, in_b2)
<1> DEFINE s == replace(b, in_b2)
           from_T1 == b.T1 # <<>> /\ (Len(b.T1) > b.p \/ (in_b2 /\ Len(b.T1) = b.p))
<1>1. /\ b \in CacheType /\ b.T1 \in Seq(Key) /\ b.T2 \in Seq(Key) /\ Inj(b.T1) /\ Inj(b.T2)
      /\ Len(b.T1) \in Nat /\ Len(b.T2) \in Nat
  BY Lengths DEF Sound, Apart
<1>2. CASE from_T1
  <2>1. s = [b EXCEPT !.T1 = Front(b.T1), !.B1 = <<Last(b.T1)>> \o b.B1,
                      !.in_ghost = b.in_ghost \cup {Last(b.T1)}, !.stat_ev = inc(b.stat_ev)]
    BY <1>2 DEF replace, evict, pop_back, push_front, back
  <2>2. Len(Front(b.T1)) = Len(b.T1) - 1
    BY <1>1, <1>2, PopBackProps
  <2> HIDE DEF s
  <2>3. /\ s.T1 = Front(b.T1) /\ s.T2 = b.T2 /\ s.p = b.p
        /\ s.stat_hit = b.stat_hit /\ s.stat_miss = b.stat_miss /\ s.stat_ev = inc(b.stat_ev)
    BY <1>1, <2>1 DEF CacheType
  <2>4. actual_size(s) = actual_size(b) - 1
    <3> DEFINE x == Len(b.T1)  y == Len(b.T2)  z == Len(s.T1)
    <3>1. z = x - 1 /\ x \in Nat /\ y \in Nat
      BY <1>1, <2>2, <2>3
    <3>2. actual_size(b) = x + y /\ actual_size(s) = z + y
      BY <2>3 DEF actual_size
    <3> HIDE DEF x, y, z
    <3> QED BY <3>1, <3>2
  <2> QED BY <2>3, <2>4 DEF Shrinks, s
<1>3. CASE ~from_T1 /\ b.T2 # <<>>
  <2>1. s = [b EXCEPT !.T2 = Front(b.T2), !.B2 = <<Last(b.T2)>> \o b.B2,
                      !.in_ghost = b.in_ghost \cup {Last(b.T2)}, !.stat_ev = inc(b.stat_ev)]
    BY <1>3 DEF replace, evict, pop_back, push_front, back
  <2>2. Len(Front(b.T2)) = Len(b.T2) - 1
    BY <1>1, <1>3, PopBackProps
  <2> HIDE DEF s
  <2>3. /\ s.T2 = Front(b.T2) /\ s.T1 = b.T1 /\ s.p = b.p
        /\ s.stat_hit = b.stat_hit /\ s.stat_miss = b.stat_miss /\ s.stat_ev = inc(b.stat_ev)
    BY <1>1, <2>1 DEF CacheType
  <2>4. actual_size(s) = actual_size(b) - 1
    <3> DEFINE x == Len(b.T1)  y == Len(b.T2)  z == Len(s.T2)
    <3>1. z = y - 1 /\ x \in Nat /\ y \in Nat
      BY <1>1, <2>2, <2>3
    <3>2. actual_size(b) = x + y /\ actual_size(s) = x + z
      BY <2>3 DEF actual_size
    <3> HIDE DEF x, y, z
    <3> QED BY <3>1, <3>2
  <2> QED BY <2>3, <2>4 DEF Shrinks, s
<1>4. CASE ~from_T1 /\ b.T2 = <<>>
  <2>1. s = b
    BY <1>4 DEF replace
  <2>2. Stuck(b, in_b2)
    BY <1>4 DEF Stuck
  <2> QED BY <2>1, <2>2
<1> QED BY <1>2, <1>3, <1>4

(* A miss evicts a key from a full cache, or makes the cache grow: beyond  *)
(* its capacity only if the target is.                                     *)
Misses(c, d) ==
  /\ d.stat_hit = c.stat_hit /\ d.stat_miss = inc(c.stat_miss)
  /\ \/ /\ d.stat_ev = inc(c.stat_ev) /\ actual_size(d) = actual_size(c)
        /\ actual_size(c) >= c.capacity
     \/ /\ d.stat_ev = c.stat_ev /\ actual_size(d) = actual_size(c) + 1
        /\ ghosts(d) \subseteq ghosts(c)
        /\ c.p <= c.capacity /\ d.p <= c.capacity => actual_size(c) # c.capacity

Hits(c, d) ==
  /\ d.stat_hit = inc(c.stat_hit) /\ d.stat_miss = c.stat_miss /\ d.stat_ev = c.stat_ev
  /\ actual_size(d) = actual_size(c) /\ ghosts(d) = ghosts(c)

LEMMA HitCounts ==
  ASSUME NEW c, CacheInv(c), NEW k \in cached(c)
  PROVE  Hits(c, hit(c, k))
<1> DEFINE d == hit(c, k)
           r1 == RemoveFirst(c.T1, k)
           r2 == RemoveFirst(c.T2, k)
<1>1. /\ c.T1 \in Seq(Key) /\ c.T2 \in Seq(Key) /\ Inj(c.T1) /\ Inj(c.T2) /\ c \in CacheType
      /\ Len(c.T1) \in Nat /\ Len(c.T2) \in Nat
  BY Lengths DEF CacheInv, Sound, Apart
<1>2. k \in Key
  BY <1>1, EmptyRange DEF cached
<1>3. /\ r2 \in Seq(Key) /\ Inj(r2) /\ Range(r2) = Range(c.T2) \ {k}
      /\ Len(r1) = IF k \in Range(c.T1) THEN Len(c.T1) - 1 ELSE Len(c.T1)
      /\ Len(r2) = IF k \in Range(c.T2) THEN Len(c.T2) - 1 ELSE Len(c.T2)
  BY <1>1, RemoveFirstProps
<1>4. d = [c EXCEPT !.T1 = r1, !.T2 = <<k>> \o r2, !.stat_hit = inc(c.stat_hit)]
  BY DEF hit, without, push_front
<1> HIDE DEF d, r1, r2
<1>5. Len(<<k>> \o r2) = Len(r2) + 1
  BY <1>2, <1>3, PushFrontProps
<1>6. /\ d.T1 = r1 /\ d.T2 = <<k>> \o r2 /\ d.B1 = c.B1 /\ d.B2 = c.B2
      /\ d.stat_hit = inc(c.stat_hit) /\ d.stat_miss = c.stat_miss /\ d.stat_ev = c.stat_ev
  BY <1>1, <1>4 DEF CacheType
<1>7. k \in Range(c.T1) <=> k \notin Range(c.T2)
  BY DEF CacheInv, Sound, Apart, cached
<1>8. actual_size(d) = actual_size(c)
  <2> DEFINE x == Len(c.T1)  y == Len(c.T2)  u == Len(d.T1)  v == Len(d.T2)
  <2>1. /\ u = IF k \in Range(c.T1) THEN x - 1 ELSE x
        /\ v = IF k \in Range(c.T2) THEN y - 1 + 1 ELSE y + 1
        /\ x \in Nat /\ y \in Nat
    BY <1>1, <1>3, <1>5, <1>6
  <2>2. actual_size(c) = x + y /\ actual_size(d) = u + v
    BY DEF actual_size
  <2> HIDE DEF x, y, u, v
  <2>3. CASE k \in Range(c.T1)
    BY <1>7, <2>1, <2>2, <2>3
  <2>4. CASE k \notin Range(c.T1)
    BY <1>7, <2>1, <2>2, <2>4
  <2> QED BY <2>3, <2>4
<1> QED BY <1>6, <1>8 DEF Hits, ghosts, d

LEMMA SizeIsNat ==
  ASSUME NEW c, Sound(c)
  PROVE  actual_size(c) \in Nat /\ actual_size(c) = Len(c.T1) + Len(c.T2)
<1> DEFINE x == Len(c.T1)  y == Len(c.T2)
<1>1. x \in Nat /\ y \in Nat
  BY Lengths
<1>2. actual_size(c) = x + y
  BY DEF actual_size
<1>3. x + y \in Nat
  <2> HIDE DEF x, y
  <2> QED BY <1>1
<1> QED BY <1>2, <1>3

(* Cases 2 and 3: replace finds a key to evict from a full cache.          *)
LEMMA GhostHitCounts ==
  ASSUME Word \in Nat \ {0}, NEW c, CacheInv(c), Filled(c), NEW k \in ghosts(c)
  PROVE  Misses(c, ghost_hit(c, k))
<1> DEFINE in_b2 == k \notin Range(c.B1)
           q == IF in_b2 THEN smaller_p(c) ELSE larger_p(c)
           b == [c EXCEPT !.p = q]
           s == replace(b, in_b2)
           d == ghost_hit(c, k)
<1>1. /\ c.T1 \in Seq(Key) /\ c.T2 \in Seq(Key) /\ c.B1 \in Seq(Key) /\ c.B2 \in Seq(Key)
      /\ c \in CacheType
  BY DEF CacheInv, Sound, CacheType
<1>2. k \in Key
  BY <1>1, EmptyRange DEF ghosts
<1>3. q \in 0..(Word - 1)
  BY <1>1, TargetInRange DEF ghosts
<1> HIDE DEF q
<1>4. /\ b \in CacheType /\ b.capacity = c.capacity /\ b.T1 = c.T1 /\ b.T2 = c.T2
      /\ b.B1 = c.B1 /\ b.B2 = c.B2 /\ b.in_ghost = c.in_ghost
      /\ b.p = q /\ b.stat_hit = c.stat_hit /\ b.stat_miss = c.stat_miss /\ b.stat_ev = c.stat_ev
  BY <1>1, <1>3 DEF CacheType
<1>5. d = [s EXCEPT !.T2 = <<k>> \o s.T2, !.B1 = RemoveFirst(s.B1, k), !.B2 = RemoveFirst(s.B2, k),
                    !.in_ghost = s.in_ghost \ {k}, !.stat_miss = inc(s.stat_miss)]
  BY DEF ghost_hit, without, push_front, b, q
<1> HIDE DEF b
<1>6. Sound(b)
  BY <1>4 DEF CacheInv, Sound, Apart
<1>7. Evicted(b, s)
  BY <1>6, ReplaceKeeps
<1> HIDE DEF in_b2
<1>8. Shrinks(b, s) \/ (s = b /\ Stuck(b, in_b2))
  BY <1>6, ReplaceCounts
<1> HIDE DEF s, d
<1>9. /\ s.T2 \in Seq(Key) /\ s.B1 \in Seq(Key) /\ s.B2 \in Seq(Key)
      /\ Inj(s.T2) /\ Inj(s.B1) /\ Inj(s.B2) /\ s \in CacheType /\ Sound(s)
      /\ k \notin Range(s.T2)
  <2>1. Sound(s) /\ k \in Range(s.B1) \cup Range(s.B2)
    BY <1>4, <1>7 DEF Evicted, ghosts
  <2> QED BY <2>1 DEF Sound, Apart, CacheType
<1>10. Len(<<k>> \o s.T2) = Len(s.T2) + 1
  BY <1>2, <1>9, PushFrontProps
<1>11. /\ d.T1 = s.T1 /\ d.T2 = <<k>> \o s.T2 /\ d.p = s.p
       /\ d.B1 = RemoveFirst(s.B1, k) /\ d.B2 = RemoveFirst(s.B2, k)
       /\ d.stat_hit = s.stat_hit /\ d.stat_miss = inc(s.stat_miss) /\ d.stat_ev = s.stat_ev
  BY <1>5, <1>9 DEF CacheType
<1>12. actual_size(d) = actual_size(s) + 1
  <2> DEFINE x == Len(s.T1)  y == Len(s.T2)  v == Len(d.T2)
  <2>1. v = y + 1 /\ x \in Nat /\ y \in Nat
    BY <1>9, <1>10, <1>11, Lengths
  <2>2. actual_size(s) = x + y /\ actual_size(d) = x + v
    BY <1>11 DEF actual_size
  <2> HIDE DEF x, y, v
  <2> QED BY <2>1, <2>2
<1>13. actual_size(b) = actual_size(c) /\ actual_size(c) \in Nat /\ actual_size(s) \in Nat
  BY <1>4, <1>9, SizeIsNat DEF actual_size, CacheInv
<1>14. actual_size(c) >= c.capacity
  BY DEF Filled
<1>15. ASSUME Shrinks(b, s) PROVE Misses(c, d)
  <2>1. actual_size(d) = actual_size(c)
    BY <1>12, <1>13, <1>15 DEF Shrinks
  <2>2. /\ d.stat_hit = c.stat_hit /\ d.stat_miss = inc(c.stat_miss)
        /\ d.stat_ev = inc(c.stat_ev)
    BY <1>4, <1>11, <1>15 DEF Shrinks
  <2> QED BY <1>14, <2>1, <2>2 DEF Misses
<1>16. ASSUME s = b, Stuck(b, in_b2) PROVE Misses(c, d)
  <2>1. ghosts(d) \subseteq ghosts(c)
    <3>1. /\ Range(d.B1) = Range(c.B1) \ {k}
          /\ Range(d.B2) = Range(c.B2) \ {k}
      BY SMTT(60), <1>4, <1>9, <1>11, <1>16, RemoveFirstProps
    <3> QED BY <3>1 DEF ghosts
  <2>2. ASSUME d.p <= c.capacity, actual_size(c) = c.capacity
        PROVE  FALSE
    <3> DEFINE x == Len(c.T1)  y == Len(c.B1)  n == Len(c.T2)  z == Len(c.B2)
    <3>1. n = 0
      BY <1>1, <1>4, <1>16, EmptyRange DEF Stuck
    <3>2. /\ x \in Nat /\ y \in Nat /\ z \in Nat /\ c.capacity \in Nat
          /\ x + y <= c.capacity /\ x + n + y + z <= 2 * c.capacity
          /\ x + n = c.capacity
      BY <2>2, Lengths DEF CacheInv, DirectoryBoundOf, all_size, actual_size
    <3>3. d.p = q /\ q \in Nat
      BY <1>3, <1>4, <1>11, <1>16
    <3>4. k \in Range(c.B1) => y > 0
      BY <1>1, EmptyRange
    <3>5. k \in Range(c.B2) => z > 0
      BY <1>1, EmptyRange
    <3>6. x # 0 => ~(x > q) /\ ~(in_b2 /\ x = q)
      BY <1>1, <1>4, <1>16, EmptyRange DEF Stuck
    <3>7. k \in Range(c.B1) \cup Range(c.B2)
      BY DEF ghosts
    <3> HIDE DEF x, y, z, n
    <3>8. y = 0 /\ x = c.capacity
      BY <3>1, <3>2
    <3>9. in_b2 /\ z > 0
      BY <3>4, <3>5, <3>7, <3>8 DEF in_b2
    <3>10. x # 0
      BY <3>1, <3>2, <3>8, <3>9
    <3>11. x = q
      <4>1. ~(x > q)
        BY <3>6, <3>10
      <4>2. q <= c.capacity
        BY <2>2, <3>3
      <4> QED BY <3>2, <3>3, <3>8, <4>1, <4>2
    <3> QED BY <3>6, <3>9, <3>10, <3>11
  <2>3. /\ d.stat_hit = c.stat_hit /\ d.stat_miss = inc(c.stat_miss)
        /\ d.stat_ev = c.stat_ev
    BY <1>4, <1>11, <1>16
  <2>4. actual_size(d) = actual_size(c) + 1
    BY <1>12, <1>13, <1>16
  <2> QED BY <2>1, <2>2, <2>3, <2>4 DEF Misses
<1> QED BY <1>8, <1>15, <1>16 DEF d

(* Case 4: a place is made when the cache is full, and only then.          *)
Places(c, s) ==
  /\ s.stat_hit = c.stat_hit /\ s.stat_miss = c.stat_miss
  /\ \/ /\ s.stat_ev = inc(c.stat_ev) /\ actual_size(s) = actual_size(c) - 1
        /\ actual_size(c) >= c.capacity
     \/ /\ s.stat_ev = c.stat_ev /\ actual_size(s) = actual_size(c)
        /\ ghosts(s) \subseteq ghosts(c) /\ actual_size(c) # c.capacity

(* A cache that has filled its directory, or half of it, finds a key to    *)
(* evict, after it has forgotten one or not.                               *)
LEMMA ReplacePlaces ==
  ASSUME Word \in Nat \ {0}, NEW c, CacheInv(c), NEW b, Sound(b),
         b.T1 = c.T1, b.T2 = c.T2, ghosts(b) \subseteq ghosts(c),
         b.stat_hit = c.stat_hit, b.stat_miss = c.stat_miss, b.stat_ev = c.stat_ev,
         actual_size(c) >= c.capacity,
         c.T2 = <<>> => Len(c.T1) # c.capacity
  PROVE  Places(c, replace(b, FALSE))
<1> DEFINE s == replace(b, FALSE)
<1>1. Shrinks(b, s) \/ (s = b /\ Stuck(b, FALSE))
  BY ReplaceCounts
<1>2. actual_size(b) = actual_size(c)
  BY DEF actual_size
<1> HIDE DEF s
<1>3. ASSUME Shrinks(b, s) PROVE Places(c, s)
  BY <1>2, <1>3 DEF Shrinks, Places
<1>4. ASSUME s = b, Stuck(b, FALSE) PROVE Places(c, s)
  <2>1. actual_size(c) # c.capacity
    <3>1. c.T2 = <<>>
      BY <1>4 DEF Stuck
    <3> DEFINE x == Len(c.T1)  y == Len(c.T2)
    <3>2. actual_size(c) = x + y /\ y = 0 /\ x \in Nat
      BY <3>1, Lengths, EmptyRange DEF actual_size, CacheInv
    <3> HIDE DEF y
    <3>3. x # c.capacity
      BY <3>1
    <3> HIDE DEF x
    <3> QED BY <3>2, <3>3
  <2> QED BY <1>2, <1>4, <2>1 DEF Places
<1> QED BY <1>1, <1>3, <1>4 DEF s

LEMMA PlaceCounts ==
  ASSUME Word \in Nat \ {0}, NEW c, CacheInv(c), Filled(c), NEW k,
         k \notin cached(c) \cup c.in_ghost, ~undefined(c, k)
  PROVE  Places(c, make_place(c))
<1> DEFINE t1 == Len(c.T1)  t2 == Len(c.T2)  b1 == Len(c.B1)  b2 == Len(c.B2)
<1>1. /\ t1 \in Nat /\ t2 \in Nat /\ b1 \in Nat /\ b2 \in Nat
      /\ c.capacity \in Nat /\ c.capacity # 0
  BY Lengths DEF CacheInv, undefined
<1>2. /\ t1 + b1 <= c.capacity /\ t1 + t2 + b1 + b2 <= 2 * c.capacity
      /\ actual_size(c) = t1 + t2
      /\ all_size(c) = t1 + t2 + b1 + b2
  BY DEF CacheInv, DirectoryBoundOf, all_size, actual_size
<1>3. /\ c.T1 \in Seq(Key) /\ c.T2 \in Seq(Key) /\ c.B1 \in Seq(Key) /\ c.B2 \in Seq(Key)
      /\ c \in CacheType /\ Inj(c.T1) /\ Inj(c.B1)
  BY Lengths DEF CacheInv, Sound, Apart
<1>4. /\ first_half_full(c) <=> t1 + b1 = c.capacity
      /\ cache_full(c) <=> all_size(c) >= c.capacity
      /\ directory_full(c) <=> all_size(c) = 2 * c.capacity
  BY DEF first_half_full, cache_full, directory_full
<1>5. b1 > 0 \/ b2 > 0 => actual_size(c) >= c.capacity
  <2>1. ASSUME NEW t \in Seq(Key), Len(t) > 0 PROVE t[1] \in Range(t)
    BY <2>1, RangeEquality
  <2> QED BY <1>3, <2>1 DEF Filled, ghosts
<1>6. c.T2 = <<>> => t2 = 0
  BY <1>3, EmptyRange
<1>7. ASSUME first_half_full(c), t1 < c.capacity
      PROVE  Places(c, make_place(c))
  <2> DEFINE b == forget(c, "B1")
  <2>1. b1 > 0
    <3> HIDE DEF t1, b1
    <3> QED BY <1>1, <1>4, <1>7
  <2>2. c.B1 # <<>>
    BY <2>1, <1>3, EmptyRange
  <2>3. /\ Sound(b) /\ b.T1 = c.T1 /\ b.T2 = c.T2 /\ b.B2 = c.B2
        /\ Range(b.B1) \subseteq Range(c.B1)
    BY <2>2, ForgetB1 DEF CacheInv
  <2>4. b.stat_hit = c.stat_hit /\ b.stat_miss = c.stat_miss /\ b.stat_ev = c.stat_ev
    BY <1>3 DEF forget, CacheType
  <2>5. ~(t1 >= c.capacity)
    <3> HIDE DEF t1
    <3> QED BY <1>1, <1>7
  <2>6. make_place(c) = replace(b, FALSE)
    BY <1>7, <2>5 DEF make_place
  <2> HIDE DEF b
  <2>7. Len(c.T1) # c.capacity
    <3> HIDE DEF t1
    <3>1. t1 # c.capacity
      BY <1>1, <1>7
    <3> QED BY <3>1 DEF t1
  <2>8. ghosts(b) \subseteq ghosts(c)
    BY <2>3 DEF ghosts
  <2> QED BY <1>5, <2>1, <2>3, <2>4, <2>6, <2>7, <2>8, ReplacePlaces
<1>8. ASSUME first_half_full(c), t1 >= c.capacity
      PROVE  Places(c, make_place(c))
  <2> DEFINE s == [c EXCEPT !.T1 = Front(c.T1), !.stat_ev = inc(c.stat_ev)]
  <2>1. t1 # 0 /\ ~(t1 < c.capacity)
    <3> HIDE DEF t1
    <3> QED BY <1>1, <1>8
  <2>2. c.T1 # <<>>
    BY <2>1, <1>3, EmptyRange
  <2>3. make_place(c) = s
    BY <1>8, <2>1 DEF make_place, pop_back
  <2>4. /\ s.T1 = Front(c.T1) /\ s.T2 = c.T2
        /\ s.stat_hit = c.stat_hit /\ s.stat_miss = c.stat_miss /\ s.stat_ev = inc(c.stat_ev)
    BY <1>3 DEF CacheType
  <2> HIDE DEF s
  <2>5. Len(s.T1) = t1 - 1
    BY <1>3, <2>2, <2>4, PopBackProps
  <2>6. actual_size(s) = actual_size(c) - 1 /\ actual_size(c) >= c.capacity
    <3> DEFINE u == Len(s.T1)
    <3>1. actual_size(s) = u + t2
      BY <2>4 DEF actual_size
    <3>2. u = t1 - 1
      BY <2>5
    <3> HIDE DEF t1, t2, u, b1, b2
    <3> QED BY <1>1, <1>2, <1>8, <3>1, <3>2
  <2> QED BY <2>3, <2>4, <2>6 DEF Places
<1>9. ASSUME ~first_half_full(c), cache_full(c)
      PROVE  Places(c, make_place(c))
  <2> DEFINE b == IF directory_full(c) THEN forget(c, "B2") ELSE c
  <2>1. actual_size(c) >= c.capacity
    <3> HIDE DEF t1, t2, b1, b2
    <3> QED BY <1>1, <1>2, <1>4, <1>5, <1>9
  <2>2. directory_full(c) => c.B2 # <<>>
    BY <1>9 DEF undefined
  <2>3. /\ Sound(b) /\ b.T1 = c.T1 /\ b.T2 = c.T2 /\ b.B1 = c.B1
        /\ Range(b.B2) \subseteq Range(c.B2)
    BY <2>2, ForgetB2 DEF CacheInv
  <2>4. b.stat_hit = c.stat_hit /\ b.stat_miss = c.stat_miss /\ b.stat_ev = c.stat_ev
    BY <1>3 DEF forget, CacheType
  <2>5. make_place(c) = replace(b, FALSE)
    BY <1>9 DEF make_place
  <2> HIDE DEF b
  <2>6. Len(c.T1) # c.capacity
    <3> HIDE DEF t1, t2, b1, b2
    <3>1. t1 # c.capacity
      BY <1>1, <1>2, <1>4, <1>9
    <3> QED BY <3>1 DEF t1
  <2>7. ghosts(b) \subseteq ghosts(c)
    BY <2>3 DEF ghosts
  <2> QED BY <2>1, <2>3, <2>4, <2>5, <2>6, <2>7, ReplacePlaces
<1>10. ASSUME ~first_half_full(c), ~cache_full(c)
       PROVE  Places(c, make_place(c))
  <2>1. make_place(c) = c
    BY <1>10 DEF make_place
  <2>2. actual_size(c) # c.capacity
    <3> HIDE DEF t1, t2, b1, b2
    <3> QED BY <1>1, <1>2, <1>4, <1>10
  <2> QED BY <2>1, <2>2 DEF Places
<1>11. t1 < c.capacity \/ t1 >= c.capacity
  BY <1>1
<1> QED BY <1>7, <1>8, <1>9, <1>10, <1>11

LEMMA NewKeyCounts ==
  ASSUME Word \in Nat \ {0}, NEW c, CacheInv(c), Filled(c), NEW k \in Key,
         k \notin cached(c) \cup c.in_ghost, ~undefined(c, k)
  PROVE  Misses(c, new_key(c, k))
<1> DEFINE s == make_place(c)
           d == new_key(c, k)
<1>1. Room(c, s) /\ Places(c, s)
  BY MakesPlace, PlaceCounts
<1>2. d = [s EXCEPT !.T1 = <<k>> \o s.T1, !.stat_miss = inc(s.stat_miss)]
  BY DEF new_key, push_front
<1> HIDE DEF s, d
<1>3. s.T1 \in Seq(Key) /\ Inj(s.T1) /\ s \in CacheType
  BY <1>1 DEF Room, Sound, Apart, CacheType
<1>4. k \notin Range(s.T1)
  BY <1>1 DEF Room, CacheInv, Sound, Apart, ghosts, cached
<1>5. Len(<<k>> \o s.T1) = Len(s.T1) + 1
  BY <1>3, <1>4, PushFrontProps
<1>6. /\ d.T1 = <<k>> \o s.T1 /\ d.T2 = s.T2 /\ d.B1 = s.B1 /\ d.B2 = s.B2
      /\ d.stat_hit = s.stat_hit /\ d.stat_miss = inc(s.stat_miss) /\ d.stat_ev = s.stat_ev
  BY <1>2, <1>3 DEF CacheType
<1>7. actual_size(d) = actual_size(s) + 1
  <2> DEFINE x == Len(s.T1)  y == Len(s.T2)  u == Len(d.T1)
  <2>1. u = x + 1 /\ x \in Nat /\ y \in Nat
    BY <1>1, <1>5, <1>6, Lengths DEF Room
  <2>2. actual_size(s) = x + y /\ actual_size(d) = u + y
    BY <1>6 DEF actual_size
  <2> HIDE DEF x, y, u
  <2> QED BY <2>1, <2>2
<1>8. ghosts(d) = ghosts(s)
  BY <1>6 DEF ghosts
<1>9. actual_size(c) \in Nat /\ actual_size(s) \in Nat
  BY <1>1, SizeIsNat DEF CacheInv, Room
<1> QED BY <1>1, <1>6, <1>7, <1>8, <1>9 DEF Places, Misses, d

(* Each access is a hit or a miss, and counted as such.                    *)
LEMMA AccessCounts ==
  ASSUME Word \in Nat \ {0}, NEW c, CacheInv(c), Filled(c), NEW k \in Key, ~undefined(c, k)
  PROVE  Hits(c, access(c, k)) \/ Misses(c, access(c, k))
<1>1. CASE k \in cached(c)
  <2>1. access(c, k) = hit(c, k)
    BY <1>1 DEF access
  <2> QED BY <1>1, <2>1, HitCounts
<1>2. CASE k \in c.in_ghost \ cached(c)
  <2>1. access(c, k) = ghost_hit(c, k)
    BY <1>2 DEF access
  <2>2. k \in ghosts(c)
    BY <1>2 DEF CacheInv, Sound, Apart, ghosts
  <2> QED BY <2>1, <2>2, GhostHitCounts
<1>3. CASE k \notin cached(c) \cup c.in_ghost
  <2>1. access(c, k) = new_key(c, k)
    BY <1>3 DEF access
  <2> QED BY <1>3, <2>1, NewKeyCounts
<1> QED
  BY <1>1, <1>2, <1>3

(* The counters are far from wrapping around, and a cache evicts only keys *)
(* that missed.                                                            *)
total(c) == c.stat_hit + c.stat_miss
Counted(c) == total(c) <= MaxStat /\ c.stat_ev <= c.stat_miss /\ Filled(c)

LEMMA Small ==
  ASSUME NEW w \in Nat \ {0}, NEW n \in Nat, n < w
  PROVE  n % w = n
OBVIOUS

LEMMA CounterTypes ==
  ASSUME NEW c, CacheInv(c)
  PROVE  /\ c.stat_hit \in Nat /\ c.stat_miss \in Nat /\ c.stat_ev \in Nat
         /\ actual_size(c) \in Nat /\ c.capacity \in Nat /\ c.p \in Nat
<1>1. c \in CacheType /\ actual_size(c) \in Nat
  BY SizeIsNat DEF CacheInv, Sound
<1> QED BY <1>1 DEF CacheType

LEMMA AccessesIsTotal ==
  ASSUME Word \in Nat \ {0}, MaxStat \in Nat, MaxStat < Word, NEW c, CacheInv(c), Counted(c)
  PROVE  Accesses(c) = total(c) /\ total(c) \in Nat
<1>1. total(c) \in Nat /\ total(c) < Word
  BY CounterTypes DEF Counted, total
<1> QED BY <1>1, Small DEF Accesses, total

(* What an access does that does not take a counter to its bound.          *)
Effect(c, d) ==
  /\ Counted(d) /\ total(d) = total(c) + 1
  /\ actual_size(d) - actual_size(c) = (d.stat_miss - c.stat_miss) - (d.stat_ev - c.stat_ev)
  /\ d.stat_ev > c.stat_ev => actual_size(c) >= c.capacity
  /\ StaysWithin(c, d)

LEMMA AccessEffect ==
  ASSUME Word \in Nat \ {0}, MaxStat \in Nat, MaxStat < Word,
         NEW c, CacheInv(c), Counted(c), total(c) < MaxStat,
         NEW k \in Key, ~undefined(c, k)
  PROVE  Effect(c, access(c, k))
<1> DEFINE d == access(c, k)
           h == c.stat_hit  m == c.stat_miss  v == c.stat_ev  n == actual_size(c)
           n1 == actual_size(d)
<1>1. CacheInv(d) /\ d.capacity = c.capacity
  BY AccessKeeps
<1>2. Hits(c, d) \/ Misses(c, d)
  BY AccessCounts DEF Counted
<1> HIDE DEF d
<1>3. h \in Nat /\ m \in Nat /\ v \in Nat /\ n \in Nat /\ n1 \in Nat /\ c.capacity \in Nat
  BY <1>1, CounterTypes
<1>4. total(c) = h + m /\ v <= m /\ h + m < MaxStat /\ (ghosts(c) # {} => n >= c.capacity)
  BY DEF Counted, total, Filled
<1> HIDE DEF h, m, v, n, n1
<1>5. inc(h) = h + 1 /\ inc(m) = m + 1 /\ inc(v) = v + 1
  <2>1. h + 1 < Word /\ m + 1 < Word /\ v + 1 < Word
    BY <1>3, <1>4
  <2> QED BY <1>3, <2>1, Small DEF inc
<1>6. ASSUME Hits(c, d) PROVE Effect(c, d)
  <2>1. /\ d.stat_hit = h + 1 /\ d.stat_miss = m /\ d.stat_ev = v /\ n1 = n
        /\ ghosts(d) = ghosts(c)
    BY <1>5, <1>6 DEF Hits, h, m, v, n, n1
  <2>2. total(d) = total(c) + 1 /\ total(d) <= MaxStat
    BY <1>3, <1>4, <2>1 DEF total
  <2>3. Counted(d)
    BY <1>1, <1>4, <2>1, <2>2 DEF Counted, Filled, n1
  <2>4. /\ n1 - n = (d.stat_miss - m) - (d.stat_ev - v)
        /\ ~(d.stat_ev > v)
    BY <1>3, <2>1
  <2>5. StaysWithin(c, d)
    BY <1>1, <2>1 DEF StaysWithin, WithinCapacityOf, n, n1
  <2> QED BY <2>2, <2>3, <2>4, <2>5 DEF Effect, m, v, n, n1
<1>7. ASSUME Misses(c, d) PROVE Effect(c, d)
  <2>1. /\ d.stat_hit = h /\ d.stat_miss = m + 1
        /\ \/ d.stat_ev = v + 1 /\ n1 = n /\ n >= c.capacity
           \/ /\ d.stat_ev = v /\ n1 = n + 1 /\ ghosts(d) \subseteq ghosts(c)
              /\ c.p <= c.capacity /\ d.p <= c.capacity => n # c.capacity
    BY <1>5, <1>7 DEF Misses, h, m, v, n, n1
  <2>2. total(d) = total(c) + 1 /\ total(d) <= MaxStat
    BY <1>3, <1>4, <2>1 DEF total
  <2>3. Counted(d)
    <3>1. d.stat_ev <= d.stat_miss
      BY <1>3, <1>4, <2>1
    <3>2. ghosts(d) # {} => n1 >= c.capacity
      BY <1>3, <1>4, <2>1
    <3> QED BY <1>1, <2>2, <3>1, <3>2 DEF Counted, Filled, n1
  <2>4. /\ n1 - n = (d.stat_miss - m) - (d.stat_ev - v)
        /\ d.stat_ev > v => n >= c.capacity
    BY <1>3, <2>1
  <2>5. c.p <= c.capacity /\ d.p <= c.capacity /\ n <= c.capacity => n1 <= c.capacity
    BY <1>3, <2>1
  <2>6. StaysWithin(c, d)
    BY <1>1, <2>5 DEF StaysWithin, WithinCapacityOf, n, n1
  <2> QED BY <2>2, <2>3, <2>4, <2>6 DEF Effect, m, v, n, n1
<1> QED BY <1>2, <1>6, <1>7 DEF d

(***************************************************************************)
(* The curve.                                                              *)
(***************************************************************************)
(* The types, and CacheInv of every cache.                                 *)
Inv ==
  /\ args \in Args
  /\ i \in 0..(Word - 1) /\ pc \in {"loop", "made"}
  /\ \A s \in Sizes : CacheInv(cache_list[s]) /\ cache_list[s].capacity = s

(* What it implies.                                                        *)
LEMMA InvSuffices == Inv => TypeOK /\ ListsAgree /\ DirectoryBound
<1> SUFFICES ASSUME Inv PROVE TypeOK /\ ListsAgree /\ DirectoryBound
  OBVIOUS
<1>1. ASSUME NEW s \in Sizes
      PROVE  /\ cache_list[s] \in CacheType /\ cache_list[s].capacity = s
             /\ ListsAgreeIn(cache_list[s]) /\ DirectoryBoundOf(cache_list[s])
  BY ApartIsAgree DEF Inv, CacheInv, Sound
<1> QED
  BY <1>1 DEF Inv, TypeOK, ListsAgree, DirectoryBound

(* The constructor of ARC_cache.                                           *)
LEMMA NewCache ==
  ASSUME Word \in Nat \ {0}, NEW n \in 0..(Word - 1)
  PROVE  CacheInv(ARC_cache(n)) /\ ARC_cache(n).capacity = n
<1> DEFINE c == ARC_cache(n)
<1>1. /\ c.capacity = n /\ c.T1 = <<>> /\ c.T2 = <<>> /\ c.B1 = <<>> /\ c.B2 = <<>>
      /\ c.in_ghost = {}
  BY DEF ARC_cache
<1>2. <<>> \in Seq(Key) /\ Inj(<<>>) /\ Len(<<>>) = 0
  BY DEF Inj
<1>3. \A e : e \notin Range(<<>>)
  BY <1>2 DEF Range
<1>4. c \in CacheType
  BY <1>2 DEF ARC_cache, CacheType
<1> HIDE DEF c
<1>5. Apart(c)
  BY <1>1, <1>2, <1>3 DEF Apart
<1>6. all_size(c) = 0 /\ Len(c.T1) + Len(c.B1) = 0
  BY <1>1, <1>2 DEF all_size, actual_size
<1> QED
  BY <1>1, <1>4, <1>5, <1>6 DEF CacheInv, Sound, DirectoryBoundOf, c

(* rst_stat touches the counters only.                                     *)
LEMMA RstStatKeeps ==
  ASSUME Word \in Nat \ {0}, NEW c, CacheInv(c)
  PROVE  CacheInv(rst_stat(c)) /\ rst_stat(c).capacity = c.capacity
<1> DEFINE d == rst_stat(c)
<1>1. c \in CacheType /\ 0 \in 0..(Word - 1)
  BY DEF CacheInv, Sound
<1>2. /\ d \in CacheType /\ d.capacity = c.capacity
      /\ d.T1 = c.T1 /\ d.T2 = c.T2 /\ d.B1 = c.B1 /\ d.B2 = c.B2 /\ d.in_ghost = c.in_ghost
  BY <1>1 DEF rst_stat, CacheType
<1> HIDE DEF d
<1> QED
  BY <1>2 DEF CacheInv, Sound, Apart, DirectoryBoundOf, all_size, actual_size, d

(* There is no point before the constructor runs.                          *)
LEMMA InitInv == Init => Inv
<1> SUFFICES ASSUME Init PROVE Inv
  OBVIOUS
<1>1. i \in 0..(Word - 1)
  BY ArgsAssumption DEF Init
<1>2. Sizes = {}
  BY DEF Init, Sizes
<1> QED
  BY <1>1, <1>2 DEF Init, Inv

(* Each step of the curve.                                                 *)
LEMMA NextInv == Inv /\ [Next]_vars => Inv'
<1> SUFFICES ASSUME Inv, [Next]_vars PROVE Inv'
  OBVIOUS
<1>1. Word \in Nat \ {0}
  BY ArgsAssumption DEF Inv
<1>2. init_ticks(args) \in Int
  BY <1>1, ArgsAssumption DEF Inv, init_ticks
<1>3. CASE AddPoint
  <2>1. cache_list' = [s \in Sizes \cup {i} |-> IF s \in Sizes THEN cache_list[s] ELSE ARC_cache(i)]
    BY <1>3 DEF AddPoint, inserted
  <2>2. Sizes' = Sizes \cup {i}
    BY <2>1 DEF Sizes
  <2>3. ASSUME NEW s \in Sizes'
        PROVE  CacheInv(cache_list'[s]) /\ cache_list'[s].capacity = s
    <3>1. cache_list'[s] = IF s \in Sizes THEN cache_list[s] ELSE ARC_cache(i)
      BY <2>1, <2>2
    <3>2. CASE s \in Sizes
      BY <3>1, <3>2 DEF Inv
    <3>3. CASE s \notin Sizes
      BY <3>1, <3>3, <2>2, <1>1, NewCache DEF Inv
    <3> QED BY <3>2, <3>3
  <2>4. i' \in 0..(Word - 1)
    <3>1. i + init_ticks(args) \in Int
      BY <1>2 DEF Inv
    <3> QED BY <1>1, <1>3, <3>1, Uint DEF AddPoint
  <2> QED BY <1>3, <2>3, <2>4 DEF AddPoint, Inv, CacheInv
<1>4. CASE EndLoop
  BY <1>4 DEF EndLoop, Inv, Sizes
<1>5. ASSUME NEW k \in args.keys, Access(k) PROVE Inv'
  <2>1. k \in Key
    BY ArgsAssumption DEF Inv
  <2>2. cache_list' = [s \in Sizes |-> access(cache_list[s], k)]
    BY <1>5 DEF Access
  <2>3. ASSUME NEW s \in Sizes
        PROVE  CacheInv(cache_list'[s]) /\ cache_list'[s].capacity = s
    <3>1. ~undefined(cache_list[s], k)
      BY <1>5 DEF Access
    <3> QED BY <1>1, <2>1, <2>2, <3>1, AccessKeeps DEF Inv
  <2> QED BY <1>5, <2>2, <2>3 DEF Access, Inv, Sizes
<1>6. CASE reset_stat
  <2>1. cache_list' = [s \in Sizes |-> rst_stat(cache_list[s])]
    BY <1>6 DEF reset_stat
  <2>2. ASSUME NEW s \in Sizes
        PROVE  CacheInv(cache_list'[s]) /\ cache_list'[s].capacity = s
    BY <1>1, <2>1, RstStatKeeps DEF Inv
  <2> QED BY <1>6, <2>1, <2>2 DEF reset_stat, Inv, Sizes
<1>7. CASE UNCHANGED vars
  BY <1>7 DEF vars, Inv, Sizes
<1> QED
  BY <1>3, <1>4, <1>5, <1>6, <1>7 DEF Next

(* The inductive invariant, of all caches at once.                         *)
THEOREM Invariance == Spec => []Inv
<1> QED
  BY InitInv, NextInv, PTL DEF Spec

(* Every field of every cache keeps the width the code gives it, whatever  *)
(* the sizes of the curve and the width of a uint32_t.                     *)
THEOREM TypeCorrect == Spec => []TypeOK
BY Invariance, InvSuffices, PTL

(* In every cache of the curve a key is in one list at most, and in_ghost  *)
(* is true for the keys of the ghost lists: when access finds a key in     *)
(* in_ghost and not in B1, it is in B2 (arc_cache.h:92-97).                *)
THEOREM ListsStayDisjoint == Spec => []ListsAgree
BY Invariance, InvSuffices, PTL

(* The == tests of case 4 (arc_cache.h:106 and 128) are never jumped over: *)
(* the lists stay within the size and twice the size, for any target p.    *)
THEOREM DirectoryStaysBounded == Spec => []DirectoryBound
BY Invariance, InvSuffices, PTL

-----------------------------------------------------------------------------
(* The counters of the curve: every point has seen the same accesses, and  *)
(* while the constructor runs none.                                        *)
CountInv ==
  /\ \A s \in Sizes : Counted(cache_list[s])
  /\ \A s \in Sizes, u \in Sizes : total(cache_list[s]) = total(cache_list[u])
  /\ pc = "loop" => \A s \in Sizes : total(cache_list[s]) = 0

(* The properties of one step.                                             *)
StepOf(s) ==
  /\ Balanced(cache_list[s], cache_list'[s])
  /\ cache_list'[s].stat_ev > cache_list[s].stat_ev => actual_size(cache_list[s]) >= s
  /\ StaysWithin(cache_list[s], cache_list'[s])

LEMMA NewCacheCounts ==
  ASSUME Word \in Nat \ {0}, MaxStat \in Nat, NEW n \in 0..(Word - 1)
  PROVE  Counted(ARC_cache(n)) /\ total(ARC_cache(n)) = 0
<1> DEFINE c == ARC_cache(n)
<1>1. /\ c.B1 = <<>> /\ c.B2 = <<>> /\ c.stat_hit = 0 /\ c.stat_miss = 0 /\ c.stat_ev = 0
  BY DEF ARC_cache
<1> HIDE DEF c
<1>2. \A e : e \notin Range(<<>>)
  BY DEF Range
<1>3. ghosts(c) = {}
  BY <1>1, <1>2 DEF ghosts
<1> QED BY <1>1, <1>3 DEF Counted, total, Filled, c

LEMMA RstStatCounts ==
  ASSUME MaxStat \in Nat, NEW c, CacheInv(c), Counted(c)
  PROVE  /\ Counted(rst_stat(c)) /\ total(rst_stat(c)) = 0
         /\ rst_stat(c).stat_ev = 0 /\ rst_stat(c).p = c.p
         /\ actual_size(rst_stat(c)) = actual_size(c) /\ rst_stat(c).capacity = c.capacity
<1> DEFINE d == rst_stat(c)
<1>1. c \in CacheType
  BY DEF CacheInv, Sound
<1>2. /\ d.T1 = c.T1 /\ d.T2 = c.T2 /\ d.B1 = c.B1 /\ d.B2 = c.B2
      /\ d.stat_hit = 0 /\ d.stat_miss = 0 /\ d.stat_ev = 0
      /\ d.p = c.p /\ d.capacity = c.capacity
  BY <1>1 DEF rst_stat, CacheType
<1> HIDE DEF d
<1>3. ghosts(d) = ghosts(c) /\ actual_size(d) = actual_size(c)
  BY <1>2 DEF ghosts, actual_size
<1> QED BY <1>2, <1>3 DEF Counted, total, Filled, d

LEMMA InitCounts == Init => CountInv
BY DEF Init, Sizes, CountInv

(* A point that does not change.                                           *)
LEMMA StillCounts ==
  ASSUME Inv, CountInv, NEW s \in Sizes, cache_list'[s] = cache_list[s]
  PROVE  StepOf(s)
<1> DEFINE c == cache_list[s]
<1>1. CacheInv(c) /\ c.capacity = s
  BY DEF Inv
<1> HIDE DEF c
<1>2. /\ c.stat_hit \in Nat /\ c.stat_miss \in Nat /\ c.stat_ev \in Nat /\ actual_size(c) \in Nat
  BY <1>1, CounterTypes
<1>3. Balanced(c, c) /\ ~(c.stat_ev > c.stat_ev) /\ StaysWithin(c, c)
  BY <1>2 DEF Balanced, StaysWithin
<1> QED BY <1>3 DEF StepOf, c

LEMMA CountStep ==
  ASSUME Inv, CountInv, [Next]_vars
  PROVE  CountInv' /\ \A s \in Sizes : StepOf(s)
<1>1. Word \in Nat \ {0} /\ MaxStat \in Nat /\ MaxStat < Word
  BY ArgsAssumption DEF Inv
<1>2. \A s \in Sizes : /\ CacheInv(cache_list[s]) /\ cache_list[s].capacity = s
                       /\ Counted(cache_list[s])
  BY DEF Inv, CountInv
<1>3. CASE AddPoint
  <2>1. cache_list' = [s \in Sizes \cup {i} |-> IF s \in Sizes THEN cache_list[s] ELSE ARC_cache(i)]
    BY <1>3 DEF AddPoint, inserted
  <2>2. Sizes' = Sizes \cup {i} /\ i \in 0..(Word - 1) /\ pc = "loop" /\ pc' = pc
    BY <1>3, <2>1 DEF Sizes, AddPoint, Inv
  <2>3. ASSUME NEW s \in Sizes'
        PROVE  Counted(cache_list'[s]) /\ total(cache_list'[s]) = 0
    <3>1. cache_list'[s] = IF s \in Sizes THEN cache_list[s] ELSE ARC_cache(i)
      BY <2>1, <2>2
    <3>2. CASE s \in Sizes
      BY <3>1, <3>2, <2>2 DEF CountInv
    <3>3. CASE s \notin Sizes
      <4>1. Counted(ARC_cache(i)) /\ total(ARC_cache(i)) = 0
        BY <1>1, <2>2, NewCacheCounts
      <4> QED BY <3>1, <3>3, <4>1
    <3> QED BY <3>2, <3>3
  <2>4. CountInv'
    BY <2>3 DEF CountInv, Counted, total, Filled
  <2>5. \A s \in Sizes : cache_list'[s] = cache_list[s]
    BY <2>1
  <2> QED BY <2>4, <2>5, StillCounts
<1>4. CASE EndLoop
  <2>1. cache_list' = cache_list /\ pc' = "made"
    BY <1>4 DEF EndLoop
  <2>2. CountInv'
    BY <2>1 DEF CountInv, Sizes
  <2> QED BY <2>1, <2>2, StillCounts
<1>5. ASSUME NEW k \in args.keys, Access(k)
      PROVE  CountInv' /\ \A s \in Sizes : StepOf(s)
  <2>1. k \in Key
    BY ArgsAssumption DEF Inv
  <2>2. cache_list' = [s \in Sizes |-> access(cache_list[s], k)] /\ pc' = "made" /\ Sizes' = Sizes
    BY <1>5 DEF Access, Sizes
  <2>3. ASSUME NEW s \in Sizes
        PROVE  Effect(cache_list[s], cache_list'[s])
    <3> DEFINE c == cache_list[s]
    <3>1. ~undefined(c, k) /\ Accesses(c) < MaxStat
      BY <1>5 DEF Access
    <3>2. total(c) < MaxStat
      BY <1>1, <1>2, <3>1, AccessesIsTotal
    <3>3. cache_list'[s] = access(c, k)
      BY <2>2
    <3>4. CacheInv(c) /\ Counted(c)
      BY <1>2
    <3> HIDE DEF c
    <3>5. Effect(c, access(c, k))
      BY <1>1, <2>1, <3>1, <3>2, <3>4, AccessEffect
    <3> QED BY <3>3, <3>5 DEF c
  <2>4. CountInv'
    <3>1. \A s \in Sizes : Counted(cache_list'[s]) /\ total(cache_list'[s]) = total(cache_list[s]) + 1
      BY <2>3 DEF Effect
    <3>2. \A s \in Sizes, u \in Sizes : total(cache_list'[s]) = total(cache_list'[u])
      BY <3>1 DEF CountInv
    <3> QED BY <2>2, <3>1, <3>2 DEF CountInv, Counted, total, Filled
  <2>5. ASSUME NEW s \in Sizes PROVE StepOf(s)
    BY <1>2, <2>3 DEF Effect, StepOf, Balanced
  <2> QED BY <2>4, <2>5
<1>6. CASE reset_stat
  <2>1. cache_list' = [s \in Sizes |-> rst_stat(cache_list[s])] /\ pc' = "made" /\ Sizes' = Sizes
    BY <1>6 DEF reset_stat, Sizes
  <2>2. ASSUME NEW s \in Sizes
        PROVE  /\ Counted(cache_list'[s]) /\ total(cache_list'[s]) = 0
               /\ cache_list'[s].stat_ev = 0 /\ cache_list'[s].p = cache_list[s].p
               /\ actual_size(cache_list'[s]) = actual_size(cache_list[s])
               /\ cache_list'[s].capacity = cache_list[s].capacity
    BY <1>1, <1>2, <2>1, RstStatCounts
  <2>3. CountInv'
    BY SMTT(60), <2>1, <2>2 DEF CountInv, Counted, total, Filled
  <2>4. ASSUME NEW s \in Sizes PROVE StepOf(s)
    <3> DEFINE c == cache_list[s]  d == cache_list'[s]
    <3>1. CacheInv(c)
      BY <1>2
    <3>2. /\ total(d) = 0 /\ d.stat_ev = 0 /\ d.p = c.p /\ d.capacity = c.capacity
          /\ actual_size(d) = actual_size(c)
      BY <2>2
    <3> HIDE DEF c, d
    <3>3. Accesses(d) = 0
      BY <1>1, <3>2, Small DEF Accesses, total
    <3>4. c.stat_ev \in Nat
      BY <3>1, CounterTypes
    <3>5. ~(d.stat_ev > c.stat_ev)
      BY <3>2, <3>4
    <3>6. StaysWithin(c, d)
      BY <3>2 DEF StaysWithin, WithinCapacityOf
    <3> QED BY <3>3, <3>5, <3>6 DEF StepOf, Balanced, c, d
  <2> QED BY <2>3, <2>4
<1>7. CASE UNCHANGED vars
  <2>1. cache_list' = cache_list /\ pc' = pc
    BY <1>7 DEF vars
  <2>2. CountInv'
    BY <2>1 DEF CountInv, Sizes
  <2> QED BY <2>1, <2>2, StillCounts
<1> QED
  BY <1>3, <1>4, <1>5, <1>6, <1>7 DEF Next

(* Together with Inv it is inductive.                                      *)
THEOREM CountsInvariant == Spec => []CountInv
BY InitCounts, CountStep, Invariance, PTL DEF Spec

(* The points of the curve have counted the same accesses, whichever case  *)
(* of access each took: their miss rates can be compared.                  *)
THEOREM SameAccessesEverywhere == Spec => []SameAccesses
<1>1. Inv /\ CountInv => SameAccesses
  <2> SUFFICES ASSUME Inv, CountInv PROVE SameAccesses
    OBVIOUS
  <2>1. Word \in Nat \ {0} /\ MaxStat \in Nat /\ MaxStat < Word
    BY ArgsAssumption DEF Inv
  <2>2. \A s \in Sizes : Accesses(cache_list[s]) = total(cache_list[s])
    BY <2>1, AccessesIsTotal DEF Inv, CountInv
  <2> QED BY <2>2 DEF CountInv, SameAccesses
<1> QED BY <1>1, Invariance, CountsInvariant, PTL

(* A cache grows by its misses and shrinks by the evictions it counts:     *)
(* none of the paths of access forgets to count one.                       *)
THEOREM EvictionsBalance == Spec => EvictionBalance
<1> DEFINE A == \A s \in Sizes : Balanced(cache_list[s], cache_list'[s])
<1>1. Inv /\ CountInv /\ [Next]_vars => [A]_vars
  BY CountStep DEF StepOf
<1>2. Spec => [][A]_vars
  <2> HIDE DEF A
  <2> QED BY <1>1, Invariance, CountsInvariant, PTL DEF Spec
<1> QED BY <1>2 DEF EvictionBalance

(* No access costs a key while there is a free page.                       *)
THEOREM EvictionNeedsFull == Spec => EvictsWhenFull
<1> DEFINE A == \A s \in Sizes :
                  cache_list'[s].stat_ev > cache_list[s].stat_ev => actual_size(cache_list[s]) >= s
<1>1. Inv /\ CountInv /\ [Next]_vars => [A]_vars
  BY CountStep DEF StepOf
<1>2. Spec => [][A]_vars
  <2> HIDE DEF A
  <2> QED BY <1>1, Invariance, CountsInvariant, PTL DEF Spec
<1> QED BY <1>2 DEF EvictsWhenFull

(* While the target p is at most the capacity the cache does not outgrow   *)
(* it: the wrap of smaller_p is all that can make it.                      *)
THEOREM ClampedStaysWithin == Spec => WithinCapacityIfClamped
<1> DEFINE A == \A s \in Sizes : StaysWithin(cache_list[s], cache_list'[s])
<1>1. Inv /\ CountInv /\ [Next]_vars => [A]_vars
  BY CountStep DEF StepOf
<1>2. Spec => [][A]_vars
  <2> HIDE DEF A
  <2> QED BY <1>1, Invariance, CountsInvariant, PTL DEF Spec
<1> QED BY <1>2 DEF WithinCapacityIfClamped
=============================================================================
