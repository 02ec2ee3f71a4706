---------------------------- MODULE LRULinksProofs ----------------------------
(***************************************************************************)
(* The pointers of LRUCache represent lists and a table: every circular    *)
(* list is intact in both directions, every collision chain holds exactly  *)
(* the cached nodes of its bucket, and every call is a step of LRUCache on *)
(* the sequences and the function they represent.                          *)
(*                                                                         *)
(* Three levels: what a list operation does to one ring of links, what it  *)
(* does to all four rings (and a table operation to all chains), and what  *)
(* each call does.  What LRUCache guarantees of the sequences (each node   *)
(* is on one list, keys are distinct, refs tells the list) comes from its  *)
(* own proofs, through the refinement mapping.                             *)
(***************************************************************************)
EXTENDS LRULinks, SequenceLemmas

LEMMA Places ==
  /\ DummyHead \subseteq Ptr /\ Node \subseteq Ptr
  /\ \A h \in DummyHead : h \notin Node
  /\ \A b \in Bucket : b \notin Node
  /\ Nil \notin Node /\ Nil \notin DummyHead
BY LinksAssumption DEF Ptr

(* A list without duplicates is not longer than there are nodes.           *)
LEMMA ShortLists ==
  ASSUME NEW s \in Seq(Node), Inj(s)
  PROVE  /\ Cardinality(Node) \in Nat
         /\ Len(s) \in 0..Cardinality(Node)
<1>1. IsFiniteSet(Node) /\ Cardinality(Node) \in Nat
  BY LinksAssumption, FS_CardinalityType
<1>2. Len(s) \in Nat /\ IsFiniteSet(1..Len(s)) /\ Cardinality(1..Len(s)) = Len(s)
  <2>1. Len(s) \in Nat
    OBVIOUS
  <2> QED BY SMTT(60), <2>1, FS_Interval
<1>3. [i \in 1..Len(s) |-> s[i]] \in Injection(1..Len(s), Node)
  BY <1>2 DEF Injection, IsInjective, Inj
<1>4. Cardinality(1..Len(s)) <= Cardinality(Node)
  BY <1>1, <1>3, FS_Injection
<1> QED BY <1>1, <1>2, <1>4

-----------------------------------------------------------------------------
(* Walks.                                                                  *)
Place(start, s, i) == IF i = 0 THEN start ELSE s[i]

(* Following step from start one meets the nodes of s, and then stop or    *)
(* something that is no node.                                              *)
Path(step, start, stop, s) ==
  /\ s \in Seq(Node) /\ Inj(s) /\ stop \notin Range(s)
  /\ \A i \in 1..Len(s) : step[Place(start, s, i - 1)] = s[i]
  /\ step[Place(start, s, Len(s))] \notin Node \ {stop}

Grown(step, start, stop, met) ==
  LET e == step[IF met = <<>> THEN start ELSE Last(met)]
  IN IF e \in Node \ {stop} THEN Append(met, e) ELSE met

Walks(step, start, stop, w) ==
  w = [i \in 0..Cardinality(Node) |->
         IF i = 0 THEN <<>> ELSE Grown(step, start, stop, w[i - 1])]

LEMMA WalkChosen ==
  ASSUME NEW step, NEW start, NEW stop
  PROVE  Walk(step, start, stop)
           = (CHOOSE w : Walks(step, start, stop, w))[Cardinality(Node)]
BY DEF Walk, Walks, Grown

(* The first i elements of s, or all of it.                                *)
Upto(s, i) == SubSeq(s, 1, IF i <= Len(s) THEN i ELSE Len(s))

LEMMA UptoGrows ==
  ASSUME NEW step, NEW start, NEW stop, NEW s, Path(step, start, stop, s)
  PROVE  /\ Upto(s, 0) = <<>>
         /\ \A i \in Nat : i >= Len(s) => Upto(s, i) = s
         /\ \A i \in Nat : i > 0 =>
              Upto(s, i) = Grown(step, start, stop, Upto(s, i - 1))
<1>1. s \in Seq(Node) /\ Len(s) \in Nat /\ Range(s) = {s[i] : i \in 1..Len(s)}
  BY RangeEquality DEF Path
<1>2. \A n \in 0..Len(s) : /\ SubSeq(s, 1, n) \in Seq(Node) /\ Len(SubSeq(s, 1, n)) = n
                           /\ \A j \in 1..n : SubSeq(s, 1, n)[j] = s[j]
  <2> TAKE n \in 0..Len(s)
  <2>1. \A j \in 1..n : s[j] \in Node
    BY <1>1
  <2>2. /\ SubSeq(s, 1, n) \in Seq(Node)
        /\ Len(SubSeq(s, 1, n)) = IF 1 <= n THEN n - 1 + 1 ELSE 0
        /\ \A j \in 1..(n - 1 + 1) : SubSeq(s, 1, n)[j] = s[1 + j - 1]
    BY <1>1, <2>1, SubSeqProperties
  <2> QED BY <2>2, <1>1
<1>3. Upto(s, 0) = <<>>
  <2>1. Upto(s, 0) = SubSeq(s, 1, 0)
    BY <1>1 DEF Upto
  <2> QED BY <2>1, <1>1, <1>2, EmptySeq
<1>4. ASSUME NEW i \in Nat, i >= Len(s) PROVE Upto(s, i) = s
  <2>1. Upto(s, i) = SubSeq(s, 1, Len(s))
    BY <1>1, <1>4 DEF Upto
  <2>2. /\ SubSeq(s, 1, Len(s)) \in Seq(Node) /\ Len(SubSeq(s, 1, Len(s))) = Len(s)
        /\ \A j \in 1..Len(s) : SubSeq(s, 1, Len(s))[j] = s[j]
    BY <1>1, <1>2
  <2>3. SubSeq(s, 1, Len(s)) = s
    BY <1>1, <2>2, SeqEqual
  <2> QED BY <2>1, <2>3
<1>5. ASSUME NEW i \in Nat, i > 0, i <= Len(s)
      PROVE  Upto(s, i) = Grown(step, start, stop, Upto(s, i - 1))
  <2> DEFINE a == SubSeq(s, 1, i - 1)
             b == SubSeq(s, 1, i)
  <2>1. Upto(s, i) = b /\ Upto(s, i - 1) = a
    BY <1>1, <1>5 DEF Upto
  <2>2. /\ a \in Seq(Node) /\ Len(a) = i - 1 /\ (\A j \in 1..(i - 1) : a[j] = s[j])
        /\ b \in Seq(Node) /\ Len(b) = i /\ (\A j \in 1..i : b[j] = s[j])
    BY <1>1, <1>2, <1>5
  <2> HIDE DEF a, b
  <2>3. (IF a = <<>> THEN start ELSE Last(a)) = Place(start, s, i - 1)
    BY <1>5, <2>2, EmptySeq DEF Last, Place
  <2>4. i \in 1..Len(s) /\ s[i] \in Node \ {stop}
    BY <1>1, <1>5 DEF Path
  <2>5. step[Place(start, s, i - 1)] = s[i]
    BY <2>4 DEF Path
  <2>6. Grown(step, start, stop, a) = Append(a, s[i])
    BY <2>3, <2>4, <2>5 DEF Grown
  <2>7. b = Append(a, s[i])
    <3>1. /\ Append(a, s[i]) \in Seq(Node) /\ Len(Append(a, s[i])) = i
          /\ \A j \in 1..i : Append(a, s[i])[j] = s[j]
      BY <2>2, <2>4, <1>5, AppendProperties
    <3> QED BY <2>2, <3>1, SeqEqual
  <2> QED BY <2>1, <2>6, <2>7
<1>6. ASSUME NEW i \in Nat, i > Len(s)
      PROVE  Upto(s, i) = Grown(step, start, stop, Upto(s, i - 1))
  <2>1. i - 1 \in Nat /\ i - 1 >= Len(s)
    BY <1>1, <1>6
  <2>2. Upto(s, i) = s /\ Upto(s, i - 1) = s
    BY <1>1, <1>4, <1>6, <2>1
  <2>3. (IF s = <<>> THEN start ELSE Last(s)) = Place(start, s, Len(s))
    BY <1>1, EmptySeq DEF Last, Place
  <2>4. Grown(step, start, stop, s) = s
    BY <2>3 DEF Grown, Path
  <2> QED BY <2>2, <2>4
<1> QED BY <1>1, <1>3, <1>4, <1>5, <1>6

(* Walk returns the nodes met.                                             *)
LEMMA WalkIs ==
  ASSUME NEW step, NEW start, NEW stop, NEW s, Path(step, start, stop, s)
  PROVE  Walk(step, start, stop) = s
<1> DEFINE N == Cardinality(Node)
           u == [i \in 0..N |-> Upto(s, i)]
           w == CHOOSE x : Walks(step, start, stop, x)
<1>1. N \in Nat /\ N >= Len(s) /\ Len(s) \in Nat
  BY ShortLists DEF Path
<1>2. Walks(step, start, stop, u)
  <2>1. \A i \in 0..N : u[i] = IF i = 0 THEN <<>> ELSE Grown(step, start, stop, u[i - 1])
    <3> TAKE i \in 0..N
    <3>1. CASE i = 0
      BY <3>1, UptoGrows
    <3>2. CASE i # 0
      <4>1. i \in Nat /\ i > 0 /\ i - 1 \in 0..N
        BY <1>1, <3>2
      <4>2. u[i] = Upto(s, i) /\ u[i - 1] = Upto(s, i - 1)
        BY <4>1
      <4> QED BY <4>1, <4>2, UptoGrows
    <3> QED BY <3>1, <3>2
  <2>2. u = [i \in 0..N |-> u[i]]
    OBVIOUS
  <2> HIDE DEF u
  <2>3. u = [i \in 0..N |-> IF i = 0 THEN <<>> ELSE Grown(step, start, stop, u[i - 1])]
    BY <2>1, <2>2
  <2> QED BY <2>3 DEF Walks
<1>3. Walks(step, start, stop, w)
  BY <1>2
<1> HIDE DEF w, u
<1>4. \A i \in 0..N : w[i] = IF i = 0 THEN <<>> ELSE Grown(step, start, stop, w[i - 1])
  BY <1>3 DEF Walks
<1> DEFINE S == {i \in Nat : i \in 0..N => w[i] = Upto(s, i)}
<1>5. \A i \in Nat : i \in S
  <2>1. 0 \in S
    BY <1>1, <1>4, UptoGrows
  <2>2. ASSUME NEW i \in Nat, i \in S PROVE i + 1 \in S
    <3>1. SUFFICES ASSUME i + 1 \in 0..N PROVE w[i + 1] = Upto(s, i + 1)
      BY <2>2
    <3>2. i \in 0..N /\ (i + 1) - 1 = i /\ i + 1 # 0 /\ i + 1 \in Nat /\ i + 1 > 0
      BY <1>1, <3>1
    <3>3. w[i + 1] = Grown(step, start, stop, w[i])
      BY <1>4, <3>1, <3>2
    <3>4. Upto(s, i + 1) = Grown(step, start, stop, Upto(s, i))
      BY <3>2, UptoGrows
    <3> QED BY <2>2, <3>2, <3>3, <3>4
  <2> HIDE DEF S
  <2> QED BY <2>1, <2>2, SetInduction
<1>6. w[N] = s
  <2>1. N \in S
    BY <1>1, <1>5
  <2>2. w[N] = Upto(s, N)
    BY <1>1, <2>1
  <2> QED BY <1>1, <2>2, UptoGrows
<1> QED BY <1>6, WalkChosen DEF w

-----------------------------------------------------------------------------
(* One ring: the circular list with the dummy head h and the nodes of s.   *)
At(h, s, i) == IF i \in 1..Len(s) THEN s[i] ELSE h

IsRing(nx, pv, h, s) ==
  /\ s \in Seq(Node) /\ Inj(s)
  /\ \A i \in 0..Len(s) : nx[At(h, s, i)] = At(h, s, i + 1) /\ pv[At(h, s, i + 1)] = At(h, s, i)

Links == [Ptr -> Ptr \cup {Nil}]

(* Only the head is met twice.                                             *)
LEMMA AtProps ==
  ASSUME NEW h \in DummyHead, NEW s \in Seq(Node), Inj(s)
  PROVE  /\ \A i \in Int : At(h, s, i) \in Ptr
         /\ \A i \in Int : At(h, s, i) \in Node <=> i \in 1..Len(s)
         /\ \A i, j \in Int : At(h, s, i) = At(h, s, j) =>
              i = j \/ (i \notin 1..Len(s) /\ j \notin 1..Len(s))
         /\ \A e : e \in Range(s) <=> \E i \in 1..Len(s) : At(h, s, i) = e
         /\ At(h, s, 0) = h /\ At(h, s, Len(s) + 1) = h
<1>1. Len(s) \in Nat /\ Range(s) = {s[i] : i \in 1..Len(s)}
  BY RangeEquality
<1>2. h \in Ptr /\ h \notin Node /\ Node \subseteq Ptr /\ \A i \in 1..Len(s) : s[i] \in Node
  BY Places
<1>3. \A i, j \in 1..Len(s) : s[i] = s[j] => i = j
  BY DEF Inj
<1> QED BY <1>1, <1>2, <1>3 DEF At

(* The walk along next from the head meets the nodes of the ring.          *)
LEMMA RingWalk ==
  ASSUME NEW nx, NEW pv, NEW h \in DummyHead, NEW s, IsRing(nx, pv, h, s)
  PROVE  Walk(nx, h, h) = s
<1>1. s \in Seq(Node) /\ Inj(s) /\ Len(s) \in Nat /\ h \notin Node
  BY Places DEF IsRing
<1>2. h \notin Range(s)
  BY <1>1, EmptyRange
<1>3. \A i \in 0..Len(s) : nx[At(h, s, i)] = At(h, s, i + 1)
  BY DEF IsRing
<1>4. \A i \in 0..Len(s) : Place(h, s, i) = At(h, s, i)
  BY <1>1 DEF Place, At
<1>5. ASSUME NEW i \in 1..Len(s) PROVE nx[Place(h, s, i - 1)] = s[i]
  <2>1. i - 1 \in 0..Len(s) /\ (i - 1) + 1 = i /\ At(h, s, i) = s[i]
    BY <1>1 DEF At
  <2> QED BY <2>1, <1>3, <1>4
<1>6. nx[Place(h, s, Len(s))] = h
  <2>1. Len(s) \in 0..Len(s) /\ At(h, s, Len(s) + 1) = h
    BY <1>1 DEF At
  <2> QED BY <2>1, <1>3, <1>4
<1>7. Path(nx, h, h, s)
  BY <1>1, <1>2, <1>5, <1>6 DEF Path
<1> QED BY <1>7, WalkIs

(* list_remove joins the two neighbours of the node.                       *)
LEMMA RemoveLinks ==
  ASSUME NEW nx \in Links, NEW pv \in Links, NEW h \in DummyHead, NEW s,
         IsRing(nx, pv, h, s), NEW j \in 1..Len(s),
         NEW l, l = list_remove([next |-> nx, prev |-> pv], s[j])
  PROVE  /\ l.next = [nx EXCEPT ![At(h, s, j - 1)] = At(h, s, j + 1)]
         /\ l.prev = [pv EXCEPT ![At(h, s, j + 1)] = At(h, s, j - 1)]
         /\ l.next \in Links /\ l.prev \in Links
<1>1. s \in Seq(Node) /\ Inj(s) /\ Len(s) \in Nat
      /\ j \in Nat /\ j - 1 \in 0..Len(s) /\ j \in 0..Len(s)
      /\ (j - 1) + 1 = j /\ j - 1 \in Int /\ j + 1 \in Int
  BY DEF IsRing
<1>2. s[j] = At(h, s, j)
  BY DEF At
<1>3. nx[s[j]] = At(h, s, j + 1) /\ pv[s[j]] = At(h, s, j - 1)
  BY <1>1, <1>2 DEF IsRing
<1>4. At(h, s, j + 1) # s[j]
  BY <1>1, <1>2, AtProps
<1>5. At(h, s, j + 1) \in Ptr /\ At(h, s, j - 1) \in Ptr /\ s[j] \in Ptr
  BY <1>1, <1>2, AtProps
<1>6. l.prev = [pv EXCEPT ![At(h, s, j + 1)] = At(h, s, j - 1)]
  BY <1>3 DEF list_remove
<1>7. l.prev[s[j]] = At(h, s, j - 1)
  BY <1>3, <1>4, <1>5, <1>6 DEF Links
<1>8. l.next = [nx EXCEPT ![l.prev[s[j]]] = nx[s[j]]]
  BY DEF list_remove
<1>9. l.next = [nx EXCEPT ![At(h, s, j - 1)] = At(h, s, j + 1)]
  BY <1>3, <1>7, <1>8
<1> QED BY ZenonT(60), <1>5, <1>6, <1>9 DEF Links

(* The ring without the node.                                              *)
LEMMA RemoveRing ==
  ASSUME NEW nx \in Links, NEW pv \in Links, NEW h \in DummyHead, NEW s,
         IsRing(nx, pv, h, s), NEW j \in 1..Len(s),
         NEW l, l = list_remove([next |-> nx, prev |-> pv], s[j])
  PROVE  IsRing(l.next, l.prev, h, RemoveFirst(s, s[j]))
<1> DEFINE r == RemoveFirst(s, s[j])
           n == Len(s)
<1>1. s \in Seq(Node) /\ Inj(s) /\ n \in Nat /\ j \in Nat /\ j >= 1 /\ j <= n
  BY DEF IsRing
<1>2. r \in Seq(Node) /\ Inj(r) /\ Len(r) = n - 1
      /\ \A i \in 1..(n - 1) : r[i] = IF i < j THEN s[i] ELSE s[i + 1]
  <2>1. r = RemoveAt(s, j)
    BY <1>1, RemoveFirstIs
  <2>2. r \in Seq(Node) /\ Inj(r)
    BY <1>1, RemoveFirstProps
  <2> HIDE DEF r
  <2> QED BY <1>1, <2>1, <2>2, RemoveAtProps
<1>3. /\ l.next = [nx EXCEPT ![At(h, s, j - 1)] = At(h, s, j + 1)]
      /\ l.prev = [pv EXCEPT ![At(h, s, j + 1)] = At(h, s, j - 1)]
  BY RemoveLinks
<1> HIDE DEF r
<1>4. \A i \in 0..n : At(h, r, i) = IF i < j THEN At(h, s, i) ELSE At(h, s, i + 1)
  <2> TAKE i \in 0..n
  <2>1. CASE i = 0
    BY <1>1, <1>2, <2>1 DEF At
  <2>2. CASE i \in 1..(n - 1)
    BY <1>1, <1>2, <2>2 DEF At
  <2>3. CASE i = n
    BY <1>1, <1>2, <2>3 DEF At
  <2> QED BY <1>1, <2>1, <2>2, <2>3
<1>5. \A i \in 0..n : nx[At(h, s, i)] = At(h, s, i + 1) /\ pv[At(h, s, i + 1)] = At(h, s, i)
  BY DEF IsRing
<1>6. ASSUME NEW i \in 0..(n - 1)
      PROVE  l.next[At(h, r, i)] = At(h, r, i + 1) /\ l.prev[At(h, r, i + 1)] = At(h, r, i)
  <2> DEFINE x == IF i < j THEN i ELSE i + 1
             y == IF i + 1 < j THEN i + 1 ELSE i + 2
  <2>1. x \in 0..n /\ y \in 1..(n + 1)
        /\ x \in Int /\ y \in Int /\ j - 1 \in Int /\ j + 1 \in Int
    BY <1>1
  <2>2. At(h, r, i) = At(h, s, x) /\ At(h, r, i + 1) = At(h, s, y)
    BY <1>1, <1>4
  <2>3. At(h, s, x) \in Ptr /\ At(h, s, y) \in Ptr
    BY <1>1, <2>1, AtProps
  <2>4. CASE i = j - 1
    <3>1. x = j - 1 /\ y = j + 1
      BY <1>1, <2>4
    <3> QED BY ZenonT(60), <1>3, <2>2, <2>3, <3>1 DEF Links
  <2>5. CASE i # j - 1
    <3>1. y = x + 1 /\ x # j - 1 /\ y # j + 1 /\ x # j /\ y # j
      BY <1>1, <2>5
    <3>2. At(h, s, x) # At(h, s, j - 1)
      BY <1>1, <2>1, <3>1, AtProps
    <3>3. At(h, s, y) # At(h, s, j + 1)
      BY <1>1, <2>1, <3>1, AtProps
    <3>4. nx[At(h, s, x)] = At(h, s, y) /\ pv[At(h, s, y)] = At(h, s, x)
      BY <1>5, <2>1, <3>1
    <3> QED BY ZenonT(60), <1>3, <2>2, <2>3, <3>2, <3>3, <3>4 DEF Links
  <2> QED BY <2>4, <2>5
<1> QED BY <1>2, <1>6 DEF IsRing, r

(* list_append puts the node between the last one and the head.            *)
LEMMA AppendLinks ==
  ASSUME NEW nx \in Links, NEW pv \in Links, NEW h \in DummyHead, NEW s,
         IsRing(nx, pv, h, s), NEW e \in Node, e \notin Range(s),
         NEW l, l = list_append([next |-> nx, prev |-> pv], h, e)
  PROVE  /\ l.next = [nx EXCEPT ![e] = h, ![At(h, s, Len(s))] = e]
         /\ l.prev = [pv EXCEPT ![e] = At(h, s, Len(s)), ![h] = e]
         /\ l.next \in Links /\ l.prev \in Links
         /\ At(h, s, Len(s)) \in Ptr /\ At(h, s, Len(s)) # e
<1>1. s \in Seq(Node) /\ Inj(s) /\ Len(s) \in Nat
  BY DEF IsRing
<1>2. pv[h] = At(h, s, Len(s))
  <2>1. Len(s) \in 0..Len(s)
    BY <1>1
  <2>2. pv[At(h, s, Len(s) + 1)] = At(h, s, Len(s))
    BY <2>1 DEF IsRing
  <2> QED BY <1>1, <2>2, AtProps
<1>3. At(h, s, Len(s)) \in Ptr /\ h \in Ptr /\ e \in Ptr /\ h \notin Node
  BY <1>1, AtProps, Places
<1>4. At(h, s, Len(s)) # e
  BY <1>1, <1>3, AtProps DEF At
<1> QED BY <1>2, <1>3, <1>4 DEF list_append, Links

LEMMA AppendRing ==
  ASSUME NEW nx \in Links, NEW pv \in Links, NEW h \in DummyHead, NEW s,
         IsRing(nx, pv, h, s), NEW e \in Node, e \notin Range(s),
         NEW l, l = list_append([next |-> nx, prev |-> pv], h, e)
  PROVE  IsRing(l.next, l.prev, h, Append(s, e))
<1> DEFINE a == Append(s, e)
           n == Len(s)
<1>1. s \in Seq(Node) /\ Inj(s) /\ n \in Nat
  BY DEF IsRing
<1>2. /\ a \in Seq(Node) /\ Inj(a) /\ Len(a) = n + 1
      /\ (\A i \in 1..n : a[i] = s[i]) /\ a[n + 1] = e
  BY <1>1, AppendProps, AppendProperties
<1>3. /\ l.next = [nx EXCEPT ![e] = h, ![At(h, s, n)] = e]
      /\ l.prev = [pv EXCEPT ![e] = At(h, s, n), ![h] = e]
      /\ At(h, s, n) \in Ptr /\ At(h, s, n) # e
  BY AppendLinks
<1> HIDE DEF a
<1>4. /\ \A i \in 0..n : At(h, a, i) = At(h, s, i)
      /\ At(h, a, n + 1) = e /\ At(h, a, n + 2) = h
  BY <1>1, <1>2 DEF At
<1>5. \A i \in 0..n : nx[At(h, s, i)] = At(h, s, i + 1) /\ pv[At(h, s, i + 1)] = At(h, s, i)
  BY DEF IsRing
<1>6. h \in Ptr /\ e \in Ptr /\ h # e /\ \A i \in 0..n : At(h, s, i) \in Ptr /\ At(h, s, i) # e
  BY <1>1, AtProps, Places
<1>7. ASSUME NEW i \in 0..(n + 1)
      PROVE  l.next[At(h, a, i)] = At(h, a, i + 1) /\ l.prev[At(h, a, i + 1)] = At(h, a, i)
  <2>1. CASE i = n + 1
    <3>1. At(h, a, i) = e /\ At(h, a, i + 1) = h
      BY <1>1, <1>4, <2>1
    <3>2. l.next[e] = h /\ l.prev[h] = e
      BY <1>3, <1>6 DEF Links
    <3> QED BY <3>1, <3>2
  <2>2. CASE i = n
    <3>1. At(h, a, i) = At(h, s, n) /\ At(h, a, i + 1) = e
      BY <1>1, <1>4, <2>2
    <3>2. l.next[At(h, s, n)] = e
      BY <1>3 DEF Links
    <3>3. l.prev[e] = At(h, s, n)
      BY <1>3, <1>6 DEF Links
    <3> QED BY <3>1, <3>2, <3>3
  <2>3. CASE i < n
    <3>1. i \in 0..n /\ i + 1 \in 0..n /\ i + 1 \in 1..n
        /\ i \in Int /\ n \in Int /\ i + 1 \in Int
      BY <1>1, <2>3
    <3>2. At(h, s, i) # At(h, s, n)
      BY <1>1, <2>3, <3>1, AtProps
    <3>3. At(h, s, i + 1) # h
      BY <1>1, <3>1, AtProps, Places
    <3>4. At(h, a, i) = At(h, s, i) /\ At(h, a, i + 1) = At(h, s, i + 1)
      BY <1>4, <3>1
    <3>5. At(h, s, i) # e /\ At(h, s, i + 1) # e
          /\ At(h, s, i) \in Ptr /\ At(h, s, i + 1) \in Ptr
      BY <1>6, <3>1
    <3>6. l.next[At(h, s, i)] = nx[At(h, s, i)]
      BY <1>3, <3>2, <3>5 DEF Links
    <3>7. l.prev[At(h, s, i + 1)] = pv[At(h, s, i + 1)]
      BY <1>3, <3>3, <3>5 DEF Links
    <3> QED BY <1>5, <3>1, <3>4, <3>6, <3>7
  <2> QED BY <1>1, <2>1, <2>2, <2>3
<1> QED BY <1>2, <1>7 DEF IsRing, a

(* A ring no link of which is written.                                     *)
LEMMA RingKept ==
  ASSUME NEW nx, NEW pv, NEW h \in DummyHead, NEW s, IsRing(nx, pv, h, s),
         NEW nx2, NEW pv2, \A q \in {h} \cup Range(s) : nx2[q] = nx[q] /\ pv2[q] = pv[q]
  PROVE  IsRing(nx2, pv2, h, s)
<1>1. s \in Seq(Node) /\ Inj(s) /\ Len(s) \in Nat
  BY DEF IsRing
<1>2. \A i \in Int : At(h, s, i) \in {h} \cup Range(s)
  BY <1>1, AtProps DEF At
<1>3. \A i \in 0..Len(s) : /\ nx[At(h, s, i)] = At(h, s, i + 1)
                           /\ pv[At(h, s, i + 1)] = At(h, s, i)
  BY DEF IsRing
<1>4. \A i \in 0..Len(s) : /\ nx2[At(h, s, i)] = At(h, s, i + 1)
                           /\ pv2[At(h, s, i + 1)] = At(h, s, i)
  BY <1>1, <1>2, <1>3
<1> QED BY <1>1, <1>4 DEF IsRing

-----------------------------------------------------------------------------
(* The four rings together.                                                *)
RingOf(nx, h) == Walk(nx, h, h)

Rings(nx, pv) ==
  /\ nx \in Links /\ pv \in Links
  /\ \A h \in DummyHead : IsRing(nx, pv, h, RingOf(nx, h))

(* No node is on two of them.                                              *)
Disjoint(nx) ==
  \A g, h \in DummyHead : \A e \in Range(RingOf(nx, g)) : e \in Range(RingOf(nx, h)) => g = h

LEMMA RemoveRings ==
  ASSUME NEW nx, NEW pv, Rings(nx, pv), Disjoint(nx),
         NEW g \in DummyHead, NEW e \in Range(RingOf(nx, g)),
         NEW l, l = list_remove([next |-> nx, prev |-> pv], e)
  PROVE  /\ Rings(l.next, l.prev)
         /\ \A h \in DummyHead : RingOf(l.next, h) = RemoveFirst(RingOf(nx, h), e)
<1> DEFINE s == RingOf(nx, g)
<1>1. nx \in Links /\ pv \in Links /\ IsRing(nx, pv, g, s)
  BY DEF Rings
<1>2. s \in Seq(Node) /\ Inj(s) /\ Len(s) \in Nat
  BY <1>1 DEF IsRing
<1> HIDE DEF s
<1>3. PICK j \in 1..Len(s) : s[j] = e
  BY <1>2, RangeEquality DEF s
<1>4. l = list_remove([next |-> nx, prev |-> pv], s[j])
  BY <1>3
<1>5. /\ l.next = [nx EXCEPT ![At(g, s, j - 1)] = At(g, s, j + 1)]
      /\ l.prev = [pv EXCEPT ![At(g, s, j + 1)] = At(g, s, j - 1)]
      /\ l.next \in Links /\ l.prev \in Links
  BY <1>1, <1>4, RemoveLinks
<1>6. IsRing(l.next, l.prev, g, RemoveFirst(s, e))
  BY <1>1, <1>3, <1>4, RemoveRing
<1>7. ASSUME NEW h \in DummyHead
      PROVE  IsRing(l.next, l.prev, h, RemoveFirst(RingOf(nx, h), e))
  <2>1. CASE h = g
    BY <1>6, <2>1 DEF s
  <2>2. CASE h # g
    <3> DEFINE t == RingOf(nx, h)
    <3>1. IsRing(nx, pv, h, t) /\ t \in Seq(Node) /\ Inj(t)
      BY DEF Rings, IsRing
    <3>2. \A q \in Range(t) : q \notin Range(s) /\ q \in Node
      BY <2>2, <3>1, EmptyRange DEF Disjoint, s
    <3>3. \A q \in {h} \cup Range(t) : q # g /\ q \notin Range(s) /\ q \in Ptr
      BY <1>2, <2>2, <3>2, EmptyRange, Places
    <3>4. \A i \in Int : At(g, s, i) = g \/ At(g, s, i) \in Range(s)
      BY <1>2, AtProps DEF At
    <3>5. \A q \in {h} \cup Range(t) : q # At(g, s, j - 1) /\ q # At(g, s, j + 1)
      BY <1>2, <3>3, <3>4
    <3> HIDE DEF t
    <3>6. \A q \in {h} \cup Range(t) : l.next[q] = nx[q] /\ l.prev[q] = pv[q]
      BY <1>1, <1>5, <3>3, <3>5 DEF Links
    <3>7. IsRing(l.next, l.prev, h, t)
      BY <3>1, <3>6, RingKept
    <3>8. e \notin Range(t)
      BY <3>2 DEF s
    <3>9. RemoveFirst(t, e) = t
      BY <3>1, <3>8, RemoveFirstIs
    <3> QED BY <3>7, <3>9 DEF t
  <2> QED BY <2>1, <2>2
<1>8. \A h \in DummyHead : RingOf(l.next, h) = RemoveFirst(RingOf(nx, h), e)
  BY <1>7, RingWalk DEF RingOf
<1> QED BY <1>5, <1>7, <1>8 DEF Rings

Unlinked(nx, e) == e \in Node /\ \A h \in DummyHead : e \notin Range(RingOf(nx, h))

(* The rings of l are those of nx with e as the newest of g.               *)
Appended(nx, g, e, l) ==
  /\ Rings(l.next, l.prev)
  /\ \A h \in DummyHead : RingOf(l.next, h) =
       IF h = g THEN Append(RingOf(nx, h), e) ELSE RingOf(nx, h)

LEMMA AppendRings ==
  ASSUME NEW nx, NEW pv, Rings(nx, pv), Disjoint(nx), NEW g \in DummyHead,
         NEW e, Unlinked(nx, e),
         NEW l, l = list_append([next |-> nx, prev |-> pv], g, e)
  PROVE  Appended(nx, g, e, l)
<1> DEFINE s == RingOf(nx, g)
<1>1. nx \in Links /\ pv \in Links /\ IsRing(nx, pv, g, s) /\ e \in Node /\ e \notin Range(s)
  BY DEF Rings, Unlinked
<1>2. s \in Seq(Node) /\ Inj(s) /\ Len(s) \in Nat
  BY <1>1 DEF IsRing
<1> HIDE DEF s
<1>3. /\ l.next = [nx EXCEPT ![e] = g, ![At(g, s, Len(s))] = e]
      /\ l.prev = [pv EXCEPT ![e] = At(g, s, Len(s)), ![g] = e]
      /\ l.next \in Links /\ l.prev \in Links
  BY <1>1, AppendLinks
<1>4. IsRing(l.next, l.prev, g, Append(s, e))
  BY <1>1, AppendRing
<1>5. ASSUME NEW h \in DummyHead, h # g PROVE IsRing(l.next, l.prev, h, RingOf(nx, h))
  <2> DEFINE t == RingOf(nx, h)
  <2>1. IsRing(nx, pv, h, t) /\ t \in Seq(Node) /\ Inj(t)
    BY DEF Rings, IsRing
  <2>2. \A q \in Range(t) : q \notin Range(s) /\ q \in Node /\ q # e
    BY <1>5, <2>1, EmptyRange DEF Disjoint, Unlinked, s
  <2>3. \A q \in {h} \cup Range(t) : q # g /\ q \notin Range(s) /\ q \in Ptr /\ q # e
    BY <1>1, <1>2, <1>5, <2>2, EmptyRange, Places
  <2>4. At(g, s, Len(s)) = g \/ At(g, s, Len(s)) \in Range(s)
    BY <1>2, AtProps DEF At
  <2>5. \A q \in {h} \cup Range(t) : q # At(g, s, Len(s))
    BY <2>3, <2>4
  <2> HIDE DEF t
  <2>6. \A q \in {h} \cup Range(t) : l.next[q] = nx[q] /\ l.prev[q] = pv[q]
    BY <1>1, <1>3, <2>3, <2>5 DEF Links
  <2>7. IsRing(l.next, l.prev, h, t)
    BY <2>1, <2>6, RingKept
  <2> QED BY <2>7 DEF t
<1> DEFINE u(h) == IF h = g THEN Append(RingOf(nx, h), e) ELSE RingOf(nx, h)
<1>6. \A h \in DummyHead : IsRing(l.next, l.prev, h, u(h))
  BY <1>4, <1>5 DEF s
<1> HIDE DEF u
<1>7. \A h \in DummyHead : RingOf(l.next, h) = u(h)
  BY <1>6, RingWalk DEF RingOf
<1> QED BY <1>3, <1>6, <1>7 DEF Appended, Rings, u

(* move: the node leaves its list and becomes the newest of another.       *)
LEMMA MoveRings ==
  ASSUME NEW nx, NEW pv, Rings(nx, pv), Disjoint(nx),
         NEW f \in DummyHead, NEW e \in Range(RingOf(nx, f)), NEW g \in DummyHead,
         NEW l, l = list_append(list_remove([next |-> nx, prev |-> pv], e), g, e)
  PROVE  /\ Rings(l.next, l.prev)
         /\ \A h \in DummyHead : RingOf(l.next, h) =
              IF h = g THEN Append(RemoveFirst(RingOf(nx, h), e), e)
              ELSE RemoveFirst(RingOf(nx, h), e)
<1> DEFINE r == list_remove([next |-> nx, prev |-> pv], e)
<1>1. r = [next |-> r.next, prev |-> r.prev]
  BY DEF list_remove
<1>2. r = list_remove([next |-> nx, prev |-> pv], e)
  OBVIOUS
<1> HIDE DEF r
<1>0. PICK nx2, pv2 : nx2 = r.next /\ pv2 = r.prev
  OBVIOUS
<1>3. Rings(nx2, pv2) /\ \A h \in DummyHead : RingOf(nx2, h) = RemoveFirst(RingOf(nx, h), e)
  BY <1>0, <1>2, RemoveRings
<1>4. \A h \in DummyHead : /\ RingOf(nx, h) \in Seq(Node) /\ Inj(RingOf(nx, h))
                          /\ Range(RingOf(nx2, h)) = Range(RingOf(nx, h)) \ {e}
  BY <1>3, RemoveFirstProps DEF Rings, IsRing
<1>5. Unlinked(nx2, e)
  BY <1>4, EmptyRange DEF Unlinked
<1>6. Disjoint(nx2)
  BY <1>4 DEF Disjoint
<1>7. l = list_append([next |-> nx2, prev |-> pv2], g, e)
  BY <1>0, <1>1, <1>2
<1>8. Appended(nx2, g, e, l)
  BY <1>3, <1>5, <1>6, <1>7, AppendRings
<1> QED BY <1>3, <1>8 DEF Appended

-----------------------------------------------------------------------------
(* One collision chain: the slots of bucket b and of the nodes of c.       *)
Down(c, i) == IF i \in 1..Len(c) THEN c[i] ELSE Nil

IsChain(sl, b, c) ==
  c \in Seq(Node) /\ Inj(c) /\ \A i \in 0..Len(c) : sl[Place(b, c, i)] = Down(c, i + 1)

Slots == [Bucket \cup Node -> Node \cup {Nil}]

LEMMA ChainWalk ==
  ASSUME NEW sl, NEW b, NEW c, IsChain(sl, b, c)
  PROVE  Walk(sl, b, Nil) = c
<1>1. c \in Seq(Node) /\ Inj(c) /\ Len(c) \in Nat
  BY DEF IsChain
<1>2. Nil \notin Node /\ Nil \notin Range(c)
  BY <1>1, EmptyRange, Places
<1>3. ASSUME NEW i \in 1..Len(c) PROVE sl[Place(b, c, i - 1)] = c[i]
  <2>1. i - 1 \in 0..Len(c) /\ Down(c, (i - 1) + 1) = c[i]
    BY <1>1 DEF Down
  <2> QED BY <2>1 DEF IsChain
<1>4. sl[Place(b, c, Len(c))] = Nil
  <2>1. Len(c) \in 0..Len(c) /\ Down(c, Len(c) + 1) = Nil
    BY <1>1 DEF Down
  <2> QED BY <2>1 DEF IsChain
<1>5. Path(sl, b, Nil, c)
  BY <1>1, <1>2, <1>3, <1>4 DEF Path
<1> QED BY <1>5, WalkIs

(* The places of a chain are distinct.                                     *)
LEMMA PlaceProps ==
  ASSUME NEW b \in Bucket, NEW c \in Seq(Node), Inj(c)
  PROVE  /\ \A i \in 0..Len(c) : Place(b, c, i) \in Bucket \cup Node
         /\ \A i, j \in 0..Len(c) : Place(b, c, i) = Place(b, c, j) => i = j
         /\ \A i \in 1..Len(c) : Place(b, c, i) = c[i] /\ c[i] \in Node
         /\ \A i \in 0..Len(c) : i = 0 \/ Place(b, c, i) \in Range(c)
<1>1. Len(c) \in Nat /\ Range(c) = {c[i] : i \in 1..Len(c)}
  BY RangeEquality
<1>2. b \notin Node /\ \A i \in 1..Len(c) : c[i] \in Node
  BY Places
<1>3. \A i, j \in 1..Len(c) : c[i] = c[j] => i = j
  BY DEF Inj
<1> QED BY <1>1, <1>2, <1>3 DEF Place

(* find_pointer, of the slots sl and the keys f.                           *)
Finds(sl, f, k, w) ==
  w = [i \in 0..Cardinality(Node) |->
         IF i = 0 THEN bucket(k)
         ELSE IF sl[w[i - 1]] = Nil \/ f[sl[w[i - 1]]] = k THEN w[i - 1] ELSE sl[w[i - 1]]]

FindIn(sl, f, k) == (CHOOSE w : Finds(sl, f, k, w))[Cardinality(Node)]

LEMMA FindPointer ==
  /\ \A sl, k : find_pointer(sl, k) = FindIn(sl, key, k)
  /\ \A k : lookup(k) = slot[FindIn(slot, key, k)]
  /\ \A k : lookup(k)' = slot'[FindIn(slot', key', k)]
BY DEF find_pointer, lookup, FindIn, Finds

(* It stops at the first place that has no next node or whose next node    *)
(* has the key.                                                            *)
LEMMA FindStops ==
  ASSUME NEW sl, NEW f, NEW k, NEW c, IsChain(sl, bucket(k), c),
         NEW t \in 0..Len(c), t = Len(c) \/ f[c[t + 1]] = k, \A i \in 1..t : f[c[i]] # k
  PROVE  FindIn(sl, f, k) = Place(bucket(k), c, t)
<1> DEFINE N == Cardinality(Node)
           b == bucket(k)
           g(i) == IF i <= t THEN i ELSE t
           u == [i \in 0..N |-> Place(b, c, g(i))]
           w == CHOOSE x : Finds(sl, f, k, x)
           Follow(q) == IF sl[q] = Nil \/ f[sl[q]] = k THEN q ELSE sl[q]
<1>1. c \in Seq(Node) /\ Inj(c) /\ Len(c) \in Nat /\ N \in Nat
      /\ Len(c) <= N /\ t \in Nat /\ t <= Len(c)
  BY ShortLists DEF IsChain
<1> HIDE DEF N, b
<1>2. \A i \in Nat : i < t => sl[Place(b, c, i)] = c[i + 1] /\ c[i + 1] # Nil /\ f[c[i + 1]] # k
  BY <1>1, Places DEF IsChain, Down, b
<1>3. sl[Place(b, c, t)] = Nil \/ f[sl[Place(b, c, t)]] = k
  BY <1>1 DEF IsChain, Down, b
<1>4. \A i \in Nat : i > 0 => Place(b, c, g(i)) = Follow(Place(b, c, g(i - 1)))
  <2> TAKE i \in Nat
  <2> HAVE i > 0
  <2>1. CASE i <= t
    <3>1. i - 1 \in Nat /\ i - 1 < t /\ g(i) = i /\ g(i - 1) = i - 1 /\ (i - 1) + 1 = i /\ i # 0
      BY <1>1, <2>1
    <3>2. sl[Place(b, c, i - 1)] = c[i] /\ c[i] # Nil /\ f[c[i]] # k
      BY <1>2, <3>1
    <3>3. Place(b, c, i) = c[i]
      BY <3>1 DEF Place
    <3> QED BY <3>1, <3>2, <3>3
  <2>2. CASE i > t
    <3>1. g(i) = t /\ g(i - 1) = t
      BY SMTT(60), <1>1, <2>2
    <3> QED BY <1>3, <3>1
  <2> QED BY <1>1, <2>1, <2>2
<1>5. Finds(sl, f, k, u)
  <2>1. \A i \in 0..N : u[i] = IF i = 0 THEN b ELSE Follow(u[i - 1])
    <3> TAKE i \in 0..N
    <3>1. CASE i = 0
      BY <1>1, <3>1 DEF Place
    <3>2. CASE i # 0
      <4>1. i \in Nat /\ i > 0 /\ i - 1 \in 0..N
        BY <1>1, <3>2
      <4>2. u[i] = Place(b, c, g(i)) /\ u[i - 1] = Place(b, c, g(i - 1))
        BY <4>1
      <4> HIDE DEF u, g, Follow
      <4> QED BY <3>2, <4>1, <4>2, <1>4
    <3> QED BY <3>1, <3>2
  <2>2. u = [i \in 0..N |-> u[i]]
    OBVIOUS
  <2> HIDE DEF u
  <2>3. u = [i \in 0..N |-> IF i = 0 THEN b ELSE Follow(u[i - 1])]
    BY <2>1, <2>2
  <2> QED BY <2>3 DEF Finds, N, b
<1>6. Finds(sl, f, k, w)
  BY SMTT(60), <1>5
<1> HIDE DEF w, u
<1>7. \A i \in 0..N : w[i] = IF i = 0 THEN b ELSE Follow(w[i - 1])
  BY <1>6 DEF Finds, N, b
<1> HIDE DEF Follow
<1> DEFINE S == {i \in Nat : i \in 0..N => w[i] = Place(b, c, g(i))}
<1>8. \A i \in Nat : i \in S
  <2>1. 0 \in S
    BY <1>1, <1>7 DEF Place
  <2>2. ASSUME NEW i \in Nat, i \in S PROVE i + 1 \in S
    <3>1. SUFFICES ASSUME i + 1 \in 0..N PROVE w[i + 1] = Place(b, c, g(i + 1))
      BY <2>2
    <3>2. i \in 0..N /\ (i + 1) - 1 = i /\ i + 1 # 0 /\ i + 1 \in Nat /\ i + 1 > 0
      BY <1>1, <3>1
    <3>3. w[i + 1] = Follow(w[i])
      BY <1>7, <3>1, <3>2
    <3> HIDE DEF g
    <3>4. Place(b, c, g(i + 1)) = Follow(Place(b, c, g(i)))
      BY <1>4, <3>2
    <3> QED BY <2>2, <3>2, <3>3, <3>4
  <2> HIDE DEF S
  <2> QED BY <2>1, <2>2, SetInduction
<1>9. w[N] = Place(b, c, t)
  <2>1. N \in S
    BY <1>1, <1>8
  <2>2. w[N] = Place(b, c, g(N))
    BY <1>1, <2>1
  <2> QED BY <1>1, <2>2
<1> QED BY <1>9 DEF FindIn, w, N, b

(* A new first node.                                                       *)
LEMMA ChainInsert ==
  ASSUME NEW sl \in Slots, NEW b \in Bucket, NEW c, IsChain(sl, b, c),
         NEW e \in Node, e \notin Range(c),
         NEW s2, s2 = [sl EXCEPT ![e] = sl[b], ![b] = e]
  PROVE  IsChain(s2, b, <<e>> \o c)
<1> DEFINE a == <<e>> \o c
           n == Len(c)
<1>1. c \in Seq(Node) /\ Inj(c) /\ n \in Nat /\ b \notin Node
  BY Places DEF IsChain
<1>2. /\ a \in Seq(Node) /\ Inj(a) /\ Len(a) = n + 1
      /\ a[1] = e /\ \A i \in 1..n : a[i + 1] = c[i]
  <2>1. a \in Seq(Node) /\ Inj(a) /\ Len(a) = n + 1
    BY <1>1, PushFrontProps
  <2>2. <<e>> \in Seq(Node) /\ Len(<<e>>) = 1 /\ <<e>>[1] = e
    OBVIOUS
  <2>3. \A i \in 1..(1 + n) : a[i] = IF i <= 1 THEN <<e>>[i] ELSE c[i - 1]
    BY <1>1, <2>2, ConcatProperties
  <2> HIDE DEF a
  <2>4. a[1] = e
    BY <1>1, <2>2, <2>3
  <2>5. ASSUME NEW i \in 1..n PROVE a[i + 1] = c[i]
    <3>1. i + 1 \in 1..(1 + n) /\ ~(i + 1 <= 1) /\ (i + 1) - 1 = i
      BY <1>1
    <3> QED BY <2>3, <3>1
  <2> QED BY <2>1, <2>4, <2>5
<1> HIDE DEF a
<1>3. s2[b] = e /\ s2[e] = sl[b] /\ \A q \in Node : q # e => s2[q] = sl[q]
  BY <1>1 DEF Slots
<1>4. \A i \in 1..n : c[i] \in Node /\ c[i] # e
  BY <1>1, RangeEquality
<1>5. \A i \in 0..n : sl[Place(b, c, i)] = Down(c, i + 1)
  BY DEF IsChain
<1>6. ASSUME NEW i \in 0..(n + 1) PROVE s2[Place(b, a, i)] = Down(a, i + 1)
  <2>1. CASE i = 0
    BY <1>1, <1>2, <1>3, <2>1 DEF Place, Down
  <2>2. CASE i = 1
    <3>1. sl[b] = Down(c, 1)
      BY <1>1, <1>5 DEF Place
    <3>2. Down(a, 2) = Down(c, 1)
      BY <1>1, <1>2 DEF Down
    <3> QED BY <1>1, <1>2, <1>3, <2>2, <3>1, <3>2 DEF Place
  <2>3. CASE i > 1
    <3>1. i - 1 \in 1..n /\ i # 0 /\ (i - 1) + 1 = i
      BY <1>1, <2>3
    <3>2. Place(b, a, i) = c[i - 1] /\ Place(b, c, i - 1) = c[i - 1]
      BY <1>2, <3>1 DEF Place
    <3>3. s2[c[i - 1]] = sl[c[i - 1]]
      BY <1>3, <1>4, <3>1
    <3>4. sl[c[i - 1]] = Down(c, i)
      BY <1>1, <1>5, <3>1, <3>2
    <3>5. Down(a, i + 1) = Down(c, i)
      <4>1. CASE i <= n
        BY <1>1, <1>2, <3>1, <4>1 DEF Down
      <4>2. CASE i > n
        BY <1>1, <1>2, <3>1, <4>2 DEF Down
      <4> QED BY <1>1, <4>1, <4>2
    <3> QED BY <3>2, <3>3, <3>4, <3>5
  <2> QED BY <1>1, <2>1, <2>2, <2>3
<1> QED BY <1>2, <1>6 DEF IsChain, a

(* The slot before a node is made to point past it.                        *)
LEMMA ChainRemove ==
  ASSUME NEW sl \in Slots, NEW b \in Bucket, NEW c, IsChain(sl, b, c), NEW j \in 1..Len(c),
         NEW s2, s2 = [sl EXCEPT ![Place(b, c, j - 1)] = sl[c[j]]]
  PROVE  IsChain(s2, b, RemoveFirst(c, c[j]))
<1> DEFINE r == RemoveFirst(c, c[j])
           n == Len(c)
<1>1. c \in Seq(Node) /\ Inj(c) /\ n \in Nat /\ j \in Nat /\ j >= 1 /\ j <= n /\ j - 1 \in 0..n
  BY DEF IsChain
<1>2. r \in Seq(Node) /\ Inj(r) /\ Len(r) = n - 1
      /\ \A i \in 1..(n - 1) : r[i] = IF i < j THEN c[i] ELSE c[i + 1]
  <2>1. r = RemoveAt(c, j)
    BY <1>1, RemoveFirstIs
  <2>2. r \in Seq(Node) /\ Inj(r)
    BY <1>1, RemoveFirstProps
  <2> HIDE DEF r
  <2> QED BY <1>1, <2>1, <2>2, RemoveAtProps
<1> HIDE DEF r
<1>3. \A i \in 0..n : sl[Place(b, c, i)] = Down(c, i + 1)
  BY DEF IsChain
<1>4. sl[c[j]] = Down(c, j + 1)
  <2>1. j \in 0..n /\ Place(b, c, j) = c[j]
    BY <1>1 DEF Place
  <2> QED BY <1>3, <2>1
<1>5. \A i \in 0..(n - 1) : Place(b, r, i) = Place(b, c, IF i < j THEN i ELSE i + 1)
  <2> TAKE i \in 0..(n - 1)
  <2>1. CASE i = 0
    BY <1>1, <2>1 DEF Place
  <2>2. CASE i # 0
    BY <1>1, <1>2, <2>2 DEF Place
  <2> QED BY <2>1, <2>2
<1>6. \A i \in 1..n : Down(r, i) = Down(c, IF i < j THEN i ELSE i + 1)
  <2> TAKE i \in 1..n
  <2>1. CASE i = n
    BY <1>1, <1>2, <2>1 DEF Down
  <2>2. CASE i # n
    BY <1>1, <1>2, <2>2 DEF Down
  <2> QED BY <2>1, <2>2
<1>7. \A x, y \in 0..n : Place(b, c, x) = Place(b, c, y) => x = y
  BY <1>1, PlaceProps
<1>8. \A x \in 0..n : Place(b, c, x) \in Bucket \cup Node
  BY <1>1, PlaceProps
<1>9. ASSUME NEW i \in 0..(n - 1) PROVE s2[Place(b, r, i)] = Down(r, i + 1)
  <2>1. CASE i = j - 1
    <3>1. Place(b, r, i) = Place(b, c, j - 1) /\ Down(r, i + 1) = Down(c, j + 1)
      BY <1>1, <1>5, <1>6, <2>1
    <3> QED BY <1>1, <1>4, <1>8, <3>1 DEF Slots
  <2>2. CASE i < j - 1
    <3>1. Place(b, r, i) = Place(b, c, i) /\ Down(r, i + 1) = Down(c, i + 1)
      BY <1>1, <1>5, <1>6, <2>2
    <3>2. i \in 0..n /\ i # j - 1
      BY <1>1, <2>2
    <3>3. s2[Place(b, c, i)] = sl[Place(b, c, i)]
      BY <1>1, <1>7, <1>8, <3>2 DEF Slots
    <3> QED BY <1>3, <3>1, <3>2, <3>3
  <2>3. CASE i > j - 1
    <3>1. Place(b, r, i) = Place(b, c, i + 1) /\ Down(r, i + 1) = Down(c, (i + 1) + 1)
      BY <1>1, <1>5, <1>6, <2>3
    <3>2. i + 1 \in 0..n /\ i + 1 # j - 1
      BY <1>1, <2>3
    <3>3. s2[Place(b, c, i + 1)] = sl[Place(b, c, i + 1)]
      BY <1>1, <1>7, <1>8, <3>2 DEF Slots
    <3> QED BY <1>3, <3>1, <3>2, <3>3
  <2> QED BY <1>1, <2>1, <2>2, <2>3
<1> QED BY <1>2, <1>9 DEF IsChain, r

(* A chain no slot of which is written.                                    *)
LEMMA ChainKept ==
  ASSUME NEW sl, NEW b \in Bucket, NEW c, IsChain(sl, b, c),
         NEW s2, \A q \in {b} \cup Range(c) : s2[q] = sl[q]
  PROVE  IsChain(s2, b, c)
<1>1. c \in Seq(Node) /\ Inj(c)
  BY DEF IsChain
<1>2. \A i \in 0..Len(c) : Place(b, c, i) \in {b} \cup Range(c)
  BY <1>1, PlaceProps DEF Place
<1> QED BY <1>2 DEF IsChain

-----------------------------------------------------------------------------
(* All chains: with the slots sl and the keys f, the chain of each bucket  *)
(* holds the nodes of C whose key hashes to it.                            *)
ChainOf(sl, b) == Walk(sl, b, Nil)

Chains(sl, f, C) ==
  /\ sl \in Slots
  /\ \A b \in Bucket : /\ IsChain(sl, b, ChainOf(sl, b))
                      /\ Range(ChainOf(sl, b)) = {e \in C : bucket(f[e]) = b}

(* T tells which node of C has which key.                                  *)
Agrees(T, f, C) ==
  /\ C \subseteq Node
  /\ T \in [Key -> Node \cup {Nil}]
  /\ \A k \in Key : T[k] # Nil => T[k] \in C /\ f[T[k]] = k
  /\ \A e \in C : f[e] \in Key /\ T[f[e]] = e

LEMMA Buckets == \A k \in Key : bucket(k) \in Bucket
<1>1. \A k \in Key : Hash[k] \in Nat
  BY LinksAssumption
<1>2. length_ \in Nat /\ length_ > 0
  BY LinksAssumption
<1>3. \A h \in Nat : h % length_ \in 0..(length_ - 1)
  BY <1>2
<1> QED BY <1>1, <1>3 DEF bucket, Bucket

(* The look-up of k leads to the place before the node with the key k, or  *)
(* to the end of the chain.                                                *)
LEMMA FindAt ==
  ASSUME NEW sl, NEW f, NEW C, Chains(sl, f, C), NEW T, Agrees(T, f, C), NEW k \in Key
  PROVE  LET c == ChainOf(sl, bucket(k))
         IN \E t \in 0..Len(c) :
              /\ FindIn(sl, f, k) = Place(bucket(k), c, t)
              /\ t < Len(c) => c[t + 1] = T[k] /\ T[k] # Nil
              /\ t = Len(c) => T[k] = Nil
<1> DEFINE b == bucket(k)
           c == ChainOf(sl, b)
           S == {i \in 0..Len(c) : i = Len(c) \/ f[c[i + 1]] = k}
<1>1. b \in Bucket /\ IsChain(sl, b, c) /\ Range(c) = {e \in C : bucket(f[e]) = b}
  BY Buckets DEF Chains
<1>2. c \in Seq(Node) /\ Inj(c) /\ Len(c) \in Nat /\ Range(c) = {c[i] : i \in 1..Len(c)}
  BY <1>1, RangeEquality DEF IsChain
<1>3. c = ChainOf(sl, bucket(k)) /\ b = bucket(k)
  OBVIOUS
<1> HIDE DEF c, b
<1>4. PICK t \in S : \A i \in S : t <= i
  <2>1. S \subseteq Nat /\ Len(c) \in S
    BY <1>2
  <2> HIDE DEF S
  <2> QED BY <2>1, LeastNumber
<1>5. \A i \in 1..t : f[c[i]] # k
  <2> SUFFICES ASSUME NEW i \in 1..t, f[c[i]] = k PROVE FALSE
    OBVIOUS
  <2>1. i - 1 \in 0..Len(c) /\ (i - 1) + 1 = i /\ i - 1 < t
    BY <1>2, <1>4
  <2>2. i - 1 \in S
    BY <2>1
  <2> QED BY <1>2, <1>4, <2>1, <2>2
<1>6. FindIn(sl, f, k) = Place(b, c, t)
  BY <1>1, <1>3, <1>4, <1>5, FindStops
<1>7. ASSUME t < Len(c) PROVE c[t + 1] = T[k] /\ T[k] # Nil
  <2>1. f[c[t + 1]] = k /\ t + 1 \in 1..Len(c)
    BY <1>2, <1>4, <1>7
  <2>2. c[t + 1] \in C
    BY <1>1, <1>2, <2>1
  <2> QED BY <2>1, <2>2, Places DEF Agrees
<1>8. ASSUME t = Len(c) PROVE T[k] = Nil
  <2> SUFFICES ASSUME T[k] # Nil PROVE FALSE
    OBVIOUS
  <2>1. T[k] \in C /\ f[T[k]] = k
    BY DEF Agrees
  <2>2. T[k] \in Range(c)
    BY <1>1, <1>3, <2>1
  <2> QED BY <1>2, <1>5, <1>8, <2>1, <2>2
<1> QED BY <1>3, <1>4, <1>6, <1>7, <1>8

(* So the table finds what T says.                                         *)
LEMMA Looked ==
  ASSUME NEW sl, NEW f, NEW C, Chains(sl, f, C), NEW T, Agrees(T, f, C), NEW k \in Key
  PROVE  sl[FindIn(sl, f, k)] = T[k]
<1> DEFINE b == bucket(k)
           c == ChainOf(sl, b)
<1>1. b \in Bucket /\ IsChain(sl, b, c) /\ Len(c) \in Nat
  BY Buckets DEF Chains, IsChain
<1>2. PICK t \in 0..Len(c) :
        /\ FindIn(sl, f, k) = Place(b, c, t)
        /\ t < Len(c) => c[t + 1] = T[k]
        /\ t = Len(c) => T[k] = Nil
  BY FindAt
<1> HIDE DEF b, c
<1>3. sl[Place(b, c, t)] = IF t < Len(c) THEN c[t + 1] ELSE Nil
  BY <1>1 DEF IsChain, Down
<1> QED BY <1>1, <1>2, <1>3

LEMMA InsertChains ==
  ASSUME NEW sl, NEW f, NEW C, Chains(sl, f, C), C \subseteq Node,
         NEW e \in Node, e \notin C, NEW k \in Key,
         NEW s2, s2 = table_insert(sl, e, k),
         NEW f2, f2[e] = k, \A d \in C : f2[d] = f[d]
  PROVE  Chains(s2, f2, C \cup {e})
<1> DEFINE b == bucket(k)
           c(a) == ChainOf(sl, a)
           c2(a) == IF a = b THEN <<e>> \o c(a) ELSE c(a)
<1>1. sl \in Slots /\ b \in Bucket
  BY Buckets DEF Chains
<1>2. \A a \in Bucket : /\ IsChain(sl, a, c(a)) /\ c(a) \in Seq(Node) /\ Inj(c(a))
                       /\ Range(c(a)) = {d \in C : bucket(f[d]) = a}
  BY DEF Chains, IsChain
<1>3. s2 = [sl EXCEPT ![e] = sl[b], ![b] = e]
  BY DEF table_insert
<1> HIDE DEF b, c
<1>4. IsChain(s2, b, <<e>> \o c(b)) /\ Range(<<e>> \o c(b)) = Range(c(b)) \cup {e}
  <2>1. IsChain(sl, b, c(b)) /\ e \notin Range(c(b)) /\ c(b) \in Seq(Node) /\ Inj(c(b))
    BY <1>1, <1>2
  <2> QED BY ZenonT(60), <1>1, <1>3, <2>1, ChainInsert, PushFrontProps
<1>5. ASSUME NEW a \in Bucket, a # b PROVE IsChain(s2, a, c(a))
  <2>1. \A q \in {a} \cup Range(c(a)) : q # e /\ q # b /\ q \in Bucket \cup Node
    BY <1>1, <1>2, <1>5, Places
  <2>2. \A q \in {a} \cup Range(c(a)) : s2[q] = sl[q]
    BY <1>1, <1>3, <2>1 DEF Slots
  <2> QED BY <1>2, <2>2, ChainKept
<1>6. \A a \in Bucket : IsChain(s2, a, c2(a))
      /\ Range(c2(a)) = {d \in C \cup {e} : bucket(f2[d]) = a}
  <2> TAKE a \in Bucket
  <2>1. IsChain(s2, a, c2(a))
    BY <1>4, <1>5
  <2>2. {d \in C \cup {e} : bucket(f2[d]) = a}
          = {d \in C : bucket(f[d]) = a} \cup (IF a = b THEN {e} ELSE {})
    BY DEF b
  <2>3. Range(c2(a)) = Range(c(a)) \cup (IF a = b THEN {e} ELSE {})
    BY <1>4
  <2> HIDE DEF c2
  <2> QED BY <1>2, <2>1, <2>2, <2>3
<1> HIDE DEF c2
<1>7. \A a \in Bucket : ChainOf(s2, a) = c2(a)
  BY <1>6, ChainWalk DEF ChainOf
<1>8. s2 \in Slots
  BY <1>1, <1>3 DEF Slots
<1> QED BY <1>6, <1>7, <1>8 DEF Chains

(* The key leaves T and its node leaves C.                                 *)
LEMMA RemoveChains ==
  ASSUME NEW sl, NEW f, NEW C, Chains(sl, f, C), NEW T, Agrees(T, f, C), NEW e \in C,
         NEW q, q = FindIn(sl, f, f[e]),
         NEW s2, s2 = IF sl[q] = Nil THEN sl ELSE [sl EXCEPT ![q] = sl[sl[q]]]
  PROVE  /\ Chains(s2, f, C \ {e})
         /\ Agrees([T EXCEPT ![f[e]] = Nil], f, C \ {e})
<1> DEFINE k == f[e]
           b == bucket(k)
           c(a) == ChainOf(sl, a)
           c2(a) == IF a = b THEN RemoveFirst(c(a), e) ELSE c(a)
<1>1. sl \in Slots /\ k \in Key /\ T[k] = e /\ b \in Bucket /\ e \in Node
  BY Buckets DEF Chains, Agrees
<1>2. \A a \in Bucket : /\ IsChain(sl, a, c(a)) /\ c(a) \in Seq(Node) /\ Inj(c(a))
                       /\ Range(c(a)) = {d \in C : bucket(f[d]) = a}
  BY DEF Chains, IsChain
<1>3. PICK t \in 0..Len(c(b)) :
        /\ q = Place(b, c(b), t)
        /\ t < Len(c(b)) => c(b)[t + 1] = T[k] /\ T[k] # Nil
        /\ t = Len(c(b)) => T[k] = Nil
  BY <1>1, FindAt
<1>4. Len(c(b)) \in Nat /\ IsChain(sl, b, c(b))
  BY <1>1, <1>2
<1>5. t < Len(c(b)) /\ c(b)[t + 1] = e
  BY <1>1, <1>3, <1>4, Places
<1>6. sl[q] = e
  BY <1>3, <1>4, <1>5 DEF IsChain, Down
<1>7. s2 = [sl EXCEPT ![Place(b, c(b), (t + 1) - 1)] = sl[c(b)[t + 1]]]
  <2>1. (t + 1) - 1 = t
    BY <1>4
  <2> QED BY <1>1, <1>3, <1>5, <1>6, <2>1, Places
<1>8. IsChain(s2, b, RemoveFirst(c(b), e)) /\ Range(RemoveFirst(c(b), e)) = Range(c(b)) \ {e}
  <2>1. t + 1 \in 1..Len(c(b))
    BY <1>4, <1>5
  <2>2. IsChain(s2, b, RemoveFirst(c(b), c(b)[t + 1]))
    BY <1>1, <1>4, <1>7, <2>1, ChainRemove
  <2> QED BY <1>1, <1>2, <1>5, <2>2, RemoveFirstProps
<1>9. q = b \/ q \in Range(c(b))
  BY <1>1, <1>2, <1>3, PlaceProps DEF Place
<1>10. q \in Bucket \cup Node
  BY <1>1, <1>2, <1>9, EmptyRange
<1> HIDE DEF b, c
<1>11. ASSUME NEW a \in Bucket, a # b PROVE IsChain(s2, a, c(a))
  <2>1. q \notin {a} \cup Range(c(a))
    <3>1. CASE q = b
      BY <1>1, <1>2, <1>11, <3>1, EmptyRange, Places
    <3>2. CASE q \in Range(c(b))
      <4>1. q \in Node /\ bucket(f[q]) = b
        BY <1>1, <1>2, <3>2, EmptyRange
      <4> QED BY <1>2, <1>11, <4>1, Places
    <3> QED BY <1>9, <3>1, <3>2
  <2>2. \A x \in {a} \cup Range(c(a)) : x \in Bucket \cup Node
    BY <1>2, EmptyRange
  <2>3. s2 = [sl EXCEPT ![q] = sl[sl[q]]]
    BY <1>1, <1>6, Places
  <2>4. \A x \in {a} \cup Range(c(a)) : s2[x] = sl[x]
    BY <1>1, <2>1, <2>2, <2>3 DEF Slots
  <2> QED BY <1>2, <2>4, ChainKept
<1>12. \A a \in Bucket : IsChain(s2, a, c2(a))
       /\ Range(c2(a)) = {d \in C \ {e} : bucket(f[d]) = a}
  <2> TAKE a \in Bucket
  <2>1. IsChain(s2, a, c2(a))
    BY <1>8, <1>11
  <2>2. {d \in C \ {e} : bucket(f[d]) = a}
      = {d \in C : bucket(f[d]) = a} \ (IF a = b THEN {e} ELSE {})
    BY DEF b
  <2>3. Range(c2(a)) = Range(c(a)) \ (IF a = b THEN {e} ELSE {})
    BY <1>8
  <2> HIDE DEF c2
  <2> QED BY <1>2, <2>1, <2>2, <2>3
<1> HIDE DEF c2
<1>13. \A a \in Bucket : ChainOf(s2, a) = c2(a)
  BY <1>12, ChainWalk DEF ChainOf
<1>14. s2 \in Slots
  <2>1. sl[e] \in Node \cup {Nil}
    BY <1>1 DEF Slots
  <2> QED BY <1>1, <1>6, <1>10, <2>1 DEF Slots
<1>15. Agrees([T EXCEPT ![k] = Nil], f, C \ {e})
  BY <1>1, Places DEF Agrees
<1> QED BY <1>12, <1>13, <1>14, <1>15 DEF Chains

(* A node with a new key joins.                                            *)
LEMMA NewAgrees ==
  ASSUME NEW f, NEW C, NEW T, Agrees(T, f, C), NEW k \in Key, T[k] = Nil,
         NEW e \in Node, e \notin C, NEW f2, f2[e] = k, \A d \in C : f2[d] = f[d]
  PROVE  Agrees([T EXCEPT ![k] = e], f2, C \cup {e})
<1> DEFINE T2 == [T EXCEPT ![k] = e]
<1>1. T2 \in [Key -> Node \cup {Nil}] /\ T2[k] = e /\ \A j \in Key : j # k => T2[j] = T[j]
  BY DEF Agrees
<1> HIDE DEF T2
<1>2. C \cup {e} \subseteq Node
  BY DEF Agrees
<1>3. ASSUME NEW j \in Key, T2[j] # Nil PROVE T2[j] \in C \cup {e} /\ f2[T2[j]] = j
  BY <1>1, <1>3 DEF Agrees
<1>4. ASSUME NEW d \in C PROVE f2[d] \in Key /\ T2[f2[d]] = d
  <2>1. f2[d] = f[d] /\ f[d] \in Key /\ T[f[d]] = d /\ d \in Node
    BY DEF Agrees
  <2>2. f[d] # k
    BY <2>1, Places
  <2> QED BY <1>1, <2>1, <2>2
<1> QED BY <1>1, <1>2, <1>3, <1>4 DEF Agrees, T2

-----------------------------------------------------------------------------
(* LRUCache and its theorems, on the lists and the table the pointers      *)
(* represent.                                                              *)
P == INSTANCE LRUCacheProofs WITH
  Tag <- {self},
  pool <- [t \in {self} |-> pool_],
  list <- SequenceOf,
  table <- TableOf,
  size <- [t \in {self} |-> size],
  capacity <- [t \in {self} |-> capacity]

(* What LRUCache assumes of its constants.                                 *)
LEMMA Assumed == P!SelfAssumption /\ P!NilAssumption /\ P!PoolAssumption
<1>1. P!SelfAssumption
  BY LinksAssumption DEF P!SelfAssumption
<1>2. P!NilAssumption
  BY LinksAssumption, Places DEF P!NilAssumption
<1>3. pool_ \in Seq(Node) /\ Inj(pool_) /\ Len(pool_) > 0
  BY LinksAssumption, InjectiveLists, EmptySeq
<1>4. P!PoolAssumption
  BY <1>3 DEF P!PoolAssumption, Inj
<1> QED BY <1>1, <1>2, <1>4

(* Its invariant is preserved by its steps.                                *)
LEMMA StepsKeep == P!Inv /\ P!Next => P!Inv'
BY Assumed, P!NextInv DEF P!SelfAssumption, P!NilAssumption, P!PoolAssumption

LEMMA InitKeeps == P!Init => P!Inv
BY Assumed, P!InitInv DEF P!SelfAssumption, P!NilAssumption, P!PoolAssumption

LEMMA SameOperators ==
  /\ \A s : P!Range(s) = Range(s)
  /\ \A s, e : P!RemoveFirst(s, e) = RemoveFirst(s, e)
BY DEF P!Range, Range, P!RemoveFirst, RemoveFirst, P!SelectInSeq, SelectInSeq,
       P!RemoveAt, RemoveAt, P!Min, Min

LEMMA Heads ==
  /\ HeadOf("lru") = "lru_" /\ HeadOf("in_use") = "in_use_"
  /\ HeadOf("free") = "free_" /\ HeadOf("erased") = "erased_"
  /\ \A m \in Kinds : HeadOf(m) \in DummyHead
  /\ \A m, o \in Kinds : HeadOf(m) = HeadOf(o) => m = o
  /\ \A h \in DummyHead : \E m \in Kinds : HeadOf(m) = h
  /\ P!Kind = Kinds
BY DEF HeadOf, Kinds, DummyHead, P!Kind

LEMMA SeqOfIs ==
  /\ DOMAIN SequenceOf = {self} \X Kinds /\ DOMAIN SequenceOf' = {self} \X Kinds
  /\ \A m \in Kinds : SequenceOf[<<self, m>>] = RingOf(next, HeadOf(m))
  /\ \A m \in Kinds : SequenceOf'[<<self, m>>] = RingOf(next', HeadOf(m))
  /\ SequenceOf = [L \in {self} \X Kinds |-> SequenceOf[L]]
  /\ SequenceOf' = [L \in {self} \X Kinds |-> SequenceOf'[L]]
BY DEF SequenceOf, ListOf, RingOf

LEMMA CachedIs ==
  /\ Cached = Range(RingOf(next, "lru_")) \cup Range(RingOf(next, "in_use_"))
  /\ Cached' = Range(RingOf(next', "lru_")) \cup Range(RingOf(next', "in_use_"))
BY DEF Cached, ListOf, RingOf

LEMMA OnIs ==
  /\ \A m \in Kinds : P!On(self, m) = Range(RingOf(next, HeadOf(m)))
  /\ P!Resident(self) = Cached
BY SameOperators, SeqOfIs, CachedIs, Heads DEF P!On, P!Resident, Kinds

(* What LRUCache guarantees of the lists and the table.                    *)
LEMMA KnownTypes ==
  ASSUME P!Inv
  PROVE  /\ \A m \in Kinds : RingOf(next, HeadOf(m)) \in Seq(Node)
         /\ key \in [Node -> Key \cup {NoKey}]
         /\ refs \in [Node -> Nat] /\ pins \in [Node -> Nat]
         /\ size \in Nat /\ capacity \in Nat /\ extra_pool \in SUBSET Node
         /\ TableOf \in [Key -> Node \cup {Nil}]
         /\ ret \in [op : P!Op, node : Node \cup {Nil}]
<1>1. P!CoreTypeOK /\ pins \in [Node -> Nat] /\ ret \in [op : P!Op, node : Node \cup {Nil}]
  BY DEF P!Inv, P!TypeOK
<1>2. SequenceOf \in [{self} \X Kinds -> Seq(Node)]
  BY <1>1, Heads DEF P!CoreTypeOK
<1>3. \A m \in Kinds : RingOf(next, HeadOf(m)) \in Seq(Node)
  BY <1>2, SeqOfIs
<1>4. size \in Nat /\ capacity \in Nat
  <2>1. [t \in {self} |-> size] \in [{self} -> Nat]
      /\ [t \in {self} |-> capacity] \in [{self} -> Nat]
    BY <1>1 DEF P!CoreTypeOK
  <2> QED BY <2>1
<1> QED BY <1>1, <1>3, <1>4 DEF P!CoreTypeOK

LEMMA KnownDisjoint == P!Inv => Disjoint(next)
<1> SUFFICES ASSUME P!Inv PROVE Disjoint(next)
  OBVIOUS
<1>1. ASSUME NEW m \in Kinds, NEW o \in Kinds, NEW e \in Range(RingOf(next, HeadOf(m))),
             e \in Range(RingOf(next, HeadOf(o)))
      PROVE  m = o
  <2> DEFINE s == RingOf(next, HeadOf(m))
             t == RingOf(next, HeadOf(o))
  <2>1. s \in Seq(Node) /\ t \in Seq(Node)
    BY KnownTypes
  <2>2. s = SequenceOf[<<self, m>>] /\ t = SequenceOf[<<self, o>>]
    BY SeqOfIs
  <2>3. PICK i \in 1..Len(s), j \in 1..Len(t) : s[i] = e /\ t[j] = e
    BY <1>1, <2>1, RangeEquality
  <2> HIDE DEF s, t
  <2>4. P!LinkedOnce
    BY DEF P!Inv, P!CoreInv, P!OneList
  <2>5. <<self, m>> = <<self, o>>
    BY <2>2, <2>3, <2>4, Heads DEF P!LinkedOnce
  <2> QED BY <2>5
<1> QED BY <1>1, Heads DEF Disjoint

LEMMA KnownTable == P!Inv => Agrees(TableOf, key, Cached)
<1> SUFFICES ASSUME P!Inv PROVE Agrees(TableOf, key, Cached)
  OBVIOUS
<1>1. P!TableAgrees /\ TableOf \in [Key -> Node \cup {Nil}]
  BY KnownTypes DEF P!Inv, P!CoreInv
<1>2. Cached \subseteq Node
  <2>1. RingOf(next, "lru_") \in Seq(Node) /\ RingOf(next, "in_use_") \in Seq(Node)
    BY KnownTypes, Heads DEF Kinds
  <2> QED BY <2>1, CachedIs, EmptyRange
<1>3. \A k \in Key : TableOf[k] # Nil => TableOf[k] \in Cached /\ key[TableOf[k]] = k
  BY <1>1, OnIs DEF P!TableAgrees
<1>4. \A e \in Cached : key[e] \in Key /\ TableOf[key[e]] = e
  BY <1>1, OnIs DEF P!TableAgrees
<1> QED BY <1>1, <1>2, <1>3, <1>4 DEF Agrees

LEMMA KnownRefs ==
  ASSUME P!Inv
  PROVE  /\ \A e \in Range(RingOf(next, "lru_")) : refs[e] = 1
         /\ \A e \in Range(RingOf(next, "in_use_")) : refs[e] > 1
         /\ \A e \in Range(RingOf(next, "erased_")) : refs[e] = 0
         /\ \A e \in Node : key[e] # NoKey => e \in Cached \cup Range(RingOf(next, "erased_"))
         /\ \A e \in Node : pins[e] > 0 => e \in Cached /\ refs[e] > 1
<1>1. P!RefState /\ P!Issued /\ P!PinsCounted
  BY DEF P!Inv, P!CoreInv
<1>2. /\ \A e \in Range(RingOf(next, "lru_")) : refs[e] = 1
      /\ \A e \in Range(RingOf(next, "in_use_")) : refs[e] > 1
      /\ \A e \in Range(RingOf(next, "erased_")) : refs[e] = 0
  BY <1>1, OnIs, Heads DEF P!RefState, Kinds
<1>3. \A e \in Node : key[e] # NoKey => e \in Cached \cup Range(RingOf(next, "erased_"))
  BY <1>1, OnIs, Heads DEF P!Issued, Kinds
<1>4. \A e \in Node : pins[e] = IF e \in Cached THEN refs[e] - 1 ELSE 0
  BY <1>1, OnIs DEF P!PinsCounted
<1>5. refs \in [Node -> Nat]
  BY KnownTypes
<1> QED BY <1>2, <1>3, <1>4, <1>5

LEMMA KnownLinked ==
  P!Inv => Range(pool_) \cup extra_pool = UNION {Range(RingOf(next, h)) : h \in DummyHead}
<1> SUFFICES ASSUME P!Inv
             PROVE  Range(pool_) \cup extra_pool
                      = UNION {Range(RingOf(next, h)) : h \in DummyHead}
  OBVIOUS
<1>1. P!NoLeak
  BY DEF P!Inv, P!CoreInv, P!OneList
<1>2. P!PoolNodes = Range(pool_)
  BY SameOperators DEF P!PoolNodes
<1>3. UNION {P!On(t, m) : t \in {self}, m \in P!Kind}
      = UNION {Range(RingOf(next, HeadOf(m))) : m \in Kinds}
  BY OnIs, Heads
<1>4. UNION {Range(RingOf(next, HeadOf(m))) : m \in Kinds}
      = UNION {Range(RingOf(next, h)) : h \in DummyHead}
  BY Heads
<1> QED BY <1>1, <1>2, <1>3, <1>4 DEF P!NoLeak

-----------------------------------------------------------------------------
(* The links represent four lists, and the chains the cached nodes.        *)
LinkInv == Rings(next, prev) /\ Chains(slot, key, Cached)

(* What a call does to the links: e becomes the newest of the list m.      *)
Moves(m, e) ==
  /\ Rings(next', prev')
  /\ SequenceOf' = P!move(SequenceOf, <<self, m>>, e)
  /\ Cached' = IF m \in {"lru", "in_use"} THEN Cached \cup {e} ELSE Cached \ {e}

LEMMA MovedSeqs ==
  ASSUME Rings(next, prev), NEW m \in Kinds, NEW e \in Node, Rings(next', prev'),
         \A h \in DummyHead : RingOf(next', h) =
           IF h = HeadOf(m) THEN Append(RemoveFirst(RingOf(next, h), e), e)
           ELSE RemoveFirst(RingOf(next, h), e)
  PROVE  Moves(m, e)
<1>1. \A h \in DummyHead : RingOf(next, h) \in Seq(Node) /\ Inj(RingOf(next, h))
  BY DEF Rings, IsRing
<1>2. \A o \in Kinds : SequenceOf'[<<self, o>>] =
        IF o = m THEN Append(RemoveFirst(SequenceOf[<<self, o>>], e), e)
        ELSE RemoveFirst(SequenceOf[<<self, o>>], e)
  <2> TAKE o \in Kinds
  <2>1. SequenceOf'[<<self, o>>] = RingOf(next', HeadOf(o))
      /\ SequenceOf[<<self, o>>] = RingOf(next, HeadOf(o))
    BY SeqOfIs
  <2>2. HeadOf(o) \in DummyHead /\ (HeadOf(o) = HeadOf(m) <=> o = m)
    BY Heads
  <2> QED BY <2>1, <2>2
<1>3. SequenceOf' = P!move(SequenceOf, <<self, m>>, e)
  <2> DEFINE r == [L \in {self} \X Kinds |-> RemoveFirst(SequenceOf[L], e)]
             a == [r EXCEPT ![<<self, m>>] = Append(@, e)]
  <2>1. P!move(SequenceOf, <<self, m>>, e) = a
    BY SameOperators, SeqOfIs DEF P!move, P!list_append, P!list_remove
  <2>2. \A o \in Kinds : a[<<self, o>>] = SequenceOf'[<<self, o>>]
    BY <1>2
  <2>3. a = [L \in {self} \X Kinds |-> a[L]]
    OBVIOUS
  <2> HIDE DEF a
  <2>4. \A L \in {self} \X Kinds : \E o \in Kinds : L = <<self, o>>
    OBVIOUS
  <2>5. \A L \in {self} \X Kinds : a[L] = SequenceOf'[L]
    BY <2>2, <2>4
  <2>6. SequenceOf' = [L \in {self} \X Kinds |-> SequenceOf'[L]]
    BY SeqOfIs
  <2>7. a = SequenceOf'
    BY <2>3, <2>5, <2>6
  <2> QED BY <2>1, <2>7
<1>4. \A h \in DummyHead : Range(RingOf(next', h)) =
        IF h = HeadOf(m) THEN Range(RingOf(next, h)) \cup {e} ELSE Range(RingOf(next, h)) \ {e}
  <2> TAKE h \in DummyHead
  <2> DEFINE r == RemoveFirst(RingOf(next, h), e)
  <2>1. r \in Seq(Node) /\ Inj(r) /\ Range(r) = Range(RingOf(next, h)) \ {e}
    BY <1>1, RemoveFirstProps
  <2>2. RingOf(next', h) = IF h = HeadOf(m) THEN Append(r, e) ELSE r
    OBVIOUS
  <2> HIDE DEF r
  <2>3. Range(Append(r, e)) = Range(r) \cup {e}
    BY <2>1, AppendProps
  <2> QED BY <2>1, <2>2, <2>3
<1>5. Cached' = IF m \in {"lru", "in_use"} THEN Cached \cup {e} ELSE Cached \ {e}
  <2>1. "lru_" \in DummyHead /\ "in_use_" \in DummyHead
    BY DEF DummyHead
  <2>2. /\ HeadOf(m) = "lru_" <=> m = "lru"
        /\ HeadOf(m) = "in_use_" <=> m = "in_use"
    BY Heads DEF Kinds
  <2> QED BY <1>4, <2>1, <2>2, CachedIs
<1> QED BY <1>3, <1>5 DEF Moves

LEMMA MoveStep ==
  ASSUME Rings(next, prev), Disjoint(next), NEW m \in Kinds, NEW f \in DummyHead,
         NEW e \in Range(RingOf(next, f)), SetLinks(move(HeadOf(m), e))
  PROVE  Moves(m, e)
<1> DEFINE l == list_append(list_remove([next |-> next, prev |-> prev], e), HeadOf(m), e)
<1>1. next' = l.next /\ prev' = l.prev
  BY DEF SetLinks, move, links
<1>2. HeadOf(m) \in DummyHead /\ e \in Node
  <2>1. RingOf(next, f) \in Seq(Node)
    BY DEF Rings, IsRing
  <2> QED BY <2>1, Heads, EmptyRange
<1>3. l = list_append(list_remove([next |-> next, prev |-> prev], e), HeadOf(m), e)
  OBVIOUS
<1> HIDE DEF l
<1>4. /\ Rings(l.next, l.prev)
      /\ \A h \in DummyHead : RingOf(l.next, h) =
           IF h = HeadOf(m) THEN Append(RemoveFirst(RingOf(next, h), e), e)
           ELSE RemoveFirst(RingOf(next, h), e)
  BY <1>2, <1>3, MoveRings
<1> QED BY <1>1, <1>2, <1>4, MovedSeqs

(* A node that was on no list joins one.                                   *)
LEMMA AppendStep ==
  ASSUME Rings(next, prev), Disjoint(next), NEW m \in Kinds,
         NEW e, Unlinked(next, e), SetLinks(list_append(links, HeadOf(m), e))
  PROVE  Moves(m, e)
<1> DEFINE l == list_append([next |-> next, prev |-> prev], HeadOf(m), e)
<1>1. next' = l.next /\ prev' = l.prev
  BY DEF SetLinks, links
<1>2. HeadOf(m) \in DummyHead /\ e \in Node
  BY Heads DEF Unlinked
<1>3. l = list_append([next |-> next, prev |-> prev], HeadOf(m), e)
  OBVIOUS
<1> HIDE DEF l
<1>4. Appended(next, HeadOf(m), e, l)
  BY <1>2, <1>3, AppendRings
<1>5. \A h \in DummyHead : RemoveFirst(RingOf(next, h), e) = RingOf(next, h)
  BY RemoveFirstIs DEF Rings, IsRing, Unlinked
<1> QED BY <1>1, <1>2, <1>4, <1>5, MovedSeqs DEF Appended

LEMMA StayStep ==
  ASSUME UNCHANGED <<next, prev>>
  PROVE  /\ SequenceOf' = SequenceOf /\ Cached' = Cached
         /\ (Rings(next, prev) => Rings(next', prev'))
<1>1. Cached' = Cached
  BY CachedIs
<1> QED BY <1>1 DEF SequenceOf, ListOf

(* The table.                                                              *)
LEMMA SameTable ==
  ASSUME Chains(slot, key, Cached), Cached' = Cached, UNCHANGED <<slot, key>>
  PROVE  Chains(slot', key', Cached') /\ TableOf' = TableOf
<1>1. \A k : lookup(k)' = lookup(k)
  BY FindPointer
<1> QED BY <1>1 DEF TableOf

LEMMA NewTable ==
  ASSUME Chains(slot', key', Cached'), NEW T, Agrees(T, key', Cached')
  PROVE  TableOf' = T
<1>1. \A k \in Key : slot'[FindIn(slot', key', k)] = T[k]
  BY Looked
<1>2. TableOf' = [k \in Key |-> T[k]]
  BY <1>1, FindPointer DEF TableOf
<1>3. T = [k \in Key |-> T[k]]
  BY DEF Agrees
<1> QED BY <1>2, <1>3

-----------------------------------------------------------------------------
(* The member functions: each represents that of LRUCore.                  *)
LEMMA OnLists ==
  ASSUME P!Inv, NEW e \in Cached
  PROVE  /\ e \in Node
         /\ \E f \in DummyHead : e \in Range(RingOf(next, f))
         /\ refs[e] = 1 <=> e \in Range(RingOf(next, "lru_"))
         /\ refs[e] > 1 <=> e \in Range(RingOf(next, "in_use_"))
         /\ refs[e] >= 1
<1>1. e \in Node
  BY KnownTable DEF Agrees
<1>2. e \in Range(RingOf(next, "lru_")) \/ e \in Range(RingOf(next, "in_use_"))
  BY CachedIs
<1>3. refs[e] \in Nat
  BY <1>1, KnownTypes
<1> QED BY <1>1, <1>2, <1>3, KnownRefs DEF DummyHead

LEMMA RefStep ==
  ASSUME LinkInv, P!Inv, NEW e \in Cached, ref(e), UNCHANGED <<slot, key>>
  PROVE  LinkInv' /\ P!ref(self, e) /\ TableOf' = TableOf
<1>1. Rings(next', prev') /\ Cached' = Cached
      /\ SequenceOf' = IF refs[e] = 1 THEN P!move(SequenceOf, <<self, "in_use">>, e)
                       ELSE SequenceOf
  <2>1. CASE refs[e] = 1
    <3>1. PICK f \in DummyHead : e \in Range(RingOf(next, f))
      BY OnLists
    <3>2. "in_use" \in Kinds /\ SetLinks(move(HeadOf("in_use"), e))
      BY <2>1, Heads DEF ref, Kinds
    <3>3. Moves("in_use", e)
      BY <3>1, <3>2, KnownDisjoint, MoveStep DEF LinkInv
    <3> QED BY <2>1, <3>3 DEF Moves
  <2>2. CASE refs[e] # 1
    <3>1. UNCHANGED <<next, prev>>
      BY <2>2 DEF ref, SetLinks, links
    <3> QED BY <2>2, <3>1, StayStep DEF LinkInv
  <2> QED BY <2>1, <2>2
<1>2. Chains(slot', key', Cached') /\ TableOf' = TableOf
  BY <1>1, SameTable DEF LinkInv
<1>3. refs' = [refs EXCEPT ![e] = @ + 1]
  BY DEF ref
<1>4. P!ref(self, e)
  BY <1>1, <1>3 DEF P!ref
<1> QED BY <1>1, <1>2, <1>4 DEF LinkInv

(* lru_refresh does nothing to the newest node, which is what moving it to *)
(* the newest place does.                                                  *)
LEMMA NewestStays ==
  ASSUME LinkInv, P!Inv, NEW e \in Range(RingOf(next, "lru_")), next[e] = "lru_"
  PROVE  P!move(SequenceOf, <<self, "lru">>, e) = SequenceOf
<1> DEFINE s == RingOf(next, "lru_")
           r == RemoveFirst(s, e)
<1>1. s \in Seq(Node) /\ Inj(s) /\ IsRing(next, prev, "lru_", s) /\ Len(s) \in Nat
  BY DEF LinkInv, Rings, IsRing, DummyHead
<1>2. PICK j \in 1..Len(s) : s[j] = e
  BY <1>1, RangeEquality
<1> HIDE DEF s
<1>3. j = Len(s)
  <2>1. j \in 0..Len(s) /\ At("lru_", s, j) = e
    BY <1>1, <1>2 DEF At
  <2>2. next[e] = At("lru_", s, j + 1)
    BY <1>1, <2>1 DEF IsRing
  <2>3. At("lru_", s, j + 1) \notin Node
    BY <2>2, Places DEF DummyHead
  <2>4. j + 1 \notin 1..Len(s)
    BY <1>1, <2>3 DEF At
  <2> QED BY <1>1, <2>4
<1>4. /\ r \in Seq(Node) /\ Len(r) = Len(s) - 1
      /\ \A i \in 1..(Len(s) - 1) : r[i] = s[i]
  <2>1. r = RemoveAt(s, j)
    BY <1>1, <1>2, RemoveFirstIs
  <2>2. /\ RemoveAt(s, j) \in Seq(Node) /\ Len(RemoveAt(s, j)) = Len(s) - 1
        /\ \A i \in 1..(Len(s) - 1) : RemoveAt(s, j)[i] = IF i < j THEN s[i] ELSE s[i + 1]
    BY <1>1, RemoveAtProps
  <2> HIDE DEF r
  <2> QED BY <1>1, <1>3, <2>1, <2>2
<1> HIDE DEF r
<1>5. e \in Node
  BY <1>1, <1>2
<1>6. Append(r, e) = s
  <2>1. /\ Append(r, e) \in Seq(Node) /\ Len(Append(r, e)) = Len(s)
        /\ \A i \in 1..(Len(s) - 1) : Append(r, e)[i] = s[i]
        /\ Append(r, e)[Len(s)] = e
    BY <1>1, <1>4, <1>5, AppendProperties
  <2>2. \A i \in 1..Len(s) : Append(r, e)[i] = s[i]
    BY <1>1, <1>2, <1>3, <2>1
  <2> QED BY <1>1, <2>1, <2>2, SeqEqual
<1>7. ASSUME NEW m \in Kinds, m # "lru"
      PROVE RemoveFirst(SequenceOf[<<self, m>>], e) = SequenceOf[<<self, m>>]
  <2>1. HeadOf(m) # "lru_" /\ HeadOf(m) \in DummyHead /\ "lru_" \in DummyHead
    BY <1>7, Heads DEF Kinds, DummyHead
  <2>2. e \notin Range(RingOf(next, HeadOf(m)))
    BY <2>1, KnownDisjoint DEF Disjoint
  <2>3. RingOf(next, HeadOf(m)) \in Seq(Node) /\ Inj(RingOf(next, HeadOf(m)))
    BY <2>1 DEF LinkInv, Rings, IsRing
  <2> QED BY <2>2, <2>3, SeqOfIs, RemoveFirstIs
<1>8. SequenceOf[<<self, "lru">>] = s
  BY SeqOfIs, Heads DEF s, Kinds
<1> DEFINE q == [L \in {self} \X Kinds |-> RemoveFirst(SequenceOf[L], e)]
           a == [q EXCEPT ![<<self, "lru">>] = Append(@, e)]
<1>9. P!move(SequenceOf, <<self, "lru">>, e) = a
  BY SameOperators, SeqOfIs DEF P!move, P!list_append, P!list_remove
<1>10. \A m \in Kinds : a[<<self, m>>] = SequenceOf[<<self, m>>]
  <2> TAKE m \in Kinds
  <2>1. CASE m = "lru"
    <3>1. "lru" \in Kinds
      BY DEF Kinds
    <3> QED BY <1>6, <1>8, <2>1, <3>1 DEF r
  <2>2. CASE m # "lru"
    BY <1>7, <2>2
  <2> QED BY <2>1, <2>2
<1>11. a = [L \in {self} \X Kinds |-> a[L]]
  OBVIOUS
<1> HIDE DEF a
<1>12. \A L \in {self} \X Kinds : \E m \in Kinds : L = <<self, m>>
  OBVIOUS
<1>13. \A L \in {self} \X Kinds : a[L] = SequenceOf[L]
  BY <1>10, <1>12
<1> QED BY <1>9, <1>11, <1>13, SeqOfIs

LEMMA HitStep ==
  ASSUME LinkInv, P!Inv, NEW e \in Cached, NEW pin \in BOOLEAN, lookup_refresh(e, pin)
  PROVE  LinkInv' /\ P!lookup_refresh(self, e, pin)
<1>1. UNCHANGED <<slot, size, capacity, key, extra_pool>>
  BY DEF lookup_refresh
<1>2. LinkInv' /\ TableOf' = TableOf /\
      \/ pin /\ P!ref(self, e)
      \/ ~pin /\ refs[e] = 1 /\ P!lru_refresh(self, e) /\ UNCHANGED refs
      \/ ~pin /\ refs[e] # 1 /\ UNCHANGED <<SequenceOf, refs>>
  <2>1. CASE pin
    <3>1. ref(e)
      BY <2>1 DEF lookup_refresh
    <3> QED BY <1>1, <2>1, <3>1, RefStep
  <2>2. CASE ~pin /\ refs[e] = 1
    <3>1. lru_refresh(e) /\ UNCHANGED refs /\ e \in Range(RingOf(next, "lru_"))
      BY <2>2, OnLists DEF lookup_refresh
    <3>2. Rings(next', prev') /\ Cached' = Cached
          /\ SequenceOf' = P!move(SequenceOf, <<self, "lru">>, e)
      <4>1. CASE next[e] = "lru_"
        <5>1. UNCHANGED <<next, prev>>
          BY <3>1, <4>1 DEF lru_refresh, SetLinks, links
        <5> QED BY <3>1, <4>1, <5>1, StayStep, NewestStays DEF LinkInv
      <4>2. CASE next[e] # "lru_"
        <5>1. "lru" \in Kinds /\ "lru_" \in DummyHead /\ SetLinks(move(HeadOf("lru"), e))
          BY <3>1, <4>2, Heads DEF lru_refresh, Kinds, DummyHead
        <5>2. Moves("lru", e)
          BY <3>1, <5>1, KnownDisjoint, MoveStep DEF LinkInv
        <5> QED BY <5>2 DEF Moves
      <4> QED BY <4>1, <4>2
    <3>3. Chains(slot', key', Cached') /\ TableOf' = TableOf
      BY <1>1, <3>2, SameTable DEF LinkInv
    <3>4. P!lru_refresh(self, e)
      BY <3>2 DEF P!lru_refresh
    <3> QED BY <2>2, <3>1, <3>2, <3>3, <3>4 DEF LinkInv
  <2>3. CASE ~pin /\ refs[e] # 1
    <3>1. UNCHANGED <<next, prev, refs>>
      BY <2>3 DEF lookup_refresh
    <3>2. SequenceOf' = SequenceOf /\ Cached' = Cached /\ Rings(next', prev')
      BY <3>1, StayStep DEF LinkInv
    <3>3. Chains(slot', key', Cached') /\ TableOf' = TableOf
      BY <1>1, <3>2, SameTable DEF LinkInv
    <3> QED BY <2>3, <3>1, <3>2, <3>3 DEF LinkInv
  <2> QED BY <2>1, <2>2, <2>3
<1>3. LinkInv'
  BY <1>2
<1>4. P!lookup_refresh(self, e, pin)
  BY <1>1, <1>2 DEF P!lookup_refresh
<1> QED BY <1>3, <1>4

LEMMA ListsAre ==
  /\ P!lru(self) = RingOf(next, "lru_") /\ P!in_use(self) = RingOf(next, "in_use_")
  /\ P!free(self) = RingOf(next, "free_") /\ P!erased(self) = RingOf(next, "erased_")
BY SeqOfIs, Heads DEF P!lru, P!in_use, P!free, P!erased, Kinds

LEMMA EmptyIs ==
  ASSUME Rings(next, prev), NEW h \in DummyHead
  PROVE  /\ Empty(h) <=> RingOf(next, h) = <<>>
         /\ RingOf(next, h) # <<>> =>
              /\ next[h] = Head(RingOf(next, h))
              /\ next[h] \in Range(RingOf(next, h))
              /\ next[h] \in Node
<1> DEFINE s == RingOf(next, h)
<1>1. s \in Seq(Node) /\ Len(s) \in Nat /\ h \notin Node
      /\ \A i \in 0..Len(s) : next[At(h, s, i)] = At(h, s, i + 1)
  BY Places DEF Rings, IsRing
<1> HIDE DEF s
<1>2. next[h] = At(h, s, 1)
  BY <1>1 DEF At
<1>3. CASE s = <<>>
  <2>1. next[h] = h
    BY <1>1, <1>2, <1>3 DEF At
  <2> QED BY <1>3, <2>1 DEF s, Empty
<1>4. CASE s # <<>>
  <2>1. 1 \in 1..Len(s) /\ s[1] = Head(s) /\ s[1] \in Node
    BY <1>1, <1>4
  <2>2. next[h] = s[1]
    BY <1>2, <2>1 DEF At
  <2>3. s[1] \in Range(s)
    BY <1>1, <2>1, RangeEquality
  <2> QED BY <1>1, <1>4, <2>1, <2>2, <2>3 DEF s, Empty
<1> QED BY <1>3, <1>4

(* A free node or the oldest one on the LRU list.                          *)
LEMMA AllocIs ==
  ASSUME LinkInv, P!Inv
  PROVE  /\ alloc_node # Nil <=> P!CanAlloc(self)
         /\ Empty("free_") <=> P!Evicts(self)
         /\ P!CanAlloc(self) =>
              /\ alloc_node = P!alloc_node(self) /\ alloc_node \in Node
              /\ ~Empty("free_") => alloc_node \in Range(RingOf(next, "free_"))
              /\ Empty("free_") => alloc_node \in Range(RingOf(next, "lru_"))
<1>1. "free_" \in DummyHead /\ "lru_" \in DummyHead /\ Rings(next, prev)
  BY DEF DummyHead, LinkInv
<1>2. CASE Empty("free_") /\ Empty("lru_")
  <2>1. RingOf(next, "free_") = <<>> /\ RingOf(next, "lru_") = <<>>
    BY <1>1, <1>2, EmptyIs
  <2> QED BY <1>2, <2>1, ListsAre DEF alloc_node, P!CanAlloc, P!Evicts
<1>3. CASE ~Empty("free_")
  <2>1. /\ RingOf(next, "free_") # <<>>
        /\ next["free_"] = Head(RingOf(next, "free_"))
        /\ next["free_"] \in Range(RingOf(next, "free_")) /\ next["free_"] \in Node
    BY <1>1, <1>3, EmptyIs
  <2>2. alloc_node = next["free_"]
    BY <1>3 DEF alloc_node
  <2> QED BY <1>3, <2>1, <2>2, ListsAre, Places DEF P!CanAlloc, P!Evicts, P!alloc_node
<1>4. CASE Empty("free_") /\ ~Empty("lru_")
  <2>1. /\ RingOf(next, "free_") = <<>> /\ RingOf(next, "lru_") # <<>>
        /\ next["lru_"] = Head(RingOf(next, "lru_"))
        /\ next["lru_"] \in Range(RingOf(next, "lru_")) /\ next["lru_"] \in Node
    BY <1>1, <1>4, EmptyIs
  <2>2. alloc_node = next["lru_"]
    BY <1>4 DEF alloc_node
  <2> QED BY <1>4, <2>1, <2>2, ListsAre, Places DEF P!CanAlloc, P!Evicts, P!alloc_node
<1> QED BY <1>2, <1>3, <1>4

(* table_remove and table_insert, of the slots in the state.               *)
LEMMA TableRemove ==
  ASSUME LinkInv, P!Inv, NEW e \in Cached
  PROVE  /\ Chains(table_remove(slot, key[e]), key, Cached \ {e})
         /\ Agrees([TableOf EXCEPT ![key[e]] = Nil], key, Cached \ {e})
<1> DEFINE q == FindIn(slot, key, key[e])
           s2 == table_remove(slot, key[e])
<1>1. s2 = IF slot[q] = Nil THEN slot ELSE [slot EXCEPT ![q] = slot[slot[q]]]
  BY FindPointer DEF table_remove
<1>2. q = FindIn(slot, key, key[e])
  OBVIOUS
<1> HIDE DEF q, s2
<1>3. Chains(slot, key, Cached) /\ Agrees(TableOf, key, Cached)
  BY KnownTable DEF LinkInv
<1>4. Chains(s2, key, Cached \ {e})
  BY <1>1, <1>2, <1>3, RemoveChains
<1>5. Agrees([TableOf EXCEPT ![key[e]] = Nil], key, Cached \ {e})
  BY <1>1, <1>2, <1>3, RemoveChains
<1> QED BY <1>4, <1>5 DEF s2

(* e joins the chains of C with the key k, which no node of C has.         *)
Joins(sl, C, T, k, e) ==
  /\ Chains(sl, key, C) /\ Agrees(T, key, C) /\ T[k] = Nil /\ e \in Node /\ e \notin C
  /\ slot' = table_insert(sl, e, k) /\ key' = [key EXCEPT ![e] = k]
  /\ key \in [Node -> Key \cup {NoKey}] /\ Cached' = C \cup {e}

LEMMA TableInsert ==
  ASSUME NEW sl, NEW C, NEW T, NEW k \in Key, NEW e, Joins(sl, C, T, k, e)
  PROVE  /\ Chains(slot', key', Cached')
         /\ TableOf' = [T EXCEPT ![k] = e]
<1>0. /\ Chains(sl, key, C) /\ Agrees(T, key, C) /\ T[k] = Nil /\ e \in Node /\ e \notin C
      /\ slot' = table_insert(sl, e, k) /\ key' = [key EXCEPT ![e] = k]
      /\ key \in [Node -> Key \cup {NoKey}] /\ Cached' = C \cup {e}
  BY DEF Joins
<1>1. C \subseteq Node
  BY <1>0 DEF Agrees
<1>2. key'[e] = k /\ \A d \in C : key'[d] = key[d]
  BY <1>0, <1>1
<1>3. Chains(slot', key', Cached')
  BY <1>0, <1>1, <1>2, InsertChains
<1>4. Agrees([T EXCEPT ![k] = e], key', Cached')
  BY <1>0, <1>2, NewAgrees
<1> QED BY <1>0, <1>3, <1>4, NewTable

LEMMA NewStep ==
  ASSUME LinkInv, P!Inv, NEW k \in Key, lookup(k) = Nil, NEW pin \in BOOLEAN, NEW r,
         insert_new(k, pin, r)
  PROVE  LinkInv' /\ P!insert_new(self, k, pin, r)
<1> DEFINE to == IF pin THEN "in_use" ELSE "lru"
<1>1. r = alloc_node /\ P!CanAlloc(self) /\ r = P!alloc_node(self) /\ r \in Node
  BY AllocIs DEF insert_new
<1>2. /\ key' = [key EXCEPT ![r] = k]
      /\ refs' = [refs EXCEPT ![r] = IF pin THEN 2 ELSE 1]
      /\ UNCHANGED <<capacity, extra_pool>>
      /\ SetLinks(move(IF pin THEN "in_use_" ELSE "lru_", r))
  BY DEF insert_new
<1>3. PICK f \in {"free_", "lru_"} :
        r \in Range(RingOf(next, f)) /\ (f = "free_" <=> ~Empty("free_"))
  BY <1>1, AllocIs
<1>4. Moves(to, r)
  <2>1. to \in Kinds /\ HeadOf(to) = (IF pin THEN "in_use_" ELSE "lru_") /\ f \in DummyHead
    BY Heads DEF Kinds, DummyHead
  <2> QED BY <1>2, <1>3, <2>1, KnownDisjoint, MoveStep DEF LinkInv
<1>5. Cached' = Cached \cup {r} /\ Rings(next', prev')
      /\ SequenceOf' = P!move(SequenceOf, <<self, to>>, r)
  BY <1>4 DEF Moves
<1>6. TableOf[k] = Nil /\ TableOf \in [Key -> Node \cup {Nil}] /\ size \in Nat
      /\ key \in [Node -> Key \cup {NoKey}]
  BY KnownTypes DEF TableOf
<1>7. /\ Chains(slot', key', Cached')
      /\ TableOf' = [P!AllocTable(self) EXCEPT ![k] = r]
      /\ [t \in {self} |-> size'] =
             [[t \in {self} |-> size] EXCEPT ![self] = P!AllocSize(self) + 1]
  <2>1. CASE ~Empty("free_")
    <3>1. r \notin Cached
      BY <1>3, <2>1, KnownDisjoint, CachedIs DEF Disjoint, DummyHead
    <3>2. slot' = table_insert(slot, r, k) /\ size' = size + 1
      BY <2>1 DEF insert_new
    <3>3. Chains(slot, key, Cached) /\ Agrees(TableOf, key, Cached)
      BY KnownTable DEF LinkInv
    <3>4. Chains(slot', key', Cached') /\ TableOf' = [TableOf EXCEPT ![k] = r]
      <4>1. Joins(slot, Cached, TableOf, k, r)
        BY <1>1, <1>2, <1>5, <1>6, <3>1, <3>2, <3>3 DEF Joins
      <4> QED BY <4>1, TableInsert
    <3>5. P!AllocTable(self) = TableOf /\ P!AllocSize(self) = size
      BY <2>1, AllocIs DEF P!AllocTable, P!AllocSize
    <3> QED BY <3>2, <3>4, <3>5
  <2>2. CASE Empty("free_")
    <3> DEFINE s1 == table_remove(slot, key[r])
               T1 == [TableOf EXCEPT ![key[r]] = Nil]
    <3>1. r \in Cached
      BY <1>3, <2>2, CachedIs
    <3>2. slot' = table_insert(s1, r, k) /\ size' = size
      BY <2>2 DEF insert_new
    <3>3. Chains(s1, key, Cached \ {r}) /\ Agrees(T1, key, Cached \ {r})
      BY <3>1, TableRemove
    <3>4. T1[k] = Nil
      BY <1>6
    <3>5. P!AllocTable(self) = T1 /\ P!AllocSize(self) = size - 1
      BY <1>1, <2>2, AllocIs DEF P!AllocTable, P!AllocSize
    <3> HIDE DEF s1, T1
    <3>6. Cached' = (Cached \ {r}) \cup {r}
      BY <1>5
    <3>7. Chains(slot', key', Cached') /\ TableOf' = [T1 EXCEPT ![k] = r]
      <4>1. Joins(s1, Cached \ {r}, T1, k, r)
        BY <1>1, <1>2, <1>6, <3>2, <3>3, <3>4, <3>6 DEF Joins
      <4> QED BY <4>1, TableInsert
    <3> QED BY <1>6, <3>2, <3>5, <3>7
  <2> QED BY <2>1, <2>2
<1>8. P!insert_new(self, k, pin, r)
  BY <1>1, <1>2, <1>5, <1>7 DEF P!insert_new
<1> QED BY <1>5, <1>7, <1>8 DEF LinkInv

-----------------------------------------------------------------------------
(* The calls of the client: each represents that of LRUCache.              *)
LEMMA StillStep ==
  ASSUME LinkInv, UNCHANGED <<next, prev, slot, size, capacity, key, refs, extra_pool>>
  PROVE  LinkInv' /\ UNCHANGED P!coreVars
<1>1. SequenceOf' = SequenceOf /\ Cached' = Cached /\ Rings(next', prev')
  BY StayStep DEF LinkInv
<1>2. Chains(slot', key', Cached') /\ TableOf' = TableOf
  BY <1>1, SameTable DEF LinkInv
<1>3. LinkInv'
  BY <1>1, <1>2 DEF LinkInv
<1> QED BY <1>1, <1>2, <1>3 DEF P!coreVars

LEMMA InsertStep ==
  ASSUME LinkInv, P!Inv, NEW k \in Key, NEW pin \in BOOLEAN, Insert(k, pin)
  PROVE  LinkInv' /\ P!Insert(k, pin)
<1>1. PICK r \in Node \cup {Nil} :
        /\ \/ lookup(k) # Nil /\ r = lookup(k) /\ lookup_refresh(r, pin)
           \/ lookup(k) = Nil /\ insert_new(k, pin, r)
           \/ lookup(k) = Nil /\ alloc_node = Nil /\ Unchanged(r)
        /\ Returns("insert", r) /\ Pinned(pin, r)
  BY DEF Insert
<1>2. TableOf[k] = lookup(k)
  BY DEF TableOf
<1>3. LinkInv' /\ P!insert_impl(self, k, pin, r)
  <2>1. CASE lookup(k) # Nil /\ r = lookup(k) /\ lookup_refresh(r, pin)
    <3>1. r \in Cached
      BY <1>2, <2>1, KnownTable DEF Agrees
    <3>2. LinkInv' /\ P!lookup_refresh(self, r, pin)
      BY <2>1, <3>1, HitStep
    <3> QED BY <1>2, <2>1, <3>2 DEF P!insert_impl
  <2>2. CASE lookup(k) = Nil /\ insert_new(k, pin, r)
    <3>1. LinkInv' /\ P!insert_new(self, k, pin, r)
      BY <2>2, NewStep
    <3> QED BY <1>2, <2>2, <3>1 DEF P!insert_impl
  <2>3. CASE lookup(k) = Nil /\ alloc_node = Nil /\ Unchanged(r)
    <3>1. LinkInv' /\ UNCHANGED P!coreVars /\ r = Nil
      BY <2>3, StillStep DEF Unchanged
    <3>2. P!alloc_fails(self, r)
      BY <2>3, <3>1, AllocIs DEF P!alloc_fails
    <3> QED BY <1>2, <2>3, <3>1, <3>2 DEF P!insert_impl
  <2> QED BY <1>1, <2>1, <2>2, <2>3
<1>4. [t \in {self} |-> capacity][self] > 0 /\ (pin => P!RefsBound(TableOf[k]))
  BY <1>2 DEF Insert, RefsBound, P!RefsBound
<1>5. P!Returns("insert", r) /\ P!Pinned(pin, r)
  BY <1>1 DEF Returns, P!Returns, Pinned, P!Pinned
<1> QED BY <1>3, <1>4, <1>5 DEF P!Insert

LEMMA LookupStep ==
  ASSUME LinkInv, P!Inv, NEW k \in Key, NEW pin \in BOOLEAN, LookupKey(k, pin)
  PROVE  LinkInv' /\ P!LookupKey(k, pin)
<1>1. PICK r \in Node \cup {Nil} :
        /\ r = lookup(k)
        /\ IF r # Nil THEN lookup_refresh(r, pin) ELSE Unchanged(r)
        /\ Returns("lookup", r) /\ Pinned(pin, r)
  BY DEF LookupKey
<1>2. TableOf[k] = lookup(k)
  BY DEF TableOf
<1>3. LinkInv' /\ P!lookup_impl(self, k, pin, r)
  <2>1. CASE r # Nil
    <3>1. r \in Cached
      BY <1>1, <1>2, <2>1, KnownTable DEF Agrees
    <3>2. LinkInv' /\ P!lookup_refresh(self, r, pin)
      BY <1>1, <2>1, <3>1, HitStep
    <3> QED BY <1>1, <1>2, <2>1, <3>2 DEF P!lookup_impl
  <2>2. CASE r = Nil
    <3>1. LinkInv' /\ UNCHANGED P!coreVars
      BY <1>1, <2>2, StillStep DEF Unchanged
    <3> QED BY <1>1, <1>2, <2>2, <3>1 DEF P!lookup_impl
  <2> QED BY <2>1, <2>2
<1>4. pin => P!RefsBound(TableOf[k])
  BY <1>2 DEF LookupKey, RefsBound, P!RefsBound
<1>5. P!Returns("lookup", r) /\ P!Pinned(pin, r)
  BY <1>1 DEF Returns, P!Returns, Pinned, P!Pinned
<1> QED BY <1>3, <1>4, <1>5 DEF P!LookupKey

(* What is released was pinned, so it never goes to the free list.         *)
LEMMA ReleaseStep ==
  ASSUME LinkInv, P!Inv, NEW e \in Node, Release(e)
  PROVE  LinkInv' /\ P!Release(e)
<1>1. e \in Cached /\ refs[e] > 1 /\ refs[e] # 1 /\ refs[e] \in Nat
  BY KnownRefs, KnownTypes DEF Release
<1>2. /\ refs' = [refs EXCEPT ![e] = @ - 1]
      /\ SetLinks(IF refs[e] = 2 THEN move("lru_", e) ELSE links)
      /\ UNCHANGED <<slot, size, capacity, key, extra_pool>>
  BY <1>1 DEF Release, unref
<1>3. Rings(next', prev') /\ Cached' = Cached
      /\ SequenceOf' = IF refs[e] = 2 THEN P!move(SequenceOf, <<self, "lru">>, e)
                       ELSE SequenceOf
  <2>1. CASE refs[e] = 2
    <3>1. PICK f \in DummyHead : e \in Range(RingOf(next, f))
      BY <1>1, OnLists
    <3>2. "lru" \in Kinds /\ SetLinks(move(HeadOf("lru"), e))
      BY <1>2, <2>1, Heads DEF Kinds
    <3>3. Moves("lru", e)
      BY <3>1, <3>2, KnownDisjoint, MoveStep DEF LinkInv
    <3> QED BY <1>1, <2>1, <3>3 DEF Moves
  <2>2. CASE refs[e] # 2
    <3>1. UNCHANGED <<next, prev>>
      BY <1>2, <2>2 DEF SetLinks, links
    <3> QED BY <2>2, <3>1, StayStep DEF LinkInv
  <2> QED BY <2>1, <2>2
<1>4. Chains(slot', key', Cached') /\ TableOf' = TableOf
  BY <1>2, <1>3, SameTable DEF LinkInv
<1>5. P!release_handle(self, e)
  BY <1>1, <1>2, <1>3, <1>4 DEF P!release_handle, P!unref
<1>6. P!Release(e)
  BY <1>5 DEF Release, P!Release, P!NoRet
<1> QED BY <1>3, <1>4, <1>6 DEF LinkInv

LEMMA PinStep ==
  ASSUME LinkInv, P!Inv, NEW e \in Node, Pin(e)
  PROVE  LinkInv' /\ P!Pin(e)
<1>1. key[e] # NoKey /\ lookup(key[e]) = e /\ key[e] \in Key
  BY KnownTypes DEF Pin
<1>2. e \in Cached
  <2>1. TableOf[key[e]] = e
    BY <1>1 DEF TableOf
  <2> QED BY <1>1, <2>1, KnownTable, Places DEF Agrees
<1>3. ref(e) /\ UNCHANGED <<slot, key>>
  BY DEF Pin
<1>4. LinkInv' /\ P!ref(self, e) /\ TableOf' = TableOf
  BY <1>2, <1>3, RefStep
<1>5. P!pin_handle(self, e)
  BY <1>4 DEF Pin, P!pin_handle
<1>6. P!Pin(e)
  BY <1>2, <1>5, OnIs DEF Pin, P!Pin, RefsBound, P!RefsBound, P!NoRet
<1> QED BY <1>4, <1>6

(* An erased node has refs = 0, so what is erased is on the LRU list.      *)
LEMMA EraseStep ==
  ASSUME LinkInv, P!Inv, NEW e \in Node, Erase(e)
  PROVE  LinkInv' /\ P!Erase(e)
<1>1. PICK ok \in BOOLEAN : erase(e, ok) /\ Returns("erase", IF ok THEN e ELSE Nil)
  BY DEF Erase
<1>2. key[e] # NoKey /\ UNCHANGED pins
  BY DEF Erase
<1>3. LinkInv' /\ P!erase_handle(self, e, ok)
  <2>1. CASE ok
    <3>1. /\ refs[e] = 1
          /\ SetLinks(move("erased_", e))
          /\ refs' = [refs EXCEPT ![e] = @ - 1]
          /\ slot' = table_remove(slot, key[e])
          /\ size' = size - 1 /\ capacity' = capacity - 1
          /\ UNCHANGED <<key, extra_pool>>
      BY <1>1, <2>1 DEF erase
    <3>2. e \in Cached /\ e \in Range(RingOf(next, "lru_"))
      <4>1. e \in Cached
        BY <1>2, <3>1, KnownRefs
      <4> QED BY <3>1, <4>1, OnLists
    <3>3. Moves("erased", e)
      <4>1. "erased" \in Kinds /\ "lru_" \in DummyHead /\ SetLinks(move(HeadOf("erased"), e))
        BY <3>1, Heads DEF Kinds, DummyHead
      <4> QED BY <3>2, <4>1, KnownDisjoint, MoveStep DEF LinkInv
    <3>4. Rings(next', prev') /\ Cached' = Cached \ {e}
          /\ SequenceOf' = P!move(SequenceOf, <<self, "erased">>, e)
      BY <3>3 DEF Moves
    <3>5. /\ Chains(slot', key', Cached')
          /\ Agrees([TableOf EXCEPT ![key[e]] = Nil], key', Cached')
      BY <3>1, <3>2, <3>4, TableRemove
    <3>6. TableOf' = [TableOf EXCEPT ![key[e]] = Nil]
      BY <3>5, NewTable
    <3>7. P!erase_handle(self, e, ok)
      BY <2>1, <3>1, <3>4, <3>6 DEF P!erase_handle, P!Erasable
    <3> QED BY <3>4, <3>5, <3>7 DEF LinkInv
  <2>2. CASE ~ok
    <3>1. refs[e] # 1 /\ LinkInv' /\ UNCHANGED P!coreVars
      BY <1>1, <2>2, StillStep DEF erase, Unchanged
    <3> QED BY <2>2, <3>1 DEF P!erase_handle, P!Erasable
  <2> QED BY <2>1, <2>2
<1>4. P!Erase(e)
  BY <1>1, <1>2, <1>3 DEF P!Erase, Returns, P!Returns
<1> QED BY <1>3, <1>4

LEMMA InstallStep ==
  ASSUME LinkInv, P!Inv, NEW k \in Key, Install(k)
  PROVE  LinkInv' /\ P!Install(k)
<1>1. PICK r \in Node : install_impl(k, r) /\ Returns("install", r)
  BY DEF Install
<1>2. /\ key' = [key EXCEPT ![r] = k]
      /\ refs' = [refs EXCEPT ![r] = 1]
      /\ slot' = table_insert(slot, r, k)
      /\ size' = size + 1 /\ capacity' = capacity + 1
  BY <1>1 DEF install_impl
<1>3. "lru" \in Kinds /\ HeadOf("lru") = "lru_" /\ "erased_" \in DummyHead
      /\ "lru_" \in DummyHead /\ "in_use_" \in DummyHead
  BY Heads DEF Kinds, DummyHead
<1>4. P!PoolNodes = Range(pool_)
  BY SameOperators DEF P!PoolNodes
<1>5. Rings(next, prev) /\ Disjoint(next)
  BY KnownDisjoint DEF LinkInv
<1>6. Moves("lru", r) /\ r \notin Cached /\ P!install_node(self, r)
      /\ extra_pool' = IF P!erased(self) = <<>> THEN extra_pool \cup {r} ELSE extra_pool
  <2>1. CASE Empty("erased_")
    <3>1. r \in Node \ (Range(pool_) \cup extra_pool) /\ extra_pool' = extra_pool \cup {r}
          /\ SetLinks(list_append(links, HeadOf("lru"), r))
      BY <1>1, <1>3, <2>1 DEF install_impl
    <3>2. Unlinked(next, r)
      BY <3>1, KnownLinked DEF Unlinked
    <3>3. Moves("lru", r)
      BY <1>3, <1>5, <3>1, <3>2, AppendStep
    <3>4. P!erased(self) = <<>>
      BY <1>3, <1>5, <2>1, EmptyIs, ListsAre
    <3>5. r \notin Cached
      BY <1>3, <3>2, CachedIs DEF Unlinked
    <3> QED BY <1>4, <3>1, <3>3, <3>4, <3>5 DEF P!install_node
  <2>2. CASE ~Empty("erased_")
    <3>1. r = next["erased_"] /\ SetLinks(move(HeadOf("lru"), r)) /\ extra_pool' = extra_pool
      BY <1>1, <1>3, <2>2 DEF install_impl
    <3>2. /\ P!erased(self) # <<>> /\ r = Head(P!erased(self))
          /\ r \in Range(RingOf(next, "erased_"))
      BY <1>3, <1>5, <2>2, <3>1, EmptyIs, ListsAre
    <3>3. Moves("lru", r)
      BY <1>3, <1>5, <3>1, <3>2, MoveStep
    <3>4. r \notin Cached
      BY <1>3, <1>5, <3>2, CachedIs DEF Disjoint, DummyHead
    <3> QED BY <3>1, <3>2, <3>3, <3>4 DEF P!install_node
  <2> QED BY <2>1, <2>2
<1>7. Rings(next', prev') /\ Cached' = Cached \cup {r}
      /\ SequenceOf' = P!move(SequenceOf, <<self, "lru">>, r)
  BY <1>6 DEF Moves
<1>8. TableOf[k] = Nil
  BY DEF Install, TableOf
<1>9. Chains(slot', key', Cached') /\ TableOf' = [TableOf EXCEPT ![k] = r]
  <2>1. Chains(slot, key, Cached) /\ Agrees(TableOf, key, Cached)
        /\ key \in [Node -> Key \cup {NoKey}]
    BY KnownTable, KnownTypes DEF LinkInv
  <2>2. Joins(slot, Cached, TableOf, k, r)
    BY <1>2, <1>6, <1>7, <1>8, <2>1 DEF Joins
  <2> QED BY <2>2, TableInsert
<1>10. P!install_impl(self, k, r)
  BY <1>2, <1>6, <1>7, <1>9 DEF P!install_impl
<1>11. P!Install(k)
  BY <1>1, <1>8, <1>10 DEF Install, P!Install, Returns, P!Returns
<1> QED BY <1>7, <1>9, <1>11 DEF LinkInv

-----------------------------------------------------------------------------
(* The initial state: the pool in the free list, the rest empty.           *)
LEMMA FirstLinks ==
  ASSUME Init
  PROVE  /\ next \in Links /\ prev \in Links
         /\ next["free_"] = pool_[1] /\ prev["free_"] = pool_[Len(pool_)]
         /\ \A i \in 1..Len(pool_) :
              /\ next[pool_[i]] = IF i = Len(pool_) THEN "free_" ELSE pool_[i + 1]
              /\ prev[pool_[i]] = IF i = 1 THEN "free_" ELSE pool_[i - 1]
         /\ \A h \in DummyHead \ {"free_"} : next[h] = h /\ prev[h] = h
<1> DEFINE n == Len(pool_)
           place(e) == CHOOSE i \in 1..n : pool_[i] = e
           first(q) == CASE q = "free_" -> pool_[1]
                         [] q \in Range(pool_) ->
                              IF place(q) = n THEN "free_" ELSE pool_[place(q) + 1]
                         [] q \in Node \ Range(pool_) -> Nil
                         [] OTHER -> q
           last(q) == CASE q = "free_" -> pool_[n]
                        [] q \in Range(pool_) ->
                             IF place(q) = 1 THEN "free_" ELSE pool_[place(q) - 1]
                        [] q \in Node \ Range(pool_) -> Nil
                        [] OTHER -> q
<1>1. /\ pool_ \in Seq(Node) /\ Inj(pool_) /\ n \in Nat /\ n > 0
      /\ \A i \in 1..n : pool_[i] \in Node /\ pool_[i] \in Range(pool_)
      /\ \A q \in Range(pool_) : q \in Node /\ \E i \in 1..n : pool_[i] = q
  <2>1. pool_ \in Seq(Node) /\ Inj(pool_) /\ n \in Nat /\ n > 0
    BY LinksAssumption, InjectiveLists, EmptySeq
  <2>2. Range(pool_) = {pool_[i] : i \in 1..n}
    BY <2>1, RangeEquality
  <2> QED BY <2>1, <2>2
<1>2. \A i \in 1..n : place(pool_[i]) = i
  BY <1>1 DEF Inj
<1>3. next = [q \in Ptr |-> first(q)] /\ prev = [q \in Ptr |-> last(q)]
  BY DEF Init
<1>4. \A q \in Range(pool_) : place(q) \in 1..n
  BY <1>1, <1>2
<1> HIDE DEF place, n
<1>5. "free_" \in DummyHead /\ "free_" \in Ptr /\ 1 \in 1..n /\ n \in 1..n
  BY <1>1, Places DEF DummyHead
<1>6. \A i \in 1..n :
        /\ first(pool_[i]) = IF i = n THEN "free_" ELSE pool_[i + 1]
        /\ last(pool_[i]) = IF i = 1 THEN "free_" ELSE pool_[i - 1]
  <2> TAKE i \in 1..n
  <2>1. pool_[i] # "free_" /\ pool_[i] \in Range(pool_) /\ place(pool_[i]) = i
    BY <1>1, <1>2, <1>5, Places
  <2> QED BY <2>1
<1>7. \A h \in DummyHead \ {"free_"} : first(h) = h /\ last(h) = h
  <2> TAKE h \in DummyHead \ {"free_"}
  <2>1. h \notin Node /\ h \notin Range(pool_)
    BY <1>1, Places
  <2> QED BY <2>1
<1>8. first("free_") = pool_[1] /\ last("free_") = pool_[n]
  <2>1. "free_" \notin Range(pool_) /\ "free_" \notin Node
    BY <1>1, <1>5, Places
  <2> QED BY <2>1
<1>9. ASSUME NEW q \in Ptr PROVE first(q) \in Ptr \cup {Nil} /\ last(q) \in Ptr \cup {Nil}
  <2>1. CASE q = "free_"
    BY <1>1, <1>5, <1>8, <2>1, Places
  <2>2. CASE q \in DummyHead \ {"free_"}
    BY <1>7, <2>2
  <2>3. CASE q \in Range(pool_)
    <3>1. PICK i \in 1..n : pool_[i] = q
      BY <1>1, <2>3
    <3>2. (i = n \/ i + 1 \in 1..n) /\ (i = 1 \/ i - 1 \in 1..n)
      BY <1>1
    <3> QED BY <1>1, <1>5, <1>6, <3>1, <3>2, Places
  <2>4. CASE q \in Node \ Range(pool_)
    <3>1. q # "free_"
      BY <1>5, <2>4, Places
    <3> QED BY <2>4, <3>1
  <2> QED BY <2>1, <2>2, <2>3, <2>4 DEF Ptr
<1> HIDE DEF first, last
<1>10. next \in Links /\ prev \in Links
  BY <1>3, <1>9 DEF Links
<1>11. \A q \in Ptr : next[q] = first(q) /\ prev[q] = last(q)
  BY <1>3
<1>12. \A i \in 1..n : pool_[i] \in Ptr
  BY <1>1, Places
<1> QED BY <1>5, <1>6, <1>7, <1>8, <1>10, <1>11, <1>12, Places DEF n

LEMMA FirstRings ==
  ASSUME Init
  PROVE  /\ Rings(next, prev)
         /\ \A h \in DummyHead : RingOf(next, h) = IF h = "free_" THEN pool_ ELSE <<>>
<1>1. pool_ \in Seq(Node) /\ Inj(pool_) /\ Len(pool_) \in Nat /\ Len(pool_) > 0
  BY LinksAssumption, InjectiveLists, EmptySeq
<1>2. IsRing(next, prev, "free_", pool_)
  <2> DEFINE n == Len(pool_)
  <2>1. ASSUME NEW i \in 0..n
        PROVE  /\ next[At("free_", pool_, i)] = At("free_", pool_, i + 1)
               /\ prev[At("free_", pool_, i + 1)] = At("free_", pool_, i)
    <3>1. next[At("free_", pool_, i)] = At("free_", pool_, i + 1)
      <4>1. CASE i = 0
        BY <1>1, <4>1, FirstLinks DEF At
      <4>2. CASE i # 0
        <5>1. i \in 1..n /\ (i = n <=> i + 1 \notin 1..n)
          BY <1>1, <4>2
        <5> QED BY <5>1, FirstLinks DEF At
      <4> QED BY <4>1, <4>2
    <3>2. prev[At("free_", pool_, i + 1)] = At("free_", pool_, i)
      <4>1. CASE i = n
        <5>1. At("free_", pool_, i + 1) = "free_" /\ At("free_", pool_, i) = pool_[n]
          BY <1>1, <4>1 DEF At
        <5> QED BY <5>1, FirstLinks
      <4>2. CASE i # n
        <5>1. i + 1 \in 1..n /\ (i + 1 = 1 <=> i \notin 1..n) /\ (i + 1) - 1 = i
          BY <1>1, <4>2
        <5>2. prev[pool_[i + 1]] = IF i + 1 = 1 THEN "free_" ELSE pool_[i]
          BY <5>1, FirstLinks
        <5> QED BY <5>1, <5>2 DEF At
      <4> QED BY <4>1, <4>2
    <3> QED BY <3>1, <3>2
  <2> QED BY <1>1, <2>1 DEF IsRing
<1>3. \A h \in DummyHead \ {"free_"} : IsRing(next, prev, h, <<>>)
  <2> TAKE h \in DummyHead \ {"free_"}
  <2>1. next[h] = h /\ prev[h] = h
    BY FirstLinks
  <2>2. <<>> \in Seq(Node) /\ Inj(<<>>) /\ Len(<<>>) = 0
    BY DEF Inj
  <2>3. \A i : At(h, <<>>, i) = h
    BY DEF At
  <2> QED BY <2>1, <2>2, <2>3 DEF IsRing
<1>4. \A h \in DummyHead : IsRing(next, prev, h, IF h = "free_" THEN pool_ ELSE <<>>)
  BY <1>2, <1>3
<1>5. \A h \in DummyHead : RingOf(next, h) = IF h = "free_" THEN pool_ ELSE <<>>
  BY <1>4, RingWalk DEF RingOf
<1> QED BY <1>4, <1>5, FirstLinks DEF Rings

LEMMA InitStep ==
  ASSUME Init
  PROVE  LinkInv /\ P!Init
<1>0. <<>> \in Seq(Node) /\ Range(<<>>) = {}
  <2> DEFINE s == <<>>
  <2>1. s \in Seq(Node) /\ Len(s) = 0
    OBVIOUS
  <2> HIDE DEF s
  <2>2. Range(s) = {s[i] : i \in 1..Len(s)}
    BY <2>1, RangeEquality
  <2>3. Range(s) = {}
    BY <2>1, <2>2
  <2> QED BY <2>1, <2>3 DEF s
<1>1. Cached = {}
  <2>1. RingOf(next, "lru_") = <<>> /\ RingOf(next, "in_use_") = <<>>
    BY FirstRings DEF DummyHead
  <2> QED BY <1>0, <2>1, CachedIs
<1>2. Chains(slot, key, Cached)
  <2>1. slot \in Slots /\ \A q \in Bucket : slot[q] = Nil
    BY DEF Init, Slots
  <2>2. ASSUME NEW b \in Bucket PROVE IsChain(slot, b, <<>>)
    <3>1. <<>> \in Seq(Node) /\ Inj(<<>>) /\ Len(<<>>) = 0
      BY DEF Inj
    <3> QED BY <2>1, <3>1 DEF IsChain, Place, Down
  <2>3. \A b \in Bucket : ChainOf(slot, b) = <<>>
    BY <2>2, ChainWalk DEF ChainOf
  <2> QED BY <1>0, <1>1, <2>1, <2>2, <2>3 DEF Chains
<1>3. TableOf = [k \in Key |-> Nil]
  <2> DEFINE T == [k \in Key |-> Nil]
  <2>1. Agrees(T, key, Cached)
    BY <1>1 DEF Agrees
  <2>2. \A k \in Key : slot[FindIn(slot, key, k)] = T[k]
    BY <1>2, <2>1, Looked
  <2> QED BY <2>2, FindPointer DEF TableOf
<1>4. SequenceOf = [L \in {self} \X P!Kind |->
                 IF L[2] = "free" THEN [t \in {self} |-> pool_][L[1]] ELSE <<>>]
  <2>1. \A m \in Kinds : SequenceOf[<<self, m>>] = IF m = "free" THEN pool_ ELSE <<>>
    BY FirstRings, SeqOfIs, Heads DEF Kinds
  <2>2. \A L \in {self} \X Kinds : SequenceOf[L] = IF L[2] = "free" THEN pool_ ELSE <<>>
    BY <2>1
  <2> QED BY <2>2, SeqOfIs, Heads
<1>5. P!CoreInit
  BY <1>3, <1>4 DEF P!CoreInit, Init
<1> QED BY <1>2, <1>5, FirstRings DEF LinkInv, P!Init, P!NoRet, Init

-----------------------------------------------------------------------------
(* The inductive invariant: the links represent lists and a table, of      *)
(* which LRUCache's invariant holds.                                       *)
Represents == LinkInv /\ P!Inv

LEMMA NextStep == Represents /\ [Next]_vars => Represents' /\ [P!Next]_(P!vars)
<1> SUFFICES ASSUME LinkInv, P!Inv, [Next]_vars
             PROVE  LinkInv' /\ P!Inv' /\ [P!Next]_(P!vars)
  BY DEF Represents
<1>1. ASSUME Next PROVE LinkInv' /\ P!Next
  <2>1. ASSUME NEW k \in Key, NEW pin \in BOOLEAN, Insert(k, pin) PROVE LinkInv' /\ P!Next
    BY <2>1, InsertStep DEF P!Next
  <2>2. ASSUME NEW k \in Key, NEW pin \in BOOLEAN, LookupKey(k, pin) PROVE LinkInv' /\ P!Next
    BY <2>2, LookupStep DEF P!Next
  <2>3. ASSUME NEW k \in Key, Install(k) PROVE LinkInv' /\ P!Next
    BY <2>3, InstallStep DEF P!Next
  <2>4. ASSUME NEW e \in Node, Release(e) PROVE LinkInv' /\ P!Next
    BY <2>4, ReleaseStep DEF P!Next
  <2>5. ASSUME NEW e \in Node, Pin(e) PROVE LinkInv' /\ P!Next
    BY <2>5, PinStep DEF P!Next
  <2>6. ASSUME NEW e \in Node, Erase(e) PROVE LinkInv' /\ P!Next
    BY <2>6, EraseStep DEF P!Next
  <2> QED BY <1>1, <2>1, <2>2, <2>3, <2>4, <2>5, <2>6 DEF Next
<1>2. CASE Next
  BY <1>1, <1>2, StepsKeep
<1>3. CASE UNCHANGED vars
  <2>1. LinkInv' /\ UNCHANGED P!coreVars
    BY <1>3, StillStep DEF vars
  <2>2. UNCHANGED P!vars
    BY <1>3, <2>1 DEF vars, P!vars
  <2>3. P!Inv'
    BY <2>2, P!NextInv, Assumed DEF P!SelfAssumption, P!NilAssumption, P!PoolAssumption
  <2> QED BY <2>1, <2>2, <2>3
<1> QED BY <1>2, <1>3

LEMMA Represented == Spec => []Represents
<1>1. Init => Represents
  BY InitStep, InitKeeps DEF Represents
<1>2. Represents /\ [Next]_vars => Represents'
  BY NextStep
<1> QED BY <1>1, <1>2, PTL DEF Spec

(* Every list is intact in both directions (print_list, node.h:78, :82).   *)
THEOREM ListsIntact == Spec => []LinksAgree
<1>1. Represents => LinksAgree
  <2> SUFFICES ASSUME LinkInv, P!Inv, NEW q \in DummyHead \cup Range(pool_) \cup extra_pool
               PROVE  prev[next[q]] = q /\ next[prev[q]] = q
    BY DEF Represents, LinksAgree
  <2>1. PICK h \in DummyHead : q = h \/ q \in Range(RingOf(next, h))
    BY KnownLinked
  <2> DEFINE s == RingOf(next, h)
  <2>2. /\ s \in Seq(Node) /\ Inj(s) /\ Len(s) \in Nat
        /\ \A i \in 0..Len(s) : /\ next[At(h, s, i)] = At(h, s, i + 1)
                                /\ prev[At(h, s, i + 1)] = At(h, s, i)
    BY DEF LinkInv, Rings, IsRing
  <2>3. PICK i \in 0..Len(s), j \in 1..(Len(s) + 1) : At(h, s, i) = q /\ At(h, s, j) = q
    <3> HIDE DEF s
    <3>1. CASE q = h
      <4>1. At(h, s, 0) = h /\ At(h, s, Len(s) + 1) = h
        BY <2>2, AtProps
      <4> QED BY <2>2, <3>1, <4>1
    <3>2. CASE q \in Range(s)
      <4>1. PICK i \in 1..Len(s) : At(h, s, i) = q
        BY <2>2, <3>2, AtProps
      <4> QED BY <2>2, <4>1
    <3> QED BY <2>1, <3>1, <3>2 DEF s
  <2> HIDE DEF s
  <2>4. prev[next[q]] = q
    BY <2>2, <2>3
  <2>5. j - 1 \in 0..Len(s) /\ (j - 1) + 1 = j
    BY <2>2
  <2>6. next[prev[q]] = q
    BY <2>2, <2>3, <2>5
  <2> QED BY <2>4, <2>6
<1> QED BY <1>1, Represented, PTL

(* No collision chain loses or repeats a cached node (table.h).            *)
THEOREM ChainsIntact == Spec => []ChainsExact
<1>1. Represents => ChainsExact
  <2> SUFFICES ASSUME LinkInv, NEW b \in Bucket
               PROVE  /\ IsInjective(Chain(b))
                      /\ Range(Chain(b)) = {e \in Cached : bucket(key[e]) = b}
    BY DEF Represents, ChainsExact
  <2>1. /\ IsChain(slot, b, Chain(b))
        /\ Range(Chain(b)) = {e \in Cached : bucket(key[e]) = b}
    BY DEF LinkInv, Chains, Chain, ChainOf
  <2> QED BY <2>1, InjectiveLists DEF IsChain
<1> QED BY <1>1, Represented, PTL

-----------------------------------------------------------------------------
(* The instance LRULinks names is the instance whose theorems are used.    *)
LEMMA SameMove ==
  \A l, L, e : Lists!move(l, L, e) = P!move(l, L, e)
BY DEF P!move, Lists!move, P!list_append, P!list_remove, Lists!list_append, Lists!list_remove,
       P!RemoveFirst, Lists!RemoveFirst, P!SelectInSeq, Lists!SelectInSeq,
       P!RemoveAt, Lists!RemoveAt, P!Min, Lists!Min

LEMMA SameLists ==
  /\ Lists!lru(self) = P!lru(self) /\ Lists!in_use(self) = P!in_use(self)
  /\ Lists!free(self) = P!free(self) /\ Lists!erased(self) = P!erased(self)
  /\ Lists!CanAlloc(self) = P!CanAlloc(self) /\ Lists!Evicts(self) = P!Evicts(self)
  /\ Lists!alloc_node(self) = P!alloc_node(self)
  /\ Lists!AllocTable(self) = P!AllocTable(self) /\ Lists!AllocSize(self) = P!AllocSize(self)
  /\ Lists!Resident(self) = P!Resident(self) /\ Lists!PoolNodes = P!PoolNodes
BY DEF Lists!lru, P!lru, Lists!in_use, P!in_use, Lists!free, P!free, Lists!erased, P!erased,
       Lists!CanAlloc, P!CanAlloc, Lists!Evicts, P!Evicts, Lists!alloc_node, P!alloc_node,
       Lists!AllocTable, P!AllocTable, Lists!AllocSize, P!AllocSize, Lists!Resident, P!Resident,
       Lists!On, P!On, Lists!Range, P!Range, Lists!PoolNodes, P!PoolNodes

LEMMA SameStutter ==
  /\ UNCHANGED P!coreVars <=> UNCHANGED Lists!coreVars
  /\ UNCHANGED P!vars <=> UNCHANGED Lists!vars
BY DEF P!coreVars, Lists!coreVars, P!vars, Lists!vars

LEMMA SameClient ==
  /\ \A op, r : Lists!Returns(op, r) <=> P!Returns(op, r)
  /\ \A pin, r : Lists!Pinned(pin, r) <=> P!Pinned(pin, r)
  /\ \A e : Lists!RefsBound(e) <=> P!RefsBound(e)
  /\ Lists!NoRet = P!NoRet
BY DEF Lists!Returns, P!Returns, Lists!Pinned, P!Pinned, Lists!RefsBound, P!RefsBound,
       Lists!NoRet, P!NoRet

LEMMA SameRefs ==
  /\ \A e : P!ref(self, e) => Lists!ref(self, e)
  /\ \A e : P!unref(self, e) => Lists!unref(self, e)
  /\ \A e, pin : P!lookup_refresh(self, e, pin) => Lists!lookup_refresh(self, e, pin)
<1>1. \A e : P!ref(self, e) => Lists!ref(self, e)
  BY SameMove DEF P!ref, Lists!ref
<1>2. \A e : P!unref(self, e) => Lists!unref(self, e)
  BY SameMove DEF P!unref, Lists!unref, P!list_append, Lists!list_append
<1>3. \A e : P!lru_refresh(self, e) => Lists!lru_refresh(self, e)
  BY SameMove DEF P!lru_refresh, Lists!lru_refresh
<1> QED BY <1>1, <1>2, <1>3 DEF P!lookup_refresh, Lists!lookup_refresh

LEMMA SameCalls ==
  /\ \A k, pin, r : P!insert_impl(self, k, pin, r) => Lists!insert_impl(self, k, pin, r)
  /\ \A k, pin, r : P!lookup_impl(self, k, pin, r) => Lists!lookup_impl(self, k, pin, r)
  /\ \A e : P!release_handle(self, e) => Lists!release_handle(self, e)
  /\ \A e : P!pin_handle(self, e) => Lists!pin_handle(self, e)
  /\ \A e, ok : P!erase_handle(self, e, ok) => Lists!erase_handle(self, e, ok)
  /\ \A k, r : P!install_impl(self, k, r) => Lists!install_impl(self, k, r)
<1>1. \A k, pin, r : P!insert_new(self, k, pin, r) => Lists!insert_new(self, k, pin, r)
  BY SameMove, SameLists DEF P!insert_new, Lists!insert_new
<1>2. \A r : P!alloc_fails(self, r) => Lists!alloc_fails(self, r)
  BY SameLists, SameStutter DEF P!alloc_fails, Lists!alloc_fails
<1>3. \A k, pin, r : P!insert_impl(self, k, pin, r) => Lists!insert_impl(self, k, pin, r)
  BY <1>1, <1>2, SameRefs DEF P!insert_impl, Lists!insert_impl
<1>4. \A k, pin, r : P!lookup_impl(self, k, pin, r) => Lists!lookup_impl(self, k, pin, r)
  BY SameRefs, SameStutter DEF P!lookup_impl, Lists!lookup_impl
<1>5. \A e : P!release_handle(self, e) => Lists!release_handle(self, e)
  BY SameRefs DEF P!release_handle, Lists!release_handle
<1>6. \A e : P!pin_handle(self, e) => Lists!pin_handle(self, e)
  BY SameRefs DEF P!pin_handle, Lists!pin_handle
<1>7. \A e, ok : P!erase_handle(self, e, ok) => Lists!erase_handle(self, e, ok)
  BY SameMove, SameStutter DEF P!erase_handle, Lists!erase_handle, P!Erasable, Lists!Erasable
<1>8. \A k, r : P!install_impl(self, k, r) => Lists!install_impl(self, k, r)
  BY SameMove, SameLists DEF P!install_impl, Lists!install_impl,
       P!install_node, Lists!install_node
<1> QED BY <1>3, <1>4, <1>5, <1>6, <1>7, <1>8

LEMMA SameNext == P!Next => Lists!Next
<1>1. ASSUME NEW k \in Key, NEW pin \in BOOLEAN, P!Insert(k, pin) PROVE Lists!Insert(k, pin)
  BY <1>1, SameCalls, SameClient DEF P!Insert, Lists!Insert
<1>2. ASSUME NEW k \in Key, NEW pin \in BOOLEAN, P!LookupKey(k, pin)
      PROVE  Lists!LookupKey(k, pin)
  BY <1>2, SameCalls, SameClient DEF P!LookupKey, Lists!LookupKey
<1>3. ASSUME NEW k \in Key, P!Install(k) PROVE Lists!Install(k)
  BY <1>3, SameCalls, SameClient DEF P!Install, Lists!Install
<1>4. ASSUME NEW e \in Node, P!Release(e) PROVE Lists!Release(e)
  BY <1>4, SameCalls, SameClient DEF P!Release, Lists!Release
<1>5. ASSUME NEW e \in Node, P!Pin(e) PROVE Lists!Pin(e)
  BY <1>5, SameCalls, SameClient, SameLists DEF P!Pin, Lists!Pin
<1>6. ASSUME NEW e \in Node, P!Erase(e) PROVE Lists!Erase(e)
  BY <1>6, SameCalls, SameClient DEF P!Erase, Lists!Erase
<1> QED BY <1>1, <1>2, <1>3, <1>4, <1>5, <1>6 DEF P!Next, Lists!Next

(* LRUCache on sequences and a function is what the pointers implement.    *)
THEOREM RepresentsLRUCache == Spec => ImplementsLRUCache
<1>1. Init => Lists!Init
  BY InitStep, SameClient DEF P!Init, Lists!Init, P!CoreInit, Lists!CoreInit, P!Kind, Lists!Kind
<1>2. Represents /\ [Next]_vars => [Lists!Next]_(Lists!vars)
  BY NextStep, SameNext, SameStutter
<1> QED BY <1>1, <1>2, Represented, PTL DEF Spec, ImplementsLRUCache, Lists!Spec
=============================================================================
