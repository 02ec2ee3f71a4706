---------------------------- MODULE LRUCoreProofs ----------------------------
(***************************************************************************)
(* Every member function of LRUCache keeps the properties of LRUCore: each *)
(* node is linked once, the table and the lists agree, refs tells the list *)
(* a node is on, and size_ and capacity_ count the lists.  The lemmas are  *)
(* about a family of caches over one table, so that a stand-alone cache    *)
(* and a shared cache can both use them.                                   *)
(***************************************************************************)
EXTENDS LRUCore, SequenceLemmas

-----------------------------------------------------------------------------
Lists == [Tag \X Kind -> Seq(Node)]

(* LinkedOnce, in terms of what is on the lists.                           *)
Once(l) ==
  /\ \A L \in Tag \X Kind : Inj(l[L])
  /\ \A L, M \in Tag \X Kind : L # M => Range(l[L]) \cap Range(l[M]) = {}

(* The two ways to say that no node is linked twice agree.                 *)
LEMMA OnceByPlaces ==
  ASSUME NEW l \in Lists
  PROVE  Once(l) <=>
           \A L, M \in Tag \X Kind : \A i \in 1..Len(l[L]), j \in 1..Len(l[M]) :
              l[L][i] = l[M][j] => L = M /\ i = j
<1> DEFINE P == \A L, M \in Tag \X Kind : \A i \in 1..Len(l[L]), j \in 1..Len(l[M]) :
                   l[L][i] = l[M][j] => L = M /\ i = j
<1>1. \A L \in Tag \X Kind : Range(l[L]) = {l[L][i] : i \in 1..Len(l[L])}
  BY RangeEquality DEF Lists
<1>2. ASSUME P PROVE Once(l)
  <2>1. \A L \in Tag \X Kind : Inj(l[L])
    BY <1>2 DEF Inj
  <2>2. ASSUME NEW L \in Tag \X Kind, NEW M \in Tag \X Kind, L # M
        PROVE  Range(l[L]) \cap Range(l[M]) = {}
    <3>1. SUFFICES ASSUME NEW x \in Range(l[L]), x \in Range(l[M])
                   PROVE  FALSE
      OBVIOUS
    <3>2. PICK i \in 1..Len(l[L]) : x = l[L][i]
      BY <1>1
    <3>3. PICK j \in 1..Len(l[M]) : x = l[M][j]
      BY <1>1, <3>1
    <3> QED BY ZenonT(60), <1>2, <2>2, <3>2, <3>3
  <2> QED BY <2>1, <2>2 DEF Once
<1>3. ASSUME Once(l) PROVE P
  <2>1. SUFFICES ASSUME NEW L \in Tag \X Kind, NEW M \in Tag \X Kind,
                        NEW i \in 1..Len(l[L]), NEW j \in 1..Len(l[M]),
                        l[L][i] = l[M][j]
                 PROVE  L = M /\ i = j
    OBVIOUS
  <2>2. l[L][i] \in Range(l[L]) /\ l[M][j] \in Range(l[M])
    BY <1>1
  <2>3. L = M
    BY <1>3, <2>1, <2>2 DEF Once
  <2> QED BY <1>3, <2>1, <2>3 DEF Once, Inj
<1> QED BY <1>2, <1>3

(* m is l with the node e moved to the list L: e leaves the list it was   *)
(* on, if any, and is the only newcomer of L.                              *)
Moves(l, m, L, e) ==
  /\ m \in Lists
  /\ Once(m)
  /\ \A M \in Tag \X Kind :
       Range(m[M]) = (Range(l[M]) \ {e}) \cup (IF M = L THEN {e} ELSE {})
  /\ \A M \in Tag \X Kind :
       Len(m[M]) = Len(l[M]) - (IF e \in Range(l[M]) THEN 1 ELSE 0) + (IF M = L THEN 1 ELSE 0)

(* list_remove and list_append on all lists do that.                       *)
LEMMA MoveProps ==
  ASSUME NEW l \in Lists, Once(l), NEW L \in Tag \X Kind, NEW e \in Node
  PROVE  Moves(l, move(l, L, e), L, e)
<1> DEFINE r == list_remove(l, e)
           m == move(l, L, e)
<1>0. DOMAIN l = Tag \X Kind /\ \A M \in Tag \X Kind : l[M] \in Seq(Node)
  BY DEF Lists
<1>1. \A M \in Tag \X Kind : r[M] = RemoveFirst(l[M], e)
  BY <1>0 DEF list_remove
<1>2. \A M \in Tag \X Kind :
        /\ r[M] \in Seq(Node)
        /\ Inj(r[M])
        /\ Range(r[M]) = Range(l[M]) \ {e}
        /\ Len(r[M]) = IF e \in Range(l[M]) THEN Len(l[M]) - 1 ELSE Len(l[M])
  BY <1>0, <1>1, RemoveFirstProps DEF Once
<1>3. /\ DOMAIN r = Tag \X Kind
      /\ r = [M \in Tag \X Kind |-> r[M]]
  BY <1>0 DEF list_remove
<1>4. m = [r EXCEPT ![L] = Append(r[L], e)]
  BY DEF move, list_append
<1> HIDE DEF r, m
<1>5. /\ Append(r[L], e) \in Seq(Node)
      /\ Inj(Append(r[L], e))
      /\ Range(Append(r[L], e)) = Range(r[L]) \cup {e}
      /\ Len(Append(r[L], e)) = Len(r[L]) + 1
  BY <1>2, AppendProps
<1>6. /\ DOMAIN m = Tag \X Kind
      /\ m = [M \in Tag \X Kind |-> m[M]]
      /\ m[L] = Append(r[L], e)
      /\ \A M \in Tag \X Kind : M # L => m[M] = r[M]
  BY <1>3, <1>4
<1>7. m \in Lists
  BY <1>2, <1>5, <1>6 DEF Lists
<1>8. \A M \in Tag \X Kind :
        Range(m[M]) = (Range(l[M]) \ {e}) \cup (IF M = L THEN {e} ELSE {})
  <2>1. SUFFICES ASSUME NEW M \in Tag \X Kind
                 PROVE  Range(m[M]) = (Range(l[M]) \ {e}) \cup (IF M = L THEN {e} ELSE {})
    OBVIOUS
  <2>2. CASE M = L
    <3>1. Range(m[M]) = Range(r[L]) \cup {e}
      BY <1>5, <1>6, <2>2
    <3>2. Range(r[L]) = Range(l[M]) \ {e}
      BY <1>2, <2>2
    <3> QED BY <3>1, <3>2, <2>2
  <2>3. CASE M # L
    <3>1. m[M] = r[M]
      BY <1>6, <2>3
    <3>2. Range(r[M]) = Range(l[M]) \ {e}
      BY <1>2
    <3> QED BY <3>1, <3>2, <2>3
  <2> QED BY <2>2, <2>3
<1>9. \A M \in Tag \X Kind :
        Len(m[M]) = Len(l[M]) - (IF e \in Range(l[M]) THEN 1 ELSE 0) + (IF M = L THEN 1 ELSE 0)
  BY <1>0, <1>2, <1>5, <1>6
<1>10. Once(m)
  <2>1. \A M \in Tag \X Kind : Inj(m[M])
    BY <1>2, <1>5, <1>6
  <2>2. \A M, N \in Tag \X Kind : M # N => Range(m[M]) \cap Range(m[N]) = {}
    BY <1>8 DEF Once
  <2> QED BY <2>1, <2>2 DEF Once
<1> QED
  BY <1>7, <1>8, <1>9, <1>10 DEF m, Moves

-----------------------------------------------------------------------------
(* A node is on one list of one cache at most.                             *)
LEMMA OnUnique ==
  ASSUME NEW t \in Tag, NEW u \in Tag, NEW m \in Kind, NEW n \in Kind, NEW e,
         CoreTypeOK, LinkedOnce, e \in On(t, m), e \in On(u, n)
  PROVE  t = u /\ m = n
<1>1. Once(list)
  BY OnceByPlaces DEF CoreTypeOK, Lists, LinkedOnce
<1>2. <<t, m>> \in Tag \X Kind /\ <<u, n>> \in Tag \X Kind
  OBVIOUS
<1> QED BY <1>1, <1>2 DEF Once, On

(* e is now on list `kind' of cache t, and nowhere else.                   *)
Relinked(t, kind, e) ==
  /\ \A u \in Tag, m \in Kind :
       On(u, m)' = (On(u, m) \ {e}) \cup (IF u = t /\ m = kind THEN {e} ELSE {})
  /\ \A u \in Tag, m \in Kind :
       Len(list'[<<u, m>>]) = Len(list[<<u, m>>]) - (IF e \in On(u, m) THEN 1 ELSE 0)
                            + (IF u = t /\ m = kind THEN 1 ELSE 0)

(* A step that moves one node.                                             *)
LEMMA MoveStep ==
  ASSUME NEW t \in Tag, NEW kind \in Kind, NEW e \in Node,
         CoreTypeOK, LinkedOnce,
         list' = move(list, <<t, kind>>, e)
  PROVE  list' \in Lists /\ LinkedOnce' /\ Relinked(t, kind, e)
<1>1. list \in Lists
  BY DEF CoreTypeOK, Lists
<1>2. Once(list)
  BY <1>1, OnceByPlaces DEF LinkedOnce
<1> DEFINE L == <<t, kind>>
           l2 == move(list, L, e)
<1>3. L \in Tag \X Kind
  OBVIOUS
<1>4. list' = l2
  OBVIOUS
<1>5. \A u \in Tag, m \in Kind :
        <<u, m>> \in Tag \X Kind /\ (<<u, m>> = L <=> u = t /\ m = kind)
  OBVIOUS
<1>6. Moves(list, l2, L, e)
  BY <1>1, <1>2, <1>3, MoveProps
<1> HIDE DEF L, l2
<1>7. /\ l2 \in Lists
      /\ Once(l2)
      /\ \A M \in Tag \X Kind :
           Range(l2[M]) = (Range(list[M]) \ {e}) \cup (IF M = L THEN {e} ELSE {})
      /\ \A M \in Tag \X Kind :
           Len(l2[M]) = Len(list[M]) - (IF e \in Range(list[M]) THEN 1 ELSE 0)
                          + (IF M = L THEN 1 ELSE 0)
  BY <1>6 DEF Moves
<1>8. LinkedOnce'
  BY <1>4, <1>7, OnceByPlaces DEF LinkedOnce
<1> QED
  BY <1>4, <1>5, <1>7, <1>8 DEF On, Relinked

(* A node that is already linked moves: nothing leaks.                     *)
LEMMA MoveNoLeak ==
  ASSUME NEW t \in Tag, NEW kind \in Kind, NEW e, NEW u \in Tag, NEW m \in Kind,
         NoLeak, UNCHANGED extra_pool, e \in On(u, m),
         Relinked(t, kind, e)
  PROVE  NoLeak'
<1>0. \A v \in Tag, n \in Kind :
        On(v, n)' = (On(v, n) \ {e}) \cup (IF v = t /\ n = kind THEN {e} ELSE {})
  BY DEF Relinked
<1>1. ASSUME NEW x PROVE x \in UNION {On(v, n) : v \in Tag, n \in Kind}
                           <=> x \in UNION {On(v, n)' : v \in Tag, n \in Kind}
  <2>1. CASE x = e
    <3>1. e \in On(t, kind)' /\ e \in On(u, m)
      BY <1>0
    <3> QED BY <2>1, <3>1
  <2>2. CASE x # e
    <3>1. \A v \in Tag, n \in Kind : x \in On(v, n) <=> x \in On(v, n)'
      BY <1>0, <2>2
    <3> QED BY <3>1
  <2> QED BY <2>1, <2>2
<1>2. UNION {On(v, n) : v \in Tag, n \in Kind} = UNION {On(v, n)' : v \in Tag, n \in Kind}
  BY <1>1
<1>3. (UNION {On(v, n) : v \in Tag, n \in Kind})' = UNION {On(v, n)' : v \in Tag, n \in Kind}
  BY DEF Kind
<1>4. PoolNodes' = PoolNodes
  BY DEF PoolNodes
<1> QED BY <1>2, <1>3, <1>4 DEF NoLeak

-----------------------------------------------------------------------------
(* e goes to list `to' of cache t; every other node stays where it is.     *)
Placed(t, to, e) ==
  \A u \in Tag, m \in Kind, x \in Node :
     x \in On(u, m)' <=> IF x = e THEN u = t /\ m = to ELSE x \in On(u, m)

(* A node of list `from' of cache t goes to list `to' of t: the lengths.   *)
Shorter(t, from, to) ==
  /\ \A u \in Tag, m \in Kind : u # t \/ from = to \/ m \notin {from, to} =>
        Len(list'[<<u, m>>]) = Len(list[<<u, m>>])
  /\ from # to => /\ Len(list'[<<t, from>>]) = Len(list[<<t, from>>]) - 1
                  /\ Len(list'[<<t, to>>]) = Len(list[<<t, to>>]) + 1

(* Lists hold nodes.                                                       *)
LEMMA RangeOfLists ==
  ASSUME NEW l \in Lists, NEW L \in Tag \X Kind
  PROVE  Range(l[L]) \subseteq Node
<1>1. l[L] \in Seq(Node)
  BY DEF Lists
<1> QED BY <1>1, RangeEquality

(* What is on the lists are nodes, and the first of a list is on it.       *)
LEMMA OnNodes ==
  ASSUME NEW t \in Tag, NEW m \in Kind, CoreTypeOK
  PROVE  /\ On(t, m) \subseteq Node
         /\ list[<<t, m>>] # <<>> => Head(list[<<t, m>>]) \in On(t, m)
         /\ Len(list[<<t, m>>]) \in Nat
         /\ list[<<t, m>>] # <<>> => Len(list[<<t, m>>]) > 0
<1>1. list[<<t, m>>] \in Seq(Node)
  BY DEF CoreTypeOK
<1>2. On(t, m) = {list[<<t, m>>][i] : i \in 1..Len(list[<<t, m>>])}
  BY <1>1, RangeEquality DEF On
<1>3. \A i \in 1..Len(list[<<t, m>>]) : list[<<t, m>>][i] \in Node
  BY <1>1
<1>4. ASSUME list[<<t, m>>] # <<>>
      PROVE  Head(list[<<t, m>>]) \in On(t, m) /\ Len(list[<<t, m>>]) > 0
  <2>1. Len(list[<<t, m>>]) \in Nat /\ Len(list[<<t, m>>]) > 0
    BY <1>1, <1>4, EmptySeq
  <2>2. Head(list[<<t, m>>]) = list[<<t, m>>][1] /\ 1 \in 1..Len(list[<<t, m>>])
    BY <1>1, <1>4, <2>1
  <2> QED BY <2>1, <2>2, <1>2
<1>5. On(t, m) \subseteq Node
  BY <1>2, <1>3
<1> QED BY <1>1, <1>4, <1>5

(* A linked node moves to another list of its cache.                       *)
LEMMA Shift ==
  ASSUME NEW t \in Tag, NEW from \in Kind, NEW to \in Kind, NEW e \in On(t, from),
         CoreTypeOK, LinkedOnce, NoLeak, UNCHANGED extra_pool,
         list' = move(list, <<t, to>>, e)
  PROVE  /\ e \in Node
         /\ list' \in Lists
         /\ LinkedOnce'
         /\ NoLeak'
         /\ Placed(t, to, e)
         /\ Shorter(t, from, to)
<1>1. e \in Node
  BY OnNodes
<1>2. list' \in Lists /\ LinkedOnce' /\ Relinked(t, to, e)
  BY <1>1, MoveStep
<1>3. NoLeak'
  BY <1>2, MoveNoLeak
<1>4. Placed(t, to, e)
  BY <1>2 DEF Placed, Relinked
<1>5. \A u \in Tag, m \in Kind : e \in On(u, m) <=> u = t /\ m = from
  BY OnUnique
<1>6. Shorter(t, from, to)
  <2>1. \A u \in Tag, m \in Kind : Len(list[<<u, m>>]) \in Nat
    BY OnNodes
  <2>2. ASSUME NEW u \in Tag, NEW m \in Kind, u # t \/ from = to \/ m \notin {from, to}
        PROVE  Len(list'[<<u, m>>]) = Len(list[<<u, m>>])
    <3>1. Len(list'[<<u, m>>]) = Len(list[<<u, m>>]) - (IF e \in On(u, m) THEN 1 ELSE 0)
                               + (IF u = t /\ m = to THEN 1 ELSE 0)
      BY <1>2 DEF Relinked
    <3>2. CASE e \in On(u, m)
      <4>1. u = t /\ m = to
        BY <1>5, <2>2, <3>2
      <4>2. Len(list'[<<u, m>>]) = Len(list[<<u, m>>]) - 1 + 1
        BY <3>1, <3>2, <4>1
      <4> QED BY <2>1, <4>2
    <3>3. CASE e \notin On(u, m)
      <4>1. ~(u = t /\ m = to)
        BY <1>5, <2>2, <3>3
      <4>2. Len(list'[<<u, m>>]) = Len(list[<<u, m>>]) - 0 + 0
        BY <3>1, <3>3, <4>1
      <4> QED BY <2>1, <4>2
    <3> QED BY <3>2, <3>3
  <2>3. ASSUME from # to
        PROVE  /\ Len(list'[<<t, from>>]) = Len(list[<<t, from>>]) - 1
               /\ Len(list'[<<t, to>>]) = Len(list[<<t, to>>]) + 1
    <3>1. \A u \in Tag, m \in Kind :
            Len(list'[<<u, m>>]) = Len(list[<<u, m>>]) - (IF e \in On(u, m) THEN 1 ELSE 0)
                                 + (IF u = t /\ m = to THEN 1 ELSE 0)
      BY <1>2 DEF Relinked
    <3>2. e \in On(t, from) /\ e \notin On(t, to)
      BY <1>5, <2>3
    <3>3. Len(list'[<<t, from>>]) = Len(list[<<t, from>>]) - 1 + 0
      BY <2>3, <3>1, <3>2
    <3>4. Len(list'[<<t, to>>]) = Len(list[<<t, to>>]) - 0 + 1
      BY <2>3, <3>1, <3>2
    <3> QED BY <2>1, <3>3, <3>4
  <2> QED BY <2>2, <2>3 DEF Shorter
<1> QED BY <1>1, <1>2, <1>3, <1>4, <1>6

(* What list_remove and list_append do to the lists of cache t.            *)
LEMMA MoveLists ==
  ASSUME NEW t \in Tag, NEW to \in Kind, NEW m \in Kind, NEW r \in Node,
         CoreTypeOK, list' = move(list, <<t, to>>, r)
  PROVE  list'[<<t, m>>] = IF m = to THEN Append(RemoveFirst(list[<<t, m>>], r), r)
                                        ELSE RemoveFirst(list[<<t, m>>], r)
<1>1. <<t, m>> \in Tag \X Kind /\ <<t, to>> \in Tag \X Kind /\ DOMAIN list = Tag \X Kind
  BY DEF CoreTypeOK
<1> DEFINE q == list_remove(list, r)
<1>2. DOMAIN q = Tag \X Kind /\ q[<<t, m>>] = RemoveFirst(list[<<t, m>>], r)
      /\ q[<<t, to>>] = RemoveFirst(list[<<t, to>>], r)
  BY <1>1 DEF list_remove
<1>3. list' = [q EXCEPT ![<<t, to>>] = Append(q[<<t, to>>], r)]
  BY DEF move, list_append
<1> HIDE DEF q
<1>4. <<t, m>> = <<t, to>> <=> m = to
  OBVIOUS
<1> QED BY <1>1, <1>2, <1>3, <1>4

(* A list of the cache is a list of nodes, each once.                      *)
LEMMA ListIs ==
  ASSUME NEW t \in Tag, NEW m \in Kind, CoreTypeOK, CoreInv
  PROVE  /\ list[<<t, m>>] \in Seq(Node) /\ Inj(list[<<t, m>>])
         /\ On(t, m) = Range(list[<<t, m>>])
<1>1. <<t, m>> \in Tag \X Kind
  OBVIOUS
<1>2. list[<<t, m>>] \in Seq(Node) /\ On(t, m) = Range(list[<<t, m>>])
  BY <1>1 DEF CoreTypeOK, On
<1>3. Inj(list[<<t, m>>])
  BY <1>1 DEF CoreInv, OneList, LinkedOnce, Inj
<1> QED BY <1>2, <1>3

-----------------------------------------------------------------------------
(* The residents of each cache stay the same, and so do its erased nodes.  *)
SameResidents ==
  \A u \in Tag : Resident(u)' = Resident(u) /\ On(u, "erased")' = On(u, "erased")

(* The table agrees with the lists when neither it nor the residents change. *)
LEMMA SameTable ==
  ASSUME TableAgrees, SameResidents, UNCHANGED <<key, table>>
  PROVE  TableAgrees'
BY DEF TableAgrees, SameResidents

(* A node moves between the LRU and the in-use list, or within one, and    *)
(* its refs is the one that goes with the list.                            *)
LEMMA ResidentShift ==
  ASSUME NEW t \in Tag, NEW from \in {"lru", "in_use"}, NEW to \in {"lru", "in_use"},
         NEW e \in On(t, from), CoreTypeOK, CoreInv,
         list' = move(list, <<t, to>>, e),
         refs' \in [Node -> Nat],
         to = "lru" => refs'[e] = 1,
         to = "in_use" => refs'[e] > 1,
         \A x \in Node : x # e => refs'[x] = refs[x],
         UNCHANGED <<size, capacity, key, table, extra_pool>>
  PROVE  CoreTypeOK' /\ CoreInv' /\ SameResidents
<1>0. from \in Kind /\ to \in Kind
  BY DEF Kind
<1>1. /\ e \in Node
      /\ list' \in Lists
      /\ LinkedOnce'
      /\ NoLeak'
      /\ Placed(t, to, e)
      /\ Shorter(t, from, to)
  BY <1>0, Shift DEF CoreInv, OneList
<1>2. CoreTypeOK'
  BY <1>1 DEF CoreTypeOK, Lists, PoolNodes
<1>3. \A u \in Tag, m \in Kind : On(u, m) \subseteq Node
  BY OnNodes
<1>4. \A u \in Tag, m \in Kind : On(u, m)' \subseteq Node
  BY <1>1, RangeOfLists DEF On
<1>5. \A u \in Tag : e \in Resident(u) <=> u = t
  BY <1>0, OnUnique DEF CoreInv, OneList, Resident, Kind
<1>6. SameResidents
  <2>1. ASSUME NEW u \in Tag, NEW x \in Node
        PROVE  x \in Resident(u)' <=> x \in Resident(u)
    BY <1>1, <1>5 DEF Placed, Resident, Kind
  <2>2. \A u \in Tag : Resident(u) \subseteq Node /\ Resident(u)' \subseteq Node
    BY <1>3, <1>4 DEF Resident, Kind
  <2>3. \A u \in Tag : e \notin On(u, "erased")
    BY <1>0, OnUnique DEF CoreInv, OneList, Kind
  <2>4. ASSUME NEW u \in Tag, NEW x \in Node
        PROVE  x \in On(u, "erased")' <=> x \in On(u, "erased")
    BY <1>1, <2>3 DEF Placed, Kind
  <2>5. \A u \in Tag : On(u, "erased") \subseteq Node /\ On(u, "erased")' \subseteq Node
    BY <1>3, <1>4 DEF Kind
  <2>6. \A u \in Tag : Resident(u)' = Resident(u)
    BY <2>1, <2>2
  <2>7. \A u \in Tag : On(u, "erased")' = On(u, "erased")
    BY <2>4, <2>5
  <2> QED BY <2>6, <2>7 DEF SameResidents
<1>7. TableAgrees'
  BY <1>6, SameTable DEF CoreInv
<1>8. RefState'
  <2>1. SUFFICES ASSUME NEW u \in Tag, NEW x \in Node
                 PROVE  /\ x \in On(u, "lru")' => refs'[x] = 1
                        /\ x \in On(u, "in_use")' => refs'[x] > 1
                        /\ x \in On(u, "erased")' => refs'[x] = 0
    BY <1>4 DEF RefState, Kind
  <2>2. CASE x = e
    BY <1>1, <2>2 DEF Placed, Kind
  <2>3. CASE x # e
    BY <1>1, <2>3 DEF Placed, Kind, CoreInv, RefState
  <2> QED BY <2>2, <2>3
<1>9. Counts'
  <2>1. \A u \in Tag, m \in Kind : Len(list[<<u, m>>]) \in Nat
    BY OnNodes
  <2>2. ASSUME NEW u \in Tag
        PROVE  /\ Len(list'[<<u, "lru">>]) + Len(list'[<<u, "in_use">>])
                    = Len(list[<<u, "lru">>]) + Len(list[<<u, "in_use">>])
               /\ Len(list'[<<u, "free">>]) = Len(list[<<u, "free">>])
    <3>1. "free" \in Kind /\ "lru" \in Kind /\ "in_use" \in Kind
      BY DEF Kind
    <3>2. Len(list'[<<u, "free">>]) = Len(list[<<u, "free">>])
      BY <1>1, <3>1 DEF Shorter
    <3>3. CASE u # t \/ from = to
      BY <1>1, <3>1, <3>2, <3>3 DEF Shorter
    <3>4. CASE u = t /\ from = "lru" /\ to = "in_use"
      <4>1. /\ Len(list'[<<u, "lru">>]) = Len(list[<<u, "lru">>]) - 1
            /\ Len(list'[<<u, "in_use">>]) = Len(list[<<u, "in_use">>]) + 1
        BY <1>1, <3>1, <3>4 DEF Shorter
      <4>2. Len(list[<<u, "lru">>]) \in Nat /\ Len(list[<<u, "in_use">>]) \in Nat
        BY <2>1, <3>1
      <4>3. \A a, b \in Nat : (a - 1) + (b + 1) = a + b /\ (a + 1) + (b - 1) = a + b
        OBVIOUS
      <4> QED BY <3>2, <4>1, <4>2, <4>3
    <3>5. CASE u = t /\ from = "in_use" /\ to = "lru"
      <4>1. /\ Len(list'[<<u, "in_use">>]) = Len(list[<<u, "in_use">>]) - 1
            /\ Len(list'[<<u, "lru">>]) = Len(list[<<u, "lru">>]) + 1
        BY <1>1, <3>1, <3>5 DEF Shorter
      <4>2. Len(list[<<u, "lru">>]) \in Nat /\ Len(list[<<u, "in_use">>]) \in Nat
        BY <2>1, <3>1
      <4>3. \A a, b \in Nat : (a - 1) + (b + 1) = a + b /\ (a + 1) + (b - 1) = a + b
        OBVIOUS
      <4> QED BY <3>2, <4>1, <4>2, <4>3
    <3> QED BY <3>3, <3>4, <3>5
  <2> QED BY <2>2 DEF Counts, CoreInv, lru, in_use, free
<1> QED BY <1>1, <1>2, <1>6, <1>7, <1>8, <1>9 DEF CoreInv, OneList

(* A pinned node gets or loses a reference and stays pinned.               *)
LEMMA RefsShift ==
  ASSUME NEW t \in Tag, NEW e \in On(t, "in_use"), CoreTypeOK, CoreInv,
         refs' \in [Node -> Nat], refs'[e] > 1,
         \A x \in Node : x # e => refs'[x] = refs[x],
         UNCHANGED <<list, size, capacity, key, table, extra_pool>>
  PROVE  CoreTypeOK' /\ CoreInv' /\ SameResidents
<1>1. CoreTypeOK'
  BY DEF CoreTypeOK, PoolNodes
<1>2. \A u \in Tag, m \in Kind : On(u, m)' = On(u, m) /\ On(u, m) \subseteq Node
  BY OnNodes DEF On
<1>3. OneList' /\ Counts'
  <2>1. LinkedOnce'
    BY DEF CoreInv, OneList, LinkedOnce
  <2>2. NoLeak'
    BY SMTT(60) DEF CoreInv, OneList, NoLeak, On, PoolNodes
  <2>3. Counts'
    BY DEF CoreInv, Counts, lru, in_use, free
  <2> QED BY <2>1, <2>2, <2>3 DEF OneList
<1>4. SameResidents
  BY <1>2 DEF SameResidents, Resident, Kind
<1>5. TableAgrees'
  BY <1>4, SameTable DEF CoreInv
<1>6. \A u \in Tag, m \in Kind : e \in On(u, m) => m = "in_use"
  BY OnUnique DEF CoreInv, OneList, Kind
<1>7. RefState'
  BY <1>2, <1>6 DEF RefState, CoreInv, Kind
<1> QED BY <1>1, <1>3, <1>4, <1>5, <1>7 DEF CoreInv

-----------------------------------------------------------------------------
(* The functions that neither add nor remove a key.                        *)

(* Where a resident is, refs tells.                                        *)
LEMMA RefTells ==
  ASSUME NEW t \in Tag, NEW e \in Resident(t), CoreTypeOK, CoreInv
  PROVE  /\ e \in Node /\ refs[e] \in Nat /\ refs[e] > 0
         /\ refs[e] = 1 <=> e \in On(t, "lru")
         /\ refs[e] > 1 <=> e \in On(t, "in_use")
<1>1. /\ "lru" \in Kind /\ "in_use" \in Kind
      /\ e \in On(t, "lru") \/ e \in On(t, "in_use")
  BY DEF Kind, Resident
<1>2. e \in Node
  BY <1>1, OnNodes
<1>3. refs[e] \in Nat
  BY <1>2 DEF CoreTypeOK
<1>4. /\ e \in On(t, "lru") => refs[e] = 1
      /\ e \in On(t, "in_use") => refs[e] > 1
  BY DEF CoreInv, RefState
<1> QED BY <1>1, <1>2, <1>3, <1>4

(* ref keeps the invariant: the cache's nodes stay the same, one has a     *)
(* reference more.                                                         *)
LEMMA RefKeeps ==
  ASSUME NEW t \in Tag, NEW e \in Resident(t), CoreTypeOK, CoreInv,
         ref(t, e), UNCHANGED <<size, capacity, key, table, extra_pool>>
  PROVE  CoreTypeOK' /\ CoreInv' /\ SameResidents
<1>1. /\ e \in Node /\ refs[e] \in Nat /\ refs[e] > 0
      /\ refs[e] = 1 <=> e \in On(t, "lru")
      /\ refs[e] > 1 <=> e \in On(t, "in_use")
  BY RefTells
<1>2. refs \in [Node -> Nat] /\ refs' = [refs EXCEPT ![e] = refs[e] + 1]
  BY DEF CoreTypeOK, ref
<1>3. /\ refs' \in [Node -> Nat]
      /\ refs'[e] = refs[e] + 1
      /\ \A x \in Node : x # e => refs'[x] = refs[x]
  BY <1>1, <1>2
<1>4. refs'[e] > 1
  BY <1>1, <1>3
<1>5. CASE refs[e] = 1
  <2>1. list' = move(list, <<t, "in_use">>, e)
    BY <1>5 DEF ref
  <2>2. e \in On(t, "lru") /\ "in_use" # "lru"
    BY <1>1, <1>5
  <2> QED BY <1>3, <1>4, <2>1, <2>2, ResidentShift
<1>6. CASE refs[e] # 1
  <2>1. list' = list
    BY <1>6 DEF ref
  <2>2. e \in On(t, "in_use")
    BY <1>1, <1>6
  <2> QED BY <1>3, <1>4, <2>1, <2>2, RefsShift
<1> QED BY <1>5, <1>6

(* unref of a pinned node keeps the invariant.                             *)
LEMMA UnrefKeeps ==
  ASSUME NEW t \in Tag, NEW e \in Resident(t), CoreTypeOK, CoreInv, refs[e] > 1,
         unref(t, e), UNCHANGED <<size, capacity, key, table, extra_pool>>
  PROVE  CoreTypeOK' /\ CoreInv' /\ SameResidents
<1>1. e \in Node /\ refs[e] \in Nat /\ e \in On(t, "in_use")
  BY RefTells
<1>2. refs \in [Node -> Nat] /\ refs' = [refs EXCEPT ![e] = refs[e] - 1]
  BY DEF CoreTypeOK, unref
<1>3. /\ refs' \in [Node -> Nat]
      /\ refs'[e] = refs[e] - 1
      /\ \A x \in Node : x # e => refs'[x] = refs[x]
  BY <1>1, <1>2
<1>4. CASE refs[e] = 2
  <2>1. list' = move(list, <<t, "lru">>, e)
    BY <1>4 DEF unref
  <2>2. refs'[e] = 1 /\ "in_use" # "lru"
    BY <1>3, <1>4
  <2> QED BY <1>1, <1>3, <2>1, <2>2, ResidentShift
<1>5. CASE refs[e] # 2
  <2>1. list' = list
    BY <1>1, <1>5 DEF unref
  <2>2. refs'[e] > 1
    BY <1>1, <1>3, <1>5
  <2> QED BY <1>1, <1>3, <2>1, <2>2, RefsShift
<1> QED BY <1>4, <1>5

(* So does a hit of insert or lookup.                                      *)
LEMMA LookupRefreshKeeps ==
  ASSUME NEW t \in Tag, NEW e \in Resident(t), NEW pin \in BOOLEAN, CoreTypeOK, CoreInv,
         lookup_refresh(t, e, pin)
  PROVE  CoreTypeOK' /\ CoreInv' /\ SameResidents
<1>1. UNCHANGED <<size, capacity, key, table, extra_pool>>
  BY DEF lookup_refresh
<1>2. CASE pin
  <2>1. ref(t, e)
    BY <1>2 DEF lookup_refresh
  <2> QED BY <1>1, <2>1, RefKeeps
<1>3. CASE ~pin /\ refs[e] = 1
  <2>1. list' = move(list, <<t, "lru">>, e) /\ refs' = refs
    BY <1>3 DEF lookup_refresh, lru_refresh
  <2>2. e \in On(t, "lru") /\ refs'[e] = 1 /\ refs' \in [Node -> Nat] /\ "in_use" # "lru"
    BY <1>3, <2>1, RefTells DEF CoreTypeOK
  <2> QED BY <1>1, <2>1, <2>2, ResidentShift
<1>4. CASE ~pin /\ refs[e] # 1
  <2>1. list' = list /\ refs' = refs
    BY <1>4 DEF lookup_refresh
  <2>2. refs[e] \in Nat /\ refs[e] > 0 /\ (refs[e] > 1 <=> e \in On(t, "in_use"))
    BY RefTells
  <2>3. e \in On(t, "in_use") /\ refs'[e] > 1
    BY <1>4, <2>1, <2>2
  <2>4. refs' \in [Node -> Nat]
    BY <2>1 DEF CoreTypeOK
  <2> QED BY <1>1, <2>1, <2>3, <2>4, RefsShift
<1> QED BY <1>2, <1>3, <1>4

-----------------------------------------------------------------------------
(* The functions that bring a key in: the table entry that still finds the *)
(* node r, if there is one, is dropped, and r is linked under the key k.   *)

IsResident(e) == \E u \in Tag : e \in Resident(u)

(* The table agrees with the lists again.                                  *)
LEMMA NewKeyTable ==
  ASSUME NEW t \in Tag, NEW to \in {"lru", "in_use"},
         NEW r \in Node, NEW k \in Key, NEW T \in [Key -> Node \cup {Nil}],
         CoreTypeOK, TableAgrees, CoreTypeOK', Placed(t, to, r),
         table[k] = Nil,
         IsResident(r) => T = [table EXCEPT ![key[r]] = Nil],
         ~IsResident(r) => T = table,
         key' = [key EXCEPT ![r] = k],
         table' = [T EXCEPT ![k] = r]
  PROVE  TableAgrees'
<1>1. \A u \in Tag : Resident(u) \subseteq Node
  BY OnNodes DEF Kind, Resident
<1>2. \A u \in Tag, m \in Kind : On(u, m)' \subseteq Node
  BY RangeOfLists DEF CoreTypeOK, Lists, On
<1>3. \A u \in Tag : r \in Resident(u) => IsResident(r)
  BY DEF IsResident
<1>4. r \in Resident(t)' /\ \A u \in Tag : r \in Resident(u)' => u = t
  BY <1>1 DEF Placed, Resident, Kind
<1>5. \A u \in Tag, e \in Node : e # r => (e \in Resident(u) <=> e \in Resident(u)')
  BY DEF Placed, Resident, Kind
<1>6. /\ key \in [Node -> Key \cup {NoKey}]
      /\ key'[r] = k
      /\ \A e \in Node : e # r => key'[e] = key[e]
  BY <1>1 DEF CoreTypeOK
<1>7. /\ table'[k] = r
      /\ \A j \in Key : j # k => table'[j] = T[j]
  OBVIOUS
<1>8. \A j \in Key : T[j] = IF IsResident(r) /\ j = key[r] THEN Nil ELSE table[j]
  BY DEF CoreTypeOK
<1>9. ASSUME NEW j \in Key, table'[j] # Nil
      PROVE  key'[table'[j]] = j /\ \E u \in Tag : table'[j] \in Resident(u)'
  <2>1. CASE j = k
    BY <1>4, <1>6, <1>7, <2>1
  <2>2. CASE j # k
    <3>1. table'[j] = table[j] /\ table[j] # Nil /\ ~(IsResident(r) /\ j = key[r])
      BY <1>7, <1>8, <1>9, <2>2
    <3>2. PICK u \in Tag : table[j] \in Resident(u)
      BY <3>1 DEF TableAgrees
    <3>3. key[table[j]] = j
      BY <3>1 DEF TableAgrees
    <3>4. table[j] # r
      BY <1>3, <3>1, <3>2, <3>3
    <3>5. table[j] \in Node
      BY <1>1, <3>2
    <3> QED BY <1>5, <1>6, <3>1, <3>2, <3>3, <3>4, <3>5
  <2> QED BY <2>1, <2>2
<1>10. ASSUME NEW u \in Tag, NEW e \in Resident(u)'
       PROVE  key'[e] \in Key /\ table'[key'[e]] = e
  <2>1. CASE e = r
    BY <1>6, <1>7, <2>1
  <2>2. CASE e # r
    <3>1. e \in Node
      BY <1>2 DEF Resident, Kind
    <3>2. e \in Resident(u)
      BY <1>5, <2>2, <3>1
    <3>3. key[e] \in Key /\ table[key[e]] = e
      BY <3>2 DEF TableAgrees
    <3>4. key[e] # k
      BY <3>1, <3>3, NilAssumption
    <3>5. ~(IsResident(r) /\ key[e] = key[r])
      BY <2>2, <3>3 DEF TableAgrees, IsResident
    <3> QED BY <1>6, <1>7, <1>8, <2>2, <3>1, <3>3, <3>4, <3>5
  <2> QED BY <2>1, <2>2
<1>11. Nil' = Nil /\ Key' = Key /\ Tag' = Tag
  OBVIOUS
<1> QED BY <1>9, <1>10, <1>11 DEF TableAgrees

(* refs, when only r moves and gets the refs that goes with its list.      *)
LEMMA NewRefs ==
  ASSUME NEW t \in Tag, NEW to \in Kind, NEW r \in Node,
         CoreTypeOK', RefState, Placed(t, to, r),
         to = "lru" => refs'[r] = 1,
         to = "in_use" => refs'[r] > 1,
         to = "erased" => refs'[r] = 0,
         \A x \in Node : x # r => refs'[x] = refs[x]
  PROVE  RefState'
<1>1. \A u \in Tag, m \in Kind : On(u, m)' \subseteq Node
  BY RangeOfLists DEF CoreTypeOK, Lists, On
<1>2. SUFFICES ASSUME NEW u \in Tag, NEW x \in Node
               PROVE  /\ x \in On(u, "lru")' => refs'[x] = 1
                      /\ x \in On(u, "in_use")' => refs'[x] > 1
                      /\ x \in On(u, "erased")' => refs'[x] = 0
  BY <1>1 DEF RefState, Kind
<1>3. CASE x = r
  BY <1>3 DEF Placed, Kind
<1>4. CASE x # r
  BY <1>4 DEF Placed, RefState, Kind
<1> QED BY <1>3, <1>4

(* insert keeps the invariant when it adds a key, whether it takes a free  *)
(* node or evicts the oldest node of the LRU list.                         *)
LEMMA InsertKeeps ==
  ASSUME NEW t \in Tag, NEW k \in Key, NEW pin \in BOOLEAN, NEW r,
         CoreTypeOK, CoreInv, table[k] = Nil, insert_new(t, k, pin, r)
  PROVE  /\ CoreTypeOK' /\ CoreInv'
         /\ r \in On(t, "free") \cup On(t, "lru")
         /\ Placed(t, IF pin THEN "in_use" ELSE "lru", r)
<1> DEFINE from == IF Evicts(t) THEN "lru" ELSE "free"
           to == IF pin THEN "in_use" ELSE "lru"
<1>1. /\ from \in Kind /\ to \in Kind /\ to \in {"lru", "in_use"}
      /\ "lru" \in Kind /\ "in_use" \in Kind /\ "free" \in Kind
  BY DEF Kind
<1>2. r \in On(t, from)
  <2>1. CASE Evicts(t)
    BY <1>1, <2>1, OnNodes DEF insert_new, CanAlloc, Evicts, alloc_node, lru, free
  <2>2. CASE ~Evicts(t)
    BY <1>1, <2>2, OnNodes DEF insert_new, CanAlloc, Evicts, alloc_node, lru, free
  <2> QED BY <2>1, <2>2
<1>3. list' = move(list, <<t, to>>, r) /\ UNCHANGED extra_pool
  BY DEF insert_new
<1>4. from = "lru" <=> Evicts(t)
  OBVIOUS
<1> HIDE DEF from
<1>5. /\ r \in Node
      /\ list' \in Lists
      /\ LinkedOnce'
      /\ NoLeak'
      /\ Placed(t, to, r)
      /\ Shorter(t, from, to)
  <2> HIDE DEF to
  <2> QED BY <1>1, <1>2, <1>3, Shift DEF CoreInv, OneList
<1>6. /\ refs' \in [Node -> Nat]
      /\ refs'[r] = IF pin THEN 2 ELSE 1
      /\ \A x \in Node : x # r => refs'[x] = refs[x]
  BY <1>5 DEF insert_new, CoreTypeOK
<1>7. IsResident(r) <=> Evicts(t)
  BY <1>1, <1>2, <1>4, OnUnique DEF IsResident, Resident, CoreInv, OneList, from
<1>8. /\ AllocTable(t) \in [Key -> Node \cup {Nil}]
      /\ IsResident(r) => AllocTable(t) = [table EXCEPT ![key[r]] = Nil]
      /\ ~IsResident(r) => AllocTable(t) = table
  BY <1>7 DEF AllocTable, insert_new, CoreTypeOK
<1>9. key' = [key EXCEPT ![r] = k] /\ table' = [AllocTable(t) EXCEPT ![k] = r]
  BY DEF insert_new
<1>10. /\ \A m \in Kind : Len(list[<<t, m>>]) \in Nat
       /\ Evicts(t) => Len(list[<<t, "lru">>]) > 0
  BY <1>1, <1>2, OnNodes DEF insert_new, CanAlloc, Evicts, lru, free
<1>11. size[t] = Len(list[<<t, "lru">>]) + Len(list[<<t, "in_use">>])
  BY DEF CoreInv, Counts, lru, in_use
<1>12. size' = [size EXCEPT ![t] = IF Evicts(t) THEN (size[t] - 1) + 1 ELSE size[t] + 1]
  BY DEF insert_new, AllocSize
<1>13. size[t] \in Nat
  BY DEF CoreTypeOK
<1>14. size' = [size EXCEPT ![t] = IF Evicts(t) THEN size[t] ELSE size[t] + 1]
  <2>1. (size[t] - 1) + 1 = size[t]
    BY <1>13
  <2> QED BY <1>12, <2>1
<1>15. CoreTypeOK'
  <2>1. size' \in [Tag -> Nat]
    BY <1>13, <1>14 DEF CoreTypeOK
  <2>2. key' \in [Node -> Key \cup {NoKey}] /\ table' \in [Key -> Node \cup {Nil}]
    BY <1>5, <1>8, <1>9 DEF CoreTypeOK
  <2>3. capacity' \in [Tag -> Nat] /\ extra_pool' \in SUBSET (Node \ PoolNodes)
    BY DEF insert_new, CoreTypeOK
  <2> QED BY <1>5, <1>6, <2>1, <2>2, <2>3 DEF CoreTypeOK, Lists, PoolNodes
<1>16. TableAgrees'
  <2> HIDE DEF to
  <2> QED BY <1>1, <1>5, <1>8, <1>9, <1>15, NewKeyTable DEF CoreInv
<1>17. RefState'
  <2>1. (to = "lru" => refs'[r] = 1) /\ (to = "in_use" => refs'[r] > 1) /\ to # "erased"
    BY <1>6
  <2> HIDE DEF to
  <2> QED BY <1>1, <1>5, <1>6, <1>15, <2>1, NewRefs DEF CoreInv
<1>18. Counts'
  <2>1. ASSUME NEW u \in Tag, u # t
        PROVE  size'[u] = size[u] /\ \A m \in Kind : Len(list'[<<u, m>>]) = Len(list[<<u, m>>])
    BY <1>5, <1>14, <2>1 DEF Shorter, CoreTypeOK
  <2>2. size'[t] = IF Evicts(t) THEN size[t] ELSE size[t] + 1
    BY <1>14 DEF CoreTypeOK
  <2>3. capacity' = capacity /\ capacity[t] = size[t] + Len(list[<<t, "free">>])
    BY DEF insert_new, CoreInv, Counts, free
  <2>4. \A a, b \in Nat : /\ (a - 1) + (b + 1) = a + b /\ a + (b + 1) = (a + b) + 1
                          /\ (b + 1) + a = (b + a) + 1
                          /\ a + b = (a + 1) + (b - 1)
    OBVIOUS
  <2>5. /\ Len(list[<<t, "lru">>]) \in Nat
        /\ Len(list[<<t, "in_use">>]) \in Nat
        /\ Len(list[<<t, "free">>]) \in Nat
    BY <1>1, <1>10
  <2> DEFINE L == Len(list[<<t, "lru">>])
             I == Len(list[<<t, "in_use">>])
             F == Len(list[<<t, "free">>])
  <2>6. /\ (L - 1) + (I + 1) = L + I
        /\ L + (I + 1) = (L + I) + 1
        /\ (L + 1) + I = (L + I) + 1
        /\ size[t] + F = (size[t] + 1) + (F - 1)
    <3> HIDE DEF L, I, F
    <3>1. L \in Nat /\ I \in Nat /\ F \in Nat
      BY <2>5 DEF L, I, F
    <3> QED BY <1>13, <2>4, <3>1
  <2>7. CASE Evicts(t) /\ ~pin
    <3>1. \A m \in Kind : Len(list'[<<t, m>>]) = Len(list[<<t, m>>])
      BY <1>1, <1>4, <1>5, <2>7 DEF Shorter
    <3>2. /\ size'[t] = Len(list'[<<t, "lru">>]) + Len(list'[<<t, "in_use">>])
          /\ capacity[t] = size'[t] + Len(list'[<<t, "free">>])
      BY <1>1, <1>11, <2>2, <2>3, <2>7, <3>1
    <3> QED BY <1>1, <2>1, <2>3, <3>2 DEF Counts, CoreInv, lru, in_use, free
  <2>8. CASE Evicts(t) /\ pin
    <3>1. /\ Len(list'[<<t, "lru">>]) = Len(list[<<t, "lru">>]) - 1
          /\ Len(list'[<<t, "in_use">>]) = Len(list[<<t, "in_use">>]) + 1
          /\ Len(list'[<<t, "free">>]) = Len(list[<<t, "free">>])
      BY <1>1, <1>4, <1>5, <2>8 DEF Shorter
    <3>2. /\ size'[t] = Len(list'[<<t, "lru">>]) + Len(list'[<<t, "in_use">>])
          /\ capacity[t] = size'[t] + Len(list'[<<t, "free">>])
      BY <1>11, <2>2, <2>3, <2>8, <2>6, <3>1
    <3> QED BY <1>1, <2>1, <2>3, <3>2 DEF Counts, CoreInv, lru, in_use, free
  <2>9. CASE ~Evicts(t)
    <3>1. /\ Len(list'[<<t, "lru">>]) = IF pin THEN Len(list[<<t, "lru">>])
                                               ELSE Len(list[<<t, "lru">>]) + 1
          /\ Len(list'[<<t, "in_use">>]) = IF pin THEN Len(list[<<t, "in_use">>]) + 1
                                                  ELSE Len(list[<<t, "in_use">>])
          /\ Len(list'[<<t, "free">>]) = Len(list[<<t, "free">>]) - 1
      <4>1. from = "free"
        BY <2>9 DEF from
      <4> QED BY <1>1, <1>5, <4>1 DEF Shorter
    <3>2. size'[t] = Len(list'[<<t, "lru">>]) + Len(list'[<<t, "in_use">>])
      BY <1>11, <2>2, <2>9, <2>6, <3>1
    <3>3. capacity[t] = size'[t] + Len(list'[<<t, "free">>])
      BY <2>2, <2>3, <2>9, <2>6, <3>1
    <3> QED BY <1>1, <2>1, <2>3, <3>2, <3>3 DEF Counts, CoreInv, lru, in_use, free
  <2> QED BY <2>7, <2>8, <2>9
<1>19. r \in On(t, "free") \cup On(t, "lru")
  BY <1>2 DEF from
<1> QED BY <1>5, <1>15, <1>16, <1>17, <1>18, <1>19 DEF CoreInv, OneList

-----------------------------------------------------------------------------
(* erase of a node of the LRU list keeps the invariant.                    *)
LEMMA EraseKeeps ==
  ASSUME NEW t \in Tag, NEW e \in On(t, "lru"), CoreTypeOK, CoreInv,
         erase_handle(t, e, TRUE)
  PROVE  CoreTypeOK' /\ CoreInv' /\ Placed(t, "erased", e)
<1>1. "lru" \in Kind /\ "erased" \in Kind /\ "in_use" \in Kind /\ "free" \in Kind
  BY DEF Kind
<1>2. /\ refs[e] = 1
      /\ list' = move(list, <<t, "erased">>, e)
      /\ refs' = [refs EXCEPT ![e] = refs[e] - 1]
      /\ table' = [table EXCEPT ![key[e]] = Nil]
      /\ size' = [size EXCEPT ![t] = size[t] - 1]
      /\ capacity' = [capacity EXCEPT ![t] = capacity[t] - 1]
      /\ UNCHANGED <<key, extra_pool>>
  BY DEF erase_handle, Erasable
<1>3. /\ e \in Node
      /\ list' \in Lists
      /\ LinkedOnce'
      /\ NoLeak'
      /\ Placed(t, "erased", e)
      /\ Shorter(t, "lru", "erased")
  BY <1>1, <1>2, Shift DEF CoreInv, OneList
<1>4. /\ refs' \in [Node -> Nat]
      /\ refs'[e] = 0
      /\ \A x \in Node : x # e => refs'[x] = refs[x]
  BY <1>2, <1>3 DEF CoreTypeOK
<1>5. /\ Len(list[<<t, "lru">>]) \in Nat /\ Len(list[<<t, "lru">>]) > 0
      /\ Len(list[<<t, "in_use">>]) \in Nat
      /\ Len(list[<<t, "free">>]) \in Nat
  <2>1. list[<<t, "lru">>] # <<>>
    <3>1. list[<<t, "lru">>] \in Seq(Node)
      BY <1>1 DEF CoreTypeOK
    <3>2. On(t, "lru") = {list[<<t, "lru">>][i] : i \in 1..Len(list[<<t, "lru">>])}
      BY <3>1, RangeEquality DEF On
    <3> QED BY <3>2
  <2> QED BY <1>1, <2>1, OnNodes
<1> DEFINE L == Len(list[<<t, "lru">>])
           I == Len(list[<<t, "in_use">>])
           F == Len(list[<<t, "free">>])
<1>6. /\ size[t] = L + I /\ capacity[t] = size[t] + F
      /\ size[t] \in Nat /\ capacity[t] \in Nat
  BY DEF CoreInv, Counts, lru, in_use, free, CoreTypeOK
<1>7. /\ size[t] - 1 \in Nat /\ capacity[t] - 1 \in Nat
      /\ size[t] - 1 = (L - 1) + I
      /\ capacity[t] - 1 = (size[t] - 1) + F
  <2> HIDE DEF L, I, F
  <2>1. L \in Nat /\ L > 0 /\ I \in Nat /\ F \in Nat
    BY <1>5 DEF L, I, F
  <2> QED BY <1>6, <2>1
<1>8. CoreTypeOK'
  <2>1. size' \in [Tag -> Nat] /\ capacity' \in [Tag -> Nat]
    BY <1>2, <1>7 DEF CoreTypeOK
  <2>2. table' \in [Key -> Node \cup {Nil}]
    BY <1>2 DEF CoreTypeOK
  <2> QED BY <1>2, <1>3, <1>4, <2>1, <2>2 DEF CoreTypeOK, Lists, PoolNodes
<1>9. RefState'
  BY <1>1, <1>3, <1>4, <1>8, NewRefs DEF CoreInv
<1>10. TableAgrees'
  <2>1. \A u \in Tag, m \in Kind : On(u, m)' \subseteq Node
    BY <1>8, RangeOfLists DEF CoreTypeOK, Lists, On
  <2>2. \A u \in Tag : e \notin Resident(u)'
    BY <1>3 DEF Placed, Resident, Kind
  <2>3. \A u \in Tag, x \in Node : x # e => (x \in Resident(u) <=> x \in Resident(u)')
    BY <1>3 DEF Placed, Resident, Kind
  <2>4. e \in Resident(t) /\ key[e] \in Key /\ table[key[e]] = e
    BY DEF Resident, CoreInv, TableAgrees
  <2>5. \A j \in Key : table'[j] = IF j = key[e] THEN Nil ELSE table[j]
    BY <1>2 DEF CoreTypeOK
  <2>6. ASSUME NEW j \in Key, table'[j] # Nil
        PROVE  key'[table'[j]] = j /\ \E u \in Tag : table'[j] \in Resident(u)'
    <3>1. j # key[e] /\ table'[j] = table[j]
      BY <2>5, <2>6
    <3>2. key[table[j]] = j /\ \E u \in Tag : table[j] \in Resident(u)
      BY <2>6, <3>1 DEF CoreInv, TableAgrees
    <3>3. table[j] # e /\ table[j] \in Node
      BY <2>6, <3>1, <3>2 DEF CoreTypeOK
    <3> QED BY <1>2, <2>3, <3>1, <3>2, <3>3
  <2>7. ASSUME NEW u \in Tag, NEW x \in Resident(u)'
        PROVE  key'[x] \in Key /\ table'[key'[x]] = x
    <3>1. x \in Node /\ x # e
      BY <2>1, <2>2 DEF Resident, Kind
    <3>2. key[x] \in Key /\ table[key[x]] = x
      BY <2>3, <3>1 DEF CoreInv, TableAgrees
    <3> QED BY <1>2, <2>4, <2>5, <3>1, <3>2
  <2> QED BY <2>6, <2>7 DEF TableAgrees
<1>11. Counts'
  <2>1. ASSUME NEW u \in Tag, u # t
        PROVE  /\ size'[u] = size[u] /\ capacity'[u] = capacity[u]
               /\ \A m \in Kind : Len(list'[<<u, m>>]) = Len(list[<<u, m>>])
    BY <1>2, <1>3, <2>1 DEF Shorter, CoreTypeOK
  <2>2. /\ Len(list'[<<t, "lru">>]) = L - 1
        /\ Len(list'[<<t, "in_use">>]) = I
        /\ Len(list'[<<t, "free">>]) = F
    BY <1>1, <1>3 DEF Shorter
  <2>3. size'[t] = size[t] - 1 /\ capacity'[t] = capacity[t] - 1
    BY <1>2 DEF CoreTypeOK
  <2>4. /\ size'[t] = Len(list'[<<t, "lru">>]) + Len(list'[<<t, "in_use">>])
        /\ capacity'[t] = size'[t] + Len(list'[<<t, "free">>])
    BY <1>7, <2>2, <2>3
  <2> QED BY <1>1, <2>1, <2>4 DEF Counts, CoreInv, lru, in_use, free
<1> QED BY <1>3, <1>8, <1>9, <1>10, <1>11 DEF CoreInv, OneList

(* A node install allocates joins the lists.                               *)
LEMMA NewNode ==
  ASSUME NEW t \in Tag, NEW r \in Node \ (PoolNodes \cup extra_pool),
         CoreTypeOK, LinkedOnce, NoLeak,
         list' = move(list, <<t, "lru">>, r), extra_pool' = extra_pool \cup {r}
  PROVE  /\ list' \in Lists /\ LinkedOnce' /\ NoLeak'
         /\ Placed(t, "lru", r)
         /\ \A u \in Tag, m \in Kind : r \notin On(u, m)
         /\ \A u \in Tag, m \in Kind :
              IF u = t /\ m = "lru" THEN Len(list'[<<u, m>>]) = Len(list[<<u, m>>]) + 1
                                    ELSE Len(list'[<<u, m>>]) = Len(list[<<u, m>>])
<1>0. "lru" \in Kind
  BY DEF Kind
<1>1. list' \in Lists /\ LinkedOnce' /\ Relinked(t, "lru", r)
  BY <1>0, MoveStep
<1>2. \A u \in Tag, m \in Kind : r \notin On(u, m)
  BY DEF NoLeak
<1>3. \A u \in Tag, m \in Kind :
        On(u, m)' = (On(u, m) \ {r}) \cup (IF u = t /\ m = "lru" THEN {r} ELSE {})
  BY <1>1 DEF Relinked
<1>4. Placed(t, "lru", r)
  BY <1>3 DEF Placed
<1>5. NoLeak'
  <2>1. ASSUME NEW x PROVE x \in extra_pool' \cup PoolNodes
                             <=> \E u \in Tag, m \in Kind : x \in On(u, m)'
    <3>1. CASE x = r
      BY <1>0, <1>3, <3>1
    <3>2. CASE x # r
      BY <1>3, <3>2 DEF NoLeak
    <3> QED BY <3>1, <3>2
  <2>2. PoolNodes \cup extra_pool' = UNION {On(u, m)' : u \in Tag, m \in Kind}
    BY <2>1
  <2>3. (UNION {On(u, m) : u \in Tag, m \in Kind})' = UNION {On(u, m)' : u \in Tag, m \in Kind}
    BY DEF Kind
  <2>4. PoolNodes' = PoolNodes
    BY DEF PoolNodes
  <2> QED BY <2>2, <2>3, <2>4 DEF NoLeak
<1>6. ASSUME NEW u \in Tag, NEW m \in Kind
      PROVE  IF u = t /\ m = "lru" THEN Len(list'[<<u, m>>]) = Len(list[<<u, m>>]) + 1
                                   ELSE Len(list'[<<u, m>>]) = Len(list[<<u, m>>])
  <2>1. Len(list'[<<u, m>>]) = Len(list[<<u, m>>]) - (IF r \in On(u, m) THEN 1 ELSE 0)
                             + (IF u = t /\ m = "lru" THEN 1 ELSE 0)
    BY <1>1 DEF Relinked
  <2>2. Len(list[<<u, m>>]) \in Nat
    BY OnNodes
  <2>3. CASE u = t /\ m = "lru"
    <3>1. Len(list'[<<u, m>>]) = Len(list[<<u, m>>]) - 0 + 1
      BY <1>2, <2>1, <2>3
    <3> QED BY <2>2, <2>3, <3>1
  <2>4. CASE ~(u = t /\ m = "lru")
    <3>1. Len(list'[<<u, m>>]) = Len(list[<<u, m>>]) - 0 + 0
      BY <1>2, <2>1, <2>4
    <3> QED BY <2>2, <2>4, <3>1
  <2> QED BY <2>3, <2>4
<1> QED BY <1>1, <1>2, <1>4, <1>5, <1>6

(* install of a key that is not in the table keeps the invariant.          *)
LEMMA InstallKeeps ==
  ASSUME NEW t \in Tag, NEW k \in Key, NEW r \in Node,
         CoreTypeOK, CoreInv, table[k] = Nil, install_impl(t, k, r)
  PROVE  /\ CoreTypeOK' /\ CoreInv'
         /\ ~IsResident(r)
         /\ Placed(t, "lru", r)
<1>1. "lru" \in Kind /\ "erased" \in Kind /\ "in_use" \in Kind /\ "free" \in Kind
  BY DEF Kind
<1>2. /\ list' = move(list, <<t, "lru">>, r)
      /\ refs' = [refs EXCEPT ![r] = 1]
      /\ key' = [key EXCEPT ![r] = k]
      /\ table' = [table EXCEPT ![k] = r]
      /\ size' = [size EXCEPT ![t] = size[t] + 1]
      /\ capacity' = [capacity EXCEPT ![t] = capacity[t] + 1]
  BY DEF install_impl
<1> DEFINE L == Len(list[<<t, "lru">>])
           I == Len(list[<<t, "in_use">>])
           F == Len(list[<<t, "free">>])
<1>3. /\ list' \in Lists /\ LinkedOnce' /\ NoLeak'
      /\ Placed(t, "lru", r)
      /\ ~IsResident(r)
      /\ extra_pool' \in SUBSET (Node \ PoolNodes)
      /\ Len(list'[<<t, "lru">>]) = L + 1
      /\ Len(list'[<<t, "in_use">>]) = I
      /\ Len(list'[<<t, "free">>]) = F
      /\ \A u \in Tag, m \in Kind : u # t => Len(list'[<<u, m>>]) = Len(list[<<u, m>>])
  <2>1. CASE erased(t) = <<>>
    <3>1. r \in Node \ (PoolNodes \cup extra_pool) /\ extra_pool' = extra_pool \cup {r}
      BY <2>1 DEF install_impl, install_node
    <3>2. /\ list' \in Lists /\ LinkedOnce' /\ NoLeak'
          /\ Placed(t, "lru", r)
          /\ \A u \in Tag, m \in Kind : r \notin On(u, m)
          /\ \A u \in Tag, m \in Kind :
               IF u = t /\ m = "lru" THEN Len(list'[<<u, m>>]) = Len(list[<<u, m>>]) + 1
                                     ELSE Len(list'[<<u, m>>]) = Len(list[<<u, m>>])
      BY <1>2, <3>1, NewNode DEF CoreInv, OneList
    <3>3. ~IsResident(r)
      BY <1>1, <3>2 DEF IsResident, Resident
    <3>4. extra_pool' \in SUBSET (Node \ PoolNodes)
      BY <3>1 DEF CoreTypeOK
    <3> QED BY <1>1, <3>2, <3>3, <3>4
  <2>2. CASE erased(t) # <<>>
    <3>1. r = Head(erased(t)) /\ UNCHANGED extra_pool
      BY <2>2 DEF install_impl, install_node
    <3>2. r \in On(t, "erased")
      BY <1>1, <2>2, <3>1, OnNodes DEF erased
    <3>3. /\ list' \in Lists /\ LinkedOnce' /\ NoLeak'
          /\ Placed(t, "lru", r)
          /\ Shorter(t, "erased", "lru")
      BY <1>1, <1>2, <3>1, <3>2, Shift DEF CoreInv, OneList
    <3>4. ~IsResident(r)
      BY <1>1, <3>2, OnUnique DEF IsResident, Resident, CoreInv, OneList
    <3>5. extra_pool' \in SUBSET (Node \ PoolNodes)
      BY <3>1 DEF CoreTypeOK
    <3> QED BY <1>1, <3>3, <3>4, <3>5 DEF Shorter
  <2> QED BY <2>1, <2>2
<1>4. /\ refs' \in [Node -> Nat]
      /\ refs'[r] = 1
      /\ \A x \in Node : x # r => refs'[x] = refs[x]
  BY <1>2 DEF CoreTypeOK
<1>5. CoreTypeOK'
  <2>1. size' \in [Tag -> Nat] /\ capacity' \in [Tag -> Nat]
    BY <1>2 DEF CoreTypeOK
  <2>2. key' \in [Node -> Key \cup {NoKey}] /\ table' \in [Key -> Node \cup {Nil}]
    BY <1>2 DEF CoreTypeOK
  <2> QED BY <1>3, <1>4, <2>1, <2>2 DEF CoreTypeOK, Lists, PoolNodes
<1>6. TableAgrees'
  <2>1. table \in [Key -> Node \cup {Nil}]
    BY DEF CoreTypeOK
  <2> QED BY <1>2, <1>3, <1>5, <2>1, NewKeyTable DEF CoreInv
<1>7. RefState'
  BY <1>1, <1>3, <1>4, <1>5, NewRefs DEF CoreInv
<1>8. Counts'
  <2>1. /\ size[t] = L + I /\ capacity[t] = size[t] + F
        /\ size[t] \in Nat /\ capacity[t] \in Nat
    BY DEF CoreInv, Counts, lru, in_use, free, CoreTypeOK
  <2>2. size[t] + 1 = (L + 1) + I /\ capacity[t] + 1 = (size[t] + 1) + F
    <3>1. L \in Nat /\ I \in Nat /\ F \in Nat
      BY <1>1, OnNodes
    <3> HIDE DEF L, I, F
    <3> QED BY <2>1, <3>1
  <2>3. size'[t] = size[t] + 1 /\ capacity'[t] = capacity[t] + 1
    BY <1>2 DEF CoreTypeOK
  <2>4. /\ size'[t] = Len(list'[<<t, "lru">>]) + Len(list'[<<t, "in_use">>])
        /\ capacity'[t] = size'[t] + Len(list'[<<t, "free">>])
    BY <1>3, <2>2, <2>3
  <2>5. ASSUME NEW u \in Tag, u # t
        PROVE  /\ size'[u] = size[u] /\ capacity'[u] = capacity[u]
               /\ \A m \in Kind : Len(list'[<<u, m>>]) = Len(list[<<u, m>>])
    BY <1>2, <1>3, <2>5 DEF CoreTypeOK
  <2> QED BY <1>1, <2>4, <2>5 DEF Counts, CoreInv, lru, in_use, free
<1> QED BY <1>3, <1>5, <1>6, <1>7, <1>8 DEF CoreInv, OneList

-----------------------------------------------------------------------------
(* At first all nodes are free.                                            *)
LEMMA InitCore == CoreInit => CoreTypeOK /\ CoreInv
<1> SUFFICES ASSUME CoreInit PROVE CoreTypeOK /\ CoreInv
  OBVIOUS
<1>1. /\ \A t \in Tag : pool[t] \in Seq(Node) /\ Len(pool[t]) \in Nat
      /\ \A t, u \in Tag : \A i \in 1..Len(pool[t]), j \in 1..Len(pool[u]) :
            pool[t][i] = pool[u][j] => t = u /\ i = j
  BY PoolAssumption
<1>2. \A t \in Tag, m \in Kind :
        /\ list[<<t, m>>] = IF m = "free" THEN pool[t] ELSE <<>>
        /\ list[<<t, m>>] \in Seq(Node)
  BY <1>1 DEF CoreInit
<1>3. list \in [Tag \X Kind -> Seq(Node)]
  <2>1. \A L \in Tag \X Kind : list[L] \in Seq(Node)
    BY <1>1 DEF CoreInit
  <2> QED BY <2>1 DEF CoreInit
<1>4. CoreTypeOK
  BY <1>1, <1>3 DEF CoreTypeOK, CoreInit
<1>5. /\ \A t \in Tag : On(t, "free") = Range(pool[t])
      /\ \A t \in Tag, m \in Kind : m # "free" => On(t, m) = {}
  <2>1. \A t \in Tag : On(t, "free") = Range(pool[t])
    BY <1>2 DEF On, Kind
  <2>2. ASSUME NEW t \in Tag, NEW m \in Kind, m # "free" PROVE On(t, m) = {}
    <3>1. list[<<t, m>>] = <<>>
      BY <1>2, <2>2
    <3>2. Range(<<>>) = {}
      BY DEF Range
    <3> QED BY <3>1, <3>2 DEF On
  <2> QED BY <2>1, <2>2
<1>6. LinkedOnce
  <2>1. SUFFICES ASSUME NEW L \in Tag \X Kind, NEW M \in Tag \X Kind,
                        NEW i \in 1..Len(list[L]), NEW j \in 1..Len(list[M]),
                        list[L][i] = list[M][j]
                 PROVE  L = M /\ i = j
    BY DEF LinkedOnce
  <2>2. PICK t \in Tag, m \in Kind : L = <<t, m>>
    OBVIOUS
  <2>3. PICK u \in Tag, n \in Kind : M = <<u, n>>
    OBVIOUS
  <2>4. m = "free" /\ list[L] = pool[t]
    BY <1>2, <2>2
  <2>5. n = "free" /\ list[M] = pool[u]
    BY <1>2, <2>3
  <2> QED BY <1>1, <2>1, <2>2, <2>3, <2>4, <2>5
<1>7. NoLeak
  <2>1. ASSUME NEW x
        PROVE  x \in PoolNodes \cup extra_pool <=> \E t \in Tag, m \in Kind : x \in On(t, m)
    BY <1>5 DEF PoolNodes, CoreInit, Kind
  <2> QED BY <2>1 DEF NoLeak
<1>8. \A t \in Tag : Resident(t) = {}
  BY <1>5 DEF Resident, Kind
<1>9. TableAgrees
  BY <1>8 DEF TableAgrees, CoreInit
<1>10. RefState
  BY <1>5 DEF RefState, Kind
<1>11. Counts
  <2>1. ASSUME NEW t \in Tag
        PROVE  /\ size[t] = 0 /\ capacity[t] = Len(pool[t])
               /\ Len(lru(t)) = 0 /\ Len(in_use(t)) = 0 /\ free(t) = pool[t]
    BY <1>2 DEF CoreInit, lru, in_use, free, Kind
  <2>2. ASSUME NEW t \in Tag
        PROVE  /\ size[t] = Len(lru(t)) + Len(in_use(t))
               /\ capacity[t] = size[t] + Len(free(t))
    <3>1. \A n \in Nat : n = 0 + n
      OBVIOUS
    <3>2. 0 + 0 = 0
      OBVIOUS
    <3> QED BY <1>1, <2>1, <3>1, <3>2
  <2> QED BY <2>2 DEF Counts
<1> QED BY <1>4, <1>6, <1>7, <1>9, <1>10, <1>11 DEF CoreInv, OneList

(* A call that changes nothing keeps everything.                           *)
LEMMA CoreUnchanged ==
  ASSUME CoreTypeOK, CoreInv, UNCHANGED coreVars
  PROVE  CoreTypeOK' /\ CoreInv' /\ SameResidents
<1>1. CoreTypeOK'
  BY DEF CoreTypeOK, coreVars, PoolNodes
<1>2. LinkedOnce'
  BY DEF CoreInv, OneList, LinkedOnce, coreVars
<1>3. NoLeak'
  <2>1. list' = list /\ extra_pool' = extra_pool
    BY DEF coreVars
  <2>2. (UNION {On(t, m) : t \in Tag, m \in Kind})' = UNION {On(t, m) : t \in Tag, m \in Kind}
    BY <2>1 DEF On, Kind
  <2>3. (PoolNodes \cup extra_pool)' = PoolNodes \cup extra_pool
    BY <2>1 DEF PoolNodes
  <2> QED BY <2>2, <2>3 DEF NoLeak, CoreInv, OneList
<1>4. TableAgrees' /\ RefState' /\ Counts'
  BY DEF CoreInv, TableAgrees, RefState, Counts, coreVars, On, Resident, lru, in_use, free
<1>5. SameResidents
  BY DEF SameResidents, coreVars, On, Resident
<1> QED BY <1>1, <1>2, <1>3, <1>4, <1>5 DEF CoreInv, OneList
=============================================================================
