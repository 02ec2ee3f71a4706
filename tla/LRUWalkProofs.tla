---------------------------- MODULE LRUWalkProofs ----------------------------
(***************************************************************************)
(* What fn does to other nodes does not disturb a walk.  The nodes ahead   *)
(* of the loop variable are those that follow it on the list the loop is   *)
(* on (for for_each, on both lists one after the other), so the proof is   *)
(* about what follows what: a call moves one node and leaves the order of  *)
(* all the others as it was, and the loop goes on with the next one.       *)
(***************************************************************************)
EXTENDS LRUWalk, LRUCacheProofs

-----------------------------------------------------------------------------
(* The walks and the lists they are on.                                    *)
WalkList == {"lru", "in_use"}

(* The nodes a loop meets are those of its list, in one of its directions. *)
LEMMA NodesAre ==
  ASSUME Inv, NEW w, NEW L \in WalkList
  PROVE  /\ Nodes(w, L) \in Seq(Node) /\ Inj(Nodes(w, L))
         /\ Range(Nodes(w, L)) = On(self, L)
         /\ \A x, y : Before(Nodes(w, L), x, y) <=>
              IF w \in MruWalks THEN Before(list[<<self, L>>], y, x)
                                ELSE Before(list[<<self, L>>], x, y)
<1>1. self \in Tag /\ L \in Kind
  BY SelfTag DEF WalkList, Kind
<1>2. /\ list[<<self, L>>] \in Seq(Node) /\ Inj(list[<<self, L>>])
      /\ On(self, L) = Range(list[<<self, L>>])
  BY <1>1, ListIs DEF Inv, TypeOK
<1> QED BY <1>2, ReverseOrder DEF Nodes

(* The dummy head leads to the node before all others, if there is one.    *)
LEMMA FirstIs ==
  ASSUME Inv, NEW w, NEW L \in WalkList
  PROVE  /\ First(w, L) = Nil => On(self, L) = {}
         /\ First(w, L) # Nil =>
              /\ First(w, L) \in On(self, L) /\ First(w, L) \in Node
              /\ \A f : Before(Nodes(w, L), First(w, L), f) <=> f \in On(self, L) /\ f # First(w, L)
<1> DEFINE s == Nodes(w, L)
<1>1. s \in Seq(Node) /\ Inj(s) /\ Range(s) = On(self, L)
  BY NodesAre
<1>2. Len(s) \in Nat /\ Range(s) = {s[i] : i \in 1..Len(s)} /\ Nil \notin Node
  BY <1>1, RangeEquality, NilAssumption
<1>3. First(w, L) = IF s = <<>> THEN Nil ELSE Head(s)
  BY DEF First
<1> HIDE DEF s
<1>4. CASE s = <<>>
  <2>1. Range(s) = {}
    <3>1. Len(s) = 0
      BY <1>4, EmptySeq
    <3>2. Range(s) = {s[i] : i \in 1..Len(s)} /\ 1..Len(s) = {}
      BY <1>2, <3>1
    <3> QED BY <3>2
  <2> QED BY <1>1, <1>3, <1>4, <2>1
<1>5. CASE s # <<>>
  <2>1. Len(s) > 0 /\ Head(s) = s[1] /\ 1 \in 1..Len(s) /\ s[1] \in Node
    BY <1>1, <1>2, <1>5, EmptySeq
  <2>2. ASSUME NEW f \in Range(s), f # s[1] PROVE Before(s, s[1], f)
    <3>1. PICK i \in 1..Len(s) : s[i] = f
      BY <1>2
    <3>2. 1 < i
      BY <1>2, <2>2, <3>1
    <3> QED BY <2>1, <3>1, <3>2 DEF Before
  <2>3. ASSUME NEW f, Before(s, s[1], f) PROVE f \in Range(s) /\ f # s[1]
    BY <1>1, <2>3, StrictOrder
  <2> QED BY <1>1, <1>2, <1>3, <1>5, <2>1, <2>2, <2>3 DEF s
<1> QED BY <1>4, <1>5

(* A node leads to the first of those after it, if there are any.          *)
LEMMA AfterIs ==
  ASSUME Inv, NEW w, NEW L \in WalkList, NEW e \in On(self, L)
  PROVE  /\ After(w, L, e) = Nil => \A f : ~Before(Nodes(w, L), e, f)
         /\ After(w, L, e) # Nil => FollowedBy(Nodes(w, L), e, After(w, L, e))
<1> DEFINE s == Nodes(w, L)
<1>1. s \in Seq(Node) /\ Inj(s) /\ Range(s) = On(self, L)
  BY NodesAre
<1>2. Range(s) = {s[i] : i \in 1..Len(s)} /\ Nil \notin Node
  BY <1>1, RangeEquality, NilAssumption
<1>3. After(w, L, e) = IF IndexFirstSubSeq(<<e>>, s) = Len(s) THEN Nil
                       ELSE s[IndexFirstSubSeq(<<e>>, s) + 1]
  BY DEF After
<1> HIDE DEF s
<1>4. PICK i \in 1..Len(s) : s[i] = e
  BY <1>1, <1>2
<1>5. IndexFirstSubSeq(<<e>>, s) = i
  BY <1>1, <1>4, PlaceOf
<1>6. /\ i = Len(s) => \A f : ~Before(s, e, f)
      /\ i # Len(s) => s[i + 1] \in Node /\ FollowedBy(s, e, s[i + 1])
  BY <1>1, <1>4, NextPlace
<1> QED BY <1>2, <1>3, <1>5, <1>6 DEF s

-----------------------------------------------------------------------------
(* The nodes in the order in which the walk w meets them when its loop is  *)
(* on the list L: the second loop of for_each comes after the first.       *)
Way(w, L) == IF w = "for_each" /\ L = "lru" THEN lru(self) \o in_use(self) ELSE Nodes(w, L)

LEMMA OrderOn ==
  ASSUME Inv, NEW L \in WalkList, NEW x, NEW y, Before(list[<<self, L>>], x, y)
  PROVE  x \in On(self, L) /\ y \in On(self, L)
<1>1. self \in Tag /\ L \in Kind
  BY SelfTag DEF WalkList, Kind
<1>2. /\ list[<<self, L>>] \in Seq(Node) /\ Inj(list[<<self, L>>])
      /\ On(self, L) = Range(list[<<self, L>>])
  BY <1>1, ListIs DEF Inv, TypeOK
<1> QED BY <1>2, StrictOrder

LEMMA WayIs ==
  ASSUME Inv, NEW w, NEW L \in WalkList
  PROVE  /\ Way(w, L) \in Seq(Node) /\ Inj(Way(w, L))
         /\ On(self, L) \subseteq Range(Way(w, L))
         /\ w = "for_each" /\ L = "lru" => \A x, y :
              Before(Way(w, L), x, y) <=>
                \/ Before(lru(self), x, y) \/ Before(in_use(self), x, y)
                \/ x \in On(self, "lru") /\ y \in On(self, "in_use")
         /\ ~(w = "for_each" /\ L = "lru") => Way(w, L) = Nodes(w, L)
<1>1. CASE w = "for_each" /\ L = "lru"
  <2>1. self \in Tag /\ "lru" \in Kind /\ "in_use" \in Kind
    BY SelfTag DEF Kind
  <2>2. /\ lru(self) \in Seq(Node) /\ Inj(lru(self)) /\ On(self, "lru") = Range(lru(self))
        /\ in_use(self) \in Seq(Node) /\ Inj(in_use(self))
        /\ On(self, "in_use") = Range(in_use(self))
    BY <2>1, ListIs DEF Inv, TypeOK, lru, in_use
  <2>3. \A e : ~(e \in On(self, "lru") /\ e \in On(self, "in_use"))
    BY <2>1, OnUnique DEF Inv, TypeOK, CoreInv, OneList
  <2>4. Range(lru(self)) \cap Range(in_use(self)) = {}
    BY <2>2, <2>3
  <2>5. Way(w, L) = lru(self) \o in_use(self)
    BY <1>1 DEF Way
  <2>6. /\ lru(self) \o in_use(self) \in Seq(Node) /\ Inj(lru(self) \o in_use(self))
        /\ Range(lru(self) \o in_use(self)) = Range(lru(self)) \cup Range(in_use(self))
    BY <2>2, <2>4, JoinProps
  <2>7. \A x, y : Before(lru(self) \o in_use(self), x, y) <=>
          \/ Before(lru(self), x, y) \/ Before(in_use(self), x, y)
          \/ x \in Range(lru(self)) /\ y \in Range(in_use(self))
    BY <2>2, JoinOrder
  <2> QED BY <1>1, <2>2, <2>5, <2>6, <2>7
<1>2. CASE ~(w = "for_each" /\ L = "lru")
  BY <1>2, NodesAre DEF Way
<1> QED BY <1>1, <1>2

(* The loop goes on with n after e: n is what follows e on the way, and of *)
(* what is ahead of n the order is the same as before.                     *)
GoesOn(s, e, r, n) ==
  /\ Before(s, e, n)
  /\ \A f : Before(r, n, f) <=> Before(s, e, f) /\ f # n
  /\ \A f, g : Before(r, n, f) /\ Before(s, f, g) => Before(r, f, g)

(* fn returned for e, and the loop test is made: either the loop goes on   *)
(* or there is nothing ahead.                                              *)
LEMMA NextOnWay ==
  ASSUME Inv, NEW w, NEW L \in WalkList, NEW e \in On(self, L), LoopTest(w, L, After(w, L, e))
  PROVE  \/ /\ Return
            /\ \A f : ~Before(Way(w, L), e, f)
         \/ \E M \in WalkList, n \in Node :
              /\ Call(w, M, n) /\ (M = L \/ (w = "for_each" /\ M = "in_use"))
              /\ n \in On(self, M)
              /\ GoesOn(Way(w, L), e, Way(w, M), n)
<1> DEFINE s == Way(w, L)
           n == After(w, L, e)
           second == First(w, "in_use")
<1>1. /\ s \in Seq(Node) /\ Inj(s) /\ On(self, L) \subseteq Range(s)
  BY WayIs
<1>2. /\ n = Nil => \A f : ~Before(Nodes(w, L), e, f)
      /\ n # Nil => FollowedBy(Nodes(w, L), e, n)
  BY AfterIs
<1>3. /\ Nodes(w, L) \in Seq(Node) /\ Inj(Nodes(w, L)) /\ Range(Nodes(w, L)) = On(self, L)
      /\ On(self, L) \subseteq Node
  <2>1. Nodes(w, L) \in Seq(Node) /\ Inj(Nodes(w, L)) /\ Range(Nodes(w, L)) = On(self, L)
    BY NodesAre
  <2>2. Range(Nodes(w, L)) \subseteq Node
    BY <2>1, EmptyRange
  <2> QED BY <2>1, <2>2
<1>4. "lru" \in WalkList /\ "in_use" \in WalkList
  BY DEF WalkList
<1>5. \/ n # Nil /\ Call(w, L, n)
      \/ n = Nil /\ w = "for_each" /\ L = "lru" /\ second # Nil /\ Call(w, "in_use", second)
      \/ n = Nil /\ ~(w = "for_each" /\ L = "lru" /\ second # Nil) /\ Return
  BY DEF LoopTest
<1> HIDE DEF s, n, second
<1>6. CASE n # Nil /\ Call(w, L, n)
  <2>1. FollowedBy(Nodes(w, L), e, n)
    BY <1>2, <1>6
  <2>2. n \in On(self, L) /\ n \in Node /\ e # n
    BY <1>3, <2>1, StrictOrder DEF FollowedBy
  <2>3. FollowedBy(s, e, n)
    <3>1. CASE w = "for_each" /\ L = "lru"
      <4>1. \A x, y : Before(s, x, y) <=>
                \/ Before(lru(self), x, y) \/ Before(in_use(self), x, y)
                \/ x \in On(self, "lru") /\ y \in On(self, "in_use")
        BY <3>1, WayIs DEF s
      <4>2. Nodes(w, L) = lru(self)
        BY <3>1 DEF Nodes, lru, MruWalks, UntilWalks
      <4>3. \A x : x \in On(self, "lru") => x \notin On(self, "in_use")
        BY SelfTag, OnUnique DEF Inv, TypeOK, CoreInv, OneList, Kind
      <4>4. \A x, y : Before(in_use(self), x, y) => x \in On(self, "in_use")
        BY <1>4, OrderOn DEF in_use
      <4> QED BY <2>1, <2>2, <3>1, <4>1, <4>2, <4>3, <4>4 DEF FollowedBy
    <3>2. CASE ~(w = "for_each" /\ L = "lru")
      BY <2>1, <3>2, WayIs DEF s
    <3> QED BY <3>1, <3>2
  <2>4. GoesOn(s, e, s, n)
    BY <2>3 DEF FollowedBy, GoesOn
  <2> QED BY <1>6, <2>2, <2>4 DEF s
<1>7. CASE n = Nil /\ w = "for_each" /\ L = "lru" /\ second # Nil /\ Call(w, "in_use", second)
  <2>1. \A x, y : Before(s, x, y) <=>
                \/ Before(lru(self), x, y) \/ Before(in_use(self), x, y)
                \/ x \in On(self, "lru") /\ y \in On(self, "in_use")
    BY <1>7, WayIs DEF s
  <2>2. Nodes(w, L) = lru(self) /\ Nodes(w, "in_use") = in_use(self)
    BY <1>7 DEF Nodes, lru, in_use, MruWalks, UntilWalks
  <2>3. Way(w, "in_use") = in_use(self)
    BY <1>7, <2>2 DEF Way
  <2>4. /\ second \in On(self, "in_use") /\ second \in Node
        /\ \A f : Before(in_use(self), second, f) <=> f \in On(self, "in_use") /\ f # second
    BY <1>4, <1>7, <2>2, FirstIs DEF second
  <2>5. \A x : x \in On(self, "lru") => x \notin On(self, "in_use")
    BY SelfTag, OnUnique DEF Inv, TypeOK, CoreInv, OneList, Kind
  <2>6. \A x, y : Before(in_use(self), x, y) => x \in On(self, "in_use") /\ y \in On(self, "in_use")
    BY <1>4, OrderOn DEF in_use
  <2>7. \A x, y : Before(lru(self), x, y) => x \in On(self, "lru") /\ y \in On(self, "lru")
    BY <1>3, <1>7, <2>2, StrictOrder
  <2>8. \A f : Before(s, e, f) <=> f \in On(self, "in_use")
    BY <1>2, <1>7, <2>1, <2>2, <2>5, <2>6
  <2>9. GoesOn(s, e, in_use(self), second)
    <3>1. \A f, g : Before(in_use(self), second, f) /\ Before(s, f, g) => Before(in_use(self), f, g)
      BY <2>1, <2>5, <2>6, <2>7
    <3> QED BY <2>4, <2>8, <3>1 DEF GoesOn
  <2> QED BY <1>4, <1>7, <2>3, <2>4, <2>9 DEF s
<1>8. CASE n = Nil /\ ~(w = "for_each" /\ L = "lru" /\ second # Nil) /\ Return
  <2>1. ASSUME NEW f PROVE ~Before(s, e, f)
    <3>1. CASE w = "for_each" /\ L = "lru"
      <4>1. On(self, "in_use") = {}
        BY <1>4, <1>8, <3>1, FirstIs DEF second
      <4>2. \A x, y : Before(s, x, y) <=>
                \/ Before(lru(self), x, y) \/ Before(in_use(self), x, y)
                \/ x \in On(self, "lru") /\ y \in On(self, "in_use")
        BY <3>1, WayIs DEF s
      <4>3. Nodes(w, L) = lru(self) /\ Nodes(w, "in_use") = in_use(self)
        BY <3>1 DEF Nodes, lru, in_use, MruWalks, UntilWalks
      <4>4. \A x, y : ~Before(in_use(self), x, y)
        BY <1>4, <4>1, OrderOn DEF in_use
      <4> QED BY <1>2, <1>8, <4>1, <4>2, <4>3, <4>4
    <3>2. CASE ~(w = "for_each" /\ L = "lru")
      BY <1>2, <1>8, <3>2, WayIs DEF s
    <3> QED BY <3>1, <3>2
  <2> QED BY <1>8, <2>1 DEF s
<1> QED BY <1>5, <1>6, <1>7, <1>8

-----------------------------------------------------------------------------
(* Of the nodes in alone, those that the loop has not met are the ones     *)
(* ahead of e on the way s, and all are met in the order promised.         *)
MetInOrder(s, e, met, promised, alone) ==
  /\ \A x \in alone : x \in Range(met) <=> ~Before(s, e, x)
  /\ \A x, y \in alone : Before(promised, x, y) =>
       /\ y \in Range(met) => Before(met, x, y)
       /\ Before(s, e, y) => x \in Range(met) \/ Before(s, x, y)

(* No node ahead of e was met.                                             *)
NewAhead(s, e, met) == \A x \in Range(met) : ~Before(s, e, x)

(* fn is called with n.                                                    *)
Meet(met, n) == IF n \in Range(met) THEN met ELSE Append(met, n)

LEMMA MeetIs ==
  ASSUME NEW met \in Seq(Node), NEW n \in Node
  PROVE  /\ Meet(met, n) \in Seq(Node)
         /\ Range(Meet(met, n)) = Range(met) \cup {n}
         /\ \A x, y : Before(met, x, y) => Before(Meet(met, n), x, y)
         /\ \A x : n \notin Range(met) /\ x \in Range(met) => Before(Meet(met, n), x, n)
<1>1. CASE n \in Range(met)
  BY <1>1 DEF Meet
<1>2. CASE n \notin Range(met)
  <2> DEFINE a == Append(met, n)
  <2>1. /\ a \in Seq(Node) /\ Len(a) = Len(met) + 1 /\ Len(met) \in Nat
        /\ \A i \in 1..Len(met) : a[i] = met[i]
        /\ a[Len(met) + 1] = n
    BY AppendProperties
  <2>2. \A x, y : Before(a, x, y) <=> Before(met, x, y) \/ (x \in Range(met) /\ y = n)
    BY AppendOrder
  <2> HIDE DEF a
  <2>3. /\ Range(met) = {met[i] : i \in 1..Len(met)} /\ Range(a) = {a[i] : i \in 1..Len(a)}
        /\ 1..Len(a) = (1..Len(met)) \cup {Len(met) + 1}
    BY <2>1, RangeEquality
  <2>4. Range(a) = Range(met) \cup {n}
    BY <2>1, <2>3
  <2>5. Meet(met, n) = a
    BY <1>2 DEF Meet, a
  <2> QED BY <2>1, <2>2, <2>4, <2>5
<1> QED BY <1>1, <1>2

(* A walk begins with the first node of the way it promised.               *)
LEMMA MetFirst ==
  ASSUME NEW s \in Seq(Node), Inj(s), NEW n \in Range(s),
         \A f \in Range(s) : f # n => Before(s, n, f)
  PROVE  /\ MetInOrder(s, n, Meet(<<>>, n), s, Range(s))
         /\ NewAhead(s, n, Meet(<<>>, n))
<1>1. n \in Node
  BY EmptyRange
<1>2. <<>> \in Seq(Node) /\ Range(<<>>) = {}
  <2>1. <<>> \in Seq(Node) /\ Len(<<>>) = 0
    BY EmptySeq
  <2>2. \A i : i \notin 1..0
    OBVIOUS
  <2> QED BY <2>1, <2>2, RangeEquality
<1> DEFINE none == <<>>
           met == Meet(none, n)
<1>3. Range(met) = {n}
  <2>1. none \in Seq(Node) /\ Range(none) = {}
    BY <1>2
  <2> HIDE DEF none
  <2>2. Range(Meet(none, n)) = Range(none) \cup {n}
    BY <1>1, <2>1, MeetIs
  <2> QED BY <2>1, <2>2
<1> HIDE DEF met
<1>4. \A x, y : Before(s, x, y) => x \in Range(s) /\ y \in Range(s) /\ x # y /\ ~Before(s, y, x)
  BY StrictOrder
<1> QED BY <1>3, <1>4 DEF MetInOrder, NewAhead, met

(* It goes on with the first of the nodes ahead.                           *)
LEMMA MetNext ==
  ASSUME NEW s \in Seq(Node), Inj(s), NEW e \in Range(s), NEW n \in Node,
         NEW r \in Seq(Node), Inj(r), GoesOn(s, e, r, n), NEW met \in Seq(Node), NEW promised, NEW alone,
         MetInOrder(s, e, met, promised, alone)
  PROVE  /\ MetInOrder(r, n, Meet(met, n), promised, alone)
         /\ NewAhead(s, e, met) => NewAhead(r, n, Meet(met, n)) /\ n \notin Range(met)
         /\ n \in Range(met) => n \notin alone
<1> DEFINE seen2 == Meet(met, n)
<1>1. /\ Range(seen2) = Range(met) \cup {n}
      /\ \A x, y : Before(met, x, y) => Before(seen2, x, y)
      /\ \A x : n \notin Range(met) /\ x \in Range(met) => Before(seen2, x, n)
  BY MeetIs
<1> HIDE DEF seen2
<1>2. /\ \A x, y : Before(s, x, y) => x \in Range(s) /\ y \in Range(s) /\ x # y /\ ~Before(s, y, x)
      /\ \A x, y, z : Before(s, x, y) /\ Before(s, y, z) => Before(s, x, z)
      /\ \A x, y \in Range(s) : x = y \/ Before(s, x, y) \/ Before(s, y, x)
  BY StrictOrder
<1>3. /\ Before(s, e, n)
      /\ \A f : Before(r, n, f) <=> Before(s, e, f) /\ f # n
      /\ \A f, g : Before(r, n, f) /\ Before(s, f, g) => Before(r, f, g)
  BY DEF GoesOn
<1>4. ASSUME NEW x \in alone PROVE x \in Range(met) <=> ~Before(s, e, x)
  BY DEF MetInOrder
<1>5. ASSUME NEW x \in alone, NEW y \in alone, Before(promised, x, y)
      PROVE  /\ y \in Range(met) => Before(met, x, y)
             /\ Before(s, e, y) => x \in Range(met) \/ Before(s, x, y)
  BY <1>5 DEF MetInOrder
<1>6. n \in Range(met) => n \notin alone
  BY <1>3, <1>4
<1>7. ASSUME NEW x \in alone PROVE x \in Range(seen2) <=> ~Before(r, n, x)
  BY <1>1, <1>3, <1>4
<1>8. ASSUME NEW x \in alone, NEW y \in alone, Before(promised, x, y), y \in Range(seen2)
      PROVE  Before(seen2, x, y)
  <2>1. CASE y \in Range(met)
    BY <1>1, <1>5, <1>8, <2>1
  <2>2. CASE y = n /\ n \notin Range(met)
    <3>1. x \in Range(met) \/ Before(s, x, n)
      BY <1>3, <1>5, <1>8, <2>2
    <3>2. Before(s, x, n) => ~Before(s, e, x)
      <4>1. ASSUME Before(s, x, n), Before(s, e, x) PROVE FALSE
        <5>1. x # n /\ ~Before(s, n, x)
          BY <1>2, <4>1
        <5>2. Before(r, n, x)
          BY <1>3, <4>1, <5>1
        <5>3. Before(r, x, n)
          BY <1>3, <4>1, <5>2
        <5> QED BY <5>2, <5>3, StrictOrder
      <4> QED BY <4>1
    <3>3. x \in Range(met)
      BY <1>4, <3>1, <3>2
    <3> QED BY <1>1, <2>2, <3>3
  <2> QED BY <1>1, <1>8, <2>1, <2>2
<1>9. ASSUME NEW x \in alone, NEW y \in alone, Before(promised, x, y), Before(r, n, y)
      PROVE  x \in Range(seen2) \/ Before(r, x, y)
  <2>1. Before(s, e, y)
    BY <1>3, <1>9
  <2>2. x \in Range(met) \/ Before(s, x, y)
    BY <1>5, <1>9, <2>1
  <2>3. CASE Before(s, x, y) /\ Before(s, e, x) /\ x # n
    BY <1>3, <2>3
  <2> QED BY <1>1, <1>4, <2>2, <2>3
<1>10. MetInOrder(r, n, seen2, promised, alone)
  BY <1>7, <1>8, <1>9 DEF MetInOrder
<1>11. ASSUME NewAhead(s, e, met) PROVE NewAhead(r, n, seen2) /\ n \notin Range(met)
  BY <1>1, <1>3, <1>11 DEF NewAhead
<1> QED BY <1>6, <1>10, <1>11 DEF seen2

-----------------------------------------------------------------------------
(* Every walk has its list.                                                *)
Walking(w, L) ==
  /\ w \in Walks /\ L \in WalkList
  /\ w = "for_each_in_use" => L = "in_use"
  /\ w \notin {"for_each", "for_each_in_use"} => L = "lru"

(* The inductive invariant, next to that of the cache.                     *)
WalkInv ==
  /\ seen \in Seq(Node) /\ again \cap stayed = {}
  /\ walk = "none" => again = {} /\ seen = <<>> /\ stayed = {}
  /\ walk # "none" =>
       /\ Walking(walk, kind) /\ h \in On(self, kind)
       /\ MetInOrder(Way(walk, kind), h, seen, start, stayed)
       /\ walk # "for_each" => again = {} /\ NewAhead(Way(walk, kind), h, seen)

LEMMA SameLists ==
  ASSUME UNCHANGED list
  PROVE  /\ \A w, L : Way(w, L)' = Way(w, L)
         /\ \A L : On(self, L)' = On(self, L)
BY DEF Way, Nodes, lru, in_use, On

LEMMA CallMeets ==
  ASSUME NEW w, NEW L, NEW n, Call(w, L, n)
  PROVE  /\ walk' = w /\ kind' = L /\ h' = n /\ seen' = Meet(seen, n)
         /\ again' = IF n \in Range(seen) THEN again \cup {n} ELSE again
BY DEF Call, Meet

(* A walk begins with the first node of its way, which is the order        *)
(* promised.                                                               *)
LEMMA BeginsOnWay ==
  ASSUME Inv, NEW w \in Walks, NEW L, L = IF w = "for_each_in_use" THEN "in_use" ELSE "lru",
         Promised(w) # <<>>, LoopTest(w, L, First(w, L))
  PROVE  \E M \in WalkList, n \in Node :
           /\ Call(w, M, n) /\ n \in On(self, M) /\ Walking(w, M)
           /\ Way(w, M) = Promised(w)
           /\ \A f \in Range(Way(w, M)) : f # n => Before(Way(w, M), n, f)
<1> DEFINE n == First(w, L)
           second == First(w, "in_use")
<1>1. "lru" \in WalkList /\ "in_use" \in WalkList /\ L \in WalkList
  BY DEF WalkList
<1>2. self \in Tag /\ "lru" \in Kind /\ "in_use" \in Kind
  BY SelfTag DEF Kind
<1>3. /\ lru(self) \in Seq(Node) /\ On(self, "lru") = Range(lru(self))
      /\ in_use(self) \in Seq(Node) /\ On(self, "in_use") = Range(in_use(self))
  BY <1>2, ListIs DEF Inv, TypeOK, lru, in_use
<1>4. /\ n = Nil => On(self, L) = {}
      /\ n # Nil => /\ n \in On(self, L) /\ n \in Node
                    /\ \A f : Before(Nodes(w, L), n, f) <=> f \in On(self, L) /\ f # n
  BY <1>1, FirstIs
<1>5. /\ second = Nil => On(self, "in_use") = {}
      /\ second # Nil =>
           /\ second \in On(self, "in_use") /\ second \in Node
           /\ \A f : Before(Nodes(w, "in_use"), second, f) <=> f \in On(self, "in_use") /\ f # second
  BY <1>1, FirstIs
<1>6. \/ n # Nil /\ Call(w, L, n)
      \/ n = Nil /\ w = "for_each" /\ L = "lru" /\ second # Nil /\ Call(w, "in_use", second)
      \/ n = Nil /\ ~(w = "for_each" /\ L = "lru" /\ second # Nil)
  BY DEF LoopTest
<1>7. Way(w, L) = Promised(w)
  BY DEF Way, Promised, Nodes, lru, in_use, Walks, MruWalks, UntilWalks
<1>8. Walking(w, L)
  BY <1>1 DEF Walking, Walks, MruWalks, UntilWalks
<1> HIDE DEF n, second
<1>9. CASE n # Nil /\ Call(w, L, n)
  <2>1. ASSUME NEW f \in Range(Way(w, L)), f # n PROVE Before(Way(w, L), n, f)
    <3>1. CASE w = "for_each"
      <4>1. /\ Before(lru(self), n, f) <=> f \in On(self, "lru") /\ f # n
            /\ n \in On(self, "lru") /\ L = "lru"
        BY <1>4, <1>9, <3>1 DEF Nodes, lru, MruWalks, UntilWalks
      <4>2. f \in On(self, "lru") \/ f \in On(self, "in_use")
        <5>1. Way(w, L) = lru(self) \o in_use(self)
          BY <3>1, <4>1 DEF Way
        <5>2. Range(lru(self) \o in_use(self)) = Range(lru(self)) \cup Range(in_use(self))
          BY <1>3, JoinRange
        <5> QED BY <1>3, <2>1, <5>1, <5>2
      <4> QED BY <1>1, <2>1, <3>1, <4>1, <4>2, WayIs
    <3>2. CASE w # "for_each"
      <4>1. Way(w, L) = Nodes(w, L)
        BY <3>2 DEF Way
      <4> QED BY <1>1, <1>4, <1>9, <2>1, <4>1, NodesAre
    <3> QED BY <3>1, <3>2
  <2> QED BY <1>1, <1>4, <1>7, <1>8, <1>9, <2>1
<1>10. CASE n = Nil /\ w = "for_each" /\ L = "lru" /\ second # Nil /\ Call(w, "in_use", second)
  <2>1. lru(self) = <<>>
    <3>1. Range(lru(self)) = {}
      BY <1>3, <1>4, <1>10
    <3> QED BY <1>3, <3>1, NoNodes
  <2>2. Promised(w) = in_use(self)
    <3>1. Promised(w) = lru(self) \o in_use(self)
      BY <1>10 DEF Promised, MruWalks, UntilWalks
    <3> QED BY <1>3, <2>1, <3>1, ConcatEmptySeq
  <2>3. Way(w, "in_use") = in_use(self) /\ Nodes(w, "in_use") = in_use(self)
    BY <1>10 DEF Way, Nodes, in_use, MruWalks, UntilWalks
  <2>4. Walking(w, "in_use")
    BY <1>1, <1>10 DEF Walking
  <2> QED BY <1>1, <1>3, <1>5, <1>10, <2>2, <2>3, <2>4
<1>11. CASE n = Nil /\ ~(w = "for_each" /\ L = "lru" /\ second # Nil)
  <2>1. Range(Way(w, L)) = {}
    <3>1. CASE w = "for_each"
      <4>1. L = "lru" /\ Way(w, L) = lru(self) \o in_use(self)
        BY <3>1 DEF Way
      <4>2. Range(lru(self) \o in_use(self)) = Range(lru(self)) \cup Range(in_use(self))
        BY <1>3, JoinRange
      <4> QED BY <1>3, <1>4, <1>5, <1>11, <3>1, <4>1, <4>2
    <3>2. CASE w # "for_each"
      <4>1. Way(w, L) = Nodes(w, L)
        BY <3>2 DEF Way
      <4> QED BY <1>1, <1>4, <1>11, <4>1, NodesAre
    <3> QED BY <3>1, <3>2
  <2>2. Way(w, L) \in Seq(Node)
    BY <1>1, WayIs
  <2>3. Way(w, L) = <<>>
    BY <2>1, <2>2, NoNodes
  <2> QED BY <1>7, <2>3
<1> QED BY <1>6, <1>9, <1>10, <1>11

LEMMA BeginInv ==
  ASSUME Inv, WalkInv, NEW w \in Walks, Begin(w)
  PROVE  WalkInv'
<1> DEFINE L == IF w = "for_each_in_use" THEN "in_use" ELSE "lru"
<1>1. /\ walk = "none" /\ Promised(w) # <<>> /\ LoopTest(w, L, First(w, L))
      /\ start' = Promised(w) /\ stayed' = Range(Promised(w)) /\ UNCHANGED list
  BY DEF Begin, vars, coreVars
<1> HIDE DEF L
<1>2. again = {} /\ seen = <<>>
  BY <1>1 DEF WalkInv
<1>3. PICK M \in WalkList, n \in Node :
           /\ Call(w, M, n) /\ n \in On(self, M) /\ Walking(w, M)
           /\ Way(w, M) = Promised(w)
           /\ \A f \in Range(Way(w, M)) : f # n => Before(Way(w, M), n, f)
  BY <1>1, BeginsOnWay DEF L
<1>4. /\ Way(w, M) \in Seq(Node) /\ Inj(Way(w, M)) /\ n \in Range(Way(w, M))
  BY <1>3, WayIs
<1>5. /\ MetInOrder(Way(w, M), n, Meet(<<>>, n), Way(w, M), Range(Way(w, M)))
      /\ NewAhead(Way(w, M), n, Meet(<<>>, n))
  BY <1>3, <1>4, MetFirst
<1>6. /\ walk' = w /\ kind' = M /\ h' = n /\ seen' = Meet(seen, n)
      /\ again' = IF n \in Range(seen) THEN again \cup {n} ELSE again
  BY <1>3, CallMeets
<1>7. seen' = Meet(<<>>, n) /\ seen' \in Seq(Node) /\ again' = {}
  <2>1. seen \in Seq(Node) /\ n \notin Range(seen)
    <3>1. seen \in Seq(Node) /\ Len(seen) = 0
      BY <1>2, EmptySeq
    <3>2. Range(seen) = {seen[i] : i \in 1..Len(seen)}
      BY <3>1, RangeEquality
    <3>3. 1..Len(seen) = {}
      BY <3>1
    <3> QED BY <3>1, <3>2, <3>3
  <2> QED BY <1>2, <1>6, <2>1, MeetIs
<1>8. Way(walk, kind)' = Way(w, M) /\ On(self, kind)' = On(self, M)
  BY <1>1, <1>6, SameLists
<1>9. w # "none"
  BY DEF Walks, MruWalks, UntilWalks
<1> QED BY <1>1, <1>3, <1>5, <1>6, <1>7, <1>8, <1>9 DEF WalkInv

(* fn returns, and the loop goes on or ends.                               *)
LEMMA ReturnsInv ==
  ASSUME Inv, WalkInv, FnReturns
  PROVE  /\ WalkInv'
         /\ walk' = "none" => \A x : ~Before(Way(walk, kind), h, x)
<1>1. /\ walk # "none" /\ LoopTest(walk, kind, After(walk, kind, h)) /\ UNCHANGED list
      /\ walk' # "none" => UNCHANGED <<start, stayed>>
  BY DEF FnReturns, vars, coreVars
<1>2. /\ seen \in Seq(Node) /\ again \cap stayed = {}
      /\ Walking(walk, kind) /\ h \in On(self, kind)
      /\ MetInOrder(Way(walk, kind), h, seen, start, stayed)
      /\ walk # "for_each" => again = {} /\ NewAhead(Way(walk, kind), h, seen)
  BY <1>1 DEF WalkInv
<1>3. kind \in WalkList /\ walk \in Walks /\ walk # "none"
  BY <1>1, <1>2 DEF Walking
<1>4. \/ Return /\ \A x : ~Before(Way(walk, kind), h, x)
      \/ \E M \in WalkList, n \in Node :
              /\ Call(walk, M, n) /\ (M = kind \/ (walk = "for_each" /\ M = "in_use"))
              /\ n \in On(self, M)
              /\ GoesOn(Way(walk, kind), h, Way(walk, M), n)
  BY <1>1, <1>2, <1>3, NextOnWay
<1>5. ASSUME Return PROVE WalkInv'
  <2>1. <<>> \in Seq(Node)
    BY EmptySeq
  <2>2. walk' = "none" /\ stayed' = {} /\ seen' = <<>> /\ again' = {}
    BY <1>5 DEF Return
  <2> QED BY <2>1, <2>2 DEF WalkInv
<1>6. ASSUME NEW M \in WalkList, NEW n \in Node,
             Call(walk, M, n), M = kind \/ (walk = "for_each" /\ M = "in_use"), n \in On(self, M),
             GoesOn(Way(walk, kind), h, Way(walk, M), n)
      PROVE  WalkInv' /\ walk' # "none"
  <2>1. /\ walk' = walk /\ kind' = M /\ h' = n /\ seen' = Meet(seen, n)
        /\ again' = IF n \in Range(seen) THEN again \cup {n} ELSE again
    BY <1>6, CallMeets
  <2>2. start' = start /\ stayed' = stayed
    BY <1>1, <2>1
  <2>3. /\ Way(walk, kind) \in Seq(Node) /\ Inj(Way(walk, kind)) /\ h \in Range(Way(walk, kind))
        /\ Way(walk, M) \in Seq(Node) /\ Inj(Way(walk, M))
    BY <1>2, <1>3, WayIs
  <2>4. /\ MetInOrder(Way(walk, M), n, Meet(seen, n), start, stayed)
        /\ NewAhead(Way(walk, kind), h, seen) =>
             NewAhead(Way(walk, M), n, Meet(seen, n)) /\ n \notin Range(seen)
        /\ n \in Range(seen) => n \notin stayed
    BY <1>2, <1>6, <2>3, MetNext
  <2>5. Way(walk, kind)' = Way(walk, M) /\ On(self, kind)' = On(self, M)
    BY <1>1, <2>1, SameLists
  <2>6. Walking(walk, M)
    BY <1>2, <1>6 DEF Walking
  <2>7. seen' \in Seq(Node)
    BY <1>2, <2>1, MeetIs
  <2>8. again' \cap stayed' = {} /\ (walk # "for_each" => again' = {})
    BY <1>2, <2>1, <2>2, <2>4
  <2> QED BY <1>1, <1>2, <1>6, <2>1, <2>2, <2>4, <2>5, <2>6, <2>7, <2>8 DEF WalkInv
<1>7. CASE Return /\ \A x : ~Before(Way(walk, kind), h, x)
  BY <1>5, <1>7
<1> QED BY <1>4, <1>6, <1>7

LEMMA StopsInv ==
  ASSUME FnStops
  PROVE  WalkInv'
<1>1. <<>> \in Seq(Node)
  BY EmptySeq
<1>2. walk' = "none" /\ stayed' = {} /\ seen' = <<>> /\ again' = {}
  BY DEF FnStops, Return
<1> QED BY <1>1, <1>2 DEF WalkInv

-----------------------------------------------------------------------------
(* A call moves at most one node, one of those it touches, and never a     *)
(* node of the in-use list to the end of that list.                        *)
MovesTouched ==
  \/ list' = list
  \/ \E e \in Touched, M \in Kind :
       /\ list' = move(list, <<self, M>>, e)
       /\ M = "in_use" => e \notin On(self, "in_use")

LEMMA RefMoves ==
  ASSUME Inv, NEW e \in Touched, e \in Resident(self), ref(self, e)
  PROVE  MovesTouched
<1>1. self \in Tag /\ "lru" \in Kind /\ "in_use" \in Kind
  BY SelfTag DEF Kind
<1>2. CASE refs[e] = 1
  <2>1. e \in On(self, "lru")
    BY <1>1, <1>2, RefTells DEF Inv, TypeOK
  <2>2. e \notin On(self, "in_use")
    BY <1>1, <2>1, OnUnique DEF Inv, TypeOK, CoreInv, OneList
  <2> QED BY <1>1, <1>2, <2>2 DEF MovesTouched, ref
<1>3. CASE refs[e] # 1
  BY <1>3 DEF MovesTouched, ref
<1> QED BY <1>2, <1>3

LEMMA HitMoves ==
  ASSUME Inv, NEW k \in Key, NEW pin, NEW e, e = table[k], e # Nil, e \in Touched,
         lookup_refresh(self, e, pin)
  PROVE  MovesTouched
<1>1. e \in Resident(self)
  BY SelfTag DEF Inv, CoreInv, TableAgrees
<1>2. "lru" \in Kind /\ "lru" # "in_use"
  BY DEF Kind
<1>3. ref(self, e) \/ lru_refresh(self, e) \/ list' = list
  BY DEF lookup_refresh
<1> QED BY <1>1, <1>2, <1>3, RefMoves DEF MovesTouched, lru_refresh

LEMMA InsertMoves ==
  ASSUME Inv, NEW k \in Key, NEW pin \in BOOLEAN, Insert(k, pin)
  PROVE  MovesTouched
<1>1. PICK r \in Node \cup {Nil} : insert_impl(self, k, pin, r) /\ Returns("insert", r)
  BY DEF Insert
<1>2. ret'.node = r
  BY <1>1 DEF Returns
<1>3. CASE r = table[k] /\ r # Nil /\ lookup_refresh(self, r, pin)
  BY <1>1, <1>2, <1>3, HitMoves DEF Touched
<1>4. CASE table[k] = Nil /\ insert_new(self, k, pin, r)
  <2>1. self \in Tag /\ CoreTypeOK /\ CoreInv /\ "lru" \in Kind /\ "in_use" \in Kind /\ "free" \in Kind
    BY SelfTag DEF Inv, TypeOK, Kind
  <2>2. r \in On(self, "free") \cup On(self, "lru")
    BY <1>4, <2>1, InsertKeeps
  <2>3. r \in Node
    BY <2>1, <2>2, OnNodes
  <2>4. r \notin On(self, "in_use")
    BY <2>1, <2>2, OnUnique DEF CoreInv, OneList
  <2>5. list' = move(list, <<self, IF pin THEN "in_use" ELSE "lru">>, r)
    BY <1>4 DEF insert_new
  <2>6. r \in Touched
    BY <1>2, <2>3 DEF Touched
  <2> QED BY <2>1, <2>4, <2>5, <2>6 DEF MovesTouched
<1>5. CASE alloc_fails(self, r)
  BY <1>5 DEF MovesTouched, alloc_fails, coreVars
<1> QED BY <1>1, <1>3, <1>4, <1>5 DEF insert_impl

LEMMA LookupMoves ==
  ASSUME Inv, NEW k \in Key, NEW pin \in BOOLEAN, LookupKey(k, pin)
  PROVE  MovesTouched
<1>1. PICK r \in Node \cup {Nil} : lookup_impl(self, k, pin, r) /\ Returns("lookup", r)
  BY DEF LookupKey
<1>2. ret'.node = r
  BY <1>1 DEF Returns
<1>3. CASE r = table[k] /\ r # Nil /\ lookup_refresh(self, r, pin)
  BY <1>1, <1>2, <1>3, HitMoves DEF Touched
<1>4. CASE UNCHANGED coreVars
  BY <1>4 DEF MovesTouched, coreVars
<1> QED BY <1>1, <1>3, <1>4 DEF lookup_impl

LEMMA OtherMoves ==
  ASSUME Inv
  PROVE  /\ \A k \in Key : Install(k) => MovesTouched
         /\ \A e \in Node : Release(e) \/ Pin(e) \/ Erase(e) => MovesTouched
<1>0. self \in Tag /\ Kind = {"lru", "in_use", "free", "erased"} /\ CoreTypeOK /\ CoreInv
  BY SelfTag DEF Inv, TypeOK, Kind
<1>1. ASSUME NEW k \in Key, Install(k) PROVE MovesTouched
  <2>1. PICK r \in Node : install_impl(self, k, r) /\ Returns("install", r)
    BY <1>1 DEF Install
  <2>2. r \in Touched
    BY <2>1 DEF Touched, Returns
  <2>3. list' = move(list, <<self, "lru">>, r)
    BY <2>1 DEF install_impl
  <2> QED BY <1>0, <2>2, <2>3 DEF MovesTouched
<1>2. ASSUME NEW e \in Node, Release(e) PROVE MovesTouched
  <2>1. pins[e] \in Nat /\ pins[e] > 0 /\ pins' = [pins EXCEPT ![e] = pins[e] - 1] /\ unref(self, e)
    BY <1>2 DEF Release, release_handle, Inv, TypeOK
  <2>2. e \in Touched
    <3>1. pins'[e] = pins[e] - 1
      BY <2>1 DEF Inv, TypeOK
    <3> QED BY <2>1, <3>1 DEF Touched
  <2>3. refs[e] # 1
    <3>1. refs[e] \in Nat /\ (pins[e] = refs[e] - 1 \/ pins[e] = 0)
      BY DEF Inv, TypeOK, CoreTypeOK, PinsCounted
    <3> QED BY <2>1, <3>1
  <2>4. list' = move(list, <<self, "lru">>, e) \/ list' = list
    BY <2>1, <2>3 DEF unref
  <2> QED BY <1>0, <2>2, <2>4 DEF MovesTouched
<1>3. ASSUME NEW e \in Node, Pin(e) PROVE MovesTouched
  <2>1. e \in Resident(self) /\ ref(self, e) /\ pins' = [pins EXCEPT ![e] = pins[e] + 1]
    BY <1>3 DEF Pin, pin_handle
  <2>2. e \in Touched
    <3>1. pins'[e] = pins[e] + 1 /\ pins[e] \in Nat
      BY <2>1 DEF Inv, TypeOK
    <3> QED BY <3>1 DEF Touched
  <2> QED BY <2>1, <2>2, RefMoves
<1>4. ASSUME NEW e \in Node, Erase(e) PROVE MovesTouched
  <2>1. PICK ok \in BOOLEAN : erase_handle(self, e, ok) /\ Returns("erase", IF ok THEN e ELSE Nil)
    BY <1>4 DEF Erase
  <2>2. CASE ok
    <3>1. e \in Touched
      BY <2>1, <2>2 DEF Touched, Returns
    <3>2. list' = move(list, <<self, "erased">>, e)
      BY <2>1, <2>2 DEF erase_handle
    <3> QED BY <1>0, <3>1, <3>2 DEF MovesTouched
  <2>3. CASE ~ok
    BY <2>1, <2>3 DEF MovesTouched, erase_handle, coreVars
  <2> QED BY <2>2, <2>3
<1> QED BY <1>1, <1>2, <1>3, <1>4

LEMMA CallMoves == Inv /\ Next => MovesTouched
BY InsertMoves, LookupMoves, OtherMoves DEF Next

(* What is before what on the way, in terms of the lists.                  *)
Precedes(w, L, x, y) ==
  IF w = "for_each" /\ L = "lru"
  THEN \/ Before(list[<<self, "lru">>], x, y) \/ Before(list[<<self, "in_use">>], x, y)
       \/ x \in On(self, "lru") /\ y \in On(self, "in_use")
  ELSE IF w \in MruWalks THEN Before(list[<<self, L>>], y, x)
                         ELSE Before(list[<<self, L>>], x, y)

LEMMA WayOrder ==
  Inv => \A w : \A L \in WalkList : \A x, y : Before(Way(w, L), x, y) <=> Precedes(w, L, x, y)
<1> SUFFICES ASSUME Inv, NEW w, NEW L \in WalkList, NEW x, NEW y
             PROVE  Before(Way(w, L), x, y) <=> Precedes(w, L, x, y)
  OBVIOUS
<1>1. CASE w = "for_each" /\ L = "lru"
  BY <1>1, WayIs DEF Precedes, lru, in_use
<1>2. CASE ~(w = "for_each" /\ L = "lru")
  <2>1. Way(w, L) = Nodes(w, L)
    BY <1>2 DEF Way
  <2> QED BY <1>2, <2>1, NodesAre DEF Precedes
<1> QED BY <1>1, <1>2

LEMMA WayOrderNext ==
  Inv' => (\A w : \A L \in WalkList : \A x, y : Before(Way(w, L), x, y) <=> Precedes(w, L, x, y))'
BY WayOrder, PTL

OrderedOn ==
  \A L \in WalkList : \A x, y : Before(list[<<self, L>>], x, y) => x \in On(self, L) /\ y \in On(self, L)

LEMMA OrderedNodes == Inv => OrderedOn
BY OrderOn DEF OrderedOn

LEMMA OrderedNext == Inv' => OrderedOn'
BY OrderedNodes, PTL

(* A call that moves e leaves the order of the other nodes as it was.      *)
LEMMA OthersKeepOrder ==
  ASSUME Inv, NEW e \in Node, NEW M \in Kind, list' = move(list, <<self, M>>, e),
         NEW L \in WalkList
  PROVE  /\ \A x : x # e => (x \in On(self, L)' <=> x \in On(self, L))
         /\ \A x, y : x # e /\ y # e =>
              (Before(list'[<<self, L>>], x, y) <=> Before(list[<<self, L>>], x, y))
         /\ \A x : ~Before(list'[<<self, L>>], e, x)
         /\ L # M => e \notin On(self, L)'
<1> DEFINE s == list[<<self, L>>]
           r == RemoveFirst(s, e)
           t == list'[<<self, L>>]
<1>1. self \in Tag /\ L \in Kind /\ CoreTypeOK /\ CoreInv
  BY SelfTag DEF WalkList, Kind, Inv, TypeOK
<1>2. s \in Seq(Node) /\ Inj(s) /\ On(self, L) = Range(s) /\ On(self, L)' = Range(t)
  BY <1>1, ListIs DEF On
<1>3. t = IF L = M THEN Append(r, e) ELSE r
  BY <1>1, MoveLists
<1> HIDE DEF s, t
<1>4. r \in Seq(Node) /\ Inj(r) /\ Range(r) = Range(s) \ {e}
  <2>1. s \in Seq(Node) /\ Inj(s)
    BY <1>2
  <2> QED BY <2>1, RemoveFirstProps
<1>5. \A x, y : Before(r, x, y) <=> Before(s, x, y) /\ x # e /\ y # e
  BY <1>2, RemoveOrder
<1>6. /\ Range(Append(r, e)) = Range(r) \cup {e}
      /\ \A x, y : Before(Append(r, e), x, y) <=> Before(r, x, y) \/ (x \in Range(r) /\ y = e)
  BY <1>4, AppendProps, AppendOrder
<1> HIDE DEF r
<1>7. e \notin Range(r) /\ \A x : x # e => (x \in Range(r) <=> x \in Range(s))
  BY <1>4
<1>8. \A x : ~Before(r, e, x) /\ ~Before(Append(r, e), e, x)
  BY <1>5, <1>6, <1>7
<1>9. CASE L = M
  <2>1. t = Append(r, e)
    BY <1>3, <1>9
  <2>2. \A x : x # e => (x \in Range(t) <=> x \in Range(s))
    BY <1>6, <1>7, <2>1
  <2>3. \A x, y : x # e /\ y # e => (Before(t, x, y) <=> Before(s, x, y))
    BY <1>5, <1>6, <2>1
  <2> QED BY <1>2, <1>9, <1>8, <2>1, <2>2, <2>3 DEF s, t
<1>10. CASE L # M
  BY <1>2, <1>3, <1>4, <1>5, <1>10 DEF s, t
<1> QED BY <1>9, <1>10

LEMMA WayKept ==
  ASSUME Inv, Inv', NEW e \in Node, NEW M \in Kind, list' = move(list, <<self, M>>, e),
         NEW w, NEW L \in WalkList
  PROVE  /\ \A x, y : x # e /\ y # e =>
              (Before(Way(w, L)', x, y) <=> Before(Way(w, L), x, y))
         /\ w # "for_each" => \A x : Before(Way(w, L)', x, e) =>
              w \notin MruWalks /\ L = M /\ e \in On(self, L)'
<1>1. "lru" \in WalkList /\ "in_use" \in WalkList
  BY DEF WalkList
<1>2. ASSUME NEW K \in WalkList
      PROVE  /\ \A x : x # e => (x \in On(self, K)' <=> x \in On(self, K))
             /\ \A x, y : x # e /\ y # e =>
                  (Before(list'[<<self, K>>], x, y) <=> Before(list[<<self, K>>], x, y))
             /\ \A x : ~Before(list'[<<self, K>>], e, x)
             /\ K # M => e \notin On(self, K)'
  BY OthersKeepOrder
<1>3. \A x, y : Before(Way(w, L), x, y) <=> Precedes(w, L, x, y)
  BY WayOrder
<1>4. \A x, y : Before(Way(w, L)', x, y) <=> Precedes(w, L, x, y)'
  BY WayOrderNext
<1>5. ASSUME NEW x, NEW y, x # e, y # e
      PROVE  Precedes(w, L, x, y)' <=> Precedes(w, L, x, y)
  BY <1>1, <1>2, <1>5 DEF Precedes
<1>6. ASSUME w # "for_each", NEW x, Before(Way(w, L)', x, e)
      PROVE  w \notin MruWalks /\ L = M /\ e \in On(self, L)'
  <2>1. IF w \in MruWalks THEN Before(list'[<<self, L>>], e, x) ELSE Before(list'[<<self, L>>], x, e)
    BY <1>4, <1>6 DEF Precedes
  <2>2. w \notin MruWalks /\ Before(list'[<<self, L>>], x, e)
    BY <1>2, <2>1
  <2>3. e \in On(self, L)'
    BY <2>2, OrderedNext DEF OrderedOn
  <2> QED BY <1>2, <2>2, <2>3
<1> QED BY <1>3, <1>4, <1>5, <1>6

(* fn calls a function of the cache.                                       *)
LEMMA CallbackInv ==
  ASSUME Inv, Inv', WalkInv, ByCallback
  PROVE  WalkInv'
<1> PICK w, L, e0 : w = walk /\ L = kind /\ e0 = h
  OBVIOUS
<1>1. /\ w # "none" /\ e0 \notin Touched
      /\ w \notin MruWalks =>
           \A e \in Touched \cap On(self, L)' : L = "in_use" /\ e \in On(self, L)
      /\ stayed' = stayed \ Touched
      /\ walk' = w /\ kind' = L /\ h' = e0 /\ start' = start /\ seen' = seen /\ again' = again
      /\ MovesTouched
  BY CallMoves DEF ByCallback, On
<1>2. /\ seen \in Seq(Node) /\ again \cap stayed = {}
      /\ Walking(w, L) /\ e0 \in On(self, L)
      /\ MetInOrder(Way(w, L), e0, seen, start, stayed)
      /\ w # "for_each" => again = {} /\ NewAhead(Way(w, L), e0, seen)
  BY <1>1 DEF WalkInv
<1>3. L \in WalkList
  BY <1>2 DEF Walking
<1> DEFINE s == Way(w, L)
           t == Way(w, L)'
<1>4. /\ e0 \in On(self, L)'
      /\ \A x, y : x \notin Touched /\ y \notin Touched => (Before(t, x, y) <=> Before(s, x, y))
      /\ w # "for_each" => \A x : Before(t, e0, x) => Before(s, e0, x)
  <2>1. CASE list' = list
    BY <1>2, <2>1, SameLists
  <2>2. ASSUME NEW e \in Touched, NEW M \in Kind, list' = move(list, <<self, M>>, e),
               M = "in_use" => e \notin On(self, "in_use")
        PROVE  /\ e0 \in On(self, L)'
               /\ \A x, y : x \notin Touched /\ y \notin Touched => (Before(t, x, y) <=> Before(s, x, y))
               /\ w # "for_each" => \A x : Before(t, e0, x) => Before(s, e0, x)
    <3>1. e \in Node /\ e # e0 /\ \A x : x \notin Touched => x # e
      BY <1>1 DEF Touched
    <3>2. e0 \in On(self, L)'
      BY <1>2, <1>3, <2>2, <3>1, OthersKeepOrder
    <3>3. /\ \A x, y : x # e /\ y # e => (Before(t, x, y) <=> Before(s, x, y))
          /\ w # "for_each" => \A x : Before(t, x, e) => w \notin MruWalks /\ L = M /\ e \in On(self, L)'
      BY <1>3, <2>2, <3>1, WayKept
    <3> HIDE DEF s, t
    <3>4. ASSUME w # "for_each", NEW x, Before(t, e0, x) PROVE Before(s, e0, x)
      <4>1. CASE x = e
        <5>1. w \notin MruWalks /\ L = M /\ e \in On(self, L)'
          BY <3>3, <3>4, <4>1
        <5>2. L = "in_use" /\ e \in On(self, L)
          BY <1>1, <2>2, <5>1
        <5> QED BY <2>2, <5>1, <5>2
      <4>2. CASE x # e
        BY <3>1, <3>3, <3>4, <4>2
      <4> QED BY <4>1, <4>2
    <3> QED BY <3>1, <3>2, <3>3, <3>4
  <2> QED BY <1>1, <2>1, <2>2 DEF MovesTouched
<1>5. Way(walk, kind)' = t /\ On(self, kind)' = On(self, L)'
  BY <1>1 DEF Way, Nodes, lru, in_use, On
<1> HIDE DEF s, t
<1>6. MetInOrder(t, e0, seen, start, stayed \ Touched)
  <2>1. MetInOrder(s, e0, seen, start, stayed)
    BY <1>2 DEF s
  <2> QED BY <1>1, <1>4, <2>1 DEF MetInOrder
<1>7. w # "for_each" => again = {} /\ NewAhead(t, e0, seen)
  <2>1. w # "for_each" => again = {} /\ NewAhead(s, e0, seen)
    BY <1>2 DEF s
  <2> QED BY <1>4, <2>1 DEF NewAhead
<1> QED BY <1>1, <1>2, <1>4, <1>5, <1>6, <1>7 DEF WalkInv

-----------------------------------------------------------------------------
LEMMA WalkInitInv == WalkInit => WalkInv
<1> SUFFICES ASSUME WalkInit PROVE WalkInv
  OBVIOUS
<1>1. <<>> \in Seq(Node)
  BY EmptySeq
<1> QED BY <1>1 DEF WalkInit, WalkInv

LEMMA WalkSteps == [WalkNext]_allVars => [Next]_vars
BY DEF WalkNext, allVars, ByClient, ByCallback, FnReturns, FnStops, Begin

LEMMA WalkNextInv ==
  ASSUME Inv, Inv', WalkInv, [WalkNext]_allVars
  PROVE  WalkInv'
<1>1. CASE ByClient
  BY <1>1 DEF ByClient, walkVars, WalkInv
<1>2. CASE ByCallback
  BY <1>2, CallbackInv
<1>3. CASE FnReturns
  BY <1>3, ReturnsInv
<1>4. CASE FnStops
  BY <1>4, StopsInv
<1>5. ASSUME NEW w \in Walks, Begin(w) PROVE WalkInv'
  BY <1>5, BeginInv
<1>6. CASE UNCHANGED allVars
  <2>1. UNCHANGED <<list, walkVars>>
    BY <1>6 DEF allVars, vars, coreVars
  <2>2. Way(walk, kind)' = Way(walk, kind) /\ On(self, kind)' = On(self, kind)
    BY <2>1 DEF walkVars, Way, Nodes, lru, in_use, On
  <2> QED BY <2>1, <2>2 DEF walkVars, WalkInv
<1> QED BY <1>1, <1>2, <1>3, <1>4, <1>5, <1>6 DEF WalkNext

(* The invariant of the cache holds while it is being walked.              *)
THEOREM CacheInvariance == WalkSpec => []Inv
<1>1. WalkInit => Inv
  BY InitInv DEF WalkInit
<1>2. Inv /\ [WalkNext]_allVars => Inv'
  BY WalkSteps, NextInv
<1> QED BY <1>1, <1>2, PTL DEF WalkSpec

(* The invariant of the walks: of the nodes no call touched since the walk *)
(* began, those fn has not been called with are the ones ahead of h, and   *)
(* in the order promised.                                                  *)
THEOREM WalkInvariance == WalkSpec => []WalkInv
<1>1. WalkInit => WalkInv
  BY WalkInitInv
<1>2. Inv /\ Inv' /\ WalkInv /\ [WalkNext]_allVars => WalkInv'
  BY WalkNextInv
<1> QED BY <1>1, <1>2, CacheInvariance, PTL DEF WalkSpec

(* fn is called once with a node it leaves alone, and with no node twice   *)
(* except in the two loops of for_each.                                    *)
THEOREM EachNodeOnce == WalkSpec => []VisitsOnce
<1>1. WalkInv => VisitsOnce
  BY DEF WalkInv, VisitsOnce
<1> QED BY <1>1, WalkInvariance, PTL

(* What VisitsInOrder says of a step.                                      *)
EndsInOrder ==
  walk # "none" /\ walk' = "none" =>
    /\ walk \notin UntilWalks \/ FnReturns => stayed \subseteq Range(seen)
    /\ \A y \in stayed : y \in Range(seen) \/ InOrder(Nodes(walk, kind), h, y)
    /\ \A x, y \in stayed :
         InOrder(start, x, y) /\ y \in Range(seen) => InOrder(seen, x, y)

LEMMA EndStep == Inv /\ WalkInv /\ [WalkNext]_allVars => EndsInOrder
<1> SUFFICES ASSUME Inv, WalkInv, [WalkNext]_allVars, walk # "none", walk' = "none"
             PROVE  EndsInOrder
  BY DEF EndsInOrder
<1>1. MetInOrder(Way(walk, kind), h, seen, start, stayed)
  BY DEF WalkInv
<1>2. \A s, x, y : InOrder(s, x, y) <=> Before(s, x, y)
  BY DEF InOrder, Before
<1>3. ASSUME walk \notin UntilWalks \/ FnReturns PROVE stayed \subseteq Range(seen)
  <2>1. FnReturns
    <3>1. ~ByClient /\ ~ByCallback /\ walk' # walk /\ \A w \in Walks : ~Begin(w)
      BY DEF ByClient, ByCallback, Begin
    <3>2. walk \notin UntilWalks => ~FnStops
      BY DEF FnStops
    <3> QED BY <1>3, <3>1, <3>2 DEF WalkNext, allVars, walkVars
  <2>2. \A x : ~Before(Way(walk, kind), h, x)
    BY <2>1, ReturnsInv
  <2> QED BY <1>1, <2>2 DEF MetInOrder
<1>4. ASSUME NEW y \in stayed, y \notin Range(seen) PROVE InOrder(Nodes(walk, kind), h, y)
  <2>1. walk \in UntilWalks
    BY <1>3, <1>4
  <2>2. Way(walk, kind) = Nodes(walk, kind)
    BY <2>1 DEF Way, UntilWalks
  <2> QED BY <1>1, <1>2, <1>4, <2>2 DEF MetInOrder
<1>5. \A x, y \in stayed : Before(start, x, y) /\ y \in Range(seen) => Before(seen, x, y)
  BY <1>1 DEF MetInOrder
<1> QED BY <1>2, <1>3, <1>4, <1>5 DEF EndsInOrder

(* Whatever fn did to other nodes on the way, when the loop of a walk ends *)
(* fn was called with every node it left alone; when fn stopped the walk,  *)
(* with all of them but those still ahead; and in the order promised.      *)
THEOREM NodesInOrder == WalkSpec => VisitsInOrder
<1> DEFINE A == EndsInOrder
<1>1. Inv /\ WalkInv /\ [WalkNext]_allVars => [A]_allVars
  BY EndStep
<1>2. [][A]_allVars => VisitsInOrder
  BY DEF VisitsInOrder, EndsInOrder
<1> HIDE DEF A
<1>3. WalkSpec => [][A]_allVars
  BY <1>1, CacheInvariance, WalkInvariance, PTL DEF WalkSpec
<1> QED BY <1>2, <1>3

=============================================================================
