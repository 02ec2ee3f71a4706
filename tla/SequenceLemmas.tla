--------------------------- MODULE SequenceLemmas ---------------------------
(***************************************************************************)
(* What the proofs need of the data the models are made of:                *)
(*  - sequences without duplicates, as the lists of the caches are;        *)
(*  - induction over the natural numbers and over finite sets;             *)
(*  - sums over a finite domain.                                           *)
(***************************************************************************)
EXTENDS Integers, SequencesExt, SequenceTheorems, FiniteSetTheorems, TLAPS

Inj(s) == \A i, j \in 1..Len(s) : s[i] = s[j] => i = j

(* Removing a position closes the gap.                                     *)
LEMMA RemoveAtProps ==
  ASSUME NEW S, NEW s \in Seq(S), NEW i \in 1..Len(s)
  PROVE  /\ RemoveAt(s, i) \in Seq(S)
         /\ Len(RemoveAt(s, i)) = Len(s) - 1
         /\ \A j \in 1..(Len(s) - 1) :
              RemoveAt(s, i)[j] = IF j < i THEN s[j] ELSE s[j + 1]
<1> DEFINE a == SubSeq(s, 1, i - 1)
           b == SubSeq(s, i + 1, Len(s))
<1>0. Len(s) \in Nat /\ i \in Nat /\ i - 1 \in Int /\ i + 1 \in Int /\ Len(s) \in Int
  OBVIOUS
<1>1. \A j \in 1..Len(s) : s[j] \in S
  OBVIOUS
<1>2. /\ a \in Seq(S)
      /\ Len(a) = i - 1
      /\ \A j \in 1..(i - 1) : a[j] = s[j]
  <2>1. \A j \in 1..(i - 1) : s[j] \in S
    BY <1>0, <1>1
  <2>2. /\ a \in Seq(S)
        /\ Len(a) = IF 1 <= i - 1 THEN (i - 1) - 1 + 1 ELSE 0
        /\ \A j \in 1..((i - 1) - 1 + 1) : a[j] = s[1 + j - 1]
    BY <1>0, <2>1, SubSeqProperties
  <2> HIDE DEF a
  <2> QED BY <2>2, <1>0
<1>3. /\ b \in Seq(S)
      /\ Len(b) = Len(s) - i
      /\ \A j \in 1..(Len(s) - i) : b[j] = s[i + j]
  <2>1. \A j \in (i + 1)..Len(s) : s[j] \in S
    BY <1>0, <1>1
  <2>2. /\ b \in Seq(S)
        /\ Len(b) = IF i + 1 <= Len(s) THEN Len(s) - (i + 1) + 1 ELSE 0
        /\ \A j \in 1..(Len(s) - (i + 1) + 1) : b[j] = s[(i + 1) + j - 1]
    BY <1>0, <2>1, SubSeqProperties
  <2> HIDE DEF b
  <2> QED BY SMTT(60), <2>2, <1>0
<1>4. RemoveAt(s, i) = a \o b
  BY DEF RemoveAt
<1> HIDE DEF a, b
<1>5. /\ a \o b \in Seq(S)
      /\ Len(a \o b) = Len(a) + Len(b)
      /\ \A j \in 1..(Len(a) + Len(b)) :
           (a \o b)[j] = IF j <= Len(a) THEN a[j] ELSE b[j - Len(a)]
  BY <1>2, <1>3, ConcatProperties
<1> QED
  BY SMTT(60), <1>0, <1>2, <1>3, <1>4, <1>5

(* list_remove takes the node out of its list and leaves the others there. *)
LEMMA RemoveFirstProps ==
  ASSUME NEW S, NEW s \in Seq(S), Inj(s), NEW e
  PROVE  /\ RemoveFirst(s, e) \in Seq(S)
         /\ Inj(RemoveFirst(s, e))
         /\ Range(RemoveFirst(s, e)) = Range(s) \ {e}
         /\ Len(RemoveFirst(s, e)) = IF e \in Range(s) THEN Len(s) - 1 ELSE Len(s)
<1> DEFINE r == RemoveFirst(s, e)
<1>1. Range(s) = {s[i] : i \in 1..Len(s)}
  BY RangeEquality
<1>2. CASE \A i \in 1..Len(s) : s[i] # e
  BY <1>1, <1>2 DEF RemoveFirst
<1>3. CASE \E i \in 1..Len(s) : s[i] = e
  <2>1. PICK i \in 1..Len(s) : s[i] = e
    BY <1>3
  <2>2. {j \in 1..Len(s) : s[j] = e} = {i}
    BY <2>1 DEF Inj
  <2>3. SelectInSeq(s, LAMBDA v : v = e) = Min({i})
    BY <2>2 DEF SelectInSeq
  <2>4. Min({i}) = i
    BY DEF Min
  <2>5. r = RemoveAt(s, i)
    BY <1>3, <2>3, <2>4 DEF RemoveFirst
  <2>6. /\ r \in Seq(S)
        /\ Len(r) = Len(s) - 1
        /\ \A j \in 1..(Len(s) - 1) : r[j] = IF j < i THEN s[j] ELSE s[j + 1]
    BY <2>5, RemoveAtProps
  <2> HIDE DEF r
  <2>7. Inj(r)
    <3>1. SUFFICES ASSUME NEW j \in 1..Len(r), NEW m \in 1..Len(r), r[j] = r[m]
                   PROVE  j = m
      BY DEF Inj
    <3>2. /\ (IF j < i THEN j ELSE j + 1) \in 1..Len(s)
          /\ (IF m < i THEN m ELSE m + 1) \in 1..Len(s)
          /\ s[IF j < i THEN j ELSE j + 1] = s[IF m < i THEN m ELSE m + 1]
      BY <3>1, <2>6
    <3>3. (IF j < i THEN j ELSE j + 1) = (IF m < i THEN m ELSE m + 1)
      BY <3>2 DEF Inj
    <3> QED BY <3>3, <2>6
  <2>8. Range(r) = {r[j] : j \in 1..Len(r)}
    BY <2>6, RangeEquality
  <2>9. ASSUME NEW x \in Range(r) PROVE x \in Range(s) \ {e}
    <3>1. PICK j \in 1..Len(r) : x = r[j]
      BY <2>8
    <3>2. CASE j < i
      BY <3>1, <3>2, <2>1, <2>6, <1>1 DEF Inj
    <3>3. CASE ~(j < i)
      BY <3>1, <3>3, <2>1, <2>6, <1>1 DEF Inj
    <3> QED BY <3>2, <3>3
  <2>10. ASSUME NEW x \in Range(s) \ {e} PROVE x \in Range(r)
    <3>1. PICK j \in 1..Len(s) : x = s[j]
      BY <1>1
    <3>2. j # i
      BY <3>1, <2>1
    <3>3. CASE j < i
      <4>1. j \in 1..Len(r) /\ r[j] = x
        BY <3>1, <3>3, <2>6
      <4> QED BY <4>1, <2>8
    <3>4. CASE j > i
      <4>1. j - 1 \in 1..Len(r) /\ r[j - 1] = x
        BY <3>1, <3>4, <2>6
      <4> QED BY <4>1, <2>8
    <3> QED BY <3>2, <3>3, <3>4
  <2>11. e \in Range(s)
    BY <2>1, <1>1
  <2> QED
    BY <2>6, <2>7, <2>9, <2>10, <2>11 DEF r
<1> QED
  BY <1>2, <1>3

(* list_append adds a node that was on no list.                            *)
LEMMA AppendProps ==
  ASSUME NEW S, NEW s \in Seq(S), Inj(s), NEW e \in S, e \notin Range(s)
  PROVE  /\ Append(s, e) \in Seq(S)
         /\ Inj(Append(s, e))
         /\ Range(Append(s, e)) = Range(s) \cup {e}
         /\ Len(Append(s, e)) = Len(s) + 1
<1> DEFINE a == Append(s, e)
<1>1. Range(s) = {s[i] : i \in 1..Len(s)}
  BY RangeEquality
<1>2. /\ a \in Seq(S)
      /\ Len(a) = Len(s) + 1
      /\ \A i \in 1..Len(s) : a[i] = s[i]
      /\ a[Len(s) + 1] = e
  BY AppendProperties
<1> HIDE DEF a
<1>3. Range(a) = {a[i] : i \in 1..Len(a)}
  BY <1>2, RangeEquality
<1>4. Inj(a)
  BY <1>1, <1>2 DEF Inj
<1>5. Range(a) = Range(s) \cup {e}
  <2>1. ASSUME NEW x \in Range(a) PROVE x \in Range(s) \cup {e}
    BY <1>1, <1>2, <1>3
  <2>2. ASSUME NEW x \in Range(s) PROVE x \in Range(a)
    <3>1. PICK i \in 1..Len(s) : x = s[i]
      BY <1>1
    <3>2. i \in 1..Len(a) /\ a[i] = x
      BY <3>1, <1>2
    <3> QED BY <3>2, <1>3
  <2>3. e \in Range(a)
    BY <1>2, <1>3
  <2> QED BY <2>1, <2>2, <2>3
<1> QED
  BY <1>2, <1>4, <1>5 DEF a

(* push_front adds an element that was not in the list.                    *)
LEMMA PushFrontProps ==
  ASSUME NEW S, NEW s \in Seq(S), Inj(s), NEW e \in S, e \notin Range(s)
  PROVE  /\ <<e>> \o s \in Seq(S)
         /\ Inj(<<e>> \o s)
         /\ Range(<<e>> \o s) = Range(s) \cup {e}
         /\ Len(<<e>> \o s) = Len(s) + 1
<1> DEFINE a == <<e>> \o s
<1>1. Range(s) = {s[i] : i \in 1..Len(s)}
  BY RangeEquality
<1>2. /\ a \in Seq(S)
      /\ Len(a) = Len(s) + 1
      /\ \A i \in 1..Len(a) : a[i] = IF i = 1 THEN e ELSE s[i - 1]
  <2>1. <<e>> \in Seq(S) /\ Len(<<e>>) = 1 /\ <<e>>[1] = e
    OBVIOUS
  <2>2. /\ a \in Seq(S)
        /\ Len(a) = 1 + Len(s)
        /\ \A i \in 1..(1 + Len(s)) : a[i] = IF i <= 1 THEN <<e>>[i] ELSE s[i - 1]
    BY <2>1, ConcatProperties
  <2> HIDE DEF a
  <2> QED BY <2>1, <2>2
<1> HIDE DEF a
<1>3. Range(a) = {a[i] : i \in 1..Len(a)}
  BY <1>2, RangeEquality
<1>4. Inj(a)
  <2>1. SUFFICES ASSUME NEW i \in 1..Len(a), NEW j \in 1..Len(a), a[i] = a[j]
                 PROVE  i = j
    BY DEF Inj
  <2>2. \A n \in 1..Len(a) : n # 1 => n - 1 \in 1..Len(s) /\ a[n] = s[n - 1] /\ a[n] # e
    BY <1>1, <1>2
  <2>3. CASE i = 1 \/ j = 1
    BY <2>1, <2>2, <2>3, <1>2
  <2>4. CASE i # 1 /\ j # 1
    <3>1. i - 1 = j - 1
      BY <2>1, <2>2, <2>4 DEF Inj
    <3> QED BY <3>1
  <2> QED BY <2>3, <2>4
<1>5. Range(a) = Range(s) \cup {e}
  <2>1. ASSUME NEW x \in Range(a) PROVE x \in Range(s) \cup {e}
    BY <1>1, <1>2, <1>3
  <2>2. ASSUME NEW x \in Range(s) PROVE x \in Range(a)
    <3>1. PICK i \in 1..Len(s) : x = s[i]
      BY <1>1
    <3>2. i + 1 \in 1..Len(a) /\ a[i + 1] = x
      BY <3>1, <1>2
    <3> QED BY <3>2, <1>3
  <2>3. e \in Range(a)
    BY <1>2, <1>3
  <2> QED BY <2>1, <2>2, <2>3
<1> QED
  BY <1>2, <1>4, <1>5 DEF a

(* pop_back takes the last element, and only it, out of the list.          *)
LEMMA PopBackProps ==
  ASSUME NEW S, NEW s \in Seq(S), Inj(s), s # <<>>
  PROVE  /\ Front(s) \in Seq(S)
         /\ Inj(Front(s))
         /\ Last(s) \in Range(s) /\ Last(s) \in S
         /\ Range(Front(s)) = Range(s) \ {Last(s)}
         /\ Len(Front(s)) = Len(s) - 1
<1> DEFINE a == Front(s)
<1>1. Range(s) = {s[i] : i \in 1..Len(s)}
  BY RangeEquality
<1>0. Len(s) \in Nat /\ Len(s) >= 1
  BY EmptySeq
<1>2. Len(s) \in Nat /\ Len(s) >= 1 /\ \A i \in 1..Len(s) : s[i] \in S
  BY EmptySeq
<1>3. Last(s) = s[Len(s)]
  BY DEF Last
<1>4. /\ a \in Seq(S)
      /\ Len(a) = Len(s) - 1
      /\ \A i \in 1..Len(a) : a[i] = s[i]
  <2>1. a = SubSeq(s, 1, Len(s) - 1)
    BY DEF Front
  <2>2. \A i \in 1..(Len(s) - 1) : s[i] \in S
    BY <1>2
  <2>3. /\ a \in Seq(S)
        /\ Len(a) = IF 1 <= Len(s) - 1 THEN (Len(s) - 1) - 1 + 1 ELSE 0
        /\ \A i \in 1..((Len(s) - 1) - 1 + 1) : a[i] = s[1 + i - 1]
    BY <1>2, <2>1, <2>2, SubSeqProperties
  <2> HIDE DEF a
  <2>4. Len(a) = Len(s) - 1
    <3> DEFINE n == Len(s)  m == Len(a)
    <3>1. n \in Nat /\ n >= 1
      BY <1>0
    <3>2. m = IF 1 <= n - 1 THEN (n - 1) - 1 + 1 ELSE 0
      BY <2>3
    <3> HIDE DEF n, m
    <3>3. m = n - 1
      BY <3>1, <3>2
    <3> QED BY <3>3 DEF n, m
  <2>5. \A i \in 1..Len(a) : a[i] = s[i]
    BY <2>3, <2>4, <1>2
  <2> QED BY <2>3, <2>4, <2>5
<1> HIDE DEF a
<1>5. Range(a) = {a[i] : i \in 1..Len(a)}
  BY <1>4, RangeEquality
<1>6. Inj(a)
  BY <1>2, <1>4 DEF Inj
<1>7. Last(s) \in Range(s) /\ Last(s) \in S
  BY <1>1, <1>2, <1>3
<1>8. ASSUME NEW x \in Range(a) PROVE x \in Range(s) \ {Last(s)}
  <2>1. PICK i \in 1..Len(a) : x = a[i]
    BY <1>5
  <2>2. i \in 1..Len(s) /\ i # Len(s) /\ x = s[i]
    BY <2>1, <1>2, <1>4
  <2> QED BY <2>2, <1>1, <1>2, <1>3 DEF Inj
<1>9. ASSUME NEW x \in Range(s) \ {Last(s)} PROVE x \in Range(a)
  <2>1. PICK i \in 1..Len(s) : x = s[i]
    BY <1>1
  <2>2. i \in 1..Len(a) /\ x = a[i]
    BY <2>1, <1>2, <1>3, <1>4
  <2> QED BY <2>2, <1>5
<1> QED
  BY <1>4, <1>6, <1>7, <1>8, <1>9 DEF a

(* A list has an element exactly if it is not empty.                       *)
LEMMA EmptyRange ==
  ASSUME NEW S, NEW s \in Seq(S)
  PROVE  /\ Len(s) \in Nat
         /\ s = <<>> <=> Len(s) = 0
         /\ \A e : e \in Range(s) => Len(s) > 0 /\ e \in S
<1>1. Range(s) = {s[i] : i \in 1..Len(s)}
  BY RangeEquality
<1> QED
  BY <1>1, EmptySeq

(* IsInjective of the community modules says the same.                     *)
LEMMA InjectiveLists ==
  ASSUME NEW S, NEW s \in Seq(S)
  PROVE  IsInjective(s) <=> Inj(s)
BY DEF IsInjective, Inj
-----------------------------------------------------------------------------
(* The order of a list.                                                    *)
Before(s, x, y) == \E i, j \in 1..Len(s) : i < j /\ s[i] = x /\ s[j] = y

LEMMA RemoveFirstIs ==
  ASSUME NEW S, NEW s \in Seq(S), Inj(s), NEW e
  PROVE  /\ e \notin Range(s) => RemoveFirst(s, e) = s
         /\ \A i \in 1..Len(s) : s[i] = e => RemoveFirst(s, e) = RemoveAt(s, i)
<1>1. Range(s) = {s[i] : i \in 1..Len(s)}
  BY RangeEquality
<1>2. e \notin Range(s) => RemoveFirst(s, e) = s
  BY <1>1 DEF RemoveFirst
<1>3. ASSUME NEW i \in 1..Len(s), s[i] = e
      PROVE  RemoveFirst(s, e) = RemoveAt(s, i)
  <2>1. {j \in 1..Len(s) : s[j] = e} = {i}
    BY <1>3 DEF Inj
  <2>2. SelectInSeq(s, LAMBDA v : v = e) = Min({i})
    BY <2>1 DEF SelectInSeq
  <2>3. Min({i}) = i
    BY DEF Min
  <2> QED BY <1>3, <2>2, <2>3 DEF RemoveFirst
<1> QED BY <1>2, <1>3

(* list_remove keeps the order of the others.                              *)
LEMMA RemoveOrder ==
  ASSUME NEW S, NEW s \in Seq(S), Inj(s), NEW e, NEW x, NEW y
  PROVE  Before(RemoveFirst(s, e), x, y) <=> Before(s, x, y) /\ x # e /\ y # e
<1> DEFINE r == RemoveFirst(s, e)
<1>1. Range(s) = {s[i] : i \in 1..Len(s)}
  BY RangeEquality
<1>2. CASE e \notin Range(s)
  BY <1>1, <1>2, RemoveFirstIs DEF Before
<1>3. CASE e \in Range(s)
  <2>1. PICK i \in 1..Len(s) : s[i] = e
    BY <1>1, <1>3
  <2>2. /\ Len(r) = Len(s) - 1 /\ Len(s) \in Nat
        /\ \A j \in 1..(Len(s) - 1) : r[j] = IF j < i THEN s[j] ELSE s[j + 1]
    <3>1. r = RemoveAt(s, i)
      BY <2>1, RemoveFirstIs
    <3>2. Len(s) \in Nat
      OBVIOUS
    <3>3. /\ Len(RemoveAt(s, i)) = Len(s) - 1
          /\ \A j \in 1..(Len(s) - 1) : RemoveAt(s, i)[j] = IF j < i THEN s[j] ELSE s[j + 1]
      BY RemoveAtProps
    <3> HIDE DEF r
    <3> QED BY <3>1, <3>2, <3>3
  <2> HIDE DEF r
  <2>3. ASSUME Before(r, x, y)
        PROVE  Before(s, x, y) /\ x # e /\ y # e
    <3>1. PICK j \in 1..Len(r), m \in 1..Len(r) : j < m /\ r[j] = x /\ r[m] = y
      BY <2>3 DEF Before
    <3>2. PICK a \in 1..Len(s), b \in 1..Len(s) :
            a < b /\ a # i /\ b # i /\ s[a] = x /\ s[b] = y
      <4>1. CASE m < i
        BY <2>2, <3>1, <4>1
      <4>2. CASE j < i /\ ~(m < i)
        BY <2>2, <3>1, <4>2
      <4>3. CASE ~(j < i)
        BY <2>2, <3>1, <4>3
      <4> QED BY <3>1, <2>2, <4>1, <4>2, <4>3
    <3> QED BY <2>1, <3>2 DEF Before, Inj
  <2>4. ASSUME Before(s, x, y), x # e, y # e
        PROVE  Before(r, x, y)
    <3>1. PICK a \in 1..Len(s), b \in 1..Len(s) : a < b /\ s[a] = x /\ s[b] = y
      BY <2>4 DEF Before
    <3>2. a # i /\ b # i
      BY <2>1, <2>4, <3>1
    <3>3. CASE b < i
      <4>1. a \in 1..Len(r) /\ b \in 1..Len(r) /\ r[a] = x /\ r[b] = y
        BY <2>2, <3>1, <3>3
      <4> QED BY <3>1, <4>1 DEF Before
    <3>4. CASE a < i /\ i < b
      <4>1. a \in 1..Len(r) /\ b - 1 \in 1..Len(r) /\ a < b - 1 /\ r[a] = x /\ r[b - 1] = y
        BY <2>2, <3>1, <3>4
      <4> QED BY <4>1 DEF Before
    <3>5. CASE i < a
      <4>1. a - 1 \in 1..Len(r) /\ b - 1 \in 1..Len(r) /\ a - 1 < b - 1 /\ r[a - 1] = x /\ r[b - 1] = y
        BY <2>2, <3>1, <3>5
      <4> QED BY <4>1 DEF Before
    <3> QED BY <3>1, <3>2, <3>3, <3>4, <3>5
  <2> QED BY <2>3, <2>4 DEF r
<1> QED BY <1>2, <1>3

(* A node appended comes after all the others.                             *)
LEMMA AppendOrder ==
  ASSUME NEW S, NEW s \in Seq(S), NEW e \in S, NEW x, NEW y
  PROVE  Before(Append(s, e), x, y) <=> Before(s, x, y) \/ (x \in Range(s) /\ y = e)
<1> DEFINE a == Append(s, e)
<1>1. Range(s) = {s[i] : i \in 1..Len(s)}
  BY RangeEquality
<1>2. /\ Len(a) = Len(s) + 1 /\ Len(s) \in Nat
      /\ \A i \in 1..Len(s) : a[i] = s[i]
      /\ a[Len(s) + 1] = e
  BY AppendProperties
<1> HIDE DEF a
<1>3. ASSUME Before(a, x, y)
      PROVE  Before(s, x, y) \/ (x \in Range(s) /\ y = e)
  <2>1. PICK i \in 1..Len(a), j \in 1..Len(a) : i < j /\ a[i] = x /\ a[j] = y
    BY <1>3 DEF Before
  <2>2. i \in 1..Len(s)
    BY <1>2, <2>1
  <2>3. CASE j = Len(s) + 1
    BY <1>1, <1>2, <2>1, <2>2, <2>3
  <2>4. CASE j # Len(s) + 1
    <3>1. j \in 1..Len(s)
      BY <1>2, <2>4
    <3> QED BY <1>2, <2>1, <2>2, <3>1 DEF Before
  <2> QED BY <2>3, <2>4
<1>4. ASSUME Before(s, x, y) PROVE Before(a, x, y)
  <2>1. PICK i \in 1..Len(s), j \in 1..Len(s) : i < j /\ s[i] = x /\ s[j] = y
    BY <1>4 DEF Before
  <2>2. i \in 1..Len(a) /\ j \in 1..Len(a) /\ a[i] = x /\ a[j] = y
    BY <1>2, <2>1
  <2> QED BY <2>1, <2>2 DEF Before
<1>5. ASSUME x \in Range(s), y = e PROVE Before(a, x, y)
  <2>1. PICK i \in 1..Len(s) : s[i] = x
    BY <1>1, <1>5
  <2>2. i \in 1..Len(a) /\ Len(s) + 1 \in 1..Len(a) /\ i < Len(s) + 1
    BY <1>2
  <2> QED BY <1>2, <1>5, <2>1, <2>2 DEF Before
<1> QED BY <1>3, <1>4, <1>5 DEF a

(* The element at distance d from the end of a list, where the newest is.  *)
FromEnd(s, d) == s[Len(s) + 1 - d]

(* h leaves its place, if it has one, and comes in last: those that came   *)
(* after it are one place further from the end, the others are not.        *)
Refreshed(s, t, h, m) ==
  /\ Len(t) = IF m > Len(s) THEN Len(s) + 1 ELSE Len(s)
  /\ FromEnd(t, 1) = h
  /\ \A d \in 1..Len(s) : d < m => FromEnd(t, d + 1) = FromEnd(s, d)
  /\ \A d \in 1..Len(s) : d > m => FromEnd(t, d) = FromEnd(s, d)

LEMMA RefreshProps ==
  ASSUME NEW S, NEW s \in Seq(S), Inj(s), NEW h \in S, NEW m \in 1..(Len(s) + 1),
         m <= Len(s) => FromEnd(s, m) = h,
         m > Len(s) => h \notin Range(s)
  PROVE  /\ Append(RemoveFirst(s, h), h) \in Seq(S)
         /\ Inj(Append(RemoveFirst(s, h), h))
         /\ Refreshed(s, Append(RemoveFirst(s, h), h), h, m)
<1> DEFINE r == RemoveFirst(s, h)
           t == Append(r, h)
           n == Len(s)
<1>1. n \in Nat
  OBVIOUS
<1>2. r \in Seq(S) /\ Inj(r) /\ Range(r) = Range(s) \ {h}
  BY RemoveFirstProps
<1>3. /\ t \in Seq(S) /\ Inj(t) /\ Len(t) = Len(r) + 1 /\ t[Len(r) + 1] = h
      /\ \A j \in 1..Len(r) : t[j] = r[j]
  <2> HIDE DEF r
  <2>1. t \in Seq(S) /\ Inj(t)
    BY <1>2, AppendProps
  <2> QED BY <1>2, <2>1, AppendProperties
<1>4. CASE m > n
  <2>1. r = s
    BY <1>4, RemoveFirstIs
  <2>2. Len(t) = n + 1 /\ t[n + 1] = h /\ \A j \in 1..n : t[j] = s[j]
    BY <1>3, <2>1
  <2> HIDE DEF r, t
  <2>3. m = n + 1
    BY <1>1, <1>4
  <2>4. FromEnd(t, 1) = h
    BY <1>1, <2>2 DEF FromEnd
  <2>5. ASSUME NEW d \in 1..n PROVE FromEnd(t, d + 1) = FromEnd(s, d)
    BY <1>1, <2>2 DEF FromEnd
  <2>6. Refreshed(s, t, h, m)
    BY <1>1, <1>4, <2>2, <2>3, <2>4, <2>5 DEF Refreshed
  <2> QED BY <1>3, <2>6 DEF t, r
<1>5. CASE m <= n
  <2> DEFINE p == n + 1 - m
  <2>1. p \in 1..n /\ s[p] = h
    BY <1>1, <1>5 DEF FromEnd
  <2>2. r = RemoveAt(s, p)
    BY <2>1, RemoveFirstIs
  <2> HIDE DEF r, p
  <2>3. /\ Len(r) = n - 1
        /\ \A j \in 1..(n - 1) : r[j] = IF j < p THEN s[j] ELSE s[j + 1]
    BY <2>1, <2>2, RemoveAtProps
  <2>4. /\ Len(t) = n /\ t[n] = h
        /\ \A j \in 1..(n - 1) : t[j] = IF j < p THEN s[j] ELSE s[j + 1]
    BY <1>1, <1>3, <2>3
  <2> HIDE DEF t
  <2>5. FromEnd(t, 1) = h
    BY <1>1, <2>4 DEF FromEnd
  <2>6. ASSUME NEW d \in 1..n, d < m PROVE FromEnd(t, d + 1) = FromEnd(s, d)
    <3>1. n - d \in 1..(n - 1) /\ ~(n - d < p) /\ n + 1 - (d + 1) = n - d /\ n + 1 - d = (n - d) + 1
      BY <1>1, <1>5, <2>6 DEF p
    <3>2. t[n - d] = s[(n - d) + 1]
      BY <2>4, <3>1
    <3> QED BY <2>4, <3>1, <3>2 DEF FromEnd
  <2>7. ASSUME NEW d \in 1..n, d > m PROVE FromEnd(t, d) = FromEnd(s, d)
    <3>1. n + 1 - d \in 1..(n - 1) /\ n + 1 - d < p
      BY <1>1, <1>5, <2>7 DEF p
    <3>2. t[n + 1 - d] = s[n + 1 - d]
      BY <2>4, <3>1
    <3> QED BY <2>4, <3>2 DEF FromEnd
  <2>8. Refreshed(s, t, h, m)
    BY <1>1, <1>5, <2>4, <2>5, <2>6, <2>7 DEF Refreshed
  <2> QED BY <1>3, <2>8 DEF t, r
<1> QED BY <1>1, <1>4, <1>5

-----------------------------------------------------------------------------
(* Parts of a list, and lists made of parts.                               *)

(* A part of a list, from place m to place n.                              *)
LEMMA PartProps ==
  ASSUME NEW S, NEW s \in Seq(S), Inj(s), NEW m \in Nat \ {0}, NEW n \in 0..Len(s)
  PROVE  /\ SubSeq(s, m, n) \in Seq(S)
         /\ Inj(SubSeq(s, m, n))
         /\ Len(SubSeq(s, m, n)) = IF m <= n THEN n - m + 1 ELSE 0
         /\ Range(SubSeq(s, m, n)) = {s[i] : i \in m..n}
<1> DEFINE a == SubSeq(s, m, n)
<1>0. Len(s) \in Nat /\ n \in Nat /\ n <= Len(s)
  OBVIOUS
<1>1. \A i \in m..n : i \in 1..Len(s) /\ s[i] \in S
  BY <1>0
<1>2. /\ a \in Seq(S)
      /\ Len(a) = IF m <= n THEN n - m + 1 ELSE 0
      /\ \A i \in 1..(n - m + 1) : a[i] = s[m + i - 1]
  BY <1>0, <1>1, SubSeqProperties
<1> HIDE DEF a
<1>3. \A i \in 1..Len(a) : m + i - 1 \in m..n /\ a[i] = s[m + i - 1]
  BY SMTT(60), <1>0, <1>2
<1>4. Inj(a)
  <2>1. SUFFICES ASSUME NEW i \in 1..Len(a), NEW j \in 1..Len(a), a[i] = a[j]
                 PROVE  i = j
    BY DEF Inj
  <2>2. m + i - 1 = m + j - 1
    BY <1>1, <1>3, <2>1 DEF Inj
  <2>3. Len(a) \in Nat
    BY <1>2
  <2> QED BY <2>2, <2>3
<1>5. Range(a) = {a[i] : i \in 1..Len(a)}
  BY <1>2, RangeEquality
<1>6. ASSUME NEW i \in m..n PROVE s[i] \in Range(a)
  <2>1. i - m + 1 \in 1..Len(a) /\ m + (i - m + 1) - 1 = i
    BY <1>0, <1>2
  <2>2. a[i - m + 1] = s[i]
    BY <1>3, <2>1
  <2> QED BY <1>5, <2>1, <2>2
<1>7. Range(a) = {s[i] : i \in m..n}
  BY ZenonT(60), <1>3, <1>5, <1>6
<1> QED BY <1>2, <1>4, <1>7 DEF a

(* One list after another.                                                 *)
LEMMA JoinProps ==
  ASSUME NEW S, NEW s \in Seq(S), NEW t \in Seq(S), Inj(s), Inj(t),
         Range(s) \cap Range(t) = {}
  PROVE  /\ s \o t \in Seq(S)
         /\ Inj(s \o t)
         /\ Len(s \o t) = Len(s) + Len(t)
         /\ Range(s \o t) = Range(s) \cup Range(t)
<1> DEFINE a == s \o t
<1>0. Len(s) \in Nat /\ Len(t) \in Nat
  OBVIOUS
<1>1. Range(s) = {s[i] : i \in 1..Len(s)} /\ Range(t) = {t[i] : i \in 1..Len(t)}
  BY RangeEquality
<1>2. /\ a \in Seq(S)
      /\ Len(a) = Len(s) + Len(t)
      /\ \A i \in 1..(Len(s) + Len(t)) :
           a[i] = IF i <= Len(s) THEN s[i] ELSE t[i - Len(s)]
  BY ConcatProperties
<1> HIDE DEF a
<1>3. ASSUME NEW i \in 1..Len(a)
      PROVE  IF i <= Len(s) THEN i \in 1..Len(s) /\ a[i] = s[i] /\ a[i] \in Range(s)
             ELSE i - Len(s) \in 1..Len(t) /\ a[i] = t[i - Len(s)] /\ a[i] \in Range(t)
  <2>1. CASE i <= Len(s)
    BY <1>0, <1>1, <1>2, <2>1
  <2>2. CASE ~(i <= Len(s))
    <3>1. i - Len(s) \in 1..Len(t)
      BY <1>0, <1>2, <2>2
    <3>2. a[i] = t[i - Len(s)]
      BY <1>2, <2>2
    <3> QED BY <1>1, <3>1, <3>2, <2>2
  <2> QED BY <2>1, <2>2
<1>4. Inj(a)
  <2>1. SUFFICES ASSUME NEW i \in 1..Len(a), NEW j \in 1..Len(a), a[i] = a[j]
                 PROVE  i = j
    BY DEF Inj
  <2>2. CASE i <= Len(s) /\ j <= Len(s)
    BY <1>3, <2>1, <2>2 DEF Inj
  <2>3. CASE ~(i <= Len(s)) /\ ~(j <= Len(s))
    <3>1. i - Len(s) = j - Len(s)
      BY <1>3, <2>1, <2>3 DEF Inj
    <3> QED BY <3>1, <1>0
  <2> QED BY <1>3, <2>1, <2>2, <2>3
<1>5. Range(a) = {a[i] : i \in 1..Len(a)}
  BY <1>2, RangeEquality
<1>6. ASSUME NEW x \in Range(s) PROVE x \in Range(a)
  <2>1. PICK i \in 1..Len(s) : x = s[i]
    BY <1>1
  <2>2. i \in 1..Len(a) /\ a[i] = x
    BY <1>0, <1>2, <2>1
  <2> QED BY <2>2, <1>5
<1>7. ASSUME NEW x \in Range(t) PROVE x \in Range(a)
  <2>1. PICK i \in 1..Len(t) : x = t[i]
    BY <1>1
  <2>2. Len(s) + i \in 1..Len(a) /\ ~(Len(s) + i <= Len(s)) /\ (Len(s) + i) - Len(s) = i
    BY <1>0, <1>2, <2>1
  <2>3. a[Len(s) + i] = x
    BY <1>2, <2>1, <2>2
  <2> QED BY <2>2, <2>3, <1>5
<1> QED BY <1>2, <1>3, <1>4, <1>5, <1>6, <1>7 DEF a

(* A list that starts elsewhere: what was before the place r comes last.   *)
LEMMA RotateProps ==
  ASSUME NEW S, NEW s \in Seq(S), Inj(s), NEW r \in 0..Len(s)
  PROVE  /\ SubSeq(s, r + 1, Len(s)) \o SubSeq(s, 1, r) \in Seq(S)
         /\ Inj(SubSeq(s, r + 1, Len(s)) \o SubSeq(s, 1, r))
         /\ Len(SubSeq(s, r + 1, Len(s)) \o SubSeq(s, 1, r)) = Len(s)
         /\ Range(SubSeq(s, r + 1, Len(s)) \o SubSeq(s, 1, r)) = Range(s)
<1> DEFINE a == SubSeq(s, r + 1, Len(s))
           b == SubSeq(s, 1, r)
<1>0. /\ Len(s) \in Nat /\ Len(s) \in 0..Len(s) /\ r \in Nat /\ r <= Len(s)
      /\ r + 1 \in Nat \ {0} /\ 1 \in Nat \ {0}
  OBVIOUS
<1>1. /\ a \in Seq(S) /\ Inj(a)
      /\ Len(a) = IF r + 1 <= Len(s) THEN Len(s) - (r + 1) + 1 ELSE 0
      /\ Range(a) = {s[i] : i \in (r + 1)..Len(s)}
  BY <1>0, PartProps
<1>2. /\ b \in Seq(S) /\ Inj(b)
      /\ Len(b) = IF 1 <= r THEN r - 1 + 1 ELSE 0
      /\ Range(b) = {s[i] : i \in 1..r}
  BY <1>0, PartProps
<1> HIDE DEF a, b
<1>3. Range(s) = {s[i] : i \in 1..Len(s)}
  BY RangeEquality
<1>4. Range(a) \cap Range(b) = {}
  <2>1. SUFFICES ASSUME NEW x \in Range(a), x \in Range(b) PROVE FALSE
    OBVIOUS
  <2>2. PICK i \in (r + 1)..Len(s) : x = s[i]
    BY <1>1
  <2>3. PICK j \in 1..r : x = s[j]
    BY <1>2, <2>1
  <2>4. i \in 1..Len(s) /\ j \in 1..Len(s) /\ i # j
    BY <1>0
  <2> QED BY <2>2, <2>3, <2>4 DEF Inj
<1>5. Range(a) \cup Range(b) = Range(s)
  BY <1>0, <1>1, <1>2, <1>3
<1>6. /\ a \o b \in Seq(S)
      /\ Inj(a \o b)
      /\ Len(a \o b) = Len(a) + Len(b)
      /\ Range(a \o b) = Range(a) \cup Range(b)
  <2>1. a \in Seq(S) /\ Inj(a) /\ b \in Seq(S) /\ Inj(b)
    BY <1>1, <1>2
  <2> QED BY <1>4, <2>1, JoinProps
<1>7. Len(a) + Len(b) = Len(s)
  <2> DEFINE A == Len(a)  B == Len(b)  N == Len(s)
  <2>1. A = (IF r + 1 <= N THEN N - (r + 1) + 1 ELSE 0) /\ B = IF 1 <= r THEN r - 1 + 1 ELSE 0
    BY <1>1, <1>2
  <2>2. N \in Nat /\ r \in Nat /\ r <= N
    BY <1>0
  <2> HIDE DEF A, B, N
  <2>3. A + B = N
    BY <2>1, <2>2
  <2> QED BY <2>3 DEF A, B, N
<1> QED BY <1>5, <1>6, <1>7 DEF a, b

(* The first n elements of one list after another: v of them are taken     *)
(* from the second list, when the first is too short.                      *)
Takes(S, f, l, n, v) ==
  LET g == SubSeq(f \o l, 1, n)
      f2 == SubSeq(f, n + 1, Len(f))
      l2 == SubSeq(l, v + 1, Len(l))
  IN /\ g \in Seq(S) /\ Inj(g) /\ Len(g) = n
     /\ f2 \in Seq(S) /\ Inj(f2) /\ Len(f2) = Len(f) - (n - v)
     /\ l2 \in Seq(S) /\ Inj(l2) /\ Len(l2) = Len(l) - v /\ v <= Len(l)
     /\ Range(g) \subseteq Range(f) \cup Range(l)
     /\ Range(f2) = Range(f) \ Range(g)
     /\ Range(l2) = Range(l) \ Range(g)
     /\ Range(g) \cap Range(l) = {l[i] : i \in 1..v}

LEMMA TakeProps ==
  ASSUME NEW S, NEW f \in Seq(S), NEW l \in Seq(S), Inj(f), Inj(l),
         Range(f) \cap Range(l) = {}, NEW n \in 0..(Len(f) + Len(l)),
         NEW v \in Nat, n > Len(f) => v = n - Len(f), n <= Len(f) => v = 0
  PROVE  Takes(S, f, l, n, v)
<1> DEFINE a == f \o l
           g == SubSeq(a, 1, n)
           f2 == SubSeq(f, n + 1, Len(f))
           l2 == SubSeq(l, v + 1, Len(l))
           F == Len(f)
           L == Len(l)
<1>0. /\ F \in Nat /\ L \in Nat /\ n \in Nat /\ n <= F + L
      /\ n + 1 \in Nat \ {0} /\ v + 1 \in Nat \ {0} /\ 1 \in Nat \ {0}
      /\ F \in 0..Len(f) /\ L \in 0..Len(l)
  OBVIOUS
<1>1. /\ a \in Seq(S) /\ Inj(a) /\ Len(a) = F + L
      /\ \A i \in 1..F : a[i] = f[i]
      /\ \A i \in 1..L : a[F + i] = l[i]
  <2>1. a \in Seq(S) /\ Inj(a) /\ Len(a) = Len(f) + Len(l)
    BY JoinProps
  <2>2. \A i \in 1..(Len(f) + Len(l)) : a[i] = IF i <= Len(f) THEN f[i] ELSE l[i - Len(f)]
    BY ConcatProperties
  <2> HIDE DEF a
  <2>3. \A i \in 1..F : i \in 1..(Len(f) + Len(l)) /\ i <= Len(f)
    BY <1>0
  <2>4. \A i \in 1..L : F + i \in 1..(Len(f) + Len(l)) /\ ~(F + i <= Len(f)) /\ (F + i) - Len(f) = i
    BY <1>0
  <2> QED BY <2>1, <2>2, <2>3, <2>4
<1>2. g \in Seq(S) /\ Inj(g) /\ Len(g) = n /\ Range(g) = {a[i] : i \in 1..n}
  <2>1. n \in 0..Len(a)
    BY <1>0, <1>1
  <2> HIDE DEF a
  <2>2. /\ SubSeq(a, 1, n) \in Seq(S) /\ Inj(SubSeq(a, 1, n))
        /\ Len(SubSeq(a, 1, n)) = IF 1 <= n THEN n - 1 + 1 ELSE 0
        /\ Range(SubSeq(a, 1, n)) = {a[i] : i \in 1..n}
    BY <1>0, <1>1, <2>1, PartProps
  <2>3. (IF 1 <= n THEN n - 1 + 1 ELSE 0) = n
    BY <1>0
  <2> QED BY <2>2, <2>3
<1>3. /\ f2 \in Seq(S) /\ Inj(f2)
      /\ Len(f2) = IF n + 1 <= F THEN F - (n + 1) + 1 ELSE 0
      /\ Range(f2) = {f[i] : i \in (n + 1)..F}
  BY SMTT(60), <1>0, PartProps
<1>4. /\ l2 \in Seq(S) /\ Inj(l2)
      /\ Len(l2) = IF v + 1 <= L THEN L - (v + 1) + 1 ELSE 0
      /\ Range(l2) = {l[i] : i \in (v + 1)..L}
  BY <1>0, PartProps
<1>5. Range(f) = {f[i] : i \in 1..F} /\ Range(l) = {l[i] : i \in 1..L}
  BY RangeEquality
<1> HIDE DEF a, g, f2, l2, F, L
<1>6. (n > F => v = n - F) /\ (n <= F => v = 0)
  BY DEF F
<1>7. v <= L /\ Len(f2) = F - (n - v) /\ Len(l2) = L - v
  <2> DEFINE P == Len(f2)  Q == Len(l2)
  <2>1. /\ P = IF n + 1 <= F THEN F - (n + 1) + 1 ELSE 0
        /\ Q = IF v + 1 <= L THEN L - (v + 1) + 1 ELSE 0
    BY <1>3, <1>4
  <2> HIDE DEF P, Q
  <2>2. v <= L /\ P = F - (n - v) /\ Q = L - v
    BY <1>0, <1>6, <2>1
  <2> QED BY <2>2 DEF P, Q
<1>8. \A i \in 1..F : a[i] \in Range(f) /\ a[i] \notin Range(l)
  BY <1>1, <1>5
<1>9. \A i \in 1..L : a[F + i] \in Range(l) /\ a[F + i] \notin Range(f)
  BY <1>1, <1>5
<1>10. ASSUME NEW i \in 1..n
       PROVE  \/ i \in 1..F
              \/ \E j \in 1..v : i = F + j /\ j \in 1..L
  <2>1. CASE i <= F
    BY <1>0, <2>1
  <2>2. CASE ~(i <= F)
    <3>1. i - F \in 1..v /\ i - F \in 1..L /\ i = F + (i - F)
      BY <1>0, <1>6, <2>2
    <3> QED BY <3>1
  <2> QED BY <2>1, <2>2
<1>11. \A i \in 1..n, j \in 1..F : a[i] = f[j] => i = j
  <2>1. SUFFICES ASSUME NEW i \in 1..n, NEW j \in 1..F, a[i] = a[j] PROVE i = j
    BY <1>1
  <2>2. i \in 1..Len(a) /\ j \in 1..Len(a)
    BY <1>0, <1>1
  <2> QED BY <1>1, <2>1, <2>2 DEF Inj
<1>12. \A i \in 1..n, j \in 1..L : a[i] = l[j] => i = F + j
  <2>1. SUFFICES ASSUME NEW i \in 1..n, NEW j \in 1..L, a[i] = a[F + j] PROVE i = F + j
    BY <1>1
  <2>2. i \in 1..Len(a) /\ F + j \in 1..Len(a)
    BY <1>0, <1>1
  <2> QED BY <1>1, <2>1, <2>2 DEF Inj
<1>13. Range(g) \subseteq Range(f) \cup Range(l)
  <2>1. SUFFICES ASSUME NEW i \in 1..n PROVE a[i] \in Range(f) \cup Range(l)
    BY <1>2
  <2> QED BY <1>8, <1>9, <1>10
<1>14. \A j \in 1..F : f[j] \in Range(g) <=> j <= n
  <2>1. ASSUME NEW j \in 1..F, f[j] \in Range(g) PROVE j <= n
    BY <1>2, <1>11, <2>1
  <2>2. ASSUME NEW j \in 1..F, j <= n PROVE f[j] \in Range(g)
    <3>1. j \in 1..n /\ a[j] = f[j]
      BY <1>0, <1>1, <2>2
    <3> QED BY <3>1, <1>2
  <2> QED BY <2>1, <2>2
<1>15. \A j \in 1..L : l[j] \in Range(g) <=> j <= v
  <2>1. ASSUME NEW j \in 1..L, l[j] \in Range(g) PROVE j <= v
    <3>1. F + j \in 1..n
      BY SMTT(60), <1>2, <1>12, <2>1
    <3> QED BY <3>1, <1>0, <1>6
  <2>2. ASSUME NEW j \in 1..L, j <= v PROVE l[j] \in Range(g)
    <3>1. F + j \in 1..n
      BY <1>0, <1>6, <2>2
    <3>2. a[F + j] = l[j]
      BY <1>1
    <3> QED BY <3>1, <3>2, <1>2
  <2> QED BY <2>1, <2>2
<1>16. Range(f2) = Range(f) \ Range(g)
  <2>1. ASSUME NEW i \in (n + 1)..F PROVE f[i] \in Range(f) \ Range(g)
    <3>1. i \in 1..F /\ ~(i <= n)
      BY <1>0
    <3> QED BY <3>1, <1>5, <1>14
  <2>2. ASSUME NEW i \in 1..F, f[i] \notin Range(g) PROVE f[i] \in Range(f2)
    <3>1. i \in (n + 1)..F
      BY <1>0, <1>14, <2>2
    <3> QED BY <3>1, <1>3
  <2> QED BY ZenonT(60), <1>3, <1>5, <2>1, <2>2
<1>17. Range(l2) = Range(l) \ Range(g)
  <2>1. ASSUME NEW i \in (v + 1)..L PROVE l[i] \in Range(l) \ Range(g)
    <3>1. i \in 1..L /\ ~(i <= v)
      BY <1>0
    <3> QED BY <3>1, <1>5, <1>15
  <2>2. ASSUME NEW i \in 1..L, l[i] \notin Range(g) PROVE l[i] \in Range(l2)
    <3>1. i \in (v + 1)..L
      BY <1>0, <1>15, <2>2
    <3> QED BY <3>1, <1>4
  <2>3. Range(l2) \subseteq Range(l) \ Range(g)
    BY <1>4, <2>1
  <2>4. Range(l) \ Range(g) \subseteq Range(l2)
    BY <1>5, <2>2
  <2> QED BY <2>3, <2>4
<1>18. Range(g) \cap Range(l) = {l[i] : i \in 1..v}
  <2>1. ASSUME NEW i \in 1..v PROVE l[i] \in Range(g) \cap Range(l)
    <3>1. i \in 1..L /\ i <= v
      BY <1>0, <1>7
    <3> QED BY <3>1, <1>5, <1>15
  <2>2. ASSUME NEW i \in 1..L, l[i] \in Range(g) PROVE i \in 1..v
    BY <1>0, <1>15, <2>2
  <2> QED BY <1>5, <2>1, <2>2
<1>19. a = f \o l /\ g = SubSeq(a, 1, n) /\ f2 = SubSeq(f, n + 1, F) /\ l2 = SubSeq(l, v + 1, L)
  BY DEF a, g, f2, l2, F, L
<1> QED
  BY <1>2, <1>3, <1>4, <1>7, <1>13, <1>16, <1>17, <1>18 DEF a, g, f2, l2, F, L, Takes
-----------------------------------------------------------------------------
(* Induction over the natural numbers, for a set instead of a formula: a   *)
(* set of natural numbers has a least element because < is well founded.   *)

Below == {ss \in Nat \X Nat : ss[1] < ss[2]}

LEMMA BelowWellFounded == IsWellFoundedOn(Below, Nat)
BY NatLessThanWellFounded DEF OpToRel, Below

LEMMA LeastNumber ==
  ASSUME NEW T \in SUBSET Nat, T # {}
  PROVE  \E n \in T : \A m \in T : n <= m
<1>1. PICK x \in T : \A y \in T : ~(<<y, x>> \in Below)
  BY BelowWellFounded, WFMin
<1>2. ASSUME NEW y \in T PROVE x <= y
  <2>1. <<y, x>> \in Nat \X Nat
    OBVIOUS
  <2>2. ~(y < x)
    BY <1>1, <2>1 DEF Below
  <2> QED BY <2>2
<1> QED BY <1>2

LEMMA SetInduction ==
  ASSUME NEW S, 0 \in S, \A n \in Nat : n \in S => n + 1 \in S
  PROVE  \A n \in Nat : n \in S
<1> SUFFICES ASSUME Nat \ S # {} PROVE FALSE
  OBVIOUS
<1>1. PICK n \in Nat \ S : \A m \in Nat \ S : n <= m
  BY LeastNumber
<1>2. n - 1 \in Nat /\ n - 1 \notin S
  BY <1>1
<1> QED BY <1>1, <1>2

-----------------------------------------------------------------------------
(* Lists in which no node is twice, and the order of their nodes.          *)
LEMMA StrictOrder ==
  ASSUME NEW S, NEW s \in Seq(S), Inj(s)
  PROVE  /\ \A x, y : Before(s, x, y) => x \in Range(s) /\ y \in Range(s) /\ x # y
         /\ \A x, y : Before(s, x, y) => ~Before(s, y, x)
         /\ \A x, y, z : Before(s, x, y) /\ Before(s, y, z) => Before(s, x, z)
         /\ \A x, y \in Range(s) : x = y \/ Before(s, x, y) \/ Before(s, y, x)
<1>1. Range(s) = {s[i] : i \in 1..Len(s)} /\ Len(s) \in Nat
  BY RangeEquality
<1>2. \A i, j \in 1..Len(s) : s[i] = s[j] => i = j
  BY DEF Inj
<1>3. \A x, y : Before(s, x, y) => x \in Range(s) /\ y \in Range(s) /\ x # y
  BY <1>1, <1>2 DEF Before
<1>4. \A x, y : Before(s, x, y) => ~Before(s, y, x)
  BY <1>1, <1>2 DEF Before
<1>5. ASSUME NEW x, NEW y, NEW z, Before(s, x, y), Before(s, y, z)
      PROVE  Before(s, x, z)
  <2>1. PICK i, j \in 1..Len(s) : i < j /\ s[i] = x /\ s[j] = y
    BY <1>5 DEF Before
  <2>2. PICK k, l \in 1..Len(s) : k < l /\ s[k] = y /\ s[l] = z
    BY <1>5 DEF Before
  <2>3. i < l
    BY <1>1, <1>2, <2>1, <2>2
  <2> QED BY <2>1, <2>2, <2>3 DEF Before
<1>6. ASSUME NEW x \in Range(s), NEW y \in Range(s)
      PROVE  x = y \/ Before(s, x, y) \/ Before(s, y, x)
  <2>1. PICK i \in 1..Len(s) : s[i] = x
    BY <1>1
  <2>2. PICK j \in 1..Len(s) : s[j] = y
    BY <1>1
  <2>3. i = j \/ i < j \/ j < i
    BY <1>1
  <2> QED BY <2>1, <2>2, <2>3 DEF Before
<1> QED BY <1>3, <1>4, <1>5, <1>6

(* The order in the other direction, and in two lists one after the other. *)
LEMMA ReverseOrder ==
  ASSUME NEW S, NEW s \in Seq(S), Inj(s)
  PROVE  /\ Reverse(s) \in Seq(S) /\ Inj(Reverse(s)) /\ Len(Reverse(s)) = Len(s)
         /\ Range(Reverse(s)) = Range(s)
         /\ \A x, y : Before(Reverse(s), x, y) <=> Before(s, y, x)
<1> DEFINE r == Reverse(s)
<1>1. Len(s) \in Nat
  OBVIOUS
<1>2. \A i \in 1..Len(s) : s[i] \in S /\ Len(s) - i + 1 \in 1..Len(s)
  BY <1>1
<1>3. r \in Seq(S) /\ Len(r) = Len(s) /\ \A i \in 1..Len(s) : r[i] = s[Len(s) - i + 1]
  BY <1>1, <1>2 DEF Reverse
<1>4. \A i \in 1..Len(s) : s[i] = r[Len(s) - i + 1]
  BY <1>1, <1>2, <1>3
<1> HIDE DEF r
<1>5. Inj(r)
  <2>1. SUFFICES ASSUME NEW i \in 1..Len(s), NEW j \in 1..Len(s), r[i] = r[j] PROVE i = j
    BY <1>3 DEF Inj
  <2>2. Len(s) - i + 1 = Len(s) - j + 1
    BY <1>2, <1>3, <2>1 DEF Inj
  <2> QED BY <1>1, <2>2
<1>6. Range(r) = {r[i] : i \in 1..Len(r)} /\ Range(s) = {s[i] : i \in 1..Len(s)}
  BY <1>3, RangeEquality
<1>7. Range(r) = Range(s)
  <2>1. ASSUME NEW i \in 1..Len(s) PROVE r[i] \in Range(s) /\ s[i] \in Range(r)
    BY <1>2, <1>3, <1>4, <1>6
  <2> QED BY <1>3, <1>6, <2>1
<1>8. ASSUME NEW x, NEW y, Before(r, x, y) PROVE Before(s, y, x)
  <2>1. PICK i, j \in 1..Len(s) : i < j /\ r[i] = x /\ r[j] = y
    BY <1>3, <1>8 DEF Before
  <2>2. Len(s) - j + 1 < Len(s) - i + 1 /\ Len(s) - j + 1 \in 1..Len(s) /\ Len(s) - i + 1 \in 1..Len(s)
    BY <1>1, <2>1
  <2> QED BY <1>3, <2>1, <2>2 DEF Before
<1>9. ASSUME NEW x, NEW y, Before(s, y, x) PROVE Before(r, x, y)
  <2>1. PICK i, j \in 1..Len(s) : i < j /\ s[i] = y /\ s[j] = x
    BY <1>9 DEF Before
  <2>2. Len(s) - j + 1 < Len(s) - i + 1 /\ Len(s) - j + 1 \in 1..Len(s) /\ Len(s) - i + 1 \in 1..Len(s)
    BY <1>1, <2>1
  <2> QED BY <1>3, <1>4, <2>1, <2>2 DEF Before
<1> QED BY <1>3, <1>5, <1>7, <1>8, <1>9 DEF r

LEMMA JoinOrder ==
  ASSUME NEW S, NEW s \in Seq(S), NEW t \in Seq(S)
  PROVE  \A x, y : Before(s \o t, x, y) <=>
            Before(s, x, y) \/ Before(t, x, y) \/ (x \in Range(s) /\ y \in Range(t))
<1> DEFINE a == s \o t
<1>1. Len(s) \in Nat /\ Len(t) \in Nat
  OBVIOUS
<1>2. Range(s) = {s[i] : i \in 1..Len(s)} /\ Range(t) = {t[i] : i \in 1..Len(t)}
  BY RangeEquality
<1>3. /\ Len(a) = Len(s) + Len(t)
      /\ \A i \in 1..Len(s) : i \in 1..Len(a) /\ a[i] = s[i]
      /\ \A i \in 1..Len(t) : Len(s) + i \in 1..Len(a) /\ a[Len(s) + i] = t[i]
  BY <1>1, ConcatProperties
<1> HIDE DEF a
<1>4. ASSUME NEW x, NEW y, Before(a, x, y)
      PROVE  Before(s, x, y) \/ Before(t, x, y) \/ (x \in Range(s) /\ y \in Range(t))
  <2>1. PICK i, j \in 1..Len(a) : i < j /\ a[i] = x /\ a[j] = y
    BY <1>4 DEF Before
  <2>2. CASE j <= Len(s)
    <3>1. i \in 1..Len(s) /\ j \in 1..Len(s)
      BY <1>1, <1>3, <2>1, <2>2
    <3> QED BY <1>3, <2>1, <3>1 DEF Before
  <2>3. CASE i > Len(s)
    <3>1. PICK k, l \in 1..Len(t) : i = Len(s) + k /\ j = Len(s) + l
      <4>1. i - Len(s) \in 1..Len(t) /\ j - Len(s) \in 1..Len(t)
        BY <1>1, <1>3, <2>1, <2>3
      <4>2. i = Len(s) + (i - Len(s)) /\ j = Len(s) + (j - Len(s))
        BY <1>1, <2>1
      <4> QED BY <4>1, <4>2
    <3>2. k < l
      BY <1>1, <2>1, <3>1
    <3> QED BY <1>3, <2>1, <3>1, <3>2 DEF Before
  <2>4. CASE i <= Len(s) /\ j > Len(s)
    <3>1. i \in 1..Len(s)
      BY <1>1, <1>3, <2>1, <2>4
    <3>2. PICK l \in 1..Len(t) : j = Len(s) + l
      <4>1. j - Len(s) \in 1..Len(t)
        BY <1>1, <1>3, <2>1, <2>4
      <4>2. j = Len(s) + (j - Len(s))
        BY <1>1, <2>1
      <4> QED BY <4>1, <4>2
    <3> QED BY <1>2, <1>3, <2>1, <3>1, <3>2
  <2> QED BY <1>1, <1>3, <2>1, <2>2, <2>3, <2>4
<1>5. ASSUME NEW x, NEW y, Before(s, x, y) PROVE Before(a, x, y)
  BY <1>3, <1>5 DEF Before
<1>6. ASSUME NEW x, NEW y, Before(t, x, y) PROVE Before(a, x, y)
  <2>1. PICK i, j \in 1..Len(t) : i < j /\ t[i] = x /\ t[j] = y
    BY <1>6 DEF Before
  <2>2. Len(s) + i < Len(s) + j
    BY <1>1, <2>1
  <2> QED BY <1>3, <2>1, <2>2 DEF Before
<1>7. ASSUME NEW x \in Range(s), NEW y \in Range(t) PROVE Before(a, x, y)
  <2>1. PICK i \in 1..Len(s) : s[i] = x
    BY <1>2
  <2>2. PICK j \in 1..Len(t) : t[j] = y
    BY <1>2
  <2>3. i < Len(s) + j
    BY <1>1, <2>1, <2>2
  <2> QED BY <1>3, <2>1, <2>2, <2>3 DEF Before
<1> QED BY <1>4, <1>5, <1>6, <1>7 DEF a

LEMMA JoinRange ==
  ASSUME NEW S, NEW s \in Seq(S), NEW t \in Seq(S)
  PROVE  Range(s \o t) = Range(s) \cup Range(t)
<1> DEFINE a == s \o t
<1>1. Len(s) \in Nat /\ Len(t) \in Nat
  OBVIOUS
<1>2. /\ a \in Seq(S) /\ Len(a) = Len(s) + Len(t)
      /\ \A i \in 1..Len(a) : a[i] = IF i <= Len(s) THEN s[i] ELSE t[i - Len(s)]
  BY <1>1, ConcatProperties
<1> HIDE DEF a
<1>3. /\ Range(s) = {s[i] : i \in 1..Len(s)} /\ Range(t) = {t[i] : i \in 1..Len(t)}
      /\ Range(a) = {a[i] : i \in 1..Len(a)}
  BY <1>2, RangeEquality
<1>4. ASSUME NEW e \in Range(a) PROVE e \in Range(s) \cup Range(t)
  <2>1. PICK i \in 1..Len(a) : a[i] = e
    BY <1>3
  <2>2. i <= Len(s) => i \in 1..Len(s)
    BY <1>1, <1>2
  <2>3. ~(i <= Len(s)) => i - Len(s) \in 1..Len(t)
    BY <1>1, <1>2
  <2> QED BY <1>2, <1>3, <2>1, <2>2, <2>3
<1>5. ASSUME NEW e \in Range(s) PROVE e \in Range(a)
  <2>1. PICK i \in 1..Len(s) : s[i] = e
    BY <1>3
  <2>2. i \in 1..Len(a) /\ i <= Len(s)
    BY <1>1, <1>2
  <2> QED BY <1>2, <1>3, <2>1, <2>2
<1>6. ASSUME NEW e \in Range(t) PROVE e \in Range(a)
  <2>1. PICK i \in 1..Len(t) : t[i] = e
    BY <1>3
  <2>2. PICK m \in 1..Len(a) : ~(m <= Len(s)) /\ m - Len(s) = i
    <3>1. Len(s) + i \in 1..Len(a) /\ ~(Len(s) + i <= Len(s)) /\ Len(s) + i - Len(s) = i
      BY <1>1, <1>2
    <3> QED BY <3>1
  <2>3. a[m] = t[i]
    BY <1>2, <2>2
  <2> QED BY <1>3, <2>1, <2>2, <2>3
<1> QED BY <1>4, <1>5, <1>6 DEF a

LEMMA NoNodes ==
  ASSUME NEW S, NEW s \in Seq(S), Range(s) = {}
  PROVE  s = <<>>
<1>1. Range(s) = {s[i] : i \in 1..Len(s)} /\ Len(s) \in Nat
  BY RangeEquality
<1>2. ~(1 \in 1..Len(s))
  BY <1>1
<1> QED BY <1>1, <1>2, EmptySeq

(* IndexFirstSubSeq finds the place of a node.                             *)
LEMMA PlaceOf ==
  ASSUME NEW S, NEW s \in Seq(S), Inj(s), NEW i \in 1..Len(s)
  PROVE  IndexFirstSubSeq(<<s[i]>>, s) = i
<1> DEFINE e == s[i]
           Found(n) == <<e>> \in SubSeqs(SubSeq(s, 1, n))
<1>1. Len(s) \in Nat /\ e \in S /\ i \in Nat
  OBVIOUS
<1>2. ASSUME NEW n \in 0..Len(s) PROVE Found(n) <=> i <= n
  <2> DEFINE u == SubSeq(s, 1, n)
  <2>1. u \in Seq(S) /\ Len(u) = n /\ \A j \in 1..n : u[j] = s[j]
    BY <1>1
  <2> HIDE DEF u
  <2>2. ASSUME i <= n PROVE <<e>> \in SubSeqs(u)
    <3>1. SubSeq(u, (i - 1) + 1, i) = <<e>>
      <4>1. (i - 1) + 1 = i /\ i \in 1..Len(u) /\ u[i] = e
        BY <1>1, <2>1, <2>2
      <4>2. SubSeq(u, i, i) \in Seq(S) /\ Len(SubSeq(u, i, i)) = 1 /\ SubSeq(u, i, i)[1] = e
        BY <1>1, <2>1, <4>1
      <4>3. <<e>> \in Seq(S) /\ Len(<<e>>) = 1 /\ <<e>>[1] = e
        BY <1>1
      <4>4. SubSeq(u, i, i) = <<e>>
        <5> DEFINE v == SubSeq(u, i, i)
                   c == <<e>>
        <5>1. v \in Seq(S) /\ Len(v) = 1 /\ v[1] = e /\ c \in Seq(S) /\ Len(c) = 1 /\ c[1] = e
          BY <4>2, <4>3
        <5> HIDE DEF v, c
        <5>2. v = c
          BY <5>1, SeqEqual
        <5> QED BY <5>2 DEF v, c
      <4> QED BY <4>1, <4>4
    <3>2. i - 1 \in 0..Len(u) /\ i \in 0..Len(u)
      BY <1>1, <2>1, <2>2
    <3>3. SubSeq(u, (i - 1) + 1, i) \in SubSeqs(u)
      <4>1. \A a, b \in 0..Len(u) : SubSeq(u, a + 1, b) \in SubSeqs(u)
        BY DEF SubSeqs
      <4> QED BY <3>2, <4>1
    <3> QED BY <3>1, <3>3
  <2>3. ASSUME <<e>> \in SubSeqs(u) PROVE i <= n
    <3>1. PICK a, b \in 0..Len(u) : <<e>> = SubSeq(u, a + 1, b)
      BY <2>3 DEF SubSeqs
    <3>2. Len(<<e>>) = 1 /\ <<e>>[1] = e
      OBVIOUS
    <3>3. a \in Nat /\ b \in Nat /\ a <= n /\ b <= n
      BY <1>1, <2>1, <3>1
    <3>4. a + 1 <= b
      BY <2>1, <3>1, <3>2, <3>3
    <3>5. SubSeq(u, a + 1, b)[1] = u[a + 1]
      BY <2>1, <3>3, <3>4
    <3>6. s[a + 1] = e /\ a + 1 \in 1..Len(s)
      BY <1>1, <2>1, <3>1, <3>2, <3>3, <3>4, <3>5
    <3>7. a + 1 = i
      BY <3>6 DEF Inj
    <3> QED BY <3>3, <3>4, <3>7
  <2> QED BY <2>2, <2>3 DEF u
<1> DEFINE last == CHOOSE n \in 0..Len(s) : Found(n) /\ \A m \in 0..n - 1 : ~Found(m)
<1>3. last = i
  <2> HIDE DEF Found, e
  <2>1. i \in 0..Len(s) /\ Found(i) /\ \A m \in 0..i - 1 : ~Found(m)
    BY <1>1, <1>2
  <2>2. ASSUME NEW n \in 0..Len(s), Found(n), \A m \in 0..n - 1 : ~Found(m)
        PROVE  n = i
    <3>1. i <= n
      BY <1>2, <2>2
    <3>2. ~(i \in 0..n - 1)
      BY <1>2, <2>1, <2>2
    <3> QED BY <1>1, <3>1, <3>2
  <2> QED BY <2>1, <2>2
<1>4. IndexFirstSubSeq(<<e>>, s) = last - (Len(<<e>>) - 1)
  BY DEF IndexFirstSubSeq
<1> HIDE DEF last
<1>5. Len(<<e>>) = 1
  OBVIOUS
<1> QED BY <1>1, <1>3, <1>4, <1>5

(* n is the first node of s that comes after e.                            *)
FollowedBy(s, e, n) ==
  /\ Before(s, e, n)
  /\ \A f : Before(s, n, f) <=> Before(s, e, f) /\ f # n

(* It is the one at the next place.                                        *)
LEMMA NextPlace ==
  ASSUME NEW S, NEW s \in Seq(S), Inj(s), NEW i \in 1..Len(s)
  PROVE  /\ i = Len(s) => \A f : ~Before(s, s[i], f)
         /\ i # Len(s) => s[i + 1] \in S /\ FollowedBy(s, s[i], s[i + 1])
<1>1. Len(s) \in Nat /\ \A j, l \in 1..Len(s) : s[j] = s[l] => j = l
  BY DEF Inj
<1>2. ASSUME i = Len(s), NEW f PROVE ~Before(s, s[i], f)
  BY <1>1, <1>2 DEF Before
<1>3. ASSUME i # Len(s) PROVE FollowedBy(s, s[i], s[i + 1])
  <2>1. i + 1 \in 1..Len(s) /\ i < i + 1
    BY <1>1, <1>3
  <2>2. Before(s, s[i], s[i + 1])
    BY <2>1 DEF Before
  <2>3. ASSUME NEW f, Before(s, s[i + 1], f) PROVE Before(s, s[i], f) /\ f # s[i + 1]
    BY <2>2, <2>3, StrictOrder
  <2>4. ASSUME NEW f, Before(s, s[i], f), f # s[i + 1] PROVE Before(s, s[i + 1], f)
    <3>1. PICK j, l \in 1..Len(s) : j < l /\ s[j] = s[i] /\ s[l] = f
      BY <2>4 DEF Before
    <3>2. j = i /\ l # i + 1
      BY <1>1, <2>4, <3>1
    <3>3. i + 1 < l
      BY <1>1, <3>1, <3>2
    <3> QED BY <2>1, <3>1, <3>3 DEF Before
  <2> QED BY <2>2, <2>3, <2>4 DEF FollowedBy
<1>4. ASSUME i # Len(s) PROVE s[i + 1] \in S
  <2>1. i + 1 \in 1..Len(s)
    BY <1>1, <1>4
  <2> QED BY <2>1
<1> QED BY <1>2, <1>3, <1>4

-----------------------------------------------------------------------------
(* Sums.  SumFunction adds up the values of a function over a finite       *)
(* domain in the order in which CHOOSE picks its elements.                 *)

Pick(s) == CHOOSE x \in s : TRUE

Adds(f, D, h) ==
  h = [s \in D |-> IF s = {} THEN 0 ELSE f[Pick(s)] + h[s \ {Pick(s)}]]

PartialSums(f) == CHOOSE h : Adds(f, SUBSET DOMAIN f, h)

(* The set without the element picked is smaller.                          *)
LEMMA PickSmaller ==
  ASSUME NEW s, IsFiniteSet(s), s # {}
  PROVE  /\ Pick(s) \in s
         /\ IsFiniteSet(s \ {Pick(s)})
         /\ Cardinality(s \ {Pick(s)}) = Cardinality(s) - 1
<1>1. Pick(s) \in s
  BY DEF Pick
<1> QED BY <1>1, FS_RemoveElement

(* Induction on the subsets of a finite set, along the picks.              *)
LEMMA SubsetInduction ==
  ASSUME NEW D, IsFiniteSet(D), NEW P, {} \in P,
         \A s \in SUBSET D : s # {} /\ s \ {Pick(s)} \in P => s \in P
  PROVE  \A s \in SUBSET D : s \in P
<1> DEFINE N == {n \in Nat : \A s \in SUBSET D : Cardinality(s) = n => s \in P}
<1>1. \A s \in SUBSET D : IsFiniteSet(s) /\ Cardinality(s) \in Nat
  BY FS_Subset, FS_CardinalityType
<1>2. 0 \in N
  BY <1>1, FS_EmptySet
<1>3. ASSUME NEW n \in Nat, n \in N PROVE n + 1 \in N
  <2>1. SUFFICES ASSUME NEW s \in SUBSET D, Cardinality(s) = n + 1 PROVE s \in P
    OBVIOUS
  <2>2. s # {}
    <3>1. Cardinality({}) = 0
      BY FS_EmptySet
    <3> QED BY <2>1, <3>1
  <2>3. s \ {Pick(s)} \in SUBSET D /\ Cardinality(s \ {Pick(s)}) = n
    BY <1>1, <2>1, <2>2, PickSmaller
  <2> QED BY <1>3, <2>2, <2>3
<1> HIDE DEF N
<1>4. \A n \in Nat : n \in N
  BY <1>2, <1>3, SetInduction
<1> QED BY <1>1, <1>4 DEF N

(* The partial sums exist, so they are what CHOOSE chooses.                *)
LEMMA PartialSumsExist ==
  ASSUME NEW f, IsFiniteSet(DOMAIN f)
  PROVE  Adds(f, SUBSET DOMAIN f, PartialSums(f))
<1> DEFINE D == DOMAIN f
           Small(n) == {s \in SUBSET D : Cardinality(s) <= n}
           N == {n \in Nat : \E h : Adds(f, Small(n), h)}
<1>1. \A s \in SUBSET D : IsFiniteSet(s) /\ Cardinality(s) \in Nat
  BY FS_Subset, FS_CardinalityType
<1>2. 0 \in N
  <2>1. \A s \in Small(0) : s = {}
    BY <1>1, FS_EmptySet
  <2>2. Adds(f, Small(0), [s \in Small(0) |-> 0])
    BY <2>1 DEF Adds
  <2> QED BY <2>2
<1>3. ASSUME NEW n \in Nat, n \in N PROVE n + 1 \in N
  <2>1. PICK h : Adds(f, Small(n), h)
    BY <1>3
  <2> DEFINE h2 == [s \in Small(n + 1) |-> IF s = {} THEN 0 ELSE f[Pick(s)] + h[s \ {Pick(s)}]]
  <2>2. ASSUME NEW s \in Small(n + 1), s # {} PROVE s \ {Pick(s)} \in Small(n)
    <3>1. Cardinality(s \ {Pick(s)}) = Cardinality(s) - 1
      BY <1>1, <2>2, PickSmaller
    <3> QED BY <1>1, <3>1
  <2>3. ASSUME NEW s \in Small(n) PROVE s \in Small(n + 1) /\ h2[s] = h[s]
    <3>1. s \in Small(n + 1)
      BY <1>1
    <3>2. h[s] = IF s = {} THEN 0 ELSE f[Pick(s)] + h[s \ {Pick(s)}]
      BY <2>1 DEF Adds
    <3>3. h2[s] = IF s = {} THEN 0 ELSE f[Pick(s)] + h[s \ {Pick(s)}]
      BY <3>1
    <3> QED BY <3>1, <3>2, <3>3
  <2>4. \A s \in Small(n + 1) :
          (IF s = {} THEN 0 ELSE f[Pick(s)] + h[s \ {Pick(s)}])
          = IF s = {} THEN 0 ELSE f[Pick(s)] + h2[s \ {Pick(s)}]
    BY <2>2, <2>3
  <2>5. h2 = [s \in Small(n + 1) |-> IF s = {} THEN 0 ELSE f[Pick(s)] + h2[s \ {Pick(s)}]]
    BY <2>4
  <2> HIDE DEF h2
  <2>6. Adds(f, Small(n + 1), h2)
    BY <2>5 DEF Adds
  <2> QED BY <2>6
<1> HIDE DEF N
<1>4. Cardinality(D) \in N
  BY <1>1, <1>2, <1>3, SetInduction
<1>5. Small(Cardinality(D)) = SUBSET D
  BY FS_Subset
<1>6. \E h : Adds(f, SUBSET D, h)
  BY <1>4, <1>5 DEF N
<1> QED BY <1>6 DEF PartialSums

(* The sum, and how its parts follow from one another.                     *)
LEMMA SumParts ==
  ASSUME NEW f, IsFiniteSet(DOMAIN f)
  PROVE  /\ SumFunction(f) = PartialSums(f)[DOMAIN f]
         /\ PartialSums(f)[{}] = 0
         /\ \A s \in SUBSET DOMAIN f : s # {} =>
              PartialSums(f)[s] = f[Pick(s)] + PartialSums(f)[s \ {Pick(s)}]
<1>1. SumFunction(f) = PartialSums(f)[DOMAIN f]
  BY DEF SumFunction, SumFunctionOnSet, FoldFunctionOnSet, MapThenFoldSet, Pick, PartialSums, Adds
<1> DEFINE h == PartialSums(f)
<1>2. h = [s \in SUBSET DOMAIN f |-> IF s = {} THEN 0 ELSE f[Pick(s)] + h[s \ {Pick(s)}]]
  BY PartialSumsExist DEF Adds
<1> HIDE DEF h
<1>3. \A s \in SUBSET DOMAIN f : h[s] = IF s = {} THEN 0 ELSE f[Pick(s)] + h[s \ {Pick(s)}]
  BY <1>2
<1> QED BY <1>1, <1>3 DEF h

(* Adding d to one value adds d to the sum.                                *)
AddsTo(D, f, x, d) == SumFunction([f EXCEPT ![x] = f[x] + d]) = SumFunction(f) + d

LEMMA SumChange ==
  ASSUME NEW D, IsFiniteSet(D), NEW f \in [D -> Int], NEW x \in D, NEW d \in Int
  PROVE  AddsTo(D, f, x, d)
<1> DEFINE g == [f EXCEPT ![x] = f[x] + d]
           F == PartialSums(f)
           G == PartialSums(g)
           P == {s \in SUBSET D : F[s] \in Int /\ G[s] = F[s] + (IF x \in s THEN d ELSE 0)}
<1>1. DOMAIN f = D /\ DOMAIN g = D
  OBVIOUS
<1>2. \A y \in D : f[y] \in Int /\ g[y] = f[y] + (IF y = x THEN d ELSE 0)
  OBVIOUS
<1> HIDE DEF g
<1>3. /\ SumFunction(f) = F[D] /\ F[{}] = 0
      /\ \A s \in SUBSET D : s # {} => F[s] = f[Pick(s)] + F[s \ {Pick(s)}]
  BY <1>1, SumParts
<1>4. /\ SumFunction(g) = G[D] /\ G[{}] = 0
      /\ \A s \in SUBSET D : s # {} => G[s] = g[Pick(s)] + G[s \ {Pick(s)}]
  BY <1>1, SumParts
<1> HIDE DEF F, G
<1>5. {} \in P
  <2>1. F[{}] = 0 /\ G[{}] = 0
    BY <1>3, <1>4
  <2>2. {} \in SUBSET D /\ x \notin {} /\ 0 = 0 + 0 /\ 0 \in Int
    OBVIOUS
  <2>3. G[{}] = F[{}] + (IF x \in {} THEN d ELSE 0)
    BY <2>1, <2>2
  <2> QED BY <2>1, <2>2, <2>3
<1>6. ASSUME NEW s \in SUBSET D, s # {}, s \ {Pick(s)} \in P PROVE s \in P
  <2> DEFINE p == Pick(s)
             q == s \ {Pick(s)}
  <2>1. p \in s /\ p \in D
    BY <1>6 DEF Pick
  <2>2. F[s] = f[p] + F[q] /\ G[s] = g[p] + G[q]
    BY <1>3, <1>4, <1>6
  <2>3. F[q] \in Int /\ G[q] = F[q] + (IF x \in q THEN d ELSE 0)
    BY <1>6
  <2>4. x \in s <=> x = p \/ x \in q
    BY <2>1
  <2>5. ~(x = p /\ x \in q)
    OBVIOUS
  <2>6. f[p] \in Int /\ g[p] = f[p] + (IF p = x THEN d ELSE 0)
    BY <1>2, <2>1
  <2> HIDE DEF p, q
  <2>7. F[s] \in Int /\ G[s] = F[s] + (IF x \in s THEN d ELSE 0)
    BY <2>2, <2>3, <2>4, <2>5, <2>6
  <2> QED BY <2>7
<1> HIDE DEF P
<1>7. D \in P
  BY <1>5, <1>6, SubsetInduction
<1> QED BY <1>3, <1>4, <1>7 DEF P, g, AddsTo

(* No value of natural numbers exceeds their sum.                          *)
LEMMA SumBound ==
  ASSUME NEW D, IsFiniteSet(D), NEW f \in [D -> Nat]
  PROVE  /\ SumFunction(f) \in Nat
         /\ \A x \in D : f[x] <= SumFunction(f)
<1> DEFINE F == PartialSums(f)
           P == {s \in SUBSET D : F[s] \in Nat /\ \A x \in s : f[x] <= F[s]}
<1>1. DOMAIN f = D
  OBVIOUS
<1>2. /\ SumFunction(f) = F[D] /\ F[{}] = 0
      /\ \A s \in SUBSET D : s # {} => F[s] = f[Pick(s)] + F[s \ {Pick(s)}]
  BY <1>1, SumParts
<1> HIDE DEF F
<1>3. {} \in P
  <2>1. F[{}] = 0 /\ 0 \in Nat
    BY <1>2
  <2>2. {} \in SUBSET D /\ \A x \in {} : f[x] <= F[{}]
    OBVIOUS
  <2> QED BY <2>1, <2>2
<1>4. ASSUME NEW s \in SUBSET D, s # {}, s \ {Pick(s)} \in P PROVE s \in P
  <2> DEFINE p == Pick(s)
             q == s \ {Pick(s)}
  <2>1. p \in s /\ p \in D /\ f[p] \in Nat
    BY <1>4 DEF Pick
  <2>2. F[s] = f[p] + F[q]
    BY <1>2, <1>4
  <2>3. F[q] \in Nat /\ \A x \in q : f[x] <= F[q]
    BY <1>4
  <2>4. \A x \in s : x = p \/ x \in q
    BY <2>1
  <2>5. \A x \in s : f[x] \in Nat
    OBVIOUS
  <2> HIDE DEF p, q
  <2>6. F[s] \in Nat /\ \A x \in s : f[x] <= F[s]
    BY <2>1, <2>2, <2>3, <2>4, <2>5
  <2> QED BY <2>6
<1> HIDE DEF P
<1>5. D \in P
  BY <1>3, <1>4, SubsetInduction
<1> QED BY <1>2, <1>5 DEF P

(* Sums over a part of the domain, in any order.                           *)
Values(f, D) == [x \in D |-> f[x]]

LEMMA SumOnPart ==
  ASSUME NEW f, NEW D, IsFiniteSet(D)
  PROVE  SumFunctionOnSet(f, D) = PartialSums(Values(f, D))[D]
<1> DEFINE g == Values(f, D)
<1>1. DOMAIN g = D /\ \A x \in D : g[x] = f[x]
  BY DEF Values
<1> HIDE DEF g
<1>2. SumFunctionOnSet(f, D) = (CHOOSE h : Adds(f, SUBSET D, h))[D]
  BY DEF SumFunctionOnSet, FoldFunctionOnSet, MapThenFoldSet, Pick, Adds
<1>3. ASSUME NEW h PROVE Adds(f, SUBSET D, h) <=> Adds(g, SUBSET D, h)
  <2>1. ASSUME NEW s \in SUBSET D, s # {} PROVE f[Pick(s)] = g[Pick(s)]
    BY <1>1, <2>1 DEF Pick
  <2>2. [s \in SUBSET D |-> IF s = {} THEN 0 ELSE f[Pick(s)] + h[s \ {Pick(s)}]]
          = [s \in SUBSET D |-> IF s = {} THEN 0 ELSE g[Pick(s)] + h[s \ {Pick(s)}]]
    BY <2>1
  <2> QED BY <2>2 DEF Adds
<1>4. (CHOOSE h : Adds(f, SUBSET D, h)) = (CHOOSE h : Adds(g, SUBSET D, h))
  BY <1>3
<1> QED BY <1>1, <1>2, <1>4 DEF PartialSums, g

(* Any element can be the one added last.                                  *)
LEMMA SumInAnyOrder ==
  ASSUME NEW D, IsFiniteSet(D), NEW f \in [D -> Int], NEW s \in SUBSET D
  PROVE  /\ PartialSums(f)[s] \in Int
         /\ \A x \in s : PartialSums(f)[s] = f[x] + PartialSums(f)[s \ {x}]
<1> DEFINE F == PartialSums(f)
           P == {t \in SUBSET D : F[t] \in Int /\ \A x \in t : F[t] = f[x] + F[t \ {x}]}
           N == {n \in Nat : \A t \in SUBSET D : Cardinality(t) = n => t \in P}
<1>1. DOMAIN f = D
  OBVIOUS
<1>2. /\ F[{}] = 0
      /\ \A t \in SUBSET D : t # {} => F[t] = f[Pick(t)] + F[t \ {Pick(t)}]
  BY <1>1, SumParts
<1>3. \A t \in SUBSET D : IsFiniteSet(t) /\ Cardinality(t) \in Nat
  BY FS_Subset, FS_CardinalityType
<1> HIDE DEF F
<1>4. \A t \in SUBSET D : F[t] \in Int
  <2> DEFINE I == {t \in SUBSET D : F[t] \in Int}
  <2>1. {} \in I
    <3>1. F[{}] \in Int /\ {} \in SUBSET D
      BY <1>2
    <3> QED BY <3>1
  <2>2. ASSUME NEW t \in SUBSET D, t # {}, t \ {Pick(t)} \in I PROVE t \in I
    <3>1. Pick(t) \in t
      BY <2>2 DEF Pick
    <3>2. f[Pick(t)] \in Int /\ F[t \ {Pick(t)}] \in Int
      BY <2>2, <3>1
    <3>3. F[t] = f[Pick(t)] + F[t \ {Pick(t)}]
      BY <1>2, <2>2
    <3>4. F[t] \in Int
      BY <3>2, <3>3
    <3> QED BY <3>4
  <2> HIDE DEF I
  <2>3. \A t \in SUBSET D : t \in I
    BY <2>1, <2>2, SubsetInduction
  <2> QED BY <2>3 DEF I
<1>5. 0 \in N
  <2>1. {} \in P
    <3>1. F[{}] \in Int /\ {} \in SUBSET D
      BY <1>2
    <3> QED BY <3>1
  <2>2. \A t \in SUBSET D : Cardinality(t) = 0 => t = {}
    BY <1>3, FS_EmptySet
  <2> HIDE DEF P
  <2> QED BY <2>1, <2>2
<1> HIDE DEF P
<1>6. ASSUME NEW n \in Nat, n \in N PROVE n + 1 \in N
  <2>1. SUFFICES ASSUME NEW t \in SUBSET D, Cardinality(t) = n + 1 PROVE t \in P
    OBVIOUS
  <2> DEFINE p == Pick(t)
             q == t \ {p}
  <2>2. t # {}
    <3>1. Cardinality({}) = 0
      BY FS_EmptySet
    <3> QED BY <2>1, <3>1
  <2>3. p \in t /\ F[t] = f[p] + F[q]
    BY <1>2, <2>2, PickSmaller DEF Pick
  <2> HIDE DEF p
  <2>4. ASSUME NEW x \in t
        PROVE  /\ t \ {x} \in SUBSET D /\ F[t \ {x}] \in Int
               /\ \A y \in t \ {x} : F[t \ {x}] = f[y] + F[(t \ {x}) \ {y}]
    <3>1. Cardinality(t \ {x}) = n /\ t \ {x} \in SUBSET D
      <4>1. Cardinality(t \ {x}) = Cardinality(t) - 1
        BY <1>3, FS_RemoveElement
      <4> QED BY <2>1, <4>1
    <3>2. t \ {x} \in P
      BY <1>6, <3>1
    <3> QED BY <3>1, <3>2 DEF P
  <2>5. \A x \in t : f[x] \in Int
    OBVIOUS
  <2>6. F[t] \in Int
    BY <1>4
  <2>7. ASSUME NEW x \in t PROVE F[t] = f[x] + F[t \ {x}]
    <3>1. CASE x = p
      BY <2>3, <3>1
    <3>2. CASE x # p
      <4> DEFINE r == t \ {x}
                 o == q \ {x}
      <4>1. x \in q /\ p \in r /\ r \ {p} = o
        BY <2>3, <3>2
      <4>2. F[q] = f[x] + F[o]
        BY <2>3, <2>4, <4>1
      <4>3. F[r] = f[p] + F[o]
        BY <2>4, <4>1
      <4>4. F[o] \in Int
        BY <1>4
      <4> HIDE DEF q, r, o
      <4>5. f[x] \in Int /\ f[p] \in Int
        BY <2>3, <2>5
      <4>6. F[t] = f[x] + F[r]
        BY <2>3, <4>2, <4>3, <4>4, <4>5
      <4> QED BY <4>6 DEF r
    <3> QED BY <3>1, <3>2
  <2> QED BY <2>6, <2>7 DEF P
<1> HIDE DEF N
<1>7. Cardinality(s) \in N
  BY <1>3, <1>5, <1>6, SetInduction
<1>8. s \in P
  BY <1>7 DEF N
<1> QED BY <1>8 DEF F, P

(* The sum over an interval is that of the shifted values.                 *)
LEMMA SumShifted ==
  ASSUME NEW a \in Nat, NEW n \in Nat, NEW f, \A j \in (a + 1)..(a + n) : f[j] \in Int
  PROVE  SumFunctionOnSet(f, (a + 1)..(a + n)) = SumFunction([i \in 1..n |-> f[a + i]])
<1> DEFINE D == (a + 1)..(a + n)
           E == 1..n
           v == Values(f, D)
           g == [i \in E |-> f[a + i]]
           F == PartialSums(v)
           G == PartialSums(g)
           M == {m \in Nat : m <= n => F[(a + 1)..(a + m)] = G[1..m]}
<1>1. IsFiniteSet(D) /\ IsFiniteSet(E)
  <2>1. a + 1 \in Int /\ a + n \in Int /\ 1 \in Int /\ n \in Int
    OBVIOUS
  <2> QED BY <2>1, FS_Interval
<1>2. v \in [D -> Int] /\ \A j \in D : v[j] = f[j]
  BY DEF Values
<1>3. g \in [E -> Int] /\ \A i \in E : g[i] = f[a + i]
  <2>1. \A i \in E : a + i \in D
    OBVIOUS
  <2> QED BY <2>1
<1>4. SumFunctionOnSet(f, D) = F[D]
  BY <1>1, SumOnPart
<1> HIDE DEF v, g
<1>5. /\ SumFunction(g) = G[E] /\ G[{}] = 0 /\ F[{}] = 0
  <2>1. IsFiniteSet(DOMAIN v) /\ IsFiniteSet(DOMAIN g) /\ DOMAIN g = E
    BY <1>1, <1>2, <1>3
  <2> QED BY <2>1, SumParts
<1> HIDE DEF M
<1>6. /\ \A s \in SUBSET D : \A x \in s : F[s] = v[x] + F[s \ {x}]
      /\ \A s \in SUBSET E : \A x \in s : G[s] = g[x] + G[s \ {x}]
  <2> HIDE DEF D, E
  <2>1. ASSUME NEW s \in SUBSET D PROVE \A x \in s : F[s] = v[x] + F[s \ {x}]
    BY <1>1, <1>2, SumInAnyOrder
  <2>2. ASSUME NEW s \in SUBSET E PROVE \A x \in s : G[s] = g[x] + G[s \ {x}]
    BY <1>1, <1>3, SumInAnyOrder
  <2> QED BY <2>1, <2>2
<1> HIDE DEF F, G
<1>7. 0 \in M
  <2> USE DEF M
  <2>1. (a + 1)..(a + 0) = {} /\ 1..0 = {}
    OBVIOUS
  <2> QED BY <1>5, <2>1
<1>8. ASSUME NEW m \in Nat, m \in M PROVE m + 1 \in M
  <2> USE DEF M
  <2>1. SUFFICES ASSUME m + 1 <= n PROVE F[(a + 1)..(a + (m + 1))] = G[1..(m + 1)]
    OBVIOUS
  <2> DEFINE s == (a + 1)..(a + (m + 1))
             t == 1..(m + 1)
             x == a + (m + 1)
             y == m + 1
  <2>2. s \in SUBSET D /\ t \in SUBSET E /\ x \in s /\ y \in t /\ x \in D /\ y \in E /\ x = a + y
    BY <2>1
  <2>3. s \ {x} = (a + 1)..(a + m) /\ t \ {y} = 1..m
    OBVIOUS
  <2>4. F[(a + 1)..(a + m)] = G[1..m]
    BY <1>8, <2>1
  <2> HIDE DEF s, t, x, y, D, E
  <2>5. F[s] = v[x] + F[s \ {x}] /\ G[t] = g[y] + G[t \ {y}]
    BY <1>6, <2>2
  <2>6. v[x] = g[y]
    BY <1>2, <1>3, <2>2
  <2>7. F[s] = G[t]
    BY <2>3, <2>4, <2>5, <2>6
  <2> QED BY <2>7 DEF s, t
<1>9. n \in M
  <2> QED BY <1>7, <1>8, SetInduction
<1>10. F[D] = G[E]
  BY <1>9 DEF M
<1> QED BY <1>4, <1>5, <1>10 DEF g
=============================================================================
