---------------------------- MODULE LRUCacheProofs ----------------------------
(***************************************************************************)
(* The invariant of LRUCache holds for every pool, key set and node set.   *)
(* Each action is a member function of LRUCoreProofs plus the client's     *)
(* pins: what is new here is that refs counts the pins and that a handle   *)
(* never leads to a free node.                                             *)
(***************************************************************************)
EXTENDS LRUCache, LRUCoreProofs

LEMMA SelfTag == self \in Tag /\ \A u \in Tag : u = self
BY SelfAssumption

(* A pinned node keeps its key and stays in the cache.                     *)
Stays == \A e \in Node : pins[e] > 0 => key'[e] = key[e] /\ e \in Resident(self)'

(* The client's side of the invariant.                                     *)
ClientInv == PinsCounted /\ Issued

ClientTypes == pins \in [Node -> Nat] /\ ret \in [op : Op, node : Node \cup {Nil}]

LEMMA InvParts ==
  /\ Inv <=> CoreTypeOK /\ ClientTypes /\ CoreInv /\ ClientInv
  /\ Inv' <=> CoreTypeOK' /\ ClientTypes' /\ CoreInv' /\ ClientInv'
BY DEF Inv, TypeOK, ClientTypes, ClientInv

-----------------------------------------------------------------------------
(* At first no node is cached and no client holds a pin.                   *)
LEMMA InitInv == Init => Inv
<1> SUFFICES ASSUME Init PROVE Inv
  OBVIOUS
<1>1. CoreTypeOK /\ CoreInv
  BY InitCore DEF Init
<1>2. ClientTypes
  BY DEF Init, ClientTypes, NoRet, Op
<1>3. Resident(self) = {}
  <2>1. table = [k \in Key |-> Nil]
    BY DEF Init, CoreInit
  <2>2. \A e \in Resident(self) : key[e] \in Key /\ table[key[e]] = e /\ e \in Node
    BY <1>1, SelfTag, OnNodes DEF CoreInv, TableAgrees, Resident, Kind
  <2> QED BY <2>1, <2>2, NilAssumption
<1>4. ClientInv
  BY <1>3 DEF Init, CoreInit, ClientInv, PinsCounted, Issued
<1> QED BY <1>1, <1>2, <1>4, InvParts

-----------------------------------------------------------------------------
(* A step that moves no node in or out of the cache and changes refs and   *)
(* pins of at most the resident e, by the same amount.                     *)
LEMMA SamePins ==
  ASSUME NEW e \in Resident(self), Inv, CoreTypeOK', SameResidents, UNCHANGED key,
         refs'[e] - 1 = pins'[e],
         \A x \in Node : x # e => refs'[x] = refs[x] /\ pins'[x] = pins[x]
  PROVE  ClientInv' /\ Stays
<1>1. Resident(self)' = Resident(self) /\ On(self, "erased")' = On(self, "erased")
  BY SelfTag DEF SameResidents
<1>2. PinsCounted'
  BY <1>1 DEF PinsCounted, Inv
<1>3. Issued'
  BY <1>1 DEF Issued, Inv
<1>4. Stays
  BY <1>1 DEF Stays, Inv, PinsCounted
<1> QED BY <1>2, <1>3, <1>4 DEF ClientInv

(* A step on the nodes that puts the key k into node r, which was free,    *)
(* erased, never used, or the victim, and pins it if asked.                *)
LEMMA NewPins ==
  ASSUME NEW r \in Node, NEW to \in {"lru", "in_use"}, NEW k \in Key,
         Inv, Placed(self, to, r), pins[r] = 0,
         key' = [key EXCEPT ![r] = k],
         refs' = [refs EXCEPT ![r] = IF to = "in_use" THEN 2 ELSE 1],
         pins' = IF to = "in_use" THEN [pins EXCEPT ![r] = pins[r] + 1] ELSE pins
  PROVE  ClientInv' /\ Stays
<1>1. key \in [Node -> Key \cup {NoKey}] /\ refs \in [Node -> Nat] /\ pins \in [Node -> Nat]
  BY DEF Inv, TypeOK, CoreTypeOK
<1>2. r \in Resident(self)'
  BY SelfTag DEF Placed, Resident, Kind
<1>3. \A x \in Node : x # r =>
        /\ x \in Resident(self)' <=> x \in Resident(self)
        /\ x \in On(self, "erased")' <=> x \in On(self, "erased")
  BY SelfTag DEF Placed, Resident, Kind
<1>4. pins'[r] = refs'[r] - 1
  BY <1>1
<1>5. PinsCounted'
  <2>1. ASSUME NEW x \in Node
        PROVE  pins'[x] = IF x \in Resident(self)' THEN refs'[x] - 1 ELSE 0
    <3>1. CASE x = r
      BY <1>2, <1>4, <3>1
    <3>2. CASE x # r
      BY <1>1, <1>3, <3>2 DEF Inv, PinsCounted
    <3> QED BY <3>1, <3>2
  <2> QED BY <2>1 DEF PinsCounted
<1>6. Issued'
  <2>1. ASSUME NEW x \in Node, key'[x] # NoKey
        PROVE  x \in Resident(self)' \cup On(self, "erased")'
    <3>1. CASE x = r
      BY <1>2, <3>1
    <3>2. CASE x # r
      BY <1>1, <1>3, <2>1, <3>2 DEF Inv, Issued
    <3> QED BY <3>1, <3>2
  <2> QED BY <2>1 DEF Issued
<1>7. Stays
  BY <1>1, <1>3 DEF Stays, Inv, PinsCounted
<1> QED BY <1>5, <1>6, <1>7 DEF ClientInv

-----------------------------------------------------------------------------
(* One lemma per action.                                                   *)

(* A hit of insert or lookup.                                              *)
LEMMA HitInv ==
  ASSUME NEW k \in Key, NEW pin \in BOOLEAN, NEW r,
         Inv, r = table[k], r # Nil, lookup_refresh(self, r, pin), Pinned(pin, r)
  PROVE  CoreTypeOK' /\ CoreInv' /\ ClientInv' /\ Stays /\ pins' \in [Node -> Nat]
<1>1. r \in Resident(self)
  BY SelfTag DEF Inv, CoreInv, TableAgrees
<1>2. /\ r \in Node
      /\ refs \in [Node -> Nat] /\ pins \in [Node -> Nat]
      /\ pins[r] = refs[r] - 1
  BY <1>1, SelfTag, OnNodes DEF Inv, TypeOK, CoreTypeOK, PinsCounted, Resident, Kind
<1>3. CoreTypeOK' /\ CoreInv' /\ SameResidents
  BY <1>1, SelfTag, LookupRefreshKeeps DEF Inv, TypeOK
<1>4. UNCHANGED key
  BY DEF lookup_refresh
<1>5. /\ pins' \in [Node -> Nat]
      /\ refs'[r] - 1 = pins'[r]
      /\ \A x \in Node : x # r => refs'[x] = refs[x] /\ pins'[x] = pins[x]
  <2>1. CASE pin
    <3>1. refs' = [refs EXCEPT ![r] = refs[r] + 1] /\ pins' = [pins EXCEPT ![r] = pins[r] + 1]
      BY <2>1 DEF lookup_refresh, ref, Pinned
    <3> QED BY <1>2, <3>1
  <2>2. CASE ~pin
    <3>1. refs' = refs /\ pins' = pins
      BY <2>2 DEF lookup_refresh, Pinned
    <3> QED BY <1>2, <3>1
  <2> QED BY <2>1, <2>2
<1>6. ClientInv' /\ Stays
  BY <1>1, <1>3, <1>4, <1>5, SamePins
<1> QED BY <1>3, <1>5, <1>6

(* A call that changes nothing.                                            *)
LEMMA NoChange ==
  ASSUME Inv, UNCHANGED <<coreVars, pins>>
  PROVE  CoreTypeOK' /\ CoreInv' /\ ClientInv' /\ Stays /\ pins' \in [Node -> Nat]
<1>1. CoreTypeOK' /\ CoreInv'
  BY CoreUnchanged DEF Inv, TypeOK
<1>4. ClientInv'
  BY DEF Inv, ClientInv, PinsCounted, Issued, coreVars, On, Resident
<1>5. Stays
  BY DEF Inv, Stays, PinsCounted, coreVars, On, Resident
<1>6. pins' \in [Node -> Nat]
  BY DEF Inv, TypeOK
<1> QED BY <1>1, <1>4, <1>5, <1>6

LEMMA ReturnType ==
  ASSUME NEW op \in Op, NEW r \in Node \cup {Nil}, Returns(op, r)
  PROVE  ret' \in [op : Op, node : Node \cup {Nil}]
BY DEF Returns

LEMMA InsertInv ==
  ASSUME Inv, NEW k \in Key, NEW pin \in BOOLEAN, Insert(k, pin)
  PROVE  Inv' /\ Stays
<1>1. PICK r \in Node \cup {Nil} :
        insert_impl(self, k, pin, r) /\ Returns("insert", r) /\ Pinned(pin, r)
  BY DEF Insert
<1>2. ret' \in [op : Op, node : Node \cup {Nil}]
  BY <1>1, ReturnType DEF Op
<1>3. CoreTypeOK' /\ CoreInv' /\ ClientInv' /\ Stays /\ pins' \in [Node -> Nat]
  <2>1. CASE r = table[k] /\ r # Nil /\ lookup_refresh(self, r, pin)
    BY <1>1, <2>1, HitInv
  <2>2. CASE table[k] = Nil /\ insert_new(self, k, pin, r)
    <3> DEFINE to == IF pin THEN "in_use" ELSE "lru"
    <3>1. /\ CoreTypeOK' /\ CoreInv'
          /\ r \in On(self, "free") \cup On(self, "lru")
          /\ Placed(self, to, r)
      BY <2>2, SelfTag, InsertKeeps DEF Inv, TypeOK
    <3>2. r \in Node
      BY <3>1, SelfTag, OnNodes DEF Inv, TypeOK, Kind
    <3>3. pins[r] = 0
      <4>1. CASE r \in On(self, "lru")
        <5>1. r \in Resident(self) /\ refs[r] = 1
          BY <4>1, SelfTag DEF Resident, Inv, CoreInv, RefState
        <5> QED BY <3>2, <5>1 DEF Inv, PinsCounted
      <4>2. CASE r \in On(self, "free")
        <5>1. r \notin Resident(self)
          BY <4>2, SelfTag, OnUnique DEF Resident, Inv, TypeOK, CoreInv, OneList, Kind
        <5> QED BY <3>2, <5>1 DEF Inv, PinsCounted
      <4> QED BY <3>1, <4>1, <4>2
    <3>4. /\ to \in {"lru", "in_use"}
          /\ key' = [key EXCEPT ![r] = k]
          /\ refs' = [refs EXCEPT ![r] = IF to = "in_use" THEN 2 ELSE 1]
          /\ pins' = IF to = "in_use" THEN [pins EXCEPT ![r] = pins[r] + 1] ELSE pins
      BY <1>1, <2>2, <3>2, NilAssumption DEF insert_new, Pinned
    <3>5. pins' \in [Node -> Nat]
      BY <3>2, <3>4 DEF Inv, TypeOK
    <3> HIDE DEF to
    <3>6. ClientInv' /\ Stays
      BY <3>1, <3>2, <3>3, <3>4, NewPins
    <3> QED BY <3>1, <3>5, <3>6
  <2>3. CASE alloc_fails(self, r)
    <3>1. UNCHANGED <<coreVars, pins>>
      BY <1>1, <2>3 DEF alloc_fails, Pinned
    <3> QED BY <3>1, NoChange
  <2> QED BY <1>1, <2>1, <2>2, <2>3 DEF insert_impl
<1> QED BY <1>2, <1>3, InvParts DEF ClientTypes

LEMMA LookupInv ==
  ASSUME Inv, NEW k \in Key, NEW pin \in BOOLEAN, LookupKey(k, pin)
  PROVE  Inv' /\ Stays
<1>1. PICK r \in Node \cup {Nil} :
        lookup_impl(self, k, pin, r) /\ Returns("lookup", r) /\ Pinned(pin, r)
  BY DEF LookupKey
<1>2. ret' \in [op : Op, node : Node \cup {Nil}]
  BY <1>1, ReturnType DEF Op
<1>3. CoreTypeOK' /\ CoreInv' /\ ClientInv' /\ Stays /\ pins' \in [Node -> Nat]
  <2>1. CASE r = table[k] /\ r # Nil /\ lookup_refresh(self, r, pin)
    BY <1>1, <2>1, HitInv
  <2>2. CASE r = Nil /\ UNCHANGED coreVars
    <3>1. UNCHANGED <<coreVars, pins>>
      BY <1>1, <2>2 DEF Pinned
    <3> QED BY <3>1, NoChange
  <2> QED BY <1>1, <2>1, <2>2 DEF lookup_impl
<1> QED BY <1>2, <1>3, InvParts DEF ClientTypes

LEMMA ReleaseInv ==
  ASSUME Inv, NEW e \in Node, Release(e)
  PROVE  Inv' /\ Stays
<1>1. /\ refs \in [Node -> Nat] /\ pins \in [Node -> Nat]
      /\ e \in Resident(self) /\ pins[e] = refs[e] - 1 /\ pins[e] > 0 /\ refs[e] > 1
  BY DEF Inv, TypeOK, CoreTypeOK, PinsCounted, Release
<1>2. /\ unref(self, e)
      /\ UNCHANGED <<size, capacity, key, table, extra_pool>>
      /\ pins' = [pins EXCEPT ![e] = pins[e] - 1]
      /\ ret' = NoRet
  BY DEF Release, release_handle
<1>3. CoreTypeOK' /\ CoreInv' /\ SameResidents
  BY <1>1, <1>2, SelfTag, UnrefKeeps DEF Inv, TypeOK
<1>4. refs' = [refs EXCEPT ![e] = refs[e] - 1]
  BY <1>2 DEF unref
<1>5. /\ pins' \in [Node -> Nat]
      /\ refs'[e] - 1 = pins'[e]
      /\ \A x \in Node : x # e => refs'[x] = refs[x] /\ pins'[x] = pins[x]
  BY <1>1, <1>2, <1>4
<1>6. ClientInv' /\ Stays
  BY <1>1, <1>2, <1>3, <1>5, SamePins
<1>7. ClientTypes'
  BY <1>2, <1>5 DEF ClientTypes, NoRet, Op
<1> QED BY <1>3, <1>6, <1>7, InvParts

LEMMA PinInv ==
  ASSUME Inv, NEW e \in Node, Pin(e)
  PROVE  Inv' /\ Stays
<1>1. /\ refs \in [Node -> Nat] /\ pins \in [Node -> Nat]
      /\ e \in Resident(self) /\ pins[e] = refs[e] - 1
  BY DEF Inv, TypeOK, CoreTypeOK, PinsCounted, Pin
<1>2. /\ ref(self, e)
      /\ UNCHANGED <<size, capacity, key, table, extra_pool>>
      /\ pins' = [pins EXCEPT ![e] = pins[e] + 1]
      /\ ret' = NoRet
  BY DEF Pin, pin_handle
<1>3. CoreTypeOK' /\ CoreInv' /\ SameResidents
  BY <1>1, <1>2, SelfTag, RefKeeps DEF Inv, TypeOK
<1>4. refs' = [refs EXCEPT ![e] = refs[e] + 1]
  BY <1>2 DEF ref
<1>5. /\ pins' \in [Node -> Nat]
      /\ refs'[e] - 1 = pins'[e]
      /\ \A x \in Node : x # e => refs'[x] = refs[x] /\ pins'[x] = pins[x]
  BY <1>1, <1>2, <1>4
<1>6. ClientInv' /\ Stays
  BY <1>1, <1>2, <1>3, <1>5, SamePins
<1>7. ClientTypes'
  BY <1>2, <1>5 DEF ClientTypes, NoRet, Op
<1> QED BY <1>3, <1>6, <1>7, InvParts

(* Here Issued is needed: refs = 1 alone does not say where the node is.   *)
LEMMA EraseInv ==
  ASSUME Inv, NEW e \in Node, Erase(e)
  PROVE  Inv' /\ Stays
<1>1. PICK ok \in BOOLEAN :
        erase_handle(self, e, ok) /\ Returns("erase", IF ok THEN e ELSE Nil)
  BY DEF Erase
<1>2. UNCHANGED pins /\ key[e] # NoKey
  BY DEF Erase
<1>3. ret' \in [op : Op, node : Node \cup {Nil}]
  BY <1>1, ReturnType DEF Op
<1>4. CoreTypeOK' /\ CoreInv' /\ ClientInv' /\ Stays
  <2>1. CASE ok
    <3>1. refs[e] = 1
      BY <1>1, <2>1 DEF erase_handle, Erasable
    <3>2. e \in Resident(self) \cup On(self, "erased")
      BY <1>2 DEF Inv, Issued
    <3>3. e \in On(self, "lru")
      BY <3>1, <3>2, SelfTag DEF Inv, CoreInv, RefState, Resident
    <3>4. CoreTypeOK' /\ CoreInv' /\ Placed(self, "erased", e)
      BY <1>1, <2>1, <3>3, SelfTag, EraseKeeps DEF Inv, TypeOK
    <3>5. pins[e] = 0
      BY <3>1, <3>3 DEF Inv, PinsCounted, Resident
    <3>6. /\ key' = key
          /\ \A x \in Node : x # e => refs'[x] = refs[x]
      BY <1>1, <2>1 DEF erase_handle, Inv, TypeOK, CoreTypeOK
    <3>7. /\ e \notin Resident(self)' /\ e \in On(self, "erased")'
          /\ \A x \in Node : x # e =>
               /\ x \in Resident(self)' <=> x \in Resident(self)
               /\ x \in On(self, "erased")' <=> x \in On(self, "erased")
      BY <3>4, SelfTag DEF Placed, Resident, Kind
    <3>8. PinsCounted'
      BY <1>2, <3>5, <3>6, <3>7 DEF Inv, PinsCounted
    <3>9. Issued'
      BY <3>6, <3>7 DEF Inv, Issued
    <3>10. Stays
      BY <1>2, <3>5, <3>6, <3>7 DEF Inv, PinsCounted, Stays
    <3> QED BY <3>4, <3>8, <3>9, <3>10 DEF ClientInv
  <2>2. CASE ~ok
    <3>1. UNCHANGED <<coreVars, pins>>
      BY <1>1, <1>2, <2>2 DEF erase_handle
    <3> QED BY <3>1, NoChange
  <2> QED BY <2>1, <2>2
<1>5. ClientTypes'
  BY <1>2, <1>3 DEF ClientTypes, Inv, TypeOK
<1> QED BY <1>4, <1>5, InvParts

LEMMA InstallInv ==
  ASSUME Inv, NEW k \in Key, Install(k)
  PROVE  Inv' /\ Stays
<1>1. PICK r \in Node : install_impl(self, k, r) /\ Returns("install", r)
  BY DEF Install
<1>2. UNCHANGED pins /\ table[k] = Nil
  BY DEF Install
<1>3. ret' \in [op : Op, node : Node \cup {Nil}]
  BY <1>1, ReturnType DEF Op
<1>4. CoreTypeOK' /\ CoreInv' /\ ~IsResident(r) /\ Placed(self, "lru", r)
  BY <1>1, <1>2, SelfTag, InstallKeeps DEF Inv, TypeOK
<1>5. pins[r] = 0
  BY <1>4, SelfTag DEF IsResident, Inv, PinsCounted
<1>6. key' = [key EXCEPT ![r] = k] /\ refs' = [refs EXCEPT ![r] = 1]
  BY <1>1 DEF install_impl
<1>7. ClientInv' /\ Stays
  <2>1. "lru" \in {"lru", "in_use"} /\ "lru" # "in_use"
    OBVIOUS
  <2>2. /\ refs' = [refs EXCEPT ![r] = IF "lru" = "in_use" THEN 2 ELSE 1]
        /\ pins' = IF "lru" = "in_use" THEN [pins EXCEPT ![r] = pins[r] + 1] ELSE pins
    BY <1>2, <1>6, <2>1
  <2> QED BY <1>4, <1>5, <1>6, <2>1, <2>2, NewPins
<1>8. ClientTypes'
  BY <1>2, <1>3 DEF ClientTypes, Inv, TypeOK
<1> QED BY <1>4, <1>7, <1>8, InvParts

(* Every step.                                                             *)
LEMMA NextInv == Inv /\ [Next]_vars => Inv' /\ (Stays \/ UNCHANGED vars)
<1> SUFFICES ASSUME Inv, [Next]_vars PROVE Inv' /\ (Stays \/ UNCHANGED vars)
  OBVIOUS
<1>1. ASSUME NEW k \in Key, NEW pin \in BOOLEAN, Insert(k, pin) PROVE Inv' /\ Stays
  BY <1>1, InsertInv
<1>2. ASSUME NEW k \in Key, NEW pin \in BOOLEAN, LookupKey(k, pin) PROVE Inv' /\ Stays
  BY <1>2, LookupInv
<1>3. ASSUME NEW k \in Key, Install(k) PROVE Inv' /\ Stays
  BY <1>3, InstallInv
<1>4. ASSUME NEW e \in Node, Release(e) PROVE Inv' /\ Stays
  BY <1>4, ReleaseInv
<1>5. ASSUME NEW e \in Node, Pin(e) PROVE Inv' /\ Stays
  BY <1>5, PinInv
<1>6. ASSUME NEW e \in Node, Erase(e) PROVE Inv' /\ Stays
  BY <1>6, EraseInv
<1>7. CASE UNCHANGED vars
  <2>1. UNCHANGED <<coreVars, pins>> /\ ret' = ret
    BY <1>7 DEF vars
  <2>2. ClientTypes'
    BY <2>1, NoChange DEF ClientTypes, Inv, TypeOK
  <2> QED BY <1>7, <2>1, <2>2, NoChange, InvParts
<1> QED BY <1>1, <1>2, <1>3, <1>4, <1>5, <1>6, <1>7 DEF Next

(* A node a stays-step keeps is still found under its key.                 *)
LEMMA StaysFound ==
  ASSUME Inv, Inv', Stays
  PROVE  \A e \in Node : pins[e] > 0 => key'[e] = key[e] /\ table'[key[e]] = e
<1>1. \A e \in Resident(self)' : table'[key'[e]] = e
  BY SelfTag DEF Inv, CoreInv, TableAgrees
<1> QED BY <1>1 DEF Stays

-----------------------------------------------------------------------------
(* The invariant holds in every state: whatever calls the client makes,    *)
(* each node is on one list, the table finds exactly the cached nodes,     *)
(* refs counts the pins, size_ and capacity_ count the lists, and no       *)
(* handle leads to a free node.                                            *)
THEOREM Invariance == Spec => []Inv
<1>1. Init => Inv
  BY InitInv
<1>2. Inv /\ [Next]_vars => Inv'
  BY NextInv
<1> QED BY <1>1, <1>2, PTL DEF Spec

(* refs and size_ are never decremented below zero, and the other types    *)
(* hold.                                                                   *)
THEOREM TypeCorrect == Spec => []TypeOK
<1>1. Inv => TypeOK
  BY DEF Inv
<1> QED BY <1>1, Invariance, PTL

(* node.h: a node is in one list "or the other, and never both"; and none  *)
(* is lost.                                                                *)
THEOREM NodesOnOneList == Spec => []OneList
<1>1. Inv => OneList
  BY DEF Inv, CoreInv
<1> QED BY <1>1, Invariance, PTL

(* NodeTable and the lists of LRUCache describe the same set of keys.      *)
THEOREM TableFindsCached == Spec => []TableAgrees
<1>1. Inv => TableAgrees
  BY DEF Inv, CoreInv
<1> QED BY <1>1, Invariance, PTL

(* refs tells the list a node is on: ref, unref, erase and lookup_refresh  *)
(* decide by refs alone where a node is linked.                            *)
THEOREM RefsTellTheList == Spec => []RefState
<1>1. Inv => RefState
  BY DEF Inv, CoreInv
<1> QED BY <1>1, Invariance, PTL

(* size_ and capacity_, which are counted up and down, are the lengths of  *)
(* the lists.                                                              *)
THEOREM CountersExact == Spec => []Counts
<1>1. Inv => Counts
  BY DEF Inv, CoreInv
<1> QED BY <1>1, Invariance, PTL

(* refs is the number of the client's pins, plus one for the cache.        *)
THEOREM RefsCountPins == Spec => []PinsCounted
<1>1. Inv => PinsCounted
  BY DEF Inv
<1> QED BY <1>1, Invariance, PTL

(* LRUCache::erase may trust refs: no handle leads to a free node.         *)
THEOREM HandlesIssued == Spec => []Issued
<1>1. Inv => Issued
  BY DEF Inv
<1> QED BY <1>1, Invariance, PTL

(* "A pinned node must be unpinned later": no call of LRUCache gives a     *)
(* pinned node to another key or drops it from the table.                  *)
THEOREM PinnedNodesStay == Spec => PinnedStays
<1> DEFINE A == \A e \in Node : pins[e] > 0 => key'[e] = key[e] /\ table'[key[e]] = e
<1>1. Inv /\ Inv' /\ [Next]_vars => [A]_vars
  BY NextInv, StaysFound
<1>2. Spec => [][A]_vars
  <2> HIDE DEF A
  <2> QED BY <1>1, Invariance, PTL DEF Spec
<1> QED BY <1>2 DEF PinnedStays

(* insert_impl returns nullptr only when no slot is free or unpinned.      *)
THEOREM InsertFailsOnlyWhenFull == Spec => []InsertFailsOnlyIfFull
<1>1. Init => InsertFailsOnlyIfFull
  BY DEF Init, NoRet, InsertFailsOnlyIfFull
<1>2. Inv /\ InsertFailsOnlyIfFull /\ [Next]_vars => InsertFailsOnlyIfFull'
  <2>1. SUFFICES ASSUME Inv, InsertFailsOnlyIfFull, [Next]_vars,
                        ret'.op = "insert", ret'.node = Nil,
                        NEW e \in Node, e \in (Resident(self) \cup On(self, "free"))'
                 PROVE  pins'[e] > 0
    BY DEF InsertFailsOnlyIfFull
  <2>2. ASSUME NEW k \in Key, NEW pin \in BOOLEAN, Insert(k, pin) PROVE pins'[e] > 0
    <3>1. PICK r \in Node \cup {Nil} :
            insert_impl(self, k, pin, r) /\ Returns("insert", r) /\ Pinned(pin, r)
      BY <2>2 DEF Insert
    <3>2. r = Nil
      BY <2>1, <3>1 DEF Returns
    <3>3. ~insert_new(self, k, pin, r)
      <4>1. ASSUME table[k] = Nil, insert_new(self, k, pin, r) PROVE FALSE
        <5>1. r \in On(self, "free") \cup On(self, "lru")
          BY <2>1, <4>1, SelfTag, InsertKeeps DEF Inv, TypeOK
        <5> QED BY <2>1, <3>2, <5>1, SelfTag, OnNodes, NilAssumption DEF Inv, TypeOK, Kind
      <4> QED BY <3>1, <3>2, <4>1 DEF insert_impl
    <3>4. ~CanAlloc(self) /\ UNCHANGED coreVars
      BY <3>1, <3>2, <3>3 DEF insert_impl, alloc_fails
    <3>5. On(self, "free") = {} /\ On(self, "lru") = {}
      <4>1. Range(<<>>) = {}
        BY DEF Range
      <4> QED BY <3>4, <4>1 DEF CanAlloc, lru, free, On
    <3>6. list' = list /\ pins' = pins
      BY <3>1, <3>2, <3>4 DEF coreVars, Pinned
    <3>7. e \in On(self, "in_use")
      BY <2>1, <3>5, <3>6 DEF On, Resident
    <3>8. refs[e] > 1 /\ refs[e] \in Nat /\ pins[e] = refs[e] - 1
      BY <2>1, <3>7, SelfTag DEF Inv, TypeOK, CoreTypeOK, CoreInv, RefState, PinsCounted, Resident
    <3> QED BY <3>6, <3>8
  <2>3. ASSUME NEW k \in Key, NEW pin \in BOOLEAN, LookupKey(k, pin) PROVE FALSE
    BY <2>1, <2>3 DEF LookupKey, Returns
  <2>4. ASSUME NEW k \in Key, Install(k) PROVE FALSE
    BY <2>1, <2>4 DEF Install, Returns
  <2>5. ASSUME NEW x \in Node, Release(x) \/ Pin(x) PROVE FALSE
    BY <2>1, <2>5 DEF Release, Pin, NoRet
  <2>6. ASSUME NEW x \in Node, Erase(x) PROVE FALSE
    BY <2>1, <2>6 DEF Erase, Returns
  <2>7. CASE UNCHANGED vars
    <3>1. list' = list /\ pins' = pins /\ ret' = ret
      BY <2>7 DEF vars, coreVars
    <3> QED BY <2>1, <3>1 DEF InsertFailsOnlyIfFull, On, Resident
  <2> QED BY <2>1, <2>2, <2>3, <2>4, <2>5, <2>6, <2>7 DEF Next
<1> QED BY <1>1, <1>2, Invariance, PTL DEF Spec
-----------------------------------------------------------------------------
(* LRUCache implements LRUPolicy.                                          *)

(* Two cached nodes have different keys.                                   *)
KeysApart ==
  \A x, y \in Resident(self) : key[x] \in Key /\ (key[x] = key[y] => x = y)

LEMMA KeysDiffer ==
  /\ CoreInv => KeysApart
  /\ CoreInv' => KeysApart'
BY SelfTag DEF CoreInv, TableAgrees, KeysApart

(* The order of the keys is that of the nodes on the LRU list.             *)
OlderByNode ==
  /\ Older \subseteq Key \X Key
  /\ \A a, b \in Key : <<a, b>> \in Older <=>
       \E x, y \in Node : Before(lru(self), x, y) /\ a = key[x] /\ b = key[y]

LEMMA OlderIs ==
  /\ CoreTypeOK => OlderByNode
  /\ CoreTypeOK' => OlderByNode'
<1>1. ASSUME CoreTypeOK PROVE OlderByNode
  <2>1. lru(self) \in Seq(Node)
    BY <1>1, SelfTag DEF CoreTypeOK, lru, Kind
  <2> QED BY <2>1 DEF OlderByNode, Older, Before
<1>2. ASSUME CoreTypeOK' PROVE OlderByNode'
  <2>1. lru(self)' \in Seq(Node)
    BY <1>2, SelfTag DEF CoreTypeOK, lru, Kind
  <2> QED BY <2>1 DEF OlderByNode, Older, Before
<1> QED BY <1>1, <1>2

(* The LRU list is a list of nodes, each once.                             *)
LEMMA LruList ==
  ASSUME CoreTypeOK, CoreInv
  PROVE  /\ lru(self) \in Seq(Node) /\ Inj(lru(self))
         /\ On(self, "lru") = Range(lru(self)) /\ On(self, "lru") \subseteq Node
         /\ \A x \in Node : x \in On(self, "lru") => x \in Resident(self)
<1>1. lru(self) \in Seq(Node) /\ On(self, "lru") = Range(lru(self))
  BY SelfTag DEF CoreTypeOK, lru, On, Kind
<1>2. <<self, "lru">> \in Tag \X Kind
  BY SelfTag DEF Kind
<1>3. Inj(lru(self))
  BY <1>2 DEF CoreInv, OneList, LinkedOnce, Inj, lru
<1>4. On(self, "lru") \subseteq Node
  BY <1>1, RangeEquality
<1> QED BY <1>1, <1>3, <1>4 DEF Resident

(* The keys of the unpinned nodes other than r.                            *)
Others(r) == {key[x] : x \in On(self, "lru") \ {r}}

(* The node r leaves its place in the LRU list, and comes in last under    *)
(* the key k if k is one.                                                  *)
LEMMA Ordered ==
  ASSUME CoreTypeOK, CoreInv, CoreTypeOK', CoreInv', NEW r \in Node, NEW k, NEW V,
         \A x \in Node : x # r => key'[x] = key[x],
         \/ /\ k \in Key /\ key'[r] = k
            /\ lru(self)' = Append(RemoveFirst(lru(self), r), r)
            /\ V = Others(r) \cup {k}
         \/ /\ k = NoKey
            /\ lru(self)' = RemoveFirst(lru(self), r)
            /\ V = Others(r)
  PROVE  Policy!Order(V, k)
<1> DEFINE s == lru(self)
           t == RemoveFirst(lru(self), r)
           W == Others(r)
           new == {p \in Older : {p[1], p[2]} \subseteq V \ {k}}
                    \cup {<<j, k>> : j \in IF k \in V THEN V \ {k} ELSE {}}
<1>1. /\ s \in Seq(Node) /\ Inj(s) /\ On(self, "lru") = Range(s) /\ On(self, "lru") \subseteq Node
      /\ \A x \in On(self, "lru") : x \in Resident(self)
  BY LruList
<1>2. t \in Seq(Node) /\ Inj(t) /\ Range(t) = Range(s) \ {r}
  BY <1>1, RemoveFirstProps
<1>3. \A x, y : Before(t, x, y) <=> Before(s, x, y) /\ x # r /\ y # r
  BY <1>1, RemoveOrder
<1>4. KeysApart /\ KeysApart' /\ OlderByNode /\ OlderByNode'
  BY KeysDiffer, OlderIs
<1>5. On(self, "lru")' = Range(lru(self)')
  BY SelfTag DEF On, lru
<1>6. k \in Key \/ k = NoKey
  OBVIOUS
<1>7. k \in Key => /\ key'[r] = k /\ lru(self)' = Append(t, r) /\ V = W \cup {k}
  BY NilAssumption
<1>8. k = NoKey => lru(self)' = t /\ V = W
  BY NilAssumption
<1> HIDE DEF s, t
<1>9. \A x, y : Before(lru(self)', x, y) <=>
        \/ Before(s, x, y) /\ x # r /\ y # r
        \/ k \in Key /\ x \in Range(s) \ {r} /\ y = r
  <2>1. CASE k \in Key
    <3>1. \A x, y : Before(Append(t, r), x, y) <=> Before(t, x, y) \/ (x \in Range(t) /\ y = r)
      BY <1>2, AppendOrder
    <3> QED BY <1>2, <1>3, <1>7, <2>1, <3>1
  <2>2. CASE k = NoKey
    BY <1>3, <1>8, <2>2, NilAssumption
  <2> QED BY <1>6, <2>1, <2>2
<1>10. On(self, "lru")' = (On(self, "lru") \ {r}) \cup (IF k \in Key THEN {r} ELSE {})
  <2>1. CASE k \in Key
    <3>1. Range(Append(t, r)) = Range(t) \cup {r}
      BY <1>2, AppendProps
    <3> QED BY <1>1, <1>2, <1>5, <1>7, <2>1, <3>1
  <2>2. CASE k = NoKey
    BY <1>1, <1>2, <1>5, <1>8, <2>2, NilAssumption
  <2> QED BY <1>6, <2>1, <2>2
<1>11. W \subseteq Key /\ k \notin W /\ V \ {k} = W /\ (k \in V <=> k \in Key)
  <2>1. W \subseteq Key
    BY <1>1, <1>4 DEF KeysApart, Others
  <2>2. ASSUME NEW x \in On(self, "lru") \ {r}, k \in Key PROVE key[x] # k
    <3>1. x \in Resident(self)' /\ r \in Resident(self)'
      BY <1>10, <2>2 DEF Resident
    <3> QED BY <1>1, <1>4, <1>7, <2>2, <3>1 DEF KeysApart
  <2>3. k \notin W
    BY <1>6, <2>1, <2>2, NilAssumption DEF Others
  <2> QED BY <1>6, <1>7, <1>8, <2>1, <2>3, NilAssumption
<1>12. Unpinned' = V
  <2>1. Unpinned' = {key'[x] : x \in On(self, "lru")'}
    BY DEF Unpinned
  <2>2. CASE k \in Key
    BY <1>1, <1>7, <1>10, <2>1, <2>2 DEF Others
  <2>3. CASE k = NoKey
    BY <1>1, <1>8, <1>10, <2>1, <2>3, NilAssumption DEF Others
  <2> QED BY <1>6, <2>2, <2>3
<1>13. \A x, y \in Node : Before(s, x, y) => x \in On(self, "lru") /\ y \in On(self, "lru")
  <2>1. Range(s) = {s[i] : i \in 1..Len(s)}
    BY <1>1, RangeEquality
  <2> QED BY <1>1, <2>1 DEF Before
<1>14. \A x \in On(self, "lru") : key[x] \in W <=> x # r
  BY <1>1, <1>4 DEF Others, KeysApart
<1>15. new \subseteq Key \X Key /\ Older' \subseteq Key \X Key
  BY <1>4, <1>11 DEF OlderByNode
<1>16. ASSUME NEW a \in Key, NEW b \in Key
       PROVE  <<a, b>> \in Older' <=> <<a, b>> \in new
  <2>1. <<a, b>> \in new <=>
          \/ <<a, b>> \in Older /\ a \in W /\ b \in W
          \/ k \in Key /\ a \in W /\ b = k
    BY <1>11
  <2> HIDE DEF new
  <2>2. <<a, b>> \in Older' <=>
          \E x, y \in Node : Before(lru(self)', x, y) /\ a = key'[x] /\ b = key'[y]
    BY <1>4 DEF OlderByNode
  <2>3. <<a, b>> \in Older <=>
          \E x, y \in Node : Before(s, x, y) /\ a = key[x] /\ b = key[y]
    BY <1>4 DEF OlderByNode, s
  <2>4. ASSUME <<a, b>> \in Older' PROVE <<a, b>> \in new
    <3>1. PICK x \in Node, y \in Node : Before(lru(self)', x, y) /\ a = key'[x] /\ b = key'[y]
      BY <2>2, <2>4
    <3>2. CASE Before(s, x, y) /\ x # r /\ y # r
      BY <1>13, <1>14, <2>1, <2>3, <3>1, <3>2
    <3>3. CASE k \in Key /\ x \in Range(s) \ {r} /\ y = r
      BY <1>1, <1>7, <1>14, <2>1, <3>1, <3>3
    <3> QED BY <1>9, <3>1, <3>2, <3>3
  <2>5. ASSUME <<a, b>> \in new PROVE <<a, b>> \in Older'
    <3>1. CASE <<a, b>> \in Older /\ a \in W /\ b \in W
      <4>1. PICK x \in Node, y \in Node : Before(s, x, y) /\ a = key[x] /\ b = key[y]
        BY <2>3, <3>1
      <4>2. x # r /\ y # r
        BY <1>13, <1>14, <3>1, <4>1
      <4> QED BY <1>9, <2>2, <4>1, <4>2
    <3>2. CASE k \in Key /\ a \in W /\ b = k
      <4>1. PICK x \in On(self, "lru") \ {r} : a = key[x]
        BY <3>2 DEF Others
      <4>2. Before(lru(self)', x, r)
        BY <1>1, <1>9, <3>2, <4>1
      <4> QED BY <1>1, <1>7, <2>2, <3>2, <4>1, <4>2
    <3> QED BY <2>1, <2>5, <3>1, <3>2
  <2> QED BY <2>4, <2>5
<1>17. Older' = new
  <2> HIDE DEF new
  <2>1. ASSUME NEW p \in Key \X Key PROVE p \in Older' <=> p \in new
    <3>1. p[1] \in Key /\ p[2] \in Key /\ p = <<p[1], p[2]>>
      OBVIOUS
    <3>2. <<p[1], p[2]>> \in Older' <=> <<p[1], p[2]>> \in new
      BY <1>16, <3>1
    <3> QED BY <3>1, <3>2
  <2>2. \A p \in Older' : p \in Key \X Key
    BY <1>15
  <2>3. \A p \in new : p \in Key \X Key
    BY <1>15
  <2> QED BY <2>1, <2>2, <2>3
<1> QED BY <1>12, <1>17 DEF Policy!Order

(* What the policy sees of a key, in terms of the node the table finds.    *)
LEMMA KeysSeen ==
  ASSUME Inv, NEW k \in Key
  PROVE  /\ table[k] # Nil => /\ table[k] \in Node /\ table[k] \in Resident(self)
                              /\ key[table[k]] = k /\ refs[table[k]] \in Nat
                              /\ table[k] \in On(self, "lru") <=> refs[table[k]] = 1
         /\ k \in Unpinned <=> table[k] # Nil /\ refs[table[k]] = 1
         /\ PinCount[k] \in Nat
         /\ PinCount[k] > 0 <=> table[k] # Nil /\ refs[table[k]] > 1
         /\ k \in Policy!resident <=> table[k] # Nil
<1>1. ASSUME table[k] # Nil
      PROVE  /\ table[k] \in Node /\ table[k] \in Resident(self)
             /\ key[table[k]] = k /\ refs[table[k]] \in Nat /\ refs[table[k]] > 0
             /\ table[k] \in On(self, "lru") <=> refs[table[k]] = 1
  <2>1. key[table[k]] = k /\ table[k] \in Resident(self)
    BY <1>1, SelfTag DEF Inv, CoreInv, TableAgrees
  <2> QED BY <2>1, SelfTag, RefTells DEF Inv, TypeOK
<1>2. k \in Unpinned <=> table[k] # Nil /\ refs[table[k]] = 1
  <2>1. ASSUME k \in Unpinned PROVE table[k] # Nil /\ refs[table[k]] = 1
    <3>1. PICK e \in On(self, "lru") : k = key[e]
      BY <2>1 DEF Unpinned
    <3>2. e \in Node /\ e \in Resident(self)
      BY <3>1, LruList DEF Inv, TypeOK
    <3>3. table[k] = e
      BY <3>1, <3>2, SelfTag DEF Inv, CoreInv, TableAgrees
    <3> QED BY <1>1, <3>1, <3>2, <3>3, NilAssumption
  <2>2. ASSUME table[k] # Nil, refs[table[k]] = 1 PROVE k \in Unpinned
    BY <1>1, <2>2 DEF Unpinned
  <2> QED BY <2>1, <2>2
<1>3. PinCount[k] = IF table[k] = Nil THEN 0 ELSE refs[table[k]] - 1
  BY DEF PinCount
<1>4. PinCount[k] \in Nat /\ (PinCount[k] > 0 <=> table[k] # Nil /\ refs[table[k]] > 1)
  BY <1>1, <1>3
<1>5. k \in Policy!resident <=> table[k] # Nil
  BY <1>1, <1>2, <1>4 DEF Policy!resident
<1> QED BY <1>1, <1>2, <1>4, <1>5

(* The keys of the unpinned nodes, with and without those of r.            *)
LEMMA OthersAre ==
  ASSUME CoreTypeOK, CoreInv, NEW r \in Node
  PROVE  /\ r \notin On(self, "lru") => Others(r) = Unpinned
         /\ r \in Resident(self) => Others(r) = Unpinned \ {key[r]}
         /\ r \in On(self, "lru") => Others(r) \cup {key[r]} = Unpinned
<1>1. KeysApart
  BY KeysDiffer
<1>2. \A x \in On(self, "lru") : x \in Resident(self)
  BY LruList
<1> QED BY <1>1, <1>2 DEF Others, Unpinned, KeysApart

(* A node moves to the list `to': the order of the unpinned keys.          *)
LEMMA MovedOrder ==
  ASSUME CoreTypeOK, CoreInv, CoreTypeOK', CoreInv', NEW r \in Node, NEW to \in Kind,
         \A x \in Node : x # r => key'[x] = key[x],
         list' = move(list, <<self, to>>, r)
  PROVE  /\ to # "lru" => Policy!Order(Others(r), NoKey)
         /\ to = "lru" /\ key'[r] \in Key => Policy!Order(Others(r) \cup {key'[r]}, key'[r])
<1>1. lru(self)' = IF to = "lru" THEN Append(RemoveFirst(lru(self), r), r)
                                 ELSE RemoveFirst(lru(self), r)
  BY ZenonT(60), SelfTag, MoveLists DEF lru, Kind
<1>2. ASSUME to # "lru" PROVE Policy!Order(Others(r), NoKey)
  BY <1>1, <1>2, Ordered
<1>3. ASSUME to = "lru", key'[r] \in Key
      PROVE  Policy!Order(Others(r) \cup {key'[r]}, key'[r])
  <2> DEFINE k == key'[r]
  <2>1. /\ k \in Key /\ key'[r] = k
        /\ lru(self)' = Append(RemoveFirst(lru(self), r), r)
    BY <1>1, <1>3
  <2> HIDE DEF k
  <2>2. Policy!Order(Others(r) \cup {k}, k)
    BY <2>1, Ordered
  <2> QED BY <2>2 DEF k
<1> QED BY <1>2, <1>3

(* A pinned node stays where it is: the order stays.                       *)
LEMMA StillOrder ==
  ASSUME CoreTypeOK, CoreInv, CoreTypeOK', CoreInv', NEW r \in Node,
         UNCHANGED <<list, key>>, r \notin On(self, "lru")
  PROVE  Policy!Order(Others(r), NoKey)
<1>1. /\ lru(self) \in Seq(Node) /\ Inj(lru(self))
      /\ r \notin Range(lru(self))
  BY LruList
<1>2. RemoveFirst(lru(self), r) = lru(self)
  BY <1>1, RemoveFirstIs
<1>3. lru(self)' = lru(self)
  BY DEF lru
<1> QED BY <1>2, <1>3, Ordered

(* The free list: its length is the room of the policy.                    *)
LEMMA MovedRoom ==
  ASSUME CoreTypeOK, CoreInv, NEW r \in Node, NEW to \in Kind, to # "free",
         list' = move(list, <<self, to>>, r)
  PROVE  /\ r \notin On(self, "free") => UNCHANGED Room
         /\ r \in On(self, "free") => Room' = Room - 1
<1>1. "free" \in Kind /\ <<self, "free">> \in Tag \X Kind
  BY SelfTag DEF Kind
<1>2. free(self) \in Seq(Node) /\ Inj(free(self)) /\ On(self, "free") = Range(free(self))
  <2>1. free(self) \in Seq(Node) /\ On(self, "free") = Range(free(self))
    BY <1>1 DEF CoreTypeOK, free, On
  <2>2. Inj(free(self))
    BY <1>1 DEF CoreInv, OneList, LinkedOnce, Inj, free
  <2> QED BY <2>1, <2>2
<1>3. free(self)' = RemoveFirst(free(self), r)
  BY <1>1, SelfTag, MoveLists DEF free
<1>4. Len(RemoveFirst(free(self), r)) = IF r \in Range(free(self)) THEN Len(free(self)) - 1
                                                                   ELSE Len(free(self))
  BY <1>2, RemoveFirstProps
<1> QED BY <1>2, <1>3, <1>4 DEF Room

(* What the policy hears of a call that returns r.                         *)
LEMMA Answers ==
  ASSUME NEW op, NEW r, NEW k, Returns(op, r),
         \/ r # Nil /\ key'[r] = k
         \/ r = Nil /\ k = NoKey
  PROVE  Policy!Answer(op, k)
<1>1. ret'.op = op /\ ret'.node = r
  BY DEF Returns
<1>2. Answered' = [op |-> op, key |-> k]
  BY <1>1 DEF Answered, KeyOf
<1> QED BY <1>2 DEF Policy!Answer

LEMMA NoAnswer == ret' = NoRet => Policy!Answer("none", NoKey)
<1> SUFFICES ASSUME ret' = NoRet PROVE Policy!Answer("none", NoKey)
  OBVIOUS
<1>1. Returns("none", Nil)
  BY DEF Returns, NoRet
<1> QED BY <1>1, Answers

(* The reference count of a cached node becomes n: its pins.               *)
LEMMA PinsOf ==
  ASSUME Inv, NEW k \in Key, table[k] # Nil, NEW n \in Nat,
         UNCHANGED table, refs' = [refs EXCEPT ![table[k]] = n]
  PROVE  PinCount' = [PinCount EXCEPT ![k] = n - 1]
<1>1. /\ table[k] \in Node /\ refs \in [Node -> Nat]
      /\ \A j \in Key : table[j] # Nil => table[j] \in Node /\ key[table[j]] = j
  BY KeysSeen DEF Inv, TypeOK, CoreTypeOK
<1>2. ASSUME NEW j \in Key
      PROVE  (IF table'[j] = Nil THEN 0 ELSE refs'[table'[j]] - 1)
               = IF j = k THEN n - 1 ELSE PinCount[j]
  <2>1. PinCount[j] = IF table[j] = Nil THEN 0 ELSE refs[table[j]] - 1
    BY DEF PinCount
  <2>2. CASE j = k
    BY <1>1, <2>2
  <2>3. CASE j # k
    <3>1. table[j] # table[k] \/ table[j] = Nil
      BY <1>1, <2>3
    <3> QED BY <1>1, <2>1, <2>3, <3>1
  <2> QED BY <2>2, <2>3
<1>3. DOMAIN PinCount = Key /\ PinCount = [j \in Key |-> PinCount[j]]
  BY DEF PinCount
<1>4. PinCount' = [j \in Key |-> IF table'[j] = Nil THEN 0 ELSE refs'[table'[j]] - 1]
  BY DEF PinCount
<1>5. PinCount' = [j \in Key |-> IF j = k THEN n - 1 ELSE PinCount[j]]
  BY <1>2, <1>4
<1> QED BY <1>3, <1>5

(* The key k comes in, in node r, and what was in r, if anything, leaves.  *)
LEMMA PinsOfNew ==
  ASSUME Inv, Inv', NEW k \in Key, NEW r \in Node, table[k] = Nil,
         table'[k] = r,
         r \in Resident(self) => refs[r] = 1,
         \A x \in Node : x # r => refs'[x] = refs[x],
         \A j \in Key : j # k => table'[j] = IF table[j] = r THEN Nil ELSE table[j]
  PROVE  PinCount' = [PinCount EXCEPT ![k] = refs'[r] - 1]
<1>1. \A j \in Key : table[j] # Nil => /\ table[j] \in Node /\ key[table[j]] = j
                                       /\ table[j] \in Resident(self)
  BY KeysSeen
<1>2. ASSUME NEW j \in Key
      PROVE  (IF table'[j] = Nil THEN 0 ELSE refs'[table'[j]] - 1)
               = IF j = k THEN refs'[r] - 1 ELSE PinCount[j]
  <2>1. PinCount[j] = IF table[j] = Nil THEN 0 ELSE refs[table[j]] - 1
    BY DEF PinCount
  <2>2. CASE j = k
    BY <2>2, NilAssumption
  <2>3. CASE j # k /\ table[j] = r
    BY <1>1, <2>1, <2>3, NilAssumption
  <2>4. CASE j # k /\ table[j] # r
    BY <1>1, <2>1, <2>4
  <2> QED BY <2>2, <2>3, <2>4
<1>3. DOMAIN PinCount = Key /\ PinCount = [j \in Key |-> PinCount[j]]
  BY DEF PinCount
<1>4. PinCount' = [j \in Key |-> IF table'[j] = Nil THEN 0 ELSE refs'[table'[j]] - 1]
  BY DEF PinCount
<1>5. PinCount' = [j \in Key |-> IF j = k THEN refs'[r] - 1 ELSE PinCount[j]]
  BY <1>2, <1>4
<1> QED BY <1>3, <1>5

(* The policy sees nothing of the pins while no refs and no entry changes. *)
LEMMA PinsStay ==
  ASSUME UNCHANGED <<refs, table>> PROVE UNCHANGED PinCount
BY DEF PinCount

-----------------------------------------------------------------------------
(* A hit is a use of the key.                                              *)
LEMMA RefUses ==
  ASSUME Inv, Inv', NEW k \in Key, table[k] # Nil, ref(self, table[k]),
         UNCHANGED <<key, table>>
  PROVE  Policy!Use(k, TRUE)
<1> DEFINE r == table[k]
<1>1. /\ r \in Node /\ r \in Resident(self) /\ key[r] = k /\ refs[r] \in Nat
      /\ r \in On(self, "lru") <=> refs[r] = 1
      /\ k \in Policy!resident
  BY KeysSeen
<1>2. refs' = [refs EXCEPT ![r] = refs[r] + 1]
  BY DEF ref
<1>3. PinCount' = [PinCount EXCEPT ![k] = PinCount[k] + 1]
  <2>0. refs[r] + 1 \in Nat
    BY <1>1
  <2>1. PinCount' = [PinCount EXCEPT ![k] = (refs[r] + 1) - 1]
    BY <1>1, <1>2, <2>0, PinsOf
  <2>2. PinCount[k] = refs[r] - 1
    BY DEF PinCount
  <2>3. (refs[r] + 1) - 1 = (refs[r] - 1) + 1
    BY <1>1
  <2> QED BY <2>1, <2>2, <2>3
<1>4. Others(r) = Unpinned \ {k}
  BY <1>1, OthersAre DEF Inv, TypeOK
<1>5. Policy!Order(Unpinned \ {k}, NoKey) /\ UNCHANGED Room
  <2>1. CASE refs[r] = 1
    <3>1. list' = move(list, <<self, "in_use">>, r)
      BY <2>1 DEF ref
    <3>2. Policy!Order(Others(r), NoKey)
      BY <1>1, <3>1, MovedOrder DEF Inv, TypeOK, Kind
    <3>3. r \notin On(self, "free")
      BY <1>1, <2>1, SelfTag, OnUnique DEF Inv, TypeOK, CoreInv, OneList, Kind
    <3>4. UNCHANGED Room
      BY <1>1, <3>1, <3>3, MovedRoom DEF Inv, TypeOK, Kind
    <3> QED BY <1>4, <3>2, <3>4
  <2>2. CASE refs[r] # 1
    <3>1. UNCHANGED list
      BY <2>2 DEF ref
    <3>2. Policy!Order(Others(r), NoKey)
      BY <1>1, <2>2, <3>1, StillOrder DEF Inv, TypeOK
    <3> QED BY <1>4, <3>1, <3>2 DEF Room, free
  <2> QED BY <2>1, <2>2
<1> QED BY <1>1, <1>3, <1>5 DEF Policy!Use

LEMMA HitUses ==
  ASSUME Inv, Inv', NEW k \in Key, NEW pin \in BOOLEAN, table[k] # Nil,
         lookup_refresh(self, table[k], pin)
  PROVE  Policy!Use(k, pin)
<1> DEFINE r == table[k]
<1>1. /\ r \in Node /\ r \in Resident(self) /\ key[r] = k /\ refs[r] \in Nat
      /\ r \in On(self, "lru") <=> refs[r] = 1
      /\ k \in Unpinned <=> refs[r] = 1
      /\ PinCount[k] > 0 <=> refs[r] > 1
      /\ k \in Policy!resident
  BY KeysSeen
<1>2. UNCHANGED <<key, table>>
  BY DEF lookup_refresh
<1>3. CASE pin
  <2>1. ref(self, r)
    BY <1>3 DEF lookup_refresh
  <2> QED BY <1>2, <1>3, <2>1, RefUses
<1>4. CASE ~pin /\ refs[r] = 1
  <2>1. list' = move(list, <<self, "lru">>, r) /\ UNCHANGED refs
    BY <1>4 DEF lookup_refresh, lru_refresh
  <2>2. Policy!Order(Others(r) \cup {k}, k)
    BY <1>1, <1>2, <2>1, MovedOrder DEF Inv, TypeOK, Kind
  <2>3. Others(r) \cup {k} = Unpinned
    BY <1>1, <1>4, OthersAre DEF Inv, TypeOK
  <2>4. r \notin On(self, "free")
    BY <1>1, <1>4, SelfTag, OnUnique DEF Inv, TypeOK, CoreInv, OneList, Kind
  <2>5. UNCHANGED Room
    BY <1>1, <2>1, <2>4, MovedRoom DEF Inv, TypeOK, Kind
  <2>6. UNCHANGED PinCount
    BY <1>2, <2>1, PinsStay
  <2> QED BY <1>1, <1>4, <2>2, <2>3, <2>5, <2>6 DEF Policy!Use
<1>5. CASE ~pin /\ refs[r] # 1
  <2>1. UNCHANGED <<list, refs>>
    BY <1>5 DEF lookup_refresh
  <2>2. UNCHANGED <<Unpinned, Older, PinCount, Room>>
    BY <1>2, <2>1, PinsStay DEF Unpinned, Older, Room, On, lru, free
  <2>3. refs[r] > 1
    BY <1>1, <1>5, SelfTag, RefTells DEF Inv, TypeOK
  <2> QED BY <1>1, <1>5, <2>2, <2>3 DEF Policy!Use
<1> QED BY <1>3, <1>4, <1>5

(* The first node of the LRU list has the least recently used key.         *)
LEMMA OldestKey ==
  ASSUME CoreTypeOK, CoreInv, lru(self) # <<>>
  PROVE  Policy!LeastRecent(key[Head(lru(self))])
<1> DEFINE s == lru(self)
           r == Head(lru(self))
<1>1. /\ s \in Seq(Node) /\ Inj(s) /\ On(self, "lru") = Range(s)
      /\ On(self, "lru") \subseteq Node
      /\ \A x \in Node : x \in On(self, "lru") => x \in Resident(self)
  BY LruList
<1>2. Len(s) \in Nat /\ Len(s) > 0 /\ r = s[1] /\ Range(s) = {s[i] : i \in 1..Len(s)}
  BY <1>1, EmptySeq, RangeEquality
<1>3. KeysApart /\ OlderByNode
  BY KeysDiffer, OlderIs
<1>4. key[r] \in Unpinned
  BY <1>1, <1>2 DEF Unpinned
<1>5. ASSUME NEW j \in Unpinned, <<j, key[r]>> \in Older PROVE FALSE
  <2>1. PICK x \in Node, y \in Node : Before(s, x, y) /\ j = key[x] /\ key[r] = key[y]
    BY <1>3, <1>5 DEF OlderByNode
  <2>2. PICK m \in 1..Len(s), n \in 1..Len(s) : m < n /\ s[m] = x /\ s[n] = y
    BY <2>1 DEF Before
  <2>3. y = r
    BY <1>1, <1>2, <1>3, <2>1, <2>2 DEF KeysApart
  <2> QED BY <1>2, <2>2, <2>3, <1>1 DEF Inj
<1> QED BY <1>4, <1>5 DEF Policy!LeastRecent

-----------------------------------------------------------------------------
(* Each call is an action of the policy.                                   *)

(* insert of a key that is not there adds it, or replaces the least        *)
(* recently used.                                                          *)
LEMMA InsertEnters ==
  ASSUME Inv, Inv', NEW k \in Key, NEW pin \in BOOLEAN, NEW r,
         table[k] = Nil, insert_new(self, k, pin, r), Returns("insert", r)
  PROVE  Policy!Add(k, pin) \/ Policy!Replace(k, pin)
<1> DEFINE to == IF pin THEN "in_use" ELSE "lru"
<1>0. to \in Kind /\ to # "free" /\ (to = "lru" <=> ~pin)
  BY DEF Kind
<1>1. /\ CoreTypeOK /\ CoreInv /\ CoreTypeOK' /\ CoreInv'
      /\ r \in On(self, "free") \cup On(self, "lru")
  BY SelfTag, InsertKeeps DEF Inv, TypeOK
<1>2. /\ r \in Node /\ r # Nil
      /\ \A j \in Key : table[j] # Nil => /\ table[j] \in Resident(self)
                                          /\ table[j] \in Node /\ key[table[j]] = j
  BY <1>1, SelfTag, OnNodes, KeysSeen, NilAssumption DEF Kind
<1>3. /\ CanAlloc(self) /\ r = alloc_node(self)
      /\ key' = [key EXCEPT ![r] = k]
      /\ refs' = [refs EXCEPT ![r] = IF pin THEN 2 ELSE 1]
      /\ table' = [AllocTable(self) EXCEPT ![k] = r]
      /\ list' = move(list, <<self, to>>, r)
  BY DEF insert_new
<1>4. /\ key'[r] = k
      /\ refs'[r] = IF pin THEN 2 ELSE 1
      /\ \A x \in Node : x # r => key'[x] = key[x] /\ refs'[x] = refs[x]
  BY <1>1, <1>2, <1>3 DEF CoreTypeOK
<1>5. k \notin Policy!resident
  BY KeysSeen
<1>6. Policy!Answer("insert", k)
  BY <1>2, <1>4, Answers
<1>7. /\ pin => Policy!Order(Others(r), NoKey)
      /\ ~pin => Policy!Order(Others(r) \cup {k}, k)
  <2> HIDE DEF to
  <2> QED BY ZenonT(60), <1>0, <1>1, <1>2, <1>3, <1>4, MovedOrder
<1>8. /\ r \notin On(self, "free") => UNCHANGED Room
      /\ r \in On(self, "free") => Room' = Room - 1
  <2> HIDE DEF to
  <2> QED BY <1>0, <1>1, <1>2, <1>3, MovedRoom
<1>9. r \in Resident(self) => refs[r] = 1 /\ r \in On(self, "lru")
  <2>1. r \in On(self, "free") => r \notin Resident(self)
    BY <1>1, SelfTag, OnUnique DEF Resident, CoreInv, OneList, Kind
  <2> QED BY <1>1, <2>1, SelfTag DEF CoreInv, RefState
<1>10. table'[k] = r /\ \A j \in Key : j # k => table'[j] = IF table[j] = r THEN Nil ELSE table[j]
  <2>1. table \in [Key -> Node \cup {Nil}]
    BY <1>1 DEF CoreTypeOK
  <2>2. CASE Evicts(self)
    <3>1. r \in On(self, "lru") /\ r \in Resident(self)
      BY <1>3, <2>2, <1>1, SelfTag, OnNodes
         DEF CanAlloc, Evicts, alloc_node, lru, Kind, Resident
    <3>2. key[r] \in Key /\ table[key[r]] = r
      BY <1>1, <3>1, SelfTag DEF CoreInv, TableAgrees
    <3>3. table' = [[table EXCEPT ![key[r]] = Nil] EXCEPT ![k] = r]
      BY <1>3, <2>2 DEF AllocTable
    <3>4. \A j \in Key : table[j] = r <=> j = key[r]
      BY <1>2, <3>2
    <3> QED BY <2>1, <3>2, <3>3, <3>4
  <2>3. CASE ~Evicts(self)
    <3>1. r \in On(self, "free")
      BY <1>3, <2>3, <1>1, SelfTag, OnNodes DEF Evicts, alloc_node, free, Kind
    <3>2. r \notin Resident(self)
      BY <1>1, <3>1, SelfTag, OnUnique DEF Resident, CoreInv, OneList, Kind
    <3>3. table' = [table EXCEPT ![k] = r]
      BY <1>3, <2>3 DEF AllocTable
    <3>4. \A j \in Key : table[j] # r
      BY <1>2, <3>2
    <3> QED BY <2>1, <3>3, <3>4
  <2> QED BY <2>2, <2>3
<1>11. PinCount' = [PinCount EXCEPT ![k] = refs'[r] - 1]
  BY <1>2, <1>4, <1>9, <1>10, PinsOfNew
<1>12. /\ pin => PinCount' = [PinCount EXCEPT ![k] = 1]
       /\ ~pin => UNCHANGED PinCount
  <2>1. DOMAIN PinCount = Key /\ PinCount = [j \in Key |-> PinCount[j]] /\ PinCount[k] = 0
    BY DEF PinCount
  <2>2. pin => refs'[r] - 1 = 1
    BY <1>4
  <2>3. ~pin => refs'[r] - 1 = 0
    BY <1>4
  <2>4. [PinCount EXCEPT ![k] = 0] = PinCount
    BY <2>1
  <2> QED BY <1>11, <2>2, <2>3, <2>4
<1>13. ASSUME NEW U, U = Others(r) PROVE Policy!Enter(k, pin, U)
  BY <1>7, <1>12, <1>13 DEF Policy!Enter
<1>14. Room \in Nat /\ (Evicts(self) <=> Room = 0)
  <2>1. free(self) \in Seq(Node)
    BY <1>1, SelfTag DEF CoreTypeOK, free, Kind
  <2> QED BY <2>1, EmptySeq DEF Room, Evicts
<1>15. CASE Evicts(self)
  <2>1. /\ lru(self) # <<>> /\ r = Head(lru(self))
        /\ r \in On(self, "lru") /\ r \in Resident(self)
    BY <1>1, <1>3, <1>15, SelfTag, OnNodes
       DEF CanAlloc, Evicts, alloc_node, lru, free, Kind, Resident
  <2>2. Policy!LeastRecent(key[r])
    BY <1>1, <2>1, OldestKey
  <2>3. key[r] \in Unpinned /\ Policy!Enter(k, pin, Unpinned \ {key[r]})
    <3>1. Others(r) = Unpinned \ {key[r]}
      BY <1>1, <1>2, <2>1, OthersAre
    <3>2. key[r] \in Unpinned
      BY <2>1 DEF Unpinned
    <3>3. Policy!Enter(k, pin, Unpinned \ {key[r]})
      BY <1>13, <3>1
    <3> QED BY <3>2, <3>3
  <2>4. UNCHANGED Room
    BY <1>1, <1>8, <2>1, SelfTag, OnUnique DEF CoreInv, OneList, Kind
  <2>5. Policy!Replace(k, pin)
    BY <1>5, <1>6, <1>14, <1>15, <2>2, <2>3, <2>4 DEF Policy!Replace
  <2> QED BY <2>5
<1>16. CASE ~Evicts(self)
  <2>1. r \in On(self, "free")
    BY <1>1, <1>3, <1>16, SelfTag, OnNodes DEF Evicts, alloc_node, free, Kind
  <2>2. r \notin On(self, "lru")
    BY <1>1, <2>1, SelfTag, OnUnique DEF CoreInv, OneList, Kind
  <2>3. Policy!Enter(k, pin, Unpinned)
    BY <1>1, <1>2, <1>13, <2>2, OthersAre
  <2>4. Room > 0
    BY <1>14, <1>16
  <2>5. Policy!Add(k, pin)
    BY <1>5, <1>6, <1>8, <2>1, <2>3, <2>4 DEF Policy!Add
  <2> QED BY <2>5
<1> QED BY <1>15, <1>16

(* A call that changes nothing in the cache.                               *)
LEMMA SeenUnchanged ==
  ASSUME UNCHANGED coreVars
  PROVE  UNCHANGED <<Unpinned, PinCount, Older, Room>>
BY DEF coreVars, Unpinned, PinCount, Older, Room, On, lru, free

LEMMA InsertSteps ==
  ASSUME Inv, Inv', NEW k \in Key, NEW pin \in BOOLEAN, Insert(k, pin)
  PROVE  Policy!Next
<1>1. PICK r \in Node \cup {Nil} : insert_impl(self, k, pin, r) /\ Returns("insert", r)
  BY DEF Insert
<1>2. CASE r = table[k] /\ r # Nil /\ lookup_refresh(self, r, pin)
  <2>1. Policy!Use(k, pin)
    BY <1>2, HitUses
  <2>2. key'[r] = k
    BY <1>2, KeysSeen DEF lookup_refresh
  <2>3. Policy!Answer("insert", k)
    BY <1>1, <1>2, <2>2, Answers
  <2>4. Policy!Hit("insert", k, pin)
    BY <2>1, <2>3 DEF Policy!Hit
  <2> QED BY <2>4 DEF Policy!Next
<1>3. CASE table[k] = Nil /\ insert_new(self, k, pin, r)
  <2>1. Policy!Add(k, pin) \/ Policy!Replace(k, pin)
    BY <1>1, <1>3, InsertEnters
  <2> QED BY <2>1 DEF Policy!Next
<1>4. CASE table[k] = Nil /\ alloc_fails(self, r)
  <2>1. ~CanAlloc(self) /\ r = Nil /\ UNCHANGED coreVars
    BY <1>4 DEF alloc_fails
  <2>2. Room = 0 /\ Unpinned = {}
    <3>1. free(self) = <<>> /\ lru(self) = <<>>
      BY <2>1 DEF CanAlloc
    <3>2. Range(<<>>) = {}
      BY DEF Range
    <3> QED BY <3>1, <3>2 DEF Room, Unpinned, On, lru
  <2>3. k \notin Policy!resident
    BY <1>4, KeysSeen
  <2>4. Policy!Answer("insert", NoKey)
    BY <1>1, <2>1, Answers
  <2>5. Policy!Full(k)
    BY <2>1, <2>2, <2>3, <2>4, SeenUnchanged DEF Policy!Full
  <2> QED BY <2>5 DEF Policy!Next
<1> QED BY <1>1, <1>2, <1>3, <1>4 DEF insert_impl

LEMMA LookupSteps ==
  ASSUME Inv, Inv', NEW k \in Key, NEW pin \in BOOLEAN, LookupKey(k, pin)
  PROVE  Policy!Next
<1>1. PICK r \in Node \cup {Nil} : lookup_impl(self, k, pin, r) /\ Returns("lookup", r)
  BY DEF LookupKey
<1>2. CASE r = table[k] /\ r # Nil /\ lookup_refresh(self, r, pin)
  <2>1. Policy!Use(k, pin)
    BY <1>2, HitUses
  <2>2. key'[r] = k
    BY <1>2, KeysSeen DEF lookup_refresh
  <2>3. Policy!Answer("lookup", k)
    BY <1>1, <1>2, <2>2, Answers
  <2>4. Policy!Hit("lookup", k, pin)
    BY <2>1, <2>3 DEF Policy!Hit
  <2> QED BY <2>4 DEF Policy!Next
<1>3. CASE table[k] = Nil /\ r = Nil /\ UNCHANGED coreVars
  <2>1. k \notin Policy!resident
    BY <1>3, KeysSeen
  <2>2. Policy!Answer("lookup", NoKey)
    BY <1>1, <1>3, Answers
  <2>3. Policy!Miss(k)
    BY <1>3, <2>1, <2>2, SeenUnchanged DEF Policy!Miss
  <2> QED BY <2>3 DEF Policy!Next
<1> QED BY <1>1, <1>2, <1>3 DEF lookup_impl

LEMMA InstallSteps ==
  ASSUME Inv, Inv', NEW k \in Key, Install(k)
  PROVE  Policy!Next
<1>1. PICK r \in Node : install_impl(self, k, r) /\ Returns("install", r)
  BY DEF Install
<1>2. table[k] = Nil /\ "lru" \in Kind /\ "lru" # "free" /\ "free" \in Kind
  BY DEF Install, Kind
<1>3. /\ CoreTypeOK /\ CoreInv /\ CoreTypeOK' /\ CoreInv'
      /\ r \notin Resident(self) /\ r \notin On(self, "lru")
  BY <1>1, <1>2, SelfTag, InstallKeeps DEF Inv, TypeOK, IsResident, Resident
<1>4. /\ key' = [key EXCEPT ![r] = k]
      /\ refs' = [refs EXCEPT ![r] = 1]
      /\ table' = [table EXCEPT ![k] = r]
      /\ list' = move(list, <<self, "lru">>, r)
  BY <1>1 DEF install_impl
<1>5. /\ key'[r] = k /\ refs'[r] = 1 /\ table'[k] = r
      /\ \A x \in Node : x # r => key'[x] = key[x] /\ refs'[x] = refs[x]
      /\ \A j \in Key : j # k => table'[j] = table[j]
  BY <1>3, <1>4 DEF CoreTypeOK
<1>6. \A j \in Key : table[j] # r
  <2>1. \A j \in Key : table[j] # Nil => table[j] \in Resident(self)
    BY KeysSeen
  <2> QED BY <1>3, <2>1, NilAssumption
<1>7. r \notin On(self, "free")
  <2>1. erased(self) # <<>> => r \in On(self, "erased")
    BY <1>1, <1>3, SelfTag, OnNodes DEF install_impl, install_node, erased, Kind
  <2>2. erased(self) = <<>> => r \notin PoolNodes \cup extra_pool
    BY <1>1 DEF install_impl, install_node
  <2>3. \A x \in On(self, "free") : x \in PoolNodes \cup extra_pool
    BY <1>2, <1>3, SelfTag DEF CoreInv, OneList, NoLeak
  <2>4. r \in On(self, "erased") => r \notin On(self, "free")
    BY <1>2, <1>3, SelfTag, OnUnique DEF CoreInv, OneList, Kind
  <2> QED BY <2>1, <2>2, <2>3, <2>4
<1>8. Others(r) = Unpinned
  BY <1>3, OthersAre
<1>9. Policy!Order(Unpinned \cup {k}, k)
  BY <1>2, <1>3, <1>4, <1>5, <1>8, MovedOrder
<1>10. UNCHANGED Room
  BY <1>2, <1>3, <1>4, <1>7, MovedRoom
<1>11. UNCHANGED PinCount
  <2>1. \A j \in Key : j # k => table'[j] = IF table[j] = r THEN Nil ELSE table[j]
    BY <1>5, <1>6
  <2>2. PinCount' = [PinCount EXCEPT ![k] = refs'[r] - 1]
    BY <1>2, <1>3, <1>5, <2>1, PinsOfNew
  <2>3. DOMAIN PinCount = Key /\ PinCount = [j \in Key |-> PinCount[j]] /\ PinCount[k] = 0
    BY <1>2 DEF PinCount
  <2>4. refs'[r] - 1 = 0
    BY <1>5
  <2>5. [PinCount EXCEPT ![k] = 0] = PinCount
    BY <2>3
  <2> QED BY <2>2, <2>4, <2>5
<1>12. Policy!Answer("install", k)
  BY <1>1, <1>5, NilAssumption, Answers
<1>13. k \notin Policy!resident
  BY <1>2, KeysSeen
<1>14. Policy!Install(k)
  BY <1>9, <1>10, <1>11, <1>12, <1>13 DEF Policy!Install
<1> QED BY <1>14 DEF Policy!Next

LEMMA ReleaseSteps ==
  ASSUME Inv, Inv', NEW e \in Node, Release(e)
  PROVE  Policy!Next
<1> DEFINE k == key[e]
<1>1. e \in Resident(self) /\ pins[e] = refs[e] - 1 /\ pins[e] > 0
  BY DEF Inv, PinsCounted, Release
<1>2. /\ k \in Key /\ table[k] = e /\ e # Nil
      /\ CoreTypeOK /\ CoreInv /\ CoreTypeOK' /\ CoreInv'
  BY <1>1, SelfTag, NilAssumption DEF Inv, CoreInv, TableAgrees, TypeOK
<1> HIDE DEF k
<1>3. /\ unref(self, e) /\ UNCHANGED <<key, table>> /\ ret' = NoRet
      /\ refs' = [refs EXCEPT ![e] = refs[e] - 1]
  BY DEF Release, release_handle, unref
<1>4. refs[e] \in Nat /\ refs[e] > 1 /\ e \notin On(self, "lru") /\ e \in On(self, "in_use")
  BY <1>1, <1>2, SelfTag, RefTells
<1>5. PinCount[k] = refs[e] - 1 /\ PinCount[k] > 0 /\ (PinCount[k] = 1 <=> refs[e] = 2)
  <2>1. PinCount[k] = refs[e] - 1
    BY <1>2 DEF PinCount
  <2> HIDE DEF PinCount
  <2> QED BY <1>4, <2>1
<1>6. PinCount' = [PinCount EXCEPT ![k] = PinCount[k] - 1]
  <2>1. refs[e] - 1 \in Nat
    BY <1>4
  <2>2. PinCount' = [PinCount EXCEPT ![k] = (refs[e] - 1) - 1]
    BY <1>2, <1>3, <2>1, PinsOf
  <2> QED BY <1>5, <2>2
<1>7. Policy!Answer("none", NoKey)
  BY <1>3, NoAnswer
<1>8. CASE refs[e] = 2
  <2>1. list' = move(list, <<self, "lru">>, e)
    BY <1>3, <1>8 DEF unref
  <2>2. Others(e) = Unpinned
    BY <1>2, <1>4, OthersAre
  <2>3. key'[e] = k /\ "lru" \in Kind /\ "lru" # "free" /\ key' = key
    BY <1>3 DEF k, Kind
  <2>4. Policy!Order(Unpinned \cup {k}, k)
    BY <1>2, <2>1, <2>2, <2>3, MovedOrder
  <2>5. e \notin On(self, "free")
    BY <1>2, <1>4, SelfTag, OnUnique DEF CoreInv, OneList, Kind
  <2>6. UNCHANGED Room
    BY <1>2, <2>1, <2>3, <2>5, MovedRoom
  <2>7. Policy!Release(k)
    BY <1>5, <1>6, <1>7, <1>8, <2>4, <2>6 DEF Policy!Release
  <2> QED BY <1>2, <2>7 DEF Policy!Next
<1>9. CASE refs[e] # 2
  <2>1. UNCHANGED list
    BY <1>3, <1>4, <1>9 DEF unref
  <2>2. UNCHANGED <<Unpinned, Older, Room>>
    BY <1>3, <2>1 DEF Unpinned, Older, Room, On, lru, free
  <2>3. Policy!Release(k)
    BY <1>5, <1>6, <1>7, <1>9, <2>2 DEF Policy!Release
  <2> QED BY <1>2, <2>3 DEF Policy!Next
<1> QED BY <1>8, <1>9

LEMMA PinSteps ==
  ASSUME Inv, Inv', NEW e \in Node, Pin(e)
  PROVE  Policy!Next
<1>1. /\ e \in Resident(self) /\ ref(self, e) /\ UNCHANGED <<key, table>> /\ ret' = NoRet
  BY DEF Pin, pin_handle
<1>2. key[e] \in Key /\ table[key[e]] = e /\ e # Nil
  BY <1>1, SelfTag, NilAssumption DEF Inv, CoreInv, TableAgrees
<1>3. Policy!Use(key[e], TRUE)
  BY <1>1, <1>2, RefUses
<1>4. Policy!Answer("none", NoKey)
  BY <1>1, NoAnswer
<1> QED BY <1>2, <1>3, <1>4 DEF Policy!Next

LEMMA EraseSteps ==
  ASSUME Inv, Inv', NEW e \in Node, Erase(e)
  PROVE  Policy!Next
<1>1. PICK ok \in BOOLEAN :
        erase_handle(self, e, ok) /\ Returns("erase", IF ok THEN e ELSE Nil)
  BY DEF Erase
<1>2. CASE ok
  <2> DEFINE k == key[e]
  <2>1. /\ refs[e] = 1
        /\ list' = move(list, <<self, "erased">>, e)
        /\ refs' = [refs EXCEPT ![e] = refs[e] - 1]
        /\ table' = [table EXCEPT ![k] = Nil]
        /\ key' = key
    BY <1>1, <1>2 DEF erase_handle, Erasable
  <2>2. e \in Resident(self) \cup On(self, "erased")
    BY DEF Inv, Issued, Erase
  <2>3. e \in On(self, "lru") /\ e \in Resident(self)
    BY <2>1, <2>2, SelfTag DEF Inv, CoreInv, RefState, Resident
  <2>4. /\ k \in Key /\ table[k] = e /\ e # Nil
        /\ CoreTypeOK /\ CoreInv /\ CoreTypeOK' /\ CoreInv'
    BY <2>3, SelfTag, NilAssumption DEF Inv, CoreInv, TableAgrees, TypeOK
  <2>5. k \in Unpinned
    BY <2>3 DEF Unpinned
  <2>6. Others(e) = Unpinned \ {k}
    BY <2>3, <2>4, OthersAre
  <2> HIDE DEF k
  <2>7. "erased" \in Kind /\ "erased" # "free" /\ "erased" # "lru"
    BY DEF Kind
  <2>8. Policy!Order(Unpinned \ {k}, NoKey)
    BY <2>1, <2>4, <2>6, <2>7, MovedOrder
  <2>9. e \notin On(self, "free")
    BY <2>3, <2>4, SelfTag, OnUnique DEF CoreInv, OneList, Kind
  <2>10. UNCHANGED Room
    BY <2>1, <2>4, <2>7, <2>9, MovedRoom
  <2>11. UNCHANGED PinCount
    <3>1. \A j \in Key : table[j] # Nil => table[j] \in Node /\ key[table[j]] = j
      BY KeysSeen
    <3>2. refs \in [Node -> Nat] /\ table \in [Key -> Node \cup {Nil}]
      BY <2>4 DEF CoreTypeOK
    <3>3. ASSUME NEW j \in Key
          PROVE  (IF table'[j] = Nil THEN 0 ELSE refs'[table'[j]] - 1)
                   = (IF table[j] = Nil THEN 0 ELSE refs[table[j]] - 1)
      <4>1. CASE j = k
        BY <2>1, <2>4, <3>2, <4>1
      <4>2. CASE j # k
        <5>1. table'[j] = table[j] /\ (table[j] # Nil => table[j] # e)
          BY <2>1, <2>4, <3>1, <3>2, <4>2 DEF k
        <5> QED BY <2>1, <3>1, <3>2, <5>1
      <4> QED BY <4>1, <4>2
    <3> QED BY <3>3 DEF PinCount
  <2>12. Policy!Answer("erase", k)
    BY <1>1, <1>2, <2>1, <2>4, Answers DEF k
  <2>13. Policy!Erase(k)
    BY <2>5, <2>8, <2>10, <2>11, <2>12 DEF Policy!Erase
  <2> QED BY <2>4, <2>13 DEF Policy!Next
<1>3. CASE ~ok
  <2>1. UNCHANGED coreVars /\ Returns("erase", Nil)
    BY <1>1, <1>3 DEF erase_handle
  <2>2. Policy!Answer("erase", NoKey)
    BY <2>1, Answers
  <2>3. Policy!EraseFails
    BY <2>1, <2>2, SeenUnchanged DEF Policy!EraseFails
  <2> QED BY <2>3 DEF Policy!Next
<1> QED BY <1>2, <1>3

(* At first the cache is empty and the free list is the pool.              *)
LEMMA InitSeen == Init => Policy!Init
<1> SUFFICES ASSUME Init PROVE Policy!Init
  OBVIOUS
<1>1. /\ lru(self) = <<>> /\ free(self) = pool[self] /\ On(self, "lru") = {}
      /\ table = [k \in Key |-> Nil] /\ ret = NoRet
  <2>1. lru(self) = <<>> /\ free(self) = pool[self]
    BY SelfTag DEF Init, CoreInit, lru, free, Kind
  <2>2. Range(<<>>) = {}
    BY DEF Range
  <2> QED BY <2>1, <2>2 DEF Init, CoreInit, On, lru
<1>2. Unpinned = {} /\ Room = Len(pool[self])
  BY <1>1 DEF Unpinned, Room
<1>3. PinCount = [k \in Key |-> 0]
  BY <1>1 DEF PinCount
<1>4. Older = {}
  BY <1>1 DEF Older
<1>5. Answered = [op |-> "none", key |-> NoKey]
  BY <1>1 DEF Answered, NoRet, KeyOf
<1> QED BY <1>2, <1>3, <1>4, <1>5 DEF Policy!Init

LEMMA StepSeen == Inv /\ Inv' /\ [Next]_vars => [Policy!Next]_(Policy!policyVars)
<1> SUFFICES ASSUME Inv, Inv', [Next]_vars
             PROVE  Policy!Next \/ UNCHANGED Policy!policyVars
  OBVIOUS
<1>1. ASSUME NEW k \in Key, NEW pin \in BOOLEAN, Insert(k, pin) PROVE Policy!Next
  BY <1>1, InsertSteps
<1>2. ASSUME NEW k \in Key, NEW pin \in BOOLEAN, LookupKey(k, pin) PROVE Policy!Next
  BY <1>2, LookupSteps
<1>3. ASSUME NEW k \in Key, Install(k) PROVE Policy!Next
  BY <1>3, InstallSteps
<1>4. ASSUME NEW e \in Node, Release(e) PROVE Policy!Next
  BY <1>4, ReleaseSteps
<1>5. ASSUME NEW e \in Node, Pin(e) PROVE Policy!Next
  BY <1>5, PinSteps
<1>6. ASSUME NEW e \in Node, Erase(e) PROVE Policy!Next
  BY <1>6, EraseSteps
<1>7. CASE UNCHANGED vars
  <2>1. UNCHANGED coreVars /\ ret' = ret /\ key' = key
    BY <1>7 DEF vars, coreVars
  <2>2. UNCHANGED Answered
    BY <2>1 DEF Answered, KeyOf
  <2> QED BY <2>1, <2>2, SeenUnchanged DEF Policy!policyVars
<1> QED BY <1>1, <1>2, <1>3, <1>4, <1>5, <1>6, <1>7 DEF Next

(* Every behaviour of LRUCache, seen through the keys of its nodes, is one *)
(* of the LRU policy: it evicts the least recently used unpinned key, and  *)
(* only when the free list is empty; it fails only when all is pinned; and *)
(* it answers with the key it was asked for or with none.                  *)
THEOREM ImplementsLRUPolicy == Spec => ImplementsPolicy
<1>1. Init => Policy!Init
  BY InitSeen
<1>2. Inv /\ Inv' /\ [Next]_vars => [Policy!Next]_(Policy!policyVars)
  BY StepSeen
<1> QED BY <1>1, <1>2, Invariance, PTL DEF Spec, ImplementsPolicy, Policy!Spec
=============================================================================
