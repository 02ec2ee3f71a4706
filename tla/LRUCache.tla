------------------------------- MODULE LRUCache -------------------------------
(***************************************************************************)
(* A stand-alone LRUCache and the client that calls its public functions.  *)
(* The calls run one after the other: the class has no internal            *)
(* concurrency, and the client serializes its calls.  What the client must *)
(* respect is stated by the asserts and comments of lru_cache.h: capacity  *)
(* is positive when it inserts, it releases what it has pinned, it pins    *)
(* what is in the cache, it installs a key that is not there.              *)
(***************************************************************************)
EXTENDS LRUCore

CONSTANTS
  self,     \* the only tag
  MaxRefs   \* bound on refs, a uint32_t in the code

ASSUME SelfAssumption == Tag = {self} /\ MaxRefs \in Nat \ {0}

VARIABLES
  pins,     \* how many pins of each node the client has not released
  ret       \* the last call and the handle (for erase: of the erased node) it returned

vars == <<coreVars, pins, ret>>

NoRet == [op |-> "none", node |-> Nil]
Op == {"none", "insert", "lookup", "erase", "install"}

Init == CoreInit /\ pins = [e \in Node |-> 0] /\ ret = NoRet

Returns(op, r) == ret' = [op |-> op, node |-> r]

(* The client has pinned the handle r it got.                              *)
Pinned(pin, r) == pins' = IF pin /\ r # Nil THEN [pins EXCEPT ![r] = @ + 1] ELSE pins

(* Bound: a node is not pinned again once it has MaxRefs references.       *)
RefsBound(e) == e # Nil => refs[e] < MaxRefs

Insert(k, pin) ==
  /\ capacity[self] > 0
  /\ pin => RefsBound(table[k])
  /\ \E r \in Node \cup {Nil} :
       insert_impl(self, k, pin, r) /\ Returns("insert", r) /\ Pinned(pin, r)

LookupKey(k, pin) ==
  /\ pin => RefsBound(table[k])
  /\ \E r \in Node \cup {Nil} :
       lookup_impl(self, k, pin, r) /\ Returns("lookup", r) /\ Pinned(pin, r)

Release(e) ==
  /\ pins[e] > 0
  /\ release_handle(self, e)
  /\ pins' = [pins EXCEPT ![e] = @ - 1]
  /\ ret' = NoRet

Pin(e) ==
  /\ e \in Resident(self) /\ RefsBound(e)
  /\ pin_handle(self, e)
  /\ pins' = [pins EXCEPT ![e] = @ + 1]
  /\ ret' = NoRet

(* e is any handle the client ever got: the node may have been reused for  *)
(* another key since, or erased already.                                   *)
Erase(e) ==
  /\ key[e] # NoKey
  /\ \E ok \in BOOLEAN :
       erase_handle(self, e, ok) /\ Returns("erase", IF ok THEN e ELSE Nil)
  /\ UNCHANGED pins

Install(k) ==
  /\ table[k] = Nil
  /\ \E r \in Node : install_impl(self, k, r) /\ Returns("install", r)
  /\ UNCHANGED pins

Next ==
  \/ \E k \in Key, pin \in BOOLEAN : Insert(k, pin) \/ LookupKey(k, pin)
  \/ \E k \in Key : Install(k)
  \/ \E e \in Node : Release(e) \/ Pin(e) \/ Erase(e)

Spec == Init /\ [][Next]_vars

-----------------------------------------------------------------------------
(* Types of the whole state; see CoreTypeOK.                               *)
TypeOK ==
  /\ CoreTypeOK
  /\ pins \in [Node -> Nat]
  /\ ret \in [op : Op, node : Node \cup {Nil}]

(* refs counts the cache's own reference and the client's unreleased pins: *)
(* a lost or a double count would free a node in use or pin it for ever.   *)
PinsCounted ==
  \A e \in Node : pins[e] = IF e \in Resident(self) THEN refs[e] - 1 ELSE 0

(* insert returns nullptr only when every slot is pinned (alloc_node: "No  *)
(* more space").                                                           *)
InsertFailsOnlyIfFull ==
  ret.op = "insert" /\ ret.node = Nil =>
    \A e \in Node : e \in Resident(self) \cup On(self, "free") => pins[e] > 0

(* "A pinned node must be unpinned later": until then no call, on whatever *)
(* key or handle, gives the node to another key or takes it from the table. *)
PinnedStays ==
  [][\A e \in Node : pins[e] > 0 => key'[e] = key[e] /\ table'[key[e]] = e]_vars

(* A node a handle was ever returned for is in the table or erased, never  *)
(* free: so an erase through a handle of any age that finds refs = 1 finds *)
(* the node on the LRU list, as it assumes.                                *)
Issued == \A e \in Node : key[e] # NoKey => e \in Resident(self) \cup On(self, "erased")

(* The inductive invariant.                                                *)
Inv == TypeOK /\ CoreInv /\ PinsCounted /\ Issued

-----------------------------------------------------------------------------
(* Every call is a step of the LRU policy on the keys.                     *)
KeyOf(e) == IF e = Nil THEN NoKey ELSE key[e]

Unpinned == {key[e] : e \in On(self, "lru")}
PinCount == [k \in Key |-> IF table[k] = Nil THEN 0 ELSE refs[table[k]] - 1]
Older == {p \in Key \X Key : \E i, j \in 1..Len(lru(self)) :
            i < j /\ p = <<key[lru(self)[i]], key[lru(self)[j]]>>}
Room == Len(free(self))
Answered == [op |-> ret.op, key |-> KeyOf(ret.node)]

Policy == INSTANCE LRUPolicy WITH
  Size <- Len(pool[self]), unpinned <- Unpinned, pinned <- PinCount, older <- Older,
  room <- Room, answer <- Answered

(* LRUCache implements LRUPolicy: it evicts the least recently used        *)
(* unpinned key, only when there is no room, and answers as the policy does. *)
ImplementsPolicy == Policy!Spec
=============================================================================
