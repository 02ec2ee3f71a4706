------------------------------- MODULE LRUWalk -------------------------------
(***************************************************************************)
(* The for_each functions of LRUCache (lru_cache.h): a loop that follows   *)
(* the links of a list from its dummy head and calls fn on every node.     *)
(* They do not copy the list, so what fn does to the cache while it runs   *)
(* happens to the list being walked.  The calls fn may make are those of   *)
(* the client of LRUCache, under the contract ByCallback states.           *)
(***************************************************************************)
EXTENDS LRUCache

UntilWalks == {"for_each_until_lru", "for_each_until_mru"}
MruWalks == {"for_each_mru", "for_each_until_mru"}
Walks == UntilWalks \cup MruWalks \cup {"for_each", "for_each_lru", "for_each_in_use"}

VARIABLES
  walk,    \* the for_each function that runs, or "none"
  kind,    \* the list it is on
  h,       \* the loop variable: the node fn is called with
  (* For the properties: the nodes there were when the walk began, in the  *)
  (* order promised; those that no call has touched since; the nodes fn    *)
  (* was called with, and those it was called with again.                  *)
  start, stayed, seen, again

walkVars == <<walk, kind, h, start, stayed, seen, again>>
allVars == <<vars, walkVars>>

WalkInit ==
  /\ Init
  /\ walk = "none" /\ kind = "lru" /\ h = Nil
  /\ start = <<>> /\ stayed = {} /\ seen = <<>> /\ again = {}

-----------------------------------------------------------------------------
(* The nodes of a list in the order in which walk w meets them.            *)
Nodes(w, L) == IF w \in MruWalks THEN Reverse(list[<<self, L>>]) ELSE list[<<self, L>>]
Promised(w) ==
  CASE w = "for_each" -> lru(self) \o in_use(self)
    [] w = "for_each_in_use" -> in_use(self)
    [] w \in MruWalks -> Reverse(lru(self))
    [] OTHER -> lru(self)

(* What the dummy head and the node e lead to; the dummy head itself is Nil. *)
First(w, L) == IF Nodes(w, L) = <<>> THEN Nil ELSE Head(Nodes(w, L))

(* Mutant: always along next, also in a walk that goes along prev.         *)
After_next(w, L, e) ==
  LET s == list[<<self, L>>]  i == IndexFirstSubSeq(<<e>>, s)
  IN IF i = Len(s) THEN Nil ELSE s[i + 1]

After(w, L, e) ==
  LET s == Nodes(w, L)  i == IndexFirstSubSeq(<<e>>, s)
  IN IF i = Len(s) THEN Nil ELSE s[i + 1]

Return ==
  /\ walk' = "none" /\ kind' = "lru" /\ h' = Nil
  /\ start' = <<>> /\ stayed' = {} /\ seen' = <<>> /\ again' = {}

Call(w, L, e) ==
  /\ walk' = w /\ kind' = L /\ h' = e
  /\ IF e \in Range(seen) THEN again' = again \cup {e} /\ UNCHANGED seen
     ELSE seen' = Append(seen, e) /\ UNCHANGED again

(* Mutant: for_each forgets the in-use list.                               *)
LoopTest_lru(w, L, e) == IF e # Nil THEN Call(w, L, e) ELSE Return

(* The loop test: fn is called with e unless it is the dummy head.  The    *)
(* loop of for_each over the LRU list is followed by one over the in-use   *)
(* list.                                                                   *)
LoopTest(w, L, e) ==
  LET second == First(w, "in_use")
  IN CASE e # Nil -> Call(w, L, e)
       [] e = Nil /\ w = "for_each" /\ L = "lru" /\ second # Nil -> Call(w, "in_use", second)
       [] OTHER -> Return

Begin(w) ==
  LET L == IF w = "for_each_in_use" THEN "in_use" ELSE "lru"
  IN /\ walk = "none" /\ Promised(w) # <<>>
     /\ LoopTest(w, L, First(w, L))
     /\ start' = Promised(w) /\ stayed' = Range(Promised(w))
     /\ UNCHANGED vars

(* fn returns (true), and the loop goes on.                                *)
FnReturns ==
  /\ walk # "none"
  /\ LoopTest(walk, kind, After(walk, kind, h))
  /\ walk' # "none" => UNCHANGED <<start, stayed>>
  /\ UNCHANGED vars

(* fn returns false.                                                       *)
FnStops == walk \in UntilWalks /\ Return /\ UNCHANGED vars

(***************************************************************************)
(* fn calls a function of the cache.  The code states no contract, but it  *)
(* is lost when h leaves its place: the next link of h is then one of      *)
(* another list, whose dummy head the loop does not test for.  And a loop  *)
(* along next does not end if fn keeps putting nodes at the end of the     *)
(* list; one along prev does not mind.                                     *)
(***************************************************************************)
Touched == {e \in Node : e = ret'.node \/ pins'[e] # pins[e] \/ key'[e] # key[e]}

ByCallback ==
  /\ walk # "none"
  /\ Next
  /\ h \notin Touched
  /\ walk \notin MruWalks =>
       \A e \in Touched \cap Range(list'[<<self, kind>>]) : kind = "in_use" /\ e \in On(self, kind)
  /\ stayed' = stayed \ Touched
  /\ UNCHANGED <<walk, kind, h, start, seen, again>>

ByClient == walk = "none" /\ Next /\ UNCHANGED walkVars

WalkNext == ByClient \/ ByCallback \/ FnReturns \/ FnStops \/ \E w \in Walks : Begin(w)

(* Every call of fn returns: the client's function is not itself endless.  *)
WalkSpec == WalkInit /\ [][WalkNext]_allVars /\ WF_allVars(FnReturns)

-----------------------------------------------------------------------------
InOrder(s, x, y) == \E i, j \in 1..Len(s) : i < j /\ s[i] = x /\ s[j] = y

(* "For each item in the LRU list, call fn(key, handle) in LRU order"      *)
(* (lru_cache.h:64, and 60-76 for the others): whatever fn did to other    *)
(* nodes on the way, a walk that ends because its loop does has called fn  *)
(* with every node fn left alone; one that fn stopped leaves out such      *)
(* nodes only as lie ahead of the one it stopped at; and the calls were in *)
(* the order promised.                                                     *)
VisitsInOrder ==
  [][walk # "none" /\ walk' = "none" =>
       /\ walk \notin UntilWalks \/ FnReturns => stayed \subseteq Range(seen)
       /\ \A y \in stayed : y \in Range(seen) \/ InOrder(Nodes(walk, kind), h, y)
       /\ \A x, y \in stayed :
            InOrder(start, x, y) /\ y \in Range(seen) => InOrder(seen, x, y)]_allVars

(* fn is called once with a node it leaves alone, and with no node twice,  *)
(* except that for_each walks two lists, and fn may move a node from one   *)
(* to the other in between.                                                *)
VisitsOnce == again \cap stayed = {} /\ (walk # "for_each" => again = {})

(* Every walk ends, also when fn changes the cache.                        *)
WalkEnds == walk # "none" ~> walk = "none"
=============================================================================
