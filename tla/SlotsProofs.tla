---------------------------- MODULE SlotsProofs ----------------------------
(***************************************************************************)
(* What holds of an upstream for any number of upstreams and of those that *)
(* use it: the safety properties of its places (Slots, slots.rs) for any   *)
(* requests, phantoms and limits, and at the end that its pauses (Health,  *)
(* health.rs) are not shortened, for any settings.                         *)
(*                                                                         *)
(* The properties of places are proved together: which upstream a waiting  *)
(* request is let into (Wake) is only well defined because it waits on     *)
(* nothing outside its list, and the books only balance because a place is *)
(* held by somebody who runs.  Bookkeeping is what has to be added to make *)
(* them inductive.                                                         *)
(***************************************************************************)
EXTENDS Slots, Lemmas, FiniteSetTheorems

(* Those whom the assignment f seats on u; Held(u) is Holding(at, u). *)
Holding(f, u) == {h \in Holders : f[h] = u}

Bookkeeping ==
  /\ \A h \in Holders : at[h] # Nowhere => pc[h] = "run"
  /\ \A r \in Requests : /\ freed[r] \subseteq ToSet(list[r])
                         /\ freed[r] # {} => pc[r] = "wait"
                         /\ pc[r] \in {"look", "join", "wait"} => list[r] # <<>>
  /\ \A p \in Phantoms : pc[p] = "owing" =>
       \E u \in Upstreams : list[p] = <<u>> /\ Limited(u)
  /\ \A u \in Upstreams : ~Limited(u) => pool[u].queue = <<>>

Inv == TypeOK /\ PlacesConserved /\ NothingLeftBehind /\ Bookkeeping

(***************************************************************************)
(* The helpers.                                                            *)
(***************************************************************************)

(* A nonempty set of natural numbers has a least element. *)
LEMMA LeastNatural ==
  ASSUME NEW T \in SUBSET Nat, T # {}
  PROVE  \E n \in T : \A m \in T : n <= m
<1> DEFINE R == OpToRel(<, Nat)
<1>1. IsWellFoundedOn(R, Nat)  BY NatLessThanWellFounded
<1>2. \A m, n \in Nat : m < n => <<m, n>> \in R  BY DEF OpToRel
<1> HIDE DEF R
<1>3. PICK n \in T : \A m \in T : ~(<<m, n>> \in R)  BY <1>1, WFMin
<1>4. \A m \in T : n <= m
  <2> SUFFICES ASSUME NEW m \in T  PROVE n <= m  OBVIOUS
  <2>1. m \in Nat /\ n \in Nat  OBVIOUS
  <2>2. ~(m < n)  BY <1>2, <1>3, <2>1, Zenon
  <2> QED  BY <2>1, <2>2
<1> QED  BY <1>4

(* If one of the candidates is in S, First finds one that is. *)
LEMMA FirstFacts ==
  ASSUME NEW U, NEW l \in Seq(U), NEW S, ToSet(l) \cap S # {}
  PROVE  First(l, S) \in S /\ First(l, S) \in ToSet(l) /\ First(l, S) \in U
<1> DEFINE T == {i \in DOMAIN l : l[i] \in S}
<1>1. Len(l) \in Nat /\ DOMAIN l = 1 .. Len(l)  BY LenProperties
<1>2. T \in SUBSET Nat /\ T # {}  BY <1>1 DEF ToSet
<1>3. PICK i \in T : \A j \in T : i <= j  BY <1>2, LeastNatural
<1>4. \A j \in 1 .. i - 1 : l[j] \notin S
  <2> SUFFICES ASSUME NEW j \in 1 .. i - 1, l[j] \in S  PROVE FALSE  OBVIOUS
  <2>1. i \in 1 .. Len(l)  BY <1>1, <1>3
  <2>2. j \in T /\ ~(i <= j)  BY <1>1, <2>1
  <2> QED  BY <1>3, <2>2
<1>5. \E k \in DOMAIN l : l[k] \in S /\ \A j \in 1 .. k - 1 : l[j] \notin S
  BY <1>3, <1>4
<1>6. PICK k \in DOMAIN l : l[k] \in S /\ First(l, S) = l[k]  BY <1>5 DEF First
<1>7. l[k] \in U  BY <1>1, <1>6, ElementOfSeq
<1> QED  BY <1>6, <1>7 DEF ToSet

(* There are finitely many holders, so a place more is one more to count. *)
LEMMA SitDown ==
  ASSUME NEW f \in [Holders -> Upstreams \cup {Nowhere}], NEW h \in Holders,
         NEW u \in Upstreams, f[h] = Nowhere
  PROVE  LET g == [f EXCEPT ![h] = u]
         IN  /\ Cardinality(Holding(g, u)) = Cardinality(Holding(f, u)) + 1
             /\ \A v \in Upstreams \ {u} : Holding(g, v) = Holding(f, v)
<1> DEFINE g == [f EXCEPT ![h] = u]
<1>1. IsFiniteSet(Holders)  BY HoldersAssumption, FS_Union DEF Holders
<1>2. IsFiniteSet(Holding(f, u))  BY <1>1, FS_Subset DEF Holding
<1>3. h \notin Holding(f, u)  BY NowhereAssumption DEF Holding
<1>4. Holding(g, u) = Holding(f, u) \cup {h}  BY DEF Holding
<1>5. \A v \in Upstreams \ {u} : Holding(g, v) = Holding(f, v)
  BY NowhereAssumption DEF Holding
<1> QED  BY <1>2, <1>3, <1>4, <1>5, FS_AddElement

(* A place less is one less to count. *)
LEMMA StandUp ==
  ASSUME NEW f \in [Holders -> Upstreams \cup {Nowhere}], NEW h \in Holders,
         NEW u \in Upstreams, f[h] = u
  PROVE  LET g == [f EXCEPT ![h] = Nowhere]
         IN  /\ Cardinality(Holding(g, u)) = Cardinality(Holding(f, u)) - 1
             /\ \A v \in Upstreams \ {u} : Holding(g, v) = Holding(f, v)
<1> DEFINE g == [f EXCEPT ![h] = Nowhere]
<1>1. IsFiniteSet(Holders)  BY HoldersAssumption, FS_Union DEF Holders
<1>2. IsFiniteSet(Holding(f, u))  BY <1>1, FS_Subset DEF Holding
<1>3. h \in Holding(f, u)  BY DEF Holding
<1>4. Holding(g, u) = Holding(f, u) \ {h}  BY NowhereAssumption DEF Holding
<1>5. \A v \in Upstreams \ {u} : Holding(g, v) = Holding(f, v)
  BY NowhereAssumption DEF Holding
<1> QED  BY <1>2, <1>3, <1>4, <1>5, FS_RemoveElement

(* The places held on an upstream are a natural number of them. *)
LEMMA HeldFacts ==
  ASSUME NEW u \in Upstreams
  PROVE  /\ Held(u) = Holding(at, u) /\ Held(u)' = Holding(at', u)
         /\ Cardinality(Held(u)) \in Nat
<1>1. IsFiniteSet(Holders)  BY HoldersAssumption, FS_Union DEF Holders
<1>2. IsFiniteSet(Held(u))  BY <1>1, FS_Subset DEF Held
<1> QED  BY <1>2, FS_CardinalityType DEF Held, Holding

(* Only requests queue. *)
LEMMA QueueFacts ==
  ASSUME TypeOK, NEW u \in Upstreams
  PROVE  pool[u].queue \in Seq(Requests) /\ ToSet(pool[u].queue) \subseteq Requests
<1>1. pool[u].queue \in Seq(Requests)  BY DEF TypeOK, BooksType
<1> QED  BY <1>1, LenProperties, ElementOfSeq DEF ToSet

(***************************************************************************)
(* What a step does to the balance of places, in the three forms it has.   *)
(***************************************************************************)

(* Nobody sits down or gets up, and the books say so. *)
LEMMA PlacesSame ==
  ASSUME PlacesConserved, UNCHANGED at,
         \A u \in Upstreams : /\ Limited(u)' <=> Limited(u)
                              /\ Limited(u) => Out(pool'[u]) = Out(pool[u])
  PROVE  PlacesConserved'
<1>1. ASSUME NEW u \in Upstreams
      PROVE  IF Limited(u)' THEN Out(pool'[u]) = Cardinality(Held(u)') ELSE Held(u)' = {}
  <2>1. Held(u)' = Held(u)  BY DEF Held
  <2>2. IF Limited(u) THEN Out(pool[u]) = Cardinality(Held(u)) ELSE Held(u) = {}
    BY DEF PlacesConserved
  <2> QED  BY <2>1, <2>2
<1> QED  BY <1>1 DEF PlacesConserved

(* h sits down on u. *)
LEMMA PlacesEnter ==
  ASSUME Inv, NEW h \in Holders, at[h] = Nowhere, NEW u \in Upstreams, Limited(u),
         at' = [at EXCEPT ![h] = u],
         Out(pool'[u]) = Out(pool[u]) + 1,
         \A v \in Upstreams : pool'[v].limit = pool[v].limit,
         \A v \in Upstreams \ {u} : Out(pool'[v]) = Out(pool[v])
  PROVE  PlacesConserved'
<1>1. at \in [Holders -> Upstreams \cup {Nowhere}]  BY DEF Inv, TypeOK
<1>2. /\ Cardinality(Holding(at', u)) = Cardinality(Holding(at, u)) + 1
      /\ \A v \in Upstreams \ {u} : Holding(at', v) = Holding(at, v)
  BY <1>1, SitDown
<1>3. \A v \in Upstreams : Limited(v)' <=> Limited(v)  BY DEF Limited
<1>4. ASSUME NEW v \in Upstreams
      PROVE  IF Limited(v)' THEN Out(pool'[v]) = Cardinality(Held(v)') ELSE Held(v)' = {}
  <2>1. IF Limited(v) THEN Out(pool[v]) = Cardinality(Held(v)) ELSE Held(v) = {}
    BY DEF Inv, PlacesConserved
  <2>2. CASE v = u  BY <1>2, <1>3, <2>1, <2>2, HeldFacts
  <2>3. CASE v # u  BY <1>2, <1>3, <2>1, <2>3, HeldFacts
  <2> QED  BY <2>2, <2>3
<1> QED  BY <1>4 DEF PlacesConserved

(* h gets up, from wherever it sits. *)
LEMMA PlacesLeave ==
  ASSUME Inv, NEW h \in Holders, DropSlot(h)
  PROVE  /\ pool' \in [Upstreams -> BooksType(Requests)]
         /\ at' \in [Holders -> Upstreams \cup {Nowhere}]
         /\ \A v \in Upstreams : /\ pool'[v].limit = pool[v].limit
                                 /\ pool'[v].queue = pool[v].queue
         /\ PlacesConserved'
<1>1. /\ at \in [Holders -> Upstreams \cup {Nowhere}]
      /\ pool \in [Upstreams -> BooksType(Requests)]
  BY DEF Inv, TypeOK
<1>2. at' = [at EXCEPT ![h] = Nowhere]  BY DEF DropSlot
<1>3. CASE at[h] \in Upstreams
  <2> DEFINE u == at[h]
  <2>1. pool' = [pool EXCEPT ![u] = GiveBack(@)]  BY <1>3 DEF DropSlot
  <2>2. /\ GiveBack(pool[u]) \in BooksType(Requests)
        /\ GiveBack(pool[u]).limit = pool[u].limit
        /\ GiveBack(pool[u]).queue = pool[u].queue
        /\ Out(GiveBack(pool[u])) = Out(pool[u]) - 1
    BY <1>1, <1>3, GiveBackFacts
  <2>3. \A v \in Upstreams : /\ pool'[v].limit = pool[v].limit
                             /\ pool'[v].queue = pool[v].queue
    BY <1>1, <2>1, <2>2
  <2>4. /\ Cardinality(Holding(at', u)) = Cardinality(Holding(at, u)) - 1
        /\ \A v \in Upstreams \ {u} : Holding(at', v) = Holding(at, v)
    BY <1>1, <1>2, <1>3, StandUp
  <2>5. ASSUME NEW v \in Upstreams
        PROVE  IF Limited(v)' THEN Out(pool'[v]) = Cardinality(Held(v)') ELSE Held(v)' = {}
    <3>1. IF Limited(v) THEN Out(pool[v]) = Cardinality(Held(v)) ELSE Held(v) = {}
      BY DEF Inv, PlacesConserved
    <3>2. Limited(v)' <=> Limited(v)  BY <2>3 DEF Limited
    <3>3. CASE v = u
      <4>1. Held(v) # {}  BY <3>3 DEF Held
      <4>2. pool'[v] = GiveBack(pool[v])  BY <1>1, <2>1, <3>3
      <4> QED  BY <2>2, <2>4, <3>1, <3>2, <3>3, <4>1, <4>2, HeldFacts
    <3>4. CASE v # u
      <4>1. pool'[v] = pool[v]  BY <1>1, <2>1, <3>4
      <4> QED  BY <2>4, <3>1, <3>2, <3>4, <4>1, HeldFacts
    <3> QED  BY <3>3, <3>4
  <2>6. PlacesConserved'  BY <2>5 DEF PlacesConserved
  <2> QED  BY <1>1, <1>2, <2>1, <2>2, <2>3, <2>6
<1>4. CASE at[h] \notin Upstreams
  <2>1. at[h] = Nowhere  BY <1>1, <1>4
  <2>2. at' = at /\ pool' = pool  BY <1>1, <1>2, <1>4, <2>1 DEF DropSlot
  <2>3. PlacesConserved'  BY <2>2, PlacesSame DEF Limited, Inv
  <2> QED  BY <1>1, <2>2, <2>3
<1> QED  BY <1>3, <1>4

(***************************************************************************)
(* The initial states.                                                     *)
(***************************************************************************)

LEMMA InitInv == Init => Inv
<1> SUFFICES ASSUME Init  PROVE Inv  OBVIOUS
<1>1. ASSUME NEW u \in Upstreams
      PROVE  /\ pool[u] \in BooksType(Requests) /\ pool[u].queue = <<>>
             /\ Limited(u) => Out(pool[u]) = 0
  <2>1. CASE pool[u] = NoPool
    <3>1. <<>> \in Seq(Requests)  BY EmptySeq
    <3> QED  BY <2>1, <3>1 DEF NoPool, BooksType, Limited
  <2>2. CASE \E l \in Limits : pool[u] = NewPool(l)
    <3>1. PICK l \in Limits : pool[u] = NewPool(l)  BY <2>2
    <3>2. l \in Nat  BY MaxLimitAssumption DEF Limits
    <3> QED  BY <3>1, <3>2, NewPoolFacts DEF NewPool
  <2> QED  BY <2>1, <2>2 DEF Init
<1>2. TypeOK
  <2>1. pool \in [Upstreams -> BooksType(Requests)]
    <3>1. pool = [u \in Upstreams |-> pool[u]]  BY DEF Init
    <3> QED  BY <1>1, <3>1
  <2>2. <<>> \in Seq(Upstreams)  BY EmptySeq
  <2> QED  BY <2>1, <2>2 DEF Init, TypeOK
<1>3. PlacesConserved
  <2>1. \A u \in Upstreams : Held(u) = {}  BY NowhereAssumption DEF Init, Held
  <2> QED  BY <1>1, <2>1, FS_EmptySet DEF PlacesConserved
<1>4. NothingLeftBehind
  <2>1. IsInjective(<<>>) /\ ToSet(<<>>) = {}  BY DEF IsInjective, ToSet
  <2> QED  BY <1>1, <2>1 DEF NothingLeftBehind
<1>5. Bookkeeping  BY <1>1 DEF Init, Bookkeeping, Holders
<1> QED  BY <1>2, <1>3, <1>4, <1>5 DEF Inv

(***************************************************************************)
(* The steps of a request.                                                 *)
(***************************************************************************)

LEMMA BeginInv == ASSUME Inv, NEW r \in Requests, Begin(r)  PROVE Inv'
<1> USE DEF Inv, Begin, Holders
<1>1. PICK l \in Lists : list' = [list EXCEPT ![r] = l]  OBVIOUS
<1>2. l \in Seq(Upstreams) /\ l # <<>>  BY ListsAssumption
<1>3. TypeOK'  BY <1>1, <1>2 DEF TypeOK
<1>4. PlacesConserved'  BY PlacesSame DEF Limited
<1>5. NothingLeftBehind'
  <2>1. \A u \in Upstreams : r \notin ToSet(pool[u].queue)  BY DEF NothingLeftBehind
  <2> QED  BY <2>1 DEF NothingLeftBehind, TypeOK
<1>6. Bookkeeping'
  <2>1. \A h \in Holders : at[h] # Nowhere => pc'[h] = "run"  BY DEF Bookkeeping, TypeOK
  <2>2. \A q \in Requests : /\ freed[q] \subseteq ToSet(list'[q])
                            /\ freed[q] # {} => pc'[q] = "wait"
                            /\ pc'[q] \in {"look", "join", "wait"} => list'[q] # <<>>
    BY <1>1, <1>2 DEF Bookkeeping, TypeOK
  <2>3. \A p \in Phantoms : pc'[p] = "owing" => pc[p] = "owing" /\ list'[p] = list[p]
    BY HoldersAssumption DEF TypeOK
  <2> QED  BY <2>1, <2>2, <2>3 DEF Bookkeeping, Limited
<1> QED  BY <1>3, <1>4, <1>5, <1>6

(* A request that has gone through the door of u, whichever way. *)
LEMMA EnterInv ==
  ASSUME Inv, NEW r \in Requests, NEW u \in Upstreams, at[r] = Nowhere,
         Enter(r, u), UNCHANGED list,
         pool' \in [Upstreams -> BooksType(Requests)],
         \A v \in Upstreams : pool'[v].limit = pool[v].limit,
         Limited(u) => Out(pool'[u]) = Out(pool[u]) + 1,
         \A v \in Upstreams : v # u \/ ~Limited(u) => Out(pool'[v]) = Out(pool[v]),
         \A v \in Upstreams : /\ IsInjective(pool'[v].queue)
                              /\ ToSet(pool'[v].queue) \subseteq ToSet(pool[v].queue) \ {r},
         \A v \in Upstreams : ~Limited(v) => pool'[v].queue = <<>>,
         freed' \in [Requests -> SUBSET Upstreams],
         freed'[r] = {}, \A q \in Requests \ {r} : freed'[q] = freed[q]
  PROVE  Inv'
<1> USE DEF Inv, Enter, Holders
<1>1. TypeOK'  BY DEF TypeOK
<1>2. PlacesConserved'
  <2>1. CASE Limited(u)
    <3>1. at' = [at EXCEPT ![r] = u]  BY <2>1
    <3>2. Out(pool'[u]) = Out(pool[u]) + 1  BY <2>1
    <3>3. \A v \in Upstreams \ {u} : Out(pool'[v]) = Out(pool[v])  OBVIOUS
    <3> QED  BY <2>1, <3>1, <3>2, <3>3, PlacesEnter
  <2>2. CASE ~Limited(u)
    <3>1. at' = at  BY <2>2 DEF TypeOK
    <3>2. \A v \in Upstreams : Out(pool'[v]) = Out(pool[v])  BY <2>2
    <3> QED  BY <3>1, <3>2, PlacesSame DEF Limited
  <2> QED  BY <2>1, <2>2
<1>3. NothingLeftBehind'
  <2>1. \A v \in Upstreams : ToSet(pool[v].queue) \subseteq Requests  BY QueueFacts
  <2>2. \A v \in Upstreams : \A q \in ToSet(pool'[v].queue) :
          pc'[q] = "wait" /\ v \in ToSet(list[q])
    BY <2>1 DEF NothingLeftBehind, TypeOK
  <2> QED  BY <2>2 DEF NothingLeftBehind
<1>4. Bookkeeping'
  <2>1. \A h \in Holders : at'[h] # Nowhere => pc'[h] = "run"
    BY DEF Bookkeeping, TypeOK
  <2>2. \A q \in Requests : /\ freed'[q] \subseteq ToSet(list[q])
                            /\ freed'[q] # {} => pc'[q] = "wait"
                            /\ pc'[q] \in {"look", "join", "wait"} => list[q] # <<>>
    BY DEF Bookkeeping, TypeOK
  <2>3. \A p \in Phantoms : pc'[p] = "owing" => pc[p] = "owing"
    BY HoldersAssumption DEF TypeOK
  <2>4. \A v \in Upstreams : Limited(v)' <=> Limited(v)  BY DEF Limited
  <2> QED  BY <2>1, <2>2, <2>3, <2>4 DEF Bookkeeping
<1> QED  BY <1>1, <1>2, <1>3, <1>4

(* Taking a place on u without waiting: what Look and Join do when they    *)
(* find one.                                                               *)
LEMMA TakeInv ==
  ASSUME Inv, NEW r \in Requests, NEW u \in Upstreams, pc[r] \in {"look", "join"},
         Enter(r, u), UNCHANGED <<list, freed>>,
         Limited(u) => Free(pool[u]) > 0 /\ pool' = [pool EXCEPT ![u] = Take(@)],
         ~Limited(u) => pool' = pool
  PROVE  Inv'
<1> USE DEF Holders
<1>1. TypeOK /\ NothingLeftBehind /\ Bookkeeping  BY DEF Inv
<1>2. at[r] = Nowhere /\ freed[r] = {}  BY <1>1 DEF Bookkeeping
<1>3. \A v \in Upstreams : pool[v] \in BooksType(Requests)  BY <1>1 DEF TypeOK
<1>4. \A v \in Upstreams : r \notin ToSet(pool[v].queue)  BY <1>1 DEF NothingLeftBehind
<1>5. /\ pool' \in [Upstreams -> BooksType(Requests)]
      /\ \A v \in Upstreams : pool'[v].limit = pool[v].limit /\ pool'[v].queue = pool[v].queue
      /\ Limited(u) => Out(pool'[u]) = Out(pool[u]) + 1
      /\ \A v \in Upstreams : v # u \/ ~Limited(u) => Out(pool'[v]) = Out(pool[v])
  <2>1. CASE Limited(u)
    <3>1. pool[u].avail > 0  BY <1>3, <2>1, FreeFacts DEF BooksType
    <3>2. /\ Take(pool[u]) \in BooksType(Requests)
          /\ Take(pool[u]).limit = pool[u].limit /\ Take(pool[u]).queue = pool[u].queue
          /\ Out(Take(pool[u])) = Out(pool[u]) + 1
      BY <1>3, <3>1, TakeFacts
    <3>3. /\ pool'[u] = Take(pool[u])
          /\ \A v \in Upstreams \ {u} : pool'[v] = pool[v]
          /\ pool' \in [Upstreams -> BooksType(Requests)]
      BY <1>1, <2>1, <3>2 DEF TypeOK
    <3> QED  BY <2>1, <3>2, <3>3
  <2>2. CASE ~Limited(u)  BY <1>1, <2>2 DEF TypeOK
  <2> QED  BY <2>1, <2>2
<1>6. \A v \in Upstreams : /\ IsInjective(pool'[v].queue)
                           /\ ToSet(pool'[v].queue) \subseteq ToSet(pool[v].queue) \ {r}
                           /\ ~Limited(v) => pool'[v].queue = <<>>
  BY <1>1, <1>4, <1>5 DEF NothingLeftBehind, Bookkeeping
<1>7. freed' \in [Requests -> SUBSET Upstreams]  BY <1>1 DEF TypeOK
<1> QED  BY <1>2, <1>5, <1>6, <1>7, EnterInv

LEMMA LookInv == ASSUME Inv, NEW r \in Requests, Look(r)  PROVE Inv'
<1> USE DEF Holders
<1>1. TypeOK /\ NothingLeftBehind /\ Bookkeeping  BY DEF Inv
<1> DEFINE open == {u \in ToSet(list[r]) : CanEnter(u)}
<1>2. CASE open = {}
  <2>1. pc[r] = "look" /\ pc' = [pc EXCEPT ![r] = "join"] /\ UNCHANGED <<pool, list, at, freed>>
    BY <1>2 DEF Look
  <2>2. TypeOK'  BY <1>1, <2>1 DEF TypeOK
  <2>3. PlacesConserved'  BY <2>1, PlacesSame DEF Limited, Inv
  <2>4. NothingLeftBehind'
    <3>1. \A v \in Upstreams : r \notin ToSet(pool[v].queue)
      BY <1>1, <2>1 DEF NothingLeftBehind
    <3> QED  BY <1>1, <2>1, <3>1 DEF NothingLeftBehind, TypeOK
  <2>5. Bookkeeping'
    BY <1>1, <2>1, HoldersAssumption DEF Bookkeeping, TypeOK, Limited
  <2> QED  BY <2>2, <2>3, <2>4, <2>5 DEF Inv
<1>3. CASE open # {}
  <2> DEFINE u == First(list[r], open)
  <2>1. list[r] \in Seq(Upstreams)  BY <1>1 DEF TypeOK
  <2>2. u \in open /\ u \in Upstreams  BY <1>3, <2>1, FirstFacts
  <2>3. /\ pc[r] = "look" /\ Enter(r, u) /\ UNCHANGED <<list, freed>>
        /\ pool' = IF Limited(u) THEN [pool EXCEPT ![u] = Take(@)] ELSE pool
    BY <1>3 DEF Look
  <2>4. Limited(u) => Free(pool[u]) > 0  BY <2>2 DEF CanEnter
  <2> HIDE DEF u
  <2> QED  BY <2>2, <2>3, <2>4, TakeInv
<1> QED  BY <1>2, <1>3

LEMMA JoinInv == ASSUME Inv, NEW r \in Requests, Join(r)  PROVE Inv'
<1> USE DEF Holders
<1> DEFINE pools == {u \in ToSet(list[r]) : Limited(u)}
           open  == {u \in pools : Free(pool[u]) > 0}
<1>1. TypeOK /\ PlacesConserved /\ NothingLeftBehind /\ Bookkeeping  BY DEF Inv
<1>2. pc[r] = "join" /\ UNCHANGED <<list, freed>>  BY DEF Join
<1>3. list[r] \in Seq(Upstreams) /\ list[r] # <<>>
  BY <1>1, <1>2 DEF TypeOK, Bookkeeping
<1>4. \/ pools = {} /\ Enter(r, Head(list[r])) /\ UNCHANGED pool
      \/ /\ open # {}
         /\ Enter(r, First(list[r], open))
         /\ pool' = [pool EXCEPT ![First(list[r], open)] = Take(@)]
      \/ /\ pools # {} /\ open = {}
         /\ pool' = [u \in Upstreams |-> IF u \in pools THEN Enqueue(pool[u], r)
                                                        ELSE pool[u]]
         /\ pc' = [pc EXCEPT ![r] = "wait"]
         /\ UNCHANGED at
  BY DEF Join
<1>5. CASE pools = {} /\ Enter(r, Head(list[r])) /\ UNCHANGED pool
  <2> DEFINE u == Head(list[r])
  <2>1. u \in Upstreams  BY <1>3, HeadTailProperties
  <2>2. u \in ToSet(list[r])  BY <1>3, LenProperties DEF ToSet
  <2>3. ~Limited(u)  BY <1>5, <2>2
  <2> HIDE DEF u
  <2> QED  BY <1>2, <1>5, <2>1, <2>3, TakeInv DEF u
<1>6. CASE /\ open # {}
           /\ Enter(r, First(list[r], open))
           /\ pool' = [pool EXCEPT ![First(list[r], open)] = Take(@)]
  <2> DEFINE u == First(list[r], open)
  <2>1. u \in open /\ u \in Upstreams  BY <1>3, <1>6, FirstFacts
  <2>2. Limited(u) /\ Free(pool[u]) > 0  BY <2>1
  <2>3. Enter(r, u) /\ pool' = [pool EXCEPT ![u] = Take(@)]  BY <1>6
  <2> HIDE DEF u
  <2> QED  BY <1>2, <2>1, <2>2, <2>3, TakeInv
<1>7. CASE /\ pools # {} /\ open = {}
           /\ pool' = [u \in Upstreams |-> IF u \in pools THEN Enqueue(pool[u], r)
                                                          ELSE pool[u]]
           /\ pc' = [pc EXCEPT ![r] = "wait"]
           /\ UNCHANGED at
  <2>1. \A u \in Upstreams : r \notin ToSet(pool[u].queue)
    BY <1>1, <1>2 DEF NothingLeftBehind
  <2>2. ASSUME NEW u \in Upstreams
        PROVE  /\ pool'[u] \in BooksType(Requests)
               /\ pool'[u].limit = pool[u].limit
               /\ Out(pool'[u]) = Out(pool[u])
               /\ IsInjective(pool'[u].queue)
               /\ u \in pools => ToSet(pool'[u].queue) = ToSet(pool[u].queue) \cup {r}
               /\ u \notin pools => pool'[u].queue = pool[u].queue
    <3>1. pool[u] \in BooksType(Requests) /\ IsInjective(pool[u].queue)
      BY <1>1 DEF TypeOK, NothingLeftBehind
    <3>2. CASE u \in pools
      <4>1. pool'[u] = Enqueue(pool[u], r)  BY <1>7, <3>2
      <4> DEFINE p == pool[u]
      <4> HIDE DEF p
      <4>2. /\ Enqueue(p, r) \in BooksType(Requests)
            /\ Enqueue(p, r).limit = p.limit
            /\ Out(Enqueue(p, r)) = Out(p)
            /\ IsInjective(Enqueue(p, r).queue)
            /\ ToSet(Enqueue(p, r).queue) = ToSet(p.queue) \cup {r}
        <5>1. p \in BooksType(Requests) /\ IsInjective(p.queue) /\ r \notin ToSet(p.queue)
          BY <2>1, <3>1 DEF p
        <5> QED  BY <5>1, EnqueueFacts
      <4> QED  BY <3>2, <4>1, <4>2 DEF p
    <3>3. CASE u \notin pools
      <4>1. pool'[u] = pool[u]  BY <1>7, <3>3
      <4> QED  BY <3>1, <3>3, <4>1
    <3> QED  BY <3>2, <3>3
  <2>3. TypeOK'
    <3>1. pool' \in [Upstreams -> BooksType(Requests)]  BY <1>7, <2>2
    <3> QED  BY <1>1, <1>2, <1>7, <3>1 DEF TypeOK
  <2>4. PlacesConserved'  BY <1>1, <1>7, <2>2, PlacesSame DEF Limited
  <2>5. NothingLeftBehind'
    <3>1. ASSUME NEW u \in Upstreams, NEW q \in ToSet(pool'[u].queue)
          PROVE  pc'[q] = "wait" /\ u \in ToSet(list'[q])
      <4>1. ToSet(pool[u].queue) \subseteq Requests  BY <1>1, QueueFacts
      <4>2. CASE q \in ToSet(pool[u].queue)
        BY <1>1, <1>2, <1>7, <4>1, <4>2 DEF NothingLeftBehind, TypeOK
      <4>3. CASE q \notin ToSet(pool[u].queue)
        <5>1. u \in pools /\ q = r  BY <2>2, <3>1, <4>3
        <5> QED  BY <1>1, <1>2, <1>7, <5>1 DEF TypeOK
      <4> QED  BY <4>2, <4>3
    <3> QED  BY <2>2, <3>1 DEF NothingLeftBehind
  <2>6. Bookkeeping'
    <3>1. \A h \in Holders : at'[h] # Nowhere => pc'[h] = "run"
      BY <1>1, <1>2, <1>7 DEF Bookkeeping, TypeOK
    <3>2. \A q \in Requests : /\ freed'[q] \subseteq ToSet(list'[q])
                              /\ freed'[q] # {} => pc'[q] = "wait"
                              /\ pc'[q] \in {"look", "join", "wait"} => list'[q] # <<>>
      BY <1>1, <1>2, <1>3, <1>7 DEF Bookkeeping, TypeOK
    <3>3. \A p \in Phantoms : pc'[p] = "owing" => pc[p] = "owing"
      BY <1>1, <1>7, HoldersAssumption DEF TypeOK
    <3>4. \A u \in Upstreams : Limited(u)' <=> Limited(u)  BY <2>2 DEF Limited
    <3>5. \A u \in Upstreams : ~Limited(u) => pool'[u].queue = <<>>
      BY <1>1, <2>2 DEF Bookkeeping
    <3> QED  BY <1>1, <1>2, <3>1, <3>2, <3>3, <3>4, <3>5 DEF Bookkeeping
  <2> QED  BY <2>3, <2>4, <2>5, <2>6 DEF Inv
<1> QED  BY <1>4, <1>5, <1>6, <1>7

(* A request that leaves every queue without a place, its limits and its   *)
(* list as they were: nothing of it is left behind.                        *)
LEMMA QuietQueues ==
  ASSUME Inv, NEW r \in Requests, at[r] = Nowhere, UNCHANGED <<list, at>>,
         NEW c \in {"run", "idle"}, pc' = [pc EXCEPT ![r] = c],
         \A v \in Upstreams : /\ pool'[v].limit = pool[v].limit
                              /\ IsInjective(pool'[v].queue)
                              /\ ToSet(pool'[v].queue) \subseteq ToSet(pool[v].queue) \ {r}
                              /\ ~Limited(v) => pool'[v].queue = <<>>,
         freed'[r] = {}, \A q \in Requests \ {r} : freed'[q] = freed[q]
  PROVE  NothingLeftBehind' /\ Bookkeeping'
<1> USE DEF Inv, Holders
<1>1. \A v \in Upstreams : ToSet(pool[v].queue) \subseteq Requests  BY QueueFacts
<1>2. \A v \in Upstreams : \A q \in ToSet(pool'[v].queue) :
        pc'[q] = "wait" /\ v \in ToSet(list[q])
  BY <1>1 DEF NothingLeftBehind, TypeOK
<1>3. NothingLeftBehind'  BY <1>2 DEF NothingLeftBehind
<1>4. \A h \in Holders : at[h] # Nowhere => pc'[h] = "run"
  BY DEF Bookkeeping, TypeOK
<1>5. \A q \in Requests : /\ freed'[q] \subseteq ToSet(list[q])
                          /\ freed'[q] # {} => pc'[q] = "wait"
                          /\ pc'[q] \in {"look", "join", "wait"} => list[q] # <<>>
  BY DEF Bookkeeping, TypeOK
<1>6. \A p \in Phantoms : pc'[p] = "owing" => pc[p] = "owing"
  BY HoldersAssumption DEF TypeOK
<1>7. \A v \in Upstreams : Limited(v)' <=> Limited(v)  BY DEF Limited
<1>8. Bookkeeping'  BY <1>4, <1>5, <1>6, <1>7 DEF Bookkeeping
<1> QED  BY <1>3, <1>8

(* Leaving every queue: what Abandon, upstream by upstream, does to the    *)
(* pools.                                                                  *)
LEMMA AbandonAllFacts ==
  ASSUME Inv, NEW r \in Requests, NEW v \in Upstreams
  PROVE  /\ Abandon(pool[v], r) \in BooksType(Requests)
         /\ Abandon(pool[v], r).limit = pool[v].limit
         /\ Out(Abandon(pool[v], r)) = Out(pool[v])
         /\ IsInjective(Abandon(pool[v], r).queue)
         /\ ToSet(Abandon(pool[v], r).queue) = ToSet(pool[v].queue) \ {r}
         /\ ~Limited(v) => Abandon(pool[v], r).queue = <<>>
<1>1. pool[v] \in BooksType(Requests) /\ IsInjective(pool[v].queue)
  BY DEF Inv, TypeOK, NothingLeftBehind
<1>2. ASSUME ~Limited(v)  PROVE Abandon(pool[v], r).queue = <<>>
  <2>1. pool[v].queue = <<>>  BY <1>2 DEF Inv, Bookkeeping
  <2>2. ~Waits(pool[v], r)  BY <2>1 DEF Waits, Positions
  <2> QED  BY <2>1, <2>2 DEF Abandon
<1> DEFINE p == pool[v]
<1> HIDE DEF p
<1>3. /\ Abandon(p, r) \in BooksType(Requests)
      /\ Abandon(p, r).limit = p.limit
      /\ Out(Abandon(p, r)) = Out(p)
      /\ IsInjective(Abandon(p, r).queue)
      /\ ToSet(Abandon(p, r).queue) = ToSet(p.queue) \ {r}
  <2>1. p \in BooksType(Requests) /\ IsInjective(p.queue)  BY <1>1 DEF p
  <2> QED  BY <2>1, AbandonFacts
<1> QED  BY <1>2, <1>3 DEF p

LEMMA WakeInv == ASSUME Inv, NEW r \in Requests, Wake(r)  PROVE Inv'
<1> USE DEF Holders
<1> DEFINE ready == Granted(r) \cup freed[r]
           u == First(list[r], ready)
<1>1. TypeOK /\ PlacesConserved /\ NothingLeftBehind /\ Bookkeeping  BY DEF Inv
<1>2. pc[r] = "wait" /\ ready # {} /\ UNCHANGED list  BY DEF Wake
<1>3. list[r] \in Seq(Upstreams) /\ at[r] = Nowhere
  BY <1>1, <1>2 DEF TypeOK, Bookkeeping
<1>4. \A v \in Granted(r) : v \in Upstreams /\ r \in ToSet(pool[v].queue)
                            /\ pool[v].avail > 0 /\ Limited(v)
  <2> SUFFICES ASSUME NEW v \in Granted(r)
               PROVE  /\ v \in Upstreams /\ r \in ToSet(pool[v].queue)
                      /\ pool[v].avail > 0 /\ Limited(v)
    OBVIOUS
  <2>1. PICK i \in Positions(pool[v], r) : v \in Upstreams /\ i <= pool[v].avail
    BY DEF Granted, Assigned
  <2>2. i \in DOMAIN pool[v].queue /\ pool[v].queue[i] = r  BY DEF Positions
  <2>3. pool[v].queue \in Seq(Requests)  BY <1>1, <2>1, QueueFacts
  <2>4. i \in Nat \ {0}  BY <2>2, <2>3, LenProperties
  <2>5. pool[v].avail \in Nat  BY <1>1, <2>1 DEF TypeOK, BooksType
  <2>6. Limited(v)  BY <1>1, <2>1, <2>2 DEF Bookkeeping
  <2> QED  BY <2>1, <2>2, <2>4, <2>5, <2>6 DEF ToSet
<1>5. ready \subseteq ToSet(list[r])
  BY <1>1, <1>4 DEF NothingLeftBehind, Bookkeeping
<1>6. u \in ready /\ u \in Upstreams
  <2>1. ToSet(list[r]) \cap ready # {}  BY <1>2, <1>5
  <2> HIDE DEF ready
  <2> QED  BY <1>3, <2>1, FirstFacts
<1>7. /\ pc' = [pc EXCEPT ![r] = "run"]
      /\ at' = [at EXCEPT ![r] = IF u \in freed[r] THEN Nowhere ELSE u]
      /\ pool' = [v \in Upstreams |-> IF v = u /\ u \notin freed[r]
                                      THEN PickUp(pool[v], r)
                                      ELSE Abandon(pool[v], r)]
      /\ freed' = [freed EXCEPT ![r] = {}]
  BY DEF Wake
<1> HIDE DEF u, ready
<1>8. \A v \in Upstreams : v # u \/ u \in freed[r] => pool'[v] = Abandon(pool[v], r)
  BY <1>7
<1>9. ASSUME u \notin freed[r]
      PROVE  /\ pool'[u] \in BooksType(Requests)
             /\ pool'[u].limit = pool[u].limit
             /\ Out(pool'[u]) = Out(pool[u]) + 1
             /\ IsInjective(pool'[u].queue)
             /\ ToSet(pool'[u].queue) = ToSet(pool[u].queue) \ {r}
             /\ Limited(u)
  <2>1. pool'[u] = PickUp(pool[u], r)  BY <1>6, <1>7, <1>9
  <2>2. u \in Granted(r)  BY <1>6, <1>9 DEF ready
  <2>3. pool[u] \in BooksType(Requests) /\ IsInjective(pool[u].queue)
    BY <1>1, <1>6 DEF TypeOK, NothingLeftBehind
  <2> DEFINE p == pool[u]
  <2> HIDE DEF p
  <2>4. /\ PickUp(p, r) \in BooksType(Requests)
        /\ PickUp(p, r).limit = p.limit
        /\ Out(PickUp(p, r)) = Out(p) + 1
        /\ IsInjective(PickUp(p, r).queue)
        /\ ToSet(PickUp(p, r).queue) = ToSet(p.queue) \ {r}
    <3>1. p \in BooksType(Requests) /\ p.avail > 0 /\ IsInjective(p.queue)
      BY <1>4, <2>2, <2>3 DEF p
    <3> QED  BY <3>1, PickUpFacts
  <2> QED  BY <1>4, <2>1, <2>2, <2>4 DEF p
<1>10. \A v \in Upstreams : /\ pool'[v] \in BooksType(Requests)
                            /\ pool'[v].limit = pool[v].limit
                            /\ IsInjective(pool'[v].queue)
                            /\ ToSet(pool'[v].queue) \subseteq ToSet(pool[v].queue) \ {r}
                            /\ ~Limited(v) => pool'[v].queue = <<>>
  BY <1>8, <1>9, AbandonAllFacts
<1>11. pool' \in [Upstreams -> BooksType(Requests)]  BY <1>7, <1>10
<1>12. freed' \in [Requests -> SUBSET Upstreams] /\ freed'[r] = {}
       /\ \A q \in Requests \ {r} : freed'[q] = freed[q]
  BY <1>1, <1>7 DEF TypeOK
<1>13. CASE u \notin freed[r]
  <2>1. Enter(r, u) /\ Limited(u)  BY <1>7, <1>9, <1>13 DEF Enter
  <2>2. \A v \in Upstreams : v # u \/ ~Limited(u) => Out(pool'[v]) = Out(pool[v])
    BY <1>8, <2>1, AbandonAllFacts
  <2> QED  BY <1>2, <1>3, <1>6, <1>9, <1>10, <1>11, <1>12, <1>13, <2>1, <2>2, EnterInv
<1>14. CASE u \in freed[r]
  <2>1. at' = at  BY <1>1, <1>3, <1>7, <1>14 DEF TypeOK
  <2>2. \A v \in Upstreams : Out(pool'[v]) = Out(pool[v])  BY <1>8, <1>14, AbandonAllFacts
  <2>3. TypeOK'  BY <1>1, <1>2, <1>7, <1>11, <1>12, <2>1 DEF TypeOK
  <2>4. PlacesConserved'  BY <1>1, <1>10, <2>1, <2>2, PlacesSame DEF Limited
  <2>5. NothingLeftBehind' /\ Bookkeeping'
    BY <1>2, <1>3, <1>7, <1>10, <1>12, <2>1, QuietQueues
  <2> QED  BY <2>3, <2>4, <2>5 DEF Inv
<1> QED  BY <1>13, <1>14

LEMMA GiveUpInv == ASSUME Inv, NEW r \in Requests, GiveUp(r)  PROVE Inv'
<1> USE DEF Holders
<1>1. TypeOK /\ PlacesConserved /\ Bookkeeping  BY DEF Inv
<1>2. /\ pc[r] \in {"look", "join", "wait"}
      /\ pc' = [pc EXCEPT ![r] = "idle"]
      /\ pool' = [v \in Upstreams |-> Abandon(pool[v], r)]
      /\ freed' = [freed EXCEPT ![r] = {}]
      /\ UNCHANGED <<list, at>>
  BY DEF GiveUp
<1>3. at[r] = Nowhere  BY <1>1, <1>2 DEF Bookkeeping
<1>4. \A v \in Upstreams : pool'[v] = Abandon(pool[v], r)  BY <1>2
<1>5. \A v \in Upstreams : /\ pool'[v] \in BooksType(Requests)
                           /\ pool'[v].limit = pool[v].limit
                           /\ Out(pool'[v]) = Out(pool[v])
                           /\ IsInjective(pool'[v].queue)
                           /\ ToSet(pool'[v].queue) \subseteq ToSet(pool[v].queue) \ {r}
                           /\ ~Limited(v) => pool'[v].queue = <<>>
  BY <1>4, AbandonAllFacts
<1>6. /\ freed' \in [Requests -> SUBSET Upstreams] /\ freed'[r] = {}
      /\ \A q \in Requests \ {r} : freed'[q] = freed[q]
  BY <1>1, <1>2 DEF TypeOK
<1>7. TypeOK'
  <2>1. pool' \in [Upstreams -> BooksType(Requests)]  BY <1>2, <1>5
  <2> QED  BY <1>1, <1>2, <1>6, <2>1 DEF TypeOK
<1>8. PlacesConserved'  BY <1>1, <1>2, <1>5, PlacesSame DEF Limited
<1>9. NothingLeftBehind' /\ Bookkeeping'
  BY <1>2, <1>3, <1>5, <1>6, QuietQueues
<1> QED  BY <1>7, <1>8, <1>9 DEF Inv

(* The end of a request, or of a phantom: h gets up and goes to c. *)
LEMMA LeaveInv ==
  ASSUME Inv, NEW h \in Holders, pc[h] = "run", NEW c \in {"idle", "gone"},
         pc' = [pc EXCEPT ![h] = c], DropSlot(h), UNCHANGED <<list, freed>>
  PROVE  Inv'
<1> USE DEF Holders
<1>1. TypeOK /\ NothingLeftBehind /\ Bookkeeping  BY DEF Inv
<1>2. /\ pool' \in [Upstreams -> BooksType(Requests)]
      /\ at' \in [Holders -> Upstreams \cup {Nowhere}]
      /\ \A v \in Upstreams : pool'[v].limit = pool[v].limit /\ pool'[v].queue = pool[v].queue
      /\ PlacesConserved'
  BY PlacesLeave
<1>3. TypeOK'  BY <1>1, <1>2 DEF TypeOK
<1>4. NothingLeftBehind'
  <2>1. \A v \in Upstreams : ToSet(pool[v].queue) \subseteq Requests  BY <1>1, QueueFacts
  <2>2. \A v \in Upstreams : \A q \in ToSet(pool[v].queue) : pc'[q] = pc[q]
    BY <1>1, <2>1 DEF NothingLeftBehind, TypeOK
  <2> QED  BY <1>1, <1>2, <2>2 DEF NothingLeftBehind
<1>5. Bookkeeping'
  <2>1. at' = [at EXCEPT ![h] = Nowhere]  BY DEF DropSlot
  <2>2. \A g \in Holders : at'[g] # Nowhere => pc'[g] = "run"
    BY <1>1, <2>1 DEF Bookkeeping, TypeOK
  <2>3. \A q \in Requests : /\ freed[q] # {} => pc'[q] = "wait"
                            /\ pc'[q] \in {"look", "join", "wait"} => list[q] # <<>>
    BY <1>1 DEF Bookkeeping, TypeOK
  <2>4. \A p \in Phantoms : pc'[p] = "owing" => pc[p] = "owing"  BY <1>1 DEF TypeOK
  <2>5. \A v \in Upstreams : Limited(v)' <=> Limited(v)  BY <1>2 DEF Limited
  <2>6. \A v \in Upstreams : ~Limited(v)' => pool'[v].queue = <<>>
    BY <1>1, <1>2, <2>5 DEF Bookkeeping
  <2> QED  BY <1>1, <2>2, <2>3, <2>4, <2>5, <2>6 DEF Bookkeeping
<1> QED  BY <1>2, <1>3, <1>4, <1>5 DEF Inv

(***************************************************************************)
(* The steps of a phantom.                                                 *)
(***************************************************************************)

(* A phantom sits down on u, on a permit or on a debt. *)
LEMMA PhantomSits ==
  ASSUME Inv, NEW p \in Phantoms, NEW u \in Upstreams, Limited(u),
         pc[p] \in {"idle", "owing"}, at[p] = Nowhere,
         NEW q, q \in BooksType(Requests),
         q.limit = pool[u].limit, q.queue = pool[u].queue, Out(q) = Out(pool[u]) + 1,
         pool' = [pool EXCEPT ![u] = q], at' = [at EXCEPT ![p] = u],
         pc' = [pc EXCEPT ![p] = "run"], list' = [list EXCEPT ![p] = <<u>>],
         UNCHANGED freed
  PROVE  Inv'
<1> USE DEF Holders
<1>1. TypeOK /\ NothingLeftBehind /\ Bookkeeping  BY DEF Inv
<1>2. p \notin Requests /\ <<u>> \in Seq(Upstreams)  BY HoldersAssumption
<1>3. /\ pool' \in [Upstreams -> BooksType(Requests)] /\ pool'[u] = q
      /\ \A v \in Upstreams \ {u} : pool'[v] = pool[v]
  BY <1>1 DEF TypeOK
<1>4. \A v \in Upstreams : pool'[v].limit = pool[v].limit /\ pool'[v].queue = pool[v].queue
  BY <1>3
<1>5. \A r \in Requests : pc'[r] = pc[r] /\ list'[r] = list[r]  BY <1>1, <1>2 DEF TypeOK
<1>6. TypeOK'  BY <1>1, <1>2, <1>3 DEF TypeOK
<1>7. PlacesConserved'
  <2>1. Out(pool'[u]) = Out(pool[u]) + 1  BY <1>3
  <2>2. \A v \in Upstreams \ {u} : Out(pool'[v]) = Out(pool[v])  BY <1>3
  <2> QED  BY <1>4, <2>1, <2>2, PlacesEnter
<1>8. NothingLeftBehind'
  <2>1. \A v \in Upstreams : ToSet(pool[v].queue) \subseteq Requests  BY <1>1, QueueFacts
  <2>2. \A v \in Upstreams : \A r \in ToSet(pool[v].queue) :
          pc'[r] = pc[r] /\ list'[r] = list[r]
    BY <1>5, <2>1
  <2> QED  BY <1>1, <1>4, <2>2 DEF NothingLeftBehind
<1>9. Bookkeeping'
  <2>1. \A h \in Holders : at'[h] # Nowhere => pc'[h] = "run"
    BY <1>1 DEF Bookkeeping, TypeOK
  <2>2. \A r \in Requests : /\ freed'[r] \subseteq ToSet(list'[r])
                            /\ freed'[r] # {} => pc'[r] = "wait"
                            /\ pc'[r] \in {"look", "join", "wait"} => list'[r] # <<>>
    BY <1>1, <1>5 DEF Bookkeeping
  <2>3. \A o \in Phantoms : pc'[o] = "owing" => pc[o] = "owing" /\ list'[o] = list[o]
    BY <1>1 DEF TypeOK
  <2>4. \A v \in Upstreams : Limited(v)' <=> Limited(v)  BY <1>4 DEF Limited
  <2>5. \A v \in Upstreams : ~Limited(v)' => pool'[v].queue = <<>>
    BY <1>1, <1>4, <2>4 DEF Bookkeeping
  <2>6. ASSUME NEW o \in Phantoms, pc'[o] = "owing"
        PROVE  \E v \in Upstreams : list'[o] = <<v>> /\ Limited(v)'
    <3>1. PICK v \in Upstreams : list[o] = <<v>> /\ Limited(v)
      BY <1>1, <2>3, <2>6 DEF Bookkeeping
    <3> QED  BY <2>3, <2>4, <2>6, <3>1
  <2> QED  BY <2>1, <2>2, <2>5, <2>6 DEF Bookkeeping
<1> QED  BY <1>6, <1>7, <1>8, <1>9 DEF Inv

LEMMA PhantomTryInv ==
  ASSUME Inv, NEW p \in Phantoms, NEW u \in Upstreams, PhantomTry(p, u)
  PROVE  Inv'
<1> USE DEF Holders
<1>1. TypeOK /\ NothingLeftBehind /\ Bookkeeping  BY DEF Inv
<1>2. pc[p] = "idle" /\ list' = [list EXCEPT ![p] = <<u>>] /\ UNCHANGED freed
  BY DEF PhantomTry
<1>3. p \notin Requests /\ at[p] = Nowhere
  BY <1>1, <1>2, HoldersAssumption DEF Bookkeeping
<1>4. <<u>> \in Seq(Upstreams)  OBVIOUS
<1>5. \A q \in Requests : list'[q] = list[q]  BY <1>1, <1>2, <1>3 DEF TypeOK
<1>6. CASE \E c \in {"gone", "owing"} : pc' = [pc EXCEPT ![p] = c]
                                        /\ UNCHANGED <<pool, at>>
                                        /\ (c = "owing" => Limited(u))
  <2>1. PICK c \in {"gone", "owing"} : /\ pc' = [pc EXCEPT ![p] = c]
                                       /\ UNCHANGED <<pool, at>>
                                       /\ c = "owing" => Limited(u)
    BY <1>6
  <2>2. TypeOK'  BY <1>1, <1>2, <1>4, <2>1 DEF TypeOK
  <2>3. PlacesConserved'  BY <2>1, PlacesSame DEF Limited, Inv
  <2>4. NothingLeftBehind'
    <3>1. \A v \in Upstreams : ToSet(pool[v].queue) \subseteq Requests  BY <1>1, QueueFacts
    <3>2. \A v \in Upstreams : \A q \in ToSet(pool[v].queue) :
            pc'[q] = pc[q] /\ list'[q] = list[q]
      BY <1>1, <1>3, <1>5, <2>1, <3>1 DEF TypeOK
    <3> QED  BY <1>1, <2>1, <3>2 DEF NothingLeftBehind
  <2>5. Bookkeeping'
    <3>1. \A h \in Holders : at'[h] # Nowhere => pc'[h] = "run"
      BY <1>1, <1>3, <2>1 DEF Bookkeeping, TypeOK
    <3>2. \A q \in Requests : pc'[q] = pc[q]  BY <1>1, <1>3, <2>1 DEF TypeOK
    <3>3. ASSUME NEW o \in Phantoms, pc'[o] = "owing"
          PROVE  \E v \in Upstreams : list'[o] = <<v>> /\ Limited(v)
      <4>1. CASE o = p  BY <1>1, <1>2, <2>1, <3>3, <4>1 DEF TypeOK
      <4>2. CASE o # p
        <5>1. pc[o] = "owing" /\ list'[o] = list[o]
          BY <1>1, <1>2, <2>1, <3>3, <4>2 DEF TypeOK
        <5> QED  BY <1>1, <5>1 DEF Bookkeeping
      <4> QED  BY <4>1, <4>2
    <3>4. \A v \in Upstreams : Limited(v)' <=> Limited(v)  BY <2>1 DEF Limited
    <3>5. \A q \in Requests : /\ freed'[q] \subseteq ToSet(list'[q])
                              /\ freed'[q] # {} => pc'[q] = "wait"
                              /\ pc'[q] \in {"look", "join", "wait"} => list'[q] # <<>>
      BY <1>1, <1>2, <1>5, <3>2 DEF Bookkeeping
    <3> QED  BY <1>1, <2>1, <3>1, <3>3, <3>4, <3>5 DEF Bookkeeping
  <2> QED  BY <2>2, <2>3, <2>4, <2>5 DEF Inv
<1>7. CASE /\ Limited(u) /\ Free(pool[u]) > 0
           /\ pc' = [pc EXCEPT ![p] = "run"]
           /\ at' = [at EXCEPT ![p] = u]
           /\ pool' = [pool EXCEPT ![u] = Take(@)]
  <2>1. pool[u] \in BooksType(Requests)  BY <1>1 DEF TypeOK
  <2>2. pool[u].avail > 0  BY <1>7, <2>1, FreeFacts DEF BooksType
  <2>3. /\ Take(pool[u]) \in BooksType(Requests)
        /\ Take(pool[u]).limit = pool[u].limit /\ Take(pool[u]).queue = pool[u].queue
        /\ Out(Take(pool[u])) = Out(pool[u]) + 1
    BY <2>1, <2>2, TakeFacts
  <2> DEFINE q == Take(pool[u])
  <2> HIDE DEF q
  <2> QED  BY <1>2, <1>3, <1>7, <2>3, PhantomSits DEF q
<1> QED  BY <1>6, <1>7 DEF PhantomTry

LEMMA PhantomOweInv == ASSUME Inv, NEW p \in Phantoms, PhantomOwe(p)  PROVE Inv'
<1> USE DEF Holders
<1>1. TypeOK /\ Bookkeeping  BY DEF Inv
<1>2. pc[p] = "owing"  BY DEF PhantomOwe
<1>3. PICK u \in Upstreams : list[p] = <<u>> /\ Limited(u)  BY <1>1, <1>2 DEF Bookkeeping
<1>4. at[p] = Nowhere  BY <1>1, <1>2 DEF Bookkeeping
<1>5. /\ pc' = [pc EXCEPT ![p] = "run"]
      /\ at' = [at EXCEPT ![p] = u]
      /\ pool' = [pool EXCEPT ![u] = Owe(@)]
      /\ UNCHANGED <<list, freed>>
  BY <1>3 DEF PhantomOwe
<1>6. pool[u] \in BooksType(Requests)  BY <1>1 DEF TypeOK
<1>7. /\ Owe(pool[u]) \in BooksType(Requests)
      /\ Owe(pool[u]).limit = pool[u].limit /\ Owe(pool[u]).queue = pool[u].queue
      /\ Out(Owe(pool[u])) = Out(pool[u]) + 1
  BY <1>6, OweFacts
<1>8. list' = [list EXCEPT ![p] = <<u>>]  BY <1>1, <1>3, <1>5 DEF TypeOK
<1> DEFINE q == Owe(pool[u])
<1> HIDE DEF q
<1> QED  BY <1>2, <1>3, <1>4, <1>5, <1>7, <1>8, PhantomSits DEF q

(***************************************************************************)
(* The steps of configure().                                               *)
(***************************************************************************)

LEMMA SetLimitInv ==
  ASSUME Inv, NEW u \in Upstreams, NEW l \in Limits, SetLimit(u, l)
  PROVE  Inv'
<1> USE DEF Holders
<1>1. TypeOK /\ PlacesConserved /\ NothingLeftBehind /\ Bookkeeping  BY DEF Inv
<1> DEFINE q == IF Limited(u) THEN Resize(pool[u], l) ELSE NewPool(l)
<1>2. pool' = [pool EXCEPT ![u] = q] /\ UNCHANGED <<pc, list, at, freed>>
  BY <1>1 DEF SetLimit, TypeOK
<1>3. l \in Nat /\ l > 0  BY MaxLimitAssumption DEF Limits
<1>4. pool[u] \in BooksType(Requests)  BY <1>1 DEF TypeOK
<1>5. /\ q \in BooksType(Requests)
      /\ q.limit = l /\ q.queue = pool[u].queue
      /\ Limited(u) => Out(q) = Out(pool[u])
      /\ ~Limited(u) => Out(q) = 0
  <2>1. CASE Limited(u)
    <3>1. /\ Resize(pool[u], l) \in BooksType(Requests)
          /\ Resize(pool[u], l).limit = l /\ Resize(pool[u], l).queue = pool[u].queue
          /\ Out(Resize(pool[u], l)) = Out(pool[u])
      BY <1>3, <1>4, ResizeFacts
    <3> QED  BY <2>1, <3>1
  <2>2. CASE ~Limited(u)
    <3>1. pool[u].queue = <<>>  BY <1>1, <2>2 DEF Bookkeeping
    <3>2. NewPool(l).queue = <<>>  BY DEF NewPool
    <3> QED  BY <1>3, <2>2, <3>1, <3>2, NewPoolFacts
  <2> QED  BY <2>1, <2>2
<1> HIDE DEF q
<1>6. /\ pool' \in [Upstreams -> BooksType(Requests)] /\ pool'[u] = q
      /\ \A v \in Upstreams \ {u} : pool'[v] = pool[v]
  BY <1>1, <1>2, <1>5 DEF TypeOK
<1>7. \A v \in Upstreams : pool'[v].queue = pool[v].queue  BY <1>5, <1>6
<1>8. Limited(u)' /\ \A v \in Upstreams \ {u} : Limited(v)' <=> Limited(v)
  BY <1>3, <1>5, <1>6 DEF Limited
<1>9. TypeOK'  BY <1>1, <1>2, <1>6 DEF TypeOK
<1>10. PlacesConserved'
  <2>1. ASSUME NEW v \in Upstreams
        PROVE  IF Limited(v)' THEN Out(pool'[v]) = Cardinality(Held(v)') ELSE Held(v)' = {}
    <3>1. Held(v)' = Held(v)  BY <1>2 DEF Held
    <3>2. IF Limited(v) THEN Out(pool[v]) = Cardinality(Held(v)) ELSE Held(v) = {}
      BY <1>1 DEF PlacesConserved
    <3>3. CASE v = u /\ Limited(u)  BY <1>5, <1>6, <1>8, <3>1, <3>2, <3>3
    <3>4. CASE v = u /\ ~Limited(u)  BY <1>5, <1>6, <1>8, <3>1, <3>2, <3>4, FS_EmptySet
    <3>5. CASE v # u
      <4>1. pool'[v] = pool[v] /\ (Limited(v)' <=> Limited(v))  BY <1>6, <1>8, <3>5
      <4> QED  BY <3>1, <3>2, <4>1
    <3> QED  BY <3>3, <3>4, <3>5
  <2> QED  BY <2>1 DEF PlacesConserved
<1>11. NothingLeftBehind'  BY <1>1, <1>2, <1>7 DEF NothingLeftBehind
<1>12. Bookkeeping'
  <2>1. \A p \in Phantoms : pc'[p] = "owing" =>
          \E v \in Upstreams : list'[p] = <<v>> /\ Limited(v)'
    BY <1>1, <1>2, <1>8 DEF Bookkeeping
  <2>2. \A v \in Upstreams : ~Limited(v)' => pool'[v].queue = <<>>
    BY <1>1, <1>7, <1>8 DEF Bookkeeping
  <2> QED  BY <1>1, <1>2, <2>1, <2>2 DEF Bookkeeping
<1> QED  BY <1>9, <1>10, <1>11, <1>12 DEF Inv

LEMMA RemoveLimitInv == ASSUME Inv, NEW u \in Upstreams, RemoveLimit(u)  PROVE Inv'
<1> USE DEF Holders
<1>1. TypeOK /\ PlacesConserved /\ NothingLeftBehind /\ Bookkeeping  BY DEF Inv
<1>2. /\ pool' = [pool EXCEPT ![u] = NoPool]
      /\ freed' = [r \in Requests |-> IF Waits(pool[u], r) THEN freed[r] \cup {u} ELSE freed[r]]
      /\ at' = [h \in Holders |-> IF at[h] = u THEN Nowhere ELSE at[h]]
      /\ pc' = [h \in Holders |-> IF pc[h] = "owing" /\ list[h] = <<u>> THEN "run" ELSE pc[h]]
      /\ UNCHANGED list
  BY DEF RemoveLimit
<1>3. /\ NoPool \in BooksType(Requests) /\ NoPool.queue = <<>> /\ NoPool.limit = 0
      /\ ToSet(NoPool.queue) = {} /\ IsInjective(NoPool.queue)
  <2>1. <<>> \in Seq(Requests)  BY EmptySeq
  <2> QED  BY <2>1 DEF NoPool, BooksType, ToSet, IsInjective
<1>4. /\ pool' \in [Upstreams -> BooksType(Requests)] /\ pool'[u] = NoPool
      /\ \A v \in Upstreams \ {u} : pool'[v] = pool[v]
  BY <1>1, <1>2, <1>3 DEF TypeOK
<1>5. ~Limited(u)' /\ \A v \in Upstreams \ {u} : Limited(v)' <=> Limited(v)
  BY <1>3, <1>4 DEF Limited
<1>6. \A h \in Holders : /\ at'[h] = IF at[h] = u THEN Nowhere ELSE at[h]
                         /\ pc'[h] = IF pc[h] = "owing" /\ list[h] = <<u>> THEN "run" ELSE pc[h]
  BY <1>2
<1>7. \A r \in Requests : /\ freed'[r] \subseteq freed[r] \cup {u}
                          /\ u \in freed'[r] => u \in freed[r] \/ r \in ToSet(pool[u].queue)
  BY <1>2, WaitsFacts
<1>8. TypeOK'
  <2>1. at' \in [Holders -> Upstreams \cup {Nowhere}]  BY <1>1, <1>2 DEF TypeOK
  <2>2. pc' \in [Holders -> {"idle", "look", "join", "wait", "run", "owing", "gone"}]
    BY <1>1, <1>2 DEF TypeOK
  <2>3. freed' \in [Requests -> SUBSET Upstreams]  BY <1>1, <1>2 DEF TypeOK
  <2> QED  BY <1>1, <1>2, <1>4, <2>1, <2>2, <2>3 DEF TypeOK
<1>9. PlacesConserved'
  <2>1. ASSUME NEW v \in Upstreams
        PROVE  IF Limited(v)' THEN Out(pool'[v]) = Cardinality(Held(v)') ELSE Held(v)' = {}
    <3>1. IF Limited(v) THEN Out(pool[v]) = Cardinality(Held(v)) ELSE Held(v) = {}
      BY <1>1 DEF PlacesConserved
    <3>2. CASE v = u
      <4>1. Held(u)' = {}  BY <1>6, NowhereAssumption DEF Held
      <4> QED  BY <1>5, <3>2, <4>1
    <3>3. CASE v # u
      <4>1. Held(v)' = Held(v)  BY <1>6, <3>3, NowhereAssumption DEF Held
      <4>2. pool'[v] = pool[v] /\ (Limited(v)' <=> Limited(v))  BY <1>4, <1>5, <3>3
      <4> QED  BY <3>1, <4>1, <4>2
    <3> QED  BY <3>2, <3>3
  <2> QED  BY <2>1 DEF PlacesConserved
<1>10. NothingLeftBehind'
  <2>1. ASSUME NEW v \in Upstreams
        PROVE  /\ IsInjective(pool'[v].queue)
               /\ \A r \in ToSet(pool'[v].queue) : pc'[r] = "wait" /\ v \in ToSet(list'[r])
    <3>1. CASE v = u  BY <1>3, <1>4, <3>1
    <3>2. CASE v # u
      <4>1. ToSet(pool[v].queue) \subseteq Requests  BY <1>1, QueueFacts
      <4>2. pool'[v] = pool[v]  BY <1>4, <3>2
      <4> QED  BY <1>1, <1>2, <1>6, <4>1, <4>2 DEF NothingLeftBehind
    <3> QED  BY <3>1, <3>2
  <2> QED  BY <2>1 DEF NothingLeftBehind
<1>11. Bookkeeping'
  <2>1. \A h \in Holders : at'[h] # Nowhere => pc'[h] = "run"
    BY <1>1, <1>6 DEF Bookkeeping
  <2>2. ASSUME NEW r \in Requests
        PROVE  /\ freed'[r] \subseteq ToSet(list'[r])
               /\ freed'[r] # {} => pc'[r] = "wait"
               /\ pc'[r] \in {"look", "join", "wait"} => list'[r] # <<>>
    <3>1. u \in freed'[r] => u \in ToSet(list[r]) /\ pc[r] = "wait"
      BY <1>1, <1>7 DEF Bookkeeping, NothingLeftBehind
    <3> QED  BY <1>1, <1>2, <1>6, <1>7, <3>1 DEF Bookkeeping
  <2>3. ASSUME NEW p \in Phantoms, pc'[p] = "owing"
        PROVE  \E v \in Upstreams : list'[p] = <<v>> /\ Limited(v)'
    <3>1. pc[p] = "owing" /\ list[p] # <<u>>  BY <1>6, <2>3
    <3>2. PICK v \in Upstreams : list[p] = <<v>> /\ Limited(v)
      BY <1>1, <3>1 DEF Bookkeeping
    <3>3. v # u  BY <3>1, <3>2
    <3> QED  BY <1>2, <1>5, <3>2, <3>3
  <2>4. \A v \in Upstreams : ~Limited(v)' => pool'[v].queue = <<>>
    BY <1>1, <1>3, <1>4, <1>5 DEF Bookkeeping
  <2> QED  BY <2>1, <2>2, <2>3, <2>4 DEF Bookkeeping
<1> QED  BY <1>8, <1>9, <1>10, <1>11 DEF Inv

(***************************************************************************)
(* The theorems.                                                           *)
(***************************************************************************)

(* Every step keeps the invariant. *)
LEMMA NextInv == Inv /\ [Next]_vars => Inv'
<1> SUFFICES ASSUME Inv, [Next]_vars  PROVE Inv'  OBVIOUS
<1>1. ASSUME NEW r \in Requests, Request(r)  PROVE Inv'
  <2>1. CASE Begin(r)   BY <2>1, BeginInv
  <2>2. CASE Look(r)    BY <2>2, LookInv
  <2>3. CASE Join(r)    BY <2>3, JoinInv
  <2>4. CASE Wake(r)    BY <2>4, WakeInv
  <2>5. CASE GiveUp(r)  BY <2>5, GiveUpInv
  <2>6. CASE Finish(r)  BY <2>6, LeaveInv DEF Finish, Holders
  <2> QED  BY <1>1, <2>1, <2>2, <2>3, <2>4, <2>5, <2>6 DEF Request
<1>2. ASSUME NEW p \in Phantoms, Phantom(p)  PROVE Inv'
  <2>1. CASE \E u \in Upstreams : PhantomTry(p, u)  BY <2>1, PhantomTryInv
  <2>2. CASE PhantomOwe(p)  BY <2>2, PhantomOweInv
  <2>3. CASE PhantomEnd(p)  BY <2>3, LeaveInv DEF PhantomEnd, Holders
  <2> QED  BY <1>2, <2>1, <2>2, <2>3 DEF Phantom
<1>3. ASSUME NEW u \in Upstreams, Configure(u)  PROVE Inv'
  <2>1. CASE RemoveLimit(u)  BY <2>1, RemoveLimitInv
  <2>2. CASE \E l \in Limits : SetLimit(u, l)  BY <2>2, SetLimitInv
  <2> QED  BY <1>3, <2>1, <2>2 DEF Configure
<1>4. CASE UNCHANGED vars
  <2> USE <1>4 DEF vars
  <2>1. TypeOK'  BY DEF TypeOK, Inv
  <2>2. PlacesConserved'  BY PlacesSame DEF Limited, Inv
  <2>3. NothingLeftBehind'  BY DEF NothingLeftBehind, Inv
  <2>4. Bookkeeping'  BY DEF Bookkeeping, Limited, Inv
  <2> QED  BY <2>1, <2>2, <2>3, <2>4 DEF Inv
<1> QED  BY <1>1, <1>2, <1>3, <1>4 DEF Next

(* The invariant holds in every state. *)
LEMMA Invariance == Spec => []Inv
BY InitInv, NextInv, PTL DEF Spec

(* The counters of the books and the permits never go below zero and every *)
(* variable keeps its shape, whatever the order of resizes, phantoms,      *)
(* cancelled waits and returns.                                            *)
THEOREM TypeCorrect == Spec => []TypeOK
<1>1. Inv => TypeOK  BY DEF Inv
<1> QED  BY <1>1, Invariance, PTL

(* No place of an upstream is lost and none appears from nowhere.          *)
THEOREM PlacesAreConserved == Spec => []PlacesConserved
<1>1. Inv => PlacesConserved  BY DEF Inv
<1> QED  BY <1>1, Invariance, PTL

(* A future that lost, timed out or was dropped stays in no queue.         *)
THEOREM NothingIsLeftBehind == Spec => []NothingLeftBehind
<1>1. Inv => NothingLeftBehind  BY DEF Inv
<1> QED  BY <1>1, Invariance, PTL

(***************************************************************************)
(* Health of the same upstreams: a pause is not shortened.  What keeps it  *)
(* so is the shape of a stored breaker (Breakers): "half open" is never    *)
(* stored, it is what the clock makes of an open breaker, so a failure     *)
(* that counts always starts the whole pause again, and one success always *)
(* closes.                                                                 *)
(***************************************************************************)

CONSTANTS Judges, Timers, Settings, HeldFor, Takeovers, Nobody
VARIABLES entry, settings, judge, timer, shown, takeovers

H == INSTANCE Health

(* A breaker between two verdicts: no trial request is counted, and one    *)
(* that is closed has no pause behind it.                                  *)
Breakers ==
  {b \in [state : {"closed", "open"}, since : Nat, failures : Nat,
           probe_successes : {0}] :
     b.state = "closed" => b.since = 0}

Entries == [breaker : Breakers, trips : Nat, held : Nat \cup {H!NotHeld}]

Kept == settings \in Settings /\ entry \in [Upstreams -> Entries]

(* One successful trial closes, and the pause of a policy is a number      *)
(* however often the breaker has tripped.                                  *)
LEMMA PolicyFacts ==
  ASSUME H!SettingsAssumption, NEW s \in Settings, NEW trips \in Nat
  PROVE  /\ H!Policy(s, trips).cooldown \in Int /\ H!Policy(s, trips).probes = 1
         /\ H!Policy(s, trips).failures \in Nat
<1>1. s.pause \in Int /\ s.max_pause \in Int /\ s.failures \in Nat
  OBVIOUS
<1>2. 2 ^ (IF trips = 0 THEN 0 ELSE trips - 1) \in Int
  <2>1. (IF trips = 0 THEN 0 ELSE trips - 1) \in Nat  OBVIOUS
  <2> QED  BY <2>1
<1>3. s.pause * 2 ^ (IF trips = 0 THEN 0 ELSE trips - 1) \in Int  BY <1>1, <1>2
<1> QED  BY <1>1, <1>3 DEF H!Policy

(* A success forgets everything, whatever there was.                       *)
LEMMA SuccessForgets ==
  ASSUME H!SettingsAssumption, H!HeldAssumption, Kept, NEW e \in Entries
  PROVE  H!AfterSuccess(e) = H!NewEntry
<1> DEFINE b == e.breaker
           p == H!PolicyOf(e)
<1>1. b \in Breakers /\ p.probes = 1
  BY PolicyFacts DEF Entries, H!PolicyOf, Kept
<1> HIDE DEF b, p
<1>2. H!Succeeded(b, p) = H!Fresh
  <2>1. CASE H!StateAt(b, p) = "closed"
    <3>1. b.state = "closed"  BY <2>1 DEF H!StateAt
    <3>2. [b EXCEPT !.failures = 0] = H!Fresh  BY <1>1, <3>1 DEF Breakers, H!Fresh
    <3> QED  BY <2>1, <3>2 DEF H!Succeeded
  <2>2. CASE H!StateAt(b, p) # "closed"
    <3>1. [b EXCEPT !.state = "half_open", !.probe_successes = @ + 1].probe_successes = 1
      BY <1>1 DEF Breakers
    <3>2. H!AtLeastOne(p.probes) = 1  BY <1>1 DEF H!AtLeastOne
    <3> QED  BY <2>2, <3>1, <3>2 DEF H!Succeeded
  <2> QED  BY <2>1, <2>2
<1> QED  BY <1>2 DEF H!AfterSuccess, H!NewEntry, b, p

(* A failure that comes late starts the pause anew, and one that opens the *)
(* breaker was let through after a pause.                                  *)
LEMMA FailureProlongs ==
  ASSUME H!SettingsAssumption, H!HeldAssumption, Kept, NEW e \in Entries
  PROVE  H!AfterFailure(e) \in Entries /\ H!Wait(H!AfterFailure(e)) >= H!Wait(e)
<1> DEFINE b == e.breaker
           p == H!PolicyOf(e)
           f == H!AfterFailure(e)
           q == H!PolicyOf(f)
<1>1. /\ b \in Breakers /\ e.trips \in Nat /\ e.held \in Int
      /\ p.cooldown \in Int /\ p.failures \in Nat
  BY PolicyFacts DEF Entries, H!PolicyOf, Kept, H!NotHeld
<1>2. /\ f \in [breaker : {H!RecordedFailure(b, p)}, trips : Nat, held : {e.held}]
      /\ H!StateAt(b, p) = "open" => f.trips = e.trips
  <2> DEFINE n == IF H!StateAt(b, p) # "open" /\ H!RecordedFailure(b, p).state = "open"
                       /\ e.trips < H!MaxTrips
                  THEN e.trips + 1 ELSE e.trips
  <2>1. f = [e EXCEPT !.breaker = H!RecordedFailure(b, p), !.trips = n]
    BY DEF H!AfterFailure
  <2>2. n \in Nat /\ (H!StateAt(b, p) = "open" => n = e.trips)  BY <1>1
  <2> HIDE DEF f, b, p, n
  <2> QED  BY <2>1, <2>2 DEF Entries
<1>3. q.cooldown \in Int /\ (H!StateAt(b, p) = "open" => q = p)
  BY <1>1, <1>2, PolicyFacts DEF H!PolicyOf, Kept
<1> HIDE DEF b, p, f, q
<1>4. \/ b.state = "closed" /\ f.breaker.state = "closed" /\ f.breaker.since = 0
      \/ f.breaker.state = "open" /\ f.breaker.since = 0
  BY <1>1, <1>2 DEF H!RecordedFailure, H!Failed, H!Opened, H!StateAt, Breakers
<1>5. f.breaker \in Breakers
  <2>1. H!Failed(b, p) \in Breakers  BY <1>1 DEF H!Failed, Breakers, H!AtLeastOne
  <2>2. H!Opened(H!Failed(b, p)) \in Breakers  BY <2>1 DEF H!Opened, Breakers
  <2> QED  BY <1>2, <2>1, <2>2 DEF H!RecordedFailure
<1>6. H!CooldownLeft(f.breaker, q) \in Int /\ H!CooldownLeft(b, p) \in Int
  BY <1>1, <1>3, <1>5 DEF H!CooldownLeft, H!NotOpen, Breakers, H!Cooled
<1>7. H!CooldownLeft(f.breaker, q) >= H!CooldownLeft(b, p)
  BY <1>1, <1>3, <1>4 DEF H!CooldownLeft, H!Cooled, H!NotOpen, H!StateAt, Breakers
<1>8. H!Wait(f) >= H!Wait(e)
  BY <1>1, <1>2, <1>6, <1>7 DEF H!Wait, H!Later, b, p, q
<1>9. f \in Entries  BY <1>2, <1>5 DEF Entries
<1> QED  BY <1>8, <1>9 DEF f

(* The longer of two pauses counts.                                        *)
LEMMA CauseProlongs ==
  ASSUME H!SettingsAssumption, H!HeldAssumption, Kept, NEW e \in Entries, NEW d \in HeldFor
  PROVE  H!AfterCause(e, d) \in Entries /\ H!Wait(H!AfterCause(e, d)) >= H!Wait(e)
<1>1. /\ d \in Nat /\ e.held \in Int /\ e.held >= -1 /\ e.trips \in Nat
      /\ e.breaker \in Breakers
  BY DEF Entries, H!NotHeld
<1>2. /\ H!AfterCause(e, d).held = H!Later(e.held, d)
      /\ H!AfterCause(e, d).breaker = e.breaker /\ H!AfterCause(e, d).trips = e.trips
      /\ H!AfterCause(e, d) \in
           [breaker : {e.breaker}, trips : {e.trips}, held : {H!Later(e.held, d)}]
  BY DEF H!AfterCause, Entries
<1>3. H!Later(e.held, d) \in Nat \cup {H!NotHeld} /\ H!Later(e.held, d) >= e.held
  BY <1>1 DEF H!Later, H!NotHeld, Entries
<1>4. H!CooldownLeft(e.breaker, H!PolicyOf(e)) \in Int
  <2>1. H!PolicyOf(e).cooldown \in Int  BY <1>1, PolicyFacts DEF H!PolicyOf, Kept
  <2> QED  BY <1>1, <2>1 DEF H!CooldownLeft, H!NotOpen, Breakers
<1>5. H!Wait(H!AfterCause(e, d)) >= H!Wait(e)
  <2>1. H!PolicyOf(H!AfterCause(e, d)) = H!PolicyOf(e)  BY <1>2 DEF H!PolicyOf
  <2>2. H!Later(e.held, d) \in Int  BY <1>3 DEF H!NotHeld
  <2> QED  BY <1>1, <1>2, <1>3, <1>4, <2>1, <2>2 DEF H!Wait, H!Later
<1>6. H!AfterCause(e, d) \in Entries  BY <1>1, <1>2, <1>3 DEF Entries
<1> QED  BY <1>5, <1>6

(* One verdict of one task: the other upstreams are left alone.            *)
LEMMA VerdictProlongs ==
  ASSUME H!SettingsAssumption, H!HeldAssumption, Kept,
         NEW j \in Judges, NEW u \in Upstreams, H!Verdict(j, u)
  PROVE  /\ Kept'
         /\ \A x \in Upstreams : H!Wait(entry[x])' >= H!Wait(entry[x]) \/ entry'[x] = H!NewEntry
<1>1. PICK e \in Entries :
        H!Update(j, u, e) /\ (H!Wait(e) >= H!Wait(entry[u]) \/ e = H!NewEntry)
  <2>1. entry[u] \in Entries  BY DEF Kept
  <2>2. H!NewEntry \in Entries  BY DEF H!NewEntry, Entries, H!Fresh, Breakers, H!NotHeld
  <2> QED
    BY <2>1, <2>2, SuccessForgets, FailureProlongs, CauseProlongs
    DEF H!Verdict, H!Success, H!Failure, H!Cause
<1>2. settings' = settings /\ entry' = [entry EXCEPT ![u] = e]  BY <1>1 DEF H!Update
<1>3. Kept'  BY <1>2 DEF Kept
<1>4. \A x \in Upstreams : entry'[x] = IF x = u THEN e ELSE entry[x]
  BY <1>2 DEF Kept
<1>5. \A x \in Upstreams : H!Wait(entry[x]) \in Int
  <2> SUFFICES ASSUME NEW x \in Upstreams PROVE H!Wait(entry[x]) \in Int  OBVIOUS
  <2>1. entry[x].breaker \in Breakers /\ entry[x].trips \in Nat /\ entry[x].held \in Int
    BY DEF Kept, Entries, H!NotHeld
  <2>2. H!PolicyOf(entry[x]).cooldown \in Int
    BY <2>1, PolicyFacts DEF H!PolicyOf, Kept
  <2> QED  BY <2>1, <2>2 DEF H!Wait, H!Later, H!CooldownLeft, H!NotOpen, Breakers
<1>6. \A x \in Upstreams : H!Wait(entry[x])' = IF x = u THEN H!Wait(e) ELSE H!Wait(entry[x])
  BY <1>2, <1>4 DEF H!Wait, H!PolicyOf
<1> QED  BY <1>1, <1>3, <1>4, <1>5, <1>6

(* Time moves what is paused, and opens nothing.                           *)
LEMMA TickKept == ASSUME Kept, H!Tick PROVE Kept'
<1> SUFFICES ASSUME NEW u \in Upstreams PROVE entry'[u] \in Entries
  BY DEF H!Tick, Kept
<1> DEFINE e == entry[u]
<1>1. e \in Entries  BY DEF Kept
<1>2. H!Aged(e.breaker, H!LongestPause) \in Breakers
  <2>1. e.breaker \in Breakers  BY <1>1 DEF Entries
  <2> HIDE DEF e
  <2> QED  BY <2>1 DEF H!Aged, Breakers
<1>3. (IF e.held > 0 THEN e.held - 1 ELSE e.held) \in Nat \cup {H!NotHeld}
  BY <1>1 DEF Entries, H!NotHeld
<1> QED  BY <1>1, <1>2, <1>3 DEF H!Tick, Entries

(* For any upstreams, settings and tasks: only a success ends a pause      *)
(* early, and another failure or another cause never shortens it.          *)
THEOREM PausesLast ==
  ASSUME H!SettingsAssumption, H!HeldAssumption
  PROVE  H!Spec => H!NeverShortened
<1> DEFINE Lasting == settings' = settings /\ ~H!Tick =>
                        \A u \in Upstreams : \/ H!Wait(entry[u])' >= H!Wait(entry[u])
                                             \/ entry'[u] = H!NewEntry
<1>1. H!Init => Kept
  BY DEF H!Init, Kept, H!NewEntry, Entries, H!Fresh, Breakers, H!NotHeld
<1>2. ASSUME Kept, [H!Next]_(H!vars) PROVE Kept' /\ [Lasting]_(H!vars)
  <2>1. ASSUME settings' = settings, entry' = entry PROVE Kept' /\ Lasting
    <3>1. \A u \in Upstreams : H!Wait(entry[u])' = H!Wait(entry[u]) /\ H!Wait(entry[u]) \in Int
      <4> SUFFICES ASSUME NEW x \in Upstreams
                   PROVE  H!Wait(entry[x])' = H!Wait(entry[x]) /\ H!Wait(entry[x]) \in Int
        OBVIOUS
      <4>1. entry[x].breaker \in Breakers /\ entry[x].trips \in Nat /\ entry[x].held \in Int
        BY <1>2 DEF Kept, Entries, H!NotHeld
      <4>2. H!PolicyOf(entry[x]).cooldown \in Int
        BY <1>2, <4>1, PolicyFacts DEF H!PolicyOf, Kept
      <4>3. H!Wait(entry[x]) \in Int
        BY <4>1, <4>2 DEF H!Wait, H!Later, H!CooldownLeft, H!NotOpen, Breakers
      <4>4. H!Wait(entry[x])' = H!Wait(entry[x])  BY <2>1 DEF H!Wait, H!PolicyOf
      <4> QED  BY <4>3, <4>4
    <3> QED  BY <1>2, <2>1, <3>1 DEF Kept
  <2>2. CASE \E j \in Judges : H!NoteHealth(j) \/ \E u \in Upstreams : H!Verdict(j, u)
    <3>1. CASE \E j \in Judges : H!NoteHealth(j)  BY <2>1, <3>1 DEF H!NoteHealth
    <3>2. CASE \E j \in Judges, u \in Upstreams : H!Verdict(j, u)
      BY <1>2, <3>2, VerdictProlongs
    <3> QED  BY <2>2, <3>1, <3>2
  <2>3. CASE \E t \in Timers : H!Timer(t)
    BY <2>1, <2>3 DEF H!Timer, H!TimerStart, H!TimerWake, H!TimerSay
  <2>4. CASE H!Configure
    <3>1. entry' = entry /\ Kept'  BY <1>2, <2>4 DEF H!Configure, Kept
    <3> QED  BY <2>1, <3>1
  <2>5. CASE H!Tick  BY <1>2, <2>5, TickKept
  <2>6. CASE H!Takeover  BY <2>1, <2>6 DEF H!Takeover
  <2>7. CASE UNCHANGED H!vars  BY <2>1, <2>7 DEF H!vars
  <2> QED  BY <1>2, <2>2, <2>3, <2>4, <2>5, <2>6, <2>7 DEF H!Next
<1>3. H!Spec => [][Lasting]_(H!vars)
  <2>1. Kept /\ [H!Next]_(H!vars) => Kept' /\ [Lasting]_(H!vars)  BY <1>2
  <2> HIDE DEF Lasting
  <2> QED  BY <1>1, <2>1, PTL DEF H!Spec
<1> QED  BY <1>3 DEF H!NeverShortened
=============================================================================
