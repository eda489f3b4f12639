----------------------------- MODULE GateProofs -----------------------------
(***************************************************************************)
(* Proofs about Gate: for any requests and limits,                         *)
(*   PassesConserved  limits.rs changes a limit on the same semaphore, on  *)
(*                    every acquire and for requests of different          *)
(*                    configurations in turn, and no pass is made or lost, *)
(*                    with those held for the other core counted in;       *)
(*   PhantomsFollow   what the successor holds is what its predecessor     *)
(*                    has.                                                 *)
(*                                                                         *)
(* The first is inductive together with the types: a pass is counted once  *)
(* as only who is not in may enter, and a pass that the successor holds    *)
(* can be dropped as what it is told to hold is never negative.  The       *)
(* second speaks of the end of all that is said on the link; a step either *)
(* says one thing more at the end or hears the first, and by induction on  *)
(* what is left to hear neither changes where it ends.                     *)
(*                                                                         *)
(* Then about Usage, the other books that go along to the successor: for   *)
(* any requests, names, worlds and bounds                                  *)
(*   ReservationsHaveOwners  upstream_limits.rs keeps the reservations of  *)
(*                    requests that run or whose row is to come, and those *)
(*                    of the predecessor until they are heard to go.       *)
(***************************************************************************)
EXTENDS Gate, Lemmas, FiniteSetTheorems

Stages == {"new", "starts", "free", "waits", "in", "done"}

Said == {m \in [holds : BOOLEAN, n : Int] :
           IF m.holds THEN m.n \in Nat ELSE m.n \in {1, -1}}

Typed ==
  /\ limit \in [Cores -> Nat]
  /\ pool \in [Cores -> BooksType(Requests)]
  /\ req \in [Requests -> [pc : Stages, limit : Nat]]
  /\ link \in Seq(Said)
  /\ reader \in [goal : Nat, limit : Nat, pc : {"idle", "holds", "owes"}]
  /\ phantoms \in Nat

(* Those who are in on c, according to f; and with what is held for others. *)
In(f, c) == {r \in Requests : Core(r) = c /\ f[r].pc = "in"}

More(c, n) == IF c = "new" THEN n ELSE 0

Inv == Typed /\ PassesConserved

(***************************************************************************)
(* The helpers.                                                            *)
(***************************************************************************)

LEMMA CoreFacts == ASSUME NEW r PROVE Core(r) \in Cores
BY DEF Core, Cores

(* Finitely many are in. *)
LEMMA InFacts ==
  ASSUME NEW f, NEW c
  PROVE  IsFiniteSet(In(f, c)) /\ Cardinality(In(f, c)) \in Nat
<1>1. IsFiniteSet(Requests)  BY GateAssumption DEF Requests
<1>2. IsFiniteSet(In(f, c))  BY <1>1, FS_Subset DEF In
<1> QED  BY <1>2, FS_CardinalityType

(* The balance in the words of this module. *)
LEMMA Balance ==
  /\ PassesConserved <=> \A c \in Cores : Out(pool[c]) = Cardinality(In(req, c)) + More(c, phantoms)
  /\ PassesConserved' <=> \A c \in Cores : Out(pool'[c]) = Cardinality(In(req', c)) + More(c, phantoms')
BY DEF PassesConserved, In, More

(* A step of a request that neither enters nor leaves. *)
LEMMA StaysOut ==
  ASSUME Typed, NEW r \in Requests, req[r].pc # "in", NEW f,
         f \in [Requests -> [pc : Stages, limit : Nat]], f[r].pc # "in",
         \A q \in Requests \ {r} : f[q] = req[q]
  PROVE  \A c : In(f, c) = In(req, c)
BY DEF In

(* Who enters is one more on its core. *)
LEMMA Enters ==
  ASSUME Typed, NEW r \in Requests, req[r].pc # "in", NEW f,
         f \in [Requests -> [pc : Stages, limit : Nat]], f[r].pc = "in",
         \A q \in Requests \ {r} : f[q] = req[q]
  PROVE  \A c \in Cores : Cardinality(In(f, c)) =
           IF c = Core(r) THEN Cardinality(In(req, c)) + 1 ELSE Cardinality(In(req, c))
<1> SUFFICES ASSUME NEW c \in Cores
             PROVE  Cardinality(In(f, c)) = IF c = Core(r) THEN Cardinality(In(req, c)) + 1
                                                           ELSE Cardinality(In(req, c))
  OBVIOUS
<1>1. r \notin In(req, c) /\ IsFiniteSet(In(req, c))  BY InFacts DEF In
<1>2. CASE c = Core(r)
  <2>1. In(f, c) = In(req, c) \cup {r}  BY <1>2 DEF In
  <2> QED  BY ZenonT(60), <1>1, <1>2, <2>1, FS_AddElement
<1>3. CASE c # Core(r)
  <2>1. In(f, c) = In(req, c)  BY <1>3 DEF In
  <2> QED  BY <1>3, <2>1
<1> QED  BY <1>2, <1>3

(* Who leaves is one less. *)
LEMMA Leaves ==
  ASSUME Typed, NEW r \in Requests, req[r].pc = "in", NEW f,
         f \in [Requests -> [pc : Stages, limit : Nat]], f[r].pc # "in",
         \A q \in Requests \ {r} : f[q] = req[q]
  PROVE  \A c \in Cores : Cardinality(In(f, c)) =
           IF c = Core(r) THEN Cardinality(In(req, c)) - 1 ELSE Cardinality(In(req, c))
<1> SUFFICES ASSUME NEW c \in Cores
             PROVE  Cardinality(In(f, c)) = IF c = Core(r) THEN Cardinality(In(req, c)) - 1
                                                           ELSE Cardinality(In(req, c))
  OBVIOUS
<1>1. IsFiniteSet(In(req, c))  BY InFacts
<1>2. CASE c = Core(r)
  <2>1. In(f, c) = In(req, c) \ {r} /\ r \in In(req, c)  BY <1>2 DEF In
  <2> QED  BY ZenonT(60), <1>1, <1>2, <2>1, FS_RemoveElement
<1>3. CASE c # Core(r)
  <2>1. In(f, c) = In(req, c)  BY <1>3 DEF In
  <2> QED  BY <1>3, <2>1
<1> QED  BY <1>2, <1>3

(* The books of core c become p, which say that d more passes are out. *)
NewBooks(c, p, d) ==
  /\ c \in Cores /\ d \in Int
  /\ pool' = [pool EXCEPT ![c] = p] /\ Out(p) = Out(pool[c]) + d

(* The balance of a core whose books and whose requests change alike. *)
LEMMA RequestBalance ==
  ASSUME Typed, PassesConserved, NEW c, NEW p, NEW d, NewBooks(c, p, d), UNCHANGED phantoms,
         \A b \in Cores : Cardinality(In(req', b)) =
           IF b = c THEN Cardinality(In(req, b)) + d ELSE Cardinality(In(req, b))
  PROVE  PassesConserved'
<1> SUFFICES ASSUME NEW b \in Cores
             PROVE  Out(pool'[b]) = Cardinality(In(req', b)) + More(b, phantoms')
  BY Balance
<1>1. Out(pool[b]) = Cardinality(In(req, b)) + More(b, phantoms)  BY Balance
<1>2. Cardinality(In(req, b)) \in Nat /\ More(b, phantoms) \in Nat
  BY InFacts DEF More, Typed
<1>3. DOMAIN pool = Cores  BY DEF Typed
<1>4. CASE b = c
  <2>1. pool'[b] = p /\ Out(p) = Out(pool[b]) + d /\ d \in Int  BY <1>3, <1>4 DEF NewBooks
  <2> QED  BY <1>1, <1>2, <1>4, <2>1
<1>5. CASE b # c
  <2>1. pool'[b] = pool[b]  BY <1>3, <1>5 DEF NewBooks
  <2> QED  BY <1>1, <1>5, <2>1
<1> QED  BY <1>4, <1>5

(* Request r gets to p: the others stay where they are. *)
LEMMA BecomesFacts ==
  ASSUME Typed, NEW r \in Requests, NEW p \in Stages, Becomes(r, p)
  PROVE  /\ req' \in [Requests -> [pc : Stages, limit : Nat]]
         /\ req'[r].pc = p /\ \A q \in Requests \ {r} : req'[q] = req[q]
BY DEF Becomes, Typed

(* To make the key, or to resize it, puts no pass out. *)
LEMMA KeyFacts ==
  ASSUME Typed, NEW c \in Cores, NEW l \in Nat
  PROVE  Key(c, l) \in BooksType(Requests) /\ Out(Key(c, l)) = Out(pool[c])
<1>1. pool[c] \in BooksType(Requests)  BY DEF Typed
<1>2. CASE pool[c] = NoKey
  <2>1. Out(pool[c]) = 0  BY <1>2 DEF Out, NoKey
  <2> QED  BY <1>2, <2>1, NewPoolFacts DEF Key
<1>3. CASE pool[c] # NoKey  BY <1>1, <1>3, ResizeFacts DEF Key
<1> QED  BY <1>2, <1>3

(* What the predecessor says is said with a number. *)
LEMMA TellFacts ==
  ASSUME Typed, NEW c, NEW d \in {1, -1}, Tell(c, d)
  PROVE  link' \in Seq(Said)
<1>1. Step(d) \in Said  BY DEF Step, Said
<1> QED  BY <1>1, AppendProperties DEF Tell, Typed

(***************************************************************************)
(* The steps.                                                              *)
(***************************************************************************)

LEMMA StartInv == ASSUME Inv, NEW r \in Requests, Start(r) PROVE Inv'
<1>1. Typed /\ PassesConserved  BY DEF Inv
<1>2. limit[Core(r)] \in Nat  BY <1>1, CoreFacts DEF Typed
<1>3. req' \in [Requests -> [pc : Stages, limit : Nat]]  BY <1>1, <1>2 DEF Start, Typed, Stages
<1>4. Typed'  BY <1>1, <1>3 DEF Typed, Start, settings, handover
<1>5. \A c : In(req', c) = In(req, c)  BY <1>1, <1>3, StaysOut DEF Start, Typed
<1>6. PassesConserved'  BY <1>1, <1>5, Balance DEF Start, handover
<1> QED  BY <1>4, <1>6 DEF Inv

LEMMA AcquireInv == ASSUME Inv, NEW r \in Requests, Acquire(r) PROVE Inv'
<1> DEFINE c == Core(r)
           k == Key(c, req[r].limit)
<1>1. Typed /\ PassesConserved  BY DEF Inv
<1>2. c \in Cores /\ req[r].limit \in Nat /\ req[r].pc = "starts"
  BY <1>1, CoreFacts DEF Acquire, Typed
<1>3. k \in BooksType(Requests) /\ Out(k) = Out(pool[c])  BY <1>1, <1>2, KeyFacts
<1>4. limit' = limit /\ reader' = reader /\ phantoms' = phantoms
  BY DEF Acquire, settings, handover
<1>5. CASE req[r].limit = 0 /\ Becomes(r, "free") /\ UNCHANGED <<pool, link>>
  <2>1. /\ req' \in [Requests -> [pc : Stages, limit : Nat]] /\ req'[r].pc = "free"
        /\ \A q \in Requests \ {r} : req'[q] = req[q]
    BY <1>1, <1>5, BecomesFacts DEF Stages
  <2>2. Typed'  BY <1>1, <1>4, <1>5, <2>1 DEF Typed
  <2>3. \A d : In(req', d) = In(req, d)  BY <1>1, <1>2, <2>1, StaysOut
  <2>4. PassesConserved'  BY <1>1, <1>4, <1>5, <2>3, Balance
  <2> QED  BY <2>2, <2>4 DEF Inv
<1>6. CASE Tell(c, 1) /\ Free(k) > 0 /\ Becomes(r, "in") /\ pool' = [pool EXCEPT ![c] = Take(k)]
  <2>1. /\ req' \in [Requests -> [pc : Stages, limit : Nat]] /\ req'[r].pc = "in"
        /\ \A q \in Requests \ {r} : req'[q] = req[q]
    BY <1>1, <1>6, BecomesFacts DEF Stages
  <2>2. k.avail \in Nat /\ k.avail > 0
    <3>1. Free(k) \in Nat /\ Free(k) <= k.avail  BY <1>3, FreeFacts
    <3>2. k.avail \in Nat  BY <1>3 DEF BooksType
    <3> QED  BY <1>6, <3>1, <3>2
  <2>3. Take(k) \in BooksType(Requests) /\ Out(Take(k)) = Out(pool[c]) + 1
    BY <1>3, <2>2, TakeFacts
  <2>4. link' \in Seq(Said)  BY <1>1, <1>6, TellFacts
  <2>5. Typed'  BY <1>1, <1>2, <1>4, <1>6, <2>1, <2>3, <2>4 DEF Typed
  <2>6. \A b \in Cores : Cardinality(In(req', b)) =
          IF b = c THEN Cardinality(In(req, b)) + 1 ELSE Cardinality(In(req, b))
    BY <1>1, <1>2, <2>1, Enters
  <2>7. NewBooks(c, Take(k), 1)  BY <1>2, <1>6, <2>3 DEF NewBooks
  <2>8. PassesConserved'  BY <1>1, <1>4, <2>6, <2>7, RequestBalance
  <2> QED  BY <2>5, <2>8 DEF Inv
<1>7. CASE Tell(c, 1) /\ Free(k) = 0 /\ Becomes(r, "waits")
           /\ pool' = [pool EXCEPT ![c] = Enqueue(k, r)]
  <2>1. /\ req' \in [Requests -> [pc : Stages, limit : Nat]] /\ req'[r].pc = "waits"
        /\ \A q \in Requests \ {r} : req'[q] = req[q]
    BY <1>1, <1>7, BecomesFacts DEF Stages
  <2>2. Enqueue(k, r) \in BooksType(Requests) /\ Out(Enqueue(k, r)) = Out(pool[c])
    BY <1>3, EnqueueFacts
  <2>3. link' \in Seq(Said)  BY <1>1, <1>7, TellFacts
  <2>4. Typed'  BY <1>1, <1>2, <1>4, <1>7, <2>1, <2>2, <2>3 DEF Typed
  <2>5. \A d : In(req', d) = In(req, d)  BY <1>1, <1>2, <2>1, StaysOut
  <2>6. PassesConserved'  BY <1>1, <1>2, <1>4, <1>7, <2>2, <2>5, Balance DEF Typed
  <2> QED  BY <2>4, <2>6 DEF Inv
<1> QED  BY <1>5, <1>6, <1>7 DEF Acquire

LEMMA EnterInv == ASSUME Inv, NEW r \in Requests, Enter(r) PROVE Inv'
<1> DEFINE c == Core(r)
           p == pool[c]
<1>1. Typed /\ PassesConserved  BY DEF Inv
<1>2. c \in Cores /\ p \in BooksType(Requests)  BY <1>1, CoreFacts DEF Typed
<1>3. p.avail > 0
  <2>1. PICK i \in Positions(p, r) : Assigned(p, i)  BY DEF Enter
  <2>2. i \in 1 .. Len(p.queue) /\ Len(p.queue) \in Nat
    BY <1>2, <2>1, LenProperties DEF Positions, BooksType
  <2> QED  BY <1>2, <2>1, <2>2 DEF Assigned, BooksType
<1>4. PickUp(p, r) \in BooksType(Requests) /\ Out(PickUp(p, r)) = Out(p) + 1
  BY <1>2, <1>3, PickUpFacts
<1>5. /\ pool' = [pool EXCEPT ![c] = PickUp(p, r)] /\ Becomes(r, "in") /\ req[r].pc = "waits"
      /\ UNCHANGED <<limit, link, reader, phantoms>>
  BY DEF Enter, settings, handover
<1>6. /\ req' \in [Requests -> [pc : Stages, limit : Nat]] /\ req'[r].pc = "in"
      /\ \A q \in Requests \ {r} : req'[q] = req[q]
  BY <1>1, <1>5, BecomesFacts DEF Stages
<1>7. Typed'  BY <1>1, <1>2, <1>4, <1>5, <1>6 DEF Typed
<1>8. \A b \in Cores : Cardinality(In(req', b)) =
        IF b = c THEN Cardinality(In(req, b)) + 1 ELSE Cardinality(In(req, b))
  BY <1>1, <1>5, <1>6, Enters
<1>9. NewBooks(c, PickUp(p, r), 1)  BY <1>2, <1>4, <1>5 DEF NewBooks
<1>10. PassesConserved'  BY <1>1, <1>5, <1>8, <1>9, RequestBalance
<1> QED  BY <1>7, <1>10 DEF Inv

LEMMA LeaveInv == ASSUME Inv, NEW r \in Requests, Leave(r) PROVE Inv'
<1> DEFINE c == Core(r)
           p == pool[c]
<1>1. Typed /\ PassesConserved  BY DEF Inv
<1>2. c \in Cores /\ p \in BooksType(Requests)  BY <1>1, CoreFacts DEF Typed
<1>3. Abandon(p, r) \in BooksType(Requests) /\ Out(Abandon(p, r)) = Out(p)
  BY <1>2, AbandonFacts
<1>4. /\ pool' = [pool EXCEPT ![c] = Abandon(p, r)] /\ Becomes(r, "done") /\ Tell(c, -1)
      /\ req[r].pc = "waits" /\ UNCHANGED <<limit, reader, phantoms>>
  BY DEF Leave, settings, handover
<1>5. /\ req' \in [Requests -> [pc : Stages, limit : Nat]] /\ req'[r].pc = "done"
      /\ \A q \in Requests \ {r} : req'[q] = req[q]
  BY <1>1, <1>4, BecomesFacts DEF Stages
<1>6. link' \in Seq(Said)  BY <1>1, <1>4, TellFacts
<1>7. Typed'  BY <1>1, <1>2, <1>3, <1>4, <1>5, <1>6 DEF Typed
<1>8. \A d : In(req', d) = In(req, d)  BY <1>1, <1>4, <1>5, StaysOut
<1>9. PassesConserved'  BY <1>1, <1>2, <1>3, <1>4, <1>8, Balance DEF Typed
<1> QED  BY <1>7, <1>9 DEF Inv

LEMMA FinishInv == ASSUME Inv, NEW r \in Requests, Finish(r) PROVE Inv'
<1> DEFINE c == Core(r)
           p == pool[c]
<1>1. Typed /\ PassesConserved  BY DEF Inv
<1>2. c \in Cores /\ p \in BooksType(Requests)  BY <1>1, CoreFacts DEF Typed
<1>3. GiveBack(p) \in BooksType(Requests) /\ Out(GiveBack(p)) = Out(p) - 1
  BY <1>2, GiveBackFacts
<1>4. /\ pool' = [pool EXCEPT ![c] = GiveBack(p)] /\ Becomes(r, "done") /\ Tell(c, -1)
      /\ req[r].pc = "in" /\ UNCHANGED <<limit, reader, phantoms>>
  BY DEF Finish, settings, handover
<1>5. /\ req' \in [Requests -> [pc : Stages, limit : Nat]] /\ req'[r].pc = "done"
      /\ \A q \in Requests \ {r} : req'[q] = req[q]
  BY <1>1, <1>4, BecomesFacts DEF Stages
<1>6. link' \in Seq(Said)  BY <1>1, <1>4, TellFacts
<1>7. Typed'  BY <1>1, <1>2, <1>3, <1>4, <1>5, <1>6 DEF Typed
<1>8. \A b \in Cores : Cardinality(In(req', b)) =
        IF b = c THEN Cardinality(In(req, b)) + (-1) ELSE Cardinality(In(req, b))
  BY <1>1, <1>4, <1>5, Leaves
<1>9. NewBooks(c, GiveBack(p), -1)
  <2>1. Out(p) \in Int  BY <1>2 DEF Out, BooksType
  <2> QED  BY <1>2, <1>3, <1>4, <2>1 DEF NewBooks
<1>10. PassesConserved'  BY <1>1, <1>4, <1>8, <1>9, RequestBalance
<1> QED  BY <1>7, <1>10 DEF Inv

LEMMA FinishFreeInv == ASSUME Inv, NEW r \in Requests, FinishFree(r) PROVE Inv'
<1>1. Typed /\ PassesConserved  BY DEF Inv
<1>2. /\ req' \in [Requests -> [pc : Stages, limit : Nat]] /\ req'[r].pc = "done"
      /\ \A q \in Requests \ {r} : req'[q] = req[q]
  BY <1>1, BecomesFacts DEF Stages, FinishFree
<1>3. Typed'  BY <1>1, <1>2 DEF Typed, FinishFree, settings, handover
<1>4. \A d : In(req', d) = In(req, d)  BY <1>1, <1>2, StaysOut DEF FinishFree
<1>5. PassesConserved'  BY <1>1, <1>4, Balance DEF FinishFree, handover
<1> QED  BY <1>3, <1>5 DEF Inv

(* The steps that touch neither a pass nor a pool. *)
LEMMA QuietInv ==
  ASSUME Inv, Typed', UNCHANGED <<pool, req, phantoms>>
  PROVE  Inv'
BY Balance DEF Inv

LEMMA ChangeInv == ASSUME Inv, NEW l \in Limits, Change(l) PROVE Inv'
<1>1. Typed  BY DEF Inv
<1>2. l \in Nat  BY GateAssumption
<1>3. limit' \in [Cores -> Nat]  BY <1>1, <1>2 DEF Change, Typed
<1>4. Typed'  BY <1>1, <1>3 DEF Change, Typed, handover
<1> QED  BY <1>4, QuietInv DEF Change, handover

(* The counts that the predecessor tells are of a finite set. *)
LEMMA CountFacts == <<Holds(Cardinality(Claims("old")))>> \in Seq(Said)
<1>1. IsFiniteSet(Requests)  BY GateAssumption DEF Requests
<1>2. IsFiniteSet(Claims("old"))  BY <1>1, FS_Subset DEF Claims
<1>3. Cardinality(Claims("old")) \in Nat  BY <1>2, FS_CardinalityType
<1>4. Holds(Cardinality(Claims("old"))) \in Said  BY <1>3 DEF Holds, Said
<1> QED  BY <1>4

LEMMA StageInv == ASSUME Inv, Export \/ Serve \/ Drain PROVE Inv'
<1>1. Typed  BY DEF Inv
<1>2. link' \in Seq(Said)  BY <1>1, CountFacts DEF Export, Serve, Drain, Typed
<1>3. Typed'  BY <1>1, <1>2 DEF Export, Serve, Drain, Typed, settings
<1> QED  BY <1>3, QuietInv DEF Export, Serve, Drain

LEMMA ReadInv == ASSUME Inv, ReadHolds \/ ReadStep PROVE Inv'
<1>1. Typed  BY DEF Inv
<1>2. link # <<>> /\ link \in Seq(Said)  BY <1>1 DEF ReadHolds, ReadStep, Typed
<1>3. Head(link) \in Said /\ Tail(link) \in Seq(Said)  BY <1>2, HeadTailProperties
<1>4. limit["new"] \in Nat  BY <1>1 DEF Typed, Cores
<1>5. reader' \in [goal : Nat, limit : Nat, pc : {"idle", "holds", "owes"}]
  <2>1. CASE ReadHolds  BY <1>3, <1>4, <2>1 DEF ReadHolds, Said
  <2>2. CASE ReadStep
    <3> DEFINE goal == phantoms + Head(link).n
    <3>1. goal \in Int  BY <1>1, <1>3 DEF Said, Typed
    <3>2. CASE goal < 0 \/ (goal > phantoms /\ limit["new"] = 0)
      BY <2>2, <3>2 DEF ReadStep, Idle
    <3>3. CASE ~(goal < 0 \/ (goal > phantoms /\ limit["new"] = 0))
      <4>1. goal \in Nat  BY <3>1, <3>3
      <4>2. reader' = [goal |-> goal, limit |-> limit["new"], pc |-> "holds"]
        BY <2>2, <3>3 DEF ReadStep
      <4> QED  BY <1>4, <4>1, <4>2
    <3> QED  BY <3>2, <3>3
  <2> QED  BY <2>1, <2>2
<1>6. Typed'  BY <1>1, <1>3, <1>5 DEF ReadHolds, ReadStep, Typed, settings
<1> QED  BY <1>6, QuietInv DEF ReadHolds, ReadStep

(* The passes that the successor holds and drops are on its own core. *)
LEMMA NewBalance ==
  ASSUME Typed, PassesConserved, NEW p, NEW d, NewBooks("new", p, d),
         UNCHANGED req, phantoms' = phantoms + d
  PROVE  PassesConserved'
BY Balance, InFacts DEF Typed, Cores, More, NewBooks

LEMMA HoldInv == ASSUME Inv, Hold PROVE Inv'
<1> DEFINE k == Key("new", reader.limit)
<1>1. Typed /\ PassesConserved  BY DEF Inv
<1>2. "new" \in Cores /\ reader.limit \in Nat  BY <1>1 DEF Typed, Cores
<1>3. k \in BooksType(Requests) /\ Out(k) = Out(pool["new"])  BY <1>1, <1>2, KeyFacts
<1>4. UNCHANGED <<limit, req, link>>  BY DEF Hold, settings
<1>5. CASE /\ Free(k) > 0 /\ pool' = [pool EXCEPT !["new"] = Take(k)]
           /\ phantoms' = phantoms + 1 /\ UNCHANGED reader
  <2>1. k.avail \in Nat /\ k.avail > 0
    <3>1. Free(k) \in Nat /\ Free(k) <= k.avail  BY <1>3, FreeFacts
    <3>2. k.avail \in Nat  BY <1>3 DEF BooksType
    <3> QED  BY <1>5, <3>1, <3>2
  <2>2. Take(k) \in BooksType(Requests) /\ Out(Take(k)) = Out(pool["new"]) + 1
    BY <1>3, <2>1, TakeFacts
  <2>3. Typed'  BY <1>1, <1>2, <1>4, <1>5, <2>2 DEF Typed
  <2>4. NewBooks("new", Take(k), 1) /\ UNCHANGED req /\ phantoms' = phantoms + 1
    BY <1>2, <1>4, <1>5, <2>2 DEF NewBooks
  <2>5. PassesConserved'  BY <1>1, <2>4, NewBalance
  <2> QED  BY <2>3, <2>5 DEF Inv
<1>6. CASE /\ pool' = [pool EXCEPT !["new"] = k]
           /\ reader' = [reader EXCEPT !.pc = "owes"] /\ UNCHANGED phantoms
  <2>1. Typed'  BY <1>1, <1>2, <1>3, <1>4, <1>6 DEF Typed
  <2>2. phantoms' = phantoms + 0 /\ Out(k) = Out(pool["new"]) + 0
    BY <1>1, <1>3, <1>6, Balance, InFacts DEF Typed, More, Cores
  <2>3. NewBooks("new", k, 0) /\ UNCHANGED req  BY <1>2, <1>4, <1>6, <2>2 DEF NewBooks
  <2>4. PassesConserved'  BY <1>1, <2>2, <2>3, NewBalance
  <2> QED  BY <2>1, <2>4 DEF Inv
<1> QED  BY <1>5, <1>6 DEF Hold

LEMMA DebtInv == ASSUME Inv, Debt PROVE Inv'
<1> DEFINE p == pool["new"]
<1>1. Typed /\ PassesConserved  BY DEF Inv
<1>2. "new" \in Cores /\ p \in BooksType(Requests)  BY <1>1 DEF Typed, Cores
<1>3. Owe(p) \in BooksType(Requests) /\ Out(Owe(p)) = Out(p) + 1  BY <1>2, OweFacts
<1>4. /\ pool' = [pool EXCEPT !["new"] = Owe(p)] /\ phantoms' = phantoms + 1
      /\ reader' = [reader EXCEPT !.pc = "holds"] /\ UNCHANGED <<limit, req, link>>
  BY DEF Debt, settings
<1>5. Typed'  BY SMTT(60), <1>1, <1>2, <1>3, <1>4 DEF Typed
<1>6. NewBooks("new", Owe(p), 1)  BY <1>2, <1>3, <1>4 DEF NewBooks
<1>7. PassesConserved'  BY <1>1, <1>4, <1>6, NewBalance
<1> QED  BY <1>5, <1>7 DEF Inv

LEMMA DropInv == ASSUME Inv, Drop PROVE Inv'
<1> DEFINE p == pool["new"]
<1>1. Typed /\ PassesConserved  BY DEF Inv
<1>2. "new" \in Cores /\ p \in BooksType(Requests)  BY <1>1 DEF Typed, Cores
<1>3. GiveBack(p) \in BooksType(Requests) /\ Out(GiveBack(p)) = Out(p) - 1
  BY <1>2, GiveBackFacts
<1>4. phantoms' \in Nat  BY <1>1 DEF Drop, Typed
<1>5. Typed'  BY <1>1, <1>2, <1>3, <1>4 DEF Drop, Typed, settings
<1>6. phantoms' = phantoms + (-1) /\ Out(GiveBack(p)) = Out(p) + (-1)
  BY <1>1, <1>3, Balance, InFacts DEF Drop, Typed, More, Cores
<1>7. NewBooks("new", GiveBack(p), -1) /\ UNCHANGED req  BY <1>2, <1>6 DEF NewBooks, Drop
<1>8. PassesConserved'  BY <1>1, <1>6, <1>7, NewBalance
<1> QED  BY <1>5, <1>8 DEF Inv

LEMMA HeldInv == ASSUME Inv, Held \/ Release PROVE Inv'
<1>1. Typed  BY DEF Inv
<1>2. Typed'  BY <1>1 DEF Held, Release, Typed, settings, Idle
<1> QED  BY <1>2, QuietInv DEF Held, Release

(* With the predecessor its passes are gone, and its books. *)
LEMMA ExitInv == ASSUME Inv, Exit PROVE Inv'
<1>1. Typed /\ PassesConserved  BY DEF Inv
<1>2. PICK n \in 0..Len(link) : link' = SubSeq(link, 1, n)  BY DEF Exit
<1>3. link' \in Seq(Said)
  <2>1. link \in Seq(Said) /\ Len(link) \in Nat  BY <1>1, LenProperties DEF Typed
  <2>2. \A i \in 1 .. n : link[i] \in Said  BY <1>2, <2>1, ElementOfSeq
  <2> QED  BY <1>2, <2>1, <2>2, SubSeqProperties
<1>4. /\ pool' = [pool EXCEPT !["old"] = NoKey]
      /\ req' = [r \in Requests |-> IF r \in Olds THEN [pc |-> "done", limit |-> 0] ELSE req[r]]
      /\ UNCHANGED <<limit, reader, phantoms>>
  BY DEF Exit, settings
<1>5. NoKey \in BooksType(Requests) /\ Out(NoKey) = 0  BY DEF NoKey, BooksType, Out
<1>6. Typed'  BY <1>1, <1>3, <1>4, <1>5 DEF Typed, Stages, Cores
<1>7. In(req', "old") = {}  BY <1>4 DEF In, Core
<1>8. In(req', "new") = In(req, "new")  BY <1>4 DEF In, Core
<1>9. Cardinality(In(req', "old")) = 0  BY <1>7, FS_EmptySet
<1>10. PassesConserved'
  BY <1>1, <1>4, <1>5, <1>8, <1>9, Balance DEF Cores, More, Typed
<1> QED  BY <1>6, <1>10 DEF Inv

(***************************************************************************)
(* The theorem.                                                            *)
(***************************************************************************)

LEMMA InitInv == ASSUME Init PROVE Inv
<1>1. limit \in [Cores -> Nat]  BY GateAssumption DEF Init
<1>2. NoKey \in BooksType(Requests) /\ Out(NoKey) = 0  BY DEF NoKey, BooksType, Out
<1>3. Typed  BY <1>1, <1>2 DEF Init, Typed, Stages, Idle
<1>4. \A c : Cardinality(In(req, c)) = 0
  <2>1. \A c : In(req, c) = {}  BY DEF Init, In
  <2> QED  BY <2>1, FS_EmptySet
<1>5. \A c \in Cores : Out(pool[c]) = 0 /\ More(c, phantoms) = 0
  BY <1>2 DEF Init, More
<1>6. PassesConserved  BY <1>4, <1>5, Balance
<1> QED  BY <1>3, <1>6 DEF Inv

LEMMA NextInv == ASSUME Inv, [Next]_vars PROVE Inv'
<1>1. CASE UNCHANGED vars
  <2>1. Typed'  BY <1>1 DEF Inv, Typed, vars
  <2> QED  BY <1>1, <2>1, QuietInv DEF vars
<1>2. ASSUME NEW r \in Requests, Runs(r) \/ Leave(r)  PROVE Inv'
  BY <1>2, StartInv, AcquireInv, EnterInv, FinishInv, FinishFreeInv, LeaveInv DEF Runs
<1>3. ASSUME NEW l \in Limits, Change(l)  PROVE Inv'  BY <1>3, ChangeInv
<1>4. CASE Export \/ Serve \/ Drain  BY <1>4, StageInv
<1>5. CASE Exit  BY <1>5, ExitInv
<1>6. CASE Reads  BY <1>6, ReadInv, HoldInv, DebtInv, DropInv, HeldInv DEF Reads
<1> QED  BY <1>1, <1>2, <1>3, <1>4, <1>5, <1>6 DEF Next

(* For any requests on either core and any limits: no pass is made or lost *)
(* when the limit changes under requests of different configurations, when *)
(* a wait is cancelled, or when a pass is held for the other core.         *)
THEOREM PassesAreConserved == Spec => []PassesConserved
<1>1. Inv => PassesConserved  BY DEF Inv
<1> QED  BY <1>1, InitInv, NextInv, PTL DEF Spec

(***************************************************************************)
(* What is heard.                                                          *)
(***************************************************************************)

(* f is what comes of v with the first n of what is said in q.             *)
Hears(f, v, q, n) == f = [i \in 0 .. n |-> IF i = 0 THEN v ELSE After(f[i - 1], q[i])]

LEMMA HearsStep ==
  ASSUME NEW n \in Nat, NEW v, NEW q, NEW f, Hears(f, v, q, n)
  PROVE  f[0] = v /\ \A i \in 0 .. n - 1 : f[i + 1] = After(f[i], q[i + 1])
<1>1. \A i \in 0 .. n : f[i] = IF i = 0 THEN v ELSE After(f[i - 1], q[i])
  BY DEF Hears
<1>2. ASSUME NEW i \in 0 .. n - 1 PROVE f[i + 1] = After(f[i], q[i + 1])
  <2>1. i + 1 \in 0 .. n /\ i + 1 # 0 /\ i + 1 - 1 = i
    OBVIOUS
  <2>2. f[i + 1] = IF i + 1 = 0 THEN v ELSE After(f[i + 1 - 1], q[i + 1])
    BY <1>1, <2>1
  <2> QED BY <2>1, <2>2
<1>3. 0 \in 0 .. n
  OBVIOUS
<1> QED BY <1>1, <1>2, <1>3

LEMMA HearsExists ==
  ASSUME NEW v, NEW q, NEW n \in Nat
  PROVE  \E f : Hears(f, v, q, n)
<1> DEFINE D == {m \in Nat : \E f : Hears(f, v, q, m)}
<1>1. 0 \in D
  <2>1. Hears([i \in 0 .. 0 |-> v], v, q, 0)
    BY DEF Hears
  <2> QED BY <2>1
<1>2. ASSUME NEW m \in Nat, m \in D PROVE m + 1 \in D
  <2>1. PICK f : Hears(f, v, q, m)
    BY <1>2
  <2> DEFINE g == [i \in 0 .. m + 1 |-> IF i <= m THEN f[i] ELSE After(f[i - 1], q[i])]
  <2>2. ASSUME NEW i \in 0 .. m + 1
        PROVE  g[i] = IF i = 0 THEN v ELSE After(g[i - 1], q[i])
    <3>1. CASE i <= m
      <4>1. i \in 0 .. m /\ g[i] = f[i] /\ (i # 0 => g[i - 1] = f[i - 1])
        BY <3>1
      <4> HIDE DEF g
      <4> QED BY <2>1, <4>1 DEF Hears
    <3>2. CASE i = m + 1
      BY <3>2
    <3> QED BY <3>1, <3>2
  <2>3. Hears(g, v, q, m + 1)
    <3>1. g = [i \in 0 .. m + 1 |-> g[i]]
      OBVIOUS
    <3> HIDE DEF g
    <3> QED BY <2>2, <3>1 DEF Hears
  <2> QED BY <2>3
<1> HIDE DEF D
<1>3. n \in D
  BY <1>1, <1>2, Induction
<1> QED BY <1>3 DEF D

LEMMA HeardIs ==
  ASSUME NEW T, NEW q \in Seq(T), NEW v
  PROVE  \E f : Hears(f, v, q, Len(q)) /\ Heard(v, q) = f[Len(q)]
<1>1. Len(q) \in Nat
  BY LenProperties
<1>2. \E f : Hears(f, v, q, Len(q))
  BY <1>1, HearsExists
<1> QED BY <1>2 DEF Hears, Heard

(* The last thing said is heard last.                                      *)
LEMMA HeardLast ==
  ASSUME NEW T, NEW q \in Seq(T), NEW e \in T, NEW v
  PROVE  Heard(v, Append(q, e)) = After(Heard(v, q), e)
<1> DEFINE p == Append(q, e)
           n == Len(q)
<1>1. /\ n \in Nat /\ p \in Seq(T) /\ Len(p) = n + 1
      /\ \A i \in 1 .. n : p[i] = q[i]
      /\ p[n + 1] = e
  BY AppendProperties, LenProperties
<1>2. PICK f : Hears(f, v, p, n + 1) /\ Heard(v, p) = f[n + 1]
  BY <1>1, HeardIs
<1>3. PICK g : Hears(g, v, q, n) /\ Heard(v, q) = g[n]
  BY HeardIs
<1> HIDE DEF p, n
<1>4. f[0] = v /\ \A i \in 0 .. n + 1 - 1 : f[i + 1] = After(f[i], p[i + 1])
  BY <1>1, <1>2, HearsStep
<1>5. g[0] = v /\ \A i \in 0 .. n - 1 : g[i + 1] = After(g[i], q[i + 1])
  BY <1>1, <1>3, HearsStep
<1>6. f[n] = g[n]
  <2>1. \A i \in 0 .. n - 1 : f[i + 1] = After(f[i], q[i + 1])
    <3> SUFFICES ASSUME NEW i \in 0 .. n - 1 PROVE f[i + 1] = After(f[i], q[i + 1])
      OBVIOUS
    <3>1. i \in 0 .. n + 1 - 1 /\ i + 1 \in 1 .. n
      BY <1>1
    <3> QED BY <1>1, <1>4, <3>1
  <2> DEFINE D == {m \in Nat : m <= n => f[m] = g[m]}
  <2>2. 0 \in D
    BY <1>4, <1>5
  <2>3. ASSUME NEW m \in Nat, m \in D PROVE m + 1 \in D
    <3> SUFFICES ASSUME m + 1 <= n PROVE f[m + 1] = g[m + 1]
      OBVIOUS
    <3>1. f[m] = g[m] /\ m \in 0 .. n - 1
      BY <1>1, <2>3
    <3> QED BY <1>5, <2>1, <3>1
  <2> HIDE DEF D
  <2>4. n \in D
    BY <1>1, <2>2, <2>3, Induction
  <2> QED BY <2>4 DEF D
<1>7. f[n + 1] = After(f[n], p[n + 1])
  <2>1. n \in 0 .. n + 1 - 1
    BY <1>1
  <2> QED BY <1>4, <2>1
<1> QED BY <1>1, <1>2, <1>3, <1>6, <1>7 DEF p

(* The first thing said is heard first.                                    *)
LEMMA HeardFirst ==
  ASSUME NEW T, NEW q \in Seq(T), q # <<>>, NEW v
  PROVE  Heard(v, q) = Heard(After(v, Head(q)), Tail(q))
<1> DEFINE p == Tail(q)
           n == Len(p)
           w == After(v, Head(q))
<1>1. /\ n \in Nat /\ p \in Seq(T) /\ Len(q) = n + 1 /\ Head(q) = q[1]
      /\ \A i \in 1 .. n : p[i] = q[i + 1]
  <2>1. Len(q) \in Nat /\ Len(q) # 0
    BY LenProperties, EmptySeq
  <2>2. /\ p \in Seq(T) /\ n = Len(q) - 1 /\ Head(q) = q[1]
        /\ \A i \in 1 .. Len(q) - 1 : p[i] = q[i + 1]
    BY HeadTailProperties
  <2> HIDE DEF p
  <2> QED BY <2>1, <2>2
<1>2. PICK f : Hears(f, v, q, n + 1) /\ Heard(v, q) = f[n + 1]
  BY <1>1, HeardIs
<1>3. PICK g : Hears(g, w, p, n) /\ Heard(w, p) = g[n]
  BY <1>1, HeardIs
<1> HIDE DEF p, n
<1>4. f[0] = v /\ \A i \in 0 .. n + 1 - 1 : f[i + 1] = After(f[i], q[i + 1])
  BY <1>1, <1>2, HearsStep
<1>5. g[0] = w /\ \A i \in 0 .. n - 1 : g[i + 1] = After(g[i], p[i + 1])
  BY <1>1, <1>3, HearsStep
<1> DEFINE D == {m \in Nat : m <= n => f[m + 1] = g[m]}
<1>6. 0 \in D
  <2>1. 0 \in 0 .. n + 1 - 1
    BY <1>1
  <2>2. f[0 + 1] = After(v, q[0 + 1])
    BY <1>4, <2>1
  <2> QED BY <1>1, <1>5, <2>2
<1>7. ASSUME NEW m \in Nat, m \in D PROVE m + 1 \in D
  <2> SUFFICES ASSUME m + 1 <= n PROVE f[m + 1 + 1] = g[m + 1]
    OBVIOUS
  <2>1. f[m + 1] = g[m]
    BY <1>1, <1>7
  <2>2. m + 1 \in 0 .. n + 1 - 1 /\ m \in 0 .. n - 1 /\ m + 1 \in 1 .. n
    BY <1>1
  <2>3. /\ f[m + 1 + 1] = After(f[m + 1], q[m + 1 + 1])
        /\ g[m + 1] = After(g[m], p[m + 1])
        /\ p[m + 1] = q[m + 1 + 1]
    BY <1>1, <1>4, <1>5, <2>2
  <2> QED BY <2>1, <2>3
<1> HIDE DEF D
<1>8. n \in D
  BY <1>1, <1>6, <1>7, Induction
<1>9. f[n + 1] = g[n]
  BY <1>1, <1>8 DEF D
<1> QED BY <1>2, <1>3, <1>9 DEF p

LEMMA AfterFacts ==
  ASSUME NEW e \in Said, NEW v \in Nat, NEW w \in Nat, v <= w
  PROVE  After(v, e) \in Nat /\ After(w, e) \in Nat /\ After(v, e) <= After(w, e)
BY DEF After, Said

(* Who begins with no more ends with no more.                              *)
LEMMA HeardLess ==
  ASSUME NEW q \in Seq(Said), NEW v \in Nat, NEW w \in Nat, v <= w
  PROVE  Heard(v, q) \in Nat /\ Heard(w, q) \in Nat /\ Heard(v, q) <= Heard(w, q)
<1> DEFINE n == Len(q)
<1>1. n \in Nat /\ \A i \in 1 .. n : q[i] \in Said
  BY LenProperties, ElementOfSeq
<1>2. PICK f : Hears(f, v, q, n) /\ Heard(v, q) = f[n]
  BY HeardIs
<1>3. PICK g : Hears(g, w, q, n) /\ Heard(w, q) = g[n]
  BY HeardIs
<1> HIDE DEF n
<1>4. f[0] = v /\ \A i \in 0 .. n - 1 : f[i + 1] = After(f[i], q[i + 1])
  BY <1>1, <1>2, HearsStep
<1>5. g[0] = w /\ \A i \in 0 .. n - 1 : g[i + 1] = After(g[i], q[i + 1])
  BY <1>1, <1>3, HearsStep
<1> DEFINE D == {m \in Nat : m <= n => f[m] \in Nat /\ g[m] \in Nat /\ f[m] <= g[m]}
<1>6. 0 \in D
  BY <1>4, <1>5
<1>7. ASSUME NEW m \in Nat, m \in D PROVE m + 1 \in D
  <2> SUFFICES ASSUME m + 1 <= n
               PROVE  f[m + 1] \in Nat /\ g[m + 1] \in Nat /\ f[m + 1] <= g[m + 1]
    OBVIOUS
  <2>1. f[m] \in Nat /\ g[m] \in Nat /\ f[m] <= g[m]
    BY <1>1, <1>7
  <2>2. m \in 0 .. n - 1 /\ q[m + 1] \in Said
    BY <1>1
  <2>3. f[m + 1] = After(f[m], q[m + 1]) /\ g[m + 1] = After(g[m], q[m + 1])
    BY <1>4, <1>5, <2>2
  <2> QED BY <2>1, <2>2, <2>3, AfterFacts
<1> HIDE DEF D
<1>8. n \in D
  BY <1>1, <1>6, <1>7, Induction
<1> QED BY <1>1, <1>2, <1>3, <1>8 DEF D

(***************************************************************************)
(* PhantomsFollow.                                                         *)
(***************************************************************************)

Claimed == Cardinality(Claims("old"))

(* What the successor holds when it is through with what it is at.         *)
Aim == IF reader.pc = "idle" THEN phantoms ELSE reader.goal

(* e is what is expected, and k the claims of the predecessor; l whether   *)
(* there was no limit in between.                                          *)
Agrees(l, e, k) == IF l THEN e <= k ELSE e = k

Follows ==
  /\ lifted \in BOOLEAN
  /\ stage = "drains" => /\ Agrees(lifted, Heard(Aim, link), Claimed)
                         /\ ~lifted => limit["new"] # 0

LEMMA AimFacts ==
  /\ Typed => Aim \in Nat /\ Claimed \in Nat /\ IsFiniteSet(Claims("old"))
  /\ Expected = Heard(Aim, link)
<1>1. IsFiniteSet(Requests)  BY GateAssumption DEF Requests
<1>2. IsFiniteSet(Claims("old"))  BY <1>1, FS_Subset DEF Claims
<1>3. Claimed \in Nat  BY <1>2, FS_CardinalityType DEF Claimed
<1>4. Typed => Aim \in Nat  BY DEF Typed, Aim
<1>5. Expected = Heard(Aim, link)  BY DEF Expected, Aim
<1> QED  BY <1>2, <1>3, <1>4, <1>5

(* What neither claims nor says anything, nor is read.                     *)
LEMMA FollowsStill ==
  ASSUME Typed, Follows, stage' = "drains" => stage = "drains",
         UNCHANGED <<link, limit, lifted>>, Aim' = Aim, Claims("old")' = Claims("old")
  PROVE  Follows'
BY DEF Follows, Agrees, Claimed

(* One more claim or one less, and the predecessor says so.                *)
LEMMA FollowsTold ==
  ASSUME Typed, Follows, NEW d \in {1, -1}, Tell("old", d),
         UNCHANGED <<stage, limit, lifted, reader, phantoms>>,
         Claimed' = Claimed + d, Claimed' \in Nat
  PROVE  Follows'
<1> SUFFICES ASSUME stage = "drains"
             PROVE  Agrees(lifted, Heard(Aim', link'), Claimed')
  BY DEF Follows
<1>1. link \in Seq(Said) /\ Step(d) \in Said /\ Aim' = Aim
  BY DEF Typed, Step, Said, Aim
<1>2. Heard(Aim', link') = After(Heard(Aim, link), Step(d))
  BY <1>1, HeardLast DEF Tell
<1>3. Heard(Aim, link) \in Nat /\ Claimed \in Nat
  BY <1>1, AimFacts, HeardLess
<1>4. Agrees(lifted, Heard(Aim, link), Claimed)
  BY DEF Follows
<1>5. After(Heard(Aim, link), Step(d)) =
        IF Heard(Aim, link) + d < 0 THEN 0 ELSE Heard(Aim, link) + d
  BY DEF After, Step
<1> QED  BY <1>2, <1>3, <1>4, <1>5 DEF Agrees

(* Request r gets to p, and was or is one that has a claim.                *)
LEMMA ClaimsMove ==
  ASSUME Typed, NEW r \in Requests, NEW p \in Stages, Becomes(r, p)
  PROVE  Claims("old")' = IF Core(r) = "old" /\ p \in {"waits", "in"}
                          THEN Claims("old") \cup {r} ELSE Claims("old") \ {r}
<1>1. /\ req'[r].pc = p /\ \A q \in Requests \ {r} : req'[q] = req[q]
  BY BecomesFacts
<1> QED  BY <1>1 DEF Claims

LEMMA FollowsMoved ==
  ASSUME Typed, Follows, NEW r \in Requests, NEW p \in Stages, Becomes(r, p),
         UNCHANGED <<stage, limit, lifted, reader, phantoms>>,
         LET was == req[r].pc \in {"waits", "in"}  is == p \in {"waits", "in"}
         IN \/ was = is /\ UNCHANGED link
            \/ ~was /\ is /\ Tell(Core(r), 1)
            \/ was /\ ~is /\ Tell(Core(r), -1)
  PROVE  Follows'
<1> DEFINE C == Claims("old")
           was == req[r].pc \in {"waits", "in"}
           is  == p \in {"waits", "in"}
<1>1. IsFiniteSet(C) /\ Claimed = Cardinality(C) /\ Claimed \in Nat
  BY AimFacts DEF Claimed
<1>2. /\ r \in C <=> Core(r) = "old" /\ was
      /\ C' = IF Core(r) = "old" /\ is THEN C \cup {r} ELSE C \ {r}
  BY ClaimsMove DEF Claims
<1>3. Claimed' = Cardinality(C')
  BY DEF Claimed
<1>4. Aim' = Aim
  BY DEF Aim
<1> HIDE DEF C
<1>5. CASE was = is /\ UNCHANGED link
  <2>1. C' = C
    BY <1>2, <1>5
  <2> QED  BY <1>4, <1>5, <2>1, FollowsStill DEF C
<1>6. CASE Core(r) # "old" /\ (Tell(Core(r), 1) \/ Tell(Core(r), -1))
  <2>1. C' = C
    BY <1>2, <1>6
  <2> QED  BY <1>4, <1>6, <2>1, FollowsStill DEF C, Tell
<1>7. CASE Core(r) = "old" /\ ~was /\ is /\ Tell(Core(r), 1)
  <2>1. Cardinality(C') = Cardinality(C) + 1
    BY <1>1, <1>2, <1>7, FS_AddElement
  <2> QED  BY <1>1, <1>3, <1>7, <2>1, FollowsTold
<1>8. CASE Core(r) = "old" /\ was /\ ~is /\ Tell(Core(r), -1)
  <2>1. C' = C \ {r} /\ r \in C
    BY <1>2, <1>8
  <2>2. Cardinality(C') = Cardinality(C) - 1 /\ IsFiniteSet(C')
    BY <1>1, <2>1, FS_RemoveElement
  <2>3. Cardinality(C') \in Nat
    BY <2>2, FS_CardinalityType
  <2> QED  BY <1>1, <1>3, <1>8, <2>2, <2>3, FollowsTold
<1> QED  BY <1>5, <1>6, <1>7, <1>8

LEMMA FollowsRequest ==
  ASSUME Inv, Follows, NEW r \in Requests, Runs(r) \/ Leave(r)
  PROVE  Follows'
<1>1. Typed  BY DEF Inv
<1>2. UNCHANGED <<stage, limit, lifted, reader, phantoms>>
  BY DEF Runs, Start, Acquire, Enter, Finish, FinishFree, Leave, settings, handover
<1>3. CASE Start(r)
  <2>1. Claims("old")' = Claims("old")
    <3>1. req' = [req EXCEPT ![r] = [pc |-> "starts", limit |-> limit[Core(r)]]] /\ req[r].pc = "new"
      BY <1>3 DEF Start
    <3>2. req'[r].pc = "starts" /\ \A q \in Requests \ {r} : req'[q] = req[q]
      BY <1>1, <3>1 DEF Typed
    <3> QED  BY <3>1, <3>2 DEF Claims
  <2> QED  BY <1>1, <1>2, <1>3, <2>1, FollowsStill DEF Start, Aim
<1>4. CASE Acquire(r)
  <2>1. req[r].pc = "starts"  BY <1>4 DEF Acquire
  <2>2. \/ Becomes(r, "free") /\ UNCHANGED link
        \/ Tell(Core(r), 1) /\ (Becomes(r, "in") \/ Becomes(r, "waits"))
    BY <1>4 DEF Acquire
  <2> QED  BY <1>1, <1>2, <2>1, <2>2, FollowsMoved DEF Stages
<1>5. CASE Enter(r)
  <2>1. req[r].pc = "waits" /\ Becomes(r, "in") /\ UNCHANGED link  BY <1>5 DEF Enter
  <2> QED  BY <1>1, <1>2, <2>1, FollowsMoved DEF Stages
<1>6. CASE Finish(r) \/ Leave(r)
  <2>1. req[r].pc \in {"waits", "in"} /\ Becomes(r, "done") /\ Tell(Core(r), -1)
    BY <1>6 DEF Finish, Leave
  <2> QED  BY <1>1, <1>2, <2>1, FollowsMoved DEF Stages
<1>7. CASE FinishFree(r)
  <2>1. req[r].pc = "free" /\ Becomes(r, "done") /\ UNCHANGED link  BY <1>7 DEF FinishFree
  <2> QED  BY <1>1, <1>2, <2>1, FollowsMoved DEF Stages
<1> QED  BY <1>3, <1>4, <1>5, <1>6, <1>7 DEF Runs

LEMMA FollowsChange ==
  ASSUME Inv, Follows, NEW l \in Limits, Change(l)
  PROVE  Follows'
<1>1. Typed  BY DEF Inv
<1>2. UNCHANGED <<pool, req, link, stage, reader, phantoms>>
  BY DEF Change, handover
<1>3. Aim' = Aim /\ Claimed' = Claimed  BY <1>2 DEF Aim, Claimed, Claims
<1>4. /\ lifted' = (lifted \/ (stage = "drains" /\ l = 0))
      /\ limit'["new"] = l
  BY DEF Change, Cores
<1>5. Heard(Aim, link) \in Nat /\ Claimed \in Nat
  <2>1. Aim \in Nat /\ Claimed \in Nat  BY <1>1, AimFacts
  <2>2. link \in Seq(Said)  BY <1>1 DEF Typed
  <2>3. Aim <= Aim  BY <2>1
  <2> QED  BY <2>1, <2>2, <2>3, HeardLess
<1>6. Heard(Aim', link') = Heard(Aim, link)  BY <1>2, <1>3
<1>7. lifted \in BOOLEAN /\ lifted' \in BOOLEAN  BY <1>4 DEF Follows
<1>8. stage = "drains" => Agrees(lifted', Heard(Aim', link'), Claimed')
  <2>1. stage = "drains" => Agrees(lifted, Heard(Aim, link), Claimed)  BY DEF Follows
  <2> QED  BY <1>3, <1>4, <1>5, <1>6, <1>7, <2>1 DEF Agrees
<1>9. stage = "drains" /\ ~lifted' => limit'["new"] # 0  BY <1>4
<1> QED  BY <1>2, <1>7, <1>8, <1>9 DEF Follows

LEMMA FollowsDrain ==
  ASSUME Inv, Follows, Drain
  PROVE  Follows'
<1> DEFINE e == Holds(Claimed)
<1>1. Typed  BY DEF Inv
<1>2. link' = <<e>> /\ UNCHANGED <<limit, req, reader, phantoms>> /\ lifted' = (limit["new"] = 0)
  BY DEF Drain, Claimed
<1>3. Aim' = Aim /\ Claimed' = Claimed  BY <1>2 DEF Aim, Claimed, Claims
<1>4. Claimed \in Nat /\ Aim \in Nat  BY <1>1, AimFacts
<1>5. Heard(Aim, <<e>>) = Claimed
  <2>1. <<>> \in Seq(Said) /\ e \in Said /\ <<e>> = Append(<<>>, e)
    BY <1>4 DEF Holds, Said
  <2>2. Heard(Aim, <<e>>) = After(Heard(Aim, <<>>), e)
    BY <2>1, HeardLast
  <2> QED  BY <2>2 DEF After, Holds
<1>6. Heard(Aim', link') = Claimed'  BY <1>2, <1>3, <1>5
<1>7. Agrees(lifted', Heard(Aim', link'), Claimed')
  BY <1>3, <1>4, <1>6 DEF Agrees
<1> QED  BY <1>2, <1>7 DEF Follows

(* What is read was said first.                                            *)
LEMMA FollowsRead ==
  ASSUME Inv, Follows, ReadHolds \/ ReadStep
  PROVE  Follows'
<1> DEFINE e == Head(link)
           q == Tail(link)
<1>1. Typed /\ link \in Seq(Said) /\ link # <<>>
  BY DEF Inv, Typed, ReadHolds, ReadStep
<1>2. e \in Said /\ q \in Seq(Said) /\ Heard(Aim, link) = Heard(After(Aim, e), q)
  BY <1>1, HeadTailProperties, HeardFirst
<1>3. /\ reader.pc = "idle" /\ link' = q
      /\ UNCHANGED <<limit, lifted, req, stage, phantoms>>
  BY DEF ReadHolds, ReadStep, settings
<1>4. Aim = phantoms /\ phantoms \in Nat /\ limit["new"] \in Nat
  BY <1>1, <1>3 DEF Aim, Typed, Cores
<1>5. Claimed' = Claimed  BY <1>3 DEF Claimed, Claims
<1>6. /\ After(Aim, e) \in Nat /\ Aim' \in Nat /\ Aim' <= After(Aim, e)
      /\ limit["new"] # 0 => Aim' = After(Aim, e)
  <2>1. CASE ReadHolds
    <3>1. e.holds /\ Aim' = IF limit["new"] = 0 THEN 0 ELSE e.n
      BY <2>1 DEF ReadHolds, Aim
    <3> QED  BY <1>2, <3>1 DEF Said, After
  <2>2. CASE ReadStep
    <3> DEFINE goal == phantoms + e.n
    <3>1. ~e.holds /\ e.n \in {1, -1}
      BY <1>2, <2>2 DEF ReadStep, Said
    <3>2. Aim' = IF goal < 0 \/ (goal > phantoms /\ limit["new"] = 0) THEN phantoms ELSE goal
      BY <1>3, <2>2 DEF ReadStep, Aim, Idle
    <3> QED  BY <1>4, <3>1, <3>2 DEF After
  <2> QED  BY <2>1, <2>2
<1> HIDE DEF e, q
<1>7. /\ Heard(Aim', q) \in Nat /\ Heard(After(Aim, e), q) \in Nat
      /\ Heard(Aim', q) <= Heard(After(Aim, e), q)
      /\ limit["new"] # 0 => Heard(Aim', q) = Heard(After(Aim, e), q)
  BY <1>2, <1>6, HeardLess
<1>8. Claimed \in Nat  BY <1>1, AimFacts
<1>9. stage = "drains" => Agrees(lifted, Heard(Aim', q), Claimed)
  <2>1. stage = "drains" => /\ Agrees(lifted, Heard(Aim, link), Claimed)
                            /\ lifted \in BOOLEAN /\ (~lifted => limit["new"] # 0)
    BY DEF Follows
  <2> QED  BY <1>2, <1>7, <1>8, <2>1 DEF Agrees
<1> QED  BY <1>3, <1>5, <1>9 DEF Follows

LEMMA FollowsNext == ASSUME Inv, Follows, [Next]_vars PROVE Follows'
<1>1. Typed  BY DEF Inv
<1>2. CASE UNCHANGED vars
  BY <1>1, <1>2, FollowsStill DEF vars, Aim, Claims
<1>3. CASE Export \/ Serve \/ Exit
  <2>1. stage' # "drains" /\ UNCHANGED lifted
    BY <1>3 DEF Export, Serve, Exit, settings
  <2> QED  BY <2>1 DEF Follows
<1>4. CASE Hold \/ Debt \/ Drop \/ Held \/ Release
  <2>1. UNCHANGED <<limit, lifted, req, stage, link>>
    BY <1>4 DEF Hold, Debt, Drop, Held, Release, settings
  <2>2. Claims("old")' = Claims("old")  BY <2>1 DEF Claims
  <2>3. CASE Release
    <3>1. stage' # "drains"  BY <2>1, <2>3 DEF Release
    <3> QED  BY <2>1, <3>1 DEF Follows
  <2>4. CASE Held
    <3>1. Aim' = Aim  BY <1>1, <2>4 DEF Held, Aim, Idle, Typed
    <3> QED  BY <1>1, <2>1, <2>2, <3>1, FollowsStill
  <2>5. CASE Hold \/ Debt \/ Drop
    <3>1. Aim' = Aim  BY <1>1, <2>5 DEF Hold, Debt, Drop, Aim, Typed
    <3> QED  BY <1>1, <2>1, <2>2, <3>1, FollowsStill
  <2> QED  BY <1>4, <2>3, <2>4, <2>5
<1> QED  BY <1>2, <1>3, <1>4, FollowsRequest, FollowsChange, FollowsDrain, FollowsRead
        DEF Next, Reads

(* For any requests and limits: from the beginning of the drain, what the  *)
(* successor has been told (handover/feed.rs) and is about to hold comes   *)
(* to the requests that the predecessor still has, or to no more of them   *)
(* if the key had no limit in between.                                     *)
THEOREM PhantomsDoFollow == Spec => []PhantomsFollow
<1>1. Init => Follows  BY DEF Init, Follows
<1>2. Follows => PhantomsFollow
  BY AimFacts DEF Follows, PhantomsFollow, Agrees, Claimed
<1> QED  BY <1>1, <1>2, InitInv, NextInv, FollowsNext, PTL DEF Spec

(***************************************************************************)
(* The usage limits of an upstream: who has which reservation.  Of a core  *)
(* that is there, each reservation is that of a try under way or bound to  *)
(* one request that still runs or whose row has not come (Owned); of those *)
(* held for the other core, the numbers are followed through all that the  *)
(* feed still has to say (Trails).                                         *)
(***************************************************************************)

CONSTANTS Request, Name, First, W, Estimate, Actual, Worlds, PendingMax, MaxTime, MaxTries,
          MaxTurns, D, Grace
VARIABLES world, now, zone, named, calls, mem, phase, snap, feed, opened, turns

U == INSTANCE Usage WITH req <- calls

Fields == {"books", "held", "seq", "asked", "theirs", "follows"}
Image(f) == {f[x] : x \in DOMAIN f}

(* A memory: its reservations have numbers that were given, those of the   *)
(* other core have no request, and only a request is found to be over.     *)
Formed(m) ==
  /\ DOMAIN m = Fields /\ m.seq \in Nat
  /\ DOMAIN m.held \subseteq 1 .. m.seq
  /\ \A s \in DOMAIN m.held :
       /\ DOMAIN m.held[s] = {"name", "at", "use", "request", "closed"}
       /\ m.held[s].request = {} => m.held[s].closed = {}
  /\ Image(m.theirs) \subseteq 1 .. m.seq
  /\ \A s \in DOMAIN m.held \cap Image(m.theirs) : m.held[s].request = {}

(* A request and what it holds of the reservations of m.                   *)
Holder(m, r, q) ==
  /\ \/ q.hop = {}
     \/ /\ \E s \in DOMAIN m.held \ Image(m.theirs) : q.hop = {s} /\ m.held[s].request = {}
        /\ q.status = "Open"
        /\ q.tries # <<>> /\ q.tries[Len(q.tries)].kept
  /\ q.status = "Open" =>
       Cardinality(U!Bound(m, r) \cup q.hop) = Cardinality(U!Counting(q.tries))

Owner(m, s, r, q) ==
  \/ s \in q.hop /\ m.held[s].request = {}
  \/ m.held[s].request = {r} /\ q.status \in {"Open", "Ended", "Lost"}

(* The reservations of core c and its requests.                            *)
Owned(c, m, q) ==
  /\ \A r \in Request : q[r].core = c => Holder(m, r, q[r])
  /\ \A r, x \in Request : r # x /\ q[r].core = c /\ q[x].core = c =>
       q[r].hop \cap q[x].hop = {}
  /\ \A s \in DOMAIN m.held \ Image(m.theirs) :
       \E r \in Request : q[r].core = c /\ Owner(m, s, r, q[r])

Try == [name : Name, at : Int, kept : BOOLEAN]

Asker(q) ==
  /\ DOMAIN q = {"core", "at", "status", "hop", "tries"}
  /\ q.core \in U!Core \cup {"past"}
  /\ q.tries \in Seq(Try)
  /\ q.status \in {"Idle", "Open", "Ended", "Recorded", "Lost"}
  /\ q.status = "Idle" => q.hop = {} /\ q.tries = <<>>
  /\ q.core = "past" => q.status \in {"Recorded", "Lost"}

Wired(H) == IsFiniteSet(H) /\ \A h \in H : h.seq \in Nat

(* What may be said on the feed. *)
Event(ev) ==
  \/ ev.kind = "Holds" /\ Wired(ev.held)
  \/ ev.kind \in {"Reserve", "Settle", "Release", "Drop"}

Puts(ev, t) ==
  \/ ev.kind = "Holds" /\ t \in {h.seq : h \in ev.held}
  \/ ev.kind = "Reserve" /\ t = ev.held.seq

Takes(ev, t) ==
  \/ ev.kind = "Holds" /\ t \notin {h.seq : h \in ev.held}
  \/ ev.kind = "Settle" /\ t \in ev.seqs
  \/ ev.kind \in {"Release", "Drop"} /\ t = ev.seq

(* Who has the numbers T and hears q has t then: the last that is said of  *)
(* t counts.                                                               *)
Will(q, T, t) ==
  \/ \E i \in DOMAIN q : Puts(q[i], t) /\ \A j \in DOMAIN q : i < j => ~Takes(q[j], t)
  \/ t \in T /\ \A j \in DOMAIN q : ~Takes(q[j], t)

Spoken(q) == q \in Seq({q[i] : i \in DOMAIN q}) /\ \A i \in DOMAIN q : Event(q[i])

Phases == {"Alone", "Offered", "Imported", "Draining", "Gone"}

Whole ==
  /\ PendingMax \in Nat
  /\ now \in Int /\ named \in Name /\ phase \in Phases
  /\ DOMAIN calls = Request /\ \A r \in Request : Asker(calls[r])
  /\ DOMAIN mem = U!Core /\ \A c \in U!Core : Formed(mem[c])
  /\ \A r \in Request : calls[r].core = "new" => phase \in {"Draining", "Gone"}
  /\ phase # "Gone" => Owned("old", mem["old"], calls)
  /\ Owned("new", mem["new"], calls)
  /\ \A s \in snap : Wired(s.held)
  /\ DOMAIN feed = {"on", "queue", "draining", "lost", "missed"} /\ Spoken(feed.queue)
  /\ phase = "Draining" => feed.on /\ feed.draining /\ ~feed.lost

Trails ==
  phase = "Draining" =>
    \A t : Will(feed.queue, DOMAIN mem["new"].theirs, t) <=> t \in DOMAIN mem["old"].held

-----------------------------------------------------------------------------
(* Lists of what is said *)

LEMMA SaidBy ==
  ASSUME NEW T, NEW q \in Seq(T), \A i \in DOMAIN q : Event(q[i])
  PROVE  Spoken(q)
<1> DEFINE K == {q[i] : i \in DOMAIN q}
<1>1. Len(q) \in Nat /\ q \in [1 .. Len(q) -> T]  OBVIOUS
<1>2. q \in [1 .. Len(q) -> K]  BY <1>1
<1>3. q \in Seq(K)  BY <1>1, <1>2
<1> QED  BY <1>3 DEF Spoken

LEMMA SaidLen ==
  ASSUME NEW q, Spoken(q)
  PROVE  Len(q) \in Nat /\ DOMAIN q = 1 .. Len(q)
BY DEF Spoken

LEMMA SaidJoined ==
  ASSUME NEW q, Spoken(q), NEW w, Spoken(w)
  PROVE  /\ Spoken(q \o w) /\ Len(q \o w) = Len(q) + Len(w)
         /\ \A i \in 1 .. Len(q) : (q \o w)[i] = q[i]
         /\ \A i \in 1 .. Len(w) : (q \o w)[Len(q) + i] = w[i]
<1> DEFINE A == {q[i] : i \in DOMAIN q}
           B == {w[i] : i \in DOMAIN w}
<1>1. q \in Seq(A \cup B) /\ w \in Seq(A \cup B)
  <2>1. q \in Seq(A) /\ w \in Seq(B)  BY DEF Spoken
  <2> HIDE DEF A, B
  <2> QED  BY <2>1
<1>2. \A i \in DOMAIN q : Event(q[i])  BY DEF Spoken
<1>3. \A i \in DOMAIN w : Event(w[i])  BY DEF Spoken
<1> HIDE DEF A, B
<1>4. /\ q \o w \in Seq(A \cup B) /\ Len(q \o w) = Len(q) + Len(w)
      /\ \A i \in 1 .. Len(q) : (q \o w)[i] = q[i]
      /\ \A i \in 1 .. Len(w) : (q \o w)[Len(q) + i] = w[i]
  BY <1>1
<1>5. \A i \in DOMAIN (q \o w) : Event((q \o w)[i])
  <2> SUFFICES ASSUME NEW i \in 1 .. Len(q) + Len(w) PROVE Event((q \o w)[i])
    BY <1>4
  <2>1. Len(q) \in Nat /\ Len(w) \in Nat /\ DOMAIN q = 1 .. Len(q) /\ DOMAIN w = 1 .. Len(w)
    BY <1>1
  <2>2. CASE i <= Len(q)  BY <1>2, <1>4, <2>1, <2>2
  <2>3. CASE i > Len(q)
    <3>1. i - Len(q) \in 1 .. Len(w) /\ Len(q) + (i - Len(q)) = i  BY <2>1, <2>3
    <3> QED  BY <1>3, <1>4, <2>1, <3>1
  <2> QED  BY <2>1, <2>2, <2>3
<1> QED  BY <1>4, <1>5, SaidBy

LEMMA SaidFirst ==
  ASSUME NEW q, Spoken(q), NEW n \in Nat
  PROVE  Spoken(SubSeq(q, 1, n)) \/ n > Len(q)
<1> DEFINE A == {q[i] : i \in DOMAIN q}
<1> SUFFICES ASSUME n <= Len(q) PROVE Spoken(SubSeq(q, 1, n))
  BY SaidLen
<1>1. q \in Seq(A) /\ \A i \in DOMAIN q : Event(q[i])  BY DEF Spoken
<1> HIDE DEF A
<1>2. /\ SubSeq(q, 1, n) \in Seq(A) /\ Len(SubSeq(q, 1, n)) = n
      /\ \A i \in 1 .. n : SubSeq(q, 1, n)[i] = q[i]
  BY <1>1
<1>3. \A i \in DOMAIN SubSeq(q, 1, n) : Event(SubSeq(q, 1, n)[i])
  BY <1>1, <1>2
<1> QED  BY <1>2, <1>3, SaidBy

LEMMA SaidTail ==
  ASSUME NEW q, Spoken(q), q # <<>>
  PROVE  /\ Spoken(Tail(q)) /\ Len(Tail(q)) = Len(q) - 1 /\ Len(q) > 0
         /\ \A i \in 1 .. Len(q) - 1 : Tail(q)[i] = q[i + 1]
         /\ Head(q) = q[1] /\ Event(Head(q))
<1> DEFINE A == {q[i] : i \in DOMAIN q}
<1>1. q \in Seq(A) /\ \A i \in DOMAIN q : Event(q[i])  BY DEF Spoken
<1> HIDE DEF A
<1>2. /\ Tail(q) \in Seq(A) /\ Len(Tail(q)) = Len(q) - 1 /\ Len(q) > 0 /\ Len(q) \in Nat
      /\ \A i \in 1 .. Len(q) - 1 : Tail(q)[i] = q[i + 1]
      /\ Head(q) = q[1]
  BY <1>1
<1>3. \A i \in DOMAIN Tail(q) : Event(Tail(q)[i])
  BY <1>1, <1>2
<1>4. Event(Head(q))  BY <1>1, <1>2
<1> QED  BY <1>2, <1>3, <1>4, SaidBy

LEMMA SaidOne == ASSUME NEW ev, Event(ev) PROVE Spoken(<<ev>>) /\ Len(<<ev>>) = 1 /\ <<ev>>[1] = ev
<1>1. <<ev>> \in Seq({ev}) /\ DOMAIN <<ev>> = {1} /\ <<ev>>[1] = ev  OBVIOUS
<1> QED  BY <1>1, SaidBy

LEMMA SaidNothing == Spoken(<<>>)
<1>1. <<>> \in Seq({}) /\ DOMAIN <<>> = {}  OBVIOUS
<1> QED  BY <1>1, SaidBy

-----------------------------------------------------------------------------
(* Where it ends *)

LEMMA WillEmpty == ASSUME NEW T, NEW t PROVE Will(<<>>, T, t) <=> t \in T
BY DEF Will

(* One thing more at the end. *)
LEMMA WillLast ==
  ASSUME NEW q, Spoken(q), NEW ev, Event(ev), NEW T, NEW t
  PROVE  Will(q \o <<ev>>, T, t) <=> Puts(ev, t) \/ (Will(q, T, t) /\ ~Takes(ev, t))
<1> DEFINE w == q \o <<ev>>
           n == Len(q) + 1
<1>1. /\ DOMAIN w = 1 .. n /\ DOMAIN q = 1 .. Len(q) /\ Len(q) \in Nat /\ w[n] = ev
      /\ \A i \in 1 .. Len(q) : w[i] = q[i]
  <2>1. /\ Spoken(w) /\ Len(w) = Len(q) + 1 /\ w[Len(q) + 1] = ev
        /\ \A i \in 1 .. Len(q) : w[i] = q[i]
    BY SaidOne, SaidJoined
  <2> QED  BY <2>1, SaidLen
<1> HIDE DEF w
<1>2. n \in 1 .. n /\ 1 .. n = 1 .. Len(q) \cup {n} /\ \A i \in 1 .. Len(q) : i < n /\ ~(n < i)
  BY <1>1
<1> HIDE DEF n
<1>3. ASSUME Will(w, T, t) PROVE Puts(ev, t) \/ (Will(q, T, t) /\ ~Takes(ev, t))
  <2>1. CASE \E i \in DOMAIN w : Puts(w[i], t) /\ \A j \in DOMAIN w : i < j => ~Takes(w[j], t)
    <3>1. PICK i \in 1 .. n : Puts(w[i], t) /\ \A j \in 1 .. n : i < j => ~Takes(w[j], t)
      BY <1>1, <2>1
    <3>2. CASE i = n  BY <1>1, <3>1, <3>2
    <3>3. CASE i \in 1 .. Len(q)
      <4>1. ~Takes(ev, t)  BY <1>1, <1>2, <3>1, <3>3
      <4>2. Puts(q[i], t) /\ \A j \in 1 .. Len(q) : i < j => ~Takes(q[j], t)
        BY <1>1, <1>2, <3>1, <3>3
      <4> QED  BY <1>1, <3>3, <4>1, <4>2 DEF Will
    <3> QED  BY <1>2, <3>2, <3>3
  <2>2. CASE t \in T /\ \A j \in DOMAIN w : ~Takes(w[j], t)
    <3>1. ~Takes(ev, t) /\ \A j \in 1 .. Len(q) : ~Takes(q[j], t)
      BY <1>1, <1>2, <2>2
    <3> QED  BY <1>1, <2>2, <3>1 DEF Will
  <2> QED  BY <1>3, <2>1, <2>2 DEF Will
<1>4. ASSUME Puts(ev, t) PROVE Will(w, T, t)
  <2>1. n \in DOMAIN w /\ Puts(w[n], t) /\ \A j \in DOMAIN w : n < j => ~Takes(w[j], t)
    BY <1>1, <1>2, <1>4
  <2> QED  BY <2>1 DEF Will
<1>5. ASSUME Will(q, T, t), ~Takes(ev, t) PROVE Will(w, T, t)
  <2>1. CASE \E i \in DOMAIN q : Puts(q[i], t) /\ \A j \in DOMAIN q : i < j => ~Takes(q[j], t)
    <3>1. PICK i \in 1 .. Len(q) : Puts(q[i], t) /\ \A j \in 1 .. Len(q) : i < j => ~Takes(q[j], t)
      BY <1>1, <2>1
    <3>2. \A j \in 1 .. n : i < j => ~Takes(w[j], t)
      BY <1>1, <1>2, <1>5, <3>1
    <3> QED  BY <1>1, <1>2, <3>1, <3>2 DEF Will
  <2>2. CASE t \in T /\ \A j \in DOMAIN q : ~Takes(q[j], t)
    <3>1. \A j \in 1 .. n : ~Takes(w[j], t)
      BY <1>1, <1>2, <1>5, <2>2
    <3> QED  BY <1>1, <2>2, <3>1 DEF Will
  <2> QED  BY <1>5, <2>1, <2>2 DEF Will
<1> QED  BY <1>3, <1>4, <1>5 DEF w

(* Several reservations are dropped, one after the other. *)
LEMMA WillDrops ==
  ASSUME NEW q, Spoken(q), NEW w, Spoken(w), NEW T, NEW t,
         \A i \in DOMAIN w : w[i].kind = "Drop"
  PROVE  Will(q \o w, T, t) <=> Will(q, T, t) /\ \A i \in DOMAIN w : w[i].seq # t
<1> DEFINE z == q \o w
           k == Len(q)
           n == Len(w)
<1>1. /\ DOMAIN z = 1 .. k + n /\ DOMAIN q = 1 .. k /\ DOMAIN w = 1 .. n
      /\ k \in Nat /\ n \in Nat
      /\ \A i \in 1 .. k : z[i] = q[i]
      /\ \A i \in 1 .. n : z[k + i] = w[i]
  BY SaidJoined, SaidLen
<1> HIDE DEF z, k, n
<1>2. \A i \in 1 .. n : ~Puts(w[i], t) /\ (Takes(w[i], t) <=> w[i].seq = t)
  BY <1>1 DEF Puts, Takes
<1>3. /\ \A j \in 1 .. k : j \in 1 .. k + n
      /\ \A j \in 1 .. n : k + j \in 1 .. k + n /\ \A i \in 1 .. k : i < k + j
      /\ \A j \in 1 .. k + n : j \in 1 .. k \/ \E i \in 1 .. n : j = k + i
  <2>1. \A j \in 1 .. k + n : ~(j \in 1 .. k) => j - k \in 1 .. n /\ j = k + (j - k)
    BY <1>1
  <2> QED  BY <1>1, <2>1
<1>4. ASSUME Will(z, T, t) PROVE Will(q, T, t) /\ \A i \in 1 .. n : w[i].seq # t
  <2>1. CASE \E i \in DOMAIN z : Puts(z[i], t) /\ \A j \in DOMAIN z : i < j => ~Takes(z[j], t)
    <3>1. PICK i \in 1 .. k + n : Puts(z[i], t) /\ \A j \in 1 .. k + n : i < j => ~Takes(z[j], t)
      BY <1>1, <2>1
    <3>2. i \in 1 .. k  BY <1>1, <1>2, <1>3, <3>1
    <3>3. \A j \in 1 .. n : ~Takes(w[j], t)  BY <1>1, <1>3, <3>1, <3>2
    <3>4. Puts(q[i], t) /\ \A j \in 1 .. k : i < j => ~Takes(q[j], t)
      BY <1>1, <1>3, <3>1, <3>2
    <3> QED  BY <1>1, <1>2, <3>2, <3>3, <3>4 DEF Will
  <2>2. CASE t \in T /\ \A j \in DOMAIN z : ~Takes(z[j], t)
    <3>1. /\ \A j \in 1 .. n : ~Takes(w[j], t)
          /\ \A j \in 1 .. k : ~Takes(q[j], t)
      BY <1>1, <1>3, <2>2
    <3> QED  BY <1>1, <1>2, <2>2, <3>1 DEF Will
  <2> QED  BY <1>4, <2>1, <2>2 DEF Will
<1>5. ASSUME Will(q, T, t), \A i \in 1 .. n : w[i].seq # t PROVE Will(z, T, t)
  <2>1. \A i \in 1 .. n : ~Takes(w[i], t)  BY <1>2, <1>5
  <2>2. CASE \E i \in DOMAIN q : Puts(q[i], t) /\ \A j \in DOMAIN q : i < j => ~Takes(q[j], t)
    <3>1. PICK i \in 1 .. k : Puts(q[i], t) /\ \A j \in 1 .. k : i < j => ~Takes(q[j], t)
      BY <1>1, <2>2
    <3>2. \A j \in 1 .. k + n : i < j => ~Takes(z[j], t)
      BY <1>1, <1>3, <2>1, <3>1
    <3> QED  BY <1>1, <1>3, <3>1, <3>2 DEF Will
  <2>3. CASE t \in T /\ \A j \in DOMAIN q : ~Takes(q[j], t)
    <3>1. \A j \in 1 .. k + n : ~Takes(z[j], t)  BY <1>1, <1>3, <2>1, <2>3
    <3> QED  BY <1>1, <2>3, <3>1 DEF Will
  <2> QED  BY <1>5, <2>2, <2>3 DEF Will
<1> QED  BY <1>1, <1>4, <1>5 DEF z

(* The first is heard: then it ends where it did. *)
LEMMA WillFirst ==
  ASSUME NEW q, Spoken(q), q # <<>>, NEW T, NEW S, NEW t,
         t \in S <=> Puts(Head(q), t) \/ (t \in T /\ ~Takes(Head(q), t))
  PROVE  Will(q, T, t) <=> Will(Tail(q), S, t)
<1> DEFINE w == Tail(q)
           n == Len(q) - 1
<1>1. /\ DOMAIN q = 1 .. n + 1 /\ DOMAIN w = 1 .. n /\ n \in Nat /\ Head(q) = q[1]
      /\ \A i \in 1 .. n : w[i] = q[i + 1]
  BY SaidTail, SaidLen
<1> HIDE DEF w, n
<1>2. /\ 1 \in 1 .. n + 1 /\ \A j \in 1 .. n + 1 : j # 1 => 1 < j /\ ~(j < 1)
      /\ \A j \in 1 .. n : j + 1 \in 1 .. n + 1 /\ j + 1 # 1
      /\ \A i, j \in 1 .. n : i < j <=> i + 1 < j + 1
      /\ \A j \in 1 .. n + 1 : j = 1 \/ \E i \in 1 .. n : j = i + 1
  <2>1. \A j \in 1 .. n + 1 : j # 1 => j - 1 \in 1 .. n /\ j = (j - 1) + 1
    BY <1>1
  <2> QED  BY <1>1, <2>1
<1>3. ASSUME Will(q, T, t) PROVE Will(w, S, t)
  <2>1. CASE \E i \in DOMAIN q : Puts(q[i], t) /\ \A j \in DOMAIN q : i < j => ~Takes(q[j], t)
    <3>1. PICK i \in 1 .. n + 1 : Puts(q[i], t) /\ \A j \in 1 .. n + 1 : i < j => ~Takes(q[j], t)
      BY <1>1, <2>1
    <3>2. CASE i = 1
      <4>1. t \in S  BY <1>1, <3>1, <3>2
      <4>2. ASSUME NEW j \in 1 .. n PROVE ~Takes(w[j], t)
        <5>1. j + 1 \in 1 .. n + 1 /\ i < j + 1  BY <1>2, <3>2
        <5> QED  BY <1>1, <3>1, <5>1
      <4> QED  BY <1>1, <4>1, <4>2 DEF Will
    <3>3. CASE i # 1
      <4>1. PICK k \in 1 .. n : i = k + 1  BY <1>2, <3>3
      <4>2. Puts(w[k], t)  BY <1>1, <3>1, <4>1
      <4>3. ASSUME NEW j \in 1 .. n, k < j PROVE ~Takes(w[j], t)
        <5>1. j + 1 \in 1 .. n + 1 /\ i < j + 1  BY <1>2, <4>1, <4>3
        <5> QED  BY <1>1, <3>1, <5>1
      <4> QED  BY <1>1, <4>2, <4>3 DEF Will
    <3> QED  BY <3>2, <3>3
  <2>2. CASE t \in T /\ \A j \in DOMAIN q : ~Takes(q[j], t)
    <3>1. t \in S  BY <1>1, <1>2, <2>2
    <3>2. \A j \in 1 .. n : ~Takes(w[j], t)  BY <1>1, <1>2, <2>2
    <3> QED  BY <1>1, <3>1, <3>2 DEF Will
  <2> QED  BY <1>3, <2>1, <2>2 DEF Will
<1>4. ASSUME Will(w, S, t) PROVE Will(q, T, t)
  <2>1. CASE \E i \in DOMAIN w : Puts(w[i], t) /\ \A j \in DOMAIN w : i < j => ~Takes(w[j], t)
    <3>1. PICK i \in 1 .. n : Puts(w[i], t) /\ \A j \in 1 .. n : i < j => ~Takes(w[j], t)
      BY <1>1, <2>1
    <3>2. i + 1 \in 1 .. n + 1 /\ Puts(q[i + 1], t)  BY <1>1, <1>2, <3>1
    <3>3. ASSUME NEW j \in 1 .. n + 1, i + 1 < j PROVE ~Takes(q[j], t)
      <4>1. PICK k \in 1 .. n : j = k + 1  BY <1>1, <1>2, <3>3
      <4>2. i < k /\ w[k] = q[j]  BY <1>1, <1>2, <3>3, <4>1
      <4> QED  BY <3>1, <4>2
    <3> QED  BY <1>1, <3>2, <3>3 DEF Will
  <2>2. CASE t \in S /\ \A j \in DOMAIN w : ~Takes(w[j], t)
    <3>1. ASSUME NEW j \in 1 .. n + 1, 1 < j PROVE ~Takes(q[j], t)
      <4>1. PICK k \in 1 .. n : j = k + 1  BY <1>1, <1>2, <3>1
      <4> QED  BY <1>1, <2>2, <4>1
    <3>2. CASE Puts(q[1], t)  BY <1>1, <1>2, <3>1, <3>2 DEF Will
    <3>3. CASE t \in T /\ ~Takes(q[1], t)
      <4>1. \A j \in 1 .. n + 1 : ~Takes(q[j], t)  BY <1>2, <3>1, <3>3
      <4> QED  BY <1>1, <3>3, <4>1 DEF Will
    <3> QED  BY <1>1, <2>2, <3>2, <3>3
  <2> QED  BY <1>4, <2>1, <2>2 DEF Will
<1> QED  BY <1>3, <1>4 DEF w

-----------------------------------------------------------------------------
(* What the helpers make of a memory *)

Same(m, n) ==
  DOMAIN n = Fields /\ n.held = m.held /\ n.seq = m.seq /\ n.theirs = m.theirs

LEMMA WithAccountSame ==
  ASSUME NEW m, DOMAIN m = Fields, NEW n, NEW a
  PROVE  Same(m, U!WithAccount(m, n, a))
BY DEF U!WithAccount, Same, Fields

LEMMA AskingSame ==
  ASSUME NEW m, DOMAIN m = Fields, NEW N
  PROVE  Same(m, U!Asking(m, N))
BY DEF U!Asking, Same, Fields

LEMMA RebuiltSame ==
  ASSUME NEW m, DOMAIN m = Fields, NEW S
  PROVE  Same(m, U!Rebuilt(m, S))
BY DEF U!Rebuilt, Same, Fields

LEMMA SettledFacts ==
  ASSUME NEW m, DOMAIN m = Fields, NEW S, NEW at, NEW names, NEW served
  PROVE  Same([m EXCEPT !.held = U!Without(@, S)], U!Settled(m, S, at, names, served))
<1> DEFINE back(n) == U!SetToSortSeq({s \in U!Returned(m, S, names) : m.held[s].name = n}, <)
           tried(n) == IF U!Occurs(n, names) = 0 THEN U!Account(m, n)
                       ELSE U!Counted(U!Account(m, n), U!Today, at,
                                    [requests |-> U!Occurs(n, names), use |-> 0])
           spent(n) == IF n \notin served THEN tried(n)
                       ELSE [U!Counted(tried(n), U!Today, at, U!Used(Actual))
                               EXCEPT !.recent = IF n = named THEN Append(@, U!Entry(now, U!Used(Actual)))
                                                 ELSE @]
           kept(n) == [spent(n) EXCEPT !.recent =
                         U!FoldLeft(LAMBDA w, s : U!Unrecorded(w, m.held[s].at), @, back(n))]
           touched == {m.held[s].name : s \in S} \cup U!ToSet(names) \cup served
           present == DOMAIN m.books \cup U!ToSet(names) \cup served
           books == [n \in present |-> IF n \in touched THEN kept(n) ELSE m.books[n]]
           k == [m EXCEPT !.held = U!Without(@, S), !.books = books]
<1>1. U!Settled(m, S, at, names, served) = U!Asking(k, touched)
  BY Zenon DEF U!Settled
<1> HIDE DEF books, touched
<1>2. DOMAIN k = Fields /\ Same([m EXCEPT !.held = U!Without(@, S)], k)  BY DEF Same, Fields
<1> HIDE DEF k
<1>3. Same(k, U!Asking(k, touched))  BY <1>2, AskingSame
<1> QED  BY <1>1, <1>2, <1>3 DEF Same

LEMMA ReservedFacts ==
  ASSUME NEW m, DOMAIN m = Fields, NEW n
  PROVE  LET k == U!Reserved(m, n)
         IN  /\ DOMAIN k = Fields /\ k.seq = m.seq + 1 /\ k.theirs = m.theirs
             /\ k.held = U!With(m.held, m.seq + 1, U!Reservation(n, now, Estimate))
<1> DEFINE a == [U!Account(m, n) EXCEPT !.recent = U!Recorded(@, now, W)]
           k == U!WithAccount(m, n, a)
<1>1. U!Reserved(m, n) = [k EXCEPT !.seq = @ + 1,
                                 !.held = U!With(@, m.seq + 1, U!Reservation(n, now, Estimate))]
  BY DEF U!Reserved
<1>2. Same(m, k)  BY WithAccountSame
<1> HIDE DEF k
<1> QED  BY <1>1, <1>2 DEF Same, Fields

LEMMA ReleasedFacts ==
  ASSUME NEW m, DOMAIN m = Fields, NEW s
  PROVE  Same([m EXCEPT !.held = U!Without(@, {s})], U!Released(m, s))
BY DEF U!Released, Same, Fields

(* Reservations of the other core are forgotten, with what is said of them *)
(* under the numbers T.                                                    *)
Forgot(m, n, T) ==
  /\ DOMAIN n = Fields /\ n.seq = m.seq
  /\ n.theirs = U!Without(m.theirs, T)
  /\ n.held = U!Without(m.held, {m.theirs[t] : t \in T \cap DOMAIN m.theirs})

LEMMA DroppedFacts ==
  ASSUME NEW m, DOMAIN m = Fields, NEW T
  PROVE  Forgot(m, U!Dropped(m, T), T)
<1>1. U!Without(m.theirs, T \cap DOMAIN m.theirs) = U!Without(m.theirs, T)
  BY DEF U!Without
<1>2. U!Dropped(m, T) =
        [m EXCEPT !.held = U!Without(@, {m.theirs[t] : t \in T \cap DOMAIN m.theirs}),
                  !.theirs = U!Without(@, T)]
  BY <1>1 DEF U!Dropped
<1> QED  BY <1>2 DEF Forgot, Fields

LEMMA PhantomFacts ==
  ASSUME NEW m, DOMAIN m = Fields, NEW h, h.seq \notin DOMAIN m.theirs
  PROVE  LET k == U!Phantom(m, h)
         IN  /\ DOMAIN k = Fields /\ k.seq = m.seq + 1
             /\ k.theirs = U!With(m.theirs, h.seq, m.seq + 1)
             /\ k.held = U!With(m.held, m.seq + 1, U!Reservation(h.name, h.at, h.use))
<1> DEFINE a == [U!Account(m, h.name) EXCEPT !.recent = Append(@, U!Entry(h.at, U!OneRequest))]
           k == U!WithAccount(m, h.name, a)
<1>1. U!Phantom(m, h) = [k EXCEPT !.seq = @ + 1,
                                !.held = U!With(@, m.seq + 1, U!Reservation(h.name, h.at, h.use)),
                                !.theirs = U!With(@, h.seq, m.seq + 1)]
  BY DEF U!Phantom
<1>2. Same(m, k)  BY WithAccountSame
<1> HIDE DEF k
<1> QED  BY <1>1, <1>2 DEF Same, Fields

LEMMA SameNumber == ASSUME NEW S PROVE U!Cardinality(S) = Cardinality(S)
BY DEF U!Cardinality, Cardinality

(* Of the other core's reservations, those that are new get new numbers.   *)
LEMMA PhantomsFacts ==
  ASSUME NEW m, DOMAIN m = Fields, m.seq \in Nat, NEW H, Wired(H)
  PROVE  LET k == U!Phantoms(m, H)
         IN  /\ DOMAIN k = Fields /\ k.seq \in Nat /\ m.seq <= k.seq
             /\ DOMAIN k.theirs = DOMAIN m.theirs \cup {h.seq : h \in H}
             /\ \A t \in DOMAIN m.theirs : k.theirs[t] = m.theirs[t]
             /\ \A t \in DOMAIN k.theirs \ DOMAIN m.theirs :
                  k.theirs[t] \in m.seq + 1 .. k.seq
             /\ DOMAIN m.held \subseteq DOMAIN k.held
             /\ \A s \in DOMAIN m.held : k.held[s] = m.held[s]
             /\ \A s \in DOMAIN k.held \ DOMAIN m.held :
                  /\ s \in m.seq + 1 .. k.seq
                  /\ \E t \in DOMAIN k.theirs \ DOMAIN m.theirs : s = k.theirs[t]
                  /\ \E n, a, u : k.held[s] = U!Reservation(n, a, u)
<1> DEFINE N == {h \in H : h.seq \notin DOMAIN m.theirs}
           number(h) == m.seq + U!Cardinality({g \in N : g.seq <= h.seq})
           here(s) == CHOOSE h \in N : number(h) = s
           there(t) == CHOOSE h \in N : h.seq = t
           k == U!Phantoms(m, H)
<1>1. /\ DOMAIN k = Fields /\ k.seq = m.seq + U!Cardinality(N)
      /\ k.held = [s \in DOMAIN m.held \cup {number(h) : h \in N} |->
                     IF s \in DOMAIN m.held THEN m.held[s]
                     ELSE U!Reservation(here(s).name, here(s).at, here(s).use)]
      /\ k.theirs = [t \in DOMAIN m.theirs \cup {h.seq : h \in N} |->
                       IF t \in DOMAIN m.theirs THEN m.theirs[t] ELSE number(there(t))]
  BY DEF U!Phantoms, Fields
<1>2. /\ IsFiniteSet(N) /\ Cardinality(N) \in Nat /\ k.seq = m.seq + Cardinality(N)
  <2> HIDE DEF N, k
  <2>1. k.seq = m.seq + Cardinality(N)  BY <1>1, SameNumber
  <2>2. IsFiniteSet(N)  BY FS_Subset DEF Wired, N
  <2> QED  BY <2>1, <2>2, FS_CardinalityType
<1> HIDE DEF k
<1>3. ASSUME NEW h \in N PROVE number(h) \in m.seq + 1 .. k.seq
  <2> DEFINE G == {g \in N : g.seq <= h.seq}
  <2>1. h \in G  BY DEF Wired
  <2>2. IsFiniteSet(G) /\ Cardinality(G) <= Cardinality(N)  BY <1>2, FS_Subset
  <2>3. Cardinality(G) \in Nat /\ Cardinality(G) # 0  BY <2>1, <2>2, FS_CardinalityType, FS_EmptySet
  <2> HIDE DEF G
  <2>4. m.seq + Cardinality(G) \in m.seq + 1 .. m.seq + Cardinality(N)  BY <1>2, <2>2, <2>3
  <2>5. number(h) = m.seq + U!Cardinality(G)  BY DEF G
  <2> QED  BY <1>2, <2>4, <2>5, SameNumber
<1>4. ASSUME NEW g \in N, NEW h \in N, g.seq = h.seq PROVE number(g) = number(h)
  BY <1>4
<1> HIDE DEF number
<1>5. ASSUME NEW h \in N PROVE there(h.seq) \in N /\ there(h.seq).seq = h.seq
  OBVIOUS
<1> HIDE DEF there
<1>6. ASSUME NEW h \in N
      PROVE  /\ h.seq \in DOMAIN k.theirs \ DOMAIN m.theirs
             /\ k.theirs[h.seq] = number(h)
  BY <1>1, <1>4, <1>5
<1>7. DOMAIN k.theirs = DOMAIN m.theirs \cup {h.seq : h \in H}  BY <1>1
<1> HIDE DEF N, here
<1>8. ASSUME NEW t \in DOMAIN k.theirs \ DOMAIN m.theirs
      PROVE  k.theirs[t] \in m.seq + 1 .. k.seq
  <2>1. PICK h \in N : t = h.seq  BY <1>1
  <2> QED  BY <1>3, <1>6, <2>1
<1>9. ASSUME NEW s \in DOMAIN k.held \ DOMAIN m.held
      PROVE  /\ s \in m.seq + 1 .. k.seq
             /\ \E t \in DOMAIN k.theirs \ DOMAIN m.theirs : s = k.theirs[t]
             /\ \E n, a, u : k.held[s] = U!Reservation(n, a, u)
  <2>1. PICK h \in N : s = number(h)  BY <1>1
  <2>2. k.held[s] = U!Reservation(here(s).name, here(s).at, here(s).use)  BY <1>1
  <2> QED  BY <1>3, <1>6, <2>1, <2>2
<1>10. /\ \A t \in DOMAIN m.theirs : k.theirs[t] = m.theirs[t]
       /\ DOMAIN m.held \subseteq DOMAIN k.held
       /\ \A s \in DOMAIN m.held : k.held[s] = m.held[s]
  BY <1>1
<1>11. k.seq \in Nat /\ m.seq <= k.seq  BY <1>1, <1>2
<1> QED  BY <1>1, <1>7, <1>8, <1>9, <1>10, <1>11 DEF k

-----------------------------------------------------------------------------
(* Reservations and their owners *)

LEMMA FormedSame == ASSUME NEW m, Formed(m), NEW n, Same(m, n) PROVE Formed(n)
BY DEF Formed, Same

(* Reservations go. *)
LEMMA FormedLess ==
  ASSUME NEW m, Formed(m), NEW n, DOMAIN n = Fields, n.seq = m.seq,
         NEW S, n.held = U!Without(m.held, S), Image(n.theirs) \subseteq Image(m.theirs)
  PROVE  Formed(n)
<1>1. /\ DOMAIN n.held \subseteq DOMAIN m.held
      /\ \A s \in DOMAIN n.held : n.held[s] = m.held[s]
  BY DEF U!Without
<1> QED  BY <1>1 DEF Formed

LEMMA ReservationFacts ==
  ASSUME NEW n, NEW a, NEW u
  PROVE  LET v == U!Reservation(n, a, u)
         IN  /\ DOMAIN v = {"name", "at", "use", "request", "closed"}
             /\ v.request = {} /\ v.closed = {}
BY DEF U!Reservation

LEMMA ImageWith ==
  ASSUME NEW f, NEW k, NEW v
  PROVE  Image(U!With(f, k, v)) \subseteq Image(f) \cup {v}
<1> SUFFICES ASSUME NEW x \in DOMAIN f \cup {k}
             PROVE  U!With(f, k, v)[x] \in Image(f) \cup {v}
  BY DEF U!With, Image
<1> QED  BY DEF U!With, Image

(* A reservation comes. *)
LEMMA FormedMore ==
  ASSUME NEW m, Formed(m), NEW n, DOMAIN n = Fields, n.seq = m.seq + 1,
         NEW v, DOMAIN v = {"name", "at", "use", "request", "closed"},
         v.request = {}, v.closed = {}, n.held = U!With(m.held, m.seq + 1, v),
         \/ n.theirs = m.theirs
         \/ \E t : n.theirs = U!With(m.theirs, t, m.seq + 1)
  PROVE  Formed(n)
<1>1. m.seq \in Nat /\ m.seq + 1 \in 1 .. n.seq /\ 1 .. m.seq \subseteq 1 .. n.seq
      /\ m.seq + 1 \notin 1 .. m.seq
  BY DEF Formed
<1>2. Image(n.theirs) \subseteq Image(m.theirs) \cup {m.seq + 1}
  BY ImageWith
<1>3. /\ DOMAIN n.held = DOMAIN m.held \cup {m.seq + 1}
      /\ n.held[m.seq + 1] = v
      /\ \A s \in DOMAIN m.held : n.held[s] = m.held[s]
  BY <1>1 DEF U!With, Formed
<1>4. DOMAIN n.held \subseteq 1 .. n.seq /\ Image(n.theirs) \subseteq 1 .. n.seq
  BY <1>1, <1>2, <1>3 DEF Formed
<1>5. ASSUME NEW s \in DOMAIN n.held
      PROVE  /\ DOMAIN n.held[s] = {"name", "at", "use", "request", "closed"}
             /\ n.held[s].request = {} => n.held[s].closed = {}
             /\ s \in Image(n.theirs) => n.held[s].request = {}
  <2>1. CASE s = m.seq + 1  BY <1>3, <2>1
  <2>2. CASE s \in DOMAIN m.held /\ s # m.seq + 1
    <3>1. s \in Image(n.theirs) => s \in Image(m.theirs)  BY <1>2, <2>2
    <3> QED  BY <1>3, <2>2, <3>1 DEF Formed
  <2> QED  BY <1>3, <2>1, <2>2
<1> QED  BY <1>1, <1>4, <1>5 DEF Formed

LEMMA FormedPhantoms ==
  ASSUME NEW m, Formed(m), NEW H, Wired(H)
  PROVE  Formed(U!Phantoms(m, H))
<1> DEFINE k == U!Phantoms(m, H)
<1>1. /\ DOMAIN k = Fields /\ k.seq \in Nat /\ m.seq <= k.seq
      /\ \A t \in DOMAIN m.theirs : k.theirs[t] = m.theirs[t]
      /\ \A t \in DOMAIN k.theirs \ DOMAIN m.theirs : k.theirs[t] \in m.seq + 1 .. k.seq
      /\ DOMAIN m.held \subseteq DOMAIN k.held
      /\ \A s \in DOMAIN m.held : k.held[s] = m.held[s]
      /\ \A s \in DOMAIN k.held \ DOMAIN m.held :
            s \in m.seq + 1 .. k.seq /\ \E n, a, u : k.held[s] = U!Reservation(n, a, u)
  BY PhantomsFacts DEF Formed
<1> HIDE DEF k
<1>2. m.seq \in Nat /\ m.seq + 1 .. k.seq \subseteq 1 .. k.seq /\ 1 .. m.seq \subseteq 1 .. k.seq
      /\ (1 .. m.seq) \cap (m.seq + 1 .. k.seq) = {}
  BY <1>1 DEF Formed
<1>3. ASSUME NEW s \in Image(k.theirs) PROVE s \in Image(m.theirs) \/ s \in m.seq + 1 .. k.seq
  BY <1>1 DEF Image
<1>4. DOMAIN k.held \subseteq 1 .. k.seq /\ Image(k.theirs) \subseteq 1 .. k.seq
  BY <1>1, <1>2, <1>3 DEF Formed
<1>5. ASSUME NEW s \in DOMAIN k.held
      PROVE  /\ DOMAIN k.held[s] = {"name", "at", "use", "request", "closed"}
             /\ k.held[s].request = {} => k.held[s].closed = {}
             /\ s \in Image(k.theirs) => k.held[s].request = {}
  <2>1. CASE s \in DOMAIN m.held
    <3>1. s \in Image(k.theirs) => s \in Image(m.theirs)  BY <1>2, <1>3, <2>1 DEF Formed
    <3> QED  BY <1>1, <2>1, <3>1 DEF Formed
  <2>2. CASE s \notin DOMAIN m.held
    <3>1. PICK n, a, u : k.held[s] = U!Reservation(n, a, u)  BY <1>1, <2>2
    <3> QED  BY <3>1, ReservationFacts
  <2> QED  BY <2>1, <2>2
<1> QED  BY <1>1, <1>4, <1>5 DEF Formed, k

(* Whatever happens to a memory, the requests keep what they have and      *)
(* what is there has its owner, if this much is true of it.                *)
LEMMA OwnedKept ==
  ASSUME NEW c, NEW m, NEW n, NEW q, Owned(c, m, q),
         \A s \in DOMAIN n.held \ Image(n.theirs) :
           s \in DOMAIN m.held \ Image(m.theirs) /\ n.held[s].request = m.held[s].request,
         \A r \in Request : q[r].core = c => q[r].hop \subseteq DOMAIN n.held \ Image(n.theirs),
         \A r \in Request : q[r].core = c /\ q[r].status = "Open" => U!Bound(n, r) = U!Bound(m, r)
  PROVE  Owned(c, n, q)
<1>1. ASSUME NEW r \in Request, q[r].core = c PROVE Holder(n, r, q[r])
  <2>1. Holder(m, r, q[r]) /\ q[r].hop \subseteq DOMAIN n.held \ Image(n.theirs)
    BY <1>1 DEF Owned
  <2>2. q[r].status = "Open" => U!Bound(n, r) = U!Bound(m, r)  BY <1>1
  <2> HIDE DEF Owned
  <2> QED  BY <2>1, <2>2 DEF Holder
<1>2. ASSUME NEW s \in DOMAIN n.held \ Image(n.theirs)
      PROVE  \E r \in Request : q[r].core = c /\ Owner(n, s, r, q[r])
  <2>1. s \in DOMAIN m.held \ Image(m.theirs) /\ n.held[s].request = m.held[s].request
    OBVIOUS
  <2>2. PICK r \in Request : q[r].core = c /\ Owner(m, s, r, q[r])  BY <2>1 DEF Owned
  <2> QED  BY <2>1, <2>2 DEF Owner
<1>3. \A r, x \in Request : r # x /\ q[r].core = c /\ q[x].core = c => q[r].hop \cap q[x].hop = {}
  BY DEF Owned
<1> QED  BY <1>1, <1>2, <1>3 DEF Owned

LEMMA HopIn ==
  ASSUME NEW c, NEW m, NEW q, Owned(c, m, q), NEW r \in Request, q[r].core = c
  PROVE  q[r].hop \subseteq DOMAIN m.held \ Image(m.theirs)
<1>1. Holder(m, r, q[r])  BY DEF Owned
<1>2. \/ q[r].hop = {}
      \/ \E s \in DOMAIN m.held \ Image(m.theirs) : q[r].hop = {s}
  BY <1>1 DEF Holder
<1> QED  BY <1>2

LEMMA OwnedSame ==
  ASSUME NEW c, NEW m, NEW n, NEW q, Owned(c, m, q), n.held = m.held, n.theirs = m.theirs
  PROVE  Owned(c, n, q)
<1>1. \A r : U!Bound(n, r) = U!Bound(m, r)  BY DEF U!Bound
<1>2. \A r \in Request : q[r].core = c => q[r].hop \subseteq DOMAIN n.held \ Image(n.theirs)
  BY HopIn
<1> QED  BY <1>1, <1>2, OwnedKept

(* What other requests do is no matter. *)
LEMMA OwnedElse ==
  ASSUME NEW c, NEW m, NEW q, Owned(c, m, q), NEW p,
         \A r \in Request : p[r] = q[r] \/ (q[r].core # c /\ p[r].core # c)
  PROVE  Owned(c, m, p)
<1>1. ASSUME NEW r \in Request, p[r].core = c PROVE p[r] = q[r] /\ q[r].core = c
  BY <1>1
<1>2. ASSUME NEW r \in Request, q[r].core = c PROVE p[r] = q[r]
  BY <1>2
<1> QED  BY <1>1, <1>2 DEF Owned

LEMMA ForgotFacts ==
  ASSUME NEW m, Formed(m), NEW n, NEW T, Forgot(m, n, T)
  PROVE  /\ Formed(n) /\ DOMAIN n.theirs = DOMAIN m.theirs \ T
         /\ \A c, q : Owned(c, m, q) => Owned(c, n, q)
<1> DEFINE S == {m.theirs[t] : t \in T \cap DOMAIN m.theirs}
<1>1. /\ DOMAIN n.theirs = DOMAIN m.theirs \ T
      /\ \A t \in DOMAIN n.theirs : n.theirs[t] = m.theirs[t]
  BY DEF Forgot, U!Without
<1>2. /\ DOMAIN n.held = DOMAIN m.held \ S
      /\ \A s \in DOMAIN n.held : n.held[s] = m.held[s]
  BY DEF Forgot, U!Without
<1>3. Image(n.theirs) \subseteq Image(m.theirs) /\ S \subseteq Image(m.theirs)
      /\ Image(m.theirs) \subseteq S \cup Image(n.theirs)
  BY <1>1 DEF Image
<1>4. Formed(n)  BY <1>3, FormedLess DEF Forgot
<1> HIDE DEF S
<1>5. \A r : U!Bound(n, r) = U!Bound(m, r)
  <2>1. \A s \in DOMAIN m.held \cap S : m.held[s].request = {}  BY <1>3 DEF Formed
  <2> QED  BY <1>2, <2>1 DEF U!Bound
<1>6. ASSUME NEW c, NEW q, Owned(c, m, q) PROVE Owned(c, n, q)
  <2>1. \A s \in DOMAIN n.held \ Image(n.theirs) :
           s \in DOMAIN m.held \ Image(m.theirs) /\ n.held[s].request = m.held[s].request
    BY <1>2, <1>3
  <2>2. \A r \in Request : q[r].core = c => q[r].hop \subseteq DOMAIN m.held \ Image(m.theirs)
    BY <1>6, HopIn
  <2>3. \A r \in Request : q[r].core = c => q[r].hop \subseteq DOMAIN n.held \ Image(n.theirs)
    BY <1>2, <1>3, <2>2
  <2> QED  BY <1>5, <1>6, <2>1, <2>3, OwnedKept
<1> QED  BY <1>1, <1>4, <1>6

LEMMA OwnedPhantoms ==
  ASSUME NEW m, Formed(m), NEW H, Wired(H), NEW c, NEW q, Owned(c, m, q)
  PROVE  Owned(c, U!Phantoms(m, H), q)
<1> DEFINE k == U!Phantoms(m, H)
<1>1. /\ DOMAIN m.theirs \subseteq DOMAIN k.theirs
      /\ \A t \in DOMAIN m.theirs : k.theirs[t] = m.theirs[t]
      /\ \A t \in DOMAIN k.theirs \ DOMAIN m.theirs : k.theirs[t] \in m.seq + 1 .. k.seq
      /\ DOMAIN m.held \subseteq DOMAIN k.held
      /\ \A s \in DOMAIN m.held : k.held[s] = m.held[s]
      /\ \A s \in DOMAIN k.held \ DOMAIN m.held :
            /\ \E t \in DOMAIN k.theirs \ DOMAIN m.theirs : s = k.theirs[t]
            /\ \E n, a, u : k.held[s] = U!Reservation(n, a, u)
      /\ m.seq \in Nat /\ k.seq \in Nat
  BY PhantomsFacts DEF Formed
<1> HIDE DEF k
<1>2. \A s \in DOMAIN k.held \ DOMAIN m.held : s \in Image(k.theirs) /\ k.held[s].request = {}
  BY <1>1, ReservationFacts DEF Image
<1>3. \A s \in DOMAIN m.held : s \in Image(k.theirs) <=> s \in Image(m.theirs)
  <2>1. \A s \in DOMAIN m.held : s \notin m.seq + 1 .. k.seq  BY <1>1 DEF Formed
  <2> QED  BY <1>1, <2>1 DEF Image
<1>4. \A r : U!Bound(k, r) = U!Bound(m, r)  BY <1>1, <1>2 DEF U!Bound
<1>5. \A r \in Request : q[r].core = c => q[r].hop \subseteq DOMAIN m.held \ Image(m.theirs)
  BY HopIn
<1>6. \A r \in Request : q[r].core = c => q[r].hop \subseteq DOMAIN k.held \ Image(k.theirs)
  BY <1>1, <1>3, <1>5
<1>7. \A s \in DOMAIN k.held \ Image(k.theirs) :
         s \in DOMAIN m.held \ Image(m.theirs) /\ k.held[s].request = m.held[s].request
  BY <1>1, <1>2, <1>3
<1> QED  BY <1>4, <1>6, <1>7, OwnedKept DEF k

LEMMA OwnedPhantom ==
  ASSUME NEW m, Formed(m), NEW h, h.seq \notin DOMAIN m.theirs, NEW c, NEW q, Owned(c, m, q)
  PROVE  Owned(c, U!Phantom(m, h), q)
<1> DEFINE k == U!Phantom(m, h)
           z == m.seq + 1
           v == U!Reservation(h.name, h.at, h.use)
<1>1. k.theirs = U!With(m.theirs, h.seq, z) /\ k.held = U!With(m.held, z, v) /\ v.request = {}
  BY PhantomFacts, ReservationFacts DEF Formed
<1>2. z \notin DOMAIN m.held  BY DEF Formed
<1> HIDE DEF k, z, v
<1>3. /\ DOMAIN k.held = DOMAIN m.held \cup {z} /\ k.held[z].request = {}
      /\ \A s \in DOMAIN m.held : k.held[s] = m.held[s]
  BY <1>1, <1>2 DEF U!With
<1>4. Image(k.theirs) = Image(m.theirs) \cup {z}  BY <1>1 DEF U!With, Image
<1>5. \A r : U!Bound(k, r) = U!Bound(m, r)  BY <1>3 DEF U!Bound
<1>6. \A r \in Request : q[r].core = c => q[r].hop \subseteq DOMAIN m.held \ Image(m.theirs)
  BY HopIn
<1>7. \A r \in Request : q[r].core = c => q[r].hop \subseteq DOMAIN k.held \ Image(k.theirs)
  BY <1>2, <1>3, <1>4, <1>6
<1>8. \A s \in DOMAIN k.held \ Image(k.theirs) :
         s \in DOMAIN m.held \ Image(m.theirs) /\ k.held[s].request = m.held[s].request
  BY <1>3, <1>4
<1> QED  BY <1>5, <1>7, <1>8, OwnedKept DEF k

(* What the new core hears of the old one. *)
LEMMA HeardFacts ==
  ASSUME NEW m, Formed(m), NEW ev, Event(ev)
  PROVE  LET n == U!Heard(m, ev)
         IN  /\ Formed(n) /\ \A c, q : Owned(c, m, q) => Owned(c, n, q)
             /\ \A t : t \in DOMAIN n.theirs <=>
                        Puts(ev, t) \/ (t \in DOMAIN m.theirs /\ ~Takes(ev, t))
<1> DEFINE n == U!Heard(m, ev)
           mine(T) == {m.theirs[t] : t \in T \cap DOMAIN m.theirs}
           gone(T) == [m EXCEPT !.theirs = U!Without(@, T)]
<1>1. DOMAIN m = Fields  BY DEF Formed
<1>2. ASSUME NEW T PROVE /\ DOMAIN gone(T) = Fields /\ gone(T).held = m.held
                         /\ gone(T).seq = m.seq /\ gone(T).theirs = U!Without(m.theirs, T)
  BY <1>1 DEF Fields
<1>3. ASSUME NEW T, Forgot(m, n, T), \A t : Takes(ev, t) <=> t \in T, \A t : ~Puts(ev, t)
      PROVE  /\ Formed(n) /\ \A c, q : Owned(c, m, q) => Owned(c, n, q)
             /\ \A t : t \in DOMAIN n.theirs <=>
                        Puts(ev, t) \/ (t \in DOMAIN m.theirs /\ ~Takes(ev, t))
  <2> HIDE DEF n
  <2>1. /\ Formed(n) /\ DOMAIN n.theirs = DOMAIN m.theirs \ T
        /\ \A c, q : Owned(c, m, q) => Owned(c, n, q)
    BY <1>3, ForgotFacts
  <2> QED  BY <1>3, <2>1
<1>4. CASE ev.kind = "Holds"
  <2> DEFINE K == {h.seq : h \in ev.held}
             T == DOMAIN m.theirs \ K
             k == U!Dropped(m, T)
  <2>1. n = U!Phantoms(k, ev.held) /\ Wired(ev.held)  BY <1>4 DEF U!Heard, Event
  <2>2. Forgot(m, k, T)  BY <1>1, DroppedFacts
  <2> HIDE DEF n, k
  <2>3. /\ Formed(k) /\ DOMAIN k.theirs = DOMAIN m.theirs \ T
        /\ \A c, q : Owned(c, m, q) => Owned(c, k, q)
    BY <2>2, ForgotFacts
  <2>4. Formed(n) /\ \A c, q : Owned(c, k, q) => Owned(c, n, q)
    BY <2>1, <2>3, FormedPhantoms, OwnedPhantoms
  <2>5. DOMAIN n.theirs = DOMAIN k.theirs \cup K
    BY <2>1, <2>3, PhantomsFacts DEF Formed
  <2>7. \A t : (Puts(ev, t) <=> t \in K) /\ (Takes(ev, t) <=> t \notin K)
    BY <1>4 DEF Puts, Takes
  <2> HIDE DEF K
  <2>6. DOMAIN n.theirs = K  BY <2>3, <2>5
  <2>8. \A c, q : Owned(c, m, q) => Owned(c, n, q)  BY <2>3, <2>4
  <2>9. \A t : t \in DOMAIN n.theirs <=>
               Puts(ev, t) \/ (t \in DOMAIN m.theirs /\ ~Takes(ev, t))
    BY <2>6, <2>7
  <2> QED  BY <2>4, <2>8, <2>9 DEF n
<1>5. CASE ev.kind = "Reserve"
  <2>1. n = U!Phantom(m, ev.held)  BY <1>5 DEF U!Heard
  <2>2. \A t : ~Takes(ev, t) /\ (Puts(ev, t) <=> t = ev.held.seq)
    BY <1>5 DEF Puts, Takes
  <2> HIDE DEF n
  <2>3. CASE ev.held.seq \in DOMAIN m.theirs
    <3>1. n = m  BY <2>1, <2>3 DEF U!Phantom
    <3> QED  BY <2>2, <2>3, <3>1 DEF n
  <2>4. CASE ev.held.seq \notin DOMAIN m.theirs
    <3> DEFINE h == ev.held
    <3>1. /\ DOMAIN n = Fields /\ n.seq = m.seq + 1
          /\ n.theirs = U!With(m.theirs, h.seq, m.seq + 1)
          /\ n.held = U!With(m.held, m.seq + 1, U!Reservation(h.name, h.at, h.use))
      BY <1>1, <2>1, <2>4, PhantomFacts
    <3>2. Formed(n)  BY <3>1, FormedMore, ReservationFacts
    <3>3. \A c, q : Owned(c, m, q) => Owned(c, n, q)  BY <2>1, <2>4, OwnedPhantom
    <3>4. DOMAIN n.theirs = DOMAIN m.theirs \cup {h.seq}  BY <3>1 DEF U!With
    <3> QED  BY <2>2, <3>2, <3>3, <3>4 DEF n
  <2> QED  BY <2>3, <2>4
<1>6. CASE ev.kind = "Settle"
  <2>1. n = U!Settled(gone(ev.seqs), mine(ev.seqs), ev.at, ev.names, ev.served)
    BY <1>6 DEF U!Heard
  <2> DEFINE g == gone(ev.seqs)
             S == mine(ev.seqs)
  <2>2. DOMAIN g = Fields /\ g.held = m.held /\ g.seq = m.seq /\ g.theirs = U!Without(m.theirs, ev.seqs)
    BY <1>2
  <2>5. S = {m.theirs[t] : t \in ev.seqs \cap DOMAIN m.theirs} /\ n = U!Settled(g, S, ev.at, ev.names, ev.served)
    BY <2>1
  <2> HIDE DEF n, g, S
  <2>6. Same([g EXCEPT !.held = U!Without(@, S)], n)
    BY <2>2, <2>5, SettledFacts
  <2>3. Forgot(m, n, ev.seqs)
    BY <2>2, <2>5, <2>6 DEF Forgot, Same, Fields
  <2>4. \A t : ~Puts(ev, t) /\ (Takes(ev, t) <=> t \in ev.seqs)
    BY <1>6 DEF Puts, Takes
  <2> QED  BY <1>3, <2>3, <2>4 DEF n
<1>7. CASE ev.kind = "Release"
  <2>1. \A t : ~Puts(ev, t) /\ (Takes(ev, t) <=> t \in {ev.seq})
    BY <1>7 DEF Puts, Takes
  <2>2. CASE ev.seq \in DOMAIN m.theirs
    <3>1. n = U!Released(gone({ev.seq}), m.theirs[ev.seq])  BY <1>7, <2>2 DEF U!Heard
    <3>2. Same([gone({ev.seq}) EXCEPT !.held = U!Without(@, {m.theirs[ev.seq]})], n)
      BY <1>2, <3>1, ReleasedFacts
    <3>3. mine({ev.seq}) = {m.theirs[ev.seq]}  BY <2>2
    <3>4. Forgot(m, n, {ev.seq})
      <4> HIDE DEF n
      <4> QED  BY <1>1, <3>2, <3>3 DEF Forgot, Same, Fields
    <3> QED  BY <1>3, <2>1, <3>4
  <2>3. CASE ev.seq \notin DOMAIN m.theirs
    <3>1. n = m  BY <1>7, <2>3 DEF U!Heard
    <3> HIDE DEF n
    <3> QED  BY <2>1, <2>3, <3>1 DEF n
  <2> QED  BY <2>2, <2>3
<1>8. CASE ev.kind = "Drop"
  <2>1. n = U!Dropped(m, {ev.seq})  BY <1>8 DEF U!Heard
  <2>2. Forgot(m, n, {ev.seq})  BY <1>1, <2>1, DroppedFacts
  <2>3. \A t : ~Puts(ev, t) /\ (Takes(ev, t) <=> t \in {ev.seq})
    BY <1>8 DEF Puts, Takes
  <2> QED  BY <1>3, <2>2, <2>3
<1> QED  BY <1>4, <1>5, <1>6, <1>7, <1>8 DEF Event

-----------------------------------------------------------------------------
(* What a request does to the reservations of its core *)

LEMMA CountingAppend ==
  ASSUME NEW q \in Seq(Try), NEW e \in Try, e.kept
  PROVE  Cardinality(U!Counting(Append(q, e))) = Cardinality(U!Counting(q)) + 1
<1> DEFINE n == Len(q) + 1
<1>1. /\ DOMAIN Append(q, e) = 1 .. n /\ DOMAIN q = 1 .. Len(q) /\ Len(q) \in Nat
      /\ Append(q, e)[n] = e /\ \A i \in 1 .. Len(q) : Append(q, e)[i] = q[i]
  OBVIOUS
<1>2. U!Counting(Append(q, e)) = U!Counting(q) \cup {n} /\ n \notin U!Counting(q)
  BY <1>1 DEF U!Counting
<1>3. IsFiniteSet(U!Counting(q))
  <2>1. U!Counting(q) \subseteq 1 .. Len(q)  BY <1>1 DEF U!Counting
  <2>2. IsFiniteSet(1 .. Len(q))  BY <1>1, FS_Interval
  <2> QED  BY <2>1, <2>2, FS_Subset
<1> QED  BY <1>2, <1>3, FS_AddElement

LEMMA CountingTaken ==
  ASSUME NEW q \in Seq(Try), q # <<>>, q[Len(q)].kept
  PROVE  LET w == [q EXCEPT ![Len(q)].kept = FALSE]
         IN  /\ w \in Seq(Try)
             /\ Cardinality(U!Counting(w)) = Cardinality(U!Counting(q)) - 1
<1> DEFINE n == Len(q)
           w == [q EXCEPT ![n].kept = FALSE]
<1>1. /\ n \in Nat /\ n \in 1 .. n /\ DOMAIN q = 1 .. n /\ DOMAIN w = 1 .. n
      /\ \A i \in 1 .. n : q[i] \in Try
  OBVIOUS
<1> HIDE DEF n
<1>2. \A i \in 1 .. n : IF i = n THEN w[i] = [q[n] EXCEPT !.kept = FALSE] ELSE w[i] = q[i]
  BY <1>1
<1>3. [q[n] EXCEPT !.kept = FALSE] \in Try /\ ~[q[n] EXCEPT !.kept = FALSE].kept
  BY <1>1 DEF Try
<1> HIDE DEF w
<1>4. \A i \in 1 .. n : w[i] \in Try  BY <1>1, <1>2, <1>3
<1>5. w \in Seq(Try)
  <2>1. w = [i \in 1 .. n |-> w[i]]  BY <1>1 DEF w
  <2> QED  BY <1>1, <1>4, <2>1
<1>6. U!Counting(w) = U!Counting(q) \ {n} /\ n \in U!Counting(q)
  BY <1>1, <1>2, <1>3 DEF U!Counting, n
<1>7. IsFiniteSet(U!Counting(q))
  <2>1. U!Counting(q) \subseteq 1 .. n  BY <1>1 DEF U!Counting
  <2> QED  BY <1>1, <2>1, FS_Interval, FS_Subset
<1> QED  BY <1>5, <1>6, <1>7, FS_RemoveElement DEF w, n

LEMMA BoundFinite ==
  ASSUME NEW m, Formed(m), NEW r
  PROVE  IsFiniteSet(U!Bound(m, r)) /\ Cardinality(U!Bound(m, r)) \in Nat
<1>1. U!Bound(m, r) \subseteq 1 .. m.seq /\ m.seq \in Nat  BY DEF Formed, U!Bound
<1>2. IsFiniteSet(1 .. m.seq)  BY <1>1, FS_Interval
<1>3. IsFiniteSet(U!Bound(m, r))  BY <1>1, <1>2, FS_Subset
<1> QED  BY <1>3, FS_CardinalityType

(* Who has a reservation. *)
LEMMA WhoseIs ==
  ASSUME NEW m, Formed(m), NEW c, NEW q, Owned(c, m, q), NEW s \in DOMAIN m.held
  PROVE  \/ m.held[s].request = {}
         \/ /\ s \notin Image(m.theirs)
            /\ \E x \in Request : /\ q[x].core = c /\ m.held[s].request = {x}
                                  /\ q[x].status \in {"Open", "Ended", "Lost"}
<1>1. CASE s \in Image(m.theirs)  BY <1>1 DEF Formed
<1>2. CASE s \notin Image(m.theirs)
  <2>1. PICK r \in Request : q[r].core = c /\ Owner(m, s, r, q[r])  BY <1>2 DEF Owned
  <2> QED  BY <1>2, <2>1 DEF Owner
<1> QED  BY <1>1, <1>2

(* A request begins: nothing was its before. *)
LEMMA StartOwned ==
  ASSUME NEW m, Formed(m), NEW c, NEW q, Owned(c, m, q), NEW p, NEW r \in Request,
         \A x \in Request \ {r} : p[x] = q[x],
         q[r].status = "Idle", q[r].hop = {},
         p[r].status = "Open", p[r].hop = {}, p[r].tries = <<>>
  PROVE  Owned(c, m, p)
<1>1. U!Bound(m, r) = {}
  <2> SUFFICES ASSUME NEW s \in DOMAIN m.held, r \in m.held[s].request PROVE FALSE
    BY DEF U!Bound
  <2>1. PICK x \in Request : m.held[s].request = {x} /\ q[x].status \in {"Open", "Ended", "Lost"}
    BY WhoseIs
  <2> QED  BY <2>1
<1>2. U!Counting(<<>>) = {}  BY DEF U!Counting
<1>3. Holder(m, r, p[r])
  <2>1. Cardinality(U!Bound(m, r) \cup p[r].hop) = Cardinality(U!Counting(p[r].tries))
    BY <1>1, <1>2
  <2> QED  BY <2>1 DEF Holder
<1>4. ASSUME NEW x \in Request, p[x].core = c PROVE Holder(m, x, p[x])
  <2>1. CASE x = r  BY <1>3, <2>1
  <2>2. CASE x # r  BY <1>4, <2>2 DEF Owned
  <2> QED  BY <2>1, <2>2
<1>5. ASSUME NEW x \in Request, NEW y \in Request, x # y, p[x].core = c, p[y].core = c
      PROVE  p[x].hop \cap p[y].hop = {}
  <2>1. CASE x = r \/ y = r  BY <2>1
  <2>2. CASE x # r /\ y # r  BY <1>5, <2>2 DEF Owned
  <2> QED  BY <2>1, <2>2
<1>6. ASSUME NEW s \in DOMAIN m.held \ Image(m.theirs)
      PROVE  \E x \in Request : p[x].core = c /\ Owner(m, s, x, p[x])
  <2>1. PICK x \in Request : q[x].core = c /\ Owner(m, s, x, q[x])  BY DEF Owned
  <2>2. x # r  BY <2>1 DEF Owner
  <2> QED  BY <2>1, <2>2
<1> QED  BY <1>4, <1>5, <1>6 DEF Owned

(* A request is over, or its row will not come. *)
LEMMA EndOwned ==
  ASSUME NEW m, NEW c, NEW q, Owned(c, m, q), NEW p, NEW r \in Request,
         \A x \in Request \ {r} : p[x] = q[x],
         q[r].hop = {}, p[r].core = q[r].core, p[r].hop = {},
         p[r].status \in {"Ended", "Lost"}
  PROVE  Owned(c, m, p)
<1>1. Holder(m, r, p[r])  BY DEF Holder
<1>2. ASSUME NEW x \in Request, p[x].core = c PROVE Holder(m, x, p[x])
  <2>1. CASE x = r  BY <1>1, <2>1
  <2>2. CASE x # r  BY <1>2, <2>2 DEF Owned
  <2> QED  BY <2>1, <2>2
<1>3. ASSUME NEW x \in Request, NEW y \in Request, x # y, p[x].core = c, p[y].core = c
      PROVE  p[x].hop \cap p[y].hop = {}
  <2>1. CASE x = r \/ y = r  BY <2>1
  <2>2. CASE x # r /\ y # r  BY <1>3, <2>2 DEF Owned
  <2> QED  BY <2>1, <2>2
<1>4. ASSUME NEW s \in DOMAIN m.held \ Image(m.theirs)
      PROVE  \E x \in Request : p[x].core = c /\ Owner(m, s, x, p[x])
  <2>1. PICK x \in Request : q[x].core = c /\ Owner(m, s, x, q[x])  BY DEF Owned
  <2>2. CASE x = r
    <3>1. m.held[s].request = {r}  BY <2>1, <2>2 DEF Owner
    <3> QED  BY <2>1, <2>2, <3>1 DEF Owner
  <2>3. CASE x # r  BY <2>1, <2>3
  <2> QED  BY <2>2, <2>3
<1> QED  BY <1>2, <1>3, <1>4 DEF Owned

(* All but r have what they had; what r has is its own, and what is there  *)
(* besides is theirs.                                                      *)
Moves(c, m, n, q, p, r) ==
  /\ \A x \in Request \ {r} : p[x] = q[x]
  /\ p[r].core = c /\ Holder(n, r, p[r])
  /\ \A x \in Request \ {r} : q[x].core = c =>
       q[x].hop \cap p[r].hop = {} /\ q[x].hop \subseteq DOMAIN n.held \ Image(n.theirs)
  /\ \A s \in DOMAIN n.held \ Image(n.theirs) :
       \/ Owner(n, s, r, p[r])
       \/ /\ s \in DOMAIN m.held \ Image(m.theirs) /\ n.held[s].request = m.held[s].request
          /\ ~(q[r].core = c /\ Owner(m, s, r, q[r]))
  /\ \A x \in Request \ {r} : U!Bound(n, x) = U!Bound(m, x)
  /\ \A s \in DOMAIN n.held \cap DOMAIN m.held : m.held[s].request = {} =>
       n.held[s].request = {} \/ s \in p[r].hop \cup q[r].hop
  /\ \A x \in Request \ {r} : q[x].core = c => q[x].hop \cap q[r].hop = {}

LEMMA OwnedMoved ==
  ASSUME NEW m, NEW c, NEW q, Owned(c, m, q), NEW n, NEW p, NEW r \in Request,
         Moves(c, m, n, q, p, r)
  PROVE  Owned(c, n, p)
<1> USE DEF Moves
<1>1. ASSUME NEW x \in Request, p[x].core = c PROVE Holder(n, x, p[x])
  <2>1. CASE x = r  BY <2>1
  <2>2. CASE x # r
    <3>1. Holder(m, x, q[x]) /\ p[x] = q[x] /\ q[x].core = c  BY <1>1, <2>2 DEF Owned
    <3>2. U!Bound(n, x) = U!Bound(m, x)  BY <2>2
    <3>3. ASSUME NEW s \in DOMAIN m.held \ Image(m.theirs), q[x].hop = {s}, m.held[s].request = {}
          PROVE  s \in DOMAIN n.held \ Image(n.theirs) /\ n.held[s].request = {}
      <4>1. s \in DOMAIN n.held \ Image(n.theirs) /\ s \notin p[r].hop /\ s \notin q[r].hop
        BY <2>2, <3>1, <3>3
      <4> QED  BY <3>3, <4>1
    <3> QED  BY <3>1, <3>2, <3>3 DEF Holder
  <2> QED  BY <2>1, <2>2
<1>2. ASSUME NEW x \in Request, NEW y \in Request, x # y, p[x].core = c, p[y].core = c
      PROVE  p[x].hop \cap p[y].hop = {}
  <2>1. CASE x = r
    <3>1. p[y] = q[y] /\ q[y].core = c  BY <1>2, <2>1
    <3> QED  BY <1>2, <2>1, <3>1
  <2>2. CASE y = r
    <3>1. p[x] = q[x] /\ q[x].core = c  BY <1>2, <2>2
    <3> QED  BY <1>2, <2>2, <3>1
  <2>3. CASE x # r /\ y # r  BY <1>2, <2>3 DEF Owned
  <2> QED  BY <2>1, <2>2, <2>3
<1>3. ASSUME NEW s \in DOMAIN n.held \ Image(n.theirs)
      PROVE  \E x \in Request : p[x].core = c /\ Owner(n, s, x, p[x])
  <2>1. CASE Owner(n, s, r, p[r])  BY <2>1
  <2>2. CASE ~Owner(n, s, r, p[r])
    <3>1. /\ s \in DOMAIN m.held \ Image(m.theirs) /\ n.held[s].request = m.held[s].request
          /\ ~(q[r].core = c /\ Owner(m, s, r, q[r]))
      BY <2>2
    <3>2. PICK x \in Request : q[x].core = c /\ Owner(m, s, x, q[x])  BY <3>1 DEF Owned
    <3>3. x # r  BY <3>1, <3>2
    <3> QED  BY <3>1, <3>2, <3>3 DEF Owner
  <2> QED  BY <2>1, <2>2
<1> QED  BY <1>1, <1>2, <1>3 DEF Owned

LEMMA HopApart ==
  ASSUME NEW c, NEW m, NEW q, Owned(c, m, q), NEW r \in Request, q[r].core = c,
         NEW x \in Request \ {r}, q[x].core = c
  PROVE  q[x].hop \cap q[r].hop = {}
BY DEF Owned

LEMMA ReserveOwned ==
  ASSUME NEW m, Formed(m), NEW c, NEW q, Owned(c, m, q), NEW n, NEW p, NEW r \in Request,
         \A x \in Request \ {r} : p[x] = q[x],
         q[r].core = c, q[r].status = "Open", q[r].hop = {}, q[r].tries \in Seq(Try),
         p[r].core = c, p[r].status = "Open", p[r].hop = {m.seq + 1},
         NEW e \in Try, e.kept, p[r].tries = Append(q[r].tries, e),
         n.theirs = m.theirs,
         NEW v, v.request = {}, n.held = U!With(m.held, m.seq + 1, v)
  PROVE  Owned(c, n, p)
<1> DEFINE z == m.seq + 1
<1>1. z \notin DOMAIN m.held /\ z \notin Image(m.theirs)  BY DEF Formed
<1> HIDE DEF z
<1>2. /\ DOMAIN n.held = DOMAIN m.held \cup {z} /\ n.held[z].request = {}
      /\ \A s \in DOMAIN m.held : n.held[s] = m.held[s]
  BY <1>1 DEF U!With, z
<1>3. \A x : U!Bound(n, x) = U!Bound(m, x) /\ z \notin U!Bound(m, x)  BY <1>1, <1>2 DEF U!Bound
<1>4. p[r].hop = {z}  BY DEF z
<1>5. Holder(n, r, p[r])
  <2>1. Cardinality(U!Bound(m, r) \cup q[r].hop) = Cardinality(U!Counting(q[r].tries))
    BY DEF Owned, Holder
  <2>2. U!Bound(m, r) \cup q[r].hop = U!Bound(m, r)  OBVIOUS
  <2>3. Cardinality(U!Bound(m, r) \cup {z}) = Cardinality(U!Bound(m, r)) + 1
    BY <1>3, BoundFinite, FS_AddElement
  <2>4. Cardinality(U!Counting(p[r].tries)) = Cardinality(U!Counting(q[r].tries)) + 1
    BY CountingAppend
  <2>5. Cardinality(U!Bound(n, r) \cup p[r].hop) = Cardinality(U!Counting(p[r].tries))
    BY <1>3, <1>4, <2>1, <2>2, <2>3, <2>4
  <2>6. p[r].tries # <<>> /\ p[r].tries[Len(p[r].tries)].kept  OBVIOUS
  <2>7. z \in DOMAIN n.held \ Image(n.theirs)  BY <1>1, <1>2
  <2> QED  BY <1>2, <1>4, <2>5, <2>6, <2>7 DEF Holder
<1>6. ASSUME NEW x \in Request \ {r}, q[x].core = c
      PROVE  q[x].hop \cap p[r].hop = {} /\ q[x].hop \subseteq DOMAIN n.held \ Image(n.theirs)
  <2>1. q[x].hop \subseteq DOMAIN m.held \ Image(m.theirs)  BY <1>6, HopIn
  <2> QED  BY <1>1, <1>2, <1>4, <2>1
<1>7. ASSUME NEW s \in DOMAIN n.held \ Image(n.theirs)
      PROVE  \/ Owner(n, s, r, p[r])
             \/ /\ s \in DOMAIN m.held \ Image(m.theirs) /\ n.held[s].request = m.held[s].request
                /\ ~(q[r].core = c /\ Owner(m, s, r, q[r]))
  <2>1. CASE s = z  BY <1>2, <1>4, <2>1 DEF Owner
  <2>2. CASE s # z
    <3>1. s \in DOMAIN m.held \ Image(m.theirs) /\ n.held[s] = m.held[s]  BY <1>2, <2>2
    <3>2. CASE Owner(m, s, r, q[r])  BY <3>1, <3>2 DEF Owner
    <3> QED  BY <3>1, <3>2
  <2> QED  BY <2>1, <2>2
<1>8. \A x \in Request \ {r} : U!Bound(n, x) = U!Bound(m, x)  BY <1>3
<1>9. \A s \in DOMAIN n.held \cap DOMAIN m.held : m.held[s].request = {} =>
         n.held[s].request = {} \/ s \in p[r].hop \cup q[r].hop
  BY <1>2
<1>10. \A x \in Request \ {r} : q[x].core = c => q[x].hop \cap q[r].hop = {}
  OBVIOUS
<1>11. Moves(c, m, n, q, p, r)  BY <1>5, <1>6, <1>7, <1>8, <1>9, <1>10 DEF Moves
<1> QED  BY <1>11, OwnedMoved

(* The last try is given back. *)
Refused(tries) == [tries EXCEPT ![Len(tries)].kept = FALSE]

Refuses(c, m, n, q, p, r, s) ==
  /\ \A x \in Request \ {r} : p[x] = q[x]
  /\ q[r].core = c /\ q[r].status = "Open" /\ s \in q[r].hop /\ q[r].tries \in Seq(Try)
  /\ p[r].core = c /\ p[r].status = "Open" /\ p[r].hop = {}
  /\ p[r].tries = Refused(q[r].tries)
  /\ n.theirs = m.theirs /\ n.held = U!Without(m.held, {s})

LEMMA ReleaseOwned ==
  ASSUME NEW m, Formed(m), NEW c, NEW q, Owned(c, m, q), NEW n, NEW p, NEW r \in Request,
         NEW s, Refuses(c, m, n, q, p, r, s)
  PROVE  Owned(c, n, p) /\ q[r].tries # <<>> /\ q[r].tries[Len(q[r].tries)].kept
<1> USE DEF Refuses
<1>1. /\ q[r].hop = {s} /\ s \in DOMAIN m.held \ Image(m.theirs) /\ m.held[s].request = {}
      /\ q[r].tries # <<>> /\ q[r].tries[Len(q[r].tries)].kept
      /\ Cardinality(U!Bound(m, r) \cup q[r].hop) = Cardinality(U!Counting(q[r].tries))
  <2>1. Holder(m, r, q[r])  BY DEF Owned
  <2> QED  BY <2>1 DEF Holder
<1>2. /\ DOMAIN n.held = DOMAIN m.held \ {s}
      /\ \A y \in DOMAIN n.held : n.held[y] = m.held[y]
  BY DEF U!Without
<1>3. \A x : U!Bound(n, x) = U!Bound(m, x) /\ s \notin U!Bound(m, x)  BY <1>1, <1>2 DEF U!Bound
<1>4. Holder(n, r, p[r])
  <2>1. Cardinality(U!Bound(m, r) \cup {s}) = Cardinality(U!Bound(m, r)) + 1
    BY <1>3, BoundFinite, FS_AddElement
  <2>2. Cardinality(U!Counting(p[r].tries)) = Cardinality(U!Counting(q[r].tries)) - 1
    BY <1>1, CountingTaken DEF Refused
  <2>3. U!Bound(n, r) \cup p[r].hop = U!Bound(m, r)  BY <1>3
  <2>4. Cardinality(U!Bound(m, r)) \in Nat  BY BoundFinite
  <2>5. Cardinality(U!Bound(n, r) \cup p[r].hop) = Cardinality(U!Counting(p[r].tries))
    BY <1>1, <2>1, <2>2, <2>3, <2>4
  <2> QED  BY <2>5 DEF Holder
<1>5. ASSUME NEW x \in Request \ {r}, q[x].core = c
      PROVE  q[x].hop \cap p[r].hop = {} /\ q[x].hop \subseteq DOMAIN n.held \ Image(n.theirs)
  <2>1. q[x].hop \subseteq DOMAIN m.held \ Image(m.theirs)  BY <1>5, HopIn
  <2>2. q[x].hop \cap q[r].hop = {}  BY <1>5, HopApart
  <2> QED  BY <1>1, <1>2, <2>1, <2>2
<1>6. ASSUME NEW y \in DOMAIN n.held \ Image(n.theirs)
      PROVE  \/ Owner(n, y, r, p[r])
             \/ /\ y \in DOMAIN m.held \ Image(m.theirs) /\ n.held[y].request = m.held[y].request
                /\ ~(q[r].core = c /\ Owner(m, y, r, q[r]))
  <2>1. y \in DOMAIN m.held \ Image(m.theirs) /\ n.held[y] = m.held[y] /\ y # s  BY <1>2
  <2>2. CASE Owner(m, y, r, q[r])  BY <1>1, <2>1, <2>2 DEF Owner
  <2> QED  BY <2>1, <2>2
<1>7. \A x \in Request \ {r} : q[x].core = c => q[x].hop \cap q[r].hop = {}
  BY HopApart
<1>8. \A x \in Request \ {r} : U!Bound(n, x) = U!Bound(m, x)  BY <1>3
<1>9. \A y \in DOMAIN n.held \cap DOMAIN m.held : m.held[y].request = {} =>
         n.held[y].request = {} \/ y \in p[r].hop \cup q[r].hop
  BY <1>2
<1>10. Moves(c, m, n, q, p, r)  BY <1>4, <1>5, <1>6, <1>7, <1>8, <1>9 DEF Moves
<1> QED  BY <1>1, <1>10, OwnedMoved

LEMMA BindOwned ==
  ASSUME NEW m, Formed(m), NEW c, NEW q, Owned(c, m, q), NEW n, NEW p, NEW r \in Request,
         \A x \in Request \ {r} : p[x] = q[x],
         q[r].core = c, q[r].status = "Open", NEW s \in q[r].hop,
         p[r].core = c, p[r].status = "Open", p[r].hop = {}, p[r].tries = q[r].tries,
         n = [m EXCEPT !.held[s].request = {r}]
  PROVE  Formed(n) /\ Owned(c, n, p)
<1>1. /\ q[r].hop = {s} /\ s \in DOMAIN m.held \ Image(m.theirs) /\ m.held[s].request = {}
      /\ Cardinality(U!Bound(m, r) \cup q[r].hop) = Cardinality(U!Counting(q[r].tries))
  <2>1. Holder(m, r, q[r])  BY DEF Owned
  <2> QED  BY <2>1 DEF Holder
<1>2. /\ DOMAIN n = Fields /\ n.seq = m.seq /\ n.theirs = m.theirs
      /\ n.held = [m.held EXCEPT ![s].request = {r}]
  BY DEF Formed, Fields
<1>3. /\ DOMAIN n.held = DOMAIN m.held
      /\ \A y \in DOMAIN m.held : y # s => n.held[y] = m.held[y]
      /\ DOMAIN n.held[s] = DOMAIN m.held[s] /\ n.held[s].request = {r}
  BY <1>1, <1>2 DEF Formed
<1>4. Formed(n)
  <2>1. \A y \in DOMAIN n.held :
          /\ DOMAIN n.held[y] = {"name", "at", "use", "request", "closed"}
          /\ n.held[y].request = {} => n.held[y].closed = {}
          /\ y \in Image(n.theirs) => n.held[y].request = {}
    BY <1>1, <1>2, <1>3 DEF Formed
  <2> QED  BY <1>2, <1>3, <2>1 DEF Formed
<1> HIDE DEF Formed
<1>5. U!Bound(n, r) = U!Bound(m, r) \cup {s}  BY <1>1, <1>3 DEF U!Bound
<1>6. \A x \in Request \ {r} : U!Bound(n, x) = U!Bound(m, x)  BY <1>1, <1>3 DEF U!Bound
<1>7. Holder(n, r, p[r])
  <2>1. U!Bound(n, r) \cup p[r].hop = U!Bound(m, r) \cup q[r].hop  BY <1>1, <1>5
  <2> QED  BY <1>1, <2>1 DEF Holder
<1>8. ASSUME NEW x \in Request \ {r}, q[x].core = c
      PROVE  q[x].hop \cap p[r].hop = {} /\ q[x].hop \subseteq DOMAIN n.held \ Image(n.theirs)
  <2>1. q[x].hop \subseteq DOMAIN m.held \ Image(m.theirs)  BY <1>8, HopIn
  <2> QED  BY <1>2, <1>3, <2>1
<1>9. ASSUME NEW y \in DOMAIN n.held \ Image(n.theirs)
      PROVE  \/ Owner(n, y, r, p[r])
             \/ /\ y \in DOMAIN m.held \ Image(m.theirs) /\ n.held[y].request = m.held[y].request
                /\ ~(q[r].core = c /\ Owner(m, y, r, q[r]))
  <2>1. y \in DOMAIN m.held \ Image(m.theirs)  BY <1>2, <1>3
  <2>2. CASE y = s  BY <1>3, <2>2 DEF Owner
  <2>3. CASE y # s
    <3>1. n.held[y] = m.held[y]  BY <1>3, <2>1, <2>3
    <3>2. CASE Owner(m, y, r, q[r])  BY <1>1, <2>3, <3>1, <3>2 DEF Owner
    <3> QED  BY <2>1, <3>1, <3>2
  <2> QED  BY <2>2, <2>3
<1>10. \A x \in Request \ {r} : q[x].core = c => q[x].hop \cap q[r].hop = {}
  BY HopApart
<1>11. \A y \in DOMAIN n.held \cap DOMAIN m.held : m.held[y].request = {} =>
          n.held[y].request = {} \/ y \in p[r].hop \cup q[r].hop
  BY <1>1, <1>3
<1>12. Moves(c, m, n, q, p, r)  BY <1>6, <1>7, <1>8, <1>9, <1>10, <1>11 DEF Moves
<1> QED  BY <1>4, <1>12, OwnedMoved

LEMMA SettleOwned ==
  ASSUME NEW m, Formed(m), NEW c, NEW q, Owned(c, m, q), NEW n, NEW p, NEW r \in Request,
         \A x \in Request \ {r} : p[x] = q[x],
         q[r].core = c, q[r].status = "Ended",
         p[r].core = c, p[r].status = "Recorded", p[r].hop = q[r].hop,
         n.theirs = m.theirs, n.held = U!Without(m.held, U!Bound(m, r))
  PROVE  Owned(c, n, p)
<1>1. q[r].hop = {}  BY DEF Owned, Holder
<1>2. /\ DOMAIN n.held = DOMAIN m.held \ U!Bound(m, r)
      /\ \A y \in DOMAIN n.held : n.held[y] = m.held[y]
  BY DEF U!Without
<1>3. \A s \in DOMAIN m.held : m.held[s].request = {} => s \in DOMAIN n.held
  BY <1>2 DEF U!Bound
<1>4. Holder(n, r, p[r])  BY <1>1 DEF Holder
<1>5. ASSUME NEW x \in Request \ {r} PROVE U!Bound(n, x) = U!Bound(m, x)
  <2>1. ASSUME NEW s \in U!Bound(m, x) PROVE s \notin U!Bound(m, r)
    <3>1. s \in DOMAIN m.held /\ x \in m.held[s].request  BY <2>1 DEF U!Bound
    <3>2. \E y : m.held[s].request = {y}  BY <3>1, WhoseIs
    <3> QED  BY <3>1, <3>2 DEF U!Bound
  <2> QED  BY <1>2, <2>1 DEF U!Bound
<1>6. ASSUME NEW x \in Request \ {r}, q[x].core = c
      PROVE  q[x].hop \cap p[r].hop = {} /\ q[x].hop \subseteq DOMAIN n.held \ Image(n.theirs)
  <2>1. \A s \in q[x].hop : s \in DOMAIN m.held \ Image(m.theirs) /\ m.held[s].request = {}
    <3>1. Holder(m, x, q[x])  BY <1>6 DEF Owned
    <3> QED  BY <3>1 DEF Holder
  <2> QED  BY <1>1, <1>3, <2>1
<1>7. ASSUME NEW y \in DOMAIN n.held \ Image(n.theirs)
      PROVE  /\ y \in DOMAIN m.held \ Image(m.theirs) /\ n.held[y].request = m.held[y].request
             /\ ~(q[r].core = c /\ Owner(m, y, r, q[r]))
  <2>1. y \in DOMAIN m.held \ Image(m.theirs) /\ n.held[y] = m.held[y] /\ y \notin U!Bound(m, r)
    BY <1>2
  <2> QED  BY <1>1, <2>1 DEF Owner, U!Bound
<1>8. \A s \in DOMAIN n.held \cap DOMAIN m.held : m.held[s].request = {} =>
         n.held[s].request = {} \/ s \in p[r].hop \cup q[r].hop
  BY <1>2
<1>9. \A x \in Request \ {r} : q[x].core = c => q[x].hop \cap q[r].hop = {}
  BY <1>1
<1>10. Moves(c, m, n, q, p, r)  BY <1>4, <1>5, <1>6, <1>7, <1>8, <1>9 DEF Moves
<1> QED  BY <1>10, OwnedMoved

-----------------------------------------------------------------------------
(* A look *)

LEMMA SetToSeqFacts ==
  ASSUME NEW S, IsFiniteSet(S)
  PROVE  LET f == U!SetToSeq(S)
         IN  f \in Seq(S) /\ \A s \in S : \E i \in DOMAIN f : f[i] = s
<1> DEFINE n == Cardinality(S)
           f == U!SetToSeq(S)
<1>1. n \in Nat /\ ExistsBijection(1 .. n, S)  BY FS_CardinalityType
<1>2. PICK g \in [1 .. n -> S] : \A a, b \in 1 .. n : g[a] = g[b] => a = b
  BY <1>1 DEF ExistsBijection, Bijection, Injection, IsInjective
<1>3. U!IsInjective(g)  BY <1>2 DEF U!IsInjective
<1>4. f \in [1 .. n -> S] /\ IsInjective(f)
  <2>1. U!Cardinality(S) = n  BY SameNumber
  <2> HIDE DEF n
  <2>2. f \in [1 .. n -> S] /\ U!IsInjective(f)  BY <1>3, <2>1 DEF U!SetToSeq
  <2> HIDE DEF f
  <2> QED  BY <2>2 DEF U!IsInjective, IsInjective
<1> HIDE DEF f
<1>5. f \in Injection(1 .. n, S)  BY <1>4 DEF Injection, IsInjective
<1>6. Cardinality(1 .. n) = Cardinality(S)  BY <1>1, FS_Interval
<1>7. f \in Surjection(1 .. n, S)  BY <1>5, <1>6, FS_Injection
<1>8. f \in Seq(S)  BY <1>1, <1>4
<1>9. \A s \in S : \E i \in DOMAIN f : f[i] = s  BY <1>4, <1>7 DEF Surjection
<1> QED  BY <1>8, <1>9 DEF f

(* What the look lets go of, and what it leaves.                           *)
Swept(m, open) == U!Stray(U!Noted(m.held, open, now), now)

Sweeps(m, n, open) ==
  /\ DOMAIN n = Fields /\ n.seq = m.seq /\ n.theirs = m.theirs
  /\ n.held = U!Without(U!Noted(m.held, open, now), Swept(m, open))

LEMMA NotedFacts ==
  ASSUME NEW m, Formed(m), NEW open, NEW n, Sweeps(m, n, open)
  PROVE  /\ Formed(n) /\ Swept(m, open) \subseteq DOMAIN m.held
         /\ DOMAIN n.held = DOMAIN m.held \ Swept(m, open)
         /\ \A s \in DOMAIN n.held : n.held[s].request = m.held[s].request
         /\ \A s \in Swept(m, open) : ~(m.held[s].request \subseteq open)
<1> USE DEF Sweeps, Swept
<1> DEFINE noted == U!Noted(m.held, open, now)
           S == U!Stray(noted, now)
<1>1. /\ DOMAIN noted = DOMAIN m.held
      /\ \A s \in DOMAIN m.held :
           /\ m.held[s].request = {} => noted[s] = m.held[s]
           /\ m.held[s].request # {} =>
                /\ DOMAIN noted[s] = DOMAIN m.held[s]
                /\ noted[s].request = m.held[s].request
                /\ m.held[s].request \subseteq open => noted[s].closed = {}
  BY DEF U!Noted, Formed
<1>2. S \subseteq DOMAIN m.held /\ \A s \in S : noted[s].closed # {}
  BY <1>1 DEF U!Stray
<1> HIDE DEF S
<1>3. DOMAIN n.held = DOMAIN m.held \ S /\ \A s \in DOMAIN n.held : n.held[s] = noted[s]
  BY <1>1 DEF U!Without, S
<1>4. ASSUME NEW s \in DOMAIN n.held
      PROVE  /\ DOMAIN n.held[s] = {"name", "at", "use", "request", "closed"}
             /\ n.held[s].request = {} => n.held[s].closed = {}
             /\ n.held[s].request = m.held[s].request
  BY <1>1, <1>3 DEF Formed
<1>5. Formed(n)  BY <1>3, <1>4 DEF Formed
<1>6. ASSUME NEW s \in S PROVE ~(m.held[s].request \subseteq open)
  <2>1. CASE m.held[s].request = {}  BY <1>1, <1>2, <2>1 DEF Formed
  <2>2. CASE m.held[s].request # {}  BY <1>1, <1>2, <2>2
  <2> QED  BY <2>1, <2>2
<1> QED  BY <1>2, <1>3, <1>4, <1>5, <1>6 DEF S

LEMMA LookOwned ==
  ASSUME NEW m, Formed(m), NEW c, NEW q, Owned(c, m, q), NEW n, n.theirs = m.theirs,
         NEW S, DOMAIN n.held = DOMAIN m.held \ S,
         \A s \in DOMAIN n.held : n.held[s].request = m.held[s].request,
         \A s \in S \cap DOMAIN m.held :
           ~(m.held[s].request \subseteq {r \in Request : q[r].status = "Open" /\ q[r].core = c})
  PROVE  Owned(c, n, q)
<1>1. \A s \in DOMAIN n.held \ Image(n.theirs) :
         s \in DOMAIN m.held \ Image(m.theirs) /\ n.held[s].request = m.held[s].request
  OBVIOUS
<1>2. ASSUME NEW r \in Request, q[r].core = c
      PROVE  q[r].hop \subseteq DOMAIN n.held \ Image(n.theirs)
  <2>1. Holder(m, r, q[r])  BY <1>2 DEF Owned
  <2>2. \A s \in q[r].hop : s \in DOMAIN m.held \ Image(m.theirs) /\ m.held[s].request = {}
    BY <2>1 DEF Holder
  <2> QED  BY <2>2
<1>3. ASSUME NEW r \in Request, q[r].core = c, q[r].status = "Open" PROVE U!Bound(n, r) = U!Bound(m, r)
  <2>1. ASSUME NEW s \in U!Bound(m, r) PROVE s \notin S
    <3>1. s \in DOMAIN m.held /\ r \in m.held[s].request  BY <2>1 DEF U!Bound
    <3>2. m.held[s].request # {}  BY <3>1
    <3>4. \E x : m.held[s].request = {x}  BY <3>1, <3>2, WhoseIs
    <3>3. m.held[s].request = {r}  BY <3>1, <3>4
    <3> QED  BY <1>3, <3>1, <3>3
  <2> QED  BY <2>1 DEF U!Bound
<1> QED  BY <1>1, <1>2, <1>3, OwnedKept

LEMMA DropsFacts ==
  ASSUME NEW S, IsFiniteSet(S)
  PROVE  LET drops == U!SetToSeq(S)
             es == [i \in DOMAIN drops |-> [kind |-> "Drop", seq |-> drops[i]]]
         IN  /\ Spoken(es) /\ \A i \in DOMAIN es : es[i].kind = "Drop"
             /\ \A t : (\A i \in DOMAIN es : es[i].seq # t) <=> t \notin S
<1> DEFINE f == U!SetToSeq(S)
           T == {[kind |-> "Drop", seq |-> s] : s \in S}
           es == [i \in DOMAIN f |-> [kind |-> "Drop", seq |-> f[i]]]
<1>1. f \in Seq(S) /\ \A s \in S : \E i \in DOMAIN f : f[i] = s  BY SetToSeqFacts
<1> HIDE DEF f
<1>2. DOMAIN f = 1 .. Len(f) /\ Len(f) \in Nat /\ \A i \in DOMAIN f : f[i] \in S  BY <1>1
<1>3. \A i \in DOMAIN f : [kind |-> "Drop", seq |-> f[i]] \in T  BY <1>2
<1>4. es \in Seq(T)
  <2>1. es \in [1 .. Len(f) -> T]  BY <1>2, <1>3
  <2> QED  BY <1>2, <2>1
<1>5. \A i \in DOMAIN es : es[i].kind = "Drop" /\ es[i].seq = f[i]  OBVIOUS
<1>6. \A i \in DOMAIN es : Event(es[i])  BY <1>5 DEF Event
<1>7. DOMAIN es = DOMAIN f  OBVIOUS
<1> HIDE DEF es, T
<1>8. Spoken(es)  BY <1>4, <1>6, SaidBy
<1>9. ASSUME NEW t PROVE (\A i \in DOMAIN es : es[i].seq # t) <=> t \notin S
  BY <1>1, <1>2, <1>5, <1>7
<1> QED  BY <1>5, <1>8, <1>9 DEF es, f

-----------------------------------------------------------------------------
(* What the feed gets *)

FeedFields == {"on", "queue", "draining", "lost", "missed"}

LEMMA ToldFacts ==
  ASSUME Whole, NEW c \in U!Core, NEW es, Spoken(es), U!Tell(c, es)
  PROVE  /\ DOMAIN feed' = FeedFields /\ Spoken(feed'.queue)
         /\ phase = "Draining" =>
              /\ feed'.on /\ feed'.draining /\ ~feed'.lost
              /\ feed'.queue = IF c = "old" THEN feed.queue \o es ELSE feed.queue
<1>1. /\ DOMAIN feed = FeedFields /\ Spoken(feed.queue)
      /\ phase = "Draining" => feed.on /\ feed.draining /\ ~feed.lost
  BY DEF Whole, FeedFields
<1>2. CASE c # "old"  BY <1>1, <1>2 DEF U!Tell
<1>3. CASE c = "old"
  <2>1. feed' = U!Told(es)  BY <1>3 DEF U!Tell
  <2>2. CASE ~feed.on \/ feed.lost
    <3>1. feed' = feed  BY <2>1, <2>2 DEF U!Told
    <3> QED  BY <1>1, <2>2, <3>1
  <2>3. CASE ~(~feed.on \/ feed.lost) /\ (feed.draining \/ Len(feed.queue) + Len(es) <= PendingMax)
    <3>1. feed' = [feed EXCEPT !.queue = @ \o es]  BY <2>1, <2>3 DEF U!Told
    <3>2. Spoken(feed.queue \o es)  BY <1>1, SaidJoined
    <3> QED  BY <1>1, <1>3, <3>1, <3>2 DEF FeedFields
  <2>4. CASE ~(~feed.on \/ feed.lost) /\ ~(feed.draining \/ Len(feed.queue) + Len(es) <= PendingMax)
    <3>1. feed' = [feed EXCEPT !.queue = SubSeq(@ \o es, 1, PendingMax), !.lost = TRUE]
      BY <2>1, <2>4 DEF U!Told
    <3>2. PendingMax \in Nat  BY DEF Whole
    <3>3. Spoken(feed.queue \o es) /\ Len(feed.queue \o es) = Len(feed.queue) + Len(es)
      BY <1>1, SaidJoined
    <3>4. Len(feed.queue) \in Nat /\ Len(es) \in Nat  BY <1>1, SaidLen
    <3>5. ~(PendingMax > Len(feed.queue \o es))  BY <2>4, <3>2, <3>3, <3>4
    <3>6. Spoken(SubSeq(feed.queue \o es, 1, PendingMax))  BY <3>2, <3>3, <3>5, SaidFirst
    <3> QED  BY <1>1, <2>4, <3>1, <3>6 DEF FeedFields
  <2> QED  BY <2>2, <2>3, <2>4
<1> QED  BY <1>2, <1>3

LEMMA WireFacts ==
  ASSUME NEW m, Formed(m)
  PROVE  LET H == {U!Wire(m, s) : s \in DOMAIN m.held}
         IN  Wired(H) /\ {h.seq : h \in H} = DOMAIN m.held
<1> DEFINE X == DOMAIN m.held
           H == {U!Wire(m, s) : s \in X}
           f == [s \in X |-> U!Wire(m, s)]
<1>1. X \subseteq 1 .. m.seq /\ m.seq \in Nat  BY DEF Formed
<1>2. IsFiniteSet(1 .. m.seq)  BY <1>1, FS_Interval
<1>3. IsFiniteSet(X)  BY <1>1, <1>2, FS_Subset
<1>4. \A s \in X : U!Wire(m, s).seq = s  BY DEF U!Wire
<1> HIDE DEF X
<1>5. f \in Surjection(X, H)  BY DEF Surjection
<1>6. IsFiniteSet(H)  BY <1>3, <1>5, FS_Surjection
<1>7. \A h \in H : h.seq \in X /\ h.seq \in Nat  BY <1>1, <1>4
<1>8. \A s \in X : \E h \in H : h.seq = s  BY <1>4
<1>9. {h.seq : h \in H} = X  BY <1>7, <1>8
<1> QED  BY <1>6, <1>7, <1>9 DEF Wired, X

-----------------------------------------------------------------------------
(* Steps of a core, with a request of its own or none: n becomes of its    *)
(* memory.                                                                 *)

Acts(c, n) ==
  /\ now' = now /\ named' = named /\ phase' = phase /\ snap' = snap
  /\ mem' = [mem EXCEPT ![c] = n]
  /\ Formed(n) /\ (c = "old" => phase # "Gone") /\ Owned(c, n, calls')
  /\ DOMAIN calls' = Request /\ \A r \in Request : Asker(calls'[r])
  /\ \A r \in Request : \/ calls'[r] = calls[r]
                        \/ calls[r].core = c /\ calls'[r].core = c

Feeds ==
  /\ DOMAIN feed' = FeedFields /\ Spoken(feed'.queue)
  /\ phase = "Draining" => feed'.on /\ feed'.draining /\ ~feed'.lost

LEMMA ActsInv ==
  ASSUME Whole, NEW c \in U!Core, NEW n, Acts(c, n), Feeds
  PROVE  Whole'
<1>1. /\ DOMAIN feed' = FeedFields /\ Spoken(feed'.queue)
      /\ phase = "Draining" => feed'.on /\ feed'.draining /\ ~feed'.lost
  BY DEF Feeds
<1>2. DOMAIN mem' = U!Core /\ mem'[c] = n /\ \A d \in U!Core \ {c} : mem'[d] = mem[d]
  BY DEF Acts, Whole
<1>3. \A d \in U!Core : Formed(mem'[d])  BY <1>2 DEF Acts, Whole
<1>4. ASSUME NEW d \in U!Core \ {c}, Owned(d, mem[d], calls) PROVE Owned(d, mem'[d], calls')
  <2>1. \A r \in Request : calls'[r] = calls[r] \/ (calls[r].core # d /\ calls'[r].core # d)
    BY DEF Acts
  <2>2. Owned(d, mem[d], calls')  BY <1>4, <2>1, OwnedElse
  <2> QED  BY <1>2, <2>2
<1>5. Owned(c, mem'[c], calls')  BY <1>2 DEF Acts
<1>6. phase' # "Gone" => Owned("old", mem'["old"], calls')
  BY <1>4, <1>5 DEF Acts, Whole, U!Core
<1>7. Owned("new", mem'["new"], calls')
  BY <1>4, <1>5 DEF Whole, U!Core
<1>8. \A r \in Request : calls'[r].core = "new" => phase' \in {"Draining", "Gone"}
  BY DEF Acts, Whole
<1> QED  BY <1>1, <1>2, <1>3, <1>6, <1>7, <1>8 DEF Acts, Whole, FeedFields

(* The queue of the feed grows by what the numbers of the old core lose or *)
(* gain.                                                                   *)
LEMMA ActsFollows ==
  ASSUME Whole, Trails, NEW c \in U!Core, NEW n, Acts(c, n),
         n.theirs = mem[c].theirs,
         ASSUME phase = "Draining"
         PROVE  IF c = "old"
                THEN \A T, t : (Will(feed.queue, T, t) <=> t \in DOMAIN mem["old"].held)
                               => (Will(feed'.queue, T, t) <=> t \in DOMAIN n.held)
                ELSE feed'.queue = feed.queue
  PROVE  Trails'
<1> SUFFICES ASSUME phase' = "Draining", NEW t
             PROVE  Will(feed'.queue, DOMAIN mem'["new"].theirs, t) <=> t \in DOMAIN mem'["old"].held
  BY DEF Trails
<1>1. phase = "Draining"  BY DEF Acts
<1>2. Will(feed.queue, DOMAIN mem["new"].theirs, t) <=> t \in DOMAIN mem["old"].held
  BY <1>1 DEF Trails
<1>3. mem'[c] = n /\ \A d \in U!Core \ {c} : mem'[d] = mem[d]
  BY DEF Acts, Whole
<1>4. CASE c = "old"
  <2>1. mem'["new"] = mem["new"] /\ mem'["old"] = n  BY <1>3, <1>4 DEF U!Core
  <2> QED  BY <1>1, <1>2, <1>4, <2>1
<1>5. CASE c = "new"
  <2>1. mem'["old"] = mem["old"] /\ mem'["new"].theirs = mem["new"].theirs
    BY <1>3, <1>5 DEF U!Core
  <2> QED  BY <1>1, <1>2, <1>5, <2>1
<1> QED  BY <1>4, <1>5 DEF U!Core

(* What a core does has both. *)
Fine == Whole' /\ (Trails => Trails')

(* Nothing is told, and the numbers stay. *)
LEMMA Quiet ==
  ASSUME Whole, NEW c \in U!Core, NEW n, Acts(c, n), feed' = feed,
         n.theirs = mem[c].theirs, DOMAIN n.held = DOMAIN mem[c].held
  PROVE  Fine
<1>1. Feeds  BY DEF Feeds, Whole, FeedFields
<1>2. Whole'  BY <1>1, ActsInv
<1>3. ASSUME Trails PROVE Trails'  BY <1>3, ActsFollows
<1> QED  BY <1>2, <1>3 DEF Fine

(* What it does is told, which moves the numbers the same way. *)
LEMMA Loud ==
  ASSUME Whole, NEW c \in U!Core, NEW n, Acts(c, n), NEW es, Spoken(es), U!Tell(c, es),
         n.theirs = mem[c].theirs,
         c = "old" => \A T, t : (Will(feed.queue, T, t) <=> t \in DOMAIN mem["old"].held)
                                => (Will(feed.queue \o es, T, t) <=> t \in DOMAIN n.held)
  PROVE  Fine
<1>1. Feeds  BY ToldFacts DEF Feeds
<1>2. Whole'  BY <1>1, ActsInv
<1>3. ASSUME Trails PROVE Trails'
  <2>1. phase = "Draining" =>
          feed'.queue = IF c = "old" THEN feed.queue \o es ELSE feed.queue
    BY ToldFacts
  <2>2. ASSUME phase = "Draining"
        PROVE  IF c = "old"
               THEN \A T, t : (Will(feed.queue, T, t) <=> t \in DOMAIN mem["old"].held)
                              => (Will(feed'.queue, T, t) <=> t \in DOMAIN n.held)
               ELSE feed'.queue = feed.queue
    BY <2>1, <2>2
  <2> QED  BY <1>3, <2>2, ActsFollows
<1> QED  BY <1>2, <1>3 DEF Fine

-----------------------------------------------------------------------------
(* The requests *)

(* Only r changes. *)
LEMMA Changes ==
  ASSUME Whole, NEW r \in Request, NEW p, Asker(p), calls' = [calls EXCEPT ![r] = p]
  PROVE  /\ DOMAIN calls' = Request /\ calls'[r] = p
         /\ \A x \in Request \ {r} : calls'[x] = calls[x]
         /\ \A x \in Request : Asker(calls'[x])
<1>1. DOMAIN calls = Request /\ \A x \in Request : Asker(calls[x])  BY DEF Whole
<1>2. /\ DOMAIN calls' = Request /\ calls'[r] = p
      /\ \A x \in Request \ {r} : calls'[x] = calls[x]
  BY <1>1
<1> QED  BY <1>1, <1>2

(* A request that is under way has a core. *)
LEMMA Goes ==
  ASSUME Whole, NEW r \in Request, calls[r].status \in {"Open", "Ended"}, U!Alive(calls[r].core)
  PROVE  LET c == calls[r].core
         IN  /\ c \in U!Core /\ Formed(mem[c]) /\ Owned(c, mem[c], calls)
             /\ c = "old" => phase # "Gone"
             /\ Asker(calls[r]) /\ calls[r].tries \in Seq(Try) /\ DOMAIN mem = U!Core
             /\ now \in Int /\ named \in Name
<1>1. Asker(calls[r])  BY DEF Whole
<1>2. calls[r].core \in U!Core  BY <1>1 DEF Asker
<1>3. calls[r].core = "old" => phase # "Gone"  BY DEF U!Alive, U!OldAlive
<1>4. Owned(calls[r].core, mem[calls[r].core], calls)  BY <1>2, <1>3 DEF Whole, U!Core
<1> QED  BY <1>1, <1>2, <1>3, <1>4 DEF Whole, Asker

LEMMA ReserveFine == ASSUME Whole, NEW r \in Request, U!Reserve(r) PROVE Fine
<1> DEFINE c == calls[r].core
           m == mem[c]
           n == U!Reserved(m, named)
           e == [name |-> named, at |-> now, kept |-> TRUE]
           p == [calls[r] EXCEPT !.hop = {n.seq}, !.tries = Append(@, e)]
           v == U!Reservation(named, now, Estimate)
           ev == [kind |-> "Reserve", held |-> U!Wire(n, n.seq)]
<1>1. /\ calls[r].status = "Open" /\ calls[r].hop = {} /\ U!Alive(c)
      /\ mem' = [mem EXCEPT ![c] = n] /\ calls' = [calls EXCEPT ![r] = p]
      /\ U!Tell(c, <<ev>>)
      /\ now' = now /\ named' = named /\ phase' = phase /\ snap' = snap
  BY DEF U!Reserve
<1>2. /\ c \in U!Core /\ Formed(m) /\ Owned(c, m, calls) /\ (c = "old" => phase # "Gone")
      /\ Asker(calls[r]) /\ calls[r].tries \in Seq(Try) /\ now \in Int /\ named \in Name
  BY <1>1, Goes
<1>3. DOMAIN m = Fields /\ m.seq \in Nat /\ DOMAIN m.held \subseteq 1 .. m.seq
  BY <1>2 DEF Formed
<1>4. /\ DOMAIN n = Fields /\ n.seq = m.seq + 1 /\ n.theirs = m.theirs
      /\ n.held = U!With(m.held, m.seq + 1, v)
  BY <1>3, ReservedFacts
<1>5. /\ DOMAIN v = {"name", "at", "use", "request", "closed"}
      /\ v.request = {} /\ v.closed = {}
  BY ReservationFacts
<1>6. Formed(n)
  <2> HIDE DEF n, v, m
  <2> QED  BY <1>2, <1>4, <1>5, FormedMore
<1>7. e \in Try /\ e.kept  BY <1>2 DEF Try
<1>8. Append(calls[r].tries, e) \in Seq(Try)
  <2> HIDE DEF e
  <2> QED  BY <1>2, <1>7
<1> HIDE DEF e, n, v
<1>9. /\ p.core = c /\ p.status = "Open" /\ p.hop = {m.seq + 1}
      /\ p.tries = Append(calls[r].tries, e)
      /\ DOMAIN p = {"core", "at", "status", "hop", "tries"}
  BY <1>1, <1>2, <1>4 DEF Asker
<1>10. Asker(p)
  <2> HIDE DEF p
  <2> QED  BY <1>1, <1>2, <1>8, <1>9 DEF Asker
<1> HIDE DEF p
<1>11. /\ DOMAIN calls' = Request /\ calls'[r] = p
       /\ \A x \in Request \ {r} : calls'[x] = calls[x]
       /\ \A x \in Request : Asker(calls'[x])
  BY <1>1, <1>10, Changes
<1>12. Owned(c, n, calls')
  <2> HIDE DEF m, c
  <2>1. calls[r].core = c  BY DEF c
  <2>2. /\ Formed(m) /\ Owned(c, m, calls) /\ \A x \in Request \ {r} : calls'[x] = calls[x]
        /\ calls[r].status = "Open" /\ calls[r].hop = {} /\ calls[r].tries \in Seq(Try)
    BY <1>1, <1>2, <1>11
  <2>3. /\ calls'[r].core = c /\ calls'[r].status = "Open" /\ calls'[r].hop = {m.seq + 1}
        /\ calls'[r].tries = Append(calls[r].tries, e)
    BY <1>9, <1>11
  <2>4. n.theirs = m.theirs /\ n.held = U!With(m.held, m.seq + 1, v) /\ v.request = {}
    BY <1>4, <1>5
  <2> HIDE DEF v, p, n, e
  <2> QED  BY <1>7, <2>1, <2>2, <2>3, <2>4, ReserveOwned
<1>13. Acts(c, n)  BY <1>1, <1>2, <1>6, <1>9, <1>11, <1>12 DEF Acts
<1>14. Event(ev) /\ Spoken(<<ev>>)
  <2>1. Event(ev)  BY DEF Event
  <2> QED  BY <2>1, SaidOne
<1>15. ASSUME c = "old", NEW T, NEW t, Will(feed.queue, T, t) <=> t \in DOMAIN mem["old"].held
       PROVE  Will(feed.queue \o <<ev>>, T, t) <=> t \in DOMAIN n.held
  <2>1. Spoken(feed.queue)  BY DEF Whole
  <2>2. Will(feed.queue \o <<ev>>, T, t) <=> Puts(ev, t) \/ (Will(feed.queue, T, t) /\ ~Takes(ev, t))
    <3> HIDE DEF ev
    <3> QED  BY <1>14, <2>1, WillLast
  <2>3. ev.kind = "Reserve" /\ ev.held.seq = n.seq  BY DEF U!Wire
  <2>4. Puts(ev, t) <=> t = m.seq + 1  BY <1>4, <2>3 DEF Puts
  <2>5. ~Takes(ev, t)  BY <2>3 DEF Takes
  <2>6. t \in DOMAIN n.held <=> t \in DOMAIN m.held \/ t = m.seq + 1  BY <1>4 DEF U!With
  <2> QED  BY <1>15, <2>2, <2>4, <2>5, <2>6
<1>16. n.theirs = mem[c].theirs  BY <1>4
<1> HIDE DEF ev, c
<1> QED  BY <1>1, <1>2, <1>13, <1>14, <1>15, <1>16, Loud

LEMMA ReleaseFine == ASSUME Whole, NEW r \in Request, U!Release(r) PROVE Fine
<1> DEFINE c == calls[r].core
           m == mem[c]
           k == Len(calls[r].tries)
           w == [calls[r].tries EXCEPT ![k].kept = FALSE]
           p == [calls[r] EXCEPT !.hop = {}, !.tries = w]
<1>1. /\ calls[r].status = "Open" /\ U!Alive(c)
      /\ calls' = [calls EXCEPT ![r] = p]
      /\ now' = now /\ named' = named /\ phase' = phase /\ snap' = snap
  BY DEF U!Release
<1>2. PICK s \in calls[r].hop : /\ mem' = [mem EXCEPT ![c] = U!Released(mem[c], s)]
                              /\ U!Tell(c, <<[kind |-> "Release", seq |-> s]>>)
  BY DEF U!Release
<1> DEFINE n == U!Released(m, s)
           ev == [kind |-> "Release", seq |-> s]
<1>3. /\ c \in U!Core /\ Formed(m) /\ Owned(c, m, calls) /\ (c = "old" => phase # "Gone")
      /\ Asker(calls[r]) /\ calls[r].tries \in Seq(Try)
  BY <1>1, Goes
<1>4. DOMAIN m = Fields  BY <1>3 DEF Formed
<1>5. /\ DOMAIN n = Fields /\ n.seq = m.seq /\ n.theirs = m.theirs
      /\ n.held = U!Without(m.held, {s})
  <2>1. Same([m EXCEPT !.held = U!Without(@, {s})], n)  BY <1>4, ReleasedFacts
  <2> HIDE DEF n, m
  <2> QED  BY <1>4, <2>1 DEF Same, Fields
<1>6. Formed(n)
  <2> HIDE DEF n, m
  <2> QED  BY <1>3, <1>5, FormedLess
<1> HIDE DEF n, w
<1>7. /\ p.core = c /\ p.status = "Open" /\ p.hop = {} /\ p.tries = w
      /\ DOMAIN p = {"core", "at", "status", "hop", "tries"}
  BY <1>1, <1>3 DEF Asker
<1> HIDE DEF p
<1>8. /\ calls'[r] = p /\ \A x \in Request \ {r} : calls'[x] = calls[x]
  BY <1>1 DEF Whole
<1>9. Owned(c, n, calls') /\ calls[r].tries # <<>> /\ calls[r].tries[Len(calls[r].tries)].kept
  <2> HIDE DEF m, c
  <2>1. calls[r].core = c  BY DEF c
  <2>2. /\ calls'[r].core = c /\ calls'[r].status = "Open" /\ calls'[r].hop = {}
        /\ calls'[r].tries = Refused(calls[r].tries)
    BY <1>7, <1>8 DEF w, k, Refused
  <2>3. calls[r].status = "Open" /\ s \in calls[r].hop /\ calls[r].tries \in Seq(Try)
    BY <1>1, <1>2, <1>3
  <2>4. Formed(m) /\ Owned(c, m, calls)  BY <1>3
  <2>5. n.theirs = m.theirs /\ n.held = U!Without(m.held, {s})  BY <1>5
  <2>6. Refuses(c, m, n, calls, calls', r, s)
    BY <1>8, <2>1, <2>2, <2>3, <2>5 DEF Refuses
  <2> QED  BY <2>4, <2>6, ReleaseOwned
<1>10. w \in Seq(Try)  BY <1>3, <1>9, CountingTaken DEF w, k
<1>11. Asker(p)  BY <1>1, <1>3, <1>7, <1>10 DEF Asker
<1>12. DOMAIN calls' = Request /\ \A x \in Request : Asker(calls'[x])
  BY <1>1, <1>11, Changes
<1>13. Acts(c, n)  BY <1>1, <1>2, <1>3, <1>6, <1>7, <1>8, <1>9, <1>12 DEF Acts, n
<1>14. Event(ev) /\ Spoken(<<ev>>)
  <2>1. Event(ev)  BY DEF Event
  <2> QED  BY <2>1, SaidOne
<1>15. ASSUME c = "old", NEW T, NEW t, Will(feed.queue, T, t) <=> t \in DOMAIN mem["old"].held
       PROVE  Will(feed.queue \o <<ev>>, T, t) <=> t \in DOMAIN n.held
  <2>1. Spoken(feed.queue)  BY DEF Whole
  <2>2. Will(feed.queue \o <<ev>>, T, t) <=> Puts(ev, t) \/ (Will(feed.queue, T, t) /\ ~Takes(ev, t))
    <3> HIDE DEF ev
    <3> QED  BY <1>14, <2>1, WillLast
  <2>3. ev.kind = "Release" /\ ev.seq = s  OBVIOUS
  <2>4. ~Puts(ev, t) /\ (Takes(ev, t) <=> t = s)  BY <2>3 DEF Puts, Takes
  <2>5. t \in DOMAIN n.held <=> t \in DOMAIN m.held /\ t # s  BY <1>5 DEF U!Without
  <2> QED  BY <1>15, <2>2, <2>4, <2>5
<1>16. n.theirs = mem[c].theirs  BY <1>5
<1>17. U!Tell(c, <<ev>>)  BY <1>2
<1> HIDE DEF ev, c
<1> QED  BY <1>3, <1>13, <1>14, <1>15, <1>16, <1>17, Loud

LEMMA BindFine == ASSUME Whole, NEW r \in Request, U!Bind(r) PROVE Fine
<1> DEFINE c == calls[r].core
           m == mem[c]
           p == [calls[r] EXCEPT !.hop = {}]
<1>1. /\ calls[r].status = "Open" /\ U!Alive(c)
      /\ calls' = [calls EXCEPT ![r] = p] /\ feed' = feed
      /\ now' = now /\ named' = named /\ phase' = phase /\ snap' = snap
  BY DEF U!Bind
<1>2. PICK s \in calls[r].hop : mem' = [mem EXCEPT ![c].held[s].request = {r}]
  BY DEF U!Bind
<1> DEFINE n == [m EXCEPT !.held[s].request = {r}]
<1>3. /\ c \in U!Core /\ Formed(m) /\ Owned(c, m, calls) /\ (c = "old" => phase # "Gone")
      /\ Asker(calls[r]) /\ DOMAIN mem = U!Core
  BY <1>1, Goes
<1>4. mem' = [mem EXCEPT ![c] = n]  BY <1>2, <1>3
<1>5. /\ p.core = c /\ p.status = "Open" /\ p.hop = {} /\ p.tries = calls[r].tries
      /\ DOMAIN p = {"core", "at", "status", "hop", "tries"}
  BY <1>1, <1>3 DEF Asker
<1> HIDE DEF p
<1>6. Asker(p)  BY <1>1, <1>3, <1>5 DEF Asker
<1>7. /\ DOMAIN calls' = Request /\ calls'[r] = p
      /\ \A x \in Request \ {r} : calls'[x] = calls[x]
      /\ \A x \in Request : Asker(calls'[x])
  BY <1>1, <1>6, Changes
<1>8. n.theirs = m.theirs /\ DOMAIN n.held = DOMAIN m.held  BY <1>3 DEF Formed, Fields
<1>9. n = [m EXCEPT !.held[s].request = {r}]  OBVIOUS
<1> HIDE DEF n, m
<1>10. Formed(n) /\ Owned(c, n, calls')
  <2> HIDE DEF c
  <2>1. calls[r].core = c  BY DEF c
  <2>2. /\ calls'[r].core = c /\ calls'[r].status = "Open" /\ calls'[r].hop = {}
        /\ calls'[r].tries = calls[r].tries
    BY <1>5, <1>7
  <2>3. calls[r].status = "Open" /\ s \in calls[r].hop  BY <1>1, <1>2
  <2>4. Formed(m) /\ Owned(c, m, calls)  BY <1>3
  <2>5. \A x \in Request \ {r} : calls'[x] = calls[x]  BY <1>7
  <2> QED  BY ONLY <1>9, <2>1, <2>2, <2>3, <2>4, <2>5, BindOwned
<1>11. Acts(c, n)  BY <1>1, <1>3, <1>4, <1>5, <1>7, <1>10 DEF Acts
<1> HIDE DEF c
<1> QED  BY <1>1, <1>3, <1>8, <1>11, Quiet DEF m

(* Only what is known of the requests changes. *)
LEMMA OnlyRequests ==
  ASSUME Whole, now' = now, named' = named, phase' = phase, snap' = snap, mem' = mem,
         feed' = feed, DOMAIN calls' = Request, \A r \in Request : Asker(calls'[r]),
         \A r \in Request : calls'[r].core = "new" => phase \in {"Draining", "Gone"},
         \A c \in U!Core : Owned(c, mem[c], calls) => Owned(c, mem[c], calls')
  PROVE  Fine
<1>1. Whole'  BY DEF Whole, U!Core
<1>2. ASSUME Trails PROVE Trails'  BY <1>2 DEF Trails
<1> QED  BY <1>1, <1>2 DEF Fine

LEMMA StartFine == ASSUME Whole, NEW r \in Request, U!Start(r) PROVE Fine
<1> DEFINE p == [calls[r] EXCEPT !.core = U!Serving, !.at = now, !.status = "Open"]
<1>1. /\ calls[r].status = "Idle" /\ calls' = [calls EXCEPT ![r] = p]
      /\ now' = now /\ named' = named /\ phase' = phase /\ snap' = snap /\ mem' = mem
      /\ feed' = feed
  BY DEF U!Start, Whole
<1>2. Asker(calls[r]) /\ calls[r].hop = {} /\ calls[r].tries = <<>>
  BY <1>1 DEF Whole, Asker
<1>3. U!Serving \in U!Core /\ (U!Serving = "new" => phase \in {"Draining", "Gone"})
  BY DEF U!Serving, U!Core, Whole, Phases
<1>4. /\ p.core = U!Serving /\ p.status = "Open" /\ p.hop = {} /\ p.tries = <<>>
      /\ DOMAIN p = {"core", "at", "status", "hop", "tries"}
  BY <1>2 DEF Asker
<1> HIDE DEF p
<1>5. Asker(p)
  <2>1. p.tries \in Seq(Try)  BY <1>4
  <2>2. p.core # "past"  BY <1>3, <1>4 DEF U!Core
  <2> QED  BY <1>3, <1>4, <2>1, <2>2 DEF Asker
<1>6. /\ DOMAIN calls' = Request /\ calls'[r] = p
      /\ \A x \in Request \ {r} : calls'[x] = calls[x]
      /\ \A x \in Request : Asker(calls'[x])
  BY <1>1, <1>5, Changes
<1>7. ASSUME NEW c \in U!Core, Owned(c, mem[c], calls) PROVE Owned(c, mem[c], calls')
  <2>1. Formed(mem[c])  BY DEF Whole
  <2> QED  BY <1>1, <1>2, <1>4, <1>6, <1>7, <2>1, StartOwned
<1>8. \A x \in Request : calls'[x].core = "new" => phase \in {"Draining", "Gone"}
  BY <1>3, <1>4, <1>6 DEF Whole
<1> QED  BY <1>1, <1>6, <1>7, <1>8, OnlyRequests

LEMMA EndFine == ASSUME Whole, NEW r \in Request, U!End(r) \/ U!Lose(r) PROVE Fine
<1> PICK new \in {"Ended", "Lost"} :
      /\ calls' = [calls EXCEPT ![r].status = new]
      /\ (calls[r].status = "Open" /\ calls[r].hop = {}) \/ calls[r].status = "Ended"
      /\ now' = now /\ named' = named /\ phase' = phase /\ snap' = snap /\ mem' = mem
      /\ feed' = feed
  BY DEF U!End, U!Lose
<1> DEFINE p == [calls[r] EXCEPT !.status = new]
<1>1. calls' = [calls EXCEPT ![r] = p]  BY DEF Whole
<1>2. Asker(calls[r])  BY DEF Whole
<1>3. /\ p.core = calls[r].core /\ p.status = new /\ p.hop = calls[r].hop
      /\ p.tries = calls[r].tries /\ DOMAIN p = {"core", "at", "status", "hop", "tries"}
  BY <1>2 DEF Asker
<1> HIDE DEF p
<1>4. Asker(p)  BY <1>2, <1>3 DEF Asker
<1>5. /\ DOMAIN calls' = Request /\ calls'[r] = p
      /\ \A x \in Request \ {r} : calls'[x] = calls[x]
      /\ \A x \in Request : Asker(calls'[x])
  BY <1>1, <1>4, Changes
<1>6. ASSUME NEW c \in U!Core, Owned(c, mem[c], calls) PROVE Owned(c, mem[c], calls')
  <2>1. CASE calls[r].core = c
    <3>1. Holder(mem[c], r, calls[r])  BY <1>6, <2>1 DEF Owned
    <3>2. calls[r].hop = {}  BY <3>1 DEF Holder
    <3> QED  BY <1>3, <1>5, <1>6, <3>2, EndOwned
  <2>2. CASE calls[r].core # c
    <3>1. \A x \in Request : calls'[x] = calls[x] \/ (calls[x].core # c /\ calls'[x].core # c)
      BY <1>3, <1>5, <2>2
    <3> QED  BY <1>6, <3>1, OwnedElse
  <2> QED  BY <2>1, <2>2
<1>7. \A x \in Request : calls'[x].core = "new" => phase \in {"Draining", "Gone"}
  BY <1>3, <1>5 DEF Whole
<1> QED  BY <1>5, <1>6, <1>7, OnlyRequests

LEMMA SettleFine == ASSUME Whole, NEW r \in Request, U!Settle(r) PROVE Fine
<1> DEFINE c == calls[r].core
           m == mem[c]
           S == U!Bound(m, r)
<1>1. /\ calls[r].status = "Ended" /\ U!Alive(c)
      /\ now' = now /\ named' = named /\ phase' = phase /\ snap' = snap
  BY DEF U!Settle
<1>2. /\ c \in U!Core /\ Formed(m) /\ Owned(c, m, calls) /\ (c = "old" => phase # "Gone")
      /\ Asker(calls[r]) /\ calls[r].tries \in Seq(Try)
  BY <1>1, Goes
<1> DEFINE blind == [i \in DOMAIN calls[r].tries |-> [calls[r].tries[i] EXCEPT !.kept = FALSE]]
<1>3. PICK tries \in {calls[r].tries, blind} :
        /\ mem' = [mem EXCEPT ![c] = U!Settled(m, S, calls[r].at, U!Names(tries), U!Served(tries))]
        /\ calls' = [calls EXCEPT ![r].status = "Recorded", ![r].tries = tries]
        /\ U!Tell(c, <<[kind |-> "Settle", seqs |-> S, at |-> calls[r].at,
                      names |-> U!Names(tries), served |-> U!Served(tries)]>>)
  BY DEF U!Settle
<1> DEFINE n == U!Settled(m, S, calls[r].at, U!Names(tries), U!Served(tries))
           ev == [kind |-> "Settle", seqs |-> S, at |-> calls[r].at,
                  names |-> U!Names(tries), served |-> U!Served(tries)]
           p == [calls[r] EXCEPT !.status = "Recorded", !.tries = tries]
<1>4. tries \in Seq(Try)
  <2>1. blind \in Seq(Try)
    <3> DEFINE t == calls[r].tries
    <3>1. DOMAIN t = 1 .. Len(t) /\ Len(t) \in Nat /\ \A i \in DOMAIN t : t[i] \in Try
      BY <1>2
    <3> HIDE DEF t
    <3>2. \A i \in DOMAIN t : [t[i] EXCEPT !.kept = FALSE] \in Try
      BY <3>1 DEF Try
    <3>3. [i \in DOMAIN t |-> [t[i] EXCEPT !.kept = FALSE]] \in [1 .. Len(t) -> Try]
      BY <3>1, <3>2
    <3>4. [i \in DOMAIN t |-> [t[i] EXCEPT !.kept = FALSE]] \in Seq(Try)
      BY <3>1, <3>3
    <3> QED  BY <3>4 DEF t
  <2> HIDE DEF blind
  <2> QED  BY <1>2, <1>3, <2>1
<1>5. DOMAIN m = Fields  BY <1>2 DEF Formed
<1>6. /\ DOMAIN n = Fields /\ n.seq = m.seq /\ n.theirs = m.theirs
      /\ n.held = U!Without(m.held, S)
  <2>1. Same([m EXCEPT !.held = U!Without(@, S)], n)  BY <1>5, SettledFacts
  <2> HIDE DEF n, m, S
  <2> QED  BY <1>5, <2>1 DEF Same, Fields
<1>7. Formed(n)
  <2> HIDE DEF n, m, S
  <2> QED  BY <1>2, <1>6, FormedLess
<1>8. calls' = [calls EXCEPT ![r] = p]  BY <1>3 DEF Whole
<1>9. mem' = [mem EXCEPT ![c] = n] /\ U!Tell(c, <<ev>>)  BY <1>3
<1>10. ev.kind = "Settle" /\ ev.seqs = S  OBVIOUS
<1> HIDE DEF n, ev
<1>11. /\ p.core = c /\ p.status = "Recorded" /\ p.hop = calls[r].hop /\ p.tries = tries
       /\ DOMAIN p = {"core", "at", "status", "hop", "tries"}
  BY <1>2 DEF Asker
<1> HIDE DEF p
<1>12. Asker(p)  BY <1>1, <1>2, <1>4, <1>11 DEF Asker
<1>13. /\ DOMAIN calls' = Request /\ calls'[r] = p
       /\ \A x \in Request \ {r} : calls'[x] = calls[x]
       /\ \A x \in Request : Asker(calls'[x])
  BY <1>8, <1>12, Changes
<1>14. Owned(c, n, calls')
  <2>1. calls[r].core = c /\ n.held = U!Without(m.held, U!Bound(m, r)) BY <1>6
  <2>2. /\ calls'[r].core = c /\ calls'[r].status = "Recorded" /\ calls'[r].hop = calls[r].hop
    BY <1>11, <1>13
  <2>3. \A x \in Request \ {r} : calls'[x] = calls[x]  BY <1>13
  <2> HIDE DEF m, c, S
  <2> QED  BY ONLY <1>1, <1>2, <1>6, <2>1, <2>2, <2>3, SettleOwned
<1>15. Acts(c, n)  BY <1>1, <1>2, <1>7, <1>9, <1>11, <1>13, <1>14 DEF Acts
<1>16. Event(ev) /\ Spoken(<<ev>>)
  <2>1. Event(ev)  BY <1>10 DEF Event
  <2> QED  BY <2>1, SaidOne
<1>17. ASSUME c = "old", NEW T, NEW t, Will(feed.queue, T, t) <=> t \in DOMAIN mem["old"].held
       PROVE  Will(feed.queue \o <<ev>>, T, t) <=> t \in DOMAIN n.held
  <2>1. Spoken(feed.queue)  BY DEF Whole
  <2>2. Will(feed.queue \o <<ev>>, T, t) <=> Puts(ev, t) \/ (Will(feed.queue, T, t) /\ ~Takes(ev, t))
    BY <1>16, <2>1, WillLast
  <2>3. ~Puts(ev, t) /\ (Takes(ev, t) <=> t \in S)  BY <1>10 DEF Puts, Takes
  <2>4. t \in DOMAIN n.held <=> t \in DOMAIN m.held /\ t \notin S  BY <1>6 DEF U!Without
  <2> QED  BY <1>17, <2>2, <2>3, <2>4
<1>18. n.theirs = mem[c].theirs  BY <1>6
<1> HIDE DEF c
<1> QED  BY <1>2, <1>9, <1>15, <1>16, <1>17, <1>18, Loud

-----------------------------------------------------------------------------
(* Looks at the limits *)

LEMMA LookFine == ASSUME Whole, NEW c \in U!Core, U!Look(c) PROVE Fine
<1> DEFINE m == mem[c]
           open == {r \in Request : calls[r].status = "Open" /\ calls[r].core = c}
           noted == U!Noted(m.held, open, now)
           stray == U!Stray(noted, now)
           swept == [m EXCEPT
                       !.held = U!Without(noted, stray),
                       !.books = [n \in DOMAIN @ |->
                                    [@[n] EXCEPT !.recent = IF n = named THEN U!Trimmed(@, now, W)
                                                            ELSE <<>>]]]
           k == U!WithAccount(swept, named, U!Rolled(U!Account(swept, named), U!Today))
           n == U!Asking(k, {named})
           drops == U!SetToSeq(stray)
           es == [i \in DOMAIN drops |-> [kind |-> "Drop", seq |-> drops[i]]]
<1>1. /\ U!Alive(c) /\ mem' = [mem EXCEPT ![c] = n] /\ U!Tell(c, es)
      /\ now' = now /\ named' = named /\ phase' = phase /\ snap' = snap /\ calls' = calls
  BY DEF U!Look
<1>2. Formed(m) /\ (c = "old" => phase # "Gone") /\ Owned(c, m, calls)
  BY <1>1 DEF Whole, U!Alive, U!OldAlive, U!Core
<1>3. DOMAIN m = Fields /\ m.seq \in Nat /\ DOMAIN m.held \subseteq 1 .. m.seq
  BY <1>2 DEF Formed
<1>4. /\ DOMAIN swept = Fields /\ swept.seq = m.seq /\ swept.theirs = m.theirs
      /\ swept.held = U!Without(noted, stray)
  <2> HIDE DEF m, noted, stray
  <2> QED  BY <1>3 DEF Fields
<1> HIDE DEF swept
<1>5. Same(swept, k)
  <2> DEFINE a == U!Rolled(U!Account(swept, named), U!Today)
  <2> HIDE DEF a
  <2>1. Same(swept, U!WithAccount(swept, named, a))  BY <1>4, WithAccountSame
  <2> QED  BY <2>1 DEF a
<1> HIDE DEF k
<1>6. Same(k, n)  BY <1>4, <1>5, AskingSame DEF Same
<1> HIDE DEF n
<1>7. /\ DOMAIN n = Fields /\ n.seq = m.seq /\ n.theirs = m.theirs
      /\ n.held = U!Without(noted, stray)
  BY <1>4, <1>5, <1>6 DEF Same
<1>8. noted = U!Noted(m.held, open, now) /\ stray = U!Stray(noted, now)  OBVIOUS
<1> HIDE DEF noted, stray, open, m
<1>9. /\ Formed(n) /\ stray \subseteq DOMAIN m.held
      /\ DOMAIN n.held = DOMAIN m.held \ stray
      /\ \A s \in DOMAIN n.held : n.held[s].request = m.held[s].request
      /\ \A s \in stray : ~(m.held[s].request \subseteq open)
  <2>1. stray = Swept(m, open)  BY <1>8 DEF Swept
  <2>2. Sweeps(m, n, open)  BY <1>7, <1>8, <2>1 DEF Sweeps
  <2> QED  BY <1>2, <2>1, <2>2, NotedFacts
<1>10. Owned(c, n, calls)
  <2>1. \A s \in stray \cap DOMAIN m.held :
          ~(m.held[s].request \subseteq {r \in Request : calls[r].status = "Open" /\ calls[r].core = c})
    BY <1>9 DEF open
  <2> QED  BY <1>2, <1>7, <1>9, <2>1, LookOwned
<1>11. Acts(c, n)
  <2>1. DOMAIN calls = Request /\ \A r \in Request : Asker(calls[r])  BY DEF Whole
  <2> QED  BY <1>1, <1>2, <1>9, <1>10, <2>1 DEF Acts
<1>12. /\ Spoken(es) /\ \A i \in DOMAIN es : es[i].kind = "Drop"
       /\ \A t : (\A i \in DOMAIN es : es[i].seq # t) <=> t \notin stray
  <2>1. IsFiniteSet(1 .. m.seq)  BY <1>3, FS_Interval
  <2>2. IsFiniteSet(stray)
    <3>1. stray \subseteq 1 .. m.seq  BY <1>3, <1>9
    <3> QED  BY <2>1, <3>1, FS_Subset
  <2> QED  BY <2>2, DropsFacts
<1> HIDE DEF es
<1>13. ASSUME c = "old", NEW T, NEW t, Will(feed.queue, T, t) <=> t \in DOMAIN mem["old"].held
       PROVE  Will(feed.queue \o es, T, t) <=> t \in DOMAIN n.held
  <2>1. Spoken(feed.queue)  BY DEF Whole
  <2>2. Will(feed.queue \o es, T, t) <=> Will(feed.queue, T, t) /\ \A i \in DOMAIN es : es[i].seq # t
    BY <1>12, <2>1, WillDrops
  <2>3. m = mem["old"]  BY <1>13 DEF m
  <2> QED  BY <1>9, <1>12, <1>13, <2>2, <2>3
<1>14. n.theirs = mem[c].theirs  BY <1>7 DEF m
<1> QED  BY <1>1, <1>11, <1>12, <1>13, <1>14, Loud

LEMMA RereadFine == ASSUME Whole, NEW c \in U!Core, U!Reread(c) PROVE Fine
<1> DEFINE m == mem[c]
<1>1. /\ U!Alive(c) /\ feed' = feed
      /\ now' = now /\ named' = named /\ phase' = phase /\ snap' = snap /\ calls' = calls
  BY DEF U!Reread
<1>2. PICK n : mem' = [mem EXCEPT ![c] = n] /\ Same(m, n)
  <2>1. DOMAIN m = Fields  BY DEF Whole, Formed
  <2>2. PICK ask \in m.asked :
          LET n == ask[1]
              done == [m EXCEPT !.asked = @ \ {ask}]
              a == U!Account(done, n)
          IN  mem' = [mem EXCEPT ![c] =
                IF \E p \in a.period : p.start = ask[2]
                THEN U!WithAccount(done, n,
                       [a EXCEPT !.period =
                          {[start |-> ask[2], sum |-> U!SumOf(U!Rows, {n}, ask[2])]}])
                ELSE done]
    BY DEF U!Reread
  <2> DEFINE n == ask[1]
             done == [m EXCEPT !.asked = @ \ {ask}]
             a == U!Account(done, n)
             b == [a EXCEPT !.period = {[start |-> ask[2], sum |-> U!SumOf(U!Rows, {n}, ask[2])]}]
  <2>3. \/ mem' = [mem EXCEPT ![c] = U!WithAccount(done, n, b)]
        \/ mem' = [mem EXCEPT ![c] = done]
    BY <2>2
  <2>4. Same(m, done)
    <3> HIDE DEF m
    <3> QED  BY <2>1 DEF Same, Fields
  <2> HIDE DEF done, b, n, m
  <2>5. DOMAIN done = Fields  BY <2>4 DEF Same
  <2>6. Same(done, U!WithAccount(done, n, b))  BY <2>5, WithAccountSame
  <2>7. Same(m, U!WithAccount(done, n, b))  BY <2>4, <2>6 DEF Same
  <2> QED  BY <2>3, <2>4, <2>7
<1>3. Formed(m) /\ (c = "old" => phase # "Gone") /\ Owned(c, m, calls)
  BY <1>1 DEF Whole, U!Alive, U!OldAlive, U!Core
<1> HIDE DEF m
<1>4. Formed(n)  BY <1>2, <1>3, FormedSame
<1>5. n.held = m.held /\ n.theirs = m.theirs  BY <1>2 DEF Same
<1>6. Owned(c, n, calls)  BY <1>3, <1>5, OwnedSame
<1>7. Acts(c, n)
  <2>1. DOMAIN calls = Request /\ \A r \in Request : Asker(calls[r])  BY DEF Whole
  <2> QED  BY <1>1, <1>2, <1>3, <1>4, <1>6, <2>1 DEF Acts
<1> QED  BY <1>1, <1>5, <1>7, Quiet DEF m

-----------------------------------------------------------------------------
(* The clock, the machine and its user *)

LEMMA TickFine == ASSUME Whole, U!Tick \/ U!Move PROVE Fine
<1>1. /\ now' \in Int /\ named' = named /\ phase' = phase /\ snap' = snap /\ mem' = mem
      /\ calls' = calls /\ feed' = feed
  BY DEF U!Tick, U!Move, Whole
<1>2. Whole'  BY <1>1 DEF Whole
<1>3. Trails => Trails'  BY <1>1 DEF Trails
<1> QED  BY <1>2, <1>3 DEF Fine

LEMMA RenameFine == ASSUME Whole, NEW name \in Name, U!Rename(name) PROVE Fine
<1> DEFINE m == mem["old"]
           h == [s \in DOMAIN m.held |->
                   IF m.held[s].name = named THEN [m.held[s] EXCEPT !.name = name] ELSE m.held[s]]
           b == IF named \in DOMAIN m.books
                THEN U!With(U!Without(m.books, {named}), name, m.books[named]) ELSE m.books
           n == [m EXCEPT !.books = b, !.held = h]
<1>1. /\ now' = now /\ named' = name /\ phase = "Alone" /\ phase' = phase /\ snap' = snap
      /\ calls' = calls /\ feed' = feed /\ mem' = [mem EXCEPT !["old"] = n]
  BY DEF U!Rename
<1>2. Formed(m) /\ Owned("old", m, calls)  BY <1>1 DEF Whole, U!Core
<1>3. DOMAIN n = Fields /\ n.seq = m.seq /\ n.theirs = m.theirs /\ n.held = h
  <2>1. DOMAIN m = Fields  BY <1>2 DEF Formed
  <2> HIDE DEF m, h, b
  <2> QED  BY <2>1 DEF Fields
<1> HIDE DEF n
<1>4. /\ DOMAIN n.held = DOMAIN m.held
      /\ \A s \in DOMAIN m.held :
           /\ n.held[s].request = m.held[s].request /\ n.held[s].closed = m.held[s].closed
           /\ DOMAIN n.held[s] = DOMAIN m.held[s]
  <2>1. DOMAIN h = DOMAIN m.held  OBVIOUS
  <2>2. ASSUME NEW s \in DOMAIN m.held
        PROVE  /\ h[s].request = m.held[s].request /\ h[s].closed = m.held[s].closed
               /\ DOMAIN h[s] = DOMAIN m.held[s]
    <3>1. DOMAIN m.held[s] = {"name", "at", "use", "request", "closed"}  BY <1>2 DEF Formed
    <3>2. h[s] = IF m.held[s].name = named THEN [m.held[s] EXCEPT !.name = name] ELSE m.held[s]
      OBVIOUS
    <3> HIDE DEF h, m
    <3> QED  BY <3>1, <3>2
  <2> HIDE DEF h, m
  <2> QED  BY <1>3, <2>1, <2>2
<1> HIDE DEF h, m, b
<1>5. Formed(n)  BY <1>2, <1>3, <1>4 DEF Formed
<1>6. Owned("old", n, calls)
  <2>1. \A r \in Request : U!Bound(n, r) = U!Bound(m, r)  BY <1>4 DEF U!Bound
  <2>2. \A r \in Request : calls[r].core = "old" => calls[r].hop \subseteq DOMAIN m.held \ Image(m.theirs)
    BY <1>2, HopIn
  <2> QED  BY <1>2, <1>3, <1>4, <2>1, <2>2, OwnedKept
<1>7. /\ DOMAIN mem' = U!Core /\ mem'["old"] = n /\ mem'["new"] = mem["new"]
  BY <1>1 DEF Whole, U!Core
<1>8. Whole'  BY <1>1, <1>5, <1>6, <1>7 DEF Whole, U!Core
<1>9. Trails'  BY <1>1 DEF Trails
<1> QED  BY <1>8, <1>9 DEF Fine

LEMMA FreshFacts ==
  ASSUME NEW b \in BOOLEAN
  PROVE  LET m == U!NewMemory(b)
         IN  /\ DOMAIN m = Fields /\ m.held = <<>> /\ m.theirs = <<>> /\ m.seq = 0
             /\ Formed(m)
<1> DEFINE m == U!NewMemory(b)
<1>1. DOMAIN m = Fields /\ m.held = <<>> /\ m.theirs = <<>> /\ m.seq = 0
  BY DEF U!NewMemory, Fields
<1>2. DOMAIN m.held = {} /\ DOMAIN m.theirs = {}  BY <1>1
<1>3. Image(m.theirs) = {}  BY <1>2 DEF Image
<1> HIDE DEF m
<1>4. Formed(m)  BY <1>1, <1>2, <1>3 DEF Formed
<1> QED  BY <1>1, <1>4 DEF m

LEMMA OwnedFresh ==
  ASSUME NEW c, NEW m, m.held = <<>>, NEW q,
         \A r \in Request : q[r].core = c => q[r].status = "Idle" /\ q[r].hop = {}
  PROVE  Owned(c, m, q)
<1>1. DOMAIN m.held = {}  OBVIOUS
<1>2. \A r \in Request : q[r].core = c => Holder(m, r, q[r])  BY DEF Holder
<1> QED  BY <1>1, <1>2 DEF Owned

LEMMA RestartFine == ASSUME Whole, U!Restart PROVE Fine
<1> DEFINE n == U!Rebuilt(U!NewMemory(TRUE), U!Rows)
<1>1. /\ now' = now /\ named' = named /\ phase = "Alone" /\ phase' = phase /\ snap' = snap
      /\ feed' = feed /\ mem' = [mem EXCEPT !["old"] = n]
      /\ calls' = [r \in Request |->
                   IF calls[r].status = "Idle" THEN calls[r]
                   ELSE [calls[r] EXCEPT !.core = "past", !.hop = {},
                                       !.status = IF @ = "Recorded" THEN @ ELSE "Lost"]]
  BY DEF U!Restart
<1>2. Same(U!NewMemory(TRUE), n) /\ Formed(U!NewMemory(TRUE)) /\ U!NewMemory(TRUE).held = <<>>
  BY FreshFacts, RebuiltSame
<1> HIDE DEF n
<1>3. Formed(n) /\ n.held = <<>>  BY <1>2, FormedSame DEF Same
<1>4. ASSUME NEW r \in Request
      PROVE  /\ Asker(calls'[r])
             /\ \/ calls'[r] = calls[r] /\ calls[r].status = "Idle" /\ calls[r].hop = {}
                \/ calls'[r].core = "past"
  <2>1. Asker(calls[r])  BY DEF Whole
  <2>2. CASE calls[r].status = "Idle"
    <3>1. calls'[r] = calls[r]  BY <1>1, <2>2
    <3> QED  BY <2>1, <2>2, <3>1 DEF Asker
  <2>3. CASE calls[r].status # "Idle"
    <3> DEFINE p == [calls[r] EXCEPT !.core = "past", !.hop = {},
                                   !.status = IF @ = "Recorded" THEN @ ELSE "Lost"]
    <3>1. calls'[r] = p  BY <1>1, <2>3
    <3>2. /\ DOMAIN p = DOMAIN calls[r] /\ p.core = "past" /\ p.hop = {} /\ p.tries = calls[r].tries
          /\ p.status \in {"Recorded", "Lost"}
      BY <2>1 DEF Asker
    <3> HIDE DEF p
    <3> QED  BY <2>1, <3>1, <3>2 DEF Asker
  <2> QED  BY <2>2, <2>3
<1>5. Owned("old", n, calls')
  <2>1. \A r \in Request : calls'[r].core = "old" => calls'[r].status = "Idle" /\ calls'[r].hop = {}
    BY <1>4
  <2> QED  BY <1>3, <2>1, OwnedFresh
<1>6. \A r \in Request : calls[r].core # "new"  BY <1>1 DEF Whole
<1>7. Owned("new", mem["new"], calls')
  <2>1. Owned("new", mem["new"], calls)  BY DEF Whole
  <2>2. \A r \in Request : calls'[r] = calls[r] \/ (calls[r].core # "new" /\ calls'[r].core # "new")
    BY <1>4, <1>6
  <2> QED  BY <2>1, <2>2, OwnedElse
<1>8. /\ DOMAIN mem' = U!Core /\ mem'["old"] = n /\ mem'["new"] = mem["new"]
  BY <1>1 DEF Whole, U!Core
<1>9. DOMAIN calls' = Request  BY <1>1
<1>10. \A r \in Request : calls'[r].core # "new"  BY <1>4, <1>6
<1>11. Whole'  BY <1>1, <1>3, <1>4, <1>5, <1>7, <1>8, <1>9, <1>10 DEF Whole, U!Core
<1>12. Trails'  BY <1>1 DEF Trails
<1> QED  BY <1>11, <1>12 DEF Fine

-----------------------------------------------------------------------------
(* The handover *)

LEMMA ExportFine == ASSUME Whole, U!Export PROVE Fine
<1> DEFINE m == mem["old"]
           H == {U!Wire(m, s) : s \in DOMAIN m.held}
<1>1. /\ now' = now /\ named' = named /\ phase = "Alone" /\ phase' = "Offered"
      /\ calls' = calls /\ mem' = mem
      /\ snap' = {[books |-> m.books, held |-> H]} /\ feed' = [U!NoFeed EXCEPT !.on = TRUE]
  BY DEF U!Export
<1>2. Formed(m)  BY DEF Whole, U!Core
<1>3. Wired(H)  BY <1>2, WireFacts
<1> HIDE DEF H, m
<1>4. \A s \in snap' : Wired(s.held)  BY <1>1, <1>3
<1>5. DOMAIN feed' = {"on", "queue", "draining", "lost", "missed"} /\ feed'.queue = <<>>
  BY <1>1 DEF U!NoFeed
<1>6. \A r \in Request : calls[r].core # "new"  BY <1>1 DEF Whole
<1>7. Whole'  BY <1>1, <1>4, <1>5, <1>6, SaidNothing DEF Whole, Phases
<1>8. Trails'  BY <1>1 DEF Trails
<1> QED  BY <1>7, <1>8 DEF Fine

LEMMA ImportFine == ASSUME Whole, U!Import PROVE Fine
<1> DEFINE m == mem["new"]
<1>1. /\ now' = now /\ named' = named /\ phase = "Offered" /\ phase' = "Imported"
      /\ calls' = calls /\ snap' = {} /\ feed' = feed
  BY DEF U!Import
<1>2. PICK s \in snap :
        LET present == DOMAIN m.books \cup DOMAIN s.books
            joined == [m EXCEPT !.books = [n \in present |->
                         IF n \in DOMAIN s.books THEN U!Joined(U!Account(m, n), s.books[n])
                         ELSE m.books[n]]]
        IN  mem' = [mem EXCEPT !["new"] = U!Phantoms(joined, s.held)]
  BY DEF U!Import
<1> DEFINE present == DOMAIN m.books \cup DOMAIN s.books
           b == [n \in present |->
                         IF n \in DOMAIN s.books THEN U!Joined(U!Account(m, n), s.books[n])
                         ELSE m.books[n]]
           joined == [m EXCEPT !.books = b]
           n == U!Phantoms(joined, s.held)
<1>3. mem' = [mem EXCEPT !["new"] = n]  BY <1>2
<1>4. Formed(m) /\ Owned("new", m, calls)  BY DEF Whole, U!Core
<1>5. Same(m, joined)
  <2>1. DOMAIN m = Fields  BY <1>4 DEF Formed
  <2> HIDE DEF m, b
  <2> QED  BY <2>1 DEF Same, Fields
<1> HIDE DEF joined, m
<1>6. Formed(joined)  BY <1>4, <1>5, FormedSame
<1>7. Owned("new", joined, calls)  BY <1>4, <1>5, OwnedSame DEF Same
<1>8. Wired(s.held)  BY DEF Whole
<1>9. Formed(n) /\ Owned("new", n, calls)
  BY <1>6, <1>7, <1>8, FormedPhantoms, OwnedPhantoms
<1> HIDE DEF n
<1>10. /\ DOMAIN mem' = U!Core /\ mem'["new"] = n /\ mem'["old"] = mem["old"]
  BY <1>3 DEF Whole, U!Core
<1>11. Whole'  BY <1>1, <1>9, <1>10 DEF Whole, U!Core, Phases
<1>12. Trails'  BY <1>1 DEF Trails
<1> QED  BY <1>11, <1>12 DEF Fine

LEMMA GiveUpFine == ASSUME Whole, U!GiveUp PROVE Fine
<1> DEFINE n == U!NewMemory(FALSE)
<1>1. /\ now' = now /\ named' = named /\ phase \in {"Offered", "Imported"} /\ phase' = "Alone"
      /\ calls' = calls /\ snap' = {} /\ feed' = U!NoFeed /\ mem' = [mem EXCEPT !["new"] = n]
  BY DEF U!GiveUp
<1>2. n.held = <<>> /\ Formed(n)  BY FreshFacts
<1> HIDE DEF n
<1>3. \A r \in Request : calls[r].core # "new"  BY <1>1 DEF Whole
<1>4. Owned("new", n, calls)  BY <1>2, <1>3, OwnedFresh
<1>5. /\ DOMAIN mem' = U!Core /\ mem'["new"] = n /\ mem'["old"] = mem["old"]
  BY <1>1 DEF Whole, U!Core
<1>6. DOMAIN feed' = {"on", "queue", "draining", "lost", "missed"} /\ feed'.queue = <<>>
  BY <1>1 DEF U!NoFeed
<1>7. Whole'  BY <1>1, <1>2, <1>3, <1>4, <1>5, <1>6, SaidNothing DEF Whole, U!Core, Phases
<1>8. Trails'  BY <1>1 DEF Trails
<1> QED  BY <1>7, <1>8 DEF Fine

(* The last that is said is which numbers there are. *)
LEMMA CommitFine == ASSUME Whole, U!Commit PROVE Fine
<1> DEFINE m == mem["old"]
           H == {U!Wire(m, s) : s \in DOMAIN m.held}
           q == IF feed.lost THEN <<>> ELSE feed.queue
           ev == [kind |-> "Holds", held |-> H]
<1>1. /\ now' = now /\ named' = named /\ phase = "Imported" /\ phase' = "Draining"
      /\ calls' = calls /\ mem' = mem /\ snap' = snap
      /\ feed' = [on |-> TRUE, draining |-> TRUE, lost |-> FALSE, missed |-> feed.lost,
                  queue |-> q \o <<ev>>]
  BY DEF U!Commit
<1>2. Formed(m)  BY DEF Whole, U!Core
<1>3. Wired(H) /\ {h.seq : h \in H} = DOMAIN m.held  BY <1>2, WireFacts
<1> HIDE DEF H, m
<1>4. Event(ev) /\ Spoken(<<ev>>)
  <2>1. Event(ev)  BY <1>3 DEF Event
  <2> QED  BY <2>1, SaidOne
<1>5. Spoken(q)  BY SaidNothing DEF Whole
<1>6. \A t : (Puts(ev, t) <=> t \in DOMAIN m.held) /\ (Takes(ev, t) <=> t \notin DOMAIN m.held)
  BY <1>3 DEF Puts, Takes
<1> HIDE DEF q, ev
<1>7. /\ DOMAIN feed' = {"on", "queue", "draining", "lost", "missed"}
      /\ feed'.queue = q \o <<ev>> /\ feed'.on /\ feed'.draining /\ ~feed'.lost
  BY <1>1
<1>8. Spoken(feed'.queue)  BY <1>4, <1>5, <1>7, SaidJoined
<1>9. \A r \in Request : calls[r].core # "new"  BY <1>1 DEF Whole
<1>10. Whole'  BY <1>1, <1>7, <1>8, <1>9 DEF Whole, Phases
<1>11. Trails'
  <2> SUFFICES ASSUME NEW t
               PROVE  Will(feed'.queue, DOMAIN mem'["new"].theirs, t) <=> t \in DOMAIN mem'["old"].held
    BY DEF Trails
  <2> DEFINE T == DOMAIN mem["new"].theirs
  <2>1. Will(q \o <<ev>>, T, t) <=> Puts(ev, t) \/ (Will(q, T, t) /\ ~Takes(ev, t))
    <3> HIDE DEF T
    <3> QED  BY <1>4, <1>5, WillLast
  <2> QED  BY <1>1, <1>6, <1>7, <2>1 DEF m
<1> QED  BY <1>10, <1>11 DEF Fine

LEMMA HearFine == ASSUME Whole, U!Hear PROVE Fine
<1> DEFINE m == mem["new"]
           ev == Head(feed.queue)
           n == U!Heard(m, ev)
<1>1. /\ now' = now /\ named' = named /\ phase' = phase /\ snap' = snap /\ calls' = calls
      /\ feed.queue # <<>> /\ feed' = [feed EXCEPT !.queue = Tail(@)]
      /\ mem' = [mem EXCEPT !["new"] = n]
  BY DEF U!Hear
<1>2. Formed(m) /\ Owned("new", m, calls) /\ Spoken(feed.queue)  BY DEF Whole, U!Core
<1>3. Spoken(Tail(feed.queue)) /\ Event(ev)  BY <1>1, <1>2, SaidTail
<1> HIDE DEF ev, m
<1>4. /\ Formed(n) /\ Owned("new", n, calls)
      /\ \A t : t \in DOMAIN n.theirs <=>
                 Puts(ev, t) \/ (t \in DOMAIN m.theirs /\ ~Takes(ev, t))
  BY <1>2, <1>3, HeardFacts
<1> HIDE DEF n
<1>5. /\ DOMAIN mem' = U!Core /\ mem'["new"] = n /\ mem'["old"] = mem["old"]
  BY <1>1 DEF Whole, U!Core
<1>6. DOMAIN feed = {"on", "queue", "draining", "lost", "missed"}  BY DEF Whole
<1>7. /\ DOMAIN feed' = {"on", "queue", "draining", "lost", "missed"}
      /\ feed'.queue = Tail(feed.queue)
      /\ feed'.on = feed.on /\ feed'.draining = feed.draining /\ feed'.lost = feed.lost
  BY <1>1, <1>6
<1>8. Whole'  BY <1>1, <1>3, <1>4, <1>5, <1>7 DEF Whole, U!Core
<1>9. ASSUME Trails PROVE Trails'
  <2> SUFFICES ASSUME phase = "Draining", NEW t
               PROVE  Will(feed'.queue, DOMAIN mem'["new"].theirs, t) <=> t \in DOMAIN mem'["old"].held
    BY <1>1 DEF Trails
  <2>1. Will(feed.queue, DOMAIN m.theirs, t) <=> t \in DOMAIN mem["old"].held
    BY <1>9 DEF Trails, m
  <2>2. t \in DOMAIN n.theirs <=>
          Puts(Head(feed.queue), t) \/ (t \in DOMAIN m.theirs /\ ~Takes(Head(feed.queue), t))
    BY <1>4 DEF ev
  <2> DEFINE T == DOMAIN m.theirs
             S == DOMAIN n.theirs
  <2>3. Will(feed.queue, T, t) <=> Will(Tail(feed.queue), S, t)
    <3>1. t \in S <=> Puts(Head(feed.queue), t) \/ (t \in T /\ ~Takes(Head(feed.queue), t))
      BY <2>2
    <3> HIDE DEF T, S
    <3> QED  BY <1>1, <1>2, <3>1, WillFirst
  <2> QED  BY <1>5, <1>7, <2>1, <2>3
<1> QED  BY <1>8, <1>9 DEF Fine

LEMMA LeaveFine == ASSUME Whole, U!Leave PROVE Fine
<1>1. /\ now' = now /\ named' = named /\ phase' = "Gone" /\ snap' = snap /\ mem' = mem
      /\ calls' = [r \in Request |->
                   IF calls[r].core = "old" /\ calls[r].status \in {"Open", "Ended"}
                   THEN [calls[r] EXCEPT !.status = "Lost", !.hop = {}] ELSE calls[r]]
  BY DEF U!Leave
<1>2. PICK sent \in {0, Len(feed.queue)} :
        feed' = [U!NoFeed EXCEPT !.queue = SubSeq(feed.queue, 1, sent),
                               !.missed = feed.missed \/ sent < Len(feed.queue)]
  BY DEF U!Leave
<1>3. /\ DOMAIN feed' = {"on", "queue", "draining", "lost", "missed"}
      /\ feed'.queue = SubSeq(feed.queue, 1, sent)
  BY <1>2 DEF U!NoFeed
<1>4. Spoken(feed'.queue)
  <2>1. Spoken(feed.queue)  BY DEF Whole
  <2>2. Len(feed.queue) \in Nat  BY <2>1, SaidLen
  <2>3. sent \in Nat /\ ~(sent > Len(feed.queue))  BY <2>2
  <2> QED  BY <1>3, <2>1, <2>3, SaidFirst
<1>5. ASSUME NEW r \in Request
      PROVE  /\ Asker(calls'[r]) /\ calls'[r].core = calls[r].core
             /\ calls'[r] = calls[r] \/ calls[r].core = "old"
  <2>1. Asker(calls[r])  BY DEF Whole
  <2>2. CASE calls[r].core = "old" /\ calls[r].status \in {"Open", "Ended"}
    <3> DEFINE p == [calls[r] EXCEPT !.status = "Lost", !.hop = {}]
    <3>1. calls'[r] = p  BY <1>1, <2>2
    <3>2. /\ DOMAIN p = DOMAIN calls[r] /\ p.core = calls[r].core /\ p.hop = {}
          /\ p.tries = calls[r].tries /\ p.status = "Lost"
      BY <2>1 DEF Asker
    <3> HIDE DEF p
    <3> QED  BY <2>1, <2>2, <3>1, <3>2 DEF Asker
  <2>3. CASE ~(calls[r].core = "old" /\ calls[r].status \in {"Open", "Ended"})
    BY <1>1, <2>1, <2>3
  <2> QED  BY <2>2, <2>3
<1>6. Owned("new", mem["new"], calls')
  <2>1. Owned("new", mem["new"], calls)  BY DEF Whole
  <2>2. \A r \in Request : calls'[r] = calls[r] \/ (calls[r].core # "new" /\ calls'[r].core # "new")
    BY <1>5
  <2> QED  BY <2>1, <2>2, OwnedElse
<1>7. DOMAIN calls' = Request  BY <1>1
<1>8. Whole'  BY <1>1, <1>3, <1>4, <1>5, <1>6, <1>7 DEF Whole, Phases
<1>9. Trails'  BY <1>1 DEF Trails
<1> QED  BY <1>8, <1>9 DEF Fine

(* Of the two memories only the new one changes, and the old core is gone  *)
(* or the numbers from it stay.                                            *)
LEMMA OnlyNew ==
  ASSUME Whole, now' = now, named' = named, phase' = phase, snap' = snap, calls' = calls,
         feed' = feed, NEW n, mem' = [mem EXCEPT !["new"] = n], Formed(n),
         Owned("new", n, calls), phase = "Gone" \/ n.theirs = mem["new"].theirs
  PROVE  Fine
<1>1. /\ DOMAIN mem' = U!Core /\ mem'["new"] = n /\ mem'["old"] = mem["old"]
  BY DEF Whole, U!Core
<1>2. Whole'  BY <1>1 DEF Whole, U!Core
<1>3. ASSUME Trails PROVE Trails'  BY <1>1, <1>3 DEF Trails
<1> QED  BY <1>2, <1>3 DEF Fine

LEMMA LetGoFine == ASSUME Whole, U!LetGo PROVE Fine
<1> DEFINE m == mem["new"]
           T == DOMAIN m.theirs
           n == U!Dropped(m, T)
<1>1. /\ now' = now /\ named' = named /\ phase = "Gone" /\ phase' = phase /\ snap' = snap
      /\ calls' = calls /\ feed' = feed /\ mem' = [mem EXCEPT !["new"] = n]
  BY DEF U!LetGo
<1>2. Formed(m) /\ Owned("new", m, calls)  BY DEF Whole, U!Core
<1>3. DOMAIN m = Fields  BY <1>2 DEF Formed
<1> HIDE DEF T, m
<1>4. Forgot(m, n, T)  BY <1>3, DroppedFacts
<1> HIDE DEF n
<1>5. Formed(n) /\ Owned("new", n, calls)  BY <1>2, <1>4, ForgotFacts
<1> QED  BY <1>1, <1>5, OnlyNew

LEMMA OpenFine == ASSUME Whole, U!Open \/ U!Follow PROVE Fine
<1> DEFINE m == mem["new"]
<1>1. /\ now' = now /\ named' = named /\ phase' = phase /\ snap' = snap
      /\ calls' = calls /\ feed' = feed
  BY DEF U!Open, U!Follow
<1>2. Formed(m) /\ Owned("new", m, calls)  BY DEF Whole, U!Core
<1>3. DOMAIN m = Fields  BY <1>2 DEF Formed
<1>4. PICK n : mem' = [mem EXCEPT !["new"] = n] /\ Same(m, n)
  <2>1. CASE U!Open
    <3> DEFINE S == {r \in Request : calls[r].status = "Recorded"}
    <3>1. mem' = [mem EXCEPT !["new"] = U!Rebuilt(m, S)]  BY <2>1 DEF U!Open
    <3> HIDE DEF S, m
    <3>2. Same(m, U!Rebuilt(m, S))  BY <1>3, RebuiltSame
    <3> QED  BY <3>1, <3>2
  <2>2. CASE U!Follow
    <3> DEFINE n == [m EXCEPT !.follows = TRUE]
    <3>1. mem' = [mem EXCEPT !["new"] = n]
      <4>1. mem' = [mem EXCEPT !["new"].follows = TRUE] /\ DOMAIN mem = U!Core
        BY <2>2 DEF U!Follow, Whole
      <4> QED  BY <4>1 DEF U!Core
    <3>2. Same(m, n)
      <4> HIDE DEF m
      <4> QED  BY <1>3 DEF Same, Fields
    <3> HIDE DEF n
    <3> QED  BY <3>1, <3>2
  <2> QED  BY <2>1, <2>2
<1> HIDE DEF m
<1>5. Formed(n) /\ Owned("new", n, calls) /\ n.theirs = m.theirs
  BY <1>2, <1>4, FormedSame, OwnedSame DEF Same
<1> QED  BY <1>1, <1>4, <1>5, OnlyNew DEF m

-----------------------------------------------------------------------------
(* From the start and at every step *)

LEMMA AtFirst == ASSUME U!UsageAssumption, U!TallyAssumption, U!Init PROVE Whole /\ Trails
<1>1. /\ named \in Name /\ phase = "Alone" /\ snap = {} /\ feed = U!NoFeed
      /\ calls = [r \in Request |->
              [core |-> "old", at |-> 0, status |-> "Idle", hop |-> {}, tries |-> <<>>]]
      /\ mem = [c \in U!Core |-> U!NewMemory(c = "old")]
  BY DEF U!Init, U!UsageAssumption
<1>2. now \in Int
  <2>1. D \in Int /\ MaxTime \in Int  BY DEF U!TallyAssumption, U!UsageAssumption
  <2> QED  BY <2>1 DEF U!Init, U!Moments
<1>3. \A c \in U!Core : Formed(mem[c]) /\ mem[c].held = <<>>
  BY <1>1, FreshFacts
<1>4. ASSUME NEW r \in Request
      PROVE  Asker(calls[r]) /\ calls[r].core = "old" /\ calls[r].status = "Idle" /\ calls[r].hop = {}
  <2> DEFINE q == [core |-> "old", at |-> 0, status |-> "Idle", hop |-> {}, tries |-> <<>>]
  <2>1. calls[r] = q  BY <1>1
  <2>2. /\ DOMAIN q = {"core", "at", "status", "hop", "tries"} /\ q.core = "old"
        /\ q.status = "Idle" /\ q.hop = {} /\ q.tries = <<>>
    OBVIOUS
  <2>3. q.tries \in Seq(Try)  BY <2>2
  <2> HIDE DEF q
  <2> QED  BY <2>1, <2>2, <2>3 DEF Asker, U!Core
<1>5. \A c \in U!Core : Owned(c, mem[c], calls)  BY <1>3, <1>4, OwnedFresh
<1>6. DOMAIN calls = Request /\ DOMAIN mem = U!Core  BY <1>1
<1>7. DOMAIN feed = {"on", "queue", "draining", "lost", "missed"} /\ feed.queue = <<>>
  BY <1>1 DEF U!NoFeed
<1>8. Whole
  <2>1. PendingMax \in Nat  BY DEF U!UsageAssumption
  <2> QED  BY <2>1, <1>1, <1>2, <1>3, <1>4, <1>5, <1>6, <1>7, SaidNothing DEF Whole, Phases, U!Core
<1>9. Trails  BY <1>1 DEF Trails
<1> QED  BY <1>8, <1>9

LEMMA EachStep == ASSUME Whole, [U!Next]_(U!vars) PROVE Fine
<1>1. CASE U!vars' = U!vars
  <2>1. /\ now' = now /\ named' = named /\ phase' = phase /\ snap' = snap /\ mem' = mem
        /\ feed' = feed /\ calls' = calls
    BY <1>1 DEF U!vars
  <2> QED  BY <2>1, OnlyRequests DEF Whole
<1>2. CASE \E r \in Request : \/ U!Start(r) \/ U!Reserve(r) \/ U!Release(r) \/ U!Bind(r)
                              \/ U!End(r) \/ U!Settle(r) \/ U!Lose(r)
  BY <1>2, StartFine, ReserveFine, ReleaseFine, BindFine, EndFine, SettleFine
<1>3. CASE \E c \in U!Core : U!Look(c) \/ U!Reread(c)  BY <1>3, LookFine, RereadFine
<1>4. CASE \E n \in Name : U!Rename(n)  BY <1>4, RenameFine
<1>5. CASE U!Tick \/ U!Move  BY <1>5, TickFine
<1>6. CASE U!Restart  BY <1>6, RestartFine
<1>7. CASE U!Export  BY <1>7, ExportFine
<1>8. CASE U!Import  BY <1>8, ImportFine
<1>9. CASE U!GiveUp  BY <1>9, GiveUpFine
<1>10. CASE U!Commit  BY <1>10, CommitFine
<1>11. CASE U!Hear  BY <1>11, HearFine
<1>12. CASE U!Leave  BY <1>12, LeaveFine
<1>13. CASE U!LetGo  BY <1>13, LetGoFine
<1>14. CASE U!Open \/ U!Follow  BY <1>14, OpenFine
<1> QED  BY <1>1, <1>2, <1>3, <1>4, <1>5, <1>6, <1>7, <1>8, <1>9, <1>10, <1>11, <1>12,
            <1>13, <1>14 DEF U!Next

LEMMA SoOwners == ASSUME Whole, Trails PROVE U!ReservationsHaveOwners
<1>1. ASSUME NEW c \in U!Core, U!Alive(c)
      PROVE  LET m == mem[c]
                 mine == DOMAIN m.held \ {m.theirs[t] : t \in DOMAIN m.theirs}
             IN  /\ \A s \in mine : \E r \in Request :
                      /\ calls[r].core = c
                      /\ \/ s \in calls[r].hop /\ m.held[s].request = {}
                         \/ m.held[s].request = {r} /\ calls[r].status # "Recorded"
                 /\ \A r \in Request : calls[r].core = c /\ calls[r].status = "Open" =>
                      U!Cardinality(U!Bound(m, r) \cup calls[r].hop)
                        = U!Cardinality(U!Counting(calls[r].tries))
  <2> DEFINE m == mem[c]
  <2>1. Owned(c, m, calls)  BY <1>1 DEF Whole, U!Alive, U!OldAlive, U!Core
  <2>2. \A r \in Request : calls[r].core = c => Holder(m, r, calls[r])  BY <2>1 DEF Owned
  <2>3. \A s \in DOMAIN m.held \ Image(m.theirs) :
          \E r \in Request : calls[r].core = c /\ Owner(m, s, r, calls[r])
    BY <2>1 DEF Owned
  <2>4. Image(m.theirs) = {m.theirs[t] : t \in DOMAIN m.theirs}  BY DEF Image
  <2> HIDE DEF m
  <2>5. \A s \in DOMAIN m.held \ {m.theirs[t] : t \in DOMAIN m.theirs} : \E r \in Request :
          /\ calls[r].core = c
          /\ \/ s \in calls[r].hop /\ m.held[s].request = {}
             \/ m.held[s].request = {r} /\ calls[r].status # "Recorded"
    BY <2>3, <2>4 DEF Owner
  <2>6. \A r \in Request : calls[r].core = c /\ calls[r].status = "Open" =>
          U!Cardinality(U!Bound(m, r) \cup calls[r].hop)
            = U!Cardinality(U!Counting(calls[r].tries))
    BY <2>2, SameNumber DEF Holder
  <2> QED  BY <2>5, <2>6 DEF m
<1>2. ASSUME phase = "Draining", feed.queue = <<>>
      PROVE  DOMAIN mem["new"].theirs = DOMAIN mem["old"].held
  <2>1. \A t : t \in DOMAIN mem["new"].theirs <=> t \in DOMAIN mem["old"].held
    BY <1>2, WillEmpty DEF Trails
  <2> QED  BY <2>1
<1> QED  BY <1>1, <1>2 DEF U!ReservationsHaveOwners

(* No reservation of upstream_limits.rs outlives its row and none is       *)
(* missing while its request runs, in either core; and the new core holds  *)
(* those of the old one once it has heard everything that it was told      *)
(* (handover_apply), however requests end, rows are late, blind or lost,   *)
(* looks sweep, cores restart and the feed overflows.                      *)
THEOREM ReservationsAreOwned ==
  ASSUME U!UsageAssumption, U!TallyAssumption
  PROVE  U!Spec => []U!ReservationsHaveOwners
<1>1. U!Init => Whole /\ Trails  BY AtFirst
<1>2. Whole /\ Trails /\ [U!Next]_(U!vars) => (Whole /\ Trails)'
  <2> SUFFICES ASSUME Whole, Trails, [U!Next]_(U!vars) PROVE (Whole /\ Trails)'
    OBVIOUS
  <2>1. Fine  BY EachStep
  <2> QED  BY <2>1 DEF Fine
<1>3. Whole /\ Trails => U!ReservationsHaveOwners  BY SoOwners
<1> QED  BY <1>1, <1>2, <1>3, PTL DEF U!Spec
=============================================================================
