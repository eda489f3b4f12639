---------------------------- MODULE TokensProofs ----------------------------
(***************************************************************************)
(* Proofs about Tokens: for any requests and number of tokens and any      *)
(* troubles but those that Patient rules out,                              *)
(*   NothingUnwritten  a refresh token newer than that of the file is on   *)
(*                     its way there, or shows as not written;             *)
(*   RenewedWhenDue    a token is renewed when it is due or was refused;   *)
(* and, where the assumption is stronger (Careful, Unmixed),               *)
(*   OnlyTheNewest     the refresh token that is presented is the newest;  *)
(*   RightLogin        a new login is not taken for the one before it.     *)
(*                                                                         *)
(* A handover decides who may do what: of the two cores one alone has an   *)
(* exchange or something to write at a time (Order), a request is where    *)
(* its core lets it be (Callers), and what anybody has was issued (Issued, *)
(* Had).  The rest says how a renewed token goes round.  While it is on    *)
(* its way to the file nobody renews it again, and all have the login it   *)
(* came from (Queued); when it is there, whoever has not read it yet finds *)
(* it in the cache (Lagging).  A cache is for the file as it is, or from a *)
(* login before it (Ours), and in that case the file is what everybody has *)
(* read (Strangers).  A refresh token that is newer than the file is       *)
(* looked after by one core (Covered), also while it is presented          *)
(* (Asking).  An exchange that failed was due (Causes), the token of a     *)
(* request is in use, or something newer is (Sent), and a successor takes  *)
(* over what its predecessor uses (Taking).                                *)
(*                                                                         *)
(* For the last two properties the order of issue has to be followed       *)
(* (Succession).  What the endpoint issues last is handed on to the cache  *)
(* that asked for it, so no cache is behind the file, and the one that may *)
(* renew has the newest.                                                   *)
(***************************************************************************)
EXTENDS Tokens, TLAPS

(* No core gives up waiting for its predecessor or takes over before it    *)
(* has read the file again, and no request outlives the tokens of its      *)
(* time.                                                                   *)
Patient == \A w \in Worlds : "slow" \notin w /\ "behind" \notin w /\ "long" \notin w

-----------------------------------------------------------------------------
(* The inductive invariant *)

Numbers == 0..MaxTokens
Configs == [refresh : Numbers, access : Numbers]
Entries == [fp : Numbers, access : Numbers, refresh : Numbers,
            own : BOOLEAN, now : BOOLEAN, failed : {"no", "wait", "over"}]
Calls   == [pc : {"idle", "starts", "waits", "asks", "told", "sent", "again"},
            core : Cores, cfg : Configs, token : Numbers, mark : Numbers,
            old : Numbers, ask : Numbers, got : Numbers, rotated : BOOLEAN]
Stages  == {"alone", "asked", "started", "paused", "yielded", "adopted",
            "committed", "drained"}

Shape ==
  /\ world \in Worlds
  /\ issued \in Tokens /\ signedIn \in Tokens
  /\ age \in [Tokens -> {"young", "good", "late"}]
  /\ file \in Configs /\ cfg \in [Cores -> Configs]
  /\ live \in [Cores -> Entries]
  /\ flight \in [Cores -> SUBSET Requests] /\ held \in [Cores -> BOOLEAN]
  /\ queue \in [Cores -> {<<>>} \cup {<<new>> : new \in Configs}]
  /\ writes \in [Cores -> BOOLEAN] /\ told \in [Cores -> BOOLEAN]
  /\ stage \in Stages /\ snapshot \in [by : Configs, live : Entries]
  /\ req \in [Requests -> Calls]

At(r, c)  == Active(r) /\ req[r].core = c
Flying(r) == req[r].pc \in {"asks", "told"}
First(r)  == req[r].pc = "sent" /\ req[r].old = 0

(* Who may do what at which stage of a handover. *)
Order ==
  /\ "slow" \notin world /\ "behind" \notin world /\ "long" \notin world
  /\ stage \in {"alone", "asked"} => live[2] = None
  /\ stage \notin {"asked", "yielded"} => snapshot = NoSnapshot
  /\ stage \in {"started", "paused", "yielded", "adopted"} => held[2]
  /\ stage \in {"paused", "yielded", "adopted", "committed", "drained"} => held[1]
  /\ flight[1] # {} \/ queue[1] # <<>> => stage \in {"alone", "asked", "started", "paused"}
  /\ flight[2] # {} => stage \in {"committed", "drained"}
  /\ writes[2] \/ queue[2] # <<>> => stage = "drained"

Calling(r) ==
  /\ ~Active(r) => req[r] = Idle
  /\ At(r, 2) => Accepts(2)
  /\ Flying(r) => flight[req[r].core] = {r}
  /\ req[r].pc \in {"starts", "waits"} => req[r].old = 0
  /\ req[r].pc = "again" => req[r].old # 0
  /\ First(r) => req[r].token # 0
Callers == \A r \in Requests : Calling(r)

(* What is in use was issued; the file has the newest of its login.        *)
Issued ==
  /\ signedIn <= file.refresh /\ file.refresh <= issued /\ file.access <= issued
  /\ \A c \in Cores : /\ cfg[c].refresh <= file.refresh /\ cfg[c].access <= issued
                      /\ live[c].refresh <= issued /\ live[c].access <= issued
  /\ snapshot.live.refresh <= issued /\ snapshot.live.access <= issued

(* What a request has was issued; what it was told is newer than all else. *)
Having(r) ==
  /\ req[r].cfg.refresh <= file.refresh /\ req[r].cfg.access <= issued
  /\ req[r].ask <= issued /\ req[r].mark <= issued
  /\ req[r].pc = "told" =>
       /\ req[r].got = issued /\ age[issued] = "young"
       /\ file.refresh < issued /\ file.access < issued
       /\ \A c \in Cores : live[c].refresh < issued /\ cfg[c].access < issued
       /\ snapshot.live.refresh < issued
Had == \A r \in Requests : Having(r)

(* The file, the configuration in force and those of all requests have the *)
(* same refresh token.                                                     *)
Same(c) ==
  /\ cfg[c].refresh = file.refresh
  /\ \A r \in Requests : At(r, c) => req[r].cfg.refresh = file.refresh

(* A token was renewed just now: nobody renews it again. *)
Fresh(l) == l.own /\ l.access # 0 /\ age[l.access] = "young" /\ l.failed = "no" /\ ~l.now

(* What is on its way to the file is what the core uses. *)
Sending(c, new) ==
  /\ Same(c) /\ Fresh(live[c]) /\ live[c].fp = file.refresh /\ flight[c] = {}
  /\ new.access = live[c].access /\ new.refresh \in {0, live[c].refresh}
  /\ file.access < new.access /\ \A d \in Cores : cfg[d].access < new.access
  /\ new.refresh # 0 =>
       /\ file.refresh < new.refresh
       /\ \A d \in Cores : live[d].refresh <= new.refresh
       /\ snapshot.live.refresh <= new.refresh
Queued == \A c \in Cores, new \in Configs : queue[c] = <<new>> => Sending(c, new)

(* What was written back has not been read again by all. *)
Behind(c) ==
  /\ Fresh(live[c]) /\ live[c].refresh = file.refresh /\ flight[c] = {} /\ queue[c] = <<>>
  /\ UsableFor(live[c], cfg[c])
  /\ \A r \in Requests : At(r, c) => UsableFor(live[c], req[r].cfg)
Lagging == \A c \in Cores : Accepts(c) => Same(c) \/ Behind(c)

(* What a core uses is for the file as it is, unless it is from a login    *)
(* before it.                                                              *)
Ours ==
  \A c \in Cores : Accepts(c) =>
    live[c] = None \/ live[c].refresh < signedIn \/ UsableFor(live[c], file)

(* As long as it is not, nothing has happened to the file. *)
Strange(c) ==
  /\ queue[c] = <<>> /\ cfg[c] = file
  /\ \A r \in Requests : At(r, c) => req[r].cfg = file
Strangers == \A c \in Cores : Accepts(c) => UsableFor(live[c], file) \/ Strange(c)

(* A refresh token is in the file, or core c has it on its way there or    *)
(* shows that it is not written.                                           *)
Safe(n, c) ==
  n <= file.refresh \/ told[c] \/ \E new \in Configs : queue[c] = <<new>> /\ n <= new.refresh
Covered ==
  /\ Safe(live[1].refresh, 1) /\ Safe(snapshot.live.refresh, 1)
  /\ Safe(live[2].refresh, 1) \/ Safe(live[2].refresh, 2)

Spent(l) == l.access = 0 \/ Due(l)

(* While a token is renewed nobody finds one, and the refresh token that   *)
(* is used up for it is safe.                                              *)
Presenting(r) ==
  \A c \in Cores : Flying(r) /\ req[r].core = c =>
    /\ Safe(req[r].ask, 1) \/ (c = 2 /\ Safe(req[r].ask, 2))
    /\ IF UsableFor(live[c], file) THEN Spent(live[c])
       ELSE file.access = 0 \/ age[file.access] = "late"
Asking == \A r \in Requests : Presenting(r)

Excused(l) == Spent(l) \/ l.refresh < signedIn

(* An exchange fails only if it was due. *)
Causes ==
  /\ \A c \in Cores : live[c].failed # "no" => Excused(live[c])
  /\ snapshot.live.failed # "no" => Excused(snapshot.live)

Went(r)  == IF First(r) THEN req[r].token ELSE req[r].old

(* The token that a request went with is the one that its core has, or was *)
(* renewed after it went.                                                  *)
Stands(l, t, m) ==
  IF UsableFor(l, file) THEN l.access = t \/ Excused(l) \/ (l.own /\ m < l.access)
  ELSE t = file.access /\ age[t] = "late"
Gone(r) == First(r) \/ req[r].pc = "again"
Going(r) ==
  \A c \in Cores : Gone(r) /\ req[r].core = c /\ Accepts(c) =>
    /\ Stands(live[c], Went(r), req[r].mark)
    /\ \A q \in Requests : req[q].pc = "told" /\ req[q].core = c => req[r].mark < issued
Sent == \A r \in Requests : Going(r)

(* What a successor takes over is what its predecessor uses. *)
Matches(k) == snapshot.by.refresh = k.refresh \/ snapshot.live.refresh = k.refresh
NewLogin(l) == l # None /\ signedIn <= l.refresh
Taking ==
  /\ stage = "asked" /\ NewLogin(snapshot.live) => UsableFor(live[1], file)
  /\ stage \in {"started", "paused"} /\ NewLogin(live[2]) => UsableFor(live[1], file)
  /\ stage = "yielded" /\ NewLogin(live[2]) => snapshot.live # None /\ Matches(file)

IInv == /\ Shape /\ Order /\ Callers /\ Issued /\ Had /\ Queued /\ Lagging /\ Ours
        /\ Strangers /\ Covered /\ Asking /\ Causes /\ Sent /\ Taking

-----------------------------------------------------------------------------
USE TokensAssumption DEF tokens, cores, back, handover, Others, Cores, Tokens

LEMMA OneInQueue ==
  ASSUME NEW new \in Configs
  PROVE  /\ <<new>> # <<>> /\ Head(<<new>>) = new /\ Tail(<<new>>) = <<>>
         /\ Append(<<>>, new) = <<new>>
         /\ \A other : <<new>> = <<other>> => new = other
<1>1. Len(<<new>>) = 1 /\ Len(<<>>) = 0  OBVIOUS
<1>2. Head(<<new>>) = new /\ <<new>>[1] = new  OBVIOUS
<1>3. Tail(<<new>>) = <<>>  OBVIOUS
<1>4. Append(<<>>, new) = <<new>>  OBVIOUS
<1>5. \A other : <<other>>[1] = other  OBVIOUS
<1> QED  BY <1>1, <1>2, <1>3, <1>4, <1>5

LEMMA InitHolds == Patient /\ Init => IInv
<1> SUFFICES ASSUME Patient, Init PROVE IInv  OBVIOUS
<1> USE DEF Init, Idle, None, NoSnapshot, Config
<1>1. file \in Configs /\ file.refresh = 1 /\ file.access \in {0, 1} /\ 1 \in Tokens
  BY DEF Configs, Numbers
<1>2. None \in Entries  BY DEF Entries, Numbers
<1>3. Idle \in Calls  BY DEF Calls, Configs, Numbers
<1>4. \A r \in Requests : ~Active(r) /\ req[r] = Idle  BY DEF Active
<1>5. Shape
  <2>1. snapshot \in [by : Configs, live : Entries]  BY <1>2 DEF Configs, Numbers
  <2>2. stage \in Stages  BY DEF Stages
  <2> QED  BY <1>1, <1>2, <1>3, <2>1, <2>2 DEF Shape
<1>6. Order
  <2>0. writes = [c \in Cores |-> c = 1] /\ 2 \in Cores  OBVIOUS
  <2>1. writes[2] = (2 = 1)  BY <2>0, Zenon
  <2>2. 2 # 1  OBVIOUS
  <2>3. ~writes[2]  BY <2>1, <2>2, Zenon
  <2> QED  BY <2>3 DEF Order, Patient
<1>7. Callers  BY <1>4 DEF Callers, Calling, At, Flying, First
<1>8. Issued /\ Had  BY <1>1, <1>4 DEF Issued, Had, Having
<1>9. Queued  BY DEF Queued
<1>10. Lagging /\ Ours /\ Strangers
  BY <1>4 DEF Lagging, Ours, Strangers, Strange, Same, At
<1>11. Covered /\ Asking  BY <1>1, <1>4 DEF Covered, Safe, Asking, Presenting, Flying
<1>12. Causes /\ Sent /\ Taking  BY <1>4 DEF Causes, Sent, Going, Gone, First, Taking
<1> QED  BY <1>5, <1>6, <1>7, <1>8, <1>9, <1>10, <1>11, <1>12 DEF IInv

LEMMA Sizes ==
  ASSUME Shape
  PROVE  /\ issued \in Nat /\ signedIn \in Nat /\ file.refresh \in Nat /\ file.access \in Nat
         /\ \A c \in Cores : /\ cfg[c].refresh \in Nat /\ cfg[c].access \in Nat
                             /\ live[c].refresh \in Nat /\ live[c].access \in Nat
         /\ snapshot.live.refresh \in Nat /\ snapshot.live.access \in Nat
         /\ \A r \in Requests : /\ req[r].cfg.refresh \in Nat /\ req[r].cfg.access \in Nat
                                /\ req[r].ask \in Nat /\ req[r].mark \in Nat
<1>1. Numbers \subseteq Nat  BY DEF Numbers
<1>2. \A k \in Configs : k.refresh \in Nat /\ k.access \in Nat  BY <1>1 DEF Configs
<1>3. \A l \in Entries : l.refresh \in Nat /\ l.access \in Nat  BY <1>1 DEF Entries
<1>4. \A k \in Calls : k.cfg \in Configs /\ k.ask \in Nat /\ k.mark \in Nat  BY <1>1 DEF Calls
<1> QED  BY <1>2, <1>3, <1>4 DEF Shape

-----------------------------------------------------------------------------
(* Requests that go on or end *)

(* Nothing of the other requests changes, and this one stays where it is.  *)
Moves(r) ==
  /\ \A q \in Requests : q # r => req'[q] = req[q]
  /\ req' \in [Requests -> Calls]
  /\ \/ req'[r] = Idle
     \/ /\ Active(r) /\ req'[r].pc # "idle"
        /\ req'[r].core = req[r].core /\ req'[r].cfg = req[r].cfg

LEMMA MovesAt ==
  ASSUME NEW r \in Requests, Moves(r)
  PROVE  \A q \in Requests, c \in Cores : At(q, c)' => At(q, c) /\ req'[q].cfg = req[q].cfg
<1> SUFFICES ASSUME NEW q \in Requests, NEW c \in Cores, At(q, c)'
             PROVE  At(q, c) /\ req'[q].cfg = req[q].cfg
  OBVIOUS
<1>1. CASE q # r  BY <1>1 DEF Moves, At, Active
<1>2. CASE q = r  BY <1>2 DEF Moves, At, Active, Idle
<1> QED  BY <1>1, <1>2

LEMMA SameStays ==
  ASSUME NEW r \in Requests, Moves(r), file' = file, cfg' = cfg, NEW c \in Cores, Same(c)
  PROVE  Same(c)'
BY MovesAt DEF Same

(* A request that does not find a fresh token meets a core at rest. *)
LEMMA AtRest ==
  ASSUME IInv, NEW r \in Requests, NEW c \in Cores, At(r, c), Accepts(c),
         ~Fresh(live[c]) \/ ~UsableFor(live[c], req[r].cfg) \/ flight[c] # {}
  PROVE  /\ Same(c) /\ queue[c] = <<>> /\ req[r].cfg.refresh = file.refresh
         /\ ~UsableFor(live[c], file) => req[r].cfg = file /\ cfg[c] = file
         /\ UsableFor(live[c], req[r].cfg) <=> UsableFor(live[c], file)
<1>1. queue[c] = <<>>
  <2> SUFFICES ASSUME queue[c] # <<>> PROVE FALSE  OBVIOUS
  <2>1. PICK new \in Configs : queue[c] = <<new>>  BY DEF IInv, Shape
  <2>2. Sending(c, new)  BY <2>1 DEF IInv, Queued
  <2>3. req[r].cfg.refresh = live[c].fp /\ Fresh(live[c]) /\ flight[c] = {}
    BY <2>2 DEF Sending, Same
  <2>4. live[c] # None  BY <2>3 DEF Fresh, None
  <2> QED  BY <2>3, <2>4 DEF UsableFor
<1>2. Same(c)  BY DEF IInv, Lagging, Behind
<1>3. req[r].cfg.refresh = file.refresh  BY <1>2 DEF Same
<1>4. ~UsableFor(live[c], file) => req[r].cfg = file /\ cfg[c] = file
  BY DEF IInv, Strangers, Strange
<1>5. UsableFor(live[c], req[r].cfg) <=> UsableFor(live[c], file)  BY <1>3 DEF UsableFor
<1> QED  BY <1>1, <1>2, <1>3, <1>4, <1>5

(* A core notes that its token is not accepted. *)
Marks(c) ==
  /\ live'[c] = [live[c] EXCEPT !.now = TRUE, !.failed = "no"]
  /\ live[c] # None /\ queue[c] = <<>>
  /\ Accepts(c) => Same(c)
Marking == live' \in [Cores -> Entries] /\ \A c \in Cores : live'[c] = live[c] \/ Marks(c)

LEMMA MarkingKeeps ==
  ASSUME Shape, Marking, NEW c \in Cores, NEW k
  PROVE  /\ live'[c].fp = live[c].fp /\ live'[c].access = live[c].access
         /\ live'[c].refresh = live[c].refresh /\ live'[c].own = live[c].own
         /\ live'[c] = live[c] \/ (live'[c].now /\ live'[c].failed = "no")
         /\ live'[c] = None <=> live[c] = None
         /\ UsableFor(live'[c], k) <=> UsableFor(live[c], k)
         /\ Accepts(c) /\ ~Same(c) => live'[c] = live[c]
         /\ queue[c] # <<>> => live'[c] = live[c]
<1>1. live[c] \in Entries  BY DEF Shape
<1>2. CASE live'[c] = live[c]  BY <1>2
<1>3. CASE Marks(c)
  <2>1. /\ live'[c].fp = live[c].fp /\ live'[c].access = live[c].access
        /\ live'[c].refresh = live[c].refresh /\ live'[c].own = live[c].own
        /\ live'[c].now /\ live'[c].failed = "no"
    BY <1>1, <1>3 DEF Marks, Entries
  <2>2. live'[c] # None  BY <2>1 DEF None
  <2> QED  BY <1>3, <2>1, <2>2 DEF Marks, UsableFor
<1> QED  BY <1>2, <1>3 DEF Marking

(* What does not change when only requests and flights do.                 *)
LEMMA OnlyRequests ==
  ASSUME IInv, NEW r \in Requests, Moves(r), Marking, UNCHANGED Others,
         flight' \in [Cores -> SUBSET Requests],
         \A c \in Cores : flight[c] = {} /\ flight'[c] # {} => Same(c) /\ queue[c] = <<>>
  PROVE  Shape' /\ Queued' /\ Lagging' /\ Ours' /\ Strangers' /\ Causes' /\ Taking'
<1>1. Shape'  BY DEF IInv, Shape, Moves, Marking
<1>2. \A c \in Cores : Same(c) => Same(c)'  BY SameStays
<1>3. \A q \in Requests, c \in Cores : At(q, c)' => At(q, c) /\ req'[q].cfg = req[q].cfg
  BY MovesAt
<1>4. \A c \in Cores :
        /\ live'[c].refresh = live[c].refresh /\ live'[c].access = live[c].access
        /\ live'[c] = live[c] \/ (live'[c].now /\ live'[c].failed = "no")
        /\ live'[c] = None <=> live[c] = None
        /\ Accepts(c) /\ ~Same(c) => live'[c] = live[c]
        /\ queue[c] # <<>> => live'[c] = live[c]
  BY MarkingKeeps DEF IInv
<1>5. \A c \in Cores : \A k : UsableFor(live'[c], k) <=> UsableFor(live[c], k)
  BY MarkingKeeps DEF IInv
<1>6. Queued'
  <2> SUFFICES ASSUME NEW c \in Cores, NEW new \in Configs, queue[c] = <<new>>
               PROVE  Sending(c, new)'
    BY DEF Queued
  <2>1. Sending(c, new)  BY DEF IInv, Queued
  <2>2. flight'[c] = {} /\ live'[c] = live[c]
    BY <1>4, <2>1, OneInQueue DEF Sending
  <2> QED  BY <1>2, <1>4, <2>1, <2>2 DEF Sending, Fresh
<1>7. Lagging'
  <2> SUFFICES ASSUME NEW c \in Cores, Accepts(c), ~Same(c) PROVE Behind(c)'
    BY <1>2 DEF Lagging, Accepts, Drains
  <2>1. Behind(c)  BY DEF IInv, Lagging
  <2>2. flight'[c] = {} /\ live'[c] = live[c]  BY <1>4, <2>1 DEF Behind
  <2> QED  BY <1>3, <2>1, <2>2 DEF Behind, Fresh
<1>8. Ours'  BY <1>4, <1>5 DEF IInv, Ours, Accepts, Drains
<1>9. Strangers'  BY <1>3, <1>5 DEF IInv, Strangers, Strange, Accepts, Drains
<1>10. Causes'
  <2>1. \A c \in Cores : live'[c].failed # "no" => Excused(live[c])'
    BY <1>4 DEF IInv, Causes, Excused, Spent, Due
  <2> QED  BY <2>1 DEF IInv, Causes, Excused, Spent, Due
<1>11. Taking'
  <2>1. NewLogin(live[2])' => NewLogin(live[2])  BY <1>4 DEF NewLogin
  <2>2. UsableFor(live[1], file)' <=> UsableFor(live[1], file)  BY <1>5
  <2>3. NewLogin(snapshot.live)' => NewLogin(snapshot.live)  BY DEF NewLogin
  <2> QED  BY <2>1, <2>2, <2>3 DEF IInv, Taking, Matches
<1> QED  BY <1>1, <1>6, <1>7, <1>8, <1>9, <1>10, <1>11

LEMMA IdleIsCall == Idle \in Calls
BY DEF Idle, Calls, Configs, Numbers

(* A request that goes on or ends, where the core keeps its token: what is *)
(* left to show is about this request.                                     *)
LEMMA RequestSteps ==
  ASSUME IInv, NEW r \in Requests, Moves(r), Marking, UNCHANGED Others,
         flight' \in [Cores -> SUBSET Requests],
         \A c \in Cores : flight[c] = {} /\ flight'[c] # {} =>
           /\ Same(c) /\ queue[c] = <<>>
           /\ ~held[c] /\ Accepts(c),
         \A q \in Requests : q # r /\ Flying(q) => flight'[req[q].core] = {q},
         req'[r].pc # "told" \/ req[r].pc = "told",
         Calling(r)', Having(r)', Presenting(r)', Going(r)'
  PROVE  IInv'
<1>1. Shape' /\ Queued' /\ Lagging' /\ Ours' /\ Strangers' /\ Causes' /\ Taking'
  BY OnlyRequests
<1>2. \A q \in Requests : q # r => req'[q] = req[q]  BY DEF Moves
<1>3. \A c \in Cores :
        /\ live'[c].refresh = live[c].refresh /\ live'[c].access = live[c].access
        /\ live'[c].own = live[c].own
        /\ live'[c] = live[c] \/ (live'[c].now /\ live'[c].failed = "no")
        /\ live'[c] = None <=> live[c] = None
  BY MarkingKeeps DEF IInv
<1>4. \A c \in Cores : \A k : UsableFor(live'[c], k) <=> UsableFor(live[c], k)
  BY MarkingKeeps DEF IInv
<1>5. Order'
  <2>1. flight'[1] # {} /\ flight[1] = {} => stage \in {"alone", "asked", "started"}
    BY DEF IInv, Order, Shape, Stages, Accepts, Drains
  <2>2. flight'[2] # {} /\ flight[2] = {} => stage \in {"committed", "drained"}
    BY DEF IInv, Order, Shape, Stages, Accepts, Drains
  <2> QED  BY <1>3, <2>1, <2>2 DEF IInv, Order
<1>6. Callers'
  <2> SUFFICES ASSUME NEW q \in Requests, q # r PROVE Calling(q)'  BY DEF Callers
  <2>1. req'[q] = req[q]  BY <1>2
  <2>2. Calling(q)  BY DEF IInv, Callers
  <2>3. Flying(q)' => flight'[req'[q].core] = {q}  BY <2>1 DEF Flying
  <2> QED  BY <2>1, <2>2, <2>3 DEF Calling, Active, At, First, Accepts, Drains
<1>7. Issued'  BY <1>3 DEF IInv, Issued
<1>8. Had'
  <2> SUFFICES ASSUME NEW q \in Requests, q # r PROVE Having(q)'  BY DEF Had
  <2> QED  BY <1>2, <1>3 DEF IInv, Had, Having
<1>9. Covered'  BY <1>3 DEF IInv, Covered, Safe
<1>10. Asking'
  <2> SUFFICES ASSUME NEW q \in Requests, q # r PROVE Presenting(q)'  BY DEF Asking
  <2>1. req'[q] = req[q] /\ Presenting(q)  BY <1>2 DEF IInv, Asking
  <2>2. \A c \in Cores : UsableFor(live[c], file)' <=> UsableFor(live[c], file)  BY <1>4
  <2>3. \A c \in Cores : Spent(live[c]) => Spent(live[c])'  BY <1>3 DEF Spent, Due
  <2> QED  BY <2>1, <2>2, <2>3 DEF Presenting, Flying, Safe
<1>11. Sent'
  <2> SUFFICES ASSUME NEW q \in Requests, q # r, NEW c \in Cores,
                      Gone(q)', req'[q].core = c, Accepts(c)'
               PROVE  /\ Stands(live[c], Went(q), req[q].mark)'
                      /\ \A p \in Requests :
                           req'[p].pc = "told" /\ req'[p].core = c => req'[q].mark < issued'
    BY DEF Sent, Going
  <2>1. req'[q] = req[q]  BY <1>2
  <2>2. Gone(q) /\ req[q].core = c /\ Accepts(c)  BY <2>1 DEF Gone, First, Accepts, Drains
  <2>3. /\ Stands(live[c], Went(q), req[q].mark)
        /\ \A p \in Requests : req[p].pc = "told" /\ req[p].core = c => req[q].mark < issued
    BY <2>2 DEF IInv, Sent, Going
  <2>4. Stands(live[c], Went(q), req[q].mark)'
    <3>1. UsableFor(live[c], file)' <=> UsableFor(live[c], file)  BY <1>4
    <3>2. Excused(live[c]) => Excused(live[c])'  BY <1>3 DEF Excused, Spent, Due
    <3> QED  BY <1>3, <2>1, <2>3, <3>1, <3>2 DEF Stands, Went, First
  <2>5. ASSUME NEW p \in Requests, req'[p].pc = "told", req'[p].core = c
        PROVE  req'[q].mark < issued'
    <3>1. req[p].pc = "told" /\ req[p].core = c  BY <1>2, <2>5 DEF Moves, Idle
    <3> QED  BY <2>1, <2>3, <3>1
  <2> QED  BY <2>4, <2>5
<1> QED  BY <1>1, <1>5, <1>6, <1>7, <1>8, <1>9, <1>10, <1>11 DEF IInv

LEMMA Unmarked == ASSUME IInv, UNCHANGED live PROVE Marking
BY DEF IInv, Shape, Marking

LEMMA Ending ==
  ASSUME IInv, NEW r \in Requests, Ends(r), UNCHANGED Others, Marking,
         flight' \in [Cores -> SUBSET Requests],
         \A c \in Cores : \/ flight'[c] = flight[c]
                          \/ c = req[r].core /\ flight'[c] = flight[c] \ {r}
  PROVE  IInv'
<1>1. req \in [Requests -> Calls]  BY DEF IInv, Shape
<1>2. req'[r] = Idle /\ \A q \in Requests : q # r => req'[q] = req[q]
  BY <1>1 DEF Ends
<1>3. Moves(r) /\ Marking
  BY <1>1, <1>2, IdleIsCall DEF Moves, Ends
<1>4. ~Active(r)' /\ req'[r].pc = "idle"  BY <1>2 DEF Active, Idle
<1>5. Calling(r)'  BY <1>2, <1>4 DEF Calling, At, Flying, First
<1>6. Having(r)'
  <2>1. /\ req'[r].cfg.refresh = 0 /\ req'[r].cfg.access = 0
        /\ req'[r].ask = 0 /\ req'[r].mark = 0
    BY <1>2 DEF Idle
  <2>2. 0 <= file.refresh /\ 0 <= issued  BY DEF IInv, Shape, Configs, Numbers
  <2> QED  BY <1>4, <2>1, <2>2 DEF Having
<1>7. Presenting(r)' /\ Going(r)'  BY <1>4 DEF Presenting, Flying, Going, Gone, First
<1>8. \A q \in Requests : q # r /\ Flying(q) => flight'[req[q].core] = {q}
  BY <1>1 DEF IInv, Callers, Calling, Calls
<1> QED  BY <1>3, <1>4, <1>5, <1>6, <1>7, <1>8, RequestSteps

LEMMA FinishSteps == ASSUME IInv, NEW r \in Requests, Finish(r) PROVE IInv'
<1>1. flight' \in [Cores -> SUBSET Requests]  BY DEF Finish, IInv, Shape
<1>2. Marking  BY Unmarked DEF Finish
<1> QED  BY <1>1, <1>2, Ending DEF Finish

LEMMA LeaveSteps == ASSUME IInv, NEW r \in Requests, Leave(r) PROVE IInv'
<1>1. flight \in [Cores -> SUBSET Requests] /\ req[r].core \in Cores
  BY DEF IInv, Shape, Calls
<1>2. flight' = [flight EXCEPT ![req[r].core] = @ \ {r}]  BY DEF Leave
<1>3. flight' \in [Cores -> SUBSET Requests]  BY <1>1, <1>2
<1>4. Marking  BY Unmarked DEF Leave
<1> QED  BY <1>1, <1>2, <1>3, <1>4, Ending DEF Leave

LEMMA StartSteps == ASSUME IInv, NEW r \in Requests, Start(r) PROVE IInv'
<1>1. PICK c \in Cores :
        /\ ~Active(r) /\ Accepts(c)
        /\ req' = [req EXCEPT ![r] = [req[r] EXCEPT !.pc = "starts", !.core = c, !.cfg = cfg[c]]]
  BY ZenonT(60) DEF Start
<1>2. UNCHANGED <<Others, live, flight>>  BY DEF Start
<1>3. req \in [Requests -> Calls] /\ req[r] = Idle /\ cfg[c] \in Configs
  BY <1>1 DEF IInv, Shape, Callers, Calling
<1>4. /\ \A q \in Requests : q # r => req'[q] = req[q]
      /\ req'[r] = [Idle EXCEPT !.pc = "starts", !.core = c, !.cfg = cfg[c]]
  BY <1>1, <1>3
<1>5. req'[r].pc = "starts" /\ req'[r].core = c /\ req'[r].cfg = cfg[c] /\ req'[r].old = 0
      /\ req'[r].ask = 0 /\ req'[r].mark = 0
  BY <1>4 DEF Idle
<1>6. req' \in [Requests -> Calls]
  <2>1. [Idle EXCEPT !.pc = "starts", !.core = c, !.cfg = cfg[c]] \in Calls
    BY <1>3, IdleIsCall DEF Calls
  <2> QED  BY <1>1, <1>3, <1>4, <2>1
<1>7. \A q \in Requests, d \in Cores :
         At(q, d)' => (At(q, d) /\ req'[q] = req[q]) \/ (q = r /\ d = c /\ req'[q].cfg = cfg[d])
  BY <1>4, <1>5 DEF At, Active
<1>8. Shape'  BY <1>2, <1>6 DEF IInv, Shape
<1>9. Order'  BY <1>2 DEF IInv, Order
<1>10. Callers'
  <2> SUFFICES ASSUME NEW q \in Requests PROVE Calling(q)'  BY DEF Callers
  <2>1. CASE q = r
    BY <1>1, <1>2, <1>5, <2>1 DEF Calling, At, Active, Flying, First, Accepts, Drains
  <2>2. CASE q # r
    BY <1>2, <1>4, <2>2 DEF IInv, Callers, Calling, At, Active, Flying, First, Accepts, Drains
  <2> QED  BY <2>1, <2>2
<1>11. Issued' /\ Had'
  <2>1. cfg[c].refresh <= file.refresh /\ cfg[c].access <= issued /\ 0 <= issued
    BY DEF IInv, Issued, Shape
  <2> QED  BY ZenonT(60), <1>2, <1>4, <1>5, <2>1 DEF IInv, Issued, Had, Having
<1>12. \A d \in Cores : Same(d) => Same(d)'  BY <1>2, <1>7 DEF Same
<1>13. Queued'  BY <1>2, <1>12 DEF IInv, Queued, Sending, Fresh
<1>14. Lagging'
  <2> SUFFICES ASSUME NEW d \in Cores, Accepts(d), Behind(d) PROVE Behind(d)'
    BY <1>2, <1>12 DEF IInv, Lagging, Accepts, Drains
  <2> QED  BY <1>2, <1>7 DEF Behind, Fresh
<1>15. Ours'  BY <1>2 DEF IInv, Ours, Accepts, Drains
<1>16. Strangers'  BY <1>2, <1>7 DEF IInv, Strangers, Strange, Accepts, Drains
<1>17. Covered' /\ Asking'
  BY ZenonT(60), <1>2, <1>4, <1>5 DEF IInv, Covered, Safe, Asking, Presenting, Flying, Spent, Due
<1>18. Causes' /\ Taking'
  BY <1>2 DEF IInv, Causes, Excused, Spent, Due, Taking, Matches, NewLogin
<1>19. Sent'
  <2> SUFFICES ASSUME NEW q \in Requests, NEW d \in Cores,
                      Gone(q)', req'[q].core = d, Accepts(d)'
               PROVE  /\ Stands(live[d], Went(q), req[q].mark)'
                      /\ \A p \in Requests :
                           req'[p].pc = "told" /\ req'[p].core = d => req'[q].mark < issued'
    BY DEF Sent, Going
  <2>1. q # r  BY <1>5 DEF Gone, First
  <2>2. req'[q] = req[q]  BY <1>4, <2>1
  <2>3. Gone(q) /\ req[q].core = d /\ Accepts(d)
    BY <1>2, <2>2 DEF Gone, First, Accepts, Drains
  <2>4. /\ Stands(live[d], Went(q), req[q].mark)
        /\ \A p \in Requests : req[p].pc = "told" /\ req[p].core = d => req[q].mark < issued
    BY <2>3 DEF IInv, Sent, Going
  <2>5. Stands(live[d], Went(q), req[q].mark)'
    BY <1>2, <2>2, <2>4 DEF Stands, Went, First, Excused, Spent, Due
  <2>6. ASSUME NEW p \in Requests, req'[p].pc = "told", req'[p].core = d
        PROVE  req'[q].mark < issued'
    <3>1. req'[p] = req[p]  BY <1>4, <1>5, <2>6
    <3> QED  BY <1>2, <2>2, <2>4, <2>6, <3>1
  <2> QED  BY <2>5, <2>6
<1> QED
  BY <1>8, <1>9, <1>10, <1>11, <1>13, <1>14, <1>15, <1>16, <1>17, <1>18, <1>19 DEF IInv

-----------------------------------------------------------------------------
(* Requests that find a token or go for one *)

(* Who is under way to the token endpoint, and what it cannot find.        *)
LEMMA Flight ==
  ASSUME IInv, NEW q \in Requests, NEW c \in Cores, Flying(q), req[q].core = c
  PROVE  flight[c] = {q} /\ Accepts(c) /\ At(q, c)
<1>1. flight[c] = {q}  BY DEF IInv, Callers, Calling
<1>2. Accepts(c)  BY <1>1 DEF IInv, Order, Accepts, Drains
<1> QED  BY <1>1, <1>2 DEF At, Active, Flying

LEMMA Goes ==
  ASSUME Shape, NEW r \in Requests, NEW a \in Numbers, Active(r), Gets(r, a), a # req[r].old
  PROVE  /\ Moves(r)
         /\ \A q \in Requests : q # r => req'[q] = req[q]
         /\ req'[r].pc = "sent" /\ req'[r].token = a /\ req'[r].ask = 0
         /\ req'[r].mark = IF req[r].old = 0 THEN issued ELSE 0
         /\ req'[r].core = req[r].core /\ req'[r].cfg = req[r].cfg /\ req'[r].old = req[r].old
<1> DEFINE m == IF req[r].old = 0 THEN issued ELSE 0
<1>1. req \in [Requests -> Calls] /\ req[r] \in Calls /\ m \in Numbers
  BY DEF Shape, Numbers
<1>2. req' = [req EXCEPT ![r].pc = "sent", ![r].token = a, ![r].mark = m,
                         ![r].ask = 0, ![r].got = 0, ![r].rotated = FALSE]
  BY DEF Gets
<1> HIDE DEF m
<1>3. /\ req'[r] = [req[r] EXCEPT !.pc = "sent", !.token = a, !.mark = m,
                                  !.ask = 0, !.got = 0, !.rotated = FALSE]
      /\ \A q \in Requests : q # r => req'[q] = req[q]
  BY <1>1, <1>2
<1>4. req'[r] \in Calls
  <2>1. 0 \in Numbers  BY DEF Numbers
  <2> QED  BY ZenonT(60), <1>1, <1>3, <2>1 DEF Calls
<1>5. /\ req'[r].pc = "sent" /\ req'[r].token = a /\ req'[r].mark = m /\ req'[r].ask = 0
      /\ req'[r].core = req[r].core /\ req'[r].cfg = req[r].cfg /\ req'[r].old = req[r].old
  BY <1>1, <1>3 DEF Calls
<1>6. req' \in [Requests -> Calls]  BY <1>1, <1>2, <1>3, <1>4
<1>7. Moves(r)  BY <1>3, <1>5, <1>6 DEF Moves
<1> QED  BY <1>3, <1>5, <1>7 DEF m

LEMMA GoneIsCalling ==
  ASSUME IInv, NEW r \in Requests, Active(r), UNCHANGED stage,
         req'[r].pc = "sent", req'[r].core = req[r].core, req'[r].old = req[r].old,
         req'[r].token # req[r].old
  PROVE  Calling(r)'
<1>1. At(r, 2) => Accepts(2)  BY DEF IInv, Callers, Calling
<1> QED  BY <1>1 DEF Calling, At, Active, Flying, First, Accepts, Drains

(* A request goes with a token that is in hand. *)
LEMMA Sends ==
  ASSUME IInv, NEW r \in Requests, NEW c \in Cores, At(r, c), ~Flying(r),
         NEW a \in Numbers, Gets(r, a), UNCHANGED <<Others, flight>>, Marking,
         req[r].old = 0 /\ Accepts(c) =>
           /\ Stands(live[c], a, issued) /\ UNCHANGED live
           /\ \A q \in Requests : ~(req[q].pc = "told" /\ req[q].core = c)
  PROVE  IInv'
<1>1. CASE Ends(r)
  <2>1. flight' \in [Cores -> SUBSET Requests]  BY DEF IInv, Shape
  <2> QED  BY <1>1, <2>1, Ending
<1>2. CASE ~Ends(r)
  <2>1. a # req[r].old  BY <1>2 DEF Gets
  <2>2. Shape /\ Active(r) /\ req[r].core = c  BY DEF IInv, At
  <2>3. /\ Moves(r)
        /\ \A q \in Requests : q # r => req'[q] = req[q]
        /\ req'[r].pc = "sent" /\ req'[r].token = a /\ req'[r].ask = 0
        /\ req'[r].mark = IF req[r].old = 0 THEN issued ELSE 0
        /\ req'[r].core = c /\ req'[r].cfg = req[r].cfg /\ req'[r].old = req[r].old
    BY <2>1, <2>2, Goes
  <2>5. flight' \in [Cores -> SUBSET Requests]  BY DEF IInv, Shape
  <2>6. \A q \in Requests : q # r /\ Flying(q) => flight'[req[q].core] = {q}
    BY DEF IInv, Callers, Calling
  <2>7. Calling(r)'  BY <2>1, <2>2, <2>3, GoneIsCalling
  <2>8. Having(r)'
    <3>1. Having(r) /\ issued \in Nat  BY DEF IInv, Had, Shape
    <3> QED  BY <2>3, <3>1 DEF Having
  <2>9. Presenting(r)'  BY <2>3 DEF Presenting, Flying
  <2>10. Going(r)'
    <3> SUFFICES ASSUME Gone(r)', Accepts(c)'
                 PROVE  /\ Stands(live[c], Went(r), req[r].mark)'
                        /\ \A p \in Requests :
                             req'[p].pc = "told" /\ req'[p].core = c => req'[r].mark < issued'
      BY <2>3 DEF Going
    <3>1. req[r].old = 0 /\ Accepts(c)  BY <2>3 DEF Gone, First, Accepts, Drains
    <3>2. Stands(live[c], Went(r), req[r].mark)'
      BY <2>3, <3>1 DEF Stands, Went, First, Excused, Spent, Due
    <3>3. ASSUME NEW p \in Requests, req'[p].pc = "told", req'[p].core = c PROVE FALSE
      <4>1. p # r  BY <2>3, <3>3
      <4>2. req'[p] = req[p]  BY <2>3, <4>1
      <4> QED  BY <3>1, <3>3, <4>2
    <3> QED  BY <3>2, <3>3
  <2> QED  BY <2>3, <2>5, <2>6, <2>7, <2>8, <2>9, <2>10, RequestSteps
<1> QED  BY <1>1, <1>2

(* A request finds that the last exchange failed, or a token in the cache. *)
LEMMA Found ==
  ASSUME IInv, NEW r \in Requests, NEW c \in Cores, At(r, c), ~Flying(r),
         UNCHANGED <<Others, live, flight>>,
         \/ BacksOff(live[c], req[r].cfg) /\ Ends(r)
         \/ InHand(live[c], req[r].cfg) /\ Gets(r, live[c].access)
  PROVE  IInv'
<1>0. Marking  BY Unmarked
<1>1. CASE Ends(r)
  <2>1. flight' \in [Cores -> SUBSET Requests]  BY DEF IInv, Shape
  <2> QED  BY <1>0, <1>1, <2>1, Ending
<1>2. CASE InHand(live[c], req[r].cfg) /\ Gets(r, live[c].access)
  <2>1. live[c].access \in Numbers  BY DEF IInv, Shape, Entries
  <2>2. ASSUME Accepts(c)
        PROVE  /\ Stands(live[c], live[c].access, issued)
               /\ \A q \in Requests : ~(req[q].pc = "told" /\ req[q].core = c)
    <3>1. ~Spent(live[c]) /\ UsableFor(live[c], req[r].cfg)  BY <1>2 DEF InHand, Spent
    <3>2. UsableFor(live[c], file)
      BY <2>2, <3>1 DEF IInv, Strangers, Strange
    <3>3. ASSUME NEW q \in Requests, Flying(q), req[q].core = c PROVE FALSE
      BY <3>1, <3>2, <3>3 DEF IInv, Asking, Presenting
    <3> QED  BY <3>2, <3>3 DEF Stands, Flying
  <2> QED  BY <1>0, <1>2, <2>1, <2>2, Sends
<1> QED  BY <1>1, <1>2

LEMMA RejectSteps == ASSUME IInv, NEW r \in Requests, Reject(r) PROVE IInv'
<1>1. /\ req[r].pc = "sent" /\ req[r].old = 0
      /\ req' = [req EXCEPT ![r].pc = "again", ![r].old = req[r].token, ![r].token = 0]
      /\ UNCHANGED <<Others, live, flight>>
  BY DEF Reject
<1>2. req \in [Requests -> Calls] /\ req[r] \in Calls /\ flight \in [Cores -> SUBSET Requests]
      /\ live \in [Cores -> Entries]
  BY DEF IInv, Shape
<1>3. /\ req'[r] = [req[r] EXCEPT !.pc = "again", !.old = req[r].token, !.token = 0]
      /\ \A q \in Requests : q # r => req'[q] = req[q]
  BY <1>1, <1>2
<1>4. req'[r] \in Calls
  <2>1. 0 \in Numbers /\ req[r].token \in Numbers  BY <1>2 DEF Numbers, Calls
  <2> QED  BY <1>2, <1>3, <2>1 DEF Calls
<1>5. /\ req'[r].pc = "again" /\ req'[r].old = req[r].token /\ req'[r].mark = req[r].mark
      /\ req'[r].core = req[r].core /\ req'[r].cfg = req[r].cfg /\ req'[r].ask = req[r].ask
  BY <1>2, <1>3 DEF Calls
<1>6. Moves(r) /\ Marking
  <2>1. req' \in [Requests -> Calls]  BY <1>1, <1>2, <1>3, <1>4
  <2> QED  BY <1>1, <1>2, <1>3, <1>5, <2>1 DEF Moves, Active, Marking
<1>7. \A q \in Requests : Flying(q) => flight'[req[q].core] = {q}
  BY <1>1 DEF IInv, Callers, Calling
<1>8. Calling(r)'
  <2>1. Calling(r) /\ First(r)  BY <1>1 DEF IInv, Callers, First
  <2> QED  BY <1>1, <1>5, <2>1 DEF Calling, At, Active, Flying, First, Accepts, Drains
<1>9. Having(r)'  BY <1>1, <1>5 DEF IInv, Had, Having
<1>10. Presenting(r)'  BY <1>5 DEF Presenting, Flying
<1>11. Going(r)'
  <2> SUFFICES ASSUME NEW c \in Cores, Gone(r)', req'[r].core = c, Accepts(c)'
               PROVE  /\ Stands(live[c], Went(r), req[r].mark)'
                      /\ \A p \in Requests :
                           req'[p].pc = "told" /\ req'[p].core = c => req'[r].mark < issued'
    BY DEF Going
  <2>0. req[r].core = c /\ Accepts(c)  BY <1>1, <1>5 DEF Accepts, Drains
  <2>1. First(r) /\ Gone(r) /\ Went(r) = req[r].token  BY <1>1 DEF First, Gone, Went
  <2>2. /\ Stands(live[c], req[r].token, req[r].mark)
        /\ \A p \in Requests : req[p].pc = "told" /\ req[p].core = c => req[r].mark < issued
    BY <2>0, <2>1 DEF IInv, Sent, Going
  <2>3. Stands(live[c], Went(r), req[r].mark)'
    BY <1>1, <1>5, <2>2 DEF Stands, Went, First, Excused, Spent, Due
  <2>4. ASSUME NEW p \in Requests, req'[p].pc = "told", req'[p].core = c
        PROVE  req'[r].mark < issued'
    <3>1. p # r  BY <1>5, <2>4
    <3>2. req'[p] = req[p]  BY <1>3, <3>1
    <3> QED  BY <1>1, <1>5, <2>2, <2>4, <3>2
  <2> QED  BY <2>3, <2>4
<1> QED  BY <1>1, <1>2, <1>5, <1>6, <1>7, <1>8, <1>9, <1>10, <1>11, RequestSteps

LEMMA FromConfigIs ==
  ASSUME NEW k \in Configs
  PROVE  /\ FromConfig(k) \in Entries
         /\ FromConfig(k).fp = k.refresh /\ FromConfig(k).access = k.access
         /\ FromConfig(k).refresh = k.refresh /\ ~FromConfig(k).own
         /\ ~FromConfig(k).now /\ FromConfig(k).failed = "no"
         /\ k.access # 0 => FromConfig(k) # None
<1>1. /\ FromConfig(k).fp = k.refresh /\ FromConfig(k).access = k.access
      /\ FromConfig(k).refresh = k.refresh /\ ~FromConfig(k).own
      /\ ~FromConfig(k).now /\ FromConfig(k).failed = "no"
  BY DEF FromConfig, None
<1>2. k.refresh \in Numbers /\ k.access \in Numbers  BY DEF Configs
<1>3. FromConfig(k) \in Entries  BY <1>2 DEF FromConfig, None, Entries
<1>4. None.access = 0  BY DEF None
<1> QED  BY <1>1, <1>3, <1>4

(* A core takes the token of the configuration into its cache, and a       *)
(* request goes with it.                                                   *)
LEMMA Takes ==
  ASSUME IInv, NEW r \in Requests, NEW c \in Cores, At(r, c), req[r].old = 0, ~Flying(r),
         InConfig(live[c], req[r].cfg), live' = [live EXCEPT ![c] = FromConfig(req[r].cfg)],
         Gets(r, req[r].cfg.access), UNCHANGED <<Others, flight>>
  PROVE  IInv'
<1> DEFINE k == req[r].cfg
<1>1. Shape /\ Active(r) /\ req[r].core = c /\ k \in Configs
  BY DEF IInv, Shape, At, Calls
<1>2. k.access \in Numbers /\ k.access # 0 /\ k.refresh \in Numbers  BY <1>1 DEF Configs, InConfig
<1>3. /\ Moves(r)
      /\ \A q \in Requests : q # r => req'[q] = req[q]
      /\ req'[r].pc = "sent" /\ req'[r].token = k.access /\ req'[r].ask = 0
      /\ req'[r].mark = issued
      /\ req'[r].core = c /\ req'[r].cfg = k /\ req'[r].old = 0
  BY <1>1, <1>2, Goes
<1>4. \A d \in Cores : d # c => live'[d] = live[d]  BY <1>1 DEF Shape
<1>5. live'[c] = FromConfig(k)  BY <1>1 DEF Shape
<1>6. /\ live'[c].fp = k.refresh /\ live'[c].access = k.access /\ live'[c].refresh = k.refresh
      /\ ~live'[c].now /\ live'[c].failed = "no"
      /\ live'[c] # None /\ live'[c] \in Entries
  <2> HIDE DEF k
  <2> QED  BY <1>1, <1>2, <1>5, FromConfigIs
<1>7. k.refresh <= file.refresh /\ k.access <= issued  BY <1>1 DEF IInv, Had, Having
<1>8. c = 2 => Accepts(2)  BY <1>1 DEF IInv, Callers, Calling
<1>9. ASSUME Accepts(c)
      PROVE  /\ Same(c) /\ ~UsableFor(live[c], file) /\ k = file /\ cfg[c] = file
             /\ UsableFor(live[c], file)'
             /\ \A q \in Requests : ~(Flying(q) /\ req[q].core = c)
  <2>1. ~UsableFor(live[c], k)  BY DEF InConfig
  <2>2. Same(c) /\ ~UsableFor(live[c], file) /\ k = file /\ cfg[c] = file
    BY <1>9, <2>1, AtRest
  <2>3. UsableFor(live[c], file)'  BY <1>6, <2>2 DEF UsableFor
  <2>4. ASSUME NEW q \in Requests, Flying(q), req[q].core = c PROVE FALSE
    <3>1. file.access = 0 \/ age[file.access] = "late"
      BY <2>2, <2>4 DEF IInv, Asking, Presenting
    <3> QED  BY <2>2, <3>1 DEF InConfig
  <2> QED  BY <2>2, <2>3, <2>4
<1>10. ~Accepts(c) => c = 1 /\ stage \in {"committed", "drained"}
  BY <1>8 DEF Accepts, Drains
<1>11. queue[c] = <<>>
  <2>1. CASE Accepts(c)
    <3>1. ~UsableFor(live[c], k)  BY DEF InConfig
    <3> QED  BY <2>1, <3>1, AtRest
  <2>2. CASE ~Accepts(c)  BY <1>10, <2>2 DEF IInv, Order
  <2> QED  BY <2>1, <2>2
<1>12. Shape'
  <2>1. live' \in [Cores -> Entries]  BY <1>1, <1>6, <1>5 DEF Shape
  <2> QED  BY <1>1, <1>3, <2>1 DEF Shape, Moves
<1>13. Order'  BY <1>4, <1>8 DEF IInv, Order, Accepts
<1>14. Callers'
  <2> SUFFICES ASSUME NEW q \in Requests PROVE Calling(q)'  BY DEF Callers
  <2>1. CASE q = r  BY <1>1, <1>2, <1>3, <2>1, GoneIsCalling
  <2>2. CASE q # r
    BY <1>3, <2>2 DEF IInv, Callers, Calling, At, Active, Flying, First, Accepts, Drains
  <2> QED  BY <2>1, <2>2
<1>15. Issued'
  <2>1. k.refresh <= issued  BY <1>1, <1>2, <1>7 DEF IInv, Issued, Shape, Configs, Numbers
  <2> QED  BY <1>4, <1>6, <1>7, <2>1 DEF IInv, Issued
<1>16. Had'
  <2> SUFFICES ASSUME NEW q \in Requests PROVE Having(q)'  BY DEF Had
  <2>1. CASE q = r
    <3>1. Having(r) /\ issued \in Nat  BY DEF IInv, Had, Shape
    <3> QED  BY <1>3, <2>1, <3>1 DEF Having
  <2>2. CASE q # r
    <3>1. Having(q) /\ req'[q] = req[q]  BY <1>3, <2>2 DEF IInv, Had
    <3>2. file.refresh < issued => k.refresh < issued
      BY <1>1, <1>2, <1>7 DEF Shape, Configs, Numbers
    <3> QED  BY <1>4, <1>6, <3>1, <3>2 DEF Having
  <2> QED  BY <2>1, <2>2
<1>17. \A d \in Cores : Same(d) => Same(d)'  BY <1>3, SameStays
<1>18. Queued'
  <2> SUFFICES ASSUME NEW d \in Cores, NEW new \in Configs, queue[d] = <<new>>
               PROVE  Sending(d, new)'
    BY DEF Queued
  <2>1. Sending(d, new)  BY DEF IInv, Queued
  <2>2. d # c /\ live'[d] = live[d]  BY <1>4, <1>11, OneInQueue
  <2>3. file.refresh < new.refresh => k.refresh <= new.refresh
    BY SMTT(60), <1>1, <1>2, <1>7 DEF Shape, Configs, Numbers
  <2>4. new.refresh # 0 => \A e \in Cores : live'[e].refresh <= new.refresh
    BY <1>4, <1>6, <2>1, <2>3 DEF Sending
  <2> QED  BY <1>17, <2>1, <2>2, <2>4 DEF Sending, Fresh
<1>19. Lagging'
  <2> SUFFICES ASSUME NEW d \in Cores, Accepts(d), ~Same(d) PROVE Behind(d)'
    BY <1>17 DEF Lagging, Accepts, Drains
  <2>1. Behind(d)  BY DEF IInv, Lagging
  <2>2. d # c /\ live'[d] = live[d]  BY <1>4, <1>9
  <2> QED  BY <1>3, <2>1, <2>2, MovesAt DEF Behind, Fresh
<1>20. Ours' /\ Strangers'
  <2>1. \A d \in Cores : Strange(d) => Strange(d)'  BY <1>3, MovesAt DEF Strange
  <2> QED  BY <1>4, <1>9, <2>1 DEF IInv, Ours, Strangers, Accepts, Drains
<1>21. Covered'  BY <1>4, <1>6, <1>7 DEF IInv, Covered, Safe
<1>22. Asking'
  <2> SUFFICES ASSUME NEW q \in Requests, Flying(q)' PROVE Presenting(q)'
    BY DEF Asking, Presenting
  <2>1. q # r /\ req'[q] = req[q] /\ Flying(q) /\ Presenting(q)
    BY <1>3 DEF Flying, IInv, Asking
  <2>2. req[q].core # c  BY <1>9, <2>1, Flight
  <2> QED  BY <1>4, <2>1, <2>2 DEF Presenting, Safe, Spent, Due
<1>23. Causes'  BY <1>4, <1>6 DEF IInv, Causes, Excused, Spent, Due
<1>24. Sent'
  <2> SUFFICES ASSUME NEW q \in Requests, NEW d \in Cores,
                      Gone(q)', req'[q].core = d, Accepts(d)'
               PROVE  /\ Stands(live[d], Went(q), req[q].mark)'
                      /\ \A p \in Requests :
                           req'[p].pc = "told" /\ req'[p].core = d => req'[q].mark < issued'
    BY DEF Sent, Going
  <2>1. Accepts(d)  BY DEF Accepts, Drains
  <2>2. \A p \in Requests :
          req'[p].pc = "told" /\ req'[p].core = d => d # c /\ req[p].pc = "told" /\ req[p].core = d
    BY <1>3, <1>9, <2>1 DEF Flying
  <2>3. CASE q = r
    <3>1. Stands(live[c], Went(r), req[r].mark)'
      BY <1>3, <1>6, <1>9, <2>1, <2>3 DEF Stands, Went, First
    <3> QED  BY <1>3, <2>2, <2>3, <3>1
  <2>4. CASE q # r
    <3>1. req'[q] = req[q]  BY <1>3, <2>4
    <3>2. Gone(q) /\ req[q].core = d  BY <3>1 DEF Gone, First
    <3>3. /\ Stands(live[d], Went(q), req[q].mark)
          /\ \A p \in Requests : req[p].pc = "told" /\ req[p].core = d => req[q].mark < issued
      BY <2>1, <3>2 DEF IInv, Sent, Going
    <3>4. CASE d # c
      <4>1. Stands(live[d], Went(q), req[q].mark)'
        BY <1>4, <3>1, <3>3, <3>4 DEF Stands, Went, First, Excused, Spent, Due
      <4> QED  BY <2>2, <3>1, <3>3, <4>1
    <3>5. CASE d = c
      <4>1. Stands(live[d], Went(q), req[q].mark)'
        BY <1>6, <1>9, <2>1, <3>1, <3>3, <3>5 DEF Stands, Went, First
      <4> QED  BY <2>2, <3>5, <4>1
    <3> QED  BY <3>4, <3>5
  <2> QED  BY <2>3, <2>4
<1>25. Taking'
  <2>1. stage \in {"asked", "started", "paused", "yielded"} => live'[2] = live[2]
    BY <1>4, <1>8 DEF Accepts
  <2>2. stage \in {"asked", "started", "paused", "yielded"} /\ c = 1 =>
          UsableFor(live[1], file)' /\ cfg[1] = file
    BY <1>9, <1>10
  <2>3. c = 2 => live'[1] = live[1]  BY <1>4
  <2> QED  BY <2>1, <2>2, <2>3 DEF IInv, Taking, Matches, NewLogin
<1> QED
  BY <1>12, <1>13, <1>14, <1>15, <1>16, <1>18, <1>19, <1>20, <1>21, <1>22, <1>23, <1>24, <1>25
     DEF IInv

LEMMA CacheSteps ==
  ASSUME IInv, NEW r \in Requests, NEW c \in Cores, At(r, c), req[r].old = 0, ~Flying(r),
         FromCache(r, c, req[r].cfg), UNCHANGED <<Others, flight>>
  PROVE  IInv'
<1>1. CASE InConfig(live[c], req[r].cfg) /\ Gets(r, req[r].cfg.access)
           /\ live' = [live EXCEPT ![c] = FromConfig(req[r].cfg)]
  BY <1>1, Takes
<1>2. CASE \/ BacksOff(live[c], req[r].cfg) /\ Ends(r) /\ UNCHANGED live
           \/ InHand(live[c], req[r].cfg) /\ Gets(r, live[c].access) /\ UNCHANGED live
  BY <1>2, Found
<1> QED  BY <1>1, <1>2 DEF FromCache

LEMMA LookSteps == ASSUME IInv, NEW r \in Requests, Look(r) PROVE IInv'
<1> DEFINE c == req[r].core
<1>1. /\ req[r].pc = "starts" /\ UNCHANGED <<Others, flight>>
      /\ req \in [Requests -> Calls] /\ req[r] \in Calls /\ c \in Cores
  BY DEF Look, IInv, Shape, Calls
<1>2. At(r, c) /\ ~Flying(r)  BY <1>1 DEF At, Active, Flying
<1>3. req[r].old = 0  BY <1>1 DEF IInv, Callers, Calling
<1>4. CASE FromCache(r, c, req[r].cfg)
  <2> HIDE DEF c
  <2> QED  BY <1>1, <1>2, <1>3, <1>4, CacheSteps
<1>5. CASE UNCHANGED live /\ req' = [req EXCEPT ![r] = [req[r] EXCEPT !.pc = "waits"]]
  <2>1. /\ req'[r] = [req[r] EXCEPT !.pc = "waits"]
        /\ \A q \in Requests : q # r => req'[q] = req[q]
    BY <1>1, <1>5
  <2>2. req' \in [Requests -> Calls]
    <3>1. req'[r] \in Calls  BY <1>1, <2>1 DEF Calls
    <3> QED  BY <1>1, <1>5, <2>1, <3>1
  <2>3. /\ req'[r].pc = "waits" /\ req'[r].core = c /\ req'[r].cfg = req[r].cfg
        /\ req'[r].old = req[r].old /\ req'[r].ask = req[r].ask /\ req'[r].mark = req[r].mark
    BY <1>1, <2>1 DEF Calls
  <2>4. Moves(r)  BY <1>2, <2>1, <2>2, <2>3 DEF Moves, At
  <2>5. Marking /\ flight' \in [Cores -> SUBSET Requests]
    BY <1>1, <1>5 DEF Marking, IInv, Shape
  <2>6. \A q \in Requests : q # r /\ Flying(q) => flight'[req[q].core] = {q}
    BY <1>1 DEF IInv, Callers, Calling
  <2>7. Calling(r)'
    <3>1. At(r, 2) => Accepts(2)  BY DEF IInv, Callers, Calling
    <3> QED
      BY <1>1, <1>2, <1>3, <2>3, <3>1 DEF Calling, At, Active, Flying, First, Accepts, Drains
  <2>8. Having(r)'  BY <1>1, <1>5, <2>3 DEF IInv, Had, Having
  <2>9. Presenting(r)' /\ Going(r)'
    BY <2>3 DEF Presenting, Flying, Going, Gone, First
  <2> QED  BY <1>1, <2>3, <2>4, <2>5, <2>6, <2>7, <2>8, <2>9, RequestSteps
<1> QED  BY <1>4, <1>5 DEF Look

(* A request goes for a token: its core has none that it need not renew.   *)
LEMMA Renewing ==
  ASSUME IInv, NEW r \in Requests, NEW c \in Cores, At(r, c), ~Flying(r),
         flight[c] = {}, ~held[c], flight' = [flight EXCEPT ![c] = {r}],
         req' = [req EXCEPT ![r].pc = "asks", ![r].mark = 0,
                            ![r].ask = IF UsableFor(live[c], req[r].cfg)
                                       THEN live[c].refresh ELSE req[r].cfg.refresh],
         UNCHANGED Others, Marking,
         IF UsableFor(live[c], req[r].cfg) THEN ~Fresh(live[c]) /\ Spent(live[c])'
         ELSE file.access = 0 \/ age[file.access] = "late"
  PROVE  IInv'
<1> DEFINE n == IF UsableFor(live[c], req[r].cfg) THEN live[c].refresh ELSE req[r].cfg.refresh
<1>1. /\ req \in [Requests -> Calls] /\ req[r] \in Calls /\ req[r].core = c
      /\ req[r].cfg \in Configs /\ live[c] \in Entries /\ flight \in [Cores -> SUBSET Requests]
  BY DEF IInv, Shape, At, Calls
<1>2. Accepts(c)
  <2>1. c = 2 => Accepts(c)  BY DEF IInv, Callers, Calling
  <2>2. c = 1 => Accepts(c)  BY DEF IInv, Order, Accepts, Drains
  <2> QED  BY <2>1, <2>2
<1>3. /\ Same(c) /\ queue[c] = <<>>
      /\ UsableFor(live[c], req[r].cfg) <=> UsableFor(live[c], file)
  BY <1>2, AtRest
<1>4. n \in Numbers /\ n <= issued
  <2>1. live[c].refresh \in Numbers /\ req[r].cfg.refresh \in Numbers  BY <1>1 DEF Entries, Configs
  <2>2. live[c].refresh <= issued  BY DEF IInv, Issued
  <2>3. req[r].cfg.refresh <= issued
    <3>1. req[r].cfg.refresh <= file.refresh /\ file.refresh <= issued
      BY DEF IInv, Had, Having, Issued
    <3>2. file.refresh \in Nat /\ issued \in Nat /\ req[r].cfg.refresh \in Nat
      BY SMTT(60), <1>1 DEF IInv, Shape, Configs, Numbers
    <3> QED  BY <3>1, <3>2
  <2> QED  BY <2>1, <2>2, <2>3
<1>5. Safe(n, 1) \/ (c = 2 /\ Safe(n, 2))
  <2>1. CASE n = live[c].refresh
    <3>1. Safe(live[c].refresh, 1) \/ (c = 2 /\ Safe(live[c].refresh, 2))
      BY DEF IInv, Covered
    <3> QED  BY <2>1, <3>1
  <2>2. CASE n = req[r].cfg.refresh
    <3>1. n <= file.refresh  BY <2>2 DEF IInv, Had, Having
    <3> QED  BY <3>1 DEF Safe
  <2> QED  BY <2>1, <2>2
<1>6. req' = [req EXCEPT ![r].pc = "asks", ![r].mark = 0, ![r].ask = n]
  OBVIOUS
<1> HIDE DEF n
<1>7. /\ req'[r] = [req[r] EXCEPT !.pc = "asks", !.mark = 0, !.ask = n]
      /\ \A q \in Requests : q # r => req'[q] = req[q]
  BY <1>1, <1>6
<1>8. req'[r] \in Calls
  <2>1. 0 \in Numbers  BY DEF Numbers
  <2> QED  BY ZenonT(60), <1>1, <1>4, <1>7, <2>1 DEF Calls
<1>9. /\ req'[r].pc = "asks" /\ req'[r].mark = 0 /\ req'[r].ask = n
      /\ req'[r].core = c /\ req'[r].cfg = req[r].cfg
  BY <1>1, <1>7 DEF Calls
<1>10. Moves(r)
  <2>1. req' \in [Requests -> Calls]  BY <1>1, <1>6, <1>7, <1>8
  <2> QED  BY <1>1, <1>7, <1>9, <2>1 DEF Moves, At
<1>11. flight' \in [Cores -> SUBSET Requests] /\ flight'[c] = {r}
       /\ \A d \in Cores : d # c => flight'[d] = flight[d]
  BY <1>1
<1>12. \A q \in Requests : q # r /\ Flying(q) => flight'[req[q].core] = {q}
  <2> SUFFICES ASSUME NEW q \in Requests, Flying(q) PROVE flight'[req[q].core] = {q}
    OBVIOUS
  <2>1. flight[req[q].core] = {q} /\ req[q].core \in Cores
    BY DEF IInv, Callers, Calling, Shape, Calls
  <2> QED  BY <1>11, <2>1
<1>13. Calling(r)'
  BY <1>2, <1>9, <1>11 DEF Calling, At, Active, Flying, First, Accepts, Drains
<1>14. Having(r)'
  <2>1. Having(r) /\ issued \in Nat  BY DEF IInv, Had, Shape
  <2> QED  BY <1>4, <1>9, <2>1 DEF Having
<1>15. Presenting(r)'
  <2>1. UsableFor(live[c], file)' <=> UsableFor(live[c], file)
    <3>1. Shape  BY DEF IInv
    <3>2. UsableFor(live'[c], file) <=> UsableFor(live[c], file)  BY <3>1, MarkingKeeps
    <3> QED  BY <3>2
  <2>2. \A m : Safe(m, 1)' <=> Safe(m, 1)  BY DEF Safe
  <2>3. \A m : Safe(m, 2)' <=> Safe(m, 2)  BY DEF Safe
  <2> QED  BY <1>3, <1>5, <1>9, <2>1 DEF Presenting, Safe
<1>16. Going(r)'  BY <1>9 DEF Going, Gone, First
<1>17. \A d \in Cores : flight[d] = {} /\ flight'[d] # {} =>
         Same(d) /\ queue[d] = <<>> /\ ~held[d] /\ Accepts(d)
  BY <1>2, <1>3, <1>11
<1>18. req'[r].pc # "told"  BY <1>9
<1> QED
  BY ZenonT(60), <1>10, <1>11, <1>12, <1>13, <1>14, <1>15, <1>16, <1>17, <1>18, RequestSteps

LEMMA BoardSteps == ASSUME IInv, NEW r \in Requests, Board(r) PROVE IInv'
<1>0. PICK c \in Cores : req[r].core = c  BY DEF IInv, Shape, Calls
<1> DEFINE k == req[r].cfg
<1>1. /\ req[r].pc = "waits" /\ flight[c] = {} /\ UNCHANGED Others
      /\ live[c] \in Entries /\ k \in Configs
  BY <1>0 DEF Board, IInv, Shape, Calls
<1>2. At(r, c) /\ ~Flying(r) /\ req[r].old = 0
  BY <1>0, <1>1 DEF At, Active, Flying, IInv, Callers, Calling
<1>3. CASE FromCache(r, c, k) /\ UNCHANGED flight
  BY <1>1, <1>2, <1>3, CacheSteps
<1>4. CASE NotInCache(c, k) /\ Renew(r, c, k) /\ UNCHANGED live
  <2>1. Marking  BY <1>4, Unmarked
  <2>2. IF UsableFor(live[c], k) THEN Spent(live[c]) /\ ~Fresh(live[c])
        ELSE k.access = 0 \/ age[k.access] = "late"
    BY <1>4 DEF NotInCache, BacksOff, InHand, InConfig, Spent, Fresh, Due
  <2>3. Accepts(c) => /\ UsableFor(live[c], k) <=> UsableFor(live[c], file)
                      /\ ~UsableFor(live[c], file) => k = file
    BY <1>1, <1>2, <2>2, AtRest
  <2>4. CASE /\ held[c] /\ UNCHANGED flight
             /\ LET there == IF UsableFor(live[c], k) /\ live[c].access # 0
                             THEN live[c].access ELSE k.access
                IN IF there = 0 THEN Ends(r) ELSE Gets(r, there)
    <3> DEFINE there == IF UsableFor(live[c], k) /\ live[c].access # 0
                        THEN live[c].access ELSE k.access
    <3>1. CASE Ends(r)
      <4>1. flight' \in [Cores -> SUBSET Requests]  BY <2>4 DEF IInv, Shape
      <4> HIDE DEF there
      <4> QED  BY <1>1, <2>1, <2>4, <3>1, <4>1, Ending
    <3>2. CASE there # 0 /\ Gets(r, there)
      <4>1. there \in Numbers  BY <1>1 DEF Entries, Configs
      <4>2. ASSUME Accepts(c) PROVE Stands(live[c], there, issued)
        BY <2>2, <2>3, <3>2, <4>2 DEF Stands, Excused, Spent
      <4>3. \A q \in Requests : ~(req[q].pc = "told" /\ req[q].core = c)
        BY <1>1 DEF IInv, Callers, Calling, Flying
      <4> HIDE DEF there
      <4> QED  BY <1>1, <1>2, <1>4, <2>1, <2>4, <3>2, <4>1, <4>2, <4>3, Sends
    <3> QED  BY <2>4, <3>1, <3>2
  <2>5. CASE /\ ~held[c] /\ flight' = [flight EXCEPT ![c] = {r}]
             /\ req' = [req EXCEPT ![r].pc = "asks", ![r].mark = 0,
                                   ![r].ask = IF UsableFor(live[c], k)
                                              THEN live[c].refresh ELSE k.refresh]
    <3>1. Accepts(c)
      <4>1. c = 2 => Accepts(c)  BY <1>2 DEF IInv, Callers, Calling
      <4>2. c = 1 => Accepts(c)  BY <2>5 DEF IInv, Order, Accepts, Drains
      <4> QED  BY <1>1, <4>1, <4>2
    <3>2. Spent(live[c]) => Spent(live[c])'  BY <1>1, <1>4 DEF Spent, Due
    <3>3. IF UsableFor(live[c], k) THEN ~Fresh(live[c]) /\ Spent(live[c])'
          ELSE file.access = 0 \/ age[file.access] = "late"
      BY <2>2, <2>3, <3>1, <3>2
    <3> QED  BY <1>1, <1>2, <2>1, <2>5, <3>3, Renewing
  <2> QED  BY <1>4, <2>4, <2>5 DEF Renew
<1> QED  BY <1>0, <1>3, <1>4 DEF Board

LEMMA InvalidateSteps == ASSUME IInv, NEW r \in Requests, Invalidate(r) PROVE IInv'
<1>0. PICK c \in Cores : req[r].core = c  BY DEF IInv, Shape, Calls
<1> DEFINE k == req[r].cfg
           l == live[c]
<1>1. /\ req[r].pc = "again" /\ flight[c] = {} /\ UNCHANGED Others
      /\ l \in Entries /\ k \in Configs /\ live \in [Cores -> Entries]
      /\ flight \in [Cores -> SUBSET Requests]
  BY <1>0 DEF Invalidate, IInv, Shape, Calls
<1>2. At(r, c) /\ ~Flying(r) /\ req[r].old # 0 /\ Gone(r) /\ Went(r) = req[r].old
  BY <1>0, <1>1 DEF At, Active, Flying, IInv, Callers, Calling, Gone, Went, First
<1>3. CASE UsableFor(l, k) /\ JustRenewed(r, l) /\ Gets(r, l.access) /\ UNCHANGED <<live, flight>>
  <2>1. l.access \in Numbers  BY <1>1 DEF Entries
  <2>2. Marking  BY <1>3, Unmarked
  <2> QED  BY <1>1, <1>2, <1>3, <2>1, <2>2, Sends
<1>4. ASSUME Marking, Renew(r, c, k),
             IF UsableFor(l, k) THEN ~Fresh(l) /\ Spent(live[c])' ELSE UNCHANGED live
      PROVE  IInv'
  <2>1. CASE /\ held[c] /\ UNCHANGED flight
             /\ LET there == IF UsableFor(live[c], k) /\ live[c].access # 0
                             THEN live[c].access ELSE k.access
                IN IF there = 0 THEN Ends(r) ELSE Gets(r, there)
    <3> DEFINE there == IF UsableFor(live[c], k) /\ live[c].access # 0
                        THEN live[c].access ELSE k.access
    <3>1. there \in Numbers  BY <1>1 DEF Entries, Configs
    <3>2. (there = 0 /\ Ends(r)) \/ Gets(r, there)  BY <2>1
    <3>3. flight' \in [Cores -> SUBSET Requests]  BY <1>1, <2>1
    <3> HIDE DEF there
    <3>4. CASE Ends(r)  BY <1>1, <1>4, <2>1, <3>3, <3>4, Ending
    <3>5. CASE Gets(r, there)  BY <1>1, <1>2, <1>4, <2>1, <3>1, <3>5, Sends
    <3> QED  BY <3>2, <3>4, <3>5
  <2>2. CASE /\ ~held[c] /\ flight' = [flight EXCEPT ![c] = {r}]
             /\ req' = [req EXCEPT ![r].pc = "asks", ![r].mark = 0,
                                   ![r].ask = IF UsableFor(live[c], k)
                                              THEN live[c].refresh ELSE k.refresh]
    <3>1. Accepts(c)
      <4>1. c = 2 => Accepts(c)  BY <1>2 DEF IInv, Callers, Calling
      <4>2. c = 1 => Accepts(c)  BY <2>2 DEF IInv, Order, Accepts, Drains
      <4> QED  BY <4>1, <4>2
    <3>2. ~UsableFor(l, k) => age[file.access] = "late"
      <4> SUFFICES ASSUME ~UsableFor(l, k) PROVE age[file.access] = "late"  OBVIOUS
      <4>1. ~UsableFor(l, file)  BY <1>2, <3>1, AtRest
      <4>2. Stands(l, req[r].old, req[r].mark)  BY <1>0, <1>2, <3>1 DEF IInv, Sent, Going
      <4> QED  BY <4>1, <4>2 DEF Stands
    <3> QED  BY <1>1, <1>2, <1>4, <2>2, <3>2, Renewing
  <2> QED  BY <1>4, <2>1, <2>2 DEF Renew
<1>5. CASE /\ UsableFor(l, k) /\ ~JustRenewed(r, l) /\ Renew(r, c, k)
           /\ live' = [live EXCEPT ![c] = [live[c] EXCEPT !.now = TRUE, !.failed = "no"]]
  <2>1. ~Fresh(l)  BY <1>5 DEF Fresh, JustRenewed, Due
  <2>2. live'[c] = [l EXCEPT !.now = TRUE, !.failed = "no"]  BY <1>1, <1>5
  <2>3. live'[c].now  BY <1>1, <2>2 DEF Entries
  <2>4. Spent(live[c])'  BY <2>3 DEF Spent, Due
  <2>5. queue[c] = <<>> /\ (Accepts(c) => Same(c))
    <3>1. CASE Accepts(c)  BY <1>2, <2>1, <3>1, AtRest
    <3>2. CASE ~Accepts(c)
      <4>1. c = 1  BY <1>2, <3>2 DEF IInv, Callers, Calling
      <4> QED  BY <3>2, <4>1 DEF IInv, Order, Accepts, Drains
    <3> QED  BY <3>1, <3>2
  <2>6. Marks(c)  BY <1>5, <2>2, <2>5 DEF Marks, UsableFor
  <2>7. live' \in [Cores -> Entries]
    <3>1. live'[c] \in Entries  BY <1>1, <2>2 DEF Entries
    <3> QED  BY <1>1, <1>5, <2>2, <3>1
  <2>8. Marking  BY <1>1, <1>5, <2>6, <2>7 DEF Marking
  <2> QED  BY <1>4, <1>5, <2>1, <2>4, <2>8
<1>6. CASE ~UsableFor(l, k) /\ Renew(r, c, k) /\ UNCHANGED live
  <2>1. Marking  BY <1>6, Unmarked
  <2> QED  BY <1>4, <1>6, <2>1
<1>7. \/ UsableFor(l, k) /\ JustRenewed(r, l) /\ Gets(r, l.access) /\ UNCHANGED <<live, flight>>
      \/ /\ UsableFor(l, k) /\ ~JustRenewed(r, l) /\ Renew(r, c, k)
         /\ live' = [live EXCEPT ![c].now = TRUE, ![c].failed = "no"]
      \/ ~UsableFor(l, k) /\ Renew(r, c, k) /\ UNCHANGED live
  BY <1>0 DEF Invalidate
<1>8. CASE live' = [live EXCEPT ![c].now = TRUE, ![c].failed = "no"]
  <2>1. live' = [live EXCEPT ![c] = [live[c] EXCEPT !.now = TRUE, !.failed = "no"]]
    BY <1>1, <1>8
  <2> QED  BY <1>3, <1>5, <1>6, <1>7, <2>1
<1> QED  BY <1>3, <1>6, <1>7, <1>8

-----------------------------------------------------------------------------
(* Tokens that are issued, and that arrive *)

(* Only one request goes to the token endpoint, whatever its core. *)
LEMMA OneFlies ==
  ASSUME IInv, NEW r \in Requests, NEW q \in Requests, Flying(r), Flying(q)
  PROVE  q = r
<1>1. /\ flight[req[r].core] = {r} /\ flight[req[q].core] = {q}
      /\ req[r].core \in {1, 2} /\ req[q].core \in {1, 2}
  BY DEF IInv, Callers, Calling, Shape, Calls
<1>2. flight[1] = {} \/ flight[2] = {}  BY DEF IInv, Order
<1> QED  BY <1>1, <1>2

(* What a request that is under way finds in its core. *)
LEMMA Landing ==
  ASSUME IInv, NEW r \in Requests, NEW c \in Cores, Flying(r), req[r].core = c
  PROVE  /\ flight[c] = {r} /\ Accepts(c) /\ Same(c) /\ At(r, c)
         /\ req[r].cfg.refresh = file.refresh
         /\ \A d \in Cores : queue[d] = <<>> /\ (d # c => flight[d] = {})
         /\ stage \in IF c = 1 THEN {"alone", "asked", "started", "paused"}
                      ELSE {"committed", "drained"}
<1>1. flight[c] = {r} /\ Accepts(c) /\ At(r, c)  BY Flight
<1>2. Same(c) /\ queue[c] = <<>> /\ req[r].cfg.refresh = file.refresh  BY <1>1, AtRest
<1>3. stage \in IF c = 1 THEN {"alone", "asked", "started", "paused"}
                ELSE {"committed", "drained"}
  BY <1>1 DEF IInv, Order
<1>4. \A d \in Cores : d # c => flight[d] = {}  BY <1>3 DEF IInv, Order
<1>5. \A d \in Cores : d # c => queue[d] = <<>>
  <2>1. CASE c = 1  BY <1>3, <2>1 DEF IInv, Order
  <2>2. CASE c = 2  BY <1>3, <2>2 DEF IInv, Order
  <2> QED  BY <2>1, <2>2
<1> QED  BY <1>1, <1>2, <1>3, <1>4, <1>5

LEMMA IssueSteps ==
  ASSUME IInv, NEW r \in Requests, NEW rotated \in BOOLEAN, Issue(r, rotated) PROVE IInv'
<1>1. /\ req[r].pc = "asks" /\ issued < MaxTokens
      /\ issued' = issued + 1 /\ age' = [age EXCEPT ![issued + 1] = "young"]
      /\ req' = [req EXCEPT ![r].pc = "told", ![r].got = issued + 1, ![r].rotated = rotated]
      /\ UNCHANGED <<world, signedIn, cores, back, handover>>
  BY DEF Issue
<1>2. /\ req \in [Requests -> Calls] /\ req[r] \in Calls /\ issued \in Nat \ {0}
      /\ issued' \in Tokens /\ issued' \in Numbers
      /\ age \in [Tokens -> {"young", "good", "late"}]
  BY <1>1 DEF IInv, Shape, Numbers
<1>3. /\ req'[r] = [req[r] EXCEPT !.pc = "told", !.got = issued', !.rotated = rotated]
      /\ \A q \in Requests : q # r => req'[q] = req[q]
  BY <1>1, <1>2
<1>4. req'[r] \in Calls  BY ZenonT(60), <1>2, <1>3 DEF Calls
<1>5. /\ req'[r].pc = "told" /\ req'[r].got = issued' /\ req'[r].ask = req[r].ask
      /\ req'[r].core = req[r].core /\ req'[r].cfg = req[r].cfg /\ req'[r].mark = req[r].mark
  BY <1>2, <1>3 DEF Calls
<1>6. \A n \in Nat \ {0} : n <= issued => age'[n] = age[n]
  BY <1>1, <1>2
<1>7. age' \in [Tokens -> {"young", "good", "late"}] /\ age'[issued'] = "young"
  BY <1>1, <1>2
<1>8. Moves(r)
  <2>1. req' \in [Requests -> Calls]  BY <1>1, <1>2, <1>3, <1>4
  <2> QED  BY <1>1, <1>3, <1>5, <2>1 DEF Moves, Active
<1>9. Flying(r) /\ \A q \in Requests : Flying(q) <=> Flying(q)'
  BY <1>1, <1>3, <1>5 DEF Flying
<1>10. \A q \in Requests : Flying(q) => q = r  BY <1>9, OneFlies
<1>11. \A l \in Entries : l.access <= issued =>
          (Fresh(l) <=> Fresh(l)') /\ (Spent(l) <=> Spent(l)') /\ (Excused(l) <=> Excused(l)')
  BY <1>1, <1>6 DEF Entries, Numbers, Fresh, Spent, Due, Excused
<1>12. \A c \in Cores : live[c] \in Entries /\ live[c].access <= issued
  BY DEF IInv, Shape, Issued
<1>13. Shape'  BY <1>1, <1>2, <1>7, <1>8 DEF IInv, Shape, Moves
<1>14. Order'  BY <1>1 DEF IInv, Order
<1>15. Callers'
  <2> SUFFICES ASSUME NEW q \in Requests PROVE Calling(q)'  BY DEF Callers
  <2>1. Calling(q)  BY DEF IInv, Callers
  <2>2. CASE q = r
    BY ZenonT(60), <1>1, <1>5, <1>9, <2>1, <2>2
      DEF Calling, At, Active, Flying, First, Accepts, Drains
  <2>3. CASE q # r
    BY <1>1, <1>3, <2>1, <2>3 DEF Calling, At, Active, Flying, First, Accepts, Drains
  <2> QED  BY <2>2, <2>3
<1>0. Shape  BY DEF IInv
<1>16. Issued'
  <2>1. \A n \in Nat : n <= issued => n <= issued'  BY <1>1, <1>2
  <2> QED  BY <1>0, <1>1, <2>1, Sizes DEF IInv, Issued
<1>17. Had'
  <2> SUFFICES ASSUME NEW q \in Requests PROVE Having(q)'  BY DEF Had
  <2>1. Having(q) /\ req[q] \in Calls  BY <1>2 DEF IInv, Had
  <2>0. req[q].cfg.access <= issued' /\ req[q].ask <= issued' /\ req[q].mark <= issued'
    <3>1. req[q].cfg.access \in Nat /\ req[q].ask \in Nat /\ req[q].mark \in Nat
      BY <2>1 DEF Calls, Configs, Numbers
    <3>2. req[q].cfg.access <= issued /\ req[q].ask <= issued /\ req[q].mark <= issued
      BY <2>1 DEF Having
    <3>3. \A n \in Nat : n <= issued => n <= issued'  BY <1>1, <1>2
    <3> QED  BY <3>1, <3>2, <3>3
  <2>2. CASE q = r
    <3>1. /\ file.refresh < issued' /\ file.access < issued'
          /\ \A c \in Cores : live[c].refresh < issued' /\ cfg[c].access < issued'
          /\ snapshot.live.refresh < issued'
      <4>1. \A n \in Nat : n <= issued => n < issued'  BY <1>1, <1>2
      <4> QED  BY <1>0, <4>1, Sizes DEF IInv, Issued
    <3> QED  BY <1>1, <1>5, <1>7, <2>1, <2>2, <2>0, <3>1 DEF Having
  <2>3. CASE q # r
    <3>1. req'[q].pc # "told"  BY <1>3, <1>10, <2>3 DEF Flying
    <3> QED  BY <1>1, <1>3, <2>1, <2>3, <2>0, <3>1 DEF Having
  <2> QED  BY <2>2, <2>3
<1>18. \A c \in Cores : Same(c) => Same(c)'  BY <1>1, <1>8, SameStays
<1>19. Queued' /\ Lagging' /\ Strangers' /\ Ours'
  <2>0. UNCHANGED <<signedIn, cores, back, handover>>  BY <1>1
  <2>1. \A q \in Requests, c \in Cores : At(q, c)' => At(q, c) /\ req'[q].cfg = req[q].cfg
    BY <1>8, MovesAt
  <2>2. \A c \in Cores : Fresh(live[c]) => Fresh(live[c])'
    <3>1. \A c \in Cores : live'[c] = live[c]  BY <1>1
    <3>2. \A c \in Cores : Fresh(live[c]) <=> Fresh(live[c])'  BY <1>1, <1>11, <1>12, <3>1 DEF Fresh
    <3> QED  BY <3>2
  <2>3. Queued'
    <3> SUFFICES ASSUME NEW c \in Cores, NEW new \in Configs, queue[c] = <<new>>
                 PROVE  Sending(c, new)'
      BY <1>1 DEF Queued
    <3>1. Sending(c, new)  BY DEF IInv, Queued
    <3>2. Same(c)' /\ Fresh(live[c])'  BY <1>18, <2>2, <3>1 DEF Sending
    <3> QED  BY <1>1, <3>1, <3>2 DEF Sending
  <2>4. Lagging'
    <3> SUFFICES ASSUME NEW c \in Cores, Accepts(c), Behind(c) PROVE Behind(c)'
      BY <1>1, <1>18 DEF IInv, Lagging, Accepts, Drains
    <3>1. Fresh(live[c])'  BY <2>2 DEF Behind
    <3> QED  BY <2>0, <2>1, <3>1 DEF Behind
  <2>5. Strangers' /\ Ours'
    BY <2>0, <2>1 DEF IInv, Strangers, Strange, Ours, Accepts, Drains
  <2> QED  BY <2>3, <2>4, <2>5
<1>20. Covered' /\ Taking'
  BY <1>1 DEF IInv, Covered, Safe, Taking, Matches, NewLogin
<1>21. Asking'
  <2> SUFFICES ASSUME NEW q \in Requests, NEW c \in Cores, Flying(q)', req'[q].core = c
               PROVE  /\ Safe(req[q].ask, 1)' \/ (c = 2 /\ Safe(req[q].ask, 2)')
                      /\ IF UsableFor(live[c], file)' THEN Spent(live[c])'
                         ELSE (file.access = 0 \/ age[file.access] = "late")'
    BY DEF Asking, Presenting
  <2>1. q = r /\ Flying(q) /\ req[q].core = c  BY <1>5, <1>9, <1>10
  <2>2. /\ Safe(req[r].ask, 1) \/ (c = 2 /\ Safe(req[r].ask, 2))
        /\ IF UsableFor(live[c], file) THEN Spent(live[c])
           ELSE file.access = 0 \/ age[file.access] = "late"
    BY <2>1 DEF IInv, Asking, Presenting
  <2>3. Spent(live[c]) => Spent(live[c])'
    BY <1>1, <1>6, <1>12 DEF Entries, Numbers, Spent, Due
  <2>4. file.access = 0 \/ age'[file.access] = age[file.access]
    BY <1>6 DEF IInv, Shape, Issued, Configs, Numbers
  <2> QED  BY <1>1, <1>5, <2>1, <2>2, <2>3, <2>4 DEF Safe
<1>22. Causes'
  <2>1. \A c \in Cores : Excused(live[c]) => Excused(live[c])'
    BY <1>1, <1>6, <1>12 DEF Entries, Numbers, Excused, Spent, Due
  <2>2. Excused(snapshot.live) => Excused(snapshot.live)'
    <3>1. snapshot.live.access \in Nat /\ snapshot.live.access <= issued
      BY <1>0, Sizes DEF IInv, Issued
    <3>2. snapshot.live.access # 0 /\ age[snapshot.live.access] = "late"
             => age'[snapshot.live.access] = "late"
      BY <1>6, <3>1
    <3> QED  BY <1>1, <3>2 DEF Excused, Spent, Due
  <2> QED  BY <1>1, <2>1, <2>2 DEF IInv, Causes
<1>23. Sent'
  <2> SUFFICES ASSUME NEW q \in Requests, NEW c \in Cores,
                      Gone(q)', req'[q].core = c, Accepts(c)'
               PROVE  /\ Stands(live[c], Went(q), req[q].mark)'
                      /\ \A p \in Requests :
                           req'[p].pc = "told" /\ req'[p].core = c => req'[q].mark < issued'
    BY DEF Sent, Going
  <2>1. q # r  BY <1>5 DEF Gone, First
  <2>2. req'[q] = req[q] /\ req[q] \in Calls  BY <1>2, <1>3, <2>1
  <2>3. Gone(q) /\ req[q].core = c /\ Accepts(c)
    BY <1>1, <2>2 DEF Gone, First, Accepts, Drains
  <2>4. Stands(live[c], Went(q), req[q].mark)  BY <2>3 DEF IInv, Sent, Going
  <2>5. Went(q) # 0  BY <2>3 DEF IInv, Callers, Calling, Gone, Went, First
  <2>6. Stands(live[c], Went(q), req[q].mark)'
    <3>1. Excused(live[c]) => Excused(live[c])'
      BY <1>1, <1>6, <1>12 DEF Entries, Numbers, Excused, Spent, Due
    <3>2. file.access = 0 \/ age'[file.access] = age[file.access]
      BY <1>6 DEF IInv, Shape, Issued, Configs, Numbers
    <3> QED  BY <1>1, <2>2, <2>4, <2>5, <3>1, <3>2 DEF Stands, Went, First
  <2>7. req'[q].mark < issued'
    <3>1. req[q].mark <= issued /\ req[q].mark \in Nat
      BY <2>2 DEF IInv, Had, Having, Calls, Numbers
    <3> QED  BY <1>1, <1>2, <2>2, <3>1
  <2> QED  BY <2>6, <2>7
<1> QED
  BY <1>13, <1>14, <1>15, <1>16, <1>17, <1>19, <1>20, <1>21, <1>22, <1>23 DEF IInv

(* A request is back from the token endpoint, and its core has l now. *)
LEMMA Lands ==
  ASSUME IInv, NEW r \in Requests, NEW c \in Cores, Flying(r), req[r].core = c,
         Moves(r), ~Flying(r)', Calling(r)', Having(r)', Going(r)',
         NEW l \in Entries, live' = [live EXCEPT ![c] = l], l # None, l.fp = file.refresh,
         l.refresh <= issued, l.access <= issued, l.failed # "no" => Excused(l),
         Excused(l) \/ (l.own /\ l.access = issued /\ req[r].pc = "told"),
         flight' = [flight EXCEPT ![c] = {}],
         UNCHANGED <<world, tokens, cfg, held, file, writes, handover>>,
         told' \in [Cores -> BOOLEAN], \A d \in Cores : told[d] => told'[d],
         \/ UNCHANGED queue
         \/ \E new \in Configs : /\ writes[c] /\ queue' = [queue EXCEPT ![c] = <<new>>]
                                 /\ Sending(c, new)',
         Safe(l.refresh, 1)' \/ (c = 2 /\ Safe(l.refresh, 2)')
  PROVE  IInv'
<1>1. Shape  BY DEF IInv
<1>2. /\ live'[c] = l /\ flight'[c] = {}
      /\ \A d \in Cores : d # c => live'[d] = live[d] /\ flight'[d] = flight[d]
  BY <1>1 DEF Shape
<1>3. /\ flight[c] = {r} /\ Accepts(c) /\ Same(c)
      /\ \A d \in Cores : queue[d] = <<>> /\ (d # c => flight[d] = {})
      /\ stage \in IF c = 1 THEN {"alone", "asked", "started", "paused"}
                   ELSE {"committed", "drained"}
  BY Landing
<1>4. \A q \in Requests : ~Flying(q)'
  <2> SUFFICES ASSUME NEW q \in Requests, q # r, Flying(q)' PROVE FALSE  OBVIOUS
  <2>1. Flying(q)  BY DEF Moves, Flying
  <2> QED  BY <2>1, OneFlies
<1>5. \A q \in Requests, d \in Cores : At(q, d)' => At(q, d) /\ req'[q].cfg = req[q].cfg
  BY MovesAt
<1>6. \A d \in Cores : Same(d) => Same(d)'  BY SameStays
<1>7. \A d \in Cores, n \in Nat : Safe(n, d) => Safe(n, d)'
  BY <1>3, OneInQueue DEF Safe
<1>8. UsableFor(l, file)  BY DEF UsableFor
<1>9. Shape'
  <2>1. live' \in [Cores -> Entries] /\ flight' \in [Cores -> SUBSET Requests]
    BY <1>1 DEF Shape
  <2>2. queue' \in [Cores -> {<<>>} \cup {<<new>> : new \in Configs}]  BY <1>1 DEF Shape
  <2>3. req' \in [Requests -> Calls]  BY DEF Moves
  <2> QED  BY <1>1, <2>1, <2>2, <2>3 DEF Shape
<1>10. Order'
  <2>1. queue'[2] # <<>> => stage = "drained"
    <3>1. queue'[2] # <<>> => writes[2]  BY <1>1, <1>3 DEF Shape
    <3> QED  BY <3>1 DEF IInv, Order
  <2>2. queue'[1] # <<>> => c = 1  BY <1>1, <1>3 DEF Shape
  <2>3. stage \in {"alone", "asked"} => c = 1  BY <1>3
  <2>4. flight'[1] = {} /\ flight'[2] = {}  BY <1>2, <1>3
  <2>5. stage \in {"alone", "asked"} => live'[2] = None  BY <1>2, <2>3 DEF IInv, Order
  <2>6. UNCHANGED <<world, stage, snapshot, held, writes>>  OBVIOUS
  <2>7. queue'[1] # <<>> => stage \in {"alone", "asked", "started", "paused"}
    BY <1>3, <2>2
  <2> QED  BY <2>1, <2>4, <2>5, <2>6, <2>7 DEF IInv, Order
<1>11. Callers'
  <2> SUFFICES ASSUME NEW q \in Requests, q # r PROVE Calling(q)'  BY DEF Callers
  <2>1. req'[q] = req[q] /\ Calling(q) /\ ~Flying(q)'  BY <1>4 DEF Moves, IInv, Callers
  <2> QED  BY <2>1 DEF Calling, Active, At, First, Accepts, Drains
<1>12. Issued'  BY <1>2 DEF IInv, Issued
<1>13. Had'
  <2> SUFFICES ASSUME NEW q \in Requests, q # r PROVE Having(q)'  BY DEF Had
  <2>1. req'[q] = req[q] /\ Having(q) /\ ~Flying(q)'  BY <1>4 DEF Moves, IInv, Had
  <2> QED  BY <2>1 DEF Having, Flying
<1>14. Queued'
  <2> SUFFICES ASSUME NEW d \in Cores, NEW new \in Configs, queue'[d] = <<new>>
               PROVE  Sending(d, new)'
    BY DEF Queued
  <2>1. queue[d] # queue'[d]  BY <1>3, OneInQueue
  <2>2. PICK now \in Configs : queue' = [queue EXCEPT ![c] = <<now>>] /\ Sending(c, now)'
    BY <2>1
  <2>3. d = c /\ queue'[c] = <<now>>  BY <1>1, <2>1, <2>2 DEF Shape
  <2>4. now = new  BY <2>3, OneInQueue
  <2> QED  BY <2>2, <2>3, <2>4
<1>15. Lagging'
  <2> SUFFICES ASSUME NEW d \in Cores, Accepts(d), ~Same(d) PROVE Behind(d)'
    BY <1>6 DEF Lagging, Accepts, Drains
  <2>1. Behind(d) /\ d # c  BY <1>3 DEF IInv, Lagging
  <2>2. live'[d] = live[d] /\ flight'[d] = flight[d]  BY <1>2, <2>1
  <2>3. queue'[d] = queue[d]  BY <1>1, <2>1 DEF Shape
  <2> QED  BY <1>5, <2>1, <2>2, <2>3 DEF Behind, Fresh
<1>16. Ours'  BY <1>2, <1>8 DEF IInv, Ours, Accepts, Drains, UsableFor
<1>17. Strangers'
  <2> SUFFICES ASSUME NEW d \in Cores, Accepts(d), ~UsableFor(live'[d], file)
               PROVE  Strange(d)'
    BY DEF Strangers, Accepts, Drains
  <2>1. d # c  BY <1>2, <1>8
  <2>2. Strange(d)  BY <1>2, <2>1 DEF IInv, Strangers
  <2>3. queue'[d] = queue[d]  BY <1>1, <2>1 DEF Shape
  <2> QED  BY <1>5, <2>2, <2>3 DEF Strange
<1>18. Covered'
  <2>1. snapshot.live.refresh \in Nat /\ \A d \in Cores : live[d].refresh \in Nat
    BY <1>1, Sizes
  <2>2. Safe(snapshot.live.refresh, 1)'  BY <1>7, <2>1 DEF IInv, Covered, Safe
  <2>3. CASE c = 1
    <3>1. Safe(live[1].refresh, 1)'  BY <1>2, <2>3 DEF Safe
    <3>2. Safe(live[2].refresh, 1)' \/ Safe(live[2].refresh, 2)'
      BY <1>2, <1>7, <2>1, <2>3 DEF IInv, Covered, Safe
    <3> QED  BY <2>2, <3>1, <3>2 DEF Covered
  <2>4. CASE c = 2
    <3>1. Safe(live[1].refresh, 1)'  BY <1>2, <1>7, <2>1, <2>4 DEF IInv, Covered, Safe
    <3>2. Safe(live[2].refresh, 1)' \/ Safe(live[2].refresh, 2)'  BY <1>2, <2>4 DEF Safe
    <3> QED  BY <2>2, <3>1, <3>2 DEF Covered
  <2> QED  BY <2>3, <2>4
<1>19. Asking'  BY <1>4 DEF Asking, Presenting
<1>20. Causes'  BY <1>2 DEF IInv, Causes, Excused, Spent, Due
<1>21. Sent'
  <2> SUFFICES ASSUME NEW q \in Requests, q # r PROVE Going(q)'  BY DEF Sent
  <2> SUFFICES ASSUME NEW d \in Cores, Gone(q)', req'[q].core = d, Accepts(d)'
               PROVE  Stands(live[d], Went(q), req[q].mark)'
    BY <1>4 DEF Going, Flying
  <2>1. req'[q] = req[q]  BY DEF Moves
  <2>2. Gone(q) /\ req[q].core = d /\ Accepts(d)  BY <2>1 DEF Gone, First, Accepts, Drains
  <2>3. /\ Stands(live[d], Went(q), req[q].mark)
        /\ \A p \in Requests : req[p].pc = "told" /\ req[p].core = d => req[q].mark < issued
    BY <2>2 DEF IInv, Sent, Going
  <2>4. CASE d # c
    <3>1. live'[d] = live[d]  BY <1>2, <2>4
    <3> QED  BY <2>1, <2>3, <3>1 DEF Stands, Went, First, Excused, Spent, Due
  <2>5. CASE d = c
    <3>1. UsableFor(l, file)' /\ live'[d] = l  BY <1>2, <1>8, <2>5
    <3>2. Excused(l) \/ (l.own /\ req[q].mark < l.access)  BY <2>3, <2>5
    <3> QED  BY <2>1, <3>1, <3>2 DEF Stands, Excused, Spent, Due
  <2> QED  BY <2>4, <2>5
<1>22. Taking'
  <2>1. c = 1 => UsableFor(live'[1], file)  BY <1>2, <1>8
  <2>2. c = 2 => live'[1] = live[1]  BY <1>2
  <2>3. stage # "yielded"  BY <1>3
  <2>4. stage \in {"started", "paused"} => c = 1 /\ live'[2] = live[2]  BY <1>2, <1>3
  <2> QED  BY <2>1, <2>2, <2>3, <2>4 DEF IInv, Taking, NewLogin
<1> QED
  BY <1>9, <1>10, <1>11, <1>12, <1>13, <1>14, <1>15, <1>16, <1>17, <1>18, <1>19, <1>20,
     <1>21, <1>22 DEF IInv

LEMMA FailSteps == ASSUME IInv, NEW r \in Requests, Fail(r) PROVE IInv'
<1>0. PICK c \in Cores : req[r].core = c  BY DEF IInv, Shape, Calls
<1> DEFINE old == IF live[c] = None
                  THEN [None EXCEPT !.refresh = req[r].ask, !.now = TRUE] ELSE live[c]
           new == [old EXCEPT !.fp = req[r].cfg.refresh, !.failed = "wait"]
<1>1. /\ Flying(r) /\ live' = [live EXCEPT ![c] = new]
      /\ flight' = [flight EXCEPT ![c] = {}] /\ Ends(r) /\ UNCHANGED Others
  BY <1>0 DEF Fail, Flying
<1>2. /\ Shape /\ req[r] \in Calls /\ live[c] \in Entries /\ req[r].cfg.refresh \in Numbers
      /\ req[r].ask \in Numbers /\ issued \in Nat
  BY DEF IInv, Shape, Calls, Configs
<1>3. Accepts(c) /\ Same(c) /\ req[r].cfg.refresh = file.refresh  BY <1>0, <1>1, Landing
<1>4. /\ old \in Entries /\ old.refresh = IF live[c] = None THEN req[r].ask ELSE live[c].refresh
      /\ old.access = live[c].access /\ (live[c] = None \/ live[c].now => old.now)
  <2>1. CASE live[c] = None
    <3>1. old = [None EXCEPT !.refresh = req[r].ask, !.now = TRUE]  BY <2>1
    <3>2. None \in Entries  BY DEF None, Entries, Numbers
    <3> QED  BY <1>2, <2>1, <3>1, <3>2 DEF None, Entries
  <2>2. CASE live[c] # None
    <3>1. old = live[c]  BY <2>2
    <3> HIDE DEF old
    <3> QED  BY <1>2, <2>2, <3>1
  <2> QED  BY <2>1, <2>2
<1> HIDE DEF old
<1>5. PICK l \in Entries :
        /\ live' = [live EXCEPT ![c] = l]
        /\ l.refresh = (IF live[c] = None THEN req[r].ask ELSE live[c].refresh)
        /\ l.access = live[c].access /\ (live[c] = None \/ live[c].now => l.now)
        /\ l.fp = req[r].cfg.refresh /\ l.failed = "wait"
  <2>1. /\ new \in Entries /\ new.refresh = old.refresh /\ new.access = old.access
        /\ old.now => new.now
        /\ new.fp = req[r].cfg.refresh /\ new.failed = "wait"
    BY <1>2, <1>4 DEF Entries
  <2> HIDE DEF new
  <2> QED  BY <1>1, <1>4, <2>1
<1> HIDE DEF new
<1>6. l # None  BY <1>5 DEF None
<1>7. l.refresh <= issued /\ l.access <= issued
  BY <1>0, <1>5 DEF IInv, Issued, Had, Having
<1>8. Excused(l)
  <2>1. CASE live[c] = None  BY <1>4, <1>5, <2>1 DEF Excused, Spent, Due
  <2>2. CASE live[c] # None /\ UsableFor(live[c], file)
    <3>1. Spent(live[c])  BY <1>0, <1>1, <2>2 DEF IInv, Asking, Presenting
    <3> QED  BY <1>4, <1>5, <2>2, <3>1 DEF Excused, Spent, Due
  <2>3. CASE live[c] # None /\ ~UsableFor(live[c], file)
    <3>1. live[c].refresh < signedIn  BY <1>3, <2>3 DEF IInv, Ours
    <3> QED  BY <1>4, <1>5, <2>3, <3>1 DEF Excused
  <2> QED  BY <2>1, <2>2, <2>3
<1>9. Safe(l.refresh, 1)' \/ (c = 2 /\ Safe(l.refresh, 2)')
  <2>1. Safe(l.refresh, 1) \/ (c = 2 /\ Safe(l.refresh, 2))
    <3>1. CASE live[c] = None
      BY <1>0, <1>1, <1>4, <1>5, <3>1 DEF IInv, Asking, Presenting
    <3>2. CASE live[c] # None  BY <1>4, <1>5, <3>2 DEF IInv, Covered
    <3> QED  BY <3>1, <3>2
  <2> QED  BY <1>1, <2>1 DEF Safe
<1>10. req' \in [Requests -> Calls] /\ req'[r] = Idle /\ \A q \in Requests : q # r => req'[q] = req[q]
  BY <1>1, <1>2, IdleIsCall DEF Ends, Shape
<1>11. Moves(r)  BY <1>10 DEF Moves
<1>12. ~Flying(r)' /\ Calling(r)' /\ Going(r)'
  BY <1>10 DEF Calling, Going, Gone, Active, At, Flying, First, Idle
<1>13. Having(r)'
  <2>1. /\ Idle.cfg.refresh = 0 /\ Idle.cfg.access = 0 /\ Idle.ask = 0 /\ Idle.mark = 0
        /\ Idle.pc = "idle"
    BY DEF Idle
  <2>2. file'.refresh \in Nat /\ issued' \in Nat  BY <1>1, <1>2, Sizes
  <2> QED  BY <1>10, <2>1, <2>2 DEF Having
<1>14. told' \in [Cores -> BOOLEAN]  BY <1>1, <1>2 DEF Shape
<1> QED
  BY <1>0, <1>1, <1>3, <1>5, <1>6, <1>7, <1>8, <1>9, <1>11, <1>12, <1>13, <1>14, Lands

LEMMA GetsMoves ==
  ASSUME IInv, NEW r \in Requests, NEW c \in Cores, At(r, c), NEW a \in Numbers, Gets(r, a),
         UNCHANGED <<stage, file, issued>>
  PROVE  /\ Moves(r) /\ ~Flying(r)' /\ Calling(r)' /\ Having(r)'
         /\ Gone(r)' => Went(r)' = a /\ req'[r].core = c
<1>1. Shape /\ Active(r) /\ req[r].core = c /\ req \in [Requests -> Calls]
  BY DEF IInv, At, Shape
<1>2. CASE a = req[r].old
  <2>1. req' \in [Requests -> Calls] /\ req'[r] = Idle
        /\ \A q \in Requests : q # r => req'[q] = req[q]
    BY <1>1, <1>2, IdleIsCall DEF Gets, Ends
  <2>2. Moves(r)  BY <2>1 DEF Moves
  <2>3. ~Flying(r)' /\ Calling(r)' /\ ~Gone(r)'
    BY <2>1 DEF Calling, Gone, Active, At, Flying, First, Idle
  <2>4. Having(r)'
    <3>1. /\ Idle.cfg.refresh = 0 /\ Idle.cfg.access = 0 /\ Idle.ask = 0 /\ Idle.mark = 0
          /\ Idle.pc = "idle"
      BY DEF Idle
    <3>2. file'.refresh \in Nat /\ issued' \in Nat  BY <1>1, Sizes
    <3> QED  BY <2>1, <3>1, <3>2 DEF Having
  <2> QED  BY <2>2, <2>3, <2>4
<1>3. CASE a # req[r].old
  <2>1. /\ Moves(r)
        /\ req'[r].pc = "sent" /\ req'[r].token = a /\ req'[r].ask = 0
        /\ req'[r].mark = IF req[r].old = 0 THEN issued ELSE 0
        /\ req'[r].core = c /\ req'[r].cfg = req[r].cfg /\ req'[r].old = req[r].old
    BY <1>1, <1>3, Goes
  <2>2. Calling(r)'  BY <1>1, <1>3, <2>1, GoneIsCalling
  <2>3. Having(r)'
    <3>1. Having(r) /\ issued \in Nat  BY <1>1, Sizes DEF IInv, Had
    <3> QED  BY <2>1, <3>1 DEF Having
  <2> QED  BY <2>1, <2>2, <2>3 DEF Flying, Gone, Went, First
<1> QED  BY <1>2, <1>3

LEMMA ArriveSteps == ASSUME IInv, NEW r \in Requests, Arrive(r) PROVE IInv'
<1>0. PICK c \in Cores : req[r].core = c  BY DEF IInv, Shape, Calls
<1>a. PICK n : n = req[r].got  OBVIOUS
<1>b. PICK kept : kept = IF req[r].rotated THEN n ELSE req[r].ask  OBVIOUS
<1>c. PICK sent : sent = IF req[r].rotated THEN n ELSE 0  OBVIOUS
<1>d. PICK l : l = [None EXCEPT !.fp = req[r].cfg.refresh, !.access = n, !.own = TRUE,
                               !.refresh = kept]
  OBVIOUS
<1>1. /\ req[r].pc = "told" /\ Flying(r) /\ live' = [live EXCEPT ![c] = l]
      /\ flight' = [flight EXCEPT ![c] = {}] /\ HandOn(c, n, sent) /\ Gets(r, n)
      /\ UNCHANGED <<world, tokens, cfg, held, file, writes, handover>>
  BY <1>0, <1>a, <1>b, <1>c, <1>d DEF Arrive, Flying
<1>2. /\ Shape /\ req[r] \in Calls /\ live[c] \in Entries /\ req[r].cfg.refresh \in Numbers
      /\ req[r].ask \in Numbers /\ issued \in Nat \ {0} /\ issued \in Numbers
      /\ req \in [Requests -> Calls]
  <2>1. Shape /\ req \in [Requests -> Calls] /\ req[r] \in Calls /\ live[c] \in Entries
    BY DEF IInv, Shape
  <2>2. req[r].cfg.refresh \in Numbers /\ req[r].ask \in Numbers
    BY <2>1 DEF Calls, Configs
  <2>3. issued \in Nat \ {0} /\ issued \in Numbers  BY <2>1 DEF Shape, Numbers
  <2> QED  BY <2>1, <2>2, <2>3
<1>3. /\ Accepts(c) /\ Same(c) /\ req[r].cfg.refresh = file.refresh /\ flight[c] = {r}
      /\ queue[c] = <<>> /\ At(r, c)
  BY <1>0, <1>1, Landing
<1>4. /\ n = issued /\ age[issued] = "young" /\ file.refresh < issued /\ file.access < issued
      /\ \A d \in Cores : live[d].refresh < issued /\ cfg[d].access < issued
      /\ snapshot.live.refresh < issued
  BY <1>1, <1>a DEF IInv, Had, Having
<1>5. kept \in Numbers /\ sent \in Numbers /\ kept <= issued
  <2>1. req[r].ask <= issued  BY DEF IInv, Had, Having
  <2>2. 0 \in Numbers  BY DEF Numbers
  <2> QED  BY <1>2, <1>4, <1>b, <1>c, <2>1, <2>2
<1>6. sent = 0 \/ (sent = issued /\ kept = issued)  BY <1>4, <1>b, <1>c
<1>7. Safe(kept, 1) \/ (c = 2 /\ Safe(kept, 2)) \/ sent = kept
  BY <1>0, <1>1, <1>b, <1>c DEF IInv, Asking, Presenting
<1>8. /\ l \in Entries /\ l.fp = req[r].cfg.refresh /\ l.access = issued /\ l.own
      /\ l.refresh = kept /\ ~l.now /\ l.failed = "no"
  <2>1. None \in Entries  BY DEF None, Entries, Numbers
  <2> QED  BY <1>2, <1>4, <1>5, <1>d, <2>1 DEF None, Entries
<1>9. l # None  BY <1>8 DEF None
<1>10. live'[c] = l /\ flight'[c] = {} /\ \A d \in Cores : d # c => live'[d] = live[d]
  BY <1>1, <1>2 DEF Shape
<1>11. /\ Moves(r) /\ ~Flying(r)' /\ Calling(r)' /\ Having(r)'
       /\ Gone(r)' => Went(r)' = n /\ req'[r].core = c
  BY <1>0, <1>1, <1>2, <1>3, <1>4, GetsMoves
<1>12. Going(r)'
  <2> SUFFICES ASSUME Gone(r)'
               PROVE  /\ Stands(live[c], Went(r), req[r].mark)'
                      /\ \A p \in Requests : req'[p].pc # "told"
    BY <1>11 DEF Going
  <2>1. UsableFor(l, file)' /\ live'[c] = l /\ Went(r)' = l.access
    BY <1>1, <1>3, <1>4, <1>8, <1>9, <1>10, <1>11 DEF UsableFor
  <2>2. Stands(live[c], Went(r), req[r].mark)'  BY <2>1 DEF Stands
  <2>3. ASSUME NEW p \in Requests, req'[p].pc = "told" PROVE FALSE
    <3>1. p # r  BY <1>11, <2>3 DEF Flying
    <3>2. Flying(p)  BY <1>11, <2>3, <3>1 DEF Moves, Flying
    <3> QED  BY <1>1, <3>1, <3>2, OneFlies
  <2> QED  BY <2>2, <2>3
<1>13. /\ told' \in [Cores -> BOOLEAN] /\ \A d \in Cores : told[d] => told'[d]
       /\ sent # 0 => told'[c] \/ queue' = [queue EXCEPT ![c] = <<Config(sent, n)>>]
       /\ \/ UNCHANGED queue
          \/ writes[c] /\ queue' = [queue EXCEPT ![c] = <<Config(sent, n)>>]
  <2>1. Config(sent, n) \in Configs  BY <1>2, <1>4, <1>5 DEF Config, Configs
  <2>2. Append(queue[c], Config(sent, n)) = <<Config(sent, n)>>  BY <1>3, <2>1, OneInQueue
  <2>3. CASE writes[c] /\ UNCHANGED told /\ queue' = [queue EXCEPT ![c] = <<Config(sent, n)>>]
    BY <1>2, <2>3 DEF Shape
  <2>4. CASE told' = [told EXCEPT ![c] = @ \/ sent # 0] /\ UNCHANGED queue
    <3>1. told \in [Cores -> BOOLEAN]  BY <1>2 DEF Shape
    <3>2. told' \in [Cores -> BOOLEAN]  BY <2>4, <3>1
    <3>3. \A d \in Cores : told'[d] = IF d = c THEN told[c] \/ sent # 0 ELSE told[d]
      BY <2>4, <3>1, Zenon
    <3> QED  BY <2>4, <3>2, <3>3
  <2> QED  BY <1>1, <2>2, <2>3, <2>4 DEF HandOn
<1>14. Sending(c, Config(sent, n))'
  <2>1. Config(sent, n).refresh = sent /\ Config(sent, n).access = issued  BY <1>4 DEF Config
  <2>2. Same(c)'  BY <1>1, <1>3, <1>11, SameStays
  <2>3. Fresh(live[c])'  BY <1>1, <1>2, <1>4, <1>8, <1>10 DEF Fresh
  <2>4. \A d \in Cores : sent # 0 => live'[d].refresh <= sent
    <3>1. \A d \in Cores : live[d].refresh \in Nat /\ issued \in Nat  BY <1>2, Sizes
    <3> QED  BY <1>4, <1>6, <1>8, <1>10, <3>1
  <2>5. sent # 0 => snapshot.live.refresh <= sent
    <3>1. snapshot.live.refresh \in Nat /\ issued \in Nat  BY <1>2, Sizes
    <3> QED  BY <1>4, <1>6, <3>1
  <2> QED  BY <1>1, <1>3, <1>4, <1>6, <1>8, <1>10, <2>1, <2>2, <2>3, <2>4, <2>5 DEF Sending
<1>15. \/ UNCHANGED queue
       \/ \E new \in Configs : /\ writes[c] /\ queue' = [queue EXCEPT ![c] = <<new>>]
                               /\ Sending(c, new)'
  <2>1. Config(sent, n) \in Configs  BY <1>2, <1>4, <1>5 DEF Config, Configs
  <2> QED  BY <1>13, <1>14, <2>1
<1>16. Safe(kept, 1)' \/ (c = 2 /\ Safe(kept, 2)')
  <2>1. CASE sent # 0
    <3>1. told'[c] \/ queue' = [queue EXCEPT ![c] = <<Config(sent, n)>>]  BY <1>13, <2>1
    <3>2. Config(sent, n) \in Configs /\ Config(sent, n).refresh = sent
      BY <1>2, <1>4, <1>5 DEF Config, Configs
    <3>3. kept <= sent  BY <1>2, <1>6, <2>1
    <3>4. queue' = [queue EXCEPT ![c] = <<Config(sent, n)>>] => queue'[c] = <<Config(sent, n)>>
      BY <1>2 DEF Shape
    <3> QED  BY <3>1, <3>2, <3>3, <3>4 DEF Safe
  <2>2. CASE sent = 0
    <3>1. sent = kept => kept <= file.refresh
      <4>1. file.refresh \in Nat  BY <1>2, Sizes
      <4> QED  BY <2>2, <4>1
    <3>2. \A d \in Cores : Safe(kept, d) => Safe(kept, d)'
      <4>1. \A d \in Cores : queue[d] = <<>>  BY <1>0, <1>1, Landing
      <4> QED  BY <1>1, <1>13, <4>1, OneInQueue DEF Safe
    <3> QED  BY <1>1, <1>7, <3>1, <3>2 DEF Safe
  <2> QED  BY <2>1, <2>2
<1> QED
  <2>1. l.refresh <= issued /\ l.access <= issued  BY <1>2, <1>5, <1>8
  <2> QED
    BY ZenonT(60), <1>0, <1>1, <1>3, <1>8, <1>9, <1>11, <1>12, <1>13, <1>15, <1>16, <2>1, Lands

-----------------------------------------------------------------------------
(* Time *)

LEMMA RelentSteps == ASSUME IInv, NEW c \in Cores, Relent(c) PROVE IInv'
<1>1. /\ live[c].failed = "wait" /\ live' = [live EXCEPT ![c] = [live[c] EXCEPT !.failed = "over"]]
      /\ UNCHANGED <<Others, flight, req>>
  BY DEF Relent
<1>2. Shape /\ live[c] \in Entries  BY DEF IInv, Shape
<1>3. /\ live'[c] = [live[c] EXCEPT !.failed = "over"]
      /\ \A d \in Cores : d # c => live'[d] = live[d]
  BY <1>1, <1>2 DEF Shape
<1>4. \A d \in Cores :
        /\ live'[d].refresh = live[d].refresh /\ live'[d].access = live[d].access
        /\ live'[d].fp = live[d].fp /\ live'[d].own = live[d].own /\ live'[d].now = live[d].now
        /\ live'[d].failed # "no" => live[d].failed # "no"
        /\ live[d].failed = "no" => live'[d] = live[d]
  <2>1. /\ live'[c].refresh = live[c].refresh /\ live'[c].access = live[c].access
        /\ live'[c].fp = live[c].fp /\ live'[c].own = live[c].own /\ live'[c].now = live[c].now
        /\ live'[c].failed = "over"
    BY <1>2, <1>3 DEF Entries
  <2> QED  BY <1>1, <1>3, <2>1
<1>5. \A d \in Cores : live'[d] = None <=> live[d] = None
  <2>1. live'[c].failed # None.failed /\ live[c].failed # None.failed
    BY <1>1, <1>2, <1>3 DEF Entries, None
  <2> QED  BY <1>3, <2>1
<1>6. \A d \in Cores : \A k : UsableFor(live'[d], k) <=> UsableFor(live[d], k)
  BY <1>4, <1>5 DEF UsableFor
<1>7. \A d \in Cores : /\ Fresh(live[d]) => live'[d] = live[d]
                       /\ Spent(live[d]) <=> Spent(live[d])'
                       /\ Excused(live[d]) <=> Excused(live[d])'
  BY <1>1, <1>4 DEF Fresh, Spent, Due, Excused
<1>8. Shape'
  <2>1. live'[c] \in Entries  BY <1>2, <1>3 DEF Entries
  <2>2. live' \in [Cores -> Entries]  BY <1>1, <1>2, <1>3, <2>1 DEF Shape
  <2> QED  BY <1>1, <1>2, <2>2 DEF Shape
<1>9. Order' /\ Callers'
  BY <1>1, <1>5 DEF IInv, Order, Callers, Calling, At, Active, Flying, First, Accepts, Drains
<1>10. Issued' /\ Had'  BY <1>1, <1>4 DEF IInv, Issued, Had, Having
<1>11. \A d \in Cores : Same(d) <=> Same(d)'  BY <1>1 DEF Same, At, Active
<1>12. Queued'
  <2> SUFFICES ASSUME NEW d \in Cores, NEW new \in Configs, queue[d] = <<new>>
               PROVE  Sending(d, new)'
    BY <1>1 DEF Queued
  <2>1. Sending(d, new)  BY DEF IInv, Queued
  <2>2. live'[d] = live[d]  BY <1>7, <2>1 DEF Sending
  <2> QED  BY <1>1, <1>4, <1>11, <2>1, <2>2 DEF Sending, Fresh
<1>13. Lagging'
  <2> SUFFICES ASSUME NEW d \in Cores, Accepts(d), Behind(d) PROVE Behind(d)'
    BY <1>1, <1>11 DEF IInv, Lagging, Accepts, Drains
  <2>1. live'[d] = live[d]  BY <1>7 DEF Behind
  <2> QED  BY <1>1, <2>1 DEF Behind, Fresh, At, Active
<1>14. Ours' /\ Strangers'
  BY <1>1, <1>4, <1>5, <1>6 DEF IInv, Ours, Strangers, Strange, Accepts, Drains, At, Active
<1>15. Covered'  BY <1>1, <1>4 DEF IInv, Covered, Safe
<1>16. Asking'
  <2> SUFFICES ASSUME NEW q \in Requests PROVE Presenting(q)'  BY DEF Asking
  <2>1. Presenting(q)  BY DEF IInv, Asking
  <2>2. \A d \in Cores : UsableFor(live'[d], file) <=> UsableFor(live[d], file)  BY <1>6
  <2>3. \A d \in Cores : Spent(live[d]) <=> Spent(live[d])'  BY <1>7
  <2> QED  BY <1>1, <2>1, <2>2, <2>3 DEF Presenting, Safe, Flying
<1>17. Causes'
  <2>1. \A d \in Cores : live'[d].failed # "no" => Excused(live[d])'
    BY <1>4, <1>7 DEF IInv, Causes
  <2>2. Excused(snapshot.live)' <=> Excused(snapshot.live)
    BY <1>1 DEF Excused, Spent, Due
  <2> QED  BY <1>1, <2>1, <2>2 DEF IInv, Causes
<1>18. Sent'
  <2> SUFFICES ASSUME NEW q \in Requests, NEW d \in Cores, Gone(q), req[q].core = d, Accepts(d)
               PROVE  Stands(live[d], Went(q), req[q].mark)'
    BY <1>1 DEF IInv, Sent, Going, Gone, First, Accepts, Drains
  <2>1. Stands(live[d], Went(q), req[q].mark)  BY DEF IInv, Sent, Going
  <2>2. UsableFor(live'[d], file) <=> UsableFor(live[d], file)  BY <1>6
  <2>3. Excused(live[d]) => Excused(live[d])'  BY <1>7
  <2> QED  BY <1>1, <1>4, <2>1, <2>2, <2>3 DEF Stands, Went, First
<1>19. Taking'
  <2>1. stage = "yielded" /\ cfg[1].refresh # file.refresh => live'[1] = live[1]
    <3> SUFFICES ASSUME stage = "yielded", cfg[1].refresh # file.refresh PROVE Fresh(live[1])
      BY <1>7
    <3> QED  BY DEF IInv, Lagging, Same, Behind, Accepts, Drains
  <2>2. NewLogin(live'[2]) <=> NewLogin(live[2])  BY <1>4, <1>5 DEF NewLogin
  <2>3. UsableFor(live'[1], file) <=> UsableFor(live[1], file)  BY <1>6
  <2> QED  BY <1>1, <2>1, <2>2, <2>3 DEF IInv, Taking, Matches, NewLogin
<1> QED
  BY <1>8, <1>9, <1>10, <1>12, <1>13, <1>14, <1>15, <1>16, <1>17, <1>18, <1>19 DEF IInv

(* A token ages when nothing is in hand. *)
LEMMA AgeSteps ==
  ASSUME IInv, NEW n \in Tokens, Ripen(n) \/ Lapse(n)
  PROVE  IInv'
<1>1. /\ Quiet /\ UNCHANGED <<world, issued, signedIn, cores, back, handover, req>>
      /\ age' \in [Tokens -> {"young", "good", "late"}]
      /\ \A m \in Tokens : age[m] = "late" => age'[m] = "late"
  <2>1. age \in [Tokens -> {"young", "good", "late"}] /\ age[n] \in {"young", "good"}
    BY DEF Ripen, Lapse, IInv, Shape
  <2>2. \E a \in {"good", "late"} : age' = [age EXCEPT ![n] = a]  BY DEF Ripen, Lapse
  <2>3. Quiet  BY DEF Ripen, Lapse, IInv, Order
  <2>4. age' \in [Tokens -> {"young", "good", "late"}]  BY <2>1, <2>2
  <2>5. \A m \in Tokens : age[m] = "late" => age'[m] = "late"  BY <2>1, <2>2
  <2>6. UNCHANGED <<world, issued, signedIn, cores, back, handover, req>>  BY DEF Ripen, Lapse
  <2> QED  BY <2>3, <2>4, <2>5, <2>6
<1>2. UNCHANGED <<world, issued, signedIn, cores, back, handover, req>>  BY <1>1
<1>3. /\ \A c \in Cores : queue[c] = <<>> /\ live[c] \in Entries
      /\ \A r \in Requests : req[r].pc # "told"
      /\ \A l \in Entries : l.access = 0 \/ l.access \in Tokens
      /\ file.access = 0 \/ file.access \in Tokens
  <2>1. \A m \in Numbers : m = 0 \/ m \in Tokens  BY DEF Numbers
  <2>2. file \in Configs /\ live \in [Cores -> Entries]  BY DEF IInv, Shape
  <2> QED  BY <1>1, <2>1, <2>2 DEF Quiet, Entries, Configs
<1>4. \A l \in Entries : (Spent(l) => Spent(l)') /\ (Excused(l) => Excused(l)')
  BY <1>1, <1>3 DEF Excused, Spent, Due
<1>5. \A c \in Cores : /\ Spent(live[c]) => Spent(live[c])'
                       /\ Excused(live[c]) => Excused(live[c])'
  BY <1>1, <1>3 DEF Excused, Spent, Due
<1>6. Shape' /\ Order' /\ Issued'  BY <1>1 DEF IInv, Shape, Order, Issued
<1>7. Callers'
  BY <1>2 DEF IInv, Callers, Calling, At, Active, Flying, First, Accepts, Drains
<1>8. Had'  BY <1>2, <1>3 DEF IInv, Had, Having
<1>9. Queued'  BY <1>2, <1>3, OneInQueue DEF Queued
<1>10. Lagging'
  <2> SUFFICES ASSUME NEW c \in Cores, Accepts(c) PROVE Same(c)
    BY <1>2 DEF Lagging, Accepts, Drains, Same, At, Active
  <2>1. Exists(c) /\ ~Drains(c)  BY DEF Accepts, Exists, Drains
  <2>2. cfg[c] = file  BY <1>1, <2>1 DEF Quiet
  <2>3. \A r \in Requests : At(r, c) => req[r].cfg = cfg[c]  BY <1>1, <2>1 DEF Quiet, At
  <2> QED  BY <2>2, <2>3 DEF Same
<1>11. Ours' /\ Strangers'
  BY <1>2 DEF IInv, Ours, Strangers, Strange, UsableFor, Accepts, Drains, At, Active
<1>12. Covered' /\ Taking'
  BY <1>2 DEF IInv, Covered, Safe, Taking, Matches, NewLogin, UsableFor
<1>13. Asking'
  <2> SUFFICES ASSUME NEW q \in Requests PROVE Presenting(q)'  BY DEF Asking
  <2>1. Presenting(q)  BY DEF IInv, Asking
  <2>2. file.access = 0 \/ age[file.access] = "late" =>
          file.access = 0 \/ age'[file.access] = "late"
    BY <1>1, <1>3
  <2> QED  BY <1>2, <1>5, <2>1, <2>2 DEF Presenting, Safe, Flying, UsableFor
<1>14. Causes'
  <2>1. snapshot.live \in Entries  BY DEF IInv, Shape
  <2>2. Excused(snapshot.live) => Excused(snapshot.live)'  BY <1>1, <1>3, <2>1 DEF Excused, Spent, Due
  <2> QED  BY <1>2, <1>5, <2>2 DEF IInv, Causes
<1>15. Sent'
  <2> SUFFICES ASSUME NEW q \in Requests, NEW d \in Cores, Gone(q), req[q].core = d, Accepts(d)
               PROVE  Stands(live[d], Went(q), req[q].mark)'
    BY <1>2 DEF IInv, Sent, Going, Gone, First, Accepts, Drains
  <2>1. Stands(live[d], Went(q), req[q].mark)  BY DEF IInv, Sent, Going
  <2>2. Went(q) # 0  BY DEF IInv, Callers, Calling, Gone, Went, First
  <2>3. file.access # 0 /\ age[file.access] = "late" => age'[file.access] = "late"
    BY <1>1, <1>3
  <2> QED  BY <1>2, <1>5, <2>1, <2>2, <2>3 DEF Stands, Went, First, UsableFor
<1> QED
  BY <1>6, <1>7, <1>8, <1>9, <1>10, <1>11, <1>12, <1>13, <1>14, <1>15 DEF IInv

-----------------------------------------------------------------------------
(* The file *)

LEMMA WriteBackSteps == ASSUME IInv, NEW c \in Cores, WriteBack(c) PROVE IInv'
<1>1. Shape /\ queue[c] # <<>>  BY DEF WriteBack, IInv
<1>2. PICK new \in Configs : queue[c] = <<new>>  BY <1>1 DEF Shape
<1>3. /\ Same(c) /\ Fresh(live[c]) /\ live[c].fp = file.refresh /\ flight[c] = {}
      /\ new.access = live[c].access /\ new.refresh \in {0, live[c].refresh}
      /\ file.access < new.access /\ \A d \in Cores : cfg[d].access < new.access
      /\ new.refresh # 0 =>
           /\ file.refresh < new.refresh
           /\ \A d \in Cores : live[d].refresh <= new.refresh
           /\ snapshot.live.refresh <= new.refresh
  BY <1>2 DEF IInv, Queued, Sending
<1>4. PICK n : n = IF new.refresh = 0 THEN file.refresh ELSE new.refresh  OBVIOUS
<1>5. /\ file' = Config(n, new.access) /\ queue' = [queue EXCEPT ![c] = <<>>]
      /\ told' = [told EXCEPT ![c] = @ /\ new.refresh = 0]
      /\ cfg' = [cfg EXCEPT ![c] = file']
      /\ UNCHANGED <<world, tokens, live, flight, held, writes, handover, req>>
  <2>1. Head(queue[c]) = new /\ Tail(queue[c]) = <<>>  BY <1>2, OneInQueue
  <2>2. Config(n, new.access) # file
    <3>1. file.access \in Nat /\ new.access # file.access
      BY <1>1, <1>3, Sizes DEF Configs, Numbers
    <3> QED  BY <3>1 DEF Config
  <2> QED  BY <1>4, <2>1, <2>2 DEF WriteBack
<1>6. /\ live[c] \in Entries /\ file \in Configs /\ n \in Numbers /\ file.refresh <= n /\ n <= issued
      /\ n = file.refresh \/ n = live[c].refresh
  <2>1. live[c] \in Entries /\ file \in Configs  BY <1>1 DEF Shape
  <2>2. n \in Numbers  BY <1>4, <2>1 DEF Configs
  <2>3. file.refresh <= issued /\ live[c].refresh <= issued  BY DEF IInv, Issued
  <2>4. file.refresh \in Nat  BY <1>1, Sizes
  <2>5. file.refresh <= n  BY <1>3, <1>4, <2>2, <2>4 DEF Configs, Numbers
  <2>6. n <= issued  BY <1>3, <1>4, <2>3
  <2>7. n = file.refresh \/ n = live[c].refresh  BY <1>3, <1>4
  <2> QED  BY <2>1, <2>2, <2>5, <2>6, <2>7
<1>7. /\ file'.refresh = n /\ file'.access = new.access /\ file' \in Configs
      /\ \A d \in Cores : /\ queue'[d] = IF d = c THEN <<>> ELSE queue[d]
                          /\ cfg'[d] = IF d = c THEN file' ELSE cfg[d]
  <2>1. new.access \in Numbers  BY DEF Configs
  <2> QED  BY <1>1, <1>5, <1>6, <2>1 DEF Config, Configs, Shape
<1>8. stage \in IF c = 1 THEN {"alone", "asked", "started", "paused"} ELSE {"drained"}
  BY <1>1 DEF IInv, Order
<1>9. \A d \in Cores : flight[d] = {} /\ queue'[d] = <<>> /\ (Accepts(d) => d = c)
  BY <1>3, <1>7, <1>8 DEF IInv, Order, Accepts, Drains
<1>10. \A q \in Requests : ~Flying(q)
  <2> SUFFICES ASSUME NEW q \in Requests, Flying(q) PROVE FALSE  OBVIOUS
  <2>1. flight[req[q].core] = {q} /\ req[q].core \in Cores
    BY <1>1 DEF IInv, Callers, Calling, Shape, Calls
  <2> QED  BY <1>9, <2>1
<1>11. /\ live[c] # None /\ UsableFor(live[c], file)
       /\ UsableFor(live[c], file') /\ UsableFor(live[c], cfg'[c])
  <2>1. live[c] # None  BY <1>3 DEF Fresh, None
  <2> QED  BY <1>3, <1>6, <1>7, <2>1 DEF UsableFor, Same
<1>12. Shape'
  <2>1. queue' \in [Cores -> {<<>>} \cup {<<k>> : k \in Configs}]  BY <1>1, <1>5 DEF Shape
  <2>2. told' \in [Cores -> BOOLEAN]
    <3>1. told \in [Cores -> BOOLEAN]  BY <1>1 DEF Shape
    <3> QED  BY <1>5, <3>1
  <2> QED  BY <1>1, <1>5, <1>7, <2>1, <2>2 DEF Shape
<1>13. Order'  BY <1>5, <1>9 DEF IInv, Order
<1>14. Callers'
  BY <1>5 DEF IInv, Callers, Calling, At, Active, Flying, First, Accepts, Drains
<1>15. Issued'
  <2>1. signedIn <= n
    <3>1. signedIn <= file.refresh  BY DEF IInv, Issued
    <3>2. signedIn \in Nat /\ file.refresh \in Nat  BY <1>1, Sizes
    <3> QED  BY <1>6, <3>1, <3>2 DEF Numbers
  <2>2. new.access <= issued  BY <1>3 DEF IInv, Issued
  <2>3. \A d \in Cores : cfg'[d].refresh <= n /\ cfg'[d].access <= issued
    <3>1. \A d \in Cores : cfg[d].refresh <= file.refresh /\ cfg[d].refresh \in Nat
      BY <1>1, Sizes DEF IInv, Issued
    <3>2. file.refresh \in Nat  BY <1>1, Sizes
    <3> QED  BY <1>6, <1>7, <2>2, <3>1, <3>2 DEF IInv, Issued, Numbers
  <2> QED  BY <1>5, <1>6, <1>7, <2>1, <2>2, <2>3 DEF IInv, Issued
<1>16. Had'
  <2> SUFFICES ASSUME NEW q \in Requests PROVE Having(q)'  BY DEF Had
  <2>1. Having(q) /\ req[q].pc # "told"  BY <1>10 DEF IInv, Had, Flying
  <2>2. req[q].cfg.refresh <= n
    <3>1. req[q].cfg.refresh \in Nat /\ file.refresh \in Nat  BY <1>1, Sizes
    <3> QED  BY <1>6, <2>1, <3>1 DEF Having, Numbers
  <2> QED  BY <1>5, <1>7, <2>1, <2>2 DEF Having
<1>17. Queued'  BY <1>9, OneInQueue DEF Queued
<1>18. Lagging'
  <2> SUFFICES ASSUME Accepts(c) PROVE Same(c)' \/ Behind(c)'
    BY <1>5, <1>9 DEF Lagging, Accepts, Drains
  <2>1. CASE n = file.refresh
    <3>1. Same(c)'  BY <1>3, <1>5, <1>7, <2>1 DEF Same, At, Active
    <3> QED  BY <3>1
  <2>2. CASE n = live[c].refresh
    <3>1. Fresh(live[c])'  BY <1>3, <1>5 DEF Fresh
    <3>2. \A r \in Requests : At(r, c) => UsableFor(live[c], req[r].cfg)
      BY <1>3, <1>11 DEF Same, UsableFor
    <3>3. Behind(c)'
      BY <1>3, <1>5, <1>7, <1>9, <1>11, <2>2, <3>1, <3>2 DEF Behind, At, Active, UsableFor
    <3> QED  BY <3>3
  <2> QED  BY <1>6, <2>1, <2>2
<1>19. Ours' /\ Strangers'
  <2>1. \A d \in Cores : Accepts(d)' => d = c  BY <1>5, <1>9 DEF Accepts, Drains
  <2>2. UsableFor(live[c], file)'  BY <1>5, <1>11 DEF UsableFor
  <2> QED  BY <2>1, <2>2 DEF Ours, Strangers
<1>20. Covered'
  <2> SUFFICES ASSUME NEW m \in Nat, NEW d \in Cores, Safe(m, d),
                      new.refresh # 0 => m <= new.refresh
               PROVE  Safe(m, d)'
    <3>1. \A e \in Cores : live[e].refresh \in Nat /\ (new.refresh # 0 => live[e].refresh <= new.refresh)
      BY <1>1, <1>3, Sizes
    <3>2. snapshot.live.refresh \in Nat /\ (new.refresh # 0 => snapshot.live.refresh <= new.refresh)
      BY <1>1, <1>3, Sizes
    <3>3. \A e, d \in Cores : Safe(live[e].refresh, d) => Safe(live[e].refresh, d)'
      BY <1>5, <3>1 DEF Safe
    <3>4. Safe(snapshot.live.refresh, 1) => Safe(snapshot.live.refresh, 1)'
      BY <1>5, <3>2 DEF Safe
    <3> QED  BY <3>3, <3>4 DEF IInv, Covered
  <2>1. CASE new.refresh # 0  BY <1>4, <1>7, <2>1 DEF Safe
  <2>2. CASE new.refresh = 0
    <3>1. n = file.refresh  BY <1>4, <2>2
    <3>2. told[d] => told'[d]
      <4>1. told \in [Cores -> BOOLEAN]  BY <1>1 DEF Shape
      <4> QED  BY <1>5, <2>2, <4>1
    <3>3. CASE queue[d] # <<>> /\ d = c
      <4>1. m <= new.refresh => m <= file.refresh
        BY <1>1, <2>2, Sizes
      <4>2. \A k \in Configs : queue[d] = <<k>> => k = new  BY <1>2, <3>3, OneInQueue
      <4> QED  BY <1>7, <3>1, <3>2, <4>1, <4>2 DEF Safe
    <3>4. CASE d # c  BY <1>7, <3>1, <3>2, <3>4 DEF Safe
    <3> QED  BY <1>1, <3>3, <3>4
  <2> QED  BY <2>1, <2>2
<1>21. Asking'  BY <1>5, <1>10 DEF Asking, Presenting, Flying
<1>22. Causes'  BY <1>5 DEF IInv, Causes, Excused, Spent, Due
<1>23. Sent'
  <2> SUFFICES ASSUME NEW q \in Requests, Gone(q), req[q].core = c, Accepts(c)
               PROVE  Stands(live[c], Went(q), req[q].mark)'
    BY <1>5, <1>9, <1>10 DEF Sent, Going, Gone, First, Accepts, Drains, Flying
  <2>1. Stands(live[c], Went(q), req[q].mark)  BY DEF IInv, Sent, Going
  <2>2. UsableFor(live[c], file)'  BY <1>5, <1>11 DEF UsableFor
  <2> QED
    BY <1>5, <1>11, <2>1, <2>2 DEF Stands, Went, First, Excused, Spent, Due
<1>24. Taking'
  <2>1. stage # "yielded" /\ (stage \in {"asked", "started", "paused"} => c = 1)  BY <1>8
  <2>2. UsableFor(live[c], file)'  BY <1>5, <1>11 DEF UsableFor
  <2> QED  BY <1>5, <2>1, <2>2 DEF IInv, Taking, NewLogin
<1> QED
  BY <1>12, <1>13, <1>14, <1>15, <1>16, <1>17, <1>18, <1>19, <1>20, <1>21, <1>22, <1>23,
     <1>24 DEF IInv

LEMMA GiveUpSteps == ASSUME IInv, NEW c \in Cores, GiveUp(c) PROVE IInv'
<1>1. Shape /\ queue[c] # <<>>  BY DEF GiveUp, IInv
<1>2. PICK new \in Configs : queue[c] = <<new>>  BY <1>1 DEF Shape
<1>3. /\ queue' = [queue EXCEPT ![c] = <<>>]
      /\ told' = [told EXCEPT ![c] = @ \/ new.refresh # 0]
      /\ UNCHANGED <<world, tokens, cores, file, writes, handover, req>>
  <2>1. Head(queue[c]) = new /\ Tail(queue[c]) = <<>>  BY <1>2, OneInQueue
  <2> QED  BY <2>1 DEF GiveUp
<1>4. \A d \in Cores : queue'[d] = IF d = c THEN <<>> ELSE queue[d]  BY <1>1, <1>3 DEF Shape
<1>5. told' \in [Cores -> BOOLEAN] /\ \A d \in Cores : told[d] => told'[d]
  <2>1. told \in [Cores -> BOOLEAN]  BY <1>1 DEF Shape
  <2> QED  BY <1>3, <2>1
<1>6. new.refresh # 0 => told'[c]
  <2>1. told \in [Cores -> BOOLEAN]  BY <1>1 DEF Shape
  <2> QED  BY <1>3, <2>1
<1>7. UNCHANGED <<world, tokens, cores, file, writes, handover, req>>  BY <1>3
<1>8. Shape'
  <2>1. queue' \in [Cores -> {<<>>} \cup {<<k>> : k \in Configs}]  BY <1>1, <1>3 DEF Shape
  <2> QED  BY <1>1, <1>3, <1>5, <2>1 DEF Shape
<1>9. Order' /\ Callers' /\ Issued' /\ Had'
  BY <1>4, <1>7 DEF IInv, Order, Callers, Calling, Issued, Had, Having, At, Active, Flying, First,
                    Accepts, Drains
<1>10. Queued'
  <2> SUFFICES ASSUME NEW d \in Cores, NEW k \in Configs, queue'[d] = <<k>>
               PROVE  Sending(d, k)'
    BY DEF Queued
  <2>1. queue[d] = <<k>>  BY <1>4, OneInQueue
  <2>2. Sending(d, k)  BY <2>1 DEF IInv, Queued
  <2> QED  BY <1>7, <2>2 DEF Sending, Fresh, Same, At, Active
<1>11. Lagging'
  BY <1>4, <1>7 DEF IInv, Lagging, Same, Behind, Fresh, UsableFor, At, Active, Accepts, Drains
<1>12. Ours' /\ Strangers'
  BY <1>4, <1>7 DEF IInv, Ours, Strangers, Strange, UsableFor, At, Active, Accepts, Drains
<1>13. \A m \in Nat, d \in Cores : Safe(m, d) => Safe(m, d)'
  <2> SUFFICES ASSUME NEW m \in Nat, NEW d \in Cores, Safe(m, d) PROVE Safe(m, d)'
    OBVIOUS
  <2>1. CASE d # c  BY <1>4, <1>5, <1>7, <2>1 DEF Safe
  <2>2. CASE d = c
    <3>1. m <= file.refresh \/ told[d] \/ m <= new.refresh  BY <1>2, <2>2, OneInQueue DEF Safe
    <3>2. CASE new.refresh # 0  BY <1>6, <2>2, <3>2 DEF Safe
    <3>3. CASE new.refresh = 0
      <4>1. m <= new.refresh => m <= file.refresh  BY <1>1, <3>3, Sizes
      <4> QED  BY <1>5, <1>7, <3>1, <4>1 DEF Safe
    <3> QED  BY <3>2, <3>3
  <2> QED  BY <2>1, <2>2
<1>14. Covered'
  <2>1. snapshot.live.refresh \in Nat /\ \A d \in Cores : live[d].refresh \in Nat  BY <1>1, Sizes
  <2>2. \A e, d \in Cores : Safe(live[e].refresh, d) => Safe(live[e].refresh, d)'
    BY <1>7, <1>13, <2>1 DEF Safe
  <2>3. Safe(snapshot.live.refresh, 1) => Safe(snapshot.live.refresh, 1)'
    BY <1>7, <1>13, <2>1 DEF Safe
  <2> QED  BY <2>2, <2>3 DEF IInv, Covered
<1>15. Asking'
  <2> SUFFICES ASSUME NEW q \in Requests PROVE Presenting(q)'  BY DEF Asking
  <2>1. Presenting(q)  BY DEF IInv, Asking
  <2>2. req[q].ask \in Nat  BY <1>1, Sizes
  <2>3. \A d \in Cores : Safe(req[q].ask, d) => Safe(req[q].ask, d)'
    BY <1>7, <1>13, <2>2 DEF Safe
  <2> QED  BY <1>7, <2>1, <2>3 DEF Presenting, Flying, UsableFor, Spent, Due
<1>16. Causes'  BY <1>7 DEF IInv, Causes, Excused, Spent, Due
<1>17. Sent'
  BY <1>7 DEF IInv, Sent, Going, Gone, First, Went, Stands, Excused, Spent, Due, UsableFor,
              Accepts, Drains
<1>18. Taking'  BY <1>7 DEF IInv, Taking, Matches, NewLogin, UsableFor
<1> QED
  BY <1>8, <1>9, <1>10, <1>11, <1>12, <1>14, <1>15, <1>16, <1>17, <1>18 DEF IInv

LEMMA ReloadSteps == ASSUME IInv, NEW d \in Cores, Reload(d) PROVE IInv'
<1>1. /\ cfg' = [cfg EXCEPT ![d] = file]
      /\ UNCHANGED <<world, tokens, live, flight, held, back, handover, req>>
  BY DEF Reload
<1>2. UNCHANGED <<world, tokens, live, flight, held, back, handover, req>>  BY <1>1
<1>3. Shape  BY DEF IInv
<1>4. \A c \in Cores : cfg'[c] = file \/ cfg'[c] = cfg[c]  BY <1>1, <1>3 DEF Shape
<1>5. Shape'  BY <1>1, <1>3 DEF Shape
<1>6. Order' /\ Callers'
  BY <1>2 DEF IInv, Order, Callers, Calling, At, Active, Flying, First, Accepts, Drains
<1>7. Issued'
  <2>1. file.refresh <= file.refresh  BY <1>3, Sizes
  <2> QED  BY <1>2, <1>4, <2>1 DEF IInv, Issued
<1>8. Had'  BY <1>2, <1>4 DEF IInv, Had, Having
<1>9. \A c \in Cores : Same(c) => Same(c)'  BY <1>2, <1>4 DEF Same, At, Active
<1>10. Queued'
  <2> SUFFICES ASSUME NEW c \in Cores, NEW k \in Configs, queue[c] = <<k>>
               PROVE  Sending(c, k)'
    BY <1>2 DEF Queued
  <2>1. Sending(c, k)  BY DEF IInv, Queued
  <2> QED  BY <1>2, <1>4, <1>9, <2>1 DEF Sending, Fresh
<1>11. Lagging'
  <2> SUFFICES ASSUME NEW c \in Cores, Accepts(c), Behind(c) PROVE Behind(c)'
    BY <1>2, <1>9 DEF IInv, Lagging, Accepts, Drains
  <2>1. UsableFor(live[c], cfg'[c])  BY <1>4 DEF Behind, UsableFor
  <2> QED  BY <1>2, <2>1 DEF Behind, Fresh, UsableFor, At, Active
<1>12. Ours'  BY <1>2 DEF IInv, Ours, UsableFor, Accepts, Drains
<1>13. Strangers'
  BY <1>2, <1>4 DEF IInv, Strangers, Strange, UsableFor, At, Active, Accepts, Drains
<1>14. Covered' /\ Asking'
  BY <1>2 DEF IInv, Covered, Safe, Asking, Presenting, Flying, Spent, Due, UsableFor
<1>15. Causes'  BY <1>2 DEF IInv, Causes, Excused, Spent, Due
<1>16. Sent'
  BY <1>2 DEF IInv, Sent, Going, Gone, First, Went, Stands, Excused, Spent, Due, UsableFor,
              Accepts, Drains
<1>17. Taking'  BY <1>2 DEF IInv, Taking, Matches, NewLogin, UsableFor
<1> QED
  BY <1>5, <1>6, <1>7, <1>8, <1>10, <1>11, <1>12, <1>13, <1>14, <1>15, <1>16, <1>17 DEF IInv

LEMMA SignInSteps == ASSUME IInv, NEW a \in Numbers, SignIn(a) PROVE IInv'
<1>1. /\ Quiet /\ issued < MaxTokens /\ issued' = issued + 1 /\ signedIn' = issued'
      /\ file' = Config(issued', a) /\ cfg' = [c \in Cores |-> file'] /\ a <= issued'
      /\ UNCHANGED <<world, age, live, flight, held, queue, writes, told, handover, req>>
      /\ \A r \in Requests : ~Active(r)
  <2>1. issued \in Nat  BY Sizes DEF IInv
  <2> QED  BY <2>1 DEF SignIn
<1>2. Shape  BY DEF IInv
<1>3. /\ file' \in Configs /\ file'.refresh = issued' /\ file'.access = a
      /\ issued \in Nat /\ issued' \in Tokens
      /\ \A m \in Nat : m <= issued => m <= issued' /\ m < issued'
  <2>1. issued \in Nat /\ issued' \in Tokens /\ issued' \in Numbers
    BY <1>1, <1>2 DEF Shape, Numbers
  <2> QED  BY <1>1, <2>1 DEF Config, Configs
<1>4. \A c \in Cores : cfg'[c] = file'  BY <1>1
<1>5. /\ \A c \in Cores : queue'[c] = <<>>
      /\ \A r \in Requests : /\ req'[r] = Idle /\ ~Active(r)' /\ ~Flying(r)' /\ ~Gone(r)'
                             /\ req'[r].pc # "told"
  <2>1. \A r \in Requests : req'[r] = Idle  BY <1>1 DEF IInv, Callers, Calling
  <2> QED  BY <1>1, <2>1 DEF Quiet, Active, Flying, Gone, First, Idle
<1>6. UNCHANGED <<world, age, live, flight, held, queue, writes, told, handover, req>>  BY <1>1
<1>7. \A c \in Cores : live'[c] = live[c] /\ live[c].refresh < issued' /\ live[c].access <= issued'
  BY <1>2, <1>3, <1>6, Sizes DEF IInv, Issued
<1>8. snapshot.live.refresh < issued' /\ snapshot.live.access <= issued'
  BY <1>2, <1>3, Sizes DEF IInv, Issued
<1>9. Shape'
  <2>1. cfg' \in [Cores -> Configs]  BY <1>1, <1>3
  <2>2. signedIn' \in Tokens  BY <1>1, <1>3
  <2> QED  BY <1>2, <1>3, <1>6, <2>1, <2>2 DEF Shape
<1>10. Order' /\ Callers'
  <2>1. Order'  BY <1>6 DEF IInv, Order
  <2>2. Callers'
    BY <1>6 DEF IInv, Callers, Calling, At, Active, Flying, First, Accepts, Drains
  <2> QED  BY <2>1, <2>2
<1>11. Issued'
  <2>1. issued' <= issued' /\ \A c \in Cores : live[c].refresh <= issued'
        /\ snapshot.live.refresh <= issued'
    <3>1. issued' \in Nat  BY <1>3
    <3>2. \A c \in Cores : live[c].refresh \in Nat  BY <1>2, Sizes
    <3>3. snapshot.live.refresh \in Nat  BY <1>2, Sizes
    <3> QED  BY <1>7, <1>8, <3>1, <3>2, <3>3
  <2> QED  BY <1>1, <1>3, <1>4, <1>6, <1>7, <1>8, <2>1 DEF Issued
<1>12. Had'
  <2>1. /\ Idle.cfg.refresh = 0 /\ Idle.cfg.access = 0 /\ Idle.ask = 0 /\ Idle.mark = 0
    BY DEF Idle
  <2>2. 0 <= issued'  BY <1>3
  <2> QED  BY <1>3, <1>5, <2>1, <2>2 DEF Had, Having
<1>13. Queued'  BY <1>5, OneInQueue DEF Queued
<1>14. Lagging' /\ Strangers'
  BY <1>4, <1>5 DEF Lagging, Same, Strangers, Strange, At
<1>15. Ours' /\ Causes'
  <2>1. \A c \in Cores : live'[c].refresh < signedIn'  BY <1>1, <1>7
  <2>2. snapshot'.live.refresh < signedIn'  BY <1>1, <1>8
  <2> QED  BY <2>1, <2>2 DEF Ours, Causes, Excused
<1>16. Covered'
  <2>1. snapshot'.live.refresh <= file'.refresh /\ \A c \in Cores : live'[c].refresh <= file'.refresh
    <3>1. snapshot.live.refresh \in Nat /\ \A d \in Cores : live[d].refresh \in Nat
      BY <1>2, Sizes
    <3> QED  BY <1>3, <1>6, <1>7, <1>8, <3>1
  <2> QED  BY <2>1 DEF Covered, Safe
<1>17. Asking' /\ Sent'  BY <1>5 DEF Asking, Presenting, Sent, Going
<1>18. Taking'
  <2>1. ~NewLogin(snapshot.live)'
    <3>1. snapshot.live.refresh \in Nat /\ issued' \in Nat  BY <1>2, <1>3, Sizes
    <3> QED  BY <1>1, <1>6, <1>8, <3>1 DEF NewLogin
  <2>2. ~NewLogin(live[2])'
    <3>1. live[2].refresh \in Nat /\ issued' \in Nat  BY <1>2, <1>3, Sizes
    <3> QED  BY <1>1, <1>7, <3>1 DEF NewLogin
  <2> QED  BY <1>4, <2>1, <2>2 DEF Taking
<1> QED
  BY <1>9, <1>10, <1>11, <1>12, <1>13, <1>14, <1>15, <1>16, <1>17, <1>18 DEF IInv

-----------------------------------------------------------------------------
(* A core that dies *)

LEMMA NothingAtHand ==
  /\ None \in Entries /\ None.refresh = 0 /\ None.access = 0 /\ None.failed = "no"
  /\ Idle.cfg.refresh = 0 /\ Idle.cfg.access = 0 /\ Idle.ask = 0 /\ Idle.mark = 0
  /\ Idle.pc = "idle" /\ Idle.core = 1 /\ Idle.old = 0
  /\ NoSnapshot \in [by : Configs, live : Entries] /\ NoSnapshot.live = None
<1>1. None \in Entries  BY DEF None, Entries, Numbers
<1>2. NoSnapshot.by \in Configs /\ NoSnapshot.live = None
  BY DEF NoSnapshot, Config, Configs, Numbers
<1>3. NoSnapshot \in [by : Configs, live : Entries]
  BY <1>1 DEF NoSnapshot, Config, Configs, Numbers
<1> QED  BY <1>1, <1>2, <1>3 DEF None, Idle

LEMMA RestartSteps == ASSUME IInv, NEW c \in Cores, Restart(c) PROVE IInv'
<1>1. /\ stage = IF c = 1 THEN "alone" ELSE "drained"
      /\ live' = [live EXCEPT ![c] = None] /\ flight' = [flight EXCEPT ![c] = {}]
      /\ cfg' = [cfg EXCEPT ![c] = file] /\ queue' = [queue EXCEPT ![c] = <<>>]
      /\ told' = [told EXCEPT ![c] = FALSE]
      /\ req' = [r \in Requests |-> IF req[r].core = c THEN Idle ELSE req[r]]
      /\ UNCHANGED <<world, tokens, held, file, writes, handover>>
  BY DEF Restart
<1>2. Shape  BY DEF IInv
<1>3. \A d \in Cores :
        /\ live'[d] = IF d = c THEN None ELSE live[d]
        /\ flight'[d] = IF d = c THEN {} ELSE flight[d]
        /\ cfg'[d] = IF d = c THEN file ELSE cfg[d]
        /\ queue'[d] = IF d = c THEN <<>> ELSE queue[d]
  BY <1>1, <1>2 DEF Shape
<1>4. \A d \in Cores : d # c => told'[d] = told[d]
  <2>1. told \in [Cores -> BOOLEAN]  BY <1>2 DEF Shape
  <2> QED  BY <1>1, <2>1
<1>5. \A r \in Requests : req'[r] = IF req[r].core = c THEN Idle ELSE req[r]  BY <1>1
<1>6. /\ UNCHANGED <<world, tokens, held, file, writes, handover>>
      /\ \A d \in Cores : Accepts(d)' <=> Accepts(d)
  BY <1>1 DEF Accepts, Drains
<1>7. \A d \in Cores : Accepts(d) <=> d = c  BY <1>1 DEF Accepts, Drains
<1>8. \A d \in Cores : flight'[d] = {} /\ queue'[d] = <<>>  BY <1>1, <1>3 DEF IInv, Order
<1>9. \A r \in Requests, d \in Cores : At(r, d)' => d # c /\ At(r, d) /\ req'[r] = req[r]
  BY <1>5, NothingAtHand DEF At, Active
<1>10. \A r \in Requests : ~Flying(r)'
  <2> SUFFICES ASSUME NEW r \in Requests, Flying(r)' PROVE FALSE  OBVIOUS
  <2>1. req'[r] = req[r] /\ Flying(r)  BY <1>5, NothingAtHand DEF Flying
  <2>2. flight[req[r].core] = {r} /\ req[r].core \in Cores /\ req[r].core # c
    BY <1>2, <1>5, <2>1, NothingAtHand DEF IInv, Callers, Calling, Shape, Calls, Flying
  <2> QED  BY <1>3, <1>8, <2>2
<1>11. Shape'
  <2>1. live' \in [Cores -> Entries]  BY <1>1, <1>2, NothingAtHand DEF Shape
  <2>2. req' \in [Requests -> Calls]  BY <1>1, <1>2, IdleIsCall DEF Shape
  <2>3. flight' \in [Cores -> SUBSET Requests] /\ cfg' \in [Cores -> Configs]
    BY <1>1, <1>2 DEF Shape
  <2>4. queue' \in [Cores -> {<<>>} \cup {<<k>> : k \in Configs}]  BY <1>1, <1>2 DEF Shape
  <2>5. told' \in [Cores -> BOOLEAN]
    <3>1. told \in [Cores -> BOOLEAN]  BY <1>2 DEF Shape
    <3> QED  BY <1>1, <3>1
  <2> QED  BY <1>2, <1>6, <2>1, <2>2, <2>3, <2>4, <2>5 DEF Shape
<1>12. Order'  BY <1>3, <1>6, <1>8 DEF IInv, Order
<1>13. Callers'
  <2> SUFFICES ASSUME NEW r \in Requests PROVE Calling(r)'  BY DEF Callers
  <2>1. CASE req'[r] = Idle
    BY <2>1, NothingAtHand DEF Calling, Active, At, Flying, First
  <2>2. CASE req'[r] = req[r] /\ Calling(r)
    <3>1. At(r, 2)' => Accepts(2)'  BY <1>6, <2>2 DEF Calling, At, Active
    <3> QED  BY <1>10, <2>2, <3>1 DEF Calling, Active, First
  <2> QED  BY <1>5, <2>1, <2>2 DEF IInv, Callers
<1>14. Issued'
  <2>1. file.refresh <= file.refresh /\ 0 <= issued  BY <1>2, Sizes
  <2> QED  BY <1>3, <1>6, <2>1, NothingAtHand DEF IInv, Issued
<1>15. Had'
  <2> SUFFICES ASSUME NEW r \in Requests PROVE Having(r)'  BY DEF Had
  <2>1. 0 <= issued /\ 0 <= file.refresh  BY <1>2, Sizes
  <2>2. req'[r].pc # "told"  BY <1>10 DEF Flying
  <2> QED  BY <1>5, <1>6, <2>1, <2>2, NothingAtHand DEF IInv, Had, Having
<1>16. Queued'  BY <1>8, OneInQueue DEF Queued
<1>17. Lagging' /\ Ours' /\ Strangers'
  <2>1. Same(c)' /\ Strange(c)' /\ live'[c] = None
    BY <1>3, <1>6, <1>9 DEF Same, Strange
  <2> QED  BY <1>6, <1>7, <2>1 DEF Lagging, Ours, Strangers
<1>18. Covered'
  <2>1. 0 <= file.refresh  BY <1>2, Sizes
  <2>2. snapshot.live.refresh = 0  BY <1>1, NothingAtHand DEF IInv, Order
  <2>3. CASE c = 1
    <3>1. live'[1] = None /\ live'[2] = None  BY <1>1, <1>3, <2>3 DEF IInv, Order
    <3> QED  BY <1>6, <2>1, <2>2, <3>1, NothingAtHand DEF Covered, Safe
  <2>4. CASE c = 2
    <3>1. live'[2] = None /\ live'[1] = live[1]  BY <1>3, <2>4
    <3>2. told'[1] = told[1] /\ queue'[1] = queue[1]  BY <1>3, <1>4, <2>4
    <3>3. Safe(live[1].refresh, 1)'  BY <1>6, <3>1, <3>2 DEF IInv, Covered, Safe
    <3> QED  BY <1>6, <2>1, <2>2, <3>1, <3>3, NothingAtHand DEF Covered, Safe
  <2> QED  BY <2>3, <2>4
<1>19. Asking'  BY <1>10 DEF Asking, Presenting
<1>20. Causes'  BY <1>3, <1>6, NothingAtHand DEF IInv, Causes, Excused, Spent, Due
<1>21. Sent'
  <2> SUFFICES ASSUME NEW r \in Requests, Gone(r)', req'[r].core = c PROVE FALSE
    BY <1>6, <1>7 DEF Sent, Going
  <2>1. At(r, c)'  BY DEF Gone, First, At, Active
  <2> QED  BY <1>9, <2>1
<1>22. Taking'  BY <1>1 DEF Taking
<1> QED
  BY <1>11, <1>12, <1>13, <1>14, <1>15, <1>16, <1>17, <1>18, <1>19, <1>20, <1>21, <1>22
     DEF IInv

-----------------------------------------------------------------------------
(* The handover *)

LEMMA ExportedIs ==
  ASSUME IInv
  PROVE  /\ Exported(1).by = cfg[1] /\ Exported(1) \in [by : Configs, live : Entries]
         /\ Exported(1).live = IF UsableFor(live[1], cfg[1]) THEN live[1] ELSE None
<1>1. live[1] \in Entries /\ cfg[1] \in Configs  BY DEF IInv, Shape
<1> QED  BY <1>1, NothingAtHand DEF Exported

(* What a core has exported has all that was known of the core. *)
LEMMA ExportSteps ==
  ASSUME IInv, snapshot' = Exported(1), UNCHANGED <<world, tokens, cores, back, req>>,
         \A c \in Cores : Accepts(c)' <=> Accepts(c)
  PROVE  /\ Shape' <=> stage' \in Stages
         /\ Callers' /\ Issued' /\ Had' /\ Queued' /\ Lagging' /\ Ours' /\ Strangers'
         /\ Covered' /\ Asking' /\ Causes' /\ Sent'
<1>1. Shape  BY DEF IInv
<1>2. /\ snapshot' \in [by : Configs, live : Entries]
      /\ snapshot'.live = live[1] \/ snapshot'.live = None
  BY ExportedIs
<1>3. UNCHANGED <<world, tokens, cores, back, req>>  OBVIOUS
<1>4. Shape' <=> stage' \in Stages  BY <1>1, <1>2, <1>3 DEF Shape
<1>5. Callers'  BY <1>3 DEF IInv, Callers, Calling, At, Active, Flying, First
<1>6. Issued'
  <2>1. 0 <= issued  BY <1>1, Sizes
  <2> QED  BY <1>2, <1>3, <2>1, NothingAtHand DEF IInv, Issued
<1>7. Had'
  <2> SUFFICES ASSUME NEW r \in Requests PROVE Having(r)'  BY DEF Had
  <2>1. Having(r)  BY DEF IInv, Had
  <2>2. req[r].pc = "told" => snapshot'.live.refresh < issued
    <3>1. issued \in Nat \ {0}  BY <1>1 DEF Shape
    <3> QED  BY <1>2, <2>1, <3>1, NothingAtHand DEF Having
  <2> QED  BY <1>3, <2>1, <2>2 DEF Having
<1>8. Queued'
  <2> SUFFICES ASSUME NEW c \in Cores, NEW new \in Configs, queue[c] = <<new>>
               PROVE  Sending(c, new)'
    BY <1>3 DEF Queued
  <2>1. Sending(c, new)  BY DEF IInv, Queued
  <2>2. new.refresh # 0 => snapshot'.live.refresh <= new.refresh
    <3>1. 0 <= new.refresh  BY DEF Configs, Numbers
    <3> QED  BY <1>2, <2>1, <3>1, NothingAtHand DEF Sending
  <2> QED  BY <1>3, <2>1, <2>2 DEF Sending, Same, Fresh, At, Active
<1>9. Lagging' /\ Ours' /\ Strangers'
  <2>1. \A c \in Cores : Same(c)' <=> Same(c)  BY <1>3 DEF Same, At, Active
  <2>2. \A c \in Cores : Behind(c)' <=> Behind(c)
    BY <1>3 DEF Behind, Fresh, UsableFor, At, Active
  <2>3. \A c \in Cores : Strange(c)' <=> Strange(c)  BY <1>3 DEF Strange, At, Active
  <2>4. \A c \in Cores : UsableFor(live[c], file)' <=> UsableFor(live[c], file)
    BY <1>3 DEF UsableFor
  <2> QED  BY <1>3, <2>1, <2>2, <2>3, <2>4 DEF IInv, Lagging, Ours, Strangers
<1>10. Covered'
  <2>1. 0 <= file.refresh  BY <1>1, Sizes
  <2> QED  BY <1>2, <1>3, <2>1, NothingAtHand DEF IInv, Covered, Safe
<1>11. Asking'
  BY <1>3 DEF IInv, Asking, Presenting, Flying, Safe, Spent, Due, UsableFor
<1>12. Causes'  BY <1>2, <1>3, NothingAtHand DEF IInv, Causes, Excused, Spent, Due
<1>13. Sent'
  BY <1>3 DEF IInv, Sent, Going, Gone, First, Went, Stands, Excused, Spent, Due, UsableFor
<1> QED
  BY <1>4, <1>5, <1>6, <1>7, <1>8, <1>9, <1>10, <1>11, <1>12, <1>13

LEMMA AskSteps == ASSUME IInv, Ask PROVE IInv'
<1>1. /\ stage = "alone" /\ stage' = "asked" /\ snapshot' = Exported(1)
      /\ UNCHANGED <<world, tokens, cores, back, req>>
  BY DEF Ask, Steps
<1>2. \A c \in Cores : Accepts(c)' <=> Accepts(c)  BY <1>1 DEF Accepts, Drains
<1>3. Order'  BY <1>1 DEF IInv, Order
<1>4. Taking'
  <2> SUFFICES ASSUME NewLogin(snapshot.live)' PROVE UsableFor(live[1], file)'
    BY <1>1 DEF Taking
  <2>1. Accepts(1)  BY <1>1 DEF Accepts, Drains
  <2>2. snapshot'.live = live[1]  BY <1>1, ExportedIs DEF NewLogin
  <2>3. signedIn \in Nat /\ live[1].refresh \in Nat  BY Sizes DEF IInv
  <2>4. UsableFor(live[1], file)
    BY <1>1, <2>1, <2>2, <2>3 DEF IInv, Ours, NewLogin
  <2> QED  BY <1>1, <2>4 DEF UsableFor
<1>5. stage' \in Stages  BY <1>1 DEF Stages
<1>6. /\ Shape' <=> stage' \in Stages
      /\ Callers' /\ Issued' /\ Had' /\ Queued' /\ Lagging' /\ Ours' /\ Strangers'
      /\ Covered' /\ Asking' /\ Causes' /\ Sent'
  BY <1>1, <1>2, ExportSteps
<1> QED  BY <1>3, <1>4, <1>5, <1>6 DEF IInv

LEMMA YieldSteps == ASSUME IInv, Yield PROVE IInv'
<1>1. /\ stage = "paused" /\ stage' = "yielded" /\ snapshot' = Exported(1)
      /\ UNCHANGED <<world, tokens, cores, back, req>>
      /\ flight[1] = {} /\ queue[1] = <<>>
  BY DEF Yield, Steps, IInv, Order
<1>2. \A c \in Cores : Accepts(c)' <=> Accepts(c)  BY <1>1 DEF Accepts, Drains
<1>3. Order'  BY <1>1 DEF IInv, Order
<1>4. Taking'
  <2>1. Accepts(1)  BY <1>1 DEF Accepts, Drains
  <2>2. Same(1) \/ Behind(1)  BY <2>1 DEF IInv, Lagging
  <2>3. ASSUME NewLogin(live[2])
        PROVE  /\ snapshot'.live # None
               /\ snapshot'.by.refresh = file.refresh \/ snapshot'.live.refresh = file.refresh
    <3>1. UsableFor(live[1], file)  BY <1>1, <2>3 DEF IInv, Taking
    <3>2. UsableFor(live[1], cfg[1])  BY <2>2, <3>1 DEF Same, Behind, UsableFor
    <3>3. snapshot'.live = live[1] /\ snapshot'.by = cfg[1]  BY <1>1, <3>2, ExportedIs
    <3>4. live[1] # None  BY <3>2 DEF UsableFor
    <3>5. cfg[1].refresh = file.refresh \/ live[1].refresh = file.refresh
      BY <2>2 DEF Same, Behind
    <3> QED  BY <3>3, <3>4, <3>5
  <2> QED  BY <1>1, <2>3 DEF Taking, Matches, NewLogin
<1>5. stage' \in Stages  BY <1>1 DEF Stages
<1>6. /\ Shape' <=> stage' \in Stages
      /\ Callers' /\ Issued' /\ Had' /\ Queued' /\ Lagging' /\ Ours' /\ Strangers'
      /\ Covered' /\ Asking' /\ Causes' /\ Sent'
  BY <1>1, <1>2, ExportSteps
<1> QED  BY <1>3, <1>4, <1>5, <1>6 DEF IInv

(* What a successor takes over. *)
LEMMA ImportedIs ==
  ASSUME IInv, NEW k \in Configs
  PROVE  LET e == snapshot.live
             l == Imported(2, k)
         IN /\ l \in Entries
            /\ \/ /\ e = None \/ ~Matches(k)
                  /\ l = live[2]
               \/ /\ e # None /\ Matches(k) /\ l.fp = k.refresh
                  /\ l.access = e.access /\ l.refresh = e.refresh /\ l.own = e.own
                  /\ l.now = e.now /\ l.failed = e.failed
<1> DEFINE e == snapshot.live
<1>1. e \in Entries /\ live[2] \in Entries /\ k.refresh \in Numbers
  BY DEF IInv, Shape, Configs
<1>2. CASE e = None \/ ~Matches(k)
  <2>1. Imported(2, k) = live[2]  BY <1>2 DEF Imported, Matches
  <2> QED  BY <1>1, <1>2, <2>1
<1>3. CASE e # None /\ Matches(k)
  <2>1. Imported(2, k) = [e EXCEPT !.fp = k.refresh]  BY <1>3 DEF Imported, Matches
  <2> HIDE DEF e
  <2>2. [e EXCEPT !.fp = k.refresh] \in Entries  BY <1>1 DEF Entries
  <2>3. LET l == [e EXCEPT !.fp = k.refresh]
        IN /\ l.fp = k.refresh /\ l.access = e.access /\ l.refresh = e.refresh
           /\ l.own = e.own /\ l.now = e.now /\ l.failed = e.failed
    BY <1>1 DEF Entries
  <2> QED  BY <1>3, <2>1, <2>2, <2>3 DEF e
<1> QED  BY <1>2, <1>3

(* A successor without requests takes over what its predecessor exported.  *)
LEMMA ImportSteps ==
  ASSUME IInv, NEW k \in Configs, ~Accepts(2), live' = [live EXCEPT ![2] = Imported(2, k)],
         snapshot' = NoSnapshot, UNCHANGED <<world, tokens, flight, back, req>>,
         cfg' \in [Cores -> Configs], cfg'[1] = cfg[1], cfg'[2] \in {cfg[2], file},
         held' \in [Cores -> BOOLEAN], stage' \in Stages, Accepts(1)' <=> Accepts(1)
  PROVE  /\ Shape' /\ Callers' /\ Issued' /\ Had' /\ Queued' /\ Covered' /\ Asking'
         /\ Causes' /\ Sent'
         /\ Accepts(1) => /\ Same(1)' \/ Behind(1)'
                          /\ \/ live'[1] = None \/ live'[1].refresh < signedIn'
                             \/ UsableFor(live[1], file)'
                          /\ UsableFor(live[1], file)' \/ Strange(1)'
<1>1. Shape  BY DEF IInv
<1>2. /\ live'[1] = live[1] /\ live'[2] = Imported(2, k) /\ live'[2] \in Entries
      /\ \/ live'[2] = live[2]
         \/ /\ live'[2].access = snapshot.live.access /\ live'[2].refresh = snapshot.live.refresh
            /\ live'[2].own = snapshot.live.own /\ live'[2].now = snapshot.live.now
            /\ live'[2].failed = snapshot.live.failed
  <2>1. live'[1] = live[1] /\ live'[2] = Imported(2, k)  BY <1>1 DEF Shape
  <2> QED  BY <2>1, ImportedIs
<1>3. UNCHANGED <<world, tokens, flight, back, req>>  OBVIOUS
<1>4. \A r \in Requests : ~At(r, 2)  BY DEF IInv, Callers, Calling
<1>5. queue[2] = <<>>  BY DEF IInv, Order, Accepts
<1>6. Shape'
  <2>1. live' \in [Cores -> Entries]  BY <1>1, <1>2 DEF Shape
  <2> QED  BY <1>1, <1>3, <2>1, NothingAtHand DEF Shape
<1>7. Callers'
  <2> SUFFICES ASSUME NEW r \in Requests PROVE Calling(r)'  BY DEF Callers
  <2>1. Calling(r) /\ ~At(r, 2)  BY <1>4 DEF IInv, Callers
  <2> QED  BY <1>3, <2>1 DEF Calling, At, Active, Flying, First
<1>8. Issued'
  <2>1. 0 <= issued /\ file.refresh <= file.refresh  BY <1>1, Sizes
  <2> QED  BY <1>2, <1>3, <2>1, NothingAtHand DEF IInv, Issued
<1>9. Had'
  <2> SUFFICES ASSUME NEW r \in Requests PROVE Having(r)'  BY DEF Had
  <2>1. Having(r) /\ 0 < issued  BY <1>1 DEF IInv, Had, Shape
  <2> QED  BY <1>2, <1>3, <2>1, NothingAtHand DEF Having
<1>10. Same(1) <=> Same(1)'  BY <1>3 DEF Same, At, Active
<1>11. Queued'
  <2> SUFFICES ASSUME NEW new \in Configs, queue[1] = <<new>> PROVE Sending(1, new)'
    BY <1>3, <1>5, OneInQueue DEF Queued
  <2>1. Sending(1, new)  BY DEF IInv, Queued
  <2>2. 0 <= new.refresh  BY DEF Configs, Numbers
  <2>3. new.refresh # 0 => live'[2].refresh <= new.refresh /\ live'[1].refresh <= new.refresh
    BY <1>2, <2>1 DEF Sending
  <2>4. cfg'[1].access < new.access /\ cfg'[2].access < new.access  BY <2>1 DEF Sending
  <2>5. Fresh(live[1])'  BY <1>2, <1>3, <2>1 DEF Sending, Fresh
  <2> QED
    BY <1>2, <1>3, <1>10, <2>1, <2>2, <2>3, <2>4, <2>5, NothingAtHand DEF Sending
<1>12. Covered'
  <2>1. 0 <= file.refresh  BY <1>1, Sizes
  <2> QED  BY <1>2, <1>3, <2>1, NothingAtHand DEF IInv, Covered, Safe
<1>13. Asking'
  <2> SUFFICES ASSUME NEW r \in Requests PROVE Presenting(r)'  BY DEF Asking
  <2>1. Presenting(r) /\ ~At(r, 2)  BY <1>4 DEF IInv, Asking
  <2> QED
    BY <1>2, <1>3, <2>1 DEF Presenting, Flying, At, Active, Safe, UsableFor, Spent, Due
<1>14. Causes'
  BY <1>2, <1>3, NothingAtHand DEF IInv, Causes, Excused, Spent, Due
<1>15. Sent'
  <2> SUFFICES ASSUME NEW r \in Requests, Gone(r), req[r].core = 1, Accepts(1)
               PROVE  /\ Stands(live[1], Went(r), req[r].mark)'
                      /\ \A p \in Requests :
                           req'[p].pc = "told" /\ req'[p].core = 1 => req'[r].mark < issued'
    <3>1. \A r \in Requests : Gone(r) => req[r].core # 2
      BY <1>4 DEF Gone, First, At, Active
    <3> QED  BY <1>3, <3>1 DEF Sent, Going, Gone, First
  <2>1. Stands(live[1], Went(r), req[r].mark)  BY DEF IInv, Sent, Going
  <2>2. Stands(live[1], Went(r), req[r].mark)'
    BY <1>2, <1>3, <2>1 DEF Stands, Went, First, UsableFor, Excused, Spent, Due
  <2> QED  BY <1>3, <2>2 DEF IInv, Sent, Going
<1>16. ASSUME Accepts(1)
       PROVE  /\ Same(1)' \/ Behind(1)'
              /\ \/ live'[1] = None \/ live'[1].refresh < signedIn'
                 \/ UsableFor(live[1], file)'
              /\ UsableFor(live[1], file)' \/ Strange(1)'
  <2>1. Behind(1) => Behind(1)'
    BY <1>2, <1>3 DEF Behind, Fresh, UsableFor, At, Active
  <2>2. UsableFor(live[1], file)' <=> UsableFor(live[1], file)  BY <1>2, <1>3 DEF UsableFor
  <2>3. Strange(1) => Strange(1)'  BY <1>3 DEF Strange, At, Active
  <2> QED
    BY <1>2, <1>3, <1>10, <1>16, <2>1, <2>2, <2>3 DEF IInv, Lagging, Ours, Strangers
<1> QED
  BY <1>6, <1>7, <1>8, <1>9, <1>11, <1>12, <1>13, <1>14, <1>15, <1>16

LEMMA LoadSteps == ASSUME IInv, Load PROVE IInv'
<1>1. /\ stage = "asked" /\ stage' = "started"
      /\ cfg' = [cfg EXCEPT ![2] = file] /\ held' = [held EXCEPT ![2] = TRUE]
      /\ live' = [live EXCEPT ![2] = Imported(2, file)] /\ snapshot' = NoSnapshot
      /\ UNCHANGED <<world, tokens, flight, back, req>>
  BY DEF Load, Steps
<1>2. Shape /\ file \in Configs  BY DEF IInv, Shape
<1>3. cfg' \in [Cores -> Configs] /\ cfg'[1] = cfg[1] /\ cfg'[2] = file
  BY <1>1, <1>2 DEF Shape
<1>4. held' \in [Cores -> BOOLEAN] /\ held'[2]
  <2>1. held \in [Cores -> BOOLEAN]  BY <1>2 DEF Shape
  <2> QED  BY <1>1, <2>1
<1>5. ~Accepts(2) /\ ~Accepts(2)' /\ Accepts(1) /\ Accepts(1)' /\ stage' \in Stages
  BY <1>1 DEF Accepts, Drains, Stages
<1>6. /\ Shape' /\ Callers' /\ Issued' /\ Had' /\ Queued' /\ Covered' /\ Asking'
      /\ Causes' /\ Sent'
      /\ Same(1)' \/ Behind(1)'
      /\ \/ live'[1] = None \/ live'[1].refresh < signedIn'
         \/ UsableFor(live[1], file)'
      /\ UsableFor(live[1], file)' \/ Strange(1)'
  BY <1>1, <1>2, <1>3, <1>4, <1>5, ImportSteps
<1>7. Order'
  <2>1. flight'[2] = {} /\ queue'[2] = <<>> /\ ~writes'[2]  BY <1>1 DEF IInv, Order
  <2> QED  BY <1>1, <1>4, <2>1 DEF IInv, Order
<1>8. Lagging' /\ Ours' /\ Strangers'  BY <1>5, <1>6 DEF Lagging, Ours, Strangers
<1>9. Taking'
  <2>1. ASSUME NewLogin(live[2])' PROVE UsableFor(live[1], file)'
    <3>1. live'[2] = Imported(2, file) /\ live'[1] = live[1]  BY <1>1, <1>2 DEF Shape
    <3>2. live[2] = None  BY <1>1 DEF IInv, Order
    <3>3. live'[2] # None /\ signedIn <= live'[2].refresh  BY <1>1, <2>1 DEF NewLogin
    <3>4. snapshot.live # None /\ live'[2].refresh = snapshot.live.refresh
      BY <1>2, <3>1, <3>2, <3>3, ImportedIs
    <3>5. UsableFor(live[1], file)  BY <1>1, <3>3, <3>4 DEF IInv, Taking, NewLogin
    <3> QED  BY <1>1, <3>1, <3>5 DEF UsableFor
  <2> QED  BY <1>1, <1>3, <2>1 DEF Taking
<1> QED  BY <1>6, <1>7, <1>8, <1>9 DEF IInv

LEMMA AdoptSteps == ASSUME IInv, Adopt PROVE IInv'
<1>1. /\ stage = "yielded" /\ stage' = "adopted"
      /\ live' = [live EXCEPT ![2] = Imported(2, cfg[2])] /\ snapshot' = NoSnapshot
      /\ cfg[2] = file /\ UNCHANGED <<world, tokens, cfg, flight, held, back, req>>
  BY DEF Adopt, Steps, IInv, Order
<1>2. Shape /\ cfg[2] \in Configs  BY DEF IInv, Shape
<1>3. ~Accepts(2) /\ Accepts(1) /\ Accepts(1)' /\ stage' \in Stages
  BY <1>1 DEF Accepts, Drains, Stages
<1>4. /\ Shape' /\ Callers' /\ Issued' /\ Had' /\ Queued' /\ Covered' /\ Asking'
      /\ Causes' /\ Sent'
      /\ Same(1)' \/ Behind(1)'
      /\ \/ live'[1] = None \/ live'[1].refresh < signedIn'
         \/ UsableFor(live[1], file)'
      /\ UsableFor(live[1], file)' \/ Strange(1)'
  <2>1. cfg' \in [Cores -> Configs] /\ held' \in [Cores -> BOOLEAN]  BY <1>1, <1>2 DEF Shape
  <2> QED  BY <1>1, <1>2, <1>3, <2>1, ImportSteps
<1>5. Order'
  <2>1. flight[1] = {} /\ queue[1] = <<>> /\ flight[2] = {} /\ queue[2] = <<>> /\ ~writes[2]
        /\ held[1] /\ held[2]
    BY <1>1 DEF IInv, Order
  <2> QED  BY <1>1, <2>1 DEF IInv, Order
<1>6. \A r \in Requests : ~At(r, 2)'
  BY <1>1, <1>3 DEF IInv, Callers, Calling, At, Active
<1>7. /\ live'[2] = Imported(2, file)
      /\ queue'[2] = <<>> /\ flight'[2] = {}
  BY <1>1, <1>2 DEF Shape, IInv, Order
<1>8. NewLogin(live[2]) => snapshot.live # None /\ Matches(file)
  BY <1>1 DEF IInv, Taking
<1>9. ASSUME live'[2] # None, signedIn <= live'[2].refresh
      PROVE  UsableFor(live[2], file)'
  <2>1. CASE snapshot.live # None /\ Matches(file)
    <3>1. live'[2].fp = file.refresh  BY <1>1, <1>2, <1>7, <2>1, ImportedIs
    <3> QED  BY <1>1, <1>9, <3>1 DEF UsableFor
  <2>2. CASE ~(snapshot.live # None /\ Matches(file))
    <3>1. live'[2] = live[2]  BY <1>1, <1>2, <1>7, <2>2, ImportedIs
    <3>2. NewLogin(live[2])  BY <1>9, <3>1 DEF NewLogin
    <3> QED  BY <1>8, <2>2, <3>2
  <2> QED  BY <2>1, <2>2
<1>10. Same(2)' /\ Strange(2)'  BY <1>1, <1>6, <1>7 DEF Same, Strange
<1>11. Lagging' /\ Strangers'  BY <1>4, <1>10 DEF Lagging, Strangers
<1>12. Ours'
  <2>1. live'[2] = None \/ live'[2].refresh < signedIn' \/ UsableFor(live[2], file)'
    <3>1. live'[2].refresh \in Nat /\ signedIn' \in Nat
      <4>1. Shape'  BY <1>4
      <4>2. live'[2] \in Entries /\ signedIn' \in Tokens  BY <4>1 DEF Shape
      <4> QED  BY <4>2 DEF Entries, Numbers
    <3> QED  BY <1>1, <1>9, <3>1
  <2> QED  BY <1>4, <2>1 DEF Ours
<1>13. Taking'  BY <1>1 DEF Taking
<1> QED  BY <1>4, <1>5, <1>11, <1>12, <1>13 DEF IInv

(* A handover goes on, and no core learns anything. *)
LEMMA StageSteps ==
  ASSUME IInv, UNCHANGED <<world, tokens, cfg, live, flight, file, queue, told, snapshot, req>>,
         held' \in [Cores -> BOOLEAN], writes' \in [Cores -> BOOLEAN], stage' \in Stages,
         \A c \in Cores : (Accepts(c)' => Accepts(c)) /\ (Accepts(2) => Accepts(2)'),
         Order', Taking'
  PROVE  IInv'
<1>1. UNCHANGED <<world, tokens, cfg, live, flight, file, queue, told, snapshot, req>>  OBVIOUS
<1>2. Shape'  BY <1>1 DEF IInv, Shape
<1>3. Callers' /\ Issued' /\ Had'
  BY <1>1 DEF IInv, Callers, Calling, Issued, Had, Having, At, Active, Flying, First
<1>4. \A c \in Cores : Same(c)' <=> Same(c)  BY <1>1 DEF Same, At, Active
<1>5. Queued'  BY <1>1, <1>4 DEF IInv, Queued, Sending, Fresh
<1>6. Lagging' /\ Ours' /\ Strangers'
  <2>1. \A c \in Cores : Behind(c)' <=> Behind(c)
    BY <1>1 DEF Behind, Fresh, UsableFor, At, Active
  <2>2. \A c \in Cores : Strange(c)' <=> Strange(c)  BY <1>1 DEF Strange, At, Active
  <2>3. \A c \in Cores : UsableFor(live[c], file)' <=> UsableFor(live[c], file)
    BY <1>1 DEF UsableFor
  <2> QED  BY <1>1, <1>4, <2>1, <2>2, <2>3 DEF IInv, Lagging, Ours, Strangers
<1>7. Covered' /\ Asking'
  BY <1>1 DEF IInv, Covered, Safe, Asking, Presenting, Flying, UsableFor, Spent, Due
<1>8. Causes'  BY <1>1 DEF IInv, Causes, Excused, Spent, Due
<1>9. Sent'
  BY <1>1 DEF IInv, Sent, Going, Gone, First, Went, Stands, UsableFor, Excused, Spent, Due
<1> QED  BY <1>2, <1>3, <1>5, <1>6, <1>7, <1>8, <1>9 DEF IInv

LEMMA PauseSteps == ASSUME IInv, Pause PROVE IInv'
<1>1. /\ stage = "started" /\ stage' = "paused" /\ held' = [held EXCEPT ![1] = TRUE]
      /\ UNCHANGED <<world, tokens, cfg, live, flight, back, snapshot, req>>
  BY DEF Pause, Steps
<1>2. UNCHANGED <<world, tokens, cfg, live, flight, back, snapshot, req>>  BY <1>1
<1>3. held' \in [Cores -> BOOLEAN] /\ held'[1] /\ (held[2] => held'[2])
  <2>1. held \in [Cores -> BOOLEAN]  BY DEF IInv, Shape
  <2> QED  BY <1>1, <2>1
<1>4. \A c \in Cores : Accepts(c)' <=> Accepts(c)  BY <1>1 DEF Accepts, Drains
<1>5. Order'  BY <1>1, <1>2, <1>3 DEF IInv, Order
<1>6. Taking'
  <2>1. UsableFor(live[1], file)' <=> UsableFor(live[1], file)  BY <1>2 DEF UsableFor
  <2> QED  BY <1>1, <1>2, <2>1 DEF IInv, Taking, NewLogin
<1>7. stage' \in Stages  BY <1>1 DEF Stages
<1>8. writes' \in [Cores -> BOOLEAN]  BY <1>2 DEF IInv, Shape
<1> QED  BY <1>2, <1>3, <1>4, <1>5, <1>6, <1>7, <1>8, StageSteps

LEMMA CommitSteps == ASSUME IInv, Commit PROVE IInv'
<1>1. /\ stage = "adopted" /\ stage' = "committed" /\ held' = [held EXCEPT ![2] = FALSE]
      /\ UNCHANGED <<world, tokens, cfg, live, flight, back, snapshot, req>>
  BY DEF Commit, Steps
<1>2. UNCHANGED <<world, tokens, cfg, live, flight, back, snapshot, req>>  BY <1>1
<1>3. held' \in [Cores -> BOOLEAN] /\ (held[1] => held'[1])
  <2>1. held \in [Cores -> BOOLEAN]  BY DEF IInv, Shape
  <2> QED  BY <1>1, <2>1
<1>4. \A c \in Cores : (Accepts(c)' => Accepts(c)) /\ (Accepts(2) => Accepts(2)')
  BY <1>1 DEF Accepts, Drains
<1>5. Order'  BY <1>1, <1>2, <1>3 DEF IInv, Order
<1>6. Taking'  BY <1>1 DEF Taking
<1>7. stage' \in Stages  BY <1>1 DEF Stages
<1>8. writes' \in [Cores -> BOOLEAN]  BY <1>2 DEF IInv, Shape
<1> QED  BY <1>2, <1>3, <1>4, <1>5, <1>6, <1>7, <1>8, StageSteps

LEMMA DrainSteps == ASSUME IInv, Drain PROVE IInv'
<1>1. /\ stage = "committed" /\ stage' = "drained" /\ queue[1] = <<>>
      /\ writes' = [c \in Cores |-> c = 2] /\ queue' = [queue EXCEPT ![1] = <<>>]
      /\ UNCHANGED <<world, tokens, cores, file, told, snapshot, req>>
  BY DEF Drain, Steps, IInv, Order
<1>2. UNCHANGED <<world, tokens, cores, file, told, snapshot, req>>  BY <1>1
<1>3. writes' \in [Cores -> BOOLEAN]  BY <1>1
<1>4. queue' = queue
  <2>1. queue \in [Cores -> {<<>>} \cup {<<k>> : k \in Configs}]  BY DEF IInv, Shape
  <2> QED  BY <1>1, <2>1
<1>5. \A c \in Cores : Accepts(c)' <=> Accepts(c)  BY <1>1 DEF Accepts, Drains
<1>6. Order'  BY <1>1, <1>2, <1>4 DEF IInv, Order
<1>7. Taking'  BY <1>1 DEF Taking
<1>8. stage' \in Stages  BY <1>1 DEF Stages
<1>9. held' \in [Cores -> BOOLEAN]  BY <1>2 DEF IInv, Shape
<1> QED  BY <1>2, <1>3, <1>4, <1>5, <1>6, <1>7, <1>8, <1>9, StageSteps

LEMMA AbandonSteps == ASSUME IInv, Abandon PROVE IInv'
<1>1. /\ stage \notin {"alone", "committed", "drained"} /\ stage' = "alone"
      /\ held' = [c \in Cores |-> FALSE] /\ live' = [live EXCEPT ![2] = None]
      /\ flight' = [flight EXCEPT ![2] = {}]
      /\ req' = [r \in Requests |-> IF req[r].core = 2 THEN Idle ELSE req[r]]
      /\ snapshot' = NoSnapshot /\ cfg' = [cfg EXCEPT ![2] = cfg[1]]
      /\ UNCHANGED <<world, tokens, back>>
  BY DEF Abandon
<1>2. Shape  BY DEF IInv
<1>3. /\ live'[1] = live[1] /\ live'[2] = None /\ flight'[1] = flight[1] /\ flight'[2] = {}
      /\ cfg'[1] = cfg[1] /\ cfg'[2] = cfg[1]
  BY <1>1, <1>2 DEF Shape
<1>4. \A r \in Requests : req'[r] = IF req[r].core = 2 THEN Idle ELSE req[r]  BY <1>1
<1>5. UNCHANGED <<world, tokens, back>>  BY <1>1
<1>6. Accepts(1) /\ Accepts(1)' /\ ~Accepts(2)' /\ queue[2] = <<>> /\ ~writes[2]
  BY <1>1 DEF Accepts, Drains, IInv, Order
<1>7. \A r \in Requests, c \in Cores :
        At(r, c)' => c = 1 /\ At(r, 1) /\ req'[r] = req[r] /\ req[r].core # 2
  BY <1>2, <1>4, NothingAtHand DEF At, Active
<1>8. Shape'
  <2>1. live' \in [Cores -> Entries]  BY <1>1, <1>2, NothingAtHand DEF Shape
  <2>2. req' \in [Requests -> Calls]  BY <1>1, <1>2, IdleIsCall DEF Shape
  <2>3. flight' \in [Cores -> SUBSET Requests] /\ cfg' \in [Cores -> Configs]
        /\ held' \in [Cores -> BOOLEAN]
    BY <1>1, <1>2 DEF Shape
  <2>4. stage' \in Stages  BY <1>1 DEF Stages
  <2> QED  BY <1>1, <1>2, <1>5, <2>1, <2>2, <2>3, <2>4, NothingAtHand DEF Shape
<1>9. Order'  BY <1>1, <1>3, <1>5, <1>6 DEF IInv, Order
<1>10. Callers'
  <2> SUFFICES ASSUME NEW r \in Requests PROVE Calling(r)'  BY DEF Callers
  <2>1. CASE req'[r] = Idle
    BY <2>1, NothingAtHand DEF Calling, Active, At, Flying, First
  <2>2. CASE req'[r] = req[r] /\ Calling(r) /\ req[r].core # 2
    <3>1. req[r].core = 1  BY <1>2, <2>2 DEF Shape, Calls
    <3> QED  BY <1>3, <2>2, <3>1 DEF Calling, Active, At, Flying, First
  <2> QED  BY <1>4, <2>1, <2>2 DEF IInv, Callers
<1>11. Issued'
  <2>1. 0 <= issued  BY <1>2, Sizes
  <2> QED  BY <1>1, <1>3, <1>5, <2>1, NothingAtHand DEF IInv, Issued
<1>12. Had'
  <2> SUFFICES ASSUME NEW r \in Requests PROVE Having(r)'  BY DEF Had
  <2>1. 0 <= issued /\ 0 <= file.refresh /\ 0 < issued  BY <1>2, Sizes DEF Shape
  <2>2. CASE req'[r] = Idle  BY <1>5, <2>1, <2>2, NothingAtHand DEF Having
  <2>3. CASE req'[r] = req[r]
    BY <1>1, <1>3, <1>5, <2>1, <2>3, NothingAtHand DEF IInv, Had, Having
  <2> QED  BY <1>4, <2>2, <2>3
<1>13. Same(1) => Same(1)'  BY <1>3, <1>5, <1>7 DEF Same
<1>14. Queued'
  <2> SUFFICES ASSUME NEW new \in Configs, queue[1] = <<new>> PROVE Sending(1, new)'
    BY <1>5, <1>6, OneInQueue DEF Queued
  <2>1. Sending(1, new)  BY DEF IInv, Queued
  <2>2. 0 <= new.refresh  BY DEF Configs, Numbers
  <2>3. Fresh(live[1])'  BY <1>3, <1>5, <2>1 DEF Sending, Fresh
  <2>4. \A c \in Cores : new.refresh # 0 => live'[c].refresh <= new.refresh
    BY <1>3, <2>1, <2>2, NothingAtHand DEF Sending
  <2>5. \A c \in Cores : cfg'[c].access < new.access  BY <1>3, <2>1 DEF Sending
  <2> QED
    BY <1>1, <1>3, <1>5, <1>13, <2>1, <2>2, <2>3, <2>4, <2>5, NothingAtHand DEF Sending
<1>15. Lagging' /\ Ours' /\ Strangers'
  <2>1. Behind(1) => Behind(1)'  BY <1>3, <1>5, <1>7 DEF Behind, Fresh, UsableFor
  <2>2. Strange(1) => Strange(1)'  BY <1>3, <1>5, <1>7 DEF Strange
  <2>3. UsableFor(live[1], file)' <=> UsableFor(live[1], file)  BY <1>3, <1>5 DEF UsableFor
  <2> QED
    BY <1>3, <1>5, <1>6, <1>13, <2>1, <2>2, <2>3 DEF IInv, Lagging, Ours, Strangers
<1>16. Covered'
  <2>1. 0 <= file.refresh  BY <1>2, Sizes
  <2> QED  BY <1>1, <1>3, <1>5, <2>1, NothingAtHand DEF IInv, Covered, Safe
<1>17. Asking'
  <2> SUFFICES ASSUME NEW r \in Requests PROVE Presenting(r)'  BY DEF Asking
  <2>1. CASE req'[r] = Idle  BY <2>1, NothingAtHand DEF Presenting, Flying
  <2>2. CASE req'[r] = req[r] /\ req[r].core # 2
    <3>1. Presenting(r)  BY DEF IInv, Asking
    <3> QED
      BY <1>3, <1>5, <2>2, <3>1 DEF Presenting, Flying, Safe, UsableFor, Spent, Due
  <2> QED  BY <1>4, <2>1, <2>2
<1>18. Causes'
  BY <1>1, <1>3, <1>5, NothingAtHand DEF IInv, Causes, Excused, Spent, Due
<1>19. Sent'
  <2> SUFFICES ASSUME NEW r \in Requests, Gone(r)', req'[r].core = 1
               PROVE  /\ Stands(live[1], Went(r), req[r].mark)'
                      /\ \A p \in Requests :
                           req'[p].pc = "told" /\ req'[p].core = 1 => req'[r].mark < issued'
    BY <1>6 DEF Sent, Going
  <2>1. At(r, 1)'  BY DEF Gone, First, At, Active
  <2>2. req'[r] = req[r]  BY <1>7, <2>1
  <2>3. Gone(r) /\ req[r].core = 1  BY <2>2 DEF Gone, First
  <2>4. /\ Stands(live[1], Went(r), req[r].mark)
        /\ \A p \in Requests : req[p].pc = "told" /\ req[p].core = 1 => req[r].mark < issued
    BY <1>6, <2>3 DEF IInv, Sent, Going
  <2>5. Stands(live[1], Went(r), req[r].mark)'
    BY <1>3, <1>5, <2>2, <2>4 DEF Stands, Went, First, UsableFor, Excused, Spent, Due
  <2>6. ASSUME NEW p \in Requests, req'[p].pc = "told", req'[p].core = 1
        PROVE  req'[r].mark < issued'
    <3>1. req'[p] = req[p]  BY <1>4, <2>6, NothingAtHand
    <3> QED  BY <1>5, <2>2, <2>4, <2>6, <3>1
  <2> QED  BY <2>5, <2>6
<1>20. Taking'  BY <1>1 DEF Taking
<1> QED
  BY <1>8, <1>9, <1>10, <1>11, <1>12, <1>14, <1>15, <1>16, <1>17, <1>18, <1>19, <1>20 DEF IInv

LEMMA NothingSteps == ASSUME IInv, UNCHANGED vars PROVE IInv'
<1>1. UNCHANGED <<world, tokens, cfg, live, flight, file, queue, told, snapshot, req>>
      /\ UNCHANGED <<held, writes, stage>>
  BY DEF vars
<1>2. Order' /\ Taking'
  BY <1>1 DEF IInv, Order, Taking, Matches, NewLogin, UsableFor
<1>3. held' \in [Cores -> BOOLEAN] /\ writes' \in [Cores -> BOOLEAN] /\ stage' \in Stages
  BY <1>1 DEF IInv, Shape
<1>4. \A c \in Cores : Accepts(c)' <=> Accepts(c)  BY <1>1 DEF Accepts, Drains
<1> QED  BY <1>1, <1>2, <1>3, <1>4, StageSteps

-----------------------------------------------------------------------------
(* The theorems *)

LEMMA NextHolds == IInv /\ [Next]_vars => IInv'
<1> SUFFICES ASSUME IInv, [Next]_vars PROVE IInv'  OBVIOUS
<1>1. ASSUME NEW r \in Requests, Own(r) PROVE IInv'
  BY <1>1, StartSteps, LookSteps, BoardSteps, RejectSteps, InvalidateSteps, IssueSteps,
     ArriveSteps, FailSteps, LeaveSteps, FinishSteps DEF Own
<1>2. ASSUME NEW n \in Tokens, Ripen(n) \/ Lapse(n) PROVE IInv'  BY <1>2, AgeSteps
<1>3. ASSUME NEW c \in Cores, Relent(c) \/ WriteBack(c) \/ GiveUp(c) \/ Restart(c) \/ Reload(c)
      PROVE  IInv'
  BY <1>3, RelentSteps, WriteBackSteps, GiveUpSteps, RestartSteps, ReloadSteps
<1>4. ASSUME NEW a \in 0..MaxTokens, SignIn(a) PROVE IInv'
  BY <1>4, SignInSteps DEF Numbers
<1>5. CASE Ask \/ Load \/ Pause \/ Yield \/ Adopt \/ Commit \/ Drain \/ Abandon
  BY <1>5, AskSteps, LoadSteps, PauseSteps, YieldSteps, AdoptSteps, CommitSteps,
     DrainSteps, AbandonSteps
<1>6. CASE UNCHANGED vars  BY <1>6, NothingSteps
<1> QED  BY <1>1, <1>2, <1>3, <1>4, <1>5, <1>6 DEF Next

LEMMA InvariantHolds == Patient /\ Spec => []IInv
BY InitHolds, NextHolds, PTL DEF Spec

(* What is on its way to the file, or shown as not written. *)
LEMMA SafeIsCovered ==
  ASSUME IInv, NEW n, NEW c \in Cores, Safe(n, c), n > file.refresh, n \in Nat
  PROVE  \E d \in Cores : told[d] \/ \E new \in ToSet(queue[d]) : new.refresh >= n
<1>1. CASE told[c]  BY <1>1
<1>2. CASE ~told[c]
  <2>1. ~(n <= file.refresh)
    <3>1. file.refresh \in Nat  BY Sizes DEF IInv
    <3> QED  BY <3>1
  <2>2. PICK new \in Configs : queue[c] = <<new>> /\ n <= new.refresh
    BY <1>2, <2>1 DEF Safe
  <2>3. new \in ToSet(<<new>>)  BY DEF ToSet
  <2>4. new.refresh >= n  BY <2>2 DEF Configs, Numbers
  <2> QED  BY <2>2, <2>3, <2>4
<1> QED  BY <1>1, <1>2

(* In the worlds of Patient the refresh token that a core goes by is in    *)
(* the file, on its way to it, or shown as not written, for any number of  *)
(* requests and of tokens.                                                 *)
THEOREM NothingIsUnwritten == Patient /\ Spec => []NothingUnwritten
<1>1. IInv => NothingUnwritten
  <2> SUFFICES ASSUME IInv, NEW c \in Cores, live[c].refresh > file.refresh
               PROVE  \E d \in Cores :
                        told[d] \/ \E new \in ToSet(queue[d]) : new.refresh >= live[c].refresh
    BY DEF NothingUnwritten
  <2>1. live[c].refresh \in Nat  BY Sizes DEF IInv
  <2>2. Safe(live[c].refresh, 1) \/ Safe(live[c].refresh, 2)  BY DEF IInv, Covered
  <2> QED  BY <2>1, <2>2, SafeIsCovered
<1> QED  BY <1>1, InvariantHolds, PTL

(* Who asks the token endpoint goes on from one of two places. *)
LEMMA WhoAsks ==
  ASSUME IInv, Next, NEW r \in Requests, Asks(r)
  PROVE  Board(r) \/ Invalidate(r)
<1>1. req'[r] # req[r] /\ req'[r].pc = "asks" /\ req[r].pc # "asks"  BY DEF Asks
<1>2. req \in [Requests -> Calls]  BY DEF IInv, Shape
<1>3. ASSUME NEW q \in Requests, NEW a, Gets(q, a) PROVE FALSE
  <2>1. req'[q].pc \in {"sent", "idle"} /\ \A p \in Requests : p # q => req'[p] = req[p]
    <3>1. CASE Ends(q)  BY <1>2, <3>1, NothingAtHand DEF Ends
    <3>2. CASE ~Ends(q)  BY <1>2, <1>3, <3>2 DEF Gets, Calls
    <3> QED  BY <3>1, <3>2
  <2> QED  BY <1>1, <2>1
<1>4. ASSUME NEW q \in Requests, Ends(q) PROVE FALSE
  <2>1. req'[q].pc = "idle" /\ \A p \in Requests : p # q => req'[p] = req[p]
    BY <1>2, <1>4, NothingAtHand DEF Ends
  <2> QED  BY <1>1, <2>1
<1>5. ASSUME NEW q \in Requests, Own(q) PROVE Board(r) \/ Invalidate(r)
  <2>1. CASE Start(q)  BY <1>1, <1>2, <2>1 DEF Start, Calls
  <2>2. CASE Look(q)  BY <1>1, <1>2, <1>3, <1>4, <2>2 DEF Look, FromCache, Calls
  <2>3. CASE Board(q)
    <3>1. q # r => req'[r] = req[r]
      BY <1>2, <1>3, <1>4, <2>3 DEF Board, FromCache, Renew
    <3> QED  BY <1>1, <2>3, <3>1
  <2>4. CASE Reject(q)  BY <1>1, <1>2, <2>4 DEF Reject, Calls
  <2>5. CASE Invalidate(q)
    <3>1. q # r => req'[r] = req[r]
      BY <1>2, <1>3, <1>4, <2>5 DEF Invalidate, Renew
    <3> QED  BY <1>1, <2>5, <3>1
  <2>6. CASE \E rotated \in BOOLEAN : Issue(q, rotated)
    BY <1>1, <1>2, <2>6 DEF Issue, Calls
  <2>7. CASE Arrive(q)  BY <1>3, <2>7 DEF Arrive
  <2>8. CASE Fail(q) \/ Leave(q) \/ Finish(q)  BY <1>4, <2>8 DEF Fail, Leave, Finish
  <2> QED  BY <1>5, <2>1, <2>2, <2>3, <2>4, <2>5, <2>6, <2>7, <2>8 DEF Own
<1>6. ASSUME NEW c \in Cores, Restart(c) PROVE FALSE
  <2>1. req'[r] \in {Idle, req[r]}  BY <1>6 DEF Restart
  <2> QED  BY <1>1, <2>1, NothingAtHand
<1>7. CASE Abandon
  <2>1. req'[r] \in {Idle, req[r]}  BY <1>7 DEF Abandon
  <2> QED  BY <1>1, <2>1, NothingAtHand
<1>8. ~UNCHANGED req  BY <1>1
<1>9. ASSUME NEW n \in Tokens, Ripen(n) \/ Lapse(n) PROVE FALSE  BY <1>8, <1>9 DEF Ripen, Lapse
<1>10. ASSUME NEW c \in Cores, Relent(c) \/ WriteBack(c) \/ GiveUp(c) \/ Reload(c)
       PROVE  FALSE
  BY <1>8, <1>10 DEF Relent, WriteBack, GiveUp, Reload
<1>11. ASSUME NEW a, SignIn(a) PROVE FALSE  BY <1>8, <1>11 DEF SignIn
<1>12. CASE Ask \/ Load \/ Pause \/ Yield \/ Adopt \/ Commit \/ Drain
  BY <1>8, <1>12 DEF Ask, Load, Pause, Yield, Adopt, Commit, Drain
<1> QED  BY <1>5, <1>6, <1>7, <1>9, <1>10, <1>11, <1>12 DEF Next

(* In the worlds of Patient nobody renews a token that need not be         *)
(* renewed, for any number of requests and of tokens.                      *)
THEOREM RenewalsAreDue == Patient /\ Spec => RenewedWhenDue
<1> DEFINE Fit(r) ==
      LET l == live[req[r].core] IN
      \/ l.access = 0 \/ Due(l) \/ Login(l.refresh) # Login(req[r].cfg.refresh)
      \/ req[r].old = l.access /\ ~(l.own /\ age[l.access] = "young")
<1>1. ASSUME IInv, Next, NEW r \in Requests, Asks(r) PROVE Fit(r)
  <2>0. PICK c \in Cores : req[r].core = c  BY <1>1 DEF IInv, Shape, Calls
  <2> DEFINE l == live[c]
             k == req[r].cfg
  <2>1. Board(r) \/ Invalidate(r)  BY <1>1, WhoAsks
  <2>2. /\ req[r].pc \in {"waits", "again"} /\ At(r, c)
        /\ req \in [Requests -> Calls] /\ Shape
    BY <1>1, <2>0, <2>1 DEF Board, Invalidate, IInv, Shape, At, Active
  <2>3. ASSUME NEW a PROVE ~Gets(r, a) /\ ~Ends(r)
    <3>1. req'[r].pc = "asks"  BY <1>1 DEF Asks
    <3>2. ~Ends(r)  BY <2>2, <3>1, NothingAtHand DEF Ends
    <3> QED  BY <2>2, <3>1, <3>2 DEF Gets, Calls
  <2>4. /\ ~held[c]
        /\ \/ req[r].pc = "waits" /\ NotInCache(c, k)
           \/ /\ req[r].pc = "again"
              /\ UsableFor(l, k) => ~JustRenewed(r, l)
    BY <2>0, <2>1, <2>3 DEF Board, Invalidate, FromCache, Renew
  <2>5. Accepts(c)
    <3>1. c = 2 => Accepts(c)  BY <1>1, <2>2 DEF IInv, Callers, Calling
    <3>2. c = 1 => Accepts(c)  BY <1>1, <2>4 DEF IInv, Order, Accepts, Drains
    <3> QED  BY <3>1, <3>2
  <2>6. ~UsableFor(l, k) \/ ~Fresh(l)
    BY <2>4 DEF NotInCache, InHand, Due, JustRenewed, Fresh
  <2>7. k.refresh = file.refresh /\ (UsableFor(l, k) <=> UsableFor(l, file))
    BY <1>1, <2>2, <2>5, <2>6, AtRest
  <2>8. Login(k.refresh) = "new"
    <3>1. signedIn <= file.refresh  BY <1>1 DEF IInv, Issued
    <3>2. signedIn \in Nat /\ file.refresh \in Nat  BY <2>2, Sizes
    <3> QED  BY <2>7, <3>1, <3>2 DEF Login
  <2>9. l.refresh < signedIn => Login(l.refresh) = "old"
    <3>1. signedIn \in Nat /\ l.refresh \in Nat  BY <2>2, Sizes
    <3> QED  BY <3>1 DEF Login
  <2>10. CASE ~UsableFor(l, k)
    <3>1. l = None \/ l.refresh < signedIn  BY <1>1, <2>5, <2>7, <2>10 DEF IInv, Ours
    <3> QED  BY <2>0, <2>8, <2>9, <3>1, NothingAtHand
  <2>11. CASE UsableFor(l, k) /\ req[r].pc = "waits"
    BY <2>0, <2>4, <2>11 DEF NotInCache, BacksOff, InHand
  <2>12. CASE UsableFor(l, k) /\ req[r].pc = "again"
    <3>1. ~JustRenewed(r, l)  BY <2>4, <2>12
    <3>2. Gone(r) /\ Went(r) = req[r].old  BY <2>12 DEF Gone, Went, First
    <3>3. Stands(l, Went(r), req[r].mark)  BY <1>1, <2>0, <2>5, <3>2 DEF IInv, Sent, Going
    <3>4. l.access = req[r].old \/ Excused(l) \/ (l.own /\ req[r].mark < l.access)
      BY <2>7, <2>12, <3>2, <3>3 DEF Stands
    <3>5. l.failed # "no" => Excused(l)  BY <1>1 DEF IInv, Causes
    <3>6. Excused(l) => Fit(r)  BY <2>0, <2>8, <2>9 DEF Excused, Spent
    <3>7. req[r].mark < l.access => l.access > req[r].mark
      BY <2>2, Sizes
    <3> QED  BY <2>0, <3>1, <3>4, <3>5, <3>6, <3>7 DEF JustRenewed
  <2> QED  BY <2>2, <2>10, <2>11, <2>12
<1>2. IInv /\ [Next]_vars => [\A r \in Requests : Asks(r) => Fit(r)]_vars
  BY <1>1
<1>3. Patient /\ Spec => [][\A r \in Requests : Asks(r) => Fit(r)]_vars
  BY <1>2, InvariantHolds, PTL DEF Spec
<1> QED  BY <1>3 DEF RenewedWhenDue
-----------------------------------------------------------------------------
(* How refresh tokens succeed one another *)

(* Sign-ins and failures mix. *)
Mixed == {"edit", "fail"} \subseteq world

(* Refresh token n is not older than m, if it is not of an earlier login.  *)
Later(n, m) == 0 < n /\ (m <= n \/ (n < signedIn /\ Mixed))

(* Access token a goes with refresh token n. *)
Of(n, a) == signedIn <= n => a = 0 \/ signedIn <= a

(* Whatever was read of the file was of the newest login. *)
Recent(k) == signedIn <= k.refresh /\ Of(k.refresh, k.access)
Recents ==
  /\ Recent(file) /\ \A c \in Cores : Recent(cfg[c])
  /\ \A r \in Requests : Active(r) => Recent(req[r].cfg)

(* What a core has is not older than what it had it for. *)
Fits(l, n) == l = None \/ (Later(l.refresh, n) /\ Of(l.refresh, l.access))
Fitting ==
  /\ \A c \in Cores : Fits(live[c], live[c].fp)
  /\ Fits(snapshot.live, snapshot.by.refresh)

(* What is presented is the newest that the core has. *)
Pending(r) ==
  \A c \in Cores : Flying(r) /\ req[r].core = c =>
    Later(req[r].ask, req[r].cfg.refresh) /\ live[c].refresh <= req[r].ask
Pendings == \A r \in Requests : Pending(r)

Using(r) == req[r].pc = "sent" => signedIn <= req[r].token \/ Mixed
Usings   == \A r \in Requests : Using(r)

Bringing == \A c \in Cores, new \in Configs : queue[c] = <<new>> => signedIn <= new.access

(* What a successor took over early its predecessor has, or a newer one.   *)
Growing ==
  /\ stage = "asked" => snapshot.live.refresh <= live[1].refresh
  /\ stage \in {"started", "paused"} => live[2].refresh <= live[1].refresh

(* What the predecessor has when it pauses is in the file, or is taken     *)
(* over; a successor that dies loses what is not in the file.              *)
Late == stage \in {"yielded", "adopted", "committed", "drained"}
Handed ==
  \/ {"crash", "fail"} \subseteq world
  \/ live[1].refresh <= file.refresh
  \/ /\ stage = "yielded" => snapshot.live.refresh = live[1].refresh /\ Matches(file)
     /\ stage \in {"adopted", "committed", "drained"} => live[1].refresh <= live[2].refresh

(* What a world without a trouble is spared. *)
Spared ==
  /\ "successor" \notin world => stage = "alone"
  /\ "edit" \notin world => signedIn = 1
  /\ "fail" \notin world => ~told[1]
  /\ stage # "drained" => writes[1]

Succession ==
  /\ Recents /\ Fitting /\ Pendings /\ Usings /\ Bringing /\ Growing /\ Handed /\ Spared

LEMMA InitSucceeds == Init => Succession
<1> SUFFICES ASSUME Init PROVE Succession  OBVIOUS
<1>1. /\ file.refresh = 1 /\ file.access \in {0, 1} /\ signedIn = 1
      /\ \A c \in Cores : cfg[c] = file /\ live[c] = None /\ queue[c] = <<>> /\ ~told[c]
      /\ snapshot.live = None /\ stage = "alone" /\ 1 \in Cores
      /\ \A r \in Requests : req[r].pc = "idle"
  BY DEF Init, Config, NoSnapshot, Idle
<1>2. writes[1]
  <2>1. writes = [c \in Cores |-> c = 1]  BY DEF Init
  <2> QED  BY <1>1, <2>1, Zenon
<1>3. Recents  BY <1>1 DEF Recents, Recent, Of, Active
<1>4. Fitting /\ Pendings /\ Usings
  BY <1>1 DEF Fitting, Fits, Pendings, Pending, Flying, Usings, Using
<1>5. Bringing  BY <1>1, OneInQueue DEF Bringing
<1>6. Growing /\ Handed /\ Spared  BY <1>1, <1>2 DEF Growing, Handed, Spared, None
<1> QED  BY <1>3, <1>4, <1>5, <1>6 DEF Succession

(* A step of one request, with the core it is at: what is left to show is  *)
(* about this request and what its core has now.                           *)
LEMMA CallSucceeds ==
  ASSUME IInv, IInv', Succession, NEW r \in Requests, NEW c \in Cores,
         \A q \in Requests : q # r => req'[q] = req[q],
         UNCHANGED <<world, signedIn, cfg, file, writes, stage, snapshot>>,
         Active(r)' => Recent(req'[r].cfg), Pending(r)', Using(r)', Bringing',
         "fail" \notin world => ~told'[1],
         \A d \in Cores : d # c => live'[d].refresh = live[d].refresh,
         \A d \in Cores : Fits(live'[d], live'[d].fp),
         \/ live'[c].refresh = live[c].refresh
         \/ /\ \A q \in Requests : q # r => ~(Flying(q) /\ req[q].core = c)
            /\ Accepts(c) => live[c].refresh <= live'[c].refresh
            /\ c = 1 /\ Late => live'[1].refresh <= file.refresh
            /\ c = 2 => Accepts(2)
  PROVE  Succession'
<1>1. \A q \in Requests : q # r => req'[q] = req[q]  OBVIOUS
<1>2. Recents'
  <2>1. ASSUME NEW q \in Requests, Active(q)' PROVE Recent(req'[q].cfg)
    <3>1. CASE q = r  BY <2>1, <3>1
    <3>2. CASE q # r  BY <1>1, <2>1, <3>2 DEF Succession, Recents, Active
    <3> QED  BY <3>1, <3>2
  <2>2. \A k : Recent(k)' <=> Recent(k')  BY DEF Recent, Of
  <2> QED  BY <2>1 DEF Succession, Recents, Recent, Of
<1>3. Fitting'
  BY DEF Succession, Fitting, Fits, Later, Of, Mixed
<1>4. Pendings'
  <2> SUFFICES ASSUME NEW q \in Requests, q # r PROVE Pending(q)'  BY DEF Pendings
  <2>1. req'[q] = req[q] /\ Pending(q)  BY <1>1 DEF Succession, Pendings
  <2>2. \A d \in Cores : Flying(q) /\ req[q].core = d => live'[d].refresh = live[d].refresh
    OBVIOUS
  <2> QED  BY <2>1, <2>2 DEF Pending, Flying, Later, Mixed
<1>5. Usings'
  <2> SUFFICES ASSUME NEW q \in Requests, q # r PROVE Using(q)'  BY DEF Usings
  <2> QED  BY <1>1 DEF Succession, Usings, Using, Mixed
<1>6. \A d \in Cores : live'[d].refresh \in Nat /\ live[d].refresh \in Nat
  <2>1. live' \in [Cores -> Entries] /\ live \in [Cores -> Entries]  BY DEF IInv, Shape
  <2> QED  BY <2>1 DEF Entries, Numbers
<1>7. Growing'
  <2> SUFFICES ASSUME stage \in {"asked", "started", "paused"} PROVE Growing'
    BY DEF Growing
  <2>1. Accepts(1) /\ ~Accepts(2)  BY DEF Accepts, Drains
  <2>2. live[1].refresh <= live'[1].refresh
    <3>1. CASE live'[1].refresh = live[1].refresh  BY <1>6, <3>1
    <3>2. CASE live'[1].refresh # live[1].refresh
      <4>1. c = 1  BY <3>2
      <4> QED  BY <2>1, <3>2, <4>1
    <3> QED  BY <3>1, <3>2
  <2>3. live'[2].refresh = live[2].refresh  BY <2>1
  <2>4. snapshot'.live.refresh = snapshot.live.refresh /\ snapshot.live.refresh \in Nat
    BY Sizes DEF IInv
  <2>5. Growing  BY DEF Succession
  <2> QED  BY <1>6, <2>2, <2>3, <2>4, <2>5 DEF Growing
<1>8. Handed'
  <2>1. Handed /\ file.refresh \in Nat  BY Sizes DEF Succession, IInv
  <2>2. Late => live'[1].refresh = live[1].refresh \/ live'[1].refresh <= file.refresh
    OBVIOUS
  <2>3. live[2].refresh <= live'[2].refresh  BY <1>6
  <2>4. CASE Late  BY <1>6, <2>1, <2>2, <2>3, <2>4 DEF Handed, Matches
  <2>5. CASE ~Late  BY <2>5 DEF Handed, Late
  <2> QED  BY <2>4, <2>5
<1>9. Spared'  BY DEF Succession, Spared
<1> QED  BY <1>2, <1>3, <1>4, <1>5, <1>7, <1>8, <1>9 DEF Succession

(* A usable token is of the login of the configuration.                    *)
LEMMA UsableIsRecent ==
  ASSUME Shape, NEW l \in Entries, NEW k \in Configs, UsableFor(l, k), Fits(l, l.fp), Recent(k)
  PROVE  /\ Later(l.refresh, k.refresh)
         /\ l.access # 0 => signedIn <= l.access \/ Mixed
<1>1. /\ l.refresh \in Nat /\ l.access \in Nat /\ l.fp \in Nat /\ k.refresh \in Nat
      /\ signedIn \in Nat /\ 1 <= signedIn
  <2>1. signedIn \in Nat /\ 1 <= signedIn  BY DEF Shape
  <2> QED  BY <2>1 DEF Entries, Configs, Numbers
<1>2. /\ Later(l.refresh, l.fp) /\ Of(l.refresh, l.access)
      /\ l.fp = k.refresh \/ l.refresh = k.refresh
  BY DEF UsableFor, Fits
<1>3. Later(l.refresh, k.refresh)  BY <1>1, <1>2 DEF Later
<1>4. signedIn <= l.refresh \/ Mixed  BY <1>1, <1>3 DEF Later, Recent
<1> QED  BY <1>2, <1>3, <1>4 DEF Of

(* A request goes with a token of its login. *)
LEMMA GetsSucceeds ==
  ASSUME IInv, Succession, NEW r \in Requests, NEW c \in Cores, At(r, c),
         NEW a \in Numbers, Gets(r, a), signedIn <= a \/ Mixed,
         UNCHANGED <<stage, file, issued, signedIn, world>>
  PROVE  /\ \A q \in Requests : q # r => req'[q] = req[q]
         /\ Active(r)' => Recent(req'[r].cfg)
         /\ Pending(r)' /\ Using(r)'
<1>1. Moves(r) /\ ~Flying(r)'  BY GetsMoves
<1>2. Active(r) /\ Recent(req[r].cfg)  BY DEF At, Succession, Recents
<1>3. Active(r)' => Recent(req'[r].cfg)
  <2>1. req'[r] = Idle => ~Active(r)'  BY NothingAtHand DEF Active
  <2> QED  BY <1>1, <1>2, <2>1 DEF Moves
<1>4. Using(r)'
  <2>1. CASE a = req[r].old
    <3>1. Ends(r)  BY <2>1 DEF Gets
    <3>2. req'[r] = Idle  BY <3>1 DEF Ends, IInv, Shape
    <3> QED  BY <3>2, NothingAtHand DEF Using
  <2>2. CASE a # req[r].old
    <3>1. req'[r].token = a  BY <1>2, <2>2, Goes DEF IInv
    <3> QED  BY <3>1 DEF Using, Mixed
  <2> QED  BY <2>1, <2>2
<1>5. Pending(r)'  BY <1>1 DEF Pending
<1> QED  BY <1>1, <1>3, <1>4, <1>5 DEF Moves

LEMMA EndsSucceeds ==
  ASSUME IInv, NEW r \in Requests, Ends(r)
  PROVE  /\ \A q \in Requests : q # r => req'[q] = req[q]
         /\ ~Active(r)' /\ Pending(r)' /\ Using(r)'
<1>1. req'[r] = Idle /\ \A q \in Requests : q # r => req'[q] = req[q]
  BY DEF Ends, IInv, Shape
<1> QED  BY <1>1, NothingAtHand DEF Active, Pending, Flying, Using

(* Nothing changes but requests, and what cores note about their tokens.   *)
LEMMA NotesSucceed ==
  ASSUME IInv, IInv', Succession, NEW r \in Requests,
         \A q \in Requests : q # r => req'[q] = req[q],
         Active(r)' => Recent(req'[r].cfg), Pending(r)', Using(r)',
         UNCHANGED Others \/ UNCHANGED <<world, signedIn, cfg, held, back, handover>>,
         \A c \in Cores : /\ live'[c].refresh = live[c].refresh /\ live'[c].fp = live[c].fp
                          /\ live'[c].access = live[c].access
                          /\ live'[c] = None <=> live[c] = None
  PROVE  Succession'
<1>1. UNCHANGED <<world, signedIn, cfg, file, queue, told, writes, stage, snapshot>>  OBVIOUS
<1>2. \A c \in Cores : Fits(live'[c], live'[c].fp)
  BY DEF Succession, Fitting, Fits
<1>3. Bringing'  BY <1>1 DEF Succession, Bringing
<1>4. "fail" \notin world => ~told'[1]  BY <1>1 DEF Succession, Spared
<1>5. 1 \in Cores  OBVIOUS
<1> QED  BY <1>1, <1>2, <1>3, <1>4, <1>5, CallSucceeds

LEMMA StartSucceeds ==
  ASSUME IInv, IInv', Succession, NEW r \in Requests, Start(r) PROVE Succession'
<1>1. PICK c \in Cores :
        req' = [req EXCEPT ![r] = [req[r] EXCEPT !.pc = "starts", !.core = c, !.cfg = cfg[c]]]
  BY ZenonT(60) DEF Start
<1>2. UNCHANGED <<Others, live, flight>>  BY DEF Start
<1>3. req \in [Requests -> Calls] /\ req[r] \in Calls  BY DEF IInv, Shape
<1>4. /\ \A q \in Requests : q # r => req'[q] = req[q]
      /\ req'[r].pc = "starts" /\ req'[r].cfg = cfg[c]
  BY <1>1, <1>3 DEF Calls
<1>5. Active(r)' => Recent(req'[r].cfg)  BY <1>4 DEF Succession, Recents
<1>6. Pending(r)' /\ Using(r)'  BY <1>4 DEF Pending, Flying, Using
<1> QED  BY <1>2, <1>4, <1>5, <1>6, NotesSucceed

(* A request that finds a token goes with one of its login. *)
LEMMA CacheSucceeds ==
  ASSUME IInv, IInv', Succession, NEW r \in Requests, NEW c \in Cores, At(r, c), ~Flying(r),
         FromCache(r, c, req[r].cfg), UNCHANGED <<Others, flight>>
  PROVE  Succession'
<1> DEFINE k == req[r].cfg
           l == live[c]
<1>1. /\ Shape /\ k \in Configs /\ l \in Entries /\ Active(r) /\ Recent(k) /\ Fits(l, l.fp)
      /\ live \in [Cores -> Entries]
  BY DEF IInv, Shape, Calls, At, Succession, Recents, Fitting
<1>2. CASE Ends(r) /\ UNCHANGED live
  BY <1>2, EndsSucceeds, NotesSucceed
<1>3. CASE InHand(l, k) /\ Gets(r, l.access) /\ UNCHANGED live
  <2>1. l.access \in Numbers  BY <1>1 DEF Entries
  <2>2. signedIn <= l.access \/ Mixed  BY <1>1, <1>3, UsableIsRecent DEF InHand
  <2>3. /\ \A q \in Requests : q # r => req'[q] = req[q]
        /\ Active(r)' => Recent(req'[r].cfg)
        /\ Pending(r)' /\ Using(r)'
    BY <1>3, <2>1, <2>2, GetsSucceeds
  <2> QED  BY <1>3, <2>3, NotesSucceed
<1>4. CASE /\ InConfig(l, k) /\ Gets(r, k.access)
           /\ live' = [live EXCEPT ![c] = FromConfig(k)]
  <2>1. k.access \in Numbers /\ k.access # 0  BY <1>1, <1>4 DEF Configs, InConfig
  <2>2. signedIn <= k.access  BY <1>1, <2>1 DEF Recent, Of
  <2>3. /\ \A q \in Requests : q # r => req'[q] = req[q]
        /\ Active(r)' => Recent(req'[r].cfg)
        /\ Pending(r)' /\ Using(r)'
    BY <1>4, <2>1, <2>2, GetsSucceeds
  <2>4. /\ live'[c].fp = k.refresh /\ live'[c].access = k.access /\ live'[c].refresh = k.refresh
        /\ \A d \in Cores : d # c => live'[d] = live[d]
    <3> HIDE DEF k
    <3> QED  BY <1>1, <1>4, FromConfigIs
  <2>5. \A d \in Cores : Fits(live'[d], live'[d].fp)
    <3>1. k.refresh \in Nat /\ 0 < k.refresh /\ signedIn \in Nat
      <4>1. signedIn \in Nat /\ 1 <= signedIn  BY <1>1 DEF Shape
      <4> QED  BY <1>1, <4>1 DEF Recent, Configs, Numbers
    <3>2. Fits(live'[c], live'[c].fp)  BY <1>1, <2>4, <3>1 DEF Fits, Later, Recent
    <3> QED  BY <2>4, <3>2 DEF Succession, Fitting
  <2>6. c = 2 => Accepts(2)  BY DEF IInv, Callers, Calling
  <2>7. k.refresh <= file.refresh  BY <1>1 DEF IInv, Had, Having
  <2>8. ~UsableFor(l, k)  BY <1>4 DEF InConfig
  <2>9. Accepts(c) => l.refresh <= k.refresh
    <3> SUFFICES ASSUME Accepts(c) PROVE l.refresh <= k.refresh  OBVIOUS
    <3>1. ~UsableFor(l, file)  BY <2>8, AtRest
    <3>2. l = None \/ l.refresh < signedIn  BY <3>1 DEF IInv, Ours
    <3>3. signedIn \in Nat /\ k.refresh \in Nat /\ l.refresh \in Nat
      BY <1>1, Sizes
    <3> QED  BY <1>1, <3>2, <3>3, NothingAtHand DEF Recent
  <2>10. \A q \in Requests : ~(Flying(q) /\ req[q].core = c)
    <3> SUFFICES ASSUME NEW q \in Requests, Flying(q), req[q].core = c PROVE FALSE  OBVIOUS
    <3>1. Accepts(c) /\ flight[c] # {}  BY Flight
    <3>2. ~UsableFor(l, file) /\ k = file  BY <2>8, <3>1, AtRest
    <3>3. file.access = 0 \/ age[file.access] = "late"
      BY <3>2 DEF IInv, Asking, Presenting
    <3> QED  BY <1>4, <3>2, <3>3 DEF InConfig
  <2>11. Bringing' /\ ("fail" \notin world => ~told'[1])
    BY DEF Succession, Bringing, Spared
  <2>12. live'[c].refresh = k.refresh /\ \A d \in Cores : d # c => live'[d].refresh = live[d].refresh
    BY <2>4
  <2> HIDE DEF k, l
  <2> QED
    BY <2>3, <2>5, <2>6, <2>7, <2>9, <2>10, <2>11, <2>12, CallSucceeds DEF l
<1> QED  BY <1>2, <1>3, <1>4 DEF FromCache

LEMMA LookSucceeds ==
  ASSUME IInv, IInv', Succession, NEW r \in Requests, Look(r) PROVE Succession'
<1>0. PICK c \in Cores : req[r].core = c  BY DEF IInv, Shape, Calls
<1>1. /\ req[r].pc = "starts" /\ UNCHANGED <<Others, flight>>
      /\ req \in [Requests -> Calls] /\ req[r] \in Calls
  BY DEF Look, IInv, Shape
<1>2. At(r, c) /\ ~Flying(r)  BY <1>0, <1>1 DEF At, Active, Flying
<1>3. CASE FromCache(r, c, req[r].cfg)  BY <1>1, <1>2, <1>3, CacheSucceeds
<1>4. CASE UNCHANGED live /\ req' = [req EXCEPT ![r].pc = "waits"]
  <2>1. /\ \A q \in Requests : q # r => req'[q] = req[q]
        /\ req'[r].pc = "waits" /\ req'[r].cfg = req[r].cfg
    BY <1>1, <1>4 DEF Calls
  <2>2. Active(r)' => Recent(req'[r].cfg)  BY <1>2, <2>1 DEF At, Succession, Recents
  <2>3. Pending(r)' /\ Using(r)'  BY <2>1 DEF Pending, Flying, Using
  <2> QED  BY <1>1, <1>4, <2>1, <2>2, <2>3, NotesSucceed
<1> QED  BY <1>0, <1>3, <1>4 DEF Look

(* A request presents the newest refresh token that its core has. *)
LEMMA RenewSucceeds ==
  ASSUME IInv, IInv', Succession, NEW r \in Requests, NEW c \in Cores, At(r, c),
         Renew(r, c, req[r].cfg), UNCHANGED Others, Marking,
         ~Fresh(live[c]) \/ ~UsableFor(live[c], req[r].cfg)
  PROVE  Succession'
<1> DEFINE k == req[r].cfg
           l == live[c]
<1>1. /\ Shape /\ k \in Configs /\ l \in Entries /\ Active(r) /\ Recent(k) /\ Fits(l, l.fp)
      /\ req \in [Requests -> Calls] /\ req[r] \in Calls /\ req[r].core = c
  BY DEF IInv, Shape, Calls, At, Succession, Recents, Fitting
<1>2. \A d \in Cores : /\ live'[d].refresh = live[d].refresh /\ live'[d].fp = live[d].fp
                       /\ live'[d].access = live[d].access
                       /\ live'[d] = None <=> live[d] = None
  BY <1>1, MarkingKeeps
<1>3. ASSUME NEW a \in Numbers, a # 0, Gets(r, a),
             a = k.access \/ (UsableFor(l, k) /\ a = l.access)
      PROVE  Succession'
  <2>1. signedIn <= a \/ Mixed
    BY <1>1, <1>3, UsableIsRecent DEF Recent, Of
  <2>2. /\ \A q \in Requests : q # r => req'[q] = req[q]
        /\ Active(r)' => Recent(req'[r].cfg)
        /\ Pending(r)' /\ Using(r)'
    BY <1>3, <2>1, GetsSucceeds
  <2> QED  BY <1>2, <2>2, NotesSucceed
<1>4. CASE held[c]
  <2>1. k.access \in Numbers /\ l.access \in Numbers  BY <1>1 DEF Configs, Entries
  <2>2. CASE Ends(r)  BY <1>2, <2>2, EndsSucceeds, NotesSucceed
  <2>3. CASE ~Ends(r)
    <3>1. \/ UsableFor(l, k) /\ l.access # 0 /\ Gets(r, l.access)
          \/ k.access # 0 /\ Gets(r, k.access)
      BY <1>4, <2>3 DEF Renew
    <3> QED  BY <1>3, <2>1, <3>1
  <2> QED  BY <2>2, <2>3
<1>5. CASE ~held[c]
  <2>1. PICK n : n = IF UsableFor(l, k) THEN l.refresh ELSE k.refresh  OBVIOUS
  <2>2. req' = [req EXCEPT ![r].pc = "asks", ![r].mark = 0, ![r].ask = n]
    BY <1>5, <2>1 DEF Renew
  <2>3. /\ \A q \in Requests : q # r => req'[q] = req[q]
        /\ req'[r].pc = "asks" /\ req'[r].ask = n /\ req'[r].cfg = k /\ req'[r].core = c
    BY <1>1, <2>2 DEF Calls
  <2>4. /\ signedIn \in Nat /\ 1 <= signedIn /\ k.refresh \in Nat /\ l.refresh \in Nat
    <3>1. signedIn \in Nat /\ 1 <= signedIn  BY <1>1 DEF Shape
    <3> QED  BY <1>1, <3>1, Sizes
  <2>5. Accepts(c)
    <3>1. c = 2 => Accepts(c)  BY DEF IInv, Callers, Calling
    <3>2. c = 1 => Accepts(c)  BY <1>5 DEF IInv, Order, Accepts, Drains
    <3> QED  BY <3>1, <3>2
  <2>6. Later(n, k.refresh) /\ l.refresh <= n
    <3>1. CASE UsableFor(l, k)
      <4>1. n = l.refresh  BY <2>1, <3>1
      <4> QED  BY <1>1, <2>4, <3>1, <4>1, UsableIsRecent
    <3>2. CASE ~UsableFor(l, k)
      <4>1. n = k.refresh  BY <2>1, <3>2
      <4>2. ~UsableFor(l, file)  BY <2>5, <3>2, AtRest
      <4>3. l = None \/ l.refresh < signedIn  BY <2>5, <4>2 DEF IInv, Ours
      <4> QED  BY <1>1, <2>4, <4>1, <4>3, NothingAtHand DEF Recent, Later
    <3> QED  BY <3>1, <3>2
  <2>7. Pending(r)'
    <3>1. Later(req'[r].ask, req'[r].cfg.refresh)  BY <2>3, <2>6
    <3>2. live'[c].refresh <= req'[r].ask  BY <1>2, <2>3, <2>6
    <3> QED  BY <2>3, <3>1, <3>2 DEF Pending, Later, Mixed
  <2>8. Using(r)' /\ (Active(r)' => Recent(req'[r].cfg))  BY <1>1, <2>3 DEF Using
  <2> QED  BY <1>2, <2>3, <2>7, <2>8, NotesSucceed
<1> QED  BY <1>4, <1>5

LEMMA BoardSucceeds ==
  ASSUME IInv, IInv', Succession, NEW r \in Requests, Board(r) PROVE Succession'
<1>0. PICK c \in Cores : req[r].core = c  BY DEF IInv, Shape, Calls
<1>1. req[r].pc = "waits" /\ UNCHANGED Others  BY DEF Board
<1>2. At(r, c) /\ ~Flying(r)  BY <1>0, <1>1 DEF At, Active, Flying
<1>3. CASE FromCache(r, c, req[r].cfg) /\ UNCHANGED flight  BY <1>1, <1>2, <1>3, CacheSucceeds
<1>4. CASE NotInCache(c, req[r].cfg) /\ Renew(r, c, req[r].cfg) /\ UNCHANGED live
  <2>1. Marking  BY <1>4, Unmarked
  <2>2. ~Fresh(live[c]) \/ ~UsableFor(live[c], req[r].cfg)
    BY <1>4 DEF NotInCache, InHand, Fresh, Due
  <2> QED  BY <1>1, <1>2, <1>4, <2>1, <2>2, RenewSucceeds
<1> QED  BY <1>0, <1>3, <1>4 DEF Board

LEMMA RejectSucceeds ==
  ASSUME IInv, IInv', Succession, NEW r \in Requests, Reject(r) PROVE Succession'
<1>1. /\ req[r].pc = "sent" /\ req \in [Requests -> Calls] /\ req[r] \in Calls
      /\ req' = [req EXCEPT ![r].pc = "again", ![r].old = req[r].token, ![r].token = 0]
      /\ UNCHANGED <<Others, live, flight>>
  BY DEF Reject, IInv, Shape
<1>2. /\ \A q \in Requests : q # r => req'[q] = req[q]
      /\ req'[r].pc = "again" /\ req'[r].cfg = req[r].cfg
  BY <1>1 DEF Calls
<1>3. Active(r)' => Recent(req'[r].cfg)  BY <1>1, <1>2 DEF Active, Succession, Recents
<1>4. Pending(r)' /\ Using(r)'  BY <1>2 DEF Pending, Flying, Using
<1> QED  BY <1>1, <1>2, <1>3, <1>4, NotesSucceed

LEMMA InvalidateSucceeds ==
  ASSUME IInv, IInv', Succession, NEW r \in Requests, Invalidate(r) PROVE Succession'
<1>0. PICK c \in Cores : req[r].core = c  BY DEF IInv, Shape, Calls
<1> DEFINE k == req[r].cfg
           l == live[c]
<1>1. /\ req[r].pc = "again" /\ UNCHANGED Others
      /\ Shape /\ l \in Entries /\ k \in Configs /\ live \in [Cores -> Entries]
  BY <1>0 DEF Invalidate, IInv, Shape, Calls
<1>2. At(r, c) /\ ~Flying(r)  BY <1>0, <1>1 DEF At, Active, Flying
<1>3. Recent(k) /\ Fits(l, l.fp)
  BY <1>2 DEF At, Succession, Recents, Fitting
<1>4. CASE UsableFor(l, k) /\ JustRenewed(r, l) /\ Gets(r, l.access) /\ UNCHANGED <<live, flight>>
  <2>1. l.access \in Numbers /\ l.access # 0  BY <1>1, <1>4 DEF Entries, JustRenewed
  <2>2. signedIn <= l.access \/ Mixed  BY <1>1, <1>3, <1>4, <2>1, UsableIsRecent
  <2>3. /\ \A q \in Requests : q # r => req'[q] = req[q]
        /\ Active(r)' => Recent(req'[r].cfg)
        /\ Pending(r)' /\ Using(r)'
    BY <1>1, <1>2, <1>4, <2>1, <2>2, GetsSucceeds
  <2> QED  BY <1>1, <1>4, <2>3, NotesSucceed
<1>5. CASE /\ UsableFor(l, k) /\ ~JustRenewed(r, l) /\ Renew(r, c, k)
           /\ live' = [live EXCEPT ![c] = [live[c] EXCEPT !.now = TRUE, !.failed = "no"]]
  <2>1. ~Fresh(l)  BY <1>5 DEF Fresh, JustRenewed, Due
  <2>2. live'[c] = [l EXCEPT !.now = TRUE, !.failed = "no"]  BY <1>1, <1>5
  <2>3. queue[c] = <<>> /\ (Accepts(c) => Same(c))
    <3>1. CASE Accepts(c)  BY <1>2, <2>1, <3>1, AtRest
    <3>2. CASE ~Accepts(c)
      <4>1. c = 1  BY <1>2, <3>2 DEF IInv, Callers, Calling
      <4> QED  BY <3>2, <4>1 DEF IInv, Order, Accepts, Drains
    <3> QED  BY <3>1, <3>2
  <2>4. Marks(c)  BY <1>5, <2>2, <2>3 DEF Marks, UsableFor
  <2>5. live' \in [Cores -> Entries]  BY DEF IInv, Shape
  <2>6. Marking  BY <1>1, <1>5, <2>4, <2>5 DEF Marking
  <2> QED  BY <1>1, <1>2, <1>5, <2>1, <2>6, RenewSucceeds
<1>6. CASE ~UsableFor(l, k) /\ Renew(r, c, k) /\ UNCHANGED live
  <2>1. Marking  BY <1>6, Unmarked
  <2> QED  BY <1>1, <1>2, <1>6, <2>1, RenewSucceeds
<1>7. \/ UsableFor(l, k) /\ JustRenewed(r, l) /\ Gets(r, l.access) /\ UNCHANGED <<live, flight>>
      \/ /\ UsableFor(l, k) /\ ~JustRenewed(r, l) /\ Renew(r, c, k)
         /\ live' = [live EXCEPT ![c].now = TRUE, ![c].failed = "no"]
      \/ ~UsableFor(l, k) /\ Renew(r, c, k) /\ UNCHANGED live
  BY <1>0 DEF Invalidate
<1>8. CASE live' = [live EXCEPT ![c].now = TRUE, ![c].failed = "no"]
  <2>1. live' = [live EXCEPT ![c] = [live[c] EXCEPT !.now = TRUE, !.failed = "no"]]
    BY <1>1, <1>8
  <2> QED  BY <1>4, <1>5, <1>6, <1>7, <2>1
<1> QED  BY <1>4, <1>6, <1>7, <1>8

LEMMA IssueSucceeds ==
  ASSUME IInv, IInv', Succession, NEW r \in Requests, NEW rotated \in BOOLEAN, Issue(r, rotated)
  PROVE  Succession'
<1>1. /\ req[r].pc = "asks" /\ req \in [Requests -> Calls] /\ req[r] \in Calls
      /\ req' = [req EXCEPT ![r].pc = "told", ![r].got = issued + 1, ![r].rotated = rotated]
      /\ UNCHANGED <<world, signedIn, cores, back, handover>>
  BY DEF Issue, IInv, Shape
<1>2. /\ \A q \in Requests : q # r => req'[q] = req[q]
      /\ req'[r].pc = "told" /\ req'[r].cfg = req[r].cfg /\ req'[r].ask = req[r].ask
      /\ req'[r].core = req[r].core
  BY <1>1 DEF Calls
<1>3. Active(r)' => Recent(req'[r].cfg)  BY <1>1, <1>2 DEF Active, Succession, Recents
<1>4. Pending(r)'
  <2>1. Pending(r) /\ Flying(r)  BY <1>1 DEF Succession, Pendings, Flying
  <2> QED  BY <1>1, <1>2, <2>1 DEF Pending, Later, Mixed
<1>5. Using(r)'  BY <1>2 DEF Using
<1> QED  BY <1>1, <1>2, <1>3, <1>4, <1>5, NotesSucceed

LEMMA QuitSucceeds ==
  ASSUME IInv, IInv', Succession, NEW r \in Requests, Leave(r) \/ Finish(r) PROVE Succession'
<1>1. Ends(r) /\ UNCHANGED <<Others, live>>  BY DEF Leave, Finish
<1> QED  BY <1>1, EndsSucceeds, NotesSucceed

(* A refresh token that is issued is newer than all others, and one that   *)
(* is kept is the newest of its core.                                      *)
LEMMA ArriveSucceeds ==
  ASSUME IInv, IInv', Succession, NEW r \in Requests, Arrive(r) PROVE Succession'
<1>0. PICK c \in Cores : req[r].core = c  BY DEF IInv, Shape, Calls
<1>a. PICK n : n = req[r].got  OBVIOUS
<1>b. PICK kept : kept = IF req[r].rotated THEN n ELSE req[r].ask  OBVIOUS
<1>c. PICK sent : sent = IF req[r].rotated THEN n ELSE 0  OBVIOUS
<1>1. /\ req[r].pc = "told" /\ Flying(r) /\ HandOn(c, n, sent) /\ Gets(r, n)
      /\ live' = [live EXCEPT ![c] = [None EXCEPT !.fp = req[r].cfg.refresh, !.access = n,
                                                  !.own = TRUE, !.refresh = kept]]
      /\ UNCHANGED <<world, tokens, cfg, held, file, writes, handover>>
  BY <1>0, <1>a, <1>b, <1>c DEF Arrive, Flying
<1>2. /\ Accepts(c) /\ At(r, c) /\ req[r].cfg.refresh = file.refresh
      /\ \A d \in Cores : queue[d] = <<>>
      /\ stage \in IF c = 1 THEN {"alone", "asked", "started", "paused"}
                   ELSE {"committed", "drained"}
  BY <1>0, <1>1, Landing
<1>3. /\ n = issued /\ issued \in Nat \ {0} /\ signedIn \in Nat /\ 1 <= signedIn
      /\ file.refresh < issued /\ live[c].refresh < issued
      /\ file.refresh \in Nat /\ live[c].refresh \in Nat /\ req[r].ask \in Nat
  <2>1. issued \in Nat \ {0} /\ signedIn \in Nat /\ 1 <= signedIn  BY DEF IInv, Shape
  <2>2. n = issued /\ file.refresh < issued /\ live[c].refresh < issued
    BY <1>1, <1>a DEF IInv, Had, Having
  <2> QED  BY <2>1, <2>2, Sizes DEF IInv
<1>4. signedIn <= n  BY <1>3 DEF IInv, Issued
<1>5. Pending(r)  BY DEF Succession, Pendings
<1>6. Later(kept, req[r].cfg.refresh) /\ live[c].refresh <= kept
  BY <1>0, <1>1, <1>2, <1>3, <1>5, <1>b DEF Pending, Later
<1>7. /\ live'[c].fp = req[r].cfg.refresh /\ live'[c].access = n /\ live'[c].refresh = kept
      /\ \A d \in Cores : d # c => live'[d] = live[d]
  BY <1>1 DEF IInv, Shape, None
<1>8. \A d \in Cores : Fits(live'[d], live'[d].fp)
  <2>1. Fits(live'[c], live'[c].fp)  BY <1>4, <1>6, <1>7 DEF Fits, Of
  <2> QED  BY <1>7, <2>1 DEF Succession, Fitting
<1>9. /\ \A q \in Requests : q # r => req'[q] = req[q]
      /\ Active(r)' => Recent(req'[r].cfg)
      /\ Pending(r)' /\ Using(r)'
  <2>1. n \in Numbers  BY <1>3 DEF IInv, Shape, Numbers
  <2> QED  BY <1>1, <1>2, <1>4, <2>1, GetsSucceeds
<1>10. Bringing'
  <2> SUFFICES ASSUME NEW d \in Cores, NEW new \in Configs, queue'[d] = <<new>>
               PROVE  signedIn <= new.access
    BY <1>1 DEF Bringing
  <2>1. Config(sent, n) \in Configs
    <3>1. n \in Numbers /\ 0 \in Numbers  BY <1>3 DEF IInv, Shape, Numbers
    <3> QED  BY <1>c, <3>1 DEF Config, Configs
  <2>2. Append(queue[c], Config(sent, n)) = <<Config(sent, n)>>  BY <1>2, <2>1, OneInQueue
  <2>3. UNCHANGED queue \/ queue' = [queue EXCEPT ![c] = <<Config(sent, n)>>]
    BY <1>1, <2>2 DEF HandOn
  <2>4. queue'[d] = queue[d] \/ queue'[d] = <<Config(sent, n)>>  BY <2>3 DEF IInv, Shape
  <2>5. queue'[d] = <<Config(sent, n)>>  BY <1>2, <2>4, OneInQueue
  <2>6. new = Config(sent, n)  BY <2>1, <2>5, OneInQueue
  <2> QED  BY <1>4, <2>6 DEF Config
<1>11. "fail" \notin world => ~told'[1]
  <2> SUFFICES ASSUME "fail" \notin world PROVE ~told'[1]  OBVIOUS
  <2>1. ~told[1] /\ told \in [Cores -> BOOLEAN] /\ 1 \in Cores
    BY DEF Succession, Spared, IInv, Shape
  <2>2. CASE c = 1
    <3>1. writes[1]  BY <1>2, <2>2 DEF Succession, Spared
    <3>2. UNCHANGED told  BY <1>1, <2>2, <3>1 DEF HandOn
    <3> QED  BY <2>1, <3>2
  <2>3. CASE c # 1
    <3>1. UNCHANGED told \/ told' = [told EXCEPT ![c] = @ \/ sent # 0]  BY <1>1 DEF HandOn
    <3>2. told'[1] = told[1]  BY <2>1, <2>3, <3>1
    <3> QED  BY <2>1, <3>2
  <2> QED  BY <2>2, <2>3
<1>12. /\ \A q \in Requests : q # r => ~(Flying(q) /\ req[q].core = c)
       /\ c = 1 => ~Late
       /\ c = 2 => Accepts(2)
       /\ live[c].refresh <= live'[c].refresh
       /\ \A d \in Cores : d # c => live'[d].refresh = live[d].refresh
  BY <1>1, <1>2, <1>6, <1>7, OneFlies DEF Late
<1>13. UNCHANGED <<world, signedIn, cfg, file, writes, stage, snapshot>>  BY <1>1
<1> QED
  BY <1>8, <1>9, <1>10, <1>11, <1>12, <1>13, CallSucceeds

(* After a failure a core has what it had, for the file as it is. *)
LEMMA FailSucceeds ==
  ASSUME IInv, IInv', Succession, NEW r \in Requests, Fail(r) PROVE Succession'
<1>0. PICK c \in Cores : req[r].core = c  BY DEF IInv, Shape, Calls
<1> DEFINE l == live[c]
           k == req[r].cfg
           old == IF l = None THEN [None EXCEPT !.refresh = req[r].ask, !.now = TRUE] ELSE l
<1>1. /\ Flying(r) /\ "fail" \in world /\ Ends(r) /\ UNCHANGED Others
      /\ live' = [live EXCEPT ![c] = [old EXCEPT !.fp = k.refresh, !.failed = "wait"]]
  BY <1>0 DEF Fail, Flying
<1>2. /\ Accepts(c) /\ At(r, c) /\ k.refresh = file.refresh /\ flight[c] # {}
      /\ stage \in IF c = 1 THEN {"alone", "asked", "started", "paused"}
                   ELSE {"committed", "drained"}
  BY <1>0, <1>1, Landing
<1>3. /\ l \in Entries /\ live \in [Cores -> Entries] /\ k \in Configs
      /\ Fits(l, l.fp) /\ Recent(k)
  BY <1>2 DEF IInv, Shape, Calls, At, Succession, Fitting, Recents
<1>4. /\ l.refresh \in Nat /\ req[r].ask \in Nat /\ k.refresh \in Nat
      /\ signedIn \in Nat /\ 1 <= signedIn
  <2>1. signedIn \in Nat /\ 1 <= signedIn  BY DEF IInv, Shape
  <2> QED  BY <2>1, Sizes DEF IInv
<1>5. Later(req[r].ask, k.refresh) /\ l.refresh <= req[r].ask
  BY <1>0, <1>1 DEF Succession, Pendings, Pending
<1>6. /\ old.refresh = IF l = None THEN req[r].ask ELSE l.refresh
      /\ old.access = l.access
  BY DEF None
<1>7. /\ live'[c].refresh = old.refresh /\ live'[c].access = l.access
      /\ live'[c].fp = k.refresh
      /\ \A d \in Cores : d # c => live'[d] = live[d]
  <2>1. old \in Entries
    <3>1. req[r].ask \in Numbers  BY DEF IInv, Shape, Calls
    <3> QED  BY <1>3, <3>1, NothingAtHand DEF Entries, None
  <2> HIDE DEF old, k, l
  <2> QED  BY <1>1, <1>3, <1>6, <2>1 DEF Entries
<1>8. Fits(live'[c], live'[c].fp)
  <2>1. CASE l = None
    <3>1. live'[c].access = 0 /\ live'[c].refresh = req[r].ask
      BY <1>6, <1>7, <2>1, NothingAtHand
    <3> QED  BY <1>5, <1>7, <3>1 DEF Fits, Of
  <2>2. CASE l # None
    <3>1. live'[c].refresh = l.refresh /\ Later(l.refresh, l.fp) /\ Of(l.refresh, l.access)
      BY <1>3, <1>6, <1>7, <2>2 DEF Fits
    <3>2. Later(l.refresh, k.refresh)
      <4>1. CASE UsableFor(l, k)  BY <1>3, <4>1, UsableIsRecent DEF IInv
      <4>2. CASE ~UsableFor(l, k)
        <5>1. ~UsableFor(l, file)  BY <1>2, <4>2 DEF UsableFor
        <5>2. l.refresh < signedIn  BY <1>2, <2>2, <5>1 DEF IInv, Ours
        <5>3. 0 < l.refresh  BY <3>1 DEF Later
        <5>4. "edit" \in world  BY <1>4, <5>2, <5>3 DEF Succession, Spared
        <5> QED  BY <1>1, <5>2, <5>3, <5>4 DEF Later, Mixed
      <4> QED  BY <4>1, <4>2
    <3> QED  BY <1>7, <3>1, <3>2 DEF Fits
  <2> QED  BY <2>1, <2>2
<1>9. \A d \in Cores : Fits(live'[d], live'[d].fp)
  BY <1>7, <1>8 DEF Succession, Fitting
<1>10. /\ \A q \in Requests : q # r => req'[q] = req[q]
       /\ ~Active(r)' /\ Pending(r)' /\ Using(r)'
  BY <1>1, EndsSucceeds
<1>11. Bringing'  BY <1>1 DEF Succession, Bringing
<1>12. /\ \A q \in Requests : q # r => ~(Flying(q) /\ req[q].core = c)
       /\ c = 1 => ~Late
       /\ c = 2 => Accepts(2)
       /\ l.refresh <= live'[c].refresh
       /\ \A d \in Cores : d # c => live'[d].refresh = live[d].refresh
  <2>1. l.refresh <= live'[c].refresh  BY <1>4, <1>5, <1>6, <1>7
  <2> QED  BY <1>1, <1>2, <1>7, <2>1, OneFlies DEF Late
<1>13. UNCHANGED <<world, signedIn, cfg, file, writes, stage, snapshot>>  BY <1>1
<1> HIDE DEF k, old
<1> QED
  BY <1>1, <1>9, <1>10, <1>11, <1>12, <1>13, CallSucceeds

(* Nothing of this changes when time goes by. *)
LEMMA RestSucceeds ==
  ASSUME Succession, UNCHANGED <<world, signedIn, cfg, file, writes, stage, snapshot, req>>,
         \A c \in Cores : /\ live'[c].refresh = live[c].refresh /\ live'[c].fp = live[c].fp
                          /\ live'[c].access = live[c].access
                          /\ live'[c] = None <=> live[c] = None,
         Bringing', "fail" \notin world => ~told'[1]
  PROVE  Succession'
<1>1. Recents'  BY DEF Succession, Recents, Recent, Of, Active
<1>2. Fitting'  BY DEF Succession, Fitting, Fits, Later, Of, Mixed
<1>3. Pendings' /\ Usings'
  BY DEF Succession, Pendings, Pending, Flying, Later, Mixed, Usings, Using
<1>4. Growing' /\ Handed' /\ Spared'
  BY DEF Succession, Growing, Handed, Matches, Spared
<1> QED  BY <1>1, <1>2, <1>3, <1>4 DEF Succession

LEMMA StandstillSucceeds ==
  ASSUME Succession, UNCHANGED <<world, signedIn, cores, back, handover, req>>
  PROVE  Succession'
<1>1. Bringing' /\ ("fail" \notin world => ~told'[1])
  BY DEF Succession, Bringing, Spared
<1> QED  BY <1>1, RestSucceeds

LEMMA RelentSucceeds ==
  ASSUME IInv, Succession, NEW c \in Cores, Relent(c) PROVE Succession'
<1>1. /\ live[c].failed = "wait" /\ live' = [live EXCEPT ![c].failed = "over"]
      /\ UNCHANGED <<Others, flight, req>>
  BY DEF Relent
<1>2. live \in [Cores -> Entries]  BY DEF IInv, Shape
<1>3. \A d \in Cores : /\ live'[d].refresh = live[d].refresh /\ live'[d].fp = live[d].fp
                       /\ live'[d].access = live[d].access
                       /\ live'[d] = None <=> live[d] = None
  <2>1. live'[c].failed = "over" /\ live'[c] # None /\ live[c] # None
    BY <1>1, <1>2 DEF Entries, None
  <2> QED  BY <1>1, <1>2, <2>1 DEF Entries
<1>4. Bringing' /\ ("fail" \notin world => ~told'[1])
  BY <1>1 DEF Succession, Bringing, Spared
<1> QED  BY <1>1, <1>3, <1>4, RestSucceeds

LEMMA GiveUpSucceeds ==
  ASSUME IInv, Succession, NEW c \in Cores, GiveUp(c) PROVE Succession'
<1>1. /\ "fail" \in world /\ queue[c] # <<>> /\ queue' = [queue EXCEPT ![c] = Tail(@)]
      /\ UNCHANGED <<world, tokens, cores, file, writes, handover, req>>
  BY DEF GiveUp
<1>2. queue \in [Cores -> {<<>>} \cup {<<new>> : new \in Configs}]  BY DEF IInv, Shape
<1>3. PICK new \in Configs : queue[c] = <<new>>  BY <1>1, <1>2
<1>4. \A d \in Cores : queue'[d] = IF d = c THEN <<>> ELSE queue[d]
  BY <1>1, <1>2, <1>3, OneInQueue
<1>5. Bringing'  BY <1>1, <1>4, OneInQueue DEF Succession, Bringing
<1> QED  BY <1>1, <1>5, RestSucceeds

-----------------------------------------------------------------------------
(* What is written back, and the handover *)

LEMMA WriteBackSucceeds ==
  ASSUME IInv, IInv', Succession, NEW c \in Cores, WriteBack(c) PROVE Succession'
<1>1. queue[c] # <<>> /\ queue \in [Cores -> {<<>>} \cup {<<new>> : new \in Configs}]
  BY DEF WriteBack, IInv, Shape
<1>2. PICK new \in Configs : queue[c] = <<new>>  BY <1>1
<1>3. Sending(c, new) /\ signedIn <= new.access
  BY <1>2 DEF IInv, Queued, Succession, Bringing
<1>4. PICK n : n = IF new.refresh = 0 THEN file.refresh ELSE new.refresh  OBVIOUS
<1>5. /\ file' = Config(n, new.access) /\ queue' = [queue EXCEPT ![c] = <<>>]
      /\ told' = [told EXCEPT ![c] = @ /\ new.refresh = 0]
      /\ \A d \in Cores : cfg'[d] \in {file', cfg[d]}
      /\ UNCHANGED <<world, tokens, live, flight, held, writes, handover, req>>
  <2>1. Head(queue[c]) = new /\ Tail(queue[c]) = <<>>  BY <1>2, OneInQueue
  <2>2. cfg' = cfg \/ cfg' = [cfg EXCEPT ![c] = file']  BY DEF WriteBack
  <2>3. \A d \in Cores : cfg'[d] \in {file', cfg[d]}
    <3>1. cfg \in [Cores -> Configs]  BY DEF IInv, Shape
    <3> QED  BY <2>2, <3>1
  <2> QED  BY <1>4, <2>1, <2>3 DEF WriteBack
<1>6. /\ file.refresh \in Nat /\ new.refresh \in Nat /\ new.access \in Nat /\ signedIn \in Nat
      /\ \A d \in Cores : live[d].refresh \in Nat
  <2>1. new.refresh \in Nat /\ new.access \in Nat  BY DEF Configs, Numbers
  <2> QED  BY <2>1, Sizes DEF IInv
<1>7. n \in Nat /\ file.refresh <= n  BY <1>3, <1>4, <1>6 DEF Sending
<1>8. file'.refresh = n /\ file'.access = new.access  BY <1>5 DEF Config
<1>9. Recents'
  <2>1. Recent(file)'
    <3>1. signedIn <= n  BY <1>6, <1>7 DEF IInv, Issued
    <3> QED  BY <1>3, <1>5, <1>8, <3>1 DEF Recent, Of
  <2> QED  BY <1>5, <2>1 DEF Succession, Recents, Recent, Of, Active
<1>10. UNCHANGED <<world, signedIn, live, stage, snapshot, req, writes>>  BY <1>5
<1>11. Fitting' /\ Pendings' /\ Usings' /\ Growing'
  BY <1>10 DEF Succession, Fitting, Fits, Later, Of, Mixed, Pendings, Pending, Flying,
               Usings, Using, Growing
<1>12. Bringing'
  <2>1. \A d \in Cores : queue'[d] = IF d = c THEN <<>> ELSE queue[d]  BY <1>1, <1>5
  <2> QED  BY <1>10, <2>1, OneInQueue DEF Succession, Bringing
<1>13. Handed'
  <2>1. live[1].refresh <= file.refresh => live[1].refresh <= file'.refresh
    BY <1>6, <1>7, <1>8
  <2>2. stage # "yielded"  BY <1>1 DEF IInv, Order
  <2> QED  BY <1>10, <2>1, <2>2 DEF Succession, Handed
<1>14. Spared'
  <2>1. told \in [Cores -> BOOLEAN]  BY DEF IInv, Shape
  <2>2. ~told[1] => ~told'[1]  BY <1>5, <2>1
  <2> QED  BY <1>10, <2>2 DEF Succession, Spared
<1> QED  BY <1>9, <1>11, <1>12, <1>13, <1>14 DEF Succession

LEMMA ReloadSucceeds ==
  ASSUME IInv, Succession, NEW d \in Cores, Reload(d) PROVE Succession'
<1>1. /\ cfg' = [cfg EXCEPT ![d] = file]
      /\ UNCHANGED <<world, tokens, live, flight, held, back, handover, req>>
  BY DEF Reload
<1>2. \A c \in Cores : cfg'[c] = file \/ cfg'[c] = cfg[c]  BY <1>1 DEF IInv, Shape
<1>3. Recents'  BY <1>1, <1>2 DEF Succession, Recents, Recent, Of, Active
<1>4. Fitting' /\ Pendings' /\ Usings' /\ Bringing' /\ Growing' /\ Handed' /\ Spared'
  BY <1>1 DEF Succession, Fitting, Fits, Later, Of, Mixed, Pendings, Pending, Flying,
              Usings, Using, Bringing, Growing, Handed, Matches, Spared
<1> QED  BY <1>3, <1>4 DEF Succession

LEMMA SignInSucceeds ==
  ASSUME IInv, IInv', Succession, NEW a \in Numbers, SignIn(a) PROVE Succession'
<1>1. /\ "edit" \in world /\ Quiet /\ signedIn' = issued + 1 /\ file' = Config(issued + 1, a)
      /\ cfg' = [c \in Cores |-> file'] /\ a \in {0, issued + 1}
      /\ \A r \in Requests : ~Active(r)
      /\ UNCHANGED <<world, age, live, flight, held, queue, writes, told, handover, req>>
  BY DEF SignIn
<1>2. /\ issued \in Nat /\ signedIn \in Nat /\ signedIn <= issued
      /\ \A c \in Cores : live[c].refresh \in Nat /\ live[c].refresh <= issued
      /\ snapshot.live.refresh \in Nat /\ snapshot.live.refresh <= issued
  <2>1. file.refresh \in Nat /\ signedIn \in Nat /\ issued \in Nat  BY Sizes DEF IInv
  <2>2. signedIn <= issued  BY <2>1 DEF IInv, Issued
  <2> QED  BY <2>1, <2>2, Sizes DEF IInv, Issued
<1>3. file'.refresh = issued + 1 /\ file'.access = a  BY <1>1 DEF Config
<1>4. Recents'
  <2>1. Recent(file)'  BY <1>1, <1>2, <1>3 DEF Recent, Of
  <2>2. \A c \in Cores : cfg'[c] = file'  BY <1>1
  <2> QED  BY <1>1, <2>1, <2>2 DEF Recents, Recent, Of, Active
<1>5. Fitting'
  <2>1. \A n, m : Later(n, m) /\ n \in Nat => Later(n, m)'
    BY <1>1, <1>2 DEF Later, Mixed
  <2>2. \A n \in Nat : \A b : n <= issued => Of(n, b)'  BY <1>1, <1>2 DEF Of
  <2>3. \A c \in Cores : live'[c] = live[c]  BY <1>1
  <2>4. snapshot' = snapshot  BY <1>1
  <2> QED  BY <1>1, <1>2, <2>1, <2>2 DEF Succession, Fitting, Fits, Later, Of, Mixed
<1>6. Pendings' /\ Usings'
  BY <1>1 DEF Pendings, Pending, Flying, Usings, Using, Active
<1>7. Bringing'
  <2>1. \A c \in Cores : queue'[c] = <<>>  BY <1>1 DEF Quiet
  <2> QED  BY <2>1, OneInQueue DEF Bringing
<1>8. Growing' /\ Spared'  BY <1>1 DEF Succession, Growing, Spared
<1>9. Handed'
  <2>1. live'[1].refresh <= file'.refresh  BY <1>1, <1>2, <1>3
  <2> QED  BY <2>1 DEF Handed
<1> QED  BY <1>4, <1>5, <1>6, <1>7, <1>8, <1>9 DEF Succession

(* A core that dies loses what it has; where write-backs do not fail, a    *)
(* predecessor that has paused has nothing that is not in the file.        *)
LEMMA RestartSucceeds ==
  ASSUME IInv, Succession, NEW c \in Cores, Restart(c) PROVE Succession'
<1>1. /\ "crash" \in world /\ stage = IF c = 1 THEN "alone" ELSE "drained"
      /\ live' = [live EXCEPT ![c] = None] /\ cfg' = [cfg EXCEPT ![c] = file]
      /\ queue' = [queue EXCEPT ![c] = <<>>] /\ told' = [told EXCEPT ![c] = FALSE]
      /\ req' = [r \in Requests |-> IF req[r].core = c THEN Idle ELSE req[r]]
      /\ UNCHANGED <<world, tokens, held, file, writes, handover>>
  BY DEF Restart
<1>2. Shape  BY DEF IInv
<1>3. \A d \in Cores : /\ live'[d] = IF d = c THEN None ELSE live[d]
                       /\ cfg'[d] = IF d = c THEN file ELSE cfg[d]
                       /\ queue'[d] = IF d = c THEN <<>> ELSE queue[d]
  BY <1>1, <1>2 DEF Shape
<1>4. \A r \in Requests : IF req[r].core = c THEN req'[r] = Idle ELSE req'[r] = req[r]
  BY <1>1
<1>5. Recents'
  <2>1. \A r \in Requests : Active(r)' => Active(r) /\ req'[r] = req[r]
    BY <1>4, NothingAtHand DEF Active
  <2> QED  BY <1>1, <1>3, <2>1 DEF Succession, Recents, Recent, Of
<1>6. Fitting'
  BY <1>1, <1>3 DEF Succession, Fitting, Fits, Later, Of, Mixed
<1>7. Pendings'
  <2> SUFFICES ASSUME NEW r \in Requests, NEW d \in Cores, Flying(r)', req'[r].core = d
               PROVE  Pending(r)'
    BY DEF Pendings, Pending
  <2>1. req'[r] = req[r] /\ req[r].core # c  BY <1>4, NothingAtHand DEF Flying
  <2>2. Pending(r) /\ live'[d] = live[d]  BY <1>3, <2>1 DEF Succession, Pendings
  <2> QED  BY <1>1, <2>1, <2>2 DEF Pending, Flying, Later, Mixed
<1>8. Usings'
  BY <1>1, <1>4, NothingAtHand DEF Succession, Usings, Using, Mixed
<1>9. Bringing'  BY <1>1, <1>3, OneInQueue DEF Succession, Bringing
<1>10. Growing'  BY <1>1 DEF Growing
<1>11. Handed'
  <2>1. CASE c = 1
    <3>1. live'[1].refresh = 0 /\ file'.refresh \in Nat
      BY <1>1, <1>2, <1>3, <2>1, Sizes, NothingAtHand
    <3> QED  BY <3>1 DEF Handed
  <2>2. CASE c = 2 /\ "fail" \in world  BY <1>1, <2>2 DEF Handed
  <2>3. CASE c = 2 /\ "fail" \notin world
    <3>1. ~told[1] /\ Safe(live[1].refresh, 1)  BY <2>3 DEF Succession, Spared, IInv, Covered
    <3>2. queue[1] = <<>>  BY <1>1, <2>3 DEF IInv, Order
    <3>3. live[1].refresh <= file.refresh  BY <3>1, <3>2, OneInQueue DEF Safe
    <3> QED  BY <1>1, <1>3, <2>3, <3>3 DEF Handed
  <2> QED  BY <2>1, <2>2, <2>3
<1>12. Spared'
  <2>1. told \in [Cores -> BOOLEAN]  BY <1>2 DEF Shape
  <2>2. ~told[1] => ~told'[1]  BY <1>1, <2>1
  <2> QED  BY <1>1, <2>2 DEF Succession, Spared
<1> QED
  BY <1>5, <1>6, <1>7, <1>8, <1>9, <1>10, <1>11, <1>12 DEF Succession

(* A step of a handover: what is left to show is about what was read and   *)
(* taken over.                                                             *)
LEMMA HandoverSucceeds ==
  ASSUME IInv, Succession, UNCHANGED <<world, tokens, file, queue, told, req>>,
         "successor" \in world, stage' # "drained" => writes'[1],
         \A c \in Cores : Recent(cfg'[c]), \A c \in Cores : Fits(live'[c], live'[c].fp),
         Fits(snapshot'.live, snapshot'.by.refresh),
         \A c \in Cores : live'[c] = live[c] \/ ~(\E r \in Requests : At(r, c)),
         Growing', Handed'
  PROVE  Succession'
<1>1. Recents'
  BY DEF Succession, Recents, Recent, Of, Active
<1>2. Fitting'  BY DEF Fitting, Fits, Later, Of, Mixed
<1>3. Pendings'
  <2> SUFFICES ASSUME NEW r \in Requests, NEW c \in Cores, Flying(r), req[r].core = c
               PROVE  Later(req[r].ask, req[r].cfg.refresh) /\ live'[c].refresh <= req[r].ask
    BY DEF Pendings, Pending, Flying, Later, Mixed
  <2>1. At(r, c)  BY DEF At, Active, Flying
  <2>2. live'[c] = live[c]  BY <2>1
  <2> QED  BY <2>2 DEF Succession, Pendings, Pending
<1>4. Usings' /\ Bringing' /\ Spared'
  BY DEF Succession, Usings, Using, Mixed, Bringing, Spared
<1> QED  BY <1>1, <1>2, <1>3, <1>4 DEF Succession

LEMMA NobodyThere == ASSUME IInv, ~Accepts(2) PROVE ~(\E r \in Requests : At(r, 2))
BY DEF IInv, Callers, Calling

LEMMA ExportSucceeds ==
  ASSUME IInv, Succession, snapshot' = Exported(1)
  PROVE  /\ Fits(snapshot'.live, snapshot'.by.refresh)
         /\ snapshot'.live.refresh <= live[1].refresh
<1>1. /\ snapshot'.by = cfg[1]
      /\ snapshot'.live = IF UsableFor(live[1], cfg[1]) THEN live[1] ELSE None
  BY ExportedIs
<1>2. /\ Shape /\ live[1] \in Entries /\ cfg[1] \in Configs /\ live[1].refresh \in Nat
      /\ Fits(live[1], live[1].fp) /\ Recent(cfg[1])
  BY Sizes DEF IInv, Shape, Succession, Fitting, Recents
<1>3. CASE UsableFor(live[1], cfg[1])
  <2>1. Later(live[1].refresh, cfg[1].refresh)  BY <1>2, <1>3, UsableIsRecent
  <2> QED  BY <1>1, <1>2, <1>3, <2>1 DEF Fits, UsableFor
<1>4. CASE ~UsableFor(live[1], cfg[1])
  BY <1>1, <1>2, <1>4, NothingAtHand DEF Fits
<1> QED  BY <1>3, <1>4

LEMMA ImportSucceeds ==
  ASSUME IInv, Succession, NEW k \in Configs, live' = [live EXCEPT ![2] = Imported(2, k)],
         snapshot' = NoSnapshot
  PROVE  /\ \A c \in Cores : Fits(live'[c], live'[c].fp)
         /\ Fits(snapshot'.live, snapshot'.by.refresh)
         /\ live'[1] = live[1]
         /\ IF snapshot.live = None \/ ~Matches(k) THEN live'[2] = live[2]
            ELSE live'[2].refresh = snapshot.live.refresh
<1> DEFINE e == snapshot.live
<1>1. live'[1] = live[1] /\ live'[2] = Imported(2, k)  BY DEF IInv, Shape
<1>2. \/ (e = None \/ ~Matches(k)) /\ live'[2] = live[2]
      \/ /\ e # None /\ Matches(k) /\ live'[2].fp = k.refresh
         /\ live'[2].access = e.access /\ live'[2].refresh = e.refresh
  BY <1>1, ImportedIs
<1>3. CASE live'[2] = live[2]
  BY <1>1, <1>2, <1>3, NothingAtHand DEF Succession, Fitting, Fits
<1>4. CASE /\ e # None /\ Matches(k) /\ live'[2].fp = k.refresh
           /\ live'[2].access = e.access /\ live'[2].refresh = e.refresh
  <2>1. Later(e.refresh, snapshot.by.refresh) /\ Of(e.refresh, e.access)
    BY <1>4 DEF Succession, Fitting, Fits
  <2>2. k.refresh \in Nat  BY DEF Configs, Numbers
  <2>3. Later(e.refresh, k.refresh)  BY <1>4, <2>1, <2>2 DEF Matches, Later
  <2>4. Fits(live'[2], live'[2].fp)  BY <1>4, <2>1, <2>3 DEF Fits
  <2> QED  BY <1>1, <1>4, <2>4, NothingAtHand DEF Succession, Fitting, Fits
<1> QED  BY <1>2, <1>3, <1>4

LEMMA AskSucceeds == ASSUME IInv, Succession, Ask PROVE Succession'
<1>1. /\ "successor" \in world /\ stage = "alone" /\ stage' = "asked"
      /\ snapshot' = Exported(1) /\ UNCHANGED <<world, tokens, cores, back, req>>
  BY DEF Ask, Steps
<1>2. Fits(snapshot'.live, snapshot'.by.refresh) /\ snapshot'.live.refresh <= live[1].refresh
  BY <1>1, ExportSucceeds
<1>3. Growing' /\ Handed'  BY <1>1, <1>2 DEF Growing, Handed
<1>4. /\ \A c \in Cores : Recent(cfg'[c]) /\ Fits(live'[c], live'[c].fp)
      /\ writes'[1]
  BY <1>1 DEF Succession, Recents, Fitting, Spared
<1> QED  BY <1>1, <1>2, <1>3, <1>4, HandoverSucceeds

LEMMA LoadSucceeds == ASSUME IInv, Succession, Load PROVE Succession'
<1>1. /\ stage = "asked" /\ stage' = "started" /\ cfg' = [cfg EXCEPT ![2] = file]
      /\ live' = [live EXCEPT ![2] = Imported(2, file)] /\ snapshot' = NoSnapshot
      /\ UNCHANGED <<world, tokens, flight, back, req>>
  BY DEF Load, Steps
<1>2. Shape /\ file \in Configs /\ live[2] = None  BY <1>1 DEF IInv, Shape, Order
<1>3. /\ \A c \in Cores : Fits(live'[c], live'[c].fp)
      /\ Fits(snapshot'.live, snapshot'.by.refresh) /\ live'[1] = live[1]
      /\ live'[2] = None \/ live'[2].refresh = snapshot.live.refresh
  BY <1>1, <1>2, ImportSucceeds
<1>4. Growing'
  <2>1. snapshot.live.refresh <= live[1].refresh  BY <1>1 DEF Succession, Growing
  <2>2. 0 <= live[1].refresh  BY <1>2, Sizes
  <2> QED  BY <1>1, <1>3, <2>1, <2>2, NothingAtHand DEF Growing
<1>5. Handed'  BY <1>1 DEF Handed
<1>6. /\ "successor" \in world /\ writes'[1] /\ ~(\E r \in Requests : At(r, 2))
  BY <1>1, NobodyThere DEF Succession, Spared, Accepts
<1>7. \A c \in Cores : Recent(cfg'[c])  BY <1>1, <1>2 DEF Shape, Succession, Recents
<1> QED  BY <1>1, <1>3, <1>4, <1>5, <1>6, <1>7, HandoverSucceeds

LEMMA PauseSucceeds == ASSUME IInv, Succession, Pause PROVE Succession'
<1>1. /\ stage = "started" /\ stage' = "paused"
      /\ UNCHANGED <<world, tokens, cfg, live, flight, back, snapshot, req>>
  BY DEF Pause, Steps
<1>2. Growing' /\ Handed'  BY <1>1 DEF Succession, Growing, Handed
<1>3. /\ \A c \in Cores : Recent(cfg'[c]) /\ Fits(live'[c], live'[c].fp)
      /\ Fits(snapshot'.live, snapshot'.by.refresh)
      /\ "successor" \in world /\ writes'[1]
  BY <1>1 DEF Succession, Recents, Fitting, Spared
<1> QED  BY <1>1, <1>2, <1>3, HandoverSucceeds

(* What a predecessor has that is not in the file it has for the file as   *)
(* it is, so that its snapshot has it, and the successor takes it.         *)
LEMMA YieldSucceeds == ASSUME IInv, Succession, Yield PROVE Succession'
<1>1. /\ stage = "paused" /\ stage' = "yielded" /\ snapshot' = Exported(1)
      /\ queue[1] = <<>> /\ UNCHANGED <<world, tokens, cores, back, req>>
  BY DEF Yield, Steps, IInv, Order
<1>2. Fits(snapshot'.live, snapshot'.by.refresh)  BY <1>1, ExportSucceeds
<1>3. Growing'  BY <1>1 DEF Growing
<1>4. Handed'
  <2> SUFFICES ASSUME ~(live[1].refresh <= file.refresh)
               PROVE  snapshot'.live.refresh = live[1].refresh /\ Matches(file)'
    BY <1>1 DEF Handed
  <2>1. Accepts(1)  BY <1>1 DEF Accepts, Drains
  <2>2. /\ live[1].refresh \in Nat /\ file.refresh \in Nat /\ signedIn \in Nat
        /\ signedIn <= file.refresh
    BY Sizes DEF IInv, Issued
  <2>3. ~Behind(1)  BY <2>2 DEF Behind
  <2>4. cfg[1].refresh = file.refresh  BY <2>1, <2>3 DEF IInv, Lagging, Same
  <2>5. live[1] # None /\ ~(live[1].refresh < signedIn)  BY <2>2, NothingAtHand
  <2>6. UsableFor(live[1], cfg[1])  BY <2>1, <2>4, <2>5 DEF IInv, Ours, UsableFor
  <2>7. snapshot'.by = cfg[1] /\ snapshot'.live = live[1]  BY <1>1, <2>6, ExportedIs
  <2> QED  BY <1>1, <2>4, <2>7 DEF Matches
<1>5. /\ \A c \in Cores : Recent(cfg'[c]) /\ Fits(live'[c], live'[c].fp)
      /\ "successor" \in world /\ writes'[1]
  BY <1>1 DEF Succession, Recents, Fitting, Spared
<1> QED  BY <1>1, <1>2, <1>3, <1>4, <1>5, HandoverSucceeds

LEMMA AdoptSucceeds == ASSUME IInv, Succession, Adopt PROVE Succession'
<1>1. /\ stage = "yielded" /\ stage' = "adopted"
      /\ live' = [live EXCEPT ![2] = Imported(2, cfg[2])] /\ snapshot' = NoSnapshot
      /\ cfg[2] = file /\ UNCHANGED <<world, tokens, cfg, flight, held, back, req>>
  BY DEF Adopt, Steps, IInv, Order
<1>2. Shape /\ cfg[2] \in Configs  BY DEF IInv, Shape
<1>3. /\ \A c \in Cores : Fits(live'[c], live'[c].fp)
      /\ Fits(snapshot'.live, snapshot'.by.refresh) /\ live'[1] = live[1]
      /\ snapshot.live # None /\ Matches(file) => live'[2].refresh = snapshot.live.refresh
  BY <1>1, <1>2, ImportSucceeds
<1>4. Growing'  BY <1>1 DEF Growing
<1>5. Handed'
  <2>1. live[1].refresh \in Nat /\ file.refresh \in Nat  BY <1>2, Sizes
  <2>2. CASE {"crash", "fail"} \subseteq world \/ live[1].refresh <= file.refresh
    BY <1>1, <1>3, <2>2 DEF Handed
  <2>3. CASE ~({"crash", "fail"} \subseteq world) /\ ~(live[1].refresh <= file.refresh)
    <3>1. snapshot.live.refresh = live[1].refresh /\ Matches(file)
      BY <1>1, <2>3 DEF Succession, Handed
    <3>2. snapshot.live # None  BY <2>1, <2>3, <3>1, NothingAtHand
    <3>3. live'[1].refresh <= live'[2].refresh  BY <1>3, <2>1, <3>1, <3>2
    <3> QED  BY <1>1, <3>3 DEF Handed
  <2> QED  BY <2>2, <2>3
<1>6. "successor" \in world /\ writes'[1] /\ ~(\E r \in Requests : At(r, 2))
  BY <1>1, NobodyThere DEF Succession, Spared, Accepts
<1>7. \A c \in Cores : Recent(cfg'[c])  BY <1>1 DEF Succession, Recents
<1> QED  BY <1>1, <1>3, <1>4, <1>5, <1>6, <1>7, HandoverSucceeds

LEMMA CommitSucceeds == ASSUME IInv, Succession, Commit PROVE Succession'
<1>1. /\ stage = "adopted" /\ stage' = "committed"
      /\ UNCHANGED <<world, tokens, cfg, live, flight, back, snapshot, req>>
  BY DEF Commit, Steps
<1>2. Growing' /\ Handed'  BY <1>1 DEF Succession, Growing, Handed
<1>3. /\ \A c \in Cores : Recent(cfg'[c]) /\ Fits(live'[c], live'[c].fp)
      /\ Fits(snapshot'.live, snapshot'.by.refresh)
      /\ "successor" \in world /\ writes'[1]
  BY <1>1 DEF Succession, Recents, Fitting, Spared
<1> QED  BY <1>1, <1>2, <1>3, HandoverSucceeds

LEMMA DrainSucceeds == ASSUME IInv, Succession, Drain PROVE Succession'
<1>1. /\ stage = "committed" /\ stage' = "drained" /\ queue[1] = <<>>
      /\ queue' = [queue EXCEPT ![1] = <<>>]
      /\ UNCHANGED <<world, tokens, cores, file, told, snapshot, req>>
  BY DEF Drain, Steps, IInv, Order
<1>2. queue' = queue
  <2>1. queue \in [Cores -> {<<>>} \cup {<<k>> : k \in Configs}]  BY DEF IInv, Shape
  <2> QED  BY <1>1, <2>1
<1>3. Growing' /\ Handed'  BY <1>1 DEF Succession, Growing, Handed
<1>4. /\ \A c \in Cores : Recent(cfg'[c]) /\ Fits(live'[c], live'[c].fp)
      /\ Fits(snapshot'.live, snapshot'.by.refresh) /\ "successor" \in world
  BY <1>1 DEF Succession, Recents, Fitting, Spared
<1> QED  BY <1>1, <1>2, <1>3, <1>4, HandoverSucceeds

LEMMA AbandonSucceeds == ASSUME IInv, Succession, Abandon PROVE Succession'
<1>1. /\ stage \notin {"alone", "committed", "drained"} /\ stage' = "alone"
      /\ live' = [live EXCEPT ![2] = None]
      /\ req' = [r \in Requests |-> IF req[r].core = 2 THEN Idle ELSE req[r]]
      /\ snapshot' = NoSnapshot /\ cfg' = [cfg EXCEPT ![2] = cfg[1]]
      /\ UNCHANGED <<world, tokens, back>>
  BY DEF Abandon
<1>2. Shape  BY DEF IInv
<1>3. live'[1] = live[1] /\ live'[2] = None /\ cfg'[1] = cfg[1] /\ cfg'[2] = cfg[1]
  BY <1>1, <1>2 DEF Shape
<1>4. \A r \in Requests : IF req[r].core = 2 THEN req'[r] = Idle ELSE req'[r] = req[r]
  BY <1>1
<1>5. Recents'
  <2>1. \A r \in Requests : Active(r)' => Active(r) /\ req'[r] = req[r]
    BY <1>4, NothingAtHand DEF Active
  <2> QED  BY <1>1, <1>3, <2>1 DEF Succession, Recents, Recent, Of
<1>6. Fitting'
  BY <1>1, <1>3, NothingAtHand DEF Succession, Fitting, Fits, Later, Of, Mixed
<1>7. Pendings'
  <2> SUFFICES ASSUME NEW r \in Requests, NEW c \in Cores, Flying(r)', req'[r].core = c
               PROVE  Pending(r)'
    BY DEF Pendings, Pending
  <2>1. req'[r] = req[r] /\ req[r].core # 2  BY <1>4, NothingAtHand DEF Flying
  <2>2. Pending(r) /\ c = 1  BY <2>1 DEF Succession, Pendings
  <2> QED  BY <1>1, <1>3, <2>1, <2>2 DEF Pending, Flying, Later, Mixed
<1>8. Usings'
  BY <1>1, <1>4, NothingAtHand DEF Succession, Usings, Using, Mixed
<1>9. Bringing'  BY <1>1 DEF Succession, Bringing
<1>10. Growing' /\ Handed'  BY <1>1 DEF Growing, Handed
<1>11. Spared'  BY <1>1 DEF Succession, Spared
<1> QED  BY <1>5, <1>6, <1>7, <1>8, <1>9, <1>10, <1>11 DEF Succession

LEMMA NextSucceeds == IInv /\ IInv' /\ Succession /\ [Next]_vars => Succession'
<1> SUFFICES ASSUME IInv, IInv', Succession, [Next]_vars PROVE Succession'  OBVIOUS
<1>1. ASSUME NEW r \in Requests, Own(r) PROVE Succession'
  BY <1>1, StartSucceeds, LookSucceeds, BoardSucceeds, RejectSucceeds, InvalidateSucceeds,
     IssueSucceeds, ArriveSucceeds, FailSucceeds, QuitSucceeds DEF Own
<1>2. ASSUME NEW n \in Tokens, Ripen(n) \/ Lapse(n) PROVE Succession'
  BY <1>2, StandstillSucceeds DEF Ripen, Lapse
<1>3. ASSUME NEW c \in Cores, Relent(c) \/ WriteBack(c) \/ GiveUp(c) \/ Restart(c) \/ Reload(c)
      PROVE  Succession'
  BY <1>3, RelentSucceeds, WriteBackSucceeds, GiveUpSucceeds, RestartSucceeds, ReloadSucceeds
<1>4. ASSUME NEW a \in 0..MaxTokens, SignIn(a) PROVE Succession'
  BY <1>4, SignInSucceeds DEF Numbers
<1>5. CASE Ask \/ Load \/ Pause \/ Yield \/ Adopt \/ Commit \/ Drain \/ Abandon
  BY <1>5, AskSucceeds, LoadSucceeds, PauseSucceeds, YieldSucceeds,
     AdoptSucceeds, CommitSucceeds, DrainSucceeds, AbandonSucceeds
<1>6. CASE UNCHANGED vars  BY <1>6, StandstillSucceeds DEF vars
<1> QED  BY <1>1, <1>2, <1>3, <1>4, <1>5, <1>6 DEF Next

LEMMA SuccessionHolds == Patient /\ Spec => []Succession
<1>1. Patient /\ Spec => []IInv  BY InvariantHolds
<1> QED  BY <1>1, InitSucceeds, NextSucceeds, PTL DEF Spec

(* Troubles that meet a successor when exchanges and write-backs fail lose *)
(* what it took over: it dies, or the user signs in again meanwhile.       *)
Careful == \A w \in Worlds :
  {"successor", "fail"} \subseteq w => "edit" \notin w /\ "crash" \notin w

(* What the request presents that renews a token. *)
Presented(r, c) ==
  IF UsableFor(live[c], req[r].cfg) THEN live[c].refresh ELSE req[r].cfg.refresh

(* The other core has none that is newer: it has not begun, it has just    *)
(* taken over, or it has handed over.                                      *)
LEMMA OthersAreOlder ==
  ASSUME IInv, Succession, Careful, NEW c \in Cores, NEW d \in Cores, d # c,
         Accepts(c), ~held[c]
  PROVE  /\ live[d].refresh <= file.refresh \/ live[d].refresh <= live[c].refresh
         /\ Mixed => live[d] = None /\ queue[d] = <<>>
<1>1. live[1].refresh \in Nat /\ live[2].refresh \in Nat /\ file.refresh \in Nat
  BY Sizes DEF IInv
<1>2. CASE c = 1
  <2>1. d = 2 /\ stage \in {"alone", "asked", "started"}
    BY <1>2 DEF IInv, Shape, Stages, Order, Accepts, Drains
  <2>2. live[2] = None \/ live[2].refresh <= live[1].refresh
    BY <2>1 DEF IInv, Order, Succession, Growing
  <2>3. Mixed => stage = "alone"  BY DEF Mixed, Careful, IInv, Shape, Succession, Spared
  <2> QED  BY <1>1, <1>2, <2>1, <2>2, <2>3, NothingAtHand DEF IInv, Order
<1>3. CASE c = 2
  <2>1. d = 1 /\ stage \in {"committed", "drained"}
    BY <1>3 DEF IInv, Shape, Stages, Order, Accepts, Drains
  <2>2. "successor" \in world  BY <2>1 DEF Succession, Spared
  <2>3. ~Mixed /\ ~({"crash", "fail"} \subseteq world)
    BY <2>2 DEF Mixed, Careful, IInv, Shape
  <2> QED  BY <1>3, <2>1, <2>3 DEF Succession, Handed
<1> QED  BY <1>2, <1>3

LEMMA NothingNewerIsKept ==
  ASSUME IInv, Succession, Careful, NEW r \in Requests, NEW c \in Cores, At(r, c),
         Accepts(c), ~held[c], queue[c] = <<>>, req[r].cfg.refresh = file.refresh,
         UsableFor(live[c], req[r].cfg) <=> UsableFor(live[c], file),
         NEW n \in Kept, Login(n) = Login(Presented(r, c))
  PROVE  n <= Presented(r, c)
<1> DEFINE k == req[r].cfg
           a == Presented(r, c)
<1>1. Shape /\ live[c] \in Entries /\ k \in Configs  BY DEF IInv, Shape, Calls
<1>2. /\ \A d \in Cores : live[d].refresh \in Nat /\ cfg[d].refresh \in Nat
      /\ file.refresh \in Nat /\ signedIn \in Nat /\ signedIn <= file.refresh
      /\ \A d \in Cores : cfg[d].refresh <= file.refresh /\ signedIn <= cfg[d].refresh
      /\ 1 <= signedIn
  <2>1. \A d \in Cores : signedIn <= cfg[d].refresh  BY DEF Succession, Recents, Recent
  <2> QED  BY <1>1, <2>1, Sizes DEF IInv, Issued, Shape
<1>3. Later(a, file.refresh)
  <2>1. CASE UsableFor(live[c], k)
    <3>1. Recent(k) /\ Fits(live[c], live[c].fp)
      BY DEF Succession, Recents, Fitting, At
    <3> QED  BY <1>1, <2>1, <3>1, UsableIsRecent DEF Presented
  <2>2. CASE ~UsableFor(live[c], k)  BY <1>2, <2>2 DEF Presented, Later
  <2> QED  BY <2>1, <2>2
<1>4. a \in Nat  BY <1>2 DEF Presented
<1>5. live[c].refresh = a \/ live[c] = None \/ live[c].refresh < signedIn
  BY DEF Presented, IInv, Ours
<1>6. live[c].refresh <= a \/ (live[c].refresh < signedIn /\ signedIn <= a)
  <2>1. CASE live[c].refresh = a \/ live[c] = None
    BY <1>4, <2>1, NothingAtHand
  <2>2. CASE live[c].refresh # a /\ live[c].refresh < signedIn
    <3>1. a = file.refresh  BY <2>2 DEF Presented
    <3> QED  BY <1>2, <2>2, <3>1
  <2> QED  BY <1>5, <2>1, <2>2
<1>7. ASSUME NEW d \in Cores, d # c
      PROVE  live[d].refresh <= a \/ (live[d].refresh < signedIn /\ signedIn <= a)
  <2>1. /\ live[d].refresh <= file.refresh \/ live[d].refresh <= live[c].refresh
        /\ Mixed => live[d] = None
    BY <1>7, OthersAreOlder
  <2>2. CASE Mixed  BY <1>4, <2>1, <2>2, NothingAtHand
  <2>3. CASE ~Mixed
    <3>1. file.refresh <= a  BY <1>3, <2>3 DEF Later
    <3> QED  BY <1>2, <1>4, <1>6, <2>1, <3>1
  <2> QED  BY <2>2, <2>3
<1>8. \A d \in Cores : live[d].refresh <= a \/ (live[d].refresh < signedIn /\ signedIn <= a)
  BY <1>6, <1>7
<1>9. /\ file.refresh <= a \/ a < signedIn
      /\ \A m \in Nat : m < signedIn /\ signedIn <= a => Login(m) # Login(a)
      /\ \A m \in Nat : signedIn <= m /\ a < signedIn => Login(m) # Login(a)
  BY <1>2, <1>3, <1>4 DEF Later, Login
<1>10. CASE \E d \in Cores : n = live[d].refresh  BY <1>2, <1>8, <1>9, <1>10
<1>11. CASE n = file.refresh \/ \E d \in Cores : n = cfg[d].refresh
  <2>1. n \in Nat /\ n <= file.refresh /\ signedIn <= n  BY <1>2, <1>11
  <2> QED  BY <1>2, <1>4, <1>9, <2>1
<1>12. CASE \E d \in Cores : \E new \in ToSet(queue[d]) : n = new.refresh
  <2>1. PICK d \in Cores : \E new \in ToSet(queue[d]) : n = new.refresh  BY <1>12
  <2>2. PICK new \in Configs : queue[d] = <<new>> /\ n = new.refresh
    <3>1. queue[d] # <<>>  BY <2>1 DEF ToSet
    <3>2. PICK new \in Configs : queue[d] = <<new>>  BY <1>1, <3>1 DEF Shape
    <3>3. ToSet(queue[d]) = {new}  BY <3>2 DEF ToSet
    <3> QED  BY <2>1, <3>2, <3>3
  <2>3. n \in {0, live[d].refresh}  BY <2>2 DEF IInv, Queued, Sending
  <2> QED  BY <1>4, <1>10, <2>3
<1> QED  BY <1>10, <1>11, <1>12 DEF Kept

(* In the worlds of Patient, and where what fails does not meet a          *)
(* successor that dies or a new login, no refresh token is presented while *)
(* this machine has a newer one of its login, for any number of requests   *)
(* and of tokens.  A successor that takes over before it has read the file *)
(* again may do so: the run tokens_behind.                                 *)
THEOREM NewestIsPresented == Patient /\ Careful /\ Spec => OnlyTheNewest
<1> DEFINE Newest(r) ==
      \A n \in Kept : Login(n) = Login(req'[r].ask) => n <= req'[r].ask
<1>1. ASSUME IInv, Succession, Careful, Next, NEW r \in Requests, Asks(r) PROVE Newest(r)
  <2>0. PICK c \in Cores : req[r].core = c  BY <1>1 DEF IInv, Shape, Calls
  <2> DEFINE l == live[c]
             k == req[r].cfg
  <2>1. Board(r) \/ Invalidate(r)  BY <1>1, WhoAsks
  <2>2. /\ req[r].pc \in {"waits", "again"} /\ At(r, c)
        /\ req \in [Requests -> Calls] /\ Shape
    BY <1>1, <2>0, <2>1 DEF Board, Invalidate, IInv, Shape, At, Active
  <2>3. ASSUME NEW a PROVE ~Gets(r, a) /\ ~Ends(r)
    <3>1. req'[r].pc = "asks"  BY <1>1 DEF Asks
    <3>2. ~Ends(r)  BY <2>2, <3>1, NothingAtHand DEF Ends
    <3> QED  BY <2>2, <3>1, <3>2 DEF Gets, Calls
  <2>4. /\ Renew(r, c, k)
        /\ \/ NotInCache(c, k)
           \/ UsableFor(l, k) => ~JustRenewed(r, l)
    BY <2>0, <2>1, <2>3 DEF Board, Invalidate, FromCache
  <2>5. /\ ~held[c]
        /\ req' = [req EXCEPT ![r].pc = "asks", ![r].mark = 0,
                              ![r].ask = IF UsableFor(l, k) THEN l.refresh ELSE k.refresh]
    BY <2>3, <2>4 DEF Renew
  <2>6. req'[r].ask = Presented(r, c)  BY <2>2, <2>5 DEF Presented, Calls
  <2>7. Accepts(c)
    <3>1. c = 2 => Accepts(c)  BY <1>1, <2>2 DEF IInv, Callers, Calling
    <3>2. c = 1 => Accepts(c)  BY <1>1, <2>5 DEF IInv, Order, Accepts, Drains
    <3> QED  BY <3>1, <3>2
  <2>8. ~UsableFor(l, k) \/ ~Fresh(l)
    BY <2>4 DEF NotInCache, InHand, Due, JustRenewed, Fresh
  <2>9. /\ queue[c] = <<>> /\ k.refresh = file.refresh
        /\ UsableFor(l, k) <=> UsableFor(l, file)
    BY <1>1, <2>2, <2>7, <2>8, AtRest
  <2> QED  BY <1>1, <2>2, <2>5, <2>6, <2>7, <2>9, NothingNewerIsKept
<1>2. IInv /\ Succession /\ Careful /\ [Next]_vars =>
        [\A r \in Requests : Asks(r) => Newest(r)]_vars
  BY <1>1
<1>3. Careful => []Careful  OBVIOUS
<1>4. Patient /\ Careful /\ Spec => [][\A r \in Requests : Asks(r) => Newest(r)]_vars
  BY <1>2, <1>3, InvariantHolds, SuccessionHolds, PTL DEF Spec
<1> QED  BY <1>4 DEF OnlyTheNewest

(* Sign-ins do not meet exchanges that fail. *)
Unmixed == \A w \in Worlds : ~({"edit", "fail"} \subseteq w)

(* In the worlds of Patient, and where the user does not sign in again     *)
(* while exchanges fail, no request goes out with a token of an earlier    *)
(* login, for any number of requests and of tokens.                        *)
THEOREM LoginIsRight == Patient /\ Unmixed /\ Spec => []RightLogin
<1>1. IInv /\ Succession /\ Unmixed => RightLogin
  <2> SUFFICES ASSUME IInv, Succession, Unmixed, NEW r \in Requests, req[r].pc = "sent"
               PROVE  Login(req[r].token) = Login(req[r].cfg.refresh)
    BY DEF RightLogin
  <2>1. ~Mixed  BY DEF Mixed, Unmixed, IInv, Shape
  <2>2. signedIn <= req[r].token  BY <2>1 DEF Succession, Usings, Using
  <2>3. signedIn <= req[r].cfg.refresh  BY DEF Succession, Recents, Recent, Active
  <2>4. signedIn \in Nat /\ req[r].token \in Nat /\ req[r].cfg.refresh \in Nat
    <3>1. req[r] \in Calls  BY DEF IInv, Shape
    <3> QED  BY <3>1, Sizes DEF IInv, Calls, Numbers
  <2> QED  BY <2>2, <2>3, <2>4 DEF Login
<1>2. Unmixed => []Unmixed  OBVIOUS
<1> QED  BY <1>1, <1>2, InvariantHolds, SuccessionHolds, PTL
=============================================================================
