--------------------------- MODULE ThrottleProofs ---------------------------
(***************************************************************************)
(* Proofs about Throttle: for any upstreams, limits and requests, however  *)
(* they wait, probe, fail, leave and are told apart,                       *)
(*   OnlyVerdictsOpen   probing ends with a verdict of a request sent      *)
(*                      after the last 429, or with an overdue probe;      *)
(*   OneProbes          until then one request alone is let through, as    *)
(*                      long as no upstream is renamed;                    *)
(*   TicketsInHand      a ticket that was not sent is with the request     *)
(*                      that got it, which will send it or give it back;   *)
(*   NobodyLeftInQueue  who is in a queue waits, as long as no upstream is *)
(*                      renamed;                                           *)
(*   NoOvertaking       the order of a queue is that of arrival, except    *)
(*                      for who probed and goes back to its head.          *)
(*                                                                         *)
(* A step of a request, Turn, looks after three things: whose tickets it   *)
(* has in hand, at which upstreams it ends the probing, and that whoever   *)
(* else probes keeps the ticket.  The last three properties rest on what   *)
(* it does to a queue (Moved) and to a ticket (Gripped).                   *)
(***************************************************************************)
EXTENDS Throttle, Lemmas

IsProbe(p) == p \in [ticket : {p.ticket}, at : {p.at}]

(* x has the fields of what is kept of an upstream.                        *)
IsUp(x) ==
  /\ x \in [paused : {x.paused}, probing : BOOLEAN, probe : {x.probe},
            queue : {x.queue}, alarms : {x.alarms}]
  /\ IsProbe(x.probe)

(* q has the fields of what a request keeps.                               *)
IsRequest(q) ==
  q \in [pc : {q.pc}, todo : {q.todo}, waiting : {q.waiting}, joined : {q.joined},
         owed : {q.owed}, held : {q.held}, full : {q.full}, gone : {q.gone},
         alive : {q.alive}, timed : {q.timed}, to : {q.to}, ticket : {q.ticket},
         passed : BOOLEAN, before : {q.before}]

(* The tickets that q has in hand are its own: r got them.                 *)
Owns(q, r) ==
  /\ q.ticket = NoTicket \/ q.ticket[1] = r
  /\ \A t \in q.held : t[1] = r

(* The ticket of the probe of u was got under this name.                   *)
SignedFor(x, u) == x.probe.ticket = NoTicket \/ x.probe.ticket[2] = u
Signed == \A u \in Names : SignedFor(up[u], u)

Probes(r) ==
  \A u \in Names :
    up[u].probing /\ OnItsWay(req[r]) /\ req[r].to = u /\ req[r].passed
      => Holds(up[u], req[r].ticket)

(* x became y, without a 429 and without a verdict.                        *)
Stays(x, y) ==
  /\ y.probing => x.probing
  /\ x.probing /\ ~y.probing => x.probe.at = "overdue"

(* Nobody's ticket was taken but that of r, unless the probing is over.    *)
Spares(x, y, r) ==
  \/ ~y.probing
  \/ y.probe.ticket = x.probe.ticket
  \/ x.probe.ticket = NoTicket \/ x.probe.ticket[1] = r

(* What is kept of the upstreams, and the same after r has changed it.     *)
Family(U) == U = [u \in Names |-> U[u]] /\ \A u \in Names : IsUp(U[u])

Fields ==
  /\ Family(up)
  /\ req = [r \in Requests |-> req[r]]
  /\ \A r \in Requests : IsRequest(req[r]) /\ Owns(req[r], r)
  /\ cfg # "old" => Renames

Fits(U, r) ==
  /\ Family(U) /\ \A u \in Names : Stays(up[u], U[u])
  /\ Signed => \A u \in Names : Spares(up[u], U[u], r) /\ SignedFor(U[u], u)

Turn(r) ==
  /\ Fits(up', r)
  /\ req' = [req EXCEPT ![r] = req'[r]]
  /\ IsRequest(req'[r]) /\ Owns(req'[r], r)
  /\ Signed /\ Probes(r) => Probes(r)'

(* What OnlyVerdictsOpen asks of a step.                                   *)
Opens ==
  \A u \in Names :
    up[u].probing /\ ~up'[u].probing =>
      \/ up[u].probe.at = "overdue"
      \/ cfg' # cfg
      \/ \E r \in Requests : /\ req[r].pc = "sent" /\ req'[r].pc # "sent"
                             /\ req[r].to = u /\ u \notin req[r].before

(* What is to be shown of a step that renames nothing.                     *)
Keeps == Fields' /\ Opens /\ (Signed /\ OneProbes => Signed' /\ OneProbes')

(* r may go to u with t, or without one.                                   *)
MayGo(r, u, t) ==
  \/ t = NoTicket /\ ~Seen(u).probing
  \/ /\ t # NoTicket /\ t[1] = r
     /\ Signed => /\ t[2] = u
                  /\ Seen(u).probe.ticket = NoTicket \/ up[u].probe.ticket = t

-----------------------------------------------------------------------------
(* What is kept of an upstream *)

LEMMA QueueChanges ==
  ASSUME NEW x, IsUp(x), NEW r, NEW y \in {JoinBack(x, r), JoinFront(x, r), Leave(x, r)}
  PROVE  IsUp(y) /\ y.probing = x.probing /\ y.probe = x.probe
<1>1. \A q : LET z == [x EXCEPT !.queue = q]
             IN  IsUp(z) /\ z.probing = x.probing /\ z.probe = x.probe
  BY DEF IsUp
<1>2. y = x \/ \E q : y = [x EXCEPT !.queue = q]
  BY DEF JoinBack, JoinFront, Leave
<1> QED BY <1>1, <1>2

LEMMA TicketReturned ==
  ASSUME NEW x, IsUp(x)
  PROVE  /\ IsUp(ReturnTicket(x)) /\ ReturnTicket(x).probing = x.probing
         /\ ReturnTicket(x).probe.ticket = NoTicket
BY DEF ReturnTicket, IsUp, IsProbe, NoProbe

LEMMA Settled ==
  ASSUME NEW x, IsUp(x)
  PROVE  /\ IsUp(Settle(x)) /\ Stays(x, Settle(x))
         /\ \/ Settle(x) = x
            \/ ~Settle(x).probing /\ Settle(x).probe.ticket = NoTicket
BY DEF Settle, Overdue, Cleared, Stays, IsUp, IsProbe, NoProbe

LEMMA Verdicts ==
  ASSUME NEW x, NEW u, NEW r, Check(x, u, r) = "go", x.probing
  PROVE  x.probe = NoProbe
BY DEF Check

LEMMA Ticketed ==
  ASSUME NEW x, IsUp(x), NEW t
  PROVE  /\ IsUp(WithTicket(x, t)) /\ WithTicket(x, t).probing = x.probing
         /\ t = NoTicket => WithTicket(x, t) = x
         /\ t # NoTicket => WithTicket(x, t).probe.ticket = t
BY DEF WithTicket, IsUp, IsProbe

LEMMA Sending ==
  ASSUME NEW x, IsUp(x)
  PROVE  /\ IsUp(SendProbe(x)) /\ SendProbe(x).probing = x.probing
         /\ SendProbe(x).probe.ticket = x.probe.ticket
BY DEF SendProbe, IsUp, IsProbe

LEMMA Limiting ==
  ASSUME NEW x, IsUp(x)
  PROVE  /\ IsUp(Limit(x)) /\ Limit(x).probing
         /\ Limit(x).probe.ticket = NoTicket
BY DEF Limit, IsUp, IsProbe, NoProbe

LEMMA Clearing ==
  ASSUME NEW x, IsUp(x)
  PROVE  /\ IsUp(Cleared(x)) /\ ~Cleared(x).probing
         /\ Cleared(x).probe.ticket = NoTicket
BY DEF Cleared, IsUp, IsProbe, NoProbe

LEMMA Merging ==
  ASSUME NEW x, IsUp(x), NEW y, IsUp(y)
  PROVE  IsUp(Merge(x, y)) /\ (Merge(x, y).probing <=> x.probing \/ y.probing)
BY DEF Merge, IsUp, IsProbe

LEMMA NewIsUp == IsUp(NewUp) /\ NewUp.probing = FALSE /\ NewUp.probe.ticket = NoTicket
BY DEF NewUp, IsUp, IsProbe, NoProbe

LEMMA TicketsAreNot ==
  ASSUME NEW r, NEW u, NEW b
  PROVE  <<r, u, b>> # NoTicket /\ <<r, u, b>>[1] = r /\ <<r, u, b>>[2] = u
BY DEF NoTicket

-----------------------------------------------------------------------------
(* What a request does with them *)

LEMMA NothingDone ==
  ASSUME Fields, NEW r
  PROVE  Fits(up, r)
BY DEF Fields, Fits, Family, Stays, Spares, Signed

LEMMA SomeReturned ==
  ASSUME NEW U, NEW r, Fits(U, r), NEW T, \A t \in T : t = NoTicket \/ t[1] = r
  PROVE  /\ Fits(Returned(U, T), r)
         /\ \A v \in Names :
              /\ Returned(U, T)[v].probing = U[v].probing
              /\ U[v].probe.ticket \notin T => Returned(U, T)[v] = U[v]
<1> DEFINE W == Returned(U, T)
<1>1. W = [v \in Names |-> W[v]] /\ \A v \in Names : IsUp(U[v])
  BY DEF Returned, Fits, Family
<1>2. ASSUME NEW v \in Names
      PROVE  \/ W[v] = U[v]
             \/ W[v] = ReturnTicket(U[v]) /\ U[v].probe.ticket \in T
  BY DEF Returned
<1> HIDE DEF W
<1>3. ASSUME NEW v \in Names
      PROVE  /\ IsUp(W[v]) /\ W[v].probing = U[v].probing
             /\ U[v].probe.ticket \notin T => W[v] = U[v]
             /\ \/ W[v].probe.ticket = U[v].probe.ticket
                \/ W[v].probe.ticket = NoTicket /\ U[v].probe.ticket \in T
  <2>1. CASE W[v] = U[v]
    BY <1>1, <2>1
  <2>2. CASE W[v] = ReturnTicket(U[v]) /\ U[v].probe.ticket \in T
    BY <1>1, <2>2, TicketReturned
  <2> QED BY <1>2, <2>1, <2>2
<1>4. \A v \in Names : Stays(up[v], W[v])
  BY <1>3 DEF Fits, Stays
<1>5. ASSUME Signed, NEW v \in Names PROVE Spares(up[v], W[v], r) /\ SignedFor(W[v], v)
  BY <1>3, <1>5 DEF Fits, Spares, SignedFor
<1>6. Fits(W, r)
  BY <1>1, <1>3, <1>4, <1>5 DEF Fits, Family
<1> QED BY <1>3, <1>6 DEF W

LEMMA SomeLeft ==
  ASSUME NEW U, NEW r, Fits(U, r), NEW u, NEW W \in {LeftAll(U, r), LeftOne(U, r, u)}
  PROVE  /\ Fits(W, r)
         /\ \A v \in Names : W[v].probing = U[v].probing /\ W[v].probe = U[v].probe
<1>1. \A v \in Names : IsUp(U[v])
  BY DEF Fits, Family
<1>2. /\ W = [v \in Names |-> W[v]]
      /\ \A v \in Names : W[v] = U[v] \/ W[v] = Leave(U[v], r)
  BY DEF LeftAll, LeftOne, Fits, Family
<1>3. \A v \in Names :
        IsUp(W[v]) /\ W[v].probing = U[v].probing /\ W[v].probe = U[v].probe
  BY <1>1, <1>2, QueueChanges
<1> QED BY <1>2, <1>3 DEF Fits, Family, Stays, Spares, SignedFor

LEMMA OneJoins ==
  ASSUME NEW U, NEW r, Fits(U, r), NEW u
  PROVE  Fits([U EXCEPT ![u] = JoinBack(@, r)], r)
<1> DEFINE W == [U EXCEPT ![u] = JoinBack(@, r)]
<1>1. \A v \in Names : IsUp(U[v])
  BY DEF Fits, Family
<1>2. /\ W = [v \in Names |-> W[v]]
      /\ \A v \in Names : W[v] = U[v] \/ W[v] = JoinBack(U[v], r)
  BY DEF Fits, Family
<1> HIDE DEF W
<1>3. \A v \in Names :
        IsUp(W[v]) /\ W[v].probing = U[v].probing /\ W[v].probe = U[v].probe
  BY <1>1, <1>2, QueueChanges
<1>4. Fits(W, r)
  BY <1>2, <1>3 DEF Fits, Family, Stays, Spares, SignedFor
<1> QED BY <1>4 DEF W

LEMMA SeenSettled ==
  ASSUME Fields, NEW u \in Names
  PROVE  /\ IsUp(Seen(u)) /\ Stays(up[u], Seen(u))
         /\ \/ Seen(u) = up[u]
            \/ ~Seen(u).probing /\ Seen(u).probe.ticket = NoTicket
BY Settled DEF Fields, Family, Seen, Stays

LEMMA OneSeen ==
  ASSUME Fields, NEW r, NEW u
  PROVE  Fits([up EXCEPT ![u] = Seen(u)], r)
<1> DEFINE W == [up EXCEPT ![u] = Seen(u)]
<1>1. W = [v \in Names |-> W[v]] /\ \A v \in Names : W[v] = IF v = u THEN Seen(v) ELSE up[v]
  BY DEF Fields, Family
<1> HIDE DEF W
<1>2. \A v \in Names : IsUp(W[v]) /\ Stays(up[v], W[v])
  BY <1>1, SeenSettled DEF Fields, Family, Stays
<1>3. ASSUME Signed, NEW v \in Names PROVE Spares(up[v], W[v], r) /\ SignedFor(W[v], v)
  BY <1>1, <1>3, SeenSettled DEF Signed, SignedFor, Spares
<1>4. Fits(W, r)
  BY <1>1, <1>2, <1>3 DEF Fits, Family
<1> QED BY <1>4 DEF W

LEMMA OneTicketed ==
  ASSUME Fields, NEW r, NEW u, NEW t, MayGo(r, u, t)
  PROVE  LET W == [up EXCEPT ![u] = WithTicket(Seen(u), t)]
         IN  /\ Fits(W, r)
             /\ u \in Names /\ W[u].probing => t # NoTicket /\ W[u].probe.ticket = t
<1> DEFINE W == [up EXCEPT ![u] = WithTicket(Seen(u), t)]
<1>1. /\ W = [v \in Names |-> W[v]]
      /\ \A v \in Names : W[v] = IF v = u THEN WithTicket(Seen(v), t) ELSE up[v]
  BY DEF Fields, Family
<1> HIDE DEF W
<1>2. ASSUME u \in Names
      PROVE  /\ IsUp(W[u]) /\ W[u].probing = Seen(u).probing
             /\ t = NoTicket => W[u] = Seen(u)
             /\ t # NoTicket => W[u].probe.ticket = t
  BY <1>1, <1>2, SeenSettled, Ticketed
<1>3. \A v \in Names : IsUp(W[v]) /\ Stays(up[v], W[v])
  BY <1>1, <1>2, SeenSettled DEF Fields, Family, Stays
<1>4. ASSUME Signed, NEW v \in Names PROVE Spares(up[v], W[v], r) /\ SignedFor(W[v], v)
  <2>1. CASE v # u
    BY <1>1, <1>4, <2>1 DEF Signed, Spares
  <2>2. CASE v = u
    <3>1. CASE t = NoTicket
      BY <1>2, <1>4, <2>2, <3>1, SeenSettled DEF Signed, SignedFor, Spares, MayGo
    <3>2. CASE t # NoTicket
      <4>1. t[1] = r /\ t[2] = u
            /\ (Seen(u).probe.ticket = NoTicket \/ up[u].probe.ticket = t)
        BY <1>4, <3>2 DEF MayGo
      <4>2. SignedFor(W[v], v)
        BY <1>2, <2>2, <3>2, <4>1 DEF SignedFor
      <4>3. Spares(up[v], W[v], r)
        BY <1>2, <2>2, <3>2, <4>1, SeenSettled DEF Spares
      <4> QED BY <4>2, <4>3
    <3> QED BY <3>1, <3>2
  <2> QED BY <2>1, <2>2
<1>5. Fits(W, r)
  BY <1>1, <1>3, <1>4 DEF Fits, Family
<1>6. u \in Names /\ W[u].probing => t # NoTicket /\ W[u].probe.ticket = t
  BY <1>2 DEF MayGo
<1> QED BY <1>5, <1>6 DEF W

-----------------------------------------------------------------------------
(* Who may go *)

LEMMA VerdictLets ==
  ASSUME Fields, NEW r, NEW u, Verdict(r, u) = "go"
  PROVE  MayGo(r, u, TicketOf(r, u))
<1>1. Seen(u).probing => Seen(u).probe = NoProbe
  BY Verdicts DEF Verdict
<1>2. CASE ~Seen(u).probing
  BY <1>2 DEF TicketOf, MayGo
<1>3. CASE Seen(u).probing
  <2>1. PICK b : TicketOf(r, u) = <<r, u, b>>
    BY <1>3 DEF TicketOf
  <2>2. Seen(u).probe.ticket = NoTicket
    BY <1>1, <1>3 DEF NoProbe
  <2> QED BY <2>1, <2>2, TicketsAreNot DEF MayGo
<1> QED BY <1>2, <1>3

LEMMA HeldLets ==
  ASSUME Fields, NEW r \in Requests, NEW u, NEW t \in HeldFor(r, u), Valid(t)
  PROVE  MayGo(r, u, t)
<1>1. t \in req[r].held /\ t[2] = u /\ t[1] = r
  BY DEF HeldFor, Fields, Owns
<1>2. PICK v \in Names : Holds(up[v], t)
  BY DEF Valid
<1>3. t # NoTicket /\ up[v].probe.ticket = t
  BY <1>2 DEF Holds
<1>4. Signed => v = u
  BY <1>1, <1>3 DEF Signed, SignedFor
<1> QED BY <1>1, <1>3, <1>4 DEF MayGo

-----------------------------------------------------------------------------
(* Turns *)

(* r is not let through to an upstream.                                    *)
LEMMA TurnAside ==
  ASSUME Fields, NEW r \in Requests, Fits(up', r),
         NEW q, req' = [req EXCEPT ![r] = q],
         IsRequest(q), Owns(q, r), ~OnItsWay(q)
  PROVE  Turn(r)
<1>1. req'[r] = q
  BY DEF Fields
<1> QED BY <1>1 DEF Turn, Probes

LEMMA TurnThrough ==
  ASSUME Fields, NEW r \in Requests, NEW u, NEW t, MayGo(r, u, t),
         LetThrough(r, u, t), Fits(up', r),
         u \in Names /\ up'[u].probing => t # NoTicket /\ up'[u].probe.ticket = t
  PROVE  Turn(r)
<1> DEFINE q == req'[r]
<1>1. /\ req' = [req EXCEPT ![r] = q] /\ IsRequest(q)
      /\ q.to = u /\ q.ticket = t /\ q.held = {}
  BY ZenonT(60) DEF LetThrough, NewRequest, IsRequest, Fields
<1>2. Owns(q, r)
  BY <1>1 DEF Owns, MayGo
<1> HIDE DEF q
<1>3. Probes(r)'
  BY <1>1 DEF Probes, Holds, q
<1> QED BY <1>1, <1>2, <1>3 DEF Turn, q

(* What a request keeps when it goes on to the next candidate, or is over. *)
LEMMA NextCandidate ==
  ASSUME NEW q, IsRequest(q)
  PROVE  /\ IsRequest(HopOver(q)) /\ HopOver(q).pc = "hop"
         /\ HopOver(q).ticket = NoTicket /\ HopOver(q).held = q.held
         /\ HopOver(q).to = Nobody /\ HopOver(q).waiting = q.waiting
BY DEF HopOver, IsRequest

LEMMA OverKeepsNothing ==
  /\ IsRequest(Over) /\ Over.pc = "done" /\ Over.ticket = NoTicket /\ Over.held = {}
  /\ IsRequest(NewRequest) /\ NewRequest.pc = "idle" /\ NewRequest.ticket = NoTicket
  /\ NewRequest.held = {} /\ NewRequest.passed = FALSE
BY DEF Over, NewRequest, IsRequest

LEMMA NewRound ==
  ASSUME NEW q, IsRequest(q)
  PROVE  /\ IsRequest(Round(q)) /\ Round(q).pc = "look"
         /\ Round(q).ticket = q.ticket /\ Round(q).held = q.held
BY DEF Round, IsRequest

LEMMA TurnBegin == ASSUME Fields, NEW r \in Requests, Begin(r) PROVE Turn(r)
<1>1. PICK l : req' = [req EXCEPT ![r] = [req[r] EXCEPT !.pc = "hop", !.todo = l]]
  BY DEF Begin
<1> DEFINE q == [req[r] EXCEPT !.pc = "hop", !.todo = l]
<1>2. req' = [req EXCEPT ![r] = q] /\ up' = up
  BY <1>1 DEF Begin
<1>3. IsRequest(q) /\ q.pc = "hop" /\ Owns(q, r)
  BY DEF Fields, IsRequest, Owns
<1> HIDE DEF q
<1> QED BY <1>2, <1>3, NothingDone, TurnAside DEF OnItsWay

LEMMA TurnHop == ASSUME Fields, NEW r \in Requests, Hop(r) PROVE Turn(r)
<1> DEFINE u == Head(req[r].todo)
           t == TicketOf(r, u)
<1>1. CASE /\ Verdict(r, u) = "go" /\ LetThrough(r, u, t)
           /\ up' = [up EXCEPT ![u] = WithTicket(Seen(u), t)]
  <2>1. MayGo(r, u, t)
    BY <1>1, VerdictLets
  <2> HIDE DEF u, t
  <2> QED BY <1>1, <2>1, OneTicketed, TurnThrough
<1>2. CASE /\ up' = [up EXCEPT ![u] = Seen(u)]
           /\ \E w : req' = [req EXCEPT ![r] =
                               [req[r] EXCEPT !.todo = Tail(req[r].todo), !.waiting = w]]
  <2>1. PICK w : req' = [req EXCEPT ![r] =
                           [req[r] EXCEPT !.todo = Tail(req[r].todo), !.waiting = w]]
    BY <1>2
  <2> DEFINE q == [req[r] EXCEPT !.todo = Tail(req[r].todo), !.waiting = w]
  <2>2. req' = [req EXCEPT ![r] = q] /\ req[r].pc = "hop"
    BY <2>1 DEF Hop
  <2>3. IsRequest(q) /\ q.pc = "hop" /\ Owns(q, r)
    BY <2>2 DEF Fields, IsRequest, Owns
  <2> HIDE DEF q, u
  <2> QED BY <1>2, <2>2, <2>3, OneSeen, TurnAside DEF OnItsWay
<1> QED BY <1>1, <1>2 DEF Hop, ChangeUps

LEMMA TurnStartWaiting == ASSUME Fields, NEW r \in Requests, StartWaiting(r) PROVE Turn(r)
<1> DEFINE back == req[r].owed \cap ToSet(req[r].waiting)
<1>1. CASE req' = [req EXCEPT ![r] = Over] /\ up' = up
  BY <1>1, OverKeepsNothing, NothingDone, TurnAside DEF OnItsWay, Owns
<1>2. CASE /\ LET d == Round(req[r]) IN
                req' = [req EXCEPT ![r] = [d EXCEPT !.owed = d.owed \ back, !.joined = back]]
           /\ up' = [u \in Names |-> IF u \in back THEN JoinFront(up[u], r) ELSE up[u]]
  <2> DEFINE d == Round(req[r])
             q == [d EXCEPT !.owed = d.owed \ back, !.joined = back]
  <2>1. /\ IsRequest(d) /\ d.pc = "look" /\ d.ticket = req[r].ticket
        /\ d.held = req[r].held
    BY NewRound DEF Fields
  <2>2. req' = [req EXCEPT ![r] = q]
    BY <1>2
  <2> HIDE DEF d
  <2>3. IsRequest(q) /\ q.pc = "look" /\ q.ticket = d.ticket /\ q.held = d.held
    BY <2>1 DEF IsRequest
  <2> HIDE DEF q
  <2>4. Owns(q, r)
    BY <2>1, <2>3 DEF Owns, Fields
  <2>5. /\ up' = [u \in Names |-> up'[u]] /\ \A u \in Names : IsUp(up[u])
        /\ \A u \in Names : up'[u] = up[u] \/ up'[u] = JoinFront(up[u], r)
    BY <1>2 DEF Fields, Family
  <2>6. \A u \in Names :
          IsUp(up'[u]) /\ up'[u].probing = up[u].probing /\ up'[u].probe = up[u].probe
    BY <2>5, QueueChanges
  <2>7. Fits(up', r)
    BY <2>5, <2>6 DEF Fits, Family, Stays, Spares, SignedFor, Signed
  <2> QED BY <2>2, <2>3, <2>4, <2>7, TurnAside DEF OnItsWay
<1> QED BY <1>1, <1>2 DEF StartWaiting

-----------------------------------------------------------------------------
(* Looking at one upstream *)

LEMMA OwnTickets ==
  ASSUME Fields, NEW r \in Requests, NEW u
  PROVE  /\ \A t \in req[r].held : t[1] = r
         /\ \A t \in HeldFor(r, u) : t[1] = r
         /\ HeldFor(r, u) \subseteq req[r].held
BY DEF Fields, Owns, HeldFor

LEMMA TurnForget ==
  ASSUME Fields, NEW r \in Requests, req[r].pc = "look", NEW u, Forget(r, u)
  PROVE  Turn(r)
<1> DEFINE q == [req[r] EXCEPT !.todo = Tail(@), !.gone = @ \cup {u},
                               !.held = @ \ HeldFor(r, u), !.joined = @ \ {u}]
<1>1. req' = [req EXCEPT ![r] = q]
  BY DEF Forget
<1>2. IsRequest(q) /\ q.pc = "look" /\ Owns(q, r)
  BY ZenonT(60) DEF Fields, IsRequest, Owns
<1>3. up' = LeftOne(Returned(up, HeldFor(r, u)), r, u)
  BY DEF Forget, ChangeUps
<1>4. Fits(up', r)
  BY <1>3, NothingDone, OwnTickets, SomeReturned, SomeLeft
<1> HIDE DEF q
<1> QED BY <1>1, <1>2, <1>4, TurnAside DEF OnItsWay

LEMMA TurnReady ==
  ASSUME Fields, NEW r \in Requests, NEW u, NEW t, MayGo(r, u, t), Ready(r, u, t)
  PROVE  Turn(r)
<1> DEFINE W == [up EXCEPT ![u] = WithTicket(Seen(u), t)]
           T == req[r].held \ {t}
<1>1. /\ Fits(W, r)
      /\ u \in Names /\ W[u].probing => t # NoTicket /\ W[u].probe.ticket = t
  BY OneTicketed
<1>2. \A s \in T : s[1] = r
  BY OwnTickets
<1>3. up' = LeftAll(Returned(W, T), r) /\ LetThrough(r, u, t)
  BY DEF Ready, ChangeUps
<1> HIDE DEF W
<1>4. /\ Fits(Returned(W, T), r)
      /\ u \in Names /\ Returned(W, T)[u].probing =>
           t # NoTicket /\ Returned(W, T)[u].probe.ticket = t
  BY <1>1, <1>2, SomeReturned
<1> HIDE DEF T
<1>5. /\ Fits(up', r)
      /\ u \in Names /\ up'[u].probing => t # NoTicket /\ up'[u].probe.ticket = t
  BY <1>3, <1>4, SomeLeft
<1> QED BY <1>3, <1>5, TurnThrough

LEMMA TurnWaitForPlace ==
  ASSUME Fields, NEW r \in Requests, req[r].pc = "look", NEW u, NEW t,
         MayGo(r, u, t), WaitForPlace(r, u, t)
  PROVE  Turn(r)
<1> DEFINE q == [req[r] EXCEPT !.todo = Tail(@), !.full = @ \cup {u},
                               !.held = (@ \ HeldFor(r, u)) \cup ({t} \ {NoTicket})]
<1>1. /\ req' = [req EXCEPT ![r] = q]
      /\ up' = [up EXCEPT ![u] = WithTicket(Seen(u), t)]
  BY DEF WaitForPlace, ChangeUps
<1>2. IsRequest(q) /\ q.pc = "look" /\ Owns(q, r)
  BY ZenonT(60) DEF Fields, IsRequest, Owns, MayGo
<1> HIDE DEF q
<1> QED BY <1>1, <1>2, OneTicketed, TurnAside DEF OnItsWay

LEMMA TurnQueue ==
  ASSUME Fields, NEW r \in Requests, req[r].pc = "look", NEW u, Queue(r, u)
  PROVE  Turn(r)
<1> DEFINE q == [req[r] EXCEPT !.todo = Tail(@), !.joined = @ \cup {u},
                               !.held = @ \ HeldFor(r, u),
                               !.timed = @ \/ Verdict(r, u) = "wait until"]
           U == Returned([up EXCEPT ![u] = Seen(u)], HeldFor(r, u))
<1>1. req' = [req EXCEPT ![r] = q] /\ up' = [U EXCEPT ![u] = JoinBack(@, r)]
  BY DEF Queue, ChangeUps
<1>2. IsRequest(q) /\ q.pc = "look" /\ Owns(q, r)
  BY ZenonT(60) DEF Fields, IsRequest, Owns
<1>3. Fits(U, r)
  BY OneSeen, OwnTickets, SomeReturned
<1> HIDE DEF q, U
<1>4. Fits(up', r)
  BY <1>1, <1>3, OneJoins
<1> QED BY <1>1, <1>2, <1>4, TurnAside DEF OnItsWay

LEMMA TurnLookAt == ASSUME Fields, NEW r \in Requests, LookAt(r) PROVE Turn(r)
<1> DEFINE u == Head(req[r].todo)
<1>1. /\ req[r].pc = "look"
      /\ \/ Forget(r, u) \/ Queue(r, u)
         \/ \E t \in HeldFor(r, u) :
              Valid(t) /\ (Ready(r, u, t) \/ WaitForPlace(r, u, t))
         \/ /\ Verdict(r, u) = "go"
            /\ Ready(r, u, TicketOf(r, u)) \/ WaitForPlace(r, u, TicketOf(r, u))
  BY DEF LookAt
<1> HIDE DEF u
<1>2. CASE Forget(r, u) \/ Queue(r, u)
  BY <1>1, <1>2, TurnForget, TurnQueue
<1>3. CASE \E t : MayGo(r, u, t) /\ (Ready(r, u, t) \/ WaitForPlace(r, u, t))
  BY <1>1, <1>3, TurnReady, TurnWaitForPlace
<1> QED BY <1>1, <1>2, <1>3, HeldLets, VerdictLets

LEMMA TurnPark == ASSUME Fields, NEW r \in Requests, Park(r) PROVE Turn(r)
<1>1. CASE /\ req' = [req EXCEPT ![r] = [NewRequest EXCEPT !.pc = "hop", !.owed = req[r].owed]]
           /\ up' = LeftAll(Returned(up, req[r].held), r)
  <2> DEFINE q == [NewRequest EXCEPT !.pc = "hop", !.owed = req[r].owed]
  <2>1. IsRequest(q) /\ q.pc = "hop" /\ Owns(q, r)
    BY DEF NewRequest, IsRequest, Owns
  <2>2. Fits(up', r)
    BY <1>1, NothingDone, OwnTickets, SomeReturned, SomeLeft
  <2>3. req' = [req EXCEPT ![r] = q]
    BY <1>1
  <2> HIDE DEF q
  <2> QED BY <2>1, <2>2, <2>3, TurnAside DEF OnItsWay
<1>2. CASE /\ req' = [req EXCEPT ![r] = [req[r] EXCEPT !.pc = "parked", !.gone = {}, !.alive = FALSE]]
           /\ up' = up
  <2> DEFINE q == [req[r] EXCEPT !.pc = "parked", !.gone = {}, !.alive = FALSE]
  <2>1. IsRequest(q) /\ q.pc = "parked" /\ Owns(q, r)
    BY ZenonT(60) DEF Fields, IsRequest, Owns
  <2>2. req' = [req EXCEPT ![r] = q]
    BY <1>2
  <2> HIDE DEF q
  <2> QED BY <1>2, <2>1, <2>2, NothingDone, TurnAside DEF OnItsWay
<1> QED BY <1>1, <1>2 DEF Park, ChangeUps

LEMMA TurnAgain == ASSUME Fields, NEW r \in Requests, Again(r) PROVE Turn(r)
<1> DEFINE q == Round(req[r])
<1>1. req' = [req EXCEPT ![r] = q] /\ up' = up
  BY DEF Again
<1>2. IsRequest(q) /\ q.pc = "look" /\ Owns(q, r)
  BY NewRound DEF Fields, Owns
<1> HIDE DEF q
<1> QED BY <1>1, <1>2, NothingDone, TurnAside DEF OnItsWay

LEMMA TurnPlaceCame ==
  ASSUME Fields, NEW r \in Requests, NEW u, PlaceCame(r, u) PROVE Turn(r)
<1>1. CASE \E t : MayGo(r, u, t) /\ Ready(r, u, t)
  BY <1>1, TurnReady
<1>2. CASE /\ LET d == Round(req[r]) IN
                req' = [req EXCEPT ![r] = [d EXCEPT !.held = d.held \ HeldFor(r, u)]]
           /\ up' = Returned([up EXCEPT ![u] = Seen(u)], HeldFor(r, u))
  <2> DEFINE d == Round(req[r])
             q == [d EXCEPT !.held = d.held \ HeldFor(r, u)]
  <2>1. IsRequest(d) /\ d.pc = "look" /\ d.ticket = req[r].ticket /\ d.held = req[r].held
    BY NewRound DEF Fields
  <2>2. req' = [req EXCEPT ![r] = q]
    BY <1>2
  <2> HIDE DEF d
  <2>3. /\ IsRequest(q) /\ q.pc = "look" /\ q.ticket = d.ticket
        /\ q.held = d.held \ HeldFor(r, u)
    BY <2>1 DEF IsRequest
  <2> HIDE DEF q
  <2>4. Owns(q, r)
    BY <2>1, <2>3 DEF Owns, Fields
  <2>5. Fits(up', r)
    BY <1>2, OneSeen, OwnTickets, SomeReturned
  <2> QED BY <2>2, <2>3, <2>4, <2>5, TurnAside DEF OnItsWay
<1> QED BY <1>1, <1>2, HeldLets, VerdictLets DEF PlaceCame

-----------------------------------------------------------------------------
(* Sending, and what comes of it *)

LEMMA TurnSend == ASSUME Fields, NEW r \in Requests, Send(r) PROVE Turn(r)
<1> DEFINE q == [req[r] EXCEPT !.pc = "sent"]
<1>1. /\ req' = [req EXCEPT ![r] = q] /\ req[r].pc = "go"
      /\ up' = [v \in Names |-> IF Holds(up[v], req[r].ticket) THEN SendProbe(up[v]) ELSE up[v]]
  BY DEF Send, ChangeUps
<1>2. /\ IsRequest(q) /\ Owns(q, r) /\ q.to = req[r].to
      /\ q.passed = req[r].passed /\ q.ticket = req[r].ticket
  BY DEF Fields, IsRequest, Owns
<1>3. /\ req'[r] = q
      /\ up' = [v \in Names |-> up'[v]]
      /\ \A v \in Names : up'[v] = up[v] \/ up'[v] = SendProbe(up[v])
  BY <1>1 DEF Fields, Family
<1> HIDE DEF q
<1>4. \A v \in Names : /\ IsUp(up'[v]) /\ up'[v].probing = up[v].probing
                       /\ up'[v].probe.ticket = up[v].probe.ticket
  BY <1>3, Sending DEF Fields, Family
<1>5. Fits(up', r)
  BY <1>3, <1>4 DEF Fits, Family, Stays, Spares, SignedFor, Signed
<1>6. Probes(r) => Probes(r)'
  BY <1>1, <1>2, <1>3, <1>4 DEF Probes, Holds, OnItsWay
<1> QED BY <1>1, <1>2, <1>3, <1>5, <1>6 DEF Turn

LEMMA TurnNotSent == ASSUME Fields, NEW r \in Requests, NotSent(r) PROVE Turn(r)
<1> DEFINE q == HopOver(req[r])
<1>1. /\ req' = [req EXCEPT ![r] = q]
      /\ up' = Returned(up, {req[r].ticket} \ {NoTicket})
  BY DEF NotSent, ChangeUps
<1>2. IsRequest(q) /\ q.pc = "hop" /\ Owns(q, r)
  BY NextCandidate DEF Fields, Owns
<1>3. \A t \in {req[r].ticket} \ {NoTicket} : t[1] = r
  BY DEF Fields, Owns
<1>4. Fits(up', r)
  BY <1>1, <1>3, NothingDone, SomeReturned
<1> HIDE DEF q
<1> QED BY <1>1, <1>2, <1>4, TurnAside DEF OnItsWay

LEMMA TurnGiveUp == ASSUME Fields, NEW r \in Requests, GiveUp(r) PROVE Turn(r)
<1> DEFINE T == req[r].held \cup ({req[r].ticket} \ {NoTicket})
<1>1. req' = [req EXCEPT ![r] = Over]
  BY DEF GiveUp
<1>2. \A t \in T : t[1] = r
  BY DEF Fields, Owns
<1>3. ASSUME up' = LeftAll(Returned(up, T), r) PROVE Fits(up', r)
  BY <1>2, <1>3, NothingDone, SomeReturned, SomeLeft
<1>4. ASSUME up' = [v \in Names |-> IF up[v].probe.ticket \in T
                                    THEN ReturnTicket(up[v]) ELSE up[v]]
      PROVE  Fits(up', r)
  <2>1. /\ up' = [v \in Names |-> up'[v]] /\ \A v \in Names : IsUp(up[v])
        /\ \A v \in Names : \/ up'[v] = up[v]
                            \/ up'[v] = ReturnTicket(up[v]) /\ up[v].probe.ticket[1] = r
    BY <1>2, <1>4 DEF Fields, Family
  <2>2. \A v \in Names : /\ IsUp(up'[v]) /\ up'[v].probing = up[v].probing
                         /\ \/ up'[v] = up[v]
                            \/ /\ up'[v].probe.ticket = NoTicket
                               /\ up[v].probe.ticket[1] = r
    BY <2>1, TicketReturned
  <2> QED BY <2>1, <2>2 DEF Fits, Family, Stays, Spares, SignedFor, Signed
<1> HIDE DEF T
<1> QED BY <1>1, <1>3, <1>4, OverKeepsNothing, TurnAside DEF OnItsWay, Owns, GiveUp, ChangeUps, T

-----------------------------------------------------------------------------
(* Every step *)

LEMMA TurnKeeps ==
  ASSUME Fields, NEW r \in Requests, Turn(r), UNCHANGED cfg
  PROVE  Keeps
<1>1. /\ req' = [q \in Requests |-> req'[q]]
      /\ \A q \in Requests : q # r => req'[q] = req[q]
  BY DEF Turn, Fields
<1>2. Fields'
  BY <1>1 DEF Turn, Fits, Fields
<1>3. Opens
  BY DEF Turn, Fits, Stays, Opens
<1>4. ASSUME Signed, OneProbes PROVE Signed' /\ OneProbes'
  <2>1. \A u \in Names : Spares(up[u], up'[u], r) /\ SignedFor(up'[u], u)
    BY <1>4 DEF Turn, Fits
  <2>2. Probes(r)'
    BY <1>4 DEF Turn, OneProbes, Probes
  <2>3. ASSUME NEW q \in Requests, q # r, NEW u \in Names,
               up'[u].probing, OnItsWay(req[q]), req[q].to = u, req[q].passed
        PROVE  Holds(up'[u], req[q].ticket)
    <3>1. up[u].probing /\ Holds(up[u], req[q].ticket)
      BY <1>4, <2>3 DEF Turn, Fits, Stays, OneProbes
    <3>2. up[u].probe.ticket # NoTicket /\ up[u].probe.ticket[1] = q
      BY <3>1 DEF Holds, Fields, Owns
    <3>3. up'[u].probe.ticket = up[u].probe.ticket
      BY <2>1, <2>3, <3>2 DEF Spares
    <3> QED BY <3>1, <3>3 DEF Holds
  <2>4. OneProbes'
    BY <1>1, <2>2, <2>3 DEF OneProbes, Probes, OnItsWay
  <2> QED BY <2>1, <2>4 DEF Signed
<1> QED BY <1>2, <1>3, <1>4 DEF Keeps

(* 429: nobody else was let through since, and r is not on its way.        *)
LEMMA RejectKeeps == ASSUME Fields, NEW r \in Requests, Reject(r) PROVE Keeps
<1> DEFINE u == req[r].to
<1>1. /\ up' = [up EXCEPT ![u] = Limit(@)] /\ UNCHANGED cfg
      /\ req' = [q \in Requests |->
                    IF q # r THEN Behind(req[q], u)
                    ELSE [HopOver(req[r]) EXCEPT
                            !.waiting = Append(@, u),
                            !.owed = IF req[r].ticket = NoTicket THEN @ ELSE @ \cup {u}]]
  BY DEF Reject, ChangeUps
<1> HIDE DEF u
<1>2. ASSUME NEW q \in Requests, q # r
      PROVE  /\ IsRequest(req'[q]) /\ Owns(req'[q], q)
             /\ OnItsWay(req'[q]) = OnItsWay(req[q]) /\ req'[q].to = req[q].to
             /\ req'[q].ticket = req[q].ticket
             /\ req'[q].passed => (req[q].passed /\ req[q].to # u)
  BY ZenonT(60), <1>1, <1>2 DEF Fields, Behind, IsRequest, Owns, OnItsWay
<1>3. IsRequest(req'[r]) /\ Owns(req'[r], r) /\ ~OnItsWay(req'[r])
  <2> DEFINE d == HopOver(req[r])
  <2>1. IsRequest(d) /\ d.pc = "hop" /\ d.ticket = NoTicket /\ d.held = req[r].held
    BY NextCandidate DEF Fields
  <2>2. req'[r] = [d EXCEPT !.waiting = Append(@, u),
                            !.owed = IF req[r].ticket = NoTicket THEN @ ELSE @ \cup {u}]
    BY <1>1
  <2> HIDE DEF d
  <2>3. IsRequest(req'[r]) /\ req'[r].pc = "hop" /\ req'[r].ticket = NoTicket
        /\ req'[r].held = req[r].held
    BY <2>1, <2>2 DEF IsRequest
  <2> QED BY <2>3 DEF Owns, Fields, OnItsWay
<1>4. /\ up' = [v \in Names |-> up'[v]]
      /\ \A v \in Names : up'[v] = IF v = u THEN Limit(up[v]) ELSE up[v]
  BY <1>1 DEF Fields, Family
<1>5. \A v \in Names : /\ v # u => up'[v] = up[v]
                       /\ v = u => up'[v].probe.ticket = NoTicket
  BY <1>4, Limiting DEF Fields, Family
<1>6. \A v \in Names : IsUp(up'[v])
  BY <1>4, Limiting DEF Fields, Family
<1>7. Fields'
  BY <1>1, <1>2, <1>3, <1>4, <1>6 DEF Fields, Family
<1>8. Opens
  BY <1>4, Limiting DEF Opens, Fields, Family
<1>9. Signed => Signed'
  BY <1>5 DEF Signed, SignedFor
<1>10. OneProbes => OneProbes'
  BY <1>2, <1>3, <1>5 DEF OneProbes, Holds
<1> QED BY <1>7, <1>8, <1>9, <1>10 DEF Keeps

(* A verdict ends the probing, if r was sent after the last 429.           *)
LEMMA ConcludeKeeps == ASSUME Fields, NEW r \in Requests, Conclude(r) PROVE Keeps
<1> DEFINE u == req[r].to
<1>1. PICK q \in {Over, HopOver(req[r])} : req' = [req EXCEPT ![r] = q]
  BY DEF Conclude
<1>2. IsRequest(q) /\ q.pc # "sent" /\ Owns(q, r) /\ ~OnItsWay(q)
  BY OverKeepsNothing, NextCandidate DEF Fields, Owns, OnItsWay
<1>3. req'[r] = q /\ req[r].pc = "sent" /\ UNCHANGED cfg
  BY <1>1 DEF Fields, Conclude, env
<1>4. CASE up' = up
  <2>1. Turn(r)
    BY <1>1, <1>2, <1>4, NothingDone, TurnAside
  <2> QED BY <1>3, <2>1, TurnKeeps
<1>5. CASE u \notin req[r].before /\ up' = [up EXCEPT ![u] = Cleared(@)]
  <2> HIDE DEF u
  <2>1. /\ up' = [v \in Names |-> up'[v]]
        /\ \A v \in Names : up'[v] = IF v = u THEN Cleared(up[v]) ELSE up[v]
    BY <1>5 DEF Fields, Family
  <2>2. \A v \in Names : /\ IsUp(up'[v])
                         /\ v # u => up'[v] = up[v]
                         /\ v = u => ~up'[v].probing /\ up'[v].probe.ticket = NoTicket
    BY <2>1, Clearing DEF Fields, Family
  <2>3. Fields'
    BY <1>1, <1>2, <1>3, <2>1, <2>2 DEF Fields, Family
  <2>4. Opens
    BY <1>2, <1>3, <1>5, <2>2 DEF Opens, u
  <2>5. Signed => Signed'
    BY <2>2 DEF Signed, SignedFor
  <2>6. OneProbes => OneProbes'
    BY <1>1, <1>2, <1>3, <2>2 DEF OneProbes, Fields
  <2> QED BY <2>3, <2>4, <2>5, <2>6 DEF Keeps
<1> QED BY <1>4, <1>5 DEF Conclude, ChangeUps

(* Time passes, and nothing of this changes.                               *)
LEMMA StillKeeps ==
  ASSUME Fields, up' = [u \in Names |-> up'[u]], UNCHANGED req, cfg' # "old" => Renames,
         \A u \in Names : /\ IsUp(up'[u]) /\ up'[u].probing = up[u].probing
                          /\ up'[u].probe.ticket = up[u].probe.ticket
  PROVE  Keeps
<1>1. Fields' /\ Opens
  BY DEF Fields, Family, Opens
<1>2. Signed => Signed'
  BY DEF Signed, SignedFor
<1>3. OneProbes => OneProbes'
  BY DEF OneProbes, Holds
<1> QED BY <1>1, <1>2, <1>3 DEF Keeps

LEMMA TimeKeeps ==
  ASSUME Fields, NEW u \in Names, PauseEnds(u) \/ GraceEnds(u) \/ Alarm(u)
  PROVE  Keeps
<1>1. PICK x : /\ up' = [up EXCEPT ![u] = x]
               /\ \/ x = [up[u] EXCEPT !.paused = FALSE]
                  \/ x = [up[u] EXCEPT !.probe.at = "overdue"]
                  \/ \E k : x = [up[u] EXCEPT !.alarms = @ \ {k}]
  BY DEF PauseEnds, GraceEnds, Alarm, ChangeUps, Fields, Family
<1>2. /\ IsUp(x) /\ x.probing = up[u].probing
      /\ x.probe.ticket = up[u].probe.ticket
  BY <1>1 DEF Fields, Family, IsUp, IsProbe
<1>3. UNCHANGED <<req, cfg>>
  BY DEF PauseEnds, GraceEnds, Alarm, env
<1>4. /\ up' = [v \in Names |-> up'[v]]
      /\ \A v \in Names : up'[v] = IF v = u THEN x ELSE up[v]
  BY <1>1 DEF Fields, Family
<1> QED BY <1>2, <1>3, <1>4, StillKeeps DEF Fields, Family

LEMMA SurroundingsKeep ==
  ASSUME Fields, \/ \E u \in Names : UsageChanges(u) \/ HealthChanges(u)
                 \/ Reload \/ UNCHANGED vars
  PROVE  Keeps
<1>1. UNCHANGED <<up, req>> /\ (cfg' # "old" => Renames)
  BY DEF UsageChanges, HealthChanges, Reload, vars, Fields
<1> QED BY <1>1, StillKeeps DEF Fields, Family

LEMMA RequestKeeps == ASSUME Fields, NEW r \in Requests, Request(r) PROVE Keeps
<1>1. CASE Reject(r) \/ Conclude(r)
  BY <1>1, RejectKeeps, ConcludeKeeps
<1>2. CASE ~(Reject(r) \/ Conclude(r))
  <2>1. Turn(r)
    BY <1>2, TurnBegin, TurnHop, TurnStartWaiting, TurnLookAt, TurnPark, TurnAgain,
       TurnPlaceCame, TurnSend, TurnNotSent, TurnGiveUp DEF Request, Task, Place
  <2>2. UNCHANGED cfg
    BY <1>2 DEF Request, Task, Place, Begin, Hop, StartWaiting, LookAt, Park, Again,
       PlaceCame, Send, NotSent, GiveUp, env
  <2> QED BY <2>1, <2>2, TurnKeeps
<1> QED BY <1>1, <1>2

LEMMA RenameKeeps == ASSUME Fields, Rename PROVE Fields' /\ Opens
<1>1. Renames /\ {From, To} \subseteq Names
  BY RenameAssumption DEF Rename, Fields
<1>2. /\ cfg' # cfg
      /\ req' = [q \in Requests |->
           [req[q] EXCEPT !.before = IF From \in @ THEN (@ \ {From}) \cup {To} ELSE @]]
      /\ up' = [up EXCEPT ![From] = NewUp, ![To] = Merge(@, up[From])]
  BY DEF Rename, ChangeUps
<1>3. ASSUME NEW q \in Requests PROVE IsRequest(req'[q]) /\ Owns(req'[q], q)
  <2>1. PICK b : req'[q] = [req[q] EXCEPT !.before = b]
    BY <1>2
  <2> QED BY <2>1 DEF Fields, IsRequest, Owns
<1>4. /\ up' = [v \in Names |-> up'[v]]
      /\ \A v \in Names : \/ up'[v] \in {up[v], NewUp}
                          \/ \E w \in {up[v], NewUp} : up'[v] = Merge(w, up[From])
  BY <1>1, <1>2 DEF Fields, Family
<1>5. \A v \in Names : IsUp(up'[v])
  BY <1>1, <1>4, NewIsUp, Merging DEF Fields, Family
<1> QED BY <1>1, <1>2, <1>3, <1>4, <1>5 DEF Fields, Family, Opens

LEMMA NextKeeps == ASSUME Fields, [Next]_vars, ~Rename PROVE Keeps
BY RequestKeeps, TimeKeeps, SurroundingsKeep DEF Next, Clock

LEMMA InitHolds == Init => Fields /\ Signed /\ OneProbes
<1> SUFFICES ASSUME Init PROVE Fields /\ Signed /\ OneProbes
  OBVIOUS
<1>1. /\ up = [u \in Names |-> NewUp] /\ req = [r \in Requests |-> NewRequest]
      /\ cfg = "old"
  BY DEF Init
<1>2. Fields
  BY <1>1, NewIsUp, OverKeepsNothing DEF Fields, Family, Owns
<1>3. Signed /\ OneProbes
  BY <1>1, NewIsUp DEF Signed, SignedFor, OneProbes
<1> QED BY <1>2, <1>3

LEMMA FieldsHold == Spec => []Fields
<1>1. Fields /\ [Next]_vars => Fields'
  BY NextKeeps, RenameKeeps DEF Keeps
<1> QED BY <1>1, InitHolds, PTL DEF Spec

(* Probing ends with a verdict of a request that was sent after the last   *)
(* 429, or with a probe whose grace is over (answered, released and        *)
(* settle_probe in throttle.rs).                                           *)
THEOREM VerdictsOpen == Spec => OnlyVerdictsOpen
<1>1. Fields /\ [Next]_vars => [Opens]_vars
  BY NextKeeps, RenameKeeps DEF Keeps
<1>2. Spec => [][Opens]_vars
  BY <1>1, FieldsHold, PTL DEF Spec
<1> QED BY <1>2 DEF OnlyVerdictsOpen, Opens

(* After a 429, and until there is a verdict, one request alone is let     *)
(* through (check in throttle.rs).  While a rename is under way another    *)
(* one may be let through under the new name: there must be none.          *)
THEOREM ProbesAreAlone == ~Renames /\ Spec => []OneProbes
<1> SUFFICES ASSUME ~Renames PROVE Spec => []OneProbes
  OBVIOUS
<1>1. Fields => ~Rename
  BY DEF Fields, Rename
<1>2. Fields /\ Signed /\ OneProbes /\ [Next]_vars => Signed' /\ OneProbes'
  BY <1>1, NextKeeps DEF Keeps
<1> QED BY <1>2, FieldsHold, InitHolds, PTL DEF Spec

-----------------------------------------------------------------------------
(* Queues and tickets *)

(* Every queue is a line.                                                  *)
Lines == \A u \in Names : Lined(up[u].queue, Requests)

(* Whoever is in a queue waits, and knows that it is there.                *)
Queued ==
  \A u \in Names : \A r \in ToSet(up[u].queue) :
    IsWaiting(req[r]) /\ u \in req[r].joined

(* A ticket for an upstream with places is where it was got.               *)
Placed ==
  \A u \in Names :
    LET t == up[u].probe.ticket IN t # NoTicket /\ t[2] \in Limited => t[2] = u

(* q will send the probe of ticket t, or give the ticket back.             *)
Hands(q, t) ==
  \/ IsWaiting(q) /\ t \in q.held
  \/ q.pc = "go" /\ q.ticket = t

InHand ==
  \A u \in Names : up[u].probe.at = "unsent" =>
    /\ up[u].probe.ticket # NoTicket
    /\ \E r \in Requests : Hands(req[r], up[u].probe.ticket)

Orders == Fields /\ Lines /\ Placed /\ InHand

(* What r may do in a queue.                                               *)
Moved(u, r) ==
  LET q == up[u].queue
      p == up'[u].queue
  IN  \/ p = q \/ p = Without(q, r)
      \/ r \notin ToSet(q) /\ p = Append(q, r)
      \/ u \in req[r].owed /\ p = <<r>> \o Without(q, r)

(* What r may do with a probe: it has the ticket now, or has had no part   *)
(* in it.                                                                  *)
Gripped(u, r) ==
  LET x == up[u].probe
      y == up'[u].probe
  IN  /\ y.ticket \in {x.ticket, NoTicket} \/ y.ticket[2] = u
      /\ y.at = "unsent" =>
           \/ y.ticket # NoTicket /\ Hands(req'[r], y.ticket)
           \/ y = x /\ ~Hands(req[r], y.ticket)

Stands(r) ==
  \A u \in Names : r \in ToSet(up'[u].queue) => IsWaiting(req'[r]) /\ u \in req'[r].joined

Handled(r) ==
  /\ \A u \in Names : Moved(u, r) /\ Gripped(u, r)
  /\ Queued => Stands(r)

LEMMA SeenKeeps ==
  ASSUME Fields, NEW u \in Names
  PROVE  /\ Seen(u).queue = up[u].queue /\ Seen(u).paused = up[u].paused
         /\ Seen(u).probe \in {up[u].probe, NoProbe}
BY DEF Seen, Settle, Overdue, Cleared, Fields, Family, IsUp

LEMMA SeenUp ==
  ASSUME Fields, NEW u
  PROVE  LET W == [up EXCEPT ![u] = Seen(u)]
         IN  /\ Family(W)
             /\ \A v \in Names : /\ W[v].queue = up[v].queue
                                 /\ W[v].probe \in {up[v].probe, NoProbe}
<1> DEFINE W == [up EXCEPT ![u] = Seen(u)]
<1>1. Family(W)
  <2>1. Fits(W, u)
    BY OneSeen
  <2> QED BY <2>1 DEF Fits
<1>2. \A v \in Names : W[v] = IF v = u THEN Seen(v) ELSE up[v]
  BY DEF Fields, Family
<1> HIDE DEF W
<1>3. \A v \in Names : W[v].queue = up[v].queue /\ W[v].probe \in {up[v].probe, NoProbe}
  BY <1>2, SeenKeeps
<1> QED BY <1>1, <1>3 DEF W

LEMMA TicketedUp ==
  ASSUME Fields, NEW u, NEW t
  PROVE  LET W == [up EXCEPT ![u] = WithTicket(Seen(u), t)]
         IN  /\ Family(W)
             /\ \A v \in Names :
                  /\ W[v].queue = up[v].queue
                  /\ \/ v = u /\ t # NoTicket /\ W[v].probe = [ticket |-> t, at |-> "unsent"]
                     \/ (v = u => t = NoTicket) /\ W[v].probe \in {up[v].probe, NoProbe}
<1> DEFINE W == [up EXCEPT ![u] = WithTicket(Seen(u), t)]
<1>1. /\ W = [v \in Names |-> W[v]]
      /\ \A v \in Names : W[v] = IF v = u THEN WithTicket(Seen(v), t) ELSE up[v]
  BY DEF Fields, Family
<1> HIDE DEF W
<1>2. Family(W)
  BY <1>1, SeenSettled, Ticketed DEF Fields, Family
<1>3. ASSUME NEW v \in Names
      PROVE  /\ W[v].queue = up[v].queue
             /\ \/ v = u /\ t # NoTicket /\ W[v].probe = [ticket |-> t, at |-> "unsent"]
                \/ (v = u => t = NoTicket) /\ W[v].probe \in {up[v].probe, NoProbe}
  <2>1. IsUp(Seen(v)) /\ Seen(v).queue = up[v].queue /\ Seen(v).probe \in {up[v].probe, NoProbe}
    BY SeenSettled, SeenKeeps
  <2>2. /\ WithTicket(Seen(v), t).queue = Seen(v).queue
        /\ t # NoTicket => WithTicket(Seen(v), t).probe = [ticket |-> t, at |-> "unsent"]
        /\ t = NoTicket => WithTicket(Seen(v), t) = Seen(v)
    BY <2>1 DEF WithTicket, IsUp
  <2> QED BY <1>1, <2>1, <2>2
<1> QED BY <1>2, <1>3 DEF W

LEMMA ReturnedUp ==
  ASSUME NEW U, Family(U), NEW T
  PROVE  LET W == Returned(U, T)
         IN  /\ Family(W)
             /\ \A v \in Names :
                  /\ W[v].queue = U[v].queue
                  /\ \/ W[v].probe = NoProbe
                     \/ W[v].probe = U[v].probe
                        /\ (W[v].probe.at = "unsent" => W[v].probe.ticket \notin T)
<1> DEFINE W == Returned(U, T)
<1>1. /\ W = [v \in Names |-> W[v]] /\ \A v \in Names : IsUp(U[v])
      /\ \A v \in Names :
           \/ W[v] = ReturnTicket(U[v])
           \/ W[v] = U[v] /\ (U[v].probe.at = "unsent" => U[v].probe.ticket \notin T)
  BY DEF Returned, Family
<1> HIDE DEF W
<1>2. \A v \in Names : IsUp(ReturnTicket(U[v])) /\ ReturnTicket(U[v]).queue = U[v].queue
                       /\ ReturnTicket(U[v]).probe = NoProbe
  BY <1>1, TicketReturned DEF ReturnTicket, IsUp
<1>3. Family(W)
  BY <1>1, <1>2 DEF Family
<1>4. \A v \in Names : /\ W[v].queue = U[v].queue
                       /\ \/ W[v].probe = NoProbe
                          \/ W[v].probe = U[v].probe
                             /\ (W[v].probe.at = "unsent" => W[v].probe.ticket \notin T)
  BY <1>1, <1>2
<1> QED BY <1>3, <1>4 DEF W

LEMMA LeftUp ==
  ASSUME NEW U, Family(U), NEW r
  PROVE  \A v \in Names :
           /\ LeftAll(U, r)[v].probe = U[v].probe
           /\ LeftAll(U, r)[v].queue =
                IF req[r].joined = {} THEN U[v].queue ELSE Without(U[v].queue, r)
BY DEF LeftAll, Leave, Family, IsUp

LEMMA LeftOneUp ==
  ASSUME NEW U, Family(U), NEW r, NEW u
  PROVE  \A v \in Names :
           /\ LeftOne(U, r, u)[v].probe = U[v].probe
           /\ LeftOne(U, r, u)[v].queue =
                IF v = u /\ u \in req[r].joined THEN Without(U[v].queue, r) ELSE U[v].queue
BY DEF LeftOne, Leave, Family, IsUp

(* r may keep a probe that it goes on having in hand.                      *)
LEMMA GripKept ==
  ASSUME Orders, NEW r, NEW v \in Names, up'[v].probe \in {up[v].probe, NoProbe},
         LET p == up'[v].probe IN
           p.at = "unsent" /\ Hands(req[r], p.ticket) => Hands(req'[r], p.ticket)
  PROVE  Gripped(v, r)
BY DEF Gripped, Orders, InHand, NoProbe

LEMMA WithoutFacts ==
  ASSUME NEW R, NEW q, Lined(q, R), NEW r
  PROVE  /\ Lined(Without(q, r), R)
         /\ ToSet(Without(q, r)) = ToSet(q) \ {r}
         /\ Orderly(q, Without(q, r), {})
<1>1. ToSet(q) \cap (ToSet(q) \ {r}) = ToSet(q) \ {r}
  OBVIOUS
<1> QED BY <1>1, AmongFacts DEF Without

(* What Moved says of a queue.                                             *)
LEMMA MovedFacts ==
  ASSUME Lines, NEW r \in Requests, NEW u \in Names, Moved(u, r)
  PROVE  /\ Lined(up'[u].queue, Requests)
         /\ ToSet(up'[u].queue) \subseteq ToSet(up[u].queue) \cup {r}
         /\ \/ Orderly(up[u].queue, up'[u].queue, {})
            \/ u \in req[r].owed /\ Orderly(up[u].queue, up'[u].queue, {r})
<1> DEFINE q == up[u].queue
           p == up'[u].queue
           w == Without(q, r)
<1>1. Lined(q, Requests)
  BY DEF Lines
<1>2. Lined(w, Requests) /\ ToSet(w) = ToSet(q) \ {r} /\ Orderly(q, w, {})
  BY <1>1, WithoutFacts
<1> HIDE DEF w
<1>3. \/ p = q \/ p = w
      \/ r \notin ToSet(q) /\ p = Append(q, r)
      \/ u \in req[r].owed /\ p = <<r>> \o w
  BY DEF Moved, w
<1> HIDE DEF p, q
<1>4. CASE p = q
  BY <1>1, <1>4, StayFacts DEF p, q
<1>5. CASE p = w
  BY <1>2, <1>5 DEF p, q
<1>6. CASE r \notin ToSet(q) /\ p = Append(q, r)
  <2>1. Lined(p, Requests) /\ ToSet(p) = ToSet(q) \cup {r} /\ Orderly(q, p, {})
    BY <1>1, <1>6, AppendFacts
  <2> QED BY <2>1 DEF p, q
<1>7. CASE u \in req[r].owed /\ p = <<r>> \o w
  <2>1. r \notin ToSet(w)
    BY <1>2
  <2>2. /\ Lined(<<r>> \o w, Requests) /\ ToSet(<<r>> \o w) = ToSet(w) \cup {r}
        /\ Orderly(q, <<r>> \o w, {r})
    BY <1>2, <2>1, FrontFacts
  <2> QED BY <1>2, <1>7, <2>2 DEF p, q
<1> QED BY <1>3, <1>4, <1>5, <1>6, <1>7

LEMMA WithoutOut ==
  ASSUME Orders, NEW r
  PROVE  \A u \in Names : r \notin ToSet(Without(up[u].queue, r))
BY WithoutFacts DEF Orders, Lines

LEMMA GoIsNotPaused ==
  ASSUME NEW x, NEW u, NEW r, Check(x, u, r) = "go"
  PROVE  ~x.paused
BY DEF Check

-----------------------------------------------------------------------------
(* What a step of a request does with them *)

(* r neither waits nor is let through, and leaves the queues alone.        *)
LEMMA HandQuiet ==
  ASSUME Orders, NEW r \in Requests, ~IsWaiting(req[r]), req[r].pc # "go",
         \A v \in Names : /\ up'[v].queue = up[v].queue
                          /\ up'[v].probe \in {up[v].probe, NoProbe}
  PROVE  Handled(r)
<1>1. \A v \in Names : Gripped(v, r)
  BY GripKept DEF Hands
<1>2. Queued => Stands(r)
  BY DEF Queued, Stands
<1> QED BY <1>1, <1>2 DEF Handled, Moved

(* r waits on, without the tickets T.                                      *)
LEMMA HandWaits ==
  ASSUME Orders, NEW r \in Requests, NEW T, IsWaiting(req[r]),
         IsWaiting(req'[r]), req'[r].held = req[r].held \ T,
         \A v \in Names :
           \/ up'[v].probe = NoProbe
           \/ up'[v].probe = up[v].probe
              /\ (up'[v].probe.at = "unsent" => up'[v].probe.ticket \notin T)
  PROVE  \A v \in Names : Gripped(v, r)
<1> SUFFICES ASSUME NEW v \in Names PROVE Gripped(v, r)
  OBVIOUS
<1>1. up'[v].probe.at = "unsent" => up'[v].probe.ticket \notin T
  BY DEF NoProbe
<1>2. req[r].pc # "go"
  BY DEF IsWaiting
<1> QED BY <1>1, <1>2, GripKept DEF Hands

(* r leaves all queues and gives back all its tickets.                     *)
LEMMA HandLeaves ==
  ASSUME Orders, NEW r \in Requests, NEW T, up' = LeftAll(Returned(up, T), r),
         \A t : t # NoTicket /\ Hands(req[r], t) => t \in T
  PROVE  Handled(r)
<1>1. Family(up)
  BY DEF Orders, Fields
<1>2. \A v \in Names :
        /\ up'[v].queue = IF req[r].joined = {} THEN up[v].queue ELSE Without(up[v].queue, r)
        /\ \/ up'[v].probe = NoProbe
           \/ up'[v].probe = up[v].probe
              /\ (up'[v].probe.at = "unsent" => up'[v].probe.ticket \notin T)
  BY <1>1, ReturnedUp, LeftUp
<1>3. ASSUME NEW v \in Names PROVE Gripped(v, r)
  <2>1. up'[v].probe.at = "unsent" => up'[v].probe.ticket # NoTicket
    BY <1>2 DEF Orders, InHand, NoProbe
  <2> QED BY <1>2, <2>1, GripKept DEF NoProbe
<1>4. ASSUME Queued, NEW v \in Names PROVE r \notin ToSet(up'[v].queue)
  <2>1. CASE req[r].joined = {}
    BY <1>2, <1>4, <2>1 DEF Queued
  <2>2. CASE req[r].joined # {}
    BY <1>2, <1>4, <2>2, WithoutOut
  <2> QED BY <2>1, <2>2
<1> QED BY <1>2, <1>3, <1>4 DEF Handled, Moved, Stands

LEMMA HandReady ==
  ASSUME Orders, NEW r \in Requests, IsWaiting(req[r]), NEW u, NEW t,
         t = NoTicket \/ t[2] = u, Ready(r, u, t)
  PROVE  Handled(r)
<1> DEFINE W == [up EXCEPT ![u] = WithTicket(Seen(u), t)]
           T == req[r].held \ {t}
<1>1. Fields
  BY DEF Orders
<1>2. /\ Family(W)
      /\ \A v \in Names :
           /\ W[v].queue = up[v].queue
           /\ \/ v = u /\ t # NoTicket /\ W[v].probe = [ticket |-> t, at |-> "unsent"]
              \/ W[v].probe \in {up[v].probe, NoProbe}
  BY <1>1, TicketedUp
<1>3. up' = LeftAll(Returned(W, T), r)
  BY DEF Ready, ChangeUps
<1>4. req'[r].pc = "go" /\ req'[r].ticket = t
  BY <1>1 DEF Ready, LetThrough, NewRequest, Fields
<1> HIDE DEF W
<1>5. \A v \in Names :
        /\ up'[v].queue = IF req[r].joined = {} THEN up[v].queue ELSE Without(up[v].queue, r)
        /\ \/ up'[v].probe = NoProbe
           \/ up'[v].probe = W[v].probe
              /\ (up'[v].probe.at = "unsent" => up'[v].probe.ticket \notin T)
  BY <1>2, <1>3, ReturnedUp, LeftUp
<1>6. ASSUME NEW v \in Names PROVE Gripped(v, r)
  <2>1. CASE v = u /\ t # NoTicket /\ up'[v].probe = [ticket |-> t, at |-> "unsent"]
    BY <1>4, <2>1 DEF Gripped, Hands
  <2>2. CASE up'[v].probe \in {up[v].probe, NoProbe}
    BY <1>4, <1>5, <2>2, GripKept DEF Hands, NoProbe, IsWaiting
  <2> QED BY <1>2, <1>5, <2>1, <2>2
<1>7. ASSUME Queued, NEW v \in Names PROVE r \notin ToSet(up'[v].queue)
  <2>1. CASE req[r].joined = {}
    BY <1>5, <1>7, <2>1 DEF Queued
  <2>2. CASE req[r].joined # {}
    BY <1>5, <2>2, WithoutOut
  <2> QED BY <2>1, <2>2
<1> QED BY <1>5, <1>6, <1>7 DEF Handled, Moved, Stands

LEMMA HandForget ==
  ASSUME Orders, NEW r \in Requests, req[r].pc = "look", NEW u, Forget(r, u)
  PROVE  Handled(r)
<1> DEFINE T == HeldFor(r, u)
<1>1. Fields /\ Family(up)
  BY DEF Orders, Fields
<1>2. /\ up' = LeftOne(Returned(up, T), r, u)
      /\ req'[r].pc = "look" /\ req'[r].held = req[r].held \ T
      /\ req'[r].joined = req[r].joined \ {u}
  BY <1>1 DEF Forget, ChangeUps, Fields, IsRequest
<1> HIDE DEF T
<1>3. \A v \in Names :
        /\ up'[v].queue = IF v = u /\ u \in req[r].joined
                          THEN Without(up[v].queue, r) ELSE up[v].queue
        /\ \/ up'[v].probe = NoProbe
           \/ up'[v].probe = up[v].probe
              /\ (up'[v].probe.at = "unsent" => up'[v].probe.ticket \notin T)
  BY <1>1, <1>2, ReturnedUp, LeftOneUp
<1>4. \A v \in Names : Gripped(v, r)
  <2>1. IsWaiting(req[r]) /\ IsWaiting(req'[r])
    BY <1>2 DEF IsWaiting
  <2> QED BY <1>2, <1>3, <2>1, HandWaits
<1>5. ASSUME Queued, NEW v \in Names, r \in ToSet(up'[v].queue)
      PROVE  v \in req[r].joined /\ v # u
  BY <1>3, <1>5, WithoutOut DEF Queued
<1> QED BY <1>2, <1>3, <1>4, <1>5 DEF Handled, Moved, Stands, IsWaiting

LEMMA HandQueue ==
  ASSUME Orders, NEW r \in Requests, req[r].pc = "look", NEW u, Queue(r, u)
  PROVE  Handled(r)
<1> DEFINE T == HeldFor(r, u)
           W == [up EXCEPT ![u] = Seen(u)]
           U == Returned(W, T)
<1>1. Fields
  BY DEF Orders
<1>2. /\ up' = [U EXCEPT ![u] = JoinBack(@, r)]
      /\ req'[r].pc = "look" /\ req'[r].held = req[r].held \ T
      /\ req'[r].joined = req[r].joined \cup {u}
  BY <1>1 DEF Queue, ChangeUps, Fields, IsRequest
<1>3. /\ Family(W)
      /\ \A v \in Names : /\ W[v].queue = up[v].queue
                          /\ W[v].probe \in {up[v].probe, NoProbe}
  BY <1>1, SeenUp
<1> HIDE DEF W, T
<1>4. /\ Family(U)
      /\ \A v \in Names :
           /\ U[v].queue = up[v].queue
           /\ \/ U[v].probe = NoProbe
              \/ U[v].probe = up[v].probe
                 /\ (U[v].probe.at = "unsent" => U[v].probe.ticket \notin T)
  BY <1>3, ReturnedUp
<1> HIDE DEF U
<1>5. \A v \in Names :
        /\ up'[v].probe = U[v].probe
        /\ \/ up'[v].queue = up[v].queue
           \/ v = u /\ r \notin ToSet(up[v].queue) /\ up'[v].queue = Append(up[v].queue, r)
  <2>1. \A v \in Names :
          /\ up'[v].probe = U[v].probe
          /\ \/ up'[v].queue = U[v].queue
             \/ v = u /\ r \notin ToSet(U[v].queue) /\ up'[v].queue = Append(U[v].queue, r)
    BY <1>2, <1>4 DEF JoinBack, Family, IsUp
  <2> QED BY <1>4, <2>1
<1>6. \A v \in Names : Gripped(v, r)
  <2>1. IsWaiting(req[r]) /\ IsWaiting(req'[r])
    BY <1>2 DEF IsWaiting
  <2>2. \A v \in Names :
          \/ up'[v].probe = NoProbe
          \/ up'[v].probe = up[v].probe
             /\ (up'[v].probe.at = "unsent" => up'[v].probe.ticket \notin T)
    BY <1>4, <1>5
  <2> QED BY <1>2, <2>1, <2>2, HandWaits
<1>7. ASSUME Queued, NEW v \in Names, r \in ToSet(up'[v].queue)
      PROVE  v \in req[r].joined \cup {u}
  BY <1>5, <1>7 DEF Queued
<1> QED BY <1>2, <1>5, <1>6, <1>7 DEF Handled, Moved, Stands, IsWaiting

(* A ticket of r for u that it has in hand is at u, if u has no place free:*)
(* u has places, and there they are not renamed.                           *)
LEMMA HandWaitForPlace ==
  ASSUME Orders, NEW r \in Requests, req[r].pc = "look", NEW u, NEW t,
         t = NoTicket \/ t[2] = u, ~PlaceFree(u), WaitForPlace(r, u, t),
         t = NoTicket => Verdict(r, u) = "go" /\ ~\E m \in HeldFor(r, u) : Valid(m)
  PROVE  Handled(r)
<1> DEFINE T == HeldFor(r, u)
           W == [up EXCEPT ![u] = WithTicket(Seen(u), t)]
<1>1. Fields /\ u \in Limited /\ u \in Names
  BY NamesAssumption DEF Orders, PlaceFree
<1>2. /\ up' = W
      /\ req'[r].pc = "look" /\ req'[r].held = (req[r].held \ T) \cup ({t} \ {NoTicket})
      /\ req'[r].joined = req[r].joined
  BY <1>1 DEF WaitForPlace, ChangeUps, Fields, IsRequest
<1>3. \A v \in Names :
        /\ up'[v].queue = up[v].queue
        /\ \/ v = u /\ t # NoTicket /\ up'[v].probe = [ticket |-> t, at |-> "unsent"]
           \/ (v = u => t = NoTicket) /\ up'[v].probe \in {up[v].probe, NoProbe}
  BY <1>1, <1>2, TicketedUp
<1> HIDE DEF W
<1>4. ASSUME NEW v \in Names PROVE Gripped(v, r)
  <2>1. CASE v = u /\ t # NoTicket /\ up'[v].probe = [ticket |-> t, at |-> "unsent"]
    BY <1>2, <2>1 DEF Gripped, Hands, IsWaiting
  <2>2. CASE (v = u => t = NoTicket) /\ up'[v].probe \in {up[v].probe, NoProbe}
    <3> DEFINE p == up'[v].probe
    <3>1. ASSUME p.at = "unsent", Hands(req[r], p.ticket) PROVE Hands(req'[r], p.ticket)
      <4>1. p = up[v].probe /\ p.ticket # NoTicket /\ p.ticket \in req[r].held
        BY <2>2, <3>1 DEF Hands, Orders, InHand, NoProbe, IsWaiting
      <4>2. p.ticket \notin T
        <5> SUFFICES ASSUME p.ticket \in T PROVE FALSE
          OBVIOUS
        <5>1. v = u
          BY <1>1, <4>1 DEF HeldFor, Orders, Placed
        <5>2. ~up[u].paused
          <6>1. ~Seen(u).paused
            BY <2>2, <5>1, GoIsNotPaused DEF Verdict
          <6> QED BY <1>1, <6>1, SeenKeeps
        <5>3. Valid(p.ticket)
          BY <1>1, <4>1, <5>1, <5>2 DEF Valid, Holds
        <5> QED BY <2>2, <5>1, <5>3
      <4> QED BY <1>2, <4>1, <4>2 DEF Hands, IsWaiting
    <3> QED BY <2>2, <3>1, GripKept
  <2> QED BY <1>3, <2>1, <2>2
<1>5. Queued => Stands(r)
  BY <1>2, <1>3 DEF Queued, Stands, IsWaiting
<1> QED BY <1>3, <1>4, <1>5 DEF Handled, Moved

LEMMA HandLookAt == ASSUME Orders, NEW r \in Requests, LookAt(r) PROVE Handled(r)
<1> DEFINE u == Head(req[r].todo)
           mine == {t \in HeldFor(r, u) : Valid(t)}
<1>1. /\ req[r].pc = "look"
      /\ \/ Forget(r, u) \/ Queue(r, u)
         \/ \E t \in mine : Ready(r, u, t) \/ (~PlaceFree(u) /\ WaitForPlace(r, u, t))
         \/ /\ Verdict(r, u) = "go" /\ mine = {}
            /\ \/ Ready(r, u, TicketOf(r, u))
               \/ ~PlaceFree(u) /\ WaitForPlace(r, u, TicketOf(r, u))
  BY DEF LookAt
<1> HIDE DEF u
<1>2. /\ \A t \in mine : t # NoTicket /\ t[2] = u
      /\ TicketOf(r, u) = NoTicket \/ TicketOf(r, u)[2] = u
  BY TicketsAreNot DEF HeldFor, Valid, Holds, TicketOf
<1>3. CASE Forget(r, u) \/ Queue(r, u)
  BY <1>1, <1>3, HandForget, HandQueue
<1>4. CASE \E t \in mine : Ready(r, u, t) \/ (~PlaceFree(u) /\ WaitForPlace(r, u, t))
  <2>1. PICK t \in mine : Ready(r, u, t) \/ (~PlaceFree(u) /\ WaitForPlace(r, u, t))
    BY <1>4
  <2>2. t # NoTicket /\ t[2] = u /\ IsWaiting(req[r])
    BY <1>1, <1>2 DEF IsWaiting
  <2> HIDE DEF mine
  <2> QED BY <1>1, <2>1, <2>2, HandReady, HandWaitForPlace
<1>5. CASE /\ Verdict(r, u) = "go" /\ mine = {}
           /\ \/ Ready(r, u, TicketOf(r, u))
              \/ ~PlaceFree(u) /\ WaitForPlace(r, u, TicketOf(r, u))
  <2>1. ~\E m \in HeldFor(r, u) : Valid(m)
    BY <1>5
  <2>2. IsWaiting(req[r])
    BY <1>1 DEF IsWaiting
  <2> HIDE DEF mine
  <2> QED BY <1>1, <1>2, <1>5, <2>1, <2>2, HandReady, HandWaitForPlace
<1> QED BY <1>1, <1>3, <1>4, <1>5

LEMMA HandPlaceCame ==
  ASSUME Orders, NEW r \in Requests, NEW u, PlaceCame(r, u) PROVE Handled(r)
<1> DEFINE mine == {t \in HeldFor(r, u) : Valid(t)}
           T == HeldFor(r, u)
           W == [up EXCEPT ![u] = Seen(u)]
<1>1. Fields /\ IsWaiting(req[r])
  BY DEF Orders, PlaceCame, IsWaiting
<1>2. /\ \A t \in mine : t[2] = u
      /\ TicketOf(r, u) = NoTicket \/ TicketOf(r, u)[2] = u
  BY TicketsAreNot DEF HeldFor, TicketOf
<1>3. CASE (\E t \in mine : Ready(r, u, t)) \/ Ready(r, u, TicketOf(r, u))
  <2> HIDE DEF mine
  <2> QED BY <1>1, <1>2, <1>3, HandReady
<1>4. CASE /\ LET d == Round(req[r]) IN
                req' = [req EXCEPT ![r] = [d EXCEPT !.held = d.held \ T]]
           /\ up' = Returned(W, T)
  <2>1. /\ req'[r].pc = "look" /\ req'[r].held = req[r].held \ T
        /\ req'[r].joined = req[r].joined
    BY <1>1, <1>4 DEF Fields, IsRequest, Round
  <2>2. /\ Family(W)
        /\ \A v \in Names : /\ W[v].queue = up[v].queue
                            /\ W[v].probe \in {up[v].probe, NoProbe}
    BY <1>1, SeenUp
  <2> HIDE DEF W, T
  <2>3. \A v \in Names :
          /\ up'[v].queue = up[v].queue
          /\ \/ up'[v].probe = NoProbe
             \/ up'[v].probe = up[v].probe
                /\ (up'[v].probe.at = "unsent" => up'[v].probe.ticket \notin T)
    BY <1>4, <2>2, ReturnedUp
  <2>4. IsWaiting(req'[r])
    BY <2>1 DEF IsWaiting
  <2>5. \A v \in Names : Gripped(v, r)
    BY <1>1, <2>1, <2>3, <2>4, HandWaits
  <2> QED BY <2>1, <2>3, <2>4, <2>5 DEF Handled, Moved, Stands, Queued
<1> QED BY <1>3, <1>4 DEF PlaceCame

LEMMA HandStartWaiting ==
  ASSUME Orders, NEW r \in Requests, StartWaiting(r) PROVE Handled(r)
<1> DEFINE back == req[r].owed \cap ToSet(req[r].waiting)
<1>1. ~IsWaiting(req[r]) /\ req[r].pc # "go" /\ Fields
  BY DEF StartWaiting, IsWaiting, Orders
<1>2. CASE up' = up
  BY <1>1, <1>2, HandQuiet
<1>3. CASE /\ LET d == Round(req[r]) IN
                req' = [req EXCEPT ![r] = [d EXCEPT !.owed = d.owed \ back, !.joined = back]]
           /\ up' = [u \in Names |-> IF u \in back THEN JoinFront(up[u], r) ELSE up[u]]
  <2>1. req'[r].pc = "look" /\ req'[r].joined = back
    BY <1>1, <1>3 DEF Fields, IsRequest, Round
  <2>2. \A v \in Names :
          /\ up'[v].probe = up[v].probe
          /\ up'[v].queue = IF v \in back THEN <<r>> \o Without(up[v].queue, r)
                                          ELSE up[v].queue
    BY <1>1, <1>3 DEF Fields, Family, IsUp, JoinFront
  <2>3. \A v \in Names : Gripped(v, r)
    BY <1>1, <2>2, GripKept DEF Hands
  <2>4. Queued => Stands(r)
    BY <1>1, <2>1, <2>2 DEF Queued, Stands, IsWaiting
  <2> QED BY <2>2, <2>3, <2>4 DEF Handled, Moved
<1> QED BY <1>2, <1>3 DEF StartWaiting

LEMMA HandHop == ASSUME Orders, NEW r \in Requests, Hop(r) PROVE Handled(r)
<1> DEFINE u == Head(req[r].todo)
           t == TicketOf(r, u)
<1>1. ~IsWaiting(req[r]) /\ req[r].pc # "go" /\ Fields
  BY DEF Hop, IsWaiting, Orders
<1>2. CASE /\ LetThrough(r, u, t)
           /\ up' = [up EXCEPT ![u] = WithTicket(Seen(u), t)]
  <2>1. req'[r].pc = "go" /\ req'[r].ticket = t
    BY <1>1, <1>2 DEF LetThrough, NewRequest, Fields
  <2>2. t = NoTicket \/ t[2] = u
    BY TicketsAreNot DEF TicketOf
  <2> HIDE DEF u, t
  <2>3. \A v \in Names :
          /\ up'[v].queue = up[v].queue
          /\ \/ v = u /\ t # NoTicket /\ up'[v].probe = [ticket |-> t, at |-> "unsent"]
             \/ up'[v].probe \in {up[v].probe, NoProbe}
    BY <1>1, <1>2, TicketedUp
  <2>4. ASSUME NEW v \in Names PROVE Gripped(v, r)
    <3>1. CASE v = u /\ t # NoTicket /\ up'[v].probe = [ticket |-> t, at |-> "unsent"]
      BY <2>1, <2>2, <3>1 DEF Gripped, Hands
    <3>2. CASE up'[v].probe \in {up[v].probe, NoProbe}
      BY <1>1, <3>2, GripKept DEF Hands
    <3> QED BY <2>3, <3>1, <3>2
  <2> QED BY <1>1, <2>3, <2>4 DEF Handled, Moved, Stands, Queued
<1>3. CASE up' = [up EXCEPT ![u] = Seen(u)]
  <2> HIDE DEF u
  <2> QED BY <1>1, <1>3, SeenUp, HandQuiet
<1> QED BY <1>2, <1>3 DEF Hop, ChangeUps

LEMMA HandPark == ASSUME Orders, NEW r \in Requests, Park(r) PROVE Handled(r)
<1>1. Fields /\ IsWaiting(req[r]) /\ req[r].pc # "go"
  BY DEF Orders, Park, IsWaiting
<1>2. CASE up' = LeftAll(Returned(up, req[r].held), r)
  BY <1>1, <1>2, HandLeaves DEF Hands
<1>3. CASE /\ req' = [req EXCEPT ![r] = [req[r] EXCEPT !.pc = "parked", !.gone = {}, !.alive = FALSE]]
           /\ up' = up
  <2>1. /\ req'[r].pc = "parked" /\ req'[r].held = req[r].held
        /\ req'[r].joined = req[r].joined
    BY <1>1, <1>3 DEF Fields, IsRequest
  <2>2. \A v \in Names : Gripped(v, r)
    BY <1>3, <2>1, GripKept, <1>1 DEF Hands, IsWaiting
  <2> QED BY <1>3, <2>1, <2>2 DEF Handled, Moved, Stands, Queued, IsWaiting
<1> QED BY <1>2, <1>3 DEF Park, ChangeUps

LEMMA HandAgain == ASSUME Orders, NEW r \in Requests, Again(r) PROVE Handled(r)
<1>1. Fields /\ IsWaiting(req[r]) /\ req[r].pc # "go" /\ up' = up
  BY DEF Orders, Again, IsWaiting
<1>2. /\ req'[r].pc = "look" /\ req'[r].held = req[r].held
      /\ req'[r].joined = req[r].joined
  BY <1>1 DEF Again, Fields, IsRequest, Round
<1>3. \A v \in Names : Gripped(v, r)
  BY <1>1, <1>2, GripKept DEF Hands, IsWaiting
<1> QED BY <1>1, <1>2, <1>3 DEF Handled, Moved, Stands, Queued, IsWaiting

LEMMA HandSend == ASSUME Orders, NEW r \in Requests, Send(r) PROVE Handled(r)
<1> DEFINE t == req[r].ticket
<1>1. /\ Fields /\ req[r].pc = "go"
      /\ up' = [v \in Names |-> IF Holds(up[v], t) THEN SendProbe(up[v]) ELSE up[v]]
  BY DEF Orders, Send, ChangeUps
<1>2. \A v \in Names :
        /\ up'[v].queue = up[v].queue
        /\ \/ up'[v].probe = up[v].probe /\ ~(t # NoTicket /\ up[v].probe.ticket = t)
           \/ up'[v].probe.at = "sent" /\ up'[v].probe.ticket = up[v].probe.ticket
  BY <1>1 DEF Holds, SendProbe, Fields, Family, IsUp, IsProbe
<1>3. ASSUME NEW v \in Names PROVE Gripped(v, r)
  <2>1. CASE up'[v].probe.at = "sent" /\ up'[v].probe.ticket = up[v].probe.ticket
    BY <2>1 DEF Gripped
  <2>2. CASE up'[v].probe = up[v].probe /\ ~(t # NoTicket /\ up[v].probe.ticket = t)
    <3>1. up[v].probe.at = "unsent" => ~Hands(req[r], up[v].probe.ticket)
      BY <1>1, <2>2 DEF Hands, IsWaiting, Orders, InHand
    <3> QED BY <2>2, <3>1 DEF Gripped
  <2> QED BY <1>2, <2>1, <2>2
<1>4. ~IsWaiting(req[r])
  BY <1>1 DEF IsWaiting
<1> QED BY <1>2, <1>3, <1>4 DEF Handled, Moved, Stands, Queued

LEMMA HandNotSent == ASSUME Orders, NEW r \in Requests, NotSent(r) PROVE Handled(r)
<1> DEFINE T == {req[r].ticket} \ {NoTicket}
<1>1. /\ Fields /\ Family(up) /\ req[r].pc = "go" /\ up' = Returned(up, T)
  BY DEF Orders, Fields, NotSent, ChangeUps
<1>2. \A v \in Names :
        /\ up'[v].queue = up[v].queue
        /\ \/ up'[v].probe = NoProbe
           \/ up'[v].probe = up[v].probe
              /\ (up'[v].probe.at = "unsent" => up'[v].probe.ticket \notin T)
  BY <1>1, ReturnedUp
<1>3. ASSUME NEW v \in Names PROVE Gripped(v, r)
  <2>1. up'[v].probe.at = "unsent" => up'[v].probe.ticket # NoTicket
    BY <1>2 DEF Orders, InHand, NoProbe
  <2>2. up'[v].probe.at = "unsent" => up'[v].probe.ticket \notin T
    BY <1>2 DEF NoProbe
  <2>3. \A t : t # NoTicket /\ Hands(req[r], t) => t \in T
    BY <1>1 DEF Hands, IsWaiting
  <2> HIDE DEF T
  <2> QED BY <1>2, <2>1, <2>2, <2>3, GripKept
<1>4. ~IsWaiting(req[r])
  BY <1>1 DEF IsWaiting
<1> QED BY <1>2, <1>3, <1>4 DEF Handled, Moved, Stands, Queued

LEMMA HandGiveUp == ASSUME Orders, NEW r \in Requests, GiveUp(r) PROVE Handled(r)
<1> DEFINE T == req[r].held \cup ({req[r].ticket} \ {NoTicket})
<1>1. CASE up' = LeftAll(Returned(up, T), r)
  <2>1. \A t : t # NoTicket /\ Hands(req[r], t) => t \in T
    BY DEF Hands
  <2> QED BY <1>1, <2>1, HandLeaves
<1>2. CASE /\ req[r].pc = "sent"
           /\ up' = [v \in Names |-> IF up[v].probe.ticket \in T
                                     THEN ReturnTicket(up[v]) ELSE up[v]]
  <2>1. \A v \in Names : /\ up'[v].queue = up[v].queue
                         /\ up'[v].probe \in {up[v].probe, NoProbe}
    BY <1>2 DEF Orders, Fields, Family, IsUp, ReturnTicket
  <2> QED BY <1>2, <2>1, HandQuiet DEF IsWaiting
<1> QED BY <1>1, <1>2 DEF GiveUp, ChangeUps

LEMMA HandVerdict ==
  ASSUME Orders, NEW r \in Requests, Begin(r) \/ Reject(r) \/ Conclude(r) PROVE Handled(r)
<1> DEFINE u == req[r].to
<1>1. ~IsWaiting(req[r]) /\ req[r].pc # "go"
  BY DEF Begin, Reject, Conclude, IsWaiting
<1>2. \/ up' = up
      \/ up' = [up EXCEPT ![u] = Limit(@)]
      \/ up' = [up EXCEPT ![u] = Cleared(@)]
  BY DEF Begin, Reject, Conclude, ChangeUps
<1>3. \A v \in Names : up'[v] \in {up[v], Limit(up[v]), Cleared(up[v])}
  BY <1>2 DEF Orders, Fields, Family
<1>4. \A v \in Names : /\ up'[v].queue = up[v].queue
                       /\ up'[v].probe \in {up[v].probe, NoProbe}
  BY ZenonT(60), <1>3 DEF Orders, Fields, Family, IsUp, Limit, Cleared
<1> QED BY <1>1, <1>4, HandQuiet

LEMMA RequestHandled == ASSUME Orders, NEW r \in Requests, Request(r) PROVE Handled(r)
BY HandVerdict, HandHop, HandStartWaiting, HandLookAt, HandPark, HandAgain, HandPlaceCame,
   HandSend, HandNotSent, HandGiveUp DEF Request, Task, Place

-----------------------------------------------------------------------------
(* Every step keeps them in order *)

(* What NoOvertaking asks of a step.                                       *)
InTurn ==
  \A u \in Names :
    LET q == up[u].queue
        p == up'[u].queue
    IN  \A i \in DOMAIN q, k, m \in DOMAIN p :
          k < m /\ p[m] = q[i] /\ u \notin req[p[k]].owed =>
            \E j \in 1 .. i - 1 : q[j] = p[k]

KeepsOrder == Lines' /\ Placed' /\ InHand' /\ InTurn

LEMMA AllInTurn ==
  ASSUME \A u \in Names :
           \/ Orderly(up[u].queue, up'[u].queue, {})
           \/ \E r : /\ u \in req[r].owed
                     /\ Orderly(up[u].queue, up'[u].queue, {r})
  PROVE  InTurn
<1> SUFFICES ASSUME NEW u \in Names,
                    NEW i \in DOMAIN up[u].queue,
                    NEW k \in DOMAIN up'[u].queue, NEW m \in DOMAIN up'[u].queue,
                    k < m, up'[u].queue[m] = up[u].queue[i],
                    u \notin req[up'[u].queue[k]].owed
             PROVE  \E j \in 1 .. i - 1 : up[u].queue[j] = up'[u].queue[k]
  BY DEF InTurn
<1>1. PICK E : Orderly(up[u].queue, up'[u].queue, E) /\ up'[u].queue[k] \notin E
  <2>1. CASE Orderly(up[u].queue, up'[u].queue, {})
    BY <2>1
  <2>2. CASE \E r : u \in req[r].owed /\ Orderly(up[u].queue, up'[u].queue, {r})
    BY <2>2
  <2> QED BY <2>1, <2>2
<1> QED BY <1>1 DEF Orderly

(* The requests other than r: what they do to wait, and their tickets.     *)
Apart(r) ==
  \A q \in Requests : q # r =>
    /\ req'[q].pc = req[q].pc /\ req'[q].joined = req[q].joined
    /\ req'[q].held = req[q].held /\ req'[q].ticket = req[q].ticket

LEMMA RequestApart == ASSUME Fields, NEW r \in Requests, Request(r) PROVE Apart(r)
<1>1. CASE Reject(r)
  BY <1>1 DEF Reject, Behind, Apart, Fields, IsRequest
<1>2. CASE ~Reject(r)
  <2>1. \E x : req' = [req EXCEPT ![r] = x]
    BY <1>2 DEF Request, Task, Place, Begin, Hop, StartWaiting, LookAt, Park, Again,
       PlaceCame, Send, NotSent, GiveUp, Conclude, Forget, Ready, WaitForPlace, Queue,
       LetThrough
  <2> QED BY <2>1 DEF Apart, Fields
<1> QED BY <1>1, <1>2

LEMMA RequestKeepsOrder ==
  ASSUME Orders, NEW r \in Requests, Request(r)
  PROVE  KeepsOrder /\ (Queued => Queued')
<1>1. Handled(r) /\ Apart(r) /\ Lines
  BY RequestHandled, RequestApart DEF Orders
<1>2. \A u \in Names :
        /\ Lined(up'[u].queue, Requests)
        /\ ToSet(up'[u].queue) \subseteq ToSet(up[u].queue) \cup {r}
        /\ \/ Orderly(up[u].queue, up'[u].queue, {})
           \/ u \in req[r].owed /\ Orderly(up[u].queue, up'[u].queue, {r})
  BY <1>1, MovedFacts DEF Handled
<1>3. Lines' /\ InTurn
  BY <1>2, AllInTurn DEF Lines
<1>4. Placed'
  BY <1>1 DEF Handled, Gripped, Placed, Orders
<1>5. InHand'
  <2> SUFFICES ASSUME NEW u \in Names, up'[u].probe.at = "unsent"
               PROVE  /\ up'[u].probe.ticket # NoTicket
                      /\ \E q \in Requests : Hands(req'[q], up'[u].probe.ticket)
    BY DEF InHand, Hands, IsWaiting
  <2> DEFINE t == up'[u].probe.ticket
  <2>1. CASE t # NoTicket /\ Hands(req'[r], t)
    BY <2>1
  <2>2. CASE up'[u].probe = up[u].probe /\ ~Hands(req[r], t)
    <3>1. PICK q \in Requests : Hands(req[q], t)
      BY <2>2 DEF Orders, InHand
    <3>2. q # r /\ Hands(req'[q], t)
      BY <1>1, <2>2, <3>1 DEF Apart, Hands, IsWaiting
    <3> QED BY <2>2, <3>2 DEF Orders, InHand
  <2> QED BY <1>1, <2>1, <2>2 DEF Handled, Gripped
<1>6. ASSUME Queued PROVE Queued'
  <2> SUFFICES ASSUME NEW u \in Names, NEW q \in ToSet(up'[u].queue)
               PROVE  IsWaiting(req'[q]) /\ u \in req'[q].joined
    BY DEF Queued, IsWaiting
  <2>1. CASE q = r
    BY <1>1, <1>6, <2>1 DEF Handled, Stands
  <2>2. CASE q # r
    <3>1. q \in ToSet(up[u].queue) /\ q \in Requests
      BY <1>2, <2>2, LinedFacts
    <3> QED BY <1>1, <1>6, <2>2, <3>1 DEF Queued, Apart, IsWaiting
  <2> QED BY <2>1, <2>2
<1> QED BY <1>3, <1>4, <1>5, <1>6 DEF KeepsOrder

LEMMA SurroundingsKeepOrder ==
  ASSUME Orders, \/ Clock \/ Reload \/ UNCHANGED vars
                 \/ \E u \in Names : UsageChanges(u) \/ HealthChanges(u)
  PROVE  KeepsOrder /\ (Queued => Queued')
<1>1. /\ req' = req
      /\ \A u \in Names :
           /\ up'[u].queue = up[u].queue
           /\ up'[u].probe.ticket = up[u].probe.ticket
           /\ up'[u].probe.at = "unsent" => up'[u].probe = up[u].probe
  <2>1. CASE Clock
    <3> DEFINE After(u, x) ==
                 \/ x = [up[u] EXCEPT !.paused = FALSE]
                 \/ x = [up[u] EXCEPT !.probe.at = "overdue"]
                 \/ \E k : x = [up[u] EXCEPT !.alarms = @ \ {k}]
    <3>0. PICK u \in Names : \E x : up' = [up EXCEPT ![u] = x] /\ After(u, x)
      BY <2>1 DEF Clock, PauseEnds, GraceEnds, Alarm, ChangeUps, Orders, Fields, Family
    <3>1. PICK x : up' = [up EXCEPT ![u] = x] /\ After(u, x)
      BY <3>0
    <3>2. /\ x.queue = up[u].queue /\ x.probe.ticket = up[u].probe.ticket
          /\ x.probe.at = "unsent" => x.probe = up[u].probe
      BY <3>1 DEF Orders, Fields, Family, IsUp, IsProbe
    <3>3. \A v \in Names : up'[v] = IF v = u THEN x ELSE up[v]
      BY <3>1 DEF Orders, Fields, Family
    <3>4. req' = req
      BY <2>1 DEF Clock, PauseEnds, GraceEnds, Alarm
    <3> QED BY <3>2, <3>3, <3>4
  <2>2. CASE ~Clock
    <3>1. UNCHANGED <<up, req>>
      BY <2>2 DEF Reload, UsageChanges, HealthChanges, vars
    <3> QED BY <3>1
  <2> QED BY <2>1, <2>2
<1>2. Lines' /\ InTurn
  BY <1>1, StayFacts, AllInTurn DEF Orders, Lines
<1>3. Placed' /\ InHand' /\ (Queued => Queued')
  BY <1>1 DEF Orders, Placed, InHand, Queued, Hands, IsWaiting
<1> QED BY <1>2, <1>3 DEF KeepsOrder

LEMMA MergedQueue ==
  ASSUME NEW x, NEW y
  PROVE  Merge(x, y).queue = x.queue \o Among(y.queue, ToSet(y.queue) \ ToSet(x.queue))
BY DEF Merge

(* The queue of the old name goes behind that of the new one, without the  *)
(* requests that are in it; and so does a ticket, if there is none.        *)
LEMMA RenameKeepsOrder == ASSUME Orders, Rename PROVE KeepsOrder
<1>1. Renames /\ {From, To} \subseteq Names \ Limited /\ From # To
  BY RenameAssumption DEF Rename, Orders, Fields
<1>2. up' = [up EXCEPT ![From] = NewUp, ![To] = Merge(@, up[From])]
  BY DEF Rename, ChangeUps
<1>3. /\ up'[From] = NewUp /\ up'[To] = Merge(up[To], up[From])
      /\ \A u \in Names \ {From, To} : up'[u] = up[u]
  BY <1>1, <1>2 DEF Orders, Fields, Family
<1>4. /\ up'[From].queue = <<>> /\ up'[From].probe = NoProbe
      /\ up'[To].probe \in {up[To].probe, up[From].probe}
  BY <1>3 DEF Merge, NewUp
<1>5. /\ Lined(up'[To].queue, Requests) /\ Orderly(up[To].queue, up'[To].queue, {})
  <2> DEFINE q == up[To].queue
             o == up[From].queue
             w == Among(o, ToSet(o) \ ToSet(q))
  <2>1. Lined(q, Requests) /\ Lined(o, Requests)
    BY <1>1 DEF Orders, Lines
  <2>2. Lined(w, Requests) /\ ToSet(w) = ToSet(o) \cap (ToSet(o) \ ToSet(q))
    BY <2>1, AmongFacts
  <2>3. up'[To].queue = q \o w
    BY <1>3, MergedQueue
  <2> HIDE DEF q, o, w
  <2>4. ToSet(q) \cap ToSet(w) = {}
    BY <2>2
  <2>5. Lined(q \o w, Requests) /\ Orderly(q, q \o w, {})
    BY <2>1, <2>2, <2>4, BehindFacts
  <2> QED BY <2>3, <2>5 DEF q
<1>6. Lined(<<>>, Requests) /\ \A q : Orderly(q, <<>>, {})
  BY DEF Lined, IsInjective, Orderly
<1>7. \A u \in Names : /\ Lined(up'[u].queue, Requests)
                       /\ Orderly(up[u].queue, up'[u].queue, {})
  BY <1>1, <1>3, <1>4, <1>5, <1>6, StayFacts DEF Orders, Lines
<1>8. Lines' /\ InTurn
  BY <1>7, AllInTurn DEF Lines
<1>9. \A r \in Requests : \A t : Hands(req'[r], t) = Hands(req[r], t)
  BY DEF Rename, Hands, IsWaiting, Orders, Fields, IsRequest
<1>10. \A u \in Names :
         \/ up'[u].probe = NoProbe \/ up'[u].probe = up[u].probe
         \/ u = To /\ up'[u].probe = up[From].probe
  BY <1>3, <1>4
<1>11. Placed'
  BY <1>1, <1>10 DEF Orders, Placed, NoProbe
<1>12. InHand'
  <2> SUFFICES ASSUME NEW u \in Names, up'[u].probe.at = "unsent"
               PROVE  /\ up'[u].probe.ticket # NoTicket
                      /\ \E q \in Requests : Hands(req'[q], up'[u].probe.ticket)
    BY DEF InHand, Hands, IsWaiting
  <2>1. PICK v \in Names : up'[u].probe = up[v].probe
    BY <1>1, <1>10 DEF NoProbe
  <2> QED BY <1>9, <2>1 DEF Orders, InHand
<1> QED BY <1>8, <1>11, <1>12 DEF KeepsOrder

LEMMA OrderKept ==
  ASSUME Orders, [Next]_vars
  PROVE  Orders' /\ InTurn /\ (~Rename /\ Queued => Queued')
<1>1. Fields'
  BY NextKeeps, RenameKeeps DEF Keeps, Orders
<1>2. KeepsOrder /\ (~Rename /\ Queued => Queued')
  BY RequestKeepsOrder, SurroundingsKeepOrder, RenameKeepsOrder DEF Next
<1> QED BY <1>1, <1>2 DEF KeepsOrder, Orders

LEMMA InitInOrder == Init => Orders /\ Queued
<1> SUFFICES ASSUME Init PROVE Orders /\ Queued
  OBVIOUS
<1>1. \A u \in Names : up[u].queue = <<>> /\ up[u].probe = NoProbe
  BY DEF Init, NewUp
<1>2. Lined(<<>>, Requests) /\ ToSet(<<>>) = {}
  BY DEF Lined, IsInjective, ToSet
<1>3. Placed /\ InHand
  BY <1>1 DEF Placed, InHand, NoProbe
<1> QED BY <1>1, <1>2, <1>3, InitHolds DEF Orders, Lines, Queued

LEMMA OrderHolds == Spec => []Orders
<1>1. Orders /\ [Next]_vars => Orders'
  BY OrderKept
<1> QED BY <1>1, InitInOrder, PTL DEF Spec

(* A ticket that was not sent is in the hands of the request that got it,  *)
(* which will send it or give it back, wherever the ticket is after a      *)
(* rename (Probe, holding and rename in throttle.rs).                      *)
THEOREM TicketsAreInHand == Spec => []TicketsInHand
<1>1. Orders => TicketsInHand
  <2> SUFFICES ASSUME Orders, NEW u \in Names, up[u].probe.at = "unsent"
               PROVE  LET t == up[u].probe.ticket IN Hands(req[t[1]], t)
    BY DEF TicketsInHand, Hands
  <2>1. PICK r \in Requests : Hands(req[r], up[u].probe.ticket)
    BY DEF Orders, InHand
  <2>2. up[u].probe.ticket[1] = r
    BY <2>1 DEF Hands, Orders, InHand, Fields, Owns
  <2> QED BY <2>1, <2>2
<1> QED BY <1>1, OrderHolds, PTL

(* Nobody is left in a queue: who is in one waits (Waiter, leave_all and   *)
(* the end of a Waiter in throttle.rs).  A rename takes a request to the   *)
(* queue of a name that it does not know of: there must be none.           *)
THEOREM NobodyIsLeft == ~Renames /\ Spec => []NobodyLeftInQueue
<1> SUFFICES ASSUME ~Renames PROVE Spec => []NobodyLeftInQueue
  OBVIOUS
<1>1. Orders => ~Rename
  BY DEF Orders, Fields, Rename
<1>2. Orders /\ Queued /\ [Next]_vars => Queued'
  BY <1>1, OrderKept
<1>3. Orders /\ Queued => NobodyLeftInQueue
  BY DEF Orders, Lines, Lined, Queued, NobodyLeftInQueue
<1> QED BY <1>2, <1>3, OrderHolds, InitInOrder, PTL DEF Spec

(* Nobody overtakes who waits, except the request that probed and goes     *)
(* back to the head (join, join_front and rename in throttle.rs).          *)
THEOREM NobodyOvertaken == Spec => NoOvertaking
<1>1. Orders /\ [Next]_vars => [InTurn]_vars
  BY OrderKept
<1>2. Spec => [][InTurn]_vars
  BY <1>1, OrderHolds, PTL DEF Spec
<1> QED BY <1>2 DEF NoOvertaking, InTurn
=============================================================================
