------------------------------ MODULE Throttle ------------------------------
(***************************************************************************)
(* crates/tw-gateway/src/throttle.rs, with the part of the hop loop        *)
(* (server/pipeline/hop.rs) that drives it.                                *)
(*                                                                         *)
(* A request goes through its candidates; one that is rate limited, whose  *)
(* usage window is full or that has no free place is put aside.  When all  *)
(* are put aside the request waits in all of their queues at once          *)
(* (first_ready) and goes where it is let through first.  After a pause    *)
(* one request alone probes the upstream.  An answer to a request sent     *)
(* before the last 429 says nothing about the upstream.                    *)
(*                                                                         *)
(* A request looks at one upstream per step and others act in between; a   *)
(* look and the join or the try for a place that follows it are one step.  *)
(* Time is abstract: a pause or a grace is over at some point, and every   *)
(* sleep ends some time after that.                                        *)
(***************************************************************************)
EXTENDS Ups

CONSTANTS
  Names,        \* names of upstreams
  Limited,      \* the upstreams that serve one request at a time
  Metered,      \* the upstreams with usage limits
  Requests,
  Nobody,       \* no upstream
  Lists,        \* Lists[c]: candidate lists of the configuration c
  From, To,     \* a name, and the name it is changed to
  MaxLimited,   \* bound: how many 429s
  MaxSick,      \* bound: how often an upstream is found unhealthy
  MaxFull,      \* bound: how often a usage limit is reached
  Renames       \* whether From is renamed

Configurations == {"old", "reloaded", "renamed"}

ASSUME NamesAssumption == Limited \cup Metered \subseteq Names /\ Nobody \notin Names
ASSUME ListsAssumption ==
  Lists \in [Configurations -> SUBSET (Seq(Names) \ {<<>>})]
(* A place is kept by name in slots.rs: here the renamed upstream has no   *)
(* limit of that kind.                                                     *)
ASSUME RenameAssumption ==
  Renames \in BOOLEAN /\ (Renames => {From, To} \subseteq Names \ Limited /\ From # To)
ASSUME BoundsAssumption == MaxLimited \in Nat /\ MaxSick \in Nat /\ MaxFull \in Nat

VARIABLES
  up,      \* what is kept of each upstream
  req,     \* the local state of each request
  news,    \* a waiting request: has an upstream it watches changed?
  usage,   \* the usage limit of each upstream
  sick,    \* the upstreams that Health has paused
  cfg,     \* which configuration new requests get
  left     \* what is left of the bounds

vars == <<up, req, news, usage, sick, cfg, left>>

(* A ticket is a number in the code, new for each probe.  Here it says who *)
(* got it, under which name, and whether that was after the rename.        *)
Tickets == Requests \X Names \X BOOLEAN

(* The local state of a request.                                           *)
(*   pc       hop: at its candidates; look: in the loop of wait_ready;     *)
(*            parked: at its select; go: let through; sent                 *)
(*   todo     the upstreams it has yet to look at                          *)
(*   waiting  those it has put aside                                       *)
(*   joined   the queues it believes it is in                              *)
(*   owed     the upstreams where its place at the head is kept            *)
(*   held     tickets it holds while it waits for a place                  *)
(*   full     upstreams it waits on only for a place                       *)
(*   gone     upstreams it no longer waits for                             *)
(*   alive    at the start of this round, some upstream was healthy        *)
(*   timed    it knows when to look again                                  *)
(*   to, ticket   where it is let through, and its ticket if it probes     *)
(*   passed   that upstream has not answered 429 since it let r through    *)
(*   before   of that upstream (and of From, which may become it): those   *)
(*            that answered 429 since r was sent; `sent` in the code is a  *)
(*            time, compared with the time of the last 429                 *)
NewRequest ==
  [pc |-> "idle", todo |-> <<>>, waiting |-> <<>>, joined |-> {}, owed |-> {},
   held |-> {}, full |-> {}, gone |-> {}, alive |-> FALSE, timed |-> FALSE,
   to |-> Nobody, ticket |-> NoTicket, passed |-> FALSE, before |-> {}]

(* r leaves a hop for the next candidate, or is over. *)
HopOver(q) == [q EXCEPT !.pc = "hop", !.to = Nobody, !.ticket = NoTicket,
                        !.passed = FALSE, !.before = {}]
Over == [NewRequest EXCEPT !.pc = "done"]

IsWaiting(q) == q.pc \in {"look", "parked"}
OnItsWay(q) == q.pc \in {"go", "sent"}

Init ==
  /\ up = [u \in Names |-> NewUp]
  /\ req = [r \in Requests |-> NewRequest]
  /\ news = [r \in Requests |-> FALSE]
  /\ usage = [u \in Names |-> "free"]
  /\ sick = {}
  /\ cfg = "old"
  /\ left = [limited |-> MaxLimited, sick |-> MaxSick, full |-> MaxFull]

env == <<usage, sick, cfg, left>>

(***************************************************************************)
(* Waking up.  (A definition Slip... is a slip one could make in the code, *)
(* which the properties must catch; no specification uses one.)            *)
(***************************************************************************)

(* A slip: when the head of a queue leaves, nobody is woken. *)
SlipLoud(x, y) == y.probing # x.probing \/ (x.probe # NoProbe /\ y.probe # x.probe)

(* bump(): the changes that wake those who watch an upstream.              *)
Loud(x, y) ==
  \/ y.probing # x.probing
  \/ x.probe # NoProbe /\ y.probe # x.probe
  \/ x.queue # <<>> /\ Head(x.queue) \notin ToSet(y.queue)

(* The upstreams become U; those of S wake their watchers in any case.  A  *)
(* request watches under the names of its own configuration.               *)
ChangeUps(U, S) ==
  /\ up' = U
  /\ news' = [q \in Requests |->
                /\ IsWaiting(req'[q])
                /\ \/ news[q]
                   \/ \E v \in ToSet(req'[q].waiting) : v \in S \/ Loud(up[v], U[v])]

(* A slip: a ticket is looked for under the name it was taken under. *)
SlipReturned(U, T) ==
  [v \in Names |-> IF U[v].probe.ticket \in {t \in T : t[2] = v} /\ U[v].probe.at = "unsent"
                   THEN ReturnTicket(U[v]) ELSE U[v]]

(* Probes that were not sent are dropped (Probe's Drop), wherever their    *)
(* tickets are by now.                                                     *)
Returned(U, T) ==
  [v \in Names |-> IF U[v].probe.ticket \in T /\ U[v].probe.at = "unsent"
                   THEN ReturnTicket(U[v]) ELSE U[v]]

(* A slip: r leaves only one of its queues. *)
SlipLeftAll(U, r) ==
  IF req[r].joined = {} THEN U
  ELSE [U EXCEPT ![CHOOSE v \in req[r].joined : TRUE] = Leave(@, r)]

(* leave_all *)
LeftAll(U, r) ==
  IF req[r].joined = {} THEN U ELSE [v \in Names |-> Leave(U[v], r)]

(* Waiter::leave, of the one upstream u *)
LeftOne(U, r, u) ==
  IF u \in req[r].joined THEN [U EXCEPT ![u] = Leave(@, r)] ELSE U

PlaceFree(u) ==
  u \in Limited => \A q \in Requests : ~(OnItsWay(req[q]) /\ req[q].to = u)

(***************************************************************************)
(* The candidates.                                                         *)
(***************************************************************************)

Begin(r) ==
  /\ req[r].pc = "idle"
  /\ \E l \in Lists[cfg] : req' = [req EXCEPT ![r] = [req[r] EXCEPT !.pc = "hop", !.todo = l]]
  /\ UNCHANGED <<up, news, env>>

(* gate() settles an overdue probe, except where it finds the usage of the *)
(* period used up before it looks.                                         *)
Seen(u) == IF usage[u] = "period" THEN up[u] ELSE Settle(up[u])
TicketOf(r, u) == IF Seen(u).probing THEN <<r, u, cfg = "renamed">> ELSE NoTicket
WithTicket(x, t) ==
  IF t = NoTicket THEN x ELSE [x EXCEPT !.probe = [ticket |-> t, at |-> "unsent"]]

Verdict(r, u) == Check(Seen(u), usage[u], r)

(* r is let through to u. *)
LetThrough(r, u, t) ==
  req' = [req EXCEPT ![r] =
            [NewRequest EXCEPT
               !.pc = "go", !.to = u, !.ticket = t, !.passed = TRUE, !.owed = req[r].owed,
               !.waiting = Without(req[r].waiting, u),
               !.todo = IF req[r].pc = "hop" THEN Tail(req[r].todo) ELSE <<>>]]

(* The next candidate.  A place it cannot get, it does not wait for: a     *)
(* ticket it took goes back at once.                                       *)
Hop(r) ==
  /\ req[r].pc = "hop" /\ req[r].todo # <<>>
  /\ LET q == req[r]
         u == Head(q.todo)
         says == Verdict(r, u)
     IN \/ /\ says = "go" /\ PlaceFree(u)
           /\ LetThrough(r, u, TicketOf(r, u))
           /\ ChangeUps([up EXCEPT ![u] = WithTicket(Seen(u), TicketOf(r, u))], {})
        \/ /\ ~(says = "go" /\ PlaceFree(u))
           /\ req' = [req EXCEPT ![r] =
                         [q EXCEPT !.todo = Tail(q.todo),
                                   !.waiting = IF says = "used up" THEN q.waiting
                                               ELSE Append(q.waiting, u)]]
           /\ ChangeUps([up EXCEPT ![u] = Seen(u)],
                        IF says = "go" /\ TicketOf(r, u) # NoTicket THEN {u} ELSE {})
  /\ UNCHANGED env

(***************************************************************************)
(* first_ready: waiting for the first upstream that lets r through.        *)
(***************************************************************************)

(* The top of the loop: watch first, then look. *)
Round(q) == [q EXCEPT !.pc = "look", !.todo = q.waiting, !.timed = FALSE, !.full = {},
                      !.gone = {}, !.alive = \E u \in ToSet(q.waiting) : u \notin sick]

(* All candidates are seen.  Nothing was put aside: the request fails.     *)
(* Otherwise r first goes back to the heads that were kept for it.         *)
StartWaiting(r) ==
  /\ req[r].pc = "hop" /\ req[r].todo = <<>>
  /\ LET back == req[r].owed \cap ToSet(req[r].waiting)
         q == Round(req[r])
     IN
       IF req[r].waiting = <<>>
       THEN req' = [req EXCEPT ![r] = Over] /\ UNCHANGED up
       ELSE /\ req' = [req EXCEPT ![r] = [q EXCEPT !.owed = q.owed \ back, !.joined = back]]
            /\ up' = [u \in Names |-> IF u \in back THEN JoinFront(up[u], r) ELSE up[u]]
  /\ news' = [news EXCEPT ![r] = FALSE]
  /\ UNCHANGED env

(* Probe::valid *)
Valid(t) == \E v \in Names : Holds(up[v], t) /\ ~up[v].paused

HeldFor(r, u) == {t \in req[r].held : t[2] = u}

(* u is unhealthy while another is not, or its period is used up: r waits  *)
(* for it no longer.                                                       *)
Forget(r, u) ==
  /\ LET q == req[r] IN
       req' = [req EXCEPT ![r] =
                 [q EXCEPT !.todo = Tail(q.todo), !.gone = q.gone \cup {u},
                           !.held = q.held \ HeldFor(r, u), !.joined = q.joined \ {u}]]
  /\ ChangeUps(LeftOne(Returned(up, HeldFor(r, u)), r, u), {})

(* u lets r through, with ticket t: the tickets of the others go back, and *)
(* r leaves the queues.                                                    *)
Ready(r, u, t) ==
  /\ LetThrough(r, u, t)
  /\ ChangeUps(LeftAll(Returned([up EXCEPT ![u] = WithTicket(Seen(u), t)],
                                req[r].held \ {t}), r), {})

(* u would let r through, but has no place free: r keeps the ticket. *)
WaitForPlace(r, u, t) ==
  /\ LET q == req[r] IN
       req' = [req EXCEPT ![r] =
                 [q EXCEPT !.todo = Tail(q.todo), !.full = q.full \cup {u},
                           !.held = (q.held \ HeldFor(r, u)) \cup ({t} \ {NoTicket})]]
  /\ ChangeUps([up EXCEPT ![u] = WithTicket(Seen(u), t)], {})

(* u does not let r through now: r queues. *)
Queue(r, u) ==
  /\ LET q == req[r] IN
       req' = [req EXCEPT ![r] =
                 [q EXCEPT !.todo = Tail(q.todo), !.joined = q.joined \cup {u},
                           !.held = q.held \ HeldFor(r, u),
                           !.timed = q.timed \/ Verdict(r, u) = "wait until"]]
  /\ LET U == Returned([up EXCEPT ![u] = Seen(u)], HeldFor(r, u))
     IN  ChangeUps([U EXCEPT ![u] = JoinBack(@, r)], {})

LookAt(r) ==
  /\ req[r].pc = "look" /\ req[r].todo # <<>>
  /\ LET u == Head(req[r].todo)
         mine == {t \in HeldFor(r, u) : Valid(t)}
         unfit == req[r].alive /\ u \in sick
     IN \/ unfit /\ Forget(r, u)
        \/ /\ ~unfit /\ mine # {}
           /\ \E t \in mine : IF PlaceFree(u) THEN Ready(r, u, t) ELSE WaitForPlace(r, u, t)
        \/ /\ ~unfit /\ mine = {}
           /\ \/ Verdict(r, u) = "used up" /\ Forget(r, u)
              \/ Verdict(r, u) \in {"wait", "wait until"} /\ Queue(r, u)
              \/ /\ Verdict(r, u) = "go"
                 /\ IF PlaceFree(u) THEN Ready(r, u, TicketOf(r, u))
                                    ELSE WaitForPlace(r, u, TicketOf(r, u))
  /\ UNCHANGED env

(* It has looked at all of them: there is none left to wait for, and it    *)
(* goes back to the hop loop, or it parks at the select.                   *)
Park(r) ==
  /\ req[r].pc = "look" /\ req[r].todo = <<>>
  /\ IF req[r].gone = ToSet(req[r].waiting)
     THEN /\ req' = [req EXCEPT ![r] = [NewRequest EXCEPT !.pc = "hop", !.owed = req[r].owed]]
          /\ ChangeUps(LeftAll(Returned(up, req[r].held), r), {})
     ELSE /\ req' = [req EXCEPT ![r] = [req[r] EXCEPT !.pc = "parked", !.gone = {}, !.alive = FALSE]]
          /\ UNCHANGED <<up, news>>
  /\ UNCHANGED env

(* An upstream changed, or it is time to look again (at most NAP later).   *)
Again(r) ==
  /\ req[r].pc = "parked" /\ (news[r] \/ req[r].timed)
  /\ req' = [req EXCEPT ![r] = Round(@)]
  /\ news' = [news EXCEPT ![r] = FALSE]
  /\ UNCHANGED <<up, env>>

(* A place is free.  Does the upstream still let r through?  If not, the   *)
(* place is given up and r looks again.                                    *)
PlaceCame(r, u) ==
  /\ req[r].pc = "parked" /\ u \in req[r].full /\ PlaceFree(u)
  /\ LET mine == {t \in HeldFor(r, u) : Valid(t)} IN
       \/ \E t \in mine : Ready(r, u, t)
       \/ mine = {} /\ Verdict(r, u) = "go" /\ Ready(r, u, TicketOf(r, u))
       \/ /\ mine = {} /\ Verdict(r, u) # "go"
          /\ LET q == Round(req[r]) IN
               req' = [req EXCEPT ![r] = [q EXCEPT !.held = q.held \ HeldFor(r, u)]]
          /\ up' = Returned([up EXCEPT ![u] = Seen(u)], HeldFor(r, u))
          /\ news' = [q \in Requests |->
                        /\ q # r
                        /\ IsWaiting(req[q])
                        /\ \/ news[q]
                           \/ \E v \in ToSet(req[q].waiting) : Loud(up[v], up'[v])]
  /\ UNCHANGED env

(***************************************************************************)
(* Sending, and what comes of it.                                          *)
(***************************************************************************)

Send(r) ==
  /\ req[r].pc = "go"
  /\ req' = [req EXCEPT ![r].pc = "sent"]
  /\ ChangeUps([v \in Names |-> IF Holds(up[v], req[r].ticket) THEN SendProbe(up[v]) ELSE up[v]], {})
  /\ UNCHANGED env

(* It cannot be sent (no credentials, a conversion fails): the next one.   *)
NotSent(r) ==
  /\ req[r].pc = "go"
  /\ req' = [req EXCEPT ![r] = HopOver(@)]
  /\ ChangeUps(Returned(up, {req[r].ticket} \ {NoTicket}), {})
  /\ UNCHANGED env

(* A 429 of u, for another request q that was let through or sent. *)
Behind(q, u) ==
  [q EXCEPT !.passed = @ /\ q.to # u,
            !.before = IF q.pc = "sent" /\ (u = q.to \/ (Renames /\ u = From))
                       THEN @ \cup {u} ELSE @]

(* 429: limited().  A request that probed keeps its place at the head for  *)
(* the next time it waits (keep_place).                                    *)
Reject(r) ==
  /\ req[r].pc = "sent" /\ left.limited > 0
  /\ LET u == req[r].to IN
       /\ req' = [q \in Requests |->
                    IF q # r THEN Behind(req[q], u)
                    ELSE [HopOver(req[r]) EXCEPT
                            !.waiting = Append(@, u),
                            !.owed = IF req[r].ticket = NoTicket THEN @ ELSE @ \cup {u}]]
       /\ ChangeUps([up EXCEPT ![u] = Limit(@)], {u})
  /\ left' = [left EXCEPT !.limited = @ - 1]
  /\ UNCHANGED <<usage, sick, cfg>>

(* A slip: every answer counts, also one to a request sent before the 429. *)
SlipConclude(r) ==
  /\ req[r].pc = "sent"
  /\ \E q \in {Over, HopOver(req[r])} : req' = [req EXCEPT ![r] = q]
  /\ ChangeUps([up EXCEPT ![req[r].to] = Cleared(@)], {})
  /\ UNCHANGED env

(* An answer that is not a 429 (answered), or none at all (released): it   *)
(* ends the probing, unless r was sent before the last 429.  That was the  *)
(* answer, or r goes on with the next candidate.                           *)
Conclude(r) ==
  /\ req[r].pc = "sent"
  /\ \E q \in {Over, HopOver(req[r])} : req' = [req EXCEPT ![r] = q]
  /\ LET u == req[r].to IN
       ChangeUps(IF u \in req[r].before THEN up ELSE [up EXCEPT ![u] = Cleared(@)], {})
  /\ UNCHANGED env

(* The deadline passes, or the client goes away: r drops all it has.  Of a *)
(* probe that is under way the ticket stays until its grace is over; if    *)
(* the user aborted r, it is given back (withdraw).                        *)
GiveUp(r) ==
  /\ req[r].pc \in {"hop", "look", "parked", "go", "sent"}
  /\ req' = [req EXCEPT ![r] = Over]
  /\ LET tickets == req[r].held \cup ({req[r].ticket} \ {NoTicket}) IN
       \/ ChangeUps(LeftAll(Returned(up, tickets), r), {})
       \/ /\ req[r].pc = "sent"
          /\ ChangeUps([v \in Names |-> IF up[v].probe.ticket \in tickets
                                        THEN ReturnTicket(up[v]) ELSE up[v]], {})
  /\ UNCHANGED env

(***************************************************************************)
(* Time, and the background tasks.                                         *)
(***************************************************************************)

PauseEnds(u) ==
  /\ up[u].paused
  /\ up' = [up EXCEPT ![u].paused = FALSE]
  /\ UNCHANGED <<req, news, env>>

GraceEnds(u) ==
  /\ up[u].probe.at = "sent"
  /\ up' = [up EXCEPT ![u].probe.at = "overdue"]
  /\ UNCHANGED <<req, news, env>>

(* at(): it sleeps until the time is over, and then wakes the queue.       *)
Alarm(u) ==
  /\ UNCHANGED req
  /\ \E k \in up[u].alarms :
       /\ k = "pause" => ~up[u].paused
       /\ k = "grace" => up[u].probe.at # "sent"
       /\ ChangeUps([up EXCEPT ![u].alarms = @ \ {k}], {u})
  /\ UNCHANGED env

(***************************************************************************)
(* The surroundings.                                                       *)
(***************************************************************************)

(* A usage limit is reached, or there is room again (upstream_limits.rs,   *)
(* external here); a parked request is told.                               *)
UsageChanges(u) ==
  /\ u \in Metered
  /\ \E s \in {"free", "window", "period"} :
       /\ s # usage[u] /\ (s # "free" => left.full > 0)
       /\ usage' = [usage EXCEPT ![u] = s]
       /\ left' = IF s = "free" THEN left ELSE [left EXCEPT !.full = @ - 1]
  /\ news' = [q \in Requests |->
                news[q] \/ (req[q].pc = "parked" /\ u \in ToSet(req[q].waiting))]
  /\ UNCHANGED <<up, req, sick, cfg>>

(* Health pauses an upstream, or the pause is over; nobody who waits is    *)
(* told.                                                                   *)
HealthChanges(u) ==
  /\ \/ /\ u \notin sick /\ left.sick > 0
        /\ sick' = sick \cup {u} /\ left' = [left EXCEPT !.sick = @ - 1]
     \/ u \in sick /\ sick' = sick \ {u} /\ UNCHANGED left
  /\ UNCHANGED <<up, req, news, usage, cfg>>

(* A rename is two steps: the new configuration is in force ...            *)
Reload ==
  /\ Renames /\ cfg = "old"
  /\ cfg' = "reloaded"
  /\ UNCHANGED <<up, req, news, usage, sick, left>>

(* ... and then what is kept under the old name moves (rename()).          *)
Rename ==
  /\ cfg = "reloaded"
  /\ cfg' = "renamed"
  /\ req' = [q \in Requests |->
               [req[q] EXCEPT !.before = IF From \in @ THEN (@ \ {From}) \cup {To} ELSE @]]
  /\ ChangeUps([up EXCEPT ![From] = NewUp, ![To] = Merge(@, up[From])], {From, To})
  /\ UNCHANGED <<usage, sick, left>>

(* What the task of a request does of itself, and what time does. *)
Task(r) == Hop(r) \/ StartWaiting(r) \/ LookAt(r) \/ Park(r) \/ Again(r) \/ Send(r) \/ Conclude(r)
Place(r) == \E u \in Names : PlaceCame(r, u)
Clock == \E u \in Names : PauseEnds(u) \/ GraceEnds(u) \/ Alarm(u)
Recover == \E u \in Names : UsageChanges(u) /\ usage'[u] = "free"

Request(r) == Begin(r) \/ Task(r) \/ Place(r) \/ NotSent(r) \/ Reject(r) \/ GiveUp(r)

Next ==
  \/ \E r \in Requests : Request(r)
  \/ Clock
  \/ \E u \in Names : UsageChanges(u) \/ HealthChanges(u)
  \/ Reload \/ Rename

Spec == Init /\ [][Next]_vars

(* Tasks that are ready run, an answer or its timeout comes, time passes,  *)
(* and a usage window has room again some day.  Nobody need begin, give    *)
(* up, fall ill or be renamed.                                             *)
Fairness ==
  /\ \A r \in Requests : WF_vars(Task(r)) /\ WF_vars(Place(r))
  /\ WF_vars(Clock) /\ WF_vars(Recover)

FairSpec == Spec /\ Fairness

(***************************************************************************)
(* Properties.                                                             *)
(***************************************************************************)

(* Every variable has its shape, and a probe exists only while probing.    *)
TypeOK ==
  /\ up \in [Names -> UpType(Requests, Tickets)]
  /\ \A u \in Names : up[u].probe # NoProbe => up[u].probing
  /\ \A r \in Requests :
       /\ req[r].pc \in {"idle", "hop", "look", "parked", "go", "sent", "done"}
       /\ {req[r].todo, req[r].waiting} \subseteq Seq(Names)
       /\ UNION {req[r].joined, req[r].owed, req[r].full, req[r].gone} \subseteq Names
       /\ req[r].held \subseteq Tickets
       /\ req[r].ticket \in Tickets \cup {NoTicket}
       /\ (req[r].to \in Names) = OnItsWay(req[r])
       /\ req[r].before \subseteq Names
  /\ news \in [Requests -> BOOLEAN]
  /\ usage \in [Names -> {"free", "window", "period"}]
  /\ sick \subseteq Names
  /\ cfg \in Configurations

(* After a 429, and until there is a verdict, one request alone is let     *)
(* through: of those let through since, there is at most the one that has  *)
(* the ticket (the module comment; check()).                               *)
OneProbes ==
  \A u \in Names : up[u].probing =>
    \A r \in Requests : OnItsWay(req[r]) /\ req[r].to = u /\ req[r].passed
                          => Holds(up[u], req[r].ticket)

(* A ticket that was not sent is in the hands of somebody who will send it *)
(* or give it back, also after a rename: otherwise the upstream would not  *)
(* let another request through for ever (the comments on Probe, holding).  *)
TicketsInHand ==
  \A u \in Names : up[u].probe.at = "unsent" =>
    LET t == up[u].probe.ticket IN
      \/ IsWaiting(req[t[1]]) /\ t \in req[t[1]].held
      \/ req[t[1]].pc = "go" /\ req[t[1]].ticket = t

(* Whoever is in a queue is a request that waits: "dropping it leaves      *)
(* every queue it is in" (the comments on waiter and Waiter).  It does not *)
(* hold if an upstream is renamed; see the README.                         *)
NobodyLeftInQueue ==
  \A u \in Names :
    /\ IsInjective(up[u].queue)
    /\ \A r \in ToSet(up[u].queue) : IsWaiting(req[r])

(* Nobody who waits is overtaken in a queue, neither by who waits behind    *)
(* nor by who comes later, but by a request that probed and goes back to    *)
(* the head ("first come first served").                                    *)
NoOvertaking ==
  [][\A u \in Names :
       LET q == up[u].queue
           p == up'[u].queue
       IN  \A i \in DOMAIN q, k, m \in DOMAIN p :
             k < m /\ p[m] = q[i] /\ u \notin req[p[k]].owed =>
               \E j \in 1 .. i - 1 : q[j] = p[k]]_vars

(* Probing ends with a verdict of a request sent after the last 429, or    *)
(* with a probe whose grace is over, and with nothing else (a rename takes *)
(* it to the new name): a long answer to a request sent before it does not *)
(* open the upstream to everybody (the comments on answered and released). *)
OnlyVerdictsOpen ==
  [][\A u \in Names :
       up[u].probing /\ ~up'[u].probing =>
         \/ up[u].probe.at = "overdue"
         \/ cfg' # cfg
         \/ \E r \in Requests : /\ req[r].pc = "sent" /\ req'[r].pc # "sent"
                                /\ req[r].to = u /\ u \notin req[r].before]_vars

(* A request that waits goes on: it is let through or has nothing to wait  *)
(* for any more.  No wake-up is lost between its look and its select, none *)
(* when a ticket is given back or a head leaves the queue.                 *)
WaitEnds == \A r \in Requests : IsWaiting(req[r]) ~> ~IsWaiting(req[r])
=============================================================================
