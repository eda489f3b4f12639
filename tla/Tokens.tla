------------------------------- MODULE Tokens -------------------------------
(***************************************************************************)
(* The access tokens of an upstream with an OAuth login: the cache of      *)
(* oauth.rs, the task that writes rotated tokens back to config.yaml       *)
(* (rotation.rs), and what a core and its successor tell each other of     *)
(* them.                                                                   *)
(*                                                                         *)
(* The token endpoint numbers what it issues.  Number n stands for both    *)
(* the access token and the refresh token it issues at that time, and 0    *)
(* for none.  A refresh token with which a newer one was obtained is used  *)
(* up; an endpoint that sees one again ends the login.                     *)
(***************************************************************************)
EXTENDS Naturals, Sequences, SequencesExt, FiniteSetsExt

CONSTANTS
  Requests,   \* requests to the upstream
  MaxTokens,  \* bound: how often tokens are issued
  Worlds      \* sets of what may happen, one of which holds for ever

ASSUME TokensAssumption ==
  /\ MaxTokens \in Nat \ {0}
  /\ Worlds \subseteq SUBSET {"successor",  \* a new core takes over
                              "slow",       \* without waiting for its predecessor
                              "behind",     \* without having read the file again
                              "crash",      \* the core dies and is started again
                              "edit",       \* the user signs in again
                              "fail",       \* exchanges and write-backs fail
                              "keeps",      \* the endpoint may issue no refresh token
                              "leave",      \* clients leave
                              "long"}       \* requests outlive the tokens of their time

Cores  == {1, 2}   \* a core and its successor
Tokens == 1..MaxTokens

VARIABLES
  world,    \* what may happen
  issued,   \* the number of the last token
  signedIn, \* the number with which the newest login began
  age,      \* of a token: young (FRESH_ENOUGH), good, late (to be renewed)
  file,     \* config.yaml: its refresh token and its access token
  cfg,      \* of a core: the configuration in force
  live,     \* of a core: Cache::inner
  flight,   \* of a core: who holds Cache::flights
  held,     \* of a core: Cache::held, renewals are paused
  queue,    \* of a core: the channel to the task that writes back
  writes,   \* of a core: whether that task runs
  told,     \* of a core: writeback_failed, shown in the interface
  stage,    \* how far the handover is
  snapshot, \* what the predecessor exported last
  req       \* the requests

tokens   == <<issued, signedIn, age>>
cores    == <<cfg, live, flight, held>>
back     == <<file, queue, writes, told>>
handover == <<stage, snapshot>>
vars     == <<world, tokens, cores, back, handover, req>>

-----------------------------------------------------------------------------
None == [fp |-> 0, access |-> 0, refresh |-> 0, own |-> FALSE, now |-> FALSE, failed |-> "no"]
Idle == [pc |-> "idle", core |-> 1, cfg |-> [refresh |-> 0, access |-> 0],
         token |-> 0, mark |-> 0, old |-> 0, ask |-> 0, got |-> 0, rotated |-> FALSE]

Config(n, a) == [refresh |-> n, access |-> a]

NoSnapshot == [by |-> Config(0, 0), live |-> None]

Init ==
  /\ world \in Worlds
  /\ issued = 1 /\ signedIn = 1 /\ age = [n \in Tokens |-> "good"]
  /\ file \in {Config(1, 0), Config(1, 1)}
  /\ cfg = [c \in Cores |-> file] /\ live = [c \in Cores |-> None]
  /\ flight = [c \in Cores |-> {}] /\ held = [c \in Cores |-> FALSE]
  /\ queue = [c \in Cores |-> <<>>] /\ writes = [c \in Cores |-> c = 1]
  /\ told = [c \in Cores |-> FALSE]
  /\ stage = "alone" /\ snapshot = NoSnapshot
  /\ req = [r \in Requests |-> Idle]

Active(r)  == req[r].pc # "idle"
Exists(c)  == c = 1 \/ stage \notin {"alone", "asked"}
Drains(c)  == c = 1 /\ stage \in {"committed", "drained"}
Accepts(c) == IF c = 1 THEN ~Drains(c)
              ELSE stage \in {"adopted", "committed", "drained"}

-----------------------------------------------------------------------------
(* The cache. *)

(* Slips: any configuration may use it; only the one it came from may. *)
SlipAny(l, k)    == l # None
SlipUsable(l, k) == l # None /\ l.fp = k.refresh

(* Live::usable_for: it came from this configuration, or its refresh token *)
(* has been written back to it since.                                      *)
UsableFor(l, k) == l # None /\ (l.fp = k.refresh \/ l.refresh = k.refresh)

Due(l) == l.now \/ (l.access # 0 /\ age[l.access] = "late")

FromConfig(k) ==
  [None EXCEPT !.fp = k.refresh, !.access = k.access, !.refresh = k.refresh]

(* What Cache::cached finds for a configuration. *)
BacksOff(l, k) == UsableFor(l, k) /\ l.failed = "wait"
InHand(l, k)   == UsableFor(l, k) /\ l.failed # "wait" /\ ~Due(l) /\ l.access # 0
InConfig(l, k) == ~UsableFor(l, k) /\ k.access # 0 /\ age[k.access] # "late"

Ends(r) == req' = [req EXCEPT ![r] = Idle]

(* A request goes to the upstream with an access token; it does not go     *)
(* again with the one that was not accepted.                               *)
Gets(r, a) ==
  IF a = req[r].old THEN Ends(r)
  ELSE req' = [req EXCEPT ![r].pc = "sent", ![r].token = a,
                          ![r].mark = IF req[r].old = 0 THEN issued ELSE 0,
                          ![r].ask = 0, ![r].got = 0, ![r].rotated = FALSE]

(* A request that finds a token goes with it; one that finds that the last *)
(* exchange failed is done with this upstream.                             *)
FromCache(r, c, k) ==
  \/ BacksOff(live[c], k) /\ Ends(r) /\ UNCHANGED live
  \/ InHand(live[c], k) /\ Gets(r, live[c].access) /\ UNCHANGED live
  \/ /\ InConfig(live[c], k)
     /\ live' = [live EXCEPT ![c] = FromConfig(k)]
     /\ Gets(r, k.access)

NotInCache(c, k) == ~(BacksOff(live[c], k) \/ InHand(live[c], k) \/ InConfig(live[c], k))

(* Cache::refresh up to the exchange.  While renewals are paused a request *)
(* gets what there is.                                                     *)
Renew(r, c, k) ==
  LET known == UsableFor(live[c], k)
      there == IF known /\ live[c].access # 0 THEN live[c].access ELSE k.access
  IN \/ /\ held[c] /\ UNCHANGED flight
        /\ IF there = 0 THEN Ends(r) ELSE Gets(r, there)
     \/ /\ ~held[c] /\ flight' = [flight EXCEPT ![c] = {r}]
        /\ req' = [req EXCEPT ![r].pc = "asks", ![r].mark = 0,
                              ![r].ask = IF known THEN live[c].refresh ELSE k.refresh]

-----------------------------------------------------------------------------
(* Requests. *)

Others == <<world, tokens, cfg, held, back, handover>>

(* A request takes the configuration in force, for as long as it runs. *)
Start(r) == \E c \in Cores :
  /\ ~Active(r) /\ Accepts(c)
  /\ req' = [req EXCEPT ![r].pc = "starts", ![r].core = c, ![r].cfg = cfg[c]]
  /\ UNCHANGED <<Others, live, flight>>

(* Cache::token before it queues for the flight ... *)
Look(r) ==
  LET c == req[r].core  k == req[r].cfg IN
  /\ req[r].pc = "starts"
  /\ \/ FromCache(r, c, k)
     \/ /\ NotInCache(c, k) /\ UNCHANGED live
        /\ req' = [req EXCEPT ![r].pc = "waits"]
  /\ UNCHANGED <<Others, flight>>

(* ... and when it has it: another may have renewed the token meanwhile. *)
Board(r) ==
  LET c == req[r].core  k == req[r].cfg IN
  /\ req[r].pc = "waits" /\ flight[c] = {}
  /\ \/ FromCache(r, c, k) /\ UNCHANGED flight
     \/ NotInCache(c, k) /\ Renew(r, c, k) /\ UNCHANGED live
  /\ UNCHANGED Others

(* The upstream does not accept the token: once. *)
Reject(r) ==
  /\ req[r].pc = "sent" /\ req[r].old = 0
  /\ req' = [req EXCEPT ![r].pc = "again", ![r].old = req[r].token, ![r].token = 0]
  /\ UNCHANGED <<Others, live, flight>>

(* The token was renewed since the request went, or is fresh. *)
JustRenewed(r, l) ==
  /\ l.access # 0 /\ l.own /\ (l.access > req[r].mark \/ age[l.access] = "young")
  /\ l.failed = "no" /\ ~Due(l)

(* Cache::invalidate_and_refresh. *)
Invalidate(r) ==
  LET c == req[r].core  k == req[r].cfg  l == live[c] IN
  /\ req[r].pc = "again" /\ flight[c] = {}
  /\ \/ /\ UsableFor(l, k) /\ JustRenewed(r, l)
        /\ Gets(r, l.access) /\ UNCHANGED <<live, flight>>
     \/ /\ UsableFor(l, k) /\ ~JustRenewed(r, l)
        /\ live' = [live EXCEPT ![c].now = TRUE, ![c].failed = "no"]
        /\ Renew(r, c, k)
     \/ ~UsableFor(l, k) /\ Renew(r, c, k) /\ UNCHANGED live
  /\ UNCHANGED Others

(* The token endpoint issues an access token, and mostly a refresh token. *)
Issue(r, rotated) ==
  /\ req[r].pc = "asks" /\ issued < MaxTokens
  /\ rotated \/ "keeps" \in world
  /\ issued' = issued + 1 /\ age' = [age EXCEPT ![issued + 1] = "young"]
  /\ req' = [req EXCEPT ![r].pc = "told", ![r].got = issued + 1, ![r].rotated = rotated]
  /\ UNCHANGED <<world, signedIn, cores, back, handover>>

(* A slip: what finds no task or no room is dropped. *)
SlipHandOn(c, access, refresh) ==
  /\ UNCHANGED told
  /\ \/ writes[c] /\ queue' = [queue EXCEPT ![c] = Append(@, Config(refresh, access))]
     \/ ~writes[c] /\ UNCHANGED queue
     \/ "fail" \in world /\ UNCHANGED queue

(* What goes to the task that writes back.  When there is no task, or the  *)
(* upstreams have filled its channel, a lost refresh token is shown.       *)
HandOn(c, access, refresh) ==
  \/ /\ writes[c] /\ UNCHANGED told
     /\ queue' = [queue EXCEPT ![c] = Append(@, Config(refresh, access))]
  \/ /\ ~writes[c] \/ "fail" \in world
     /\ told' = [told EXCEPT ![c] = @ \/ refresh # 0] /\ UNCHANGED queue

(* The end of Cache::refresh, and settle_token. *)
Arrive(r) ==
  LET c == req[r].core  k == req[r].cfg  n == req[r].got  new == req[r].rotated IN
  /\ req[r].pc = "told"
  /\ live' = [live EXCEPT ![c] = [None EXCEPT
        !.fp = k.refresh, !.access = n, !.own = TRUE,
        !.refresh = IF new THEN n ELSE req[r].ask]]
  /\ flight' = [flight EXCEPT ![c] = {}]
  /\ HandOn(c, n, IF new THEN n ELSE 0)
  /\ Gets(r, n)
  /\ UNCHANGED <<world, tokens, cfg, held, file, writes, handover>>

(* The exchange fails, or what was issued does not arrive. *)
Fail(r) ==
  LET c == req[r].core  k == req[r].cfg IN
  /\ "fail" \in world /\ req[r].pc \in {"asks", "told"}
  /\ live' = [live EXCEPT ![c] =
        [IF @ = None THEN [None EXCEPT !.refresh = req[r].ask, !.now = TRUE] ELSE @
         EXCEPT !.fp = k.refresh, !.failed = "wait"]]
  /\ flight' = [flight EXCEPT ![c] = {}] /\ Ends(r)
  /\ UNCHANGED Others

(* The client leaves, and with it goes the future that renews the token. *)
Leave(r) ==
  LET c == req[r].core IN
  /\ "leave" \in world /\ Active(r) /\ req[r].pc # "sent"
  /\ flight' = [flight EXCEPT ![c] = @ \ {r}] /\ Ends(r)
  /\ UNCHANGED <<Others, live>>

Finish(r) == req[r].pc = "sent" /\ Ends(r) /\ UNCHANGED <<Others, live, flight>>

-----------------------------------------------------------------------------
(* Time. *)

(* Tokens live for an hour and are fresh for a minute: what is done about  *)
(* one is written and read again by then, and whoever took the             *)
(* configuration before that is done.                                      *)
Quiet ==
  /\ \A c \in Cores : queue[c] = <<>> /\ (Exists(c) /\ ~Drains(c) => cfg[c] = file)
  /\ \A r \in Requests :
       /\ req[r].pc # "told"
       /\ Active(r) /\ ~Drains(req[r].core) => req[r].cfg = cfg[req[r].core]

Ripen(n) ==
  /\ n <= issued /\ age[n] = "young" /\ (Quiet \/ "long" \in world)
  /\ age' = [age EXCEPT ![n] = "good"]
  /\ UNCHANGED <<world, issued, signedIn, cores, back, handover, req>>

Lapse(n) ==
  /\ n <= issued /\ age[n] = "good" /\ (Quiet \/ "long" \in world)
  /\ age' = [age EXCEPT ![n] = "late"]
  /\ UNCHANGED <<world, issued, signedIn, cores, back, handover, req>>

(* BACKOFF, or EXPIRED_BACKOFF, is over. *)
Relent(c) ==
  /\ live[c].failed = "wait"
  /\ live' = [live EXCEPT ![c].failed = "over"]
  /\ UNCHANGED <<Others, flight, req>>

-----------------------------------------------------------------------------
(* The file. *)

(* rotation.rs, once: what is in the file now, with the renewed tokens.    *)
(* ConfigManager::write puts a text that differs in force in this core at  *)
(* once; the other core reads it when its watcher has noticed it.          *)
WriteBack(c) ==
  /\ queue[c] # <<>>
  /\ LET new == Head(queue[c]) IN
       /\ file' = Config(IF new.refresh = 0 THEN file.refresh ELSE new.refresh, new.access)
       /\ told' = [told EXCEPT ![c] = @ /\ new.refresh = 0]
  /\ cfg' = IF file' = file THEN cfg ELSE [cfg EXCEPT ![c] = file']
  /\ queue' = [queue EXCEPT ![c] = Tail(@)]
  /\ UNCHANGED <<world, tokens, live, flight, held, writes, handover, req>>

(* The file cannot be written, TRIES times. *)
GiveUp(c) ==
  /\ "fail" \in world /\ queue[c] # <<>>
  /\ told' = [told EXCEPT ![c] = @ \/ Head(queue[c]).refresh # 0]
  /\ queue' = [queue EXCEPT ![c] = Tail(@)]
  /\ UNCHANGED <<world, tokens, cores, file, writes, handover, req>>

Watches(c) == Exists(c) /\ ~(c = 1 /\ stage = "drained")

(* The watcher of a core notices that the file changed, and it is read. *)
Reload(c) ==
  /\ Watches(c) /\ cfg[c] # file
  /\ cfg' = [cfg EXCEPT ![c] = file]
  /\ UNCHANGED <<world, tokens, live, flight, held, back, handover, req>>

(* The user signs in again while nothing is in hand, and the file is read. *)
SignIn(a) ==
  /\ "edit" \in world /\ issued < MaxTokens /\ Quiet
  /\ issued' = issued + 1 /\ signedIn' = issued + 1
  /\ file' = Config(issued + 1, a)
  /\ cfg' = [c \in Cores |-> file']
  /\ a \in {0, issued + 1}
  /\ \A r \in Requests : ~Active(r)
  /\ UNCHANGED <<world, age, live, flight, held, queue, writes, told, handover, req>>

-----------------------------------------------------------------------------
(* The core dies, and is started again. *)
Restart(c) ==
  /\ "crash" \in world /\ stage = IF c = 1 THEN "alone" ELSE "drained"
  /\ live' = [live EXCEPT ![c] = None] /\ flight' = [flight EXCEPT ![c] = {}]
  /\ cfg' = [cfg EXCEPT ![c] = file]
  /\ queue' = [queue EXCEPT ![c] = <<>>] /\ told' = [told EXCEPT ![c] = FALSE]
  /\ req' = [r \in Requests |-> IF req[r].core = c THEN Idle ELSE req[r]]
  /\ UNCHANGED <<world, tokens, held, file, writes, handover>>

-----------------------------------------------------------------------------
(* The handover, as far as it is about tokens. *)

Exported(c) == [by |-> cfg[c], live |-> IF UsableFor(live[c], cfg[c]) THEN live[c] ELSE None]

(* handover_import: what the configuration here knows. *)
Imported(c, k) ==
  LET e == snapshot.live IN
  IF e # None /\ (snapshot.by.refresh = k.refresh \/ e.refresh = k.refresh)
  THEN [e EXCEPT !.fp = k.refresh] ELSE live[c]

Steps(from, to) == stage = from /\ stage' = to

(* A successor asks for a snapshot ... *)
Ask ==
  /\ "successor" \in world /\ Steps("alone", "asked") /\ snapshot' = Exported(1)
  /\ UNCHANGED <<world, tokens, cores, back, req>>

(* ... loads the configuration, pauses its renewals and takes it over. *)
Load ==
  /\ Steps("asked", "started")
  /\ cfg' = [cfg EXCEPT ![2] = file] /\ held' = [held EXCEPT ![2] = TRUE]
  /\ live' = [live EXCEPT ![2] = Imported(2, file)] /\ snapshot' = NoSnapshot
  /\ UNCHANGED <<world, tokens, flight, back, req>>

(* hold_renewals_settled of the predecessor. *)
Pause ==
  /\ Steps("started", "paused") /\ held' = [held EXCEPT ![1] = TRUE]
  /\ UNCHANGED <<world, tokens, cfg, live, flight, back, snapshot, req>>

(* A slip: nobody waits for the renewals that run. *)
SlipYield ==
  /\ Steps("paused", "yielded") /\ snapshot' = Exported(1)
  /\ UNCHANGED <<world, tokens, cores, back, req>>

(* The renewals and the write-backs that ran are done: a second snapshot. *)
Yield ==
  /\ Steps("paused", "yielded")
  /\ (flight[1] = {} /\ queue[1] = <<>>) \/ "slow" \in world
  /\ snapshot' = Exported(1)
  /\ UNCHANGED <<world, tokens, cores, back, req>>

(* The successor takes it over, as far as its own configuration knows the  *)
(* login, and accepts requests, still paused.                              *)
Adopt ==
  /\ Steps("yielded", "adopted")
  /\ cfg[2] = file \/ "behind" \in world
  /\ live' = [live EXCEPT ![2] = Imported(2, cfg[2])] /\ snapshot' = NoSnapshot
  /\ UNCHANGED <<world, tokens, cfg, flight, held, back, req>>

(* The successor commits: the predecessor accepts no more. *)
Commit ==
  /\ Steps("adopted", "committed") /\ held' = [held EXCEPT ![2] = FALSE]
  /\ UNCHANGED <<world, tokens, cfg, live, flight, back, snapshot, req>>

(* The background tasks of the one stop, those of the other start. *)
Drain ==
  /\ Steps("committed", "drained")
  /\ queue[1] = <<>> \/ "slow" \in world
  /\ writes' = [c \in Cores |-> c = 2] /\ queue' = [queue EXCEPT ![1] = <<>>]
  /\ UNCHANGED <<world, tokens, cores, file, told, snapshot, req>>

(* The successor goes before it commits, or the predecessor gives up on it. *)
Abandon ==
  /\ stage \notin {"alone", "committed", "drained"} /\ stage' = "alone"
  /\ held' = [c \in Cores |-> FALSE] /\ live' = [live EXCEPT ![2] = None]
  /\ flight' = [flight EXCEPT ![2] = {}]
  /\ req' = [r \in Requests |-> IF req[r].core = 2 THEN Idle ELSE req[r]]
  /\ snapshot' = NoSnapshot /\ cfg' = [cfg EXCEPT ![2] = cfg[1]]
  /\ UNCHANGED <<world, tokens, back>>

-----------------------------------------------------------------------------
Own(r) ==
  \/ Start(r) \/ Look(r) \/ Board(r) \/ Reject(r) \/ Invalidate(r)
  \/ (\E rotated \in BOOLEAN : Issue(r, rotated))
  \/ Arrive(r) \/ Fail(r) \/ Leave(r) \/ Finish(r)

Next ==
  \/ \E r \in Requests : Own(r)
  \/ \E n \in Tokens : Ripen(n) \/ Lapse(n)
  \/ \E c \in Cores : Relent(c) \/ WriteBack(c) \/ GiveUp(c) \/ Restart(c) \/ Reload(c)
  \/ (\E a \in 0..MaxTokens : SignIn(a))
  \/ Ask \/ Load \/ Pause \/ Yield \/ Adopt \/ Commit \/ Drain \/ Abandon

Spec == Init /\ [][Next]_vars

-----------------------------------------------------------------------------
(* Properties. *)

Login(n) == IF n >= signedIn THEN "new" ELSE "old"

(* The refresh tokens that this machine has. *)
Kept ==
  {live[c].refresh : c \in Cores} \cup {cfg[c].refresh : c \in Cores} \cup {file.refresh}
    \cup UNION {{new.refresh : new \in ToSet(queue[c])} : c \in Cores}

Asks(r) == req[r].pc # "asks" /\ req'[r].pc = "asks"

(* A refresh token is used once: none is presented while there is one that *)
(* was issued for it or after it, in either core, on its way to the file   *)
(* or in it, however requests, rejections, restarts, reloads and           *)
(* handovers meet.                                                         *)
OnlyTheNewest ==
  [][\A r \in Requests : Asks(r) =>
       \A n \in Kept : Login(n) = Login(req'[r].ask) => n <= req'[r].ask]_vars

(* The file does not fall behind in silence: the refresh token that a core *)
(* goes by is in the file, on its way there, or shown as not written.      *)
NothingUnwritten ==
  \A c \in Cores : live[c].refresh > file.refresh =>
    \/ \E d \in Cores : told[d] \/ \E new \in ToSet(queue[d]) : new.refresh >= live[c].refresh

(* No renewing for its own sake: nobody asks for a token while the cache   *)
(* of its core has one of the same login that need not be renewed yet,     *)
(* whatever is written back and read again; and for requests that were     *)
(* refused together with the same token, only the first one asks.          *)
RenewedWhenDue ==
  [][\A r \in Requests : Asks(r) =>
       LET l == live[req[r].core] IN
       \/ l.access = 0 \/ Due(l) \/ Login(l.refresh) # Login(req[r].cfg.refresh)
       \/ req[r].old = l.access /\ ~(l.own /\ age[l.access] = "young")]_vars

(* A request goes out with a token of the login of its configuration: the  *)
(* cache does not cover a new login.                                       *)
RightLogin ==
  \A r \in Requests : req[r].pc = "sent" => Login(req[r].token) = Login(req[r].cfg.refresh)
=============================================================================
