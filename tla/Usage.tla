------------------------------- MODULE Usage --------------------------------
(***************************************************************************)
(* The usage limits of an upstream: upstream_limits.rs of tw-gateway, with *)
(* the store that records requests and, when a new version of the core     *)
(* takes over, the handover of the accounts to it (handover.rs, feed.rs).  *)
(*                                                                         *)
(* A try of a request at the upstream reserves, and is given back, or      *)
(* bound to the request, whose row settles it.  The sums of the calendar   *)
(* periods are to be those of the rows, whatever the clock does; the       *)
(* window is to have the tries that count.  The old core goes on with its  *)
(* requests while the new one already counts for both: a snapshot and a    *)
(* feed of all that happens after it tell it what the old one does.        *)
(***************************************************************************)
EXTENDS Tally

CONSTANTS
  Request,
  Name,        \* names that the upstream may have
  First,       \* the one it has at first
  W,           \* the longest rolling window of its limits
  Estimate,    \* what a try may come to
  Actual,      \* what a request comes to
  Worlds,      \* sets of what may happen, one of which holds for ever
  PendingMax,  \* events kept for a successor before it is committed
  MaxTime,     \* bound: the clock, but for a handover
  MaxTries,    \* bound: tries of all requests
  MaxTurns     \* bound: restarts, moves and renames

ASSUME UsageAssumption ==
  /\ First \in Name
  /\ {W, Estimate, Actual, PendingMax, MaxTime, MaxTries, MaxTurns} \subseteq Nat
  /\ Worlds \subseteq SUBSET {"zone",      \* the machine changes its time zone
                              "lose",      \* the row of a request never comes
                              "blind",     \* a row comes without its tries
                              "restart",   \* the core crashes and starts again
                              "handover",  \* a new version takes over
                              "late",      \* the feed is read after the store opens
                              "rename",    \* the upstream gets another name
                              "busy"}      \* even with requests under way

Core == {"old", "new"}

VARIABLES
  world,  \* what may happen
  now,    \* the clock
  zone,   \* how far the time zone is ahead
  named,  \* the name of the upstream
  req,    \* the requests, their tries and rows
  mem,    \* what each core has in memory
  phase,  \* how far the handover is
  snap,   \* the snapshot under way to the new core: none or one
  feed,   \* what the old core has for it since
  opened, \* the store of the new core is the real one
  turns   \* how many restarts, failures, moves and renames there have been

vars == <<world, now, zone, named, req, mem, phase, snap, feed, opened, turns>>

NewMemory(follows) ==
  [books   |-> <<>>,     \* the accounts, by name
   held    |-> <<>>,     \* the reservations, by number
   seq     |-> 0,        \* the last number given
   asked   |-> {},       \* periods being added up again from the rows
   theirs  |-> <<>>,     \* the numbers of the other core's reservations here
   follows |-> follows]  \* the store is there to be asked

(* missed is history: events that the new core will never hear of.         *)
NoFeed == [on |-> FALSE, queue |-> <<>>, draining |-> FALSE, lost |-> FALSE,
           missed |-> FALSE]

(* The moments looked at: of a handover one tick, in which a period ends.  *)
Moments == IF "handover" \in world THEN D - 1 .. D ELSE 0 .. MaxTime

Init ==
  /\ world \in Worlds
  /\ now \in Moments /\ now - 1 \notin Moments
  /\ zone = 0
  /\ named = First
  /\ req = [r \in Request |->
              [core |-> "old", at |-> 0, status |-> "Idle", hop |-> {}, tries |-> <<>>]]
  /\ mem = [c \in Core |-> NewMemory(c = "old")]
  /\ phase = "Alone" /\ snap = {} /\ feed = NoFeed /\ opened = FALSE
  /\ turns = 0

-----------------------------------------------------------------------------
(* The rows of the requests *)

Names(tries) == LET kept == SelectSeq(tries, LAMBDA t : t.kept)
                IN  [i \in DOMAIN kept |-> kept[i].name]

(* The use of a request goes to the last try, if that one counts. *)
Served(tries) == IF tries # <<>> /\ Last(tries).kept THEN {Last(tries).name} ELSE {}

(* The rows in the data base.  Until the new core opens it, its own rows   *)
(* are queued.                                                             *)
Rows == {r \in Request : req[r].status = "Recorded" /\ (req[r].core = "new" => opened)}

Occurs(n, names) == Cardinality({i \in DOMAIN names : names[i] = n})

(* What the rows S from a moment on come to, under the names N. *)
SumOf(S, N, since) ==
  LET T == {r \in S : req[r].at >= since}
  IN  [requests |-> MapThenSumSet(LAMBDA r :
                      MapThenSumSet(LAMBDA n : Occurs(n, Names(req[r].tries)), N), T),
       use |-> Actual * Cardinality({r \in T : Served(req[r].tries) \cap N # {}})]

-----------------------------------------------------------------------------
(* The memory of a core *)

Today == PeriodStart(now, zone)

Account(m, n) == IF n \in DOMAIN m.books THEN m.books[n] ELSE Blank
WithAccount(m, n, a) == [m EXCEPT !.books = With(@, n, a)]

(* Periods that the accounts N have just moved to are asked for, once      *)
(* each; without a store they stay at what they are.                       *)
Asking(m, N) ==
  LET K == N \cap DOMAIN m.books
      fresh == (UNION {{<<n, t>> : t \in m.books[n].moved} : n \in K}) \ m.asked
  IN  [m EXCEPT !.books = [n \in DOMAIN @ |->
                             IF n \in K THEN [@[n] EXCEPT !.moved = {}] ELSE @[n]],
                !.asked = IF fresh = {} THEN @ ELSE IF m.follows THEN @ \cup fresh ELSE {}]

(* The window and the reservation of a try that is about to be sent. *)
Reserved(m, n) ==
  LET a == Account(m, n)
  IN  [WithAccount(m, n, [a EXCEPT !.recent = Recorded(@, now, W)])
         EXCEPT !.seq = @ + 1, !.held = With(@, m.seq + 1, Reservation(n, now, Estimate))]

(* A try that the upstream refused: all of it is given back. *)
Released(m, s) ==
  LET n == m.held[s].name
  IN  [m EXCEPT !.held = Without(@, {s}),
                !.books = [k \in DOMAIN @ |->
                             IF k = n THEN [@[k] EXCEPT !.recent = Unrecorded(@, m.held[s].at)]
                             ELSE @[k]]]

(* A slip: one try of the row goes too.                                    *)
SlipReturned(m, S, names) ==
  {s \in S : Cardinality({t \in S : m.held[t].name = m.held[s].name /\ t <= s})
               >= Occurs(m.held[s].name, names)}

(* The reservations S of a row: those beyond the tries that it lists for   *)
(* their name leave the window.                                            *)
Returned(m, S, names) ==
  {s \in S : Cardinality({t \in S : m.held[t].name = m.held[s].name /\ t <= s})
               > Occurs(m.held[s].name, names)}

(* A row takes the place of its reservations: a request per try in the     *)
(* period in which the request began, its use in the period and the window *)
(* of the upstream that served it.                                         *)
Settled(m, S, at, names, served) ==
  LET back(n) == SetToSortSeq({s \in Returned(m, S, names) : m.held[s].name = n}, <)
      tried(n) == IF Occurs(n, names) = 0 THEN Account(m, n)
                  ELSE Counted(Account(m, n), Today, at,
                               [requests |-> Occurs(n, names), use |-> 0])
      spent(n) == IF n \notin served THEN tried(n)
                  ELSE [Counted(tried(n), Today, at, Used(Actual))
                          EXCEPT !.recent = IF n = named THEN Append(@, Entry(now, Used(Actual)))
                                            ELSE @]
      kept(n) == [spent(n) EXCEPT !.recent =
                    FoldLeft(LAMBDA w, s : Unrecorded(w, m.held[s].at), @, back(n))]
      touched == {m.held[s].name : s \in S} \cup ToSet(names) \cup served
      present == DOMAIN m.books \cup ToSet(names) \cup served
  IN  Asking([m EXCEPT !.held = Without(@, S),
                       !.books = [n \in present |->
                                    IF n \in touched THEN kept(n) ELSE m.books[n]]],
             touched)

(* The numbers of the reservations that a request has. *)
Bound(m, r) == {s \in DOMAIN m.held : r \in m.held[s].request}

(* After a start, and once the store of a new core is open, the sums are   *)
(* replaced by those of the rows S.                                        *)
Rebuilt(m, S) ==
  LET sum(n) == SumOf(S, {n}, Today)
      present == DOMAIN m.books \cup {n \in Name : sum(n) # Nothing}
  IN  [m EXCEPT !.books = [n \in present |->
         [Account(m, n) EXCEPT !.period = {[start |-> Today, sum |-> sum(n)]}]]]
-----------------------------------------------------------------------------
(* What the old core tells its successor *)

(* A slip: nobody takes note that events were lost.                        *)
SlipTold(events) ==
  IF ~feed.on \/ (~feed.draining /\ Len(feed.queue) + Len(events) > PendingMax)
  THEN feed
  ELSE [feed EXCEPT !.queue = @ \o events]

(* Until it is committed only so much is kept; then the rest is lost.      *)
Told(events) ==
  IF ~feed.on \/ feed.lost THEN feed
  ELSE IF feed.draining \/ Len(feed.queue) + Len(events) <= PendingMax
       THEN [feed EXCEPT !.queue = @ \o events]
       ELSE [feed EXCEPT !.queue = SubSeq(@ \o events, 1, PendingMax), !.lost = TRUE]

(* Only the old core has somebody to tell. *)
Tell(c, events) == feed' = IF c = "old" THEN Told(events) ELSE feed

(* A reservation as it is on the wire, with the number it has there. *)
Wire(m, s) == [seq |-> s, name |-> m.held[s].name, at |-> m.held[s].at,
               use |-> m.held[s].use]

(* A reservation held for the other core: it has no request here, and its  *)
(* try is in the window if it came with the accounts.                      *)
Phantom(m, h) ==
  IF h.seq \in DOMAIN m.theirs THEN m
  ELSE LET a == Account(m, h.name)
           n == WithAccount(m, h.name,
                            [a EXCEPT !.recent = Append(@, Entry(h.at, OneRequest))])
       IN  [n EXCEPT !.seq = @ + 1,
                     !.held = With(@, m.seq + 1, Reservation(h.name, h.at, h.use)),
                     !.theirs = With(@, h.seq, m.seq + 1)]

(* All of them at once, whose tries came with the accounts: those that are *)
(* new here get the next numbers.                                          *)
Phantoms(m, H) ==
  LET N == {h \in H : h.seq \notin DOMAIN m.theirs}
      number(h) == m.seq + Cardinality({g \in N : g.seq <= h.seq})
      here(s) == CHOOSE h \in N : number(h) = s
      there(t) == CHOOSE h \in N : h.seq = t
  IN  [m EXCEPT
         !.seq = @ + Cardinality(N),
         !.held = [s \in DOMAIN @ \cup {number(h) : h \in N} |->
                     IF s \in DOMAIN @ THEN @[s]
                     ELSE Reservation(here(s).name, here(s).at, here(s).use)],
         !.theirs = [t \in DOMAIN @ \cup {h.seq : h \in N} |->
                       IF t \in DOMAIN @ THEN @[t] ELSE number(there(t))]]

(* Reservations of the other core, by its numbers T, that have no row:     *)
(* their requests stay in the window.                                      *)
Dropped(m, T) ==
  LET here == T \cap DOMAIN m.theirs
  IN  [m EXCEPT !.held = Without(@, {m.theirs[t] : t \in here}),
                !.theirs = Without(@, here)]

Heard(m, ev) ==
  LET mine(T) == {m.theirs[t] : t \in T \cap DOMAIN m.theirs}
      gone(T) == [m EXCEPT !.theirs = Without(@, T)]
  IN  CASE ev.kind = "Holds" ->
             Phantoms(Dropped(m, DOMAIN m.theirs \ {h.seq : h \in ev.held}), ev.held)
        [] ev.kind = "Reserve" -> Phantom(m, ev.held)
        [] ev.kind = "Settle" ->
             Settled(gone(ev.seqs), mine(ev.seqs), ev.at, ev.names, ev.served)
        [] ev.kind = "Release" ->
             IF ev.seq \in DOMAIN m.theirs THEN Released(gone({ev.seq}), m.theirs[ev.seq]) ELSE m
        [] ev.kind = "Drop" -> Dropped(m, {ev.seq})

-----------------------------------------------------------------------------
(* Requests *)

OldAlive == phase # "Gone"

Alive(c) == IF c = "old" THEN OldAlive ELSE phase \in {"Draining", "Gone"}

(* Where new requests go: the listeners are handed over at the commit.     *)
Serving == IF phase \in {"Alone", "Offered", "Imported"} THEN "old" ELSE "new"

Start(r) ==
  /\ req[r].status = "Idle"
  /\ req' = [req EXCEPT ![r].core = Serving, ![r].at = now, ![r].status = "Open"]
  /\ UNCHANGED <<world, now, zone, named, mem, phase, snap, feed, opened, turns>>

(* A try is about to be sent. *)
Reserve(r) ==
  LET c == req[r].core
      m == Reserved(mem[c], named)
  IN  /\ req[r].status = "Open" /\ req[r].hop = {} /\ Alive(c)
      /\ MapThenSumSet(LAMBDA q : Len(req[q].tries), Request) < MaxTries
      /\ mem' = [mem EXCEPT ![c] = m]
      /\ req' = [req EXCEPT ![r].hop = {m.seq},
                            ![r].tries = Append(@, [name |-> named, at |-> now, kept |-> TRUE])]
      /\ Tell(c, <<[kind |-> "Reserve", held |-> Wire(m, m.seq)]>>)
      /\ UNCHANGED <<world, now, zone, named, phase, snap, opened, turns>>

(* The upstream answered 429, or the try was never sent. *)
Release(r) ==
  LET c == req[r].core
  IN  /\ req[r].status = "Open" /\ Alive(c)
      /\ \E s \in req[r].hop :
           /\ mem' = [mem EXCEPT ![c] = Released(@, s)]
           /\ Tell(c, <<[kind |-> "Release", seq |-> s]>>)
      /\ req' = [req EXCEPT ![r].hop = {},
                            ![r].tries = [@ EXCEPT ![Len(@)].kept = FALSE]]
      /\ UNCHANGED <<world, now, zone, named, phase, snap, opened, turns>>

(* The upstream took it: whatever becomes of it, it counts. *)
Bind(r) ==
  LET c == req[r].core
  IN  /\ req[r].status = "Open" /\ Alive(c)
      /\ \E s \in req[r].hop : mem' = [mem EXCEPT ![c].held[s].request = {r}]
      /\ req' = [req EXCEPT ![r].hop = {}]
      /\ UNCHANGED <<world, now, zone, named, phase, snap, feed, opened, turns>>

End(r) ==
  /\ req[r].status = "Open" /\ req[r].hop = {} /\ Alive(req[r].core)
  /\ req' = [req EXCEPT ![r].status = "Ended"]
  /\ UNCHANGED <<world, now, zone, named, mem, phase, snap, feed, opened, turns>>

(* The recorder settles a row.  If it missed which tries there were, the   *)
(* row has none.                                                           *)
Settle(r) ==
  LET c == req[r].core
      m == mem[c]
      S == Bound(m, r)
  IN  /\ req[r].status = "Ended" /\ Alive(c)
      /\ \E tries \in {req[r].tries} \cup
                      (IF "blind" \in world
                       THEN {[i \in DOMAIN req[r].tries |->
                                [req[r].tries[i] EXCEPT !.kept = FALSE]]} ELSE {}) :
           /\ mem' = [mem EXCEPT ![c] =
                        Settled(m, S, req[r].at, Names(tries), Served(tries))]
           /\ req' = [req EXCEPT ![r].status = "Recorded", ![r].tries = tries]
           /\ Tell(c, <<[kind |-> "Settle", seqs |-> S, at |-> req[r].at,
                         names |-> Names(tries), served |-> Served(tries)]>>)
      /\ UNCHANGED <<world, now, zone, named, phase, snap, opened, turns>>

(* The recorder lagged behind: there will be no row. *)
Lose(r) ==
  /\ "lose" \in world /\ req[r].status = "Ended"
  /\ req' = [req EXCEPT ![r].status = "Lost"]
  /\ UNCHANGED <<world, now, zone, named, mem, phase, snap, feed, opened, turns>>

-----------------------------------------------------------------------------
(* Looks at the limits, and the rows read for them *)

(* Whoever asks for the state of the upstream lets go of reservations that *)
(* have no row to come, forgets what has slid out of the window, and finds *)
(* out that a new period has begun.                                        *)
Look(c) ==
  LET open == {r \in Request : req[r].status = "Open" /\ req[r].core = c}
      noted == Noted(mem[c].held, open, now)
      stray == Stray(noted, now)
      swept == [mem[c] EXCEPT
                  !.held = Without(noted, stray),
                  !.books = [n \in DOMAIN @ |->
                               [@[n] EXCEPT !.recent = IF n = named THEN Trimmed(@, now, W)
                                                       ELSE <<>>]]]
      m == WithAccount(swept, named, Rolled(Account(swept, named), Today))
      drops == SetToSeq(stray)
  IN  /\ Alive(c)
      /\ mem' = [mem EXCEPT ![c] = Asking(m, {named})]
      /\ mem' # mem
      /\ Tell(c, [i \in DOMAIN drops |-> [kind |-> "Drop", seq |-> drops[i]]])
      /\ UNCHANGED <<world, now, zone, named, req, phase, snap, opened, turns>>

(* The rows of a period are read and handed over under the lock of the     *)
(* store.                                                                  *)
Reread(c) ==
  /\ Alive(c) /\ mem[c].follows
  /\ \E ask \in mem[c].asked :
       LET n == ask[1]
           done == [mem[c] EXCEPT !.asked = @ \ {ask}]
           a == Account(done, n)
       IN  mem' = [mem EXCEPT ![c] =
             IF \E p \in a.period : p.start = ask[2]
             THEN WithAccount(done, n,
                    [a EXCEPT !.period =
                       {[start |-> ask[2], sum |-> SumOf(Rows, {n}, ask[2])]}])
             ELSE done]
  /\ UNCHANGED <<world, now, zone, named, req, phase, snap, feed, opened, turns>>

-----------------------------------------------------------------------------
(* The clock, the machine and its user *)

(* A row without its tries is not also late. *)
Tick ==
  /\ now + 1 \in Moments
  /\ "blind" \in world => \A r \in Request : req[r].status # "Ended"
  /\ now' = now + 1
  /\ UNCHANGED <<world, zone, named, req, mem, phase, snap, feed, opened, turns>>

Move ==
  /\ "zone" \in world /\ turns < MaxTurns
  /\ zone' \in 0 .. D - 1 /\ zone' # zone
  /\ turns' = turns + 1
  /\ UNCHANGED <<world, now, named, req, mem, phase, snap, feed, opened>>

(* The core crashes and starts again: its requests are gone with it.       *)
Restart ==
  /\ "restart" \in world /\ turns < MaxTurns /\ phase = "Alone"
  /\ mem' = [mem EXCEPT !["old"] = Rebuilt(NewMemory(TRUE), Rows)]
  /\ req' = [r \in Request |->
               IF req[r].status = "Idle" THEN req[r]
               ELSE [req[r] EXCEPT !.core = "past", !.hop = {},
                                   !.status = IF @ = "Recorded" THEN @ ELSE "Lost"]]
  /\ turns' = turns + 1
  /\ UNCHANGED <<world, now, zone, named, phase, snap, feed, opened>>

(* The account and the reservations follow the new name; from then on only *)
(* that one has limits.  Rows, and the tries of a request under way, keep  *)
(* the old one, which the upstream does not get back.                      *)
Rename(n) ==
  LET m == mem["old"]
  IN  /\ "rename" \in world /\ turns < MaxTurns /\ phase = "Alone"
      /\ n \notin {named, First}
      /\ "busy" \in world \/ \A r \in Request : req[r].status \in {"Idle", "Recorded"}
      /\ named' = n
      /\ mem' = [mem EXCEPT !["old"] = [m EXCEPT
           !.books = IF named \in DOMAIN m.books
                     THEN With(Without(m.books, {named}), n, m.books[named]) ELSE m.books,
           !.held = [s \in DOMAIN m.held |->
                       IF m.held[s].name = named THEN [m.held[s] EXCEPT !.name = n]
                       ELSE m.held[s]]]]
      /\ turns' = turns + 1
      /\ UNCHANGED <<world, now, zone, req, phase, snap, feed, opened>>

-----------------------------------------------------------------------------
(* Handover *)

(* A successor asks: a copy of the accounts and reservations, and a new    *)
(* feed of what happens after it.                                          *)
Export ==
  /\ "handover" \in world /\ phase = "Alone"
  /\ phase' = "Offered"
  /\ snap' = {[books |-> mem["old"].books,
               held  |-> {Wire(mem["old"], s) : s \in DOMAIN mem["old"].held}]}
  /\ feed' = [NoFeed EXCEPT !.on = TRUE]
  /\ UNCHANGED <<world, now, zone, named, req, mem, opened, turns>>

Import ==
  /\ phase = "Offered"
  /\ \E s \in snap :
       LET m == mem["new"]
           present == DOMAIN m.books \cup DOMAIN s.books
           joined == [m EXCEPT !.books = [n \in present |->
                        IF n \in DOMAIN s.books THEN Joined(Account(m, n), s.books[n])
                        ELSE m.books[n]]]
       IN  mem' = [mem EXCEPT !["new"] = Phantoms(joined, s.held)]
  /\ phase' = "Imported" /\ snap' = {}
  /\ UNCHANGED <<world, now, zone, named, req, feed, opened, turns>>

(* The takeover comes to nothing, which is looked at once.  What the feed  *)
(* still gets nobody asks for: the next successor has its own.             *)
GiveUp ==
  /\ phase \in {"Offered", "Imported"} /\ turns = 0
  /\ phase' = "Alone" /\ snap' = {} /\ feed' = NoFeed
  /\ mem' = [mem EXCEPT !["new"] = NewMemory(FALSE)]
  /\ turns' = turns + 1
  /\ UNCHANGED <<world, now, zone, named, req, opened>>

(* The old core begins to drain.  If it has lost events it starts over,    *)
(* and in any case it says which reservations there are.                   *)
Commit ==
  /\ phase = "Imported"
  /\ phase' = "Draining"
  /\ feed' = [on |-> TRUE, draining |-> TRUE, lost |-> FALSE, missed |-> feed.lost,
              queue |-> (IF feed.lost THEN <<>> ELSE feed.queue)
                          \o <<[kind |-> "Holds",
                                held |-> {Wire(mem["old"], s) : s \in DOMAIN mem["old"].held}]>>]
  /\ UNCHANGED <<world, now, zone, named, req, mem, snap, opened, turns>>

Hear ==
  /\ phase \in {"Draining", "Gone"} /\ feed.queue # <<>>
  /\ mem' = [mem EXCEPT !["new"] = Heard(@, Head(feed.queue))]
  /\ feed' = [feed EXCEPT !.queue = Tail(@)]
  /\ UNCHANGED <<world, now, zone, named, req, phase, snap, opened, turns>>

(* The old core is gone, because it has drained or because it crashed.     *)
(* What it had not sent yet, and its requests, are gone with it; what was  *)
(* sent before that may also be heard before.                              *)
Leave ==
  /\ phase = "Draining"
  /\ phase' = "Gone"
  /\ \E sent \in {0, Len(feed.queue)} :
       feed' = [NoFeed EXCEPT !.queue = SubSeq(feed.queue, 1, sent),
                              !.missed = feed.missed \/ sent < Len(feed.queue)]
  /\ req' = [r \in Request |->
               IF req[r].core = "old" /\ req[r].status \in {"Open", "Ended"}
               THEN [req[r] EXCEPT !.status = "Lost", !.hop = {}] ELSE req[r]]
  /\ UNCHANGED <<world, now, zone, named, mem, snap, opened, turns>>

(* The connection is closed and read to its end. *)
LetGo ==
  /\ phase = "Gone" /\ feed.queue = <<>>
  /\ mem["new"].theirs # <<>>
  /\ mem' = [mem EXCEPT !["new"] = Dropped(@, DOMAIN @.theirs)]
  /\ UNCHANGED <<world, now, zone, named, req, phase, snap, feed, opened, turns>>

(* Nobody else has the data base open: the queued rows are written and the *)
(* sums taken from all of them.                                            *)
Open ==
  /\ phase = "Gone" /\ ~opened
  /\ feed.queue = <<>> \/ "late" \in world
  /\ opened' = TRUE
  /\ mem' = [mem EXCEPT !["new"] =
               Rebuilt(@, {r \in Request : req[r].status = "Recorded"})]
  /\ UNCHANGED <<world, now, zone, named, req, phase, snap, feed, turns>>

Follow ==
  /\ opened /\ ~mem["new"].follows
  /\ mem' = [mem EXCEPT !["new"].follows = TRUE]
  /\ UNCHANGED <<world, now, zone, named, req, phase, snap, feed, opened, turns>>

-----------------------------------------------------------------------------
Next ==
  \/ \E r \in Request : \/ Start(r) \/ Reserve(r) \/ Release(r) \/ Bind(r)
                        \/ End(r) \/ Settle(r) \/ Lose(r)
  \/ \E c \in Core : Look(c) \/ Reread(c)
  \/ \E n \in Name : Rename(n)
  \/ Tick \/ Move \/ Restart
  \/ Export \/ Import \/ GiveUp \/ Commit \/ Hear \/ Leave \/ LetGo
  \/ Open \/ Follow

Spec == Init /\ [][Next]_vars

-----------------------------------------------------------------------------
(* Properties *)

AllRecorded == {r \in Request : req[r].status = "Recorded"}

(* The new core has heard of everything that the old one did. *)
CaughtUp == phase \in {"Draining", "Gone"} /\ feed.queue = <<>> /\ ~feed.missed

(* key_limits/mod.rs:13-14: what has been added up from the data base is   *)
(* what memory has.  Whenever a core has the store and no period is still  *)
(* to be read again, the sum of the period it is in is that of the rows:   *)
(* however the clock and the time zone move, whichever rows come while a   *)
(* period is being read, and however often it is asked for.                *)
PeriodIsTheRows ==
  \A c \in {d \in Core : IF d = "old" THEN OldAlive ELSE opened} :
    LET a == Account(mem[c], named)
    IN  \A p \in a.period :
          (/\ p.start = Today
           /\ <<named, Today>> \notin mem[c].asked /\ Today \notin a.moved)
          => p.sum = SumOf(Rows, Name, Today)

(* handover_export: none missed and none twice.  What the new core has for *)
(* the period is never more than has been recorded by both, and is exactly *)
(* that once it has heard everything; record.rs says that opening the      *)
(* store does not add a single one.                                        *)
CountedOnce ==
  \A p \in Account(mem["new"], named).period :
    LET all == SumOf(AllRecorded, Name, Today)
    IN  p.start = Today =>
          /\ p.sum.requests <= all.requests /\ p.sum.use <= all.use
          /\ CaughtUp => p.sum = all

(* The tries of a request that count. *)
Counting(tries) == {i \in DOMAIN tries : tries[i].kept}

(* The window of the upstream has every try that was sent in it, once, and *)
(* none that was given back: across refusals, rows that turn out not to    *)
(* list a try, reservations that are let go, renames and the handover.     *)
WindowIsTheTries ==
  \A c \in {d \in Core : IF d = "old" THEN OldAlive ELSE CaughtUp} :
    LET cores == IF c = "old" THEN {"old"} ELSE Core
        sent(r) == {i \in Counting(req[r].tries) : req[r].tries[i].at > now - W}
    IN  InWindow(Account(mem[c], named).recent, "requests", now, W) =
          MapThenSumSet(LAMBDA r : Cardinality(sent(r)), {r \in Request : req[r].core \in cores})

(* No reservation outlives its row, none is missing while its request      *)
(* runs, and the new core holds exactly the reservations that the old one  *)
(* still has once it has heard everything that is to be heard.             *)
ReservationsHaveOwners ==
  /\ \A c \in Core : Alive(c) =>
       LET m == mem[c]
           mine == DOMAIN m.held \ {m.theirs[t] : t \in DOMAIN m.theirs}
       IN  /\ \A s \in mine : \E r \in Request :
                /\ req[r].core = c
                /\ \/ s \in req[r].hop /\ m.held[s].request = {}
                   \/ m.held[s].request = {r} /\ req[r].status # "Recorded"
           /\ \A r \in Request : req[r].core = c /\ req[r].status = "Open" =>
                Cardinality(Bound(m, r) \cup req[r].hop) = Cardinality(Counting(req[r].tries))
  /\ phase = "Draining" /\ feed.queue = <<>> =>
       DOMAIN mem["new"].theirs = DOMAIN mem["old"].held
=============================================================================
