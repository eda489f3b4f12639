-------------------------------- MODULE Gate --------------------------------
(***************************************************************************)
(* The concurrency limit of one key (crates/tw-gateway/src/limits.rs) on a *)
(* core and on its successor, which holds passes for the requests that the *)
(* other still has: Claims counts them, the feed of the drain tells of     *)
(* them (handover/feed.rs), and hold_gate and step_gate take and drop the  *)
(* passes (handover.rs).                                                   *)
(*                                                                         *)
(* What acquire does before it waits is one step, and so is the drop of a  *)
(* pass with its claim.                                                    *)
(***************************************************************************)
EXTENDS Books, FiniteSets

CONSTANTS
  Olds, News,   \* requests that come to the predecessor, and to the successor
  Limits,       \* the limits that the key may have, of which 0 is none
  MaxChanges    \* bound: how often the limit changes

ASSUME GateAssumption ==
  /\ Olds \cap News = {} /\ IsFiniteSet(Olds \cup News)
  /\ Limits \subseteq Nat /\ Limits # {} /\ MaxChanges \in Nat

Requests == Olds \cup News
Cores    == {"old", "new"}

VARIABLES
  limit,    \* of a core: max_concurrent of the key in the configuration in force
  changes,  \* how often that has changed
  pool,     \* of a core: the Key of the key; limit 0 while it has none
  req,      \* the requests: how far, and the limit of their configuration
  stage,    \* how far the handover is
  link,     \* what the predecessor has said, and the successor not read
  reader,   \* of the successor: the passes it is to hold, and how far it is
  phantoms, \* of the successor: how many passes it holds for the predecessor
  lifted    \* whether the successor's key has had no limit during the drain

vars == <<limit, changes, pool, req, stage, link, reader, phantoms, lifted>>

-----------------------------------------------------------------------------
NoKey == [limit |-> 0, owed |-> 0, avail |-> 0, queue |-> <<>>]

Idle == [goal |-> 0, limit |-> 0, pc |-> "idle"]

Init ==
  /\ limit \in {[c \in Cores |-> l] : l \in Limits} /\ changes = 0
  /\ pool = [c \in Cores |-> NoKey]
  /\ req = [r \in Requests |-> [pc |-> "new", limit |-> 0]]
  /\ stage = "alone" /\ link = <<>>
  /\ reader = Idle /\ phantoms = 0 /\ lifted = FALSE

Core(r) == IF r \in Olds THEN "old" ELSE "new"

(* Who holds a claim of the key on a core: it waits for a pass or has one. *)
Claims(c) == {r \in Requests : Core(r) = c /\ req[r].pc \in {"waits", "in"}}

Accepts(c) == IF c = "old" THEN stage \in {"alone", "snapped", "serves"}
              ELSE stage \in {"serves", "drains", "gone"}

(* A slip: another limit, another semaphore. *)
SlipKey(c, l) == IF pool[c].limit = l THEN pool[c] ELSE NewPool(l)

(* The key of a core for a limit: made if there is none, and resized. *)
Key(c, l) == IF pool[c] = NoKey THEN NewPool(l) ELSE Resize(pool[c], l)

Holds(n) == [holds |-> TRUE,  n |-> n]
Step(d)  == [holds |-> FALSE, n |-> d]

(* Claims tells each change once the drain has begun. *)
Tell(c, d) == link' = IF c = "old" /\ stage = "drains" THEN Append(link, Step(d)) ELSE link

Becomes(r, pc) == req' = [req EXCEPT ![r].pc = pc]

handover == <<stage, reader, phantoms>>
settings == <<limit, changes, lifted>>

-----------------------------------------------------------------------------
(* Requests. *)

(* A request takes the configuration in force ... *)
Start(r) ==
  /\ req[r].pc = "new" /\ Accepts(Core(r))
  /\ req' = [req EXCEPT ![r] = [pc |-> "starts", limit |-> limit[Core(r)]]]
  /\ UNCHANGED <<settings, pool, link, handover>>

(* ... and asks the key for a pass with the limit of that: Gate::acquire. *)
Acquire(r) ==
  LET c == Core(r)  k == Key(c, req[r].limit) IN
  /\ req[r].pc = "starts"
  /\ \/ /\ req[r].limit = 0 /\ Becomes(r, "free") /\ UNCHANGED <<pool, link>>
     \/ /\ req[r].limit > 0 /\ Tell(c, 1)
        /\ \/ /\ Free(k) > 0 /\ Becomes(r, "in")
              /\ pool' = [pool EXCEPT ![c] = Take(k)]
           \/ /\ Free(k) = 0 /\ Becomes(r, "waits")
              /\ pool' = [pool EXCEPT ![c] = Enqueue(k, r)]
  /\ UNCHANGED <<settings, handover>>

(* The semaphore gave it a permit. *)
Enter(r) ==
  LET c == Core(r) IN
  /\ req[r].pc = "waits" /\ \E i \in Positions(pool[c], r) : Assigned(pool[c], i)
  /\ pool' = [pool EXCEPT ![c] = PickUp(@, r)] /\ Becomes(r, "in")
  /\ UNCHANGED <<settings, link, handover>>

(* The client leaves while its request waits. *)
Leave(r) ==
  LET c == Core(r) IN
  /\ req[r].pc = "waits"
  /\ pool' = [pool EXCEPT ![c] = Abandon(@, r)] /\ Becomes(r, "done") /\ Tell(c, -1)
  /\ UNCHANGED <<settings, handover>>

(* It is over: Drop of Pass, and of its claim. *)
Finish(r) ==
  LET c == Core(r) IN
  /\ req[r].pc = "in"
  /\ pool' = [pool EXCEPT ![c] = GiveBack(@)] /\ Becomes(r, "done") /\ Tell(c, -1)
  /\ UNCHANGED <<settings, handover>>

FinishFree(r) ==
  /\ req[r].pc = "free" /\ Becomes(r, "done")
  /\ UNCHANGED <<settings, pool, link, handover>>

(* The limit of the key is changed; a core that drains does not read it. *)
Change(l) ==
  /\ changes < MaxChanges /\ changes' = changes + 1
  /\ limit' = [c \in Cores |-> IF c = "old" /\ stage \in {"drains", "gone"} THEN limit[c] ELSE l]
  /\ limit' # limit /\ lifted' = (lifted \/ (stage = "drains" /\ l = 0))
  /\ UNCHANGED <<pool, req, link, handover>>

-----------------------------------------------------------------------------
(* The handover. *)

(* handover_export: how many claims there are now. *)
Export ==
  /\ stage = "alone" /\ stage' = "snapped"
  /\ link' = <<Holds(Cardinality(Claims("old")))>>
  /\ UNCHANGED <<settings, pool, req, reader, phantoms>>

(* The snapshot has been read, and the successor accepts requests. *)
Serve ==
  /\ stage = "snapped" /\ link = <<>> /\ reader.pc = "idle" /\ stage' = "serves"
  /\ UNCHANGED <<settings, pool, req, link, reader, phantoms>>

(* A slip: the drain tells of changes only, as if the snapshot were recent. *)
SlipDrain ==
  /\ stage = "serves" /\ stage' = "drains" /\ lifted' = (limit["new"] = 0)
  /\ UNCHANGED <<limit, changes, pool, req, link, reader, phantoms>>

(* begin_drain, after the commit: all claims once more, and then changes. *)
Drain ==
  /\ stage = "serves" /\ stage' = "drains" /\ lifted' = (limit["new"] = 0)
  /\ link' = <<Holds(Cardinality(Claims("old")))>>
  /\ UNCHANGED <<limit, changes, pool, req, reader, phantoms>>

(* hold_gate: how many are to be held, with the limit of now.  A key       *)
(* without a limit needs none.                                             *)
ReadHolds ==
  /\ reader.pc = "idle" /\ link # <<>> /\ Head(link).holds
  /\ reader' = [goal  |-> IF limit["new"] = 0 THEN 0 ELSE Head(link).n,
                 limit |-> limit["new"], pc |-> "holds"]
  /\ link' = Tail(link)
  /\ UNCHANGED <<settings, pool, req, stage, phantoms>>

(* step_gate. *)
ReadStep ==
  /\ reader.pc = "idle" /\ link # <<>> /\ ~Head(link).holds
  /\ LET goal == phantoms + Head(link).n IN
       reader' = IF goal < 0 \/ (goal > phantoms /\ limit["new"] = 0) THEN Idle
                 ELSE [goal |-> goal, limit |-> limit["new"], pc |-> "holds"]
  /\ link' = Tail(link)
  /\ UNCHANGED <<settings, pool, req, stage, phantoms>>

(* phantom: a permit that is free ... *)
Hold ==
  LET k == Key("new", reader.limit) IN
  /\ reader.pc = "holds" /\ phantoms < reader.goal
  /\ \/ /\ Free(k) > 0 /\ pool' = [pool EXCEPT !["new"] = Take(k)]
        /\ phantoms' = phantoms + 1 /\ UNCHANGED reader
     \/ /\ Free(k) = 0 /\ pool' = [pool EXCEPT !["new"] = k]
        /\ reader' = [reader EXCEPT !.pc = "owes"] /\ UNCHANGED phantoms
  /\ UNCHANGED <<settings, req, stage, link>>

(* ... or else a debt. *)
Debt ==
  /\ reader.pc = "owes" /\ reader' = [reader EXCEPT !.pc = "holds"]
  /\ pool' = [pool EXCEPT !["new"] = Owe(@)] /\ phantoms' = phantoms + 1
  /\ UNCHANGED <<settings, req, stage, link>>

(* A pass too many is dropped. *)
Drop ==
  /\ reader.pc = "holds" /\ phantoms > reader.goal
  /\ pool' = [pool EXCEPT !["new"] = GiveBack(@)] /\ phantoms' = phantoms - 1
  /\ UNCHANGED <<settings, req, stage, link, reader>>

Held ==
  /\ reader.pc = "holds" /\ phantoms = reader.goal /\ reader' = Idle
  /\ UNCHANGED <<settings, pool, req, stage, link, phantoms>>

(* The predecessor exits when it has nothing left to do, or dies: what it  *)
(* had not sent by then is never read.                                     *)
Exit == \E n \in 0..Len(link) :
  /\ stage = "drains" /\ stage' = "gone"
  /\ (\A r \in Olds : req[r].pc \in {"new", "done"}) => n = Len(link)
  /\ link' = SubSeq(link, 1, n)
  /\ pool' = [pool EXCEPT !["old"] = NoKey]
  /\ req' = [r \in Requests |-> IF r \in Olds THEN [pc |-> "done", limit |-> 0] ELSE req[r]]
  /\ UNCHANGED <<settings, reader, phantoms>>

(* handover_release_all, when the link has ended. *)
Release ==
  /\ stage = "gone" /\ link = <<>> /\ reader.pc = "idle" /\ phantoms > 0
  /\ reader' = [goal |-> 0, limit |-> 0, pc |-> "holds"]
  /\ UNCHANGED <<settings, pool, req, stage, link, phantoms>>

Runs(r) == Start(r) \/ Acquire(r) \/ Enter(r) \/ Finish(r) \/ FinishFree(r)
Reads   == ReadHolds \/ ReadStep \/ Hold \/ Debt \/ Drop \/ Held \/ Release

Next ==
  \/ \E r \in Requests : Runs(r) \/ Leave(r)
  \/ \E l \in Limits : Change(l)
  \/ Export \/ Serve \/ Drain \/ Exit \/ Reads

Spec == Init /\ [][Next]_vars

-----------------------------------------------------------------------------
(* Properties. *)

(* The passes of a core, with those it holds for the other, are those that *)
(* its books say are out, whatever limits requests of different            *)
(* configurations set in turn (resize, "on the same semaphore").           *)
PassesConserved ==
  \A c \in Cores :
    Out(pool[c]) = Cardinality({r \in Requests : Core(r) = c /\ req[r].pc = "in"})
                     + (IF c = "new" THEN phantoms ELSE 0)

(* How many the successor holds for n of them, when it has read e. *)
After(n, e) == IF e.holds THEN e.n ELSE IF n + e.n < 0 THEN 0 ELSE n + e.n

(* And when it has read all of q. *)
Heard(n, q) ==
  LET f[i \in 0..Len(q)] == IF i = 0 THEN n ELSE After(f[i - 1], q[i])
  IN  f[Len(q)]

(* What the successor will hold when it has read all there is. *)
Expected == Heard(IF reader.pc = "idle" THEN phantoms ELSE reader.goal, link)

(* From the beginning of the drain, what the successor has been told and   *)
(* is about to read comes to the requests that the predecessor still has,  *)
(* waiting or not: each that begins or ends is counted once.  If the key   *)
(* had no limit in between some of them are not known, but none is held    *)
(* for a request that is over.                                             *)
PhantomsFollow ==
  stage = "drains" =>
    IF lifted THEN Expected <= Cardinality(Claims("old"))
    ELSE Expected = Cardinality(Claims("old"))
=============================================================================
