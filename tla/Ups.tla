-------------------------------- MODULE Ups --------------------------------
(***************************************************************************)
(* `Up` in crates/tw-gateway/src/throttle.rs: what is kept of one upstream *)
(* that may be rate limited, as a record                                   *)
(*                                                                         *)
(*   paused    it answered 429 and the pause is not over                   *)
(*   probing   since a 429 nothing is known of it: one request at a time   *)
(*   probe     the ticket of the request that probes, and how far that     *)
(*             request is: "unsent", "sent", or "overdue" when it was sent *)
(*             so long ago that the upstream counts as recovered           *)
(*   queue     the requests that wait for it, first come first served      *)
(*   alarms    the background tasks that will wake the queue when the      *)
(*             pause ("pause") or the grace of the probe ("grace") is over *)
(*                                                                         *)
(* Left out: how long a pause is, and so the count of 429s in a row that   *)
(* decides it; and what a client is shown.  A definition Slip... is a slip *)
(* one could make in the code, which the properties must catch; no         *)
(* specification uses one.                                                 *)
(***************************************************************************)
EXTENDS Lists

NoTicket == <<>>
NoProbe == [ticket |-> NoTicket, at |-> "none"]

NewUp == [paused |-> FALSE, probing |-> FALSE, probe |-> NoProbe,
          queue |-> <<>>, alarms |-> {}]

UpType(R, T) ==
  [paused : BOOLEAN, probing : BOOLEAN,
   probe : [ticket : T \cup {NoTicket}, at : {"none", "unsent", "sent", "overdue"}],
   queue : Seq(R), alarms : SUBSET {"pause", "grace"}]

(***************************************************************************)
(* The pause and the probe.                                                *)
(***************************************************************************)

(* limited(): whoever probed was turned down, or somebody else was         *)
Limit(x) == [x EXCEPT !.paused = TRUE, !.probing = TRUE, !.probe = NoProbe,
                      !.alarms = @ \cup {"pause"}]

(* answered(), released() and settle_probe(): no probing any more *)
Cleared(x) == [x EXCEPT !.probing = FALSE, !.probe = NoProbe]

Overdue(x) == x.probing /\ x.probe.at = "overdue"
Settle(x) == IF Overdue(x) THEN Cleared(x) ELSE x

Holds(x, t) == t # NoTicket /\ x.probe.ticket = t

(* Probe::sent *)
SendProbe(x) == [x EXCEPT !.probe.at = "sent", !.alarms = @ \cup {"grace"}]

(* Probe::withdraw, or the drop of a probe that was not sent *)
ReturnTicket(x) == [x EXCEPT !.probe = NoProbe]

(***************************************************************************)
(* check() of a settled x for request r, whose upstream has the usage      *)
(* `usage`: go, wait (and does it say until when?), or skip it.            *)
(***************************************************************************)

FreeFor(x, r) == x.queue = <<>> \/ Head(x.queue) = r

(* A slip: whoever is at the head goes, though another probes. *)
SlipCheck(x, usage, r) ==
  CASE usage = "period"      -> "used up"
    [] usage # "period" /\ (x.paused \/ usage = "window") -> "wait until"
    [] OTHER -> IF FreeFor(x, r) THEN "go" ELSE "wait"

Check(x, usage, r) ==
  CASE usage = "period"      -> "used up"
    [] usage # "period" /\ (x.paused \/ usage = "window") -> "wait until"
    [] OTHER -> IF FreeFor(x, r) /\ (x.probing => x.probe = NoProbe)
                THEN "go" ELSE "wait"

(***************************************************************************)
(* The queue.                                                              *)
(***************************************************************************)

Without(q, r) == Among(q, ToSet(q) \ {r})

(* A slip: a request that joins is put at the head. *)
SlipJoinBack(x, r) ==
  IF r \in ToSet(x.queue) THEN x ELSE [x EXCEPT !.queue = <<r>> \o @]

JoinBack(x, r) == IF r \in ToSet(x.queue) THEN x ELSE [x EXCEPT !.queue = Append(@, r)]

(* join_front() *)
JoinFront(x, r) == [x EXCEPT !.queue = <<r>> \o Without(@, r)]

Leave(x, r) == [x EXCEPT !.queue = Without(@, r)]

(* rename(): what is kept of the old name goes to the new one.  The alarms *)
(* are set again.                                                          *)
Merge(new, old) ==
  LET probe == IF new.probe = NoProbe THEN old.probe ELSE new.probe
  IN  [paused  |-> new.paused \/ old.paused,
       probing |-> new.probing \/ old.probing,
       probe   |-> probe,
       queue   |-> new.queue \o Among(old.queue, ToSet(old.queue) \ ToSet(new.queue)),
       alarms  |-> new.alarms \cup {k \in {"pause", "grace"} :
                     \/ k = "pause" /\ (new.paused \/ old.paused)
                     \/ k = "grace" /\ probe.at \in {"sent", "overdue"}}]
=============================================================================
