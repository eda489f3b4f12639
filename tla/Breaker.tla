------------------------------ MODULE Breaker ------------------------------
(***************************************************************************)
(* crates/tw-breaker/src/lib.rs: the circuit breaker as pure data and pure *)
(* functions.  A policy p has the fields `failures` (consecutive failures  *)
(* that open it), `cooldown` and `probes`.  Time is relative: `since` is   *)
(* how long ago a breaker opened, and stops counting at the bound of the   *)
(* module that uses it.                                                    *)
(***************************************************************************)
EXTENDS Integers

(* cooldown_left of a breaker that is not open: None *)
NotOpen == -1

(* Breaker::default() *)
Fresh == [state |-> "closed", since |-> 0, failures |-> 0, probe_successes |-> 0]

Cooled(b, p) == b.since >= p.cooldown

(* An open breaker whose cooldown is over is half open: nobody has to push *)
(* it, and looking changes nothing.                                        *)
StateAt(b, p) == IF b.state = "open" /\ Cooled(b, p) THEN "half_open" ELSE b.state

CooldownLeft(b, p) ==
  IF b.state # "open" THEN NotOpen
  ELSE IF Cooled(b, p) THEN 0 ELSE p.cooldown - b.since

AtLeastOne(n) == IF n < 1 THEN 1 ELSE n

(* open() *)
Opened(b) == [b EXCEPT !.state = "open", !.since = 0, !.probe_successes = 0]

(* One more failure.  The count is only compared with the policy's, so it  *)
(* need not go beyond it.                                                  *)
Failed(b, p) ==
  [b EXCEPT !.failures = IF @ < AtLeastOne(p.failures) THEN @ + 1 ELSE @]

(* record(true) *)
Succeeded(b, p) ==
  LET probed == [b EXCEPT !.state = "half_open", !.probe_successes = @ + 1]
  IN  CASE StateAt(b, p) = "closed" -> [b EXCEPT !.failures = 0]
        [] StateAt(b, p) # "closed" /\ probed.probe_successes >= AtLeastOne(p.probes) -> Fresh
        [] OTHER -> probed

(* record(false): when closed it opens at the policy's count; when it is   *)
(* open or half open, a failure, however late, starts the cooldown anew.   *)
RecordedFailure(b, p) ==
  LET f == Failed(b, p)
  IN  IF StateAt(b, p) = "closed" /\ f.failures < AtLeastOne(p.failures)
      THEN f ELSE Opened(f)

(* time passes, up to the bound most *)
Aged(b, most) ==
  IF b.state = "open" /\ b.since < most THEN [b EXCEPT !.since = @ + 1] ELSE b
=============================================================================
