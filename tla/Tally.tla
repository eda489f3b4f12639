------------------------------- MODULE Tally --------------------------------
(***************************************************************************)
(* The accounts that usage limits are counted with: key_limits/books.rs of *)
(* tw-gateway, shared by the limits of gateway keys and of upstreams.  An  *)
(* account is the sum of the calendar period it is in and, for limits per  *)
(* minute or hour, the entries of the rolling window.  What requests under *)
(* way may come to is reserved beside the accounts.                        *)
(*                                                                         *)
(* One kind of calendar period, of D ticks, stands for days, weeks and     *)
(* months; an amount is a number of requests and a use, which stands for   *)
(* tokens, cached tokens and cost alike.                                   *)
(***************************************************************************)
EXTENDS Integers, Sequences, SequencesExt

CONSTANTS
  D,      \* length of a calendar period
  Grace   \* how long a reservation outlives its request, without a row

ASSUME TallyAssumption == D \in Nat \ {0} /\ Grace \in Nat \ {0}

Nothing == [requests |-> 0, use |-> 0]
OneRequest == [requests |-> 1, use |-> 0]
Used(n) == [requests |-> 0, use |-> n]

Plus(a, b) == [requests |-> a.requests + b.requests, use |-> a.use + b.use]

(* An account: its period (none or one), the window from the oldest entry  *)
(* to the newest, and the periods to be added up again from the records.   *)
Blank == [period |-> {}, recent |-> <<>>, moved |-> {}]

(* What a request holds: none or one request number once it has one, none  *)
(* or one time at which the request was found to be over.                  *)
Reservation(name, at, use) ==
  [name |-> name, at |-> at, use |-> use, request |-> {}, closed |-> {}]

-----------------------------------------------------------------------------
(* Calendar periods *)

(* Where the period of a moment starts, zone ticks ahead of UTC.           *)
PeriodStart(now, zone) == ((now + zone) \div D) * D - zone

(* A slip: the records are not asked for.                                  *)
SlipRolled(a, start) ==
  IF \E p \in a.period : p.start = start THEN a
  ELSE [a EXCEPT !.period = {[start |-> start, sum |-> Nothing]}]

(* An account looked at in the period from start on.  One that was in      *)
(* another period starts from zero and asks for the records.               *)
Rolled(a, start) ==
  IF \E p \in a.period : p.start = start
  THEN a
  ELSE [a EXCEPT !.period = {[start |-> start, sum |-> Nothing]},
                 !.moved = IF a.period = {} THEN @ ELSE @ \cup {start}]

(* An amount that belongs to a moment counts in the period of that moment, *)
(* if it is the one the account is in.                                     *)
Counted(a, start, at, amount) ==
  LET r == Rolled(a, start)
  IN  IF start <= at /\ at < start + D
      THEN [r EXCEPT !.period = {[p EXCEPT !.sum = Plus(@, amount)] : p \in r.period}]
      ELSE r

-----------------------------------------------------------------------------
(* The rolling window *)

Entry(at, amount) == [at |-> at, amount |-> amount]

(* What has slid out of a window of w ticks is forgotten, oldest first.    *)
Trimmed(recent, now, w) ==
  LET fresh == {i \in DOMAIN recent : recent[i].at > now - w}
  IN  IF fresh = {} THEN <<>>
      ELSE SubSeq(recent, CHOOSE i \in fresh : \A j \in fresh : i <= j, Len(recent))

(* A request enters the window. *)
Recorded(recent, now, w) == Trimmed(Append(recent, Entry(now, OneRequest)), now, w)

(* A request that does not count after all is taken out again, unless it   *)
(* has slid out.                                                           *)
Unrecorded(recent, at) ==
  LET i == SelectInSeq(recent, LAMBDA e : e.at = at /\ e.amount.requests > 0)
  IN  IF i = 0 THEN recent ELSE RemoveAt(recent, i)

(* How much of a measure is in the window. *)
InWindow(recent, measure, now, w) ==
  FoldLeft(LAMBDA n, e : n + IF e.at > now - w THEN e.amount[measure] ELSE 0, 0, recent)

-----------------------------------------------------------------------------
(* Reservations *)

(* A slip: a request that runs is taken for one that is over.              *)
SlipNoted(held, open, now) ==
  [s \in DOMAIN held |->
     IF held[s].request = {} \/ held[s].closed # {} THEN held[s]
     ELSE [held[s] EXCEPT !.closed = {now}]]

(* Each look notes which requests are over.  One that still runs is not.   *)
Noted(held, open, now) ==
  [s \in DOMAIN held |->
     IF held[s].request = {} THEN held[s]
     ELSE [held[s] EXCEPT !.closed = IF held[s].request \subseteq open THEN {}
                                     ELSE IF @ = {} THEN {now} ELSE @]]

(* Those whose request is over for so long that no row will come. *)
Stray(noted, now) == {s \in DOMAIN noted : \E t \in noted[s].closed : now - t >= Grace}

Without(f, S) == [s \in DOMAIN f \ S |-> f[s]]
With(f, k, v) == [s \in DOMAIN f \cup {k} |-> IF s = k THEN v ELSE f[s]]

-----------------------------------------------------------------------------
(* Handover *)

(* Entries of two windows in the order of their times. *)
Merged(recent, theirs) ==
  LET all == recent \o theirs
      before(i, j) == all[i].at < all[j].at \/ (all[i].at = all[j].at /\ i < j)
      order == SetToSortSeq(DOMAIN all, before)
  IN  [k \in DOMAIN all |-> all[order[k]]]

(* The account of another core joins this one: a period that is the same   *)
(* is added, one that differs stays as it is here.                         *)
Joined(a, theirs) ==
  [a EXCEPT
     !.period = IF a.period = {} THEN theirs.period
                ELSE {[p EXCEPT !.sum = IF \E q \in theirs.period : q.start = p.start
                                        THEN Plus(@, (CHOOSE q \in theirs.period : TRUE).sum)
                                        ELSE @] : p \in a.period},
     !.recent = IF theirs.recent = <<>> THEN @ ELSE Merged(@, theirs.recent)]
=============================================================================
