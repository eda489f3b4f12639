------------------------------- MODULE Books -------------------------------
(***************************************************************************)
(* The books kept beside one counting semaphore, and the semaphore itself: *)
(* `Pool` in crates/tw-gateway/src/slots.rs (one upstream) and `Key` in    *)
(* crates/tw-gateway/src/limits.rs (one gateway key).  The two files have  *)
(* the same arithmetic; this module is that arithmetic, on a record        *)
(*                                                                         *)
(*   limit   the limit in force                                            *)
(*   owed    places to take back as their holders finish, because the      *)
(*           limit was lowered, or because the predecessor core held more  *)
(*           places than were free (a "phantom" place recorded as a debt)  *)
(*   avail   permits nobody has picked up                                  *)
(*   queue   waiting acquire futures, first come first served              *)
(*                                                                         *)
(* The semaphore is tokio's (external).  It hands a released permit to the *)
(* first future of its queue before that future is polled again.  The      *)
(* model keeps one number for both: of the `avail` permits, the first      *)
(* Len(queue) are assigned to the futures at the head of the queue, and    *)
(* only what exceeds Len(queue) is on the semaphore's free counter.        *)
(***************************************************************************)
EXTENDS Integers, SequencesExt

(* The books of a semaphore on which the requests of R wait.  `owed` and   *)
(* the permits are usize in the code.                                      *)
BooksType(R) == [limit : Nat, owed : Nat, avail : Nat, queue : Seq(R)]

Lesser(m, n) == IF m < n THEN m ELSE n

(* A new pool: every place free, nothing owed. *)
NewPool(l) == [limit |-> l, owed |-> 0, avail |-> l, queue |-> <<>>]

(***************************************************************************)
(* tokio::sync::Semaphore, as slots.rs and limits.rs use it.               *)
(***************************************************************************)

(* available_permits(): permits assigned to no waiting future *)
Free(p) == IF p.avail > Len(p.queue) THEN p.avail - Len(p.queue) ELSE 0

(* The future at position i of the queue has been handed a permit. *)
Assigned(p, i) == i <= p.avail

Take(p) == [p EXCEPT !.avail = @ - 1]
AddPermits(p, n) == [p EXCEPT !.avail = @ + n]
ForgetPermits(p, n) == [p EXCEPT !.avail = @ - Lesser(n, Free(p))]

Positions(p, r) == {i \in DOMAIN p.queue : p.queue[i] = r}
Waits(p, r) == Positions(p, r) # {}

(* acquire_owned(), first poll, no permit free *)
Enqueue(p, r) == [p EXCEPT !.queue = Append(@, r)]

(* A waiting future is dropped.  A permit it had been handed is not lost:  *)
(* it stays in `avail` and so goes to the next future, or to the counter.  *)
(* The books are not consulted.                                            *)
Abandon(p, r) ==
  IF Waits(p, r)
  THEN [p EXCEPT !.queue = RemoveAt(@, CHOOSE i \in Positions(p, r) : TRUE)]
  ELSE p

(* A waiting future is polled after it was handed a permit. *)
PickUp(p, r) == Take(Abandon(p, r))

(***************************************************************************)
(* The books, each after the slips one could make in it (Slip...), which   *)
(* the properties must catch; no specification uses a slip.                *)
(***************************************************************************)

(* resize(): in place, on the same semaphore.  Raising first cancels what  *)
(* is still owed; lowering takes back what is free and owes the rest.      *)
Resize(p, l) ==
  LET more   == l - p.limit
      cancel == Lesser(more, p.owed)
      less   == p.limit - l
      now    == Lesser(less, Free(p))
  IN  IF l > p.limit
      THEN [AddPermits(p, more - cancel) EXCEPT !.owed = @ - cancel, !.limit = l]
      ELSE [ForgetPermits(p, less) EXCEPT !.owed = @ + (less - now), !.limit = l]

(* the place is forgotten on the way *)
SlipGiveBackLeaks(p) == IF p.owed > 0 THEN [p EXCEPT !.owed = @ - 1] ELSE p

(* Drop of a place (Slot, Pass).  A permit is forgotten and a debt is      *)
(* struck off while something is owed; otherwise the permit goes back, or  *)
(* the place the debt stood for is added again: the same count either way. *)
GiveBack(p) ==
  IF p.owed > 0 THEN [p EXCEPT !.owed = @ - 1] ELSE AddPermits(p, 1)

(* The second half of phantom(): no permit was free, record a debt. *)
Owe(p) == [p EXCEPT !.owed = @ + 1]

(* How many places the books say are out. *)
Out(p) == p.limit + p.owed - p.avail
=============================================================================
