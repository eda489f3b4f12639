------------------------------- MODULE Slots -------------------------------
(***************************************************************************)
(* crates/tw-gateway/src/slots.rs: the concurrency limit of each upstream. *)
(* A request asks one of several upstreams for a place (first_free), waits *)
(* for the first that frees one, holds it while its answer runs and gives  *)
(* it back.  Meanwhile the configuration raises, lowers, removes and       *)
(* restores limits, and a core that took over from another holds places    *)
(* for the requests its predecessor still runs (phantom).                  *)
(*                                                                         *)
(* A poll of the select over several acquire futures is one step here, and *)
(* so is the look at the candidates before it: what another thread does    *)
(* between two of its parts has the effect it has just before or after.    *)
(***************************************************************************)
EXTENDS Books, FiniteSets

CONSTANTS
  Upstreams,    \* configured upstreams
  Requests,     \* requests that ask for a place
  Phantoms,     \* places held for the predecessor core
  Nowhere,      \* at[h] of somebody who holds no counted place
  MaxLimit,     \* bound: limits are drawn from 1 .. MaxLimit
  Lists         \* the candidate lists a request may come with

ASSUME MaxLimitAssumption == MaxLimit \in Nat \ {0}
ASSUME ListsAssumption == Lists \subseteq Seq(Upstreams) \ {<<>>}
ASSUME HoldersAssumption ==
  /\ IsFiniteSet(Requests) /\ IsFiniteSet(Phantoms)
  /\ Requests \cap Phantoms = {}
ASSUME NowhereAssumption == Nowhere \notin Upstreams

VARIABLES
  pool,    \* the pool of each upstream; limit 0 stands for "no limit set"
  pc,      \* where each request and each phantom is
  list,    \* the candidates a request goes through (for a phantom: its upstream)
  at,      \* the upstream on which a request or phantom holds a place
  freed    \* upstreams whose semaphore was closed under a waiting request

vars == <<pool, pc, list, at, freed>>

Holders == Requests \cup Phantoms
Limits == 1 .. MaxLimit

(* An upstream without a limit has no pool. *)
NoPool == [limit |-> 0, owed |-> 0, avail |-> 0, queue |-> <<>>]
Limited(u) == pool[u].limit > 0

(* The places that count on u.  One on a semaphore that was closed, or     *)
(* taken while u had no limit, counts nowhere.                             *)
Held(u) == {h \in Holders : at[h] = u}

(* try_take would find a place on u, a counted one or a free pass *)
CanEnter(u) == Limited(u) => Free(pool[u]) > 0

(* the first of the candidates, in their order, that is in S *)
First(l, S) == l[CHOOSE i \in DOMAIN l : l[i] \in S /\ \A j \in 1 .. i - 1 : l[j] \notin S]

Init ==
  /\ pool \in [Upstreams -> {NewPool(l) : l \in Limits} \cup {NoPool}]
  /\ pc = [h \in Holders |-> "idle"]
  /\ list = [h \in Holders |-> <<>>]
  /\ at = [h \in Holders |-> Nowhere]
  /\ freed = [r \in Requests |-> {}]

(***************************************************************************)
(* Requests.                                                               *)
(***************************************************************************)

(* r goes on with a place on u. *)
Enter(r, u) ==
  /\ pc' = [pc EXCEPT ![r] = "run"]
  /\ at' = [at EXCEPT ![r] = IF Limited(u) THEN u ELSE Nowhere]

Begin(r) ==
  /\ pc[r] = "idle"
  /\ \E l \in Lists : list' = [list EXCEPT ![r] = l]
  /\ pc' = [pc EXCEPT ![r] = "look"]
  /\ UNCHANGED <<pool, at, freed>>

(* try_take, or the first loop of first_free: the first candidate with a   *)
(* place, without waiting.                                                 *)
Look(r) ==
  /\ pc[r] = "look"
  /\ LET open == {u \in ToSet(list[r]) : CanEnter(u)} IN
       IF open = {}
       THEN /\ pc' = [pc EXCEPT ![r] = "join"]
            /\ UNCHANGED <<pool, at>>
       ELSE LET u == First(list[r], open) IN
              /\ Enter(r, u)
              /\ pool' = IF Limited(u) THEN [pool EXCEPT ![u] = Take(@)] ELSE pool
  /\ UNCHANGED <<list, freed>>

(* The first poll of the select, over the candidates that have a pool. A   *)
(* candidate that has a place by now is taken; otherwise r queues on all.  *)
Join(r) ==
  /\ pc[r] = "join"
  /\ LET pools == {u \in ToSet(list[r]) : Limited(u)}
         open  == {u \in pools : Free(pool[u]) > 0}
     IN \/ /\ pools = {}
           /\ Enter(r, Head(list[r]))
           /\ UNCHANGED pool
        \/ /\ open # {}
           /\ LET u == First(list[r], open) IN
                /\ Enter(r, u)
                /\ pool' = [pool EXCEPT ![u] = Take(@)]
        \/ /\ pools # {} /\ open = {}
           /\ pool' = [u \in Upstreams |-> IF u \in pools THEN Enqueue(pool[u], r)
                                                          ELSE pool[u]]
           /\ pc' = [pc EXCEPT ![r] = "wait"]
           /\ UNCHANGED at
  /\ UNCHANGED <<list, freed>>

(* The upstreams on which a waiting request has been handed a permit. *)
Granted(r) ==
  {u \in Upstreams : \E i \in Positions(pool[u], r) : Assigned(pool[u], i)}

(* A slip: the futures that lost the select stay in their queues. *)
SlipWakeKeepsLosers(r) ==
  /\ pc[r] = "wait"
  /\ Granted(r) \cup freed[r] # {}
  /\ LET u == First(list[r], Granted(r) \cup freed[r]) IN
       /\ pc' = [pc EXCEPT ![r] = "run"]
       /\ at' = [at EXCEPT ![r] = IF u \in freed[r] THEN Nowhere ELSE u]
       /\ pool' = IF u \in freed[r] THEN pool ELSE [pool EXCEPT ![u] = PickUp(@, r)]
  /\ freed' = [freed EXCEPT ![r] = {}]
  /\ UNCHANGED list

(* The select is polled again: the first ready future in candidate order   *)
(* wins, the others are dropped.                                           *)
Wake(r) ==
  /\ pc[r] = "wait"
  /\ Granted(r) \cup freed[r] # {}
  /\ LET u == First(list[r], Granted(r) \cup freed[r]) IN
       /\ pc' = [pc EXCEPT ![r] = "run"]
       /\ at' = [at EXCEPT ![r] = IF u \in freed[r] THEN Nowhere ELSE u]
       /\ pool' = [v \in Upstreams |-> IF v = u /\ u \notin freed[r]
                                       THEN PickUp(pool[v], r)
                                       ELSE Abandon(pool[v], r)]
  /\ freed' = [freed EXCEPT ![r] = {}]
  /\ UNCHANGED list

(* The deadline passes, or the client goes away: every future is dropped. *)
GiveUp(r) ==
  /\ pc[r] \in {"look", "join", "wait"}
  /\ pc' = [pc EXCEPT ![r] = "idle"]
  /\ pool' = [v \in Upstreams |-> Abandon(pool[v], r)]
  /\ freed' = [freed EXCEPT ![r] = {}]
  /\ UNCHANGED <<list, at>>

(* h's place is dropped. *)
DropSlot(h) ==
  /\ pool' = IF at[h] \in Upstreams THEN [pool EXCEPT ![at[h]] = GiveBack(@)] ELSE pool
  /\ at' = [at EXCEPT ![h] = Nowhere]

(* The answer is delivered, or the client goes away while it runs. *)
Finish(r) ==
  /\ pc[r] = "run"
  /\ pc' = [pc EXCEPT ![r] = "idle"]
  /\ DropSlot(r)
  /\ UNCHANGED <<list, freed>>

(***************************************************************************)
(* Phantoms: phantom() takes a permit if one is free.  If none is, it only *)
(* then locks the books to record a debt.                                  *)
(***************************************************************************)

PhantomTry(p, u) ==
  /\ pc[p] = "idle"
  /\ list' = [list EXCEPT ![p] = <<u>>]
  /\ IF ~Limited(u)
     THEN pc' = [pc EXCEPT ![p] = "gone"] /\ UNCHANGED <<pool, at>>
     ELSE IF Free(pool[u]) > 0
     THEN /\ pc' = [pc EXCEPT ![p] = "run"]
          /\ at' = [at EXCEPT ![p] = u]
          /\ pool' = [pool EXCEPT ![u] = Take(@)]
     ELSE pc' = [pc EXCEPT ![p] = "owing"] /\ UNCHANGED <<pool, at>>
  /\ UNCHANGED freed

PhantomOwe(p) ==
  /\ pc[p] = "owing"
  /\ pc' = [pc EXCEPT ![p] = "run"]
  /\ LET u == Head(list[p]) IN
       /\ at' = [at EXCEPT ![p] = u]
       /\ pool' = [pool EXCEPT ![u] = Owe(@)]
  /\ UNCHANGED <<list, freed>>

(* The predecessor's request ended. *)
PhantomEnd(p) ==
  /\ pc[p] = "run"
  /\ pc' = [pc EXCEPT ![p] = "gone"]
  /\ DropSlot(p)
  /\ UNCHANGED <<list, freed>>

(***************************************************************************)
(* configure(), for one upstream of the configuration.                     *)
(***************************************************************************)

SetLimit(u, l) ==
  /\ pool' = [pool EXCEPT ![u] = IF Limited(u) THEN Resize(@, l) ELSE NewPool(l)]
  /\ UNCHANGED <<pc, list, at, freed>>

(* A slip: the pool is dropped, and its semaphore not closed. *)
SlipRemoveLimit(u) ==
  /\ Limited(u)
  /\ pool' = [pool EXCEPT ![u] = NoPool]
  /\ at' = [h \in Holders |-> IF at[h] = u THEN Nowhere ELSE at[h]]
  /\ pc' = [h \in Holders |-> IF pc[h] = "owing" /\ list[h] = <<u>> THEN "run" ELSE pc[h]]
  /\ UNCHANGED <<list, freed>>

(* The limit is gone: the semaphore is closed, its waiters go ahead, and   *)
(* the places held on it no longer count; nor will a debt about to be      *)
(* recorded on it.                                                         *)
RemoveLimit(u) ==
  /\ Limited(u)
  /\ pool' = [pool EXCEPT ![u] = NoPool]
  /\ freed' = [r \in Requests |-> IF Waits(pool[u], r) THEN freed[r] \cup {u} ELSE freed[r]]
  /\ at' = [h \in Holders |-> IF at[h] = u THEN Nowhere ELSE at[h]]
  /\ pc' = [h \in Holders |-> IF pc[h] = "owing" /\ list[h] = <<u>> THEN "run" ELSE pc[h]]
  /\ UNCHANGED list

Request(r) == Begin(r) \/ Look(r) \/ Join(r) \/ Wake(r) \/ GiveUp(r) \/ Finish(r)
Phantom(p) == PhantomOwe(p) \/ PhantomEnd(p) \/ \E u \in Upstreams : PhantomTry(p, u)
Configure(u) == RemoveLimit(u) \/ \E l \in Limits : SetLimit(u, l)

Next ==
  \/ \E r \in Requests : Request(r)
  \/ \E p \in Phantoms : Phantom(p)
  \/ \E u \in Upstreams : Configure(u)

Spec == Init /\ [][Next]_vars

(***************************************************************************)
(* Fairness: the runtime polls a woken future, and every answer ends (the  *)
(* idle timeout ends one that stalls; the predecessor drains in bounded    *)
(* time).  No request need give up and no limit need change.               *)
(***************************************************************************)
Fairness ==
  /\ \A r \in Requests : WF_vars(Look(r)) /\ WF_vars(Join(r)) /\ WF_vars(Wake(r))
                         /\ WF_vars(Finish(r))
  /\ \A p \in Phantoms : WF_vars(PhantomOwe(p)) /\ WF_vars(PhantomEnd(p))

FairSpec == Spec /\ Fairness

(***************************************************************************)
(* Properties.                                                             *)
(***************************************************************************)

(* Every variable has the shape the code gives it; `owed` and `avail` are  *)
(* usize in the code and never go below zero (Slot's Drop, resize).        *)
TypeOK ==
  /\ pool \in [Upstreams -> BooksType(Requests)]
  /\ pc \in [Holders -> {"idle", "look", "join", "wait", "run", "owing", "gone"}]
  /\ list \in [Holders -> Seq(Upstreams)]
  /\ at \in [Holders -> Upstreams \cup {Nowhere}]
  /\ freed \in [Requests -> SUBSET Upstreams]

(* No place is lost and none appears from nowhere, whatever the order of   *)
(* resizes, phantoms, cancelled waits and returns: the books of a limited  *)
(* upstream say exactly how many places are out (Slot's Drop, resize).     *)
PlacesConserved ==
  \A u \in Upstreams :
    IF Limited(u) THEN Out(pool[u]) = Cardinality(Held(u)) ELSE Held(u) = {}

(* A future that lost the select, timed out or was dropped leaves nothing  *)
(* in any queue: a queue holds each waiting request once and nobody else   *)
(* (the comment on first_free).                                            *)
NothingLeftBehind ==
  \A u \in Upstreams :
    /\ IsInjective(pool[u].queue)
    /\ \A r \in ToSet(pool[u].queue) : pc[r] = "wait" /\ u \in ToSet(list[r])

(* When a limit is lowered, who comes after waits until those that run are *)
(* below it: nobody goes in at once while as many places are out as the    *)
(* limit allows (the comment on configure).                                *)
EntersBelowLimit ==
  [][\A r \in Requests, u \in Upstreams :
       pc[r] \in {"look", "join"} /\ pc'[r] = "run" /\ at'[r] = u =>
         Cardinality(Held(u)) < pool[u].limit]_vars

(* A request that waits is let through (nobody holds a place for ever, and *)
(* no permit is lost on the way), without having to give up.               *)
WaitEnds == \A r \in Requests : pc[r] = "wait" ~> pc[r] # "wait"
=============================================================================
