--------------------------- MODULE AttemptsProofs ---------------------------
(***************************************************************************)
(* Proofs about Attempts: for any upstreams, in any order, and for any     *)
(* deadline,                                                               *)
(*   AnswersAreTrue   what the client is told is what happened;            *)
(*   TriesAreCounted  the memory of the usage limits and the chain of      *)
(*                    attempts agree about what counts;                    *)
(*   OnlyPassingIsRetried  only what may pass is tried again.              *)
(* All are read off the chain; of what the loop kept nothing else is left  *)
(* when it is over.  The invariants say what the loop knows of its own     *)
(* chain until then.  Ledger: `reached` is set once there is a failure in  *)
(* it, `err` names the upstream of the last error in it, and each upstream *)
(* has as many tries in memory as rows that count.  Tries: whoever is left *)
(* to try, in the queue, put aside, at hand or planned for the next round, *)
(* has failed in the round before in a way that passes, a hint comes from  *)
(* the last attempt, and who counts as shaky was so in this round.         *)
(***************************************************************************)
EXTENDS Attempts, Lemmas, FiniteSetTheorems

Kinds == Sent \cup {"Skipped", "Unsent", "Unreachable"}

Rows == [up : Up, kind : Kinds, passing : BOOLEAN, round : Nat]

(* i has the fields of what the loop keeps.                                *)
IsLoop(i) ==
  i \in [queue   : {i.queue},   waiting : {i.waiting}, spent : {i.spent},
         fault   : {i.fault},   shaky   : {i.shaky},   round : {i.round},
         next    : {i.next},    wake    : {i.wake},    reached : {i.reached},
         err     : {i.err},     resent  : {i.resent},  place : {i.place},
         chain   : {i.chain}]

Typed(i) == IsLoop(i) /\ i.chain \in Seq(Rows) /\ i.round \in Nat

(* Nothing that is told of i differs from what is told of j.               *)
Alike(i, j) ==
  IsLoop(i) /\ i.chain = j.chain /\ i.err = j.err /\ i.reached = j.reached

ErrorsOf(chain) == {k \in DOMAIN chain : chain[k].kind \in Failures \cup {"Unsent"}}

Honest(i) ==
  /\ \A k \in DOMAIN i.chain : i.chain[k].kind \in Failures => i.reached
  /\ i.err = {} => ErrorsOf(i.chain) = {}
  /\ i.err # {} => \E k \in ErrorsOf(i.chain) :
       i.err = {i.chain[k].up} /\ \A m \in ErrorsOf(i.chain) : m <= k

Balanced(chain, b) ==
  \A u \in Up :
    (\A k \in DOMAIN chain : chain[k].up = u => chain[k].kind # "TimedOut")
      => b[u] = Counted(chain, u)

Ledger ==
  /\ Typed(it)
  /\ bound \in [Up -> Nat]
  /\ pc # "Over" => Honest(it)
  /\ (pc = "Over" => result.kind # "Left") => Balanced(it.chain, bound)
  /\ AnswerFits

-----------------------------------------------------------------------------
(* The chain *)

(* A row more is a row that counts more, for its upstream, or none.        *)
LEMMA CountedAdded ==
  ASSUME NEW chain \in Seq(Rows), NEW row \in Rows, NEW u \in Up
  PROVE  /\ Counted(chain, u) \in Nat
         /\ Counted(Append(chain, row), u) =
              IF row.up = u /\ row.kind \in Counts
              THEN Counted(chain, u) + 1 ELSE Counted(chain, u)
<1> DEFINE longer == Append(chain, row)
           In(c)  == {i \in DOMAIN c : c[i].up = u /\ c[i].kind \in Counts}
<1>1. /\ Len(chain) \in Nat /\ DOMAIN chain = 1..Len(chain)
      /\ DOMAIN longer = 1..(Len(chain) + 1)
      /\ \A i \in 1..Len(chain) : longer[i] = chain[i]
      /\ longer[Len(chain) + 1] = row
  OBVIOUS
<1>2. IsFiniteSet(In(chain)) /\ Len(chain) + 1 \notin In(chain)
  <2>1. IsFiniteSet(1..Len(chain))
    BY <1>1, FS_Interval
  <2>2. In(chain) \subseteq 1..Len(chain)
    BY <1>1
  <2> QED BY <1>1, <2>1, <2>2, FS_Subset
<1>3. In(longer) = IF row.up = u /\ row.kind \in Counts
                   THEN In(chain) \cup {Len(chain) + 1} ELSE In(chain)
  BY <1>1
<1>4. Cardinality(In(chain)) \in Nat
  BY <1>2, FS_CardinalityType
<1>5. Cardinality(In(chain) \cup {Len(chain) + 1}) = Cardinality(In(chain)) + 1
  BY <1>2, FS_AddElement
<1> QED BY <1>3, <1>4, <1>5 DEF Counted

(* A row that the memory has booked accordingly leaves the two balanced.   *)
LEMMA BalanceKept ==
  ASSUME NEW chain \in Seq(Rows), NEW row \in Rows,
         NEW b \in [Up -> Nat], NEW c \in [Up -> Nat],
         Balanced(chain, b),
         \A u \in Up : u # row.up => c[u] = b[u],
         row.kind # "TimedOut" =>
           c[row.up] = IF row.kind \in Counts THEN b[row.up] + 1 ELSE b[row.up]
  PROVE  Balanced(Append(chain, row), c)
<1> DEFINE longer == Append(chain, row)
<1> SUFFICES ASSUME NEW u \in Up,
                    \A k \in DOMAIN longer : longer[k].up = u => longer[k].kind # "TimedOut"
             PROVE  c[u] = Counted(longer, u)
  BY DEF Balanced
<1>1. /\ Len(chain) \in Nat /\ DOMAIN chain = 1..Len(chain)
      /\ DOMAIN longer = 1..(Len(chain) + 1)
      /\ \A i \in 1..Len(chain) : longer[i] = chain[i]
      /\ longer[Len(chain) + 1] = row
  OBVIOUS
<1>2. b[u] = Counted(chain, u)
  <2>1. ASSUME NEW k \in DOMAIN chain, chain[k].up = u PROVE chain[k].kind # "TimedOut"
    BY <1>1, <2>1
  <2> QED BY <2>1 DEF Balanced
<1>3. row.up = u => row.kind # "TimedOut"
  BY <1>1
<1>4. Counted(longer, u) = IF row.up = u /\ row.kind \in Counts
                           THEN Counted(chain, u) + 1 ELSE Counted(chain, u)
  BY CountedAdded
<1> QED BY <1>2, <1>3, <1>4

(* A row that is no error leaves the last error where it was; one that is  *)
(* an error is the last one.                                               *)
LEMMA HonestAdded ==
  ASSUME NEW i, NEW j, Typed(i), Honest(i), NEW row \in Rows,
         j.chain = Append(i.chain, row),
         IF row.kind \in Failures \cup {"Unsent"}
         THEN j.err = {row.up} /\ (i.reached \/ row.kind \in Failures => j.reached)
         ELSE j.err = i.err /\ j.reached = i.reached
  PROVE  Honest(j)
<1> DEFINE n == Len(i.chain)
<1>1. /\ n \in Nat /\ DOMAIN i.chain = 1..n /\ DOMAIN j.chain = 1..(n + 1)
      /\ \A k \in 1..n : j.chain[k] = i.chain[k]
      /\ j.chain[n + 1] = row
  BY DEF Typed
<1> HIDE DEF n
<1>2. CASE row.kind \in Failures \cup {"Unsent"}
  <2>1. n + 1 \in ErrorsOf(j.chain) /\ \A m \in ErrorsOf(j.chain) : m <= n + 1
    BY <1>1, <1>2 DEF ErrorsOf
  <2>2. \A k \in DOMAIN j.chain : j.chain[k].kind \in Failures => j.reached
    BY <1>1, <1>2 DEF Honest
  <2> QED BY <1>1, <1>2, <2>1, <2>2 DEF Honest
<1>3. CASE row.kind \notin Failures \cup {"Unsent"}
  <2>1. ErrorsOf(j.chain) = ErrorsOf(i.chain)
    BY <1>1, <1>3 DEF ErrorsOf
  <2>2. \A k \in ErrorsOf(i.chain) : j.chain[k].up = i.chain[k].up
    BY <1>1 DEF ErrorsOf
  <2>3. \A k \in DOMAIN j.chain : j.chain[k].kind \in Failures => j.reached
    BY <1>1, <1>3 DEF Honest
  <2> QED BY <1>3, <2>1, <2>2, <2>3 DEF Honest
<1> QED BY <1>2, <1>3

-----------------------------------------------------------------------------
(* What an action makes of what the loop keeps *)

LEMMA ChainLonger ==
  ASSUME NEW chain \in Seq(Rows), NEW row \in Rows
  PROVE  Append(chain, row) \in Seq(Rows)
OBVIOUS

LEMMA TypedRow ==
  ASSUME Typed(it), NEW u \in Up, NEW kind \in Kinds, NEW p \in BOOLEAN
  PROVE  Row(u, kind, p) \in Rows
BY DEF Typed, Row, Rows

(* Added puts one row into the chain, and nothing else.                    *)
LEMMA AddedRow ==
  ASSUME Typed(it), NEW u \in Up, NEW kind \in Kinds
  PROVE  /\ Typed(Added(u, kind))
         /\ Added(u, kind).chain = Append(it.chain, Row(u, kind, FALSE))
         /\ Added(u, kind).err = it.err /\ Added(u, kind).reached = it.reached
         /\ Added(u, kind).round = it.round
<1>1. Row(u, kind, FALSE) \in Rows
  BY TypedRow
<1>2. /\ IsLoop(Added(u, kind))
      /\ Added(u, kind).chain = Append(it.chain, Row(u, kind, FALSE))
      /\ Added(u, kind).err = it.err /\ Added(u, kind).reached = it.reached
      /\ Added(u, kind).round = it.round
  BY DEF Typed, IsLoop, Added
<1>3. it.chain \in Seq(Rows) /\ it.round \in Nat
  BY DEF Typed
<1>4. Added(u, kind).chain \in Seq(Rows)
  BY <1>1, <1>2, <1>3, ChainLonger
<1>5. Typed(Added(u, kind))
  BY <1>2, <1>3, <1>4 DEF Typed
<1> QED BY <1>2, <1>5

(* A row of the kind of rows that are no errors.                           *)
LEMMA AddedKeeps ==
  ASSUME Ledger, pc # "Over", NEW u \in Up, NEW kind \in Kinds,
         kind \notin Failures \cup {"Unsent"}
  PROVE  Typed(Added(u, kind)) /\ Honest(Added(u, kind))
<1>1. Row(u, kind, FALSE) \in Rows /\ Row(u, kind, FALSE).kind = kind
  BY TypedRow DEF Ledger, Row
<1> QED BY <1>1, AddedRow, HonestAdded DEF Ledger

LEMMA NotMadeKeeps ==
  ASSUME Ledger, pc # "Over", NEW u \in Up
  PROVE  /\ Typed(NotMade(u)) /\ Honest(NotMade(u))
         /\ NotMade(u).chain = Added(u, "Unsent").chain
<1>1. "Unsent" \in Kinds
  BY DEF Kinds
<1>2. /\ Row(u, "Unsent", FALSE) \in Rows
      /\ Row(u, "Unsent", FALSE).kind = "Unsent" /\ Row(u, "Unsent", FALSE).up = u
  BY <1>1, TypedRow DEF Ledger, Row
<1>3. /\ NotMade(u).chain = Added(u, "Unsent").chain
      /\ NotMade(u).err = {u} /\ NotMade(u).reached = it.reached
      /\ NotMade(u).round = it.round /\ IsLoop(NotMade(u))
  <2> DEFINE i == Added(u, "Unsent")
  <2>1. Typed(i) /\ i.reached = it.reached /\ i.round = it.round
    BY <1>1, AddedRow DEF Ledger
  <2>2. NotMade(u) = [i EXCEPT !.err = {u}]
    BY DEF NotMade
  <2> HIDE DEF i
  <2>3. /\ IsLoop(NotMade(u)) /\ NotMade(u).chain = i.chain /\ NotMade(u).err = {u}
        /\ NotMade(u).reached = i.reached /\ NotMade(u).round = i.round
    BY <2>1, <2>2 DEF Typed, IsLoop
  <2> QED BY <2>1, <2>3 DEF i
<1>4. Typed(NotMade(u)) /\ NotMade(u).chain = Append(it.chain, Row(u, "Unsent", FALSE))
  BY <1>1, <1>3, AddedRow DEF Ledger, Typed
<1>5. "Unsent" \notin Failures
  BY DEF Failures
<1> QED BY <1>2, <1>3, <1>4, <1>5, HonestAdded DEF Ledger

LEMMA FailedKeeps ==
  ASSUME Ledger, pc # "Over", NEW u \in Up, NEW kind \in Failures, NEW hints
  PROVE  /\ Typed(Failed(u, kind, hints)) /\ Honest(Failed(u, kind, hints))
         /\ Failed(u, kind, hints).chain = Append(it.chain, Row(u, kind, hints # {}))
<1>1. kind \in Kinds /\ (hints # {}) \in BOOLEAN
  BY DEF Kinds, Failures, Sent
<1>2. /\ Row(u, kind, hints # {}) \in Rows
      /\ Row(u, kind, hints # {}).kind = kind /\ Row(u, kind, hints # {}).up = u
  BY <1>1, TypedRow DEF Ledger, Row
<1>3. /\ Failed(u, kind, hints).chain = Append(it.chain, Row(u, kind, hints # {}))
      /\ Failed(u, kind, hints).err = {u} /\ Failed(u, kind, hints).reached = TRUE
      /\ Failed(u, kind, hints).round = it.round /\ IsLoop(Failed(u, kind, hints))
  BY DEF Ledger, Failed, Typed, IsLoop
<1>4. Typed(Failed(u, kind, hints))
  BY <1>2, <1>3 DEF Ledger, Typed
<1> QED BY <1>2, <1>3, <1>4, HonestAdded DEF Ledger

(* Who put a row into the chain and booked the try.                        *)
LEMMA BookedKeeps ==
  ASSUME Ledger, pc # "Over", NEW u \in Up, NEW p \in BOOLEAN,
         NEW kind \in Sent \cup {"Unreachable"}
  PROVE  /\ Booked(u, kind) \in [Up -> Nat]
         /\ Balanced(Append(it.chain, Row(u, kind, p)), Booked(u, kind))
<1>1. kind \in Kinds
  BY DEF Kinds
<1>2. /\ Row(u, kind, p) \in Rows
      /\ Row(u, kind, p).kind = kind /\ Row(u, kind, p).up = u
  BY <1>1, TypedRow DEF Ledger, Row
<1>3. /\ Booked(u, kind) \in [Up -> Nat]
      /\ \A v \in Up : v # u => Booked(u, kind)[v] = bound[v]
      /\ kind # "TimedOut" =>
           Booked(u, kind)[u] = IF kind \in Counts THEN bound[u] + 1 ELSE bound[u]
  BY DEF Ledger, Booked, Counts, Sent
<1> QED BY <1>2, <1>3, BalanceKept DEF Ledger, Typed

(* A row that does not count needs no booking.                             *)
LEMMA UnbookedKeeps ==
  ASSUME Ledger, pc # "Over", NEW u \in Up, NEW kind \in {"Skipped", "Unsent"}
  PROVE  Balanced(Append(it.chain, Row(u, kind, FALSE)), bound)
<1>1. kind \in Kinds /\ kind \notin Counts /\ kind # "TimedOut"
  BY DEF Kinds, Counts, Sent
<1>2. /\ Row(u, kind, FALSE) \in Rows
      /\ Row(u, kind, FALSE).kind = kind /\ Row(u, kind, FALSE).up = u
  BY <1>1, TypedRow DEF Ledger, Row
<1>3. /\ it.chain \in Seq(Rows) /\ bound \in [Up -> Nat]
      /\ Balanced(it.chain, bound)
  BY DEF Ledger, Typed
<1> DEFINE row == Row(u, kind, FALSE)
<1>4. /\ row \in Rows /\ row.kind \notin Counts /\ row.up \in Up
  BY <1>1, <1>2
<1> HIDE DEF row
<1>5. Balanced(Append(it.chain, row), bound)
  BY <1>3, <1>4, BalanceKept
<1> QED BY <1>5 DEF row

-----------------------------------------------------------------------------
(* The three ways a step ends: the loop goes on, or waits, or is over *)

LEMMA SilentStep ==
  ASSUME Ledger, pc # "Over", pc' # "Over", UNCHANGED bound,
         Alike(it', it), it'.round \in Nat
  PROVE  Ledger'
<1>1. Typed(it)' /\ (bound \in [Up -> Nat])'
  BY DEF Ledger, Typed, Alike
<1>2. Honest(it)'
  BY DEF Ledger, Honest, Alike
<1>3. Balanced(it.chain, bound)'
  BY DEF Ledger, Balanced, Alike, Counted
<1>4. AnswerFits'
  BY DEF AnswerFits, Finished
<1> QED BY <1>1, <1>2, <1>3, <1>4 DEF Ledger

LEMMA StepOn ==
  ASSUME NEW i, Typed(i), Honest(i), Balanced(i.chain, bound'),
         bound' \in [Up -> Nat], On(i)
  PROVE  Ledger'
<1>1. it' = i /\ pc' = "Loop"
  BY DEF On
<1>2. AnswerFits'
  BY <1>1 DEF AnswerFits, Finished
<1> QED BY <1>1, <1>2 DEF Ledger, Typed, Honest, Balanced, IsLoop, Counted

(* The loop is over: what it tells is what its chain says.                 *)
LEMMA StepOver ==
  ASSUME NEW i, NEW how \in {"Halted", "Served", "Stalled", "Done"},
         Typed(i), Balanced(i.chain, bound'), bound' \in [Up -> Nat],
         how \in {"Stalled", "Done"} => Honest(i), Over(i, how)
  PROVE  Ledger'
<1>1. pc' = "Over" /\ it' = Dropped(i)
  BY DEF Over
<1>2. it'.chain = i.chain /\ it'.round = i.round /\ IsLoop(it')
  BY <1>1 DEF Dropped, New, IsLoop
<1>3. Typed(it)' /\ Balanced(it.chain, bound)'
  BY <1>2 DEF Typed, Balanced, Counted
<1>4. AnswerFits'
  <2>1. CASE how \in {"Halted", "Served"}
    <3>1. result'.kind \in {"Halted", "Served"}
      BY <2>1 DEF Over
    <3> QED BY <3>1 DEF AnswerFits, Finished
  <2>2. CASE how \in {"Stalled", "Done"}
    <3>1. Honest(i)
      BY <2>2
    <3>2. /\ result'.kind = "Later" => ~i.reached
          /\ result'.kind = "Failed" => i.err # {} /\ result'.up = i.err
          /\ result'.kind = "NoneAlive" => i.err = {}
      BY <2>2 DEF Over
    <3>3. Errors' = ErrorsOf(i.chain)
      BY <1>2 DEF Errors, ErrorsOf
    <3>4. \A k \in DOMAIN i.chain :
            i.chain[k].kind \in Failures => i.reached /\ k \in ErrorsOf(i.chain)
      BY <3>1 DEF Honest, ErrorsOf
    <3> QED BY <1>2, <3>1, <3>2, <3>3, <3>4 DEF AnswerFits, Finished, Honest
  <2> QED BY <2>1, <2>2
<1> QED BY <1>1, <1>3, <1>4 DEF Ledger

(* Some more fields change that are not told.                              *)
LEMMA AlikeKeeps ==
  ASSUME NEW i, NEW j, Typed(j), Honest(j), Alike(i, j), i.round = j.round
  PROVE  Typed(i) /\ Honest(i)
BY DEF Typed, Honest, Alike

-----------------------------------------------------------------------------
(* The actions: those that add no row *)

LEMMA StepNext ==
  ASSUME Ledger, NEW i, NEW u, NEW placed,
         pc # "Over", Alike(i, it), i.round = it.round, Look(i, u, placed)
  PROVE  Ledger'
<1>1. /\ pc' = "Look" /\ it' = [i EXCEPT !.fault = {}]
      /\ UNCHANGED bound
  BY DEF Look
<1>2. Alike(it', i) /\ it'.round = i.round
  BY <1>1 DEF Alike, IsLoop
<1> QED BY <1>1, <1>2, SilentStep DEF Alike, Ledger, Typed

LEMMA StepRetry == Ledger /\ Retry => Ledger'
<1> SUFFICES ASSUME Ledger, Retry PROVE Ledger'
  OBVIOUS
<1>1. PICK healthy \in SUBSET Up, hint \in it.fault :
        it' = Planned(Round(it.shaky, healthy), hint)
  BY DEF Retry
<1>2. PICK again : it' = Planned(again, hint)
  BY <1>1
<1> DEFINE next == Among(Candidates, again)
           wake == now + Longer(Backoff, hint)
<1>3. it' = [it EXCEPT !.fault = {}, !.shaky = {}, !.wake = wake, !.next = next]
  BY <1>2 DEF Planned
<1> HIDE DEF next, wake
<1>4. Alike(it', it) /\ it'.round = it.round
  BY <1>3 DEF Ledger, Typed, IsLoop, Alike
<1>5. pc = "Loop" /\ pc' = "Backoff" /\ UNCHANGED bound
  BY DEF Retry, Tried
<1> QED BY <1>4, <1>5, SilentStep DEF Ledger, Typed

LEMMA StepBackoffOver == Ledger /\ BackoffOver => Ledger'
<1> SUFFICES ASSUME Ledger, BackoffOver PROVE Ledger'
  OBVIOUS
<1>1. /\ pc = "Backoff" /\ pc' = "Loop" /\ UNCHANGED bound
      /\ it' = [it EXCEPT !.round = @ + 1, !.queue = it.next, !.next = <<>>,
                          !.wake = 0]
  BY DEF BackoffOver, On
<1>2. Alike(it', it) /\ it'.round = it.round + 1
  BY <1>1 DEF Ledger, Typed, IsLoop, Alike
<1> QED BY <1>1, <1>2, SilentStep DEF Ledger, Typed

LEMMA StepNextInQueue == Ledger /\ NextInQueue => Ledger'
<1> SUFFICES ASSUME Ledger, NextInQueue PROVE Ledger'
  OBVIOUS
<1> DEFINE i == [it EXCEPT !.queue = Tail(@)]
<1>1. pc = "Loop" /\ \E u, placed : Look(i, u, placed)
  BY DEF NextInQueue
<1>2. Alike(i, it) /\ i.round = it.round
  BY DEF Ledger, Typed, IsLoop, Alike
<1> HIDE DEF i
<1> QED BY <1>1, <1>2, StepNext

LEMMA StepOneReady == Ledger /\ OneReady => Ledger'
<1> SUFFICES ASSUME Ledger, OneReady PROVE Ledger'
  OBVIOUS
<1>1. PICK w \in it.waiting : Look([it EXCEPT !.waiting = @ \ {w}], w.up, TRUE)
  BY DEF OneReady
<1> DEFINE i == [it EXCEPT !.waiting = @ \ {w}]
<1>2. Alike(i, it) /\ i.round = it.round
  BY DEF Ledger, Typed, IsLoop, Alike
<1>3. pc = "WaitAny" /\ Look(i, w.up, TRUE)
  BY <1>1 DEF OneReady
<1> HIDE DEF i
<1> QED BY <1>2, <1>3, StepNext

LEMMA StepAllGone == Ledger /\ AllGone => Ledger'
<1> SUFFICES ASSUME Ledger, AllGone PROVE Ledger'
  OBVIOUS
<1>1. PICK used : On([it EXCEPT !.waiting = {}, !.spent = @ \cup used])
  BY DEF AllGone
<1>2. /\ pc = "WaitAny" /\ pc' = "Loop" /\ UNCHANGED bound
      /\ it' = [it EXCEPT !.waiting = {}, !.spent = @ \cup used]
  BY <1>1 DEF AllGone, On
<1>3. Alike(it', it) /\ it'.round = it.round
  BY <1>2 DEF Ledger, Typed, IsLoop, Alike
<1> QED BY <1>2, <1>3, SilentStep DEF Ledger, Typed

LEMMA StepPlaceDropped ==
  ASSUME Ledger, Go \/ Stay
  PROVE  Ledger'
<1>1. /\ pc = "Look" /\ pc' \in {"Sent", "WaitOne"} /\ UNCHANGED bound
      /\ it' = [it EXCEPT !.place = {}]
  BY DEF Go, Stay
<1>2. Alike(it', it) /\ it'.round = it.round
  BY <1>1 DEF Ledger, Typed, IsLoop, Alike
<1> QED BY <1>1, <1>2, SilentStep DEF Ledger, Typed

(* Nothing that the loop keeps changes.                                    *)
LEMMA StepSame ==
  ASSUME Ledger, pc # "Over", pc' # "Over", UNCHANGED <<it, bound>>
  PROVE  Ledger'
<1>1. Alike(it', it) /\ it'.round \in Nat
  BY DEF Ledger, Typed, Alike
<1> QED BY <1>1, SilentStep

LEMMA StepWaits ==
  Ledger /\ (WaitForAny \/ StayReady \/ Tick) => Ledger'
BY StepSame DEF WaitForAny, StayReady, Tick

-----------------------------------------------------------------------------
(* The actions: those that add a row without a try *)

LEMMA StepNotMade ==
  ASSUME Ledger, pc # "Over", NEW u \in Up, UNCHANGED bound,
         NEW i, Alike(i, NotMade(u)), i.round = NotMade(u).round, On(i)
  PROVE  Ledger'
<1>1. Typed(NotMade(u)) /\ Honest(NotMade(u))
  BY NotMadeKeeps
<1>2. Typed(i) /\ Honest(i) /\ i.chain = Added(u, "Unsent").chain
  BY <1>1, NotMadeKeeps, AlikeKeeps DEF Alike
<1>3. Balanced(i.chain, bound')
  BY <1>2, AddedRow, UnbookedKeeps DEF Ledger, Kinds
<1> QED BY <1>2, <1>3, StepOn DEF Ledger

LEMMA StepSkipped ==
  ASSUME Ledger, pc # "Over", NEW u \in Up, UNCHANGED bound,
         NEW i, Alike(i, Added(u, "Skipped")), i.round = it.round, On(i)
  PROVE  Ledger'
<1>1. "Skipped" \in Kinds /\ "Skipped" \notin Failures \cup {"Unsent"}
  BY DEF Kinds, Failures
<1>2. /\ Typed(Added(u, "Skipped")) /\ Honest(Added(u, "Skipped"))
      /\ Added(u, "Skipped").round = it.round
  BY <1>1, AddedKeeps, AddedRow DEF Ledger
<1>3. Typed(i) /\ Honest(i) /\ i.chain = Added(u, "Skipped").chain
  BY <1>2, AlikeKeeps DEF Alike
<1>4. Balanced(i.chain, bound')
  BY <1>1, <1>3, AddedRow, UnbookedKeeps DEF Ledger
<1> QED BY <1>3, <1>4, StepOn DEF Ledger

(* Put aside or used up, and the place given back or not.                  *)
LEMMA SkipsAlike ==
  ASSUME Ledger, NEW u \in Up, NEW busy
  PROVE  LET keeps(i) == Alike(i, Added(u, "Skipped")) /\ i.round = it.round
         IN /\ keeps(UsedUp(u)) /\ keeps([UsedUp(u) EXCEPT !.place = {}])
            /\ keeps(PutAside(u, busy))
            /\ keeps([PutAside(u, busy) EXCEPT !.place = {}])
<1> DEFINE a == Added(u, "Skipped")
<1>1. IsLoop(a) /\ a.round = it.round
  BY AddedRow DEF Ledger, Typed, Kinds
<1>2. /\ UsedUp(u) = [a EXCEPT !.spent = @ \cup {u}]
      /\ PutAside(u, busy) = [a EXCEPT !.waiting = @ \cup {[up |-> u, busy |-> busy]}]
  BY DEF UsedUp, PutAside
<1> HIDE DEF a
<1>3. /\ Alike(UsedUp(u), a) /\ UsedUp(u).round = it.round
      /\ Alike(PutAside(u, busy), a) /\ PutAside(u, busy).round = it.round
  BY <1>1, <1>2 DEF Alike, IsLoop
<1>4. \A i : Alike(i, a) /\ i.round = it.round =>
        LET j == [i EXCEPT !.place = {}] IN Alike(j, a) /\ j.round = it.round
  BY DEF Alike, IsLoop
<1> QED BY <1>3, <1>4 DEF a

LEMMA StepSkips ==
  Ledger /\ (SkipUsedUp \/ Skip \/ StayLate \/ StayGone) => Ledger'
<1> SUFFICES ASSUME Ledger, SkipUsedUp \/ Skip \/ StayLate \/ StayGone PROVE Ledger'
  OBVIOUS
<1>1. PICK u \in Up, busy \in BOOLEAN :
        \/ On(UsedUp(u)) \/ On([UsedUp(u) EXCEPT !.place = {}])
        \/ On(PutAside(u, busy)) \/ On([PutAside(u, busy) EXCEPT !.place = {}])
  BY DEF SkipUsedUp, Skip, StayLate, StayGone, StayOver
<1>2. pc # "Over" /\ UNCHANGED bound
  BY DEF SkipUsedUp, Skip, StayLate, StayGone, StayOver
<1> QED BY <1>1, <1>2, SkipsAlike, StepSkipped

(* The loop halts with a row of what was not sent.                         *)
LEMMA StepHalted ==
  ASSUME Ledger, pc # "Over", NEW u \in Up, UNCHANGED bound,
         Over(Added(u, "Unsent"), "Halted")
  PROVE  Ledger'
<1>1. "Unsent" \in Kinds
  BY DEF Kinds
<1>2. Typed(Added(u, "Unsent")) /\ Balanced(Added(u, "Unsent").chain, bound')
  BY <1>1, AddedRow, UnbookedKeeps DEF Ledger
<1> QED BY <1>2, StepOver DEF Ledger

LEMMA StepUnfit == Ledger /\ Unfit => Ledger'
<1> SUFFICES ASSUME Ledger, Unfit PROVE Ledger'
  OBVIOUS
<1>1. PICK u \in Up : \/ On(NotMade(u))
                      \/ \E i \in {it, Added(u, "Unsent")} : Over(i, "Halted")
  BY DEF Unfit
<1>2. pc # "Over" /\ UNCHANGED bound
  BY DEF Unfit
<1>3. CASE On(NotMade(u))
  BY <1>2, <1>3, NotMadeKeeps, StepNotMade DEF Typed, Alike
<1>4. CASE Over(it, "Halted")
  BY <1>2, <1>4, StepOver DEF Ledger
<1>5. CASE Over(Added(u, "Unsent"), "Halted")
  BY <1>2, <1>5, StepHalted
<1> QED BY <1>1, <1>3, <1>4, <1>5

LEMMA StepNotSent == Ledger /\ NotSent => Ledger'
<1> SUFFICES ASSUME Ledger, NotSent PROVE Ledger'
  OBVIOUS
<1>1. PICK u \in Up : \/ On([NotMade(u) EXCEPT !.place = {}])
                      \/ Over(Added(u, "Unsent"), "Halted")
  BY DEF NotSent
<1>2. pc # "Over" /\ UNCHANGED bound
  BY DEF NotSent
<1> DEFINE n == NotMade(u)
           i == [n EXCEPT !.place = {}]
<1>3. IsLoop(n)
  BY <1>2, NotMadeKeeps DEF Typed
<1>4. Alike(i, n) /\ i.round = n.round
  <2> HIDE DEF n
  <2> QED BY <1>3 DEF Alike, IsLoop
<1>5. CASE On(i)
  BY <1>2, <1>4, <1>5, StepNotMade
<1>6. CASE Over(Added(u, "Unsent"), "Halted")
  BY <1>2, <1>6, StepHalted
<1> QED BY <1>1, <1>5, <1>6

-----------------------------------------------------------------------------
(* The actions: what the upstream answers *)

LEMMA StepFailed ==
  ASSUME Ledger, pc # "Over", NEW u \in Up, NEW kind \in Failures, NEW hints,
         Onward(u, kind, Failed(u, kind, hints))
  PROVE  Ledger'
<1> DEFINE i == Failed(u, kind, hints)
<1>1. kind \in Sent \cup {"Unreachable"} /\ (hints # {}) \in BOOLEAN
  BY DEF Failures, Sent
<1>2. On(i) /\ bound' = Booked(u, kind)
  BY DEF Onward
<1>3. /\ Typed(i) /\ Honest(i)
      /\ i.chain = Append(it.chain, Row(u, kind, hints # {}))
  BY FailedKeeps
<1>4. bound' \in [Up -> Nat] /\ Balanced(i.chain, bound')
  BY <1>1, <1>2, <1>3, BookedKeeps
<1> HIDE DEF i
<1> QED BY <1>2, <1>3, <1>4, StepOn

(* A row that is no error, and what else the loop keeps of it.             *)
LEMMA StepOnward ==
  ASSUME Ledger, pc # "Over", NEW u \in Up, NEW kind \in {"Effort", "Limited"},
         bound' = Booked(u, kind),
         NEW i, Alike(i, Added(u, kind)), i.round = it.round, On(i)
  PROVE  Ledger'
<1>1. /\ kind \in Kinds /\ kind \notin Failures \cup {"Unsent"}
      /\ kind \in Sent \cup {"Unreachable"}
  BY DEF Kinds, Failures, Sent
<1>2. /\ Typed(Added(u, kind)) /\ Honest(Added(u, kind))
      /\ Added(u, kind).round = it.round
      /\ Added(u, kind).chain = Append(it.chain, Row(u, kind, FALSE))
  BY <1>1, AddedKeeps, AddedRow DEF Ledger
<1>3. Typed(i) /\ Honest(i) /\ i.chain = Append(it.chain, Row(u, kind, FALSE))
  BY <1>2, AlikeKeeps DEF Alike
<1>4. bound' \in [Up -> Nat] /\ Balanced(i.chain, bound')
  BY <1>1, <1>3, BookedKeeps
<1> QED BY <1>3, <1>4, StepOn

(* The loop is over with the answer, or with what the user said.           *)
LEMMA StepLast ==
  ASSUME Ledger, pc # "Over", NEW u \in Up,
         NEW kind \in {"Served", "Aborted"}, NEW how \in {"Served", "Halted"},
         bound' = Booked(u, kind), Over(Added(u, kind), how)
  PROVE  Ledger'
<1>1. kind \in Kinds /\ kind \in Sent \cup {"Unreachable"}
  BY DEF Kinds, Sent
<1>2. /\ Typed(Added(u, kind))
      /\ Added(u, kind).chain = Append(it.chain, Row(u, kind, FALSE))
  BY <1>1, AddedRow DEF Ledger
<1>3. bound' \in [Up -> Nat] /\ Balanced(Added(u, kind).chain, bound')
  BY <1>1, <1>2, BookedKeeps
<1> QED BY <1>2, <1>3, StepOver

LEMMA StepServe ==
  ASSUME Ledger, pc # "Over", NEW u \in Up, Serve(u)
  PROVE  Ledger'
BY StepLast DEF Serve

LEMMA StepNoAnswer == Ledger /\ NoAnswer => Ledger'
<1> SUFFICES ASSUME Ledger, NoAnswer PROVE Ledger'
  OBVIOUS
<1>1. PICK u \in Up :
        \/ \E kind \in {"TimedOut", "Unreachable"} : Onward(u, kind, Failed(u, kind, {0}))
        \/ On(NotMade(u)) /\ UNCHANGED bound
  BY DEF NoAnswer
<1>2. pc # "Over"
  BY DEF NoAnswer
<1>3. CASE On(NotMade(u)) /\ UNCHANGED bound
  BY <1>2, <1>3, NotMadeKeeps, StepNotMade DEF Typed, Alike
<1> QED BY <1>1, <1>2, <1>3, StepFailed DEF Failures

LEMMA StepBreaks == Ledger /\ (BreakOff \/ Quiet \/ OpeningError) => Ledger'
<1> SUFFICES ASSUME Ledger, BreakOff \/ Quiet \/ OpeningError PROVE Ledger'
  OBVIOUS
<1>1. \E u \in Up : Serve(u) \/ \E hints : Onward(u, "Failed", Failed(u, "Failed", hints))
  BY DEF BreakOff, Quiet, OpeningError
<1>2. pc # "Over" /\ "Failed" \in Failures
  BY DEF BreakOff, Quiet, OpeningError, Failures
<1> QED BY <1>1, <1>2, StepFailed, StepServe

LEMMA StepErrorStatus == Ledger /\ ErrorStatus => Ledger'
<1> SUFFICES ASSUME Ledger, ErrorStatus PROVE Ledger'
  OBVIOUS
<1>1. \E u \in Up :
        \/ Serve(u)
        \/ \E kind \in {"UsedUp", "Failed"} :
             \E hints : Onward(u, kind, Failed(u, kind, hints))
  BY DEF ErrorStatus
<1>2. pc # "Over" /\ {"UsedUp", "Failed"} \subseteq Failures
  BY DEF ErrorStatus, Failures
<1> QED BY <1>1, <1>2, StepFailed, StepServe

LEMMA StepEffortRefused == Ledger /\ EffortRefused => Ledger'
<1> SUFFICES ASSUME Ledger, EffortRefused PROVE Ledger'
  OBVIOUS
<1>1. pc # "Over" /\ "Effort" \in Kinds
  BY DEF EffortRefused, Kinds, Sent
<1>2. PICK u \in Up :
        Onward(u, "Effort",
          [Added(u, "Effort") EXCEPT !.resent = @ \cup {u}, !.place = {u},
                                     !.queue = <<u>> \o @])
  BY DEF EffortRefused
<1> DEFINE a == Added(u, "Effort")
           i == [a EXCEPT !.resent = @ \cup {u}, !.place = {u}, !.queue = <<u>> \o @]
<1>3. IsLoop(a) /\ a.round = it.round
  BY <1>1, AddedRow DEF Ledger, Typed
<1>4. Alike(i, a) /\ i.round = a.round
  <2> HIDE DEF a
  <2> QED BY <1>3 DEF Alike, IsLoop
<1>5. On(i) /\ bound' = Booked(u, "Effort")
  BY <1>2 DEF Onward
<1> QED BY <1>1, <1>3, <1>4, <1>5, StepOnward

LEMMA StepTooFast == Ledger /\ TooFast => Ledger'
<1> SUFFICES ASSUME Ledger, TooFast PROVE Ledger'
  OBVIOUS
<1>1. pc # "Over" /\ "Limited" \in Kinds
  BY DEF TooFast, Kinds, Sent
<1>2. PICK u \in Up : Throttled(u)
  BY DEF TooFast
<1> DEFINE a == Added(u, "Limited")
           i == [a EXCEPT !.waiting = @ \cup {[up |-> u, busy |-> FALSE]}]
<1>3. IsLoop(a) /\ a.round = it.round
  BY <1>1, AddedRow DEF Ledger, Typed
<1>4. Alike(i, a) /\ i.round = a.round
  <2> HIDE DEF a
  <2> QED BY <1>3 DEF Alike, IsLoop
<1>5. On(i) /\ bound' = Booked(u, "Limited")
  BY <1>2 DEF Throttled
<1> QED BY <1>1, <1>3, <1>4, <1>5, StepOnward

LEMMA StepHeaders == Ledger /\ (Headers \/ Content) => Ledger'
<1> SUFFICES ASSUME Ledger, Headers \/ Content PROVE Ledger'
  OBVIOUS
<1>1. /\ pc # "Over"
      /\ (\E u \in Up : Serve(u)) \/ (pc' = "Opening" /\ UNCHANGED <<it, bound>>)
  BY DEF Headers, Content
<1> QED BY <1>1, StepServe, StepSame

-----------------------------------------------------------------------------
(* The actions: the end *)

LEMMA StepFinished == Ledger /\ (Finish \/ Stall \/ Late) => Ledger'
<1> SUFFICES ASSUME Ledger, Finish \/ Stall \/ Late PROVE Ledger'
  OBVIOUS
<1>1. /\ pc # "Over" /\ UNCHANGED bound
      /\ Over(it, "Done") \/ Over(it, "Stalled")
  BY DEF Finish, Stall, Late, Tried
<1> QED BY <1>1, StepOver DEF Ledger

LEMMA StepAbort == Ledger /\ Abort => Ledger'
<1> SUFFICES ASSUME Ledger, Abort PROVE Ledger'
  OBVIOUS
<1>1. CASE pc # "Over" /\ Over(it, "Halted") /\ UNCHANGED bound
  BY <1>1, StepOver DEF Ledger
<1>2. CASE pc # "Over" /\ \E u \in Up : Over(Added(u, "Aborted"), "Halted")
                                        /\ bound' = Booked(u, "Aborted")
  BY <1>2, StepLast
<1> QED BY <1>1, <1>2 DEF Abort

LEMMA StepLeave == Ledger /\ Leave => Ledger'
<1> SUFFICES ASSUME Ledger, Leave PROVE Ledger'
  OBVIOUS
<1>1. /\ pc' = "Over" /\ result'.kind = "Left"
      /\ it' = [Dropped(it) EXCEPT !.chain = <<>>]
      /\ bound' = [u \in Up |-> IF pc \in {"Sent", "Opening"} /\ At(u)
                                THEN bound[u] + 1 ELSE bound[u]]
  BY DEF Leave
<1>2. IsLoop(it') /\ it'.chain = <<>> /\ it'.round = it.round
  BY <1>1 DEF Dropped, New, IsLoop
<1>3. Typed(it)'
  BY <1>2 DEF Typed, Ledger
<1>4. (bound \in [Up -> Nat])'
  BY <1>1 DEF Ledger
<1>5. AnswerFits'
  BY <1>1 DEF AnswerFits, Finished
<1> QED BY <1>1, <1>3, <1>4, <1>5 DEF Ledger

-----------------------------------------------------------------------------
(* The theorems *)

LEMMA LedgerInit == Init => Ledger
<1> SUFFICES ASSUME Init PROVE Ledger
  OBVIOUS
<1>1. it = New /\ pc = "Loop" /\ bound = [u \in Up |-> 0]
  BY DEF Init
<1>2. IsLoop(it) /\ it.chain = <<>> /\ it.round = 0 /\ it.err = {} /\ it.reached = FALSE
  BY <1>1 DEF New, IsLoop
<1>3. Typed(it) /\ Honest(it)
  BY <1>2 DEF Typed, Honest, ErrorsOf
<1>4. Balanced(it.chain, bound)
  <2>1. ASSUME NEW u \in Up PROVE Counted(it.chain, u) = 0
    BY <1>2, FS_EmptySet DEF Counted
  <2> QED BY <1>1, <2>1 DEF Balanced
<1> QED BY <1>1, <1>3, <1>4 DEF Ledger, AnswerFits, Finished

LEMMA LedgerNext == Ledger /\ [Next]_vars => Ledger'
<1> SUFFICES ASSUME Ledger, [Next]_vars PROVE Ledger'
  OBVIOUS
<1>1. CASE UNCHANGED vars
  BY <1>1 DEF vars, Ledger, Typed, IsLoop, Honest, Balanced, Counted, AnswerFits,
              Finished, Errors
<1>2. CASE Own
  BY <1>2, StepRetry, StepBackoffOver, StepNextInQueue, StepPlaceDropped, StepWaits,
     StepSkips, StepUnfit, StepNotSent, StepNoAnswer, StepBreaks, StepErrorStatus,
     StepEffortRefused, StepTooFast, StepHeaders, StepFinished DEF Own
<1>3. CASE OneReady \/ AllGone \/ StayReady \/ StayGone \/ Abort \/ Leave \/ Tick
  BY <1>3, StepOneReady, StepAllGone, StepWaits, StepSkips, StepAbort, StepLeave
<1> QED BY <1>1, <1>2, <1>3 DEF Next

LEMMA LedgerHolds == Spec => []Ledger
BY LedgerInit, LedgerNext, PTL DEF Spec

(* What the client is told at the end is what happened: to come back later *)
(* only if no upstream has failed it, the last error there was, and that   *)
(* nobody is alive only if nothing was wrong with anybody (the end of      *)
(* try_upstreams in hop.rs).                                               *)
THEOREM AnswersAreTrue == Spec => []AnswerFits
BY LedgerHolds, PTL DEF Ledger

(* The memory of the usage limits has as many tries of each upstream as    *)
(* the chain of attempts has rows that count for it, although the one      *)
(* gives back what did not count (Spent) and the other reads the rows      *)
(* (tw-api).                                                               *)
THEOREM TriesAreCounted == Spec => []SentHopsCount
<1>1. Ledger => SentHopsCount
  BY DEF Ledger, Balanced, SentHopsCount
<1> QED BY <1>1, LedgerHolds, PTL
-----------------------------------------------------------------------------
(* What is tried again *)

LastIn(chain, n) ==
  {k \in DOMAIN chain :
     chain[k].round = n /\ \A m \in DOMAIN chain : chain[m].round = n => m <= k}

(* The last attempt of round n may pass.                                   *)
PassedLast(chain, n) == \E k \in LastIn(chain, n) : chain[k].passing

(* One of the first l attempts was one at u, in round n, that may pass.    *)
PassedAt(chain, n, u, l) ==
  \E k \in 1 .. l : chain[k].round = n /\ chain[k].up = u /\ chain[k].passing

MayStay(u, pin) == pin # {} => u \in pin

(* Round n may go to u.                                                    *)
Tryable(chain, n, u, pin) ==
  n > 0 => PassedAt(chain, n - 1, u, Len(chain)) /\ MayStay(u, pin)

RowsFit(chain, pin) ==
  \A k \in DOMAIN chain :
    chain[k].round > 0 =>
      /\ PassedLast(chain, chain[k].round - 1)
      /\ PassedAt(chain, chain[k].round - 1, chain[k].up, k - 1)
      /\ MayStay(chain[k].up, pin)

(* The chain, in round n.                                                  *)
ChainFits(chain, n, pin) ==
  /\ RowsFit(chain, pin)
  /\ \A k \in DOMAIN chain : chain[k].round <= n
  /\ n > 0 => PassedLast(chain, n - 1)

(* Whoever is left to try may be tried; a hint comes from the last attempt *)
(* of this round, and what counts as shaky was so in this round.           *)
Retries(i, pin) ==
  /\ ChainFits(i.chain, i.round, pin)
  /\ i.queue \in Seq(Up)
  /\ \A u \in ToSet(i.queue) : Tryable(i.chain, i.round, u, pin)
  /\ \A w \in i.waiting : Tryable(i.chain, i.round, w.up, pin)
  /\ i.fault # {} =>
       LET l == Len(i.chain)
       IN l > 0 /\ i.chain[l].passing /\ i.chain[l].round = i.round
  /\ \A u \in i.shaky : PassedAt(i.chain, i.round, u, Len(i.chain))

(* The round to come is planned.                                           *)
RoundPlanned(i, pin) ==
  /\ i.shaky = {} /\ i.waiting = {} /\ i.fault = {}
  /\ i.next \in Seq(Up)
  /\ PassedLast(i.chain, i.round)
  /\ \A u \in ToSet(i.next) : Tryable(i.chain, i.round + 1, u, pin)

AtOne == {"Look", "WaitOne", "Sent", "Opening"}

Tries ==
  /\ pc = "Over" => RowsFit(it.chain, given.pin)
  /\ pc # "Over" => Retries(it, given.pin)
  /\ pc \in AtOne =>
       it.fault = {} /\ \A u \in hop.up : Tryable(it.chain, it.round, u, given.pin)
  /\ pc = "Backoff" => RoundPlanned(it, given.pin)
  /\ hop = [up |-> hop.up, last |-> hop.last, placed |-> hop.placed]
  /\ pc \notin AtOne => hop.up = {}

(* An attempt more, in the latest round, at somebody who may be tried.     *)
LEMMA FitsAdded ==
  ASSUME NEW chain \in Seq(Rows), NEW row \in Rows, NEW r, NEW pin, r = row.round,
         ChainFits(chain, r, pin), Tryable(chain, r, row.up, pin),
         NEW longer, longer = Append(chain, row)
  PROVE  /\ ChainFits(longer, r, pin)
         /\ \A u : Tryable(chain, r, u, pin) => Tryable(longer, r, u, pin)
         /\ \A u : PassedAt(chain, r, u, Len(chain))
                     => PassedAt(longer, r, u, Len(longer))
         /\ row.passing => PassedAt(longer, r, row.up, Len(longer))
         /\ Len(longer) > 0 /\ longer[Len(longer)] = row
<1> DEFINE n == Len(chain)
<1>1. /\ n \in Nat /\ DOMAIN chain = 1 .. n
      /\ Len(longer) = n + 1 /\ DOMAIN longer = 1 .. n + 1
      /\ \A k \in 1 .. n : longer[k] = chain[k]
      /\ longer[n + 1] = row
  OBVIOUS
<1>2. r \in Nat /\ \A k \in 1 .. n : chain[k].round \in Nat
  <2>1. \A k \in 1 .. n : chain[k] \in Rows
    BY ElementOfSeq
  <2> QED BY <2>1 DEF Rows
<1>3. /\ RowsFit(chain, pin)
      /\ \A k \in 1 .. n : chain[k].round <= r
      /\ r > 0 => PassedLast(chain, r - 1)
  BY <1>1 DEF ChainFits
<1>4. Tryable(chain, r, row.up, pin)
  OBVIOUS
<1> HIDE DEF n
<1>5. ASSUME NEW m, m # r, PassedLast(chain, m) PROVE PassedLast(longer, m)
  <2>1. PICK k \in LastIn(chain, m) : chain[k].passing
    BY <1>5 DEF PassedLast
  <2>2. k \in LastIn(longer, m) /\ longer[k].passing
    <3>1. /\ k \in 1 .. n /\ chain[k].round = m /\ chain[k].passing
          /\ \A j \in 1 .. n : chain[j].round = m => j <= k
      BY <1>1, <2>1 DEF LastIn
    <3>2. \A j \in 1 .. n + 1 : j \in 1 .. n \/ j = n + 1
      BY <1>1
    <3>3. \A j \in 1 .. n + 1 : longer[j].round = m => j <= k
      BY <1>1, <1>5, <3>1, <3>2
    <3>4. k \in 1 .. n + 1
      BY <1>1, <3>1
    <3> QED BY <1>1, <3>1, <3>3, <3>4 DEF LastIn
  <2> QED BY <2>2 DEF PassedLast
<1>6. ASSUME NEW m, NEW u, NEW l \in 0 .. n, PassedAt(chain, m, u, l)
      PROVE  PassedAt(longer, m, u, l) /\ PassedAt(longer, m, u, n + 1)
  <2>1. PICK k \in 1 .. l : chain[k].round = m /\ chain[k].up = u /\ chain[k].passing
    BY <1>6 DEF PassedAt
  <2>2. k \in 1 .. n /\ k \in 1 .. n + 1
    BY <1>1, <2>1
  <2> QED BY <1>1, <2>1, <2>2 DEF PassedAt
<1>7. n \in 0 .. n
  BY <1>1
<1>8. RowsFit(longer, pin)
  <2> SUFFICES ASSUME NEW k \in 1 .. n + 1, longer[k].round > 0
               PROVE  /\ PassedLast(longer, longer[k].round - 1)
                      /\ PassedAt(longer, longer[k].round - 1, longer[k].up, k - 1)
                      /\ MayStay(longer[k].up, pin)
    BY <1>1 DEF RowsFit
  <2>1. CASE k \in 1 .. n
    <3>1. longer[k] = chain[k] /\ k - 1 \in 0 .. n
      BY <1>1, <2>1
    <3>2. /\ PassedLast(chain, chain[k].round - 1)
          /\ PassedAt(chain, chain[k].round - 1, chain[k].up, k - 1)
          /\ MayStay(chain[k].up, pin)
      BY <1>1, <1>3, <2>1, <3>1 DEF RowsFit
    <3>3. chain[k].round - 1 # r
      BY <1>2, <1>3, <2>1
    <3> QED BY <1>5, <1>6, <3>1, <3>2, <3>3
  <2>2. CASE k = n + 1
    <3>1. longer[k] = row /\ k - 1 = n /\ r > 0 /\ r - 1 # r
      BY <1>1, <1>2, <2>2
    <3>2. PassedAt(chain, r - 1, row.up, n) /\ MayStay(row.up, pin)
      BY <1>4, <3>1 DEF Tryable, n
    <3> QED BY <1>3, <1>5, <1>6, <1>7, <3>1, <3>2
  <2> QED BY <1>1, <2>1, <2>2
<1>9. ChainFits(longer, r, pin)
  <2>1. \A k \in 1 .. n + 1 : longer[k].round <= r
    BY <1>1, <1>2, <1>3
  <2>2. r > 0 => PassedLast(longer, r - 1)
    BY <1>2, <1>3, <1>5
  <2> QED BY <1>1, <1>8, <2>1, <2>2 DEF ChainFits
<1>10. ASSUME NEW u, Tryable(chain, r, u, pin) PROVE Tryable(longer, r, u, pin)
  BY <1>1, <1>6, <1>7, <1>10 DEF Tryable, n
<1>11. ASSUME NEW u, PassedAt(chain, r, u, n) PROVE PassedAt(longer, r, u, n + 1)
  BY <1>6, <1>7, <1>11
<1>12. row.passing => PassedAt(longer, r, row.up, n + 1)
  BY <1>1 DEF PassedAt
<1>13. Len(longer) > 0 /\ longer[Len(longer)] = row
  BY <1>1
<1> QED BY <1>1, <1>9, <1>10, <1>11, <1>12, <1>13 DEF n

LEMMA AtFront ==
  ASSUME NEW R, NEW r \in R, NEW q \in Seq(R)
  PROVE  /\ <<r>> \o q \in Seq(R)
         /\ ToSet(<<r>> \o q) \subseteq {r} \cup ToSet(q)
<1> DEFINE p == <<r>> \o q
<1>1. /\ Len(<<r>>) = 1 /\ <<r>>[1] = r /\ <<r>> \in Seq(R)
      /\ Len(q) \in Nat /\ DOMAIN q = 1 .. Len(q)
  BY LenProperties
<1>2. /\ p \in Seq(R) /\ Len(p) = 1 + Len(q)
      /\ \A k \in 1 .. 1 + Len(q) : p[k] = IF k <= 1 THEN <<r>>[k] ELSE q[k - 1]
  BY <1>1, ConcatProperties
<1>3. DOMAIN p = 1 .. 1 + Len(q)
  BY <1>2, LenProperties
<1>4. ASSUME NEW k \in 1 .. 1 + Len(q) PROVE p[k] \in {r} \cup {q[j] : j \in 1 .. Len(q)}
  <2>1. k = 1 \/ (k - 1 \in 1 .. Len(q) /\ ~(k <= 1))
    BY <1>1
  <2> HIDE DEF p
  <2> QED BY <1>1, <1>2, <2>1
<1> HIDE DEF p
<1>5. ToSet(p) \subseteq {r} \cup ToSet(q)
  BY <1>1, <1>3, <1>4 DEF ToSet
<1> QED BY <1>2, <1>5 DEF p

(* i has one attempt more than `it`, one at u, and is left with no more to *)
(* try than `it` and u.                                                    *)
Rowed(i, u) ==
  /\ i.round = it.round
  /\ i.queue \in {it.queue, <<u>> \o it.queue}
  /\ \A w \in i.waiting : w \in it.waiting \/ w.up = u
  /\ \E row \in Rows :
       /\ row.up = u /\ row.round = it.round /\ i.chain = Append(it.chain, row)
       /\ i.fault # {} => row.passing
       /\ i.shaky = it.shaky \/ (row.passing /\ i.shaky = it.shaky \cup {u})

LEMMA RowedFits ==
  ASSUME Typed(it), NEW u \in Up, NEW i, Rowed(i, u), NEW pin, Retries(it, pin),
         Tryable(it.chain, it.round, u, pin)
  PROVE  Retries(i, pin)
<1> DEFINE r == it.round
<1>1. PICK row \in Rows :
        /\ row.up = u /\ row.round = r /\ i.chain = Append(it.chain, row)
        /\ i.fault # {} => row.passing
        /\ i.shaky = it.shaky \/ (row.passing /\ i.shaky = it.shaky \cup {u})
  BY DEF Rowed
<1>2. i.round = r /\ it.chain \in Seq(Rows) /\ ChainFits(it.chain, r, pin)
  BY DEF Rowed, Typed, Retries
<1>3. /\ ChainFits(i.chain, r, pin)
      /\ \A v : Tryable(it.chain, r, v, pin) => Tryable(i.chain, r, v, pin)
      /\ \A v : PassedAt(it.chain, r, v, Len(it.chain))
                  => PassedAt(i.chain, r, v, Len(i.chain))
      /\ row.passing => PassedAt(i.chain, r, u, Len(i.chain))
      /\ Len(i.chain) > 0 /\ i.chain[Len(i.chain)] = row
  <2>1. ChainFits(it.chain, r, pin) /\ Tryable(it.chain, r, row.up, pin)
    BY <1>1, <1>2
  <2>2. it.chain \in Seq(Rows) /\ r = row.round /\ i.chain = Append(it.chain, row)
    BY <1>1, <1>2
  <2> HIDE DEF r
  <2>3. /\ ChainFits(i.chain, r, pin)
        /\ \A v : Tryable(it.chain, r, v, pin) => Tryable(i.chain, r, v, pin)
        /\ \A v : PassedAt(it.chain, r, v, Len(it.chain))
                    => PassedAt(i.chain, r, v, Len(i.chain))
        /\ row.passing => PassedAt(i.chain, r, row.up, Len(i.chain))
        /\ Len(i.chain) > 0 /\ i.chain[Len(i.chain)] = row
    BY ZenonT(60), <2>1, <2>2, FitsAdded
  <2> QED BY <1>1, <2>3
<1>4. i.queue \in Seq(Up) /\ \A v \in ToSet(i.queue) : Tryable(i.chain, r, v, pin)
  <2>1. it.queue \in Seq(Up) /\ \A v \in ToSet(it.queue) : Tryable(it.chain, r, v, pin)
    BY DEF Retries
  <2>2. /\ <<u>> \o it.queue \in Seq(Up)
        /\ ToSet(<<u>> \o it.queue) \subseteq {u} \cup ToSet(it.queue)
    BY <2>1, AtFront
  <2>3. i.queue \in {it.queue, <<u>> \o it.queue}
    BY DEF Rowed
  <2> QED BY <1>3, <2>1, <2>2, <2>3
<1>5. \A w \in i.waiting : Tryable(i.chain, r, w.up, pin)
  <2>1. \A w \in it.waiting : Tryable(it.chain, r, w.up, pin)
    BY DEF Retries
  <2>2. \A w \in i.waiting : w \in it.waiting \/ w.up = u
    BY DEF Rowed
  <2> QED BY <1>3, <2>1, <2>2
<1>6. \A v \in i.shaky : PassedAt(i.chain, r, v, Len(i.chain))
  <2>1. \A v \in it.shaky : PassedAt(it.chain, r, v, Len(it.chain))
    BY DEF Retries
  <2> QED BY <1>1, <1>3, <2>1
<1> QED BY <1>1, <1>2, <1>3, <1>4, <1>5, <1>6 DEF Retries

(* i is left with less to try than `it`.                                   *)
Shrunk(i) ==
  /\ i.chain = it.chain /\ i.round = it.round /\ i.shaky = it.shaky
  /\ i.fault \in {{}, it.fault}
  /\ i.queue \in Seq(Up) /\ ToSet(i.queue) \subseteq ToSet(it.queue)
  /\ i.waiting \subseteq it.waiting

LEMMA ShrunkFits ==
  ASSUME NEW i, Shrunk(i), NEW pin, Retries(it, pin)
  PROVE  Retries(i, pin)
BY DEF Shrunk, Retries

-----------------------------------------------------------------------------
(* How a step ends *)

LEMMA TriesOn ==
  ASSUME NEW i, Retries(i, given.pin), UNCHANGED given, On(i)
  PROVE  Tries'
<1>1. it' = i /\ pc' = "Loop" /\ given' = given /\ hop' = NoHop
  BY DEF On
<1> QED BY <1>1 DEF Tries, AtOne, NoHop

LEMMA TriesOver ==
  ASSUME NEW i, NEW how, RowsFit(i.chain, given.pin), UNCHANGED given, Over(i, how)
  PROVE  Tries'
<1>1. it'.chain = i.chain /\ pc' = "Over" /\ given' = given /\ hop' = NoHop
  BY DEF Over, Dropped, New
<1> QED BY <1>1 DEF Tries, AtOne, NoHop

LEMMA TriesLook ==
  ASSUME NEW i, IsLoop(i), Retries(i, given.pin), NEW u, NEW placed,
         Tryable(i.chain, i.round, u, given.pin), Look(i, u, placed)
  PROVE  Tries'
<1>1. /\ it' = [i EXCEPT !.fault = {}] /\ pc' = "Look" /\ hop'.up = {u}
      /\ hop' = [up |-> hop'.up, last |-> hop'.last, placed |-> hop'.placed]
      /\ given' = given
  BY DEF Look
<1>2. /\ it'.chain = i.chain /\ it'.round = i.round /\ it'.queue = i.queue
      /\ it'.waiting = i.waiting /\ it'.shaky = i.shaky /\ it'.fault = {}
  BY <1>1 DEF IsLoop
<1>3. Retries(it', given'.pin)
  BY <1>1, <1>2 DEF Retries
<1> QED BY <1>1, <1>2, <1>3 DEF Tries, AtOne

(* While it is at one, the loop may well go on.                            *)
LEMMA TriesWait ==
  ASSUME Tries, pc \in AtOne, pc' \in AtOne, NEW place,
         it' = [it EXCEPT !.place = place], Typed(it), UNCHANGED <<given, hop>>
  PROVE  Tries'
<1>1. /\ it'.chain = it.chain /\ it'.round = it.round /\ it'.queue = it.queue
      /\ it'.waiting = it.waiting /\ it'.shaky = it.shaky /\ it'.fault = it.fault
  BY DEF Typed, IsLoop
<1>2. Retries(it, given.pin)
  BY DEF Tries, AtOne
<1>3. Retries(it', given'.pin)
  BY <1>1, <1>2 DEF Retries
<1> QED BY <1>1, <1>3 DEF Tries, AtOne

(* A row more about the upstream it is at.                                 *)
LEMMA TriesRowed ==
  ASSUME Ledger, Tries, pc \in AtOne, NEW u \in Up, At(u), NEW i, Rowed(i, u)
  PROVE  Retries(i, given.pin) /\ RowsFit(i.chain, given.pin)
<1>1. Typed(it) /\ Retries(it, given.pin) /\ Tryable(it.chain, it.round, u, given.pin)
  BY DEF Ledger, Tries, At, AtOne
<1>2. Retries(i, given.pin)
  BY <1>1, RowedFits
<1> QED BY <1>2 DEF Retries, ChainFits

-----------------------------------------------------------------------------
(* What is one row more *)

LEMMA RowedAdded ==
  ASSUME Ledger, Tries, pc \in AtOne, NEW u \in Up, NEW kind \in Kinds, NEW x
  PROVE  LET a == Added(u, kind)
         IN /\ Rowed(a, u)
            /\ Rowed([a EXCEPT !.place = x], u)
            /\ Rowed([a EXCEPT !.err = x], u)
            /\ Rowed([[a EXCEPT !.err = x] EXCEPT !.place = {}], u)
            /\ Rowed([a EXCEPT !.spent = x], u)
            /\ Rowed([[a EXCEPT !.spent = x] EXCEPT !.place = {}], u)
<1> DEFINE a   == Added(u, kind)
           row == Row(u, kind, FALSE)
<1>1. row \in Rows /\ row.up = u /\ row.round = it.round
  BY TypedRow DEF Ledger, Row
<1>2. /\ IsLoop(a) /\ a.chain = Append(it.chain, row)
      /\ a.round = it.round /\ a.queue = it.queue /\ a.waiting = it.waiting
      /\ a.shaky = it.shaky /\ a.fault = {}
  <2>1. it.fault = {}
    BY DEF Tries
  <2> QED BY <2>1 DEF Ledger, Typed, IsLoop, Added
<1> HIDE DEF a, row
<1>3. Rowed(a, u)
  BY <1>1, <1>2 DEF Rowed
<1>4. \A b : /\ b.chain = a.chain /\ b.round = a.round /\ b.queue = a.queue
             /\ b.waiting = a.waiting /\ b.shaky = a.shaky /\ b.fault = a.fault
             => Rowed(b, u)
  BY <1>3 DEF Rowed
<1> QED BY <1>2, <1>3, <1>4 DEF IsLoop, a

LEMMA RowedAside ==
  ASSUME Ledger, Tries, pc \in AtOne, NEW u \in Up, NEW kind \in Kinds, NEW busy
  PROVE  LET w == [Added(u, kind) EXCEPT !.waiting = @ \cup {[up |-> u, busy |-> busy]}]
         IN Rowed(w, u) /\ Rowed([w EXCEPT !.place = {}], u)
<1> DEFINE a == Added(u, kind)
           w == [a EXCEPT !.waiting = @ \cup {[up |-> u, busy |-> busy]}]
           v == [w EXCEPT !.place = {}]
<1>1. Rowed(a, u) /\ IsLoop(a)
  BY RowedAdded, AddedRow DEF Ledger, Typed
<1>2. a.waiting = it.waiting
  BY DEF Added
<1> HIDE DEF a
<1>3. /\ w.chain = a.chain /\ w.round = a.round /\ w.queue = a.queue
      /\ w.shaky = a.shaky /\ w.fault = a.fault
      /\ w.waiting = a.waiting \cup {[up |-> u, busy |-> busy]}
  BY <1>1 DEF IsLoop
<1>4. /\ v.chain = a.chain /\ v.round = a.round /\ v.queue = a.queue
      /\ v.shaky = a.shaky /\ v.fault = a.fault
      /\ v.waiting = a.waiting \cup {[up |-> u, busy |-> busy]}
  BY <1>1 DEF IsLoop
<1> HIDE DEF w, v
<1>5. Rowed(w, u) /\ Rowed(v, u)
  BY <1>1, <1>2, <1>3, <1>4 DEF Rowed
<1> QED BY <1>5 DEF a, w, v

LEMMA RowedFailed ==
  ASSUME Ledger, Tries, pc \in AtOne, NEW u \in Up, NEW kind \in Failures, NEW hints
  PROVE  Rowed(Failed(u, kind, hints), u)
<1> DEFINE row == Row(u, kind, hints # {})
           i   == Failed(u, kind, hints)
<1>1. kind \in Kinds /\ (hints # {}) \in BOOLEAN
  BY DEF Kinds, Failures, Sent
<1>2. row \in Rows /\ row.up = u /\ row.round = it.round /\ (row.passing <=> hints # {})
  BY <1>1, TypedRow DEF Ledger, Row
<1>3. /\ i.chain = Append(it.chain, row) /\ i.round = it.round
      /\ i.queue = it.queue /\ i.waiting = it.waiting /\ i.fault = hints
      /\ i.shaky = IF hints = {} THEN it.shaky ELSE it.shaky \cup {u}
  BY DEF Ledger, Typed, IsLoop, Failed
<1> HIDE DEF row, i
<1>4. Rowed(i, u)
  BY <1>2, <1>3 DEF Rowed
<1> QED BY <1>4 DEF i

(* The same upstream again, with less effort.                              *)
LEMMA RowedAgain ==
  ASSUME Ledger, Tries, pc \in AtOne, NEW u \in Up, NEW kind \in Kinds
  PROVE  Rowed([Added(u, kind) EXCEPT !.resent = @ \cup {u}, !.place = {u},
                                      !.queue = <<u>> \o @], u)
<1> DEFINE a == Added(u, kind)
           w == [a EXCEPT !.resent = @ \cup {u}, !.place = {u}, !.queue = <<u>> \o @]
<1>1. Rowed(a, u) /\ IsLoop(a)
  BY RowedAdded, AddedRow DEF Ledger, Typed
<1>q. a.queue = it.queue
  BY DEF Added
<1> HIDE DEF a
<1>2. /\ w.chain = a.chain /\ w.round = a.round /\ w.queue = <<u>> \o a.queue
      /\ w.shaky = a.shaky /\ w.fault = a.fault /\ w.waiting = a.waiting
  BY <1>1 DEF IsLoop
<1> HIDE DEF w
<1>3. Rowed(w, u)
  BY <1>1, <1>q, <1>2 DEF Rowed
<1> QED BY <1>3 DEF a, w

-----------------------------------------------------------------------------
(* The actions *)

(* The loop goes on, or is over, with a row more.                          *)
LEMMA TriesOneMore ==
  ASSUME Ledger, Tries, pc \in AtOne, NEW u \in Up, At(u), UNCHANGED given,
         NEW i, Rowed(i, u), On(i) \/ \E how : Over(i, how)
  PROVE  Tries'
<1>1. Retries(i, given.pin) /\ RowsFit(i.chain, given.pin)
  BY TriesRowed
<1> QED BY <1>1, TriesOn, TriesOver

LEMMA TriesServe ==
  ASSUME Ledger, Tries, pc \in AtOne, NEW u \in Up, At(u), Serve(u)
  PROVE  Tries'
<1>1. Over(Added(u, "Served"), "Served") /\ UNCHANGED given /\ "Served" \in Kinds
  BY DEF Serve, Kinds, Sent
<1>2. Rowed(Added(u, "Served"), u)
  BY <1>1, RowedAdded
<1> QED BY <1>1, <1>2, TriesOneMore

LEMMA TriesFailed ==
  ASSUME Ledger, Tries, pc \in AtOne, NEW u \in Up, At(u), NEW kind \in Failures,
         NEW hints, Onward(u, kind, Failed(u, kind, hints))
  PROVE  Tries'
BY RowedFailed, TriesOneMore DEF Onward

LEMMA TriesNotMade ==
  ASSUME Ledger, Tries, pc \in AtOne, NEW u \in Up, At(u), UNCHANGED given,
         \/ On(NotMade(u)) \/ On([NotMade(u) EXCEPT !.place = {}])
         \/ Over(Added(u, "Unsent"), "Halted")
  PROVE  Tries'
<1>1. "Unsent" \in Kinds
  BY DEF Kinds
<1>2. /\ Rowed(NotMade(u), u) /\ Rowed([NotMade(u) EXCEPT !.place = {}], u)
      /\ Rowed(Added(u, "Unsent"), u)
  BY <1>1, RowedAdded DEF NotMade
<1> QED BY <1>2, TriesOneMore

LEMMA TriesRetry ==
  ASSUME Ledger, Tries, Retry
  PROVE  Tries'
<1>1. PICK healthy \in SUBSET Up, hint \in it.fault :
        it' = Planned(Round(it.shaky, healthy), hint)
  BY DEF Retry
<1>2. PICK again : again \subseteq Pinned(it.shaky) /\ it' = Planned(again, hint)
  BY <1>1 DEF Round
<1> DEFINE next == Among(Candidates, again)
           wake == now + Longer(Backoff, hint)
           l    == Len(it.chain)
           r    == it.round
<1>3. it' = [it EXCEPT !.fault = {}, !.shaky = {}, !.wake = wake, !.next = next]
  BY <1>2 DEF Planned
<1>4. next \in Seq(Up) /\ ToSet(next) \subseteq again
  <2>1. Candidates \in Seq(Up)
    BY AttemptsAssumption
  <2>2. next \in Seq(Up) /\ \E h : Picked(h, next, Candidates, again, Len(Candidates))
    BY <2>1, AmongPicks
  <2>3. DOMAIN next = 1 .. Len(next)
    BY <2>2, LenProperties
  <2>4. \A k \in 1 .. Len(next) : next[k] \in again
    BY <2>2 DEF Picked
  <2> HIDE DEF next
  <2> QED BY <2>2, <2>3, <2>4 DEF ToSet
<1> HIDE DEF next, wake
<1>5. /\ it'.chain = it.chain /\ it'.round = r /\ it'.queue = it.queue
      /\ it'.waiting = it.waiting /\ it'.next = next
      /\ it'.shaky = {} /\ it'.fault = {}
  BY <1>3 DEF Ledger, Typed, IsLoop
<1>6. /\ pc = "Loop" /\ pc' = "Backoff" /\ UNCHANGED <<given, hop>>
      /\ it.queue = <<>> /\ it.waiting = {}
  BY DEF Retry, Tried
<1>7. /\ Retries(it, given.pin) /\ it.chain \in Seq(Rows) /\ r \in Nat
  BY <1>6 DEF Tries, Ledger, Typed
<1>8. hop.up = {}
  BY <1>6 DEF Tries, AtOne
<1>9. PassedLast(it.chain, r)
  <2>1. l > 0 /\ it.chain[l].passing /\ it.chain[l].round = r
    BY <1>7 DEF Retries
  <2>2. l \in DOMAIN it.chain /\ \A k \in DOMAIN it.chain : k <= l
    BY <1>7, <2>1, LenProperties
  <2> QED BY <2>1, <2>2 DEF PassedLast, LastIn
<1>10. ASSUME NEW u \in ToSet(next) PROVE Tryable(it.chain, r + 1, u, given.pin)
  <2>1. u \in it.shaky /\ MayStay(u, given.pin)
    BY <1>2, <1>4 DEF Pinned, MayStay
  <2>2. PassedAt(it.chain, r, u, l)
    BY <1>7, <2>1 DEF Retries
  <2> DEFINE n == r + 1
  <2>3. n - 1 = r
    BY <1>7
  <2> HIDE DEF n
  <2>4. Tryable(it.chain, n, u, given.pin)
    BY <2>1, <2>2, <2>3 DEF Tryable
  <2> QED BY <2>4 DEF n
<1>11. RoundPlanned(it', given'.pin)
  BY <1>4, <1>5, <1>6, <1>9, <1>10 DEF RoundPlanned
<1>12. Retries(it', given'.pin)
  BY <1>5, <1>6, <1>7 DEF Retries
<1> QED BY <1>6, <1>8, <1>11, <1>12 DEF Tries, AtOne

LEMMA TriesBackoffOver ==
  ASSUME Ledger, Tries, BackoffOver
  PROVE  Tries'
<1> DEFINE i == [it EXCEPT !.round = @ + 1, !.queue = it.next, !.next = <<>>, !.wake = 0]
<1>1. pc = "Backoff" /\ On(i) /\ UNCHANGED given
  BY DEF BackoffOver
<1>2. /\ it.chain \in Seq(Rows) /\ it.round \in Nat
      /\ i.chain = it.chain /\ i.round = it.round + 1 /\ i.queue = it.next
      /\ i.waiting = it.waiting /\ i.shaky = it.shaky /\ i.fault = it.fault
  BY DEF Ledger, Typed, IsLoop
<1>3. RoundPlanned(it, given.pin) /\ ChainFits(it.chain, it.round, given.pin)
  BY <1>1 DEF Tries, Retries
<1> HIDE DEF i
<1>4. ChainFits(i.chain, i.round, given.pin)
  <2>1. ASSUME NEW k \in DOMAIN it.chain PROVE it.chain[k].round <= it.round + 1
    <3>1. it.chain[k] \in Rows
      BY <1>2, ElementOfSeq, LenProperties
    <3>2. it.chain[k].round \in Nat /\ it.chain[k].round <= it.round
      BY <1>3, <3>1 DEF ChainFits, Rows
    <3> QED BY <1>2, <3>2
  <2>2. PassedLast(it.chain, it.round + 1 - 1)
    <3>1. it.round + 1 - 1 = it.round
      BY <1>2
    <3> QED BY <1>3, <3>1 DEF RoundPlanned
  <2> QED BY <1>2, <1>3, <2>1, <2>2 DEF ChainFits
<1>5. Retries(i, given.pin)
  BY <1>2, <1>3, <1>4 DEF Retries, RoundPlanned
<1> QED BY <1>1, <1>5, TriesOn

LEMMA TriesNextInQueue ==
  ASSUME Ledger, Tries, NextInQueue
  PROVE  Tries'
<1> DEFINE i == [it EXCEPT !.queue = Tail(@)]
           u == Head(it.queue)
           q == it.queue
<1>1. /\ pc = "Loop" /\ q # <<>> /\ UNCHANGED given
      /\ \E placed : Look(i, u, placed)
  BY DEF NextInQueue, Look
<1>2. Retries(it, given.pin)
  BY <1>1 DEF Tries
<1>3. /\ Tail(q) \in Seq(Up) /\ ToSet(Tail(q)) \subseteq ToSet(q) /\ u \in ToSet(q)
  <2>1. q \in Seq(Up) /\ Len(q) \in Nat /\ DOMAIN q = 1 .. Len(q) /\ Len(q) # 0
    BY <1>1, <1>2, LenProperties, EmptySeq DEF Retries
  <2>2. /\ Tail(q) \in Seq(Up) /\ Len(Tail(q)) = Len(q) - 1
        /\ \A k \in 1 .. Len(q) - 1 : Tail(q)[k] = q[k + 1]
        /\ u = q[1]
    BY <1>1, <2>1, HeadTailProperties
  <2>3. DOMAIN Tail(q) = 1 .. Len(q) - 1
    BY <2>2, LenProperties
  <2>4. 1 \in 1 .. Len(q) /\ \A k \in 1 .. Len(q) - 1 : k + 1 \in 1 .. Len(q)
    BY <2>1
  <2> HIDE DEF q, u
  <2> QED BY <2>1, <2>2, <2>3, <2>4 DEF ToSet
<1>4. IsLoop(i) /\ Shrunk(i)
  <2>1. /\ IsLoop(i) /\ i.chain = it.chain /\ i.round = it.round /\ i.queue = Tail(q)
        /\ i.waiting = it.waiting /\ i.shaky = it.shaky /\ i.fault = it.fault
    BY DEF Ledger, Typed, IsLoop
  <2> HIDE DEF i
  <2> QED BY <1>3, <2>1 DEF Shrunk
<1>5. Retries(i, given.pin)
  BY <1>2, <1>4, ShrunkFits
<1>6. Tryable(i.chain, i.round, u, given.pin)
  BY <1>2, <1>3, <1>4 DEF Retries, Shrunk
<1> HIDE DEF i, u
<1> QED BY <1>1, <1>4, <1>5, <1>6, TriesLook

LEMMA TriesOneReady ==
  ASSUME Ledger, Tries, OneReady
  PROVE  Tries'
<1>1. PICK w \in it.waiting : Look([it EXCEPT !.waiting = @ \ {w}], w.up, TRUE)
  BY DEF OneReady
<1> DEFINE i == [it EXCEPT !.waiting = @ \ {w}]
<1>2. pc = "WaitAny" /\ UNCHANGED given /\ Look(i, w.up, TRUE)
  BY <1>1 DEF OneReady, Look
<1>3. Retries(it, given.pin)
  BY <1>2 DEF Tries
<1>4. /\ IsLoop(i) /\ i.chain = it.chain /\ i.round = it.round /\ i.queue = it.queue
      /\ i.waiting \subseteq it.waiting /\ i.shaky = it.shaky /\ i.fault = it.fault
  BY DEF Ledger, Typed, IsLoop
<1> HIDE DEF i
<1>5. Retries(i, given.pin) /\ Tryable(i.chain, i.round, w.up, given.pin)
  <2>1. Shrunk(i)
    BY <1>3, <1>4 DEF Shrunk, Retries
  <2>2. Tryable(it.chain, it.round, w.up, given.pin)
    BY <1>3 DEF Retries
  <2> QED BY <1>3, <1>4, <2>1, <2>2, ShrunkFits
<1> QED BY <1>2, <1>4, <1>5, TriesLook

LEMMA TriesAllGone ==
  ASSUME Ledger, Tries, AllGone
  PROVE  Tries'
<1>1. PICK used : On([it EXCEPT !.waiting = {}, !.spent = @ \cup used])
  BY DEF AllGone
<1> DEFINE i == [it EXCEPT !.waiting = {}, !.spent = @ \cup used]
<1>2. pc = "WaitAny" /\ UNCHANGED given /\ On(i)
  BY <1>1 DEF AllGone
<1>3. Retries(it, given.pin)
  BY <1>2 DEF Tries
<1>4. /\ i.chain = it.chain /\ i.round = it.round /\ i.queue = it.queue
      /\ i.waiting = {} /\ i.shaky = it.shaky /\ i.fault = it.fault
  BY DEF Ledger, Typed, IsLoop
<1> HIDE DEF i
<1>5. Retries(i, given.pin)
  BY <1>3, <1>4, ShrunkFits DEF Shrunk, Retries
<1> QED BY <1>2, <1>5, TriesOn

LEMMA TriesSkips ==
  ASSUME Ledger, Tries, SkipUsedUp \/ Skip \/ StayLate \/ StayGone
  PROVE  Tries'
<1>1. PICK u \in Up, busy \in BOOLEAN :
        /\ At(u)
        /\ \/ On(UsedUp(u)) \/ On([UsedUp(u) EXCEPT !.place = {}])
           \/ On(PutAside(u, busy)) \/ On([PutAside(u, busy) EXCEPT !.place = {}])
  BY DEF SkipUsedUp, Skip, StayLate, StayGone, StayOver
<1>2. pc \in AtOne /\ UNCHANGED given /\ "Skipped" \in Kinds
  BY DEF SkipUsedUp, Skip, StayLate, StayGone, StayOver, AtOne, Kinds
<1>3. /\ Rowed(UsedUp(u), u) /\ Rowed([UsedUp(u) EXCEPT !.place = {}], u)
  BY <1>2, RowedAdded DEF UsedUp
<1>4. Rowed(PutAside(u, busy), u) /\ Rowed([PutAside(u, busy) EXCEPT !.place = {}], u)
  BY <1>2, RowedAside DEF PutAside
<1> QED BY <1>1, <1>2, <1>3, <1>4, TriesOneMore

LEMMA TriesUnsent ==
  ASSUME Ledger, Tries, Unfit \/ NotSent
  PROVE  Tries'
<1>1. PICK u \in Up :
        /\ At(u)
        /\ \/ On(NotMade(u)) \/ On([NotMade(u) EXCEPT !.place = {}])
           \/ Over(Added(u, "Unsent"), "Halted") \/ Over(it, "Halted")
  BY DEF Unfit, NotSent
<1>2. pc \in AtOne /\ UNCHANGED given
  BY DEF Unfit, NotSent, AtOne
<1>3. RowsFit(it.chain, given.pin)
  BY <1>2 DEF Tries, Retries, ChainFits, AtOne
<1> QED BY <1>1, <1>2, <1>3, TriesOver, TriesNotMade

LEMMA TriesAnswers ==
  ASSUME Ledger, Tries,
         NoAnswer \/ BreakOff \/ Quiet \/ ErrorStatus \/ Content \/ OpeningError
  PROVE  Tries'
<1> DEFINE Fails(u) == \E kind \in Failures : \E hints : Onward(u, kind, Failed(u, kind, hints))
<1>0. {"TimedOut", "Unreachable", "Failed", "UsedUp"} \subseteq Failures
  BY DEF Failures
<1>1. PICK u \in Up :
        At(u) /\ (Serve(u) \/ (On(NotMade(u)) /\ UNCHANGED given) \/ Fails(u))
  <2>1. CASE NoAnswer
    BY <1>0, <2>1 DEF NoAnswer
  <2>2. CASE BreakOff
    BY <1>0, <2>2 DEF BreakOff
  <2>3. CASE Quiet
    BY <1>0, <2>3 DEF Quiet
  <2>4. CASE ErrorStatus
    BY <1>0, <2>4 DEF ErrorStatus
  <2>5. CASE Content
    BY <2>5 DEF Content
  <2>6. CASE OpeningError
    BY <1>0, <2>6 DEF OpeningError
  <2> QED BY <2>1, <2>2, <2>3, <2>4, <2>5, <2>6
<1>2. pc \in AtOne
  BY DEF NoAnswer, BreakOff, Quiet, ErrorStatus, Content, OpeningError, AtOne
<1> QED BY <1>1, <1>2, TriesServe, TriesFailed, TriesNotMade

LEMMA TriesEffortRefused ==
  ASSUME Ledger, Tries, EffortRefused
  PROVE  Tries'
<1>1. PICK u \in Up :
        At(u) /\ Onward(u, "Effort",
          [Added(u, "Effort") EXCEPT !.resent = @ \cup {u}, !.place = {u},
                                     !.queue = <<u>> \o @])
  BY DEF EffortRefused
<1>2. pc \in AtOne /\ "Effort" \in Kinds
  BY DEF EffortRefused, AtOne, Kinds, Sent
<1> QED BY <1>1, <1>2, RowedAgain, TriesOneMore DEF Onward

LEMMA TriesTooFast ==
  ASSUME Ledger, Tries, TooFast
  PROVE  Tries'
<1>1. PICK u \in Up : At(u) /\ Throttled(u)
  BY DEF TooFast
<1>2. pc \in AtOne /\ "Limited" \in Kinds
  BY DEF TooFast, AtOne, Kinds, Sent
<1> QED BY <1>1, <1>2, RowedAside, TriesOneMore DEF Throttled

LEMMA TriesHeaders ==
  ASSUME Ledger, Tries, Headers
  PROVE  Tries'
<1>1. PICK u \in Up :
        At(u) /\ (Serve(u) \/ (pc' = "Opening" /\ UNCHANGED <<given, it, hop>>))
  <2>1. PICK u \in Up, held \in BOOLEAN :
          /\ At(u)
          /\ IF held
             THEN /\ pc' = "Opening"
                  /\ UNCHANGED <<given, now, it, hop, paused, bound, result>>
             ELSE Serve(u)
    BY DEF Headers
  <2> QED BY <2>1
<1>2. pc = "Sent"
  BY DEF Headers
<1>3. CASE pc' = "Opening" /\ UNCHANGED <<given, it, hop>>
  BY <1>2, <1>3 DEF Tries, AtOne
<1> QED BY <1>1, <1>2, <1>3, TriesServe DEF AtOne

LEMMA TriesOverAsIs ==
  ASSUME Ledger, Tries, pc # "Over", UNCHANGED given, NEW how, Over(it, how)
  PROVE  Tries'
<1>1. RowsFit(it.chain, given.pin)
  BY DEF Tries, Retries, ChainFits
<1> QED BY <1>1, TriesOver

LEMMA TriesAbort ==
  ASSUME Ledger, Tries, Abort
  PROVE  Tries'
<1>1. CASE pc # "Over" /\ Over(it, "Halted") /\ UNCHANGED given
  BY <1>1, TriesOverAsIs
<1>2. CASE \E u \in Up : /\ pc \in {"Sent", "Opening"} /\ At(u)
                         /\ Over(Added(u, "Aborted"), "Halted") /\ UNCHANGED given
  <2>1. pc \in AtOne /\ "Aborted" \in Kinds
    BY <1>2 DEF AtOne, Kinds, Sent
  <2> QED BY <1>2, <2>1, RowedAdded, TriesOneMore
<1> QED BY <1>1, <1>2 DEF Abort

LEMMA TriesLeave ==
  ASSUME Ledger, Tries, Leave
  PROVE  Tries'
<1>1. pc' = "Over" /\ it' = [Dropped(it) EXCEPT !.chain = <<>>] /\ hop' = NoHop
  BY DEF Leave
<1>2. it'.chain = <<>>
  BY <1>1 DEF Dropped, New
<1>3. RowsFit(it'.chain, given'.pin)
  BY <1>2 DEF RowsFit
<1> QED BY <1>1, <1>3 DEF Tries, AtOne, NoHop

LEMMA TriesQuiet ==
  ASSUME Ledger, Tries, WaitForAny \/ Go \/ Stay \/ StayReady \/ Tick
  PROVE  Tries'
<1>1. CASE Go \/ Stay
  <2>1. /\ pc = "Look" /\ pc' \in {"Sent", "WaitOne"} /\ UNCHANGED <<given, hop>>
        /\ it' = [it EXCEPT !.place = {}]
    BY <1>1 DEF Go, Stay
  <2> QED BY <2>1, TriesWait DEF Ledger, AtOne
<1>2. CASE WaitForAny
  BY <1>2 DEF WaitForAny, Tries, AtOne
<1>3. CASE StayReady
  <2>1. /\ pc = "WaitOne" /\ pc' = "Look" /\ hop' = [hop EXCEPT !.placed = TRUE]
        /\ UNCHANGED <<given, it>>
    BY <1>3 DEF StayReady
  <2>2. hop'.up = hop.up /\ hop' = [up |-> hop'.up, last |-> hop'.last, placed |-> hop'.placed]
    BY <2>1 DEF Tries
  <2> QED BY <2>1, <2>2 DEF Tries, AtOne
<1>4. CASE Tick
  BY <1>4 DEF Tick, Tries, AtOne
<1> QED BY <1>1, <1>2, <1>3, <1>4

LEMMA TriesInit == Init => Tries
<1> SUFFICES ASSUME Init PROVE Tries
  OBVIOUS
<1>1. pc = "Loop" /\ it = New /\ Candidates \in Seq(Up) /\ hop = NoHop
  BY AttemptsAssumption DEF Init
<1>2. /\ it.chain = <<>> /\ it.round = 0 /\ it.queue = Candidates
      /\ it.waiting = {} /\ it.fault = {} /\ it.shaky = {}
  BY <1>1 DEF New
<1>3. ChainFits(it.chain, it.round, given.pin)
  BY <1>2 DEF ChainFits, RowsFit
<1>4. Retries(it, given.pin)
  BY <1>1, <1>2, <1>3 DEF Retries, Tryable
<1> QED BY <1>1, <1>4 DEF Tries, AtOne, NoHop

LEMMA TriesNext == Ledger /\ Tries /\ [Next]_vars => Tries'
<1> SUFFICES ASSUME Ledger, Tries, [Next]_vars PROVE Tries'
  OBVIOUS
<1>1. CASE UNCHANGED vars
  BY <1>1 DEF vars, Tries, AtOne
<1>2. CASE Own
  <2>1. CASE Finish \/ Stall \/ Late
    <3>1. pc # "Over" /\ UNCHANGED given /\ \E how : Over(it, how)
      BY <2>1 DEF Finish, Stall, Late, Tried
    <3> QED BY <3>1, TriesOverAsIs
  <2> QED BY <1>2, <2>1, TriesRetry, TriesBackoffOver, TriesNextInQueue, TriesSkips,
             TriesUnsent, TriesAnswers, TriesEffortRefused, TriesTooFast, TriesHeaders,
             TriesQuiet DEF Own
<1>3. CASE OneReady \/ AllGone \/ StayReady \/ StayGone \/ Abort \/ Leave \/ Tick
  BY <1>3, TriesOneReady, TriesAllGone, TriesQuiet, TriesSkips, TriesAbort, TriesLeave
<1> QED BY <1>1, <1>2, <1>3 DEF Next

(* Only what may pass is tried again (retry.rs and the rounds of           *)
(* try_upstreams): there is another round only after one whose last        *)
(* attempt failed that way, it goes only to upstreams that failed that way *)
(* in that very round, and a request that is to stay at an upstream tries  *)
(* no other again - however many rounds there are, and whatever else is    *)
(* skipped, put aside, sent again with less effort or waited for.          *)
THEOREM OnlyPassingIsRetried == Spec => []OnlyPassingRetried
<1>1. Tries => OnlyPassingRetried
  <2>1. Tries => RowsFit(it.chain, given.pin)
    BY DEF Tries, Retries, ChainFits
  <2>2. RowsFit(it.chain, given.pin) => OnlyPassingRetried
    BY DEF RowsFit, OnlyPassingRetried, PassedLast, PassedAt, MayStay, LastIn, LastOf
  <2> QED BY <2>1, <2>2
<1> QED BY <1>1, LedgerHolds, TriesInit, TriesNext, PTL DEF Spec
=============================================================================
