------------------------------ MODULE Attempts ------------------------------
(***************************************************************************)
(* One request on its way through its candidates: try_upstreams of         *)
(* server/pipeline/hop.rs in tw-gateway, with the rounds of retries        *)
(* (retry.rs), the rows of the chain of attempts (tw-api) and what they    *)
(* come to on the usage limits of the upstreams.                           *)
(*                                                                         *)
(* What the other requests do to an upstream is the environment: at any    *)
(* look it may be free, full, paused, at its limit or used up, and         *)
(* whatever it answers is one of the answers it may give.  Requests that   *)
(* only count tokens are left out.                                         *)
(***************************************************************************)
EXTENDS Lists, FiniteSets

CONSTANTS
  Up,          \* the upstreams that the request may go to
  Candidates,  \* the order in which it does
  Stern,       \* those that may refuse the effort that is asked for
  Far,         \* those that a connection fails to reach in time, or not at all
  Deadline,    \* how long a request may wait, if it may
  MaxTime      \* bound: the clock

ASSUME AttemptsAssumption ==
  /\ Candidates \in Seq(Up) /\ Cardinality(Up) = Len(Candidates)
  /\ Up = {Candidates[i] : i \in DOMAIN Candidates}
  /\ Stern \subseteq Up /\ Far \subseteq Up
  /\ Deadline \in Nat \ {0} /\ MaxTime \in Nat /\ Deadline <= MaxTime

VARIABLES
  given,   \* how long the request may wait, and whether it is to stay
  now,     \* the clock
  pc,      \* where the loop is
  it,      \* what the loop keeps
  hop,     \* the upstream it is at
  paused,  \* until when each upstream takes nothing, after a 429
  bound,   \* how many tries each has in the memory of its usage limits
  result   \* what comes of it

vars == <<given, now, pc, it, hop, paused, bound, result>>

(* What the loop begins with.                                              *)
NoHop == [up |-> {}, last |-> FALSE, placed |-> FALSE]

New ==
  [queue   |-> Candidates,  \* not looked at yet
   waiting |-> {},          \* put aside until they can be sent to
   spent   |-> {},          \* used up until their next period
   fault   |-> {},          \* the last failure passes: a hint
   shaky   |-> {},          \* where such failures were, this round
   round   |-> 0,           \* how many rounds of retries
   next    |-> <<>>,        \* the one to come, and when
   wake    |-> 0,
   reached |-> FALSE,       \* an upstream has failed
   err     |-> {},          \* whose error there is to report
   resent  |-> {},          \* where it was sent again with less effort
   place   |-> {},          \* the place kept for that
   chain   |-> <<>>]        \* the attempts

Init ==
  /\ given \in [until : {0, Deadline},    \* until when it may wait
                pin : {{}, {Candidates[1]}}]  \* it is to stay there
  /\ now = 0 /\ pc = "Loop"
  /\ it = New
  /\ hop = NoHop
  /\ paused = [u \in Up |-> 0] /\ bound = [u \in Up |-> 0]
  /\ result = [kind |-> "Open", up |-> {}]

-----------------------------------------------------------------------------
(* The chain of attempts *)

(* How an attempt ended.                                                   *)
(*   Skipped      not sent: full, paused, at a limit or used up            *)
(*   Unsent       not sent: it could not be made or signed, or not here    *)
(*   Unreachable  not sent: there was no connection                        *)
(*   TimedOut     the same, after a time                                   *)
(*   Failed       an error status; before any content: an error in the     *)
(*                stream, its end, or silence for too long                 *)
(*   Aborted      by the user                                              *)
(*   Effort       400: it does not take this effort                        *)
(*   UsedUp       429: the quota or the money is used up                   *)
(*   Limited      429, or its like in a stream: too fast                   *)
(*   Served       the answer goes to the client                            *)
Sent == {"TimedOut", "Failed", "Aborted", "Effort", "UsedUp", "Limited", "Served"}

(* Which rows count for the limits of the upstream.                        *)
Counts == Sent \ {"UsedUp", "Limited"}

Counted(chain, u) ==
  Cardinality({i \in DOMAIN chain : chain[i].up = u /\ chain[i].kind \in Counts})

Row(u, kind, passing) ==
  [up |-> u, kind |-> kind, passing |-> passing, round |-> it.round]

Added(u, kind) == [it EXCEPT !.chain = Append(@, Row(u, kind, FALSE))]

(* It could not be sent there: this is the error so far.                   *)
NotMade(u) == [Added(u, "Unsent") EXCEPT !.err = {u}]

(* A slip: every 429 only asks to wait.                                    *)
SlipFailed(u, kind, hints) ==
  [it EXCEPT !.reached = kind # "UsedUp", !.err = {u}, !.fault = hints,
             !.shaky = IF hints = {} THEN @ ELSE @ \cup {u},
             !.chain = Append(@, Row(u, kind, hints # {}))]

(* It has failed there: its error is reported, unless somebody else takes  *)
(* the request.  A failure that passes may be tried again.                 *)
Failed(u, kind, hints) ==
  [it EXCEPT !.reached = TRUE, !.err = {u}, !.fault = hints,
             !.shaky = IF hints = {} THEN @ ELSE @ \cup {u},
             !.chain = Append(@, Row(u, kind, hints # {}))]

(* Put aside, to be waited for.                                            *)
PutAside(u, busy) ==
  [Added(u, "Skipped") EXCEPT !.waiting = @ \cup {[up |-> u, busy |-> busy]}]

UsedUp(u) == [Added(u, "Skipped") EXCEPT !.spent = @ \cup {u}]

(* A slip: a 429 that is not about the rate is not given back.             *)
SlipBooked(u, kind) ==
  [bound EXCEPT
     ![u] = IF kind \in {"Unreachable", "TimedOut", "Limited"}
            THEN @ ELSE @ + 1]

(* The try counts in memory, whatever comes of it, unless it is given      *)
(* back: Spent.                                                            *)
Booked(u, kind) ==
  [bound EXCEPT
     ![u] = IF kind \in {"Unreachable", "TimedOut", "UsedUp", "Limited"}
            THEN @ ELSE @ + 1]

-----------------------------------------------------------------------------
(* The end *)

(* Of what the loop keeps, only the chain is told.                         *)
Dropped(i) == [New EXCEPT !.queue = <<>>, !.round = i.round, !.chain = i.chain]

Over(i, how) ==
  /\ pc' = "Over" /\ hop' = NoHop
  /\ it' = Dropped(i)
  /\ result' =
       IF how \in {"Halted", "Served"} THEN [kind |-> how, up |-> hop.up]
       ELSE IF ~i.reached /\ (how = "Stalled" \/ (i.err = {} /\ i.spent # {}))
            THEN [kind |-> "Later", up |-> {}]
       ELSE IF i.err # {} THEN [kind |-> "Failed", up |-> i.err]
       ELSE [kind |-> "NoneAlive", up |-> {}]

On(i) == pc' = "Loop" /\ hop' = NoHop /\ it' = i /\ UNCHANGED result

-----------------------------------------------------------------------------
(* Another round of retries *)

Longer(a, b) == IF a > b THEN a ELSE b

(* How long to back off: no shorter than Backoff, whatever the hint.       *)
Backoff == 1

InTime(hint) == given.until - now >= Longer(Backoff, hint)

(* The upstreams to try again.  A request that is to stay stays.           *)
Pinned(shaky) == IF given.pin = {} THEN shaky ELSE shaky \cap given.pin

Round(shaky, healthy) ==
  LET again == Pinned(shaky)
  IN IF Cardinality(again) > 1 /\ again \cap healthy # {}
     THEN again \cap healthy ELSE again

Feasible(shaky, hints) ==
  Pinned(shaky) # {} /\ \E hint \in hints : InTime(hint)

Tried == pc = "Loop" /\ it.queue = <<>> /\ it.waiting = {}

Finish ==
  /\ Tried /\ ~Feasible(it.shaky, it.fault)
  /\ Over(it, "Done")
  /\ UNCHANGED <<given, now, paused, bound>>

(* A slip: the failures of this round are held against the next one too.   *)
SlipPlanned(again, hint) ==
  [it EXCEPT !.fault = {},
             !.wake = now + Longer(Backoff, hint),
             !.next = Among(Candidates, again)]

Planned(again, hint) ==
  [it EXCEPT !.fault = {}, !.shaky = {},
             !.wake = now + Longer(Backoff, hint),
             !.next = Among(Candidates, again)]

Retry ==
  \E healthy \in SUBSET Up, hint \in it.fault :
    /\ Tried /\ Feasible(it.shaky, it.fault)
    /\ pc' = "Backoff"
    /\ it' = Planned(Round(it.shaky, healthy), hint)
    /\ UNCHANGED <<given, now, hop, paused, bound, result>>

BackoffOver ==
  /\ pc = "Backoff" /\ now >= it.wake
  /\ On([it EXCEPT !.round = @ + 1, !.queue = it.next, !.next = <<>>,
                 !.wake = 0])
  /\ UNCHANGED <<given, now, paused, bound>>

-----------------------------------------------------------------------------
(* The next upstream *)

Look(i, u, placed) ==
  /\ pc' = "Look"
  /\ hop' = [up |-> {u}, last |-> i.queue = <<>> /\ i.waiting = {},
             placed |-> placed]
  /\ it' = [i EXCEPT !.fault = {}]
  /\ UNCHANGED <<given, now, paused, bound, result>>

NextInQueue ==
  /\ pc = "Loop" /\ it.queue # <<>>
  /\ LET u == Head(it.queue)
     IN Look([it EXCEPT !.queue = Tail(@)], u, u \in it.place)

(* Everybody was looked at, and some of them can be waited for.            *)
WaitForAny ==
  /\ pc = "Loop" /\ it.queue = <<>> /\ it.waiting # {}
  /\ now < given.until
  /\ pc' = "WaitAny"
  /\ UNCHANGED <<given, now, it, hop, paused, bound, result>>

(* There is no time to wait, or nobody will take it in this time.          *)
Stall ==
  /\ pc = "Loop" /\ it.queue = <<>> /\ it.waiting # {}
  /\ now >= given.until \/ \A w \in it.waiting : ~w.busy
  /\ Over(it, "Stalled")
  /\ UNCHANGED <<given, now, paused, bound>>

OneReady ==
  /\ pc = "WaitAny"
  /\ \E w \in it.waiting :
       /\ paused[w.up] <= now
       /\ Look([it EXCEPT !.waiting = @ \ {w}], w.up, TRUE)

(* A slip: nobody ends the wait.                                           *)
SlipLate == FALSE /\ UNCHANGED vars

Late ==
  /\ pc = "WaitAny" /\ now >= given.until
  /\ Over(it, "Stalled")
  /\ UNCHANGED <<given, now, paused, bound>>

(* There is nobody left to wait for: used up, or disabled.                 *)
AllGone ==
  /\ pc = "WaitAny"
  /\ \E used \in SUBSET {w.up : w \in it.waiting} :
       On([it EXCEPT !.waiting = {}, !.spent = @ \cup used])
  /\ UNCHANGED <<given, now, paused, bound>>

-----------------------------------------------------------------------------
(* At an upstream, before anything is sent *)

At(u) == hop.up = {u}
Known(u) == \E i \in DOMAIN it.chain : it.chain[i].up = u

(* It cannot answer this request, a rule denies it there, or cannot be     *)
(* evaluated.                                                              *)
Unfit ==
  \E u \in Up :
    /\ pc = "Look" /\ At(u) /\ ~hop.placed /\ ~Known(u)
    /\ \/ On(NotMade(u))
       \/ \E i \in {it, Added(u, "Unsent")} : Over(i, "Halted")
    /\ UNCHANGED <<given, now, paused, bound>>

(* It has its place there, or gets it: it can be sent.                     *)
Placed == hop.placed \/ \A u \in hop.up : paused[u] <= now

Go ==
  /\ pc = "Look" /\ Placed
  /\ pc' = "Sent" /\ it' = [it EXCEPT !.place = {}]
  /\ UNCHANGED <<given, now, hop, paused, bound, result>>

(* Used up until its next period: there is nothing to wait for.            *)
SkipUsedUp ==
  \E u \in Up :
    /\ pc = "Look" /\ At(u) /\ ~hop.placed
    /\ On([UsedUp(u) EXCEPT !.place = {}])
    /\ UNCHANGED <<given, now, paused, bound>>

(* Full, paused or at a limit: a conversation that is to stay waits here.  *)
Stay ==
  /\ pc = "Look" /\ ~hop.placed
  /\ hop.up = given.pin /\ now < given.until
  /\ pc' = "WaitOne" /\ it' = [it EXCEPT !.place = {}]
  /\ UNCHANGED <<given, now, hop, paused, bound, result>>

Skip ==
  \E u \in Up, busy \in BOOLEAN :
    /\ pc = "Look" /\ At(u) /\ ~hop.placed
    /\ (hop.up = given.pin /\ now < given.until) => ~busy
    /\ On([PutAside(u, busy) EXCEPT !.place = {}])
    /\ UNCHANGED <<given, now, paused, bound>>

StayReady ==
  /\ pc = "WaitOne" /\ \A u \in hop.up : paused[u] <= now
  /\ pc' = "Look" /\ hop' = [hop EXCEPT !.placed = TRUE]
  /\ UNCHANGED <<given, now, it, paused, bound, result>>

StayOver(u) ==
  /\ pc = "WaitOne" /\ At(u)
  /\ \/ On(UsedUp(u))
     \/ \E busy \in BOOLEAN : On(PutAside(u, busy))
  /\ UNCHANGED <<given, now, paused, bound>>

StayLate == now >= given.until /\ \E u \in Up : StayOver(u)
StayGone == now < given.until /\ \E u \in Up : StayOver(u)

(* A plugin refuses the request, or its hop; it cannot be converted; there *)
(* are no credentials.                                                     *)
NotSent ==
  \E u \in Up :
    /\ pc = "Look" /\ At(u) /\ Placed
    /\ \/ On([NotMade(u) EXCEPT !.place = {}])
       \/ Over(Added(u, "Unsent"), "Halted")
    /\ UNCHANGED <<given, now, paused, bound>>

-----------------------------------------------------------------------------
(* What the upstream answers *)

(* The upstream has had the request: the loop goes on.                     *)
Onward(u, kind, i) ==
  /\ On(i) /\ bound' = Booked(u, kind)
  /\ UNCHANGED <<given, now, paused>>

Serve(u) ==
  /\ Over(Added(u, "Served"), "Served") /\ bound' = Booked(u, "Served")
  /\ UNCHANGED <<given, now, paused>>

(* Too fast: it is no failure, and it is waited for.                       *)
Throttled(u) ==
  /\ On([Added(u, "Limited") EXCEPT
           !.waiting = @ \cup {[up |-> u, busy |-> FALSE]}])
  /\ bound' = Booked(u, "Limited")
  /\ paused' = [paused EXCEPT ![u] = now + 1]
  /\ UNCHANGED <<given, now>>

(* No connection, in time or at all; or it could not be signed.            *)
NoAnswer ==
  \E u \in Up :
    /\ pc = "Sent" /\ At(u)
    /\ \/ LET kind == IF u \in Far THEN "TimedOut" ELSE "Unreachable"
          IN Onward(u, kind, Failed(u, kind, {0}))
       \/ On(NotMade(u)) /\ UNCHANGED <<given, now, paused, bound>>

(* It breaks off before the headers or before the content.                 *)
BreakOff ==
  \E u \in Up :
    /\ pc \in {"Sent", "Opening"} /\ At(u)
    /\ Onward(u, "Failed", Failed(u, "Failed", {0}))

(* No headers, or no content, in time.  The last one goes to the client    *)
(* all the same, once there are headers.                                   *)
Quiet ==
  \E u \in Up :
    /\ pc \in {"Sent", "Opening"} /\ At(u)
    /\ IF pc = "Opening" /\ hop.last THEN Serve(u)
       ELSE Onward(u, "Failed", Failed(u, "Failed", {}))

(* It does not take this effort: again, with another, on the same place.   *)
EffortRefused ==
  \E u \in Up :
    /\ pc = "Sent" /\ At(u) /\ u \in Stern \ it.resent
    /\ Onward(u, "Effort",
         [Added(u, "Effort") EXCEPT !.resent = @ \cup {u}, !.place = {u},
                                    !.queue = <<u>> \o @])

TooFast ==
  \E u \in Up : pc \in {"Sent", "Opening"} /\ At(u) /\ Throttled(u)

(* The hints that go with a failure: none, if it does not pass.            *)
Hints == {{}, {0}, {Deadline}}

(* An error status.  A 4xx of the last one goes to the client.             *)
ErrorStatus ==
  \E u \in Up :
    /\ pc = "Sent" /\ At(u)
    /\ \/ Onward(u, "UsedUp", Failed(u, "UsedUp", {}))
       \/ \E hints \in Hints :
            Onward(u, "Failed", Failed(u, "Failed", hints))
       \/ Serve(u)

(* 2xx: the beginning of the answer is held back while somebody else, or   *)
(* another round, could still give another one.                            *)
Headers ==
  \E u \in Up, held \in BOOLEAN :
    /\ pc = "Sent" /\ At(u)
    /\ IF held
       THEN /\ ~hop.last \/ now < given.until
            /\ pc' = "Opening"
            /\ UNCHANGED <<given, now, it, hop, paused, bound, result>>
       ELSE Serve(u)

(* The answer begins with content, or with an error that the client gets.  *)
Content == pc = "Opening" /\ \E u \in Up : At(u) /\ Serve(u)

(* It begins with an error: somebody else, or another round.               *)
OpeningError ==
  \E u \in Up, hints \in Hints :
    /\ pc = "Opening" /\ At(u)
    /\ hop.last => Feasible(it.shaky \cup {u}, hints)
    /\ Onward(u, "Failed", Failed(u, "Failed", hints))

-----------------------------------------------------------------------------
(* The user and the client *)

Abort ==
  \/ /\ pc \in {"WaitAny", "WaitOne", "Backoff"}
     /\ Over(it, "Halted") /\ UNCHANGED <<given, now, paused, bound>>
  \/ \E u \in Up :
       /\ pc \in {"Sent", "Opening"} /\ At(u)
       /\ Over(Added(u, "Aborted"), "Halted")
       /\ bound' = Booked(u, "Aborted")
       /\ UNCHANGED <<given, now, paused>>

(* The client leaves: the loop is dropped where it waits.  What was sent   *)
(* counts, and the chain is never told.                                    *)
Leave ==
  /\ pc \in {"WaitAny", "WaitOne", "Backoff", "Sent", "Opening"}
  /\ pc' = "Over" /\ hop' = NoHop
  /\ it' = [Dropped(it) EXCEPT !.chain = <<>>]
  /\ result' = [kind |-> "Left", up |-> {}]
  /\ bound' = [u \in Up |-> IF pc \in {"Sent", "Opening"} /\ At(u)
                            THEN bound[u] + 1 ELSE bound[u]]
  /\ UNCHANGED <<given, now, paused>>

Tick ==
  /\ pc \in {"WaitAny", "WaitOne", "Backoff", "Sent"} /\ now < MaxTime
  /\ now' = now + 1
  /\ UNCHANGED <<given, pc, it, hop, paused, bound, result>>

-----------------------------------------------------------------------------
(* What the loop does by itself, and what comes of what was sent: there is *)
(* a limit to every connection and to every silence.                       *)
Own ==
  \/ Finish \/ Retry \/ BackoffOver \/ NextInQueue \/ WaitForAny \/ Stall
  \/ Late \/ Unfit \/ Go \/ SkipUsedUp \/ Stay \/ Skip \/ StayLate
  \/ NotSent \/ NoAnswer \/ BreakOff \/ Quiet \/ EffortRefused
  \/ TooFast \/ ErrorStatus \/ Headers \/ Content \/ OpeningError

Next == Own \/ OneReady \/ AllGone \/ StayReady \/ StayGone \/ Abort \/ Leave \/ Tick

Spec == Init /\ [][Next]_vars
FairSpec == Spec /\ WF_vars(Own) /\ WF_vars(Tick)

-----------------------------------------------------------------------------
(* Properties *)

Finished(kinds) == pc = "Over" /\ result.kind \in kinds

(* The chain of attempts and the memory of the usage limits agree: when    *)
(* the request is over, each upstream has as many tries in memory as there *)
(* are rows that count for it.  (The two are told apart in different       *)
(* places: one gives back what did not count, the other reads the row.)    *)
(* But for a client that left, and for a connection that was not made in   *)
(* time: for both see the README.                                          *)
SentHopsCount ==
  pc = "Over" /\ result.kind # "Left" =>
    \A u \in Up :
      (\A i \in DOMAIN it.chain : it.chain[i].up = u => it.chain[i].kind # "TimedOut")
        => bound[u] = Counted(it.chain, u)

(* How an attempt ends that is the fault of the upstream.                  *)
Failures == {"Unreachable", "TimedOut", "Failed", "UsedUp"}

Errors == {i \in DOMAIN it.chain : it.chain[i].kind \in Failures \cup {"Unsent"}}

(* What the client is told is what happened.  It is told to come back      *)
(* later only if no upstream has failed it; the error it gets is the last  *)
(* one; and nobody is alive only if nothing was wrong with anybody.        *)
AnswerFits ==
  /\ Finished({"Later", "NoneAlive"}) =>
       \A i \in DOMAIN it.chain : it.chain[i].kind \notin Failures
  /\ Finished({"Failed"}) =>
       \E i \in Errors : /\ result.up = {it.chain[i].up}
                         /\ \A j \in Errors : j <= i
  /\ Finished({"NoneAlive"}) => Errors = {}

(* The last row of each round before this one.                             *)
LastOf(r) == {i \in DOMAIN it.chain :
                /\ it.chain[i].round = r
                /\ \A j \in DOMAIN it.chain : it.chain[j].round = r => j <= i}

(* Only what may pass is tried again: there is another round only after a  *)
(* round whose last attempt failed that way, it goes only to upstreams     *)
(* that failed that way in that very round, and a request that is to stay  *)
(* at an upstream tries no other again.                                    *)
OnlyPassingRetried ==
  \A i \in DOMAIN it.chain :
    LET row == it.chain[i]
    IN row.round > 0 =>
         /\ \E j \in LastOf(row.round - 1) : it.chain[j].passing
         /\ \E j \in 1..(i - 1) : /\ it.chain[j].round = row.round - 1
                                  /\ it.chain[j].up = row.up
                                  /\ it.chain[j].passing
         /\ given.pin # {} => row.up \in given.pin

(* However the upstreams behave, the request comes to an end: no wait is   *)
(* for ever, and neither is the number of rounds.                          *)
Ends == <>(pc = "Over")
=============================================================================
