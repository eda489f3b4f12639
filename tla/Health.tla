------------------------------- MODULE Health -------------------------------
(***************************************************************************)
(* crates/tw-gateway/src/health.rs, and the reports the gateway makes of   *)
(* it: note_health in crates/tw-gateway/src/server.rs.                     *)
(*                                                                         *)
(* A response that ends is a verdict on its upstream.  The task that       *)
(* judges it changes the record of the upstream under a lock, and after    *)
(* that, in a second step, reports a change of state to the event bus.     *)
(* A report "open" leaves a task behind that sleeps through the pause and  *)
(* then reports "closed", because a pause that runs out changes the state  *)
(* with nobody there to say so.                                            *)
(*                                                                         *)
(* Times are relative and counted in ticks; a sleeping task may be late.   *)
(***************************************************************************)
EXTENDS Breaker, FiniteSets

CONSTANTS
  Upstreams,
  Judges,        \* tasks that judge responses: as many at a time as this
  Timers,        \* bound: reports of a recovery pending at a time
  Settings,      \* the `failover` settings a configuration may hold
  HeldFor,       \* how long a stated cause (no balance, quota) may pause
  Takeovers,     \* bound: how often a new core takes over
  Nobody         \* no upstream

(* `failures` is the same in all settings of one instance: the breaker     *)
(* counts no further than that.                                            *)
ASSUME SettingsAssumption ==
  /\ Settings # {} /\ IsFiniteSet(Settings)
  /\ \A s \in Settings : /\ s.failures \in Nat \ {0} /\ s.pause \in Nat \ {0}
                         /\ s.max_pause \in Nat /\ s.max_pause >= s.pause
  /\ \A s, t \in Settings : s.failures = t.failures
ASSUME HeldAssumption == HeldFor \subseteq Nat \ {0} /\ IsFiniteSet(HeldFor)
ASSUME NobodyAssumption == Nobody \notin Upstreams
ASSUME TakeoversAssumption == Takeovers \in Nat

VARIABLES
  entry,      \* Entry of each upstream: its breaker, trips, held
  settings,   \* the settings in force
  judge,      \* what each judging task is about to report
  timer,      \* the tasks that will report a recovery
  shown,      \* the last HealthChanged of each upstream: what a client sees
  takeovers

vars == <<entry, settings, judge, timer, shown, takeovers>>

(* held_until_ms: None *)
NotHeld == -1

MaxOf(S) == CHOOSE n \in S : \A m \in S : m <= n
LongestPause == MaxOf({s.max_pause : s \in Settings})
LongestHold == MaxOf(HeldFor \cup {0})

(* The policy of an upstream that was opened `trips` times without a       *)
(* success: the cooldown doubles each time, up to the maximum.             *)
Policy(s, trips) ==
  LET doubled == s.pause * 2 ^ (IF trips = 0 THEN 0 ELSE trips - 1)
  IN  [failures |-> s.failures, probes |-> 1,
       cooldown |-> IF doubled < s.max_pause THEN doubled ELSE s.max_pause]

(* trips saturates in the code; here it stops where every cooldown is at   *)
(* its maximum.                                                            *)
MaxTrips == CHOOSE n \in 1 .. LongestPause + 1 :
              /\ \A s \in Settings : s.pause * 2 ^ (n - 1) >= s.max_pause
              /\ \A m \in 1 .. n - 1 : \E s \in Settings : s.pause * 2 ^ (m - 1) < s.max_pause

NewEntry == [breaker |-> Fresh, trips |-> 0, held |-> NotHeld]

PolicyOf(e) == Policy(settings, e.trips)

(* state_of *)
StateOf(e) == IF e.held > 0 THEN "open" ELSE StateAt(e.breaker, PolicyOf(e))
Paused(u) == StateOf(entry[u]) = "open"

(* cooldown_left: Some(0) once a pause is over, None only after a success  *)
Later(m, n) == IF m < n THEN n ELSE m
Wait(e) == Later(e.held, CooldownLeft(e.breaker, PolicyOf(e)))

Idle == [u |-> Nobody, open |-> FALSE]
NoTimer == [at |-> "free", u |-> Nobody, left |-> 0]

Init ==
  /\ entry = [u \in Upstreams |-> NewEntry]
  /\ settings \in Settings
  /\ judge = [j \in Judges |-> Idle]
  /\ timer = [t \in Timers |-> NoTimer]
  /\ shown = [u \in Upstreams |-> "closed"]
  /\ takeovers = 0

(***************************************************************************)
(* The verdicts.  (A definition Slip... is a slip one could make in the    *)
(* code, which the properties must catch; no specification uses one.)      *)
(***************************************************************************)

(* record_success *)
AfterSuccess(e) ==
  [breaker |-> Succeeded(e.breaker, PolicyOf(e)), trips |-> 0, held |-> NotHeld]

(* record_failure: an opening counts only if requests were let through *)
AfterFailure(e) ==
  LET b == RecordedFailure(e.breaker, PolicyOf(e))
  IN  [e EXCEPT !.breaker = b,
                !.trips = IF StateAt(e.breaker, PolicyOf(e)) # "open" /\ b.state = "open"
                             /\ @ < MaxTrips
                          THEN @ + 1 ELSE @]

(* A slip: the last cause replaces the pause of the one before. *)
SlipAfterCause(e, d) == [e EXCEPT !.held = d]

(* record_cause, for a cause that says how long to pause *)
AfterCause(e, d) == [e EXCEPT !.held = Later(@, d)]

(* update(), and then the result goes to note_health: a change is reported *)
(* in a later step of the same task.                                       *)
Update(j, u, e) ==
  /\ judge[j] = Idle
  /\ entry' = [entry EXCEPT ![u] = e]
  /\ judge' = IF StateOf(e) # StateOf(entry[u])
              THEN [judge EXCEPT ![j] = [u |-> u, open |-> StateOf(e) = "open"]]
              ELSE judge
  /\ UNCHANGED <<settings, timer, shown, takeovers>>

Success(j, u) == Update(j, u, AfterSuccess(entry[u]))
Failure(j, u) == Update(j, u, AfterFailure(entry[u]))
Cause(j, u) == \E d \in HeldFor : Update(j, u, AfterCause(entry[u], d))

(* note_health: the event, and after an "open" the task that waits. *)
NoteHealth(j) ==
  /\ judge[j] # Idle
  /\ shown' = [shown EXCEPT ![judge[j].u] = IF judge[j].open THEN "open" ELSE "closed"]
  /\ judge' = [judge EXCEPT ![j] = Idle]
  /\ IF judge[j].open
     THEN \E t \in Timers :
            /\ timer[t] = NoTimer
            /\ timer' = [timer EXCEPT ![t] = [at |-> "start", u |-> judge[j].u, left |-> 0]]
     ELSE UNCHANGED timer
  /\ UNCHANGED <<entry, settings, takeovers>>

(***************************************************************************)
(* The task that reports a recovery.                                       *)
(***************************************************************************)

SleepFor(t, d) == timer' = [timer EXCEPT ![t].at = "sleep", ![t].left = d]

(* its first look: how long to sleep *)
TimerStart(t) ==
  /\ timer[t].at = "start"
  /\ SleepFor(t, Later(0, Wait(entry[timer[t].u])))
  /\ UNCHANGED <<entry, settings, judge, shown, takeovers>>

(* A slip: after one sleep the task looks, and gives up if it is too early. *)
SlipTimerWake(t) ==
  /\ timer[t].at = "sleep" /\ timer[t].left = 0
  /\ timer' = [timer EXCEPT ![t] = IF Wait(entry[@.u]) = 0 THEN [@ EXCEPT !.at = "say"]
                                                           ELSE NoTimer]
  /\ UNCHANGED <<entry, settings, judge, shown, takeovers>>

(* It wakes and looks again: a success has ended the pause (and, it takes  *)
(* for granted, has been reported); or the pause is over; or it was        *)
(* prolonged, and the task sleeps on.                                      *)
TimerWake(t) ==
  /\ timer[t].at = "sleep" /\ timer[t].left = 0
  /\ LET wait == Wait(entry[timer[t].u]) IN
       \/ wait = NotHeld /\ timer' = [timer EXCEPT ![t] = NoTimer]
       \/ wait = 0 /\ timer' = [timer EXCEPT ![t].at = "say"]
       \/ wait > 0 /\ SleepFor(t, wait)
  /\ UNCHANGED <<entry, settings, judge, shown, takeovers>>

TimerSay(t) ==
  /\ timer[t].at = "say"
  /\ shown' = [shown EXCEPT ![timer[t].u] = "closed"]
  /\ timer' = [timer EXCEPT ![t] = NoTimer]
  /\ UNCHANGED <<entry, settings, judge, takeovers>>

(***************************************************************************)
(* Around them.                                                            *)
(***************************************************************************)

(* configure(): records are kept, later judgements go by the new settings *)
Configure ==
  /\ settings' \in Settings
  /\ UNCHANGED <<entry, judge, timer, shown, takeovers>>

Tick ==
  /\ entry' = [u \in Upstreams |->
                 [entry[u] EXCEPT !.breaker = Aged(@, LongestPause),
                                  !.held = IF @ > 0 THEN @ - 1 ELSE @]]
  /\ timer' = [t \in Timers |->
                 IF timer[t].at = "sleep" /\ timer[t].left > 0
                 THEN [timer[t] EXCEPT !.left = @ - 1] ELSE timer[t]]
  /\ UNCHANGED <<settings, judge, shown, takeovers>>

(* A new core takes over with the records (handover_import); the tasks of  *)
(* the old one report to the old one's clients, and clients of the new one *)
(* read the present state.                                                 *)
Takeover ==
  /\ takeovers < Takeovers
  /\ takeovers' = takeovers + 1
  /\ judge' = [j \in Judges |-> Idle]
  /\ timer' = [t \in Timers |-> NoTimer]
  /\ shown' = [u \in Upstreams |-> IF Paused(u) THEN "open" ELSE "closed"]
  /\ UNCHANGED <<entry, settings>>

Verdict(j, u) == Success(j, u) \/ Failure(j, u) \/ Cause(j, u)
Timer(t) == TimerStart(t) \/ TimerWake(t) \/ TimerSay(t)

Next ==
  \/ \E j \in Judges : NoteHealth(j) \/ \E u \in Upstreams : Verdict(j, u)
  \/ \E t \in Timers : Timer(t)
  \/ Configure \/ Tick \/ Takeover

Spec == Init /\ [][Next]_vars

(* Time passes, and the runtime runs a task that is ready. *)
Fairness ==
  /\ WF_vars(Tick)
  /\ \A j \in Judges : WF_vars(NoteHealth(j))
  /\ \A t \in Timers : WF_vars(Timer(t))

FairSpec == Spec /\ Fairness

(***************************************************************************)
(* Properties.                                                             *)
(***************************************************************************)

BreakerType ==
  [state : {"closed", "open", "half_open"}, since : 0 .. LongestPause,
   failures : Nat, probe_successes : Nat]

(* Every variable has its shape, and with one probe a breaker is never     *)
(* left half open: it is so only by the clock.                             *)
TypeOK ==
  /\ entry \in [Upstreams -> [breaker : BreakerType, trips : 0 .. MaxTrips,
                              held : NotHeld .. LongestHold]]
  /\ \A u \in Upstreams : entry[u].breaker.state # "half_open"
  /\ settings \in Settings
  /\ judge \in [Judges -> [u : Upstreams \cup {Nobody}, open : BOOLEAN]]
  /\ timer \in [Timers -> [at : {"free", "start", "sleep", "say"},
                           u : Upstreams \cup {Nobody}, left : Nat]]
  /\ shown \in [Upstreams -> {"open", "closed"}]
  /\ takeovers \in 0 .. Takeovers

(* Only a success ends a pause early, and it forgets everything.  Another  *)
(* failure or another cause, also one of a request sent before the pause,  *)
(* never shortens it (rule 3 of tw-breaker; the maximum in record_cause).  *)
NeverShortened ==
  [][settings' = settings /\ ~Tick =>
       \A u \in Upstreams : \/ Wait(entry[u])' >= Wait(entry[u])
                            \/ entry'[u] = NewEntry]_vars

(* The breaker's pause of an upstream is over: clients that were shown     *)
(* "open" are told, or it is paused again (the comment on note_health).    *)
(* The task that was left behind is not lost, does not give up early, and  *)
(* is not silenced by a success that nobody reports.  (For a pause with a  *)
(* stated cause, and across a takeover, see the README.)                   *)
BreakerRecoveryShown ==
  \A u \in Upstreams :
    (shown[u] = "open" /\ ~Paused(u) /\ entry[u].breaker.state = "open" /\ takeovers = 0)
      ~> (shown[u] = "closed" \/ Paused(u) \/ takeovers > 0)
=============================================================================
