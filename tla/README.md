# ThinkWatch core: a TLA+ verification project

`twcore` is a local gateway for language-model APIs. A client sends a request to
one fixed address; the gateway authenticates it, chooses an ordered list of
*upstreams* (providers, with an account and limits each), and tries them one
after another (one try is a *hop*) until one answers. Around that it keeps
health, rate-limit, concurrency and usage books, renews OAuth logins, watches a
configuration file that people edit while it runs, records every request in a
database, synchronises its configuration with other devices, and can be replaced
by a newer process of itself without dropping a connection.

This directory holds models of the parts where steps of several tasks or
processes meet, what TLC checks about them on small instances, and what TLAPS
proves about some of them for all instances. Paths below are relative to the
repository's root; `gw/` abbreviates `crates/tw-gateway/src/`.

## 1. Inventory

| Component | Source | State | Operations | Interacts with | What makes it correct | Modelled |
| --- | --- | --- | --- | --- | --- | --- |
| Slots (concurrency limit of an upstream) | `gw/slots.rs` | per upstream: limit, debt `owed`, a tokio semaphore and its queue | `try_take`, `first_free`, `phantom`, drop of a place, `configure` | hop loop and throttle ask for places; reload configures; a handover holds phantoms | places are conserved; a cancelled wait leaves nothing; waiters go on | **Books, Slots** (proved) |
| Concurrency limit of a key | `gw/limits.rs` | the same books, and claims | `acquire`, `phantom`, drop, `resize` on every acquire | admission; the feed to a successor | passes are conserved under requests of different configurations | **Gate** (proved in part) |
| Circuit breaker | `crates/tw-breaker` | closed, open or half open, since when, failures | `record`, `cooled`, `cooldown_left` | health | a late failure never shortens a pause | **Breaker** |
| Health | `gw/health.rs`, `gw/server.rs` (`note_health`) | per upstream: breaker, trips, stated pause; timers that report recovery | success, failure, cause, configure, handover | judged by responses; read by hop loop and throttle; reports on the bus | pauses are never shortened; recovery is reported | **Health** (proved in part) |
| Throttle | `gw/throttle.rs`, `gw/server/pipeline/hop.rs` | per upstream: pause, probe ticket, queue of waiters, windows | `gate`, `limited`, `answered`, `released`, `join`, `leave`, `rename`, `first_ready` | slots, usage limits, health; hop loop | one probe at a time; no lost wake-up, ghost or overtaking | **Ups, Throttle** (proved in part) |
| Hop loop and rounds of retries | `gw/server/pipeline/hop.rs`, `gw/retry.rs` | one request: candidates, who is put aside, the chain of attempts, the round | try, open, relay, fail, plan a round, wait, answer | throttle, slots, health, usage limits | it ends; what it answers and what it counts is what happened | **Attempts** (proved in part) |
| Usage limits of upstreams and keys | `gw/upstream_limits.rs`, `gw/key_limits/` | accounts per period and window, reservations | reserve, bind, settle, release, sweep, rename, rebuild, hand over | the recorder settles; the throttle waits for windows | the sums are those of the rows, each try counts once | **Tally, Usage** (not the admission by keys; proved in part) |
| Handover of a core | `bin/twcore/src/handover.rs`, `lockfile.rs`, `main.rs` (`cmd_serve`), `record.rs` (`open_later`) | lock file, file of draining cores, endpoint, listeners, who renews tokens, whether the store is open | arm, connect, offer, give, commit, acknowledge, drain, fall back, start, exit | everything that has state is handed over | one main core, one writer, one renewer, nobody hangs | **Lead, Handover** (proved in part) |
| Handover of live state | `gw/handover.rs`, `gw/handover/` | claims, the feed of what happens after the snapshot | export, import, feed | all books | each begin and end is counted once | with each part: **Gate, Usage, Slots, Health, Tokens** |
| OAuth logins | `gw/oauth.rs`, `gw/state/credentials.rs`, `crates/tw-control/src/rotation.rs` | cached tokens, the flight, `held`, the queue to the file | token, refresh, invalidate, hold, export, import, write back | hop loop, configuration, handover | no used-up token is presented, none is lost | **Tokens** (proved in part) |
| Configuration | `crates/tw-control/src/config.rs`, `crates/tw-config/src/store.rs`, `crates/tw-watch` | the file, what the core believes it wrote, what is in force, a rejection | write, transform, reload, watch, start with a stand-in | reload configures the above | no edit is lost, the file is in force or its rejection shown | **Config** (proved) |
| Device synchronisation | `crates/tw-sync`, `crates/tw-control/src/sync.rs` | versions at a location, a base per device, conflicts | a round: read, merge, apply, upload, prune, keep | configuration | no edit is lost, devices agree, rounds end | **Versions, Sync** (proved in part) |
| Recorder, database, event bus | `crates/tw-store`, `crates/tw-observe` | rows, a bounded channel | publish, record, read again | everything reports | what a late, lost or repeated row means | as the environment of **Usage** |
| Affinity, effort memory, latency, websockets, plugins, routing, conversion, redaction, control plane, transport, data | see section 7 | | | | | no |

`PROJECT.json` lists the same components, and under `hazards` the spots where an
order of steps that no test tries could go wrong, with the property that watches
each or the reason why none does.

## 2. The modules

```
Books --+-- Slots --- MCSlots        Lists -+- Ups ---- Throttle - MCThrottle
        +-- Gate ---- MCGate                +- Attempts ---------- MCAttempts
Breaker --- Health -- MCHealth       Versions- Sync -------------- MCSync
Tally ----- Usage --- MCUsage        Config ---------------------- MCConfig
Lead <- - - Handover  MCHandover     Tokens ---------------------- MCTokens
        (refinement)

Lemmas (of Books and Lists) --- SlotsProofs (with Health), GateProofs (with Usage),
                                ThrottleProofs, AttemptsProofs, ConfigProofs (with Sync)
                                HandoverProofs, TokensProofs
```

A module `XProofs` extends X. `SlotsProofs` has the proof about `Health` too, and
`ConfigProofs` those about `Sync`, both as instances. A definition whose name
starts with `Slip` is a plausible mistake in the definition that follows it. No
specification uses one; putting one in the place of the right definition must break
the property it is listed with in `PROJECT.json`, which shows that the property
looks at that piece of code.

Several modules have a constant `Worlds`: sets of what may go wrong, one of which
is chosen at the start and holds for the whole behaviour. So each trouble, and
each combination that the code has to bear, is explored fully without all of
them at once.

**Books** is the arithmetic `slots.rs` and `limits.rs` share, as operators on a
record: `Resize`, `GiveBack` (the drop of a place), `Owe` (a phantom that found
no place), and tokio's semaphore (external) in one number: of `avail` permits
the first `Len(queue)` are assigned to the head of the queue, as tokio does
before it polls the winner, and only the rest is free. **Lists** has what the code
filters out of a list, `Among`, as a recursive function.

**Slots** is `slots.rs`. A request looks at its candidates (`Look`), finds none
free, joins the queues of all (`Join`), and is woken by a permit or by a pool
that was closed (`Wake`), at which every other future is dropped in the same
poll; or its request is dropped (`GiveUp`). `PhantomTry`/`PhantomOwe` are the two
halves of `phantom`; `SetLimit`, `RemoveLimit` are `configure`. `limit = 0`
stands for an upstream that has no pool.

**Gate** is `limits.rs` on two cores, with the part of `handover.rs` and
`handover/feed.rs` that belongs to it. `Acquire` brings the limit of the
configuration its request started with and resizes the key to it. `Export` and
`Drain` tell how many claims there are, `Tell` each change after that;
`ReadHolds`/`ReadStep` set the goal of the successor, which `Hold`, `Debt` and
`Drop` reach one pass at a time, while its own requests go on.

**Breaker** and **Health** are the breaker's consecutive-failure policy and
`health.rs`, with `note_health`: a verdict changes the record under its lock
(`Success`, `Failure`, `Cause`) and the report follows in a second step
(`NoteHealth`); a report "open" leaves a timer (`TimerStart`, `TimerWake`,
`TimerSay`). Times are relative and `Tick` advances them all.

**Ups** is what `throttle.rs` keeps of one upstream, as operators on a record
(`Check` is the whole decision of `check()`: let through, take the ticket, wait).
**Throttle** adds the requests: `Begin` and `Hop` are the hop loop, `LookAt` one
turn of the loop in `wait_ready`, `Park`, `Again` and `PlaceCame` its select,
`Send`, `Reject` and `Conclude` what happens to the hop, `Rename` the rename of
an upstream followed by the reload. A ticket is a number in the code; here it
says who got it, under which name and on which side of the rename.

**Attempts** is one request from its first candidate to its answer: everything
`try_upstreams` keeps, with the verdict on each failure (what is given back, what
is put aside, what passes, what ends it), the send again with less effort, the
plan of a round (`retry_round`, `plan`, `feasible`), idle and connect timeouts,
an abort, and a client that leaves. All other requests are the environment: at
any look an upstream may be free, full, paused, at its limit or used up. `bound`
is what the usage limits have of it, the `chain` what its row will say.

**Tally** is the arithmetic of one account (`books.rs`: calendar periods, a
rolling window, what is added while rows are read again) on a record, **Usage**
the life of a reservation around it: `Reserve`, `Release`, `Bind`, `Settle`,
`Look`, rereading from the rows, a rename, a restart, and a handover with
snapshot, feed, rebuild and the opening of the store. A clock ticks and the time
zone may move.

**Tokens** is the cache of one login on two cores. A request looks
(`FromCache`), takes the flight and looks again (`Board`), asks the endpoint
(`Renew`, `Arrive`, `Fail`), or was refused (`Reject`, `Invalidate`). What was
rotated goes through a channel to the task that writes it to the file
(`HandOn`, `WriteBack`, `GiveUp`). What is written is in force in that core at once;
the other core reads the file when its watcher notices (`Reload`). The steps of a handover say when renewals pause (`Pause`, `Yield`),
what is exported and what the successor takes from it (`Imported`). Number *n*
stands for the *n*-th token that the endpoint issues.

**Config** is `ConfigManager` with the store and the watch. A text is the set of
marks that edits have left in it. Writers of the control plane, the start's own
edit, command lines and editors read, check, write a temporary file and rename
it, in steps; the watcher debounces, signals, and a task reads the file again; a
core starts with what it can read, or with a stand-in, crashes and starts again.

**Versions** is what `tw-sync` says of versions, as operators: ancestors, heads,
three-way merge, conflicts, folding. **Sync** adds the devices. A round
(`Engine::round_inner`) reads and decides in `Round`, then (`Apply`, `Publish`,
`Prune`, `KeepBase`, `Save`) acts in steps between which users edit, other devices run
rounds, files arrive late, and the round fails or the device crashes. A file that
is listed is read, waited for, or, if it is broken or cannot be read for long,
skipped (`Views`); what a round prunes are the versions that `to_delete` names and the
skipped files below all that are kept (`Doomed`).

**Handover** is the protocol. The phases of a core:

```
start:   Unborn -> Writing -> Binding -> Idle           (took the lock)
taker:   Unborn -> Calling -> Learning -> Asking -> Bound -> Committing
                -> (Doubting) -> Claiming -> Marking -> Idle
                Calling -> Yielding -> Again            (refused, or giver gone)
giver:   Idle -> Armed -> Taken -> Offered -> Given -> Draining -> gone
                Taken -> Refusing -> Retiring -> gone   (other version)
```

`link[b]` is the connection a taker made, with one message on its way in each
direction; a message is sent and received in separate steps, and what a core sent
before it died can still be read. `Crash` may come at any step. **Lead** is the
abstract specification: one set `leaders` of at most one core, replaced in one
step. `Handover` implements it under the mapping `leaders <- {c : Leads(c)}`,
where a taker leads from the moment the acknowledgement is on its way.

## 3. What is abstracted

* *Slots, Gate*: one poll of a select is one step, and so is all that `acquire`
  does before it waits, and the drop of a pass with its claim. In `Gate` there is
  one key; `Serve`, the snapshot being read before the successor accepts, and the
  commit before the drain are the order of `cmd_serve`.
* *Breaker and Health*: the failure-rate policy and half-open probing with more
  than one probe are not used by the gateway; the success statistics are left
  out. `trips` stops counting (at `MaxTrips`) where the doubling has reached the
  maximum in all settings, where more of it makes no difference.
* *Throttle*: pause lengths and strikes, what is displayed, the sticky one-name
  wait, the resend with another effort, retry rounds, counting requests (which
  go through no queue) and alarms that were already settled are left out. A look
  at an upstream and the join or the try for a place after it are one step.
  A request is used once. Places are kept by name in `slots.rs`, so a renamed
  upstream has no concurrency limit here. `UsageChanges` and `HealthChanges`
  stand for the other components.
* *Attempts*: counting requests, wording, and the resend at the same hop after a
  refused token (that is in `Tokens`) are left out. A request is sent once its
  body is on the way, so every abort after that is one of a sent request. Some
  verdicts (phase two, the protocol, the name of a model) are a property of the
  upstream and do not change under one request. A backoff is one tick; a hint of
  an upstream is nothing or past the deadline.
* *Usage*: one upstream; a window and a calendar period stand for any list of
  limits, as each is accounted for on its own. An estimate is one number, a use
  another. The handover's worlds last one tick, in which a period ends. The
  store's answer to a reread is atomic; the row that arrives while it is asked is
  not.
* *Tokens*: one upstream, one login at a time; the second field of a login, the
  access token in the file, counts where the code looks at it. "Quiet" is an
  assumption on time: a token stays fresh for longer than a write-back and a
  reload take, and is renewed later than any request that holds an older
  configuration takes. Without it ("long") see section 5. A write-back is one step,
  with what it puts in force in its own core; each core reads the file on its own
  (`Reload`). That a successor has read it before it takes over (`Adopt`) is assumed
  but in the world "behind", for which see section 5. `SignIn` happens while nothing
  is in hand and both cores have read the file, and both read it at once. The
  stand-in configuration of a successor that cannot read the file is left out.
* *Config*: a text is a set of marks; which marks make it invalid, unbuildable,
  or touch the protected section are constants. History and backups,
  `mark_written`, and what a reload does inside the gateway are left out.
* *Sync*: an object has one unit; the value an edit writes is new. Left out:
  orders, the check of the merged configuration, preferences, logins and plugins
  that wait, encryption and its keyring, joining and an emptied location, the
  look into backups, device records, files that a newer version wrote, more than
  200 versions of history and 8 kept bases. How long a file is waited for before it
  is skipped is no matter: in the world "skip" any file that a device has not read
  yet may be waited for or skipped in any round. A file that was read stays readable,
  and a device can read its own (`own_broken` is left out), so that `next_seq` finds its
  number free at once.
* *Handover*: Hello and its acceptance are one step, Control and the first
  snapshot one message, and so are the second snapshot and the listeners. The
  messages of the drain, the pausing of the control plane, safe mode, the ids of
  requests (`ID_GAP`) and failures to write the lock or the marks are left out.
  The caps on waiting for an older core (30 and 35 minutes) are longer than it
  may drain and never come first. A different protocol version is a choice of the
  giver (`Refuse`). Pids are not reused.
* *Handover, time*: any limit may run out at any moment, with the exception the
  limits were chosen for (`InTime`, `Doubt`): a taker that was given up has seen
  it before the next one is accepted (`COMMIT_WITHIN` 20 s against
  `TAKEOVER_LIMIT` 30 s), and a giver that lives acknowledges within
  `ACK_WITHIN`. Three moments are closed by default and opened by the constant
  `Windows`; each, once open, violates a property: `"acquire"`
  (`LockFile::acquire` reads and then writes: two cores that start together both
  get the lock, and the one that then finds the ports taken removes the file),
  `"unmarked"` (a crash between `claim` and `mark_draining`: the next core opens
  the store beside the one that drains), and `"late"` (the giver stalls for more
  than ten seconds, reads the commit while the taker is giving up, and drains for
  a successor that exits).

## 4. What is checked

| Run | Instance | States | Properties |
| --- | --- | --- | --- |
| `slots` | 2 upstreams, 2 requests (one list or both), 1 phantom, limits 1 and 2 | 20,145 | `PlacesConserved`, `NothingLeftBehind`, `WaitEnds` |
| `gate` | 2 requests on each core, limits none, 1 and 2, two changes | 1,157,832 | `PassesConserved`, `PhantomsFollow` |
| `health` | 1 upstream, 2 timers, pauses of 1 to 3 ticks, a reload, one takeover | 17,448 | `NeverShortened`, `BreakerRecoveryShown` |
| `throttle` | 2 requests, 2 upstreams, one of them with a place and a usage limit; two 429s, one illness, one full window | 2,200,216 | `OneProbes`, `NobodyLeftInQueue` |
| `throttle_rename` | 2 requests, one upstream that is renamed, two 429s | 68,322 | `TicketsInHand`, `OnlyVerdictsOpen`, `NoOvertaking`, `WaitEnds` |
| `attempts` | 1 request, 2 upstreams in order, a deadline of 2 ticks | 992,230 | `SentHopsCount`, `AnswerFits`, `OnlyPassingRetried`, `Ends` |
| `usage` | 2 requests, 2 tries, 2 names, periods and windows of 2 ticks, 2 restarts, moves or renames | 3,151,841 | `PeriodIsTheRows`, `CountedOnce`, `WindowIsTheTries`, `ReservationsHaveOwners` |
| `handover` | 3 cores, 2 crashes, 1 strike | 54,032 | `OneWriter`, `OneRenewer`, `OneLeader` (implements `Lead`), `LockStays`, `NobodyHangs`, `StoreOpens` |
| `tokens` | 2 requests, 3 tokens issued, 4 worlds | 2,258,476 | `NothingUnwritten`, `RightLogin`, `OnlyTheNewest`, `RenewedWhenDue` |
| `tokens_behind` | the same, with a successor that is behind with the file | | `OnlyTheNewest`, violated: section 5 |
| `config` | 1 request, the start's own edit, 1 command line, an editor that saves twice, 1 crash, 5 worlds | 10,239,834 | `InForce`, `NothingLost`, `RefusedLeaveNothing` |
| `sync` | 2 devices, 2 objects, 3 edits, 1 failure or decision, overlaps up to the third version, 4 worlds; and 1 object, 4 edits and four versions in a fifth, with skipped files | 586,201 | `NoEditLost`, `SettledAgree`, `DecidedOnce`, `NoUnmergedDeleted`, `NumbersGrow`, `Converges` |

Why the bounds are enough:

* *slots*: two requests and a phantom on a limit of one or two meet every case of
  `Resize` and `GiveBack` (debt cancelled in part, permits assigned but not
  picked up), and two upstreams make a waiter lose one select while it wins
  another. The safety properties are proved for all sizes (section 6).
* *gate*: two requests on a core are one that runs and one that waits; with both
  of the other core held as phantoms the successor owes up to two. Two changes
  lift the limit and set it again. Both properties are proved for all sizes.
  The requests of a core are alike and no property is temporal, hence symmetry.
* *health*: the record is per upstream, so one is enough. Two timers overlap if a
  pause is renewed while the first one sleeps; three ticks reach the cap of the
  doubling. One judging task: with two, reports can be swapped (section 5).
* *throttle*: two requests are a prober and a waiter, or two waiters whose head
  leaves; two 429s are the one that starts a pause and the one that an answer
  from before it must not end. The upstream with limits comes first in one list
  and is absent from the other. Both properties are proved for all sizes without
  a rename.
* *throttle_rename*: the requests begin before or after the rename, under either
  name. The safety properties are proved for all sizes.
* *attempts*: two upstreams are one that is put aside or fails and one that goes
  on; the second may refuse the effort and may be too far to connect to. Two
  ticks are a backoff and the deadline, or two rounds. The safety properties are
  proved for any upstreams and any deadline.
* *usage*: two requests are the row that is late and the one that comes in
  between; two names are enough as a renamed account never meets a third. One
  event fits into the feed before the commit, so the second overflows it. In each
  world there is one trouble; a rename together with a restart is in none (of
  `ReservationsHaveOwners` the theorem covers it, see section 6). The check
  for lost events at the commit and the start of the drain are one step.
* *handover*: three cores are a draining one, a main one and a taker, or a core
  that starts after both others were lost; two crashes allow both ends of a
  handover to die. One strike makes the giver refuse. All cores may be gone. What
  needs a fourth core is in section 5; that nothing else does, in section 6.
* *tokens*: with two requests one renews and the other waits for its flight, is
  refused with the same token, or leaves; with three tokens one is used up, one
  current and one coming. The worlds are those pairs and triples of troubles that
  the code is to bear. `NothingUnwritten` and `RenewedWhenDue` are proved for any
  number of requests and tokens, and for all troubles but `"slow"`, `"long"` and
  `"behind"` at once (TLC agrees, on 14.8 million states of the instance with all of
  them). `OnlyTheNewest` holds in these worlds, but not in all: with a new login and
  failures around a handover it is violated (by `tokens_login` of section 5), and
  so it is if a write-back fails before a handover and the successor then crashes,
  as the file is all that a core starts from. It is proved for all others.
* *config*: one request meets the start's edit, a command line and an editor;
  two saves change and restore a text (a change the watcher cannot see). The
  three properties are proved for any number of each.
* *sync*: two objects are one both devices change and one that is left out, used
  by clients or created; three edits are a conflict and an edit after it. Beyond
  the third version rounds no longer overlap, so that they can come to an end.
  `DecidedOnce` has decisions only in a world in which rounds take turns and nobody
  edits what is in conflict: section 5 says what happens otherwise. A failed upload or
  a lost base is the business of `NoEditLost` and `SettledAgree`.
  In the world in which files are skipped, one object and four versions are the
  fewest with which a skipped version falls below all that are kept: one that both
  devices build on, one of a device that the other skips, and three of the other, of
  which two are kept. `NoUnmergedDeleted` excuses that world, `NumbersGrow` does not.

Deadlock is checked in `slots` and `health` only: elsewhere requests, edits,
tokens or cores are used up in the end, and the system rests.

Fairness is only what the runtime gives: a task that is ready is polled, time
passes, every answer ends (the idle timeout ends one that stalls, the connect
timeout one that does not begin), the predecessor drains in bounded time, and a
wait with a limit ends. Per module: in *Slots* the steps of requests and the ends
of phantoms, never `GiveUp` or a change of a limit; in *Health* `Tick`, reports
and timers, never a verdict; in *Throttle* the task of each request, the clock,
and that a usage limit or an illness ends some day, never a new request, a new
illness or a rename; in *Handover* the steps of a core that starts, gives, takes
over or opens the store, never a start, an arm, a repair of the configuration, a
shutdown or a crash; in *Attempts* the request's own steps, which include the
answer of the upstream it is at, and the clock, never what other requests do to
an upstream; in *Sync* the steps of a round of each device unless it is at rest
for good, never an edit, a decision, a failure, or the arrival of a late file
(so `Converges` says nothing of the world in which files are late).

## 5. Where code and words disagree

The run `tokens_behind` exhibits the first of these; each of the others has a
configuration of the same kind, of which TLC finds a shortest behaviour in seconds
(`tlc -config throttle_left.cfg MCThrottle.tla`):

* `tokens_behind`. A write-back is in force at once in the core that made it
  (`config.rs:333-334`), in the other one when its watcher has noticed. If a renewal
  ends just before a handover, the second snapshot names a configuration and a refresh
  token of which the successor knows neither, and it drops it
  (`gw/oauth.rs:411`). After the commit it presents the token that is used up, with no
  failure, crash or sign-in. `oauth.rs:391-393` says that the second snapshot
  replaces the first. The properties of `tokens`, and the theorems, assume that a
  successor has read the file before it takes over.
* `slots_lowered`. `configure` says of a lowered limit that new requests wait until
  the running ones are below it (`slots.rs:132-133`). A permit that was assigned to
  a future which is then dropped returns to the semaphore without a look at `owed`,
  and a newcomer takes it. It heals with the next place that is given back.
* `throttle_left`. A waiter leaves by the name it joined under (`throttle.rs:997`).
  After a rename that queue is gone, the id stays in the one under the new name, and
  as `joined` is empty by then no later leave removes it, against "dropping it leaves
  every queue it is in" (`throttle.rs:959-960`). Everybody behind it waits until they
  are dropped.
* `tokens_login`. When an exchange fails, `refresh` notes that on whatever entry there
  is and gives it the fingerprint of the configuration at hand (`gw/oauth.rs:556-564`).
  If the user has just put a new refresh token into the file and the first
  exchange with it fails, the entry of the *old* login now passes for the new
  one: after the backoff its access token goes out, and when that is due, its
  refresh token is presented. `oauth.rs:135-137` says the fingerprint is there so
  that this cannot happen.
* `config_order`. Two requests that write one after the other may be put in force
  the other way round (`config.rs:333-334`): the file has both edits, the core
  believes it knows them, and the older one stays in force with nothing shown,
  against `tw-control/src/lib.rs:335-336`.
* `sync_skipped`. `to_delete` keeps what is late or cannot be read
  (`layout.rs:118-121`), but what was skipped never gets to it: `prune` deletes it
  once its number is below those of all that are kept (`engine.rs:1535-1545`),
  although nobody has merged it, and also for devices that could have read it. The
  device that wrote it still has its edits (`NoEditLost` in `sync`), and its next
  round, whose base no version builds on, compares the two sides without one.
* `sync_meddled`. A device that decides a conflict for the other side right after
  editing the object publishes its own value with the conflict gone (`engine.rs:1870`,
  filled at 1744, before the decision), and the two devices end up with each other's,
  against `record.rs:4-6`.
* `sync_folded`. If two devices fold the same heads at once, each records the conflict
  under an id of its own (`engine.rs:1322-1329` tells records apart by id), and whoever
  decides one is asked again, against the same words.

The following were found while modelling too, each as a counterexample of a property
that says the words quoted, or by reading; the properties of section 4 leave them out
explicitly (by a world, a guard in the property, or an excused case) and are true of
everything else.

*Slots and the key gate.*
`phantom` says that new requests wait for the predecessor's
(`slots.rs:199-200`, `limits.rs:126-129`), but tries for a permit and notes the
debt in two steps; a place that comes back in between goes to a newcomer. It
heals with the next place that is given back. A key whose limit is lifted during a
drain loses count of the predecessor's requests, on the safe side
(`PhantomsFollow`).

*Health.*
The comment at `server.rs:292` says that `record_success` has already reported
the recovery. After a stated pause has run out it reports nothing, as the state
was already closed, and the timer that finds no entry reports nothing either. A
new core imports paused upstreams and starts no timer for them (`health.rs:332`
against `server.rs:253-255`). Two tasks that judge one upstream may swap their
reports, as these follow after the lock (`server.rs:268`).

*Throttle.*
Whether any upstream is healthy is read once,
before each is looked at (`throttle.rs:1144`): if the last one falls ill in
between, the request ends with the error of its last candidate.

*Hop loop.*
`upstream_limits.rs:6` says that every hop sent counts as a request. The chain of
attempts is told in one place, at the end of `try_upstreams` (`hop.rs:1463`). A
client that leaves earlier drops the future there; what was sent is bound
(`hop.rs:1600-1605`), and the settling of a row without attempts takes it out of
the window again (`SentHopsCount` excuses a client that left). A connect timeout
is both `is_timeout` and `is_connect`; `map_reqwest_error` (`forward.rs:159-171`)
tests the former, so the row counts a try that the upstream never received, while
`hop.rs:1374` has released it.

*Usage limits.*
"The account goes along" with a rename (`resources.rs:88-93`), but a hop that was
under way carries the old name in its row and is booked under it. "Rebuilding
replaces, it does not add" (`record.rs:85-88`), but what is still unread of a
dead predecessor's feed when the store opens is settled again after the rebuild.
"What never was recorded is right from zero on" (`books.rs:74-77`), but if the
zone moves back after a restart on a day without rows, before anybody looks,
the earlier rows count from zero. Between the reload and the rename a look can
create an account under the new name, which the rename then replaces; an error of
the data base leaves a period in `asked` for ever, so it is not read again. And,
read off the code of the admission by keys: `record_request` trims the window by
the limits its request came with (`books.rs:250-262`), so a request that came
before a limit per minute gave way to one per hour drops what the hour still
needs, against `key_limits/mod.rs:410`.

*Handover.*
`prune_draining` writes the marks back without the caller's own
(`lockfile.rs:159`). A core that was handed over and still drains opens the store
when its predecessor exits, and so erases the mark that its successor wrote for
it. If the successor then exits, the next core sees neither lock nor mark and
writes to the store beside it, against `lockfile.rs:96-97`. It takes four cores,
so `OneWriter` holds in `handover`, with three. `LockStays` needs three as well:
a core that took the lock while a successor had not yet claimed it, and is slow to
find the ports taken, may outlast that successor's claim, its whole life and its
exit, and then serve without a lock; a fourth core takes the lock, finds the ports
taken and removes the file.

*OAuth.*
A request that holds a configuration two rotations old presents a used-up token
(`"long"`). If the limits on settling before a handover run out, the successor
starts from the token before (`"slow"`). A client that leaves during an exchange
drops the future that would have kept the new token (`oauth.rs:277-293`, `548`):
a token that the endpoint has issued is lost, and the used-up one is presented
next (excused in `OnlyTheNewest`). A late write-back goes into whatever the file
says by then, also a new login. An exchange has no time limit of its own, so an
endpoint that never answers holds the flight.

*Configuration.*
A text that is valid and cannot be built is
written but neither in force nor shown as rejected, against
`docs/config.zh-CN.md:53-66`. A file that changes between the load
(`main.rs:878`) and the first look of the watcher is not noticed. Two writers of
one process share one temporary file, as its name has the process id only
(`store.rs:201`). An edit between the check and the rename is lost, as the code
says itself.

*Device synchronisation.*
A device that is no party to a conflict and takes "Local" uploads a value
that is neither side (`engine.rs:1767`; it needs three devices). If two devices
fold the same heads at once, or upload and fail before the base is kept, a
conflict may be recorded between two changes of which one was made on top of the
other; and with deletions besides, an edit may be lost. An edit made between the read and a forced write is lost
(`engine.rs:1714-1722`), a crash between `base.twconfig` and `state.json` with
rounds overlapping loses one, and an object created again while its deletion is
on the way is deleted. Where files arrive late a device may give a version the name
of one of its own that was deleted (`engine.rs:1429-1436`), as it looks only at the
names that are listed; see section 6.

## 6. What is proved

| Module | Theorem | Statement |
| --- | --- | --- |
| `SlotsProofs` | `TypeCorrect`, `PlacesAreConserved`, `NothingIsLeftBehind` | `Spec => []` of `TypeOK`, `PlacesConserved`, `NothingLeftBehind` |
| `SlotsProofs` | `PausesLast` | `Health` with its assumptions: `Spec => NeverShortened` |
| `GateProofs` | `PassesAreConserved`, `PhantomsDoFollow` | `Spec => []` of `PassesConserved`, `PhantomsFollow` |
| `GateProofs` | `ReservationsAreOwned` | `Usage` with its assumptions: `Spec => []ReservationsHaveOwners` |
| `HandoverProofs` | `OneAtATime` | `Timely` implies `Spec => OneLeader`: `Handover` implements `Lead` |
| `HandoverProofs` | `RenewalsAreExclusive` | `Timely` implies `Spec => []OneRenewer` |
| `HandoverProofs` | `StoreIsExclusive` | `Timely` and no window `"unmarked"`: `Spec /\ MarksStay => []OneWriter` |
| `HandoverProofs` | `LockIsKept` | `Timely`: `Spec /\ []LockAtBind => LockStays` |
| `ThrottleProofs` | `VerdictsOpen`, `NobodyOvertaken` | `Spec =>` `OnlyVerdictsOpen`, `NoOvertaking` |
| `ThrottleProofs` | `TicketsAreInHand` | `Spec => []TicketsInHand` |
| `ThrottleProofs` | `ProbesAreAlone`, `NobodyIsLeft` | `~Renames /\ Spec => []` of `OneProbes`, `NobodyLeftInQueue` |
| `AttemptsProofs` | `AnswersAreTrue`, `TriesAreCounted`, `OnlyPassingIsRetried` | `Spec => []` of `AnswerFits`, `SentHopsCount`, `OnlyPassingRetried` |
| `TokensProofs` | `NothingIsUnwritten` | `Patient /\ Spec => []NothingUnwritten` |
| `TokensProofs` | `RenewalsAreDue` | `Patient /\ Spec => RenewedWhenDue` |
| `TokensProofs` | `NewestIsPresented` | `Patient /\ Careful /\ Spec => OnlyTheNewest` |
| `TokensProofs` | `LoginIsRight` | `Patient /\ Unmixed /\ Spec => []RightLogin` |
| `ConfigProofs` | `NoEditIsLost`, `RefusedIsNowhere`, `TheFileIsInForce` | `Spec => []` of `NothingLost`, `RefusedLeaveNothing`, `InForce` |
| `ConfigProofs` | `NamesAreNew` | `Sync`, no world has `"lag"` or `"skip"`: `Spec => [](Unused /\ Distinct)` |
| `ConfigProofs` | `MergedBeforePruned` | `Sync`, no world has `"skip"`: `Spec /\ []Unused => UnreadStay` |
| `ConfigProofs` | `PruningIsSafe` | `Sync`, no world has `"lag"` or `"skip"`: `Spec => UnreadStay` |
| `ConfigProofs` | `NumbersNeverFall` | `Sync`, any worlds: `Spec => NumbersGrow` |

**Slots**, for any sets of upstreams, requests and phantoms, any candidate lists
and any limits. The assumptions are those of the module: `MaxLimit` is a positive
number, candidate lists are nonempty sequences of upstreams, requests and
phantoms are finite and distinct, `Nowhere` is no upstream. The inductive
invariant is
`Inv == TypeOK /\ PlacesConserved /\ NothingLeftBehind /\ Bookkeeping`. None of
the first three is inductive alone. `avail` stays a natural number only because a
place that comes back was counted; a place counts once only if whoever holds it
runs and is not in a queue as well; a waiter that is woken enters the first of
its candidates that granted it something, which is well defined only if it waits
nowhere outside its list. `Bookkeeping` says these things: a counted place is
held by somebody who runs; a closed pool wakes only those who wait on it; a
phantom between its two steps has a limited upstream; an upstream without a limit
has no queue.

**Health**, for any upstreams and timers, any pauses and any settings whose pause is
positive and not above its maximum (`SettingsAssumption`, `HeldAssumption`). The
invariant `Kept` is the shape of a stored record. Its one point that is not a type
is that a breaker never keeps a success of a trial: as the gateway asks for one
only, the first closes it, and a failure in whatever state either leaves it closed
or starts the whole pause again. That pause is not shorter than the one that was
under way, since the count of trips it is doubled by only grows; and a stated pause
counts if it is the longer one.

**Gate**, for any finite sets of requests and any limits. The invariant is
`Typed /\ PassesConserved`: that the books say how many passes are out needs that
`avail` and `owed` are natural numbers, that only who is not in may enter, and
that the goal of the successor is never negative, for which every count on the
link is a natural number. `Balance`, `RequestBalance` and `NewBalance` say what
one step does to both sides of the equation. `PhantomsFollow` is about the end of
a story: what the successor will aim for once it has heard all that is on the
link. A step of the predecessor adds its end to the link and changes its claims by
the same number (`Follows` says that the two agree); a step of the reader moves
the beginning of the link into the goal and leaves the end where it was. That is
an induction on the number of messages, over the recursive function that says
what is heard (`Heard`).

**Usage**, for any requests, names, windows, worlds and bounds, with all that may
happen in one behaviour: renames with requests under way, restarts, lost and blind
rows, handovers that fail or overflow. What the sums and windows are plays no
part; the theorem is about who holds what. The invariant `Whole` says of a core
that exists what `Owned` says: a request has at most one reservation that is not
bound yet, its own and of a try that counts (`Holder`), and with those bound to it
as many as it has tries that count; and whatever is held here and not for the other
core is somebody's, who has not been recorded. Numbers are given once only
(`Formed`), so that a reservation held for the other core is never taken for one of
a request here. The last part of the property is again about the end of a story:
`Will` says which numbers of the old core the new one will hold once it has heard
the rest of the feed, that is, the last that is said of each counts, and `Trails`
that these are the ones the old core has, at every moment of a drain. It starts
with the commit, whose last event is the list of all of them, so that what was lost
before does not matter; a step of the old core says what it does at the end
(`WillLast`, `WillDrops`), and hearing the first leaves the end as it was
(`WillFirst`). TLC checked both invariants on a run with all worlds at once first.

`Lemmas` has what several of these proofs rest on: what each operator of the books
does to `Out`, `avail` and the queue; what `RemoveAt` and `Among` leave of a list
(the elements in question, once each if they were, in their order); and induction
over the natural numbers. The library's theorem on induction has an operator as a
parameter. `Induction` states it of a set instead and is proved from the theorem
that a well-founded order has minimal elements (`WFMin`).

**Config**, for any writers, marks, worlds and bounds. The invariant `IInv` has
ten parts. `Shape` has the types and who may write at which stage. `Own`: a writer
works on a text that has its mark. `Alone`: between a check and its rename nobody
else is between theirs, and the file is still what was checked, so that a rename
takes out nothing but what the writer has seen; `Kept` is `NothingLost`.
`Unseen`: a mark is nowhere before its writer has renamed, from which follows
that a refused one is nowhere at all. `Buildable`, `OneThread`, `Mirror`,
`Starting` and `Caught` follow the core: one thread at a time is between what it
has seen and what is in force; apart from it the two are the same; and unless a
change is still to be noticed, that thread works on the text of the file.

**Handover**, for any number of cores, crashes and strikes. Two of the three
windows of section 3 must be closed, `"acquire"` and `"late"` (`Timely`); whether a
core may crash between the claim and the mark makes no difference to who leads. A
core comes to lead in three steps: it finds the ports free, its giver
acknowledges, or its giver is gone. The first and the second are safe by
themselves. The third needs to know that no other core has come to lead in the
meantime, and that is the invariant: at most one core leads; at most one is an
heir, that is, has the listeners of its giver or has them on the way; and beside
an heir nobody leads but its giver. That its giver is the process whose end it
waits for is in `Locked` (whom the lock names while it lives) and `Linking` (who
is connected to whom). Every step leaves as many leaders, takes one away, or is
one of the three; each is a step of `Lead` or none. That a core which does not
lead does not renew either (`Holding`) gives the second theorem.

Who has the store open is decided by waiting, so the invariant for it, `Store`, is
about who waits for whom. A core that drains is on record: in the marks, as the one
the lock names, or with the core that is about to mark it (`Noted`), and who comes
to write, which is whoever has the lock or the listeners, or still gets them from a
live giver, has all cores that drain among its predecessors (`Awaited`). So of two
cores that may write one waits for the end of the other (`InLine`), and the one that
is open has seen its predecessors go (`Opened`). Two hypotheses are needed besides
`Timely`. Between `claim` and `mark_draining` nobody dies. And the mark of a live
core stays (`MarksStay`), which is what `prune_draining` breaks with four cores
(section 5): the theorem says that nothing else does. In the same way `LockIsKept`
has as its hypothesis what the other defect of section 5 violates, that a core
which looks at the ports still has the lock (`LockAtBind`). With three cores and
three crashes, and with four cores and three crashes, TLC finds `OneWriter` and
`LockStays` true in all behaviours that satisfy the hypothesis, and with four
violated in others.

**Throttle**, for any upstreams, limits and requests. A step of a request, `Turn`,
is shown once and for all to do three things well: the tickets it has in hand
stay its own, it ends the probing at no upstream unless the probe is overdue, and
it takes the ticket of nobody else who probes. The invariant is `Fields` (what is
kept has its fields, and each request holds only tickets it got itself) with
`Signed` (the ticket of a probe was got under the name of its upstream) and
`OneProbes` itself. Without `Signed` a request could give back a ticket at one
upstream and so release a probe at another. `OnlyVerdictsOpen` needs `Fields`
alone and holds through a rename. `OneProbes` is proved for `~Renames`: a rename
replaces the configuration under requests that were let through under the old
name, and while it is under way another may be let through under the new one.

The queues and tickets have an invariant of their own, `Orders`: every queue is a
line without repetition (`Lines`); the ticket of an upstream with places was got
there (`Placed`); and the ticket of a probe that was not sent is in the hands of a
request that will send it or return it (`InHand`). A step of a request does one of
four things to a queue (`Moved`): nothing, it leaves, it joins at the end, or, if
it probed, at the head; and with a ticket that was not sent it either has it in
hand after the step or had nothing to do with it (`Gripped`). From the first
follows `NoOvertaking`, from the second `TicketsInHand`, both through a rename,
which puts one line behind the other. That whoever is in a queue waits, and knows
of it (`Queued`), holds only if no upstream is renamed, see section 5.

**Attempts**, for any upstreams in any order, any deadline and any trouble. The
properties are read off when the loop is over, when only the chain is left. The
invariant `Ledger` says what the loop knows of its own chain until then:
`reached` is set once the chain has a failure, `err` names the upstream of the
last error in it (`Honest`), and the memory of the usage limits has as many tries
of an upstream as the chain has rows that count for it, unless one of them timed
out (`Balanced`; for that case see section 5). A step adds one row and books one
try, adds a row that does not count and books none, or changes neither; which of
these it is does not depend on the order of the upstreams, on rounds, or on time.
`OnlyPassingRetried` relates each row to those of the round before. Its invariant,
`Tries`, says of whoever may still get a row in this round, at hand, in the queue
or put aside, that it failed in the round before in a way that passes
(`Tryable`); of those that count as shaky, that they did so in this round; of a
hint, that it is of the last attempt; and of the round that is planned, that all
three allow it.

**Tokens**, for any requests, any number of tokens and any set of worlds without
`"slow"`, `"long"` and `"behind"` (`Patient`). The first lets a successor go on
without waiting for its predecessor to settle, so that it may not know what that has
renewed; the second lets a request live longer than the tokens of its
configuration, so that it renews what was just renewed; the third lets a successor
take over before it has read what its predecessor wrote (section 5). TLC finds both
properties violated with either of the first two (with failures as well, for one of
the two each time). The
invariant `IInv` has fourteen parts, which follow one renewed token around.
`Order` says which core may have an exchange on its way or something to write, by
the stage of the handover: never both. While a new token is in the queue to the
file, the core uses it, nobody renews it, and all requests have the login it came
from (`Queued`). Once it is in the file and a configuration is behind, the cache
covers it (`Lagging`). A cache is either for the file as it is or from a login
before it (`Ours`), and then nothing has been written since (`Strangers`): the one
case in which a request goes past the cache. A refresh token newer than the file
is always looked after by one of the cores (`Covered`), which has to hold while it
is presented too, as the answer brings the next one (`Asking`). What a successor
starts with is what its predecessor uses, or of a login before the file
(`Taking`). For `RenewedWhenDue` the invariant has to speak of requests that were
refused: the token a request went with is still the one in use, or something was
renewed after it went, by the mark it took (`Sent`); and a failed exchange was one
that was due (`Causes`).

`OnlyTheNewest` and `RightLogin` compare tokens by the order in which they were
issued, and a second invariant, `Succession`, follows that order. All that was read
of the file is of the newest login (`Recents`); what a core keeps is not older than
the login it keeps it for (`Fitting`); what is presented is the newest its core has
(`Pendings`), and what a request goes with is of the newest login (`Usings`); a
successor that took over early is not ahead of its predecessor (`Growing`); and at
the end of a handover the predecessor has nothing that is not in the file or with
the successor (`Handed`). The last has an exception, a world in which cores crash
and exchanges fail, since a token that could not be written dies with the core;
and where sign-ins meet failures, an order between logins is lost as described in
section 5. So `OnlyTheNewest` is proved for all worlds in which a handover with
failures meets neither a crash nor a sign-in (`Careful`), and `RightLogin` for all in
which sign-ins meet no failure (`Unmixed`). Both conditions are exact: TLC finds
`OnlyTheNewest` violated in the worlds `{"successor", "fail", "crash"}` and
`{"successor", "fail", "edit"}`, and `RightLogin` in `{"edit", "fail"}`
(`tokens_login`).

**Device synchronisation**, for any devices, objects, edits and decisions, with
failures, crashes and overlapping rounds. A version names its parents and its older
ancestors; where no files are skipped (`Patient` again), a device deletes what is
in the lineage of the version it has just published. The invariant `Pruning` says of all versions, those at the location,
those that have arrived at a device and those about to be published, that lineages
are whole (who has a version in its lineage has that one's lineage) and that numbers
count up along them (`Sound`); and of a round that prunes, that some version at the
location has the lineage of what it published (`Replaced`). The latter survives what
others prune meanwhile: if that version goes too, then since one with a longer
lineage has come, and among finitely many numbers there is a last one. All of
this needs that a name means one version (`Unused`). `NamesAreNew` proves that for
worlds in which each device sees the location as it is (`Steady`: neither `"lag"` nor `"skip"`):
`next_seq` counts on from all names that are listed, and a device's own last version
is listed, or one that has it. With files that arrive late it is not so. Simulating
larger instances (five versions, five edits), TLC finds a device that sees the
deletion of its own version before anything newer has arrived, and gives the
number again (`engine.rs:1429-1436` looks at listed names only).
`UnreadStay`, which is `NoUnmergedDeleted` without the exception for skipped files, was
not violated in any of those behaviours either, but there it rests on TLC: `MergedBeforePruned` gives it with `Unused` as a hypothesis.

With skipped files `UnreadStay` is false (section 5). What is left of it is
proved for every world, as `NumbersNeverFall`: whatever a device misses, skips and
deletes, there stays a version with a number as high as that of any that goes. The
invariant `Counting` says of a round that prunes that some version at the location
has a number above all that it is about to delete; a skipped file is deleted only
below what is kept (`DoomedIsLower`), and what others prune meanwhile leaves one as
high or higher (`GoesGrows`).

Only model-checked:

* every liveness property (`WaitEnds`, `BreakerRecoveryShown`, `NobodyHangs`,
  `StoreOpens`, `Ends`, `Converges`): liveness under fairness is outside what
  TLAPS proves;
* what the theorems about `OneWriter`, `LockStays`, `OnlyTheNewest` and
  `NoUnmergedDeleted` exclude by hypothesis and the runs include;
* Usage: `PeriodIsTheRows`, `CountedOnce` and `WindowIsTheTries` are about sums over
  rows and windows, folds over sets and lists that grow and are read again, and
  induction over them needs a theorem with an operator as a parameter;
* Sync: what a device decides. `NoEditLost`, `SettledAgree` and `DecidedOnce` are
  about the contents of versions, which are folds over lists and sets, and they hold
  in the worlds listed, not in every combination of troubles.

## 7. Not modelled

* *Admission by keys* (`gw/key_limits/mod.rs`): the accounts are those of `Tally`;
  the wait for a window of a key is a loop of look and sleep, and what may exceed
  the limit while requests are under way is said in the module.
* *Conversation affinity, effort memory, latency, balance* (`gw/affinity.rs` and
  others): caches; losing one costs money only. Their handover is a copy.
* *Websockets* (`gw/ws/`): the calls of the hop loop over a long-lived connection.
* *Relay of the body, keep-alives, token counting* in the pipeline: streams of
  bytes without shared state.
* *Routing rules, format conversion, redaction, tool inspection, packs, prices,
  secrets, YAML, API types*: pure functions of their input, with table tests.
* *Plugins*: a sandbox, sequential per request.
* *Recorder, database, event bus*: SQL, files and a bounded channel. What a row
  means that is late, lost, repeated or read again is in `Usage`.
* *Control plane, background tasks, self-upgrade*: HTTP handlers and file
  operations. Those that write the configuration are the requests of `Config`.
* *Transport encryption and the keyring of synchronisation*: cryptography.

## 8. Running it

```
tlc -workers 2 -config slots.cfg MCSlots.tla
tlc -workers 2 -config handover.cfg MCHandover.tla
tlapm SlotsProofs.tla
```

`PROJECT.json` names the module and the configuration of each run. `sync`
takes about three minutes, the others less than one or two.
