-------------------------------- MODULE Sync --------------------------------
(***************************************************************************)
(* Rounds of synchronisation: Engine::round_inner of tw-sync, driven by    *)
(* the sync service of tw-control.  Each device has its configuration, the *)
(* version it last synchronised with (the base) and its view of the sync   *)
(* location, to which versions are only added and from which old ones are  *)
(* deleted.  A cloud drive carries the files: a device may see a version   *)
(* or a deletion late, and may see a file that it cannot read, for which   *)
(* it waits until it skips it.                                             *)
(*                                                                         *)
(* A round reads the location and the configuration and decides what to    *)
(* do, then applies, uploads, prunes and keeps the new base, in steps      *)
(* between which users edit, other devices go on, and the round may fail   *)
(* or the device crash.                                                    *)
(***************************************************************************)
EXTENDS Versions

CONSTANTS
  Exclude,    \* the objects a device does not synchronise
  InUse,      \* the gateway keys that clients of a device use
  First,      \* the configuration all devices start from
  Worlds,     \* sets of what may happen, one of which holds for ever
  Touched,     \* bound: Touched[w], the objects that users edit in a world
  MaxEdits,   \* bound: how often users edit, by world
  MaxTurns,   \* bound: how often a round fails or a user decides a conflict
  MaxSeq      \* bound: up to this version rounds overlap and files are late

ASSUME SettingsAssumption ==
  /\ Exclude \in [Device -> SUBSET Item] /\ InUse \in [Device -> SUBSET Item]
  /\ Worlds \subseteq SUBSET {"delete",    \* users delete objects
                              "meddle",    \* users edit what is in conflict
                              "decide",    \* users decide conflicts
                              "fail",      \* the location cannot be reached
                              "crash",     \* devices crash
                              "overlap",   \* rounds of devices overlap
                              "lag",       \* a cloud drive carries the files
                              "skip",      \* and some are broken, or very late
                              "exclude"}   \* devices leave objects out
  /\ Touched \in [Worlds -> SUBSET Item]
  /\ MaxEdits \in [Worlds -> Nat] /\ MaxTurns \in Nat /\ MaxSeq \in [Worlds -> Nat]

VARIABLES
  world,    \* what may happen
  files,    \* the versions at the sync location
  replica,  \* the versions that have arrived at each device
  local,    \* the configuration of each device
  base,     \* base.twconfig, and the name that state.json gives it
  bases,    \* the bases a device has had
  quiet,    \* what a device saw when its last round ended: none or one
  phase,    \* how far the round of a device is
  plan,     \* what the round has decided
  edits,    \* how often users have edited
  turns,    \* how often a round has failed or a conflict was decided
  over,     \* history: which values were written over which
  dropped,  \* history: values that a user deleted or decided against
  resolved  \* history: decided conflicts, once the decision is published

vars == <<world, files, replica, local, base, bases, quiet, phase, plan, edits, turns,
          over, dropped, resolved>>


Init ==
  LET v == [name |-> [seq |-> 1, dev |-> CHOOSE d \in Device : \A e \in Device : d <= e],
            parents |-> {}, history |-> {}, conflicts |-> <<>>, snap |-> First]
  IN  /\ world \in Worlds
      /\ files = {v}
      /\ replica = [d \in Device |-> {v}]
      /\ local = [d \in Device |-> First]
      /\ base = [d \in Device |-> [version |-> v, name |-> v.name]]
      /\ bases = [d \in Device |-> {v}]
      /\ quiet = [d \in Device |-> {[names |-> {v.name}, content |-> First]}]
      /\ phase = [d \in Device |-> "Idle"]
      /\ plan = [d \in Device |-> {}]
      /\ edits = 0 /\ turns = 0
      /\ over = {} /\ dropped = {} /\ resolved = {}

-----------------------------------------------------------------------------
(* Users *)

(* The conflicts a device lists are those of the version it last           *)
(* synchronised with.                                                      *)
Listed(d) == base[d].version.conflicts

InConflict ==
  UNION {{c.item : c \in ToSet(v.conflicts)} :
           v \in files \cup {p.next : p \in UNION {plan[d] : d \in Device}}}

(* Without meddling, users wait until a conflict is dealt with.            *)
Editable == IF "meddle" \in world THEN Touched[world] ELSE Touched[world] \ InConflict

(* What a value was written over. *)
Past(v) == {p.old : p \in {q \in over : q.new = v}}

Edit(d, i) ==
  /\ edits < MaxEdits[world]
  /\ i \in Editable
  /\ \/ /\ local' = [local EXCEPT ![d][i] = edits + 1]
        /\ over' = over \cup {[item |-> i, old |-> v, new |-> edits + 1] :
                               v \in {local[d][i]} \cup Past(local[d][i])}
        /\ UNCHANGED dropped
     \/ /\ "delete" \in world /\ local[d][i] # Absent
        /\ local' = [local EXCEPT ![d][i] = Absent]
        /\ dropped' = dropped \cup {local[d][i]}
        /\ UNCHANGED over
  /\ edits' = edits + 1
  /\ UNCHANGED <<world, files, replica, base, bases, quiet, phase, plan, turns,
                 resolved>>

-----------------------------------------------------------------------------
(* What a round decides *)

(* The base as it is read back: the file, under the name in state.json.    *)
BaseOf(d) == [base[d].version EXCEPT !.name = base[d].name]

(* A slip: the base counts although no head builds on it.                  *)
SlipUsable(d, ok) == {BaseOf(d)}

(* The base only counts if a head builds on it. *)
Usable(d, ok) ==
  {b \in {BaseOf(d)} : \E h \in Heads(ok) : b.name \in Ancestors(IndexOf(ok, {b}), h.name)}

(* Conflicts that other devices have dealt with: take what is there now.   *)
Forced(snap, known, remote) ==
  LET items == {c.item : c \in {k \in ToSet(known) : k.id \notin Ids(remote.conflicts)}}
  IN  [i \in Item |-> IF i \in items THEN remote.snap[i] ELSE snap[i]]

(* A conflict is over once this device has what the other side has.        *)
Over(c, d, now) ==
  \/ c.other.dev = d /\ now = c.shared.val
  \/ c.other.dev # d /\ c.shared.dev = d /\ now = c.other.val

(* The record follows what this device has now. *)
Follow(c, d, now) ==
  IF c.other.dev = d THEN [c EXCEPT !.other.val = now]
  ELSE IF c.shared.dev = d THEN [c EXCEPT !.shared.val = now]
  ELSE c

Open(cs, d, mine) ==
  LET left == SelectSeq(cs, LAMBDA c : ~Over(c, d, mine[c.item]))
  IN  [k \in DOMAIN left |-> Follow(left[k], d, mine[left[k].item])]

(* The records whose shared side is this device and has changed.           *)
Moved(cs, open, d) ==
  SelectSeq(open, LAMBDA c : \E k \in DOMAIN cs :
                     /\ cs[k].id = c.id /\ c.other.dev # d
                     /\ c.shared.dev = d /\ c.shared.val # cs[k].shared.val)

(* A conflict that a user decides is no longer open.                       *)
Chosen(cs, choice) == SelectSeq(cs, LAMBDA c : c.id \in {k.id : k \in choice})
SlipUndecided(cs, choice) == cs
Undecided(cs, choice) == SelectSeq(cs, LAMBDA c : c.id \notin {k.id : k \in choice})

(* What the choice of a user does to the configuration of its device.      *)
Decided(mine, c, d, choice) ==
  LET val == Theirs(c, d, mine[c.item]).val
  IN  CASE choice.take = "Local"  -> mine
        [] choice.take = "Remote" -> [mine EXCEPT ![c.item] = val]
        [] choice.take = "Both"   -> [mine EXCEPT ![choice.copy] = val]

Excluded(d) == IF "exclude" \in world THEN Exclude[d] ELSE {}

(* A key in use that another device deleted stays here, as a conflict.     *)
KeptKeys(d, mine, target) ==
  {i \in InUse[d] : mine[i] # Absent /\ target[i] = Absent}

(* Several heads, another content, or other conflicts.                     *)
NeedsUpload(heads, remote, shared, conflicts) ==
  \/ Cardinality(heads) > 1
  \/ shared # remote.snap
  \/ conflicts # remote.conflicts

(* The configuration and the conflicts that go into the merge: what other  *)
(* devices have decided is taken, and then the choice of the user.  known  *)
(* are the conflicts of the base.                                          *)
Facing(d, remote, known, choice) ==
  LET now    == Forced(local[d], known, remote)
      open   == Open(remote.conflicts, d, now)
      chosen == Chosen(open, choice)
  IN  [now    |-> now,
       moved  |-> Moved(remote.conflicts, open, d),
       chosen |-> chosen,
       open   |-> Undecided(open, choice),
       mine   |-> IF chosen = <<>> THEN now
                  ELSE Decided(now, Head(chosen), d, CHOOSE k \in choice : TRUE)]

(* What the merge gives: the configuration this device is to have, the one *)
(* to be published, and the conflicts.                                     *)
Result(d, remote, v, at, out) ==
  LET kept == KeptKeys(d, at.mine, out.local)
      keys == Found(kept, v, {v}, remote.dev, d, at.mine, Nothing)
  IN  [target    |-> [i \in Item |-> IF i \in kept THEN at.mine[i] ELSE out.local[i]],
       shared    |-> SetShared(out.shared, at.moved),
       conflicts |-> at.open \o Found(out.clash, v, {}, remote.dev, d, at.mine, remote.snap)
                       \o [k \in DOMAIN keys |-> [keys[k] EXCEPT !.inuse = TRUE]]]

Concluded(heads, remote, v, at, res) ==
  LET upload == NeedsUpload(heads, remote, res.shared, res.conflicts)
  IN  [target |-> res.target,
       chosen |-> at.chosen,
       mine   |-> at.now,
       remote |-> remote.snap,
       upload |-> upload,
       next   |-> IF upload
                  THEN [name |-> v, parents |-> NamesOf(heads),
                        history |-> HistoryOf(heads),
                        conflicts |-> res.conflicts, snap |-> res.shared]
                  ELSE Head(InOrder(heads))]

Merged(d, heads, usable, remote, v, at) ==
  Concluded(heads, remote, v, at,
    Result(d, remote, v, at,
           Merge(SnapOf(usable), at.mine, remote.snap,
                 Held(at.open, Excluded(d), at.mine, remote.snap))))

Faced(d, heads, usable, remote, v, choice) ==
  Merged(d, heads, usable, remote, v, Facing(d, remote, ConflictsOf(usable), choice))

Opened(d, heads, usable, ok, v, choice, lead) ==
  Faced(d, heads, usable, Folded(heads, ok, usable, bases[d], v, lead), v, choice)

(* names and ok: the versions that are listed and not skipped, and those   *)
(* that can be read.  A device can read its own versions, so its number is *)
(* above those of all of them.                                             *)
Outcome(d, ok, names, choice, lead) ==
  Opened(d, Heads(ok), Usable(d, ok), ok, [seq |-> NextSeq(names), dev |-> d], choice, lead)

-----------------------------------------------------------------------------
(* A round *)

(* The choices a user may make: none, or about a conflict that is listed.  *)
Decisions(d) ==
  {{}} \cup
  IF turns = MaxTurns \/ "decide" \notin world THEN {}
  ELSE {{[id |-> c.id, take |-> t, copy |-> c.item]} :
          c \in ToSet(Listed(d)), t \in {"Local", "Remote"}}
       \cup {{[id |-> c.id, take |-> "Both", copy |-> i]} :
          c \in ToSet(Listed(d)), i \in {j \in Editable \ Excluded(d) : local[d][j] = Absent}}

(* Both need a value on either side and a name that is free.               *)
Allowed(c, k, snap) ==
  k.take = "Both" => ~Whole(c) /\ ~c.inuse /\ snap[k.copy] = Absent

(* While the numbers are low: rounds overlap, and files arrive late.       *)
Busy == Latest(NamesOf(files)).seq < MaxSeq[world]

MayBegin == ("overlap" \in world /\ Busy) \/ \A d \in Device : phase[d] = "Idle"

(* Files that are there for long but that a device cannot read, and skips: *)
(* they are broken, or it has waited for too long.                         *)
Skips(new) == IF "skip" \in world THEN SUBSET new ELSE {{}}

(* What a device sees: versions and deletions that arrive now, files that  *)
(* are listed but cannot be read yet, and files that it skips.             *)
Views(d) ==
  LET new == files \ replica[d]
  IN  IF ~Busy THEN {[ok |-> files, wait |-> {}, skip |-> {}]}
      ELSE IF "lag" \in world
      THEN {[ok |-> (replica[d] \ l) \cup a, wait |-> w, skip |-> s] :
              l \in SUBSET (replica[d] \ files), a \in SUBSET new, w \in SUBSET new,
              s \in Skips(new)}
      ELSE {[ok |-> files \ s, wait |-> {}, skip |-> s] : s \in Skips(new)}

After(p) ==
  LET q == CHOOSE x \in p : TRUE
  IN  IF q.target # q.before THEN "Apply" ELSE IF q.upload THEN "Publish" ELSE "Save"

(* Skipped files that are older than all that are kept; a slip: all of     *)
(* them.                                                                   *)
SlipBelow(skip, kept) == skip
Below(skip, kept) == {n \in skip : kept # {} /\ \A k \in kept : n.seq < k.seq}

(* The versions that are to go: names are those that are listed, ok those  *)
(* that could be read, skip those that were skipped.                       *)
Doomed(names, ok, skip) ==
  LET old == ToDelete(names, ok) IN old \cup Below(skip, names \ old)

(* What of the outcome do the round goes by, with the names it saw and the *)
(* versions that are to go.                                                *)
Planned(d, ok, names, wait, skip, do) ==
  [before |-> local[d], target |-> do.target,
   upload |-> do.upload, next |-> do.next,
   names  |-> names \cup {do.next.name},
   old    |-> IF do.upload
              THEN Doomed(names \cup {do.next.name}, ok \cup {do.next}, skip)
              ELSE {},
   closes |-> {[item |-> c.item, of |-> Values(c)] :
                 c \in {x \in ToSet(Listed(d)) : x.id \in Ids(do.chosen)}},
   quiet  |-> wait = {}]

(* The values that a choice decides against. *)
GivenUp(d, choice, do) ==
  {IF k.take = "Local" THEN Theirs(c, d, do.mine[c.item]).val ELSE do.mine[c.item] :
     c \in ToSet(do.chosen), k \in {x \in choice : x.take # "Both"}}

Round(d) ==
  /\ phase[d] = "Idle"
  /\ MayBegin
  /\ \E see \in Views(d), choice \in Decisions(d) :
       LET ok    == see.ok
           wait  == NamesOf(see.wait)
           skip  == NamesOf(see.skip)
           names == NamesOf(ok) \cup wait
           now   == [names |-> names, content |-> local[d]]
       IN  /\ see.ok \cap see.wait = {} /\ see.skip \cap (see.ok \cup see.wait) = {}
           /\ ok # {} /\ Latest(names).seq = Latest(NamesOf(ok)).seq
           /\ ~(choice = {} /\ wait = {} /\ quiet[d] = {now})
           /\ \E lead \in NamesOf(Heads(ok)) :
                \E do \in {Outcome(d, ok, names, choice, lead)} :
                    /\ choice # {} =>
                         \E c \in ToSet(do.chosen), k \in choice : Allowed(c, k, do.remote)
                    /\ plan' = [plan EXCEPT ![d] = {Planned(d, ok, names, wait, skip, do)}]
                    /\ dropped' = dropped \cup GivenUp(d, choice, do)
           /\ replica' = [replica EXCEPT ![d] = ok]
           /\ turns' = turns + Cardinality(choice)
           /\ quiet' = [quiet EXCEPT ![d] = IF choice = {} THEN @ ELSE {}]
  /\ phase' = [phase EXCEPT ![d] = After(plan'[d])]
  /\ UNCHANGED <<world, files, local, base, bases, edits, over, resolved>>

Plan(d) == CHOOSE p \in plan[d] : TRUE

(* A round ends, and what it had decided is forgotten.                     *)
Abandon(d) ==
  /\ phase' = [phase EXCEPT ![d] = "Idle"]
  /\ plan' = [plan EXCEPT ![d] = {}]

(* A configuration that somebody else changed meanwhile is not touched.    *)
Apply(d) ==
  /\ phase[d] = "Apply"
  /\ IF local[d] # Plan(d).before
     THEN Abandon(d) /\ UNCHANGED local
     ELSE /\ local' = [local EXCEPT ![d] = Plan(d).target]
          /\ phase' = [phase EXCEPT ![d] = IF Plan(d).upload THEN "Publish" ELSE "Save"]
          /\ UNCHANGED plan
  /\ UNCHANGED <<world, files, replica, base, bases, quiet, edits, turns, over,
                 dropped, resolved>>

Publish(d) ==
  /\ phase[d] = "Publish"
  /\ files' = files \cup {Plan(d).next}
  /\ replica' = [replica EXCEPT ![d] = @ \cup {Plan(d).next}]
  /\ resolved' = resolved \cup Plan(d).closes
  /\ phase' = [phase EXCEPT ![d] = IF Plan(d).old = {} THEN "Save" ELSE "Prune"]
  /\ UNCHANGED <<world, local, base, bases, quiet, plan, edits, turns, over,
                 dropped>>

(* A deletion that fails is left to a later round. *)
Prune(d) ==
  /\ phase[d] = "Prune"
  /\ \E gone \in IF turns = MaxTurns \/ "fail" \notin world THEN {Plan(d).old} ELSE {{}, Plan(d).old} :
       /\ files' = {v \in files : v.name \notin gone}
       /\ replica' = [replica EXCEPT ![d] = {v \in @ : v.name \notin gone}]
       /\ plan' = [plan EXCEPT ![d] = {[p EXCEPT !.names = @ \ gone] : p \in plan[d]}]
       /\ turns' = IF gone = Plan(d).old THEN turns ELSE turns + 1
  /\ phase' = [phase EXCEPT ![d] = "Save"]
  /\ UNCHANGED <<world, local, base, bases, quiet, edits, over, dropped, resolved>>

(* Slips: the shortcut is what is there now; or is never taken.            *)
SlipShortcut(d) ==
  IF Plan(d).quiet THEN {[names |-> NamesOf(files), content |-> local[d]]} ELSE {}
NoShortcut(d) == {}

Shortcut(d) ==
  IF Plan(d).quiet THEN {[names |-> Plan(d).names, content |-> Plan(d).target]} ELSE {}

KeepBase(d) ==
  /\ base' = [base EXCEPT ![d] = [version |-> Plan(d).next, name |-> Plan(d).next.name]]
  /\ bases' = [bases EXCEPT ![d] = @ \cup {Plan(d).next}]

(* The new base, then the state, which names the base.  The shortcut of    *)
(* the next round is what this round saw and did itself.                   *)
Save(d) ==
  /\ phase[d] = "Save"
  /\ KeepBase(d)
  /\ quiet' = [quiet EXCEPT ![d] = Shortcut(d)]
  /\ Abandon(d)
  /\ UNCHANGED <<world, files, replica, local, edits, turns, over, dropped, resolved>>

(* The location cannot be reached.  The upload fails, or the record of the *)
(* device that is written once the base is kept.                           *)
Fail(d) ==
  /\ "fail" \in world /\ turns < MaxTurns
  /\ \/ phase[d] = "Publish" /\ UNCHANGED <<base, bases>>
     \/ phase[d] = "Save" /\ KeepBase(d)
  /\ Abandon(d)
  /\ turns' = turns + 1
  /\ UNCHANGED <<world, files, replica, local, quiet, edits, over, dropped, resolved>>

(* The shortcut is in memory only.  The file of the base may be written    *)
(* already, and the state not.                                             *)
Crash(d) ==
  /\ "crash" \in world /\ turns < MaxTurns
  /\ phase[d] # "Idle"
  /\ \/ UNCHANGED <<base, bases>>
     \/ /\ phase[d] = "Save"
        /\ base' = [base EXCEPT ![d].version = Plan(d).next]
        /\ bases' \in {bases, [bases EXCEPT ![d] = @ \cup {Plan(d).next}]}
  /\ Abandon(d)
  /\ quiet' = [quiet EXCEPT ![d] = {}]
  /\ turns' = turns + 1
  /\ UNCHANGED <<world, files, replica, local, edits, over, dropped, resolved>>

Step(d) == \/ Round(d) \/ Apply(d) \/ Publish(d) \/ Prune(d) \/ Save(d)

Next ==
  \/ \E d \in Device : Step(d) \/ Fail(d) \/ Crash(d) \/ \E i \in Item : Edit(d, i)

Spec     == Init /\ [][Next]_vars

(* A device whose last round saw all there is, or that waits for another.  *)
AtRest(d) ==
  /\ phase[d] = "Idle"
  /\ \/ quiet[d] = {[names |-> NamesOf(files), content |-> local[d]]}
     \/ ~MayBegin

(* WF_vars(Step(d)), with AtRest(d) for what disables the step.            *)
FairSpec == Spec /\ \A d \in Device : []<>AtRest(d) \/ []<><<Step(d)>>_vars

-----------------------------------------------------------------------------
(* Properties *)

Kept(v) ==
  \/ \E d \in Device, i \in Item : local[d][i] = v
  \/ \E f \in Heads(files) : \E c \in ToSet(f.conflicts) : v \in Values(c)

(* What a user wrote is still somewhere, in a configuration or as a side   *)
(* of an open conflict, unless a user wrote over it, deleted it, or        *)
(* decided a conflict about its object: merging on its own loses nothing,  *)
(* whatever the order of the rounds (merge, fold, prune), and no version   *)
(* takes the name of another (publish, put_new).                           *)
NoEditLost ==
  /\ \A v, w \in files : v.name = w.name => v = w
  /\ \A e \in over : \/ Kept(e.new)
                     \/ e.new \in dropped \cup {f.old : f \in over}
                     \/ \E r \in resolved : r.item = e.item

(* No device has anything left to do: the last round of each saw all       *)
(* versions, and the configuration as it is now (the shortcut of a round). *)
Settled ==
  \A d \in Device :
    /\ phase[d] = "Idle" /\ replica[d] = files
    /\ quiet[d] = {[names |-> NamesOf(files), content |-> local[d]]}

(* Each side of a conflict has its own value.  A device that takes no      *)
(* part in it is left with what it has.                                    *)
KeepsOwn(c, d, v) ==
  /\ c.other.dev = d => v = c.other.val
  /\ c.other.dev # d /\ c.shared.dev = d => v = c.shared.val

InStep ==
  /\ Cardinality(Heads(files)) = 1
  /\ \A h \in Heads(files), d \in Device, i \in Item :
       \/ local[d][i] = h.snap[i]
       \/ i \in Excluded(d)
       \/ \E c \in ToSet(h.conflicts) : c.item = i /\ KeepsOwn(c, d, local[d][i])

(* Once the rounds have nothing left to do, there is one version, and all  *)
(* devices have what it says, except on what is in conflict and on what    *)
(* they do not synchronise.                                                *)
SettledAgree == Settled => InStep

(* A conflict that a user has decided on one device is not left to be      *)
(* decided again (record.rs: handled once), unless it is about a key that  *)
(* clients of a device still use.                                          *)
DecidedOnce ==
  Settled => \A h \in Heads(files) : \A c \in ToSet(h.conflicts) :
               c.inuse \/ [item |-> c.item, of |-> Values(c)] \notin resolved

(* Some version is deleted that none of those that stay has merged.        *)
Unmerged == \E v \in files \ files' : \A w \in files' : v.name \notin Lineage(w)

(* A version is deleted only once a version that is there has it among its *)
(* ancestors: pruning takes away nothing that is not merged yet, and       *)
(* versions that are late stay (layout.rs, to_delete).  That holds as long *)
(* as no device skips files.                                               *)
NoUnmergedDeleted == [][Unmerged => "skip" \in world]_vars

(* The same without the exception, as layout.rs says it of all versions    *)
(* that cannot be read.  The code does not do so: see the README.          *)
UnreadStay == [][~Unmerged]_vars

(* Whatever devices miss, skip and delete, the highest number at the       *)
(* location never falls: the next version counts on from it (next_seq).    *)
NumbersGrow ==
  [][\A v \in files : \E w \in files' : v.name.seq <= w.name.seq]_vars

(* Once users stop editing, rounds come to an end: every device sees all   *)
(* versions and uploads no more.                                           *)
Converges == <>("lag" \in world \/ []Settled)
=============================================================================
