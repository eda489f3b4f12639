------------------------------- MODULE Config -------------------------------
(***************************************************************************)
(* config.yaml and the configuration in force: ConfigManager of            *)
(* tw-control over tw-config's store and watch.  Requests of the control   *)
(* plane write the file and put what they wrote in force; twcore config    *)
(* and editors write the file only, and the watcher has the core read it   *)
(* again.  `seen` is how the core knows its own writes from others'.       *)
(*                                                                         *)
(* A text is the set of the marks that edits have left in it.  Threads of  *)
(* the core, command lines and editors interleave at every read and write  *)
(* of the file and of what the core keeps.                                 *)
(***************************************************************************)
EXTENDS FiniteSets, Naturals

CONSTANTS
  Requests,     \* writes asked of the control plane; each leaves its own mark
  Commands,     \* runs of twcore config set, likewise
  Seeds,        \* the requests that the core makes itself before it watches
  HandMarks,    \* what editors put in and take out
  Broken,       \* marks with which a text is not a valid configuration
  Unbuildable,  \* marks with which a valid one cannot be put in force
  Key,          \* marks of the section that the control plane may not change
  Worlds,       \* sets of what may happen, one of which holds for ever
  MaxSaves,     \* bound: how often editors save
  MaxCrashes    \* bound: how often the core crashes

Writers == Requests \cup Commands
Marks   == Writers \cup HandMarks

ASSUME SettingsAssumption ==
  /\ Requests \cap Commands = {} /\ Writers \cap HandMarks = {}
  /\ Seeds \subseteq Requests
  /\ Broken \cup Unbuildable \cup Key \subseteq HandMarks
  /\ Worlds \subseteq SUBSET {"gap",      \* the file changes under a check
                              "overlap",  \* the core takes on several changes at once
                              "start",    \* the file changes while a core starts
                              "unbuilt"}  \* Unbuildable marks are used
  /\ {MaxSaves, MaxCrashes} \subseteq Nat

VARIABLES
  world,     \* what may happen
  file,      \* the text of config.yaml
  stage,     \* how far the core has started
  running,   \* the configuration in force; none is the stand-in of safe mode
  seen,      \* ConfigManager::seen, the text of the fingerprint: none or one
  rejected,  \* ConfigManager::rejected: the interface shows a rejection
  noise,     \* the file changed and the debounce has not ended
  signal,    \* the channel of the watch, which holds one
  reload,    \* the task of the watcher
  writer,    \* the writers: how far, what they read and what they write
  tmp,       \* the temporary file of the core, by its writer: none or one
  hand,      \* what an editor has open: none or one text
  saves,     \* how often editors have saved
  crashes,   \* how often the core has crashed
  kept,      \* history: the marks that somebody was told are in
  over       \* history: the marks that somebody took out who had seen them,
             \* or that an editor saved over

core   == <<running, seen, rejected>>
watch  == <<noise, signal, reload>>
past   == <<kept, over>>
vars   == <<world, file, stage, core, watch, writer, tmp, hand, saves, crashes, past>>

-----------------------------------------------------------------------------
Parses(t) == t \cap Broken = {}
Builds(t) == t \cap Unbuildable = {}

(* The marks editors use in this world. *)
Typed == IF "unbuilt" \in world THEN HandMarks ELSE HandMarks \ Unbuildable

Idle == [pc |-> "idle", base |-> {}, next |-> {}]

Init ==
  /\ world \in Worlds
  /\ file = {} /\ stage = "down"
  /\ running = {} /\ seen = {} /\ rejected = FALSE
  /\ noise = FALSE /\ signal = FALSE /\ reload = [pc |-> "idle", text |-> {}]
  /\ writer = [w \in Writers |-> Idle] /\ tmp = {}
  /\ hand = {} /\ saves = 0 /\ crashes = 0
  /\ kept = {} /\ over = {}

(* Who is between the check of the file and the rename.                    *)
Renaming == {w \in Writers : writer[w].pc = "rename"}

(* Between a check and the rename that follows it, microseconds later,     *)
(* nobody else touches the file, except in a world with gaps.              *)
Touchable == "gap" \in world \/ Renaming = {}

(* While a core starts nobody else writes the file, except in a world      *)
(* where that happens.                                                     *)
Settled == "start" \in world \/ stage \in {"down", "up"}

(* Without overlaps the core deals with one change at a time: with one     *)
(* request, and with what it has written before what it is to read.        *)
OneAtATime(busy) == "overlap" \in world \/ ~busy

Writing == \E w \in Requests : writer[w].pc \in {"rename", "mark", "apply"}

(* The file changes: the core's watch, if there is one, makes a note.      *)
Becomes(t) == file' = t /\ noise' = (noise \/ stage = "up")

-----------------------------------------------------------------------------
(* The core starts *)

(* tw_config::load and AppState::new: a core does not start without a      *)
(* configuration it can put in force.                                      *)
Load ==
  /\ stage = "down" /\ Parses(file) /\ Builds(file)
  /\ stage' = "loaded"
  /\ running' = {file} /\ rejected' = FALSE
  /\ UNCHANGED <<world, file, seen, watch, writer, tmp, hand, saves, crashes, past>>

(* In safe mode, and when it takes over, it starts with a stand-in.        *)
LoadStandIn ==
  /\ stage = "down" /\ ~Parses(file)
  /\ stage' = "loaded"
  /\ running' = {} /\ rejected' = TRUE
  /\ UNCHANGED <<world, file, seen, watch, writer, tmp, hand, saves, crashes, past>>

(* ConfigManager::new, and standing_in: what is in force under a stand-in  *)
(* is not what was seen.                                                   *)
Make ==
  /\ stage = "loaded"
  /\ stage' = "made"
  /\ seen' = IF running = {} THEN {} ELSE {file}
  /\ UNCHANGED <<world, file, running, rejected, watch, writer, tmp, hand, saves, crashes,
                 past>>

(* The default plugins are in, and the file is watched from now on.        *)
Watch ==
  /\ stage = "made"
  /\ \A w \in Seeds : writer[w].pc \in {"idle", "done", "refused"}
  /\ stage' = "up"
  /\ UNCHANGED <<world, file, core, watch, writer, tmp, hand, saves, crashes, past>>

Crash ==
  /\ stage # "down" /\ crashes < MaxCrashes
  /\ stage' = "down" /\ crashes' = crashes + 1
  /\ running' = {} /\ seen' = {} /\ rejected' = FALSE
  /\ noise' = FALSE /\ signal' = FALSE /\ reload' = [pc |-> "idle", text |-> {}]
  /\ writer' = [w \in Writers |->
       IF w \in Requests /\ writer[w].pc # "idle" THEN [writer[w] EXCEPT !.pc = "done"]
       ELSE writer[w]]
  /\ tmp' = {}
  /\ UNCHANGED <<world, file, hand, saves, past>>

-----------------------------------------------------------------------------
(* Writers *)

At(w, pc) == writer' = [writer EXCEPT ![w].pc = pc]

Refuse(w) == At(w, "refused")

(* When a request may begin: the seeds before the file is watched, the     *)
(* others when the control plane listens.                                  *)
MayAsk(w) ==
  \/ w \in Commands
  \/ /\ stage = (IF w \in Seeds THEN "made" ELSE "up")
     /\ OneAtATime(\E q \in Requests : writer[q].pc \notin {"idle", "done", "refused"})

(* What a writer makes of the text it has read: its mark is added, and     *)
(* whoever sends a whole text may put right what is wrong in it or get     *)
(* something wrong.                                                        *)
Edited(w, t) ==
  {t \cup {w}} \cup (IF w \in Requests \ Seeds
                     THEN {(t \cup {w}) \ Broken} \cup {t \cup {w, b} : b \in Broken}
                     ELSE {})

(* The text an edit is based on: what the interface fetched, what          *)
(* transform and patched read, what the command line reads.                *)
Read(w) ==
  /\ writer[w].pc = "idle" /\ MayAsk(w)
  /\ \E t \in Edited(w, file) :
       writer' = [writer EXCEPT ![w] = [pc |-> "read", base |-> file, next |-> t]]
  /\ UNCHANGED <<world, file, stage, core, watch, tmp, hand, saves, crashes, past>>

(* A slip: whether it is valid is left to what puts it in force.           *)
SlipAcceptable(w, t) ==
  w \in Requests => \A r \in running : t \cap Key = r \cap Key

(* May this text be written?  The command line only asks whether it is     *)
(* valid.                                                                  *)
Acceptable(w, t) ==
  /\ Parses(t)
  /\ w \in Requests => \A r \in running : t \cap Key = r \cap Key

(* A slip: the base is not compared with what is there.                    *)
SlipCheck(w) ==
  /\ writer[w].pc = "read" /\ Touchable
  /\ w \in Requests => OneAtATime(reload.pc # "idle")
  /\ IF Acceptable(w, writer[w].next)
     THEN At(w, "rename") /\ tmp' = IF w \in Requests THEN {w} ELSE tmp
     ELSE Refuse(w) /\ UNCHANGED tmp
  /\ UNCHANGED <<world, file, stage, core, watch, hand, saves, crashes, past>>

(* ConfigManager::write up to the write, or what the command line does:    *)
(* the file is still what the edit is based on, and the text may be        *)
(* written.  write_if_unchanged reads the file once more and refuses       *)
(* likewise.  The temporary file has the name of the process: a second     *)
(* writer of the core removes that of the first and makes its own.         *)
Check(w) ==
  /\ writer[w].pc = "read" /\ Touchable
  /\ w \in Requests => OneAtATime(reload.pc # "idle")
  /\ IF writer[w].base = file /\ Acceptable(w, writer[w].next)
     THEN At(w, "rename") /\ tmp' = IF w \in Requests THEN {w} ELSE tmp
     ELSE Refuse(w) /\ UNCHANGED tmp
  /\ UNCHANGED <<world, file, stage, core, watch, hand, saves, crashes, past>>

(* What w has written takes the place of the file. *)
Placed(w) ==
  /\ Becomes(writer[w].next)
  /\ over' = (over \cup (writer[w].base \ writer[w].next)) \ writer[w].next

(* write_atomic's rename: of the temporary file that is there.             *)
Rename(w) ==
  /\ writer[w].pc = "rename"
  /\ \/ /\ w \in Commands /\ Settled
        /\ Placed(w) /\ At(w, "done")
        /\ kept' = kept \cup {w} /\ UNCHANGED tmp
     \/ /\ w \in Requests /\ tmp # {}
        /\ \E o \in tmp : Placed(o)
        /\ At(w, "mark") /\ tmp' = {} /\ UNCHANGED kept
     \/ /\ w \in Requests /\ tmp = {}
        /\ Refuse(w) /\ UNCHANGED <<file, noise, over, kept, tmp>>
  /\ UNCHANGED <<world, stage, core, signal, reload, hand, saves, crashes>>

(* The fingerprint is kept before what was written is put in force.        *)
Mark(w) ==
  /\ writer[w].pc = "mark"
  /\ seen' = {writer[w].next}
  /\ At(w, "apply")
  /\ UNCHANGED <<world, file, stage, running, rejected, watch, tmp, hand, saves, crashes, past>>

(* apply_text of a request: what is put in force takes back a rejection.   *)
Apply(w) ==
  /\ writer[w].pc = "apply"
  /\ IF Parses(writer[w].next) /\ Builds(writer[w].next)
     THEN /\ running' = {writer[w].next} /\ rejected' = FALSE
          /\ At(w, "done") /\ kept' = kept \cup {w}
     ELSE Refuse(w) /\ UNCHANGED <<running, rejected, kept>>
  /\ UNCHANGED <<world, file, stage, seen, watch, tmp, hand, saves, crashes, over>>

-----------------------------------------------------------------------------
(* Editors *)

Open ==
  /\ hand = {} /\ saves < MaxSaves
  /\ hand' = {file}
  /\ UNCHANGED <<world, file, stage, core, watch, writer, tmp, saves, crashes, past>>

(* An editor saves what it has open, with one thing put in or taken out or *)
(* as it is, over whatever is there.                                       *)
Save ==
  /\ hand # {} /\ Touchable /\ Settled
  /\ \E t \in hand : \E n \in {t} \cup {t \cup {m} : m \in Typed} \cup {t \ {m} : m \in Typed} :
       /\ Becomes(n)
       /\ over' = (over \cup (file \ n)) \ n
       /\ kept' = kept \cup (n \cap HandMarks)
  /\ hand' = {} /\ saves' = saves + 1
  /\ UNCHANGED <<world, stage, core, signal, reload, writer, tmp, crashes>>

-----------------------------------------------------------------------------
(* The watcher *)

(* debounce_loop: the changes of a while become one signal, dropped when   *)
(* there is one already.                                                   *)
Debounce ==
  /\ noise
  /\ noise' = FALSE /\ signal' = TRUE
  /\ UNCHANGED <<world, file, stage, core, reload, writer, tmp, hand, saves, crashes, past>>

(* The task of spawn_watcher takes the signal and reads the file.          *)
Notice ==
  /\ signal /\ reload.pc = "idle" /\ OneAtATime(Writing)
  /\ signal' = FALSE /\ reload' = [pc |-> "compare", text |-> file]
  /\ UNCHANGED <<world, file, stage, core, noise, writer, tmp, hand, saves, crashes, past>>

(* reload_from_disk: what was seen already is no change, and a rejection   *)
(* that was shown is over.                                                 *)
Compare ==
  /\ reload.pc = "compare"
  /\ IF seen = {reload.text}
     THEN rejected' = FALSE /\ reload' = [reload EXCEPT !.pc = "idle"]
     ELSE reload' = [reload EXCEPT !.pc = "apply"] /\ UNCHANGED rejected
  /\ UNCHANGED <<world, file, stage, running, seen, noise, signal, writer, tmp, hand, saves,
                 crashes, past>>

(* apply_text of a change from outside: only one that is not valid is      *)
(* shown as rejected.                                                      *)
Adopt ==
  /\ reload.pc = "apply"
  /\ IF ~Parses(reload.text)
     THEN rejected' = TRUE /\ reload' = [reload EXCEPT !.pc = "idle"] /\ UNCHANGED running
     ELSE IF ~Builds(reload.text)
     THEN reload' = [reload EXCEPT !.pc = "idle"] /\ UNCHANGED <<running, rejected>>
     ELSE /\ running' = {reload.text} /\ rejected' = FALSE
          /\ reload' = [reload EXCEPT !.pc = "mark"]
  /\ UNCHANGED <<world, file, stage, seen, noise, signal, writer, tmp, hand, saves, crashes,
                 past>>

(* A slip: what was read from the file is not kept as seen.                *)
SlipRemember ==
  /\ reload.pc = "mark"
  /\ reload' = [reload EXCEPT !.pc = "idle"]
  /\ UNCHANGED <<world, file, stage, core, noise, signal, writer, tmp, hand, saves, crashes,
                 past>>

(* It is seen once it is in force. *)
Remember ==
  /\ reload.pc = "mark"
  /\ seen' = {reload.text} /\ reload' = [reload EXCEPT !.pc = "idle"]
  /\ UNCHANGED <<world, file, stage, running, rejected, noise, signal, writer, tmp, hand,
                 saves, crashes, past>>

-----------------------------------------------------------------------------
Next ==
  \/ Load \/ LoadStandIn \/ Make \/ Watch \/ Crash
  \/ \E w \in Writers : Read(w) \/ Check(w) \/ Rename(w) \/ Mark(w) \/ Apply(w)
  \/ Open \/ Save
  \/ Debounce \/ Notice \/ Compare \/ Adopt \/ Remember

Spec == Init /\ [][Next]_vars

-----------------------------------------------------------------------------
(* Properties *)

(* The core has nothing left to do about the file. *)
Quiet ==
  /\ stage = "up" /\ ~noise /\ ~signal /\ reload.pc = "idle"
  /\ \A w \in Requests : writer[w].pc \in {"idle", "read", "done", "refused"}

(* The file is what runs, unless it is broken and shown as rejected.       *)
Agreed ==
  Quiet => IF Parses(file) THEN running = {file} /\ ~rejected ELSE rejected

(* Once the core is done with a change, from wherever it came and whatever *)
(* was going on when it came, the file is in force or its rejection is     *)
(* shown (lib.rs, overview: they differ only while the file is broken).    *)
(* Not so where changes meet a core that writes or starts, and not where a *)
(* valid configuration cannot be built: see the README.                    *)
InForce == world \cap {"overlap", "start", "unbuilt"} = {} => Agreed

(* What a request or a command was told is written, and what an editor     *)
(* saved, stays in the file until an editor goes over it or a writer that  *)
(* has seen it takes it out: a write never goes over what its base does    *)
(* not have (store.rs), but between the check and the rename.              *)
NothingLost == "gap" \notin world => kept \subseteq file \cup over

(* A write that was refused has changed nothing, even one that lost a race *)
(* or whose core crashed later.                                            *)
RefusedLeaveNothing ==
  world \cap {"gap", "unbuilt"} = {} =>
    \A w \in Writers : writer[w].pc = "refused" => w \notin file \cup UNION running
=============================================================================
