---------------------------- MODULE ConfigProofs ----------------------------
(***************************************************************************)
(* What holds of a configuration.  First, of Config for any writers,       *)
(* marks, bounds and worlds: no edit is lost, what was refused leaves      *)
(* nothing behind, and a quiet core has in force what is in the file.  At  *)
(* the end, of Sync for any devices, objects and bounds: what a device     *)
(* prunes at the location was merged into what remains there, where no     *)
(* files are skipped, and numbers at the location never fall.              *)
(*                                                                         *)
(* The inductive invariant of Config has a part per argument.  Shape says  *)
(* which values the variables take and who may be writing at which stage.  *)
(* Own: a writer works on a text with its own mark in it.  Alone: between  *)
(* a check and its rename nobody changes the file, so the rename takes out *)
(* nothing but what the writer has seen.  Unseen: a mark is nowhere before *)
(* its writer has renamed.  OneThread, Mirror, Starting and Caught follow  *)
(* the core: what it has seen is what runs, but while one thread is        *)
(* between the two; and unless a change is still to be noticed, what that  *)
(* thread works on is the text of the file.                                *)
(***************************************************************************)
EXTENDS Config, Lemmas

Texts == SUBSET Marks

Writing3 == {"rename", "mark", "apply"}
Over     == {"idle", "done", "refused"}

Shape ==
  /\ world \in Worlds
  /\ file \in Texts
  /\ stage \in {"down", "loaded", "made", "up"}
  /\ running \in SUBSET Texts /\ seen \in SUBSET Texts
  /\ rejected \in BOOLEAN /\ noise \in BOOLEAN /\ signal \in BOOLEAN
  /\ reload \in [pc : {"idle", "compare", "apply", "mark"}, text : Texts]
  /\ writer \in [Writers -> [pc : Over \cup Writing3 \cup {"read"},
                             base : Texts, next : Texts]]
  /\ tmp \in SUBSET Requests
  /\ hand \in SUBSET Texts
  /\ kept \in Texts /\ over \in Texts

(* A writer works on a text with its mark, which is in the file, or was    *)
(* taken out by one who had seen it, from the rename on.                   *)
Own ==
  /\ tmp \subseteq Renaming
  /\ \A w \in Writers :
       /\ writer[w].pc \in Writing3 \cup {"read"} => w \in writer[w].next
       /\ "gap" \notin world /\ writer[w].pc \in {"mark", "apply"} => w \in file \cup over
       /\ writer[w].pc \in Writing3 => Parses(writer[w].next)
       /\ writer[w].pc \in {"mark", "apply"} => w \in Requests

(* Without gaps, one alone is between its check and its rename, and what   *)
(* it has checked is still so.                                             *)
Alone ==
  "gap" \notin world =>
    \A w \in Renaming :
      /\ \A v \in Renaming : v = w
      /\ writer[w].base = file
      /\ w \in Requests => tmp = {w}

Kept == "gap" \notin world => kept \subseteq file \cup over

(* No text has the mark of w, but for the one that w itself writes.        *)
Nowhere(w) ==
  /\ w \notin file /\ w \notin reload.text
  /\ \A t \in running \cup hand : w \notin t
  /\ \A v \in Writers : w \notin writer[v].base /\ (v # w => w \notin writer[v].next)

Before == {"idle", "read", "rename", "refused"}

(* A mark is nowhere before its writer has renamed, nor when it was        *)
(* refused.                                                                *)
Unseen ==
  world \cap {"gap", "unbuilt"} = {} =>
    \A w \in Writers : writer[w].pc \in Before => Nowhere(w)

(* Without Unbuildable marks, what is valid can be put in force.           *)
Buildable ==
  "unbuilt" \notin world =>
    /\ Builds(file)
    /\ \A t \in hand : Builds(t)
    /\ \A w \in Writers : writer[w].next \cap Unbuildable \subseteq Broken
    /\ Builds(reload.text)

-----------------------------------------------------------------------------
Calm == world \cap {"overlap", "start", "unbuilt"} = {}

Active(w) == writer[w].pc \notin Over

(* One thread of the core at a time deals with the file; the seeds only    *)
(* before the file is watched, the others only afterwards.                 *)
OneThread ==
  Calm =>
    /\ \A v, w \in Requests : Active(v) /\ Active(w) => v = w
    /\ \A w \in Requests : writer[w].pc \in Writing3 => reload.pc = "idle"
    /\ \A w \in Requests :
         Active(w) => stage = (IF w \in Seeds THEN "made" ELSE "up")
    /\ \A w \in Requests : writer[w].pc = "rename" => tmp = {w}
    /\ stage # "up" => ~noise /\ ~signal /\ reload.pc = "idle"

(* The requests that are about to put in force what they have written.     *)
Settling == {w \in Requests : writer[w].pc = "apply"}

(* What the core has seen is what runs, but while one of its threads is    *)
(* between the two; what runs is valid.                                    *)
Mirror ==
  Calm =>
    /\ \A r \in running : Parses(r)
    /\ running = {} \/ \E r \in Texts : running = {r}
    /\ \A w \in Requests : writer[w].pc = "apply" => seen = {writer[w].next}
    /\ stage \in {"made", "up"} /\ Settling = {} /\ reload.pc # "mark" => seen = running
    /\ reload.pc = "mark" => running = {reload.text} /\ ~rejected

(* The requests that have written and not put in force yet.                *)
Written == {w \in Requests : writer[w].pc \in {"mark", "apply"}}

InStep == IF Parses(file) THEN running = {file} /\ ~rejected ELSE rejected

(* While the core starts nobody else writes the file: what it has loaded   *)
(* is what is there, or a seed is about to put in force what is there.     *)
Starting ==
  Calm =>
    /\ stage = "loaded" => InStep /\ running \in {{}, {file}}
    /\ stage = "made" =>
         /\ \A w \in Written : writer[w].next = file
         /\ Written = {} => InStep

(* Unless a change is still to be noticed, the thread that deals with the  *)
(* file deals with what is there, and if there is none, that is in force.  *)
Caught ==
  Calm /\ stage = "up" /\ ~noise /\ ~signal =>
    /\ Written = {}
    /\ reload.pc # "idle" => reload.text = file
    /\ reload.pc = "idle" => InStep

IInv == /\ Shape /\ Own /\ Alone /\ Kept /\ Unseen /\ Buildable
        /\ OneThread /\ Mirror /\ Starting /\ Caught
-----------------------------------------------------------------------------
USE DEF core, watch, past

LEMMA InitHolds == Init => IInv
<1> SUFFICES ASSUME Init PROVE IInv
  OBVIOUS
<1>1. \A w \in Writers : writer[w] = Idle
  BY DEF Init
<1>2. Renaming = {} /\ Settling = {} /\ \A w \in Requests : writer[w] = Idle
  BY <1>1 DEF Renaming, Settling, Idle, Writers
<1>3. Shape
  BY DEF Init, Shape, Texts, Idle, Over
<1>4. Own /\ Alone /\ Kept
  BY <1>1, <1>2 DEF Init, Own, Alone, Kept, Idle, Writing3
<1>7. Buildable
  <2>1. file = {} /\ hand = {} /\ reload.text = {} /\ \A w \in Writers : writer[w].next = {}
    BY <1>1 DEF Init, Idle
  <2> QED
    BY <2>1 DEF Buildable, Builds
<1>5. Unseen
  BY <1>1 DEF Init, Unseen, Nowhere, Idle, Before
<1>6. OneThread /\ Mirror /\ Starting /\ Caught
  <2>1. ~noise /\ ~signal
    BY Zenon DEF Init
  <2>2. stage = "down" /\ running = {} /\ reload.pc = "idle"
    BY DEF Init
  <2>3. \A w \in Requests : writer[w].pc = "idle"
    BY <1>2 DEF Idle
  <2> QED
    BY <2>1, <2>2, <2>3 DEF OneThread, Mirror, Starting, Caught, Active, Over, Writing3
<1> QED
  BY <1>3, <1>4, <1>5, <1>6, <1>7 DEF IInv

LEMMA ShapeStep == Shape /\ [Next]_vars => Shape'
<1> SUFFICES ASSUME Shape, [Next]_vars PROVE Shape'
  OBVIOUS
<1> USE DEF Texts, Over, Writing3
<1>1. CASE Load
  BY <1>1 DEF Shape, Load
<1>2. CASE LoadStandIn
  BY <1>2 DEF Shape, LoadStandIn
<1>3. CASE Make
  BY <1>3 DEF Shape, Make
<1>4. CASE Watch
  BY <1>4 DEF Shape, Watch
<1>5. CASE Crash
  <2>1. writer' \in [Writers -> [pc : Over \cup Writing3 \cup {"read"}, base : Texts, next : Texts]]
    BY <1>5 DEF Shape, Crash
  <2> QED
    BY <1>5, <2>1 DEF Shape, Crash
<1>6. ASSUME NEW w \in Writers, Read(w) PROVE Shape'
  <2>1. PICK t \in Edited(w, file) :
          writer' = [writer EXCEPT ![w] = [pc |-> "read", base |-> file, next |-> t]]
    BY <1>6 DEF Read
  <2>2. t \in Texts
    BY SettingsAssumption DEF Edited, Shape, Marks
  <2> QED
    BY <1>6, <2>1, <2>2 DEF Shape, Read
<1>7. ASSUME NEW w \in Writers, Check(w) PROVE Shape'
  BY <1>7 DEF Shape, Check, At, Refuse
<1>8. ASSUME NEW w \in Writers, Rename(w) PROVE Shape'
  <2>1. ASSUME NEW v \in Writers, Placed(v) PROVE file' \in Texts /\ over' \in Texts /\ noise' \in BOOLEAN
    BY <2>1 DEF Shape, Placed, Becomes
  <2>2. writer' \in [Writers -> [pc : Over \cup Writing3 \cup {"read"}, base : Texts, next : Texts]]
    BY <1>8 DEF Shape, Rename, At, Refuse
  <2>3. file' \in Texts /\ over' \in Texts /\ noise' \in BOOLEAN
    BY <1>8, <2>1, SettingsAssumption DEF Shape, Rename, Writers
  <2>4. kept' \in Texts /\ tmp' \in SUBSET Requests
    BY <1>8 DEF Shape, Rename, Marks
  <2> QED
    BY <1>8, <2>2, <2>3, <2>4 DEF Shape, Rename
<1>9. ASSUME NEW w \in Writers, Mark(w) PROVE Shape'
  BY <1>9 DEF Shape, Mark, At
<1>10. ASSUME NEW w \in Writers, Apply(w) PROVE Shape'
  <2>1. writer[w].next \in Texts
    BY DEF Shape
  <2>2. running' \in SUBSET Texts /\ rejected' \in BOOLEAN /\ kept' \in Texts
    BY ZenonT(60), <1>10, <2>1 DEF Shape, Apply, Marks
  <2>3. writer' \in [Writers -> [pc : Over \cup Writing3 \cup {"read"}, base : Texts, next : Texts]]
    BY <1>10 DEF Shape, Apply, At, Refuse
  <2> QED
    BY <1>10, <2>2, <2>3 DEF Shape, Apply
<1>11. CASE Open
  BY <1>11 DEF Shape, Open
<1>12. CASE Save
  BY <1>12 DEF Shape, Save, Becomes, Typed, Marks
<1>13. CASE Debounce
  BY <1>13 DEF Shape, Debounce
<1>14. CASE Notice
  BY <1>14 DEF Shape, Notice
<1>15. CASE Compare
  BY ZenonT(60), <1>15 DEF Shape, Compare
<1>16. CASE Adopt
  BY ZenonT(60), <1>16 DEF Shape, Adopt
<1>17. CASE Remember
  BY <1>17 DEF Shape, Remember
<1>18. CASE UNCHANGED vars
  BY <1>18 DEF Shape, vars
<1> QED
  BY <1>1, <1>2, <1>3, <1>4, <1>5, <1>6, <1>7, <1>8, <1>9, <1>10, <1>11, <1>12, <1>13, <1>14,
     <1>15, <1>16, <1>17, <1>18 DEF Next

(* What changes of the writers' records when w gets on. *)
Moved(w, p) ==
  \A v \in Writers : /\ writer'[v].base = writer[v].base
                     /\ writer'[v].next = writer[v].next
                     /\ writer'[v].pc = IF v = w THEN p ELSE writer[v].pc

LEMMA AtFacts == ASSUME Shape, NEW w \in Writers, NEW p, At(w, p) PROVE Moved(w, p)
  BY DEF Shape, At, Moved

(* A request between check and rename has the temporary file for itself    *)
(* where it is alone, so what it renames is what it has made.              *)
LEMMA RenameFacts ==
  ASSUME Shape, NEW w \in Writers, Rename(w), w \in Requests => tmp = {w}
  PROVE  /\ file' = writer[w].next /\ noise' = (noise \/ stage = "up")
         /\ over' = (over \cup (writer[w].base \ writer[w].next)) \ writer[w].next
         /\ kept' \subseteq kept \cup {w}
         /\ \/ w \in Requests /\ At(w, "mark") /\ tmp' = {} /\ kept' = kept
            \/ w \in Commands /\ At(w, "done") /\ tmp' = tmp
<1>1. CASE w \in Requests
  <2>1. w \notin Commands
    BY <1>1, SettingsAssumption
  <2> QED
    BY <1>1, <2>1 DEF Rename, Placed, Becomes
<1>2. CASE w \notin Requests
  BY <1>2 DEF Rename, Placed, Becomes
<1> QED
  BY <1>1, <1>2

LEMMA EditedFacts ==
  ASSUME Shape, NEW w \in Writers, NEW t \in Edited(w, file)
  PROVE  w \in t /\ t \subseteq file \cup {w} \cup Broken
  BY SettingsAssumption DEF Edited

LEMMA OwnStep == Shape /\ Own /\ Alone /\ [Next]_vars => Own'
<1> SUFFICES ASSUME Shape, Own, Alone, [Next]_vars PROVE Own'
  OBVIOUS
<1> USE DEF Writing3, Parses
<1>1. CASE \/ Load \/ LoadStandIn \/ Make \/ Watch \/ Open \/ Debounce \/ Notice \/ Compare
           \/ Adopt \/ Remember \/ UNCHANGED vars
  <2>1. UNCHANGED <<world, file, over, writer, tmp>>
    BY <1>1 DEF Load, LoadStandIn, Make, Watch, Open, Debounce, Notice, Compare, Adopt, Remember,
                vars
  <2> QED
    BY <2>1 DEF Own, Renaming
<1>2. CASE Crash
  <2>1. \A w \in Writers : /\ writer'[w].next = writer[w].next
                           /\ writer'[w].pc \in {writer[w].pc, "done"}
    BY <1>2 DEF Crash, Shape
  <2> QED
    BY <1>2, <2>1 DEF Crash, Own
<1>3. ASSUME NEW w \in Writers, Read(w) PROVE Own'
  <2>1. PICK t \in Edited(w, file) :
          writer' = [writer EXCEPT ![w] = [pc |-> "read", base |-> file, next |-> t]]
    BY <1>3 DEF Read
  <2>2. w \in t
    BY EditedFacts
  <2>3. writer'[w].pc = "read" /\ writer'[w].next = t /\ \A v \in Writers \ {w} : writer'[v] = writer[v]
    BY <2>1 DEF Shape
  <2>4. writer[w].pc = "idle"
    BY <1>3 DEF Read
  <2> QED
    BY <1>3, <2>2, <2>3, <2>4 DEF Read, Own, Renaming
<1>4. ASSUME NEW w \in Writers, Check(w) PROVE Own'
  <2>1. writer[w].pc = "read" /\ UNCHANGED <<world, file, over>>
    BY <1>4 DEF Check
  <2>2. CASE At(w, "rename") /\ Acceptable(w, writer[w].next)
             /\ tmp' = IF w \in Requests THEN {w} ELSE tmp
    <3>1. Moved(w, "rename")
      BY <2>2, AtFacts
    <3> QED
      BY <2>1, <2>2, <3>1 DEF Moved, Own, Renaming, Acceptable
  <2>3. CASE At(w, "refused") /\ UNCHANGED tmp
    <3>1. Moved(w, "refused")
      BY <2>3, AtFacts
    <3> QED
      BY <2>1, <2>3, <3>1 DEF Moved, Own, Renaming
  <2> QED
    BY <1>4, <2>2, <2>3 DEF Check, Refuse
<1>5. ASSUME NEW w \in Writers, Rename(w) PROVE Own'
  <2>1. writer[w].pc = "rename" /\ world' = world
    BY <1>5 DEF Rename
  <2>2. PICK p \in {"mark", "refused", "done"} :
          At(w, p) /\ (p = "mark" => w \in Requests) /\ (tmp' = {} \/ (w \notin Requests /\ tmp' = tmp))
    BY <1>5, SettingsAssumption DEF Rename, Refuse
  <2>3. Moved(w, p)
    BY <2>2, AtFacts
  <2>4. tmp' \subseteq Renaming'
    BY <2>2, <2>3 DEF Own, Renaming, Moved, Shape
  <2>5. ASSUME "gap" \notin world PROVE /\ file \cup over \subseteq file' \cup over'
                                         /\ w \in file'
    <3>1. w \in Requests => tmp = {w}
      BY <2>1, <2>5 DEF Alone, Renaming
    <3>2. writer[w].base = file
      BY <2>1, <2>5 DEF Alone, Renaming
    <3>3. file' = writer[w].next /\ over' = (over \cup (file \ writer[w].next)) \ writer[w].next
      BY <1>5, <3>1, <3>2, RenameFacts
    <3> QED
      BY <2>1, <3>3 DEF Own
  <2> QED
    BY <2>1, <2>2, <2>3, <2>4, <2>5 DEF Own, Moved
<1>6. ASSUME NEW w \in Writers, Mark(w) PROVE Own'
  <2>1. writer[w].pc = "mark" /\ At(w, "apply") /\ UNCHANGED <<world, file, over, tmp>>
    BY <1>6 DEF Mark
  <2>2. Moved(w, "apply")
    BY <2>1, AtFacts
  <2> QED
    BY <2>1, <2>2 DEF Own, Renaming, Moved
<1>7. ASSUME NEW w \in Writers, Apply(w) PROVE Own'
  <2>1. writer[w].pc = "apply" /\ UNCHANGED <<world, file, over, tmp>>
    BY <1>7 DEF Apply
  <2>2. PICK p \in {"done", "refused"} : At(w, p)
    BY <1>7 DEF Apply, Refuse
  <2>3. Moved(w, p)
    BY <2>2, AtFacts
  <2> QED
    BY <2>1, <2>3 DEF Own, Renaming, Moved
<1>8. CASE Save
  <2>1. UNCHANGED <<world, writer, tmp>> /\ file \cup over \subseteq file' \cup over'
    BY <1>8 DEF Save, Becomes
  <2> QED
    BY <2>1 DEF Own, Renaming
<1> QED
  BY <1>1, <1>2, <1>3, <1>4, <1>5, <1>6, <1>7, <1>8 DEF Next

LEMMA WorldStays == [Next]_vars => world' = world
  BY DEF Next, vars, Load, LoadStandIn, Make, Watch, Crash, Read, Check, Rename, Mark, Apply,
         Open, Save, Debounce, Notice, Compare, Adopt, Remember

LEMMA AloneStep == Shape /\ Own /\ Alone /\ [Next]_vars => Alone'
<1> SUFFICES ASSUME Shape, Own, Alone, [Next]_vars PROVE Alone'
  OBVIOUS
<1>0. world' = world
  BY WorldStays
<1> SUFFICES ASSUME "gap" \notin world
             PROVE  \A w \in Renaming' : /\ \A v \in Renaming' : v = w
                                         /\ writer'[w].base = file'
                                         /\ w \in Requests => tmp' = {w}
  BY <1>0 DEF Alone
<1>1. CASE \/ Load \/ LoadStandIn \/ Make \/ Watch \/ Open \/ Debounce \/ Notice \/ Compare
           \/ Adopt \/ Remember \/ UNCHANGED vars
  <2>1. UNCHANGED <<world, file, writer, tmp>>
    BY <1>1 DEF Load, LoadStandIn, Make, Watch, Open, Debounce, Notice, Compare, Adopt, Remember,
                vars
  <2> QED
    BY <2>1 DEF Alone, Renaming
<1>2. CASE Crash
  <2>1. /\ UNCHANGED <<world, file>>
        /\ \A w \in Writers : /\ writer'[w].base = writer[w].base
                              /\ writer'[w].pc \in {writer[w].pc, "done"}
                              /\ w \in Requests => writer'[w].pc \in {"idle", "done"}
    BY <1>2 DEF Crash, Shape
  <2>2. \A w \in Renaming' : w \in Renaming /\ w \notin Requests /\ writer'[w].base = writer[w].base
    BY <2>1 DEF Renaming
  <2> QED
    BY <2>1, <2>2 DEF Alone
<1>3. ASSUME NEW w \in Writers, Read(w)
      PROVE  UNCHANGED <<world, file, tmp>> /\ Renaming' = Renaming
             /\ \A v \in Renaming : writer'[v] = writer[v]
  BY <1>3 DEF Read, Shape, Renaming
<1>4. ASSUME NEW w \in Writers, Check(w)
      PROVE  /\ UNCHANGED <<world, file>> /\ Renaming' \subseteq {w}
             /\ \A v \in Renaming' : writer'[v].base = file /\ (v \in Requests => tmp' = {v})
  <2>1. /\ writer[w].pc = "read" /\ UNCHANGED <<world, file>> /\ Renaming = {}
    BY <1>4 DEF Check, Touchable
  <2>2. CASE At(w, "rename") /\ writer[w].base = file /\ tmp' = IF w \in Requests THEN {w} ELSE tmp
    <3>1. Moved(w, "rename")
      BY <2>2, AtFacts
    <3> QED
      BY <2>1, <2>2, <3>1 DEF Moved, Renaming
  <2>3. CASE At(w, "refused")
    <3>1. Moved(w, "refused")
      BY <2>3, AtFacts
    <3> QED
      BY <2>1, <3>1 DEF Moved, Renaming
  <2> QED
    BY <1>4, <2>2, <2>3 DEF Check, Refuse
<1>5. ASSUME NEW w \in Writers, Rename(w) PROVE world' = world /\ Renaming' = {}
  <2>1. world' = world /\ w \in Renaming
    BY <1>5 DEF Rename, Renaming
  <2>2. PICK p \in {"mark", "refused", "done"} : At(w, p)
    BY <1>5 DEF Rename, Refuse
  <2>3. Moved(w, p)
    BY <2>2, AtFacts
  <2> QED
    BY <2>1, <2>2, <2>3 DEF Alone, Renaming, Moved
<1>6. ASSUME NEW w \in Writers, Mark(w) \/ Apply(w)
      PROVE  /\ UNCHANGED <<world, file, tmp>> /\ Renaming' = Renaming
             /\ \A v \in Renaming : writer'[v].base = writer[v].base
  <2>1. UNCHANGED <<world, file, tmp>> /\ writer[w].pc \in {"mark", "apply"}
    BY <1>6 DEF Mark, Apply
  <2>2. PICK p \in {"apply", "done", "refused"} : At(w, p)
    BY <1>6 DEF Mark, Apply, Refuse
  <2>3. Moved(w, p)
    BY <2>2, AtFacts
  <2> QED
    BY <2>1, <2>2, <2>3 DEF Renaming, Moved
<1>7. CASE Save
  <2>1. UNCHANGED <<world, writer, tmp>> /\ Renaming = {}
    BY <1>7 DEF Save, Touchable
  <2> QED
    BY <2>1 DEF Renaming
<1>8. ASSUME NEW w \in Writers, Read(w) \/ Check(w) \/ Rename(w) \/ Mark(w) \/ Apply(w)
      PROVE  \A u \in Renaming' : /\ \A v \in Renaming' : v = u
                                  /\ writer'[u].base = file'
                                  /\ u \in Requests => tmp' = {u}
  <2>1. CASE Read(w)
    BY <1>3, <2>1 DEF Alone
  <2>2. CASE Check(w)
    BY <1>4, <2>2
  <2>3. CASE Rename(w)
    BY <1>5, <2>3
  <2>4. CASE Mark(w) \/ Apply(w)
    BY <1>6, <2>4 DEF Alone
  <2> QED
    BY <1>8, <2>1, <2>2, <2>3, <2>4
<1> QED
  BY <1>1, <1>2, <1>7, <1>8 DEF Next

LEMMA KeptStep == Shape /\ Own /\ Alone /\ Kept /\ [Next]_vars => Kept'
<1> SUFFICES ASSUME Shape, Own, Alone, Kept, [Next]_vars, "gap" \notin world
             PROVE  world' = world /\ kept' \subseteq file' \cup over'
  BY WorldStays DEF Kept
<1>1. CASE \/ Load \/ LoadStandIn \/ Make \/ Watch \/ Open \/ Debounce \/ Notice \/ Compare
           \/ Adopt \/ Remember \/ UNCHANGED vars \/ Crash
  <2>1. UNCHANGED <<world, file, over, kept>>
    BY <1>1 DEF Load, LoadStandIn, Make, Watch, Open, Debounce, Notice, Compare, Adopt, Remember,
                vars, Crash
  <2> QED
    BY <2>1 DEF Kept
<1>2. ASSUME NEW w \in Writers, Read(w) \/ Check(w) \/ Mark(w)
      PROVE  UNCHANGED <<world, file, over, kept>>
  BY <1>2 DEF Read, Check, Mark
<1>3. ASSUME NEW w \in Writers, Rename(w) PROVE world' = world /\ kept' \subseteq file' \cup over'
  <2>1. world' = world /\ writer[w].pc = "rename"
    BY <1>3 DEF Rename
  <2>2. (w \in Requests => tmp = {w}) /\ writer[w].base = file
    BY <2>1 DEF Alone, Renaming
  <2>3. /\ file' = writer[w].next /\ over' = (over \cup (file \ writer[w].next)) \ writer[w].next
        /\ kept' \subseteq kept \cup {w}
    BY <1>3, <2>2, RenameFacts
  <2>4. w \in writer[w].next
    BY <2>1 DEF Own, Writing3
  <2> QED
    BY <2>1, <2>3, <2>4 DEF Kept
<1>4. ASSUME NEW w \in Writers, Apply(w) PROVE world' = world /\ kept' \subseteq file' \cup over'
  <2>1. /\ writer[w].pc = "apply" /\ UNCHANGED <<world, file, over>> /\ kept' \subseteq kept \cup {w}
    BY <1>4 DEF Apply
  <2> QED
    BY <2>1 DEF Own, Kept
<1>5. CASE Save
  BY <1>5 DEF Save, Becomes, Kept
<1> QED
  BY <1>1, <1>2, <1>3, <1>4, <1>5 DEF Next, Kept

LEMMA BuildableStep == Shape /\ Own /\ Buildable /\ [Next]_vars => Buildable'
<1> SUFFICES ASSUME Shape, Own, Buildable, [Next]_vars PROVE Buildable'
  OBVIOUS
<1>0. world' = world
  BY WorldStays
<1> SUFFICES ASSUME "unbuilt" \notin world
             PROVE  /\ Builds(file') /\ Builds(reload.text')
                    /\ \A t \in hand' : Builds(t)
                    /\ \A w \in Writers : writer'[w].next \cap Unbuildable \subseteq Broken
  BY <1>0 DEF Buildable
<1> USE DEF Builds
<1>1. CASE Load \/ LoadStandIn \/ Make \/ Watch \/ Debounce \/ Remember \/ UNCHANGED vars
  <2>1. UNCHANGED <<file, hand, writer>> /\ reload'.text = reload.text
    BY <1>1 DEF Load, LoadStandIn, Make, Watch, Debounce, Remember, vars, Shape
  <2> QED
    BY <2>1 DEF Buildable
<1>2. CASE Compare \/ Adopt
  <2>1. UNCHANGED <<file, hand, writer>> /\ reload'.text = reload.text
    BY <1>2 DEF Compare, Adopt, Shape
  <2> QED
    BY <2>1 DEF Buildable
<1>3. CASE Open \/ Notice
  BY <1>3 DEF Open, Notice, Buildable
<1>4. CASE Crash
  <2>1. UNCHANGED <<file, hand>> /\ reload'.text = {} /\ \A w \in Writers : writer'[w].next = writer[w].next
    BY <1>4 DEF Crash, Shape
  <2> QED
    BY <2>1 DEF Buildable
<1>5. ASSUME NEW w \in Writers, Read(w)
      PROVE  UNCHANGED <<file, hand, reload>>
             /\ \A v \in Writers : writer'[v].next \cap Unbuildable \subseteq Broken
  <2>1. PICK t \in Edited(w, file) :
          writer' = [writer EXCEPT ![w] = [pc |-> "read", base |-> file, next |-> t]]
    BY <1>5 DEF Read
  <2>2. writer'[w].next = t /\ \A v \in Writers \ {w} : writer'[v] = writer[v]
    BY <2>1 DEF Shape
  <2>3. t \cap Unbuildable \subseteq Broken
    BY EditedFacts, SettingsAssumption DEF Buildable
  <2> QED
    BY <1>5, <2>2, <2>3 DEF Read, Buildable
<1>6. ASSUME NEW w \in Writers, Check(w) \/ Mark(w) \/ Apply(w)
      PROVE  UNCHANGED <<file, hand, reload>> /\ \A v \in Writers : writer'[v].next = writer[v].next
  <2>1. PICK p : At(w, p)
    BY <1>6 DEF Check, Mark, Apply, Refuse
  <2>2. Moved(w, p)
    BY <2>1, AtFacts
  <2> QED
    BY <1>6, <2>2 DEF Check, Mark, Apply, Moved
<1>7. ASSUME NEW w \in Writers, Rename(w)
      PROVE  /\ Builds(file') /\ UNCHANGED <<hand, reload>>
             /\ \A v \in Writers : writer'[v].next = writer[v].next
  <2>1. PICK p : At(w, p)
    BY <1>7 DEF Rename, Refuse
  <2>2. Moved(w, p)
    BY <2>1, AtFacts
  <2>3. file' = file \/ \E o \in Renaming : file' = writer[o].next
    BY <1>7 DEF Rename, Placed, Becomes, Renaming, Own
  <2>4. \A o \in Renaming : Builds(writer[o].next)
    BY DEF Renaming, Own, Writing3, Buildable, Parses
  <2> QED
    BY <1>7, <2>2, <2>3, <2>4 DEF Rename, Moved, Buildable
<1>8. CASE Save
  BY <1>8, SettingsAssumption DEF Save, Becomes, Typed, Buildable
<1>9. ASSUME NEW w \in Writers, Read(w) \/ Check(w) \/ Rename(w) \/ Mark(w) \/ Apply(w)
      PROVE  /\ Builds(file') /\ Builds(reload.text')
             /\ \A t \in hand' : Builds(t)
             /\ \A v \in Writers : writer'[v].next \cap Unbuildable \subseteq Broken
  BY <1>5, <1>6, <1>7, <1>9 DEF Buildable
<1> QED
  BY <1>1, <1>2, <1>3, <1>4, <1>8, <1>9 DEF Next

LEMMA UnseenStep ==
  Shape /\ Own /\ Alone /\ Buildable /\ Unseen /\ [Next]_vars => Unseen'
<1> SUFFICES ASSUME Shape, Own, Alone, Buildable, Unseen, [Next]_vars PROVE Unseen'
  OBVIOUS
<1>0. world' = world
  BY WorldStays
<1> SUFFICES ASSUME world \cap {"gap", "unbuilt"} = {},
                    NEW v \in Writers, writer'[v].pc \in Before
             PROVE  Nowhere(v)'
  BY <1>0 DEF Unseen
<1>1. /\ "gap" \notin world /\ "unbuilt" \notin world
      /\ v \notin HandMarks /\ v \notin Broken
  BY SettingsAssumption
<1>2. writer[v].pc \in Before => Nowhere(v)
  BY DEF Unseen
<1>3. CASE Load \/ LoadStandIn \/ Make \/ Watch \/ Debounce \/ Remember \/ Open \/ UNCHANGED vars
  <2>1. /\ UNCHANGED <<file, writer>> /\ reload'.text = reload.text
        /\ running' \cup hand' \subseteq running \cup hand \cup {file}
    BY <1>3 DEF Load, LoadStandIn, Make, Watch, Debounce, Remember, Open, vars, Shape
  <2> QED
    BY <1>2, <2>1 DEF Nowhere
<1>4. CASE Notice \/ Compare \/ Adopt
  <2>1. /\ UNCHANGED <<file, writer, hand>> /\ reload'.text \in {reload.text, file}
        /\ running' \subseteq running \cup {reload.text}
    BY <1>4 DEF Notice, Compare, Adopt, Shape
  <2> QED
    BY <1>2, <2>1 DEF Nowhere
<1>5. CASE Crash
  <2>1. /\ UNCHANGED <<file, hand>> /\ reload'.text = {} /\ running' = {}
        /\ \A w \in Writers : /\ writer'[w].next = writer[w].next
                              /\ writer'[w].base = writer[w].base
                              /\ writer'[w].pc \in {writer[w].pc, "done"}
    BY <1>5 DEF Crash, Shape
  <2>2. writer[v].pc \in Before
    BY <2>1 DEF Before
  <2> QED
    BY <1>2, <2>1, <2>2 DEF Nowhere
<1>6. ASSUME NEW w \in Writers, Read(w) PROVE Nowhere(v)'
  <2>1. PICK t \in Edited(w, file) :
          writer' = [writer EXCEPT ![w] = [pc |-> "read", base |-> file, next |-> t]]
    BY <1>6 DEF Read
  <2>2. /\ writer'[w].next = t /\ writer'[w].base = file
        /\ \A u \in Writers \ {w} : writer'[u] = writer[u]
    BY <2>1 DEF Shape
  <2>3. Nowhere(v)
    BY <1>2, <1>6, <2>2 DEF Read, Before
  <2>4. v # w => v \notin t
    BY <1>1, <2>3, EditedFacts DEF Nowhere
  <2> QED
    BY <1>6, <2>2, <2>3, <2>4 DEF Read, Nowhere
<1>7. ASSUME NEW w \in Writers, Check(w) PROVE Nowhere(v)'
  <2>1. writer[w].pc = "read" /\ UNCHANGED <<file, reload, running, hand>>
    BY <1>7 DEF Check
  <2>2. PICK p : At(w, p)
    BY <1>7 DEF Check, Refuse
  <2>3. Moved(w, p)
    BY <2>2, AtFacts
  <2> QED
    BY <1>2, <2>1, <2>3 DEF Moved, Nowhere, Before
<1>8. ASSUME NEW w \in Writers, Rename(w) PROVE Nowhere(v)'
  <2>1. writer[w].pc = "rename" /\ UNCHANGED <<reload, running, hand>>
    BY <1>8 DEF Rename
  <2>2. w \in Requests => tmp = {w}
    BY <1>1, <2>1 DEF Alone, Renaming
  <2>3. PICK p \in {"mark", "done"} : At(w, p)
    BY <1>8, <2>2, RenameFacts
  <2>4. Moved(w, p)
    BY <2>3, AtFacts
  <2>5. file' = writer[w].next
    BY <1>8, <2>2, RenameFacts
  <2>6. v # w /\ writer[v].pc \in Before
    BY <2>3, <2>4 DEF Moved, Before
  <2> QED
    BY <1>2, <2>1, <2>4, <2>5, <2>6 DEF Moved, Nowhere
<1>9. ASSUME NEW w \in Writers, Mark(w) PROVE Nowhere(v)'
  <2>1. At(w, "apply") /\ UNCHANGED <<file, reload, running, hand>>
    BY <1>9 DEF Mark
  <2>2. Moved(w, "apply")
    BY <2>1, AtFacts
  <2>3. v # w /\ writer[v].pc \in Before
    BY <2>2 DEF Moved, Before
  <2> QED
    BY <1>2, <2>1, <2>2, <2>3 DEF Moved, Nowhere
<1>10. ASSUME NEW w \in Writers, Apply(w) PROVE Nowhere(v)'
  <2>1. writer[w].pc = "apply" /\ Parses(writer[w].next) /\ Builds(writer[w].next)
    BY <1>1, <1>10 DEF Apply, Own, Writing3, Buildable, Parses, Builds
  <2>2. At(w, "done") /\ running' = {writer[w].next} /\ UNCHANGED <<file, reload, hand>>
    BY <1>10, <2>1 DEF Apply
  <2>3. Moved(w, "done")
    BY <2>2, AtFacts
  <2>4. v # w /\ writer[v].pc \in Before
    BY <2>3 DEF Moved, Before
  <2> QED
    BY <1>2, <2>2, <2>3, <2>4 DEF Moved, Nowhere
<1>11. CASE Save
  <2>1. /\ UNCHANGED <<writer, running, reload>> /\ hand' = {}
        /\ \E t \in hand : file' \subseteq t \cup HandMarks
    BY <1>11 DEF Save, Becomes, Typed
  <2> QED
    BY <1>1, <1>2, <2>1 DEF Nowhere
<1> QED
  BY <1>3, <1>4, <1>5, <1>6, <1>7, <1>8, <1>9, <1>10, <1>11 DEF Next

-----------------------------------------------------------------------------
(* The core follows the file. *)

(* What a step of a writer leaves alone, and how far the writer gets. *)
LEMMA WriterFacts ==
  ASSUME Shape, NEW w \in Writers, Read(w) \/ Check(w) \/ Rename(w) \/ Mark(w) \/ Apply(w)
  PROVE  /\ UNCHANGED <<stage, signal, reload>>
         /\ \A v \in Writers \ {w} : writer'[v] = writer[v]
         /\ Read(w) => writer[w].pc = "idle" /\ writer'[w].pc = "read"
         /\ Check(w) => writer[w].pc = "read" /\ writer'[w].pc \in {"rename", "refused"}
         /\ Rename(w) => writer[w].pc = "rename" /\ writer'[w].pc \in {"mark", "refused", "done"}
         /\ Mark(w) => writer[w].pc = "mark" /\ writer'[w].pc = "apply"
         /\ Apply(w) => writer[w].pc = "apply" /\ writer'[w].pc \in {"done", "refused"}
         /\ ~Read(w) => writer'[w].next = writer[w].next
<1>1. Read(w) => /\ writer[w].pc = "idle" /\ writer'[w].pc = "read"
                 /\ \A v \in Writers \ {w} : writer'[v] = writer[v]
  BY DEF Read, Shape
<1>2. Check(w) => writer[w].pc = "read" /\ writer'[w].pc \in {"rename", "refused"}
  BY DEF Check, Refuse, At, Shape
<1>3. Rename(w) => writer[w].pc = "rename" /\ writer'[w].pc \in {"mark", "refused", "done"}
  BY DEF Rename, Refuse, At, Shape
<1>4. Mark(w) => writer[w].pc = "mark" /\ writer'[w].pc = "apply"
  BY DEF Mark, At, Shape
<1>5. Apply(w) => writer[w].pc = "apply" /\ writer'[w].pc \in {"done", "refused"}
  BY DEF Apply, Refuse, At, Shape
<1>6. ~Read(w) => /\ \A v \in Writers \ {w} : writer'[v] = writer[v]
                  /\ writer'[w].next = writer[w].next
  <2> SUFFICES ASSUME ~Read(w) PROVE /\ \A v \in Writers \ {w} : writer'[v] = writer[v]
                                     /\ writer'[w].next = writer[w].next
    OBVIOUS
  <2>1. PICK p : At(w, p)
    BY DEF Check, Rename, Mark, Apply, Refuse
  <2> QED
    BY <2>1 DEF At, Shape
<1>7. UNCHANGED <<stage, signal, reload>>
  BY DEF Read, Check, Rename, Mark, Apply
<1> QED
  BY <1>1, <1>2, <1>3, <1>4, <1>5, <1>6, <1>7

LEMMA OneThreadStep == Shape /\ Own /\ OneThread /\ [Next]_vars => OneThread'
<1> SUFFICES ASSUME Shape, Own, OneThread, [Next]_vars PROVE OneThread'
  OBVIOUS
<1>0. world' = world
  BY WorldStays
<1> SUFFICES ASSUME Calm PROVE OneThread'
  BY <1>0 DEF OneThread, Calm
<1> USE DEF Active, Over, Writing3
<1>1. CASE Load \/ LoadStandIn \/ Make \/ Watch
  <2>1. UNCHANGED <<world, writer, tmp, noise, signal, reload>>
    BY <1>1 DEF Load, LoadStandIn, Make, Watch
  <2>2. stage # "up" /\ ~noise /\ ~signal /\ reload.pc = "idle"
    BY <1>1 DEF OneThread, Load, LoadStandIn, Make, Watch
  <2>3. \A w \in Requests : ~Active(w)
    <3>1. CASE stage # "made"
      BY <2>2, <3>1 DEF OneThread
    <3>2. CASE stage = "made" /\ ~Watch
      BY <1>1, <3>2 DEF Load, LoadStandIn, Make
    <3>3. CASE Watch
      BY <2>2, <3>3 DEF Watch, OneThread
    <3> QED
      BY <3>1, <3>2, <3>3
  <2> QED
    BY <2>1, <2>2, <2>3 DEF OneThread
<1>2. CASE Crash
  <2>1. \A w \in Requests : writer'[w].pc \in {"idle", "done"}
    BY <1>2 DEF Crash, Shape, Writers
  <2>2. reload'.pc = "idle" /\ ~noise' /\ ~signal'
    BY <1>2 DEF Crash
  <2> QED
    BY <2>1, <2>2 DEF OneThread
<1>3. ASSUME NEW w \in Writers, Read(w) \/ Check(w) \/ Mark(w) \/ Apply(w) PROVE OneThread'
  <2>1. noise' = noise
    BY <1>3 DEF Read, Check, Mark, Apply
  <2>2. CASE w \in Requests
    <3>1. Read(w) => /\ \A q \in Requests : ~Active(q)
                     /\ stage = (IF w \in Seeds THEN "made" ELSE "up")
      BY <2>2, SettingsAssumption DEF Read, MayAsk, OneAtATime, Calm
    <3>2. Check(w) => reload.pc = "idle"
      BY <2>2 DEF Check, OneAtATime, Calm
    <3>3. ASSUME writer'[w].pc = "rename" PROVE tmp' = {w}
      <4>1. Check(w)
        BY <1>3, <3>3, WriterFacts
      <4> QED
        BY <2>2, <3>3, <4>1 DEF Check, Refuse, At, Shape
    <3> QED
      BY <1>3, <2>1, <2>2, <3>1, <3>2, <3>3, WriterFacts DEF OneThread, Writers
  <2>3. CASE w \notin Requests
    <3>1. tmp' = tmp
      BY <1>3, <2>3 DEF Read, Check, Mark, Apply
    <3> QED
      BY <1>3, <2>1, <2>3, <3>1, WriterFacts DEF OneThread, Writers
  <2> QED
    BY <2>2, <2>3
<1>4. ASSUME NEW w \in Writers, Rename(w) PROVE OneThread'
  <2>1. w \in Requests => tmp = {w}
    BY <1>4, WriterFacts DEF OneThread
  <2>2. noise' = (noise \/ stage = "up")
    BY <1>4, <2>1, RenameFacts
  <2>3. w \notin Requests => tmp' = tmp
    BY <1>4 DEF Rename
  <2> QED
    BY ZenonT(60), <1>4, <2>2, <2>3, WriterFacts DEF OneThread, Writers
<1>5. CASE Save
  <2>1. UNCHANGED <<stage, signal, reload, writer, tmp>> /\ noise' = (noise \/ stage = "up")
    BY <1>5 DEF Save, Becomes
  <2> QED
    BY <2>1 DEF OneThread
<1>6. CASE Open \/ UNCHANGED vars
  <2>1. UNCHANGED <<stage, signal, noise, reload, writer, tmp>>
    BY <1>6 DEF Open, vars
  <2> QED
    BY <2>1 DEF OneThread
<1>7. CASE Debounce \/ Notice
  <2>1. UNCHANGED <<stage, writer, tmp>> /\ stage = "up"
    BY <1>7 DEF Debounce, Notice, OneThread
  <2>2. \A w \in Requests : writer[w].pc \in Writing3 => reload'.pc = "idle"
    BY <1>7 DEF Debounce, Notice, OneThread, OneAtATime, Calm, Writing
  <2> QED
    BY <2>1, <2>2 DEF OneThread
<1>8. CASE Compare \/ Adopt \/ Remember
  <2>1. UNCHANGED <<stage, writer, tmp, noise, signal>> /\ reload.pc # "idle"
    BY <1>8 DEF Compare, Adopt, Remember
  <2> QED
    BY <2>1 DEF OneThread
<1> QED
  BY <1>1, <1>2, <1>3, <1>4, <1>5, <1>6, <1>7, <1>8 DEF Next

(* What a request puts in force can be put in force. *)
LEMMA ApplySucceeds ==
  ASSUME Shape, Own, Buildable, Calm, NEW w \in Writers, Apply(w)
  PROVE  /\ w \in Requests /\ writer[w].pc = "apply" /\ writer'[w].pc = "done"
         /\ Parses(writer[w].next) /\ running' = {writer[w].next} /\ rejected' = FALSE
         /\ UNCHANGED <<file, stage, seen, noise, signal, reload>>
<1>1. writer[w].pc = "apply" /\ UNCHANGED <<file, stage, seen, noise, signal, reload>>
  BY DEF Apply
<1>2. w \in Requests /\ Parses(writer[w].next) /\ Builds(writer[w].next)
  BY <1>1 DEF Own, Writing3, Buildable, Calm, Parses, Builds
<1>3. running' = {writer[w].next} /\ rejected' = FALSE /\ At(w, "done")
  BY <1>2 DEF Apply
<1>4. writer'[w].pc = "done"
  BY <1>3 DEF At, Shape
<1> QED
  BY <1>1, <1>2, <1>3, <1>4

(* A request that is at work has the core for itself. *)
LEMMA Alike ==
  ASSUME Shape, OneThread, Calm, NEW w \in Requests, Active(w)
  PROVE  /\ \A v \in Requests \ {w} : writer[v].pc \notin Writing3 \cup {"read"}
         /\ writer[w].pc \in Writing3 => reload.pc = "idle"
         /\ stage = (IF w \in Seeds THEN "made" ELSE "up")
  BY DEF OneThread, Active, Over, Writing3

(* Requests are at work only when a core is made or up, and not when the   *)
(* watcher is.                                                             *)
LEMMA NobodyWrites ==
  ASSUME Shape, OneThread, Calm, stage \notin {"made", "up"} \/ reload.pc # "idle"
  PROVE  \A w \in Requests : writer[w].pc \notin Writing3
  BY DEF OneThread, Active, Over, Writing3

LEMMA MirrorStep ==
  Shape /\ Own /\ Buildable /\ OneThread /\ Mirror /\ Starting /\ [Next]_vars => Mirror'
<1> SUFFICES ASSUME Shape, Own, Buildable, OneThread, Mirror, Starting, [Next]_vars PROVE Mirror'
  OBVIOUS
<1>0. world' = world
  BY WorldStays
<1> SUFFICES ASSUME Calm PROVE Mirror'
  BY <1>0 DEF Mirror, Calm
<1> USE DEF Writing3
<1>1. CASE Load \/ LoadStandIn
  <2>1. /\ UNCHANGED <<writer, reload>> /\ stage = "down" /\ stage' = "loaded"
        /\ running' \in {{}, {file}} /\ (running' # {} => Parses(file))
    BY <1>1 DEF Load, LoadStandIn
  <2>2. reload.pc = "idle" /\ \A w \in Requests : writer[w].pc # "apply"
    BY <2>1, NobodyWrites DEF OneThread
  <2>3. file \in Texts
    BY DEF Shape
  <2> QED
    BY <2>1, <2>2, <2>3 DEF Mirror, Settling
<1>2. CASE Make
  <2>1. /\ UNCHANGED <<writer, reload, running>> /\ stage = "loaded"
        /\ seen' = IF running = {} THEN {} ELSE {file}
    BY <1>2 DEF Make
  <2>2. reload.pc = "idle" /\ \A w \in Requests : writer[w].pc # "apply"
    BY <2>1, NobodyWrites DEF OneThread
  <2>3. seen' = running
    BY <2>1 DEF Starting
  <2> QED
    BY <2>1, <2>2, <2>3 DEF Mirror, Settling
<1>3. CASE Watch \/ Open \/ Save \/ Debounce \/ UNCHANGED vars
  <2>1. /\ UNCHANGED <<writer, reload, running, seen, rejected>>
        /\ stage' \in {"made", "up"} => stage \in {"made", "up"}
    BY <1>3 DEF Watch, Open, Save, Debounce, vars
  <2> QED
    BY <2>1 DEF Mirror, Settling
<1>4. CASE Crash
  <2>1. running' = {} /\ reload'.pc = "idle" /\ stage' = "down"
    BY <1>4 DEF Crash
  <2>2. \A w \in Requests : writer'[w].pc # "apply"
    BY <1>4 DEF Crash, Shape, Writers
  <2> QED
    BY <2>1, <2>2 DEF Mirror
<1>5. ASSUME NEW w \in Writers, Read(w) \/ Check(w) \/ Rename(w) PROVE Mirror'
  <2>1. UNCHANGED <<running, seen, rejected>>
    BY <1>5 DEF Read, Check, Rename
  <2>2. writer[w].pc # "apply" /\ writer'[w].pc # "apply"
    BY <1>5, WriterFacts
  <2>3. Settling' = Settling /\ \A v \in Settling : writer'[v] = writer[v]
    BY <1>5, <2>2, WriterFacts DEF Settling, Writers
  <2> QED
    BY <1>5, <2>1, <2>3, WriterFacts DEF Mirror, Settling
<1>6. ASSUME NEW w \in Writers, Mark(w) PROVE Mirror'
  <2>1. /\ writer[w].pc = "mark" /\ UNCHANGED <<running, rejected, reload>> /\ seen' = {writer[w].next}
        /\ w \in Requests
    BY <1>6 DEF Mark, Own
  <2>2. /\ reload.pc = "idle" /\ \A v \in Requests \ {w} : writer[v].pc # "apply"
    BY <2>1, Alike DEF Active, Over
  <2>3. /\ writer'[w].pc = "apply" /\ writer'[w].next = writer[w].next
        /\ \A v \in Requests \ {w} : writer'[v] = writer[v]
    BY <1>6, <2>1, WriterFacts DEF Writers
  <2> QED
    BY <2>1, <2>2, <2>3 DEF Mirror, Settling
<1>7. ASSUME NEW w \in Writers, Apply(w) PROVE Mirror'
  <2>1. /\ w \in Requests /\ writer[w].pc = "apply" /\ writer'[w].pc = "done"
        /\ Parses(writer[w].next) /\ running' = {writer[w].next}
        /\ UNCHANGED <<seen, reload>>
    BY <1>7, ApplySucceeds
  <2>2. /\ reload.pc = "idle" /\ \A v \in Requests \ {w} : writer[v].pc # "apply"
    BY <2>1, Alike DEF Active, Over
  <2>3. \A v \in Requests : writer'[v].pc # "apply"
    BY <1>7, <2>1, <2>2, WriterFacts DEF Writers
  <2>4. seen = {writer[w].next} /\ writer[w].next \in Texts
    BY <2>1 DEF Mirror, Shape
  <2> QED
    BY <2>1, <2>2, <2>3, <2>4 DEF Mirror, Settling
<1>8. CASE Notice
  <2>1. /\ UNCHANGED <<writer, running, seen, rejected, stage>> /\ reload.pc = "idle"
        /\ reload'.pc = "compare"
    BY <1>8 DEF Notice
  <2> QED
    BY <2>1 DEF Mirror, Settling
<1>9. CASE Compare
  <2>1. /\ UNCHANGED <<writer, running, seen, stage>> /\ reload.pc = "compare"
        /\ reload'.pc \in {"idle", "apply"}
    BY <1>9 DEF Compare, Shape
  <2> QED
    BY <2>1 DEF Mirror, Settling
<1>10. CASE Adopt
  <2>1. UNCHANGED <<writer, seen, stage>> /\ reload.pc = "apply" /\ reload'.text = reload.text
    BY <1>10 DEF Adopt, Shape
  <2>2. \A w \in Requests : writer[w].pc # "apply"
    BY <2>1, NobodyWrites
  <2>3. CASE reload'.pc = "idle" /\ running' = running
    BY <2>1, <2>2, <2>3 DEF Mirror, Settling
  <2>4. CASE reload'.pc = "mark" /\ Parses(reload.text) /\ running' = {reload.text} /\ rejected' = FALSE
    <3>1. reload.text \in Texts
      BY DEF Shape
    <3> QED
      BY <2>1, <2>2, <2>4, <3>1 DEF Mirror, Settling
  <2> QED
    BY <1>10, <2>3, <2>4 DEF Adopt, Shape
<1>11. CASE Remember
  <2>1. /\ UNCHANGED <<writer, running, rejected, stage>> /\ reload.pc = "mark"
        /\ reload'.pc = "idle" /\ seen' = {reload.text}
    BY <1>11 DEF Remember, Shape
  <2>2. \A w \in Requests : writer[w].pc # "apply"
    BY <2>1, NobodyWrites
  <2>3. running = {reload.text}
    BY <2>1 DEF Mirror
  <2> QED
    BY <2>1, <2>2, <2>3 DEF Mirror, Settling
<1> QED
  BY <1>1, <1>2, <1>3, <1>4, <1>5, <1>6, <1>7, <1>8, <1>9, <1>10, <1>11 DEF Next

LEMMA StartingStep ==
  Shape /\ Own /\ Buildable /\ OneThread /\ Starting /\ [Next]_vars => Starting'
<1> SUFFICES ASSUME Shape, Own, Buildable, OneThread, Starting, [Next]_vars PROVE Starting'
  OBVIOUS
<1>0. world' = world
  BY WorldStays
<1> SUFFICES ASSUME Calm PROVE Starting'
  BY <1>0 DEF Starting, Calm
<1> USE DEF Writing3
<1>1. CASE Load \/ LoadStandIn
  <2>1. stage' = "loaded" /\ file' = file
    BY <1>1 DEF Load, LoadStandIn
  <2>2. InStep' /\ running' \in {{}, {file}}
    BY <1>1 DEF Load, LoadStandIn, InStep, Parses
  <2> QED
    BY <2>1, <2>2 DEF Starting
<1>2. CASE Make
  <2>1. /\ UNCHANGED <<writer, file, running, rejected>> /\ stage = "loaded" /\ stage' = "made"
    BY <1>2 DEF Make
  <2>2. Written' = {}
    BY <2>1, NobodyWrites DEF Written
  <2> QED
    BY <2>1, <2>2 DEF Starting, InStep, Parses
<1>3. CASE Watch \/ Crash
  BY <1>3 DEF Watch, Crash, Starting
<1>4. CASE Open \/ Debounce \/ UNCHANGED vars
  <2>1. UNCHANGED <<writer, file, running, rejected, stage>>
    BY <1>4 DEF Open, Debounce, vars
  <2> QED
    BY <2>1 DEF Starting, InStep, Written, Parses
<1>5. CASE Save \/ Notice \/ Compare \/ Adopt \/ Remember
  <2>1. stage' = stage /\ stage \in {"down", "up"}
    BY <1>5 DEF Save, Settled, Calm, Notice, Compare, Adopt, Remember, OneThread
  <2> QED
    BY <2>1 DEF Starting
<1>6. ASSUME NEW w \in Writers, Read(w) \/ Check(w) PROVE Starting'
  <2>1. UNCHANGED <<file, stage, running, rejected>>
    BY <1>6 DEF Read, Check
  <2>2. Written' = Written /\ \A v \in Written : writer'[v] = writer[v]
    BY <1>6, WriterFacts DEF Written, Writers
  <2> QED
    BY <2>1, <2>2 DEF Starting, InStep, Written, Parses
<1>7. ASSUME NEW w \in Writers, Rename(w) PROVE Starting'
  <2>1. writer[w].pc = "rename" /\ UNCHANGED <<stage, running, rejected>>
    BY <1>7 DEF Rename
  <2>2. CASE stage \in {"down", "up"}
    BY <2>1, <2>2 DEF Starting
  <2>3. CASE stage \notin {"down", "up"}
    <3>1. w \in Requests /\ stage = "made"
      <4>1. w \notin Commands
        BY <1>7, <2>3, SettingsAssumption DEF Rename, Settled, Calm
      <4>2. w \in Requests
        BY <4>1 DEF Writers
      <4> QED
        BY <2>1, <2>3, <4>2, Alike DEF Active, Over
    <3>2. tmp = {w}
      BY <2>1, <3>1 DEF OneThread
    <3>3. file' = writer[w].next /\ At(w, "mark")
      BY <1>7, <3>1, <3>2, SettingsAssumption, RenameFacts
    <3>4. Written' \subseteq {w} /\ w \in Written' /\ writer'[w].next = writer[w].next
      <4>1. \A v \in Requests \ {w} : writer[v].pc \notin {"mark", "apply"}
        BY <2>1, <3>1, Alike DEF Active, Over
      <4> QED
        BY <3>1, <3>3, <4>1 DEF At, Written, Shape, Writers
    <3> QED
      BY <2>1, <3>1, <3>3, <3>4 DEF Starting
  <2> QED
    BY <2>2, <2>3
<1>8. ASSUME NEW w \in Writers, Mark(w) PROVE Starting'
  <2>1. UNCHANGED <<file, stage, running, rejected>> /\ w \in Requests
    BY <1>8 DEF Mark, Own
  <2>2. Written' = Written /\ \A v \in Written : writer'[v].next = writer[v].next
    BY <1>8, <2>1, WriterFacts DEF Written, Writers
  <2> QED
    BY <2>1, <2>2 DEF Starting, InStep, Parses
<1>9. ASSUME NEW w \in Writers, Apply(w) PROVE Starting'
  <2>1. /\ w \in Requests /\ writer[w].pc = "apply" /\ writer'[w].pc = "done"
        /\ Parses(writer[w].next) /\ running' = {writer[w].next} /\ rejected' = FALSE
        /\ UNCHANGED <<file, stage>>
    BY <1>9, ApplySucceeds
  <2>2. stage \in {"made", "up"}
    BY <2>1, Alike DEF Active, Over
  <2>3. \A v \in Requests : writer'[v].pc \notin {"mark", "apply"}
    BY <1>9, <2>1, Alike, WriterFacts DEF Active, Over, Writers
  <2>4. stage = "made" => writer[w].next = file
    BY <2>1 DEF Starting, Written
  <2> QED
    BY <2>1, <2>2, <2>3, <2>4 DEF Starting, InStep, Written, Parses
<1> QED
  BY <1>1, <1>2, <1>3, <1>4, <1>5, <1>6, <1>7, <1>8, <1>9 DEF Next

LEMMA CaughtStep ==
  Shape /\ Own /\ Buildable /\ OneThread /\ Mirror /\ Starting /\ Caught /\ [Next]_vars => Caught'
<1> SUFFICES ASSUME Shape, Own, Buildable, OneThread, Mirror, Starting, Caught, [Next]_vars
             PROVE  Caught'
  OBVIOUS
<1>0. world' = world
  BY WorldStays
<1> SUFFICES ASSUME Calm, stage' = "up", ~noise', ~signal'
             PROVE  /\ Written' = {}
                    /\ reload'.pc # "idle" => reload'.text = file'
                    /\ reload'.pc = "idle" => InStep'
  BY <1>0 DEF Caught, Calm
<1> USE DEF Writing3
<1>1. CASE Load \/ LoadStandIn \/ Make \/ Crash
  BY <1>1 DEF Load, LoadStandIn, Make, Crash
<1>2. CASE Watch
  <2>1. UNCHANGED <<writer, file, running, rejected, reload>> /\ stage = "made"
    BY <1>2 DEF Watch
  <2>2. reload.pc = "idle"
    BY <2>1 DEF OneThread
  <2>3. Written = {}
    <3> SUFFICES ASSUME NEW w \in Written PROVE FALSE
      OBVIOUS
    <3>1. w \in Requests /\ writer[w].pc \in {"mark", "apply"}
      BY DEF Written
    <3>2. w \in Seeds
      BY <2>1, <3>1, Alike DEF Active, Over
    <3> QED
      BY <1>2, <3>1, <3>2 DEF Watch
  <2> QED
    BY <2>1, <2>2, <2>3 DEF Starting, InStep, Written, Parses
<1>3. CASE Open \/ UNCHANGED vars
  <2>1. UNCHANGED <<writer, file, running, rejected, reload, stage, noise, signal>>
    BY <1>3 DEF Open, vars
  <2> QED
    BY <2>1 DEF Caught, InStep, Written, Parses
<1>4. CASE Save \/ Debounce
  BY <1>4 DEF Save, Becomes, Debounce
<1>5. ASSUME NEW w \in Writers, Read(w) \/ Check(w)
      PROVE  /\ Written' = {}
             /\ reload'.pc # "idle" => reload'.text = file'
             /\ reload'.pc = "idle" => InStep'
  <2>1. UNCHANGED <<file, stage, running, rejected, reload, noise, signal>>
    BY <1>5 DEF Read, Check
  <2>2. Written' = Written
    BY <1>5, WriterFacts DEF Written, Writers
  <2> QED
    BY <2>1, <2>2 DEF Caught, InStep, Parses
<1>6. ASSUME NEW w \in Writers, Rename(w)
      PROVE  /\ Written' = {}
             /\ reload'.pc # "idle" => reload'.text = file'
             /\ reload'.pc = "idle" => InStep'
  <2>1. w \in Requests => tmp = {w}
    BY <1>6 DEF Rename, OneThread
  <2>2. noise' = (noise \/ stage = "up") /\ stage' = stage
    BY <1>6, <2>1, RenameFacts DEF Rename
  <2> QED
    BY <2>2
<1>7. ASSUME NEW w \in Writers, Mark(w) \/ Apply(w) PROVE FALSE
  <2>1. UNCHANGED <<stage, noise, signal>> /\ writer[w].pc \in {"mark", "apply"}
    BY <1>7 DEF Mark, Apply
  <2>2. w \in Written
    BY <2>1 DEF Own, Written
  <2> QED
    BY <2>1, <2>2 DEF Caught
<1>8. CASE Notice
  <2>1. UNCHANGED <<writer, file>> /\ reload'.pc = "compare" /\ reload'.text = file
    BY <1>8 DEF Notice
  <2>2. Written = {}
    BY <1>8 DEF Notice, OneAtATime, Calm, Writing, Written
  <2> QED
    BY <2>1, <2>2 DEF Written
<1>9. CASE Compare
  <2>1. UNCHANGED <<writer, file, stage, noise, signal, running>> /\ reload.pc = "compare"
    BY <1>9 DEF Compare
  <2>2. Written' = {} /\ Settling = {} /\ reload.text = file
    BY <2>1 DEF Caught, Written, Settling
  <2>3. seen = running
    BY <2>1, <2>2 DEF Mirror
  <2>4. CASE seen = {reload.text}
    <3>1. rejected' = FALSE /\ reload'.pc = "idle"
      BY <1>9, <2>4 DEF Compare, Shape
    <3>2. running = {file} /\ Parses(file)
      BY <2>2, <2>3, <2>4 DEF Mirror
    <3> QED
      BY <2>1, <2>2, <3>1, <3>2 DEF InStep, Parses
  <2>5. CASE seen # {reload.text}
    <3>1. reload'.pc = "apply" /\ reload'.text = reload.text
      BY <1>9, <2>5 DEF Compare, Shape
    <3> QED
      BY <2>1, <2>2, <3>1
  <2> QED
    BY <2>4, <2>5
<1>10. CASE Adopt
  <2>1. /\ UNCHANGED <<writer, file, stage, noise, signal>> /\ reload.pc = "apply"
        /\ reload'.text = reload.text
    BY <1>10 DEF Adopt, Shape
  <2>2. Written' = {} /\ reload.text = file
    BY <2>1 DEF Caught, Written
  <2>3. CASE ~Parses(file)
    <3>1. rejected' = TRUE /\ reload'.pc = "idle"
      BY <1>10, <2>2, <2>3 DEF Adopt, Shape
    <3> QED
      BY <2>1, <2>2, <2>3, <3>1 DEF InStep, Parses
  <2>4. CASE Parses(file)
    <3>1. Builds(file)
      BY DEF Buildable, Calm
    <3>2. reload'.pc = "mark"
      BY <1>10, <2>2, <2>4, <3>1 DEF Adopt, Shape
    <3> QED
      BY <2>1, <2>2, <3>2
  <2> QED
    BY <2>3, <2>4
<1>11. CASE Remember
  <2>1. /\ UNCHANGED <<writer, file, stage, noise, signal, running, rejected>> /\ reload.pc = "mark"
        /\ reload'.pc = "idle"
    BY <1>11 DEF Remember, Shape
  <2>2. Written' = {} /\ reload.text = file
    BY <2>1 DEF Caught, Written
  <2>3. running = {file} /\ Parses(file) /\ ~rejected
    BY <2>1, <2>2 DEF Mirror
  <2> QED
    BY <2>1, <2>2, <2>3 DEF InStep, Parses
<1> QED
  BY <1>1, <1>2, <1>3, <1>4, <1>5, <1>6, <1>7, <1>8, <1>9, <1>10, <1>11 DEF Next

-----------------------------------------------------------------------------
(* The theorems. *)

LEMMA Always == Spec => []IInv
<1>1. IInv /\ [Next]_vars => IInv'
  BY ShapeStep, OwnStep, AloneStep, KeptStep, UnseenStep, BuildableStep, OneThreadStep,
     MirrorStep, StartingStep, CaughtStep DEF IInv
<1> QED
  BY <1>1, InitHolds, PTL DEF Spec

(* An edit that somebody was told is in, or that an editor saved, stays in *)
(* the file until somebody who had seen it takes it out or an editor saves *)
(* over it: for any number of writers, editors, marks and crashes          *)
(* (write_if_unchanged of store.rs).                                       *)
THEOREM NoEditIsLost == Spec => []NothingLost
<1>1. IInv => NothingLost
  BY DEF IInv, Kept, NothingLost
<1> QED
  BY <1>1, Always, PTL

(* What was refused is neither in the file nor in force, however its       *)
(* writer lost (ConfigManager::write: checked before it is written).       *)
THEOREM RefusedIsNowhere == Spec => []RefusedLeaveNothing
<1>1. IInv => RefusedLeaveNothing
  <2> SUFFICES ASSUME IInv, world \cap {"gap", "unbuilt"} = {},
                      NEW w \in Writers, writer[w].pc = "refused"
               PROVE  w \notin file \cup UNION running
    BY DEF RefusedLeaveNothing
  <2> QED
    BY DEF IInv, Unseen, Before, Nowhere
<1> QED
  BY <1>1, Always, PTL

(* A core that has nothing left to do about the file has the file in       *)
(* force, or shows that it is rejected (reload_from_disk and its `seen`).  *)
THEOREM TheFileIsInForce == Spec => []InForce
<1>1. IInv => InForce
  <2> SUFFICES ASSUME IInv, Calm, Quiet PROVE InStep
    BY DEF InForce, Agreed, Calm, InStep
  <2> QED
    BY DEF IInv, Caught, Quiet
<1> QED
  BY <1>1, Always, PTL

(***************************************************************************)
(* Synchronised configurations: where devices skip no files, versions are  *)
(* pruned at the location only once they are merged.  Sound says that      *)
(* lineages are whole and numbers count up along them, of all that is at   *)
(* the location, has arrived at a device or is about to be published;      *)
(* Replaced, that what a round prunes is among the ancestors of a version  *)
(* at the location, through all that others prune before it.  In every     *)
(* world, skipped files included, what is pruned is older than a version   *)
(* that stays (Counting).                                                  *)
(***************************************************************************)

CONSTANTS Device, Item, Absent, Exclude, InUse, First, SyncWorlds, TouchedItems, MaxEdits,
          MaxTurns, MaxSeq
VARIABLES sync_world, files, replica, local, base, bases, quiet, phase, plan, edits,
          turns, edited, dropped, resolved

D == INSTANCE Sync WITH
       Worlds <- SyncWorlds, Touched <- TouchedItems, world <- sync_world, over <- edited

(* The names of versions.                                                  *)
Names == [seq : Nat, dev : Nat]

(* The version that the round of d is about to publish.                    *)
Coming(d) ==
  {p.next : p \in {q \in plan[d] : phase[d] \in {"Apply", "Publish"} /\ q.upload}}

(* What is at the location or has arrived at a device, and what is to be   *)
(* published besides.                                                      *)
There      == files \cup UNION {replica[d] : d \in Device}
Everywhere == There \cup UNION {Coming(d) : d \in Device}

(* What is still to be published has a name that stands nowhere yet.       *)
Unused ==
  \A d \in Device : \A n \in Coming(d) :
    /\ \A v \in There : n.name \notin D!Lineage(v)
    /\ \A e \in Device \ {d} : \A v \in Coming(e) : n.name \notin D!Lineage(v)

(* Versions have numbers, and what they were made from has lower ones.     *)
Numbered(S) ==
  \A v \in S : /\ v.name \in Names
               /\ \A n \in v.parents \cup v.history : n \in Names /\ n.seq < v.name.seq

(* The lineage of a version is whole.                                      *)
Traced(S) == \A v, w \in S : w.name \in D!Lineage(v) => D!Lineage(w) \subseteq D!Lineage(v)

(* So many versions, so that one of some is the latest.                    *)
Bounded(S) == \E k \in Nat : \A v \in S : v.name.seq <= k /\ v.name.dev <= k

Sound(S) == Numbered(S) /\ Traced(S) /\ Bounded(S)

(* What the plan p wants to go is among the ancestors of its version, and  *)
(* when it goes, that version or one that has it is at the location.       *)
Replaces(p) ==
  p.upload => \A n \in p.old : n \in D!Lineage(p.next) /\ n.seq < p.next.name.seq
Stands(p) == \E w \in files : D!Lineage(p.next) \subseteq D!Lineage(w)

Replaced ==
  \A d \in Device : \A p \in plan[d] :
    /\ phase[d] \in {"Apply", "Publish", "Prune"} => Replaces(p)
    /\ phase[d] = "Prune" => Stands(p)

(* A round has a plan, and publishes or prunes only what it has made.      *)
Phases == {"Idle", "Apply", "Publish", "Prune", "Save"}

Staged ==
  /\ phase \in [Device -> Phases] /\ DOMAIN plan = Device /\ DOMAIN replica = Device
  /\ \A d \in Device : phase[d] # "Idle" => plan[d] # {} /\ \A p, q \in plan[d] : p = q
  /\ \A d \in Device : phase[d] \in {"Publish", "Prune"} => \A p \in plan[d] : p.upload

Pruning == Staged /\ Sound(Everywhere) /\ Replaced

(* There is a greatest among some natural numbers below a bound.           *)
LEMMA GreatestOf ==
  ASSUME NEW S \in SUBSET Nat, S # {}, NEW k \in Nat, \A n \in S : n <= k
  PROVE  \E n \in S : \A m \in S : m <= n
<1> DEFINE T == {j \in Nat : k - j \in S}
<1>1. T # {}
  <2>1. PICK n \in S : TRUE  OBVIOUS
  <2>2. k - n \in Nat /\ k - (k - n) = n  BY <2>1
  <2> QED  BY <2>1, <2>2
<1>2. PICK j \in T : \A i \in T : j <= i  BY <1>1, SmallestOf
<1>3. k - j \in S /\ j \in Nat  BY <1>2
<1>4. ASSUME NEW m \in S PROVE m <= k - j
  <2>1. m \in Nat /\ m <= k  BY <1>4
  <2>2. k - m \in T  BY <2>1, <1>4
  <2> QED  BY <1>2, <1>3, <2>1, <2>2
<1> QED  BY <1>3, <1>4

(* The latest of some names is one of them, with the highest number.       *)
LEMMA LatestOf ==
  ASSUME NEW N \in SUBSET Names, N # {}, NEW k \in Nat,
         \A n \in N : n.seq <= k /\ n.dev <= k
  PROVE  D!Latest(N) \in N /\ \A n \in N : n.seq <= D!Latest(N).seq
<1>1. PICK s \in {n.seq : n \in N} : \A t \in {n.seq : n \in N} : t <= s
  <2>1. {n.seq : n \in N} \subseteq Nat /\ {n.seq : n \in N} # {}  BY DEF Names
  <2>2. \A t \in {n.seq : n \in N} : t <= k  OBVIOUS
  <2> QED  BY <2>1, <2>2, GreatestOf
<1> DEFINE M == {n \in N : n.seq = s}
<1>2. PICK e \in {n.dev : n \in M} : \A t \in {n.dev : n \in M} : t <= e
  <2>1. {n.dev : n \in M} \subseteq Nat  BY DEF Names
  <2>2. {n.dev : n \in M} # {}  BY <1>1
  <2>3. \A t \in {n.dev : n \in M} : t <= k  OBVIOUS
  <2> QED  BY <2>1, <2>2, <2>3, GreatestOf
<1>3. PICK l \in N : l.seq = s /\ l.dev = e  BY <1>2
<1>4. \A n \in N : n = l \/ D!Before(n, l)
  <2> SUFFICES ASSUME NEW n \in N, ~D!Before(n, l) PROVE n = l  OBVIOUS
  <2>1. n \in Names /\ l \in Names  OBVIOUS
  <2>2. n.seq <= s  BY <1>1
  <2>3. n.seq = s  BY <1>3, <2>1, <2>2 DEF D!Before, Names
  <2>4. n.dev <= e  BY <1>2, <2>3
  <2>5. n.dev = l.dev  BY <1>3, <2>1, <2>3, <2>4 DEF D!Before, Names
  <2> QED  BY <1>3, <2>1, <2>3, <2>5 DEF Names
<1>5. D!Latest(N) \in N /\ \A m \in N : m = D!Latest(N) \/ D!Before(m, D!Latest(N))
  BY <1>3, <1>4 DEF D!Latest
<1> QED  BY <1>5 DEF D!Before, Names

(* What holds of versions holds of fewer.                                  *)
LEMMA SoundPart ==
  ASSUME NEW S, Sound(S), NEW T \in SUBSET S
  PROVE  Sound(T)
BY DEF Sound, Numbered, Traced, Bounded

(* Every version is among the ancestors of a head, or is one.              *)
LEMMA HeadAbove ==
  ASSUME NEW S, Sound(S), NEW u \in S
  PROVE  \E h \in D!Heads(S) : u.name \in D!Lineage(h)
<1> DEFINE A == {w \in S : u.name \in D!Lineage(w)}
<1>1. PICK k \in Nat : \A v \in S : v.name.seq <= k  BY DEF Sound, Bounded
<1>2. PICK s \in {w.name.seq : w \in A} : \A t \in {w.name.seq : w \in A} : t <= s
  <2>1. u \in A  BY DEF D!Lineage
  <2>2. {w.name.seq : w \in A} \subseteq Nat  BY DEF Sound, Numbered, Names
  <2>3. \A t \in {w.name.seq : w \in A} : t <= k  BY <1>1
  <2>4. {w.name.seq : w \in A} # {}  BY <2>1
  <2> HIDE DEF A
  <2> QED  BY <2>2, <2>3, <2>4, GreatestOf
<1>3. PICK h \in A : h.name.seq = s  BY <1>2
<1>4. ASSUME NEW w \in S, h.name \in w.parents PROVE FALSE
  <2>1. h.name.seq < w.name.seq /\ w.name.seq \in Nat /\ h.name.seq \in Nat
    BY <1>4, <1>3 DEF Sound, Numbered, Names
  <2>2. w \in A  BY <1>3, <1>4 DEF Sound, Traced, D!Lineage
  <2> QED  BY <1>2, <1>3, <2>1, <2>2
<1> QED  BY <1>3, <1>4 DEF D!Heads

(* The version that d makes.                                               *)
Makes(n, d, ok, names) ==
  /\ n.name = [seq |-> D!NextSeq(names), dev |-> d]
  /\ n.parents = D!NamesOf(D!Heads(ok)) /\ n.history = D!HistoryOf(D!Heads(ok))

(* Whatever the merge comes to, this is what the round publishes.          *)
LEMMA OutcomeNext ==
  ASSUME NEW d, NEW ok, NEW names, NEW choice, NEW lead,
         D!Outcome(d, ok, names, choice, lead).upload
  PROVE  Makes(D!Outcome(d, ok, names, choice, lead).next, d, ok, names)
<1>1. \A heads, remote, v, at, res :
        LET c == D!Concluded(heads, remote, v, at, res)
        IN  c.upload => /\ c.next.name = v /\ c.next.parents = D!NamesOf(heads)
                        /\ c.next.history = D!HistoryOf(heads)
  BY DEF D!Concluded
<1>2. \E remote, at, res : D!Outcome(d, ok, names, choice, lead) =
        D!Concluded(D!Heads(ok), remote, [seq |-> D!NextSeq(names), dev |-> d], at, res)
  BY DEF D!Outcome, D!Opened, D!Faced, D!Merged
<1> QED  BY <1>1, <1>2 DEF Makes

(* Every device sees all the files that there are.                         *)
AllSeen == "lag" \notin sync_world /\ "skip" \notin sync_world

(* What a round has decided.                                               *)
Decides(d, p, ok, names) ==
  /\ plan' = [plan EXCEPT ![d] = {p}] /\ replica' = [replica EXCEPT ![d] = ok]
  /\ phase' = [phase EXCEPT ![d] = D!After({p})] /\ files' = files
  /\ ok # {} /\ ok \subseteq There
  /\ D!NamesOf(ok) \subseteq names /\ names \subseteq D!NamesOf(There)
  /\ p.upload => /\ Makes(p.next, d, ok, names)
                 /\ \E skip : p.old = D!Doomed(names \cup {p.next.name}, ok \cup {p.next}, skip)
                 /\ "skip" \notin sync_world =>
                      p.old = D!ToDelete(names \cup {p.next.name}, ok \cup {p.next})
  /\ AllSeen => ok = files /\ names = D!NamesOf(files)

(* A round comes to a decision on what it has read.                        *)
LEMMA RoundDecides ==
  ASSUME NEW d \in Device, DOMAIN plan = Device, D!Round(d)
  PROVE  /\ phase[d] = "Idle"
         /\ \E p, ok, names : Decides(d, p, ok, names)
<1>1. PICK see \in D!Views(d), choice \in D!Decisions(d) :
        /\ see.ok # {} /\ replica' = [replica EXCEPT ![d] = see.ok]
        /\ LET ok    == see.ok
               wait  == D!NamesOf(see.wait)
               skip  == D!NamesOf(see.skip)
               names == D!NamesOf(ok) \cup wait
           IN  \E lead \in D!NamesOf(D!Heads(ok)) :
                 \E do \in {D!Outcome(d, ok, names, choice, lead)} :
                   /\ choice # {} =>
                        \E c \in D!ToSet(do.chosen), k \in choice : D!Allowed(c, k, do.remote)
                   /\ plan' = [plan EXCEPT ![d] = {D!Planned(d, ok, names, wait, skip, do)}]
                   /\ dropped' = dropped \cup D!GivenUp(d, choice, do)
  BY Zenon DEF D!Round
<1> DEFINE ok == see.ok
           wait == D!NamesOf(see.wait)
           skip == D!NamesOf(see.skip)
           names == D!NamesOf(ok) \cup wait
<1>2. PICK lead, do : /\ do = D!Outcome(d, ok, names, choice, lead)
                      /\ plan' = [plan EXCEPT ![d] = {D!Planned(d, ok, names, wait, skip, do)}]
  BY <1>1
<1> DEFINE p == D!Planned(d, ok, names, wait, skip, do)
<1>3. /\ see.ok \subseteq files \cup replica[d] /\ see.wait \subseteq files
      /\ AllSeen => see.ok = files /\ see.wait = {}
      /\ "skip" \notin sync_world => see.skip = {}
  BY DEF D!Views, D!Skips, AllSeen
<1>4. files \cup replica[d] \subseteq There  BY DEF There
<1>5. /\ D!NamesOf(ok) \subseteq names /\ names \subseteq D!NamesOf(There)
      /\ AllSeen => ok = files /\ names = D!NamesOf(files)
  BY <1>3, <1>4 DEF D!NamesOf
<1>6. ok # {} /\ ok \subseteq There /\ replica' = [replica EXCEPT ![d] = ok]
  BY <1>1, <1>3, <1>4
<1>7. p.upload = do.upload /\ p.next = do.next
  BY DEF D!Planned
<1>8. p.upload => /\ p.old = D!Doomed(names \cup {p.next.name}, ok \cup {p.next}, skip)
                  /\ "skip" \notin sync_world =>
                       p.old = D!ToDelete(names \cup {p.next.name}, ok \cup {p.next})
  <2>1. p.upload => p.old = D!Doomed(names \cup {p.next.name}, ok \cup {p.next}, skip)
    BY DEF D!Planned
  <2>2. "skip" \notin sync_world => skip = {}  BY <1>3 DEF D!NamesOf
  <2>3. \A N, S : D!Doomed(N, S, {}) = D!ToDelete(N, S)  BY DEF D!Doomed, D!Below
  <2> HIDE DEF ok, wait, names, skip, p
  <2> QED  BY <2>1, <2>2, <2>3
<1> HIDE DEF ok, wait, names, skip
<1>9. do.upload => Makes(do.next, d, ok, names)
  BY <1>2, OutcomeNext
<1> HIDE DEF p
<1>10. plan' = [plan EXCEPT ![d] = {p}]  BY <1>2 DEF p
<1>11. phase' = [phase EXCEPT ![d] = D!After({p})]
  <2>1. phase' = [phase EXCEPT ![d] = D!After(plan'[d])]  BY DEF D!Round
  <2> QED  BY <1>10, <2>1
<1>12. phase[d] = "Idle" /\ files' = files  BY DEF D!Round
<1> QED  BY <1>5, <1>6, <1>7, <1>8, <1>9, <1>10, <1>11, <1>12 DEF Decides

(* What is to go is listed and is the parent of a version that was read.   *)
LEMMA ToDeleteIsAbove ==
  ASSUME NEW N, NEW S, NEW x \in D!ToDelete(N, S)
  PROVE  x \in N /\ \E v \in S : x \in v.parents
BY DEF D!ToDelete

(* The version n that a round makes of what it has read is numbered above  *)
(* all that is listed, has the lineages of the heads, and what is to go    *)
(* for it is among them.                                                   *)
Fitting(n, ok, names) ==
  /\ n.name \in Names
  /\ \A m \in names : m.seq < n.name.seq
  /\ D!Lineage(n) = {n.name} \cup UNION {D!Lineage(h) : h \in D!Heads(ok)}
  /\ \A m \in n.parents \cup n.history :
       m \in Names /\ m.seq < n.name.seq /\ \E h \in D!Heads(ok) : m \in D!Lineage(h)
  /\ \A x \in D!ToDelete(names \cup {n.name}, ok \cup {n}) :
       x \in D!Lineage(n) /\ x.seq < n.name.seq

LEMMA NewNumber ==
  ASSUME NEW S, Numbered(S), Bounded(S), NEW ok \in SUBSET S, ok # {},
         NEW names \in SUBSET D!NamesOf(S), D!NamesOf(ok) \subseteq names, NEW d \in Nat,
         NEW n, Makes(n, d, ok, names)
  PROVE  /\ n.name \in Names
         /\ \A m \in names : m.seq < n.name.seq
         /\ \A h \in ok : \A m \in D!Lineage(h) : m \in Names /\ m.seq < n.name.seq
         /\ \A m \in n.parents \cup n.history : \E h \in D!Heads(ok) : m \in D!Lineage(h)
<1> USE DEF Makes
<1>1. names \in SUBSET Names /\ names # {}  BY DEF D!NamesOf, Numbered
<1>2. D!Latest(names) \in names /\ \A m \in names : m.seq <= D!Latest(names).seq
  <2>1. PICK k \in Nat : \A v \in S : v.name.seq <= k /\ v.name.dev <= k
    BY DEF Bounded
  <2>2. \A m \in names : m.seq <= k /\ m.dev <= k  BY <2>1 DEF D!NamesOf
  <2> QED  BY <1>1, <2>2, LatestOf
<1>3. n.name \in Names /\ \A m \in names : m.seq < n.name.seq
  BY <1>1, <1>2 DEF D!NextSeq, Names
<1>4. \A m \in n.parents \cup n.history : \E h \in D!Heads(ok) : m \in D!Lineage(h)
  BY DEF D!Lineage, D!HistoryOf, D!NamesOf
<1>5. ASSUME NEW h \in ok, NEW m \in D!Lineage(h) PROVE m \in Names /\ m.seq < n.name.seq
  <2>1. h \in S /\ h.name \in names  BY <1>5 DEF D!NamesOf
  <2>2. h.name.seq < n.name.seq /\ h.name.seq \in Nat /\ n.name.seq \in Nat
    BY <1>1, <1>3, <2>1 DEF Names
  <2>3. m \in Names /\ (m = h.name \/ m.seq < h.name.seq)
    BY <1>5, <2>1 DEF D!Lineage, Numbered
  <2> QED  BY <2>2, <2>3 DEF Names
<1> QED  BY <1>3, <1>4, <1>5

LEMMA NewVersion ==
  ASSUME NEW S, Sound(S), NEW ok \in SUBSET S, ok # {},
         NEW names \in SUBSET D!NamesOf(S), D!NamesOf(ok) \subseteq names, NEW d \in Nat,
         NEW n, Makes(n, d, ok, names)
  PROVE  Fitting(n, ok, names)
<1>1. /\ n.name \in Names
      /\ \A m \in names : m.seq < n.name.seq
      /\ \A h \in ok : \A m \in D!Lineage(h) : m \in Names /\ m.seq < n.name.seq
      /\ \A m \in n.parents \cup n.history : \E h \in D!Heads(ok) : m \in D!Lineage(h)
  BY NewNumber DEF Sound
<1>2. D!Heads(ok) \subseteq ok  BY DEF D!Heads
<1>3. D!Lineage(n) = {n.name} \cup UNION {D!Lineage(h) : h \in D!Heads(ok)}
  <2> DEFINE H == D!Heads(ok)
  <2> HIDE DEF H
  <2> DEFINE U == UNION {h.history \cup h.parents : h \in H}
  <2>1. n.parents \cup n.history = D!NamesOf(H) \cup U
    <3>1. n.parents = D!NamesOf(H)  BY DEF H, Makes
    <3>2. n.history = U \ D!NamesOf(H)  BY Zenon DEF D!HistoryOf, H, Makes
    <3> HIDE DEF U
    <3>3. n.parents \cup n.history = D!NamesOf(H) \cup U  BY <3>1, <3>2
    <3> QED  BY <3>3 DEF U
  <2>2. UNION {D!Lineage(h) : h \in H} = D!NamesOf(H) \cup U
    BY DEF D!Lineage, D!NamesOf
  <2> QED  BY <2>1, <2>2 DEF D!Lineage, H
<1>4. ASSUME NEW x \in D!ToDelete(names \cup {n.name}, ok \cup {n})
      PROVE  x \in D!Lineage(n) /\ x.seq < n.name.seq
  <2>1. PICK v \in ok \cup {n} : x \in v.parents  BY ToDeleteIsAbove
  <2>2. CASE v = n  BY <1>1, <1>2, <1>3, <2>1, <2>2
  <2>3. CASE v \in ok
    <3>1. Sound(ok)  BY SoundPart
    <3>2. PICK h \in D!Heads(ok) : v.name \in D!Lineage(h)  BY <2>3, <3>1, HeadAbove
    <3>3. x \in D!Lineage(h)
      BY <1>2, <2>1, <2>3, <3>1, <3>2 DEF Sound, Traced, D!Lineage
    <3> QED  BY <1>1, <1>2, <1>3, <3>3
  <2> QED  BY <2>2, <2>3
<1> QED  BY <1>1, <1>2, <1>3, <1>4 DEF Fitting

(* A step of a round after the decision, which ends the round or goes on.  *)
Goes(d) == D!Apply(d) \/ D!Publish(d) \/ D!Prune(d) \/ D!Save(d) \/ D!Fail(d) \/ D!Crash(d)

(* A round that is going has its plan.                                     *)
LEMMA PlanIn ==
  ASSUME Staged, NEW d \in Device, phase[d] # "Idle"
  PROVE  D!Plan(d) \in plan[d]
BY DEF Staged, D!Plan

(* It leaves the rounds of the other devices alone.                        *)
LEMMA GoesStaged ==
  ASSUME Staged, NEW d \in Device, Goes(d)
  PROVE  /\ Staged'
         /\ phase[d] # "Idle"
         /\ \A e \in Device \ {d} : plan'[e] = plan[e] /\ phase'[e] = phase[e]
         /\ \A e \in Device \ {d} : replica'[e] = replica[e]
         /\ phase'[d] \in {"Publish", "Prune"} => plan'[d] = plan[d]
<1>1. CASE D!Apply(d)
  <2>1. CASE local[d] # D!Plan(d).before
    BY <1>1, <2>1 DEF Staged, D!Apply, D!Abandon, Phases
  <2>2. CASE local[d] = D!Plan(d).before
    BY <1>1, <2>2, PlanIn DEF Staged, D!Apply, Phases
  <2> QED  BY <2>1, <2>2
<1>2. CASE D!Publish(d)  BY <1>2, PlanIn DEF Staged, D!Publish, Phases
<1>3. CASE D!Prune(d)
  <2>1. PICK gone :
          /\ plan' = [plan EXCEPT ![d] = {[p EXCEPT !.names = @ \ gone] : p \in plan[d]}]
          /\ replica' = [replica EXCEPT ![d] = {v \in @ : v.name \notin gone}]
    BY <1>3 DEF D!Prune
  <2>2. phase' = [phase EXCEPT ![d] = "Save"] /\ phase[d] = "Prune"  BY <1>3 DEF D!Prune
  <2>3. plan'[d] # {} /\ \A p, q \in plan'[d] : p = q
    <3>1. plan[d] # {} /\ \A p, q \in plan[d] : p = q  BY <2>2 DEF Staged
    <3>2. plan'[d] = {[p EXCEPT !.names = @ \ gone] : p \in plan[d]}  BY <2>1 DEF Staged
    <3> QED  BY <3>1, <3>2
  <2>4. DOMAIN plan' = Device /\ DOMAIN replica' = Device
    BY <2>1 DEF Staged
  <2>5. \A e \in Device \ {d} :
          plan'[e] = plan[e] /\ phase'[e] = phase[e] /\ replica'[e] = replica[e]
    BY <2>1, <2>2 DEF Staged
  <2>6. phase' \in [Device -> Phases] /\ phase'[d] = "Save"
    BY <2>2 DEF Staged, Phases
  <2> QED  BY <2>2, <2>3, <2>4, <2>5, <2>6 DEF Staged
<1>4. CASE D!Save(d)  BY <1>4 DEF Staged, D!Save, D!Abandon, Phases
<1>5. CASE D!Fail(d)  BY <1>5 DEF Staged, D!Fail, D!Abandon, Phases
<1>6. CASE D!Crash(d)  BY <1>6 DEF Staged, D!Crash, D!Abandon, Phases
<1> QED  BY <1>1, <1>2, <1>3, <1>4, <1>5, <1>6 DEF Goes

(* What a round adds, it was about to publish.                             *)
LEMMA GoesFewer ==
  ASSUME Staged, NEW d \in Device, Goes(d)
  PROVE  /\ \A e \in Device : Coming(e)' \subseteq Coming(e)
         /\ \/ There' \subseteq There
            \/ /\ phase[d] = "Publish" /\ D!Plan(d).next \in Coming(d)
               /\ There' = There \cup {D!Plan(d).next}
<1>1. ASSUME NEW e \in Device PROVE Coming(e)' \subseteq Coming(e)
  <2>1. CASE e # d  BY <2>1, GoesStaged DEF Coming
  <2>2. CASE e = d
    <3>1. plan'[d] = plan[d] \/ phase'[d] \notin {"Apply", "Publish"}
      BY DEF Goes, D!Apply, D!Publish, D!Prune, D!Save, D!Fail, D!Crash, D!Abandon, Staged
    <3>2. phase'[d] \in {"Apply", "Publish"} => phase[d] \in {"Apply", "Publish"}
      BY DEF Goes, D!Apply, D!Publish, D!Prune, D!Save, D!Fail, D!Crash, D!Abandon, Staged
    <3> QED  BY <2>2, <3>1, <3>2 DEF Coming
  <2> QED  BY <2>1, <2>2
<1>2. CASE D!Publish(d)
  <2>1. D!Plan(d).next \in Coming(d)
    BY <1>2, PlanIn DEF Coming, D!Publish, Staged
  <2>2. There' = There \cup {D!Plan(d).next}
    BY <1>2 DEF D!Publish, There, Staged
  <2> QED  BY <1>1, <1>2, <2>1, <2>2 DEF D!Publish
<1>3. CASE ~D!Publish(d)
  <2>1. files' \subseteq files /\ \A e \in Device : replica'[e] \subseteq replica[e]
    BY <1>3 DEF Goes, D!Apply, D!Prune, D!Save, D!Fail, D!Crash, Staged
  <2>2. There' \subseteq There  BY <2>1 DEF There
  <2> QED  BY <1>1, <2>2
<1> QED  BY <1>2, <1>3

(* Where a version is deleted, another has it among its ancestors.         *)
LEMMA DeletedIsMerged ==
  ASSUME Pruning, NEW d \in Device, Goes(d)
  PROVE  /\ \A v \in files \ files' : \E w \in files' : v.name \in D!Lineage(w)
         /\ \A v \in files : \E w \in files' : D!Lineage(v) \subseteq D!Lineage(w)
<1>1. CASE D!Prune(d)
  <2>1. PICK gone \in {{}, D!Plan(d).old} : files' = {v \in files : v.name \notin gone}
    BY <1>1 DEF D!Prune
  <2>2. phase[d] = "Prune" /\ D!Plan(d) \in plan[d] /\ D!Plan(d).upload
    BY <1>1, PlanIn DEF D!Prune, Pruning, Staged
  <2>3. PICK w \in files : D!Lineage(D!Plan(d).next) \subseteq D!Lineage(w)
    BY <2>2 DEF Pruning, Replaced, Stands
  <2>4. files \subseteq Everywhere  BY DEF Everywhere, There
  <2>5. \A n \in gone : n \in D!Lineage(w) /\ n.seq < D!Plan(d).next.name.seq
    BY <2>1, <2>2, <2>3 DEF Pruning, Replaced, Replaces
  <2>6. w.name \notin gone
    <3>1. D!Plan(d).next.name \in D!Lineage(w)  BY <2>3 DEF D!Lineage
    <3>2. w \in Everywhere  BY <2>4
    <3>3. w.name.seq \in Nat /\ D!Plan(d).next.name.seq \in Nat
          /\ D!Plan(d).next.name.seq <= w.name.seq
      BY <3>1, <3>2 DEF Pruning, Sound, Numbered, D!Lineage, Names
    <3> QED  BY <2>5, <3>3
  <2>7. \A v \in files \ files' : v.name \in D!Lineage(w)  BY <2>1, <2>5
  <2>8. \A v \in files \ files' : D!Lineage(v) \subseteq D!Lineage(w)
    BY <2>4, <2>7 DEF Pruning, Sound, Traced
  <2> QED  BY <2>1, <2>6, <2>7, <2>8
<1>2. CASE ~D!Prune(d)
  <2>1. files \subseteq files'
    BY <1>2 DEF Goes, D!Apply, D!Publish, D!Save, D!Fail, D!Crash
  <2> QED  BY <2>1
<1> QED  BY <1>1, <1>2

(* Deletions of one device do not take away what another one's round       *)
(* rests on.                                                               *)
LEMMA GoesReplaced ==
  ASSUME Pruning, NEW d \in Device, Goes(d)
  PROVE  Replaced'
<1> SUFFICES ASSUME NEW e \in Device
             PROVE  \A p \in plan'[e] :
                      /\ phase'[e] \in {"Apply", "Publish", "Prune"} => Replaces(p)
                      /\ phase'[e] = "Prune" => Stands(p)'
  BY Zenon DEF Replaced, Replaces
<1>1. CASE e # d
  <2>1. plan'[e] = plan[e] /\ phase'[e] = phase[e]  BY <1>1, GoesStaged DEF Pruning
  <2>2. ASSUME phase[e] = "Prune", NEW p \in plan[e] PROVE Stands(p)'
    <3>1. PICK v \in files : D!Lineage(p.next) \subseteq D!Lineage(v)
      BY <2>2 DEF Pruning, Replaced, Stands
    <3>2. PICK w \in files' : D!Lineage(v) \subseteq D!Lineage(w)  BY DeletedIsMerged
    <3> QED  BY <3>1, <3>2 DEF Stands
  <2> QED  BY <2>1, <2>2 DEF Pruning, Replaced
<1>2. CASE e = d
  <2>1. phase'[d] \in {"Apply", "Publish", "Prune"} =>
          plan'[d] = plan[d] /\ phase[d] \in {"Apply", "Publish", "Prune"}
    BY DEF Pruning, Staged, Goes, D!Apply, D!Publish, D!Prune, D!Save, D!Fail, D!Crash,
           D!Abandon
  <2>2. phase'[d] = "Prune" => \A p \in plan[d] : p.next \in files'
    <3> SUFFICES ASSUME phase'[d] = "Prune", NEW p \in plan[d] PROVE p.next \in files'
      OBVIOUS
    <3>1. D!Publish(d)
      BY DEF Pruning, Staged, Goes, D!Apply, D!Prune, D!Save, D!Fail, D!Crash, D!Abandon
    <3>2. p = D!Plan(d)  BY <3>1, PlanIn DEF Pruning, Staged, D!Publish
    <3> QED  BY <3>1, <3>2 DEF D!Publish
  <2> QED  BY <1>2, <2>1, <2>2 DEF Pruning, Replaced, Stands
<1> QED  BY <1>1, <1>2

(* No step after the decision makes a version.                             *)
LEMMA GoesSound ==
  ASSUME Pruning, NEW d \in Device, Goes(d)
  PROVE  Pruning'
<1>1. Everywhere' \subseteq Everywhere
  <2>1. \A e \in Device : Coming(e)' \subseteq Coming(e)  BY GoesFewer DEF Pruning
  <2>2. There' \subseteq Everywhere  BY GoesFewer DEF Pruning, Everywhere
  <2> QED  BY <2>1, <2>2 DEF Everywhere
<1>2. Sound(Everywhere)'
  BY <1>1 DEF Pruning, Sound, Numbered, Traced, Bounded
<1> QED  BY <1>2, GoesStaged, GoesReplaced DEF Pruning

(* What is at the location, and what is to be published, after a decision. *)
LEMMA DecidesStaged ==
  ASSUME Staged, NEW d \in Device, NEW p, NEW ok, NEW names, Decides(d, p, ok, names),
         phase[d] = "Idle"
  PROVE  /\ Staged' /\ phase'[d] \in {"Apply", "Publish", "Save"} /\ plan'[d] = {p}
         /\ \A e \in Device \ {d} : plan'[e] = plan[e] /\ phase'[e] = phase[e]
         /\ There' \subseteq There
         /\ \A e \in Device \ {d} : Coming(e)' = Coming(e)
         /\ Coming(d)' = IF p.upload THEN {p.next} ELSE {}
<1>1. D!After({p}) = IF p.target # p.before THEN "Apply"
                   ELSE IF p.upload THEN "Publish" ELSE "Save"
  BY DEF D!After
<1>2. plan'[d] = {p} /\ phase'[d] = D!After({p}) /\ DOMAIN plan' = Device
  BY DEF Decides, Staged
<1>3. \A e \in Device \ {d} : plan'[e] = plan[e] /\ phase'[e] = phase[e]
  BY DEF Decides, Staged
<1>4. phase' \in [Device -> Phases] /\ DOMAIN replica' = Device
  BY <1>1 DEF Decides, Staged, Phases
<1>5. Staged'
  BY <1>1, <1>2, <1>3, <1>4 DEF Staged
<1>6. There' \subseteq There
  BY DEF There, Decides, Staged
<1>7. \A e \in Device \ {d} : Coming(e)' = Coming(e)
  BY <1>3 DEF Coming
<1>8. Coming(d)' = IF p.upload THEN {p.next} ELSE {}
  BY <1>1, <1>2 DEF Coming
<1> QED  BY <1>1, <1>2, <1>3, <1>5, <1>6, <1>7, <1>8

(* The version that is decided on is fitting.                              *)
LEMMA DecidesFits ==
  ASSUME Pruning, Device \subseteq Nat, NEW d \in Device, NEW p, NEW ok, NEW names,
         Decides(d, p, ok, names), p.upload
  PROVE  Fitting(p.next, ok, names)
<1> DEFINE n == p.next
<1>1. /\ ok \in SUBSET Everywhere /\ ok # {} /\ D!NamesOf(ok) \subseteq names
      /\ names \in SUBSET D!NamesOf(Everywhere)
  BY DEF Decides, Everywhere, D!NamesOf
<1>2. Makes(n, d, ok, names)  BY DEF Decides
<1>3. Sound(Everywhere) /\ d \in Nat  BY DEF Pruning
<1> HIDE DEF n
<1> QED  BY <1>1, <1>2, <1>3, NewVersion DEF n

(* A decision that does not take the name of another version.              *)
LEMMA DecidesSound ==
  ASSUME Pruning, Device \subseteq Nat, NEW d \in Device, NEW p, NEW ok, NEW names,
         Decides(d, p, ok, names), phase[d] = "Idle", "skip" \notin sync_world, Unused'
  PROVE  Pruning'
<1> DEFINE n == p.next
<1>1. CASE ~p.upload
  <2>1. Everywhere' \subseteq Everywhere
    BY <1>1, DecidesStaged DEF Pruning, Everywhere
  <2>2. Sound(Everywhere)'
    BY <2>1 DEF Pruning, Sound, Numbered, Traced, Bounded
  <2>3. Replaced'
    <3> SUFFICES ASSUME NEW e \in Device
                 PROVE  \A q \in plan'[e] :
                          /\ phase'[e] \in {"Apply", "Publish", "Prune"} => Replaces(q)
                          /\ phase'[e] = "Prune" => Stands(q)'
      BY Zenon DEF Replaced, Replaces
    <3>1. files' = files  BY DEF Decides
    <3> QED  BY <1>1, <3>1, DecidesStaged DEF Pruning, Replaced, Replaces, Stands
  <2> QED  BY <2>2, <2>3, DecidesStaged DEF Pruning
<1>2. CASE p.upload
  <2>1. ok \subseteq Everywhere  BY DEF Decides, Everywhere
  <2>2. p.old = D!ToDelete(names \cup {n.name}, ok \cup {n})  BY <1>2 DEF Decides
  <2>3. Fitting(n, ok, names)  BY <1>2, DecidesFits
  <2> USE DEF Fitting
  <2>4. D!Heads(ok) \subseteq Everywhere  BY <2>1 DEF D!Heads
  <2>5. Everywhere' \subseteq Everywhere \cup {n}
    BY <1>2, DecidesStaged DEF Pruning, Everywhere
  <2>6. Coming(d)' = {n} /\ \A v \in Everywhere' : v # n => n.name \notin D!Lineage(v)
    <3>1. Coming(d)' = {n}  BY <1>2, DecidesStaged DEF Pruning
    <3>2. \A v \in There' : n.name \notin D!Lineage(v)
      BY <3>1 DEF Unused
    <3>3. \A e \in Device \ {d} : \A v \in Coming(e)' : n.name \notin D!Lineage(v)
      BY <3>1 DEF Unused
    <3> QED  BY <3>1, <3>2, <3>3 DEF Everywhere
  <2>7. Numbered(Everywhere')
    BY <2>3, <2>5 DEF Pruning, Sound, Numbered
  <2>8. Bounded(Everywhere')
    <3>1. PICK k \in Nat : \A v \in Everywhere : v.name.seq <= k /\ v.name.dev <= k
      BY DEF Pruning, Sound, Bounded
    <3>2. n.name.seq \in Nat /\ n.name.dev \in Nat  BY <2>3 DEF Names
    <3>3. \A v \in Everywhere : v.name.seq \in Nat /\ v.name.dev \in Nat
      BY DEF Pruning, Sound, Numbered, Names
    <3> DEFINE l == k + n.name.seq + n.name.dev
    <3>4. l \in Nat /\ \A v \in Everywhere \cup {n} : v.name.seq <= l /\ v.name.dev <= l
      <4> HIDE DEF n
      <4> QED  BY <3>1, <3>2, <3>3
    <3> QED  BY <2>5, <3>4 DEF Bounded
  <2>9. Traced(Everywhere')
    <3> SUFFICES ASSUME NEW v \in Everywhere', NEW w \in Everywhere',
                        w.name \in D!Lineage(v)
                 PROVE  D!Lineage(w) \subseteq D!Lineage(v)
      BY DEF Traced
    <3>1. CASE v # n /\ w # n  BY <2>5, <3>1 DEF Pruning, Sound, Traced
    <3>2. CASE v # n /\ w = n  BY <2>6, <3>2
    <3>3. CASE v = n /\ w = n  BY <3>3
    <3>4. CASE v = n /\ w # n
      <4>1. w.name # n.name  BY <2>6, <3>4 DEF D!Lineage
      <4>2. PICK h \in D!Heads(ok) : w.name \in D!Lineage(h)  BY <2>3, <3>4, <4>1
      <4>3. D!Lineage(w) \subseteq D!Lineage(h)
        BY <2>4, <2>5, <3>4, <4>2 DEF Pruning, Sound, Traced
      <4> QED  BY <2>3, <3>4, <4>3
    <3> QED  BY <3>1, <3>2, <3>3, <3>4
  <2>10. Replaced'
    <3> SUFFICES ASSUME NEW e \in Device
                 PROVE  \A q \in plan'[e] :
                          /\ phase'[e] \in {"Apply", "Publish", "Prune"} => Replaces(q)
                          /\ phase'[e] = "Prune" => Stands(q)'
      BY Zenon DEF Replaced, Replaces
    <3>1. files' = files  BY DEF Decides
    <3>2. CASE e # d  BY <3>1, <3>2, DecidesStaged DEF Pruning, Replaced, Stands
    <3>3. CASE e = d
      <4>1. plan'[d] = {p} /\ phase'[d] # "Prune"  BY DecidesStaged DEF Pruning
      <4>2. Replaces(p)  BY <2>2, <2>3 DEF Replaces
      <4> QED  BY <3>3, <4>1, <4>2
    <3> QED  BY <3>2, <3>3
  <2>11. Sound(Everywhere)'  BY <2>7, <2>8, <2>9 DEF Sound
  <2> QED  BY <2>10, <2>11, DecidesStaged DEF Pruning
<1> QED  BY <1>1, <1>2

(* Without a cloud drive between: nothing is numbered above the files, but *)
(* for what is still to be published, which its device has named.          *)
Reached ==
  /\ \A v \in There : \A m \in D!Lineage(v) : \E f \in files : m.seq <= f.name.seq
  /\ \A d \in Device : \A n \in Coming(d) :
       /\ n.name.dev = d
       /\ \A m \in n.parents \cup n.history : \E f \in files : m.seq <= f.name.seq

(* No two versions at the location have one name.                          *)
Distinct == \A v, w \in files : v.name = w.name => v = w

(* A name that is new stays so until it is published, whatever others      *)
(* publish.                                                                *)
LEMMA GoesUnused ==
  ASSUME Pruning, Unused, NEW d \in Device, Goes(d)
  PROVE  Unused'
<1> SUFFICES ASSUME NEW e \in Device, NEW n \in Coming(e)'
             PROVE  /\ \A v \in There' : n.name \notin D!Lineage(v)
                    /\ \A x \in Device \ {e} : \A v \in Coming(x)' : n.name \notin D!Lineage(v)
  BY Zenon DEF Unused
<1>1. n \in Coming(e) /\ \A x \in Device : Coming(x)' \subseteq Coming(x)
  BY GoesFewer DEF Pruning
<1>2. CASE There' \subseteq There  BY <1>1, <1>2 DEF Unused
<1>3. CASE /\ phase[d] = "Publish" /\ D!Plan(d).next \in Coming(d)
           /\ There' = There \cup {D!Plan(d).next}
  <2>1. e # d
    <3>1. Coming(d)' = {}
      BY <1>3
      DEF Goes, D!Apply, D!Publish, D!Prune, D!Save, D!Fail, D!Crash, D!Abandon,
          Coming, Pruning, Staged
    <3> QED  BY <3>1
  <2>2. n.name \notin D!Lineage(D!Plan(d).next)  BY <1>1, <1>3, <2>1 DEF Unused
  <2> QED  BY <1>1, <1>3, <2>2 DEF Unused
<1> QED  BY <1>2, <1>3, GoesFewer DEF Pruning

(* The numbers of what is deleted are below those of what stays.           *)
LEMMA GoesReached ==
  ASSUME Pruning, Reached, NEW d \in Device, Goes(d)
  PROVE  Reached'
<1>1. ASSUME NEW f \in files PROVE \E g \in files' : f.name.seq <= g.name.seq
  <2>1. PICK g \in files' : D!Lineage(f) \subseteq D!Lineage(g)  BY DeletedIsMerged
  <2>2. f.name \in D!Lineage(g)  BY <2>1 DEF D!Lineage
  <2>3. g \in Everywhere' /\ Numbered(Everywhere')
    BY GoesSound DEF Pruning, Sound, Everywhere, There
  <2> QED  BY <2>2, <2>3 DEF Numbered, D!Lineage, Names
<1>2. ASSUME NEW m \in Names, \E f \in files : m.seq <= f.name.seq
      PROVE  \E f \in files' : m.seq <= f.name.seq
  <2>1. PICK f \in files : m.seq <= f.name.seq  BY <1>2
  <2>2. PICK g \in files' : f.name.seq <= g.name.seq  BY <1>1
  <2>3. f \in Everywhere /\ g \in Everywhere'  BY DEF Everywhere, There
  <2>4. f.name.seq \in Nat /\ g.name.seq \in Nat /\ m.seq \in Nat
    BY <2>3, GoesSound DEF Pruning, Sound, Numbered, Names
  <2> QED  BY <2>1, <2>2, <2>4
<1>3. \A v \in Everywhere : D!Lineage(v) \subseteq Names
  BY DEF Pruning, Sound, Numbered, D!Lineage
<1>4. ASSUME NEW e \in Device, NEW n \in Coming(e)
      PROVE  /\ n.name.dev = e
             /\ \A m \in n.parents \cup n.history : \E f \in files' : m.seq <= f.name.seq
  <2>1. n \in Everywhere  BY DEF Everywhere
  <2>2. \A m \in n.parents \cup n.history : m \in Names  BY <1>3, <2>1 DEF D!Lineage
  <2> QED  BY <1>2, <2>2 DEF Reached
<1>5. ASSUME NEW v \in There, NEW m \in D!Lineage(v)
      PROVE  \E f \in files' : m.seq <= f.name.seq
  <2>1. m \in Names  BY <1>3 DEF Everywhere
  <2> QED  BY <1>2, <2>1 DEF Reached
<1>6. ASSUME NEW v \in There', NEW m \in D!Lineage(v)
      PROVE  \E f \in files' : m.seq <= f.name.seq
  <2>1. CASE v \in There  BY <1>5, <2>1
  <2>2. CASE v \notin There
    <3>1. v = D!Plan(d).next /\ v \in Coming(d) /\ phase[d] = "Publish"
      BY <2>2, GoesFewer DEF Pruning
    <3>2. CASE m = v.name
      <4>1. v \in files'
        BY <2>2, <3>1
        DEF Goes, D!Apply, D!Publish, D!Prune, D!Save, D!Fail, D!Crash, There,
            Pruning, Staged
      <4>2. m.seq \in Nat  BY <1>6, <1>3, <3>1 DEF Everywhere, Names
      <4> QED  BY <3>2, <4>1, <4>2
    <3>3. CASE m # v.name  BY <1>4, <3>1, <3>3 DEF D!Lineage
    <3> QED  BY <3>2, <3>3
  <2> QED  BY <2>1, <2>2
<1>7. \A e \in Device : Coming(e)' \subseteq Coming(e)  BY GoesFewer DEF Pruning
<1> QED  BY <1>4, <1>6, <1>7 DEF Reached

(* A version is published under a name that is new.                        *)
LEMMA GoesDistinct ==
  ASSUME Pruning, Unused, Distinct, NEW d \in Device, Goes(d)
  PROVE  Distinct'
<1>1. CASE D!Publish(d)
  <2>1. D!Plan(d).next \in Coming(d)  BY <1>1, PlanIn DEF Coming, D!Publish, Pruning, Staged
  <2>2. \A v \in files : v.name # D!Plan(d).next.name
    BY <2>1 DEF Unused, There, D!Lineage
  <2> QED  BY <1>1, <2>2 DEF D!Publish, Distinct
<1>2. CASE ~D!Publish(d)
  <2>1. files' \subseteq files  BY <1>2 DEF Goes, D!Apply, D!Prune, D!Save, D!Fail, D!Crash
  <2> QED  BY <2>1 DEF Distinct
<1> QED  BY <1>1, <1>2

(* Without a cloud drive between, a number above all files is above all    *)
(* lineages, and the rounds of other devices have other names.             *)
LEMMA DecidesUnused ==
  ASSUME Pruning, Unused, Reached, AllSeen, Device \subseteq Nat,
         NEW d \in Device, NEW p, NEW ok, NEW names, Decides(d, p, ok, names),
         phase[d] = "Idle"
  PROVE  Unused' /\ Reached'
<1> DEFINE n == p.next
<1>1. /\ There' \subseteq There /\ files' = files
      /\ \A e \in Device \ {d} : Coming(e)' = Coming(e)
      /\ Coming(d)' = IF p.upload THEN {n} ELSE {}
  <2>1. files' = files  BY DEF Decides
  <2> HIDE DEF n
  <2>2. n = p.next  BY DEF n
  <2>3. /\ There' \subseteq There
        /\ \A e \in Device \ {d} : Coming(e)' = Coming(e)
        /\ Coming(d)' = IF p.upload THEN {p.next} ELSE {}
    BY DecidesStaged DEF Pruning
  <2> QED  BY <2>1, <2>2, <2>3
<1>2. ok = files /\ names = D!NamesOf(files)  BY DEF Decides
<1>3. ASSUME p.upload
      PROVE  /\ n.name.dev = d
             /\ \A m \in n.parents \cup n.history : \E h \in files : m \in D!Lineage(h)
             /\ \A f \in files : ~(n.name.seq <= f.name.seq)
  <2>1. Fitting(n, ok, names)  BY <1>3, DecidesFits
  <2>2. n.name.dev = d  BY <1>3 DEF Decides, Makes
  <2>3. \A m \in n.parents \cup n.history : \E h \in files : m \in D!Lineage(h)
    BY <1>2, <2>1 DEF Fitting, D!Heads
  <2>4. ASSUME NEW f \in files PROVE ~(n.name.seq <= f.name.seq)
    <3>1. f.name \in Names /\ n.name \in Names /\ f.name.seq < n.name.seq
      BY <1>2, <2>1 DEF Fitting, D!NamesOf, Pruning, Sound, Numbered, Everywhere, There
    <3> QED  BY <3>1 DEF Names
  <2> QED  BY <2>2, <2>3, <2>4
<1> HIDE DEF n
<1>4. files \subseteq There  BY DEF There
<1>5. ASSUME p.upload, NEW v \in There PROVE n.name \notin D!Lineage(v)
  BY <1>3, <1>5 DEF Reached
<1>6. ASSUME p.upload, NEW e \in Device \ {d}, NEW v \in Coming(e)
      PROVE  n.name \notin D!Lineage(v) /\ v.name \notin D!Lineage(n)
  <2>1. v.name.dev = e /\ v.name # n.name  BY <1>3, <1>6 DEF Reached
  <2>2. n.name \notin D!Lineage(v)  BY <1>3, <1>6, <2>1 DEF Reached, D!Lineage
  <2>3. v.name \notin D!Lineage(n)  BY <1>3, <1>4, <1>6, <2>1 DEF Unused, D!Lineage
  <2> QED  BY <2>2, <2>3
<1>7. Unused'
  <2> SUFFICES ASSUME NEW e \in Device, NEW w \in Coming(e)'
               PROVE  /\ \A v \in There' : w.name \notin D!Lineage(v)
                      /\ \A x \in Device \ {e} : \A v \in Coming(x)' : w.name \notin D!Lineage(v)
    BY Zenon DEF Unused
  <2>1. CASE e = d
    <3>1. w = n /\ p.upload  BY <1>1, <2>1
    <3> QED  BY <1>1, <1>5, <1>6, <2>1, <3>1
  <2>2. CASE e # d
    <3>1. w \in Coming(e)  BY <1>1, <2>2
    <3>2. \A v \in There' : w.name \notin D!Lineage(v)  BY <1>1, <3>1 DEF Unused
    <3>3. \A v \in Coming(d)' : w.name \notin D!Lineage(v)  BY <1>1, <1>6, <2>2, <3>1
    <3>4. \A x \in Device \ {e, d} : \A v \in Coming(x)' : w.name \notin D!Lineage(v)
      BY <1>1, <3>1 DEF Unused
    <3> QED  BY <3>2, <3>3, <3>4
  <2> QED  BY <2>1, <2>2
<1>8. Reached'
  <2>1. \A v \in There' : \A m \in D!Lineage(v) : \E f \in files' : m.seq <= f.name.seq
    BY <1>1 DEF Reached
  <2>2. ASSUME NEW e \in Device, NEW w \in Coming(e)'
        PROVE  /\ w.name.dev = e
               /\ \A m \in w.parents \cup w.history : \E f \in files' : m.seq <= f.name.seq
    <3>1. CASE e = d  BY <1>1, <1>3, <1>4, <2>2, <3>1 DEF Reached
    <3>2. CASE e # d
      <4>1. w \in Coming(e) /\ files' = files  BY <1>1, <2>2, <3>2
      <4> QED  BY <4>1 DEF Reached
    <3> QED  BY <3>1, <3>2
  <2> QED  BY <2>1, <2>2 DEF Reached
<1> QED  BY <1>7, <1>8

(* The one version that all start from.                                    *)
LEMMA StartSound ==
  ASSUME D!DeviceAssumption, D!Init, NEW d \in Device
  PROVE  Pruning /\ Unused /\ Reached /\ Distinct
<1> DEFINE least == CHOOSE e \in Device : \A x \in Device : e <= x
           v == [name |-> [seq |-> 1, dev |-> least],
                 parents |-> {}, history |-> {}, conflicts |-> <<>>, snap |-> First]
<1>1. /\ files = {v} /\ replica = [e \in Device |-> {v}]
      /\ v.name = [seq |-> 1, dev |-> least] /\ v.parents = {} /\ v.history = {}
  BY DEF D!Init
<1> HIDE DEF v
<1>2. v.name \in Names
  <2>1. \E e \in Device : \A x \in Device : e <= x  BY SmallestOf DEF D!DeviceAssumption
  <2>2. least \in Nat  BY <2>1 DEF D!DeviceAssumption
  <2> HIDE DEF least
  <2> QED  BY <1>1, <2>2 DEF Names
<1>3. phase = [e \in Device |-> "Idle"] /\ plan = [e \in Device |-> {}]  BY DEF D!Init
<1>4. Everywhere = {v} /\ There = {v} /\ \A e \in Device : Coming(e) = {}
  BY <1>1, <1>3 DEF Everywhere, There, Coming
<1>5. D!Lineage(v) = {v.name}  BY <1>1 DEF D!Lineage
<1>6. Sound(Everywhere)
  <2>1. v.name.seq \in Nat /\ v.name.dev \in Nat  BY <1>2 DEF Names
  <2>2. Bounded({v})
    <3> DEFINE k == v.name.seq + v.name.dev
    <3>1. k \in Nat /\ v.name.seq <= k /\ v.name.dev <= k  BY <2>1
    <3> QED  BY <3>1 DEF Bounded
  <2>3. Numbered({v}) /\ Traced({v})  BY <1>1, <1>2 DEF Numbered, Traced
  <2> QED  BY <1>4, <2>2, <2>3 DEF Sound
<1>7. Staged /\ Replaced  BY <1>1, <1>3 DEF Staged, Replaced, Phases
<1>8. Reached
  <2>1. v.name.seq <= v.name.seq  BY <1>2 DEF Names
  <2> QED  BY <1>1, <1>4, <1>5, <2>1 DEF Reached
<1>9. Unused /\ Distinct  BY <1>1, <1>4 DEF Unused, Distinct
<1> QED  BY <1>6, <1>7, <1>8, <1>9 DEF Pruning

(* A step is one of a round, or changes neither versions nor rounds: users *)
(* edit, or nobody moves.                                                  *)
LEMMA StepKinds ==
  ASSUME [D!Next]_(D!vars)
  PROVE  \/ \E d \in Device : D!Round(d) \/ Goes(d)
         \/ UNCHANGED <<sync_world, files, replica, phase, plan>>
BY DEF D!Next, D!Step, Goes, D!Edit, D!vars

(* What may happen stays so.                                               *)
LEMMA SyncWorldStays == ASSUME [D!Next]_(D!vars) PROVE sync_world' = sync_world
BY DEF D!Next, D!Step, D!Round, D!Apply, D!Publish, D!Prune, D!Save, D!Fail, D!Crash, D!Edit,
       D!vars

(* Where neither versions nor rounds change, nothing changes.              *)
LEMMA RestSound ==
  ASSUME UNCHANGED <<sync_world, files, replica, phase, plan>>
  PROVE  /\ Pruning => Pruning'
         /\ Unused => Unused'
         /\ Reached => Reached'
         /\ Distinct => Distinct'
<1>1. There' = There /\ Everywhere' = Everywhere /\ \A d \in Device : Coming(d)' = Coming(d)
  BY DEF There, Everywhere, Coming
<1>2. Staged => Staged'  BY DEF Staged
<1>3. Replaced => Replaced'  BY DEF Replaced, Replaces, Stands
<1>4. Sound(Everywhere) => Sound(Everywhere)'  BY <1>1 DEF Sound, Numbered, Traced, Bounded
<1>5. Unused => Unused'  BY <1>1 DEF Unused
<1>6. Reached => Reached'  BY <1>1 DEF Reached
<1> QED  BY <1>2, <1>3, <1>4, <1>5, <1>6 DEF Pruning, Distinct

(* Any step, as long as names are new.                                     *)
LEMMA NextSound ==
  ASSUME D!DeviceAssumption, Pruning, "skip" \notin sync_world, [D!Next]_(D!vars), Unused'
  PROVE  /\ Pruning'
         /\ \A v \in files \ files' : \E w \in files' : v.name \in D!Lineage(w)
<1>1. CASE \E d \in Device : D!Round(d)
  <2>1. PICK d \in Device : D!Round(d)  BY <1>1
  <2>2. PICK p, ok, names : Decides(d, p, ok, names)
    BY <2>1, RoundDecides DEF Pruning, Staged
  <2>3. phase[d] = "Idle" /\ files' = files
    BY <2>1, <2>2, RoundDecides DEF Pruning, Staged, Decides
  <2> QED  BY <2>2, <2>3, DecidesSound DEF D!DeviceAssumption
<1>2. CASE \E d \in Device : Goes(d)  BY <1>2, GoesSound, DeletedIsMerged
<1>3. CASE UNCHANGED <<sync_world, files, replica, phase, plan>>  BY <1>3, RestSound
<1> QED  BY <1>1, <1>2, <1>3, StepKinds

(* Any step without a cloud drive.                                         *)
LEMMA NextNew ==
  ASSUME D!DeviceAssumption, Pruning, Unused, Reached, Distinct,
         AllSeen, [D!Next]_(D!vars)
  PROVE  Pruning' /\ Unused' /\ Reached' /\ Distinct'
<1>1. Unused' /\ Reached' /\ Distinct'
  <2>1. CASE \E d \in Device : D!Round(d)
    <3>1. PICK d \in Device : D!Round(d)  BY <2>1
    <3>2. PICK p, ok, names : Decides(d, p, ok, names)
      BY <3>1, RoundDecides DEF Pruning, Staged
    <3>3. phase[d] = "Idle" /\ files' = files
      BY <3>1, <3>2, RoundDecides DEF Pruning, Staged, Decides
    <3> QED  BY <3>2, <3>3, DecidesUnused DEF D!DeviceAssumption, Distinct
  <2>2. CASE \E d \in Device : Goes(d)
    BY <2>2, GoesUnused, GoesReached, GoesDistinct
  <2>3. CASE UNCHANGED <<sync_world, files, replica, phase, plan>>  BY <2>3, RestSound
  <2> QED  BY <2>1, <2>2, <2>3, StepKinds
<1> QED  BY <1>1, NextSound DEF AllSeen

(* No device skips files; and none misses any.                             *)
Patient == \A w \in SyncWorlds : "skip" \notin w
Steady  == \A w \in SyncWorlds : "skip" \notin w /\ "lag" \notin w

(* Without a device nothing happens.                                       *)
LEMMA NoDevice == ASSUME Device = {}, [D!Next]_(D!vars) PROVE files' = files /\ phase' = phase
BY DEF D!Next, D!vars

(* Where no cloud drive carries the files, no version ever takes the name  *)
(* of another: next_seq counts on from all that are listed.                *)
THEOREM NamesAreNew ==
  ASSUME D!DeviceAssumption, Steady
  PROVE  D!Spec => [](Unused /\ Distinct)
<1>1. CASE Device = {}
  <2>1. Unused  BY <1>1 DEF Unused
  <2>2. D!Init => Distinct  BY DEF D!Init, Distinct
  <2>3. Distinct /\ [D!Next]_(D!vars) => Distinct'  BY <1>1, NoDevice DEF Distinct
  <2> QED  BY <2>1, <2>2, <2>3, PTL DEF D!Spec
<1>2. CASE Device # {}
  <2> DEFINE New == Pruning /\ Unused /\ Reached /\ Distinct /\ AllSeen
  <2>1. D!Init => New
    <3> SUFFICES ASSUME D!Init PROVE New  OBVIOUS
    <3>1. PICK d \in Device : TRUE  BY <1>2
    <3>2. AllSeen  BY DEF D!Init, Steady, AllSeen
    <3> QED  BY <3>2, StartSound
  <2>2. New /\ [D!Next]_(D!vars) => New'
    <3> SUFFICES ASSUME New, [D!Next]_(D!vars) PROVE New'  OBVIOUS
    <3> QED  BY NextNew, SyncWorldStays DEF AllSeen
  <2>3. New => Unused /\ Distinct  OBVIOUS
  <2> HIDE DEF New
  <2> QED  BY <2>1, <2>2, <2>3, PTL DEF D!Spec
<1> QED  BY <1>1, <1>2

(* Pruning takes away nothing that is not merged (to_delete), as long as   *)
(* devices wait for the files that they cannot read (scan), and no device  *)
(* takes a name that another version has: D!UnreadStay is what layout.rs   *)
(* says, without an exception for worlds in which files are skipped.       *)
THEOREM MergedBeforePruned ==
  ASSUME D!DeviceAssumption, Patient
  PROVE  D!Spec /\ []Unused => D!UnreadStay
<1> DEFINE Superseded == \A v \in files \ files' : \E w \in files' : v.name \in D!Lineage(w)
<1>1. D!Spec /\ []Unused => [][Superseded]_(D!vars)
  <2>1. CASE Device = {}
    <3>1. [D!Next]_(D!vars) => Superseded  BY <2>1, NoDevice
    <3> HIDE DEF Superseded
    <3> QED  BY <3>1, PTL DEF D!Spec
  <2>2. CASE Device # {}
    <3> DEFINE Inv == Pruning /\ "skip" \notin sync_world
    <3>1. D!Init => Inv
      <4>1. PICK d \in Device : TRUE  BY <2>2
      <4> QED  BY <4>1, StartSound DEF D!Init, Patient
    <3>2. Inv /\ Unused' /\ [D!Next]_(D!vars) => Inv' /\ Superseded
      BY NextSound, SyncWorldStays
    <3> HIDE DEF Inv
    <3> HIDE DEF Superseded
    <3> QED  BY <3>1, <3>2, PTL DEF D!Spec
  <2> QED  BY <2>1, <2>2
<1>2. Superseded <=> ~D!Unmerged  BY DEF D!Unmerged
<1> HIDE DEF Superseded
<1> QED  BY <1>1, <1>2, PTL DEF D!UnreadStay

(* At one location that all devices see as it is, they do not: pruning is  *)
(* safe however rounds overlap, fail and crash.                            *)
THEOREM PruningIsSafe ==
  ASSUME D!DeviceAssumption, Steady
  PROVE  D!Spec => D!UnreadStay
<1>1. Patient  BY DEF Steady, Patient
<1> QED  BY <1>1, NamesAreNew, MergedBeforePruned, PTL

-----------------------------------------------------------------------------
(* Numbers at the location, whatever devices miss or skip.                 *)

(* What a round wants to go has lower numbers than what it publishes, and  *)
(* when it goes, a number as high is at the location.                      *)
Lower ==
  \A d \in Device : \A p \in plan[d] :
    /\ phase[d] \in {"Apply", "Publish", "Prune"} /\ p.upload =>
         p.next.name.seq \in Nat /\ \A n \in p.old : n.seq < p.next.name.seq
    /\ phase[d] = "Prune" => \E f \in files : p.next.name.seq <= f.name.seq

Counting == Staged /\ Numbered(Everywhere) /\ Bounded(Everywhere) /\ Lower

(* What is skipped and goes is older than all that is kept, and so than    *)
(* the new version.                                                        *)
LEMMA DoomedIsLower ==
  ASSUME NEW S, Numbered(S), Bounded(S), NEW ok \in SUBSET S, ok # {},
         NEW names \in SUBSET D!NamesOf(S), D!NamesOf(ok) \subseteq names, NEW d \in Nat,
         NEW n, Makes(n, d, ok, names), NEW skip,
         NEW x \in D!Doomed(names \cup {n.name}, ok \cup {n}, skip)
  PROVE  x.seq < n.name.seq
<1> DEFINE old == D!ToDelete(names \cup {n.name}, ok \cup {n})
<1>1. /\ n.name \in Names
      /\ \A h \in ok : \A m \in D!Lineage(h) : m.seq < n.name.seq
      /\ \A m \in n.parents \cup n.history : \E h \in D!Heads(ok) : m \in D!Lineage(h)
  BY NewNumber
<1>2. ASSUME NEW y \in old PROVE y.seq < n.name.seq
  <2>1. PICK v \in ok \cup {n} : y \in v.parents  BY <1>2, ToDeleteIsAbove
  <2>2. CASE v = n  BY <1>1, <2>1, <2>2 DEF D!Heads
  <2>3. CASE v \in ok  BY <1>1, <2>1, <2>3 DEF D!Lineage
  <2> QED  BY <2>2, <2>3
<1> HIDE DEF old
<1>3. n.name \in (names \cup {n.name}) \ old  BY <1>1, <1>2 DEF Names
<1>4. x \in old \cup D!Below(skip, (names \cup {n.name}) \ old)  BY DEF D!Doomed, old
<1> QED  BY <1>2, <1>3, <1>4 DEF D!Below

(* A deletion leaves a number as high as any that it takes away.           *)
LEMMA GoesGrows ==
  ASSUME Counting, NEW d \in Device, Goes(d)
  PROVE  \A v \in files : \E w \in files' : v.name.seq <= w.name.seq
<1>1. \A v \in files : v.name.seq \in Nat
  BY DEF Counting, Numbered, Everywhere, There, Names
<1>2. CASE D!Prune(d)
  <2>1. PICK gone \in {{}, D!Plan(d).old} : files' = {v \in files : v.name \notin gone}
    BY <1>2 DEF D!Prune
  <2>2. phase[d] = "Prune" /\ D!Plan(d) \in plan[d] /\ D!Plan(d).upload
    BY <1>2, PlanIn DEF D!Prune, Counting, Staged
  <2>3. PICK w \in files : D!Plan(d).next.name.seq <= w.name.seq
    BY <2>2 DEF Counting, Lower
  <2>4. D!Plan(d).next.name.seq \in Nat /\ \A n \in gone : n.seq < D!Plan(d).next.name.seq
    BY <2>1, <2>2 DEF Counting, Lower
  <2>5. w \in files'  BY <1>1, <2>1, <2>3, <2>4
  <2>6. \A v \in files \ files' : v.name.seq <= w.name.seq  BY <1>1, <2>1, <2>3, <2>4
  <2> QED  BY <1>1, <2>5, <2>6
<1>3. CASE ~D!Prune(d)
  <2>1. files \subseteq files'
    BY <1>3 DEF Goes, D!Apply, D!Publish, D!Save, D!Fail, D!Crash
  <2> QED  BY <1>1, <2>1
<1> QED  BY <1>2, <1>3

LEMMA GoesCounting ==
  ASSUME Counting, NEW d \in Device, Goes(d)
  PROVE  Counting'
<1>1. Everywhere' \subseteq Everywhere
  <2>1. \A e \in Device : Coming(e)' \subseteq Coming(e)  BY GoesFewer DEF Counting
  <2>2. There' \subseteq Everywhere  BY GoesFewer DEF Counting, Everywhere
  <2> QED  BY <2>1, <2>2 DEF Everywhere
<1>2. Numbered(Everywhere)' /\ Bounded(Everywhere)'
  BY <1>1 DEF Counting, Numbered, Bounded
<1>3. ASSUME NEW e \in Device, NEW p \in plan'[e]
      PROVE  /\ phase'[e] \in {"Apply", "Publish", "Prune"} /\ p.upload =>
                  p.next.name.seq \in Nat /\ \A n \in p.old : n.seq < p.next.name.seq
             /\ phase'[e] = "Prune" => \E f \in files' : p.next.name.seq <= f.name.seq
  <2>1. CASE e # d
    <3>1. plan'[e] = plan[e] /\ phase'[e] = phase[e]  BY <2>1, GoesStaged DEF Counting
    <3>2. ASSUME phase[e] = "Prune"
          PROVE  \E f \in files' : p.next.name.seq <= f.name.seq
      <4>1. p \in plan[e] /\ p.upload /\ p.next.name.seq \in Nat
        BY <1>3, <3>1, <3>2 DEF Counting, Staged, Lower
      <4>2. PICK v \in files : p.next.name.seq <= v.name.seq
        BY <3>2, <4>1 DEF Counting, Lower
      <4>3. PICK w \in files' : v.name.seq <= w.name.seq  BY GoesGrows
      <4>4. v.name.seq \in Nat  BY DEF Counting, Numbered, Everywhere, There, Names
      <4>5. w.name.seq \in Nat  BY <1>2 DEF Numbered, Everywhere, There, Names
      <4> QED  BY <4>1, <4>2, <4>3, <4>4, <4>5
    <3> QED  BY <1>3, <3>1, <3>2 DEF Counting, Lower
  <2>2. CASE e = d
    <3>1. phase'[d] \in {"Apply", "Publish", "Prune"} =>
            plan'[d] = plan[d] /\ phase[d] \in {"Apply", "Publish", "Prune"}
      BY DEF Counting, Staged, Goes, D!Apply, D!Publish, D!Prune, D!Save, D!Fail, D!Crash,
             D!Abandon
    <3>2. ASSUME phase'[d] = "Prune" PROVE \E f \in files' : p.next.name.seq <= f.name.seq
      <4>1. D!Publish(d)
        BY <3>2 DEF Counting, Staged, Goes, D!Apply, D!Prune, D!Save, D!Fail, D!Crash,
                    D!Abandon
      <4>2. p = D!Plan(d) /\ p.upload
        BY <1>3, <2>2, <3>1, <3>2, <4>1, PlanIn DEF Counting, Staged, D!Publish
      <4>3. p.next.name.seq \in Nat
        BY <1>3, <2>2, <3>1, <3>2, <4>2 DEF Counting, Lower
      <4> QED  BY <4>1, <4>2, <4>3 DEF D!Publish
    <3> QED  BY <1>3, <2>2, <3>1, <3>2 DEF Counting, Lower
  <2> QED  BY <2>1, <2>2
<1>4. Lower'  BY <1>3 DEF Lower
<1> QED  BY <1>2, <1>4, GoesStaged DEF Counting

LEMMA DecidesCounting ==
  ASSUME Counting, Device \subseteq Nat, NEW d \in Device, NEW p, NEW ok, NEW names,
         Decides(d, p, ok, names), phase[d] = "Idle"
  PROVE  Counting'
<1> DEFINE n == p.next
<1>1. /\ Staged' /\ phase'[d] # "Prune" /\ plan'[d] = {p} /\ files' = files
      /\ \A e \in Device \ {d} : plan'[e] = plan[e] /\ phase'[e] = phase[e]
      /\ Everywhere' \subseteq Everywhere \cup (IF p.upload THEN {n} ELSE {})
  <2> HIDE DEF n
  <2>1. files' = files  BY DEF Decides
  <2>2. /\ Staged' /\ phase'[d] \in {"Apply", "Publish", "Save"} /\ plan'[d] = {p}
        /\ \A e \in Device \ {d} : plan'[e] = plan[e] /\ phase'[e] = phase[e]
        /\ There' \subseteq There
        /\ \A e \in Device \ {d} : Coming(e)' = Coming(e)
        /\ Coming(d)' = IF p.upload THEN {n} ELSE {}
    BY DecidesStaged DEF Counting, n
  <2> QED  BY <2>1, <2>2 DEF Everywhere
<1>2. ASSUME p.upload
      PROVE  /\ n.name \in Names /\ \A x \in p.old : x.seq < n.name.seq
             /\ \A m \in n.parents \cup n.history : m \in Names /\ m.seq < n.name.seq
  <2>1. /\ ok \in SUBSET Everywhere /\ ok # {} /\ D!NamesOf(ok) \subseteq names
        /\ names \in SUBSET D!NamesOf(Everywhere)
    BY DEF Decides, Everywhere, D!NamesOf
  <2>2. Makes(n, d, ok, names) /\ d \in Nat  BY <1>2 DEF Decides
  <2>3. Numbered(Everywhere) /\ Bounded(Everywhere)  BY DEF Counting
  <2>4. PICK skip : p.old = D!Doomed(names \cup {n.name}, ok \cup {n}, skip)
    BY <1>2 DEF Decides
  <2> HIDE DEF n
  <2>5. \A x \in p.old : x.seq < n.name.seq
    BY <2>1, <2>2, <2>3, <2>4, DoomedIsLower
  <2>6. /\ n.name \in Names
        /\ \A h \in ok : \A m \in D!Lineage(h) : m \in Names /\ m.seq < n.name.seq
        /\ \A m \in n.parents \cup n.history : \E h \in D!Heads(ok) : m \in D!Lineage(h)
    BY <2>1, <2>2, <2>3, NewNumber
  <2> QED  BY <2>5, <2>6 DEF D!Heads
<1> HIDE DEF n
<1>3. Numbered(Everywhere)'  BY <1>1, <1>2 DEF Counting, Numbered
<1>4. Bounded(Everywhere)'
  <2>1. PICK k \in Nat : \A v \in Everywhere : v.name.seq <= k /\ v.name.dev <= k
    BY DEF Counting, Bounded
  <2>2. \A v \in Everywhere : v.name.seq \in Nat /\ v.name.dev \in Nat
    BY DEF Counting, Numbered, Names
  <2>3. CASE ~p.upload  BY <1>1, <2>1, <2>3 DEF Bounded
  <2>4. CASE p.upload
    <3>1. n.name.seq \in Nat /\ n.name.dev \in Nat  BY <1>2, <2>4 DEF Names
    <3> DEFINE l == k + n.name.seq + n.name.dev
    <3>2. l \in Nat /\ \A v \in Everywhere \cup {n} : v.name.seq <= l /\ v.name.dev <= l
      BY <2>1, <2>2, <3>1
    <3> QED  BY <1>1, <2>4, <3>2 DEF Bounded
  <2> QED  BY <2>3, <2>4
<1>5. Lower'
  <2>1. ASSUME NEW e \in Device \ {d}, NEW q \in plan'[e]
        PROVE  /\ phase'[e] \in {"Apply", "Publish", "Prune"} /\ q.upload =>
                    q.next.name.seq \in Nat /\ \A x \in q.old : x.seq < q.next.name.seq
               /\ phase'[e] = "Prune" => \E f \in files' : q.next.name.seq <= f.name.seq
    BY <1>1 DEF Counting, Lower
  <2>2. p.upload => n.name.seq \in Nat /\ \A x \in p.old : x.seq < n.name.seq
    BY <1>2 DEF Names
  <2> QED  BY <1>1, <2>1, <2>2 DEF Lower, n
<1> QED  BY <1>1, <1>3, <1>4, <1>5 DEF Counting

LEMMA NextCounting ==
  ASSUME D!DeviceAssumption, Counting, [D!Next]_(D!vars)
  PROVE  /\ Counting'
         /\ \A v \in files : \E w \in files' : v.name.seq <= w.name.seq
<1>1. \A v \in files : v.name.seq \in Nat
  BY DEF Counting, Numbered, Everywhere, There, Names
<1>2. CASE \E d \in Device : D!Round(d)
  <2>1. PICK d \in Device : D!Round(d)  BY <1>2
  <2>2. PICK p, ok, names : Decides(d, p, ok, names)
    BY <2>1, RoundDecides DEF Counting, Staged
  <2>3. phase[d] = "Idle" /\ files' = files
    BY <2>1, <2>2, RoundDecides DEF Counting, Staged, Decides
  <2> QED  BY <1>1, <2>2, <2>3, DecidesCounting DEF D!DeviceAssumption
<1>3. CASE \E d \in Device : Goes(d)  BY <1>3, GoesCounting, GoesGrows
<1>4. CASE UNCHANGED <<sync_world, files, replica, phase, plan>>
  <2>1. There' = There /\ Everywhere' = Everywhere  BY <1>4 DEF There, Everywhere, Coming
  <2>2. Staged'  BY <1>4 DEF Counting, Staged
  <2>3. Numbered(Everywhere)' /\ Bounded(Everywhere)'
    BY <2>1 DEF Counting, Numbered, Bounded
  <2>4. Lower'  BY <1>4 DEF Counting, Lower
  <2> QED  BY <1>1, <1>4, <2>2, <2>3, <2>4 DEF Counting
<1> QED  BY <1>2, <1>3, <1>4, StepKinds

(* Whatever devices miss, skip and delete, and however rounds overlap,     *)
(* fail and crash, the highest number at the location never falls, so that *)
(* next_seq counts on from it.                                             *)
THEOREM NumbersNeverFall ==
  ASSUME D!DeviceAssumption
  PROVE  D!Spec => D!NumbersGrow
<1> DEFINE Grows == \A v \in files : \E w \in files' : v.name.seq <= w.name.seq
<1>1. D!Spec => [][Grows]_(D!vars)
  <2>1. CASE Device = {}
    <3>1. D!Init => \A v \in files : v.name.seq = 1  BY DEF D!Init
    <3>2. /\ \A v \in files : v.name.seq = 1
          /\ [D!Next]_(D!vars)
          => Grows /\ (\A v \in files : v.name.seq = 1)'
      BY <2>1, NoDevice
    <3> DEFINE One == \A v \in files : v.name.seq = 1
    <3>3. D!Init => One  BY <3>1
    <3>4. One /\ [D!Next]_(D!vars) => Grows /\ One'  BY <3>2
    <3> HIDE DEF One, Grows
    <3> QED  BY <3>3, <3>4, PTL DEF D!Spec
  <2>2. CASE Device # {}
    <3>1. D!Init => Counting
      <4> SUFFICES ASSUME D!Init PROVE Counting  OBVIOUS
      <4>1. PICK d \in Device : TRUE  BY <2>2
      <4>2. Pruning  BY <4>1, StartSound
      <4>3. phase = [e \in Device |-> "Idle"] /\ plan = [e \in Device |-> {}]
        BY DEF D!Init
      <4> QED  BY <4>2, <4>3 DEF Pruning, Sound, Counting, Lower
    <3>2. Counting /\ [D!Next]_(D!vars) => Counting' /\ Grows  BY NextCounting
    <3> HIDE DEF Grows
    <3> QED  BY <3>1, <3>2, PTL DEF D!Spec
  <2> QED  BY <2>1, <2>2
<1> QED  BY <1>1 DEF D!NumbersGrow
=============================================================================
