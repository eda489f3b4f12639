-------------------------------- MODULE Lead --------------------------------
(***************************************************************************)
(* What a handover promises (the head of bin/twcore/src/handover.rs): the  *)
(* commit is the one step that cannot be taken back, and in it one core    *)
(* takes the place of another.  At no time are there two.                  *)
(***************************************************************************)
CONSTANT Core
VARIABLE leaders

Init == leaders = {}

(* A core that finds nobody takes the place, *)
Start(c) == leaders = {} /\ leaders' = {c}

(* is replaced by its successor in one step, *)
HandOver(a, b) == leaders = {a} /\ leaders' = {b}

(* or exits. *)
Leave(a) == leaders = {a} /\ leaders' = {}

Next == \E a, b \in Core : Start(b) \/ HandOver(a, b) \/ Leave(a)

Spec == Init /\ [][Next]_leaders
=============================================================================
