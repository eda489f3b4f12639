------------------------------- MODULE MCSync -------------------------------
(* Sync on small instances. *)
EXTENDS Sync

CONSTANTS i1, i2

(* One object that everybody has and one that is not there yet.  Device 1  *)
(* has clients that use the first; device 2 leaves the second out.         *)
MCFirst   == [i \in Item |-> IF i = i1 THEN 0 ELSE Absent]
MCInUse   == [d \in Device |-> IF d = 1 THEN {i1} ELSE {}]
MCExclude == [d \in Device |-> IF d = 2 THEN {i2} ELSE {}]

(* The worlds in which the rounds keep what they promise. *)
MCWorlds == {{"overlap", "fail"}, {"overlap", "lag"}, {"overlap", "lag", "skip"},
             {"decide", "delete"}, {"crash", "exclude"}}

(* A user decides a conflict, having edited what it is about; or once two  *)
(* devices have folded the same versions at a time.                        *)
MCMeddling == {{"decide", "meddle"}}
MCFolding  == {{"decide", "overlap"}}

(* A skipped file is deleted once three newer versions are there: then it  *)
(* is all about one object.                                                *)
MCEdited   == [w \in Worlds |-> IF "skip" \in w THEN {i1} ELSE Item]
MCMaxEdits == [w \in Worlds |-> IF "skip" \in w THEN 4 ELSE 3]
MCMaxSeq   == MCMaxEdits
MCSkipping == {{"overlap", "lag", "skip"}}
=============================================================================
