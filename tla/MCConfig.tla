------------------------------ MODULE MCConfig ------------------------------
(* Config on small instances. *)
EXTENDS Config

(* One trouble at a time, and the two with which writers of the core meet  *)
(* in its temporary file.  What each breaks is left out of the property    *)
(* that it breaks.                                                         *)
MCWorlds == {{"gap"}, {"overlap"}, {"start"}, {"unbuilt"}, {"gap", "overlap"}}

(* Requests of the control plane follow closely on each other.             *)
MCOverlapping == {{"overlap"}}
=============================================================================
