------------------------------ MODULE MCUsage -------------------------------
(* Usage on small instances. *)
EXTENDS Usage

CONSTANTS r1, r2

MCSymmetry == Permutations(Request)

(* The worlds in which the accounts are what they should be. *)
MCWorlds == {{"zone"}, {"lose"}, {"blind"}, {"restart"}, {"handover"}, {"rename"}}

(* And those in which they are not, for one reason each (see the README). *)
MCLate == {{"handover", "late"}}
MCBusy == {{"rename", "busy"}}
MCUnseen == {{"restart", "zone"}}
=============================================================================
