------------------------------- MODULE MCGate -------------------------------
(* Gate on small instances. *)
EXTENDS Gate, TLC

(* The requests of one core are alike, and no property is temporal. *)
Alike == Permutations(Olds) \cup Permutations(News)
=============================================================================
