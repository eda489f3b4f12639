---------------------------- MODULE MCHandover ----------------------------
(* Handover on small instances. *)
EXTENDS Handover, TLC

(* For chains of four cores: see the README on marks that are left behind. *)
Symmetry == Permutations(Core)
=============================================================================
