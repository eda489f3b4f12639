------------------------------ MODULE MCSlots ------------------------------
(* Slots on small instances. *)
EXTENDS Slots, TLC

CONSTANTS a, b

\* a request that goes only to a, and one that may use either
MCLists == {<<a>>, <<a, b>>}

\* everybody goes to a
MCOneList == {<<a>>}

Symmetry == Permutations(Requests)
=============================================================================
