----------------------------- MODULE MCThrottle -----------------------------
(* Throttle on small instances. *)
EXTENDS Throttle

CONSTANTS a, b, c

MCLists == [k \in Configurations |-> {<<a>>, <<c, a>>}]
MCRenamed == [k \in Configurations |-> IF k = "old" THEN {<<a>>, <<c, a>>}
                                                   ELSE {<<b>>, <<c, b>>}]
MCRename == [k \in Configurations |-> IF k = "old" THEN {<<a>>} ELSE {<<b>>}]
Symmetry == Permutations(Requests)
=============================================================================
