------------------------------ MODULE MCHealth ------------------------------
(* Health on small instances: two failures pause, for 1, 2 and at most 3   *)
(* ticks; a reload may make the pauses start at 2.                         *)
EXTENDS Health

MCSettings == {[failures |-> 2, pause |-> 1, max_pause |-> 3],
               [failures |-> 2, pause |-> 2, max_pause |-> 3]}
=============================================================================
