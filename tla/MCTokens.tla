------------------------------ MODULE MCTokens ------------------------------
(* Tokens on small instances. *)
EXTENDS Tokens, TLC

(* Without "long", "slow" and "behind": what these break is in the README. *)
MCWorlds == {{"fail", "leave", "crash"}, {"edit", "keeps", "leave"},
             {"successor", "fail"}, {"successor", "crash"}}

(* The user signs in again, and exchanges fail. *)
MCSignIn == {{"edit", "fail"}}

(* The new core takes over before it has read what was written back last. *)
MCBehind == {{"successor", "behind"}}

Symmetry == Permutations(Requests)
=============================================================================
