------------------------------- MODULE Lists --------------------------------
(* What the code keeps of a list (retain, filter), in a form that proofs   *)
(* can look into: SelectSeq is built into the prover.                      *)
EXTENDS Integers, SequencesExt

(* The elements of q that are in S, in their order.                        *)
Among(q, S) ==
  LET f[i \in 0 .. Len(q)] ==
        IF i = 0 THEN <<>>
        ELSE IF q[i] \in S THEN Append(f[i - 1], q[i]) ELSE f[i - 1]
  IN  f[Len(q)]
=============================================================================
