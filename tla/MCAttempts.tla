----------------------------- MODULE MCAttempts -----------------------------
(* Two upstreams, one before the other.                                    *)
EXTENDS Attempts

CONSTANTS a, b

MCUp == {a, b}
MCCandidates == <<a, b>>
MCStern == {b}
MCFar == {b}
=============================================================================
