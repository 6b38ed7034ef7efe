---------------------------- MODULE MCHandover ----------------------------
(* Small instances of Handover for TLC.                                    *)
EXTENDS Handover, TLC

CONSTANTS a1, a2, s1, s2, s3

Symmetric == Permutations(Agents) \cup Permutations(Sessions)
=============================================================================
