---------------------------- MODULE MCS6aSessions ----------------------------
(* Instance of S6aSessions for TLC. *)
EXTENDS S6aSessions, TLC

CONSTANTS k1, k2, k3

KeySymmetry == Permutations(Keys)
=============================================================================
