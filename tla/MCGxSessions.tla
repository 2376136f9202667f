---------------------------- MODULE MCGxSessions ----------------------------
(* Instances of GxSessions for TLC. *)
EXTENDS GxSessions

CONSTANTS k1, k2

(* Bound: what the program does after a write through an uninitialised      *)
(* pointer is not followed.                                                *)
Defined == ~wild
=============================================================================
