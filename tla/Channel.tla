------------------------------ MODULE Channel ------------------------------
(***************************************************************************)
(* What a queue between threads promises, whatever is inside it: items     *)
(* come out one at a time, each once, in the order in which they went in.  *)
(* `in` and `out` are the histories of the two ends.                       *)
(***************************************************************************)
EXTENDS Naturals, Sequences

CONSTANT Items

VARIABLES in, out

Init == in = << >> /\ out = << >>

(* An item goes in. *)
Put == \E x \in Items : in' = Append(in, x) /\ UNCHANGED out

(* The oldest item that has not come out comes out. *)
Take == /\ Len(out) < Len(in)
        /\ out' = Append(out, in[Len(out) + 1])
        /\ UNCHANGED in

Spec == Init /\ [][Put \/ Take]_<<in, out>>
=============================================================================
