------------------------------ MODULE MCStart -------------------------------
(* Lifecycle and Config checked in one run: they share no state, the       *)
(* initial state chooses one of them, and only that one takes steps, the   *)
(* other stays in an initial state of its own.                             *)
EXTENDS Lifecycle, MCConfig

VARIABLE part   \* the one that takes steps

StartInit ==
  /\ Init /\ ConfigInit
  /\ \/ part = "lifecycle" /\ text = <<>>
     \/ part = "config" /\ ~printStats

StartNext ==
  /\ UNCHANGED part
  /\ \/ part = "lifecycle" /\ Next /\ UNCHANGED configVars
     \/ part = "config" /\ ConfigNext /\ UNCHANGED vars

(* The fairness is that of FairSpec; nothing is asked of Config.           *)
StartSpec ==
  /\ StartInit /\ [][StartNext]_<<part, vars, configVars>>
  /\ WF_vars(part = "lifecycle" /\ Main)
  /\ WF_vars(part = "lifecycle" /\ StatsEnd)
  /\ \A w \in Worker : WF_vars(part = "lifecycle" /\ Ready(w))
=============================================================================
