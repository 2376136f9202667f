-------------------------- MODULE DiameterMatching --------------------------
(***************************************************************************)
(* What a Diameter session interface promises, without tables or pools: a  *)
(* message whose hop-by-hop identifier is not known waits for its          *)
(* counterpart; the next message of that identifier, request or answer,    *)
(* ends the wait with one record of both; waiting messages may be given up. *)
(* At its capacity the interface cannot let a new identifier wait: the     *)
(* message is lost, and may be mixed up with another identifier's.         *)
(***************************************************************************)
EXTENDS Naturals, Sequences, FiniteSets

CONSTANTS
  Keys,       \* hop-by-hop identifiers
  Ids,        \* identities of messages
  Capacity,   \* identifiers that can wait at a time
  Request, Answer

VARIABLES
  waiting,    \* the messages waiting, by identifier: [req, ans], 0 for none
  reported,   \* the records, in order
  seen        \* identities of the messages that have arrived

Nothing == [req |-> 0, ans |-> 0]

Merge(w, kind, id) ==
  IF kind = Request THEN [w EXCEPT !.req = id] ELSE [w EXCEPT !.ans = id]

Init ==
  /\ waiting = [k \in {} |-> Nothing]
  /\ reported = <<>>
  /\ seen = {}

Arrive(id) == id \notin seen /\ seen' = seen \cup {id}

Start(k, kind, id) ==
  /\ Arrive(id)
  /\ k \notin DOMAIN waiting
  /\ Cardinality(DOMAIN waiting) < Capacity
  /\ waiting' = [x \in DOMAIN waiting \cup {k} |->
                   IF x = k THEN Merge(Nothing, kind, id) ELSE waiting[x]]
  /\ UNCHANGED reported

Report(k, kind, id) ==
  /\ Arrive(id)
  /\ k \in DOMAIN waiting
  /\ LET w == Merge(waiting[k], kind, id)
     IN  reported' = Append(reported, [key |-> k, req |-> w.req, ans |-> w.ans])
  /\ waiting' = [x \in DOMAIN waiting \ {k} |-> waiting[x]]

GiveUp(K) ==
  /\ K \subseteq DOMAIN waiting
  /\ waiting' = [x \in DOMAIN waiting \ K |-> waiting[x]]
  /\ UNCHANGED <<reported, seen>>

Lose(id) ==
  /\ Arrive(id)
  /\ Cardinality(DOMAIN waiting) >= Capacity
  /\ UNCHANGED <<waiting, reported>>

MixUp(k, kind, id) ==
  /\ Arrive(id)
  /\ Cardinality(DOMAIN waiting) >= Capacity
  /\ k \in DOMAIN waiting
  /\ waiting' = [waiting EXCEPT ![k] = Merge(@, kind, id)]
  /\ UNCHANGED reported

Next ==
  \/ \E k \in Keys, kind \in {Request, Answer}, id \in Ids :
       Start(k, kind, id) \/ Report(k, kind, id) \/ MixUp(k, kind, id)
  \/ \E id \in Ids : Lose(id)
  \/ \E K \in SUBSET DOMAIN waiting : GiveUp(K)

Spec == Init /\ [][Next]_<<waiting, reported, seen>>
=============================================================================
