----------------------------- MODULE TimeSlots -----------------------------
(***************************************************************************)
(* The one-second slots every queue between two threads of the probe is    *)
(* made of.  A writer puts what it has in second s into the slot of second *)
(* s + 1; a reader empties the slots of the seconds before the current     *)
(* one.  Slot numbers wrap after Slots seconds.                            *)
(***************************************************************************)
EXTENDS Integers

CONSTANT Slots    \* IPGlobal::TIME_INDEX, 10 in the build

ASSUME SlotsAssumption == Slots \in Nat /\ Slots > 1

(* Faulty variant: the writer uses the slot of its own second.             *)
WriteIndexSameSecond(sec, again) == sec % Slots

(* PKT_WRITE_TIME_INDEX reads its argument twice: sec for the comparison   *)
(* and, unless the index wraps, again for the result.                      *)
WriteIndex(sec, again) ==
  IF (sec % Slots) + 1 >= Slots THEN 0 ELSE (again % Slots) + 1

(* PKT_READ_TIME_INDEX *)
ReadIndex(sec) == sec % Slots

(* PKT_READ_NEXT_TIME_INDEX *)
NextIndex(i) == IF i + 1 >= Slots THEN 0 ELSE i + 1

-----------------------------------------------------------------------------
(* A slot's queue is a std::unordered_map from indices to what was put     *)
(* there: map[i] = x, map[i] (which makes up a missing x) and erase(i).    *)
EmptyMap == [i \in {} |-> 0]

Stored(m, i, x) == [j \in DOMAIN m \cup {i} |-> IF j = i THEN x ELSE m[j]]

Found(m, i, default) == IF i \in DOMAIN m THEN m[i] ELSE default

Erased(m, i) == [j \in DOMAIN m \ {i} |-> m[j]]
=============================================================================
