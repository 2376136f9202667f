------------------------------ MODULE Address ------------------------------
(***************************************************************************)
(* IPv4Address and IPv6Address: objects that keep an address in memory of  *)
(* their own, its text, and whether the two are valid.                     *)
(***************************************************************************)
EXTENDS Integers

CONSTANTS
  Objects,    \* two or three objects of one class
  Addresses   \* addresses, 0 among them

VARIABLES
  class,      \* "IPv4Address" or "IPv6Address"
  object,     \* each object's m_pInAddr, m_AddressAsString, m_IsValid
  zeroed,     \* history: objects that were assigned to themselves since they were made
  cleared     \* history: objects that were given an invalid address by assignment

vars == <<class, object, zeroed, cleared>>

Garbage == -1   \* uninitialized

Init ==
  /\ class \in {"IPv4Address", "IPv6Address"}
  /\ object = [o \in Objects |-> [addr |-> 0, text |-> 0, valid |-> TRUE]]
  /\ zeroed = {} /\ cleared = {}

-----------------------------------------------------------------------------
(* The destructor and a constructor: of an address, of its text, or of a   *)
(* text that is none, as that of IPv6Address::Zero, which has 16 groups.   *)
Make(o) ==
  /\ \E a \in Addresses :
       object' = [object EXCEPT ![o] = [addr |-> a, text |-> a, valid |-> TRUE]]
  /\ zeroed' = zeroed \ {o} /\ cleared' = cleared \ {o}
  /\ UNCHANGED class

MakeOfBadText(o) ==
  /\ object' = [object EXCEPT ![o] = [addr |-> 0, text |-> Garbage, valid |-> FALSE]]
  /\ zeroed' = zeroed \ {o} /\ cleared' = cleared \ {o}
  /\ UNCHANGED class

(* Faulty variant: what was copied is always valid.                        *)
CopiedValid(other) == [other EXCEPT !.valid = TRUE]

(* The copy constructor copies all there is. *)
Copied(other) == other

Inherits(history, o, other) == IF other \in history THEN history \cup {o} ELSE history \ {o}

Copy(o, other) ==
  /\ o # other
  /\ object' = [object EXCEPT ![o] = Copied(object[other])]
  /\ zeroed' = Inherits(zeroed, o, other) /\ cleared' = Inherits(cleared, o, other)
  /\ UNCHANGED class

(* Assignment copies whether an IPv4 address is valid; an IPv6 address is  *)
(* valid from then on.                                                     *)
ValidOnce(other) == class = "IPv6Address" \/ object[other].valid

(* The memory is freed and taken anew, as zeros, before it is copied: from *)
(* itself, if the object is its own source.                                *)
Assign(o, other) ==
  /\ object' = [object EXCEPT ![o] =
       [addr  |-> IF o = other THEN 0 ELSE object[other].addr,
        text  |-> object[other].text,
        valid |-> ValidOnce(other)]]
  /\ zeroed' = IF o = other THEN zeroed \cup {o} ELSE Inherits(zeroed, o, other)
  /\ cleared' = IF object[other].valid THEN Inherits(cleared, o, other) ELSE cleared \cup {o}
  /\ UNCHANGED class

Next ==
  \E o \in Objects :
    \/ Make(o) \/ MakeOfBadText(o)
    \/ \E other \in Objects : Copy(o, other) \/ Assign(o, other)

Spec == Init /\ [][Next]_vars

-----------------------------------------------------------------------------
(* The text of a valid object is that of its address, through every        *)
(* sequence of copies and assignments that has no assignment of an object  *)
(* to itself and, of IPv6 addresses, none of an invalid one.               *)
AddressHolds ==
  \A o \in Objects :
    object[o].valid /\ o \notin zeroed /\ ~(class = "IPv6Address" /\ o \in cleared) =>
      object[o].text = object[o].addr
=============================================================================
