------------------------------ MODULE Monitor ------------------------------
(***************************************************************************)
(* The packet counter of each interface and the thread that looks at it    *)
(* every second to compute a rate.  The counter goes back to zero when the *)
(* day changes: a Solarflare listener resets its own, the first Ethernet   *)
(* listener to notice resets those of all interfaces, while the others     *)
(* count with a load and a store.  Nothing is locked.  The time between    *)
(* two passes is read off a clock that may be set back, after a sleep that *)
(* a signal may cut short.  Bytes go the way of packets.                   *)
(***************************************************************************)
EXTENDS Integers

CONSTANTS
  Interfaces,   \* number of interfaces, all of one kind
  IntRange,     \* values of an int, 2^32 in the build
  Second,       \* milliseconds of a second, 1000 in the build
  Elapsed,      \* milliseconds that may pass by the clock between two passes
  MaxCount,     \* bound: packets counted at each interface
  MaxDayChanges \* bound: day changes

VARIABLES
  kind,       \* "ethernet" or "solarflare"
  rx,         \* n_rx_pkts_<i>, or n_rx_pkts of the listener's interfaceThread
  indication, \* PKT_LISTENER_DAYCHANGE_INDICATION
  adding,     \* the value a listener has loaded, or None
  prev,       \* the monitor's count of its last pass
  rate,       \* IPGlobal::PKT_RATE_INTF
  counted,    \* history: packets counted
  since,      \* history: packets counted between the last two passes, and since,
              \* and the milliseconds between the last two by the clock
  revived,    \* history: a reset has been undone by a store of another listener
  beyond,     \* history: a count beyond an int has been reset
  changes,    \* history: day changes
  alive       \* FALSE once a division by zero has ended the program

seen == <<counted, since, revived, beyond, changes>>
vars == <<kind, rx, indication, adding, prev, rate, seen, alive>>

Interface == 0 .. Interfaces - 1
RangeNamed == IntRange \in Nat \ {0} /\ Second \in Nat \ {0} /\ Elapsed \subseteq Int
None == -1

(* The conversion to int.                                                  *)
AsInt(n) == ((n + IntRange \div 2) % IntRange) - IntRange \div 2

(* EthernetSource's monitor keeps counts in an int, InterfaceMonitor does  *)
(* not.                                                                    *)
Narrow(n) == IF kind = "ethernet" THEN AsInt(n) ELSE n

(* C's division truncates.                                                 *)
Magnitude(n) == IF n < 0 THEN -n ELSE n

Quotient(n, d) ==
  LET q == Magnitude(n) \div Magnitude(d)
  IN  IF (n < 0) = (d < 0) THEN q ELSE -q

Init ==
  /\ kind \in {"ethernet", "solarflare"}
  /\ rx = [i \in Interface |-> 0]
  /\ indication = [i \in Interface |-> FALSE]
  /\ adding = [i \in Interface |-> None]
  /\ prev = [i \in Interface |-> 0]
  /\ rate = [i \in Interface |-> 0]
  /\ counted = [i \in Interface |-> 0]
  /\ since = [i \in Interface |-> [last |-> 0, now |-> 0, took |-> Second]]
  /\ revived = [i \in Interface |-> FALSE]
  /\ beyond = [i \in Interface |-> FALSE]
  /\ changes = 0
  /\ alive = TRUE

-----------------------------------------------------------------------------
(* resetCounters, and its like in handle_rx_ps. *)
Cleared(i) ==
  IF ~indication[i] THEN {} ELSE IF kind = "ethernet" THEN Interface ELSE {i}

(* packetReaderCallback, handle_rx_ps: the reset, and the load of the      *)
(* counter ...                                                             *)
Load(i) ==
  /\ alive
  /\ adding[i] = None /\ counted[i] < MaxCount
  /\ rx' = [j \in Interface |-> IF j \in Cleared(i) THEN 0 ELSE rx[j]]
  /\ revived' = [j \in Interface |->
       revived[j] \/ (j \in Cleared(i) /\ adding[j] # None)]
  /\ beyond' = [j \in Interface |->
       beyond[j] \/ (j \in Cleared(i) /\ prev[j] < 0)]
  /\ indication' = [indication EXCEPT ![i] = FALSE]
  /\ adding' = [adding EXCEPT ![i] = rx'[i]]
  /\ UNCHANGED <<kind, prev, rate, counted, since, changes, alive>>

(* ... and its store: one packet more, or those of an event. *)
Store(i) ==
  /\ alive
  /\ adding[i] # None
  /\ \E n \in IF kind = "ethernet" THEN {1} ELSE 1 .. 2 :
       /\ rx' = [rx EXCEPT ![i] = adding[i] + n]
       /\ counted' = [counted EXCEPT ![i] = @ + n]
       /\ since' = [since EXCEPT ![i].now = @ + n]
  /\ adding' = [adding EXCEPT ![i] = None]
  /\ UNCHANGED <<kind, indication, prev, rate, revived, beyond, changes, alive>>

(* SpectaProbe::run *)
DayChange ==
  /\ alive
  /\ changes < MaxDayChanges
  /\ changes' = changes + 1
  /\ indication' = [i \in Interface |-> TRUE]
  /\ UNCHANGED <<kind, rx, adding, prev, rate, counted, since, revived, beyond, alive>>

(* Faulty variant: a count that has gone back is not looked for.           *)
PassedUnchecked(before, now) == {now - before, Narrow(now - before)}

(* What has passed since a count of before.  A difference of two ints may  *)
(* be beyond an int: it begins again, or is right where the compiler       *)
(* widens first.                                                           *)
Passed(before, now) == IF now < before THEN {0} ELSE {now - before, Narrow(now - before)}

(* monitor, InterfaceMonitor::run *)
Pass(i) ==
  /\ alive
  /\ \E took \in Elapsed \ {0}, n \in Passed(prev[i], Narrow(rx[i])) :
       /\ rate' = [rate EXCEPT ![i] = AsInt(Quotient(n * Second, took))]
       /\ since' = [since EXCEPT ![i] = [last |-> @.now, now |-> 0, took |-> took]]
  /\ prev' = [prev EXCEPT ![i] = Narrow(rx[i])]
  /\ UNCHANGED <<kind, rx, indication, adding, counted, revived, beyond, changes, alive>>

(* A pass within a millisecond of the last divides by zero.                *)
PassAtOnce ==
  /\ alive
  /\ 0 \in Elapsed
  /\ alive' = FALSE
  /\ UNCHANGED <<kind, rx, indication, adding, prev, rate, seen>>

Next == DayChange \/ PassAtOnce \/ \E i \in Interface : Load(i) \/ Store(i) \/ Pass(i)

Spec == Init /\ [][Next]_vars

-----------------------------------------------------------------------------
(* The clock was not set back between the last two passes, the rate and an *)
(* Ethernet monitor's difference fit into an int; and of an Ethernet       *)
(* interface no listener has reset the counter while its own was just      *)
(* adding to it, so that the old count comes back, or when it was beyond   *)
(* an int.                                                                 *)
Regular(i) ==
  /\ since[i].took > 0
  /\ since[i].last * Second < since[i].took * (IntRange \div 2)
  /\ kind = "ethernet" =>
       since[i].last < IntRange \div 2 /\ ~revived[i] /\ ~beyond[i]

(* A rate is then not negative, and shows no packets but those counted     *)
(* between the two passes, although counters are reset in between and      *)
(* outgrow an int.                                                         *)
RatesHold ==
  \A i \in Interface :
    Regular(i) => rate[i] >= 0 /\ rate[i] * since[i].took <= since[i].last * Second
=============================================================================
