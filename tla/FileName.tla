------------------------------ MODULE FileName ------------------------------
(***************************************************************************)
(* The minute an XDR file is named after.  The timer thread writes the     *)
(* second, day, hour, minute, ... of the current time into one global      *)
(* variable after the other; the XDR writer, woken by a new second, sleeps *)
(* a little and reads minute, hour, day, month and year one by one, for    *)
(* each slot it has to catch up with.                                      *)
(***************************************************************************)
EXTENDS TimeSlots, Sequences

CONSTANTS
  FirstSecond,   \* the second the program starts in
  MaxTime        \* bound: the last second

BoundsNamed == FirstSecond \in Nat /\ MaxTime \in Nat

WriteOrder == <<"epoch", "day", "hour", "min", "month", "year">>
ReadOrder == <<"min", "hour", "day", "month", "year">>

Field == {WriteOrder[n] : n \in DOMAIN WriteOrder}

(* localtime, with short units: two seconds to the minute, two minutes to  *)
(* the hour and so on.                                                     *)
Unit == [epoch |-> 1, min |-> 2, hour |-> 4, day |-> 8, month |-> 16, year |-> 32]

Moment(t) == [f \in Field |-> t \div Unit[f]]

VARIABLES
  real,    \* gettimeofday
  global,  \* IPGlobal::CURRENT_EPOCH_SEC, CURRENT_DAY, ..., CURRENT_YEAR
  timer,   \* the timer thread: the time of its pass, the fields written
  wr       \* the XDR writer: last slot done, the second polled, the fields
           \* read, whether it woke after the timer's pass or before its end

vars == <<real, global, timer, wr>>

Init ==
  /\ real = FirstSecond
  /\ global = Moment(FirstSecond)
  /\ timer = [t |-> FirstSecond, done |-> Len(WriteOrder)]
  /\ wr = [pc |-> "poll", last |-> ReadIndex(FirstSecond), cur |-> FirstSecond, name |-> <<>>,
           woke |-> "after"]

-----------------------------------------------------------------------------
(* glbTimer::run; a pass in the same second writes the same values again.  *)
TimerPass ==
  /\ timer.done = Len(WriteOrder)
  /\ timer.t # real
  /\ timer' = [t |-> real, done |-> 0]
  /\ UNCHANGED <<real, global, wr>>

TimerWrite ==
  /\ timer.done < Len(WriteOrder)
  /\ LET f == WriteOrder[timer.done + 1]
     IN  global' = [global EXCEPT ![f] = Moment(timer.t)[f]]
  /\ timer' = [timer EXCEPT !.done = @ + 1]
  /\ UNCHANGED <<real, wr>>

-----------------------------------------------------------------------------
(* GxXdrWriter::run and S6aXdrWriter::run *)
Poll ==
  /\ wr.pc = "poll"
  /\ wr.last # ReadIndex(global.epoch)
  /\ wr' = [wr EXCEPT !.pc = "sleep", !.cur = global.epoch]
  /\ UNCHANGED <<real, global, timer>>

(* Faulty variant: the writer does not sleep.                              *)
WakeAtOnce ==
  /\ wr.pc = "sleep"
  /\ wr' = [wr EXCEPT !.pc = "read", !.name = <<>>, !.woke = "after"]
  /\ UNCHANGED <<real, global, timer>>

(* The sleep of 25 ms ends whenever it does: as a rule, but not of         *)
(* necessity, after the pass of the timer that woke the writer.            *)
Wake ==
  /\ wr.pc = "sleep"
  /\ wr' = [wr EXCEPT !.pc = "read", !.name = <<>>,
                      !.woke = IF timer.t = wr.cur /\ timer.done < Len(WriteOrder)
                               THEN "before" ELSE "after"]
  /\ UNCHANGED <<real, global, timer>>

Read ==
  /\ wr.pc = "read"
  /\ Len(wr.name) < Len(ReadOrder)
  /\ wr' = [wr EXCEPT !.name = Append(@, global[ReadOrder[Len(@) + 1]])]
  /\ UNCHANGED <<real, global, timer>>

(* The file is opened, written and closed, and the slot is done. *)
WriteFile ==
  /\ wr.pc = "read"
  /\ Len(wr.name) = Len(ReadOrder)
  /\ LET done == NextIndex(wr.last)
     IN  wr' = [wr EXCEPT !.pc = IF done = ReadIndex(wr.cur) THEN "poll" ELSE "sleep",
                         !.last = done]
  /\ UNCHANGED <<real, global, timer>>

-----------------------------------------------------------------------------
(* A second begins, whatever timer and writer are at. *)
Tick ==
  /\ real < MaxTime
  /\ real' = real + 1
  /\ UNCHANGED <<global, timer, wr>>

Next == TimerPass \/ TimerWrite \/ Poll \/ Wake \/ Read \/ WriteFile \/ Tick

Spec == Init /\ [][Next]_vars

-----------------------------------------------------------------------------
NameComplete == wr.pc = "read" /\ Len(wr.name) = Len(ReadOrder)

(* The seconds the name of a file may come from: since the one the writer  *)
(* polled, if its sleep outlasted the timer's pass of that second.         *)
Since == (IF wr.woke = "after" THEN wr.cur ELSE FirstSecond) .. real

(* Minute, hour and day of a name are of moments since the polled second,  *)
(* hour not older than minute, day not older than hour, whatever the timer *)
(* writes in between: it writes them in the order opposite to the one they *)
(* are read in, so a name may be ahead of the time but never behind it,    *)
(* and is that of the polled second if no other begins in time.  Month and *)
(* year are of such moments too, but have no such order.                   *)
NameNotBehind ==
  NameComplete =>
    /\ \E m, h, d \in Since :
         /\ m <= h /\ h <= d
         /\ wr.name[1] = Moment(m).min
         /\ wr.name[2] = Moment(h).hour
         /\ wr.name[3] = Moment(d).day
    /\ \E t \in Since : wr.name[4] = Moment(t).month
    /\ \E t \in Since : wr.name[5] = Moment(t).year

(* GxXdrWriter.cpp:48 says the sleep is there to eliminate the racing      *)
(* condition at second 00: a name would be that of one moment.  It is not, *)
(* when a second begins while the fields are read, after a sleep that was  *)
(* long enough.                                                            *)
NameIsAMoment ==
  NameComplete /\ wr.woke = "after" =>
    \E t \in Since : \A n \in DOMAIN ReadOrder : wr.name[n] = Moment(t)[ReadOrder[n]]
=============================================================================
