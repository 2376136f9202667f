------------------------------ MODULE XdrPath ------------------------------
(***************************************************************************)
(* The way of a finished session to the CSV file: session managers put it  *)
(* into the flush map of a time slot, the flusher turns it into a line in  *)
(* the XDR map of a later slot, the XDR writer appends that to the file.   *)
(* Gx and S6a have one such path each; an operator can switch the writing  *)
(* of Gx lines off and on again.                                           *)
(*                                                                         *)
(* None of the maps has a lock or a busy flag.  Apart is what makes it     *)
(* sound to take the accesses to one map entry and its count as one step.  *)
(***************************************************************************)
EXTENDS TimeSlots, Sequences, FiniteSets

CONSTANTS
  Managers,    \* number of session managers
  MaxRecs,     \* bound: sessions one manager flushes
  MaxTime,     \* bound: seconds
  MaxToggles,  \* bound: changes of GX_WRITE_XDR
  MaxStall,    \* seconds that may begin between reading the clock and storing
  MaxLag       \* seconds the flusher and the writer may be behind the clock

ASSUME XdrPathAssumption ==
  /\ Managers \in Nat \ {0}
  /\ MaxRecs \in Nat /\ MaxTime \in Nat \ {0} /\ MaxToggles \in Nat
  /\ MaxStall \in Nat /\ MaxLag \in Nat

VARIABLES
  now,       \* IPGlobal::CURRENT_EPOCH_SEC
  writeXdr,  \* IPGlobal::GX_WRITE_XDR
  flushMap,  \* gxFlushMap_sm_t by manager and slot
  flushCnt,  \* gxFlushMap_cnt_sm_t
  xdrMap,    \* gxXdrMap_t by slot
  xdrCnt,    \* gxXdrMap_cnt_t
  mgr,       \* each session manager's progress through flushSession
  fl,        \* the flusher's progress
  wr,        \* the writer's progress
  file,      \* the lines written
  born,      \* history: by manager, the second each record was flushed in
  off,       \* history: records not stored because writeXdr was off
  astray,    \* history: records stored beyond the last slot
  toggles    \* history: changes of writeXdr

flushQueue == <<flushMap, flushCnt>>
xdrQueue == <<xdrMap, xdrCnt>>
history == <<born, off, astray, toggles>>
xdrVars == <<now, writeXdr, flushQueue, xdrQueue, mgr, fl, wr, file, history>>

Manager == 0 .. Managers - 1
SlotIndex == 0 .. Slots - 1
Records == Manager \X (1 .. MaxRecs)

(* What a missing map entry holds: a default-constructed session or line.  *)
Phantom == <<>>

XdrInit ==
  /\ now = 1
  /\ writeXdr = TRUE
  /\ flushMap = [c \in Manager \X SlotIndex |-> EmptyMap]
  /\ flushCnt = [c \in Manager \X SlotIndex |-> 0]
  /\ xdrMap = [i \in SlotIndex |-> EmptyMap]
  /\ xdrCnt = [i \in SlotIndex |-> 0]
  /\ mgr = [s \in Manager |-> [pc |-> "idle", at |-> 1, idx |-> 0]]
  /\ fl = [pc |-> "poll", last |-> ReadIndex(1), pos |-> 1, cur |-> 1, s |-> 0,
           size |-> 0, i |-> 0, rec |-> Phantom, at |-> 1, idx |-> 0]
  /\ wr = [pc |-> "poll", last |-> ReadIndex(1), pos |-> 1, cur |-> 1, size |-> 0, i |-> 0]
  /\ file = <<>>
  /\ born = [s \in Manager |-> <<>>]
  /\ off = {} /\ astray = {} /\ toggles = 0

(* A reader that has done its slot goes to the next one, up to the one it  *)
(* read from the clock.                                                    *)
SlotDone(reader) ==
  [reader EXCEPT
     !.pc = IF NextIndex(reader.last) = ReadIndex(reader.cur) THEN "poll" ELSE "visit",
     !.last = NextIndex(@), !.pos = @ + 1]

-----------------------------------------------------------------------------
(* flushSession of session manager s; it copies the clock before the slot  *)
(* number is computed.                                                     *)
Flush(s) ==
  /\ mgr[s].pc = "idle"
  /\ Len(born[s]) < MaxRecs
  /\ mgr' = [mgr EXCEPT ![s] = [pc |-> "store", at |-> now, idx |-> WriteIndex(now, now)]]
  /\ born' = [born EXCEPT ![s] = Append(@, now)]
  /\ UNCHANGED <<now, writeXdr, flushQueue, xdrQueue, fl, wr, file, off, astray, toggles>>

StoreSession(s) ==
  /\ mgr[s].pc = "store"
  /\ LET c == <<s, mgr[s].idx>>
     IN  /\ flushMap' = [flushMap EXCEPT ![c] = Stored(@, flushCnt[c], <<s, Len(born[s])>>)]
         /\ flushCnt' = [flushCnt EXCEPT ![c] = @ + 1]
  /\ mgr' = [mgr EXCEPT ![s].pc = "idle"]
  /\ UNCHANGED <<now, writeXdr, xdrQueue, fl, wr, file, history>>

-----------------------------------------------------------------------------
(* The flusher. *)

FlCell == <<fl.s, fl.last>>

(* The next session manager's map of this slot, or the next slot.          *)
FlNext ==
  IF fl.s + 1 < Managers THEN [fl EXCEPT !.pc = "visit", !.s = @ + 1]
  ELSE [SlotDone(fl) EXCEPT !.s = 0]

FlPoll ==
  /\ fl.pc = "poll"
  /\ fl.last # ReadIndex(now)
  /\ fl' = [fl EXCEPT !.pc = "visit", !.cur = now]
  /\ UNCHANGED <<now, writeXdr, flushQueue, xdrQueue, mgr, wr, file, history>>

FlVisit ==
  /\ fl.pc = "visit"
  /\ LET indices == DOMAIN flushMap[FlCell]
     IN  fl' = IF indices = {} THEN FlNext
               ELSE [fl EXCEPT !.pc = "build", !.size = Cardinality(indices), !.i = 0]
  /\ UNCHANGED <<now, writeXdr, flushQueue, xdrQueue, mgr, wr, file, history>>

(* The line is built and the clock is read a first time.                   *)
FlBuild ==
  /\ fl.pc = "build"
  /\ fl' = [fl EXCEPT !.pc = "index", !.rec = Found(flushMap[FlCell], fl.i, Phantom), !.at = now]
  /\ UNCHANGED <<now, writeXdr, flushQueue, xdrQueue, mgr, wr, file, history>>

FlIndex ==
  /\ fl.pc = "index"
  /\ fl' = [fl EXCEPT !.pc = "store", !.idx = WriteIndex(fl.at, now)]
  /\ UNCHANGED <<now, writeXdr, flushQueue, xdrQueue, mgr, wr, file, history>>

(* Faulty variant: the count of the XDR map is not advanced.               *)
FlStoreUncounted ==
  /\ fl.pc = "store"
  /\ IF ~writeXdr THEN off' = off \cup {fl.rec} /\ UNCHANGED <<xdrQueue, astray>>
     ELSE IF fl.idx \notin SlotIndex THEN astray' = astray \cup {fl.rec} /\ UNCHANGED <<xdrQueue, off>>
     ELSE /\ xdrMap' = [xdrMap EXCEPT ![fl.idx] = Stored(@, xdrCnt[fl.idx], fl.rec)]
          /\ UNCHANGED <<xdrCnt, off, astray>>
  /\ fl' = [fl EXCEPT !.pc = "erase"]
  /\ UNCHANGED <<now, writeXdr, flushQueue, mgr, wr, file, born, toggles>>

(* A line beyond the last slot leaves the arrays; what it overwrites there *)
(* is not modelled, nor is it ever read back.                              *)
FlStore ==
  /\ fl.pc = "store"
  /\ IF ~writeXdr THEN off' = off \cup {fl.rec} /\ UNCHANGED <<xdrQueue, astray>>
     ELSE IF fl.idx \notin SlotIndex THEN astray' = astray \cup {fl.rec} /\ UNCHANGED <<xdrQueue, off>>
     ELSE /\ xdrMap' = [xdrMap EXCEPT ![fl.idx] = Stored(@, xdrCnt[fl.idx], fl.rec)]
          /\ xdrCnt' = [xdrCnt EXCEPT ![fl.idx] = @ + 1]
          /\ UNCHANGED <<off, astray>>
  /\ fl' = [fl EXCEPT !.pc = "erase"]
  /\ UNCHANGED <<now, writeXdr, flushQueue, mgr, wr, file, born, toggles>>

FlErase ==
  /\ fl.pc = "erase"
  /\ flushMap' = [flushMap EXCEPT ![FlCell] = Erased(@, fl.i)]
  /\ flushCnt' = [flushCnt EXCEPT ![FlCell] = @ - 1]
  /\ fl' = [fl EXCEPT !.pc = IF fl.i + 1 < fl.size THEN "build" ELSE "clear", !.i = @ + 1]
  /\ UNCHANGED <<now, writeXdr, xdrQueue, mgr, wr, file, history>>

FlClear ==
  /\ fl.pc = "clear"
  /\ flushMap' = [flushMap EXCEPT ![FlCell] = EmptyMap]
  /\ flushCnt' = [flushCnt EXCEPT ![FlCell] = 0]
  /\ fl' = FlNext
  /\ UNCHANGED <<now, writeXdr, xdrQueue, mgr, wr, file, history>>

FlStep == FlPoll \/ FlVisit \/ FlBuild \/ FlIndex \/ FlStore \/ FlErase \/ FlClear

-----------------------------------------------------------------------------
(* The XDR writer. *)

WrPoll ==
  /\ wr.pc = "poll"
  /\ wr.last # ReadIndex(now)
  /\ wr' = [wr EXCEPT !.pc = "visit", !.cur = now]
  /\ UNCHANGED <<now, writeXdr, flushQueue, xdrQueue, mgr, fl, file, history>>

(* With writing off the slot is passed by with everything in it.           *)
WrSkip ==
  /\ wr.pc = "visit"
  /\ ~writeXdr
  /\ wr' = SlotDone(wr)
  /\ UNCHANGED <<now, writeXdr, flushQueue, xdrQueue, mgr, fl, file, history>>

WrVisit ==
  /\ wr.pc = "visit"
  /\ writeXdr
  /\ LET indices == DOMAIN xdrMap[wr.last]
     IN  wr' = [wr EXCEPT !.pc = IF indices = {} THEN "reset" ELSE "write",
                          !.size = Cardinality(indices), !.i = 0]
  /\ UNCHANGED <<now, writeXdr, flushQueue, xdrQueue, mgr, fl, file, history>>

WrWrite ==
  /\ wr.pc = "write"
  /\ file' = Append(file, Found(xdrMap[wr.last], wr.i, Phantom))
  /\ xdrMap' = [xdrMap EXCEPT ![wr.last] = Erased(@, wr.i)]
  /\ xdrCnt' = [xdrCnt EXCEPT ![wr.last] = @ - 1]
  /\ wr' = [wr EXCEPT !.pc = IF wr.i + 1 < wr.size THEN "write" ELSE "reset", !.i = @ + 1]
  /\ UNCHANGED <<now, writeXdr, flushQueue, mgr, fl, history>>

WrReset ==
  /\ wr.pc = "reset"
  /\ xdrMap' = [xdrMap EXCEPT ![wr.last] = IF wr.size > 0 THEN EmptyMap ELSE @]
  /\ xdrCnt' = [xdrCnt EXCEPT ![wr.last] = 0]
  /\ wr' = SlotDone(wr)
  /\ UNCHANGED <<now, writeXdr, flushQueue, mgr, fl, file, history>>

WrStep == WrPoll \/ WrSkip \/ WrVisit \/ WrWrite \/ WrReset

-----------------------------------------------------------------------------
(* The operator reloads the configuration.                                 *)
Toggle ==
  /\ toggles < MaxToggles
  /\ toggles' = toggles + 1
  /\ writeXdr' = ~writeXdr
  /\ UNCHANGED <<now, flushQueue, xdrQueue, mgr, fl, wr, file, born, off, astray>>

(* The clock advances no faster than the assumed stall and lag allow. *)
NextSecond ==
  /\ now < MaxTime
  /\ \A s \in Manager : mgr[s].pc = "store" => now < mgr[s].at + MaxStall
  /\ fl.pc \in {"index", "store"} => now < fl.at + MaxStall
  /\ now < fl.pos + MaxLag /\ now < wr.pos + MaxLag
  /\ now' = now + 1
  /\ UNCHANGED <<writeXdr, flushQueue, xdrQueue, mgr, fl, wr, file, history>>

XdrNext ==
  \/ \E s \in Manager : Flush(s) \/ StoreSession(s)
  \/ FlStep \/ WrStep \/ Toggle \/ NextSecond

XdrSpec == XdrInit /\ [][XdrNext]_xdrVars

-----------------------------------------------------------------------------
(* Types of the variables; the count of a queue nobody works on is the     *)
(* size of its map, the number of its next free index.                     *)
XdrTypeOK ==
  /\ now \in 1 .. MaxTime /\ writeXdr \in BOOLEAN
  /\ \A c \in Manager \X SlotIndex :
       fl.pc \in {"poll", "visit"} => DOMAIN flushMap[c] = 0 .. flushCnt[c] - 1
  /\ \A i \in SlotIndex :
       wr.pc \in {"poll", "visit"} => DOMAIN xdrMap[i] = 0 .. xdrCnt[i] - 1
  /\ fl.last \in SlotIndex /\ wr.last \in SlotIndex
  /\ \A n \in DOMAIN file : file[n] \in Records

(* No thread stores into the map another one is emptying: a session        *)
(* manager not with the flusher, the flusher not with the writer.          *)
Apart ==
  /\ fl.pc \in {"build", "index", "store", "erase", "clear"} =>
       ~ (mgr[fl.s].pc = "store" /\ mgr[fl.s].idx = fl.last)
  /\ wr.pc \in {"write", "reset"} => ~ (fl.pc = "store" /\ fl.idx = wr.last)

(* The maps keep apart, and no record is in the file twice, whenever       *)
(* writing is switched off and on; while it stays on, the file has each    *)
(* session manager's records in the order they were finished, none missing *)
(* before another.                                                         *)
InOrder ==
  /\ Apart
  /\ \A m, n \in DOMAIN file : m # n => file[m] # file[n]
  /\ astray = {} /\ toggles = 0 =>
       \A n \in DOMAIN file :
         file[n][2] = 1 \/ \E m \in 1 .. n - 1 : file[m] = <<file[n][1], file[n][2] - 1>>

Written == {file[n] : n \in DOMAIN file}

Flushed == {rec \in Records : rec[2] \in DOMAIN born[rec[1]]}

(* A finished session is on disk in time: it spends a second or two and    *)
(* the reader's lag in each of the two maps, and no more.                  *)
Latency ==
  astray = {} /\ toggles = 0 =>
    \A rec \in Flushed \ Written : now <= born[rec[1]][rec[2]] + 2 + 2 * MaxLag

Held ==
  {<<s, Len(born[s])>> : s \in {x \in Manager : mgr[x].pc = "store"}}
    \cup (UNION {{flushMap[c][i] : i \in DOMAIN flushMap[c]} : c \in DOMAIN flushMap})
    \cup (UNION {{xdrMap[i][j] : j \in DOMAIN xdrMap[i]} : i \in SlotIndex})

(* No record is lost by switching: one that is neither written nor on its  *)
(* way met a flusher that had just seen writing off.                       *)
Conserved == Flushed = Written \cup Held \cup off \cup astray
=============================================================================
