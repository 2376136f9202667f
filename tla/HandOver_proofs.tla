--------------------------- MODULE HandOver_proofs ---------------------------
(***************************************************************************)
(* Proofs about HandOver, for any number of slots and routers and any      *)
(* bounds: types, that threads which keep the timing the ring is made for  *)
(* never meet in a slot, and that messages are then processed in order.    *)
(***************************************************************************)
EXTENDS HandOver, TimeSlots_proofs, SequenceTheorems

(* The timing: the session manager is behind by less than the ring allows. *)
(* How long a router may be held up is left open.                          *)
Timely == MaxLag + 2 <= Slots

LEMMA Constants ==
  /\ Slots \in Nat /\ Slots > 1
  /\ Routers \in Nat /\ Routers > 0
  /\ MaxMsgs \in Nat /\ MaxTime \in Nat /\ MaxStall \in Nat /\ MaxLag \in Nat
  BY SlotsAssumption, HandOverAssumption

LEMMA CellType ==
  ASSUME NEW r \in Router, NEW i \in 0 .. Slots
  PROVE  Cell(r, i) \in Cells
<1>1. CASE i < Slots
  <2>1. r \in 0 .. Routers /\ i \in 0 .. Slots - 1
    BY <1>1, Constants DEF Router
  <2> QED  BY <1>1, <2>1 DEF Cell, Cells
<1>2. CASE ~(i < Slots)
  <2>1. r + 1 \in 0 .. Routers /\ 0 \in 0 .. Slots - 1
    BY Constants DEF Router
  <2> QED  BY <1>2, <2>1 DEF Cell, Cells
<1> QED  BY <1>1, <1>2

-----------------------------------------------------------------------------
(* Types. *)

LEMMA TypeInit == Init => TypeOK
<1> SUFFICES ASSUME Init PROVE TypeOK
  OBVIOUS
<1>1. ReadIndex(1) \in 0 .. Slots - 1
  BY IndexTypes
<1>2. 0 \in Router /\ 0 \in 0 .. Slots
  BY Constants DEF Router
<1>3. \A c \in Cells : DOMAIN msgs[c] \subseteq Nat
  BY DEF Init, EmptyMap
<1> QED  BY <1>1, <1>2, <1>3 DEF Init, TypeOK

LEMMA RouterCellType == ASSUME TypeOK, NEW r \in Router PROVE RouterCell(r) \in Cells
  BY CellType DEF TypeOK, RouterCell

LEMMA SmCellType == ASSUME TypeOK PROVE SmCell \in Cells
<1>1. sm.r \in 0 .. Routers /\ sm.last \in 0 .. Slots - 1
  BY Constants DEF TypeOK, Router
<1> QED  BY <1>1 DEF SmCell, Cells

LEMMA AdvanceType ==
  ASSUME TypeOK, Advance
  PROVE  sm' \in [pc : {"poll", "visit", "busy", "take", "clear", "reset", "release"},
                  last : 0 .. Slots - 1, pos : Nat, cur : Nat, r : Router, rec : Nat, i : Nat]
<1> DEFINE SmType == [pc : {"poll", "visit", "busy", "take", "clear", "reset", "release"},
                     last : 0 .. Slots - 1, pos : Nat, cur : Nat, r : Router, rec : Nat, i : Nat]
<1>0. sm \in SmType
  BY DEF TypeOK
<1>1. 0 \in Router
  BY Constants DEF Router
<1>2. sm.last \in 0 .. Slots - 1
  BY <1>0
<1> DEFINE next == NextIndex(sm.last)
<1>3. next \in 0 .. Slots - 1
  BY <1>2, IndexTypes
<1>4. CASE sm.r + 1 < Routers
  <2>1. sm.r + 1 \in Router
    BY <1>0, <1>4, Constants DEF Router
  <2> QED  BY <1>0, <1>4, <2>1 DEF Advance
<1>5. CASE ~(sm.r + 1 < Routers)
  <2> DEFINE pc == IF next = ReadIndex(sm.cur) THEN "poll" ELSE "visit"
  <2>1. pc \in {"poll", "visit"}
    OBVIOUS
  <2>2. sm' = [sm EXCEPT !.pc = pc, !.r = 0, !.last = next, !.pos = @ + 1]
    BY <1>5 DEF Advance
  <2>3. sm.pos + 1 \in Nat /\ sm' = [sm EXCEPT !.pc = pc, !.r = 0, !.last = next, !.pos = sm.pos + 1]
    BY <1>0, <2>2
  <2> HIDE DEF next, pc
  <2> QED  BY <1>0, <1>1, <1>3, <2>1, <2>3
<1> QED  BY <1>4, <1>5

LEMMA TypeStep == ASSUME TypeOK, [Next]_vars PROVE TypeOK'
<1> DEFINE MapsOK == \A c \in Cells : DOMAIN msgs[c] \subseteq Nat
<1>0. MapsOK
  BY DEF TypeOK
<1>1. ASSUME NEW r \in Router, Store(r) PROVE TypeOK'
  <2>0. RouterCell(r) \in Cells
    BY RouterCellType
  <2> DEFINE RouterType == [pc : {"idle", "index", "check", "copy", "load", "store"},
                            at : Nat, sec : Nat, idx : 0 .. Slots, n : Nat]
  <2>n. now \in Nat
    BY DEF TypeOK
  <2>r. router \in [Router -> RouterType] /\ router[r] \in RouterType
    BY DEF TypeOK
  <2>1. CASE Begin(r)
    <3> DEFINE w == [router[r] EXCEPT !.pc = "index", !.at = now, !.sec = now]
    <3>1. router' = [router EXCEPT ![r] = w]
      BY <2>1 DEF Begin
    <3>2. w \in RouterType
      BY <2>r, <2>n
    <3> HIDE DEF w
    <3>3. router' \in [Router -> RouterType]
      BY <2>r, <3>1, <3>2
    <3>4. sent' \in [Router -> Nat]
      BY <2>1 DEF Begin, TypeOK
    <3> QED  BY <2>1, <3>3, <3>4 DEF Begin, TypeOK, queue
  <2>2. CASE ReadClockAgain(r)
    <3>1. WriteIndex(router[r].at, now) \in 0 .. Slots
      BY WrittenSlot DEF TypeOK
    <3> DEFINE i == WriteIndex(router[r].at, now)
               s == IF i = 0 THEN router[r].at ELSE now
    <3>2. s \in Nat /\ (i >= Slots) \in BOOLEAN
      BY DEF TypeOK
    <3>3. /\ router' = [router EXCEPT ![r] = [@ EXCEPT !.pc = "check", !.idx = i, !.sec = s]]
          /\ astray' = (astray \/ i >= Slots)
          /\ UNCHANGED <<now, busy, cnt, msgs, sm, sent>>
      BY <2>2 DEF ReadClockAgain, queue
    <3>4. i \in 0 .. Slots
      BY <3>1
    <3> HIDE DEF i, s
    <3> DEFINE w == [router[r] EXCEPT !.pc = "check", !.idx = i, !.sec = s]
    <3>7. w \in RouterType
      BY <2>r, <3>2, <3>4
    <3>8. router' = [router EXCEPT ![r] = w]
      BY <3>3
    <3> HIDE DEF w
    <3>5. router' \in [Router -> RouterType]
      BY <2>r, <3>7, <3>8
    <3>6. astray' \in BOOLEAN
      BY <3>3 DEF TypeOK
    <3> QED  BY <3>3, <3>5, <3>6 DEF TypeOK
  <2>3. CASE Refuse(r)
    BY <2>3 DEF Refuse, Goto, TypeOK, queue
  <2>4. CASE PassBusy(r)
    BY <2>4 DEF PassBusy, Goto, TypeOK, queue, history
  <2>5. CASE Copy(r)
    <3> DEFINE m == Stored(msgs[RouterCell(r)], cnt[RouterCell(r)], sent[r])
    <3>1. DOMAIN m \subseteq Nat
      BY <2>0 DEF TypeOK, Stored
    <3>2. msgs' = [msgs EXCEPT ![RouterCell(r)] = m]
      BY <2>5 DEF Copy
    <3> HIDE DEF m
    <3>3. MapsOK'
      BY <3>1, <3>2, <1>0
    <3> QED  BY <2>5, <3>3 DEF Copy, Goto, TypeOK, history
  <2>6. CASE LoadCount(r)
    <3>1. cnt[RouterCell(r)] \in Nat
      BY <2>0 DEF TypeOK
    <3> DEFINE n == cnt[RouterCell(r)]
               w == [router[r] EXCEPT !.pc = "store", !.n = n]
    <3>2. router' = [router EXCEPT ![r] = w] /\ UNCHANGED <<now, queue, sm, history>>
      BY <2>6 DEF LoadCount
    <3>3. n \in Nat
      BY <3>1
    <3> HIDE DEF n
    <3>4. w \in RouterType
      BY <2>r, <3>3
    <3> HIDE DEF w
    <3>5. router' \in [Router -> RouterType]
      BY <2>r, <3>2, <3>4
    <3> QED  BY <3>2, <3>5 DEF TypeOK, queue, history
  <2>7. CASE StoreCount(r)
    BY <2>0, <2>7 DEF StoreCount, Goto, TypeOK, history
  <2> QED  BY <1>1, <2>1, <2>2, <2>3, <2>4, <2>5, <2>6, <2>7 DEF Store
<1>2. ASSUME Empty PROVE TypeOK'
  <2>0. SmCell \in Cells /\ 0 \in Router
    BY SmCellType, Constants DEF Router
  <2> DEFINE SmType == [pc : {"poll", "visit", "busy", "take", "clear", "reset", "release"},
                     last : 0 .. Slots - 1, pos : Nat, cur : Nat, r : Router, rec : Nat, i : Nat]
  <2>s. sm \in SmType /\ now \in Nat
    BY DEF TypeOK
  <2>1. CASE Poll
    <3>1. sm' = [sm EXCEPT !.pc = "visit", !.cur = now, !.r = 0]
      BY <2>1 DEF Poll
    <3>2. sm' \in SmType
      BY <2>0, <2>s, <3>1
    <3> QED  BY <2>1, <3>2 DEF Poll, TypeOK, queue, history
  <2>2. CASE Pass
    BY <2>2, AdvanceType DEF Pass, TypeOK, queue, history
  <2>3. CASE Snapshot
    <3>1. cnt[SmCell] \in Nat
      BY <2>0 DEF TypeOK
    <3> DEFINE c == cnt[SmCell]
    <3>2. sm' = [sm EXCEPT !.pc = "busy", !.rec = c, !.i = 0] /\ c \in Nat
      BY <2>3, <3>1 DEF Snapshot
    <3> HIDE DEF c
    <3>3. sm' \in SmType
      BY <2>s, <3>2
    <3> QED  BY <2>3, <3>3 DEF Snapshot, TypeOK, queue, history
  <2>4. CASE SetBusy
    BY <2>0, <2>4 DEF SetBusy, TypeOK, history
  <2>5. CASE Take
    <3>4. sm' \in SmType
      <4> DEFINE k == sm.i + 1
      <4>1. k \in Nat
        BY <2>s
      <4>2. \/ sm' = [sm EXCEPT !.pc = "take", !.i = k]
            \/ sm' = [sm EXCEPT !.pc = "clear", !.i = k]
        BY <2>5 DEF Take
      <4> HIDE DEF k
      <4>3. CASE sm' = [sm EXCEPT !.pc = "take", !.i = k]
        BY <2>s, <4>1, <4>3
      <4>4. CASE sm' = [sm EXCEPT !.pc = "clear", !.i = k]
        BY <2>s, <4>1, <4>4
      <4> QED  BY <4>2, <4>3, <4>4
    <3> DEFINE m == Erased(msgs[SmCell], sm.i)
    <3>1. DOMAIN m \subseteq Nat
      BY <2>0 DEF TypeOK, Erased
    <3>2. msgs' = [msgs EXCEPT ![SmCell] = m]
      BY <2>5 DEF Take
    <3> HIDE DEF m
    <3>3. MapsOK'
      BY <3>1, <3>2, <1>0
    <3> QED  BY <2>5, <3>3, <3>4 DEF Take, TypeOK
  <2>6. CASE Clear
    <3>1. msgs' = [msgs EXCEPT ![SmCell] = EmptyMap] /\ DOMAIN EmptyMap \subseteq Nat
      BY <2>6 DEF Clear, EmptyMap
    <3>2. MapsOK'
      BY <3>1, <1>0
    <3> QED  BY <2>6, <3>2 DEF Clear, TypeOK, history
  <2>7. CASE ResetCount
    BY <2>0, <2>7 DEF ResetCount, TypeOK, history
  <2>8. CASE Release
    BY <2>0, <2>8, AdvanceType DEF Release, TypeOK, history
  <2> QED  BY <1>2, <2>1, <2>2, <2>3, <2>4, <2>5, <2>6, <2>7, <2>8 DEF Empty
<1>3. CASE Tick
  BY <1>3 DEF Tick, TypeOK, queue, history
<1>4. CASE UNCHANGED vars
  BY <1>4 DEF vars, TypeOK, queue, history
<1> QED  BY <1>1, <1>2, <1>3, <1>4 DEF Next

(* The variables have their types in every reachable state, also when      *)
(* threads are late or a message goes astray.                              *)
THEOREM TypeCorrect == Spec => []TypeOK
<1>1. Init => TypeOK
  BY TypeInit
<1>2. TypeOK /\ [Next]_vars => TypeOK'
  BY TypeStep
<1> QED  BY <1>1, <1>2, PTL DEF Spec

-----------------------------------------------------------------------------
(* Reader and writers never meet in a slot. *)

(* The session manager works on a second before the current one, no more   *)
(* than MaxLag before it.                                                  *)
ReaderBehind ==
  /\ sm.last = ReadIndex(sm.pos)
  /\ sm.pos <= now /\ now <= sm.pos + MaxLag
  /\ sm.cur <= now
  /\ sm.pc # "poll" => sm.pos < sm.cur

(* A router writes into the slot of the second after one it has seen since *)
(* it began.                                                               *)
WriterAhead ==
  \A r \in Router :
    /\ router[r].at <= now
    /\ router[r].pc # "idle" => now <= router[r].at + MaxStall
    /\ InStore(r) => /\ router[r].at <= router[r].sec /\ router[r].sec <= now
                     /\ router[r].idx < Slots => router[r].idx = ReadIndex(router[r].sec + 1)
                     /\ ~astray => router[r].idx < Slots

(* Only the queue being emptied has its busy flag set. *)
BusyIsInWork ==
  \A c \in Cells : busy[c] => c = SmCell /\ InQueue /\ sm.pc # "busy"

Timing == TypeOK /\ ReaderBehind /\ WriterAhead /\ BusyIsInWork

LEMMA TimingInit == Init => Timing
<1> SUFFICES ASSUME Init PROVE Timing
  OBVIOUS
<1>1. ReaderBehind
  BY Constants DEF Init, ReaderBehind
<1>2. WriterAhead
  BY DEF Init, WriterAhead, InStore
<1>3. BusyIsInWork
  BY DEF Init, BusyIsInWork
<1> QED  BY <1>1, <1>2, <1>3, TypeInit DEF Timing

LEMMA StoreKeepsTiming ==
  ASSUME Timing, NEW r \in Router, Store(r)
  PROVE  ReaderBehind' /\ WriterAhead' /\ BusyIsInWork'
<1> USE DEF Timing
<1>1. UNCHANGED <<now, busy, sm>>
  BY DEF Store, Begin, ReadClockAgain, Refuse, PassBusy, Copy, LoadCount, StoreCount, queue, history
<1>2. ReaderBehind'
  BY <1>1 DEF ReaderBehind
<1>3. BusyIsInWork'
  BY <1>1 DEF BusyIsInWork, SmCell, InQueue
<1> DEFINE Ahead(q) ==
      /\ router[q].at <= now
      /\ router[q].pc # "idle" => now <= router[q].at + MaxStall
      /\ InStore(q) => /\ router[q].at <= router[q].sec /\ router[q].sec <= now
                       /\ router[q].idx < Slots => router[q].idx = ReadIndex(router[q].sec + 1)
                       /\ ~astray => router[q].idx < Slots
<1>4. \A q \in Router : Ahead(q)
  BY DEF WriterAhead
<1>5. \A q \in Router : q # r => router'[q] = router[q]
  BY DEF Store, Begin, ReadClockAgain, Refuse, PassBusy, Copy, LoadCount, StoreCount, Goto, TypeOK
<1>6. ~astray' => ~astray
  BY DEF Store, Begin, ReadClockAgain, Refuse, PassBusy, Copy, LoadCount, StoreCount, history
<1>7. \A q \in Router : q # r => Ahead(q)'
  BY <1>1, <1>4, <1>5, <1>6 DEF InStore
<1>8. Ahead(r)'
  <2>1. CASE Begin(r)
    <3>1. router'[r].pc = "index" /\ router'[r].at = now
      BY <2>1 DEF Begin, TypeOK
    <3> QED  BY <1>1, <3>1, Constants DEF TypeOK, InStore
  <2>2. CASE ReadClockAgain(r)
    <3> DEFINE i == WriteIndex(router[r].at, now)
               s == IF i = 0 THEN router[r].at ELSE now
    <3>1. /\ router'[r].pc = "check" /\ router'[r].idx = i /\ router'[r].sec = s
          /\ router'[r].at = router[r].at
          /\ astray' = (astray \/ i >= Slots)
      BY <2>2 DEF ReadClockAgain, TypeOK
    <3>2. router[r].at \in Nat /\ now \in Nat
      BY DEF TypeOK
    <3>3. i \in 0 .. Slots /\ (i < Slots => i = ReadIndex(s + 1))
      <4>1. i \in 0 .. Slots
        BY <3>2, WrittenSlot
      <4>2. CASE i = 0
        <5>1. i = ReadIndex(router[r].at + 1)
          BY <3>2, <4>2, WrittenSlot
        <5> QED  BY <4>1, <4>2, <5>1
      <4>3. CASE i # 0
        <5>1. i \in 1 .. Slots - 1 => i = ReadIndex(now + 1)
          BY <3>2, WrittenSlot
        <5>2. s = now
          BY <4>3
        <5> HIDE DEF i, s
        <5> QED  BY <4>1, <4>3, <5>1, <5>2, Constants
      <4> QED  BY <4>2, <4>3
    <3>4. s \in Nat /\ router[r].at <= s /\ s <= now /\ now <= router[r].at + MaxStall
      BY <1>4, <2>2, <3>2 DEF ReadClockAgain
    <3> HIDE DEF i, s
    <3>5. ~astray' => i < Slots
      <4>1. ~astray' => ~(i >= Slots)
        BY <3>1, Zenon
      <4> QED  BY <3>3, <4>1, Constants
    <3> QED  BY <1>1, <3>1, <3>2, <3>3, <3>4, <3>5
  <2>3. ASSUME Refuse(r) \/ PassBusy(r) \/ Copy(r) \/ LoadCount(r) \/ StoreCount(r)
        PROVE  Ahead(r)'
    <3>1. /\ router'[r].at = router[r].at /\ router'[r].sec = router[r].sec
          /\ router'[r].idx = router[r].idx /\ InStore(r)
          /\ router[r].pc # "idle" /\ astray' = astray
      <4>1. CASE LoadCount(r)
        BY <4>1 DEF LoadCount, InStore, TypeOK, history
      <4>2. ASSUME NEW pc, Goto(r, pc)
            PROVE  /\ router'[r].at = router[r].at /\ router'[r].sec = router[r].sec
                   /\ router'[r].idx = router[r].idx
        BY <4>2 DEF Goto, TypeOK
      <4>3. CASE Refuse(r) \/ PassBusy(r) \/ Copy(r) \/ StoreCount(r)
        <5>1. \E pc : Goto(r, pc)
          BY <4>3, Zenon DEF Refuse, PassBusy, Copy, StoreCount
        <5>2. router[r].pc \in {"check", "copy", "store"} /\ astray' = astray
          BY <4>3 DEF Refuse, PassBusy, Copy, StoreCount, history
        <5> QED  BY <4>2, <5>1, <5>2 DEF InStore
      <4> QED  BY <2>3, <4>1, <4>3
    <3> QED  BY <1>1, <1>4, <3>1
  <2> QED  BY <2>1, <2>2, <2>3 DEF Store
<1> HIDE DEF Ahead
<1>9. \A q \in Router : Ahead(q)'
  BY <1>7, <1>8
<1> USE DEF Ahead
<1>10. WriterAhead'
  BY <1>9 DEF WriterAhead
<1> QED  BY <1>2, <1>3, <1>10

(* Moving on to the next queue or slot. *)
LEMMA AdvanceBehind ==
  ASSUME TypeOK, ReaderBehind, sm.pc # "poll", Advance, now' = now
  PROVE  ReaderBehind' /\ ~InQueue'
<1>0. sm.pos \in Nat /\ sm.cur \in Nat /\ now \in Nat /\ sm.last = ReadIndex(sm.pos)
  BY DEF TypeOK, ReaderBehind
<1>1. CASE sm.r + 1 < Routers
  <2>1. /\ sm'.pc = "visit" /\ sm'.last = sm.last /\ sm'.pos = sm.pos /\ sm'.cur = sm.cur
    BY <1>1 DEF Advance, TypeOK
  <2> QED  BY <2>1 DEF ReaderBehind, InQueue
<1>2. CASE ~(sm.r + 1 < Routers)
  <2>1. /\ sm'.pc = IF NextIndex(sm.last) = ReadIndex(sm.cur) THEN "poll" ELSE "visit"
        /\ sm'.last = NextIndex(sm.last) /\ sm'.pos = sm.pos + 1 /\ sm'.cur = sm.cur
    BY <1>2 DEF Advance, TypeOK
  <2>2. NextIndex(sm.last) = ReadIndex(sm.pos + 1)
    BY <1>0, NextSlot
  <2>3. sm.pos + 1 = sm.cur => sm'.pc = "poll"
    BY <2>1, <2>2
  <2>4. ReaderBehind'
    BY <1>0, <2>1, <2>2, <2>3, Constants DEF ReaderBehind
  <2>5. ~InQueue'
    BY <2>1 DEF InQueue
  <2> QED  BY <2>4, <2>5
<1> QED  BY <1>1, <1>2

LEMMA EmptyKeepsTiming ==
  ASSUME Timing, Empty
  PROVE  ReaderBehind' /\ WriterAhead' /\ BusyIsInWork'
<1> USE DEF Timing
<1>1. UNCHANGED <<now, router, astray>>
  BY DEF Empty, Poll, Pass, Snapshot, SetBusy, Take, Clear, ResetCount, Release, history
<1>2. WriterAhead'
  BY <1>1 DEF WriterAhead, InStore
<1>3. SmCell \in Cells
  BY SmCellType
<1>4. CASE Poll
  <2>1. /\ sm.pc = "poll" /\ sm.last # ReadIndex(now) /\ busy' = busy
        /\ sm'.pc = "visit" /\ sm'.cur = now /\ sm'.last = sm.last /\ sm'.pos = sm.pos
    BY <1>4 DEF Poll, TypeOK, queue
  <2>2. sm.pos # now
    BY <2>1 DEF ReaderBehind
  <2>3. ReaderBehind'
    BY <1>1, <2>1, <2>2 DEF ReaderBehind, TypeOK
  <2>4. BusyIsInWork'
    BY <2>1 DEF BusyIsInWork, InQueue
  <2> QED  BY <1>2, <2>3, <2>4
<1>5. CASE Pass
  <2>1. sm.pc = "visit" /\ Advance /\ busy' = busy
    BY <1>5 DEF Pass, queue
  <2>2. ReaderBehind'
    BY <1>1, <2>1, AdvanceBehind
  <2>3. BusyIsInWork'
    BY <2>1 DEF BusyIsInWork, InQueue
  <2> QED  BY <1>2, <2>2, <2>3
<1>6. CASE Release
  <2>1. /\ sm.pc = "release" /\ Advance /\ busy' = [busy EXCEPT ![SmCell] = FALSE]
    BY <1>6 DEF Release
  <2>2. ReaderBehind'
    BY <1>1, <2>1, AdvanceBehind
  <2>3. \A c \in Cells : ~busy'[c]
    BY <1>3, <2>1 DEF BusyIsInWork, TypeOK
  <2>4. BusyIsInWork'
    BY <2>3 DEF BusyIsInWork
  <2> QED  BY <1>2, <2>2, <2>4
<1>7. CASE SetBusy
  <2>1. /\ sm.pc = "busy" /\ busy' = [busy EXCEPT ![SmCell] = TRUE]
        /\ sm'.pc = "take" /\ sm'.last = sm.last /\ sm'.pos = sm.pos /\ sm'.cur = sm.cur
        /\ sm'.r = sm.r
    BY <1>7 DEF SetBusy, TypeOK
  <2>2. ReaderBehind'
    BY <1>1, <2>1 DEF ReaderBehind
  <2>3. \A c \in Cells : busy'[c] => c = SmCell
    BY <1>3, <2>1 DEF BusyIsInWork, TypeOK
  <2>4. BusyIsInWork'
    BY <2>1, <2>3 DEF BusyIsInWork, SmCell, InQueue
  <2> QED  BY <1>2, <2>2, <2>4
<1>8. CASE Snapshot
  <2>1. /\ sm.pc = "visit" /\ busy' = busy
        /\ sm'.pc = "busy" /\ sm'.last = sm.last /\ sm'.pos = sm.pos /\ sm'.cur = sm.cur
    BY <1>8 DEF Snapshot, TypeOK, queue
  <2>2. ReaderBehind'
    BY <1>1, <2>1 DEF ReaderBehind
  <2>3. BusyIsInWork'
    BY <2>1 DEF BusyIsInWork, InQueue
  <2> QED  BY <1>2, <2>2, <2>3
<1>9. CASE Take \/ Clear \/ ResetCount
  <2>1. /\ sm.pc \in {"take", "clear", "reset"} /\ busy' = busy
        /\ sm'.pc \in {"take", "clear", "reset", "release"}
        /\ sm'.last = sm.last /\ sm'.pos = sm.pos /\ sm'.cur = sm.cur /\ sm'.r = sm.r
    BY <1>9 DEF Take, Clear, ResetCount, TypeOK
  <2>2. ReaderBehind'
    BY <1>1, <2>1 DEF ReaderBehind
  <2>3. BusyIsInWork'
    BY <2>1 DEF BusyIsInWork, SmCell, InQueue
  <2> QED  BY <1>2, <2>2, <2>3
<1> QED  BY <1>4, <1>5, <1>6, <1>7, <1>8, <1>9 DEF Empty

LEMMA TickKeepsTiming ==
  ASSUME Timing, Tick
  PROVE  ReaderBehind' /\ WriterAhead' /\ BusyIsInWork'
<1> USE DEF Timing
<1>1. /\ now' = now + 1 /\ now < sm.pos + MaxLag
      /\ \A r \in Router : router[r].pc # "idle" => now < router[r].at + MaxStall
      /\ UNCHANGED <<busy, router, sm, astray>>
  BY DEF Tick, queue, history
<1>2. ReaderBehind'
  BY <1>1, Constants DEF ReaderBehind, TypeOK
<1>3. WriterAhead'
  BY <1>1, Constants DEF WriterAhead, InStore, TypeOK
<1>4. BusyIsInWork'
  BY <1>1 DEF BusyIsInWork, SmCell, InQueue
<1> QED  BY <1>2, <1>3, <1>4

LEMMA TimingStep == ASSUME Timing, [Next]_vars PROVE Timing'
<1>1. TypeOK'
  BY TypeStep DEF Timing
<1>2. ASSUME NEW r \in Router, Store(r) PROVE Timing'
  BY <1>1, <1>2, StoreKeepsTiming DEF Timing
<1>3. CASE Empty
  BY <1>1, <1>3, EmptyKeepsTiming DEF Timing
<1>4. CASE Tick
  BY <1>1, <1>4, TickKeepsTiming DEF Timing
<1>5. CASE UNCHANGED vars
  <2>1. UNCHANGED <<now, busy, router, sm, astray>>
    BY <1>5 DEF vars, queue, history
  <2> QED  BY <1>1, <2>1 DEF Timing, ReaderBehind, WriterAhead, BusyIsInWork, InStore, InQueue, SmCell
<1> QED  BY <1>2, <1>3, <1>4, <1>5 DEF Next

LEMMA TimingApart == ASSUME Timely, Timing PROVE Apart
<1> SUFFICES ASSUME ~astray, NEW r \in Router, InStore(r), InQueue, RouterCell(r) = SmCell,
                    now <= router[r].at + 1
             PROVE  FALSE
  BY DEF Apart
<1>1. /\ sm.last = ReadIndex(sm.pos) /\ sm.pos \in Nat /\ sm.pos < now
      /\ now <= sm.pos + MaxLag
  BY DEF Timing, ReaderBehind, InQueue, TypeOK
<1>2. /\ router[r].sec \in Nat /\ now <= router[r].sec + 1 /\ router[r].sec <= now
      /\ router[r].idx < Slots /\ router[r].idx = ReadIndex(router[r].sec + 1)
  <2>1. /\ router[r].at \in Nat /\ router[r].sec \in Nat /\ now \in Nat
    BY DEF Timing, TypeOK
  <2>2. router[r].pc # "idle"
    BY DEF InStore
  <2>3. /\ now <= router[r].at + MaxStall
        /\ router[r].at <= router[r].sec /\ router[r].sec <= now
        /\ router[r].idx < Slots /\ router[r].idx = ReadIndex(router[r].sec + 1)
    BY <2>2 DEF Timing, WriterAhead
  <2> QED  BY <2>1, <2>3, Constants
<1>3. router[r].idx = sm.last
  BY <1>2 DEF RouterCell, Cell, SmCell
<1>4. now \in Nat
  BY DEF Timing, TypeOK
<1> DEFINE w == router[r].sec + 1
<1>5. w \in Nat /\ sm.pos < w /\ w < sm.pos + Slots
  BY <1>1, <1>2, <1>4, Constants DEF Timely
<1> QED  BY <1>1, <1>2, <1>3, <1>5, SlotsApart

(* The time slots do the work of a lock: if the session manager is behind  *)
(* by at most Slots - 2 seconds, no router that stores by the end of the   *)
(* second after the one it read the clock in is ever in the queue that is  *)
(* being emptied, short of a message that went beyond the last slot.       *)
THEOREM SlotsKeepApart == ASSUME Timely PROVE Spec => []Apart
<1>1. Init => Timing
  BY TimingInit
<1>2. Timing /\ [Next]_vars => Timing'
  BY TimingStep
<1>3. Timing => Apart
  BY TimingApart
<1> QED  BY <1>1, <1>2, <1>3, PTL DEF Spec

(* The history of lost and of late messages is made of messages. *)
HistoryType ==
  sent \in [Router -> Nat] /\ refused \in [Router -> SUBSET Nat] /\ late \in [Router -> SUBSET Nat]

Refusals == Timing /\ HistoryType /\ NeverRefused

LEMMA RefusalsStep == ASSUME Timely, Refusals, [Next]_vars PROVE Refusals'
<1> SUFFICES ASSUME Timing, HistoryType, NeverRefused, [Next]_vars
             PROVE  NeverRefused' /\ HistoryType'
  BY TimingStep DEF Refusals
<1>0. sent \in [Router -> Nat] /\ sent' \in [Router -> Nat]
  <2>1. TypeOK /\ TypeOK'
    BY TypeStep DEF Timing
  <2> QED  BY <2>1 DEF TypeOK
<1>h. refused \in [Router -> SUBSET Nat] /\ late \in [Router -> SUBSET Nat]
  BY DEF HistoryType
<1>1. ASSUME NEW r \in Router, Refuse(r) PROVE NeverRefused' /\ HistoryType'
  <2>0. /\ refused' = [refused EXCEPT ![r] = @ \cup {sent[r]}]
        /\ late' = late \/ late' = [late EXCEPT ![r] = @ \cup {sent[r]}]
        /\ astray' = astray
    BY <1>1 DEF Refuse, NoteLate
  <2>t. HistoryType'
    BY <1>0, <1>h, <2>0 DEF HistoryType
  <2>1. CASE astray
    BY <2>0, <2>1, <2>t DEF NeverRefused
  <2>2. CASE ~astray
    <3>1. RouterCell(r) \in Cells /\ busy[RouterCell(r)] /\ InStore(r)
      BY <1>1, RouterCellType DEF Refuse, InStore, Timing
    <3>2. RouterCell(r) = SmCell /\ InQueue
      BY <3>1 DEF Timing, BusyIsInWork
    <3>3. ~(now <= router[r].at + 1)
      BY <2>2, <3>1, <3>2, TimingApart DEF Apart
    <3>4. now \in Nat /\ router[r].at \in Nat
      BY DEF Timing, TypeOK
    <3>5. now > router[r].at + 1
      BY <3>3, <3>4
    <3>6. /\ refused' = [refused EXCEPT ![r] = @ \cup {sent[r]}]
          /\ late' = [late EXCEPT ![r] = @ \cup {sent[r]}]
          /\ astray' = astray
      BY <1>1, <3>5 DEF Refuse, NoteLate
    <3>7. \A q \in Router : refused[q] \subseteq late[q]
      BY <2>2 DEF NeverRefused
    <3>9. \A q \in Router : refused'[q] \subseteq late'[q]
      BY <1>h, <3>6, <3>7
    <3> QED  BY <2>t, <3>9 DEF NeverRefused
  <2> QED  BY <2>1, <2>2
<1>2. ASSUME refused' = refused, astray => astray', late' \in [Router -> SUBSET Nat],
              NEW r \in Router, late' = late \/ late' = [late EXCEPT ![r] = @ \cup {sent[r]}]
       PROVE  NeverRefused' /\ HistoryType'
  <2>1. \A q \in Router : late[q] \subseteq late'[q]
    BY <1>h, <1>2
  <2>2. NeverRefused'
    BY <1>2, <2>1 DEF NeverRefused
  <2>3. HistoryType'
    BY <1>0, <1>h, <1>2 DEF HistoryType
  <2> QED  BY <2>2, <2>3
<1>3. ASSUME NEW r \in Router, Store(r) PROVE NeverRefused' /\ HistoryType'
  <2>1. CASE Refuse(r)
    BY <1>1, <2>1
  <2>2. CASE ~Refuse(r)
    <3>1. refused' = refused /\ (astray => astray')
      <4>1. CASE ReadClockAgain(r)
        BY <4>1, Zenon DEF ReadClockAgain
      <4>2. CASE Begin(r) \/ PassBusy(r) \/ Copy(r) \/ LoadCount(r) \/ StoreCount(r)
        BY <4>2 DEF Begin, PassBusy, Copy, LoadCount, StoreCount, history
      <4> QED  BY <1>3, <2>2, <4>1, <4>2, Zenon DEF Store
    <3>2. late' = late \/ late' = [late EXCEPT ![r] = @ \cup {sent[r]}]
      <4>1. CASE ReadClockAgain(r)
        BY <4>1, Zenon DEF ReadClockAgain
      <4>2. CASE Begin(r) \/ PassBusy(r) \/ Copy(r) \/ LoadCount(r) \/ StoreCount(r)
        BY <4>2 DEF Begin, PassBusy, Copy, LoadCount, StoreCount, history, NoteLate
      <4> QED  BY <1>3, <2>2, <4>1, <4>2, Zenon DEF Store
    <3>3. late' \in [Router -> SUBSET Nat]
      BY <1>0, <1>h, <3>2
    <3> QED  BY <1>2, <3>1, <3>2, <3>3
  <2> QED  BY <2>1, <2>2
<1>4. CASE Empty \/ Tick \/ UNCHANGED vars
  <2>1. refused' = refused /\ astray' = astray /\ late' = late
    <3>1. CASE Empty
      BY <3>1 DEF Empty, Poll, Pass, Snapshot, SetBusy, Take, Clear, ResetCount, Release, history
    <3>2. CASE Tick
      BY <3>2 DEF Tick, history
    <3>3. CASE UNCHANGED vars
      BY <3>3 DEF vars, history
    <3> QED  BY <1>4, <3>1, <3>2, <3>3
  <2>2. 0 \in Router
    BY Constants DEF Router
  <2> QED  BY <1>h, <1>2, <2>1, <2>2
<1> QED  BY <1>3, <1>4 DEF Next

(* Hence the busy flag, which is tested and set without a lock, makes a    *)
(* router drop a message only if the router is late with it.               *)
THEOREM BusyNeverRefuses == ASSUME Timely PROVE Spec => []NeverRefused
<1>1. Init => Refusals
  <2>1. Init => NeverRefused /\ HistoryType
    BY DEF Init, NeverRefused, HistoryType
  <2> QED  BY <2>1, TimingInit DEF Refusals
<1>2. Refusals /\ [Next]_vars => Refusals'
  BY RefusalsStep
<1>3. Refusals => NeverRefused
  BY DEF Refusals
<1> QED  BY <1>1, <1>2, <1>3, PTL DEF Spec

-----------------------------------------------------------------------------
(* Messages are processed in the order in which they were sent. *)

(* The session manager's place in the queue it is emptying, and what       *)
(* routers know of the clock.                                              *)
Progress ==
  /\ processed \in [Router -> Seq(Nat)]
  /\ DOMAIN msgs = Cells
  /\ \A c \in Cells : \A j \in DOMAIN msgs[c] : msgs[c][j] \in Nat
  /\ sm.pc = "poll" => sm.r = 0
  /\ sm.pc = "busy" => sm.i = 0 /\ sm.rec > 0
  /\ sm.pc = "take" => sm.i < sm.rec
  /\ sm.pc \in {"clear", "reset"} => sm.i = sm.rec
  /\ \A q \in Router :
       /\ router[q].at <= router[q].sec /\ router[q].sec <= now
       /\ router[q].pc = "index" => router[q].sec = router[q].at
       /\ router[q].pc # "idle" => sent[q] > 0

LEMMA Fields ==
  ASSUME TypeOK
  PROVE  /\ now \in Nat /\ sm.pos \in Nat /\ sm.i \in Nat /\ sm.rec \in Nat /\ sm.r \in Router
         /\ sm.cur \in Nat
         /\ \A q \in Router : /\ router[q].at \in Nat /\ router[q].sec \in Nat
                               /\ router[q].n \in Nat /\ sent[q] \in Nat
                               /\ q \in Nat
<1>1. /\ now \in Nat /\ sm.pos \in Nat /\ sm.i \in Nat /\ sm.rec \in Nat /\ sm.r \in Router
      /\ sm.cur \in Nat
  BY DEF TypeOK
<1>2. ASSUME NEW q \in Router
      PROVE  /\ router[q].at \in Nat /\ router[q].sec \in Nat /\ router[q].n \in Nat /\ sent[q] \in Nat
  BY DEF TypeOK
<1>3. \A q \in Router : q \in Nat
  BY Constants DEF Router
<1> QED  BY <1>1, <1>2, <1>3

LEMMA ProgressInit == Init => Progress
<1> SUFFICES ASSUME Init PROVE Progress
  OBVIOUS
<1>1. DOMAIN msgs = Cells /\ \A c \in Cells : \A j \in DOMAIN msgs[c] : msgs[c][j] \in Nat
  BY DEF Init, EmptyMap
<1>2. processed \in [Router -> Seq(Nat)]
  BY DEF Init
<1> QED  BY <1>1, <1>2 DEF Init, Progress

LEMMA StoreKeepsProgress ==
  ASSUME Timing, Progress, NEW r \in Router, Store(r)
  PROVE  Progress'
<1> DEFINE Knows(q) == /\ router[q].at <= router[q].sec /\ router[q].sec <= now
                       /\ router[q].pc = "index" => router[q].sec = router[q].at
                       /\ router[q].pc # "idle" => sent[q] > 0
<1>t. TypeOK
  BY DEF Timing
<1>0. \A q \in Router : Knows(q)
  BY DEF Progress
<1>1. UNCHANGED <<now, sm, processed>>
  BY DEF Store, Begin, ReadClockAgain, Refuse, PassBusy, Copy, LoadCount, StoreCount, queue, history
<1>2. DOMAIN msgs' = Cells /\ \A c \in Cells : \A j \in DOMAIN msgs'[c] : msgs'[c][j] \in Nat
  <2>0. DOMAIN msgs = Cells /\ \A c \in Cells : \A j \in DOMAIN msgs[c] : msgs[c][j] \in Nat
    BY DEF Progress
  <2>1. CASE msgs' = msgs
    BY <2>0, <2>1
  <2>2. CASE Copy(r)
    <3> DEFINE m == Stored(msgs[RouterCell(r)], cnt[RouterCell(r)], sent[r])
    <3>1. \A j \in DOMAIN m : m[j] \in Nat
      BY <1>t, <2>0, RouterCellType DEF Stored, TypeOK
    <3>2. msgs' = [msgs EXCEPT ![RouterCell(r)] = m]
      BY <2>2 DEF Copy
    <3> HIDE DEF m
    <3> QED  BY <2>0, <3>1, <3>2
  <2>3. Copy(r) \/ msgs' = msgs
    BY DEF Store, Begin, ReadClockAgain, Refuse, PassBusy, LoadCount, StoreCount, queue
  <2> QED  BY <2>1, <2>2, <2>3
<1>3. ASSUME NEW q \in Router PROVE Knows(q)'
  <2>1. CASE q # r
    <3>1. router'[q] = router[q] /\ sent'[q] = sent[q]
      BY <1>t, <2>1 DEF Store, Begin, ReadClockAgain, Refuse, PassBusy, Copy, LoadCount, StoreCount, Goto, TypeOK, history
    <3> QED  BY <1>0, <1>1, <3>1
  <2>2. CASE q = r /\ Begin(r)
    <3>1. /\ router'[r].pc = "index" /\ router'[r].at = now /\ router'[r].sec = now /\ sent'[r] = sent[r] + 1
      BY <1>t, <2>2 DEF Begin, TypeOK
    <3> QED  BY <1>1, <1>t, <2>2, <3>1, Fields
  <2>3. CASE q = r /\ ReadClockAgain(r)
    <3>1. /\ router'[r].pc = "check" /\ router'[r].at = router[r].at /\ sent'[r] = sent[r]
          /\ router'[r].sec \in {router[r].at, now} /\ router[r].pc = "index"
      BY <1>t, <2>3 DEF ReadClockAgain, TypeOK
    <3> QED  BY <1>0, <1>1, <1>t, <2>3, <3>1, Fields
  <2>4. CASE q = r /\ (Refuse(r) \/ PassBusy(r) \/ Copy(r) \/ LoadCount(r) \/ StoreCount(r))
    <3>1. /\ router'[r].at = router[r].at /\ router'[r].sec = router[r].sec /\ sent'[r] = sent[r]
          /\ router'[r].pc # "index" /\ router[r].pc # "idle"
      <4>1. CASE LoadCount(r)
        BY <1>t, <4>1 DEF LoadCount, TypeOK, history
      <4>2. ASSUME NEW pc, Goto(r, pc)
            PROVE  /\ router'[r].at = router[r].at /\ router'[r].sec = router[r].sec /\ router'[r].pc = pc
        BY <1>t, <4>2 DEF Goto, TypeOK
      <4>3. CASE Refuse(r) \/ PassBusy(r) \/ Copy(r) \/ StoreCount(r)
        <5>1. \E pc \in {"idle", "copy", "load"} : Goto(r, pc)
          BY <4>3 DEF Refuse, PassBusy, Copy, StoreCount
        <5>2. router[r].pc \in {"check", "copy", "store"} /\ sent' = sent
          BY <4>3 DEF Refuse, PassBusy, Copy, StoreCount, history
        <5> QED  BY <4>2, <5>1, <5>2
      <4> QED  BY <2>4, <4>1, <4>3
    <3> QED  BY <1>0, <1>1, <2>4, <3>1
  <2> QED  BY <2>1, <2>2, <2>3, <2>4 DEF Store
<1> HIDE DEF Knows
<1>4. \A q \in Router : Knows(q)'
  BY <1>3
<1> USE DEF Knows
<1> QED  BY <1>1, <1>2, <1>4 DEF Progress

LEMMA AdvanceProgress ==
  ASSUME TypeOK, Advance
  PROVE  /\ sm'.pc \in {"poll", "visit"} /\ (sm'.pc = "poll" => sm'.r = 0)
<1>1. CASE sm.r + 1 < Routers
  BY <1>1 DEF Advance, TypeOK
<1>2. CASE ~(sm.r + 1 < Routers)
  BY <1>2 DEF Advance, TypeOK
<1> QED  BY <1>1, <1>2

LEMMA EmptyKeepsProgress ==
  ASSUME Timing, Progress, Empty
  PROVE  Progress'
<1>t. TypeOK /\ SmCell \in Cells /\ sm.r \in Router
  BY SmCellType, Fields DEF Timing
<1>1. UNCHANGED <<now, router, sent>>
  BY DEF Empty, Poll, Pass, Snapshot, SetBusy, Take, Clear, ResetCount, Release, history
<1>2. DOMAIN msgs' = Cells /\ \A c \in Cells : \A j \in DOMAIN msgs'[c] : msgs'[c][j] \in Nat
  <2>0. DOMAIN msgs = Cells /\ \A c \in Cells : \A j \in DOMAIN msgs[c] : msgs[c][j] \in Nat
    BY DEF Progress
  <2>1. \/ msgs' = msgs \/ msgs' = [msgs EXCEPT ![SmCell] = Erased(@, sm.i)]
        \/ msgs' = [msgs EXCEPT ![SmCell] = EmptyMap]
    BY DEF Empty, Poll, Pass, Snapshot, SetBusy, Take, Clear, ResetCount, Release, queue
  <2>2. \A j \in DOMAIN Erased(msgs[SmCell], sm.i) : Erased(msgs[SmCell], sm.i)[j] \in Nat
    BY <1>t, <2>0 DEF Erased
  <2>3. \A j \in DOMAIN EmptyMap : EmptyMap[j] \in Nat
    BY DEF EmptyMap
  <2> DEFINE erased == Erased(msgs[SmCell], sm.i)
             empty == EmptyMap
  <2>4. \/ msgs' = msgs \/ msgs' = [msgs EXCEPT ![SmCell] = erased] \/ msgs' = [msgs EXCEPT ![SmCell] = empty]
    BY <2>1
  <2>5. (\A j \in DOMAIN erased : erased[j] \in Nat) /\ (\A j \in DOMAIN empty : empty[j] \in Nat)
    BY <2>2, <2>3
  <2> HIDE DEF erased, empty
  <2>6. CASE msgs' = [msgs EXCEPT ![SmCell] = erased]
    BY <1>t, <2>0, <2>5, <2>6
  <2>7. CASE msgs' = [msgs EXCEPT ![SmCell] = empty]
    BY <1>t, <2>0, <2>5, <2>7
  <2> QED  BY <2>0, <2>4, <2>6, <2>7
<1>3. processed' \in [Router -> Seq(Nat)]
  <2>0. processed \in [Router -> Seq(Nat)]
    BY DEF Progress
  <2>1. CASE Take
    <3> DEFINE x == Found(msgs[SmCell], sm.i, Phantom)
    <3>1. x \in Nat
      BY <1>t DEF Progress, Found, Phantom
    <3>2. processed' = [processed EXCEPT ![sm.r] = Append(@, x)]
      BY <2>1 DEF Take
    <3> HIDE DEF x
    <3>3. Append(processed[sm.r], x) \in Seq(Nat)
      BY <1>t, <2>0, <3>1
    <3> QED  BY <1>t, <2>0, <3>2, <3>3
  <2>2. CASE ~Take
    BY <2>0, <2>2 DEF Empty, Poll, Pass, Snapshot, SetBusy, Clear, ResetCount, Release, history
  <2> QED  BY <2>1, <2>2
<1>4. /\ sm'.pc = "poll" => sm'.r = 0
      /\ sm'.pc = "busy" => sm'.i = 0 /\ sm'.rec > 0
      /\ sm'.pc = "take" => sm'.i < sm'.rec
      /\ sm'.pc \in {"clear", "reset"} => sm'.i = sm'.rec
  <2>1. CASE Poll
    BY <1>t, <2>1 DEF Poll, TypeOK
  <2>2. CASE Pass \/ Release
    BY <1>t, <2>2, AdvanceProgress DEF Pass, Release
  <2>3. CASE Snapshot
    <3>1. sm'.pc = "busy" /\ sm'.i = 0 /\ sm'.rec = cnt[SmCell] /\ cnt[SmCell] > 0
      BY <1>t, <2>3 DEF Snapshot, TypeOK
    <3> QED  BY <3>1
  <2>4. CASE SetBusy
    <3>1. sm'.pc = "take" /\ sm'.i = sm.i /\ sm'.rec = sm.rec /\ sm.pc = "busy"
      BY <1>t, <2>4 DEF SetBusy, TypeOK
    <3> QED  BY <3>1, <1>t, Fields DEF Progress
  <2>5. CASE Take
    <3>1. /\ sm'.pc = IF sm.i + 1 < sm.rec THEN "take" ELSE "clear"
          /\ sm'.i = sm.i + 1 /\ sm'.rec = sm.rec /\ sm.i < sm.rec
      BY <1>t, <2>5 DEF Take, TypeOK, Progress
    <3> QED  BY <3>1, <1>t, Fields
  <2>6. CASE Clear
    <3>1. sm'.pc = "reset" /\ sm'.i = sm.i /\ sm'.rec = sm.rec /\ sm.pc = "clear"
      BY <1>t, <2>6 DEF Clear, TypeOK
    <3> QED  BY <3>1 DEF Progress
  <2>7. CASE ResetCount
    BY <1>t, <2>7 DEF ResetCount, TypeOK
  <2> QED  BY <2>1, <2>2, <2>3, <2>4, <2>5, <2>6, <2>7 DEF Empty
<1> QED  BY <1>1, <1>2, <1>3, <1>4 DEF Progress

LEMMA ProgressStep == ASSUME Timing, Progress, [Next]_vars PROVE Progress'
<1>1. ASSUME NEW r \in Router, Store(r) PROVE Progress'
  BY <1>1, StoreKeepsProgress
<1>2. CASE Tick
  <2>1. now' = now + 1 /\ UNCHANGED <<msgs, router, sm, sent, processed>>
    BY <1>2 DEF Tick, queue, history
  <2> QED  BY <2>1, Fields DEF Progress, Timing
<1>3. CASE UNCHANGED vars
  <2>1. UNCHANGED <<now, msgs, router, sm, sent, processed>>
    BY <1>3 DEF vars, queue, history
  <2> QED  BY <2>1 DEF Progress
<1> QED  BY <1>1, <1>2, <1>3, EmptyKeepsProgress DEF Next

(* The queue of router q for second p, and the seconds from the one the     *)
(* session manager is at to the last one that has a slot of its own.       *)
Of(q, p) == <<q, ReadIndex(p)>>
Window   == {p \in Nat : sm.pos <= p /\ p < sm.pos + Slots}

(* How many messages router q has stored, and how many of the queue the    *)
(* session manager is at have been taken.                                  *)
Done(q)  == IF router[q].pc = "idle" THEN sent[q] ELSE sent[q] - 1
Taken(q) == IF sm.r = q /\ sm.pc \in {"take", "clear", "reset"} THEN sm.i ELSE 0

(* B[p] is the number of the first message stored for second p: the queues *)
(* hold consecutive runs of messages, the first begins with the next one   *)
(* to process, the last ends with the last one stored.                     *)
Linked(q, B) == \A p \in Window : B[p + 1] = B[p] + cnt[Of(q, p)]
Closed(q, B) == \A p \in Nat : p >= router[q].sec + 2 => B[p] = Done(q) + 1
Filled(q, B) ==
  \A p \in Window : \A j \in Nat :
    (p = sm.pos => j >= Taken(q)) /\ j < cnt[Of(q, p)] =>
      j \in DOMAIN msgs[Of(q, p)] /\ msgs[Of(q, p)][j] = B[p] + j
Reached(q, B) ==
  /\ B[sm.pos] + Taken(q) = Len(processed[q]) + 1
  /\ \A n \in DOMAIN processed[q] : processed[q][n] = n

(* The queue in work does not change but by the session manager.           *)
Passed(q) ==
  /\ q < sm.r => cnt[Of(q, sm.pos)] = 0
  /\ q = sm.r => /\ sm.pc \in {"busy", "take", "clear", "reset"} => cnt[Of(q, sm.pos)] = sm.rec
                 /\ sm.pc = "release" => cnt[Of(q, sm.pos)] = 0

(* Nor does the queue in which a router that is in time is storing.        *)
Storing(q) ==
  router[q].pc \in {"load", "store"} /\ now <= router[q].at + 1 =>
    /\ cnt[RouterCell(q)] \in DOMAIN msgs[RouterCell(q)]
    /\ msgs[RouterCell(q)][cnt[RouterCell(q)]] = sent[q]
    /\ router[q].pc = "store" => router[q].n = cnt[RouterCell(q)]

Chain(q, B) ==
  /\ Linked(q, B) /\ Closed(q, B) /\ Filled(q, B) /\ Reached(q, B)
  /\ Passed(q) /\ Storing(q)

Queued ==
  ~astray => \A q \in Router : late[q] = {} => \E B \in [Nat -> Nat] : Chain(q, B)

Reliable == Refusals /\ Progress /\ Queued

LEMMA OfType == ASSUME NEW q \in Router, NEW p \in Nat PROVE Of(q, p) \in Cells
<1>1. q \in 0 .. Routers /\ ReadIndex(p) \in 0 .. Slots - 1
  BY IndexTypes, Constants DEF Router
<1> QED  BY <1>1 DEF Of, Cells

(* In the window each second has a queue of its own. *)
LEMMA OwnQueues ==
  ASSUME TypeOK, NEW q \in Router, NEW s \in Router, NEW a \in Window, NEW b \in Window,
         Of(q, a) = Of(s, b)
  PROVE  q = s /\ a = b
<1>1. /\ a \in Nat /\ b \in Nat /\ sm.pos \in Nat
      /\ sm.pos <= a /\ a < sm.pos + Slots /\ sm.pos <= b /\ b < sm.pos + Slots
  BY Fields DEF Window
<1>2. q = s /\ ReadIndex(a) = ReadIndex(b)
  BY DEF Of
<1>3. ~(a < b)
  <2> SUFFICES ASSUME a < b PROVE FALSE
    OBVIOUS
  <2>1. b < a + Slots
    BY <1>1, Constants
  <2> QED  BY <1>1, <1>2, <2>1, SlotsApart
<1>4. ~(b < a)
  <2> SUFFICES ASSUME b < a PROVE FALSE
    OBVIOUS
  <2>1. a < b + Slots
    BY <1>1, Constants
  <2> QED  BY <1>1, <1>2, <2>1, SlotsApart
<1> QED  BY <1>1, <1>2, <1>3, <1>4

LEMMA SmCellOf ==
  ASSUME Timing
  PROVE  SmCell = Of(sm.r, sm.pos) /\ sm.pos \in Window
<1>1. sm.pos \in Nat /\ sm.last = ReadIndex(sm.pos)
  BY Fields DEF Timing, ReaderBehind
<1> QED  BY <1>1, Constants DEF SmCell, Of, Window

(* A router that is in time stores for a second of the window, after the   *)
(* one that is being emptied.                                              *)
LEMMA InTimeCell ==
  ASSUME Timely, Timing, Progress, ~astray, NEW q \in Router, InStore(q), now <= router[q].at + 1
  PROVE  /\ router[q].sec + 1 \in Window /\ RouterCell(q) = Of(q, router[q].sec + 1)
         /\ sm.pc # "poll" => router[q].sec + 1 # sm.pos
<1>0. TypeOK
  BY DEF Timing
<1>1. /\ now \in Nat /\ sm.pos \in Nat /\ router[q].sec \in Nat /\ router[q].at \in Nat /\ sm.cur \in Nat
  BY <1>0, Fields
<1>2. /\ router[q].at <= router[q].sec /\ router[q].sec <= now
      /\ router[q].idx < Slots /\ router[q].idx = ReadIndex(router[q].sec + 1)
  BY DEF Timing, WriterAhead
<1>3. /\ sm.pos <= now /\ now <= sm.pos + MaxLag /\ (sm.pc # "poll" => sm.pos < now)
  BY <1>1 DEF Timing, ReaderBehind
<1>4. RouterCell(q) = Of(q, router[q].sec + 1)
  BY <1>2 DEF RouterCell, Cell, Of
<1>5. router[q].sec + 1 >= now /\ router[q].sec + 1 <= now + 1
  BY <1>1, <1>2
<1>6. router[q].sec + 1 \in Window
  BY <1>1, <1>3, <1>5, Constants DEF Timely, Window
<1> QED  BY <1>1, <1>3, <1>4, <1>5, <1>6

(* A step that leaves router q, its queues and the place of the session     *)
(* manager in them alone.                                                  *)
LEMMA Untouched ==
  ASSUME TypeOK, NEW q \in Router, NEW B \in [Nat -> Nat], Chain(q, B),
         router'[q] = router[q], sent'[q] = sent[q], processed'[q] = processed[q],
         now' \in Nat, now <= now', sm'.pos = sm.pos, Taken(q)' = Taken(q), Passed(q)',
         \A p \in Nat : cnt'[Of(q, p)] = cnt[Of(q, p)] /\ msgs'[Of(q, p)] = msgs[Of(q, p)],
         InStore(q) /\ now <= router[q].at + 1 =>
            cnt'[RouterCell(q)] = cnt[RouterCell(q)] /\ msgs'[RouterCell(q)] = msgs[RouterCell(q)]
  PROVE  Chain(q, B)'
<1>0. now \in Nat /\ router[q].at \in Nat
  BY Fields
<1>1. Window' = Window
  BY DEF Window
<1>2. \A p \in Window : p \in Nat
  BY DEF Window
<1>3. Linked(q, B)'
  BY <1>1, <1>2 DEF Chain, Linked, Of
<1>4. Closed(q, B)'
  BY DEF Chain, Closed, Done
<1>5. Filled(q, B)'
  BY <1>1, <1>2 DEF Chain, Filled, Of
<1>6. Reached(q, B)'
  BY DEF Chain, Reached
<1>7. Storing(q)'
  <2> SUFFICES ASSUME router'[q].pc \in {"load", "store"}, now' <= router'[q].at + 1
               PROVE  /\ cnt'[RouterCell(q)'] \in DOMAIN msgs'[RouterCell(q)']
                      /\ msgs'[RouterCell(q)'][cnt'[RouterCell(q)']] = sent'[q]
                      /\ router'[q].pc = "store" => router'[q].n = cnt'[RouterCell(q)']
    BY DEF Storing
  <2>1. RouterCell(q)' = RouterCell(q)
    BY DEF RouterCell
  <2>2. InStore(q) /\ now <= router[q].at + 1
    BY <1>0 DEF InStore
  <2> QED  BY <2>1, <2>2 DEF Chain, Storing
<1> QED  BY <1>3, <1>4, <1>5, <1>6, <1>7 DEF Chain

LEMMA QueuedInit == Init => Queued
<1> SUFFICES ASSUME Init, NEW q \in Router PROVE \E B \in [Nat -> Nat] : Chain(q, B)
  BY DEF Queued
<1> DEFINE One == [p \in Nat |-> 1]
<1>0. TypeOK /\ 0 \in Router
  BY TypeInit, Constants DEF Router
<1>1. One \in [Nat -> Nat] /\ \A p \in Nat : One[p] = 1
  OBVIOUS
<1> HIDE DEF One
<1>2. \A p \in Nat : cnt[Of(q, p)] = 0
  BY OfType DEF Init
<1>3. \A p \in Window : p \in Nat
  BY DEF Window
<1>4. Linked(q, One)
  BY <1>1, <1>2, <1>3 DEF Linked
<1>5. Closed(q, One)
  BY <1>1 DEF Closed, Done, Init
<1>6. Filled(q, One)
  BY <1>2, <1>3 DEF Filled
<1>7. Reached(q, One)
  BY <1>1 DEF Reached, Taken, Init
<1>8. Passed(q) /\ Storing(q)
  <2>1. sm.pos = 1 /\ sm.pc = "poll" /\ sm.r = 0 /\ router[q].pc = "idle"
    BY DEF Init
  <2> QED  BY <1>2, <2>1 DEF Passed, Storing
<1> QED  BY <1>1, <1>4, <1>5, <1>6, <1>7, <1>8 DEF Chain

(* The queue a router is storing into is one of its own.                   *)
LEMMA OwnCell ==
  ASSUME Timing, ~astray, NEW q \in Router, InStore(q)
  PROVE  /\ router[q].sec + 1 \in Nat /\ RouterCell(q) = Of(q, router[q].sec + 1)
         /\ RouterCell(q) \in Cells
<1>1. router[q].sec + 1 \in Nat /\ TypeOK
  BY Fields DEF Timing
<1>2. router[q].idx < Slots /\ router[q].idx = ReadIndex(router[q].sec + 1)
  BY DEF Timing, WriterAhead
<1>3. RouterCell(q) = Of(q, router[q].sec + 1)
  BY <1>2 DEF RouterCell, Cell, Of
<1>4. RouterCell(q) \in Cells
  BY <1>1, RouterCellType
<1> QED  BY <1>1, <1>3, <1>4

(* Another router's step leaves the queues of router q alone.              *)
LEMMA OtherRow ==
  ASSUME Timing, Progress, ~astray, NEW q \in Router, NEW r \in Router, r # q, Store(r), ~astray'
  PROVE  /\ UNCHANGED <<now, sm, processed>> /\ router'[q] = router[q] /\ sent'[q] = sent[q]
         /\ \A p \in Nat : cnt'[Of(q, p)] = cnt[Of(q, p)] /\ msgs'[Of(q, p)] = msgs[Of(q, p)]
<1>0. TypeOK /\ now \in Nat
  BY Fields DEF Timing
<1>1. UNCHANGED <<now, sm, processed>>
  BY DEF Store, Begin, ReadClockAgain, Refuse, PassBusy, Copy, LoadCount, StoreCount, queue, history
<1>2. router'[q] = router[q] /\ sent'[q] = sent[q]
  BY <1>0 DEF Store, Begin, ReadClockAgain, Refuse, PassBusy, Copy, LoadCount, StoreCount, Goto, TypeOK, history
<1>3. ASSUME NEW c \in Cells, InStore(r) => c # RouterCell(r)
      PROVE  cnt'[c] = cnt[c] /\ msgs'[c] = msgs[c]
  <2>1. \/ cnt' = cnt /\ msgs' = msgs
        \/ cnt' = cnt /\ InStore(r) /\ \E m : msgs' = [msgs EXCEPT ![RouterCell(r)] = m]
        \/ msgs' = msgs /\ InStore(r) /\ \E k : cnt' = [cnt EXCEPT ![RouterCell(r)] = k]
    <3>1. CASE Copy(r)
      BY <3>1, Zenon DEF Copy, InStore
    <3>2. CASE StoreCount(r)
      BY <3>2, Zenon DEF StoreCount, InStore
    <3>3. CASE ~Copy(r) /\ ~StoreCount(r)
      BY <3>3 DEF Store, Begin, ReadClockAgain, Refuse, PassBusy, LoadCount, queue
    <3> QED  BY <3>1, <3>2, <3>3
  <2>2. cnt \in [Cells -> Nat] /\ DOMAIN msgs = Cells
    BY <1>0 DEF TypeOK, Progress
  <2> QED  BY <1>3, <2>1, <2>2
<1>4. InStore(r) => RouterCell(r) = <<r, router[r].idx>>
  BY DEF RouterCell, Cell, Timing, WriterAhead
<1>5. \A p \in Nat : cnt'[Of(q, p)] = cnt[Of(q, p)] /\ msgs'[Of(q, p)] = msgs[Of(q, p)]
  <2> TAKE p \in Nat
  <2>1. Of(q, p) \in Cells
    BY OfType
  <2>2. InStore(r) => Of(q, p) # RouterCell(r)
    BY <1>4 DEF Of
  <2> QED  BY <1>3, <2>1, <2>2
<1> QED  BY <1>1, <1>2, <1>5

LEMMA OtherStores ==
  ASSUME Timing, Progress, ~astray, NEW q \in Router, NEW B \in [Nat -> Nat], Chain(q, B),
         NEW r \in Router, r # q, Store(r), ~astray'
  PROVE  Chain(q, B)'
<1>0. TypeOK /\ now \in Nat /\ sm.pos \in Nat
  BY Fields DEF Timing
<1>1. /\ UNCHANGED <<now, sm, processed>> /\ router'[q] = router[q] /\ sent'[q] = sent[q]
      /\ \A p \in Nat : cnt'[Of(q, p)] = cnt[Of(q, p)] /\ msgs'[Of(q, p)] = msgs[Of(q, p)]
  BY OtherRow
<1>2. InStore(q) => cnt'[RouterCell(q)] = cnt[RouterCell(q)] /\ msgs'[RouterCell(q)] = msgs[RouterCell(q)]
  BY <1>1, OwnCell
<1>3. Taken(q)' = Taken(q)
  BY <1>1 DEF Taken
<1>4. Passed(q)'
  <2>1. cnt'[Of(q, sm.pos)] = cnt[Of(q, sm.pos)]
    BY <1>0, <1>1
  <2> QED  BY <1>1, <2>1 DEF Chain, Passed, Of
<1> QED  BY <1>0, <1>1, <1>2, <1>3, <1>4, Untouched

(* A router itself stores. *)
(* What beginning with a message changes for its router.                   *)
LEMMA Beginning ==
  ASSUME Timing, Progress, NEW q \in Router, Begin(q) \/ ReadClockAgain(q) \/ PassBusy(q)
  PROVE  /\ UNCHANGED <<now, sm, cnt, msgs, processed, late>>
         /\ router[q].pc \in {"idle", "index", "check"}
         /\ router'[q].pc \in {"index", "check", "copy"} /\ Done(q)' = Done(q)
         /\ router'[q].sec \in Nat /\ router'[q].sec >= router[q].sec
<1>0. TypeOK /\ now \in Nat /\ router[q].at \in Nat /\ router[q].sec \in Nat /\ sent[q] \in Nat
  BY Fields DEF Timing
<1>p. router[q].at <= router[q].sec /\ router[q].sec <= now /\ (router[q].pc = "index" => router[q].sec = router[q].at)
  BY DEF Progress
<1>1. UNCHANGED <<now, sm, cnt, msgs, processed, late>>
  BY DEF Begin, ReadClockAgain, PassBusy, queue, history
<1>2. CASE Begin(q)
  <2>1. /\ router'[q].pc = "index" /\ router'[q].sec = now /\ sent'[q] = sent[q] + 1 /\ router[q].pc = "idle"
    BY <1>0, <1>2 DEF Begin, TypeOK
  <2>2. Done(q)' = Done(q)
    BY <1>0, <2>1 DEF Done
  <2> QED  BY <1>0, <1>1, <1>p, <2>1, <2>2
<1>3. CASE ReadClockAgain(q)
  <2>1. /\ router'[q].pc = "check" /\ router'[q].sec \in {router[q].at, now} /\ sent'[q] = sent[q]
        /\ router[q].pc = "index"
    BY <1>0, <1>3 DEF ReadClockAgain, TypeOK
  <2>2. Done(q)' = Done(q)
    BY <1>0, <2>1 DEF Done
  <2> QED  BY <1>0, <1>1, <1>p, <2>1, <2>2
<1>4. CASE PassBusy(q)
  <2>1. /\ router'[q].pc = "copy" /\ router'[q].sec = router[q].sec /\ sent'[q] = sent[q]
        /\ router[q].pc = "check"
    BY <1>0, <1>4 DEF PassBusy, Goto, TypeOK, history
  <2>2. Done(q)' = Done(q)
    BY <1>0, <2>1 DEF Done
  <2> QED  BY <1>0, <1>1, <2>1, <2>2
<1> QED  BY <1>2, <1>3, <1>4

LEMMA SelfBegins ==
  ASSUME Timing, Progress, NEW q \in Router, NEW B \in [Nat -> Nat], Chain(q, B),
         Begin(q) \/ ReadClockAgain(q) \/ PassBusy(q)
  PROVE  Chain(q, B)'
<1>1. UNCHANGED <<sm, cnt, msgs, processed>>
  BY Beginning
<1>2. /\ router'[q].sec \in Nat /\ router'[q].sec >= router[q].sec /\ router[q].sec \in Nat
      /\ router'[q].pc \in {"index", "check", "copy"} /\ Done(q)' = Done(q)
  BY Beginning, Fields DEF Timing
<1>3. Linked(q, B)' /\ Filled(q, B)' /\ Reached(q, B)' /\ Passed(q)'
  BY <1>1 DEF Chain, Linked, Filled, Reached, Passed, Window, Of, Taken
<1>4. Closed(q, B)'
  BY <1>2 DEF Chain, Closed
<1>5. Storing(q)'
  BY <1>2 DEF Storing
<1> QED  BY <1>3, <1>4, <1>5 DEF Chain

LEMMA SelfCopies ==
  ASSUME Timely, Timing, Progress, ~astray, NEW q \in Router, NEW B \in [Nat -> Nat], Chain(q, B),
         Copy(q) \/ LoadCount(q)
  PROVE  Chain(q, B)'
<1>0. /\ TypeOK /\ now \in Nat /\ RouterCell(q) \in Cells /\ cnt \in [Cells -> Nat] /\ DOMAIN msgs = Cells
      /\ sm.pos \in Nat
  BY Fields, RouterCellType DEF Timing, TypeOK, Progress
<1>1. UNCHANGED <<now, sm, cnt, processed, sent>>
  BY DEF Copy, LoadCount, queue, history
<1>2. /\ router'[q].sec = router[q].sec /\ router'[q].at = router[q].at /\ router'[q].idx = router[q].idx
      /\ router[q].pc \in {"copy", "load"} /\ router'[q].pc \in {"load", "store"}
  <2>1. CASE Copy(q)
    BY <1>0, <2>1 DEF Copy, Goto, TypeOK
  <2>2. CASE LoadCount(q)
    BY <1>0, <2>2 DEF LoadCount, TypeOK
  <2> QED  BY <2>1, <2>2
<1>3. RouterCell(q)' = RouterCell(q)
  BY <1>2 DEF RouterCell
<1> DEFINE k == cnt[RouterCell(q)]
<1>4. /\ \A c \in Cells : \A j \in DOMAIN msgs[c] : j < cnt[c] => j \in DOMAIN msgs'[c] /\ msgs'[c][j] = msgs[c][j]
      /\ Copy(q) => k \in DOMAIN msgs'[RouterCell(q)] /\ msgs'[RouterCell(q)][k] = sent[q]
  <2>1. CASE Copy(q)
    <3> DEFINE m == Stored(msgs[RouterCell(q)], k, sent[q])
    <3>1. msgs' = [msgs EXCEPT ![RouterCell(q)] = m]
      BY <2>1 DEF Copy
    <3>2. /\ \A j \in DOMAIN msgs[RouterCell(q)] : j # k => j \in DOMAIN m /\ m[j] = msgs[RouterCell(q)][j]
          /\ k \in DOMAIN m /\ m[k] = sent[q]
      BY DEF Stored
    <3> HIDE DEF m
    <3>3. msgs'[RouterCell(q)] = m /\ \A c \in Cells : c # RouterCell(q) => msgs'[c] = msgs[c]
      BY <1>0, <3>1
    <3>4. ASSUME NEW c \in Cells, NEW j \in DOMAIN msgs[c], j < cnt[c]
          PROVE  j \in DOMAIN msgs'[c] /\ msgs'[c][j] = msgs[c][j]
      <4>1. CASE c = RouterCell(q)
        <5>1. j # k
          BY <1>0, <3>4, <4>1
        <5> QED  BY <3>2, <3>3, <4>1, <5>1
      <4> QED  BY <3>3, <4>1
    <3> QED  BY <3>2, <3>3, <3>4
  <2>2. CASE LoadCount(q)
    <3>1. msgs' = msgs /\ ~Copy(q)
      BY <2>2 DEF LoadCount, Copy, queue
    <3> QED  BY <3>1
  <2> QED  BY <2>1, <2>2
<1>5. Linked(q, B)' /\ Closed(q, B)' /\ Reached(q, B)' /\ Passed(q)'
  BY <1>1, <1>2 DEF Chain, Linked, Closed, Reached, Passed, Window, Of, Taken, Done
<1>6. Filled(q, B)'
  <2>1. \A p \in Window : Of(q, p) \in Cells
    BY OfType DEF Window
  <2> QED  BY <1>1, <1>4, <2>1 DEF Chain, Filled, Window, Of, Taken
<1>7. Storing(q)'
  <2>1. CASE Copy(q)
    <3>1. router'[q].pc = "load"
      BY <1>0, <2>1 DEF Copy, Goto, TypeOK
    <3> QED  BY <1>1, <1>3, <1>4, <2>1, <3>1 DEF Storing
  <2>2. CASE LoadCount(q)
    <3>1. router'[q].pc = "store" /\ router'[q].n = k /\ router[q].pc = "load" /\ msgs' = msgs
      BY <1>0, <2>2 DEF LoadCount, TypeOK, queue
    <3> QED  BY <1>1, <1>2, <1>3, <3>1 DEF Chain, Storing
  <2> QED  BY <2>1, <2>2
<1> QED  BY <1>5, <1>6, <1>7 DEF Chain

(* Storing the count adds the message to the end of the chain. *)
LEMMA SelfCounts ==
  ASSUME Timely, Timing, Progress, ~astray, NEW q \in Router, NEW B \in [Nat -> Nat], Chain(q, B),
         StoreCount(q), now <= router[q].at + 1
  PROVE  \E C \in [Nat -> Nat] : Chain(q, C)'
<1> DEFINE w == router[q].sec + 1
           x == cnt[RouterCell(q)]
<1>0. /\ TypeOK /\ now \in Nat /\ RouterCell(q) \in Cells /\ cnt \in [Cells -> Nat]
      /\ sm.pos \in Nat /\ w \in Nat /\ sent[q] \in Nat /\ router[q].sec \in Nat /\ sm.r \in Router
  BY Fields, RouterCellType DEF Timing, TypeOK
<1>1. /\ UNCHANGED <<now, sm, msgs, processed, sent>>
      /\ router[q].pc = "store" /\ router'[q].pc = "idle" /\ router'[q].sec = router[q].sec
  BY <1>0 DEF StoreCount, Goto, TypeOK
<1>2. InStore(q) /\ sent[q] > 0
  BY <1>1 DEF InStore, Progress
<1>3. w \in Window /\ RouterCell(q) = Of(q, w) /\ (sm.pc # "poll" => w # sm.pos)
  BY <1>2, InTimeCell
<1>4. router[q].n = x /\ x \in DOMAIN msgs[RouterCell(q)] /\ msgs[RouterCell(q)][x] = sent[q] /\ x \in Nat
  BY <1>0, <1>1 DEF Chain, Storing
<1>5. cnt' = [cnt EXCEPT ![RouterCell(q)] = x + 1]
  BY <1>4 DEF StoreCount
<1>6. \A p \in Window : p \in Nat /\ cnt'[Of(q, p)] = IF p = w THEN cnt[Of(q, p)] + 1 ELSE cnt[Of(q, p)]
  <2> TAKE p \in Window
  <2>1. p \in Nat /\ Of(q, p) \in Cells
    BY OfType DEF Window
  <2>2. p # w => Of(q, p) # Of(q, w)
    BY <1>0, <1>3, OwnQueues
  <2> QED  BY <1>0, <1>3, <1>5, <2>1, <2>2
<1>7. B[w] + x = sent[q] /\ B[w + 1] = sent[q] /\ \A p \in Nat : p > w => B[p] = sent[q]
  <2>1. Done(q) + 1 = sent[q]
    BY <1>0, <1>1 DEF Done
  <2>2. \A p \in Nat : p > w => B[p] = sent[q]
    BY <1>0, <2>1 DEF Chain, Closed
  <2>3. B[w + 1] = B[w] + x
    BY <1>3 DEF Chain, Linked
  <2> QED  BY <1>0, <2>2, <2>3
<1>8. PICK C \in [Nat -> Nat] : \A p \in Nat : C[p] = IF p > w THEN B[p] + 1 ELSE B[p]
  <2> DEFINE D == [p \in Nat |-> IF p > w THEN B[p] + 1 ELSE B[p]]
  <2>1. D \in [Nat -> Nat] /\ \A p \in Nat : D[p] = IF p > w THEN B[p] + 1 ELSE B[p]
    BY <1>0
  <2> HIDE DEF D
  <2> QED  BY <2>1
<1> HIDE DEF w
<1>9. Linked(q, C)'
  <2> SUFFICES ASSUME NEW p \in Window PROVE C[p + 1] = C[p] + cnt'[Of(q, p)]
    BY <1>1 DEF Linked, Window, Of
  <2>1. /\ p \in Nat /\ p + 1 \in Nat /\ B[p + 1] = B[p] + cnt[Of(q, p)] /\ Of(q, p) \in Cells
    BY OfType DEF Chain, Linked, Window
  <2>2. B[p] \in Nat /\ B[p + 1] \in Nat /\ cnt[Of(q, p)] \in Nat
    BY <1>0, <2>1
  <2>3. CASE p = w
    BY <1>0, <1>6, <1>8, <2>1, <2>2, <2>3
  <2>4. CASE p < w
    BY <1>0, <1>6, <1>8, <2>1, <2>2, <2>4
  <2>5. CASE p > w
    BY <1>0, <1>6, <1>8, <2>1, <2>2, <2>5
  <2> QED  BY <1>0, <2>1, <2>3, <2>4, <2>5
<1>10. Closed(q, C)'
  <2> SUFFICES ASSUME NEW p \in Nat, p >= router[q].sec + 2 PROVE C[p] = Done(q)' + 1
    BY <1>1 DEF Closed
  <2>1. Done(q)' = sent[q] /\ p > w
    BY <1>0, <1>1 DEF Done, w
  <2> QED  BY <1>0, <1>7, <1>8, <2>1
<1>11. Filled(q, C)'
  <2> SUFFICES ASSUME NEW p \in Window, NEW j \in Nat, p = sm.pos => j >= Taken(q), j < cnt'[Of(q, p)]
               PROVE  j \in DOMAIN msgs[Of(q, p)] /\ msgs[Of(q, p)][j] = C[p] + j
    BY <1>1 DEF Filled, Window, Of, Taken
  <2>1. p \in Nat /\ Of(q, p) \in Cells
    BY OfType DEF Window
  <2>2. j < cnt[Of(q, p)] => j \in DOMAIN msgs[Of(q, p)] /\ msgs[Of(q, p)][j] = B[p] + j
    BY DEF Chain, Filled
  <2>3. CASE p = w
    <3>1. C[p] = B[p]
      BY <1>0, <1>8, <2>1, <2>3
    <3>2. CASE j < x
      BY <1>3, <2>2, <2>3, <3>1, <3>2
    <3>3. CASE ~(j < x)
      <4>1. cnt'[Of(q, p)] = x + 1
        BY <1>3, <1>6, <2>3
      <4>2. j < x + 1
        BY <4>1
      <4>3. x \in Nat
        BY <1>4
      <4> HIDE DEF x
      <4>4. j = x
        BY <3>3, <4>2, <4>3
      <4> QED  BY <1>3, <1>4, <1>7, <2>3, <3>1, <4>4 DEF x
    <3> QED  BY <3>2, <3>3
  <2>4. CASE p # w
    <3>1. j < cnt[Of(q, p)]
      BY <1>6, <2>4
    <3>2. CASE p < w
      BY <1>0, <1>8, <2>1, <2>2, <3>1, <3>2
    <3>3. CASE p > w
      <4>1. B[p + 1] = B[p] + cnt[Of(q, p)]
        BY DEF Chain, Linked
      <4>2. B[p] = sent[q] /\ B[p + 1] = sent[q] /\ cnt[Of(q, p)] \in Nat
        BY <1>0, <1>7, <2>1, <3>3
      <4> QED  BY <1>0, <3>1, <4>1, <4>2
    <3> QED  BY <1>0, <2>1, <2>4, <3>2, <3>3
  <2> QED  BY <2>3, <2>4
<1>12. Reached(q, C)'
  <2>1. sm.pos <= w
    BY <1>3 DEF Window
  <2>2. C[sm.pos] = B[sm.pos]
    BY <1>0, <1>8, <2>1
  <2> QED  BY <1>1, <2>2 DEF Chain, Reached, Taken
<1>13. Passed(q)'
  <2>1. CASE sm.pc = "poll"
    <3>1. sm.r = 0 /\ q \in Nat
      BY <1>0, <2>1, Fields DEF Progress
    <3> QED  BY <1>1, <2>1, <3>1 DEF Passed
  <2>2. CASE sm.pc # "poll"
    <3>1. sm.pos \in Window
      BY SmCellOf
    <3>2. cnt'[Of(q, sm.pos)] = cnt[Of(q, sm.pos)]
      BY <1>3, <1>6, <2>2, <3>1
    <3> QED  BY <1>1, <3>2 DEF Chain, Passed, Of
  <2> QED  BY <2>1, <2>2
<1>14. Storing(q)'
  BY <1>1 DEF Storing
<1> QED  BY <1>8, <1>9, <1>10, <1>11, <1>12, <1>13, <1>14 DEF Chain

(* A router that is refused or ends late has its message among the late ones. *)
LEMMA EndsInTime ==
  ASSUME Timely, Refusals, ~astray, NEW q \in Router, sent[q] \notin late'[q], Refuse(q) \/ StoreCount(q)
  PROVE  StoreCount(q) /\ now <= router[q].at + 1
<1>0. TypeOK /\ now \in Nat /\ router[q].at \in Nat /\ late \in [Router -> SUBSET Nat]
  BY Fields DEF Refusals, Timing, HistoryType
<1>1. ~(now > router[q].at + 1)
  <2> SUFFICES ASSUME now > router[q].at + 1 PROVE FALSE
    OBVIOUS
  <2>1. late' = [late EXCEPT ![q] = @ \cup {sent[q]}]
    BY DEF Refuse, StoreCount, NoteLate
  <2> QED  BY <1>0, <2>1
<1>2. now <= router[q].at + 1
  BY <1>0, <1>1
<1>3. ~Refuse(q)
  <2> SUFFICES ASSUME Refuse(q) PROVE FALSE
    OBVIOUS
  <2>1. RouterCell(q) \in Cells /\ busy[RouterCell(q)] /\ InStore(q)
    BY <1>0, RouterCellType DEF Refuse, InStore
  <2>2. RouterCell(q) = SmCell /\ InQueue
    BY <2>1 DEF Refusals, Timing, BusyIsInWork
  <2> QED  BY <1>2, <2>1, <2>2, TimingApart DEF Apart, Refusals
<1> QED  BY <1>2, <1>3

-----------------------------------------------------------------------------
(* The session manager's steps. *)

LEMMA ManagerLeavesRouters ==
  ASSUME Empty
  PROVE  UNCHANGED <<now, router, sent, late, astray>>
  BY DEF Empty, Poll, Pass, Snapshot, SetBusy, Take, Clear, ResetCount, Release, history

(* Steps that change no queue. *)
LEMMA ManagerLooks ==
  ASSUME Timing, Progress, NEW q \in Router, NEW B \in [Nat -> Nat], Chain(q, B),
         Poll \/ Snapshot \/ SetBusy
  PROVE  Chain(q, B)'
<1>0. TypeOK /\ now \in Nat /\ q \in Nat /\ SmCell = Of(sm.r, sm.pos)
  BY Fields, SmCellOf DEF Timing
<1>1. UNCHANGED <<now, router, sent, cnt, msgs, processed>>
  BY DEF Poll, Snapshot, SetBusy, queue, history
<1>2. sm'.pos = sm.pos /\ Taken(q)' = Taken(q) /\ Passed(q)'
  <2>1. CASE Poll
    <3>1. sm'.pos = sm.pos /\ sm'.r = 0 /\ sm'.pc = "visit" /\ sm.pc = "poll"
      BY <1>0, <2>1 DEF Poll, TypeOK
    <3> QED  BY <1>0, <3>1 DEF Taken, Passed
  <2>2. CASE Snapshot
    <3>1. /\ sm'.pos = sm.pos /\ sm'.r = sm.r /\ sm'.pc = "busy" /\ sm.pc = "visit"
          /\ sm'.rec = cnt[Of(sm.r, sm.pos)]
      BY <1>0, <2>2 DEF Snapshot, TypeOK
    <3> QED  BY <1>0, <1>1, <3>1 DEF Taken, Passed, Chain, Of
  <2>3. CASE SetBusy
    <3>1. /\ sm'.pos = sm.pos /\ sm'.r = sm.r /\ sm'.pc = "take" /\ sm.pc = "busy"
          /\ sm'.rec = sm.rec /\ sm'.i = sm.i
      BY <1>0, <2>3 DEF SetBusy, TypeOK
    <3>2. sm.i = 0
      BY <3>1 DEF Progress
    <3> QED  BY <1>0, <1>1, <3>1, <3>2 DEF Taken, Passed, Chain, Of
  <2> QED  BY <2>1, <2>2, <2>3
<1> QED  BY <1>0, <1>1, <1>2, Untouched

(* What is left of a second that has been emptied is nothing, so the chain  *)
(* begins with the next one.                                               *)
LEMMA ManagerMovesOn ==
  ASSUME Timely, Timing, Progress, NEW q \in Router, NEW B \in [Nat -> Nat], Chain(q, B),
         Pass \/ Release
  PROVE  Chain(q, B)'
<1>0. /\ TypeOK /\ now \in Nat /\ q \in Nat /\ sm.r \in Nat /\ SmCell = Of(sm.r, sm.pos) /\ sm.pos \in Nat
      /\ sm.pos \in Window /\ router[q].sec \in Nat
  BY Fields, SmCellOf DEF Timing
<1>1. /\ UNCHANGED <<now, router, sent, cnt, msgs, processed>> /\ Advance /\ sm.pc \in {"visit", "release"}
  BY DEF Pass, Release, queue, history
<1>2. cnt[SmCell] = 0 \/ q # sm.r
  BY <1>0 DEF Pass, Release, Chain, Passed
<1>3. Taken(q) = 0
  BY <1>1 DEF Taken
<1>4. sm'.pc \in {"poll", "visit"} /\ Taken(q)' = 0
  <2>1. sm'.pc \in {"poll", "visit"}
    BY <1>0, <1>1, AdvanceProgress
  <2> QED  BY <2>1 DEF Taken
<1>5. CASE sm.r + 1 < Routers
  <2>1. sm'.pos = sm.pos /\ sm'.r = sm.r + 1
    BY <1>0, <1>1, <1>5 DEF Advance, TypeOK
  <2>2. Passed(q)'
    <3>1. q < sm.r + 1 => cnt[Of(q, sm.pos)] = 0
      BY <1>0, <1>2 DEF Chain, Passed
    <3> QED  BY <1>1, <1>4, <2>1, <3>1 DEF Passed, Of
  <2> QED  BY <1>0, <1>1, <1>3, <1>4, <2>1, <2>2, Untouched
<1>6. CASE ~(sm.r + 1 < Routers)
  <2>1. sm'.pos = sm.pos + 1 /\ sm'.r = 0
    BY <1>0, <1>1, <1>6 DEF Advance, TypeOK
  <2>2. cnt[Of(q, sm.pos)] = 0
    <3>1. q <= sm.r
      BY <1>0, <1>6, Constants DEF Router
    <3> QED  BY <1>0, <1>2, <3>1 DEF Chain, Passed
  <2>3. router[q].sec <= now /\ now <= sm.pos + MaxLag
    BY DEF Progress, Timing, ReaderBehind
  <2> DEFINE last == sm.pos + Slots
  <2>4. last \in Nat /\ last >= router[q].sec + 2
    BY <1>0, <2>3, Constants DEF Timely
  <2>5. cnt[Of(q, last)] = 0
    <3>1. ReadIndex(last) = ReadIndex(sm.pos)
      BY <1>0, SameSlot
    <3> QED  BY <2>2, <3>1 DEF Of
  <2>6. B[last + 1] = B[last]
    BY <1>0, <2>4 DEF Chain, Closed
  <2>7. \A p \in Window' : p = last \/ (p \in Window /\ p # sm.pos)
    BY <1>0, <2>1, Constants DEF Window
  <2>8. \A p \in Window' : p \in Nat
    BY DEF Window
  <2>9. B[sm.pos + 1] = B[sm.pos]
    BY <1>0, <2>2 DEF Chain, Linked
  <2> HIDE DEF last
  <2>10. Linked(q, B)'
    <3> SUFFICES ASSUME NEW p \in Window' PROVE B[p + 1] = B[p] + cnt[Of(q, p)]
      BY <1>1 DEF Linked, Of
    <3>1. CASE p = last
      BY <2>4, <2>5, <2>6, <3>1
    <3>2. CASE p \in Window
      BY <3>2 DEF Chain, Linked
    <3> QED  BY <2>7, <3>1, <3>2
  <2>11. Closed(q, B)' /\ Storing(q)'
    BY <1>1 DEF Chain, Closed, Done, Storing, RouterCell
  <2>12. Filled(q, B)'
    <3> SUFFICES ASSUME NEW p \in Window', NEW j \in Nat, j < cnt[Of(q, p)]
                 PROVE  j \in DOMAIN msgs[Of(q, p)] /\ msgs[Of(q, p)][j] = B[p] + j
      BY <1>1 DEF Filled, Of
    <3>1. p # last
      BY <2>5
    <3>2. p \in Window /\ p # sm.pos
      BY <2>7, <3>1
    <3> QED  BY <3>2 DEF Chain, Filled
  <2>13. Reached(q, B)'
    BY <1>0, <1>1, <1>3, <1>4, <2>1, <2>9 DEF Chain, Reached
  <2>14. Passed(q)'
    BY <1>0, <1>4, <2>1 DEF Passed
  <2> QED  BY <2>10, <2>11, <2>12, <2>13, <2>14 DEF Chain
<1> QED  BY <1>5, <1>6

(* Steps on the queue in work change no other one, so none that a router    *)
(* in time is storing into.                                                *)
LEMMA OnlyQueueInWork ==
  ASSUME Timely, Timing, Progress, ~astray, Take \/ Clear \/ ResetCount
  PROVE  /\ \A c \in Cells : c # SmCell => cnt'[c] = cnt[c] /\ msgs'[c] = msgs[c]
         /\ \A q \in Router : InStore(q) /\ now <= router[q].at + 1 =>
               cnt'[RouterCell(q)] = cnt[RouterCell(q)] /\ msgs'[RouterCell(q)] = msgs[RouterCell(q)]
<1>0. TypeOK /\ cnt \in [Cells -> Nat] /\ DOMAIN msgs = Cells
  BY DEF Timing, TypeOK, Progress
<1>1. \/ cnt' = cnt /\ \E m : msgs' = [msgs EXCEPT ![SmCell] = m]
      \/ msgs' = msgs /\ \E k : cnt' = [cnt EXCEPT ![SmCell] = k]
  <2>1. CASE Take
    BY <2>1, Zenon DEF Take
  <2>2. CASE Clear
    BY <2>2, Zenon DEF Clear
  <2>3. CASE ResetCount
    BY <2>3, Zenon DEF ResetCount
  <2> QED  BY <2>1, <2>2, <2>3
<1>2. \A c \in Cells : c # SmCell => cnt'[c] = cnt[c] /\ msgs'[c] = msgs[c]
  BY <1>0, <1>1
<1>3. ASSUME NEW q \in Router, InStore(q), now <= router[q].at + 1
      PROVE  RouterCell(q) \in Cells /\ RouterCell(q) # SmCell
  <2>1. InQueue
    BY DEF Take, Clear, ResetCount, InQueue
  <2> QED  BY <1>0, <1>3, <2>1, TimingApart, RouterCellType DEF Apart
<1> QED  BY <1>2, <1>3

(* The session manager's work on a queue leaves the other routers' alone.  *)
LEMMA ElsewhereRow ==
  ASSUME Timely, Timing, Progress, ~astray, NEW q \in Router, q # sm.r, Take \/ Clear \/ ResetCount
  PROVE  /\ UNCHANGED <<now, router, sent, late>> /\ sm'.pos = sm.pos /\ sm'.r = sm.r
         /\ processed'[q] = processed[q] /\ Taken(q)' = Taken(q)
         /\ \A p \in Nat : cnt'[Of(q, p)] = cnt[Of(q, p)] /\ msgs'[Of(q, p)] = msgs[Of(q, p)]
<1>0. TypeOK /\ SmCell = Of(sm.r, sm.pos)
  BY SmCellOf DEF Timing
<1>1. UNCHANGED <<now, router, sent, late>>
  BY ManagerLeavesRouters DEF Empty
<1>2. sm'.pos = sm.pos /\ sm'.r = sm.r
  BY <1>0 DEF Take, Clear, ResetCount, TypeOK
<1>3. processed'[q] = processed[q]
  <2>1. \/ processed' = processed \/ \E x : processed' = [processed EXCEPT ![sm.r] = x]
    <3>1. CASE Take
      BY <3>1, Zenon DEF Take
    <3>2. CASE Clear \/ ResetCount
      BY <3>2 DEF Clear, ResetCount, history
    <3> QED  BY <3>1, <3>2
  <2> QED  BY <2>1 DEF Progress
<1>4. \A p \in Nat : cnt'[Of(q, p)] = cnt[Of(q, p)] /\ msgs'[Of(q, p)] = msgs[Of(q, p)]
  <2> TAKE p \in Nat
  <2>1. Of(q, p) \in Cells
    BY OfType
  <2>2. Of(q, p) # SmCell
    BY <1>0 DEF Of
  <2> QED  BY <2>1, <2>2, OnlyQueueInWork
<1>5. Taken(q)' = Taken(q)
  BY <1>2 DEF Taken
<1> QED  BY <1>1, <1>2, <1>3, <1>4, <1>5

LEMMA ManagerElsewhere ==
  ASSUME Timely, Timing, Progress, ~astray, NEW q \in Router, NEW B \in [Nat -> Nat], Chain(q, B),
         q # sm.r, Take \/ Clear \/ ResetCount
  PROVE  Chain(q, B)'
<1>0. TypeOK /\ now \in Nat /\ sm.pos \in Nat
  BY Fields DEF Timing
<1>1. /\ UNCHANGED <<now, router, sent>> /\ sm'.pos = sm.pos /\ sm'.r = sm.r
      /\ processed'[q] = processed[q] /\ Taken(q)' = Taken(q)
      /\ \A p \in Nat : cnt'[Of(q, p)] = cnt[Of(q, p)] /\ msgs'[Of(q, p)] = msgs[Of(q, p)]
  BY ElsewhereRow
<1>2. Passed(q)'
  <2>1. cnt'[Of(q, sm.pos)] = cnt[Of(q, sm.pos)]
    BY <1>0, <1>1
  <2> QED  BY <1>1, <2>1 DEF Chain, Passed, Of
<1>3. InStore(q) /\ now <= router[q].at + 1 =>
            cnt'[RouterCell(q)] = cnt[RouterCell(q)] /\ msgs'[RouterCell(q)] = msgs[RouterCell(q)]
  BY OnlyQueueInWork
<1> QED  BY <1>0, <1>1, <1>2, <1>3, Untouched

(* The router's queue that is in work. *)
LEMMA StoringAside ==
  ASSUME Timely, Timing, Progress, ~astray, NEW q \in Router, Storing(q), Take \/ Clear \/ ResetCount
  PROVE  Storing(q)'
<1>1. UNCHANGED <<now, router, sent>>
  BY ManagerLeavesRouters DEF Empty
<1>2. InStore(q) /\ now <= router[q].at + 1 =>
         cnt'[RouterCell(q)] = cnt[RouterCell(q)] /\ msgs'[RouterCell(q)] = msgs[RouterCell(q)]
  BY OnlyQueueInWork
<1>3. router[q].pc \in {"load", "store"} => InStore(q)
  BY DEF InStore
<1>4. RouterCell(q)' = RouterCell(q)
  BY <1>1 DEF RouterCell
<1> QED  BY <1>1, <1>2, <1>3, <1>4 DEF Storing

LEMMA ManagerTakes ==
  ASSUME Timely, Timing, Progress, ~astray, NEW q \in Router, NEW B \in [Nat -> Nat], Chain(q, B),
         q = sm.r, Take
  PROVE  Chain(q, B)'
<1> DEFINE c == Of(q, sm.pos)
           x == Found(msgs[c], sm.i, Phantom)
<1>0. /\ TypeOK /\ now \in Nat /\ q \in Nat /\ SmCell = c /\ sm.pos \in Nat /\ sm.i \in Nat
      /\ sm.pos \in Window /\ c \in Cells /\ DOMAIN msgs = Cells /\ cnt[c] \in Nat
      /\ processed \in [Router -> Seq(Nat)]
  BY Fields, SmCellOf, OfType DEF Timing, Progress, TypeOK
<1>1. UNCHANGED <<now, router, sent, cnt>>
  BY ManagerLeavesRouters DEF Empty, Take
<1>2. /\ sm.pc = "take" /\ sm'.pos = sm.pos /\ sm'.r = sm.r /\ sm'.i = sm.i + 1 /\ sm'.rec = sm.rec
      /\ sm'.pc \in {"take", "clear"}
  BY <1>0 DEF Take, TypeOK
<1>3. sm.i < cnt[c] /\ cnt[c] = sm.rec
  BY <1>0, <1>2 DEF Progress, Chain, Passed
<1>4. Taken(q) = sm.i /\ Taken(q)' = sm.i + 1
  BY <1>2 DEF Taken
<1>5. x = B[sm.pos] + sm.i /\ B[sm.pos] \in Nat
  <2>1. sm.i >= Taken(q) /\ sm.i < cnt[Of(q, sm.pos)]
    BY <1>0, <1>3, <1>4
  <2>2. Filled(q, B)
    BY DEF Chain
  <2>3. sm.i \in DOMAIN msgs[c] /\ msgs[c][sm.i] = B[sm.pos] + sm.i
    BY <1>0, <2>1, <2>2 DEF Filled
  <2> QED  BY <1>0, <2>3 DEF Found
<1>6. x = Len(processed[q]) + 1 /\ Len(processed[q]) \in Nat /\ x \in Nat
  <2> DEFINE l == Len(processed[q])
  <2>1. B[sm.pos] + sm.i = l + 1
    BY <1>4 DEF Chain, Reached
  <2>2. l \in Nat
    <3>1. processed[q] \in Seq(Nat)
      BY <1>0
    <3> QED  BY <3>1, LenProperties
  <2> HIDE DEF x, c, l
  <2>3. x = l + 1 /\ x \in Nat
    BY <1>5, <2>1, <2>2
  <2> QED  BY <2>2, <2>3 DEF l
<1>7. /\ Len(processed'[q]) = Len(processed[q]) + 1 /\ DOMAIN processed'[q] = 1 .. Len(processed[q]) + 1
      /\ processed'[q][Len(processed[q]) + 1] = x
      /\ \A n \in DOMAIN processed[q] : processed'[q][n] = processed[q][n]
      /\ DOMAIN processed[q] = 1 .. Len(processed[q])
  <2>1. processed' = [processed EXCEPT ![sm.r] = Append(@, x)]
    BY <1>0 DEF Take
  <2> HIDE DEF x
  <2>2. x \in Nat
    BY <1>6
  <2> DEFINE old == processed[q]
             new == processed'[q]
  <2>3. new = Append(old, x) /\ old \in Seq(Nat)
    BY <1>0, <2>1
  <2> HIDE DEF old, new, c
  <2>4. Len(new) = Len(old) + 1 /\ DOMAIN new = 1 .. Len(old) + 1 /\ DOMAIN old = 1 .. Len(old)
    BY <2>2, <2>3
  <2>5. new[Len(old) + 1] = x
    BY <2>2, <2>3
  <2>6. \A n \in DOMAIN old : new[n] = old[n]
    BY <2>2, <2>3, <2>4, AppendProperties
  <2> QED  BY <2>4, <2>5, <2>6 DEF old, new
<1>8. /\ \A j \in DOMAIN msgs[c] : j # sm.i => j \in DOMAIN msgs'[c] /\ msgs'[c][j] = msgs[c][j]
      /\ \A d \in Cells : d # c => msgs'[d] = msgs[d]
  <2> DEFINE m == Erased(msgs[c], sm.i)
  <2>1. msgs' = [msgs EXCEPT ![c] = m]
    BY <1>0 DEF Take
  <2>2. \A j \in DOMAIN msgs[c] : j # sm.i => j \in DOMAIN m /\ m[j] = msgs[c][j]
    BY DEF Erased
  <2> HIDE DEF m, c
  <2> QED  BY <1>0, <2>1, <2>2
<1> HIDE DEF c, x
<1>9. Linked(q, B)' /\ Closed(q, B)'
  BY <1>1, <1>2 DEF Chain, Linked, Closed, Done, Window, Of
<1>10. Filled(q, B)'
  <2> SUFFICES ASSUME NEW p \in Window, NEW j \in Nat, p = sm.pos => j >= sm.i + 1, j < cnt[Of(q, p)]
               PROVE  j \in DOMAIN msgs'[Of(q, p)] /\ msgs'[Of(q, p)][j] = B[p] + j
    BY <1>1, <1>2, <1>4 DEF Filled, Window, Of
  <2>1. j \in DOMAIN msgs[Of(q, p)] /\ msgs[Of(q, p)][j] = B[p] + j
    <3>1. p = sm.pos => j >= Taken(q)
      <4>1. sm.i \in Nat /\ Taken(q) = sm.i
        BY <1>0, <1>4
      <4>2. p = sm.pos => j >= sm.i
        BY <4>1
      <4> QED  BY <4>1, <4>2
    <3>2. Filled(q, B)
      BY DEF Chain
    <3>3. (p = sm.pos => j >= Taken(q)) /\ j < cnt[Of(q, p)] =>
            j \in DOMAIN msgs[Of(q, p)] /\ msgs[Of(q, p)][j] = B[p] + j
      BY <3>2, Zenon DEF Filled
    <3> QED  BY <3>1, <3>3
  <2>2. Of(q, p) \in Cells /\ (p # sm.pos => Of(q, p) # c)
    <3>1. Of(q, p) \in Cells
      BY OfType DEF Window
    <3>2. TypeOK /\ sm.pos \in Window
      BY <1>0
    <3>3. p # sm.pos => Of(q, p) # Of(q, sm.pos)
      BY <3>2, OwnQueues
    <3> QED  BY <3>1, <3>3 DEF c
  <2>3. p = sm.pos => Of(q, p) = c /\ j # sm.i
    <3>1. p = sm.pos => Of(q, p) = c
      BY DEF c
    <3>2. p = sm.pos => j # sm.i
      <4>1. sm.i \in Nat
        BY <1>0
      <4> QED  BY <4>1
    <3> QED  BY <3>1, <3>2
  <2> QED  BY <1>8, <2>1, <2>2, <2>3
<1>11. Reached(q, B)'
  <2> DEFINE k == Len(processed[q])
             l == Len(processed'[q])
             b == B[sm.pos]
             i == sm.i
  <2>0. /\ k \in Nat /\ x = k + 1 /\ l = k + 1 /\ DOMAIN processed'[q] = 1 .. k + 1
        /\ DOMAIN processed[q] = 1 .. k /\ processed'[q][k + 1] = x
        /\ x = b + i /\ b \in Nat /\ i \in Nat
    BY <1>0, <1>5, <1>6, <1>7
  <2> HIDE DEF k, l, b, i
  <2>3. b + (i + 1) = l + 1
    BY <2>0
  <2>1. B[sm.pos] + (sm.i + 1) = Len(processed'[q]) + 1
    BY <2>3 DEF b, i, l
  <2>2. ASSUME NEW n \in DOMAIN processed'[q] PROVE processed'[q][n] = n
    <3>1. CASE n = k + 1
      BY <2>0, <3>1
    <3>2. CASE n # k + 1
      <4>1. n \in 1 .. k + 1
        BY <2>0
      <4>2. n \in 1 .. k
        BY <2>0, <3>2, <4>1
      <4>3. n \in DOMAIN processed[q]
        BY <2>0, <4>2
      <4> QED  BY <1>7, <4>3 DEF Chain, Reached
    <3> QED  BY <3>1, <3>2
  <2> QED  BY <1>2, <1>4, <2>1, <2>2 DEF Reached
<1>12. Passed(q)'
  BY <1>1, <1>2, <1>3 DEF Chain, Passed, Of, c
<1>13. Storing(q)'
  BY StoringAside DEF Chain
<1> QED  BY <1>9, <1>10, <1>11, <1>12, <1>13 DEF Chain

LEMMA ManagerClears ==
  ASSUME Timely, Timing, Progress, ~astray, NEW q \in Router, NEW B \in [Nat -> Nat], Chain(q, B),
         q = sm.r, Clear
  PROVE  Chain(q, B)'
<1> DEFINE c == Of(q, sm.pos)
<1>0. /\ TypeOK /\ SmCell = c /\ sm.pos \in Nat /\ sm.i \in Nat
      /\ sm.pos \in Window /\ c \in Cells /\ cnt[c] \in Nat
  BY Fields, SmCellOf, OfType DEF Timing, TypeOK
<1>1. UNCHANGED <<now, router, sent, cnt, processed>>
  BY ManagerLeavesRouters DEF Empty, Clear, history
<1>2. /\ sm.pc = "clear" /\ sm'.pos = sm.pos /\ sm'.r = sm.r /\ sm'.i = sm.i /\ sm'.rec = sm.rec
      /\ sm'.pc = "reset"
  BY <1>0 DEF Clear, TypeOK
<1>3. sm.i = cnt[c] /\ cnt[c] = sm.rec
  BY <1>0, <1>2 DEF Progress, Chain, Passed
<1>4. Taken(q) = sm.i /\ Taken(q)' = sm.i
  BY <1>2 DEF Taken
<1>5. \A d \in Cells : d # c => msgs'[d] = msgs[d]
  BY <1>0, OnlyQueueInWork
<1> HIDE DEF c
<1>6. Linked(q, B)' /\ Closed(q, B)' /\ Reached(q, B)'
  BY <1>1, <1>2, <1>4 DEF Chain, Linked, Closed, Reached, Done, Window, Of
<1>7. Filled(q, B)'
  <2> SUFFICES ASSUME NEW p \in Window, NEW j \in Nat, p = sm.pos => j >= sm.i, j < cnt[Of(q, p)]
               PROVE  j \in DOMAIN msgs'[Of(q, p)] /\ msgs'[Of(q, p)][j] = B[p] + j
    BY <1>1, <1>2, <1>4 DEF Filled, Window, Of
  <2>1. p # sm.pos
    BY <1>0, <1>3 DEF c
  <2>2. Of(q, p) \in Cells /\ Of(q, p) # c
    BY <1>0, <2>1, OfType, OwnQueues DEF Window, c
  <2> QED  BY <1>4, <1>5, <2>1, <2>2 DEF Chain, Filled
<1>8. Passed(q)'
  BY <1>1, <1>2, <1>3 DEF Chain, Passed, Of, c
<1>9. Storing(q)'
  BY StoringAside DEF Chain
<1> QED  BY <1>6, <1>7, <1>8, <1>9 DEF Chain

LEMMA ManagerResets ==
  ASSUME Timely, Timing, Progress, ~astray, NEW q \in Router, NEW B \in [Nat -> Nat], Chain(q, B),
         q = sm.r, ResetCount
  PROVE  \E C \in [Nat -> Nat] : Chain(q, C)'
<1> DEFINE c == Of(q, sm.pos)
<1>0. /\ TypeOK /\ SmCell = c /\ sm.pos \in Nat /\ sm.i \in Nat /\ router[q].sec \in Nat
      /\ sm.pos \in Window /\ c \in Cells /\ cnt[c] \in Nat /\ cnt \in [Cells -> Nat]
      /\ \A p \in Window : p \in Nat /\ p >= sm.pos
  BY Fields, SmCellOf, OfType DEF Timing, TypeOK, Window
<1>1. UNCHANGED <<now, router, sent, msgs, processed>>
  BY ManagerLeavesRouters DEF Empty, ResetCount, history
<1>2. /\ sm.pc = "reset" /\ sm'.pos = sm.pos /\ sm'.r = sm.r /\ sm'.pc = "release"
  BY <1>0 DEF ResetCount, TypeOK
<1>3. sm.i = cnt[c]
  BY <1>0, <1>2 DEF Progress, Chain, Passed
<1>4. Taken(q) = cnt[c] /\ Taken(q)' = 0
  BY <1>2, <1>3 DEF Taken
<1>5. cnt'[c] = 0 /\ \A d \in Cells : d # c => cnt'[d] = cnt[d]
  BY <1>0 DEF ResetCount
<1>6. B[sm.pos + 1] = B[sm.pos] + cnt[c]
  BY <1>0 DEF Chain, Linked
<1>7. PICK C \in [Nat -> Nat] : \A p \in Nat : C[p] = IF p = sm.pos THEN B[sm.pos + 1] ELSE B[p]
  <2> DEFINE D == [p \in Nat |-> IF p = sm.pos THEN B[sm.pos + 1] ELSE B[p]]
  <2>1. D \in [Nat -> Nat] /\ \A p \in Nat : D[p] = IF p = sm.pos THEN B[sm.pos + 1] ELSE B[p]
    BY <1>0
  <2> HIDE DEF D
  <2> QED  BY <2>1
<1>8. \A p \in Window : Of(q, p) \in Cells /\ (p # sm.pos => Of(q, p) # c)
  BY <1>0, OfType, OwnQueues DEF Window
<1> HIDE DEF c
<1>9. Linked(q, C)'
  <2> SUFFICES ASSUME NEW p \in Window PROVE C[p + 1] = C[p] + cnt'[Of(q, p)]
    BY <1>2 DEF Linked, Window, Of
  <2>0. p \in Nat /\ p >= sm.pos /\ p + 1 \in Nat /\ p + 1 # sm.pos
    BY <1>0
  <2>1. CASE p = sm.pos
    BY <1>0, <1>5, <1>7, <2>0, <2>1 DEF c
  <2>2. CASE p # sm.pos
    <3>1. cnt'[Of(q, p)] = cnt[Of(q, p)]
      BY <1>5, <1>8, <2>2
    <3> QED  BY <1>7, <2>0, <2>2, <3>1 DEF Chain, Linked
  <2> QED  BY <2>1, <2>2
<1>10. Closed(q, C)'
  <2> SUFFICES ASSUME NEW p \in Nat, p >= router[q].sec + 2 PROVE C[p] = Done(q) + 1
    BY <1>1 DEF Closed, Done
  <2>1. p + 1 \in Nat /\ p + 1 >= router[q].sec + 2
    BY <1>0
  <2>2. B[p] = Done(q) + 1 /\ B[p + 1] = Done(q) + 1
    BY <2>1 DEF Chain, Closed
  <2> QED  BY <1>7, <2>2
<1>11. Filled(q, C)'
  <2> SUFFICES ASSUME NEW p \in Window, NEW j \in Nat, j < cnt'[Of(q, p)]
               PROVE  j \in DOMAIN msgs[Of(q, p)] /\ msgs[Of(q, p)][j] = C[p] + j
    BY <1>1, <1>2 DEF Filled, Window, Of
  <2>1. p # sm.pos
    BY <1>0, <1>5 DEF c
  <2>2. cnt'[Of(q, p)] = cnt[Of(q, p)] /\ C[p] = B[p]
    BY <1>0, <1>5, <1>7, <1>8, <2>1
  <2> QED  BY <2>1, <2>2 DEF Chain, Filled
<1>12. Reached(q, C)'
  <2>1. C[sm.pos] = B[sm.pos] + cnt[c] /\ C[sm.pos] \in Nat
    BY <1>0, <1>6, <1>7
  <2>2. B[sm.pos] + cnt[c] = Len(processed[q]) + 1 /\ \A n \in DOMAIN processed[q] : processed[q][n] = n
    BY <1>4 DEF Chain, Reached
  <2>3. C[sm.pos] + 0 = Len(processed[q]) + 1
    BY <2>1, <2>2
  <2> QED  BY <1>1, <1>2, <1>4, <2>2, <2>3 DEF Reached
<1>13. Passed(q)'
  BY <1>2, <1>5 DEF Passed, Of, c
<1>14. Storing(q)'
  BY StoringAside DEF Chain
<1> QED  BY <1>9, <1>10, <1>11, <1>12, <1>13, <1>14 DEF Chain

(* What has gone wrong stays so. *)
LEMMA HistoryGrows ==
  ASSUME HistoryType, [Next]_vars, ~astray'
  PROVE  ~astray /\ \A q \in Router : late'[q] = {} => late[q] = {}
<1>h. late \in [Router -> SUBSET Nat]
  BY DEF HistoryType
<1>1. ASSUME NEW r \in Router, Store(r)
      PROVE  ~astray /\ \A q \in Router : late'[q] = {} => late[q] = {}
  <2>1. CASE ReadClockAgain(r)
    <3>1. late' = late
      BY <2>1, Zenon DEF ReadClockAgain
    <3>2. astray => astray'
      BY <2>1, Zenon DEF ReadClockAgain
    <3> QED  BY <3>1, <3>2
  <2>2. CASE Begin(r) \/ Refuse(r) \/ PassBusy(r) \/ Copy(r) \/ LoadCount(r) \/ StoreCount(r)
    <3>1. astray' = astray
      BY <2>2 DEF Begin, Refuse, PassBusy, Copy, LoadCount, StoreCount, history
    <3>2. late' = late \/ late' = [late EXCEPT ![r] = @ \cup {sent[r]}]
      BY <2>2 DEF Begin, Refuse, PassBusy, Copy, LoadCount, StoreCount, history, NoteLate
    <3>3. \A q \in Router : late[q] \subseteq late'[q]
      BY <1>h, <3>2
    <3> QED  BY <3>1, <3>3
  <2> QED  BY <1>1, <2>1, <2>2, Zenon DEF Store
<1>2. CASE Empty
  BY <1>2, ManagerLeavesRouters
<1>3. CASE Tick
  BY <1>3 DEF Tick, history
<1>4. CASE UNCHANGED vars
  BY <1>4 DEF vars, history
<1> QED  BY <1>1, <1>2, <1>3, <1>4 DEF Next

(* The clock alone disturbs no queue. *)
LEMMA ClockKeepsChain ==
  ASSUME TypeOK, NEW q \in Router, NEW B \in [Nat -> Nat], Chain(q, B), Tick \/ UNCHANGED vars
  PROVE  Chain(q, B)'
<1>1. UNCHANGED <<busy, cnt, msgs, router, sm, sent, processed>>
  BY DEF Tick, vars, queue, history
<1>2. now \in Nat /\ now' \in Nat /\ now <= now'
  <2>1. now' = now + 1 \/ now' = now
    BY DEF Tick, vars
  <2> QED  BY <2>1, Fields
<1>3. Taken(q)' = Taken(q)
  BY <1>1 DEF Taken
<1>4. Passed(q)'
  BY <1>1 DEF Chain, Passed, Of
<1> QED  BY <1>1, <1>2, <1>3, <1>4, Untouched

LEMMA StoreKeepsChain ==
  ASSUME Timely, Refusals, Progress, ~astray, ~astray', NEW q \in Router, late'[q] = {},
         NEW B \in [Nat -> Nat], Chain(q, B), NEW r \in Router, Store(r)
  PROVE  \E C \in [Nat -> Nat] : Chain(q, C)'
<1>0. Timing
  BY DEF Refusals
<1>1. CASE r # q
  BY <1>0, <1>1, OtherStores
<1>2. CASE r = q
  <2>1. CASE Begin(q) \/ ReadClockAgain(q) \/ PassBusy(q)
    BY <1>0, <2>1, SelfBegins
  <2>2. CASE Copy(q) \/ LoadCount(q)
    BY <1>0, <2>2, SelfCopies
  <2>3. CASE Refuse(q) \/ StoreCount(q)
    <3>1. StoreCount(q) /\ now <= router[q].at + 1
      BY <2>3, EndsInTime
    <3> QED  BY <1>0, <3>1, SelfCounts
  <2> QED  BY <1>2, <2>1, <2>2, <2>3 DEF Store
<1> QED  BY <1>1, <1>2

LEMMA EmptyKeepsChain ==
  ASSUME Timely, Timing, Progress, ~astray, NEW q \in Router, NEW B \in [Nat -> Nat], Chain(q, B), Empty
  PROVE  \E C \in [Nat -> Nat] : Chain(q, C)'
<1>1. CASE Poll \/ Snapshot \/ SetBusy
  BY <1>1, ManagerLooks
<1>2. CASE Pass \/ Release
  BY <1>2, ManagerMovesOn
<1>3. CASE Take \/ Clear \/ ResetCount
  <2>1. CASE q # sm.r
    BY <1>3, <2>1, ManagerElsewhere
  <2>2. CASE q = sm.r
    BY <1>3, <2>2, ManagerTakes, ManagerClears, ManagerResets
  <2> QED  BY <2>1, <2>2
<1> QED  BY <1>1, <1>2, <1>3 DEF Empty

LEMMA QueuedStep == ASSUME Timely, Refusals, Progress, Queued, [Next]_vars PROVE Queued'
<1> SUFFICES ASSUME ~astray', NEW q \in Router, late'[q] = {}
             PROVE  \E C \in [Nat -> Nat] : Chain(q, C)'
  BY DEF Queued
<1>0. Timing /\ TypeOK /\ HistoryType
  BY DEF Refusals, Timing
<1>1. ~astray /\ late[q] = {}
  BY <1>0, HistoryGrows
<1>2. PICK B \in [Nat -> Nat] : Chain(q, B)
  BY <1>1 DEF Queued
<1>3. ASSUME NEW r \in Router, Store(r) PROVE \E C \in [Nat -> Nat] : Chain(q, C)'
  BY <1>1, <1>2, <1>3, StoreKeepsChain
<1>4. CASE Empty
  BY <1>0, <1>1, <1>2, <1>4, EmptyKeepsChain
<1>5. CASE Tick \/ UNCHANGED vars
  BY <1>0, <1>2, <1>5, ClockKeepsChain
<1> QED  BY <1>3, <1>4, <1>5 DEF Next

(* A router that is never late has its messages processed in the order in  *)
(* which it sent them, none lost, none twice and none made up, although    *)
(* the queues, their counts and busy flags are shared without a lock.      *)
THEOREM ProcessedInOrder == ASSUME Timely PROVE Spec => []InOrder
<1>1. Init => Reliable
  <2>1. Init => NeverRefused /\ HistoryType
    BY DEF Init, NeverRefused, HistoryType
  <2> QED  BY <2>1, TimingInit, ProgressInit, QueuedInit DEF Refusals, Reliable
<1>2. Reliable /\ [Next]_vars => Reliable'
  <2> SUFFICES ASSUME Reliable, [Next]_vars PROVE Reliable'
    OBVIOUS
  <2>1. Refusals'
    BY RefusalsStep DEF Reliable
  <2>2. Progress'
    BY ProgressStep DEF Reliable, Refusals
  <2>3. Queued'
    BY QueuedStep DEF Reliable
  <2> QED  BY <2>1, <2>2, <2>3 DEF Reliable
<1>3. Reliable => InOrder
  BY DEF Reliable, Queued, Chain, Reached, InOrder
<1> QED  BY <1>1, <1>2, <1>3, PTL DEF Spec

-----------------------------------------------------------------------------
(* A router's messages that it was not late with.                          *)

(* Message v has been stored, in time. *)
Settled(q, v) == v \in 1 .. Done(q) /\ v \notin late[q]

Holds(q, p, j) == j \in DOMAIN msgs[Of(q, p)] /\ Settled(q, msgs[Of(q, p)][j])

(* How many entries of a queue the session manager will have taken when it *)
(* is next done with it.                                                   *)
Due(q, p) ==
  IF p = sm.pos /\ (q < sm.r \/ (q = sm.r /\ sm.pc = "release")) THEN 0
  ELSE IF p = sm.pos /\ q = sm.r /\ sm.pc \in {"busy", "take", "clear", "reset"} THEN sm.rec
  ELSE cnt[Of(q, p)]

(* What a late router does to the counts: a count goes back to zero only   *)
(* by the session manager's hand.                                          *)
Counted(q) ==
  /\ q = sm.r /\ sm.pc \in {"busy", "take", "clear", "reset"} =>
       0 < sm.rec /\ sm.rec <= cnt[Of(q, sm.pos)]
  /\ router[q].pc = "store" => router[q].n = cnt[RouterCell(q)] \/ cnt[RouterCell(q)] = 0

(* The message being stored is nowhere but where it has been copied to.    *)
Copied(q) ==
  /\ \A p \in Window : \A j \in DOMAIN msgs[Of(q, p)] :
       \/ msgs[Of(q, p)][j] <= Done(q)
       \/ /\ router[q].pc \in {"load", "store"} /\ Of(q, p) = RouterCell(q)
          /\ msgs[Of(q, p)][j] = sent[q] /\ j >= cnt[Of(q, p)]
          /\ now <= router[q].at + 1 => j = cnt[Of(q, p)]
  /\ \A k \in DOMAIN processed[q] : processed[q][k] <= Done(q)

(* The others are in the queues in their order, ... *)
Placed(q) ==
  \A p \in Window, j \in Nat :
    Holds(q, p, j) =>
      j < Due(q, p) /\ (p = sm.pos => j >= Taken(q)) /\ p <= router[q].sec + 1

Before(p, i, s, j) == p < s \/ (p = s /\ i < j)

Ordered(q) ==
  \A p, s \in Window : \A i, j \in Nat :
    Holds(q, p, i) /\ Holds(q, s, j) /\ Before(p, i, s, j) => msgs[Of(q, p)][i] < msgs[Of(q, s)][j]

(* ... or have been processed, in their order and before those.            *)
Kept(q) ==
  \A m \in Nat : Settled(q, m) =>
    \/ \E k \in DOMAIN processed[q] : processed[q][k] = m
    \/ \E p \in Window, j \in Nat : Holds(q, p, j) /\ msgs[Of(q, p)][j] = m

Gone(q) ==
  \A k \in DOMAIN processed[q] : Settled(q, processed[q][k]) =>
    /\ \A l \in DOMAIN processed[q] : l < k /\ Settled(q, processed[q][l]) => processed[q][l] < processed[q][k]
    /\ \A p \in Window, j \in Nat : Holds(q, p, j) => processed[q][k] < msgs[Of(q, p)][j]

Sorted(q) == Counted(q) /\ Copied(q) /\ Placed(q) /\ Ordered(q) /\ Kept(q) /\ Gone(q) /\ Storing(q)

LEMMA WindowType ==
  ASSUME TypeOK
  PROVE  \A p \in Window : p \in Nat /\ p >= sm.pos /\ p < sm.pos + Slots
BY DEF Window

(* What is in the queues of router q. *)
LEMMA EntryTypes ==
  ASSUME TypeOK, Progress, NEW q \in Router
  PROVE  /\ \A p \in Nat : /\ Of(q, p) \in Cells /\ cnt[Of(q, p)] \in Nat
                           /\ \A j \in DOMAIN msgs[Of(q, p)] : j \in Nat /\ msgs[Of(q, p)][j] \in Nat
         /\ processed[q] \in Seq(Nat) /\ \A k \in DOMAIN processed[q] : processed[q][k] \in Nat
         /\ Done(q) \in Int
<1>1. \A p \in Nat : Of(q, p) \in Cells
  BY OfType
<1>2. \A p \in Nat : cnt[Of(q, p)] \in Nat
  BY <1>1 DEF TypeOK
<1>3. \A p \in Nat : \A j \in DOMAIN msgs[Of(q, p)] : j \in Nat /\ msgs[Of(q, p)][j] \in Nat
  BY <1>1 DEF TypeOK, Progress
<1>4. processed[q] \in Seq(Nat)
  BY DEF Progress
<1>5. \A k \in DOMAIN processed[q] : processed[q][k] \in Nat
  BY <1>4
<1>6. Done(q) \in Int
  BY Fields DEF Done
<1> QED  BY <1>1, <1>2, <1>3, <1>4, <1>5, <1>6

(* A count is never below what is due. *)
LEMMA DueByCount ==
  ASSUME TypeOK, Progress, NEW q \in Router, Counted(q), NEW p \in Window
  PROVE  Due(q, p) \in Nat /\ Due(q, p) <= cnt[Of(q, p)]
<1>1. p \in Nat /\ cnt[Of(q, p)] \in Nat /\ sm.rec \in Nat
  BY WindowType, EntryTypes, Fields
<1> QED  BY <1>1 DEF Due, Counted

(* A step that leaves the settled messages where they are.                 *)
LEMMA SameHolds ==
  ASSUME NEW q \in Router, Ordered(q), Kept(q), Gone(q),
         Window' = Window, processed'[q] = processed[q],
         \A v \in Nat : Settled(q, v)' <=> Settled(q, v),
         processed[q] \in Seq(Nat),
         \A p \in Window, j \in Nat :
           /\ Holds(q, p, j)' <=> Holds(q, p, j)
           /\ Holds(q, p, j) => msgs'[Of(q, p)][j] = msgs[Of(q, p)][j]
  PROVE  Ordered(q)' /\ Kept(q)' /\ Gone(q)'
<1>1. \A k \in DOMAIN processed[q] : processed[q][k] \in Nat
  OBVIOUS
<1>2. Ordered(q)'
  BY DEF Ordered, Of, Before
<1>3. Kept(q)'
  BY DEF Kept, Of
<1>4. Gone(q)'
  BY <1>1 DEF Gone, Of
<1> QED  BY <1>2, <1>3, <1>4

(* A step that leaves router q, its queues and the place of the session     *)
(* manager in them alone.                                                  *)
LEMMA RowUntouched ==
  ASSUME Timing, Progress, ~astray, NEW q \in Router, Sorted(q),
         router'[q] = router[q], sent'[q] = sent[q], late'[q] = late[q], processed'[q] = processed[q],
         now' \in Nat, now <= now', sm'.pos = sm.pos, Taken(q)' = Taken(q), Counted(q)',
         \A p \in Window : Due(q, p)' = Due(q, p),
         \A p \in Nat : cnt'[Of(q, p)] = cnt[Of(q, p)] /\ msgs'[Of(q, p)] = msgs[Of(q, p)]
  PROVE  Sorted(q)'
<1>0. TypeOK /\ now \in Nat /\ router[q].at \in Nat /\ processed[q] \in Seq(Nat)
  BY Fields, EntryTypes DEF Timing
<1>1. Window' = Window /\ \A p \in Window : p \in Nat
  BY DEF Window
<1>2. Done(q)' = Done(q) /\ \A v : Settled(q, v)' <=> Settled(q, v)
  BY DEF Done, Settled
<1>3. \A p \in Window : \A j : Holds(q, p, j)' <=> Holds(q, p, j)
  BY <1>1, <1>2 DEF Holds, Of, Settled
<1>4. Ordered(q)' /\ Kept(q)' /\ Gone(q)'
  BY <1>0, <1>1, <1>2, <1>3, SameHolds DEF Sorted
<1>5. Placed(q)'
  BY <1>1, <1>3 DEF Sorted, Placed
<1>6. Copied(q)'
  <2>1. \A p \in Window : \A j \in DOMAIN msgs'[Of(q, p)] :
          \/ msgs'[Of(q, p)][j] <= Done(q)'
          \/ /\ router'[q].pc \in {"load", "store"} /\ Of(q, p) = RouterCell(q)'
             /\ msgs'[Of(q, p)][j] = sent'[q] /\ j >= cnt'[Of(q, p)]
             /\ now' <= router'[q].at + 1 => j = cnt'[Of(q, p)]
    BY <1>0, <1>1, <1>2 DEF Sorted, Copied, RouterCell
  <2>2. \A k \in DOMAIN processed'[q] : processed'[q][k] <= Done(q)'
    BY <1>2 DEF Sorted, Copied
  <2> QED  BY <1>1, <2>1, <2>2 DEF Copied, Of
<1>7. Storing(q)'
  <2> SUFFICES ASSUME router[q].pc \in {"load", "store"}, now' <= router[q].at + 1
               PROVE  /\ cnt'[RouterCell(q)] \in DOMAIN msgs'[RouterCell(q)]
                      /\ msgs'[RouterCell(q)][cnt'[RouterCell(q)]] = sent[q]
                      /\ router[q].pc = "store" => router[q].n = cnt'[RouterCell(q)]
    BY DEF Storing, RouterCell
  <2>1. router[q].sec + 1 \in Nat /\ RouterCell(q) = Of(q, router[q].sec + 1)
    BY OwnCell DEF InStore
  <2>2. cnt'[RouterCell(q)] = cnt[RouterCell(q)] /\ msgs'[RouterCell(q)] = msgs[RouterCell(q)]
    BY <2>1
  <2>3. now <= router[q].at + 1
    BY <1>0
  <2> QED  BY <2>2, <2>3 DEF Sorted, Storing
<1> QED  BY <1>4, <1>5, <1>6, <1>7 DEF Sorted

LEMMA OtherKeepsSorted ==
  ASSUME Timing, Progress, HistoryType, ~astray, NEW q \in Router, Sorted(q),
         NEW r \in Router, r # q, Store(r), ~astray'
  PROVE  Sorted(q)'
<1>1. /\ UNCHANGED <<now, sm, processed>> /\ router'[q] = router[q] /\ sent'[q] = sent[q]
      /\ \A p \in Nat : cnt'[Of(q, p)] = cnt[Of(q, p)] /\ msgs'[Of(q, p)] = msgs[Of(q, p)]
  BY OtherRow
<1>2. late'[q] = late[q]
  <2>1. late' = late \/ late' = [late EXCEPT ![r] = @ \cup {sent[r]}]
    <3>1. CASE ReadClockAgain(r)
      BY <3>1, Zenon DEF ReadClockAgain
    <3>2. CASE ~ReadClockAgain(r)
      BY <3>2 DEF Store, Begin, Refuse, PassBusy, Copy, LoadCount, StoreCount, history, NoteLate
    <3> QED  BY <3>1, <3>2
  <2> QED  BY <2>1 DEF HistoryType
<1>3. TypeOK /\ now \in Nat /\ sm.pos \in Nat
  BY Fields DEF Timing
<1>4. Taken(q)' = Taken(q)
  BY <1>1 DEF Taken
<1>5. \A p \in Window : p \in Nat
  BY DEF Window
<1>6. \A p \in Window : Due(q, p)' = Due(q, p)
  BY <1>1, <1>5 DEF Due, Of
<1>7. Counted(q)'
  <2>1. cnt'[Of(q, sm.pos)] = cnt[Of(q, sm.pos)]
    BY <1>1, <1>3
  <2>2. router[q].pc = "store" => RouterCell(q)' = RouterCell(q) /\ cnt'[RouterCell(q)] = cnt[RouterCell(q)]
    <3>1. router[q].pc = "store" => router[q].sec + 1 \in Nat /\ RouterCell(q) = Of(q, router[q].sec + 1)
      BY OwnCell DEF InStore
    <3> QED  BY <1>1, <3>1 DEF RouterCell
  <2> QED  BY <1>1, <2>1, <2>2 DEF Sorted, Counted, Of
<1> QED  BY <1>1, <1>2, <1>3, <1>4, <1>6, <1>7, RowUntouched

LEMMA BeginningKeepsSorted ==
  ASSUME Timing, Progress, ~astray, NEW q \in Router, Sorted(q),
         Begin(q) \/ ReadClockAgain(q) \/ PassBusy(q)
  PROVE  Sorted(q)'
<1>0. TypeOK /\ router[q].sec \in Nat /\ processed[q] \in Seq(Nat) /\ \A p \in Window : p \in Nat
  BY Fields, EntryTypes DEF Timing, Window
<1>1. /\ UNCHANGED <<now, sm, cnt, msgs, processed, late>>
      /\ router[q].pc \in {"idle", "index", "check"}
      /\ router'[q].pc \in {"index", "check", "copy"} /\ Done(q)' = Done(q)
      /\ router'[q].sec \in Nat /\ router'[q].sec >= router[q].sec
  BY Beginning
<1>2. Window' = Window /\ \A v : Settled(q, v)' <=> Settled(q, v)
  BY <1>1 DEF Window, Settled
<1>3. \A p, j : Holds(q, p, j)' <=> Holds(q, p, j)
  BY <1>1, <1>2 DEF Holds, Of, Settled
<1>4. Ordered(q)' /\ Kept(q)' /\ Gone(q)'
  BY <1>0, <1>1, <1>2, <1>3, SameHolds DEF Sorted
<1>5. Placed(q)'
  <2> SUFFICES ASSUME NEW p \in Window, NEW j \in Nat, Holds(q, p, j)
               PROVE  j < Due(q, p)' /\ (p = sm.pos => j >= Taken(q)') /\ p <= router'[q].sec + 1
    BY <1>1, <1>2, <1>3 DEF Placed
  <2>1. j < Due(q, p) /\ (p = sm.pos => j >= Taken(q)) /\ p <= router[q].sec + 1
    BY DEF Sorted, Placed
  <2>2. Due(q, p)' = Due(q, p) /\ Taken(q)' = Taken(q)
    BY <1>1 DEF Due, Taken, Of
  <2> QED  BY <1>0, <1>1, <2>1, <2>2
<1>6. Copied(q)'
  <2>1. \A p \in Window : \A j \in DOMAIN msgs[Of(q, p)] : msgs[Of(q, p)][j] <= Done(q)
    BY <1>1 DEF Sorted, Copied
  <2>2. \A k \in DOMAIN processed[q] : processed[q][k] <= Done(q)
    BY DEF Sorted, Copied
  <2> QED  BY <1>1, <1>2, <2>1, <2>2 DEF Copied, Of
<1>7. Counted(q)' /\ Storing(q)'
  BY <1>1 DEF Sorted, Counted, Storing, Of
<1> QED  BY <1>4, <1>5, <1>6, <1>7 DEF Sorted

LEMMA LoadKeepsSorted ==
  ASSUME Timing, Progress, ~astray, NEW q \in Router, Sorted(q), LoadCount(q)
  PROVE  Sorted(q)'
<1>0. TypeOK /\ processed[q] \in Seq(Nat) /\ \A p \in Window : p \in Nat
  BY EntryTypes DEF Timing, Window
<1>1. UNCHANGED <<now, sm, cnt, msgs, processed, late, sent>>
  BY DEF LoadCount, queue, history
<1>2. /\ router[q].pc = "load" /\ router'[q].pc = "store" /\ router'[q].n = cnt[RouterCell(q)]
      /\ router'[q].sec = router[q].sec /\ router'[q].at = router[q].at /\ router'[q].idx = router[q].idx
  BY <1>0 DEF LoadCount, TypeOK
<1>3. RouterCell(q)' = RouterCell(q) /\ Done(q)' = Done(q)
  BY <1>1, <1>2 DEF RouterCell, Done
<1>4. Window' = Window /\ \A v : Settled(q, v)' <=> Settled(q, v)
  BY <1>1, <1>3 DEF Window, Settled
<1>5. \A p, j : Holds(q, p, j)' <=> Holds(q, p, j)
  BY <1>1, <1>4 DEF Holds, Of, Settled
<1>6. Ordered(q)' /\ Kept(q)' /\ Gone(q)'
  BY <1>0, <1>1, <1>4, <1>5, SameHolds DEF Sorted
<1>7. Placed(q)'
  BY <1>1, <1>2, <1>4, <1>5 DEF Sorted, Placed, Due, Taken, Of
<1>8. Copied(q)'
  <2>1. \A p \in Window : \A j \in DOMAIN msgs[Of(q, p)] :
          \/ msgs[Of(q, p)][j] <= Done(q)
          \/ /\ Of(q, p) = RouterCell(q)
             /\ msgs[Of(q, p)][j] = sent[q] /\ j >= cnt[Of(q, p)]
             /\ now <= router[q].at + 1 => j = cnt[Of(q, p)]
    BY DEF Sorted, Copied
  <2>2. \A k \in DOMAIN processed[q] : processed[q][k] <= Done(q)
    BY DEF Sorted, Copied
  <2> QED  BY <1>1, <1>2, <1>3, <1>4, <2>1, <2>2 DEF Copied, Of
<1>9. Counted(q)'
  BY <1>1, <1>2, <1>3 DEF Sorted, Counted, Of
<1>10. Storing(q)'
  BY <1>1, <1>2, <1>3 DEF Sorted, Storing
<1> QED  BY <1>6, <1>7, <1>8, <1>9, <1>10 DEF Sorted

LEMMA CopyKeepsSorted ==
  ASSUME Timing, Progress, ~astray, NEW q \in Router, Sorted(q), Copy(q)
  PROVE  Sorted(q)'
<1> DEFINE c == RouterCell(q)
           k == cnt[c]
<1>0. /\ TypeOK /\ processed[q] \in Seq(Nat) /\ \A p \in Window : p \in Nat /\ Of(q, p) \in Cells
      /\ sent[q] \in Nat /\ router[q].pc = "copy" /\ DOMAIN msgs = Cells
  BY Fields, EntryTypes DEF Timing, Window, Copy, Progress
<1>1. UNCHANGED <<now, sm, cnt, processed, late, sent>>
  BY DEF Copy
<1>2. /\ router'[q].pc = "load" /\ router'[q].sec = router[q].sec
      /\ router'[q].at = router[q].at /\ router'[q].idx = router[q].idx
  BY <1>0 DEF Copy, Goto, TypeOK
<1>3. c \in Cells /\ k \in Nat
  BY <1>0, OwnCell DEF InStore, TypeOK
<1>4. /\ \A d \in Cells : d # c => msgs'[d] = msgs[d]
      /\ DOMAIN msgs'[c] = DOMAIN msgs[c] \cup {k} /\ msgs'[c][k] = sent[q]
      /\ \A j \in DOMAIN msgs[c] : j # k => msgs'[c][j] = msgs[c][j]
  <2> DEFINE m == Stored(msgs[c], k, sent[q])
  <2>1. msgs' = [msgs EXCEPT ![c] = m]
    BY DEF Copy
  <2>2. /\ DOMAIN m = DOMAIN msgs[c] \cup {k} /\ m[k] = sent[q]
        /\ \A j \in DOMAIN msgs[c] : j # k => m[j] = msgs[c][j]
    BY DEF Stored
  <2> HIDE DEF m, c, k
  <2> QED  BY <1>0, <1>3, <2>1, <2>2
<1>5. RouterCell(q)' = c /\ Done(q)' = Done(q) /\ Done(q) = sent[q] - 1
  BY <1>0, <1>1, <1>2 DEF RouterCell, Done
<1>6. Window' = Window /\ \A v : Settled(q, v)' <=> Settled(q, v)
  BY <1>1, <1>5 DEF Window, Settled
<1>7. ~Settled(q, sent[q])
  BY <1>0, <1>5 DEF Settled
<1> HIDE DEF c, k
<1>8. ASSUME NEW p \in Window, NEW j \in Nat
      PROVE  /\ Holds(q, p, j)' <=> Holds(q, p, j)
             /\ Holds(q, p, j) => msgs'[Of(q, p)][j] = msgs[Of(q, p)][j]
  <2>1. Of(q, p)' = Of(q, p) /\ Of(q, p) \in Cells
    BY <1>0 DEF Of
  <2>2. CASE Of(q, p) # c \/ j # k
    <3>1. (j \in DOMAIN msgs'[Of(q, p)] <=> j \in DOMAIN msgs[Of(q, p)])
      BY <1>4, <2>1, <2>2
    <3>2. j \in DOMAIN msgs[Of(q, p)] => msgs'[Of(q, p)][j] = msgs[Of(q, p)][j]
      BY <1>4, <2>1, <2>2
    <3> QED  BY <1>6, <2>1, <3>1, <3>2 DEF Holds
  <2>3. CASE Of(q, p) = c /\ j = k
    <3>1. ~Holds(q, p, j)
      <4>1. Due(q, p) \in Nat /\ Due(q, p) <= k
        BY <1>0, <2>3, DueByCount DEF Sorted, k
      <4>2. Holds(q, p, j) => j < Due(q, p)
        BY DEF Sorted, Placed
      <4> QED  BY <1>3, <2>3, <4>1, <4>2
    <3>2. ~Holds(q, p, j)'
      BY <1>4, <1>6, <1>7, <2>1, <2>3 DEF Holds
    <3> QED  BY <3>1, <3>2
  <2> QED  BY <2>2, <2>3
<1>9. Ordered(q)' /\ Kept(q)' /\ Gone(q)'
  BY <1>0, <1>1, <1>6, <1>8, SameHolds DEF Sorted
<1>10. Placed(q)'
  BY <1>1, <1>2, <1>6, <1>8 DEF Sorted, Placed, Due, Taken, Of
<1>11. Copied(q)'
  <2>1. ASSUME NEW p \in Window, NEW j \in DOMAIN msgs'[Of(q, p)]
        PROVE  \/ msgs'[Of(q, p)][j] <= Done(q)
               \/ Of(q, p) = c /\ msgs'[Of(q, p)][j] = sent[q] /\ j = k
    <3>1. \A i \in DOMAIN msgs[Of(q, p)] : msgs[Of(q, p)][i] <= Done(q)
      BY <1>0 DEF Sorted, Copied
    <3>2. Of(q, p) \in Cells
      BY <1>0
    <3>3. CASE Of(q, p) = c /\ j = k
      BY <1>4, <3>3
    <3>4. CASE Of(q, p) # c \/ j # k
      <4>1. j \in DOMAIN msgs[Of(q, p)] /\ msgs'[Of(q, p)][j] = msgs[Of(q, p)][j]
        BY <1>4, <3>2, <3>4
      <4> QED  BY <3>1, <4>1
    <3> QED  BY <3>3, <3>4
  <2>2. \A p \in Window : \A j \in DOMAIN msgs'[Of(q, p)] :
          \/ msgs'[Of(q, p)][j] <= Done(q)
          \/ /\ Of(q, p) = c /\ msgs'[Of(q, p)][j] = sent[q]
             /\ j >= cnt[Of(q, p)] /\ j = cnt[Of(q, p)]
    BY <1>3, <2>1 DEF k
  <2>3. \A n \in DOMAIN processed[q] : processed[q][n] <= Done(q)
    BY DEF Sorted, Copied
  <2> QED  BY <1>1, <1>2, <1>5, <1>6, <2>2, <2>3 DEF Copied, Of
<1>12. Counted(q)'
  BY <1>1, <1>2 DEF Sorted, Counted, Of
<1>13. Storing(q)'
  BY <1>1, <1>2, <1>4, <1>5 DEF Storing, c, k
<1> QED  BY <1>9, <1>10, <1>11, <1>12, <1>13 DEF Sorted

(* The router is done with its message, which has been refused or counted. *)
LEMMA Ending ==
  ASSUME Timing, Progress, HistoryType, ~astray, NEW q \in Router, Sorted(q), Refuse(q) \/ StoreCount(q)
  PROVE  /\ UNCHANGED <<now, sm, msgs, processed, sent>>
         /\ router'[q].pc = "idle" /\ router'[q].sec = router[q].sec
         /\ sent[q] \in Nat /\ sent[q] > 0 /\ Done(q)' = sent[q] /\ Done(q) = sent[q] - 1
         /\ late[q] \subseteq late'[q] /\ late'[q] \subseteq late[q] \cup {sent[q]}
         /\ cnt' \in [Cells -> Nat] /\ \A d \in Cells : cnt[d] <= cnt'[d]
         /\ Copied(q)' /\ Counted(q)' /\ Storing(q)'
<1> DEFINE c == RouterCell(q)
<1>0. /\ TypeOK /\ sent[q] \in Nat /\ cnt \in [Cells -> Nat] /\ sm.pos \in Nat /\ sm.rec \in Nat
      /\ router[q].n \in Nat /\ late \in [Router -> SUBSET Nat] /\ \A p \in Nat : Of(q, p) \in Cells
  BY Fields, EntryTypes DEF Timing, HistoryType, TypeOK
<1>1. UNCHANGED <<now, sm, msgs, processed, sent>>
  BY DEF Refuse, StoreCount, queue
<1>2. /\ router'[q].pc = "idle" /\ router'[q].sec = router[q].sec /\ router[q].pc \in {"check", "store"}
  BY <1>0 DEF Refuse, StoreCount, Goto, TypeOK
<1>3. c \in Cells /\ sent[q] > 0
  BY <1>2, OwnCell DEF InStore, Progress
<1>4. Done(q)' = sent[q] /\ Done(q) = sent[q] - 1
  BY <1>1, <1>2 DEF Done
<1>5. late[q] \subseteq late'[q] /\ late'[q] \subseteq late[q] \cup {sent[q]}
  <2>1. late' = late \/ late' = [late EXCEPT ![q] = @ \cup {sent[q]}]
    BY DEF Refuse, StoreCount, NoteLate
  <2> QED  BY <1>0, <2>1
<1>6. cnt' \in [Cells -> Nat] /\ \A d \in Cells : cnt[d] <= cnt'[d]
  <2>1. CASE Refuse(q)
    <3>1. cnt' = cnt
      BY <2>1 DEF Refuse, queue
    <3> QED  BY <1>0, <3>1
  <2>2. CASE StoreCount(q)
    <3> DEFINE y == router[q].n + 1
    <3>1. cnt' = [cnt EXCEPT ![c] = y] /\ y \in Nat
      BY <1>0, <2>2 DEF StoreCount
    <3>2. cnt[c] <= y
      <4>1. router[q].n = cnt[c] \/ cnt[c] = 0
        BY <2>2 DEF StoreCount, Sorted, Counted
      <4>2. cnt[c] \in Nat
        BY <1>0, <1>3
      <4> HIDE DEF c
      <4> QED  BY <1>0, <4>1, <4>2
    <3> HIDE DEF y, c
    <3>3. cnt' \in [Cells -> Nat]
      BY <1>0, <1>3, <3>1
    <3>4. ASSUME NEW d \in Cells PROVE cnt[d] <= cnt'[d]
      <4>1. cnt[d] \in Nat
        BY <1>0
      <4>2. CASE d = c
        BY <1>0, <1>3, <3>1, <3>2, <4>2
      <4>3. CASE d # c
        <5>1. cnt'[d] = cnt[d]
          BY <1>0, <3>1, <4>3
        <5> QED  BY <4>1, <5>1
      <4> QED  BY <4>2, <4>3
    <3> QED  BY <3>3, <3>4
  <2> QED  BY <2>1, <2>2
<1>7. Copied(q)'
  <2>1. Window' = Window /\ \A p \in Window : p \in Nat
    BY <1>1 DEF Window
  <2>2. \A p \in Window : \A j \in DOMAIN msgs[Of(q, p)] : msgs[Of(q, p)][j] <= sent[q]
    <3> SUFFICES ASSUME NEW p \in Window, NEW j \in DOMAIN msgs[Of(q, p)]
                 PROVE  msgs[Of(q, p)][j] <= sent[q]
      OBVIOUS
    <3> DEFINE v == msgs[Of(q, p)][j]
    <3>1. v <= Done(q) \/ v = sent[q]
      BY DEF Sorted, Copied
    <3>2. v \in Nat
      BY <1>0, <2>1, EntryTypes
    <3> HIDE DEF v
    <3>3. v <= sent[q]
      BY <1>0, <1>4, <3>1, <3>2
    <3> QED  BY <3>3 DEF v
  <2>3. \A k \in DOMAIN processed[q] : processed[q][k] <= sent[q]
    <3> SUFFICES ASSUME NEW k \in DOMAIN processed[q] PROVE processed[q][k] <= sent[q]
      OBVIOUS
    <3>1. processed[q][k] <= Done(q) /\ processed[q][k] \in Nat
      BY <1>0, EntryTypes DEF Sorted, Copied
    <3> QED  BY <1>0, <1>4, <3>1
  <2> QED  BY <1>1, <1>4, <2>1, <2>2, <2>3 DEF Copied, Of
<1>8. Counted(q)'
  <2>1. cnt[Of(q, sm.pos)] <= cnt'[Of(q, sm.pos)] /\ cnt[Of(q, sm.pos)] \in Nat /\ cnt'[Of(q, sm.pos)] \in Nat
    BY <1>0, <1>6
  <2>2. q = sm.r /\ sm.pc \in {"busy", "take", "clear", "reset"} =>
          0 < sm.rec /\ sm.rec <= cnt[Of(q, sm.pos)]
    BY DEF Sorted, Counted
  <2>3. q = sm.r /\ sm.pc \in {"busy", "take", "clear", "reset"} =>
          0 < sm.rec /\ sm.rec <= cnt'[Of(q, sm.pos)]
    BY <1>0, <2>1, <2>2
  <2> QED  BY <1>1, <1>2, <2>3 DEF Counted, Of
<1>9. Storing(q)'
  BY <1>2 DEF Storing
<1> QED  BY <1>0, <1>1, <1>2, <1>3, <1>4, <1>5, <1>6, <1>7, <1>8, <1>9

(* What is due does not shrink when a count grows.                         *)
LEMMA DueGrows ==
  ASSUME TypeOK, NEW q \in Router, NEW p \in Window, sm' = sm,
         cnt' \in [Cells -> Nat], \A d \in Cells : cnt[d] <= cnt'[d]
  PROVE  Due(q, p) \in Nat /\ Due(q, p)' \in Nat /\ Due(q, p) <= Due(q, p)'
<1>1. Of(q, p) \in Cells /\ Of(q, p)' = Of(q, p)
  BY OfType DEF Window, Of
<1>2. /\ cnt[Of(q, p)] \in Nat /\ cnt'[Of(q, p)] \in Nat /\ cnt[Of(q, p)] <= cnt'[Of(q, p)]
      /\ sm.rec \in Nat
  BY <1>1, Fields DEF TypeOK
<1> QED  BY <1>1, <1>2 DEF Due

(* A message that was late or refused is not one of those that must keep   *)
(* their order.                                                            *)
LEMMA LateEndKeepsSorted ==
  ASSUME Timing, Progress, HistoryType, ~astray, NEW q \in Router, Sorted(q),
         Refuse(q) \/ StoreCount(q), sent[q] \in late'[q]
  PROVE  Sorted(q)'
<1>0. /\ TypeOK /\ processed[q] \in Seq(Nat) /\ router[q].sec \in Nat
      /\ \A p \in Window : p \in Nat
  BY Fields, EntryTypes DEF Timing, Window
<1>1. /\ UNCHANGED <<now, sm, msgs, processed, sent>>
      /\ router'[q].pc = "idle" /\ router'[q].sec = router[q].sec
      /\ sent[q] \in Nat /\ sent[q] > 0 /\ Done(q)' = sent[q] /\ Done(q) = sent[q] - 1
      /\ late[q] \subseteq late'[q] /\ late'[q] \subseteq late[q] \cup {sent[q]}
      /\ cnt' \in [Cells -> Nat] /\ \A d \in Cells : cnt[d] <= cnt'[d]
      /\ Copied(q)' /\ Counted(q)' /\ Storing(q)'
  BY Ending
<1>2. \A v : Settled(q, v)' <=> Settled(q, v)
  <2> TAKE v
  <2>1. v \in 1 .. sent[q] /\ v # sent[q] <=> v \in 1 .. sent[q] - 1
    BY <1>1
  <2>2. v # sent[q] => (v \in late'[q] <=> v \in late[q])
    BY <1>1
  <2>3. Settled(q, v)' <=> v \in 1 .. sent[q] /\ v \notin late'[q]
    BY <1>1 DEF Settled
  <2>4. Settled(q, v) <=> v \in 1 .. sent[q] - 1 /\ v \notin late[q]
    BY <1>1 DEF Settled
  <2>5. Settled(q, v)' => v # sent[q]
    BY <2>3
  <2> QED  BY <2>1, <2>2, <2>3, <2>4, <2>5
<1>3. Window' = Window
  BY <1>1 DEF Window
<1>4. \A p, j : Holds(q, p, j)' <=> Holds(q, p, j)
  BY <1>1, <1>2 DEF Holds, Of, Settled
<1>5. Ordered(q)' /\ Kept(q)' /\ Gone(q)'
  BY <1>0, <1>1, <1>2, <1>3, <1>4, SameHolds DEF Sorted
<1>6. Placed(q)'
  <2> SUFFICES ASSUME NEW p \in Window, NEW j \in Nat, Holds(q, p, j)
               PROVE  j < Due(q, p)' /\ (p = sm.pos => j >= Taken(q)') /\ p <= router[q].sec + 1
    BY <1>1, <1>3, <1>4 DEF Placed
  <2>1. j < Due(q, p) /\ (p = sm.pos => j >= Taken(q)) /\ p <= router[q].sec + 1
    BY DEF Sorted, Placed
  <2>2. Due(q, p) \in Nat /\ Due(q, p)' \in Nat /\ Due(q, p) <= Due(q, p)'
    BY <1>0, <1>1, DueGrows
  <2>3. Taken(q)' = Taken(q)
    BY <1>1 DEF Taken
  <2> QED  BY <2>1, <2>2, <2>3
<1> QED  BY <1>1, <1>5, <1>6 DEF Sorted

(* A message that ends in time comes after all those before it.            *)
LEMMA CountKeepsSorted ==
  ASSUME Timely, Refusals, Progress, ~astray, NEW q \in Router, Sorted(q),
         Refuse(q) \/ StoreCount(q), sent[q] \notin late'[q]
  PROVE  Sorted(q)'
<1> DEFINE w == router[q].sec + 1
           c == RouterCell(q)
           x == cnt[c]
<1>r. Timing /\ HistoryType
  BY DEF Refusals
<1>0. /\ TypeOK /\ processed[q] \in Seq(Nat) /\ w \in Nat /\ router[q].sec \in Nat /\ sm.pos \in Nat /\ q \in Nat
      /\ \A p \in Window : p \in Nat /\ Of(q, p) \in Cells /\ Of(q, p)' = Of(q, p)
      /\ \A p \in Window : \A j \in DOMAIN msgs[Of(q, p)] : j \in Nat /\ msgs[Of(q, p)][j] \in Nat
      /\ \A k \in DOMAIN processed[q] : processed[q][k] \in Nat
  <2>1. TypeOK /\ router[q].sec \in Nat /\ w \in Nat /\ sm.pos \in Nat /\ q \in Nat
    BY <1>r, Fields DEF Timing
  <2>2. \A p \in Window : p \in Nat /\ Of(q, p)' = Of(q, p)
    BY DEF Window, Of
  <2> QED  BY <2>1, <2>2, EntryTypes
<1>t. StoreCount(q) /\ now <= router[q].at + 1
  BY EndsInTime
<1>1. /\ UNCHANGED <<now, sm, msgs, processed, sent>>
      /\ router'[q].pc = "idle" /\ router'[q].sec = router[q].sec
      /\ sent[q] \in Nat /\ sent[q] > 0 /\ Done(q)' = sent[q] /\ Done(q) = sent[q] - 1
      /\ late[q] \subseteq late'[q] /\ late'[q] \subseteq late[q] \cup {sent[q]}
      /\ cnt' \in [Cells -> Nat] /\ \A d \in Cells : cnt[d] <= cnt'[d]
      /\ Copied(q)' /\ Counted(q)' /\ Storing(q)'
  BY <1>r, Ending
<1>2. InStore(q) /\ router[q].pc = "store"
  BY <1>t DEF InStore, StoreCount
<1>3. w \in Window /\ c = Of(q, w) /\ (sm.pc # "poll" => w # sm.pos) /\ c \in Cells
  BY <1>0, <1>r, <1>t, <1>2, InTimeCell
<1>4. router[q].n = x /\ x \in DOMAIN msgs[c] /\ msgs[c][x] = sent[q] /\ x \in Nat
  BY <1>0, <1>2, <1>3, <1>t DEF Sorted, Storing
<1>5. cnt'[c] = x + 1
  <2>1. cnt' = [cnt EXCEPT ![c] = x + 1] /\ cnt \in [Cells -> Nat]
    BY <1>0, <1>4, <1>t DEF StoreCount, TypeOK
  <2> HIDE DEF c, x
  <2> QED  BY <1>3, <2>1
<1>6. \A v \in Nat : Settled(q, v)' <=> Settled(q, v) \/ v = sent[q]
  <2> TAKE v \in Nat
  <2>1. v \in 1 .. sent[q] <=> v \in 1 .. sent[q] - 1 \/ v = sent[q]
    BY <1>1
  <2>2. v \in late'[q] <=> v \in late[q]
    BY <1>1
  <2>3. Settled(q, v)' <=> v \in 1 .. sent[q] /\ v \notin late'[q]
    BY <1>1 DEF Settled
  <2>4. Settled(q, v) <=> v \in 1 .. sent[q] - 1 /\ v \notin late[q]
    BY <1>1 DEF Settled
  <2> QED  BY <2>1, <2>2, <2>3, <2>4
<1>7. Window' = Window
  BY <1>1 DEF Window
<1> HIDE DEF w, c, x
<1>8. \A p \in Window, j \in Nat : Holds(q, p, j)' <=> Holds(q, p, j) \/ (p = w /\ j = x)
  <2> TAKE p \in Window, j \in Nat
  <2>1. CASE j \notin DOMAIN msgs[Of(q, p)]
    <3>1. ~Holds(q, p, j) /\ ~Holds(q, p, j)'
      BY <1>0, <1>1, <2>1 DEF Holds
    <3>2. ~(p = w /\ j = x)
      BY <1>3, <1>4, <2>1
    <3> QED  BY <3>1, <3>2
  <2>2. CASE j \in DOMAIN msgs[Of(q, p)]
    <3>1. PICK v \in Nat : v = msgs[Of(q, p)][j]
      BY <1>0, <2>2
    <3>2. Holds(q, p, j) <=> Settled(q, v)
      BY <2>2, <3>1 DEF Holds
    <3>3. Holds(q, p, j)' <=> Settled(q, v)'
      BY <1>0, <1>1, <2>2, <3>1 DEF Holds, Settled
    <3>4. p = w /\ j = x => v = sent[q]
      BY <1>3, <1>4, <3>1
    <3>5. ASSUME v = sent[q] PROVE p = w /\ j = x
      <4>1. ~(v <= Done(q))
        BY <1>1, <3>5
      <4>2. Of(q, p) = c /\ j = cnt[Of(q, p)]
        BY <1>t, <2>2, <3>1, <4>1 DEF Sorted, Copied, c
      <4>3. p = w
        BY <1>0, <1>3, <4>2, OwnQueues
      <4> QED  BY <4>2, <4>3 DEF x
    <3>6. Settled(q, v)' <=> Settled(q, v) \/ v = sent[q]
      BY <1>6
    <3> QED  BY <3>2, <3>3, <3>4, <3>5, <3>6
  <2> QED  BY <2>1, <2>2
<1>9. ASSUME NEW p \in Window, NEW j \in Nat, Holds(q, p, j)
      PROVE  /\ msgs[Of(q, p)][j] \in Nat /\ msgs[Of(q, p)][j] < sent[q]
             /\ p < w \/ (p = w /\ j < x)
  <2>1. msgs[Of(q, p)][j] \in 1 .. sent[q] - 1
    BY <1>1, <1>9 DEF Holds, Settled
  <2>2. j < Due(q, p) /\ p <= w
    BY <1>9 DEF Sorted, Placed, w
  <2>3. Due(q, p) \in Nat /\ Due(q, p) <= cnt[Of(q, p)] /\ cnt[Of(q, p)] \in Nat
    BY <1>0, DueByCount DEF Sorted, TypeOK
  <2>4. p = w => cnt[Of(q, p)] = x
    BY <1>3 DEF x
  <2>5. p \in Nat /\ w \in Nat /\ x \in Nat
    BY <1>0, <1>4
  <2>6. p = w => j < x
    BY <2>2, <2>3, <2>4, <2>5
  <2> QED  BY <1>1, <2>1, <2>2, <2>5, <2>6
<1>10. Placed(q)'
  <2> SUFFICES ASSUME NEW p \in Window, NEW j \in Nat, Holds(q, p, j)'
               PROVE  j < Due(q, p)' /\ (p = sm.pos => j >= Taken(q)') /\ p <= router[q].sec + 1
    BY <1>1, <1>7 DEF Placed
  <2>1. Due(q, p) \in Nat /\ Due(q, p)' \in Nat /\ Due(q, p) <= Due(q, p)' /\ Taken(q)' = Taken(q)
    BY <1>0, <1>1, DueGrows DEF Taken
  <2>2. CASE Holds(q, p, j)
    <3>1. j < Due(q, p) /\ (p = sm.pos => j >= Taken(q)) /\ p <= router[q].sec + 1
      BY <2>2 DEF Sorted, Placed
    <3> QED  BY <2>1, <3>1
  <2>3. CASE p = w /\ j = x
    <3>1. p = sm.pos => sm.pc = "poll" /\ sm.r = 0
      BY <1>3, <2>3 DEF Progress
    <3>2. Due(q, p)' = cnt'[Of(q, p)]
      BY <1>0, <1>1, <3>1 DEF Due
    <3>3. p = sm.pos => Taken(q) = 0
      BY <3>1 DEF Taken
    <3> QED  BY <1>0, <1>3, <1>4, <1>5, <2>1, <2>3, <3>2, <3>3 DEF w
  <2> QED  BY <1>8, <2>2, <2>3
<1>11. Ordered(q)'
  <2> SUFFICES ASSUME NEW p \in Window, NEW s \in Window, NEW i \in Nat, NEW j \in Nat,
                      Holds(q, p, i)', Holds(q, s, j)', Before(p, i, s, j)
               PROVE  msgs[Of(q, p)][i] < msgs[Of(q, s)][j]
    BY <1>1, <1>7, <1>0 DEF Ordered, Before
  <2>0. p \in Nat /\ s \in Nat /\ w \in Nat /\ x \in Nat
    BY <1>0, <1>4
  <2>1. Holds(q, p, i)
    <3> SUFFICES ASSUME p = w, i = x PROVE FALSE
      BY <1>8
    <3>1. CASE Holds(q, s, j)
      <4>1. s < w \/ (s = w /\ j < x)
        BY <1>9, <3>1
      <4> QED  BY <2>0, <4>1 DEF Before
    <3>2. CASE s = w /\ j = x
      BY <2>0, <3>2 DEF Before
    <3> QED  BY <1>8, <3>1, <3>2
  <2>2. CASE Holds(q, s, j)
    BY <2>1, <2>2 DEF Sorted, Ordered
  <2>3. CASE s = w /\ j = x
    BY <1>3, <1>4, <1>9, <2>1, <2>3
  <2> QED  BY <1>8, <2>2, <2>3
<1>12. Kept(q)'
  <2> SUFFICES ASSUME NEW m \in Nat, Settled(q, m)'
               PROVE  \/ \E k \in DOMAIN processed[q] : processed[q][k] = m
                      \/ \E p \in Window, j \in Nat : Holds(q, p, j)' /\ msgs[Of(q, p)][j] = m
    BY <1>0, <1>1, <1>7 DEF Kept
  <2>1. CASE Settled(q, m)
    BY <1>8, <2>1 DEF Sorted, Kept
  <2>2. CASE m = sent[q]
    BY <1>3, <1>4, <1>8, <2>2
  <2> QED  BY <1>6, <2>1, <2>2
<1>13. Gone(q)'
  <2>1. \A k \in DOMAIN processed[q] :
          /\ processed[q][k] \in Nat /\ processed[q][k] < sent[q]
          /\ Settled(q, processed[q][k])' => Settled(q, processed[q][k])
    <3> TAKE k \in DOMAIN processed[q]
    <3>1. processed[q][k] \in Nat /\ processed[q][k] <= sent[q] - 1
      BY <1>0, <1>1 DEF Sorted, Copied
    <3>2. processed[q][k] < sent[q] /\ processed[q][k] # sent[q]
      BY <1>1, <3>1
    <3>3. PICK v \in Nat : v = processed[q][k]
      BY <3>1
    <3>4. Settled(q, processed[q][k])' => Settled(q, v)'
      BY <1>1, <3>3 DEF Settled
    <3>5. Settled(q, v)' => Settled(q, v)
      BY <1>6, <3>2, <3>3
    <3> QED  BY <3>1, <3>2, <3>3, <3>4, <3>5
  <2>2. ASSUME NEW k \in DOMAIN processed[q], Settled(q, processed[q][k]), NEW p \in Window, NEW j \in Nat,
               Holds(q, p, j)'
        PROVE  processed[q][k] < msgs[Of(q, p)][j]
    <3>1. CASE Holds(q, p, j)
      BY <2>2, <3>1 DEF Sorted, Gone
    <3>2. CASE p = w /\ j = x
      BY <1>3, <1>4, <2>1, <3>2
    <3> QED  BY <1>8, <2>2, <3>1, <3>2
  <2>3. ASSUME NEW k \in DOMAIN processed[q], NEW l \in DOMAIN processed[q], l < k,
               Settled(q, processed[q][k])', Settled(q, processed[q][l])'
        PROVE  processed[q][l] < processed[q][k]
    BY <2>1, <2>3 DEF Sorted, Gone
  <2>4. ASSUME NEW k \in DOMAIN processed[q], Settled(q, processed[q][k])'
        PROVE  Settled(q, processed[q][k])
    BY <2>1, <2>4
  <2>5. ASSUME NEW k \in DOMAIN processed[q], Settled(q, processed[q][k])'
        PROVE  /\ \A l \in DOMAIN processed[q] : l < k /\ Settled(q, processed[q][l])' =>
                    processed[q][l] < processed[q][k]
               /\ \A p \in Window, j \in Nat : Holds(q, p, j)' => processed[q][k] < msgs[Of(q, p)][j]
    BY <2>2, <2>3, <2>4, <2>5
  <2> QED  BY <1>0, <1>1, <1>7, <2>5 DEF Gone
<1> QED  BY <1>1, <1>10, <1>11, <1>12, <1>13 DEF Sorted

(* The session manager looks for work. *)
LEMMA LookKeepsSorted ==
  ASSUME Timing, Progress, ~astray, NEW q \in Router, Sorted(q), Poll \/ Snapshot \/ SetBusy
  PROVE  Sorted(q)'
<1>0. TypeOK /\ now \in Nat /\ q \in Nat /\ SmCell = Of(sm.r, sm.pos) /\ \A p \in Window : p \in Nat
  BY Fields, SmCellOf DEF Timing, Window
<1>1. UNCHANGED <<now, router, sent, late, cnt, msgs, processed>>
  BY DEF Poll, Snapshot, SetBusy, queue, history
<1>2. sm'.pos = sm.pos /\ Taken(q)' = Taken(q) /\ Counted(q)' /\ \A p \in Window : Due(q, p)' = Due(q, p)
  <2>0. router[q].pc = "store" => router[q].n = cnt[RouterCell(q)] \/ cnt[RouterCell(q)] = 0
    BY DEF Sorted, Counted
  <2>1. CASE Poll
    <3>1. sm'.pos = sm.pos /\ sm'.r = 0 /\ sm'.pc = "visit" /\ sm.pc = "poll" /\ sm.r = 0
      BY <1>0, <2>1 DEF Poll, TypeOK, Progress
    <3> QED  BY <1>0, <1>1, <2>0, <3>1 DEF Taken, Counted, Due, RouterCell, Of
  <2>2. CASE Snapshot
    <3>1. /\ sm'.pos = sm.pos /\ sm'.r = sm.r /\ sm'.pc = "busy" /\ sm.pc = "visit"
          /\ sm'.rec = cnt[Of(sm.r, sm.pos)] /\ cnt[Of(sm.r, sm.pos)] > 0
      BY <1>0, <2>2 DEF Snapshot, TypeOK
    <3>2. cnt[Of(sm.r, sm.pos)] \in Nat
      BY <1>0, SmCellType DEF TypeOK
    <3>3. Counted(q)'
      BY <1>1, <2>0, <3>1, <3>2 DEF Counted, RouterCell, Of
    <3>4. \A p \in Window : Due(q, p)' = Due(q, p)
      BY <1>0, <1>1, <3>1 DEF Due, Of
    <3> QED  BY <3>1, <3>3, <3>4 DEF Taken
  <2>3. CASE SetBusy
    <3>1. /\ sm'.pos = sm.pos /\ sm'.r = sm.r /\ sm'.pc = "take" /\ sm.pc = "busy"
          /\ sm'.rec = sm.rec /\ sm'.i = sm.i
      BY <1>0, <2>3 DEF SetBusy, TypeOK
    <3>2. sm.i = 0
      BY <3>1 DEF Progress
    <3>3. Counted(q)'
      BY <1>1, <3>1 DEF Sorted, Counted, RouterCell, Of
    <3>4. \A p \in Window : Due(q, p)' = Due(q, p)
      BY <1>0, <1>1, <3>1 DEF Due, Of
    <3> QED  BY <3>1, <3>2, <3>3, <3>4 DEF Taken
  <2> QED  BY <2>1, <2>2, <2>3
<1> QED  BY <1>0, <1>1, <1>2, RowUntouched

(* It moves on to the next queue or second. *)
LEMMA MoveKeepsSorted ==
  ASSUME Timely, Timing, Progress, ~astray, NEW q \in Router, Sorted(q), Pass \/ Release
  PROVE  Sorted(q)'
<1>0. /\ TypeOK /\ now \in Nat /\ q \in Nat /\ sm.r \in Nat /\ SmCell = Of(sm.r, sm.pos) /\ sm.pos \in Nat
      /\ sm.pos \in Window /\ \A p \in Window : p \in Nat
  BY Fields, SmCellOf DEF Timing, Window
<1>1. /\ UNCHANGED <<now, router, sent, late, cnt, msgs, processed>> /\ Advance
      /\ sm.pc \in {"visit", "release"} /\ (sm.pc = "visit" => cnt[SmCell] = 0)
  BY DEF Pass, Release, queue, history
<1>2. Taken(q) = 0
  BY <1>1 DEF Taken
<1>3. sm'.pc \in {"poll", "visit"}
  BY <1>0, <1>1, AdvanceProgress
<1>4. Taken(q)' = 0
  BY <1>3 DEF Taken
<1>5. Counted(q)'
  BY <1>1, <1>3 DEF Sorted, Counted, RouterCell
<1>6. q <= sm.r => Due(q, sm.pos) = 0
  <2>1. q = sm.r => Due(q, sm.pos) = 0
    BY <1>0, <1>1 DEF Due
  <2>2. q < sm.r => Due(q, sm.pos) = 0
    BY <1>0 DEF Due
  <2> QED  BY <1>0, <2>1, <2>2
<1>7. CASE sm.r + 1 < Routers
  <2>1. sm'.pos = sm.pos /\ sm'.r = sm.r + 1
    BY <1>0, <1>1, <1>7 DEF Advance, TypeOK
  <2>2. \A p \in Window : Due(q, p)' = Due(q, p)
    <3> TAKE p \in Window
    <3>1. CASE p = sm.pos /\ q <= sm.r
      <4>1. Due(q, p)' = 0
        BY <1>0, <2>1, <3>1 DEF Due
      <4> QED  BY <1>6, <3>1, <4>1
    <3>2. CASE ~(p = sm.pos /\ q <= sm.r)
      <4>1. Due(q, p) = cnt[Of(q, p)]
        BY <1>0, <3>2 DEF Due
      <4>2. Due(q, p)' = cnt[Of(q, p)]
        BY <1>0, <1>1, <1>3, <2>1, <3>2 DEF Due, Of
      <4> QED  BY <4>1, <4>2
    <3> QED  BY <3>1, <3>2
  <2> QED  BY <1>0, <1>1, <1>2, <1>4, <1>5, <2>1, <2>2, RowUntouched
<1>8. CASE ~(sm.r + 1 < Routers)
  <2> DEFINE last == sm.pos + Slots
  <2>1. sm'.pos = sm.pos + 1 /\ sm'.r = 0
    BY <1>0, <1>1, <1>8 DEF Advance, TypeOK
  <2>2. q <= sm.r
    BY <1>0, <1>8, Constants DEF Router
  <2>3. \A j \in Nat : ~Holds(q, sm.pos, j)
    <3> SUFFICES ASSUME NEW j \in Nat, Holds(q, sm.pos, j) PROVE FALSE
      OBVIOUS
    <3>1. j < Due(q, sm.pos)
      BY <1>0 DEF Sorted, Placed
    <3> QED  BY <1>6, <2>2, <3>1
  <2>4. last \in Nat /\ Of(q, last) = Of(q, sm.pos)
    BY <1>0, SameSlot, Constants DEF Of
  <2>5. /\ \A p \in Window' : p = last \/ (p \in Window /\ p # sm.pos)
        /\ \A p \in Window : p # sm.pos => p \in Window'
        /\ \A p \in Window' : p \in Nat
    BY <1>0, <2>1, Constants DEF Window
  <2>6. \A v : Settled(q, v)' <=> Settled(q, v)
    BY <1>1 DEF Settled, Done
  <2>7. \A p, j : Holds(q, p, j)' <=> Holds(q, p, j)
    BY <1>1, <2>6 DEF Holds, Of, Settled, Done
  <2>8. \A j \in Nat : ~Holds(q, last, j)
    BY <2>3, <2>4 DEF Holds
  <2> HIDE DEF last
  <2>9. \A p \in Window' : \A j \in Nat : Holds(q, p, j) => p \in Window /\ p # sm.pos
    BY <2>5, <2>8
  <2>10. Placed(q)'
    <3> SUFFICES ASSUME NEW p \in Window', NEW j \in Nat, Holds(q, p, j)
                 PROVE  j < Due(q, p)' /\ (p = sm'.pos => j >= Taken(q)') /\ p <= router'[q].sec + 1
      BY <2>7 DEF Placed
    <3>1. p \in Window /\ p # sm.pos
      BY <2>9
    <3>2. j < Due(q, p) /\ p <= router[q].sec + 1
      BY <3>1 DEF Sorted, Placed
    <3>3. Due(q, p) = cnt[Of(q, p)]
      BY <3>1 DEF Due
    <3>4. Due(q, p)' = cnt[Of(q, p)]
      BY <1>0, <1>1, <1>3, <2>1 DEF Due, Of
    <3> QED  BY <1>1, <1>4, <3>2, <3>3, <3>4
  <2>11. Ordered(q)'
    <3> SUFFICES ASSUME NEW p \in Window', NEW s \in Window', NEW i \in Nat, NEW j \in Nat,
                        Holds(q, p, i), Holds(q, s, j), Before(p, i, s, j)
                 PROVE  msgs[Of(q, p)][i] < msgs[Of(q, s)][j]
      BY <1>1, <2>7 DEF Ordered, Before, Of
    <3> QED  BY <2>9 DEF Sorted, Ordered
  <2>12. Kept(q)'
    <3> SUFFICES ASSUME NEW m \in Nat, Settled(q, m)
                 PROVE  \/ \E k \in DOMAIN processed[q] : processed[q][k] = m
                        \/ \E p \in Window', j \in Nat : Holds(q, p, j) /\ msgs[Of(q, p)][j] = m
      BY <1>1, <2>6, <2>7 DEF Kept, Of
    <3>1. ASSUME NEW p \in Window, NEW j \in Nat, Holds(q, p, j), msgs[Of(q, p)][j] = m
          PROVE  p \in Window'
      BY <2>3, <2>5, <3>1
    <3> QED  BY <3>1 DEF Sorted, Kept
  <2>13. Gone(q)'
    <3>1. \A k \in DOMAIN processed[q] : Settled(q, processed[q][k])' <=> Settled(q, processed[q][k])
      BY <1>1 DEF Settled, Done
    <3>2. \A k \in DOMAIN processed[q] : Settled(q, processed[q][k]) =>
             \A p \in Window', j \in Nat : Holds(q, p, j) => processed[q][k] < msgs[Of(q, p)][j]
      BY <2>9 DEF Sorted, Gone
    <3> QED  BY <1>1, <2>7, <3>1, <3>2 DEF Sorted, Gone, Of
  <2>14. Copied(q)'
    <3>1. ASSUME NEW p \in Window', NEW j \in DOMAIN msgs[Of(q, p)]
          PROVE  \/ msgs[Of(q, p)][j] <= Done(q)
                 \/ /\ router[q].pc \in {"load", "store"} /\ Of(q, p) = RouterCell(q)
                    /\ msgs[Of(q, p)][j] = sent[q] /\ j >= cnt[Of(q, p)]
                    /\ now <= router[q].at + 1 => j = cnt[Of(q, p)]
      <4>1. PICK s \in Window : Of(q, s) = Of(q, p)
        BY <1>0, <2>4, <2>5
      <4> QED  BY <4>1 DEF Sorted, Copied
    <3> QED  BY <1>1, <3>1 DEF Sorted, Copied, Of, RouterCell, Done
  <2>15. Storing(q)'
    BY <1>1 DEF Sorted, Storing, RouterCell
  <2> QED  BY <1>5, <2>10, <2>11, <2>12, <2>13, <2>14, <2>15 DEF Sorted
<1> QED  BY <1>7, <1>8

(* It works on another router's queue. *)
LEMMA ElsewhereKeepsSorted ==
  ASSUME Timely, Timing, Progress, ~astray, NEW q \in Router, Sorted(q),
         q # sm.r, Take \/ Clear \/ ResetCount
  PROVE  Sorted(q)'
<1>0. TypeOK /\ now \in Nat /\ q \in Nat /\ sm.pos \in Nat /\ \A p \in Window : p \in Nat
  BY Fields DEF Timing, Window
<1>1. /\ UNCHANGED <<now, router, sent, late>> /\ sm'.pos = sm.pos /\ sm'.r = sm.r
      /\ processed'[q] = processed[q] /\ Taken(q)' = Taken(q)
      /\ \A p \in Nat : cnt'[Of(q, p)] = cnt[Of(q, p)] /\ msgs'[Of(q, p)] = msgs[Of(q, p)]
  BY ElsewhereRow
<1>2. \A p \in Window : Due(q, p)' = Due(q, p)
  BY <1>0, <1>1 DEF Due, Of
<1>3. Counted(q)'
  <2>1. router[q].pc = "store" => cnt'[RouterCell(q)] = cnt[RouterCell(q)]
    BY <1>1, OwnCell DEF InStore
  <2> QED  BY <1>1, <2>1 DEF Sorted, Counted, RouterCell
<1> QED  BY <1>0, <1>1, <1>2, <1>3, RowUntouched

(* It works on this one's. *)
LEMMA TakeKeepsSorted ==
  ASSUME Timely, Timing, Progress, ~astray, NEW q \in Router, Sorted(q), q = sm.r, Take
  PROVE  Sorted(q)'
<1> DEFINE c == Of(q, sm.pos)
           i == sm.i
           x == Found(msgs[c], i, Phantom)
           l == Len(processed[q])
<1>0. /\ TypeOK /\ now \in Nat /\ q \in Nat /\ SmCell = c /\ sm.pos \in Nat /\ i \in Nat
      /\ sm.pos \in Window /\ c \in Cells /\ DOMAIN msgs = Cells /\ cnt[c] \in Nat /\ sm.rec \in Nat
      /\ \A p \in Window : p \in Nat /\ p >= sm.pos
  BY Fields, SmCellOf, OfType, WindowType DEF Timing, Progress, TypeOK
<1>e. /\ \A p \in Nat : Of(q, p) \in Cells /\ \A j \in DOMAIN msgs[Of(q, p)] : j \in Nat /\ msgs[Of(q, p)][j] \in Nat
      /\ processed[q] \in Seq(Nat) /\ \A k \in DOMAIN processed[q] : processed[q][k] \in Nat
      /\ Done(q) \in Int
  BY <1>0, EntryTypes
<1>1. UNCHANGED <<now, router, sent, late, cnt>>
  BY ManagerLeavesRouters DEF Empty, Take
<1>2. /\ sm.pc = "take" /\ sm'.pos = sm.pos /\ sm'.r = sm.r /\ sm'.i = i + 1 /\ sm'.rec = sm.rec
      /\ sm'.pc \in {"take", "clear"}
  BY <1>0 DEF Take, TypeOK
<1>3. i < sm.rec /\ sm.rec <= cnt[c] /\ 0 < sm.rec /\ i < cnt[c]
  BY <1>0, <1>2 DEF Progress, Sorted, Counted
<1>4. Taken(q) = i /\ Taken(q)' = i + 1
  BY <1>2 DEF Taken
<1>5. \A v : Settled(q, v)' <=> Settled(q, v)
  BY <1>1 DEF Settled, Done
<1>6. Window' = Window /\ Done(q)' = Done(q) /\ RouterCell(q)' = RouterCell(q)
  BY <1>1, <1>2 DEF Window, Done, RouterCell
<1>7. x \in Nat /\ x <= Done(q) /\ (Settled(q, x) => i \in DOMAIN msgs[c] /\ msgs[c][i] = x)
  <2>1. CASE i \in DOMAIN msgs[c]
    <3>1. x = msgs[c][i] /\ x \in Nat
      BY <1>0, <1>e, <2>1 DEF Found
    <3>2. msgs[c][i] <= Done(q) \/ i >= cnt[c]
      BY <1>0, <2>1 DEF Sorted, Copied
    <3> HIDE DEF x, c
    <3>3. msgs[c][i] <= Done(q)
      BY <1>0, <1>3, <3>2
    <3> QED  BY <2>1, <3>1, <3>3
  <2>2. CASE i \notin DOMAIN msgs[c]
    <3>1. x = 0
      BY <2>2 DEF Found, Phantom
    <3>2. Done(q) >= 0
      <4>1. sent[q] \in Nat /\ (router[q].pc # "idle" => sent[q] > 0)
        BY <1>0, Fields DEF Progress
      <4> QED  BY <4>1 DEF Done
    <3>3. ~Settled(q, 0)
      BY DEF Settled
    <3> QED  BY <3>1, <3>2, <3>3
  <2> QED  BY <2>1, <2>2
<1>8. /\ DOMAIN processed'[q] = 1 .. l + 1 /\ DOMAIN processed[q] = 1 .. l /\ l \in Nat
      /\ processed'[q][l + 1] = x /\ \A n \in 1 .. l : processed'[q][n] = processed[q][n]
  <2>1. processed' = [processed EXCEPT ![q] = Append(@, x)] /\ DOMAIN processed = Router
    BY <1>0 DEF Take, Progress
  <2> DEFINE old == processed[q]
             new == processed'[q]
  <2>2. new = Append(old, x) /\ old \in Seq(Nat) /\ x \in Nat
    BY <1>e, <1>7, <2>1
  <2> HIDE DEF x, old, new
  <2>3. Len(new) = Len(old) + 1 /\ DOMAIN new = 1 .. Len(old) + 1 /\ DOMAIN old = 1 .. Len(old) /\ Len(old) \in Nat
    BY <2>2
  <2>4. new[Len(old) + 1] = x /\ \A n \in 1 .. Len(old) : new[n] = old[n]
    BY <2>2, <2>3, AppendProperties
  <2> QED  BY <2>3, <2>4 DEF old, new
<1>9. /\ DOMAIN msgs'[c] = DOMAIN msgs[c] \ {i}
      /\ \A j \in DOMAIN msgs[c] : j # i => msgs'[c][j] = msgs[c][j]
      /\ \A d \in Cells : d # c => msgs'[d] = msgs[d]
  <2> DEFINE m == Erased(msgs[c], i)
  <2>1. msgs' = [msgs EXCEPT ![c] = m]
    BY <1>0 DEF Take
  <2>2. DOMAIN m = DOMAIN msgs[c] \ {i} /\ \A j \in DOMAIN msgs[c] : j # i => m[j] = msgs[c][j]
    BY DEF Erased
  <2> HIDE DEF m, c, i
  <2> QED  BY <1>0, <2>1, <2>2
<1> HIDE DEF c, i, x, l
<1>10. ASSUME NEW p \in Window, NEW j \in DOMAIN msgs'[Of(q, p)]
       PROVE  /\ j \in DOMAIN msgs[Of(q, p)] /\ msgs'[Of(q, p)][j] = msgs[Of(q, p)][j]
              /\ p = sm.pos => j # i
  <2>1. Of(q, p) \in Cells /\ (p = sm.pos => Of(q, p) = c)
    BY <1>0, <1>e DEF c
  <2> QED  BY <1>9, <1>10, <2>1
<1>11. ASSUME NEW p \in Window, NEW j \in Nat
       PROVE  /\ Holds(q, p, j)' <=> Holds(q, p, j) /\ ~(p = sm.pos /\ j = i)
              /\ Holds(q, p, j)' => msgs'[Of(q, p)][j] = msgs[Of(q, p)][j]
  <2>1. Of(q, p) \in Cells /\ Of(q, p)' = Of(q, p) /\ (p # sm.pos => Of(q, p) # c)
    BY <1>0, <1>e, OwnQueues DEF c, Of
  <2>2. Holds(q, p, j)' <=> j \in DOMAIN msgs'[Of(q, p)] /\ Settled(q, msgs'[Of(q, p)][j])
    BY <1>1, <2>1 DEF Holds, Settled, Done
  <2>3. j \in DOMAIN msgs[Of(q, p)] /\ ~(p = sm.pos /\ j = i) => j \in DOMAIN msgs'[Of(q, p)]
    BY <1>9, <2>1 DEF c
  <2> QED  BY <1>10, <2>2, <2>3 DEF Holds
<1>12. Placed(q)'
  <2> SUFFICES ASSUME NEW p \in Window, NEW j \in Nat, Holds(q, p, j), ~(p = sm.pos /\ j = i)
               PROVE  j < Due(q, p)' /\ (p = sm.pos => j >= i + 1) /\ p <= router[q].sec + 1
    BY <1>1, <1>2, <1>4, <1>6, <1>11 DEF Placed
  <2>1. j < Due(q, p) /\ (p = sm.pos => j >= i) /\ p <= router[q].sec + 1
    BY <1>4 DEF Sorted, Placed
  <2>2. Due(q, p)' = Due(q, p)
    BY <1>1, <1>2 DEF Due, Of
  <2> QED  BY <1>0, <2>1, <2>2
<1>13. Ordered(q)'
  <2> SUFFICES ASSUME NEW p \in Window, NEW s \in Window, NEW a \in Nat, NEW j \in Nat,
                      Holds(q, p, a)', Holds(q, s, j)', Before(p, a, s, j)
               PROVE  msgs'[Of(q, p)][a] < msgs'[Of(q, s)][j]
    BY <1>6 DEF Ordered, Before, Of
  <2> QED  BY <1>11 DEF Sorted, Ordered
<1>14. Kept(q)'
  <2> SUFFICES ASSUME NEW m \in Nat, Settled(q, m)
               PROVE  \/ \E k \in DOMAIN processed'[q] : processed'[q][k] = m
                      \/ \E p \in Window, j \in Nat : Holds(q, p, j)' /\ msgs'[Of(q, p)][j] = m
    BY <1>5, <1>6 DEF Kept, Of
  <2>1. ASSUME NEW k \in DOMAIN processed[q], processed[q][k] = m
        PROVE  k \in DOMAIN processed'[q] /\ processed'[q][k] = m
    BY <1>8, <2>1
  <2>2. ASSUME NEW p \in Window, NEW j \in Nat, Holds(q, p, j), msgs[Of(q, p)][j] = m
        PROVE  \/ \E k \in DOMAIN processed'[q] : processed'[q][k] = m
               \/ Holds(q, p, j)' /\ msgs'[Of(q, p)][j] = m
    <3>1. CASE p = sm.pos /\ j = i
      <4>1. i \in DOMAIN msgs[c] /\ msgs[c][i] = m
        BY <2>2, <3>1 DEF Holds, c
      <4>2. x = m
        BY <4>1 DEF x, Found
      <4>3. l + 1 \in DOMAIN processed'[q]
        BY <1>8
      <4> QED  BY <1>8, <4>2, <4>3
    <3>2. CASE ~(p = sm.pos /\ j = i)
      BY <1>11, <2>2, <3>2
    <3> QED  BY <3>1, <3>2
  <2> QED  BY <2>1, <2>2 DEF Sorted, Kept
<1>15. Gone(q)'
  <2>1. \A k : Settled(q, processed[q][k])' <=> Settled(q, processed'[q][k])
    BY <1>1 DEF Settled, Done
  <2> SUFFICES ASSUME NEW k \in DOMAIN processed'[q], Settled(q, processed'[q][k])
               PROVE  /\ \A n \in DOMAIN processed'[q] : n < k /\ Settled(q, processed'[q][n]) =>
                            processed'[q][n] < processed'[q][k]
                      /\ \A p \in Window, j \in Nat : Holds(q, p, j)' => processed'[q][k] < msgs'[Of(q, p)][j]
    BY <1>6, <2>1 DEF Gone, Of
  <2>2. k \in 1 .. l + 1 /\ l \in Nat
    BY <1>8
  <2>3. ASSUME NEW n \in DOMAIN processed'[q], n < k, Settled(q, processed'[q][n])
        PROVE  n \in DOMAIN processed[q] /\ processed'[q][n] = processed[q][n] /\ Settled(q, processed[q][n])
    <3>1. n \in 1 .. l
      BY <1>8, <2>2, <2>3
    <3> QED  BY <1>8, <2>3, <3>1
  <2>4. CASE k = l + 1
    <3>1. processed'[q][k] = x /\ i \in DOMAIN msgs[c] /\ msgs[c][i] = x /\ Settled(q, x)
      BY <1>7, <1>8, <2>4
    <3>2. Holds(q, sm.pos, i)
      BY <3>1 DEF Holds, c
    <3>3. ASSUME NEW n \in DOMAIN processed'[q], n < k, Settled(q, processed'[q][n])
          PROVE  processed'[q][n] < x
      <4>1. n \in DOMAIN processed[q] /\ processed'[q][n] = processed[q][n] /\ Settled(q, processed[q][n])
        BY <2>3, <3>3
      <4> QED  BY <1>0, <3>1, <3>2, <4>1 DEF Sorted, Gone, c
    <3>4. ASSUME NEW p \in Window, NEW j \in Nat, Holds(q, p, j)'
          PROVE  x < msgs'[Of(q, p)][j]
      <4>1. Holds(q, p, j) /\ ~(p = sm.pos /\ j = i) /\ msgs'[Of(q, p)][j] = msgs[Of(q, p)][j]
        BY <1>11, <3>4
      <4>2. p = sm.pos => j >= i
        BY <1>4, <4>1 DEF Sorted, Placed
      <4>3. Before(sm.pos, i, p, j)
        BY <1>0, <4>1, <4>2 DEF Before
      <4> QED  BY <1>0, <3>1, <3>2, <4>1, <4>3 DEF Sorted, Ordered, c
    <3> QED  BY <3>1, <3>3, <3>4
  <2>5. CASE k # l + 1
    <3>1. k \in DOMAIN processed[q] /\ processed'[q][k] = processed[q][k]
      BY <1>8, <2>2, <2>5
    <3>2. ASSUME NEW p \in Window, NEW j \in Nat, Holds(q, p, j)'
          PROVE  processed[q][k] < msgs'[Of(q, p)][j]
      BY <1>11, <3>1, <3>2 DEF Sorted, Gone
    <3>3. ASSUME NEW n \in DOMAIN processed'[q], n < k, Settled(q, processed'[q][n])
          PROVE  processed'[q][n] < processed[q][k]
      BY <2>3, <3>1, <3>3 DEF Sorted, Gone
    <3> QED  BY <3>1, <3>2, <3>3
  <2> QED  BY <2>4, <2>5
<1>16. Copied(q)'
  <2>1. ASSUME NEW p \in Window, NEW j \in DOMAIN msgs'[Of(q, p)]
        PROVE  \/ msgs'[Of(q, p)][j] <= Done(q)
               \/ /\ router[q].pc \in {"load", "store"} /\ Of(q, p) = RouterCell(q)
                  /\ msgs'[Of(q, p)][j] = sent[q] /\ j >= cnt[Of(q, p)]
                  /\ now <= router[q].at + 1 => j = cnt[Of(q, p)]
    BY <1>10 DEF Sorted, Copied
  <2>2. ASSUME NEW k \in DOMAIN processed'[q] PROVE processed'[q][k] <= Done(q)
    <3>1. k \in 1 .. l + 1 /\ l \in Nat
      BY <1>8
    <3>2. k # l + 1 => k \in DOMAIN processed[q] /\ processed'[q][k] = processed[q][k]
      BY <1>8, <3>1
    <3>3. k = l + 1 => processed'[q][k] = x
      BY <1>8
    <3> QED  BY <1>7, <3>2, <3>3 DEF Sorted, Copied
  <2> QED  BY <1>1, <1>6, <2>1, <2>2 DEF Copied, Of
<1>17. Counted(q)'
  BY <1>1, <1>2, <1>3, <1>6 DEF Sorted, Counted, c, Of
<1>18. Storing(q)'
  BY StoringAside DEF Sorted
<1> QED  BY <1>12, <1>13, <1>14, <1>15, <1>16, <1>17, <1>18 DEF Sorted

(* Nothing is left of the queue that has been taken. *)
LEMMA NothingLeft ==
  ASSUME Timing, Progress, NEW q \in Router, Sorted(q), q = sm.r, sm.pc \in {"clear", "reset"}
  PROVE  \A j \in Nat : ~Holds(q, sm.pos, j)
<1>0. sm.pos \in Window /\ sm.i \in Nat /\ sm.i = sm.rec
  BY Fields, SmCellOf DEF Timing, Progress
<1>1. Due(q, sm.pos) = sm.rec /\ Taken(q) = sm.i
  <2>1. q \in Nat
    BY Constants DEF Router
  <2> QED  BY <2>1 DEF Due, Taken
<1> SUFFICES ASSUME NEW j \in Nat, Holds(q, sm.pos, j) PROVE FALSE
  OBVIOUS
<1>2. j < sm.rec /\ j >= sm.i
  BY <1>0, <1>1 DEF Sorted, Placed
<1> QED  BY <1>0, <1>2

LEMMA EmptyKeepsSettled ==
  ASSUME Timing, Progress, ~astray, NEW q \in Router, Sorted(q), q = sm.r, Clear \/ ResetCount
  PROVE  /\ UNCHANGED <<now, router, sent, late, processed>> /\ sm'.pos = sm.pos /\ sm'.r = sm.r
         /\ sm'.rec = sm.rec /\ sm'.i = sm.i /\ sm.pc \in {"clear", "reset"}
         /\ Window' = Window /\ Done(q)' = Done(q) /\ RouterCell(q)' = RouterCell(q)
         /\ \A p \in Window, j \in Nat : Holds(q, p, j)' => Holds(q, p, j) /\ p # sm.pos
         /\ \A p \in Window : \A j \in DOMAIN msgs'[Of(q, p)] :
               j \in DOMAIN msgs[Of(q, p)] /\ msgs'[Of(q, p)][j] = msgs[Of(q, p)][j]
         /\ \A p \in Window : p # sm.pos => cnt'[Of(q, p)] = cnt[Of(q, p)]
         /\ Ordered(q)' /\ Kept(q)' /\ Gone(q)'
<1>0. /\ TypeOK /\ SmCell = Of(q, sm.pos) /\ sm.pos \in Window /\ DOMAIN msgs = Cells
      /\ processed[q] \in Seq(Nat) /\ cnt \in [Cells -> Nat]
      /\ \A p \in Window : p \in Nat /\ Of(q, p) \in Cells
      /\ SmCell \in Cells
  BY SmCellOf, SmCellType, EntryTypes DEF Timing, Progress, Window, TypeOK
<1>1. UNCHANGED <<now, router, sent, late, processed>>
  BY DEF Clear, ResetCount, history
<1>2. /\ sm'.pos = sm.pos /\ sm'.r = sm.r /\ sm'.rec = sm.rec /\ sm'.i = sm.i /\ sm.pc \in {"clear", "reset"}
  BY <1>0 DEF Clear, ResetCount, TypeOK
<1>3. Window' = Window /\ Done(q)' = Done(q) /\ RouterCell(q)' = RouterCell(q)
  BY <1>1, <1>2 DEF Window, Done, RouterCell
<1>4. /\ \A d \in Cells : d # SmCell => msgs'[d] = msgs[d] /\ cnt'[d] = cnt[d]
      /\ \A j \in DOMAIN msgs'[SmCell] : j \in DOMAIN msgs[SmCell] /\ msgs'[SmCell][j] = msgs[SmCell][j]
  <2>1. CASE Clear
    <3>1. msgs' = [msgs EXCEPT ![SmCell] = EmptyMap] /\ cnt' = cnt
      BY <2>1 DEF Clear
    <3>2. DOMAIN EmptyMap = {}
      BY DEF EmptyMap
    <3> QED  BY <1>0, <3>1, <3>2
  <2>2. CASE ResetCount
    <3>1. cnt' = [cnt EXCEPT ![SmCell] = 0] /\ msgs' = msgs
      BY <2>2 DEF ResetCount
    <3> QED  BY <1>0, <3>1
  <2> QED  BY <2>1, <2>2
<1>5. \A p \in Window : p # sm.pos => Of(q, p) # SmCell
  BY <1>0, OwnQueues
<1>6. \A j \in Nat : ~Holds(q, sm.pos, j)
  BY <1>2, NothingLeft
<1>7. \A v : Settled(q, v)' <=> Settled(q, v)
  BY <1>1, <1>3 DEF Settled
<1>8. ASSUME NEW p \in Window, NEW j \in DOMAIN msgs'[Of(q, p)]
      PROVE  j \in DOMAIN msgs[Of(q, p)] /\ msgs'[Of(q, p)][j] = msgs[Of(q, p)][j]
  BY <1>0, <1>4, <1>8
<1>9. ASSUME NEW p \in Window, NEW j \in Nat
      PROVE  /\ Holds(q, p, j)' <=> Holds(q, p, j)
             /\ Holds(q, p, j) => msgs'[Of(q, p)][j] = msgs[Of(q, p)][j] /\ p # sm.pos
  <2>1. Holds(q, p, j)' <=> j \in DOMAIN msgs'[Of(q, p)] /\ Settled(q, msgs'[Of(q, p)][j])
    BY <1>1, <1>3 DEF Holds, Of, Settled
  <2>2. CASE p = sm.pos
    BY <1>6, <1>8, <2>1, <2>2 DEF Holds
  <2>3. CASE p # sm.pos
    <3>1. msgs'[Of(q, p)] = msgs[Of(q, p)]
      BY <1>0, <1>4, <1>5, <2>3
    <3> QED  BY <2>1, <2>3, <3>1 DEF Holds
  <2> QED  BY <2>2, <2>3
<1>10. Ordered(q)' /\ Kept(q)' /\ Gone(q)'
  BY <1>0, <1>1, <1>3, <1>7, <1>9, SameHolds DEF Sorted
<1> QED  BY <1>0, <1>1, <1>2, <1>3, <1>4, <1>5, <1>8, <1>9, <1>10

LEMMA ClearKeepsSorted ==
  ASSUME Timely, Timing, Progress, ~astray, NEW q \in Router, Sorted(q), q = sm.r, Clear \/ ResetCount
  PROVE  Sorted(q)'
<1>0. /\ TypeOK /\ sm.pos \in Window /\ SmCell = Of(q, sm.pos) /\ cnt \in [Cells -> Nat]
      /\ \A p \in Window : p \in Nat /\ Of(q, p) \in Cells
      /\ \A p \in Window : \A j \in DOMAIN msgs[Of(q, p)] : j \in Nat
  BY SmCellOf, EntryTypes DEF Timing, Window, TypeOK
<1>1. /\ UNCHANGED <<now, router, sent, late, processed>> /\ sm'.pos = sm.pos /\ sm'.r = sm.r
      /\ sm'.rec = sm.rec /\ sm'.i = sm.i /\ sm.pc \in {"clear", "reset"}
      /\ Window' = Window /\ Done(q)' = Done(q) /\ RouterCell(q)' = RouterCell(q)
  BY EmptyKeepsSettled
<1>2. /\ \A p \in Window, j \in Nat : Holds(q, p, j)' => Holds(q, p, j) /\ p # sm.pos
      /\ \A p \in Window : \A j \in DOMAIN msgs'[Of(q, p)] :
            j \in DOMAIN msgs[Of(q, p)] /\ msgs'[Of(q, p)][j] = msgs[Of(q, p)][j]
      /\ \A p \in Window : p # sm.pos => cnt'[Of(q, p)] = cnt[Of(q, p)]
  BY EmptyKeepsSettled
<1>3. Ordered(q)' /\ Kept(q)' /\ Gone(q)'
  BY EmptyKeepsSettled
<1>4. \/ cnt' = cnt /\ sm'.pc = "reset" /\ sm.pc = "clear"
      \/ cnt' = [cnt EXCEPT ![SmCell] = 0] /\ sm'.pc = "release" /\ sm.pc = "reset"
  BY <1>0 DEF Clear, ResetCount, TypeOK
<1>5. cnt'[Of(q, sm.pos)] = cnt[Of(q, sm.pos)] \/ cnt'[Of(q, sm.pos)] = 0
  BY <1>0, <1>4
<1>6. Placed(q)'
  <2> SUFFICES ASSUME NEW p \in Window, NEW j \in Nat, Holds(q, p, j), p # sm.pos
               PROVE  j < Due(q, p)' /\ p <= router[q].sec + 1
    BY <1>1, <1>2 DEF Placed
  <2>1. j < Due(q, p) /\ p <= router[q].sec + 1
    BY DEF Sorted, Placed
  <2>2. Due(q, p)' = Due(q, p)
    BY <1>1, <1>2 DEF Due, Of
  <2> QED  BY <2>1, <2>2
<1>7. InStore(q) /\ now <= router[q].at + 1 => cnt'[RouterCell(q)] = cnt[RouterCell(q)]
  BY OnlyQueueInWork
<1>8. Copied(q)'
  <2>1. ASSUME NEW p \in Window, NEW j \in DOMAIN msgs'[Of(q, p)]
        PROVE  \/ msgs'[Of(q, p)][j] <= Done(q)
               \/ /\ router[q].pc \in {"load", "store"} /\ Of(q, p) = RouterCell(q)
                  /\ msgs'[Of(q, p)][j] = sent[q] /\ j >= cnt'[Of(q, p)]
                  /\ now <= router[q].at + 1 => j = cnt'[Of(q, p)]
    <3>1. j \in DOMAIN msgs[Of(q, p)] /\ msgs'[Of(q, p)][j] = msgs[Of(q, p)][j] /\ j \in Nat
      BY <1>0, <1>2
    <3>2. \/ msgs[Of(q, p)][j] <= Done(q)
          \/ /\ router[q].pc \in {"load", "store"} /\ Of(q, p) = RouterCell(q)
             /\ msgs[Of(q, p)][j] = sent[q] /\ j >= cnt[Of(q, p)]
             /\ now <= router[q].at + 1 => j = cnt[Of(q, p)]
      BY <3>1 DEF Sorted, Copied
    <3>3. cnt'[Of(q, p)] = cnt[Of(q, p)] \/ cnt'[Of(q, p)] = 0
      BY <1>2, <1>5
    <3>4. j >= cnt[Of(q, p)] => j >= cnt'[Of(q, p)]
      BY <3>1, <3>3
    <3>5. router[q].pc \in {"load", "store"} /\ Of(q, p) = RouterCell(q) /\ now <= router[q].at + 1 =>
            cnt'[Of(q, p)] = cnt[Of(q, p)]
      BY <1>7 DEF InStore
    <3> QED  BY <3>1, <3>2, <3>4, <3>5
  <2> QED  BY <1>1, <2>1 DEF Sorted, Copied, Of
<1>9. Counted(q)'
  <2>1. router[q].pc = "store" => router[q].n = cnt'[RouterCell(q)] \/ cnt'[RouterCell(q)] = 0
    <3>1. router[q].pc = "store" => RouterCell(q) \in Cells
      BY OwnCell DEF InStore, Timing
    <3>2. router[q].pc = "store" => cnt'[RouterCell(q)] = cnt[RouterCell(q)] \/ cnt'[RouterCell(q)] = 0
      BY <1>0, <1>4, <3>1
    <3> QED  BY <3>2 DEF Sorted, Counted
  <2>2. q = sm'.r /\ sm'.pc \in {"busy", "take", "clear", "reset"} => 0 < sm.rec /\ sm.rec <= cnt'[Of(q, sm.pos)]
    BY <1>1, <1>4 DEF Sorted, Counted
  <2> QED  BY <1>1, <2>1, <2>2 DEF Counted, Of
<1>10. Storing(q)'
  BY StoringAside DEF Sorted
<1> QED  BY <1>3, <1>6, <1>8, <1>9, <1>10 DEF Sorted

-----------------------------------------------------------------------------
LEMMA SortedInit == ASSUME Init, NEW q \in Router PROVE Sorted(q)
<1>0. TypeOK /\ \A p \in Window : p \in Nat
  BY TypeInit DEF Window
<1>1. \A p \in Nat : DOMAIN msgs[Of(q, p)] = {}
  BY OfType DEF Init, EmptyMap
<1>2. router[q].pc = "idle" /\ sm.pc = "poll" /\ sent[q] = 0 /\ processed[q] = <<>>
  BY DEF Init
<1>3. DOMAIN processed[q] = {}
  BY <1>2
<1>4. \A v \in Nat : ~Settled(q, v)
  BY <1>2 DEF Settled, Done
<1>5. \A p \in Window, j \in Nat : ~Holds(q, p, j)
  BY <1>0, <1>1 DEF Holds
<1>6. Counted(q) /\ Storing(q)
  BY <1>2 DEF Counted, Storing
<1>7. Copied(q)
  BY <1>0, <1>1, <1>3 DEF Copied
<1>8. Placed(q) /\ Ordered(q) /\ Kept(q) /\ Gone(q)
  BY <1>3, <1>4, <1>5 DEF Placed, Ordered, Kept, Gone
<1> QED  BY <1>6, <1>7, <1>8 DEF Sorted

AllSorted == ~astray => \A q \in Router : Sorted(q)

LEMMA SortedStep ==
  ASSUME Timely, Refusals, Progress, AllSorted, [Next]_vars
  PROVE  AllSorted'
<1> SUFFICES ASSUME ~astray', NEW q \in Router PROVE Sorted(q)'
  BY DEF AllSorted
<1>0. Timing /\ TypeOK /\ HistoryType
  BY DEF Refusals, Timing
<1>1. ~astray
  BY <1>0, HistoryGrows
<1>2. Sorted(q)
  BY <1>1 DEF AllSorted
<1>3. ASSUME NEW r \in Router, Store(r) PROVE Sorted(q)'
  <2>1. CASE r # q
    BY <1>0, <1>1, <1>2, <1>3, <2>1, OtherKeepsSorted
  <2>2. CASE r = q
    <3>1. CASE Begin(q) \/ ReadClockAgain(q) \/ PassBusy(q)
      BY <1>0, <1>1, <1>2, <3>1, BeginningKeepsSorted
    <3>2. CASE Copy(q)
      BY <1>0, <1>1, <1>2, <3>2, CopyKeepsSorted
    <3>3. CASE LoadCount(q)
      BY <1>0, <1>1, <1>2, <3>3, LoadKeepsSorted
    <3>4. CASE Refuse(q) \/ StoreCount(q)
      BY <1>0, <1>1, <1>2, <3>4, LateEndKeepsSorted, CountKeepsSorted
    <3> QED  BY <1>3, <2>2, <3>1, <3>2, <3>3, <3>4 DEF Store
  <2> QED  BY <2>1, <2>2
<1>4. CASE Empty
  <2>1. CASE Poll \/ Snapshot \/ SetBusy
    BY <1>0, <1>1, <1>2, <2>1, LookKeepsSorted
  <2>2. CASE Pass \/ Release
    BY <1>0, <1>1, <1>2, <2>2, MoveKeepsSorted
  <2>3. CASE Take \/ Clear \/ ResetCount
    <3>1. CASE q # sm.r
      BY <1>0, <1>1, <1>2, <2>3, <3>1, ElsewhereKeepsSorted
    <3>2. CASE q = sm.r
      BY <1>0, <1>1, <1>2, <2>3, <3>2, TakeKeepsSorted, ClearKeepsSorted
    <3> QED  BY <3>1, <3>2
  <2> QED  BY <1>4, <2>1, <2>2, <2>3 DEF Empty
<1>5. CASE Tick \/ UNCHANGED vars
  <2>1. UNCHANGED <<cnt, msgs, router, sm, sent, processed, late>>
    BY <1>5 DEF Tick, vars, queue, history
  <2>2. now' \in Nat /\ now <= now'
    <3>1. now' = now + 1 \/ now' = now
      BY <1>5 DEF Tick, vars
    <3> QED  BY <1>0, <3>1, Fields
  <2>3. Taken(q)' = Taken(q) /\ Counted(q)'
    BY <1>2, <2>1 DEF Taken, Sorted, Counted, RouterCell, Of
  <2>4. \A p \in Window : Due(q, p)' = Due(q, p)
    BY <2>1 DEF Due, Of
  <2> QED  BY <1>0, <1>1, <1>2, <2>1, <2>2, <2>3, <2>4, RowUntouched
<1> QED  BY <1>3, <1>4, <1>5 DEF Next

LEMMA SortedHarmless ==
  ASSUME TypeOK, Progress, HistoryType, AllSorted
  PROVE  LateHarmsOnlyLate
<1> SUFFICES ASSUME ~astray, NEW q \in Router, NEW k \in DOMAIN processed[q], OnTime(q, processed[q][k])
             PROVE  /\ \A j \in 1 .. k - 1 : processed[q][j] # processed[q][k]
                    /\ \A n \in 1 .. processed[q][k] - 1 :
                         n \notin late[q] => \E j \in 1 .. k - 1 : processed[q][j] = n
  BY DEF LateHarmsOnlyLate
<1> DEFINE v == processed[q][k]
<1>1. Sorted(q)
  BY DEF AllSorted
<1>2. /\ processed[q] \in Seq(Nat) /\ DOMAIN processed[q] = 1 .. Len(processed[q])
      /\ Len(processed[q]) \in Nat /\ k \in 1 .. Len(processed[q]) /\ v \in Nat /\ Done(q) \in Int
  BY EntryTypes
<1>3. v <= Done(q) /\ v # 0 /\ v \notin late[q]
  BY <1>1 DEF Sorted, Copied, OnTime, Phantom
<1> HIDE DEF v
<1>4. Settled(q, v)
  BY <1>2, <1>3 DEF Settled
<1>5. ASSUME NEW j \in 1 .. k - 1 PROVE processed[q][j] # v
  <2>1. j \in DOMAIN processed[q] /\ j < k
    BY <1>2
  <2>2. processed[q][j] = v => processed[q][j] < v
    BY <1>1, <1>4, <2>1 DEF Sorted, Gone, v
  <2> QED  BY <1>2, <2>2
<1>6. ASSUME NEW n \in 1 .. v - 1, n \notin late[q]
      PROVE  \E j \in 1 .. k - 1 : processed[q][j] = n
  <2>0. n \in Nat /\ n < v
    BY <1>2
  <2>1. Settled(q, n)
    BY <1>2, <1>3, <1>6, <2>0 DEF Settled
  <2>2. ~\E p \in Window, j \in Nat : Holds(q, p, j) /\ msgs[Of(q, p)][j] = n
    <3> SUFFICES ASSUME NEW p \in Window, NEW j \in Nat, Holds(q, p, j), msgs[Of(q, p)][j] = n PROVE FALSE
      OBVIOUS
    <3>1. v < n
      BY <1>1, <1>4 DEF Sorted, Gone, v
    <3> QED  BY <1>2, <2>0, <3>1
  <2>3. PICK l \in DOMAIN processed[q] : processed[q][l] = n
    BY <1>1, <2>0, <2>1, <2>2 DEF Sorted, Kept
  <2>4. ~(k < l)
    <3> SUFFICES ASSUME k < l PROVE FALSE
      OBVIOUS
    <3>1. v < n
      BY <1>1, <1>4, <2>1, <2>3 DEF Sorted, Gone, v
    <3> QED  BY <1>2, <2>0, <3>1
  <2>5. l # k
    BY <1>2, <2>0, <2>3 DEF v
  <2>6. l \in 1 .. k - 1
    BY <1>2, <2>4, <2>5
  <2> QED  BY <2>3, <2>6
<1> QED  BY <1>5, <1>6 DEF v

(* However late routers may be, what that loses, repeats or delays is only *)
(* what they were late with: no message that was stored in time is         *)
(* processed twice or before one that was stored in time ahead of it.      *)
THEOREM OnlyLateAreHarmed == ASSUME Timely PROVE Spec => []LateHarmsOnlyLate
<1> DEFINE Inv == Refusals /\ Progress /\ AllSorted
<1>1. Init => Inv
  <2>1. Init => NeverRefused /\ HistoryType
    BY DEF Init, NeverRefused, HistoryType
  <2> QED  BY <2>1, TimingInit, ProgressInit, SortedInit DEF Refusals, AllSorted
<1>2. Inv /\ [Next]_vars => Inv'
  <2> SUFFICES ASSUME Inv, [Next]_vars PROVE Inv'
    OBVIOUS
  <2>1. Refusals'
    BY RefusalsStep
  <2>2. Progress'
    BY ProgressStep DEF Refusals
  <2>3. AllSorted'
    BY SortedStep
  <2> QED  BY <2>1, <2>2, <2>3
<1>3. Inv => LateHarmsOnlyLate
  BY SortedHarmless DEF Refusals, Timing
<1> QED  BY <1>1, <1>2, <1>3, PTL DEF Spec
=============================================================================
