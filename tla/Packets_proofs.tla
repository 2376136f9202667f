-------------------------- MODULE Packets_proofs ---------------------------
(***************************************************************************)
(* Proofs about a packet's way to the session managers.  Of PktRing, for   *)
(* any number of routers, slots and buffers: that listener and routers     *)
(* which keep the timing the ring is made for never meet in a slot, that   *)
(* every packet then comes out whole, once and in order, that the packets  *)
(* are dealt evenly, and that the bandwidth of a minute is that minute's.  *)
(* Of Decode, for packets of any number of messages of any lengths, those  *)
(* included that lead the parser astray: that what is distributed is what  *)
(* the packet at hand carried, and what may be lost of it.                 *)
(***************************************************************************)
EXTENDS PktRing, Decode, TimeSlots_proofs, SequenceTheorems, FiniteSetTheorems

(* The timing the ring is made for.  A clock that is two seconds off puts  *)
(* a packet where a router is at work already.                             *)
Timely ==
  /\ MaxStall <= 1 /\ MaxSkew <= 1 /\ MaxDrift <= 1
  /\ MaxLag + MaxSkew + MaxDrift + 2 <= Slots

(* A router is not late for two minutes at once. *)
MinutesSeen == MaxLag < SecPerMin

-----------------------------------------------------------------------------
(* The inductive invariants. *)

ListenerState ==
  [pc : {"idle", "test", "body", "count"}, at : Nat, idx : 0 .. Slots - 1, next : Router]
RouterState ==
  [pc : {"poll", "visit", "size", "head", "decode", "reset", "release"},
   last : 0 .. Slots - 1, pos : Nat, cur : Nat, size : 0 .. Cap, i : Nat, head : Nat, min : Nat]
Packet == [head : Nat, body : Nat, min : Nat]

Typed ==
  /\ now \in Nat /\ real \in Nat /\ captured \in Nat
  /\ source \in {"ethernet", "solarflare", "hardware"} /\ processing \in BOOLEAN
  /\ buf \in [Cells -> [0 .. Buffers - 1 -> [head : Nat, body : Nat]]]
  /\ cnt \in [Cells -> 0 .. Cap] /\ busy \in [Cells -> BOOLEAN]
  /\ lst \in ListenerState
  /\ rtr \in [Router -> RouterState]
  /\ dealt \in [Router -> Seq(Nat)] /\ decoded \in [Router -> Seq(Packet)]

InWork(r) == rtr[r].pc \in {"size", "head", "decode", "reset", "release"}

(* A router empties a second before the current one, and not long before.  *)
RoutersBehind ==
  \A r \in Router :
    /\ rtr[r].last = ReadIndex(rtr[r].pos)
    /\ rtr[r].pos <= now /\ now <= rtr[r].pos + MaxLag
    /\ rtr[r].cur <= now
    /\ rtr[r].pc # "poll" => rtr[r].pos < rtr[r].cur

(* The listener writes into the slot after the second of the packet, and   *)
(* that is not far from the real one.                                      *)
ListenerAhead ==
  /\ now <= real /\ real <= now + MaxSkew
  /\ lst.at <= real + MaxDrift
  /\ source = "ethernet" => lst.at <= real
  /\ source = "solarflare" => lst.at <= now
  /\ lst.pc # "idle" => real <= lst.at + 1 /\ lst.idx = ReadIndex(lst.at + 1)
  /\ lst.pc \in {"body", "count"} => cnt[LstCell] < Cap

(* Only the slot a router is emptying has its busy flag set, and its count *)
(* is that of the packets that are left there.                             *)
WorkMarked ==
  /\ \A c \in Cells : busy[c] => c = RtrCell(c[1]) /\ InWork(c[1])
  /\ \A r \in Router :
       /\ rtr[r].pc \in {"head", "decode"} => rtr[r].i < rtr[r].size /\ cnt[RtrCell(r)] = rtr[r].size - rtr[r].i
       /\ rtr[r].pc \in {"reset", "release"} => cnt[RtrCell(r)] = 0

Steady == Typed /\ RoutersBehind /\ ListenerAhead /\ WorkMarked

(* The slot of router q for second p, the seconds from the one the router  *)
(* is at to the last one that has a slot of its own, and how many buffers  *)
(* of the slot have been emptied.                                          *)
Of(q, p)   == <<q, ReadIndex(p)>>
Window(q)  == {p \in Nat : rtr[q].pos <= p /\ p < rtr[q].pos + Slots}
Skip(q, p) == IF p = rtr[q].pos /\ rtr[q].pc \in {"head", "decode"} THEN rtr[q].i ELSE 0

(* B[p] is the number of the first packet dealt to router q for second p:  *)
(* the slots hold consecutive runs of packets, the first one begins with   *)
(* the next packet to decode, the last one ends with the last dealt.       *)
Linked(q, B) == \A p \in Window(q) : B[p + 1] = B[p] + cnt[Of(q, p)]
Closed(q, B) == \A p \in Nat : p >= lst.at + 2 => B[p] = Len(dealt[q]) + 1
Filled(q, B) ==
  \A p \in Window(q) : \A j \in Nat : j < cnt[Of(q, p)] =>
    /\ B[p] + j \in DOMAIN dealt[q]
    /\ buf[Of(q, p)][Skip(q, p) + j] = [head |-> dealt[q][B[p] + j], body |-> dealt[q][B[p] + j]]
Reached(q, B) ==
  /\ B[rtr[q].pos] = Len(decoded[q]) + 1
  /\ rtr[q].pc = "decode" => rtr[q].head = dealt[q][B[rtr[q].pos]]

Chain(q, B) == Linked(q, B) /\ Closed(q, B) /\ Filled(q, B) /\ Reached(q, B)

Whole(q) ==
  \A n \in DOMAIN decoded[q] :
    /\ n \in DOMAIN dealt[q]
    /\ decoded[q][n].head = dealt[q][n] /\ decoded[q][n].body = dealt[q][n]

(* The packet on its way into the slot. *)
Storing ==
  /\ lst.pc \in {"body", "count"} => buf[LstCell][cnt[LstCell]].head = captured
  /\ lst.pc = "count" => buf[LstCell][cnt[LstCell]].body = captured

Delivered ==
  /\ Storing
  /\ \A q \in Router : Whole(q) /\ \E B \in [Nat -> Nat] : Chain(q, B)

(* The place of a router in the listener's order, the next one first.      *)
Turn(r) == IF r >= lst.next THEN r - lst.next ELSE r - lst.next + Routers

(* In the slot that is being filled the routers differ by one packet at    *)
(* most, and who is next has not more than another.                        *)
Balanced ==
  now <= lst.at + 1 =>
    \A r, s \in Router : Turn(r) <= Turn(s) =>
      /\ cnt[Of(r, lst.at + 1)] <= cnt[Of(s, lst.at + 1)]
      /\ cnt[Of(s, lst.at + 1)] <= cnt[Of(r, lst.at + 1)] + 1

-----------------------------------------------------------------------------
(* Types. *)

LEMMA Constants ==
  /\ Slots \in Nat /\ Slots > 1 /\ Routers \in Nat /\ Routers > 0
  /\ Cap \in Nat /\ Buffers \in Nat /\ Cap <= Buffers /\ SecPerMin \in Nat /\ SecPerMin > 0
  /\ MaxStall \in Nat /\ MaxSkew \in Nat /\ MaxDrift \in Nat /\ MaxLag \in Nat
  BY SlotsAssumption, PktRingAssumption

LEMMA Fields ==
  ASSUME Typed
  PROVE  /\ now \in Nat /\ real \in Nat /\ captured \in Nat
         /\ lst.at \in Nat /\ lst.idx \in 0 .. Slots - 1 /\ lst.next \in Router
         /\ LstCell \in Cells /\ cnt[LstCell] \in Nat /\ Len(dealt[lst.next]) \in Nat
         /\ \A r \in Router :
              /\ rtr[r].pos \in Nat /\ rtr[r].cur \in Nat /\ rtr[r].size \in Nat /\ rtr[r].i \in Nat
              /\ rtr[r].head \in Nat /\ rtr[r].min \in Nat /\ rtr[r].last \in 0 .. Slots - 1
              /\ RtrCell(r) \in Cells /\ cnt[RtrCell(r)] \in Nat /\ r \in Nat
              /\ Len(dealt[r]) \in Nat /\ Len(decoded[r]) \in Nat
<1>1. lst.at \in Nat /\ lst.idx \in 0 .. Slots - 1 /\ lst.next \in Router
  BY DEF Typed, ListenerState
<1>2. ASSUME NEW r \in Router
      PROVE  /\ rtr[r].pos \in Nat /\ rtr[r].cur \in Nat /\ rtr[r].size \in Nat /\ rtr[r].i \in Nat
             /\ rtr[r].head \in Nat /\ rtr[r].min \in Nat /\ rtr[r].last \in 0 .. Slots - 1
             /\ RtrCell(r) \in Cells /\ cnt[RtrCell(r)] \in Nat /\ r \in Nat
             /\ Len(dealt[r]) \in Nat /\ Len(decoded[r]) \in Nat
  <2>1. rtr[r] \in RouterState
    BY DEF Typed
  <2>2. /\ rtr[r].pos \in Nat /\ rtr[r].cur \in Nat /\ rtr[r].size \in Nat /\ rtr[r].i \in Nat
        /\ rtr[r].head \in Nat /\ rtr[r].min \in Nat /\ rtr[r].last \in 0 .. Slots - 1
    BY <2>1, Constants DEF RouterState
  <2>3. RtrCell(r) \in Cells
    BY <2>2 DEF RtrCell, Cells
  <2>4. cnt[RtrCell(r)] \in Nat /\ r \in Nat
    BY <2>3, Constants DEF Typed, Router
  <2>5. Len(dealt[r]) \in Nat /\ Len(decoded[r]) \in Nat
    BY LenProperties DEF Typed
  <2> QED  BY <2>2, <2>3, <2>4, <2>5
<1>3. LstCell \in Cells
  BY <1>1 DEF LstCell, Cells
<1>4. cnt[LstCell] \in Nat /\ Len(dealt[lst.next]) \in Nat
  BY <1>1, <1>2, <1>3, Constants DEF Typed
<1> QED  BY <1>1, <1>2, <1>3, <1>4 DEF Typed

LEMMA InitTyped == Init => Typed
<1> SUFFICES ASSUME Init PROVE Typed
  OBVIOUS
<1>0. 0 \in Router /\ ReadIndex(1) \in 0 .. Slots - 1 /\ 0 \in 0 .. Slots - 1 /\ 0 \in 0 .. Cap
  BY Constants, IndexTypes DEF Router
<1>1. lst \in ListenerState
  BY <1>0 DEF Init, ListenerState
<1>2. Minute(1) \in Nat
  BY Constants, Quotient DEF Minute
<1>3. rtr \in [Router -> RouterState]
  BY <1>0, <1>2 DEF Init, RouterState
<1>4. buf \in [Cells -> [0 .. Buffers - 1 -> [head : Nat, body : Nat]]]
  BY DEF Init, EmptyBuffer
<1>5. cnt \in [Cells -> 0 .. Cap] /\ busy \in [Cells -> BOOLEAN]
  BY <1>0 DEF Init
<1>6. dealt \in [Router -> Seq(Nat)] /\ decoded \in [Router -> Seq(Packet)]
  BY DEF Init
<1> QED  BY <1>1, <1>3, <1>4, <1>5, <1>6 DEF Init, Typed

(* The listener's steps, in terms of what they change. *)
LEMMA ListenerLeaves ==
  ASSUME Listener
  PROVE  /\ UNCHANGED <<source, real, now, processing, busy, rtr, bandwidth, decoded>>
         /\ ~Deal => UNCHANGED <<cnt, dealt>>
         /\ ~(WriteHead \/ WriteBody) => UNCHANGED buf
         /\ ~Capture => UNCHANGED captured
  BY DEF Listener, Capture, Paused, Refuse, Dismiss, WriteHead, WriteBody, Deal, ring, bandwidth, history

LEMMA RouteLeaves ==
  ASSUME NEW r \in Router, Route(r)
  PROVE  /\ UNCHANGED <<source, real, now, processing, buf, lst, captured, dealt>>
         /\ ~(Decode(r) \/ Reset(r)) => UNCHANGED cnt
         /\ ~(SetBusy(r) \/ Release(r)) => UNCHANGED busy
         /\ ~Decode(r) => UNCHANGED decoded
  BY DEF Route, Poll, SetBusy, Snapshot, ReadHead, Decode, Reset, Release, ring, history

LEMMA TimeLeaves ==
  ASSUME Pause \/ Tick \/ UpdateClock \/ UNCHANGED vars
  PROVE  UNCHANGED <<source, buf, cnt, busy, lst, rtr, bandwidth, captured, dealt, decoded>>
  BY DEF Pause, Tick, UpdateClock, vars, ring, bandwidth, history

LEMMA CapturedAt ==
  ASSUME Timely, Typed, ListenerAhead, Capture
  PROVE  /\ lst'.pc = "test" /\ lst'.next = lst.next /\ lst'.idx = ReadIndex(lst'.at + 1) /\ lst'.idx \in 0 .. Slots - 1
         /\ lst'.at \in Nat /\ lst.at <= lst'.at /\ lst' \in ListenerState
         /\ lst'.at <= real + MaxDrift /\ real <= lst'.at + 1
         /\ source = "ethernet" => lst'.at = real
         /\ source = "solarflare" => lst'.at = now
<1>0. now \in Nat /\ real \in Nat /\ lst.at \in Nat
  BY Fields
<1>1. PICK stamp \in Stamp : lst' = [lst EXCEPT !.pc = "test", !.at = stamp, !.idx = WriteIndex(stamp, stamp)]
  BY DEF Capture
<1>2. /\ stamp \in Nat /\ lst.at <= stamp
      /\ stamp <= real + MaxDrift /\ real <= stamp + 1
      /\ source = "ethernet" => stamp = real
      /\ source = "solarflare" => stamp = now
  <2>1. CASE source = "ethernet"
    BY <1>0, <1>1, <2>1, Constants DEF Stamp, ListenerAhead
  <2>2. CASE source = "solarflare"
    BY <1>0, <1>1, <2>2, Constants DEF Stamp, ListenerAhead, Timely
  <2>3. CASE source = "hardware"
    <3>1. stamp \in {t \in real - MaxDrift .. real + MaxDrift : t >= lst.at}
      BY <1>1, <2>3 DEF Stamp
    <3> QED  BY <1>0, <2>3, <3>1, Constants DEF Timely
  <2> QED  BY <2>1, <2>2, <2>3 DEF Typed
<1>3. WriteIndex(stamp, stamp) \in 0 .. Slots - 1 /\ WriteIndex(stamp, stamp) = ReadIndex(stamp + 1)
  BY <1>2, OwnSlot
<1>4. /\ lst'.pc = "test" /\ lst'.next = lst.next /\ lst'.at = stamp /\ lst'.idx = WriteIndex(stamp, stamp)
      /\ lst' \in ListenerState
  BY <1>1, <1>2, <1>3 DEF Typed, ListenerState
<1> QED  BY <1>2, <1>3, <1>4

LEMMA ListenerMoves ==
  ASSUME Typed, Listener, ~Capture
  PROVE  /\ lst'.at = lst.at /\ lst'.idx = lst.idx /\ lst' \in ListenerState
         /\ Paused \/ Refuse => lst'.pc = "idle" /\ lst'.next = lst.next
         /\ WriteHead => lst.pc = "test" /\ lst'.pc = "body" /\ lst'.next = lst.next
         /\ WriteBody => lst.pc = "body" /\ lst'.pc = "count" /\ lst'.next = lst.next
         /\ Deal => /\ lst.pc = "count" /\ lst'.pc = "idle"
                    /\ lst'.next = IF lst.next + 1 >= Routers THEN 0 ELSE lst.next + 1
<1>0. lst \in ListenerState
  BY DEF Typed
<1>1. CASE Paused \/ Refuse
  BY <1>0, <1>1 DEF Paused, Refuse, Dismiss, ListenerState, WriteHead, WriteBody, Deal
<1>2. CASE WriteHead
  BY <1>0, <1>2 DEF Paused, Refuse, Dismiss, WriteHead, WriteBody, Deal, ListenerState
<1>3. CASE WriteBody
  BY <1>0, <1>3 DEF Paused, Refuse, Dismiss, WriteHead, WriteBody, Deal, ListenerState
<1>4. CASE Deal
  <2>1. (IF lst.next + 1 >= Routers THEN 0 ELSE lst.next + 1) \in Router
    BY <1>0, Constants DEF Router, ListenerState
  <2> QED  BY <1>0, <1>4, <2>1 DEF Paused, Refuse, Dismiss, WriteHead, WriteBody, Deal, ListenerState
<1> QED  BY <1>1, <1>2, <1>3, <1>4 DEF Listener

-----------------------------------------------------------------------------
(* Listener and routers never meet. *)

LEMMA SteadyInit == Init => Steady
<1> SUFFICES ASSUME Init PROVE Steady
  OBVIOUS
<1>1. RoutersBehind
  BY Constants DEF Init, RoutersBehind
<1>2. ListenerAhead
  BY Constants DEF Init, ListenerAhead
<1>3. WorkMarked
  BY DEF Init, WorkMarked
<1> QED  BY <1>1, <1>2, <1>3, InitTyped DEF Steady

(* As long as its second is not over, what the listener writes for is in   *)
(* every router's window, and ahead of the second that is being emptied.   *)
LEMMA AheadOfRouters ==
  ASSUME Timely, Steady, now <= lst.at + 1, NEW r \in Router
  PROVE  /\ lst.at + 1 \in Window(r)
         /\ rtr[r].pc # "poll" => lst.at + 1 # rtr[r].pos
<1>0. /\ now \in Nat /\ real \in Nat /\ lst.at \in Nat /\ rtr[r].pos \in Nat /\ rtr[r].cur \in Nat
  BY Fields DEF Steady
<1>1. real <= now + MaxSkew /\ lst.at <= real + MaxDrift
  BY DEF Steady, ListenerAhead
<1>2. /\ rtr[r].pos <= now /\ now <= rtr[r].pos + MaxLag /\ rtr[r].cur <= now
      /\ rtr[r].pc # "poll" => rtr[r].pos < rtr[r].cur
  BY DEF Steady, RoutersBehind
<1> QED  BY <1>0, <1>1, <1>2, Constants DEF Timely, Window

LEMMA OfType == ASSUME NEW q \in Router, NEW p \in Nat PROVE Of(q, p) \in Cells
  BY IndexTypes DEF Of, Cells

(* In the window each second has a slot of its own. *)
LEMMA OwnSlots ==
  ASSUME Typed, NEW q \in Router, NEW a \in Window(q), NEW b \in Window(q), ReadIndex(a) = ReadIndex(b)
  PROVE  a = b
<1>1. /\ a \in Nat /\ b \in Nat /\ rtr[q].pos \in Nat
      /\ rtr[q].pos <= a /\ a < rtr[q].pos + Slots /\ rtr[q].pos <= b /\ b < rtr[q].pos + Slots
  BY Fields DEF Window
<1>2. ~(a < b)
  <2> SUFFICES ASSUME a < b PROVE FALSE
    OBVIOUS
  <2>1. b < a + Slots
    BY <1>1, Constants
  <2> QED  BY <1>1, <2>1, SlotsApart
<1>3. ~(b < a)
  <2> SUFFICES ASSUME b < a PROVE FALSE
    OBVIOUS
  <2>1. a < b + Slots
    BY <1>1, Constants
  <2> QED  BY <1>1, <2>1, SlotsApart
<1> QED  BY <1>1, <1>2, <1>3

LEMMA RtrCellOf ==
  ASSUME Steady, NEW r \in Router
  PROVE  RtrCell(r) = Of(r, rtr[r].pos) /\ rtr[r].pos \in Window(r)
<1>1. rtr[r].pos \in Nat /\ rtr[r].last = ReadIndex(rtr[r].pos)
  BY Fields DEF Steady, RoutersBehind
<1> QED  BY <1>1, Constants DEF RtrCell, Of, Window

LEMMA LstCellOf ==
  ASSUME Timely, Steady, lst.pc # "idle"
  PROVE  /\ LstCell = Of(lst.next, lst.at + 1) /\ now <= lst.at + 1
         /\ \A r \in Router : rtr[r].pc # "poll" => LstCell # RtrCell(r)
<1>0. now \in Nat /\ real \in Nat /\ lst.at \in Nat /\ Typed
  BY Fields DEF Steady
<1>1. now <= real /\ real <= lst.at + 1 /\ lst.idx = ReadIndex(lst.at + 1)
  BY DEF Steady, ListenerAhead
<1>2. LstCell = Of(lst.next, lst.at + 1) /\ now <= lst.at + 1
  BY <1>0, <1>1 DEF LstCell, Of
<1>3. ASSUME NEW r \in Router, rtr[r].pc # "poll", LstCell = RtrCell(r) PROVE FALSE
  <2>1. /\ lst.at + 1 \in Window(r) /\ lst.at + 1 # rtr[r].pos
        /\ RtrCell(r) = Of(r, rtr[r].pos) /\ rtr[r].pos \in Window(r)
    BY <1>2, <1>3, AheadOfRouters, RtrCellOf
  <2>2. ReadIndex(lst.at + 1) = ReadIndex(rtr[r].pos)
    BY <1>2, <1>3, <2>1 DEF Of
  <2> QED  BY <1>0, <2>1, <2>2, OwnSlots
<1> QED  BY <1>2, <1>3

LEMMA SteadyApart == ASSUME Timely, Steady PROVE Apart
<1> SUFFICES ASSUME lst.pc # "idle", rtr[lst.next].pc \notin {"poll", "visit"}
             PROVE  RtrCell(lst.next) # LstCell
  BY DEF Apart
<1>1. lst.next \in Router
  BY Fields DEF Steady
<1> QED  BY <1>1, LstCellOf

(* Writing a packet's head or body touches one buffer. *)
LEMMA BufferWritten ==
  ASSUME Typed, ListenerAhead, WriteHead \/ WriteBody
  PROVE  /\ buf' \in [Cells -> [0 .. Buffers - 1 -> [head : Nat, body : Nat]]]
         /\ \A c \in Cells : \A j \in Nat : c # LstCell \/ j # cnt[LstCell] => buf'[c][j] = buf[c][j]
         /\ WriteHead => buf'[LstCell][cnt[LstCell]].head = captured
         /\ WriteBody => /\ buf'[LstCell][cnt[LstCell]].body = captured
                         /\ buf'[LstCell][cnt[LstCell]].head = buf[LstCell][cnt[LstCell]].head
<1> DEFINE P == [head : Nat, body : Nat]
           T == [0 .. Buffers - 1 -> P]
           c == LstCell
           j == cnt[c]
           b == buf[c]
           h == [b[j] EXCEPT !.head = captured]
           y == [b[j] EXCEPT !.body = captured]
           bh == [b EXCEPT ![j] = h]
           by == [b EXCEPT ![j] = y]
<1>0. captured \in Nat /\ c \in Cells /\ j \in Nat /\ buf \in [Cells -> T]
  BY Fields DEF Typed
<1>1. j < Cap
  BY DEF WriteHead, WriteBody, ListenerAhead
<1>2. j \in 0 .. Buffers - 1
  <2> HIDE DEF j
  <2> QED  BY <1>0, <1>1, Constants
<1>3. b \in T /\ b[j] \in P
  BY <1>0, <1>2
<1>4. h \in P /\ h.head = captured /\ y \in P /\ y.body = captured /\ y.head = b[j].head
  BY <1>0, <1>3
<1>5. (WriteHead => buf' = [buf EXCEPT ![c] = bh]) /\ (WriteBody => buf' = [buf EXCEPT ![c] = by])
  BY DEF WriteHead, WriteBody
<1>6. (WriteHead \/ WriteBody) /\ ~(WriteHead /\ WriteBody)
  BY DEF WriteHead, WriteBody
<1> HIDE DEF P, c, j, b, h, y
<1>7. /\ bh \in T /\ bh[j] = h /\ \A k \in Nat : k # j => bh[k] = b[k]
      /\ by \in T /\ by[j] = y /\ \A k \in Nat : k # j => by[k] = b[k]
  BY <1>2, <1>3, <1>4
<1> HIDE DEF bh, by, T
<1>8. ASSUME NEW new \in T, buf' = [buf EXCEPT ![c] = new], \A k \in Nat : k # j => new[k] = b[k]
      PROVE  /\ buf' \in [Cells -> T] /\ buf'[c][j] = new[j]
             /\ \A d \in Cells : \A k \in Nat : d # c \/ k # j => buf'[d][k] = buf[d][k]
  <2>1. buf' \in [Cells -> T] /\ buf'[c] = new /\ \A d \in Cells : d # c => buf'[d] = buf[d]
    BY <1>0, <1>8
  <2>2. b = buf[c]
    BY DEF b
  <2> QED  BY <1>8, <2>1, <2>2
<1>9. CASE WriteHead
  <2>1. buf' = [buf EXCEPT ![c] = bh]
    BY <1>5, <1>9
  <2> QED  BY <1>4, <1>6, <1>7, <1>8, <1>9, <2>1 DEF c, j, b, T, P
<1>10. CASE WriteBody
  <2>1. buf' = [buf EXCEPT ![c] = by]
    BY <1>5, <1>10
  <2> QED  BY <1>4, <1>6, <1>7, <1>8, <1>10, <2>1 DEF c, j, b, T, P
<1> QED  BY <1>9, <1>10

LEMMA ListenerKeepsSteady == ASSUME Timely, Steady, Listener PROVE Steady'
<1>0. /\ Typed /\ ListenerAhead /\ now \in Nat /\ real \in Nat /\ captured \in Nat
      /\ lst.at \in Nat /\ lst.next \in Router /\ LstCell \in Cells /\ cnt[LstCell] \in Nat
      /\ lst \in ListenerState /\ cnt \in [Cells -> 0 .. Cap]
  BY Fields DEF Steady, Typed
<1>1. /\ UNCHANGED <<source, real, now, processing, busy, rtr, decoded>>
      /\ ~Deal => UNCHANGED <<cnt, dealt>>
      /\ ~(WriteHead \/ WriteBody) => UNCHANGED buf
      /\ ~Capture => UNCHANGED captured
  BY ListenerLeaves
<1>2. RoutersBehind'
  BY <1>1 DEF Steady, RoutersBehind
<1>3. cnt' \in [Cells -> 0 .. Cap] /\ dealt' \in [Router -> Seq(Nat)] /\ \A c \in Cells : c # LstCell => cnt'[c] = cnt[c]
  <2>1. CASE Deal
    <3>1. cnt[LstCell] < Cap /\ cnt' = [cnt EXCEPT ![LstCell] = @ + 1]
      BY <2>1 DEF Deal, ListenerAhead, Steady
    <3>2. cnt[LstCell] + 1 \in 0 .. Cap
      BY <1>0, <3>1, Constants
    <3>3. dealt' = [dealt EXCEPT ![lst.next] = Append(@, captured)]
      BY <2>1 DEF Deal
    <3>4. dealt' \in [Router -> Seq(Nat)]
      BY <1>0, <3>3 DEF Typed
    <3> QED  BY <1>0, <3>1, <3>2, <3>4
  <2>2. CASE ~Deal
    BY <1>0, <1>1, <2>2 DEF Typed
  <2> QED  BY <2>1, <2>2
<1>4. buf' \in [Cells -> [0 .. Buffers - 1 -> [head : Nat, body : Nat]]]
  <2>1. CASE WriteHead \/ WriteBody
    BY <1>0, <2>1, BufferWritten
  <2>2. CASE ~(WriteHead \/ WriteBody)
    BY <1>0, <1>1, <2>2 DEF Typed
  <2> QED  BY <2>1, <2>2
<1>5. captured' \in Nat
  <2>1. CASE Capture
    BY <1>0, <2>1 DEF Capture
  <2>2. CASE ~Capture
    BY <1>0, <1>1, <2>2
  <2> QED  BY <2>1, <2>2
<1>6. lst' \in ListenerState
  BY <1>0, CapturedAt, ListenerMoves
<1>7. Typed'
  BY <1>0, <1>1, <1>3, <1>4, <1>5, <1>6 DEF Typed
<1>8. ListenerAhead'
  <2>1. CASE Capture
    <3>1. /\ lst'.pc = "test" /\ lst'.idx = ReadIndex(lst'.at + 1)
          /\ lst'.at <= real + MaxDrift /\ real <= lst'.at + 1
          /\ source = "ethernet" => lst'.at = real
          /\ source = "solarflare" => lst'.at = now
      BY <1>0, <2>1, CapturedAt
    <3> QED  BY <1>0, <1>1, <3>1 DEF ListenerAhead
  <2>2. CASE ~Capture
    <3>1. /\ lst'.at = lst.at /\ lst'.idx = lst.idx
          /\ lst'.pc # "idle" => lst.pc # "idle"
          /\ lst'.pc \in {"body", "count"} => LstCell' = LstCell /\ cnt' = cnt /\ cnt[LstCell] < Cap
      <4>1. CASE Paused \/ Refuse
        BY <1>0, <2>2, <4>1, ListenerMoves
      <4>2. CASE WriteHead \/ WriteBody
        <5>1. /\ lst'.at = lst.at /\ lst'.idx = lst.idx /\ lst'.next = lst.next /\ lst.pc # "idle"
          BY <1>0, <2>2, <4>2, ListenerMoves
        <5>2. cnt' = cnt /\ cnt[LstCell] < Cap
          BY <1>0, <4>2 DEF WriteHead, WriteBody, ListenerAhead
        <5> QED  BY <5>1, <5>2 DEF LstCell
      <4>3. CASE Deal
        BY <1>0, <2>2, <4>3, ListenerMoves
      <4> QED  BY <2>2, <4>1, <4>2, <4>3 DEF Listener
    <3>2. lst'.pc \in {"body", "count"} => cnt'[LstCell'] < Cap
      BY <3>1
    <3> QED  BY <1>1, <3>1, <3>2, <1>0 DEF ListenerAhead
  <2> QED  BY <2>1, <2>2
<1>9. WorkMarked'
  <2>1. \A r \in Router : InWork(r) => cnt'[RtrCell(r)] = cnt[RtrCell(r)]
    <3> SUFFICES ASSUME NEW r \in Router, InWork(r), cnt'[RtrCell(r)] # cnt[RtrCell(r)] PROVE FALSE
      OBVIOUS
    <3>1. RtrCell(r) \in Cells /\ RtrCell(r) = LstCell
      BY <1>0, <1>3, Fields
    <3>2. Deal
      BY <1>1
    <3>3. lst.pc # "idle" /\ rtr[r].pc # "poll"
      BY <3>2 DEF Deal, InWork
    <3> QED  BY <3>1, <3>3, LstCellOf
  <2>2. \A r \in Router : RtrCell(r)' = RtrCell(r)
    BY <1>1 DEF RtrCell
  <2> QED  BY <1>1, <2>1, <2>2 DEF Steady, WorkMarked, InWork, RtrCell
<1> QED  BY <1>2, <1>7, <1>8, <1>9 DEF Steady

(* The routers' steps, in terms of what they change. *)
LEMMA OthersStay ==
  ASSUME Typed, NEW r \in Router, Route(r)
  PROVE  /\ \A s \in Router : s # r => rtr'[s] = rtr[s] /\ decoded'[s] = decoded[s]
         /\ \A c \in Cells : c # RtrCell(r) => cnt'[c] = cnt[c] /\ busy'[c] = busy[c]
<1>0. rtr \in [Router -> RouterState] /\ decoded \in [Router -> Seq(Packet)]
      /\ cnt \in [Cells -> 0 .. Cap] /\ busy \in [Cells -> BOOLEAN]
  BY DEF Typed
<1>1. \A s \in Router : s # r => rtr'[s] = rtr[s]
  BY <1>0 DEF Route, Poll, SetBusy, Snapshot, ReadHead, Decode, Reset, Release
<1>2. \A s \in Router : s # r => decoded'[s] = decoded[s]
  BY <1>0, RouteLeaves DEF Decode
<1>3. \A c \in Cells : c # RtrCell(r) => cnt'[c] = cnt[c]
  <2>1. CASE Decode(r) \/ Reset(r)
    BY <1>0, <2>1 DEF Decode, Reset
  <2> QED  BY <2>1, RouteLeaves
<1>4. \A c \in Cells : c # RtrCell(r) => busy'[c] = busy[c]
  <2>1. CASE SetBusy(r) \/ Release(r)
    BY <1>0, <2>1 DEF SetBusy, Release
  <2> QED  BY <2>1, RouteLeaves
<1> QED  BY <1>1, <1>2, <1>3, <1>4

LEMMA PollIs ==
  ASSUME Typed, NEW r \in Router, Poll(r)
  PROVE  /\ rtr' \in [Router -> RouterState] /\ UNCHANGED <<cnt, busy, decoded>>
         /\ rtr[r].pc = "poll" /\ rtr'[r].pc \in {"poll", "visit"}
         /\ rtr'[r].last = rtr[r].last /\ rtr'[r].pos = rtr[r].pos
         /\ rtr'[r].pc = "visit" => rtr[r].last # ReadIndex(now) /\ rtr'[r].cur = now
         /\ rtr'[r].pc = "poll" => rtr'[r].cur = rtr[r].cur
<1>0. rtr[r] \in RouterState /\ rtr \in [Router -> RouterState] /\ now \in Nat
  BY DEF Typed
<1> DEFINE due == rtr[r].last # ReadIndex(now)
           goesTo == IF due THEN "visit" ELSE "poll"
           cur == IF due THEN now ELSE rtr[r].cur
<1>1. UNCHANGED <<cnt, busy, decoded>> /\ rtr[r].pc = "poll"
  BY DEF Poll, ring, history
<1>2. PICK min \in {Minute(now - 1), Minute(now)} :
        min >= rtr[r].min /\ rtr' = [rtr EXCEPT ![r] = [@ EXCEPT !.pc = goesTo, !.cur = cur, !.min = min]]
  BY <1>1 DEF Poll
<1>3. min \in Nat
  <2>1. min \in Int
    BY <1>0, Constants, IntQuotient DEF Minute
  <2> QED  BY <1>0, <1>2, <2>1 DEF RouterState
<1>4. goesTo \in {"poll", "visit"} /\ cur \in Nat
  BY <1>0 DEF RouterState
<1>5. IF due THEN goesTo = "visit" /\ cur = now ELSE goesTo = "poll" /\ cur = rtr[r].cur
  OBVIOUS
<1> HIDE DEF goesTo, cur
<1> DEFINE x == [rtr[r] EXCEPT !.pc = goesTo, !.cur = cur, !.min = min]
<1>6. /\ x \in RouterState /\ x.pc = goesTo /\ x.cur = cur /\ x.min = min
      /\ x.last = rtr[r].last /\ x.pos = rtr[r].pos
  BY <1>0, <1>3, <1>4 DEF RouterState
<1>7. rtr' = [rtr EXCEPT ![r] = x]
  BY <1>2
<1> HIDE DEF x
<1>8. rtr' \in [Router -> RouterState] /\ rtr'[r] = x
  BY <1>0, <1>6, <1>7
<1> QED  BY <1>1, <1>4, <1>5, <1>6, <1>8

LEMMA SetBusyIs ==
  ASSUME Typed, NEW r \in Router, SetBusy(r)
  PROVE  /\ rtr' \in [Router -> RouterState] /\ UNCHANGED <<cnt, decoded>>
         /\ busy' \in [Cells -> BOOLEAN]
         /\ rtr[r].pc = "visit" /\ rtr'[r].pc = "size"
         /\ rtr'[r].last = rtr[r].last /\ rtr'[r].pos = rtr[r].pos /\ rtr'[r].cur = rtr[r].cur
<1>0. rtr \in [Router -> RouterState] /\ rtr[r] \in RouterState
  BY DEF Typed
<1>1. busy \in [Cells -> BOOLEAN]
  BY DEF Typed
<1>2. rtr[r].pc = "visit" /\ rtr' = [rtr EXCEPT ![r].pc = "size"] /\ UNCHANGED <<cnt, decoded>>
      /\ busy' = [busy EXCEPT ![RtrCell(r)] = TRUE]
  BY DEF SetBusy, history
<1>3. busy' \in [Cells -> BOOLEAN]
  BY <1>1, <1>2
<1>4. /\ rtr' \in [Router -> RouterState] /\ rtr'[r].pc = "size"
      /\ rtr'[r].last = rtr[r].last /\ rtr'[r].pos = rtr[r].pos /\ rtr'[r].cur = rtr[r].cur
  BY <1>0, <1>2 DEF RouterState
<1> QED  BY <1>2, <1>3, <1>4

LEMMA SnapshotIs ==
  ASSUME Typed, NEW r \in Router, Snapshot(r)
  PROVE  /\ rtr' \in [Router -> RouterState] /\ UNCHANGED <<cnt, busy, decoded>>
         /\ rtr[r].pc = "size" /\ rtr'[r].pc = IF cnt[RtrCell(r)] > 0 THEN "head" ELSE "release"
         /\ rtr'[r].size = cnt[RtrCell(r)] /\ rtr'[r].i = 0
         /\ rtr'[r].last = rtr[r].last /\ rtr'[r].pos = rtr[r].pos /\ rtr'[r].cur = rtr[r].cur
<1>0. rtr \in [Router -> RouterState] /\ rtr[r] \in RouterState
  BY DEF Typed
<1>1. cnt[RtrCell(r)] \in 0 .. Cap
  BY Fields DEF Typed
<1> DEFINE size == cnt[RtrCell(r)]
           goesTo == IF size > 0 THEN "head" ELSE "release"
           y == [rtr[r] EXCEPT !.pc = goesTo, !.size = size, !.i = 0]
<1>2. rtr' = [rtr EXCEPT ![r] = y] /\ rtr[r].pc = "size" /\ UNCHANGED <<cnt, busy, decoded>>
  BY DEF Snapshot, ring, history
<1>3. goesTo \in {"head", "release"} /\ size \in 0 .. Cap
  BY <1>1
<1> HIDE DEF size, goesTo
<1>4. /\ y \in RouterState /\ y.pc = goesTo /\ y.size = size /\ y.i = 0
      /\ y.last = rtr[r].last /\ y.pos = rtr[r].pos /\ y.cur = rtr[r].cur
  BY <1>0, <1>3 DEF RouterState
<1> HIDE DEF y
<1>5. rtr' \in [Router -> RouterState] /\ rtr'[r] = y
  BY <1>0, <1>2, <1>4
<1> QED  BY <1>2, <1>4, <1>5 DEF goesTo, size

LEMMA ReadHeadIs ==
  ASSUME Typed, NEW r \in Router, ReadHead(r), rtr[r].i < Cap
  PROVE  /\ rtr' \in [Router -> RouterState] /\ UNCHANGED <<cnt, busy, decoded>>
         /\ rtr[r].pc = "head" /\ rtr'[r].pc = "decode"
         /\ rtr'[r].size = rtr[r].size /\ rtr'[r].i = rtr[r].i
         /\ rtr'[r].head = buf[RtrCell(r)][rtr[r].i].head
         /\ rtr'[r].last = rtr[r].last /\ rtr'[r].pos = rtr[r].pos /\ rtr'[r].cur = rtr[r].cur
<1>1. RtrCell(r) \in Cells /\ rtr[r].i \in 0 .. Buffers - 1
  <2>1. RtrCell(r) \in Cells /\ rtr[r].i \in Nat
    BY Fields
  <2>2. \A i \in Nat : i < Cap => i \in 0 .. Buffers - 1
    BY Constants
  <2> QED  BY <2>1, <2>2
<1>2. buf[RtrCell(r)][rtr[r].i].head \in Nat
  BY <1>1 DEF Typed
<1>0. rtr \in [Router -> RouterState] /\ rtr[r] \in RouterState
  BY DEF Typed
<1>3. rtr[r].pc = "head" /\ UNCHANGED <<cnt, busy, decoded>>
      /\ rtr' = [rtr EXCEPT ![r] = [@ EXCEPT !.pc = "decode", !.head = buf[RtrCell(r)][rtr[r].i].head]]
  BY DEF ReadHead, ring, history
<1> QED  BY <1>0, <1>2, <1>3 DEF RouterState

LEMMA DecodeIs ==
  ASSUME Typed, NEW r \in Router, Decode(r), rtr[r].i < Cap, cnt[RtrCell(r)] > 0
  PROVE  /\ rtr' \in [Router -> RouterState] /\ UNCHANGED busy
         /\ cnt' \in [Cells -> 0 .. Cap] /\ cnt'[RtrCell(r)] = cnt[RtrCell(r)] - 1
         /\ [head |-> rtr[r].head, body |-> buf[RtrCell(r)][rtr[r].i].body, min |-> rtr[r].min] \in Packet
         /\ decoded'[r] = Append(decoded[r], [head |-> rtr[r].head, body |-> buf[RtrCell(r)][rtr[r].i].body,
                                              min |-> rtr[r].min])
         /\ decoded' \in [Router -> Seq(Packet)]
         /\ rtr[r].pc = "decode" /\ rtr'[r].pc = (IF rtr[r].i + 1 < rtr[r].size THEN "head" ELSE "reset")
         /\ rtr'[r].size = rtr[r].size /\ rtr'[r].i = rtr[r].i + 1
         /\ rtr'[r].last = rtr[r].last /\ rtr'[r].pos = rtr[r].pos /\ rtr'[r].cur = rtr[r].cur
<1>1. RtrCell(r) \in Cells /\ rtr[r].i \in 0 .. Buffers - 1 /\ rtr[r].head \in Nat /\ rtr[r].min \in Nat
  <2>1. RtrCell(r) \in Cells /\ rtr[r].i \in Nat /\ rtr[r].head \in Nat /\ rtr[r].min \in Nat
    BY Fields
  <2>2. \A i \in Nat : i < Cap => i \in 0 .. Buffers - 1
    BY Constants
  <2> QED  BY <2>1, <2>2
<1>2. buf[RtrCell(r)][rtr[r].i].body \in Nat
  BY <1>1 DEF Typed
<1> DEFINE x == [head |-> rtr[r].head, body |-> buf[RtrCell(r)][rtr[r].i].body, min |-> rtr[r].min]
<1>3. x \in Packet
  BY <1>1, <1>2 DEF Packet
<1>4. decoded' = [decoded EXCEPT ![r] = Append(@, x)] /\ cnt' = [cnt EXCEPT ![RtrCell(r)] = @ - 1]
  BY DEF Decode
<1>5. rtr' \in [Router -> RouterState] /\ UNCHANGED busy
      /\ rtr[r].pc = "decode" /\ rtr'[r].pc = (IF rtr[r].i + 1 < rtr[r].size THEN "head" ELSE "reset")
      /\ rtr'[r].size = rtr[r].size /\ rtr'[r].i = rtr[r].i + 1
      /\ rtr'[r].last = rtr[r].last /\ rtr'[r].pos = rtr[r].pos /\ rtr'[r].cur = rtr[r].cur
  <2> DEFINE goesTo == IF rtr[r].i + 1 < rtr[r].size THEN "head" ELSE "reset"
             i == rtr[r].i + 1
             y == [rtr[r] EXCEPT !.pc = goesTo, !.i = i]
  <2>1. rtr' = [rtr EXCEPT ![r] = y] /\ UNCHANGED busy /\ rtr[r].pc = "decode"
    BY DEF Decode
  <2>2. rtr[r] \in RouterState /\ rtr \in [Router -> RouterState]
    BY DEF Typed
  <2>3. goesTo \in {"head", "reset"} /\ i \in Nat
    BY Fields
  <2> HIDE DEF goesTo, i
  <2>4. /\ y \in RouterState /\ y.pc = goesTo /\ y.i = i /\ y.size = rtr[r].size
        /\ y.last = rtr[r].last /\ y.pos = rtr[r].pos /\ y.cur = rtr[r].cur
    BY <2>2, <2>3 DEF RouterState
  <2> HIDE DEF y
  <2>5. rtr' \in [Router -> RouterState] /\ rtr'[r] = y
    BY <2>1, <2>2, <2>4
  <2> QED  BY <2>1, <2>4, <2>5 DEF goesTo, i
<1> HIDE DEF x
<1>6. decoded'[r] = Append(decoded[r], x) /\ decoded' \in [Router -> Seq(Packet)]
  <2>1. decoded[r] \in Seq(Packet)
    BY DEF Typed
  <2>2. Append(decoded[r], x) \in Seq(Packet)
    BY <1>3, <2>1, AppendProperties
  <2> QED  BY <1>4, <2>2 DEF Typed
<1>7. cnt' \in [Cells -> 0 .. Cap] /\ cnt'[RtrCell(r)] = cnt[RtrCell(r)] - 1
  <2>1. cnt[RtrCell(r)] - 1 \in 0 .. Cap
    <3>1. cnt[RtrCell(r)] \in 0 .. Cap
      BY <1>1 DEF Typed
    <3> QED  BY <3>1, Constants
  <2> QED  BY <1>1, <1>4, <2>1 DEF Typed
<1>8. x \in Packet /\ decoded'[r] = Append(decoded[r], x)
  BY <1>3, <1>6
<1>9. [head |-> rtr[r].head, body |-> buf[RtrCell(r)][rtr[r].i].body, min |-> rtr[r].min] = x
  BY DEF x
<1> QED  BY <1>5, <1>6, <1>7, <1>8, <1>9

LEMMA ResetIs ==
  ASSUME Typed, NEW r \in Router, Reset(r)
  PROVE  /\ rtr' \in [Router -> RouterState] /\ UNCHANGED <<busy, decoded>>
         /\ cnt' \in [Cells -> 0 .. Cap] /\ cnt'[RtrCell(r)] = 0
         /\ rtr[r].pc = "reset" /\ rtr'[r].pc = "release"
         /\ rtr'[r].last = rtr[r].last /\ rtr'[r].pos = rtr[r].pos /\ rtr'[r].cur = rtr[r].cur
<1>1. RtrCell(r) \in Cells /\ 0 \in 0 .. Cap
  BY Fields, Constants
<1>0. rtr \in [Router -> RouterState] /\ rtr[r] \in RouterState
  BY DEF Typed
<1>2. rtr[r].pc = "reset" /\ rtr' = [rtr EXCEPT ![r].pc = "release"] /\ UNCHANGED <<busy, decoded>>
      /\ cnt' = [cnt EXCEPT ![RtrCell(r)] = 0]
  BY DEF Reset, history
<1>3. cnt \in [Cells -> 0 .. Cap]
  BY DEF Typed
<1>4. cnt' \in [Cells -> 0 .. Cap] /\ cnt'[RtrCell(r)] = 0
  BY <1>1, <1>2, <1>3
<1>5. /\ rtr' \in [Router -> RouterState] /\ rtr'[r].pc = "release"
      /\ rtr'[r].last = rtr[r].last /\ rtr'[r].pos = rtr[r].pos /\ rtr'[r].cur = rtr[r].cur
  BY <1>0, <1>2 DEF RouterState
<1> QED  BY <1>2, <1>4, <1>5

LEMMA ReleaseIs ==
  ASSUME Typed, NEW r \in Router, Release(r)
  PROVE  /\ rtr' \in [Router -> RouterState] /\ UNCHANGED <<cnt, decoded>>
         /\ busy' \in [Cells -> BOOLEAN] /\ ~busy'[RtrCell(r)]
         /\ rtr[r].pc = "release"
         /\ rtr'[r].pc = IF NextIndex(rtr[r].last) = ReadIndex(rtr[r].cur) THEN "poll" ELSE "visit"
         /\ rtr'[r].last = NextIndex(rtr[r].last) /\ rtr'[r].pos = rtr[r].pos + 1
         /\ rtr'[r].cur = rtr[r].cur
<1>1. RtrCell(r) \in Cells /\ NextIndex(rtr[r].last) \in 0 .. Slots - 1
  BY Fields, IndexTypes
<1>2. rtr[r] \in RouterState /\ rtr \in [Router -> RouterState] /\ busy \in [Cells -> BOOLEAN]
  BY DEF Typed
<1> DEFINE next == NextIndex(rtr[r].last)
           goesTo == IF next = ReadIndex(rtr[r].cur) THEN "poll" ELSE "visit"
           pos == rtr[r].pos + 1
           x == [rtr[r] EXCEPT !.pc = goesTo, !.last = next, !.pos = pos]
<1>3. rtr' = [rtr EXCEPT ![r] = x] /\ rtr[r].pc = "release"
  BY DEF Release
<1>4. busy' = [busy EXCEPT ![RtrCell(r)] = FALSE] /\ UNCHANGED <<cnt, decoded>>
  BY DEF Release, history
<1>5. goesTo \in {"poll", "visit"} /\ pos \in Nat
  BY Fields
<1>6. next \in 0 .. Slots - 1
  BY <1>1
<1> HIDE DEF next, goesTo, pos
<1>7. /\ x \in RouterState /\ x.pc = goesTo /\ x.last = next /\ x.pos = pos /\ x.cur = rtr[r].cur
  BY <1>2, <1>5, <1>6 DEF RouterState
<1> HIDE DEF x
<1>8. rtr' \in [Router -> RouterState] /\ rtr'[r] = x
  BY <1>2, <1>3, <1>7
<1>9. busy' \in [Cells -> BOOLEAN] /\ ~busy'[RtrCell(r)]
  BY <1>1, <1>2, <1>4
<1> QED  BY <1>3, <1>4, <1>7, <1>8, <1>9 DEF next, goesTo, pos

LEMMA RouteKeepsSteady ==
  ASSUME Timely, Steady, NEW r \in Router, Route(r)
  PROVE  Steady'
<1>0. /\ Typed /\ now \in Nat /\ rtr[r].pos \in Nat /\ rtr[r].cur \in Nat
      /\ rtr[r].i \in Nat /\ rtr[r].size \in 0 .. Cap /\ RtrCell(r) \in Cells
      /\ cnt \in [Cells -> 0 .. Cap]
  <2>1. rtr[r].size \in 0 .. Cap
    BY DEF Steady, Typed, RouterState
  <2> QED  BY <2>1, Fields DEF Steady, Typed
<1>1. UNCHANGED <<source, real, now, processing, buf, lst, captured, dealt>>
  BY RouteLeaves
<1>2. /\ \A s \in Router : s # r => rtr'[s] = rtr[s] /\ decoded'[s] = decoded[s]
      /\ \A c \in Cells : c # RtrCell(r) => cnt'[c] = cnt[c] /\ busy'[c] = busy[c]
  BY <1>0, OthersStay
<1>3. /\ rtr[r].last = ReadIndex(rtr[r].pos)
      /\ rtr[r].pos <= now /\ now <= rtr[r].pos + MaxLag /\ rtr[r].cur <= now
      /\ rtr[r].pc # "poll" => rtr[r].pos < rtr[r].cur
  BY DEF Steady, RoutersBehind
<1>4. rtr[r].pc \in {"head", "decode"} => /\ rtr[r].i < rtr[r].size /\ rtr[r].i < Cap
                                         /\ cnt[RtrCell(r)] = rtr[r].size - rtr[r].i /\ cnt[RtrCell(r)] > 0
  <2>1. rtr[r].pc \in {"head", "decode"} => rtr[r].i < rtr[r].size /\ cnt[RtrCell(r)] = rtr[r].size - rtr[r].i
    BY DEF Steady, WorkMarked
  <2> QED  BY <1>0, <2>1, Constants
<1> DEFINE Good ==
      /\ rtr' \in [Router -> RouterState] /\ busy' \in [Cells -> BOOLEAN]
      /\ cnt' \in [Cells -> 0 .. Cap] /\ decoded' \in [Router -> Seq(Packet)]
      /\ rtr'[r].last = ReadIndex(rtr'[r].pos)
      /\ rtr'[r].pos <= now /\ now <= rtr'[r].pos + MaxLag /\ rtr'[r].cur <= now
      /\ rtr'[r].pc # "poll" => rtr'[r].pos < rtr'[r].cur
      /\ busy'[RtrCell(r)] => InWork(r)' /\ rtr'[r].last = rtr[r].last
      /\ rtr'[r].pc \in {"head", "decode"} =>
           rtr'[r].i < rtr'[r].size /\ cnt'[RtrCell(r)] = rtr'[r].size - rtr'[r].i
      /\ rtr'[r].pc \in {"reset", "release"} => cnt'[RtrCell(r)] = 0
      /\ rtr'[r].last = rtr[r].last \/ (rtr'[r].pc \in {"poll", "visit"} /\ ~busy'[RtrCell(r)])
<1>t. /\ cnt[RtrCell(r)] \in Nat /\ busy \in [Cells -> BOOLEAN] /\ decoded \in [Router -> Seq(Packet)]
  BY <1>0, Fields DEF Typed
<1>w. /\ busy[RtrCell(r)] => InWork(r)
      /\ rtr[r].pc \in {"reset", "release"} => cnt[RtrCell(r)] = 0
  <2>1. RtrCell(r)[1] = r
    BY DEF RtrCell
  <2> QED  BY <1>0, <2>1 DEF Steady, WorkMarked
<1>5. Good
  <2>1. CASE Poll(r)
    <3>1. rtr'[r].pc = "visit" => rtr[r].pos < now
      <4>1. rtr'[r].pc = "visit" => rtr[r].last # ReadIndex(now)
        BY <1>0, <2>1, PollIs
      <4> QED  BY <1>0, <1>3, <4>1
    <3>2. ~busy[RtrCell(r)]
      BY <1>0, <1>w, <2>1, PollIs DEF InWork
    <3> QED  BY <1>0, <1>1, <1>3, <1>t, <2>1, <3>1, <3>2, PollIs
  <2>2. CASE SetBusy(r)
    BY <1>0, <1>1, <1>3, <1>t, <2>2, SetBusyIs DEF InWork
  <2>3. CASE Snapshot(r)
    BY <1>0, <1>1, <1>3, <1>t, <2>3, SnapshotIs DEF InWork
  <2>4. CASE ReadHead(r)
    <3>1. rtr[r].pc = "head"
      BY <2>4 DEF ReadHead
    <3> QED  BY <1>0, <1>1, <1>3, <1>4, <1>t, <2>4, <3>1, ReadHeadIs DEF InWork
  <2>5. CASE Decode(r)
    <3>1. rtr[r].pc = "decode"
      BY <2>5 DEF Decode
    <3>2. /\ rtr' \in [Router -> RouterState] /\ busy' = busy
          /\ cnt' \in [Cells -> 0 .. Cap] /\ cnt'[RtrCell(r)] = cnt[RtrCell(r)] - 1
          /\ decoded' \in [Router -> Seq(Packet)]
          /\ rtr'[r].pc = (IF rtr[r].i + 1 < rtr[r].size THEN "head" ELSE "reset")
          /\ rtr'[r].size = rtr[r].size /\ rtr'[r].i = rtr[r].i + 1
          /\ rtr'[r].last = rtr[r].last /\ rtr'[r].pos = rtr[r].pos /\ rtr'[r].cur = rtr[r].cur
      BY <1>0, <1>4, <2>5, <3>1, DecodeIs
    <3>a. /\ rtr[r].i < rtr[r].size /\ cnt[RtrCell(r)] = rtr[r].size - rtr[r].i
          /\ rtr[r].i \in Nat /\ rtr[r].size \in Nat
      BY <1>0, <1>4, <3>1
    <3>3. rtr'[r].pc \in {"head", "decode"} =>
             rtr'[r].i < rtr'[r].size /\ cnt'[RtrCell(r)] = rtr'[r].size - rtr'[r].i
      BY <3>2, <3>a
    <3>4. rtr'[r].pc \in {"reset", "release"} => cnt'[RtrCell(r)] = 0
      BY <1>0, <1>4, <3>1, <3>2
    <3>5. InWork(r)' /\ rtr'[r].pc # "poll"
      BY <3>2 DEF InWork
    <3> QED  BY <1>0, <1>1, <1>3, <1>t, <3>1, <3>2, <3>3, <3>4, <3>5
  <2>6. CASE Reset(r)
    BY <1>0, <1>1, <1>3, <1>t, <2>6, ResetIs DEF InWork
  <2>7. CASE Release(r)
    <3>1. NextIndex(rtr[r].last) = ReadIndex(rtr[r].pos + 1)
      BY <1>0, <1>3, NextSlot
    <3>2. rtr[r].pos + 1 = rtr[r].cur => rtr'[r].pc = "poll"
      BY <1>0, <2>7, <3>1, ReleaseIs
    <3>3. rtr[r].pos < rtr[r].cur
      BY <1>0, <1>3, <2>7, ReleaseIs
    <3>4. rtr'[r].pc \in {"poll", "visit"} /\ ~busy'[RtrCell(r)]
      BY <1>0, <2>7, ReleaseIs
    <3>5. /\ rtr' \in [Router -> RouterState] /\ cnt' = cnt /\ decoded' = decoded
          /\ busy' \in [Cells -> BOOLEAN]
          /\ rtr'[r].last = NextIndex(rtr[r].last) /\ rtr'[r].pos = rtr[r].pos + 1
          /\ rtr'[r].cur = rtr[r].cur
      BY <1>0, <2>7, ReleaseIs
    <3>6. /\ rtr'[r].last = ReadIndex(rtr'[r].pos)
          /\ rtr'[r].pos <= now /\ now <= rtr'[r].pos + MaxLag /\ rtr'[r].cur <= now
          /\ rtr'[r].pc # "poll" => rtr'[r].pos < rtr'[r].cur
      BY <1>0, <1>3, <3>1, <3>2, <3>3, <3>5, Constants
    <3> QED  BY <1>0, <1>t, <3>4, <3>5, <3>6
  <2> QED  BY <2>1, <2>2, <2>3, <2>4, <2>5, <2>6, <2>7 DEF Route
<1>6. Typed'
  BY <1>0, <1>1, <1>5 DEF Typed
<1>7. RoutersBehind'
  BY <1>1, <1>2, <1>5 DEF Steady, RoutersBehind
<1>8. ListenerAhead'
  <2>1. LstCell' = LstCell
    BY <1>1 DEF LstCell
  <2>2. lst.pc \in {"body", "count"} => cnt'[LstCell] < Cap
    <3> SUFFICES ASSUME lst.pc \in {"body", "count"} PROVE cnt'[LstCell] < Cap
      OBVIOUS
    <3>1. cnt[LstCell] < Cap /\ LstCell \in Cells
      BY Fields DEF Steady, ListenerAhead
    <3>2. CASE rtr[r].pc = "poll"
      BY <1>0, <3>1, <3>2, PollIs DEF Route, SetBusy, Snapshot, ReadHead, Decode, Reset, Release
    <3>3. CASE rtr[r].pc # "poll"
      BY <1>2, <3>1, <3>3, LstCellOf
    <3> QED  BY <3>2, <3>3
  <2> QED  BY <1>1, <2>1, <2>2 DEF Steady, ListenerAhead
<1>9. WorkMarked'
  <2>1. ASSUME NEW s \in Router, s # r
        PROVE  /\ RtrCell(s)' = RtrCell(s) /\ InWork(s)' = InWork(s) /\ rtr'[s] = rtr[s]
               /\ cnt'[RtrCell(s)] = cnt[RtrCell(s)]
    <3>1. rtr'[s] = rtr[s] /\ RtrCell(s) # RtrCell(r) /\ RtrCell(s) \in Cells
      BY <1>0, <1>2, <2>1, Fields DEF RtrCell
    <3> QED  BY <1>2, <3>1 DEF RtrCell, InWork
  <2>2. \A c \in Cells : busy'[c] => c = RtrCell(c[1])' /\ InWork(c[1])'
    <3> SUFFICES ASSUME NEW c \in Cells, busy'[c] PROVE c = RtrCell(c[1])' /\ InWork(c[1])'
      OBVIOUS
    <3>0. c[1] \in Router
      BY DEF Cells
    <3>1. CASE c = RtrCell(r)
      <4>1. c[1] = r
        BY <3>1 DEF RtrCell
      <4>2. InWork(r)' /\ rtr'[r].last = rtr[r].last
        BY <1>5, <3>1
      <4> QED  BY <3>1, <4>1, <4>2 DEF RtrCell
    <3>2. CASE c # RtrCell(r)
      <4>1. busy[c]
        BY <1>2, <3>2
      <4>2. c = RtrCell(c[1]) /\ InWork(c[1])
        BY <4>1 DEF Steady, WorkMarked
      <4>3. c[1] # r
        BY <3>2, <4>2
      <4> QED  BY <2>1, <3>0, <4>2, <4>3
    <3> QED  BY <3>1, <3>2
  <2>3. ASSUME NEW s \in Router
        PROVE  /\ rtr'[s].pc \in {"head", "decode"} =>
                    rtr'[s].i < rtr'[s].size /\ cnt'[RtrCell(s)'] = rtr'[s].size - rtr'[s].i
               /\ rtr'[s].pc \in {"reset", "release"} => cnt'[RtrCell(s)'] = 0
    <3>1. CASE s # r
      BY <2>1, <3>1 DEF Steady, WorkMarked
    <3>2. CASE s = r
      <4>1. rtr'[r].pc \in {"head", "decode", "reset", "release"} => RtrCell(r)' = RtrCell(r)
        BY <1>5 DEF RtrCell
      <4> QED  BY <1>5, <3>2, <4>1
    <3> QED  BY <3>1, <3>2
  <2> QED  BY <2>2, <2>3 DEF WorkMarked
<1> QED  BY <1>6, <1>7, <1>8, <1>9 DEF Steady

LEMMA TimeKeepsSteady ==
  ASSUME Timely, Steady, Pause \/ Tick \/ UpdateClock \/ UNCHANGED vars
  PROVE  Steady'
<1>0. Typed /\ now \in Nat /\ real \in Nat /\ lst.at \in Nat /\ \A r \in Router : rtr[r].pos \in Nat /\ rtr[r].cur \in Nat
  BY Fields DEF Steady
<1>1. UNCHANGED <<source, buf, cnt, busy, lst, rtr, captured, dealt, decoded>>
  BY TimeLeaves
<1>2. /\ now' \in Nat /\ real' \in Nat /\ processing' \in BOOLEAN /\ now <= now' /\ real <= real'
      /\ now' <= real' /\ real' <= now' + MaxSkew
      /\ lst.pc # "idle" => real' <= lst.at + 1
      /\ \A r \in Router : now' <= rtr[r].pos + MaxLag
  <2>0. /\ now <= real /\ real <= now + MaxSkew /\ \A r \in Router : now <= rtr[r].pos + MaxLag
        /\ lst.pc # "idle" => real <= lst.at + 1
    BY DEF Steady, ListenerAhead, RoutersBehind
  <2>1. CASE Pause \/ UNCHANGED vars
    <3>1. now' = now /\ real' = real /\ processing' \in BOOLEAN
      BY <1>0, <2>1 DEF Pause, vars, Typed
    <3> QED  BY <1>0, <2>0, <3>1
  <2>2. CASE Tick
    <3>1. real < now + MaxSkew /\ real' = real + 1 /\ now' = now /\ processing' = processing
          /\ (lst.pc # "idle" => real < lst.at + MaxStall)
      BY <2>2 DEF Tick
    <3> QED  BY <1>0, <2>0, <3>1, Constants DEF Timely, Typed
  <2>3. CASE UpdateClock
    <3>1. now' = real /\ real' = real /\ processing' = processing /\ \A r \in Router : real <= rtr[r].pos + MaxLag
      BY <2>3 DEF UpdateClock
    <3> QED  BY <1>0, <2>0, <3>1, Constants DEF Typed
  <2> QED  BY <2>1, <2>2, <2>3
<1>3. Typed'
  BY <1>0, <1>1, <1>2 DEF Typed
<1>4. RoutersBehind'
  BY <1>0, <1>1, <1>2 DEF Steady, RoutersBehind
<1>5. ListenerAhead'
  <2>1. LstCell' = LstCell
    BY <1>1 DEF LstCell
  <2>2. /\ lst.at <= real + MaxDrift /\ (source = "ethernet" => lst.at <= real)
        /\ (source = "solarflare" => lst.at <= now)
        /\ (lst.pc # "idle" => lst.idx = ReadIndex(lst.at + 1))
        /\ (lst.pc \in {"body", "count"} => cnt[LstCell] < Cap)
    BY DEF Steady, ListenerAhead
  <2>3. /\ lst.at <= real' + MaxDrift /\ (source = "ethernet" => lst.at <= real')
        /\ (source = "solarflare" => lst.at <= now')
    BY <1>0, <1>2, <2>2, Constants
  <2> QED  BY <1>1, <1>2, <2>1, <2>2, <2>3 DEF ListenerAhead
<1>6. WorkMarked'
  BY <1>1 DEF Steady, WorkMarked, InWork, RtrCell
<1> QED  BY <1>3, <1>4, <1>5, <1>6 DEF Steady

LEMMA SteadyStep == ASSUME Timely, Steady, [Next]_vars PROVE Steady'
  BY ListenerKeepsSteady, RouteKeepsSteady, TimeKeepsSteady DEF Next

-----------------------------------------------------------------------------
(* Every packet comes out whole, once and in order. *)

LEMMA DeliveredInit == Init => Delivered
<1> SUFFICES ASSUME Init PROVE Delivered
  OBVIOUS
<1>1. Storing
  BY DEF Init, Storing
<1>2. ASSUME NEW q \in Router PROVE Whole(q) /\ \E B \in [Nat -> Nat] : Chain(q, B)
  <2> DEFINE B == [p \in Nat |-> 1]
  <2>0. rtr[q].pos = 1 /\ rtr[q].pc = "poll" /\ dealt[q] = <<>> /\ decoded[q] = <<>>
    BY DEF Init
  <2>1. Whole(q)
    BY <2>0 DEF Whole
  <2>2. B \in [Nat -> Nat] /\ \A p \in Nat : B[p] = 1
    OBVIOUS
  <2> HIDE DEF B
  <2>3. ASSUME NEW p \in Window(q) PROVE p \in Nat /\ cnt[Of(q, p)] = 0
    <3>1. p \in Nat
      BY DEF Window
    <3> QED  BY <3>1, OfType DEF Init
  <2>4. Linked(q, B)
    BY <2>2, <2>3 DEF Linked
  <2>5. Closed(q, B)
    BY <2>0, <2>2 DEF Closed
  <2>6. Filled(q, B)
    BY <2>3 DEF Filled
  <2>7. Reached(q, B)
    BY <2>0, <2>2 DEF Reached
  <2> QED  BY <2>1, <2>2, <2>4, <2>5, <2>6, <2>7 DEF Chain
<1> QED  BY <1>1, <1>2 DEF Delivered

LEMMA SkipType == ASSUME Typed, NEW q \in Router, NEW p \in Nat PROVE Skip(q, p) \in Nat
  BY Fields DEF Skip

LEMMA WindowType == ASSUME NEW q \in Router, NEW p \in Window(q) PROVE p \in Nat /\ Of(q, p) \in Cells
<1>1. p \in Nat
  BY DEF Window
<1> QED  BY <1>1, OfType

(* A step that leaves what is in a router's slots keeps its chain. *)
LEMMA ChainStays ==
  ASSUME Typed, NEW q \in Router, NEW B \in [Nat -> Nat], Chain(q, B),
         lst.at \in Nat, lst'.at \in Nat, lst.at <= lst'.at,
         rtr'[q].pos = rtr[q].pos, dealt'[q] = dealt[q], Len(decoded'[q]) = Len(decoded[q]),
         \A p \in Window(q) : cnt'[Of(q, p)] = cnt[Of(q, p)],
         \A p \in Window(q) : cnt[Of(q, p)] > 0 => Skip(q, p)' = Skip(q, p),
         \A p \in Window(q) : \A j \in Nat : j < cnt[Of(q, p)] =>
           buf'[Of(q, p)][Skip(q, p) + j] = buf[Of(q, p)][Skip(q, p) + j],
         rtr'[q].pc = "decode" => rtr'[q].head = dealt[q][B[rtr[q].pos]]
  PROVE  Chain(q, B)'
<1>0. Window(q)' = Window(q) /\ \A p \in Nat : Of(q, p)' = Of(q, p)
  BY DEF Window, Of
<1>1. Linked(q, B)'
  BY <1>0, WindowType DEF Chain, Linked
<1>2. Closed(q, B)'
  <2> SUFFICES ASSUME NEW p \in Nat, p >= lst'.at + 2 PROVE B[p] = Len(dealt'[q]) + 1
    BY DEF Closed
  <2> DEFINE a == lst.at
             b == lst'.at
  <2>1. a \in Nat /\ b \in Nat /\ a <= b /\ p >= b + 2
    OBVIOUS
  <2> HIDE DEF a, b
  <2>2. p >= a + 2
    BY <2>1
  <2> QED  BY <2>2 DEF Chain, Closed, a
<1>3. Filled(q, B)'
  <2> SUFFICES ASSUME NEW p \in Window(q), NEW j \in Nat, j < cnt'[Of(q, p)]
               PROVE  /\ B[p] + j \in DOMAIN dealt'[q]
                      /\ buf'[Of(q, p)][Skip(q, p)' + j] = [head |-> dealt'[q][B[p] + j], body |-> dealt'[q][B[p] + j]]
    BY <1>0 DEF Filled, Of
  <2>0. Of(q, p) \in Cells
    BY WindowType
  <2>1. j < cnt[Of(q, p)] /\ cnt[Of(q, p)] \in Nat
    <3>1. cnt[Of(q, p)] \in Nat
      BY <2>0, Constants DEF Typed
    <3>2. cnt'[Of(q, p)] = cnt[Of(q, p)]
      OBVIOUS
    <3> QED  BY <3>1, <3>2
  <2>2. cnt[Of(q, p)] > 0
    BY <2>1
  <2>3. Skip(q, p)' = Skip(q, p) /\ buf'[Of(q, p)][Skip(q, p) + j] = buf[Of(q, p)][Skip(q, p) + j]
    BY <2>1, <2>2
  <2>4. /\ B[p] + j \in DOMAIN dealt[q]
        /\ buf[Of(q, p)][Skip(q, p) + j] = [head |-> dealt[q][B[p] + j], body |-> dealt[q][B[p] + j]]
    BY <2>1 DEF Chain, Filled
  <2> QED  BY <2>3, <2>4
<1>4. Reached(q, B)'
  BY DEF Chain, Reached
<1> QED  BY <1>1, <1>2, <1>3, <1>4 DEF Chain

(* The slot the listener is at is not the one a router has begun to empty. *)
LEMMA FreshSlot ==
  ASSUME Timely, Steady, lst.pc # "idle", NEW q \in Router, NEW p \in Window(q), Of(q, p) = LstCell
  PROVE  Skip(q, p) = 0
<1>1. p = rtr[q].pos => Of(q, p) = RtrCell(q)
  BY RtrCellOf
<1>2. rtr[q].pc # "poll" => LstCell # RtrCell(q)
  BY LstCellOf
<1> QED  BY <1>1, <1>2 DEF Skip

(* The listener's steps but the last keep the chains of all routers. *)
LEMMA StoringKeepsChain ==
  ASSUME Timely, Steady, Listener, ~Deal, NEW q \in Router, NEW B \in [Nat -> Nat], Chain(q, B)
  PROVE  Chain(q, B)'
<1>0. Typed /\ ListenerAhead /\ lst.at \in Nat /\ LstCell \in Cells
  BY Fields DEF Steady
<1>1. UNCHANGED <<rtr, decoded, cnt, dealt>> /\ (~(WriteHead \/ WriteBody) => UNCHANGED buf)
  BY ListenerLeaves
<1>2. lst'.at \in Nat /\ lst.at <= lst'.at
  <2>1. CASE Capture
    BY <1>0, <2>1, CapturedAt
  <2>2. CASE ~Capture
    BY <1>0, <2>2, ListenerMoves
  <2> QED  BY <2>1, <2>2
<1>3. ASSUME NEW p \in Window(q), NEW j \in Nat, j < cnt[Of(q, p)]
      PROVE  buf'[Of(q, p)][Skip(q, p) + j] = buf[Of(q, p)][Skip(q, p) + j]
  <2>0. p \in Nat /\ Of(q, p) \in Cells /\ Skip(q, p) \in Nat
    BY <1>0, WindowType, SkipType
  <2>1. CASE WriteHead \/ WriteBody
    <3>1. lst.pc # "idle"
      BY <2>1 DEF WriteHead, WriteBody
    <3>2. Of(q, p) = LstCell => Skip(q, p) + j = j /\ j # cnt[LstCell]
      <4>1. Of(q, p) = LstCell => Skip(q, p) = 0
        BY <3>1, FreshSlot
      <4>2. cnt[Of(q, p)] \in Nat
        BY <1>0, <2>0, Constants DEF Typed
      <4> QED  BY <1>3, <4>1, <4>2
    <3>3. Skip(q, p) + j \in Nat
      BY <2>0
    <3>4. \A c \in Cells : \A k \in Nat : c # LstCell \/ k # cnt[LstCell] => buf'[c][k] = buf[c][k]
      BY <1>0, <2>1, BufferWritten
    <3> QED  BY <2>0, <3>2, <3>3, <3>4
  <2>2. CASE ~(WriteHead \/ WriteBody)
    BY <1>1, <2>2
  <2> QED  BY <2>1, <2>2
<1>4. \A p \in Window(q) : Skip(q, p)' = Skip(q, p)
  BY <1>1 DEF Skip
<1>5. rtr[q].pc = "decode" => rtr[q].head = dealt[q][B[rtr[q].pos]]
  BY DEF Chain, Reached
<1> QED  BY <1>0, <1>1, <1>2, <1>3, <1>4, <1>5, ChainStays

LEMMA Appended ==
  ASSUME NEW S, NEW s \in Seq(S), NEW e \in S
  PROVE  /\ Len(s) \in Nat /\ Len(Append(s, e)) = Len(s) + 1 /\ Append(s, e)[Len(s) + 1] = e
         /\ Len(s) + 1 \in DOMAIN Append(s, e)
         /\ \A k \in DOMAIN s : k \in DOMAIN Append(s, e) /\ Append(s, e)[k] = s[k] /\ k \in Nat /\ k <= Len(s)
         /\ \A k \in DOMAIN Append(s, e) : k \in DOMAIN s \/ k = Len(s) + 1
<1>1. /\ Len(s) \in Nat /\ DOMAIN s = 1 .. Len(s)
      /\ Append(s, e) \in Seq(S) /\ Len(Append(s, e)) = Len(s) + 1 /\ Append(s, e)[Len(s) + 1] = e
      /\ \A k \in 1 .. Len(s) : Append(s, e)[k] = s[k]
  BY AppendProperties, LenProperties
<1>2. DOMAIN Append(s, e) = 1 .. Len(s) + 1
  BY <1>1, LenProperties
<1> QED  BY <1>1, <1>2

LEMMA ListenerKeepsStoring == ASSUME Timely, Steady, Storing, Listener PROVE Storing'
<1>0. Typed /\ ListenerAhead
  BY DEF Steady
<1>1. UNCHANGED <<rtr, decoded>> /\ (~Deal => UNCHANGED cnt) /\ (~Capture => UNCHANGED captured)
  BY ListenerLeaves
<1>2. CASE Capture
  BY <1>0, <1>2, CapturedAt DEF Storing
<1>3. CASE Paused \/ Refuse \/ Deal
  <2>1. ~Capture
    BY <1>3 DEF Paused, Refuse, Deal, Capture
  <2> QED  BY <1>0, <1>3, <2>1, ListenerMoves DEF Storing
<1>4. CASE WriteHead \/ WriteBody
  <2>1. ~Capture /\ ~Deal
    BY <1>4 DEF WriteHead, WriteBody, Deal, Capture
  <2>2. /\ lst'.idx = lst.idx /\ lst'.next = lst.next
        /\ WriteHead => lst'.pc = "body"
        /\ WriteBody => lst.pc = "body" /\ lst'.pc = "count"
    BY <1>0, <1>4, <2>1, ListenerMoves
  <2>3. LstCell' = LstCell /\ cnt' = cnt /\ captured' = captured
    BY <1>1, <2>1, <2>2 DEF LstCell
  <2>4. /\ WriteHead => buf'[LstCell][cnt[LstCell]].head = captured
        /\ WriteBody => /\ buf'[LstCell][cnt[LstCell]].body = captured
                        /\ buf'[LstCell][cnt[LstCell]].head = buf[LstCell][cnt[LstCell]].head
    BY <1>0, <1>4, BufferWritten
  <2> QED  BY <1>4, <2>2, <2>3, <2>4 DEF Storing
<1> QED  BY <1>2, <1>3, <1>4 DEF Listener

(* What Deal changes, for the router the packet is for. *)
LEMMA DealIs ==
  ASSUME Typed, ListenerAhead, Deal
  PROVE  /\ cnt'[LstCell] = cnt[LstCell] + 1 /\ \A c \in Cells : c # LstCell => cnt'[c] = cnt[c]
         /\ dealt'[lst.next] = Append(dealt[lst.next], captured)
         /\ \A q \in Router : q # lst.next => dealt'[q] = dealt[q]
         /\ UNCHANGED <<buf, rtr, decoded>> /\ lst.pc = "count"
<1>0. lst.next \in Router /\ LstCell \in Cells /\ cnt \in [Cells -> 0 .. Cap] /\ dealt \in [Router -> Seq(Nat)]
  BY Fields DEF Typed
<1>1. lst.pc = "count" /\ cnt' = [cnt EXCEPT ![LstCell] = @ + 1] /\ dealt' = [dealt EXCEPT ![lst.next] = Append(@, captured)]
  BY DEF Deal
<1> QED  BY <1>0, <1>1 DEF Deal

LEMMA DealKeepsOthersChain ==
  ASSUME Timely, Steady, Deal, NEW q \in Router, q # lst.next, NEW B \in [Nat -> Nat], Chain(q, B)
  PROVE  Chain(q, B)'
<1>0. Typed /\ ListenerAhead /\ lst.at \in Nat /\ lst'.at \in Nat /\ lst.at <= lst'.at
  <2>1. lst'.at = lst.at
    BY ListenerMoves DEF Steady, Listener, Deal, Capture
  <2>2. Typed /\ ListenerAhead /\ lst.at \in Nat
    BY Fields DEF Steady
  <2> QED  BY <2>1, <2>2
<1>1. \A p \in Window(q) : Of(q, p) \in Cells /\ Of(q, p) # LstCell
  BY WindowType DEF Of, LstCell
<1>2. \A p \in Window(q) : Skip(q, p)' = Skip(q, p)
  BY <1>0, DealIs DEF Skip
<1>3. rtr[q].pc = "decode" => rtr[q].head = dealt[q][B[rtr[q].pos]]
  BY DEF Chain, Reached
<1>4. /\ \A c \in Cells : c # LstCell => cnt'[c] = cnt[c]
      /\ dealt'[q] = dealt[q] /\ buf' = buf /\ rtr' = rtr /\ decoded' = decoded
  BY <1>0, DealIs
<1>5. \A p \in Window(q) : cnt'[Of(q, p)] = cnt[Of(q, p)]
  BY <1>1, <1>4
<1> QED  BY <1>0, <1>2, <1>3, <1>4, <1>5, ChainStays

(* A packet dealt goes to the end of the run of its second.                *)
LEMMA DealMakesChain ==
  ASSUME Timely, Steady, Storing, Deal, NEW q \in Router, q = lst.next, NEW B \in [Nat -> Nat], Chain(q, B)
  PROVE  \E C \in [Nat -> Nat] : Chain(q, C)'
<1>0. /\ Typed /\ ListenerAhead /\ lst.at \in Nat /\ rtr[q].pos \in Nat /\ LstCell \in Cells
      /\ cnt[LstCell] \in Nat /\ captured \in Nat
  BY Fields DEF Steady
<1>s. dealt[q] \in Seq(Nat)
  BY DEF Steady, Typed
<1>1. /\ cnt'[LstCell] = cnt[LstCell] + 1 /\ \A c \in Cells : c # LstCell => cnt'[c] = cnt[c]
      /\ dealt'[q] = Append(dealt[q], captured)
      /\ UNCHANGED <<buf, rtr, decoded>> /\ lst.pc = "count"
  BY <1>0, DealIs
<1>p. PICK P \in Nat : P = lst.at + 1
  BY <1>0
<1>n. PICK n \in Nat : n = Len(dealt[q])
  BY <1>s, LenProperties
<1>2. LstCell = Of(q, P) /\ P \in Nat /\ P \in Window(q)
  <2>1. lst.pc # "idle"
    BY <1>1
  <2>2. LstCell = Of(lst.next, lst.at + 1) /\ now <= lst.at + 1
    BY <2>1, LstCellOf
  <2>3. lst.at + 1 \in Window(q)
    BY <2>2, AheadOfRouters
  <2> QED  BY <1>p, <2>2, <2>3
<1>3. lst'.at = lst.at
  BY <1>0, ListenerMoves DEF Listener, Deal, Capture
<1>4. /\ Len(dealt'[q]) = n + 1 /\ dealt'[q][n + 1] = captured /\ n \in Nat
      /\ \A k \in DOMAIN dealt[q] : k \in DOMAIN dealt'[q] /\ dealt'[q][k] = dealt[q][k]
      /\ n + 1 \in DOMAIN dealt'[q] /\ \A k \in DOMAIN dealt[q] : k <= n
  <2>1. /\ Len(dealt[q]) \in Nat /\ Len(dealt'[q]) = Len(dealt[q]) + 1 /\ dealt'[q][Len(dealt[q]) + 1] = captured
        /\ Len(dealt[q]) + 1 \in DOMAIN dealt'[q]
        /\ \A k \in DOMAIN dealt[q] : k \in DOMAIN dealt'[q] /\ dealt'[q][k] = dealt[q][k] /\ k \in Nat /\ k <= Len(dealt[q])
    <3>1. dealt'[q] = Append(dealt[q], captured)
      BY <1>1
    <3> DEFINE s == dealt[q]
               e == captured
    <3>2. s \in Seq(Nat) /\ e \in Nat
      BY <1>0, <1>s
    <3> HIDE DEF s, e
    <3>3. /\ Len(s) \in Nat /\ Len(Append(s, e)) = Len(s) + 1 /\ Append(s, e)[Len(s) + 1] = e
          /\ Len(s) + 1 \in DOMAIN Append(s, e)
          /\ \A k \in DOMAIN s : k \in DOMAIN Append(s, e) /\ Append(s, e)[k] = s[k] /\ k \in Nat /\ k <= Len(s)
      BY <3>2, Appended
    <3> QED  BY <3>1, <3>3 DEF s, e
  <2> QED  BY <1>n, <2>1
<1>5. PICK C \in [Nat -> Nat] : \A p \in Nat : C[p] = IF p > P THEN B[p] + 1 ELSE B[p]
  <2> DEFINE D == [p \in Nat |-> IF p > P THEN B[p] + 1 ELSE B[p]]
  <2>1. D \in [Nat -> Nat] /\ \A p \in Nat : D[p] = IF p > P THEN B[p] + 1 ELSE B[p]
    OBVIOUS
  <2> QED  BY <2>1
<1>6. Window(q)' = Window(q) /\ (\A p \in Nat : Of(q, p)' = Of(q, p)) /\ \A p \in Nat : Skip(q, p)' = Skip(q, p)
  BY <1>1 DEF Window, Of, Skip
<1>7. \A p \in Nat : p > P => B[p] = n + 1
  <2> SUFFICES ASSUME NEW p \in Nat, p > P PROVE B[p] = n + 1
    OBVIOUS
  <2>1. p >= lst.at + 2
    BY <1>0, <1>p
  <2> QED  BY <1>n, <2>1 DEF Chain, Closed
<1>8. \A p \in Window(q) : /\ p \in Nat /\ p + 1 \in Nat /\ Of(q, p) \in Cells /\ cnt[Of(q, p)] \in Nat
                           /\ cnt'[Of(q, p)] = IF p = P THEN cnt[Of(q, p)] + 1 ELSE cnt[Of(q, p)]
  <2> SUFFICES ASSUME NEW p \in Window(q)
               PROVE  /\ p \in Nat /\ Of(q, p) \in Cells /\ cnt[Of(q, p)] \in Nat
                      /\ cnt'[Of(q, p)] = IF p = P THEN cnt[Of(q, p)] + 1 ELSE cnt[Of(q, p)]
    OBVIOUS
  <2>1. p \in Nat /\ Of(q, p) \in Cells
    BY WindowType
  <2>2. cnt[Of(q, p)] \in Nat
    BY <2>1, Constants DEF Steady, Typed
  <2>3. ASSUME Of(q, p) = LstCell PROVE p = P
    <3>1. ReadIndex(p) = ReadIndex(P)
      BY <1>2, <2>3 DEF Of
    <3> QED  BY <1>0, <1>2, <3>1, OwnSlots
  <2>4. CASE p = P
    BY <1>1, <1>2, <2>1, <2>2, <2>4
  <2>5. CASE p # P
    BY <1>1, <2>1, <2>2, <2>3, <2>5
  <2> QED  BY <2>4, <2>5
<1>9. B[P + 1] = B[P] + cnt[LstCell] /\ B[P + 1] = n + 1 /\ B[P] \in Nat
  <2>1. P + 1 \in Nat /\ P + 1 > P
    OBVIOUS
  <2>2. B[P + 1] = n + 1
    BY <1>7, <2>1
  <2> QED  BY <1>2, <2>2 DEF Chain, Linked
<1>10. Linked(q, C)'
  <2> SUFFICES ASSUME NEW p \in Window(q) PROVE C[p + 1] = C[p] + cnt'[Of(q, p)]
    BY <1>6, <1>8 DEF Linked
  <2>0. /\ p \in Nat /\ p + 1 \in Nat /\ cnt[Of(q, p)] \in Nat
        /\ cnt'[Of(q, p)] = IF p = P THEN cnt[Of(q, p)] + 1 ELSE cnt[Of(q, p)]
    BY <1>8
  <2>1. B[p + 1] = B[p] + cnt[Of(q, p)] /\ B[p] \in Nat /\ B[p + 1] \in Nat
    BY <2>0 DEF Chain, Linked
  <2>2. C[p] = (IF p > P THEN B[p] + 1 ELSE B[p]) /\ C[p + 1] = (IF p + 1 > P THEN B[p + 1] + 1 ELSE B[p + 1])
    BY <1>5, <2>0
  <2> QED  BY <2>0, <2>1, <2>2
<1>11. Closed(q, C)'
  <2> SUFFICES ASSUME NEW p \in Nat, p >= lst'.at + 2 PROVE C[p] = Len(dealt'[q]) + 1
    BY DEF Closed
  <2>1. p > P
    BY <1>0, <1>3, <1>p
  <2> QED  BY <1>4, <1>5, <1>7, <2>1
<1>12. Filled(q, C)'
  <2>a. buf' = buf /\ Window(q)' = Window(q) /\ \A p \in Window(q) : Skip(q, p)' = Skip(q, p)
    BY <1>1, <1>6, <1>8
  <2> SUFFICES ASSUME NEW p \in Window(q), NEW j \in Nat, j < cnt'[Of(q, p)]
               PROVE  /\ C[p] + j \in DOMAIN dealt'[q]
                      /\ buf[Of(q, p)][Skip(q, p) + j] = [head |-> dealt'[q][C[p] + j], body |-> dealt'[q][C[p] + j]]
    BY <2>a DEF Filled, Of
  <2>0. /\ p \in Nat /\ cnt[Of(q, p)] \in Nat /\ B[p] \in Nat
        /\ cnt'[Of(q, p)] = IF p = P THEN cnt[Of(q, p)] + 1 ELSE cnt[Of(q, p)]
    BY <1>8
  <2>1. \A k \in Nat : k < cnt[Of(q, p)] =>
          /\ B[p] + k \in DOMAIN dealt[q]
          /\ buf[Of(q, p)][Skip(q, p) + k] = [head |-> dealt[q][B[p] + k], body |-> dealt[q][B[p] + k]]
    BY DEF Chain, Filled
  <2>2. CASE p > P
    <3>1. j < cnt[Of(q, p)]
      BY <2>0, <2>2
    <3>2. 0 < cnt[Of(q, p)]
      BY <2>0, <3>1
    <3>3. B[p] + 0 \in DOMAIN dealt[q]
      BY <2>1, <3>2
    <3>4. B[p] + 0 = n + 1
      BY <1>7, <2>0, <2>2
    <3>5. B[p] + 0 <= n /\ n \in Nat
      BY <1>4, <3>3
    <3> QED  BY <3>4, <3>5
  <2>3. CASE p <= P
    <3>1. C[p] = B[p]
      BY <1>5, <2>0, <2>3
    <3>2. CASE j < cnt[Of(q, p)]
      <4>1. /\ B[p] + j \in DOMAIN dealt[q]
            /\ buf[Of(q, p)][Skip(q, p) + j] = [head |-> dealt[q][B[p] + j], body |-> dealt[q][B[p] + j]]
        BY <2>1, <3>2, Zenon
      <4>2. B[p] + j \in DOMAIN dealt'[q] /\ dealt'[q][B[p] + j] = dealt[q][B[p] + j]
        BY <1>4, <4>1, Zenon
      <4> QED  BY <3>1, <4>1, <4>2, Zenon
    <3>3. CASE ~(j < cnt[Of(q, p)])
      <4>1. p = P /\ j = cnt[LstCell]
        BY <1>2, <2>0, <3>3
      <4>2. C[p] + j = n + 1
        BY <1>4, <1>9, <3>1, <4>1
      <4>3. Skip(q, p) = 0
        BY <1>1, <1>2, <4>1, FreshSlot
      <4>4. buf[LstCell][j] = [head |-> captured, body |-> captured]
        <5>1. buf[LstCell][j].head = captured /\ buf[LstCell][j].body = captured
          BY <1>1, <4>1 DEF Storing
        <5>2. j < Cap
          BY <1>1, <4>1 DEF Steady, ListenerAhead
        <5>3. j \in 0 .. Buffers - 1
          BY <5>2, Constants
        <5>4. buf[LstCell][j] \in [head : Nat, body : Nat]
          <6>1. buf \in [Cells -> [0 .. Buffers - 1 -> [head : Nat, body : Nat]]]
            BY <1>0 DEF Typed
          <6>2. buf[LstCell] \in [0 .. Buffers - 1 -> [head : Nat, body : Nat]]
            BY <1>0, <6>1
          <6> QED  BY <5>3, <6>2
        <5> QED  BY <5>1, <5>4
      <4>5. Skip(q, p) + j = j /\ Of(q, p) = LstCell
        BY <1>2, <4>1, <4>3
      <4> QED  BY <1>4, <4>2, <4>4, <4>5
    <3> QED  BY <3>2, <3>3
  <2> QED  BY <2>0, <2>2, <2>3
<1>13. Reached(q, C)'
  <2>1. rtr[q].pos <= P /\ rtr[q].pos \in Window(q)
    <3>1. rtr[q].pos <= P
      BY <1>2 DEF Window
    <3> QED  BY <3>1, RtrCellOf
  <2>2. C[rtr[q].pos] = B[rtr[q].pos]
    BY <1>0, <1>2, <1>5, <2>1
  <2>3. /\ B[rtr[q].pos] = Len(decoded[q]) + 1
        /\ rtr[q].pc = "decode" => rtr[q].head = dealt[q][B[rtr[q].pos]]
    BY DEF Chain, Reached
  <2>4. rtr[q].pc = "decode" => B[rtr[q].pos] \in DOMAIN dealt[q]
    <3> SUFFICES ASSUME rtr[q].pc = "decode" PROVE B[rtr[q].pos] \in DOMAIN dealt[q]
      OBVIOUS
    <3>1. rtr[q].i < rtr[q].size /\ cnt[RtrCell(q)] = rtr[q].size - rtr[q].i /\ RtrCell(q) = Of(q, rtr[q].pos)
      BY RtrCellOf DEF Steady, WorkMarked
    <3>2. rtr[q].i \in Nat /\ rtr[q].size \in Nat
      BY <1>0, Fields
    <3>3. 0 < cnt[Of(q, rtr[q].pos)]
      BY <3>1, <3>2
    <3>4. B[rtr[q].pos] + 0 \in DOMAIN dealt[q]
      BY <2>1, <3>3 DEF Chain, Filled
    <3> QED  BY <1>0, <3>4
  <2> QED  BY <1>1, <1>4, <2>2, <2>3, <2>4 DEF Reached
<1> QED  BY <1>5, <1>10, <1>11, <1>12, <1>13 DEF Chain

LEMMA ListenerDelivers == ASSUME Timely, Steady, Delivered, Listener PROVE Delivered'
<1>0. /\ Typed /\ ListenerAhead /\ Storing /\ dealt \in [Router -> Seq(Nat)] /\ captured \in Nat
      /\ decoded' = decoded /\ (~Deal => dealt' = dealt)
  BY ListenerLeaves DEF Steady, Delivered, Typed
<1>1. Storing'
  BY <1>0, ListenerKeepsStoring
<1>2. ASSUME NEW q \in Router PROVE Whole(q)'
  <2>1. Whole(q)
    BY DEF Delivered
  <2>2. \A k \in DOMAIN dealt[q] : k \in DOMAIN dealt'[q] /\ dealt'[q][k] = dealt[q][k]
    <3>1. CASE Deal /\ q = lst.next
      <4>1. dealt'[q] = Append(dealt[q], captured)
        BY <1>0, <3>1, DealIs
      <4> QED  BY <1>0, <4>1, AppendProperties, LenProperties
    <3>2. CASE ~(Deal /\ q = lst.next)
      <4>1. dealt'[q] = dealt[q]
        BY <1>0, <3>2, DealIs
      <4> QED  BY <4>1
    <3> QED  BY <3>1, <3>2
  <2> QED  BY <1>0, <2>1, <2>2 DEF Whole
<1>3. ASSUME NEW q \in Router PROVE (\E B \in [Nat -> Nat] : Chain(q, B))'
  <2>1. PICK B \in [Nat -> Nat] : Chain(q, B)
    BY DEF Delivered
  <2>2. CASE ~Deal
    BY <2>1, <2>2, StoringKeepsChain
  <2>3. CASE Deal /\ q # lst.next
    BY <2>1, <2>3, DealKeepsOthersChain
  <2>4. CASE Deal /\ q = lst.next
    BY <1>0, <2>1, <2>4, DealMakesChain
  <2> QED  BY <2>2, <2>3, <2>4
<1> QED  BY <1>1, <1>2, <1>3 DEF Delivered

(* What a router is emptying. *)
LEMMA AtWork ==
  ASSUME Steady, NEW r \in Router, rtr[r].pc \in {"head", "decode"}
  PROVE  /\ rtr[r].i \in Nat /\ rtr[r].size \in Nat /\ rtr[r].i < rtr[r].size /\ rtr[r].i < Cap
         /\ cnt[RtrCell(r)] = rtr[r].size - rtr[r].i /\ cnt[RtrCell(r)] \in Nat /\ cnt[RtrCell(r)] > 0
<1>1. rtr[r].i < rtr[r].size /\ cnt[RtrCell(r)] = rtr[r].size - rtr[r].i
  BY DEF Steady, WorkMarked
<1>2. rtr[r].i \in Nat /\ rtr[r].size \in 0 .. Cap
  BY DEF Steady, Typed, RouterState
<1> QED  BY <1>1, <1>2, Constants

(* The packet it takes next is the one its chain says. *)
LEMMA FirstLeft ==
  ASSUME Steady, NEW r \in Router, rtr[r].pc \in {"head", "decode"}, NEW B \in [Nat -> Nat], Chain(r, B)
  PROVE  /\ B[rtr[r].pos] \in DOMAIN dealt[r]
         /\ buf[RtrCell(r)][rtr[r].i] = [head |-> dealt[r][B[rtr[r].pos]], body |-> dealt[r][B[rtr[r].pos]]]
<1>1. RtrCell(r) = Of(r, rtr[r].pos) /\ rtr[r].pos \in Window(r) /\ rtr[r].pos \in Nat
  BY RtrCellOf, Fields DEF Steady
<1>2. cnt[Of(r, rtr[r].pos)] > 0 /\ rtr[r].i \in Nat
  BY <1>1, AtWork
<1>3. Skip(r, rtr[r].pos) = rtr[r].i
  BY DEF Skip
<1>4. \A j \in Nat : j < cnt[Of(r, rtr[r].pos)] =>
        /\ B[rtr[r].pos] + j \in DOMAIN dealt[r]
        /\ buf[Of(r, rtr[r].pos)][rtr[r].i + j] =
             [head |-> dealt[r][B[rtr[r].pos] + j], body |-> dealt[r][B[rtr[r].pos] + j]]
  BY <1>1, <1>3 DEF Chain, Filled
<1>5. B[rtr[r].pos] + 0 = B[rtr[r].pos] /\ rtr[r].i + 0 = rtr[r].i
  BY <1>1, <1>2
<1>6. 0 < cnt[Of(r, rtr[r].pos)]
  BY <1>2
<1> QED  BY <1>1, <1>4, <1>5, <1>6

LEMMA RouteKeepsOthersChain ==
  ASSUME Steady, NEW r \in Router, Route(r), NEW q \in Router, q # r, NEW B \in [Nat -> Nat], Chain(q, B)
  PROVE  Chain(q, B)'
<1>0. Typed /\ lst.at \in Nat
  BY Fields DEF Steady
<1>1. lst' = lst /\ buf' = buf /\ dealt' = dealt
  BY RouteLeaves
<1>2. /\ rtr'[q] = rtr[q] /\ decoded'[q] = decoded[q]
      /\ \A c \in Cells : c # RtrCell(r) => cnt'[c] = cnt[c]
  BY <1>0, OthersStay
<1>3. \A p \in Window(q) : cnt'[Of(q, p)] = cnt[Of(q, p)]
  <2>1. \A p \in Window(q) : Of(q, p) \in Cells /\ Of(q, p) # RtrCell(r)
    BY WindowType DEF Of, RtrCell
  <2> QED  BY <1>2, <2>1
<1>4. \A p \in Window(q) : Skip(q, p)' = Skip(q, p)
  BY <1>2 DEF Skip
<1>5. lst'.at \in Nat /\ lst.at <= lst'.at
  BY <1>0, <1>1
<1>6. rtr[q].pc = "decode" => rtr[q].head = dealt[q][B[rtr[q].pos]]
  BY DEF Chain, Reached
<1> QED  BY <1>0, <1>1, <1>2, <1>3, <1>4, <1>5, <1>6, ChainStays

(* Between two packets nothing in the slots changes. *)
LEMMA QuietKeepsChain ==
  ASSUME Steady, NEW r \in Router, Route(r), ~Decode(r), ~Release(r), NEW B \in [Nat -> Nat], Chain(r, B)
  PROVE  Chain(r, B)'
<1>0. Typed /\ lst.at \in Nat /\ RtrCell(r) \in Cells /\ rtr[r].pos \in Nat
  BY Fields DEF Steady
<1>1. lst' = lst /\ buf' = buf /\ dealt' = dealt
  BY RouteLeaves
<1>2. \A c \in Cells : cnt'[c] = cnt[c]
  <2>1. CASE Reset(r)
    <3>1. \A c \in Cells : c # RtrCell(r) => cnt'[c] = cnt[c]
      BY <1>0, OthersStay
    <3>2. cnt'[RtrCell(r)] = 0 /\ rtr[r].pc = "reset"
      BY <1>0, <2>1, ResetIs
    <3>3. cnt[RtrCell(r)] = 0
      BY <3>2 DEF Steady, WorkMarked
    <3> QED  BY <3>1, <3>2, <3>3
  <2>2. CASE ~Reset(r)
    BY <2>2, RouteLeaves
  <2> QED  BY <2>1, <2>2
<1>3. /\ rtr'[r].pos = rtr[r].pos /\ decoded' = decoded
      /\ rtr[r].pc \in {"head", "decode"} => rtr'[r].pc = "decode" /\ rtr'[r].i = rtr[r].i
      /\ rtr[r].pc \notin {"head", "decode"} => rtr'[r].pc # "decode" /\ (rtr'[r].pc = "head" => rtr'[r].i = 0)
      /\ rtr'[r].pc = "decode" => rtr[r].pc = "head" /\ rtr'[r].head = buf[RtrCell(r)][rtr[r].i].head
  <2>1. CASE Poll(r)
    BY <1>0, <2>1, PollIs
  <2>2. CASE SetBusy(r)
    BY <1>0, <2>2, SetBusyIs
  <2>3. CASE Snapshot(r)
    BY <1>0, <2>3, SnapshotIs
  <2>4. CASE ReadHead(r)
    <3>1. rtr[r].pc = "head"
      BY <2>4 DEF ReadHead
    <3>2. rtr[r].i < Cap
      BY <3>1, AtWork
    <3> QED  BY <1>0, <2>4, <3>2, ReadHeadIs
  <2>5. CASE Reset(r)
    BY <1>0, <2>5, ResetIs
  <2> QED  BY <2>1, <2>2, <2>3, <2>4, <2>5 DEF Route
<1>4. \A p \in Window(r) : cnt'[Of(r, p)] = cnt[Of(r, p)]
  BY <1>2, WindowType
<1>5. \A p \in Window(r) : Skip(r, p)' = Skip(r, p)
  BY <1>3 DEF Skip
<1>6. rtr'[r].pc = "decode" => rtr'[r].head = dealt[r][B[rtr[r].pos]]
  <2> SUFFICES ASSUME rtr'[r].pc = "decode" PROVE rtr'[r].head = dealt[r][B[rtr[r].pos]]
    OBVIOUS
  <2>1. buf[RtrCell(r)][rtr[r].i] = [head |-> dealt[r][B[rtr[r].pos]], body |-> dealt[r][B[rtr[r].pos]]]
    BY <1>3, FirstLeft
  <2> QED  BY <1>3, <2>1
<1>7. lst'.at \in Nat /\ lst.at <= lst'.at
  BY <1>0, <1>1
<1> QED  BY <1>0, <1>1, <1>3, <1>4, <1>5, <1>6, <1>7, ChainStays

LEMMA DecodeMakesChain ==
  ASSUME Steady, Steady', NEW r \in Router, Decode(r), NEW B \in [Nat -> Nat], Chain(r, B)
  PROVE  \E C \in [Nat -> Nat] : Chain(r, C)'
<1>0. Typed /\ lst.at \in Nat /\ RtrCell(r) \in Cells
  BY Fields DEF Steady
<1>a. rtr[r].pc = "decode" /\ Route(r)
  BY DEF Decode, Route
<1>b. /\ rtr[r].i \in Nat /\ rtr[r].size \in Nat /\ rtr[r].i < rtr[r].size /\ rtr[r].i < Cap
      /\ cnt[RtrCell(r)] = rtr[r].size - rtr[r].i /\ cnt[RtrCell(r)] \in Nat /\ cnt[RtrCell(r)] > 0
  BY <1>a, AtWork
<1>p. PICK P \in Nat : P = rtr[r].pos
  BY Fields DEF Steady
<1>k. PICK k \in Nat : k = cnt[RtrCell(r)] /\ k > 0
  BY <1>b
<1>1. /\ cnt'[RtrCell(r)] = k - 1 /\ \A c \in Cells : c # RtrCell(r) => cnt'[c] = cnt[c]
      /\ Len(decoded'[r]) = Len(decoded[r]) + 1
      /\ rtr'[r].pc = (IF rtr[r].i + 1 < rtr[r].size THEN "head" ELSE "reset")
      /\ rtr'[r].i = rtr[r].i + 1 /\ rtr'[r].pos = P
  <2>1. /\ cnt'[RtrCell(r)] = cnt[RtrCell(r)] - 1
        /\ rtr'[r].pc = (IF rtr[r].i + 1 < rtr[r].size THEN "head" ELSE "reset")
        /\ rtr'[r].i = rtr[r].i + 1 /\ rtr'[r].pos = rtr[r].pos
    BY <1>0, <1>b, DecodeIs
  <2>2. \A c \in Cells : c # RtrCell(r) => cnt'[c] = cnt[c]
    BY <1>0, <1>a, OthersStay
  <2>3. Len(decoded'[r]) = Len(decoded[r]) + 1
    <3> DEFINE x == [head |-> rtr[r].head, body |-> buf[RtrCell(r)][rtr[r].i].body, min |-> rtr[r].min]
    <3>1. x \in Packet /\ decoded'[r] = Append(decoded[r], x)
      BY <1>0, <1>b, DecodeIs
    <3>2. decoded[r] \in Seq(Packet)
      BY <1>0 DEF Typed
    <3> HIDE DEF x
    <3> QED  BY <3>1, <3>2, Appended
  <2> QED  BY <1>k, <1>p, <2>1, <2>2, <2>3
<1>2. lst' = lst /\ buf' = buf /\ dealt' = dealt
  BY <1>a, RouteLeaves
<1>3. RtrCell(r) = Of(r, P) /\ P \in Window(r)
  BY <1>p, RtrCellOf
<1>4. PICK C \in [Nat -> Nat] : \A p \in Nat : C[p] = IF p = P THEN B[p] + 1 ELSE B[p]
  <2> DEFINE D == [p \in Nat |-> IF p = P THEN B[p] + 1 ELSE B[p]]
  <2>1. D \in [Nat -> Nat] /\ \A p \in Nat : D[p] = IF p = P THEN B[p] + 1 ELSE B[p]
    OBVIOUS
  <2> QED  BY <2>1
<1>5. Window(r)' = Window(r) /\ \A p \in Nat : Of(r, p)' = Of(r, p)
  BY <1>1, <1>p DEF Window, Of
<1>6. \A p \in Window(r) :
        /\ p \in Nat /\ p + 1 \in Nat /\ P <= p /\ cnt[Of(r, p)] \in Nat
        /\ p = P => cnt[Of(r, p)] = k /\ cnt'[Of(r, p)] = k - 1
        /\ p # P => cnt'[Of(r, p)] = cnt[Of(r, p)]
  <2> SUFFICES ASSUME NEW p \in Window(r)
               PROVE  /\ p \in Nat /\ p + 1 \in Nat /\ P <= p /\ cnt[Of(r, p)] \in Nat
                      /\ p = P => cnt[Of(r, p)] = k /\ cnt'[Of(r, p)] = k - 1
                      /\ p # P => cnt'[Of(r, p)] = cnt[Of(r, p)]
    OBVIOUS
  <2>1. p \in Nat /\ p + 1 \in Nat /\ P <= p
    BY <1>p DEF Window
  <2>2. Of(r, p) \in Cells
    BY <2>1, OfType
  <2>3. cnt[Of(r, p)] \in Nat
    BY <1>0, <2>2, Constants DEF Typed
  <2>4. p # P => Of(r, p) # RtrCell(r)
    <3> SUFFICES ASSUME Of(r, p) = RtrCell(r) PROVE p = P
      OBVIOUS
    <3>1. ReadIndex(p) = ReadIndex(P)
      BY <1>3 DEF Of
    <3> QED  BY <1>0, <1>3, <3>1, OwnSlots
  <2> QED  BY <1>1, <1>3, <1>k, <2>1, <2>2, <2>3, <2>4
<1>7. \A p \in Window(r) : \A j \in Nat : j < cnt[Of(r, p)] =>
        /\ B[p] + j \in DOMAIN dealt[r]
        /\ buf[Of(r, p)][Skip(r, p) + j] = [head |-> dealt[r][B[p] + j], body |-> dealt[r][B[p] + j]]
  BY DEF Chain, Filled
<1>8. Linked(r, C)'
  <2> SUFFICES ASSUME NEW p \in Window(r) PROVE C[p + 1] = C[p] + cnt'[Of(r, p)]
    BY <1>5, <1>6 DEF Linked
  <2>1. B[p + 1] = B[p] + cnt[Of(r, p)]
    BY DEF Chain, Linked
  <2>2. /\ p \in Nat /\ p + 1 \in Nat /\ P <= p /\ cnt[Of(r, p)] \in Nat
        /\ p = P => cnt[Of(r, p)] = k /\ cnt'[Of(r, p)] = k - 1
        /\ p # P => cnt'[Of(r, p)] = cnt[Of(r, p)]
    BY <1>6
  <2>3. B[p] \in Nat /\ C[p] = (IF p = P THEN B[p] + 1 ELSE B[p]) /\ C[p + 1] = B[p + 1]
    BY <1>4, <2>2
  <2> QED  BY <2>1, <2>2, <2>3
<1>9. Closed(r, C)'
  <2> SUFFICES ASSUME NEW p \in Nat, p >= lst'.at + 2 PROVE C[p] = Len(dealt'[r]) + 1
    BY DEF Closed
  <2>1. B[p] = Len(dealt[r]) + 1
    BY <1>2 DEF Chain, Closed
  <2>2. p # P
    <3> SUFFICES ASSUME p = P PROVE FALSE
      OBVIOUS
    <3>1. B[P] \in DOMAIN dealt[r]
      BY <1>a, <1>p, FirstLeft
    <3>2. PICK n \in Nat : n = Len(dealt[r]) /\ DOMAIN dealt[r] = 1 .. n
      BY <1>0, LenProperties DEF Typed
    <3>3. B[P] = n + 1
      BY <2>1, <3>2
    <3>4. B[P] \in 1 .. n
      BY <3>1, <3>2
    <3> QED  BY <3>3, <3>4
  <2> QED  BY <1>2, <1>4, <2>1, <2>2
<1>10. Filled(r, C)'
  <2> SUFFICES ASSUME NEW p \in Window(r), NEW j \in Nat, j < cnt'[Of(r, p)]
               PROVE  /\ C[p] + j \in DOMAIN dealt[r]
                      /\ buf[Of(r, p)][Skip(r, p)' + j] = [head |-> dealt[r][C[p] + j], body |-> dealt[r][C[p] + j]]
    BY <1>2, <1>5 DEF Filled, Of
  <2>1. /\ p \in Nat /\ P <= p /\ cnt[Of(r, p)] \in Nat /\ B[p] \in Nat
        /\ p = P => cnt[Of(r, p)] = k /\ cnt'[Of(r, p)] = k - 1
        /\ p # P => cnt'[Of(r, p)] = cnt[Of(r, p)]
        /\ C[p] = IF p = P THEN B[p] + 1 ELSE B[p]
    BY <1>4, <1>6
  <2>2. CASE p # P
    <3>1. Skip(r, p)' = Skip(r, p) /\ C[p] = B[p] /\ j < cnt[Of(r, p)]
      BY <1>1, <1>p, <2>1, <2>2 DEF Skip
    <3> QED  BY <1>7, <3>1
  <2>3. CASE p = P
    <3>1. j + 1 \in Nat /\ j + 1 < cnt[Of(r, p)] /\ rtr[r].i + 1 < rtr[r].size
      <4>1. j < k - 1 /\ k = rtr[r].size - rtr[r].i
        BY <1>b, <1>k, <2>1, <2>3
      <4>2. j + 1 \in Nat /\ j + 1 < cnt[Of(r, p)]
        BY <1>k, <2>1, <2>3, <4>1
      <4> QED  BY <1>b, <1>k, <4>1, <4>2
    <3>2. Skip(r, p)' = rtr[r].i + 1 /\ Skip(r, p) = rtr[r].i
      BY <1>1, <1>a, <1>p, <2>3, <3>1 DEF Skip
    <3>3. C[p] + j = B[p] + (j + 1) /\ (rtr[r].i + 1) + j = rtr[r].i + (j + 1)
      BY <1>b, <2>1, <2>3
    <3>4. /\ B[p] + (j + 1) \in DOMAIN dealt[r]
          /\ buf[Of(r, p)][rtr[r].i + (j + 1)] =
               [head |-> dealt[r][B[p] + (j + 1)], body |-> dealt[r][B[p] + (j + 1)]]
      BY <1>7, <3>1, <3>2
    <3> QED  BY <3>2, <3>3, <3>4
  <2> QED  BY <2>2, <2>3
<1>11. Reached(r, C)'
  <2>1. B[P] = Len(decoded[r]) + 1 /\ B[P] \in Nat
    BY <1>p DEF Chain, Reached
  <2>2. C[P] = Len(decoded'[r]) + 1
    <3>1. C[P] = B[P] + 1 /\ Len(decoded[r]) \in Nat
      BY <1>0, <1>4, Fields
    <3> QED  BY <1>1, <2>1, <3>1
  <2>3. rtr'[r].pc # "decode"
    BY <1>1
  <2> QED  BY <1>1, <2>2, <2>3 DEF Reached
<1> QED  BY <1>4, <1>8, <1>9, <1>10, <1>11 DEF Chain

(* The slot left behind is empty, and becomes the one of a second that the *)
(* listener has not come to.                                               *)
LEMMA ReleaseKeepsChain ==
  ASSUME Timely, Steady, NEW r \in Router, Release(r), NEW B \in [Nat -> Nat], Chain(r, B)
  PROVE  Chain(r, B)'
<1>0. Typed /\ lst.at \in Nat /\ real \in Nat /\ now \in Nat
  BY Fields DEF Steady
<1>p. PICK P \in Nat : P = rtr[r].pos
  BY Fields DEF Steady
<1>1. /\ cnt' = cnt /\ decoded' = decoded /\ rtr[r].pc = "release"
      /\ rtr'[r].pos = P + 1 /\ rtr'[r].pc \in {"poll", "visit"}
  BY <1>0, <1>p, ReleaseIs
<1>2. lst' = lst /\ buf' = buf /\ dealt' = dealt
  BY RouteLeaves DEF Route
<1>3. /\ RtrCell(r) = Of(r, P) /\ P \in Window(r) /\ cnt[Of(r, P)] = 0
  BY <1>1, <1>p, RtrCellOf DEF Steady, WorkMarked
<1>4. Of(r, P + Slots) = Of(r, P)
  BY SameSlot DEF Of
<1>5. lst.at + 2 <= P + Slots
  <2>1. now <= P + MaxLag /\ real <= now + MaxSkew /\ lst.at <= real + MaxDrift
    BY <1>p DEF Steady, RoutersBehind, ListenerAhead
  <2> QED  BY <1>0, <2>1, Constants DEF Timely
<1>6. \A p \in Window(r)' :
        /\ p \in Nat /\ p # P
        /\ p \in Window(r) \/ p = P + Slots
  BY <1>1, <1>p, Constants DEF Window
<1>7. \A p \in Window(r)' : Of(r, p)' = Of(r, p) /\ Skip(r, p)' = 0 /\ (p # P => Skip(r, p) = 0)
  BY <1>1 DEF Of, Skip
<1>8. Linked(r, B)'
  <2> SUFFICES ASSUME NEW p \in Window(r)' PROVE B[p + 1] = B[p] + cnt[Of(r, p)]
    BY <1>1, <1>7 DEF Linked
  <2>1. CASE p \in Window(r)
    BY <2>1 DEF Chain, Linked
  <2>2. CASE p = P + Slots
    <3>1. p \in Nat /\ p + 1 \in Nat /\ p >= lst.at + 2 /\ p + 1 >= lst.at + 2
      BY <1>0, <1>5, <2>2, Constants
    <3>2. B[p + 1] = B[p] /\ B[p] \in Nat
      BY <3>1 DEF Chain, Closed
    <3>3. cnt[Of(r, p)] = 0
      BY <1>3, <1>4, <2>2
    <3> QED  BY <3>2, <3>3
  <2> QED  BY <1>6, <2>1, <2>2
<1>9. Closed(r, B)'
  BY <1>2 DEF Chain, Closed
<1>10. Filled(r, B)'
  <2> SUFFICES ASSUME NEW p \in Window(r)', NEW j \in Nat, j < cnt[Of(r, p)]
               PROVE  /\ B[p] + j \in DOMAIN dealt[r]
                      /\ buf[Of(r, p)][Skip(r, p)' + j] = [head |-> dealt[r][B[p] + j], body |-> dealt[r][B[p] + j]]
    BY <1>1, <1>2, <1>7 DEF Filled
  <2>1. p \in Window(r)
    <3>1. p = P + Slots => cnt[Of(r, p)] = 0
      BY <1>3, <1>4
    <3>2. ~(j < 0)
      OBVIOUS
    <3> QED  BY <1>6, <3>1, <3>2
  <2>2. Skip(r, p)' = Skip(r, p)
    BY <1>6, <1>7
  <2> QED  BY <2>1, <2>2 DEF Chain, Filled
<1>11. Reached(r, B)'
  <2>1. B[P] = Len(decoded[r]) + 1 /\ B[P] \in Nat
    BY <1>p DEF Chain, Reached
  <2>2. B[P + 1] = B[P] + 0
    BY <1>3 DEF Chain, Linked
  <2>3. B[P + 1] = Len(decoded[r]) + 1
    <3>1. B[P] + 0 = B[P]
      BY <2>1
    <3> QED  BY <2>1, <2>2, <3>1
  <2> QED  BY <1>1, <2>3 DEF Reached
<1> QED  BY <1>8, <1>9, <1>10, <1>11 DEF Chain

(* What a router decodes is the next packet it was dealt. *)
LEMMA DecodeKeepsWhole ==
  ASSUME Steady, NEW r \in Router, Decode(r), NEW B \in [Nat -> Nat], Chain(r, B), Whole(r)
  PROVE  Whole(r)'
<1> DEFINE x == [head |-> rtr[r].head, body |-> buf[RtrCell(r)][rtr[r].i].body, min |-> rtr[r].min]
           k == B[rtr[r].pos]
<1>0. Typed /\ rtr[r].pc = "decode"
  BY DEF Steady, Decode
<1>1. rtr[r].i < Cap /\ cnt[RtrCell(r)] > 0
  BY <1>0, AtWork
<1>2. x \in Packet /\ decoded'[r] = Append(decoded[r], x)
  BY <1>0, <1>1, DecodeIs
<1>3. dealt' = dealt
  BY DEF Decode
<1>4. k = Len(decoded[r]) + 1 /\ rtr[r].head = dealt[r][k]
  BY <1>0 DEF Chain, Reached
<1>5. k \in DOMAIN dealt[r] /\ buf[RtrCell(r)][rtr[r].i] = [head |-> dealt[r][k], body |-> dealt[r][k]]
  BY <1>0, FirstLeft
<1>6. x.head = dealt[r][k] /\ x.body = dealt[r][k]
  BY <1>4, <1>5
<1>7. decoded[r] \in Seq(Packet)
  BY <1>0 DEF Typed
<1> HIDE DEF x, k
<1>8. /\ decoded'[r][k] = x
      /\ \A n \in DOMAIN decoded[r] : decoded'[r][n] = decoded[r][n]
      /\ \A n \in DOMAIN decoded'[r] : n \in DOMAIN decoded[r] \/ n = k
  <2> DEFINE s == decoded[r]
             t == decoded'[r]
  <2>1. s \in Seq(Packet) /\ x \in Packet /\ t = Append(s, x) /\ k = Len(s) + 1
    BY <1>2, <1>4, <1>7
  <2> HIDE DEF s, t
  <2>2. /\ Append(s, x)[Len(s) + 1] = x
        /\ \A n \in DOMAIN s : Append(s, x)[n] = s[n]
        /\ \A n \in DOMAIN Append(s, x) : n \in DOMAIN s \/ n = Len(s) + 1
    <3>1. s \in Seq(Packet) /\ x \in Packet
      BY <2>1
    <3>2. /\ Append(s, x)[Len(s) + 1] = x
          /\ \A n \in DOMAIN s : /\ n \in DOMAIN Append(s, x) /\ Append(s, x)[n] = s[n]
                                /\ n \in Nat /\ n <= Len(s)
          /\ \A n \in DOMAIN Append(s, x) : n \in DOMAIN s \/ n = Len(s) + 1
      BY <3>1, Appended, Zenon
    <3> QED  BY <3>2, Zenon
  <2>3. /\ t[k] = x
        /\ \A n \in DOMAIN s : t[n] = s[n]
        /\ \A n \in DOMAIN t : n \in DOMAIN s \/ n = k
    BY <2>1, <2>2
  <2> QED  BY <2>3 DEF s, t
<1> QED  BY <1>3, <1>5, <1>6, <1>8 DEF Whole

LEMMA RouteDelivers ==
  ASSUME Timely, Steady, Delivered, NEW r \in Router, Route(r)
  PROVE  Delivered'
<1>0. Typed /\ Typed' /\ Steady'
  BY RouteKeepsSteady DEF Steady
<1>1. lst' = lst /\ buf' = buf /\ dealt' = dealt /\ captured' = captured
  BY RouteLeaves
<1>2. Storing'
  <2>1. LstCell' = LstCell
    BY <1>1 DEF LstCell
  <2>2. lst.pc \in {"body", "count"} => cnt'[LstCell] = cnt[LstCell]
    <3> SUFFICES ASSUME lst.pc \in {"body", "count"} PROVE cnt'[LstCell] = cnt[LstCell]
      OBVIOUS
    <3>1. LstCell \in Cells
      BY <1>0, Fields
    <3>2. CASE rtr[r].pc = "poll"
      BY <1>0, <3>2, PollIs DEF Route, SetBusy, Snapshot, ReadHead, Decode, Reset, Release
    <3>3. CASE rtr[r].pc # "poll"
      <4>1. LstCell # RtrCell(r)
        BY <3>3, LstCellOf
      <4> QED  BY <1>0, <3>1, <4>1, OthersStay
    <3> QED  BY <3>2, <3>3
  <2> QED  BY <1>1, <2>1, <2>2 DEF Delivered, Storing
<1>3. ASSUME NEW q \in Router PROVE Whole(q)' /\ (\E B \in [Nat -> Nat] : Chain(q, B))'
  <2>1. PICK B \in [Nat -> Nat] : Chain(q, B)
    BY DEF Delivered
  <2>2. Whole(q)
    BY DEF Delivered
  <2>3. CASE q # r
    <3>1. decoded'[q] = decoded[q]
      BY <1>0, <2>3, OthersStay
    <3>2. Whole(q)'
      BY <1>1, <2>2, <3>1 DEF Whole
    <3> QED  BY <2>1, <2>3, <3>2, RouteKeepsOthersChain
  <2>4. CASE q = r /\ ~Decode(r)
    <3>1. decoded' = decoded
      BY <2>4, RouteLeaves
    <3>2. Whole(q)'
      BY <1>1, <2>2, <3>1 DEF Whole
    <3>3. Chain(q, B)'
      BY <2>1, <2>4, QuietKeepsChain, ReleaseKeepsChain
    <3> QED  BY <3>2, <3>3
  <2>5. CASE q = r /\ Decode(r)
    <3>1. \E C \in [Nat -> Nat] : Chain(r, C)'
      BY <1>0, <2>1, <2>5, DecodeMakesChain
    <3>2. Whole(r)'
      BY <2>1, <2>2, <2>5, DecodeKeepsWhole
    <3> QED  BY <2>5, <3>1, <3>2
  <2> QED  BY <2>3, <2>4, <2>5
<1> QED  BY <1>2, <1>3 DEF Delivered

LEMMA TimeDelivers ==
  ASSUME Delivered, Pause \/ Tick \/ UpdateClock \/ UNCHANGED vars
  PROVE  Delivered'
<1>1. UNCHANGED <<buf, cnt, lst, rtr, captured, dealt, decoded>>
  BY TimeLeaves
<1>2. LstCell' = LstCell
  BY <1>1 DEF LstCell
<1>3. Storing'
  BY <1>1, <1>2 DEF Delivered, Storing
<1>4. ASSUME NEW q \in Router PROVE Whole(q)' /\ (\E B \in [Nat -> Nat] : Chain(q, B))'
  <2>1. PICK B \in [Nat -> Nat] : Chain(q, B)
    BY DEF Delivered
  <2>2. Whole(q)
    BY DEF Delivered
  <2>3. Chain(q, B)'
    BY <1>1, <2>1 DEF Chain, Linked, Closed, Filled, Reached, Window, Of, Skip
  <2> QED  BY <1>1, <2>2, <2>3 DEF Whole
<1> QED  BY <1>3, <1>4 DEF Delivered

LEMMA DeliveredStep == ASSUME Timely, Steady, Delivered, [Next]_vars PROVE Delivered'
  BY ListenerDelivers, RouteDelivers, TimeDelivers DEF Next

(* Whatever the number of routers, slots and buffers: if the timing is     *)
(* kept, listener and routers never meet in a slot, and each router gets   *)
(* the packets it was dealt, whole, once and in order.                     *)
THEOREM PacketsIntact == ASSUME Timely PROVE Spec => []Intact
<1>1. Init => Steady /\ Delivered
  BY SteadyInit, DeliveredInit
<1>2. Steady /\ Delivered /\ [Next]_vars => (Steady /\ Delivered)'
  BY SteadyStep, DeliveredStep
<1>3. Steady /\ Delivered => Intact
  BY SteadyApart DEF Delivered, Whole, Intact
<1> QED  BY <1>1, <1>2, <1>3, PTL DEF Spec

-----------------------------------------------------------------------------
(* The types. *)

LEMMA ClockStep ==
  ASSUME Steady, now >= 1, real <= MaxTime, [Next]_vars
  PROVE  now' >= 1 /\ real' <= MaxTime
<1>0. now \in Nat /\ real \in Nat /\ now <= real /\ MaxTime \in Nat
  BY Fields, PktRingAssumption DEF Steady, ListenerAhead
<1>1. CASE Listener
  BY <1>1, ListenerLeaves
<1>2. CASE \E r \in Router : Route(r)
  BY <1>2, RouteLeaves
<1>3. CASE Pause \/ UNCHANGED vars
  BY <1>3 DEF Pause, vars
<1>4. CASE Tick
  <2>1. real < MaxTime /\ real' = real + 1 /\ now' = now
    BY <1>4 DEF Tick
  <2> QED  BY <1>0, <2>1
<1>5. CASE UpdateClock
  <2>1. now' = real /\ real' = real
    BY <1>5 DEF UpdateClock
  <2> QED  BY <1>0, <2>1
<1> QED  BY <1>1, <1>2, <1>3, <1>4, <1>5 DEF Next

(* While the timing is kept no index leaves its array and no count its     *)
(* bounds.                                                                 *)
THEOREM TypeCorrect == ASSUME Timely PROVE Spec => []TypeOK
<1> DEFINE Inv == Steady /\ now >= 1 /\ real <= MaxTime
<1>1. Init => Inv
  BY SteadyInit, PktRingAssumption DEF Init
<1>2. Inv /\ [Next]_vars => Inv'
  BY SteadyStep, ClockStep
<1>3. Inv => TypeOK
  <2> SUFFICES ASSUME Inv PROVE TypeOK
    OBVIOUS
  <2>1. /\ Typed /\ now \in Nat /\ real \in Nat /\ lst.next \in Router /\ lst.idx \in 0 .. Slots - 1
        /\ \A r \in Router : rtr[r].last \in 0 .. Slots - 1
    BY Fields DEF Steady
  <2>2. now \in 1 .. MaxTime /\ real \in now .. MaxTime
    BY <2>1, PktRingAssumption DEF Steady, ListenerAhead
  <2>3. lst.pc \in {"body", "count"} => cnt[LstCell] < Buffers
    <3>1. lst.pc \in {"body", "count"} => cnt[LstCell] < Cap
      BY DEF Steady, ListenerAhead
    <3>2. cnt[LstCell] \in Nat
      BY <2>1, Fields
    <3> QED  BY <3>1, <3>2, Constants
  <2> QED  BY <2>1, <2>2, <2>3 DEF Typed, TypeOK
<1> HIDE DEF Inv
<1> QED  BY <1>1, <1>2, <1>3, PTL DEF Spec

-----------------------------------------------------------------------------
(* The packets are dealt evenly. *)

LEMMA TurnTypes ==
  ASSUME Typed
  PROVE  /\ \A r \in Router : Turn(r) \in 0 .. Routers - 1 /\ (Turn(r) = 0 <=> r = lst.next)
         /\ \A r, s \in Router : Turn(r) = Turn(s) => r = s
<1>1. lst.next \in 0 .. Routers - 1 /\ Routers \in Nat
  BY Constants DEF Typed, ListenerState, Router
<1> DEFINE n == lst.next
<1>2. \A r \in Router : Turn(r) = IF r >= n THEN r - n ELSE r - n + Routers
  BY DEF Turn
<1>3. n \in 0 .. Routers - 1
  BY <1>1
<1> HIDE DEF n
<1>4. \A r \in Router : Turn(r) \in 0 .. Routers - 1 /\ (Turn(r) = 0 <=> r = n)
  BY <1>1, <1>2, <1>3 DEF Router
<1>5. \A r, s \in Router : Turn(r) = Turn(s) => r = s
  BY <1>1, <1>2, <1>3 DEF Router
<1> QED  BY <1>4, <1>5 DEF n

(* After Deal the router that has got the packet is the last in turn. *)
LEMMA TurnsPass ==
  ASSUME Typed, ListenerAhead, Deal, NEW r \in Router
  PROVE  Turn(r)' = IF r = lst.next THEN Routers - 1 ELSE Turn(r) - 1
<1>0. ~Capture /\ Listener
  BY DEF Deal, Capture, Listener
<1>1. lst.next \in 0 .. Routers - 1 /\ Routers \in Nat /\ r \in 0 .. Routers - 1
  BY Constants DEF Typed, ListenerState, Router
<1>2. lst'.next = (IF lst.next + 1 >= Routers THEN 0 ELSE lst.next + 1)
  BY <1>0, ListenerMoves
<1> DEFINE n == lst.next
           m == lst'.next
<1>3. /\ Turn(r) = (IF r >= n THEN r - n ELSE r - n + Routers)
      /\ Turn(r)' = (IF r >= m THEN r - m ELSE r - m + Routers)
  BY DEF Turn
<1>4. n \in 0 .. Routers - 1 /\ m = (IF n + 1 >= Routers THEN 0 ELSE n + 1)
  BY <1>1, <1>2
<1> HIDE DEF n, m
<1>5. Turn(r)' = IF r = n THEN Routers - 1 ELSE Turn(r) - 1
  BY <1>1, <1>3, <1>4
<1> QED  BY <1>5 DEF n

(* A second the listener comes to has empty slots. *)
LEMMA EmptySecond ==
  ASSUME Typed, Delivered, NEW r \in Router, NEW p \in Window(r), p >= lst.at + 2
  PROVE  cnt[Of(r, p)] = 0
<1>1. PICK B \in [Nat -> Nat] : Chain(r, B)
  BY DEF Delivered
<1>2. p \in Nat /\ p + 1 \in Nat /\ p + 1 >= lst.at + 2
  <2>1. p \in Nat /\ lst.at \in Nat
    BY Fields DEF Window
  <2> QED  BY <2>1
<1>3. B[p] = Len(dealt[r]) + 1 /\ B[p + 1] = Len(dealt[r]) + 1 /\ B[p + 1] = B[p] + cnt[Of(r, p)]
  BY <1>1, <1>2 DEF Chain, Closed, Linked
<1>4. Of(r, p) \in Cells
  BY <1>2, OfType
<1>5. cnt[Of(r, p)] \in Nat /\ B[p] \in Nat
  BY <1>2, <1>4, Constants DEF Typed
<1>6. B[p] = B[p] + cnt[Of(r, p)]
  BY <1>3
<1> QED  BY <1>5, <1>6

LEMMA BalancedInit == Init => Balanced
<1> SUFFICES ASSUME Init, NEW r \in Router
             PROVE  cnt[Of(r, lst.at + 1)] = 0
  BY DEF Balanced
<1>1. lst.at + 1 \in Nat
  BY DEF Init
<1>2. Of(r, lst.at + 1) \in Cells
  BY <1>1, OfType
<1> QED  BY <1>2 DEF Init

LEMMA ListenerBalances ==
  ASSUME Timely, Steady, Delivered, Balanced, Listener
  PROVE  Balanced'
<1>0. /\ Typed /\ ListenerAhead /\ Typed' /\ Steady' /\ now \in Nat /\ lst.at \in Nat /\ lst'.at \in Nat
      /\ now' = now /\ rtr' = rtr /\ (~Deal => cnt' = cnt)
  <2>1. Steady'
    BY ListenerKeepsSteady
  <2>2. Typed /\ Typed' /\ ListenerAhead
    BY <2>1 DEF Steady
  <2>3. lst'.at \in Nat
    BY <2>2 DEF Typed, ListenerState
  <2>4. now' = now /\ rtr' = rtr /\ (~Deal => cnt' = cnt)
    BY ListenerLeaves
  <2> QED  BY <2>1, <2>2, <2>3, <2>4, Fields
<1>1. CASE Capture
  <2>1. lst'.next = lst.next /\ lst.at <= lst'.at /\ cnt' = cnt
    BY <1>0, <1>1, CapturedAt DEF Capture, ring
  <2>2. CASE lst'.at = lst.at
    BY <1>0, <2>1, <2>2 DEF Balanced, Turn, Of
  <2>3. CASE lst'.at # lst.at
    <3> SUFFICES ASSUME now <= lst'.at + 1, NEW r \in Router
                 PROVE  cnt[Of(r, lst'.at + 1)] = 0
      BY <1>0, <2>1 DEF Balanced, Of
    <3>1. lst'.at + 1 \in Window(r)
      <4>1. rtr[r].pos <= lst'.at + 1 /\ lst'.at + 1 < rtr[r].pos + Slots
        <5>1. /\ real \in Nat /\ rtr[r].pos \in Nat /\ rtr[r].pos <= now /\ now <= rtr[r].pos + MaxLag
              /\ real <= now + MaxSkew
          BY Fields DEF Steady, RoutersBehind, ListenerAhead
        <5>2. lst'.at <= real + MaxDrift
          BY <1>0, <1>1, CapturedAt
        <5> QED  BY <1>0, <5>1, <5>2, Constants DEF Timely
      <4>2. lst'.at + 1 \in Nat
        BY <1>0
      <4> QED  BY <4>1, <4>2 DEF Window
    <3>2. lst'.at + 1 >= lst.at + 2
      BY <1>0, <2>1, <2>3
    <3> QED  BY <1>0, <3>1, <3>2, EmptySecond
  <2> QED  BY <2>2, <2>3
<1>2. CASE Deal
  <2>1. lst'.at = lst.at /\ LstCell = Of(lst.next, lst.at + 1)
    BY <1>0, <1>2, ListenerMoves, LstCellOf DEF Deal, Capture
  <2>2. cnt'[LstCell] = cnt[LstCell] + 1 /\ \A c \in Cells : c # LstCell => cnt'[c] = cnt[c]
    BY <1>0, <1>2, DealIs
  <2>3. \A r \in Router : /\ Of(r, lst.at + 1) \in Cells
                          /\ cnt[Of(r, lst.at + 1)] \in Nat
                          /\ Of(r, lst.at + 1) = LstCell <=> r = lst.next
    <3> SUFFICES ASSUME NEW r \in Router
                 PROVE  /\ Of(r, lst.at + 1) \in Cells /\ cnt[Of(r, lst.at + 1)] \in Nat
                        /\ Of(r, lst.at + 1) = LstCell <=> r = lst.next
      OBVIOUS
    <3>1. lst.at + 1 \in Nat
      BY <1>0
    <3>2. Of(r, lst.at + 1) \in Cells
      BY <3>1, OfType
    <3> QED  BY <1>0, <2>1, <3>2, Constants DEF Typed, Of
  <2> DEFINE n(r) == cnt[Of(r, lst.at + 1)]
             m(r) == IF r = lst.next THEN n(r) + 1 ELSE n(r)
  <2>4. \A r \in Router : n(r) \in Nat /\ cnt'[Of(r, lst.at + 1)] = m(r)
    BY <2>2, <2>3
  <2> SUFFICES ASSUME now <= lst.at + 1, NEW r \in Router, NEW s \in Router, Turn(r)' <= Turn(s)'
               PROVE  m(r) <= m(s) /\ m(s) <= m(r) + 1
    BY <1>0, <2>1, <2>4 DEF Balanced, Of
  <2>5. \A p, q \in Router : Turn(p) <= Turn(q) => n(p) <= n(q) /\ n(q) <= n(p) + 1
    BY DEF Balanced
  <2>6. /\ Turn(r)' = (IF r = lst.next THEN Routers - 1 ELSE Turn(r) - 1)
        /\ Turn(s)' = (IF s = lst.next THEN Routers - 1 ELSE Turn(s) - 1)
    BY <1>0, <1>2, TurnsPass
  <2>7. /\ Turn(r) \in 0 .. Routers - 1 /\ (Turn(r) = 0 <=> r = lst.next)
        /\ Turn(s) \in 0 .. Routers - 1 /\ (Turn(s) = 0 <=> s = lst.next)
    BY <1>0, TurnTypes
  <2>8. n(r) \in Nat /\ n(s) \in Nat
    BY <2>4
  <2> HIDE DEF n
  <2>9. CASE r # lst.next /\ s # lst.next
    BY <2>5, <2>6, <2>7, <2>8, <2>9, Constants
  <2>10. CASE r # lst.next /\ s = lst.next
    <3>1. n(s) <= n(r) /\ n(r) <= n(s) + 1
      BY <2>5, <2>7, <2>10, Constants
    <3> QED  BY <2>8, <2>10, <3>1
  <2>11. CASE r = lst.next
    <3>1. s = lst.next
      BY <2>6, <2>7, <2>11, Constants
    <3> QED  BY <2>8, <2>11, <3>1
  <2> QED  BY <2>9, <2>10, <2>11
<1>3. CASE ~Capture /\ ~Deal
  <2>1. lst'.at = lst.at /\ lst'.next = lst.next /\ cnt' = cnt
    BY <1>0, <1>3, ListenerMoves DEF Listener
  <2> QED  BY <1>0, <2>1 DEF Balanced, Turn, Of
<1> QED  BY <1>1, <1>2, <1>3

LEMMA RouteBalances ==
  ASSUME Timely, Steady, Balanced, NEW q \in Router, Route(q)
  PROVE  Balanced'
<1>0. Typed /\ lst.at \in Nat
  BY Fields DEF Steady
<1>1. now' = now /\ lst' = lst
  BY RouteLeaves
<1>2. ASSUME now <= lst.at + 1, NEW r \in Router PROVE cnt'[Of(r, lst.at + 1)] = cnt[Of(r, lst.at + 1)]
  <2>1. lst.at + 1 \in Window(r) /\ Of(r, lst.at + 1) \in Cells
    BY <1>2, AheadOfRouters, WindowType
  <2>2. CASE rtr[q].pc = "poll"
    BY <1>0, <2>2, PollIs DEF Route, SetBusy, Snapshot, ReadHead, Decode, Reset, Release
  <2>3. CASE rtr[q].pc # "poll"
    <3>1. Of(r, lst.at + 1) # RtrCell(q)
      <4> SUFFICES ASSUME Of(r, lst.at + 1) = RtrCell(q) PROVE FALSE
        OBVIOUS
      <4>1. RtrCell(q) = Of(q, rtr[q].pos) /\ rtr[q].pos \in Window(q) /\ lst.at + 1 # rtr[q].pos
        BY <1>2, <2>3, RtrCellOf, AheadOfRouters
      <4>2. r = q /\ ReadIndex(lst.at + 1) = ReadIndex(rtr[q].pos)
        BY <4>1 DEF Of
      <4> QED  BY <1>0, <2>1, <4>1, <4>2, OwnSlots
    <3> QED  BY <1>0, <2>1, <3>1, OthersStay
  <2> QED  BY <2>2, <2>3
<1> QED  BY <1>1, <1>2 DEF Balanced, Turn, Of

LEMMA TimeBalances ==
  ASSUME Steady, Balanced, Pause \/ Tick \/ UpdateClock \/ UNCHANGED vars
  PROVE  Balanced'
<1>1. cnt' = cnt /\ lst' = lst
  BY TimeLeaves
<1>2. now \in Nat /\ now' \in Nat /\ now <= now' /\ lst.at \in Nat
  BY Fields DEF Pause, Tick, UpdateClock, vars, Steady, ListenerAhead
<1> SUFFICES ASSUME now' <= lst.at + 1 PROVE now <= lst.at + 1
  BY <1>1 DEF Balanced, Turn, Of
<1> QED  BY <1>2

LEMMA BalancedStep == ASSUME Timely, Steady, Delivered, Balanced, [Next]_vars PROVE Balanced'
  BY ListenerBalances, RouteBalances, TimeBalances DEF Next

(* If the timing is kept, giving up on a packet because it is the turn of  *)
(* a router whose slot is full never loses one that had room elsewhere.    *)
THEOREM RefusedOnlyWhenFull == ASSUME Timely PROVE Spec => RefusedMeansAllFull
<1> DEFINE Inv == Steady /\ Delivered /\ Balanced
           Full == \A r \in Router : cnt[<<r, lst.idx>>] >= Cap
<1>1. Init => Inv
  BY SteadyInit, DeliveredInit, BalancedInit
<1>2. Inv /\ [Next]_vars => Inv'
  BY SteadyStep, DeliveredStep, BalancedStep
<1>3. Inv /\ Refuse => Full
  <2> SUFFICES ASSUME Inv, Refuse, NEW r \in Router PROVE cnt[<<r, lst.idx>>] >= Cap
    OBVIOUS
  <2>0. Typed /\ lst.next \in Router /\ LstCell \in Cells /\ lst.pc = "test" /\ lst.at \in Nat
    BY Fields DEF Steady, Refuse
  <2>1. /\ LstCell = Of(lst.next, lst.at + 1) /\ now <= lst.at + 1
        /\ rtr[lst.next].pc # "poll" => LstCell # RtrCell(lst.next)
    BY <2>0, LstCellOf
  <2>2. ~busy[LstCell]
    <3>1. LstCell[1] = lst.next
      BY DEF LstCell
    <3> QED  BY <2>0, <2>1, <3>1 DEF Steady, WorkMarked, InWork
  <2>3. cnt[LstCell] >= Cap
    BY <2>2 DEF Refuse
  <2>4. Turn(lst.next) <= Turn(r)
    <3>1. Turn(lst.next) = 0 /\ Turn(r) \in 0 .. Routers - 1
      BY <2>0, TurnTypes
    <3> QED  BY <3>1, Constants
  <2>5. cnt[LstCell] <= cnt[Of(r, lst.at + 1)]
    BY <2>0, <2>1, <2>4 DEF Balanced
  <2>6. Of(r, lst.at + 1) = <<r, lst.idx>> /\ Of(r, lst.at + 1) \in Cells
    <3>1. lst.idx = ReadIndex(lst.at + 1) /\ lst.at + 1 \in Nat
      BY <2>0 DEF Steady, ListenerAhead
    <3> QED  BY <3>1, OfType DEF Of
  <2>7. cnt[LstCell] \in Nat /\ cnt[Of(r, lst.at + 1)] \in Nat
    BY <2>0, <2>6, Constants DEF Typed
  <2>8. cnt[Of(r, lst.at + 1)] >= Cap
    BY <2>3, <2>5, <2>7, Constants
  <2> QED  BY <2>6, <2>8
<1> HIDE DEF Inv
<1>4. Inv /\ [Next]_vars => [Refuse => Full]_vars
  BY <1>3
<1>5. Spec => [][Refuse => Full]_vars
  BY <1>1, <1>2, <1>4, PTL DEF Spec
<1> QED  BY <1>5 DEF RefusedMeansAllFull

-----------------------------------------------------------------------------
(* The bandwidth of the minutes. *)

(* The packets that router r decoded in a minute. *)
In(r, minute) == {n \in DOMAIN decoded[r] : decoded[r][n].min = minute}

Volumes(r) ==
  /\ volume[r] \in [{0, 1} -> Nat] /\ report[r] \in Nat
  /\ volume[r][rtr[r].min % 2] = Cardinality(In(r, rtr[r].min))
  /\ volume[r][(rtr[r].min + 1) % 2] = Cardinality(In(r, rtr[r].min - 1))
  /\ report[r] = Cardinality(In(r, rtr[r].min - 2))

(* A router's minute is that of a second between the one before its        *)
(* current one and now.                                                    *)
MinuteSeen(r) ==
  /\ Minute(rtr[r].cur - 1) <= rtr[r].min /\ rtr[r].min <= Minute(now)
  /\ rtr[r].pc = "poll" => rtr[r].pos = rtr[r].cur
  /\ \A n \in DOMAIN decoded[r] : decoded[r][n].min <= rtr[r].min

Metered ==
  /\ volume \in [Router -> [{0, 1} -> Nat]] /\ report \in [Router -> Nat]
  /\ \A r \in Router : Volumes(r) /\ MinuteSeen(r)

(* Minutes of seconds not more than a minute apart. *)
LEMMA Minutes ==
  ASSUME NEW a \in Int, NEW b \in Int
  PROVE  /\ Minute(a) \in Int
         /\ a <= b => Minute(a) <= Minute(b)
         /\ b <= a + SecPerMin => Minute(b) <= Minute(a) + 1
<1>0. SecPerMin \in Nat /\ SecPerMin > 0
  BY Constants
<1> DEFINE n == SecPerMin
           q == a \div n
           p == b \div n
           r == a % n
           s == b % n
<1>1. /\ q \in Int /\ p \in Int /\ r \in 0 .. n - 1 /\ s \in 0 .. n - 1
      /\ a = n * q + r /\ b = n * p + s
  <2>1. \A c \in Int : c \div n \in Int /\ c % n \in 0 .. n - 1 /\ c = n * (c \div n) + (c % n)
    BY <1>0, Z3
  <2> QED  BY <2>1
<1>2. Minute(a) = q /\ Minute(b) = p /\ n \in Nat /\ n > 0
  BY <1>0 DEF Minute
<1> HIDE DEF q, p, r, s, n
<1>3. ASSUME a <= b, q > p PROVE FALSE
  <2>1. n * (q - p) >= n
    BY <1>1, <1>2, <1>3, ProductGrows
  <2>2. n * (q - p) = n * q - n * p
    BY <1>1, <1>2, Z3
  <2> QED  BY <1>1, <1>2, <1>3, <2>1, <2>2, Z3
<1>4. ASSUME b <= a + n, p > q + 1 PROVE FALSE
  <2>1. n * (p - q - 1) >= n
    BY <1>1, <1>2, <1>4, ProductGrows
  <2>2. n * (p - q - 1) = n * p - n * q - n
    BY <1>1, <1>2, Z3
  <2> QED  BY <1>1, <1>2, <1>4, <2>1, <2>2, Z3
<1> QED  BY <1>1, <1>2, <1>3, <1>4 DEF n

LEMMA Parity ==
  ASSUME NEW m \in Nat
  PROVE  /\ m % 2 \in {0, 1} /\ (m + 1) % 2 \in {0, 1} /\ m % 2 # (m + 1) % 2
         /\ (m + 2) % 2 = m % 2
  BY Z3

LEMMA InFinite ==
  ASSUME Typed, NEW r \in Router, NEW m
  PROVE  /\ IsFiniteSet(In(r, m)) /\ Cardinality(In(r, m)) \in Nat
         /\ \A n \in In(r, m) : n \in 1 .. Len(decoded[r])
<1>1. DOMAIN decoded[r] = 1 .. Len(decoded[r]) /\ Len(decoded[r]) \in Nat
  BY LenProperties DEF Typed
<1>2. IsFiniteSet(1 .. Len(decoded[r]))
  BY <1>1, FS_Interval
<1>3. In(r, m) \subseteq 1 .. Len(decoded[r])
  BY <1>1 DEF In
<1> QED  BY <1>2, <1>3, FS_Subset, FS_CardinalityType

(* A packet adds to its own minute. *)
LEMMA InGrows ==
  ASSUME Typed, NEW r \in Router, NEW x \in Packet, decoded'[r] = Append(decoded[r], x), NEW m
  PROVE  Cardinality(In(r, m)') = IF m = x.min THEN Cardinality(In(r, m)) + 1 ELSE Cardinality(In(r, m))
<1> DEFINE s == decoded[r]
           k == Len(s) + 1
<1>1. s \in Seq(Packet)
  BY DEF Typed
<1> HIDE DEF s
<1>2. /\ Len(s) \in Nat /\ Append(s, x)[k] = x /\ k \in DOMAIN Append(s, x)
      /\ \A n \in DOMAIN s : n \in DOMAIN Append(s, x) /\ Append(s, x)[n] = s[n]
      /\ \A n \in DOMAIN Append(s, x) : n \in DOMAIN s \/ n = k
  BY <1>1, Appended
<1>3. In(r, m)' = {n \in DOMAIN Append(s, x) : Append(s, x)[n].min = m}
  BY DEF In, s
<1>4. In(r, m) = {n \in DOMAIN s : s[n].min = m}
  BY DEF In, s
<1>5. k \notin In(r, m)
  <2>1. \A n \in In(r, m) : n \in 1 .. Len(s)
    BY InFinite DEF s
  <2> QED  BY <1>2, <2>1
<1> HIDE DEF k
<1>6. CASE m = x.min
  <2>1. In(r, m)' = In(r, m) \cup {k}
    BY <1>2, <1>3, <1>4, <1>6
  <2>2. Cardinality(In(r, m) \cup {k}) = Cardinality(In(r, m)) + 1
    BY <1>5, InFinite, FS_AddElement
  <2> QED  BY <1>6, <2>1, <2>2
<1>7. CASE m # x.min
  <2>1. In(r, m)' = In(r, m)
    BY <1>2, <1>3, <1>4, <1>7
  <2> QED  BY <1>7, <2>1
<1> QED  BY <1>6, <1>7

LEMMA MeteredInit == Init => Metered
<1> SUFFICES ASSUME Init PROVE Metered
  OBVIOUS
<1>0. volume \in [Router -> [{0, 1} -> Nat]] /\ report \in [Router -> Nat]
  BY DEF Init, NoVolume
<1>1. ASSUME NEW r \in Router PROVE Volumes(r) /\ MinuteSeen(r)
  <2>1. /\ rtr[r].min = Minute(1) /\ rtr[r].cur = 1 /\ rtr[r].pos = 1 /\ now = 1 /\ decoded[r] = <<>>
        /\ volume[r] = NoVolume /\ report[r] = 0
    BY <1>1 DEF Init
  <2>2. \A m : In(r, m) = {}
    BY <2>1 DEF In
  <2>3. Cardinality({}) = 0
    BY FS_EmptySet
  <2>4. Minute(1) \in Nat /\ Minute(0) <= Minute(1)
    <3>1. Minute(1) \in Nat
      BY Constants, Quotient DEF Minute
    <3> QED  BY <3>1, Minutes
  <2>5. \A i \in {0, 1} : volume[r][i] = 0
    BY <2>1 DEF NoVolume
  <2>6. Volumes(r)
    BY <1>0, <2>1, <2>2, <2>3, <2>4, <2>5, Parity DEF Volumes
  <2>7. MinuteSeen(r)
    BY <2>1, <2>4 DEF MinuteSeen
  <2> QED  BY <2>6, <2>7
<1> QED  BY <1>0, <1>1 DEF Metered

(* Which minute a poll can find: the router's or the next one. *)
LEMMA NextMinute ==
  ASSUME Timely, MinutesSeen, Steady, NEW r \in Router, MinuteSeen(r), rtr[r].pc = "poll",
         NEW m \in {Minute(now - 1), Minute(now)}, m >= rtr[r].min
  PROVE  /\ m \in {rtr[r].min, rtr[r].min + 1} /\ m <= Minute(now) /\ m \in Nat
         /\ Minute(now - 1) <= m /\ rtr[r].min \in Nat
<1>0. now \in Nat /\ rtr[r].cur \in Nat /\ rtr[r].pos \in Nat /\ rtr[r].min \in Nat
  BY Fields DEF Steady
<1>1. rtr[r].pos = rtr[r].cur /\ now <= rtr[r].pos + MaxLag /\ Minute(rtr[r].cur - 1) <= rtr[r].min
  BY DEF MinuteSeen, Steady, RoutersBehind
<1>2. now <= (rtr[r].cur - 1) + SecPerMin /\ rtr[r].cur - 1 \in Int
  BY <1>0, <1>1, Constants DEF MinutesSeen
<1>3. /\ Minute(now) \in Int /\ Minute(now - 1) \in Int /\ Minute(now - 1) <= Minute(now)
      /\ Minute(rtr[r].cur - 1) \in Int
      /\ Minute(now) <= Minute(rtr[r].cur - 1) + 1
  BY <1>0, <1>2, Minutes
<1> QED  BY <1>0, <1>1, <1>3

LEMMA MinuteStays ==
  ASSUME Typed, NEW r \in Router, Route(r), ~Poll(r)
  PROVE  rtr'[r].min = rtr[r].min /\ rtr'[r].cur = rtr[r].cur
<1>0. rtr \in [Router -> RouterState] /\ rtr[r] \in RouterState
  BY DEF Typed
<1>1. CASE SetBusy(r)
  BY <1>0, <1>1 DEF SetBusy, RouterState
<1>2. CASE Snapshot(r)
  BY <1>0, <1>2 DEF Snapshot, RouterState
<1>3. CASE ReadHead(r)
  BY <1>0, <1>3 DEF ReadHead, RouterState
<1>4. CASE Decode(r)
  <2> DEFINE goesTo == IF rtr[r].i + 1 < rtr[r].size THEN "head" ELSE "reset"
             i == rtr[r].i + 1
             y == [rtr[r] EXCEPT !.pc = goesTo, !.i = i]
  <2>1. rtr' = [rtr EXCEPT ![r] = y]
    BY <1>4 DEF Decode
  <2> HIDE DEF goesTo, i
  <2>2. y.min = rtr[r].min /\ y.cur = rtr[r].cur
    BY <1>0 DEF RouterState
  <2> HIDE DEF y
  <2> QED  BY <1>0, <2>1, <2>2
<1>5. CASE Reset(r)
  BY <1>0, <1>5 DEF Reset, RouterState
<1>6. CASE Release(r)
  <2> DEFINE next == NextIndex(rtr[r].last)
             goesTo == IF next = ReadIndex(rtr[r].cur) THEN "poll" ELSE "visit"
             pos == rtr[r].pos + 1
             x == [rtr[r] EXCEPT !.pc = goesTo, !.last = next, !.pos = pos]
  <2>1. rtr' = [rtr EXCEPT ![r] = x]
    BY <1>6 DEF Release
  <2> HIDE DEF next, goesTo, pos
  <2>2. x.min = rtr[r].min /\ x.cur = rtr[r].cur
    BY <1>0 DEF RouterState
  <2> HIDE DEF x
  <2> QED  BY <1>0, <2>1, <2>2
<1> QED  BY <1>1, <1>2, <1>3, <1>4, <1>5, <1>6 DEF Route

LEMMA VolumesStay ==
  ASSUME NEW r \in Router, Volumes(r), volume'[r] = volume[r], report'[r] = report[r],
         decoded'[r] = decoded[r], rtr'[r].min = rtr[r].min
  PROVE  Volumes(r)'
<1>1. \A m : In(r, m)' = In(r, m)
  BY DEF In
<1> QED  BY <1>1 DEF Volumes

(* A new minute begins with an empty volume, and shows the last but one.   *)
LEMMA MinuteTurns ==
  ASSUME Steady, Metered, NEW r \in Router, ReportMinute(r),
         decoded'[r] = decoded[r], rtr'[r].min = rtr[r].min + 1
  PROVE  Volumes(r)' /\ volume' \in [Router -> [{0, 1} -> Nat]] /\ report' \in [Router -> Nat]
<1>m. PICK m \in Nat : m = rtr[r].min
  BY Fields DEF Steady
<1> DEFINE v == volume[r]
           a == m % 2
           b == (m + 1) % 2
           w == [v EXCEPT ![b] = 0]
<1>0. /\ v \in [{0, 1} -> Nat] /\ volume \in [Router -> [{0, 1} -> Nat]]
      /\ report \in [Router -> Nat] /\ Typed
  BY Fields DEF Steady, Metered
<1>1. /\ v[a] = Cardinality(In(r, m)) /\ v[b] = Cardinality(In(r, m - 1))
      /\ \A n \in DOMAIN decoded[r] : decoded[r][n].min <= m
  BY <1>m DEF Metered, Volumes, MinuteSeen
<1>2. volume' = [volume EXCEPT ![r] = w] /\ report' = [report EXCEPT ![r] = v[b]]
  BY <1>m DEF ReportMinute
<1>3. rtr'[r].min = m + 1
  BY <1>m
<1>4. \A k : In(r, k)' = In(r, k)
  BY DEF In
<1>5. In(r, m + 1) = {}
  <2> SUFFICES ASSUME NEW n \in DOMAIN decoded[r], decoded[r][n].min = m + 1 PROVE FALSE
    BY DEF In
  <2>1. decoded[r][n].min <= m
    BY <1>1
  <2> QED  BY <1>0, <2>1
<1>6. a \in {0, 1} /\ b \in {0, 1} /\ a # b /\ (m + 2) % 2 = a
  BY <1>0, Parity
<1>7. /\ (m + 1) + 1 = m + 2 /\ (m + 1) - 1 = m /\ (m + 1) - 2 = m - 1
  BY <1>0
<1>8. Cardinality({}) = 0
  BY FS_EmptySet
<1> HIDE DEF v, a
<1>9. (m + 1) % 2 = b /\ ((m + 1) + 1) % 2 = a
  BY <1>6, <1>7
<1> HIDE DEF b
<1>10. w \in [{0, 1} -> Nat] /\ w[b] = 0 /\ w[a] = v[a] /\ v[b] \in Nat
  BY <1>0, <1>6
<1> HIDE DEF w
<1>11. volume'[r] = w /\ report'[r] = v[b]
  BY <1>0, <1>2
<1>12. volume' \in [Router -> [{0, 1} -> Nat]] /\ report' \in [Router -> Nat]
  BY <1>0, <1>2, <1>10
<1>13. /\ volume'[r][(m + 1) % 2] = Cardinality(In(r, m + 1)')
       /\ volume'[r][((m + 1) + 1) % 2] = Cardinality(In(r, (m + 1) - 1)')
       /\ report'[r] = Cardinality(In(r, (m + 1) - 2)')
  BY <1>1, <1>4, <1>5, <1>7, <1>8, <1>9, <1>10, <1>11
<1>14. volume'[r] \in [{0, 1} -> Nat] /\ report'[r] \in Nat
  BY <1>12
<1>15. Volumes(r)'
  BY <1>3, <1>13, <1>14 DEF Volumes
<1> QED  BY <1>12, <1>15

LEMMA PollMeters ==
  ASSUME Timely, MinutesSeen, Steady, Metered, NEW r \in Router, Poll(r)
  PROVE  /\ Volumes(r)' /\ MinuteSeen(r)'
         /\ volume' \in [Router -> [{0, 1} -> Nat]] /\ report' \in [Router -> Nat]
<1>0. /\ Typed /\ rtr \in [Router -> RouterState] /\ rtr[r] \in RouterState /\ now \in Nat
      /\ Volumes(r) /\ MinuteSeen(r) /\ rtr[r].pc = "poll"
      /\ volume \in [Router -> [{0, 1} -> Nat]] /\ report \in [Router -> Nat]
  BY DEF Steady, Typed, Metered, Poll
<1> DEFINE due == rtr[r].last # ReadIndex(now)
           goesTo == IF due THEN "visit" ELSE "poll"
           cur == IF due THEN now ELSE rtr[r].cur
<1>1. PICK m \in {Minute(now - 1), Minute(now)} :
        /\ m >= rtr[r].min
        /\ IF m # rtr[r].min THEN ReportMinute(r) ELSE UNCHANGED bandwidth
        /\ rtr' = [rtr EXCEPT ![r] = [@ EXCEPT !.pc = goesTo, !.cur = cur, !.min = m]]
  BY DEF Poll
<1>2. /\ rtr'[r].pos = rtr[r].pos /\ UNCHANGED <<decoded, now>>
      /\ rtr'[r].pc = "visit" => rtr'[r].cur = now
      /\ rtr'[r].pc = "poll" => rtr'[r].cur = rtr[r].cur
      /\ rtr'[r].pc \in {"poll", "visit"}
  BY <1>0, PollIs DEF Poll
<1> HIDE DEF goesTo, cur
<1>3. rtr'[r].min = m
  BY <1>0, <1>1 DEF RouterState
<1>4. /\ m \in {rtr[r].min, rtr[r].min + 1} /\ m <= Minute(now) /\ m \in Nat
      /\ Minute(now - 1) <= m /\ rtr[r].min \in Nat
  BY <1>0, <1>1, NextMinute
<1>5. Volumes(r)' /\ volume' \in [Router -> [{0, 1} -> Nat]] /\ report' \in [Router -> Nat]
  <2>1. CASE m = rtr[r].min
    <3>1. volume' = volume /\ report' = report
      BY <1>1, <2>1 DEF bandwidth
    <3> QED  BY <1>0, <1>2, <1>3, <2>1, <3>1, VolumesStay
  <2>2. CASE m # rtr[r].min
    <3>1. ReportMinute(r) /\ rtr'[r].min = rtr[r].min + 1
      BY <1>1, <1>3, <1>4, <2>2
    <3> QED  BY <1>2, <3>1, MinuteTurns
  <2> QED  BY <2>1, <2>2
<1>6. MinuteSeen(r)'
  <2>0. Minute(rtr[r].cur - 1) <= rtr[r].min /\ Minute(rtr[r].cur - 1) \in Int /\ rtr[r].min <= m
    <3>1. rtr[r].cur \in Nat
      BY <1>0, Fields
    <3>2. \A n \in Nat : n - 1 \in Int
      OBVIOUS
    <3>3. rtr[r].cur - 1 \in Int
      BY <3>1, <3>2, Zenon
    <3> QED  BY <1>0, <1>1, <1>4, <3>3, Minutes DEF MinuteSeen
  <2>1. Minute(rtr'[r].cur - 1) <= m
    <3>1. CASE rtr'[r].pc = "visit"
      BY <1>2, <1>4, <3>1
    <3>2. CASE rtr'[r].pc = "poll"
      BY <1>2, <1>4, <2>0, <3>2
    <3> QED  BY <1>2, <3>1, <3>2
  <2>2. rtr'[r].pc = "poll" => rtr'[r].pos = rtr'[r].cur
    BY <1>0, <1>2 DEF MinuteSeen
  <2>3. \A n \in DOMAIN decoded[r] : decoded[r][n].min <= m
    <3> SUFFICES ASSUME NEW n \in DOMAIN decoded[r] PROVE decoded[r][n].min <= m
      OBVIOUS
    <3>1. decoded[r][n] \in Packet
      BY <1>0, ElementOfSeq, LenProperties DEF Typed
    <3>2. decoded[r][n].min \in Nat /\ decoded[r][n].min <= rtr[r].min
      BY <1>0, <3>1 DEF MinuteSeen, Packet
    <3> QED  BY <1>4, <2>0, <3>2
  <2> QED  BY <1>2, <1>3, <1>4, <2>1, <2>2, <2>3 DEF MinuteSeen
<1> QED  BY <1>5, <1>6

LEMMA DecodeMeters ==
  ASSUME Timely, Steady, Metered, NEW r \in Router, Decode(r)
  PROVE  /\ Volumes(r)' /\ MinuteSeen(r)'
         /\ volume' \in [Router -> [{0, 1} -> Nat]] /\ report' = report
<1>m. PICK m \in Nat : m = rtr[r].min
  BY Fields DEF Steady
<1> DEFINE v == volume[r]
           a == m % 2
           b == (m + 1) % 2
           w == [v EXCEPT ![a] = v[a] + 1]
           x == [head |-> rtr[r].head, body |-> buf[RtrCell(r)][rtr[r].i].body, min |-> rtr[r].min]
<1>0. /\ v \in [{0, 1} -> Nat] /\ volume \in [Router -> [{0, 1} -> Nat]]
      /\ Typed /\ Volumes(r) /\ MinuteSeen(r) /\ report[r] \in Nat /\ now' = now /\ report' = report
  BY Fields DEF Steady, Metered, Decode
<1>1. /\ v[a] = Cardinality(In(r, m)) /\ v[b] = Cardinality(In(r, m - 1)) /\ report[r] = Cardinality(In(r, m - 2))
  BY <1>0, <1>m DEF Volumes
<1>2. volume' = [volume EXCEPT ![r] = w]
  BY <1>m DEF Decode, AddVolume
<1>3. rtr'[r].min = m /\ rtr'[r].cur = rtr[r].cur
  BY <1>0, <1>m, MinuteStays DEF Route, Decode, Poll
<1>4. x \in Packet /\ decoded'[r] = Append(decoded[r], x) /\ x.min = m /\ rtr'[r].pc # "poll"
  <2>1. rtr[r].i < Cap /\ cnt[RtrCell(r)] > 0
    BY AtWork DEF Decode
  <2> QED  BY <1>0, <1>m, <2>1, DecodeIs
<1> HIDE DEF x
<1>5. \A k : Cardinality(In(r, k)') = IF k = m THEN Cardinality(In(r, k)) + 1 ELSE Cardinality(In(r, k))
  BY <1>0, <1>4, InGrows
<1>6. decoded[r] \in Seq(Packet)
  BY <1>0 DEF Typed
<1>7. MinuteSeen(r)'
  <2>1. \A n \in DOMAIN decoded'[r] : decoded'[r][n].min <= m
    <3> DEFINE s == decoded[r]
    <3>1. \A n \in DOMAIN s : s[n].min <= m
      BY <1>0, <1>m DEF MinuteSeen
    <3>2. s \in Seq(Packet) /\ decoded'[r] = Append(s, x)
      BY <1>4, <1>6
    <3> HIDE DEF s
    <3>3. /\ Append(s, x)[Len(s) + 1] = x
          /\ \A n \in DOMAIN s : Append(s, x)[n] = s[n]
          /\ \A n \in DOMAIN Append(s, x) : n \in DOMAIN s \/ n = Len(s) + 1
      BY <1>4, <3>2, Appended
    <3>4. \A n \in DOMAIN Append(s, x) : Append(s, x)[n].min <= m
      BY <1>0, <1>4, <3>1, <3>3
    <3> QED  BY <3>2, <3>4
  <2> QED  BY <1>0, <1>3, <1>4, <1>m, <2>1 DEF MinuteSeen
<1>8. a \in {0, 1} /\ b \in {0, 1} /\ a # b
  BY <1>0, Parity
<1>9. m # m - 1 /\ m # m - 2
  BY <1>0
<1> HIDE DEF v, a, b
<1>10. w \in [{0, 1} -> Nat] /\ w[a] = v[a] + 1 /\ w[b] = v[b]
  BY <1>0, <1>8
<1> HIDE DEF w
<1>11. volume' \in [Router -> [{0, 1} -> Nat]] /\ volume'[r] = w
  BY <1>0, <1>2, <1>10
<1>12. /\ volume'[r][a] = Cardinality(In(r, m)') /\ volume'[r][b] = Cardinality(In(r, m - 1)')
       /\ report'[r] = Cardinality(In(r, m - 2)')
  BY <1>0, <1>1, <1>5, <1>9, <1>10, <1>11
<1>13. Volumes(r)'
  BY <1>0, <1>3, <1>10, <1>11, <1>12 DEF Volumes, a, b
<1> QED  BY <1>0, <1>7, <1>11, <1>13

LEMMA RouteMeters ==
  ASSUME Timely, MinutesSeen, Steady, Metered, NEW r \in Router, Route(r)
  PROVE  Metered'
<1>0. /\ Typed /\ now \in Nat /\ rtr[r].pos \in Nat /\ rtr[r].cur \in Nat
      /\ volume \in [Router -> [{0, 1} -> Nat]] /\ report \in [Router -> Nat]
      /\ \A q \in Router : Volumes(q) /\ MinuteSeen(q)
  BY Fields DEF Steady, Metered
<1>1. now' = now /\ (~Decode(r) => decoded' = decoded)
  BY RouteLeaves
<1>2. ASSUME NEW q \in Router, q # r PROVE Volumes(q)' /\ MinuteSeen(q)'
  <2>1. rtr'[q] = rtr[q] /\ decoded'[q] = decoded[q]
    BY <1>0, <1>2, OthersStay
  <2>2. volume'[q] = volume[q] /\ report'[q] = report[q]
    BY <1>0, <1>2 DEF Route, Poll, SetBusy, Snapshot, ReadHead, Decode, Reset, Release, bandwidth,
                      ReportMinute, AddVolume
  <2>3. Volumes(q)'
    BY <1>0, <2>1, <2>2, VolumesStay
  <2> QED  BY <1>0, <1>1, <2>1, <2>3 DEF MinuteSeen
<1>3. /\ Volumes(r)' /\ MinuteSeen(r)'
      /\ volume' \in [Router -> [{0, 1} -> Nat]] /\ report' \in [Router -> Nat]
  <2>1. CASE Poll(r)
    BY <2>1, PollMeters
  <2>2. CASE Decode(r)
    BY <1>0, <2>2, DecodeMeters
  <2>3. CASE ~Poll(r) /\ ~Decode(r)
    <3>1. volume' = volume /\ report' = report /\ decoded' = decoded
      BY <1>1, <2>3 DEF Route, SetBusy, Snapshot, ReadHead, Reset, Release, bandwidth
    <3>2. rtr'[r].min = rtr[r].min /\ rtr'[r].cur = rtr[r].cur
      BY <1>0, <2>3, MinuteStays
    <3>3. rtr'[r].pc = "poll" => rtr'[r].pos = rtr'[r].cur
      <4> SUFFICES ASSUME rtr'[r].pc = "poll" PROVE rtr'[r].pos = rtr[r].cur
        BY <3>2
      <4>1. Release(r)
        BY <1>0, <2>3, SetBusyIs, SnapshotIs, AtWork, ReadHeadIs, ResetIs DEF Route, ReadHead
      <4>2. /\ NextIndex(rtr[r].last) = ReadIndex(rtr[r].cur) /\ rtr'[r].pos = rtr[r].pos + 1
            /\ rtr[r].pc = "release"
        BY <1>0, <4>1, ReleaseIs
      <4>3. /\ rtr[r].last = ReadIndex(rtr[r].pos) /\ rtr[r].pos < rtr[r].cur
            /\ rtr[r].cur <= now /\ now <= rtr[r].pos + MaxLag
        BY <4>2 DEF Steady, RoutersBehind
      <4>4. ReadIndex(rtr[r].pos + 1) = ReadIndex(rtr[r].cur)
        BY <1>0, <4>2, <4>3, NextSlot
      <4>5. /\ rtr[r].pos + 1 \in Nat /\ rtr[r].pos + 1 <= rtr[r].cur
            /\ rtr[r].cur < (rtr[r].pos + 1) + Slots
        BY <1>0, <4>3, Constants DEF Timely
      <4>6. ~(rtr[r].pos + 1 < rtr[r].cur)
        BY <1>0, <4>4, <4>5, SlotsApart
      <4> QED  BY <1>0, <4>2, <4>5, <4>6
    <3>4. Volumes(r)'
      BY <1>0, <3>1, <3>2, VolumesStay
    <3>5. MinuteSeen(r)'
      BY <1>0, <1>1, <3>1, <3>2, <3>3 DEF MinuteSeen
    <3> QED  BY <1>0, <3>1, <3>4, <3>5
  <2> QED  BY <2>1, <2>2, <2>3
<1> QED  BY <1>2, <1>3 DEF Metered

LEMMA OthersMeter ==
  ASSUME Timely, Steady, Metered, Listener \/ Pause \/ Tick \/ UpdateClock \/ UNCHANGED vars
  PROVE  Metered'
<1>1. UNCHANGED <<rtr, volume, report, decoded>> /\ now \in Nat /\ now' \in Nat /\ now <= now'
  <2>1. CASE Listener
    BY <2>1, ListenerLeaves, Fields DEF Steady, bandwidth
  <2>2. CASE ~Listener
    <3>1. UNCHANGED <<rtr, volume, report, decoded>>
      BY <2>2, TimeLeaves DEF bandwidth
    <3>2. now \in Nat /\ now' \in Nat /\ now <= now'
      BY <2>2, Fields DEF Pause, Tick, UpdateClock, vars, Steady, ListenerAhead
    <3> QED  BY <3>1, <3>2
  <2> QED  BY <2>1, <2>2
<1>2. Minute(now) <= Minute(now') /\ Minute(now) \in Int /\ Minute(now') \in Int
  BY <1>1, Minutes
<1>3. ASSUME NEW r \in Router PROVE Volumes(r)' /\ MinuteSeen(r)'
  <2>1. Volumes(r) /\ MinuteSeen(r)
    BY DEF Metered
  <2>2. Volumes(r)'
    BY <1>1, <2>1, VolumesStay
  <2>3. rtr[r].min <= Minute(now')
    <3>1. rtr[r].min \in Nat /\ rtr[r].min <= Minute(now)
      BY <2>1, Fields DEF Steady, MinuteSeen
    <3> QED  BY <1>2, <3>1
  <2> QED  BY <1>1, <2>1, <2>2, <2>3 DEF MinuteSeen
<1> QED  BY <1>1, <1>3 DEF Metered

LEMMA MeteredStep == ASSUME Timely, MinutesSeen, Steady, Metered, [Next]_vars PROVE Metered'
  BY RouteMeters, OthersMeter DEF Next

(* As long as no router is late by a minute, the two volumes of a router   *)
(* are those of its minute and the one before, and what is shown is that   *)
(* of the minute before them.                                              *)
THEOREM MinutesKeptApart == ASSUME Timely, MinutesSeen PROVE Spec => []MinutesApart
<1>1. Init => Steady /\ Metered
  BY SteadyInit, MeteredInit
<1>2. Steady /\ Metered /\ [Next]_vars => (Steady /\ Metered)'
  BY SteadyStep, MeteredStep
<1>3. Steady /\ Metered => MinutesApart
  BY DEF Metered, Volumes, In, MinutesApart
<1> QED  BY <1>1, <1>2, <1>3, PTL DEF Spec

-----------------------------------------------------------------------------
(* Decoding: what one packet leaves in the MPacket of its router.          *)

HasIp == ReachesIp(pkt.layers)

(* A packet as it may come. *)
Proper ==
  /\ even \in BOOLEAN
  /\ pkt.transport \in {"gx", "s6a"} => IsPacket(pkt)

Parsing ==
  /\ pc \in {"idle", "gx", "s6a", "distribute", "trapped"}
  /\ pc \in {"gx", "s6a"} => pkt.transport = pc
  /\ pc \in {"distribute", "trapped"} => pkt.transport \in {"gx", "s6a"}
  /\ pc # "idle" => HasIp
  /\ offset \in 0 .. Width - 1 /\ left \in 0 .. Width - 1 /\ at \in Nat \ {0}

Parsed == pc = "distribute" \/ (pc = "idle" /\ HasIp)

(* The entry of a message that is decoded; what ends the loop instead.     *)
Full(o) ==
  LET r == ReadAt(pkt, o)
  IN  [app |-> r.app, hop |-> r.hop, from |-> Mine(o), avps |-> IF Brings(r) THEN Mine(o) ELSE Nowhere]

Stops(o) ==
  LET r == ReadAt(pkt, o)
  IN  ~r.header \/ Kept(r) = 0 \/ Kept(r) > pkt.payload - o \/ r.app \in {SY, S6A}

(* The parser's way is the sender's but after a length that is not kept.   *)
Long == \E k \in DOMAIN pkt.starts : Sent(k).length >= Width

InPlace(n, o) == IF n \in DOMAIN pkt.starts THEN o = pkt.starts[n] ELSE Long \/ o >= pkt.payload

Good(n) ==
  \E o \in Nat : Diameter[n] = Full(o) /\ ~Stops(o) /\ InPlace(n, o) /\ o < pkt.payload

(* How the loop ends: with nothing left, with less left than the last      *)
(* message had, or at something that is not decoded.                       *)
Emptied ==
  /\ \A k \in 1 .. at - 1 : Good(k)
  /\ InPlace(at, offset)
  /\ \/ left = 0
     \/ at > 1 /\ \E o \in Nat : InPlace(at - 1, o) /\ Kept(ReadAt(pkt, o)) > left

Stopped ==
  /\ at > 1 /\ \A k \in 1 .. at - 2 : Good(k)
  /\ Diameter[at - 1].hop = 0
  /\ InPlace(at - 1, offset) /\ Stops(offset)

Segment ==
  pkt.transport = "gx" =>
    /\ offset + left = pkt.payload
    /\ pc = "gx" \/ Parsed => DOMAIN Diameter = 1 .. at - 1
    /\ pc = "gx" => (\A k \in 1 .. at - 1 : Good(k)) /\ InPlace(at, offset)
    /\ Parsed => Emptied \/ Stopped

(* No data chunk has been passed since the one the entry is of.            *)
Latest(o) ==
  \A k \in DOMAIN pkt.starts : o < pkt.starts[k] /\ pkt.starts[k] < offset => ~Sent(k).data

AtChunk == \E k \in DOMAIN pkt.starts : offset = pkt.starts[k]

Bundle ==
  pkt.transport = "s6a" =>
    /\ at = 1 /\ DOMAIN Diameter \subseteq {1}
    /\ 1 \in DOMAIN Diameter =>
         /\ Diameter[1].avps = Nowhere \/ \E o \in Nat : Diameter[1].avps = Mine(o)
         /\ Diameter[1].hop > 0 => \E o \in Nat : Diameter[1].from = Mine(o)
    /\ InStep /\ pc # "trapped" =>
         /\ HasIp => AtChunk \/ offset >= pkt.payload
         /\ 1 \in DOMAIN Diameter /\ Diameter[1].hop > 0 =>
              \E m \in DOMAIN pkt.starts : Diameter[1].from = Mine(pkt.starts[m]) /\ Latest(pkt.starts[m])
         /\ Parsed => offset >= pkt.payload \/ Message.chunk = 0

Dealt ==
  [n \in {k \in DOMAIN Diameter : Wanted(Diameter[k])} |->
     [sm |-> Manager(Diameter[n]), entry |-> Diameter[n]]]

Given ==
  /\ pc # "idle" => stored = <<>>
  /\ pc = "idle" => stored = <<>> \/ (HasIp /\ stored = Dealt)
  /\ pc = "idle" /\ pkt.transport = "gx" /\ HasIp => stored = Dealt

Decoding == Proper /\ Parsing /\ Diameter \in Seq(Entry) /\ Segment /\ Bundle /\ Given

-----------------------------------------------------------------------------
(* Sixteen bits of a length, and the padding of a chunk. *)
LEMMA WidthIs == Width \in Nat /\ Width > DiameterHeader
BY DEF Width, DiameterHeader

LEMMA LowBits ==
  ASSUME NEW n \in Nat
  PROVE  /\ n % Width \in 0 .. Width - 1 /\ n % Width <= n
         /\ n < Width => n % Width = n
         /\ n % Width # n => n >= Width
<1>1. \A w \in Nat :
        w > 0 => /\ n % w \in 0 .. w - 1 /\ n % w <= n
                 /\ n < w => n % w = n
  OBVIOUS
<1> QED  BY <1>1, WidthIs DEF DiameterHeader

LEMMA Padding ==
  ASSUME NEW n \in Nat
  PROVE  /\ ((n + 3) \div 4) * 4 \in Nat /\ ((n + 3) \div 4) * 4 >= n
         /\ n % 4 = 0 => ((n + 3) \div 4) * 4 = n
OBVIOUS

LEMMA ReadingTypes ==
  ASSUME Proper, pkt.transport \in {"gx", "s6a"}, NEW o
  PROVE  LET r == ReadAt(pkt, o)
         IN  /\ r.app \in {GX, GY, SY, S6A, NoApp} /\ r.hop \in Nat /\ r.length \in Nat
             /\ r.chunk \in 0 .. Width - 1 /\ Kept(r) \in 0 .. Width - 1
<1>1. Nothing \in Readings
  BY WidthIs DEF Nothing, Readings, DiameterHeader
<1>2. ReadAt(pkt, o) \in Readings
  BY <1>1 DEF ReadAt, Proper, IsPacket
<1>3. ReadAt(pkt, o).length \in Nat
  BY <1>2, WidthIs DEF Readings
<1> QED  BY <1>2, <1>3, LowBits DEF Readings, Kept

LEMMA StartsTypes ==
  ASSUME Proper, pkt.transport \in {"gx", "s6a"}
  PROVE  /\ pkt.payload \in 0 .. Width - 1 /\ pkt.payload \in Nat
         /\ Len(pkt.starts) \in Nat /\ DOMAIN pkt.starts = 1 .. Len(pkt.starts)
         /\ \A k \in DOMAIN pkt.starts :
              /\ pkt.starts[k] \in Nat /\ pkt.starts[k] < pkt.payload
              /\ \A j \in DOMAIN pkt.starts : j < k => pkt.starts[j] < pkt.starts[k]
<1>1. pkt.payload \in 0 .. Width - 1 /\ pkt.starts \in Seq(Nat)
      /\ \A k \in DOMAIN pkt.starts :
           pkt.starts[k] < pkt.payload /\ \A j \in 1 .. k - 1 : pkt.starts[j] < pkt.starts[k]
  <2>1. IsPacket(pkt)
    BY DEF Proper
  <2>2. pkt.payload \in 0 .. Width - 1 /\ pkt.starts \in Seq(Nat)
    BY <2>1 DEF IsPacket
  <2>3. \A k \in DOMAIN pkt.starts :
           pkt.starts[k] < pkt.payload /\ \A j \in 1 .. k - 1 : pkt.starts[j] < pkt.starts[k]
    BY <2>1 DEF IsPacket
  <2> QED  BY <2>2, <2>3
<1>2. Len(pkt.starts) \in Nat /\ DOMAIN pkt.starts = 1 .. Len(pkt.starts)
      /\ \A k \in DOMAIN pkt.starts : pkt.starts[k] \in Nat
  BY <1>1
<1>3. pkt.payload \in Nat
  BY <1>1, WidthIs
<1>4. ASSUME NEW k \in DOMAIN pkt.starts, NEW j \in DOMAIN pkt.starts, j < k
      PROVE  pkt.starts[j] < pkt.starts[k]
  <2>1. j \in 1 .. k - 1
    BY <1>2, <1>4
  <2> QED  BY <1>1, <2>1
<1> QED  BY <1>1, <1>2, <1>3, <1>4

(* Where the sender's next message begins, and its next chunk.             *)
LEMMA NextMessage ==
  ASSUME Proper, pkt.transport = "gx", NEW k \in DOMAIN pkt.starts, Headed(k)
  PROVE  /\ k + 1 \in DOMAIN pkt.starts => pkt.starts[k + 1] = pkt.starts[k] + Sent(k).length
         /\ k + 1 \notin DOMAIN pkt.starts => pkt.starts[k] + Sent(k).length >= pkt.payload
<1>1. Size(pkt, Sent(k)) = Sent(k).length /\ Sent(k).length # 0
  BY DEF Size, Headed
<1>2. IF k < Len(pkt.starts) THEN pkt.starts[k + 1] = pkt.starts[k] + Sent(k).length
                             ELSE pkt.starts[k] + Sent(k).length >= pkt.payload
  BY <1>1 DEF Proper, IsPacket, Sent
<1>3. k \in 1 .. Len(pkt.starts) /\ Len(pkt.starts) \in Nat /\ DOMAIN pkt.starts = 1 .. Len(pkt.starts)
  BY StartsTypes
<1> QED  BY <1>2, <1>3

LEMMA NextChunk ==
  ASSUME Proper, pkt.transport = "s6a", InStep, NEW k \in DOMAIN pkt.starts, Sent(k).chunk # 0
  PROVE  LET end == pkt.starts[k] + Sent(k).chunk
         IN  /\ end \in 0 .. Width - 1 /\ end > pkt.starts[k]
             /\ end >= pkt.payload \/ \E j \in DOMAIN pkt.starts : end = pkt.starts[j]
             /\ \A j \in DOMAIN pkt.starts : pkt.starts[j] < end => pkt.starts[j] <= pkt.starts[k]
<1> DEFINE c == Sent(k).chunk
           size == ((c + 3) \div 4) * 4
<1>1. c \in 0 .. Width - 1 /\ c # 0 /\ c \in Nat
  <2>1. c \in 0 .. Width - 1
    BY ReadingTypes DEF Sent
  <2> QED  BY <2>1, WidthIs
<1>2. size \in Nat /\ size >= c /\ (c % 4 = 0 => size = c)
  BY <1>1, Padding
<1>3. Size(pkt, Sent(k)) = size
  BY DEF Size
<1> HIDE DEF c, size
<1>4. IF k < Len(pkt.starts) THEN pkt.starts[k + 1] = pkt.starts[k] + size
                             ELSE pkt.starts[k] + size >= pkt.payload
  <2>1. size # 0
    BY <1>1, <1>2
  <2> QED  BY <1>3, <2>1 DEF Proper, IsPacket, Sent
<1>5. pkt.starts[k] + c < Width /\ (c % 4 = 0 \/ pkt.starts[k] + c >= pkt.payload)
  BY DEF InStep, c
<1>6. /\ pkt.payload \in Nat /\ Len(pkt.starts) \in Nat /\ DOMAIN pkt.starts = 1 .. Len(pkt.starts)
      /\ \A n \in DOMAIN pkt.starts :
           /\ pkt.starts[n] \in Nat /\ pkt.starts[n] < pkt.payload
           /\ \A j \in DOMAIN pkt.starts : j < n => pkt.starts[j] < pkt.starts[n]
  BY StartsTypes
<1>7. pkt.starts[k] + c \in 0 .. Width - 1 /\ pkt.starts[k] + c > pkt.starts[k]
  <2>1. pkt.starts[k] \in Nat /\ Width \in Nat
    BY <1>6, WidthIs
  <2> QED  BY <1>1, <1>5, <2>1
<1>8. CASE k = Len(pkt.starts)
  <2>1. pkt.starts[k] + c >= pkt.payload
    BY <1>1, <1>2, <1>4, <1>5, <1>6, <1>8
  <2>2. ASSUME NEW j \in DOMAIN pkt.starts PROVE pkt.starts[j] <= pkt.starts[k]
    <3>1. j = k \/ j < k
      BY <1>6, <1>8
    <3> QED  BY <1>6, <3>1
  <2> QED  BY <1>7, <2>1, <2>2 DEF c
<1>9. CASE k # Len(pkt.starts)
  <2>1. k + 1 \in DOMAIN pkt.starts /\ pkt.starts[k + 1] = pkt.starts[k] + size
    BY <1>4, <1>6, <1>9
  <2>2. c % 4 = 0
    BY <1>1, <1>2, <1>5, <1>6, <2>1
  <2>3. pkt.starts[k] + c = pkt.starts[k + 1]
    BY <1>2, <2>1, <2>2
  <2>4. ASSUME NEW j \in DOMAIN pkt.starts, pkt.starts[j] < pkt.starts[k + 1]
        PROVE  pkt.starts[j] <= pkt.starts[k]
    <3>1. j = k \/ j < k \/ j = k + 1 \/ k + 1 < j
      BY <1>6
    <3> QED  BY <1>6, <2>1, <2>4, <3>1
  <2> QED  BY <1>7, <2>1, <2>3, <2>4 DEF c
<1> QED  BY <1>8, <1>9

(* A message that is decoded leads on to the place of the next.            *)
LEMMA NextPlace ==
  ASSUME Proper, pkt.transport = "gx", NEW n \in Nat \ {0}, NEW o \in Nat, o < pkt.payload,
         InPlace(n, o), ~Stops(o)
  PROVE  InPlace(n + 1, o + Kept(ReadAt(pkt, o)))
<1> DEFINE r == ReadAt(pkt, o)
<1>1. /\ DOMAIN pkt.starts = 1 .. Len(pkt.starts) /\ Len(pkt.starts) \in Nat
      /\ pkt.payload \in Nat /\ pkt.payload < Width
      /\ \A k \in DOMAIN pkt.starts : pkt.starts[k] \in Nat /\ pkt.starts[k] < pkt.payload
  BY StartsTypes, WidthIs
<1>2. r.length \in Nat /\ Kept(r) \in Nat /\ Kept(r) # 0 /\ r.header
      /\ (r.length < Width => Kept(r) = r.length)
  <2>1. r.length \in Nat /\ Kept(r) \in 0 .. Width - 1
    BY ReadingTypes
  <2>2. r.length < Width => Kept(r) = r.length
    BY <2>1, LowBits DEF Kept
  <2> QED  BY <2>1, <2>2, WidthIs DEF Stops
<1> HIDE DEF r
<1>3. CASE n \notin DOMAIN pkt.starts
  <2>1. n + 1 \notin DOMAIN pkt.starts /\ Long
    BY <1>1, <1>3 DEF InPlace
  <2> QED  BY <2>1 DEF InPlace
<1>4. CASE n \in DOMAIN pkt.starts
  <2>1. o = pkt.starts[n] /\ Sent(n) = r
    BY <1>4 DEF InPlace, Sent, r
  <2>2. Headed(n)
    <3>1. r.length # 0
      BY <1>2, WidthIs DEF DiameterHeader
    <3> QED  BY <1>2, <2>1, <3>1 DEF Headed
  <2>3. /\ n + 1 \in DOMAIN pkt.starts => pkt.starts[n + 1] = o + r.length
        /\ n + 1 \notin DOMAIN pkt.starts => o + r.length >= pkt.payload
    BY <1>4, <2>1, <2>2, NextMessage
  <2>4. CASE r.length < Width
    BY <1>2, <2>3, <2>4 DEF InPlace, r
  <2>5. CASE r.length >= Width
    <3>1. Long
      BY <1>4, <2>1, <2>5 DEF Long
    <3>2. n + 1 \notin DOMAIN pkt.starts
      <4>1. ASSUME n + 1 \in DOMAIN pkt.starts PROVE FALSE
        <5>1. pkt.starts[n + 1] = o + r.length
          BY <2>3, <4>1
        <5>2. pkt.starts[n + 1] < pkt.payload
          BY <1>1, <4>1
        <5> QED  BY <1>1, <1>2, <2>5, <5>1, <5>2, WidthIs
      <4> QED  BY <4>1
    <3> QED  BY <3>1, <3>2 DEF InPlace
  <2> QED  BY <1>2, <2>4, <2>5, WidthIs
<1> QED  BY <1>3, <1>4

(* What does not depend on where the parser is. *)
LEMMA Carried ==
  ASSUME pkt' = pkt, even' = even
  PROVE  /\ \A o : Full(o)' = Full(o) /\ Stops(o)' = Stops(o) /\ Mine(o)' = Mine(o)
         /\ \A n, o : InPlace(n, o)' = InPlace(n, o)
         /\ InStep' = InStep
BY DEF Full, Stops, Mine, InPlace, Long, InStep, Sent, Kept, Brings, ReadAt

LEMMA MineType == ASSUME even \in BOOLEAN, NEW o \in Nat PROVE Mine(o) \in Source /\ Mine(o) # Nowhere
BY DEF Mine, Source, Nowhere

LEMMA NewEntryType == NewEntry \in Entry
BY DEF NewEntry, Entry, Source, Nowhere

LEMMA SameEntry ==
  ASSUME NEW d \in Entry, NEW e \in Entry,
         d.app = e.app, d.hop = e.hop, d.from = e.from, d.avps = e.avps
  PROVE  d = e
BY DEF Entry

LEMMA InitDecodes == DecodeInit => Decoding
<1> SUFFICES ASSUME DecodeInit PROVE Decoding
  OBVIOUS
<1>1. pkt = [transport |-> "none", layers |-> <<>>, body |-> <<>>, payload |-> 0, starts |-> <<>>]
  BY DEF DecodeInit
<1>2. pkt.transport = "none"
  BY <1>1
<1>3. Proper /\ Segment /\ Bundle
  BY <1>2 DEF Proper, DecodeInit, Segment, Bundle
<1>4. Parsing
  BY WidthIs DEF Parsing, DecodeInit, DiameterHeader
<1>5. Diameter \in Seq(Entry)
  BY DEF DecodeInit
<1>6. Given
  BY <1>2 DEF Given, DecodeInit
<1> QED  BY <1>3, <1>4, <1>5, <1>6 DEF Decoding

LEMMA ArriveDecodes ==
  ASSUME Decoding, NEW p \in Segments \cup Bundles, Arrive(p)
  PROVE  Decoding'
<1>1. /\ pkt' = p /\ even' = ~even /\ Diameter' = <<>> /\ offset' = First(p) /\ left' = p.payload
      /\ at' = 1 /\ stored' = <<>>
      /\ pc' = IF ReachesIp(p.layers) THEN p.transport ELSE "idle"
  BY DEF Arrive
<1>2. IsPacket(p) /\ p.transport \in {"gx", "s6a"}
  BY DecodeAssumption
<1>3. Proper'
  BY <1>1, <1>2 DEF Proper
<1>4. p.payload \in 0 .. Width - 1 /\ First(p) \in 0 .. Width - 1 /\ First(p) \in Nat /\ p.payload \in Nat
  <2>1. p.payload \in 0 .. Width - 1
    BY <1>2 DEF IsPacket
  <2> QED  BY <2>1, WidthIs DEF First, SctpHeader, DiameterHeader
<1>5. Parsing'
  BY <1>1, <1>2, <1>4 DEF Parsing, HasIp
<1>6. Diameter' \in Seq(Entry) /\ DOMAIN Diameter' = {}
  BY <1>1
<1>7. ~ Parsed'
  BY <1>1, <1>2 DEF Parsed, HasIp
<1>8. /\ First(p) >= p.payload \/ (1 \in DOMAIN p.starts /\ First(p) = p.starts[1])
      /\ 1 \in DOMAIN p.starts => p.payload > 0
  <2>1. (First(p) < p.payload => p.starts # <<>> /\ p.starts[1] = First(p)) /\ p.starts \in Seq(Nat)
    BY <1>2 DEF IsPacket
  <2>2. p.starts # <<>> => 1 \in DOMAIN p.starts
    BY <2>1
  <2>3. 1 \in DOMAIN p.starts => p.starts[1] < p.payload /\ p.starts[1] \in Nat
    <3>1. \A k \in DOMAIN p.starts : p.starts[k] < p.payload
      BY <1>2 DEF IsPacket
    <3> QED  BY <2>1, <3>1
  <2> QED  BY <1>4, <2>1, <2>2, <2>3
<1>9. Segment'
  <2>1. SUFFICES ASSUME p.transport = "gx" PROVE Segment'
    BY <1>1 DEF Segment
  <2>2. First(p) = 0 /\ 1 .. at' - 1 = {}
    BY <1>1, <2>1 DEF First
  <2>3. InPlace(1, 0)'
    BY <1>1, <1>4, <1>8, <2>2 DEF InPlace
  <2> QED  BY <1>1, <1>4, <1>6, <1>7, <2>2, <2>3 DEF Segment
<1>10. Bundle'
  <2>1. AtChunk' \/ offset' >= pkt'.payload
    BY <1>1, <1>8 DEF AtChunk
  <2> QED  BY <1>1, <1>6, <1>7, <2>1 DEF Bundle
<1>11. Given'
  BY <1>1, <1>6, <1>7 DEF Given, Parsed, Dealt
<1> QED  BY <1>3, <1>5, <1>6, <1>9, <1>10, <1>11 DEF Decoding

LEMMA NoPayloadDecodes ==
  ASSUME Decoding, NoPayload
  PROVE  Decoding'
<1>1. /\ (pc = "gx" /\ left = 0) \/ (pc = "s6a" /\ offset >= pkt.payload)
      /\ pc' = "distribute"
      /\ pkt' = pkt /\ even' = even /\ Diameter' = Diameter /\ offset' = offset /\ left' = left
      /\ at' = at /\ stored' = stored
  BY DEF NoPayload
<1>2. Proper' /\ Diameter' \in Seq(Entry) /\ Parsing' /\ Given'
  BY <1>1 DEF Proper, Decoding, Parsing, HasIp, Given
<1>3. Segment'
  <2>1. SUFFICES ASSUME pkt.transport = "gx" PROVE Segment'
    BY <1>1 DEF Segment
  <2>2. pc = "gx" /\ left = 0
    BY <1>1, <2>1 DEF Decoding, Parsing
  <2>3. /\ offset + left = pkt.payload /\ DOMAIN Diameter = 1 .. at - 1
        /\ \A k \in 1 .. at - 1 : Good(k)
        /\ InPlace(at, offset)
    BY <2>1, <2>2 DEF Decoding, Segment
  <2>4. (\A k \in 1 .. at - 1 : Good(k)') /\ InPlace(at, offset)'
    BY <1>1, <2>3, Carried DEF Good
  <2>5. Emptied'
    BY <1>1, <2>2, <2>4 DEF Emptied
  <2> QED  BY <1>1, <2>3, <2>5 DEF Segment
<1>4. Bundle'
  <2>1. SUFFICES ASSUME pkt.transport = "s6a" PROVE Bundle'
    BY <1>1 DEF Bundle
  <2>2. pc = "s6a" /\ offset >= pkt.payload
    BY <1>1, <2>1 DEF Decoding, Parsing
  <2> QED  BY <1>1, <2>1, <2>2, Carried DEF Decoding, Bundle, AtChunk, Latest, Sent, HasIp, Message
<1> QED  BY <1>2, <1>3, <1>4 DEF Decoding

LEMMA DistributeDecodes ==
  ASSUME Decoding, Distribute
  PROVE  Decoding'
<1>1. /\ pc = "distribute" /\ pc' = "idle" /\ stored' = Dealt
      /\ pkt' = pkt /\ even' = even /\ Diameter' = Diameter /\ offset' = offset /\ left' = left /\ at' = at
  BY DEF Distribute, Dealt
<1>2. Proper' /\ Diameter' \in Seq(Entry) /\ Parsing' /\ Parsed
  BY <1>1 DEF Proper, Decoding, Parsing, HasIp, Parsed
<1>3. Segment'
  <2>1. SUFFICES ASSUME pkt.transport = "gx" PROVE Segment'
    BY <1>1 DEF Segment
  <2>2. /\ offset + left = pkt.payload /\ DOMAIN Diameter = 1 .. at - 1
        /\ Emptied \/ Stopped
    BY <1>2, <2>1 DEF Decoding, Segment
  <2>3. \A k : Good(k)' = Good(k)
    BY <1>1, Carried DEF Good
  <2>4. (\A n, o : InPlace(n, o)' = InPlace(n, o)) /\ \A o : Stops(o)' = Stops(o)
    BY <1>1, Carried
  <2>5. Emptied => Emptied'
    BY <1>1, <2>3, <2>4 DEF Emptied
  <2>6. Stopped => Stopped'
    BY <1>1, <2>3, <2>4 DEF Stopped
  <2> QED  BY <1>1, <2>2, <2>5, <2>6 DEF Segment
<1>4. Bundle'
  BY <1>1, <1>2, Carried DEF Decoding, Bundle, AtChunk, Latest, Sent, HasIp, Message
<1>5. Given'
  <2>1. Dealt' = Dealt
    BY <1>1 DEF Dealt, Wanted, Manager
  <2>2. HasIp'
    BY <1>1 DEF Decoding, Parsing, HasIp
  <2> QED  BY <1>1, <2>1, <2>2 DEF Given
<1> QED  BY <1>2, <1>3, <1>4, <1>5 DEF Decoding

(* What decodeHeader and the functions of the attributes make of an entry. *)
LEMMA EntriesStay ==
  ASSUME Proper, pkt.transport \in {"gx", "s6a"}, offset \in Nat, NEW entry \in Entry
  PROVE  /\ ResetEntry(entry) \in Entry /\ ResetEntry(entry).hop = 0 /\ ResetEntry(entry).avps = entry.avps
         /\ HeaderOnly(entry) \in Entry /\ HeaderOnly(entry).hop = entry.hop /\ HeaderOnly(entry).avps = entry.avps
         /\ Decoded(entry) \in Entry /\ Decoded(entry).from = Mine(offset)
         /\ Decoded(entry).app = Message.app /\ Decoded(entry).hop = Message.hop
         /\ Decoded(entry).avps = Attributes(entry)
<1>1. Message.app \in {GX, GY, SY, S6A, NoApp} /\ Message.hop \in Nat
  BY ReadingTypes DEF Message
<1>2. Mine(offset) \in Source
  BY MineType DEF Proper
<1>3. entry.avps \in Source /\ Attributes(entry) \in Source
  BY <1>2 DEF Attributes, Entry
<1>4. NewEntry \in Entry /\ NewEntry.hop = 0
  BY NewEntryType DEF NewEntry
<1>5. ResetEntry(entry) \in Entry /\ ResetEntry(entry).hop = 0 /\ ResetEntry(entry).avps = entry.avps
  BY <1>3, <1>4 DEF ResetEntry, Entry
<1>6. HeaderOnly(entry) \in Entry /\ HeaderOnly(entry).hop = entry.hop /\ HeaderOnly(entry).avps = entry.avps
  BY <1>1, <1>2 DEF HeaderOnly, Entry
<1>7. /\ Decoded(entry) \in Entry /\ Decoded(entry).from = Mine(offset)
      /\ Decoded(entry).app = Message.app /\ Decoded(entry).hop = Message.hop
      /\ Decoded(entry).avps = Attributes(entry)
  BY <1>1, <1>2, <1>3 DEF Decoded, Entry
<1> QED  BY <1>5, <1>6, <1>7

(* One round of parseGxPacket, by what parseDiameterChunk makes of the     *)
(* message: an entry of its own, and either all of it or the end.          *)
LEMMA GxRound ==
  ASSUME Decoding, pc = "gx", left > 0
  PROVE  /\ pkt.transport = "gx" /\ DOMAIN Diameter = 1 .. at - 1
         /\ offset \in Nat /\ offset < pkt.payload /\ left = pkt.payload - offset
         /\ GxChunk.entry \in Entry
         /\ \/ GxChunk.length = 0 /\ GxChunk.entry.hop = 0 /\ Stops(offset)
            \/ /\ GxChunk.length = Kept(ReadAt(pkt, offset)) /\ GxChunk.length \in Nat /\ GxChunk.length > 0
               /\ GxChunk.length <= left
               /\ GxChunk.entry = Full(offset) /\ ~ Stops(offset)
<1>1. /\ pkt.transport = "gx" /\ DOMAIN Diameter = 1 .. at - 1 /\ at \in Nat \ {0}
      /\ offset + left = pkt.payload /\ Proper
      /\ offset \in 0 .. Width - 1 /\ left \in 0 .. Width - 1
  BY DEF Decoding, Parsing, Segment
<1>2. offset \in Nat /\ offset < pkt.payload /\ left = pkt.payload - offset /\ left \in Nat
  BY <1>1, WidthIs
<1>3. ResetEntry(EntryAt(at)) = NewEntry
  <2>1. at \notin DOMAIN Diameter
    BY <1>1
  <2> QED  BY <2>1 DEF EntryAt, ResetEntry, NewEntry
<1>4. /\ Message = ReadAt(pkt, offset) /\ Kept(Message) \in Nat
      /\ Message.app \in {GX, GY, SY, S6A, NoApp} /\ Message.hop \in Nat
  <2>1. Kept(Message) \in 0 .. Width - 1
    BY <1>1, ReadingTypes DEF Message
  <2> QED  BY <1>1, <2>1, ReadingTypes, WidthIs DEF Message
<1>5. NewEntry.hop = 0 /\ NewEntry.avps = Nowhere /\ NewEntry \in Entry
  BY NewEntryType DEF NewEntry
<1>6. CASE ~ GxHeader
  <2>1. GxChunk = [entry |-> NewEntry, length |-> 0]
    BY <1>3, <1>6 DEF GxChunk
  <2>2. Stops(offset)
    BY <1>2, <1>4, <1>6 DEF Stops, GxHeader
  <2> QED  BY <1>1, <1>2, <1>5, <2>1, <2>2
<1>7. CASE GxHeader /\ Message.app \in {SY, S6A}
  <2>1. GxChunk = [entry |-> HeaderOnly(NewEntry), length |-> 0]
    BY <1>3, <1>7 DEF GxChunk
  <2>2. Stops(offset)
    BY <1>4, <1>7 DEF Stops
  <2>3. HeaderOnly(NewEntry) \in Entry /\ HeaderOnly(NewEntry).hop = 0
    BY <1>1, <1>2, <1>5, EntriesStay
  <2> QED  BY <1>1, <1>2, <2>1, <2>2, <2>3
<1>8. CASE GxHeader /\ Message.app \notin {SY, S6A}
  <2>1. GxChunk = [entry |-> Decoded(NewEntry), length |-> Kept(Message)]
    BY <1>3, <1>8 DEF GxChunk
  <2>2. Decoded(NewEntry) = Full(offset) /\ Decoded(NewEntry) \in Entry
    <3>1. Attributes(NewEntry) = IF Brings(Message) THEN Mine(offset) ELSE Nowhere
      BY <1>5 DEF Attributes
    <3>2. /\ Decoded(NewEntry) \in Entry /\ Decoded(NewEntry).from = Mine(offset)
          /\ Decoded(NewEntry).app = Message.app /\ Decoded(NewEntry).hop = Message.hop
          /\ Decoded(NewEntry).avps = Attributes(NewEntry)
      BY <1>1, <1>2, <1>5, EntriesStay
    <3>3. Mine(offset) \in Source /\ Nowhere \in Source
      BY <1>1, <1>2, MineType DEF Proper, Source
    <3>4. /\ Full(offset) \in Entry
          /\ Full(offset).app = Message.app /\ Full(offset).hop = Message.hop
          /\ Full(offset).from = Mine(offset)
          /\ Full(offset).avps = IF Brings(Message) THEN Mine(offset) ELSE Nowhere
      BY <1>4, <3>3 DEF Full, Entry
    <3> QED  BY <3>1, <3>2, <3>4, SameEntry
  <2>3. Kept(Message) > 0 /\ Kept(Message) <= left /\ ~ Stops(offset)
    BY <1>2, <1>4, <1>8 DEF Stops, GxHeader
  <2> QED  BY <1>1, <1>2, <1>4, <2>1, <2>2, <2>3
<1> QED  BY <1>6, <1>7, <1>8

LEMMA ParseGxDecodes ==
  ASSUME Decoding, ParseGx
  PROVE  Decoding'
<1> DEFINE c == GxChunk
<1>1. /\ pc = "gx" /\ left > 0
      /\ Diameter' = Put(at, c.entry)
      /\ offset' = (offset + c.length) % Width /\ left' = left - c.length
      /\ at' = at + 1
      /\ pc' = IF GoesOn(left', c.length) THEN "gx" ELSE "distribute"
      /\ pkt' = pkt /\ even' = even /\ stored' = stored
  BY DEF ParseGx
<1>2. /\ pkt.transport = "gx" /\ DOMAIN Diameter = 1 .. at - 1
      /\ offset \in Nat /\ offset < pkt.payload /\ left = pkt.payload - offset
      /\ c.entry \in Entry
      /\ \/ c.length = 0 /\ c.entry.hop = 0 /\ Stops(offset)
         \/ /\ c.length = Kept(ReadAt(pkt, offset)) /\ c.length \in Nat /\ c.length > 0
            /\ c.length <= left
            /\ c.entry = Full(offset) /\ ~ Stops(offset)
  BY <1>1, GxRound
<1> HIDE DEF c
<1>3. /\ at \in Nat \ {0} /\ pkt.payload \in Nat /\ pkt.payload < Width /\ Proper /\ HasIp
      /\ (\A k \in 1 .. at - 1 : Good(k)) /\ InPlace(at, offset)
  <2>1. Proper /\ pkt.payload \in 0 .. Width - 1
    BY <1>2, StartsTypes DEF Decoding
  <2> QED  BY <1>1, <1>2, <2>1, WidthIs DEF Decoding, Parsing, Segment
<1>4. offset' = offset + c.length /\ left' = pkt.payload - offset' /\ offset' \in Nat /\ left' \in Nat
      /\ offset' <= pkt.payload
  <2>3. c.length \in Nat /\ c.length <= pkt.payload - offset
    <3>1. left \in Int /\ left > 0 /\ left = pkt.payload - offset
      BY <1>1, <1>2, <1>3
    <3>2. CASE c.length = 0
      BY <3>1, <3>2
    <3>3. CASE c.length \in Nat /\ c.length <= left
      BY <3>1, <3>3
    <3> QED  BY <1>2, <3>2, <3>3
  <2>1. offset + c.length \in Nat /\ offset + c.length < Width /\ offset + c.length <= pkt.payload
        /\ (pkt.payload - offset) - c.length = pkt.payload - (offset + c.length)
        /\ pkt.payload - (offset + c.length) \in Nat
    <3>1. \A o, p, w, l \in Nat : p < w /\ l <= p - o =>
             /\ o + l \in Nat /\ o + l < w /\ o + l <= p
             /\ (p - o) - l = p - (o + l) /\ p - (o + l) \in Nat
      OBVIOUS
    <3>2. offset \in Nat /\ pkt.payload \in Nat /\ Width \in Nat /\ pkt.payload < Width
      BY <1>2, <1>3, WidthIs
    <3> QED  BY <2>3, <3>1, <3>2
  <2>2. (offset + c.length) % Width = offset + c.length
    BY <2>1, LowBits
  <2>4. offset' = offset + c.length /\ left' = (pkt.payload - offset) - c.length
    BY <1>1, <1>2, <2>2
  <2> QED  BY <2>1, <2>4
<1>5. DOMAIN Diameter' = 1 .. at' - 1 /\ Diameter'[at] = c.entry
      /\ \A k \in 1 .. at - 1 : Diameter'[k] = Diameter[k]
  BY <1>1, <1>2, <1>3 DEF Put
<1>6. Proper'
  BY <1>1 DEF Proper, Decoding
<1>7. Diameter' \in Seq(Entry)
  <2>1. Diameter' = [k \in 1 .. at |-> IF k = at THEN c.entry ELSE Diameter[k]]
    BY <1>1, <1>2, <1>3 DEF Put
  <2>2. \A k \in 1 .. at - 1 : Diameter[k] \in Entry
    <3>1. Diameter \in Seq(Entry)
      BY DEF Decoding
    <3> QED  BY <1>2, <1>3, <3>1
  <2>3. \A k \in 1 .. at : (IF k = at THEN c.entry ELSE Diameter[k]) \in Entry
    BY <1>2, <1>3, <2>2
  <2> QED  BY <1>3, <2>1, <2>3
<1>8. Given' /\ Bundle'
  <2>1. stored = <<>>
    BY <1>1 DEF Decoding, Given
  <2>2. pc' # "idle"
    BY <1>1
  <2> QED  BY <1>1, <1>2, <2>1, <2>2 DEF Given, Bundle
<1>9. Parsing'
  <2>1. offset' \in 0 .. Width - 1 /\ left' \in 0 .. Width - 1 /\ at' \in Nat \ {0}
    BY <1>1, <1>3, <1>4, WidthIs
  <2> QED  BY <1>1, <1>2, <1>3, <2>1 DEF Parsing, HasIp
<1>10. \A k \in 1 .. at - 1 : Good(k)'
  <2>1. ASSUME NEW k \in 1 .. at - 1 PROVE Good(k)'
    <3>1. PICK o \in Nat : Diameter[k] = Full(o) /\ ~Stops(o) /\ InPlace(k, o) /\ o < pkt.payload
      BY <1>3 DEF Good
    <3> QED  BY <1>1, <1>5, <3>1, Carried DEF Good
  <2> QED  BY <2>1
<1>11. CASE c.length = 0 /\ c.entry.hop = 0 /\ Stops(offset)
  <2>1. offset' = offset /\ left' = left /\ pc' = "distribute"
    BY <1>1, <1>2, <1>3, <1>4, <1>11 DEF GoesOn
  <2>2. at' > 1 /\ at' - 1 = at /\ at' - 2 = at - 1
    BY <1>1, <1>3
  <2>3. InPlace(at - 1, offset)' /\ Stops(offset)'
    BY <1>1, <1>3, <1>11, <2>1, <2>2 DEF InPlace, Long, Sent, Stops, Kept, ReadAt
  <2>4. Stopped'
    BY <1>5, <1>10, <1>11, <2>2, <2>3 DEF Stopped
  <2>5. Segment'
    BY <1>3, <1>4, <1>5, <2>1, <2>4, <1>1 DEF Segment
  <2> QED  BY <1>6, <1>7, <1>8, <1>9, <2>5 DEF Decoding
<1>12. CASE /\ c.length = Kept(ReadAt(pkt, offset)) /\ c.length \in Nat /\ c.length > 0
            /\ c.length <= left
            /\ c.entry = Full(offset) /\ ~ Stops(offset)
  <2>1. at' - 1 = at /\ at' > 1 /\ at' \in Nat \ {0}
    BY <1>1, <1>3
  <2>2. InPlace(at + 1, offset + c.length)
    BY <1>1, <1>2, <1>3, <1>4, <1>12, NextPlace
  <2>3. InPlace(at, offset)'
    BY <1>1, <1>4, <2>2 DEF InPlace, Long, Sent, ReadAt
  <2> PICK o \in Nat : o = offset
    BY <1>2
  <2>4. InPlace(at, o) /\ InPlace(at - 1, o)'
    BY <1>1, <1>3, <2>1 DEF InPlace, Long, Sent, ReadAt
  <2> PICK a \in Nat \ {0} : a = at
    BY <1>3
  <2>5. Good(a)'
    <3>1. Diameter'[a] = Full(o) /\ ~Stops(o) /\ InPlace(a, o) /\ o < pkt'.payload
      BY <1>1, <1>2, <1>5, <1>12, <2>4
    <3> QED  BY <1>1, <3>1, Carried DEF Good
  <2>6. \A k \in 1 .. at' - 1 : Good(k)'
    <3>1. \A k \in 1 .. at' - 1 : k = a \/ k \in 1 .. at - 1
      <4>1. at' - 1 = a
        BY <2>1
      <4>2. \A k \in 1 .. a : k = a \/ k \in 1 .. a - 1
        OBVIOUS
      <4> QED  BY <4>1, <4>2
    <3> QED  BY <1>10, <2>5, <3>1
  <2>7. pc' \in {"gx", "distribute"} /\ (pc' = "distribute" => left' = 0 \/ left' < c.length)
    BY <1>1, <1>4, <1>12 DEF GoesOn
  <2>8. pc' = "distribute" => Emptied'
    <3>1. Kept(ReadAt(pkt, o))' = c.length
      BY <1>1, <1>12 DEF Kept, ReadAt
    <3> QED  BY <1>4, <1>12, <2>1, <2>3, <2>4, <2>6, <2>7, <3>1 DEF Emptied
  <2>9. Segment'
    <3>1. offset' + left' = pkt'.payload
      BY <1>1, <1>3, <1>4
    <3>2. Parsed' => pc' = "distribute"
      BY <2>7 DEF Parsed
    <3> QED  BY <1>5, <2>3, <2>6, <2>8, <3>1, <3>2 DEF Segment
  <2> QED  BY <1>6, <1>7, <1>8, <1>9, <2>9 DEF Decoding
<1> QED  BY <1>2, <1>11, <1>12


(* What a data chunk makes of entry 0. *)
LEMMA S6aRound ==
  ASSUME Proper, pkt.transport = "s6a", offset \in Nat, NEW entry \in Entry
  PROVE  /\ S6aChunk(entry) \in Entry
         /\ S6aChunk(entry).avps = entry.avps \/ S6aChunk(entry).avps = Mine(offset)
         /\ S6aChunk(entry).hop > 0 => S6aChunk(entry).from = Mine(offset)
<1> DEFINE r == ResetEntry(entry)
<1>1. r \in Entry /\ r.hop = 0 /\ r.avps = entry.avps
  BY EntriesStay
<1> HIDE DEF r
<1>2. /\ HeaderOnly(r) \in Entry /\ HeaderOnly(r).hop = r.hop /\ HeaderOnly(r).avps = r.avps
      /\ Decoded(r) \in Entry /\ Decoded(r).from = Mine(offset)
      /\ Decoded(r).avps = Attributes(r)
  BY <1>1, EntriesStay
<1>3. Decoded(r).avps = entry.avps \/ Decoded(r).avps = Mine(offset)
  BY <1>1, <1>2 DEF Attributes
<1>4. S6aChunk(entry) = r \/ S6aChunk(entry) = HeaderOnly(r) \/ S6aChunk(entry) = Decoded(r)
  BY DEF S6aChunk, S6aDecoded, r
<1>5. ~ (0 > 0)
  OBVIOUS
<1>6. CASE S6aChunk(entry) = r
  BY <1>1, <1>5, <1>6
<1>7. CASE S6aChunk(entry) = HeaderOnly(r)
  BY <1>1, <1>2, <1>5, <1>7
<1>8. CASE S6aChunk(entry) = Decoded(r)
  BY <1>2, <1>3, <1>8
<1> QED  BY <1>4, <1>6, <1>7, <1>8

LEMMA ParseSctpDecodes ==
  ASSUME Decoding, ParseSctp
  PROVE  Decoding'
<1>1. /\ pc = "s6a" /\ offset < pkt.payload
      /\ Diameter' = IF HasData THEN Put(1, S6aChunk(EntryAt(1))) ELSE Diameter
      /\ offset' = (offset + Message.chunk) % Width
      /\ pc' = IF Message.chunk # 0 /\ offset' < pkt.payload THEN "s6a" ELSE "distribute"
      /\ pkt' = pkt /\ even' = even /\ left' = left /\ at' = at /\ stored' = stored
  BY DEF ParseSctp
<1>2. /\ pkt.transport = "s6a" /\ Proper /\ HasIp /\ stored = <<>> /\ at = 1
      /\ Diameter \in Seq(Entry) /\ DOMAIN Diameter \subseteq {1}
      /\ 1 \in DOMAIN Diameter =>
           /\ Diameter[1].avps = Nowhere \/ \E o \in Nat : Diameter[1].avps = Mine(o)
           /\ Diameter[1].hop > 0 => \E o \in Nat : Diameter[1].from = Mine(o)
  BY <1>1 DEF Decoding, Parsing, Bundle, Given
<1>3. /\ offset \in Nat /\ offset \in 0 .. Width - 1 /\ Message.chunk \in 0 .. Width - 1
      /\ Message.chunk \in Nat /\ offset + Message.chunk \in Nat
  <2>1. offset \in 0 .. Width - 1 /\ Message.chunk \in 0 .. Width - 1
    BY <1>2, ReadingTypes DEF Decoding, Parsing, Message
  <2> QED  BY <2>1, WidthIs
<1>4. offset' \in 0 .. Width - 1 /\ offset' \in Nat
  <2>1. offset' \in 0 .. Width - 1
    BY <1>1, <1>3, LowBits
  <2> QED  BY <2>1, WidthIs
<1> DEFINE d == S6aChunk(EntryAt(1))
<1>5. EntryAt(1) \in Entry /\ (EntryAt(1).avps = Nowhere \/ \E o \in Nat : EntryAt(1).avps = Mine(o))
  <2>1. CASE 1 \in DOMAIN Diameter
    BY <1>2, <2>1 DEF EntryAt
  <2>2. CASE 1 \notin DOMAIN Diameter
    BY <2>2, NewEntryType DEF EntryAt, NewEntry
  <2> QED  BY <2>1, <2>2
<1>6. /\ d \in Entry
      /\ d.avps = Nowhere \/ \E o \in Nat : d.avps = Mine(o)
      /\ d.hop > 0 => d.from = Mine(offset)
  BY <1>2, <1>3, <1>5, S6aRound
<1>7. HasData => Diameter' = <<d>> /\ DOMAIN Diameter' = {1} /\ Diameter'[1] = d
  <2>1. Put(1, d) = [k \in {1} |-> d]
    BY <1>2 DEF Put
  <2>2. [k \in {1} |-> d] = <<d>> /\ DOMAIN <<d>> = {1} /\ <<d>>[1] = d
    <3>1. \A e : [k \in 1 .. 1 |-> e] = <<e>> /\ 1 .. 1 = {1}
      OBVIOUS
    <3> QED  BY <3>1
  <2> QED  BY <1>1, <2>1, <2>2
<1>8. ~ HasData => Diameter' = Diameter
  BY <1>1
<1> HIDE DEF d
<1>9. Proper'
  BY <1>1, <1>2 DEF Proper
<1>10. Diameter' \in Seq(Entry)
  <2>1. CASE HasData
    <3>1. Diameter' = <<d>>
      BY <1>7, <2>1
    <3> QED  BY <1>6, <3>1
  <2>2. CASE ~ HasData
    BY <1>2, <1>8, <2>2
  <2> QED  BY <2>1, <2>2
<1>11. Parsing'
  BY <1>1, <1>2, <1>4 DEF Decoding, Parsing, HasIp
<1>12. Segment' /\ Given'
  BY <1>1, <1>2 DEF Segment, Given
<1>13. /\ at' = 1 /\ DOMAIN Diameter' \subseteq {1}
       /\ 1 \in DOMAIN Diameter' =>
            /\ Diameter'[1].avps = Nowhere \/ \E o \in Nat : Diameter'[1].avps = Mine(o)'
            /\ Diameter'[1].hop > 0 => \E o \in Nat : Diameter'[1].from = Mine(o)'
  <2>1. \A o : Mine(o)' = Mine(o)
    BY <1>1, Carried
  <2>2. CASE HasData
    BY <1>1, <1>2, <1>3, <1>6, <1>7, <2>1, <2>2
  <2>3. CASE ~ HasData
    BY <1>1, <1>2, <1>8, <2>1, <2>3
  <2> QED  BY <2>2, <2>3
<1>14. ASSUME InStep
       PROVE  /\ AtChunk' \/ offset' >= pkt.payload
              /\ 1 \in DOMAIN Diameter' /\ Diameter'[1].hop > 0 =>
                   \E m \in DOMAIN pkt.starts : Diameter'[1].from = Mine(pkt.starts[m]) /\ Latest(pkt.starts[m])'
              /\ pc' = "distribute" => offset' >= pkt.payload \/ Message'.chunk = 0
  <2>1. PICK k \in DOMAIN pkt.starts : offset = pkt.starts[k]
    <3>1. AtChunk \/ offset >= pkt.payload
      BY <1>1, <1>2, <1>14 DEF Decoding, Bundle
    <3>2. pkt.payload \in Nat
      BY <1>2, StartsTypes
    <3> QED  BY <1>1, <1>3, <3>1, <3>2 DEF AtChunk
  <2>2. Message = Sent(k)
    BY <2>1 DEF Message, Sent
  <2>3. 1 \in DOMAIN Diameter /\ Diameter[1].hop > 0 =>
          \E m \in DOMAIN pkt.starts : Diameter[1].from = Mine(pkt.starts[m]) /\ Latest(pkt.starts[m])
    BY <1>1, <1>2, <1>14 DEF Decoding, Bundle
  <2>4. \A j \in DOMAIN pkt.starts : pkt.starts[j] \in Nat
    BY <1>2, StartsTypes
  <2>5. CASE Message.chunk = 0
    <3>1. ~ HasData
      BY <2>5 DEF HasData
    <3>2. offset' = offset
      <4>1. offset + Message.chunk = offset /\ offset < Width
        BY <1>3, <2>5, WidthIs
      <4>2. offset % Width = offset
        BY <1>3, <4>1, LowBits
      <4> QED  BY <1>1, <4>1, <4>2
    <3>3. AtChunk' /\ Message' = Message
      BY <1>1, <2>1, <3>2 DEF AtChunk, Message
    <3>4. \A m \in DOMAIN pkt.starts : Latest(pkt.starts[m]) => Latest(pkt.starts[m])'
      BY <1>1, <3>2 DEF Latest, Sent
    <3> QED  BY <1>8, <2>3, <2>5, <3>1, <3>3, <3>4
  <2>6. CASE Message.chunk # 0
    <3> DEFINE end == pkt.starts[k] + Sent(k).chunk
    <3>1. /\ end \in 0 .. Width - 1
          /\ end >= pkt.payload \/ \E j \in DOMAIN pkt.starts : end = pkt.starts[j]
          /\ \A j \in DOMAIN pkt.starts : pkt.starts[j] < end => pkt.starts[j] <= pkt.starts[k]
      BY <1>2, <1>14, <2>2, <2>6, NextChunk
    <3>2. offset' = end
      <4>1. end \in Nat /\ end < Width
        BY <3>1, WidthIs
      <4>2. end % Width = end
        BY <4>1, LowBits
      <4> QED  BY <1>1, <2>1, <2>2, <4>2
    <3> HIDE DEF end
    <3>3. AtChunk' \/ offset' >= pkt.payload
      BY <1>1, <3>1, <3>2 DEF AtChunk
    <3>4. pc' = "distribute" => offset' >= pkt.payload
      <4>1. pkt.payload \in Nat
        BY <1>2, StartsTypes
      <4> QED  BY <1>1, <1>4, <2>6, <4>1
    <3>5. CASE HasData
      <4>1. Latest(pkt.starts[k])'
        <5>1. \A j \in DOMAIN pkt.starts : ~ (pkt.starts[k] < pkt.starts[j] /\ pkt.starts[j] < end)
          BY <2>4, <3>1
        <5> QED  BY <1>1, <3>2, <5>1 DEF Latest
      <4> QED  BY <1>6, <1>7, <2>1, <3>3, <3>4, <3>5, <4>1
    <3>6. CASE ~ HasData
      <4>1. ~ Message.data
        BY <2>6, <3>6 DEF HasData
      <4>2. ASSUME NEW m \in DOMAIN pkt.starts, Latest(pkt.starts[m])
            PROVE  Latest(pkt.starts[m])'
        <5>1. ASSUME NEW j \in DOMAIN pkt.starts, pkt.starts[m] < pkt.starts[j], pkt.starts[j] < end
              PROVE  ~ Sent(j).data
          <6>1. pkt.starts[j] < offset \/ pkt.starts[j] = offset
            BY <2>1, <2>4, <3>1, <5>1
          <6>2. CASE pkt.starts[j] < offset
            BY <4>2, <5>1, <6>2 DEF Latest
          <6>3. CASE pkt.starts[j] = offset
            BY <4>1, <6>3 DEF Sent, Message
          <6> QED  BY <6>1, <6>2, <6>3
        <5> QED  BY <1>1, <3>2, <5>1 DEF Latest, Sent
      <4> QED  BY <1>8, <2>3, <3>3, <3>4, <3>6, <4>2
    <3> QED  BY <3>5, <3>6
  <2> QED  BY <2>5, <2>6
<1>15. Bundle'
  <2>1. InStep' = InStep /\ \A o : Mine(o)' = Mine(o)
    BY <1>1, Carried
  <2>2. Parsed' => pc' = "distribute"
    BY <1>1 DEF Parsed
  <2> QED  BY <1>1, <1>13, <1>14, <2>1, <2>2 DEF Bundle
<1> QED  BY <1>9, <1>10, <1>11, <1>12, <1>15 DEF Decoding

LEMMA LoopOverAvpsDecodes ==
  ASSUME Decoding, LoopOverAvps
  PROVE  Decoding'
<1> DEFINE d == Decoded(ResetEntry(EntryAt(at)))
<1>1. /\ (pc = "gx" /\ left > 0) \/ (pc = "s6a" /\ offset < pkt.payload)
      /\ Diameter' = Put(at, d) /\ pc' = "trapped"
      /\ pkt' = pkt /\ even' = even /\ offset' = offset /\ left' = left /\ at' = at /\ stored' = stored
  BY DEF LoopOverAvps
<1>2. /\ pkt.transport = pc /\ Proper /\ HasIp /\ stored = <<>> /\ Diameter \in Seq(Entry)
      /\ offset \in 0 .. Width - 1 /\ left \in 0 .. Width - 1 /\ at \in Nat \ {0}
  BY <1>1 DEF Decoding, Parsing, Given
<1>3. offset \in Nat
  BY <1>2, WidthIs
<1>4. EntryAt(at) \in Entry /\ (pc = "s6a" => EntryAt(at).avps = Nowhere \/ \E o \in Nat : EntryAt(at).avps = Mine(o))
  <2>1. CASE at \in DOMAIN Diameter
    <3>1. EntryAt(at) = Diameter[at] /\ Diameter[at] \in Entry
      BY <1>2, <2>1 DEF EntryAt
    <3>2. pc = "s6a" => Diameter[at].avps = Nowhere \/ \E o \in Nat : Diameter[at].avps = Mine(o)
      BY <1>2, <2>1 DEF Decoding, Bundle
    <3> QED  BY <3>1, <3>2
  <2>2. CASE at \notin DOMAIN Diameter
    BY <2>2, NewEntryType DEF EntryAt, NewEntry
  <2> QED  BY <2>1, <2>2
<1>5. d \in Entry /\ d.from = Mine(offset) /\ (d.avps = Mine(offset) \/ d.avps = EntryAt(at).avps)
  <2> DEFINE r == ResetEntry(EntryAt(at))
  <2>1. pkt.transport \in {"gx", "s6a"}
    BY <1>1, <1>2
  <2>2. r \in Entry /\ r.avps = EntryAt(at).avps
    BY <1>2, <1>3, <1>4, <2>1, EntriesStay
  <2> HIDE DEF r
  <2>3. Decoded(r) \in Entry /\ Decoded(r).from = Mine(offset) /\ Decoded(r).avps = Attributes(r)
    BY <1>2, <1>3, <2>1, <2>2, EntriesStay
  <2>4. d = Decoded(r)
    BY DEF r
  <2> QED  BY <2>2, <2>3, <2>4 DEF Attributes
<1> HIDE DEF d
<1>6. CASE pc = "gx"
  <2>1. DOMAIN Diameter = 1 .. at - 1 /\ offset + left = pkt.payload
    BY <1>2, <1>6 DEF Decoding, Segment
  <2>2. Diameter' = [k \in 1 .. at |-> IF k = at THEN d ELSE Diameter[k]]
    BY <1>1, <1>2, <2>1 DEF Put
  <2>3. \A k \in 1 .. at : (IF k = at THEN d ELSE Diameter[k]) \in Entry
    BY <1>2, <1>5, <2>1
  <2>4. Diameter' \in Seq(Entry)
    BY <1>2, <2>2, <2>3
  <2>5. Segment' /\ Bundle'
    BY <1>1, <1>2, <1>6, <2>1 DEF Segment, Bundle, Parsed
  <2> QED  BY <1>1, <1>2, <2>4, <2>5 DEF Decoding, Proper, Parsing, HasIp, Given
<1>7. CASE pc = "s6a"
  <2>1. at = 1 /\ DOMAIN Diameter \subseteq {1}
    BY <1>2, <1>7 DEF Decoding, Bundle
  <2>2. Diameter' = <<d>> /\ DOMAIN Diameter' = {1} /\ Diameter'[1] = d
    <3>1. Put(1, d) = [k \in {1} |-> d]
      BY <2>1 DEF Put
    <3>2. \A e : [k \in 1 .. 1 |-> e] = <<e>> /\ 1 .. 1 = {1} /\ DOMAIN <<e>> = {1} /\ <<e>>[1] = e
      OBVIOUS
    <3> QED  BY <1>1, <2>1, <3>1, <3>2
  <2>3. Diameter' \in Seq(Entry)
    BY <1>5, <2>2
  <2>4. Mine(offset) = Mine(offset)' /\ \A o : Mine(o)' = Mine(o)
    BY <1>1, Carried
  <2>5. Diameter'[1].avps = Nowhere \/ \E o \in Nat : Diameter'[1].avps = Mine(o)'
    <3>1. d.avps = Nowhere \/ \E o \in Nat : d.avps = Mine(o)
      BY <1>3, <1>4, <1>5, <1>7
    <3> QED  BY <2>2, <2>4, <3>1
  <2>6. \E o \in Nat : Diameter'[1].from = Mine(o)'
    BY <1>3, <1>5, <2>2, <2>4
  <2>7. Segment' /\ Bundle'
    BY <1>1, <1>2, <1>7, <2>1, <2>2, <2>5, <2>6 DEF Segment, Bundle
  <2> QED  BY <1>1, <1>2, <2>3, <2>7 DEF Decoding, Proper, Parsing, HasIp, Given
<1> QED  BY <1>1, <1>6, <1>7

LEMMA DecodesAlways == DecodeSpec => []Decoding
<1>1. DecodeInit => Decoding
  BY InitDecodes
<1>2. Decoding /\ [DecodeNext]_decodeVars => Decoding'
  <2> SUFFICES ASSUME Decoding, [DecodeNext]_decodeVars PROVE Decoding'
    OBVIOUS
  <2>1. CASE \E p \in Segments \cup Bundles : Arrive(p)
    BY <2>1, ArriveDecodes
  <2>2. CASE ParseGx
    BY <2>2, ParseGxDecodes
  <2>3. CASE NoPayload
    BY <2>3, NoPayloadDecodes
  <2>4. CASE ParseSctp
    BY <2>4, ParseSctpDecodes
  <2>5. CASE LoopOverAvps
    BY <2>5, LoopOverAvpsDecodes
  <2>6. CASE Distribute
    BY <2>6, DistributeDecodes
  <2>7. CASE UNCHANGED decodeVars
    <3>1. /\ pc' = pc /\ pkt' = pkt /\ even' = even /\ Diameter' = Diameter /\ offset' = offset
          /\ left' = left /\ at' = at /\ stored' = stored
      BY <2>7 DEF decodeVars
    <3>2. Proper' /\ Parsing' /\ Diameter' \in Seq(Entry) /\ Bundle' /\ Given'
      BY <3>1, Carried DEF Decoding, Proper, Parsing, HasIp, Bundle, Parsed, AtChunk, Latest, Sent, Message,
         Given, Dealt, Wanted, Manager
    <3>3. Segment'
      <4>1. \A k : Good(k)' = Good(k)
        BY <3>1, Carried DEF Good
      <4>2. (\A n, o : InPlace(n, o)' = InPlace(n, o)) /\ \A o : Stops(o)' = Stops(o)
        BY <3>1, Carried
      <4>3. Emptied' = Emptied
        BY <3>1, <4>1, <4>2 DEF Emptied, Kept, ReadAt
      <4>4. Stopped' = Stopped
        BY <3>1, <4>1, <4>2 DEF Stopped
      <4> QED  BY <3>1, <4>1, <4>2, <4>3, <4>4 DEF Decoding, Segment, Parsed, HasIp
    <3> QED  BY <3>2, <3>3 DEF Decoding
  <2> QED  BY <2>1, <2>2, <2>3, <2>4, <2>5, <2>6, <2>7 DEF DecodeNext, Step
<1> QED  BY <1>1, <1>2, PTL DEF DecodeSpec

(* What is stored is an entry, given to the session manager of its hop-by- *)
(* hop identifier.                                                         *)
LEMMA StoredIsDealt ==
  ASSUME Decoding, NEW n \in DOMAIN stored
  PROVE  /\ pc = "idle" /\ HasIp /\ Parsed /\ n \in DOMAIN Diameter /\ n \in Nat \ {0}
         /\ stored[n] = [sm |-> Manager(Diameter[n]), entry |-> Diameter[n]]
         /\ Diameter[n] \in Entry /\ Diameter[n].hop > 0
<1>1. stored # <<>>
  <2>1. DOMAIN <<>> = {}
    OBVIOUS
  <2> QED  BY <2>1
<1>2. pc = "idle" /\ HasIp /\ stored = Dealt /\ Diameter \in Seq(Entry)
  BY <1>1 DEF Decoding, Given
<1>3. n \in DOMAIN Diameter /\ Wanted(Diameter[n]) /\ stored[n] = [sm |-> Manager(Diameter[n]), entry |-> Diameter[n]]
  BY <1>2 DEF Dealt
<1>4. n \in Nat \ {0} /\ Diameter[n] \in Entry
  BY <1>2, <1>3
<1> QED  BY <1>2, <1>3, <1>4 DEF Parsed, Wanted

LEMMA DecodingTyped == Decoding => DecodeTypeOK
<1> SUFFICES ASSUME Decoding PROVE DecodeTypeOK
  OBVIOUS
<1>1. pc \in {"idle", "gx", "s6a", "distribute", "trapped"} /\ Diameter \in Seq(Entry)
      /\ offset \in 0 .. Width - 1 /\ left \in 0 .. Width - 1
  BY DEF Decoding, Parsing
<1>2. ASSUME NEW n \in DOMAIN stored
      PROVE  stored[n] \in [sm : 0 .. Instances - 1, entry : Entry]
  <2>1. /\ stored[n] = [sm |-> Manager(Diameter[n]), entry |-> Diameter[n]] /\ Diameter[n] \in Entry
    BY <1>2, StoredIsDealt
  <2>2. Diameter[n].hop \in Nat
    BY <2>1 DEF Entry
  <2>3. Manager(Diameter[n]) \in 0 .. Instances - 1
    BY <2>2, DecodeAssumption DEF Manager
  <2> QED  BY <2>1, <2>3
<1>3. pkt.transport = "s6a" => Len(Diameter) <= 1
  <2>1. ASSUME DOMAIN Diameter \subseteq {1} PROVE Len(Diameter) <= 1
    <3>1. Len(Diameter) \in Nat /\ DOMAIN Diameter = 1 .. Len(Diameter)
      BY <1>1
    <3>2. \A l \in Nat : 1 .. l \subseteq {1} => l <= 1
      OBVIOUS
    <3> QED  BY <2>1, <3>1, <3>2
  <2> QED  BY <2>1 DEF Decoding, Bundle
<1> QED  BY <1>1, <1>2, <1>3 DEF DecodeTypeOK

(* What is stored was decoded as a whole. *)
LEMMA StoredIsGood ==
  ASSUME Decoding, pkt.transport = "gx", NEW n \in DOMAIN stored
  PROVE  Good(n)
<1>1. /\ Parsed /\ n \in DOMAIN Diameter /\ n \in Nat \ {0} /\ Diameter[n].hop > 0
      /\ at \in Nat \ {0} /\ DOMAIN Diameter = 1 .. at - 1 /\ (Emptied \/ Stopped)
  BY StoredIsDealt DEF Decoding, Parsing, Segment
<1>2. CASE Emptied
  BY <1>1, <1>2 DEF Emptied
<1>3. CASE Stopped
  <2>1. Diameter[at - 1].hop = 0 /\ \A k \in 1 .. at - 2 : Good(k)
    BY <1>3 DEF Stopped
  <2>2. n # at - 1
    BY <1>1, <2>1
  <2>3. n \in 1 .. at - 2
    BY <1>1, <2>2
  <2> QED  BY <2>1, <2>3
<1> QED  BY <1>1, <1>2, <1>3

LEMMA DecodingGxFaithful == Decoding => GxFaithful
<1> SUFFICES ASSUME Decoding, pkt.transport = "gx" PROVE GxFaithful
  BY DEF GxFaithful
<1>1. Proper /\ pkt.payload \in Nat /\ offset \in Nat /\ left \in Nat /\ offset + left = pkt.payload
  BY StartsTypes, WidthIs DEF Decoding, Parsing, Segment
<1>2. left \in 0 .. pkt.payload
  BY <1>1
<1>3. ASSUME NEW n \in DOMAIN stored
      PROVE  LET entry == stored[n].entry
                 o     == entry.from[2]
             IN  /\ entry.from # Nowhere /\ entry.from = Mine(o)
                 /\ entry.hop = ReadAt(pkt, o).hop
                 /\ entry.avps = IF Brings(ReadAt(pkt, o)) THEN Mine(o) ELSE Nowhere
                 /\ o + Kept(ReadAt(pkt, o)) <= pkt.payload
                 /\ IF n \in DOMAIN pkt.starts THEN o = pkt.starts[n]
                    ELSE \E k \in DOMAIN pkt.starts : Sent(k).length >= Width
  <2>1. PICK o \in Nat : Diameter[n] = Full(o) /\ ~Stops(o) /\ InPlace(n, o) /\ o < pkt.payload
    BY <1>3, StoredIsGood DEF Good
  <2>2. stored[n].entry = Full(o)
    BY <1>3, <2>1, StoredIsDealt
  <2>3. /\ Full(o).from = Mine(o) /\ Full(o).hop = ReadAt(pkt, o).hop
        /\ Full(o).avps = IF Brings(ReadAt(pkt, o)) THEN Mine(o) ELSE Nowhere
    BY DEF Full
  <2>4. Mine(o)[2] = o /\ Mine(o) # Nowhere
    BY DEF Mine, Nowhere
  <2>5. o + Kept(ReadAt(pkt, o)) <= pkt.payload
    <3>1. Kept(ReadAt(pkt, o)) \in Nat
      <4>1. Kept(ReadAt(pkt, o)) \in 0 .. Width - 1
        BY <1>1, ReadingTypes
      <4> QED  BY <4>1, WidthIs
    <3>2. ~ (Kept(ReadAt(pkt, o)) > pkt.payload - o)
      BY <2>1 DEF Stops
    <3> QED  BY <1>1, <3>1, <3>2
  <2>6. IF n \in DOMAIN pkt.starts THEN o = pkt.starts[n]
        ELSE \E k \in DOMAIN pkt.starts : Sent(k).length >= Width
    BY <1>1, <2>1 DEF InPlace, Long
  <2> QED  BY <2>2, <2>3, <2>4, <2>5, <2>6
<1> QED  BY <1>2, <1>3 DEF GxFaithful

LEMMA DecodingLastChunk == Decoding => S6aLastChunk
<1> SUFFICES ASSUME Decoding, pkt.transport = "s6a", NEW n \in DOMAIN stored
             PROVE  LET entry == stored[n].entry
                    IN  /\ n = 1
                        /\ entry.from # Nowhere /\ entry.from[1] = even
                        /\ entry.avps # Nowhere => entry.avps[1] = even
                        /\ InStep =>
                             /\ \E k \in DOMAIN pkt.starts : entry.from[2] = pkt.starts[k]
                             /\ \A k \in DOMAIN pkt.starts :
                                  pkt.starts[k] > entry.from[2] /\ Sent(k).data =>
                                    \E z \in 1 .. k : Sent(z).chunk = 0
  BY DEF S6aLastChunk
<1>1. /\ n \in DOMAIN Diameter /\ stored[n].entry = Diameter[n] /\ Diameter[n].hop > 0
      /\ Parsed /\ HasIp /\ pc = "idle"
  BY StoredIsDealt
<1>2. n = 1
  BY <1>1 DEF Decoding, Bundle
<1>3. \A o : Mine(o)[1] = even /\ Mine(o)[2] = o /\ Mine(o) # Nowhere
  BY DEF Mine, Nowhere
<1>4. /\ Diameter[1].avps = Nowhere \/ \E o \in Nat : Diameter[1].avps = Mine(o)
      /\ \E o \in Nat : Diameter[1].from = Mine(o)
  BY <1>1, <1>2 DEF Decoding, Bundle
<1>5. ASSUME InStep
      PROVE  /\ \E k \in DOMAIN pkt.starts : Diameter[1].from[2] = pkt.starts[k]
             /\ \A k \in DOMAIN pkt.starts :
                  pkt.starts[k] > Diameter[1].from[2] /\ Sent(k).data => \E z \in 1 .. k : Sent(z).chunk = 0
  <2>1. PICK m \in DOMAIN pkt.starts : Diameter[1].from = Mine(pkt.starts[m]) /\ Latest(pkt.starts[m])
    BY <1>1, <1>2, <1>5 DEF Decoding, Bundle
  <2>2. Diameter[1].from[2] = pkt.starts[m]
    BY <1>3, <2>1
  <2>3. (AtChunk \/ offset >= pkt.payload) /\ (offset >= pkt.payload \/ Message.chunk = 0)
    BY <1>1, <1>5 DEF Decoding, Bundle
  <2>4. /\ pkt.payload \in Nat /\ offset \in Nat
        /\ Len(pkt.starts) \in Nat /\ DOMAIN pkt.starts = 1 .. Len(pkt.starts)
        /\ \A k \in DOMAIN pkt.starts :
             /\ pkt.starts[k] \in Nat /\ pkt.starts[k] < pkt.payload
             /\ \A j \in DOMAIN pkt.starts : j < k => pkt.starts[j] < pkt.starts[k]
    BY StartsTypes, WidthIs DEF Decoding, Parsing
  <2>5. ASSUME NEW k \in DOMAIN pkt.starts, pkt.starts[k] > pkt.starts[m], Sent(k).data
        PROVE  \E z \in 1 .. k : Sent(z).chunk = 0
    <3>1. pkt.starts[k] >= offset
      <4>1. ~ (pkt.starts[k] < offset)
        BY <2>1, <2>5 DEF Latest
      <4> QED  BY <2>4, <4>1
    <3>2. offset < pkt.payload
      BY <2>4, <3>1
    <3>3. Message.chunk = 0 /\ AtChunk
      BY <2>3, <2>4, <3>2
    <3>4. PICK z \in DOMAIN pkt.starts : offset = pkt.starts[z]
      BY <3>3 DEF AtChunk
    <3>5. Sent(z).chunk = 0
      BY <3>3, <3>4 DEF Sent, Message
    <3>6. ~ (k < z)
      <4>1. ASSUME k < z PROVE FALSE
        <5>1. pkt.starts[k] < offset /\ pkt.starts[k] \in Nat
          BY <2>4, <3>4, <4>1
        <5> QED  BY <2>4, <3>1, <5>1
      <4> QED  BY <4>1
    <3>7. z \in 1 .. k
      BY <2>4, <3>6
    <3> QED  BY <3>5, <3>7
  <2> QED  BY <2>2, <2>5
<1> QED  BY <1>1, <1>2, <1>3, <1>4, <1>5

LEMMA DecodingLossExplained == Decoding => GxLossExplained
<1> SUFFICES ASSUME Decoding, pc = "idle", pkt.transport = "gx", ReachesIp(pkt.layers),
                    NEW n \in DOMAIN pkt.starts, Asked(n)
             PROVE  \/ n \in DOMAIN stored
                    \/ pkt.starts[n] + Sent(n).length > pkt.payload
                    \/ \E k \in 1 .. n - 1 : ~Headed(k) \/ Sent(k).app \in {SY, S6A}
                    \/ \E k \in 1 .. n - 1 : Sent(k).length > pkt.payload - pkt.starts[k + 1]
  BY DEF GxLossExplained
<1>1. /\ Proper /\ Parsed /\ (Emptied \/ Stopped) /\ stored = Dealt /\ DOMAIN Diameter = 1 .. at - 1
      /\ offset + left = pkt.payload /\ at \in Nat \ {0}
  BY DEF Decoding, Parsed, HasIp, Segment, Given, Parsing
<1>2. /\ pkt.payload \in Nat /\ offset \in Nat /\ left \in Nat
      /\ Len(pkt.starts) \in Nat /\ DOMAIN pkt.starts = 1 .. Len(pkt.starts)
      /\ \A k \in DOMAIN pkt.starts :
           /\ pkt.starts[k] \in Nat /\ pkt.starts[k] < pkt.payload
           /\ \A j \in DOMAIN pkt.starts : j < k => pkt.starts[j] < pkt.starts[k]
  BY <1>1, StartsTypes, WidthIs DEF Decoding, Parsing
<1>3. \A k : /\ Sent(k).length \in Nat /\ Kept(Sent(k)) \in Nat /\ Kept(Sent(k)) <= Sent(k).length
             /\ Kept(Sent(k)) # Sent(k).length => Sent(k).length >= Width
  <2>1. \A k : Sent(k).length \in Nat
    BY <1>1, ReadingTypes DEF Sent
  <2>2. \A l \in Nat : l % Width \in Nat /\ l % Width <= l /\ (l % Width # l => l >= Width)
    <3>1. \A l \in Nat : l % Width \in 0 .. Width - 1
      BY LowBits
    <3> QED  BY <3>1, LowBits, WidthIs
  <2> QED  BY <2>1, <2>2 DEF Kept
<1>4. pkt.payload < Width
  BY <1>1, StartsTypes, WidthIs
<1>5. ASSUME n < at, Good(n)
      PROVE  n \in DOMAIN stored
  <2>1. PICK o \in Nat : Diameter[n] = Full(o) /\ InPlace(n, o)
    BY <1>5 DEF Good
  <2>2. o = pkt.starts[n]
    BY <2>1 DEF InPlace
  <2>3. Diameter[n].hop = Sent(n).hop /\ Diameter[n].app = Sent(n).app
    BY <2>1, <2>2 DEF Full, Sent
  <2>4. Wanted(Diameter[n])
    BY <2>3 DEF Wanted, Asked
  <2>5. n \in DOMAIN Diameter
    BY <1>1, <1>2, <1>5
  <2> QED  BY <1>1, <2>4, <2>5 DEF Dealt
(* A message of which nothing is kept, or more than there is, is cut off.  *)
<1>6. ASSUME NEW k \in DOMAIN pkt.starts, k <= n, k \in Nat, Headed(k),
             Kept(Sent(k)) = 0 \/ Kept(Sent(k)) > pkt.payload - pkt.starts[k]
      PROVE  pkt.starts[n] + Sent(n).length > pkt.payload
  <2>1. Sent(k).length > pkt.payload - pkt.starts[k]
    <3>1. Sent(k).length # 0 /\ pkt.starts[k] \in Nat
      BY <1>2, <1>6 DEF Headed
    <3>2. \A l, kept, p, o, w \in Nat :
            /\ l # 0 /\ p < w /\ kept <= l /\ (kept # l => l >= w)
            /\ kept = 0 \/ kept > p - o
            => l > p - o
      OBVIOUS
    <3>3. /\ Sent(k).length \in Nat /\ Kept(Sent(k)) \in Nat /\ Kept(Sent(k)) <= Sent(k).length
          /\ Kept(Sent(k)) # Sent(k).length => Sent(k).length >= Width
      BY <1>3
    <3>4. pkt.payload \in Nat /\ Width \in Nat
      BY <1>2, WidthIs
    <3> QED  BY <1>4, <1>6, <3>1, <3>2, <3>3, <3>4
  <2>2. k = n
    <3>1. ASSUME k < n PROVE FALSE
      <4>1. k + 1 \in DOMAIN pkt.starts
        BY <1>2, <1>6, <3>1
      <4>2. pkt.starts[k + 1] = pkt.starts[k] + Sent(k).length
        BY <1>1, <1>6, <4>1, NextMessage
      <4>3. pkt.starts[k + 1] < pkt.payload /\ pkt.starts[k] \in Nat /\ pkt.payload \in Nat
        BY <1>2, <4>1
      <4>4. Sent(k).length \in Nat
        BY <1>3
      <4> QED  BY <2>1, <4>2, <4>3, <4>4
    <3>2. k \in Nat /\ n \in Nat /\ k <= n
      BY <1>2, <1>6
    <3> QED  BY <3>1, <3>2
  <2>3. Sent(n).length \in Nat /\ pkt.starts[n] \in Nat /\ pkt.payload \in Nat
    BY <1>2, <1>3
  <2> QED  BY <2>1, <2>2, <2>3
<1>7. CASE Emptied
  <2>1. (\A k \in 1 .. at - 1 : Good(k)) /\ InPlace(at, offset)
    BY <1>7 DEF Emptied
  <2>2. CASE n < at
    <3>1. Good(n)
      BY <1>1, <1>2, <2>1, <2>2
    <3> QED  BY <1>5, <2>2, <3>1
  <2>3. CASE n >= at
    <3>1. at \in DOMAIN pkt.starts
      BY <1>1, <1>2, <2>3
    <3>2. offset = pkt.starts[at]
      BY <2>1, <3>1 DEF InPlace
    <3>3. left # 0
      <4>1. offset < pkt.payload
        BY <1>2, <3>1, <3>2
      <4> QED  BY <1>1, <1>2, <4>1
    <3>4. PICK o \in Nat : at > 1 /\ InPlace(at - 1, o) /\ Kept(ReadAt(pkt, o)) > left
      BY <1>7, <3>3 DEF Emptied
    <3>5. at - 1 \in DOMAIN pkt.starts /\ at - 1 \in 1 .. n - 1 /\ (at - 1) + 1 = at
      <4>1. at > 1 /\ at \in Nat /\ n \in 1 .. Len(pkt.starts) /\ Len(pkt.starts) \in Nat
        BY <1>1, <1>2, <3>4
      <4>2. at - 1 \in 1 .. Len(pkt.starts) /\ at - 1 \in 1 .. n - 1 /\ (at - 1) + 1 = at
        BY <2>3, <4>1
      <4> QED  BY <1>2, <4>2
    <3>6. o = pkt.starts[at - 1]
      BY <3>4, <3>5 DEF InPlace
    <3>7. Kept(Sent(at - 1)) > left
      BY <3>4, <3>6 DEF Sent
    <3>8. left = pkt.payload - pkt.starts[at]
      BY <1>1, <1>2, <3>2
    <3>9. Sent(at - 1).length > pkt.payload - pkt.starts[at]
      BY <1>2, <1>3, <3>7, <3>8
    <3> QED  BY <3>5, <3>9
  <2> QED  BY <1>1, <1>2, <2>2, <2>3
<1>8. CASE Stopped
  <2>1. /\ at > 1 /\ (\A k \in 1 .. at - 2 : Good(k))
        /\ InPlace(at - 1, offset) /\ Stops(offset)
    BY <1>8 DEF Stopped
  <2>2. CASE n < at - 1
    <3>1. Good(n) /\ n < at
      BY <1>1, <1>2, <2>1, <2>2
    <3> QED  BY <1>5, <3>1
  <2>3. CASE n >= at - 1
    <3> PICK k \in Nat : k = at - 1
      BY <1>1, <2>1
    <3>1. k \in DOMAIN pkt.starts /\ k <= n
      BY <1>1, <1>2, <2>1, <2>3
    <3>2. offset = pkt.starts[k]
      BY <2>1, <3>1 DEF InPlace
    <3>3. \/ ~ Sent(k).header \/ Kept(Sent(k)) = 0 \/ Kept(Sent(k)) > pkt.payload - pkt.starts[k]
          \/ Sent(k).app \in {SY, S6A}
      BY <2>1, <3>2 DEF Stops, Sent
    <3>4. CASE Headed(k) /\ Sent(k).app \notin {SY, S6A}
      <4>1. Kept(Sent(k)) = 0 \/ Kept(Sent(k)) > pkt.payload - pkt.starts[k]
        BY <3>3, <3>4 DEF Headed
      <4> QED  BY <1>6, <3>1, <3>4, <4>1
    <3>5. CASE ~ Headed(k) \/ Sent(k).app \in {SY, S6A}
      <4>1. k # n
        BY <3>5, DecodeAssumption DEF Asked
      <4>2. k \in 1 .. n - 1
        BY <1>2, <3>1, <4>1
      <4> QED  BY <3>5, <4>2
    <3> QED  BY <3>4, <3>5
  <2> QED  BY <1>1, <1>2, <2>2, <2>3
<1> QED  BY <1>1, <1>7, <1>8

(* Every entry of msgObj->Diameter, and what the session managers get, has *)
(* the shape of an SDiameterBody, and a session manager that exists; the   *)
(* parsers' offsets and lengths stay within their 16 bits.                 *)
THEOREM DecodeTypes == DecodeSpec => []DecodeTypeOK
BY DecodesAlways, DecodingTyped, PTL

(* The messages of a segment reach the session managers in their order,    *)
(* each with its own attributes and none beyond the payload, though the    *)
(* parser keeps 16 bits of their lengths; and of an SCTP packet at most    *)
(* one entry, of that packet, which is the last data chunk as long as the  *)
(* parser's 16-bit offset, without padding, keeps in step with the chunks: *)
(* whatever a packet carries, and whatever the MPacket held before.        *)
THEOREM DecodesFaithfully == DecodeSpec => []Faithful
<1>1. Decoding => Faithful
  BY DecodingGxFaithful, DecodingLastChunk DEF Faithful
<1> QED  BY <1>1, DecodesAlways, PTL

(* A Gx or Gy message of a segment is lost for one of four reasons only.   *)
THEOREM DecodeLossExplained == DecodeSpec => []GxLossExplained
BY DecodesAlways, DecodingLossExplained, PTL
=============================================================================
