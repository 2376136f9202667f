------------------------------ MODULE PktRing ------------------------------
(***************************************************************************)
(* The packet repository of one interface: the listener deals the packets  *)
(* it captures out to the routers in turn, into the slot of the next       *)
(* second; each router empties its slots as their seconds pass and keeps   *)
(* the bandwidth of each minute.  The packet buffers are allocated once    *)
(* and written in place, head (length and time stamp) and body apart.      *)
(*                                                                         *)
(* The routers take the time from the variable the timer thread keeps,     *)
(* which may be behind gettimeofday; an Ethernet listener takes it from    *)
(* there, a Solarflare listener from that variable or, if so configured,   *)
(* from the time stamps of the card, whose clock drifts.  A packet whose   *)
(* protocol is not handled changes nothing here and is left out.  Apart is *)
(* what makes it sound to take the accesses to one count as one step.      *)
(***************************************************************************)
EXTENDS TimeSlots, Sequences, FiniteSets

CONSTANTS
  Routers,   \* ROUTER_PER_INTERFACE
  Cap,       \* MAX_PKT_ALLOWED_PER_TIME_INDEX, a percentage of Buffers
  Buffers,   \* RawPkt buffers allocated for each slot
  SecPerMin, \* seconds to the minute, 60 in the program
  MaxPkts,   \* bound: packets captured
  MaxTime,   \* bound: seconds
  MaxStall,  \* seconds that may begin between reading the clock and storing
  MaxSkew,   \* seconds the timer thread may be behind gettimeofday
  MaxDrift,  \* seconds the card's clock may be off gettimeofday
  MaxLag     \* seconds a router may be behind the timer thread

ASSUME PktRingAssumption ==
  /\ Routers \in Nat \ {0}
  /\ Cap \in Nat /\ Buffers \in Nat /\ Cap <= Buffers
  /\ SecPerMin \in Nat \ {0}
  /\ MaxPkts \in Nat /\ MaxTime \in Nat \ {0}
  /\ MaxStall \in Nat /\ MaxSkew \in Nat /\ MaxDrift \in Nat /\ MaxLag \in Nat

Router == 0 .. Routers - 1
Minute(t) == t \div SecPerMin
Cells == Router \X (0 .. Slots - 1)

VARIABLES
  source,      \* what the listener takes the time of a packet from
  real,        \* gettimeofday
  now,         \* IPGlobal::CURRENT_EPOCH_SEC
  processing,  \* IPGlobal::PACKET_PROCESSING
  buf,         \* pktRepository_i_r_t: head and body of each buffer
  cnt,         \* pktRepository_cnt_i_r_t
  busy,        \* pktRepository_busy_i_r_t
  lst,         \* the listener's progress and its ROUTER_TO_PROCESS
  rtr,         \* each router's progress
  volume,      \* bw_i_r_t: by router, the packets of odd and of even minutes
  report,      \* BW_MBPS_i_r
  captured,    \* history: packets captured; a packet's identity is its number
  dealt,       \* history: the packets dealt to each router
  decoded      \* history: what each router decoded, head and body, and when

ring == <<buf, cnt, busy>>
bandwidth == <<volume, report>>
history == <<captured, dealt, decoded>>
vars == <<source, real, now, processing, ring, lst, rtr, bandwidth, history>>

EmptyBuffer == [head |-> 0, body |-> 0]
NoVolume == [parity \in {0, 1} |-> 0]

Init ==
  /\ source \in {"ethernet", "solarflare", "hardware"}
  /\ real = 1 /\ now = 1
  /\ processing = TRUE
  /\ buf = [c \in Cells |-> [i \in 0 .. Buffers - 1 |-> EmptyBuffer]]
  /\ cnt = [c \in Cells |-> 0]
  /\ busy = [c \in Cells |-> FALSE]
  /\ lst = [pc |-> "idle", at |-> 1, idx |-> 0, next |-> 0]
  /\ rtr = [r \in Router |-> [pc |-> "poll", last |-> ReadIndex(1), pos |-> 1, cur |-> 1,
                              size |-> 0, i |-> 0, head |-> 0, min |-> Minute(1)]]
  /\ volume = [r \in Router |-> NoVolume]
  /\ report = [r \in Router |-> 0]
  /\ captured = 0
  /\ dealt = [r \in Router |-> <<>>]
  /\ decoded = [r \in Router |-> <<>>]

-----------------------------------------------------------------------------
(* packetReaderCallback and consume_packet *)

LstCell == <<lst.next, lst.idx>>

(* SOLARFLARE_HW_TIMESTAMP; the stamps of a card never go back. *)
Stamp ==
  CASE source = "ethernet" -> {real}
    [] source = "solarflare" -> {now}
    [] source = "hardware" -> {t \in real - MaxDrift .. real + MaxDrift : t >= lst.at}

Capture ==
  /\ lst.pc = "idle"
  /\ captured < MaxPkts
  /\ captured' = captured + 1
  /\ \E at \in Stamp : lst' = [lst EXCEPT !.pc = "test", !.at = at, !.idx = WriteIndex(at, at)]
  /\ UNCHANGED <<source, real, now, processing, ring, rtr, bandwidth, dealt, decoded>>

Dismiss ==
  /\ lst' = [lst EXCEPT !.pc = "idle"]
  /\ UNCHANGED <<source, real, now, processing, ring, rtr, bandwidth, history>>

Paused == lst.pc = "test" /\ ~processing /\ Dismiss

Refuse ==
  /\ lst.pc = "test" /\ processing
  /\ busy[LstCell] \/ cnt[LstCell] >= Cap
  /\ Dismiss

WriteHead ==
  /\ lst.pc = "test" /\ processing /\ ~busy[LstCell] /\ cnt[LstCell] < Cap
  /\ buf' = [buf EXCEPT ![LstCell][cnt[LstCell]].head = captured]
  /\ lst' = [lst EXCEPT !.pc = "body"]
  /\ UNCHANGED <<source, real, now, processing, cnt, busy, rtr, bandwidth, history>>

WriteBody ==
  /\ lst.pc = "body"
  /\ buf' = [buf EXCEPT ![LstCell][cnt[LstCell]].body = captured]
  /\ lst' = [lst EXCEPT !.pc = "count"]
  /\ UNCHANGED <<source, real, now, processing, cnt, busy, rtr, bandwidth, history>>

(* Faulty variant: the next packet goes to the same router.                *)
DealSameRouter ==
  /\ lst.pc = "count"
  /\ cnt' = [cnt EXCEPT ![LstCell] = @ + 1]
  /\ dealt' = [dealt EXCEPT ![lst.next] = Append(@, captured)]
  /\ lst' = [lst EXCEPT !.pc = "idle"]
  /\ UNCHANGED <<source, real, now, processing, buf, busy, rtr, bandwidth, captured, decoded>>

(* The packet is in the ring, and the next one is for the next router. *)
Deal ==
  /\ lst.pc = "count"
  /\ cnt' = [cnt EXCEPT ![LstCell] = @ + 1]
  /\ dealt' = [dealt EXCEPT ![lst.next] = Append(@, captured)]
  /\ lst' = [lst EXCEPT !.pc = "idle",
                        !.next = IF lst.next + 1 >= Routers THEN 0 ELSE lst.next + 1]
  /\ UNCHANGED <<source, real, now, processing, buf, busy, rtr, bandwidth, captured, decoded>>

Listener ==
  Capture \/ Paused \/ Refuse \/ WriteHead \/ WriteBody \/ Deal

-----------------------------------------------------------------------------
(* PacketRouter::run and processQueueDecode *)

RtrCell(r) == <<r, rtr[r].last>>

(* Faulty variant: the report takes the minute that has just ended.        *)
ReportThisMinute(r) ==
  /\ report' = [report EXCEPT ![r] = volume[r][rtr[r].min % 2]]
  /\ volume' = [volume EXCEPT ![r][rtr[r].min % 2] = 0]

(* setBWData: the minute before the one that has just ended.               *)
ReportMinute(r) ==
  /\ report' = [report EXCEPT ![r] = volume[r][(rtr[r].min + 1) % 2]]
  /\ volume' = [volume EXCEPT ![r][(rtr[r].min + 1) % 2] = 0]

(* The timer thread writes the minute after the second, so that the router *)
(* may read it a moment too early.                                         *)
Poll(r) ==
  /\ rtr[r].pc = "poll"
  /\ LET due == rtr[r].last # ReadIndex(now)
     IN  \E min \in {Minute(now - 1), Minute(now)} :
           /\ min >= rtr[r].min
           /\ due \/ min # rtr[r].min
           /\ IF min # rtr[r].min THEN ReportMinute(r) ELSE UNCHANGED bandwidth
           /\ rtr' = [rtr EXCEPT ![r] = [@ EXCEPT !.pc = IF due THEN "visit" ELSE "poll",
                                                  !.cur = IF due THEN now ELSE rtr[r].cur, !.min = min]]
  /\ UNCHANGED <<source, real, now, processing, ring, lst, history>>

SetBusy(r) ==
  /\ rtr[r].pc = "visit"
  /\ busy' = [busy EXCEPT ![RtrCell(r)] = TRUE]
  /\ rtr' = [rtr EXCEPT ![r].pc = "size"]
  /\ UNCHANGED <<source, real, now, processing, buf, cnt, lst, bandwidth, history>>

Snapshot(r) ==
  /\ rtr[r].pc = "size"
  /\ LET size == cnt[RtrCell(r)]
     IN  rtr' = [rtr EXCEPT ![r] = [@ EXCEPT !.pc = IF size > 0 THEN "head" ELSE "release",
                                             !.size = size, !.i = 0]]
  /\ UNCHANGED <<source, real, now, processing, ring, lst, bandwidth, history>>

ReadHead(r) ==
  /\ rtr[r].pc = "head"
  /\ rtr' = [rtr EXCEPT ![r] = [@ EXCEPT !.pc = "decode", !.head = buf[RtrCell(r)][rtr[r].i].head]]
  /\ UNCHANGED <<source, real, now, processing, ring, lst, bandwidth, history>>

(* updateBWData: into the volume of the router's minute.                   *)
AddVolume(r) == volume' = [volume EXCEPT ![r][rtr[r].min % 2] = @ + 1]

(* decodePacket with its update of the bandwidth, and the count of what is *)
(* left.                                                                   *)
Decode(r) ==
  /\ rtr[r].pc = "decode"
  /\ decoded' = [decoded EXCEPT ![r] =
                   Append(@, [head |-> rtr[r].head, body |-> buf[RtrCell(r)][rtr[r].i].body,
                              min |-> rtr[r].min])]
  /\ AddVolume(r)
  /\ cnt' = [cnt EXCEPT ![RtrCell(r)] = @ - 1]
  /\ rtr' = [rtr EXCEPT ![r] = [@ EXCEPT !.pc = IF rtr[r].i + 1 < rtr[r].size THEN "head" ELSE "reset",
                                         !.i = rtr[r].i + 1]]
  /\ UNCHANGED <<source, real, now, processing, buf, busy, lst, report, captured, dealt>>

Reset(r) ==
  /\ rtr[r].pc = "reset"
  /\ cnt' = [cnt EXCEPT ![RtrCell(r)] = 0]
  /\ rtr' = [rtr EXCEPT ![r].pc = "release"]
  /\ UNCHANGED <<source, real, now, processing, buf, busy, lst, bandwidth, history>>

Release(r) ==
  /\ rtr[r].pc = "release"
  /\ busy' = [busy EXCEPT ![RtrCell(r)] = FALSE]
  /\ LET next == NextIndex(rtr[r].last)
     IN  rtr' = [rtr EXCEPT ![r] = [@ EXCEPT !.pc = IF next = ReadIndex(rtr[r].cur) THEN "poll" ELSE "visit",
                                             !.last = next, !.pos = rtr[r].pos + 1]]
  /\ UNCHANGED <<source, real, now, processing, buf, cnt, lst, bandwidth, history>>

Route(r) ==
  Poll(r) \/ SetBusy(r) \/ Snapshot(r) \/ ReadHead(r) \/ Decode(r) \/ Reset(r) \/ Release(r)

-----------------------------------------------------------------------------
(* The operator pauses and resumes the processing.                         *)
Pause ==
  /\ processing' = ~processing
  /\ UNCHANGED <<source, real, now, ring, lst, rtr, bandwidth, history>>

(* Time goes on, no faster than the assumed stall and skew allow. *)
Tick ==
  /\ real < MaxTime
  /\ lst.pc # "idle" => real < lst.at + MaxStall
  /\ real < now + MaxSkew
  /\ real' = real + 1
  /\ UNCHANGED <<source, now, processing, ring, lst, rtr, bandwidth, history>>

(* The timer thread's next pass: the routers keep up with it within MaxLag. *)
UpdateClock ==
  /\ now # real
  /\ \A r \in Router : real <= rtr[r].pos + MaxLag
  /\ now' = real
  /\ UNCHANGED <<source, real, processing, ring, lst, rtr, bandwidth, history>>

Next == Listener \/ (\E r \in Router : Route(r)) \/ Pause \/ Tick \/ UpdateClock

Spec == Init /\ [][Next]_vars

-----------------------------------------------------------------------------
(* Types of the variables; a packet only goes into an allocated buffer.    *)
TypeOK ==
  /\ now \in 1 .. MaxTime /\ real \in now .. MaxTime
  /\ cnt \in [Cells -> 0 .. Cap] /\ busy \in [Cells -> BOOLEAN]
  /\ lst.next \in Router /\ lst.idx \in 0 .. Slots - 1
  /\ lst.pc \in {"body", "count"} => cnt[LstCell] < Buffers
  /\ \A r \in Router : rtr[r].last \in 0 .. Slots - 1

(* The listener is never at work on the slot a router is emptying.         *)
Apart ==
  lst.pc # "idle" =>
    rtr[lst.next].pc \in {"poll", "visit"} \/ RtrCell(lst.next) # LstCell

(* Listener and routers keep apart, and every packet comes out whole, once *)
(* and in order: what a router has decoded is the beginning of what it was *)
(* dealt, each head with its body.                                         *)
Intact ==
  /\ Apart
  /\ \A r \in Router : \A n \in DOMAIN decoded[r] :
       /\ n \in DOMAIN dealt[r]
       /\ decoded[r][n].head = dealt[r][n] /\ decoded[r][n].body = dealt[r][n]

(* A minute's bandwidth counts the packets decoded in that minute and no   *)
(* other, and is what the statistics show two minutes later, although one  *)
(* counter serves every second minute.                                     *)
MinutesApart ==
  \A r \in Router :
    LET decodedIn(min) == Cardinality({n \in DOMAIN decoded[r] : decoded[r][n].min = min})
        min == rtr[r].min
    IN  /\ volume[r][min % 2] = decodedIn(min)
        /\ volume[r][(min + 1) % 2] = decodedIn(min - 1)
        /\ report[r] = decodedIn(min - 2)

(* A packet is refused only if the slots of all routers are full: dealing  *)
(* in turn, and giving up when it is the turn of a router whose slot is    *)
(* busy or full, never drops a packet another router had room for.         *)
RefusedMeansAllFull ==
  [][Refuse => \A r \in Router : cnt[<<r, lst.idx>>] >= Cap]_vars
=============================================================================
