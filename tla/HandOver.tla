------------------------------ MODULE HandOver ------------------------------
(***************************************************************************)
(* The queues between the packet routers and one session manager, Gx or    *)
(* S6a: per router one message map with its count and its busy flag in     *)
(* each time slot.  Routers store and the session manager empties without  *)
(* any lock; the time slots are to keep them apart.                        *)
(*                                                                         *)
(* A step is one access to shared memory: the build is not optimised       *)
(* (probe.mk, -O0), so each read and write of the source is one.           *)
(***************************************************************************)
EXTENDS TimeSlots, Sequences, Functions

CONSTANTS
  Routers,    \* number of packet routers
  MaxMsgs,    \* bound: messages of all routers
  MaxTime,    \* bound: seconds
  MaxStall,   \* seconds that may begin between reading the clock and storing
  MaxLag      \* seconds the session manager may be behind the clock

ASSUME HandOverAssumption ==
  /\ Routers \in Nat \ {0}
  /\ MaxMsgs \in Nat /\ MaxTime \in Nat
  /\ MaxStall \in Nat /\ MaxLag \in Nat

Router == 0 .. Routers - 1

VARIABLES
  now,        \* IPGlobal::CURRENT_EPOCH_SEC
  busy,       \* gx_msg_busy_sm_i_r_t by cell
  cnt,        \* gx_msg_cnt_sm_i_r_t by cell
  msgs,       \* gx_msg_sm_i_r_t by cell: a map from indices to messages
  router,     \* each router's progress through SMStorePacket and copyMsgObj
  sm,         \* the session manager's progress through run and processQueue
  sent,       \* history: messages each router began to store
  refused,    \* history: messages lost to the busy flag
  processed,  \* history: what the session manager took from each router
  late,       \* history: messages a router was over a second late with
  clash,      \* history: two threads were inside one map, which is undefined
  astray      \* history: a message was stored beyond the last slot

queue == <<busy, cnt, msgs>>
history == <<sent, refused, processed, late, clash, astray>>
vars == <<now, queue, router, sm, history>>

(* The arrays are contiguous: index Slots of a router's row is index 0 of  *)
(* the row of the next router.                                             *)
Cells == (0 .. Routers) \X (0 .. Slots - 1)

Cell(r, i) == IF i < Slots THEN <<r, i>> ELSE <<r + 1, 0>>

Phantom == 0    \* the default-constructed DiameterBody of a missing index

(* router[r].at and .sec are history: the second in which the slot number  *)
(* began to be computed, and the second it was computed from.              *)
Init ==
  /\ now = 1
  /\ busy = [c \in Cells |-> FALSE]
  /\ cnt = [c \in Cells |-> 0]
  /\ msgs = [c \in Cells |-> EmptyMap]
  /\ router = [r \in Router |-> [pc |-> "idle", at |-> 1, sec |-> 1, idx |-> 0, n |-> 0]]
  /\ sm = [pc |-> "poll", last |-> ReadIndex(1), pos |-> 1, cur |-> 1, r |-> 0, rec |-> 0, i |-> 0]
  /\ sent = [r \in Router |-> 0]
  /\ refused = [r \in Router |-> {}]
  /\ processed = [r \in Router |-> <<>>]
  /\ late = [r \in Router |-> {}]
  /\ clash = FALSE
  /\ astray = FALSE

-----------------------------------------------------------------------------
(* A router stores one message. *)

RouterCell(r) == Cell(r, router[r].idx)

Goto(r, pc) == router' = [router EXCEPT ![r] = [@ EXCEPT !.pc = pc]]

NoteLate(r) ==
  late' = IF now > router[r].at + 1 THEN [late EXCEPT ![r] = @ \cup {sent[r]}] ELSE late

SmCell == <<sm.r, sm.last>>

NoteClash ==
  clash' = (clash \/ \E r \in Router :
             router[r].pc = "copy" /\ sm.pc \in {"take", "clear"} /\ RouterCell(r) = SmCell)

SentByAll == FoldFunction(+, 0, sent)

(* The first reading of the clock. *)
Begin(r) ==
  /\ router[r].pc = "idle"
  /\ SentByAll < MaxMsgs
  /\ sent' = [sent EXCEPT ![r] = @ + 1]
  /\ router' = [router EXCEPT ![r] = [@ EXCEPT !.pc = "index", !.at = now, !.sec = now]]
  /\ UNCHANGED <<now, queue, sm, refused, processed, late, clash, astray>>

(* The second one. *)
ReadClockAgain(r) ==
  /\ router[r].pc = "index"
  /\ LET i == WriteIndex(router[r].at, now)
     IN  /\ router' = [router EXCEPT ![r] = [@ EXCEPT !.pc = "check", !.idx = i,
                         !.sec = IF i = 0 THEN router[r].at ELSE now]]
         /\ astray' = (astray \/ i >= Slots)
  /\ UNCHANGED <<now, queue, sm, sent, refused, processed, late, clash>>

Refuse(r) ==
  /\ router[r].pc = "check"
  /\ busy[RouterCell(r)]
  /\ Goto(r, "idle")
  /\ refused' = [refused EXCEPT ![r] = @ \cup {sent[r]}]
  /\ NoteLate(r)
  /\ UNCHANGED <<now, queue, sm, sent, processed, clash, astray>>

PassBusy(r) ==
  /\ router[r].pc = "check"
  /\ ~busy[RouterCell(r)]
  /\ Goto(r, "copy")
  /\ UNCHANGED <<now, queue, sm, history>>

Copy(r) ==
  /\ router[r].pc = "copy"
  /\ msgs' = [msgs EXCEPT ![RouterCell(r)] = Stored(@, cnt[RouterCell(r)], sent[r])]
  /\ Goto(r, "load")
  /\ NoteClash
  /\ UNCHANGED <<now, busy, cnt, sm, sent, refused, processed, late, astray>>

LoadCount(r) ==
  /\ router[r].pc = "load"
  /\ router' = [router EXCEPT ![r] = [@ EXCEPT !.pc = "store", !.n = cnt[RouterCell(r)]]]
  /\ UNCHANGED <<now, queue, sm, history>>

StoreCount(r) ==
  /\ router[r].pc = "store"
  /\ cnt' = [cnt EXCEPT ![RouterCell(r)] = router[r].n + 1]
  /\ Goto(r, "idle")
  /\ NoteLate(r)
  /\ UNCHANGED <<now, busy, msgs, sm, sent, refused, processed, clash, astray>>

Store(r) ==
  \/ Begin(r) \/ ReadClockAgain(r) \/ Refuse(r) \/ PassBusy(r)
  \/ Copy(r) \/ LoadCount(r) \/ StoreCount(r)

-----------------------------------------------------------------------------
(* The session manager empties the slots that are due. *)

Poll ==
  /\ sm.pc = "poll"
  /\ sm.last # ReadIndex(now)
  /\ sm' = [sm EXCEPT !.pc = "visit", !.cur = now, !.r = 0]
  /\ UNCHANGED <<now, queue, router, history>>

(* The next queue of this slot, or the next slot, or the next poll. *)
Advance ==
  IF sm.r + 1 < Routers
  THEN sm' = [sm EXCEPT !.pc = "visit", !.r = @ + 1]
  ELSE sm' = [sm EXCEPT !.pc = IF NextIndex(sm.last) = ReadIndex(sm.cur) THEN "poll" ELSE "visit",
                        !.r = 0, !.last = NextIndex(@), !.pos = @ + 1]

Pass ==
  /\ sm.pc = "visit"
  /\ cnt[SmCell] = 0
  /\ Advance
  /\ UNCHANGED <<now, queue, router, history>>

Snapshot ==
  /\ sm.pc = "visit"
  /\ cnt[SmCell] > 0
  /\ sm' = [sm EXCEPT !.pc = "busy", !.rec = cnt[SmCell], !.i = 0]
  /\ UNCHANGED <<now, queue, router, history>>

SetBusy ==
  /\ sm.pc = "busy"
  /\ busy' = [busy EXCEPT ![SmCell] = TRUE]
  /\ sm' = [sm EXCEPT !.pc = "take"]
  /\ UNCHANGED <<now, cnt, msgs, router, history>>

Take ==
  /\ sm.pc = "take"
  /\ processed' = [processed EXCEPT ![sm.r] = Append(@, Found(msgs[SmCell], sm.i, Phantom))]
  /\ msgs' = [msgs EXCEPT ![SmCell] = Erased(@, sm.i)]
  /\ sm' = [sm EXCEPT !.pc = IF sm.i + 1 < sm.rec THEN "take" ELSE "clear", !.i = @ + 1]
  /\ NoteClash
  /\ UNCHANGED <<now, busy, cnt, router, sent, refused, late, astray>>

Clear ==
  /\ sm.pc = "clear"
  /\ msgs' = [msgs EXCEPT ![SmCell] = EmptyMap]
  /\ sm' = [sm EXCEPT !.pc = "reset"]
  /\ NoteClash
  /\ UNCHANGED <<now, busy, cnt, router, sent, refused, processed, late, astray>>

ResetCount ==
  /\ sm.pc = "reset"
  /\ cnt' = [cnt EXCEPT ![SmCell] = 0]
  /\ sm' = [sm EXCEPT !.pc = "release"]
  /\ UNCHANGED <<now, busy, msgs, router, history>>

(* Faulty variant: the busy flag is left set.                              *)
ReleaseStillBusy ==
  /\ sm.pc = "release"
  /\ Advance
  /\ UNCHANGED <<now, queue, router, history>>

Release ==
  /\ sm.pc = "release"
  /\ busy' = [busy EXCEPT ![SmCell] = FALSE]
  /\ Advance
  /\ UNCHANGED <<now, cnt, msgs, router, history>>

Empty == Poll \/ Pass \/ Snapshot \/ SetBusy \/ Take \/ Clear \/ ResetCount \/ Release

-----------------------------------------------------------------------------
(* The clock advances no faster than the assumed stall and lag allow. *)
Tick ==
  /\ now < MaxTime
  /\ \A r \in Router : router[r].pc # "idle" => now < router[r].at + MaxStall
  /\ now < sm.pos + MaxLag
  /\ now' = now + 1
  /\ UNCHANGED <<queue, router, sm, history>>

Next == (\E r \in Router : Store(r)) \/ Empty \/ Tick

Spec == Init /\ [][Next]_vars

(* Every thread keeps running, and so does the clock.                      *)
FairSpec ==
  /\ Spec
  /\ \A r \in Router : WF_vars(router[r].pc # "idle" /\ Store(r))
  /\ WF_vars(Empty)
  /\ WF_vars(Tick)

-----------------------------------------------------------------------------
(* Types of the variables.                                                 *)
TypeOK ==
  /\ now \in Nat
  /\ busy \in [Cells -> BOOLEAN] /\ cnt \in [Cells -> Nat]
  /\ \A c \in Cells : DOMAIN msgs[c] \subseteq Nat
  /\ router \in [Router -> [pc : {"idle", "index", "check", "copy", "load", "store"},
                            at : Nat, sec : Nat, idx : 0 .. Slots, n : Nat]]
  /\ sm \in [pc : {"poll", "visit", "busy", "take", "clear", "reset", "release"},
             last : 0 .. Slots - 1, pos : Nat, cur : Nat, r : Router, rec : Nat, i : Nat]
  /\ sent \in [Router -> Nat] /\ astray \in BOOLEAN

InStore(r) == router[r].pc \in {"check", "copy", "load", "store"}
InQueue == sm.pc \in {"busy", "take", "clear", "reset", "release"}

(* The slots keep the threads apart: while the session manager works on a  *)
(* queue, no router is storing into it, but for one that is over a second  *)
(* late by then.                                                           *)
Apart ==
  ~astray => ~(\E r \in Router :
    InStore(r) /\ InQueue /\ RouterCell(r) = SmCell /\ now <= router[r].at + 1)

(* Nothing is lost, repeated or reordered: what the session manager took   *)
(* from a router is the beginning of what that router sent, as long as the *)
(* router has not been late.                                               *)
InOrder ==
  ~astray => \A r \in Router : late[r] = {} => \A n \in DOMAIN processed[r] : processed[r][n] = n

OnTime(r, n) == n # Phantom /\ n \notin late[r]

(* A router that is late by more than a second may find its slot in the    *)
(* session manager's hands, but what it then loses, repeats or delays is   *)
(* only what it was late with: each of its other messages is processed     *)
(* once at most and after all those before it.                             *)
LateHarmsOnlyLate ==
  ~astray /\ ~clash => \A r \in Router : \A k \in DOMAIN processed[r] :
    OnTime(r, processed[r][k]) =>
      /\ \A j \in 1 .. k - 1 : processed[r][j] # processed[r][k]
      /\ \A n \in 1 .. processed[r][k] - 1 :
           n \notin late[r] => \E j \in 1 .. k - 1 : processed[r][j] = n

(* A message is refused for its slot being emptied only if it comes late.  *)
NeverRefused == ~astray => \A r \in Router : refused[r] \subseteq late[r]

(* The slot stays inside the arrays, declared with TIME_INDEX slots.       *)
SlotInRange == \A r \in Router : router[r].pc # "index" => router[r].idx < Slots

(* Every message stored in time is processed, once its slot's second has   *)
(* passed and the session manager has had its turn.                        *)
EachIsProcessed ==
  []<>(astray \/ \A r \in Router :
         late[r] = {} /\ router[r].at + MaxStall + 1 < MaxTime => Len(processed[r]) >= sent[r])
=============================================================================
