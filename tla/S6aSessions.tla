---------------------------- MODULE S6aSessions ----------------------------
(***************************************************************************)
(* S6aInterface, the session matching of one S6a session manager: one      *)
(* session table, run by one thread.  A pool entry is only ever released   *)
(* under its own key, so a write through the pointer getS6aSession leaves  *)
(* uninitialised mixes up two conversations but cannot damage the table.   *)
(***************************************************************************)
EXTENDS SessionTable, Sequences

CONSTANTS
  S6A,          \* application identifier
  MaxMsgs,      \* bound: messages processed
  MaxTime,      \* bound: seconds of CURRENT_EPOCH_SEC
  MaxDelay      \* bound: how old a packet's time stamp is when it is processed

ASSUME S6aAssumption ==
  /\ Apps = {S6A}
  /\ MaxMsgs \in Nat /\ MaxTime \in Nat \ {0} /\ MaxDelay \in Nat

VARIABLES
  now,      \* IPGlobal::CURRENT_EPOCH_SEC
  tab,      \* s6aSessionMap, bitFlagsS6aSession, S6aSessionPoolMap
  freePos,  \* s6afreeBitPos
  active,   \* Stats::activeS6aSessions
  flushed,  \* the records appended to S6AFlusher, in order
  crashed,  \* the write through the uninitialised pointer faulted
  count     \* history: messages processed; a message's identity is its number

vars == <<now, tab, freePos, active, flushed, crashed, count>>

Id == count + 1

Stamps == {t \in 1 .. MaxTime : now - MaxDelay <= t /\ t <= now}

Init ==
  /\ now = 1
  /\ tab = EmptyTable
  /\ freePos = 0
  /\ active = 0
  /\ flushed = <<>>
  /\ crashed = FALSE
  /\ count = 0

-----------------------------------------------------------------------------
(* processS6aPacket *)

Room == Cardinality(Live(tab)) < PoolSize

Receive ==
  /\ ~crashed
  /\ count < MaxMsgs
  /\ count' = Id

(* flushSession, as far as the copy it makes of session s.                 *)
Record(s) == [key |-> s.key, req |-> s.req, ans |-> s.ans]

(* getS6aFreeIndex stops at i.                                             *)
FreeIndex(i) == ScanStopsAt(tab, freePos, i)

(* Faulty variant: the record is built before the message is copied.       *)
CompleteFlushingFirst(m) ==
  /\ Receive
  /\ m.key \in Live(tab)
  /\ LET i == tab.sess[m.key]
         s == tab.pool[i]
     IN  /\ flushed' = Append(flushed, Record(s))
         /\ tab' = Without(tab, {i}, {s.key})
  /\ active' = Cardinality(Live(tab))
  /\ UNCHANGED <<now, freePos, crashed>>

(* The key is known: copy, flush, release under the stored key. *)
Complete(m) ==
  /\ Receive
  /\ m.key \in Live(tab)
  /\ LET i == tab.sess[m.key]
         s == CopyMessage(tab.pool[i], m, Id)
     IN  /\ flushed' = Append(flushed, Record(s))
         /\ tab' = Without(tab, {i}, {s.key})
  /\ active' = Cardinality(Live(tab))
  /\ UNCHANGED <<now, freePos, crashed>>

(* The key is new and there is room.  That the scan finds a clear bit is   *)
(* the invariant ScanFindsEntry.                                           *)
Open(m) ==
  /\ Receive
  /\ m.key \notin Live(tab)
  /\ Room
  /\ \E i \in Index :
       /\ FreeIndex(i)
       /\ freePos' = i
       /\ tab' = OpenSession(tab, i, m, Id)
  /\ active' = Cardinality(Live(tab) \cup {m.key})
  /\ UNCHANGED <<now, flushed, crashed>>

(* The key is new and the pool is full: the pointer is uninitialised.  The *)
(* write faults, or lands in the session an earlier call left the pointer  *)
(* to, any of the pool's.                                                  *)
PoolFull(m) ==
  /\ Receive
  /\ m.key \notin Live(tab)
  /\ ~Room
  /\ active' = Cardinality(Live(tab))
  /\ \/ crashed' = TRUE /\ UNCHANGED tab
     \/ /\ \E i \in Index : tab' = [tab EXCEPT !.pool[i] = CopyMessage(@, m, Id)]
        /\ UNCHANGED crashed
  /\ UNCHANGED <<now, freePos, flushed>>

Process(m) == Complete(m) \/ Open(m) \/ PoolFull(m)

(* timeOutCleanS6aSession *)
Cleanup ==
  /\ ~crashed
  /\ LET keys == OverdueKeys(tab, now)
         kept == Without(tab, {tab.sess[k] : k \in keys},
                              {SessionOf(tab, k).key : k \in keys})
     IN  /\ tab' = kept
         /\ active' = Cardinality(Live(kept))
  /\ UNCHANGED <<now, freePos, flushed, crashed, count>>

Tick ==
  /\ now < MaxTime
  /\ now' = now + 1
  /\ UNCHANGED <<tab, freePos, active, flushed, crashed, count>>

-----------------------------------------------------------------------------
Next ==
  \/ \E k \in Keys, d \in {Request, Answer}, t \in Stamps :
       Process([app |-> S6A, key |-> k, kind |-> d, ts |-> t])
  \/ Cleanup
  \/ Tick

Spec == Init /\ [][Next]_vars

-----------------------------------------------------------------------------
PoolPositions == 0 .. PoolSize - 1

(* Types of the variables.                                                 *)
TypeOK ==
  /\ now \in 1 .. MaxTime
  /\ tab \in Table
  /\ freePos \in PoolPositions
  /\ active \in Nat
  /\ flushed \in Seq([key : Keys \cup {NoKey}, req : Nat, ans : Nat])
  /\ crashed \in BOOLEAN
  /\ count \in 0 .. MaxMsgs

(* Bitmap, map and pool agree in every state, after a write through an     *)
(* uninitialised pointer too: unlike Gx and Gy there is no second table    *)
(* such a write could make an entry point to.                              *)
TableStaysSound == TableSound(tab, S6A)

(* The free-index scan ends whenever it starts, for the life of the        *)
(* process.                                                                *)
ScanFindsEntry == Room => Index \ tab.bits # {}

(* The table, the bitmap and the pool are an implementation of matching by *)
(* identifier: each conversation is reported once with its own messages,   *)
(* and only the limit of the pool lets another's message in.               *)
Waiting ==
  [k \in Live(tab) |->
     [req |-> SessionOf(tab, k).req, ans |-> SessionOf(tab, k).ans]]

Matching ==
  INSTANCE DiameterMatching WITH
    waiting <- Waiting, reported <- flushed, seen <- 1 .. count,
    Ids <- 1 .. MaxMsgs, Capacity <- PoolSize

ImplementsMatching == Matching!Spec
=============================================================================
