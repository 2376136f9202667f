----------------------------- MODULE GxSessions -----------------------------
(***************************************************************************)
(* GxInterface, the session matching of one Gx session manager: requests   *)
(* and answers of the Gx and Gy applications are matched by hop-by-hop     *)
(* identifier in two session tables; the second message of a key flushes   *)
(* one record to the flusher and frees the entry; a periodic cleanup frees *)
(* the sessions whose second message never came.                           *)
(*                                                                         *)
(* One thread runs all of it, so a handler is one step.  The clock and the *)
(* messages are the environment.                                           *)
(***************************************************************************)
EXTENDS SessionTable, Sequences

CONSTANTS
  GX, GY,       \* application identifiers
  MaxMsgs,      \* bound: messages processed
  MaxTime,      \* bound: seconds of CURRENT_EPOCH_SEC
  MaxDelay,     \* bound: how old a packet's time stamp is when it is processed
  ClockLead     \* how far a NIC time stamp may be ahead of CURRENT_EPOCH_SEC

ASSUME GxAssumption ==
  /\ Apps = {GX, GY}
  /\ GX # GY
  /\ MaxMsgs \in Nat /\ MaxTime \in Nat \ {0}
  /\ MaxDelay \in Nat /\ ClockLead \in Nat

VARIABLES
  now,      \* IPGlobal::CURRENT_EPOCH_SEC
  tab,      \* the session table of each application
  freePos,  \* gxfreeBitPos, gyfreeBitPos
  active,   \* Stats::activeGxSessions, Stats::activeGySessions
  flushed,  \* the records appended to GXFlusher, in order
  stopped,  \* the process crashed, or the free-index scan never ends
  seen,     \* history: the messages processed; a message's identity is its place
  dropped,  \* history: identities of messages freed by the cleanup
  wild      \* history: an uninitialised session pointer was written through

vars == <<now, tab, freePos, active, flushed, stopped, seen, dropped, wild>>

Stamps == {t \in 1 .. MaxTime + ClockLead : now - MaxDelay <= t /\ t <= now + ClockLead}

Init ==
  /\ now = 1
  /\ tab = [a \in Apps |-> EmptyTable]
  /\ freePos = [a \in Apps |-> 0]
  /\ active = [a \in Apps |-> 0]
  /\ flushed = <<>>
  /\ stopped = FALSE
  /\ seen = <<>>
  /\ dropped = {}
  /\ wild = FALSE

-----------------------------------------------------------------------------
(* processGxGyPacket *)

Id == Len(seen) + 1

Room(a) == Cardinality(Live(tab[a])) < PoolSize

Receive(m) ==
  /\ ~stopped
  /\ Len(seen) < MaxMsgs
  /\ seen' = Append(seen, [app |-> m.app, key |-> m.key, kind |-> m.kind])

(* Faulty variant: a retransmitted request releases the session unreported. *)
CompletePairsOnly(m) ==
  /\ Receive(m)
  /\ m.key \in Live(tab[m.app])
  /\ LET tb == tab[m.app]
         i  == tb.sess[m.key]
         s  == CopyMessage(tb.pool[i], m, Id)
     IN  /\ flushed' = IF s.req = 0 \/ s.ans = 0 THEN flushed
                       ELSE Append(flushed, [app |-> s.app, key |-> s.key, req |-> s.req, ans |-> s.ans])
         /\ tab' = [tab EXCEPT ![m.app] = Without(@, {i}, {s.key})]
  /\ active' = [active EXCEPT ![m.app] = Cardinality(Live(tab[m.app]))]
  /\ UNCHANGED <<now, freePos, stopped, dropped, wild>>

(* The key is known: copy the message, flush the record, release the entry *)
(* under the key stored in it.                                             *)
Complete(m) ==
  /\ Receive(m)
  /\ m.key \in Live(tab[m.app])
  /\ LET tb == tab[m.app]
         i  == tb.sess[m.key]
         s  == CopyMessage(tb.pool[i], m, Id)
     IN  /\ flushed' = Append(flushed, [app |-> s.app, key |-> s.key, req |-> s.req, ans |-> s.ans])
         /\ tab' = [tab EXCEPT ![m.app] = Without(@, {i}, {s.key})]
  /\ active' = [active EXCEPT ![m.app] = Cardinality(Live(tab[m.app]))]
  /\ UNCHANGED <<now, freePos, stopped, dropped, wild>>

(* The key is new and the pool has room. *)
Open(m) ==
  /\ Receive(m)
  /\ m.key \notin Live(tab[m.app])
  /\ Room(m.app)
  /\ \E i \in Index :
       /\ ScanStopsAt(tab[m.app], freePos[m.app], i)
       /\ freePos' = [freePos EXCEPT ![m.app] = i]
       /\ tab' = [tab EXCEPT ![m.app] = OpenSession(@, i, m, Id)]
  /\ active' = [active EXCEPT ![m.app] = Cardinality(Live(tab[m.app]) \cup {m.key})]
  /\ UNCHANGED <<now, flushed, stopped, dropped, wild>>

(* The key is new, the map has room, and no bit is clear: the scan loops.  *)
ScanForever(m) ==
  /\ Receive(m)
  /\ m.key \notin Live(tab[m.app])
  /\ Room(m.app)
  /\ Index \subseteq tab[m.app].bits
  /\ stopped' = TRUE
  /\ UNCHANGED <<now, tab, freePos, active, flushed, dropped, wild>>

(* The key is new and the pool is full: get*Session returns a pointer it   *)
(* never set.  What is at that address depends on the build: the write     *)
(* faults, or it lands in a session of either pool, the sort of pointer    *)
(* earlier calls leave on the stack.                                       *)
PoolFull(m) ==
  /\ Receive(m)
  /\ m.key \notin Live(tab[m.app])
  /\ ~Room(m.app)
  /\ active' = [active EXCEPT ![m.app] = Cardinality(Live(tab[m.app]))]
  /\ \/ /\ stopped' = TRUE
        /\ UNCHANGED <<tab, wild>>
     \/ /\ \E a \in Apps, i \in Index :
             tab' = [tab EXCEPT ![a].pool[i] = CopyMessage(@, m, Id)]
        /\ wild' = TRUE
        /\ UNCHANGED stopped
  /\ UNCHANGED <<now, freePos, flushed, dropped>>

Process(m) == Complete(m) \/ Open(m) \/ ScanForever(m) \/ PoolFull(m)

-----------------------------------------------------------------------------
(* timeOutCleanGxGySession *)

(* The pass over the table of application a.  Each overdue session is      *)
(* released into the table its applicationId names, under the key stored   *)
(* in it.                                                                  *)
CleanPass(t, a) ==
  LET keys        == OverdueKeys(t[a], now)
      releases(b) == {k \in keys : SessionOf(t[a], k).app = b}
  IN  [b \in Apps |-> Without(t[b], {t[a].sess[k] : k \in releases(b)},
                                    {SessionOf(t[a], k).key : k \in releases(b)})]

OverdueMessages(t, a) ==
  LET entries == {SessionOf(t[a], k) : k \in OverdueKeys(t[a], now)}
  IN  ({s.req : s \in entries} \cup {s.ans : s \in entries}) \ {0}

(* First the Gx table, then the Gy table in what that has left of both. *)
Cleanup ==
  /\ ~stopped
  /\ UNCHANGED <<now, freePos, flushed, stopped, seen, wild>>
  /\ \E afterGx \in {CleanPass(tab, GX)} : \E afterGy \in {CleanPass(afterGx, GY)} :
       /\ tab' = afterGy
       /\ active' = [a \in Apps |-> Cardinality(Live(IF a = GX THEN afterGx[a] ELSE afterGy[a]))]
       /\ dropped' = dropped \cup OverdueMessages(tab, GX) \cup OverdueMessages(afterGx, GY)

Tick ==
  /\ now < MaxTime
  /\ now' = now + 1
  /\ UNCHANGED <<tab, freePos, active, flushed, stopped, seen, dropped, wild>>

-----------------------------------------------------------------------------
Next ==
  \/ \E a \in Apps, k \in Keys, d \in {Request, Answer}, t \in Stamps :
       Process([app |-> a, key |-> k, kind |-> d, ts |-> t])
  \/ Cleanup
  \/ Tick

Spec == Init /\ [][Next]_vars

(* The session manager's loop runs the cleanup again and again, and the    *)
(* timer thread advances the clock.                                        *)
FairSpec == Spec /\ WF_vars(Cleanup) /\ WF_vars(Tick)

-----------------------------------------------------------------------------
PoolPositions == 0 .. PoolSize - 1

(* Types of the variables.                                                 *)
TypeOK ==
  /\ now \in 1 .. MaxTime
  /\ tab \in [Apps -> Table]
  /\ freePos \in [Apps -> PoolPositions]
  /\ active \in [Apps -> Nat]
  /\ flushed \in Seq([app : Apps, key : Keys \cup {NoKey}, req : Nat, ans : Nat])
  /\ stopped \in BOOLEAN
  /\ seen \in Seq([app : Apps, key : Keys, kind : {Request, Answer}])
  /\ dropped \subseteq Nat
  /\ wild \in BOOLEAN

(* Until an uninitialised pointer is written through, bitmap, map and pool *)
(* of each application agree: releasing through the applicationId and the  *)
(* sessionKey stored in an entry frees that entry and no other.            *)
TablesConsistent ==
  ~wild => \A a \in Apps : TableSound(tab[a], a) /\ HalfOpen(tab[a])

(* The free-index scan ends: whenever the size test of get*Session lets it *)
(* start, some bit is clear.                                               *)
ScanFindsEntry ==
  ~wild => \A a \in Apps : Room(a) => Index \ tab[a].bits # {}

IsMessage(id, a, k, d) ==
  id \in DOMAIN seen /\ seen[id] = [app |-> a, key |-> k, kind |-> d]

(* A record mixes no conversations: the request and the answer it was      *)
(* built from both are messages of the record's own application and key.   *)
RecordsMatchMessages ==
  ~wild =>
    \A n \in DOMAIN flushed :
      LET r == flushed[n]
      IN  /\ r.req # 0 \/ r.ans # 0
          /\ r.req # 0 => IsMessage(r.req, r.app, r.key, Request)
          /\ r.ans # 0 => IsMessage(r.ans, r.app, r.key, Answer)

(* A complete record pairs neighbours: between its request and its answer  *)
(* no other message of that application and key was processed, so a stale  *)
(* session is never completed across a later exchange of the same key.     *)
PairsAreAdjacent ==
  ~wild =>
    \A n \in DOMAIN flushed :
      LET r  == flushed[n]
          lo == IF r.req < r.ans THEN r.req ELSE r.ans
          hi == IF r.req < r.ans THEN r.ans ELSE r.req
      IN  r.req # 0 /\ r.ans # 0 =>
            \A id \in lo + 1 .. hi - 1 : seen[id].app # r.app \/ seen[id].key # r.key

LiveIds ==
  UNION {UNION {{s.req, s.ans} : s \in {SessionOf(tab[a], k) : k \in Live(tab[a])}} : a \in Apps}

FlushedIds ==
  {flushed[n].req : n \in DOMAIN flushed} \cup {flushed[n].ans : n \in DOMAIN flushed}

(* No message is reported twice: no two records share one, and none of a   *)
(* record's messages is still waiting in a session.                        *)
ReportedOnce ==
  /\ LiveIds \cap FlushedIds \subseteq {0}
  /\ \A m, n \in DOMAIN flushed :
       m # n =>
         {flushed[m].req, flushed[m].ans} \cap {flushed[n].req, flushed[n].ans} \subseteq {0}

(* What is reported is right: records mix no conversations, pair           *)
(* neighbours, and share no message.                                       *)
RecordsSound == RecordsMatchMessages /\ PairsAreAdjacent /\ ReportedOnce

(* No message vanishes: each one processed is waiting in a session, in a   *)
(* record, was dropped by the cleanup, or was overwritten by a             *)
(* retransmission, a later message of its application, key and kind.       *)
NothingVanishes ==
  ~wild /\ ~stopped =>
    \A id \in DOMAIN seen :
      \/ id \in LiveIds \cup FlushedIds \cup dropped
      \/ \E later \in id + 1 .. Len(seen) : seen[later] = seen[id]

(* The cleanup takes a session only after more than the idle timeout, or   *)
(* because its time stamp is ahead of the clock: the difference in 64 bits *)
(* without a sign is huge then.                                            *)
StampOf(s) == IF s.start # 0 THEN s.start ELSE s.end
NotDroppedEarly ==
  [][\A a \in Apps : \A k \in Live(tab[a]) :
       ~wild /\ seen' = seen /\ k \notin Live(tab'[a]) =>
         LET t == StampOf(SessionOf(tab[a], k))
         IN  t > now \/ now - t > IdleTimeSec]_vars

(* Half sessions do not hold their pool entries for ever: they are         *)
(* completed or cleaned up, provided the clock goes on long enough to time *)
(* them out. Again and again there is none that is due.                    *)
Expiring ==
  \E a \in Apps : \E i \in tab[a].bits : StampOf(tab[a].pool[i]) + IdleTimeSec < MaxTime
HalfSessionsEnd == []<>(stopped \/ wild \/ ~Expiring)
=============================================================================
