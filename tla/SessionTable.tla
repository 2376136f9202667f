---------------------------- MODULE SessionTable ----------------------------
(***************************************************************************)
(* One session table of the probe: the pool of session structures, the     *)
(* bitmap of used pool entries and the map from hop-by-hop identifier to   *)
(* pool index.  The Gx, the Gy and the S6a interface each hold one of      *)
(* these.  The code keeps the pool as SIZE rows of ELEMENTS entries; only  *)
(* the flattened index matters and the model uses that.                    *)
(*                                                                         *)
(* A session structure has about fifty fields copied from the request and  *)
(* about ten copied from the answer.  They are abstracted to the identity  *)
(* of the message they were copied from: req and ans (0: none).            *)
(***************************************************************************)
EXTENDS Integers, FiniteSets

CONSTANTS
  Apps,         \* the Diameter applications of the interface: GX and GY, or S6A
  Keys,         \* hop-by-hop identifiers
  PoolSize,     \* entries of the pool (gxfreeBitPosMax, 200000 in the build)
  IdleTimeSec,  \* *_SESSION_CLEAN_UP_TIMEOUT_SEC
  NoKey,        \* the sessionKey of a structure that was reset
  NoApp         \* the applicationId of a structure that was reset

ASSUME TableAssumption ==
  /\ PoolSize \in Nat \ {0}
  /\ IdleTimeSec \in Nat
  /\ NoApp \notin Apps
  /\ NoKey \notin Keys
  /\ IsFiniteSet(Keys)

Index == 0 .. PoolSize - 1

Request == "request"
Answer  == "answer"

Message == [app : Apps, key : Keys, kind : {Request, Answer}, ts : Nat \ {0}]

Entry ==
  [app : Apps \cup {NoApp}, key : Keys \cup {NoKey},
   start : Nat, end : Nat, req : Nat, ans : Nat]

Table ==
  [bits : SUBSET Index,
   sess : UNION {[K -> Index] : K \in SUBSET Keys},
   pool : [Index -> Entry]]

(* gxgySession::reset(), s6aSession::reset() *)
EmptySession ==
  [app |-> NoApp, key |-> NoKey, start |-> 0, end |-> 0, req |-> 0, ans |-> 0]

EmptyTable ==
  [bits |-> {}, sess |-> [k \in {} |-> 0], pool |-> [i \in Index |-> EmptySession]]

Live(tb) == DOMAIN tb.sess

(* getGxSessionFromPool(gxSessionMap[k])                                   *)
SessionOf(tb, k) == tb.pool[tb.sess[k]]

(* The scan of get*FreeIndex starts one past the last index given out and  *)
(* wraps: from p, j is looked at before i.                                 *)
ScannedBefore(p, j, i) == IF (j > p) <=> (i > p) THEN j < i ELSE j > p

(* The scan from p stops at i: the first index whose bit is clear.         *)
ScanStopsAt(tb, p, i) ==
  /\ i \in Index \ tb.bits
  /\ \A j \in Index \ {i} : ScannedBefore(p, j, i) => j \in tb.bits

(* get*Session, second branch: a fresh entry for key k at index i.         *)
Allocate(tb, i, k) ==
  [bits |-> tb.bits \cup {i},
   sess |-> [x \in Live(tb) \cup {k} |-> IF x = k THEN i ELSE tb.sess[x]],
   pool |-> [tb.pool EXCEPT ![i] = [EmptySession EXCEPT !.key = k]]]

(* processRequest and processResponse: message id of application m.app is  *)
(* copied into session s.                                                  *)
CopyMessage(s, m, id) ==
  IF m.kind = Request
  THEN [s EXCEPT !.app = m.app, !.start = m.ts, !.req = id]
  ELSE [s EXCEPT !.app = m.app, !.end = m.ts, !.ans = id]

(* The first message of a key: m, at the free index i.                     *)
OpenSession(tb, i, m, id) ==
  [Allocate(tb, i, m.key) EXCEPT !.pool[i] = CopyMessage(@, m, id)]

(* Faulty variant: the bit is left set.                                    *)
WithoutKeepingBit(tb, idxs, keys) ==
  [bits |-> tb.bits,
   sess |-> [k \in Live(tb) \ keys |-> tb.sess[k]],
   pool |-> [i \in Index |-> IF i \in idxs THEN EmptySession ELSE tb.pool[i]]]

(* Faulty variant: the key is left in the map.                             *)
WithoutKeepingKey(tb, idxs, keys) ==
  [bits |-> tb.bits \ idxs,
   sess |-> tb.sess,
   pool |-> [i \in Index |-> IF i \in idxs THEN EmptySession ELSE tb.pool[i]]]

(* releaseIndex, for a set of indices and the keys to be erased.           *)
Without(tb, idxs, keys) ==
  [bits |-> tb.bits \ idxs,
   sess |-> [k \in Live(tb) \ keys |-> tb.sess[k]],
   pool |-> [i \in Index |-> IF i \in idxs THEN EmptySession ELSE tb.pool[i]]]

(* Faulty variant: the timeout is inclusive.                               *)
IdleForInclusive(t, now) == t > 0 /\ (now < t \/ now - t >= IdleTimeSec)

(* The difference is taken in uint64_t: a time stamp ahead of the clock    *)
(* makes it huge, and the session counts as idle.                          *)
IdleFor(t, now) == t > 0 /\ (now < t \/ now - t > IdleTimeSec)

(* Faulty variant: a session that holds only an answer never times out.    *)
OverdueRequestsOnly(s, now) == IdleFor(s.start, now)

Overdue(s, now) == IdleFor(s.start, now) \/ IdleFor(s.end, now)

OverdueKeys(tb, now) == {k \in Live(tb) : Overdue(SessionOf(tb, k), now)}

(* What a table has to be: each used index belongs to exactly one key, and *)
(* the entry there is that key's session of application a.  A free entry   *)
(* may hold anything, since Allocate resets it.                            *)
BitsAreMapped(tb) ==
  tb.bits = {tb.sess[k] : k \in Live(tb)}

NoSharedEntry(tb) ==
  \A k1, k2 \in Live(tb) : tb.sess[k1] = tb.sess[k2] => k1 = k2

EntryIsKeysSession(tb, a) ==
  \A k \in Live(tb) : SessionOf(tb, k).key = k /\ SessionOf(tb, k).app = a

TableSound(tb, a) ==
  /\ BitsAreMapped(tb)
  /\ NoSharedEntry(tb)
  /\ EntryIsKeysSession(tb, a)

(* Each session holds one of the two messages and waits for the other.     *)
HalfOpenSession(s) ==
  \/ s.req # 0 /\ s.ans = 0 /\ s.start # 0 /\ s.end = 0
  \/ s.req = 0 /\ s.ans # 0 /\ s.start = 0 /\ s.end # 0

HalfOpen(tb) == \A k \in Live(tb) : HalfOpenSession(SessionOf(tb, k))
=============================================================================
