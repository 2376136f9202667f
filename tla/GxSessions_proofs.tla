------------------------- MODULE GxSessions_proofs -------------------------
(***************************************************************************)
(* Proofs about GxSessions, for any finite set of keys, any pool size and  *)
(* any timeout.                                                            *)
(***************************************************************************)
EXTENDS GxSessions, SessionTable_proofs, SequenceTheorems

-----------------------------------------------------------------------------
(* The cleanup.                                                            *)

GoodTable(tb, a) == TableSound(tb, a) /\ HalfOpen(tb)

LEMMA CleanPassType ==
  ASSUME NEW t \in [Apps -> Table], NEW a \in Apps
  PROVE  CleanPass(t, a) \in [Apps -> Table]
BY WithoutType DEF CleanPass

(* One pass of the cleanup keeps every table consistent: the sessions of   *)
(* table a name application a, so the pass touches no other table.         *)
LEMMA CleanPassConsistent ==
  ASSUME NEW t \in [Apps -> Table], NEW a \in Apps,
         \A b \in Apps : GoodTable(t[b], b)
  PROVE  \A b \in Apps : GoodTable(CleanPass(t, a)[b], b)
<1> DEFINE keys        == OverdueKeys(t[a], now)
           releases(b) == {k \in keys : SessionOf(t[a], k).app = b}
<1> SUFFICES ASSUME NEW b \in Apps PROVE GoodTable(CleanPass(t, a)[b], b)
  OBVIOUS
<1>1. CleanPass(t, a)[b] =
        Without(t[b], {t[a].sess[k] : k \in releases(b)},
                      {SessionOf(t[a], k).key : k \in releases(b)})
  BY DEF CleanPass
<1>2. keys \subseteq Live(t[a])
  BY DEF OverdueKeys
<1>3. \A k \in keys : SessionOf(t[a], k).key = k /\ SessionOf(t[a], k).app = a
  BY <1>2 DEF GoodTable, TableSound, EntryIsKeysSession
<1>4. {SessionOf(t[a], k).key : k \in releases(b)} = releases(b)
  BY <1>3
<1>5. CleanPass(t, a)[b] = Without(t[b], {t[a].sess[k] : k \in releases(b)}, releases(b))
  BY <1>1, <1>4
<1>6. {t[a].sess[k] : k \in releases(b)} = {t[b].sess[k] : k \in releases(b)}
  <2>1. CASE b = a
    BY <2>1
  <2>2. CASE b # a
    <3>1. releases(b) = {}
      BY <1>3, <2>2
    <3>2. QED
      BY <3>1
  <2>3. QED
    BY <2>1, <2>2
<1>7. releases(b) \in SUBSET Live(t[b])
  BY <1>2, <1>3
<1>8. t[b] \in Table /\ TableSound(t[b], b) /\ HalfOpen(t[b])
  BY DEF GoodTable
<1> DEFINE gone == releases(b)
           new  == CleanPass(t, a)[b]
<1>9. new = Release(t[b], gone) /\ gone \in SUBSET Live(t[b])
  BY <1>5, <1>6, <1>7 DEF Release
<1> HIDE DEF gone, new
<1>10. TableSound(new, b) /\ HalfOpen(new)
  BY <1>8, <1>9, ReleaseTable
<1>11. QED
  BY <1>10 DEF GoodTable, new

-----------------------------------------------------------------------------
(* Type correctness.                                                       *)

LEMMA MessageTypes ==
  ASSUME TypeOK, NEW a \in Apps, NEW k \in Keys, NEW d \in {Request, Answer}, NEW t \in Stamps
  PROVE  /\ [app |-> a, key |-> k, kind |-> d, ts |-> t] \in Message
         /\ Id \in Nat \ {0}
<1>1. t \in Nat \ {0}
  BY GxAssumption DEF Stamps, TypeOK
<1>2. QED
  BY <1>1 DEF Message, Id, TypeOK

LEMMA ReceiveType ==
  ASSUME TypeOK, NEW m \in Message, Receive(m)
  PROVE  seen' \in Seq([app : Apps, key : Keys, kind : {Request, Answer}])
BY DEF TypeOK, Receive, Message

LEMMA InitType == Init => TypeOK
<1> SUFFICES ASSUME Init PROVE TypeOK
  OBVIOUS
<1>1. now \in 1 .. MaxTime /\ 0 \in PoolPositions
  BY TableAssumption, GxAssumption DEF Init, PoolPositions
<1>2. tab \in [Apps -> Table]
  BY EmptyTableType DEF Init
<1>3. /\ flushed \in Seq([app : Apps, key : Keys \cup {NoKey}, req : Nat, ans : Nat])
      /\ seen \in Seq([app : Apps, key : Keys, kind : {Request, Answer}])
  BY DEF Init
<1>4. QED
  BY <1>1, <1>2, <1>3 DEF Init, TypeOK

LEMMA CompleteType ==
  ASSUME TypeOK, NEW m \in Message, Id \in Nat, Complete(m)
  PROVE  TypeOK'
<1> DEFINE tb == tab[m.app]
           i  == tb.sess[m.key]
           s  == CopyMessage(tb.pool[i], m, Id)
<1>1. m.app \in Apps /\ m.key \in Live(tb) /\ tb \in Table
  BY DEF Message, TypeOK, Complete
<1>2. s \in Entry /\ s.app \in Apps
  <2>1. tb.pool[i] \in Entry
    BY <1>1, TableParts
  <2>2. s \in Entry
    BY <2>1, CopyMessageType
  <2>3. s.app = m.app
    BY <2>1 DEF CopyMessage, Entry
  <2>4. QED
    BY <1>1, <2>2, <2>3
<1>3. tab' \in [Apps -> Table]
  BY <1>1, WithoutType DEF Complete, TypeOK
<1>4. flushed' \in Seq([app : Apps, key : Keys \cup {NoKey}, req : Nat, ans : Nat])
  <2> DEFINE r == [app |-> s.app, key |-> s.key, req |-> s.req, ans |-> s.ans]
  <2>1. r \in [app : Apps, key : Keys \cup {NoKey}, req : Nat, ans : Nat]
    BY <1>2 DEF Entry
  <2>2. flushed' = Append(flushed, r)
    BY DEF Complete
  <2> HIDE DEF r
  <2>3. QED
    BY <2>1, <2>2 DEF TypeOK
<1>5. active' \in [Apps -> Nat]
  BY <1>1, TableCardinality DEF Complete, TypeOK
<1>6. QED
  BY <1>3, <1>4, <1>5, ReceiveType DEF Complete, TypeOK

LEMMA OpenType ==
  ASSUME TypeOK, NEW m \in Message, Id \in Nat, Open(m)
  PROVE  TypeOK'
<1>1. m.app \in Apps /\ m.key \in Keys /\ tab[m.app] \in Table
  BY DEF Message, TypeOK
<1>2. PICK i \in Index :
        /\ freePos' = [freePos EXCEPT ![m.app] = i]
        /\ tab' = [tab EXCEPT ![m.app] = OpenSession(@, i, m, Id)]
  BY DEF Open
<1>3. OpenSession(tab[m.app], i, m, Id) \in Table
  BY <1>1, OpenSessionType
<1>4. tab' \in [Apps -> Table]
  BY <1>1, <1>2, <1>3 DEF TypeOK
<1>5. active' \in [Apps -> Nat]
  <2>1. Cardinality(Live(tab[m.app]) \cup {m.key}) \in Nat
    BY <1>1, TableCardinality, FS_AddElement, FS_CardinalityType
  <2>2. QED
    BY <2>1 DEF Open, TypeOK
<1>6. freePos' \in [Apps -> PoolPositions]
  BY <1>2 DEF TypeOK, PoolPositions, Index
<1>7. QED
  BY <1>4, <1>5, <1>6, ReceiveType DEF Open, TypeOK

LEMMA ScanForeverType ==
  ASSUME TypeOK, NEW m \in Message, ScanForever(m)
  PROVE  TypeOK'
BY ReceiveType DEF ScanForever, TypeOK

LEMMA PoolFullType ==
  ASSUME TypeOK, NEW m \in Message, Id \in Nat, PoolFull(m)
  PROVE  TypeOK'
<1>1. m.app \in Apps /\ tab[m.app] \in Table
  BY DEF Message, TypeOK
<1>2. active' \in [Apps -> Nat]
  BY <1>1, TableCardinality DEF PoolFull, TypeOK
<1>3. tab' \in [Apps -> Table] /\ stopped' \in BOOLEAN /\ wild' \in BOOLEAN
  <2>1. CASE stopped' = TRUE /\ UNCHANGED <<tab, wild>>
    BY <2>1 DEF TypeOK
  <2>2. CASE /\ \E a \in Apps, i \in Index :
                  tab' = [tab EXCEPT ![a].pool[i] = CopyMessage(@, m, Id)]
             /\ wild' = TRUE
             /\ UNCHANGED stopped
    <3>1. PICK a \in Apps, i \in Index : tab' = [tab EXCEPT ![a].pool[i] = CopyMessage(@, m, Id)]
      BY <2>2
    <3>2. tab[a] \in Table /\ tab[a].pool[i] \in Entry
      BY TableParts DEF TypeOK
    <3>3. [tab[a] EXCEPT !.pool[i] = CopyMessage(tab[a].pool[i], m, Id)] \in Table
      BY <3>2, CopyMessageType, WriteType
    <3>4. tab' = [tab EXCEPT ![a] = [tab[a] EXCEPT !.pool[i] = CopyMessage(tab[a].pool[i], m, Id)]]
      BY <3>1
    <3>5. QED
      BY <2>2, <3>3, <3>4 DEF TypeOK
  <2>3. QED
    BY <2>1, <2>2 DEF PoolFull
<1>4. QED
  BY <1>2, <1>3, ReceiveType DEF PoolFull, TypeOK

LEMMA CleanupType ==
  ASSUME TypeOK, Cleanup
  PROVE  TypeOK'
<1> DEFINE afterGx == CleanPass(tab, GX)
           afterGy == CleanPass(afterGx, GY)
<1>1. afterGx \in [Apps -> Table] /\ afterGy \in [Apps -> Table]
  BY CleanPassType, GxAssumption DEF TypeOK
<1>2. active' \in [Apps -> Nat]
  <2>1. \A a \in Apps : Cardinality(Live(IF a = GX THEN afterGx[a] ELSE afterGy[a])) \in Nat
    BY <1>1, TableCardinality
  <2>2. QED
    BY <2>1 DEF Cleanup
<1>3. \A t \in [Apps -> Table], a \in Apps : OverdueMessages(t, a) \subseteq Nat
  <2>1. ASSUME NEW t \in [Apps -> Table], NEW a \in Apps
        PROVE  \A k \in OverdueKeys(t[a], now) : SessionOf(t[a], k) \in Entry
    BY TableParts DEF OverdueKeys, SessionOf
  <2>2. QED
    BY <2>1 DEF OverdueMessages, Entry
<1>4. dropped' \subseteq Nat
  <2>1. OverdueMessages(tab, GX) \subseteq Nat /\ OverdueMessages(afterGx, GY) \subseteq Nat
    BY <1>1, <1>3, GxAssumption DEF TypeOK
  <2>2. QED
    BY <2>1 DEF Cleanup, TypeOK
<1>5. QED
  BY <1>1, <1>2, <1>4 DEF Cleanup, TypeOK

LEMMA TickType ==
  ASSUME TypeOK, Tick
  PROVE  TypeOK'
BY GxAssumption DEF Tick, TypeOK

LEMMA NextType ==
  ASSUME TypeOK, [Next]_vars
  PROVE  TypeOK'
<1>1. ASSUME NEW a \in Apps, NEW k \in Keys, NEW d \in {Request, Answer}, NEW t \in Stamps,
             Process([app |-> a, key |-> k, kind |-> d, ts |-> t])
      PROVE  TypeOK'
  <2> DEFINE m == [app |-> a, key |-> k, kind |-> d, ts |-> t]
  <2>1. m \in Message /\ Id \in Nat
    BY MessageTypes
  <2> HIDE DEF m
  <2>2. Process(m)
    BY <1>1 DEF m
  <2>3. QED
    BY <2>1, <2>2, CompleteType, OpenType, ScanForeverType, PoolFullType DEF Process
<1>2. CASE Cleanup
  BY <1>2, CleanupType
<1>3. CASE Tick
  BY <1>3, TickType
<1>4. CASE UNCHANGED vars
  BY <1>4 DEF vars, TypeOK
<1>5. QED
  BY <1>1, <1>2, <1>3, <1>4 DEF Next

(* Every reachable state is well typed: whatever is written through the    *)
(* uninitialised pointer, indices stay in the pool and keys in the maps.   *)
THEOREM TypeCorrect == Spec => []TypeOK
<1>1. Init => TypeOK
  BY InitType
<1>2. TypeOK /\ [Next]_vars => TypeOK'
  BY NextType
<1>3. QED
  BY <1>1, <1>2, PTL DEF Spec
-----------------------------------------------------------------------------
(* Consistency of the tables.                                              *)

Consistency == TypeOK /\ TablesConsistent

LEMMA InitConsistent == Init => TablesConsistent
BY EmptyTableSound DEF Init, TablesConsistent

LEMMA CompleteConsistent ==
  ASSUME Consistency, NEW m \in Message, Complete(m)
  PROVE  TablesConsistent'
<1> SUFFICES ASSUME ~wild, NEW a \in Apps PROVE GoodTable(tab'[a], a)
  BY DEF TablesConsistent, Complete, GoodTable
<1>1. GoodTable(tab[a], a) /\ tab[a] \in Table
  BY DEF Consistency, TablesConsistent, TypeOK, GoodTable
<1>2. CASE m.app # a
  BY <1>1, <1>2 DEF Complete, Consistency, TypeOK
<1>3. CASE m.app = a
  <2> DEFINE tb == tab[a]
             i  == tb.sess[m.key]
             s  == CopyMessage(tb.pool[i], m, Id)
  <2>1. m.key \in Live(tb)
    BY <1>3 DEF Complete
  <2>2. tb.pool[i] \in Entry /\ tb.pool[i].key = m.key
    BY <1>1, <2>1, TableParts DEF GoodTable, TableSound, EntryIsKeysSession, SessionOf
  <2>3. s.key = m.key
    BY <2>2 DEF CopyMessage, Entry
  <2>4. tab'[a] = Without(tb, {i}, {s.key})
    BY <1>3 DEF Complete, Consistency, TypeOK
  <2>5. {i} = {tb.sess[k] : k \in {m.key}} /\ {m.key} \in SUBSET Live(tb)
    BY <2>1
  <2> DEFINE new == tab'[a]
             K   == {m.key}
  <2>6. new = Release(tb, K) /\ K \in SUBSET Live(tb)
    BY <2>3, <2>4, <2>5 DEF Release
  <2>7. tb \in Table /\ TableSound(tb, a) /\ HalfOpen(tb)
    BY <1>1 DEF GoodTable
  <2> HIDE DEF new, tb, K
  <2>8. TableSound(new, a) /\ HalfOpen(new)
    BY <2>6, <2>7, ReleaseTable
  <2>9. QED
    BY <2>8 DEF GoodTable, new
<1>4. QED
  BY <1>2, <1>3

LEMMA OpenStepConsistent ==
  ASSUME Consistency, NEW m \in Message, Id \in Nat \ {0}, Open(m)
  PROVE  TablesConsistent'
<1> SUFFICES ASSUME ~wild, NEW a \in Apps PROVE GoodTable(tab'[a], a)
  BY DEF TablesConsistent, Open, GoodTable
<1>1. GoodTable(tab[a], a) /\ tab[a] \in Table
  BY DEF Consistency, TablesConsistent, TypeOK, GoodTable
<1>2. PICK i \in Index :
        /\ ScanStopsAt(tab[m.app], freePos[m.app], i)
        /\ tab' = [tab EXCEPT ![m.app] = OpenSession(@, i, m, Id)]
  BY DEF Open
<1>3. CASE m.app # a
  BY <1>1, <1>2, <1>3 DEF Consistency, TypeOK
<1>4. CASE m.app = a
  <2>1. i \in Index \ tab[a].bits /\ m.key \in Keys \ Live(tab[a])
    BY <1>2, <1>4 DEF ScanStopsAt, Open, Message
  <2> DEFINE new == tab'[a]
             tb  == tab[a]
  <2>2. new = OpenSession(tb, i, m, Id)
    BY <1>2, <1>4 DEF Consistency, TypeOK
  <2>3. tb \in Table /\ TableSound(tb, a) /\ HalfOpen(tb) /\ i \in Index \ tb.bits /\ m.key \in Keys \ Live(tb)
    BY <1>1, <2>1 DEF GoodTable
  <2> HIDE DEF new, tb
  <2>4. TableSound(new, a) /\ HalfOpen(new)
    BY <1>4, <2>2, <2>3, OpenTable
  <2>5. QED
    BY <2>4 DEF GoodTable, new
<1>5. QED
  BY <1>3, <1>4

LEMMA PoolFullConsistent ==
  ASSUME Consistency, NEW m \in Message, PoolFull(m)
  PROVE  TablesConsistent'
<1>1. CASE UNCHANGED <<tab, wild>>
  BY <1>1 DEF Consistency, TablesConsistent
<1>2. CASE wild' = TRUE
  BY <1>2 DEF TablesConsistent
<1>3. QED
  BY <1>1, <1>2 DEF PoolFull

LEMMA CleanupConsistent ==
  ASSUME Consistency, Cleanup
  PROVE  TablesConsistent'
<1> SUFFICES ASSUME ~wild PROVE \A b \in Apps : GoodTable(tab'[b], b)
  BY DEF TablesConsistent, Cleanup, GoodTable
<1> DEFINE afterGx == CleanPass(tab, GX)
           afterGy == CleanPass(afterGx, GY)
<1>1. GX \in Apps /\ GY \in Apps /\ tab \in [Apps -> Table]
  BY GxAssumption DEF Consistency, TypeOK
<1>2. \A b \in Apps : GoodTable(tab[b], b)
  BY DEF Consistency, TablesConsistent, GoodTable
<1>3. afterGx \in [Apps -> Table] /\ \A b \in Apps : GoodTable(afterGx[b], b)
  BY <1>1, <1>2, CleanPassType, CleanPassConsistent
<1> HIDE DEF afterGx
<1>4. \A b \in Apps : GoodTable(afterGy[b], b)
  BY <1>1, <1>3, CleanPassConsistent
<1>5. tab' = afterGy
  BY DEF Cleanup, afterGx
<1>6. QED
  BY <1>4, <1>5

LEMMA NextConsistent ==
  ASSUME Consistency, [Next]_vars
  PROVE  TablesConsistent'
<1>1. ASSUME NEW a \in Apps, NEW k \in Keys, NEW d \in {Request, Answer}, NEW t \in Stamps,
             Process([app |-> a, key |-> k, kind |-> d, ts |-> t])
      PROVE  TablesConsistent'
  <2> DEFINE m == [app |-> a, key |-> k, kind |-> d, ts |-> t]
  <2>1. m \in Message /\ Id \in Nat \ {0}
    BY MessageTypes DEF Consistency
  <2> HIDE DEF m
  <2>2. CASE Complete(m)
    BY <2>1, <2>2, CompleteConsistent
  <2>3. CASE Open(m)
    BY <2>1, <2>3, OpenStepConsistent
  <2>4. CASE ScanForever(m)
    BY <2>4 DEF ScanForever, Consistency, TablesConsistent
  <2>5. CASE PoolFull(m)
    BY <2>1, <2>5, PoolFullConsistent
  <2>6. QED
    BY <1>1, <2>2, <2>3, <2>4, <2>5 DEF Process, m
<1>2. CASE Cleanup
  BY <1>2, CleanupConsistent
<1>3. CASE Tick
  BY <1>3 DEF Tick, Consistency, TablesConsistent
<1>4. CASE UNCHANGED vars
  BY <1>4 DEF vars, Consistency, TablesConsistent
<1>5. QED
  BY <1>1, <1>2, <1>3, <1>4 DEF Next

(* Bitmap, map and pool agree in every state reached without a write       *)
(* through the uninitialised pointer, so that releasing an entry by the    *)
(* application and the key stored in it frees that entry and no other.     *)
THEOREM Consistent == Spec => []TablesConsistent
<1>1. Init => Consistency
  BY InitType, InitConsistent DEF Consistency
<1>2. Consistency /\ [Next]_vars => Consistency'
  BY NextType, NextConsistent DEF Consistency
<1>3. Consistency => TablesConsistent
  BY DEF Consistency
<1>4. QED
  BY <1>1, <1>2, <1>3, PTL DEF Spec

-----------------------------------------------------------------------------
(* Termination of the free-index scan.                                     *)

LEMMA RoomMeansFreeEntry ==
  ASSUME Consistency
  PROVE  ScanFindsEntry
<1> SUFFICES ASSUME ~wild, NEW a \in Apps, Room(a) PROVE Index \ tab[a].bits # {}
  BY DEF ScanFindsEntry
<1>1. tab[a] \in Table /\ BitsAreMapped(tab[a]) /\ NoSharedEntry(tab[a])
  BY DEF Consistency, TypeOK, TablesConsistent, TableSound
<1>2. QED
  BY <1>1, SmallMapLeavesBit DEF Room

(* The scan for a clear bit ends: as long as no pointer was lost, a map    *)
(* below its limit leaves a clear bit in the pool.                         *)
THEOREM ScanTerminates == Spec => []ScanFindsEntry
<1>1. Spec => [](TypeOK /\ TablesConsistent)
  BY TypeCorrect, Consistent, PTL
<1>2. TypeOK /\ TablesConsistent => ScanFindsEntry
  BY RoomMeansFreeEntry DEF Consistency
<1>3. QED
  BY <1>1, <1>2, PTL

-----------------------------------------------------------------------------
(* What each handler does to the sessions, seen from their keys.           *)

LEMMA CompleteView ==
  ASSUME Consistency, ~wild, NEW m \in Message, Complete(m),
         NEW s, s = CopyMessage(SessionOf(tab[m.app], m.key), m, Id)
  PROVE  /\ m.key \in Live(tab[m.app])
         /\ flushed' = Append(flushed, [app |-> m.app, key |-> m.key, req |-> s.req, ans |-> s.ans])
         /\ \A a \in Apps : Live(tab'[a]) = Live(tab[a]) \ (IF a = m.app THEN {m.key} ELSE {})
         /\ \A a \in Apps : \A k \in Live(tab'[a]) : SessionOf(tab'[a], k) = SessionOf(tab[a], k)
<1> DEFINE tb == tab[m.app]
           K  == {m.key}
           i  == tb.sess[m.key]
<1>1. m.app \in Apps /\ m.key \in Live(tb) /\ tb \in Table /\ GoodTable(tb, m.app)
  BY DEF Complete, Message, Consistency, TypeOK, TablesConsistent, GoodTable
<1>2. tb.pool[i] \in Entry /\ tb.pool[i].key = m.key
  BY <1>1, TableParts DEF GoodTable, TableSound, EntryIsKeysSession, SessionOf
<1>3. s.key = m.key /\ s.app = m.app
  BY <1>2 DEF CopyMessage, Entry, SessionOf
<1>4. /\ flushed' = Append(flushed, [app |-> s.app, key |-> s.key, req |-> s.req, ans |-> s.ans])
      /\ tab' = [tab EXCEPT ![m.app] = Without(@, {i}, {s.key})]
  BY DEF Complete, SessionOf
<1>5. {i} = {tb.sess[k] : k \in K} /\ K \in SUBSET Live(tb)
  BY <1>1
<1>6. tab'[m.app] = Release(tb, K) /\ \A a \in Apps : a # m.app => tab'[a] = tab[a]
  BY <1>1, <1>3, <1>4, <1>5 DEF Release, Consistency, TypeOK
<1>7. TableSound(tb, m.app)
  BY <1>1 DEF GoodTable
<1> DEFINE new == tab'[m.app]
<1> HIDE DEF tb, K, i, new
<1>8. Live(new) = Live(tb) \ K /\ \A x \in Live(new) : SessionOf(new, x) = SessionOf(tb, x)
  BY <1>1, <1>5, <1>6, <1>7, ReleaseTable DEF new
<1> QED  BY <1>1, <1>3, <1>4, <1>6, <1>8 DEF new, tb, K

LEMMA OpenView ==
  ASSUME Consistency, ~wild, NEW m \in Message, Id \in Nat \ {0}, Open(m)
  PROVE  /\ m.key \notin Live(tab[m.app])
         /\ \A a \in Apps : Live(tab'[a]) = Live(tab[a]) \cup (IF a = m.app THEN {m.key} ELSE {})
         /\ \A a \in Apps : \A k \in Live(tab[a]) : SessionOf(tab'[a], k) = SessionOf(tab[a], k)
         /\ SessionOf(tab'[m.app], m.key) = CopyMessage([EmptySession EXCEPT !.key = m.key], m, Id)
<1> DEFINE tb  == tab[m.app]
           new == tab'[m.app]
<1>1. m.app \in Apps /\ m.key \notin Live(tb) /\ tb \in Table /\ TableSound(tb, m.app)
  BY DEF Open, Message, Consistency, TypeOK, TablesConsistent
<1>2. PICK i \in Index :
        /\ ScanStopsAt(tab[m.app], freePos[m.app], i)
        /\ tab' = [tab EXCEPT ![m.app] = OpenSession(@, i, m, Id)]
  BY DEF Open
<1>3. i \in Index \ tb.bits
  BY <1>2 DEF ScanStopsAt
<1>4. new = OpenSession(tb, i, m, Id) /\ \A a \in Apps : a # m.app => tab'[a] = tab[a]
  BY <1>1, <1>2 DEF Consistency, TypeOK
<1> HIDE DEF tb, new
<1>5. /\ Live(new) = Live(tb) \cup {m.key}
      /\ SessionOf(new, m.key) = CopyMessage([EmptySession EXCEPT !.key = m.key], m, Id)
      /\ \A x \in Live(tb) : SessionOf(new, x) = SessionOf(tb, x)
  BY <1>1, <1>3, <1>4, OpenTable
<1> QED  BY <1>1, <1>4, <1>5 DEF tb, new

(* A pass over the table of a takes the overdue sessions of a. *)
LEMMA CleanPassView ==
  ASSUME NEW t \in [Apps -> Table], NEW a \in Apps, \A b \in Apps : GoodTable(t[b], b)
  PROVE  \A b \in Apps :
           /\ Live(CleanPass(t, a)[b]) = Live(t[b]) \ (IF b = a THEN OverdueKeys(t[a], now) ELSE {})
           /\ \A k \in Live(CleanPass(t, a)[b]) : SessionOf(CleanPass(t, a)[b], k) = SessionOf(t[b], k)
<1> DEFINE keys        == OverdueKeys(t[a], now)
           releases(b) == {k \in keys : SessionOf(t[a], k).app = b}
<1> SUFFICES ASSUME NEW b \in Apps
             PROVE  /\ Live(CleanPass(t, a)[b]) = Live(t[b]) \ (IF b = a THEN keys ELSE {})
                    /\ \A k \in Live(CleanPass(t, a)[b]) :
                         SessionOf(CleanPass(t, a)[b], k) = SessionOf(t[b], k)
  OBVIOUS
<1>1. CleanPass(t, a)[b] =
        Without(t[b], {t[a].sess[k] : k \in releases(b)},
                      {SessionOf(t[a], k).key : k \in releases(b)})
  BY DEF CleanPass
<1>2. keys \subseteq Live(t[a])
  BY DEF OverdueKeys
<1>3. \A k \in keys : SessionOf(t[a], k).key = k /\ SessionOf(t[a], k).app = a
  BY <1>2 DEF GoodTable, TableSound, EntryIsKeysSession
<1>4. {SessionOf(t[a], k).key : k \in releases(b)} = releases(b)
  BY <1>3
<1>5. releases(b) = IF b = a THEN keys ELSE {}
  BY <1>3
<1>6. {t[a].sess[k] : k \in releases(b)} = {t[b].sess[k] : k \in releases(b)}
  BY <1>5
<1> DEFINE gone == releases(b)
           new  == CleanPass(t, a)[b]
<1>7. new = Release(t[b], gone)
  BY <1>1, <1>4, <1>6 DEF Release
<1>8. gone \in SUBSET Live(t[b]) /\ t[b] \in Table /\ TableSound(t[b], b)
  BY <1>2, <1>5 DEF GoodTable
<1>9. gone = IF b = a THEN keys ELSE {}
  BY <1>5
<1> HIDE DEF gone, new, keys
<1>10. Live(new) = Live(t[b]) \ gone /\ \A x \in Live(new) : SessionOf(new, x) = SessionOf(t[b], x)
  BY <1>7, <1>8, ReleaseTable
<1> QED  BY <1>9, <1>10 DEF new

LEMMA CleanupView ==
  ASSUME Consistency, ~wild, Cleanup
  PROVE  \A a \in Apps :
           /\ Live(tab'[a]) \subseteq Live(tab[a])
           /\ \A k \in Live(tab'[a]) : SessionOf(tab'[a], k) = SessionOf(tab[a], k)
           /\ \A k \in Live(tab[a]) \ Live(tab'[a]) :
                /\ Overdue(SessionOf(tab[a], k), now)
                /\ {SessionOf(tab[a], k).req, SessionOf(tab[a], k).ans} \ {0} \subseteq dropped'
<1> DEFINE afterGx == CleanPass(tab, GX)
           afterGy == CleanPass(afterGx, GY)
<1>1. GX \in Apps /\ GY \in Apps /\ Apps = {GX, GY} /\ GX # GY /\ tab \in [Apps -> Table]
  BY GxAssumption DEF Consistency, TypeOK
<1>2. \A b \in Apps : GoodTable(tab[b], b)
  BY DEF Consistency, TablesConsistent, GoodTable
<1>3. afterGx \in [Apps -> Table] /\ \A b \in Apps : GoodTable(afterGx[b], b)
  BY <1>1, <1>2, CleanPassType, CleanPassConsistent
<1>4. \A b \in Apps :
        /\ Live(afterGx[b]) = Live(tab[b]) \ (IF b = GX THEN OverdueKeys(tab[GX], now) ELSE {})
        /\ \A k \in Live(afterGx[b]) : SessionOf(afterGx[b], k) = SessionOf(tab[b], k)
  BY <1>1, <1>2, CleanPassView
<1>5. /\ tab' = afterGy
      /\ dropped' = dropped \cup OverdueMessages(tab, GX) \cup OverdueMessages(afterGx, GY)
  BY DEF Cleanup
<1> HIDE DEF afterGx
<1>6. \A b \in Apps :
        /\ Live(afterGy[b]) = Live(afterGx[b]) \ (IF b = GY THEN OverdueKeys(afterGx[GY], now) ELSE {})
        /\ \A k \in Live(afterGy[b]) : SessionOf(afterGy[b], k) = SessionOf(afterGx[b], k)
  BY <1>1, <1>3, CleanPassView
<1> HIDE DEF afterGy
<1>7. \A t : \A a \in Apps : \A k \in OverdueKeys(t[a], now) :
        /\ Overdue(SessionOf(t[a], k), now)
        /\ {SessionOf(t[a], k).req, SessionOf(t[a], k).ans} \ {0} \subseteq OverdueMessages(t, a)
  BY DEF OverdueKeys, OverdueMessages
<1>8. \A k \in OverdueKeys(afterGx[GY], now) :
        k \in Live(afterGx[GY]) /\ SessionOf(afterGx[GY], k) = SessionOf(tab[GY], k)
  BY <1>1, <1>4 DEF OverdueKeys
<1>9. ASSUME NEW a \in Apps
      PROVE  /\ Live(tab'[a]) \subseteq Live(tab[a])
             /\ \A k \in Live(tab'[a]) : SessionOf(tab'[a], k) = SessionOf(tab[a], k)
  BY <1>4, <1>5, <1>6
<1>10. ASSUME NEW a \in Apps, NEW k \in Live(tab[a]) \ Live(tab'[a])
       PROVE  /\ Overdue(SessionOf(tab[a], k), now)
              /\ {SessionOf(tab[a], k).req, SessionOf(tab[a], k).ans} \ {0} \subseteq dropped'
  <2>1. CASE a = GX
    <3>1. k \in OverdueKeys(tab[GX], now)
      BY <1>1, <1>4, <1>5, <1>6, <2>1
    <3> QED  BY <1>1, <1>5, <1>7, <2>1, <3>1
  <2>2. CASE a = GY
    <3>1. k \in OverdueKeys(afterGx[GY], now)
      BY <1>1, <1>4, <1>5, <1>6, <2>2
    <3>2. /\ Overdue(SessionOf(afterGx[GY], k), now)
          /\ {SessionOf(afterGx[GY], k).req, SessionOf(afterGx[GY], k).ans} \ {0}
               \subseteq OverdueMessages(afterGx, GY)
      BY <1>1, <1>7, <3>1
    <3> QED  BY <1>5, <1>8, <2>2, <3>1, <3>2
  <2> QED  BY <1>1, <2>1, <2>2
<1> QED  BY <1>9, <1>10

-----------------------------------------------------------------------------
(* What is reported.                                                       *)

(* A message is processed: the history grows by it and is otherwise kept.  *)
LEMMA SeenGrows ==
  ASSUME TypeOK, NEW m \in Message, Receive(m), NEW id, id = Id
  PROVE  /\ id \in Nat \ {0} /\ id = Len(seen) + 1 /\ Len(seen') = id
         /\ DOMAIN seen = 1 .. Len(seen) /\ DOMAIN seen' = 1 .. id
         /\ seen'[id] = [app |-> m.app, key |-> m.key, kind |-> m.kind]
         /\ \A x \in DOMAIN seen : seen'[x] = seen[x]
<1> DEFINE T == [app : Apps, key : Keys, kind : {Request, Answer}]
           e == [app |-> m.app, key |-> m.key, kind |-> m.kind]
<1>1. seen \in Seq(T) /\ e \in T /\ seen' = Append(seen, e)
  BY DEF TypeOK, Message, Receive
<1>2. id = Len(seen) + 1
  BY DEF Id
<1> HIDE DEF T, e
<1>3. /\ Len(seen) \in Nat /\ DOMAIN seen = 1 .. Len(seen) /\ Len(seen') = Len(seen) + 1
      /\ DOMAIN seen' = 1 .. Len(seen) + 1
      /\ seen'[Len(seen) + 1] = e /\ \A x \in 1 .. Len(seen) : seen'[x] = seen[x]
  BY <1>1, AppendProperties, LenProperties
<1> QED  BY <1>2, <1>3 DEF e

(* Message id is the last one of application a and key k.                  *)
LatestOf(id, a, k, d) ==
  /\ IsMessage(id, a, k, d)
  /\ \A later \in id + 1 .. Len(seen) : seen[later].app # a \/ seen[later].key # k

(* A session holds one message, the last of its application and key.       *)
HoldsLatest(s, a, k) ==
  \/ s.req # 0 /\ s.ans = 0 /\ LatestOf(s.req, a, k, Request)
  \/ s.req = 0 /\ s.ans # 0 /\ LatestOf(s.ans, a, k, Answer)

Waiting == ~wild => \A a \in Apps : \A k \in Live(tab[a]) : HoldsLatest(SessionOf(tab[a], k), a, k)

(* What RecordsMatchMessages and PairsAreAdjacent say of one record.       *)
Matches(r) ==
  /\ r.req # 0 \/ r.ans # 0
  /\ r.req # 0 => IsMessage(r.req, r.app, r.key, Request)
  /\ r.ans # 0 => IsMessage(r.ans, r.app, r.key, Answer)

Neighbours(r) ==
  LET lo == IF r.req < r.ans THEN r.req ELSE r.ans
      hi == IF r.req < r.ans THEN r.ans ELSE r.req
  IN  r.req # 0 /\ r.ans # 0 =>
        \A id \in lo + 1 .. hi - 1 : seen[id].app # r.app \/ seen[id].key # r.key

RecordsRight == ~wild => \A n \in DOMAIN flushed : Matches(flushed[n]) /\ Neighbours(flushed[n])

LEMMA RightMeans == RecordsRight <=> RecordsMatchMessages /\ PairsAreAdjacent
  BY DEF RecordsRight, RecordsMatchMessages, PairsAreAdjacent, Matches, Neighbours

(* Both stay true of a session or record that is not changed, unless the   *)
(* message is one of the session's key.                                    *)
LEMMA MessageStays ==
  ASSUME TypeOK, NEW m \in Message, Receive(m), NEW id, NEW a, NEW k, NEW d, IsMessage(id, a, k, d)
  PROVE  IsMessage(id, a, k, d)'
<1> PICK new : new = Id
  OBVIOUS
<1>0. Len(seen) \in Nat
  BY DEF TypeOK
<1>1. /\ new \in Nat \ {0} /\ new = Len(seen) + 1 /\ Len(seen') = new
      /\ DOMAIN seen = 1 .. Len(seen) /\ DOMAIN seen' = 1 .. new
      /\ seen'[new] = [app |-> m.app, key |-> m.key, kind |-> m.kind]
      /\ \A x \in DOMAIN seen : seen'[x] = seen[x]
  BY SeenGrows
<1>2. id \in 1 .. Len(seen) /\ seen[id] = [app |-> a, key |-> k, kind |-> d]
  BY <1>1 DEF IsMessage
<1>3. id \in 1 .. new /\ seen'[id] = seen[id]
  BY <1>0, <1>1, <1>2
<1> QED  BY <1>1, <1>2, <1>3 DEF IsMessage

LEMMA LatestStays ==
  ASSUME TypeOK, NEW m \in Message, Receive(m), NEW id, NEW a, NEW k, NEW d, LatestOf(id, a, k, d),
         m.app # a \/ m.key # k
  PROVE  LatestOf(id, a, k, d)'
<1> PICK new : new = Id
  OBVIOUS
<1>1. /\ new \in Nat \ {0} /\ new = Len(seen) + 1 /\ Len(seen') = new /\ DOMAIN seen = 1 .. Len(seen)
      /\ seen'[new] = [app |-> m.app, key |-> m.key, kind |-> m.kind]
      /\ \A x \in DOMAIN seen : seen'[x] = seen[x]
  BY SeenGrows
<1>2. Len(seen) \in Nat
  BY DEF TypeOK
<1>3. id \in 1 .. Len(seen)
  BY <1>1 DEF LatestOf, IsMessage
<1>4. ASSUME NEW later \in id + 1 .. new PROVE seen'[later].app # a \/ seen'[later].key # k
  <2>1. CASE later = new
    BY <1>1, <2>1
  <2>2. CASE later # new
    <3>1. later \in id + 1 .. Len(seen) /\ later \in 1 .. Len(seen)
      BY <1>1, <1>2, <1>3, <2>2
    <3> QED  BY <1>1, <3>1 DEF LatestOf
  <2> QED  BY <2>1, <2>2
<1> QED  BY <1>1, <1>4, MessageStays DEF LatestOf

LEMMA HoldsStays ==
  ASSUME TypeOK, NEW m \in Message, Receive(m), NEW s, NEW a, NEW k, HoldsLatest(s, a, k),
         m.app # a \/ m.key # k
  PROVE  HoldsLatest(s, a, k)'
  BY LatestStays DEF HoldsLatest

LEMMA RecordStays ==
  ASSUME TypeOK, NEW m \in Message, Receive(m), NEW r, Matches(r), Neighbours(r)
  PROVE  Matches(r)' /\ Neighbours(r)'
<1> PICK new : new = Id
  OBVIOUS
<1>1. /\ DOMAIN seen = 1 .. Len(seen) /\ \A x \in DOMAIN seen : seen'[x] = seen[x]
  BY SeenGrows
<1>2. Matches(r)'
  BY MessageStays DEF Matches
<1>3. Len(seen) \in Nat
  BY DEF TypeOK
<1>4. ASSUME r.req # 0, r.ans # 0 PROVE r.req \in 1 .. Len(seen) /\ r.ans \in 1 .. Len(seen)
  BY <1>1, <1>4 DEF Matches, IsMessage
<1>5. Neighbours(r)'
  <2> DEFINE lo == IF r.req < r.ans THEN r.req ELSE r.ans
             hi == IF r.req < r.ans THEN r.ans ELSE r.req
  <2> SUFFICES ASSUME r.req # 0, r.ans # 0, NEW id \in lo + 1 .. hi - 1
               PROVE  seen'[id].app # r.app \/ seen'[id].key # r.key
    BY DEF Neighbours
  <2>1. lo \in 1 .. Len(seen) /\ hi \in 1 .. Len(seen)
    BY <1>4
  <2>2. seen[id].app # r.app \/ seen[id].key # r.key
    BY DEF Neighbours
  <2> HIDE DEF lo, hi
  <2>3. id \in DOMAIN seen
    BY <1>1, <1>3, <2>1
  <2> QED  BY <1>1, <2>2, <2>3
<1> QED  BY <1>2, <1>5

(* The message in hand is the last of its application and key.             *)
LEMMA LatestNow ==
  ASSUME TypeOK, NEW m \in Message, Receive(m), NEW id, id = Id
  PROVE  LatestOf(id, m.app, m.key, m.kind)'
<1>1. /\ id \in Nat \ {0} /\ Len(seen') = id /\ DOMAIN seen' = 1 .. id
      /\ seen'[id] = [app |-> m.app, key |-> m.key, kind |-> m.kind]
  BY SeenGrows
<1> QED  BY <1>1 DEF LatestOf, IsMessage

(* A second message completes the session: the record is right.            *)
LEMMA CompleteRight ==
  ASSUME Consistency, Waiting, RecordsRight, NEW m \in Message, Complete(m)
  PROVE  Waiting' /\ RecordsRight'
<1> SUFFICES ASSUME ~wild PROVE Waiting' /\ RecordsRight'
  BY DEF Complete, Waiting, RecordsRight
<1>t. TypeOK /\ Receive(m)
  BY DEF Consistency, Complete
<1> PICK id : id = Id
  OBVIOUS
<1> PICK old : old = SessionOf(tab[m.app], m.key)
  OBVIOUS
<1> PICK s : s = CopyMessage(old, m, id)
  OBVIOUS
<1> PICK r : r = [app |-> m.app, key |-> m.key, req |-> s.req, ans |-> s.ans]
  OBVIOUS
<1>1. /\ m.key \in Live(tab[m.app]) /\ m.app \in Apps
      /\ flushed' = Append(flushed, r)
      /\ \A a \in Apps : Live(tab'[a]) = Live(tab[a]) \ (IF a = m.app THEN {m.key} ELSE {})
      /\ \A a \in Apps : \A k \in Live(tab'[a]) : SessionOf(tab'[a], k) = SessionOf(tab[a], k)
  BY CompleteView DEF Message
<1>2. Waiting'
  <2> SUFFICES ASSUME NEW a \in Apps, NEW k \in Live(tab'[a])
               PROVE  HoldsLatest(SessionOf(tab[a], k), a, k)'
    BY DEF Waiting
  <2> PICK e : e = SessionOf(tab[a], k)
    OBVIOUS
  <2>1. k \in Live(tab[a]) /\ (a # m.app \/ k # m.key) /\ SessionOf(tab'[a], k) = e
    BY <1>1
  <2>2. HoldsLatest(e, a, k)'
    BY <1>t, <2>1, HoldsStays DEF Waiting
  <2> QED  BY <2>1, <2>2
<1>3. HoldsLatest(old, m.app, m.key)
  BY <1>1 DEF Waiting
<1>4. /\ old \in Entry /\ m.kind \in {Request, Answer} /\ Request # Answer
  BY <1>1, <1>t, TableParts DEF SessionOf, TypeOK, Message, Request, Answer
<1>5. \/ m.kind = Request /\ s.req = id /\ s.ans = old.ans
      \/ m.kind = Answer /\ s.ans = id /\ s.req = old.req
  BY <1>4 DEF CopyMessage, Entry
<1>6. LatestOf(id, m.app, m.key, m.kind)' /\ id \in Nat \ {0}
  BY <1>t, LatestNow, SeenGrows
<1>7. Matches(r)'
  <2>1. ASSUME NEW x, NEW d, LatestOf(x, m.app, m.key, d) PROVE IsMessage(x, m.app, m.key, d)'
    BY <1>t, <2>1, MessageStays DEF LatestOf
  <2>2. /\ old.req # 0 => IsMessage(old.req, m.app, m.key, Request)'
        /\ old.ans # 0 => IsMessage(old.ans, m.app, m.key, Answer)'
    BY <1>3, <2>1 DEF HoldsLatest
  <2>3. IsMessage(id, m.app, m.key, m.kind)'
    BY <1>6 DEF LatestOf
  <2> QED  BY <1>5, <1>6, <2>2, <2>3 DEF Matches
<1>8. Neighbours(r)'
  <2>0. /\ id = Len(seen) + 1 /\ DOMAIN seen = 1 .. Len(seen) /\ Len(seen) \in Nat
        /\ \A x \in DOMAIN seen : seen'[x] = seen[x]
    <3>1. Len(seen) \in Nat
      BY <1>t DEF TypeOK
    <3>2. /\ id \in Nat \ {0} /\ id = Len(seen) + 1 /\ Len(seen') = id
          /\ DOMAIN seen = 1 .. Len(seen) /\ DOMAIN seen' = 1 .. id
          /\ seen'[id] = [app |-> m.app, key |-> m.key, kind |-> m.kind]
          /\ \A x \in DOMAIN seen : seen'[x] = seen[x]
      BY <1>t, SeenGrows
    <3> QED  BY <3>1, <3>2
  <2>1. ASSUME NEW x, x # 0, NEW d, LatestOf(x, m.app, m.key, d)
        PROVE  /\ x \in 1 .. Len(seen)
               /\ \A y \in x + 1 .. id - 1 : seen'[y].app # m.app \/ seen'[y].key # m.key
    <3>1. x \in 1 .. Len(seen)
      BY <2>0, <2>1 DEF LatestOf, IsMessage
    <3>2. ASSUME NEW y \in x + 1 .. id - 1
          PROVE  seen'[y].app # m.app \/ seen'[y].key # m.key
      <4>1. y \in x + 1 .. Len(seen) /\ y \in DOMAIN seen
        BY <2>0, <3>1
      <4> QED  BY <2>0, <2>1, <4>1 DEF LatestOf
    <3> QED  BY <3>1, <3>2
  <2> DEFINE Ends(x) == /\ x \in 1 .. Len(seen) /\ {r.req, r.ans} = {x, id}
                        /\ \A y \in x + 1 .. id - 1 : seen'[y].app # m.app \/ seen'[y].key # m.key
             lo == IF r.req < r.ans THEN r.req ELSE r.ans
             hi == IF r.req < r.ans THEN r.ans ELSE r.req
  <2> SUFFICES ASSUME r.req # 0, r.ans # 0 PROVE \E x : Ends(x)
    <3> SUFFICES ASSUME r.req # 0, r.ans # 0, NEW y \in lo + 1 .. hi - 1
                 PROVE  seen'[y].app # m.app \/ seen'[y].key # m.key
      BY DEF Neighbours
    <3>1. PICK x : Ends(x)
      OBVIOUS
    <3>2. (r.req = x /\ r.ans = id) \/ (r.req = id /\ r.ans = x)
      BY <3>1
    <3>3. x < id /\ x \in Nat /\ id \in Nat
      BY <2>0, <3>1
    <3>4. lo = x /\ hi = id
      BY <3>2, <3>3
    <3> QED  BY <3>1, <3>4
  <2>2. CASE s.req = id /\ s.ans = old.ans
    <3>1. LatestOf(old.ans, m.app, m.key, Answer) /\ old.ans # 0
      BY <1>3, <2>2 DEF HoldsLatest
    <3>2. /\ old.ans \in 1 .. Len(seen) /\ {r.req, r.ans} = {old.ans, id}
          /\ \A y \in old.ans + 1 .. id - 1 : seen'[y].app # m.app \/ seen'[y].key # m.key
      BY <2>1, <2>2, <3>1
    <3> QED  BY <3>2
  <2>3. CASE s.ans = id /\ s.req = old.req
    <3>1. LatestOf(old.req, m.app, m.key, Request) /\ old.req # 0
      BY <1>3, <2>3 DEF HoldsLatest
    <3>2. /\ old.req \in 1 .. Len(seen) /\ {r.req, r.ans} = {old.req, id}
          /\ \A y \in old.req + 1 .. id - 1 : seen'[y].app # m.app \/ seen'[y].key # m.key
      BY <2>1, <2>3, <3>1
    <3> QED  BY <3>2
  <2> QED  BY <1>5, <2>2, <2>3
<1>9. RecordsRight'
  <2> SUFFICES ASSUME NEW n \in DOMAIN flushed' PROVE Matches(flushed[n])' /\ Neighbours(flushed[n])'
    BY DEF RecordsRight
  <2> PICK e : e = flushed'[n]
    OBVIOUS
  <2>1. e = r \/ \E j \in DOMAIN flushed : e = flushed[j]
    <3>1. flushed \in Seq([app : Apps, key : Keys \cup {NoKey}, req : Nat, ans : Nat])
      BY <1>t DEF TypeOK
    <3> QED  BY <1>1, <3>1
  <2>2. Matches(e)' /\ Neighbours(e)'
    <3>1. CASE e = r
      BY <1>7, <1>8, <3>1
    <3>2. CASE \E j \in DOMAIN flushed : e = flushed[j]
      <4>1. Matches(e) /\ Neighbours(e)
        BY <3>2 DEF RecordsRight
      <4> QED  BY <1>t, <4>1, RecordStays
    <3> QED  BY <2>1, <3>1, <3>2
  <2> QED  BY <2>2
<1> QED  BY <1>2, <1>9

LEMMA OpenRight ==
  ASSUME Consistency, Waiting, RecordsRight, NEW m \in Message, Open(m)
  PROVE  Waiting' /\ RecordsRight'
<1> SUFFICES ASSUME ~wild PROVE Waiting' /\ RecordsRight'
  BY DEF Open, Waiting, RecordsRight
<1>t. TypeOK /\ Receive(m) /\ flushed' = flushed
  BY DEF Consistency, Open
<1> PICK id : id = Id
  OBVIOUS
<1>0. id \in Nat \ {0}
  BY <1>t, SeenGrows
<1>1. /\ m.key \notin Live(tab[m.app]) /\ m.app \in Apps
      /\ \A a \in Apps : Live(tab'[a]) = Live(tab[a]) \cup (IF a = m.app THEN {m.key} ELSE {})
      /\ \A a \in Apps : \A k \in Live(tab[a]) : SessionOf(tab'[a], k) = SessionOf(tab[a], k)
      /\ SessionOf(tab'[m.app], m.key) = CopyMessage([EmptySession EXCEPT !.key = m.key], m, id)
  BY <1>0, OpenView DEF Message
<1>2. Waiting'
  <2> SUFFICES ASSUME NEW a \in Apps, NEW k \in Live(tab'[a])
               PROVE  HoldsLatest(SessionOf(tab[a], k), a, k)'
    BY DEF Waiting
  <2> PICK e : e = SessionOf(tab'[a], k)
    OBVIOUS
  <2>1. CASE a = m.app /\ k = m.key
    <3>1. e = CopyMessage([EmptySession EXCEPT !.key = m.key], m, id)
      BY <1>1, <2>1
    <3>2. \/ m.kind = Request /\ e.req = id /\ e.ans = 0
          \/ m.kind = Answer /\ e.req = 0 /\ e.ans = id
      BY <3>1 DEF CopyMessage, EmptySession, Message
    <3>3. LatestOf(id, m.app, m.key, m.kind)'
      BY <1>t, LatestNow
    <3>4. HoldsLatest(e, a, k)'
      BY <1>0, <2>1, <3>2, <3>3 DEF HoldsLatest
    <3> QED  BY <3>4
  <2>2. CASE ~(a = m.app /\ k = m.key)
    <3>1. k \in Live(tab[a]) /\ SessionOf(tab[a], k) = e
      BY <1>1, <2>2
    <3>2. HoldsLatest(e, a, k)'
      BY <1>t, <2>2, <3>1, HoldsStays DEF Waiting
    <3> QED  BY <3>2
  <2> QED  BY <2>1, <2>2
<1>3. RecordsRight'
  <2> SUFFICES ASSUME NEW n \in DOMAIN flushed PROVE Matches(flushed[n])' /\ Neighbours(flushed[n])'
    BY <1>t DEF RecordsRight
  <2> PICK e : e = flushed[n]
    OBVIOUS
  <2>1. Matches(e)' /\ Neighbours(e)'
    BY <1>t, RecordStays DEF RecordsRight
  <2> QED  BY <1>t, <2>1
<1> QED  BY <1>2, <1>3

(* When the pool is full the pointer is lost or the program has stopped,   *)
(* with the message unknown to any session.                                *)
LEMMA StopRight ==
  ASSUME Consistency, Waiting, RecordsRight, NEW m \in Message, ScanForever(m) \/ PoolFull(m)
  PROVE  Waiting' /\ RecordsRight'
<1>1. CASE wild'
  BY <1>1 DEF Waiting, RecordsRight
<1>2. CASE ~wild'
  <2>1. ~wild /\ UNCHANGED <<tab, flushed>> /\ Receive(m) /\ m.key \notin Live(tab[m.app]) /\ TypeOK
    BY <1>2 DEF ScanForever, PoolFull, Consistency
  <2>2. Waiting'
    <3> SUFFICES ASSUME NEW a \in Apps, NEW k \in Live(tab[a])
                 PROVE  HoldsLatest(SessionOf(tab[a], k), a, k)'
      BY <2>1 DEF Waiting
    <3> PICK e : e = SessionOf(tab[a], k)
      OBVIOUS
    <3>1. HoldsLatest(e, a, k)'
      BY <2>1, HoldsStays DEF Waiting
    <3> QED  BY <2>1, <3>1
  <2>3. RecordsRight'
    <3> SUFFICES ASSUME NEW n \in DOMAIN flushed PROVE Matches(flushed[n])' /\ Neighbours(flushed[n])'
      BY <2>1 DEF RecordsRight
    <3> PICK e : e = flushed[n]
      OBVIOUS
    <3>1. Matches(e)' /\ Neighbours(e)'
      BY <2>1, RecordStays DEF RecordsRight
    <3> QED  BY <2>1, <3>1
  <2> QED  BY <2>2, <2>3
<1> QED  BY <1>1, <1>2

LEMMA QuietRight ==
  ASSUME Consistency, Waiting, RecordsRight, Cleanup \/ Tick \/ UNCHANGED vars
  PROVE  Waiting' /\ RecordsRight'
<1>1. UNCHANGED <<seen, flushed, wild>>
  BY DEF Cleanup, Tick, vars
<1>2. RecordsRight'
  BY <1>1 DEF RecordsRight, Matches, Neighbours, IsMessage
<1>3. Waiting'
  <2>1. CASE wild
    BY <1>1, <2>1 DEF Waiting
  <2>2. CASE ~wild
    <3>1. \A a \in Apps : \A k \in Live(tab'[a]) :
            k \in Live(tab[a]) /\ SessionOf(tab'[a], k) = SessionOf(tab[a], k)
      <4>1. CASE Cleanup
        BY <2>2, <4>1, CleanupView
      <4>2. CASE Tick \/ UNCHANGED vars
        BY <4>2 DEF Tick, vars
      <4> QED  BY <4>1, <4>2
    <3> SUFFICES ASSUME NEW a \in Apps, NEW k \in Live(tab'[a])
                 PROVE  HoldsLatest(SessionOf(tab[a], k), a, k)'
      BY DEF Waiting
    <3>2. HoldsLatest(SessionOf(tab[a], k), a, k)
      BY <2>2, <3>1 DEF Waiting
    <3> QED  BY <1>1, <3>1, <3>2 DEF HoldsLatest, LatestOf, IsMessage
  <2> QED  BY <2>1, <2>2
<1> QED  BY <1>2, <1>3

LEMMA RightStep ==
  ASSUME Consistency, Waiting, RecordsRight, [Next]_vars
  PROVE  Waiting' /\ RecordsRight'
<1>1. ASSUME NEW a \in Apps, NEW k \in Keys, NEW d \in {Request, Answer}, NEW t \in Stamps,
             Process([app |-> a, key |-> k, kind |-> d, ts |-> t])
      PROVE  Waiting' /\ RecordsRight'
  <2> DEFINE m == [app |-> a, key |-> k, kind |-> d, ts |-> t]
  <2>1. m \in Message
    BY MessageTypes DEF Consistency
  <2> HIDE DEF m
  <2>2. Complete(m) \/ Open(m) \/ ScanForever(m) \/ PoolFull(m)
    BY <1>1 DEF Process, m
  <2> QED  BY <2>1, <2>2, CompleteRight, OpenRight, StopRight
<1> QED  BY <1>1, QuietRight DEF Next

-----------------------------------------------------------------------------
(* A message is in one place.  This does not depend on the tables: a       *)
(* message is written into one pool entry, which is emptied when the       *)
(* record is made.                                                         *)

HeldIn(a, i) == {tab[a].pool[i].req, tab[a].pool[i].ans}
TellsOf(n)   == {flushed[n].req, flushed[n].ans}

Once ==
  /\ \A a \in Apps : \A i \in Index : HeldIn(a, i) \subseteq 0 .. Len(seen)
  /\ \A n \in DOMAIN flushed : TellsOf(n) \subseteq 0 .. Len(seen)
  /\ \A a, b \in Apps : \A i, j \in Index :
       <<a, i>> # <<b, j>> => HeldIn(a, i) \cap HeldIn(b, j) \subseteq {0}
  /\ \A a \in Apps : \A i \in Index : \A n \in DOMAIN flushed :
       HeldIn(a, i) \cap TellsOf(n) \subseteq {0}
  /\ \A n1, n2 \in DOMAIN flushed : n1 # n2 => TellsOf(n1) \cap TellsOf(n2) \subseteq {0}

LEMMA OnceMeans == ASSUME TypeOK, Once PROVE ReportedOnce
<1>1. ASSUME NEW x \in LiveIds PROVE \E a \in Apps : \E i \in Index : x \in HeldIn(a, i)
  <2>0. PICK a \in Apps : \E k \in Live(tab[a]) : x \in {SessionOf(tab[a], k).req, SessionOf(tab[a], k).ans}
    BY DEF LiveIds
  <2>1. PICK k \in Live(tab[a]) : x \in {SessionOf(tab[a], k).req, SessionOf(tab[a], k).ans}
    BY <2>0
  <2>2. tab[a].sess[k] \in Index
    BY TableParts DEF TypeOK
  <2> QED  BY <2>1, <2>2 DEF HeldIn, SessionOf
<1>2. ASSUME NEW x \in FlushedIds PROVE \E n \in DOMAIN flushed : x \in TellsOf(n)
  BY DEF FlushedIds, TellsOf
<1>3. ASSUME NEW x \in LiveIds \cap FlushedIds PROVE x = 0
  <2>1. PICK a \in Apps, i \in Index : x \in HeldIn(a, i)
    BY <1>1
  <2>2. PICK n \in DOMAIN flushed : x \in TellsOf(n)
    BY <1>2
  <2> QED  BY <2>1, <2>2 DEF Once
<1>4. \A n1, n2 \in DOMAIN flushed : n1 # n2 => TellsOf(n1) \cap TellsOf(n2) \subseteq {0}
  BY DEF Once
<1> QED  BY <1>3, <1>4 DEF ReportedOnce, TellsOf

(* Entry <<b, j>> gets message id or gives what it holds to a record, and  *)
(* no other entry gets anything.                                           *)
LEMMA OneEntryMoves ==
  ASSUME TypeOK, Once, NEW b \in Apps, NEW j \in Index, NEW id, id = Id, Len(seen') = id,
         \A a \in Apps : \A i \in Index : <<a, i>> # <<b, j>> => HeldIn(a, i)' \subseteq HeldIn(a, i) \cup {0},
         \/ flushed' = flushed /\ HeldIn(b, j)' \subseteq HeldIn(b, j) \cup {0, id}
         \/ /\ HeldIn(b, j)' \subseteq {0}
            /\ \E r : flushed' = Append(flushed, r) /\ {r.req, r.ans} \subseteq HeldIn(b, j) \cup {0, id}
  PROVE  Once'
<1>0. Len(seen) \in Nat /\ id = Len(seen) + 1
  BY DEF TypeOK, Id
<1> DEFINE Old == 0 .. Len(seen)
           New == 0 .. id
<1>1. Old \subseteq New /\ id \in New /\ 0 \in New /\ id \notin Old
  BY <1>0
<1>2. /\ \A a \in Apps : \A i \in Index : HeldIn(a, i) \subseteq Old
      /\ \A n \in DOMAIN flushed : TellsOf(n) \subseteq Old
  BY DEF Once
<1>3. (0 .. Len(seen))' = New
  OBVIOUS
<1> HIDE DEF Old, New
<1>4. \A a \in Apps : \A i \in Index :
        HeldIn(a, i)' \subseteq HeldIn(a, i) \cup (IF <<a, i>> = <<b, j>> THEN {0, id} ELSE {0})
  OBVIOUS
<1>5. ASSUME NEW a \in Apps, NEW i \in Index PROVE HeldIn(a, i)' \subseteq New
  BY <1>1, <1>2, <1>4
<1>6. ASSUME NEW a \in Apps, NEW c \in Apps, NEW i \in Index, NEW k \in Index, <<a, i>> # <<c, k>>
      PROVE  HeldIn(a, i)' \cap HeldIn(c, k)' \subseteq {0}
  <2> SUFFICES ASSUME NEW x, x \in HeldIn(a, i)', x \in HeldIn(c, k)', x # 0 PROVE FALSE
    OBVIOUS
  <2>1. /\ x \in HeldIn(a, i) \/ (x = id /\ <<a, i>> = <<b, j>>)
        /\ x \in HeldIn(c, k) \/ (x = id /\ <<c, k>> = <<b, j>>)
    BY <1>4
  <2>2. ~(x \in HeldIn(a, i) /\ x \in HeldIn(c, k))
    BY <1>6 DEF Once
  <2>3. x \in HeldIn(a, i) \/ x \in HeldIn(c, k) => x # id
    BY <1>1, <1>2
  <2> QED  BY <1>6, <2>1, <2>2, <2>3
<1>7. CASE flushed' = flushed
  <2>1. \A n \in DOMAIN flushed : TellsOf(n)' = TellsOf(n)
    BY <1>7 DEF TellsOf
  <2>2. \A n \in DOMAIN flushed' : TellsOf(n)' \subseteq New
    BY <1>1, <1>2, <1>7, <2>1
  <2>3. ASSUME NEW a \in Apps, NEW i \in Index, NEW n \in DOMAIN flushed
        PROVE  HeldIn(a, i)' \cap TellsOf(n)' \subseteq {0}
    <3>1. HeldIn(a, i) \cap TellsOf(n) \subseteq {0} /\ id \notin TellsOf(n)
      BY <1>1, <1>2 DEF Once
    <3> QED  BY <1>4, <2>1, <3>1
  <2>4. \A n1, n2 \in DOMAIN flushed : n1 # n2 => TellsOf(n1) \cap TellsOf(n2) \subseteq {0}
    BY DEF Once
  <2> QED  BY <1>3, <1>5, <1>6, <1>7, <2>1, <2>2, <2>3, <2>4 DEF Once
<1>8. ASSUME NEW r, flushed' = Append(flushed, r), {r.req, r.ans} \subseteq HeldIn(b, j) \cup {0, id},
             HeldIn(b, j)' \subseteq {0}
      PROVE  Once'
  <2> DEFINE last == Len(flushed) + 1
  <2>1. /\ DOMAIN flushed' = DOMAIN flushed \cup {last} /\ last \notin DOMAIN flushed
        /\ flushed'[last] = r /\ \A n \in DOMAIN flushed : flushed'[n] = flushed[n]
    <3>1. flushed \in Seq([app : Apps, key : Keys \cup {NoKey}, req : Nat, ans : Nat])
      BY DEF TypeOK
    <3>2. Len(flushed) \in Nat /\ DOMAIN flushed = 1 .. Len(flushed)
      BY <3>1, LenProperties
    <3>3. Len(flushed') = Len(flushed) + 1 /\ DOMAIN flushed' = 1 .. Len(flushed')
      BY <1>8, <3>1
    <3>4. flushed'[last] = r /\ \A n \in 1 .. Len(flushed) : flushed'[n] = flushed[n]
      BY <1>8, <3>1
    <3> QED  BY <3>2, <3>3, <3>4
  <2> HIDE DEF last
  <2>2. /\ \A n \in DOMAIN flushed : TellsOf(n)' = TellsOf(n)
        /\ \A n : n = last => TellsOf(n)' = {r.req, r.ans}
    BY <2>1 DEF TellsOf
  <2>3. \A n \in DOMAIN flushed' : TellsOf(n)' \subseteq New
    BY <1>1, <1>2, <1>8, <2>1, <2>2
  <2>4. ASSUME NEW a \in Apps, NEW i \in Index, NEW n \in DOMAIN flushed'
        PROVE  HeldIn(a, i)' \cap TellsOf(n)' \subseteq {0}
    <3>1. CASE <<a, i>> = <<b, j>>
      BY <1>8, <3>1
    <3>2. CASE <<a, i>> # <<b, j>> /\ n \in DOMAIN flushed
      <4>1. HeldIn(a, i) \cap TellsOf(n) \subseteq {0}
        BY <3>2 DEF Once
      <4> QED  BY <1>4, <2>2, <3>2, <4>1
    <3>3. CASE <<a, i>> # <<b, j>> /\ n = last
      <4>1. HeldIn(a, i) \cap HeldIn(b, j) \subseteq {0} /\ id \notin HeldIn(a, i)
        BY <1>1, <1>2, <3>3 DEF Once
      <4>2. HeldIn(a, i)' \subseteq HeldIn(a, i) \cup {0} /\ TellsOf(n)' = {r.req, r.ans}
        BY <1>4, <2>2, <3>3
      <4> QED  BY <1>8, <4>1, <4>2
    <3> QED  BY <2>1, <3>1, <3>2, <3>3
  <2>5. ASSUME NEW n1 \in DOMAIN flushed, NEW n2 \in DOMAIN flushed', n1 # n2
        PROVE  TellsOf(n1)' \cap TellsOf(n2)' \subseteq {0}
    <3>1. CASE n2 \in DOMAIN flushed
      BY <2>2, <2>5, <3>1 DEF Once
    <3>2. CASE n2 = last
      <4>1. HeldIn(b, j) \cap TellsOf(n1) \subseteq {0} /\ id \notin TellsOf(n1)
        BY <1>1, <1>2 DEF Once
      <4>2. TellsOf(n1)' = TellsOf(n1) /\ TellsOf(n2)' = {r.req, r.ans}
        BY <2>2, <3>2
      <4> QED  BY <1>8, <4>1, <4>2
    <3> QED  BY <2>1, <3>1, <3>2
  <2>6. ASSUME NEW n1 \in DOMAIN flushed', NEW n2 \in DOMAIN flushed', n1 # n2
        PROVE  TellsOf(n1)' \cap TellsOf(n2)' \subseteq {0}
    BY <2>1, <2>5, <2>6
  <2> QED  BY <1>3, <1>5, <1>6, <2>3, <2>4, <2>6 DEF Once
<1> QED  BY <1>7, <1>8

LEMMA CopiedIds ==
  ASSUME NEW s \in Entry, NEW m \in Message, NEW id, NEW c, c = CopyMessage(s, m, id)
  PROVE  {c.req, c.ans} \subseteq {s.req, s.ans, id}
  BY DEF CopyMessage, Entry

LEMMA ProcessOnce ==
  ASSUME TypeOK, Once, NEW m \in Message, Process(m)
  PROVE  Once'
<1> PICK id : id = Id
  OBVIOUS
<1>0. m.app \in Apps /\ tab \in [Apps -> Table] /\ Receive(m)
  BY DEF TypeOK, Message, Process, Complete, Open, ScanForever, PoolFull
<1>1. Len(seen') = id /\ id \in Nat \ {0} /\ id = Len(seen) + 1 /\ Len(seen) \in Nat
  <2>1. /\ id \in Nat \ {0} /\ id = Len(seen) + 1 /\ Len(seen') = id
        /\ DOMAIN seen = 1 .. Len(seen) /\ DOMAIN seen' = 1 .. id
        /\ seen'[id] = [app |-> m.app, key |-> m.key, kind |-> m.kind]
        /\ \A x \in DOMAIN seen : seen'[x] = seen[x]
    BY <1>0, SeenGrows
  <2>2. Len(seen) \in Nat
    BY DEF TypeOK
  <2> QED  BY <2>1, <2>2
<1>2. CASE Complete(m)
  <2> DEFINE tb == tab[m.app]
             i  == tb.sess[m.key]
             s  == CopyMessage(tb.pool[i], m, id)
             r  == [app |-> s.app, key |-> s.key, req |-> s.req, ans |-> s.ans]
  <2>1. flushed' = Append(flushed, r) /\ tab' = [tab EXCEPT ![m.app] = Without(@, {i}, {s.key})]
    BY <1>2 DEF Complete
  <2>2. i \in Index /\ tb.pool[i] \in Entry /\ tb \in Table
    BY <1>0, <1>2, TableParts DEF Complete
  <2>3. {r.req, r.ans} \subseteq HeldIn(m.app, i) \cup {0, id}
    <3>1. {s.req, s.ans} \subseteq {tb.pool[i].req, tb.pool[i].ans, id}
      <4> DEFINE p == tb.pool[i]
      <4>1. p \in Entry /\ s = CopyMessage(p, m, id)
        BY <2>2
      <4> HIDE DEF p, s, i, tb
      <4>2. {s.req, s.ans} \subseteq {p.req, p.ans, id}
        BY <4>1, CopiedIds
      <4> QED  BY <4>2 DEF p, i, tb
    <3> QED  BY <3>1 DEF HeldIn
  <2> HIDE DEF r
  <2>4. ASSUME NEW a \in Apps, NEW j \in Index
        PROVE  tab'[a].pool[j] = IF a = m.app /\ j = i THEN EmptySession ELSE tab[a].pool[j]
    BY <1>0, <2>1 DEF Without
  <2> HIDE DEF s
  <2> PICK w : w = i
    OBVIOUS
  <2>5. HeldIn(m.app, w)' \subseteq {0}
    <3>1. tab'[m.app].pool[w] = EmptySession
      BY <1>0, <2>2, <2>4
    <3> QED  BY <3>1 DEF HeldIn, EmptySession
  <2>6. ASSUME NEW a \in Apps, NEW j \in Index, <<a, j>> # <<m.app, w>>
        PROVE  HeldIn(a, j)' \subseteq HeldIn(a, j) \cup {0}
    BY <2>4, <2>6 DEF HeldIn
  <2>7. w \in Index /\ {r.req, r.ans} \subseteq HeldIn(m.app, w) \cup {0, id}
    BY <2>2, <2>3
  <2> HIDE DEF i, tb
  <2> QED  BY <1>0, <1>1, <2>1, <2>5, <2>6, <2>7, OneEntryMoves
<1>3. CASE Open(m)
  <2> PICK i \in Index : tab' = [tab EXCEPT ![m.app] = OpenSession(@, i, m, id)]
    BY <1>3 DEF Open
  <2>1. flushed' = flushed
    BY <1>3 DEF Open
  <2> DEFINE e == [EmptySession EXCEPT !.key = m.key]
  <2>2. ASSUME NEW a \in Apps, NEW j \in Index
        PROVE  tab'[a].pool[j] = IF a = m.app /\ j = i THEN CopyMessage(e, m, id) ELSE tab[a].pool[j]
    BY <1>0, TableParts DEF OpenSession, Allocate
  <2>3. e \in Entry /\ e.req = 0 /\ e.ans = 0
    BY DEF Entry, EmptySession, Message
  <2> PICK c : c = CopyMessage(e, m, id)
    OBVIOUS
  <2> HIDE DEF e
  <2>4. {c.req, c.ans} \subseteq {0, id}
    <3>1. {c.req, c.ans} \subseteq {e.req, e.ans, id}
      BY <2>3, CopiedIds
    <3> QED  BY <2>3, <3>1
  <2>5. HeldIn(m.app, i)' \subseteq HeldIn(m.app, i) \cup {0, id}
    BY <1>0, <2>2, <2>4 DEF HeldIn
  <2>6. ASSUME NEW a \in Apps, NEW j \in Index, <<a, j>> # <<m.app, i>>
        PROVE  HeldIn(a, j)' \subseteq HeldIn(a, j) \cup {0}
    BY <2>2, <2>6 DEF HeldIn
  <2> QED  BY <1>0, <1>1, <2>1, <2>5, <2>6, OneEntryMoves
<1>4. CASE PoolFull(m) /\ ~UNCHANGED tab
  <2> PICK a \in Apps, i \in Index : tab' = [tab EXCEPT ![a].pool[i] = CopyMessage(@, m, id)]
    BY <1>4 DEF PoolFull
  <2>1. flushed' = flushed
    BY <1>4 DEF PoolFull
  <2>2. tab[a] \in Table /\ tab[a].pool[i] \in Entry /\ tab[a].pool \in [Index -> Entry]
    BY <1>0, TableParts
  <2> PICK c : c = CopyMessage(tab[a].pool[i], m, id)
    OBVIOUS
  <2>3. {c.req, c.ans} \subseteq HeldIn(a, i) \cup {0, id}
    BY <2>2, CopiedIds DEF HeldIn
  <2>4. ASSUME NEW b \in Apps, NEW j \in Index
        PROVE  tab'[b].pool[j] = IF b = a /\ j = i THEN c ELSE tab[b].pool[j]
    <3>1. tab' = [tab EXCEPT ![a].pool[i] = c]
      OBVIOUS
    <3> QED  BY <1>0, <2>2, <3>1 DEF Table
  <2>5. HeldIn(a, i)' \subseteq HeldIn(a, i) \cup {0, id}
    BY <2>3, <2>4 DEF HeldIn
  <2>6. ASSUME NEW b \in Apps, NEW j \in Index, <<b, j>> # <<a, i>>
        PROVE  HeldIn(b, j)' \subseteq HeldIn(b, j) \cup {0}
    BY <2>4, <2>6 DEF HeldIn
  <2> QED  BY <1>0, <1>1, <2>1, <2>5, <2>6, OneEntryMoves
<1>5. CASE (ScanForever(m) \/ PoolFull(m)) /\ UNCHANGED tab
  <2>1. UNCHANGED <<tab, flushed>>
    BY <1>5 DEF ScanForever, PoolFull
  <2>2. 0 \in Index
    BY TableAssumption DEF Index
  <2>3. \A b \in Apps : \A j \in Index : HeldIn(b, j)' = HeldIn(b, j)
    BY <2>1 DEF HeldIn
  <2> QED  BY <1>0, <1>1, <2>1, <2>2, <2>3, OneEntryMoves
<1> QED  BY <1>2, <1>3, <1>4, <1>5 DEF Process, ScanForever

(* Elsewhere the entries only lose what they hold. *)
LEMMA QuietOnce ==
  ASSUME TypeOK, Once, Cleanup \/ Tick \/ UNCHANGED vars
  PROVE  Once'
<1>1. UNCHANGED <<seen, flushed>>
  BY DEF Cleanup, Tick, vars
<1>2. \A a \in Apps : \A i \in Index : HeldIn(a, i)' \subseteq HeldIn(a, i) \cup {0}
  <2>1. CASE Cleanup
    <3> SUFFICES ASSUME NEW a \in Apps, NEW i \in Index
                 PROVE  tab'[a].pool[i] \in {tab[a].pool[i], EmptySession}
      <4>1. EmptySession.req = 0 /\ EmptySession.ans = 0
        BY DEF EmptySession
      <4> QED  BY <4>1 DEF HeldIn
    <3>1. ASSUME NEW t \in [Apps -> Table], NEW b \in Apps
          PROVE  CleanPass(t, b)[a].pool[i] \in {t[a].pool[i], EmptySession}
      BY DEF CleanPass, Without
    <3>2. tab \in [Apps -> Table] /\ GX \in Apps /\ GY \in Apps
      BY GxAssumption DEF TypeOK
    <3>3. PICK afterGx : afterGx = CleanPass(tab, GX) /\ tab' = CleanPass(afterGx, GY)
      BY <2>1 DEF Cleanup
    <3>4. afterGx \in [Apps -> Table]
      BY <3>2, <3>3, CleanPassType
    <3> QED  BY <3>1, <3>2, <3>3, <3>4
  <2>2. CASE Tick \/ UNCHANGED vars
    BY <2>2 DEF Tick, vars, HeldIn
  <2> QED  BY <2>1, <2>2
<1>3. ASSUME NEW a \in Apps, NEW i \in Index PROVE HeldIn(a, i) \subseteq 0 .. Len(seen) /\ 0 \in 0 .. Len(seen)
  <2>1. Len(seen) \in Nat
    BY DEF TypeOK
  <2> QED  BY <2>1 DEF Once
<1>4. \A n \in DOMAIN flushed : TellsOf(n)' = TellsOf(n)
  BY <1>1 DEF TellsOf
<1> QED  BY <1>1, <1>2, <1>3, <1>4 DEF Once

LEMMA OnceStep ==
  ASSUME TypeOK, Once, [Next]_vars
  PROVE  Once'
<1>1. ASSUME NEW a \in Apps, NEW k \in Keys, NEW d \in {Request, Answer}, NEW t \in Stamps,
             Process([app |-> a, key |-> k, kind |-> d, ts |-> t])
      PROVE  Once'
  <2> DEFINE m == [app |-> a, key |-> k, kind |-> d, ts |-> t]
  <2>1. m \in Message
    BY MessageTypes
  <2> HIDE DEF m
  <2>2. Process(m)
    BY <1>1 DEF m
  <2> QED  BY <2>1, <2>2, ProcessOnce
<1> QED  BY <1>1, QuietOnce DEF Next

(* Everything a record says is so: it is of one conversation, pairs        *)
(* neighbours, and shares no message with another.                         *)
THEOREM RecordsAreSound == Spec => []RecordsSound
<1> DEFINE I == Consistency /\ Waiting /\ RecordsRight /\ Once
<1>1. ASSUME Init PROVE I
  <2>1. Consistency
    BY <1>1, InitType, InitConsistent DEF Consistency
  <2>2. flushed = <<>> /\ seen = <<>> /\ \A a \in Apps : tab[a] = EmptyTable
    BY <1>1 DEF Init
  <2>3. \A a \in Apps : Live(tab[a]) = {} /\ \A i \in Index : HeldIn(a, i) = {0}
    BY <2>2 DEF EmptyTable, Live, HeldIn, EmptySession
  <2>4. Len(seen) = 0 /\ DOMAIN flushed = {}
    BY <2>2
  <2> QED  BY <2>1, <2>3, <2>4 DEF Waiting, RecordsRight, Once
<1>2. I /\ [Next]_vars => I'
  BY NextType, NextConsistent, RightStep, OnceStep DEF Consistency
<1>3. I => RecordsSound
  BY RightMeans, OnceMeans DEF RecordsSound, Consistency
<1> QED  BY <1>1, <1>2, <1>3, PTL DEF Spec

-----------------------------------------------------------------------------
(* What is lost.                                                           *)

LEMMA WaitingIds ==
  ASSUME NEW t, NEW x
  PROVE  x \in UNION {UNION {{s.req, s.ans} : s \in {SessionOf(t[a], k) : k \in Live(t[a])}} : a \in Apps}
         <=> \E a \in Apps : \E k \in Live(t[a]) : x \in {SessionOf(t[a], k).req, SessionOf(t[a], k).ans}
  OBVIOUS

LEMMA LiveMeans ==
  ASSUME NEW x
  PROVE  /\ x \in LiveIds <=> \E a \in Apps : \E k \in Live(tab[a]) :
                                x \in {SessionOf(tab[a], k).req, SessionOf(tab[a], k).ans}
         /\ x \in LiveIds' <=> \E a \in Apps : \E k \in Live(tab'[a]) :
                                 x \in {SessionOf(tab'[a], k).req, SessionOf(tab'[a], k).ans}
  BY WaitingIds DEF LiveIds

(* Message x is accounted for. *)
Kept(x) ==
  \/ x \in LiveIds \cup FlushedIds \cup dropped
  \/ \E later \in x + 1 .. Len(seen) : seen[later] = seen[x]

LEMMA AppendedIds ==
  ASSUME TypeOK, NEW r, flushed' = Append(flushed, r)
  PROVE  FlushedIds' = FlushedIds \cup {r.req, r.ans}
<1>1. flushed \in Seq([app : Apps, key : Keys \cup {NoKey}, req : Nat, ans : Nat])
  BY DEF TypeOK
<1> PICK last : last = Len(flushed) + 1
  OBVIOUS
<1>2. /\ DOMAIN flushed' = DOMAIN flushed \cup {last}
      /\ flushed'[last] = r /\ \A n \in DOMAIN flushed : flushed'[n] = flushed[n]
  BY <1>1
<1>3. last \notin DOMAIN flushed
  BY <1>1
<1>4. \A x : x \in FlushedIds' <=> \E n \in DOMAIN flushed' : x \in {flushed'[n].req, flushed'[n].ans}
  BY DEF FlushedIds
<1>5. \A x : x \in FlushedIds <=> \E n \in DOMAIN flushed : x \in {flushed[n].req, flushed[n].ans}
  BY DEF FlushedIds
<1>6. \A x : x \in FlushedIds' <=> x \in FlushedIds \cup {r.req, r.ans}
  BY <1>2, <1>3, <1>4, <1>5
<1> QED  BY <1>6

(* An earlier message overwritten by a later one stays so. *)
LEMMA OverwrittenStays ==
  ASSUME TypeOK, NEW m \in Message, Receive(m), NEW x \in DOMAIN seen,
         \E later \in x + 1 .. Len(seen) : seen[later] = seen[x]
  PROVE  Kept(x)'
<1> PICK id : id = Id
  OBVIOUS
<1>1. /\ id \in Nat \ {0} /\ id = Len(seen) + 1 /\ Len(seen') = id
      /\ DOMAIN seen = 1 .. Len(seen) /\ DOMAIN seen' = 1 .. id
      /\ seen'[id] = [app |-> m.app, key |-> m.key, kind |-> m.kind]
      /\ \A y \in DOMAIN seen : seen'[y] = seen[y]
  BY SeenGrows
<1>2. Len(seen) \in Nat
  BY DEF TypeOK
<1>3. PICK later \in x + 1 .. Len(seen) : seen[later] = seen[x]
  OBVIOUS
<1>4. later \in DOMAIN seen /\ later \in x + 1 .. id
  BY <1>1, <1>2, <1>3
<1>5. seen'[later] = seen'[x] /\ later \in x + 1 .. Len(seen')
  BY <1>1, <1>3, <1>4
<1> QED  BY <1>5 DEF Kept

LEMMA CompleteKeeps ==
  ASSUME Consistency, Waiting, NothingVanishes, ~wild, ~stopped, NEW m \in Message, Complete(m)
  PROVE  \A x \in DOMAIN seen' : Kept(x)'
<1> PICK id : id = Id
  OBVIOUS
<1> PICK old : old = SessionOf(tab[m.app], m.key)
  OBVIOUS
<1> PICK s : s = CopyMessage(old, m, id)
  OBVIOUS
<1> PICK r : r = [app |-> m.app, key |-> m.key, req |-> s.req, ans |-> s.ans]
  OBVIOUS
<1>t. TypeOK /\ Receive(m) /\ dropped' = dropped
  BY DEF Consistency, Complete
<1>1. /\ m.key \in Live(tab[m.app]) /\ m.app \in Apps
      /\ flushed' = Append(flushed, r)
      /\ \A a \in Apps : Live(tab'[a]) = Live(tab[a]) \ (IF a = m.app THEN {m.key} ELSE {})
      /\ \A a \in Apps : \A k \in Live(tab'[a]) : SessionOf(tab'[a], k) = SessionOf(tab[a], k)
  BY CompleteView DEF Message
<1>2. /\ id \in Nat \ {0} /\ id = Len(seen) + 1 /\ Len(seen') = id
      /\ DOMAIN seen = 1 .. Len(seen) /\ DOMAIN seen' = 1 .. id
      /\ seen'[id] = [app |-> m.app, key |-> m.key, kind |-> m.kind]
      /\ \A y \in DOMAIN seen : seen'[y] = seen[y]
  BY <1>t, SeenGrows
<1>3. Len(seen) \in Nat
  BY <1>t DEF TypeOK
<1>4. FlushedIds' = FlushedIds \cup {r.req, r.ans}
  BY <1>t, <1>1, AppendedIds
<1>5. HoldsLatest(old, m.app, m.key)
  BY <1>1 DEF Waiting
<1>6. /\ old \in Entry /\ m.kind \in {Request, Answer} /\ Request # Answer
  BY <1>1, <1>t, TableParts DEF SessionOf, TypeOK, Message, Request, Answer
<1>7. \/ m.kind = Request /\ r.req = id /\ r.ans = old.ans
      \/ m.kind = Answer /\ r.ans = id /\ r.req = old.req
  BY <1>6 DEF CopyMessage, Entry
<1>8. Kept(id)'
  BY <1>4, <1>7 DEF Kept
<1>9. ASSUME NEW x \in DOMAIN seen PROVE Kept(x)'
  <2>0. Kept(x)
    BY DEF NothingVanishes, Kept
  <2>1. CASE x \in FlushedIds \cup dropped
    BY <1>4, <1>t, <2>1 DEF Kept
  <2>2. CASE \E later \in x + 1 .. Len(seen) : seen[later] = seen[x]
    BY <1>t, <2>2, OverwrittenStays
  <2>3. CASE x \in {old.req, old.ans}
    <3>1. x # 0 /\ x + 1 \in Nat /\ x < id
      BY <1>2, <1>3
    <3>2. CASE x \in {r.req, r.ans}
      BY <1>4, <3>2 DEF Kept
    <3>3. CASE x \notin {r.req, r.ans}
      <4>1. IsMessage(x, m.app, m.key, m.kind)
        BY <1>5, <1>6, <1>7, <2>3, <3>1, <3>3 DEF HoldsLatest, LatestOf
      <4>2. seen'[id] = seen'[x] /\ id \in x + 1 .. Len(seen')
        BY <1>2, <3>1, <4>1 DEF IsMessage
      <4> QED  BY <4>2 DEF Kept
    <3> QED  BY <3>2, <3>3
  <2>4. CASE x \in LiveIds /\ x \notin {old.req, old.ans}
    <3>1. PICK a \in Apps : \E k \in Live(tab[a]) : x \in {SessionOf(tab[a], k).req, SessionOf(tab[a], k).ans}
      BY <2>4, LiveMeans
    <3>2. PICK k \in Live(tab[a]) : x \in {SessionOf(tab[a], k).req, SessionOf(tab[a], k).ans}
      BY <3>1
    <3>3. a # m.app \/ k # m.key
      BY <2>4, <3>2
    <3>4. k \in Live(tab'[a]) /\ SessionOf(tab'[a], k) = SessionOf(tab[a], k)
      BY <1>1, <3>2, <3>3
    <3>5. x \in LiveIds'
      BY <3>2, <3>4, LiveMeans
    <3> QED  BY <3>5 DEF Kept
  <2> QED  BY <2>0, <2>1, <2>2, <2>3, <2>4 DEF Kept
<1>10. \A x \in DOMAIN seen' : x \in DOMAIN seen \/ x = id
  BY <1>2, <1>3
<1> QED  BY <1>8, <1>9, <1>10

LEMMA OpenKeeps ==
  ASSUME Consistency, NothingVanishes, ~wild, ~stopped, NEW m \in Message, Open(m)
  PROVE  \A x \in DOMAIN seen' : Kept(x)'
<1> PICK id : id = Id
  OBVIOUS
<1>t. TypeOK /\ Receive(m) /\ UNCHANGED <<flushed, dropped>>
  BY DEF Consistency, Open
<1>2. /\ id \in Nat \ {0} /\ id = Len(seen) + 1 /\ Len(seen') = id
      /\ DOMAIN seen = 1 .. Len(seen) /\ DOMAIN seen' = 1 .. id
      /\ seen'[id] = [app |-> m.app, key |-> m.key, kind |-> m.kind]
      /\ \A y \in DOMAIN seen : seen'[y] = seen[y]
  BY <1>t, SeenGrows
<1>3. Len(seen) \in Nat
  BY <1>t DEF TypeOK
<1>1. /\ m.key \notin Live(tab[m.app]) /\ m.app \in Apps
      /\ \A a \in Apps : Live(tab'[a]) = Live(tab[a]) \cup (IF a = m.app THEN {m.key} ELSE {})
      /\ \A a \in Apps : \A k \in Live(tab[a]) : SessionOf(tab'[a], k) = SessionOf(tab[a], k)
      /\ SessionOf(tab'[m.app], m.key) = CopyMessage([EmptySession EXCEPT !.key = m.key], m, id)
  BY <1>2, OpenView DEF Message
<1>4. Kept(id)'
  <2> PICK e : e = SessionOf(tab'[m.app], m.key)
    OBVIOUS
  <2>1. id \in {e.req, e.ans}
    BY <1>1 DEF CopyMessage, EmptySession, Message
  <2>2. m.key \in Live(tab'[m.app])
    BY <1>1
  <2>3. id \in LiveIds'
    BY <1>1, <2>1, <2>2, LiveMeans
  <2> QED  BY <2>3 DEF Kept
<1>5. FlushedIds' = FlushedIds
  BY <1>t DEF FlushedIds
<1>6. ASSUME NEW x \in DOMAIN seen PROVE Kept(x)'
  <2>0. Kept(x)
    BY DEF NothingVanishes, Kept
  <2>1. CASE x \in FlushedIds \cup dropped
    BY <1>5, <1>t, <2>1 DEF Kept
  <2>2. CASE \E later \in x + 1 .. Len(seen) : seen[later] = seen[x]
    BY <1>t, <2>2, OverwrittenStays
  <2>3. CASE x \in LiveIds
    <3>1. PICK a \in Apps : \E k \in Live(tab[a]) : x \in {SessionOf(tab[a], k).req, SessionOf(tab[a], k).ans}
      BY <2>3, LiveMeans
    <3>2. PICK k \in Live(tab[a]) : x \in {SessionOf(tab[a], k).req, SessionOf(tab[a], k).ans}
      BY <3>1
    <3>3. k \in Live(tab'[a]) /\ SessionOf(tab'[a], k) = SessionOf(tab[a], k)
      BY <1>1, <3>2
    <3>4. x \in LiveIds'
      BY <3>2, <3>3, LiveMeans
    <3> QED  BY <3>4 DEF Kept
  <2> QED  BY <2>0, <2>1, <2>2, <2>3 DEF Kept
<1>7. \A x \in DOMAIN seen' : x \in DOMAIN seen \/ x = id
  BY <1>2, <1>3
<1> QED  BY <1>4, <1>6, <1>7

LEMMA QuietKeeps ==
  ASSUME Consistency, NothingVanishes, ~wild, ~stopped, Cleanup \/ Tick \/ UNCHANGED vars
  PROVE  \A x \in DOMAIN seen' : Kept(x)'
<1>1. UNCHANGED <<seen, flushed>> /\ FlushedIds' = FlushedIds /\ dropped \subseteq dropped'
  BY DEF Cleanup, Tick, vars, FlushedIds
<1>2. \A a \in Apps : \A k \in Live(tab[a]) :
        \/ k \in Live(tab'[a]) /\ SessionOf(tab'[a], k) = SessionOf(tab[a], k)
        \/ {SessionOf(tab[a], k).req, SessionOf(tab[a], k).ans} \ {0} \subseteq dropped'
  <2>1. CASE Cleanup
    BY <2>1, CleanupView
  <2>2. CASE Tick \/ UNCHANGED vars
    BY <2>2 DEF Tick, vars
  <2> QED  BY <2>1, <2>2
<1>3. ASSUME NEW x \in DOMAIN seen PROVE Kept(x)'
  <2>0. Kept(x) /\ x # 0
    <3>1. DOMAIN seen = 1 .. Len(seen) /\ Len(seen) \in Nat
      BY DEF Consistency, TypeOK
    <3> QED  BY <3>1 DEF NothingVanishes, Kept
  <2>1. CASE x \in FlushedIds \cup dropped
    BY <1>1, <2>1 DEF Kept
  <2>2. CASE \E later \in x + 1 .. Len(seen) : seen[later] = seen[x]
    BY <1>1, <2>2 DEF Kept
  <2>3. CASE x \in LiveIds
    <3>1. PICK a \in Apps : \E k \in Live(tab[a]) : x \in {SessionOf(tab[a], k).req, SessionOf(tab[a], k).ans}
      BY <2>3, LiveMeans
    <3>2. PICK k \in Live(tab[a]) : x \in {SessionOf(tab[a], k).req, SessionOf(tab[a], k).ans}
      BY <3>1
    <3>3. x \in LiveIds' \/ x \in dropped'
      BY <1>2, <2>0, <3>2, LiveMeans
    <3> QED  BY <3>3 DEF Kept
  <2> QED  BY <2>0, <2>1, <2>2, <2>3 DEF Kept
<1> QED  BY <1>1, <1>3

(* Every message processed is waiting, reported, dropped by the cleanup or *)
(* overwritten by a retransmission, as long as the pool's limit has not    *)
(* stopped the program or spoilt its tables.                               *)
THEOREM NothingIsLost == Spec => []NothingVanishes
<1> DEFINE I == Consistency /\ Waiting /\ RecordsRight /\ NothingVanishes
<1>1. ASSUME Init PROVE I
  <2>1. Consistency
    BY <1>1, InitType, InitConsistent DEF Consistency
  <2>2. flushed = <<>> /\ seen = <<>> /\ \A a \in Apps : tab[a] = EmptyTable
    BY <1>1 DEF Init
  <2>3. \A a \in Apps : Live(tab[a]) = {}
    BY <2>2 DEF EmptyTable, Live
  <2>4. DOMAIN seen = {} /\ DOMAIN flushed = {}
    BY <2>2
  <2> QED  BY <2>1, <2>3, <2>4 DEF Waiting, RecordsRight, NothingVanishes
<1>2. ASSUME I, [Next]_vars PROVE NothingVanishes'
  <2> SUFFICES ASSUME ~wild', ~stopped' PROVE \A x \in DOMAIN seen' : Kept(x)'
    BY DEF NothingVanishes, Kept
  <2>1. ASSUME NEW a \in Apps, NEW k \in Keys, NEW d \in {Request, Answer}, NEW t \in Stamps,
               Process([app |-> a, key |-> k, kind |-> d, ts |-> t])
        PROVE  \A x \in DOMAIN seen' : Kept(x)'
    <3> DEFINE m == [app |-> a, key |-> k, kind |-> d, ts |-> t]
    <3>1. m \in Message
      BY <1>2, MessageTypes DEF Consistency
    <3> HIDE DEF m
    <3>2. Complete(m) \/ Open(m)
      BY <2>1 DEF Process, ScanForever, PoolFull, m
    <3>3. wild' = wild /\ stopped' = stopped
      BY <3>2 DEF Complete, Open
    <3>4. ~wild /\ ~stopped
      BY <3>3
    <3> QED  BY <1>2, <3>1, <3>2, <3>4, CompleteKeeps, OpenKeeps
  <2>2. CASE Cleanup \/ Tick \/ UNCHANGED vars
    <3>1. ~wild /\ ~stopped
      BY <2>2 DEF Cleanup, Tick, vars
    <3> QED  BY <1>2, <2>2, <3>1, QuietKeeps
  <2> QED  BY <1>2, <2>1, <2>2 DEF Next
<1>3. I /\ [Next]_vars => I'
  BY <1>2, NextType, NextConsistent, RightStep DEF Consistency
<1>4. I => NothingVanishes
  OBVIOUS
<1> QED  BY <1>1, <1>3, <1>4, PTL DEF Spec

(* The cleanup takes a waiting session only when it is overdue or stamped  *)
(* ahead of the clock, however its stamps and the clock may differ.        *)
THEOREM DroppedOnlyWhenOverdue == Spec => NotDroppedEarly
<1> DEFINE Early == \A a \in Apps : \A k \in Live(tab[a]) :
                      ~wild /\ seen' = seen /\ k \notin Live(tab'[a]) =>
                        LET t == StampOf(SessionOf(tab[a], k))
                        IN  t > now \/ now - t > IdleTimeSec
<1>1. Init => Consistency
  BY InitType, InitConsistent DEF Consistency
<1>2. Consistency /\ [Next]_vars => Consistency'
  BY NextType, NextConsistent DEF Consistency
<1>3. ASSUME Consistency, [Next]_vars PROVE Early \/ UNCHANGED vars
  <2> SUFFICES ASSUME NEW a \in Apps, NEW k \in Live(tab[a]), ~wild, seen' = seen, k \notin Live(tab'[a])
               PROVE  LET t == StampOf(SessionOf(tab[a], k)) IN t > now \/ now - t > IdleTimeSec
    OBVIOUS
  <2>1. Cleanup
    <3>1. ASSUME NEW b \in Apps, NEW x \in Keys, NEW d \in {Request, Answer}, NEW t \in Stamps,
                 Process([app |-> b, key |-> x, kind |-> d, ts |-> t])
          PROVE  FALSE
      <4> DEFINE m == [app |-> b, key |-> x, kind |-> d, ts |-> t]
      <4>1. m \in Message /\ TypeOK
        BY <1>3, MessageTypes DEF Consistency
      <4> HIDE DEF m
      <4>2. Receive(m)
        BY <3>1 DEF Process, Complete, Open, ScanForever, PoolFull, m
      <4> PICK id : id = Id
        OBVIOUS
      <4>3. /\ id \in Nat \ {0} /\ id = Len(seen) + 1 /\ Len(seen') = id
            /\ DOMAIN seen = 1 .. Len(seen) /\ DOMAIN seen' = 1 .. id
            /\ seen'[id] = [app |-> m.app, key |-> m.key, kind |-> m.kind]
            /\ \A y \in DOMAIN seen : seen'[y] = seen[y]
        BY <4>1, <4>2, SeenGrows
      <4>4. Len(seen) \in Nat
        BY <4>1 DEF TypeOK
      <4> QED  BY <4>3, <4>4
    <3>2. tab' # tab
      OBVIOUS
    <3>3. ~Tick /\ ~UNCHANGED vars
      BY <3>2 DEF Tick, vars
    <3> QED  BY <1>3, <3>1, <3>3 DEF Next
  <2>2. Overdue(SessionOf(tab[a], k), now)
    BY <1>3, <2>1, CleanupView
  <2> PICK s : s = SessionOf(tab[a], k)
    OBVIOUS
  <2>3. s.start \in Nat /\ s.end \in Nat /\ (s.start = 0 \/ s.end = 0)
    <3>1. s \in Entry
      BY <1>3, TableParts DEF SessionOf, Consistency, TypeOK
    <3>2. HalfOpenSession(s)
      BY <1>3 DEF Consistency, TablesConsistent, HalfOpen
    <3> QED  BY <3>1, <3>2 DEF Entry, HalfOpenSession
  <2> QED  BY <2>2, <2>3 DEF Overdue, IdleFor, StampOf
<1>4. Consistency /\ [Next]_vars => [Early]_vars
  BY <1>3
<1> QED  BY <1>1, <1>2, <1>4, PTL DEF Spec, NotDroppedEarly
=============================================================================
