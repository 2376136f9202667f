------------------------- MODULE S6aSessions_proofs -------------------------
(***************************************************************************)
(* Proofs about S6aSessions: the table is sound in every reachable state,  *)
(* and the interface implements DiameterMatching.                          *)
(***************************************************************************)
EXTENDS S6aSessions, SessionTable_proofs

-----------------------------------------------------------------------------
(* The invariant.                                                          *)

Invariant == TypeOK /\ TableStaysSound

LEMMA InitInvariant == Init => Invariant
<1> SUFFICES ASSUME Init PROVE Invariant
  OBVIOUS
<1>1. now \in 1 .. MaxTime /\ 0 \in PoolPositions /\ 0 \in 0 .. MaxMsgs
  BY TableAssumption, S6aAssumption DEF Init, PoolPositions
<1>2. TableStaysSound
  BY EmptyTableSound, S6aAssumption DEF Init, TableStaysSound
<1>3. flushed \in Seq([key : Keys \cup {NoKey}, req : Nat, ans : Nat])
  BY DEF Init
<1>4. QED
  BY <1>1, <1>2, <1>3, EmptyTableType DEF Init, TypeOK, Invariant

LEMMA MessageTypes ==
  ASSUME TypeOK, NEW k \in Keys, NEW d \in {Request, Answer}, NEW t \in Stamps
  PROVE  [app |-> S6A, key |-> k, kind |-> d, ts |-> t] \in Message
<1>1. t \in Nat \ {0}
  BY S6aAssumption DEF Stamps, TypeOK
<1>2. QED
  BY <1>1, S6aAssumption DEF Message

LEMMA ReceiveType ==
  ASSUME TypeOK, Receive
  PROVE  Id \in 1 .. MaxMsgs /\ count' \in 0 .. MaxMsgs
BY S6aAssumption DEF TypeOK, Receive, Id

(* What the steps do to the table, in terms of sessions.                   *)
LEMMA CompleteTable ==
  ASSUME Invariant, NEW m \in Message, Complete(m)
  PROVE  /\ m.key \in Live(tab)
         /\ SessionOf(tab, m.key) \in Entry
         /\ SessionOf(tab, m.key).key = m.key
         /\ tab' = Release(tab, {m.key})
         /\ flushed' = Append(flushed,
                         [key |-> m.key,
                          req |-> CopyMessage(SessionOf(tab, m.key), m, Id).req,
                          ans |-> CopyMessage(SessionOf(tab, m.key), m, Id).ans])
<1>1. m.key \in Live(tab) /\ tab \in Table
  BY DEF Complete, Invariant, TypeOK
<1>2. SessionOf(tab, m.key) \in Entry /\ SessionOf(tab, m.key).key = m.key
  BY <1>1, TableParts DEF SessionOf, Invariant, TableStaysSound, TableSound, EntryIsKeysSession
<1>3. CopyMessage(SessionOf(tab, m.key), m, Id).key = m.key
  BY <1>2 DEF CopyMessage, Entry
<1>4. {tab.sess[m.key]} = {tab.sess[k] : k \in {m.key}}
  OBVIOUS
<1>5. QED
  BY <1>1, <1>2, <1>3, <1>4 DEF Complete, Release, SessionOf, Record

LEMMA CleanupTable ==
  ASSUME Invariant, Cleanup
  PROVE  /\ OverdueKeys(tab, now) \in SUBSET Live(tab)
         /\ tab' = Release(tab, OverdueKeys(tab, now))
<1> DEFINE keys == OverdueKeys(tab, now)
<1>1. keys \in SUBSET Live(tab)
  BY DEF OverdueKeys
<1>2. {SessionOf(tab, k).key : k \in keys} = keys
  BY <1>1 DEF Invariant, TableStaysSound, TableSound, EntryIsKeysSession
<1>3. tab' = Without(tab, {tab.sess[k] : k \in keys}, {SessionOf(tab, k).key : k \in keys})
  BY DEF Cleanup
<1>4. QED
  BY <1>1, <1>2, <1>3 DEF Release

(* A full pool has no free entry: the one the uninitialised pointer points *)
(* to is the session of some key.                                          *)
LEMMA FullPool ==
  ASSUME Invariant, ~Room, NEW i \in Index
  PROVE  \E k \in Live(tab) : tab.sess[k] = i
<1>1. tab \in Table /\ BitsAreMapped(tab) /\ NoSharedEntry(tab)
  BY DEF Invariant, TypeOK, TableStaysSound, TableSound
<1>2. Cardinality(Live(tab)) \in Nat /\ Cardinality(Live(tab)) >= PoolSize
  BY <1>1, TableCardinality, TableAssumption DEF Room
<1>3. Cardinality(tab.bits) = Cardinality(Live(tab))
  BY <1>1, AsManyBitsAsKeys
<1>4. /\ IsFiniteSet(Index) /\ Cardinality(Index) = PoolSize
      /\ tab.bits \in SUBSET Index /\ Cardinality(tab.bits) <= Cardinality(Index)
  BY <1>1, IndexCardinality, TableParts, FS_Subset
<1>5. tab.bits = Index
  BY <1>2, <1>3, <1>4, FS_Subset, TableAssumption
<1>6. QED
  BY <1>1, <1>5 DEF BitsAreMapped

LEMMA MixUpTable ==
  ASSUME Invariant, NEW m \in Message, Id \in Nat, PoolFull(m), tab' # tab
  PROVE  \E k \in Live(tab) :
           /\ tab' \in Table
           /\ tab'.bits = tab.bits /\ tab'.sess = tab.sess
           /\ SessionOf(tab', k) = CopyMessage(SessionOf(tab, k), m, Id)
           /\ \A x \in Live(tab) \ {k} : SessionOf(tab', x) = SessionOf(tab, x)
<1>1. PICK i \in Index : tab' = [tab EXCEPT !.pool[i] = CopyMessage(@, m, Id)]
  BY DEF PoolFull
<1>2. PICK k \in Live(tab) : tab.sess[k] = i
  BY FullPool DEF PoolFull
<1>3. tab \in Table /\ NoSharedEntry(tab)
  BY DEF Invariant, TypeOK, TableStaysSound, TableSound
<1>4. CopyMessage(tab.pool[i], m, Id) \in Entry
  BY <1>3, TableParts, CopyMessageType
<1> DEFINE e == CopyMessage(tab.pool[i], m, Id)
<1>5. tab' = [tab EXCEPT !.pool[i] = e]
  BY <1>1
<1>6. tab' \in Table
  BY <1>3, <1>4, <1>5, WriteType
<1>7. tab'.bits = tab.bits /\ tab'.sess = tab.sess /\ tab'.pool = [tab.pool EXCEPT ![i] = e]
  BY <1>3, <1>5, TableParts
<1>8. tab'.pool[i] = e /\ \A x \in Live(tab) \ {k} : tab'.pool[tab.sess[x]] = tab.pool[tab.sess[x]]
  BY <1>2, <1>3, <1>7, TableParts DEF NoSharedEntry
<1>9. QED
  BY <1>2, <1>6, <1>7, <1>8 DEF SessionOf

-----------------------------------------------------------------------------
(* Each step keeps the invariant.                                          *)

LEMMA CompleteInvariant ==
  ASSUME Invariant, NEW m \in Message, Complete(m)
  PROVE  Invariant'
<1>1. tab \in Table /\ TableSound(tab, S6A) /\ S6A \in Apps
  BY S6aAssumption DEF Invariant, TypeOK, TableStaysSound
<1>2. tab' = Release(tab, {m.key}) /\ {m.key} \in SUBSET Live(tab)
  BY CompleteTable
<1>3. TableSound(tab', S6A)
  BY <1>1, <1>2, ReleaseTable
<1>4. tab' \in Table
  BY <1>1, <1>2, WithoutType DEF Release
<1>5. flushed' \in Seq([key : Keys \cup {NoKey}, req : Nat, ans : Nat])
  <2> DEFINE c == CopyMessage(SessionOf(tab, m.key), m, Id)
             r == [key |-> m.key, req |-> c.req, ans |-> c.ans]
  <2>1. Id \in Nat
    BY ReceiveType DEF Invariant, Complete
  <2>2. c \in Entry
    BY <2>1, CompleteTable, CopyMessageType
  <2>3. r \in [key : Keys \cup {NoKey}, req : Nat, ans : Nat]
    BY <2>2 DEF Entry, Message
  <2>4. flushed' = Append(flushed, r)
    BY CompleteTable
  <2> HIDE DEF r
  <2>5. QED
    BY <2>3, <2>4 DEF Invariant, TypeOK
<1>6. active' \in Nat
  BY <1>1, TableCardinality DEF Complete
<1>7. QED
  BY <1>3, <1>4, <1>5, <1>6, ReceiveType DEF Complete, Invariant, TypeOK, TableStaysSound

LEMMA OpenInvariant ==
  ASSUME Invariant, NEW m \in Message, Open(m)
  PROVE  Invariant'
<1>1. /\ tab \in Table /\ TableSound(tab, S6A) /\ S6A \in Apps /\ m.app = S6A
      /\ m.key \notin Live(tab) /\ m.key \in Keys /\ Id \in Nat \ {0}
  BY S6aAssumption, ReceiveType DEF Invariant, TypeOK, TableStaysSound, Open, Message
<1>2. PICK i \in Index :
        FreeIndex(i) /\ freePos' = i /\ tab' = OpenSession(tab, i, m, Id)
  BY DEF Open
<1>3. i \in Index \ tab.bits
  BY <1>2 DEF FreeIndex, ScanStopsAt
<1>4. tab' \in Table /\ TableSound(tab', S6A)
  BY <1>1, <1>2, <1>3, OpenTable
<1>5. active' \in Nat
  BY <1>1, TableCardinality, FS_AddElement, FS_CardinalityType DEF Open
<1>6. freePos' \in PoolPositions
  BY <1>2 DEF PoolPositions, Index
<1>7. QED
  BY <1>4, <1>5, <1>6, ReceiveType DEF Open, Invariant, TypeOK, TableStaysSound

LEMMA PoolFullInvariant ==
  ASSUME Invariant, NEW m \in Message, PoolFull(m)
  PROVE  Invariant'
<1>1. tab \in Table /\ TableSound(tab, S6A) /\ m.app = S6A /\ Id \in Nat
  BY S6aAssumption, ReceiveType DEF Invariant, TypeOK, TableStaysSound, PoolFull, Message
<1>2. tab' \in Table /\ TableSound(tab', S6A)
  <2>1. CASE tab' = tab
    BY <1>1, <2>1
  <2>2. CASE tab' # tab
    <3>1. PICK k \in Live(tab) :
            /\ tab' \in Table
            /\ tab'.bits = tab.bits /\ tab'.sess = tab.sess
            /\ SessionOf(tab', k) = CopyMessage(SessionOf(tab, k), m, Id)
            /\ \A x \in Live(tab) \ {k} : SessionOf(tab', x) = SessionOf(tab, x)
      BY <1>1, <2>2, MixUpTable
    <3>2. SessionOf(tab, k) \in Entry
      BY <1>1, TableParts DEF SessionOf
    <3>3. SessionOf(tab', k).key = SessionOf(tab, k).key /\ SessionOf(tab', k).app = S6A
      BY <1>1, <3>1, <3>2 DEF CopyMessage, Entry
    <3>4. Live(tab') = Live(tab)
      BY <3>1 DEF Live
    <3>5. BitsAreMapped(tab') /\ NoSharedEntry(tab')
      BY <1>1, <3>1, <3>4 DEF TableSound, BitsAreMapped, NoSharedEntry
    <3>6. EntryIsKeysSession(tab', S6A)
      BY <1>1, <3>1, <3>3, <3>4 DEF TableSound, EntryIsKeysSession
    <3>7. QED
      BY <3>1, <3>5, <3>6 DEF TableSound
  <2>3. QED
    BY <2>1, <2>2
<1>3. active' \in Nat
  BY <1>1, TableCardinality DEF PoolFull
<1>4. crashed' \in BOOLEAN
  BY DEF PoolFull, Invariant, TypeOK
<1>5. QED
  BY <1>2, <1>3, <1>4, ReceiveType DEF PoolFull, Invariant, TypeOK, TableStaysSound

LEMMA CleanupInvariant ==
  ASSUME Invariant, Cleanup
  PROVE  Invariant'
<1>1. tab \in Table /\ TableSound(tab, S6A) /\ S6A \in Apps
  BY S6aAssumption DEF Invariant, TypeOK, TableStaysSound
<1>2. TableSound(tab', S6A)
  BY <1>1, CleanupTable, ReleaseTable
<1>3. tab' \in Table
  BY <1>1, CleanupTable, WithoutType DEF Release
<1>4. active' \in Nat
  BY <1>3, TableCardinality DEF Cleanup
<1>5. QED
  BY <1>2, <1>3, <1>4 DEF Cleanup, Invariant, TypeOK, TableStaysSound

LEMMA NextInvariant ==
  ASSUME Invariant, [Next]_vars
  PROVE  Invariant'
<1>1. ASSUME NEW k \in Keys, NEW d \in {Request, Answer}, NEW t \in Stamps,
             Process([app |-> S6A, key |-> k, kind |-> d, ts |-> t])
      PROVE  Invariant'
  <2> DEFINE m == [app |-> S6A, key |-> k, kind |-> d, ts |-> t]
  <2>1. m \in Message
    BY MessageTypes DEF Invariant
  <2> HIDE DEF m
  <2>2. Process(m)
    BY <1>1 DEF m
  <2>3. QED
    BY <2>1, <2>2, CompleteInvariant, OpenInvariant, PoolFullInvariant DEF Process
<1>2. CASE Cleanup
  BY <1>2, CleanupInvariant
<1>3. CASE Tick
  BY <1>3, S6aAssumption DEF Tick, Invariant, TypeOK, TableStaysSound
<1>4. CASE UNCHANGED vars
  BY <1>4 DEF vars, Invariant, TypeOK, TableStaysSound
<1>5. QED
  BY <1>1, <1>2, <1>3, <1>4 DEF Next

LEMMA SpecInvariant == Spec => []Invariant
BY InitInvariant, NextInvariant, PTL DEF Spec

(* The S6a table stays sound for the life of the process: the lost pointer *)
(* of a full pool cannot break the agreement of bitmap, map and pool.      *)
THEOREM Sound == Spec => []TableStaysSound
<1>1. Invariant => TableStaysSound
  BY DEF Invariant
<1>2. QED
  BY <1>1, SpecInvariant, PTL

(* The free-index scan of getS6aFreeIndex always ends.                     *)
THEOREM ScanTerminates == Spec => []ScanFindsEntry
<1>1. ASSUME Invariant PROVE ScanFindsEntry
  <2> SUFFICES ASSUME Room PROVE Index \ tab.bits # {}
    BY DEF ScanFindsEntry
  <2>1. tab \in Table /\ BitsAreMapped(tab) /\ NoSharedEntry(tab)
    BY <1>1 DEF Invariant, TypeOK, TableStaysSound, TableSound
  <2>2. QED
    BY <2>1, SmallMapLeavesBit DEF Room
<1>2. QED
  BY <1>1, SpecInvariant, PTL

-----------------------------------------------------------------------------
(* Refinement.  What a session contributes to the abstract state:          *)

WaitingOf(s) == [req |-> s.req, ans |-> s.ans]

LEMMA WaitingIs ==
  /\ DOMAIN Waiting = Live(tab)
  /\ \A k \in Live(tab) : Waiting[k] = WaitingOf(SessionOf(tab, k))
  /\ DOMAIN Waiting' = Live(tab')
  /\ \A k \in Live(tab') : Waiting'[k] = WaitingOf(SessionOf(tab', k))
BY DEF Waiting, WaitingOf

LEMMA MergeIs ==
  ASSUME NEW s \in Entry, NEW m \in Message, NEW id \in Nat
  PROVE  WaitingOf(CopyMessage(s, m, id)) = Matching!Merge(WaitingOf(s), m.kind, id)
BY DEF CopyMessage, WaitingOf, Matching!Merge, Entry

LEMMA CardinalityIs == Matching!Cardinality(DOMAIN Waiting) = Cardinality(DOMAIN Waiting)
BY DEF Matching!Cardinality, Cardinality

(* A received message has an identity of its own.                          *)
LEMMA ReceiveArrives ==
  ASSUME Invariant, Receive
  PROVE  Id \notin 1 .. count /\ (1 .. count)' = (1 .. count) \cup {Id}
BY DEF Invariant, TypeOK, Receive, Id

LEMMA CompleteMatches ==
  ASSUME Invariant, NEW m \in Message, Complete(m)
  PROVE  Matching!Report(m.key, m.kind, Id)
<1>1. tab \in Table /\ TableSound(tab, S6A) /\ S6A \in Apps /\ Id \in Nat
  BY S6aAssumption, ReceiveType DEF Invariant, TypeOK, TableStaysSound, Complete
<1>2. tab' = Release(tab, {m.key}) /\ {m.key} \in SUBSET Live(tab)
  BY CompleteTable
<1>3. /\ Live(tab') = Live(tab) \ {m.key}
      /\ \A x \in Live(tab') : SessionOf(tab', x) = SessionOf(tab, x)
  BY <1>1, <1>2, ReleaseTable
<1>4. Waiting' = [x \in DOMAIN Waiting \ {m.key} |-> Waiting[x]]
  BY <1>3 DEF Waiting
<1>5. Matching!Merge(Waiting[m.key], m.kind, Id)
        = WaitingOf(CopyMessage(SessionOf(tab, m.key), m, Id))
  BY <1>1, <1>2, CompleteTable, MergeIs, WaitingIs
<1> DEFINE c == CopyMessage(SessionOf(tab, m.key), m, Id)
           w == Matching!Merge(Waiting[m.key], m.kind, Id)
<1>6. flushed' = Append(flushed, [key |-> m.key, req |-> w.req, ans |-> w.ans])
  <2>1. w.req = c.req /\ w.ans = c.ans
    BY <1>5 DEF WaitingOf
  <2>2. flushed' = Append(flushed, [key |-> m.key, req |-> c.req, ans |-> c.ans])
    BY CompleteTable
  <2> HIDE DEF c, w
  <2>3. QED
    BY <2>1, <2>2
<1>7. m.key \in DOMAIN Waiting
  BY <1>2, WaitingIs
<1>8. Matching!Arrive(Id)
  BY ReceiveArrives DEF Matching!Arrive, Complete
<1>9. QED
  BY <1>4, <1>6, <1>7, <1>8 DEF Matching!Report

LEMMA OpenMatches ==
  ASSUME Invariant, NEW m \in Message, Open(m)
  PROVE  Matching!Start(m.key, m.kind, Id)
<1>1. /\ tab \in Table /\ TableSound(tab, S6A) /\ S6A \in Apps /\ m.app = S6A
      /\ m.key \notin Live(tab) /\ m.key \in Keys /\ Id \in Nat \ {0}
  BY S6aAssumption, ReceiveType DEF Invariant, TypeOK, TableStaysSound, Open, Message
<1>2. PICK i \in Index :
        FreeIndex(i) /\ freePos' = i /\ tab' = OpenSession(tab, i, m, Id)
  BY DEF Open
<1>3. i \in Index \ tab.bits
  BY <1>2 DEF FreeIndex, ScanStopsAt
<1> DEFINE s == [EmptySession EXCEPT !.key = m.key]
<1>4. /\ Live(tab') = Live(tab) \cup {m.key}
      /\ SessionOf(tab', m.key) = CopyMessage(s, m, Id)
      /\ \A x \in Live(tab) : SessionOf(tab', x) = SessionOf(tab, x)
  BY <1>1, <1>2, <1>3, OpenTable
<1>5. s \in Entry /\ WaitingOf(s) = Matching!Nothing
  BY <1>1 DEF EmptySession, Entry, WaitingOf, Matching!Nothing
<1> HIDE DEF s
<1>6. Waiting'[m.key] = Matching!Merge(Matching!Nothing, m.kind, Id)
  BY <1>1, <1>4, <1>5, MergeIs, WaitingIs
<1>7. Waiting' = [x \in DOMAIN Waiting \cup {m.key} |->
                    IF x = m.key THEN Matching!Merge(Matching!Nothing, m.kind, Id) ELSE Waiting[x]]
  <2>1. Waiting' = [x \in Live(tab') |-> Waiting'[x]]
    BY DEF Waiting
  <2>2. \A x \in Live(tab') :
          Waiting'[x] = IF x = m.key THEN Matching!Merge(Matching!Nothing, m.kind, Id) ELSE Waiting[x]
    BY <1>1, <1>4, <1>6, WaitingIs
  <2>3. QED
    BY <1>4, <2>1, <2>2, WaitingIs
<1>8. Cardinality(DOMAIN Waiting) < PoolSize /\ m.key \notin DOMAIN Waiting
  BY <1>1, WaitingIs DEF Open, Room
<1>9. Matching!Arrive(Id)
  BY ReceiveArrives DEF Matching!Arrive, Open
<1>10. QED
  BY <1>7, <1>8, <1>9, CardinalityIs DEF Matching!Start, Open

LEMMA FullIs ==
  ASSUME Invariant, ~Room
  PROVE  Cardinality(DOMAIN Waiting) >= PoolSize
<1>1. tab \in Table
  BY DEF Invariant, TypeOK
<1>2. Cardinality(DOMAIN Waiting) < PoolSize <=> Room
  BY WaitingIs DEF Room
<1>3. QED
  BY <1>1, <1>2, WaitingIs, TableCardinality, TableAssumption

LEMMA PoolFullLoses ==
  ASSUME Invariant, NEW m \in Message, PoolFull(m), tab' = tab
  PROVE  Matching!Lose(Id)
<1>1. Matching!Arrive(Id)
  BY ReceiveArrives DEF Matching!Arrive, PoolFull
<1>2. Cardinality(DOMAIN Waiting) >= PoolSize /\ Waiting' = Waiting
  BY FullIs DEF PoolFull, Waiting
<1>3. QED
  BY <1>1, <1>2, CardinalityIs DEF Matching!Lose, PoolFull

LEMMA PoolFullMatches ==
  ASSUME Invariant, NEW m \in Message, PoolFull(m), tab' # tab
  PROVE  \E k \in Keys : Matching!MixUp(k, m.kind, Id)
<1>1. tab \in Table /\ Id \in Nat
  BY ReceiveType DEF Invariant, TypeOK, PoolFull
<1>2. PICK k \in Live(tab) :
        /\ tab' \in Table
        /\ tab'.bits = tab.bits /\ tab'.sess = tab.sess
        /\ SessionOf(tab', k) = CopyMessage(SessionOf(tab, k), m, Id)
        /\ \A x \in Live(tab) \ {k} : SessionOf(tab', x) = SessionOf(tab, x)
  BY <1>1, MixUpTable
<1>3. Live(tab') = Live(tab)
  BY <1>2 DEF Live
<1>4. SessionOf(tab, k) \in Entry /\ k \in Keys
  BY <1>1, TableParts DEF SessionOf
<1>5. Waiting'[k] = Matching!Merge(Waiting[k], m.kind, Id)
  BY <1>1, <1>2, <1>3, <1>4, MergeIs, WaitingIs
<1>6. Waiting' = [Waiting EXCEPT ![k] = Matching!Merge(Waiting[k], m.kind, Id)]
  <2>1. Waiting' = [x \in Live(tab) |-> Waiting'[x]] /\ Waiting = [x \in Live(tab) |-> Waiting[x]]
    BY <1>3 DEF Waiting
  <2>2. \A x \in Live(tab) \ {k} : Waiting'[x] = Waiting[x]
    BY <1>2, <1>3, WaitingIs
  <2> HIDE DEF Waiting
  <2>3. QED
    BY <1>5, <2>1, <2>2
<1>7. Matching!Arrive(Id)
  BY ReceiveArrives DEF Matching!Arrive, PoolFull
<1>8. Cardinality(DOMAIN Waiting) >= PoolSize
  BY FullIs DEF PoolFull
<1>9. QED
  BY <1>2, <1>4, <1>6, <1>7, <1>8, WaitingIs, CardinalityIs DEF Matching!MixUp, PoolFull

LEMMA CleanupMatches ==
  ASSUME Invariant, Cleanup
  PROVE  \E K \in SUBSET DOMAIN Waiting : Matching!GiveUp(K)
<1> DEFINE K == OverdueKeys(tab, now)
<1>1. tab \in Table /\ TableSound(tab, S6A) /\ S6A \in Apps
  BY S6aAssumption DEF Invariant, TypeOK, TableStaysSound
<1>2. K \in SUBSET Live(tab) /\ tab' = Release(tab, K)
  BY CleanupTable
<1> HIDE DEF K
<1>3. /\ Live(tab') = Live(tab) \ K
      /\ \A x \in Live(tab') : SessionOf(tab', x) = SessionOf(tab, x)
  BY <1>1, <1>2, ReleaseTable
<1>4. Waiting' = [x \in DOMAIN Waiting \ K |-> Waiting[x]]
  BY <1>3 DEF Waiting
<1>5. QED
  BY <1>2, <1>4, WaitingIs DEF Matching!GiveUp, Cleanup

LEMMA StepMatches ==
  ASSUME Invariant, [Next]_vars
  PROVE  [Matching!Next]_<<Waiting, flushed, 1 .. count>>
<1>1. ASSUME NEW k \in Keys, NEW d \in {Request, Answer}, NEW t \in Stamps,
             Process([app |-> S6A, key |-> k, kind |-> d, ts |-> t])
      PROVE  [Matching!Next]_<<Waiting, flushed, 1 .. count>>
  <2> DEFINE m == [app |-> S6A, key |-> k, kind |-> d, ts |-> t]
  <2>1. m \in Message /\ m.key = k /\ m.kind = d
    BY MessageTypes DEF Invariant
  <2> HIDE DEF m
  <2>2. Process(m)
    BY <1>1 DEF m
  <2>3. Id \in 1 .. MaxMsgs
    BY <2>2, ReceiveType DEF Invariant, Process, Complete, Open, PoolFull
  <2>4. CASE Complete(m)
    BY <2>1, <2>3, <2>4, CompleteMatches DEF Matching!Next
  <2>5. CASE Open(m)
    BY <2>1, <2>3, <2>5, OpenMatches DEF Matching!Next
  <2>6. CASE PoolFull(m) /\ tab' # tab
    <3>1. PICK x \in Keys : Matching!MixUp(x, d, Id)
      BY <2>1, <2>6, PoolFullMatches
    <3>2. QED
      BY <2>3, <3>1 DEF Matching!Next
  <2>7. CASE PoolFull(m) /\ tab' = tab
    BY <2>1, <2>3, <2>7, PoolFullLoses DEF Matching!Next
  <2>8. QED
    BY <2>2, <2>4, <2>5, <2>6, <2>7 DEF Process
<1>2. CASE Cleanup
  BY <1>2, CleanupMatches DEF Matching!Next
<1>3. CASE Tick
  BY <1>3 DEF Tick, Waiting
<1>4. CASE UNCHANGED vars
  BY <1>4 DEF vars, Waiting
<1>5. QED
  BY <1>1, <1>2, <1>3, <1>4 DEF Next

(* S6aInterface implements matching by hop-by-hop identifier: its pool,    *)
(* bitmap and scan are invisible from outside.                             *)
THEOREM Implements == Spec => ImplementsMatching
<1>1. Init => Matching!Init
  BY DEF Init, Matching!Init, Waiting, EmptyTable, Live, Matching!Nothing
<1>2. Invariant /\ [Next]_vars => [Matching!Next]_<<Waiting, flushed, 1 .. count>>
  BY StepMatches
<1>3. QED
  BY <1>1, <1>2, SpecInvariant, PTL DEF Spec, ImplementsMatching, Matching!Spec
=============================================================================
