------------------------ MODULE SessionTable_proofs ------------------------
(***************************************************************************)
(* What the operations on one session table preserve: its type, and the    *)
(* agreement of bitmap, map and pool.                                      *)
(***************************************************************************)
EXTENDS SessionTable, TLAPS, FiniteSetTheorems

-----------------------------------------------------------------------------
(* Types of the operators on one table.                                    *)

LEMMA EmptySessionType == EmptySession \in Entry
BY DEF EmptySession, Entry

LEMMA EmptyTableType == EmptyTable \in Table
BY EmptySessionType DEF EmptyTable, Table

LEMMA TableParts ==
  ASSUME NEW tb \in Table
  PROVE  /\ tb.bits \subseteq Index
         /\ Live(tb) \subseteq Keys
         /\ \A k \in Live(tb) : tb.sess[k] \in Index /\ tb.pool[tb.sess[k]] \in Entry
         /\ tb.pool \in [Index -> Entry]
         /\ tb.sess \in [Live(tb) -> Index]
         /\ tb = [bits |-> tb.bits, sess |-> tb.sess, pool |-> tb.pool]
BY DEF Table, Live

LEMMA TableIntro ==
  ASSUME NEW B \in SUBSET Index, NEW K \in SUBSET Keys, NEW f \in [K -> Index],
         NEW p \in [Index -> Entry]
  PROVE  [bits |-> B, sess |-> f, pool |-> p] \in Table
BY DEF Table

LEMMA CopyMessageType ==
  ASSUME NEW s \in Entry, NEW m \in Message, NEW id \in Nat
  PROVE  CopyMessage(s, m, id) \in Entry
BY DEF CopyMessage, Entry, Message

LEMMA AllocateType ==
  ASSUME NEW tb \in Table, NEW i \in Index, NEW k \in Keys
  PROVE  Allocate(tb, i, k) \in Table
<1>1. [EmptySession EXCEPT !.key = k] \in Entry
  BY DEF EmptySession, Entry
<1>2. [tb.pool EXCEPT ![i] = [EmptySession EXCEPT !.key = k]] \in [Index -> Entry]
  BY <1>1, TableParts
<1>3. [x \in Live(tb) \cup {k} |-> IF x = k THEN i ELSE tb.sess[x]] \in [Live(tb) \cup {k} -> Index]
  BY TableParts
<1>4. tb.bits \cup {i} \in SUBSET Index /\ Live(tb) \cup {k} \in SUBSET Keys
  BY TableParts
<1>5. QED
  BY <1>2, <1>3, <1>4, TableIntro DEF Allocate

LEMMA WithoutType ==
  ASSUME NEW tb \in Table, NEW idxs, NEW keys
  PROVE  Without(tb, idxs, keys) \in Table
<1>1. [k \in Live(tb) \ keys |-> tb.sess[k]] \in [Live(tb) \ keys -> Index]
  BY TableParts
<1>2. [i \in Index |-> IF i \in idxs THEN EmptySession ELSE tb.pool[i]] \in [Index -> Entry]
  BY TableParts, EmptySessionType
<1>3. tb.bits \ idxs \in SUBSET Index /\ Live(tb) \ keys \in SUBSET Keys
  BY TableParts
<1>4. QED
  BY <1>1, <1>2, <1>3, TableIntro DEF Without

LEMMA WriteType ==
  ASSUME NEW tb \in Table, NEW i \in Index, NEW e \in Entry
  PROVE  [tb EXCEPT !.pool[i] = e] \in Table
<1>1. [tb.pool EXCEPT ![i] = e] \in [Index -> Entry]
  BY TableParts
<1>2. [tb EXCEPT !.pool[i] = e] =
        [bits |-> tb.bits, sess |-> tb.sess, pool |-> [tb.pool EXCEPT ![i] = e]]
  BY DEF Table
<1>3. QED
  BY <1>1, <1>2, TableParts, TableIntro

LEMMA OpenSessionType ==
  ASSUME NEW tb \in Table, NEW i \in Index, NEW m \in Message, NEW id \in Nat
  PROVE  OpenSession(tb, i, m, id) \in Table
<1> DEFINE al == Allocate(tb, i, m.key)
<1>1. al \in Table
  BY AllocateType DEF Message
<1>2. CopyMessage(al.pool[i], m, id) \in Entry
  BY <1>1, TableParts, CopyMessageType
<1>3. OpenSession(tb, i, m, id) = [al EXCEPT !.pool[i] = CopyMessage(al.pool[i], m, id)]
  BY DEF OpenSession
<1> HIDE DEF al
<1>4. QED
  BY <1>1, <1>2, <1>3, WriteType

-----------------------------------------------------------------------------
(* Consistency of one table.                                               *)

LEMMA EmptyTableSound ==
  ASSUME NEW a \in Apps
  PROVE  TableSound(EmptyTable, a) /\ HalfOpen(EmptyTable)
BY DEF TableSound, BitsAreMapped, NoSharedEntry, EntryIsKeysSession, HalfOpen,
       EmptyTable, Live

(* Opening a session for a new key at a free index adds that session and   *)
(* changes no other; the table stays sound and half open.                  *)
LEMMA OpenTable ==
  ASSUME NEW tb \in Table, NEW a \in Apps, TableSound(tb, a),
         NEW m \in Message, m.app = a, m.key \notin Live(tb),
         NEW i \in Index \ tb.bits, NEW id \in Nat \ {0},
         NEW new, new = OpenSession(tb, i, m, id)
  PROVE  /\ new \in Table
         /\ Live(new) = Live(tb) \cup {m.key}
         /\ SessionOf(new, m.key) = CopyMessage([EmptySession EXCEPT !.key = m.key], m, id)
         /\ \A x \in Live(tb) : SessionOf(new, x) = SessionOf(tb, x)
         /\ TableSound(new, a)
         /\ HalfOpen(tb) => HalfOpen(new)
<1> DEFINE k == m.key
           e == CopyMessage([EmptySession EXCEPT !.key = k], m, id)
<1>0. new \in Table
  BY OpenSessionType
<1>1. /\ new.bits = tb.bits \cup {i}
      /\ new.sess = [x \in Live(tb) \cup {k} |-> IF x = k THEN i ELSE tb.sess[x]]
      /\ new.pool = [tb.pool EXCEPT ![i] = e]
  BY TableParts DEF Allocate, OpenSession
<1>2. /\ Live(new) = Live(tb) \cup {k}
      /\ new.sess[k] = i
      /\ \A x \in Live(tb) : new.sess[x] = tb.sess[x]
  BY <1>1 DEF Live
<1>3. \A x \in Live(tb) : tb.sess[x] \in tb.bits /\ tb.sess[x] # i
  BY DEF TableSound, BitsAreMapped
<1>4. SessionOf(new, k) = e /\ \A x \in Live(tb) : SessionOf(new, x) = SessionOf(tb, x)
  BY <1>1, <1>2, <1>3, TableParts DEF SessionOf
<1>5. e.key = k /\ e.app = a /\ HalfOpenSession(e)
  BY DEF CopyMessage, EmptySession, Message, HalfOpenSession
<1>6. BitsAreMapped(new)
  BY <1>1, <1>2 DEF TableSound, BitsAreMapped
<1>7. NoSharedEntry(new)
  BY <1>2, <1>3 DEF TableSound, NoSharedEntry
<1>8. EntryIsKeysSession(new, a)
  BY <1>2, <1>4, <1>5 DEF TableSound, EntryIsKeysSession
<1>9. HalfOpen(tb) => HalfOpen(new)
  BY <1>2, <1>4, <1>5 DEF HalfOpen
<1>10. QED
  BY <1>0, <1>2, <1>4, <1>6, <1>7, <1>8, <1>9 DEF TableSound

Release(tb, K) == Without(tb, {tb.sess[k] : k \in K}, K)

(* Releasing the entries of a set of keys, and those keys, removes those   *)
(* sessions and changes no other; the table stays sound and half open.     *)
LEMMA ReleaseTable ==
  ASSUME NEW tb \in Table, NEW a \in Apps, TableSound(tb, a),
         NEW K \in SUBSET Live(tb),
         NEW new, new = Release(tb, K)
  PROVE  /\ Live(new) = Live(tb) \ K
         /\ \A x \in Live(new) : SessionOf(new, x) = SessionOf(tb, x)
         /\ TableSound(new, a)
         /\ HalfOpen(tb) => HalfOpen(new)
<1> DEFINE gone == {tb.sess[k] : k \in K}
<1>1. /\ new.bits = tb.bits \ gone
      /\ Live(new) = Live(tb) \ K
      /\ \A k \in Live(tb) \ K : new.sess[k] = tb.sess[k]
  BY DEF Release, Without, Live
<1>2. \A k \in Live(tb) \ K : tb.sess[k] \notin gone
  BY DEF TableSound, NoSharedEntry
<1>3. \A k \in Live(tb) \ K : SessionOf(new, k) = SessionOf(tb, k)
  BY <1>1, <1>2, TableParts DEF Release, Without, SessionOf
<1>4. BitsAreMapped(new)
  BY <1>1, <1>2 DEF TableSound, BitsAreMapped
<1>5. NoSharedEntry(new)
  <2>1. NoSharedEntry(tb)
    BY DEF TableSound
  <2>2. QED
    BY <1>1, <2>1 DEF NoSharedEntry
<1>6. EntryIsKeysSession(new, a)
  <2>1. EntryIsKeysSession(tb, a)
    BY DEF TableSound
  <2>2. QED
    BY <1>1, <1>3, <2>1 DEF EntryIsKeysSession
<1>7. HalfOpen(tb) => HalfOpen(new)
  BY <1>1, <1>3 DEF HalfOpen
<1>8. QED
  BY <1>1, <1>3, <1>4, <1>5, <1>6, <1>7 DEF TableSound

-----------------------------------------------------------------------------
(* Sizes.                                                                  *)

LEMMA TableCardinality ==
  ASSUME NEW tb \in Table
  PROVE  IsFiniteSet(Live(tb)) /\ Cardinality(Live(tb)) \in Nat
BY TableParts, TableAssumption, FS_Subset, FS_CardinalityType

LEMMA IndexCardinality == IsFiniteSet(Index) /\ Cardinality(Index) = PoolSize
<1>1. 0 \in Int /\ PoolSize - 1 \in Int /\ ~(0 > PoolSize - 1) /\ PoolSize - 1 - 0 + 1 = PoolSize
  BY TableAssumption
<1>2. IsFiniteSet(0 .. PoolSize - 1) /\ Cardinality(0 .. PoolSize - 1) = PoolSize - 1 - 0 + 1
  BY <1>1, FS_Interval, Zenon
<1>3. QED
  BY <1>1, <1>2 DEF Index

LEMMA AsManyBitsAsKeys ==
  ASSUME NEW tb \in Table, BitsAreMapped(tb), NoSharedEntry(tb)
  PROVE  IsFiniteSet(tb.bits) /\ Cardinality(tb.bits) = Cardinality(Live(tb))
<1>1. tb.sess \in Surjection(Live(tb), tb.bits)
  BY TableParts DEF BitsAreMapped, Surjection
<1>2. tb.sess \in Injection(Live(tb), tb.bits)
  BY <1>1 DEF NoSharedEntry, Live, Injection, IsInjective, Surjection
<1>3. QED
  BY <1>1, <1>2, TableCardinality, FS_Surjection

(* A map smaller than the pool leaves a clear bit.                         *)
LEMMA SmallMapLeavesBit ==
  ASSUME NEW tb \in Table, BitsAreMapped(tb), NoSharedEntry(tb),
         Cardinality(Live(tb)) < PoolSize
  PROVE  Index \ tb.bits # {}
<1> SUFFICES ASSUME Index \ tb.bits = {} PROVE FALSE
  OBVIOUS
<1>1. Cardinality(tb.bits) = Cardinality(Live(tb)) /\ Cardinality(Live(tb)) \in Nat
  BY AsManyBitsAsKeys, TableCardinality
<1>2. Index = tb.bits
  BY TableParts
<1>3. QED
  BY <1>1, <1>2, IndexCardinality, TableAssumption
=============================================================================
