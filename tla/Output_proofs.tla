---------------------------- MODULE Output_proofs ----------------------------
(***************************************************************************)
(* What the probe writes.                                                  *)
(*                                                                         *)
(* The CSV files: as long as nobody is far behind the clock (InTime), no   *)
(* two threads work on one map, and a session that has ended is on disk in *)
(* turn, in time and once.  Every slot ring is seen as the row of what has *)
(* ever been put into it: the reader is somewhere in that row, and what is *)
(* left in the slots is the rest of it, second by second (Chain).  That of *)
(* the XDR maps begins with the file.                                      *)
(*                                                                         *)
(* The log: for any number of threads, lines and seconds it is a channel   *)
(* to its file, its lines are in the order of their time stamps, and the   *)
(* last one is written before the program ends.                            *)
(***************************************************************************)
EXTENDS XdrPath, Log, TimeSlots_proofs, SequenceTheorems, FiniteSetTheorems

(* A row of slots as its reader sees it.  The reader is at second pos and  *)
(* has taken the first lo entries of that second's slot.  A[p] numbers the *)
(* first entry of second p among the N that have ever been put; L is what  *)
(* they were, D the seconds they were put for; from end on there are none. *)
Lap(pos) == {p \in Nat : pos <= p /\ p < pos + Slots}

Entry(M, i, j) == M[i][j]

First(at, lo, i) == IF i = at THEN lo ELSE 0

Chain(M, n, pos, lo, L, D, N, A, end) ==
  /\ A \in [Nat -> Nat] /\ N \in Nat
  /\ \A p \in Lap(pos) : A[p + 1] = A[p] + First(pos, lo, p) + n[ReadIndex(p)]
  /\ \A p \in Lap(pos) : \A j \in Nat :
       First(pos, lo, p) <= j /\ j < First(pos, lo, p) + n[ReadIndex(p)] =>
         /\ A[p] + j \in 1 .. N
         /\ Entry(M, ReadIndex(p), j) = L[A[p] + j] /\ D[A[p] + j] = p
  /\ \A p \in Nat : p >= end => A[p] = N + 1
  /\ \A p \in Nat : pos <= p => \A k \in 1 .. N : A[p] + First(pos, lo, p) <= k => p <= D[k]

(* The entries of each slot have consecutive indices. *)
Dense(M, n, at, lo) ==
  /\ n \in [SlotIndex -> Nat]
  /\ \A i \in SlotIndex : DOMAIN M[i] = First(at, lo, i) .. First(at, lo, i) + n[i] - 1

-----------------------------------------------------------------------------
(* Rows of slots. *)

LEMMA SlotFacts ==
  /\ Slots \in Nat /\ Slots > 1 /\ Managers \in Nat /\ Managers > 0
  /\ MaxStall \in Nat /\ MaxLag \in Nat /\ MaxRecs \in Nat /\ MaxTime \in Nat /\ MaxTime > 0
  /\ SlotIndex = 0 .. Slots - 1
  BY SlotsAssumption, XdrPathAssumption DEF SlotIndex

LEMMA LapFacts ==
  ASSUME NEW pos \in Nat
  PROVE  /\ pos \in Lap(pos)
         /\ \A p \in Lap(pos) : /\ p \in Nat /\ pos <= p /\ p < pos + Slots
                                /\ p + 1 \in Nat /\ ReadIndex(p) \in SlotIndex
         /\ \A p, q \in Lap(pos) : ReadIndex(p) = ReadIndex(q) => p = q
<1>1. pos \in Lap(pos)
  BY SlotFacts DEF Lap
<1>2. ASSUME NEW p \in Lap(pos)
      PROVE  p \in Nat /\ pos <= p /\ p < pos + Slots /\ p + 1 \in Nat /\ ReadIndex(p) \in SlotIndex
  <2>1. p \in Nat /\ pos <= p /\ p < pos + Slots /\ p + 1 \in Nat
    BY DEF Lap
  <2> QED  BY <2>1, IndexTypes DEF SlotIndex
<1>3. ASSUME NEW p \in Lap(pos), NEW q \in Lap(pos), ReadIndex(p) = ReadIndex(q), p < q
      PROVE  FALSE
  <2>1. p \in Nat /\ q \in Nat /\ q < p + Slots
    BY <1>2, SlotFacts DEF Lap
  <2> QED  BY <1>3, <2>1, SlotsApart
<1>4. ASSUME NEW p \in Lap(pos), NEW q \in Lap(pos), ReadIndex(p) = ReadIndex(q)
      PROVE  p = q
  <2>1. ~(p < q) /\ ~(q < p)
    BY <1>3, <1>4
  <2>2. p \in Nat /\ q \in Nat
    BY <1>2
  <2> QED  BY <2>1, <2>2
<1> QED  BY <1>1, <1>2, <1>4

(* Every slot is that of one of the seconds. *)
LEMMA LapCovers ==
  ASSUME NEW pos \in Nat, NEW i \in SlotIndex
  PROVE  \E p \in Lap(pos) : ReadIndex(p) = i
<1> DEFINE q == pos \div Slots
           r == pos % Slots
<1>1. q \in Nat /\ r \in 0 .. Slots - 1 /\ pos = Slots * q + r
  BY DivMod
<1>2. i \in 0 .. Slots - 1
  BY DEF SlotIndex
<1> HIDE DEF q, r
<1>3. Slots * q \in Nat /\ Slots * (q + 1) = Slots * q + Slots
  BY <1>1, SlotFacts, Z3
<1>4. ASSUME NEW t \in Nat, NEW p \in Nat, p = Slots * t + i
      PROVE  ReadIndex(p) = i
  <2> DEFINE a == p \div Slots
             b == p % Slots
  <2>1. a \in Nat /\ b \in 0 .. Slots - 1 /\ p = Slots * a + b
    BY DivMod
  <2>2. ReadIndex(p) = b
    BY DEF ReadIndex
  <2> HIDE DEF a, b
  <2>3. Slots * a + b = Slots * t + i
    BY <1>4, <2>1
  <2>4. b = i
    BY <1>2, <2>1, <2>3, Unique
  <2> QED  BY <2>2, <2>4
<1>5. CASE i >= r
  <2> DEFINE p == Slots * q + i
  <2>1. p \in Nat /\ p >= pos /\ p < pos + Slots
    <3> DEFINE z == Slots * q
    <3>1. z \in Nat /\ pos = z + r
      BY <1>1, <1>3
    <3> HIDE DEF z
    <3>2. z + i \in Nat /\ z + i >= pos /\ z + i < pos + Slots
      BY <1>1, <1>2, <1>5, <3>1, SlotFacts
    <3> QED  BY <3>2 DEF z
  <2>2. ReadIndex(p) = i
    BY <1>1, <1>4, <2>1
  <2>3. p \in Lap(pos)
    BY <2>1 DEF Lap
  <2> QED  BY <2>2, <2>3
<1>6. CASE i < r
  <2> DEFINE p == Slots * (q + 1) + i
  <2>1. p \in Nat /\ p >= pos /\ p < pos + Slots
    <3> DEFINE z == Slots * q
               y == Slots * (q + 1)
    <3>1. z \in Nat /\ pos = z + r /\ y = z + Slots
      BY <1>1, <1>3
    <3> HIDE DEF z, y
    <3>2. y + i \in Nat /\ y + i >= pos /\ y + i < pos + Slots
      BY <1>1, <1>2, <1>6, <3>1, SlotFacts
    <3> QED  BY <3>2 DEF y
  <2>2. q + 1 \in Nat
    BY <1>1
  <2>3. ReadIndex(p) = i
    BY <1>4, <2>1, <2>2
  <2>4. p \in Lap(pos)
    BY <2>1 DEF Lap
  <2> QED  BY <2>3, <2>4
<1> QED  BY <1>1, <1>2, <1>5, <1>6

LEMMA EntrySame ==
  ASSUME NEW M, NEW M2, NEW i, M2[i] = M[i], NEW j
  PROVE  Entry(M2, i, j) = Entry(M, i, j)
  BY DEF Entry

(* An entry is put at the end of slot i; the first one, at index lo, is    *)
(* taken out of it; an empty slot i is left.                               *)
Added(M, n, M2, n2, i, x) ==
  /\ n[i] \in Nat /\ DOMAIN M[i] = 0 .. n[i] - 1
  /\ M2[i] = Stored(M[i], n[i], x) /\ n2[i] = n[i] + 1
  /\ \A k \in SlotIndex : k # i => M2[k] = M[k] /\ n2[k] = n[k]

Taken(M, n, M2, n2, i, lo) ==
  /\ n[i] \in Nat /\ n[i] > 0 /\ DOMAIN M[i] = lo .. lo + n[i] - 1
  /\ M2[i] = Erased(M[i], lo) /\ n2[i] = n[i] - 1
  /\ \A k \in SlotIndex : k # i => M2[k] = M[k] /\ n2[k] = n[k]

Left(M, n, M2, n2, i) ==
  /\ n[i] = 0
  /\ \A k \in SlotIndex : n2[k] = n[k] /\ (k # i => M2[k] = M[k])

Agree(L, L2, N) == \A k \in 1 .. N : L2[k] = L[k]

LEMMA EntryStored ==
  ASSUME NEW M, NEW n, NEW M2, NEW n2, NEW i, NEW x, Added(M, n, M2, n2, i, x)
  PROVE  Entry(M2, i, n[i]) = x /\ \A j \in Nat : j < n[i] => Entry(M2, i, j) = Entry(M, i, j)
<1> DEFINE m == M[i]
           m2 == M2[i]
           k == n[i]
<1>1. m2 = [j \in DOMAIN m \cup {k} |-> IF j = k THEN x ELSE m[j]] /\ DOMAIN m = 0 .. k - 1 /\ k \in Nat
  BY DEF Stored, Added
<1> HIDE DEF m, m2, k
<1>2. m2[k] = x
  BY <1>1
<1>3. \A j \in Nat : j < k => m2[j] = m[j]
  BY <1>1
<1> QED  BY <1>2, <1>3 DEF m, m2, k, Entry

LEMMA EntryErased ==
  ASSUME NEW M, NEW n, NEW M2, NEW n2, NEW i, NEW lo \in Nat, Taken(M, n, M2, n2, i, lo)
  PROVE  \A j \in Nat : lo < j /\ j < lo + n[i] => Entry(M2, i, j) = Entry(M, i, j)
<1> DEFINE m == M[i]
           m2 == M2[i]
           k == n[i]
<1>1. m2 = [j \in DOMAIN m \ {lo} |-> m[j]] /\ DOMAIN m = lo .. lo + k - 1 /\ k \in Nat
  BY DEF Erased, Taken
<1> HIDE DEF m, m2, k
<1>2. ASSUME NEW j \in Nat, lo < j, j < lo + k PROVE m2[j] = m[j]
  <2>1. j \in DOMAIN m \ {lo}
    BY <1>1, <1>2
  <2> QED  BY <1>1, <2>1
<1> QED  BY <1>2 DEF m, m2, k, Entry

(* Nothing changes in the slots. *)
LEMMA ChainStays ==
  ASSUME NEW M, NEW n, NEW pos \in Nat, NEW lo, NEW L, NEW D, NEW N, NEW A, NEW end \in Nat,
         Chain(M, n, pos, lo, L, D, N, A, end),
         NEW M2, NEW n2, NEW L2, NEW D2, NEW end2 \in Nat,
         \A i \in SlotIndex : M2[i] = M[i] /\ n2[i] = n[i],
         \A k \in 1 .. N : L2[k] = L[k] /\ D2[k] = D[k],
         end <= end2
  PROVE  Chain(M2, n2, pos, lo, L2, D2, N, A, end2)
<1>0. \A p \in Lap(pos) : ReadIndex(p) \in SlotIndex
  BY LapFacts
<1>1. \A p \in Nat : p >= end2 => p >= end
  OBVIOUS
<1>2. \A p \in Lap(pos) : \A j : Entry(M2, ReadIndex(p), j) = Entry(M, ReadIndex(p), j)
  BY <1>0, EntrySame
<1> QED  BY <1>0, <1>1, <1>2 DEF Chain

(* An entry is put for second q. *)
Later(A, q) == [p \in Nat |-> IF p > q THEN A[p] + 1 ELSE A[p]]

LEMMA ChainPut ==
  ASSUME NEW M, NEW n \in [SlotIndex -> Nat], NEW pos \in Nat, NEW lo \in Nat,
         NEW L, NEW D, NEW N, NEW A, NEW end \in Nat,
         Chain(M, n, pos, lo, L, D, N, A, end),
         NEW q \in Lap(pos), end <= q + 1, q = pos => lo = 0,
         NEW M2, NEW n2, NEW x, Added(M, n, M2, n2, ReadIndex(q), x),
         NEW L2, NEW D2, Agree(L, L2, N), Agree(D, D2, N),
         NEW N2, N2 = N + 1, L2[N2] = x, D2[N2] = q,
         NEW end2 \in Nat, q + 1 <= end2
  PROVE  /\ Chain(M2, n2, pos, lo, L2, D2, N2, Later(A, q), end2)
         /\ Later(A, q)[pos] = A[pos]
<1>a. \A j \in Nat : j < n[ReadIndex(q)] => Entry(M2, ReadIndex(q), j) = Entry(M, ReadIndex(q), j)
  BY EntryStored
<1>b. Entry(M2, ReadIndex(q), n[ReadIndex(q)]) = L2[N + 1]
  BY EntryStored
<1>c. /\ \A i \in SlotIndex : i # ReadIndex(q) => M2[i] = M[i] /\ n2[i] = n[i]
      /\ n2[ReadIndex(q)] = n[ReadIndex(q)] + 1 /\ D2[N + 1] = q
      /\ \A k \in 1 .. N : L2[k] = L[k] /\ D2[k] = D[k]
  BY DEF Added, Agree
<1> SUFFICES
      ASSUME \A i \in SlotIndex : i # ReadIndex(q) => M2[i] = M[i] /\ n2[i] = n[i],
             n2[ReadIndex(q)] = n[ReadIndex(q)] + 1,
             \A j \in Nat : j < n[ReadIndex(q)] => Entry(M2, ReadIndex(q), j) = Entry(M, ReadIndex(q), j),
             Entry(M2, ReadIndex(q), n[ReadIndex(q)]) = L2[N + 1], D2[N + 1] = q,
             \A k \in 1 .. N : L2[k] = L[k] /\ D2[k] = D[k]
      PROVE  Chain(M2, n2, pos, lo, L2, D2, N + 1, Later(A, q), end2) /\ Later(A, q)[pos] = A[pos]
  BY <1>a, <1>b, <1>c
<1> DEFINE A2 == Later(A, q)
<1>0. /\ A \in [Nat -> Nat] /\ N \in Nat /\ q \in Nat
      /\ \A p \in Lap(pos) : p \in Nat /\ pos <= p /\ p + 1 \in Nat /\ ReadIndex(p) \in SlotIndex
      /\ \A p \in Lap(pos) : p # q => ReadIndex(p) # ReadIndex(q)
      /\ pos <= q
  BY LapFacts DEF Chain
<1>1. /\ A2 \in [Nat -> Nat]
      /\ \A p \in Nat : p > q => A2[p] = A[p] + 1
      /\ \A p \in Nat : p <= q => A2[p] = A[p]
  BY <1>0 DEF Later
<1>2. A2[pos] = A[pos]
  BY <1>0, <1>1
<1> HIDE DEF A2
<1>3. /\ \A p \in Lap(pos) : p # q => M2[ReadIndex(p)] = M[ReadIndex(p)] /\ n2[ReadIndex(p)] = n[ReadIndex(p)]
      /\ \A p \in Lap(pos) : First(pos, lo, p) \in Nat /\ n[ReadIndex(p)] \in Nat
      /\ First(pos, lo, q) = 0
  BY <1>0 DEF First
<1>4. \A p \in Nat : p > q => A[p] = N + 1
  <2>1. \A p \in Nat : p > q => p >= end
    BY <1>0
  <2> QED  BY <2>1 DEF Chain
<1>5. ASSUME NEW p \in Lap(pos)
      PROVE  A2[p + 1] = A2[p] + First(pos, lo, p) + n2[ReadIndex(p)]
  <2>0. /\ A[p + 1] = A[p] + First(pos, lo, p) + n[ReadIndex(p)]
        /\ p \in Nat /\ p + 1 \in Nat /\ A[p] \in Nat /\ A[p + 1] \in Nat
        /\ First(pos, lo, p) \in Nat /\ n[ReadIndex(p)] \in Nat
    BY <1>0, <1>3 DEF Chain
  <2>1. CASE p = q
    <3>1. A2[p] = A[p] /\ A2[p + 1] = A[p + 1] + 1 /\ n2[ReadIndex(p)] = n[ReadIndex(p)] + 1
      BY <1>0, <1>1, <2>0, <2>1
    <3> QED  BY <2>0, <3>1
  <2>2. CASE p < q
    <3>1. A2[p] = A[p] /\ A2[p + 1] = A[p + 1] /\ n2[ReadIndex(p)] = n[ReadIndex(p)]
      BY <1>0, <1>1, <1>3, <2>0, <2>2
    <3> QED  BY <2>0, <3>1
  <2>3. CASE p > q
    <3>1. A2[p] = A[p] + 1 /\ A2[p + 1] = A[p + 1] + 1 /\ n2[ReadIndex(p)] = n[ReadIndex(p)]
      BY <1>0, <1>1, <1>3, <2>0, <2>3
    <3> QED  BY <2>0, <3>1
  <2> QED  BY <1>0, <2>0, <2>1, <2>2, <2>3
<1>6. ASSUME NEW p \in Lap(pos), NEW j \in Nat,
             First(pos, lo, p) <= j, j < First(pos, lo, p) + n2[ReadIndex(p)]
      PROVE  /\ A2[p] + j \in 1 .. N + 1
             /\ Entry(M2, ReadIndex(p), j) = L2[A2[p] + j] /\ D2[A2[p] + j] = p
  <2>0. /\ p \in Nat /\ A[p] \in Nat /\ First(pos, lo, p) \in Nat /\ n[ReadIndex(p)] \in Nat
    BY <1>0, <1>3
  <2>1. CASE j < First(pos, lo, p) + n[ReadIndex(p)]
    <3>1. /\ A[p] + j \in 1 .. N
          /\ Entry(M, ReadIndex(p), j) = L[A[p] + j] /\ D[A[p] + j] = p
      BY <1>6, <2>1 DEF Chain
    <3>2. p <= q
      <4> SUFFICES ASSUME p > q PROVE FALSE
        BY <1>0, <2>0
      <4>1. A[p] = N + 1
        BY <1>4, <2>0
      <4> QED  BY <1>0, <3>1, <4>1
    <3>3. A2[p] = A[p]
      BY <1>1, <2>0, <3>2
    <3>4. A2[p] + j \in 1 .. N + 1
      BY <1>0, <3>1, <3>3
    <3>5. Entry(M2, ReadIndex(p), j) = Entry(M, ReadIndex(p), j)
      <4>1. CASE p # q
        <5>1. M2[ReadIndex(p)] = M[ReadIndex(p)]
          BY <1>3, <4>1
        <5> QED  BY <5>1 DEF Entry
      <4>2. CASE p = q
        <5>1. j < n[ReadIndex(q)]
          BY <1>3, <2>0, <2>1, <4>2
        <5> QED  BY <4>2, <5>1
      <4> QED  BY <4>1, <4>2
    <3> QED  BY <3>1, <3>3, <3>4, <3>5
  <2>2. CASE ~(j < First(pos, lo, p) + n[ReadIndex(p)])
    <3>1. p = q
      <4> SUFFICES ASSUME p # q PROVE FALSE
        OBVIOUS
      <4>1. n2[ReadIndex(p)] = n[ReadIndex(p)]
        BY <1>3
      <4> QED  BY <1>6, <2>2, <4>1
    <3>2. j = n[ReadIndex(q)]
      BY <1>3, <1>6, <2>0, <2>2, <3>1
    <3>3. A[q + 1] = A[q] + n[ReadIndex(q)] /\ A[q + 1] = N + 1
      BY <1>0, <1>3, <1>4, <2>0, <3>1 DEF Chain
    <3>4. A2[p] + j = N + 1
      BY <1>0, <1>1, <2>0, <3>1, <3>2, <3>3
    <3>5. N + 1 \in 1 .. N + 1
      BY <1>0
    <3>6. Entry(M2, ReadIndex(p), j) = L2[N + 1]
      BY <3>1, <3>2
    <3> QED  BY <3>1, <3>4, <3>5, <3>6
  <2> QED  BY <2>1, <2>2
<1>7. ASSUME NEW p \in Nat, p >= end2 PROVE A2[p] = N + 1 + 1
  <2>1. p > q
    BY <1>0, <1>7
  <2>2. A[p] = N + 1 /\ A2[p] = A[p] + 1
    BY <1>1, <1>4, <2>1
  <2> QED  BY <2>2
<1>8. N + 1 \in Nat
  BY <1>0
<1>10. ASSUME NEW p \in Nat, pos <= p, NEW k \in 1 .. N + 1, A2[p] + First(pos, lo, p) <= k
       PROVE  p <= D2[k]
  <2>0. First(pos, lo, p) \in Nat /\ k \in Nat /\ A[p] \in Nat
    BY <1>0 DEF First
  <2>1. p <= q
    <3> SUFFICES ASSUME p > q PROVE FALSE
      BY <1>0
    <3>1. A2[p] = N + 1 + 1
      BY <1>0, <1>1, <1>4
    <3> QED  BY <1>0, <1>10, <2>0, <3>1
  <2>2. A2[p] = A[p]
    BY <1>1, <2>1
  <2>3. CASE k = N + 1
    BY <2>1, <2>3
  <2>4. CASE k \in 1 .. N
    <3>1. p <= D[k]
      BY <1>10, <2>2, <2>4 DEF Chain
    <3> QED  BY <2>4, <3>1
  <2>5. k = N + 1 \/ k \in 1 .. N
    BY <1>0
  <2> QED  BY <2>3, <2>4, <2>5
<1>9. Chain(M2, n2, pos, lo, L2, D2, N + 1, A2, end2)
  BY <1>1, <1>5, <1>6, <1>7, <1>8, <1>10 DEF Chain
<1> QED  BY <1>2, <1>9 DEF A2

(* The reader takes the first entry that is left. *)
LEMMA ChainTake ==
  ASSUME NEW M, NEW n \in [SlotIndex -> Nat], NEW pos \in Nat, NEW lo \in Nat,
         NEW L, NEW D, NEW N, NEW A, NEW end \in Nat,
         Chain(M, n, pos, lo, L, D, N, A, end),
         NEW M2, NEW n2, Taken(M, n, M2, n2, ReadIndex(pos), lo), NEW lo2, lo2 = lo + 1
  PROVE  Chain(M2, n2, pos, lo2, L, D, N, A, end)
<1>a. \A j \in Nat : lo < j /\ j < lo + n[ReadIndex(pos)] =>
         Entry(M2, ReadIndex(pos), j) = Entry(M, ReadIndex(pos), j)
  BY EntryErased
<1>b. /\ \A i \in SlotIndex : i # ReadIndex(pos) => M2[i] = M[i] /\ n2[i] = n[i]
      /\ n[ReadIndex(pos)] > 0 /\ n2[ReadIndex(pos)] = n[ReadIndex(pos)] - 1
  BY DEF Taken
<1> SUFFICES
      ASSUME \A i \in SlotIndex : i # ReadIndex(pos) => M2[i] = M[i] /\ n2[i] = n[i],
             n[ReadIndex(pos)] > 0, n2[ReadIndex(pos)] = n[ReadIndex(pos)] - 1,
             \A j \in Nat : lo < j /\ j < lo + n[ReadIndex(pos)] =>
               Entry(M2, ReadIndex(pos), j) = Entry(M, ReadIndex(pos), j)
      PROVE  Chain(M2, n2, pos, lo + 1, L, D, N, A, end)
  BY <1>a, <1>b
<1>0. /\ A \in [Nat -> Nat] /\ N \in Nat
      /\ \A p \in Lap(pos) : p \in Nat /\ ReadIndex(p) \in SlotIndex
      /\ \A p \in Lap(pos) : p # pos => ReadIndex(p) # ReadIndex(pos)
  BY LapFacts DEF Chain
<1>1. \A p \in Lap(pos) :
        p # pos => /\ M2[ReadIndex(p)] = M[ReadIndex(p)] /\ n2[ReadIndex(p)] = n[ReadIndex(p)]
                   /\ First(pos, lo + 1, p) = First(pos, lo, p)
  BY <1>0 DEF First
<1>2. /\ pos \in Lap(pos) /\ n[ReadIndex(pos)] \in Nat
      /\ First(pos, lo + 1, pos) = lo + 1 /\ First(pos, lo, pos) = lo /\ A[pos] \in Nat
  BY <1>0, LapFacts DEF First
<1>3. ASSUME NEW p \in Lap(pos)
      PROVE  A[p + 1] = A[p] + First(pos, lo + 1, p) + n2[ReadIndex(p)]
  <2>1. A[p + 1] = A[p] + First(pos, lo, p) + n[ReadIndex(p)]
    BY DEF Chain
  <2>2. CASE p = pos
    <3>1. A[p + 1] = A[pos] + lo + n[ReadIndex(pos)]
      BY <1>2, <2>1, <2>2
    <3> QED  BY <1>2, <2>2, <3>1
  <2>3. CASE p # pos
    BY <1>1, <2>1, <2>3
  <2> QED  BY <2>2, <2>3
<1>4. ASSUME NEW p \in Lap(pos), NEW j \in Nat,
             First(pos, lo + 1, p) <= j, j < First(pos, lo + 1, p) + n2[ReadIndex(p)]
      PROVE  /\ A[p] + j \in 1 .. N
             /\ Entry(M2, ReadIndex(p), j) = L[A[p] + j] /\ D[A[p] + j] = p
  <2>1. CASE p = pos
    <3>1. lo < j /\ j < lo + n[ReadIndex(pos)]
      BY <1>2, <1>4, <2>1
    <3>2. First(pos, lo, p) <= j /\ j < First(pos, lo, p) + n[ReadIndex(p)]
      BY <1>2, <2>1, <3>1
    <3>3. /\ A[p] + j \in 1 .. N
          /\ Entry(M, ReadIndex(p), j) = L[A[p] + j] /\ D[A[p] + j] = p
      BY <3>2 DEF Chain
    <3> QED  BY <2>1, <3>1, <3>3
  <2>2. CASE p # pos
    <3>1. First(pos, lo, p) <= j /\ j < First(pos, lo, p) + n[ReadIndex(p)]
      BY <1>1, <1>4, <2>2
    <3>2. /\ A[p] + j \in 1 .. N
          /\ Entry(M, ReadIndex(p), j) = L[A[p] + j] /\ D[A[p] + j] = p
      BY <3>1 DEF Chain
    <3>3. Entry(M2, ReadIndex(p), j) = Entry(M, ReadIndex(p), j)
      BY <1>1, <2>2, EntrySame
    <3> QED  BY <3>2, <3>3
  <2> QED  BY <2>1, <2>2
<1>5. ASSUME NEW p \in Nat, pos <= p, NEW k \in 1 .. N, A[p] + First(pos, lo + 1, p) <= k
      PROVE  p <= D[k]
  <2>1. First(pos, lo, p) \in Nat /\ First(pos, lo, p) <= First(pos, lo + 1, p) /\ First(pos, lo + 1, p) \in Nat
    BY DEF First
  <2>2. A[p] \in Nat /\ k \in Nat
    BY <1>0
  <2>3. A[p] + First(pos, lo, p) <= k
    BY <1>5, <2>1, <2>2
  <2> QED  BY <1>5, <2>3 DEF Chain
<1> QED  BY <1>0, <1>3, <1>4, <1>5 DEF Chain

(* What that entry is. *)
LEMMA ChainHead ==
  ASSUME NEW M, NEW n \in [SlotIndex -> Nat], NEW pos \in Nat, NEW lo \in Nat,
         NEW L, NEW D, NEW N, NEW A, NEW end,
         Chain(M, n, pos, lo, L, D, N, A, end), n[ReadIndex(pos)] > 0
  PROVE  /\ A[pos] + lo \in 1 .. N
         /\ Entry(M, ReadIndex(pos), lo) = L[A[pos] + lo] /\ D[A[pos] + lo] = pos
<1>1. pos \in Lap(pos) /\ First(pos, lo, pos) = lo /\ n[ReadIndex(pos)] \in Nat
  BY LapFacts DEF First
<1>2. First(pos, lo, pos) <= lo /\ lo < First(pos, lo, pos) + n[ReadIndex(pos)]
  BY <1>1
<1> QED  BY <1>1, <1>2 DEF Chain

(* The reader has emptied its slot, which becomes that of a later second. *)
LEMMA ChainMoves ==
  ASSUME NEW M, NEW n \in [SlotIndex -> Nat], NEW pos \in Nat, NEW lo \in Nat,
         NEW L, NEW D, NEW N, NEW A, NEW end \in Nat,
         Chain(M, n, pos, lo, L, D, N, A, end), end <= pos + Slots,
         NEW M2, NEW n2, Left(M, n, M2, n2, ReadIndex(pos)), NEW pos2, pos2 = pos + 1
  PROVE  Chain(M2, n2, pos2, 0, L, D, N, A, end) /\ A[pos2] = A[pos] + lo
<1>g. n[ReadIndex(pos)] = 0 /\ \A i \in SlotIndex : n2[i] = n[i] /\ (i # ReadIndex(pos) => M2[i] = M[i])
  BY DEF Left
<1> SUFFICES
      ASSUME n[ReadIndex(pos)] = 0,
             \A i \in SlotIndex : n2[i] = n[i] /\ (i # ReadIndex(pos) => M2[i] = M[i])
      PROVE  Chain(M2, n2, pos + 1, 0, L, D, N, A, end) /\ A[pos + 1] = A[pos] + lo
  BY <1>g
<1>d. A \in [Nat -> Nat] /\ N \in Nat
  BY Zenon DEF Chain
<1>e. pos + 1 \in Nat /\ pos + Slots \in Nat
  BY SlotFacts
<1>a. A \in [Nat -> Nat] /\ N \in Nat /\ pos + 1 \in Nat /\ pos + Slots \in Nat
  BY <1>d, <1>e
<1>b. /\ \A p \in Lap(pos) : p \in Nat /\ ReadIndex(p) \in SlotIndex
      /\ \A p \in Lap(pos) : p # pos => ReadIndex(p) # ReadIndex(pos)
      /\ pos \in Lap(pos)
  BY LapFacts
<1>c. ReadIndex(pos + Slots) = ReadIndex(pos)
  BY SameSlot
<1>0. /\ A \in [Nat -> Nat] /\ N \in Nat /\ pos + 1 \in Nat /\ pos + Slots \in Nat
      /\ \A p \in Lap(pos) : p \in Nat /\ ReadIndex(p) \in SlotIndex
      /\ \A p \in Lap(pos) : p # pos => ReadIndex(p) # ReadIndex(pos)
      /\ ReadIndex(pos + Slots) = ReadIndex(pos) /\ pos \in Lap(pos)
  BY <1>a, <1>b, <1>c
<1>1. ASSUME NEW p \in Lap(pos + 1)
      PROVE  /\ p \in Nat /\ p # pos /\ (p \in Lap(pos) \/ p = pos + Slots)
             /\ First(pos + 1, 0, p) = 0 /\ First(pos, lo, p) = 0
  BY SlotFacts DEF Lap, First
<1>2. A[pos + 1] = A[pos] + lo
  <2>1. A[pos + 1] = A[pos] + First(pos, lo, pos) + n[ReadIndex(pos)]
    BY <1>0 DEF Chain
  <2>2. First(pos, lo, pos) = lo /\ A[pos] \in Nat
    BY <1>0 DEF First
  <2> QED  BY <2>1, <2>2
<1>3. ASSUME NEW p \in Lap(pos + 1)
      PROVE  A[p + 1] = A[p] + First(pos + 1, 0, p) + n2[ReadIndex(p)]
  <2>0. p \in Nat /\ A[p] \in Nat /\ First(pos + 1, 0, p) = 0 /\ First(pos, lo, p) = 0
    BY <1>0, <1>1
  <2>1. CASE p \in Lap(pos)
    <3>1. A[p + 1] = A[p] + First(pos, lo, p) + n[ReadIndex(p)]
      BY <2>1 DEF Chain
    <3>2. n2[ReadIndex(p)] = n[ReadIndex(p)]
      BY <1>0, <2>1
    <3> QED  BY <2>0, <3>1, <3>2
  <2>2. CASE p = pos + Slots
    <3>1. p >= end /\ p + 1 >= end /\ p + 1 \in Nat
      BY <2>0, <2>2
    <3>2. A[p] = N + 1 /\ A[p + 1] = N + 1
      BY <2>0, <3>1 DEF Chain
    <3>3. n2[ReadIndex(p)] = 0
      BY <1>0, <2>2
    <3> QED  BY <1>0, <2>0, <3>2, <3>3
  <2> QED  BY <1>1, <2>1, <2>2
<1>4. ASSUME NEW p \in Lap(pos + 1), NEW j \in Nat,
             First(pos + 1, 0, p) <= j, j < First(pos + 1, 0, p) + n2[ReadIndex(p)]
      PROVE  /\ A[p] + j \in 1 .. N
             /\ Entry(M2, ReadIndex(p), j) = L[A[p] + j] /\ D[A[p] + j] = p
  <2>0. /\ p \in Nat /\ First(pos + 1, 0, p) = 0 /\ First(pos, lo, p) = 0 /\ p # pos
        /\ p \in Lap(pos) \/ p = pos + Slots
    BY <1>1
  <2>1. p \in Lap(pos)
    <3> SUFFICES ASSUME p = pos + Slots PROVE FALSE
      BY <2>0
    <3>1. n2[ReadIndex(p)] = 0
      BY <1>0
    <3> QED  BY <1>4, <2>0, <3>1
  <2>2. n2[ReadIndex(p)] = n[ReadIndex(p)] /\ M2[ReadIndex(p)] = M[ReadIndex(p)]
    BY <1>0, <2>0, <2>1
  <2>3. First(pos, lo, p) <= j /\ j < First(pos, lo, p) + n[ReadIndex(p)]
    BY <1>4, <2>0, <2>2
  <2>4. Entry(M2, ReadIndex(p), j) = Entry(M, ReadIndex(p), j)
    BY <2>2, EntrySame
  <2> QED  BY <2>1, <2>3, <2>4 DEF Chain
<1>6. ASSUME NEW p \in Nat, pos + 1 <= p, NEW k \in 1 .. N, A[p] + First(pos + 1, 0, p) <= k
      PROVE  p <= D[k]
  <2>1. First(pos, lo, p) = 0 /\ First(pos + 1, 0, p) = 0 /\ pos <= p
    BY <1>6 DEF First
  <2>2. A[p] + First(pos, lo, p) <= k
    BY <1>6, <2>1
  <2> QED  BY <2>1, <2>2 DEF Chain
<1>5. Chain(M2, n2, pos + 1, 0, L, D, N, A, end)
  BY <1>0, <1>3, <1>4, <1>6 DEF Chain
<1> QED  BY <1>2, <1>5

(* The same four steps, for the indices. *)
LEMMA DenseSlot ==
  ASSUME NEW M, NEW n, NEW at, NEW lo, Dense(M, n, at, lo), NEW i \in SlotIndex, i = at => lo = 0
  PROVE  n[i] \in Nat /\ DOMAIN M[i] = 0 .. n[i] - 1 /\ n[i] \notin DOMAIN M[i]
<1>1. First(at, lo, i) = 0 /\ n[i] \in Nat
  BY DEF Dense, First
<1>2. DOMAIN M[i] = First(at, lo, i) .. First(at, lo, i) + n[i] - 1
  BY DEF Dense
<1>3. DOMAIN M[i] = 0 .. n[i] - 1
  BY <1>1, <1>2
<1> QED  BY <1>1, <1>3

LEMMA DensePut ==
  ASSUME NEW M, NEW n, NEW at \in SlotIndex, NEW lo \in Nat, Dense(M, n, at, lo),
         NEW i \in SlotIndex, i = at => lo = 0, NEW M2, NEW n2, NEW x,
         n2 \in [SlotIndex -> Nat], n2[i] = n[i] + 1, M2[i] = Stored(M[i], n[i], x),
         \A k \in SlotIndex : k # i => M2[k] = M[k] /\ n2[k] = n[k]
  PROVE  /\ Dense(M2, n2, at, lo) /\ n[i] \in Nat
         /\ DOMAIN M[i] = 0 .. n[i] - 1 /\ DOMAIN M2[i] = 0 .. n[i]
         /\ n[i] \notin DOMAIN M[i]
<1>1. First(at, lo, i) = 0 /\ n[i] \in Nat
  BY DEF Dense, First
<1>2. DOMAIN M[i] = 0 .. n[i] - 1
  <2>1. DOMAIN M[i] = 0 .. 0 + n[i] - 1
    BY <1>1 DEF Dense
  <2> QED  BY <1>1, <2>1
<1>3. DOMAIN M2[i] = DOMAIN M[i] \cup {n[i]}
  BY DEF Stored
<1>4. DOMAIN M2[i] = 0 .. n[i] /\ n[i] \notin DOMAIN M[i]
  BY <1>1, <1>2, <1>3
<1>5. ASSUME NEW k \in SlotIndex
      PROVE  DOMAIN M2[k] = First(at, lo, k) .. First(at, lo, k) + n2[k] - 1
  <2>1. CASE k = i
    <3>1. First(at, lo, k) = 0 /\ n2[k] = n[i] + 1 /\ 0 + n2[k] - 1 = n[i]
      BY <1>1, <2>1
    <3> QED  BY <1>4, <2>1, <3>1
  <2>2. CASE k # i
    BY <2>2 DEF Dense
  <2> QED  BY <2>1, <2>2
<1>6. Dense(M2, n2, at, lo)
  BY <1>5 DEF Dense
<1> QED  BY <1>1, <1>2, <1>3, <1>4, <1>6

LEMMA DenseTake ==
  ASSUME NEW M, NEW n, NEW at \in SlotIndex, NEW lo \in Nat, Dense(M, n, at, lo), n[at] > 0,
         NEW M2, NEW n2,
         n2 \in [SlotIndex -> Nat], n2[at] = n[at] - 1, M2[at] = Erased(M[at], lo),
         \A k \in SlotIndex : k # at => M2[k] = M[k] /\ n2[k] = n[k]
  PROVE  Dense(M2, n2, at, lo + 1)
<1>1. n[at] \in Nat /\ First(at, lo, at) = lo /\ First(at, lo + 1, at) = lo + 1
  BY DEF Dense, First
<1>2. DOMAIN M[at] = lo .. lo + n[at] - 1
  BY <1>1 DEF Dense
<1>3. DOMAIN M2[at] = DOMAIN M[at] \ {lo}
  BY DEF Erased
<1>4. DOMAIN M2[at] = lo + 1 .. lo + n[at] - 1
  BY <1>1, <1>2, <1>3
<1>5. ASSUME NEW k \in SlotIndex
      PROVE  DOMAIN M2[k] = First(at, lo + 1, k) .. First(at, lo + 1, k) + n2[k] - 1
  <2>1. CASE k = at
    <3>1. lo + 1 + n2[at] - 1 = lo + n[at] - 1
      BY <1>1
    <3> QED  BY <1>1, <1>4, <2>1, <3>1
  <2>2. CASE k # at
    <3>1. First(at, lo + 1, k) = First(at, lo, k)
      BY <2>2 DEF First
    <3> QED  BY <2>2, <3>1 DEF Dense
  <2> QED  BY <2>1, <2>2
<1> QED  BY <1>5 DEF Dense

LEMMA DenseEmpty ==
  ASSUME NEW M, NEW n, NEW at \in SlotIndex, NEW lo \in Nat, Dense(M, n, at, lo),
         NEW i \in SlotIndex
  PROVE  n[i] \in Nat /\ (n[i] = 0 <=> DOMAIN M[i] = {})
<1>1. First(at, lo, i) \in Nat /\ n[i] \in Nat
  BY DEF Dense, First
<1>2. DOMAIN M[i] = First(at, lo, i) .. First(at, lo, i) + n[i] - 1
  BY DEF Dense
<1>3. \A f \in Nat : \A k \in Nat : k = 0 <=> f .. f + k - 1 = {}
  <2> SUFFICES ASSUME NEW f \in Nat, NEW k \in Nat PROVE k = 0 <=> f .. f + k - 1 = {}
    OBVIOUS
  <2>1. k > 0 => f \in f .. f + k - 1
    OBVIOUS
  <2>2. k = 0 => f .. f + k - 1 = {}
    OBVIOUS
  <2> QED  BY <2>1, <2>2
<1> QED  BY <1>1, <1>2, <1>3

LEMMA DenseMoves ==
  ASSUME NEW M, NEW n, NEW at \in SlotIndex, NEW lo \in Nat, Dense(M, n, at, lo), n[at] = 0,
         NEW M2, NEW n2, NEW at2, DOMAIN M2[at] = {}, n2 = n,
         \A k \in SlotIndex : k # at => M2[k] = M[k]
  PROVE  Dense(M2, n2, at2, 0)
<1>1. \A k \in SlotIndex : First(at2, 0, k) = 0 /\ n[k] \in Nat
  BY DEF First, Dense
<1>2. ASSUME NEW k \in SlotIndex
      PROVE  DOMAIN M2[k] = 0 .. 0 + n2[k] - 1
  <2>1. CASE k = at
    <3>1. 0 .. 0 + 0 - 1 = {}
      OBVIOUS
    <3> QED  BY <2>1, <3>1
  <2>2. CASE k # at
    <3>1. First(at, lo, k) = 0
      BY <2>2 DEF First
    <3> QED  BY <2>2, <3>1 DEF Dense
  <2> QED  BY <2>1, <2>2
<1> QED  BY <1>1, <1>2 DEF Dense


(***************************************************************************)
(* The timing the slots are made for: no store is more than a second late, *)
(* and the readers catch up before the writers come round.                 *)
(***************************************************************************)
InTime == MaxStall <= 1 /\ MaxLag + 2 <= Slots

FlWork == {"build", "index", "store", "erase", "clear"}
WrWork == {"write", "reset"}

MgrRows == [pc : {"idle", "store"}, at : Nat, idx : SlotIndex]
FlRows == [pc : {"poll", "visit"} \cup FlWork, last : SlotIndex, pos : Nat, cur : Nat, s : Manager,
           size : Nat, i : Nat, rec : Records \cup {Phantom}, at : Nat, idx : 0 .. Slots]
WrRows == [pc : {"poll", "visit"} \cup WrWork, last : SlotIndex, pos : Nat, cur : Nat, size : Nat, i : Nat]

Typed ==
  /\ now \in 1 .. MaxTime /\ writeXdr \in BOOLEAN /\ toggles \in Nat
  /\ toggles = 0 => writeXdr = TRUE /\ off = {}
  /\ flushMap = [c \in Manager \X SlotIndex |-> flushMap[c]]
  /\ flushCnt \in [Manager \X SlotIndex -> Nat]
  /\ xdrMap = [i \in SlotIndex |-> xdrMap[i]]
  /\ xdrCnt \in [SlotIndex -> Nat]
  /\ mgr \in [Manager -> MgrRows] /\ fl \in FlRows /\ wr \in WrRows
  /\ file \in Seq(Records)
  /\ born \in [Manager -> Seq(Nat)]
  /\ \A s \in Manager : Len(born[s]) <= MaxRecs
  /\ off \subseteq Records /\ astray \subseteq Records

(* The readers are at the slot of a second not long ago, which is over     *)
(* before they touch the slot.                                             *)
ReadersBehind ==
  /\ fl.last = ReadIndex(fl.pos) /\ fl.pos <= now /\ now <= fl.pos + MaxLag /\ fl.cur <= now
  /\ fl.pc # "poll" => fl.pos < fl.cur
  /\ fl.pc = "poll" => fl.s = 0
  /\ wr.last = ReadIndex(wr.pos) /\ wr.pos <= now /\ now <= wr.pos + MaxLag /\ wr.cur <= now
  /\ wr.pc # "poll" => wr.pos < wr.cur

(* The writers store for this second or a later one.                       *)
WritersAhead ==
  /\ \A s \in Manager : mgr[s].pc = "store" =>
       /\ mgr[s].at <= now /\ now <= mgr[s].at + 1 /\ mgr[s].idx = ReadIndex(mgr[s].at + 1)
       /\ Len(born[s]) > 0 /\ mgr[s].at = born[s][Len(born[s])]
  /\ fl.pc \in {"index", "store"} => fl.at <= now /\ now <= fl.at + 1
  /\ fl.pc = "store" =>
       fl.idx = Slots \/ \E sec \in {fl.at, fl.at + 1} : sec <= now /\ fl.idx = ReadIndex(sec + 1)

Row(s) == [i \in SlotIndex |-> flushMap[<<s, i>>]]
RowCnt(s) == [i \in SlotIndex |-> flushCnt[<<s, i>>]]

(* How many entries of its slot a reader has taken. *)
Lo(s) == IF s = fl.s /\ fl.pc \in FlWork THEN fl.i ELSE 0
XdrLo == IF wr.pc \in WrWork THEN wr.i ELSE 0

FlCount ==
  /\ fl.pc \in FlWork \ {"clear"} => fl.i < fl.size /\ fl.size = fl.i + flushCnt[FlCell]
  /\ fl.pc = "clear" => flushCnt[FlCell] = 0
  /\ fl.pc \in {"index", "store", "erase"} => fl.rec = flushMap[FlCell][fl.i]

WrCount ==
  /\ wr.pc = "write" => wr.i < wr.size /\ wr.size = wr.i + xdrCnt[wr.last]
  /\ wr.pc = "reset" => xdrCnt[wr.last] = 0

FlushHeld == {<<s, Len(born[s])>> : s \in {x \in Manager : mgr[x].pc = "store"}}
InFlush == UNION {{flushMap[c][i] : i \in DOMAIN flushMap[c]} : c \in DOMAIN flushMap}
InXdr == UNION {{xdrMap[i][j] : j \in DOMAIN xdrMap[i]} : i \in SlotIndex}

Shaped ==
  /\ \A s \in Manager : Dense(Row(s), RowCnt(s), fl.last, Lo(s))
  /\ Dense(xdrMap, xdrCnt, wr.last, XdrLo)
  /\ FlCount /\ WrCount
  /\ \A s \in Manager : \A i \in SlotIndex : \A j \in DOMAIN flushMap[<<s, i>>] :
       flushMap[<<s, i>>][j] \in {s} \X (1 .. MaxRecs)
  /\ InXdr \subseteq Records

Steady == Typed /\ ReadersBehind /\ WritersAhead /\ Shaped

(* The second whose slot the flusher empties next for a session manager.   *)
Pos(s) == IF s < fl.s THEN fl.pos + 1 ELSE fl.pos

-----------------------------------------------------------------------------
(* Where each actor stands to the others. *)

LEMMA Types ==
  ASSUME Typed
  PROVE  /\ now \in Nat /\ now > 0
         /\ fl.pc \in {"poll", "visit"} \cup FlWork /\ fl.last \in SlotIndex /\ fl.pos \in Nat
         /\ fl.cur \in Nat /\ fl.s \in Manager /\ fl.s \in Nat /\ fl.size \in Nat /\ fl.i \in Nat
         /\ fl.at \in Nat /\ fl.idx \in 0 .. Slots
         /\ wr.pc \in {"poll", "visit"} \cup WrWork /\ wr.last \in SlotIndex /\ wr.pos \in Nat
         /\ wr.cur \in Nat /\ wr.size \in Nat /\ wr.i \in Nat
         /\ \A s \in Manager : /\ mgr[s] \in MgrRows /\ mgr[s].pc \in {"idle", "store"}
                               /\ mgr[s].at \in Nat /\ mgr[s].idx \in SlotIndex
                               /\ s \in Nat /\ born[s] \in Seq(Nat) /\ Len(born[s]) \in Nat
         /\ FlCell \in Manager \X SlotIndex /\ flushCnt[FlCell] \in Nat
<1>1. now \in Nat /\ now > 0
  BY SlotFacts DEF Typed
<1>2. fl \in FlRows /\ wr \in WrRows
  BY DEF Typed
<1>3. /\ fl.pc \in {"poll", "visit"} \cup FlWork /\ fl.last \in SlotIndex /\ fl.pos \in Nat
      /\ fl.cur \in Nat /\ fl.s \in Manager /\ fl.size \in Nat /\ fl.i \in Nat
      /\ fl.at \in Nat /\ fl.idx \in 0 .. Slots
  BY <1>2 DEF FlRows
<1>4. /\ wr.pc \in {"poll", "visit"} \cup WrWork /\ wr.last \in SlotIndex /\ wr.pos \in Nat
      /\ wr.cur \in Nat /\ wr.size \in Nat /\ wr.i \in Nat
  BY <1>2 DEF WrRows
<1>5. \A s \in Manager : s \in Nat
  BY SlotFacts DEF Manager
<1>6. ASSUME NEW s \in Manager
      PROVE  /\ mgr[s] \in MgrRows /\ mgr[s].pc \in {"idle", "store"}
             /\ mgr[s].at \in Nat /\ mgr[s].idx \in SlotIndex
             /\ born[s] \in Seq(Nat) /\ Len(born[s]) \in Nat
  <2>1. mgr[s] \in MgrRows
    BY DEF Typed
  <2>2. born[s] \in Seq(Nat)
    BY DEF Typed
  <2>3. Len(born[s]) \in Nat
    BY <2>2, LenProperties
  <2> QED  BY <2>1, <2>2, <2>3 DEF MgrRows
<1>7. FlCell \in Manager \X SlotIndex
  BY <1>3 DEF FlCell
<1>8. flushCnt[FlCell] \in Nat
  BY <1>7 DEF Typed
<1> QED  BY <1>1, <1>3, <1>4, <1>5, <1>6, <1>7, <1>8

(* FlNext, field by field. *)
LEMMA NextFields ==
  ASSUME Typed, fl.pc # "poll"
  PROVE  /\ FlNext \in FlRows
         /\ FlNext.size = fl.size /\ FlNext.i = fl.i /\ FlNext.rec = fl.rec /\ FlNext.cur = fl.cur
         /\ FlNext.pc \in {"poll", "visit"}
         /\ fl.s + 1 < Managers => /\ FlNext.pc = "visit" /\ FlNext.s = fl.s + 1
                                   /\ FlNext.last = fl.last /\ FlNext.pos = fl.pos
         /\ ~(fl.s + 1 < Managers) =>
              /\ FlNext.s = 0 /\ FlNext.last = NextIndex(fl.last) /\ FlNext.pos = fl.pos + 1
              /\ FlNext.pc = IF NextIndex(fl.last) = ReadIndex(fl.cur) THEN "poll" ELSE "visit"
<1>0. /\ fl \in FlRows /\ fl.s \in Nat /\ fl.pos \in Nat /\ fl.last \in SlotIndex
      /\ fl.size \in Nat /\ fl.i \in Nat /\ fl.cur \in Nat
  BY Types DEF Typed
<1>1. CASE fl.s + 1 < Managers
  <2> DEFINE t == fl.s + 1
  <2>1. t \in Manager
    BY <1>0, <1>1, SlotFacts DEF Manager
  <2>2. FlNext = [fl EXCEPT !.pc = "visit", !.s = t]
    BY <1>1 DEF FlNext
  <2> HIDE DEF t
  <2>3. /\ FlNext \in FlRows
        /\ FlNext.size = fl.size /\ FlNext.i = fl.i /\ FlNext.rec = fl.rec /\ FlNext.cur = fl.cur
        /\ FlNext.pc = "visit" /\ FlNext.s = t /\ FlNext.last = fl.last /\ FlNext.pos = fl.pos
    BY <1>0, <2>1, <2>2 DEF FlRows
  <2> QED  BY <1>1, <2>3 DEF t
<1>2. CASE ~(fl.s + 1 < Managers)
  <2> DEFINE p == fl.pos + 1
             l == NextIndex(fl.last)
             c == IF NextIndex(fl.last) = ReadIndex(fl.cur) THEN "poll" ELSE "visit"
  <2>0. p \in Nat /\ c \in {"poll", "visit"}
    BY <1>0
  <2>a. l \in SlotIndex
    BY <1>0, IndexTypes DEF SlotIndex
  <2>b. 0 \in Manager
    BY SlotFacts DEF Manager
  <2>1. p \in Nat /\ l \in SlotIndex /\ 0 \in Manager /\ c \in {"poll", "visit"}
    BY <2>0, <2>a, <2>b
  <2>2. FlNext = [fl EXCEPT !.pc = c, !.last = l, !.pos = p, !.s = 0]
    <3>1. SlotDone(fl) = [fl EXCEPT !.pc = c, !.last = l, !.pos = p]
      BY DEF SlotDone
    <3> HIDE DEF p, l, c
    <3>2. FlNext = [SlotDone(fl) EXCEPT !.s = 0]
      BY <1>2 DEF FlNext
    <3> QED  BY <1>0, <3>1, <3>2 DEF FlRows
  <2> HIDE DEF p, l, c
  <2>3. /\ FlNext \in FlRows
        /\ FlNext.size = fl.size /\ FlNext.i = fl.i /\ FlNext.rec = fl.rec /\ FlNext.cur = fl.cur
        /\ FlNext.pc = c /\ FlNext.s = 0 /\ FlNext.last = l /\ FlNext.pos = p
    BY <1>0, <2>1, <2>2 DEF FlRows
  <2>4. FlNext.pc \in {"poll", "visit"}
    BY <2>1, <2>3
  <2> QED  BY <1>2, <2>3, <2>4 DEF p, l, c
<1> QED  BY <1>1, <1>2

LEMMA DoneFields ==
  ASSUME Typed
  PROVE  /\ SlotDone(wr) \in WrRows
         /\ SlotDone(wr).last = NextIndex(wr.last) /\ SlotDone(wr).pos = wr.pos + 1
         /\ SlotDone(wr).cur = wr.cur
         /\ SlotDone(wr).pc = IF NextIndex(wr.last) = ReadIndex(wr.cur) THEN "poll" ELSE "visit"
<1> DEFINE p == wr.pos + 1
           l == NextIndex(wr.last)
           c == IF NextIndex(wr.last) = ReadIndex(wr.cur) THEN "poll" ELSE "visit"
<1>b. p \in Nat
  BY Types
<1>0. p \in Nat /\ c \in {"poll", "visit"}
  BY <1>b
<1>a. l \in SlotIndex
  BY Types, IndexTypes DEF SlotIndex
<1>1. p \in Nat /\ l \in SlotIndex /\ c \in {"poll", "visit"}
  BY <1>0, <1>a
<1>2. SlotDone(wr) = [wr EXCEPT !.pc = c, !.last = l, !.pos = p]
  BY DEF SlotDone
<1> HIDE DEF p, l, c
<1>3. wr \in WrRows
  BY DEF Typed
<1>4. /\ SlotDone(wr) \in WrRows
      /\ SlotDone(wr).pc = c /\ SlotDone(wr).last = l /\ SlotDone(wr).pos = p /\ SlotDone(wr).cur = wr.cur
  BY <1>1, <1>2, <1>3 DEF WrRows
<1> QED  BY <1>4 DEF p, l, c

(* A reader that is done with a slot has not overtaken the clock. *)
LEMMA StillBehind ==
  ASSUME NEW pos \in Nat, NEW cur \in Nat, pos < cur
  PROVE  /\ NextIndex(ReadIndex(pos)) = ReadIndex(pos + 1) /\ pos + 1 <= cur
         /\ NextIndex(ReadIndex(pos)) # ReadIndex(cur) => pos + 1 < cur
<1>1. NextIndex(ReadIndex(pos)) = ReadIndex(pos + 1)
  BY NextSlot
<1>2. pos + 1 <= cur
  OBVIOUS
<1>3. NextIndex(ReadIndex(pos)) # ReadIndex(cur) => pos + 1 # cur
  BY <1>1
<1> QED  BY <1>1, <1>2, <1>3

(* Where a session manager is about to store, the flusher is not. *)
LEMMA MgrAhead ==
  ASSUME Typed, ReadersBehind, WritersAhead, InTime, NEW s \in Manager, mgr[s].pc = "store"
  PROVE  /\ mgr[s].at + 1 \in Lap(Pos(s)) /\ mgr[s].idx = ReadIndex(mgr[s].at + 1)
         /\ Pos(s) \in Nat /\ mgr[s].at \in Nat /\ now + 2 >= mgr[s].at + 2
         /\ fl.pc # "poll" => fl.pos < mgr[s].at + 1 /\ mgr[s].idx # fl.last
<1> DEFINE a == mgr[s].at
<1>0. /\ now \in Nat /\ fl.pos \in Nat /\ fl.cur \in Nat /\ fl.s \in Nat /\ s \in Nat
      /\ a \in Nat /\ a <= now /\ now <= a + 1 /\ mgr[s].idx = ReadIndex(a + 1)
      /\ fl.pos <= now /\ now <= fl.pos + MaxLag /\ fl.cur <= now
      /\ fl.pc # "poll" => fl.pos < fl.cur
      /\ fl.pc = "poll" => fl.s = 0
      /\ fl.last = ReadIndex(fl.pos)
  BY Types DEF ReadersBehind, WritersAhead
<1> HIDE DEF a
<1>1. Pos(s) \in Nat /\ (Pos(s) = fl.pos \/ (Pos(s) = fl.pos + 1 /\ fl.pc # "poll"))
  BY <1>0 DEF Pos
<1>2. fl.pc # "poll" => fl.pos < a + 1
  BY <1>0
<1>3. a + 1 \in Nat /\ Pos(s) <= a + 1 /\ a + 1 < Pos(s) + Slots
  BY <1>0, <1>1, SlotFacts DEF InTime
<1>4. a + 1 < fl.pos + Slots
  BY <1>0, SlotFacts DEF InTime
<1>5. fl.pc # "poll" => ReadIndex(fl.pos) # ReadIndex(a + 1)
  BY <1>0, <1>2, <1>3, <1>4, SlotsApart
<1>6. a + 1 \in Lap(Pos(s))
  BY <1>3 DEF Lap
<1> QED  BY <1>0, <1>1, <1>2, <1>5, <1>6 DEF a

(* Where the flusher is about to store a line, the writer is not. *)
LEMMA FlAhead ==
  ASSUME Typed, ReadersBehind, WritersAhead, InTime, fl.pc = "store", fl.idx \in SlotIndex
  PROVE  \E q \in Lap(wr.pos) :
           /\ fl.idx = ReadIndex(q) /\ fl.at + 2 <= q + 1 /\ q + 1 <= now + 2
           /\ wr.pc # "poll" => wr.pos < q /\ fl.idx # wr.last
<1>1. PICK sec \in {fl.at, fl.at + 1} : sec <= now /\ fl.idx = ReadIndex(sec + 1)
  <2>1. fl.idx = Slots \/ \E sec \in {fl.at, fl.at + 1} : sec <= now /\ fl.idx = ReadIndex(sec + 1)
    BY DEF WritersAhead
  <2>2. fl.idx # Slots
    BY SlotFacts
  <2> QED  BY <2>1, <2>2
<1>a. now \in Nat /\ wr.pos \in Nat /\ wr.cur \in Nat /\ fl.at \in Nat
  BY Types
<1>b. sec \in Nat
  BY <1>1, <1>a
<1>c. fl.at <= now /\ now <= fl.at + 1
  BY DEF WritersAhead
<1>d. /\ wr.pos <= now /\ now <= wr.pos + MaxLag /\ wr.cur <= now
      /\ wr.pc # "poll" => wr.pos < wr.cur
      /\ wr.last = ReadIndex(wr.pos)
  BY DEF ReadersBehind
<1> DEFINE q == sec + 1
<1>2. q \in Nat /\ wr.pos <= q /\ q < wr.pos + Slots /\ (wr.pc # "poll" => wr.pos < q)
  <2>1. now <= q /\ q <= now + 1
    BY <1>a, <1>b, <1>c, <1>1
  <2>2. q \in Nat
    BY <1>b
  <2>3. MaxLag \in Nat /\ Slots \in Nat /\ MaxLag + 2 <= Slots
    BY SlotFacts DEF InTime
  <2> HIDE DEF q
  <2>4. wr.pos <= q /\ q < wr.pos + Slots
    BY <1>a, <1>d, <2>1, <2>2, <2>3
  <2>5. wr.pc # "poll" => wr.pos < q
    BY <1>a, <1>d, <2>1, <2>2
  <2> QED  BY <2>2, <2>4, <2>5
<1>3. fl.at + 2 <= q + 1 /\ q + 1 <= now + 2
  BY <1>a, <1>b, <1>c, <1>d, <1>1
<1>4. fl.idx = ReadIndex(q)
  BY <1>1
<1> HIDE DEF q
<1>5. wr.pc # "poll" => ReadIndex(wr.pos) # ReadIndex(q)
  BY <1>a, <1>b, <1>c, <1>d, <1>2, SlotsApart
<1>6. q \in Lap(wr.pos)
  BY <1>2 DEF Lap
<1> QED  BY <1>a, <1>b, <1>c, <1>d, <1>2, <1>3, <1>4, <1>5, <1>6

(* What the flusher has before it. *)
LEMMA RowFacts ==
  ASSUME Typed, NEW s \in Manager
  PROVE  /\ \A i \in SlotIndex : /\ <<s, i>> \in Manager \X SlotIndex
                                 /\ Row(s)[i] = flushMap[<<s, i>>] /\ RowCnt(s)[i] = flushCnt[<<s, i>>]
         /\ RowCnt(s) \in [SlotIndex -> Nat]
<1>1. \A i \in SlotIndex : <<s, i>> \in Manager \X SlotIndex
  OBVIOUS
<1>2. \A i \in SlotIndex : Row(s)[i] = flushMap[<<s, i>>] /\ RowCnt(s)[i] = flushCnt[<<s, i>>]
  BY DEF Row, RowCnt
<1>3. \A i \in SlotIndex : flushCnt[<<s, i>>] \in Nat
  BY <1>1 DEF Typed
<1>4. RowCnt(s) \in [SlotIndex -> Nat]
  BY <1>3 DEF RowCnt
<1> QED  BY <1>1, <1>2, <1>4

LEMMA FlSlot ==
  ASSUME Typed, ReadersBehind, Shaped
  PROVE  /\ Pos(fl.s) = fl.pos /\ ReadIndex(fl.pos) = fl.last /\ FlCell = <<fl.s, fl.last>>
         /\ Row(fl.s)[fl.last] = flushMap[FlCell] /\ RowCnt(fl.s)[fl.last] = flushCnt[FlCell]
         /\ Lo(fl.s) \in Nat
         /\ DOMAIN flushMap[FlCell] = Lo(fl.s) .. Lo(fl.s) + flushCnt[FlCell] - 1
<1>1. Pos(fl.s) = fl.pos /\ ReadIndex(fl.pos) = fl.last /\ FlCell = <<fl.s, fl.last>>
  BY Types DEF Pos, ReadersBehind, FlCell
<1>2. Row(fl.s)[fl.last] = flushMap[FlCell] /\ RowCnt(fl.s)[fl.last] = flushCnt[FlCell]
  BY <1>1, Types, RowFacts
<1>3. Lo(fl.s) \in Nat /\ First(fl.last, Lo(fl.s), fl.last) = Lo(fl.s)
  BY Types DEF Lo, First
<1>4. Dense(Row(fl.s), RowCnt(fl.s), fl.last, Lo(fl.s))
  BY Types DEF Shaped
<1>5. DOMAIN flushMap[FlCell] = Lo(fl.s) .. Lo(fl.s) + flushCnt[FlCell] - 1
  BY <1>2, <1>3, <1>4, Types DEF Dense
<1> QED  BY <1>1, <1>2, <1>3, <1>5

LEMMA FlHead ==
  ASSUME Typed, ReadersBehind, Shaped, fl.pc \in {"build", "index", "store", "erase"}
  PROVE  /\ Lo(fl.s) = fl.i /\ flushCnt[FlCell] > 0 /\ fl.i \in DOMAIN flushMap[FlCell]
         /\ flushMap[FlCell][fl.i] \in {fl.s} \X (1 .. MaxRecs)
         /\ flushMap[FlCell][fl.i] \in Records /\ flushMap[FlCell][fl.i] \in InFlush
         /\ fl.pc # "build" => fl.rec = flushMap[FlCell][fl.i]
<1>1. Lo(fl.s) = fl.i /\ flushCnt[FlCell] > 0 /\ flushCnt[FlCell] \in Nat /\ fl.i \in Nat
      /\ (fl.pc # "build" => fl.rec = flushMap[FlCell][fl.i])
  <2>1. /\ fl.i < fl.size /\ fl.size = fl.i + flushCnt[FlCell]
        /\ fl.pc # "build" => fl.rec = flushMap[FlCell][fl.i]
    BY DEF Shaped, FlCount, FlWork
  <2>2. Lo(fl.s) = fl.i
    BY DEF Lo, FlWork
  <2>3. flushCnt[FlCell] \in Nat /\ fl.i \in Nat /\ fl.size \in Nat
    BY Types
  <2> QED  BY <2>1, <2>2, <2>3
<1>2. fl.i \in DOMAIN flushMap[FlCell]
  BY <1>1, FlSlot
<1>3. flushMap[FlCell][fl.i] \in {fl.s} \X (1 .. MaxRecs)
  BY <1>2, Types, FlSlot DEF Shaped
<1>4. flushMap[FlCell][fl.i] \in Records
  BY <1>3, Types DEF Records
<1>5. FlCell \in DOMAIN flushMap
  BY Types DEF Typed
<1>6. flushMap[FlCell][fl.i] \in InFlush
  BY <1>2, <1>5 DEF InFlush
<1> QED  BY <1>1, <1>2, <1>3, <1>4, <1>6

LEMMA WrHead ==
  ASSUME Typed, Shaped, wr.pc = "write"
  PROVE  /\ XdrLo = wr.i /\ xdrCnt[wr.last] > 0 /\ xdrCnt[wr.last] \in Nat
         /\ wr.i \in DOMAIN xdrMap[wr.last]
         /\ xdrMap[wr.last][wr.i] \in Records /\ xdrMap[wr.last][wr.i] \in InXdr
<1>1. XdrLo = wr.i /\ xdrCnt[wr.last] > 0 /\ xdrCnt[wr.last] \in Nat /\ wr.i \in Nat
  <2>1. xdrCnt[wr.last] \in Nat /\ wr.i \in Nat /\ wr.size \in Nat
    BY Types DEF Typed
  <2> QED  BY <2>1 DEF Shaped, WrCount, WrWork, XdrLo
<1>2. First(wr.last, XdrLo, wr.last) = wr.i /\ wr.last \in SlotIndex
  BY <1>1, Types DEF First
<1>3. DOMAIN xdrMap[wr.last] = wr.i .. wr.i + xdrCnt[wr.last] - 1
  BY <1>2 DEF Shaped, Dense
<1>4. wr.i \in DOMAIN xdrMap[wr.last]
  BY <1>1, <1>3
<1>5. xdrMap[wr.last][wr.i] \in InXdr
  BY <1>2, <1>4 DEF InXdr
<1> QED  BY <1>1, <1>4, <1>5 DEF Shaped

LEMMA InitSteady == XdrInit => Steady
<1> SUFFICES ASSUME XdrInit PROVE Steady
  OBVIOUS
<1>0. ReadIndex(1) \in SlotIndex /\ 0 \in Manager
  BY IndexTypes, SlotFacts DEF SlotIndex, Manager
<1>1. Typed
  <2>1. now \in 1 .. MaxTime /\ writeXdr \in BOOLEAN /\ toggles \in Nat
        /\ (toggles = 0 => writeXdr = TRUE /\ off = {}) /\ off \subseteq Records /\ astray \subseteq Records
    BY SlotFacts DEF XdrInit
  <2>2. /\ flushMap = [c \in Manager \X SlotIndex |-> flushMap[c]]
        /\ flushCnt \in [Manager \X SlotIndex -> Nat]
        /\ xdrMap = [i \in SlotIndex |-> xdrMap[i]]
        /\ xdrCnt \in [SlotIndex -> Nat]
    BY DEF XdrInit
  <2>3. mgr \in [Manager -> MgrRows]
    BY SlotFacts DEF XdrInit, MgrRows, SlotIndex
  <2>4. fl \in FlRows
    BY <1>0, SlotFacts DEF XdrInit, FlRows
  <2>5. wr \in WrRows
    BY <1>0 DEF XdrInit, WrRows
  <2>6. file \in Seq(Records)
    BY EmptySeq DEF XdrInit
  <2>7. <<>> \in Seq(Nat) /\ Len(<<>>) = 0
    BY EmptySeq
  <2>8. born \in [Manager -> Seq(Nat)] /\ \A s \in Manager : Len(born[s]) <= MaxRecs
    BY <2>7, SlotFacts DEF XdrInit
  <2> QED  BY <2>1, <2>2, <2>3, <2>4, <2>5, <2>6, <2>8 DEF Typed
<1>2. ReadersBehind
  BY SlotFacts DEF XdrInit, ReadersBehind
<1>3. WritersAhead
  BY DEF XdrInit, WritersAhead
<1>4. Shaped
  <2>1. fl.pc = "poll" /\ wr.pc = "poll" /\ \A s \in Manager : Lo(s) = 0
    BY DEF XdrInit, Lo, FlWork
  <2>2. XdrLo = 0
    BY <2>1 DEF XdrLo, WrWork
  <2>3. DOMAIN EmptyMap = {} /\ 0 .. 0 + 0 - 1 = {} /\ \A at, k : First(at, 0, k) = 0
    BY DEF EmptyMap, First
  <2>4. /\ \A i \in SlotIndex : xdrMap[i] = EmptyMap /\ xdrCnt[i] = 0
        /\ \A c \in Manager \X SlotIndex : flushMap[c] = EmptyMap /\ flushCnt[c] = 0
    BY DEF XdrInit
  <2>5. ASSUME NEW s \in Manager
        PROVE  Dense(Row(s), RowCnt(s), fl.last, Lo(s))
    <3>1. RowCnt(s) \in [SlotIndex -> Nat]
      BY <1>1, RowFacts
    <3>0. \A i \in SlotIndex : <<s, i>> \in Manager \X SlotIndex
      OBVIOUS
    <3>2. \A i \in SlotIndex : Row(s)[i] = EmptyMap /\ RowCnt(s)[i] = 0
      BY <2>4, <3>0 DEF Row, RowCnt
    <3>4. Lo(s) = 0
      BY <2>1
    <3>3. \A i \in SlotIndex : DOMAIN Row(s)[i] = First(fl.last, Lo(s), i) .. First(fl.last, Lo(s), i) + RowCnt(s)[i] - 1
      BY <2>3, <3>2, <3>4
    <3> QED  BY <3>1, <3>3 DEF Dense
  <2>6. Dense(xdrMap, xdrCnt, wr.last, XdrLo)
    <3>1. \A i \in SlotIndex : DOMAIN xdrMap[i] = First(wr.last, XdrLo, i) .. First(wr.last, XdrLo, i) + xdrCnt[i] - 1
      BY <2>2, <2>3, <2>4
    <3> QED  BY <1>1, <3>1 DEF Dense, Typed
  <2>7. FlCount /\ WrCount
    BY <2>1 DEF FlCount, WrCount, FlWork
  <2>8. \A s \in Manager : \A i \in SlotIndex : \A j \in DOMAIN flushMap[<<s, i>>] :
          flushMap[<<s, i>>][j] \in {s} \X (1 .. MaxRecs)
    BY <2>3, <2>4
  <2>9. InXdr \subseteq Records
    BY <2>3, <2>4 DEF InXdr
  <2> QED  BY <2>5, <2>6, <2>7, <2>8, <2>9 DEF Shaped
<1> QED  BY <1>1, <1>2, <1>3, <1>4 DEF Steady

-----------------------------------------------------------------------------
(* Every step keeps to the types. *)

LEMMA MgrKeepsTyped ==
  ASSUME Steady, NEW s \in Manager, Flush(s) \/ StoreSession(s)
  PROVE  Typed'
<1>0. Typed
  BY DEF Steady
<1>1. CASE Flush(s)
  <2> DEFINE row == [pc |-> "store", at |-> now, idx |-> WriteIndex(now, now)]
             list == Append(born[s], now)
  <2>0. /\ mgr' = [mgr EXCEPT ![s] = row] /\ born' = [born EXCEPT ![s] = list]
        /\ Len(born[s]) < MaxRecs
        /\ UNCHANGED <<now, writeXdr, flushMap, flushCnt, xdrMap, xdrCnt, fl, wr, file, off, astray, toggles>>
    BY <1>1 DEF Flush, flushQueue, xdrQueue
  <2>1. now \in Nat /\ born[s] \in Seq(Nat) /\ Len(born[s]) \in Nat
    BY <1>0, Types
  <2>2. WriteIndex(now, now) = ReadIndex(now + 1) /\ ReadIndex(now + 1) \in SlotIndex
    BY <2>1, OwnSlot, IndexTypes DEF SlotIndex
  <2>3. row \in MgrRows
    BY <2>1, <2>2 DEF MgrRows
  <2>4. list \in Seq(Nat) /\ Len(list) = Len(born[s]) + 1
    BY <2>1, AppendProperties
  <2> HIDE DEF row, list
  <2>5. mgr' \in [Manager -> MgrRows]
    BY <1>0, <2>0, <2>3 DEF Typed
  <2>6. born' \in [Manager -> Seq(Nat)]
    BY <1>0, <2>0, <2>4, Zenon DEF Typed
  <2>7. ASSUME NEW t \in Manager PROVE Len(born'[t]) <= MaxRecs
    <3>1. CASE t = s
      <4>1. born'[t] = list
        BY <1>0, <2>0, <3>1, Zenon DEF Typed
      <4>2. Len(list) <= MaxRecs
        BY <2>0, <2>1, <2>4, SlotFacts
      <4> QED  BY <4>1, <4>2
    <3>2. CASE t # s
      <4>1. born'[t] = born[t]
        BY <1>0, <2>0, <3>2, Zenon DEF Typed
      <4> QED  BY <1>0, <4>1 DEF Typed
    <3> QED  BY <3>1, <3>2
  <2> QED  BY <1>0, <2>0, <2>5, <2>6, <2>7, Zenon DEF Typed
<1>2. CASE StoreSession(s)
  <2> DEFINE c == <<s, mgr[s].idx>>
             m == Stored(flushMap[c], flushCnt[c], <<s, Len(born[s])>>)
             k == flushCnt[c] + 1
  <2>0. /\ flushMap' = [flushMap EXCEPT ![c] = m] /\ flushCnt' = [flushCnt EXCEPT ![c] = k]
        /\ mgr' = [mgr EXCEPT ![s].pc = "idle"]
        /\ UNCHANGED <<now, writeXdr, xdrMap, xdrCnt, fl, wr, file, born, off, astray, toggles>>
    BY <1>2 DEF StoreSession, xdrQueue, history
  <2>1. c \in Manager \X SlotIndex /\ mgr[s] \in MgrRows
    BY <1>0, Types
  <2>2. k \in Nat
    BY <1>0, <2>1 DEF Typed
  <2> HIDE DEF c, m, k
  <2>3. flushMap' = [d \in Manager \X SlotIndex |-> flushMap'[d]] /\ flushCnt' \in [Manager \X SlotIndex -> Nat]
    BY <1>0, <2>0, <2>1, <2>2 DEF Typed
  <2>4. mgr' \in [Manager -> MgrRows]
    BY <1>0, <2>0, <2>1 DEF Typed, MgrRows
  <2> QED  BY <1>0, <2>0, <2>3, <2>4, Zenon DEF Typed
<1> QED  BY <1>1, <1>2

LEMMA FlKeepsTyped ==
  ASSUME Steady, FlStep
  PROVE  Typed'
<1>0. Typed /\ ReadersBehind /\ Shaped
  BY DEF Steady
<1>t. /\ fl \in FlRows /\ fl.i \in Nat /\ FlCell \in Manager \X SlotIndex /\ flushCnt[FlCell] \in Nat /\ now \in Nat
      /\ Manager \X SlotIndex = DOMAIN flushMap
  BY <1>0, Types DEF Typed
<1>1. CASE FlPoll
  <2>0. fl' = [fl EXCEPT !.pc = "visit", !.cur = now]
        /\ UNCHANGED <<now, writeXdr, flushMap, flushCnt, xdrMap, xdrCnt, mgr, wr, file, born, off, astray, toggles>>
    BY <1>1 DEF FlPoll, flushQueue, xdrQueue, history
  <2>1. fl' \in FlRows
    BY <1>t, <2>0 DEF FlRows
  <2> QED  BY <1>0, <2>0, <2>1, Zenon DEF Typed
<1>2. CASE FlVisit
  <2> DEFINE n == Cardinality(DOMAIN flushMap[FlCell])
  <2>0. /\ fl.pc = "visit"
        /\ fl' = FlNext \/ fl' = [fl EXCEPT !.pc = "build", !.size = n, !.i = 0]
        /\ UNCHANGED <<now, writeXdr, flushMap, flushCnt, xdrMap, xdrCnt, mgr, wr, file, born, off, astray, toggles>>
    BY <1>2 DEF FlVisit, flushQueue, xdrQueue, history
  <2>1. n \in Nat
    <3>1. Lo(fl.s) = 0
      BY <2>0 DEF Lo, FlWork
    <3>2. DOMAIN flushMap[FlCell] = 0 .. 0 + flushCnt[FlCell] - 1
      BY <1>0, <3>1, FlSlot
    <3>3. 0 + flushCnt[FlCell] - 1 \in Int
      BY <1>t
    <3>4. IsFiniteSet(DOMAIN flushMap[FlCell])
      BY <3>2, <3>3, FS_Interval
    <3> QED  BY <3>4, FS_CardinalityType
  <2> HIDE DEF n
  <2>2. [fl EXCEPT !.pc = "build", !.size = n, !.i = 0] \in FlRows
    BY <1>t, <2>1 DEF FlRows, FlWork
  <2>3. FlNext \in FlRows
    BY <1>0, <2>0, NextFields
  <2>4. fl' \in FlRows
    BY <2>0, <2>2, <2>3
  <2> QED  BY <1>0, <2>0, <2>4, Zenon DEF Typed
<1>3. CASE FlBuild
  <2> DEFINE r == Found(flushMap[FlCell], fl.i, Phantom)
  <2>0. /\ fl.pc = "build"
        /\ fl' = [fl EXCEPT !.pc = "index", !.rec = r, !.at = now]
        /\ UNCHANGED <<now, writeXdr, flushMap, flushCnt, xdrMap, xdrCnt, mgr, wr, file, born, off, astray, toggles>>
    BY <1>3 DEF FlBuild, flushQueue, xdrQueue, history
  <2>1. r \in Records
    BY <1>0, <2>0, FlHead DEF Found
  <2> HIDE DEF r
  <2>2. fl' \in FlRows
    BY <1>t, <2>0, <2>1 DEF FlRows, FlWork
  <2> QED  BY <1>0, <2>0, <2>2, Zenon DEF Typed
<1>4. CASE FlIndex
  <2> DEFINE x == WriteIndex(fl.at, now)
  <2>0. /\ fl' = [fl EXCEPT !.pc = "store", !.idx = x]
        /\ UNCHANGED <<now, writeXdr, flushMap, flushCnt, xdrMap, xdrCnt, mgr, wr, file, born, off, astray, toggles>>
    BY <1>4 DEF FlIndex, flushQueue, xdrQueue, history
  <2>1. x \in 0 .. Slots
    <3>1. now % Slots \in 0 .. Slots - 1
      BY <1>t, DivMod
    <3> DEFINE b == now % Slots
    <3> HIDE DEF b
    <3>2. b + 1 \in 0 .. Slots /\ 0 \in 0 .. Slots
      BY <3>1, SlotFacts DEF b
    <3> QED  BY <3>2 DEF WriteIndex, b
  <2> HIDE DEF x
  <2>2. fl' \in FlRows
    BY <1>t, <2>0, <2>1 DEF FlRows, FlWork
  <2> QED  BY <1>0, <2>0, <2>2, Zenon DEF Typed
<1>5. CASE FlStore
  <2>0. /\ fl.pc = "store" /\ fl' = [fl EXCEPT !.pc = "erase"]
        /\ UNCHANGED <<now, writeXdr, flushMap, flushCnt, mgr, wr, file, born, toggles>>
    BY <1>5 DEF FlStore, flushQueue
  <2>1. fl' \in FlRows
    BY <1>t, <2>0 DEF FlRows, FlWork
  <2>2. fl.rec \in Records
    BY <1>0, <2>0, FlHead
  <2>3. CASE ~writeXdr
    <3>1. off' = off \cup {fl.rec} /\ UNCHANGED <<xdrMap, xdrCnt, astray>>
      BY <1>5, <2>3 DEF FlStore, xdrQueue
    <3>2. off' \subseteq Records /\ toggles' # 0
      BY <1>0, <2>0, <2>2, <2>3, <3>1 DEF Typed
    <3> QED  BY <1>0, <2>0, <2>1, <3>1, <3>2, Zenon DEF Typed
  <2>4. CASE writeXdr /\ fl.idx \notin SlotIndex
    <3>1. astray' = astray \cup {fl.rec} /\ UNCHANGED <<xdrMap, xdrCnt, off>>
      BY <1>5, <2>4 DEF FlStore, xdrQueue
    <3>2. astray' \subseteq Records
      BY <1>0, <2>2, <3>1 DEF Typed
    <3> QED  BY <1>0, <2>0, <2>1, <3>1, <3>2, Zenon DEF Typed
  <2>5. CASE writeXdr /\ fl.idx \in SlotIndex
    <3> DEFINE m == Stored(xdrMap[fl.idx], xdrCnt[fl.idx], fl.rec)
               k == xdrCnt[fl.idx] + 1
    <3>1. /\ xdrMap' = [xdrMap EXCEPT ![fl.idx] = m] /\ xdrCnt' = [xdrCnt EXCEPT ![fl.idx] = k]
          /\ UNCHANGED <<astray, off>>
      BY <1>5, <2>5 DEF FlStore
    <3>2. k \in Nat
      BY <1>0, <2>5 DEF Typed
    <3> HIDE DEF m, k
    <3>3. xdrMap' = [i \in SlotIndex |-> xdrMap'[i]] /\ xdrCnt' \in [SlotIndex -> Nat]
      BY <1>0, <2>5, <3>1, <3>2 DEF Typed
    <3> QED  BY <1>0, <2>0, <2>1, <3>1, <3>3, Zenon DEF Typed
  <2> QED  BY <2>3, <2>4, <2>5
<1>6. CASE FlErase
  <2> DEFINE p == IF fl.i + 1 < fl.size THEN "build" ELSE "clear"
             j == fl.i + 1
             m == Erased(flushMap[FlCell], fl.i)
             k == flushCnt[FlCell] - 1
  <2>0. /\ fl.pc = "erase"
        /\ flushMap' = [flushMap EXCEPT ![FlCell] = m] /\ flushCnt' = [flushCnt EXCEPT ![FlCell] = k]
        /\ fl' = [fl EXCEPT !.pc = p, !.i = j]
        /\ UNCHANGED <<now, writeXdr, xdrMap, xdrCnt, mgr, wr, file, born, off, astray, toggles>>
    BY <1>6 DEF FlErase, xdrQueue, history
  <2>1. p \in {"build", "clear"} /\ j \in Nat
    BY <1>t
  <2>2. k \in Nat
    BY <1>0, <1>t, <2>0, FlHead
  <2> HIDE DEF p, j, m, k
  <2>3. fl' \in FlRows
    BY <1>t, <2>0, <2>1 DEF FlRows, FlWork
  <2>4. flushMap' = [d \in Manager \X SlotIndex |-> flushMap'[d]] /\ flushCnt' \in [Manager \X SlotIndex -> Nat]
    BY <1>0, <1>t, <2>0, <2>2 DEF Typed
  <2> QED  BY <1>0, <2>0, <2>3, <2>4, Zenon DEF Typed
<1>7. CASE FlClear
  <2>0. /\ fl.pc = "clear" /\ fl' = FlNext
        /\ flushMap' = [flushMap EXCEPT ![FlCell] = EmptyMap] /\ flushCnt' = [flushCnt EXCEPT ![FlCell] = 0]
        /\ UNCHANGED <<now, writeXdr, xdrMap, xdrCnt, mgr, wr, file, born, off, astray, toggles>>
    BY <1>7 DEF FlClear, xdrQueue, history
  <2>1. fl' \in FlRows
    BY <1>0, <2>0, NextFields
  <2>2. flushMap' = [d \in Manager \X SlotIndex |-> flushMap'[d]] /\ flushCnt' \in [Manager \X SlotIndex -> Nat]
    BY <1>0, <1>t, <2>0 DEF Typed
  <2> QED  BY <1>0, <2>0, <2>1, <2>2, Zenon DEF Typed
<1> QED  BY <1>1, <1>2, <1>3, <1>4, <1>5, <1>6, <1>7 DEF FlStep

LEMMA WrKeepsTyped ==
  ASSUME Steady, WrStep
  PROVE  Typed'
<1>0. Typed /\ Shaped
  BY DEF Steady
<1>t. wr \in WrRows /\ wr.i \in Nat /\ wr.last \in SlotIndex /\ now \in Nat /\ xdrCnt[wr.last] \in Nat
  BY <1>0, Types DEF Typed
<1>d. SlotDone(wr) \in WrRows
  BY <1>0, DoneFields
<1>1. CASE WrPoll
  <2>0. wr' = [wr EXCEPT !.pc = "visit", !.cur = now]
        /\ UNCHANGED <<now, writeXdr, flushMap, flushCnt, xdrMap, xdrCnt, mgr, fl, file, born, off, astray, toggles>>
    BY <1>1 DEF WrPoll, flushQueue, xdrQueue, history
  <2>1. wr' \in WrRows
    BY <1>t, <2>0 DEF WrRows
  <2> QED  BY <1>0, <2>0, <2>1, Zenon DEF Typed
<1>2. CASE WrSkip
  <2>0. wr' = SlotDone(wr)
        /\ UNCHANGED <<now, writeXdr, flushMap, flushCnt, xdrMap, xdrCnt, mgr, fl, file, born, off, astray, toggles>>
    BY <1>2 DEF WrSkip, flushQueue, xdrQueue, history
  <2> QED  BY <1>0, <1>d, <2>0, Zenon DEF Typed
<1>3. CASE WrVisit
  <2> DEFINE n == Cardinality(DOMAIN xdrMap[wr.last])
             p == IF DOMAIN xdrMap[wr.last] = {} THEN "reset" ELSE "write"
  <2>0. /\ wr.pc = "visit" /\ wr' = [wr EXCEPT !.pc = p, !.size = n, !.i = 0]
        /\ UNCHANGED <<now, writeXdr, flushMap, flushCnt, xdrMap, xdrCnt, mgr, fl, file, born, off, astray, toggles>>
    BY <1>3 DEF WrVisit, flushQueue, xdrQueue, history
  <2>1. n \in Nat /\ p \in WrWork
    <3>1. First(wr.last, XdrLo, wr.last) = 0
      BY <2>0 DEF XdrLo, WrWork, First
    <3>2. DOMAIN xdrMap[wr.last] = 0 .. 0 + xdrCnt[wr.last] - 1
      BY <1>0, <1>t, <3>1 DEF Shaped, Dense
    <3>3. 0 + xdrCnt[wr.last] - 1 \in Int
      BY <1>t
    <3>4. IsFiniteSet(DOMAIN xdrMap[wr.last])
      BY <3>2, <3>3, FS_Interval
    <3> QED  BY <3>4, FS_CardinalityType DEF WrWork
  <2> HIDE DEF n, p
  <2>2. wr' \in WrRows
    BY <1>t, <2>0, <2>1 DEF WrRows
  <2> QED  BY <1>0, <2>0, <2>2, Zenon DEF Typed
<1>4. CASE WrWrite
  <2> DEFINE p == IF wr.i + 1 < wr.size THEN "write" ELSE "reset"
             j == wr.i + 1
             m == Erased(xdrMap[wr.last], wr.i)
             k == xdrCnt[wr.last] - 1
             r == Found(xdrMap[wr.last], wr.i, Phantom)
  <2>0. /\ wr.pc = "write" /\ file' = Append(file, r)
        /\ xdrMap' = [xdrMap EXCEPT ![wr.last] = m] /\ xdrCnt' = [xdrCnt EXCEPT ![wr.last] = k]
        /\ wr' = [wr EXCEPT !.pc = p, !.i = j]
        /\ UNCHANGED <<now, writeXdr, flushMap, flushCnt, mgr, fl, born, off, astray, toggles>>
    BY <1>4 DEF WrWrite, flushQueue, history
  <2>1. r \in Records /\ k \in Nat
    BY <1>0, <2>0, WrHead DEF Found
  <2>2. p \in WrWork /\ j \in Nat
    BY <1>t DEF WrWork
  <2> HIDE DEF p, j, m, k, r
  <2>3. wr' \in WrRows
    BY <1>t, <2>0, <2>2 DEF WrRows
  <2>4. xdrMap' = [i \in SlotIndex |-> xdrMap'[i]] /\ xdrCnt' \in [SlotIndex -> Nat]
    BY <1>0, <1>t, <2>0, <2>1 DEF Typed
  <2>5. file' \in Seq(Records)
    BY <1>0, <2>0, <2>1, AppendProperties DEF Typed
  <2> QED  BY <1>0, <2>0, <2>3, <2>4, <2>5, Zenon DEF Typed
<1>5. CASE WrReset
  <2> DEFINE m == IF wr.size > 0 THEN EmptyMap ELSE xdrMap[wr.last]
  <2>0. /\ xdrMap' = [xdrMap EXCEPT ![wr.last] = m] /\ xdrCnt' = [xdrCnt EXCEPT ![wr.last] = 0]
        /\ wr' = SlotDone(wr)
        /\ UNCHANGED <<now, writeXdr, flushMap, flushCnt, mgr, fl, file, born, off, astray, toggles>>
    BY <1>5 DEF WrReset, flushQueue, history
  <2> HIDE DEF m
  <2>4. xdrMap' = [i \in SlotIndex |-> xdrMap'[i]] /\ xdrCnt' \in [SlotIndex -> Nat]
    BY <1>0, <1>t, <2>0 DEF Typed
  <2> QED  BY <1>0, <1>d, <2>0, <2>4, Zenon DEF Typed
<1> QED  BY <1>1, <1>2, <1>3, <1>4, <1>5 DEF WrStep

LEMMA OthersKeepTyped ==
  ASSUME Steady, Toggle \/ NextSecond
  PROVE  Typed'
<1>0. Typed
  BY DEF Steady
<1>1. CASE Toggle
  <2>0. toggles' = toggles + 1 /\ writeXdr' = ~writeXdr
        /\ UNCHANGED <<now, flushMap, flushCnt, xdrMap, xdrCnt, mgr, fl, wr, file, born, off, astray>>
    BY <1>1 DEF Toggle, flushQueue, xdrQueue
  <2>1. toggles' \in Nat /\ toggles' # 0
    BY <1>0, <2>0 DEF Typed
  <2>2. writeXdr' \in BOOLEAN
    BY <2>0
  <2> QED  BY <1>0, <2>0, <2>1, <2>2, Zenon DEF Typed
<1>2. CASE NextSecond
  <2>0. now < MaxTime /\ now' = now + 1
        /\ UNCHANGED <<writeXdr, flushMap, flushCnt, xdrMap, xdrCnt, mgr, fl, wr, file, born, off, astray, toggles>>
    BY <1>2 DEF NextSecond, flushQueue, xdrQueue, history
  <2>1. now' \in 1 .. MaxTime
    BY <1>0, <2>0, SlotFacts DEF Typed
  <2> QED  BY <1>0, <2>0, <2>1, Zenon DEF Typed
<1> QED  BY <1>1, <1>2

-----------------------------------------------------------------------------
(* Every step keeps the readers behind the clock and the writers ahead. *)

LEMMA FlNextBehind ==
  ASSUME Typed, ReadersBehind, fl.pc # "poll", fl' = FlNext,
         UNCHANGED <<now, wr>>
  PROVE  ReadersBehind'
<1>0. /\ fl.pos \in Nat /\ fl.cur \in Nat /\ fl.pos < fl.cur /\ fl.cur <= now /\ now \in Nat
      /\ fl.last = ReadIndex(fl.pos) /\ fl.s \in Manager /\ now <= fl.pos + MaxLag /\ fl.pos <= now
  BY Types DEF ReadersBehind
<1>1. /\ fl'.last = ReadIndex(fl'.pos) /\ fl'.pos <= now /\ now <= fl'.pos + MaxLag /\ fl'.cur <= now
      /\ fl'.pc # "poll" => fl'.pos < fl'.cur
      /\ fl'.pc = "poll" => fl'.s = 0
  <2>1. CASE fl.s + 1 < Managers
    <3>1. fl'.pc = "visit" /\ fl'.last = fl.last /\ fl'.pos = fl.pos /\ fl'.cur = fl.cur
      BY <2>1, NextFields
    <3> QED  BY <1>0, <3>1
  <2>2. CASE ~(fl.s + 1 < Managers)
    <3>1. /\ fl'.s = 0 /\ fl'.last = NextIndex(fl.last) /\ fl'.pos = fl.pos + 1 /\ fl'.cur = fl.cur
          /\ fl'.pc = IF NextIndex(fl.last) = ReadIndex(fl.cur) THEN "poll" ELSE "visit"
      BY <2>2, NextFields
    <3>2. /\ NextIndex(fl.last) = ReadIndex(fl.pos + 1) /\ fl.pos + 1 <= fl.cur
          /\ NextIndex(fl.last) # ReadIndex(fl.cur) => fl.pos + 1 < fl.cur
      BY <1>0, StillBehind
    <3>3. now <= fl.pos + 1 + MaxLag
      BY <1>0, SlotFacts
    <3>4. fl'.pc # "poll" => NextIndex(fl.last) # ReadIndex(fl.cur)
      BY <3>1
    <3>5. fl.pos + 1 <= now
      BY <1>0, <3>2
    <3> QED  BY <1>0, <3>1, <3>2, <3>3, <3>4, <3>5
  <2> QED  BY <2>1, <2>2
<1> QED  BY <1>1 DEF ReadersBehind

LEMMA WrDoneBehind ==
  ASSUME Typed, ReadersBehind, wr.pc # "poll", wr' = SlotDone(wr),
         UNCHANGED <<now, fl>>
  PROVE  ReadersBehind'
<1>0. /\ wr.pos \in Nat /\ wr.cur \in Nat /\ wr.pos < wr.cur /\ wr.cur <= now /\ now \in Nat
      /\ wr.last = ReadIndex(wr.pos) /\ now <= wr.pos + MaxLag /\ wr.pos <= now
  BY Types DEF ReadersBehind
<1>1. /\ wr'.last = NextIndex(wr.last) /\ wr'.pos = wr.pos + 1 /\ wr'.cur = wr.cur
      /\ wr'.pc = IF NextIndex(wr.last) = ReadIndex(wr.cur) THEN "poll" ELSE "visit"
  BY DoneFields
<1>2. /\ NextIndex(wr.last) = ReadIndex(wr.pos + 1) /\ wr.pos + 1 <= wr.cur
      /\ NextIndex(wr.last) # ReadIndex(wr.cur) => wr.pos + 1 < wr.cur
  BY <1>0, StillBehind
<1>3. now <= wr.pos + 1 + MaxLag /\ wr.pos + 1 <= now
  BY <1>0, <1>2, SlotFacts
<1>4. wr'.pc # "poll" => NextIndex(wr.last) # ReadIndex(wr.cur)
  BY <1>1
<1> QED  BY <1>0, <1>1, <1>2, <1>3, <1>4 DEF ReadersBehind

LEMMA NextBehind ==
  ASSUME Steady, XdrNext
  PROVE  ReadersBehind'
<1>0. Typed /\ ReadersBehind
  BY DEF Steady
<1>t. fl \in FlRows /\ wr \in WrRows /\ now \in Nat /\ fl.pos \in Nat /\ wr.pos \in Nat
  BY <1>0, Types DEF Typed
<1>1. ASSUME NEW s \in Manager, Flush(s) \/ StoreSession(s) PROVE ReadersBehind'
  <2>1. UNCHANGED <<now, fl, wr>>
    BY <1>1 DEF Flush, StoreSession
  <2> QED  BY <1>0, <2>1 DEF ReadersBehind
<1>2. CASE FlPoll
  <2>1. /\ fl.pc = "poll" /\ fl.last # ReadIndex(now) /\ fl' = [fl EXCEPT !.pc = "visit", !.cur = now]
        /\ UNCHANGED <<now, wr>>
    BY <1>2 DEF FlPoll
  <2>2. fl'.pc = "visit" /\ fl'.cur = now /\ fl'.last = fl.last /\ fl'.pos = fl.pos
    BY <1>t, <2>1 DEF FlRows
  <2>3. fl.pos < now
    <3>1. fl.pos # now
      BY <1>0, <2>1 DEF ReadersBehind
    <3> QED  BY <1>0, <1>t, <3>1 DEF ReadersBehind
  <2>4. now <= now
    BY <1>t
  <2> QED  BY <1>0, <2>1, <2>2, <2>3, <2>4 DEF ReadersBehind
<1>3. CASE FlVisit \/ FlClear
  <2>1. fl.pc \in {"visit", "clear"} /\ UNCHANGED <<now, wr>>
    BY <1>3 DEF FlVisit, FlClear
  <2>2. CASE fl' = FlNext
    BY <1>0, <2>1, <2>2, FlNextBehind
  <2>3. CASE fl' # FlNext
    <3> DEFINE n == Cardinality(DOMAIN flushMap[FlCell])
    <3>1. fl' = [fl EXCEPT !.pc = "build", !.size = n, !.i = 0]
      BY <1>3, <2>3 DEF FlVisit, FlClear
    <3> HIDE DEF n
    <3>2. fl'.pc = "build" /\ fl'.last = fl.last /\ fl'.pos = fl.pos /\ fl'.cur = fl.cur
      BY <1>t, <3>1 DEF FlRows
    <3>3. fl.pc # "poll"
      BY <2>1
    <3> QED  BY <1>0, <2>1, <3>2, <3>3 DEF ReadersBehind
  <2> QED  BY <2>2, <2>3
<1>4. CASE FlBuild \/ FlIndex \/ FlStore \/ FlErase
  <2>1. /\ fl.pc # "poll" /\ UNCHANGED <<now, wr>>
    BY <1>4 DEF FlBuild, FlIndex, FlStore, FlErase
  <2>2. fl'.pc # "poll" /\ fl'.last = fl.last /\ fl'.pos = fl.pos /\ fl'.cur = fl.cur
    <3>1. CASE FlBuild
      BY <1>t, <3>1 DEF FlRows, FlBuild
    <3>2. CASE FlIndex
      BY <1>t, <3>2 DEF FlRows, FlIndex
    <3>3. CASE FlStore
      BY <1>t, <3>3 DEF FlRows, FlStore
    <3>4. CASE FlErase
      <4> DEFINE p == IF fl.i + 1 < fl.size THEN "build" ELSE "clear"
                 j == fl.i + 1
      <4>1. fl' = [fl EXCEPT !.pc = p, !.i = j] /\ p # "poll"
        BY <3>4 DEF FlErase
      <4> HIDE DEF p, j
      <4> QED  BY <1>t, <4>1 DEF FlRows
    <3> QED  BY <1>4, <3>1, <3>2, <3>3, <3>4
  <2> QED  BY <1>0, <2>1, <2>2 DEF ReadersBehind
<1>5. CASE WrPoll
  <2>1. /\ wr.pc = "poll" /\ wr.last # ReadIndex(now) /\ wr' = [wr EXCEPT !.pc = "visit", !.cur = now]
        /\ UNCHANGED <<now, fl>>
    BY <1>5 DEF WrPoll
  <2>2. wr'.pc = "visit" /\ wr'.cur = now /\ wr'.last = wr.last /\ wr'.pos = wr.pos
    BY <1>t, <2>1 DEF WrRows
  <2>3. wr.pos < now
    <3>1. wr.pos # now
      BY <1>0, <2>1 DEF ReadersBehind
    <3> QED  BY <1>0, <1>t, <3>1 DEF ReadersBehind
  <2>4. now <= now
    BY <1>t
  <2> QED  BY <1>0, <2>1, <2>2, <2>3, <2>4 DEF ReadersBehind
<1>6. CASE WrSkip \/ WrReset
  <2>1. wr.pc # "poll" /\ wr' = SlotDone(wr) /\ UNCHANGED <<now, fl>>
    BY <1>6 DEF WrSkip, WrReset
  <2> QED  BY <1>0, <2>1, WrDoneBehind
<1>7. CASE WrVisit \/ WrWrite
  <2>1. wr.pc # "poll" /\ UNCHANGED <<now, fl>>
    BY <1>7 DEF WrVisit, WrWrite
  <2>2. wr'.pc # "poll" /\ wr'.last = wr.last /\ wr'.pos = wr.pos /\ wr'.cur = wr.cur
    <3>1. CASE WrVisit
      <4> DEFINE n == Cardinality(DOMAIN xdrMap[wr.last])
                 p == IF DOMAIN xdrMap[wr.last] = {} THEN "reset" ELSE "write"
      <4>1. wr' = [wr EXCEPT !.pc = p, !.size = n, !.i = 0] /\ p # "poll"
        BY <3>1 DEF WrVisit
      <4> HIDE DEF n, p
      <4> QED  BY <1>t, <4>1 DEF WrRows
    <3>2. CASE WrWrite
      <4> DEFINE p == IF wr.i + 1 < wr.size THEN "write" ELSE "reset"
                 j == wr.i + 1
      <4>1. wr' = [wr EXCEPT !.pc = p, !.i = j] /\ p # "poll"
        BY <3>2 DEF WrWrite
      <4> HIDE DEF p, j
      <4> QED  BY <1>t, <4>1 DEF WrRows
    <3> QED  BY <1>7, <3>1, <3>2
  <2> QED  BY <1>0, <2>1, <2>2 DEF ReadersBehind
<1>8. CASE Toggle
  <2>1. UNCHANGED <<now, fl, wr>>
    BY <1>8 DEF Toggle
  <2> QED  BY <1>0, <2>1 DEF ReadersBehind
<1>9. CASE NextSecond
  <2>1. now' = now + 1 /\ UNCHANGED <<fl, wr>> /\ now < fl.pos + MaxLag /\ now < wr.pos + MaxLag
    BY <1>9 DEF NextSecond
  <2>2. fl.pos <= now /\ fl.cur <= now /\ wr.pos <= now /\ wr.cur <= now /\ fl.cur \in Nat /\ wr.cur \in Nat
    BY <1>0, Types DEF ReadersBehind
  <2>3. /\ fl.pos <= now + 1 /\ fl.cur <= now + 1 /\ wr.pos <= now + 1 /\ wr.cur <= now + 1
        /\ now + 1 <= fl.pos + MaxLag /\ now + 1 <= wr.pos + MaxLag
    BY <1>t, <2>1, <2>2, SlotFacts
  <2> QED  BY <1>0, <2>1, <2>3 DEF ReadersBehind
<1> QED  BY <1>1, <1>2, <1>3, <1>4, <1>5, <1>6, <1>7, <1>8, <1>9 DEF XdrNext, FlStep, WrStep

LEMMA NextAhead ==
  ASSUME Steady, InTime, XdrNext
  PROVE  WritersAhead'
<1> DEFINE MgrAt == \A s \in Manager : mgr[s].pc = "store" =>
             /\ mgr[s].at <= now /\ now <= mgr[s].at + 1 /\ mgr[s].idx = ReadIndex(mgr[s].at + 1)
             /\ Len(born[s]) > 0 /\ mgr[s].at = born[s][Len(born[s])]
           FlAt == /\ fl.pc \in {"index", "store"} => fl.at <= now /\ now <= fl.at + 1
                   /\ fl.pc = "store" =>
                        fl.idx = Slots \/ \E sec \in {fl.at, fl.at + 1} : sec <= now /\ fl.idx = ReadIndex(sec + 1)
<1>0. Typed /\ ReadersBehind /\ WritersAhead /\ Shaped /\ MgrAt /\ FlAt
  BY DEF Steady, WritersAhead
<1>q. MgrAt' /\ FlAt' => WritersAhead'
  BY DEF WritersAhead
<1>t. fl \in FlRows /\ now \in Nat /\ fl.at \in Nat
  BY <1>0, Types DEF Typed
<1>m. UNCHANGED <<now, mgr, born>> => MgrAt'
  BY <1>0
<1>f. UNCHANGED <<now, fl>> => FlAt'
  BY <1>0
<1>1. ASSUME NEW s \in Manager, Flush(s) PROVE WritersAhead'
  <2> DEFINE row == [pc |-> "store", at |-> now, idx |-> WriteIndex(now, now)]
             list == Append(born[s], now)
  <2>0. /\ mgr' = [mgr EXCEPT ![s] = row] /\ born' = [born EXCEPT ![s] = list]
        /\ UNCHANGED <<now, fl>>
    BY <1>1 DEF Flush
  <2>1. born[s] \in Seq(Nat) /\ Len(born[s]) \in Nat
    BY <1>0, Types
  <2>2. WriteIndex(now, now) = ReadIndex(now + 1)
    BY <1>t, OwnSlot
  <2>3. Len(list) = Len(born[s]) + 1 /\ list[Len(born[s]) + 1] = now
    BY <1>t, <2>1, AppendProperties
  <2>4. row.at = now /\ row.idx = ReadIndex(now + 1)
    BY <2>2
  <2> HIDE DEF row, list
  <2>5. ASSUME NEW t \in Manager, mgr'[t].pc = "store"
        PROVE  /\ mgr'[t].at <= now /\ now <= mgr'[t].at + 1 /\ mgr'[t].idx = ReadIndex(mgr'[t].at + 1)
               /\ Len(born'[t]) > 0 /\ mgr'[t].at = born'[t][Len(born'[t])]
    <3>1. CASE t = s
      <4>1. mgr'[t] = row /\ born'[t] = list
        BY <1>0, <2>0, <3>1, Zenon DEF Typed
      <4>2. Len(list) > 0 /\ now <= now /\ now <= now + 1
        BY <1>t, <2>1, <2>3
      <4> QED  BY <2>3, <2>4, <4>1, <4>2
    <3>2. CASE t # s
      <4>1. mgr'[t] = mgr[t] /\ born'[t] = born[t]
        BY <1>0, <2>0, <3>2, Zenon DEF Typed
      <4> QED  BY <1>0, <2>5, <4>1
    <3> QED  BY <3>1, <3>2
  <2>6. MgrAt'
    BY <2>0, <2>5
  <2> QED  BY <1>q, <1>f, <2>0, <2>6
<1>2. ASSUME NEW s \in Manager, StoreSession(s) PROVE WritersAhead'
  <2>0. /\ mgr' = [mgr EXCEPT ![s].pc = "idle"] /\ UNCHANGED <<now, fl, born>>
    BY <1>2 DEF StoreSession, history
  <2>1. \A t \in Manager : t # s => mgr'[t] = mgr[t]
    BY <1>0, <2>0 DEF Typed
  <2>2. mgr'[s].pc = "idle"
    BY <1>0, <2>0, Types DEF Typed, MgrRows
  <2>3. MgrAt'
    BY <1>0, <2>0, <2>1, <2>2
  <2> QED  BY <1>q, <1>f, <2>0, <2>3
<1>3. CASE FlBuild
  <2> DEFINE r == Found(flushMap[FlCell], fl.i, Phantom)
  <2>0. fl' = [fl EXCEPT !.pc = "index", !.rec = r, !.at = now] /\ UNCHANGED <<now, mgr, born>>
    BY <1>3 DEF FlBuild, history
  <2> HIDE DEF r
  <2>1. fl'.pc = "index" /\ fl'.at = now
    BY <1>t, <2>0 DEF FlRows
  <2>2. now <= now /\ now <= now + 1
    BY <1>t
  <2>3. FlAt'
    BY <2>0, <2>1, <2>2
  <2> QED  BY <1>q, <1>m, <2>0, <2>3
<1>4. CASE FlIndex
  <2> DEFINE x == WriteIndex(fl.at, now)
  <2>0. fl.pc = "index" /\ fl' = [fl EXCEPT !.pc = "store", !.idx = x] /\ UNCHANGED <<now, mgr, born>>
    BY <1>4 DEF FlIndex, history
  <2>a. fl.at <= now /\ now <= fl.at + 1
    BY <1>0, <2>0
  <2>1. x = Slots \/ \E sec \in {fl.at, fl.at + 1} : sec <= now /\ x = ReadIndex(sec + 1)
    <3> DEFINE a == fl.at % Slots
               b == now % Slots
    <3>1. /\ a + 1 >= Slots => ReadIndex(fl.at + 1) = 0
          /\ b + 1 >= Slots => ReadIndex(now + 1) = 0
          /\ b + 1 < Slots => ReadIndex(now + 1) = b + 1
      BY <1>t, NextSlot
    <3>2. b \in 0 .. Slots - 1
      BY <1>t, DivMod
    <3>3. x = IF a + 1 >= Slots THEN 0 ELSE b + 1
      BY DEF WriteIndex
    <3> HIDE DEF a, b, x
    <3>4. CASE a + 1 >= Slots
      BY <2>a, <3>1, <3>3, <3>4
    <3>5. CASE ~(a + 1 >= Slots) /\ b + 1 < Slots
      <4>1. now = fl.at \/ now = fl.at + 1
        BY <1>t, <2>a
      <4>2. x = ReadIndex(now + 1) /\ now <= now
        BY <1>t, <3>1, <3>3, <3>5
      <4> QED  BY <4>1, <4>2
    <3>6. CASE ~(a + 1 >= Slots) /\ ~(b + 1 < Slots)
      BY <3>2, <3>3, <3>6, SlotFacts
    <3> QED  BY <3>4, <3>5, <3>6
  <2> HIDE DEF x
  <2>2. fl'.pc = "store" /\ fl'.at = fl.at /\ fl'.idx = x
    BY <1>t, <2>0 DEF FlRows
  <2>3. FlAt'
    BY <2>0, <2>a, <2>1, <2>2
  <2> QED  BY <1>q, <1>m, <2>0, <2>3
<1>5. CASE FlPoll \/ FlVisit \/ FlStore \/ FlErase \/ FlClear
  <2>0. UNCHANGED <<now, mgr, born>>
    BY <1>5 DEF FlPoll, FlVisit, FlStore, FlErase, FlClear, history
  <2>1. fl'.pc \notin {"index", "store"}
    <3>1. CASE FlPoll
      BY <1>t, <3>1 DEF FlPoll, FlRows
    <3>2. CASE FlVisit \/ FlClear
      <4>1. CASE fl' = FlNext
        BY <1>0, <3>2, <4>1, NextFields DEF FlVisit, FlClear
      <4>2. CASE fl' # FlNext
        <5> DEFINE n == Cardinality(DOMAIN flushMap[FlCell])
        <5>1. fl' = [fl EXCEPT !.pc = "build", !.size = n, !.i = 0]
          BY <3>2, <4>2 DEF FlVisit, FlClear
        <5> HIDE DEF n
        <5> QED  BY <1>t, <5>1 DEF FlRows
      <4> QED  BY <4>1, <4>2
    <3>3. CASE FlStore
      BY <1>t, <3>3 DEF FlStore, FlRows
    <3>4. CASE FlErase
      <4> DEFINE p == IF fl.i + 1 < fl.size THEN "build" ELSE "clear"
                 j == fl.i + 1
      <4>1. fl' = [fl EXCEPT !.pc = p, !.i = j] /\ p \in {"build", "clear"}
        BY <3>4 DEF FlErase
      <4> HIDE DEF p, j
      <4> QED  BY <1>t, <4>1 DEF FlRows
    <3> QED  BY <1>5, <3>1, <3>2, <3>3, <3>4
  <2>2. FlAt'
    BY <2>1
  <2> QED  BY <1>q, <1>m, <2>0, <2>2
<1>6. CASE WrStep \/ Toggle
  <2>0. UNCHANGED <<now, mgr, fl, born>>
    BY <1>6 DEF WrStep, WrPoll, WrSkip, WrVisit, WrWrite, WrReset, Toggle, history
  <2> QED  BY <1>q, <1>m, <1>f, <2>0
<1>7. CASE NextSecond
  <2>0. /\ \A s \in Manager : mgr[s].pc = "store" => now < mgr[s].at + MaxStall
        /\ fl.pc \in {"index", "store"} => now < fl.at + MaxStall
        /\ now' = now + 1 /\ UNCHANGED <<mgr, fl, born>>
    BY <1>7 DEF NextSecond, history
  <2>1. ASSUME NEW a \in Nat, a <= now, now < a + MaxStall
        PROVE  a <= now + 1 /\ now + 1 <= a + 1
    BY <1>t, <2>1, SlotFacts DEF InTime
  <2>2. \A s \in Manager : mgr[s].at \in Nat
    BY <1>0, Types
  <2>3. MgrAt'
    BY <1>0, <2>0, <2>1, <2>2
  <2>4. \A sec \in {fl.at, fl.at + 1} : sec <= now => sec <= now + 1
    BY <1>t
  <2>5. FlAt'
    BY <1>0, <1>t, <2>0, <2>1, <2>4
  <2> QED  BY <1>q, <2>3, <2>5
<1> QED  BY <1>1, <1>2, <1>3, <1>4, <1>5, <1>6, <1>7 DEF XdrNext, FlStep

-----------------------------------------------------------------------------
(* What is in a set of queues. *)
Contents(M, C) == UNION {{M[c][i] : i \in DOMAIN M[c]} : c \in C}

Grown(M, M2, C, x) == Contents(M2, C) = Contents(M, C) \cup {x}

LEMMA ContentsStored ==
  ASSUME NEW M, NEW C, NEW c \in C, NEW n, NEW x, n \notin DOMAIN M[c],
         NEW M2, M2[c] = Stored(M[c], n, x), \A d \in C : d # c => M2[d] = M[d]
  PROVE  Grown(M, M2, C, x)
<1>1. /\ DOMAIN M2[c] = DOMAIN M[c] \cup {n} /\ M2[c][n] = x
      /\ \A i \in DOMAIN M[c] : M2[c][i] = M[c][i]
  BY DEF Stored
<1>2. ASSUME NEW y \in Contents(M2, C) PROVE y \in Contents(M, C) \cup {x}
  <2>1. PICK d \in C : \E i \in DOMAIN M2[d] : y = M2[d][i]
    BY <1>2 DEF Contents
  <2>2. CASE d # c
    BY <2>1, <2>2 DEF Contents
  <2>3. CASE d = c
    BY <1>1, <2>1, <2>3 DEF Contents
  <2> QED  BY <2>2, <2>3
<1>3. ASSUME NEW y \in Contents(M, C) PROVE y \in Contents(M2, C)
  <2>1. PICK d \in C : \E i \in DOMAIN M[d] : y = M[d][i]
    BY <1>3 DEF Contents
  <2>2. CASE d # c
    BY <2>1, <2>2 DEF Contents
  <2>3. CASE d = c
    BY <1>1, <2>1, <2>3 DEF Contents
  <2> QED  BY <2>2, <2>3
<1>4. x \in Contents(M2, C)
  BY <1>1 DEF Contents
<1> QED  BY <1>2, <1>3, <1>4 DEF Grown

LEMMA ContentsErased ==
  ASSUME NEW M, NEW C, NEW c \in C, NEW i \in DOMAIN M[c],
         NEW M2, M2[c] = Erased(M[c], i), \A d \in C : d # c => M2[d] = M[d]
  PROVE  Grown(M2, M, C, M[c][i])
<1>1. DOMAIN M2[c] = DOMAIN M[c] \ {i} /\ \A j \in DOMAIN M[c] : j # i => M2[c][j] = M[c][j]
  BY DEF Erased
<1>2. ASSUME NEW y \in Contents(M, C) PROVE y \in Contents(M2, C) \cup {M[c][i]}
  <2>1. PICK d \in C : \E j \in DOMAIN M[d] : y = M[d][j]
    BY <1>2 DEF Contents
  <2>2. CASE d # c
    BY <2>1, <2>2 DEF Contents
  <2>3. CASE d = c
    BY <1>1, <2>1, <2>3 DEF Contents
  <2> QED  BY <2>2, <2>3
<1>3. ASSUME NEW y \in Contents(M2, C) PROVE y \in Contents(M, C)
  <2>1. PICK d \in C : \E j \in DOMAIN M2[d] : y = M2[d][j]
    BY <1>3 DEF Contents
  <2>2. CASE d # c
    BY <2>1, <2>2 DEF Contents
  <2>3. CASE d = c
    BY <1>1, <2>1, <2>3 DEF Contents
  <2> QED  BY <2>2, <2>3
<1>4. M[c][i] \in Contents(M, C)
  BY DEF Contents
<1> QED  BY <1>2, <1>3, <1>4 DEF Grown

LEMMA ContentsSame ==
  ASSUME NEW M, NEW C, NEW M2,
         \A d \in C : M2[d] = M[d] \/ (DOMAIN M[d] = {} /\ DOMAIN M2[d] = {})
  PROVE  Contents(M2, C) = Contents(M, C)
  BY DEF Contents

LEMMA ContentsNames ==
  /\ InXdr = Contents(xdrMap, SlotIndex)
  /\ InFlush = Contents(flushMap, DOMAIN flushMap)
  BY DEF InXdr, InFlush, Contents

(* A reader that has taken nothing may be anywhere. *)
LEMMA DenseTurn ==
  ASSUME NEW M, NEW n, NEW at, NEW at2, Dense(M, n, at, 0)
  PROVE  Dense(M, n, at2, 0)
<1>1. \A i \in SlotIndex : First(at, 0, i) = 0 /\ First(at2, 0, i) = 0
  BY DEF First
<1> QED  BY <1>1 DEF Dense

(* Rows no step touches. *)
LEMMA RowStays ==
  ASSUME NEW s,
         \A i \in SlotIndex : flushMap'[<<s, i>>] = flushMap[<<s, i>>] /\ flushCnt'[<<s, i>>] = flushCnt[<<s, i>>]
  PROVE  Row(s)' = Row(s) /\ RowCnt(s)' = RowCnt(s)
  BY DEF Row, RowCnt

(* How each step changes the maps, seen from the rows. *)
LEMMA MgrPuts ==
  ASSUME Steady, InTime, NEW s \in Manager, StoreSession(s)
  PROVE  LET idx == mgr[s].idx
             c == <<s, idx>>
             rec == <<s, Len(born[s])>>
         IN  /\ mgr[s].pc = "store" /\ c \in Manager \X SlotIndex /\ idx \in SlotIndex
             /\ flushCnt[c] \in Nat /\ flushCnt[c] \notin DOMAIN flushMap[c]
             /\ DOMAIN flushMap[c] = 0 .. flushCnt[c] - 1
             /\ idx = fl.last => Lo(s) = 0 /\ fl.pc = "poll"
             /\ flushMap'[c] = Stored(flushMap[c], flushCnt[c], rec) /\ flushCnt'[c] = flushCnt[c] + 1
             /\ \A d \in Manager \X SlotIndex : d # c => flushMap'[d] = flushMap[d] /\ flushCnt'[d] = flushCnt[d]
             /\ rec \in {s} \X (1 .. MaxRecs) /\ rec \in Records
             /\ mgr'[s].pc = "idle" /\ \A t \in Manager : t # s => mgr'[t] = mgr[t]
             /\ UNCHANGED <<now, writeXdr, xdrMap, xdrCnt, fl, wr, file, born, off, astray, toggles>>
             /\ Dense(Row(s), RowCnt(s), fl.last, Lo(s))'
<1> DEFINE idx == mgr[s].idx
           c == <<s, idx>>
           rec == <<s, Len(born[s])>>
           m == Stored(flushMap[c], flushCnt[c], rec)
           k == flushCnt[c] + 1
<1>0. Typed /\ ReadersBehind /\ WritersAhead /\ Shaped
  BY DEF Steady
<1>1. /\ mgr[s].pc = "store"
      /\ flushMap' = [flushMap EXCEPT ![c] = m] /\ flushCnt' = [flushCnt EXCEPT ![c] = k]
      /\ mgr' = [mgr EXCEPT ![s].pc = "idle"]
      /\ UNCHANGED <<now, writeXdr, xdrMap, xdrCnt, fl, wr, file, born, off, astray, toggles>>
  BY DEF StoreSession, xdrQueue, history
<1>2. c \in Manager \X SlotIndex /\ idx \in SlotIndex /\ Len(born[s]) \in Nat
  BY <1>0, Types
<1>3. idx = fl.last => Lo(s) = 0 /\ fl.pc = "poll"
  <2>1. fl.pc # "poll" => idx # fl.last
    BY <1>0, <1>1, MgrAhead
  <2> QED  BY <2>1 DEF Lo, FlWork
<1>4. rec \in {s} \X (1 .. MaxRecs) /\ rec \in Records
  <2>1. Len(born[s]) \in 1 .. MaxRecs
    <3>1. Len(born[s]) > 0
      BY <1>0, <1>1 DEF WritersAhead
    <3>2. Len(born[s]) <= MaxRecs
      BY <1>0 DEF Typed
    <3> QED  BY <1>2, <3>1, <3>2, SlotFacts
  <2> QED  BY <2>1 DEF Records
<1>5. mgr'[s].pc = "idle" /\ \A t \in Manager : t # s => mgr'[t] = mgr[t]
  BY <1>0, <1>1, Types DEF Typed, MgrRows
<1> HIDE DEF m, k
<1>6. /\ flushMap'[c] = m /\ flushCnt'[c] = k
      /\ \A d \in Manager \X SlotIndex : d # c => flushMap'[d] = flushMap[d] /\ flushCnt'[d] = flushCnt[d]
  <2>1. /\ DOMAIN flushMap = Manager \X SlotIndex /\ DOMAIN flushCnt = Manager \X SlotIndex
    BY <1>0 DEF Typed
  <2> HIDE DEF c
  <2> QED  BY <1>1, <1>2, <2>1
<1>7. Typed'
  BY MgrKeepsTyped
<1>8. /\ Dense(Row(s)', RowCnt(s)', fl.last, Lo(s))
      /\ flushCnt[c] \in Nat /\ DOMAIN flushMap[c] = 0 .. flushCnt[c] - 1
      /\ flushCnt[c] \notin DOMAIN flushMap[c]
  <2>1. RowCnt(s)' \in [SlotIndex -> Nat]
    BY <1>7 DEF Typed, RowCnt
  <2>2. Row(s)[idx] = flushMap[c] /\ RowCnt(s)[idx] = flushCnt[c]
        /\ Row(s)'[idx] = m /\ RowCnt(s)'[idx] = flushCnt[c] + 1
    <3>1. Row(s)[idx] = flushMap[c] /\ RowCnt(s)[idx] = flushCnt[c]
      BY <1>2 DEF Row, RowCnt
    <3>2. Row(s)'[idx] = flushMap'[c] /\ RowCnt(s)'[idx] = flushCnt'[c]
      BY <1>2 DEF Row, RowCnt
    <3> QED  BY <1>6, <3>1, <3>2 DEF k
  <2>3. \A i \in SlotIndex : i # idx => Row(s)'[i] = Row(s)[i] /\ RowCnt(s)'[i] = RowCnt(s)[i]
    <3> SUFFICES ASSUME NEW i \in SlotIndex, i # idx
                 PROVE  Row(s)'[i] = Row(s)[i] /\ RowCnt(s)'[i] = RowCnt(s)[i]
      OBVIOUS
    <3>1. flushMap'[<<s, i>>] = flushMap[<<s, i>>] /\ flushCnt'[<<s, i>>] = flushCnt[<<s, i>>]
      BY <1>6
    <3> QED  BY <3>1 DEF Row, RowCnt
  <2>4. Dense(Row(s), RowCnt(s), fl.last, Lo(s)) /\ Lo(s) \in Nat /\ fl.last \in SlotIndex
    BY <1>0, Types DEF Shaped, Lo
  <2>5. Row(s)'[idx] = Stored(Row(s)[idx], RowCnt(s)[idx], rec)
    BY <2>2 DEF m
  <2>6. RowCnt(s)'[idx] = RowCnt(s)[idx] + 1
    BY <2>2
  <2>7. /\ Dense(Row(s)', RowCnt(s)', fl.last, Lo(s)) /\ RowCnt(s)[idx] \in Nat
        /\ DOMAIN Row(s)[idx] = 0 .. RowCnt(s)[idx] - 1
        /\ RowCnt(s)[idx] \notin DOMAIN Row(s)[idx]
    <3> DEFINE M == Row(s)
               n == RowCnt(s)
               M2 == Row(s)'
               n2 == RowCnt(s)'
               at == fl.last
               lo == Lo(s)
    <3>1. /\ Dense(M, n, at, lo) /\ lo \in Nat /\ at \in SlotIndex
          /\ idx \in SlotIndex /\ (idx = at => lo = 0)
          /\ n2 \in [SlotIndex -> Nat]
      BY <1>2, <1>3, <2>1, <2>4
    <3>3. n2[idx] = n[idx] + 1 /\ M2[idx] = Stored(M[idx], n[idx], rec)
      BY <2>5, <2>6
    <3>4. \A i \in SlotIndex : i # idx => M2[i] = M[i] /\ n2[i] = n[i]
      BY <2>3
    <3> HIDE DEF M, n, M2, n2, at, lo, c, idx, rec
    <3>2. Dense(M2, n2, at, lo)
      BY <3>1, <3>3, <3>4, DensePut
    <3>5. n[idx] \in Nat /\ DOMAIN M[idx] = 0 .. n[idx] - 1 /\ n[idx] \notin DOMAIN M[idx]
      BY <3>1, DenseSlot
    <3> QED  BY <3>2, <3>5 DEF M, n, M2, n2, at, lo
  <2> QED  BY <2>2, <2>7
<1>9. Dense(Row(s), RowCnt(s), fl.last, Lo(s))'
  BY <1>1, <1>8 DEF Lo
<1> QED  BY <1>1, <1>2, <1>3, <1>4, <1>5, <1>6, <1>8, <1>9 DEF m, k

LEMMA MgrKeepsShaped ==
  ASSUME Steady, InTime, NEW s \in Manager, Flush(s) \/ StoreSession(s)
  PROVE  Shaped'
<1>0. Typed /\ Shaped
  BY DEF Steady
<1>1. CASE Flush(s)
  <2>1. UNCHANGED <<flushMap, flushCnt, xdrMap, xdrCnt, fl, wr>>
    BY <1>1 DEF Flush, flushQueue, xdrQueue
  <2> QED
    BY <1>0, <2>1 DEF Shaped, Row, RowCnt, Lo, XdrLo, FlCount, WrCount, InXdr, FlCell
<1>2. CASE StoreSession(s)
  <2> DEFINE idx == mgr[s].idx
             c == <<s, idx>>
             rec == <<s, Len(born[s])>>
  <2>1. /\ c \in Manager \X SlotIndex /\ idx \in SlotIndex
        /\ DOMAIN flushMap[c] = 0 .. flushCnt[c] - 1
        /\ idx = fl.last => Lo(s) = 0 /\ fl.pc = "poll"
        /\ flushMap'[c] = Stored(flushMap[c], flushCnt[c], rec)
        /\ \A d \in Manager \X SlotIndex : d # c => flushMap'[d] = flushMap[d] /\ flushCnt'[d] = flushCnt[d]
        /\ rec \in {s} \X (1 .. MaxRecs)
        /\ UNCHANGED <<xdrMap, xdrCnt, fl, wr>>
        /\ Dense(Row(s), RowCnt(s), fl.last, Lo(s))'
    BY <1>2, MgrPuts
  <2> HIDE DEF rec
  <2>2. ASSUME NEW t \in Manager
        PROVE  Dense(Row(t), RowCnt(t), fl.last, Lo(t))'
    <3>1. CASE t = s
      BY <2>1, <3>1
    <3>2. CASE t # s
      <4>1. \A i \in SlotIndex : <<t, i>> # c /\ <<t, i>> \in Manager \X SlotIndex
        BY <3>2
      <4>2. \A i \in SlotIndex : flushMap'[<<t, i>>] = flushMap[<<t, i>>] /\ flushCnt'[<<t, i>>] = flushCnt[<<t, i>>]
        BY <2>1, <4>1
      <4>3. Row(t)' = Row(t) /\ RowCnt(t)' = RowCnt(t)
        BY <4>2, RowStays
      <4>4. Dense(Row(t), RowCnt(t), fl.last, Lo(t))
        BY <1>0 DEF Shaped
      <4>5. Lo(t)' = Lo(t) /\ fl' = fl
        BY <2>1 DEF Lo
      <4> QED  BY <4>3, <4>4, <4>5
    <3> QED  BY <3>1, <3>2
  <2>3. Dense(xdrMap, xdrCnt, wr.last, XdrLo)'
    BY <1>0, <2>1 DEF Shaped, XdrLo
  <2>4. FlCount'
    <3>1. FlCell' = FlCell /\ fl' = fl /\ FlCell = <<fl.s, fl.last>> /\ FlCell \in Manager \X SlotIndex
      BY <1>0, <2>1, Types DEF FlCell
    <3>2. fl.pc \in FlWork => FlCell # c
      BY <2>1, <3>1 DEF FlWork
    <3>3. fl.pc \in FlWork => flushMap'[FlCell] = flushMap[FlCell] /\ flushCnt'[FlCell] = flushCnt[FlCell]
      BY <2>1, <3>1, <3>2
    <3> HIDE DEF c
    <3> QED  BY <1>0, <3>1, <3>3 DEF Shaped, FlCount, FlWork
  <2>5. WrCount' /\ InXdr' \subseteq Records
    BY <1>0, <2>1 DEF Shaped, WrCount, InXdr
  <2>6. ASSUME NEW t \in Manager, NEW i \in SlotIndex, NEW j \in DOMAIN flushMap'[<<t, i>>]
        PROVE  flushMap'[<<t, i>>][j] \in {t} \X (1 .. MaxRecs)
    <3>0. <<t, i>> \in Manager \X SlotIndex
      OBVIOUS
    <3>1. CASE <<t, i>> # c
      <4>1. flushMap'[<<t, i>>] = flushMap[<<t, i>>]
        BY <2>1, <3>0, <3>1
      <4> QED  BY <1>0, <2>6, <4>1 DEF Shaped
    <3>2. CASE <<t, i>> = c
      <4>1. t = s /\ i = idx
        BY <3>2
      <4>2. flushMap'[<<t, i>>] = Stored(flushMap[<<t, i>>], flushCnt[c], rec)
        BY <2>1, <3>2
      <4>3. j \in DOMAIN flushMap[<<t, i>>] \/ flushMap'[<<t, i>>][j] = rec
        BY <2>6, <4>2 DEF Stored
      <4>4. j \in DOMAIN flushMap[<<t, i>>] =>
              flushMap'[<<t, i>>][j] \in {rec, flushMap[<<t, i>>][j]}
        BY <4>2 DEF Stored
      <4>5. j \in DOMAIN flushMap[<<t, i>>] => flushMap[<<t, i>>][j] \in {t} \X (1 .. MaxRecs)
        BY <1>0 DEF Shaped
      <4>6. rec \in {t} \X (1 .. MaxRecs)
        BY <2>1, <4>1
      <4> QED  BY <4>3, <4>4, <4>5, <4>6, Zenon
    <3> QED  BY <3>1, <3>2
  <2> QED  BY <2>2, <2>3, <2>4, <2>5, <2>6 DEF Shaped
<1> QED  BY <1>1, <1>2

(* The flusher goes on to the next queue without having taken from this one. *)
LEMMA FlGoesOn ==
  ASSUME Steady, fl.pc # "poll", Lo(fl.s) = 0 \/ flushCnt[FlCell] = 0, fl' = FlNext
  PROVE  /\ \A t \in Manager : Lo(t)' = 0 /\ (t # fl.s => Lo(t) = 0)
         /\ FlCount'
<1>1. fl'.pc \in {"poll", "visit"}
  BY NextFields DEF Steady
<1>2. \A t \in Manager : Lo(t)' = 0 /\ (t # fl.s => Lo(t) = 0)
  BY <1>1 DEF Lo, FlWork
<1>3. FlCount'
  BY <1>1 DEF FlCount, FlWork
<1> QED  BY <1>2, <1>3

(* The flusher at work in one queue: fields of its state. *)
LEMMA FlWorks ==
  ASSUME Steady, FlBuild \/ FlIndex \/ FlStore
  PROVE  /\ fl'.last = fl.last /\ fl'.pos = fl.pos /\ fl'.s = fl.s /\ fl'.size = fl.size /\ fl'.i = fl.i
         /\ fl.pc \in {"build", "index", "store"} /\ fl'.pc \in {"index", "store", "erase"}
         /\ fl'.rec = flushMap[FlCell][fl.i]
         /\ fl'.pc = "erase" <=> FlStore
         /\ UNCHANGED <<now, flushMap, flushCnt, mgr, wr, file, born, toggles, writeXdr>>
         /\ \A t \in Manager : Lo(t)' = Lo(t)
         /\ \A t \in Manager : Pos(t)' = Pos(t)
         /\ FlCell' = FlCell
<1>0. Typed /\ ReadersBehind /\ Shaped /\ fl \in FlRows
  BY DEF Steady, Typed
<1>1. CASE FlBuild
  <2> DEFINE r == Found(flushMap[FlCell], fl.i, Phantom)
  <2>1. fl.pc = "build" /\ fl' = [fl EXCEPT !.pc = "index", !.rec = r, !.at = now]
        /\ UNCHANGED <<now, flushMap, flushCnt, mgr, wr, file, born, toggles, writeXdr>>
    BY <1>1 DEF FlBuild, flushQueue, history
  <2>2. r = flushMap[FlCell][fl.i]
    BY <1>0, <2>1, FlHead DEF Found
  <2> HIDE DEF r
  <2>3. /\ fl'.last = fl.last /\ fl'.pos = fl.pos /\ fl'.s = fl.s /\ fl'.size = fl.size /\ fl'.i = fl.i
        /\ fl'.pc = "index" /\ fl'.rec = r
    BY <1>0, <2>1 DEF FlRows
  <2>4. ~FlStore
    BY <2>1 DEF FlStore
  <2>5. \A t \in Manager : Lo(t)' = Lo(t)
    BY <2>1, <2>3 DEF Lo, FlWork
  <2> QED  BY <2>1, <2>2, <2>3, <2>4, <2>5 DEF Pos, FlCell
<1>2. CASE FlIndex
  <2> DEFINE x == WriteIndex(fl.at, now)
  <2>1. fl.pc = "index" /\ fl' = [fl EXCEPT !.pc = "store", !.idx = x]
        /\ UNCHANGED <<now, flushMap, flushCnt, mgr, wr, file, born, toggles, writeXdr>>
    BY <1>2 DEF FlIndex, flushQueue, history
  <2> HIDE DEF x
  <2>2. fl.rec = flushMap[FlCell][fl.i]
    BY <1>0, <2>1, FlHead
  <2>3. /\ fl'.last = fl.last /\ fl'.pos = fl.pos /\ fl'.s = fl.s /\ fl'.size = fl.size /\ fl'.i = fl.i
        /\ fl'.pc = "store" /\ fl'.rec = fl.rec
    BY <1>0, <2>1 DEF FlRows
  <2>4. ~FlStore
    BY <2>1 DEF FlStore
  <2>5. \A t \in Manager : Lo(t)' = Lo(t)
    BY <2>1, <2>3 DEF Lo, FlWork
  <2> QED  BY <2>1, <2>2, <2>3, <2>4, <2>5 DEF Pos, FlCell
<1>3. CASE FlStore
  <2>1. fl.pc = "store" /\ fl' = [fl EXCEPT !.pc = "erase"]
        /\ UNCHANGED <<now, flushMap, flushCnt, mgr, wr, file, born, toggles, writeXdr>>
    BY <1>3 DEF FlStore, flushQueue
  <2>2. fl.rec = flushMap[FlCell][fl.i]
    BY <1>0, <2>1, FlHead
  <2>3. /\ fl'.last = fl.last /\ fl'.pos = fl.pos /\ fl'.s = fl.s /\ fl'.size = fl.size /\ fl'.i = fl.i
        /\ fl'.pc = "erase" /\ fl'.rec = fl.rec
    BY <1>0, <2>1 DEF FlRows
  <2>5. \A t \in Manager : Lo(t)' = Lo(t)
    BY <2>1, <2>3 DEF Lo, FlWork
  <2> QED  BY <1>3, <2>1, <2>2, <2>3, <2>5 DEF Pos, FlCell
<1> QED  BY <1>1, <1>2, <1>3

LEMMA FlErases ==
  ASSUME Steady, FlErase
  PROVE  /\ fl'.last = fl.last /\ fl'.pos = fl.pos /\ fl'.s = fl.s /\ fl'.size = fl.size
         /\ fl'.i = fl.i + 1 /\ fl.pc = "erase"
         /\ fl'.pc = IF fl.i + 1 < fl.size THEN "build" ELSE "clear"
         /\ flushMap'[FlCell] = Erased(flushMap[FlCell], fl.i) /\ flushCnt'[FlCell] = flushCnt[FlCell] - 1
         /\ \A d \in Manager \X SlotIndex : d # FlCell => flushMap'[d] = flushMap[d] /\ flushCnt'[d] = flushCnt[d]
         /\ UNCHANGED <<now, writeXdr, xdrMap, xdrCnt, mgr, wr, file, born, off, astray, toggles>>
         /\ Lo(fl.s) = fl.i /\ Lo(fl.s)' = fl.i + 1
         /\ \A t \in Manager : t # fl.s => Lo(t) = 0 /\ Lo(t)' = 0
         /\ \A t \in Manager : Pos(t)' = Pos(t)
         /\ FlCell' = FlCell
<1> DEFINE p == IF fl.i + 1 < fl.size THEN "build" ELSE "clear"
           j == fl.i + 1
           m == Erased(flushMap[FlCell], fl.i)
           k == flushCnt[FlCell] - 1
<1>0. Typed /\ fl \in FlRows
  BY DEF Steady, Typed
<1>1. /\ fl.pc = "erase"
      /\ flushMap' = [flushMap EXCEPT ![FlCell] = m] /\ flushCnt' = [flushCnt EXCEPT ![FlCell] = k]
      /\ fl' = [fl EXCEPT !.pc = p, !.i = j]
      /\ UNCHANGED <<now, writeXdr, xdrMap, xdrCnt, mgr, wr, file, born, off, astray, toggles>>
  BY DEF FlErase, xdrQueue, history
<1>2. p \in {"build", "clear"}
  OBVIOUS
<1>3. FlCell \in Manager \X SlotIndex
  BY <1>0, Types
<1> HIDE DEF p, j, m, k
<1>4. /\ fl'.last = fl.last /\ fl'.pos = fl.pos /\ fl'.s = fl.s /\ fl'.size = fl.size
      /\ fl'.i = j /\ fl'.pc = p
  BY <1>0, <1>1 DEF FlRows
<1>5. /\ flushMap'[FlCell] = m /\ flushCnt'[FlCell] = k
      /\ \A d \in Manager \X SlotIndex : d # FlCell => flushMap'[d] = flushMap[d] /\ flushCnt'[d] = flushCnt[d]
  BY <1>0, <1>1, <1>3 DEF Typed
<1>6. /\ Lo(fl.s) = fl.i /\ Lo(fl.s)' = j
      /\ \A t \in Manager : t # fl.s => Lo(t) = 0 /\ Lo(t)' = 0
  BY <1>1, <1>2, <1>4 DEF Lo, FlWork
<1>7. FlCell' = FlCell /\ \A t \in Manager : Pos(t)' = Pos(t)
  BY <1>4 DEF FlCell, Pos
<1> QED  BY <1>1, <1>4, <1>5, <1>6, <1>7 DEF p, j, m, k

(* The flusher leaves a queue, which is empty now. *)
FlLeaves == (FlVisit /\ fl' = FlNext) \/ FlClear

LEMMA FlLeft ==
  ASSUME Steady, FlLeaves
  PROVE  /\ fl.pc \in {"visit", "clear"} /\ fl' = FlNext
         /\ flushCnt[FlCell] = 0 /\ DOMAIN flushMap[FlCell] = {} /\ DOMAIN flushMap'[FlCell] = {}
         /\ \A d \in Manager \X SlotIndex : /\ d # FlCell => flushMap'[d] = flushMap[d]
                                            /\ flushCnt'[d] = flushCnt[d]
         /\ UNCHANGED <<now, writeXdr, xdrMap, xdrCnt, mgr, wr, file, born, off, astray, toggles>>
         /\ \A t \in Manager : Lo(t)' = 0 /\ (t # fl.s => Lo(t) = 0)
         /\ FlCount'
<1>0. Typed /\ ReadersBehind /\ Shaped
  BY DEF Steady
<1>3. FlCell \in Manager \X SlotIndex /\ flushCnt[FlCell] \in Nat
  BY <1>0, Types
<1>d. Lo(fl.s) \in Nat /\ DOMAIN flushMap[FlCell] = Lo(fl.s) .. Lo(fl.s) + flushCnt[FlCell] - 1
  BY <1>0, FlSlot
<1>e. DOMAIN flushMap[FlCell] = {} <=> flushCnt[FlCell] = 0
  <2> DEFINE lo == Lo(fl.s)
             k == flushCnt[FlCell]
             D == DOMAIN flushMap[FlCell]
  <2>1. lo \in Nat /\ k \in Nat /\ D = lo .. lo + k - 1
    BY <1>3, <1>d
  <2> HIDE DEF lo, k, D
  <2>2. k > 0 => lo \in D
    BY <2>1
  <2>3. k = 0 => D = {}
    BY <2>1
  <2>4. D = {} <=> k = 0
    BY <2>1, <2>2, <2>3
  <2> QED  BY <2>4 DEF k, D
<1>1. CASE FlVisit /\ fl' = FlNext
  <2>1. /\ fl.pc = "visit"
        /\ DOMAIN flushMap[FlCell] = {} \/ fl'.pc = "build"
        /\ UNCHANGED <<now, writeXdr, flushMap, flushCnt, xdrMap, xdrCnt, mgr, wr, file, born, off, astray, toggles>>
    <3> DEFINE n == Cardinality(DOMAIN flushMap[FlCell])
    <3>1. /\ fl.pc = "visit"
          /\ DOMAIN flushMap[FlCell] = {} \/ fl' = [fl EXCEPT !.pc = "build", !.size = n, !.i = 0]
          /\ UNCHANGED <<now, writeXdr, flushMap, flushCnt, xdrMap, xdrCnt, mgr, wr, file, born, off, astray, toggles>>
      BY <1>1 DEF FlVisit, flushQueue, xdrQueue, history
    <3> HIDE DEF n
    <3>2. fl \in FlRows
      BY <1>0 DEF Typed
    <3> QED  BY <3>1, <3>2 DEF FlRows
  <2>2. fl'.pc # "build"
    BY <1>0, <1>1, <2>1, NextFields
  <2>3. DOMAIN flushMap[FlCell] = {}
    BY <2>1, <2>2
  <2>4. flushCnt[FlCell] = 0
    BY <1>e, <2>3
  <2>5. fl.pc # "poll"
    BY <2>1
  <2>6. (\A t \in Manager : Lo(t)' = 0 /\ (t # fl.s => Lo(t) = 0)) /\ FlCount'
    BY <1>1, <2>4, <2>5, FlGoesOn
  <2> QED  BY <1>1, <2>1, <2>3, <2>4, <2>6
<1>2. CASE FlClear
  <2>1. /\ fl.pc = "clear" /\ fl' = FlNext
        /\ flushMap' = [flushMap EXCEPT ![FlCell] = EmptyMap] /\ flushCnt' = [flushCnt EXCEPT ![FlCell] = 0]
        /\ UNCHANGED <<now, writeXdr, xdrMap, xdrCnt, mgr, wr, file, born, off, astray, toggles>>
    BY <1>2 DEF FlClear, xdrQueue, history
  <2>2. flushCnt[FlCell] = 0
    BY <1>0, <2>1 DEF Shaped, FlCount
  <2>3. flushMap'[FlCell] = EmptyMap /\ flushCnt'[FlCell] = 0
        /\ \A d \in Manager \X SlotIndex : d # FlCell => flushMap'[d] = flushMap[d] /\ flushCnt'[d] = flushCnt[d]
    BY <1>0, <1>3, <2>1 DEF Typed
  <2>4. DOMAIN flushMap'[FlCell] = {}
    BY <2>3 DEF EmptyMap
  <2>5. fl.pc # "poll"
    BY <2>1
  <2>6. (\A t \in Manager : Lo(t)' = 0 /\ (t # fl.s => Lo(t) = 0)) /\ FlCount'
    BY <2>1, <2>2, <2>5, FlGoesOn
  <2>7. \A d \in Manager \X SlotIndex : flushCnt'[d] = flushCnt[d]
    BY <2>2, <2>3
  <2> QED  BY <1>e, <2>1, <2>2, <2>3, <2>4, <2>6, <2>7
<1> QED  BY <1>1, <1>2 DEF FlLeaves

(* The flusher starts a slot or a queue. *)
FlStarts == FlPoll \/ (FlVisit /\ fl' # FlNext)

LEMMA FlStarted ==
  ASSUME Steady, FlStarts
  PROVE  /\ fl.pc \in {"poll", "visit"} /\ fl'.pc \in {"visit", "build"}
         /\ fl'.last = fl.last /\ fl'.pos = fl.pos /\ fl'.s = fl.s
         /\ UNCHANGED <<now, writeXdr, flushMap, flushCnt, xdrMap, xdrCnt, mgr, wr, file, born, off, astray, toggles>>
         /\ \A t \in Manager : Lo(t) = 0 /\ Lo(t)' = 0 /\ Pos(t)' = Pos(t)
         /\ FlCount'
<1>0. Typed /\ ReadersBehind /\ Shaped /\ fl \in FlRows
  BY DEF Steady, Typed
<1>1. CASE FlPoll
  <2>1. fl.pc = "poll" /\ fl' = [fl EXCEPT !.pc = "visit", !.cur = now]
        /\ UNCHANGED <<now, writeXdr, flushMap, flushCnt, xdrMap, xdrCnt, mgr, wr, file, born, off, astray, toggles>>
    BY <1>1 DEF FlPoll, flushQueue, xdrQueue, history
  <2>2. fl'.pc = "visit" /\ fl'.last = fl.last /\ fl'.pos = fl.pos /\ fl'.s = fl.s
    BY <1>0, <2>1 DEF FlRows
  <2>3. FlCount' /\ \A t \in Manager : Lo(t) = 0 /\ Lo(t)' = 0 /\ Pos(t)' = Pos(t)
    BY <2>1, <2>2 DEF FlCount, Lo, Pos, FlWork
  <2> QED  BY <2>1, <2>2, <2>3
<1>2. CASE FlVisit /\ fl' # FlNext
  <2> DEFINE D == DOMAIN flushMap[FlCell]
             n == Cardinality(D)
  <2>1. fl.pc = "visit" /\ fl' = [fl EXCEPT !.pc = "build", !.size = n, !.i = 0] /\ D # {}
        /\ UNCHANGED <<now, writeXdr, flushMap, flushCnt, xdrMap, xdrCnt, mgr, wr, file, born, off, astray, toggles>>
    BY <1>2 DEF FlVisit, flushQueue, xdrQueue, history
  <2>2. n = flushCnt[FlCell] /\ n > 0
    <3> DEFINE k == flushCnt[FlCell]
    <3>1. Lo(fl.s) = 0
      BY <2>1 DEF Lo, FlWork
    <3>2. D = 0 .. 0 + k - 1 /\ k \in Nat
      BY <1>0, <3>1, FlSlot, Types
    <3> HIDE DEF D, k
    <3>3. D = 0 .. k - 1
      BY <3>2
    <3>4. Cardinality(D) = IF 0 > k - 1 THEN 0 ELSE k - 1 - 0 + 1
      BY <3>2, <3>3, FS_Interval
    <3>5. Cardinality(D) = k
      BY <3>2, <3>4
    <3>6. k # 0
      BY <2>1, <3>2
    <3> QED  BY <3>2, <3>5, <3>6 DEF k
  <2> HIDE DEF D, n
  <2>3. fl'.pc = "build" /\ fl'.last = fl.last /\ fl'.pos = fl.pos /\ fl'.s = fl.s /\ fl'.size = n /\ fl'.i = 0
    BY <1>0, <2>1 DEF FlRows
  <2>4. \A t \in Manager : Lo(t) = 0 /\ Lo(t)' = 0 /\ Pos(t)' = Pos(t)
    BY <2>1, <2>3 DEF Lo, Pos, FlWork
  <2>5. FlCell' = FlCell /\ flushCnt' = flushCnt /\ flushCnt[FlCell] \in Nat
    BY <1>0, <2>1, <2>3, Types DEF FlCell
  <2>6. FlCount'
    BY <2>2, <2>3, <2>5 DEF FlCount
  <2> QED  BY <2>1, <2>3, <2>4, <2>6
<1> QED  BY <1>1, <1>2 DEF FlStarts

(* The flusher puts a line into the XDR map. *)
FlPuts == FlStore /\ writeXdr /\ fl.idx \in SlotIndex

LEMMA FlPut ==
  ASSUME Steady, InTime, FlPuts
  PROVE  /\ xdrCnt[fl.idx] \in Nat /\ xdrCnt[fl.idx] \notin DOMAIN xdrMap[fl.idx]
         /\ DOMAIN xdrMap[fl.idx] = 0 .. xdrCnt[fl.idx] - 1
         /\ fl.idx = wr.last => XdrLo = 0 /\ wr.pc = "poll"
         /\ xdrMap'[fl.idx] = Stored(xdrMap[fl.idx], xdrCnt[fl.idx], fl.rec)
         /\ xdrCnt'[fl.idx] = xdrCnt[fl.idx] + 1
         /\ \A i \in SlotIndex : i # fl.idx => xdrMap'[i] = xdrMap[i] /\ xdrCnt'[i] = xdrCnt[i]
         /\ fl.rec \in Records
         /\ UNCHANGED <<now, writeXdr, flushMap, flushCnt, mgr, wr, file, born, off, astray, toggles>>
         /\ Dense(xdrMap, xdrCnt, wr.last, XdrLo)'
<1> DEFINE m == Stored(xdrMap[fl.idx], xdrCnt[fl.idx], fl.rec)
           k == xdrCnt[fl.idx] + 1
<1>0. Typed /\ ReadersBehind /\ WritersAhead /\ Shaped /\ fl.idx \in SlotIndex
  BY DEF Steady, FlPuts
<1>1. /\ fl.pc = "store"
      /\ xdrMap' = [xdrMap EXCEPT ![fl.idx] = m] /\ xdrCnt' = [xdrCnt EXCEPT ![fl.idx] = k]
      /\ UNCHANGED <<now, writeXdr, flushMap, flushCnt, mgr, wr, file, born, off, astray, toggles>>
  BY <1>0 DEF FlPuts, FlStore, flushQueue
<1>2. fl.rec \in Records
  BY <1>0, <1>1, FlHead
<1>3. fl.idx = wr.last => XdrLo = 0 /\ wr.pc = "poll"
  <2>1. wr.pc # "poll" => fl.idx # wr.last
    BY <1>0, <1>1, FlAhead
  <2> QED  BY <2>1 DEF XdrLo, WrWork
<1> HIDE DEF m, k
<1>4. /\ xdrMap'[fl.idx] = m /\ xdrCnt'[fl.idx] = k
      /\ \A i \in SlotIndex : i # fl.idx => xdrMap'[i] = xdrMap[i] /\ xdrCnt'[i] = xdrCnt[i]
  BY <1>0, <1>1 DEF Typed
<1>5. xdrCnt' \in [SlotIndex -> Nat]
  BY FlKeepsTyped DEF FlPuts, FlStep, Typed
<1> DEFINE M == xdrMap
           n == xdrCnt
           M2 == xdrMap'
           n2 == xdrCnt'
           i == fl.idx
           at == wr.last
           lo == XdrLo
           x == fl.rec
<1>6. /\ Dense(M, n, at, lo) /\ lo \in Nat /\ at \in SlotIndex /\ i \in SlotIndex
      /\ i = at => lo = 0
      /\ n2 \in [SlotIndex -> Nat]
  BY <1>0, <1>3, <1>5, Types DEF Shaped, XdrLo
<1>7. n2[i] = n[i] + 1 /\ M2[i] = Stored(M[i], n[i], x)
  BY <1>4 DEF m, k
<1>8. \A j \in SlotIndex : j # i => M2[j] = M[j] /\ n2[j] = n[j]
  BY <1>4
<1>w. wr' = wr /\ XdrLo' = XdrLo
  BY <1>1 DEF XdrLo
<1> HIDE DEF M, n, M2, n2, i, at, lo, x
<1>9. Dense(M2, n2, at, lo)
  BY <1>6, <1>7, <1>8, DensePut
<1>10. n[i] \in Nat
  BY <1>0 DEF Typed, n, i
<1>11. DOMAIN M[i] = 0 .. n[i] - 1
  BY <1>6, <1>7, <1>8, DensePut
<1>12. n[i] \notin DOMAIN M[i]
  BY <1>6, <1>7, <1>8, DensePut
<1>13. Dense(xdrMap, xdrCnt, wr.last, XdrLo)'
  BY <1>9, <1>w DEF M2, n2, at, lo
<1> QED  BY <1>1, <1>2, <1>3, <1>7, <1>8, <1>10, <1>11, <1>12, <1>13 DEF M, n, M2, n2, i, at, lo, x

LEMMA FlKeepsShaped ==
  ASSUME Steady, InTime, FlStep
  PROVE  Shaped'
<1>0. Typed /\ ReadersBehind /\ WritersAhead /\ Shaped /\ Typed'
  BY FlKeepsTyped DEF Steady
<1>c. FlCell \in Manager \X SlotIndex /\ FlCell = <<fl.s, fl.last>> /\ fl.s \in Manager /\ fl.last \in SlotIndex
  BY <1>0, Types, FlSlot
<1>x. ASSUME UNCHANGED <<xdrMap, xdrCnt, wr>>
      PROVE  Dense(xdrMap, xdrCnt, wr.last, XdrLo)' /\ WrCount' /\ InXdr' \subseteq Records
  BY <1>0, <1>x DEF Shaped, XdrLo, WrCount, InXdr
<1>y. ASSUME UNCHANGED <<flushMap, flushCnt>>, fl'.last = fl.last, \A t \in Manager : Lo(t)' = Lo(t)
      PROVE  /\ \A t \in Manager : Dense(Row(t), RowCnt(t), fl.last, Lo(t))'
             /\ \A t \in Manager : \A i \in SlotIndex : \A j \in DOMAIN flushMap'[<<t, i>>] :
                  flushMap'[<<t, i>>][j] \in {t} \X (1 .. MaxRecs)
  <2>1. \A t \in Manager : Row(t)' = Row(t) /\ RowCnt(t)' = RowCnt(t)
    BY <1>y DEF Row, RowCnt
  <2>2. \A t \in Manager : Dense(Row(t), RowCnt(t), fl.last, Lo(t))
    BY <1>0 DEF Shaped
  <2>3. \A t \in Manager : Dense(Row(t), RowCnt(t), fl.last, Lo(t))'
    BY <1>y, <2>1, <2>2
  <2>4. flushMap' = flushMap
    BY <1>y
  <2> QED  BY <1>0, <2>3, <2>4 DEF Shaped
<1>1. CASE FlStarts
  <2>1. /\ UNCHANGED <<flushMap, flushCnt, xdrMap, xdrCnt, wr>> /\ FlCount'
        /\ fl'.last = fl.last /\ \A t \in Manager : Lo(t)' = Lo(t)
    BY <1>1, FlStarted
  <2> QED  BY <1>x, <1>y, <2>1 DEF Shaped
<1>2. CASE FlBuild \/ FlIndex \/ FlStore
  <2>1. /\ fl'.last = fl.last /\ fl'.size = fl.size /\ fl'.i = fl.i
        /\ fl.pc \in {"build", "index", "store"} /\ fl'.pc \in {"index", "store", "erase"}
        /\ fl'.rec = flushMap[FlCell][fl.i]
        /\ UNCHANGED <<flushMap, flushCnt, wr>>
        /\ \A t \in Manager : Lo(t)' = Lo(t)
        /\ FlCell' = FlCell
    BY <1>2, FlWorks
  <2>2. FlCount'
    <3>1. fl.i < fl.size /\ fl.size = fl.i + flushCnt[FlCell]
      BY <1>0, <2>1 DEF Shaped, FlCount, FlWork
    <3> QED  BY <2>1, <3>1 DEF FlCount
  <2>3. CASE UNCHANGED <<xdrMap, xdrCnt>>
    BY <1>x, <1>y, <2>1, <2>2, <2>3 DEF Shaped
  <2>4. CASE FlPuts
    <3>1. /\ Dense(xdrMap, xdrCnt, wr.last, XdrLo)'
          /\ fl.idx = wr.last => wr.pc = "poll"
          /\ xdrCnt[fl.idx] \notin DOMAIN xdrMap[fl.idx] /\ fl.idx \in SlotIndex
          /\ xdrMap'[fl.idx] = Stored(xdrMap[fl.idx], xdrCnt[fl.idx], fl.rec)
          /\ \A i \in SlotIndex : i # fl.idx => xdrMap'[i] = xdrMap[i]
      BY <2>4, FlPut DEF FlPuts
    <3>9. /\ \A i \in SlotIndex : i # fl.idx => xdrCnt'[i] = xdrCnt[i]
          /\ fl.rec \in Records
      BY <2>4, FlPut
    <3>2. Contents(xdrMap', SlotIndex) = Contents(xdrMap, SlotIndex) \cup {fl.rec}
      <4> DEFINE n == xdrCnt[fl.idx]
                 M2 == xdrMap'
      <4> HIDE DEF n, M2
      <4>1. M2[fl.idx] = Stored(xdrMap[fl.idx], n, fl.rec) /\ n \notin DOMAIN xdrMap[fl.idx]
            /\ (\A i \in SlotIndex : i # fl.idx => M2[i] = xdrMap[i])
        BY <3>1 DEF n, M2
      <4>2. Grown(xdrMap, M2, SlotIndex, fl.rec)
        BY <3>1, <4>1, ContentsStored
      <4> QED  BY <4>2 DEF M2, Grown
    <3>3. InXdr' = Contents(xdrMap', SlotIndex) /\ InXdr = Contents(xdrMap, SlotIndex)
      BY DEF InXdr, Contents
    <3>4. InXdr' \subseteq Records
      BY <1>0, <3>2, <3>3, <3>9 DEF Shaped
    <3>5. WrCount'
      <4>1. wr.pc \in {"write", "reset"} => xdrCnt'[wr.last] = xdrCnt[wr.last]
        BY <1>0, <3>1, <3>9, Types
      <4>2. wr' = wr
        BY <2>1
      <4> QED  BY <1>0, <4>1, <4>2 DEF Shaped, WrCount
    <3> QED  BY <1>y, <2>1, <2>2, <3>1, <3>4, <3>5 DEF Shaped
  <2>5. UNCHANGED <<xdrMap, xdrCnt>> \/ FlPuts
    BY <1>2 DEF FlBuild, FlIndex, FlStore, FlPuts, xdrQueue
  <2> QED  BY <2>3, <2>4, <2>5
<1>3. CASE FlErase
  <2>1. /\ fl'.last = fl.last /\ fl'.s = fl.s /\ fl'.size = fl.size
        /\ fl'.i = fl.i + 1 /\ fl.pc = "erase"
        /\ fl'.pc = IF fl.i + 1 < fl.size THEN "build" ELSE "clear"
        /\ flushMap'[FlCell] = Erased(flushMap[FlCell], fl.i) /\ flushCnt'[FlCell] = flushCnt[FlCell] - 1
    BY <1>3, FlErases
  <2>a. /\ \A d \in Manager \X SlotIndex : d # FlCell => flushMap'[d] = flushMap[d] /\ flushCnt'[d] = flushCnt[d]
        /\ UNCHANGED <<xdrMap, xdrCnt, wr>>
        /\ Lo(fl.s) = fl.i /\ Lo(fl.s)' = fl.i + 1
        /\ \A t \in Manager : t # fl.s => Lo(t) = 0 /\ Lo(t)' = 0
        /\ FlCell' = FlCell
    BY <1>3, FlErases
  <2>2. flushCnt[FlCell] > 0 /\ flushCnt[FlCell] \in Nat /\ fl.i \in Nat
    BY <1>0, <2>1, FlHead, Types
  <2>3. ASSUME NEW t \in Manager PROVE Dense(Row(t), RowCnt(t), fl.last, Lo(t))'
    <3>0. Dense(Row(t), RowCnt(t), fl.last, Lo(t))
      BY <1>0 DEF Shaped
    <3>1. CASE t = fl.s
      <4> DEFINE M == Row(t)
                 n == RowCnt(t)
                 M2 == Row(t)'
                 n2 == RowCnt(t)'
                 at == fl.last
                 lo == fl.i
      <4>1. Dense(M, n, at, lo) /\ at \in SlotIndex /\ lo \in Nat
        BY <1>c, <2>2, <2>a, <3>0, <3>1
      <4>2. M[at] = flushMap[FlCell] /\ n[at] = flushCnt[FlCell]
        BY <1>c, <3>1 DEF Row, RowCnt
      <4>3. M2[at] = flushMap'[FlCell] /\ n2[at] = flushCnt'[FlCell]
        BY <1>c, <3>1 DEF Row, RowCnt
      <4>4. n2 \in [SlotIndex -> Nat]
        BY <1>0 DEF Typed, RowCnt
      <4>5. ASSUME NEW j \in SlotIndex, j # at PROVE M2[j] = M[j] /\ n2[j] = n[j]
        <5>1. <<t, j>> \in Manager \X SlotIndex /\ <<t, j>> # FlCell
          BY <1>c, <4>5
        <5>2. flushMap'[<<t, j>>] = flushMap[<<t, j>>] /\ flushCnt'[<<t, j>>] = flushCnt[<<t, j>>]
          BY <2>a, <5>1
        <5> QED  BY <5>2 DEF Row, RowCnt
      <4>6. n[at] > 0 /\ n2[at] = n[at] - 1 /\ M2[at] = Erased(M[at], lo)
        BY <2>1, <2>2, <4>2, <4>3
      <4> HIDE DEF M, n, M2, n2, at, lo
      <4>7. Dense(M2, n2, at, lo + 1)
        BY <4>1, <4>4, <4>5, <4>6, DenseTake
      <4>8. at = fl'.last /\ lo + 1 = Lo(t)'
        BY <2>1, <2>a, <3>1 DEF at, lo
      <4> QED  BY <4>7, <4>8 DEF M2, n2
    <3>2. CASE t # fl.s
      <4>1. \A i \in SlotIndex : <<t, i>> # FlCell /\ <<t, i>> \in Manager \X SlotIndex
        BY <1>c, <3>2
      <4>2. \A i \in SlotIndex : flushMap'[<<t, i>>] = flushMap[<<t, i>>] /\ flushCnt'[<<t, i>>] = flushCnt[<<t, i>>]
        BY <2>a, <4>1
      <4>3. Row(t)' = Row(t) /\ RowCnt(t)' = RowCnt(t)
        BY <4>2, RowStays
      <4> QED  BY <2>1, <2>a, <3>0, <3>2, <4>3
    <3> QED  BY <3>1, <3>2
  <2>4. FlCount'
    <3>1. fl.i < fl.size /\ fl.size = fl.i + flushCnt[FlCell] /\ fl.size \in Nat
      BY <1>0, <2>1, Types DEF Shaped, FlCount, FlWork
    <3>2. fl.i + 1 < fl.size => fl.size = fl.i + 1 + (flushCnt[FlCell] - 1)
      BY <2>2, <3>1
    <3>3. ~(fl.i + 1 < fl.size) => flushCnt[FlCell] - 1 = 0
      BY <2>2, <3>1
    <3>4. flushCnt'[FlCell'] = flushCnt[FlCell] - 1
      BY <2>1, <2>a
    <3> QED  BY <2>1, <3>2, <3>3, <3>4 DEF FlCount, FlWork
  <2>5. ASSUME NEW t \in Manager, NEW i \in SlotIndex, NEW j \in DOMAIN flushMap'[<<t, i>>]
        PROVE  flushMap'[<<t, i>>][j] \in {t} \X (1 .. MaxRecs)
    <3>0. <<t, i>> \in Manager \X SlotIndex
      OBVIOUS
    <3>1. j \in DOMAIN flushMap[<<t, i>>] /\ flushMap'[<<t, i>>][j] = flushMap[<<t, i>>][j]
      <4>1. CASE <<t, i>> = FlCell
        <5>1. flushMap'[<<t, i>>] = Erased(flushMap[<<t, i>>], fl.i)
          BY <2>1, <4>1
        <5> QED  BY <2>5, <5>1 DEF Erased
      <4>2. CASE <<t, i>> # FlCell
        <5>1. flushMap'[<<t, i>>] = flushMap[<<t, i>>]
          BY <2>a, <3>0, <4>2
        <5> QED  BY <2>5, <5>1
      <4> QED  BY <4>1, <4>2
    <3> QED  BY <1>0, <3>1 DEF Shaped
  <2> QED  BY <1>x, <2>a, <2>3, <2>4, <2>5 DEF Shaped
<1>4. CASE FlLeaves
  <2>1. /\ flushCnt[FlCell] = 0 /\ DOMAIN flushMap[FlCell] = {} /\ DOMAIN flushMap'[FlCell] = {}
        /\ \A d \in Manager \X SlotIndex : /\ d # FlCell => flushMap'[d] = flushMap[d]
                                           /\ flushCnt'[d] = flushCnt[d]
        /\ UNCHANGED <<xdrMap, xdrCnt, wr>>
        /\ \A t \in Manager : Lo(t)' = 0 /\ (t # fl.s => Lo(t) = 0)
        /\ FlCount'
    BY <1>4, FlLeft
  <2>3. ASSUME NEW t \in Manager PROVE Dense(Row(t), RowCnt(t), fl.last, Lo(t))'
    <3>0. Dense(Row(t), RowCnt(t), fl.last, Lo(t))
      BY <1>0 DEF Shaped
    <3>1. RowCnt(t)' = RowCnt(t)
      BY <2>1 DEF RowCnt
    <3>2. Lo(t)' = 0
      BY <2>1
    <3> DEFINE M == Row(t)
               n == RowCnt(t)
               M2 == Row(t)'
               n2 == RowCnt(t)'
               at == fl.last
               at2 == fl'.last
               lo == Lo(t)
    <3>3. CASE t = fl.s
      <4>1. Dense(M, n, at, lo) /\ at \in SlotIndex /\ lo \in Nat /\ n2 = n
        BY <1>0, <1>c, <3>0, <3>1, Types DEF Lo
      <4>2. n[at] = 0 /\ DOMAIN M2[at] = {}
        BY <1>c, <2>1, <3>3 DEF Row, RowCnt
      <4>5. ASSUME NEW j \in SlotIndex, j # at PROVE M2[j] = M[j]
        <5>1. <<t, j>> \in Manager \X SlotIndex /\ <<t, j>> # FlCell
          BY <1>c, <4>5
        <5>2. flushMap'[<<t, j>>] = flushMap[<<t, j>>]
          BY <2>1, <5>1
        <5> QED  BY <5>2 DEF Row
      <4> HIDE DEF M, n, M2, n2, at, at2, lo
      <4>7. Dense(M2, n2, at2, 0)
        BY <4>1, <4>2, <4>5, DenseMoves
      <4> QED  BY <3>2, <4>7 DEF M2, n2, at2
    <3>4. CASE t # fl.s
      <4>1. \A i \in SlotIndex : <<t, i>> # FlCell /\ <<t, i>> \in Manager \X SlotIndex
        BY <1>c, <3>4
      <4>2. \A i \in SlotIndex : flushMap'[<<t, i>>] = flushMap[<<t, i>>] /\ flushCnt'[<<t, i>>] = flushCnt[<<t, i>>]
        BY <2>1, <4>1
      <4>3. Row(t)' = Row(t) /\ RowCnt(t)' = RowCnt(t)
        BY <4>2, RowStays
      <4>4. Lo(t) = 0
        BY <2>1, <3>4
      <4>5. Dense(M, n, at, 0)
        BY <3>0, <4>4
      <4>6. M2 = M /\ n2 = n
        BY <4>3
      <4> HIDE DEF M, n, M2, n2, at, at2, lo
      <4>7. Dense(M, n, at2, 0)
        BY <4>5, DenseTurn
      <4>8. Dense(M2, n2, at2, 0)
        BY <4>6, <4>7
      <4> QED  BY <3>2, <4>8 DEF M2, n2, at2
    <3> QED  BY <3>3, <3>4
  <2>5. ASSUME NEW t \in Manager, NEW i \in SlotIndex, NEW j \in DOMAIN flushMap'[<<t, i>>]
        PROVE  flushMap'[<<t, i>>][j] \in {t} \X (1 .. MaxRecs)
    <3>0. <<t, i>> \in Manager \X SlotIndex
      OBVIOUS
    <3>1. <<t, i>> # FlCell
      BY <2>1, <2>5
    <3>2. flushMap'[<<t, i>>] = flushMap[<<t, i>>]
      BY <2>1, <3>0, <3>1
    <3> QED  BY <1>0, <2>5, <3>2 DEF Shaped
  <2> QED  BY <1>x, <2>1, <2>3, <2>5 DEF Shaped
<1> QED  BY <1>1, <1>2, <1>3, <1>4 DEF FlStep, FlStarts, FlLeaves

(* The same for the writer. *)
LEMMA WrStarted ==
  ASSUME Steady, WrPoll \/ WrVisit
  PROVE  /\ wr'.last = wr.last /\ wr'.pos = wr.pos /\ XdrLo = 0 /\ XdrLo' = 0 /\ WrCount'
         /\ UNCHANGED <<now, writeXdr, flushMap, flushCnt, xdrMap, xdrCnt, mgr, fl, file, born, off, astray, toggles>>
<1>0. Typed /\ Shaped /\ wr \in WrRows
  BY DEF Steady, Typed
<1>1. CASE WrPoll
  <2>1. wr.pc = "poll" /\ wr' = [wr EXCEPT !.pc = "visit", !.cur = now]
        /\ UNCHANGED <<now, writeXdr, flushMap, flushCnt, xdrMap, xdrCnt, mgr, fl, file, born, off, astray, toggles>>
    BY <1>1 DEF WrPoll, flushQueue, xdrQueue, history
  <2>2. wr'.pc = "visit" /\ wr'.last = wr.last /\ wr'.pos = wr.pos
    BY <1>0, <2>1 DEF WrRows
  <2>3. XdrLo = 0 /\ XdrLo' = 0 /\ WrCount'
    BY <2>1, <2>2 DEF XdrLo, WrWork, WrCount
  <2> QED  BY <2>1, <2>2, <2>3
<1>2. CASE WrVisit
  <2> DEFINE D == DOMAIN xdrMap[wr.last]
             n == Cardinality(D)
             p == IF D = {} THEN "reset" ELSE "write"
             k == xdrCnt[wr.last]
  <2>1. wr.pc = "visit" /\ wr' = [wr EXCEPT !.pc = p, !.size = n, !.i = 0]
        /\ UNCHANGED <<now, writeXdr, flushMap, flushCnt, xdrMap, xdrCnt, mgr, fl, file, born, off, astray, toggles>>
    BY <1>2 DEF WrVisit, flushQueue, xdrQueue, history
  <2>a. XdrLo = 0 /\ wr.last \in SlotIndex
    BY <1>0, <2>1, Types DEF XdrLo, WrWork
  <2>b. k \in Nat /\ D = 0 .. 0 + k - 1
    <3>1. First(wr.last, XdrLo, wr.last) = 0
      BY <2>a DEF First
    <3> QED  BY <1>0, <2>a, <3>1 DEF Shaped, Dense, Typed
  <2> HIDE DEF D, k
  <2>c. D = 0 .. k - 1
    BY <2>b
  <2>d. n = IF 0 > k - 1 THEN 0 ELSE k - 1 - 0 + 1
    BY <2>b, <2>c, FS_Interval
  <2>e. n = k
    BY <2>b, <2>d
  <2>f. (p = "write" => k > 0) /\ (p = "reset" => k = 0) /\ p \in {"write", "reset"}
    BY <2>b, <2>c
  <2> HIDE DEF n, p
  <2>2. wr'.pc = p /\ wr'.last = wr.last /\ wr'.pos = wr.pos /\ wr'.size = n /\ wr'.i = 0
    BY <1>0, <2>1 DEF WrRows
  <2>3. XdrLo' = 0
    BY <2>2 DEF XdrLo
  <2>4. xdrCnt'[wr'.last] = k
    BY <2>1, <2>2 DEF k
  <2>5. WrCount'
    BY <2>2, <2>4, <2>b, <2>e, <2>f DEF WrCount
  <2> QED  BY <2>1, <2>2, <2>3, <2>5, <2>a
<1> QED  BY <1>1, <1>2

LEMMA WrTook ==
  ASSUME Steady, WrWrite
  PROVE  /\ wr'.last = wr.last /\ wr'.pos = wr.pos /\ wr.pc = "write"
         /\ XdrLo = wr.i /\ XdrLo' = wr.i + 1 /\ WrCount'
         /\ file' = Append(file, xdrMap[wr.last][wr.i])
         /\ xdrMap'[wr.last] = Erased(xdrMap[wr.last], wr.i) /\ xdrCnt'[wr.last] = xdrCnt[wr.last] - 1
         /\ \A i \in SlotIndex : i # wr.last => xdrMap'[i] = xdrMap[i] /\ xdrCnt'[i] = xdrCnt[i]
         /\ UNCHANGED <<now, writeXdr, flushMap, flushCnt, mgr, fl, born, off, astray, toggles>>
<1> DEFINE p == IF wr.i + 1 < wr.size THEN "write" ELSE "reset"
           j == wr.i + 1
           m == Erased(xdrMap[wr.last], wr.i)
           k == xdrCnt[wr.last] - 1
           r == Found(xdrMap[wr.last], wr.i, Phantom)
<1>0. Typed /\ Shaped /\ wr \in WrRows /\ wr.last \in SlotIndex /\ wr.i \in Nat /\ wr.size \in Nat
  BY Types DEF Steady, Typed
<1>1. /\ wr.pc = "write" /\ file' = Append(file, r)
      /\ xdrMap' = [xdrMap EXCEPT ![wr.last] = m] /\ xdrCnt' = [xdrCnt EXCEPT ![wr.last] = k]
      /\ wr' = [wr EXCEPT !.pc = p, !.i = j]
      /\ UNCHANGED <<now, writeXdr, flushMap, flushCnt, mgr, fl, born, off, astray, toggles>>
  BY DEF WrWrite, flushQueue, history
<1>2. r = xdrMap[wr.last][wr.i] /\ xdrCnt[wr.last] > 0 /\ xdrCnt[wr.last] \in Nat /\ XdrLo = wr.i
  BY <1>0, <1>1, WrHead DEF Found
<1>3. p \in {"write", "reset"} /\ (p = "write" <=> wr.i + 1 < wr.size)
  OBVIOUS
<1>4. wr.i < wr.size /\ wr.size = wr.i + xdrCnt[wr.last]
  BY <1>0, <1>1 DEF Shaped, WrCount
<1>5. /\ wr.i + 1 < wr.size => wr.size = wr.i + 1 + (xdrCnt[wr.last] - 1)
      /\ ~(wr.i + 1 < wr.size) => xdrCnt[wr.last] - 1 = 0
  BY <1>0, <1>2, <1>4
<1> HIDE DEF p, j, m, k, r
<1>6. wr'.last = wr.last /\ wr'.pos = wr.pos /\ wr'.pc = p /\ wr'.i = j /\ wr'.size = wr.size
  BY <1>0, <1>1 DEF WrRows
<1>7. /\ xdrMap'[wr.last] = m /\ xdrCnt'[wr.last] = k
      /\ \A i \in SlotIndex : i # wr.last => xdrMap'[i] = xdrMap[i] /\ xdrCnt'[i] = xdrCnt[i]
  BY <1>0, <1>1 DEF Typed
<1>8. XdrLo' = j
  BY <1>3, <1>6 DEF XdrLo, WrWork
<1>9. WrCount'
  BY <1>3, <1>5, <1>6, <1>7 DEF WrCount, j, k
<1> QED  BY <1>1, <1>2, <1>6, <1>7, <1>8, <1>9 DEF j, m, k

LEMMA WrLeft ==
  ASSUME Steady, WrReset
  PROVE  /\ wr.pc = "reset" /\ wr' = SlotDone(wr) /\ XdrLo' = 0 /\ WrCount'
         /\ xdrCnt[wr.last] = 0 /\ DOMAIN xdrMap[wr.last] = {} /\ DOMAIN xdrMap'[wr.last] = {}
         /\ xdrCnt' = xdrCnt /\ \A i \in SlotIndex : i # wr.last => xdrMap'[i] = xdrMap[i]
         /\ UNCHANGED <<now, writeXdr, flushMap, flushCnt, mgr, fl, file, born, off, astray, toggles>>
<1> DEFINE m == IF wr.size > 0 THEN EmptyMap ELSE xdrMap[wr.last]
<1>0. Typed /\ Shaped /\ wr.last \in SlotIndex /\ wr.i \in Nat
  BY Types DEF Steady
<1>1. /\ wr.pc = "reset"
      /\ xdrMap' = [xdrMap EXCEPT ![wr.last] = m] /\ xdrCnt' = [xdrCnt EXCEPT ![wr.last] = 0]
      /\ wr' = SlotDone(wr)
      /\ UNCHANGED <<now, writeXdr, flushMap, flushCnt, mgr, fl, file, born, off, astray, toggles>>
  BY DEF WrReset, flushQueue, history
<1>2. xdrCnt[wr.last] = 0
  BY <1>0, <1>1 DEF Shaped, WrCount
<1>3. DOMAIN xdrMap[wr.last] = {}
  <2>1. Dense(xdrMap, xdrCnt, wr.last, XdrLo) /\ XdrLo \in Nat
    BY <1>0 DEF Shaped, XdrLo
  <2> QED  BY <1>0, <1>2, <2>1, DenseEmpty
<1>4. DOMAIN m = {}
  BY <1>3 DEF EmptyMap
<1> HIDE DEF m
<1>5. xdrMap'[wr.last] = m /\ \A i \in SlotIndex : i # wr.last => xdrMap'[i] = xdrMap[i]
  BY <1>0, <1>1 DEF Typed
<1>6. xdrCnt' = xdrCnt
  BY <1>0, <1>1, <1>2 DEF Typed
<1>7. wr'.pc \in {"poll", "visit"}
  BY <1>0, <1>1, DoneFields
<1>8. XdrLo' = 0 /\ WrCount'
  BY <1>7 DEF XdrLo, WrCount, WrWork
<1> QED  BY <1>1, <1>2, <1>3, <1>4, <1>5, <1>6, <1>8

LEMMA WrKeepsShaped ==
  ASSUME Steady, WrStep
  PROVE  Shaped'
<1>0. Typed /\ Shaped /\ Typed' /\ wr.last \in SlotIndex
  BY WrKeepsTyped, Types DEF Steady
<1>a. UNCHANGED <<flushMap, flushCnt, fl>>
  BY DEF WrStep, WrPoll, WrSkip, WrVisit, WrWrite, WrReset, flushQueue
<1>b. /\ \A t \in Manager : Dense(Row(t), RowCnt(t), fl.last, Lo(t))'
      /\ FlCount'
      /\ \A t \in Manager : \A i \in SlotIndex : \A j \in DOMAIN flushMap'[<<t, i>>] :
           flushMap'[<<t, i>>][j] \in {t} \X (1 .. MaxRecs)
  <2>1. flushMap' = flushMap /\ flushCnt' = flushCnt /\ fl' = fl
    BY <1>a
  <2>2. FlCell' = FlCell /\ \A t \in Manager : Lo(t)' = Lo(t) /\ Row(t)' = Row(t) /\ RowCnt(t)' = RowCnt(t)
    BY <2>1 DEF FlCell, Lo, Row, RowCnt
  <2>3. \A t \in Manager : Dense(Row(t), RowCnt(t), fl.last, Lo(t))'
    BY <1>0, <2>1, <2>2 DEF Shaped
  <2>4. FlCount'
    BY <1>0, <2>1, <2>2 DEF Shaped, FlCount
  <2> QED  BY <1>0, <2>1, <2>3, <2>4 DEF Shaped
<1>c. Dense(xdrMap, xdrCnt, wr.last, XdrLo) /\ XdrLo \in Nat
  BY <1>0, Types DEF Shaped, XdrLo
<1>n. InXdr' = Contents(xdrMap', SlotIndex) /\ InXdr = Contents(xdrMap, SlotIndex)
  BY DEF InXdr, Contents
<1>1. CASE WrPoll \/ WrVisit
  <2>1. /\ wr'.last = wr.last /\ XdrLo = 0 /\ XdrLo' = 0 /\ WrCount' /\ UNCHANGED <<xdrMap, xdrCnt>>
    BY <1>1, WrStarted
  <2>2. Dense(xdrMap, xdrCnt, wr.last, XdrLo)'
    BY <1>c, <2>1
  <2>3. InXdr' \subseteq Records
    BY <1>0, <1>n, <2>1 DEF Shaped
  <2> QED  BY <1>b, <2>1, <2>2, <2>3 DEF Shaped
<1>2. CASE WrSkip
  <2>1. wr.pc = "visit" /\ wr' = SlotDone(wr) /\ UNCHANGED <<xdrMap, xdrCnt>>
    BY <1>2 DEF WrSkip, xdrQueue
  <2>2. wr'.pc \in {"poll", "visit"}
    BY <1>0, <2>1, DoneFields
  <2>3. XdrLo = 0 /\ XdrLo' = 0 /\ WrCount'
    BY <2>1, <2>2 DEF XdrLo, WrCount, WrWork
  <2>4. Dense(xdrMap, xdrCnt, wr'.last, 0)
    BY <1>c, <2>3, DenseTurn
  <2>5. Dense(xdrMap, xdrCnt, wr.last, XdrLo)'
    BY <2>1, <2>3, <2>4
  <2>6. InXdr' \subseteq Records
    BY <1>0, <1>n, <2>1 DEF Shaped
  <2> QED  BY <1>b, <2>3, <2>5, <2>6 DEF Shaped
<1>3. CASE WrWrite
  <2>1. /\ wr'.last = wr.last /\ wr.pc = "write" /\ XdrLo = wr.i /\ XdrLo' = wr.i + 1 /\ WrCount'
        /\ xdrMap'[wr.last] = Erased(xdrMap[wr.last], wr.i) /\ xdrCnt'[wr.last] = xdrCnt[wr.last] - 1
        /\ \A i \in SlotIndex : i # wr.last => xdrMap'[i] = xdrMap[i] /\ xdrCnt'[i] = xdrCnt[i]
    BY <1>3, WrTook
  <2>2. xdrCnt[wr.last] > 0 /\ wr.i \in DOMAIN xdrMap[wr.last]
    BY <1>0, <2>1, WrHead
  <2>3. Dense(xdrMap, xdrCnt, wr.last, XdrLo)'
    <3> DEFINE M == xdrMap
               n == xdrCnt
               M2 == xdrMap'
               n2 == xdrCnt'
               at == wr.last
               lo == XdrLo
    <3>1. Dense(M, n, at, lo) /\ at \in SlotIndex /\ lo \in Nat /\ n[at] > 0 /\ n2 \in [SlotIndex -> Nat]
      BY <1>0, <1>c, <2>2 DEF Typed
    <3>2. n2[at] = n[at] - 1 /\ M2[at] = Erased(M[at], lo)
      BY <2>1
    <3>3. \A i \in SlotIndex : i # at => M2[i] = M[i] /\ n2[i] = n[i]
      BY <2>1
    <3>4. XdrLo' = lo + 1 /\ wr'.last = at
      BY <2>1
    <3> HIDE DEF M, n, M2, n2, at, lo
    <3>5. Dense(M2, n2, at, lo + 1)
      BY <3>1, <3>2, <3>3, DenseTake
    <3> QED  BY <3>4, <3>5 DEF M2, n2
  <2>4. InXdr' \subseteq Records
    <3> DEFINE M2 == xdrMap'
               i == wr.i
    <3>1. M2[wr.last] = Erased(xdrMap[wr.last], i) /\ i \in DOMAIN xdrMap[wr.last]
          /\ \A d \in SlotIndex : d # wr.last => M2[d] = xdrMap[d]
      BY <2>1, <2>2
    <3> HIDE DEF M2, i
    <3>2. Grown(M2, xdrMap, SlotIndex, xdrMap[wr.last][i])
      BY <1>0, <3>1, ContentsErased
    <3>3. Contents(M2, SlotIndex) \subseteq Contents(xdrMap, SlotIndex)
      BY <3>2 DEF Grown
    <3> QED  BY <1>0, <1>n, <3>3 DEF Shaped, M2
  <2> QED  BY <1>b, <2>1, <2>3, <2>4 DEF Shaped
<1>4. CASE WrReset
  <2>1. /\ XdrLo' = 0 /\ WrCount'
        /\ xdrCnt[wr.last] = 0 /\ DOMAIN xdrMap[wr.last] = {} /\ DOMAIN xdrMap'[wr.last] = {}
        /\ xdrCnt' = xdrCnt /\ \A i \in SlotIndex : i # wr.last => xdrMap'[i] = xdrMap[i]
    BY <1>4, WrLeft
  <2>2. Dense(xdrMap, xdrCnt, wr.last, XdrLo)'
    <3> DEFINE M == xdrMap
               n == xdrCnt
               M2 == xdrMap'
               n2 == xdrCnt'
               at == wr.last
               at2 == wr'.last
               lo == XdrLo
    <3>1. Dense(M, n, at, lo) /\ at \in SlotIndex /\ lo \in Nat /\ n[at] = 0 /\ n2 = n
      BY <1>0, <1>c, <2>1
    <3>2. DOMAIN M2[at] = {} /\ \A k \in SlotIndex : k # at => M2[k] = M[k]
      BY <2>1
    <3> HIDE DEF M, n, M2, n2, at, at2, lo
    <3>3. Dense(M2, n2, at2, 0)
      BY <3>1, <3>2, DenseMoves
    <3> QED  BY <2>1, <3>3 DEF M2, n2, at2
  <2>3. InXdr' \subseteq Records
    <3> DEFINE M2 == xdrMap'
    <3>1. \A d \in SlotIndex : M2[d] = xdrMap[d] \/ (DOMAIN xdrMap[d] = {} /\ DOMAIN M2[d] = {})
      BY <2>1
    <3> HIDE DEF M2
    <3>2. Contents(M2, SlotIndex) = Contents(xdrMap, SlotIndex)
      BY <3>1, ContentsSame
    <3> QED  BY <1>0, <1>n, <3>2 DEF Shaped, M2
  <2> QED  BY <1>b, <2>1, <2>2, <2>3 DEF Shaped
<1> QED  BY <1>1, <1>2, <1>3, <1>4 DEF WrStep

LEMMA NextSteady ==
  ASSUME Steady, InTime, [XdrNext]_xdrVars
  PROVE  Steady'
<1>1. CASE XdrNext
  <2>1. ReadersBehind' /\ WritersAhead'
    BY <1>1, NextBehind, NextAhead
  <2>2. ASSUME NEW s \in Manager, Flush(s) \/ StoreSession(s) PROVE Typed' /\ Shaped'
    BY <2>2, MgrKeepsTyped, MgrKeepsShaped
  <2>3. CASE FlStep
    BY <2>1, <2>3, FlKeepsTyped, FlKeepsShaped DEF Steady
  <2>4. CASE WrStep
    BY <2>1, <2>4, WrKeepsTyped, WrKeepsShaped DEF Steady
  <2>5. CASE Toggle \/ NextSecond
    <3>1. UNCHANGED <<flushMap, flushCnt, xdrMap, xdrCnt, fl, wr>>
      BY <2>5 DEF Toggle, NextSecond, flushQueue, xdrQueue
    <3>2. Shaped'
      BY <3>1 DEF Steady, Shaped, Row, RowCnt, Lo, XdrLo, FlCount, WrCount, InXdr, FlCell
    <3>3. Typed'
      BY <2>5, OthersKeepTyped
    <3> QED  BY <2>1, <3>2, <3>3 DEF Steady
  <2> QED  BY <1>1, <2>1, <2>2, <2>3, <2>4, <2>5 DEF XdrNext, Steady
<1>2. CASE UNCHANGED xdrVars
  <2> USE <1>2 DEF xdrVars, flushQueue, xdrQueue, history
  <2>1. Typed'
    BY DEF Steady, Typed
  <2>2. ReadersBehind'
    BY DEF Steady, ReadersBehind
  <2>3. WritersAhead'
    BY DEF Steady, WritersAhead
  <2>4. Shaped'
    BY DEF Steady, Shaped, Row, RowCnt, Lo, XdrLo, FlCount, WrCount, InXdr, FlCell
  <2> QED  BY <2>1, <2>2, <2>3, <2>4 DEF Steady
<1> QED  BY <1>1, <1>2

-----------------------------------------------------------------------------
(* Where a record is once the flusher has dealt with it; Kept says that    *)
(* every record is somewhere, and that the flusher takes one out of its    *)
(* queue only then.                                                        *)
Placed == Written \cup InXdr \cup off \cup astray

Kept ==
  /\ Flushed = FlushHeld \cup InFlush \cup Placed
  /\ fl.pc = "erase" => fl.rec \in Placed

LEMMA KeptConserves == Kept => Conserved
<1>1. Held = FlushHeld \cup InFlush \cup InXdr
  BY DEF Held, FlushHeld, InFlush, InXdr
<1> QED  BY <1>1 DEF Kept, Placed, Conserved

LEMMA FlushCells ==
  ASSUME Typed, Typed'
  PROVE  /\ InFlush = Contents(flushMap, Manager \X SlotIndex)
         /\ InFlush' = Contents(flushMap', Manager \X SlotIndex)
<1>1. DOMAIN flushMap = Manager \X SlotIndex /\ DOMAIN flushMap' = Manager \X SlotIndex
  BY DEF Typed
<1> QED  BY <1>1 DEF InFlush, Contents

LEMMA LinesAfter ==
  ASSUME NEW r, NEW f \in Seq(Records), NEW g, g = Append(f, r)
  PROVE  {g[k] : k \in DOMAIN g} = {f[k] : k \in DOMAIN f} \cup {r}
<1>1. /\ Len(f) \in Nat /\ DOMAIN f = 1 .. Len(f) /\ DOMAIN g = 1 .. Len(f) + 1
      /\ g[Len(f) + 1] = r
      /\ \A k \in 1 .. Len(f) : g[k] = f[k]
  OBVIOUS
<1>2. \A k \in 1 .. Len(f) + 1 : k \in 1 .. Len(f) \/ k = Len(f) + 1
  BY <1>1
<1>3. 1 .. Len(f) \subseteq 1 .. Len(f) + 1 /\ Len(f) + 1 \in 1 .. Len(f) + 1
  BY <1>1
<1> DEFINE F == {f[k] : k \in DOMAIN f}
           G == {g[k] : k \in DOMAIN g}
<1>4. ASSUME NEW y \in G PROVE y \in F \cup {r}
  BY <1>1, <1>2
<1>5. ASSUME NEW y \in F \cup {r} PROVE y \in G
  BY <1>1, <1>3
<1> QED  BY <1>4, <1>5

(* A record is kept by a step that moves none of them. *)
LEMMA KeptStays ==
  ASSUME Kept, UNCHANGED <<born, off, astray, file>>,
         FlushHeld' = FlushHeld, InFlush' = InFlush, InXdr' = InXdr,
         fl'.pc = "erase" => fl.pc = "erase" /\ fl'.rec = fl.rec
  PROVE  Kept'
<1>1. Flushed' = Flushed
  BY DEF Flushed
<1>2. Placed' = Placed
  BY DEF Placed, Written
<1> QED  BY <1>1, <1>2 DEF Kept

LEMMA MgrKeeps ==
  ASSUME Steady, Kept, InTime, NEW s \in Manager, Flush(s) \/ StoreSession(s)
  PROVE  Kept'
<1>0. Typed /\ Typed'
  BY MgrKeepsTyped DEF Steady
<1>1. CASE Flush(s)
  <2> DEFINE x == <<s, Len(born[s]) + 1>>
             row == [pc |-> "store", at |-> now, idx |-> WriteIndex(now, now)]
             b == Append(born[s], now)
  <2>1. /\ mgr[s].pc = "idle" /\ Len(born[s]) < MaxRecs
        /\ mgr' = [mgr EXCEPT ![s] = row] /\ born' = [born EXCEPT ![s] = b]
        /\ UNCHANGED <<flushMap, xdrMap, fl, file, off, astray>>
    BY <1>1 DEF Flush, flushQueue, xdrQueue
  <2>2. /\ now \in Nat /\ born[s] \in Seq(Nat) /\ Len(born[s]) \in Nat
        /\ DOMAIN mgr = Manager /\ DOMAIN born = Manager
    BY <1>0, Types DEF Typed
  <2>3. row.pc = "store" /\ Len(b) = Len(born[s]) + 1
        /\ DOMAIN b = 1 .. Len(born[s]) + 1 /\ DOMAIN born[s] = 1 .. Len(born[s])
    BY <2>2
  <2> HIDE DEF row, b
  <2>4. /\ mgr'[s].pc = "store" /\ born'[s] = b
        /\ \A t \in Manager : t # s => mgr'[t] = mgr[t] /\ born'[t] = born[t]
    BY <2>1, <2>2, <2>3
  <2>5. FlushHeld' = FlushHeld \cup {x}
    <3>1. \A t \in Manager : t # s => (<<t, Len(born'[t])>> = <<t, Len(born[t])>> /\ mgr'[t].pc = mgr[t].pc)
      BY <2>4
    <3>2. <<s, Len(born'[s])>> = x
      BY <2>3, <2>4
    <3> HIDE DEF x
    <3>3. ASSUME NEW y \in FlushHeld' PROVE y \in FlushHeld \cup {x}
      <4>1. PICK t \in Manager : mgr'[t].pc = "store" /\ y = <<t, Len(born'[t])>>
        BY <3>3 DEF FlushHeld
      <4> QED  BY <3>1, <3>2, <4>1 DEF FlushHeld
    <3>4. ASSUME NEW y \in FlushHeld PROVE y \in FlushHeld'
      <4>1. PICK t \in Manager : mgr[t].pc = "store" /\ y = <<t, Len(born[t])>>
        BY <3>4 DEF FlushHeld
      <4>2. t # s
        BY <2>1, <4>1
      <4> QED  BY <3>1, <4>1, <4>2 DEF FlushHeld
    <3>5. x \in FlushHeld'
      BY <2>4, <3>2 DEF FlushHeld
    <3> QED  BY <3>3, <3>4, <3>5
  <2>6. Flushed' = Flushed \cup {x}
    <3>1. x \in Records /\ x[1] = s /\ x[2] = Len(born[s]) + 1
      BY <2>1, <2>2, SlotFacts DEF Records
    <3>2. DOMAIN born'[s] = DOMAIN born[s] \cup {x[2]}
      BY <2>2, <2>3, <2>4, <3>1
    <3>3. \A rec \in Records : rec[1] = s /\ rec[2] = x[2] => rec = x
      BY <3>1 DEF Records
    <3>4. \A rec \in Records : rec[1] \in Manager
      BY DEF Records
    <3> HIDE DEF x
    <3>5. \A rec \in Records : rec[2] \in DOMAIN born'[rec[1]] <=> (rec[2] \in DOMAIN born[rec[1]] \/ rec = x)
      <4> SUFFICES ASSUME NEW rec \in Records
                   PROVE  rec[2] \in DOMAIN born'[rec[1]] <=> (rec[2] \in DOMAIN born[rec[1]] \/ rec = x)
        OBVIOUS
      <4>1. CASE rec[1] = s
        BY <3>1, <3>2, <3>3, <4>1
      <4>2. CASE rec[1] # s
        BY <2>4, <3>1, <3>4, <4>2
      <4> QED  BY <4>1, <4>2
    <3> QED  BY <3>1, <3>5 DEF Flushed
  <2>7. InFlush' = InFlush /\ Placed' = Placed
    BY <2>1 DEF InFlush, InXdr, Placed, Written
  <2> HIDE DEF x
  <2> QED  BY <2>1, <2>5, <2>6, <2>7 DEF Kept
<1>2. CASE StoreSession(s)
  <2> DEFINE cell == <<s, mgr[s].idx>>
             rec == <<s, Len(born[s])>>
  <2>1. /\ mgr[s].pc = "store" /\ cell \in Manager \X SlotIndex
        /\ flushCnt[cell] \notin DOMAIN flushMap[cell]
        /\ flushMap'[cell] = Stored(flushMap[cell], flushCnt[cell], rec)
        /\ \A d \in Manager \X SlotIndex : d # cell => flushMap'[d] = flushMap[d]
        /\ mgr'[s].pc = "idle" /\ \A t \in Manager : t # s => mgr'[t] = mgr[t]
        /\ UNCHANGED <<xdrMap, fl, file, born, off, astray>>
    BY <1>2, MgrPuts
  <2>2. InFlush' = InFlush \cup {rec}
    <3> DEFINE Next2 == flushMap'
               k == flushCnt[cell]
               Cells == Manager \X SlotIndex
    <3>1. Next2[cell] = Stored(flushMap[cell], k, rec) /\ k \notin DOMAIN flushMap[cell] /\ cell \in Cells
          /\ \A d \in Cells : d # cell => Next2[d] = flushMap[d]
      BY <2>1
    <3> HIDE DEF Next2, k, rec, cell, Cells
    <3>2. Grown(flushMap, Next2, Cells, rec)
      BY <3>1, ContentsStored
    <3>3. InFlush = Contents(flushMap, Cells) /\ InFlush' = Contents(Next2, Cells)
      BY <1>0, FlushCells DEF Next2, Cells
    <3> QED  BY <3>2, <3>3 DEF Grown
  <2>3. FlushHeld = FlushHeld' \cup {rec}
    <3>1. \A t \in Manager : (t = s /\ mgr[t].pc = "store") \/ mgr'[t].pc = mgr[t].pc
      BY <2>1
    <3>2. \A t \in Manager : mgr'[t].pc = "store" => mgr[t].pc = "store"
      BY <2>1
    <3> QED  BY <2>1, <3>1, <3>2 DEF FlushHeld
  <2>4. Flushed' = Flushed /\ Placed' = Placed
    BY <2>1 DEF Flushed, InXdr, Placed, Written
  <2> HIDE DEF rec
  <2> QED  BY <2>1, <2>2, <2>3, <2>4 DEF Kept
<1> QED  BY <1>1, <1>2

LEMMA FlKeeps ==
  ASSUME Steady, Kept, InTime, FlStep
  PROVE  Kept'
<1>0. Typed /\ Typed' /\ ReadersBehind /\ Shaped
  BY FlKeepsTyped DEF Steady
<1>1. CASE FlBuild \/ FlIndex
  <2>1. fl'.pc # "erase" /\ UNCHANGED <<flushMap, mgr, file, born>>
    <3>1. UNCHANGED <<flushMap, mgr, file, born>> /\ (fl'.pc = "erase" <=> FlStore)
      BY <1>1, FlWorks
    <3>2. fl.pc # "store"
      BY <1>1 DEF FlBuild, FlIndex
    <3> QED  BY <3>1, <3>2 DEF FlStore
  <2>2. UNCHANGED <<xdrMap, off, astray>>
    BY <1>1 DEF FlBuild, FlIndex, xdrQueue, history
  <2>3. FlushHeld' = FlushHeld /\ InFlush' = InFlush /\ InXdr' = InXdr
    BY <2>1, <2>2 DEF FlushHeld, InFlush, InXdr
  <2> QED  BY <2>1, <2>2, <2>3, KeptStays
<1>2. CASE FlStore
  <2>1. /\ fl.pc = "store" /\ fl'.rec = flushMap[FlCell][fl.i] /\ UNCHANGED <<flushMap, mgr, file, born>>
    BY <1>2, FlWorks DEF FlStore
  <2>2. fl'.rec = fl.rec /\ fl.rec \in InFlush
    BY <1>0, <2>1, FlHead
  <2>3. Placed' = Placed \cup {fl.rec}
    <3>1. Written' = Written
      BY <2>1 DEF Written
    <3>2. CASE FlPuts
      <4>1. /\ xdrMap'[fl.idx] = Stored(xdrMap[fl.idx], xdrCnt[fl.idx], fl.rec)
            /\ xdrCnt[fl.idx] \notin DOMAIN xdrMap[fl.idx]
            /\ \A i \in SlotIndex : i # fl.idx => xdrMap'[i] = xdrMap[i]
            /\ UNCHANGED <<off, astray>> /\ fl.idx \in SlotIndex
        BY <3>2, FlPut DEF FlPuts
      <4> DEFINE M2 == xdrMap'
                 n == xdrCnt[fl.idx]
      <4> HIDE DEF M2, n
      <4>2. /\ M2[fl.idx] = Stored(xdrMap[fl.idx], n, fl.rec) /\ n \notin DOMAIN xdrMap[fl.idx]
            /\ \A d \in SlotIndex : d # fl.idx => M2[d] = xdrMap[d]
        BY <4>1 DEF M2, n
      <4>3. Grown(xdrMap, M2, SlotIndex, fl.rec)
        BY <4>1, <4>2, ContentsStored
      <4>4. InXdr' = Contents(M2, SlotIndex) /\ InXdr = Contents(xdrMap, SlotIndex)
        BY DEF M2, InXdr, Contents
      <4>5. InXdr' = InXdr \cup {fl.rec}
        BY <4>3, <4>4 DEF Grown
      <4> QED  BY <3>1, <4>1, <4>5 DEF Placed
    <3>3. CASE ~ FlPuts
      <4>1. xdrMap' = xdrMap /\ (\/ off' = off \cup {fl.rec} /\ astray' = astray
                                 \/ astray' = astray \cup {fl.rec} /\ off' = off)
        BY <1>2, <3>3 DEF FlStore, FlPuts, xdrQueue
      <4> QED  BY <3>1, <4>1 DEF Placed, InXdr
    <3> QED  BY <3>2, <3>3
  <2>4. FlushHeld' = FlushHeld /\ InFlush' = InFlush /\ Flushed' = Flushed
    BY <2>1 DEF FlushHeld, InFlush, Flushed
  <2> QED  BY <2>2, <2>3, <2>4 DEF Kept
<1>3. CASE FlErase
  <2>1. /\ fl.pc = "erase" /\ fl'.pc # "erase"
        /\ flushMap'[FlCell] = Erased(flushMap[FlCell], fl.i)
        /\ \A d \in Manager \X SlotIndex : d # FlCell => flushMap'[d] = flushMap[d]
        /\ UNCHANGED <<xdrMap, mgr, file, born, off, astray>>
    BY <1>3, FlErases
  <2>2. fl.i \in DOMAIN flushMap[FlCell] /\ fl.rec = flushMap[FlCell][fl.i] /\ FlCell \in Manager \X SlotIndex
    BY <1>0, <2>1, FlHead, Types
  <2>3. InFlush = InFlush' \cup {fl.rec}
    <3> DEFINE M2 == flushMap'
               i == fl.i
               C == Manager \X SlotIndex
    <3>1. /\ M2[FlCell] = Erased(flushMap[FlCell], i) /\ i \in DOMAIN flushMap[FlCell] /\ FlCell \in C
          /\ \A d \in C : d # FlCell => M2[d] = flushMap[d]
      BY <2>1, <2>2
    <3>2. flushMap[FlCell][i] = fl.rec
      BY <2>2
    <3> HIDE DEF M2, i, C
    <3>3. Grown(M2, flushMap, C, flushMap[FlCell][i])
      BY <3>1, ContentsErased
    <3>4. InFlush = Contents(flushMap, C) /\ InFlush' = Contents(M2, C)
      BY <1>0, FlushCells DEF M2, C
    <3> QED  BY <3>2, <3>3, <3>4 DEF Grown
  <2>4. FlushHeld' = FlushHeld /\ Flushed' = Flushed /\ Placed' = Placed
    BY <2>1 DEF FlushHeld, Flushed, Placed, InXdr, Written
  <2> QED  BY <2>1, <2>3, <2>4 DEF Kept
<1>4. CASE FlLeaves
  <2>1. /\ fl.pc \in {"visit", "clear"} /\ fl' = FlNext
        /\ DOMAIN flushMap[FlCell] = {} /\ DOMAIN flushMap'[FlCell] = {}
        /\ \A d \in Manager \X SlotIndex : d # FlCell => flushMap'[d] = flushMap[d]
        /\ UNCHANGED <<xdrMap, mgr, file, born, off, astray>>
    BY <1>4, FlLeft
  <2>2. fl'.pc # "erase"
    BY <1>0, <2>1, NextFields
  <2>3. InFlush' = InFlush
    <3> DEFINE M2 == flushMap'
    <3>1. \A d \in Manager \X SlotIndex :
            M2[d] = flushMap[d] \/ (DOMAIN flushMap[d] = {} /\ DOMAIN M2[d] = {})
      BY <2>1
    <3> HIDE DEF M2
    <3>2. Contents(M2, Manager \X SlotIndex) = Contents(flushMap, Manager \X SlotIndex)
      BY <3>1, ContentsSame
    <3> QED  BY <1>0, <3>2, FlushCells DEF M2
  <2>4. FlushHeld' = FlushHeld /\ InXdr' = InXdr
    BY <2>1 DEF FlushHeld, InXdr
  <2> QED  BY <2>1, <2>2, <2>3, <2>4, KeptStays
<1>5. CASE FlStarts
  <2>1. fl'.pc # "erase" /\ UNCHANGED <<flushMap, xdrMap, mgr, file, born, off, astray>>
    BY <1>5, FlStarted
  <2>2. FlushHeld' = FlushHeld /\ InFlush' = InFlush /\ InXdr' = InXdr
    BY <2>1 DEF FlushHeld, InFlush, InXdr
  <2> QED  BY <2>1, <2>2, KeptStays
<1> QED  BY <1>1, <1>2, <1>3, <1>4, <1>5 DEF FlStep, FlStarts, FlLeaves

LEMMA WrKeeps ==
  ASSUME Steady, Kept, WrStep
  PROVE  Kept'
<1>0. Typed /\ Typed' /\ Shaped /\ wr.last \in SlotIndex
  BY WrKeepsTyped, Types DEF Steady
<1>1. UNCHANGED <<flushMap, mgr, fl, born, off, astray>>
  BY DEF WrStep, WrPoll, WrSkip, WrVisit, WrWrite, WrReset, flushQueue, history
<1>2. FlushHeld' = FlushHeld /\ InFlush' = InFlush /\ Flushed' = Flushed
  BY <1>1 DEF FlushHeld, InFlush, Flushed
<1>n. InXdr' = Contents(xdrMap', SlotIndex) /\ InXdr = Contents(xdrMap, SlotIndex)
  BY DEF InXdr, Contents
<1>3. CASE WrPoll \/ WrVisit \/ WrSkip
  <2>1. UNCHANGED <<xdrMap, file>>
    BY <1>3 DEF WrPoll, WrVisit, WrSkip, xdrQueue
  <2> QED  BY <1>1, <1>2, <1>n, <2>1, KeptStays
<1>4. CASE WrWrite
  <2> DEFINE r == xdrMap[wr.last][wr.i]
  <2>1. /\ wr.pc = "write" /\ file' = Append(file, r)
        /\ xdrMap'[wr.last] = Erased(xdrMap[wr.last], wr.i)
        /\ \A i \in SlotIndex : i # wr.last => xdrMap'[i] = xdrMap[i]
    BY <1>4, WrTook
  <2>2. wr.i \in DOMAIN xdrMap[wr.last]
    BY <1>0, <2>1, WrHead
  <2>3. InXdr = InXdr' \cup {r}
    <3> DEFINE M2 == xdrMap'
               i == wr.i
    <3>1. /\ M2[wr.last] = Erased(xdrMap[wr.last], i) /\ i \in DOMAIN xdrMap[wr.last]
          /\ \A d \in SlotIndex : d # wr.last => M2[d] = xdrMap[d]
      BY <2>1, <2>2
    <3> HIDE DEF M2, i
    <3>2. Grown(M2, xdrMap, SlotIndex, xdrMap[wr.last][i])
      BY <1>0, <3>1, ContentsErased
    <3>3. Contents(xdrMap, SlotIndex) = Contents(M2, SlotIndex) \cup {xdrMap[wr.last][i]}
      BY <3>2 DEF Grown
    <3> QED  BY <1>n, <3>3 DEF M2, i
  <2>4. Written' = Written \cup {r}
    <3> DEFINE g == file'
    <3>1. g = Append(file, r) /\ file \in Seq(Records)
      BY <1>0, <2>1 DEF Typed
    <3> HIDE DEF g, r
    <3>2. {g[k] : k \in DOMAIN g} = {file[k] : k \in DOMAIN file} \cup {r}
      BY <3>1, LinesAfter
    <3> QED  BY <3>2 DEF g, Written
  <2> HIDE DEF r
  <2>5. Placed' = Placed
    BY <1>1, <2>3, <2>4 DEF Placed
  <2> QED  BY <1>1, <1>2, <2>5 DEF Kept
<1>5. CASE WrReset
  <2>1. /\ DOMAIN xdrMap[wr.last] = {} /\ DOMAIN xdrMap'[wr.last] = {}
        /\ \A i \in SlotIndex : i # wr.last => xdrMap'[i] = xdrMap[i]
        /\ UNCHANGED file
    BY <1>5, WrLeft
  <2>2. InXdr' = InXdr
    <3> DEFINE M2 == xdrMap'
    <3>1. \A d \in SlotIndex : M2[d] = xdrMap[d] \/ (DOMAIN xdrMap[d] = {} /\ DOMAIN M2[d] = {})
      BY <2>1
    <3> HIDE DEF M2
    <3>2. Contents(M2, SlotIndex) = Contents(xdrMap, SlotIndex)
      BY <3>1, ContentsSame
    <3> QED  BY <1>n, <3>2 DEF M2
  <2> QED  BY <1>1, <1>2, <2>1, <2>2, KeptStays
<1> QED  BY <1>3, <1>4, <1>5 DEF WrStep

LEMMA NextKept ==
  ASSUME Steady, Kept, InTime, [XdrNext]_xdrVars
  PROVE  Kept'
<1>1. CASE XdrNext
  <2>1. ASSUME NEW s \in Manager, Flush(s) \/ StoreSession(s) PROVE Kept'
    BY <2>1, MgrKeeps
  <2>2. CASE Toggle \/ NextSecond
    <3>1. UNCHANGED <<flushMap, xdrMap, mgr, fl, file, born, off, astray>>
      BY <2>2 DEF Toggle, NextSecond, flushQueue, xdrQueue, history
    <3>2. FlushHeld' = FlushHeld /\ InFlush' = InFlush /\ InXdr' = InXdr
      BY <3>1 DEF FlushHeld, InFlush, InXdr
    <3> QED  BY <3>1, <3>2, KeptStays
  <2> QED  BY <1>1, <2>1, <2>2, FlKeeps, WrKeeps DEF XdrNext
<1>2. CASE UNCHANGED xdrVars
  <2>1. UNCHANGED <<flushMap, xdrMap, mgr, fl, file, born, off, astray>>
    BY <1>2 DEF xdrVars, flushQueue, xdrQueue, history
  <2>2. FlushHeld' = FlushHeld /\ InFlush' = InFlush /\ InXdr' = InXdr
    BY <2>1 DEF FlushHeld, InFlush, InXdr
  <2> QED  BY <2>1, <2>2, KeptStays
<1> QED  BY <1>1, <1>2

LEMMA InitKept == XdrInit => Kept
<1> SUFFICES ASSUME XdrInit PROVE Kept
  OBVIOUS
<1>1. /\ \A s \in Manager : born[s] = <<>> /\ mgr[s].pc = "idle"
      /\ \A c \in Manager \X SlotIndex : DOMAIN flushMap[c] = {}
      /\ DOMAIN flushMap = Manager \X SlotIndex
      /\ \A i \in SlotIndex : DOMAIN xdrMap[i] = {}
      /\ file = <<>> /\ off = {} /\ astray = {} /\ fl.pc = "poll"
  BY DEF XdrInit, EmptyMap
<1>2. Flushed = {}
  <2>1. \A rec \in Records : rec[1] \in Manager
    BY DEF Records
  <2>2. DOMAIN <<>> = {}
    OBVIOUS
  <2> QED  BY <1>1, <2>1, <2>2 DEF Flushed
<1>3. FlushHeld = {} /\ InFlush = {} /\ InXdr = {} /\ Written = {}
  BY <1>1 DEF FlushHeld, InFlush, InXdr, Written
<1> QED  BY <1>1, <1>2, <1>3 DEF Kept, Placed

-----------------------------------------------------------------------------
(* The queues of a session manager, seen as one: its records in the order  *)
(* it flushed them, each for the second after the one it was flushed in.   *)
Put(s) == IF mgr[s].pc = "store" THEN Len(born[s]) - 1 ELSE Len(born[s])

Recs(s) == [k \in Nat |-> <<s, k>>]

Secs(s) == [k \in Nat |-> born[s][k] + 1]

End(s) == IF mgr[s].pc = "store" THEN mgr[s].at + 2 ELSE now + 2

(* The flusher has placed t records, and has the last in hand or not.      *)
Waits(s) == IF fl.pc = "erase" /\ fl.s = s THEN 0 ELSE 1

Sorted(s, t) ==
  \E A : /\ Chain(Row(s), RowCnt(s), Pos(s), Lo(s), Recs(s), Secs(s), Put(s), A, End(s))
         /\ A[Pos(s)] + Lo(s) = t + Waits(s)

LEMMA SortedTypes ==
  ASSUME Steady, NEW s \in Manager
  PROVE  /\ Pos(s) \in Nat /\ Lo(s) \in Nat /\ Put(s) \in Nat /\ End(s) \in Nat
         /\ Waits(s) \in {0, 1} /\ RowCnt(s) \in [SlotIndex -> Nat]
         /\ Put(s) <= Len(born[s]) /\ Len(born[s]) \in Nat
         /\ now \in Nat /\ End(s) <= now + 2
<1>0. Typed /\ WritersAhead
  BY DEF Steady
<1>1. /\ fl.s \in Nat /\ s \in Nat /\ fl.pos \in Nat /\ fl.i \in Nat /\ now \in Nat
      /\ Len(born[s]) \in Nat /\ mgr[s].at \in Nat
  BY <1>0, Types
<1>2. mgr[s].pc = "store" => Len(born[s]) > 0 /\ mgr[s].at <= now
  BY <1>0 DEF WritersAhead
<1>3. RowCnt(s) \in [SlotIndex -> Nat]
  BY <1>0, RowFacts
<1>4. Pos(s) \in Nat /\ Lo(s) \in Nat /\ Waits(s) \in {0, 1}
  BY <1>1 DEF Pos, Lo, Waits
<1>5. Put(s) \in Nat /\ Put(s) <= Len(born[s])
  BY <1>1, <1>2 DEF Put
<1>6. End(s) \in Nat /\ End(s) <= now + 2
  BY <1>1, <1>2 DEF End
<1> QED  BY <1>1, <1>3, <1>4, <1>5, <1>6

LEMMA EndNext ==
  ASSUME Typed', NEW s \in Manager
  PROVE  End(s)' \in Nat
<1>1. now' \in Nat
  BY SlotFacts DEF Typed
<1>2. mgr'[s] \in MgrRows
  BY DEF Typed
<1>3. mgr'[s].at \in Nat
  BY <1>2 DEF MgrRows
<1>4. mgr'[s].at + 2 \in Nat /\ now' + 2 \in Nat
  <2> DEFINE a == mgr'[s].at
             b == now'
  <2>1. a \in Nat /\ b \in Nat
    BY <1>1, <1>3
  <2> HIDE DEF a, b
  <2>2. a + 2 \in Nat /\ b + 2 \in Nat
    BY <2>1
  <2> QED  BY <2>2 DEF a, b
<1>5. CASE mgr'[s].pc = "store"
  BY <1>4, <1>5 DEF End
<1>6. CASE mgr'[s].pc # "store"
  BY <1>4, <1>6 DEF End
<1> QED  BY <1>5, <1>6

LEMMA SortedStays ==
  ASSUME Steady, Steady', NEW s \in Manager, NEW t, NEW t2, Sorted(s, t),
         Row(s)' = Row(s), RowCnt(s)' = RowCnt(s), Pos(s)' = Pos(s), Lo(s)' = Lo(s),
         Put(s)' = Put(s), \A k \in 1 .. Put(s) : born'[s][k] = born[s][k],
         End(s) <= End(s)', t2 + Waits(s)' = t + Waits(s)
  PROVE  Sorted(s, t2)'
<1> DEFINE M == Row(s)
           n == RowCnt(s)
           pos == Pos(s)
           lo == Lo(s)
           L == Recs(s)
           D == Secs(s)
           N == Put(s)
           end == End(s)
           M2 == Row(s)'
           n2 == RowCnt(s)'
           D2 == Secs(s)'
           end2 == End(s)'
<1>1. pos \in Nat /\ end \in Nat /\ end2 \in Nat /\ end <= end2 /\ N \in Nat
  BY SortedTypes, EndNext DEF Steady
<1>2. PICK A : Chain(M, n, pos, lo, L, D, N, A, end) /\ A[pos] + lo = t + Waits(s)
  BY DEF Sorted
<1>3. \A i \in SlotIndex : M2[i] = M[i] /\ n2[i] = n[i]
  OBVIOUS
<1>4. \A k \in 1 .. N : L[k] = L[k] /\ D2[k] = D[k]
  BY <1>1 DEF Secs
<1>5. /\ pos = Pos(s)' /\ lo = Lo(s)' /\ L = Recs(s)' /\ N = Put(s)'
  BY DEF Recs
<1> HIDE DEF M, n, pos, lo, L, D, N, end, M2, n2, D2, end2
<1>6. Chain(M2, n2, pos, lo, L, D2, N, A, end2)
  BY <1>1, <1>2, <1>3, <1>4, ChainStays
<1>7. A[pos] + lo = t2 + Waits(s)'
  BY <1>2
<1> QED  BY <1>5, <1>6, <1>7 DEF Sorted, M2, n2, D2, end2

(* The record the flusher is at is the next one of its session manager.    *)
LEMMA SortedHead ==
  ASSUME Steady, fl.pc \in {"build", "index", "store"}, NEW t \in Nat, Sorted(fl.s, t)
  PROVE  /\ t + 1 \in 1 .. Put(fl.s)
         /\ flushMap[FlCell][fl.i] = <<fl.s, t + 1>>
         /\ born[fl.s][t + 1] + 1 = fl.pos
<1> DEFINE M == Row(fl.s)
           n == RowCnt(fl.s)
           pos == Pos(fl.s)
           lo == Lo(fl.s)
           L == Recs(fl.s)
           D == Secs(fl.s)
           N == Put(fl.s)
           end == End(fl.s)
<1>0. Typed /\ ReadersBehind /\ Shaped /\ fl.s \in Manager
  BY Types DEF Steady
<1>1. pos \in Nat /\ lo \in Nat /\ N \in Nat /\ n \in [SlotIndex -> Nat]
  BY <1>0, SortedTypes
<1>2. PICK A : Chain(M, n, pos, lo, L, D, N, A, end) /\ A[pos] + lo = t + Waits(fl.s)
  BY DEF Sorted
<1>3. pos = fl.pos /\ ReadIndex(pos) = fl.last /\ lo = fl.i /\ Waits(fl.s) = 1
      /\ n[fl.last] > 0 /\ M[fl.last] = flushMap[FlCell]
  BY <1>0, FlSlot, FlHead DEF Waits
<1>4. \A k \in Nat : L[k] = <<fl.s, k>> /\ D[k] = born[fl.s][k] + 1
  BY DEF Recs, Secs
<1> HIDE DEF M, n, pos, lo, L, D, N, end
<1>5. n[ReadIndex(pos)] > 0
  BY <1>3
<1>6. A[pos] + lo \in 1 .. N
  BY <1>1, <1>2, <1>5, ChainHead
<1>7. Entry(M, ReadIndex(pos), lo) = L[A[pos] + lo]
  BY <1>1, <1>2, <1>5, ChainHead
<1>8. D[A[pos] + lo] = pos
  BY <1>1, <1>2, <1>5, ChainHead
<1>9. A[pos] + lo = t + 1
  BY <1>2, <1>3
<1>10. t + 1 \in 1 .. N /\ L[t + 1] = flushMap[FlCell][fl.i] /\ D[t + 1] = fl.pos
  BY <1>3, <1>6, <1>7, <1>8, <1>9 DEF Entry
<1> QED  BY <1>4, <1>10 DEF N

LEMMA LaterFirst ==
  ASSUME NEW A \in [Nat -> Nat], NEW pos \in Nat, NEW q \in Lap(pos)
  PROVE  Later(A, q)[pos] = A[pos]
  BY LapFacts DEF Later

LEMMA MgrSorted ==
  ASSUME Steady, Steady', InTime, NEW u \in Manager, Flush(u) \/ StoreSession(u),
         NEW s \in Manager, NEW t \in Nat, Sorted(s, t)
  PROVE  Sorted(s, t)'
<1>0. Typed /\ WritersAhead /\ ReadersBehind
  BY DEF Steady
<1>1. CASE Flush(u)
  <2> DEFINE row == [pc |-> "store", at |-> now, idx |-> WriteIndex(now, now)]
             b == Append(born[u], now)
  <2>1. /\ mgr[u].pc = "idle" /\ mgr' = [mgr EXCEPT ![u] = row] /\ born' = [born EXCEPT ![u] = b]
        /\ UNCHANGED <<now, flushMap, flushCnt, fl>>
    BY <1>1 DEF Flush, flushQueue, xdrQueue
  <2>2. /\ now \in Nat /\ born[u] \in Seq(Nat) /\ Len(born[u]) \in Nat
        /\ DOMAIN mgr = Manager /\ DOMAIN born = Manager
    BY <1>0, Types DEF Typed
  <2>3. row.pc = "store" /\ row.at = now /\ Len(b) = Len(born[u]) + 1
        /\ \A k \in 1 .. Len(born[u]) : b[k] = born[u][k]
    BY <2>2
  <2> HIDE DEF row, b
  <2>4. /\ mgr'[u] = row /\ born'[u] = b
        /\ \A v \in Manager : v # u => mgr'[v] = mgr[v] /\ born'[v] = born[v]
    BY <2>1, <2>2
  <2>5. /\ Row(s)' = Row(s) /\ RowCnt(s)' = RowCnt(s) /\ Pos(s)' = Pos(s) /\ Lo(s)' = Lo(s)
        /\ Waits(s)' = Waits(s)
    BY <2>1 DEF Row, RowCnt, Pos, Lo, Waits
  <2>6. /\ Put(s)' = Put(s) /\ End(s)' = End(s)
        /\ \A k \in 1 .. Put(s) : born'[s][k] = born[s][k]
    <3>1. CASE s = u
      BY <2>1, <2>2, <2>3, <2>4, <3>1 DEF Put, End
    <3>2. CASE s # u
      BY <2>1, <2>4, <3>2 DEF Put, End
    <3> QED  BY <3>1, <3>2
  <2>7. End(s) <= End(s)'
    BY <2>6, SortedTypes
  <2> QED  BY <2>5, <2>6, <2>7, SortedStays
<1>2. CASE StoreSession(u) /\ s # u
  <2>1. /\ \A d \in Manager \X SlotIndex : d # <<u, mgr[u].idx>> => flushMap'[d] = flushMap[d] /\ flushCnt'[d] = flushCnt[d]
        /\ \A v \in Manager : v # u => mgr'[v] = mgr[v]
        /\ UNCHANGED <<now, fl, born>>
    BY <1>2, MgrPuts
  <2>2. Row(s)' = Row(s) /\ RowCnt(s)' = RowCnt(s)
    <3>1. \A i \in SlotIndex : flushMap'[<<s, i>>] = flushMap[<<s, i>>] /\ flushCnt'[<<s, i>>] = flushCnt[<<s, i>>]
      BY <1>2, <2>1
    <3> QED  BY <3>1, RowStays
  <2>3. /\ Pos(s)' = Pos(s) /\ Lo(s)' = Lo(s) /\ Waits(s)' = Waits(s)
        /\ Put(s)' = Put(s) /\ End(s)' = End(s) /\ \A k \in 1 .. Put(s) : born'[s][k] = born[s][k]
    BY <1>2, <2>1 DEF Pos, Lo, Waits, Put, End
  <2>4. End(s) <= End(s)'
    BY <2>3, SortedTypes
  <2> QED  BY <2>2, <2>3, <2>4, SortedStays
<1>3. CASE StoreSession(u) /\ s = u
  <2> DEFINE M == Row(s)
             n == RowCnt(s)
             pos == Pos(s)
             lo == Lo(s)
             L == Recs(s)
             D == Secs(s)
             N == Put(s)
             end == End(s)
             M2 == Row(s)'
             n2 == RowCnt(s)'
             end2 == End(s)'
             q == mgr[s].at + 1
             idx == mgr[s].idx
             rec == <<s, Len(born[s])>>
  <2>1. /\ mgr[s].pc = "store" /\ idx \in SlotIndex /\ <<s, idx>> \in Manager \X SlotIndex
        /\ flushCnt[<<s, idx>>] \in Nat /\ DOMAIN flushMap[<<s, idx>>] = 0 .. flushCnt[<<s, idx>>] - 1
        /\ flushMap'[<<s, idx>>] = Stored(flushMap[<<s, idx>>], flushCnt[<<s, idx>>], rec)
        /\ flushCnt'[<<s, idx>>] = flushCnt[<<s, idx>>] + 1
        /\ \A d \in Manager \X SlotIndex : d # <<s, idx>> => flushMap'[d] = flushMap[d] /\ flushCnt'[d] = flushCnt[d]
        /\ mgr'[s].pc = "idle"
        /\ UNCHANGED <<now, fl, born>>
    BY <1>3, MgrPuts
  <2>2. pos \in Nat /\ lo \in Nat /\ N \in Nat /\ n \in [SlotIndex -> Nat] /\ end \in Nat /\ end2 \in Nat
    BY SortedTypes, EndNext DEF Steady
  <2>3. PICK A : Chain(M, n, pos, lo, L, D, N, A, end) /\ A[pos] + lo = t + Waits(s)
    BY DEF Sorted
  <2>4. q \in Lap(pos) /\ idx = ReadIndex(q) /\ (q = pos => lo = 0) /\ q \in Nat
    <3>1. q \in Lap(pos) /\ idx = ReadIndex(q) /\ (fl.pc # "poll" => fl.pos < q) /\ mgr[s].at \in Nat
      BY <1>0, <2>1, MgrAhead
    <3>2. q = pos => lo = 0
      <4>1. lo # 0 => fl.pc # "poll" /\ s = fl.s
        BY DEF Lo, FlWork
      <4>2. s = fl.s => pos = fl.pos
        BY <1>0, Types DEF Pos
      <4>3. fl.pos \in Nat /\ (fl.pc # "poll" => fl.pos < q)
        BY <1>0, <3>1, Types
      <4> HIDE DEF q, pos, lo
      <4> QED  BY <4>1, <4>2, <4>3
    <3> QED  BY <3>1, <3>2
  <2>5. end <= q + 1 /\ q + 1 <= end2
    <3>1. mgr[s].at \in Nat /\ now \in Nat /\ mgr[s].at <= now
      BY <1>0, <2>1, Types DEF WritersAhead
    <3>2. end = mgr[s].at + 2 /\ end2 = now + 2
      BY <2>1 DEF End
    <3> QED  BY <3>1, <3>2
  <2>6. Len(born[s]) \in Nat /\ N = Len(born[s]) - 1 /\ Put(s)' = Len(born[s]) /\ Put(s)' = N + 1
    BY <1>0, <2>1, Types DEF Put
  <2>7. L[N + 1] = rec /\ D[N + 1] = q
    <3>1. born[s][Len(born[s])] = mgr[s].at
      BY <1>0, <2>1 DEF WritersAhead
    <3> QED  BY <2>6, <3>1 DEF Recs, Secs
  <2>8. \A i \in SlotIndex : i # idx => M2[i] = M[i] /\ n2[i] = n[i]
    <3> SUFFICES ASSUME NEW i \in SlotIndex, i # idx
                 PROVE  M2[i] = M[i] /\ n2[i] = n[i]
      OBVIOUS
    <3>1. flushMap'[<<s, i>>] = flushMap[<<s, i>>] /\ flushCnt'[<<s, i>>] = flushCnt[<<s, i>>]
      BY <2>1
    <3> QED  BY <3>1 DEF Row, RowCnt
  <2>9. /\ M[idx] = flushMap[<<s, idx>>] /\ n[idx] = flushCnt[<<s, idx>>]
        /\ M2[idx] = Stored(M[idx], n[idx], rec) /\ n2[idx] = n[idx] + 1
        /\ DOMAIN M[idx] = 0 .. n[idx] - 1 /\ n[idx] \in Nat
    <3>1. /\ M[idx] = flushMap[<<s, idx>>] /\ n[idx] = flushCnt[<<s, idx>>]
          /\ M2[idx] = flushMap'[<<s, idx>>] /\ n2[idx] = flushCnt'[<<s, idx>>]
      BY <2>1 DEF Row, RowCnt
    <3> QED  BY <2>1, <3>1
  <2>10. pos = Pos(s)' /\ lo = Lo(s)' /\ L = Recs(s)' /\ D = Secs(s)' /\ Waits(s)' = Waits(s)
    BY <2>1 DEF Pos, Lo, Recs, Secs, Waits
  <2> HIDE DEF M, n, pos, lo, L, D, N, end, M2, n2, end2, q, idx, rec
  <2>11. Added(M, n, M2, n2, ReadIndex(q), rec)
    BY <2>4, <2>8, <2>9 DEF Added
  <2>12. Agree(L, L, N) /\ Agree(D, D, N)
    BY DEF Agree
  <2>13. Put(s)' = N + 1 /\ L[Put(s)'] = rec /\ D[Put(s)'] = q
    BY <2>6, <2>7
  <2>14. Chain(M2, n2, pos, lo, L, D, Put(s)', Later(A, q), end2) /\ Later(A, q)[pos] = A[pos]
    <3> DEFINE N2 == Put(s)'
    <3>0. N2 = N + 1 /\ L[N2] = rec /\ D[N2] = q
      BY <2>13
    <3> HIDE DEF N2
    <3>1. Chain(M2, n2, pos, lo, L, D, N2, Later(A, q), end2)
      BY <2>2, <2>3, <2>4, <2>5, <2>11, <2>12, <3>0, ChainPut
    <3>2. A \in [Nat -> Nat]
      BY <2>3, Zenon DEF Chain
    <3>3. Later(A, q)[pos] = A[pos]
      BY <2>2, <2>4, <3>2, LaterFirst
    <3> QED  BY <3>1, <3>3 DEF N2
  <2>15. Later(A, q)[pos] + lo = t + Waits(s)'
    BY <2>3, <2>10, <2>14
  <2> QED  BY <2>10, <2>14, <2>15 DEF Sorted, M2, n2, end2
<1> QED  BY <1>1, <1>2, <1>3

LEMMA FlStoreSorted ==
  ASSUME Steady, Steady', FlStore, NEW s \in Manager, NEW t \in Nat, Sorted(s, t),
         NEW t2, t2 = IF s = fl.s THEN t + 1 ELSE t
  PROVE  Sorted(s, t2)'
<1>1. /\ fl'.s = fl.s /\ fl.pc = "store" /\ fl'.pc = "erase"
      /\ UNCHANGED <<now, flushMap, flushCnt, mgr, born>>
      /\ Lo(s)' = Lo(s) /\ Pos(s)' = Pos(s)
  <2>1. /\ fl'.s = fl.s /\ (fl'.pc = "erase" <=> FlStore)
        /\ UNCHANGED <<now, flushMap, flushCnt, mgr, born>>
        /\ Lo(s)' = Lo(s) /\ Pos(s)' = Pos(s)
    BY FlWorks
  <2> QED  BY <2>1 DEF FlStore
<1>2. /\ Row(s)' = Row(s) /\ RowCnt(s)' = RowCnt(s) /\ Put(s)' = Put(s) /\ End(s)' = End(s)
      /\ \A k \in 1 .. Put(s) : born'[s][k] = born[s][k]
  BY <1>1 DEF Row, RowCnt, Put, End
<1>3. t2 + Waits(s)' = t + Waits(s)
  BY <1>1 DEF Waits
<1>4. End(s) <= End(s)'
  BY <1>2, SortedTypes
<1> QED  BY <1>1, <1>2, <1>3, <1>4, SortedStays

LEMMA FlEraseSorted ==
  ASSUME Steady, Steady', FlErase, NEW s \in Manager, NEW t \in Nat, Sorted(s, t)
  PROVE  Sorted(s, t)'
<1>0. Typed /\ ReadersBehind /\ Shaped /\ fl.s \in Manager /\ FlCell \in Manager \X SlotIndex
      /\ FlCell = <<fl.s, fl.last>> /\ fl.last \in SlotIndex /\ fl.i \in Nat
  BY Types DEF Steady, FlCell
<1>1. /\ fl'.s = fl.s /\ fl.pc = "erase" /\ fl'.pc \in {"build", "clear"}
      /\ flushMap'[FlCell] = Erased(flushMap[FlCell], fl.i) /\ flushCnt'[FlCell] = flushCnt[FlCell] - 1
      /\ \A d \in Manager \X SlotIndex : d # FlCell => flushMap'[d] = flushMap[d] /\ flushCnt'[d] = flushCnt[d]
      /\ UNCHANGED <<now, mgr, born>>
      /\ Lo(fl.s) = fl.i /\ Lo(fl.s)' = fl.i + 1
      /\ s # fl.s => Lo(s) = 0 /\ Lo(s)' = 0
      /\ Pos(s)' = Pos(s)
  <2>1. fl'.pc = IF fl.i + 1 < fl.size THEN "build" ELSE "clear"
    BY FlErases
  <2> QED  BY <2>1, FlErases
<1>2. /\ Put(s)' = Put(s) /\ End(s)' = End(s) /\ Recs(s)' = Recs(s) /\ Secs(s)' = Secs(s)
      /\ \A k \in 1 .. Put(s) : born'[s][k] = born[s][k]
  BY <1>1 DEF Put, End, Recs, Secs
<1>3. Waits(s)' = 1 /\ Waits(s) = IF s = fl.s THEN 0 ELSE 1
  BY <1>1 DEF Waits
<1>4. CASE s # fl.s
  <2>1. Row(s)' = Row(s) /\ RowCnt(s)' = RowCnt(s)
    <3>1. \A i \in SlotIndex : flushMap'[<<s, i>>] = flushMap[<<s, i>>] /\ flushCnt'[<<s, i>>] = flushCnt[<<s, i>>]
      BY <1>0, <1>1, <1>4
    <3> QED  BY <3>1, RowStays
  <2>2. End(s) <= End(s)' /\ t + Waits(s)' = t + Waits(s)
    BY <1>2, <1>3, <1>4, SortedTypes
  <2> QED  BY <1>1, <1>2, <1>4, <2>1, <2>2, SortedStays
<1>5. CASE s = fl.s
  <2> DEFINE M == Row(s)
             n == RowCnt(s)
             pos == Pos(s)
             lo == Lo(s)
             L == Recs(s)
             D == Secs(s)
             N == Put(s)
             end == End(s)
             M2 == Row(s)'
             n2 == RowCnt(s)'
             lo2 == Lo(s)'
  <2>1. pos \in Nat /\ lo \in Nat /\ N \in Nat /\ n \in [SlotIndex -> Nat] /\ end \in Nat
    BY SortedTypes
  <2>2. PICK A : Chain(M, n, pos, lo, L, D, N, A, end) /\ A[pos] + lo = t + Waits(s)
    BY DEF Sorted
  <2>3. lo2 = lo + 1 /\ lo = fl.i
    BY <1>1, <1>5
  <2>4. Taken(M, n, M2, n2, ReadIndex(pos), lo)
    <3>1. /\ pos = fl.pos /\ ReadIndex(pos) = fl.last
          /\ M[fl.last] = flushMap[FlCell] /\ n[fl.last] = flushCnt[FlCell]
          /\ DOMAIN flushMap[FlCell] = Lo(fl.s) .. Lo(fl.s) + flushCnt[FlCell] - 1
      BY <1>0, <1>5, FlSlot
    <3>2. flushCnt[FlCell] > 0 /\ flushCnt[FlCell] \in Nat
      BY <1>0, <1>1, FlHead, Types
    <3>3. M2[fl.last] = flushMap'[FlCell] /\ n2[fl.last] = flushCnt'[FlCell]
      BY <1>0, <1>5 DEF Row, RowCnt
    <3>4. \A i \in SlotIndex : i # fl.last => M2[i] = M[i] /\ n2[i] = n[i]
      <4> SUFFICES ASSUME NEW i \in SlotIndex, i # fl.last
                   PROVE  M2[i] = M[i] /\ n2[i] = n[i]
        OBVIOUS
      <4>1. <<s, i>> \in Manager \X SlotIndex /\ <<s, i>> # FlCell
        BY <1>0, <1>5
      <4>2. flushMap'[<<s, i>>] = flushMap[<<s, i>>] /\ flushCnt'[<<s, i>>] = flushCnt[<<s, i>>]
        BY <1>1, <4>1
      <4> QED  BY <4>2 DEF Row, RowCnt
    <3>5. Lo(fl.s) = lo
      BY <1>5
    <3> HIDE DEF M, n, pos, lo, M2, n2
    <3> QED  BY <1>1, <2>3, <3>1, <3>2, <3>3, <3>4, <3>5 DEF Taken
  <2>5. t + 1 = A[pos] + lo2
    <3>1. A[pos] + lo = t + 0
      BY <1>3, <1>5, <2>2
    <3>2. A[pos] \in Nat
      <4>1. A \in [Nat -> Nat]
        BY <2>2, Zenon DEF Chain
      <4> QED  BY <2>1, <4>1
    <3> HIDE DEF pos, lo, lo2
    <3> QED  BY <2>1, <2>3, <3>1, <3>2
  <2>6. /\ pos = Pos(s)' /\ L = Recs(s)' /\ D = Secs(s)' /\ N = Put(s)' /\ end = End(s)'
    BY <1>1, <1>2
  <2> HIDE DEF M, n, pos, lo, L, D, N, end, M2, n2, lo2
  <2>7. Chain(M2, n2, pos, lo2, L, D, N, A, end)
    BY <2>1, <2>2, <2>3, <2>4, ChainTake
  <2>8. A[pos] + lo2 = t + Waits(s)'
    BY <1>3, <2>5
  <2> QED  BY <2>6, <2>7, <2>8 DEF Sorted, M2, n2, lo2
<1> QED  BY <1>4, <1>5

LEMMA FlLeaveSorted ==
  ASSUME Steady, Steady', InTime, FlLeaves, NEW s \in Manager, NEW t \in Nat, Sorted(s, t)
  PROVE  Sorted(s, t)'
<1>0. Typed /\ ReadersBehind /\ Shaped /\ fl.s \in Manager /\ FlCell \in Manager \X SlotIndex
      /\ FlCell = <<fl.s, fl.last>> /\ fl.last \in SlotIndex /\ fl.s \in Nat /\ s \in Nat /\ fl.pos \in Nat
  BY Types DEF Steady, FlCell
<1>1. /\ fl.pc \in {"visit", "clear"} /\ fl' = FlNext /\ flushCnt[FlCell] = 0
      /\ \A d \in Manager \X SlotIndex : d # FlCell => flushMap'[d] = flushMap[d]
      /\ \A d \in Manager \X SlotIndex : flushCnt'[d] = flushCnt[d]
      /\ UNCHANGED <<now, mgr, born>>
      /\ Lo(s)' = 0 /\ (s # fl.s => Lo(s) = 0)
  BY FlLeft
<1>2. /\ Put(s)' = Put(s) /\ End(s)' = End(s) /\ Recs(s)' = Recs(s) /\ Secs(s)' = Secs(s)
      /\ \A k \in 1 .. Put(s) : born'[s][k] = born[s][k]
  BY <1>1 DEF Put, End, Recs, Secs
<1>3. Waits(s)' = 1 /\ Waits(s) = 1
  <2>1. fl'.pc \in {"poll", "visit"}
    BY <1>0, <1>1, NextFields
  <2> QED  BY <1>1, <2>1 DEF Waits
<1>4. Pos(s)' = IF s = fl.s THEN fl.pos + 1 ELSE Pos(s)
  <2>1. CASE fl.s + 1 < Managers
    <3>1. fl'.s = fl.s + 1 /\ fl'.pos = fl.pos
      BY <1>0, <1>1, <2>1, NextFields
    <3> QED  BY <1>0, <3>1 DEF Pos
  <2>2. CASE ~ (fl.s + 1 < Managers)
    <3>1. fl'.s = 0 /\ fl'.pos = fl.pos + 1
      BY <1>0, <1>1, <2>2, NextFields
    <3>2. s <= fl.s
      BY <1>0, <2>2, SlotFacts DEF Manager
    <3> QED  BY <1>0, <3>1, <3>2 DEF Pos
  <2> QED  BY <2>1, <2>2
<1>5. CASE s # fl.s
  <2>1. Row(s)' = Row(s) /\ RowCnt(s)' = RowCnt(s)
    <3>1. \A i \in SlotIndex : flushMap'[<<s, i>>] = flushMap[<<s, i>>] /\ flushCnt'[<<s, i>>] = flushCnt[<<s, i>>]
      BY <1>0, <1>1, <1>5
    <3> QED  BY <3>1, RowStays
  <2>2. End(s) <= End(s)' /\ t + Waits(s)' = t + Waits(s) /\ Pos(s)' = Pos(s) /\ Lo(s)' = Lo(s)
    BY <1>1, <1>2, <1>3, <1>4, <1>5, SortedTypes
  <2> QED  BY <1>2, <2>1, <2>2, SortedStays
<1>6. CASE s = fl.s
  <2> DEFINE M == Row(s)
             n == RowCnt(s)
             pos == Pos(s)
             lo == Lo(s)
             L == Recs(s)
             D == Secs(s)
             N == Put(s)
             end == End(s)
             M2 == Row(s)'
             n2 == RowCnt(s)'
             pos2 == Pos(s)'
  <2>1. pos \in Nat /\ lo \in Nat /\ N \in Nat /\ n \in [SlotIndex -> Nat] /\ end \in Nat
    BY SortedTypes
  <2>2. PICK A : Chain(M, n, pos, lo, L, D, N, A, end) /\ A[pos] + lo = t + Waits(s)
    BY DEF Sorted
  <2>3. /\ pos = fl.pos /\ ReadIndex(pos) = fl.last
        /\ n[fl.last] = flushCnt[FlCell]
    BY <1>0, <1>6, FlSlot
  <2>4. pos2 = pos + 1
    BY <1>4, <1>6, <2>3
  <2>5. Left(M, n, M2, n2, ReadIndex(pos))
    <3>1. \A i \in SlotIndex : n2[i] = n[i] /\ (i # fl.last => M2[i] = M[i])
      <4> SUFFICES ASSUME NEW i \in SlotIndex
                   PROVE  n2[i] = n[i] /\ (i # fl.last => M2[i] = M[i])
        OBVIOUS
      <4>1. <<s, i>> \in Manager \X SlotIndex /\ (i # fl.last => <<s, i>> # FlCell)
        BY <1>0, <1>6
      <4>2. flushCnt'[<<s, i>>] = flushCnt[<<s, i>>] /\ (i # fl.last => flushMap'[<<s, i>>] = flushMap[<<s, i>>])
        BY <1>1, <4>1
      <4> QED  BY <4>2 DEF Row, RowCnt
    <3> HIDE DEF M, n, pos, M2, n2
    <3> QED  BY <1>1, <2>3, <3>1 DEF Left
  <2>6. end <= pos + Slots
    <3>1. end <= now + 2 /\ now \in Nat
      BY SortedTypes
    <3>2. now <= fl.pos + MaxLag
      BY <1>0 DEF ReadersBehind
    <3>3. pos \in Nat /\ end \in Nat /\ pos = fl.pos /\ MaxLag \in Nat /\ Slots \in Nat /\ MaxLag + 2 <= Slots
      BY <2>1, <2>3, SlotFacts DEF InTime
    <3> HIDE DEF end, pos
    <3> QED  BY <3>1, <3>2, <3>3
  <2>7. /\ L = Recs(s)' /\ D = Secs(s)' /\ N = Put(s)' /\ end = End(s)'
    BY <1>2
  <2> HIDE DEF M, n, pos, lo, L, D, N, end, M2, n2, pos2
  <2>8. Chain(M2, n2, pos2, 0, L, D, N, A, end)
    BY <2>1, <2>2, <2>4, <2>5, <2>6, ChainMoves
  <2>9. A[pos2] = A[pos] + lo
    BY <2>1, <2>2, <2>4, <2>5, <2>6, <2>8, ChainMoves
  <2>10. A[pos2] + 0 = t + Waits(s)'
    <3>1. A \in [Nat -> Nat] /\ pos2 \in Nat
      <4>1. A \in [Nat -> Nat]
        BY <2>2, Zenon DEF Chain
      <4> QED  BY <2>1, <2>4, <4>1
    <3>2. A[pos2] \in Nat
      BY <3>1
    <3>3. A[pos2] = t + 1
      BY <1>3, <2>2, <2>9
    <3> QED  BY <1>3, <3>2, <3>3
  <2> QED  BY <1>1, <2>7, <2>8, <2>10 DEF Sorted, M2, n2, pos2
<1> QED  BY <1>5, <1>6

LEMMA FlSorted ==
  ASSUME Steady, Steady', InTime, FlStep, ~ FlStore, NEW s \in Manager, NEW t \in Nat, Sorted(s, t)
  PROVE  Sorted(s, t)'
<1>1. CASE FlBuild \/ FlIndex \/ FlStarts
  <2>1. /\ UNCHANGED <<now, flushMap, flushCnt, mgr, born>>
        /\ Lo(s)' = Lo(s) /\ Pos(s)' = Pos(s) /\ Waits(s) = 1 /\ Waits(s)' = 1
    <3>1. CASE FlBuild \/ FlIndex
      <4>1. /\ fl'.pc # "erase" /\ fl.pc \in {"build", "index", "store"}
            /\ UNCHANGED <<now, flushMap, flushCnt, mgr, born>> /\ Lo(s)' = Lo(s) /\ Pos(s)' = Pos(s)
        BY <3>1, FlWorks
      <4> QED  BY <4>1 DEF Waits
    <3>2. CASE FlStarts
      <4>1. /\ fl'.pc # "erase" /\ fl.pc \in {"poll", "visit"}
            /\ UNCHANGED <<now, flushMap, flushCnt, mgr, born>> /\ Lo(s)' = Lo(s) /\ Pos(s)' = Pos(s)
        BY <3>2, FlStarted
      <4> QED  BY <4>1 DEF Waits
    <3> QED  BY <1>1, <3>1, <3>2
  <2>2. /\ Row(s)' = Row(s) /\ RowCnt(s)' = RowCnt(s) /\ Put(s)' = Put(s) /\ End(s)' = End(s)
        /\ \A k \in 1 .. Put(s) : born'[s][k] = born[s][k]
    BY <2>1 DEF Row, RowCnt, Put, End
  <2>3. End(s) <= End(s)' /\ t + Waits(s)' = t + Waits(s)
    BY <2>1, <2>2, SortedTypes
  <2> QED  BY <2>1, <2>2, <2>3, SortedStays
<1>2. CASE FlErase
  BY <1>2, FlEraseSorted
<1>3. CASE FlLeaves
  BY <1>3, FlLeaveSorted
<1> QED  BY <1>1, <1>2, <1>3 DEF FlStep, FlStarts, FlLeaves

LEMMA OthersSorted ==
  ASSUME Steady, Steady', UNCHANGED <<flushMap, flushCnt, mgr, fl, born>>, now <= now',
         NEW s \in Manager, NEW t \in Nat, Sorted(s, t)
  PROVE  Sorted(s, t)'
<1>1. /\ Row(s)' = Row(s) /\ RowCnt(s)' = RowCnt(s) /\ Put(s)' = Put(s)
      /\ Lo(s)' = Lo(s) /\ Pos(s)' = Pos(s) /\ Waits(s)' = Waits(s)
      /\ \A k \in 1 .. Put(s) : born'[s][k] = born[s][k]
  BY DEF Row, RowCnt, Put, Lo, Pos, Waits
<1>2. End(s) <= End(s)'
  <2>1. End(s) \in Nat /\ now \in Nat /\ now' \in Nat
    <3>1. now' \in 1 .. MaxTime
      BY DEF Steady, Typed
    <3> QED  BY <3>1, SortedTypes, SlotFacts
  <2>2. CASE mgr[s].pc = "store"
    <3>1. End(s)' = End(s)
      BY <2>2 DEF End
    <3> QED  BY <2>1, <3>1
  <2>3. CASE mgr[s].pc # "store"
    <3>1. End(s) = now + 2 /\ End(s)' = now' + 2
      BY <2>3 DEF End
    <3> DEFINE later == now'
               e == End(s)
               e2 == End(s)'
    <3>2. e = now + 2 /\ e2 = later + 2 /\ now <= later /\ now \in Nat /\ later \in Nat
      BY <2>1, <3>1
    <3> HIDE DEF later, e, e2
    <3>3. e <= e2
      BY <3>2
    <3> QED  BY <3>3 DEF e, e2
  <2> QED  BY <2>2, <2>3
<1>3. t + Waits(s)' = t + Waits(s)
  BY <1>1
<1> QED  BY <1>1, <1>2, <1>3, SortedStays

-----------------------------------------------------------------------------
(* The lines, in the XDR map or in the file.  Of each session manager they *)
(* are among the records the flusher has placed, so the one it stores next *)
(* is none of them.                                                        *)
Seen == Written \cup InXdr

Past(T) == \A rec \in Seen : rec[1] \in Manager /\ rec[2] \in 1 .. T[rec[1]]

Apiece(M) ==
  \A i, j \in SlotIndex : \A a \in DOMAIN M[i], b \in DOMAIN M[j] :
    M[i][a] = M[j][b] => i = j /\ a = b

Once ==
  /\ \A m, n \in DOMAIN file : file[m] = file[n] => m = n
  /\ Apiece(xdrMap)
  /\ Written \cap InXdr = {}

LEMMA ApieceStored ==
  ASSUME NEW M, Apiece(M), NEW c \in SlotIndex, NEW n, NEW x, NEW M2, n \notin DOMAIN M[c],
         M2[c] = Stored(M[c], n, x), \A d \in SlotIndex : d # c => M2[d] = M[d],
         x \notin Contents(M, SlotIndex)
  PROVE  Apiece(M2)
<1>1. /\ DOMAIN M2[c] = DOMAIN M[c] \cup {n} /\ M2[c][n] = x
      /\ \A i \in DOMAIN M[c] : M2[c][i] = M[c][i]
  BY DEF Stored
<1>2. \A i \in SlotIndex : \A a \in DOMAIN M2[i] :
        \/ i = c /\ a = n /\ M2[i][a] = x
        \/ a \in DOMAIN M[i] /\ M2[i][a] = M[i][a] /\ M2[i][a] # x
  <2> SUFFICES ASSUME NEW i \in SlotIndex, NEW a \in DOMAIN M2[i]
               PROVE  \/ i = c /\ a = n /\ M2[i][a] = x
                      \/ a \in DOMAIN M[i] /\ M2[i][a] = M[i][a] /\ M2[i][a] # x
    OBVIOUS
  <2>1. CASE i = c /\ a = n
    BY <1>1, <2>1
  <2>2. CASE ~ (i = c /\ a = n)
    <3>1. a \in DOMAIN M[i] /\ M2[i][a] = M[i][a]
      BY <1>1, <2>2
    <3>2. M[i][a] \in Contents(M, SlotIndex)
      BY <3>1 DEF Contents
    <3> QED  BY <3>1, <3>2
  <2> QED  BY <2>1, <2>2
<1> SUFFICES ASSUME NEW i \in SlotIndex, NEW j \in SlotIndex,
                    NEW a \in DOMAIN M2[i], NEW b \in DOMAIN M2[j], M2[i][a] = M2[j][b]
             PROVE  i = j /\ a = b
  BY DEF Apiece
<1> DEFINE y == M2[i][a]
<1>3. (i = c /\ a = n /\ y = x) \/ (a \in DOMAIN M[i] /\ y = M[i][a] /\ y # x)
  BY <1>2
<1>4. (j = c /\ b = n /\ y = x) \/ (b \in DOMAIN M[j] /\ y = M[j][b] /\ y # x)
  <2>1. M2[j][b] = y
    OBVIOUS
  <2>2. (j = c /\ b = n /\ M2[j][b] = x) \/ (b \in DOMAIN M[j] /\ M2[j][b] = M[j][b] /\ M2[j][b] # x)
    BY <1>2
  <2> HIDE DEF y
  <2> QED  BY <2>1, <2>2
<1> HIDE DEF y
<1>5. a \in DOMAIN M[i] /\ b \in DOMAIN M[j] /\ M[i][a] = M[j][b] => i = j /\ a = b
  BY DEF Apiece
<1> QED  BY <1>3, <1>4, <1>5

LEMMA ApieceErased ==
  ASSUME NEW M, Apiece(M), NEW c \in SlotIndex, NEW i \in DOMAIN M[c], NEW M2,
         M2[c] = Erased(M[c], i), \A d \in SlotIndex : d # c => M2[d] = M[d]
  PROVE  Apiece(M2) /\ M[c][i] \notin Contents(M2, SlotIndex)
<1>1. DOMAIN M2[c] = DOMAIN M[c] \ {i} /\ \A j \in DOMAIN M2[c] : M2[c][j] = M[c][j]
  BY DEF Erased
<1>2. \A d \in SlotIndex : \A a \in DOMAIN M2[d] :
        /\ a \in DOMAIN M[d] /\ M2[d][a] = M[d][a] /\ (d # c \/ a # i)
  BY <1>1
<1>3. Apiece(M2)
  BY <1>2 DEF Apiece
<1>4. ASSUME M[c][i] \in Contents(M2, SlotIndex) PROVE FALSE
  <2>1. PICK d \in SlotIndex : \E a \in DOMAIN M2[d] : M[c][i] = M2[d][a]
    BY <1>4 DEF Contents
  <2>2. PICK a \in DOMAIN M2[d] : M[c][i] = M2[d][a]
    BY <2>1
  <2>3. a \in DOMAIN M[d] /\ M[c][i] = M[d][a] /\ (d # c \/ a # i)
    BY <1>2, <2>2
  <2> QED  BY <2>3 DEF Apiece
<1> QED  BY <1>3, <1>4

LEMMA ApieceSame ==
  ASSUME NEW M, Apiece(M), NEW M2,
         \A d \in SlotIndex : M2[d] = M[d] \/ DOMAIN M2[d] = {}
  PROVE  Apiece(M2)
  BY DEF Apiece

(* What the flusher stores is a new line, the next of its session manager. *)
LEMMA FlPutNew ==
  ASSUME Steady, Once, InTime, NEW T \in [Manager -> Nat],
         \A s \in Manager : Sorted(s, T[s]), Past(T), FlStore
  PROVE  /\ fl.rec = <<fl.s, T[fl.s] + 1>> /\ fl.rec \notin Seen
         /\ T[fl.s] + 1 \in 1 .. Put(fl.s) /\ born[fl.s][T[fl.s] + 1] + 1 = fl.pos
<1>0. Typed /\ ReadersBehind /\ Shaped /\ fl.s \in Manager /\ fl.pc = "store"
  BY Types DEF Steady, FlStore
<1>1. T[fl.s] \in Nat /\ Sorted(fl.s, T[fl.s])
  BY <1>0
<1>2. /\ T[fl.s] + 1 \in 1 .. Put(fl.s)
      /\ flushMap[FlCell][fl.i] = <<fl.s, T[fl.s] + 1>>
      /\ born[fl.s][T[fl.s] + 1] + 1 = fl.pos
  BY <1>0, <1>1, SortedHead
<1>3. fl.rec = <<fl.s, T[fl.s] + 1>>
  BY <1>0, <1>2, FlHead
<1>4. fl.rec \notin Seen
  <2> SUFFICES ASSUME fl.rec \in Seen PROVE FALSE
    OBVIOUS
  <2>1. fl.rec[2] \in 1 .. T[fl.rec[1]]
    BY DEF Past
  <2>2. fl.rec[1] = fl.s /\ fl.rec[2] = T[fl.s] + 1
    BY <1>3
  <2>3. T[fl.s] + 1 \in 1 .. T[fl.s]
    BY <2>1, <2>2
  <2> QED  BY <1>1, <2>3
<1> QED  BY <1>2, <1>3, <1>4

LEMMA FlStoreOnce ==
  ASSUME Steady, Once, InTime, NEW T \in [Manager -> Nat],
         \A s \in Manager : Sorted(s, T[s]), Past(T), FlStore,
         NEW T2, T2 = [s \in Manager |-> IF s = fl.s THEN T[s] + 1 ELSE T[s]]
  PROVE  Once' /\ Past(T2)' /\ (FlPuts => Seen' = Seen \cup {fl.rec}) /\ (~ FlPuts => Seen' = Seen)
<1>0. /\ fl.rec = <<fl.s, T[fl.s] + 1>> /\ fl.rec \notin Seen
      /\ UNCHANGED <<file>> /\ fl.s \in Manager
  BY FlPutNew, FlWorks, Types DEF Steady
<1>1. Written' = Written /\ DOMAIN file' = DOMAIN file
  BY <1>0 DEF Written
<1>2. /\ Seen' = Seen \/ Seen' = Seen \cup {fl.rec}
      /\ Once'
      /\ (FlPuts => Seen' = Seen \cup {fl.rec}) /\ (~ FlPuts => Seen' = Seen)
  <2>1. CASE FlPuts
    <3>1. /\ xdrMap'[fl.idx] = Stored(xdrMap[fl.idx], xdrCnt[fl.idx], fl.rec)
          /\ xdrCnt[fl.idx] \notin DOMAIN xdrMap[fl.idx] /\ fl.idx \in SlotIndex
          /\ \A i \in SlotIndex : i # fl.idx => xdrMap'[i] = xdrMap[i]
      BY <2>1, FlPut DEF FlPuts
    <3> DEFINE M2 == xdrMap'
               n == xdrCnt[fl.idx]
    <3> HIDE DEF M2, n
    <3>2. /\ M2[fl.idx] = Stored(xdrMap[fl.idx], n, fl.rec) /\ n \notin DOMAIN xdrMap[fl.idx]
          /\ \A d \in SlotIndex : d # fl.idx => M2[d] = xdrMap[d]
      BY <3>1 DEF M2, n
    <3>3. Grown(xdrMap, M2, SlotIndex, fl.rec)
      BY <3>1, <3>2, ContentsStored
    <3>4. InXdr' = Contents(M2, SlotIndex) /\ InXdr = Contents(xdrMap, SlotIndex)
      BY DEF M2, InXdr, Contents
    <3>5. fl.rec \notin Contents(xdrMap, SlotIndex)
      BY <1>0, <3>4 DEF Seen
    <3>6. Apiece(M2)
      BY <3>1, <3>2, <3>5, ApieceStored DEF Once
    <3>7. InXdr' = InXdr \cup {fl.rec}
      BY <3>3, <3>4 DEF Grown
    <3>8. Seen' = Seen \cup {fl.rec} /\ Written' \cap InXdr' = {}
      BY <1>0, <1>1, <3>7 DEF Seen, Once
    <3> QED  BY <1>0, <1>1, <2>1, <3>6, <3>8 DEF Once, M2
  <2>2. CASE ~ FlPuts
    <3>1. xdrMap' = xdrMap
      BY <2>2 DEF FlStore, FlPuts, xdrQueue
    <3>2. Seen' = Seen
      BY <1>1, <3>1 DEF Seen, InXdr
    <3>3. Once'
      BY <1>0, <1>1, <3>1 DEF Once, InXdr
    <3> QED  BY <2>2, <3>2, <3>3
  <2> QED  BY <2>1, <2>2
<1>3. ASSUME NEW rec \in Seen' PROVE rec[1] \in Manager /\ rec[2] \in 1 .. T2[rec[1]]
  <2>1. \A s \in Manager : T[s] \in Nat /\ T2[s] = IF s = fl.s THEN T[s] + 1 ELSE T[s]
    OBVIOUS
  <2>2. CASE rec \in Seen
    <3>1. rec[1] \in Manager /\ rec[2] \in 1 .. T[rec[1]]
      BY <2>2 DEF Past
    <3>2. T[rec[1]] \in Nat /\ T2[rec[1]] \in Nat /\ T[rec[1]] <= T2[rec[1]]
      BY <2>1, <3>1
    <3> QED  BY <3>1, <3>2
  <2>3. CASE rec = fl.rec
    <3>1. rec[1] = fl.s /\ rec[2] = T[fl.s] + 1
      BY <1>0, <2>3
    <3>2. T[fl.s] \in Nat /\ T2[fl.s] = T[fl.s] + 1
      BY <1>0, <2>1
    <3> QED  BY <1>0, <3>1, <3>2
  <2> QED  BY <1>2, <1>3, <2>2, <2>3
<1> QED  BY <1>2, <1>3 DEF Past

LEMMA WrOnce ==
  ASSUME Steady, Once, WrStep
  PROVE  Once' /\ Seen' = Seen
<1>0. Typed /\ Shaped /\ wr.last \in SlotIndex
  BY Types DEF Steady
<1>n. InXdr' = Contents(xdrMap', SlotIndex) /\ InXdr = Contents(xdrMap, SlotIndex)
  BY DEF InXdr, Contents
<1>3. CASE WrPoll \/ WrVisit \/ WrSkip
  <2>1. UNCHANGED <<xdrMap, file>>
    BY <1>3 DEF WrPoll, WrVisit, WrSkip, xdrQueue
  <2> QED  BY <1>n, <2>1 DEF Once, Seen, Written
<1>4. CASE WrWrite
  <2> DEFINE r == xdrMap[wr.last][wr.i]
             M2 == xdrMap'
             i == wr.i
             g == file'
  <2>1. /\ wr.pc = "write" /\ g = Append(file, r)
        /\ M2[wr.last] = Erased(xdrMap[wr.last], i)
        /\ \A d \in SlotIndex : d # wr.last => M2[d] = xdrMap[d]
    BY <1>4, WrTook
  <2>2. i \in DOMAIN xdrMap[wr.last] /\ r \in InXdr /\ file \in Seq(Records) /\ r = xdrMap[wr.last][i]
    BY <1>0, <2>1, WrHead DEF Typed
  <2> HIDE DEF M2, i, g
  <2>3. Grown(M2, xdrMap, SlotIndex, xdrMap[wr.last][i])
    BY <1>0, <2>1, <2>2, ContentsErased
  <2>4. Apiece(M2)
    BY <1>0, <2>1, <2>2, ApieceErased DEF Once
  <2>5. xdrMap[wr.last][i] \notin Contents(M2, SlotIndex)
    BY <1>0, <2>1, <2>2, ApieceErased DEF Once
  <2>6. InXdr = InXdr' \cup {r} /\ r \notin InXdr'
    BY <1>n, <2>2, <2>3, <2>5 DEF Grown, M2
  <2> HIDE DEF r
  <2>7. {g[k] : k \in DOMAIN g} = {file[k] : k \in DOMAIN file} \cup {r}
    BY <2>1, <2>2, LinesAfter
  <2>8. Written' = Written \cup {r}
    BY <2>7 DEF Written, g
  <2>9. r \notin Written /\ Written' \cap InXdr' = {} /\ Seen' = Seen
    BY <2>2, <2>6, <2>8 DEF Once, Seen
  <2>10. ASSUME NEW m \in DOMAIN g, NEW n \in DOMAIN g, g[m] = g[n] PROVE m = n
    <3>1. /\ Len(file) \in Nat /\ DOMAIN file = 1 .. Len(file)
          /\ DOMAIN g = 1 .. Len(file) + 1 /\ g[Len(file) + 1] = r
          /\ \A k \in 1 .. Len(file) : g[k] = file[k]
      BY <2>1, <2>2
    <3>2. \A k \in DOMAIN g : (k \in DOMAIN file /\ g[k] = file[k]) \/ (k = Len(file) + 1 /\ g[k] = r)
      BY <3>1
    <3>3. \A k \in DOMAIN file : file[k] # r
      BY <2>9 DEF Written
    <3> QED  BY <2>10, <3>2, <3>3 DEF Once
  <2> QED  BY <2>4, <2>9, <2>10 DEF Once, M2, g
<1>5. CASE WrReset
  <2>1. /\ DOMAIN xdrMap[wr.last] = {} /\ DOMAIN xdrMap'[wr.last] = {}
        /\ \A i \in SlotIndex : i # wr.last => xdrMap'[i] = xdrMap[i]
        /\ UNCHANGED file
    BY <1>5, WrLeft
  <2> DEFINE M2 == xdrMap'
  <2>2. \A d \in SlotIndex : M2[d] = xdrMap[d] \/ (DOMAIN xdrMap[d] = {} /\ DOMAIN M2[d] = {})
    BY <2>1
  <2> HIDE DEF M2
  <2>3. Contents(M2, SlotIndex) = Contents(xdrMap, SlotIndex)
    BY <2>2, ContentsSame
  <2>4. Apiece(M2)
    BY <2>2, ApieceSame DEF Once
  <2>5. InXdr' = InXdr /\ Written' = Written
    BY <1>n, <2>1, <2>3 DEF M2, Written
  <2> QED  BY <2>1, <2>4, <2>5 DEF Once, Seen, M2
<1> QED  BY <1>3, <1>4, <1>5 DEF WrStep

(* No other step moves a line. *)
LEMMA OthersOnce ==
  ASSUME Once, UNCHANGED <<xdrMap, file>>
  PROVE  Once' /\ Seen' = Seen
  BY DEF Once, Seen, InXdr, Written

LEMMA PastStays ==
  ASSUME NEW T, Past(T), Seen' = Seen
  PROVE  Past(T)'
  BY DEF Past

-----------------------------------------------------------------------------
(* The XDR map seen as one queue, while writing stays on and no line goes  *)
(* astray.  L are the lines in the order they were stored, D the seconds   *)
(* they were stored for; the first ones are those in the file.             *)
Calm == astray = {} /\ toggles = 0

XdrEnd == IF fl.pc \in {"index", "store"} THEN fl.at + 2 ELSE now + 2

(* A line follows its session manager's line before, and was stored soon.  *)
InTurn(L, N, n) ==
  L[n][2] = 1 \/ \E m \in 1 .. N : m < n /\ L[m] = <<L[n][1], L[n][2] - 1>>

Soon(rec, d) ==
  /\ rec[1] \in Manager /\ rec[2] \in DOMAIN born[rec[1]]
  /\ d \in Nat /\ d <= born[rec[1]][rec[2]] + 2 + MaxLag

Lined(L, D, N) == \A n \in 1 .. N : InTurn(L, N, n) /\ Soon(L[n], D[n])

(* All the records the flusher has placed have a line. *)
AllLined(L, N, T) ==
  \A s \in Manager : \A k \in 1 .. T[s] : \E n \in 1 .. N : L[n] = <<s, k>>

Filed(f, L, N) == Len(f) <= N /\ \A k \in 1 .. Len(f) : f[k] = L[k]

Traced(T) ==
  \E L, D, N, X :
    /\ Chain(xdrMap, xdrCnt, wr.pos, XdrLo, L, D, N, X, XdrEnd)
    /\ X[wr.pos] + XdrLo = Len(file) + 1
    /\ Filed(file, L, N) /\ Lined(L, D, N) /\ AllLined(L, N, T)

LEMMA TracedTypes ==
  ASSUME Steady
  PROVE  /\ wr.pos \in Nat /\ XdrLo \in Nat /\ xdrCnt \in [SlotIndex -> Nat] /\ XdrEnd \in Nat
         /\ XdrEnd <= now + 2 /\ now \in Nat /\ file \in Seq(Records) /\ Len(file) \in Nat
         /\ wr.last \in SlotIndex /\ wr.last = ReadIndex(wr.pos) /\ now <= wr.pos + MaxLag
<1>0. Typed /\ WritersAhead /\ ReadersBehind
  BY DEF Steady
<1>1. /\ wr.pos \in Nat /\ wr.i \in Nat /\ now \in Nat /\ fl.at \in Nat /\ wr.last \in SlotIndex
  BY <1>0, Types
<1>2. xdrCnt \in [SlotIndex -> Nat] /\ file \in Seq(Records)
  BY <1>0 DEF Typed
<1>3. XdrLo \in Nat
  BY <1>1 DEF XdrLo
<1>4. fl.pc \in {"index", "store"} => fl.at <= now
  BY <1>0 DEF WritersAhead
<1>5. XdrEnd \in Nat /\ XdrEnd <= now + 2
  BY <1>1, <1>4 DEF XdrEnd
<1>6. wr.last = ReadIndex(wr.pos) /\ now <= wr.pos + MaxLag
  BY <1>0 DEF ReadersBehind
<1>7. Len(file) \in Nat
  BY <1>2
<1> QED  BY <1>1, <1>2, <1>3, <1>5, <1>6, <1>7

LEMMA XdrEndNext ==
  ASSUME Typed'
  PROVE  XdrEnd' \in Nat
<1> DEFINE a == fl'.at
           b == now'
<1>0. fl' \in FlRows /\ now' \in 1 .. MaxTime
  BY DEF Typed
<1>1. a \in Nat /\ b \in Nat
  <2>1. a \in Nat
    BY <1>0 DEF FlRows
  <2> QED  BY <1>0, <2>1, SlotFacts
<1> HIDE DEF a, b
<1>2. a + 2 \in Nat /\ b + 2 \in Nat
  BY <1>1
<1>3. CASE fl'.pc \in {"index", "store"}
  BY <1>2, <1>3 DEF XdrEnd, a
<1>4. CASE fl'.pc \notin {"index", "store"}
  BY <1>2, <1>4 DEF XdrEnd, b
<1> QED  BY <1>3, <1>4

(* Records flushed stay what they are. *)
Lasting ==
  \A s \in Manager : \A k \in DOMAIN born[s] : k \in DOMAIN born'[s] /\ born'[s][k] = born[s][k]

LEMMA LinedStays ==
  ASSUME NEW L, NEW D, NEW N, Lined(L, D, N), Lasting
  PROVE  Lined(L, D, N)'
<1> SUFFICES ASSUME NEW n \in 1 .. N
             PROVE  InTurn(L, N, n) /\ Soon(L[n], D[n])'
  BY DEF Lined, InTurn
<1>1. InTurn(L, N, n) /\ Soon(L[n], D[n])
  BY DEF Lined
<1> DEFINE rec == L[n]
           d == D[n]
<1>2. Soon(rec, d)
  BY <1>1
<1> HIDE DEF rec, d
<1>3. Soon(rec, d)'
  <2>1. rec[1] \in Manager /\ rec[2] \in DOMAIN born[rec[1]]
    BY <1>2 DEF Soon
  <2>2. rec[2] \in DOMAIN born'[rec[1]] /\ born'[rec[1]][rec[2]] = born[rec[1]][rec[2]]
    BY <2>1 DEF Lasting
  <2> QED  BY <1>2, <2>1, <2>2 DEF Soon
<1> QED  BY <1>1, <1>3 DEF rec, d

LEMMA TracedStays ==
  ASSUME Steady, Steady', NEW T, Traced(T), Lasting, UNCHANGED <<xdrMap, xdrCnt, file>>,
         wr'.pos = wr.pos, XdrLo' = XdrLo, XdrEnd <= XdrEnd'
  PROVE  Traced(T)'
<1> DEFINE end == XdrEnd
           end2 == XdrEnd'
           pos == wr.pos
           lo == XdrLo
<1>1. PICK L, D, N, X :
        /\ Chain(xdrMap, xdrCnt, pos, lo, L, D, N, X, end)
        /\ X[pos] + lo = Len(file) + 1
        /\ Filed(file, L, N) /\ Lined(L, D, N) /\ AllLined(L, N, T)
  BY DEF Traced
<1>2. pos \in Nat /\ end \in Nat /\ end2 \in Nat /\ end <= end2
  BY TracedTypes, XdrEndNext DEF Steady
<1>3. \A i \in SlotIndex : xdrMap[i] = xdrMap[i] /\ xdrCnt[i] = xdrCnt[i]
  OBVIOUS
<1> HIDE DEF end, end2, pos, lo
<1>4. Chain(xdrMap, xdrCnt, pos, lo, L, D, N, X, end2)
  BY <1>1, <1>2, ChainStays
<1>5. Lined(L, D, N)'
  BY <1>1, LinedStays
<1>6. Chain(xdrMap', xdrCnt', wr'.pos, XdrLo', L, D, N, X, XdrEnd')
  BY <1>4 DEF end2, pos, lo
<1>7. X[wr'.pos] + XdrLo' = Len(file') + 1 /\ Filed(file', L, N)
  BY <1>1 DEF pos, lo
<1> QED  BY <1>1, <1>5, <1>6, <1>7 DEF Traced

LEMMA WrWriteTraced ==
  ASSUME Steady, Steady', NEW T, Traced(T), WrWrite
  PROVE  Traced(T)'
<1> DEFINE end == XdrEnd
           pos == wr.pos
           lo == XdrLo
           lo2 == XdrLo'
           M == xdrMap
           n == xdrCnt
           M2 == xdrMap'
           n2 == xdrCnt'
           f2 == file'
           r == xdrMap[wr.last][wr.i]
<1>1. PICK L, D, N, X :
        /\ Chain(M, n, pos, lo, L, D, N, X, end)
        /\ X[pos] + lo = Len(file) + 1
        /\ Filed(file, L, N) /\ Lined(L, D, N) /\ AllLined(L, N, T)
  BY DEF Traced
<1>2. /\ pos \in Nat /\ end \in Nat /\ lo \in Nat /\ n \in [SlotIndex -> Nat]
      /\ wr.last \in SlotIndex /\ wr.last = ReadIndex(pos) /\ file \in Seq(Records) /\ Len(file) \in Nat
  BY TracedTypes
<1>3. /\ wr'.pos = pos /\ wr.pc = "write" /\ lo = wr.i /\ lo2 = lo + 1
      /\ f2 = Append(file, r)
      /\ M2[wr.last] = Erased(M[wr.last], wr.i) /\ n2[wr.last] = n[wr.last] - 1
      /\ \A i \in SlotIndex : i # wr.last => M2[i] = M[i] /\ n2[i] = n[i]
      /\ UNCHANGED <<now, fl, born>>
  BY WrTook
<1>4. n[wr.last] > 0 /\ n[wr.last] \in Nat /\ DOMAIN M[wr.last] = lo .. lo + n[wr.last] - 1
  <2>1. Typed /\ Shaped
    BY DEF Steady
  <2>2. First(wr.last, lo, wr.last) = lo
    BY DEF First
  <2>3. Dense(M, n, wr.last, lo)
    BY <2>1 DEF Shaped
  <2> HIDE DEF M, n, lo
  <2>4. DOMAIN M[wr.last] = lo .. lo + n[wr.last] - 1
    BY <1>2, <2>2, <2>3 DEF Dense
  <2> QED  BY <1>3, <2>1, <2>4, WrHead DEF n
<1>5. r = Entry(M, ReadIndex(pos), lo)
  BY <1>2, <1>3 DEF Entry
<1>6. end = XdrEnd'
  BY <1>3 DEF XdrEnd
<1>7. Lasting
  BY <1>3 DEF Lasting
<1> HIDE DEF end, pos, lo, lo2, M, n, M2, n2, f2, r
<1>8. Taken(M, n, M2, n2, ReadIndex(pos), lo)
  BY <1>2, <1>3, <1>4 DEF Taken
<1>9. Chain(M2, n2, pos, lo2, L, D, N, X, end)
  BY <1>1, <1>2, <1>3, <1>8, ChainTake
<1>10. n[ReadIndex(pos)] > 0
  BY <1>2, <1>4
<1>11. X[pos] + lo \in 1 .. N
  BY <1>1, <1>2, <1>10, ChainHead
<1>12. Entry(M, ReadIndex(pos), lo) = L[X[pos] + lo]
  BY <1>1, <1>2, <1>10, ChainHead
<1>13. Len(file) + 1 \in 1 .. N /\ r = L[Len(file) + 1]
  BY <1>1, <1>5, <1>11, <1>12
<1>14. N \in Nat /\ X[pos] \in Nat
  <2>1. X \in [Nat -> Nat] /\ N \in Nat
    BY <1>1, Zenon DEF Chain
  <2> QED  BY <1>2, <2>1
<1>15. Len(f2) = Len(file) + 1 /\ f2[Len(file) + 1] = r /\ \A k \in 1 .. Len(file) : f2[k] = file[k]
  BY <1>2, <1>3
<1>16. Filed(f2, L, N)
  <2>1. \A k \in 1 .. Len(file) + 1 : k \in 1 .. Len(file) \/ k = Len(file) + 1
    BY <1>2
  <2>2. \A k \in 1 .. Len(file) : file[k] = L[k]
    BY <1>1 DEF Filed
  <2>3. ASSUME NEW k \in 1 .. Len(f2) PROVE f2[k] = L[k]
    BY <1>13, <1>15, <2>1, <2>2
  <2> QED  BY <1>13, <1>14, <1>15, <2>3 DEF Filed
<1>17. X[pos] + lo2 = Len(f2) + 1
  <2> DEFINE x == X[pos]
             l == Len(file)
             l2 == Len(f2)
  <2>1. x \in Nat /\ lo \in Nat /\ l \in Nat /\ x + lo = l + 1 /\ lo2 = lo + 1 /\ l2 = l + 1
    BY <1>1, <1>2, <1>3, <1>14, <1>15
  <2> HIDE DEF x, l, l2
  <2>2. x + lo2 = l2 + 1
    BY <2>1
  <2> QED  BY <2>2 DEF x, l2
<1>18. Lined(L, D, N)'
  BY <1>1, <1>7, LinedStays
<1>19. Chain(xdrMap', xdrCnt', wr'.pos, XdrLo', L, D, N, X, XdrEnd')
  BY <1>3, <1>6, <1>9 DEF M2, n2, lo2
<1>20. X[wr'.pos] + XdrLo' = Len(file') + 1 /\ Filed(file', L, N)
  BY <1>3, <1>16, <1>17 DEF f2, lo2
<1> QED  BY <1>1, <1>18, <1>19, <1>20 DEF Traced

LEMMA WrResetTraced ==
  ASSUME Steady, Steady', InTime, NEW T, Traced(T), WrReset
  PROVE  Traced(T)'
<1> DEFINE end == XdrEnd
           pos == wr.pos
           pos2 == wr'.pos
           lo == XdrLo
           M == xdrMap
           n == xdrCnt
           M2 == xdrMap'
           n2 == xdrCnt'
<1>1. PICK L, D, N, X :
        /\ Chain(M, n, pos, lo, L, D, N, X, end)
        /\ X[pos] + lo = Len(file) + 1
        /\ Filed(file, L, N) /\ Lined(L, D, N) /\ AllLined(L, N, T)
  BY DEF Traced
<1>2. /\ pos \in Nat /\ end \in Nat /\ lo \in Nat /\ n \in [SlotIndex -> Nat] /\ now \in Nat
      /\ wr.last \in SlotIndex /\ wr.last = ReadIndex(pos) /\ file \in Seq(Records) /\ Len(file) \in Nat
  BY TracedTypes
<1>3. /\ wr.pc = "reset" /\ wr' = SlotDone(wr) /\ XdrLo' = 0
      /\ n[wr.last] = 0 /\ n2 = n
      /\ \A i \in SlotIndex : i # wr.last => M2[i] = M[i]
      /\ UNCHANGED <<now, fl, born, file>>
  BY WrLeft
<1>4. pos2 = pos + 1
  BY <1>3, DoneFields DEF Steady
<1>5. end <= pos + Slots
  <2>1. end <= now + 2 /\ now <= pos + MaxLag
    BY TracedTypes
  <2>2. MaxLag \in Nat /\ Slots \in Nat /\ MaxLag + 2 <= Slots
    BY SlotFacts DEF InTime
  <2> HIDE DEF end, pos
  <2> QED  BY <1>2, <2>1, <2>2
<1>6. end = XdrEnd'
  BY <1>3 DEF XdrEnd
<1>7. Lasting
  BY <1>3 DEF Lasting
<1> HIDE DEF end, pos, pos2, lo, M, n, M2, n2
<1>8. Left(M, n, M2, n2, ReadIndex(pos))
  BY <1>2, <1>3 DEF Left
<1>9. Chain(M2, n2, pos2, 0, L, D, N, X, end)
  BY <1>1, <1>2, <1>4, <1>5, <1>8, ChainMoves
<1>10. X[pos2] = X[pos] + lo
  BY <1>1, <1>2, <1>4, <1>5, <1>8, <1>9, ChainMoves
<1>11. X[pos2] + 0 = Len(file) + 1
  BY <1>1, <1>2, <1>10
<1>12. Lined(L, D, N)'
  BY <1>1, <1>7, LinedStays
<1>13. Chain(xdrMap', xdrCnt', wr'.pos, XdrLo', L, D, N, X, XdrEnd')
  BY <1>3, <1>6, <1>9 DEF M2, n2, pos2
<1>14. X[wr'.pos] + XdrLo' = Len(file') + 1 /\ Filed(file', L, N)
  BY <1>1, <1>3, <1>11 DEF pos2
<1> QED  BY <1>1, <1>12, <1>13, <1>14 DEF Traced

(* The list of lines with one more. *)
Longer(L, N, x) == [k \in Nat |-> IF k = N + 1 THEN x ELSE L[k]]

LEMMA LongerFacts ==
  ASSUME NEW L, NEW N \in Nat, NEW x, NEW N2, N2 = N + 1
  PROVE  Longer(L, N, x)[N2] = x /\ Agree(L, Longer(L, N, x), N)
  BY DEF Longer, Agree

LEMMA LinedLonger ==
  ASSUME NEW L, NEW D, NEW N \in Nat, Lined(L, D, N),
         NEW L2, NEW D2, Agree(L, L2, N), Agree(D, D2, N),
         NEW N2, N2 = N + 1, Soon(L2[N2], D2[N2]), InTurn(L2, N2, N2)
  PROVE  Lined(L2, D2, N2)
<1>1. \A k \in 1 .. N2 : k \in 1 .. N \/ k = N2
  OBVIOUS
<1>2. \A m \in 1 .. N : m \in 1 .. N2 /\ m < N2
  OBVIOUS
<1>3. ASSUME NEW n \in 1 .. N PROVE InTurn(L2, N2, n) /\ Soon(L2[n], D2[n])
  <2>1. InTurn(L, N, n) /\ Soon(L[n], D[n])
    BY <1>3 DEF Lined
  <2>2. L2[n] = L[n] /\ D2[n] = D[n]
    BY <1>3 DEF Agree
  <2>3. CASE L[n][2] = 1
    BY <2>1, <2>2, <2>3 DEF InTurn
  <2>4. CASE L[n][2] # 1
    <3>1. PICK m \in 1 .. N : m < n /\ L[m] = <<L[n][1], L[n][2] - 1>>
      BY <2>1, <2>4 DEF InTurn
    <3>2. L2[m] = L[m]
      BY <3>1 DEF Agree
    <3> QED  BY <1>2, <2>1, <2>2, <3>1, <3>2 DEF InTurn
  <2> QED  BY <2>3, <2>4
<1>5. ASSUME NEW n \in 1 .. N2 PROVE InTurn(L2, N2, n) /\ Soon(L2[n], D2[n])
  BY <1>1, <1>3
<1> QED  BY <1>5 DEF Lined

LEMMA FlPutTraced ==
  ASSUME Steady, Steady', Once, InTime, NEW T \in [Manager -> Nat],
         \A s \in Manager : Sorted(s, T[s]), Past(T), Traced(T), FlPuts,
         NEW T2, T2 = [s \in Manager |-> IF s = fl.s THEN T[s] + 1 ELSE T[s]]
  PROVE  Traced(T2)'
<1> DEFINE end == XdrEnd
           end2 == XdrEnd'
           pos == wr.pos
           lo == XdrLo
           M == xdrMap
           n == xdrCnt
           M2 == xdrMap'
           n2 == xdrCnt'
           t == T[fl.s]
           b == born[fl.s][t + 1]
           x == fl.rec
<1>1. PICK L, D, N, X :
        /\ Chain(M, n, pos, lo, L, D, N, X, end)
        /\ X[pos] + lo = Len(file) + 1
        /\ Filed(file, L, N) /\ Lined(L, D, N) /\ AllLined(L, N, T)
  BY DEF Traced
<1>2. /\ pos \in Nat /\ end \in Nat /\ lo \in Nat /\ n \in [SlotIndex -> Nat] /\ now \in Nat
      /\ file \in Seq(Records) /\ Len(file) \in Nat
  BY TracedTypes
<1>3. Typed /\ ReadersBehind /\ WritersAhead /\ Shaped /\ fl.pc = "store" /\ fl.idx \in SlotIndex
      /\ fl.s \in Manager /\ fl.pos \in Nat /\ fl.at \in Nat /\ t \in Nat
  BY Types DEF Steady, FlPuts, FlStore
<1>4. PICK q \in Lap(pos) :
        /\ fl.idx = ReadIndex(q) /\ fl.at + 2 <= q + 1 /\ q + 1 <= now + 2
        /\ wr.pc # "poll" => pos < q /\ fl.idx # wr.last
  BY <1>3, FlAhead
<1>5. /\ n[fl.idx] \in Nat /\ DOMAIN M[fl.idx] = 0 .. n[fl.idx] - 1
      /\ M2[fl.idx] = Stored(M[fl.idx], n[fl.idx], x)
      /\ n2[fl.idx] = n[fl.idx] + 1
      /\ \A i \in SlotIndex : i # fl.idx => M2[i] = M[i] /\ n2[i] = n[i]
      /\ UNCHANGED <<now, wr, file, born>>
  BY FlPut
<1>6. /\ x = <<fl.s, t + 1>> /\ t + 1 \in 1 .. Put(fl.s) /\ b + 1 = fl.pos
  BY FlPutNew DEF FlPuts
<1>7. q \in Nat /\ pos <= q /\ (q = pos => lo = 0)
  <2>1. lo # 0 => wr.pc # "poll"
    BY DEF XdrLo, WrWork
  <2> HIDE DEF pos, lo
  <2> QED  BY <1>2, <1>4, <2>1, LapFacts
<1>8. end <= q + 1 /\ end2 = now + 2 /\ end2 \in Nat /\ q + 1 <= end2
  <2>1. end = fl.at + 2
    BY <1>3 DEF XdrEnd
  <2>2. fl'.pc = "erase" /\ now' = now
    BY FlWorks DEF FlPuts
  <2>3. end2 = now + 2
    BY <2>2 DEF XdrEnd
  <2> HIDE DEF end, end2
  <2> QED  BY <1>2, <1>4, <2>1, <2>3
<1>9. N \in Nat /\ X \in [Nat -> Nat]
  BY <1>1, Zenon DEF Chain
<1>10. b \in Nat /\ t + 1 \in DOMAIN born[fl.s]
  <2>1. born[fl.s] \in Seq(Nat) /\ Len(born[fl.s]) \in Nat
    BY <1>3, Types
  <2>2. t + 1 \in 1 .. Len(born[fl.s])
    <3>1. Put(fl.s) \in Nat /\ Put(fl.s) <= Len(born[fl.s])
      BY <1>3, SortedTypes
    <3> HIDE DEF t
    <3> QED  BY <1>3, <1>6, <2>1, <3>1
  <2> HIDE DEF t
  <2> QED  BY <2>1, <2>2
<1>11. q <= b + 2 + MaxLag
  <2>1. now <= fl.pos + MaxLag
    BY <1>3 DEF ReadersBehind
  <2>2. MaxLag \in Nat
    BY SlotFacts
  <2> HIDE DEF b
  <2> QED  BY <1>2, <1>3, <1>4, <1>6, <1>7, <1>10, <2>1, <2>2
<1> DEFINE N2 == N + 1
           L2 == Longer(L, N, x)
           D2 == Longer(D, N, q)
           X2 == Later(X, q)
<1>12. /\ Agree(L, L2, N) /\ Agree(D, D2, N) /\ L2[N2] = x /\ D2[N2] = q
       /\ \A k \in 1 .. N : L2[k] = L[k] /\ D2[k] = D[k]
  <2>1. L2[N2] = x /\ Agree(L, L2, N)
    BY <1>9, LongerFacts
  <2>2. D2[N2] = q /\ Agree(D, D2, N)
    BY <1>9, LongerFacts
  <2> HIDE DEF L2, D2, N2
  <2> QED  BY <2>1, <2>2 DEF Agree
<1>13. N2 = N + 1
  OBVIOUS
<1>14. \A s \in Manager : T2[s] = IF s = fl.s THEN T[s] + 1 ELSE T[s]
  OBVIOUS
<1>15. T[fl.s] = t /\ born[fl.s][t + 1] = b
  OBVIOUS
<1> HIDE DEF end, end2, pos, lo, M, n, M2, n2, t, b, x, N2, L2, D2, X2
<1>16. Added(M, n, M2, n2, ReadIndex(q), x)
  BY <1>4, <1>5 DEF Added
<1>17. Chain(M2, n2, pos, lo, L2, D2, N2, X2, end2)
  BY <1>1, <1>2, <1>4, <1>7, <1>8, <1>12, <1>13, <1>16, ChainPut DEF X2
<1>18. X2[pos] + lo = Len(file) + 1
  <2>1. X2[pos] = X[pos]
    BY <1>2, <1>4, <1>9, LaterFirst DEF X2
  <2> QED  BY <1>1, <2>1
<1>19. Filed(file, L2, N2)
  <2>1. Len(file) <= N /\ \A k \in 1 .. Len(file) : file[k] = L[k]
    BY <1>1 DEF Filed
  <2>2. Len(file) <= N2 /\ \A k \in 1 .. Len(file) : k \in 1 .. N
    <3> DEFINE l == Len(file)
    <3>1. l \in Nat /\ l <= N
      BY <1>2, <2>1
    <3> HIDE DEF l
    <3>2. l <= N2 /\ \A k \in 1 .. l : k \in 1 .. N
      BY <1>9, <1>13, <3>1
    <3> QED  BY <3>2 DEF l
  <2> QED  BY <1>12, <2>1, <2>2 DEF Filed
<1>20. Lined(L2, D2, N2)
  <2>1. L2[N2][1] = fl.s /\ L2[N2][2] = t + 1
    BY <1>6, <1>12
  <2>2. Soon(L2[N2], D2[N2])
    BY <1>3, <1>7, <1>10, <1>11, <1>12, <1>15, <2>1 DEF Soon
  <2>3. InTurn(L2, N2, N2)
    <3>1. CASE t = 0
      BY <2>1, <3>1 DEF InTurn
    <3>2. CASE t # 0
      <4>1. t \in 1 .. T[fl.s] /\ t + 1 - 1 = t
        BY <1>3, <1>15, <3>2
      <4>2. PICK m \in 1 .. N : L[m] = <<fl.s, t>>
        BY <1>1, <1>3, <4>1 DEF AllLined
      <4>3. m \in 1 .. N2 /\ m < N2
        BY <1>9, <1>13, <4>2
      <4>4. L2[m] = <<L2[N2][1], L2[N2][2] - 1>>
        BY <1>12, <2>1, <4>1, <4>2
      <4> QED  BY <4>3, <4>4 DEF InTurn
    <3> QED  BY <3>1, <3>2
  <2> QED  BY <1>1, <1>9, <1>12, <1>13, <2>2, <2>3, LinedLonger
<1>21. AllLined(L2, N2, T2)
  <2> SUFFICES ASSUME NEW s \in Manager, NEW k \in 1 .. T2[s]
               PROVE  \E m \in 1 .. N2 : L2[m] = <<s, k>>
    BY DEF AllLined
  <2>1. CASE k \in 1 .. T[s]
    <3>1. PICK m \in 1 .. N : L[m] = <<s, k>>
      BY <1>1, <2>1 DEF AllLined
    <3>2. L2[m] = L[m] /\ m \in 1 .. N2
      BY <1>9, <1>12, <1>13, <3>1
    <3> QED  BY <3>1, <3>2
  <2>2. CASE k \notin 1 .. T[s]
    <3>1. s = fl.s /\ k = t + 1
      BY <1>3, <1>14, <1>15, <2>2
    <3>2. N2 \in 1 .. N2
      BY <1>9, <1>13
    <3> QED  BY <1>6, <1>12, <3>1, <3>2
  <2> QED  BY <2>1, <2>2
<1>22. PICK K, E, J, Y : K = L2 /\ E = D2 /\ J = N2 /\ Y = X2
  OBVIOUS
<1>23. /\ Chain(M2, n2, pos, lo, K, E, J, Y, end2) /\ Y[pos] + lo = Len(file) + 1
       /\ Filed(file, K, J) /\ Lined(K, E, J) /\ AllLined(K, J, T2)
  BY <1>17, <1>18, <1>19, <1>20, <1>21, <1>22
<1>24. Lined(K, E, J)'
  <2>1. Lasting
    BY <1>5 DEF Lasting
  <2> QED  BY <1>23, <2>1, LinedStays
<1>25. Chain(xdrMap', xdrCnt', wr'.pos, XdrLo', K, E, J, Y, XdrEnd')
  <2>1. pos = wr'.pos /\ lo = XdrLo'
    BY <1>5 DEF pos, lo, XdrLo
  <2> QED  BY <1>23, <2>1 DEF M2, n2, end2
<1>26. Y[wr'.pos] + XdrLo' = Len(file') + 1 /\ Filed(file', K, J)
  BY <1>5, <1>23 DEF pos, lo, XdrLo
<1> QED  BY <1>23, <1>24, <1>25, <1>26 DEF Traced

-----------------------------------------------------------------------------
(* What the flusher has placed of each session manager's records accounts  *)
(* for what is in the queues, in the XDR map and in the file.              *)
Tracking ==
  \E T \in [Manager -> Nat] :
    (\A s \in Manager : Sorted(s, T[s])) /\ Past(T) /\ (Calm => Traced(T))

Whole == Steady /\ Kept /\ Once /\ Tracking

LEMMA MgrTracking ==
  ASSUME Whole, Steady', InTime, NEW u \in Manager, Flush(u) \/ StoreSession(u)
  PROVE  Tracking' /\ Once'
<1>1. PICK T \in [Manager -> Nat] :
        (\A s \in Manager : Sorted(s, T[s])) /\ Past(T) /\ (Calm => Traced(T))
  BY DEF Whole, Tracking
<1>2. UNCHANGED <<now, xdrMap, xdrCnt, fl, wr, file, astray, toggles>>
  BY DEF Flush, StoreSession, xdrQueue, history
<1>3. \A s \in Manager : Sorted(s, T[s])'
  BY <1>1, MgrSorted DEF Whole
<1>4. Once' /\ Seen' = Seen
  BY <1>2, OthersOnce DEF Whole
<1>5. Past(T)'
  BY <1>1, <1>4, PastStays
<1>6. Lasting
  <2>1. CASE StoreSession(u)
    BY <2>1 DEF StoreSession, history, Lasting
  <2>2. CASE Flush(u)
    <3> DEFINE b == Append(born[u], now)
    <3>1. born' = [born EXCEPT ![u] = b]
      BY <2>2 DEF Flush
    <3>2. born[u] \in Seq(Nat) /\ now \in Nat /\ DOMAIN born = Manager
      BY Types DEF Whole, Steady, Typed
    <3>3. \A k \in DOMAIN born[u] : k \in DOMAIN b /\ b[k] = born[u][k]
      BY <3>2
    <3> HIDE DEF b
    <3> QED  BY <3>1, <3>2, <3>3 DEF Lasting
  <2> QED  BY <2>1, <2>2
<1>7. ASSUME Calm' PROVE Traced(T)'
  <2>1. Traced(T)
    BY <1>1, <1>2, <1>7 DEF Calm
  <2>2. wr'.pos = wr.pos /\ XdrLo' = XdrLo /\ XdrEnd' = XdrEnd
    BY <1>2 DEF XdrLo, XdrEnd
  <2>3. XdrEnd <= XdrEnd'
    BY <2>2, TracedTypes DEF Whole
  <2> QED  BY <1>2, <1>6, <2>1, <2>2, <2>3, TracedStays DEF Whole
<1> QED  BY <1>3, <1>4, <1>5, <1>7 DEF Tracking

LEMMA FlStoreTracking ==
  ASSUME Whole, Steady', InTime, FlStore
  PROVE  Tracking' /\ Once'
<1>1. PICK T \in [Manager -> Nat] :
        (\A s \in Manager : Sorted(s, T[s])) /\ Past(T) /\ (Calm => Traced(T))
  BY DEF Whole, Tracking
<1>2. PICK T2 : T2 = [s \in Manager |-> IF s = fl.s THEN T[s] + 1 ELSE T[s]]
  OBVIOUS
<1>3. T2 \in [Manager -> Nat] /\ \A s \in Manager : T2[s] = IF s = fl.s THEN T[s] + 1 ELSE T[s]
  BY <1>1, <1>2
<1>4. \A s \in Manager : Sorted(s, T2[s])'
  <2> SUFFICES ASSUME NEW s \in Manager PROVE Sorted(s, T2[s])'
    OBVIOUS
  <2> DEFINE t == T[s]
             t2 == T2[s]
  <2>1. t \in Nat /\ Sorted(s, t) /\ t2 = IF s = fl.s THEN t + 1 ELSE t
    BY <1>1, <1>3
  <2> HIDE DEF t, t2
  <2>2. Sorted(s, t2)'
    BY <2>1, FlStoreSorted DEF Whole
  <2> QED  BY <2>2 DEF t2
<1>5. Once' /\ Past(T2)'
  BY <1>1, <1>2, FlStoreOnce DEF Whole
<1>6. ASSUME Calm' PROVE Traced(T2)'
  <2>1. astray' = {} /\ toggles' = 0 /\ toggles' = toggles
    BY <1>6 DEF Calm, FlStore
  <2>2. writeXdr = TRUE
    BY <2>1 DEF Whole, Steady, Typed
  <2>3. FlPuts /\ astray = {}
    BY <2>1, <2>2 DEF FlStore, FlPuts
  <2>4. Traced(T)
    BY <1>1, <2>1, <2>3 DEF Calm
  <2> QED  BY <1>1, <1>2, <2>3, <2>4, FlPutTraced DEF Whole
<1> QED  BY <1>3, <1>4, <1>5, <1>6 DEF Tracking

(* The other steps of the flusher do not touch the XDR map. *)
LEMMA FlTracking ==
  ASSUME Whole, Steady', InTime, FlStep, ~ FlStore
  PROVE  Tracking' /\ Once'
<1>1. PICK T \in [Manager -> Nat] :
        (\A s \in Manager : Sorted(s, T[s])) /\ Past(T) /\ (Calm => Traced(T))
  BY DEF Whole, Tracking
<1>2. UNCHANGED <<now, xdrMap, xdrCnt, wr, file, born, astray, toggles>>
  BY DEF FlStep, FlPoll, FlVisit, FlBuild, FlIndex, FlErase, FlClear, xdrQueue, history
<1>3. \A s \in Manager : Sorted(s, T[s])'
  BY <1>1, FlSorted DEF Whole
<1>4. Once' /\ Seen' = Seen
  BY <1>2, OthersOnce DEF Whole
<1>5. Past(T)'
  BY <1>1, <1>4, PastStays
<1>6. Lasting
  BY <1>2 DEF Lasting
<1>7. XdrEnd' = XdrEnd
  <2>0. Steady /\ Typed /\ fl \in FlRows
    BY DEF Whole, Steady, Typed
  <2>1. CASE FlBuild
    <3> DEFINE r == Found(flushMap[FlCell], fl.i, Phantom)
    <3>1. fl.pc = "build" /\ fl' = [fl EXCEPT !.pc = "index", !.rec = r, !.at = now]
      BY <2>1 DEF FlBuild
    <3> HIDE DEF r
    <3>2. fl'.pc = "index" /\ fl'.at = now
      BY <2>0, <3>1 DEF FlRows
    <3> QED  BY <3>1, <3>2 DEF XdrEnd
  <2>2. CASE FlIndex
    <3> DEFINE w == WriteIndex(fl.at, now)
    <3>1. fl.pc = "index" /\ fl' = [fl EXCEPT !.pc = "store", !.idx = w]
      BY <2>2 DEF FlIndex
    <3> HIDE DEF w
    <3>2. fl'.pc = "store" /\ fl'.at = fl.at
      BY <2>0, <3>1 DEF FlRows
    <3> QED  BY <3>1, <3>2 DEF XdrEnd
  <2>3. CASE FlErase
    <3>1. fl.pc = "erase" /\ fl'.pc \in {"build", "clear"}
      BY <2>0, <2>3, FlErases
    <3> QED  BY <1>2, <3>1 DEF XdrEnd
  <2>4. CASE FlLeaves
    <3>1. fl.pc \in {"visit", "clear"} /\ fl' = FlNext
      BY <2>0, <2>4, FlLeft
    <3>2. fl'.pc \in {"poll", "visit"}
      BY <2>0, <3>1, NextFields
    <3> QED  BY <1>2, <3>1, <3>2 DEF XdrEnd
  <2>5. CASE FlStarts
    <3>1. fl.pc \in {"poll", "visit"} /\ fl'.pc \in {"visit", "build"}
      BY <2>0, <2>5, FlStarted
    <3> QED  BY <1>2, <3>1 DEF XdrEnd
  <2> QED  BY <2>1, <2>2, <2>3, <2>4, <2>5 DEF FlStep, FlStarts, FlLeaves
<1>8. ASSUME Calm' PROVE Traced(T)'
  <2>1. Traced(T)
    BY <1>1, <1>2, <1>8 DEF Calm
  <2>2. wr'.pos = wr.pos /\ XdrLo' = XdrLo
    BY <1>2 DEF XdrLo
  <2>3. XdrEnd <= XdrEnd'
    BY <1>7, TracedTypes DEF Whole
  <2> QED  BY <1>2, <1>6, <2>1, <2>2, <2>3, TracedStays DEF Whole
<1> QED  BY <1>3, <1>4, <1>5, <1>8 DEF Tracking

LEMMA WrTracking ==
  ASSUME Whole, Steady', InTime, WrStep
  PROVE  Tracking' /\ Once'
<1>1. PICK T \in [Manager -> Nat] :
        (\A s \in Manager : Sorted(s, T[s])) /\ Past(T) /\ (Calm => Traced(T))
  BY DEF Whole, Tracking
<1>2. UNCHANGED <<now, writeXdr, flushMap, flushCnt, mgr, fl, born, astray, toggles>>
  BY DEF WrStep, WrPoll, WrSkip, WrVisit, WrWrite, WrReset, flushQueue, history
<1>3. \A s \in Manager : Sorted(s, T[s])'
  <2>1. now <= now'
    BY <1>2, TracedTypes DEF Whole
  <2> QED  BY <1>1, <1>2, <2>1, OthersSorted DEF Whole
<1>4. Once' /\ Seen' = Seen
  BY WrOnce DEF Whole
<1>5. Past(T)'
  BY <1>1, <1>4, PastStays
<1>6. ASSUME Calm' PROVE Traced(T)'
  <2>1. Traced(T) /\ toggles = 0
    BY <1>1, <1>2, <1>6 DEF Calm
  <2>2. ~ WrSkip
    BY <2>1 DEF WrSkip, Whole, Steady, Typed
  <2>3. CASE WrPoll \/ WrVisit
    <3>1. /\ wr'.pos = wr.pos /\ XdrLo' = XdrLo
          /\ UNCHANGED <<xdrMap, xdrCnt, file>>
      BY <2>3, WrStarted DEF Whole
    <3>2. XdrEnd' = XdrEnd /\ Lasting
      BY <1>2 DEF XdrEnd, Lasting
    <3>3. XdrEnd <= XdrEnd'
      BY <3>2, TracedTypes DEF Whole
    <3> QED  BY <2>1, <3>1, <3>2, <3>3, TracedStays DEF Whole
  <2>4. CASE WrWrite
    BY <2>1, <2>4, WrWriteTraced DEF Whole
  <2>5. CASE WrReset
    BY <2>1, <2>5, WrResetTraced DEF Whole
  <2> QED  BY <2>2, <2>3, <2>4, <2>5 DEF WrStep
<1> QED  BY <1>3, <1>4, <1>5, <1>6 DEF Tracking

LEMMA OthersTracking ==
  ASSUME Whole, Steady', InTime, Toggle \/ NextSecond \/ UNCHANGED xdrVars
  PROVE  Tracking' /\ Once'
<1>1. PICK T \in [Manager -> Nat] :
        (\A s \in Manager : Sorted(s, T[s])) /\ Past(T) /\ (Calm => Traced(T))
  BY DEF Whole, Tracking
<1>2. /\ UNCHANGED <<flushMap, flushCnt, xdrMap, xdrCnt, mgr, fl, wr, file, born, astray>>
      /\ now' = now \/ now' = now + 1
      /\ toggles' = toggles \/ toggles' = toggles + 1
  BY DEF Toggle, NextSecond, xdrVars, flushQueue, xdrQueue, history
<1>3. now \in Nat /\ now <= now'
  <2>1. now \in Nat
    BY TracedTypes DEF Whole
  <2> QED  BY <1>2, <2>1
<1>4. \A s \in Manager : Sorted(s, T[s])'
  BY <1>1, <1>2, <1>3, OthersSorted DEF Whole
<1>5. Once' /\ Seen' = Seen
  BY <1>2, OthersOnce DEF Whole
<1>6. Past(T)'
  BY <1>1, <1>5, PastStays
<1>7. ASSUME Calm' PROVE Traced(T)'
  <2>0. toggles \in Nat
    BY DEF Whole, Steady, Typed
  <2>1. Traced(T)
    BY <1>1, <1>2, <1>7, <2>0 DEF Calm
  <2>2. wr'.pos = wr.pos /\ XdrLo' = XdrLo /\ Lasting
    BY <1>2 DEF XdrLo, Lasting
  <2>3. XdrEnd <= XdrEnd'
    <3>1. CASE fl.pc \in {"index", "store"}
      <4>1. XdrEnd' = XdrEnd
        BY <1>2, <3>1 DEF XdrEnd
      <4> QED  BY <4>1, TracedTypes DEF Whole
    <3>2. CASE fl.pc \notin {"index", "store"}
      <4> DEFINE b == now'
                 e == XdrEnd
                 e2 == XdrEnd'
      <4>1. e = now + 2 /\ e2 = b + 2 /\ (b = now \/ b = now + 1)
        BY <1>2, <3>2 DEF XdrEnd
      <4> HIDE DEF b, e, e2
      <4>2. e <= e2
        BY <1>3, <4>1
      <4> QED  BY <4>2 DEF e, e2
    <3> QED  BY <3>1, <3>2
  <2> QED  BY <1>2, <2>1, <2>2, <2>3, TracedStays DEF Whole
<1> QED  BY <1>4, <1>5, <1>6, <1>7 DEF Tracking

LEMMA NextWhole ==
  ASSUME Whole, InTime, [XdrNext]_xdrVars
  PROVE  Whole'
<1>1. Steady' /\ Kept'
  BY NextSteady, NextKept DEF Whole
<1>2. Tracking' /\ Once'
  <2>1. ASSUME NEW s \in Manager, Flush(s) \/ StoreSession(s) PROVE Tracking' /\ Once'
    BY <1>1, <2>1, MgrTracking
  <2> QED  BY <1>1, <2>1, FlStoreTracking, FlTracking, WrTracking, OthersTracking DEF XdrNext
<1> QED  BY <1>1, <1>2 DEF Whole

LEMMA ChainEmpty ==
  ASSUME NEW M, NEW n, \A i \in SlotIndex : n[i] = 0, NEW pos \in Nat, NEW L, NEW D, NEW end,
         NEW A, A = [p \in Nat |-> 1]
  PROVE  Chain(M, n, pos, 0, L, D, 0, A, end)
<1>1. A \in [Nat -> Nat] /\ \A p \in Nat : A[p] = 1
  OBVIOUS
<1>2. \A p \in Lap(pos) : /\ p \in Nat /\ p + 1 \in Nat /\ n[ReadIndex(p)] = 0
                          /\ First(pos, 0, p) = 0
  BY LapFacts DEF First
<1>3. \A p \in Lap(pos) : A[p + 1] = A[p] + First(pos, 0, p) + n[ReadIndex(p)]
  BY <1>1, <1>2
<1>4. \A p \in Lap(pos) : \A j \in Nat :
        ~ (First(pos, 0, p) <= j /\ j < First(pos, 0, p) + n[ReadIndex(p)])
  BY <1>2
<1>5. \A p \in Nat : p >= end => A[p] = 0 + 1
  BY <1>1
<1>6. 1 .. 0 = {}
  OBVIOUS
<1> HIDE DEF Entry
<1> QED  BY <1>1, <1>3, <1>4, <1>5, <1>6 DEF Chain

LEMMA InitWhole == XdrInit => Whole
<1> SUFFICES ASSUME XdrInit PROVE Whole
  OBVIOUS
<1>1. Steady /\ Kept
  BY InitSteady, InitKept
<1>2. /\ fl.pc = "poll" /\ fl.s = 0 /\ fl.pos = 1 /\ wr.pc = "poll" /\ wr.pos = 1
      /\ \A s \in Manager : mgr[s].pc = "idle" /\ born[s] = <<>>
      /\ \A c \in Manager \X SlotIndex : flushCnt[c] = 0
      /\ \A i \in SlotIndex : xdrCnt[i] = 0 /\ DOMAIN xdrMap[i] = {}
      /\ file = <<>>
  BY DEF XdrInit, EmptyMap
<1>3. Written = {} /\ InXdr = {} /\ DOMAIN file = {}
  BY <1>2 DEF Written, InXdr
<1>4. Once
  BY <1>2, <1>3 DEF Once, Apiece
<1> DEFINE T == [s \in Manager |-> 0]
           A == [p \in Nat |-> 1]
<1>5. T \in [Manager -> Nat] /\ \A s \in Manager : T[s] = 0
  OBVIOUS
<1>6. A[1] = 1 /\ A = [p \in Nat |-> 1]
  OBVIOUS
<1> HIDE DEF T, A
<1>7. Past(T)
  BY <1>3 DEF Past, Seen
<1>8. \A s \in Manager : Sorted(s, T[s])
  <2> SUFFICES ASSUME NEW s \in Manager PROVE Sorted(s, 0)
    BY <1>5
  <2>1. Pos(s) = 1 /\ Lo(s) = 0 /\ Waits(s) = 1 /\ Put(s) = 0
    <3>1. ~ (s < 0)
      BY DEF Manager
    <3>2. Len(born[s]) = 0
      BY <1>2
    <3> QED  BY <1>2, <3>1, <3>2 DEF Pos, Lo, Waits, Put, FlWork
  <2>2. \A i \in SlotIndex : RowCnt(s)[i] = 0
    BY <1>2 DEF RowCnt
  <2>3. Chain(Row(s), RowCnt(s), 1, 0, Recs(s), Secs(s), 0, A, End(s))
    BY <1>6, <2>2, ChainEmpty
  <2>4. A[1] + 0 = 0 + 1
    BY <1>6
  <2> QED  BY <2>1, <2>3, <2>4 DEF Sorted
<1>9. Traced(T)
  <2>1. XdrLo = 0 /\ Len(file) = 0
    BY <1>2 DEF XdrLo, WrWork
  <2>2. Chain(xdrMap, xdrCnt, 1, 0, <<>>, <<>>, 0, A, XdrEnd)
    BY <1>2, <1>6, ChainEmpty
  <2>3. 1 .. 0 = {}
    OBVIOUS
  <2>4. Filed(file, <<>>, 0) /\ Lined(<<>>, <<>>, 0) /\ AllLined(<<>>, 0, T)
    BY <1>5, <2>1, <2>3 DEF Filed, Lined, AllLined
  <2>5. A[1] + 0 = 0 + 1
    BY <1>6
  <2>6. /\ Chain(xdrMap, xdrCnt, wr.pos, XdrLo, <<>>, <<>>, 0, A, XdrEnd)
        /\ A[wr.pos] + XdrLo = Len(file) + 1
    BY <1>2, <2>1, <2>2, <2>5
  <2> QED  BY <2>4, <2>6 DEF Traced
<1>10. Tracking
  BY <1>5, <1>7, <1>8, <1>9 DEF Tracking
<1> QED  BY <1>1, <1>4, <1>10 DEF Whole


(* What has been put from the entry at the head on was put for its second  *)
(* or a later one.                                                         *)
LEMMA ChainAhead ==
  ASSUME NEW M, NEW n, NEW pos \in Nat, NEW lo, NEW L, NEW D, NEW N, NEW A, NEW end,
         Chain(M, n, pos, lo, L, D, N, A, end),
         NEW k \in 1 .. N, A[pos] + lo <= k
  PROVE  pos <= D[k]
<1>1. First(pos, lo, pos) = lo
  BY DEF First
<1>2. \A p \in Nat : pos <= p => \A j \in 1 .. N : A[p] + First(pos, lo, p) <= j => p <= D[j]
  BY DEF Chain
<1>3. pos <= pos
  OBVIOUS
<1> QED  BY <1>1, <1>2, <1>3

-----------------------------------------------------------------------------
(* The properties follow. *)

LEMMA WholeTypes == Whole => XdrTypeOK
<1> SUFFICES ASSUME Whole PROVE XdrTypeOK
  OBVIOUS
<1>1. Typed /\ Shaped
  BY DEF Whole, Steady
<1>2. now \in 1 .. MaxTime /\ writeXdr \in BOOLEAN /\ fl.last \in SlotIndex /\ wr.last \in SlotIndex
  BY <1>1 DEF Typed, FlRows, WrRows
<1>3. ASSUME NEW c \in Manager \X SlotIndex, fl.pc \in {"poll", "visit"}
      PROVE  DOMAIN flushMap[c] = 0 .. flushCnt[c] - 1
  <2>1. PICK s \in Manager, i \in SlotIndex : c = <<s, i>>
    OBVIOUS
  <2>2. Lo(s) = 0
    BY <1>3 DEF Lo, FlWork
  <2>3. Dense(Row(s), RowCnt(s), fl.last, 0)
    BY <1>1, <2>2 DEF Shaped
  <2>4. First(fl.last, 0, i) = 0 /\ Row(s)[i] = flushMap[c] /\ RowCnt(s)[i] = flushCnt[c]
    BY <2>1 DEF First, Row, RowCnt
  <2>5. flushCnt[c] \in Nat
    BY <1>1 DEF Typed
  <2>6. DOMAIN Row(s)[i] = First(fl.last, 0, i) .. First(fl.last, 0, i) + RowCnt(s)[i] - 1
    BY <2>3 DEF Dense
  <2> QED  BY <2>4, <2>5, <2>6
<1>4. ASSUME NEW i \in SlotIndex, wr.pc \in {"poll", "visit"}
      PROVE  DOMAIN xdrMap[i] = 0 .. xdrCnt[i] - 1
  <2>1. XdrLo = 0
    BY <1>4 DEF XdrLo, WrWork
  <2>2. Dense(xdrMap, xdrCnt, wr.last, 0)
    BY <1>1, <2>1 DEF Shaped
  <2>3. First(wr.last, 0, i) = 0
    BY DEF First
  <2>4. xdrCnt[i] \in Nat
    BY <1>1 DEF Typed
  <2>5. DOMAIN xdrMap[i] = First(wr.last, 0, i) .. First(wr.last, 0, i) + xdrCnt[i] - 1
    BY <2>2 DEF Dense
  <2> QED  BY <2>3, <2>4, <2>5
<1>5. \A n \in DOMAIN file : file[n] \in Records
  BY <1>1 DEF Typed
<1> QED  BY <1>2, <1>3, <1>4, <1>5 DEF XdrTypeOK

LEMMA WholeOrder ==
  ASSUME Whole, InTime
  PROVE  InOrder
<1>1. Steady /\ Once
  BY DEF Whole
<1>2. Typed /\ ReadersBehind /\ WritersAhead
      /\ file \in Seq(Records) /\ DOMAIN file = 1 .. Len(file) /\ Len(file) \in Nat
  BY <1>1 DEF Steady, Typed
<1>3. Apart
  <2>1. ASSUME fl.pc \in FlWork, mgr[fl.s].pc = "store", mgr[fl.s].idx = fl.last PROVE FALSE
    <3>1. fl.s \in Manager /\ fl.pc # "poll"
      BY <1>2, <2>1 DEF Typed, FlRows, FlWork
    <3> QED  BY <1>2, <2>1, <3>1, MgrAhead
  <2>2. ASSUME wr.pc \in WrWork, fl.pc = "store", fl.idx = wr.last PROVE FALSE
    <3>1. fl.idx \in SlotIndex /\ wr.pc # "poll"
      BY <1>2, <2>2 DEF Typed, WrRows, WrWork
    <3> QED  BY <1>2, <2>2, <3>1, FlAhead
  <2> QED  BY <2>1, <2>2 DEF Apart, FlWork, WrWork
<1>4. \A m, n \in DOMAIN file : m # n => file[m] # file[n]
  BY <1>1 DEF Once
<1>5. ASSUME astray = {}, toggles = 0, NEW n \in DOMAIN file, file[n][2] # 1
      PROVE  \E m \in 1 .. n - 1 : file[m] = <<file[n][1], file[n][2] - 1>>
  <2>1. PICK T \in [Manager -> Nat] : Traced(T)
    BY <1>5 DEF Whole, Tracking, Calm
  <2>2. PICK L, D, N, X :
          /\ Chain(xdrMap, xdrCnt, wr.pos, XdrLo, L, D, N, X, XdrEnd)
          /\ Filed(file, L, N) /\ Lined(L, D, N)
    BY <2>1 DEF Traced
  <2>3. N \in Nat
    BY <2>2 DEF Chain
  <2>4. n \in 1 .. Len(file) /\ n \in 1 .. N /\ file[n] = L[n]
    BY <1>2, <2>2, <2>3 DEF Filed
  <2>5. InTurn(L, N, n)
    BY <2>2, <2>4 DEF Lined
  <2>6. PICK m \in 1 .. N : m < n /\ L[m] = <<L[n][1], L[n][2] - 1>>
    BY <1>5, <2>4, <2>5 DEF InTurn
  <2>7. m \in 1 .. Len(file) /\ m \in 1 .. n - 1
    BY <1>2, <2>3, <2>4, <2>6
  <2>8. file[m] = L[m]
    BY <2>2, <2>7 DEF Filed
  <2> QED  BY <2>4, <2>6, <2>7, <2>8
<1> QED  BY <1>3, <1>4, <1>5 DEF InOrder

LEMMA WholeSoon ==
  ASSUME Whole
  PROVE  Latency
<1> SUFFICES ASSUME astray = {}, toggles = 0, NEW rec \in Flushed \ Written
             PROVE  now <= born[rec[1]][rec[2]] + 2 + 2 * MaxLag
  BY DEF Latency
<1> DEFINE s == rec[1]
           k == rec[2]
           b == born[s][k]
<1>1. Steady /\ Typed /\ ReadersBehind /\ WritersAhead
  BY DEF Whole, Steady
<1>2. s \in Manager /\ k \in 1 .. Len(born[s]) /\ rec = <<s, k>> /\ Len(born[s]) \in Nat /\ b \in Nat
  <2>1. rec \in Records /\ k \in DOMAIN born[s]
    BY DEF Flushed
  <2>2. s \in Manager /\ rec = <<s, k>>
    BY <2>1 DEF Records
  <2>3. born[s] \in Seq(Nat)
    BY <1>1, <2>2 DEF Typed
  <2> QED  BY <2>1, <2>2, <2>3
<1>3. now \in Nat /\ MaxLag \in Nat /\ now <= fl.pos + MaxLag /\ now <= wr.pos + MaxLag
      /\ fl.pos \in Nat /\ wr.pos \in Nat /\ fl.s \in Nat /\ s \in Nat
  <2>1. fl \in FlRows /\ wr \in WrRows /\ now \in 1 .. MaxTime
    BY <1>1 DEF Typed
  <2>2. fl.pos \in Nat /\ wr.pos \in Nat /\ fl.s \in Manager
    BY <2>1 DEF FlRows, WrRows
  <2>3. fl.s \in Nat /\ s \in Nat
    BY <1>2, <2>2, SlotFacts DEF Manager
  <2>4. now \in Nat /\ MaxLag \in Nat
    BY <2>1, SlotFacts
  <2>5. now <= fl.pos + MaxLag /\ now <= wr.pos + MaxLag
    BY <1>1 DEF ReadersBehind
  <2> QED  BY <2>2, <2>3, <2>4, <2>5
<1>4. PICK T \in [Manager -> Nat] : (\A t \in Manager : Sorted(t, T[t])) /\ Traced(T)
  BY DEF Whole, Tracking, Calm
<1>5. Sorted(s, T[s]) /\ T[s] \in Nat
  BY <1>2, <1>4
<1>6. rec \notin Written
  OBVIOUS
<1> HIDE DEF s, k
<1>7. ASSUME k <= T[s] PROVE now <= b + 2 + 2 * MaxLag
  <2>1. PICK L, D, N, X :
          /\ Chain(xdrMap, xdrCnt, wr.pos, XdrLo, L, D, N, X, XdrEnd)
          /\ X[wr.pos] + XdrLo = Len(file) + 1
          /\ Filed(file, L, N) /\ Lined(L, D, N) /\ AllLined(L, N, T)
    BY <1>4 DEF Traced
  <2>2. N \in Nat
    BY <2>1 DEF Chain
  <2>3. k \in 1 .. T[s]
    BY <1>2, <1>5, <1>7
  <2>4. PICK n \in 1 .. N : L[n] = rec
    BY <1>2, <2>1, <2>3 DEF AllLined
  <2>5. file \in Seq(Records) /\ Len(file) \in Nat /\ DOMAIN file = 1 .. Len(file)
    BY <1>1 DEF Typed
  <2>6. n > Len(file)
    <3> SUFFICES ASSUME n <= Len(file) PROVE FALSE
      BY <2>2, <2>5
    <3>1. n \in 1 .. Len(file)
      BY <2>5
    <3>2. file[n] = rec /\ n \in DOMAIN file
      BY <2>1, <2>4, <2>5, <3>1 DEF Filed
    <3> QED  BY <1>6, <3>2 DEF Written
  <2>7. X[wr.pos] + XdrLo <= n
    BY <2>1, <2>2, <2>5, <2>6
  <2>8. wr.pos <= D[n]
    BY <1>3, <2>1, <2>7, ChainAhead
  <2>9. Soon(rec, D[n])
    BY <2>1, <2>4 DEF Lined
  <2>10. D[n] \in Nat /\ D[n] <= b + 2 + MaxLag
    BY <2>9 DEF Soon, s, k
  <2> HIDE DEF b
  <2> QED  BY <1>2, <1>3, <2>8, <2>10
<1>8. ASSUME k > T[s], k <= Put(s) PROVE now <= b + 2 + 2 * MaxLag
  <2>1. PICK A :
          /\ Chain(Row(s), RowCnt(s), Pos(s), Lo(s), Recs(s), Secs(s), Put(s), A, End(s))
          /\ A[Pos(s)] + Lo(s) = T[s] + Waits(s)
    BY <1>5 DEF Sorted
  <2>2. Pos(s) \in Nat /\ Waits(s) \in {0, 1} /\ Put(s) \in Nat
    BY <1>1, <1>2, SortedTypes
  <2>3. k \in 1 .. Put(s)
    BY <1>2, <1>8, <2>2
  <2>4. A[Pos(s)] + Lo(s) <= k
    BY <1>2, <1>5, <1>8, <2>1, <2>2
  <2>5. Pos(s) <= Secs(s)[k]
    BY <2>1, <2>2, <2>3, <2>4, ChainAhead
  <2>6. Secs(s)[k] = b + 1
    BY <1>2 DEF Secs
  <2>7. fl.pos <= Pos(s)
    BY <1>3 DEF Pos
  <2> HIDE DEF b
  <2> QED  BY <1>2, <1>3, <2>2, <2>5, <2>6, <2>7
<1>9. ASSUME k > Put(s) PROVE now <= b + 2 + 2 * MaxLag
  <2>1. mgr[s].pc = "store" /\ k = Len(born[s])
    BY <1>2, <1>9 DEF Put
  <2>2. now <= mgr[s].at + 1 /\ mgr[s].at = b
    BY <1>1, <1>2, <2>1 DEF WritersAhead
  <2> HIDE DEF b
  <2> QED  BY <1>2, <1>3, <2>2
<1>10. Put(s) \in Nat
  BY <1>1, <1>2, SortedTypes
<1>11. k <= T[s] \/ (k > T[s] /\ k <= Put(s)) \/ k > Put(s)
  BY <1>2, <1>5, <1>10
<1> QED  BY <1>7, <1>8, <1>9, <1>11 DEF s, k

-----------------------------------------------------------------------------
LEMMA Keeping == InTime => (XdrSpec => []Whole)
<1> SUFFICES ASSUME InTime PROVE XdrSpec => []Whole
  OBVIOUS
<1>1. XdrInit => Whole
  BY InitWhole
<1>2. Whole /\ [XdrNext]_xdrVars => Whole'
  BY NextWhole
<1> QED  BY <1>1, <1>2, PTL DEF XdrSpec

(* The state the threads share keeps its types; while no reader empties a  *)
(* slot, its count is the next free index.                                 *)
THEOREM XdrTypes == InTime => (XdrSpec => []XdrTypeOK)
<1> SUFFICES ASSUME InTime PROVE XdrSpec => []XdrTypeOK
  OBVIOUS
<1> QED  BY Keeping, WholeTypes, PTL

(* However the threads and the operator's switching interleave, no thread  *)
(* stores into a map another one is emptying, no line is in the file twice *)
(* and, with writing on throughout, each session manager's lines are in    *)
(* the order its sessions ended in, none missing.                          *)
THEOREM XdrInOrder == InTime => (XdrSpec => []InOrder)
<1> SUFFICES ASSUME InTime PROVE XdrSpec => []InOrder
  OBVIOUS
<1>1. Whole => InOrder
  BY WholeOrder
<1> QED  BY <1>1, Keeping, PTL

(* A finished session is in the file two seconds after it ended, but for   *)
(* the time the flusher and the writer are behind the clock.               *)
THEOREM XdrLatency == InTime => (XdrSpec => []Latency)
<1> SUFFICES ASSUME InTime PROVE XdrSpec => []Latency
  OBVIOUS
<1>1. Whole => Latency
  BY WholeSoon
<1> QED  BY <1>1, Keeping, PTL

(* A finished session is written, or on its way, or was met by a flusher   *)
(* that saw writing off or had no slot for it; it is never just lost.      *)
THEOREM XdrConserved == InTime => (XdrSpec => []Conserved)
<1> SUFFICES ASSUME InTime PROVE XdrSpec => []Conserved
  OBVIOUS
<1>1. Whole => Conserved
  BY KeptConserves DEF Whole
<1> QED  BY <1>1, Keeping, PTL

-----------------------------------------------------------------------------
(* The log. *)

Threads == Callers \cup {Flusher}

InCall == {"test", "lockQueue", "push", "unlock"}

(* Where each thread can be, and what it has locked there.                 *)
Locked ==
    /\ \A c \in Callers :
         /\ pc[c] \in {"idle", "lock"} \cup InCall
         /\ pc[c] \in InCall => mutex = c
         /\ pc[c] = "push" => qlock = c
         /\ pc[c] # "idle" => logged[c] >= 1
         /\ pc[c] \in {"lockQueue", "push"} => text[c].from = c
    /\ pc[Flusher] \in {"pop", "check", "wait", "lock", "write"}
    /\ pc[Flusher] = "write" => mutex = Flusher
    /\ pc[Flusher] = "check" => qlock = Flusher

Safe == TypeOK /\ Locked

LEMMA Names ==
    /\ Flusher \notin Callers /\ NoOne \notin Callers /\ Main \in Callers
    /\ Flusher # NoOne /\ Flusher # Main
    BY LogAssumption DEF Callers, Main, Flusher, NoOne

LEMMA Bounds ==
    /\ LogLevels \subseteq Nat /\ LineLevels \subseteq Nat
    /\ MaxLines \in Nat /\ MaxLines > 0 /\ MaxClock \in Nat
    BY LogAssumption

Pcs == {"idle", "lock", "test", "lockQueue", "push", "unlock", "pop", "check", "wait", "write"}

LEMMA SafeInit == Init => Safe
<1> SUFFICES ASSUME Init PROVE Safe
    OBVIOUS
<1>1. NoLine \in Lines
    BY Names, Bounds DEF NoLine, Lines
<1>2. pc[Flusher] = "pop" /\ \A c \in Callers : pc[c] = "idle"
    BY Names DEF Init
<1>3. TypeOK
    <2>1. pc \in [Threads -> Pcs] /\ text \in [Threads -> Lines]
        BY <1>1 DEF Init, Threads, Pcs
    <2>2. asked \in [Callers -> [line : Nat, log : Nat]] /\ logged \in [Callers -> 0 .. MaxLines]
        BY Bounds DEF Init
    <2>3. /\ queue \in Seq(Lines) /\ pushed \in Seq(Lines) /\ handled \in Seq(Lines)
          /\ clock \in 0 .. MaxClock /\ due \in Nat /\ asleepAt \in 0 .. MaxClock /\ level \in Nat
        BY Bounds DEF Init
    <2> QED  BY <2>1, <2>2, <2>3 DEF Init, TypeOK, Threads, Pcs
<1>4. Locked
    BY <1>2 DEF Locked, InCall
<1> QED  BY <1>3, <1>4 DEF Safe

LEMMA CallerKeepsSafe ==
    ASSUME Safe, NEW c \in Callers, CallerSteps(c)
    PROVE  Safe'
<1> USE DEF Safe
<1>0. /\ c \in Threads /\ pc \in [Threads -> Pcs] /\ text \in [Threads -> Lines]
      /\ logged \in [Callers -> 0 .. MaxLines] /\ asked \in [Callers -> [line : Nat, log : Nat]]
      /\ clock \in 0 .. MaxClock /\ level \in Nat
    BY DEF TypeOK, Threads, Pcs
<1>1. CASE Call(c)
    <2>1. PICK l \in LineLevels : asked' = [asked EXCEPT ![c] = [line |-> l, log |-> level]]
        BY <1>1 DEF Call
    <2>2. asked' \in [Callers -> [line : Nat, log : Nat]]
        BY <1>0, <2>1, Bounds
    <2>3. /\ logged' \in [Callers -> 0 .. MaxLines] /\ logged'[c] >= 1
          /\ \A d \in Callers : d # c => logged'[d] = logged[d]
        <3> DEFINE n == IF stage = "last" /\ c = Main THEN MaxLines ELSE logged[c] + 1
        <3>1. logged' = [logged EXCEPT ![c] = n] /\ logged[c] < MaxLines
            BY <1>1 DEF Call
        <3>2. n \in 0 .. MaxLines /\ n >= 1
            BY <1>0, <3>1, Bounds
        <3> HIDE DEF n
        <3> QED  BY <1>0, <3>1, <3>2
    <2>4. /\ pc' = [pc EXCEPT ![c] = "lock"]
          /\ UNCHANGED <<mutex, qlock, asleep, queue, text, stage, stream, level, clock, due, asleepAt, pushed, handled>>
        BY <1>1 DEF Call, mainVars
    <2>5. pc'[c] = "lock" /\ \A t \in Threads : t # c => pc'[t] = pc[t]
        BY <1>0, <2>4
    <2>6. TypeOK'
        BY <2>2, <2>3, <2>4 DEF TypeOK
    <2>7. Locked'
        BY <2>3, <2>4, <2>5, Names DEF Locked, Threads, InCall
    <2> QED  BY <2>6, <2>7
<1>2. CASE LockMutex(c)
    <2>1. /\ mutex = NoOne /\ mutex' = c /\ pc' = [pc EXCEPT ![c] = "test"] /\ pc[c] = "lock"
          /\ UNCHANGED <<qlock, asleep, queue, text, asked, logged, stage, stream, level, clock, due, asleepAt, pushed, handled>>
        BY <1>2 DEF LockMutex, mainVars, callerVars
    <2>2. pc'[c] = "test" /\ \A t \in Threads : t # c => pc'[t] = pc[t]
        BY <1>0, <2>1
    <2>3. TypeOK'
        BY <2>1 DEF TypeOK
    <2>4. Locked'
        BY <2>1, <2>2, Names DEF Locked, Threads, InCall
    <2> QED  BY <2>3, <2>4
<1>3. CASE Reject(c)
    <2>1. /\ pc' = [pc EXCEPT ![c] = "unlock"] /\ pc[c] = "test"
          /\ UNCHANGED <<mutex, qlock, asleep, queue, text, asked, logged, stage, stream, level, clock, due, asleepAt, pushed, handled>>
        BY <1>3 DEF Reject, mainVars, callerVars
    <2>2. pc'[c] = "unlock" /\ \A t \in Threads : t # c => pc'[t] = pc[t]
        BY <1>0, <2>1
    <2>3. TypeOK'
        BY <2>1 DEF TypeOK
    <2>4. Locked'
        BY <2>1, <2>2, Names DEF Locked, Threads, InCall
    <2> QED  BY <2>3, <2>4
<1>4. CASE Header(c)
    <2> DEFINE line == [from |-> c, no |-> logged[c], stamp |-> clock]
    <2>1. /\ pc' = [pc EXCEPT ![c] = "lockQueue"] /\ pc[c] = "test"
          /\ text' = [text EXCEPT ![c] = line]
          /\ UNCHANGED <<mutex, qlock, asleep, queue, asked, logged, stage, stream, level, clock, due, asleepAt, pushed, handled>>
        BY <1>4 DEF Header, mainVars
    <2>2. pc'[c] = "lockQueue" /\ \A t \in Threads : t # c => pc'[t] = pc[t]
        BY <1>0, <2>1
    <2>3. line \in Lines /\ line.from = c
        BY <1>0, <2>1, Bounds DEF Locked, Lines
    <2> HIDE DEF line
    <2>4. /\ text' \in [Threads -> Lines] /\ text'[c].from = c
          /\ \A t \in Threads : t # c => text'[t] = text[t]
        BY <1>0, <2>1, <2>3
    <2>5. TypeOK'
        BY <2>1, <2>4 DEF TypeOK, Threads
    <2>6. Locked'
        BY <2>1, <2>2, <2>4, Names DEF Locked, Threads, InCall
    <2> QED  BY <2>5, <2>6
<1>5. CASE LockQueue(c)
    <2>1. /\ pc' = [pc EXCEPT ![c] = "push"] /\ pc[c] = "lockQueue" /\ qlock = NoOne /\ qlock' = c
          /\ UNCHANGED <<mutex, asleep, queue, text, asked, logged, stage, stream, level, clock, due, asleepAt, pushed, handled>>
        BY <1>5 DEF LockQueue, mainVars, callerVars
    <2>2. pc'[c] = "push" /\ \A t \in Threads : t # c => pc'[t] = pc[t]
        BY <1>0, <2>1
    <2>3. TypeOK'
        BY <2>1 DEF TypeOK
    <2>4. Locked'
        BY <2>1, <2>2, Names DEF Locked, Threads, InCall
    <2> QED  BY <2>3, <2>4
<1>6. CASE Push(c)
    <2>1. /\ pc' = [pc EXCEPT ![c] = "unlock"] /\ pc[c] = "push" /\ qlock' = NoOne
          /\ queue' = Append(queue, text[c]) /\ pushed' = Append(pushed, text[c]) /\ asleep' = FALSE
          /\ UNCHANGED <<mutex, text, asked, logged, stage, stream, level, clock, due, asleepAt, handled>>
        BY <1>6 DEF Push, mainVars, callerVars
    <2>2. pc'[c] = "unlock" /\ \A t \in Threads : t # c => pc'[t] = pc[t]
        BY <1>0, <2>1
    <2>3. TypeOK'
        <3>1. text[c] \in Lines
            BY <1>0
        <3>2. queue' \in Seq(Lines) /\ pushed' \in Seq(Lines)
            BY <2>1, <3>1, AppendProperties DEF TypeOK
        <3> QED  BY <2>1, <3>2 DEF TypeOK
    <2>4. qlock = c
        BY <2>1 DEF Locked
    <2>5. Locked'
        BY <2>1, <2>2, <2>4, Names DEF Locked, Threads, InCall
    <2> QED  BY <2>3, <2>5
<1>7. CASE Unlock(c)
    <2>1. /\ pc' = [pc EXCEPT ![c] = "idle"] /\ pc[c] = "unlock" /\ mutex' = NoOne
          /\ UNCHANGED <<qlock, asleep, queue, text, asked, logged, stage, stream, level, clock, due, asleepAt, pushed, handled>>
        BY <1>7 DEF Unlock, mainVars, callerVars
    <2>2. pc'[c] = "idle" /\ \A t \in Threads : t # c => pc'[t] = pc[t]
        BY <1>0, <2>1
    <2>3. TypeOK'
        BY <2>1 DEF TypeOK
    <2>4. mutex = c
        BY <2>1 DEF Locked, InCall
    <2>5. Locked'
        BY <2>1, <2>2, <2>4, Names DEF Locked, Threads, InCall
    <2> QED  BY <2>3, <2>5
<1> QED  BY <1>1, <1>2, <1>3, <1>4, <1>5, <1>6, <1>7 DEF CallerSteps

LEMMA FlusherKeepsSafe ==
    ASSUME Safe, FlusherSteps \/ TimeOut
    PROVE  Safe'
<1> USE DEF Safe
<1>0. /\ Flusher \in Threads /\ pc \in [Threads -> Pcs] /\ text \in [Threads -> Lines]
      /\ queue \in Seq(Lines) /\ handled \in Seq(Lines)
    BY DEF TypeOK, Threads, Pcs
<1>1. ASSUME NEW at \in Pcs, pc' = [pc EXCEPT ![Flusher] = at]
      PROVE  /\ pc' \in [Threads -> Pcs] /\ pc'[Flusher] = at
             /\ \A c \in Callers : pc'[c] = pc[c]
    BY <1>0, <1>1, Names DEF Threads
<1> USE DEF flusherVars, callerVars, mainVars
<1>2. CASE PopLock \/ Wake
    <2>1. /\ pc' = [pc EXCEPT ![Flusher] = "check"] /\ qlock = NoOne /\ qlock' = Flusher
          /\ pc[Flusher] \in {"pop", "wait"}
          /\ UNCHANGED <<mutex, asleep, queue, text, asked, logged, stage, stream, level, clock, due, asleepAt, pushed, handled>>
        BY <1>2 DEF PopLock, Wake
    <2>2. /\ pc' \in [Threads -> Pcs] /\ pc'[Flusher] = "check" /\ \A c \in Callers : pc'[c] = pc[c]
        BY <1>1, <2>1 DEF Pcs
    <2>3. TypeOK'
        BY <2>1, <2>2 DEF TypeOK, Threads, Pcs
    <2>4. Locked'
        BY <2>1, <2>2, Names DEF Locked
    <2> QED  BY <2>3, <2>4
<1>3. CASE Wait
    <2>1. /\ pc' = [pc EXCEPT ![Flusher] = "wait"] /\ qlock' = NoOne /\ asleep' = TRUE /\ pc[Flusher] = "check"
          /\ UNCHANGED <<mutex, queue, text, asked, logged, stage, stream, level, clock, due, asleepAt, pushed, handled>>
        BY <1>3 DEF Wait
    <2>2. /\ pc' \in [Threads -> Pcs] /\ pc'[Flusher] = "wait" /\ \A c \in Callers : pc'[c] = pc[c]
        BY <1>1, <2>1 DEF Pcs
    <2>3. TypeOK'
        BY <2>1, <2>2 DEF TypeOK, Threads, Pcs
    <2>4. qlock = Flusher
        BY <2>1 DEF Locked
    <2>5. Locked'
        BY <2>1, <2>2, <2>4, Names DEF Locked
    <2> QED  BY <2>3, <2>5
<1>4. CASE TimeOut
    <2>1. /\ asleep' = FALSE
          /\ UNCHANGED <<pc, mutex, qlock, queue, text, asked, logged, stage, stream, level, clock, due, asleepAt, pushed, handled>>
        BY <1>4 DEF TimeOut
    <2>2. TypeOK'
        BY <2>1 DEF TypeOK
    <2>3. Locked'
        BY <2>1 DEF Locked
    <2> QED  BY <2>2, <2>3
<1>5. CASE TakeLine
    <2>1. /\ pc' = [pc EXCEPT ![Flusher] = "lock"] /\ qlock' = NoOne /\ pc[Flusher] = "check"
          /\ queue # << >> /\ queue' = Tail(queue) /\ text' = [text EXCEPT ![Flusher] = Head(queue)]
          /\ UNCHANGED <<mutex, asleep, asked, logged, stage, stream, level, clock, due, asleepAt, pushed, handled>>
        BY <1>5 DEF TakeLine
    <2>2. /\ pc' \in [Threads -> Pcs] /\ pc'[Flusher] = "lock" /\ \A c \in Callers : pc'[c] = pc[c]
        BY <1>1, <2>1 DEF Pcs
    <2>3. Head(queue) \in Lines /\ Tail(queue) \in Seq(Lines)
        BY <1>0, <2>1
    <2>4. text' \in [Threads -> Lines] /\ \A c \in Callers : text'[c] = text[c]
        BY <1>0, <2>1, <2>3, Names DEF Threads
    <2>5. TypeOK'
        BY <2>1, <2>2, <2>3, <2>4 DEF TypeOK, Threads, Pcs
    <2>6. qlock = Flusher
        BY <2>1 DEF Locked
    <2>7. Locked'
        BY <2>1, <2>2, <2>4, <2>6, Names DEF Locked
    <2> QED  BY <2>5, <2>7
<1>6. CASE FlushLock
    <2>1. /\ pc' = [pc EXCEPT ![Flusher] = "write"] /\ mutex = NoOne /\ mutex' = Flusher
          /\ UNCHANGED <<qlock, asleep, queue, text, asked, logged, stage, stream, level, clock, due, asleepAt, pushed, handled>>
        BY <1>6 DEF FlushLock
    <2>2. /\ pc' \in [Threads -> Pcs] /\ pc'[Flusher] = "write" /\ \A c \in Callers : pc'[c] = pc[c]
        BY <1>1, <2>1 DEF Pcs
    <2>3. TypeOK'
        BY <2>1, <2>2 DEF TypeOK, Threads, Pcs
    <2>4. Locked'
        BY <2>1, <2>2, Names DEF Locked
    <2> QED  BY <2>3, <2>4
<1>7. CASE WriteLine
    <2>1. /\ pc' = [pc EXCEPT ![Flusher] = "pop"] /\ pc[Flusher] = "write" /\ mutex' = NoOne
          /\ handled' = Append(handled, text[Flusher])
          /\ UNCHANGED <<qlock, asleep, queue, text, asked, logged, stage, stream, level, clock, due, asleepAt, pushed>>
        BY <1>7 DEF WriteLine
    <2>2. /\ pc' \in [Threads -> Pcs] /\ pc'[Flusher] = "pop" /\ \A c \in Callers : pc'[c] = pc[c]
        BY <1>1, <2>1 DEF Pcs
    <2>3. text[Flusher] \in Lines
        BY <1>0
    <2>4. handled' \in Seq(Lines)
        BY <1>0, <2>1, <2>3, AppendProperties
    <2>5. TypeOK'
        BY <2>1, <2>2, <2>4 DEF TypeOK, Threads, Pcs
    <2>6. mutex = Flusher
        BY <2>1 DEF Locked
    <2>7. Locked'
        BY <2>1, <2>2, <2>6, Names DEF Locked, InCall
    <2> QED  BY <2>5, <2>7
<1> QED  BY <1>2, <1>3, <1>4, <1>5, <1>6, <1>7 DEF FlusherSteps

LEMMA MainKeepsSafe ==
    ASSUME Safe, Open \/ SetLevel \/ LastLine \/ Sleep \/ Exit \/ CutShort \/ Tick
    PROVE  Safe'
<1> USE DEF Safe
<1>1. UNCHANGED <<pc, mutex, qlock, asleep, queue, text, asked, logged, pushed, handled>>
    BY DEF Open, SetLevel, LastLine, Sleep, Exit, CutShort, Tick, callerVars
<1>2. Locked'
    BY <1>1 DEF Locked
<1>3. /\ stage' \in {"open", "level", "running", "last", "sleeping", "exited", "cutShort"} /\ stream' \in BOOLEAN
      /\ level' \in Nat
    BY Bounds DEF Open, SetLevel, LastLine, Sleep, Exit, CutShort, Tick, TypeOK
<1>4. clock' \in 0 .. MaxClock /\ due' \in Nat /\ asleepAt' \in 0 .. MaxClock
    <2>1. Len(pushed) \in Nat
        BY DEF TypeOK
    <2>2. CASE Tick
        BY <2>2, Bounds DEF Tick, TypeOK
    <2>3. CASE Sleep
        BY <2>1, <2>3 DEF Sleep, TypeOK
    <2>4. CASE Open \/ SetLevel \/ LastLine \/ Exit \/ CutShort
        BY <2>4 DEF Open, SetLevel, LastLine, Exit, CutShort, TypeOK
    <2> QED  BY <2>2, <2>3, <2>4
<1>5. TypeOK'
    BY <1>1, <1>3, <1>4 DEF TypeOK
<1> QED  BY <1>2, <1>5

LEMMA SafeStep == ASSUME Safe, [Next]_vars PROVE Safe'
<1>1. ASSUME NEW c \in Callers, CallerSteps(c) PROVE Safe'
    BY <1>1, CallerKeepsSafe
<1>2. CASE UNCHANGED vars
    <2>1. UNCHANGED <<stage, pc, mutex, qlock, asleep, stream, level, queue, text, asked, logged,
                      clock, due, asleepAt, pushed, handled>>
        BY <1>2 DEF vars
    <2> QED  BY <2>1 DEF Safe, TypeOK, Locked
<1> QED  BY <1>1, <1>2, FlusherKeepsSafe, MainKeepsSafe DEF Next, Ended

(* The variables have their types in every reachable state. *)
THEOREM TypeCorrect == Spec => []TypeOK
<1>1. Init => Safe
    BY SafeInit
<1>2. Safe /\ [Next]_vars => Safe'
    BY SafeStep
<1>3. Safe => TypeOK
    BY DEF Safe
<1> QED  BY <1>1, <1>2, <1>3, PTL DEF Spec

LEMMA SafeAlways == Spec => []Safe
<1>1. Init => Safe
    BY SafeInit
<1>2. Safe /\ [Next]_vars => Safe'
    BY SafeStep
<1> QED  BY <1>1, <1>2, PTL DEF Spec

-----------------------------------------------------------------------------
(* A caller with a stamped line has the mutex, so it is the only one: its  *)
(* line is the next to go in, and no other can get a later stamp before.   *)
Stamped == {"lockQueue", "push"}

Ordered ==
    /\ \A i \in DOMAIN pushed : pushed[i].stamp <= clock
    /\ StampsInOrder
    /\ \A c \in Callers : pc[c] \in Stamped =>
         /\ text[c].stamp <= clock
         /\ \A i \in DOMAIN pushed : pushed[i].stamp <= text[c].stamp

(* What a step does to the lines on their way into the queue, unless it    *)
(* stamps one or puts one in.                                              *)
Aside ==
    /\ UNCHANGED pushed /\ clock' \in {clock, clock + 1}
    /\ \A c \in Callers : text'[c] = text[c]
    /\ \A c \in Callers : pc'[c] \in Stamped => pc[c] \in Stamped

LEMMA OtherStepsAside ==
    ASSUME Safe, [Next]_vars, \A c \in Callers : ~Header(c) /\ ~Push(c)
    PROVE  Aside
<1>0. pc \in [Threads -> Pcs] /\ text \in [Threads -> Lines] /\ Flusher \in Threads
    BY DEF Safe, TypeOK, Threads, Pcs
<1>1. ASSUME NEW c \in Callers, CallerSteps(c) PROVE Aside
    <2>1. /\ UNCHANGED <<pushed, clock, text>>
          /\ \E at \in Pcs : pc' = [pc EXCEPT ![c] = at] /\ (at \in Stamped => pc[c] \in Stamped)
        BY <1>1 DEF CallerSteps, Call, LockMutex, Reject, LockQueue, Unlock,
                    callerVars, mainVars, Stamped, Pcs
    <2> QED  BY <1>0, <2>1 DEF Aside, Threads
<1>2. CASE FlusherSteps \/ TimeOut
    <2>1. /\ UNCHANGED <<pushed, clock>>
          /\ text' = text \/ text' = [text EXCEPT ![Flusher] = Head(queue)]
          /\ pc' = pc \/ \E at \in Pcs : pc' = [pc EXCEPT ![Flusher] = at]
        BY <1>2 DEF FlusherSteps, TimeOut, PopLock, Wait, Wake, TakeLine, FlushLock, WriteLine,
                    flusherVars, callerVars, mainVars, Pcs
    <2> QED  BY <1>0, <2>1, Names DEF Aside, Threads
<1>3. CASE Open \/ SetLevel \/ LastLine \/ Sleep \/ Exit \/ CutShort \/ Tick
    <2>1. UNCHANGED <<pushed, text, pc>> /\ clock' \in {clock, clock + 1}
        BY <1>3 DEF Open, SetLevel, LastLine, Sleep, Exit, CutShort, Tick, callerVars
    <2> QED  BY <2>1 DEF Aside
<1>4. CASE UNCHANGED vars
    BY <1>4 DEF vars, Aside
<1> QED  BY <1>1, <1>2, <1>3, <1>4 DEF Next, Ended

LEMMA OrderedStep == ASSUME Safe, Ordered, [Next]_vars PROVE Ordered'
<1>0. /\ pc \in [Threads -> Pcs] /\ text \in [Threads -> Lines] /\ pushed \in Seq(Lines)
      /\ clock \in Nat /\ \A x \in Lines : x.stamp \in Nat
    BY DEF Safe, TypeOK, Threads, Pcs, Lines
<1>1. ASSUME NEW c \in Callers, pc[c] \in InCall, NEW d \in Callers, pc[d] \in InCall
      PROVE  d = c
    BY <1>1 DEF Safe, Locked
<1>2. ASSUME NEW c \in Callers, Header(c) PROVE Ordered'
    <2> DEFINE line == [from |-> c, no |-> logged[c], stamp |-> clock]
    <2>1. /\ UNCHANGED <<pushed, clock>> /\ pc[c] = "test"
          /\ pc' = [pc EXCEPT ![c] = "lockQueue"] /\ text' = [text EXCEPT ![c] = line]
        BY <1>2 DEF Header, mainVars
    <2>2. line.stamp = clock
        OBVIOUS
    <2> HIDE DEF line
    <2>3. /\ text'[c].stamp = clock
          /\ \A d \in Callers : d # c => pc'[d] = pc[d]
        BY <1>0, <2>1, <2>2 DEF Threads
    <2>4. \A d \in Callers : pc'[d] \in Stamped => d = c
        BY <1>1, <2>1, <2>3 DEF Stamped, InCall
    <2> QED  BY <1>0, <2>1, <2>3, <2>4 DEF Ordered, StampsInOrder
<1>3. ASSUME NEW c \in Callers, Push(c) PROVE Ordered'
    <2>1. /\ UNCHANGED <<text, clock>> /\ pc[c] = "push" /\ pushed' = Append(pushed, text[c])
          /\ pc' = [pc EXCEPT ![c] = "unlock"]
        BY <1>3 DEF Push, mainVars, callerVars
    <2>2. \A d \in Callers : pc'[d] \notin Stamped
        <3>1. pc'[c] = "unlock" /\ \A d \in Callers : d # c => pc'[d] = pc[d]
            BY <1>0, <2>1 DEF Threads
        <3> QED  BY <1>1, <2>1, <3>1 DEF Stamped, InCall
    <2>3. /\ text[c].stamp <= clock
          /\ \A i \in DOMAIN pushed : pushed[i].stamp <= text[c].stamp
        BY <2>1 DEF Ordered, Stamped
    <2>4. /\ DOMAIN pushed' = 1 .. Len(pushed) + 1 /\ DOMAIN pushed = 1 .. Len(pushed)
          /\ Len(pushed) \in Nat /\ pushed'[Len(pushed) + 1] = text[c]
          /\ \A i \in DOMAIN pushed : pushed'[i] = pushed[i]
        <3>1. text[c] \in Lines
            BY <1>0 DEF Threads
        <3> QED  BY <1>0, <2>1, <3>1, AppendProperties
    <2>5. text[c].stamp \in Nat /\ \A i \in DOMAIN pushed : pushed[i].stamp \in Nat
        BY <1>0, <2>4 DEF Threads
    <2>6. \A i \in DOMAIN pushed' : pushed'[i].stamp <= clock
        BY <2>3, <2>4 DEF Ordered
    <2>7. StampsInOrder'
        <3> SUFFICES ASSUME NEW i \in DOMAIN pushed', NEW j \in DOMAIN pushed', i < j
                     PROVE  pushed'[i].stamp <= pushed'[j].stamp
            BY DEF StampsInOrder
        <3>1. i \in DOMAIN pushed
            BY <2>4
        <3>2. CASE j \in DOMAIN pushed
            BY <2>4, <3>1, <3>2 DEF Ordered, StampsInOrder
        <3>3. CASE j = Len(pushed) + 1
            BY <2>3, <2>4, <3>1, <3>3
        <3> QED  BY <2>4, <3>2, <3>3
    <2> QED  BY <2>1, <2>2, <2>6, <2>7 DEF Ordered
<1>4. ASSUME Aside PROVE Ordered'
    <2>1. /\ pushed' = pushed /\ clock' >= clock /\ clock' \in Nat
          /\ \A i \in DOMAIN pushed : pushed[i].stamp \in Nat
          /\ \A c \in Callers : text[c].stamp \in Nat /\ text'[c] = text[c]
        <3>1. \A i \in DOMAIN pushed : pushed[i] \in Lines
            BY <1>0, ElementOfSeq
        <3> QED  BY <1>0, <1>4, <3>1 DEF Aside, Threads
    <2>2. \A c \in Callers : pc'[c] \in Stamped => pc[c] \in Stamped
        BY <1>4 DEF Aside
    <2>3. StampsInOrder'
        BY <2>1 DEF Ordered, StampsInOrder
    <2>4. \A i \in DOMAIN pushed : pushed[i].stamp <= clock'
        BY <1>0, <2>1 DEF Ordered
    <2>5. ASSUME NEW c \in Callers, pc'[c] \in Stamped
          PROVE  text[c].stamp <= clock' /\ \A i \in DOMAIN pushed : pushed[i].stamp <= text[c].stamp
        BY <1>0, <2>1, <2>2, <2>5 DEF Ordered
    <2> QED  BY <2>1, <2>3, <2>4, <2>5 DEF Ordered
<1> QED  BY <1>2, <1>3, <1>4, OtherStepsAside

(* The lines go into the queue in the order of their time stamps, although *)
(* each thread stamps its own.                                             *)
THEOREM StampsStayInOrder == Spec => []StampsInOrder
<1>1. Init => Ordered
    BY Names DEF Init, Ordered, StampsInOrder, Stamped
<1>2. Ordered => StampsInOrder
    BY DEF Ordered
<1> QED  BY <1>1, <1>2, SafeAlways, OrderedStep, PTL DEF Spec

-----------------------------------------------------------------------------
(* Every line that went in has been handled, is in the hand of the flush   *)
(* thread, or is in the queue, in this order.                              *)
InHand == IF pc[Flusher] \in {"lock", "write"} THEN 1 ELSE 0

Flow ==
    /\ Len(pushed) = Len(handled) + InHand + Len(queue)
    /\ InHand = 1 => text[Flusher] = pushed[Len(handled) + 1]
    /\ \A i \in 1 .. Len(queue) : queue[i] = pushed[Len(handled) + InHand + i]

LEMMA Lengths ==
    ASSUME Safe
    PROVE  /\ Len(pushed) \in Nat /\ Len(handled) \in Nat /\ Len(queue) \in Nat
           /\ InHand \in {0, 1}
    BY DEF Safe, TypeOK, InHand

(* Each step puts a line in, moves one on, or leaves them all where they are. *)
LEMMA FlowStep ==
    ASSUME Safe, Flow, [Next]_vars
    PROVE  Flow' /\ [ToFile!Put \/ ToFile!Take]_<<pushed, handled>>
<1> DEFINE Goal == Flow' /\ [ToFile!Put \/ ToFile!Take]_<<pushed, handled>>
<1>0. /\ pc \in [Threads -> Pcs] /\ text \in [Threads -> Lines] /\ Flusher \in Threads
      /\ pushed \in Seq(Lines) /\ handled \in Seq(Lines) /\ queue \in Seq(Lines)
    BY DEF Safe, TypeOK, Threads, Pcs
<1>1. ASSUME UNCHANGED <<pushed, handled, queue, InHand>>, InHand = 1 => text'[Flusher] = text[Flusher]
      PROVE  Goal
    BY <1>1 DEF Flow
<1>2. ASSUME NEW c \in Callers, CallerSteps(c) PROVE Goal
    <2>1. CASE Push(c)
        <3>1. /\ pushed' = Append(pushed, text[c]) /\ queue' = Append(queue, text[c])
              /\ UNCHANGED <<handled, text>> /\ pc' = [pc EXCEPT ![c] = "unlock"]
            BY <2>1 DEF Push, callerVars
        <3>2. pc'[Flusher] = pc[Flusher] /\ InHand' = InHand
            BY <1>0, <3>1, Names DEF InHand
        <3>3. text[c] \in Lines
            BY <1>0 DEF Threads
        <3>4. /\ Len(pushed') = Len(pushed) + 1 /\ Len(queue') = Len(queue) + 1
              /\ pushed'[Len(pushed) + 1] = text[c] /\ queue'[Len(queue) + 1] = text[c]
              /\ \A i \in 1 .. Len(pushed) : pushed'[i] = pushed[i]
              /\ \A i \in 1 .. Len(queue) : queue'[i] = queue[i]
            BY <1>0, <3>1, <3>3, AppendProperties
        <3>5. ASSUME NEW i \in 1 .. Len(queue') PROVE queue'[i] = pushed'[Len(handled) + InHand + i]
            <4>1. CASE i = Len(queue) + 1
                BY <3>4, <4>1, Lengths DEF Flow
            <4>2. CASE i \in 1 .. Len(queue)
                <5>1. queue'[i] = pushed[Len(handled) + InHand + i]
                    BY <3>4, <4>2 DEF Flow
                <5>2. Len(handled) + InHand + i \in 1 .. Len(pushed)
                    BY <4>2, Lengths DEF Flow
                <5> QED  BY <3>4, <5>1, <5>2
            <4> QED  BY <3>4, <4>1, <4>2, Lengths
        <3>6. ASSUME InHand = 1 PROVE text'[Flusher] = pushed'[Len(handled) + 1]
            BY <3>1, <3>4, <3>6, Lengths DEF Flow
        <3>7. Flow'
            <4>1. Len(pushed') = Len(handled) + InHand + Len(queue')
                <5>1. Len(pushed') = Len(pushed) + 1 /\ Len(queue') = Len(queue) + 1
                    BY <3>4
                <5>2. Len(pushed) = Len(handled) + InHand + Len(queue)
                    BY DEF Flow
                <5>3. Len(handled) \in Nat /\ Len(queue) \in Nat /\ InHand \in Nat
                    BY Lengths
                <5> QED  BY <5>1, <5>2, <5>3
            <4>2. InHand' = InHand /\ handled' = handled
                BY <3>1, <3>2
            <4> QED  BY <3>5, <3>6, <4>1, <4>2 DEF Flow
        <3>8. ToFile!Put
            BY <3>1, <3>3 DEF ToFile!Put
        <3> QED  BY <3>7, <3>8
    <2>2. CASE ~Push(c)
        <3>1. /\ UNCHANGED <<pushed, handled, queue>> /\ text'[Flusher] = text[Flusher]
              /\ \E at \in Pcs : pc' = [pc EXCEPT ![c] = at]
            BY <1>0, <1>2, <2>2, Names DEF CallerSteps, Call, LockMutex, Reject, Header, LockQueue, Unlock,
               callerVars, mainVars, Pcs
        <3>2. InHand' = InHand
            BY <1>0, <3>1, Names DEF InHand
        <3> QED  BY <1>1, <3>1, <3>2
    <2> QED  BY <2>1, <2>2
<1>3. CASE PopLock \/ Wake \/ Wait
    <2>1. /\ UNCHANGED <<pushed, handled, queue, text>> /\ pc[Flusher] \in {"pop", "wait", "check"}
          /\ pc'[Flusher] \in {"check", "wait"}
        BY <1>0, <1>3 DEF PopLock, Wake, Wait, flusherVars, callerVars
    <2>2. InHand' = InHand
        BY <2>1 DEF InHand
    <2> QED  BY <1>1, <2>1, <2>2
<1>4. CASE TakeLine
    <2>1. /\ UNCHANGED <<pushed, handled>> /\ queue # << >> /\ queue' = Tail(queue)
          /\ text'[Flusher] = Head(queue) /\ InHand = 0 /\ InHand' = 1
        BY <1>0, <1>4 DEF TakeLine, InHand
    <2>2. /\ Head(queue) = queue[1] /\ Len(queue') = Len(queue) - 1 /\ Len(queue) >= 1
          /\ \A i \in 1 .. Len(queue) - 1 : queue'[i] = queue[i + 1]
        BY <1>0, <2>1, Lengths, HeadTailProperties
    <2>3. ASSUME NEW j \in 1 .. Len(queue) PROVE queue[j] = pushed[Len(handled) + j]
        <3>1. queue[j] = pushed[Len(handled) + 0 + j] /\ j \in Nat
            BY <2>1 DEF Flow
        <3>2. Len(handled) + 0 + j = Len(handled) + j
            BY <3>1, Lengths
        <3> QED  BY <3>1, <3>2
    <2>4. ASSUME NEW i \in 1 .. Len(queue') PROVE queue'[i] = pushed[Len(handled) + 1 + i]
        <3>1. i + 1 \in 1 .. Len(queue) /\ queue'[i] = queue[i + 1]
            BY <2>2, Lengths
        <3>2. queue[i + 1] = pushed[Len(handled) + (i + 1)]
            BY <2>3, <3>1
        <3>3. Len(handled) + (i + 1) = Len(handled) + 1 + i
            BY <3>1, Lengths
        <3> QED  BY <3>1, <3>2, <3>3
    <2>5. text'[Flusher] = pushed[Len(handled) + 1]
        BY <2>1, <2>2, <2>3, Lengths
    <2>6. Len(pushed) = Len(handled) + 1 + Len(queue')
        BY <2>1, <2>2, Lengths DEF Flow
    <2>7. Flow'
        BY <2>1, <2>4, <2>5, <2>6 DEF Flow
    <2> QED  BY <2>1, <2>7
<1>5. CASE FlushLock
    <2>1. /\ UNCHANGED <<pushed, handled, queue, text>> /\ pc[Flusher] = "lock" /\ pc'[Flusher] = "write"
        BY <1>0, <1>5 DEF FlushLock, flusherVars, callerVars
    <2>2. InHand' = InHand
        BY <2>1 DEF InHand
    <2> QED  BY <1>1, <2>1, <2>2
<1>6. CASE WriteLine
    <2>1. /\ UNCHANGED <<pushed, queue>> /\ handled' = Append(handled, text[Flusher])
          /\ InHand = 1 /\ InHand' = 0
        BY <1>0, <1>6 DEF WriteLine, InHand, flusherVars
    <2>2. /\ text[Flusher] = pushed[Len(handled) + 1] /\ Len(handled) < Len(pushed)
        BY <2>1, Lengths DEF Flow
    <2>3. Len(handled') = Len(handled) + 1
        BY <1>0, <2>1, AppendProperties
    <2>4. Len(pushed) = Len(handled') + 0 + Len(queue)
        BY <2>1, <2>3, Lengths DEF Flow
    <2>5. ASSUME NEW i \in 1 .. Len(queue) PROVE queue[i] = pushed[Len(handled') + 0 + i]
        <3>1. queue[i] = pushed[Len(handled) + 1 + i] /\ i \in Nat
            BY <2>1 DEF Flow
        <3>2. Len(handled') + 0 + i = Len(handled) + 1 + i
            BY <2>3, <3>1, Lengths
        <3> QED  BY <3>1, <3>2
    <2>6. Flow'
        BY <2>1, <2>4, <2>5 DEF Flow
    <2>7. ToFile!Take
        BY <2>1, <2>2 DEF ToFile!Take
    <2> QED  BY <2>6, <2>7
<1>7. CASE Open \/ SetLevel \/ LastLine \/ Sleep \/ Exit \/ CutShort \/ Tick \/ TimeOut \/ UNCHANGED vars
    <2>1. UNCHANGED <<pushed, handled, queue, text, pc>>
        BY <1>7 DEF Open, SetLevel, LastLine, Sleep, Exit, CutShort, Tick, TimeOut, callerVars, flusherVars, vars
    <2> QED  BY <1>1, <2>1 DEF InHand
<1> QED  BY <1>2, <1>3, <1>4, <1>5, <1>6, <1>7 DEF Next, Ended, FlusherSteps

(* The log implements the channel: whatever the threads do, the lines are   *)
(* written in the order in which they went in, each once.                  *)
THEOREM Implements == Spec => ImplementsChannel
<1>1. Init => Flow /\ ToFile!Init
    <2> SUFFICES ASSUME Init PROVE Flow /\ ToFile!Init
        OBVIOUS
    <2>1. InHand = 0 /\ pushed = << >> /\ handled = << >> /\ queue = << >>
        BY DEF Init, InHand
    <2> QED  BY <2>1 DEF Flow, ToFile!Init
<1> QED  BY <1>1, SafeAlways, FlowStep, PTL DEF Spec, ToFile!Spec, ImplementsChannel

-----------------------------------------------------------------------------
(* What was in the queue when the main thread went to sleep is due at the   *)
(* first change of the second and written at the next.                     *)
IsLast(line) == line.from = Main /\ line.no = MaxLines

Settled ==
    /\ asleepAt <= clock
    /\ stage \in {"sleeping", "exited"} =>
         /\ pc[Main] = "idle"
         /\ \A i \in DOMAIN pushed : IsLast(pushed[i]) =>
              /\ clock >= asleepAt + 1 => i <= due
              /\ clock >= asleepAt + 2 => i <= Len(handled)
    /\ stage = "exited" => clock >= asleepAt + 2

LEMMA SettledStep == ASSUME Safe, Settled, [Next]_vars PROVE Settled'
<1>0. /\ pc \in [Threads -> Pcs] /\ text \in [Threads -> Lines] /\ pushed \in Seq(Lines)
      /\ handled \in Seq(Lines) /\ clock \in Nat /\ asleepAt \in Nat /\ due \in Nat
      /\ Flusher \in Threads /\ Main \in Threads /\ DOMAIN pushed = 1 .. Len(pushed)
    BY Names DEF Safe, TypeOK, Threads, Pcs
<1>1. ASSUME UNCHANGED <<stage, clock, asleepAt, due, pushed>>, Len(handled') >= Len(handled),
             stage \in {"sleeping", "exited"} => pc'[Main] = pc[Main], Len(handled') \in Nat
      PROVE  Settled'
    BY <1>0, <1>1, Lengths DEF Settled
<1>2. ASSUME NEW c \in Callers, CallerSteps(c), Running PROVE Settled'
    <2>1. ASSUME stage = "sleeping" PROVE c # Main
        BY <1>2, <2>1, Names DEF CallerSteps, Call, MayCall, LockMutex, Reject, Header, LockQueue, Push, Unlock, Settled
    <2>2. CASE Push(c)
        <3>1. /\ UNCHANGED <<stage, clock, asleepAt, due, handled>> /\ pushed' = Append(pushed, text[c])
              /\ pc' = [pc EXCEPT ![c] = "unlock"] /\ pc[c] = "push"
            BY <2>2 DEF Push, mainVars
        <3>2. text[c] \in Lines /\ text[c].from = c
            BY <1>0, <3>1 DEF Threads, Safe, Locked
        <3>3. /\ DOMAIN pushed' = 1 .. Len(pushed) + 1 /\ pushed'[Len(pushed) + 1] = text[c]
              /\ \A i \in DOMAIN pushed : pushed'[i] = pushed[i]
            BY <1>0, <3>1, <3>2, AppendProperties
        <3>4. CASE stage = "sleeping"
            <4>1. pc'[Main] = pc[Main] /\ ~IsLast(text[c])
                BY <1>0, <2>1, <3>1, <3>2, <3>4 DEF IsLast
            <4>2. \A i \in DOMAIN pushed' : IsLast(pushed'[i]) => i \in DOMAIN pushed /\ IsLast(pushed[i])
                BY <1>0, <3>3, <4>1, Lengths
            <4> QED  BY <3>1, <3>4, <4>1, <4>2 DEF Settled
        <3>5. CASE stage # "sleeping"
            BY <1>2, <3>1, <3>5 DEF Settled, Running
        <3> QED  BY <3>4, <3>5
    <2>3. CASE ~Push(c)
        <3>1. /\ UNCHANGED <<stage, clock, asleepAt, due, pushed, handled>>
              /\ \E at \in Pcs : pc' = [pc EXCEPT ![c] = at]
            BY <1>2, <2>3 DEF CallerSteps, Call, LockMutex, Reject, Header, LockQueue, Unlock, mainVars, Pcs
        <3>2. stage = "sleeping" => pc'[Main] = pc[Main]
            BY <1>0, <2>1, <3>1
        <3> QED  BY <1>1, <1>2, <3>1, <3>2, Lengths DEF Running
    <2> QED  BY <2>2, <2>3
<1>3. CASE FlusherSteps \/ TimeOut
    <2>1. /\ UNCHANGED <<stage, clock, asleepAt, due, pushed>>
          /\ handled' = handled \/ handled' = Append(handled, text[Flusher])
          /\ pc' = pc \/ \E at \in Pcs : pc' = [pc EXCEPT ![Flusher] = at]
        BY <1>3 DEF FlusherSteps, TimeOut, PopLock, Wait, Wake, TakeLine, FlushLock, WriteLine,
                    flusherVars, mainVars, Pcs
    <2>2. Len(handled') \in {Len(handled), Len(handled) + 1}
        BY <1>0, <2>1, AppendProperties
    <2>3. pc'[Main] = pc[Main]
        BY <1>0, <2>1, Names
    <2> QED  BY <1>1, <2>1, <2>2, <2>3, Lengths
<1>4. CASE Open \/ SetLevel \/ LastLine \/ CutShort
    BY <1>4, <1>0 DEF Open, SetLevel, LastLine, CutShort, Settled
<1>5. CASE Sleep
    <2>1. /\ UNCHANGED <<pc, clock, pushed, handled, due>> /\ stage' = "sleeping" /\ asleepAt' = clock /\ pc[Main] = "idle"
        BY <1>5 DEF Sleep
    <2> QED  BY <1>0, <2>1 DEF Settled
<1>6. CASE Exit
    <2>1. /\ UNCHANGED <<pc, clock, pushed, handled, due, asleepAt>> /\ stage' = "exited"
          /\ clock >= asleepAt + 2 /\ stage = "sleeping"
        BY <1>6 DEF Exit, SleepOver
    <2> QED  BY <1>0, <2>1 DEF Settled
<1>7. CASE Tick
    <2>1. /\ UNCHANGED <<stage, pc, pushed, handled, asleepAt>> /\ Len(handled) >= due
          /\ clock' = clock + 1 /\ due' = Len(pushed)
        BY <1>7 DEF Tick
    <2>2. ASSUME stage \in {"sleeping", "exited"}, NEW i \in DOMAIN pushed, IsLast(pushed[i])
          PROVE  i <= Len(pushed) /\ (clock >= asleepAt + 1 => i <= Len(handled))
        <3>1. clock >= asleepAt + 1 => i <= due
            BY <2>2 DEF Settled
        <3>2. i \in Nat /\ i <= Len(pushed)
            BY <1>0
        <3> QED  BY <1>0, <2>1, <3>1, <3>2, Lengths
    <2>3. clock' >= asleepAt + 2 => clock >= asleepAt + 1
        BY <1>0, <2>1
    <2> QED  BY <1>0, <2>1, <2>2, <2>3 DEF Settled
<1>8. CASE UNCHANGED vars
    BY <1>8 DEF vars, Settled
<1> QED  BY <1>2, <1>3, <1>4, <1>5, <1>6, <1>7, <1>8 DEF Next, Ended

(* The program does not end by itself before its last line is in the file: *)
(* only a signal during the two seconds brings the end forward.            *)
THEOREM LastLineIsWritten == Spec => []LastLineWritten
<1>1. Init => Settled
    BY DEF Init, Settled
<1>2. Safe /\ Settled => LastLineWritten
    BY DEF Settled, LastLineWritten, IsLast
<1> QED  BY <1>1, <1>2, SafeAlways, SettledStep, PTL DEF Spec
=============================================================================
