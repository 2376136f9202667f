-------------------------- MODULE TimeSlots_proofs --------------------------
(* How slot numbers follow the seconds. *)
EXTENDS TimeSlots, TLAPS

(* A product with a non-zero factor is not smaller than the other one.     *)
LEMMA ProductGrows ==
  ASSUME NEW n \in Nat, n > 0, NEW d \in Int, d >= 1
  PROVE  n * d >= n
  BY Z3

(* Quotient and remainder. *)
LEMMA DivMod ==
  ASSUME NEW a \in Nat
  PROVE  /\ a \div Slots \in Nat
         /\ a % Slots \in 0 .. Slots - 1
         /\ a = Slots * (a \div Slots) + (a % Slots)
  BY Z3, SlotsAssumption

(* They are determined by the equation. *)
LEMMA Unique ==
  ASSUME NEW q1 \in Int, NEW q2 \in Int,
         NEW r1 \in 0 .. Slots - 1, NEW r2 \in 0 .. Slots - 1,
         Slots * q1 + r1 = Slots * q2 + r2
  PROVE  q1 = q2 /\ r1 = r2
<1>0. Slots \in Nat /\ Slots > 0
  BY SlotsAssumption
<1>1. ASSUME q1 > q2 PROVE FALSE
  <2>1. Slots * (q1 - q2) >= Slots
    BY <1>0, <1>1, ProductGrows
  <2>2. Slots * (q1 - q2) = Slots * q1 - Slots * q2
    BY <1>0, Z3
  <2> QED  BY <1>0, <2>1, <2>2, Z3
<1>2. ASSUME q2 > q1 PROVE FALSE
  <2>1. Slots * (q2 - q1) >= Slots
    BY <1>0, <1>2, ProductGrows
  <2>2. Slots * (q2 - q1) = Slots * q2 - Slots * q1
    BY <1>0, Z3
  <2> QED  BY <1>0, <2>1, <2>2, Z3
<1> QED  BY <1>0, <1>1, <1>2, Z3

(* The slot after the slot of a second is that of the next second. *)
LEMMA NextSlot ==
  ASSUME NEW a \in Nat
  PROVE  /\ NextIndex(ReadIndex(a)) = ReadIndex(a + 1)
         /\ (a % Slots) + 1 >= Slots => ReadIndex(a + 1) = 0
         /\ (a % Slots) + 1 < Slots => ReadIndex(a + 1) = (a % Slots) + 1
<1>0. Slots \in Nat /\ Slots > 1
  BY SlotsAssumption
<1> DEFINE q == a \div Slots
           r == a % Slots
           q1 == (a + 1) \div Slots
           r1 == (a + 1) % Slots
<1>1. q \in Nat /\ r \in 0 .. Slots - 1 /\ a = Slots * q + r
  BY DivMod
<1>2. q1 \in Nat /\ r1 \in 0 .. Slots - 1 /\ a + 1 = Slots * q1 + r1
  BY DivMod
<1>3. a % Slots = r /\ ReadIndex(a) = r /\ ReadIndex(a + 1) = r1
  BY DEF ReadIndex
<1> HIDE DEF q, r, q1, r1
<1>4. CASE r + 1 >= Slots
  <2>1. Slots * (q + 1) = Slots * q + Slots
    BY <1>0, <1>1, Z3
  <2>2. Slots * q1 + r1 = Slots * (q + 1) + 0
    BY <1>0, <1>1, <1>2, <1>4, <2>1, Z3
  <2>3. r1 = 0
    BY <1>0, <1>1, <1>2, <2>2, Unique
  <2> QED  BY <1>0, <1>1, <1>3, <1>4, <2>3 DEF NextIndex
<1>5. CASE r + 1 < Slots
  <2>1. Slots * q1 + r1 = Slots * q + (r + 1)
    BY <1>0, <1>1, <1>2, <1>5, Z3
  <2>2. r1 = r + 1
    BY <1>0, <1>1, <1>2, <1>5, <2>1, Unique
  <2> QED  BY <1>0, <1>1, <1>2, <1>3, <1>5, <2>2 DEF NextIndex
<1> QED  BY <1>0, <1>1, <1>4, <1>5

(* Seconds less than Slots apart have different slots. *)
LEMMA SlotsApart ==
  ASSUME NEW a \in Nat, NEW b \in Nat, a < b, b < a + Slots
  PROVE  ReadIndex(a) # ReadIndex(b)
<1>0. Slots \in Nat /\ Slots > 1
  BY SlotsAssumption
<1> DEFINE q == a \div Slots
           p == b \div Slots
           r == a % Slots
<1>1. q \in Nat /\ r \in 0 .. Slots - 1 /\ a = Slots * q + r
  BY DivMod
<1>2. p \in Nat /\ b = Slots * p + (b % Slots)
  BY DivMod
<1>3. ReadIndex(a) = r /\ ReadIndex(b) = b % Slots
  BY DEF ReadIndex
<1> HIDE DEF q, p, r
<1>4. SUFFICES ASSUME b % Slots = r PROVE FALSE
  BY <1>3
<1>5. b - a = Slots * p - Slots * q
  BY <1>0, <1>1, <1>2, <1>4, Z3
<1>6. CASE p > q
  <2>1. Slots * (p - q) >= Slots
    BY <1>0, <1>1, <1>2, <1>6, ProductGrows
  <2>2. Slots * (p - q) = Slots * p - Slots * q
    BY <1>0, <1>1, <1>2, Z3
  <2> QED  BY <1>0, <1>5, <2>1, <2>2, Z3
<1>7. CASE ~(p > q)
  <2>1. Slots * (q - p) >= 0
    BY <1>0, <1>1, <1>2, <1>7, Z3
  <2>2. Slots * (q - p) = Slots * q - Slots * p
    BY <1>0, <1>1, <1>2, Z3
  <2> QED  BY <1>0, <1>1, <1>2, <1>5, <2>1, <2>2, Z3
<1> QED  BY <1>6, <1>7

(* After a lap of the ring the slot is the same. *)
LEMMA SameSlot == ASSUME NEW a \in Nat PROVE ReadIndex(a + Slots) = ReadIndex(a)
<1>0. Slots \in Nat /\ Slots > 1
  BY SlotsAssumption
<1> DEFINE q == a \div Slots
           r == a % Slots
           p == (a + Slots) \div Slots
           s == (a + Slots) % Slots
<1>1. q \in Nat /\ r \in 0 .. Slots - 1 /\ a = Slots * q + r
  BY DivMod
<1>2. p \in Nat /\ s \in 0 .. Slots - 1 /\ a + Slots = Slots * p + s
  BY <1>0, DivMod
<1>3. ReadIndex(a) = r /\ ReadIndex(a + Slots) = s
  BY DEF ReadIndex
<1> HIDE DEF q, r, p, s
<1>4. Slots * (q + 1) = Slots * q + Slots
  BY <1>0, <1>1, Z3
<1>5. Slots * p + s = Slots * (q + 1) + r
  BY <1>0, <1>1, <1>2, <1>4, Z3
<1>6. s = r
  BY <1>0, <1>1, <1>2, <1>5, Unique
<1> QED  BY <1>3, <1>6

(* A slot number inside the array is that of the second after the one the  *)
(* clock showed when the number was decided: at the second reading of the  *)
(* clock, or, when the number wraps, at the first.                         *)
LEMMA WrittenSlot ==
  ASSUME NEW sec \in Nat, NEW again \in Nat
  PROVE  /\ WriteIndex(sec, again) \in 0 .. Slots
         /\ WriteIndex(sec, again) = 0 => WriteIndex(sec, again) = ReadIndex(sec + 1)
         /\ WriteIndex(sec, again) \in 1 .. Slots - 1 =>
              WriteIndex(sec, again) = ReadIndex(again + 1)
<1>0. Slots \in Nat /\ Slots > 1
  BY SlotsAssumption
<1>1. sec % Slots \in 0 .. Slots - 1 /\ again % Slots \in 0 .. Slots - 1
  BY DivMod
<1>2. (sec % Slots) + 1 >= Slots => ReadIndex(sec + 1) = 0
  BY NextSlot
<1>3. (again % Slots) + 1 < Slots => ReadIndex(again + 1) = (again % Slots) + 1
  BY NextSlot
<1> DEFINE r == sec % Slots
           s == again % Slots
<1>4. WriteIndex(sec, again) = IF r + 1 >= Slots THEN 0 ELSE s + 1
  BY DEF WriteIndex
<1>5. r \in 0 .. Slots - 1 /\ s \in 0 .. Slots - 1
  BY <1>1
<1>6. r + 1 >= Slots => ReadIndex(sec + 1) = 0
  BY <1>2
<1>7. s + 1 < Slots => ReadIndex(again + 1) = s + 1
  BY <1>3
<1> HIDE DEF r, s
<1> QED  BY <1>0, <1>4, <1>5, <1>6, <1>7

(* With one reading of the clock it is always that slot. *)
LEMMA OwnSlot ==
  ASSUME NEW sec \in Nat
  PROVE  WriteIndex(sec, sec) \in 0 .. Slots - 1 /\ WriteIndex(sec, sec) = ReadIndex(sec + 1)
<1> DEFINE r == sec % Slots
<1>1. r \in 0 .. Slots - 1
  BY DivMod
<1>2. (r + 1 >= Slots => ReadIndex(sec + 1) = 0) /\ (r + 1 < Slots => ReadIndex(sec + 1) = r + 1)
  BY NextSlot
<1>3. WriteIndex(sec, sec) = IF r + 1 >= Slots THEN 0 ELSE r + 1
  BY DEF WriteIndex
<1> HIDE DEF r
<1> QED  BY <1>1, <1>2, <1>3, SlotsAssumption

LEMMA IndexTypes ==
  /\ \A a \in Nat : ReadIndex(a) \in 0 .. Slots - 1
  /\ \A i \in 0 .. Slots - 1 : NextIndex(i) \in 0 .. Slots - 1
<1>1. \A a \in Nat : ReadIndex(a) \in 0 .. Slots - 1
  BY DivMod DEF ReadIndex
<1>2. \A i \in 0 .. Slots - 1 : NextIndex(i) \in 0 .. Slots - 1
  BY SlotsAssumption DEF NextIndex
<1> QED  BY <1>1, <1>2

(* Whole numbers of any unit of time. *)
LEMMA Quotient ==
  ASSUME NEW a \in Nat, NEW n \in Nat, n > 0
  PROVE  a \div n \in Nat
  BY Z3

LEMMA IntQuotient ==
  ASSUME NEW a \in Int, NEW n \in Nat, n > 0
  PROVE  a \div n \in Int
  BY Z3

=============================================================================
