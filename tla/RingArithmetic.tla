--------------------------- MODULE RingArithmetic ---------------------------
(***************************************************************************)
(* The slot of frame a in a ring of n descriptors is a % n.  What the      *)
(* proofs about rings need of it: frames less than n apart have different  *)
(* slots, a frame n later has the same slot, and a pointer that wraps      *)
(* before n follows the slots.                                             *)
(***************************************************************************)
EXTENDS Integers, TLAPS

(* The remainder is what is left. *)
LEMMA ModUnique ==
  ASSUME NEW n \in Nat \ {0}, NEW q \in Int, NEW r \in 0..n-1
  PROVE (n * q + r) % n = r
OBVIOUS

(* The quotient rounds down. *)
LEMMA Quotient ==
  ASSUME NEW n \in Int, n > 0, NEW a \in Int
  PROVE  n * (a \div n) <= a /\ a < n * (a \div n) + n
BY Z3

(* Division with remainder. *)
LEMMA Division ==
  ASSUME NEW n \in Nat \ {0}, NEW a \in Int
  PROVE  \E q \in Int : \E r \in 0..n-1 : a = n * q + r /\ a % n = r
<1> DEFINE q == a \div n
<1> DEFINE r == a - n * q
<1>1. n \in Int /\ n > 0 /\ q \in Int
  OBVIOUS
<1>2. n * q <= a /\ a < n * q + n
  BY <1>1, Quotient
<1> HIDE DEF q
<1>3. r \in 0..n-1 /\ a = n * q + r
  BY <1>1, <1>2
<1> HIDE DEF r
<1>4. (n * q + r) % n = r
  BY <1>1, <1>3, ModUnique
<1> QED BY <1>1, <1>3, <1>4

(* A positive multiple of n is at least n. *)
LEMMA MulGap ==
  ASSUME NEW n \in Nat \ {0}, NEW q \in Int, NEW d \in Int, d = n * q, 0 < d
  PROVE  d >= n
OBVIOUS

(* Frames less than a ring apart have different slots. *)
LEMMA ModApart ==
  ASSUME NEW n \in Nat \ {0}, NEW a \in Nat, NEW b \in Nat, a < b, b < a + n
  PROVE  a % n # b % n
<1>0. a \in Int /\ b \in Int
  OBVIOUS
<1>1. PICK p \in Int, r \in 0..n-1 : a = n * p + r /\ a % n = r
  BY <1>0, Division, Zenon
<1>2. PICK q \in Int, s \in 0..n-1 : b = n * q + s /\ b % n = s
  BY <1>0, Division, Zenon
<1>3. ASSUME r = s PROVE FALSE
  <2>1. q - p \in Int /\ b - a = n * (q - p)
    BY <1>1, <1>2, <1>3
  <2> QED BY <2>1, MulGap
<1> QED BY <1>1, <1>2, <1>3

(* A whole ring later comes the same slot. *)
LEMMA ModPeriod ==
  ASSUME NEW n \in Nat \ {0}, NEW a \in Nat
  PROVE  (a + n) % n = a % n
<1>0. a \in Int
  OBVIOUS
<1>1. PICK q \in Int, r \in 0..n-1 : a = n * q + r /\ a % n = r
  BY <1>0, Division, Zenon
<1>2. q + 1 \in Int /\ a + n = n * (q + 1) + r
  BY <1>1
<1>3. (n * (q + 1) + r) % n = r
  BY <1>2, ModUnique
<1> QED BY <1>1, <1>2, <1>3

(* The next slot: one further, or the first. *)
LEMMA ModNext ==
  ASSUME NEW n \in Nat \ {0}, NEW a \in Nat
  PROVE  (a + 1) % n = IF (a % n) + 1 = n THEN 0 ELSE (a % n) + 1
<1>0. a \in Int
  OBVIOUS
<1>1. PICK q \in Int, r \in 0..n-1 : a = n * q + r /\ a % n = r
  BY <1>0, Division, Zenon
<1>2. CASE r + 1 = n
  <2>1. q + 1 \in Int /\ 0 \in 0..n-1 /\ a + 1 = n * (q + 1) + 0
    BY <1>1, <1>2
  <2>2. (n * (q + 1) + 0) % n = 0
    BY <2>1, ModUnique
  <2> QED BY <1>1, <1>2, <2>1, <2>2
<1>3. CASE r + 1 # n
  <2>1. r + 1 \in 0..n-1 /\ a + 1 = n * q + (r + 1)
    BY <1>1, <1>3
  <2>2. (n * q + (r + 1)) % n = r + 1
    BY <2>1, ModUnique
  <2> QED BY <1>1, <1>3, <2>1, <2>2
<1> QED BY <1>2, <1>3

(* Slots are those of the ring. *)
LEMMA ModSlot ==
  ASSUME NEW n \in Nat \ {0}, NEW a \in Nat
  PROVE  a % n \in 0..n-1
OBVIOUS

(* Frame 0 has the first slot. *)
LEMMA ModZero ==
  ASSUME NEW n \in Nat \ {0}
  PROVE  0 % n = 0
<1>1. (n * 0 + 0) % n = 0
  BY ModUnique
<1> QED BY <1>1

(* The slots of a ring of n descriptors, as a function. *)
Slot(n) == [a \in Nat |-> a % n]

(* The facts above, of slots. *)
LEMMA SlotFacts ==
  ASSUME NEW n \in Nat \ {0}
  PROVE  /\ \A a \in Nat : Slot(n)[a] = a % n /\ Slot(n)[a] \in 0..n-1
         /\ \A a, b \in Nat : a < b /\ b < a + n => Slot(n)[a] # Slot(n)[b]
         /\ \A a \in Nat : Slot(n)[a + n] = Slot(n)[a]
         /\ \A a \in Nat : Slot(n)[a + 1] = IF Slot(n)[a] + 1 = n THEN 0 ELSE Slot(n)[a] + 1
         /\ Slot(n)[0] = 0
<1>1. \A a \in Nat : Slot(n)[a] = a % n
  BY DEF Slot
<1>2. ASSUME NEW a \in Nat
      PROVE  Slot(n)[a] \in 0..n-1
  <2>1. a % n \in 0..n-1
    BY ModSlot
  <2> QED BY <1>1, <2>1
<1>3. ASSUME NEW a \in Nat, NEW b \in Nat, a < b, b < a + n
      PROVE  Slot(n)[a] # Slot(n)[b]
  <2>1. a % n # b % n
    BY <1>3, ModApart
  <2> QED BY <1>1, <2>1
<1>4. ASSUME NEW a \in Nat
      PROVE  Slot(n)[a + n] = Slot(n)[a]
  <2>1. (a + n) % n = a % n
    BY ModPeriod, Zenon
  <2>2. a + n \in Nat
    OBVIOUS
  <2> QED BY <1>1, <2>1, <2>2, Zenon
<1>5. ASSUME NEW a \in Nat
      PROVE  Slot(n)[a + 1] = IF Slot(n)[a] + 1 = n THEN 0 ELSE Slot(n)[a] + 1
  <2>1. (a + 1) % n = IF (a % n) + 1 = n THEN 0 ELSE (a % n) + 1
    BY ModNext, Zenon
  <2>2. a + 1 \in Nat
    OBVIOUS
  <2> QED BY <1>1, <2>1, <2>2, Zenon
<1>6. Slot(n)[0] = 0
  BY <1>1, ModZero
<1> QED BY <1>1, <1>2, <1>3, <1>4, <1>5, <1>6

=============================================================================
