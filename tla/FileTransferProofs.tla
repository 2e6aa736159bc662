------------------------ MODULE FileTransferProofs ------------------------
(***************************************************************************)
(* A sender that ends without errors has delivered the file: for files of  *)
(* any length, frames of any size, any losses and any time-outs.           *)
(*                                                                         *)
(* Frames carry no number, so the argument counts.  The receiver answers   *)
(* each frame it takes, and takes one per item; the sender takes one       *)
(* answer per item (CountInv).  When it has taken them all, none was lost, *)
(* and the j-th echo was the echo of the j-th frame stored (EchoInv).      *)
(* The bytes it compared are then the bytes stored (AckInv).               *)
(***************************************************************************)
EXTENDS FileTransfer, SequenceTheorems, FiniteSetTheorems, WellFoundedInduction,
        RingArithmetic

-----------------------------------------------------------------------------
(* Induction and the concatenation of frames. *)

(* Induction over the natural numbers, for a set: no set of naturals       *)
(* without a least element is left out.                                    *)
LEMMA SetInduction ==
  ASSUME NEW T, 0 \in T, \A n \in Nat : n \in T => n + 1 \in T
  PROVE  Nat \subseteq T
<1> DEFINE Less == {ss \in Nat \X Nat : ss[1] < ss[2]}
           U == Nat \ T
<1>1. IsWellFoundedOn(Less, Nat)
  BY NatLessThanWellFounded DEF OpToRel
<1>2. ASSUME U # {} PROVE FALSE
  <2>1. U \subseteq Nat
    OBVIOUS
  <2> HIDE DEF Less
  <2>2. PICK x \in U : \A y \in U : ~(<<y, x>> \in Less)
    BY <1>1, <1>2, <2>1, WFMin, Zenon
  <2>3. x # 0 /\ x \in Nat /\ x \notin T
    OBVIOUS
  <2>4. x - 1 \in Nat /\ (x - 1) + 1 = x
    BY <2>3
  <2>5. x - 1 \in U
    BY <2>3, <2>4
  <2>6. <<x - 1, x>> \in Less
    BY <2>3, <2>4 DEF Less
  <2> QED BY <2>2, <2>5, <2>6
<1> QED BY <1>2

(* g[i] is the concatenation of the first i of n sequences. *)
Joins(s, n, g) == g = [i \in 1..n |-> IF i = 1 THEN s[i] ELSE g[i-1] \o s[i]]

(* The recursive function exists. *)
LEMMA JoinsExist ==
  ASSUME NEW s, NEW n \in Nat
  PROVE  \E g : Joins(s, n, g)
<1> DEFINE T == {m \in Nat : \E g : Joins(s, m, g)}
<1>1. 0 \in T
  <2>1. Joins(s, 0, [i \in 1..0 |-> 0])
    BY DEF Joins
  <2> QED BY <2>1
<1>2. ASSUME NEW m \in Nat, m \in T PROVE m + 1 \in T
  <2>1. PICK g : Joins(s, m, g)
    BY <1>2
  <2> DEFINE last == IF m = 0 THEN s[m+1] ELSE g[m] \o s[m+1]
             h == [i \in 1..m+1 |-> IF i = m + 1 THEN last ELSE g[i]]
  <2>2. ASSUME NEW i \in 1..m+1
        PROVE  h[i] = IF i = 1 THEN s[i] ELSE h[i-1] \o s[i]
    <3>1. CASE i = m + 1 /\ m = 0
      BY <3>1
    <3>2. CASE i = m + 1 /\ m # 0
      <4>1. i - 1 = m /\ m \in 1..m+1 /\ m # m + 1 /\ i # 1
        BY <3>2
      <4>2. h[m] = g[m]
        BY <4>1
      <4>3. last = g[m] \o s[i]
        BY <3>2
      <4> HIDE DEF last
      <4>4. h[i] = last
        BY <3>2
      <4> QED BY <4>1, <4>2, <4>3, <4>4
    <3>3. CASE i # m + 1
      <4>1. i \in 1..m
        BY <3>3
      <4>2. g[i] = IF i = 1 THEN s[i] ELSE g[i-1] \o s[i]
        BY <2>1, <4>1 DEF Joins
      <4>3. h[i] = g[i]
        BY <3>3
      <4>4. i # 1 => i - 1 \in 1..m /\ i - 1 # m + 1 /\ i - 1 \in 1..m+1
        BY <4>1
      <4>5. i # 1 => h[i-1] = g[i-1]
        BY <4>4
      <4> QED BY <4>2, <4>3, <4>5
    <3> QED BY <3>1, <3>2, <3>3
  <2>3. h = [i \in 1..m+1 |-> h[i]]
    OBVIOUS
  <2> HIDE DEF h
  <2>4. Joins(s, m + 1, h)
    BY <2>2, <2>3, Zenon DEF Joins
  <2> QED BY <2>4
<1>3. Nat \subseteq T
  <2> HIDE DEF T
  <2> QED BY <1>1, <1>2, SetInduction
<1> QED BY <1>3

(* FlattenSeq is the last of these concatenations. *)
LEMMA FlattenIs ==
  ASSUME NEW s, NEW n \in Nat \ {0}, Len(s) = n
  PROVE  \E g : Joins(s, n, g) /\ FlattenSeq(s) = g[n]
<1> DEFINE f == CHOOSE g : g = [i \in 1..n |-> IF i = 1 THEN s[i] ELSE g[i-1] \o s[i]]
<1>1. FlattenSeq(s) = f[n]
  BY DEF FlattenSeq
<1>2. Joins(s, n, f)
  BY JoinsExist, Zenon DEF Joins
<1> QED BY <1>1, <1>2

(* Where frame j of a file starts. *)
Off(j) == (j - 1) * ETH_NBYTES

(* What the proofs use of the assumption on the constants. *)
LEMMA ConstFacts ==
  /\ ETH_NBYTES \in Nat /\ ETH_NBYTES > 0
  /\ ETH_MINIMUM_NBYTES \in Nat /\ ETH_MINIMUM_NBYTES > 0
  /\ ETH_MINIMUM_NBYTES <= ETH_NBYTES
  /\ Junk \in Nat /\ Junk # 0
  /\ \A f \in Files : f \in Seq(Nat) /\ Len(f) \in Nat /\ Len(f) > 0
BY TransferAssumption

(* Frames follow each other without a gap. *)
LEMMA OffNext ==
  /\ Off(1) = 0
  /\ \A j \in Nat : Off(j) \in Int /\ Off(j + 1) = Off(j) + ETH_NBYTES
  /\ \A j \in Nat \ {0} : Off(j) \in Nat
  /\ \A j \in Int : j * ETH_NBYTES = Off(j) + ETH_NBYTES
<1>1. Off(1) = 0
  BY ConstFacts DEF Off
<1>2. \A j \in Int : j * ETH_NBYTES = (j - 1) * ETH_NBYTES + ETH_NBYTES
  BY ConstFacts
<1>3. \A j \in Nat : Off(j) \in Int /\ Off(j + 1) = Off(j) + ETH_NBYTES
  BY <1>2, ConstFacts DEF Off
<1>4. \A j \in Nat \ {0} : Off(j) \in Nat
  <2>1. \A a, b \in Nat : a * b \in Nat
    OBVIOUS
  <2>2. \A j \in Nat \ {0} : j - 1 \in Nat
    OBVIOUS
  <2> QED BY <2>1, <2>2, ConstFacts DEF Off
<1>5. \A j \in Int : j * ETH_NBYTES = Off(j) + ETH_NBYTES
  BY <1>2 DEF Off
<1> QED BY <1>1, <1>3, <1>4, <1>5

(* Sequences of which all but the last fill their frame lie in the         *)
(* concatenation where the frames of a file do.                            *)
LEMMA FlattenFull ==
  ASSUME NEW m \in Nat \ {0}, NEW s \in Seq(Seq(Nat)), Len(s) = m,
         \A j \in 1..m-1 : Len(s[j]) = ETH_NBYTES
  PROVE  /\ FlattenSeq(s) \in Seq(Nat)
         /\ Len(FlattenSeq(s)) = Off(m) + Len(s[m])
         /\ \A j \in 1..m : \A i \in 1..Len(s[j]) : FlattenSeq(s)[Off(j) + i] = s[j][i]
<1>1. PICK g : Joins(s, m, g) /\ FlattenSeq(s) = g[m]
  BY FlattenIs
<1> DEFINE Fits(l) ==
      /\ g[l] \in Seq(Nat)
      /\ Len(g[l]) = Off(l) + Len(s[l])
      /\ \A j \in 1..l : Off(j) + Len(s[j]) <= Len(g[l])
      /\ \A j \in 1..l : \A i \in 1..Len(s[j]) : g[l][Off(j) + i] = s[j][i]
    T == {n \in Nat : n + 1 <= m => Fits(n + 1)}
<1> HIDE DEF T
<1>2. \A l \in 1..m : /\ s[l] \in Seq(Nat) /\ Len(s[l]) \in Nat
                      /\ g[l] = IF l = 1 THEN s[l] ELSE g[l-1] \o s[l]
  <2>1. \A l \in 1..m : s[l] \in Seq(Nat)
    BY ElementOfSeq
  <2>2. \A l \in 1..m : Len(s[l]) \in Nat
    BY <2>1, LenProperties
  <2>3. \A l \in 1..m : g[l] = IF l = 1 THEN s[l] ELSE g[l-1] \o s[l]
    BY <1>1 DEF Joins
  <2> QED BY <2>1, <2>2, <2>3
<1>3. Fits(1)
  <2>1. g[1] = s[1] /\ s[1] \in Seq(Nat) /\ Len(s[1]) \in Nat
    BY <1>2, SMTT(60)
  <2>2. ASSUME NEW j \in 1..1 PROVE j = 1 /\ Off(j) = 0
    BY OffNext
  <2>3. \A j \in 1..1 : \A i \in 1..Len(s[j]) : 0 + i = i
    BY <2>1
  <2>4. \A j \in 1..1 : \A i \in 1..Len(s[j]) : g[1][Off(j) + i] = s[j][i]
    BY <2>1, <2>2, <2>3
  <2>5. Off(1) = 0 /\ 0 + Len(s[1]) = Len(s[1])
    BY <2>1, OffNext
  <2>6. \A j \in 1..1 : Off(j) + Len(s[j]) <= Len(g[1])
    BY <2>1, <2>2
  <2> QED BY <2>1, <2>4, <2>5, <2>6
<1>4. ASSUME NEW l \in 1..m-1, Fits(l) PROVE Fits(l + 1)
  <2>1. /\ l \in 1..m /\ l + 1 \in 1..m /\ (l + 1) - 1 = l /\ l + 1 # 1 /\ l \in Nat
        /\ Len(s[l]) = ETH_NBYTES
    OBVIOUS
  <2>2. g[l+1] = g[l] \o s[l+1] /\ s[l+1] \in Seq(Nat) /\ Len(s[l+1]) \in Nat
    BY <1>2, <2>1
  <2>3. g[l] \in Seq(Nat) /\ Len(g[l]) = Off(l + 1) /\ Off(l + 1) \in Nat
    <3>1. g[l] \in Seq(Nat) /\ Len(g[l]) = Off(l) + Len(s[l])
      BY <1>4, Zenon
    <3>2. Off(l + 1) = Off(l) + ETH_NBYTES
      BY <2>1, OffNext, Zenon
    <3>3. Off(l + 1) \in Nat
      <4>1. l + 1 \in Nat \ {0}
        BY <2>1
      <4> QED BY <4>1, OffNext, Zenon
    <3>4. Len(g[l]) = Off(l + 1)
      BY <2>1, <3>1, <3>2, Zenon
    <3> QED BY <3>1, <3>3, <3>4, Zenon
  <2>4. /\ g[l+1] \in Seq(Nat)
        /\ Len(g[l+1]) = Len(g[l]) + Len(s[l+1])
        /\ \A i \in 1..Len(g[l]) + Len(s[l+1]) :
             g[l+1][i] = IF i <= Len(g[l]) THEN g[l][i] ELSE s[l+1][i - Len(g[l])]
    <3> DEFINE a == g[l]
               b == s[l+1]
               c == g[l+1]
    <3>1. a \in Seq(Nat) /\ b \in Seq(Nat) /\ c = a \o b
      BY <2>2, <2>3
    <3> HIDE DEF a, b, c
    <3>2. /\ c \in Seq(Nat)
          /\ Len(c) = Len(a) + Len(b)
          /\ \A i \in 1..Len(a) + Len(b) : c[i] = IF i <= Len(a) THEN a[i] ELSE b[i - Len(a)]
      BY <3>1, ConcatProperties
    <3> QED BY <3>2 DEF a, b, c
  <2>5. ASSUME NEW j \in 1..l+1
        PROVE  /\ Off(j) + Len(s[j]) <= Len(g[l+1])
               /\ \A i \in 1..Len(s[j]) : g[l+1][Off(j) + i] = s[j][i]
    <3>1. j \in 1..m /\ j \in Nat \ {0} /\ Len(s[j]) \in Nat /\ Off(j) \in Nat
      <4>1. j \in 1..m /\ j \in Nat \ {0}
        OBVIOUS
      <4> QED BY <1>2, <4>1, OffNext, Zenon
    <3>2. CASE j = l + 1
      <4>1. ASSUME NEW i \in 1..Len(s[j])
            PROVE  g[l+1][Off(j) + i] = s[j][i]
        <5>1. Off(j) + i \in 1..Len(g[l]) + Len(s[l+1])
              /\ ~(Off(j) + i <= Len(g[l])) /\ (Off(j) + i) - Len(g[l]) = i
          <6> DEFINE a == Off(j)
                     b == Len(s[j])
          <6>1. a \in Nat /\ b \in Nat /\ i \in 1..b /\ Len(g[l]) = a /\ Len(s[l+1]) = b
            BY <2>3, <3>1, <3>2
          <6> HIDE DEF a, b
          <6>2. a + i \in 1..a+b /\ ~(a + i <= a) /\ (a + i) - a = i
            BY <6>1
          <6> QED BY <6>1, <6>2 DEF a
        <5> QED BY <2>4, <3>2, <5>1
      <4>2. Off(j) + Len(s[j]) = Len(g[l+1])
        BY <2>3, <2>4, <3>2
      <4>3. Off(j) + Len(s[j]) \in Nat
        BY <3>1
      <4> QED BY <4>1, <4>2, <4>3
    <3>3. CASE j # l + 1
      <4>1. j \in 1..l
        BY <3>3
      <4>2. /\ Off(j) + Len(s[j]) <= Len(g[l])
            /\ \A i \in 1..Len(s[j]) : g[l][Off(j) + i] = s[j][i]
        BY <1>4, <4>1
      <4>3. ASSUME NEW i \in 1..Len(s[j])
            PROVE  g[l+1][Off(j) + i] = s[j][i]
        <5>1. Off(j) + i \in 1..Len(g[l]) + Len(s[l+1]) /\ Off(j) + i <= Len(g[l])
          <6> DEFINE a == Off(j)
                     b == Len(s[j])
                     c == Len(g[l])
                     d == Len(s[l+1])
          <6>1. a \in Nat /\ b \in Nat /\ c \in Nat /\ d \in Nat /\ a + b <= c /\ i \in 1..b
            BY <2>2, <2>3, <3>1, <4>2
          <6> HIDE DEF a, b, c, d
          <6>2. a + i \in 1..c+d /\ a + i <= c
            BY <6>1
          <6> QED BY <6>2 DEF a, c, d
        <5> QED BY <2>4, <4>2, <5>1
      <4>4. Off(j) + Len(s[j]) <= Len(g[l+1])
        BY <2>2, <2>3, <2>4, <3>1, <4>2
      <4> QED BY <4>3, <4>4
    <3> QED BY <3>2, <3>3
  <2> QED BY <2>3, <2>4, <2>5
<1>5. Nat \subseteq T
  <2>1. 0 \in T
    BY <1>3 DEF T
  <2>2. ASSUME NEW n \in Nat, n \in T PROVE n + 1 \in T
    <3> USE DEF T
    <3>1. CASE (n + 1) + 1 <= m
      <4>1. n + 1 \in 1..m-1 /\ n + 1 <= m
        BY <3>1
      <4> HIDE DEF Fits
      <4>2. Fits(n + 1)
        BY <2>2, <4>1
      <4>3. Fits((n + 1) + 1)
        BY <1>4, <4>1, <4>2
      <4> QED BY <4>3
    <3>2. CASE ~((n + 1) + 1 <= m)
      BY <3>2
    <3> QED BY <3>1, <3>2
  <2> QED BY <2>1, <2>2, SetInduction
<1>6. Fits(m)
  <2>1. m - 1 \in Nat /\ (m - 1) + 1 = m /\ m <= m
    OBVIOUS
  <2> HIDE DEF Fits
  <2>2. m - 1 \in T
    BY <1>5, <2>1
  <2> QED BY <2>1, <2>2 DEF T
<1> QED BY <1>1, <1>6

-----------------------------------------------------------------------------
(* Frames and echoes. *)

(* The library's extrema of two numbers. *)
LEMMA MaxOfTwo ==
  ASSUME NEW a \in Int, NEW b \in Int
  PROVE  Max({a, b}) = IF a >= b THEN a ELSE b
<1> DEFINE x == Max({a, b})
<1>1. \E y \in {a, b} : \A z \in {a, b} : y >= z
  OBVIOUS
<1>2. x \in {a, b} /\ \A z \in {a, b} : x >= z
  BY <1>1 DEF Max
<1> HIDE DEF x
<1>3. x = IF a >= b THEN a ELSE b
  BY <1>2
<1> QED BY <1>3 DEF x

(* And the lesser of two. *)
LEMMA MinOfTwo ==
  ASSUME NEW a \in Int, NEW b \in Int
  PROVE  Min({a, b}) = IF a <= b THEN a ELSE b
<1> DEFINE x == Min({a, b})
<1>1. \E y \in {a, b} : \A z \in {a, b} : y <= z
  OBVIOUS
<1>2. x \in {a, b} /\ \A z \in {a, b} : x <= z
  BY <1>1 DEF Min
<1> HIDE DEF x
<1>3. x = IF a <= b THEN a ELSE b
  BY <1>2
<1> QED BY <1>3 DEF x

(* The last frame of a file holds its last byte, and each byte is in the   *)
(* frame its number says.                                                  *)
LEMMA FrameOfByte ==
  ASSUME NEW p \in Nat \ {0}
  PROVE  /\ NumFrames(p) \in Nat \ {0}
         /\ Off(NumFrames(p)) < p /\ p <= Off(NumFrames(p)) + ETH_NBYTES
<1> DEFINE q == (p - 1) \div ETH_NBYTES
<1>1. q \in Int /\ ETH_NBYTES * q <= p - 1 /\ p - 1 < ETH_NBYTES * q + ETH_NBYTES
  <2>1. ETH_NBYTES \in Int /\ ETH_NBYTES > 0 /\ p - 1 \in Int
    BY ConstFacts
  <2>2. q \in Int
    BY <2>1
  <2> QED BY <2>1, <2>2, Quotient
<1> HIDE DEF q
<1>2. q >= 0
  <2>1. SUFFICES ASSUME q <= -1 PROVE FALSE
    BY <1>1
  <2>2. \A n, r \in Int : n > 0 /\ r <= -1 => n * r <= -n
    OBVIOUS
  <2> QED BY <1>1, <2>1, <2>2, ConstFacts
<1>3. NumFrames(p) = q + 1
  BY DEF NumFrames, q
<1>4. Off(NumFrames(p)) = ETH_NBYTES * q
  BY <1>1, <1>3, ConstFacts DEF Off
<1> QED BY <1>1, <1>2, <1>3, <1>4, ConstFacts

(* A byte of a file is in one of the frames of the file. *)
LEMMA FrameInFile ==
  ASSUME NEW n \in Nat \ {0}, NEW p \in 1..n
  PROVE  NumFrames(p) <= NumFrames(n)
<1> DEFINE a == NumFrames(p)
           b == NumFrames(n)
<1>1. /\ a \in Nat \ {0} /\ Off(a) < p
      /\ b \in Nat \ {0} /\ n <= Off(b) + ETH_NBYTES
  BY FrameOfByte
<1> HIDE DEF a, b
<1>2. Off(a) \in Int /\ Off(b) \in Int
  BY <1>1, OffNext
<1>3. SUFFICES ASSUME a > b PROVE FALSE
  BY <1>1 DEF a, b
<1>4. \A x, y, m \in Nat : x >= y => x * m >= y * m
  OBVIOUS
<1>5. (a - 1) * ETH_NBYTES >= b * ETH_NBYTES
  <2>1. a - 1 \in Nat /\ a - 1 >= b
    BY <1>1, <1>3
  <2> QED BY <1>1, <1>4, <2>1, ConstFacts
<1>6. Off(a) >= Off(b) + ETH_NBYTES
  BY <1>1, <1>5, OffNext DEF Off
<1> QED BY <1>1, <1>2, <1>6, ConstFacts

(* No size is no frame. *)
LEMMA NoFrames == NumFrames(0) = 0
<1> DEFINE q == (0 - 1) \div ETH_NBYTES
<1>1. q \in Int /\ ETH_NBYTES * q <= -1 /\ -1 < ETH_NBYTES * q + ETH_NBYTES
  <2>1. ETH_NBYTES \in Int /\ ETH_NBYTES > 0 /\ 0 - 1 \in Int /\ 0 - 1 = -1
    BY ConstFacts
  <2>2. q \in Int
    BY <2>1
  <2> QED BY <2>1, <2>2, Quotient
<1> HIDE DEF q
<1>2. \A n, r \in Int : n > 0 /\ r >= 0 => n * r >= 0
  OBVIOUS
<1>3. \A n, r \in Int : n > 0 /\ r <= -2 => n * r + n <= -n
  OBVIOUS
<1>4. q = -1
  BY <1>1, <1>2, <1>3, ConstFacts
<1> QED BY <1>4 DEF NumFrames, q

(* A block of memory holds the bytes, and junk behind them. *)
LEMMA MemoryIs ==
  ASSUME NEW s \in Seq(Nat), NEW n \in Nat
  PROVE  /\ Memory(s, n) \in Seq(Nat) /\ Len(Memory(s, n)) = n
         /\ \A i \in 1..n : Memory(s, n)[i] = IF i <= Len(s) THEN s[i] ELSE Junk
<1>1. \A i \in 1..n : (IF i <= Len(s) THEN s[i] ELSE Junk) \in Nat
  <2>1. Len(s) \in Nat /\ \A i \in 1..Len(s) : s[i] \in Nat
    BY ElementOfSeq, LenProperties
  <2> QED BY <2>1, ConstFacts
<1> QED BY <1>1 DEF Memory

(* A packet is the payload and what fills it up. *)
LEMMA PacketIs ==
  ASSUME NEW s \in Seq(Nat), NEW host \in BOOLEAN
  PROVE  /\ Packet(host, s) \in Seq(Nat)
         /\ Len(Packet(host, s)) =
              IF Len(s) >= ETH_MINIMUM_NBYTES THEN Len(s) ELSE ETH_MINIMUM_NBYTES
         /\ \A i \in 1..Len(Packet(host, s)) :
              Packet(host, s)[i] = IF i <= Len(s) THEN s[i] ELSE IF host THEN 0 ELSE Junk
<1> DEFINE l == IF Len(s) >= ETH_MINIMUM_NBYTES THEN Len(s) ELSE ETH_MINIMUM_NBYTES
<1>1. l \in Nat /\ Len(s) \in Nat /\ Len(s) <= l
  BY ConstFacts, LenProperties
<1>2. CASE host
  <2> DEFINE e == IF ETH_MINIMUM_NBYTES - Len(s) > 0 THEN ETH_MINIMUM_NBYTES - Len(s) ELSE 0
             z == [i \in 1..e |-> 0]
  <2>1. e \in Nat /\ Len(s) + e = l
    BY <1>1, ConstFacts
  <2>2. Max({0, ETH_MINIMUM_NBYTES - Len(s)}) = e
    <3>1. 0 \in Int /\ ETH_MINIMUM_NBYTES - Len(s) \in Int
      BY <1>1, ConstFacts
    <3> QED BY <3>1, MaxOfTwo
  <2>3. Packet(host, s) = s \o z
    BY <1>2, <2>2 DEF Packet, FormPacket
  <2> HIDE DEF e
  <2>4. z \in Seq(Nat) /\ Len(z) = e /\ \A i \in 1..e : z[i] = 0
    BY <2>1
  <2> HIDE DEF z, l
  <2>5. /\ s \o z \in Seq(Nat) /\ Len(s \o z) = Len(s) + e
        /\ \A i \in 1..Len(s) + e : (s \o z)[i] = IF i <= Len(s) THEN s[i] ELSE z[i - Len(s)]
    BY <2>4, ConcatProperties
  <2>6. \A i \in 1..l : ~(i <= Len(s)) => i - Len(s) \in 1..e
    BY <1>1, <2>1
  <2>7. /\ s \o z \in Seq(Nat) /\ Len(s \o z) = l
        /\ \A i \in 1..l : (s \o z)[i] = IF i <= Len(s) THEN s[i] ELSE 0
    BY <2>1, <2>4, <2>5, <2>6
  <2> QED BY <1>2, <2>3, <2>7 DEF l
<1>3. CASE ~host
  <2>1. Max({Len(s), ETH_MINIMUM_NBYTES}) = l
    BY <1>1, ConstFacts, MaxOfTwo
  <2>2. Packet(host, s) = Memory(s, l)
    BY <1>3, <2>1 DEF Packet, BoardPacket
  <2> HIDE DEF l
  <2>3. /\ Memory(s, l) \in Seq(Nat) /\ Len(Memory(s, l)) = l
        /\ \A i \in 1..l : Memory(s, l)[i] = IF i <= Len(s) THEN s[i] ELSE Junk
    BY <1>1, MemoryIs
  <2> QED BY <1>3, <2>2, <2>3 DEF l
<1> QED BY <1>2, <1>3

(* What is compared has no differences: it is the same. *)
LEMMA NoDifference ==
  ASSUME NEW a \in Seq(Nat), NEW b \in Seq(Nat)
  PROVE  /\ Differ(a, b) \in Nat
         /\ Differ(a, b) = 0 =>
              \A i \in 1..Len(a) : i <= Len(b) => a[i] = b[i]
<1> DEFINE m == Min({Len(a), Len(b)})
           D == {i \in 1..m : a[i] # b[i]}
<1>1. Len(a) \in Nat /\ Len(b) \in Nat /\ m = IF Len(a) <= Len(b) THEN Len(a) ELSE Len(b)
  <2>1. Len(a) \in Nat /\ Len(b) \in Nat /\ Len(a) \in Int /\ Len(b) \in Int
    BY LenProperties
  <2>2. m = IF Len(a) <= Len(b) THEN Len(a) ELSE Len(b)
    BY <2>1, MinOfTwo, Zenon
  <2> QED BY <2>1, <2>2
<1> HIDE DEF m
<1>2. IsFiniteSet(D)
  <2>1. IsFiniteSet(1..m)
    <3>1. 1 \in Int /\ m \in Int
      BY <1>1
    <3> QED BY <3>1, FS_Interval, Zenon
  <2>2. D \in SUBSET (1..m)
    OBVIOUS
  <2> HIDE DEF D
  <2> QED BY <2>1, <2>2, FS_Subset
<1>3. Cardinality(D) \in Nat /\ (Cardinality(D) = 0 <=> D = {})
  <2> HIDE DEF D
  <2> QED BY <1>2, FS_CardinalityType, FS_EmptySet
<1>4. Differ(a, b) = Cardinality(D)
  BY DEF Differ, m
<1>5. ASSUME D = {}, NEW i \in 1..Len(a), i <= Len(b)
      PROVE  a[i] = b[i]
  <2>1. i \in 1..m
    BY <1>1, <1>5
  <2> QED BY <1>5, <2>1
<1> HIDE DEF D
<1> QED BY <1>3, <1>4, <1>5

(* The frames of the sender's file. *)
LEMMA ChunkIs ==
  ASSUME file \in Files, NEW j \in 1..NumFrames(Len(file))
  PROVE  /\ Chunk(j) \in Seq(Nat) /\ Len(Chunk(j)) \in 1..ETH_NBYTES
         /\ Len(Chunk(j)) = IF j = NumFrames(Len(file)) THEN Len(file) - Off(j) ELSE ETH_NBYTES
         /\ \A i \in 1..Len(Chunk(j)) :
              Off(j) + i \in 1..Len(file) /\ Chunk(j)[i] = file[Off(j) + i]
<1> DEFINE n == Len(file)
           m == NumFrames(n)
           o == Off(j)
           h == IF o + ETH_NBYTES <= n THEN o + ETH_NBYTES ELSE n
<1>1. /\ file \in Seq(Nat) /\ n \in Nat \ {0}
      /\ m \in Nat \ {0} /\ Off(m) < n /\ n <= Off(m) + ETH_NBYTES
  <2>1. file \in Seq(Nat) /\ n \in Nat \ {0}
    BY ConstFacts
  <2> QED BY <2>1, FrameOfByte
<1>2. j \in Nat \ {0} /\ j <= m /\ o \in Nat /\ Off(m) \in Nat
      /\ j * ETH_NBYTES = o + ETH_NBYTES /\ Off(j + 1) = o + ETH_NBYTES
  <2>1. j \in Nat \ {0} /\ j <= m /\ j \in Int /\ j \in Nat
    BY <1>1
  <2> QED BY <1>1, <2>1, OffNext, Zenon
<1>3. j # m => o + ETH_NBYTES <= Off(m)
  <2>1. SUFFICES ASSUME j # m PROVE o + ETH_NBYTES <= Off(m)
    OBVIOUS
  <2>2. j + 1 <= m /\ j \in Nat /\ m - 1 \in Nat /\ m - 1 >= j
    BY <1>1, <1>2, <2>1
  <2>3. \A x, y, z \in Nat : x >= y => x * z >= y * z
    OBVIOUS
  <2>4. (m - 1) * ETH_NBYTES >= j * ETH_NBYTES
    BY <2>2, <2>3, ConstFacts
  <2> QED BY <1>2, <2>4 DEF Off
<1>4. Chunk(j) = SubSeq(file, o + 1, h)
  <2>1. j * ETH_NBYTES \in Int /\ n \in Int /\ j * ETH_NBYTES = o + ETH_NBYTES
    BY <1>1, <1>2, ConstFacts
  <2>2. Min({j * ETH_NBYTES, n}) = h
    BY <2>1, MinOfTwo, Zenon
  <2> QED BY <2>2 DEF Chunk, Off
<1> HIDE DEF n, m, o
<1>5. h \in Nat /\ o < h /\ h <= n /\ h - o <= ETH_NBYTES
      /\ (j = m => h = n) /\ (j # m => h = o + ETH_NBYTES)
  <2>1. j = m => o = Off(m)
    BY DEF o
  <2> QED BY <1>1, <1>2, <1>3, <2>1, ConstFacts
<1> HIDE DEF h
<1>6. /\ SubSeq(file, o + 1, h) \in Seq(Nat) /\ Len(SubSeq(file, o + 1, h)) = h - o
      /\ \A i \in 1..h - o : SubSeq(file, o + 1, h)[i] = file[o + i]
  <2>1. \A i \in o+1..h : file[i] \in Nat
    <3>1. \A i \in o+1..h : i \in 1..Len(file)
      BY <1>1, <1>2, <1>5 DEF n
    <3> QED BY <1>1, <3>1, ElementOfSeq
  <2>2. /\ SubSeq(file, o + 1, h) \in Seq(Nat)
        /\ Len(SubSeq(file, o + 1, h)) = IF o + 1 <= h THEN h - (o + 1) + 1 ELSE 0
        /\ \A i \in 1..h-(o+1)+1 : SubSeq(file, o + 1, h)[i] = file[(o + 1) + i - 1]
    <3>1. o + 1 \in Int /\ h \in Int
      BY <1>2, <1>5
    <3> QED BY <2>1, <3>1, SubSeqProperties
  <2>3. \A i \in Int : (o + 1) + i - 1 = o + i
    BY <1>2
  <2>4. o + 1 <= h /\ h - (o + 1) + 1 = h - o
    BY <1>2, <1>5
  <2>5. \A i \in 1..h - o : i \in Int
    BY <1>2, <1>5
  <2> DEFINE q == SubSeq(file, o + 1, h)
  <2>6. q \in Seq(Nat) /\ Len(q) = h - o
        /\ \A i \in 1..h - o : q[i] = file[(o + 1) + i - 1]
    BY <2>2, <2>4, Zenon
  <2> HIDE DEF q
  <2>7. \A i \in 1..h - o : q[i] = file[o + i]
    BY <2>3, <2>5, <2>6, Zenon
  <2> QED BY <2>6, <2>7, Zenon DEF q
<1>7. \A i \in 1..h - o : o + i \in 1..n
  BY <1>1, <1>2, <1>5
<1>8. h - o \in 1..ETH_NBYTES /\ (j = m => h - o = n - o) /\ (j # m => h - o = ETH_NBYTES)
  BY <1>2, <1>5, ConstFacts
<1> QED BY <1>4, <1>6, <1>7, <1>8 DEF n, m, o

(* How many items tell the size: one or none. *)
Sizes == Len(SizeItems)

(* The items: the size, if it goes first, and the frames. *)
LEMMA ItemsAre ==
  ASSUME file \in Files, sized \in BOOLEAN
  PROVE  /\ Sizes = IF sized THEN 1 ELSE 0
         /\ Len(Items) = Sizes + NumFrames(Len(file))
         /\ NumFrames(Len(file)) \in Nat \ {0}
         /\ sized => Items[1] = <<Len(file)>>
         /\ \A i \in 1..Len(Items) : Items[i] \in Seq(Nat) /\ Len(Items[i]) \in 1..ETH_NBYTES
         /\ \A j \in 1..NumFrames(Len(file)) : Items[Sizes + j] = Chunk(j)
<1> DEFINE m == NumFrames(Len(file))
           c == [j \in 1..m |-> Chunk(j)]
<1>1. m \in Nat \ {0} /\ Len(file) \in Nat \ {0}
  BY ConstFacts, FrameOfByte
<1>2. \A j \in 1..m : Chunk(j) \in Seq(Nat) /\ Len(Chunk(j)) \in 1..ETH_NBYTES
  BY ChunkIs
<1> HIDE DEF m
<1>3. c \in Seq(Seq(Nat)) /\ Len(c) = m /\ \A j \in 1..m : c[j] = Chunk(j)
  BY <1>1, <1>2
<1>4. Items = SizeItems \o c
  BY DEF Items, m
<1> HIDE DEF c
<1>5. CASE sized
  <2>1. SizeItems = <<<<Len(file)>>>>
    BY <1>5 DEF SizeItems
  <2>2. SizeItems \in Seq(Seq(Nat)) /\ Sizes = 1 /\ SizeItems[1] = <<Len(file)>>
    BY <1>1, <2>1 DEF Sizes
  <2>3. /\ Len(Items) = 1 + m
        /\ \A i \in 1..1 + m : Items[i] = IF i <= 1 THEN SizeItems[i] ELSE c[i - 1]
    <3> DEFINE a == SizeItems
               b == Items
    <3>1. a \in Seq(Seq(Nat)) /\ Len(a) = 1 /\ b = a \o c
      BY <1>4, <2>2 DEF Sizes
    <3> HIDE DEF a, b
    <3>2. /\ Len(b) = Len(a) + Len(c)
          /\ \A i \in 1..Len(a) + Len(c) : b[i] = IF i <= Len(a) THEN a[i] ELSE c[i - Len(a)]
      BY <1>3, <3>1, ConcatProperties
    <3> QED BY <1>3, <3>1, <3>2 DEF a, b
  <2>4. Items[1] = <<Len(file)>>
    <3>1. 1 \in 1..1 + m /\ 1 <= 1
      BY <1>1
    <3>2. Items[1] = SizeItems[1]
      BY <2>3, <3>1, Zenon
    <3> QED BY <2>2, <3>2, Zenon
  <2>5. \A j \in 1..m : Items[1 + j] = c[j]
    <3>1. \A j \in 1..m : 1 + j \in 1..1+m /\ ~(1 + j <= 1) /\ (1 + j) - 1 = j
      BY <1>1
    <3> QED BY <2>3, <3>1
  <2>6. ASSUME NEW i \in 1..Len(Items)
        PROVE  Items[i] \in Seq(Nat) /\ Len(Items[i]) \in 1..ETH_NBYTES
    <3>1. CASE i = 1
      <4>1. <<Len(file)>> \in Seq(Nat) /\ Len(<<Len(file)>>) = 1
        BY <1>1
      <4>2. 1 \in 1..ETH_NBYTES
        BY ConstFacts
      <4> QED BY <2>4, <3>1, <4>1, <4>2
    <3>2. CASE i # 1
      <4>1. i - 1 \in 1..m /\ 1 + (i - 1) = i
        BY <1>1, <2>3, <3>2
      <4> QED BY <1>2, <1>3, <2>5, <4>1
    <3> QED BY <3>1, <3>2
  <2> QED BY <1>1, <1>3, <1>5, <2>2, <2>3, <2>4, <2>5, <2>6 DEF m
<1>6. CASE ~sized
  <2>1. SizeItems = <<>>
    BY <1>6 DEF SizeItems
  <2>2. SizeItems \in Seq(Seq(Nat)) /\ Sizes = 0
    BY <2>1 DEF Sizes
  <2>3. Items = c
    BY <1>3, <1>4, <2>1, ConcatEmptySeq
  <2>4. \A j \in 1..m : 0 + j = j
    BY <1>1
  <2> QED BY <1>1, <1>2, <1>3, <1>6, <2>2, <2>3, <2>4 DEF m
<1> QED BY <1>5, <1>6

(* The last frame the receiver waits for, and what it wants of it. *)
LEMMA LastFrameIs ==
  ASSUME size \in Nat
  PROVE  /\ LastFrame \in Nat \ {0}
         /\ LastFrame = IF size = 0 THEN 1 ELSE NumFrames(size)
         /\ Off(LastFrame) \in Nat /\ size - Off(LastFrame) \in 0..ETH_NBYTES
<1>1. NumFrames(size) \in Nat
  BY FrameOfByte, NoFrames
<1>2. LastFrame = IF 1 >= NumFrames(size) THEN 1 ELSE NumFrames(size)
  BY <1>1, MaxOfTwo DEF LastFrame
<1>3. CASE size = 0
  <2>1. LastFrame = 1
    BY <1>2, <1>3, NoFrames
  <2>2. Off(LastFrame) = 0
    BY <2>1, OffNext
  <2> QED BY <1>3, <2>1, <2>2, ConstFacts
<1>4. CASE size # 0
  <2>1. /\ NumFrames(size) \in Nat \ {0} /\ Off(NumFrames(size)) < size
        /\ size <= Off(NumFrames(size)) + ETH_NBYTES
    BY <1>4, FrameOfByte
  <2>2. LastFrame = NumFrames(size)
    BY <1>2, <2>1
  <2>3. Off(LastFrame) \in Nat
    BY <2>1, <2>2, OffNext
  <2> QED BY <1>4, <2>1, <2>2, <2>3, ConstFacts
<1> QED BY <1>3, <1>4

-----------------------------------------------------------------------------
(* The inductive invariant. *)

(* The sender that compares: not the board with the size first. *)
Compares == HostSends \/ ~sized

Types ==
  /\ dir \in {"send", "receive"} /\ sized \in BOOLEAN /\ file \in Files
  /\ sst \in {"sync", "pinged", "send", "wait", "done"} /\ k \in Nat /\ errs \in Nat
  /\ rst \in {"sync", "size", "data", "done"} /\ size \in Nat
  /\ got \in Seq(Seq(Nat)) /\ there \in Seq(Seq(Nat)) /\ back \in Seq(Seq(Nat))
  /\ losses \in [ping : Nat, frame : Nat, echo : Nat]

(* The answers the receiver has given, and those the sender has taken. *)
Replies == (IF rst = "sync" THEN 0 ELSE 1)
           + (IF rst \in {"data", "done"} THEN Sizes ELSE 0) + Len(got)
Acks == IF sst \in {"sync", "pinged"} THEN 0 ELSE 1 + k

(* An answer was taken, is on its way or was lost. *)
CountInv == Replies = Acks + Len(back) + losses.echo

(* Where the sender is in its items and the receiver in its frames. *)
PlaceInv ==
  /\ sst \in {"sync", "pinged"} => k = 0
  /\ k <= Len(Items)
  /\ sst = "wait" => k < Len(Items)
  /\ sst = "done" => k = Len(Items)
  /\ rst \in {"sync", "size"} => got = <<>>
  /\ Compares /\ rst = "data" => Len(got) < LastFrame
  /\ Compares /\ rst = "done" => Len(got) = LastFrame

(* The receiver goes by the size of the file, or by a ping taken for it. *)
SizeInv ==
  /\ ~sized => size = Len(file) /\ rst # "size"
  /\ HostSends /\ sized => size \in {0, Len(file)}

(* A frame that may be taken for the size. *)
Leads == HostSends /\ sized /\ rst \in {"sync", "size"}

FrameInv ==
  \A i \in 1..Len(there) :
    /\ Len(there[i]) \in ETH_MINIMUM_NBYTES..ETH_NBYTES
    /\ Leads => there[i][1] \in {0, Len(file)}

(* The board stores as many bytes as it wants, the host what came. *)
StoredInv ==
  \A j \in 1..Len(got) :
    /\ HostSends => Len(got[j]) = IF j = LastFrame THEN size - Off(LastFrame) ELSE ETH_NBYTES
    /\ ~HostSends => Len(got[j]) \in ETH_MINIMUM_NBYTES..ETH_NBYTES

(* No answer was lost: those on their way are the echoes not taken yet, in *)
(* the order of the frames stored ...                                      *)
EchoInv ==
  losses.echo = 0 =>
    \A i \in 1..Len(back), j \in 1..Len(got) :
      j = Acks + i - 1 - Sizes => back[i] = Packet(~HostSends, got[j])

(* ... and no errors were found: those taken told of none. *)
AckInv ==
  losses.echo = 0 /\ errs = 0 =>
    \A j \in 1..Len(got) :
      j <= k - Sizes => EchoErrors(Chunk(j), Packet(~HostSends, got[j])) = 0

TransferInv ==
  /\ Types /\ CountInv /\ PlaceInv /\ SizeInv
  /\ FrameInv /\ StoredInv /\ EchoInv /\ AckInv

-----------------------------------------------------------------------------
(* The steps.  First, what they share. *)

(* The setting of a transfer never changes. *)
LEMMA Settled ==
  ASSUME UNCHANGED setting
  PROVE  /\ HostSends' = HostSends /\ Compares' = Compares
         /\ Sizes' = Sizes /\ Items' = Items /\ Len(file)' = Len(file)
         /\ \A j : Chunk(j)' = Chunk(j)
         /\ \A a, b : EchoErrors(a, b)' = EchoErrors(a, b)
<1>1. dir' = dir /\ sized' = sized /\ file' = file
  BY DEF setting
<1>2. HostSends' = HostSends /\ Compares' = Compares /\ Sizes' = Sizes
      /\ SizeItems' = SizeItems /\ Len(file)' = Len(file)
  BY <1>1 DEF HostSends, Compares, Sizes, SizeItems
<1>3. \A j : Chunk(j)' = Chunk(j)
  BY <1>1 DEF Chunk
<1>4. Items' = Items
  BY <1>1, <1>2 DEF Items, Chunk
<1>5. \A a, b : EchoErrors(a, b)' = EchoErrors(a, b)
  BY <1>2 DEF EchoErrors
<1> QED BY <1>2, <1>3, <1>4, <1>5

(* Errors are counted in natural numbers; none means the echo agrees. *)
LEMMA EchoErrorsType ==
  ASSUME NEW a \in Seq(Nat), NEW b \in Seq(Nat)
  PROVE  EchoErrors(a, b) \in Nat
<1>1. Len(a) \in Nat
  BY LenProperties
<1>2. Memory(b, Len(a)) \in Seq(Nat)
  BY <1>1, MemoryIs
<1> QED BY <1>2, NoDifference DEF EchoErrors

(* The sender has a frame sent. *)
LEMMA SendStep ==
  ASSUME Types, FrameInv, UNCHANGED <<setting, rst>>,
         NEW f \in Seq(Nat), Len(f) \in ETH_MINIMUM_NBYTES..ETH_NBYTES,
         Leads => f[1] \in {0, Len(file)}, Send(f)
  PROVE  there' \in Seq(Seq(Nat)) /\ FrameInv'
<1>1. /\ there \in Seq(Seq(Nat)) /\ there' = Append(there, f)
      /\ Leads' = Leads /\ Len(file)' = Len(file)
  <2>1. there \in Seq(Seq(Nat)) /\ there' = Append(there, f)
    BY DEF Types, Send
  <2>2. Leads' = Leads
    BY DEF Leads, setting, HostSends
  <2> QED BY <2>1, <2>2, Settled
<1>2. /\ there' \in Seq(Seq(Nat)) /\ Len(there') = Len(there) + 1 /\ Len(there) \in Nat
      /\ \A i \in 1..Len(there) : there'[i] = there[i]
      /\ there'[Len(there) + 1] = f
  BY <1>1, AppendProperties, LenProperties
<1>3. ASSUME NEW i \in 1..Len(there')
      PROVE  /\ Len(there'[i]) \in ETH_MINIMUM_NBYTES..ETH_NBYTES
             /\ Leads' => there'[i][1] \in {0, Len(file)'}
  <2>1. CASE i = Len(there) + 1
    BY <1>1, <1>2, <2>1
  <2>2. CASE i # Len(there) + 1
    <3>1. i \in 1..Len(there)
      BY <1>2, <2>2
    <3> QED BY <1>1, <1>2, <3>1 DEF FrameInv
  <2> QED BY <2>1, <2>2
<1> QED BY <1>2, <1>3 DEF FrameInv

(* The first frame on its way is taken or lost. *)
LEMMA TakeStep ==
  ASSUME Types, FrameInv, there # <<>>, there' = Tail(there), UNCHANGED setting,
         Leads' => Leads
  PROVE  /\ there' \in Seq(Seq(Nat)) /\ FrameInv'
         /\ Head(there) \in Seq(Nat) /\ Len(Head(there)) \in ETH_MINIMUM_NBYTES..ETH_NBYTES
         /\ Leads => Head(there)[1] \in {0, Len(file)}
<1>1. there \in Seq(Seq(Nat)) /\ Len(file)' = Len(file)
  BY Settled DEF Types
<1>2. /\ Head(there) \in Seq(Nat) /\ Head(there) = there[1]
      /\ there' \in Seq(Seq(Nat)) /\ Len(there') = Len(there) - 1 /\ Len(there) \in Nat
      /\ Len(there) > 0 /\ \A i \in 1..Len(there)-1 : there'[i] = there[i + 1]
  BY <1>1
<1>3. ASSUME NEW i \in 1..Len(there')
      PROVE  /\ Len(there'[i]) \in ETH_MINIMUM_NBYTES..ETH_NBYTES
             /\ Leads' => there'[i][1] \in {0, Len(file)'}
  <2>1. i + 1 \in 1..Len(there) /\ there'[i] = there[i + 1]
    BY <1>2
  <2> QED BY <1>1, <2>1 DEF FrameInv
<1>4. 1 \in 1..Len(there)
  BY <1>2
<1> QED BY <1>2, <1>3, <1>4 DEF FrameInv

(* Nothing is taken back and nothing stored. *)
LEMMA QuietStep ==
  ASSUME TransferInv, UNCHANGED <<setting, receiver, back, k>>,
         losses'.echo = losses.echo, Acks' = Acks, errs' = 0 => errs = 0
  PROVE  CountInv' /\ SizeInv' /\ StoredInv' /\ EchoInv' /\ AckInv'
<1>1. /\ HostSends' = HostSends /\ Sizes' = Sizes /\ Len(file)' = Len(file) /\ sized' = sized
      /\ rst' = rst /\ size' = size /\ got' = got /\ back' = back /\ k' = k
      /\ Replies' = Replies /\ LastFrame' = LastFrame /\ Len(got)' = Len(got)
  BY Settled DEF setting, receiver, Replies, LastFrame
<1>2. CountInv' /\ SizeInv' /\ StoredInv'
  BY <1>1 DEF TransferInv, CountInv, SizeInv, StoredInv
<1>3. EchoInv'
  BY <1>1 DEF TransferInv, EchoInv
<1>4. AckInv'
  BY <1>1, Settled DEF TransferInv, AckInv
<1> QED BY <1>2, <1>3, <1>4

(* The packets of the sender fit the line; a ping may be taken for no size. *)
LEMMA PingIs ==
  ASSUME NEW host \in BOOLEAN
  PROVE  /\ Packet(host, <<>>) \in Seq(Nat)
         /\ Len(Packet(host, <<>>)) = ETH_MINIMUM_NBYTES
         /\ host => Packet(host, <<>>)[1] = 0
<1>1. <<>> \in Seq(Nat) /\ Len(<<>>) = 0
  BY EmptySeq
<1>2. Len(Packet(host, <<>>)) = ETH_MINIMUM_NBYTES
  <2>1. ~(0 >= ETH_MINIMUM_NBYTES)
    BY ConstFacts
  <2>2. Len(Packet(host, <<>>)) =
          IF Len(<<>>) >= ETH_MINIMUM_NBYTES THEN Len(<<>>) ELSE ETH_MINIMUM_NBYTES
    BY <1>1, PacketIs, Zenon
  <2> QED BY <1>1, <2>1, <2>2
<1>3. 1 \in 1..Len(Packet(host, <<>>)) /\ ~(1 <= 0)
  BY <1>2, ConstFacts
<1>4. /\ Packet(host, <<>>) \in Seq(Nat)
      /\ \A i \in 1..Len(Packet(host, <<>>)) :
           Packet(host, <<>>)[i] =
             IF i <= Len(<<>>) THEN <<>>[i] ELSE IF host THEN 0 ELSE Junk
  BY <1>1, PacketIs, Zenon
<1>5. host => Packet(host, <<>>)[1] = 0
  BY <1>1, <1>3, <1>4
<1> QED BY <1>2, <1>4, <1>5

(* An item fits a frame; the size is its own first byte. *)
LEMMA ItemPacket ==
  ASSUME Types, NEW i \in 1..Len(Items), NEW host \in BOOLEAN
  PROVE  /\ Packet(host, Items[i]) \in Seq(Nat)
         /\ Len(Packet(host, Items[i])) \in ETH_MINIMUM_NBYTES..ETH_NBYTES
         /\ sized /\ i = 1 => Packet(host, Items[i])[1] = Len(file)
<1>1. Items[i] \in Seq(Nat) /\ Len(Items[i]) \in 1..ETH_NBYTES
  BY ItemsAre DEF Types
<1>2. Len(Packet(host, Items[i])) \in ETH_MINIMUM_NBYTES..ETH_NBYTES
  BY <1>1, PacketIs, ConstFacts
<1>3. ASSUME sized, i = 1 PROVE Packet(host, Items[i])[1] = Len(file)
  <2>1. Items[i] = <<Len(file)>>
    BY <1>3, ItemsAre DEF Types
  <2>2. 1 \in 1..Len(Packet(host, Items[i])) /\ 1 <= Len(Items[i])
    BY <1>1, <1>2, ConstFacts
  <2>3. Packet(host, Items[i])[1] = Items[i][1]
    BY <1>1, <2>2, PacketIs
  <2> QED BY <2>1, <2>3
<1> QED BY <1>1, <1>2, <1>3, PacketIs

(* Until the receiver has left the size behind, no frame of the file is    *)
(* sent, and until it has answered a ping nothing but pings.               *)
LEMMA StillLeading ==
  ASSUME TransferInv
  PROVE  /\ rst = "sync" => Acks = 0
         /\ rst = "size" => Acks <= 1
         /\ Len(back) \in Nat /\ Len(got) \in Nat /\ losses.echo \in Nat /\ Acks \in Nat
         /\ Sizes = IF sized THEN 1 ELSE 0
<1>1. Len(back) \in Nat /\ Len(got) \in Nat /\ losses.echo \in Nat /\ Acks \in Nat
  BY LenProperties DEF TransferInv, Types, Acks
<1>2. Sizes = IF sized THEN 1 ELSE 0
  BY ItemsAre DEF TransferInv, Types
<1>3. rst \in {"sync", "size"} => Len(got) = 0
  BY EmptySeq DEF TransferInv, PlaceInv
<1>4. rst = "sync" => Replies = 0
  BY <1>3 DEF Replies
<1>5. rst = "size" => Replies = 1
  BY <1>3 DEF Replies
<1> QED BY <1>1, <1>2, <1>4, <1>5 DEF TransferInv, CountInv

-----------------------------------------------------------------------------
(* The steps of the sender. *)

(* A ping is sent. *)
LEMMA SyncPingStep ==
  ASSUME TransferInv, SyncPing
  PROVE  TransferInv'
<1> USE DEF SyncPing, receiver
<1> DEFINE f == Packet(HostSends, <<>>)
<1>1. HostSends \in BOOLEAN
  BY DEF HostSends
<1>2. f \in Seq(Nat) /\ Len(f) \in ETH_MINIMUM_NBYTES..ETH_NBYTES /\ (HostSends => f[1] = 0)
  BY <1>1, PingIs, ConstFacts
<1> HIDE DEF f
<1>3. there' \in Seq(Seq(Nat)) /\ FrameInv'
  <2>1. Send(f) /\ Leads => f[1] \in {0, Len(file)}
    BY <1>2 DEF Leads
  <2>2. Send(f)
    BY DEF f
  <2> QED BY <1>2, <2>1, <2>2, SendStep DEF TransferInv
<1>4. Types'
  BY <1>3 DEF TransferInv, Types, setting
<1>5. CountInv' /\ SizeInv' /\ StoredInv' /\ EchoInv' /\ AckInv'
  BY QuietStep DEF Acks
<1>6. PlaceInv'
  BY Settled DEF TransferInv, PlaceInv, LastFrame
<1> QED BY <1>3, <1>4, <1>5, <1>6 DEF TransferInv

(* No answer to the ping in time. *)
LEMMA SyncTimeoutStep ==
  ASSUME TransferInv, SyncTimeout
  PROVE  TransferInv'
<1> USE DEF SyncTimeout, receiver
<1>1. Types'
  BY DEF TransferInv, Types, setting
<1>2. CountInv' /\ SizeInv' /\ StoredInv' /\ EchoInv' /\ AckInv'
  BY QuietStep DEF Acks
<1>3. PlaceInv'
  BY Settled DEF TransferInv, PlaceInv, LastFrame
<1>4. FrameInv'
  BY DEF TransferInv, FrameInv, Leads, HostSends, setting
<1> QED BY <1>1, <1>2, <1>3, <1>4 DEF TransferInv

(* The next item is sent. *)
LEMMA SendItemStep ==
  ASSUME TransferInv, SendItem
  PROVE  TransferInv'
<1> USE DEF SendItem, receiver
<1> DEFINE f == Packet(HostSends, Items[k + 1])
<1>1. /\ HostSends \in BOOLEAN /\ k \in Nat /\ k + 1 \in 1..Len(Items)
      /\ f \in Seq(Nat) /\ Len(f) \in ETH_MINIMUM_NBYTES..ETH_NBYTES
      /\ (sized /\ k + 1 = 1 => f[1] = Len(file))
  <2>1. HostSends \in BOOLEAN /\ k \in Nat
    BY DEF HostSends, TransferInv, Types
  <2>2. Len(Items) \in Nat
    BY ItemsAre DEF TransferInv, Types
  <2>3. k + 1 \in 1..Len(Items)
    BY <2>1, <2>2
  <2> QED BY <2>1, <2>3, ItemPacket DEF TransferInv
<1>2. Leads => k = 0
  BY <1>1, StillLeading DEF Leads, Acks
<1> HIDE DEF f
<1>3. there' \in Seq(Seq(Nat)) /\ FrameInv'
  <2>1. Leads => f[1] \in {0, Len(file)}
    BY <1>1, <1>2 DEF Leads
  <2>2. Send(f)
    BY DEF f
  <2> QED BY <1>1, <2>1, <2>2, SendStep DEF TransferInv
<1>4. Types'
  BY <1>3 DEF TransferInv, Types, setting
<1>5. CountInv' /\ SizeInv' /\ StoredInv' /\ EchoInv' /\ AckInv'
  BY QuietStep DEF Acks
<1>6. PlaceInv'
  BY Settled DEF TransferInv, PlaceInv, LastFrame
<1> QED BY <1>3, <1>4, <1>5, <1>6 DEF TransferInv

(* The sender has no more items. *)
LEMMA SendDoneStep ==
  ASSUME TransferInv, SendDone
  PROVE  TransferInv'
<1> USE DEF SendDone, receiver
<1>1. Types'
  BY DEF TransferInv, Types, setting
<1>2. CountInv' /\ SizeInv' /\ StoredInv' /\ EchoInv' /\ AckInv'
  BY QuietStep DEF Acks
<1>3. PlaceInv'
  BY Settled DEF TransferInv, PlaceInv, LastFrame
<1>4. FrameInv'
  BY DEF TransferInv, FrameInv, Leads, HostSends, setting
<1> QED BY <1>1, <1>2, <1>3, <1>4 DEF TransferInv

(* The host repeats a frame. *)
LEMMA ResendStep ==
  ASSUME TransferInv, Resend
  PROVE  TransferInv'
<1> USE DEF Resend, receiver
<1> DEFINE f == Packet(TRUE, Items[k + 1])
<1>1. /\ HostSends /\ k \in Nat /\ k + 1 \in 1..Len(Items)
      /\ f \in Seq(Nat) /\ Len(f) \in ETH_MINIMUM_NBYTES..ETH_NBYTES
      /\ (sized /\ k + 1 = 1 => f[1] = Len(file))
      /\ Len(Items[k + 1]) \in Nat
  <2>1. k \in Nat /\ k < Len(Items)
    BY DEF TransferInv, Types, PlaceInv
  <2>2. Len(Items) \in Nat /\ \A i \in 1..Len(Items) : Len(Items[i]) \in 1..ETH_NBYTES
    BY ItemsAre DEF TransferInv, Types
  <2>3. k + 1 \in 1..Len(Items)
    BY <2>1, <2>2
  <2>4. Len(Items[k + 1]) \in Nat
    BY <2>2, <2>3
  <2> QED BY <2>1, <2>3, <2>4, ItemPacket DEF TransferInv
<1>2. Leads => k = 0
  BY <1>1, StillLeading DEF Leads, Acks
<1>3. Send(f)
  BY DEF f, Packet
<1> HIDE DEF f
<1>4. there' \in Seq(Seq(Nat)) /\ FrameInv'
  <2>1. Leads => f[1] \in {0, Len(file)}
    BY <1>1, <1>2 DEF Leads
  <2> QED BY <1>1, <1>3, <2>1, SendStep DEF TransferInv
<1>5. errs \in Nat /\ errs' \in Nat /\ errs' >= errs
  BY <1>1, SMTT(60) DEF TransferInv, Types, Counted
<1>6. Types'
  BY <1>4, <1>5 DEF TransferInv, Types, setting
<1>7. CountInv' /\ SizeInv' /\ StoredInv' /\ EchoInv' /\ AckInv'
  <2>1. errs' = 0 => errs = 0
    BY <1>5
  <2> QED BY <2>1, QuietStep DEF Acks
<1>8. PlaceInv'
  BY Settled DEF TransferInv, PlaceInv, LastFrame
<1> QED BY <1>4, <1>6, <1>7, <1>8 DEF TransferInv

(* The sender takes the first answer on its way. *)
LEMMA AnswerStep ==
  ASSUME TransferInv, UNCHANGED <<setting, receiver, losses>>,
         back # <<>>, back' = Tail(back), Acks' = Acks + 1
  PROVE  /\ back' \in Seq(Seq(Nat)) /\ Head(back) = back[1] /\ Head(back) \in Seq(Nat)
         /\ 1 \in 1..Len(back)
         /\ CountInv' /\ SizeInv' /\ StoredInv' /\ EchoInv'
<1>1. /\ HostSends' = HostSends /\ Sizes' = Sizes /\ Len(file)' = Len(file) /\ sized' = sized
      /\ rst' = rst /\ size' = size /\ got' = got /\ losses' = losses
      /\ Replies' = Replies /\ LastFrame' = LastFrame
  BY Settled DEF setting, receiver, Replies, LastFrame
<1>2. /\ back' \in Seq(Seq(Nat)) /\ Head(back) = back[1] /\ Head(back) \in Seq(Nat)
      /\ Len(back) \in Nat \ {0} /\ Len(back') = Len(back) - 1
      /\ \A i \in 1..Len(back)-1 : back'[i] = back[i + 1]
  <2>1. back \in Seq(Seq(Nat))
    BY DEF TransferInv, Types
  <2> QED BY <2>1
<1>3. Acks \in Nat /\ losses.echo \in Nat /\ Len(got) \in Nat /\ Sizes \in Nat
  BY StillLeading
<1>4. CountInv'
  <2>1. Replies = Acks + Len(back) + losses.echo
    BY DEF TransferInv, CountInv
  <2>2. Replies = (Acks + 1) + (Len(back) - 1) + losses.echo
    BY <1>2, <1>3, <2>1
  <2> QED BY <1>1, <1>2, <2>2 DEF CountInv
<1>5. SizeInv' /\ StoredInv'
  BY <1>1 DEF TransferInv, SizeInv, StoredInv
<1>6. ASSUME losses.echo = 0, NEW i \in 1..Len(back'), NEW j \in 1..Len(got),
             j = (Acks + 1) + i - 1 - Sizes
      PROVE  back'[i] = Packet(~HostSends, got[j])
  <2>1. i + 1 \in 1..Len(back) /\ j = Acks + (i + 1) - 1 - Sizes /\ back'[i] = back[i + 1]
    BY <1>2, <1>3, <1>6
  <2> QED BY <1>6, <2>1 DEF TransferInv, EchoInv
<1>7. EchoInv'
  BY <1>1, <1>6 DEF EchoInv
<1>8. 1 \in 1..Len(back)
  BY <1>2
<1> QED BY <1>2, <1>4, <1>5, <1>7, <1>8

(* A first answer ends the synchronisation. *)
LEMMA SyncAnsweredStep ==
  ASSUME TransferInv, SyncAnswered
  PROVE  TransferInv'
<1> USE DEF SyncAnswered, receiver, Answered
<1>1. k = 0
  BY DEF TransferInv, PlaceInv
<1>2. back' \in Seq(Seq(Nat)) /\ CountInv' /\ SizeInv' /\ StoredInv' /\ EchoInv'
  BY <1>1, AnswerStep DEF Acks
<1>3. Types'
  BY <1>2 DEF TransferInv, Types, setting
<1>4. PlaceInv'
  BY Settled, ItemsAre DEF TransferInv, PlaceInv, LastFrame, Types
<1>5. FrameInv'
  BY DEF TransferInv, FrameInv, Leads, HostSends, setting
<1>6. AckInv'
  BY Settled DEF TransferInv, AckInv
<1> QED BY <1>2, <1>3, <1>4, <1>5, <1>6 DEF TransferInv

(* The sender takes the next answer for the echo of its item. *)
LEMMA AckItemStep ==
  ASSUME TransferInv, AckItem
  PROVE  TransferInv'
<1> USE DEF AckItem, receiver, Answered, RecvFrame
<1> DEFINE e == EchoErrors(Items[k + 1], Head(back))
<1>1. /\ back' \in Seq(Seq(Nat)) /\ CountInv' /\ SizeInv' /\ StoredInv' /\ EchoInv'
      /\ Head(back) = back[1] /\ Head(back) \in Seq(Nat) /\ 1 \in 1..Len(back)
  <2>1. Acks' = Acks + 1
    BY DEF Acks, TransferInv, Types
  <2> QED BY <2>1, AnswerStep
<1>2. /\ k \in Nat /\ k < Len(Items) /\ k + 1 \in 1..Len(Items) /\ Items[k + 1] \in Seq(Nat)
      /\ Len(Items) \in Nat
  <2>1. k \in Nat /\ k < Len(Items)
    BY DEF TransferInv, Types, PlaceInv
  <2>2. Len(Items) \in Nat /\ \A i \in 1..Len(Items) : Items[i] \in Seq(Nat)
    BY ItemsAre, SMTT(60) DEF TransferInv, Types
  <2> QED BY <2>1, <2>2
<1>3. e \in Nat
  BY <1>1, <1>2, EchoErrorsType
<1>4. errs' = errs + (IF k < Sizes THEN 0 ELSE e) /\ errs \in Nat /\ errs' \in Nat
  BY <1>3, SMTT(60) DEF Counted, Sizes, TransferInv, Types
<1>5. Types'
  BY <1>1, <1>2, <1>4 DEF TransferInv, Types, setting
<1>6. PlaceInv'
  BY <1>2, Settled DEF TransferInv, PlaceInv, LastFrame
<1>7. FrameInv'
  BY DEF TransferInv, FrameInv, Leads, HostSends, setting
<1>8. AckInv'
  <2>1. SUFFICES ASSUME losses.echo = 0, errs' = 0, NEW j \in 1..Len(got), j <= (k + 1) - Sizes
                 PROVE  EchoErrors(Chunk(j), Packet(~HostSends, got[j])) = 0
    <3>1. losses' = losses /\ got' = got /\ k' = k + 1 /\ Sizes' = Sizes
          /\ HostSends' = HostSends
      BY Settled
    <3>2. ASSUME losses.echo = 0, errs' = 0, NEW j \in 1..Len(got), j <= (k + 1) - Sizes
          PROVE  EchoErrors(Chunk(j), Packet(~HostSends, got[j])) = 0
      BY <2>1, <3>2
    <3> QED BY <3>1, <3>2, Settled DEF AckInv
  <2> HIDE DEF e
  <2>2. Sizes \in {0, 1} /\ errs = 0 /\ (k < Sizes \/ e = 0)
    BY <1>3, <1>4, <2>1, StillLeading
  <2>3. CASE j <= k - Sizes
    BY <2>1, <2>2, <2>3 DEF TransferInv, AckInv
  <2>4. CASE ~(j <= k - Sizes)
    <3>1. j = k + 1 - Sizes /\ ~(k < Sizes) /\ Sizes + j = k + 1
      BY <1>2, <2>1, <2>2, <2>4
    <3>2. Items[k + 1] = Chunk(j)
      <4>1. Len(Items) = Sizes + NumFrames(Len(file)) /\ NumFrames(Len(file)) \in Nat
            /\ \A i \in 1..NumFrames(Len(file)) : Items[Sizes + i] = Chunk(i)
        BY ItemsAre DEF TransferInv, Types
      <4>2. j \in 1..NumFrames(Len(file))
        BY <1>2, <2>2, <3>1, <4>1
      <4> QED BY <3>1, <4>1, <4>2
    <3>3. back[1] = Packet(~HostSends, got[j])
      <4>1. j = Acks + 1 - 1 - Sizes
        BY <1>2, <2>2, <3>1 DEF Acks
      <4> QED BY <1>1, <2>1, <4>1 DEF TransferInv, EchoInv
    <3> QED BY <1>1, <2>2, <3>1, <3>2, <3>3 DEF e
  <2> QED BY <2>3, <2>4
<1> QED BY <1>1, <1>5, <1>6, <1>7, <1>8 DEF TransferInv

-----------------------------------------------------------------------------
(* The steps of the receiver. *)

(* The receiver answers before it has stored anything. *)
LEMMA FirstAnswers ==
  ASSUME TransferInv, got = <<>>, UNCHANGED <<setting, sender, got, losses>>,
         NEW f \in Seq(Nat), Reply(f), Replies' = Replies + 1
  PROVE  /\ back' \in Seq(Seq(Nat)) /\ CountInv'
         /\ StoredInv' /\ EchoInv' /\ AckInv'
<1> USE DEF sender
<1>1. back' = Append(back, f) /\ back \in Seq(Seq(Nat)) /\ Acks' = Acks
  BY DEF Reply, Acks, TransferInv, Types
<1>2. back' \in Seq(Seq(Nat)) /\ Len(back') = Len(back) + 1
  BY <1>1, AppendProperties
<1>3. CountInv'
  <2>1. Replies = Acks + Len(back) + losses.echo
    BY DEF TransferInv, CountInv
  <2>2. Replies + 1 = Acks + (Len(back) + 1) + losses.echo
    BY <2>1, StillLeading
  <2> QED BY <1>1, <1>2, <2>2 DEF CountInv
<1>4. \A j \in 1..Len(got') : FALSE
  BY EmptySeq
<1>5. StoredInv' /\ EchoInv' /\ AckInv'
  BY <1>4 DEF StoredInv, EchoInv, AckInv
<1> QED BY <1>2, <1>3, <1>5

(* The receiver answers a ping. *)
LEMMA SyncReplyStep ==
  ASSUME TransferInv, SyncReply
  PROVE  TransferInv'
<1> USE DEF SyncReply, sender
<1> DEFINE f == Packet(~HostSends, <<>>)
<1>1. f \in Seq(Nat)
  BY PingIs DEF HostSends
<1> HIDE DEF f
<1>2. got = <<>> /\ Len(got) = 0 /\ got' = got
  BY EmptySeq DEF TransferInv, PlaceInv
<1>3. Replies' = Replies + 1
  <2>1. Sizes' = Sizes /\ Sizes = IF sized THEN 1 ELSE 0
    BY Settled, StillLeading
  <2>2. Replies = 0
    BY <1>2 DEF Replies
  <2>3. Replies' = 1
    BY <1>2, <2>1 DEF Replies
  <2> QED BY <2>2, <2>3
<1>4. Reply(f)
  BY DEF f
<1>5. back' \in Seq(Seq(Nat)) /\ CountInv' /\ StoredInv' /\ EchoInv' /\ AckInv'
  BY <1>1, <1>2, <1>3, <1>4, FirstAnswers
<1>6. there' \in Seq(Seq(Nat)) /\ FrameInv'
  <2>1. Leads' => Leads
    BY DEF Leads, HostSends, setting
  <2> QED BY <1>4, <2>1, TakeStep DEF TransferInv, Reply
<1>7. Types'
  BY <1>5, <1>6 DEF TransferInv, Types, setting
<1>8. SizeInv'
  BY Settled DEF TransferInv, SizeInv, setting
<1>9. PlaceInv'
  <2>1. LastFrame \in Nat \ {0} /\ LastFrame' = LastFrame
    BY LastFrameIs DEF TransferInv, Types, LastFrame
  <2> QED BY <1>2, <2>1, Settled DEF TransferInv, PlaceInv
<1> QED BY <1>5, <1>6, <1>7, <1>8, <1>9 DEF TransferInv

(* The receiver takes a frame for the size. *)
LEMMA ReceiveSizeStep ==
  ASSUME TransferInv, ReceiveSize
  PROVE  TransferInv'
<1> USE DEF ReceiveSize, sender
<1> DEFINE f == IF HostSends THEN Memory(Head(there), ETH_MINIMUM_NBYTES)
                             ELSE FormPacket(Head(there))
<1>1. sized /\ Leads <=> HostSends
  BY DEF TransferInv, SizeInv, Leads
<1>2. sized /\ rst' \in {"data", "done"} /\ (HostSends => rst' = "data")
  BY DEF TransferInv, SizeInv, Start
<1>3. /\ there' \in Seq(Seq(Nat)) /\ FrameInv'
      /\ Head(there) \in Seq(Nat) /\ Len(Head(there)) \in ETH_MINIMUM_NBYTES..ETH_NBYTES
      /\ (HostSends => Head(there)[1] \in {0, Len(file)})
  <2>1. ~Leads'
    BY <1>2 DEF Leads
  <2>2. there' = Tail(there)
    BY DEF Reply
  <2>3. HostSends => Leads
    BY <1>2 DEF Leads
  <2> QED BY <2>1, <2>2, <2>3, TakeStep DEF TransferInv
<1>4. f \in Seq(Nat)
  <2>1. Memory(Head(there), ETH_MINIMUM_NBYTES) \in Seq(Nat)
    BY <1>3, MemoryIs, ConstFacts
  <2>2. Packet(TRUE, Head(there)) \in Seq(Nat)
    BY <1>3, PacketIs
  <2> QED BY <2>1, <2>2 DEF Packet
<1>5. Reply(f)
  OBVIOUS
<1> HIDE DEF f
<1>6. size' \in Nat /\ size' = Head(there)[1]
  <2>1. 1 \in 1..Len(Head(there))
    BY <1>3, ConstFacts
  <2> QED BY <1>3, <2>1, ElementOfSeq
<1>7. got = <<>> /\ Len(got) = 0 /\ got' = got
  BY EmptySeq DEF TransferInv, PlaceInv
<1>8. Replies' = Replies + 1
  <2>1. Sizes' = Sizes /\ Sizes = 1
    BY <1>2, Settled, StillLeading
  <2>2. Replies = 1
    BY <1>7 DEF Replies
  <2>3. Replies' = 2
    BY <1>2, <1>7, <2>1 DEF Replies
  <2> QED BY <2>2, <2>3
<1>9. back' \in Seq(Seq(Nat)) /\ CountInv' /\ StoredInv' /\ EchoInv' /\ AckInv'
  BY <1>4, <1>5, <1>7, <1>8, FirstAnswers
<1>10. Types'
  BY <1>2, <1>3, <1>6, <1>9 DEF TransferInv, Types, setting
<1>11. SizeInv'
  BY <1>2, <1>3, <1>6, Settled DEF TransferInv, SizeInv, setting
<1>12. PlaceInv'
  <2>1. LastFrame' \in Nat \ {0}
    <3>1. \A n \in Nat : Max({1, NumFrames(n)}) \in Nat \ {0}
      <4>1. \A n \in Nat : NumFrames(n) \in Nat
        BY FrameOfByte, NoFrames
      <4> QED BY <4>1, MaxOfTwo, SMTT(60)
    <3> QED BY <1>6, <3>1 DEF LastFrame, NumFrames
  <2>2. Compares' => rst' = "data"
    BY <1>2, Settled DEF Compares
  <2> QED BY <1>2, <1>7, <2>1, <2>2, Settled DEF TransferInv, PlaceInv
<1> QED BY <1>3, <1>9, <1>10, <1>11, <1>12 DEF TransferInv

(* What the receiver stores. *)
LEMMA StoredIs ==
  ASSUME TransferInv, rst = "data", NEW f \in Seq(Nat),
         Len(f) \in ETH_MINIMUM_NBYTES..ETH_NBYTES
  PROVE  /\ Stored(f) \in Seq(Nat)
         /\ HostSends => Len(Stored(f)) =
              IF Len(got) + 1 = LastFrame THEN size - Off(LastFrame) ELSE ETH_NBYTES
         /\ ~HostSends => Len(Stored(f)) \in ETH_MINIMUM_NBYTES..ETH_NBYTES
<1>1. CASE HostSends
  <2> DEFINE w == IF Len(got) + 1 = LastFrame THEN size - Off(LastFrame) ELSE ETH_NBYTES
             l == Min({Wanted, Len(f)})
  <2>1. w \in Nat /\ Wanted = w
    <3>1. size - Off(LastFrame) \in 0..ETH_NBYTES
      BY LastFrameIs DEF TransferInv, Types
    <3>2. Wanted = w
      BY DEF Wanted, Off
    <3> QED BY <3>1, <3>2, ConstFacts
  <2> HIDE DEF w
  <2>2. l \in Int /\ l <= Len(f)
    <3>1. Wanted \in Int /\ Len(f) \in Int
      BY <2>1, LenProperties
    <3>2. l = IF Wanted <= Len(f) THEN Wanted ELSE Len(f)
      BY <3>1, MinOfTwo, Zenon
    <3> HIDE DEF l
    <3> QED BY <3>1, <3>2
  <2> HIDE DEF l
  <2>3. SubSeq(f, 1, l) \in Seq(Nat)
    <3>1. \A i \in 1..l : f[i] \in Nat
      BY <2>2, ElementOfSeq
    <3> QED BY <2>2, <3>1, SubSeqProperties
  <2>4. Stored(f) = Memory(SubSeq(f, 1, l), w)
    BY <1>1, <2>1 DEF Stored, l
  <2>5. Memory(SubSeq(f, 1, l), w) \in Seq(Nat) /\ Len(Memory(SubSeq(f, 1, l), w)) = w
    BY <2>1, <2>3, MemoryIs
  <2> QED BY <1>1, <2>4, <2>5 DEF w
<1>2. CASE ~HostSends
  BY <1>2 DEF Stored
<1> QED BY <1>1, <1>2

(* The receiver stores a frame and echoes it. *)
LEMMA ReceiveItemStep ==
  ASSUME TransferInv, ReceiveItem
  PROVE  TransferInv'
<1> USE DEF ReceiveItem, sender
<1> DEFINE x == Stored(Head(there))
           f == Packet(~HostSends, x)
<1>1. /\ there' \in Seq(Seq(Nat)) /\ FrameInv'
      /\ Head(there) \in Seq(Nat) /\ Len(Head(there)) \in ETH_MINIMUM_NBYTES..ETH_NBYTES
  <2>1. ~Leads'
    BY DEF Leads
  <2>2. there' = Tail(there)
    BY DEF Reply
  <2> QED BY <2>1, <2>2, TakeStep DEF TransferInv
<1>2. /\ x \in Seq(Nat)
      /\ HostSends => Len(x) =
           IF Len(got) + 1 = LastFrame THEN size - Off(LastFrame) ELSE ETH_NBYTES
      /\ ~HostSends => Len(x) \in ETH_MINIMUM_NBYTES..ETH_NBYTES
  BY <1>1, StoredIs
<1>3. f \in Seq(Nat)
  <2> HIDE DEF x
  <2>1. (~HostSends) \in BOOLEAN
    BY DEF HostSends
  <2> QED BY <1>2, <2>1, PacketIs
<1>4. got' = Append(got, x) /\ back' = Append(back, f)
  BY DEF Reply
<1> HIDE DEF x
<1>5. /\ got' \in Seq(Seq(Nat)) /\ Len(got') = Len(got) + 1 /\ Len(got) \in Nat
      /\ \A j \in 1..Len(got) : got'[j] = got[j]
      /\ got'[Len(got) + 1] = x
  BY <1>2, <1>4, AppendProperties, LenProperties DEF TransferInv, Types
<1>6. f = Packet(~HostSends, got'[Len(got) + 1])
  BY <1>5
<1> HIDE DEF f
<1>7. /\ back' \in Seq(Seq(Nat)) /\ Len(back') = Len(back) + 1 /\ Len(back) \in Nat
      /\ \A i \in 1..Len(back) : back'[i] = back[i]
      /\ back'[Len(back) + 1] = f
  BY <1>3, <1>4, AppendProperties, LenProperties DEF TransferInv, Types
<1>8. /\ HostSends' = HostSends /\ Compares' = Compares /\ Sizes' = Sizes
      /\ LastFrame' = LastFrame /\ Acks' = Acks /\ k' = k /\ errs' = errs
      /\ losses' = losses /\ size' = size
  BY Settled DEF LastFrame, Acks
<1>9. /\ Replies = 1 + Sizes + Len(got) /\ Replies = Acks + Len(back) + losses.echo
      /\ Sizes \in Nat /\ Acks \in Nat /\ losses.echo \in Nat
  <2>1. Replies = 1 + Sizes + Len(got)
    BY DEF Replies
  <2>2. Replies = Acks + Len(back) + losses.echo
    BY DEF TransferInv, CountInv
  <2> QED BY <2>1, <2>2, StillLeading
<1>10. CountInv'
  <2>1. Replies' = 1 + Sizes + (Len(got) + 1)
    BY <1>5, <1>8 DEF Replies
  <2>2. 1 + Sizes + (Len(got) + 1) = Acks + (Len(back) + 1) + losses.echo
    BY <1>5, <1>7, <1>9
  <2> QED BY <1>7, <1>8, <2>1, <2>2 DEF CountInv
<1>11. Types'
  BY <1>1, <1>5, <1>7 DEF TransferInv, Types, setting
<1>12. SizeInv'
  BY <1>8, Settled DEF TransferInv, SizeInv, setting
<1>13. PlaceInv'
  <2>1. LastFrame \in Nat
    BY LastFrameIs DEF TransferInv, Types
  <2>2. Compares => Len(got) < LastFrame
    BY DEF TransferInv, PlaceInv
  <2> QED BY <1>5, <1>8, <2>1, <2>2, Settled DEF TransferInv, PlaceInv
<1>14. StoredInv'
  <2>1. ASSUME NEW j \in 1..Len(got')
        PROVE  /\ HostSends => Len(got'[j]) =
                    IF j = LastFrame THEN size - Off(LastFrame) ELSE ETH_NBYTES
               /\ ~HostSends => Len(got'[j]) \in ETH_MINIMUM_NBYTES..ETH_NBYTES
    <3>1. CASE j = Len(got) + 1
      BY <1>2, <1>5, <3>1
    <3>2. CASE j # Len(got) + 1
      <4>1. j \in 1..Len(got)
        BY <1>5, <3>2
      <4> QED BY <1>5, <4>1 DEF TransferInv, StoredInv
    <3> QED BY <3>1, <3>2
  <2>2. Off(LastFrame)' = Off(LastFrame)
    BY <1>8 DEF Off
  <2> QED BY <1>8, <2>1, <2>2 DEF StoredInv
<1>15. EchoInv'
  <2>1. ASSUME losses.echo = 0, NEW i \in 1..Len(back'), NEW j \in 1..Len(got'),
               j = Acks + i - 1 - Sizes
        PROVE  back'[i] = Packet(~HostSends, got'[j])
    <3>1. CASE i = Len(back) + 1
      <4>1. j = Len(got) + 1
        BY <1>5, <1>7, <1>9, <2>1, <3>1
      <4> QED BY <1>6, <1>7, <3>1, <4>1
    <3>2. CASE i # Len(back) + 1
      <4>1. i \in 1..Len(back)
        BY <1>7, <3>2
      <4>2. j <= Len(got)
        <5>1. Len(got) = Acks + Len(back) - 1 - Sizes
          BY <1>5, <1>7, <1>9, <2>1
        <5> QED BY <1>7, <1>9, <2>1, <4>1, <5>1
      <4>3. j \in 1..Len(got)
        BY <1>5, <4>2
      <4> QED BY <1>5, <1>7, <2>1, <4>1, <4>3 DEF TransferInv, EchoInv
    <3> QED BY <3>1, <3>2
  <2> QED BY <1>8, <2>1 DEF EchoInv
<1>16. AckInv'
  <2>1. ASSUME losses.echo = 0, errs = 0, NEW j \in 1..Len(got'), j <= k - Sizes
        PROVE  EchoErrors(Chunk(j), Packet(~HostSends, got'[j])) = 0
    <3>1. k \in Nat /\ (k = 0 \/ k + 1 = Acks)
      BY DEF TransferInv, Types, PlaceInv, Acks
    <3>2. j <= Len(got)
      <4>1. Len(got) = Acks + Len(back) - 1 - Sizes
        BY <1>5, <1>7, <1>9, <2>1
      <4> QED BY <1>5, <1>7, <1>9, <2>1, <3>1, <4>1
    <3>3. j \in 1..Len(got)
      BY <1>5, <3>2
    <3> QED BY <1>5, <2>1, <3>3 DEF TransferInv, AckInv
  <2> QED BY <1>8, <2>1, Settled DEF AckInv
<1> QED BY <1>1, <1>10, <1>11, <1>12, <1>13, <1>14, <1>15, <1>16 DEF TransferInv

-----------------------------------------------------------------------------
(* The line, and the whole. *)

(* A frame is lost. *)
LEMMA LoseThereStep ==
  ASSUME TransferInv, LoseThere
  PROVE  TransferInv'
<1> USE DEF LoseThere, sender, receiver
<1>1. there' \in Seq(Seq(Nat)) /\ FrameInv'
  <2>1. Leads' => Leads
    BY DEF Leads, HostSends, setting
  <2> QED BY <2>1, TakeStep DEF TransferInv
<1>2. /\ losses' \in [ping : Nat, frame : Nat, echo : Nat]
      /\ losses'.echo = losses.echo
  <2>1. losses \in [ping : Nat, frame : Nat, echo : Nat]
    BY DEF TransferInv, Types
  <2> QED BY <2>1
<1>3. Types'
  BY <1>1, <1>2 DEF TransferInv, Types, setting
<1>4. CountInv' /\ SizeInv' /\ StoredInv' /\ EchoInv' /\ AckInv'
  BY <1>2, QuietStep DEF Acks
<1>5. PlaceInv'
  BY Settled DEF TransferInv, PlaceInv, LastFrame
<1> QED BY <1>1, <1>3, <1>4, <1>5 DEF TransferInv

(* An answer is lost: there will be one too few. *)
LEMMA LoseBackStep ==
  ASSUME TransferInv, LoseBack
  PROVE  TransferInv'
<1> USE DEF LoseBack, sender, receiver
<1>1. /\ losses' \in [ping : Nat, frame : Nat, echo : Nat]
      /\ losses.echo \in Nat /\ losses'.echo = losses.echo + 1
  <2>1. losses \in [ping : Nat, frame : Nat, echo : Nat]
    BY DEF TransferInv, Types
  <2> QED BY <2>1
<1>2. /\ back' \in Seq(Seq(Nat)) /\ Len(back) \in Nat /\ Len(back') = Len(back) - 1
  <2>1. back \in Seq(Seq(Nat))
    BY DEF TransferInv, Types
  <2> QED BY <2>1
<1>3. Types'
  BY <1>1, <1>2 DEF TransferInv, Types, setting
<1>4. CountInv'
  <2>1. Replies' = Replies /\ Acks' = Acks
    BY Settled DEF Replies, Acks
  <2>2. Replies = Acks + Len(back) + losses.echo /\ Acks \in Nat
    BY StillLeading DEF TransferInv, CountInv
  <2>3. Replies = Acks + (Len(back) - 1) + (losses.echo + 1)
    BY <1>1, <1>2, <2>2
  <2> QED BY <1>1, <1>2, <2>1, <2>3 DEF CountInv
<1>5. PlaceInv' /\ SizeInv'
  BY Settled DEF TransferInv, PlaceInv, SizeInv, LastFrame, setting
<1>6. FrameInv'
  BY DEF TransferInv, FrameInv, Leads, HostSends, setting
<1>7. StoredInv'
  <2>1. got' = got /\ size' = size /\ HostSends' = HostSends /\ LastFrame' = LastFrame
    BY Settled DEF LastFrame
  <2> QED BY <2>1 DEF TransferInv, StoredInv
<1>8. EchoInv' /\ AckInv'
  BY <1>1 DEF EchoInv, AckInv
<1> QED BY <1>3, <1>4, <1>5, <1>6, <1>7, <1>8 DEF TransferInv

(* A transfer starts with nothing sent and nothing stored. *)
LEMMA TransferInit == Init => TransferInv
<1> SUFFICES ASSUME Init PROVE TransferInv
  OBVIOUS
<1> USE DEF Init
<1>1. /\ file \in Seq(Nat) /\ Len(file) \in Nat \ {0}
      /\ <<>> \in Seq(Seq(Nat)) /\ Len(<<>>) = 0
  BY ConstFacts, EmptySeq
<1>2. Types
  BY <1>1 DEF Types
<1>3. CountInv
  BY <1>1 DEF CountInv, Replies, Acks
<1>4. PlaceInv
  <2>1. Len(Items) \in Nat
    BY ItemsAre
  <2> QED BY <2>1 DEF PlaceInv
<1>5. SizeInv
  BY <1>1 DEF SizeInv
<1>6. \A i \in 1..0 : FALSE
  OBVIOUS
<1>7. FrameInv /\ StoredInv /\ EchoInv /\ AckInv
  BY <1>1, <1>6 DEF FrameInv, StoredInv, EchoInv, AckInv
<1> QED BY <1>2, <1>3, <1>4, <1>5, <1>7 DEF TransferInv

(* Every step keeps the invariant. *)
LEMMA TransferStep == TransferInv /\ [Next]_vars => TransferInv'
<1> SUFFICES ASSUME TransferInv, [Next]_vars PROVE TransferInv'
  OBVIOUS
<1>1. CASE Sender
  BY <1>1, SyncPingStep, SyncAnsweredStep, SyncTimeoutStep, SendItemStep, SendDoneStep,
     AckItemStep, ResendStep DEF Sender
<1>2. CASE Receiver
  BY <1>2, SyncReplyStep, ReceiveSizeStep, ReceiveItemStep DEF Receiver
<1>3. CASE LoseThere
  BY <1>3, LoseThereStep
<1>4. CASE LoseBack
  BY <1>4, LoseBackStep
<1>5. CASE UNCHANGED vars
  <2>1. UNCHANGED <<setting, receiver, back, k, losses, sst, errs, there>>
    BY <1>5 DEF vars, setting, receiver
  <2>2. CountInv' /\ SizeInv' /\ StoredInv' /\ EchoInv' /\ AckInv'
    BY <2>1, QuietStep DEF Acks
  <2>3. Types'
    BY <2>1 DEF TransferInv, Types, setting, receiver
  <2>4. PlaceInv'
    BY <2>1, Settled DEF TransferInv, PlaceInv, LastFrame, receiver
  <2>5. FrameInv'
    BY <2>1 DEF TransferInv, FrameInv, Leads, HostSends, setting, receiver
  <2> QED BY <2>2, <2>3, <2>4, <2>5 DEF TransferInv
<1> QED BY <1>1, <1>2, <1>3, <1>4, <1>5 DEF Next

-----------------------------------------------------------------------------
(* What the invariant says of a sender that has ended without errors.      *)

(* Junk stands for bytes that are in no file: what lay in the board's      *)
(* memory before is not taken for the end of a frame.                      *)
NoJunk == \A f \in Files : \A i \in 1..Len(f) : f[i] # Junk

(* The frame stored and the one that was to be sent, when the echo of the  *)
(* one has no errors for the other.                                        *)
LEMMA EchoTells ==
  ASSUME Types, NEW c \in Seq(Nat), Len(c) > 0, NEW g \in Seq(Nat),
         EchoErrors(c, Packet(~HostSends, g)) = 0
  PROVE  /\ HostSends => \A i \in 1..Len(c) : i <= Len(g) => c[i] = g[i]
         /\ HostSends /\ Len(g) = 0 => c[1] = Junk
         /\ ~HostSends /\ Len(g) >= ETH_MINIMUM_NBYTES /\ (\A i \in 1..Len(c) : c[i] # Junk) =>
              Len(c) <= Len(g) /\ \A i \in 1..Len(c) : c[i] = g[i]
<1> DEFINE p == Packet(~HostSends, g)
<1>1. /\ p \in Seq(Nat)
      /\ Len(p) = IF Len(g) >= ETH_MINIMUM_NBYTES THEN Len(g) ELSE ETH_MINIMUM_NBYTES
      /\ \A i \in 1..Len(p) : p[i] = IF i <= Len(g) THEN g[i] ELSE IF ~HostSends THEN 0 ELSE Junk
  <2>1. (~HostSends) \in BOOLEAN
    BY DEF HostSends
  <2> QED BY <2>1, PacketIs
<1>2. Len(c) \in Nat /\ Len(g) \in Nat /\ Len(p) \in Nat /\ Len(g) <= Len(p)
      /\ 1 <= Len(p) /\ 1 \in 1..Len(c)
  BY <1>1, LenProperties, ConstFacts, SMTT(60)
<1>3. EchoErrors(c, p) = 0
  OBVIOUS
<1> HIDE DEF p
<1>4. CASE HostSends
  <2>1. \A i \in 1..Len(c) : i <= Len(p) => c[i] = p[i]
    BY <1>1, <1>3, <1>4, NoDifference DEF EchoErrors
  <2>2. ASSUME NEW i \in 1..Len(c), i <= Len(g) PROVE c[i] = g[i]
    <3>1. i \in 1..Len(p)
      BY <1>2, <2>2
    <3> QED BY <1>1, <2>1, <2>2, <3>1
  <2>3. ASSUME Len(g) = 0 PROVE c[1] = Junk
    <3>1. 1 \in 1..Len(p) /\ ~(1 <= Len(g))
      BY <1>2, <2>3
    <3> QED BY <1>1, <1>2, <1>4, <2>1, <3>1
  <2> QED BY <1>4, <2>2, <2>3
<1>5. CASE ~HostSends
  <2>1. SUFFICES ASSUME Len(g) >= ETH_MINIMUM_NBYTES, \A i \in 1..Len(c) : c[i] # Junk
                 PROVE  Len(c) <= Len(g) /\ \A i \in 1..Len(c) : c[i] = g[i]
    BY <1>5
  <2>2. Len(p) = Len(g)
    BY <1>1, <2>1
  <2> DEFINE q == Memory(p, Len(c))
  <2>3. /\ q \in Seq(Nat) /\ Len(q) = Len(c)
        /\ \A i \in 1..Len(c) : q[i] = IF i <= Len(p) THEN p[i] ELSE Junk
    BY <1>1, <1>2, MemoryIs
  <2>4. Differ(c, q) = 0
    BY <1>3, <1>5 DEF EchoErrors
  <2> HIDE DEF q
  <2>5. \A i \in 1..Len(c) : c[i] = q[i]
    <3>1. \A i \in 1..Len(c) : i <= Len(q) => c[i] = q[i]
      BY <2>3, <2>4, NoDifference
    <3> QED BY <1>2, <2>3, <3>1
  <2>6. ASSUME NEW i \in 1..Len(c) PROVE i <= Len(g) /\ c[i] = g[i]
    <3>1. i <= Len(p)
      BY <2>1, <2>3, <2>5
    <3>2. i \in 1..Len(p)
      BY <1>2, <3>1
    <3> QED BY <1>1, <2>2, <2>3, <2>5, <3>1, <3>2
  <2>7. Len(c) \in 1..Len(c)
    BY <1>2
  <2> QED BY <2>6, <2>7
<1> QED BY <1>4, <1>5

(* The receiver has stored as many frames as the file has, and no echo of  *)
(* them was lost.                                                          *)
LEMMA AllStored ==
  ASSUME TransferInv, sst = "done", errs = 0, Compares, (HostSends /\ ~sized) \/ NoJunk
  PROVE  /\ rst = "done" /\ losses.echo = 0 /\ size = Len(file)
         /\ Len(got) = NumFrames(Len(file)) /\ LastFrame = NumFrames(Len(file))
         /\ \A j \in 1..Len(got) : EchoErrors(Chunk(j), Packet(~HostSends, got[j])) = 0
<1> DEFINE m == NumFrames(Len(file))
<1>1. /\ file \in Seq(Nat) /\ Len(file) \in Nat \ {0} /\ m \in Nat \ {0} /\ size \in Nat
      /\ Len(got) \in Nat /\ Len(back) \in Nat /\ losses.echo \in Nat
      /\ Sizes = IF sized THEN 1 ELSE 0
  BY ConstFacts, ItemsAre, StillLeading DEF TransferInv, Types
<1>2. k = Sizes + m /\ Acks = 1 + Sizes + m
  BY ItemsAre, SMTT(60) DEF TransferInv, Types, PlaceInv, Acks
<1> HIDE DEF m
<1>3. rst \in {"data", "done"}
  <2>1. rst \notin {"sync", "size"}
    BY <1>1, <1>2, StillLeading
  <2> QED BY <2>1 DEF TransferInv, Types
<1>4. Len(got) = m + Len(back) + losses.echo
  <2>1. Replies = 1 + Sizes + Len(got)
    BY <1>3 DEF Replies
  <2>2. Replies = Acks + Len(back) + losses.echo
    BY DEF TransferInv, CountInv
  <2> QED BY <1>1, <1>2, <2>1, <2>2
<1>5. LastFrame \in Nat \ {0} /\ Len(got) <= LastFrame /\ (rst = "data" => Len(got) < LastFrame)
      /\ LastFrame = (IF size = 0 THEN 1 ELSE NumFrames(size))
  <2>1. /\ LastFrame \in Nat \ {0}
        /\ LastFrame = IF size = 0 THEN 1 ELSE NumFrames(size)
    BY <1>1, LastFrameIs
  <2>2. /\ rst = "data" => Len(got) < LastFrame
        /\ rst = "done" => Len(got) = LastFrame
    BY Zenon DEF TransferInv, PlaceInv
  <2>3. Len(got) <= LastFrame /\ (rst = "data" => Len(got) < LastFrame)
    <3>1. Len(got) \in Nat /\ LastFrame \in Nat
      BY <1>1, <2>1
    <3>2. CASE rst = "data"
      BY <2>2, <3>1, <3>2
    <3>3. CASE rst = "done"
      BY <2>2, <3>1, <3>3
    <3> QED BY <1>3, <3>2, <3>3
  <2> QED BY <2>1, <2>3
<1>6. \A j \in 1..Len(got) : losses.echo = 0 /\ j <= m =>
        EchoErrors(Chunk(j), Packet(~HostSends, got[j])) = 0
  <2>1. k - Sizes = m
    BY <1>1, <1>2
  <2> QED BY <2>1 DEF TransferInv, AckInv
<1>7. ASSUME size # Len(file) PROVE FALSE
  <2>1. HostSends /\ sized /\ size = 0
    BY <1>7 DEF TransferInv, SizeInv, Compares
  <2>2. LastFrame = 1 /\ m = 1 /\ Len(got) = 1 /\ losses.echo = 0
    BY <1>1, <1>4, <1>5, <2>1
  <2>3. 1 \in 1..Len(got) /\ 1 \in 1..m
    BY <2>2
  <2>4. Len(got[1]) = 0 /\ got[1] \in Seq(Nat)
    <3>1. Len(got[1]) = size - Off(LastFrame)
      BY <2>1, <2>2, <2>3 DEF TransferInv, StoredInv
    <3>2. got[1] \in Seq(Nat)
      BY <2>3, ElementOfSeq DEF TransferInv, Types
    <3>3. Off(LastFrame) = 0
      BY <2>2, OffNext
    <3> QED BY <2>1, <3>1, <3>2, <3>3
  <2>5. EchoErrors(Chunk(1), Packet(~HostSends, got[1])) = 0
    BY <1>6, <2>2, <2>3
  <2>6. /\ Chunk(1) \in Seq(Nat) /\ Len(Chunk(1)) \in 1..ETH_NBYTES
        /\ \A i \in 1..Len(Chunk(1)) : Off(1) + i \in 1..Len(file) /\ Chunk(1)[i] = file[Off(1) + i]
    BY <2>3, ChunkIs DEF TransferInv, Types, m
  <2>7. Chunk(1)[1] = Junk
    BY <2>1, <2>4, <2>5, <2>6, EchoTells, SMTT(60) DEF TransferInv
  <2>8. Chunk(1)[1] # Junk
    <3>1. 1 \in 1..Len(Chunk(1))
      BY <2>6, ConstFacts
    <3> QED BY <2>1, <2>6, <3>1 DEF NoJunk, TransferInv, Types
  <2> QED BY <2>7, <2>8
<1>8. size = Len(file) /\ LastFrame = m /\ Len(got) = m /\ losses.echo = 0 /\ rst = "done"
  <2>1. size = Len(file)
    BY <1>7
  <2>2. LastFrame = m
    BY <1>1, <1>5, <2>1 DEF m
  <2> QED BY <1>1, <1>3, <1>4, <1>5, <2>1, <2>2
<1>9. \A j \in 1..Len(got) : EchoErrors(Chunk(j), Packet(~HostSends, got[j])) = 0
  BY <1>1, <1>6, <1>8
<1> QED BY <1>8, <1>9 DEF m

(* Frame by frame, the file is stored ... *)
LEMMA FramesIntact ==
  ASSUME TransferInv, sst = "done", errs = 0, Compares, (HostSends /\ ~sized) \/ NoJunk,
         NEW j \in 1..NumFrames(Len(file))
  PROVE  /\ Len(got[j]) \in Nat /\ Len(Chunk(j)) <= Len(got[j])
         /\ j # NumFrames(Len(file)) => Len(got[j]) = ETH_NBYTES
         /\ \A i \in 1..Len(Chunk(j)) : got[j][i] = Chunk(j)[i]
<1> DEFINE m == NumFrames(Len(file))
           c == Chunk(j)
           g == got[j]
<1>1. /\ size = Len(file) /\ Len(got) = m /\ LastFrame = m /\ j \in 1..Len(got)
      /\ EchoErrors(c, Packet(~HostSends, g)) = 0
  BY AllStored
<1>2. /\ c \in Seq(Nat) /\ Len(c) \in 1..ETH_NBYTES
      /\ Len(c) = IF j = m THEN Len(file) - Off(j) ELSE ETH_NBYTES
      /\ \A i \in 1..Len(c) : Off(j) + i \in 1..Len(file) /\ c[i] = file[Off(j) + i]
  BY ChunkIs DEF TransferInv, Types
<1>3. g \in Seq(Nat) /\ Len(g) \in Nat
  BY <1>1, ElementOfSeq, LenProperties DEF TransferInv, Types
<1>4. /\ HostSends => Len(g) = IF j = m THEN Len(file) - Off(j) ELSE ETH_NBYTES
      /\ ~HostSends => Len(g) \in ETH_MINIMUM_NBYTES..ETH_NBYTES
  BY <1>1 DEF TransferInv, StoredInv
<1> HIDE DEF m, c, g
<1>5. CASE HostSends
  <2>1. Len(g) = Len(c)
    BY <1>2, <1>4, <1>5
  <2>2. \A i \in 1..Len(c) : i <= Len(g) => c[i] = g[i]
    <3>1. Len(c) > 0 /\ Types
      BY <1>2, ConstFacts DEF TransferInv
    <3> QED BY <1>1, <1>2, <1>3, <1>5, <3>1, EchoTells, Zenon
  <2>3. /\ Len(c) <= Len(g) /\ (j # m => Len(g) = ETH_NBYTES)
        /\ \A i \in 1..Len(c) : c[i] = g[i]
    BY <1>2, <1>3, <2>1, <2>2
  <2> QED BY <1>3, <2>3 DEF m, c, g
<1>6. CASE ~HostSends
  <2>1. \A i \in 1..Len(c) : c[i] # Junk
    BY <1>2, <1>6 DEF NoJunk, TransferInv, Types
  <2>2. Len(g) >= ETH_MINIMUM_NBYTES /\ Len(g) <= ETH_NBYTES
    BY <1>3, <1>4, <1>6, ConstFacts
  <2>3. Len(c) <= Len(g) /\ \A i \in 1..Len(c) : c[i] = g[i]
    BY <1>1, <1>2, <1>3, <1>6, <2>1, <2>2, EchoTells DEF TransferInv
  <2>4. j # m => Len(g) = ETH_NBYTES
    BY <1>2, <1>3, <2>2, <2>3, ConstFacts
  <2> QED BY <1>3, <2>3, <2>4 DEF m, c, g
<1> QED BY <1>5, <1>6

(* ... and so the frames make up the file. *)
LEMMA CleanEnd ==
  ASSUME TransferInv, sst = "done", errs = 0, Compares, (HostSends /\ ~sized) \/ NoJunk
  PROVE  rst = "done" /\ Intact
<1> DEFINE m == NumFrames(Len(file))
           n == Len(file)
           all == FlattenSeq(got)
<1>1. rst = "done" /\ Len(got) = m /\ got \in Seq(Seq(Nat))
  BY AllStored DEF TransferInv, Types
<1>2. file \in Seq(Nat) /\ n \in Nat \ {0} /\ m \in Nat \ {0}
  BY ConstFacts, FrameOfByte DEF TransferInv, Types
<1>3. \A j \in 1..m :
        /\ Len(got[j]) \in Nat /\ Len(Chunk(j)) <= Len(got[j])
        /\ j # m => Len(got[j]) = ETH_NBYTES
        /\ \A i \in 1..Len(Chunk(j)) : got[j][i] = Chunk(j)[i]
  BY FramesIntact
<1>4. \A j \in 1..m :
        /\ Len(Chunk(j)) \in 1..ETH_NBYTES
        /\ Len(Chunk(j)) = IF j = m THEN n - Off(j) ELSE ETH_NBYTES
        /\ \A i \in 1..Len(Chunk(j)) : Chunk(j)[i] = file[Off(j) + i]
  BY ChunkIs DEF TransferInv, Types
<1>5. \A p \in 1..n : NumFrames(p) \in 1..m /\ Off(NumFrames(p)) < p
                      /\ p <= Off(NumFrames(p)) + ETH_NBYTES
  <2>1. ASSUME NEW p \in 1..n
        PROVE  NumFrames(p) \in 1..m /\ Off(NumFrames(p)) < p
               /\ p <= Off(NumFrames(p)) + ETH_NBYTES
    <3>1. p \in Nat \ {0}
      BY <1>2
    <3>2. /\ NumFrames(p) \in Nat \ {0} /\ NumFrames(p) <= m
          /\ Off(NumFrames(p)) < p /\ p <= Off(NumFrames(p)) + ETH_NBYTES
      BY <1>2, <3>1, FrameOfByte, FrameInFile
    <3> QED BY <1>2, <3>2
  <2> QED BY <2>1
<1> HIDE DEF m, n
<1>6. /\ all \in Seq(Nat) /\ Len(all) = Off(m) + Len(got[m])
      /\ \A j \in 1..m : \A i \in 1..Len(got[j]) : all[Off(j) + i] = got[j][i]
  <2>1. \A j \in 1..m-1 : Len(got[j]) = ETH_NBYTES
    <3>1. \A j \in 1..m-1 : j \in 1..m /\ j # m
      BY <1>2
    <3> QED BY <1>3, <3>1
  <2> QED BY <1>1, <1>2, <2>1, FlattenFull
<1> HIDE DEF all
<1>7. n <= Len(all) /\ Len(all) \in Nat
  <2>1. m \in 1..m /\ Off(m) \in Nat
    <3>1. m \in Nat \ {0}
      BY <1>2
    <3>2. m \in 1..m
      BY <3>1
    <3> QED BY <3>1, <3>2, OffNext, Zenon
  <2>2. Len(Chunk(m)) = n - Off(m) /\ Len(Chunk(m)) <= Len(got[m]) /\ Len(got[m]) \in Nat
    BY <1>3, <1>4, <2>1
  <2>3. Len(all) = Off(m) + Len(got[m])
    BY <1>6
  <2> DEFINE l == Len(all)
             w == Len(got[m])
             o == Off(m)
  <2>4. n \in Nat /\ o \in Nat /\ w \in Nat /\ n - o <= w /\ l = o + w
    BY <1>2, <2>1, <2>2, <2>3
  <2> HIDE DEF l, w, o
  <2>5. n <= l /\ l \in Nat
    BY <2>4
  <2> QED BY <2>5 DEF l
<1>8. ASSUME NEW p \in 1..n PROVE all[p] = file[p]
  <2> DEFINE j == NumFrames(p)
             i == p - Off(j)
  <2>1. j \in 1..m /\ Off(j) < p /\ p <= Off(j) + ETH_NBYTES
    BY <1>5
  <2> HIDE DEF j
  <2>2. Off(j) \in Nat
    BY <2>1, OffNext
  <2>3. Off(j) + i = p /\ i \in 1..Len(Chunk(j))
    <3>1. Len(Chunk(j)) = IF j = m THEN n - Off(j) ELSE ETH_NBYTES
      BY <1>4, <2>1
    <3> QED BY <1>2, <2>1, <2>2, <3>1, ConstFacts
  <2> HIDE DEF i
  <2>4. i \in 1..Len(got[j])
    BY <1>3, <1>4, <2>1, <2>3
  <2>5. all[Off(j) + i] = got[j][i] /\ got[j][i] = Chunk(j)[i] /\ Chunk(j)[i] = file[Off(j) + i]
    BY <1>3, <1>4, <1>6, <2>1, <2>3, <2>4
  <2> QED BY <2>3, <2>5
<1>9. SubSeq(all, 1, n) = file
  <2>1. \A i \in 1..n : all[i] \in Nat
    <3>1. all \in Seq(Nat) /\ \A i \in 1..n : i \in 1..Len(all)
      BY <1>2, <1>6, <1>7
    <3> QED BY <3>1, ElementOfSeq, Zenon
  <2>2. /\ SubSeq(all, 1, n) \in Seq(Nat) /\ Len(SubSeq(all, 1, n)) = n
        /\ \A i \in 1..n : SubSeq(all, 1, n)[i] = all[i]
    BY <1>2, <1>6, <1>7, <2>1
  <2> QED BY <1>2, <1>8, <2>2, SeqEqual DEF n
<1> QED BY <1>1, <1>9 DEF Intact, all, n

-----------------------------------------------------------------------------
(* So it holds throughout. *)
LEMMA TransferInvariant == Spec => []TransferInv
BY TransferInit, TransferStep, PTL DEF Spec

(* A sender that ends without errors has delivered the file, whatever was  *)
(* lost, repeated or taken for something else: the host for files of any   *)
(* bytes when it does not send the size first ...                          *)
THEOREM HostSendsIntact ==
  Spec => [](HostSends /\ ~sized => (sst = "done" /\ errs = 0 => rst = "done" /\ Intact))
<1>1. TransferInv =>
        (HostSends /\ ~sized => (sst = "done" /\ errs = 0 => rst = "done" /\ Intact))
  BY CleanEnd DEF Compares
<1> QED BY <1>1, TransferInvariant, PTL

(* ... and every sender that compares what the invariant says it does, for *)
(* files without the bytes that lay in the board's memory (iob_eth.c:651). *)
THEOREM CleanIsIntact == ASSUME NoJunk PROVE Spec => []CleanMeansIntact
<1>1. TransferInv => CleanMeansIntact
  BY CleanEnd DEF CleanMeansIntact, Compares
<1> QED BY <1>1, TransferInvariant, PTL
=============================================================================
