--------------------------- MODULE BringUpProofs ---------------------------
(***************************************************************************)
(* For every length of the PHY reset, every rate of the MII clocks that    *)
(* fits four edges into it, and any number of warm resets: software that   *)
(* waits for PHY_RST_VAL finds every FIFO reset on both sides, and in it   *)
(* only words written since.                                               *)
(*                                                                         *)
(* The argument.  Until an MII domain has been reset, every stage its      *)
(* synchronisers are in bounds the time since arst_i fell by that many     *)
(* intervals between edges (Timed); four of them are shorter than the PHY  *)
(* reset, so phy_rst is still up.  Once the domain has been reset, its     *)
(* synchroniser only follows phy_rst down (Settled), so it is not reset    *)
(* again.  Enabling needs phy_rst down, hence both domains reset.          *)
(***************************************************************************)
EXTENDS BringUp, TLAPS

Elapsed == RstVal - cnt

Timed == ~arst => \A d \in Domains \ fresh :
  \/ rs[d] = 2 /\ ~s1[d] /\ Elapsed <= gap[d]
  \/ rs[d] = 1 /\ ~s1[d] /\ Elapsed <= Rate + gap[d]
  \/ rs[d] = 0 /\ ~s1[d] /\ Elapsed <= 2 * Rate + gap[d]
  \/ rs[d] = 0 /\ s1[d] /\ Elapsed <= 3 * Rate + gap[d]

Settled == \A d \in fresh :
  rs[d] = 0 /\ (s1[d] \/ ~PhyRst) /\ (s1[d] => s2[d])

Held == arst =>
  cnt = RstVal /\ ~on /\ fresh = {} /\ \A d \in Domains : rs[d] = 2 /\ ~s1[d] /\ ~s2[d]

Waited == on => ~PhyRst /\ fresh = Domains

SystemIdle == ~on => ptr["tx_data"].w = 0 /\ ptr["rx_data"].r = 0 /\ ptr["rx_info"].r = 0

MiiIdle ==
  /\ \A d \in Domains : s2[d] => d \in fresh
  /\ s2["tx"] => ptr["tx_data"].r = 0
  /\ s2["rx"] => ptr["rx_data"].w = 0 /\ ptr["rx_info"].w = 0

FreshAligned ==
  /\ "tx" \in fresh => ptr["tx_data"].r <= ptr["tx_data"].w
  /\ "rx" \in fresh => /\ ptr["rx_data"].r <= ptr["rx_data"].w
                       /\ ptr["rx_info"].r <= ptr["rx_info"].w

(* A write side that has been reset since arst_i counts what was written.  *)
Counted ==
  /\ ptr["tx_data"].w <= wrote["tx_data"]
  /\ "rx" \in fresh => /\ ptr["rx_data"].w <= wrote["rx_data"]
                       /\ ptr["rx_info"].w <= wrote["rx_info"]

Inv == /\ TypeOK /\ Timed /\ Settled /\ Held /\ Waited
       /\ SystemIdle /\ MiiIdle /\ FreshAligned /\ Counted

ClockInv == Timed /\ Settled /\ Held /\ Waited
PtrInv == SystemIdle /\ MiiIdle /\ FreshAligned

USE DEF Domains, fifoVars

(* The wiring of the FIFOs, side by side. *)
LEMMA WiringFacts ==
  /\ Fifos = {"tx_data", "rx_data", "rx_info"}
  /\ Wiring["tx_data"].w = "arst_i" /\ Wiring["tx_data"].r = "tx"
  /\ Wiring["rx_data"].w = "rx" /\ Wiring["rx_data"].r = "arst_i"
  /\ Wiring["rx_info"].w = "rx" /\ Wiring["rx_info"].r = "arst_i"
BY DEF Fifos, Wiring, TxDataFifo, RxDataFifo, RxInfoFifo

(* What a reset clears, pointer by pointer. *)
LEMMA ClearedFacts ==
  ASSUME NEW k, NEW p \in [Fifos -> [w: 0..MaxWords, r: 0..MaxWords]]
  PROVE  /\ Cleared(k, p) \in [Fifos -> [w: 0..MaxWords, r: 0..MaxWords]]
         /\ \A f \in Fifos :
              /\ Cleared(k, p)[f].w = IF Wiring[f].w = k THEN 0 ELSE p[f].w
              /\ Cleared(k, p)[f].r = IF Wiring[f].r = k THEN 0 ELSE p[f].r
BY BoundAssumption DEF Cleared

(* A move is one pointer, of a side that k resets, one up, and a read only *)
(* of a FIFO that is not empty.                                            *)
LEMMA MoveFacts ==
  ASSUME NEW k, Move(k), ptr \in [Fifos -> [w: 0..MaxWords, r: 0..MaxWords]]
  PROVE  /\ ptr' \in [Fifos -> [w: 0..MaxWords, r: 0..MaxWords]]
         /\ \A f \in Fifos :
              /\ ptr'[f].w \in {ptr[f].w, ptr[f].w + 1}
              /\ ptr'[f].r \in {ptr[f].r, ptr[f].r + 1}
              /\ ptr'[f].w # ptr[f].w => Wiring[f].w = k
              /\ ptr'[f].r # ptr[f].r => Wiring[f].r = k /\ ptr[f].r # ptr[f].w
<1>1. CASE UNCHANGED fifoVars
  BY <1>1
<1>2. ASSUME NEW g \in Fifos, Wiring[g].w = k, ptr[g].w < MaxWords, Write(g)
      PROVE  ptr' = [ptr EXCEPT ![g] = [w |-> ptr[g].w + 1, r |-> ptr[g].r]]
                /\ ptr[g].w + 1 \in 0..MaxWords
  <2>1. ptr[g] \in [w: 0..MaxWords, r: 0..MaxWords]
    OBVIOUS
  <2>2. [ptr[g] EXCEPT !.w = @ + 1] = [w |-> ptr[g].w + 1, r |-> ptr[g].r]
    BY <2>1
  <2>3. ptr[g].w + 1 \in 0..MaxWords
    BY <1>2, <2>1, BoundAssumption
  <2>4. QED
    BY <1>2, <2>2, <2>3 DEF Write
<1>3. ASSUME NEW g \in Fifos, Wiring[g].r = k, ptr[g].r < MaxWords, Read(g)
      PROVE  ptr' = [ptr EXCEPT ![g] = [w |-> ptr[g].w, r |-> ptr[g].r + 1]]
                /\ ptr[g].r + 1 \in 0..MaxWords
  <2>1. ptr[g] \in [w: 0..MaxWords, r: 0..MaxWords]
    OBVIOUS
  <2>2. [ptr[g] EXCEPT !.r = @ + 1] = [w |-> ptr[g].w, r |-> ptr[g].r + 1]
    BY <2>1
  <2>3. ptr[g].r + 1 \in 0..MaxWords
    BY <1>3, <2>1, BoundAssumption
  <2>4. QED
    BY <1>3, <2>2, <2>3 DEF Read
<1>4. CASE \E f \in Fifos : Wiring[f].w = k /\ ptr[f].w < MaxWords /\ Write(f)
  BY <1>4, <1>2
<1>5. CASE \E f \in Fifos : Wiring[f].r = k /\ ptr[f].r # ptr[f].w
                             /\ ptr[f].r < MaxWords /\ Read(f)
  BY <1>5, <1>3
<1>6. QED
  BY <1>1, <1>4, <1>5 DEF Move

(* A move counts the word that it writes. *)
LEMMA MoveCounts ==
  ASSUME NEW k, Move(k), ptr \in [Fifos -> [w: 0..MaxWords, r: 0..MaxWords]],
         wrote \in [Fifos -> Nat]
  PROVE  /\ wrote' \in [Fifos -> Nat]
         /\ \A f \in Fifos : ptr[f].w <= wrote[f] => ptr'[f].w <= wrote'[f]
<1>1. CASE UNCHANGED fifoVars
  BY <1>1
<1>2. ASSUME NEW g \in Fifos, Write(g)
      PROVE  /\ wrote' \in [Fifos -> Nat]
             /\ \A f \in Fifos : ptr[f].w <= wrote[f] => ptr'[f].w <= wrote'[f]
  <2>1. /\ wrote' = [wrote EXCEPT ![g] = wrote[g] + 1]
        /\ \A f \in Fifos : ptr'[f].w = IF f = g THEN ptr[f].w + 1 ELSE ptr[f].w
    BY <1>2 DEF Write
  <2>2. \A f \in Fifos : ptr[f].w \in Nat /\ wrote[f] \in Nat
    BY BoundAssumption
  <2>3. QED
    BY <2>1, <2>2
<1>3. ASSUME NEW g \in Fifos, Read(g)
      PROVE  wrote' = wrote /\ \A f \in Fifos : ptr'[f].w = ptr[f].w
  BY <1>3 DEF Read
<1>4. QED
  BY <1>1, <1>2, <1>3 DEF Move

(* A move never lets the reader of a FIFO overtake its writer. *)
LEMMA MoveKeepsOrder ==
  ASSUME NEW k, Move(k), ptr \in [Fifos -> [w: 0..MaxWords, r: 0..MaxWords]],
         NEW f \in Fifos, ptr[f].r <= ptr[f].w
  PROVE  ptr'[f].r <= ptr'[f].w
<1>1. ptr[f].r \in Nat /\ ptr[f].w \in Nat
  BY BoundAssumption
<1>2. /\ ptr'[f].w \in {ptr[f].w, ptr[f].w + 1}
      /\ ptr'[f].r \in {ptr[f].r, ptr[f].r + 1}
      /\ ptr'[f].r # ptr[f].r => ptr[f].r # ptr[f].w
  BY MoveFacts
<1>3. QED
  BY <1>1, <1>2

(* The counter stays above what the clock invariant speaks of. *)
LEMMA RstValFacts == RstVal \in Nat /\ RstVal >= Half /\ Half \in Nat \ {0} /\ Rate \in Nat
                       /\ RstVal - Half >= 4 * Rate
BY CounterAssumption, RateAssumption DEF RstVal

(* A domain that has not been reset since arst_i: phy_rst is still up. *)
LEMMA StillInReset ==
  ASSUME TypeOK, Timed, Held, NEW d \in Domains \ fresh
  PROVE  PhyRst
<1>1. RstVal - cnt <= 4 * Rate /\ cnt \in Nat
  <2>1. CASE arst
    BY <2>1, RstValFacts DEF Held, TypeOK
  <2>2. CASE ~arst
    BY <2>2, RstValFacts DEF Timed, Elapsed, TypeOK
  <2>3. QED BY <2>1, <2>2
<1>2. QED
  BY <1>1, RstValFacts DEF PhyRst

(* The invariant before the first edge. *)
LEMMA InitInv == Init => Inv
<1> SUFFICES ASSUME Init PROVE Inv
  OBVIOUS
<1>1. PICK junk \in [Fifos -> [w: 0..MaxWords, r: 0..MaxWords]] : ptr = Cleared("arst_i", junk)
  BY DEF Init
<1>2. ptr \in [Fifos -> [w: 0..MaxWords, r: 0..MaxWords]]
  BY <1>1, ClearedFacts
<1>3. SystemIdle
  BY <1>1, ClearedFacts, WiringFacts DEF SystemIdle
<1>4. TypeOK
  <2>1. /\ cnt \in 0..RstVal /\ resets \in 0..MaxResets /\ fresh \subseteq Domains
        /\ wrote \in [Fifos -> Nat]
    BY RstValFacts, BoundAssumption DEF Init
  <2>2. rs \in [Domains -> 0..2] /\ gap \in [Domains -> 0..Rate]
    BY DEF Init
  <2>3. s1 \in [Domains -> BOOLEAN] /\ s2 \in [Domains -> BOOLEAN]
    BY DEF Init
  <2>4. QED
    BY <1>2, <2>1, <2>2, <2>3 DEF Init, TypeOK
<1>5. ClockInv
  BY DEF Init, ClockInv, Timed, Settled, Held, Waited
<1>6. MiiIdle /\ FreshAligned
  BY DEF Init, MiiIdle, FreshAligned
<1>7. Counted
  BY <1>1, ClearedFacts, WiringFacts DEF Init, Counted
<1>8. QED
  BY <1>3, <1>4, <1>5, <1>6, <1>7 DEF Inv, ClockInv

(* The counter stops at RST_VAL and the pointers wrap. *)
LEMMA TypeStep == TypeOK /\ Held /\ [Next]_vars => TypeOK'
<1> SUFFICES ASSUME TypeOK, Held, [Next]_vars PROVE TypeOK'
  OBVIOUS
<1>1. CASE SysTick
  <2>1. cnt' \in 0..RstVal
    BY <1>1, RstValFacts DEF SysTick, PhyResetCounter, PhyRst, TypeOK
  <2>2. ptr' \in [Fifos -> [w: 0..MaxWords, r: 0..MaxWords]] /\ wrote' \in [Fifos -> Nat]
    BY <1>1, MoveFacts, MoveCounts DEF SysTick, TypeOK
  <2>3. gap' \in [Domains -> 0..Rate]
    BY <1>1, RateAssumption DEF SysTick, TypeOK
  <2>4. QED
    BY <1>1, <2>1, <2>2, <2>3 DEF SysTick, TypeOK
<1>2. ASSUME NEW d \in Domains, MiiTick(d) PROVE TypeOK'
  <2>1. /\ ptr' \in [Fifos -> [w: 0..MaxWords, r: 0..MaxWords]] /\ fresh' \subseteq Domains
        /\ wrote' \in [Fifos -> Nat]
    <3>1. CASE s2'[d]
      <4>1. /\ ptr' = Cleared(d, ptr) /\ fresh' = fresh \cup {d}
            /\ wrote' = [f \in Fifos |-> IF Wiring[f].w = d THEN 0 ELSE wrote[f]]
        BY <1>2, <3>1 DEF MiiTick
      <4>2. QED
        BY <4>1, ClearedFacts DEF TypeOK
    <3>2. CASE ~s2'[d]
      BY <1>2, <3>2, MoveFacts, MoveCounts DEF MiiTick, TypeOK
    <3>3. QED BY <3>1, <3>2
  <2>2. rs' \in [Domains -> 0..2] /\ gap' \in [Domains -> 0..Rate]
    BY <1>2, RateAssumption DEF MiiTick, ResetSync, TypeOK
  <2>3. s1' \in [Domains -> BOOLEAN] /\ s2' \in [Domains -> BOOLEAN]
    BY <1>2 DEF MiiTick, PhyRstSync, TypeOK
  <2>4. QED
    BY <1>2, <2>1, <2>2, <2>3 DEF MiiTick, TypeOK
<1>3. CASE Enable
  BY <1>3 DEF Enable, TypeOK
<1>4. CASE Assert
  <2>1. ptr' \in [Fifos -> [w: 0..MaxWords, r: 0..MaxWords]] /\ wrote' \in [Fifos -> Nat]
    BY <1>4, ClearedFacts DEF Assert, TypeOK
  <2>2. cnt' \in 0..RstVal /\ resets' \in 0..MaxResets /\ fresh' \subseteq Domains
    BY <1>4, RstValFacts, BoundAssumption DEF Assert, TypeOK
  <2>3. /\ rs' \in [Domains -> 0..2] /\ gap' \in [Domains -> 0..Rate]
        /\ s1' \in [Domains -> BOOLEAN] /\ s2' \in [Domains -> BOOLEAN]
    BY <1>4 DEF Assert, TypeOK
  <2>4. QED
    BY <1>4, <2>1, <2>2, <2>3 DEF Assert, TypeOK
<1>5. CASE Release
  BY <1>5 DEF Release, TypeOK
<1>6. CASE UNCHANGED vars
  BY <1>6 DEF vars, TypeOK
<1>7. QED
  BY <1>1, <1>2, <1>3, <1>4, <1>5, <1>6 DEF Next

(* The clocks, the synchronisers and the wait. *)
LEMMA ClockStep == TypeOK /\ TypeOK' /\ ClockInv /\ MiiIdle /\ [Next]_vars => ClockInv'
<1> SUFFICES ASSUME TypeOK, TypeOK', ClockInv, MiiIdle, [Next]_vars PROVE ClockInv'
  OBVIOUS
<1> USE DEF ClockInv
<1>1. CASE SysTick
  <2> USE <1>1 DEF SysTick
  <2>1. cnt' \in Nat /\ cnt \in Nat /\ cnt - 1 <= cnt' /\ cnt' <= cnt
    BY RstValFacts DEF TypeOK, PhyResetCounter
  <2>2. \A d \in Domains : gap'[d] = gap[d] + 1 /\ gap[d] \in Nat
    BY DEF TypeOK
  <2>3. Timed'
    BY <2>1, <2>2, RstValFacts DEF Timed, Elapsed, RstVal
  <2>4. PhyRst' => PhyRst
    BY <2>1, RstValFacts DEF PhyRst
  <2>5. Settled' /\ Held' /\ Waited'
    BY <2>4 DEF Settled, Held, Waited
  <2>6. QED BY <2>3, <2>5
<1>2. ASSUME NEW d \in Domains, MiiTick(d) PROVE ClockInv'
  <2>1. /\ rs'[d] = IF arst THEN 2 ELSE IF rs[d] > 0 THEN rs[d] - 1 ELSE 0
        /\ s1'[d] <=> rs[d] = 0 /\ PhyRst
        /\ s2'[d] <=> rs[d] = 0 /\ s1[d]
        /\ gap'[d] = 0 /\ cnt' = cnt /\ arst' = arst /\ on' = on /\ (PhyRst' <=> PhyRst)
    BY <1>2 DEF MiiTick, ResetSync, PhyRstSync, TypeOK, PhyRst
  <2>2. \A e \in Domains \ {d} :
          rs'[e] = rs[e] /\ s1'[e] = s1[e] /\ s2'[e] = s2[e] /\ gap'[e] = gap[e]
    BY <1>2 DEF MiiTick, ResetSync, PhyRstSync, TypeOK
  <2>3. fresh' = IF s2'[d] THEN fresh \cup {d} ELSE fresh
    BY <1>2 DEF MiiTick
  <2>4. Timed'
    <3>1. SUFFICES ASSUME ~arst, NEW e \in Domains, e \notin fresh'
                   PROVE  \/ rs'[e] = 2 /\ ~s1'[e] /\ Elapsed <= gap'[e]
                          \/ rs'[e] = 1 /\ ~s1'[e] /\ Elapsed <= Rate + gap'[e]
                          \/ rs'[e] = 0 /\ ~s1'[e] /\ Elapsed <= 2 * Rate + gap'[e]
                          \/ rs'[e] = 0 /\ s1'[e] /\ Elapsed <= 3 * Rate + gap'[e]
      BY <2>1 DEF Timed, Elapsed, RstVal
    <3>2. e \notin fresh
      BY <2>3, <3>1
    <3>3. CASE e # d
      BY <3>1, <3>2, <3>3, <2>2 DEF Timed
    <3>4. CASE e = d
      <4>1. PhyRst
        BY <3>2, StillInReset
      <4>2. gap[d] \in Nat /\ gap[d] <= Rate /\ Elapsed \in Int /\ rs[d] \in 0..2
        BY RstValFacts DEF TypeOK, Elapsed
      <4>3. ~(rs[d] = 0 /\ s1[d])
        BY <2>1, <2>3, <3>1, <3>4
      <4>4. QED
        BY <3>1, <3>2, <3>4, <4>1, <4>2, <4>3, <2>1, RstValFacts DEF Timed
    <3>5. QED BY <3>3, <3>4
  <2>5. Settled'
    <3>1. ASSUME NEW e \in fresh' PROVE
            rs'[e] = 0 /\ (s1'[e] \/ ~PhyRst) /\ (s1'[e] => s2'[e])
      <4>1. CASE e # d
        BY <4>1, <3>1, <2>2, <2>3 DEF Settled, TypeOK
      <4>2. CASE e = d /\ d \in fresh
        <5>1. ~arst
          BY <4>2 DEF Held
        <5>2. QED
          BY <4>2, <5>1, <2>1 DEF Settled
      <4>3. CASE e = d /\ d \notin fresh
        <5>1. s2'[d] /\ rs[d] = 0 /\ s1[d]
          BY <4>3, <3>1, <2>1, <2>3
        <5>2. PhyRst /\ ~arst
          BY <4>3, <5>1, StillInReset DEF Held
        <5>3. QED
          BY <4>3, <5>1, <5>2, <2>1
      <4>4. QED BY <4>1, <4>2, <4>3
    <3>2. QED BY <3>1, <2>1 DEF Settled
  <2>6. Held'
    BY <2>1, <2>2, <2>3 DEF Held
  <2>7. Waited'
    BY <2>1, <2>3 DEF Waited
  <2>8. QED BY <2>4, <2>5, <2>6, <2>7
<1>3. CASE Enable
  <2>1. fresh = Domains
    BY <1>3, StillInReset DEF Enable, TypeOK
  <2>2. QED
    BY <1>3, <2>1 DEF Enable, Timed, Elapsed, RstVal, Settled, Held, Waited, PhyRst
<1>4. CASE Assert
  BY <1>4 DEF Assert, Timed, Settled, Held, Waited
<1>5. CASE Release
  BY <1>5, RstValFacts DEF Release, Timed, Elapsed, RstVal, Settled, Held, Waited, PhyRst, TypeOK
<1>6. CASE UNCHANGED vars
  BY <1>6 DEF vars, Timed, Elapsed, RstVal, Settled, Held, Waited, PhyRst
<1>7. QED
  BY <1>1, <1>2, <1>3, <1>4, <1>5, <1>6 DEF Next

(* An edge of domain d that finds it in reset again: it already was. *)
LEMMA NoSecondReset ==
  ASSUME TypeOK, Settled, Waited, on, NEW d \in Domains, PhyRstSync(d), s2'[d]
  PROVE  s2[d]
BY DEF TypeOK, Settled, Waited, PhyRstSync

(* The pointers. *)
LEMMA PtrStep == Inv /\ ClockInv' /\ [Next]_vars => PtrInv'
<1> SUFFICES ASSUME Inv, ClockInv', [Next]_vars PROVE PtrInv'
  OBVIOUS
<1> DEFINE P == [Fifos -> [w: 0..MaxWords, r: 0..MaxWords]]
<1>p. ptr \in P /\ \A f \in Fifos : ptr[f].w \in Nat /\ ptr[f].r \in Nat
  BY DEF Inv, TypeOK
<1>1. CASE SysTick
  <2>1. CASE ~on
    BY <1>1, <2>1 DEF SysTick, Inv, PtrInv, SystemIdle, MiiIdle, FreshAligned
  <2>2. CASE on
    <3>1. Move("arst_i")
      BY <1>1, <2>2 DEF SysTick
    <3>2. /\ ptr'["tx_data"].r = ptr["tx_data"].r
          /\ ptr'["rx_data"].w = ptr["rx_data"].w
          /\ ptr'["rx_info"].w = ptr["rx_info"].w
      BY <3>1, <1>p, MoveFacts, WiringFacts
    <3>3. \A f \in Fifos : ptr[f].r <= ptr[f].w => ptr'[f].r <= ptr'[f].w
      BY <3>1, <1>p, MoveKeepsOrder
    <3>4. QED
      BY <1>1, <2>2, <3>2, <3>3, WiringFacts
         DEF SysTick, Inv, PtrInv, SystemIdle, MiiIdle, FreshAligned
  <2>3. QED BY <2>1, <2>2 DEF Inv, TypeOK
<1>2. ASSUME NEW d \in Domains, MiiTick(d) PROVE PtrInv'
  <2>1. on' = on /\ \A e \in Domains \ {d} : s2'[e] = s2[e]
    BY <1>2 DEF MiiTick, PhyRstSync, Inv, TypeOK
  <2>2. CASE s2'[d]
    <3>1. ptr' = Cleared(d, ptr) /\ fresh' = fresh \cup {d}
      BY <1>2, <2>2 DEF MiiTick
    <3>2. /\ ptr'["tx_data"].w = ptr["tx_data"].w
          /\ ptr'["rx_data"].r = ptr["rx_data"].r /\ ptr'["rx_info"].r = ptr["rx_info"].r
          /\ ptr'["tx_data"].r = IF d = "tx" THEN 0 ELSE ptr["tx_data"].r
          /\ ptr'["rx_data"].w = IF d = "rx" THEN 0 ELSE ptr["rx_data"].w
          /\ ptr'["rx_info"].w = IF d = "rx" THEN 0 ELSE ptr["rx_info"].w
      BY <3>1, <1>p, ClearedFacts, WiringFacts
    <3>3. d = "rx" => ptr["rx_data"].r = 0 /\ ptr["rx_info"].r = 0
      <4>1. CASE ~on
        BY <4>1 DEF Inv, SystemIdle
      <4>2. CASE on
        <5>1. s2[d]
          BY <4>2, <1>2, <2>2, NoSecondReset DEF MiiTick, Inv
        <5>2. QED
          BY <4>2, <5>1, <1>p, WiringFacts DEF Inv, MiiIdle, FreshAligned, Waited
      <4>3. QED BY <4>1, <4>2 DEF Inv, TypeOK
    <3>4. SystemIdle'
      BY <2>1, <3>2 DEF Inv, SystemIdle
    <3>5. MiiIdle'
      BY <2>1, <2>2, <3>1, <3>2 DEF Inv, MiiIdle
    <3>6. FreshAligned'
      BY <3>1, <3>2, <3>3, <1>p, WiringFacts DEF Inv, FreshAligned
    <3>7. QED BY <3>4, <3>5, <3>6 DEF PtrInv
  <2>3. CASE ~s2'[d]
    <3>1. Move(d) /\ fresh' = fresh
      BY <1>2, <2>3 DEF MiiTick
    <3>2. /\ ptr'["tx_data"].w = ptr["tx_data"].w
          /\ ptr'["rx_data"].r = ptr["rx_data"].r /\ ptr'["rx_info"].r = ptr["rx_info"].r
          /\ d # "tx" => ptr'["tx_data"].r = ptr["tx_data"].r
          /\ d # "rx" => /\ ptr'["rx_data"].w = ptr["rx_data"].w
                         /\ ptr'["rx_info"].w = ptr["rx_info"].w
      BY <3>1, <1>p, MoveFacts, WiringFacts
    <3>3. \A f \in Fifos : ptr[f].r <= ptr[f].w => ptr'[f].r <= ptr'[f].w
      BY <3>1, <1>p, MoveKeepsOrder
    <3>4. QED
      BY <2>1, <2>3, <3>1, <3>2, <3>3, WiringFacts
         DEF Inv, PtrInv, SystemIdle, MiiIdle, FreshAligned
  <2>4. QED BY <2>2, <2>3
<1>3. CASE Enable
  BY <1>3 DEF Enable, Inv, PtrInv, SystemIdle, MiiIdle, FreshAligned
<1>4. CASE Assert
  BY <1>4, <1>p, ClearedFacts, WiringFacts DEF Assert, PtrInv, SystemIdle, MiiIdle, FreshAligned
<1>5. CASE Release
  BY <1>5 DEF Release, Inv, PtrInv, SystemIdle, MiiIdle, FreshAligned
<1>6. CASE UNCHANGED vars
  BY <1>6 DEF vars, Inv, PtrInv, SystemIdle, MiiIdle, FreshAligned
<1>7. QED
  BY <1>1, <1>2, <1>3, <1>4, <1>5, <1>6 DEF Next

(* What was written is counted. *)
LEMMA CountedStep ==
  ASSUME TypeOK, Counted, [Next]_vars
  PROVE  Counted'
<1>p. ptr \in [Fifos -> [w: 0..MaxWords, r: 0..MaxWords]] /\ wrote \in [Fifos -> Nat]
  BY DEF TypeOK
<1>1. CASE SysTick
  BY <1>1, <1>p, MoveCounts, WiringFacts DEF SysTick, Counted
<1>2. ASSUME NEW d \in Domains, MiiTick(d) PROVE Counted'
  <2>1. CASE s2'[d]
    <3>1. /\ ptr' = Cleared(d, ptr) /\ fresh' = fresh \cup {d}
          /\ wrote' = [f \in Fifos |-> IF Wiring[f].w = d THEN 0 ELSE wrote[f]]
      BY <1>2, <2>1 DEF MiiTick
    <3>2. \A f \in Fifos : ptr'[f].w = IF Wiring[f].w = d THEN 0 ELSE ptr[f].w
      BY <3>1, <1>p, ClearedFacts
    <3>3. \A f \in Fifos : wrote'[f] = IF Wiring[f].w = d THEN 0 ELSE wrote[f]
      BY <3>1
    <3>4. CASE d = "tx"
      <4>1. \A f \in Fifos : ptr'[f].w = ptr[f].w /\ wrote'[f] = wrote[f]
        BY <3>2, <3>3, <3>4, WiringFacts
      <4>2. QED BY <3>1, <3>4, <4>1, WiringFacts DEF Counted
    <3>5. CASE d = "rx"
      <4>1. /\ ptr'["tx_data"].w = ptr["tx_data"].w /\ wrote'["tx_data"] = wrote["tx_data"]
            /\ ptr'["rx_data"].w = 0 /\ wrote'["rx_data"] = 0
            /\ ptr'["rx_info"].w = 0 /\ wrote'["rx_info"] = 0
        BY <3>2, <3>3, <3>5, WiringFacts
      <4>2. QED BY <4>1 DEF Counted
    <3>6. QED BY <3>4, <3>5
  <2>2. CASE ~s2'[d]
    BY <1>2, <2>2, <1>p, MoveCounts, WiringFacts DEF MiiTick, Counted
  <2>3. QED BY <2>1, <2>2
<1>3. CASE Enable
  BY <1>3 DEF Enable, Counted
<1>4. CASE Assert
  BY <1>4, <1>p, ClearedFacts, WiringFacts DEF Assert, Counted
<1>5. CASE Release
  BY <1>5 DEF Release, Counted
<1>6. CASE UNCHANGED vars
  BY <1>6 DEF vars, Counted
<1>7. QED
  BY <1>1, <1>2, <1>3, <1>4, <1>5, <1>6 DEF Next

(* The inductive invariant holds. *)
LEMMA Invariance == Spec => []Inv
<1>1. Inv /\ [Next]_vars => Inv'
  BY TypeStep, ClockStep, PtrStep, CountedStep DEF Inv, ClockInv, PtrInv
<1>2. QED
  BY InitInv, <1>1, PTL DEF Spec

(* Every register of the reset logic keeps to its width. *)
THEOREM ResetTypeCorrect == Spec => []TypeOK
BY Invariance, PTL DEF Inv

(* Software that waited for PHY_RST_VAL finds both MII domains reset since *)
(* arst_i, and no FIFO ever offers a word that was not written since.      *)
THEOREM AlignedAfterReset == Spec => []FifosAligned
<1>1. Inv => FifosAligned
  BY WiringFacts DEF Inv, FifosAligned, Waited, FreshAligned, Counted
<1>2. QED
  BY Invariance, <1>1, PTL

(* No word written once the core is enabled is lost to a reset that ends   *)
(* late in an MII domain.                                                  *)
THEOREM NothingSwallowedByReset == Spec => NothingSwallowed
<1> DEFINE Kept == \A f \in Fifos : ptr'[f].w >= ptr[f].w /\ ptr'[f].r >= ptr[f].r
<1>1. Inv /\ [Next]_vars /\ on /\ on' => Kept
  <2> SUFFICES ASSUME Inv, [Next]_vars, on, on' PROVE Kept
    OBVIOUS
  <2>p. ptr \in [Fifos -> [w: 0..MaxWords, r: 0..MaxWords]]
          /\ \A f \in Fifos : ptr[f].w \in Nat /\ ptr[f].r \in Nat
    BY DEF Inv, TypeOK
  <2>1. CASE SysTick
    BY <2>1, <2>p, MoveFacts DEF SysTick
  <2>2. ASSUME NEW d \in Domains, MiiTick(d) PROVE Kept
    <3>1. CASE s2'[d]
      <4>1. s2[d]
        BY <2>2, <3>1, NoSecondReset DEF MiiTick, Inv
      <4>2. ptr' = Cleared(d, ptr)
        BY <2>2, <3>1 DEF MiiTick
      <4>3. \A f \in Fifos : ptr'[f].w = ptr[f].w /\ ptr'[f].r = ptr[f].r
        BY <4>1, <4>2, <2>p, ClearedFacts, WiringFacts DEF Inv, MiiIdle
      <4>4. QED BY <4>3, <2>p
    <3>2. CASE ~s2'[d]
      BY <2>2, <3>2, <2>p, MoveFacts DEF MiiTick
    <3>3. QED BY <3>1, <3>2
  <2>3. CASE Enable \/ Release \/ UNCHANGED vars
    BY <2>3, <2>p DEF Enable, Release, vars
  <2>4. CASE Assert
    BY <2>4 DEF Assert
  <2>5. QED
    BY <2>1, <2>2, <2>3, <2>4 DEF Next
<1>2. Inv /\ [Next]_vars => [on /\ on' => Kept]_vars
  BY <1>1
<1>3. QED
  BY Invariance, <1>2, PTL DEF Spec, NothingSwallowed
=============================================================================
