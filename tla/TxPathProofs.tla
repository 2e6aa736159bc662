---------------------------- MODULE TxPathProofs ----------------------------
(***************************************************************************)
(* For every ring, frame length, FIFO depth and burst length, every delay  *)
(* of the FIFO's pointers, every delay of the handshake that ends within a *)
(* frame (LagAssumption) and any number of ring initialisations at any     *)
(* moment: the transmitter never reads an empty FIFO, and never leaves a   *)
(* byte of a frame behind in it.                                           *)
(*                                                                         *)
(* The argument.  The FIFO has no marks between frames: that the           *)
(* transmitter takes as many bytes as the Data Transfer block put in rests *)
(* on the two never working on different frames at once, that is, on the   *)
(* handshake.  HandInv says which states of the two are possible together; *)
(* LevelInv says, for each of these, how many bytes the FIFO holds.  One    *)
(* more fact is not in the handshake but in its timing: a frame does not   *)
(* end while the transmitter still sees its send (ClockInv).               *)
(***************************************************************************)
EXTENDS TxPath, SequenceTheorems, RingArithmetic, TLAPS

(* What the driver wrote into the ring, and the Data Transfer block copied *)
(* from it: only descriptors of frames are READY, and the last descriptor  *)
(* of a full-size ring wraps, which keeps bdn within the table.            *)
RingInv ==
  /\ sw = "init" => swi < num
  /\ sw = "fill" => cur > 0 /\ bds[(cur - 1) % num].len \in FrameLens
  /\ \A b \in Bd : bds[b].rd => bds[b].len \in FrameLens /\ (b = MaxBds - 1 => bds[b].wrap)
  /\ sw \in {"run", "fill"} /\ num = MaxBds => bds[MaxBds - 1].wrap
  /\ st # "bd" => desc.len \in FrameLens /\ (bdn = MaxBds - 1 => desc.wrap)

(* How far a frame has been fetched. *)
FetchInv ==
  /\ st = "pre" => cnt = 0
  /\ st \in {"ar", "rd"} => cnt <= desc.len
  /\ st = "rd" => beats > 0 /\ cnt + beats <= desc.len

(* The handshake.  Between the fall of send and the end of the frame the   *)
(* Data Transfer block sees the transmitter busy (readyS is FALSE), so it  *)
(* gets no further than waiting in state 4.                                *)
HandInv ==
  /\ ready <=> pc = "idle"
  /\ send <=> st = "seen"
  /\ sendS => st = "seen" \/ pc # "idle"
  /\ st \in {"ar", "rd"} \/ (st = "pre" /\ pre > 0) => pc = "idle" /\ readyS
  /\ st = "seen" => IF pc = "idle" THEN readyS ELSE sendS
  /\ pc # "idle" /\ st # "seen" => ~readyS

(* Bytes the Data Transfer block has put in for the frame to be sent. *)
Put == IF st = "pre" THEN pre
       ELSE IF st \in {"ar", "rd"} THEN PreLen + cnt
       ELSE IF st = "seen" THEN nbytes ELSE 0

(* The level of the FIFO: all of the frame to be sent while the            *)
(* transmitter is idle, the rest of the frame on the line while it is not. *)
LevelInv ==
  /\ rp <= Len(hist)
  /\ pc = "idle" => addr = 0 /\ Len(hist) = rp + Put
  /\ st = "seen" \/ pc # "idle" => nbytes > PreLen
  /\ pc = "pre" => addr < PreLen
  /\ pc = "data" => PreLen <= addr /\ addr < nbytes
  /\ pc \in {"pre", "data"} => Len(hist) = rp + (nbytes - addr - 1)
  /\ pc = "fcs" => rp = Len(hist)

(* The clock: the handshake is over before the frame is, so that send is   *)
(* low when the transmitter is back at idle.                               *)
ClockInv ==
  /\ sendS /\ pc # "idle" => addr <= Lag
  /\ st = "seen" \/ pc # "idle" => Lag < nbytes
  /\ pc = "fcs" => addr = nbytes

Inv == TypeOK /\ RingInv /\ FetchInv /\ HandInv /\ LevelInv /\ ClockInv

(* What the proofs use of ConstAssumption. *)
LEMMA ConstFacts ==
  /\ FrameLens \subseteq Nat \ {0} /\ PreLen \in Nat \ {0} /\ LenMod \in Nat \ {0}
  /\ MaxBurst \in Nat \ {0} /\ MaxBds \in Nat \ {0} /\ RingSizes \subseteq 1..MaxBds
  /\ ResetSize \in 1..MaxBds
  /\ \A n \in FrameLens : PreLen + n < LenMod /\ (PreLen + n) % LenMod = PreLen + n
<1>1. /\ FrameLens \subseteq Nat \ {0} /\ PreLen \in Nat \ {0} /\ LenMod \in Nat \ {0}
      /\ MaxBurst \in Nat \ {0} /\ MaxBds \in Nat \ {0} /\ RingSizes \subseteq 1..MaxBds
      /\ ResetSize \in 1..MaxBds
  BY ConstAssumption
<1>2. ASSUME NEW n \in FrameLens
      PROVE  PreLen + n < LenMod /\ (PreLen + n) % LenMod = PreLen + n
  <2>1. PreLen + n \in Nat /\ PreLen + n < LenMod
    BY <1>1, ConstAssumption
  <2> QED BY <1>1, <2>1
<1> QED BY <1>1, <1>2

(* The slot of a frame is a descriptor of the ring. *)
LEMMA RingSlot ==
  ASSUME NEW n \in 1..MaxBds, NEW i \in Nat
  PROVE  i % n \in Bd /\ i % n < n
<1>1. MaxBds \in Nat
  BY ConstFacts
<1>2. n \in Nat \ {0}
  BY <1>1
<1>3. i % n \in 0..(n - 1)
  BY <1>2
<1> QED BY <1>1, <1>2, <1>3 DEF Bd

(* A station sees a frame's number, or 0. *)
LEMMA SeenNat ==
  ASSUME Inv
  PROVE  Seen(wire) \in Nat
<1>1. Len(sub) \in Nat
  BY LenProperties DEF Inv, TypeOK
<1>2. 1..Len(sub) \subseteq Nat
  BY <1>1
<1> DEFINE P(f) == wire = FrameBytes(f)
<1>3. CASE \E f \in 1..Len(sub) : P(f)
  <2>1. (CHOOSE f \in 1..Len(sub) : P(f)) \in 1..Len(sub)
    BY <1>3
  <2> QED BY <1>2, <1>3, <2>1 DEF Seen
<1>4. CASE ~ \E f \in 1..Len(sub) : P(f)
  BY <1>4 DEF Seen
<1> QED BY <1>3, <1>4

(* What they use of LagAssumption. *)
LEMMA LagFacts == Lag \in Nat /\ \A n \in FrameLens : Lag < PreLen + n
BY LagAssumption

(* At the end of a frame the transmitter sees send low. *)
LEMMA SendOver ==
  ASSUME Inv, pc = "fcs"
  PROVE  ~sendS
<1>1. addr = nbytes /\ Lag < nbytes /\ nbytes \in Nat
  <2>1. nbytes \in 0..LenMod-1 /\ LenMod \in Nat
    BY ConstFacts DEF Inv, TypeOK
  <2> QED BY <2>1 DEF Inv, ClockInv
<1>2. sendS => addr <= Lag
  BY DEF Inv, ClockInv
<1> QED BY <1>1, <1>2, LagFacts

(* One lemma per action. *)
LEMMA TxReadBdStep ==
  ASSUME Inv, TxReadBd
  PROVE  Inv'
<1> USE DEF TxReadBd, dtVars, fifoVars, cdcVars, txVars, swVars
<1>1. TypeOK'
  BY ConstFacts DEF Inv, TypeOK
<1>2. RingInv' /\ FetchInv'
  BY ConstFacts DEF Inv, TypeOK, RingInv, FetchInv
<1>3. HandInv'
  BY ConstFacts DEF Inv, TypeOK, HandInv
<1>4. LevelInv'
  BY ConstFacts DEF Inv, TypeOK, HandInv, LevelInv, Put
<1>5. ClockInv'
  BY DEF Inv, ClockInv
<1> QED BY <1>1, <1>2, <1>3, <1>4, <1>5 DEF Inv

(* Buffer pointer. *)
LEMMA TxReadPtrStep ==
  ASSUME Inv, TxReadPtr
  PROVE  Inv'
<1> USE DEF TxReadPtr, dtVars, fifoVars, cdcVars, txVars, swVars
<1>1. TypeOK'
  BY ConstFacts DEF Inv, TypeOK
<1>2. RingInv' /\ FetchInv'
  BY ConstFacts DEF Inv, TypeOK, RingInv, FetchInv
<1>3. HandInv'
  BY ConstFacts DEF Inv, TypeOK, HandInv
<1>4. LevelInv'
  BY ConstFacts DEF Inv, TypeOK, HandInv, LevelInv, Put
<1>5. ClockInv'
  BY DEF Inv, ClockInv
<1> QED BY <1>1, <1>2, <1>3, <1>4, <1>5 DEF Inv

(* Preamble into the FIFO. *)
LEMMA TxPreambleStep ==
  ASSUME Inv, TxPreamble
  PROVE  Inv'
<1> USE DEF TxPreamble, dtVars, fifoVars, cdcVars, txVars, swVars
<1>a. Pre \in Byte /\ hist \in Seq(Byte) /\ Len(hist) \in Nat
  BY LenProperties DEF Inv, TypeOK, Byte, Pre
<1>b. /\ pre < PreLen => hist' \in Seq(Byte) /\ Len(hist') = Len(hist) + 1
      /\ ~(pre < PreLen) => hist' = hist
  BY <1>a, AppendProperties DEF Push
<1>c. pre \in 0..PreLen /\ PreLen \in Nat
  BY ConstFacts DEF Inv, TypeOK
<1>1. TypeOK'
  <2>1. hist' \in Seq(Byte)
    BY <1>a, <1>b
  <2>2. pre' \in 0..PreLen /\ st' \in {"pre", "ar"}
    BY <1>c
  <2> QED BY <2>1, <2>2 DEF Inv, TypeOK
<1>2. RingInv' /\ FetchInv'
  BY <1>c, ConstFacts DEF Inv, TypeOK, RingInv, FetchInv, Desc
<1>3. HandInv'
  BY <1>c DEF Inv, TypeOK, HandInv
<1>4. LevelInv'
  BY <1>a, <1>b, <1>c DEF Inv, TypeOK, FetchInv, HandInv, LevelInv, Put
<1>5. ClockInv'
  BY DEF Inv, ClockInv
<1> QED BY <1>1, <1>2, <1>3, <1>4, <1>5 DEF Inv

(* Next burst. *)
LEMMA TxIssueBurstStep ==
  ASSUME Inv, TxIssueBurst
  PROVE  Inv'
<1> USE DEF TxIssueBurst, dtVars, fifoVars, cdcVars, txVars, swVars
<1>a. /\ cnt \in Nat /\ desc.len \in Nat /\ MaxBurst \in Nat \ {0}
      /\ cnt < desc.len
  BY ConstFacts DEF Inv, TypeOK, Desc, FetchInv
<1>b. beats' \in Nat /\ beats' > 0 /\ cnt + beats' <= desc.len
  BY <1>a
<1>1. TypeOK'
  BY <1>b DEF Inv, TypeOK
<1>2. RingInv' /\ FetchInv'
  <2>1. FetchInv'
    BY <1>a, <1>b DEF FetchInv
  <2>2. RingInv'
    BY DEF Inv, RingInv
  <2> QED BY <2>1, <2>2
<1>3. HandInv'
  BY ConstFacts DEF Inv, TypeOK, HandInv
<1>4. LevelInv'
  BY ConstFacts DEF Inv, TypeOK, HandInv, LevelInv, Put
<1>5. ClockInv'
  BY DEF Inv, ClockInv
<1> QED BY <1>1, <1>2, <1>3, <1>4, <1>5 DEF Inv

(* Call of the transmitter. *)
LEMMA TxSendStep ==
  ASSUME Inv, TxSend
  PROVE  Inv'
<1> USE DEF TxSend, dtVars, fifoVars, cdcVars, txVars, swVars
<1>a. desc \in Desc /\ desc.len \in FrameLens /\ desc.len \in Nat \ {0}
  BY ConstFacts DEF Inv, TypeOK, RingInv
<1>b. nbytes' = PreLen + desc.len /\ PreLen + desc.len < LenMod /\ PreLen \in Nat \ {0}
  BY <1>a, ConstFacts
<1>c. desc' \in Desc /\ desc'.len = desc.len /\ desc'.wrap = desc.wrap
  BY <1>a DEF Desc
<1>d. /\ pc = "idle" /\ addr = 0 /\ rp <= Len(hist)
      /\ Len(hist) = rp + (PreLen + desc.len)
  BY DEF Inv, HandInv, LevelInv, Put
<1>e. nbytes' > PreLen
  BY <1>a, <1>b
<1>1. TypeOK'
  <2>1. nbytes' \in 0..LenMod-1
    BY <1>a, <1>b, ConstFacts
  <2> QED BY <2>1, <1>c, SMTT(40) DEF Inv, TypeOK
<1>2. RingInv' /\ FetchInv'
  BY <1>c DEF Inv, TypeOK, RingInv, FetchInv
<1>3. HandInv'
  BY ConstFacts DEF Inv, TypeOK, HandInv
<1>4. LevelInv'
  BY <1>b, <1>d, <1>e DEF LevelInv, Put
<1>5. ClockInv'
  BY <1>a, <1>b, <1>d, LagFacts DEF Inv, ClockInv
<1> QED BY <1>1, <1>2, <1>3, <1>4, <1>5 DEF Inv

(* One byte into the FIFO. *)
LEMMA TxReadWordStep ==
  ASSUME Inv, TxReadWord
  PROVE  Inv'
<1> USE DEF TxReadWord, dtVars, fifoVars, cdcVars, txVars, swVars
<1>a. /\ cnt \in Nat /\ beats \in Nat /\ desc.len \in Nat
      /\ beats > 0 /\ cnt + beats <= desc.len
  BY DEF Inv, TypeOK, Desc, FetchInv
<1>b. <<mem[buf], cnt + 1>> \in Byte
  BY <1>a, SMTT(40) DEF Inv, TypeOK, Byte
<1>c. hist' \in Seq(Byte) /\ Len(hist) \in Nat /\ Len(hist') = Len(hist) + 1
  BY <1>b, AppendProperties, LenProperties DEF Inv, TypeOK, Push
<1>1. TypeOK'
  BY <1>a, <1>c DEF Inv, TypeOK
<1>2. RingInv' /\ FetchInv'
  <2>1. FetchInv'
    BY <1>a DEF FetchInv
  <2>2. RingInv'
    BY DEF Inv, RingInv
  <2> QED BY <2>1, <2>2
<1>3. HandInv'
  BY ConstFacts DEF Inv, TypeOK, HandInv
<1>4. LevelInv'
  <2>1. rp \in Nat /\ PreLen \in Nat /\ st' \in {"ar", "rd"} /\ pc = "idle"
    BY ConstFacts DEF Inv, TypeOK, HandInv
  <2>2. Len(hist) = rp + (PreLen + cnt) /\ addr = 0
    BY <2>1 DEF Inv, LevelInv, Put
  <2>3. Len(hist') = rp' + Put' /\ rp' <= Len(hist')
    BY <1>a, <1>c, <2>1, <2>2 DEF Put
  <2>4. st' # "seen" /\ pc' = "idle" /\ addr' = 0
    BY <2>1, <2>2
  <2> QED BY <2>3, <2>4 DEF LevelInv
<1>5. ClockInv'
  BY DEF Inv, ClockInv
<1> QED BY <1>1, <1>2, <1>3, <1>4, <1>5 DEF Inv

(* Fall of send. *)
LEMMA TxSeenStep ==
  ASSUME Inv, TxSeen
  PROVE  Inv'
<1> USE DEF TxSeen, dtVars, fifoVars, cdcVars, txVars, swVars
<1>1. TypeOK'
  BY ConstFacts DEF Inv, TypeOK
<1>2. RingInv' /\ FetchInv'
  BY ConstFacts DEF Inv, TypeOK, RingInv, FetchInv
<1>3. HandInv'
  BY ConstFacts DEF Inv, TypeOK, HandInv
<1>4. LevelInv'
  BY ConstFacts DEF Inv, TypeOK, HandInv, LevelInv, Put
<1>5. ClockInv'
  BY DEF Inv, ClockInv
<1> QED BY <1>1, <1>2, <1>3, <1>4, <1>5 DEF Inv

(* Status write. *)
LEMMA TxWriteStatusStep ==
  ASSUME Inv, TxWriteStatus
  PROVE  Inv'
<1> USE DEF TxWriteStatus, dtVars, fifoVars, cdcVars, txVars, swVars
<1>a. bdn \in Bd /\ desc \in Desc /\ MaxBds \in Nat \ {0} /\ num \in 1..MaxBds
  BY ConstFacts DEF Inv, TypeOK
<1>b. desc.len \in FrameLens /\ (bdn = MaxBds - 1 => desc.wrap)
  BY DEF Inv, RingInv
<1>1. TypeOK'
  <2>1. bdn' \in Bd
    BY <1>a, <1>b DEF NextTxBd, Bd
  <2>2. bds' \in [Bd -> Desc]
    BY <1>a DEF Inv, TypeOK
  <2> QED BY <2>1, <2>2 DEF Inv, TypeOK
<1>2. RingInv' /\ FetchInv'
  BY ConstFacts DEF Inv, TypeOK, RingInv, FetchInv
<1>3. HandInv'
  BY ConstFacts DEF Inv, TypeOK, HandInv
<1>4. LevelInv'
  BY ConstFacts DEF Inv, TypeOK, HandInv, LevelInv, Put
<1>5. ClockInv'
  BY DEF Inv, ClockInv
<1> QED BY <1>1, <1>2, <1>3, <1>4, <1>5 DEF Inv

(* Resync. *)
LEMMA TxResyncStep ==
  ASSUME Inv, TxResync
  PROVE  Inv'
<1> USE DEF TxResync, dtVars, fifoVars, cdcVars, txVars, swVars
<1>1. TypeOK'
  <2>1. 0 \in Bd
    BY ConstFacts DEF Bd
  <2> QED BY <2>1 DEF Inv, TypeOK
<1>2. RingInv' /\ FetchInv'
  BY ConstFacts DEF Inv, TypeOK, RingInv, FetchInv
<1>3. HandInv'
  BY DEF Inv, TypeOK, HandInv, Resyncing
<1>4. LevelInv'
  BY DEF Inv, TypeOK, LevelInv, Put, Resyncing
<1>5. ClockInv'
  BY DEF Inv, ClockInv
<1> QED BY <1>1, <1>2, <1>3, <1>4, <1>5 DEF Inv

(* Send crosses over. *)
LEMMA SyncSendStep ==
  ASSUME Inv, SyncSend
  PROVE  Inv'
<1> USE DEF SyncSend, dtVars, fifoVars, cdcVars, txVars, swVars
<1>1. TypeOK'
  BY ConstFacts DEF Inv, TypeOK
<1>2. RingInv' /\ FetchInv'
  BY ConstFacts DEF Inv, TypeOK, RingInv, FetchInv
<1>3. HandInv'
  BY ConstFacts DEF Inv, TypeOK, HandInv
<1>4. LevelInv'
  BY ConstFacts DEF Inv, TypeOK, HandInv, LevelInv, Put
<1>5. ClockInv'
  BY DEF Inv, HandInv, ClockInv
<1> QED BY <1>1, <1>2, <1>3, <1>4, <1>5 DEF Inv

(* Ready crosses over. *)
LEMMA SyncReadyStep ==
  ASSUME Inv, SyncReady
  PROVE  Inv'
<1> USE DEF SyncReady, dtVars, fifoVars, cdcVars, txVars, swVars
<1>1. TypeOK'
  BY ConstFacts DEF Inv, TypeOK
<1>2. RingInv' /\ FetchInv'
  BY ConstFacts DEF Inv, TypeOK, RingInv, FetchInv
<1>3. HandInv'
  BY ConstFacts DEF Inv, TypeOK, HandInv
<1>4. LevelInv'
  BY ConstFacts DEF Inv, TypeOK, HandInv, LevelInv, Put
<1>5. ClockInv'
  BY DEF Inv, ClockInv
<1> QED BY <1>1, <1>2, <1>3, <1>4, <1>5 DEF Inv

(* The read position crosses over. *)
LEMMA SyncReadStep ==
  ASSUME Inv, SyncRead
  PROVE  Inv'
<1> USE DEF SyncRead, dtVars, fifoVars, cdcVars, txVars, swVars
<1>1. TypeOK'
  BY ConstFacts DEF Inv, TypeOK
<1>2. RingInv' /\ FetchInv'
  BY ConstFacts DEF Inv, TypeOK, RingInv, FetchInv
<1>3. HandInv'
  BY ConstFacts DEF Inv, TypeOK, HandInv
<1>4. LevelInv'
  BY ConstFacts DEF Inv, TypeOK, HandInv, LevelInv, Put
<1>5. ClockInv'
  BY DEF Inv, ClockInv
<1> QED BY <1>1, <1>2, <1>3, <1>4, <1>5 DEF Inv

(* The transmitter leaves idle. *)
LEMMA XmStartStep ==
  ASSUME Inv, XmStart
  PROVE  Inv'
<1> USE DEF XmStart, dtVars, fifoVars, cdcVars, txVars, swVars
<1>a. rp \in Nat /\ hist \in Seq(Byte) /\ Len(hist) \in Nat
  BY LenProperties DEF Inv, TypeOK
<1>b. st = "seen" /\ addr = 0 /\ Len(hist) = rp + nbytes /\ nbytes \in Nat /\ nbytes > PreLen
  BY <1>a, ConstFacts DEF Inv, TypeOK, HandInv, LevelInv, Put
<1>c. rp + 1 \in 1..Len(hist) /\ rp' = rp + 1 /\ data' = hist[rp + 1]
  BY <1>a, <1>b, ConstFacts DEF Pop
<1>d. data' \in Byte
  BY <1>a, <1>c, ElementOfSeq
<1>1. TypeOK'
  <2>1. rp' \in Nat
    BY <1>a, <1>c
  <2> QED BY <1>d, <2>1 DEF Inv, TypeOK
<1>2. RingInv' /\ FetchInv'
  BY ConstFacts DEF Inv, TypeOK, RingInv, FetchInv
<1>3. HandInv'
  BY <1>b DEF Inv, TypeOK, HandInv
<1>4. LevelInv'
  BY <1>a, <1>b, <1>c, ConstFacts DEF Inv, TypeOK, LevelInv, Put
<1>5. ClockInv'
  BY <1>b, LagFacts DEF Inv, ClockInv
<1> QED BY <1>1, <1>2, <1>3, <1>4, <1>5 DEF Inv

(* A preamble byte on the line. *)
LEMMA XmPreambleStep ==
  ASSUME Inv, XmPreamble
  PROVE  Inv'
<1> USE DEF XmPreamble, dtVars, fifoVars, cdcVars, txVars, swVars
<1>a. rp \in Nat /\ hist \in Seq(Byte) /\ Len(hist) \in Nat
  BY LenProperties DEF Inv, TypeOK
<1>b. /\ addr \in Nat /\ addr < PreLen /\ nbytes \in Nat /\ nbytes > PreLen
      /\ Len(hist) = rp + (nbytes - addr - 1) /\ PreLen \in Nat \ {0}
  BY <1>a, ConstFacts DEF Inv, TypeOK, LevelInv
<1>c. rp + 1 \in 1..Len(hist) /\ rp' = rp + 1 /\ data' = hist[rp + 1]
  BY <1>a, <1>b DEF Pop
<1>d. data' \in Byte /\ wire' \in Seq(Byte)
  BY <1>a, <1>c, ElementOfSeq, AppendProperties DEF Inv, TypeOK
<1>1. TypeOK'
  BY <1>a, <1>b, <1>c, <1>d DEF Inv, TypeOK
<1>2. RingInv' /\ FetchInv'
  BY ConstFacts DEF Inv, TypeOK, RingInv, FetchInv
<1>3. HandInv'
  BY ConstFacts DEF Inv, TypeOK, HandInv
<1>4. LevelInv'
  BY <1>a, <1>b, <1>c DEF Inv, TypeOK, LevelInv, Put
<1>5. ClockInv'
  BY <1>b, LagFacts DEF Inv, ClockInv, InTime
<1> QED BY <1>1, <1>2, <1>3, <1>4, <1>5 DEF Inv

(* A payload byte on the line. *)
LEMMA XmDataStep ==
  ASSUME Inv, XmData
  PROVE  Inv'
<1> USE DEF XmData, dtVars, fifoVars, cdcVars, txVars, swVars
<1>a. rp \in Nat /\ hist \in Seq(Byte) /\ Len(hist) \in Nat
  BY LenProperties DEF Inv, TypeOK
<1>b. /\ addr \in Nat /\ PreLen <= addr /\ addr < nbytes /\ nbytes \in Nat
      /\ Len(hist) = rp + (nbytes - addr - 1) /\ PreLen \in Nat \ {0}
  BY <1>a, ConstFacts DEF Inv, TypeOK, LevelInv
<1>c. wire' \in Seq(Byte)
  BY AppendProperties DEF Inv, TypeOK
<1>d. CASE addr + 1 < nbytes
  <2>1. rp + 1 \in 1..Len(hist) /\ rp' = rp + 1 /\ data' = hist[rp + 1] /\ pc' = "data"
    BY <1>a, <1>b, <1>d DEF Pop
  <2>2. data' \in Byte
    BY <1>a, <2>1, ElementOfSeq
  <2>3. TypeOK'
    BY <1>a, <1>b, <1>c, <2>1, <2>2 DEF Inv, TypeOK
  <2>4. RingInv' /\ FetchInv' /\ HandInv'
    BY <2>1 DEF Inv, TypeOK, RingInv, FetchInv, HandInv
  <2>5. LevelInv'
    BY <1>a, <1>b, <1>d, <2>1 DEF Inv, TypeOK, LevelInv, Put
  <2>6. ClockInv'
    BY <1>b, <2>1, LagFacts DEF Inv, ClockInv, InTime
  <2> QED BY <2>3, <2>4, <2>5, <2>6 DEF Inv
<1>e. CASE ~(addr + 1 < nbytes)
  <2>1. rp' = rp /\ data' = data /\ pc' = "fcs" /\ rp = Len(hist)
    BY <1>a, <1>b, <1>e
  <2>2. TypeOK'
    BY <1>b, <1>c, <2>1 DEF Inv, TypeOK
  <2>3. RingInv' /\ FetchInv' /\ HandInv'
    BY <2>1 DEF Inv, TypeOK, RingInv, FetchInv, HandInv
  <2>4. LevelInv'
    BY <1>a, <1>b, <2>1 DEF Inv, TypeOK, LevelInv, Put
  <2>5. ClockInv'
    BY <1>b, <1>e, <2>1, LagFacts DEF Inv, ClockInv, InTime
  <2> QED BY <2>2, <2>3, <2>4, <2>5 DEF Inv
<1> QED BY <1>d, <1>e

(* End of the frame. *)
LEMMA XmEndStep ==
  ASSUME Inv, XmEnd
  PROVE  Inv'
<1> USE DEF XmEnd, dtVars, fifoVars, cdcVars, txVars, swVars
<1>a. out' \in Seq(Nat) /\ wire' \in Seq(Byte)
  BY SeenNat, AppendProperties, EmptySeq DEF Inv, TypeOK
<1>b. ~sendS /\ st # "seen"
  BY SendOver DEF Inv, HandInv
<1>1. TypeOK'
  BY <1>a DEF Inv, TypeOK
<1>2. RingInv' /\ FetchInv'
  BY ConstFacts DEF Inv, TypeOK, RingInv, FetchInv
<1>3. HandInv'
  BY <1>b DEF Inv, TypeOK, HandInv
<1>4. LevelInv'
  BY <1>b DEF Inv, TypeOK, HandInv, LevelInv, Put
<1>5. ClockInv'
  BY <1>b DEF Inv, ClockInv
<1> QED BY <1>1, <1>2, <1>3, <1>4, <1>5 DEF Inv

(* The driver fills a descriptor. *)
LEMMA SwFillStep ==
  ASSUME Inv, SwFill
  PROVE  Inv'
<1> DEFINE slot == cur % num
<1>1. cur \in Nat /\ num \in 1..MaxBds /\ MaxBds \in Nat \ {0} /\ bds \in [Bd -> Desc]
  BY ConstFacts DEF Inv, TypeOK
<1>2. slot \in Bd
  BY <1>1, RingSlot
<1>3. cur' = cur + 1 /\ num' = num /\ cur' - 1 = cur /\ cur' > 0 /\ cur' \in Nat
  BY <1>1 DEF SwFill, swVars
<1>4. (cur' - 1) % num' = slot
  BY <1>3
<1>5. /\ \E n \in FrameLens : sub' = Append(sub, n) /\ bds' = [bds EXCEPT ![slot].len = n]
      /\ mem' = [mem EXCEPT ![slot] = Len(sub) + 1]
      /\ sw = "run" /\ sw' = "fill"
      /\ UNCHANGED <<dtVars, resync, fifoVars, cdcVars, txVars, num, txen, dty, swi, inits>>
  BY DEF SwFill
<1> HIDE DEF slot
<1>6. PICK n \in FrameLens : sub' = Append(sub, n) /\ bds' = [bds EXCEPT ![slot].len = n]
  BY <1>5
<1>7. /\ bds' \in [Bd -> Desc]
      /\ bds'[slot].len = n
      /\ \A b \in Bd : /\ bds'[b].rd = bds[b].rd /\ bds'[b].wrap = bds[b].wrap
                       /\ bds'[b].len = IF b = slot THEN n ELSE bds[b].len
  <2>1. n \in Nat
    BY ConstAssumption
  <2>2. bds[slot] \in Desc
    BY <1>1, <1>2
  <2>3. /\ bds'[slot] = [bds[slot] EXCEPT !.len = n]
        /\ \A b \in Bd : b # slot => bds'[b] = bds[b]
    BY <1>1, <1>2, <1>6
  <2>4. /\ bds'[slot] \in Desc /\ bds'[slot].len = n
        /\ bds'[slot].rd = bds[slot].rd /\ bds'[slot].wrap = bds[slot].wrap
    BY <2>1, <2>2, <2>3 DEF Desc
  <2>5. bds' = [b \in Bd |-> bds'[b]]
    BY <1>1, <1>6
  <2>6. \A b \in Bd : bds'[b] \in Desc
    BY <1>1, <2>3, <2>4
  <2>7. bds' \in [Bd -> Desc]
    BY <2>5, <2>6
  <2>8. QED
    BY <2>3, <2>4, <2>7
<1>8. TypeOK'
  <2>1. sub' \in Seq(FrameLens)
    BY <1>6, AppendProperties DEF Inv, TypeOK
  <2>2. Len(sub) + 1 \in Nat /\ mem \in [Bd -> Nat]
    BY LenProperties DEF Inv, TypeOK
  <2>3. mem' \in [Bd -> Nat]
    BY <1>2, <1>5, <2>2
  <2> QED BY <1>3, <1>5, <1>7, <2>1, <2>3, SMTT(40)
          DEF Inv, TypeOK, dtVars, fifoVars, cdcVars, txVars
<1>9. RingInv'
  <2>1. MaxBds - 1 \in Bd
    BY <1>1 DEF Bd
  <2>2. bds'[MaxBds - 1].wrap = bds[MaxBds - 1].wrap
    BY <1>7, <2>1
  <2>3. \A b \in Bd : bds'[b].rd => bds'[b].len \in FrameLens /\ (b = MaxBds - 1 => bds'[b].wrap)
    BY <1>7 DEF Inv, RingInv
  <2>4. bds'[(cur' - 1) % num'].len \in FrameLens
    BY <1>4, <1>7
  <2> QED BY <1>3, <1>5, <2>2, <2>3, <2>4 DEF Inv, RingInv, dtVars
<1>10. FetchInv' /\ HandInv' /\ LevelInv' /\ ClockInv'
  BY <1>5 DEF Inv, FetchInv, HandInv, LevelInv, ClockInv, Put, dtVars, fifoVars, cdcVars, txVars
<1> QED BY <1>8, <1>9, <1>10 DEF Inv

(* The driver sets READY. *)
LEMMA SwReadyStep ==
  ASSUME Inv, SwReady
  PROVE  Inv'
<1> DEFINE slot == (cur - 1) % num
<1>1. cur \in Nat /\ num \in 1..MaxBds /\ MaxBds \in Nat \ {0} /\ bds \in [Bd -> Desc]
  BY ConstFacts DEF Inv, TypeOK
<1>2. /\ bds' = [bds EXCEPT ![slot].rd = TRUE]
      /\ sw = "fill" /\ sw' = "run"
      /\ UNCHANGED <<dtVars, resync, fifoVars, cdcVars, txVars, mem, num, txen, sub,
                     cur, dty, swi, inits>>
  BY DEF SwReady
<1>3. cur > 0 /\ bds[slot].len \in FrameLens
  BY <1>2 DEF Inv, RingInv
<1>4. cur - 1 \in Nat
  BY <1>1, <1>3
<1>5. slot \in Bd /\ slot < num
  BY <1>1, <1>4, RingSlot
<1> HIDE DEF slot
<1>6. slot = MaxBds - 1 => num = MaxBds
  BY <1>1, <1>5 DEF Bd
<1>7. /\ bds' \in [Bd -> Desc]
      /\ \A b \in Bd : /\ bds'[b].len = bds[b].len /\ bds'[b].wrap = bds[b].wrap
                       /\ b # slot => bds'[b] = bds[b]
  <2>1. bds[slot] \in Desc
    BY <1>1, <1>5
  <2>2. /\ bds'[slot] = [bds[slot] EXCEPT !.rd = TRUE]
        /\ \A b \in Bd : b # slot => bds'[b] = bds[b]
    BY <1>1, <1>2, <1>5
  <2>3. /\ bds'[slot] \in Desc /\ bds'[slot].len = bds[slot].len
        /\ bds'[slot].wrap = bds[slot].wrap
    BY <2>1, <2>2 DEF Desc
  <2>4. bds' \in [Bd -> Desc]
    <3>1. bds' = [b \in Bd |-> bds'[b]]
      BY <1>1, <1>2
    <3>2. \A b \in Bd : bds'[b] \in Desc
      BY <1>1, <2>2, <2>3
    <3>3. QED
      BY <3>1, <3>2
  <2>5. QED
    BY <2>2, <2>3, <2>4
<1>8. TypeOK'
  <2>1. TypeOK /\ bds' \in [Bd -> Desc]
    BY <1>7 DEF Inv
  <2>2. /\ sw' = "run"
        /\ UNCHANGED <<dtVars, resync, fifoVars, cdcVars, txVars, mem, num, txen, sub,
                       cur, dty, swi, inits>>
    BY <1>2
  <2>3. QED
    BY <2>1, <2>2 DEF TypeOK, dtVars, fifoVars, cdcVars, txVars
<1>9. RingInv'
  <2>1. MaxBds - 1 \in Bd
    BY <1>1 DEF Bd
  <2>2. bds'[MaxBds - 1].wrap = bds[MaxBds - 1].wrap
    BY <1>7, <2>1
  <2>3. slot = MaxBds - 1 => bds[slot].wrap
    BY <1>2, <1>6 DEF Inv, RingInv
  <2>4. \A b \in Bd : bds'[b].rd => bds'[b].len \in FrameLens /\ (b = MaxBds - 1 => bds'[b].wrap)
    BY <1>3, <1>7, <2>3 DEF Inv, RingInv
  <2> QED BY <1>2, <2>2, <2>4 DEF Inv, RingInv, dtVars
<1>10. FetchInv' /\ HandInv' /\ LevelInv' /\ ClockInv'
  BY <1>2 DEF Inv, FetchInv, HandInv, LevelInv, ClockInv, Put, dtVars, fifoVars, cdcVars, txVars
<1> QED BY <1>8, <1>9, <1>10 DEF Inv

(* The driver reclaims a descriptor. *)
LEMMA SwReclaimStep ==
  ASSUME Inv, SwReclaim
  PROVE  Inv'
<1> USE DEF SwReclaim, dtVars, fifoVars, cdcVars, txVars, swVars
<1>1. TypeOK'
  BY ConstFacts DEF Inv, TypeOK
<1>2. RingInv' /\ FetchInv'
  BY ConstFacts DEF Inv, TypeOK, RingInv, FetchInv
<1>3. HandInv'
  BY ConstFacts DEF Inv, TypeOK, HandInv
<1>4. LevelInv'
  BY ConstFacts DEF Inv, TypeOK, HandInv, LevelInv, Put
<1>5. ClockInv'
  BY DEF Inv, ClockInv
<1> QED BY <1>1, <1>2, <1>3, <1>4, <1>5 DEF Inv

(* The driver stops the core. *)
LEMMA SwStopStep ==
  ASSUME Inv, SwStop
  PROVE  Inv'
<1> USE DEF SwStop, dtVars, fifoVars, cdcVars, txVars, swVars
<1>1. TypeOK'
  BY ConstFacts, ZenonT(60) DEF Inv, TypeOK
<1>2. RingInv' /\ FetchInv'
  BY ConstFacts DEF Inv, TypeOK, RingInv, FetchInv
<1>3. HandInv'
  BY ConstFacts DEF Inv, TypeOK, HandInv
<1>4. LevelInv'
  BY ConstFacts DEF Inv, TypeOK, HandInv, LevelInv, Put
<1>5. ClockInv'
  BY DEF Inv, ClockInv
<1> QED BY <1>1, <1>2, <1>3, <1>4, <1>5 DEF Inv

(* The driver writes TX_BD_NUM. *)
LEMMA SwSetBdNumStep ==
  ASSUME Inv, SwSetBdNum
  PROVE  Inv'
<1> USE DEF SwSetBdNum, dtVars, fifoVars, cdcVars, txVars, swVars
<1>1. TypeOK'
  BY ConstFacts DEF Inv, TypeOK
<1>2. RingInv' /\ FetchInv'
  BY ConstFacts DEF Inv, TypeOK, RingInv, FetchInv
<1>3. HandInv'
  BY ConstFacts DEF Inv, TypeOK, HandInv
<1>4. LevelInv'
  BY ConstFacts DEF Inv, TypeOK, HandInv, LevelInv, Put
<1>5. ClockInv'
  BY DEF Inv, ClockInv
<1> QED BY <1>1, <1>2, <1>3, <1>4, <1>5 DEF Inv

(* The driver initialises a descriptor. *)
LEMMA SwInitBdStep ==
  ASSUME Inv, SwInitBd
  PROVE  Inv'
<1> USE DEF SwInitBd, dtVars, fifoVars, cdcVars, txVars, swVars
<1> DEFINE d == [rd |-> FALSE, len |-> 0, wrap |-> swi = num - 1]
<1>a. swi \in Bd /\ swi < num /\ num \in 1..MaxBds /\ MaxBds \in Nat \ {0} /\ swi \in Nat
  BY ConstFacts DEF Inv, TypeOK, RingInv, Bd
<1>b. d \in Desc /\ ~d.rd /\ d.wrap = (swi = num - 1)
  BY DEF Desc
<1>c. bds' = [bds EXCEPT ![swi] = d] /\ bds \in [Bd -> Desc]
  BY DEF Inv, TypeOK
<1> HIDE DEF d
<1>d. bds' \in [Bd -> Desc] /\ \A b \in Bd : bds'[b] = IF b = swi THEN d ELSE bds[b]
  BY <1>a, <1>b, <1>c
<1>1. TypeOK'
  <2>1. swi' \in Nat
    BY <1>a
  <2>2. sw' \in {"init", "run"} /\ txen' \in BOOLEAN
    <3>1. txen \in BOOLEAN
      BY DEF Inv, TypeOK
    <3>2. CASE swi = num - 1
      BY <3>2
    <3>3. CASE swi # num - 1
      BY <3>1, <3>3
    <3> QED BY <3>2, <3>3
  <2>3. UNCHANGED <<dtVars, resync, fifoVars, cdcVars, txVars, mem, num, sub, cur, dty, inits>>
    OBVIOUS
  <2> HIDE DEF SwInitBd
  <2> QED BY <1>d, <2>1, <2>2, <2>3 DEF Inv, TypeOK
<1>2. RingInv' /\ FetchInv'
  <2>1. MaxBds - 1 \in Bd
    BY <1>a DEF Bd
  <2>2. \A b \in Bd : bds'[b].rd => bds'[b].len \in FrameLens /\ (b = MaxBds - 1 => bds'[b].wrap)
    BY <1>b, <1>d DEF Inv, RingInv
  <2>3. sw' = "run" /\ num = MaxBds => bds'[MaxBds - 1].wrap
    BY <1>a, <1>b, <1>d, <2>1
  <2>4. sw' = "init" => swi' < num'
    BY <1>a
  <2>5. sw' # "fill"
    OBVIOUS
  <2>6. FetchInv'
    BY DEF Inv, FetchInv
  <2> QED BY <2>2, <2>3, <2>4, <2>5, <2>6 DEF Inv, RingInv
<1>3. HandInv'
  BY ConstFacts DEF Inv, TypeOK, HandInv
<1>4. LevelInv'
  BY ConstFacts DEF Inv, TypeOK, HandInv, LevelInv, Put
<1>5. ClockInv'
  BY DEF Inv, ClockInv
<1> QED BY <1>1, <1>2, <1>3, <1>4, <1>5 DEF Inv

(* No action: the invariant's variables stay. *)
LEMMA StutterStep ==
  ASSUME Inv, UNCHANGED vars
  PROVE  Inv'
<1> USE DEF vars, dtVars, fifoVars, cdcVars, txVars, swVars
<1>1. TypeOK'
  BY DEF Inv, TypeOK
<1>2. RingInv' /\ FetchInv'
  BY DEF Inv, RingInv, FetchInv
<1>3. HandInv' /\ LevelInv' /\ ClockInv'
  BY DEF Inv, HandInv, LevelInv, ClockInv, Put
<1> QED BY <1>1, <1>2, <1>3 DEF Inv

(* Out of reset. *)
LEMMA InitInv ==
  ASSUME Init
  PROVE  Inv
<1> USE DEF Init
<1>1. 0 \in Bd /\ EmptyDesc \in Desc /\ ~EmptyDesc.rd /\ Pre \in Byte
  BY ConstFacts DEF Bd, EmptyDesc, Desc, Pre, Byte
<1>2. bds \in [Bd -> Desc] /\ mem \in [Bd -> Nat] /\ \A b \in Bd : ~bds[b].rd
  BY <1>1
<1>3. TypeOK
  <2>1. hist \in Seq(Byte) /\ wire \in Seq(Byte) /\ out \in Seq(Nat) /\ sub \in Seq(FrameLens)
    BY EmptySeq
  <2>2. pre \in 0..PreLen /\ nbytes \in 0..LenMod-1 /\ num \in 1..MaxBds
    BY ConstFacts
  <2> QED BY <1>1, <1>2, <2>1, <2>2 DEF TypeOK
<1>4. RingInv /\ FetchInv
  BY <1>2 DEF RingInv, FetchInv
<1>5. HandInv
  BY DEF HandInv
<1>6. LevelInv
  <2>1. Len(hist) = 0 /\ Put = 0
    BY EmptySeq DEF Put
  <2> QED BY <2>1 DEF LevelInv
<1>7. ClockInv
  BY DEF ClockInv
<1> QED BY <1>3, <1>4, <1>5, <1>6, <1>7 DEF Inv

(* Handshake, ring and level of the FIFO agree in every state (the header  *)
(* says why): the inductive invariant of the transmit path.                *)
THEOREM Invariance == Spec => []Inv
<1>1. Init => Inv
  BY InitInv
<1>2. Inv /\ [Next]_vars => Inv'
  <2>1. SUFFICES ASSUME Inv, [Next]_vars
                 PROVE  Inv'
    OBVIOUS
  <2> QED
    BY <2>1, TxReadBdStep, TxReadPtrStep, TxPreambleStep,
       TxIssueBurstStep, TxSendStep, TxReadWordStep, TxSeenStep,
       TxWriteStatusStep, TxResyncStep, SyncSendStep, SyncReadyStep,
       SyncReadStep, XmStartStep, XmPreambleStep, XmDataStep,
       XmEndStep, SwFillStep, SwReadyStep, SwReclaimStep, SwStopStep,
       SwSetBdNumStep, SwInitBdStep, StutterStep
    DEF Next, DataTransfer, Transmitter, Driver
<1> QED BY <1>1, <1>2, PTL DEF Spec

(* The registers, counters and memories of the transmit path stay within   *)
(* their widths: the pointer within the table, the byte count within       *)
(* LenMod, the ring size within the descriptors there are.                 *)
THEOREM TypeCorrect == Spec => []TypeOK
<1>1. Inv => TypeOK
  BY DEF Inv
<1> QED BY <1>1, Invariance, PTL

(* The transmitter strobes the data FIFO without a look at its empty flag  *)
(* and never finds it empty (iob_eth_tx.v:117), for every delay of the     *)
(* handshake that ends before the frame does (LagAssumption).              *)
THEOREM FifoNeverUnderruns == Spec => []NoUnderrun
<1>1. Inv => NoUnderrun
  <2> SUFFICES ASSUME Inv
               PROVE  NoUnderrun
    OBVIOUS
  <2>1. /\ rp \in Nat /\ Len(hist) \in Nat /\ nbytes \in Nat /\ addr \in Nat
        /\ PreLen \in Nat \ {0}
    BY ConstFacts, LenProperties DEF Inv, TypeOK
  <2>2. ASSUME pc = "idle", sendS
        PROVE  rp < Len(hist)
    <3>1. st = "seen"
      BY <2>2 DEF Inv, HandInv
    <3>2. Len(hist) = rp + nbytes /\ nbytes > PreLen
      BY <2>2, <3>1 DEF Inv, LevelInv, Put
    <3> QED BY <2>1, <3>2
  <2>3. ASSUME pc = "pre"
        PROVE  rp < Len(hist)
    BY <2>1, <2>3 DEF Inv, LevelInv
  <2>4. ASSUME pc = "data", addr + 1 < nbytes
        PROVE  rp < Len(hist)
    BY <2>1, <2>4 DEF Inv, LevelInv
  <2> QED BY <2>2, <2>3, <2>4 DEF NoUnderrun
<1> QED BY <1>1, Invariance, PTL

(* Frames do not run together in the FIFO: when the first preamble byte of *)
(* a frame is put in, the transmitter has taken every byte of the frame    *)
(* before it and no more.  Again the handshake ends before the frame does. *)
THEOREM FramesKeptApart == Spec => []FrameBoundary
<1>1. Inv => FrameBoundary
  <2> SUFFICES ASSUME Inv, st = "pre", readyS, pre = 0
               PROVE  rp = Len(hist)
    BY DEF FrameBoundary
  <2>1. pc = "idle"
    BY DEF Inv, HandInv
  <2>2. rp \in Nat /\ Len(hist) = rp + 0
    BY <2>1 DEF Inv, TypeOK, LevelInv, Put
  <2> QED BY <2>2
<1> QED BY <1>1, Invariance, PTL


-----------------------------------------------------------------------------
(***************************************************************************)
(* The order of frames.  The ring is initialised once: a status written    *)
(* across a re-initialisation may clear the READY bit of another frame.    *)
(* OrderInv says which frame each descriptor holds, from the driver's two  *)
(* positions in the ring and the Data Transfer block's one; TextInv says   *)
(* that the FIFO and the line hold the bytes of the frames whose turn it   *)
(* is.                                                                     *)
(***************************************************************************)

(* Frames are numbered as they are submitted; frame k + 1 goes through the *)
(* descriptor At(k).                                                       *)
At(k) == Slot(num)[k]

(* Byte j of frame f as it is on the line. *)
LineByte(f, j) == IF j <= PreLen THEN Pre ELSE <<f, j - PreLen>>

(* Frames the transmitter has begun, and frames whose status was written.  *)
Begun == Len(out) + (IF pc = "idle" THEN 0 ELSE 1)
Done ==
  IF st = "stat" \/ (st = "seen" /\ pc # "idle") THEN Begun - 1 ELSE Begun

Quiet == st = "bd" /\ pc = "idle" /\ out = <<>>

(* The ring is initialised once, before anything is sent. *)
OnceInv ==
  /\ sw = "stop" <=> inits = 0
  /\ inits <= 1
  /\ sw \in {"stop", "init"} =>
       /\ ~txen /\ Quiet
       /\ cur = 0 /\ dty = 0 /\ sub = <<>>
       /\ \A b \in Bd : ~bds[b].rd
  /\ resync => Quiet
  /\ sw = "init" => \A b \in Bd : b < swi => (bds[b].wrap <=> b = num - 1)
  /\ sw \in {"run", "fill"} =>
       \A b \in Bd : b < num => (bds[b].wrap <=> b = num - 1)

(* Driver and Data Transfer block go round the same ring, the driver       *)
(* reclaiming after the one and filling before the other.                  *)
TurnInv ==
  /\ Len(sub) = cur
  /\ Done \in Nat /\ dty <= Done /\ Done <= cur /\ cur <= dty + num
  /\ sw = "fill" => Done < cur
  /\ bdn = At(Done)

(* The descriptors between the two hold the frames of their numbers, and   *)
(* no other is READY.                                                      *)
SlotsInv ==
  /\ \A k \in Done..cur - 1 :
       /\ mem[At(k)] = k + 1
       /\ bds[At(k)].len = sub[k + 1]
       /\ bds[At(k)].rd <=> ~(sw = "fill" /\ k = cur - 1)
  /\ \A b \in Bd : bds[b].rd => \E k \in Done..cur - 1 : b = At(k)

(* The Data Transfer block works on the descriptor of its turn. *)
WorkInv ==
  /\ st # "bd" =>
       /\ Done < cur /\ bds[bdn].rd
       /\ desc.len = sub[Done + 1]
       /\ desc.wrap <=> bdn = num - 1
  /\ st \notin {"bd", "ptr"} => buf = bdn
  /\ st \in {"seen", "stat"} => ~desc.rd

OrderInv == OnceInv /\ TurnInv /\ SlotsInv /\ WorkInv

(* The FIFO and the line hold the bytes of these frames, in order. *)
FifoText ==
  /\ pc = "idle" => \A j \in 1..Put : hist[rp + j] = LineByte(Done + 1, j)
  /\ st = "seen" => nbytes = PreLen + sub[Done + 1]
  /\ st \in {"seen", "stat"} => hist[Len(hist)][1] = Done + 1

WireText ==
  /\ pc = "idle" => wire = <<>>
  /\ pc # "idle" =>
       /\ Len(out) + 1 <= Len(sub)
       /\ nbytes = PreLen + sub[Len(out) + 1]
       /\ Len(wire) = addr
       /\ \A j \in 1..addr : wire[j] = LineByte(Len(out) + 1, j)
  /\ pc \in {"pre", "data"} =>
       /\ data = LineByte(Len(out) + 1, addr + 1)
       /\ \A j \in 1..nbytes - addr - 1 :
            hist[rp + j] = LineByte(Len(out) + 1, addr + 1 + j)
  /\ pc = "fcs" => addr = nbytes

(* The frames seen on the line so far are all that were begun, in order.   *)
OutInv == \A i \in 1..Len(out) : out[i] = i

TextInv == FifoText /\ WireText /\ OutInv

-----------------------------------------------------------------------------
(* Slots of the ring, from RingArithmetic. *)
LEMMA AtFacts ==
  ASSUME TypeOK
  PROVE  /\ num \in Nat /\ num >= 1
         /\ \A k \in Nat : At(k) = k % num /\ At(k) \in Bd /\ At(k) < num
         /\ \A k, l \in Nat : k < l /\ l < k + num => At(k) # At(l)
         /\ \A k \in Nat :
              At(k + 1) = IF At(k) = num - 1 THEN 0 ELSE At(k) + 1
         /\ At(0) = 0
<1>1. num \in Nat \ {0} /\ MaxBds \in Nat /\ num <= MaxBds
  BY ConstFacts DEF TypeOK
<1>2. /\ \A a \in Nat : Slot(num)[a] = a % num /\ Slot(num)[a] \in 0..num-1
      /\ \A a, b \in Nat : a < b /\ b < a + num => Slot(num)[a] # Slot(num)[b]
      /\ \A a \in Nat : Slot(num)[a + 1] =
           IF Slot(num)[a] + 1 = num THEN 0 ELSE Slot(num)[a] + 1
      /\ Slot(num)[0] = 0
  BY <1>1, SlotFacts
<1>3. \A i \in 0..num-1 : i \in Bd /\ i < num /\ (i + 1 = num <=> i = num - 1)
  BY <1>1 DEF Bd
<1>4. \A k \in Nat : At(k) = k % num /\ At(k) \in Bd /\ At(k) < num
  BY <1>2, <1>3, Zenon DEF At
<1>5. \A k, l \in Nat : k < l /\ l < k + num => At(k) # At(l)
  BY <1>2, Zenon DEF At
<1>6. \A k \in Nat : At(k + 1) = IF At(k) = num - 1 THEN 0 ELSE At(k) + 1
  BY <1>2, <1>3, Zenon DEF At
<1>7. At(0) = 0
  BY <1>2, Zenon DEF At
<1>8. num \in Nat /\ num >= 1
  BY <1>1
<1>9. QED
  BY <1>4, <1>5, <1>6, <1>7, <1>8

(* Frames in the ring are less than a ring apart. *)
LEMMA RoundApart ==
  ASSUME TypeOK, TurnInv, NEW k \in Done..cur - 1, NEW l \in Done..cur - 1,
         At(k) = At(l)
  PROVE  k = l
<1>1. /\ num \in Nat /\ num >= 1
      /\ \A a, b \in Nat : a < b /\ b < a + num => At(a) # At(b)
  BY AtFacts
<1>2. Done \in Nat /\ dty <= Done /\ Done <= cur /\ cur <= dty + num
      /\ dty \in Nat /\ cur \in Nat
  BY DEF TurnInv, TypeOK
<1>3. k \in Nat /\ l \in Nat /\ k < l + num /\ l < k + num
  BY <1>1, <1>2
<1>4. QED
  BY <1>1, <1>3

(* Where the ring and its contents stay. *)
LEMMA OrderKept ==
  ASSUME OrderInv, Done' = Done, WorkInv', resync' => resync,
         (sw \in {"run", "fill"} /\ ~resync) \/ (Quiet => Quiet'),
         UNCHANGED <<bdn, num, txen, bds, mem, sub, sw, cur, dty, swi, inits>>
  PROVE  OrderInv'
<1>1. \A k : At(k)' = At(k)
  BY DEF At
<1>2. TurnInv' /\ SlotsInv'
  BY <1>1 DEF OrderInv, TurnInv, SlotsInv
<1>3. OnceInv'
  BY DEF OrderInv, OnceInv
<1>4. QED
  BY <1>2, <1>3 DEF OrderInv

(* A transmitter at work and a Data Transfer block past state 1 are not    *)
(* quiet: the ring is running.                                             *)
LEMMA Running ==
  ASSUME TypeOK, OrderInv, st # "bd" \/ pc # "idle" \/ txen
  PROVE  sw \in {"run", "fill"} /\ (st # "bd" \/ pc # "idle" => ~resync)
BY DEF TypeOK, OrderInv, OnceInv, Quiet

(* A frame's turn lasts from the buffer pointer to the fall of send ... *)
LEMMA DoneFetch ==
  ASSUME Inv,
         TxReadPtr \/ TxPreamble \/ TxIssueBurst \/ TxSend \/ TxReadWord \/ TxSeen
  PROVE  Done' = Done
<1>1. pc' = pc /\ out' = out
  BY DEF TxReadPtr, TxPreamble, TxIssueBurst, TxSend, TxReadWord, TxSeen, txVars
<1>2. CASE TxSend
  <2>1. pc = "idle"
    BY <1>2 DEF TxSend, Inv, HandInv
  <2>2. QED
    BY <1>1, <1>2, <2>1 DEF TxSend, Done, Begun
<1>3. CASE TxSeen
  <2>1. pc # "idle"
    BY <1>3 DEF TxSeen, Inv, HandInv
  <2>2. QED
    BY <1>1, <1>3, <2>1 DEF TxSeen, Done, Begun
<1>4. CASE TxReadPtr \/ TxPreamble \/ TxIssueBurst \/ TxReadWord
  BY <1>1, <1>4
     DEF TxReadPtr, TxPreamble, TxIssueBurst, TxReadWord, Done, Begun
<1>5. QED
  BY <1>2, <1>3, <1>4

(* ... and does not end with its transmission. *)
LEMMA DoneXmit ==
  ASSUME Inv, Transmitter
  PROVE  Done' = Done
<1>1. st' = st
  BY DEF Transmitter, XmStart, XmPreamble, XmData, XmEnd, dtVars
<1>2. TypeOK /\ Len(out) \in Nat
  BY DEF Inv, TypeOK
<1>3. CASE XmStart
  <2>1. st = "seen" /\ pc = "idle" /\ pc' = "pre" /\ out' = out
    BY <1>3 DEF XmStart, Inv, HandInv
  <2>2. QED
    BY <1>1, <1>2, <2>1 DEF Done, Begun
<1>4. CASE XmPreamble \/ XmData
  <2>1. pc # "idle" /\ pc' # "idle" /\ out' = out
    BY <1>4 DEF XmPreamble, XmData
  <2>2. QED
    BY <1>1, <2>1 DEF Done, Begun
<1>5. CASE XmEnd
  <2>1. pc = "fcs" /\ pc' = "idle" /\ st # "seen"
    BY <1>5, SendOver DEF XmEnd, Inv, HandInv
  <2>2. Len(out') = Len(out) + 1
    BY <1>2, <1>5, SeenNat DEF XmEnd, TypeOK
  <2>3. QED
    BY <1>1, <1>2, <2>1, <2>2 DEF Done, Begun
<1>6. QED
  BY <1>3, <1>4, <1>5 DEF Transmitter

(* Only the status write ends a turn. *)
LEMMA TurnKept ==
  ASSUME Inv, [Next]_vars, ~TxWriteStatus
  PROVE  Done' = Done
<1>1. CASE TxReadBd \/ TxResync
  BY <1>1 DEF TxReadBd, TxResync, Resyncing, txVars, Done, Begun
<1>2. CASE TxReadPtr \/ TxPreamble \/ TxIssueBurst \/ TxSend \/ TxReadWord
             \/ TxSeen
  BY <1>2, DoneFetch
<1>3. CASE Transmitter
  BY <1>3, DoneXmit
<1>4. CASE SyncSend \/ SyncReady \/ SyncRead \/ Driver \/ UNCHANGED vars
  BY <1>4 DEF SyncSend, SyncReady, SyncRead, Driver, SwFill, SwReady, SwReclaim,
              SwStop, SwSetBdNum, SwInitBd, vars, dtVars, txVars, Done, Begun
<1>5. QED
  BY <1>1, <1>2, <1>3, <1>4 DEF Next, DataTransfer

-----------------------------------------------------------------------------
(* OrderInv, one lemma per group of actions. *)

(* The Data Transfer block takes up the READY descriptor of its turn.      *)
LEMMA OrderReadBd ==
  ASSUME Inv, OrderInv, TxReadBd
  PROVE  OrderInv'
<1>1. /\ st = "bd" /\ st' = "ptr" /\ bds[bdn].rd /\ txen /\ desc' = bds[bdn]
      /\ UNCHANGED <<bdn, num, txen, bds, mem, sub, sw, cur, dty, swi, inits,
                     resync, pc, out>>
      /\ ~resync
  BY DEF TxReadBd, Resyncing, txVars, swVars
<1>2. TypeOK /\ sw \in {"run", "fill"} /\ bdn \in Bd
  BY <1>1, Running DEF Inv, TypeOK
<1>3. Done' = Done
  BY <1>1 DEF Done, Begun
<1>4. PICK k \in Done..cur - 1 : bdn = At(k)
  BY <1>1, <1>2 DEF OrderInv, SlotsInv
<1>5. Done \in Nat /\ cur \in Nat /\ bdn = At(Done)
  BY <1>2 DEF OrderInv, TurnInv, TypeOK
<1>6. Done < cur /\ Done \in Done..cur - 1
  BY <1>4, <1>5
<1>7. bds[bdn].len = sub[Done + 1]
  BY <1>5, <1>6 DEF OrderInv, SlotsInv
<1>8. bdn < num
  BY <1>2, <1>5, AtFacts
<1>9. bds[bdn].wrap <=> bdn = num - 1
  BY <1>2, <1>8 DEF OrderInv, OnceInv
<1>10. WorkInv'
  BY <1>1, <1>3, <1>6, <1>7, <1>9 DEF WorkInv
<1>11. QED
  BY <1>1, <1>2, <1>3, <1>10, OrderKept

(* From the buffer pointer to the fall of send, the frame's turn lasts.    *)
LEMMA OrderFetch ==
  ASSUME Inv, OrderInv,
         TxReadPtr \/ TxPreamble \/ TxIssueBurst \/ TxSend \/ TxReadWord \/ TxSeen
  PROVE  OrderInv'
<1>1. /\ st # "bd" /\ st' \in {"pre", "ar", "rd", "seen", "stat"}
      /\ UNCHANGED <<bdn, num, txen, bds, mem, sub, sw, cur, dty, swi, inits,
                     resync, pc, out>>
      /\ st = "ptr" => buf' = bdn
      /\ st # "ptr" => buf' = buf
      /\ desc'.len = desc.len /\ desc'.wrap = desc.wrap
      /\ st' = "seen" => ~desc'.rd
      /\ st' = "stat" => st = "seen" /\ desc' = desc
  BY DEF Inv, TypeOK, Desc, TxReadPtr, TxPreamble, TxIssueBurst, TxSend,
         TxReadWord, TxSeen, txVars, swVars
<1>2. TypeOK /\ sw \in {"run", "fill"} /\ ~resync
  BY <1>1, Running DEF Inv
<1>3. Done' = Done
  BY DoneFetch
<1>4. st' \in {"seen", "stat"} => ~desc'.rd
  BY <1>1 DEF OrderInv, WorkInv
<1>5. WorkInv'
  BY <1>1, <1>3, <1>4 DEF OrderInv, WorkInv
<1>6. QED
  BY <1>1, <1>2, <1>3, <1>5, OrderKept

(* The status write ends the turn and the next descriptor's begins. *)
LEMMA OrderWriteStatus ==
  ASSUME Inv, OrderInv, TxWriteStatus
  PROVE  OrderInv'
<1>1. /\ st = "stat" /\ st' = "bd" /\ bds' = [bds EXCEPT ![bdn] = desc]
      /\ bdn' = IF desc.wrap \/ bdn = num - 1 THEN 0 ELSE bdn + 1
      /\ UNCHANGED <<num, txen, mem, sub, sw, cur, dty, swi, inits, resync, pc,
                     out, desc, buf>>
  BY DEF TxWriteStatus, NextTxBd, txVars, swVars
<1>2. /\ TypeOK /\ sw \in {"run", "fill"} /\ ~resync /\ bdn \in Bd
      /\ bds \in [Bd -> Desc] /\ desc \in Desc /\ cur \in Nat /\ dty \in Nat
  BY <1>1, Running DEF Inv, TypeOK
<1>3. /\ Done < cur /\ (desc.wrap <=> bdn = num - 1) /\ ~desc.rd
      /\ desc.len = sub[Done + 1]
  BY <1>1 DEF OrderInv, WorkInv
<1>4. Done \in Nat /\ dty <= Done /\ cur <= dty + num /\ bdn = At(Done)
      /\ Len(sub) = cur
  BY DEF OrderInv, TurnInv
<1>5. Done' = Done + 1
  <2>1. Done = Begun - 1 /\ Done' = Begun /\ Begun' = Begun
    BY <1>1 DEF Done, Begun
  <2>2. Begun \in Nat
    BY <1>2 DEF Begun, TypeOK
  <2>3. QED
    BY <2>1, <2>2
<1>6. \A k : At(k)' = At(k)
  BY <1>1 DEF At
<1>7. /\ num \in Nat
      /\ \A k \in Nat : At(k) \in Bd /\ At(k) < num
      /\ At(Done + 1) = IF At(Done) = num - 1 THEN 0 ELSE At(Done) + 1
  BY <1>2, <1>4, AtFacts
<1>8. At(Done)' = At(Done + 1) /\ bdn' = At(Done + 1)
  <2>1. At(Done)' = Slot(num)[Done']
    BY <1>1 DEF At
  <2>2. QED
    BY <1>1, <1>3, <1>4, <1>5, <1>7, <2>1 DEF At
<1>9. ~bds'[bdn].rd /\ \A b \in Bd : b # bdn => bds'[b] = bds[b]
  BY <1>1, <1>2, <1>3
<1>10. bds'[bdn].wrap = desc.wrap
  BY <1>1, <1>2
<1>11. \A k \in Done + 1..cur - 1 :
         k \in Done..cur - 1 /\ At(k) # bdn /\ At(k) \in Bd
  <2> SUFFICES ASSUME NEW k \in Done + 1..cur - 1
               PROVE  k \in Done..cur - 1 /\ At(k) # bdn /\ At(k) \in Bd
    OBVIOUS
  <2>1. k \in Nat /\ k \in Done..cur - 1 /\ Done \in Done..cur - 1 /\ k # Done
    BY <1>2, <1>3, <1>4
  <2>2. At(k) # At(Done)
    BY <1>2, <2>1, RoundApart DEF OrderInv
  <2>3. QED
    BY <1>4, <1>7, <2>1, <2>2
<1>12. TurnInv'
  <2>1. /\ Done' \in Nat /\ dty <= Done' /\ Done' <= cur
    BY <1>2, <1>3, <1>4, <1>5
  <2>2. sw = "fill" => Done' < cur
    <3>1. ASSUME sw = "fill", Done' = cur
          PROVE  FALSE
      <4>1. Done \in Done..cur - 1 /\ Done = cur - 1
        BY <1>2, <1>3, <1>4, <1>5, <3>1
      <4>2. ~bds[At(Done)].rd
        BY <3>1, <4>1 DEF OrderInv, SlotsInv
      <4>3. QED
        BY <1>1, <1>4, <4>2 DEF OrderInv, WorkInv
    <3>2. QED
      BY <1>2, <2>1, <3>1
  <2>3. QED
    BY <1>1, <1>2, <1>4, <1>8, <2>1, <2>2 DEF TurnInv
<1>13. SlotsInv'
  <2>1. ASSUME NEW k \in Done'..cur - 1
        PROVE  /\ mem[At(k)] = k + 1
               /\ bds'[At(k)].len = sub[k + 1]
               /\ bds'[At(k)].rd <=> ~(sw = "fill" /\ k = cur - 1)
    <3>1. k \in Done..cur - 1 /\ bds'[At(k)] = bds[At(k)]
      BY <1>5, <1>9, <1>11
    <3>2. QED
      BY <3>1 DEF OrderInv, SlotsInv
  <2>2. ASSUME NEW b \in Bd, bds'[b].rd
        PROVE  \E k \in Done'..cur - 1 : b = At(k)
    <3>1. b # bdn /\ bds[b].rd
      BY <1>9, <2>2
    <3>2. PICK k \in Done..cur - 1 : b = At(k)
      BY <3>1 DEF OrderInv, SlotsInv
    <3>3. k \in Done'..cur - 1
      BY <1>2, <1>4, <1>5, <3>1, <3>2
    <3>4. QED
      BY <3>2, <3>3
  <2>3. QED
    BY <1>1, <1>6, <2>1, <2>2 DEF SlotsInv
<1>14. OnceInv'
  <2>1. \A b \in Bd : b < num => (bds'[b].wrap <=> b = num - 1)
    <3> SUFFICES ASSUME NEW b \in Bd, b < num
                 PROVE  bds'[b].wrap <=> b = num - 1
      OBVIOUS
    <3>1. CASE b = bdn
      BY <1>3, <1>10, <3>1
    <3>2. CASE b # bdn
      BY <1>2, <1>9, <3>2 DEF OrderInv, OnceInv
    <3>3. QED
      BY <3>1, <3>2
  <2>2. QED
    BY <1>1, <1>2, <2>1 DEF OrderInv, OnceInv
<1>15. WorkInv'
  BY <1>1 DEF WorkInv
<1>16. QED
  BY <1>12, <1>13, <1>14, <1>15 DEF OrderInv

(* The initial resync finds nothing begun. *)
LEMMA OrderResync ==
  ASSUME Inv, OrderInv, TxResync
  PROVE  OrderInv'
<1>1. /\ resync /\ ~resync' /\ st' = "bd" /\ bdn' = 0
      /\ UNCHANGED <<num, txen, bds, mem, sub, sw, cur, dty, swi, inits, pc,
                     out, desc, buf>>
  BY DEF TxResync, Resyncing, txVars, swVars
<1>2. Quiet
  BY <1>1 DEF OrderInv, OnceInv
<1>3. Quiet' /\ Done' = Done /\ Done = 0 /\ st = "bd"
  BY <1>1, <1>2 DEF Quiet, Done, Begun
<1>4. bdn = 0
  BY <1>3, AtFacts DEF OrderInv, TurnInv, Inv
<1>5. WorkInv'
  BY <1>1 DEF WorkInv
<1>6. QED
  BY <1>1, <1>3, <1>4, <1>5, OrderKept

(* Synchronisers move nothing, and the transmitter begins the frame of the *)
(* Data Transfer block's turn and ends it.                                 *)
LEMMA OrderXmit ==
  ASSUME Inv, OrderInv,
         SyncSend \/ SyncReady \/ SyncRead \/ Transmitter \/ UNCHANGED vars
  PROVE  OrderInv'
<1>1. UNCHANGED <<bdn, num, txen, bds, mem, sub, sw, cur, dty, swi, inits,
                  resync, st, desc, buf>>
  BY DEF SyncSend, SyncReady, SyncRead, Transmitter, XmStart, XmPreamble,
         XmData, XmEnd, vars, dtVars, swVars
<1>2. TypeOK /\ Len(out) \in Nat
  BY DEF Inv, TypeOK
<1>3. CASE SyncSend \/ SyncReady \/ SyncRead \/ UNCHANGED vars
  <2>1. Done' = Done /\ (Quiet => Quiet')
    BY <1>3 DEF SyncSend, SyncReady, SyncRead, vars, dtVars, txVars, Done,
                Begun, Quiet
  <2>2. WorkInv'
    BY <1>1, <2>1 DEF OrderInv, WorkInv
  <2>3. QED
    BY <1>1, <2>1, <2>2, OrderKept
<1>4. CASE Transmitter
  <2>1. st # "bd" \/ pc # "idle"
    BY <1>4 DEF Transmitter, XmStart, XmPreamble, XmData, XmEnd, Inv, HandInv
  <2>2. sw \in {"run", "fill"} /\ ~resync
    BY <1>2, <2>1, Running
  <2>3. Done' = Done
    BY <1>4, DoneXmit
  <2>4. WorkInv'
    BY <1>1, <2>3 DEF OrderInv, WorkInv
  <2>5. QED
    BY <1>1, <2>2, <2>3, <2>4, OrderKept
<1>5. QED
  BY <1>3, <1>4

(* What the invariants say of a running ring. *)
LEMMA RingFacts ==
  ASSUME TypeOK, OrderInv
  PROVE  /\ Len(sub) = cur /\ Done \in Nat /\ cur \in Nat /\ dty \in Nat
         /\ dty <= Done /\ Done <= cur /\ cur <= dty + num /\ bdn = At(Done)
         /\ num \in Nat /\ num >= 1 /\ bds \in [Bd -> Desc] /\ mem \in [Bd -> Nat]
         /\ \A k \in Nat : At(k) = k % num /\ At(k) \in Bd
<1>1. /\ num \in Nat /\ num >= 1
      /\ \A k \in Nat : At(k) = k % num /\ At(k) \in Bd
  BY AtFacts
<1>2. /\ Len(sub) = cur /\ Done \in Nat /\ cur \in Nat /\ dty \in Nat
      /\ dty <= Done /\ Done <= cur /\ cur <= dty + num /\ bdn = At(Done)
  BY DEF OrderInv, TurnInv, TypeOK
<1>3. bds \in [Bd -> Desc] /\ mem \in [Bd -> Nat]
  BY DEF TypeOK
<1>4. QED
  BY <1>1, <1>2, <1>3

(* The driver fills the descriptor behind those in use. *)
LEMMA OrderFill ==
  ASSUME Inv, OrderInv, SwFill
  PROVE  OrderInv'
<1> DEFINE s == At(cur)
<1>1. TypeOK
  BY DEF Inv
<1>2. /\ sw = "run" /\ sw' = "fill" /\ ~(cur - dty >= num) /\ cur' = cur + 1
      /\ mem' = [mem EXCEPT ![cur % num] = Len(sub) + 1]
      /\ UNCHANGED <<bdn, num, txen, dty, swi, inits, resync, st, desc, buf, pc,
                     out>>
  BY DEF SwFill, RingFull, dtVars, txVars
<1>3. PICK n \in FrameLens : /\ sub' = Append(sub, n)
                             /\ bds' = [bds EXCEPT ![cur % num].len = n]
  BY DEF SwFill
<1>4. /\ Len(sub) = cur /\ Done \in Nat /\ cur \in Nat /\ dty \in Nat
      /\ dty <= Done /\ Done <= cur /\ bdn = At(Done)
      /\ num \in Nat /\ num >= 1 /\ bds \in [Bd -> Desc] /\ mem \in [Bd -> Nat]
      /\ \A k \in Nat : At(k) = k % num /\ At(k) \in Bd
  BY <1>1, RingFacts
<1>5. s = cur % num /\ s \in Bd
  BY <1>4
<1> HIDE DEF s
<1>6. Done' = Done /\ (Quiet => Quiet')
  BY <1>2 DEF Done, Begun, Quiet
<1>7. \A k : At(k)' = At(k)
  BY <1>2 DEF At
<1>8. cur < dty + num
  BY <1>2, <1>4
<1>9. \A k \in Done..cur - 1 : k \in Nat /\ At(k) # s
  <2>1. \A k, l \in Nat : k < l /\ l < k + num => At(k) # At(l)
    BY <1>1, AtFacts
  <2> SUFFICES ASSUME NEW k \in Done..cur - 1 PROVE k \in Nat /\ At(k) # s
    OBVIOUS
  <2>2. k \in Nat /\ k < cur /\ cur < k + num
    BY <1>4, <1>8
  <2>3. QED
    BY <1>4, <2>1, <2>2 DEF s
<1>10. /\ mem'[s] = cur + 1
       /\ \A b \in Bd : b # s => mem'[b] = mem[b] /\ bds'[b] = bds[b]
       /\ bds'[s].len = n /\ bds'[s].rd = bds[s].rd /\ bds'[s].wrap = bds[s].wrap
  <2>1. bds[s] \in Desc
    BY <1>4, <1>5
  <2>2. mem'[s] = cur + 1 /\ \A b \in Bd : b # s => mem'[b] = mem[b]
    BY <1>2, <1>4, <1>5
  <2>3. \A b \in Bd : b # s => bds'[b] = bds[b]
    BY <1>3, <1>4, <1>5
  <2>4. bds'[s] = [bds[s] EXCEPT !.len = n]
    BY <1>3, <1>4, <1>5
  <2>5. bds'[s].len = n /\ bds'[s].rd = bds[s].rd /\ bds'[s].wrap = bds[s].wrap
    BY <2>1, <2>4 DEF Desc
  <2>6. QED
    BY <2>2, <2>3, <2>5
<1>11. ~bds[s].rd
  <2> SUFFICES ASSUME bds[s].rd PROVE FALSE
    OBVIOUS
  <2>1. PICK k \in Done..cur - 1 : s = At(k)
    BY <1>5 DEF OrderInv, SlotsInv
  <2>2. QED
    BY <1>9, <2>1
<1>12. /\ Len(sub') = cur + 1 /\ sub'[cur + 1] = n
       /\ \A k \in 1..cur : sub'[k] = sub[k]
  <2>1. sub \in Seq(FrameLens) /\ Len(sub) = cur
    BY <1>1, <1>4 DEF TypeOK
  <2>2. sub' = Append(sub, n)
    BY <1>3
  <2>3. QED
    BY <2>1, <2>2
<1>13. TurnInv'
  <2>1. cur' <= dty + num /\ Done <= cur' /\ Done < cur'
    BY <1>2, <1>4, <1>8
  <2>2. At(Done)' = At(Done)
    BY <1>6, <1>2 DEF At
  <2>3. QED
    BY <1>2, <1>4, <1>6, <1>12, <2>1, <2>2 DEF TurnInv
<1>14. SlotsInv'
  <2>1. ASSUME NEW k \in Done..cur
        PROVE  /\ mem'[At(k)] = k + 1
               /\ bds'[At(k)].len = sub'[k + 1]
               /\ bds'[At(k)].rd <=> ~(k = cur)
    <3>1. CASE k = cur
      BY <1>4, <1>10, <1>11, <1>12, <3>1 DEF s
    <3>2. CASE k # cur
      <4>1. k \in Done..cur - 1 /\ k + 1 \in 1..cur
        BY <1>4, <3>2
      <4>2. At(k) # s /\ At(k) \in Bd
        BY <1>4, <1>9, <4>1
      <4>3. mem[At(k)] = k + 1 /\ bds[At(k)].len = sub[k + 1] /\ bds[At(k)].rd
        BY <1>2, <4>1 DEF OrderInv, SlotsInv
      <4>4. QED
        BY <1>10, <1>12, <3>2, <4>1, <4>2, <4>3
    <3>3. QED
      BY <3>1, <3>2
  <2>2. ASSUME NEW b \in Bd, bds'[b].rd
        PROVE  \E k \in Done..cur : b = At(k)
    <3>1. b # s /\ bds[b].rd
      BY <1>10, <1>11, <2>2
    <3>2. PICK k \in Done..cur - 1 : b = At(k)
      BY <3>1 DEF OrderInv, SlotsInv
    <3>3. k \in Done..cur
      BY <1>4, <3>2
    <3>4. QED
      BY <3>2, <3>3
  <2>3. cur' - 1 = cur
    BY <1>2, <1>4
  <2>4. QED
    BY <1>2, <1>6, <1>7, <2>1, <2>2, <2>3 DEF SlotsInv
<1>15. WorkInv'
  <2>1. CASE st = "bd"
    BY <1>2, <2>1 DEF WorkInv
  <2>2. CASE st # "bd"
    <3>1. /\ Done < cur /\ bds[bdn].rd /\ desc.len = sub[Done + 1]
          /\ desc.wrap <=> bdn = num - 1
          /\ st \notin {"bd", "ptr"} => buf = bdn
          /\ st \in {"seen", "stat"} => ~desc.rd
      BY <2>2 DEF OrderInv, WorkInv
    <3>2. Done \in Done..cur - 1 /\ Done + 1 \in 1..cur
      BY <1>4, <3>1
    <3>3. bdn # s /\ bdn \in Bd
      BY <1>4, <1>9, <3>2
    <3>4. bds'[bdn].rd /\ sub'[Done + 1] = sub[Done + 1] /\ Done < cur'
      <4>1. bds'[bdn] = bds[bdn] /\ sub'[Done + 1] = sub[Done + 1]
        BY <1>10, <1>12, <3>2, <3>3
      <4>2. Done < cur'
        BY <1>2, <1>4, <3>1
      <4>3. QED
        BY <3>1, <4>1, <4>2
    <3>5. QED
      BY <1>2, <1>6, <3>1, <3>4 DEF WorkInv
  <2>3. QED
    BY <2>1, <2>2
<1>16. OnceInv'
  <2>1. \A b \in Bd : bds'[b].wrap = bds[b].wrap
    BY <1>10
  <2>2. QED
    BY <1>2, <1>6, <2>1 DEF OrderInv, OnceInv
<1>17. QED
  BY <1>13, <1>14, <1>15, <1>16 DEF OrderInv

(* The driver hands over the descriptor it filled. *)
LEMMA OrderReady ==
  ASSUME Inv, OrderInv, SwReady
  PROVE  OrderInv'
<1> DEFINE s == At(cur - 1)
<1>1. TypeOK
  BY DEF Inv
<1>2. /\ sw = "fill" /\ sw' = "run"
      /\ bds' = [bds EXCEPT ![(cur - 1) % num].rd = TRUE]
      /\ UNCHANGED <<bdn, num, txen, mem, sub, cur, dty, swi, inits, resync, st,
                     desc, buf, pc, out>>
  BY DEF SwReady, dtVars, txVars
<1>3. /\ Len(sub) = cur /\ Done \in Nat /\ cur \in Nat /\ dty \in Nat
      /\ dty <= Done /\ Done <= cur /\ bdn = At(Done)
      /\ num \in Nat /\ num >= 1 /\ bds \in [Bd -> Desc]
      /\ \A k \in Nat : At(k) = k % num /\ At(k) \in Bd
  BY <1>1, RingFacts
<1>4. Done < cur /\ cur - 1 \in Nat /\ cur - 1 \in Done..cur - 1
  <2>1. Done < cur
    BY <1>2 DEF OrderInv, TurnInv
  <2>2. Done \in Nat /\ cur \in Nat
    BY <1>3
  <2>3. QED
    BY <2>1, <2>2
<1>5. s = (cur - 1) % num /\ s \in Bd
  BY <1>3, <1>4
<1> HIDE DEF s
<1>6. Done' = Done /\ (Quiet => Quiet')
  BY <1>2 DEF Done, Begun, Quiet
<1>7. \A k : At(k)' = At(k)
  BY <1>2 DEF At
<1>8. /\ \A b \in Bd : b # s => bds'[b] = bds[b]
      /\ bds'[s].len = bds[s].len /\ bds'[s].rd /\ bds'[s].wrap = bds[s].wrap
  <2>1. bds[s] \in Desc
    BY <1>3, <1>5
  <2>2. \A b \in Bd : b # s => bds'[b] = bds[b]
    BY <1>2, <1>3, <1>5
  <2>3. bds'[s] = [bds[s] EXCEPT !.rd = TRUE]
    BY <1>2, <1>3, <1>5
  <2>4. bds'[s].len = bds[s].len /\ bds'[s].rd /\ bds'[s].wrap = bds[s].wrap
    BY <2>1, <2>3 DEF Desc
  <2>5. QED
    BY <2>2, <2>4
<1>9. TurnInv'
  <2>1. At(Done)' = At(Done)
    BY <1>2, <1>6 DEF At
  <2>2. QED
    BY <1>2, <1>6, <2>1 DEF OrderInv, TurnInv
<1>10. SlotsInv'
  <2>1. ASSUME NEW k \in Done..cur - 1
        PROVE  mem[At(k)] = k + 1 /\ bds'[At(k)].len = sub[k + 1] /\ bds'[At(k)].rd
    <3>1. At(k) \in Bd /\ mem[At(k)] = k + 1 /\ bds[At(k)].len = sub[k + 1]
      BY <1>3 DEF OrderInv, SlotsInv
    <3>2. CASE k = cur - 1
      BY <1>8, <3>1, <3>2 DEF s
    <3>3. CASE k # cur - 1
      <4>1. At(k) # s
        BY <1>1, <1>4, <3>3, RoundApart DEF OrderInv, s
      <4>2. bds[At(k)].rd
        BY <3>3 DEF OrderInv, SlotsInv
      <4>3. QED
        BY <1>8, <3>1, <4>1, <4>2
    <3>4. QED
      BY <3>2, <3>3
  <2>2. ASSUME NEW b \in Bd, bds'[b].rd
        PROVE  \E k \in Done..cur - 1 : b = At(k)
    <3>1. CASE b = s
      BY <1>4, <3>1 DEF s
    <3>2. CASE b # s
      BY <1>8, <2>2, <3>2 DEF OrderInv, SlotsInv
    <3>3. QED
      BY <3>1, <3>2
  <2>3. QED
    BY <1>2, <1>6, <1>7, <2>1, <2>2 DEF SlotsInv
<1>11. WorkInv'
  <2>1. bdn \in Bd /\ (bds[bdn].rd => bds'[bdn].rd)
    BY <1>3, <1>8
  <2>2. QED
    BY <1>2, <1>6, <2>1 DEF OrderInv, WorkInv
<1>12. OnceInv'
  <2>1. \A b \in Bd : bds'[b].wrap = bds[b].wrap
    BY <1>8
  <2>2. QED
    BY <1>2, <1>6, <2>1 DEF OrderInv, OnceInv
<1>13. QED
  BY <1>9, <1>10, <1>11, <1>12 DEF OrderInv

(* The driver reclaims only what the Data Transfer block has passed. *)
LEMMA OrderReclaim ==
  ASSUME Inv, OrderInv, SwReclaim
  PROVE  OrderInv'
<1>1. TypeOK
  BY DEF Inv
<1>2. /\ sw = "run" /\ dty # cur /\ ~bds[dty % num].rd /\ dty' = dty + 1
      /\ UNCHANGED <<bdn, num, txen, bds, mem, sub, sw, cur, swi, inits, resync,
                     st, desc, buf, pc, out>>
  BY DEF SwReclaim, dtVars, txVars
<1>3. /\ Len(sub) = cur /\ Done \in Nat /\ cur \in Nat /\ dty \in Nat
      /\ dty <= Done /\ Done <= cur /\ cur <= dty + num /\ bdn = At(Done)
      /\ num \in Nat
      /\ \A k \in Nat : At(k) = k % num /\ At(k) \in Bd
  BY <1>1, RingFacts
<1>4. dty # Done
  <2> SUFFICES ASSUME dty = Done PROVE FALSE
    OBVIOUS
  <2>1. Done < cur /\ Done \in Done..cur - 1
    BY <1>2, <1>3
  <2>2. At(Done) = dty % num
    BY <1>3
  <2>3. ~bds[At(Done)].rd
    BY <1>2, <2>2
  <2>4. QED
    BY <1>2, <2>1, <2>3 DEF OrderInv, SlotsInv
<1>5. Done' = Done /\ (Quiet => Quiet')
  BY <1>2 DEF Done, Begun, Quiet
<1>6. \A k : At(k)' = At(k)
  BY <1>2 DEF At
<1>7. TurnInv'
  <2>1. At(Done)' = At(Done)
    BY <1>2, <1>5 DEF At
  <2>2. dty' <= Done /\ cur <= dty' + num
    BY <1>2, <1>3, <1>4
  <2>3. QED
    BY <1>2, <1>3, <1>5, <2>1, <2>2 DEF TurnInv
<1>8. SlotsInv' /\ WorkInv'
  BY <1>2, <1>5, <1>6 DEF OrderInv, SlotsInv, WorkInv
<1>9. OnceInv'
  BY <1>2, <1>5 DEF OrderInv, OnceInv
<1>10. QED
  BY <1>7, <1>8, <1>9 DEF OrderInv

(* Before the ring runs nothing is in it. *)
LEMMA EmptyRing ==
  ASSUME TypeOK, OrderInv, sw \in {"stop", "init"}
  PROVE  /\ Quiet /\ ~txen /\ cur = 0 /\ dty = 0 /\ sub = <<>> /\ Len(sub) = 0
         /\ Done = 0 /\ bdn = 0
         /\ \A b \in Bd : ~bds[b].rd
<1>1. Quiet /\ ~txen /\ cur = 0 /\ dty = 0 /\ sub = <<>>
      /\ \A b \in Bd : ~bds[b].rd
  BY DEF OrderInv, OnceInv
<1>2. Done = 0
  BY <1>1 DEF Quiet, Done, Begun
<1>3. bdn = 0
  BY <1>2, AtFacts DEF OrderInv, TurnInv
<1>4. QED
  BY <1>1, <1>2, <1>3

(* The ring gets its size. *)
LEMMA OrderSetBdNum ==
  ASSUME Inv, Inv', OrderInv, SwSetBdNum
  PROVE  OrderInv'
<1>1. /\ sw = "stop" /\ sw' = "init" /\ cur' = 0 /\ dty' = 0 /\ swi' = 0
      /\ resync' /\ inits' = inits + 1
      /\ UNCHANGED <<bdn, txen, bds, mem, sub, st, desc, buf, pc, out>>
  BY DEF SwSetBdNum, dtVars, txVars
<1>2. TypeOK /\ TypeOK'
  BY DEF Inv
<1>3. /\ Quiet /\ ~txen /\ cur = 0 /\ dty = 0 /\ sub = <<>> /\ Len(sub) = 0
      /\ Done = 0 /\ bdn = 0 /\ inits = 0
      /\ \A b \in Bd : ~bds[b].rd
  BY <1>1, <1>2, EmptyRing DEF OrderInv, OnceInv
<1>4. Quiet' /\ Done' = 0 /\ st = "bd"
  BY <1>1, <1>3 DEF Quiet, Done, Begun
<1>5. num' \in Nat /\ num' >= 1 /\ Slot(num')[0] = 0
  <2>1. num' \in Nat \ {0}
    BY <1>2, ConstFacts DEF TypeOK
  <2>2. QED
    BY <2>1, SlotFacts
<1>6. TurnInv'
  <2>1. At(Done)' = 0
    BY <1>4, <1>5 DEF At
  <2>2. Done' \in Nat /\ dty' <= Done' /\ Done' <= cur' /\ cur' <= dty' + num'
    <3>1. dty' = 0 /\ cur' = 0
      BY <1>1
    <3>2. Done' = Done /\ Done = 0
      BY <1>3, <1>4
    <3>3. num' \in Nat
      BY <1>5
    <3>4. Done' \in Nat
      BY <3>2
    <3>5. dty' <= Done' /\ Done' <= cur'
      BY <3>1, <3>2
    <3>6. cur' <= dty' + num'
      <4>1. \A n \in Nat : 0 <= 0 + n
        OBVIOUS
      <4>2. QED
        BY <3>1, <3>3, <4>1, Zenon
    <3>7. QED
      BY <3>4, <3>5, <3>6
  <2>3. Len(sub') = cur' /\ sw' # "fill" /\ bdn' = At(Done)'
    BY <1>1, <1>3, <2>1
  <2>4. QED
    BY <2>2, <2>3 DEF TurnInv
<1>7. SlotsInv' /\ WorkInv'
  BY <1>1, <1>3, <1>4 DEF SlotsInv, WorkInv
<1>8. OnceInv'
  BY <1>1, <1>2, <1>3, <1>4 DEF OnceInv, Bd
<1>9. QED
  BY <1>6, <1>7, <1>8 DEF OrderInv

(* The descriptors are written one by one. *)
LEMMA OrderInitBd ==
  ASSUME Inv, OrderInv, SwInitBd
  PROVE  OrderInv'
<1>1. /\ sw = "init"
      /\ bds' = [bds EXCEPT ![swi] = [rd |-> FALSE, len |-> 0,
                                      wrap |-> swi = num - 1]]
      /\ swi' = swi + 1
      /\ swi = num - 1 => sw' = "run"
      /\ swi # num - 1 => sw' = "init" /\ txen' = txen
      /\ UNCHANGED <<bdn, num, mem, sub, cur, dty, inits, resync, st, desc, buf,
                     pc, out>>
  BY DEF SwInitBd, dtVars, txVars
<1>2. /\ TypeOK /\ swi \in Nat /\ swi < num /\ bds \in [Bd -> Desc]
      /\ num \in 1..MaxBds /\ MaxBds \in Nat
  BY <1>1, ConstFacts DEF Inv, TypeOK, RingInv
<1>3. /\ Quiet /\ ~txen /\ cur = 0 /\ dty = 0 /\ sub = <<>> /\ Len(sub) = 0
      /\ Done = 0 /\ bdn = 0
      /\ \A b \in Bd : ~bds[b].rd
  BY <1>1, <1>2, EmptyRing
<1>4. Quiet' /\ Done' = 0 /\ st = "bd"
  BY <1>1, <1>3 DEF Quiet, Done, Begun
<1>5. swi \in Bd
  BY <1>2 DEF Bd
<1>6. /\ \A b \in Bd : b # swi => bds'[b] = bds[b]
      /\ ~bds'[swi].rd /\ (bds'[swi].wrap <=> swi = num - 1)
  BY <1>1, <1>2, <1>5
<1>7. \A b \in Bd : ~bds'[b].rd
  BY <1>3, <1>6
<1>8. TurnInv'
  <2>1. At(Done)' = At(Done)
    BY <1>1, <1>3, <1>4 DEF At
  <2>2. sw' # "fill"
    BY <1>1
  <2>3. QED
    BY <1>1, <1>3, <1>4, <2>1, <2>2 DEF OrderInv, TurnInv
<1>9. SlotsInv' /\ WorkInv'
  BY <1>1, <1>3, <1>4, <1>7 DEF SlotsInv, WorkInv
<1>10. \A b \in Bd : b < swi' => (bds'[b].wrap <=> b = num - 1)
  <2> SUFFICES ASSUME NEW b \in Bd, b < swi'
               PROVE  bds'[b].wrap <=> b = num - 1
    OBVIOUS
  <2>1. CASE b = swi
    BY <1>6, <2>1
  <2>2. CASE b # swi
    <3>1. b < swi
      BY <1>1, <1>2, <2>2 DEF Bd
    <3>2. QED
      BY <1>1, <1>6, <2>2, <3>1 DEF OrderInv, OnceInv
  <2>3. QED
    BY <2>1, <2>2
<1>11. sw' = "run" => swi' = num
  BY <1>1, <1>2
<1>12. OnceInv'
  <2>1. sw' \in {"init", "run"} /\ (sw' = "init" => txen' = txen)
    BY <1>1
  <2>2. inits # 0 /\ inits <= 1
    BY <1>1 DEF OrderInv, OnceInv
  <2>3. sw' = "run" => \A b \in Bd : b < num => (bds'[b].wrap <=> b = num - 1)
    BY <1>10, <1>11
  <2>4. QED
    BY <1>1, <1>3, <1>4, <1>7, <1>10, <2>1, <2>2, <2>3 DEF OnceInv
<1>13. QED
  BY <1>8, <1>9, <1>12 DEF OrderInv

(* The ring's invariants in every step. *)
LEMMA OrderStep ==
  ASSUME MaxReinit <= 1, Inv, Inv', OrderInv, [Next]_vars
  PROVE  OrderInv'
<1>1. CASE DataTransfer
  BY <1>1, OrderReadBd, OrderFetch, OrderWriteStatus, OrderResync
     DEF DataTransfer
<1>2. CASE SyncSend \/ SyncReady \/ SyncRead \/ Transmitter \/ UNCHANGED vars
  BY <1>2, OrderXmit
<1>3. CASE SwStop
  <2>1. sw = "run" /\ inits < MaxReinit /\ inits \in Nat /\ MaxReinit \in Nat
    BY <1>3, ConstAssumption DEF SwStop, Inv, TypeOK
  <2>2. inits = 0
    BY <2>1
  <2>3. QED
    BY <2>1, <2>2 DEF OrderInv, OnceInv
<1>4. CASE SwFill \/ SwReady \/ SwReclaim \/ SwSetBdNum \/ SwInitBd
  BY <1>4, OrderFill, OrderReady, OrderReclaim, OrderSetBdNum, OrderInitBd
<1>5. QED
  BY <1>1, <1>2, <1>3, <1>4 DEF Next, Driver

(* Before anything happens there is nothing to order. *)
LEMMA OrderInit ==
  ASSUME Init
  PROVE  OrderInv
<1>1. Done = 0 /\ Quiet /\ num \in Nat /\ num >= 1 /\ Slot(num)[0] = 0
  <2>1. num \in Nat \ {0}
    BY ConstFacts DEF Init
  <2>2. Slot(num)[0] = 0
    BY <2>1, SlotFacts
  <2>3. Done = 0 /\ Quiet
    BY DEF Init, Done, Begun, Quiet
  <2>4. QED
    BY <2>1, <2>2, <2>3
<1>2. TurnInv
  <2>1. At(Done) = 0
    BY <1>1 DEF At
  <2>2. QED
    BY <1>1, <2>1 DEF Init, TurnInv
<1>3. \A b \in Bd : bds[b] = EmptyDesc
  BY DEF Init
<1>4. \A b \in Bd : ~bds[b].rd
  BY <1>3 DEF EmptyDesc
<1>5. SlotsInv /\ WorkInv
  BY <1>1, <1>4 DEF Init, SlotsInv, WorkInv
<1>6. OnceInv
  BY <1>1, <1>4 DEF Init, OnceInv
<1>7. QED
  BY <1>2, <1>5, <1>6 DEF OrderInv

-----------------------------------------------------------------------------
(* TextInv, one lemma per kind of action. *)

(* A frame's lengths and numbers are in range wherever TextInv uses them. *)
LEMMA TextFacts ==
  ASSUME Inv, OrderInv
  PROVE  /\ Len(hist) \in Nat /\ rp \in Nat /\ Put \in Nat /\ PreLen \in Nat
         /\ Done \in Nat /\ Len(out) \in Nat /\ Len(sub) \in Nat /\ addr \in Nat
         /\ nbytes \in Nat
         /\ hist \in Seq(Byte) /\ sub \in Seq(FrameLens) /\ wire \in Seq(Byte)
         /\ pc = "idle" => Len(hist) = rp + Put
         /\ st # "bd" => Done + 1 \in 1..Len(sub)
<1>1. TypeOK /\ PreLen \in Nat
  BY ConstFacts DEF Inv
<1>2. nbytes \in Nat
  <2>1. LenMod \in Nat
    BY ConstFacts
  <2>2. QED
    BY <1>1, <2>1 DEF TypeOK
<1>3. Put \in Nat
  BY <1>1, <1>2 DEF TypeOK, Put
<1>4. pc = "idle" => Len(hist) = rp + Put
  BY DEF Inv, LevelInv
<1>5. Len(sub) = cur /\ Done \in Nat /\ cur \in Nat
  BY <1>1, RingFacts
<1>6. st # "bd" => Done + 1 \in 1..Len(sub)
  <2>1. st # "bd" => Done < cur
    BY DEF OrderInv, WorkInv
  <2>2. QED
    BY <1>5, <2>1
<1>7. /\ hist \in Seq(Byte) /\ sub \in Seq(FrameLens) /\ wire \in Seq(Byte)
      /\ Len(hist) \in Nat /\ rp \in Nat /\ Len(out) \in Nat /\ addr \in Nat
      /\ Len(sub) \in Nat
  BY <1>1 DEF TypeOK
<1>8. QED
  BY <1>1, <1>2, <1>3, <1>4, <1>5, <1>6, <1>7

(* Behind the preamble come the bytes of the frame. *)
LEMMA PayloadByte ==
  ASSUME NEW f, NEW j, ~(j <= PreLen)
  PROVE  LineByte(f, j) = <<f, j - PreLen>>
BY DEF LineByte

(* Steps that touch neither FIFO nor line. *)
LEMMA TextKept ==
  ASSUME Inv, OrderInv, TextInv,
         UNCHANGED <<hist, rp, pc, addr, data, wire, out, nbytes>>,
         Len(sub) <= Len(sub'), \A k \in 1..Len(sub) : sub'[k] = sub[k],
         Len(sub') \in Nat,
         pc = "idle" => Put' = 0 \/ (Put' = Put /\ Done' = Done),
         st' \in {"seen", "stat"} => st \in {"seen", "stat"} /\ Done' = Done,
         st' = "seen" => st = "seen"
  PROVE  TextInv'
<1>1. /\ Len(out) \in Nat /\ Len(sub) \in Nat
      /\ st # "bd" => Done + 1 \in 1..Len(sub)
  BY TextFacts
<1>2. FifoText'
  <2>1. pc = "idle" => \A j \in 1..Put' : hist[rp + j] = LineByte(Done' + 1, j)
    <3>1. CASE pc # "idle"
      BY <3>1
    <3>2. CASE pc = "idle" /\ Put' = 0
      <4>1. \A j \in 1..Put' : FALSE
        BY <3>2
      <4>2. QED
        BY <4>1
    <3>3. CASE pc = "idle" /\ Put' = Put /\ Done' = Done
      BY <3>3 DEF TextInv, FifoText
    <3>4. QED
      BY <3>1, <3>2, <3>3
  <2>2. st' = "seen" => nbytes = PreLen + sub'[Done' + 1]
    BY <1>1 DEF TextInv, FifoText
  <2>3. st' \in {"seen", "stat"} => hist[Len(hist)][1] = Done' + 1
    BY DEF TextInv, FifoText
  <2>4. QED
    BY <2>1, <2>2, <2>3 DEF FifoText, LineByte
<1>3. WireText'
  <2>1. pc # "idle" => Len(out) + 1 \in 1..Len(sub)
    BY <1>1 DEF TextInv, WireText
  <2>2. pc # "idle" => Len(out) + 1 <= Len(sub') /\ sub'[Len(out) + 1] = sub[Len(out) + 1]
    BY <1>1, <2>1
  <2>3. QED
    BY <2>2 DEF TextInv, WireText, LineByte
<1>4. OutInv'
  BY DEF TextInv, OutInv
<1>5. QED
  BY <1>2, <1>3, <1>4 DEF TextInv

(* The Data Transfer block writes the next byte of the frame. *)
LEMMA TextPush ==
  ASSUME Inv, OrderInv, TextInv, NEW b \in Byte,
         b = LineByte(Done + 1, Put + 1),
         hist' = Append(hist, b), Put' = Put + 1, Done' = Done, pc = "idle",
         st' \notin {"seen", "stat"},
         UNCHANGED <<rp, pc, addr, data, wire, out, nbytes, sub>>
  PROVE  TextInv'
<1>1. /\ Len(hist) \in Nat /\ rp \in Nat /\ Put \in Nat /\ Len(hist) = rp + Put
      /\ hist \in Seq(Byte)
  BY TextFacts
<1>2. /\ hist'[rp + (Put + 1)] = b
      /\ \A i \in 1..rp + Put : hist'[i] = hist[i]
  BY <1>1
<1>3. \A j \in 1..Put' : hist'[rp + j] = LineByte(Done + 1, j)
  <2> SUFFICES ASSUME NEW j \in 1..Put'
               PROVE  hist'[rp + j] = LineByte(Done + 1, j)
    OBVIOUS
  <2>1. CASE j = Put + 1
    BY <1>2, <2>1
  <2>2. CASE j # Put + 1
    <3>1. j \in 1..Put /\ rp + j \in 1..rp + Put
      BY <1>1, <2>2
    <3>2. hist'[rp + j] = hist[rp + j]
      BY <1>2, <3>1
    <3>3. hist[rp + j] = LineByte(Done + 1, j)
      BY <3>1 DEF TextInv, FifoText
    <3>4. QED
      BY <3>2, <3>3
  <2>3. QED
    BY <2>1, <2>2
<1>4. FifoText'
  BY <1>3 DEF FifoText, LineByte
<1>5. WireText' /\ OutInv'
  BY DEF TextInv, WireText, OutInv
<1>6. QED
  BY <1>4, <1>5 DEF TextInv

(* The preamble. *)
LEMMA TextPreamble ==
  ASSUME Inv, OrderInv, TextInv, TxPreamble
  PROVE  TextInv'
<1>1. /\ st = "pre" /\ readyS
      /\ UNCHANGED <<rp, pc, addr, data, wire, out, nbytes, sub, cnt>>
  BY DEF TxPreamble, txVars, swVars
<1>2. pc = "idle" /\ cnt = 0 /\ pre \in 0..PreLen /\ PreLen \in Nat
  BY <1>1, ConstFacts DEF Inv, TypeOK, HandInv, FetchInv
<1>3. Done' = Done
  BY DoneFetch
<1>4. CASE pre < PreLen
  <2>1. st' = "pre" /\ hist' = Append(hist, Pre) /\ pre' = pre + 1
    BY <1>1, <1>4 DEF TxPreamble, Push
  <2>2. Put = pre /\ Put' = pre + 1 /\ Pre \in Byte
    BY <1>1, <2>1 DEF Put, Pre, Byte
  <2>3. Pre = LineByte(Done + 1, Put + 1)
    BY <1>2, <1>4, <2>2 DEF LineByte
  <2>4. QED
    BY <1>1, <1>2, <1>3, <2>1, <2>2, <2>3, TextPush
<1>5. CASE ~(pre < PreLen)
  <2>1. st' = "ar" /\ hist' = hist
    BY <1>1, <1>5 DEF TxPreamble
  <2>2. Put' = Put
    BY <1>1, <1>2, <1>5, <2>1 DEF Put
  <2>3. Len(sub) \in Nat
    BY TextFacts
  <2>4. QED
    BY <1>1, <1>3, <2>1, <2>2, <2>3, TextKept
<1>6. QED
  BY <1>4, <1>5

(* A byte of the frame: the buffer is that of the descriptor of this turn. *)
LEMMA TextReadWord ==
  ASSUME Inv, OrderInv, TextInv, TxReadWord
  PROVE  TextInv'
<1>1. /\ st = "rd" /\ st' \in {"ar", "rd"}
      /\ hist' = Append(hist, <<mem[buf], cnt + 1>>) /\ cnt' = cnt + 1
      /\ UNCHANGED <<rp, pc, addr, data, wire, out, nbytes, sub>>
  BY DEF TxReadWord, Push, txVars, swVars
<1>2. /\ pc = "idle" /\ cnt \in Nat /\ PreLen \in Nat
      /\ mem[buf] \in Nat
  BY <1>1, ConstFacts DEF Inv, TypeOK, HandInv
<1>3. Done' = Done
  BY DoneFetch
<1>4. Put = PreLen + cnt /\ Put' = Put + 1
  <2>1. Put = PreLen + cnt /\ Put' = PreLen + (cnt + 1)
    BY <1>1 DEF Put
  <2>2. QED
    BY <1>2, <2>1
<1>5. mem[buf] = Done + 1
  <2>1. buf = At(Done) /\ Done < cur
    BY <1>1 DEF OrderInv, WorkInv, TurnInv
  <2>2. Done \in Nat /\ cur \in Nat
    BY RingFacts DEF Inv
  <2>3. Done \in Done..cur - 1
    BY <2>1, <2>2
  <2>4. mem[At(Done)] = Done + 1
    BY <2>3 DEF OrderInv, SlotsInv
  <2>5. QED
    BY <2>1, <2>4
<1>6. <<mem[buf], cnt + 1>> = LineByte(Done + 1, Put + 1)
  <2>1. ~(Put + 1 <= PreLen) /\ (Put + 1) - PreLen = cnt + 1
    BY <1>2, <1>4
  <2>2. LineByte(Done + 1, Put + 1) = <<Done + 1, (Put + 1) - PreLen>>
    BY <2>1, PayloadByte
  <2>3. QED
    BY <1>5, <2>1, <2>2, Zenon
<1>7. <<mem[buf], cnt + 1>> \in Byte
  BY <1>2 DEF Byte
<1>8. QED
  BY <1>1, <1>2, <1>3, <1>4, <1>6, <1>7, TextPush

(* The call of the transmitter asks for the bytes put in. *)
LEMMA TextSend ==
  ASSUME Inv, OrderInv, TextInv, TxSend
  PROVE  TextInv'
<1>1. /\ st = "ar" /\ st' = "seen" /\ cnt = desc.len
      /\ nbytes' = (PreLen + desc.len) % LenMod
      /\ UNCHANGED <<rp, hist, pc, addr, data, wire, out, sub>>
  BY DEF TxSend, fifoVars, txVars, swVars
<1>2. /\ pc = "idle" /\ PreLen \in Nat /\ desc.len \in Nat \ {0}
      /\ (PreLen + desc.len) % LenMod = PreLen + desc.len
  <2>1. desc.len \in FrameLens
    BY <1>1 DEF Inv, RingInv
  <2>2. QED
    BY <1>1, <2>1, ConstFacts DEF Inv, HandInv
<1>3. Done' = Done
  BY DoneFetch
<1>4. desc.len = sub[Done + 1]
  BY <1>1 DEF OrderInv, WorkInv
<1>5. nbytes' = PreLen + sub[Done + 1] /\ Put = PreLen + desc.len /\ Put' = Put
  BY <1>1, <1>2, <1>4 DEF Put
<1>6. hist[Len(hist)][1] = Done + 1
  <2>1. Len(hist) = rp + Put /\ Put \in Nat /\ rp \in Nat
    BY <1>2, TextFacts
  <2>2. Put \in 1..Put /\ ~(Put <= PreLen)
    BY <1>2, <1>5, <2>1
  <2>3. hist[rp + Put] = LineByte(Done + 1, Put)
    BY <1>2, <2>2 DEF TextInv, FifoText
  <2>4. QED
    BY <2>1, <2>2, <2>3 DEF LineByte
<1>7. FifoText'
  <2>1. \A j \in 1..Put : hist[rp + j] = LineByte(Done + 1, j)
    BY <1>2 DEF TextInv, FifoText
  <2>2. QED
    BY <1>1, <1>3, <1>5, <1>6, <2>1 DEF FifoText, LineByte
<1>8. WireText' /\ OutInv'
  BY <1>1, <1>2 DEF TextInv, WireText, OutInv
<1>9. QED
  BY <1>7, <1>8 DEF TextInv

(* The transmitter begins: the first byte is that of the frame whose turn  *)
(* it is.                                                                  *)
LEMMA TextStart ==
  ASSUME Inv, OrderInv, TextInv, XmStart
  PROVE  TextInv'
<1>1. /\ pc = "idle" /\ sendS /\ pc' = "pre"
      /\ UNCHANGED <<st, cnt, pre, nbytes, hist, addr, wire, out, sub>>
  BY DEF XmStart, dtVars, swVars
<1>2. st = "seen" /\ addr = 0 /\ nbytes > PreLen /\ Put = nbytes
  BY <1>1 DEF Inv, HandInv, LevelInv, Put
<1>3. /\ Len(hist) \in Nat /\ rp \in Nat /\ Put \in Nat /\ Len(hist) = rp + Put
      /\ Done \in Nat /\ PreLen \in Nat /\ Len(out) \in Nat
      /\ Done + 1 \in 1..Len(sub)
  BY <1>1, <1>2, TextFacts
<1>4. rp' = rp + 1 /\ data' = hist[rp + 1]
  <2>1. rp < Len(hist)
    BY <1>2, <1>3
  <2>2. QED
    BY <2>1 DEF XmStart, Pop
<1>5. Done = Len(out)
  BY <1>1, <1>2, <1>3 DEF Done, Begun
<1>6. Done' = Done
  BY DoneXmit DEF Transmitter
<1>7. \A j \in 1..nbytes : hist[rp + j] = LineByte(Len(out) + 1, j)
  BY <1>1, <1>2, <1>5 DEF TextInv, FifoText
<1>8. data' = LineByte(Len(out) + 1, 0 + 1)
  <2>1. 1 \in 1..nbytes
    BY <1>2, <1>3
  <2>2. QED
    BY <1>4, <1>7, <2>1
<1>9. \A j \in 1..nbytes - 0 - 1 :
        hist[rp' + j] = LineByte(Len(out) + 1, 0 + 1 + j)
  <2> SUFFICES ASSUME NEW j \in 1..nbytes - 0 - 1
               PROVE  hist[rp' + j] = LineByte(Len(out) + 1, 0 + 1 + j)
    OBVIOUS
  <2>1. 1 + j \in 1..nbytes /\ rp' + j = rp + (1 + j) /\ 0 + 1 + j = 1 + j
    BY <1>2, <1>3, <1>4
  <2>2. hist[rp + (1 + j)] = LineByte(Len(out) + 1, 1 + j)
    BY <1>7, <2>1
  <2>3. QED
    BY <2>1, <2>2
<1>10. WireText'
  <2>1. Len(out) + 1 <= Len(sub) /\ nbytes = PreLen + sub[Len(out) + 1]
    BY <1>2, <1>3, <1>5 DEF TextInv, FifoText
  <2>2. wire = <<>> /\ Len(wire) = 0
    BY <1>1 DEF TextInv, WireText
  <2>3. \A j \in 1..addr' : wire[j] = LineByte(Len(out) + 1, j)
    <3>1. \A j \in 1..addr' : FALSE
      BY <1>1, <1>2
    <3>2. QED
      BY <3>1
  <2>4. /\ data' = LineByte(Len(out) + 1, addr' + 1)
        /\ \A j \in 1..nbytes - addr' - 1 :
             hist[rp' + j] = LineByte(Len(out) + 1, addr' + 1 + j)
    BY <1>1, <1>2, <1>8, <1>9
  <2>5. Len(wire') = addr' /\ pc' = "pre"
    BY <1>1, <1>2, <2>2
  <2>6. QED
    BY <1>1, <2>1, <2>3, <2>4, <2>5 DEF WireText, LineByte
<1>11. FifoText' /\ OutInv'
  BY <1>1, <1>6 DEF TextInv, FifoText, OutInv
<1>12. QED
  BY <1>10, <1>11 DEF TextInv

(* The next byte of the frame on the line, and the one after it read.      *)
LEMMA TextByte ==
  ASSUME Inv, OrderInv, TextInv, pc \in {"pre", "data"}, addr + 1 < nbytes,
         pc' \in {"pre", "data"}, wire' = Append(wire, data), addr' = addr + 1,
         rp' = rp + 1, data' = hist[rp + 1],
         UNCHANGED <<st, nbytes, hist, out, sub>>, Done' = Done
  PROVE  TextInv'
<1> DEFINE f == Len(out) + 1
<1>1. /\ rp \in Nat /\ addr \in Nat /\ nbytes \in Nat /\ wire \in Seq(Byte)
      /\ Len(out) \in Nat
  BY TextFacts
<1>2. f \in Nat
  BY <1>1
<1> HIDE DEF f
<1>3. /\ f <= Len(sub) /\ nbytes = PreLen + sub[f]
      /\ Len(wire) = addr
      /\ \A j \in 1..addr : wire[j] = LineByte(f, j)
      /\ data = LineByte(f, addr + 1)
      /\ \A j \in 1..nbytes - addr - 1 : hist[rp + j] = LineByte(f, addr + 1 + j)
  BY DEF TextInv, WireText, f
<1>4. Len(wire') = addr'
  BY <1>1, <1>3
<1>5. \A j \in 1..addr' : wire'[j] = LineByte(f, j)
  BY <1>1, <1>3
<1>6. data' = LineByte(f, addr' + 1)
  <2>1. 1 \in 1..nbytes - addr - 1
    BY <1>1
  <2>2. QED
    BY <1>3, <2>1
<1>7. \A j \in 1..nbytes - addr' - 1 : hist[rp' + j] = LineByte(f, addr' + 1 + j)
  <2> SUFFICES ASSUME NEW j \in 1..nbytes - addr' - 1
               PROVE  hist[rp' + j] = LineByte(f, addr' + 1 + j)
    OBVIOUS
  <2>1. /\ 1 + j \in 1..nbytes - addr - 1 /\ rp' + j = rp + (1 + j)
        /\ addr' + 1 + j = addr + 1 + (1 + j)
    BY <1>1
  <2>2. hist[rp + (1 + j)] = LineByte(f, addr + 1 + (1 + j))
    BY <1>3, <2>1
  <2>3. QED
    BY <2>1, <2>2
<1>8. WireText'
  <2>1. f' = f
    BY DEF f
  <2>2. QED
    BY <1>3, <1>4, <1>5, <1>6, <1>7, <2>1 DEF WireText, LineByte, f
<1>9. FifoText' /\ OutInv'
  BY DEF TextInv, FifoText, OutInv
<1>10. QED
  BY <1>8, <1>9 DEF TextInv

(* The last byte of the frame. *)
LEMMA TextLast ==
  ASSUME Inv, OrderInv, TextInv, pc = "data", ~(addr + 1 < nbytes),
         pc' = "fcs", wire' = Append(wire, data), addr' = addr + 1,
         UNCHANGED <<st, nbytes, hist, out, sub>>, Done' = Done
  PROVE  TextInv'
<1> DEFINE f == Len(out) + 1
<1>1. addr \in Nat /\ nbytes \in Nat /\ wire \in Seq(Byte)
  BY TextFacts
<1>2. addr < nbytes
  BY DEF Inv, LevelInv
<1>3. /\ f <= Len(sub) /\ nbytes = PreLen + sub[f]
      /\ Len(wire) = addr
      /\ \A j \in 1..addr : wire[j] = LineByte(f, j)
      /\ data = LineByte(f, addr + 1)
  BY DEF TextInv, WireText, f
<1> HIDE DEF f
<1>4. Len(wire') = addr' /\ addr' = nbytes
  BY <1>1, <1>2, <1>3
<1>5. \A j \in 1..addr' : wire'[j] = LineByte(f, j)
  BY <1>1, <1>3
<1>6. WireText'
  <2>1. f' = f
    BY DEF f
  <2>2. QED
    BY <1>3, <1>4, <1>5, <2>1 DEF WireText, LineByte, f
<1>7. FifoText' /\ OutInv'
  BY DEF TextInv, FifoText, OutInv
<1>8. QED
  BY <1>6, <1>7 DEF TextInv

(* Preamble and payload on the line. *)
LEMMA TextLine ==
  ASSUME Inv, OrderInv, TextInv, XmPreamble \/ XmData
  PROVE  TextInv'
<1>1. /\ pc \in {"pre", "data"} /\ wire' = Append(wire, data) /\ addr' = addr + 1
      /\ UNCHANGED <<st, nbytes, hist, out, sub>>
  BY DEF XmPreamble, XmData, dtVars, swVars
<1>2. Done' = Done
  BY DoneXmit DEF Transmitter
<1>3. /\ rp \in Nat /\ addr \in Nat /\ nbytes \in Nat /\ PreLen \in Nat
  BY TextFacts
<1>4. nbytes > PreLen /\ Len(hist) = rp + (nbytes - addr - 1)
  BY <1>1 DEF Inv, LevelInv
<1>5. CASE addr + 1 < nbytes
  <2>1. rp < Len(hist)
    BY <1>3, <1>4, <1>5
  <2>2. Pop /\ pc' \in {"pre", "data"}
    BY <1>5 DEF XmPreamble, XmData
  <2>3. rp' = rp + 1 /\ data' = hist[rp + 1]
    BY <2>1, <2>2 DEF Pop
  <2>4. QED
    BY <1>1, <1>2, <1>5, <2>2, <2>3, TextByte
<1>6. CASE ~(addr + 1 < nbytes)
  <2>1. pc # "pre"
    <3>1. pc = "pre" => addr < PreLen
      BY DEF Inv, LevelInv
    <3>2. QED
      BY <1>3, <1>4, <1>6, <3>1
  <2>2. XmData /\ pc' = "fcs" /\ pc = "data"
    BY <1>6, <2>1 DEF XmPreamble, XmData
  <2>3. QED
    BY <1>1, <1>2, <1>6, <2>2, TextLast
<1>7. QED
  BY <1>5, <1>6

(* A sequence is the function it is. *)
LEMMA SequenceIsFunction ==
  ASSUME NEW S, NEW s \in Seq(S)
  PROVE  s = [i \in 1..Len(s) |-> s[i]]
OBVIOUS

(* At the end a station sees the frame whose turn it was, and no other.    *)
LEMMA SeenOwn ==
  ASSUME Inv, OrderInv, TextInv, pc = "fcs"
  PROVE  Seen(wire) = Len(out) + 1
<1> DEFINE f == Len(out) + 1
<1>1. /\ wire \in Seq(Byte) /\ PreLen \in Nat /\ Len(out) \in Nat
      /\ sub \in Seq(FrameLens) /\ Len(sub) \in Nat
  BY TextFacts
<1>2. /\ f <= Len(sub) /\ Len(wire) = PreLen + sub[f]
      /\ \A j \in 1..Len(wire) : wire[j] = LineByte(f, j)
  BY DEF TextInv, WireText
<1>3. f \in 1..Len(sub)
  BY <1>1, <1>2
<1> HIDE DEF f
<1>4. \A g \in 1..Len(sub) : sub[g] \in Nat \ {0}
  <2>1. \A g \in 1..Len(sub) : sub[g] \in FrameLens
    BY <1>1
  <2>2. QED
    BY <2>1, ConstFacts
<1>5. wire = FrameBytes(f)
  <2>1. wire = [i \in 1..Len(wire) |-> wire[i]]
    BY <1>1, SequenceIsFunction
  <2>2. wire = [i \in 1..Len(wire) |-> LineByte(f, i)]
    BY <1>2, <2>1, Zenon
  <2>3. QED
    BY <1>2, <2>2 DEF FrameBytes, LineByte
<1>6. ASSUME NEW g \in 1..Len(sub), wire = FrameBytes(g)
      PROVE  g = f
  <2> DEFINE i == PreLen + 1
  <2>1. i \in 1..PreLen + sub[g] /\ i \in 1..PreLen + sub[f] /\ ~(i <= PreLen)
        /\ i - PreLen = 1
    BY <1>1, <1>3, <1>4
  <2>2. FrameBytes(g)[i] = <<g, 1>> /\ FrameBytes(f)[i] = <<f, 1>>
    BY <2>1 DEF FrameBytes
  <2>3. <<g, 1>> = <<f, 1>>
    BY <1>5, <1>6, <2>2
  <2>4. QED
    BY <2>3
<1>7. (CHOOSE g \in 1..Len(sub) : wire = FrameBytes(g)) = f
  BY <1>3, <1>5, <1>6
<1>8. Seen(wire) = f
  BY <1>3, <1>5, <1>7 DEF Seen
<1>9. QED
  BY <1>8 DEF f

(* The end of a frame. *)
LEMMA TextEnd ==
  ASSUME Inv, OrderInv, TextInv, XmEnd
  PROVE  TextInv'
<1>1. /\ pc = "fcs" /\ pc' = "idle" /\ ~sendS /\ wire' = <<>>
      /\ out' = Append(out, Seen(wire))
      /\ UNCHANGED <<st, cnt, pre, nbytes, hist, rp, sub>>
  BY SendOver DEF XmEnd, dtVars, fifoVars, swVars
<1>2. Done' = Done
  BY DoneXmit DEF Transmitter
<1>3. st # "seen" /\ ~readyS
  BY <1>1 DEF Inv, HandInv
<1>4. st \notin {"ar", "rd"} /\ ~(st = "pre" /\ pre > 0)
  BY <1>3 DEF Inv, HandInv
<1>5. Put' = 0
  <2>1. pre \in Nat
    <3>1. PreLen \in Nat /\ pre \in 0..PreLen
      BY ConstFacts DEF Inv, TypeOK
    <3>2. QED
      BY <3>1
  <2>2. QED
    BY <1>1, <1>3, <1>4, <2>1 DEF Put
<1>6. FifoText'
  <2>1. \A j \in 1..Put' : FALSE
    BY <1>5
  <2>2. QED
    BY <1>1, <1>2, <1>3, <2>1 DEF TextInv, FifoText
<1>7. WireText'
  BY <1>1 DEF WireText
<1>8. OutInv'
  <2>1. out \in Seq(Nat) /\ Len(out) \in Nat
    BY DEF Inv, TypeOK
  <2>2. Seen(wire) = Len(out) + 1
    BY <1>1, SeenOwn
  <2>3. out' = Append(out, Len(out) + 1)
    BY <1>1, <2>2
  <2>4. QED
    BY <2>1, <2>3 DEF TextInv, OutInv
<1>9. QED
  BY <1>6, <1>7, <1>8 DEF TextInv

(* FIFO, line and frames seen in every step. *)
LEMMA TextStep ==
  ASSUME Inv, OrderInv, TextInv, [Next]_vars
  PROVE  TextInv'
<1>1. CASE TxPreamble \/ TxReadWord \/ TxSend
  BY <1>1, TextPreamble, TextReadWord, TextSend
<1>2. CASE Transmitter
  BY <1>2, TextStart, TextLine, TextEnd DEF Transmitter
<1>3. CASE SwFill
  <2>1. /\ UNCHANGED <<hist, rp, pc, addr, data, wire, out, nbytes, st, pre, cnt>>
        /\ \E n \in FrameLens : sub' = Append(sub, n)
    BY <1>3 DEF SwFill, dtVars, fifoVars, txVars
  <2>2. sub \in Seq(FrameLens) /\ Len(sub) \in Nat
    BY TextFacts
  <2>3. /\ Len(sub') = Len(sub) + 1 /\ Len(sub) <= Len(sub') /\ Len(sub') \in Nat
        /\ \A k \in 1..Len(sub) : sub'[k] = sub[k]
    BY <2>1, <2>2
  <2>4. Put' = Put
    BY <2>1 DEF Put
  <2>5. Done' = Done
    BY <2>1 DEF Done, Begun
  <2>6. QED
    BY <2>1, <2>3, <2>4, <2>5, TextKept
<1>4. CASE ~(TxPreamble \/ TxReadWord \/ TxSend \/ Transmitter \/ SwFill)
  <2>1. /\ UNCHANGED <<hist, rp, pc, addr, data, wire, out, nbytes, sub>>
        /\ Put' = 0 \/ UNCHANGED <<st, pre, cnt>> \/ TxIssueBurst
        /\ st' = "stat" => st \in {"seen", "stat"}
        /\ st' = "seen" => st = "seen"
        /\ TxWriteStatus => st' = "bd"
    BY <1>4
       DEF Next, DataTransfer, TxReadBd, TxReadPtr, TxIssueBurst, TxSeen,
           TxWriteStatus, TxResync, SyncSend, SyncReady, SyncRead, Driver,
           SwReady, SwReclaim, SwStop, SwSetBdNum, SwInitBd, vars, dtVars,
           fifoVars, txVars, swVars, Put
  <2>2. Put' = 0 \/ Put' = Put
    BY <2>1 DEF TxIssueBurst, Put
  <2>3. ~TxWriteStatus => Done' = Done
    BY TurnKept
  <2>4. TxWriteStatus => Put' = 0
    BY <2>1 DEF Put
  <2>5. Len(sub) \in Nat
    BY TextFacts
  <2>6. QED
    BY <2>1, <2>2, <2>3, <2>4, <2>5, TextKept
<1>5. QED
  BY <1>1, <1>2, <1>3, <1>4

(* All the invariants together. *)
TxInv == Inv /\ OrderInv /\ TextInv

(* The ring in the order of submission; FIFO and line hold the frame whose *)
(* turn it is.                                                             *)
THEOREM OrderInvariant ==
  ASSUME MaxReinit <= 1
  PROVE  Spec => []TxInv
<1>1. Init => OrderInv /\ TextInv
  <2> SUFFICES ASSUME Init PROVE OrderInv /\ TextInv
    OBVIOUS
  <2>1. Put = 0 /\ Len(out) = 0 /\ pc = "idle" /\ wire = <<>> /\ st = "bd"
    BY DEF Init, Put
  <2>2. /\ \A j \in 1..Put : FALSE
        /\ \A j \in 1..Len(out) : FALSE
    BY <2>1
  <2>3. TextInv
    BY <2>1, <2>2 DEF TextInv, FifoText, WireText, OutInv
  <2>4. QED
    BY <2>3, OrderInit
<1>2. Inv /\ Inv' /\ OrderInv /\ TextInv /\ [Next]_vars => OrderInv' /\ TextInv'
  BY OrderStep, TextStep
<1>3. Spec => []Inv
  BY Invariance
<1>4. QED
  BY <1>1, <1>2, <1>3, PTL DEF Spec, TxInv

-----------------------------------------------------------------------------
(* A buffer that is being read is not written: the driver, on one CPU,     *)
(* writes only behind the descriptors in use (iob_eth_dt.v:351-412 against *)
(* ethoc_start_xmit).                                                      *)
THEOREM BufferKeptTheorem ==
  ASSUME MaxReinit <= 1
  PROVE  Spec => BufferKept
<1>1. TxInv /\ [Next]_vars => [(st \in {"ar", "rd"}) => mem'[buf] = mem[buf]]_vars
  <2> SUFFICES ASSUME TxInv, Next, st \in {"ar", "rd"}
               PROVE  mem'[buf] = mem[buf]
    BY DEF vars
  <2>1. CASE SwFill
    <3>1. /\ mem' = [mem EXCEPT ![cur % num] = Len(sub) + 1] /\ sw = "run"
          /\ ~(cur - dty >= num)
      BY <2>1 DEF SwFill, RingFull
    <3>2. /\ Done \in Nat /\ cur \in Nat /\ dty \in Nat /\ dty <= Done
          /\ num \in Nat /\ mem \in [Bd -> Nat]
          /\ \A k \in Nat : At(k) = k % num /\ At(k) \in Bd
      BY RingFacts DEF TxInv, Inv
    <3>3. buf = At(Done) /\ Done < cur
      BY DEF TxInv, OrderInv, WorkInv, TurnInv
    <3>4. cur < Done + num
      BY <3>1, <3>2
    <3>5. At(Done) # At(cur)
      BY <3>2, <3>3, <3>4, AtFacts DEF TxInv, Inv
    <3>6. At(cur) = cur % num
      BY <3>2
    <3>7. QED
      BY <3>1, <3>3, <3>5, <3>6
  <2>2. CASE ~SwFill
    <3>1. mem' = mem
      BY <2>2
         DEF Next, DataTransfer, TxReadBd, TxReadPtr, TxPreamble, TxIssueBurst,
             TxSend, TxReadWord, TxSeen, TxWriteStatus, TxResync, SyncSend,
             SyncReady, SyncRead, Transmitter, XmStart, XmPreamble, XmData,
             XmEnd, Driver, SwReady, SwReclaim, SwStop, SwSetBdNum, SwInitBd
    <3>2. QED
      BY <3>1
  <2>3. QED
    BY <2>1, <2>2
<1>2. QED
  BY <1>1, OrderInvariant, PTL DEF Spec, BufferKept

(* The status that is written (iob_eth_dt.v:423-447) is that of the frame  *)
(* last put into the FIFO, with the driver on one CPU.                     *)
THEOREM StatusOfOwnFrameTheorem ==
  ASSUME MaxReinit <= 1
  PROVE  Spec => StatusOfOwnFrame
<1>1. TxInv /\ [Next]_vars =>
        [st = "stat" /\ st' = "bd" => mem[bdn] = hist[Len(hist)][1]]_vars
  <2> SUFFICES ASSUME TxInv, st = "stat"
               PROVE  mem[bdn] = hist[Len(hist)][1]
    OBVIOUS
  <2>1. hist[Len(hist)][1] = Done + 1
    BY DEF TxInv, TextInv, FifoText
  <2>2. bdn = At(Done) /\ Done < cur
    BY DEF TxInv, OrderInv, TurnInv, WorkInv
  <2>3. Done \in Nat /\ cur \in Nat
    BY RingFacts DEF TxInv, Inv
  <2>4. Done \in Done..cur - 1
    BY <2>2, <2>3
  <2>5. mem[At(Done)] = Done + 1
    BY <2>4 DEF TxInv, OrderInv, SlotsInv
  <2>6. QED
    BY <2>1, <2>2, <2>5
<1>2. QED
  BY <1>1, OrderInvariant, PTL DEF Spec, StatusOfOwnFrame

-----------------------------------------------------------------------------
(* The refinement. *)

(* Every frame the driver takes enters the channel undamaged. *)
Entered == [f \in 1..Len(sub) |-> TRUE]

(* A longer row of the same value is the row with the value appended. *)
LEMMA RowGrows ==
  ASSUME NEW n \in Nat
  PROVE  [f \in 1..n + 1 |-> TRUE] = Append([f \in 1..n |-> TRUE], TRUE)
<1> DEFINE row == [f \in 1..n |-> TRUE]
<1>1. row \in Seq(BOOLEAN) /\ Len(row) = n /\ \A f \in 1..n : row[f] = TRUE
  OBVIOUS
<1> DEFINE long == Append(row, TRUE)
<1>2. /\ long \in Seq(BOOLEAN) /\ Len(long) = n + 1
      /\ \A f \in 1..n + 1 : long[f] = TRUE
  BY <1>1
<1> HIDE DEF long
<1>3. long = [f \in 1..Len(long) |-> long[f]]
  BY <1>2, SequenceIsFunction
<1>4. long = [f \in 1..n + 1 |-> TRUE]
  BY <1>2, <1>3, Zenon
<1>5. QED
  BY <1>4 DEF long

(* Every step is a step of the channel, or none of its business. *)
LEMMA ChannelStep ==
  ASSUME TxInv, [Next]_vars
  PROVE  [Channel!Next]_(Channel!vars)
<1> USE DEF TxInv
<1>1. /\ Len(sub) \in Nat /\ sub \in Seq(FrameLens) /\ Len(out) \in Nat
      /\ out \in Seq(Nat)
  BY TextFacts DEF Inv, TypeOK
<1>2. CASE SwFill
  <2>1. out' = out /\ \E n \in FrameLens : sub' = Append(sub, n)
    BY <1>2 DEF SwFill, txVars
  <2>2. Len(sub') = Len(sub) + 1
    BY <1>1, <2>1
  <2>3. Entered' = Append(Entered, TRUE)
    BY <1>1, <2>2, RowGrows, Zenon DEF Entered
  <2>4. Channel!Enter
    BY <2>1, <2>3 DEF Channel!Enter, Entered
  <2>5. QED
    BY <2>4 DEF Channel!Next
<1>3. CASE XmEnd
  <2>1. pc = "fcs" /\ out' = Append(out, Seen(wire)) /\ sub' = sub
    BY <1>3 DEF XmEnd, swVars
  <2> DEFINE f == Len(out) + 1
  <2>2. Seen(wire) = f
    BY <2>1, SeenOwn
  <2>3. f <= Len(sub)
    BY <2>1 DEF TextInv, WireText
  <2>4. f \in 1..Len(sub)
    BY <1>1, <2>3
  <2>5. \A i \in 1..Len(out) : out[i] < f
    <3>1. \A i \in 1..Len(out) : out[i] = i
      BY DEF TextInv, OutInv
    <3>2. \A i \in 1..Len(out) : i < f
      BY <1>1
    <3>3. QED
      BY <3>1, <3>2
  <2> HIDE DEF f
  <2>6. Entered' = Entered
    BY <2>1 DEF Entered
  <2>7. DOMAIN Entered = 1..Len(sub) /\ Entered[f]
    BY <2>4 DEF Entered
  <2>8. DOMAIN out = 1..Len(out)
    BY <1>1
  <2>9. out' = Append(out, f)
    BY <2>1, <2>2
  <2>10. Channel!Deliver
    BY <2>4, <2>5, <2>6, <2>7, <2>8, <2>9, Zenon DEF Channel!Deliver, Entered
  <2>11. QED
    BY <2>10 DEF Channel!Next
<1>4. CASE ~SwFill /\ ~XmEnd
  <2>1. sub' = sub /\ out' = out
    BY <1>4
       DEF Next, DataTransfer, TxReadBd, TxReadPtr, TxPreamble, TxIssueBurst,
           TxSend, TxReadWord, TxSeen, TxWriteStatus, TxResync, SyncSend,
           SyncReady, SyncRead, Transmitter, XmStart, XmPreamble, XmData,
           Driver, SwReady, SwReclaim, SwStop, SwSetBdNum, SwInitBd, vars,
           txVars, swVars
  <2>2. QED
    BY <2>1 DEF Channel!vars
<1>5. QED
  BY <1>2, <1>3, <1>4

(* From the ring's initialisation on, the driver on one CPU and the        *)
(* transmit path put whole frames on the line, in the order in which they  *)
(* were submitted and none twice, whatever the lag of the FIFO's flags,    *)
(* for every delay of the handshake that ends before the frame does, and   *)
(* however driver, Data Transfer block and transmitter interleave.         *)
THEOREM TransmitPathIsChannel ==
  ASSUME MaxReinit <= 1
  PROVE  Spec => InOrderOnce
<1>1. Init => Channel!Init
  <2> SUFFICES ASSUME Init PROVE Channel!Init
    OBVIOUS
  <2>1. out = <<>> /\ Len(sub) = 0
    BY DEF Init
  <2>2. [f \in 1..Len(sub) |-> TRUE] = <<>>
    BY <2>1
  <2>3. QED
    BY <2>1, <2>2 DEF Channel!Init
<1>2. TxInv /\ [Next]_vars => [Channel!Next]_(Channel!vars)
  BY ChannelStep
<1>3. QED
  BY <1>1, <1>2, OrderInvariant, PTL DEF Spec, InOrderOnce, Channel!Spec

=============================================================================
