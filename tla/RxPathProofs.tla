---------------------------- MODULE RxPathProofs ----------------------------
(***************************************************************************)
(* Machine-checked proofs about RxPath, for all values of the constants    *)
(* for which frames are short enough for the byte counter (LegalFrames):   *)
(* the byte stream and the stream of info words never come apart, a frame  *)
(* is delivered whole, and RxPath implements FrameChannel.                 *)
(***************************************************************************)
EXTENDS RxPath, TLAPS

Word == [start: Nat, len: 0..LenMod-1, bad: BOOLEAN]

-----------------------------------------------------------------------------
(* Lemmas on the operators the actions are built from. *)

(* An element of a sequence over S is in S. *)
LEMMA ElementType ==
  ASSUME NEW S, NEW s \in Seq(S), NEW i \in 1..Len(s)
  PROVE  s[i] \in S
OBVIOUS

(* The frame on the line is one of the frames sent. *)
LEMMA CurrentFrame ==
  ASSUME LineType, LineInv, dv = TRUE
  PROVE  /\ sent[Len(sent)] \in [n: FrameLens, good: BOOLEAN]
         /\ sent[Len(sent)].n \in FrameLens
         /\ sent[Len(sent)].n \in Nat
         /\ pos <= sent[Len(sent)].n
<1>1. Len(sent) > 0 /\ pos <= sent[Len(sent)].n
  BY DEF LineInv
<1>2. Len(sent) \in 1..Len(sent)
  BY <1>1 DEF LineType
<1>3. sent[Len(sent)] \in [n: FrameLens, good: BOOLEAN]
  BY <1>2, ElementType DEF LineType
<1>4. \A r \in [n: FrameLens, good: BOOLEAN] : r.n \in FrameLens
  OBVIOUS
<1>5. FrameLens \subseteq Nat
  BY ConstAssumption DEF ConstAssumption
<1>6. QED
  BY <1>1, <1>3, <1>4, <1>5, Zenon

(* A step of the line keeps its position inside the frame it carries, and  *)
(* moves on by at most one byte.                                           *)
LEMMA LineStep ==
  ASSUME LineType, LineInv, LineNext
  PROVE  /\ LineType' /\ LineInv'
         /\ dv' => IF dv THEN pos' = pos + 1 ELSE pos' = 0
<1> USE DEF LineType, LineInv
<1>1. CASE ~dv /\ UNCHANGED lineVars
  BY <1>1 DEF lineVars
<1>2. CASE /\ ~dv
           /\ \E n \in FrameLens, good \in BOOLEAN :
                sent' = Append(sent, [n |-> n, good |-> good])
           /\ dv' = TRUE
           /\ pos' = 0
  <2>1. PICK n \in FrameLens, good \in BOOLEAN :
               sent' = Append(sent, [n |-> n, good |-> good])
    BY <1>2
  <2>2. n \in Nat
    BY ConstAssumption DEF ConstAssumption
  <2>3. sent' \in Seq([n: FrameLens, good: BOOLEAN])
    BY <2>1
  <2>4. Len(sent') = Len(sent) + 1 /\ sent'[Len(sent')].n = n
    BY <2>1
  <2>5. QED
    BY <1>2, <2>2, <2>3, <2>4
<1>3. CASE /\ dv
           /\ pos < sent[Len(sent)].n
           /\ pos' = pos + 1
           /\ UNCHANGED <<sent, dv>>
  <2>1. dv = TRUE
    BY <1>3
  <2>2. sent[Len(sent)].n \in Nat
    BY <2>1, CurrentFrame
  <2>3. LineType' /\ (dv' <=> dv) /\ dv
    BY <1>3
  <2>4. LineInv'
    BY <1>3, <2>2
  <2>5. QED
    BY <1>3, <2>3, <2>4
<1>4. CASE dv /\ dv' = FALSE /\ pos' = 0 /\ UNCHANGED sent
  BY <1>4
<1>5. QED
  BY <1>1, <1>2, <1>3, <1>4 DEF LineNext

(* With legal frames no byte that is accepted makes the counter wrap. *)
LEMMA NoWrap ==
  ASSUME LegalFrames, LineType, LineInv, RxType, AddrInv, pc \in {"da", "pay"}
  PROVE  addr + 1 < LenMod /\ (addr + 1) % LenMod = addr + 1
<1>0. LenMod \in Nat /\ DaLen \in Nat \ {0} /\ DaLen + 1 < LenMod /\ addr \in Nat
  BY ConstAssumption DEF ConstAssumption, RxType
<1>1. addr + 1 < LenMod
  <2>1. CASE pc = "da"
    BY <2>1, <1>0 DEF AddrInv
  <2>2. CASE pc = "pay" /\ ~dv
    BY <2>2, <1>0 DEF AddrInv
  <2>3. CASE pc = "pay" /\ dv
    <3>1. dv = TRUE
      BY <2>3 DEF LineType
    <3>2. PICK n \in FrameLens : n = sent[Len(sent)].n /\ pos <= n
      BY <3>1, CurrentFrame
    <3>3. n \in Nat /\ n + DaLen + 2 < LenMod
      BY ConstAssumption DEF LegalFrames, ConstAssumption
    <3>4. pos \in Nat
      BY DEF LineType
    <3>5. addr <= DaLen + pos + 1
      BY <2>3, <3>1 DEF AddrInv
    <3>6. QED
      BY <1>0, <3>2, <3>3, <3>4, <3>5
  <2>4. QED
    BY <2>1, <2>2, <2>3
<1>2. QED
  BY <1>0, <1>1

(* What accepting or dropping the byte on the line does to the FIFO. *)
LEMMA AcceptStep ==
  ASSUME LegalFrames, LineType, LineInv, RxType, AddrInv, FifoType,
         pc \in {"da", "pay"}, AcceptByte, rseen <= Len(hist),
         Len(hist) <= rseen + Depth
  PROVE  /\ hist' \in Seq(Byte)
         /\ addr' \in 0..LenMod-1
         /\ Len(hist') = Len(hist) + (addr' - addr)
         /\ addr' = addr \/ addr' = addr + 1
         /\ Len(hist) <= Len(hist')
         /\ Len(hist') <= rseen + Depth
<1>1. addr \in 0..LenMod-1 /\ Len(hist) \in Nat /\ Depth \in Nat /\ rseen \in Nat
      /\ LenMod \in Nat
  BY ConstAssumption DEF RxType, FifoType, ConstAssumption
<1>2. CASE WFull
  BY <1>1, <1>2 DEF AcceptByte, FifoType
<1>3. CASE ~WFull
  <2>1. hist' = Append(hist, LineByte) /\ addr' = addr + 1 /\ addr + 1 < LenMod
    BY <1>3, NoWrap DEF AcceptByte
  <2>2. LineByte \in Byte
    BY DEF LineByte, Byte, Junk, LineType
  <2>3. hist' \in Seq(Byte) /\ Len(hist') = Len(hist) + 1
    BY <2>1, <2>2 DEF FifoType
  <2>4. Len(hist) < rseen + Depth
    BY <1>1, <1>3 DEF WFull
  <2>5. QED
    BY <1>1, <2>1, <2>3, <2>4
<1>4. QED
  BY <1>2, <1>3

(* The descriptor after one of the ring is in the ring memory. *)
LEMMA NextRxBdType ==
  ASSUME base \in Bd, bdn \in Bd
  PROVE  NextRxBd \in Bd
BY ConstAssumption DEF NextRxBd, Bd, ConstAssumption

(* The driver stays within the ring. *)
LEMMA NextCurRxType ==
  ASSUME RingType
  PROVE  NextCurRx \in base..last /\ swcur \in Bd
BY ConstAssumption DEF NextCurRx, RingType, Bd, ConstAssumption

(* What the driver writes: a full descriptor is given back with its WRAP   *)
(* bit, a descriptor of a new ring gets its own.                           *)
LEMMA GivenBack ==
  ASSUME RingType, SwReceive
  PROVE  /\ bds' \in [Bd -> Desc]
         /\ bds'[swcur].e /\ bds'[swcur].wrap = bds[swcur].wrap
         /\ \A b \in Bd : b # swcur => bds'[b] = bds[b]
<1>1. bds \in [Bd -> Desc] /\ swcur \in Bd
  BY NextCurRxType DEF RingType
<1>2. bds' = [bds EXCEPT ![swcur].e = TRUE, ![swcur].bad = FALSE]
  BY DEF SwReceive
<1>3. bds[swcur] \in Desc
  BY <1>1
<1> DEFINE d == [[bds[swcur] EXCEPT !.e = TRUE] EXCEPT !.bad = FALSE]
<1>4. d \in Desc /\ d.e /\ d.wrap = bds[swcur].wrap
  BY <1>3 DEF Desc
<1>5. bds' = [bds EXCEPT ![swcur] = d]
  BY <1>1, <1>2
<1> HIDE DEF d
<1>6. QED
  BY <1>1, <1>4, <1>5

LEMMA Initialised ==
  ASSUME RingType, SwInitBd
  PROVE  /\ bds' \in [Bd -> Desc]
         /\ bds'[swcur].e /\ bds'[swcur].wrap = (swcur = last)
         /\ \A b \in Bd : b # swcur => bds'[b] = bds[b]
<1> DEFINE d == [e |-> TRUE, wrap |-> swcur = last, len |-> 0, bad |-> FALSE]
<1>1. bds \in [Bd -> Desc] /\ swcur \in Bd
  BY NextCurRxType DEF RingType
<1>2. bds' = [bds EXCEPT ![swcur] = d]
  BY DEF SwInitBd
<1>3. 0 \in 0..LenMod-1
  BY ConstAssumption DEF ConstAssumption
<1>4. d \in Desc /\ d.e /\ d.wrap = (swcur = last)
  BY <1>3 DEF Desc
<1> HIDE DEF d
<1>5. QED
  BY <1>1, <1>2, <1>4

(* rx_buffer_diff is the number of bytes still to be transferred. *)
LEMMA DiffIsRest ==
  ASSUME DtType, cnt <= len
  PROVE  Diff = len - cnt
<1>1. LenMod \in Nat /\ LenMod > 0 /\ len \in 0..LenMod-1 /\ cnt \in 0..LenMod-1
  BY ConstAssumption DEF ConstAssumption, DtType
<1>2. cnt % LenMod = cnt
  BY <1>1
<1>3. len - cnt \in 0..LenMod-1
  BY <1>1
<1>4. len + LenMod - cnt = (len - cnt) + LenMod
  BY <1>1
<1>5. \A x \in 0..LenMod-1 : (x + LenMod) % LenMod = x
  BY <1>1
<1>6. QED
  BY <1>2, <1>3, <1>4, <1>5 DEF Diff

(* What the constants are, where only that is needed. *)
LEMMA ConstantTypes ==
  /\ LenMod \in Nat /\ LenMod > DaLen + 1
  /\ DaLen \in Nat /\ DaLen > 0
  /\ Depth \in Nat /\ InfoDepth \in Nat
  /\ MaxBurst \in Nat /\ MaxBurst > 0
  /\ 0 \in Bd /\ ResetBase \in Bd /\ LastBd \in Bd
  /\ Bases \subseteq Bd /\ Lasts \subseteq Bd
BY ConstAssumption DEF ConstAssumption, Bd

(* Arithmetic the SMT backend finds only for bound variables. *)
LEMMA Slack == \A a, d, p \in Nat : a <= d => a <= d + p + 1
OBVIOUS

(* Where the read position is while byte c of a frame of l bytes that      *)
(* begins after position s is being written.                               *)
LEMMA Reading ==
  \A s, c, l, p, h \in Nat :
    p = s + c + 1 /\ c < l /\ s + l <= h =>
      /\ p \in 1..h
      /\ c + 1 < l => p < h /\ p + 1 = s + (c + 1) + 1
      /\ ~(c + 1 < l) => c + 1 = l /\ p = s + l
OBVIOUS

(* A frame that is not empty begins before the end of the stream. *)
LEMMA Inside ==
  \A s, l, h \in Nat : l > 0 /\ s + l <= h => s < h
OBVIOUS

(* The words left of a burst stay within the frame. *)
LEMMA Remaining ==
  \A b, c, l \in Nat :
    b > 0 /\ b <= l - c => b - 1 <= l - (c + 1) /\ (b # 1 => b - 1 > 0)
OBVIOUS

(* The empty sequence. *)
LEMMA EmptySeq == ASSUME NEW S PROVE <<>> \in Seq(S)
OBVIOUS

(* What Append leaves alone and what it adds. *)
LEMMA AppendFacts ==
  ASSUME NEW S, NEW s \in Seq(S), NEW e \in S
  PROVE  /\ Append(s, e) \in Seq(S)
         /\ Len(Append(s, e)) = Len(s) + 1
         /\ \A i \in 1..Len(s) : Append(s, e)[i] = s[i]
         /\ Append(s, e)[Len(s) + 1] = e
OBVIOUS

-----------------------------------------------------------------------------
(* Each action preserves the inductive invariant.  The receiver's actions: *)

(* Hunting for the SFD. *)
LEMMA RxHuntStep ==
  ASSUME Aligned, RxHunt
  PROVE  Aligned'
<1> USE DEF Aligned, RxHunt
<1>1. LineType' /\ LineInv'
  BY LineStep DEF TypeOK
<1>2. RxType' /\ AddrInv'
  BY ConstantTypes DEF TypeOK, RxType, AddrInv
<1>3. FifoType' /\ DtType' /\ RingType'
  BY DEF TypeOK, FifoType, DtType, RingType, fifoVars, dtVars, swVars
<1>4. LengthTrue' /\ FramesInv'
  BY DEF LengthTrue, FramesInv, FrameEnd, fifoVars, AddrInv
<1>5. PointerInv' /\ TransferInv' /\ BufferInv'
  BY DEF PointerInv, TransferInv, BufferInv, FrameEnd, fifoVars, dtVars
<1>6. QED
  BY <1>1, <1>2, <1>3, <1>4, <1>5 DEF TypeOK

(* The part of the invariant that accepting a byte can disturb outside of  *)
(* the receiver.                                                           *)
LEMMA AcceptKeeps ==
  ASSUME LegalFrames, Aligned, AcceptByte, pc \in {"da", "pay"},
         UNCHANGED <<crcFrom, rp, rseen, info, ird, pseen, iseen, dtVars,
                     resync, bds, mem, swVars>>
  PROVE  /\ FifoType' /\ DtType' /\ RingType'
         /\ LengthTrue' /\ FramesInv'
         /\ PointerInv' /\ TransferInv' /\ BufferInv'
         /\ addr' \in 0..LenMod-1
         /\ addr' = addr \/ addr' = addr + 1
<1> USE DEF Aligned
<1>1. /\ hist' \in Seq(Byte)
      /\ addr' \in 0..LenMod-1
      /\ Len(hist') = Len(hist) + (addr' - addr)
      /\ addr' = addr \/ addr' = addr + 1
      /\ Len(hist) <= Len(hist')
      /\ Len(hist') <= rseen + Depth
  <2>1. rseen <= Len(hist) /\ Len(hist) <= rseen + Depth
    BY DEF PointerInv, TypeOK, FifoType
  <2>2. QED
    BY <2>1, AcceptStep DEF TypeOK
<1>2. addr \in Nat /\ crcFrom \in Nat /\ Len(hist) \in Nat /\ rp \in Nat
      /\ Len(hist') \in Nat /\ addr' \in Nat
  BY <1>1, ConstantTypes DEF TypeOK, RxType, FifoType
<1>3. FifoType' /\ DtType' /\ RingType'
  BY <1>1 DEF TypeOK, FifoType, DtType, RingType, dtVars, swVars
<1>4. LengthTrue' /\ FramesInv'
  <2>1. Len(hist') = crcFrom' + addr'
    BY <1>1, <1>2 DEF LengthTrue
  <2>2. /\ \A i \in 1..Len(info') : info'[i].start = FrameEnd(i - 1)'
        /\ crcFrom' = FrameEnd(Len(info))'
    BY DEF LengthTrue, FrameEnd
  <2>3. FramesInv'
    BY DEF FramesInv, FrameEnd
  <2>4. QED
    BY <2>1, <2>2, <2>3 DEF LengthTrue
<1>5. PointerInv'
  BY <1>1, <1>2 DEF PointerInv
<1>6. TransferInv' /\ BufferInv'
  BY DEF TransferInv, BufferInv, FrameEnd, dtVars
<1>7. QED
  BY <1>1, <1>3, <1>4, <1>5, <1>6

(* The destination address. *)
LEMMA RxDestStep ==
  ASSUME LegalFrames, Aligned, RxDest
  PROVE  Aligned'
<1>1. LineType' /\ LineInv'
  BY LineStep DEF TypeOK, RxDest, Aligned
<1>2. /\ FifoType' /\ DtType' /\ RingType'
      /\ LengthTrue' /\ FramesInv'
      /\ PointerInv' /\ TransferInv' /\ BufferInv'
      /\ addr' \in 0..LenMod-1
      /\ addr' = addr \/ addr' = addr + 1
  BY AcceptKeeps DEF RxDest
<1>3. RxType'
  BY <1>2 DEF Aligned, TypeOK, RxType, RxDest
<1>4. AddrInv'
  <2>1. addr \in Nat /\ addr < DaLen /\ DaLen \in Nat
    BY ConstantTypes DEF Aligned, TypeOK, RxType, AddrInv, RxDest
  <2>2. addr' <= DaLen /\ addr' \in Nat
    BY <1>2, <2>1, ConstantTypes
  <2>3. CASE addr' = DaLen
    <3>1. pc' = "pay"
      BY <2>3 DEF RxDest
    <3>2. pos' \in Nat
      BY <1>1 DEF LineType
    <3>3. addr' <= DaLen + pos' + 1
      BY <2>1, <2>2, <3>2, Slack
    <3>4. QED
      BY <2>1, <2>2, <2>3, <3>1, <3>3 DEF AddrInv
  <2>4. CASE addr' # DaLen
    BY <2>4, <2>1, <2>2, <1>2 DEF AddrInv, RxDest
  <2>5. QED
    BY <2>3, <2>4
<1>5. QED
  BY <1>1, <1>2, <1>3, <1>4 DEF Aligned, TypeOK

(* A byte of the payload, or the end of the frame. *)
LEMMA RxPayloadStep ==
  ASSUME LegalFrames, Aligned, RxPayload
  PROVE  Aligned'
<1>1. /\ LineType' /\ LineInv'
      /\ dv' => IF dv THEN pos' = pos + 1 ELSE pos' = 0
  BY LineStep DEF TypeOK, RxPayload, Aligned
<1>2. /\ FifoType' /\ DtType' /\ RingType'
      /\ LengthTrue' /\ FramesInv'
      /\ PointerInv' /\ TransferInv' /\ BufferInv'
      /\ addr' \in 0..LenMod-1
      /\ addr' = addr \/ addr' = addr + 1
  BY AcceptKeeps DEF RxPayload
<1>3. RxType'
  BY <1>2 DEF Aligned, TypeOK, RxType, RxPayload
<1>4. AddrInv'
  <2>1. /\ addr \in Nat /\ addr >= DaLen /\ DaLen \in Nat /\ pos \in Nat
        /\ dv => addr <= DaLen + pos + 1
        /\ ~dv => addr = DaLen
    BY ConstantTypes
       DEF Aligned, TypeOK, RxType, LineType, AddrInv, RxPayload
  <2>2. addr' >= DaLen /\ addr' \in Nat
    BY <1>2, <2>1, ConstantTypes
  <2>3. CASE dv'
    <3>1. pc' = "pay"
      BY <2>3 DEF RxPayload
    <3>2. CASE dv
      <4>1. pos' = pos + 1 /\ addr <= DaLen + pos + 1
        BY <1>1, <2>1, <2>3, <3>2
      <4>2. addr' <= DaLen + pos' + 1
        BY <1>2, <2>1, <4>1
      <4>3. QED
        BY <2>2, <2>3, <3>1, <4>2 DEF AddrInv
    <3>3. CASE ~dv
      <4>1. pos' = 0 /\ addr = DaLen
        BY <1>1, <2>1, <2>3, <3>3
      <4>2. addr' <= DaLen + pos' + 1
        BY <1>2, <2>1, <4>1
      <4>3. QED
        BY <2>2, <2>3, <3>1, <4>2 DEF AddrInv
    <3>4. QED
      BY <3>2, <3>3
  <2>4. CASE ~dv'
    BY <2>4, <2>2 DEF AddrInv, RxPayload
  <2>5. QED
    BY <2>3, <2>4
<1>5. QED
  BY <1>1, <1>2, <1>3, <1>4 DEF Aligned, TypeOK

(* Length and verdict of a frame into the info FIFO. *)
LEMMA RxPushStep ==
  ASSUME Aligned, RxPush
  PROVE  Aligned'
<1> DEFINE w == [start |-> crcFrom, len |-> addr,
                 bad |-> ~CrcOk(SubSeq(hist, crcFrom + 1, Len(hist)))]
<1>1. /\ info \in Seq(Word) /\ crcFrom \in Nat /\ addr \in 0..LenMod-1
      /\ Len(hist) \in Nat /\ Len(info) \in Nat /\ pseen \in Nat
      /\ iseen \in Nat /\ ird \in Nat
  BY DEF Aligned, TypeOK, FifoType, RxType, Word
<1>2. w \in Word
  BY <1>1 DEF Word
<1>3. info' = Append(info, w)
  BY DEF RxPush
<1> HIDE DEF w
<1>4. /\ info' \in Seq(Word) /\ Len(info') = Len(info) + 1
      /\ \A i \in 1..Len(info) : info'[i] = info[i]
      /\ info'[Len(info) + 1] = w
  BY <1>1, <1>2, <1>3, AppendFacts
<1>5. w.start = crcFrom /\ w.len = addr /\ addr \in Nat /\ addr > 0
  BY <1>1, ConstantTypes DEF w, Aligned, AddrInv, RxPush
<1>6. /\ \A i \in 0..Len(info) : FrameEnd(i)' = FrameEnd(i)
      /\ FrameEnd(Len(info))' = crcFrom + addr
      /\ \A i \in 1..Len(info') :
           i = Len(info) + 1 => FrameEnd(i)' = crcFrom + addr
  <2>1. ASSUME NEW i \in 0..Len(info)
        PROVE  FrameEnd(i)' = FrameEnd(i)
    BY <1>1, <1>4, <2>1 DEF FrameEnd
  <2>2. FrameEnd(Len(info))' = crcFrom + addr
    BY <1>1, <1>4, <1>5 DEF FrameEnd
  <2>3. ASSUME NEW i \in 1..Len(info'), i = Len(info) + 1
        PROVE  FrameEnd(i)' = crcFrom + addr
    BY <1>1, <1>4, <1>5, <2>3 DEF FrameEnd
  <2>4. QED
    BY <2>1, <2>2, <2>3
<1>7. crcFrom' = crcFrom + addr /\ crcFrom' = Len(hist) /\ addr' = 0
      /\ hist' = hist
  BY DEF RxPush, Aligned, LengthTrue
<1>8. TypeOK'
  <2>1. LineType' /\ DtType' /\ RingType'
    BY DEF Aligned, RxPush, TypeOK, LineType, DtType, RingType, lineVars,
           dtVars, swVars
  <2>2. RxType'
    BY <1>1, <1>7, ConstantTypes DEF RxPush, RxType
  <2>3. FifoType'
    <3>1. info' \in Seq([start: Nat, len: 0..LenMod-1, bad: BOOLEAN])
      BY <1>4 DEF Word
    <3>2. UNCHANGED <<hist, rp, rseen, ird, pseen, iseen>>
      BY DEF RxPush
    <3>3. QED
      BY <3>1, <3>2 DEF Aligned, TypeOK, FifoType
  <2>4. QED
    BY <2>1, <2>2, <2>3 DEF TypeOK
<1>9. LineInv' /\ AddrInv'
  BY DEF Aligned, RxPush, LineInv, AddrInv, lineVars
<1>10. LengthTrue'
  <2>1. ASSUME NEW i \in 1..Len(info')
        PROVE  info'[i].start = FrameEnd(i - 1)'
    <3>1. CASE i \in 1..Len(info)
      <4>1. i - 1 \in 0..Len(info)
        BY <1>1, <3>1
      <4>2. FrameEnd(i - 1)' = FrameEnd(i - 1)
        BY <1>6, <4>1
      <4>3. info'[i] = info[i] /\ info[i].start = FrameEnd(i - 1)
        BY <1>4, <3>1 DEF Aligned, LengthTrue
      <4>4. QED
        BY <4>2, <4>3
    <3>2. CASE i = Len(info) + 1
      BY <1>1, <1>4, <1>5, <1>6, <3>2 DEF Aligned, LengthTrue
    <3>3. QED
      BY <1>1, <1>4, <3>1, <3>2
  <2>2. crcFrom' = FrameEnd(Len(info))'
    BY <1>4, <1>6, <1>7
  <2>3. Len(hist') = crcFrom' + addr'
    BY <1>1, <1>7
  <2>4. QED
    BY <2>1, <2>2, <2>3 DEF LengthTrue
<1>11. FramesInv'
  <2>1. ASSUME NEW i \in 1..Len(info')
        PROVE  info'[i].len > 0 /\ FrameEnd(i)' <= crcFrom'
    <3>1. CASE i \in 1..Len(info)
      <4>1. info[i] \in Word
        BY <1>1, <3>1, ElementType
      <4>2. FrameEnd(i) \in Nat
        BY <4>1, <3>1, ConstantTypes DEF Word, FrameEnd
      <4>3. info[i].len > 0 /\ FrameEnd(i) <= crcFrom
        BY <3>1 DEF Aligned, FramesInv
      <4>4. FrameEnd(i)' = FrameEnd(i) /\ info'[i] = info[i]
        BY <1>1, <1>4, <1>6, <3>1
      <4>5. QED
        BY <1>1, <1>5, <1>7, <4>2, <4>3, <4>4
    <3>2. CASE i = Len(info) + 1
      BY <1>1, <1>4, <1>5, <1>6, <1>7, <3>2
    <3>3. QED
      BY <1>1, <1>4, <3>1, <3>2
  <2>2. QED
    BY <2>1 DEF FramesInv
<1>12. PointerInv'
  <2>1. /\ rseen' = rseen /\ rp' = rp /\ pseen' = pseen /\ ird' = ird
        /\ iseen' = iseen
    BY DEF RxPush
  <2>2. Len(info) < pseen + InfoDepth
    BY <1>1, ConstantTypes DEF RxPush, InfoWFull
  <2>3. QED
    BY <1>1, <1>4, <1>7, <2>1, <2>2, ConstantTypes DEF Aligned, PointerInv
<1>13. TransferInv' /\ BufferInv'
  <2>1. ird \in 0..Len(info)
    BY <1>1 DEF Aligned, PointerInv
  <2>2. FrameEnd(ird)' = FrameEnd(ird) /\ (ird > 0 => info'[ird] = info[ird])
    BY <1>1, <1>4, <1>6, <2>1 DEF RxPush
  <2>3. UNCHANGED <<rp, ird, dtVars, mem>>
    BY DEF RxPush
  <2>4. QED
    BY <2>1, <2>2, <2>3 DEF Aligned, TransferInv, BufferInv, dtVars
<1>14. QED
  BY <1>8, <1>9, <1>10, <1>11, <1>12, <1>13 DEF Aligned

(* A full info FIFO. *)
LEMMA RxHoldStep ==
  ASSUME Aligned, RxHold
  PROVE  Aligned'
<1>1. LineType' /\ LineInv'
  BY LineStep DEF TypeOK, RxHold, Aligned
<1>2. RxType' /\ FifoType' /\ DtType' /\ RingType'
  BY DEF Aligned, RxHold, TypeOK, RxType, FifoType, DtType, RingType, rxVars,
         fifoVars, dtVars, swVars
<1>3. AddrInv'
  BY DEF Aligned, RxHold, AddrInv, rxVars
<1>4. LengthTrue' /\ FramesInv'
  BY DEF Aligned, RxHold, LengthTrue, FramesInv, FrameEnd, rxVars, fifoVars
<1>5. PointerInv' /\ TransferInv' /\ BufferInv'
  BY DEF Aligned, RxHold, PointerInv, TransferInv, BufferInv, FrameEnd,
         fifoVars, dtVars
<1>6. QED
  BY <1>1, <1>2, <1>3, <1>4, <1>5 DEF Aligned, TypeOK

(* A step that leaves alone what the invariant's parts about the two       *)
(* streams read.                                                           *)
LEMMA StreamsKept ==
  ASSUME Aligned, resync' \in BOOLEAN,
         UNCHANGED <<lineVars, rxVars, hist, rp, info, ird, dtVars, mem>>
  PROVE  /\ LineType' /\ RxType' /\ DtType'
         /\ LineInv' /\ AddrInv' /\ LengthTrue' /\ FramesInv'
         /\ TransferInv' /\ BufferInv'
BY DEF Aligned, TypeOK, LineType, RxType, DtType, LineInv, AddrInv, LengthTrue,
       FramesInv, FrameEnd, TransferInv, BufferInv, lineVars, rxVars, dtVars

(* The synchronised read and write positions. *)
LEMMA SyncStep ==
  ASSUME Aligned, SyncRead \/ SyncInfoRead \/ SyncInfoWrite
  PROVE  Aligned'
<1>1. /\ UNCHANGED <<lineVars, rxVars, hist, rp, info, ird, dtVars, resync, bds,
                     mem, swVars>>
      /\ \/ rseen' = rp /\ UNCHANGED <<pseen, iseen>>
         \/ pseen' = ird /\ UNCHANGED <<rseen, iseen>>
         \/ iseen' = Len(info) /\ UNCHANGED <<rseen, pseen>>
  BY DEF SyncRead, SyncInfoRead, SyncInfoWrite
<1>2. /\ LineType' /\ RxType' /\ DtType'
      /\ LineInv' /\ AddrInv' /\ LengthTrue' /\ FramesInv'
      /\ TransferInv' /\ BufferInv'
  BY <1>1, StreamsKept DEF Aligned, TypeOK, DtType
<1>3. Len(info) \in Nat /\ Len(hist) \in Nat /\ rp \in Nat /\ rseen \in Nat
      /\ ird \in Nat /\ pseen \in Nat /\ iseen \in Nat
  BY DEF Aligned, TypeOK, FifoType
<1>4. FifoType' /\ RingType'
  <2>1. FifoType'
    BY <1>1, <1>3 DEF Aligned, TypeOK, FifoType
  <2>2. RingType'
    BY <1>1 DEF Aligned, TypeOK, RingType, swVars
  <2>3. QED
    BY <2>1, <2>2
<1>5. PointerInv'
  BY <1>1, <1>3, ConstantTypes DEF Aligned, PointerInv
<1>6. QED
  BY <1>2, <1>4, <1>5 DEF Aligned, TypeOK

-----------------------------------------------------------------------------
(* The Data Transfer block's actions. *)

(* The frame being consumed lies within the accepted bytes. *)
LEMMA CurrentInfo ==
  ASSUME Aligned, ird > 0
  PROVE  /\ ird \in 1..Len(info)
         /\ info[ird].start \in Nat
         /\ info[ird].len \in 0..LenMod-1 /\ info[ird].len > 0
         /\ info[ird].bad \in BOOLEAN
         /\ FrameEnd(ird) = info[ird].start + info[ird].len
         /\ FrameEnd(ird) <= Len(hist)
<1>1. /\ info \in Seq(Word) /\ Len(info) \in Nat /\ ird \in Nat /\ iseen \in Nat
      /\ crcFrom \in Nat /\ addr \in Nat /\ Len(hist) \in Nat
  BY ConstantTypes DEF Aligned, TypeOK, FifoType, RxType, Word
<1>2. ird \in 1..Len(info)
  BY <1>1 DEF Aligned, PointerInv
<1>3. info[ird] \in Word
  BY <1>1, <1>2, ElementType
<1>4. info[ird].len > 0 /\ FrameEnd(ird) <= crcFrom
  BY <1>2 DEF Aligned, FramesInv
<1>5. FrameEnd(ird) = info[ird].start + info[ird].len
  BY <1>1, <1>2 DEF FrameEnd
<1>6. Len(hist) = crcFrom + addr
  BY DEF Aligned, LengthTrue
<1>7. info[ird].start \in Nat /\ info[ird].len \in 0..LenMod-1
      /\ info[ird].bad \in BOOLEAN
  BY <1>3 DEF Word
<1>8. FrameEnd(ird) \in Nat
  BY <1>5, <1>7, ConstantTypes
<1>9. FrameEnd(ird) <= Len(hist)
  BY <1>1, <1>4, <1>6, <1>8
<1>10. QED
  BY <1>2, <1>4, <1>5, <1>7, <1>9

(* A step that leaves the receiver and both write sides alone. *)
LEMMA ReceiverKept ==
  ASSUME Aligned, UNCHANGED <<lineVars, rxVars, hist, info>>
  PROVE  /\ LineType' /\ RxType'
         /\ LineInv' /\ AddrInv' /\ LengthTrue' /\ FramesInv'
BY DEF Aligned, TypeOK, LineType, RxType, LineInv, AddrInv, LengthTrue,
       FramesInv, FrameEnd, lineVars, rxVars

(* Data Transfer block, waiting for an empty descriptor. *)
LEMMA DtReadBdStep ==
  ASSUME Aligned, DtReadBd
  PROVE  Aligned'
<1>1. /\ LineType' /\ RxType'
      /\ LineInv' /\ AddrInv' /\ LengthTrue' /\ FramesInv'
  BY ReceiverKept DEF DtReadBd, fifoVars
<1>2. FifoType' /\ DtType' /\ RingType'
  <2>1. bds[bdn] \in Desc
    BY DEF Aligned, TypeOK, DtType, RingType
  <2>2. wrap' \in BOOLEAN
    BY <2>1 DEF DtReadBd, Desc
  <2>3. QED
    BY <2>2 DEF Aligned, DtReadBd, TypeOK, FifoType, DtType, RingType, fifoVars,
                swVars
<1>3. PointerInv' /\ TransferInv' /\ BufferInv'
  BY DEF Aligned, DtReadBd, PointerInv, TransferInv, BufferInv, FrameEnd,
         fifoVars
<1>4. QED
  BY <1>1, <1>2, <1>3 DEF Aligned, TypeOK

(* Data Transfer block, buffer pointer. *)
LEMMA DtReadPtrStep ==
  ASSUME Aligned, DtReadPtr
  PROVE  Aligned'
<1>1. /\ LineType' /\ RxType'
      /\ LineInv' /\ AddrInv' /\ LengthTrue' /\ FramesInv'
  BY ReceiverKept DEF DtReadPtr, fifoVars
<1>2. FifoType' /\ DtType' /\ RingType'
  BY DEF Aligned, DtReadPtr, TypeOK, FifoType, DtType, RingType, fifoVars, swVars
<1>3. PointerInv' /\ TransferInv' /\ BufferInv'
  BY DEF Aligned, DtReadPtr, PointerInv, TransferInv, BufferInv, FrameEnd,
         fifoVars
<1>4. QED
  BY <1>1, <1>2, <1>3 DEF Aligned, TypeOK

(* Data Transfer block, info word asked for. *)
LEMMA DtPopInfoStep ==
  ASSUME Aligned, DtPopInfo
  PROVE  Aligned'
<1>1. /\ LineType' /\ RxType'
      /\ LineInv' /\ AddrInv' /\ LengthTrue' /\ FramesInv'
  BY ReceiverKept DEF DtPopInfo
<1>2. /\ ird \in Nat /\ iseen \in Nat /\ Len(info) \in Nat /\ pseen \in Nat
      /\ ird < iseen /\ ird' = ird + 1
      /\ pseen <= ird /\ iseen <= Len(info)
  BY DEF Aligned, TypeOK, FifoType, DtPopInfo, InfoEmpty, PointerInv
<1>3. FifoType' /\ DtType' /\ RingType'
  <2>1. FifoType'
    BY <1>2 DEF Aligned, DtPopInfo, TypeOK, FifoType
  <2>2. DtType'
    BY DEF Aligned, DtPopInfo, TypeOK, DtType
  <2>3. RingType'
    BY DEF Aligned, DtPopInfo, TypeOK, RingType, swVars
  <2>4. QED
    BY <2>1, <2>2, <2>3
<1>4. PointerInv'
  BY <1>2 DEF Aligned, DtPopInfo, PointerInv
<1>5. TransferInv'
  <2>1. ird + 1 \in 1..Len(info) /\ (ird + 1) - 1 = ird
    BY <1>2
  <2>2. info[ird + 1].start = FrameEnd(ird)
    BY <2>1 DEF Aligned, LengthTrue
  <2>3. rp = FrameEnd(ird)
    BY DEF Aligned, DtPopInfo, TransferInv
  <2>4. rp' = info'[ird'].start
    BY <1>2, <2>2, <2>3 DEF DtPopInfo
  <2>5. QED
    BY <1>2, <2>4 DEF Aligned, DtPopInfo, TransferInv
<1>6. BufferInv'
  BY DEF DtPopInfo, BufferInv
<1>7. QED
  BY <1>1, <1>3, <1>4, <1>5, <1>6 DEF Aligned, TypeOK

(* Data Transfer block, info word taken. *)
LEMMA DtLatchInfoStep ==
  ASSUME Aligned, DtLatchInfo
  PROVE  Aligned'
<1>1. /\ LineType' /\ RxType'
      /\ LineInv' /\ AddrInv' /\ LengthTrue' /\ FramesInv'
  BY ReceiverKept DEF DtLatchInfo
<1>2. ird > 0 /\ rp = info[ird].start /\ cnt = 0 /\ buf = bdn
  BY DEF Aligned, DtLatchInfo, TransferInv
<1>3. /\ info[ird].start \in Nat
      /\ info[ird].len \in 0..LenMod-1 /\ info[ird].len > 0
      /\ info[ird].bad \in BOOLEAN
      /\ FrameEnd(ird) = info[ird].start + info[ird].len
      /\ FrameEnd(ird) <= Len(hist)
  BY <1>2, CurrentInfo
<1>4. rp \in Nat /\ Len(hist) \in Nat /\ rseen \in Nat /\ LenMod \in Nat
  BY ConstantTypes DEF Aligned, TypeOK, FifoType
<1>5. rp < Len(hist)
  BY <1>2, <1>3, <1>4
<1>6. rp' = rp + 1
  BY <1>5 DEF DtLatchInfo, PopByte
<1>7. FifoType' /\ DtType' /\ RingType'
  <2>1. FifoType'
    BY <1>4, <1>6 DEF Aligned, TypeOK, FifoType, DtLatchInfo
  <2>2. DtType'
    BY <1>3 DEF Aligned, TypeOK, DtType, DtLatchInfo
  <2>3. RingType'
    BY DEF Aligned, TypeOK, RingType, DtLatchInfo, swVars
  <2>4. QED
    BY <2>1, <2>2, <2>3
<1>8. PointerInv'
  BY <1>4, <1>5, <1>6 DEF Aligned, PointerInv, DtLatchInfo
<1>9. TransferInv'
  <2>1. /\ pend' = FALSE /\ st' = "aw" /\ ird' = ird /\ info' = info
        /\ cnt' = 0 /\ buf' = buf /\ bdn' = bdn
        /\ len' = info[ird].len /\ bad' = info[ird].bad
    BY <1>2 DEF DtLatchInfo
  <2>2. cnt' < len' /\ cnt' <= len'
    BY <1>3, <2>1, ConstantTypes
  <2>3. rp' = info'[ird'].start + cnt' + 1
    BY <1>2, <1>3, <1>6, <2>1
  <2>4. QED
    BY <1>2, <2>1, <2>2, <2>3 DEF TransferInv
<1>10. BufferInv'
  <2>1. cnt' = 0 /\ mem' = mem /\ buf' = buf
    BY <1>2 DEF DtLatchInfo
  <2>2. Len(mem[buf]) \in Nat
    BY DEF Aligned, TypeOK, RingType, DtType
  <2>3. QED
    BY <2>1, <2>2 DEF BufferInv
<1>11. QED
  BY <1>1, <1>7, <1>8, <1>9, <1>10 DEF Aligned, TypeOK

(* Data Transfer block, next burst. *)
LEMMA DtIssueBurstStep ==
  ASSUME Aligned, DtIssueBurst
  PROVE  Aligned'
<1>1. /\ LineType' /\ RxType'
      /\ LineInv' /\ AddrInv' /\ LengthTrue' /\ FramesInv'
  BY ReceiverKept DEF DtIssueBurst, fifoVars
<1>2. cnt <= len /\ cnt \in Nat /\ len \in Nat
  BY ConstantTypes DEF Aligned, TypeOK, DtType, DtIssueBurst, TransferInv
<1>3. Diff = len - cnt
  BY <1>2, DiffIsRest DEF Aligned, TypeOK
<1>4. cnt < len
  BY <1>2, <1>3 DEF DtIssueBurst
<1>5. beats' \in Nat /\ beats' > 0 /\ beats' <= len - cnt
  BY <1>2, <1>3, <1>4, ConstantTypes DEF DtIssueBurst
<1>6. FifoType' /\ DtType' /\ RingType'
  BY <1>5 DEF Aligned, DtIssueBurst, TypeOK, FifoType, DtType, RingType,
              fifoVars, swVars
<1>7. PointerInv' /\ BufferInv'
  BY DEF Aligned, DtIssueBurst, PointerInv, BufferInv, fifoVars
<1>8. TransferInv'
  <2>1. UNCHANGED <<rp, info, ird, bdn, buf, pend, len, bad, cnt>> /\ st' = "w"
    BY DEF DtIssueBurst, fifoVars
  <2>2. QED
    BY <1>4, <1>5, <2>1
       DEF Aligned, DtIssueBurst, TransferInv, FrameEnd
<1>9. QED
  BY <1>1, <1>6, <1>7, <1>8 DEF Aligned, TypeOK

(* Data Transfer block, last byte written. *)
LEMMA DtFrameDoneStep ==
  ASSUME Aligned, DtFrameDone
  PROVE  Aligned'
<1>1. /\ LineType' /\ RxType'
      /\ LineInv' /\ AddrInv' /\ LengthTrue' /\ FramesInv'
  BY ReceiverKept DEF DtFrameDone, fifoVars
<1>2. cnt <= len /\ cnt \in Nat /\ len \in Nat
  BY ConstantTypes DEF Aligned, TypeOK, DtType, DtFrameDone, TransferInv
<1>3. cnt = len
  BY <1>2, DiffIsRest DEF Aligned, TypeOK, DtFrameDone
<1>4. FifoType' /\ DtType' /\ RingType'
  BY DEF Aligned, DtFrameDone, TypeOK, FifoType, DtType, RingType, fifoVars,
         swVars
<1>5. PointerInv' /\ BufferInv'
  BY DEF Aligned, DtFrameDone, PointerInv, BufferInv, fifoVars
<1>6. TransferInv'
  <2>1. UNCHANGED <<rp, info, ird, bdn, buf, pend, len, bad, cnt>>
        /\ st' = "stat"
    BY DEF DtFrameDone, fifoVars
  <2>2. ~(cnt < len)
    BY <1>2, <1>3
  <2>3. QED
    BY <1>3, <2>1, <2>2 DEF Aligned, DtFrameDone, TransferInv, FrameEnd
<1>7. QED
  BY <1>1, <1>4, <1>5, <1>6 DEF Aligned, TypeOK

(* Data Transfer block, one byte to memory. *)
LEMMA DtWriteWordStep ==
  ASSUME Aligned, DtWriteWord
  PROVE  Aligned'
<1>1. /\ LineType' /\ RxType'
      /\ LineInv' /\ AddrInv' /\ LengthTrue' /\ FramesInv'
  BY ReceiverKept DEF DtWriteWord
<1>2. /\ ird > 0 /\ len = info[ird].len /\ cnt <= len /\ buf = bdn
      /\ beats > 0 /\ beats <= len - cnt /\ ~pend
      /\ Len(mem[buf]) >= cnt
  BY DEF Aligned, DtWriteWord, TransferInv, BufferInv
<1>3. /\ info[ird].start \in Nat
      /\ FrameEnd(ird) = info[ird].start + info[ird].len
      /\ FrameEnd(ird) <= Len(hist)
  BY <1>2, CurrentInfo
<1>4. /\ rp \in Nat /\ Len(hist) \in Nat /\ rseen \in Nat /\ len \in Nat
      /\ cnt \in Nat /\ beats \in Nat /\ buf \in Bd
      /\ rseen <= rp /\ Len(hist) <= rseen + Depth /\ rp <= Len(hist)
  BY ConstantTypes DEF Aligned, TypeOK, FifoType, DtType, PointerInv
<1>5. cnt < len
  BY <1>2, <1>4
<1>6. rp = info[ird].start + cnt + 1
  BY <1>2, <1>5 DEF Aligned, DtWriteWord, TransferInv
<1>7. /\ rp \in 1..Len(hist)
      /\ cnt + 1 < len =>
           rp < Len(hist) /\ rp + 1 = info[ird].start + (cnt + 1) + 1
      /\ ~(cnt + 1 < len) =>
           cnt + 1 = len /\ rp = info[ird].start + len
  <2>1. info[ird].start + len <= Len(hist)
    BY <1>2, <1>3
  <2>2. \A p, h \in Nat :
          p = info[ird].start + cnt + 1 /\ cnt < len
            /\ info[ird].start + len <= h =>
            /\ p \in 1..h
            /\ cnt + 1 < len =>
                 p < h /\ p + 1 = info[ird].start + (cnt + 1) + 1
            /\ ~(cnt + 1 < len) => cnt + 1 = len /\ p = info[ird].start + len
    BY <1>3, <1>4, Reading, Zenon
  <2>3. QED
    BY <1>4, <1>5, <1>6, <2>1, <2>2, Zenon
<1>8. hist[rp] \in Byte
  BY <1>7, ElementType DEF Aligned, TypeOK, FifoType
<1>9. cnt' = cnt + 1 /\ cnt' \in Nat /\ cnt' <= len
  BY <1>4, <1>5 DEF DtWriteWord
<1>10. rp' \in Nat /\ rseen <= rp' /\ rp' <= Len(hist)
       /\ IF cnt' < len THEN rp' = info[ird].start + cnt' + 1
                        ELSE rp' = FrameEnd(ird)
  <2>1. CASE cnt + 1 < len
    <3>1. rp' = rp + 1
      BY <1>7, <2>1 DEF DtWriteWord, PopNext, PopByte
    <3>2. rp' \in Nat /\ rp' <= Len(hist)
      BY <1>4, <1>7, <2>1, <3>1
    <3>3. rseen <= rp'
      BY <1>4, <3>1
    <3>4. rp' = info[ird].start + cnt' + 1 /\ cnt' < len
      BY <1>7, <1>9, <2>1, <3>1, Zenon
    <3>5. QED
      BY <3>2, <3>3, <3>4
  <2>2. CASE ~(cnt + 1 < len)
    <3>1. rp' = rp
      BY <2>2 DEF DtWriteWord, PopNext
    <3>2. rp = FrameEnd(ird)
      BY <1>2, <1>3, <1>7, <2>2
    <3>3. ~(cnt' < len)
      BY <1>9, <2>2, Zenon
    <3>4. QED
      BY <1>4, <3>1, <3>2, <3>3
  <2>3. QED
    BY <2>1, <2>2
<1>11. mem' \in [Bd -> Seq(Byte)] /\ Len(mem'[buf]) = cnt + 1
  <2>1. mem \in [Bd -> Seq(Byte)] /\ mem[buf] \in Seq(Byte)
    BY <1>4 DEF Aligned, TypeOK, RingType
  <2> DEFINE old == SubSeq(mem[buf], 1, cnt)
  <2>2. old \in Seq(Byte) /\ Len(old) = cnt
    BY <1>2, <1>4, <2>1
  <2>3. mem' = [mem EXCEPT ![buf] = Append(old, hist[rp])]
    BY DEF DtWriteWord
  <2> HIDE DEF old
  <2>4. Append(old, hist[rp]) \in Seq(Byte)
        /\ Len(Append(old, hist[rp])) = cnt + 1
    BY <1>8, <2>2, AppendFacts
  <2>5. QED
    BY <1>4, <2>1, <2>3, <2>4
<1>12. FifoType' /\ DtType' /\ RingType'
  <2>1. FifoType'
    <3>1. UNCHANGED <<hist, rseen, info, ird, pseen, iseen>>
      BY DEF DtWriteWord
    <3>2. QED
      BY <1>10, <3>1 DEF Aligned, TypeOK, FifoType
  <2>2. beats' \in Nat
    BY <1>2, <1>4 DEF DtWriteWord
  <2>3. DtType'
    BY <1>9, <2>2 DEF Aligned, TypeOK, DtType, DtWriteWord
  <2>4. RingType'
    BY <1>11 DEF Aligned, TypeOK, RingType, DtWriteWord, swVars
  <2>5. QED
    BY <2>1, <2>3, <2>4
<1>13. PointerInv'
  BY <1>10 DEF Aligned, PointerInv, DtWriteWord
<1>14. TransferInv'
  <2>1. /\ UNCHANGED <<info, ird, bdn, buf, pend, len, bad>>
        /\ st' \in {"aw", "w"} /\ beats' = beats - 1
        /\ st' = "w" => beats # 1
    BY DEF DtWriteWord
  <2>2. st' = "w" => beats' > 0 /\ beats' <= len - cnt'
    BY <1>2, <1>4, <1>9, <2>1, Remaining, Zenon
  <2>3. bad = info[ird].bad
    BY DEF Aligned, DtWriteWord, TransferInv
  <2>4. rp' = IF cnt' < len THEN info'[ird'].start + cnt' + 1
                            ELSE FrameEnd(ird)'
    BY <1>10, <2>1 DEF FrameEnd
  <2>5. QED
    BY <1>2, <1>9, <2>1, <2>2, <2>3, <2>4 DEF TransferInv
<1>15. BufferInv'
  BY <1>9, <1>11, <1>4 DEF BufferInv, DtWriteWord
<1>16. QED
  BY <1>1, <1>12, <1>13, <1>14, <1>15 DEF Aligned, TypeOK

(* Data Transfer block, status write. *)
LEMMA DtWriteStatusStep ==
  ASSUME Aligned, DtWriteStatus
  PROVE  Aligned'
<1>1. /\ LineType' /\ RxType'
      /\ LineInv' /\ AddrInv' /\ LengthTrue' /\ FramesInv'
  BY ReceiverKept DEF DtWriteStatus, fifoVars
<1>2. bdn' \in Bd
  BY NextRxBdType DEF Aligned, TypeOK, DtType, RingType, DtWriteStatus
<1>3. FifoType' /\ DtType'
  BY <1>2 DEF Aligned, DtWriteStatus, TypeOK, FifoType, DtType, fifoVars
<1>4. RingType'
  <2> DEFINE d == [e |-> FALSE, wrap |-> wrap, len |-> len, bad |-> bad]
  <2>1. d \in Desc
    BY DEF Aligned, TypeOK, DtType, Desc
  <2>2. bds' = [bds EXCEPT ![bdn] = d] /\ UNCHANGED <<mem, swVars>>
    BY DEF DtWriteStatus
  <2> HIDE DEF d
  <2>3. bds' \in [Bd -> Desc]
    BY <2>1, <2>2 DEF Aligned, TypeOK, RingType
  <2>4. QED
    BY <2>2, <2>3 DEF Aligned, TypeOK, RingType, swVars
<1>5. PointerInv' /\ BufferInv'
  BY DEF Aligned, DtWriteStatus, PointerInv, BufferInv, fifoVars
<1>6. TransferInv'
  <2>1. UNCHANGED <<rp, info, ird, pend>> /\ st' = "bd" /\ ~pend
    BY DEF Aligned, TransferInv, DtWriteStatus, fifoVars
  <2>2. rp = FrameEnd(ird)
    BY DEF Aligned, TransferInv, DtWriteStatus
  <2>3. QED
    BY <2>1, <2>2 DEF TransferInv, FrameEnd
<1>7. QED
  BY <1>1, <1>3, <1>4, <1>5, <1>6 DEF Aligned, TypeOK

(* Data Transfer block, resync. *)
LEMMA DtResyncStep ==
  ASSUME Aligned, DtResync
  PROVE  Aligned'
<1>1. /\ LineType' /\ RxType'
      /\ LineInv' /\ AddrInv' /\ LengthTrue' /\ FramesInv'
  BY ReceiverKept DEF DtResync, fifoVars
<1>2. FifoType' /\ DtType' /\ RingType'
  BY DEF Aligned, DtResync, TypeOK, FifoType, DtType, RingType, fifoVars, swVars
<1>3. PointerInv' /\ BufferInv'
  BY DEF Aligned, DtResync, PointerInv, BufferInv, fifoVars
<1>4. TransferInv'
  <2>1. ~pend /\ st \notin {"aw", "w", "stat"}
    BY DEF DtResync, Resyncing, Consuming, Aligned, TransferInv
  <2>2. rp = FrameEnd(ird)
    BY <2>1 DEF Aligned, TransferInv
  <2>3. UNCHANGED <<rp, info, ird, pend>> /\ st' = "bd"
    BY DEF DtResync, fifoVars
  <2>4. QED
    BY <2>1, <2>2, <2>3 DEF TransferInv, FrameEnd
<1>5. QED
  BY <1>1, <1>2, <1>3, <1>4 DEF Aligned, TypeOK

-----------------------------------------------------------------------------
(* The driver's actions touch neither stream. *)
LEMMA DriverStep ==
  ASSUME Aligned, Driver
  PROVE  Aligned'
<1>1. UNCHANGED <<lineVars, rxVars, fifoVars, dtVars, mem>>
      /\ resync' \in BOOLEAN
  BY DEF Aligned, TypeOK, DtType, Driver, SwReceive, SwStop, SwSetBdNum, SwInitBd
<1>2. /\ LineType' /\ RxType' /\ DtType'
      /\ LineInv' /\ AddrInv' /\ LengthTrue' /\ FramesInv'
      /\ TransferInv' /\ BufferInv'
  BY <1>1, StreamsKept DEF fifoVars
<1>3. FifoType' /\ PointerInv'
  BY <1>1 DEF Aligned, TypeOK, FifoType, PointerInv, fifoVars
<1>4. RingType'
  <2>1. RingType /\ NextCurRx \in base..last
    BY NextCurRxType DEF Aligned, TypeOK
  <2>3. CASE SwReceive
    <3>1. FrameIn(swcur) \in Nat
      <4>1. mem[swcur] \in Seq(Byte)
        BY <2>1, NextCurRxType DEF RingType
      <4>2. mem[swcur] # <<>> => mem[swcur][1] \in Byte
        BY <4>1
      <4>3. QED
        BY <4>2 DEF FrameIn, Byte
    <3>2. got' \in Seq(Nat)
      BY <2>1, <2>3, <3>1 DEF RingType, SwReceive
    <3>3. bds' \in [Bd -> Desc]
      BY <2>1, <2>3, GivenBack
    <3>4. /\ swcur' = NextCurRx
          /\ UNCHANGED <<mem, base, last, rxen, sw, inits>>
      BY <2>3 DEF SwReceive
    <3>5. QED
      BY <2>1, <3>2, <3>3, <3>4 DEF RingType
  <2>4. CASE SwStop
    BY <2>1, <2>4 DEF RingType, SwStop
  <2>5. CASE SwSetBdNum
    <3>1. /\ base' \in Bd /\ last' \in Bd /\ base' <= last'
          /\ swcur' = base' /\ sw' = "init" /\ inits' \in Nat
      BY <2>1, <2>5, ConstantTypes DEF RingType, SwSetBdNum
    <3>2. swcur' \in base'..last'
      BY <3>1 DEF Bd
    <3>3. UNCHANGED <<bds, mem, rxen, got>>
      BY <2>5 DEF SwSetBdNum
    <3>4. QED
      BY <2>1, <3>1, <3>2, <3>3 DEF RingType
  <2>6. CASE SwInitBd
    <3>1. bds' \in [Bd -> Desc]
      BY <2>1, <2>6, Initialised
    <3>2. /\ swcur' = NextCurRx /\ rxen' \in BOOLEAN
          /\ sw' \in {"stop", "init", "run"}
      BY <2>1, <2>6 DEF RingType, SwInitBd
    <3>3. UNCHANGED <<mem, base, last, inits, got>>
      BY <2>6 DEF SwInitBd
    <3>4. QED
      BY <2>1, <3>1, <3>2, <3>3 DEF RingType
  <2>7. QED
    BY <2>3, <2>4, <2>5, <2>6 DEF Driver
<1>5. QED
  BY <1>2, <1>3, <1>4 DEF Aligned, TypeOK

-----------------------------------------------------------------------------
(* The invariant after reset. *)
LEMMA InitAligned ==
  ASSUME Init
  PROVE  Aligned
<1>1. TypeOK
  <2>0. 0 \in 0..LenMod-1 /\ 0 \in Nat
    BY ConstantTypes
  <2>1. LineType /\ RxType /\ FifoType
    <3>1. LineType
      <4>1. sent = <<>> /\ dv = FALSE /\ pos = 0
        BY DEF Init
      <4>2. sent \in Seq([n: FrameLens, good: BOOLEAN])
        BY <4>1, EmptySeq
      <4>3. QED
        BY <4>1, <4>2, <2>0 DEF LineType
    <3>2. RxType
      BY <2>0 DEF Init, RxType
    <3>3. FifoType
      BY DEF Init, FifoType
    <3>4. QED
      BY <3>1, <3>2, <3>3
  <2>2. DtType
    <3>1. bdn \in Bd /\ buf \in Bd
      BY ConstantTypes DEF Init
    <3>2. st = "bd" /\ wrap = FALSE /\ pend = FALSE /\ bad = FALSE /\ resync = FALSE
          /\ len = 0 /\ cnt = 0 /\ beats = 0
      BY DEF Init
    <3>3. QED
      BY <2>0, <3>1, <3>2 DEF DtType
  <2>3. RingType
    <3>1. bds \in [Bd -> Desc]
      BY <2>0 DEF Init, Desc
    <3>2. mem \in [Bd -> Seq(Byte)]
      BY DEF Init
    <3>3. /\ base \in Bd /\ last \in Bd /\ base <= last
          /\ swcur \in base..last
      BY ConstAssumption DEF Init, ConstAssumption, Bd
    <3>4. rxen = FALSE /\ sw = "stop" /\ inits = 0 /\ got = <<>>
      BY DEF Init
    <3>5. got \in Seq(Nat)
      BY <3>4, EmptySeq
    <3>6. QED
      BY <2>0, <3>1, <3>2, <3>3, <3>4, <3>5 DEF RingType
  <2>4. QED
    BY <2>1, <2>2, <2>3 DEF TypeOK
<1>2. LineInv /\ AddrInv /\ LengthTrue /\ FramesInv
  BY ConstantTypes DEF Init, LineInv, AddrInv, LengthTrue, FramesInv, FrameEnd
<1>3. PointerInv /\ TransferInv /\ BufferInv
  BY ConstantTypes DEF Init, PointerInv, TransferInv, BufferInv, FrameEnd
<1>4. QED
  BY <1>1, <1>2, <1>3 DEF Aligned

(* The invariant reads no variable outside of vars. *)
LEMMA AlignedStutters ==
  ASSUME Aligned, UNCHANGED vars
  PROVE  Aligned'
<1>1. /\ LineType' /\ RxType' /\ DtType'
      /\ LineInv' /\ AddrInv' /\ LengthTrue' /\ FramesInv'
      /\ TransferInv' /\ BufferInv'
  BY StreamsKept DEF vars, fifoVars, Aligned, TypeOK, DtType
<1>2. FifoType' /\ RingType' /\ PointerInv'
  BY DEF vars, fifoVars, swVars, Aligned, TypeOK, FifoType, RingType, PointerInv
<1>3. QED
  BY <1>1, <1>2 DEF Aligned, TypeOK

(* Every step keeps the two streams aligned. *)
LEMMA AlignedStep ==
  ASSUME LegalFrames, Aligned, [Next]_vars
  PROVE  Aligned'
<1>1. CASE Receiver
  BY <1>1, RxHuntStep, RxDestStep, RxPayloadStep, RxPushStep, RxHoldStep
     DEF Receiver
<1>2. CASE SyncRead \/ SyncInfoRead \/ SyncInfoWrite
  BY <1>2, SyncStep
<1>3. CASE DataTransfer
  BY <1>3, DtReadBdStep, DtReadPtrStep, DtPopInfoStep, DtLatchInfoStep,
     DtIssueBurstStep, DtFrameDoneStep, DtWriteWordStep, DtWriteStatusStep,
     DtResyncStep
     DEF DataTransfer
<1>4. CASE Driver
  BY <1>4, DriverStep
<1>5. CASE UNCHANGED vars
  BY <1>5, AlignedStutters
<1>6. QED
  BY <1>1, <1>2, <1>3, <1>4, <1>5 DEF Next

(* With frames short enough for the byte counter, the two streams stay     *)
(* aligned in every behaviour: whatever is dropped under back-pressure,    *)
(* however late the synchronisers are, wherever a ring re-initialisation   *)
(* falls, the Data Transfer block reads exactly the bytes of the frame     *)
(* whose info word it holds.                                               *)
THEOREM AlignedInvariant ==
  ASSUME LegalFrames
  PROVE  Spec => []Aligned
<1>1. Init => Aligned
  BY InitAligned
<1>2. Aligned /\ [Next]_vars => Aligned'
  BY AlignedStep
<1>3. QED
  BY <1>1, <1>2, PTL DEF Spec

(* Every register and memory keeps to its width. *)
THEOREM TypeInvariant ==
  ASSUME LegalFrames
  PROVE  Spec => []TypeOK
BY AlignedInvariant, PTL DEF Aligned

(* The info words say exactly how the accepted bytes divide into frames.   *)
THEOREM LengthInvariant ==
  ASSUME LegalFrames
  PROVE  Spec => []LengthTrue
BY AlignedInvariant, PTL DEF Aligned

(* The data FIFO is never strobed when it is empty, although nobody looks. *)
THEOREM NoUnderflowInvariant ==
  ASSUME LegalFrames
  PROVE  Spec => []NoUnderflow
<1>1. Aligned => NoUnderflow
  <2> SUFFICES ASSUME Aligned PROVE NoUnderflow
    OBVIOUS
  <2>1. rp \in Nat /\ Len(hist) \in Nat /\ len \in Nat /\ cnt \in Nat
    BY ConstantTypes DEF Aligned, TypeOK, FifoType, DtType
  <2>2. ASSUME st = "info", pend
        PROVE  rp < Len(hist)
    <3>1. ird > 0 /\ rp = info[ird].start
      BY <2>2 DEF Aligned, TransferInv
    <3>2. /\ info[ird].start \in Nat /\ info[ird].len \in Nat
          /\ info[ird].len > 0
          /\ info[ird].start + info[ird].len <= Len(hist)
      BY <3>1, CurrentInfo, ConstantTypes
    <3>3. QED
      BY <2>1, <3>1, <3>2, Inside, Zenon
  <2>3. ASSUME st = "w", cnt + 1 < len
        PROVE  rp < Len(hist)
    <3>1. cnt < len
      BY <2>1, <2>3
    <3>2. ird > 0 /\ len = info[ird].len /\ rp = info[ird].start + cnt + 1
      BY <2>3, <3>1 DEF Aligned, TransferInv
    <3>3. /\ info[ird].start \in Nat
          /\ info[ird].start + len <= Len(hist)
      BY <3>2, CurrentInfo
    <3>4. QED
      BY <2>1, <2>3, <3>2, <3>3
  <2>4. QED
    BY <2>2, <2>3 DEF NoUnderflow
<1>2. QED
  BY <1>1, AlignedInvariant, PTL

-----------------------------------------------------------------------------
(* Ownership of descriptors and their buffers. *)

(* From the moment the EMPTY bit is seen to the status write, nobody       *)
(* clears it.                                                              *)
LEMMA OwnStep ==
  ASSUME Aligned, OwnInv, [Next]_vars
  PROVE  OwnInv'
<1> USE DEF OwnInv
<1>1. RingType /\ bds \in [Bd -> Desc] /\ bdn \in Bd /\ swcur \in Bd
  BY NextCurRxType DEF Aligned, TypeOK, RingType, DtType
<1>2. CASE Receiver \/ SyncRead \/ SyncInfoRead \/ SyncInfoWrite
  BY <1>2 DEF Receiver, RxHunt, RxDest, RxPayload, RxPush, RxHold, SyncRead,
              SyncInfoRead, SyncInfoWrite, dtVars
<1>3. CASE DataTransfer
  <2>1. CASE DtReadBd
    BY <2>1 DEF DtReadBd
  <2>2. CASE DtReadPtr
    BY <2>2 DEF DtReadPtr
  <2>3. CASE DtPopInfo \/ DtLatchInfo \/ DtIssueBurst \/ DtFrameDone \/ DtWriteWord
    BY <2>3 DEF DtPopInfo, DtLatchInfo, DtIssueBurst, DtFrameDone, DtWriteWord
  <2>4. CASE DtWriteStatus \/ DtResync
    BY <2>4 DEF DtWriteStatus, DtResync
  <2>5. QED
    BY <1>3, <2>1, <2>2, <2>3, <2>4 DEF DataTransfer
<1>4. CASE Driver
  <2>1. st' = st /\ bdn' = bdn
    BY <1>4 DEF Driver, SwReceive, SwStop, SwSetBdNum, SwInitBd, dtVars
  <2>2. bds[bdn].e => bds'[bdn].e
    <3>1. CASE SwReceive
      BY <1>1, <3>1, GivenBack
    <3>2. CASE SwInitBd
      BY <1>1, <3>2, Initialised
    <3>3. CASE SwStop \/ SwSetBdNum
      BY <3>3 DEF SwStop, SwSetBdNum
    <3>4. QED
      BY <1>4, <3>1, <3>2, <3>3 DEF Driver
  <2>3. QED
    BY <2>1, <2>2
<1>5. CASE UNCHANGED vars
  BY <1>5 DEF vars, dtVars
<1>6. QED
  BY <1>2, <1>3, <1>4, <1>5 DEF Next

(* A step that writes a buffer writes the one the Data Transfer block owns. *)
LEMMA MemStep ==
  ASSUME Aligned, OwnInv, [Next]_vars, NEW b \in Bd, ~bds[b].e
  PROVE  mem'[b] = mem[b]
<1>1. CASE DtWriteWord
  <2>1. mem \in [Bd -> Seq(Byte)]
    BY DEF Aligned, TypeOK, RingType
  <2>2. buf = bdn /\ bds[bdn].e
    BY <1>1 DEF Aligned, TransferInv, OwnInv, DtWriteWord
  <2>3. b # buf
    BY <2>2
  <2>4. QED
    BY <1>1, <2>1, <2>3 DEF DtWriteWord
<1>2. CASE ~DtWriteWord
  <2>1. mem' = mem
    BY <1>2
       DEF Next, Receiver, RxHunt, RxDest, RxPayload, RxPush, RxHold, SyncRead,
           SyncInfoRead, SyncInfoWrite, DataTransfer, DtReadBd, DtReadPtr,
           DtPopInfo, DtLatchInfo, DtIssueBurst, DtFrameDone, DtWriteStatus,
           DtResync, Driver, SwReceive, SwStop, SwSetBdNum, SwInitBd, vars
  <2>2. QED
    BY <2>1
<1>3. QED
  BY <1>1, <1>2

(* Software may read a buffer it owns while the core receives into others: *)
(* nothing is written to it before the descriptor is given back.           *)
THEOREM FullBufferKeptTheorem ==
  ASSUME LegalFrames
  PROVE  Spec => FullBufferKept
<1>1. Init => OwnInv
  BY DEF Init, OwnInv
<1>2. Aligned /\ OwnInv /\ [Next]_vars => OwnInv'
  BY OwnStep
<1>3. Aligned /\ OwnInv /\ [Next]_vars
        => [\A b \in Bd : ~bds[b].e => mem'[b] = mem[b]]_vars
  BY MemStep
<1>4. QED
  BY <1>1, <1>2, <1>3, AlignedInvariant, PTL DEF Spec, FullBufferKept

(* The descriptor the Data Transfer block works on is its own. *)
THEOREM OwnInvariant ==
  ASSUME LegalFrames
  PROVE  Spec => []OwnInv
<1>1. Init => OwnInv
  BY DEF Init, OwnInv
<1>2. Aligned /\ OwnInv /\ [Next]_vars => OwnInv'
  BY OwnStep
<1>3. QED
  BY <1>1, <1>2, AlignedInvariant, PTL DEF Spec
-----------------------------------------------------------------------------
(***************************************************************************)
(* DeliveredWhole.  The verdict of an info word is about the bytes between *)
(* two positions of the stream; Aligned says that these are the bytes the  *)
(* Data Transfer block reads, and WrittenInv that it puts them into the    *)
(* buffer in their order.                                                  *)
(***************************************************************************)

(* The bytes the i-th info word is about. *)
BytesOf(i) == SubSeq(hist, info[i].start + 1, FrameEnd(i))

(* A word without the CRC flag stands for a whole undamaged frame. *)
VerdictInv == \A i \in 1..Len(info) : ~info[i].bad => CrcOk(BytesOf(i))

(* What has been written of the frame is what the stream says it is. *)
WrittenInv ==
  st \in {"aw", "w", "stat"} =>
    \A k \in 1..cnt : mem[buf][k] = hist[info[ird].start + k]

WholeInv == VerdictInv /\ WrittenInv /\ DeliveredWhole

(* The i-th word and its bytes: the positions exist. *)
LEMMA WordFacts ==
  ASSUME Aligned, NEW i \in 1..Len(info)
  PROVE  /\ info[i].start \in Nat /\ info[i].len \in Nat
         /\ info[i].bad \in BOOLEAN
         /\ FrameEnd(i) = info[i].start + info[i].len
         /\ FrameEnd(i) \in Nat /\ FrameEnd(i) <= Len(hist)
<1>1. /\ info \in Seq(Word) /\ Len(info) \in Nat
      /\ crcFrom \in Nat /\ addr \in Nat /\ Len(hist) \in Nat
  BY ConstantTypes DEF Aligned, TypeOK, FifoType, RxType, Word
<1>2. info[i] \in Word
  BY <1>1, ElementType
<1>3. info[i].start \in Nat /\ info[i].len \in 0..LenMod-1
      /\ info[i].bad \in BOOLEAN
  BY <1>2 DEF Word
<1>4. FrameEnd(i) = info[i].start + info[i].len
  BY <1>1 DEF FrameEnd
<1>5. FrameEnd(i) <= crcFrom /\ Len(hist) = crcFrom + addr
  BY DEF Aligned, FramesInv, LengthTrue
<1>6. info[i].len \in Nat
  BY <1>3, ConstantTypes
<1>7. FrameEnd(i) \in Nat
  BY <1>3, <1>4, <1>6
<1>8. FrameEnd(i) <= Len(hist)
  BY <1>1, <1>5, <1>7
<1>9. QED
  BY <1>3, <1>4, <1>6, <1>7, <1>8

(* A frame that was on the line stays what it was. *)
LEMMA SentKept ==
  ASSUME LineType, LineNext \/ UNCHANGED lineVars, NEW bytes, CrcOk(bytes)
  PROVE  \E f \in 1..Len(sent') : sent'[f].good /\ bytes = FrameBytes(f)'
<1>1. PICK f \in 1..Len(sent) : sent[f].good /\ bytes = FrameBytes(f)
  BY DEF CrcOk
<1>2. f \in 1..Len(sent') /\ sent'[f] = sent[f]
  <2>1. CASE sent' = sent
    BY <2>1
  <2>2. CASE \E n \in FrameLens, good \in BOOLEAN :
               sent' = Append(sent, [n |-> n, good |-> good])
    BY <2>2 DEF LineType
  <2>3. QED
    BY <2>1, <2>2 DEF LineNext, lineVars
<1>3. FrameBytes(f)' = FrameBytes(f)
  BY <1>2 DEF FrameBytes
<1>4. QED
  BY <1>1, <1>2, <1>3

(* Appending changes nothing before the end. *)
LEMMA PrefixKept ==
  ASSUME NEW S, NEW s \in Seq(S), NEW e \in S, NEW a \in Nat, NEW b \in Nat,
         b <= Len(s)
  PROVE  SubSeq(Append(s, e), a + 1, b) = SubSeq(s, a + 1, b)
OBVIOUS

(* Equal bytes at equal distances are equal sequences. *)
LEMMA SameBytes ==
  ASSUME NEW S, NEW s \in Seq(S), NEW t \in Seq(S), NEW a \in Nat,
         NEW l \in Nat, a + l <= Len(t), l <= Len(s),
         \A k \in 1..l : s[k] = t[a + k]
  PROVE  SubSeq(s, 1, l) = SubSeq(t, a + 1, a + l)
OBVIOUS

(* The place of byte c + 1 after position s. *)
LEMMA NextPlace == \A s, c \in Nat : s + (c + 1) = s + c + 1
OBVIOUS

(* No step takes back what the FIFOs accepted. *)
LEMMA HistoryKept ==
  ASSUME LegalFrames, Aligned, [Next]_vars
  PROVE  /\ LineNext \/ UNCHANGED lineVars
         /\ hist' \in Seq(Byte)
         /\ Len(hist) <= Len(hist')
         /\ \A k \in 1..Len(hist) : hist'[k] = hist[k]
         /\ \A a, b \in Nat :
              b <= Len(hist) => SubSeq(hist', a + 1, b) = SubSeq(hist, a + 1, b)
<1>1. hist \in Seq(Byte)
  BY DEF Aligned, TypeOK, FifoType
<1>2. LineNext \/ UNCHANGED lineVars
  BY DEF Next, Receiver, RxHunt, RxDest, RxPayload, RxPush, RxHold, SyncRead,
         SyncInfoRead, SyncInfoWrite, DataTransfer, DtReadBd, DtReadPtr,
         DtPopInfo, DtLatchInfo, DtIssueBurst, DtFrameDone, DtWriteWord,
         DtWriteStatus, DtResync, Driver, SwReceive, SwStop, SwSetBdNum,
         SwInitBd, vars
<1>3. hist' = hist \/ hist' = Append(hist, LineByte)
  <2>1. CASE RxDest \/ RxPayload
    BY <2>1 DEF RxDest, RxPayload, AcceptByte
  <2>2. CASE ~RxDest /\ ~RxPayload
    BY <2>2
       DEF Next, Receiver, RxHunt, RxPush, RxHold, SyncRead, SyncInfoRead,
           SyncInfoWrite, DataTransfer, DtReadBd, DtReadPtr, DtPopInfo,
           DtLatchInfo, DtIssueBurst, DtFrameDone, DtWriteWord, DtWriteStatus,
           DtResync, Driver, SwReceive, SwStop, SwSetBdNum, SwInitBd, vars,
           fifoVars
  <2>3. QED
    BY <2>1, <2>2
<1>4. LineByte \in Byte
  BY DEF LineByte, Byte, Junk, Aligned, TypeOK, LineType
<1>5. CASE hist' = hist
  BY <1>1, <1>2, <1>5
<1>6. CASE hist' = Append(hist, LineByte)
  <2>1. /\ hist' \in Seq(Byte) /\ Len(hist') = Len(hist) + 1
        /\ \A k \in 1..Len(hist) : hist'[k] = hist[k]
    BY <1>1, <1>4, <1>6, AppendFacts
  <2>2. ASSUME NEW a \in Nat, NEW b \in Nat, b <= Len(hist)
        PROVE  SubSeq(hist', a + 1, b) = SubSeq(hist, a + 1, b)
    BY <1>1, <1>4, <1>6, <2>2, PrefixKept
  <2>3. Len(hist) <= Len(hist')
    BY <1>1, <2>1
  <2>4. QED
    BY <1>2, <2>1, <2>2, <2>3
<1>7. QED
  BY <1>3, <1>5, <1>6

(* The info FIFO's history grows by the word of state 6 only. *)
LEMMA WordsKept ==
  ASSUME Aligned, [Next]_vars
  PROVE  info' = info \/ RxPush
BY DEF Next, Receiver, RxHunt, RxDest, RxPayload, RxHold, SyncRead,
       SyncInfoRead, SyncInfoWrite, DataTransfer, DtReadBd, DtReadPtr,
       DtPopInfo, DtLatchInfo, DtIssueBurst, DtFrameDone, DtWriteWord,
       DtWriteStatus, DtResync, Driver, SwReceive, SwStop, SwSetBdNum,
       SwInitBd, vars, fifoVars

(* Older words and their bytes survive every step. *)
LEMMA OldWords ==
  ASSUME LegalFrames, Aligned, [Next]_vars, NEW i \in 1..Len(info)
  PROVE  /\ i \in 1..Len(info') /\ info'[i] = info[i]
         /\ FrameEnd(i)' = FrameEnd(i)
         /\ BytesOf(i)' = BytesOf(i)
<1>1. info \in Seq(Word) /\ Len(info) \in Nat
  BY DEF Aligned, TypeOK, FifoType, Word
<1>2. i \in 1..Len(info') /\ info'[i] = info[i]
  <2>1. CASE info' = info
    BY <2>1
  <2>2. CASE RxPush
    <3> DEFINE w == [start |-> crcFrom, len |-> addr,
                     bad |-> ~CrcOk(SubSeq(hist, crcFrom + 1, Len(hist)))]
    <3>1. w \in Word
      BY DEF Aligned, TypeOK, RxType, Word
    <3>2. info' = Append(info, w)
      BY <2>2 DEF RxPush
    <3> HIDE DEF w
    <3>3. Len(info') = Len(info) + 1 /\ info'[i] = info[i]
      BY <1>1, <3>1, <3>2, AppendFacts
    <3>4. QED
      BY <1>1, <3>3
  <2>3. QED
    BY <2>1, <2>2, WordsKept
<1>3. i # 0
  BY <1>1
<1>4. FrameEnd(i)' = FrameEnd(i)
  BY <1>2, <1>3 DEF FrameEnd
<1>5. /\ info[i].start \in Nat /\ FrameEnd(i) \in Nat
      /\ FrameEnd(i) <= Len(hist)
  BY WordFacts
<1>6. SubSeq(hist', info[i].start + 1, FrameEnd(i))
        = SubSeq(hist, info[i].start + 1, FrameEnd(i))
  BY <1>5, HistoryKept
<1>7. BytesOf(i)' = BytesOf(i)
  BY <1>2, <1>4, <1>6 DEF BytesOf
<1>8. QED
  BY <1>2, <1>4, <1>7

(* The verdicts stay true, and the new one is. *)
LEMMA VerdictStep ==
  ASSUME LegalFrames, Aligned, VerdictInv, [Next]_vars
  PROVE  VerdictInv'
<1> SUFFICES ASSUME NEW i \in 1..Len(info'), ~info'[i].bad
             PROVE  CrcOk(BytesOf(i))'
  BY DEF VerdictInv
<1>1. LineType /\ (LineNext \/ UNCHANGED lineVars)
  BY HistoryKept DEF Aligned, TypeOK
<1>2. CASE i \in 1..Len(info)
  <2>1. info'[i] = info[i] /\ BytesOf(i)' = BytesOf(i)
    BY <1>2, OldWords
  <2>2. CrcOk(BytesOf(i))
    BY <1>2, <2>1 DEF VerdictInv
  <2>3. \E f \in 1..Len(sent') : sent'[f].good /\ BytesOf(i) = FrameBytes(f)'
    BY <1>1, <2>2, SentKept
  <2>4. QED
    BY <2>1, <2>3 DEF CrcOk
<1>3. CASE i \notin 1..Len(info)
  <2>1. RxPush
    BY <1>3, WordsKept
  <2> DEFINE w == [start |-> crcFrom, len |-> addr,
                   bad |-> ~CrcOk(SubSeq(hist, crcFrom + 1, Len(hist)))]
  <2>2. w \in Word /\ info \in Seq(Word)
    BY DEF Aligned, TypeOK, RxType, FifoType, Word
  <2>3. info' = Append(info, w) /\ hist' = hist
    BY <2>1 DEF RxPush
  <2>4. w.start = crcFrom /\ w.len = addr
        /\ (w.bad <=> ~CrcOk(SubSeq(hist, crcFrom + 1, Len(hist))))
    OBVIOUS
  <2> HIDE DEF w
  <2>5. Len(info') = Len(info) + 1 /\ info'[Len(info) + 1] = w
    BY <2>2, <2>3, AppendFacts
  <2>6. i = Len(info) + 1 /\ Len(info) \in Nat
    BY <1>3, <2>2, <2>5
  <2>7. CrcOk(SubSeq(hist, crcFrom + 1, Len(hist)))
    BY <2>4, <2>5, <2>6
  <2>8. FrameEnd(i)' = crcFrom + addr
    BY <2>4, <2>5, <2>6 DEF FrameEnd
  <2>9. crcFrom + addr = Len(hist)
    BY DEF Aligned, LengthTrue
  <2>10. BytesOf(i)' = SubSeq(hist, crcFrom + 1, Len(hist))
    BY <2>3, <2>4, <2>5, <2>6, <2>8, <2>9 DEF BytesOf
  <2>11. \E f \in 1..Len(sent') : sent'[f].good
           /\ SubSeq(hist, crcFrom + 1, Len(hist)) = FrameBytes(f)'
    BY <1>1, <2>7, SentKept
  <2>12. QED
    BY <2>10, <2>11 DEF CrcOk
<1>4. QED
  BY <1>2, <1>3

(* A word is written where it belongs, and what is written stays. *)
LEMMA WrittenStep ==
  ASSUME LegalFrames, Aligned, WrittenInv, [Next]_vars
  PROVE  WrittenInv'
<1> SUFFICES ASSUME st' \in {"aw", "w", "stat"}, NEW k \in 1..cnt'
             PROVE  mem'[buf'][k] = hist'[info'[ird'].start + k]
  BY DEF WrittenInv
<1>0. cnt \in Nat /\ buf \in Bd /\ mem \in [Bd -> Seq(Byte)] /\ Len(hist) \in Nat
  BY DEF Aligned, TypeOK, DtType, RingType, FifoType
<1>1. CASE DtLatchInfo
  <2>1. cnt' = 0
    BY <1>1 DEF DtLatchInfo, Aligned, TransferInv
  <2>2. QED
    BY <2>1
<1>2. CASE DtWriteWord
  <2>1. /\ ird > 0 /\ len = info[ird].len /\ buf = bdn /\ ~pend
        /\ beats > 0 /\ beats <= len - cnt
        /\ rp = IF cnt < len THEN info[ird].start + cnt + 1 ELSE FrameEnd(ird)
    BY <1>2 DEF DtWriteWord, Aligned, TransferInv
  <2>2. len \in Nat /\ beats \in Nat
    BY ConstantTypes DEF Aligned, TypeOK, DtType
  <2>3. cnt < len
    BY <1>0, <2>1, <2>2
  <2>4. rp = info[ird].start + cnt + 1
    BY <2>1, <2>3
  <2>5. /\ cnt' = cnt + 1 /\ buf' = buf /\ ird' = ird /\ info' = info
        /\ hist' = hist
        /\ mem' = [mem EXCEPT ![buf] = Append(SubSeq(mem[buf], 1, cnt), hist[rp])]
    BY <1>2 DEF DtWriteWord
  <2>6. mem'[buf] = Append(SubSeq(mem[buf], 1, cnt), hist[rp])
    BY <1>0, <2>5
  <2>7. Len(mem[buf]) >= cnt /\ mem[buf] \in Seq(Byte)
    BY <1>0, <1>2 DEF DtWriteWord, Aligned, BufferInv
  <2>8. SubSeq(mem[buf], 1, cnt) \in Seq(Byte)
        /\ Len(SubSeq(mem[buf], 1, cnt)) = cnt
        /\ \A j \in 1..cnt : SubSeq(mem[buf], 1, cnt)[j] = mem[buf][j]
    BY <1>0, <2>7
  <2>9. CASE k \in 1..cnt
    <3>1. mem'[buf][k] = mem[buf][k]
      BY <1>0, <2>6, <2>8, <2>9
    <3>2. mem[buf][k] = hist[info[ird].start + k]
      BY <1>2, <2>9 DEF WrittenInv, DtWriteWord
    <3>3. QED
      BY <2>5, <3>1, <3>2
  <2>10. CASE k = cnt + 1
    <3>1. mem'[buf][k] = hist[rp]
      BY <1>0, <2>6, <2>8, <2>10
    <3>2. info[ird].start \in Nat
      BY <2>1, CurrentInfo
    <3>3. info[ird].start + k = rp
      BY <1>0, <2>4, <2>10, <3>2, NextPlace, Zenon
    <3>4. QED
      BY <2>5, <3>1, <3>3
  <2>11. QED
    BY <1>0, <2>5, <2>9, <2>10
<1>3. CASE ~DtLatchInfo /\ ~DtWriteWord
  <2>1. /\ st \in {"aw", "w", "stat"}
        /\ UNCHANGED <<cnt, buf, mem, ird>>
    BY <1>3
       DEF Next, Receiver, RxHunt, RxDest, RxPayload, RxPush, RxHold, SyncRead,
           SyncInfoRead, SyncInfoWrite, DataTransfer, DtReadBd, DtReadPtr,
           DtPopInfo, DtIssueBurst, DtFrameDone, DtWriteStatus, DtResync,
           Driver, SwReceive, SwStop, SwSetBdNum, SwInitBd, vars, dtVars,
           fifoVars, Resyncing, Consuming
  <2>2. ird > 0 /\ cnt <= len /\ len = info[ird].len
    BY <2>1 DEF Aligned, TransferInv
  <2>3. ird \in 1..Len(info)
    BY <2>2, CurrentInfo
  <2>4. /\ info[ird].start \in Nat /\ info[ird].len \in Nat
        /\ info[ird].start + info[ird].len <= Len(hist)
    BY <2>3, WordFacts
  <2>5. info[ird].start + k \in 1..Len(hist)
    BY <1>0, <2>1, <2>2, <2>4, SMTT(60)
  <2>6. hist'[info[ird].start + k] = hist[info[ird].start + k]
    BY <2>5, HistoryKept
  <2>7. info'[ird] = info[ird]
    BY <2>3, OldWords
  <2>8. mem[buf][k] = hist[info[ird].start + k]
    BY <2>1 DEF WrittenInv
  <2>9. QED
    BY <2>1, <2>6, <2>7, <2>8
<1>4. QED
  BY <1>1, <1>2, <1>3

(* The status write hands over what the verdict was about; nobody writes   *)
(* the buffer after it.                                                    *)
LEMMA DeliveredStep ==
  ASSUME LegalFrames, Aligned, OwnInv, WholeInv, [Next]_vars
  PROVE  DeliveredWhole'
<1> SUFFICES ASSUME NEW b \in Bd, ~bds'[b].e, ~bds'[b].bad
             PROVE  CrcOk(SubSeq(mem[b], 1, bds[b].len))'
  BY DEF DeliveredWhole
<1>0. /\ bds \in [Bd -> Desc]
      /\ mem \in [Bd -> Seq(Byte)] /\ bdn \in Bd /\ swcur \in Bd
      /\ RingType
  BY NextCurRxType DEF Aligned, TypeOK, RingType, DtType
<1>1. LineType /\ (LineNext \/ UNCHANGED lineVars)
  BY HistoryKept DEF Aligned, TypeOK
<1>2. CASE DtWriteStatus /\ b = bdn
  <2>1. /\ bds'[b] = [e |-> FALSE, wrap |-> wrap, len |-> len, bad |-> bad]
        /\ mem' = mem
        /\ st = "stat"
    BY <1>0, <1>2 DEF DtWriteStatus
  <2>2. /\ ird > 0 /\ len = info[ird].len /\ bad = info[ird].bad
        /\ buf = bdn /\ cnt = len
    BY <2>1 DEF Aligned, TransferInv
  <2>3. ird \in 1..Len(info)
    BY <2>2, CurrentInfo
  <2>4. /\ info[ird].start \in Nat /\ len \in Nat
        /\ FrameEnd(ird) = info[ird].start + len
        /\ info[ird].start + len <= Len(hist)
    BY <2>2, <2>3, WordFacts
  <2>5. \A k \in 1..len : mem[b][k] = hist[info[ird].start + k]
    BY <1>2, <2>1, <2>2 DEF WholeInv, WrittenInv
  <2>6. Len(mem[b]) >= len /\ mem[b] \in Seq(Byte) /\ hist \in Seq(Byte)
    BY <1>0, <1>2, <2>1, <2>2 DEF Aligned, BufferInv, TypeOK, FifoType
  <2>7. len <= Len(mem[b])
    BY <2>4, <2>6
  <2>8. SubSeq(mem[b], 1, len)
          = SubSeq(hist, info[ird].start + 1, info[ird].start + len)
    BY <2>4, <2>5, <2>6, <2>7, SameBytes, Zenon
  <2>9. CrcOk(SubSeq(mem[b], 1, len))
    <3>1. ~info[ird].bad
      BY <2>1, <2>2
    <3>2. CrcOk(BytesOf(ird))
      BY <2>3, <3>1 DEF WholeInv, VerdictInv
    <3>3. BytesOf(ird) = SubSeq(mem[b], 1, len)
      BY <2>4, <2>8 DEF BytesOf
    <3>4. QED
      BY <3>2, <3>3, Zenon
  <2>10. \E f \in 1..Len(sent') :
           sent'[f].good /\ SubSeq(mem[b], 1, len) = FrameBytes(f)'
    BY <1>1, <2>9, SentKept
  <2>11. SubSeq(mem'[b], 1, bds'[b].len) = SubSeq(mem[b], 1, len)
    <3>1. bds'[b].len = len
      BY <2>1
    <3>2. mem'[b] = mem[b]
      BY <2>1
    <3>3. QED
      BY <3>1, <3>2, Zenon
  <2>12. QED
    BY <2>10, <2>11, Zenon DEF CrcOk
<1>3. CASE ~(DtWriteStatus /\ b = bdn)
  <2>1. bds'[b] = bds[b]
    <3>1. CASE DtWriteStatus
      BY <1>0, <1>3, <3>1 DEF DtWriteStatus
    <3>2. CASE SwReceive
      BY <1>0, <3>2, GivenBack
    <3>3. CASE SwInitBd
      BY <1>0, <3>3, Initialised
    <3>4. CASE ~DtWriteStatus /\ ~SwReceive /\ ~SwInitBd
      BY <3>4
         DEF Next, Receiver, RxHunt, RxDest, RxPayload, RxPush, RxHold,
             SyncRead, SyncInfoRead, SyncInfoWrite, DataTransfer, DtReadBd,
             DtReadPtr, DtPopInfo, DtLatchInfo, DtIssueBurst, DtFrameDone,
             DtWriteWord, DtResync, Driver, SwStop, SwSetBdNum, vars
    <3>5. QED
      BY <3>1, <3>2, <3>3, <3>4
  <2>2. mem'[b] = mem[b]
    BY <2>1, MemStep
  <2>3. CrcOk(SubSeq(mem[b], 1, bds[b].len))
    BY <2>1 DEF WholeInv, DeliveredWhole
  <2>4. \E f \in 1..Len(sent') :
          sent'[f].good /\ SubSeq(mem[b], 1, bds[b].len) = FrameBytes(f)'
    BY <1>1, <2>3, SentKept
  <2>5. QED
    BY <2>1, <2>2, <2>4 DEF CrcOk
<1>4. QED
  BY <1>2, <1>3

(* At first there are no words and every descriptor has the CRC flag. *)
LEMMA InitWhole ==
  ASSUME Init
  PROVE  WholeInv
<1>1. info = <<>> /\ st = "bd"
      /\ bds = [b \in Bd |-> [e |-> FALSE, wrap |-> FALSE, len |-> 0,
                             bad |-> TRUE]]
  BY DEF Init
<1>2. VerdictInv /\ WrittenInv
  BY <1>1 DEF VerdictInv, WrittenInv
<1>3. DeliveredWhole
  BY <1>1 DEF DeliveredWhole
<1>4. QED
  BY <1>2, <1>3 DEF WholeInv

(* Whatever software takes out of a descriptor without the CRC flag is one *)
(* whole undamaged frame of the line: across overruns of both FIFOs,       *)
(* runts, receivers that woke up in mid-frame, late synchronisers, and any *)
(* number of ring re-initialisations at any moment.                        *)
THEOREM DeliveredWholeTheorem ==
  ASSUME LegalFrames
  PROVE  Spec => []DeliveredWhole
<1>1. Init => WholeInv
  BY InitWhole
<1>2. Aligned /\ OwnInv /\ WholeInv /\ [Next]_vars => WholeInv'
  BY VerdictStep, WrittenStep, DeliveredStep DEF WholeInv
<1>3. WholeInv => DeliveredWhole
  BY DEF WholeInv
<1>4. QED
  BY <1>1, <1>2, <1>3, AlignedInvariant, OwnInvariant, PTL DEF Spec

-----------------------------------------------------------------------------
(***************************************************************************)
(* RxPath implements FrameChannel: software is handed undamaged frames     *)
(* only, in the order of the line, none twice.  It holds from the (one)    *)
(* initialisation of the ring on; a status written across a                *)
(* re-initialisation may come out of turn.                                 *)
(*                                                                         *)
(* Two orders have to agree.  StreamInv is the order in which bytes, and   *)
(* with them words, were accepted; OnceInv is the order in which the words *)
(* lie in the ring, between the Data Transfer block and the driver.        *)
(***************************************************************************)
(* Bytes of frames were accepted in line order, each at most once. *)
Older(x, y) == x[1] < y[1] \/ (x[1] = y[1] /\ x[2] < y[2])

StreamInv ==
  /\ \A i, j \in 1..Len(info) : i < j => FrameEnd(i) <= info[j].start
  /\ \A a, b \in 1..Len(hist) :
       a < b /\ hist[a] # Junk /\ hist[b] # Junk => Older(hist[a], hist[b])
  /\ \A a \in 1..Len(hist) : hist[a] # Junk =>
       \/ hist[a][1] < Len(sent)
       \/ hist[a][1] = Len(sent) /\ (dv => hist[a][2] < pos)

(* The frame the i-th word is about, if it is about one. *)
FrameOf(i) == hist[info[i].start + 1][1]

(* Words that have become a status: all that were read but the one in work. *)
Done == IF pend \/ st \in {"aw", "w", "stat"} THEN ird - 1 ELSE ird

(* The descriptors of the ring, and how many of them lie from b to the one *)
(* the Data Transfer block is at; those with the frames not handed up yet. *)
Ring == base..last
RingNext(b) == IF b = last THEN base ELSE b + 1
Behind(b) == IF b < bdn THEN bdn - b ELSE (bdn - base) + (last - b) + 1
Waiting == IF bds[swcur].e THEN 0 ELSE Behind(swcur)

(* The waiting frames are in the last descriptors before that one, the     *)
(* driver at the oldest of them.                                           *)
WaitingInv ==
  /\ bdn \in Ring /\ swcur \in Ring
  /\ bds[swcur].e => swcur = bdn
  /\ \A b \in Ring : ~bds[b].e <=> Behind(b) <= Waiting
  /\ Waiting <= Done

(* Each holds the word of its turn, and the frame of that word. *)
ContentInv ==
  \A b \in Ring : ~bds[b].e =>
    LET i == Done + 1 - Behind(b) IN
      /\ bds[b].bad <=> info[i].bad
      /\ Len(mem[b]) > 0
      /\ mem[b][1] = hist[info[i].start + 1]

(* What was handed up are frames of words before those. *)
GotInv ==
  \A k \in 1..Len(got) :
    \E i \in 1..Done - Waiting : ~info[i].bad /\ got[k] = FrameOf(i)

(* The last descriptor wraps, and no other does; the one at work was read  *)
(* so.                                                                     *)
WrapInv ==
  /\ \A b \in Ring : bds[b].wrap <=> b = last
  /\ st # "bd" => (wrap <=> bdn = last)

(* Before the receiver is enabled, and until the Data Transfer block has   *)
(* moved to the first descriptor, nothing is received.                     *)
IdleInv == st = "bd" /\ ird = 0 /\ got = <<>>

OnceInv ==
  /\ sw # "run" => IdleInv /\ ~rxen
  /\ sw = "stop" <=> inits = 0
  /\ sw = "stop" => ~resync
  /\ sw # "stop" => inits = 1
  /\ sw = "init" =>
       /\ swcur \in Ring
       /\ \A b \in base..swcur - 1 : bds[b].e /\ ~bds[b].wrap
       /\ ~resync => bdn = base
  /\ sw = "run" /\ resync =>
       IdleInv /\ swcur = base /\ \A b \in Ring : bds[b].e
  /\ sw = "run" => WrapInv
  /\ sw = "run" /\ ~resync => WaitingInv /\ ContentInv /\ GotInv

OrderInv == StreamInv /\ OnceInv

-----------------------------------------------------------------------------
(* Lemmas on the ring. *)

(* The descriptors of the ring are natural numbers, base the least.        *)
LEMMA RingFacts ==
  ASSUME RingType
  PROVE  /\ base \in Nat /\ last \in Nat /\ base <= last
         /\ base \in Ring /\ last \in Ring
         /\ Ring \subseteq Bd
         /\ \A b \in Ring : b \in Nat /\ base <= b /\ b <= last /\ b <= LastBd
         /\ last <= LastBd /\ swcur \in Ring
BY ConstAssumption DEF ConstAssumption, Bd, Ring, RingType

(* The distance to the Data Transfer block's descriptor numbers the ring.  *)
LEMMA BehindFacts ==
  ASSUME RingType, bdn \in Ring, NEW b \in Ring
  PROVE  /\ Behind(b) \in Nat /\ Behind(b) >= 1
         /\ Behind(b) <= (last - base) + 1
         /\ b = bdn <=> Behind(b) = (last - base) + 1
         /\ \A c \in Ring : Behind(b) = Behind(c) => b = c
BY RingFacts DEF Behind

(* The next descriptor is one nearer, or the one itself. *)
LEMMA BehindNext ==
  ASSUME RingType, bdn \in Ring, NEW b \in Ring
  PROVE  /\ RingNext(b) \in Ring
         /\ Behind(b) > 1 => Behind(RingNext(b)) = Behind(b) - 1
         /\ Behind(b) = 1 => RingNext(b) = bdn
<1>1. RingNext(b) \in Ring
  BY RingFacts DEF RingNext, Ring
<1>2. QED
  BY <1>1, RingFacts DEF RingNext, Behind

(* When the Data Transfer block moves on, everything is one further away.  *)
LEMMA BehindMoves ==
  ASSUME RingType, bdn \in Ring, base' = base, last' = last,
         bdn' = RingNext(bdn), NEW b \in Ring
  PROVE  Behind(b)' = IF b = bdn THEN 1 ELSE Behind(b) + 1
BY RingFacts DEF RingNext, Behind

(* The Data Transfer block goes round the ring as the driver does. *)
LEMMA SameWay ==
  ASSUME RingType, bdn \in Ring, WrapInv
  PROVE  /\ st # "bd" => NextRxBd = RingNext(bdn)
         /\ NextCurRx = RingNext(swcur)
BY RingFacts DEF WrapInv, NextRxBd, NextCurRx, RingNext

(* The words that have become a status are among those pushed. *)
LEMMA DoneFacts ==
  ASSUME Aligned
  PROVE  Done \in Nat /\ Done <= ird /\ ird <= Len(info) /\ Len(info) \in Nat
         /\ ird \in Nat
<1>1. ird \in Nat /\ iseen \in Nat /\ Len(info) \in Nat
  BY DEF Aligned, TypeOK, FifoType
<1>2. pend \/ st \in {"aw", "w", "stat"} => ird > 0
  BY DEF Aligned, TransferInv
<1>3. ird <= Len(info)
  BY <1>1 DEF Aligned, PointerInv
<1>4. QED
  BY <1>1, <1>2, <1>3 DEF Done

-----------------------------------------------------------------------------
(* The order of the stream. *)

(* The first byte of a piece of the stream. *)
LEMMA FirstOf ==
  ASSUME NEW S, NEW s \in Seq(S), NEW a \in Nat, NEW e \in Nat, a < e,
         e <= Len(s)
  PROVE  SubSeq(s, a + 1, e)[1] = s[a + 1]
OBVIOUS

(* Two pieces that are not empty, one before the other: where they begin.  *)
LEMMA Beginnings ==
  \A s, l, t, m, h \in Nat :
    l > 0 /\ m > 0 /\ s + l <= t /\ t + m <= h =>
      s + 1 \in 1..h /\ t + 1 \in 1..h /\ s + 1 < t + 1
OBVIOUS

(* A word with a good verdict begins with the first byte of its frame. *)
LEMMA GoodWord ==
  ASSUME Aligned, VerdictInv, NEW i \in 1..Len(info), ~info[i].bad
  PROVE  /\ FrameOf(i) \in 1..Len(sent)
         /\ sent[FrameOf(i)].good
         /\ hist[info[i].start + 1] = <<FrameOf(i), 1>>
<1>1. PICK f \in 1..Len(sent) : sent[f].good /\ BytesOf(i) = FrameBytes(f)
  BY DEF VerdictInv, CrcOk
<1>2. /\ info[i].start \in Nat /\ info[i].len \in Nat
      /\ FrameEnd(i) = info[i].start + info[i].len
      /\ FrameEnd(i) <= Len(hist)
  BY WordFacts
<1>3. info[i].len > 0 /\ hist \in Seq(Byte)
  BY DEF Aligned, FramesInv, TypeOK, FifoType
<1>4. BytesOf(i)[1] = hist[info[i].start + 1]
  <2>1. info[i].start < FrameEnd(i) /\ FrameEnd(i) \in Nat
    BY <1>2, <1>3
  <2>2. QED
    BY <1>2, <1>3, <2>1, FirstOf DEF BytesOf
<1>5. sent[f] \in [n: FrameLens, good: BOOLEAN]
  BY ElementType DEF Aligned, TypeOK, LineType
<1>6. sent[f].n \in Nat /\ sent[f].n > 0
  <2>1. \A r \in [n: FrameLens, good: BOOLEAN] : r.n \in FrameLens
    OBVIOUS
  <2>2. \A n \in FrameLens : n \in Nat /\ n > 0
    BY ConstAssumption DEF ConstAssumption
  <2>3. QED
    BY <1>5, <2>1, <2>2, Zenon
<1>7. FrameBytes(f)[1] = <<f, 1>>
  BY <1>6 DEF FrameBytes
<1>8. hist[info[i].start + 1] = <<f, 1>>
  BY <1>1, <1>4, <1>7, Zenon
<1>9. FrameOf(i) = f
  BY <1>8 DEF FrameOf
<1>10. QED
  BY <1>1, <1>8, <1>9

(* Frames of later words are later frames. *)
LEMMA WordsOrdered ==
  ASSUME Aligned, VerdictInv, StreamInv, NEW i \in 1..Len(info),
         NEW j \in 1..Len(info), i < j, ~info[i].bad, ~info[j].bad
  PROVE  FrameOf(i) < FrameOf(j)
<1>1. /\ hist[info[i].start + 1] = <<FrameOf(i), 1>>
      /\ hist[info[j].start + 1] = <<FrameOf(j), 1>>
      /\ FrameOf(i) \in 1..Len(sent) /\ FrameOf(j) \in 1..Len(sent)
  BY GoodWord
<1>2. /\ info[i].start \in Nat /\ info[i].len \in Nat
      /\ info[j].start \in Nat /\ info[j].len \in Nat
      /\ FrameEnd(i) = info[i].start + info[i].len
      /\ FrameEnd(j) = info[j].start + info[j].len
      /\ FrameEnd(i) <= Len(hist) /\ FrameEnd(j) <= Len(hist)
  BY WordFacts
<1>3. info[i].len > 0 /\ info[j].len > 0 /\ FrameEnd(i) <= info[j].start
  BY DEF Aligned, FramesInv, StreamInv
<1>4. Len(hist) \in Nat /\ Len(sent) \in Nat
  BY DEF Aligned, TypeOK, FifoType, LineType
<1> DEFINE a == info[i].start + 1
           b == info[j].start + 1
<1>5. a \in 1..Len(hist) /\ b \in 1..Len(hist) /\ a < b
  BY <1>2, <1>3, <1>4, Beginnings, Zenon
<1> HIDE DEF a, b
<1>6. hist[a] = <<FrameOf(i), 1>> /\ hist[b] = <<FrameOf(j), 1>>
  BY <1>1 DEF a, b
<1>7. hist[a] # Junk /\ hist[b] # Junk
  BY <1>1, <1>4, <1>6 DEF Junk
<1>8. Older(hist[a], hist[b])
  BY <1>5, <1>7 DEF StreamInv
<1>9. QED
  BY <1>1, <1>4, <1>6, <1>8 DEF Older

(* What a step of the line does to the number of the frame and the place   *)
(* in it.                                                                  *)
LEMMA LineMoves ==
  ASSUME LineType, LineInv, LineNext \/ UNCHANGED lineVars
  PROVE  \/ Len(sent') = Len(sent) /\ dv' /\ dv /\ pos' >= pos
         \/ Len(sent') = Len(sent) /\ ~dv'
         \/ Len(sent') = Len(sent) + 1
<1>0. Len(sent) \in Nat /\ pos \in Nat
  BY DEF LineType
<1>1. CASE \E n \in FrameLens, good \in BOOLEAN :
             sent' = Append(sent, [n |-> n, good |-> good])
  <2>1. Len(sent') = Len(sent) + 1
    BY <1>1 DEF LineType
  <2>2. QED
    BY <2>1
<1>2. CASE UNCHANGED lineVars
  <2>1. sent' = sent /\ dv' = dv /\ pos' = pos
    BY <1>2 DEF lineVars
  <2>2. QED
    BY <1>0, <2>1
<1>3. CASE dv /\ pos' = pos + 1 /\ UNCHANGED <<sent, dv>>
  <2>1. sent' = sent /\ dv' /\ dv /\ pos' >= pos
    BY <1>0, <1>3
  <2>2. QED
    BY <2>1
<1>4. CASE dv' = FALSE /\ UNCHANGED sent
  BY <1>4
<1>5. QED
  BY <1>1, <1>2, <1>3, <1>4 DEF LineNext

(* The words' part of StreamInv: a new word begins after all others.       *)
LEMMA WordOrderStep ==
  ASSUME LegalFrames, Aligned, StreamInv, [Next]_vars
  PROVE  \A i, j \in 1..Len(info') : i < j => FrameEnd(i)' <= info'[j].start
<1> SUFFICES ASSUME NEW i \in 1..Len(info'), NEW j \in 1..Len(info'), i < j
             PROVE  FrameEnd(i)' <= info'[j].start
  OBVIOUS
<1>1. CASE j \in 1..Len(info)
  <2>1. i \in 1..Len(info)
    BY <1>1 DEF Aligned, TypeOK, FifoType
  <2>2. info'[j] = info[j] /\ FrameEnd(i)' = FrameEnd(i)
    BY <1>1, <2>1, OldWords
  <2>3. QED
    BY <1>1, <2>1, <2>2 DEF StreamInv
<1>2. CASE j \notin 1..Len(info)
  <2>1. RxPush
    BY <1>2, WordsKept
  <2> DEFINE w == [start |-> crcFrom, len |-> addr,
                   bad |-> ~CrcOk(SubSeq(hist, crcFrom + 1, Len(hist)))]
  <2>2. w \in Word /\ info \in Seq(Word) /\ w.start = crcFrom
    BY DEF Aligned, TypeOK, RxType, FifoType, Word
  <2>3. info' = Append(info, w)
    BY <2>1 DEF RxPush
  <2> HIDE DEF w
  <2>4. Len(info') = Len(info) + 1 /\ info'[Len(info) + 1] = w
        /\ Len(info) \in Nat
    BY <2>2, <2>3, AppendFacts
  <2>5. j = Len(info) + 1 /\ i \in 1..Len(info)
    BY <1>2, <2>4
  <2>6. FrameEnd(i)' = FrameEnd(i)
    BY <2>5, OldWords
  <2>7. FrameEnd(i) <= crcFrom
    BY <2>5 DEF Aligned, FramesInv
  <2>8. QED
    BY <2>2, <2>4, <2>5, <2>6, <2>7
<1>3. QED
  BY <1>1, <1>2

(* The data FIFO accepts the byte on the line or nothing. *)
LEMMA Accepted ==
  ASSUME [Next]_vars
  PROVE  hist' = hist \/ (hist' = Append(hist, LineByte) /\ LineNext)
<1>1. CASE RxDest \/ RxPayload
  BY <1>1 DEF RxDest, RxPayload, AcceptByte
<1>2. CASE ~RxDest /\ ~RxPayload
  BY <1>2
     DEF Next, Receiver, RxHunt, RxPush, RxHold, SyncRead, SyncInfoRead,
         SyncInfoWrite, DataTransfer, DtReadBd, DtReadPtr, DtPopInfo,
         DtLatchInfo, DtIssueBurst, DtFrameDone, DtWriteWord, DtWriteStatus,
         DtResync, Driver, SwReceive, SwStop, SwSetBdNum, SwInitBd, vars,
         fifoVars
<1>3. QED
  BY <1>1, <1>2

(* The bytes' part: what is accepted now is younger than all before it.    *)
LEMMA StreamStep ==
  ASSUME LegalFrames, Aligned, StreamInv, [Next]_vars
  PROVE  StreamInv'
<1>1. /\ hist \in Seq(Byte) /\ sent \in Seq([n: FrameLens, good: BOOLEAN])
      /\ Len(hist) \in Nat /\ Len(sent) \in Nat /\ pos \in Nat
      /\ LineType /\ LineInv
  BY DEF Aligned, TypeOK, FifoType, LineType
<1>2. \A a \in 1..Len(hist) :
        hist[a] \in Byte /\ hist[a][1] \in Nat /\ hist[a][2] \in Nat
  BY <1>1, ElementType DEF Byte
<1>3. LineNext \/ UNCHANGED lineVars
  BY HistoryKept
<1>4. /\ LineType' /\ LineInv'
  BY <1>1, <1>3, LineStep DEF lineVars, LineType, LineInv
<1>5. pos' \in Nat /\ Len(sent') \in Nat
  BY <1>4 DEF LineType
<1>6. ASSUME NEW a \in 1..Len(hist), hist[a] # Junk
      PROVE  \/ hist[a][1] < Len(sent')
             \/ hist[a][1] = Len(sent') /\ (dv' => hist[a][2] < pos')
  <2>1. \/ hist[a][1] < Len(sent)
        \/ hist[a][1] = Len(sent) /\ (dv => hist[a][2] < pos)
    BY <1>6 DEF StreamInv
  <2>2. QED
    BY <1>1, <1>2, <1>3, <1>5, <2>1, LineMoves
<1>7. CASE hist' = hist
  BY <1>6, <1>7, WordOrderStep DEF StreamInv
<1>8. CASE hist' = Append(hist, LineByte) /\ LineNext
  <2>1. LineByte \in Byte
    BY <1>1 DEF LineByte, Junk, Byte
  <2>2. /\ Len(hist') = Len(hist) + 1 /\ hist'[Len(hist) + 1] = LineByte
        /\ \A a \in 1..Len(hist) : hist'[a] = hist[a]
    BY <1>1, <1>8, <2>1, AppendFacts
  <2>3. LineByte # Junk =>
          /\ dv /\ LineByte[1] = Len(sent) /\ LineByte[2] = pos
          /\ Len(sent') = Len(sent)
          /\ dv' => pos' = pos + 1
    BY <1>1, <1>8 DEF LineByte, LineNext
  <2>4. ASSUME NEW a \in 1..Len(hist'), NEW b \in 1..Len(hist'), a < b,
               hist'[a] # Junk, hist'[b] # Junk
        PROVE  Older(hist'[a], hist'[b])
    <3>1. a \in 1..Len(hist) /\ hist'[a] = hist[a]
      BY <1>1, <2>2, <2>4
    <3>2. CASE b \in 1..Len(hist)
      BY <2>2, <2>4, <3>1, <3>2 DEF StreamInv
    <3>3. CASE b = Len(hist) + 1
      <4>1. hist'[b] = LineByte /\ LineByte # Junk
        BY <2>2, <2>4, <3>3
      <4>2. \/ hist[a][1] < Len(sent)
            \/ hist[a][1] = Len(sent) /\ hist[a][2] < pos
        BY <2>3, <2>4, <3>1, <4>1 DEF StreamInv
      <4>3. QED
        BY <2>3, <3>1, <4>1, <4>2 DEF Older
    <3>4. QED
      BY <1>1, <2>2, <3>2, <3>3
  <2>5. ASSUME NEW a \in 1..Len(hist'), hist'[a] # Junk
        PROVE  \/ hist'[a][1] < Len(sent')
               \/ hist'[a][1] = Len(sent') /\ (dv' => hist'[a][2] < pos')
    <3>1. CASE a \in 1..Len(hist)
      BY <1>6, <2>2, <2>5, <3>1
    <3>2. CASE a = Len(hist) + 1
      <4>1. hist'[a] = LineByte /\ LineByte # Junk
        BY <2>2, <2>5, <3>2
      <4>2. QED
        BY <1>1, <2>3, <4>1
    <3>3. QED
      BY <1>1, <2>2, <3>1, <3>2
  <2>6. QED
    BY <2>4, <2>5, WordOrderStep DEF StreamInv
<1>9. QED
  BY <1>7, <1>8, Accepted

-----------------------------------------------------------------------------
(* The order of the ring.  Nothing but a status write, a hand-up and the   *)
(* start changes what the ring holds.                                      *)

(* Words that have become a status keep their verdict and first byte.      *)
LEMMA DoneKept ==
  ASSUME LegalFrames, Aligned, [Next]_vars, NEW i \in 1..Done
  PROVE  /\ i \in 1..Len(info) /\ info'[i] = info[i]
         /\ hist'[info'[i].start + 1] = hist[info[i].start + 1]
         /\ FrameOf(i)' = FrameOf(i)
<1>1. i \in 1..Len(info)
  BY DoneFacts
<1>2. info'[i] = info[i]
  BY <1>1, OldWords
<1>3. /\ info[i].start \in Nat /\ info[i].len \in Nat
      /\ FrameEnd(i) = info[i].start + info[i].len
      /\ FrameEnd(i) <= Len(hist)
  BY <1>1, WordFacts
<1>4. info[i].len > 0 /\ Len(hist) \in Nat
  BY <1>1 DEF Aligned, FramesInv, TypeOK, FifoType
<1>5. info[i].start + 1 \in 1..Len(hist)
  BY <1>3, <1>4
<1>6. hist'[info[i].start + 1] = hist[info[i].start + 1]
  BY <1>5, HistoryKept
<1>7. QED
  BY <1>1, <1>2, <1>6 DEF FrameOf

(* Where Done, the ring and its descriptors stay, and only buffers that    *)
(* are not waiting change, the ring's invariants stay.                     *)
LEMMA RingKept ==
  ASSUME LegalFrames, Aligned, OwnInv, [Next]_vars,
         WaitingInv, ContentInv, GotInv, Done' = Done,
         UNCHANGED <<base, last, bdn, swcur, bds, got>>
  PROVE  WaitingInv' /\ ContentInv' /\ GotInv'
<1>1. /\ Ring' = Ring /\ Waiting' = Waiting
      /\ \A b : Behind(b)' = Behind(b)
  BY DEF Ring, Waiting, Behind
<1>2. WaitingInv'
  BY <1>1 DEF WaitingInv
<1>3. RingType /\ bdn \in Ring
  BY DEF Aligned, TypeOK, WaitingInv
<1>4. ContentInv'
  <2> SUFFICES ASSUME NEW b \in Ring, ~bds[b].e
               PROVE  LET i == Done + 1 - Behind(b) IN
                        /\ bds[b].bad <=> info'[i].bad
                        /\ Len(mem'[b]) > 0
                        /\ mem'[b][1] = hist'[info'[i].start + 1]
    BY <1>1 DEF ContentInv
  <2> DEFINE i == Done + 1 - Behind(b)
  <2>1. /\ bds[b].bad <=> info[i].bad
        /\ Len(mem[b]) > 0
        /\ mem[b][1] = hist[info[i].start + 1]
    BY DEF ContentInv
  <2>2. i \in 1..Done
    BY <1>3, BehindFacts, DoneFacts DEF WaitingInv, Waiting
  <2>3. mem'[b] = mem[b]
    BY <1>3, RingFacts, MemStep
  <2>4. info'[i] = info[i]
        /\ hist'[info'[i].start + 1] = hist[info[i].start + 1]
    BY <2>2, DoneKept
  <2> HIDE DEF i
  <2>5. /\ bds[b].bad <=> info'[i].bad
        /\ Len(mem'[b]) > 0
        /\ mem'[b][1] = hist'[info'[i].start + 1]
    BY <2>1, <2>3, <2>4
  <2>6. QED
    BY <2>5 DEF i
<1>5. GotInv'
  <2> SUFFICES ASSUME NEW k \in 1..Len(got)
               PROVE  \E i \in 1..Done - Waiting :
                        ~info'[i].bad /\ got[k] = FrameOf(i)'
    BY <1>1 DEF GotInv
  <2>1. PICK i \in 1..Done - Waiting : ~info[i].bad /\ got[k] = FrameOf(i)
    BY DEF GotInv
  <2>2. Waiting \in Nat
    BY <1>3, BehindFacts DEF Waiting, WaitingInv
  <2>3. i \in 1..Done
    BY <2>1, <2>2, DoneFacts
  <2>4. info'[i] = info[i] /\ FrameOf(i)' = FrameOf(i)
    BY <2>3, DoneKept
  <2>5. QED
    BY <2>1, <2>4
<1>6. QED
  BY <1>2, <1>4, <1>5

(* The status write adds the word just finished. *)
LEMMA StatusAdds ==
  ASSUME LegalFrames, Aligned, OwnInv, WrittenInv, [Next]_vars,
         WaitingInv, ContentInv, GotInv, WrapInv, DtWriteStatus
  PROVE  WaitingInv' /\ ContentInv' /\ GotInv' /\ WrapInv'
<1>0. /\ RingType /\ bdn \in Ring /\ swcur \in Ring /\ bdn \in Bd
      /\ bds \in [Bd -> Desc]
  BY DEF Aligned, TypeOK, RingType, DtType, WaitingInv
<1>1. /\ base' = base /\ last' = last /\ swcur' = swcur
      /\ bds' = [bds EXCEPT ![bdn] =
                   [e |-> FALSE, wrap |-> wrap, len |-> len, bad |-> bad]]
      /\ st = "stat" /\ st' = "bd" /\ pend' = pend /\ ird' = ird
      /\ info' = info /\ hist' = hist /\ mem' = mem /\ got' = got
  BY DEF DtWriteStatus, swVars, fifoVars
<1>a. bdn' = RingNext(bdn)
  BY <1>0, <1>1, SameWay DEF DtWriteStatus
<1>2. ~pend /\ ird > 0 /\ ird \in Nat /\ Done = ird - 1 /\ Done' = ird
  BY <1>1, DoneFacts DEF Aligned, TransferInv, Done
<1>3. Ring' = Ring
  BY <1>1 DEF Ring
<1>4. \A b \in Ring : Behind(b)' = IF b = bdn THEN 1 ELSE Behind(b) + 1
  BY <1>0, <1>1, <1>a, BehindMoves
<1>5. bds[bdn].e
  BY <1>1 DEF OwnInv
<1>6. /\ bds'[bdn] = [e |-> FALSE, wrap |-> wrap, len |-> len, bad |-> bad]
      /\ \A b \in Ring : b # bdn => bds'[b] = bds[b]
  BY <1>0, <1>1, RingFacts
<1>7. ~bds'[bdn].e /\ (bds'[bdn].bad <=> bad)
  BY <1>6
<1>8. Waiting \in Nat /\ Waiting <= (last - base)
      /\ Waiting <= Done
  <2>1. (last - base) \in Nat
    BY <1>0, RingFacts
  <2>2. swcur = bdn => Waiting = 0
    BY <1>5 DEF Waiting
  <2>3. swcur # bdn => Behind(swcur) \in Nat /\ Behind(swcur) <= last - base
    BY <1>0, <2>1, BehindFacts
  <2>4. QED
    BY <2>1, <2>2, <2>3 DEF Waiting, WaitingInv
<1>9. Waiting' = Waiting + 1
  <2>1. CASE bds[swcur].e
    <3>1. swcur = bdn
      BY <2>1 DEF WaitingInv
    <3>2. Behind(swcur)' = 1
      BY <1>0, <1>1, <1>4, <3>1
    <3>3. QED
      BY <1>1, <1>7, <2>1, <3>1, <3>2 DEF Waiting
  <2>2. CASE ~bds[swcur].e
    <3>1. swcur # bdn
      BY <1>5, <2>2
    <3>2. Behind(swcur)' = Behind(swcur) + 1 /\ ~bds'[swcur].e
      BY <1>0, <1>1, <1>4, <1>6, <2>2, <3>1
    <3>3. QED
      BY <1>1, <2>2, <3>2 DEF Waiting
  <2>3. QED
    BY <2>1, <2>2
<1>10. WaitingInv'
  <2>1. bdn' \in Ring /\ swcur' \in Ring
    BY <1>0, <1>1, <1>a, BehindNext
  <2>2. bds'[swcur'].e => swcur' = bdn'
    <3>1. ~bds'[swcur].e
      BY <1>0, <1>5, <1>6, <1>7 DEF WaitingInv
    <3>2. QED
      BY <1>1, <3>1
  <2>3. ASSUME NEW b \in Ring
        PROVE  ~bds'[b].e <=> Behind(b)' <= Waiting'
    <3>1. CASE b = bdn
      BY <1>4, <1>7, <1>8, <1>9, <3>1
    <3>2. CASE b # bdn
      <4>1. Behind(b)' = Behind(b) + 1 /\ bds'[b] = bds[b]
        BY <1>4, <1>6, <3>2
      <4>2. Behind(b) \in Nat
        BY <1>0, BehindFacts
      <4>3. ~bds[b].e <=> Behind(b) <= Waiting
        BY DEF WaitingInv
      <4>4. QED
        BY <1>8, <1>9, <4>1, <4>2, <4>3
    <3>3. QED
      BY <3>1, <3>2
  <2>4. Waiting' <= Done'
    BY <1>2, <1>8, <1>9
  <2>5. QED
    BY <1>3, <2>1, <2>2, <2>3, <2>4 DEF WaitingInv
<1>11. ContentInv'
  <2> SUFFICES ASSUME NEW b \in Ring, ~bds'[b].e
               PROVE  LET i == Done' + 1 - Behind(b)' IN
                        /\ bds'[b].bad <=> info[i].bad
                        /\ Len(mem[b]) > 0
                        /\ mem[b][1] = hist[info[i].start + 1]
    BY <1>1, <1>3 DEF ContentInv
  <2>1. CASE b = bdn
    <3>1. Done' + 1 - Behind(b)' = ird
      BY <1>2, <1>4, <2>1
    <3>2. /\ len = info[ird].len /\ bad = info[ird].bad /\ buf = bdn
          /\ cnt = len
      BY <1>1 DEF Aligned, TransferInv
    <3>3. info[ird].len \in Nat /\ info[ird].len > 0
      BY <1>2, CurrentInfo, ConstantTypes
    <3>4. 1 \in 1..cnt
      BY <3>2, <3>3
    <3>5. mem[b][1] = hist[info[ird].start + 1]
      BY <1>1, <2>1, <3>2, <3>4 DEF WrittenInv
    <3>6. Len(mem[b]) > 0
      <4>1. Len(mem[b]) >= cnt /\ mem[b] \in Seq(Byte)
        BY <1>0, <1>1, <2>1, <3>2 DEF Aligned, BufferInv, TypeOK, RingType
      <4>2. QED
        BY <3>2, <3>3, <4>1
    <3>7. bds'[b].bad <=> info[ird].bad
      BY <1>7, <2>1, <3>2
    <3>8. QED
      BY <3>1, <3>5, <3>6, <3>7
  <2>2. CASE b # bdn
    <3>1. bds'[b] = bds[b] /\ Behind(b)' = Behind(b) + 1 /\ Behind(b) \in Nat
      BY <1>0, <1>4, <1>6, <2>2, BehindFacts
    <3>2. Done' + 1 - Behind(b)' = Done + 1 - Behind(b)
      BY <1>2, <3>1
    <3>3. ~bds[b].e
      BY <3>1
    <3>4. QED
      BY <3>1, <3>2, <3>3 DEF ContentInv
  <2>3. QED
    BY <2>1, <2>2
<1>12. GotInv'
  <2>1. Done' - Waiting' = Done - Waiting
    BY <1>2, <1>8, <1>9
  <2>2. \A i : FrameOf(i)' = FrameOf(i)
    BY <1>1 DEF FrameOf
  <2>3. QED
    BY <1>1, <2>1, <2>2 DEF GotInv
<1>13. WrapInv'
  <2>1. wrap <=> bdn = last
    BY <1>1 DEF WrapInv
  <2>2. bds'[bdn].wrap <=> bdn = last
    BY <1>6, <2>1
  <2>3. \A b \in Ring : bds'[b].wrap <=> b = last
    BY <1>6, <2>2 DEF WrapInv
  <2>4. QED
    BY <1>1, <1>3, <2>3 DEF WrapInv
<1>14. QED
  BY <1>10, <1>11, <1>12, <1>13

(* The descriptor the driver is at, when it is full, is the oldest waiting *)
(* one: its frame is younger than all that were handed up.                 *)
LEMMA OldestWaits ==
  ASSUME LegalFrames, Aligned, VerdictInv, StreamInv, WaitingInv, ContentInv,
         GotInv, ~bds[swcur].e
  PROVE  LET i == Done + 1 - Waiting IN
           /\ Waiting \in Nat /\ Waiting >= 1 /\ Waiting = Behind(swcur)
           /\ i \in 1..Done /\ i \in 1..Len(info)
           /\ bds[swcur].bad <=> info[i].bad
           /\ FrameIn(swcur) = FrameOf(i)
           /\ ~bds[swcur].bad =>
                /\ FrameOf(i) \in 1..Len(sent) /\ sent[FrameOf(i)].good
                /\ \A k \in 1..Len(got) : got[k] < FrameOf(i)
<1> DEFINE i == Done + 1 - Waiting
<1>0. RingType /\ bdn \in Ring /\ swcur \in Ring
  BY DEF Aligned, TypeOK, WaitingInv
<1>1. Waiting = Behind(swcur) /\ Waiting \in Nat /\ Waiting >= 1
  BY <1>0, BehindFacts DEF Waiting
<1>2. Waiting <= Done /\ Done \in Nat /\ Done <= Len(info) /\ Len(info) \in Nat
  BY DoneFacts DEF WaitingInv
<1>3. i \in 1..Done /\ i \in 1..Len(info)
  BY <1>1, <1>2
<1>4. /\ bds[swcur].bad <=> info[i].bad
      /\ Len(mem[swcur]) > 0
      /\ mem[swcur][1] = hist[info[i].start + 1]
  BY <1>0, <1>1 DEF ContentInv
<1>5. FrameIn(swcur) = FrameOf(i)
  <2>1. mem[swcur] # <<>>
    BY <1>4
  <2>2. QED
    BY <1>4, <2>1 DEF FrameIn, FrameOf
<1>6. ASSUME ~bds[swcur].bad
      PROVE  /\ FrameOf(i) \in 1..Len(sent) /\ sent[FrameOf(i)].good
             /\ \A k \in 1..Len(got) : got[k] < FrameOf(i)
  <2> HIDE DEF i
  <2>1. ~info[i].bad
    BY <1>4, <1>6
  <2>2. FrameOf(i) \in 1..Len(sent) /\ sent[FrameOf(i)].good
    BY <1>3, <2>1, GoodWord
  <2>3. ASSUME NEW k \in 1..Len(got)
        PROVE  got[k] < FrameOf(i)
    <3>1. PICK j \in 1..Done - Waiting : ~info[j].bad /\ got[k] = FrameOf(j)
      BY DEF GotInv
    <3>2. j \in 1..Len(info) /\ j < i
      BY <1>1, <1>2, <3>1 DEF i
    <3>3. FrameOf(j) < FrameOf(i)
      BY <1>3, <2>1, <3>1, <3>2, WordsOrdered
    <3>4. QED
      BY <3>1, <3>3
  <2>4. QED
    BY <2>2, <2>3
<1>7. QED
  BY <1>1, <1>3, <1>4, <1>5, <1>6

(* Handing a frame up takes it out of the ring. *)
LEMMA ReceiveTakes ==
  ASSUME LegalFrames, Aligned, VerdictInv, StreamInv, WaitingInv, ContentInv,
         GotInv, WrapInv, SwReceive
  PROVE  WaitingInv' /\ ContentInv' /\ GotInv' /\ WrapInv'
<1>0. /\ RingType /\ bdn \in Ring /\ swcur \in Ring /\ swcur \in Bd
      /\ bds \in [Bd -> Desc]
      /\ got \in Seq(Nat)
  BY NextCurRxType DEF Aligned, TypeOK, RingType, DtType, WaitingInv
<1>1. /\ ~bds[swcur].e
      /\ got' = IF bds[swcur].bad THEN got ELSE Append(got, FrameIn(swcur))
      /\ swcur' = RingNext(swcur)
      /\ base' = base /\ last' = last /\ wrap' = wrap /\ bdn' = bdn /\ st' = st /\ pend' = pend /\ ird' = ird
      /\ info' = info /\ hist' = hist /\ mem' = mem /\ sent' = sent
  BY DEF SwReceive, NextCurRx, RingNext, dtVars, fifoVars, lineVars
<1>2. /\ Done' = Done /\ Ring' = Ring
      /\ \A b : Behind(b)' = Behind(b)
      /\ \A i : FrameOf(i)' = FrameOf(i)
  BY <1>1 DEF Done, Ring, Behind, FrameOf
<1> DEFINE i == Done + 1 - Waiting
<1>3. /\ Waiting \in Nat /\ Waiting >= 1 /\ Waiting = Behind(swcur)
      /\ i \in 1..Done /\ i \in 1..Len(info)
      /\ bds[swcur].bad <=> info[i].bad
      /\ FrameIn(swcur) = FrameOf(i)
  BY <1>1, OldestWaits
<1>4. Done \in Nat
  BY DoneFacts
<1>5. /\ bds'[swcur].e /\ bds'[swcur].wrap = bds[swcur].wrap
      /\ \A b \in Ring : b # swcur => bds'[b] = bds[b]
  BY <1>0, GivenBack, RingFacts
<1>6. swcur' \in Ring
  BY <1>0, <1>1, BehindNext
<1>7. \A b \in Ring : ~bds'[b].e <=> Behind(b) <= Waiting - 1
  <2> SUFFICES ASSUME NEW b \in Ring
               PROVE  ~bds'[b].e <=> Behind(b) <= Waiting - 1
    OBVIOUS
  <2>1. CASE b = swcur
    BY <1>3, <1>5, <2>1
  <2>2. CASE b # swcur
    <3>1. Behind(b) # Behind(swcur) /\ Behind(b) \in Nat
      BY <1>0, <2>2, BehindFacts
    <3>2. ~bds[b].e <=> Behind(b) <= Waiting
      BY DEF WaitingInv
    <3>3. QED
      BY <1>3, <1>5, <2>2, <3>1, <3>2
  <2>3. QED
    BY <2>1, <2>2
<1>8. /\ Waiting' = Waiting - 1
      /\ bds'[swcur'].e => swcur' = bdn'
  <2>1. CASE Waiting = 1
    <3>1. swcur' = bdn
      BY <1>0, <1>1, <1>3, <2>1, BehindNext
    <3>2. Behind(bdn) \in Nat /\ Behind(bdn) >= 1
      BY <1>0, BehindFacts
    <3>3. bds'[bdn].e
      BY <1>0, <1>7, <2>1, <3>2
    <3>4. QED
      BY <1>1, <2>1, <3>1, <3>3 DEF Waiting
  <2>2. CASE Waiting > 1
    <3>1. Behind(swcur') = Waiting - 1
      BY <1>0, <1>1, <1>3, <2>2, BehindNext
    <3>2. ~bds'[swcur'].e
      BY <1>3, <1>6, <1>7, <3>1
    <3>3. Waiting' = Behind(swcur)'
      BY <3>2 DEF Waiting
    <3>4. Behind(swcur)' = Behind(swcur')
      BY <1>1 DEF Behind
    <3>5. QED
      BY <3>1, <3>2, <3>3, <3>4
  <2>3. QED
    BY <1>3, <2>1, <2>2
<1>9. WaitingInv'
  <2>1. Waiting <= Done
    BY DEF WaitingInv
  <2>2. Waiting' <= Done'
    BY <1>2, <1>3, <1>4, <1>8, <2>1
  <2>3. QED
    BY <1>0, <1>1, <1>2, <1>6, <1>7, <1>8, <2>2 DEF WaitingInv
<1>10. ContentInv'
  <2> SUFFICES ASSUME NEW b \in Ring, ~bds'[b].e
               PROVE  LET j == Done + 1 - Behind(b) IN
                        /\ bds'[b].bad <=> info[j].bad
                        /\ Len(mem[b]) > 0
                        /\ mem[b][1] = hist[info[j].start + 1]
    BY <1>1, <1>2 DEF ContentInv
  <2>1. b # swcur
    BY <1>5
  <2>2. bds'[b] = bds[b]
    BY <1>5, <2>1
  <2>3. QED
    BY <2>2 DEF ContentInv
<1>11. GotInv'
  <2> SUFFICES ASSUME NEW k \in 1..Len(got')
               PROVE  \E j \in 1..Done' - Waiting' :
                        ~info'[j].bad /\ got'[k] = FrameOf(j)'
    BY DEF GotInv
  <2>1. Done' - Waiting' = i
    BY <1>2, <1>3, <1>4, <1>8
  <2>2. ASSUME NEW m \in 1..Len(got)
        PROVE  \E j \in 1..i : ~info[j].bad /\ got[m] = FrameOf(j)
    <3>1. PICK j \in 1..Done - Waiting : ~info[j].bad /\ got[m] = FrameOf(j)
      BY DEF GotInv
    <3>2. j \in 1..i
      BY <1>3, <1>4, <3>1
    <3>3. QED
      BY <3>1, <3>2
  <2> HIDE DEF i
  <2>3. \E j \in 1..i : ~info[j].bad /\ got'[k] = FrameOf(j)
    <3>1. CASE bds[swcur].bad
      BY <1>1, <2>2, <3>1
    <3>2. CASE ~bds[swcur].bad
      <4>1. got' = Append(got, FrameIn(swcur))
        BY <1>1, <3>2
      <4>2. CASE k \in 1..Len(got)
        <5>1. got'[k] = got[k]
          BY <1>0, <4>1, <4>2
        <5>2. QED
          BY <2>2, <4>2, <5>1
      <4>3. CASE k = Len(got) + 1
        <5>1. got'[k] = FrameOf(i)
          BY <1>0, <1>3, <4>1, <4>3
        <5>2. i \in 1..i
          BY <1>3, <1>4
        <5>3. QED
          BY <1>3, <3>2, <5>1, <5>2
      <4>4. Len(got') = Len(got) + 1 /\ Len(got) \in Nat
        BY <1>0, <4>1
      <4>5. QED
        BY <4>2, <4>3, <4>4
    <3>3. QED
      BY <3>1, <3>2
  <2>4. QED
    BY <1>1, <1>2, <2>1, <2>3
<1>12. WrapInv'
  <2>1. \A b \in Ring : bds'[b].wrap <=> b = last
    BY <1>0, <1>5 DEF WrapInv
  <2>2. QED
    BY <1>1, <1>2, <2>1 DEF WrapInv
<1>13. QED
  BY <1>9, <1>10, <1>11, <1>12

-----------------------------------------------------------------------------
(* The phases of the one initialisation. *)

(* What the phases and the ring read of the Data Transfer block and the    *)
(* driver.                                                                 *)
LEMMA OnceKept ==
  ASSUME LegalFrames, Aligned, OwnInv, OnceInv, [Next]_vars,
         UNCHANGED <<ird, dtVars, resync, bds, swVars>>
  PROVE  OnceInv'
<1>1. UNCHANGED <<st, bdn, wrap, pend, ird, resync, bds, base, last, rxen, sw,
                  swcur, inits, got>>
  BY DEF dtVars, swVars
<1>2. /\ Done' = Done /\ Ring' = Ring /\ (IdleInv' <=> IdleInv)
      /\ WrapInv' <=> WrapInv
  BY <1>1 DEF Done, Ring, IdleInv, WrapInv
<1>3. sw' = "run" /\ ~resync' => WaitingInv' /\ ContentInv' /\ GotInv'
  BY <1>1, <1>2, RingKept DEF OnceInv
<1>4. QED
  BY <1>1, <1>2, <1>3 DEF OnceInv

(* A Data Transfer block that is past state 1 works in the running ring.   *)
LEMMA Working ==
  ASSUME Aligned, OnceInv, st # "bd" \/ (rxen /\ ~resync)
  PROVE  sw = "run" /\ ~resync /\ WaitingInv /\ ContentInv /\ GotInv /\ WrapInv
<1>1. sw \in {"stop", "init", "run"} /\ resync \in BOOLEAN
  BY DEF Aligned, TypeOK, RingType, DtType
<1>2. QED
  BY <1>1 DEF OnceInv, IdleInv

(* From the descriptor's EMPTY bit to the last burst the ring stays.       *)
LEMMA OnceTransfer ==
  ASSUME LegalFrames, Aligned, OwnInv, OnceInv, [Next]_vars,
         \/ DtReadBd \/ DtReadPtr \/ DtPopInfo \/ DtLatchInfo
         \/ DtIssueBurst \/ DtFrameDone \/ DtWriteWord
  PROVE  OnceInv'
<1>1. /\ st # "bd" \/ (rxen /\ ~resync)
      /\ UNCHANGED <<bdn, bds, resync, base, last, rxen, sw, swcur, inits, got>>
      /\ \/ st = "bd" /\ wrap' = bds[bdn].wrap
         \/ st # "bd" /\ wrap' = wrap
  BY DEF DtReadBd, DtReadPtr, DtPopInfo, DtLatchInfo, DtIssueBurst,
         DtFrameDone, DtWriteWord, Resyncing, Consuming, swVars, dtVars
<1>2. /\ sw = "run" /\ ~resync
      /\ WaitingInv /\ ContentInv /\ GotInv /\ WrapInv
  BY <1>1, Working
<1>3. Done' = Done
  <2>1. ird \in Nat /\ (pend => st = "info")
    BY DEF Aligned, TypeOK, FifoType, TransferInv
  <2>2. QED
    BY <2>1
       DEF DtReadBd, DtReadPtr, DtPopInfo, DtLatchInfo, DtIssueBurst,
           DtFrameDone, DtWriteWord, Done, fifoVars
<1>4. WaitingInv' /\ ContentInv' /\ GotInv'
  BY <1>1, <1>2, <1>3, RingKept
<1>5. sw' = "run" /\ ~resync' /\ inits' = inits
  BY <1>1, <1>2
<1>6. inits = 1 /\ inits # 0
  BY <1>2 DEF OnceInv
<1>7. WrapInv'
  <2>1. bdn \in Ring /\ Ring' = Ring
    BY <1>1, <1>2 DEF WaitingInv, Ring
  <2>2. wrap' <=> bdn = last
    BY <1>1, <1>2, <2>1 DEF WrapInv
  <2>3. QED
    BY <1>1, <1>2, <2>1, <2>2 DEF WrapInv
<1>8. QED
  BY <1>4, <1>5, <1>6, <1>7 DEF OnceInv

(* The status write, in the running ring. *)
LEMMA OnceStatus ==
  ASSUME LegalFrames, Aligned, OwnInv, WrittenInv, OnceInv, [Next]_vars,
         DtWriteStatus
  PROVE  OnceInv'
<1>1. sw = "run" /\ ~resync /\ WaitingInv /\ ContentInv /\ GotInv /\ WrapInv
  BY Working DEF DtWriteStatus
<1>2. WaitingInv' /\ ContentInv' /\ GotInv' /\ WrapInv'
  BY <1>1, StatusAdds
<1>3. sw' = "run" /\ ~resync' /\ inits' = inits
  BY <1>1 DEF DtWriteStatus, swVars
<1>4. inits = 1 /\ inits # 0
  BY <1>1 DEF OnceInv
<1>5. QED
  BY <1>2, <1>3, <1>4 DEF OnceInv

(* In an empty ring the driver and the Data Transfer block are at the      *)
(* first descriptor.                                                       *)
LEMMA EmptyRing ==
  ASSUME base' \in Bd, last' \in Bd, base' <= last',
         bdn' = base', swcur' = base', st' = "bd", ~pend',
         ird' = 0, got' = <<>>, \A b \in Ring' : bds'[b].e
  PROVE  WaitingInv' /\ ContentInv' /\ GotInv'
<1>1. base' \in Nat /\ last' \in Nat /\ base' <= last'
  BY ConstAssumption DEF ConstAssumption, Bd
<1>2. base' \in Ring' /\ \A b \in Ring' : b \in Nat /\ base' <= b /\ b <= last'
  BY <1>1 DEF Ring
<1>3. Waiting' = 0 /\ Done' = 0
  BY <1>2 DEF Waiting, Done
<1>4. \A b \in Ring' : ~(Behind(b)' <= 0)
  <2> SUFFICES ASSUME NEW b \in Ring' PROVE ~(Behind(b)' <= 0)
    OBVIOUS
  <2>1. b \in Nat /\ base' <= b /\ b <= last'
    BY <1>2
  <2>2. ~(b < bdn')
    BY <1>1, <2>1
  <2>3. Behind(b)' = (bdn' - base') + (last' - b) + 1
    BY <2>2, Zenon DEF Behind
  <2>4. \A x, y, l \in Nat : y <= l => ~((x - x) + (l - y) + 1 <= 0)
    OBVIOUS
  <2>5. ~((bdn' - base') + (last' - b) + 1 <= 0)
    BY <1>1, <2>1, <2>4, Zenon
  <2>6. QED
    BY <2>3, <2>5, Zenon
<1>5. WaitingInv'
  BY <1>2, <1>3, <1>4 DEF WaitingInv
<1>6. ContentInv' /\ GotInv'
  BY DEF ContentInv, GotInv
<1>7. QED
  BY <1>5, <1>6

(* The Data Transfer block goes to the first descriptor before it reads    *)
(* one.                                                                    *)
LEMMA OnceResync ==
  ASSUME Aligned, OnceInv, DtResync
  PROVE  OnceInv'
<1>1. /\ resync /\ resync' = FALSE /\ bdn' = base /\ st' = "bd"
      /\ UNCHANGED <<bds, base, last, rxen, sw, swcur, inits, got, ird, pend>>
  BY DEF DtResync, Resyncing, swVars, fifoVars
<1>2. IdleInv => IdleInv'
  BY <1>1 DEF IdleInv
<1>3. Ring' = Ring /\ (WrapInv => WrapInv')
  BY <1>1 DEF Ring, WrapInv
<1>4. ASSUME sw = "run"
      PROVE  WaitingInv' /\ ContentInv' /\ GotInv'
  <2>1. /\ st = "bd" /\ ird = 0 /\ got = <<>>
        /\ swcur = base /\ \A b \in Ring : bds[b].e
    BY <1>1, <1>4 DEF OnceInv, IdleInv
  <2>2. ~pend /\ base \in Bd /\ last \in Bd /\ base <= last
    BY <2>1 DEF Aligned, TransferInv, TypeOK, RingType
  <2>3. QED
    BY <1>1, <1>3, <2>1, <2>2, EmptyRing
<1>5. QED
  BY <1>1, <1>2, <1>3, <1>4 DEF OnceInv

(* Handing a frame up, in the running ring. *)
LEMMA OnceReceive ==
  ASSUME LegalFrames, Aligned, VerdictInv, StreamInv, OnceInv, SwReceive
  PROVE  OnceInv'
<1>1. sw = "run" /\ ~bds[swcur].e
  BY DEF SwReceive
<1>2. RingType
  BY DEF Aligned, TypeOK
<1>3. ~resync
  BY <1>1, <1>2, RingFacts DEF OnceInv
<1>4. WaitingInv' /\ ContentInv' /\ GotInv' /\ WrapInv'
  BY <1>1, <1>3, ReceiveTakes DEF OnceInv
<1>5. sw' = "run" /\ ~resync' /\ inits' = inits
  BY <1>1, <1>3 DEF SwReceive
<1>6. inits = 1 /\ inits # 0
  BY <1>1 DEF OnceInv
<1>7. QED
  BY <1>4, <1>5, <1>6 DEF OnceInv

(* The initialisation begins before anything was received. *)
LEMMA OnceSetBdNum ==
  ASSUME Aligned, OnceInv, SwSetBdNum
  PROVE  OnceInv'
<1>1. /\ base' \in Bases /\ last' \in Lasts /\ base' <= last'
      /\ swcur' = base' /\ resync' = TRUE /\ sw' = "init"
      /\ inits' = inits + 1 /\ sw = "stop"
      /\ UNCHANGED <<bds, rxen, got, st, ird>>
  BY DEF SwSetBdNum, dtVars, fifoVars
<1>2. inits = 0 /\ IdleInv /\ ~rxen
  BY <1>1 DEF OnceInv
<1>3. IdleInv'
  BY <1>1, <1>2 DEF IdleInv
<1>4. base' \in Nat /\ last' \in Nat /\ base' <= last'
  BY <1>1, ConstAssumption DEF ConstAssumption
<1>5. swcur' \in Ring'
  BY <1>1, <1>4 DEF Ring
<1>6. \A b \in base'..swcur' - 1 : FALSE
  <2>1. \A n \in Nat : \A b \in n..n - 1 : FALSE
    OBVIOUS
  <2>2. QED
    BY <1>1, <1>4, <2>1, Zenon
<1>7. inits' = 1
  BY <1>1, <1>2
<1>8. QED
  BY <1>1, <1>2, <1>3, <1>5, <1>6, <1>7 DEF OnceInv

(* The initialisation ends with every descriptor of the ring empty.        *)
LEMMA OnceInitBd ==
  ASSUME Aligned, OnceInv, SwInitBd
  PROVE  OnceInv'
<1>1. /\ sw = "init" /\ swcur' = RingNext(swcur)
      /\ IF swcur = last THEN sw' = "run" ELSE sw' = sw /\ rxen' = rxen
      /\ UNCHANGED <<st, bdn, pend, ird, resync, base, last, inits, got>>
  BY DEF SwInitBd, NextCurRx, RingNext, dtVars, fifoVars
<1>2. /\ IdleInv /\ ~rxen /\ inits = 1 /\ swcur \in Ring
      /\ \A b \in base..swcur - 1 : bds[b].e /\ ~bds[b].wrap
      /\ ~resync => bdn = base
  BY <1>1 DEF OnceInv
<1>3. /\ RingType /\ swcur \in Bd
      /\ resync \in BOOLEAN /\ ~pend
  BY <1>2, NextCurRxType DEF Aligned, TypeOK, DtType, TransferInv, IdleInv
<1>4. IdleInv' /\ Ring' = Ring
  BY <1>1, <1>2 DEF IdleInv, Ring
<1>5. \A b \in Ring : b <= swcur => bds'[b].e /\ (bds'[b].wrap <=> b = last)
  <2> SUFFICES ASSUME NEW b \in Ring, b <= swcur
               PROVE  bds'[b].e /\ (bds'[b].wrap <=> b = last)
    OBVIOUS
  <2>1. CASE b = swcur
    BY <1>3, <2>1, Initialised
  <2>2. CASE b # swcur
    <3>1. b \in base..swcur - 1 /\ b # last
      BY <1>2, <1>3, <2>2, RingFacts
    <3>2. bds'[b] = bds[b]
      BY <1>3, <2>2, RingFacts, Initialised
    <3>3. QED
      BY <1>2, <3>1, <3>2
  <2>3. QED
    BY <2>1, <2>2
<1>6. CASE swcur # last
  <2>1. swcur' = swcur + 1 /\ sw' = "init" /\ rxen' = rxen
    BY <1>1, <1>6 DEF RingNext
  <2>2. /\ base \in Nat /\ swcur \in Nat /\ last \in Nat
        /\ base <= swcur /\ swcur < last
    <3>1. /\ base \in Nat /\ last \in Nat
          /\ swcur \in Nat /\ base <= swcur /\ swcur <= last
      BY <1>2, <1>3, RingFacts
    <3>2. QED
      BY <1>6, <3>1
  <2>3. /\ swcur' \in Ring'
        /\ \A b \in base..swcur' - 1 : b \in Ring /\ b <= swcur /\ b # last
    <3>1. /\ swcur + 1 \in Ring
          /\ \A b \in base..(swcur + 1) - 1 : b \in Ring /\ b <= swcur /\ b # last
      BY <2>2 DEF Ring
    <3>2. QED
      BY <1>4, <2>1, <3>1
  <2>4. \A b \in base'..swcur' - 1 : bds'[b].e /\ ~bds'[b].wrap
    BY <1>1, <1>5, <2>3
  <2>5. QED
    BY <1>1, <1>2, <1>4, <2>1, <2>3, <2>4 DEF OnceInv
<1>7. CASE swcur = last
  <2>1. swcur' = base' /\ sw' = "run"
    BY <1>1, <1>7 DEF RingNext
  <2>2. \A b \in Ring' : bds'[b].e /\ (bds'[b].wrap <=> b = last)
    BY <1>3, <1>4, <1>5, <1>7, RingFacts
  <2>3. WrapInv'
    BY <1>1, <1>4, <2>2 DEF WrapInv, IdleInv
  <2>4. ASSUME ~resync'
        PROVE  WaitingInv' /\ ContentInv' /\ GotInv'
    <3>1. /\ base' \in Bd /\ last' \in Bd /\ base' <= last'
          /\ bdn' = base' /\ swcur' = base' /\ st' = "bd"
          /\ ~pend' /\ ird' = 0 /\ got' = <<>>
      BY <1>1, <1>2, <1>3, <2>1, <2>4 DEF IdleInv, RingType
    <3>2. QED
      BY <2>2, <3>1, EmptyRing
  <2>5. QED
    BY <1>1, <1>2, <1>4, <2>1, <2>2, <2>3, <2>4 DEF OnceInv
<1>8. QED
  BY <1>6, <1>7

-----------------------------------------------------------------------------
(* One initialisation: the ring's invariants in every step. *)
LEMMA OnceStep ==
  ASSUME LegalFrames, MaxReinit <= 1, Aligned, OwnInv, WholeInv, OrderInv,
         [Next]_vars
  PROVE  OnceInv'
<1> USE DEF OrderInv, WholeInv
<1>1. CASE Receiver \/ SyncRead \/ SyncInfoRead \/ SyncInfoWrite \/ UNCHANGED vars
  <2>1. UNCHANGED <<ird, dtVars, resync, bds, swVars>>
    BY <1>1 DEF Receiver, RxHunt, RxDest, RxPayload, RxPush, RxHold, SyncRead,
                SyncInfoRead, SyncInfoWrite, fifoVars, vars
  <2>2. QED
    BY <2>1, OnceKept
<1>2. CASE DataTransfer
  BY <1>2, OnceTransfer, OnceStatus, OnceResync DEF DataTransfer
<1>3. CASE SwReceive
  BY <1>3, OnceReceive
<1>4. CASE SwStop
  <2>1. sw = "run" /\ inits < MaxReinit
    BY <1>4 DEF SwStop
  <2>2. inits = 1 /\ MaxReinit \in Nat
    BY <2>1, ConstAssumption DEF OnceInv, ConstAssumption
  <2>3. QED
    BY <2>1, <2>2
<1>5. CASE SwSetBdNum
  BY <1>5, OnceSetBdNum
<1>6. CASE SwInitBd
  BY <1>6, OnceInitBd
<1>7. QED
  BY <1>1, <1>2, <1>3, <1>4, <1>5, <1>6 DEF Next, Driver

(* Before anything happens there is nothing to order. *)
LEMMA OrderInit ==
  ASSUME Init
  PROVE  OrderInv
<1>1. StreamInv
  BY DEF Init, StreamInv
<1>2. IdleInv /\ ~rxen /\ sw = "stop" /\ inits = 0 /\ ~resync
  BY DEF Init, IdleInv
<1>3. QED
  BY <1>1, <1>2 DEF OrderInv, OnceInv

(* All the invariants together. *)
RxInv == Aligned /\ OwnInv /\ WholeInv /\ OrderInv

(* The stream in the order of the line, the ring in the order of the       *)
(* stream, and every word's verdict true.                                  *)
THEOREM OrderInvariant ==
  ASSUME LegalFrames, MaxReinit <= 1
  PROVE  Spec => []RxInv
<1>1. Init => RxInv
  <2> SUFFICES ASSUME Init PROVE RxInv
    OBVIOUS
  <2>1. OwnInv
    BY DEF Init, OwnInv
  <2>2. WholeInv
    BY InitWhole
  <2>3. QED
    BY <2>1, <2>2, InitAligned, OrderInit DEF RxInv
<1>2. RxInv /\ [Next]_vars => RxInv'
  <2> SUFFICES ASSUME RxInv, [Next]_vars PROVE RxInv'
    OBVIOUS
  <2> USE DEF RxInv
  <2>1. Aligned'
    BY AlignedStep
  <2>2. OwnInv'
    BY OwnStep
  <2>3. WholeInv'
    BY VerdictStep, WrittenStep, DeliveredStep DEF WholeInv
  <2>4. StreamInv' /\ OnceInv'
    BY StreamStep, OnceStep DEF OrderInv
  <2>5. QED
    BY <2>1, <2>2, <2>3, <2>4 DEF OrderInv
<1>3. QED
  BY <1>1, <1>2, PTL DEF Spec

-----------------------------------------------------------------------------
(* The refinement. *)

(* FrameChannel sees of the line whether each frame was undamaged. *)
Entered == [f \in 1..Len(sent) |-> sent[f].good]

(* A sequence is the function it is. *)
LEMMA SequenceIsFunction ==
  ASSUME NEW S, NEW s \in Seq(S)
  PROVE  s = [i \in 1..Len(s) |-> s[i]]
OBVIOUS

(* A step of the line enters a frame or nothing. *)
LEMMA LineEnters ==
  ASSUME LineType, LineNext \/ UNCHANGED lineVars
  PROVE  \/ Entered' = Entered
         \/ \E good \in BOOLEAN : Entered' = Append(Entered, good)
<1>1. CASE sent' = sent
  BY <1>1 DEF Entered
<1>2. CASE \E n \in FrameLens, good \in BOOLEAN :
             sent' = Append(sent, [n |-> n, good |-> good])
  <2>1. PICK n \in FrameLens, good \in BOOLEAN :
               sent' = Append(sent, [n |-> n, good |-> good])
    BY <1>2
  <2>2. /\ Len(sent) \in Nat /\ Len(sent') = Len(sent) + 1
        /\ \A f \in 1..Len(sent) : sent'[f] = sent[f]
        /\ sent'[Len(sent) + 1] = [n |-> n, good |-> good]
    BY <2>1 DEF LineType
  <2>3. /\ \A f \in 1..Len(sent) : sent'[f].good = sent[f].good
        /\ sent'[Len(sent) + 1].good = good
    BY <2>2
  <2>4. \A f \in 1..Len(sent) : sent[f].good \in BOOLEAN
    <3>1. \A r \in [n: FrameLens, good: BOOLEAN] : r.good \in BOOLEAN
      OBVIOUS
    <3>2. \A f \in 1..Len(sent) : sent[f] \in [n: FrameLens, good: BOOLEAN]
      BY ElementType DEF LineType
    <3>3. QED
      BY <3>1, <3>2, Zenon
  <2>5. Entered \in Seq(BOOLEAN) /\ Len(Entered) = Len(sent)
    BY <2>2, <2>4 DEF Entered
  <2>6. Entered' = Append(Entered, good)
    <3> DEFINE l == Append(Entered, good)
    <3>1. /\ Len(l) = Len(sent) + 1
          /\ \A f \in 1..Len(sent) : l[f] = Entered[f]
          /\ l[Len(sent) + 1] = good
          /\ l \in Seq(BOOLEAN)
      BY <2>5
    <3>2. \A f \in 1..Len(sent) : Entered[f] = sent[f].good
      BY DEF Entered
    <3> HIDE DEF l
    <3>3. l = [f \in 1..Len(l) |-> l[f]]
      BY <3>1, SequenceIsFunction
    <3>4. \A f \in 1..Len(l) : l[f] = sent'[f].good
      <4> SUFFICES ASSUME NEW f \in 1..Len(l) PROVE l[f] = sent'[f].good
        OBVIOUS
      <4>1. CASE f \in 1..Len(sent)
        BY <2>3, <3>1, <3>2, <4>1, Zenon
      <4>2. CASE f = Len(sent) + 1
        BY <2>3, <3>1, <4>2, Zenon
      <4>3. QED
        BY <2>2, <3>1, <4>1, <4>2
    <3>5. Entered' = [f \in 1..Len(l) |-> sent'[f].good]
      BY <2>2, <3>1 DEF Entered
    <3>6. Entered' = l
      BY <3>3, <3>4, <3>5, Zenon
    <3>7. QED
      BY <3>6 DEF l
  <2>7. QED
    BY <2>6
<1>3. QED
  BY <1>1, <1>2 DEF LineNext, lineVars

(* Every step is a step of the channel, or none of its business. *)
LEMMA ChannelStep ==
  ASSUME LegalFrames, RxInv, [Next]_vars
  PROVE  [Channel!Next]_(Channel!vars)
<1> USE DEF RxInv, OrderInv, WholeInv
<1>1. LineType /\ (LineNext \/ UNCHANGED lineVars)
  BY HistoryKept DEF Aligned, TypeOK
<1>2. CASE SwReceive
  <2>1. /\ sw = "run" /\ ~bds[swcur].e /\ sent' = sent
        /\ got' = IF bds[swcur].bad THEN got ELSE Append(got, FrameIn(swcur))
    BY <1>2 DEF SwReceive, lineVars
  <2>2. Entered' = Entered
    BY <2>1 DEF Entered
  <2>3. CASE bds[swcur].bad
    BY <2>1, <2>2, <2>3 DEF Channel!vars, Entered
  <2>4. CASE ~bds[swcur].bad
    <3>1. RingType
      BY DEF Aligned, TypeOK
    <3>2. ~resync
      BY <2>1, <3>1, RingFacts DEF OnceInv
    <3>3. WaitingInv /\ ContentInv /\ GotInv
      BY <2>1, <3>2 DEF OnceInv
    <3> DEFINE i == Done + 1 - Waiting
    <3>4. /\ FrameIn(swcur) = FrameOf(i)
          /\ FrameOf(i) \in 1..Len(sent) /\ sent[FrameOf(i)].good
          /\ \A k \in 1..Len(got) : got[k] < FrameOf(i)
      BY <2>1, <2>4, <3>3, OldestWaits
    <3>5. PICK f \in 1..Len(sent) :
            /\ sent[f].good /\ f = FrameIn(swcur)
            /\ \A k \in 1..Len(got) : got[k] < f
      BY <3>4
    <3>6. DOMAIN Entered = 1..Len(sent) /\ Entered[f]
      BY <3>5 DEF Entered
    <3>7. DOMAIN got = 1..Len(got)
      BY DEF Aligned, TypeOK, RingType
    <3>8. got' = Append(got, f)
      BY <2>1, <2>4, <3>5
    <3>9. Channel!Deliver
      BY <2>2, <3>5, <3>6, <3>7, <3>8, Zenon DEF Channel!Deliver, Entered
    <3>10. QED
      BY <3>9 DEF Channel!Next
  <2>5. QED
    BY <2>3, <2>4
<1>3. CASE ~SwReceive
  <2>1. got' = got
    BY <1>3
       DEF Next, Receiver, RxHunt, RxDest, RxPayload, RxPush, RxHold, SyncRead,
           SyncInfoRead, SyncInfoWrite, DataTransfer, DtReadBd, DtReadPtr,
           DtPopInfo, DtLatchInfo, DtIssueBurst, DtFrameDone, DtWriteWord,
           DtWriteStatus, DtResync, Driver, SwStop, SwSetBdNum, SwInitBd, vars,
           swVars
  <2>2. CASE Entered' = Entered
    BY <2>1, <2>2 DEF Channel!vars, Entered
  <2>3. CASE \E good \in BOOLEAN : Entered' = Append(Entered, good)
    <3>1. Channel!Enter
      BY <2>1, <2>3, Zenon DEF Channel!Enter, Entered
    <3>2. QED
      BY <3>1 DEF Channel!Next
  <2>4. QED
    BY <1>1, <2>2, <2>3, LineEnters
<1>4. QED
  BY <1>2, <1>3

(* From the ring's initialisation on, the receive path with its driver is  *)
(* a channel of whole frames in line order, none twice: whatever frames    *)
(* come, whatever is dropped, however the two clock domains, the Data      *)
(* Transfer block and the driver interleave.                               *)
THEOREM ReceivePathIsChannel ==
  ASSUME LegalFrames, MaxReinit <= 1
  PROVE  Spec => InOrderOnce
<1>1. Init => Channel!Init
  BY DEF Init, Channel!Init
<1>2. RxInv /\ [Next]_vars => [Channel!Next]_(Channel!vars)
  BY ChannelStep
<1>3. QED
  BY <1>1, <1>2, OrderInvariant, PTL DEF Spec, InOrderOnce, Channel!Spec
=============================================================================
