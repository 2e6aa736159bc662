--------------------------- MODULE MiiMgmtProofs ---------------------------
(***************************************************************************)
(* The MII management interface for preambles, addresses and registers of  *)
(* any width: controller and PHY stay in step from the start bits of every *)
(* frame to its last bit, never drive the line together, and between them  *)
(* give the driver the registers of the PHY.                               *)
(*                                                                         *)
(* The argument follows a bit.  Before a rising edge the line carries what *)
(* bit_cnt of the controller says (LineInv); the bit_cnt of the PHY is the *)
(* same but for a constant (SyncInv), so the bit ends up in the place of   *)
(* the address or of the word it came from (AddressInv, WriteInv, ReadInv).*)
(***************************************************************************)
EXTENDS MiiMgmt, RingArithmetic, SequenceTheorems, TLAPS

-----------------------------------------------------------------------------
(* The inductive invariant. *)

(* The driver's operation and the controller's go together: MIICOMMAND is  *)
(* set while the request waits and while the frame is sent, up to its end. *)
CmdInv ==
  /\ sw # "wait" => state = "idle" /\ ~startReq
  /\ startReq => state = "idle" /\ cmd = op
  /\ state = "frame" => cmd = op \/ (cnt = END /\ cmd = "none")
  /\ state # "frame" /\ ~startReq => cmd = "none"

(* The PHY is in a frame from the second start bit on, and counts with the *)
(* controller.  While the preamble lasts, it has seen ones.                *)
SyncInv ==
  /\ (inFrame <=> state = "frame" /\ cnt > ST)
  /\ inFrame => pcnt = Pos(cnt)
  /\ state = "frame" /\ cnt \in 1..ST => prev = 1

(* Before a rising edge the line carries the bit bit_cnt stands for; at    *)
(* rest nobody drives it.                                                  *)
LineInv ==
  ~mdc =>
    /\ state = "frame" /\ cnt < TA => oe /\ mdo = Header[cnt + 1]
    /\ state # "frame" => ~oe
    /\ ~inFrame => ~poe

(* Both know the direction once the PHY has seen the second opcode bit. *)
OpInv == inFrame /\ pcnt >= 2 => (opRead <=> op = "read")

(* Addresses whose last bit is that of address 0, PHY_ADDR of the model's  *)
(* testbench: the model decides on match before it has latched this bit.   *)
EvenAddresses == \A a \in UsedPhys \cup {PhyAddr} : a[PhyBits] = 0

(* The addresses, as far as they have been sent. *)
AddressInv ==
  /\ phy[PhyBits] = 0 /\ pphy[PhyBits] = 0
  /\ inFrame =>
       /\ \A i \in 1..PhyBits : i <= pcnt - Pos(PHY) => pphy[i] = phy[i]
       /\ \A i \in 1..RegBits : i <= pcnt - Pos(REG) => preg[i] = reg[i]
       /\ (match <=> pcnt >= Pos(REG) /\ phy = PhyAddr)

(* Data bits sent since the turnaround. *)
Bits == cnt - DAT

(* A write: what is left of the word is at the head of data_shift, what    *)
(* was sent at the tail of rd_shift.                                       *)
WriteInv ==
  state = "frame" /\ op = "write" =>
    /\ cnt <= DAT => shift = txd
    /\ cnt >= DAT => \A i \in 1..DataBits - Bits : shift[i] = txd[Bits + i]
    /\ ~mdc /\ cnt \in DAT..END-1 => oe /\ mdo = txd[Bits + 1]
    /\ cnt >= DAT /\ phy = PhyAddr =>
         \A i \in 1..Bits : pshift[DataBits - Bits + i] = txd[i]

(* What a read returns. *)
Answer == IF phy = PhyAddr THEN regs[reg] ELSE [i \in 1..DataBits |-> 1]

(* A read: the same the other way round.  The PHY shifts at the falling    *)
(* edge, half a period before the controller does.                         *)
Gone == IF mdc THEN Bits ELSE Bits + 1
ReadInv ==
  state = "frame" /\ op = "read" =>
    /\ ~mdc /\ cnt \in TA..END-1 => ~oe
    /\ ~mdc => (poe <=> phy = PhyAddr /\ cnt \in TA+1..END-1)
    /\ ~mdc /\ cnt \in DAT..END-1 /\ phy = PhyAddr => pout = Answer[Bits + 1]
    /\ phy = PhyAddr /\ cnt = TA + 1 => pshift = Answer
    /\ phy = PhyAddr /\ cnt >= DAT =>
         \A i \in 1..DataBits - Gone : pshift[i] = Answer[Gone + i]
    /\ cnt >= DAT => \A i \in 1..Bits : rx[DataBits - Bits + i] = Answer[i]
    /\ cmd = "none" => rxd = Answer

(* MIIRX_DATA keeps the answer until the driver has taken it. *)
ServedInv == Served /\ op = "read" => rxd = Answer

-----------------------------------------------------------------------------
(* Widths and words. *)

(* What the proofs use of the assumption on the constants. *)
LEMMA Widths ==
  /\ PreLen \in Nat \ {0} /\ PhyBits \in Nat \ {0} /\ RegBits \in Nat \ {0}
  /\ DataBits \in Nat \ {0} /\ CntMod \in Nat /\ MaxOps \in Nat
  /\ END < CntMod /\ PhyAddr \in Words(PhyBits)
  /\ UsedPhys \subseteq Words(PhyBits)
BY ConstAssumption

(* The places of the fields in the frame. *)
LEMMA Places ==
  /\ ST \in Nat \ {0} /\ PHY \in Nat /\ REG \in Nat /\ TA \in Nat
  /\ DAT \in Nat /\ END \in Nat
  /\ PHY = ST + 4 /\ REG = PHY + PhyBits /\ TA = REG + RegBits
  /\ DAT = TA + 2 /\ END = DAT + DataBits
BY Widths DEF ST, PHY, REG, TA, DAT, END

(* A word is a sequence of bits. *)
LEMMA WordIsSeq ==
  ASSUME NEW n \in Nat, NEW w \in Words(n)
  PROVE  w \in Seq({0, 1}) /\ Len(w) = n
<1>1. DOMAIN w = 1..n /\ w \in [1..n -> {0, 1}]
  BY DEF Words
<1>2. w \in Seq({0, 1})
  BY <1>1
<1> QED BY <1>1, <1>2

(* Shifting a bit in at the end drops the first, which is the head. *)
LEMMA ShiftInBits ==
  ASSUME NEW n \in Nat \ {0}, NEW w \in Words(n), NEW b \in {0, 1}
  PROVE  /\ ShiftIn(w, b) \in Words(n)
         /\ \A i \in 1..n : ShiftIn(w, b)[i] = IF i = n THEN b ELSE w[i + 1]
         /\ Head(w) = w[1] /\ w[1] \in {0, 1}
<1>1. w \in Seq({0, 1}) /\ Len(w) = n /\ w # <<>>
  BY WordIsSeq
<1>2. /\ Tail(w) \in Seq({0, 1}) /\ Len(Tail(w)) = n - 1
      /\ \A i \in 1..n-1 : Tail(w)[i] = w[i + 1]
  BY <1>1, HeadTailProperties
<1>3. ShiftIn(w, b) \in Seq({0, 1}) /\ Len(ShiftIn(w, b)) = n
  BY <1>2, AppendProperties DEF ShiftIn
<1>4. \A i \in 1..n : ShiftIn(w, b)[i] = IF i = n THEN b ELSE w[i + 1]
  BY <1>2, AppendProperties DEF ShiftIn
<1>5. ShiftIn(w, b) \in Words(n)
  BY <1>3, LenProperties DEF Words
<1> QED BY <1>1, <1>4, <1>5

(* bit_cnt does not wrap. *)
LEMMA CntStep ==
  ASSUME cnt \in 0..END, cnt # END
  PROVE  (cnt + 1) % CntMod = cnt + 1
<1> USE DEF ST, PHY, REG, TA, DAT, END
<1>1. CntMod \in Nat \ {0} /\ 0 \in Int /\ cnt + 1 \in 0..CntMod-1
  BY Widths
<1>2. (CntMod * 0 + (cnt + 1)) % CntMod = cnt + 1
  BY <1>1, ModUnique, Zenon
<1>3. CntMod * 0 + (cnt + 1) = cnt + 1
  BY <1>1
<1> QED BY <1>2, <1>3, Zenon

(* What the first of two sequences of bits keeps, and where the second is. *)
LEMMA BitsConcat ==
  ASSUME NEW s \in Seq({0, 1}), NEW t \in Seq({0, 1})
  PROVE  /\ s \o t \in Seq({0, 1}) /\ Len(s \o t) = Len(s) + Len(t)
         /\ \A i \in 1..Len(s) : (s \o t)[i] = s[i]
         /\ \A i \in 1..Len(t) : (s \o t)[Len(s) + i] = t[i]
BY LenProperties, ConcatProperties

(* The bits of the header. *)
LEMMA HeaderBits ==
  ASSUME phy \in Words(PhyBits), reg \in Words(RegBits)
  PROVE  /\ \A i \in 1..DAT : Header[i] \in {0, 1}
         /\ \A i \in 1..ST : Header[i] = 1
         /\ Header[ST + 1] = 0
         /\ Header[ST + 3] = IF cmd = "read" THEN 1 ELSE 0
         /\ \A i \in 1..PhyBits : Header[PHY + i] = phy[i]
         /\ \A i \in 1..RegBits : Header[REG + i] = reg[i]
<1> USE DEF ST, PHY, REG, TA, DAT
<1> DEFINE S == Seq({0, 1})
           pre == [i \in 1..PreLen |-> 1]
           code == IF cmd = "read" THEN <<1, 0>> ELSE <<0, 1>>
           h1 == pre \o <<0, 1>>
           h2 == h1 \o code
           h3 == h2 \o phy
           h4 == h3 \o reg
<1>1. /\ PreLen \in Nat \ {0} /\ PhyBits \in Nat \ {0} /\ RegBits \in Nat \ {0}
  BY Widths
<1>2. pre \in S /\ Len(pre) = PreLen /\ \A i \in 1..PreLen : pre[i] = 1
  <2>1. pre \in Words(PreLen)
    BY <1>1 DEF Words
  <2> QED BY <1>1, <2>1, WordIsSeq
<1>3. /\ phy \in S /\ Len(phy) = PhyBits
      /\ reg \in S /\ Len(reg) = RegBits
  BY <1>1, WordIsSeq
<1>4. code \in S /\ Len(code) = 2 /\ code[1] = IF cmd = "read" THEN 1 ELSE 0
  <2>1. CASE cmd = "read"
    BY <2>1
  <2>2. CASE cmd # "read"
    BY <2>2
  <2> QED BY <2>1, <2>2
<1>5. <<0, 1>> \in S /\ Len(<<0, 1>>) = 2 /\ <<1, 0>> \in S /\ Len(<<1, 0>>) = 2
  OBVIOUS
<1> HIDE DEF pre, code
<1>6. /\ h1 \in S /\ Len(h1) = PreLen + 2
      /\ \A i \in 1..PreLen : h1[i] = 1
      /\ h1[PreLen + 1] = 0
  <2>1. /\ pre \o <<0, 1>> \in Seq({0, 1}) /\ Len(pre \o <<0, 1>>) = Len(pre) + Len(<<0, 1>>)
        /\ \A i \in 1..Len(pre) : (pre \o <<0, 1>>)[i] = pre[i]
        /\ \A i \in 1..Len(<<0, 1>>) : (pre \o <<0, 1>>)[Len(pre) + i] = <<0, 1>>[i]
    BY <1>2, <1>5, BitsConcat, Zenon
  <2> QED BY <1>1, <1>2, <1>5, <2>1
<1> HIDE DEF h1
<1>7. /\ h2 \in S /\ Len(h2) = PHY
      /\ \A i \in 1..PreLen : h2[i] = 1
      /\ h2[PreLen + 1] = 0
      /\ h2[PreLen + 3] = IF cmd = "read" THEN 1 ELSE 0
  <2>1. /\ h1 \o code \in Seq({0, 1}) /\ Len(h1 \o code) = Len(h1) + Len(code)
        /\ \A i \in 1..Len(h1) : (h1 \o code)[i] = h1[i]
        /\ \A i \in 1..Len(code) : (h1 \o code)[Len(h1) + i] = code[i]
    BY <1>4, <1>6, BitsConcat, Zenon
  <2> QED BY <1>1, <1>4, <1>6, <2>1
<1> HIDE DEF h2
<1>8. /\ h3 \in S /\ Len(h3) = REG
      /\ \A i \in 1..PHY : h3[i] = h2[i]
      /\ \A i \in 1..PhyBits : h3[PHY + i] = phy[i]
  <2>1. /\ h2 \o phy \in Seq({0, 1}) /\ Len(h2 \o phy) = Len(h2) + Len(phy)
        /\ \A i \in 1..Len(h2) : (h2 \o phy)[i] = h2[i]
        /\ \A i \in 1..Len(phy) : (h2 \o phy)[Len(h2) + i] = phy[i]
    BY <1>3, <1>7, BitsConcat, Zenon
  <2> QED BY <1>1, <1>3, <1>7, <2>1
<1> HIDE DEF h3
<1>9. /\ h4 \in S /\ Len(h4) = TA
      /\ \A i \in 1..REG : h4[i] = h3[i]
      /\ \A i \in 1..RegBits : h4[REG + i] = reg[i]
  <2>1. /\ h3 \o reg \in Seq({0, 1}) /\ Len(h3 \o reg) = Len(h3) + Len(reg)
        /\ \A i \in 1..Len(h3) : (h3 \o reg)[i] = h3[i]
        /\ \A i \in 1..Len(reg) : (h3 \o reg)[Len(h3) + i] = reg[i]
    BY <1>3, <1>8, BitsConcat, Zenon
  <2> QED BY <1>1, <1>3, <1>8, <2>1
<1> HIDE DEF h4
<1>10. Header = h4 \o <<1, 0>>
  BY DEF Header, h4, h3, h2, h1, pre, code
<1>11. /\ Header \in S /\ Len(Header) = DAT
       /\ \A i \in 1..TA : Header[i] = h4[i]
  <2>1. /\ h4 \o <<1, 0>> \in Seq({0, 1}) /\ Len(h4 \o <<1, 0>>) = Len(h4) + Len(<<1, 0>>)
        /\ \A i \in 1..Len(h4) : (h4 \o <<1, 0>>)[i] = h4[i]
        /\ \A i \in 1..Len(<<1, 0>>) : (h4 \o <<1, 0>>)[Len(h4) + i] = <<1, 0>>[i]
    BY <1>5, <1>9, BitsConcat, Zenon
  <2> QED BY <1>1, <1>5, <1>9, <1>10, <2>1
<1>12. \A i \in 1..DAT : Header[i] \in {0, 1}
  BY <1>11, ElementOfSeq
<1>13. /\ \A i \in 1..ST : Header[i] = 1
       /\ Header[ST + 1] = 0
       /\ Header[ST + 3] = IF cmd = "read" THEN 1 ELSE 0
  <2>1. \A i \in 1..PHY : Header[i] = h2[i]
    BY <1>1, <1>8, <1>9, <1>11
  <2>2. /\ ST + 1 \in 1..PHY /\ ST + 3 \in 1..PHY
        /\ \A i \in 1..ST : i \in 1..PHY
    BY <1>1
  <2> QED BY <1>7, <2>1, <2>2
<1>14. \A i \in 1..PhyBits : Header[PHY + i] = phy[i]
  <2>1. \A i \in 1..PhyBits : PHY + i \in 1..REG /\ PHY + i \in 1..TA
    BY <1>1
  <2> QED BY <1>8, <1>9, <1>11, <2>1
<1>15. \A i \in 1..RegBits : Header[REG + i] = reg[i]
  <2>1. \A i \in 1..RegBits : REG + i \in 1..TA
    BY <1>1
  <2> QED BY <1>9, <1>11, <2>1
<1> QED BY <1>12, <1>13, <1>14, <1>15

-----------------------------------------------------------------------------
(* What holds whatever the words are. *)
MiiInv == TypeOK /\ CmdInv /\ SyncInv /\ LineInv /\ OpInv /\ NoContention

(* The bit the PHY samples at a rising edge. *)
LEMMA LineBit ==
  ASSUME TypeOK, SyncInv, LineInv, ~mdc
  PROVE  /\ Line \in {0, 1}
         /\ state # "frame" => Line = 1
         /\ state = "frame" /\ cnt < TA => Line = Header[cnt + 1]
BY DEF TypeOK, SyncInv, LineInv, Line

(* A rising edge outside a frame: nothing begins at either end but, on a   *)
(* request, the preamble.                                                  *)
LEMMA RiseResting ==
  ASSUME TypeOK, CmdInv, SyncInv, LineInv, Rise, state # "frame"
  PROVE  /\ ~mdc /\ mdc' = TRUE /\ Line = 1 /\ prev' = 1 /\ ~inFrame'
         /\ pcnt' = 0 /\ ~match'
         /\ UNCHANGED <<pphy, preg, opRead, pshift, regs, rx>>
         /\ \/ /\ state = "idle" /\ startReq
               /\ state' = "frame" /\ cnt' = 0 /\ startReq' = FALSE
               /\ shift' = IF cmd = "write" THEN txd ELSE shift
            \/ /\ state' = "idle" /\ ~startReq
               /\ UNCHANGED <<cnt, shift, startReq>>
         /\ UNCHANGED <<outVars, cmd, addrVars, rxd, phyOut, swVars>>
<1>1. Line = 1 /\ ~inFrame
  BY LineBit DEF Rise, SyncInv
<1>2. /\ ~mdc /\ mdc' = TRUE
      /\ UNCHANGED <<outVars, cmd, addrVars, rxd, phyOut, swVars>>
  BY DEF Rise
<1>3. /\ prev' = 1 /\ ~inFrame' /\ pcnt' = 0 /\ ~match'
      /\ UNCHANGED <<pphy, preg, opRead, pshift, regs>>
  <2>1. /\ prev' = Line /\ pcnt' = 0 /\ match' = FALSE
        /\ inFrame' = (prev = 1 /\ Line = 0)
        /\ UNCHANGED <<pphy, preg, opRead, pshift, regs>>
    BY <1>1, Zenon DEF Rise, PhyRise
  <2>2. Line # 0
    BY <1>1
  <2> QED BY <1>1, <2>1, <2>2, Zenon
<1>4. state \in {"idle", "done"} /\ (state = "done" => ~startReq)
  BY DEF TypeOK, CmdInv
<1>5. UNCHANGED rx
  BY <1>4 DEF Rise, StaRise
<1>6. \/ /\ state = "idle" /\ startReq
         /\ state' = "frame" /\ cnt' = 0 /\ startReq' = FALSE
         /\ shift' = IF cmd = "write" THEN txd ELSE shift
      \/ /\ state' = "idle" /\ ~startReq
         /\ UNCHANGED <<cnt, shift, startReq>>
  BY <1>4 DEF Rise, StaRise, TypeOK
<1> QED BY <1>1, <1>2, <1>3, <1>5, <1>6

(* The controller at a rising edge in a frame. *)
LEMMA RiseSending ==
  ASSUME TypeOK, Rise, state = "frame"
  PROVE  /\ ~mdc /\ mdc' = TRUE
         /\ UNCHANGED <<outVars, startReq, cmd, addrVars, rxd, phyOut, swVars>>
         /\ \/ /\ cnt = END /\ cmd = "none" /\ state' = "done" /\ UNCHANGED cnt
            \/ cnt < END /\ cnt' = cnt + 1 /\ state' = "frame"
         /\ shift' = IF cnt >= DAT /\ cmd # "read" THEN ShiftIn(shift, 0) ELSE shift
         /\ rx' = IF cnt >= DAT /\ cmd = "read" /\ cnt # END
                    THEN ShiftIn(rx, Line) ELSE rx
<1>1. /\ ~mdc /\ mdc' = TRUE /\ (cnt = END => cmd = "none")
      /\ UNCHANGED <<outVars, startReq, cmd, addrVars, rxd, phyOut, swVars>>
  BY DEF Rise, StaRise, Done, FrameEnd
<1>2. cnt \in 0..END
  BY DEF TypeOK
<1>3. CASE cnt = END
  BY <1>1, <1>2, <1>3 DEF Rise, StaRise, FrameEnd
<1>4. CASE cnt # END
  <2>1. cnt < END
    BY <1>2, <1>4, Widths DEF ST, PHY, REG, TA, DAT, END
  <2>2. cnt' = (cnt + 1) % CntMod /\ UNCHANGED state
    BY <1>4 DEF Rise, StaRise, FrameEnd
  <2>3. cnt' = cnt + 1
    BY <1>2, <1>4, <2>2, CntStep, Zenon
  <2> QED BY <1>1, <1>4, <2>1, <2>2, <2>3 DEF Rise, StaRise, FrameEnd
<1> QED BY <1>3, <1>4

(* The PHY at the bits of the preamble and at the first start bit. *)
LEMMA RisePreamble ==
  ASSUME TypeOK, SyncInv, LineInv, Rise, state = "frame", cnt <= ST
  PROVE  /\ prev' = Line /\ pcnt' = 0 /\ ~match'
         /\ (inFrame' <=> cnt = ST)
         /\ cnt < ST => prev' = 1
         /\ UNCHANGED <<pphy, preg, opRead, pshift, regs>>
<1> USE Widths, Places
<1>1. ~inFrame /\ cnt \in Nat /\ cnt < TA
  <2>1. cnt \in Nat /\ cnt < TA /\ ~(cnt > ST)
    BY DEF TypeOK
  <2> QED BY <2>1 DEF SyncInv
<1>2. Line = Header[cnt + 1]
  BY <1>1, LineBit DEF Rise
<1>3. /\ cnt < ST => Line = 1
      /\ cnt = ST => Line = 0
  <2>1. phy \in Words(PhyBits) /\ reg \in Words(RegBits)
    BY DEF TypeOK
  <2>2. (\A i \in 1..ST : Header[i] = 1) /\ Header[ST + 1] = 0
    BY <2>1, HeaderBits
  <2>3. cnt < ST => cnt + 1 \in 1..ST
    BY <1>1
  <2> QED BY <1>2, <2>2, <2>3
<1>4. cnt = ST => prev = 1
  <2>1. cnt = ST => cnt \in 1..ST
    OBVIOUS
  <2> QED BY <2>1 DEF SyncInv
<1>5. /\ prev' = Line /\ pcnt' = 0 /\ match' = FALSE
      /\ inFrame' = (prev = 1 /\ Line = 0)
      /\ UNCHANGED <<pphy, preg, opRead, pshift, regs>>
  BY <1>1, Zenon DEF Rise, PhyRise
<1>6. \/ cnt < ST /\ cnt # ST /\ Line # 0
      \/ cnt = ST /\ ~(cnt < ST)
  <2>1. CASE cnt < ST
    <3>1. cnt # ST
      BY <1>1, <2>1
    <3>2. Line # 0
      BY <1>3, <2>1
    <3> QED BY <2>1, <3>1, <3>2
  <2>2. CASE cnt = ST
    BY <1>1, <2>2
  <2>3. cnt < ST \/ cnt = ST
    BY <1>1
  <2> QED BY <2>1, <2>2, <2>3
<1> QED BY <1>3, <1>4, <1>5, <1>6, Zenon

(* The PHY in a frame: the bit goes where its bit_cnt says, which is where *)
(* the controller's says.                                                  *)
LEMMA RiseInFrame ==
  ASSUME TypeOK, SyncInv, LineInv, Rise, state = "frame", cnt > ST
  PROVE  /\ inFrame /\ pcnt = Pos(cnt) /\ cnt \in ST+1..END
         /\ pcnt' = pcnt + 1 /\ (inFrame' <=> cnt # END) /\ prev' \in {0, 1}
         /\ PhySample
         /\ cnt < TA => Line = Header[cnt + 1]
         /\ Line \in {0, 1}
<1>1. inFrame /\ pcnt = Pos(cnt) /\ cnt \in ST+1..END
  <2>1. cnt \in 0..END /\ ST \in Nat /\ END \in Nat
    BY Places DEF TypeOK
  <2> QED BY <2>1 DEF SyncInv
<1>2. PhySample /\ prev' = Line
  BY <1>1 DEF Rise, PhyRise
<1>3. Line \in {0, 1} /\ (cnt < TA => Line = Header[cnt + 1])
  BY LineBit DEF Rise
<1>4. pcnt' = pcnt + 1 /\ (inFrame' <=> cnt # END)
  <2>1. pcnt' = pcnt + 1 /\ inFrame' = (pcnt # Pos(END))
    BY <1>2 DEF PhySample
  <2>2. pcnt # Pos(END) <=> cnt # END
    BY <1>1, Widths DEF ST, PHY, REG, TA, DAT, END, Pos
  <2> QED BY <2>1, <2>2
<1> QED BY <1>1, <1>2, <1>3, <1>4

(* Writes of the driver and the self-clear: what they do to MIICOMMAND.    *)
LEMMA CmdStep ==
  ASSUME TypeOK, CmdInv, SyncInv, LineInv, [Next]_vars
  PROVE  CmdInv'
<1> USE Widths DEF staVars, outVars, addrVars, phyIn, phyOut, swVars
<1>1. CASE Rise
  <2>1. CASE state = "frame"
    <3>1. /\ UNCHANGED <<startReq, cmd, op, sw>>
          /\ \/ cnt = END /\ cmd = "none" /\ state' = "done"
             \/ cnt < END /\ state' = "frame"
      BY <1>1, <2>1, RiseSending
    <3>2. END \in Nat /\ (cnt < END => cnt # END)
      BY DEF ST, PHY, REG, TA, DAT, END, TypeOK
    <3> QED BY <2>1, <3>1, <3>2 DEF TypeOK, CmdInv
  <2>2. CASE state # "frame"
    <3>1. /\ UNCHANGED <<cmd, op, sw>>
          /\ \/ state = "idle" /\ startReq /\ state' = "frame" /\ startReq' = FALSE
             \/ state' = "idle" /\ ~startReq /\ UNCHANGED startReq
      BY <1>1, <2>2, RiseResting
    <3> QED BY <2>2, <3>1 DEF TypeOK, CmdInv
  <2> QED BY <2>1, <2>2
<1>2. CASE Fall
  BY <1>2 DEF Fall, CmdInv
<1>3. CASE HwClear
  BY <1>3 DEF HwClear, Done, FrameEnd, CmdInv, TypeOK
<1>4. CASE SwAddress
  BY <1>4 DEF SwAddress, CmdInv, TypeOK
<1>5. CASE SwCommand
  BY <1>5 DEF SwCommand, CmdInv, TypeOK
<1>6. CASE SwPoll
  BY <1>6 DEF SwPoll, Busy, CmdInv, TypeOK
<1>7. CASE SwClear
  BY <1>7 DEF SwClear, CmdInv, TypeOK
<1>8. CASE UNCHANGED vars
  BY <1>8 DEF vars, CmdInv
<1> QED BY <1>1, <1>2, <1>3, <1>4, <1>5, <1>6, <1>7, <1>8 DEF Next, Driver

(* Both count the same bits. *)
LEMMA SyncStep ==
  ASSUME TypeOK, CmdInv, SyncInv, LineInv, [Next]_vars
  PROVE  SyncInv'
<1> USE Widths, Places DEF staVars, outVars, addrVars, phyIn, phyOut, swVars
<1>1. CASE Rise
  <2>1. CASE state # "frame"
    <3>1. ~inFrame' /\ (state' # "frame" \/ cnt' = 0)
      BY <1>1, <2>1, RiseResting
    <3>2. cnt' = 0 => ~(cnt' > ST) /\ cnt' \notin 1..ST
      OBVIOUS
    <3> QED BY <3>1, <3>2 DEF SyncInv
  <2>2. CASE state = "frame" /\ cnt <= ST
    <3>1. /\ pcnt' = 0 /\ (inFrame' <=> cnt = ST) /\ (cnt < ST => prev' = 1)
      BY <1>1, <2>2, RisePreamble
    <3>2. cnt < END /\ cnt' = cnt + 1 /\ state' = "frame"
      <4>1. cnt \in Nat /\ cnt < END
        BY <2>2 DEF TypeOK
      <4>2. cnt # END
        BY <4>1
      <4> QED BY <1>1, <2>2, <4>1, <4>2, RiseSending
    <3>3. cnt \in Nat
      BY DEF TypeOK
    <3> QED BY <2>2, <3>1, <3>2, <3>3 DEF SyncInv, Pos
  <2>3. CASE state = "frame" /\ cnt > ST
    <3>1. /\ inFrame /\ pcnt = Pos(cnt) /\ cnt \in ST+1..END
          /\ pcnt' = pcnt + 1 /\ (inFrame' <=> cnt # END)
      BY <1>1, <2>3, RiseInFrame
    <3>2. \/ cnt = END /\ state' = "done"
          \/ cnt # END /\ cnt' = cnt + 1 /\ state' = "frame"
      <4>1. cnt < END => cnt # END
        BY <3>1
      <4> QED BY <1>1, <2>3, <4>1, RiseSending
    <3> QED BY <3>1, <3>2 DEF SyncInv, Pos
  <2>4. state # "frame" \/ cnt <= ST \/ cnt > ST
    BY DEF TypeOK
  <2> QED BY <2>1, <2>2, <2>3, <2>4
<1>2. CASE Fall
  BY <1>2 DEF Fall, SyncInv
<1>3. CASE HwClear
  BY <1>3 DEF HwClear, SyncInv
<1>4. CASE SwAddress
  BY <1>4 DEF SwAddress, SyncInv
<1>5. CASE SwCommand
  BY <1>5 DEF SwCommand, SyncInv
<1>6. CASE SwPoll
  BY <1>6 DEF SwPoll, SyncInv
<1>7. CASE SwClear
  BY <1>7 DEF SwClear, SyncInv
<1>8. CASE UNCHANGED vars
  BY <1>8 DEF vars, SyncInv
<1> QED BY <1>1, <1>2, <1>3, <1>4, <1>5, <1>6, <1>7, <1>8 DEF Next, Driver

(* What a falling edge puts on the line. *)
LEMMA LineStep ==
  ASSUME TypeOK, CmdInv, SyncInv, LineInv, [Next]_vars
  PROVE  LineInv'
<1> USE Widths DEF staVars, outVars, addrVars, phyIn, phyOut, swVars
<1>1. CASE Rise
  BY <1>1 DEF Rise, LineInv
<1>2. CASE Fall
  <2>1. UNCHANGED <<state, cnt, cmd, phy, reg, inFrame>> /\ mdo' = MdioOut /\ oe' = MdioOe
    BY <1>2 DEF Fall
  <2>2. state = "frame" /\ cnt < TA => oe' /\ mdo' = Header'[cnt' + 1]
    <3>1. cnt < TA => cnt < DAT
      BY DEF TypeOK, ST, PHY, REG, TA, DAT, END
    <3>2. Header' = Header
      BY <2>1 DEF Header
    <3> QED BY <2>1, <3>1, <3>2 DEF MdioOut, MdioOe
  <2>3. state # "frame" => ~oe'
    BY <2>1 DEF MdioOe
  <2>4. ~inFrame => ~poe'
    BY <1>2 DEF Fall, PhyFall, PhyDrives
  <2> QED BY <2>1, <2>2, <2>3, <2>4 DEF LineInv
<1>3. CASE HwClear
  <2>1. cnt = END /\ ~(cnt < TA) /\ UNCHANGED <<mdc, state, cnt, oe, inFrame, poe>>
    BY <1>3 DEF HwClear, Done, FrameEnd, ST, PHY, REG, TA, DAT, END
  <2> QED BY <2>1 DEF LineInv
<1>4. CASE SwAddress
  BY <1>4 DEF SwAddress, LineInv, CmdInv
<1>5. CASE SwCommand
  BY <1>5 DEF SwCommand, LineInv, CmdInv
<1>6. CASE SwPoll
  BY <1>6 DEF SwPoll, LineInv, Header
<1>7. CASE SwClear
  BY <1>7 DEF SwClear, LineInv, CmdInv
<1>8. CASE UNCHANGED vars
  BY <1>8 DEF vars, LineInv, Header
<1> QED BY <1>1, <1>2, <1>3, <1>4, <1>5, <1>6, <1>7, <1>8 DEF Next, Driver

(* The second opcode bit tells the PHY the direction. *)
LEMMA OpStep ==
  ASSUME TypeOK, CmdInv, SyncInv, LineInv, OpInv, [Next]_vars
  PROVE  OpInv'
<1> USE Widths, Places DEF staVars, outVars, addrVars, phyIn, phyOut, swVars
<1>1. CASE Rise
  <2>1. CASE state # "frame"
    BY <1>1, <2>1, RiseResting DEF OpInv
  <2>2. CASE state = "frame" /\ cnt <= ST
    BY <1>1, <2>2, RisePreamble DEF OpInv
  <2>3. CASE state = "frame" /\ cnt > ST
    <3>1. /\ inFrame /\ pcnt = Pos(cnt) /\ cnt \in ST+1..END
          /\ pcnt' = pcnt + 1 /\ PhySample
          /\ cnt < TA => Line = Header[cnt + 1]
      BY <1>1, <2>3, RiseInFrame
    <3>2. UNCHANGED op
      BY <1>1 DEF Rise
    <3>3. CASE pcnt = 1
      <4>1. cnt = ST + 2
        BY <3>1, <3>3 DEF Pos
      <4>2. cmd = op
        BY <2>3, <4>1 DEF CmdInv
      <4>3. Line = IF cmd = "read" THEN 1 ELSE 0
        <5>1. phy \in Words(PhyBits) /\ reg \in Words(RegBits)
          BY DEF TypeOK
        <5>2. Header[ST + 3] = IF cmd = "read" THEN 1 ELSE 0
          BY <5>1, HeaderBits
        <5>3. cnt < TA /\ cnt + 1 = ST + 3
          BY <4>1
        <5> QED BY <3>1, <5>2, <5>3
      <4>4. opRead' = (Line = 1)
        BY <3>1, <3>3, Zenon DEF PhySample
      <4>5. Line = 1 <=> op = "read"
        BY <4>2, <4>3
      <4> QED BY <3>2, <4>4, <4>5 DEF OpInv
    <3>4. CASE pcnt # 1
      <4>1. opRead' = opRead
        BY <3>1, <3>4, Zenon DEF PhySample
      <4>2. pcnt' >= 2 => pcnt >= 2
        BY <3>1, <3>4 DEF Pos
      <4> QED BY <3>1, <3>2, <4>1, <4>2 DEF OpInv
    <3> QED BY <3>3, <3>4
  <2>4. state # "frame" \/ cnt <= ST \/ cnt > ST
    BY DEF TypeOK
  <2> QED BY <2>1, <2>2, <2>3, <2>4
<1>2. CASE Fall
  BY <1>2 DEF Fall, OpInv
<1>3. CASE HwClear
  BY <1>3 DEF HwClear, OpInv
<1>4. CASE SwAddress
  <2>1. ~inFrame'
    BY <1>4 DEF SwAddress, CmdInv, SyncInv
  <2> QED BY <2>1 DEF OpInv
<1>5. CASE SwCommand
  BY <1>5 DEF SwCommand, OpInv
<1>6. CASE SwPoll
  BY <1>6 DEF SwPoll, OpInv
<1>7. CASE SwClear
  BY <1>7 DEF SwClear, OpInv
<1>8. CASE UNCHANGED vars
  BY <1>8 DEF vars, OpInv
<1> QED BY <1>1, <1>2, <1>3, <1>4, <1>5, <1>6, <1>7, <1>8 DEF Next, Driver

(* When the PHY drives, the controller has let go of the line. *)
LEMMA DrivesAlone ==
  ASSUME TypeOK, CmdInv, SyncInv, OpInv, Fall, poe'
  PROVE  /\ ~oe' /\ state = "frame" /\ cnt \in TA+1..END-1
         /\ op = "read" /\ match
<1> USE Widths, Places
<1>1. inFrame /\ match /\ opRead /\ pcnt \in Pos(TA)+1..Pos(END)-1
  BY DEF Fall, PhyFall, PhyDrives
<1>2. state = "frame" /\ pcnt = Pos(cnt)
  BY <1>1 DEF SyncInv
<1>3. cnt \in TA+1..END-1 /\ pcnt >= 2
  <2>1. cnt \in Nat
    BY DEF TypeOK
  <2> QED BY <1>1, <1>2, <2>1 DEF Pos
<1>4. cmd = op /\ op = "read"
  <2>1. cnt # END
    BY <1>3
  <2> QED BY <1>1, <1>2, <1>3, <2>1 DEF CmdInv, OpInv
<1>5. ~oe'
  <2>1. oe' = (state = "frame" /\ (cmd = "read" => cnt < TA))
    BY Zenon DEF Fall, MdioOe
  <2>2. ~(cnt < TA)
    BY <1>3
  <2> QED BY <1>4, <2>1, <2>2, Zenon
<1> QED BY <1>1, <1>2, <1>3, <1>4, <1>5

(* The two drivers of MDIO turn round with a free bit between them. *)
LEMMA ContentionStep ==
  ASSUME TypeOK, CmdInv, SyncInv, OpInv, NoContention, [Next]_vars
  PROVE  NoContention'
<1> USE Widths, Places DEF staVars, outVars, addrVars, phyIn, phyOut, swVars
<1>1. CASE Rise
  BY <1>1 DEF Rise, NoContention
<1>2. CASE Fall
  BY <1>2, DrivesAlone DEF NoContention
<1>3. CASE HwClear
  BY <1>3 DEF HwClear, NoContention
<1>4. CASE SwAddress
  BY <1>4 DEF SwAddress, NoContention
<1>5. CASE SwCommand
  BY <1>5 DEF SwCommand, NoContention
<1>6. CASE SwPoll
  BY <1>6 DEF SwPoll, NoContention
<1>7. CASE SwClear
  BY <1>7 DEF SwClear, NoContention
<1>8. CASE UNCHANGED vars
  BY <1>8 DEF vars, NoContention
<1> QED BY <1>1, <1>2, <1>3, <1>4, <1>5, <1>6, <1>7, <1>8 DEF Next, Driver

(* Types. *)
LEMMA RiseType ==
  ASSUME TypeOK, CmdInv, SyncInv, LineInv, Rise
  PROVE  TypeOK'
<1> USE Widths, Places DEF outVars, addrVars, phyOut, swVars
<1>1. Line \in {0, 1}
  BY LineBit DEF Rise
<1>2. /\ mdc' \in BOOLEAN /\ mdo' \in {0, 1} /\ oe' \in BOOLEAN
      /\ cmd' \in {"none", "read", "write"}
      /\ phy' \in Words(PhyBits) /\ reg' \in Words(RegBits)
      /\ txd' \in Words(DataBits) /\ rxd' \in Words(DataBits)
      /\ pout' \in {0, 1} /\ poe' \in BOOLEAN
      /\ sw' \in {"idle", "cmd", "wait", "clear"} /\ op' \in {"read", "write"}
      /\ ops' \in 0..MaxOps
  <2>1. /\ mdc' = TRUE
        /\ UNCHANGED <<mdo, oe, cmd, phy, reg, txd, rxd, pout, poe, sw, op, ops>>
    BY DEF Rise
  <2> QED BY <2>1 DEF TypeOK
<1>3. /\ state' \in {"idle", "frame", "done"} /\ cnt' \in 0..END
      /\ startReq' \in BOOLEAN
      /\ shift' \in Words(DataBits) /\ rx' \in Words(DataBits)
  <2>1. CASE state # "frame"
    <3>1. /\ \/ /\ state' = "frame" /\ cnt' = 0 /\ startReq' = FALSE
                /\ shift' = IF cmd = "write" THEN txd ELSE shift
             \/ state' = "idle" /\ UNCHANGED <<cnt, shift, startReq>>
          /\ rx' = rx
      BY <2>1, RiseResting, Zenon
    <3>2. 0 \in 0..END
      OBVIOUS
    <3> QED BY <3>1, <3>2 DEF TypeOK
  <2>2. CASE state = "frame"
    <3>1. /\ ShiftIn(shift, 0) \in Words(DataBits)
          /\ ShiftIn(rx, Line) \in Words(DataBits)
      BY <1>1, ShiftInBits DEF TypeOK
    <3>2. cnt \in 0..END /\ (cnt < END => cnt + 1 \in 0..END)
      BY DEF TypeOK
    <3> QED BY <2>2, <3>1, <3>2, RiseSending DEF TypeOK
  <2> QED BY <2>1, <2>2
<1>4. /\ prev' \in {0, 1} /\ inFrame' \in BOOLEAN /\ pcnt' \in 0..Pos(END)+1
      /\ pphy' \in Words(PhyBits) /\ preg' \in Words(RegBits)
      /\ match' \in BOOLEAN /\ opRead' \in BOOLEAN /\ pshift' \in Words(DataBits)
      /\ regs' \in [Words(RegBits) -> Words(DataBits)]
  <2>1. CASE ~inFrame
    <3>1. /\ prev' = Line /\ pcnt' = 0 /\ match' = FALSE
          /\ inFrame' = (prev = 1 /\ Line = 0)
          /\ UNCHANGED <<pphy, preg, opRead, pshift, regs>>
      BY <2>1, Zenon DEF Rise, PhyRise
    <3>2. inFrame' \in BOOLEAN
      BY <3>1, Zenon
    <3>3. 0 \in 0..Pos(END)+1
      BY DEF Pos
    <3> QED BY <1>1, <3>1, <3>2, <3>3 DEF TypeOK
  <2>2. CASE inFrame
    <3>1. state = "frame" /\ cnt > ST
      BY <2>2 DEF SyncInv
    <3>2. PhySample /\ prev' = Line /\ pcnt' = pcnt + 1
      BY <2>2 DEF Rise, PhyRise, PhySample
    <3>3. pcnt' \in 0..Pos(END)+1
      <4>1. pcnt = Pos(cnt) /\ cnt \in 0..END
        BY <2>2 DEF SyncInv, TypeOK
      <4> QED BY <3>1, <3>2, <4>1 DEF Pos
    <3>4. inFrame' \in BOOLEAN /\ opRead' \in BOOLEAN /\ match' \in BOOLEAN
      BY <3>2, Zenon DEF PhySample, TypeOK
    <3>5. pphy' \in Words(PhyBits) /\ preg' \in Words(RegBits)
      BY <1>1, <3>2 DEF PhySample, SetBit, TypeOK, Words
    <3>6. pshift' \in Words(DataBits)
      <4>1. ShiftIn(pshift, Line) \in Words(DataBits) /\ regs[preg] \in Words(DataBits)
        BY <1>1, ShiftInBits DEF TypeOK
      <4> QED BY <3>2, <4>1 DEF PhySample, TypeOK
    <3>7. regs' \in [Words(RegBits) -> Words(DataBits)]
      BY <3>2 DEF PhySample, TypeOK
    <3> QED BY <1>1, <3>2, <3>3, <3>4, <3>5, <3>6, <3>7
  <2> QED BY <2>1, <2>2
<1> QED BY <1>2, <1>3, <1>4 DEF TypeOK

(* Types at a falling edge of MDC. *)
LEMMA FallType ==
  ASSUME TypeOK, Fall
  PROVE  TypeOK'
<1> USE Widths, Places
<1>1. mdo' \in {0, 1}
  <2>1. shift \in Words(DataBits) /\ phy \in Words(PhyBits) /\ reg \in Words(RegBits)
    BY DEF TypeOK
  <2>2. Head(shift) \in {0, 1}
    BY <2>1, ShiftInBits
  <2>3. cnt < DAT => Header[cnt + 1] \in {0, 1}
    <3>1. cnt < DAT => cnt + 1 \in 1..DAT
      BY DEF TypeOK
    <3> QED BY <2>1, <3>1, HeaderBits
  <2> QED BY <2>2, <2>3 DEF Fall, MdioOut
<1>2. oe' \in BOOLEAN /\ poe' \in BOOLEAN
  <2>1. /\ oe' = (state = "frame" /\ (cmd = "read" => cnt < TA))
        /\ poe' = (PhyDrives /\ pcnt \in Pos(TA)+1..Pos(END)-1)
    BY Zenon DEF Fall, MdioOe, PhyFall
  <2> QED BY <2>1, Zenon
<1>3. pout' \in {0, 1} /\ pshift' \in Words(DataBits)
  <2>1. Head(pshift) \in {0, 1} /\ ShiftIn(pshift, 0) \in Words(DataBits)
    BY ShiftInBits DEF TypeOK
  <2> QED BY <2>1 DEF Fall, PhyFall, TypeOK
<1>4. /\ mdc' = FALSE
      /\ UNCHANGED <<state, cnt, shift, rx, startReq, cmd, phy, reg, txd, rxd>>
      /\ UNCHANGED <<prev, inFrame, pcnt, pphy, preg, match, opRead, regs>>
      /\ UNCHANGED <<sw, op, ops>>
  BY DEF Fall, staVars, addrVars, phyIn, swVars
<1>5. pcnt' \in 0..Pos(END)+1
  BY <1>4 DEF TypeOK, Pos
<1>6. /\ mdc' \in BOOLEAN
      /\ state' \in {"idle", "frame", "done"} /\ cnt' \in 0..END
      /\ shift' \in Words(DataBits) /\ rx' \in Words(DataBits)
      /\ startReq' \in BOOLEAN
      /\ cmd' \in {"none", "read", "write"}
      /\ phy' \in Words(PhyBits) /\ reg' \in Words(RegBits)
      /\ txd' \in Words(DataBits) /\ rxd' \in Words(DataBits)
  BY <1>4 DEF TypeOK
<1>7. /\ prev' \in {0, 1} /\ inFrame' \in BOOLEAN
      /\ pphy' \in Words(PhyBits) /\ preg' \in Words(RegBits)
      /\ match' \in BOOLEAN /\ opRead' \in BOOLEAN
      /\ regs' \in [Words(RegBits) -> Words(DataBits)]
      /\ sw' \in {"idle", "cmd", "wait", "clear"} /\ op' \in {"read", "write"}
      /\ ops' \in 0..MaxOps
  BY <1>4 DEF TypeOK
<1> QED BY <1>1, <1>2, <1>3, <1>5, <1>6, <1>7 DEF TypeOK

(* Types in every step. *)
LEMMA TypeStep ==
  ASSUME TypeOK, CmdInv, SyncInv, LineInv, [Next]_vars
  PROVE  TypeOK'
<1> USE Widths, Places DEF staVars, outVars, addrVars, phyIn, phyOut, swVars
<1>1. CASE Rise
  BY <1>1, RiseType
<1>2. CASE Fall
  BY <1>2, FallType
<1>3. CASE HwClear
  BY <1>3 DEF HwClear, TypeOK
<1>4. CASE SwAddress
  BY <1>4 DEF SwAddress, TypeOK
<1>5. CASE SwCommand
  BY <1>5 DEF SwCommand, TypeOK
<1>6. CASE SwPoll
  BY <1>6 DEF SwPoll, TypeOK
<1>7. CASE SwClear
  BY <1>7 DEF SwClear, TypeOK
<1>8. CASE UNCHANGED vars
  BY <1>8 DEF vars, TypeOK
<1> QED BY <1>1, <1>2, <1>3, <1>4, <1>5, <1>6, <1>7, <1>8 DEF Next, Driver

(* The invariant after reset. *)
LEMMA MiiInit ==
  ASSUME Init
  PROVE  MiiInv
<1> USE Widths, Places DEF Init
<1>1. TypeOK
  <2>1. /\ Zeros(PhyBits) \in Words(PhyBits) /\ Zeros(RegBits) \in Words(RegBits)
        /\ Zeros(DataBits) \in Words(DataBits)
    BY DEF Zeros, Words
  <2>2. 0 \in 0..Pos(END)+1 /\ 0 \in 0..END /\ 0 \in 0..MaxOps
    BY DEF Pos
  <2> QED BY <2>1, <2>2 DEF TypeOK
<1> QED BY <1>1 DEF MiiInv, CmdInv, SyncInv, LineInv, OpInv, NoContention

(* All parts of MiiInv in every step. *)
LEMMA MiiStep ==
  ASSUME MiiInv, [Next]_vars
  PROVE  MiiInv'
BY TypeStep, CmdStep, SyncStep, LineStep, OpStep, ContentionStep DEF MiiInv

(* Controller and PHY stay in step for every width of the fields and any   *)
(* timing of the driver.                                                   *)
THEOREM InStep == Spec => []MiiInv
<1>1. Init => MiiInv
  BY MiiInit
<1>2. MiiInv /\ [Next]_vars => MiiInv'
  BY MiiStep
<1> QED BY <1>1, <1>2, PTL DEF Spec

(* Registers, counters and lines keep to their widths: bit_cnt does not    *)
(* wrap, nor does the PHY's.                                               *)
THEOREM MiiTypes == Spec => []TypeOK
<1>1. MiiInv => TypeOK
  BY DEF MiiInv
<1> QED BY <1>1, InStep, PTL

(* Controller and PHY never drive the line together, also when the         *)
(* self-clear of MIICOMMAND turns the direction round in the last bit.     *)
THEOREM LineDrivenByOne == Spec => []NoContention
<1>1. MiiInv => NoContention
  BY DEF MiiInv
<1> QED BY <1>1, InStep, PTL

-----------------------------------------------------------------------------
(* The words that are sent. *)

(* Bits of the addresses arrive where they belong. *)
LEMMA AddressRise ==
  ASSUME EvenAddresses, MiiInv, AddressInv, Rise, state = "frame", cnt > ST
  PROVE  AddressInv'
<1> USE Widths, Places
<1> DEFINE j == pcnt - Pos(PHY) + 1
           k == pcnt - Pos(REG) + 1
<1>1. /\ inFrame /\ pcnt = Pos(cnt) /\ cnt \in ST+1..END
      /\ pcnt' = pcnt + 1 /\ PhySample
      /\ cnt < TA => Line = Header[cnt + 1]
  BY RiseInFrame DEF MiiInv
<1>2. /\ phy \in Words(PhyBits) /\ reg \in Words(RegBits)
      /\ pphy \in Words(PhyBits) /\ preg \in Words(RegBits)
      /\ phy' = phy /\ reg' = reg
  BY DEF MiiInv, TypeOK, Rise, addrVars
<1>3. /\ \A i \in 1..PhyBits : i <= pcnt - Pos(PHY) => pphy[i] = phy[i]
      /\ \A i \in 1..RegBits : i <= pcnt - Pos(REG) => preg[i] = reg[i]
      /\ (match <=> pcnt >= Pos(REG) /\ phy = PhyAddr)
      /\ phy[PhyBits] = 0 /\ pphy[PhyBits] = 0
  BY <1>1 DEF AddressInv
<1>4. /\ j \in Int /\ k \in Int /\ pcnt - Pos(PHY) = j - 1 /\ pcnt - Pos(REG) = k - 1
      /\ pcnt' - Pos(PHY) = j /\ pcnt' - Pos(REG) = k /\ k = j - PhyBits
      /\ pcnt = j + 2 /\ Pos(PHY) = 3 /\ Pos(REG) = 3 + PhyBits
      /\ Pos(TA) = 3 + PhyBits + RegBits /\ cnt + 1 = PHY + j /\ cnt + 1 = REG + k
  BY <1>1 DEF Pos
<1> HIDE DEF j, k
<1>5. /\ \A i \in 1..PhyBits : Header[PHY + i] = phy[i]
      /\ \A i \in 1..RegBits : Header[REG + i] = reg[i]
  BY <1>2, HeaderBits
<1>6. /\ \A i \in 1..PhyBits : i <= j => pphy'[i] = phy[i]
      /\ pphy'[PhyBits] = 0
  <2>1. CASE j \in 1..PhyBits
    <3>1. Line = phy[j]
      BY <1>1, <1>4, <1>5, <2>1
    <3>2. pcnt \in Pos(PHY)..Pos(REG)-1 /\ pcnt - Pos(PHY) + 1 = j
      BY <1>4, <2>1
    <3>3. pphy' = [pphy EXCEPT ![j] = phy[j]]
      BY <1>1, <3>1, <3>2, Zenon DEF PhySample, SetBit
    <3>4. DOMAIN pphy = 1..PhyBits
      BY <1>2 DEF Words
    <3>5. ASSUME NEW i \in 1..PhyBits, i <= j
          PROVE  pphy'[i] = phy[i]
      <4>1. CASE i = j
        BY <3>3, <3>4, <3>5, <4>1
      <4>2. CASE i # j
        <5>1. i <= j - 1
          BY <1>4, <3>5, <4>2, Widths
        <5>2. pphy[i] = phy[i]
          BY <1>3, <1>4, <5>1
        <5> QED BY <3>3, <3>4, <4>2, <5>2
      <4> QED BY <4>1, <4>2
    <3>6. pphy'[PhyBits] = 0
      <4>1. PhyBits \in 1..PhyBits
        BY Widths
      <4>2. CASE j = PhyBits
        BY <1>3, <3>3, <3>4, <4>1, <4>2
      <4>3. CASE j # PhyBits
        BY <1>3, <3>3, <3>4, <4>1, <4>3
      <4> QED BY <4>2, <4>3
    <3> QED BY <3>5, <3>6
  <2>2. CASE j \notin 1..PhyBits
    <3>1. pcnt \notin Pos(PHY)..Pos(REG)-1
      BY <1>4, <2>2
    <3>2. pphy' = pphy
      BY <1>1, <3>1, Zenon DEF PhySample
    <3> QED BY <1>3, <1>4, <2>2, <3>2
  <2> QED BY <2>1, <2>2
<1>7. \A i \in 1..RegBits : i <= k => preg'[i] = reg[i]
  <2>1. CASE k \in 1..RegBits
    <3>1. Line = reg[k]
      BY <1>1, <1>4, <1>5, <2>1
    <3>2. pcnt \in Pos(REG)..Pos(TA)-1 /\ pcnt - Pos(REG) + 1 = k
      BY <1>4, <2>1
    <3>3. preg' = [preg EXCEPT ![k] = reg[k]]
      BY <1>1, <3>1, <3>2, Zenon DEF PhySample, SetBit
    <3>4. DOMAIN preg = 1..RegBits
      BY <1>2 DEF Words
    <3>5. ASSUME NEW i \in 1..RegBits, i <= k
          PROVE  preg'[i] = reg[i]
      <4>1. CASE i = k
        BY <3>3, <3>4, <3>5, <4>1
      <4>2. CASE i # k
        <5>1. i <= k - 1
          BY <1>4, <3>5, <4>2, Widths
        <5>2. preg[i] = reg[i]
          BY <1>3, <1>4, <5>1
        <5> QED BY <3>3, <3>4, <4>2, <5>2
      <4> QED BY <4>1, <4>2
    <3> QED BY <3>5
  <2>2. CASE k \notin 1..RegBits
    <3>1. pcnt \notin Pos(REG)..Pos(TA)-1
      BY <1>4, <2>2
    <3>2. preg' = preg
      BY <1>1, <3>1, Zenon DEF PhySample
    <3> QED BY <1>3, <1>4, <2>2, <3>2
  <2> QED BY <2>1, <2>2
<1>8. match' <=> pcnt' >= Pos(REG) /\ phy = PhyAddr
  <2>1. CASE pcnt = Pos(REG) - 1
    <3>1. match' = (pphy = PhyAddr)
      BY <1>1, <2>1, Zenon DEF PhySample
    <3>2. \A i \in 1..PhyBits : pphy[i] = phy[i]
      BY <1>3, <1>4, <2>1
    <3>3. pphy = phy
      BY <1>2, <3>2 DEF Words
    <3>4. pcnt' >= Pos(REG)
      BY <1>1, <1>4, <2>1
    <3> QED BY <3>1, <3>3, <3>4
  <2>2. CASE pcnt # Pos(REG) - 1
    <3>1. match' = match
      BY <1>1, <2>2, Zenon DEF PhySample
    <3>2. pcnt' >= Pos(REG) <=> pcnt >= Pos(REG)
      BY <1>1, <1>4, <2>2
    <3> QED BY <1>3, <3>1, <3>2
  <2> QED BY <2>1, <2>2
<1> QED BY <1>2, <1>3, <1>4, <1>6, <1>7, <1>8 DEF AddressInv

(* The address arrives as it was sent. *)
LEMMA AddressStep ==
  ASSUME EvenAddresses, MiiInv, AddressInv, [Next]_vars
  PROVE  AddressInv'
<1> USE Widths, Places DEF staVars, outVars, addrVars, phyIn, phyOut, swVars
<1>1. CASE Rise
  <2>1. CASE state # "frame"
    <3>1. ~inFrame' /\ UNCHANGED <<pphy, phy>>
      BY <1>1, <2>1, RiseResting DEF MiiInv
    <3> QED BY <3>1 DEF AddressInv
  <2>2. CASE state = "frame" /\ cnt <= ST
    <3>1. pcnt' = 0 /\ ~match' /\ UNCHANGED pphy
      BY <1>1, <2>2, RisePreamble DEF MiiInv
    <3>2. UNCHANGED <<phy, reg>>
      BY <1>1 DEF Rise
    <3>3. /\ Pos(REG) \in Nat /\ Pos(PHY) \in Nat /\ Pos(REG) > 0 /\ Pos(PHY) > 0
      BY DEF Pos
    <3> QED BY <3>1, <3>2, <3>3 DEF AddressInv
  <2>3. CASE state = "frame" /\ cnt > ST
    BY <1>1, <2>3, AddressRise
  <2>4. state # "frame" \/ cnt <= ST \/ cnt > ST
    BY DEF MiiInv, TypeOK
  <2> QED BY <2>1, <2>2, <2>3, <2>4
<1>2. CASE Fall
  BY <1>2 DEF Fall, AddressInv
<1>3. CASE HwClear
  BY <1>3 DEF HwClear, AddressInv
<1>4. CASE SwAddress
  <2>1. ~inFrame' /\ phy'[PhyBits] = 0 /\ pphy' = pphy
    BY <1>4 DEF SwAddress, MiiInv, CmdInv, SyncInv, EvenAddresses
  <2> QED BY <2>1 DEF AddressInv
<1>5. CASE SwCommand
  BY <1>5 DEF SwCommand, AddressInv
<1>6. CASE SwPoll
  BY <1>6 DEF SwPoll, AddressInv
<1>7. CASE SwClear
  BY <1>7 DEF SwClear, AddressInv
<1>8. CASE UNCHANGED vars
  BY <1>8 DEF vars, AddressInv
<1> QED BY <1>1, <1>2, <1>3, <1>4, <1>5, <1>6, <1>7, <1>8 DEF Next, Driver

(* In the data field the PHY knows for whom the frame is and what to do. *)
LEMMA Addressed ==
  ASSUME MiiInv, AddressInv, state = "frame", cnt >= TA
  PROVE  /\ inFrame /\ pcnt = Pos(cnt) /\ cnt \in Nat
         /\ (match <=> phy = PhyAddr) /\ (opRead <=> op = "read")
         /\ preg = reg
         /\ cnt # END => cmd = op
<1> USE Widths, Places
<1>1. cnt \in Nat /\ cnt > ST
  BY DEF MiiInv, TypeOK
<1>2. inFrame /\ pcnt = Pos(cnt)
  BY <1>1 DEF MiiInv, SyncInv
<1>3. pcnt >= 2 /\ pcnt >= Pos(REG) /\ pcnt - Pos(REG) >= RegBits
  BY <1>1, <1>2 DEF Pos
<1>4. preg = reg
  <2>1. \A i \in 1..RegBits : i <= pcnt - Pos(REG) => preg[i] = reg[i]
    BY <1>2 DEF AddressInv
  <2>2. \A i \in 1..RegBits : preg[i] = reg[i]
    BY <1>1, <1>2, <1>3, <2>1 DEF Pos
  <2> QED BY <2>2 DEF MiiInv, TypeOK, Words
<1>5. (match <=> phy = PhyAddr) /\ (opRead <=> op = "read")
  BY <1>2, <1>3 DEF AddressInv, MiiInv, OpInv
<1>6. cnt # END => cmd = op
  BY DEF MiiInv, CmdInv
<1> QED BY <1>1, <1>2, <1>4, <1>5, <1>6

(* A rising edge in the data field of a write: a bit leaves data_shift and *)
(* enters rd_shift.                                                        *)
LEMMA WriteRise ==
  ASSUME MiiInv, AddressInv, WriteInv, Rise, state = "frame", op = "write"
  PROVE  WriteInv'
<1> USE Widths, Places
<1>1. /\ cnt \in 0..END /\ txd \in Words(DataBits) /\ shift \in Words(DataBits)
      /\ pshift \in Words(DataBits) /\ mdc' = TRUE /\ ~mdc
      /\ UNCHANGED <<phy, txd>>
  BY DEF MiiInv, TypeOK, Rise, addrVars
<1>2. CASE cnt = END
  <2>1. state' = "done"
    <3>1. ~(cnt < END)
      BY <1>2
    <3> QED BY <3>1, RiseSending DEF MiiInv
  <2> QED BY <2>1 DEF WriteInv
<1>3. CASE cnt # END
  <2>1. cnt < END /\ cnt' = cnt + 1
    BY <1>1, <1>3, RiseSending DEF MiiInv
  <2>2. cmd # "read"
    BY <1>3 DEF MiiInv, CmdInv
  <2>3. shift' = IF cnt >= DAT THEN ShiftIn(shift, 0) ELSE shift
    BY <2>2, RiseSending DEF MiiInv
  <2>4. CASE cnt < DAT
    <3>1. shift' = txd
      BY <1>1, <2>3, <2>4 DEF WriteInv
    <3>2. cnt' >= DAT => Bits' = 0
      BY <1>1, <2>1, <2>4 DEF Bits
    <3> QED BY <1>1, <3>1, <3>2 DEF WriteInv
  <2>5. CASE cnt >= DAT
    <3> DEFINE n == Bits
    <3>1. n \in 0..DataBits-1 /\ Bits' = n + 1 /\ cnt \in DAT..END-1
      BY <1>1, <2>1, <2>5 DEF Bits
    <3>2. oe /\ mdo = txd[n + 1]
      BY <1>1, <2>5, <3>1 DEF WriteInv
    <3>3. Line = txd[n + 1] /\ Line \in {0, 1}
      BY <1>1, <3>1, <3>2 DEF Line, Words
    <3>4. \A i \in 1..DataBits - n : shift[i] = txd[n + i]
      BY <2>5 DEF WriteInv
    <3> HIDE DEF n
    <3>5. \A i \in 1..DataBits - (n + 1) : shift'[i] = txd[n + 1 + i]
      <4> TAKE i \in 1..DataBits - (n + 1)
      <4>1. /\ i \in 1..DataBits /\ i # DataBits /\ i + 1 \in 1..DataBits - n
            /\ n + (i + 1) = n + 1 + i
        BY <3>1
      <4>2. \A m \in 1..DataBits : ShiftIn(shift, 0)[m] = IF m = DataBits THEN 0 ELSE shift[m + 1]
        BY <1>1, ShiftInBits
      <4>3. shift'[i] = shift[i + 1]
        BY <2>3, <2>5, <4>1, <4>2
      <4> QED BY <3>4, <4>1, <4>3
    <3>6. ASSUME phy = PhyAddr, NEW i \in 1..n + 1
          PROVE  pshift'[DataBits - (n + 1) + i] = txd[i]
      <4>1. match /\ ~opRead /\ pcnt = Pos(cnt) /\ PhySample
        <5>1. cnt >= TA /\ cnt > ST
          BY <1>1, <2>5
        <5>2. match /\ ~opRead /\ pcnt = Pos(cnt)
          BY <3>6, <5>1, Addressed
        <5>3. PhySample
          BY <5>1, RiseInFrame DEF MiiInv
        <5> QED BY <5>2, <5>3
      <4>2. pcnt \in Pos(DAT)..Pos(END)-1
        BY <3>1, <4>1 DEF Pos
      <4>3. pshift' = ShiftIn(pshift, Line)
        BY <4>1, <4>2, Zenon DEF PhySample
      <4>4. \A m \in 1..DataBits : ShiftIn(pshift, Line)[m] = IF m = DataBits THEN Line ELSE pshift[m + 1]
        BY <1>1, <3>3, ShiftInBits
      <4>5. CASE i = n + 1
        BY <3>1, <3>3, <4>3, <4>4, <4>5
      <4>6. CASE i # n + 1
        <5>1. /\ i \in 1..n /\ DataBits - (n + 1) + i \in 1..DataBits
              /\ DataBits - (n + 1) + i # DataBits
              /\ (DataBits - (n + 1) + i) + 1 = DataBits - n + i
          BY <3>1, <4>6
        <5>2. pshift'[DataBits - (n + 1) + i] = pshift[DataBits - n + i]
          BY <4>3, <4>4, <5>1
        <5>3. pshift[DataBits - n + i] = txd[i]
          BY <2>5, <3>6, <5>1 DEF WriteInv, n
        <5> QED BY <5>2, <5>3
      <4> QED BY <4>5, <4>6
    <3>7. ~(cnt' <= DAT) /\ mdc'
      BY <1>1, <2>1, <2>5
    <3> QED BY <1>1, <3>1, <3>5, <3>6, <3>7 DEF WriteInv
  <2>6. cnt < DAT \/ cnt >= DAT
    BY <1>1
  <2> QED BY <2>4, <2>5, <2>6
<1> QED BY <1>2, <1>3

(* The word to be written arrives as it was sent. *)
LEMMA WriteStep ==
  ASSUME MiiInv, AddressInv, WriteInv, [Next]_vars
  PROVE  WriteInv'
<1> USE Widths, Places DEF staVars, outVars, addrVars, phyIn, phyOut, swVars
<1>1. CASE Rise
  <2>1. CASE state # "frame"
    <3>1. CASE state' = "frame" /\ op' = "write"
      <4>1. /\ startReq /\ cnt' = 0 /\ UNCHANGED <<op, txd>>
            /\ shift' = IF cmd = "write" THEN txd ELSE shift
        BY <1>1, <2>1, <3>1, RiseResting DEF MiiInv
      <4>2. shift' = txd'
        BY <3>1, <4>1 DEF MiiInv, CmdInv
      <4>3. ~(cnt' >= DAT)
        BY <4>1
      <4>4. cnt' \notin DAT..END-1
        BY <4>1
      <4> QED BY <4>2, <4>3, <4>4 DEF WriteInv
    <3>2. CASE ~(state' = "frame" /\ op' = "write")
      BY <3>2 DEF WriteInv
    <3> QED BY <3>1, <3>2
  <2>2. CASE state = "frame" /\ op # "write"
    <3>1. op' # "write"
      BY <1>1, <2>2 DEF Rise
    <3> QED BY <3>1 DEF WriteInv
  <2>3. CASE state = "frame" /\ op = "write"
    BY <1>1, <2>3, WriteRise
  <2> QED BY <2>1, <2>2, <2>3
<1>2. CASE Fall
  <2> SUFFICES ASSUME state = "frame", op = "write"
               PROVE  WriteInv'
    BY <1>2 DEF Fall, WriteInv
  <2>1. UNCHANGED <<state, cnt, shift, txd, phy, op>> /\ ~mdc' /\ Bits' = Bits
    BY <1>2 DEF Fall, Bits
  <2>2. cnt \in DAT..END-1 => oe' /\ mdo' = txd[Bits + 1]
    <3> SUFFICES ASSUME cnt \in DAT..END-1
                 PROVE  oe' /\ mdo' = txd[Bits + 1]
      OBVIOUS
    <3>1. cnt # END /\ cnt >= DAT /\ ~(cnt < DAT) /\ 1 \in 1..DataBits - Bits
      BY DEF Bits
    <3>2. cmd # "read"
      BY <3>1 DEF MiiInv, CmdInv
    <3>3. oe' = TRUE /\ mdo' = Head(shift)
      BY <1>2, <3>1, <3>2 DEF Fall, MdioOut, MdioOe
    <3>4. Head(shift) = shift[1]
      BY ShiftInBits DEF MiiInv, TypeOK
    <3>5. shift[1] = txd[Bits + 1]
      BY <3>1 DEF WriteInv
    <3> QED BY <3>3, <3>4, <3>5
  <2>3. cnt >= DAT => pshift' = pshift
    <3>1. cnt >= DAT => ~opRead
      <4>1. cnt >= DAT => cnt >= TA
        BY DEF MiiInv, TypeOK
      <4> QED BY <4>1, Addressed
    <3> QED BY <1>2, <3>1 DEF Fall, PhyFall, PhyDrives
  <2>4. /\ cnt <= DAT => shift' = txd'
        /\ cnt >= DAT => \A i \in 1..DataBits - Bits : shift'[i] = txd'[Bits + i]
    BY <2>1 DEF WriteInv
  <2>5. cnt >= DAT /\ phy = PhyAddr =>
          \A i \in 1..Bits : pshift'[DataBits - Bits + i] = txd'[i]
    BY <2>1, <2>3 DEF WriteInv
  <2> QED BY <2>1, <2>2, <2>4, <2>5 DEF WriteInv
<1>3. CASE HwClear
  BY <1>3 DEF HwClear, WriteInv, Bits
<1>4. CASE SwAddress
  <2>1. state' # "frame"
    BY <1>4 DEF SwAddress, MiiInv, CmdInv
  <2> QED BY <2>1 DEF WriteInv
<1>5. CASE SwCommand
  BY <1>5 DEF SwCommand, WriteInv, Bits
<1>6. CASE SwPoll
  BY <1>6 DEF SwPoll, WriteInv, Bits
<1>7. CASE SwClear
  BY <1>7 DEF SwClear, WriteInv, Bits
<1>8. CASE UNCHANGED vars
  BY <1>8 DEF vars, WriteInv, Bits
<1> QED BY <1>1, <1>2, <1>3, <1>4, <1>5, <1>6, <1>7, <1>8 DEF Next, Driver

(* What a read returns is a word, and has bits. *)
LEMMA AnswerWord ==
  ASSUME TypeOK
  PROVE  /\ Answer \in Words(DataBits)
         /\ phy # PhyAddr => \A i \in 1..DataBits : Answer[i] = 1
<1>1. [i \in 1..DataBits |-> 1] \in Words(DataBits)
  BY DEF Words
<1>2. regs[reg] \in Words(DataBits)
  BY DEF TypeOK
<1> QED BY <1>1, <1>2 DEF Answer

(* A rising edge in the data field of a read: rx_data takes the bit. *)
LEMMA ReadRise ==
  ASSUME MiiInv, AddressInv, ReadInv, Rise, state = "frame", op = "read"
  PROVE  ReadInv'
<1> USE Widths, Places
<1>1. /\ cnt \in 0..END /\ rx \in Words(DataBits) /\ pshift \in Words(DataBits)
      /\ Answer \in Words(DataBits) /\ mdc' = TRUE /\ ~mdc
      /\ UNCHANGED <<phy, reg, cmd, op, rxd>>
  BY AnswerWord DEF MiiInv, TypeOK, Rise, addrVars, swVars
<1>2. CASE cnt = END
  <2>1. state' = "done"
    <3>1. ~(cnt < END)
      BY <1>2
    <3> QED BY <3>1, RiseSending DEF MiiInv
  <2> QED BY <2>1 DEF ReadInv
<1>3. CASE cnt # END
  <2>1. cnt < END /\ cnt' = cnt + 1
    BY <1>1, <1>3, RiseSending DEF MiiInv
  <2>2. cmd = "read"
    BY <1>3 DEF MiiInv, CmdInv
  <2>3. cnt <= ST \/ cnt > ST
    BY <1>1
  <2>4. regs' = regs /\ Answer' = Answer
    <3>1. CASE cnt <= ST
      BY <1>1, <3>1, RisePreamble DEF MiiInv, Answer
    <3>2. CASE cnt > ST
      <4>1. pcnt = Pos(cnt) /\ PhySample
        BY <3>2, RiseInFrame DEF MiiInv
      <4>2. pcnt # Pos(END)
        BY <1>1, <1>3, <4>1 DEF Pos
      <4>3. regs' = regs
        BY <4>1, <4>2, Zenon DEF PhySample
      <4> QED BY <1>1, <4>3 DEF Answer
    <3> QED BY <2>3, <3>1, <3>2
  <2>5. CASE cnt < TA
    <3>1. ~(cnt' >= DAT) /\ cnt' # TA + 1
      BY <1>1, <2>1, <2>5
    <3> QED BY <1>1, <2>2, <3>1 DEF ReadInv
  <2>6. CASE cnt >= TA
    <3>1. /\ pcnt = Pos(cnt) /\ PhySample /\ preg = reg
          /\ (match <=> phy = PhyAddr) /\ opRead
      <4>1. cnt > ST
        BY <1>1, <2>6
      <4> QED BY <2>6, <4>1, Addressed, RiseInFrame DEF MiiInv
    <3>2. pcnt = Pos(TA) <=> cnt = TA
      BY <1>1, <3>1 DEF Pos
    <3>3. phy = PhyAddr => pshift' = IF cnt = TA THEN Answer ELSE pshift
      BY <3>1, <3>2, Zenon DEF PhySample, Answer
    <3>4. rx' = IF cnt >= DAT THEN ShiftIn(rx, Line) ELSE rx
      BY <1>3, <2>2, RiseSending DEF MiiInv
    <3>5. CASE cnt = TA
      <4>1. ~(cnt' >= DAT)
        BY <1>1, <2>1, <3>5
      <4> QED BY <1>1, <2>2, <2>4, <3>3, <3>5, <4>1 DEF ReadInv
    <3>6. CASE cnt = TA + 1
      <4>1. Bits' = 0 /\ Gone' = 0 /\ cnt' # TA + 1 /\ cnt # TA
        BY <1>1, <2>1, <3>6 DEF Bits, Gone
      <4>2. phy = PhyAddr => pshift' = Answer
        BY <3>3, <3>6, <4>1 DEF ReadInv
      <4> QED BY <1>1, <2>2, <2>4, <4>1, <4>2 DEF ReadInv
    <3>7. CASE cnt >= DAT
      <4> DEFINE n == Bits
      <4>1. /\ n \in 0..DataBits-1 /\ Bits' = n + 1 /\ cnt \in DAT..END-1
            /\ Gone = n + 1 /\ Gone' = n + 1 /\ cnt # TA /\ cnt' # TA + 1
            /\ cnt \in TA..END-1 /\ cnt \in TA+1..END-1 /\ n + 1 \in 1..DataBits
        BY <1>1, <2>1, <3>7 DEF Bits, Gone
      <4>2. Line = Answer[n + 1] /\ Line \in {0, 1}
        <5>1. ~oe /\ (poe <=> phy = PhyAddr)
          BY <1>1, <4>1 DEF ReadInv
        <5>2. phy = PhyAddr => pout = Answer[n + 1]
          BY <1>1, <4>1 DEF ReadInv
        <5>3. phy # PhyAddr => Answer[n + 1] = 1
          BY <4>1, AnswerWord DEF MiiInv
        <5>4. Answer[n + 1] \in {0, 1}
          BY <1>1, <4>1 DEF Words
        <5> QED BY <5>1, <5>2, <5>3, <5>4 DEF Line
      <4> HIDE DEF n
      <4>3. phy = PhyAddr => \A i \in 1..DataBits - (n + 1) : pshift'[i] = Answer[n + 1 + i]
        BY <3>3, <3>7, <4>1 DEF ReadInv
      <4>4. ASSUME NEW i \in 1..n + 1
            PROVE  rx'[DataBits - (n + 1) + i] = Answer[i]
        <5>1. \A m \in 1..DataBits : ShiftIn(rx, Line)[m] = IF m = DataBits THEN Line ELSE rx[m + 1]
          BY <1>1, <4>2, ShiftInBits
        <5>2. CASE i = n + 1
          BY <3>4, <3>7, <4>1, <4>2, <5>1, <5>2
        <5>3. CASE i # n + 1
          <6>1. /\ i \in 1..n /\ DataBits - (n + 1) + i \in 1..DataBits
                /\ DataBits - (n + 1) + i # DataBits
                /\ (DataBits - (n + 1) + i) + 1 = DataBits - n + i
            BY <4>1, <5>3
          <6>2. rx'[DataBits - (n + 1) + i] = rx[DataBits - n + i]
            BY <3>4, <3>7, <5>1, <6>1
          <6>3. rx[DataBits - n + i] = Answer[i]
            BY <3>7, <6>1 DEF ReadInv, n
          <6> QED BY <6>2, <6>3
        <5> QED BY <5>2, <5>3
      <4> QED BY <1>1, <2>2, <2>4, <4>1, <4>3, <4>4 DEF ReadInv
    <3>8. cnt = TA \/ cnt = TA + 1 \/ cnt >= DAT
      BY <1>1, <2>6
    <3> QED BY <3>5, <3>6, <3>7, <3>8
  <2>7. cnt < TA \/ cnt >= TA
    BY <1>1
  <2> QED BY <2>5, <2>6, <2>7
<1> QED BY <1>2, <1>3

(* A falling edge in the data field of a read: the PHY puts out a bit. *)
LEMMA ReadFall ==
  ASSUME MiiInv, AddressInv, ReadInv, Fall, state = "frame", op = "read"
  PROVE  ReadInv'
<1> USE Widths, Places
<1>1. /\ cnt \in 0..END /\ pshift \in Words(DataBits) /\ ~mdc' /\ mdc
      /\ UNCHANGED <<state, cnt, rx, rxd, phy, cmd, op>>
      /\ Bits' = Bits /\ Answer' = Answer
  BY DEF MiiInv, TypeOK, Fall, Bits, Answer, staVars, addrVars, phyIn, swVars
<1>2. cnt \in TA..END-1 => ~oe'
  <2>1. cnt \in TA..END-1 => cnt # END /\ ~(cnt < TA)
    BY <1>1
  <2>2. oe' = (state = "frame" /\ (cmd = "read" => cnt < TA))
    BY Zenon DEF Fall, MdioOe
  <2> QED BY <2>1, <2>2 DEF MiiInv, CmdInv
<1>3. poe' = (PhyDrives /\ pcnt \in Pos(TA)+1..Pos(END)-1)
  BY Zenon DEF Fall, PhyFall
<1>4. CASE cnt < TA
  <2>1. ~poe'
    <3>1. poe' => cnt \in TA+1..END-1
      BY DrivesAlone DEF MiiInv
    <3> QED BY <1>1, <1>4, <3>1
  <2>2. ~(cnt >= DAT) /\ cnt # TA + 1 /\ cnt \notin TA+1..END-1
        /\ cnt \notin DAT..END-1
    BY <1>1, <1>4
  <2> QED BY <1>1, <1>2, <2>1, <2>2 DEF ReadInv
<1>5. CASE cnt >= TA
  <2>1. /\ pcnt = Pos(cnt) /\ (PhyDrives <=> phy = PhyAddr)
    BY <1>5, Addressed DEF PhyDrives
  <2>2. /\ pcnt \in Pos(TA)+1..Pos(END)-1 <=> cnt \in TA+1..END-1
        /\ pcnt \in Pos(DAT)..Pos(END)-1 <=> cnt \in DAT..END-1
        /\ pcnt = Pos(TA) + 1 <=> cnt = TA + 1
    BY <1>1, <2>1 DEF Pos
  <2>3. poe' <=> phy = PhyAddr /\ cnt \in TA+1..END-1
    BY <1>3, <2>1, <2>2
  <2>4. pshift' = IF phy = PhyAddr /\ cnt \in DAT..END-1 THEN ShiftIn(pshift, 0) ELSE pshift
    BY <2>1, <2>2, Zenon DEF Fall, PhyFall
  <2>5. CASE phy = PhyAddr /\ cnt \in DAT..END-1
    <3> DEFINE n == Bits
    <3>1. /\ n \in 0..DataBits-1 /\ Gone = n /\ Gone' = n + 1
          /\ cnt # TA + 1 /\ cnt \in TA+1..END-1 /\ cnt >= DAT
      BY <1>1, <2>5 DEF Bits, Gone
    <3>2. \A i \in 1..DataBits - n : pshift[i] = Answer[n + i]
      BY <2>5, <3>1 DEF ReadInv
    <3>3. pout' = Answer[n + 1]
      <4>1. pout' = Head(pshift)
        BY <2>2, <2>3, <2>5, <3>1, Zenon DEF Fall, PhyFall
      <4>2. Head(pshift) = pshift[1]
        BY <1>1, ShiftInBits
      <4>3. 1 \in 1..DataBits - n
        BY <3>1
      <4> QED BY <3>2, <4>1, <4>2, <4>3
    <3> HIDE DEF n
    <3>4. ASSUME NEW i \in 1..DataBits - (n + 1)
          PROVE  pshift'[i] = Answer[n + 1 + i]
      <4>1. /\ i \in 1..DataBits /\ i # DataBits /\ i + 1 \in 1..DataBits - n
            /\ n + (i + 1) = n + 1 + i
        BY <3>1
      <4>2. \A m \in 1..DataBits : ShiftIn(pshift, 0)[m] = IF m = DataBits THEN 0 ELSE pshift[m + 1]
        BY <1>1, ShiftInBits
      <4>3. pshift'[i] = pshift[i + 1]
        BY <2>4, <2>5, <4>1, <4>2
      <4> QED BY <3>2, <4>1, <4>3
    <3>5. \A i \in 1..Bits : rx[DataBits - Bits + i] = Answer[i]
      BY <3>1 DEF ReadInv
    <3>6. n = Bits
      BY DEF n
    <3>7. cmd = "none" => rxd = Answer
      BY DEF ReadInv
    <3> QED BY <1>1, <1>2, <2>3, <2>5, <3>1, <3>3, <3>4, <3>5, <3>6, <3>7 DEF ReadInv
  <2>6. CASE ~(phy = PhyAddr /\ cnt \in DAT..END-1)
    <3>1. pshift' = pshift
      BY <2>4, <2>6
    <3>2. phy = PhyAddr /\ cnt >= DAT => DataBits - Gone' < 1
      BY <1>1, <2>6 DEF Bits, Gone
    <3>3. phy = PhyAddr /\ cnt >= DAT => 1..DataBits - Gone' = {}
      BY <1>1, <3>2 DEF Bits, Gone
    <3> QED BY <1>1, <1>2, <2>3, <2>6, <3>1, <3>3 DEF ReadInv
  <2> QED BY <2>5, <2>6
<1>6. cnt < TA \/ cnt >= TA
  BY <1>1
<1> QED BY <1>4, <1>5, <1>6

(* The word read arrives as it was sent. *)
LEMMA ReadStep ==
  ASSUME MiiInv, AddressInv, ReadInv, [Next]_vars
  PROVE  ReadInv'
<1> USE Widths, Places DEF staVars, outVars, addrVars, phyIn, phyOut, swVars
<1>1. CASE Rise
  <2>1. CASE state # "frame"
    <3>1. CASE state' = "frame" /\ op' = "read"
      <4>1. startReq /\ cnt' = 0 /\ mdc' /\ UNCHANGED <<op, cmd>>
        BY <1>1, <2>1, <3>1, RiseResting DEF MiiInv
      <4>2. cmd' # "none"
        BY <3>1, <4>1 DEF MiiInv, CmdInv
      <4>3. ~(cnt' >= DAT) /\ cnt' # TA + 1
        BY <4>1
      <4> QED BY <4>1, <4>2, <4>3 DEF ReadInv
    <3>2. CASE ~(state' = "frame" /\ op' = "read")
      BY <3>2 DEF ReadInv
    <3> QED BY <3>1, <3>2
  <2>2. CASE state = "frame" /\ op # "read"
    <3>1. op' # "read"
      BY <1>1, <2>2 DEF Rise
    <3> QED BY <3>1 DEF ReadInv
  <2>3. CASE state = "frame" /\ op = "read"
    BY <1>1, <2>3, ReadRise
  <2> QED BY <2>1, <2>2, <2>3
<1>2. CASE Fall
  <2>1. CASE state = "frame" /\ op = "read"
    BY <1>2, <2>1, ReadFall
  <2>2. CASE ~(state = "frame" /\ op = "read")
    BY <1>2, <2>2 DEF Fall, ReadInv
  <2> QED BY <2>1, <2>2
<1>3. CASE HwClear
  <2> SUFFICES ASSUME op = "read"
               PROVE  ReadInv'
    BY <1>3 DEF HwClear, ReadInv
  <2>1. /\ state = "frame" /\ cnt = END /\ rxd' = rx
        /\ UNCHANGED <<mdc, state, cnt, rx, oe, phy, reg, regs, pshift>>
        /\ UNCHANGED <<pout, poe, op>>
    BY <1>3 DEF HwClear, Done, FrameEnd
  <2>2. Bits = DataBits /\ cnt >= DAT
    BY <2>1 DEF Bits
  <2>3. rx = Answer
    <3>1. \A i \in 1..Bits : rx[DataBits - Bits + i] = Answer[i]
      BY <2>1, <2>2 DEF ReadInv
    <3>2. \A i \in 1..DataBits : rx[i] = Answer[i]
      <4> TAKE i \in 1..DataBits
      <4>1. DataBits - Bits + i = i
        BY <2>2
      <4> QED BY <2>2, <3>1, <4>1
    <3>3. rx \in Words(DataBits) /\ Answer \in Words(DataBits)
      BY AnswerWord DEF MiiInv, TypeOK
    <3> QED BY <3>2, <3>3 DEF Words
  <2>4. Bits' = Bits /\ Gone' = Gone /\ Answer' = Answer
    BY <2>1 DEF Bits, Gone, Answer
  <2> QED BY <2>1, <2>3, <2>4 DEF ReadInv
<1>4. CASE SwAddress
  <2>1. state' # "frame"
    BY <1>4 DEF SwAddress, MiiInv, CmdInv
  <2> QED BY <2>1 DEF ReadInv
<1>5. CASE SwCommand
  <2>1. state' # "frame"
    BY <1>5 DEF SwCommand, MiiInv, CmdInv
  <2> QED BY <2>1 DEF ReadInv
<1>6. CASE SwPoll
  BY <1>6 DEF SwPoll, ReadInv, Bits, Gone, Answer
<1>7. CASE SwClear
  <2>1. state' # "frame"
    BY <1>7 DEF SwClear, MiiInv, CmdInv
  <2> QED BY <2>1 DEF ReadInv
<1>8. CASE UNCHANGED vars
  BY <1>8 DEF vars, ReadInv, Bits, Gone, Answer
<1> QED BY <1>1, <1>2, <1>3, <1>4, <1>5, <1>6, <1>7, <1>8 DEF Next, Driver

(* The last rising edge of a frame writes the register, or leaves it. *)
LEMMA RegisterWritten ==
  ASSUME MiiInv, AddressInv, WriteInv, Rise, state = "frame"
  PROVE  regs' = IF cnt = END /\ op = "write" /\ phy = PhyAddr
                   THEN [regs EXCEPT ![reg] = txd] ELSE regs
<1> USE Widths, Places
<1>1. cnt \in Nat /\ (cnt <= ST \/ cnt > ST)
  BY DEF MiiInv, TypeOK
<1>2. CASE cnt <= ST
  <2>1. cnt # END
    BY <1>1, <1>2
  <2> QED BY <1>2, <2>1, RisePreamble DEF MiiInv
<1>3. CASE cnt > ST
  <2>1. pcnt = Pos(cnt) /\ PhySample
    BY <1>3, RiseInFrame DEF MiiInv
  <2>2. pcnt = Pos(END) <=> cnt = END
    BY <1>1, <2>1 DEF Pos
  <2>3. CASE cnt # END
    BY <2>1, <2>2, <2>3, Zenon DEF PhySample
  <2>4. CASE cnt = END
    <3>1. /\ preg = reg /\ (match <=> phy = PhyAddr) /\ (opRead <=> op = "read")
      <4>1. cnt >= TA
        BY <2>4
      <4> QED BY <4>1, Addressed
    <3>2. op = "read" \/ op = "write"
      BY DEF MiiInv, TypeOK
    <3>3. op = "write" /\ phy = PhyAddr => pshift = txd
      <4> SUFFICES ASSUME op = "write", phy = PhyAddr
                   PROVE  pshift = txd
        OBVIOUS
      <4>1. Bits = DataBits /\ cnt >= DAT
        BY <2>4 DEF Bits
      <4>2. \A i \in 1..Bits : pshift[DataBits - Bits + i] = txd[i]
        BY <4>1 DEF WriteInv
      <4>3. \A i \in 1..DataBits : pshift[i] = txd[i]
        <5> TAKE i \in 1..DataBits
        <5>1. DataBits - Bits + i = i
          BY <4>1
        <5> QED BY <4>1, <4>2, <5>1
      <4>4. pshift \in Words(DataBits) /\ txd \in Words(DataBits)
        BY DEF MiiInv, TypeOK
      <4> QED BY <4>3, <4>4 DEF Words
    <3>4. regs' = IF match /\ ~opRead THEN [regs EXCEPT ![preg] = pshift] ELSE regs
      BY <2>1, <2>2, <2>4, Zenon DEF PhySample
    <3> QED BY <2>4, <3>1, <3>2, <3>3, <3>4
  <2> QED BY <2>3, <2>4
<1> QED BY <1>1, <1>2, <1>3

(* The answer stays in MIIRX_DATA until the driver takes it. *)
LEMMA ServedStep ==
  ASSUME MiiInv, AddressInv, WriteInv, ReadInv, ServedInv, [Next]_vars
  PROVE  ServedInv'
<1> USE Widths, Places DEF staVars, outVars, addrVars, phyIn, phyOut, swVars
<1>1. CASE Rise
  <2>1. UNCHANGED <<rxd, op, sw, phy, reg>>
    BY <1>1 DEF Rise
  <2>2. CASE state = "frame"
    <3> SUFFICES ASSUME Served', op = "read"
                 PROVE  rxd' = Answer'
      BY <2>1 DEF ServedInv
    <3>1. sw = "wait" /\ state' # "frame"
      BY <2>1, <2>2 DEF Served, MiiInv, CmdInv
    <3>2. cnt = END /\ cmd = "none"
      BY <1>1, <2>2, <3>1, RiseSending DEF MiiInv
    <3>3. rxd = Answer
      BY <2>2, <3>2 DEF ReadInv
    <3>4. regs' = regs
      BY <1>1, <2>2, RegisterWritten
    <3> QED BY <2>1, <3>3, <3>4 DEF Answer
  <2>3. CASE state # "frame"
    <3>1. /\ UNCHANGED regs
          /\ \/ state' = "frame" /\ startReq
             \/ state' = "idle" /\ ~startReq
      BY <1>1, <2>3, RiseResting DEF MiiInv
    <3>2. Served' => Served
      BY <2>1, <2>3, <3>1 DEF Served, MiiInv, CmdInv
    <3>3. Answer' = Answer
      BY <2>1, <3>1 DEF Answer
    <3> QED BY <2>1, <3>2, <3>3 DEF ServedInv
  <2> QED BY <2>2, <2>3
<1>2. CASE Fall
  BY <1>2 DEF Fall, ServedInv, Served, Answer
<1>3. CASE HwClear
  <2>1. ~Served'
    BY <1>3 DEF HwClear, Done, Served, MiiInv, CmdInv
  <2> QED BY <2>1 DEF ServedInv
<1>4. CASE SwAddress
  <2>1. ~Served'
    BY <1>4 DEF SwAddress, Served
  <2> QED BY <2>1 DEF ServedInv
<1>5. CASE SwCommand
  <2>1. ~Served'
    BY <1>5 DEF SwCommand, Served, MiiInv, CmdInv
  <2> QED BY <2>1 DEF ServedInv
<1>6. CASE SwPoll
  <2>1. Served
    BY <1>6 DEF SwPoll, Served, Busy, MiiInv, TypeOK
  <2> QED BY <1>6, <2>1 DEF SwPoll, ServedInv, Answer
<1>7. CASE SwClear
  BY <1>7 DEF SwClear, ServedInv, Served, Answer
<1>8. CASE UNCHANGED vars
  BY <1>8 DEF vars, ServedInv, Served, Answer
<1> QED BY <1>1, <1>2, <1>3, <1>4, <1>5, <1>6, <1>7, <1>8 DEF Next, Driver

-----------------------------------------------------------------------------
(* The interface implements PhyPort. *)
PortInv == MiiInv /\ AddressInv /\ WriteInv /\ ReadInv /\ ServedInv

(* Nothing is under way at the start. *)
LEMMA PortInit ==
  ASSUME Init
  PROVE  PortInv
<1>1. MiiInv
  BY MiiInit
<1>2. Zeros(PhyBits)[PhyBits] = 0
  BY Widths DEF Zeros
<1> QED BY <1>1, <1>2
        DEF Init, PortInv, AddressInv, WriteInv, ReadInv, ServedInv, Served

(* Request of PhyPort is the write of MIIADDRESS, Read and Write are the   *)
(* last rising edge of a frame, Reply is the reset of MIICOMMAND.          *)
LEMMA PortStep ==
  ASSUME PortInv, [Next]_vars
  PROVE  [Port!Next]_(Port!vars)
<1> USE Widths, Places DEF staVars, outVars, addrVars, phyIn, phyOut, swVars
<1> USE DEF Port!vars
<1> DEFINE o == [kind |-> op, phy |-> phy, reg |-> reg, data |-> txd]
<1>1. CASE Rise
  <2>1. UNCHANGED <<rxd, op, sw, phy, reg, txd>>
    BY <1>1 DEF Rise
  <2>2. CASE state = "frame"
    <3>1. sw = "wait" /\ ~startReq /\ startReq' = startReq
      BY <1>1, <2>2, RiseSending DEF PortInv, MiiInv, CmdInv
    <3>2. regs' = IF cnt = END /\ op = "write" /\ phy = PhyAddr
                    THEN [regs EXCEPT ![reg] = txd] ELSE regs
      BY <1>1, <2>2, RegisterWritten DEF PortInv
    <3>3. CASE cnt # END
      <4>1. state' = "frame"
        BY <1>1, <2>2, <3>3, RiseSending DEF PortInv, MiiInv
      <4> QED BY <2>1, <2>2, <3>1, <3>2, <3>3, <4>1 DEF Served
    <3>4. CASE cnt = END
      <4>1. state' = "done" /\ cmd = "none"
        <5>1. ~(cnt < END)
          BY <3>4
        <5> QED BY <1>1, <2>2, <5>1, RiseSending DEF PortInv, MiiInv
      <4>2. ~Served /\ Served'
        BY <2>1, <2>2, <3>1, <4>1 DEF Served
      <4>3. CASE op = "read"
        <5>1. rxd = Answer /\ regs' = regs
          BY <2>2, <3>2, <4>1, <4>3 DEF PortInv, ReadInv
        <5>2. Port!Read
          BY <2>1, <3>1, <4>2, <4>3, <5>1 DEF Port!Read, Answer
        <5> QED BY <5>2 DEF Port!Next
      <4>4. CASE op # "read"
        <5>1. op = "write"
          BY <4>4 DEF PortInv, MiiInv, TypeOK
        <5>2. Port!Write
          BY <2>1, <3>1, <3>2, <3>4, <4>2, <4>4, <5>1 DEF Port!Write
        <5> QED BY <5>2 DEF Port!Next
      <4> QED BY <4>3, <4>4
    <3> QED BY <3>3, <3>4
  <2>3. CASE state # "frame"
    <3>1. /\ UNCHANGED regs
          /\ \/ state' = "frame" /\ startReq /\ startReq' = FALSE
             \/ state' = "idle" /\ ~startReq /\ startReq' = startReq
      BY <1>1, <2>3, RiseResting DEF PortInv, MiiInv
    <3>2. Served' <=> Served
      BY <2>1, <2>3, <3>1 DEF Served, PortInv, MiiInv, CmdInv
    <3> QED BY <2>1, <3>1, <3>2
  <2> QED BY <2>2, <2>3
<1>2. CASE Fall
  BY <1>2 DEF Fall, Served
<1>3. CASE HwClear
  <2>1. /\ sw = "wait" /\ ~Served /\ ~Served'
        /\ UNCHANGED <<regs, sw, op, phy, reg, txd>>
    BY <1>3 DEF HwClear, Done, Served, PortInv, MiiInv, CmdInv
  <2> QED BY <2>1
<1>4. CASE SwAddress
  <2>1. /\ sw = "idle" /\ sw' = "cmd" /\ ~Served /\ ~Served' /\ UNCHANGED regs
        /\ op' \in {"read", "write"} /\ phy' \in UsedPhys
        /\ reg' \in Words(RegBits) /\ txd' \in Words(DataBits)
    <3>1. txd \in Words(DataBits)
      BY DEF PortInv, MiiInv, TypeOK
    <3> QED BY <1>4, <3>1 DEF SwAddress, Served
  <2>2. o' \in Port!Op
    BY <2>1 DEF Port!Op
  <2>3. Port!Request
    BY <2>1, <2>2 DEF Port!Request
  <2> QED BY <2>3 DEF Port!Next
<1>5. CASE SwCommand
  <2>1. /\ sw = "cmd" /\ sw' = "wait" /\ startReq' /\ ~Served /\ ~Served'
        /\ UNCHANGED <<regs, op, phy, reg, txd>>
    BY <1>5 DEF SwCommand, Served, PortInv, MiiInv, CmdInv
  <2> QED BY <2>1
<1>6. CASE SwPoll
  <2>1. /\ sw = "wait" /\ sw' = "clear" /\ Served /\ Served'
        /\ UNCHANGED <<regs, op, phy, reg, txd, rxd>>
    BY <1>6 DEF SwPoll, Busy, Served, PortInv, MiiInv, TypeOK
  <2> QED BY <2>1
<1>7. CASE SwClear
  <2>1. sw = "clear" /\ sw' = "idle" /\ Served /\ ~Served' /\ UNCHANGED regs
    BY <1>7 DEF SwClear, Served
  <2>2. Port!Reply
    BY <2>1 DEF Port!Reply
  <2> QED BY <2>2 DEF Port!Next
<1>8. CASE UNCHANGED vars
  BY <1>8 DEF vars, Served
<1> QED BY <1>1, <1>2, <1>3, <1>4, <1>5, <1>6, <1>7, <1>8 DEF Next, Driver

(* For words of any width, a driver that works like mii_read and mii_write *)
(* sees the registers of the PHY as if they were its own: when BUSY is     *)
(* clear, a read has returned the register addressed, a write has reached  *)
(* it and no other, and elsewhere nothing answers.                         *)
THEOREM PortImplemented ==
  ASSUME EvenAddresses
  PROVE  Spec => ImplementsPhyPort
<1>1. Init => PortInv
  BY PortInit
<1>2. PortInv /\ [Next]_vars => PortInv'
  BY MiiStep, AddressStep, WriteStep, ReadStep, ServedStep DEF PortInv
<1>3. Init => Port!Init
  BY DEF Init, Port!Init, Served
<1>4. PortInv /\ [Next]_vars => [Port!Next]_(Port!vars)
  BY PortStep
<1> QED BY <1>1, <1>2, <1>3, <1>4, PTL DEF Spec, ImplementsPhyPort, Port!Spec

=============================================================================
