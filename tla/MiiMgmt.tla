------------------------------ MODULE MiiMgmt ------------------------------
(***************************************************************************)
(* The MII management interface: a driver's register access (mii_read and  *)
(* mii_write of the bare-metal driver, ethoc_mdio_read and _write), the    *)
(* controller (iob_eth_mii_management.v) with the MIICOMMAND and           *)
(* MIIRX_DATA registers, the MDIO line, and the Clause 22 PHY of the       *)
(* simulation (iob_phy_model.v).                                           *)
(*                                                                         *)
(* A step of the line is one edge of MDC.  Register contents and addresses *)
(* are sequences of bits, most significant first.                          *)
(***************************************************************************)
EXTENDS Naturals, Sequences

CONSTANTS
  PreLen,    \* preamble bits (32)
  PhyBits,   \* width of a PHY address (5)
  RegBits,   \* width of a register address (5)
  DataBits,  \* width of a register (16)
  CntMod,    \* bit_cnt wraps here (2^7)
  PhyAddr,   \* the PHY's own address
  UsedPhys,  \* PHY addresses the driver uses
  MaxOps     \* bound: operations in a behaviour

Words(n) == [1..n -> {0, 1}]

(* The value bit_cnt has during the first bit of each field. *)
ST  == PreLen
PHY == ST + 4
REG == PHY + PhyBits
TA  == REG + RegBits
DAT == TA + 2
END == DAT + DataBits

ASSUME ConstAssumption ==
  /\ PreLen \in Nat \ {0} /\ PhyBits \in Nat \ {0} /\ RegBits \in Nat \ {0}
  /\ DataBits \in Nat \ {0} /\ CntMod \in Nat /\ MaxOps \in Nat
  /\ END < CntMod
  /\ PhyAddr \in Words(PhyBits)
  /\ UsedPhys \subseteq Words(PhyBits)

VARIABLES
  mdc,       \* level of MDC
  (* controller *)
  state,     \* IDLE, FRAME, DONE
  cnt,       \* bit_cnt
  shift,     \* data_shift
  rx,        \* rx_data
  startReq,  \* start_req
  mdo, oe,   \* mdio_out, mdio_oe
  (* registers *)
  cmd,       \* MIICOMMAND: none, read or write
  phy, reg,  \* MIIADDRESS
  txd,       \* MIITX_DATA
  rxd,       \* MIIRX_DATA
  (* PHY *)
  prev,      \* mdio_d1
  inFrame,   \* in_frame
  pcnt,      \* the PHY's bit_cnt
  pphy, preg,  \* phy_addr, reg_addr
  match, opRead,
  pshift,    \* rd_shift
  pout, poe, \* the PHY's mdio_out, mdio_oe
  regs,      \* regs
  (* driver *)
  sw,        \* idle, cmd, wait, clear: where mii_read or mii_write is
  op,        \* read or write
  ops        \* operations begun

staVars == <<state, cnt, shift, rx>>
outVars == <<mdo, oe>>
addrVars == <<phy, reg, txd>>
phyIn   == <<prev, inFrame, pcnt, pphy, preg, match, opRead, regs>>
phyOut  == <<pout, poe>>
swVars  == <<sw, op, ops>>

vars == <<mdc, staVars, startReq, outVars, cmd, addrVars, rxd, phyIn, pshift,
          phyOut, swVars>>

ShiftIn(w, b) == Append(Tail(w), b)

(* The MDIO line has a pull-up (iob_miim_tb.v: tri1). *)
Line == IF oe THEN mdo ELSE IF poe THEN pout ELSE 1

-----------------------------------------------------------------------------
(* The controller. *)

(* Everything before the data.  The preamble is sent whatever NOPRE says:  *)
(* bit_cnt_nxt = 32 is overwritten at the end of the FRAME case.           *)
Header ==
  [i \in 1..PreLen |-> 1] \o <<0, 1>>
    \o (IF cmd = "read" THEN <<1, 0>> ELSE <<0, 1>>) \o phy \o reg \o <<1, 0>>

MdioOut ==
  IF state # "frame" THEN 1
  ELSE IF cnt < DAT THEN Header[cnt + 1]
  ELSE IF cmd = "read" THEN 1 ELSE Head(shift)

\* mutant: the line is held through the turnaround
MdioOeHolding == state = "frame" /\ (cmd = "read" => cnt < DAT)
MdioOe == state = "frame" /\ (cmd = "read" => cnt < TA)

\* mutant: the end is not seen once the command was cleared
FrameEndWithCommand == cnt = END /\ cmd # "none"
FrameEndLate == cnt = END + 1  \* mutant: off by one
FrameEnd == cnt = END

StaRise ==
  \/ /\ state = "idle"
     /\ IF startReq
          THEN /\ state' = "frame"
               /\ cnt' = 0
               /\ shift' = IF cmd = "write" THEN txd ELSE shift
               /\ startReq' = FALSE
          ELSE UNCHANGED <<state, cnt, shift, startReq>>
     /\ UNCHANGED rx
  \/ /\ state = "frame"
     /\ IF FrameEnd THEN state' = "done" /\ UNCHANGED cnt
                    ELSE cnt' = (cnt + 1) % CntMod /\ UNCHANGED state
     /\ shift' = IF cnt >= DAT /\ cmd # "read" THEN ShiftIn(shift, 0) ELSE shift
     /\ rx' = IF cnt >= DAT /\ cmd = "read" /\ ~FrameEnd
                THEN ShiftIn(rx, Line) ELSE rx
     /\ UNCHANGED startReq
  \/ /\ state = "done"
     /\ state' = "idle"
     /\ UNCHANGED <<cnt, shift, rx, startReq>>

Done == state = "frame" /\ FrameEnd

(* done_pulse clears MIICOMMAND and loads MIIRX_DATA, within a clock.      *)
HwClear ==
  /\ Done
  /\ cmd # "none"
  /\ cmd' = "none"
  /\ rxd' = rx
  /\ UNCHANGED <<mdc, staVars, startReq, outVars, addrVars, phyIn, pshift,
                 phyOut, swVars>>

BusyLate == state # "idle"  \* mutant: a command not yet begun is not busy
Busy == state # "idle" \/ startReq

-----------------------------------------------------------------------------
(* The PHY: its bit_cnt is that of the controller less ST + 1. *)
Pos(k) == k - ST - 1

SetBit(w, i) == [w EXCEPT ![i] = Line]

(* While in a frame, the bit on the line goes where bit_cnt says.  match   *)
(* is computed from the address before its last bit.                       *)
PhySample ==
  /\ pcnt' = pcnt + 1
  /\ opRead' = IF pcnt = 1 THEN Line = 1 ELSE opRead
  /\ pphy' = IF pcnt \in Pos(PHY)..Pos(REG)-1
               THEN SetBit(pphy, pcnt - Pos(PHY) + 1) ELSE pphy
  /\ match' = IF pcnt = Pos(REG) - 1 THEN pphy = PhyAddr ELSE match
  /\ preg' = IF pcnt \in Pos(REG)..Pos(TA)-1
               THEN SetBit(preg, pcnt - Pos(REG) + 1) ELSE preg
  /\ pshift' = IF ~match THEN pshift
               ELSE IF opRead /\ pcnt = Pos(TA) THEN regs[preg]
               ELSE IF ~opRead /\ pcnt \in Pos(DAT)..Pos(END)-1
                 THEN ShiftIn(pshift, Line)
               ELSE pshift
  /\ inFrame' = (pcnt # Pos(END))
  /\ regs' = IF pcnt = Pos(END) /\ match /\ ~opRead
               THEN [regs EXCEPT ![preg] = pshift] ELSE regs

(* Outside a frame, a fall of the line begins one. *)
PhyRise ==
  /\ prev' = Line
  /\ IF inFrame
       THEN PhySample
       ELSE /\ pcnt' = 0
            /\ match' = FALSE
            /\ inFrame' = (prev = 1 /\ Line = 0)
            /\ UNCHANGED <<pphy, preg, opRead, pshift, regs>>

PhyDrives == inFrame /\ match /\ opRead

(* On the falling edge it drives the turnaround zero, then the data. *)
PhyFall ==
  /\ poe' = (PhyDrives /\ pcnt \in Pos(TA)+1..Pos(END)-1)
  /\ pout' = IF ~poe' THEN pout
             ELSE IF pcnt = Pos(TA) + 1 THEN 0 ELSE Head(pshift)
  /\ pshift' = IF PhyDrives /\ pcnt \in Pos(DAT)..Pos(END)-1
                 THEN ShiftIn(pshift, 0) ELSE pshift

-----------------------------------------------------------------------------
(* MDC.  The self-clear of MIICOMMAND does not last a period. *)
Rise ==
  /\ ~mdc
  /\ Done => cmd = "none"
  /\ mdc' = TRUE
  /\ StaRise
  /\ PhyRise
  /\ UNCHANGED <<outVars, cmd, addrVars, rxd, phyOut, swVars>>

Fall ==
  /\ mdc
  /\ mdc' = FALSE
  /\ mdo' = MdioOut
  /\ oe' = MdioOe
  /\ PhyFall
  /\ UNCHANGED <<staVars, startReq, cmd, addrVars, rxd, phyIn, swVars>>

-----------------------------------------------------------------------------
(* The driver. *)

(* Write MIIADDRESS and, for a write, MIITX_DATA. *)
SwAddress ==
  /\ sw = "idle"
  /\ ops < MaxOps
  /\ op' \in {"read", "write"}
  /\ phy' \in UsedPhys
  /\ reg' \in Words(RegBits)
  /\ txd' \in IF op' = "write" THEN Words(DataBits) ELSE {txd}
  /\ ops' = ops + 1
  /\ sw' = "cmd"
  /\ UNCHANGED <<mdc, staVars, startReq, outVars, cmd, rxd, phyIn, pshift,
                 phyOut>>

(* Write MIICOMMAND; only its rising edge is a request. *)
SwCommand ==
  /\ sw = "cmd"
  /\ cmd' = op
  /\ startReq' = (startReq \/ cmd = "none")
  /\ sw' = "wait"
  /\ UNCHANGED <<mdc, staVars, outVars, addrVars, rxd, phyIn, pshift, phyOut,
                 op, ops>>

(* BUSY is clear: the operation is over; a read takes MIIRX_DATA ... *)
SwPoll ==
  /\ sw = "wait"
  /\ ~Busy
  /\ sw' = "clear"
  /\ UNCHANGED <<mdc, staVars, startReq, outVars, cmd, addrVars, rxd, phyIn,
                 pshift, phyOut, op, ops>>

(* ... and MIICOMMAND is reset. *)
SwClear ==
  /\ sw = "clear"
  /\ cmd' = "none"
  /\ sw' = "idle"
  /\ UNCHANGED <<mdc, staVars, startReq, outVars, addrVars, rxd, phyIn, pshift,
                 phyOut, op, ops>>

Driver == SwAddress \/ SwCommand \/ SwPoll \/ SwClear

-----------------------------------------------------------------------------
Zeros(n) == [i \in 1..n |-> 0]

Init ==
  /\ mdc = FALSE
  /\ state = "idle" /\ cnt = 0 /\ startReq = FALSE
  /\ shift = Zeros(DataBits) /\ rx = Zeros(DataBits)
  /\ mdo = 0 /\ oe = FALSE
  /\ cmd = "none" /\ phy = Zeros(PhyBits) /\ reg = Zeros(RegBits)
  /\ txd = Zeros(DataBits) /\ rxd = Zeros(DataBits)
  /\ prev = 1 /\ inFrame = FALSE /\ pcnt = 0
  /\ pphy = Zeros(PhyBits) /\ preg = Zeros(RegBits)
  /\ match = FALSE /\ opRead = FALSE /\ pshift = Zeros(DataBits)
  /\ pout = 0 /\ poe = FALSE
  /\ regs \in [Words(RegBits) -> Words(DataBits)]
  /\ sw = "idle" /\ op = "read" /\ ops = 0

Next == Rise \/ Fall \/ HwClear \/ Driver

Spec == Init /\ [][Next]_vars

(* MDC runs; the driver, once in an operation, goes on polling. *)
Fairness ==
  /\ WF_vars(Rise) /\ WF_vars(Fall) /\ WF_vars(HwClear)
  /\ WF_vars(SwCommand \/ SwPoll \/ SwClear)

FairSpec == Spec /\ Fairness

-----------------------------------------------------------------------------
(***************************************************************************)
(* Properties.                                                             *)
(***************************************************************************)

(* Every register has the values it can hold. *)
TypeOK ==
  /\ mdc \in BOOLEAN
  /\ state \in {"idle", "frame", "done"} /\ cnt \in 0..END
  /\ shift \in Words(DataBits) /\ rx \in Words(DataBits)
  /\ startReq \in BOOLEAN /\ mdo \in {0, 1} /\ oe \in BOOLEAN
  /\ cmd \in {"none", "read", "write"}
  /\ phy \in Words(PhyBits) /\ reg \in Words(RegBits)
  /\ txd \in Words(DataBits) /\ rxd \in Words(DataBits)
  /\ prev \in {0, 1} /\ inFrame \in BOOLEAN /\ pcnt \in 0..Pos(END)+1
  /\ pphy \in Words(PhyBits) /\ preg \in Words(RegBits)
  /\ match \in BOOLEAN /\ opRead \in BOOLEAN /\ pshift \in Words(DataBits)
  /\ pout \in {0, 1} /\ poe \in BOOLEAN
  /\ regs \in [Words(RegBits) -> Words(DataBits)]
  /\ sw \in {"idle", "cmd", "wait", "clear"} /\ op \in {"read", "write"}
  /\ ops \in 0..MaxOps

(* Controller and PHY never drive the line at the same time, in no phase   *)
(* of the turnaround and wherever the self-clear of MIICOMMAND (which      *)
(* changes the direction of the last bit) falls.                           *)
NoContention == ~(oe /\ poe)

(* The driver's operations read and write the PHY's registers: the value   *)
(* in MIIRX_DATA when BUSY is seen clear is that of the register addressed *)
(* (or all ones), and a write has reached its register by then, and no     *)
(* other.                                                                  *)
Served == sw = "clear" \/ (sw = "wait" /\ ~startReq /\ state # "frame")
Port == INSTANCE PhyPort WITH
  Phys <- UsedPhys, Regs <- Words(RegBits), Data <- Words(DataBits),
  AllOnes <- [i \in 1..DataBits |-> 1],
  req <- IF sw = "idle" THEN {}
         ELSE {[kind |-> op, phy |-> phy, reg |-> reg, data |-> txd]},
  resp <- IF Served THEN {IF op = "read" THEN rxd ELSE txd} ELSE {}
ImplementsPhyPort == Port!Spec

(* Every operation ends. *)
OperationEnds == sw # "idle" ~> sw = "idle"

=============================================================================
