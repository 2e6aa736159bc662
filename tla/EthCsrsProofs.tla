--------------------------- MODULE EthCsrsProofs ---------------------------
(***************************************************************************)
(* For every set of frame lengths, every depth of the FIFO and every       *)
(* number of frames and writes: software that moves frames through         *)
(* FRAME_WORD as the registers tell it gets and sends them whole, and no   *)
(* event is lost.                                                          *)
(*                                                                         *)
(* The argument.  Software and the Data Transfer block walk through a      *)
(* frame together: SendInv and RecvInv say, for each state of one, which   *)
(* states of the other are possible and how many bytes are left.  The      *)
(* difficult place is the end of a received frame, where the last byte has *)
(* been taken out of the FIFO and is still on its way to software: the     *)
(* Data Transfer block may then be in state 5 with nothing left to serve   *)
(* for exactly one cycle, the one in which software is answered.           *)
(***************************************************************************)
EXTENDS EthCsrs, SequenceTheorems, TLAPS

(* What the bus presents is an access software may make. *)
ReqInv ==
  /\ phase \in {"idle", "req", "rv"}
  /\ phase # "idle" => req \in Requests
  /\ phase = "rv" => ~req.wr
  /\ task = "registers" => step = "go"

(* The FIFO of a frame of which n bytes were written. *)
Sent(n) == [i \in 1..PreLen |-> 0] \o [i \in 1..n |-> i]

(* Where software and the transmit half are in the frame ... *)
SendWalk ==
  /\ step \in {"enable", "arm", "write", "status"}
  /\ step \in {"enable", "arm"} => ~bd["tx"]
  /\ ~bd["tx"] => txst = "bd"
  /\ step = "write" => owed > 0 /\ bd["tx"] /\ txst \in {"bd", "pre", "xfer"}
  /\ step = "status" => owed = 0 /\ txst # "pre" /\ (txst = "bd" => ~bd["tx"])
  /\ txst = "pre" \/ (txst = "bd" /\ bd["tx"]) => step = "write" /\ owed = txlen
  /\ txst = "pre" => txcnt = 0 /\ pre <= PreLen
  /\ txst = "xfer" => txcnt + owed = txlen
  /\ txst \in {"wait", "stat"} => step = "status"
  /\ send => txst = "wait"

(* ... and what the FIFO holds then. *)
SendBytes ==
  /\ txst = "pre" => out = [i \in 1..pre |-> 0]
  /\ txst = "xfer" => out = Sent(txcnt)
  /\ txst = "wait" => out = Sent(txlen)

SendInv == task = "transmit" =>
  /\ SendWalk /\ SendBytes
  /\ phase = "rv" /\ req.reg = "bd" /\ ~bdq => ~bd["tx"]

SendIdle == task # "transmit" => ~bd["tx"] /\ txst = "bd" /\ ~send

(* The received frames fill the data FIFO without gaps. *)
Ends ==
  /\ \A f \in 1..Len(info) :
       info[f].start = End(f - 1) /\ info[f].len \in FrameLens /\ End(f) <= Len(hist)
  /\ Len(hist) = End(Len(info))

(* Where the Data Transfer block is in the byte stream. *)
Served == IF rxst = "xfer" THEN info[ird].start + rxcnt
          ELSE IF rxst = "pend" THEN info[ird].start ELSE End(ird)

(* A byte on its way to software. *)
Pending == phase = "rv" /\ req.reg = "frame_word"

StreamInv ==
  /\ rxst \in {"pend", "xfer"} => ird > 0
  /\ rxst = "xfer" =>
       /\ rxnv /\ rxlen = info[ird].len /\ rxcnt <= rxlen
       /\ rp = info[ird].start + (IF rxcnt < rxlen THEN rxcnt + 1 ELSE rxlen)
  /\ rxst # "xfer" => ~rxnv /\ rp = Served
  /\ rxst \in {"info", "pend"} => rxcnt = 0

(* Where software and the receive half are in the frame ... *)
RecvWalk ==
  /\ step \in {"enable", "arm", "poll", "read", "status"}
  /\ ~bd["rx"] => rxst = "bd"
  /\ step \in {"enable", "arm"} => ~bd["rx"] /\ ird = done
  /\ step = "poll" =>
       /\ bd["rx"] /\ rxst # "stat"
       /\ ird = IF rxst \in {"pend", "xfer"} THEN done + 1 ELSE done
  /\ step = "read" => bd["rx"] /\ rxst = "xfer" /\ ird = done + 1 /\ owed > 0
  /\ step = "status" => rxst \in {"stat", "bd"} /\ (rxst = "bd" => ~bd["rx"]) /\ ird = done + 1
  /\ Pending => step = "read"

(* ... and in its bytes: all but the one on its way were taken. *)
RecvCount ==
  /\ Served = Len(got) + (IF Pending THEN 1 ELSE 0)
  /\ step = "poll" => Len(got) = End(done)
  /\ step = "read" => Len(got) + owed = End(ird)
  /\ step = "status" => Len(got) = End(ird)
  /\ step \in {"enable", "arm"} => Len(got) = End(done)

(* Nothing software took, or is about to take, is not what was received. *)
RecvBytes ==
  /\ \A i \in 1..Len(got) : got[i] = hist[i]
  /\ Pending => rxdata = hist[Served]

(* Nothing the bus was answered, or is about to be, is out of date. *)
RecvAnswers ==
  /\ Pending => "frame_word" \in rvalid
  /\ phase = "rv" /\ req.reg = "bd" /\ ~bdq => ~bd["rx"]
  /\ phase = "rv" /\ req.reg = "rx_nbytes" /\ nbytes # 0 => rxst = "xfer" /\ nbytes = rxlen

RecvInv == task = "receive" => RecvWalk /\ RecvCount /\ RecvBytes /\ RecvAnswers

RecvIdle == task # "receive" =>
  info = <<>> /\ hist = <<>> /\ ird = 0 /\ ~bd["rx"] /\ rxst = "bd" /\ ~rxnv

Inv == /\ TypeOK /\ ReqInv /\ SendInv /\ SendIdle /\ EventKept
       /\ Ends /\ StreamInv /\ RecvInv /\ RecvIdle

(* No handshake port is an ordinary register. *)
LEMMA PortFacts ==
  /\ "frame_word" \notin FileRegs /\ "bd" \notin FileRegs /\ "none" \notin FileRegs
  /\ "int_source" \notin FileRegs /\ "rx_nbytes" \notin FileRegs
  /\ "moder" \in FileRegs /\ "tx_bd_num" \in FileRegs
BY DEF FileRegs, SwRegs, ModePorts, MiiPorts, AddrPorts

(* The ports, by what an access to them does.                              *)
LEMMA PortSets ==
  /\ Ports = FileRegs \cup StatusRegs \cup {"int_source", "rx_nbytes", "frame_word", "bd"}
  /\ SwRegs \cup CoreRegs \cup StatusRegs \cup BdRegs = Ports \ {"rx_nbytes", "frame_word"}
  /\ StatusRegs \cap {"int_source", "rx_nbytes", "frame_word", "bd", "moder"} = {}
  /\ "none" \notin Ports /\ FileRegs \cap StatusRegs = {}
BY DEF Ports, FileRegs, StatusRegs, SwRegs, ModePorts, MiiPorts, AddrPorts,
   CoreRegs, NoDmaRegs, BdRegs

(* Every ordinary register has a reset value. *)
LEMMA ResetFacts == \A r \in FileRegs : FileReset(r) \in Nat
<1> SUFFICES ASSUME NEW r \in FileRegs PROVE FileReset(r) \in Nat
  OBVIOUS
<1>1. CASE r = "tx_bd_num"
  BY <1>1 DEF FileReset
<1>2. CASE r \in ModePorts
  <2>1. ModeRegs[r] \in Nat
    BY <1>2 DEF ModePorts, ModeRegs
  <2> QED BY <1>2, <2>1 DEF FileReset, ResetValue, ModePorts
<1>3. CASE r \in MiiPorts
  <2>1. MiiRegs[r] \in Nat
    BY <1>3 DEF MiiPorts, MiiRegs
  <2> QED BY <1>3, <2>1 DEF FileReset, ResetValue, ModePorts, MiiPorts
<1>4. CASE r \in AddrPorts
  <2>1. AddrRegs[r] \in Nat
    BY <1>4 DEF AddrPorts, AddrRegs
  <2> QED BY <1>4, <2>1 DEF FileReset, ResetValue, ModePorts, MiiPorts, AddrPorts
<1> QED BY <1>1, <1>2, <1>3, <1>4 DEF FileRegs, SwRegs

(* What an access may be, by the port it goes to. *)
Legal(r) ==
  /\ r \in [reg: Ports, wr: BOOLEAN, data: Nat]
  /\ r.reg \in FileRegs =>
       IF task = "registers" THEN (r.wr => left > 0 /\ r.data \in Vals)
                             ELSE r.wr /\ step = "enable" /\ r.data = Enabled
  /\ r.reg = "bd" => IF r.wr THEN step = "arm" /\ r.data \in FrameLens
                             ELSE step = "status"
  /\ r.reg = "frame_word" => IF r.wr THEN step = "write" ELSE step = "read"
  /\ r.reg = "rx_nbytes" => step = "poll" /\ ~r.wr
  /\ r.reg \in StatusRegs => task = "registers" /\ ~r.wr

(* Software asks only for what the bus can answer. *)
LEMMA RequestFacts ==
  ASSUME NEW r \in Requests, task = "registers" => step = "go"
  PROVE  Legal(r)
<1>0. FrameLens \subseteq Nat /\ Vals \subseteq Nat /\ Enabled \in Nat
  BY CsrAssumption DEF Enabled
<1>1. ASSUME NEW p \in FileRegs \cup StatusRegs, r = Rd(p), task = "registers"
      PROVE  Legal(r)
  BY <1>1, PortFacts, PortSets DEF Legal, Rd
<1>2. ASSUME NEW p \in FileRegs, NEW v \in Vals, r = Wr(p, v), task = "registers", left > 0
      PROVE  Legal(r)
  BY <1>0, <1>2, PortFacts, PortSets DEF Legal, Wr
<1>3. ASSUME NEW n \in FrameLens, r = Wr("bd", n), step = "arm"
      PROVE  Legal(r)
  BY <1>0, <1>3, PortFacts, PortSets DEF Legal, Wr
<1>4. ASSUME r = Wr("moder", Enabled), step = "enable"
      PROVE  Legal(r)
  <2>1. task # "registers"
    BY <1>4
  <2> QED BY <1>0, <1>4, <2>1, PortFacts, PortSets DEF Legal, Wr
<1>5. ASSUME r = Rd("int_source") \/ r = Wr("int_source", 0)
      PROVE  Legal(r)
  <2>1. CASE r = Rd("int_source")
    BY <2>1, <1>5, PortFacts, PortSets DEF Legal, Rd
  <2>2. CASE r = Wr("int_source", 0)
    BY <2>2, <1>5, PortFacts, PortSets DEF Legal, Wr
  <2> QED BY <1>5, <2>1, <2>2
<1>6. step = "poll" /\ r = Rd("rx_nbytes") => Legal(r)
  BY PortFacts, PortSets DEF Legal, Rd
<1>7. step = "read" /\ r = Rd("frame_word") => Legal(r)
  BY PortFacts, PortSets DEF Legal, Rd
<1>8. step = "write" /\ r = Wr("frame_word", 0) => Legal(r)
  BY PortFacts, PortSets DEF Legal, Wr
<1>9. step = "status" /\ r = Rd("bd") => Legal(r)
  BY PortFacts, PortSets DEF Legal, Rd
<1>10. \/ task = "registers" /\ \E p \in FileRegs \cup StatusRegs : r = Rd(p)
       \/ task = "registers" /\ left > 0 /\ \E p \in FileRegs, v \in Vals : r = Wr(p, v)
       \/ r = Rd("int_source") \/ r = Wr("int_source", 0)
       \/ step = "enable" /\ r = Wr("moder", Enabled)
       \/ step = "arm" /\ \E n \in FrameLens : r = Wr("bd", n)
       \/ step = "poll" /\ r = Rd("rx_nbytes")
       \/ step = "read" /\ r = Rd("frame_word")
       \/ step = "write" /\ r = Wr("frame_word", 0)
       \/ step = "status" /\ r = Rd("bd")
  BY DEF Requests, When
<1> QED BY <1>1, <1>2, <1>3, <1>4, <1>5, <1>6, <1>7, <1>8, <1>9, <1>10

(* The access on the bus is one of these. *)
LEMMA AccessFacts == ReqInv => (phase # "idle" => Legal(req))
BY RequestFacts DEF ReqInv

(* The access on the bus stays one that software may make. *)
LEMMA RequestStep ==
  ASSUME TypeOK, ReqInv, Bus
  PROVE  ReqInv'
<1>0. phase # "idle" => Legal(req)
  BY AccessFacts
<1>1. ASSUME UNCHANGED swVars
      PROVE  Requests' = Requests
  BY <1>1 DEF Requests, When, swVars
<1>2. ASSUME NextAccess, task' = task, task = "registers" => step' = "go"
      PROVE  ReqInv'
  BY <1>2 DEF NextAccess, ReqInv
<1>3. CASE BusIdle
  BY <1>2, <1>3 DEF BusIdle, ReqInv, swVars
<1>4. CASE BusStall
  BY <1>1, <1>4 DEF BusStall, ReqInv, swVars, busVars
<1>5. CASE BusRead
  BY <1>1, <1>5 DEF BusRead, ReqInv, swVars
<1>6. CASE BusAwait
  BY <1>1, <1>6 DEF BusAwait, ReqInv, swVars, busVars
<1>7. CASE BusWrite
  BY <1>0, <1>2, <1>7 DEF BusWrite, ReqInv, Legal
<1>8. CASE BusAnswer
  BY <1>0, <1>2, <1>8 DEF BusAnswer, ReqInv, Legal
<1> QED BY <1>3, <1>4, <1>5, <1>6, <1>7, <1>8 DEF Bus

(* Software's variables keep their type. *)
LEMMA SwTypeStep ==
  ASSUME TypeOK, ReqInv, ReqInv', SendInv, RecvInv, Bus
  PROVE  SwType'
<1> USE DEF SwType
<1>0. phase # "idle" => Legal(req)
  BY AccessFacts
<1>1. req' \in [reg: Ports \cup {"none"}, wr: BOOLEAN, data: Nat] /\ phase' \in {"idle", "req", "rv"}
  <2>1. CASE UNCHANGED req
    BY <2>1 DEF TypeOK, ReqInv
  <2>2. CASE NextAccess /\ phase' = "idle"
    <3>1. req' = None
      BY <2>2 DEF NextAccess
    <3>2. None \in [reg: Ports \cup {"none"}, wr: BOOLEAN, data: Nat]
      BY DEF None, Rd
    <3> QED BY <2>2, <3>1, <3>2
  <2>3. CASE phase' = "req"
    <3>1. (phase # "idle" => Legal(req))'
      BY AccessFacts, PTL
    <3> QED BY <2>3, <3>1 DEF Legal
  <2> QED BY <2>1, <2>2, <2>3 DEF Bus, BusIdle, BusStall, BusRead, BusAwait, BusWrite,
             BusAnswer, NextAccess, busVars
<1>2. CASE BusIdle \/ BusStall \/ BusRead \/ BusAwait
  BY <1>1, <1>2 DEF TypeOK, BusIdle, BusStall, BusRead, BusAwait, swVars
<1>3. step \in {"write", "read"} => owed > 0
  BY CsrAssumption DEF SendInv, SendWalk, RecvInv, RecvWalk, ReqInv, TypeOK
<1>4. CASE BusWrite
  <2>1. Legal(req)
    BY <1>0, <1>4 DEF BusWrite
  <2>2. left' \in Nat /\ owed' \in Nat
    BY <1>3, <1>4, <2>1, CsrAssumption DEF BusWrite, Legal, TypeOK
  <2> QED BY <1>1, <1>4, <2>2 DEF BusWrite, TypeOK
<1>5. CASE BusAnswer
  <2>1. Legal(req) /\ ~req.wr
    BY <1>0, <1>5 DEF BusAnswer, ReqInv
  <2>2. owed' \in Nat /\ done' \in Nat
    BY <1>3, <1>5, <2>1 DEF BusAnswer, Legal, TypeOK, CoreType
  <2>3. got' \in Seq(Nat \X Nat)
    <3>1. got' = got \/ got' = Append(got, rxdata)
      BY <1>5 DEF BusAnswer
    <3>2. Append(got, rxdata) \in Seq(Nat \X Nat)
      BY AppendProperties DEF TypeOK, RxType
    <3> QED BY <3>1, <3>2 DEF TypeOK
  <2> QED BY <1>1, <1>5, <2>2, <2>3 DEF BusAnswer, TypeOK, CoreType
<1> QED BY <1>2, <1>4, <1>5 DEF Bus

(* The bytes of a frame. *)
LEMMA FrameFacts ==
  ASSUME NEW f \in Nat, NEW n \in Nat
  PROVE  /\ [i \in 1..n |-> <<f, i>>] \in Seq(Nat \X Nat)
         /\ Len([i \in 1..n |-> <<f, i>>]) = n
<1> DEFINE b == [i \in 1..n |-> <<f, i>>]
<1>1. b \in [1..n -> Nat \X Nat]
  OBVIOUS
<1>2. b \in Seq(Nat \X Nat)
  BY <1>1, SeqDef
<1>3. Len(b) = n
  BY <1>1, <1>2, LenProperties
<1> QED BY <1>2, <1>3

(* What is behind the registers keeps its type. *)
LEMMA CoreTypeStep ==
  ASSUME TypeOK, ReqInv, Next
  PROVE  CoreType'
<1>0. phase # "idle" => Legal(req)
  BY AccessFacts
<1>1. regs' \in [FileRegs -> Nat]
  BY <1>0 DEF Next, Registers, FileWrite, Wen, Legal, TypeOK, CoreType
<1>2. rvalid' \subseteq Ports
  BY PortSets DEF Next, Registers, Rvalids
<1>3. nbytes' \in Nat /\ bdq' \in BOOLEAN
  BY DEF Next, Registers, Nbytes, BdRead, TypeOK, CoreType, RxType
<1>4. bd' \in [{"rx", "tx"} -> BOOLEAN]
  BY DEF Next, Descriptor, TypeOK, CoreType
<1>5. /\ src' \subseteq {"txf", "rxf"} /\ irqd' \subseteq {"txf", "rxf"}
      /\ since' \subseteq {"txf", "rxf"}
  <2>1. Irqs \subseteq {"txf", "rxf"}
    BY DEF Irqs
  <2> QED BY <2>1 DEF Next, Interrupts, Source, Events, Cleared, TypeOK, CoreType
<1> QED BY <1>1, <1>2, <1>3, <1>4, <1>5 DEF CoreType

(* The receive half keeps its types, and what it puts in is a frame. *)
LEMMA RxTypeStep ==
  ASSUME TypeOK, Receive
  PROVE  RxType'
<1> DEFINE Grown == /\ hist' \in Seq(Nat \X Nat)
                    /\ info' \in Seq([start: Nat, len: FrameLens])
                    /\ Len(info) <= Len(info')
<1>1. Grown
  <2>1. CASE UNCHANGED <<hist, info>>
    BY <2>1 DEF TypeOK, RxType
  <2>2. ASSUME NEW n \in FrameLens,
               info' = Append(info, [start |-> Len(hist), len |-> n]),
               hist' = hist \o [i \in 1..n |-> <<Len(info) + 1, i>>]
        PROVE  Grown
    <3>1. n \in Nat /\ Len(hist) \in Nat /\ Len(info) \in Nat
      BY CsrAssumption, LenProperties DEF TypeOK, RxType
    <3>2. [start |-> Len(hist), len |-> n] \in [start: Nat, len: FrameLens]
      BY <3>1
    <3>3. hist' \in Seq(Nat \X Nat)
      BY <2>2, <3>1, FrameFacts, ConcatProperties DEF TypeOK, RxType
    <3> QED BY <2>2, <3>1, <3>2, <3>3, AppendProperties DEF TypeOK, RxType
  <2> QED BY <2>1, <2>2 DEF Receive, Arrive
<1>2. Len(info) \in Nat /\ Len(info') \in Nat
  <2>1. info \in Seq([start: Nat, len: FrameLens])
    BY DEF TypeOK, RxType
  <2> QED BY <1>1, <2>1, LenProperties
<1>3. rp' \in Nat
  BY DEF Receive, RxDescriptor, RxPopInfo, RxLatchInfo, RxServe, RxStatus, Pop, TypeOK, RxType
<1>4. ird' \in 0..Len(info') /\ (rxst' = "pend" => ird' > 0)
  <2>1. ird \in 0..Len(info) /\ (rxst = "pend" => ird > 0) /\ Len(info) <= Len(info')
    BY <1>1 DEF TypeOK, RxType
  <2> QED BY <2>1, <1>2 DEF Receive, RxDescriptor, RxPopInfo, RxLatchInfo, RxServe, RxStatus
<1>5. Byte(rp) \in Nat \X Nat
  <2>1. CASE rp \in DOMAIN hist
    BY <2>1 DEF Byte, TypeOK, RxType
  <2>2. CASE rp \notin DOMAIN hist
    BY <2>2 DEF Byte
  <2> QED BY <2>1, <2>2
<1>6. rxst = "pend" => info[ird].len \in Nat
  <2>1. rxst = "pend" => ird \in 1..Len(info)
    BY <1>2 DEF TypeOK, RxType
  <2>2. rxst = "pend" => info[ird] \in [start: Nat, len: FrameLens]
    BY <2>1, ElementOfSeq DEF TypeOK, RxType
  <2>3. FrameLens \subseteq Nat
    BY CsrAssumption
  <2> QED BY <2>2, <2>3
<1>7. rxlen' \in Nat /\ rxcnt' \in Nat /\ rxnv' \in BOOLEAN
  <2>1. rxlen \in Nat /\ rxcnt \in Nat /\ rxnv \in BOOLEAN
    BY DEF TypeOK, RxType
  <2>2. rxlen' \in Nat /\ rxcnt' \in Nat
    BY <1>6, <2>1 DEF Receive, RxDescriptor, RxPopInfo, RxLatchInfo, RxServe, RxStatus
  <2>3. rxnv' \in BOOLEAN
    BY <2>1 DEF Receive, RxDescriptor, RxPopInfo, RxLatchInfo, RxServe, RxStatus
  <2> QED BY <2>2, <2>3
<1>8. rxdata' \in Nat \X Nat
  BY <1>5 DEF Receive, RxDescriptor, RxPopInfo, RxLatchInfo, RxServe, RxStatus, TypeOK, RxType
<1>9. rxst' \in {"bd", "info", "pend", "xfer", "stat"}
  BY DEF Receive, RxDescriptor, RxPopInfo, RxLatchInfo, RxServe, RxStatus, TypeOK, RxType
<1> QED BY <1>1, <1>3, <1>4, <1>7, <1>8, <1>9 DEF RxType

(* Append extends the FIFO of a frame by its next byte. *)
LEMMA SentFacts ==
  ASSUME NEW n \in Nat
  PROVE  /\ Sent(n) \in Seq(Nat) /\ Len(Sent(n)) = PreLen + n
         /\ Append(Sent(n), n + 1) = Sent(n + 1)
<1>0. PreLen \in Nat
  BY CsrAssumption
<1>1. ASSUME NEW m \in Nat
      PROVE  /\ [i \in 1..m |-> 0] \in Seq(Nat) /\ Len([i \in 1..m |-> 0]) = m
             /\ [i \in 1..m |-> i] \in Seq(Nat) /\ Len([i \in 1..m |-> i]) = m
  <2>1. [i \in 1..m |-> 0] \in [1..m -> Nat] /\ [i \in 1..m |-> i] \in [1..m -> Nat]
    OBVIOUS
  <2>2. [i \in 1..m |-> 0] \in Seq(Nat) /\ [i \in 1..m |-> i] \in Seq(Nat)
    BY <2>1, SeqDef
  <2> QED BY <2>1, <2>2, LenProperties
<1>2. ASSUME NEW m \in Nat
      PROVE  /\ Sent(m) \in Seq(Nat) /\ Len(Sent(m)) = PreLen + m
             /\ \A i \in 1..(PreLen + m) : Sent(m)[i] = IF i <= PreLen THEN 0 ELSE i - PreLen
  <2>1. \A i \in 1..(PreLen + m) : Sent(m)[i] =
           IF i <= PreLen THEN [j \in 1..PreLen |-> 0][i] ELSE [j \in 1..m |-> j][i - PreLen]
    BY <1>0, <1>1, ConcatProperties DEF Sent
  <2>2. ASSUME NEW i \in 1..(PreLen + m)
        PROVE  Sent(m)[i] = IF i <= PreLen THEN 0 ELSE i - PreLen
    <3>1. CASE i <= PreLen
      <4>1. [j \in 1..PreLen |-> 0][i] = 0
        BY <1>0, <3>1
      <4> QED BY <2>1, <3>1, <4>1
    <3>2. CASE ~(i <= PreLen)
      <4>1. [j \in 1..m |-> j][i - PreLen] = i - PreLen
        BY <1>0, <3>2
      <4> QED BY <2>1, <3>2, <4>1
    <3> QED BY <3>1, <3>2
  <2> QED BY <1>0, <1>1, <2>2, ConcatProperties DEF Sent
<1>3. /\ Append(Sent(n), n + 1) \in Seq(Nat)
      /\ Len(Append(Sent(n), n + 1)) = PreLen + (n + 1)
      /\ \A i \in 1..(PreLen + n) : Append(Sent(n), n + 1)[i] = Sent(n)[i]
      /\ Append(Sent(n), n + 1)[PreLen + n + 1] = n + 1
  <2>1. Sent(n) \in Seq(Nat) /\ Len(Sent(n)) = PreLen + n
    BY <1>2
  <2>2. n + 1 \in Nat /\ (PreLen + n) + 1 = PreLen + (n + 1) /\ (PreLen + n) + 1 = PreLen + n + 1
    BY <1>0
  <2> HIDE DEF Sent
  <2> QED BY <2>1, <2>2, AppendProperties
<1>4. ASSUME NEW i \in 1..(PreLen + (n + 1))
      PROVE  Append(Sent(n), n + 1)[i] = Sent(n + 1)[i]
  <2>1. n + 1 \in Nat
    OBVIOUS
  <2>2. Sent(n + 1)[i] = IF i <= PreLen THEN 0 ELSE i - PreLen
    BY <1>2, <2>1
  <2>3. CASE i = PreLen + n + 1
    BY <1>0, <1>3, <2>2, <2>3
  <2>4. CASE i # PreLen + n + 1
    <3>1. i \in 1..(PreLen + n)
      BY <1>0, <2>4
    <3>2. Sent(n)[i] = IF i <= PreLen THEN 0 ELSE i - PreLen
      BY <1>2, <3>1
    <3> QED BY <1>3, <2>2, <3>1, <3>2
  <2> QED BY <2>3, <2>4
<1>5. Append(Sent(n), n + 1) = Sent(n + 1)
  <2>1. /\ Sent(n + 1) \in Seq(Nat) /\ Len(Sent(n + 1)) = PreLen + (n + 1)
    BY <1>2
  <2> HIDE DEF Sent
  <2> QED BY <1>3, <1>4, <2>1, SeqEqual
<1> QED BY <1>2, <1>5

(* The preamble, and where the frame starts behind it. *)
LEMMA PreambleFacts ==
  /\ [i \in 1..0 |-> 0] = <<>>
  /\ \A n \in Nat : Append([i \in 1..n |-> 0], 0) = [i \in 1..(n + 1) |-> 0]
  /\ Sent(0) = [i \in 1..PreLen |-> 0]
<1>1. ASSUME NEW n \in Nat
      PROVE  [i \in 1..n |-> 0] \in Seq(Nat) /\ Len([i \in 1..n |-> 0]) = n
  <2>1. [i \in 1..n |-> 0] \in [1..n -> Nat]
    OBVIOUS
  <2>2. [i \in 1..n |-> 0] \in Seq(Nat)
    BY <2>1, SeqDef
  <2> QED BY <2>1, <2>2, LenProperties
<1>2. [i \in 1..0 |-> 0] = <<>>
  BY <1>1, EmptySeq
<1>3. ASSUME NEW n \in Nat
      PROVE  Append([i \in 1..n |-> 0], 0) = [i \in 1..(n + 1) |-> 0]
  <2> DEFINE z(m) == [i \in 1..m |-> 0]
  <2>1. /\ z(n) \in Seq(Nat) /\ Len(z(n)) = n
        /\ z(n + 1) \in Seq(Nat) /\ Len(z(n + 1)) = n + 1
    BY <1>1
  <2>2. \A i \in 1..n : z(n)[i] = 0
    OBVIOUS
  <2>3. \A i \in 1..(n + 1) : z(n + 1)[i] = 0
    OBVIOUS
  <2> HIDE DEF z
  <2>4. /\ Append(z(n), 0) \in Seq(Nat) /\ Len(Append(z(n), 0)) = n + 1
        /\ \A i \in 1..(n + 1) : Append(z(n), 0)[i] = 0
    BY <2>1, <2>2, AppendProperties
  <2>5. Append(z(n), 0) = z(n + 1)
    BY <2>1, <2>3, <2>4, SeqEqual
  <2> QED BY <2>5 DEF z
<1>4. Sent(0) = [i \in 1..PreLen |-> 0]
  <2>1. [i \in 1..0 |-> i] = <<>>
    OBVIOUS
  <2>2. [i \in 1..PreLen |-> 0] \in Seq(Nat)
    BY <1>1, CsrAssumption
  <2> QED BY <2>1, <2>2, ConcatEmptySeq DEF Sent
<1> QED BY <1>2, <1>3, <1>4

(* What one cycle of the bus does to software that sends: it writes a      *)
(* byte, arms the descriptor, or does neither.                             *)
LEMMA BusSends ==
  ASSUME TypeOK, ReqInv, SendInv, Bus, task = "transmit"
  PROVE  /\ task' = task
         /\ \/ /\ Wen("frame_word") /\ TxWordReady /\ ~Wen("bd")
               /\ step = "write" /\ owed' = owed - 1
               /\ step' = IF owed = 1 THEN "status" ELSE "write"
            \/ /\ Wen("bd") /\ ~Wen("frame_word") /\ step = "arm" /\ step' = "write"
               /\ owed' = req.data /\ req.data \in FrameLens
            \/ /\ ~Wen("bd") /\ (Wen("frame_word") => ~TxWordReady) /\ owed' = owed
               /\ \/ step' = step
                  \/ step = "enable" /\ step' = "arm"
                  \/ step = "status" /\ step' = "arm" /\ ~bd["tx"]
<1>0. phase # "idle" => Legal(req)
  BY AccessFacts
<1>1. CASE BusIdle \/ BusRead \/ BusAwait
  BY <1>1 DEF BusIdle, BusRead, BusAwait, Wen, swVars
<1>2. CASE BusStall
  <2>1. ~Wen("bd") /\ (Wen("frame_word") => ~TxWordReady)
    BY <1>2 DEF BusStall, Ready, Wen
  <2> QED BY <1>2, <2>1 DEF BusStall, swVars
<1>3. CASE BusWrite
  <2>1. Legal(req) /\ Wen(req.reg)
    BY <1>0, <1>3 DEF BusWrite, Wen
  <2>2. CASE req.reg = "frame_word"
    BY <1>3, <2>1, <2>2, PortFacts DEF BusWrite, Legal, Ready, Wen
  <2>3. CASE req.reg = "bd"
    BY <1>3, <2>1, <2>3, PortFacts DEF BusWrite, Legal, Wen
  <2>4. CASE req.reg \notin {"frame_word", "bd"}
    BY <1>3, <2>1, <2>4, PortFacts DEF BusWrite, Legal, Wen
  <2> QED BY <2>2, <2>3, <2>4
<1>4. CASE BusAnswer
  <2>1. Legal(req) /\ ~req.wr /\ ~Wen("bd") /\ ~Wen("frame_word")
    BY <1>0, <1>4 DEF BusAnswer, ReqInv, Wen
  <2>2. step \notin {"poll", "read"} /\ (req.reg = "bd" /\ ~bdq => ~bd["tx"])
    BY <1>4 DEF SendInv, SendWalk, BusAnswer
  <2> QED BY <1>4, <2>1, <2>2, PortFacts DEF BusAnswer, Legal
<1> QED BY <1>1, <1>2, <1>3, <1>4 DEF Bus

(* An answered read of a descriptor's status word tells the truth: with    *)
(* its owner bit clear, nothing sets it again before software acts.        *)
LEMMA BdTruth ==
  ASSUME TypeOK, ReqInv, Next, NEW d \in {"rx", "tx"},
         d = IF task = "transmit" THEN "tx" ELSE "rx",
         phase = "rv" /\ req.reg = "bd" /\ ~bdq => ~bd[d],
         (phase = "rv" /\ req.reg = "bd" /\ ~bdq)'
  PROVE  ~bd[d]'
<1>1. ~Wen("bd")
  BY DEF Next, Bus, BusIdle, BusStall, BusRead, BusAwait, BusWrite, BusAnswer, NextAccess,
         Wen, busVars
<1>2. ~bd[d]
  <2>1. CASE BusRead
    BY <2>1 DEF BusRead, Next, Registers, BdRead, Ren
  <2>2. CASE BusAwait
    BY <2>2 DEF BusAwait, Next, Registers, BdRead, Ren, busVars
  <2> QED BY <2>1, <2>2 DEF Next, Bus, BusIdle, BusStall, BusWrite, BusAnswer, NextAccess, busVars
<1> QED BY <1>1, <1>2 DEF Next, Descriptor, TypeOK, CoreType

(* The transmit half and software stay together. *)
LEMMA SendIdleStep ==
  ASSUME Inv, Next, task # "transmit"
  PROVE  SendInv' /\ SendIdle' /\ TxType'
<1>1. task' = task /\ bd \in [{"rx", "tx"} -> BOOLEAN]
  BY DEF Inv, TypeOK, CoreType, Next, Bus, BusIdle, BusStall, BusRead, BusAwait, BusWrite,
         BusAnswer, swVars
<1>2. ~bd["tx"]' /\ txst' = "bd" /\ UNCHANGED <<send, txlen, pre, txcnt, out>>
  BY <1>1 DEF Inv, SendIdle, Next, Descriptor, Transmit, TxDescriptor, TxPreamble,
     TxServe, TxAwait, TxStatus, TxLength
<1>3. txrdy' \in BOOLEAN
  BY DEF Next, Transmit, Transmitter, Inv, TypeOK, TxType
<1>4. SendInv' /\ SendIdle'
  BY <1>1, <1>2 DEF SendInv, SendIdle, Inv
<1>5. TxType'
  BY <1>2, <1>3 DEF Inv, TypeOK, TxType
<1> QED BY <1>4, <1>5

(* While software transmits, FIFO and software agree on the bytes written. *)
LEMMA SendStep ==
  ASSUME Inv, Next, task = "transmit"
  PROVE  SendInv' /\ SendIdle' /\ TxType'
<1>0. task' = task /\ bd \in [{"rx", "tx"} -> BOOLEAN]
  BY DEF Inv, TypeOK, CoreType, Next, Bus, BusIdle, BusStall, BusRead, BusAwait, BusWrite,
         BusAnswer, swVars
<1> DEFINE Writes == /\ Wen("frame_word") /\ TxWordReady /\ ~Wen("bd")
                     /\ step = "write" /\ owed' = owed - 1
                     /\ step' = IF owed = 1 THEN "status" ELSE "write"
           Arms == /\ Wen("bd") /\ ~Wen("frame_word") /\ step = "arm" /\ step' = "write"
                   /\ owed' = req.data /\ req.data \in FrameLens
           Waits == /\ ~Wen("bd") /\ (Wen("frame_word") => ~TxWordReady) /\ owed' = owed
                    /\ \/ step' = step
                       \/ step = "enable" /\ step' = "arm"
                       \/ step = "status" /\ step' = "arm" /\ ~bd["tx"]
<1>1. Writes \/ Arms \/ Waits
  BY BusSends DEF Inv, Next
<1>2. bd'["tx"] = IF Wen("bd") THEN TRUE ELSE IF TxGrant THEN FALSE ELSE bd["tx"]
  BY <1>0 DEF Next, Descriptor
<1>3. txlen' = IF Wen("bd") THEN req.data ELSE txlen
  BY DEF Next, Transmit, TxLength
<1>4. (phase = "rv" /\ req.reg = "bd" /\ ~bdq => ~bd["tx"])'
  BY BdTruth DEF Inv, SendInv
<1>5. FrameLens \subseteq Nat \ {0} /\ PreLen \in Nat
  BY CsrAssumption
<1>6. txlen \in Nat /\ owed \in Nat /\ txcnt \in Nat /\ pre \in Nat
  BY DEF Inv, TypeOK, TxType, SwType
<1>7. txrdy' \in BOOLEAN
  BY DEF Next, Transmit, Transmitter, Inv, TypeOK, TxType
<1>8. SendWalk /\ SendBytes /\ out \in Seq(Nat) /\ send \in BOOLEAN
  BY DEF Inv, SendInv, TypeOK, TxType
<1>9. txlen' \in Nat
  BY <1>1, <1>3, <1>5, <1>6
<1> DEFINE Fits == /\ SendWalk' /\ SendBytes' /\ out' \in Seq(Nat) /\ send' \in BOOLEAN
                   /\ txst' \in {"bd", "pre", "xfer", "wait", "stat"}
                   /\ pre' \in Nat /\ txcnt' \in Nat
<1> HIDE DEF Writes, Arms, Waits
<1>10. ASSUME TxDescriptor
       PROVE  Fits
  <2>1. ~TxGrant
    BY <1>10 DEF TxDescriptor, TxGrant
  <2>2. SendWalk'
    <3>1. Arms \/ Waits
      BY <1>1, <1>10 DEF TxDescriptor, TxWordReady, Writes
    <3>2. CASE UNCHANGED <<txst, pre, txcnt, out>>
      <4>1. ~send' /\ txst = "bd"
        BY <1>8, <1>10 DEF TxDescriptor, SendWalk
      <4>2. CASE Arms
        <5>1. bd["tx"]'
          BY <1>2, <4>2 DEF Arms
        <5>2. txlen' = owed' /\ owed' > 0 /\ step' = "write"
          <6>1. owed' \in FrameLens /\ txlen' = owed' /\ step' = "write"
            BY <1>3, <4>2 DEF Arms
          <6> QED BY <1>5, <6>1
        <5> QED BY <3>2, <4>1, <5>1, <5>2 DEF SendWalk
      <4>3. CASE Waits
        <5>1. bd["tx"]' = bd["tx"] /\ txlen' = txlen /\ owed' = owed
          BY <1>2, <1>3, <2>1, <4>3 DEF Waits
        <5> QED BY <1>8, <3>2, <4>1, <4>3, <5>1 DEF SendWalk, Waits
      <4> QED BY <3>1, <4>2, <4>3
    <3>3. CASE bd["tx"] /\ txst' = "pre" /\ pre' = 0 /\ txcnt' = 0
      <4>1. Waits /\ step' = "write" /\ step = "write"
        BY <1>8, <1>10, <3>1, <3>3 DEF TxDescriptor, SendWalk, Arms, Waits
      <4>2. ~Wen("bd") /\ owed' = owed /\ bd["tx"]' /\ txlen' = txlen
        BY <1>2, <1>3, <2>1, <3>3, <4>1 DEF Waits
      <4>3. owed = txlen /\ owed > 0 /\ ~send'
        BY <1>8, <1>10, <3>3 DEF TxDescriptor, SendWalk
      <4> QED BY <1>5, <3>3, <4>1, <4>2, <4>3 DEF SendWalk
    <3> QED BY <1>10, <3>2, <3>3 DEF TxDescriptor
  <2>3. SendBytes' /\ out' \in Seq(Nat)
    BY <1>8, <1>10, EmptySeq, PreambleFacts DEF TxDescriptor, SendBytes
  <2> QED BY <1>6, <1>8, <1>10, <2>2, <2>3 DEF TxDescriptor
<1>11. ASSUME TxPreamble
       PROVE  Fits
  <2>1. ~TxGrant
    BY <1>11 DEF TxPreamble, TxGrant
  <2>2. SendWalk'
    BY <1>1, <1>2, <1>3, <1>5, <1>6, <1>8, <1>11, <2>1
       DEF TxPreamble, TxWordReady, SendWalk, Writes, Arms, Waits
  <2>3. SendBytes' /\ out' \in Seq(Nat)
    <3>1. out = [i \in 1..pre |-> 0] /\ pre <= PreLen /\ txcnt = 0
      BY <1>8, <1>11 DEF TxPreamble, SendBytes, SendWalk
    <3>2. CASE UNCHANGED out /\ UNCHANGED pre /\ txst' = "pre"
      BY <1>8, <3>1, <3>2 DEF SendBytes
    <3>3. CASE pre' = pre + 1 /\ out' = Append(out, 0) /\ txst' = "pre"
      <4>1. out' = [i \in 1..pre' |-> 0]
        BY <1>6, <3>1, <3>3, PreambleFacts
      <4>2. out' \in Seq(Nat)
        BY <1>8, <3>3, AppendProperties
      <4> QED BY <3>3, <4>1, <4>2 DEF SendBytes
    <3>4. CASE ~(pre < PreLen) /\ UNCHANGED <<pre, out, txcnt>> /\ txst' = "xfer"
      <4>1. pre = PreLen
        BY <1>5, <1>6, <3>1, <3>4
      <4>2. out = Sent(0) /\ txcnt' = 0
        BY <3>1, <3>4, <4>1, PreambleFacts
      <4> QED BY <1>8, <3>4, <4>2 DEF SendBytes
    <3> QED BY <1>11, <3>2, <3>3, <3>4 DEF TxPreamble
  <2> QED BY <1>6, <1>8, <1>11, <2>2, <2>3 DEF TxPreamble
<1>12. ASSUME TxServe
       PROVE  Fits
  <2>1. ~TxGrant
    BY <1>12 DEF TxServe, TxGrant
  <2>2. SendWalk'
    BY <1>1, <1>2, <1>3, <1>5, <1>6, <1>8, <1>12, <2>1
       DEF TxServe, TxWordReady, SendWalk, Writes, Arms, Waits
  <2>3. SendBytes' /\ out' \in Seq(Nat)
    <3>1. out = Sent(txcnt) /\ txcnt + owed = txlen /\ ~Wen("bd")
      BY <1>1, <1>8, <1>12 DEF TxServe, SendBytes, SendWalk, Writes, Arms, Waits
    <3>2. CASE Wen("frame_word") /\ ~TxFull
      <4>1. WordData = txcnt + 1 /\ txcnt # txlen
        BY <1>1, <1>6, <1>8, <1>12, <3>1, <3>2
           DEF WordData, TxServe, TxWordReady, SendWalk, Writes, Arms, Waits
      <4>2. out' = Sent(txcnt') /\ txst' = "xfer"
        BY <1>6, <1>12, <3>1, <3>2, <4>1, SentFacts DEF TxServe
      <4> QED BY <1>6, <1>12, <3>2, <4>2, SentFacts DEF TxServe, SendBytes
    <3>3. CASE ~(Wen("frame_word") /\ ~TxFull)
      BY <1>3, <1>8, <1>12, <3>1, <3>3 DEF TxServe, SendBytes
    <3> QED BY <3>2, <3>3
  <2>4. pre' \in Nat /\ txcnt' \in Nat /\ txst' \in {"bd", "pre", "xfer", "wait", "stat"}
    BY <1>6, <1>12 DEF TxServe
  <2>5. send' \in BOOLEAN
    BY <1>8, <1>12 DEF TxServe
  <2> QED BY <2>2, <2>3, <2>4, <2>5
<1>13. ASSUME TxAwait
       PROVE  Fits
  <2>1. ~TxGrant
    BY <1>13 DEF TxAwait, TxGrant
  <2>2. SendWalk'
    BY <1>1, <1>2, <1>3, <1>5, <1>6, <1>8, <1>13, <2>1
       DEF TxAwait, TxWordReady, SendWalk, Writes, Arms, Waits
  <2>3. SendBytes' /\ out' \in Seq(Nat)
    BY <1>1, <1>3, <1>8, <1>13 DEF TxAwait, SendBytes, SendWalk, Arms, Writes, Waits
  <2> QED BY <1>6, <1>8, <1>13, <2>2, <2>3 DEF TxAwait
<1>14. ASSUME TxStatus
       PROVE  Fits
  <2>1. SendWalk'
    BY <1>1, <1>2, <1>3, <1>5, <1>6, <1>8, <1>14
       DEF TxStatus, TxGrant, TxWordReady, SendWalk, Writes, Arms, Waits
  <2>2. SendBytes' /\ out' \in Seq(Nat)
    BY <1>8, <1>14 DEF TxStatus, SendBytes
  <2> QED BY <1>6, <1>8, <1>14, <2>1, <2>2 DEF TxStatus
<1>15. Fits
  BY <1>10, <1>11, <1>12, <1>13, <1>14 DEF Next, Transmit
<1> HIDE DEF Fits
<1>16. SendInv' /\ SendIdle'
  BY <1>0, <1>4, <1>15 DEF Fits, SendInv, SendIdle
<1>17. TxType'
  BY <1>7, <1>9, <1>15 DEF Fits, TxType
<1> QED BY <1>16, <1>17

(* No event is lost. *)
LEMMA EventStep ==
  ASSUME TypeOK, EventKept, Interrupts
  PROVE  EventKept'
BY DEF EventKept, Interrupts, Source

(* The frames in the FIFOs. *)
LEMMA StreamFacts ==
  ASSUME TypeOK, Ends
  PROVE  /\ Len(info) \in Nat /\ Len(hist) \in Nat
         /\ \A f \in 1..Len(info) : /\ info[f].start \in Nat /\ info[f].len \in Nat \ {0}
                                   /\ info[f].start = End(f - 1)
                                   /\ End(f) = info[f].start + info[f].len
                                   /\ End(f) <= Len(hist)
         /\ \A f \in 0..Len(info) : End(f) \in Nat /\ End(f) <= Len(hist)
<1>0. FrameLens \subseteq Nat \ {0}
  BY CsrAssumption
<1>1. Len(info) \in Nat /\ Len(hist) \in Nat
  BY LenProperties DEF TypeOK, RxType
<1>2. ASSUME NEW f \in 1..Len(info)
      PROVE  /\ info[f].start \in Nat /\ info[f].len \in Nat \ {0}
             /\ info[f].start = End(f - 1)
             /\ End(f) = info[f].start + info[f].len
             /\ End(f) <= Len(hist)
  <2>1. info[f] \in [start: Nat, len: FrameLens]
    BY ElementOfSeq DEF TypeOK, RxType
  <2>2. info[f].start \in Nat /\ info[f].len \in Nat \ {0}
    BY <1>0, <2>1
  <2>3. End(f) = info[f].start + info[f].len
    BY DEF End
  <2> QED BY <2>2, <2>3 DEF Ends
<1>3. ASSUME NEW f \in 0..Len(info)
      PROVE  End(f) \in Nat /\ End(f) <= Len(hist)
  <2>1. CASE f = 0
    BY <1>1, <2>1 DEF End
  <2>2. CASE f # 0
    BY <1>1, <1>2, <2>2
  <2> QED BY <2>1, <2>2
<1> QED BY <1>1, <1>2, <1>3

(* A frame that arrives leaves those before it as they are. *)
LEMMA StreamStep ==
  ASSUME TypeOK, Ends, Receive
  PROVE  /\ Ends'
         /\ Len(info) <= Len(info') /\ Len(info') \in Nat
         /\ \A f \in 1..Len(info) : info'[f] = info[f]
         /\ Len(hist) <= Len(hist') /\ Len(hist') \in Nat
         /\ \A i \in 1..Len(hist) : hist'[i] = hist[i]
<1>1. Len(info) \in Nat /\ Len(hist) \in Nat
  BY StreamFacts
<1>2. CASE UNCHANGED <<hist, info>>
  BY <1>1, <1>2 DEF Ends, End
<1>3. ASSUME NEW n \in FrameLens,
             info' = Append(info, [start |-> Len(hist), len |-> n]),
             hist' = hist \o [i \in 1..n |-> <<Len(info) + 1, i>>]
      PROVE  /\ Ends'
             /\ Len(info) <= Len(info') /\ Len(info') \in Nat
             /\ \A f \in 1..Len(info) : info'[f] = info[f]
             /\ Len(hist) <= Len(hist') /\ Len(hist') \in Nat
             /\ \A i \in 1..Len(hist) : hist'[i] = hist[i]
  <2>1. n \in Nat \ {0}
    BY CsrAssumption
  <2>2. [start |-> Len(hist), len |-> n] \in [start: Nat, len: FrameLens]
    BY <1>1
  <2>3. info \in Seq([start: Nat, len: FrameLens]) /\ hist \in Seq(Nat \X Nat)
    BY DEF TypeOK, RxType
  <2>4. /\ Len(info') = Len(info) + 1
        /\ \A f \in 1..Len(info) : info'[f] = info[f]
        /\ info'[Len(info) + 1] = [start |-> Len(hist), len |-> n]
    BY <1>3, <2>2, <2>3, AppendProperties
  <2>5. /\ [i \in 1..n |-> <<Len(info) + 1, i>>] \in Seq(Nat \X Nat)
        /\ Len([i \in 1..n |-> <<Len(info) + 1, i>>]) = n
    BY <1>1, <2>1, FrameFacts
  <2>6. /\ Len(hist') = Len(hist) + n
        /\ \A i \in 1..Len(hist) : hist'[i] = hist[i]
    BY <1>1, <1>3, <2>1, <2>3, <2>5, ConcatProperties
  <2>7. ASSUME NEW f \in 0..Len(info)
        PROVE  End(f)' = End(f) /\ End(f) \in Nat /\ End(f) <= Len(hist)
    BY <1>1, <2>4, StreamFacts DEF End
  <2>8. End(Len(info))' = Len(hist')
    BY <1>1, <2>1, <2>4, <2>6 DEF End
  <2>9. ASSUME NEW f \in 1..Len(info')
        PROVE  /\ info'[f].start = End(f - 1)' /\ info'[f].len \in FrameLens
               /\ End(f)' <= Len(hist')
    <3>1. CASE f \in 1..Len(info)
      BY <1>1, <2>1, <2>4, <2>6, <2>7, <3>1, SMTT(40) DEF Ends
    <3>2. CASE f = Len(info) + 1
      <4>1. info'[f].start = Len(hist) /\ info'[f].len = n
        BY <2>4, <3>2
      <4>2. f - 1 = Len(info) /\ Len(info) \in 0..Len(info)
        BY <1>1, <3>2
      <4>3. End(f - 1)' = Len(hist)
        BY <2>7, <4>2 DEF Ends
      <4>4. End(f)' <= Len(hist')
        BY <1>1, <2>1, <2>6, <3>2, <4>1 DEF End
      <4> QED BY <4>1, <4>3, <4>4
    <3> QED BY <1>1, <2>4, <3>1, <3>2
  <2>10. Ends'
    BY <2>8, <2>9 DEF Ends
  <2> QED BY <1>1, <2>1, <2>4, <2>6, <2>10
<1> QED BY <1>2, <1>3 DEF Receive, Arrive

(* What one cycle of the bus does to software that receives: it takes a    *)
(* byte, arms the descriptor, learns a length, finds a frame done, asks    *)
(* for a byte, or does none of these.                                      *)
Takes == /\ Pending /\ ~Pending' /\ step = "read" /\ got' = Append(got, rxdata)
         /\ owed' = owed - 1 /\ done' = done
         /\ step' = IF owed = 1 THEN "status" ELSE "read"
Arms == /\ Wen("bd") /\ ~Pending /\ ~Pending' /\ step = "arm" /\ step' = "poll"
        /\ UNCHANGED <<got, done>>
Learns == /\ ~Pending /\ ~Pending' /\ phase = "rv" /\ req.reg = "rx_nbytes"
          /\ step = "poll" /\ owed' = nbytes /\ UNCHANGED <<got, done>>
          /\ step' = IF nbytes = 0 THEN "poll" ELSE "read"
Finds == /\ ~Pending /\ ~Pending' /\ step = "status" /\ UNCHANGED <<got, owed>>
         /\ phase = "rv" /\ req.reg = "bd"
         /\ step' = (IF bdq THEN "status" ELSE "arm") /\ done' = IF bdq THEN done ELSE done + 1
Asks == /\ ~Pending /\ Pending' /\ Ren("frame_word") /\ step = "read"
        /\ UNCHANGED <<step, owed, done, got>>
Rests == /\ ~Pending /\ ~Pending' /\ UNCHANGED <<owed, done, got>>
         /\ (step' = step \/ (step = "enable" /\ step' = "arm"))

(* Every step of the receive task is one of six. *)
LEMMA BusReceives ==
  ASSUME TypeOK, ReqInv, RecvInv, Next, task = "receive"
  PROVE  /\ task' = task
         /\ Wen("bd") <=> Arms
         /\ Ren("frame_word") <=> Asks
         /\ Takes \/ Arms \/ Learns \/ Finds \/ Asks \/ Rests
<1>0. phase # "idle" => Legal(req)
  BY AccessFacts
<1>1. RecvWalk /\ RecvAnswers
  BY DEF RecvInv
<1>2. task' = task
  BY DEF Next, Bus, BusIdle, BusStall, BusRead, BusAwait, BusWrite, BusAnswer, swVars
<1>3. CASE BusIdle
  BY <1>1, <1>3 DEF BusIdle, NextAccess, Pending, Wen, Ren, swVars, Arms, Asks, Rests
<1>4. CASE BusStall
  <2>1. Legal(req) /\ req.reg = "frame_word" /\ ~Pending
    BY <1>0, <1>4 DEF BusStall, Ready, Pending
  <2>2. Ren("frame_word") => RxWordReady
    BY <1>1, <2>1 DEF Ren, Legal, RecvWalk, RxWordReady
  <2>3. ~req.wr
    BY <1>1, <2>1 DEF Legal, RecvWalk
  <2>4. FALSE
    BY <1>4, <2>1, <2>2, <2>3 DEF BusStall, Ready, Ren, Wen
  <2> QED BY <2>4
<1>5. CASE BusRead
  <2>1. Legal(req) /\ ~Pending /\ ~Wen("bd") /\ ~Arms /\ UNCHANGED <<step, owed, done, got>>
    BY <1>0, <1>5 DEF BusRead, Pending, Wen, swVars, Arms
  <2>2. Pending' <=> req.reg = "frame_word"
    BY <1>5 DEF BusRead, Pending
  <2>3. Ren("frame_word") <=> req.reg = "frame_word"
    BY <1>5 DEF BusRead, Ren
  <2>4. req.reg = "frame_word" => step = "read"
    BY <1>5, <2>1 DEF BusRead, Legal
  <2> QED BY <1>2, <2>1, <2>2, <2>3, <2>4 DEF Asks, Rests
<1>6. CASE BusAwait
  <2>1. ~Pending /\ ~Pending' /\ ~Wen("bd") /\ ~Ren("frame_word")
    BY <1>1, <1>6 DEF BusAwait, Pending, RecvAnswers, Wen, Ren, busVars
  <2> QED BY <1>2, <1>6, <2>1 DEF BusAwait, swVars, Arms, Asks, Rests
<1>7. CASE BusWrite
  <2>1. Legal(req) /\ ~Pending /\ ~Pending' /\ ~Ren("frame_word") /\ ~Asks
    BY <1>0, <1>7 DEF BusWrite, NextAccess, Pending, Ren, Asks
  <2>2. Wen("bd") <=> req.reg = "bd"
    BY <1>7 DEF BusWrite, Wen
  <2>3. req.reg # "frame_word"
    BY <1>1, <1>7, <2>1 DEF BusWrite, Legal, RecvWalk
  <2>4. CASE req.reg = "bd"
    BY <1>2, <1>7, <2>1, <2>2, <2>4, PortFacts DEF BusWrite, Legal, Arms
  <2>5. CASE req.reg # "bd"
    BY <1>2, <1>7, <2>1, <2>2, <2>3, <2>5, PortFacts DEF BusWrite, Legal, Arms, Rests
  <2> QED BY <2>4, <2>5
<1>8. CASE BusAnswer
  <2>1. /\ Legal(req) /\ ~req.wr /\ ~Pending' /\ ~Ren("frame_word") /\ ~Asks
        /\ ~Wen("bd") /\ ~Arms /\ (Pending <=> req.reg = "frame_word")
    BY <1>0, <1>8 DEF BusAnswer, NextAccess, ReqInv, Pending, Ren, Wen, Asks, Arms
  <2>2. CASE req.reg = "frame_word"
    BY <1>2, <1>8, <2>1, <2>2, PortFacts DEF BusAnswer, Legal, Takes
  <2>3. CASE req.reg = "rx_nbytes"
    BY <1>2, <1>8, <2>1, <2>3, PortFacts DEF BusAnswer, Legal, Learns
  <2>4. CASE req.reg = "bd"
    BY <1>2, <1>8, <2>1, <2>4, PortFacts DEF BusAnswer, Legal, Finds
  <2>5. CASE req.reg \notin {"frame_word", "rx_nbytes", "bd"}
    BY <1>2, <1>8, <2>1, <2>5, PortFacts DEF BusAnswer, Legal, Rests
  <2> QED BY <2>2, <2>3, <2>4, <2>5
<1> QED BY <1>3, <1>4, <1>5, <1>6, <1>7, <1>8 DEF Next, Bus

(* The receive half and software stay together. *)
LEMMA RecvStep ==
  ASSUME Inv, Next, task = "receive"
  PROVE  StreamInv' /\ RecvInv' /\ RecvIdle'
<1> DEFINE s == info[ird].start
           n == info[ird].len
<1>1. /\ task' = task
      /\ Wen("bd") <=> Arms
      /\ Ren("frame_word") <=> Asks
      /\ Takes \/ Arms \/ Learns \/ Finds \/ Asks \/ Rests
  BY BusReceives DEF Inv
<1>2. RecvWalk /\ RecvCount /\ RecvBytes /\ RecvAnswers /\ StreamInv
  BY DEF Inv, RecvInv
<1>3. /\ rp \in Nat /\ rxcnt \in Nat /\ rxlen \in Nat /\ owed \in Nat /\ done \in Nat
      /\ nbytes \in Nat /\ Len(got) \in Nat /\ ird \in 0..Len(info)
  BY LenProperties DEF Inv, TypeOK, SwType, RxType, CoreType
<1>4. /\ Len(info) \in Nat /\ Len(hist) \in Nat
      /\ \A f \in 1..Len(info) : /\ info[f].start \in Nat /\ info[f].len \in Nat \ {0}
                                /\ info[f].start = End(f - 1)
                                /\ End(f) = info[f].start + info[f].len
                                /\ End(f) <= Len(hist)
      /\ \A f \in 0..Len(info) : End(f) \in Nat /\ End(f) <= Len(hist)
  BY StreamFacts DEF Inv
<1>5. /\ Len(info) <= Len(info') /\ Len(info') \in Nat
      /\ \A f \in 1..Len(info) : info'[f] = info[f]
      /\ Len(hist) <= Len(hist') /\ Len(hist') \in Nat
      /\ \A i \in 1..Len(hist) : hist'[i] = hist[i]
  BY StreamStep DEF Inv, Next
<1>6. ASSUME NEW f \in 0..Len(info)
      PROVE  (ird' = f => End(ird)' = End(f)) /\ (done' = f => End(done)' = End(f))
  BY <1>4, <1>5 DEF End
<1>7. ird > 0 => /\ s \in Nat /\ n \in Nat \ {0} /\ s = End(ird - 1) /\ End(ird) = s + n
                 /\ End(ird) <= Len(hist)
                 /\ info'[ird].start = s /\ info'[ird].len = n
  BY <1>3, <1>4, <1>5
<1>8. End(ird) \in Nat /\ End(ird) <= Len(hist)
  BY <1>3, <1>4
<1>9. bd'["rx"] = IF Wen("bd") THEN TRUE ELSE IF RxGrant THEN FALSE ELSE bd["rx"]
  BY DEF Next, Descriptor, Inv, TypeOK, CoreType
<1>10. Takes => Len(got') = Len(got) + 1
  BY AppendProperties DEF Takes, Inv, TypeOK, SwType, RxType
<1> DEFINE Fits == RecvWalk' /\ RecvCount' /\ StreamInv'
<1>11. ASSUME RxDescriptor
       PROVE  Fits
  <2>1. rxst = "bd" /\ ~RxGrant /\ step # "read" /\ ~Pending /\ rp = End(ird) /\ ~rxnv
    BY <1>2, <1>11 DEF RxDescriptor, RxGrant, RecvWalk, StreamInv, Served
  <2>2. /\ ird' = ird /\ rp' = rp /\ rxnv' = rxnv /\ UNCHANGED rxlen
        /\ (rxst' = "bd" \/ (rxst' = "info" /\ rxcnt' = 0 /\ bd["rx"]))
    BY <2>1, <1>11 DEF RxDescriptor
  <2>3. End(ird)' = End(ird)
    BY <1>3, <1>6, <2>2
  <2>4. StreamInv' /\ Served' = End(ird)
    BY <2>1, <2>2, <2>3 DEF StreamInv, Served
  <2>5. Arms \/ Learns \/ Finds \/ Rests
    BY <1>1, <2>1 DEF Takes, Asks
  <2>6. CASE Arms
    <3>1. bd'["rx"] /\ rxst' = "bd"
      BY <1>1, <1>2, <1>9, <2>2, <2>6 DEF Arms, RecvWalk
    <3>2. RecvWalk'
      BY <1>2, <2>2, <2>6, <3>1 DEF Arms, RecvWalk
    <3>3. End(done)' = End(done) /\ got' = got
      BY <1>2, <1>3, <1>6, <2>6 DEF Arms, RecvWalk
    <3>4. RecvCount'
      BY <1>2, <2>1, <2>4, <2>6, <3>3 DEF Arms, RecvCount, Served
    <3> QED BY <2>4, <3>2, <3>4
  <2>7. CASE Learns \/ Rests
    <3>1. bd'["rx"] = bd["rx"] /\ ~Wen("bd")
      BY <1>1, <1>9, <2>1, <2>7 DEF Arms, Learns, Rests, RecvWalk
    <3>2. UNCHANGED <<got, done>> /\ ~Pending' /\ (step' = step \/ (step = "enable" /\ step' = "arm"))
      BY <1>2, <2>1, <2>7 DEF Learns, Rests, RecvAnswers
    <3>3. RecvWalk'
      BY <1>2, <2>1, <2>2, <3>1, <3>2 DEF RecvWalk
    <3>4. step \in {"poll", "enable", "arm"} => End(done)' = End(done)
      BY <1>2, <1>3, <1>6, <2>1, <3>2 DEF RecvWalk
    <3>5. RecvCount'
      BY <1>2, <2>1, <2>3, <2>4, <3>2, <3>4 DEF RecvWalk, RecvCount, Served
    <3> QED BY <2>4, <3>3, <3>5
  <2>8. CASE Finds
    <3>1. bd'["rx"] = bd["rx"] /\ ~bd["rx"]
      BY <1>1, <1>2, <1>9, <2>1, <2>8 DEF Arms, Finds, RecvWalk
    <3>2. ird = done + 1 /\ Len(got) = End(ird) /\ got' = got /\ ~Pending'
      BY <1>2, <2>8 DEF Finds, RecvWalk, RecvCount
    <3>3. RecvWalk'
      BY <1>2, <2>1, <2>2, <2>8, <3>1, <3>2 DEF Finds, RecvWalk
    <3>4. done' = ird => End(done)' = End(ird)
      BY <1>3, <1>6
    <3>5. RecvCount'
      BY <1>3, <2>1, <2>3, <2>4, <2>8, <3>2, <3>4 DEF Finds, RecvCount
    <3> QED BY <2>4, <3>3, <3>5
  <2> QED BY <2>5, <2>6, <2>7, <2>8
<1>12. ASSUME rxst \in {"info", "pend"}
       PROVE  /\ step = "poll" /\ bd["rx"] /\ ~Pending /\ ~Pending' /\ UNCHANGED <<got, done, step>>
              /\ ird \in {done, done + 1} /\ End(done)' = End(done)
  <2>1. step = "poll" /\ bd["rx"] /\ ~Pending /\ ird \in {done, done + 1}
    BY <1>2, <1>12 DEF RecvWalk
  <2>2. Learns \/ Rests
    BY <1>1, <2>1 DEF Takes, Arms, Finds, Asks
  <2>3. Learns => nbytes = 0
    BY <1>2, <1>12 DEF Learns, RecvAnswers
  <2>4. ~Pending' /\ UNCHANGED <<got, done, step>>
    BY <2>1, <2>2, <2>3 DEF Learns, Rests
  <2>5. done \in 0..Len(info)
    BY <1>3, <2>1
  <2> QED BY <1>6, <2>1, <2>4, <2>5
<1>13. ASSUME RxPopInfo
       PROVE  Fits
  <2>1. rxst = "info" /\ ~RxGrant /\ rp = End(ird) /\ ~rxnv /\ rxcnt = 0 /\ ird = done
        /\ Len(got) = End(done)
    BY <1>2, <1>12, <1>13 DEF RxPopInfo, RxGrant, StreamInv, Served, RecvWalk, RecvCount
  <2>2. bd'["rx"]
    BY <1>9, <1>12, <2>1
  <2>3. UNCHANGED <<rp, rxlen, rxcnt, rxnv>>
    BY <1>13 DEF RxPopInfo
  <2>4. CASE ird < Len(info)
    <3>1. ird' = ird + 1 /\ rxst' = "pend"
      BY <1>13, <2>4 DEF RxPopInfo
    <3>2. ird + 1 \in 1..Len(info) /\ (ird + 1) - 1 = ird
      BY <1>3, <1>4, <2>4
    <3>3. info'[ird + 1].start = End(ird)
      BY <1>4, <1>5, <3>2
    <3>4. Served' = End(ird)
      BY <3>1, <3>3 DEF Served
    <3>5. StreamInv'
      BY <1>3, <2>1, <2>3, <3>1, <3>4 DEF StreamInv
    <3>6. RecvWalk'
      BY <1>12, <2>1, <2>2, <3>1 DEF RecvWalk
    <3>7. RecvCount'
      BY <1>3, <1>12, <2>1, <3>4 DEF RecvCount
    <3> QED BY <3>5, <3>6, <3>7
  <2>5. CASE ~(ird < Len(info))
    <3>1. ird' = ird /\ rxst' = "info"
      BY <1>13, <2>1, <2>5 DEF RxPopInfo
    <3>2. Served' = End(ird)
      BY <1>3, <1>6, <3>1 DEF Served
    <3>3. StreamInv'
      BY <2>1, <2>3, <3>1, <3>2 DEF StreamInv
    <3>4. RecvWalk'
      BY <1>12, <2>1, <2>2, <3>1 DEF RecvWalk
    <3>5. RecvCount'
      BY <1>3, <1>12, <2>1, <3>2 DEF RecvCount
    <3> QED BY <3>3, <3>4, <3>5
  <2> QED BY <2>4, <2>5
<1>14. ASSUME RxLatchInfo
       PROVE  Fits
  <2>1. rxst = "pend" /\ ~RxGrant /\ rp = s /\ rxcnt = 0 /\ ird > 0 /\ ird = done + 1
        /\ Len(got) = End(done) /\ Len(got) = s
    BY <1>2, <1>12, <1>14 DEF RxLatchInfo, RxGrant, StreamInv, Served, RecvWalk, RecvCount
  <2>2. bd'["rx"]
    BY <1>9, <1>12, <2>1
  <2>3. rp < Len(hist)
    BY <1>4, <1>7, <2>1
  <2>4. /\ rxlen' = n /\ rxnv' /\ rxst' = "xfer" /\ ird' = ird /\ rxcnt' = 0 /\ rp' = s + 1
    BY <1>14, <2>1, <2>3 DEF RxLatchInfo, Pop
  <2>5. info'[ird'].start = s /\ info'[ird'].len = n /\ s \in Nat /\ n \in Nat \ {0}
    BY <1>7, <2>1, <2>4
  <2> HIDE DEF s, n
  <2>6. Served' = s
    BY <2>4, <2>5 DEF Served
  <2>7. StreamInv'
    BY <2>1, <2>4, <2>5 DEF StreamInv
  <2>8. RecvWalk'
    BY <1>12, <2>1, <2>2, <2>4 DEF RecvWalk
  <2>9. RecvCount'
    BY <1>3, <1>12, <2>1, <2>6 DEF RecvCount
  <2> QED BY <2>7, <2>8, <2>9
<1>15. ASSUME RxServe
       PROVE  /\ Fits /\ ~RxGrant /\ ird > 0
              /\ step = "poll" => rxcnt = 0 /\ rxst' = "xfer" /\ rxlen' = rxlen
              /\ Asks => rxcnt < rxlen
  <2>1. /\ rxst = "xfer" /\ ~RxGrant /\ rxnv /\ rxlen = n /\ rxcnt <= n /\ ird > 0
        /\ rp = s + (IF rxcnt < n THEN rxcnt + 1 ELSE n)
        /\ s + rxcnt = Len(got) + (IF Pending THEN 1 ELSE 0)
    BY <1>2, <1>15 DEF RxServe, RxGrant, StreamInv, Served, RecvCount
  <2>2. /\ step \in {"poll", "read"} /\ bd["rx"] /\ ird = done + 1
        /\ (step = "poll" => ~Pending) /\ (step = "read" => owed > 0)
    BY <1>2, <2>1 DEF RecvWalk
  <2>3. s \in Nat /\ n \in Nat \ {0} /\ s = End(ird - 1) /\ End(ird) = s + n /\ s + n <= Len(hist)
    BY <1>7, <2>1
  <2>4. ird - 1 = done
    BY <1>3, <2>2
  <2>5. (step = "poll" => Len(got) = s) /\ (step = "read" => Len(got) + owed = s + n)
    BY <1>2, <2>2, <2>3, <2>4 DEF RecvCount
  <2>6. bd'["rx"]
    BY <1>9, <2>1, <2>2
  <2>7. ird' = ird /\ rxlen' = n /\ End(ird)' = s + n
    <3>1. ird' = ird /\ rxlen' = n
      BY <1>15, <2>1 DEF RxServe
    <3> QED BY <1>3, <1>6, <2>3, <3>1
  <2>8. info'[ird'].start = s /\ info'[ird'].len = n
    BY <1>7, <2>1, <2>7
  <2>9. ~Asks => UNCHANGED <<rxcnt, rp, rxdata>>
    BY <1>1, <1>15 DEF RxServe
  <2> HIDE DEF s, n
  \* waiting for software to read the length
  <2>10. CASE step = "poll"
    <3>1. rxcnt = 0 /\ rxcnt # n /\ ~Pending /\ rxcnt # rxlen
      BY <1>3, <2>1, <2>2, <2>3, <2>5, <2>10
    <3>2. Learns \/ Rests
      BY <1>1, <2>10, <3>1 DEF Takes, Arms, Finds, Asks
    <3>3. /\ ~Asks /\ ~Pending' /\ UNCHANGED <<got, done>>
          /\ (step' = "poll" \/ (step' = "read" /\ owed' = n))
      <4>1. Learns /\ nbytes # 0 => nbytes = n
        BY <1>2, <2>1 DEF Learns, RecvAnswers
      <4>2. ~Asks
        BY <2>10 DEF Asks
      <4> QED BY <2>10, <3>2, <4>1, <4>2 DEF Learns, Rests
    <3>4. rxst' = "xfer" /\ rxnv' /\ UNCHANGED <<rxcnt, rp, rxlen>>
      BY <1>15, <2>1, <2>7, <2>9, <3>1, <3>3 DEF RxServe
    <3>5. Served' = s
      BY <2>3, <2>8, <3>1, <3>4 DEF Served
    <3>6. StreamInv'
      BY <2>1, <2>3, <2>7, <2>8, <3>1, <3>4 DEF StreamInv
    <3>7. RecvWalk'
      BY <2>2, <2>3, <2>6, <2>7, <3>3, <3>4 DEF RecvWalk
    <3>8. End(done)' = s
      BY <1>3, <1>6, <2>3, <2>4, <3>3
    <3>9. RecvCount'
      BY <2>3, <2>5, <2>7, <2>10, <3>3, <3>5, <3>8 DEF RecvCount
    <3> QED BY <2>1, <2>10, <3>1, <3>3, <3>4, <3>6, <3>7, <3>9
  \* a byte is on its way
  <2>11. CASE step = "read" /\ Pending
    <3>1. Takes /\ ~Asks
      BY <1>1, <2>11 DEF Takes, Arms, Learns, Finds, Asks, Rests
    <3>2. /\ ~Pending' /\ Len(got') = Len(got) + 1 /\ owed' = owed - 1 /\ done' = done
          /\ step' = IF owed = 1 THEN "status" ELSE "read"
      BY <1>10, <3>1 DEF Takes
    <3>3. UNCHANGED <<rxcnt, rp>> /\ rxcnt = n - owed + 1
      BY <1>3, <2>1, <2>3, <2>5, <2>9, <2>11, <3>1, SMTT(40)
    <3>4. CASE owed = 1
      <4>1. rxcnt = rxlen /\ rxcnt = n
        BY <2>1, <2>3, <3>3, <3>4
      <4>2. rxst' = "stat" /\ ~rxnv'
        BY <1>15, <4>1 DEF RxServe
      <4>3. Served' = s + n /\ rp' = s + n
        BY <2>1, <2>3, <2>7, <3>3, <4>1, <4>2 DEF Served
      <4>4. StreamInv'
        BY <4>2, <4>3 DEF StreamInv
      <4>5. RecvWalk'
        BY <2>2, <2>6, <2>7, <3>2, <3>4, <4>2 DEF RecvWalk
      <4>6. RecvCount'
        BY <1>3, <2>3, <2>5, <2>7, <2>11, <3>2, <3>4, <4>3 DEF RecvCount
      <4> QED BY <2>1, <2>11, <3>1, <4>4, <4>5, <4>6
    <3>5. CASE owed # 1
      <4>1. rxcnt # rxlen /\ rxcnt < n
        BY <1>3, <2>1, <2>2, <2>3, <2>11, <3>3, <3>5
      <4>2. rxst' = "xfer" /\ rxnv'
        BY <1>15, <2>1, <4>1 DEF RxServe
      <4>3. Served' = s + rxcnt
        BY <2>8, <3>3, <4>2 DEF Served
      <4>4. StreamInv'
        BY <1>3, <2>1, <2>7, <2>8, <3>3, <4>1, <4>2 DEF StreamInv
      <4>5. RecvWalk'
        BY <1>3, <2>2, <2>6, <2>7, <2>11, <3>2, <3>5, <4>2 DEF RecvWalk
      <4>6. RecvCount'
        BY <1>3, <2>1, <2>3, <2>5, <2>7, <2>11, <3>2, <3>5, <4>3 DEF RecvCount
      <4> QED BY <2>1, <2>11, <3>1, <4>4, <4>5, <4>6
    <3> QED BY <3>4, <3>5
  \* software is about to ask for the next byte
  <2>12. CASE step = "read" /\ ~Pending
    <3>1. rxcnt = n - owed /\ rxcnt < n /\ rxcnt # rxlen /\ owed > 0
      BY <1>3, <2>1, <2>2, <2>3, <2>5, <2>12, SMTT(40)
    <3>2. Asks \/ Rests
      BY <1>1, <2>12 DEF Takes, Arms, Learns, Finds
    <3>3. /\ UNCHANGED <<got, done, owed>> /\ step' = "read" /\ (Pending' <=> Asks)
      BY <2>12, <3>2 DEF Asks, Rests
    <3>4. rxst' = "xfer" /\ rxnv'
      BY <1>15, <2>1, <3>1 DEF RxServe
    <3>5. RecvWalk'
      BY <2>2, <2>6, <2>7, <3>1, <3>3, <3>4 DEF RecvWalk
    <3>6. CASE Asks
      <4>1. rxcnt' = rxcnt + 1 /\ (IF rxcnt + 1 < n THEN Pop ELSE UNCHANGED rp)
        BY <1>1, <1>15, <2>1, <3>6 DEF RxServe
      <4>2. rp' = s + (IF rxcnt' < n THEN rxcnt' + 1 ELSE n) /\ rxcnt' <= n
        <5>1. CASE rxcnt + 1 < n
          <6>1. rp < Len(hist)
            BY <1>3, <1>4, <2>1, <2>3, <3>1, <5>1
          <6> QED BY <1>3, <2>1, <2>3, <3>1, <4>1, <5>1, <6>1 DEF Pop
        <5>2. CASE ~(rxcnt + 1 < n)
          BY <1>3, <2>1, <2>3, <3>1, <4>1, <5>2
        <5> QED BY <5>1, <5>2
      <4>3. Served' = s + rxcnt + 1
        BY <1>3, <2>3, <2>8, <3>4, <4>1 DEF Served
      <4>4. StreamInv'
        BY <2>1, <2>7, <2>8, <3>4, <4>2 DEF StreamInv
      <4>5. Len(got') = Len(got) /\ Len(got) = s + rxcnt /\ Pending' /\ owed' = owed
        BY <2>1, <2>12, <3>3, <3>6
      <4>6. RecvCount'
        BY <1>3, <2>3, <2>5, <2>7, <2>12, <3>1, <3>3, <4>3, <4>5 DEF RecvCount
      <4> QED BY <2>1, <2>12, <3>1, <3>5, <4>4, <4>6
    <3>7. CASE ~Asks
      <4>1. Served' = s + rxcnt
        BY <2>8, <2>9, <3>4, <3>7 DEF Served
      <4>2. StreamInv'
        BY <2>1, <2>7, <2>8, <2>9, <3>4, <3>7 DEF StreamInv
      <4>3. RecvCount'
        BY <1>3, <2>1, <2>3, <2>5, <2>7, <2>12, <3>3, <3>7, <4>1 DEF RecvCount
      <4> QED BY <2>1, <2>12, <3>5, <3>7, <4>2, <4>3
    <3> QED BY <3>6, <3>7
  <2> QED BY <2>2, <2>10, <2>11, <2>12
<1>16. ASSUME RxStatus
       PROVE  Fits
  <2>1. rxst = "stat" /\ bd["rx"] /\ step = "status" /\ ~Pending /\ ird = done + 1 /\ ~rxnv
        /\ rp = End(ird) /\ Len(got) = End(ird)
    BY <1>2, <1>16 DEF RxStatus, StreamInv, Served, RecvWalk, RecvCount
  <2>2. Finds \/ Rests
    BY <1>1, <2>1 DEF Takes, Arms, Learns, Asks
  <2>3. step' = "status" /\ UNCHANGED <<got, done>> /\ ~Pending'
    BY <1>2, <2>1, <2>2 DEF Finds, Rests, RecvAnswers
  <2>4. UNCHANGED <<rp, ird, rxnv>> /\ rxst' \in {"stat", "bd"}
    BY <1>16 DEF RxStatus
  <2>5. ~Wen("bd") /\ (RxGrant <=> rxst' = "bd")
    BY <1>1, <2>1 DEF Arms, RxGrant
  <2>6. bd'["rx"] <=> rxst' = "stat"
    BY <1>9, <2>1, <2>4, <2>5
  <2>7. End(ird)' = End(ird)
    BY <1>3, <1>6, <2>4
  <2>8. Served' = End(ird)
    BY <2>4, <2>7 DEF Served
  <2>9. StreamInv'
    BY <2>1, <2>4, <2>8 DEF StreamInv
  <2>10. RecvWalk'
    BY <2>1, <2>3, <2>4, <2>6 DEF RecvWalk
  <2>11. RecvCount'
    BY <1>8, <2>1, <2>3, <2>7, <2>8 DEF RecvCount
  <2> QED BY <2>9, <2>10, <2>11
<1>17. Fits
  BY <1>11, <1>13, <1>14, <1>15, <1>16 DEF Next, Receive
<1>18. RecvBytes'
  <2>1. Served \in 0..Len(hist) /\ Len(got) <= Served
    <3>1. CASE rxst = "xfer"
      <4>1. ird > 0 /\ rxcnt <= n /\ Served = s + rxcnt
        BY <1>2, <3>1 DEF StreamInv, Served
      <4>2. Served \in 0..Len(hist)
        <5>1. s \in Nat /\ n \in Nat /\ s + n <= Len(hist)
          BY <1>7, <4>1
        <5> HIDE DEF s, n
        <5> QED BY <1>3, <1>4, <4>1, <5>1
      <4> QED BY <1>2, <1>3, <4>2 DEF RecvCount
    <3>2. CASE rxst = "pend"
      <4>1. ird > 0 /\ Served = s
        BY <1>2, <3>2 DEF StreamInv, Served
      <4>2. Served \in 0..Len(hist)
        BY <1>3, <1>4, <1>7, <4>1
      <4> QED BY <1>2, <1>3, <4>2 DEF RecvCount
    <3>3. CASE rxst \notin {"pend", "xfer"}
      <4>1. Served = End(ird)
        BY <3>3 DEF Served
      <4>2. Served \in 0..Len(hist)
        BY <1>4, <1>8, <4>1
      <4> QED BY <1>2, <1>3, <4>2 DEF RecvCount
    <3> QED BY <3>1, <3>2, <3>3
  <2>2. ASSUME NEW i \in 1..Len(got')
        PROVE  got'[i] = hist'[i]
    <3>1. CASE i <= Len(got)
      <4>1. i \in 1..Len(got) /\ i \in 1..Len(hist)
        BY <1>3, <1>4, <2>1, <3>1
      <4>2. Append(got, rxdata)[i] = got[i]
        BY <4>1, AppendProperties DEF Inv, TypeOK, SwType, RxType
      <4>3. got' = got \/ got' = Append(got, rxdata)
        BY <1>1 DEF Takes, Arms, Learns, Finds, Asks, Rests
      <4> QED BY <1>2, <1>5, <4>1, <4>2, <4>3 DEF RecvBytes
    <3>2. CASE ~(i <= Len(got))
      <4>1. Takes
        BY <1>1, <1>3, <3>2 DEF Arms, Learns, Finds, Asks, Rests
      <4>2. i = Len(got) + 1 /\ got'[i] = rxdata
        BY <1>3, <1>10, <3>2, <4>1, AppendProperties, SMTT(40) DEF Takes, Inv, TypeOK, SwType, RxType
      <4>3. rxdata = hist[Served] /\ Served = Len(got) + 1
        BY <1>2, <4>1 DEF Takes, RecvBytes, RecvCount
      <4> QED BY <1>3, <1>4, <1>5, <2>1, <4>2, <4>3
    <3> QED BY <3>1, <3>2
  <2>3. ASSUME Pending'
        PROVE  rxdata' = hist'[Served']
    <3>1. Asks
      BY <1>1, <2>3 DEF Takes, Arms, Learns, Finds, Rests
    <3>2. RxServe
      BY <1>2, <3>1 DEF Next, Receive, RxDescriptor, RxPopInfo, RxLatchInfo, RxStatus,
         Asks, RecvWalk
    <3>3. rxst = "xfer" /\ ird > 0 /\ rxcnt < n /\ rxlen = n /\ rp = s + (rxcnt + 1)
      <4>1. rxst = "xfer" /\ ird > 0 /\ rxcnt < rxlen
        BY <1>15, <3>1, <3>2 DEF RxServe
      <4>2. rxlen = n /\ rp = s + (IF rxcnt < rxlen THEN rxcnt + 1 ELSE rxlen)
        BY <1>2, <4>1 DEF StreamInv
      <4> QED BY <4>1, <4>2
    <3>4. rp \in 1..Len(hist)
      <4>1. s \in Nat /\ n \in Nat /\ s + n <= Len(hist)
        BY <1>7, <3>3
      <4> HIDE DEF s, n
      <4> QED BY <1>3, <1>4, <3>3, <4>1
    <3>5. rxdata' = hist[rp] /\ rxcnt' = rxcnt + 1 /\ ird' = ird
      BY <1>1, <3>1, <3>2, <3>4, LenProperties DEF RxServe, Byte, Inv, TypeOK, RxType
    <3>6. rxst' = "xfer"
      BY <1>3, <3>2, <3>3 DEF RxServe
    <3>7. Served' = rp
      <4>1. info'[ird'].start = s
        BY <1>7, <3>3, <3>5
      <4>2. Served' = s + rxcnt'
        BY <3>6, <4>1 DEF Served
      <4> QED BY <3>3, <3>5, <4>2
    <3> QED BY <1>5, <3>4, <3>5, <3>7
  <2> QED BY <2>2, <2>3 DEF RecvBytes
<1>19. RecvAnswers'
  <2>1. Pending' => "frame_word" \in rvalid'
    <3>1. Pending' => Asks
      BY <1>1 DEF Takes, Arms, Learns, Finds, Rests
    <3>2. Asks => Ren("frame_word") /\ RxWordReady
      BY <1>2 DEF Asks, RecvWalk, RxWordReady
    <3> QED BY <3>1, <3>2, PortSets DEF Next, Registers, Rvalids
  <2>2. (phase = "rv" /\ req.reg = "bd" /\ ~bdq => ~bd["rx"])'
    BY <1>2, BdTruth DEF RecvAnswers, Inv
  <2>3. ASSUME phase' = "rv", req'.reg = "rx_nbytes", nbytes' # 0
        PROVE  rxst' = "xfer" /\ nbytes' = rxlen'
    <3>0. phase # "idle" => Legal(req)
      BY AccessFacts DEF Inv
    <3>1. BusRead \/ BusAwait
      BY <2>3 DEF Next, Bus, BusIdle, BusStall, BusWrite, BusAnswer, NextAccess, busVars
    <3>2. step = "poll" /\ rxst = "xfer" /\ nbytes' = rxlen
      <4>1. CASE BusRead
        <5>1. Ren("rx_nbytes") /\ step = "poll"
          BY <2>3, <3>0, <4>1 DEF BusRead, Ren, Legal
        <5>2. rxnv /\ nbytes' = rxlen
          BY <2>3, <5>1 DEF Next, Registers, Nbytes
        <5> QED BY <1>2, <5>1, <5>2 DEF StreamInv
      <4>2. CASE BusAwait
        <5>1. step = "poll" /\ phase = "rv" /\ req.reg = "rx_nbytes" /\ ~Ren("rx_nbytes")
          BY <2>3, <3>0, <4>2 DEF BusAwait, Ren, Legal, busVars
        <5>2. nbytes' = nbytes
          BY <5>1 DEF Next, Registers, Nbytes
        <5> QED BY <1>2, <2>3, <5>1, <5>2 DEF RecvAnswers
      <4> QED BY <3>1, <4>1, <4>2
    <3>3. RxServe
      BY <3>2 DEF Next, Receive, RxDescriptor, RxPopInfo, RxLatchInfo, RxStatus
    <3> QED BY <1>15, <3>2, <3>3
  <2> QED BY <2>1, <2>2, <2>3 DEF RecvAnswers
<1>20. RecvInv' /\ RecvIdle'
  BY <1>1, <1>17, <1>18, <1>19 DEF RecvInv, RecvIdle
<1> QED BY <1>17, <1>20

(* Outside the receive task nothing is read. *)
LEMMA RecvIdleStep ==
  ASSUME Inv, Next, task # "receive"
  PROVE  StreamInv' /\ RecvInv' /\ RecvIdle'
<1>1. task' = task
  BY DEF Next, Bus, BusIdle, BusStall, BusRead, BusAwait, BusWrite, BusAnswer, swVars
<1>2. info = <<>> /\ hist = <<>> /\ ird = 0 /\ ~bd["rx"] /\ rxst = "bd" /\ ~rxnv
  BY DEF Inv, RecvIdle
<1>3. rp = 0
  BY <1>2 DEF Inv, StreamInv, Served, End
<1>4. UNCHANGED <<info, hist, ird, rp, rxst, rxnv>>
  BY <1>2 DEF Next, Receive, Arrive, RxDescriptor, RxPopInfo, RxLatchInfo, RxServe, RxStatus
<1>5. ~bd["rx"]'
  <2>1. bd \in [{"rx", "tx"} -> BOOLEAN]
    BY DEF Inv, TypeOK, CoreType
  <2>2. CASE task = "transmit"
    BY <1>2, <2>1, <2>2 DEF Next, Descriptor
  <2>3. CASE task # "transmit"
    <3>1. task = "registers" /\ step = "go"
      BY <2>3, CsrAssumption DEF Inv, TypeOK, SwType, ReqInv
    <3>2. ~Wen("bd")
      BY <3>1, AccessFacts DEF Inv, Wen, Legal
    <3> QED BY <1>2, <2>1, <2>3, <3>2 DEF Next, Descriptor
  <2> QED BY <2>2, <2>3
<1>6. StreamInv'
  BY <1>2, <1>3, <1>4 DEF StreamInv, Served, End
<1> QED BY <1>1, <1>2, <1>4, <1>5, <1>6 DEF RecvInv, RecvIdle

-----------------------------------------------------------------------------
(* The invariant after reset. *)
LEMMA InitInv == Init => Inv
<1> SUFFICES ASSUME Init PROVE Inv
  OBVIOUS
<1>1. SwType
  <2>1. None \in [reg: Ports \cup {"none"}, wr: BOOLEAN, data: Nat]
    BY DEF None, Rd
  <2> QED BY <2>1, CsrAssumption DEF Init, SwType
<1>2. CoreType
  BY ResetFacts DEF Init, CoreType
<1>3. RxType
  <2>1. hist \in Seq(Nat \X Nat) /\ info \in Seq([start: Nat, len: FrameLens]) /\ Len(info) = 0
    BY EmptySeq DEF Init
  <2>2. rxdata \in Nat \X Nat
    BY DEF Init
  <2>3. /\ rp \in Nat /\ ird \in 0..Len(info) /\ rxlen \in Nat /\ rxcnt \in Nat /\ rxst = "bd"
    BY <2>1 DEF Init
  <2>4. rxnv \in BOOLEAN
    BY DEF Init
  <2> QED BY <2>1, <2>2, <2>3, <2>4 DEF RxType
<1>4. TxType
  BY EmptySeq DEF Init, TxType
<1>5. ReqInv /\ EventKept
  BY DEF Init, ReqInv, EventKept
<1>6. SendInv /\ SendIdle
  BY DEF Init, SendInv, SendWalk, SendBytes, SendIdle
<1>7. Ends /\ StreamInv /\ RecvIdle
  BY DEF Init, Ends, StreamInv, RecvIdle, Served, End
<1>8. RecvInv
  <2>1. ~Pending /\ Served = 0 /\ Len(got) = 0
    BY DEF Init, Pending, Served, End
  <2> QED BY <2>1 DEF Init, RecvInv, RecvWalk, RecvCount, RecvBytes, RecvAnswers, End
<1> QED BY <1>1, <1>2, <1>3, <1>4, <1>5, <1>6, <1>7, <1>8 DEF Inv, TypeOK

(* The invariant when nothing moves. *)
LEMMA StutterInv ==
  ASSUME Inv, UNCHANGED vars
  PROVE  Inv'
<1> USE DEF vars, swVars, busVars, regVars, intVars, rxVars, txVars
<1>1. TypeOK'
  <2>1. SwType' /\ CoreType'
    BY DEF Inv, TypeOK, SwType, CoreType
  <2>2. RxType'
    BY DEF Inv, TypeOK, RxType
  <2>3. TxType'
    BY DEF Inv, TypeOK, TxType
  <2> QED BY <2>1, <2>2, <2>3 DEF TypeOK
<1>2. ReqInv' /\ EventKept'
  BY DEF Inv, ReqInv, EventKept, Requests, When
<1>3. SendInv' /\ SendIdle'
  BY DEF Inv, SendInv, SendWalk, SendBytes, SendIdle
<1>4. Ends' /\ StreamInv' /\ RecvIdle'
  BY DEF Inv, Ends, StreamInv, RecvIdle, Served, End
<1>5. RecvInv'
  BY DEF Inv, RecvInv, RecvWalk, RecvCount, RecvBytes, RecvAnswers, Pending, Served, End
<1> QED BY <1>1, <1>2, <1>3, <1>4, <1>5 DEF Inv

(* The inductive invariant holds. *)
LEMMA Invariance == Spec => []Inv
<1>1. ASSUME Inv, Next
      PROVE  Inv'
  <2>1. ReqInv'
    BY <1>1, RequestStep DEF Inv, Next
  <2>2. SwType' /\ CoreType' /\ RxType'
    BY <1>1, <2>1, SwTypeStep, CoreTypeStep, RxTypeStep DEF Inv, Next
  <2>3. SendInv' /\ SendIdle' /\ TxType'
    BY <1>1, SendStep, SendIdleStep
  <2>4. StreamInv' /\ RecvInv' /\ RecvIdle'
    BY <1>1, RecvStep, RecvIdleStep
  <2>5. Ends' /\ EventKept'
    BY <1>1, StreamStep, EventStep DEF Inv, Next
  <2> QED BY <2>1, <2>2, <2>3, <2>4, <2>5 DEF Inv, TypeOK
<1>2. Inv /\ [Next]_vars => Inv'
  BY <1>1, StutterInv
<1> QED BY InitInv, <1>2, PTL DEF Spec

(* Every register, memory and software variable keeps its type: no word is *)
(* popped from an empty FIFO.                                              *)
THEOREM CsrTypeCorrect == Spec => []TypeOK
<1>1. Inv => TypeOK
  BY DEF Inv
<1> QED BY Invariance, <1>1, PTL

(* Software that goes by RX_NBYTES alone reads the received frames whole,  *)
(* each byte once and in order, whatever the timing of its accesses.       *)
THEOREM FramesReadWhole == Spec => []FramesWhole
<1>1. ASSUME Inv, task = "receive"
      PROVE  FramesWhole
  <2>1. RecvWalk /\ RecvCount /\ RecvBytes
    BY <1>1 DEF Inv, RecvInv
  <2>2. ird \in 0..Len(info) /\ Len(info) \in Nat /\ done \in Nat /\ Len(got) \in Nat /\ owed \in Nat
    BY <1>1, StreamFacts, LenProperties DEF Inv, TypeOK, SwType, RxType
  <2>3. step \in {"read", "status"} => ird = done + 1
    BY <2>1 DEF RecvWalk
  <2>4. step \notin {"read", "status"} => Len(got) = End(done) /\ ird \in {done, done + 1}
    BY <2>1 DEF RecvWalk, RecvCount
  <2>5. /\ step = "read" => Len(got) = End(done + 1) - owed /\ owed > 0
        /\ step = "status" => Len(got) = End(done + 1)
    <3>1. End(ird) \in Nat
      BY <1>1, <2>2, StreamFacts DEF Inv
    <3> QED BY <2>1, <2>2, <2>3, <3>1 DEF RecvWalk, RecvCount
  <2>6. done + (IF step \in {"read", "status"} THEN 1 ELSE 0) <= Len(info)
    BY <2>2, <2>3, <2>4
  <2>7. Len(got) <= Len(hist)
    <3>1. CASE step \in {"read", "status"}
      <4>1. End(ird) \in Nat /\ End(ird) <= Len(hist) /\ Len(hist) \in Nat
        BY <1>1, <2>2, StreamFacts DEF Inv
      <4> QED BY <2>2, <2>3, <2>5, <3>1, <4>1
    <3>2. CASE step \notin {"read", "status"}
      <4>1. done \in 0..Len(info)
        BY <2>2, <2>4, <3>2
      <4> QED BY <1>1, <2>4, <3>2, <4>1, StreamFacts DEF Inv
    <3> QED BY <3>1, <3>2
  <2>8. got = SubSeq(hist, 1, Len(got))
    <3>1. got \in Seq(Nat \X Nat) /\ hist \in Seq(Nat \X Nat) /\ Len(hist) \in Nat
      BY <1>1, LenProperties DEF Inv, TypeOK, SwType, RxType
    <3>2. \A i \in 1..Len(got) : hist[i] \in Nat \X Nat
      BY <2>2, <2>7, <3>1, ElementOfSeq
    <3>3. /\ SubSeq(hist, 1, Len(got)) \in Seq(Nat \X Nat)
          /\ Len(SubSeq(hist, 1, Len(got))) = Len(got)
      BY <2>2, <3>2, SubSeqProperties
    <3>4. \A i \in 1..Len(got) : SubSeq(hist, 1, Len(got))[i] = hist[i]
      BY <2>2, <2>7, <3>1
    <3> QED BY <2>1, <3>1, <3>3, <3>4, SeqEqual DEF RecvBytes
  <2> QED BY <2>4, <2>5, <2>6, <2>8 DEF FramesWhole
<1>2. Inv => FramesWhole
  BY <1>1 DEF FramesWhole
<1> QED BY Invariance, <1>2, PTL

(* However the bus is stalled, what is sent is the preamble and the frame  *)
(* that software wrote.                                                    *)
THEOREM FramesSentWhole == Spec => []SentWhole
<1>1. Inv => SentWhole
  BY DEF Inv, SendInv, SendWalk, SendBytes, SendIdle, SentWhole, Sent
<1> QED BY Invariance, <1>1, PTL

(* No event is cleared that software has not read.                         *)
THEOREM NoEventCleared == Spec => []EventKept
<1>1. Inv => EventKept
  BY DEF Inv
<1> QED BY Invariance, <1>1, PTL
=============================================================================
