------------------------------ MODULE EthCsrs ------------------------------
(***************************************************************************)
(* The software side of the core, clock cycle by clock cycle: the register *)
(* bus, the registers of iob_eth.py, the interrupt source register, the    *)
(* glue logic of iob_eth_logic.py, and the states of the Data Transfer     *)
(* block that serve software which moves frames byte by byte through       *)
(* FRAME_WORD, in a system without DMA (awready and arready stay low).     *)
(*                                                                         *)
(* One step is one cycle of clk_i: Next is the conjunction of what every   *)
(* block does in that cycle, each reading the others' current outputs.     *)
(*                                                                         *)
(* The bus (the generated CSR block, a submodule) presents one access at a *)
(* time: "req" holds it until the port is ready, "rv" waits for rvalid.    *)
(* The next access may be presented in the very next cycle.                *)
(***************************************************************************)
EXTENDS CsrTable, Sequences, FiniteSets

CONSTANTS
  Tasks,      \* what software does: "registers", "receive", "transmit"
  FrameLens,  \* lengths of the frames received and sent
  MaxFrames,  \* bound: frames received or sent in a behaviour
  MaxWrites,  \* bound: writes of ordinary registers in a behaviour
  Vals,       \* values written to ordinary registers
  PreLen,     \* PRE_FRAME_LEN
  Depth       \* capacity of the TX data FIFO

ASSUME CsrAssumption ==
  /\ Tasks \subseteq {"registers", "receive", "transmit"}
  /\ FrameLens \subseteq Nat \ {0}
  /\ MaxFrames \in Nat /\ MaxWrites \in Nat /\ Vals \subseteq Nat
  /\ PreLen \in Nat /\ Depth \in Nat
  /\ \A n \in FrameLens : PreLen + n <= Depth

VARIABLES
  \* software
  task, step,  \* what it is doing, and where it is in it
  owed,        \* FRAME_WORD accesses left for the frame in hand
  done,        \* frames read or sent completely
  left,        \* writes of ordinary registers it may still do
  got,         \* every byte it has read from FRAME_WORD
  seen,        \* what it read from INT_SOURCE and has not written back
  \* the bus
  phase, req,
  \* registers and glue logic
  regs,        \* the registers only software changes
  rvalid,      \* ports whose (registered) rvalid is high
  nbytes,      \* rx_nbytes_rdata_rd: captured with the request
  bdq,         \* bd_rdata: the descriptor's owner bit when it was read
  src, irqd,   \* INT_SOURCE; tx_irq and rx_irq of the cycle before
  since,       \* events since INT_SOURCE was last written, per bit
  \* memory and FIFOs behind them
  bd,          \* owner bit (EMPTY, READY) of each side's descriptor
  hist, rp,    \* RX data FIFO: bytes ever written, bytes read
  info, ird,   \* RX info FIFO: words ever written [start, len], words read
  \* Data Transfer block, receive half
  rxst, rxlen, rxcnt, rxnv, rxdata,
  \* Data Transfer block, transmit half, and the transmitter behind it
  txst, txlen, pre, txcnt, send, out, txrdy

swVars == <<task, step, owed, done, left, got, seen>>
busVars == <<phase, req>>
regVars == <<regs, rvalid, nbytes, bdq>>
intVars == <<src, irqd, since>>
rxVars == <<hist, rp, info, ird, rxst, rxlen, rxcnt, rxnv, rxdata>>
txVars == <<txst, txlen, pre, txcnt, send, out, txrdy>>
vars == <<swVars, busVars, regVars, intVars, bd, rxVars, txVars>>

FileRegs == SwRegs \cup {"tx_bd_num"}
FileReset(r) == IF r = "tx_bd_num" THEN 64 ELSE ResetValue(r)

Rd(r) == [reg |-> r, wr |-> FALSE, data |-> 0]
Wr(r, d) == [reg |-> r, wr |-> TRUE, data |-> d]
None == Rd("none")

\* MODER with RXEN and TXEN
Enabled == 40963

\* valid of a port, with wstrb = 0 and with wstrb # 0
Ren(r) == phase = "req" /\ req.reg = r /\ ~req.wr
Wen(r) == phase = "req" /\ req.reg = r /\ req.wr

RxEn == regs["moder"] % 2 = 1
TxEn == (regs["moder"] \div 2) % 2 = 1

Byte(p) == IF p \in DOMAIN hist THEN hist[p] ELSE <<0, 0>>
Pop == rp' = IF rp < Len(hist) THEN rp + 1 ELSE rp

(* The byte software writes: the next one of its frame. *)
WordData == txlen - owed + 1

-----------------------------------------------------------------------------
(* The bus. *)

TxFull == Len(out) >= Depth

\* internal_frame_word_ready_rd, _wr
RxWordReady == rxst = "xfer"
TxWordReady == txst = "xfer" /\ ~TxFull

(* Every port but FRAME_WORD is always ready. *)
Ready ==
  req.reg = "frame_word" =>
    IF Wen("frame_word") THEN TxWordReady ELSE RxWordReady

When(cond, accesses) == IF cond THEN accesses ELSE {}

(* Accesses software may make next.  No driver of the repository uses      *)
(* FRAME_WORD: it is used here as the descriptions of the registers say,   *)
(* RX_NBYTES first and then that many bytes, and a descriptor is only      *)
(* written when the core has handed it back.                               *)
Requests ==
  When(task = "registers", {Rd(r) : r \in FileRegs \cup StatusRegs})
  \cup When(task = "registers" /\ left > 0, {Wr(r, v) : r \in FileRegs, v \in Vals})
  \cup When(task # "registers" /\ seen = {}, {Rd("int_source")})
  \cup When(task # "registers" /\ seen # {}, {Wr("int_source", 0)})
  \cup When(step = "enable", {Wr("moder", Enabled)})
  \cup When(step = "arm" /\ done < MaxFrames, {Wr("bd", n) : n \in FrameLens})
  \cup When(step = "poll", {Rd("rx_nbytes")})
  \cup When(step = "read", {Rd("frame_word")})
  \cup When(step = "write", {Wr("frame_word", 0)})
  \cup When(step = "status", {Rd("bd")})

NextAccess ==
  \/ phase' = "idle" /\ req' = None
  \/ phase' = "req" /\ req' \in Requests'

BusIdle ==
  /\ phase = "idle"
  /\ UNCHANGED swVars
  /\ NextAccess

BusStall ==
  /\ phase = "req"
  /\ ~Ready
  /\ UNCHANGED <<swVars, busVars>>

BusRead ==
  /\ phase = "req" /\ ~req.wr
  /\ Ready
  /\ phase' = "rv"
  /\ UNCHANGED <<swVars, req>>

BusAwait ==
  /\ phase = "rv"
  /\ req.reg \notin rvalid
  /\ UNCHANGED <<swVars, busVars>>

(* A write is done with the handshake. *)
BusWrite ==
  /\ phase = "req" /\ req.wr
  /\ Ready
  /\ \/ /\ req.reg \in FileRegs
        /\ IF task = "registers"
             THEN left' = left - 1 /\ step' = step
             ELSE step' = "arm" /\ left' = left
        /\ UNCHANGED <<owed, done, seen>>
     \/ /\ req.reg = "int_source"
        /\ seen' = {}
        /\ UNCHANGED <<step, owed, done, left>>
     \/ /\ req.reg = "bd"
        /\ step' = IF task = "receive" THEN "poll" ELSE "write"
        /\ owed' = IF task = "receive" THEN 0 ELSE req.data
        /\ UNCHANGED <<done, left, seen>>
     \/ /\ req.reg = "frame_word"
        /\ owed' = owed - 1
        /\ step' = IF owed = 1 THEN "status" ELSE "write"
        /\ UNCHANGED <<done, left, seen>>
  /\ UNCHANGED <<task, got>>
  /\ NextAccess

(* A read is done with rvalid. *)
BusAnswer ==
  /\ phase = "rv"
  /\ req.reg \in rvalid
  /\ \/ /\ req.reg \in FileRegs \cup StatusRegs
        /\ UNCHANGED <<step, owed, done, got, seen>>
     \/ /\ req.reg = "int_source"
        /\ seen' = src
        /\ UNCHANGED <<step, owed, done, got>>
     \/ /\ req.reg = "rx_nbytes"
        /\ owed' = nbytes
        /\ step' = IF nbytes = 0 THEN "poll" ELSE "read"
        /\ UNCHANGED <<done, got, seen>>
     \/ /\ req.reg = "frame_word"
        /\ got' = Append(got, rxdata)
        /\ owed' = owed - 1
        /\ step' = IF owed = 1 THEN "status" ELSE "read"
        /\ UNCHANGED <<done, seen>>
     \/ /\ req.reg = "bd"
        /\ step' = IF bdq THEN "status" ELSE "arm"
        /\ done' = IF bdq THEN done ELSE done + 1
        /\ UNCHANGED <<owed, got, seen>>
  /\ UNCHANGED <<task, left>>
  /\ NextAccess

Bus == BusIdle \/ BusStall \/ BusRead \/ BusAwait \/ BusWrite \/ BusAnswer

-----------------------------------------------------------------------------
(* Registers and glue logic. *)

FileWrite ==
  regs' = IF \E r \in FileRegs : Wen(r)
            THEN [regs EXCEPT ![req.reg] = req.data] ELSE regs

(* rvalid follows a read request by one cycle; that of RX_NBYTES is a      *)
(* pulse, that of FRAME_WORD comes from the Data Transfer block.           *)
Rvalids ==
  rvalid' = {r \in SwRegs \cup CoreRegs \cup StatusRegs \cup BdRegs : Ren(r)}
     \cup (IF Ren("rx_nbytes") /\ "rx_nbytes" \notin rvalid
             THEN {"rx_nbytes"} ELSE {})
     \cup (IF Ren("frame_word") /\ RxWordReady THEN {"frame_word"} ELSE {})

\* mutant: the length is offered for as long as it is latched
NbytesNotGated == nbytes' = IF Ren("rx_nbytes") THEN rxlen ELSE nbytes

(* RX_NBYTES is captured with the request, 0 without a frame. *)
Nbytes ==
  nbytes' = IF Ren("rx_nbytes") THEN (IF rxnv THEN rxlen ELSE 0) ELSE nbytes

BdRead(d) == bdq' = IF Ren("bd") THEN bd[d] ELSE bdq

Registers ==
  /\ FileWrite
  /\ Rvalids
  /\ Nbytes
  /\ BdRead(IF task = "transmit" THEN "tx" ELSE "rx")

-----------------------------------------------------------------------------
(* The Data Transfer block.  A grant of the descriptor arbiter is a choice *)
(* to stay in the state or to leave it.                                    *)

RxGrant == rxst = "stat" /\ rxst' = "bd"
TxGrant == txst = "stat" /\ txst' = "bd"

(* The receiver finished a frame. *)
Arrive ==
  \/ UNCHANGED <<hist, info>>
  \/ /\ task = "receive" /\ Len(info) < MaxFrames
     /\ \E n \in FrameLens :
          /\ info' = Append(info, [start |-> Len(hist), len |-> n])
          /\ hist' = hist \o [i \in 1..n |-> <<Len(info) + 1, i>>]

\* States 0 to 3.
RxDescriptor ==
  /\ rxst = "bd"
  /\ \/ UNCHANGED <<rxst, rxcnt>>
     \/ bd["rx"] /\ RxEn /\ rxst' = "info" /\ rxcnt' = 0
  /\ UNCHANGED <<rp, ird, rxlen, rxnv, rxdata>>

\* mutant: pop without looking at empty
RxPopBlind ==
  /\ rxst = "info"
  /\ ird' = ird + 1 /\ rxst' = "pend"
  /\ UNCHANGED <<rp, rxlen, rxcnt, rxnv, rxdata>>

\* State 4, info word not popped.
RxPopInfo ==
  /\ rxst = "info"
  /\ IF ird < Len(info)
       THEN ird' = ird + 1 /\ rxst' = "pend"
       ELSE UNCHANGED <<ird, rxst>>
  /\ UNCHANGED <<rp, rxlen, rxcnt, rxnv, rxdata>>

\* State 4, info word popped: the length becomes valid, prefetch a byte.
RxLatchInfo ==
  /\ rxst = "pend"
  /\ rxlen' = info[ird].len
  /\ rxnv' = TRUE
  /\ Pop
  /\ rxst' = "xfer"
  /\ UNCHANGED <<ird, rxcnt, rxdata>>

\* mutant: the length stays valid until the status is written
RxServeLate ==
  /\ rxst = "xfer"
  /\ IF Ren("frame_word")
       THEN /\ rxcnt' = rxcnt + 1
            /\ IF rxcnt + 1 < rxlen THEN Pop ELSE UNCHANGED rp
            /\ rxdata' = Byte(rp)
       ELSE UNCHANGED <<rxcnt, rp, rxdata>>
  /\ IF rxcnt = rxlen THEN rxst' = "stat" ELSE UNCHANGED rxst
  /\ UNCHANGED <<ird, rxlen, rxnv>>

\* State 5: a byte per FRAME_WORD read; all read: the length is no longer
\* available.
RxServe ==
  /\ rxst = "xfer"
  /\ IF Ren("frame_word")
       THEN /\ rxcnt' = rxcnt + 1
            /\ IF rxcnt + 1 < rxlen THEN Pop ELSE UNCHANGED rp
            /\ rxdata' = Byte(rp)
       ELSE UNCHANGED <<rxcnt, rp, rxdata>>
  /\ IF rxcnt = rxlen
       THEN rxst' = "stat" /\ rxnv' = FALSE
       ELSE UNCHANGED <<rxst, rxnv>>
  /\ UNCHANGED <<ird, rxlen>>

\* State 7.
RxStatus ==
  /\ rxst = "stat"
  /\ rxst' \in {"stat", "bd"}
  /\ UNCHANGED <<rp, ird, rxlen, rxcnt, rxnv, rxdata>>

Receive ==
  /\ Arrive
  /\ RxDescriptor \/ RxPopInfo \/ RxLatchInfo \/ RxServe \/ RxStatus

\* States 0 to 3.
TxDescriptor ==
  /\ txst = "bd"
  /\ \/ UNCHANGED <<txst, pre, txcnt, out>>
     \/ bd["tx"] /\ TxEn /\ txst' = "pre" /\ pre' = 0 /\ txcnt' = 0 /\ out' = <<>>
  /\ UNCHANGED send

\* State 4: wait for the transmitter, push preamble and SFD.
TxPreamble ==
  /\ txst = "pre"
  /\ IF txrdy /\ pre < PreLen
       THEN /\ IF TxFull THEN UNCHANGED <<pre, out>>
                 ELSE pre' = pre + 1 /\ out' = Append(out, 0)
            /\ UNCHANGED txst
       ELSE /\ txst' = IF txrdy THEN "xfer" ELSE "pre"
            /\ UNCHANGED <<pre, out>>
  /\ UNCHANGED <<txcnt, send>>

\* mutant: a byte is counted when it is offered, not when it is taken
TxServeUnheld ==
  /\ txst = "xfer"
  /\ IF Wen("frame_word")
       THEN txcnt' = txcnt + 1 /\ out' = Append(out, txcnt + 1)
       ELSE UNCHANGED <<txcnt, out>>
  /\ IF txcnt + 1 >= txlen
       THEN send' = TRUE /\ txst' = "wait"
       ELSE UNCHANGED <<send, txst>>
  /\ UNCHANGED pre

\* State 5: a byte per FRAME_WORD write; all written: send.
TxServe ==
  /\ txst = "xfer"
  /\ IF Wen("frame_word") /\ ~TxFull
       THEN txcnt' = txcnt + 1 /\ out' = Append(out, WordData)
       ELSE UNCHANGED <<txcnt, out>>
  /\ IF txcnt = txlen
       THEN send' = TRUE /\ txst' = "wait"
       ELSE UNCHANGED <<send, txst>>
  /\ UNCHANGED pre

\* State 7: the transmitter has seen send.
TxAwait ==
  /\ txst = "wait"
  /\ IF txrdy THEN UNCHANGED <<txst, send>> ELSE txst' = "stat" /\ send' = FALSE
  /\ UNCHANGED <<pre, txcnt, out>>

\* State 8.
TxStatus ==
  /\ txst = "stat"
  /\ txst' \in {"stat", "bd"}
  /\ UNCHANGED <<pre, txcnt, send, out>>

(* The transmitter, as the Data Transfer block sees it (module TxPath). *)
Transmitter ==
  txrdy' \in IF txrdy = send THEN BOOLEAN ELSE {txrdy}

(* The length field of the transmit descriptor, written by software. *)
TxLength == txlen' = IF task = "transmit" /\ Wen("bd") THEN req.data ELSE txlen

Transmit ==
  /\ TxDescriptor \/ TxPreamble \/ TxServe \/ TxAwait \/ TxStatus
  /\ Transmitter
  /\ TxLength

(* The owner bit: set by software, cleared by the status write. *)
Descriptor(d, armed, granted) ==
  bd' = [bd EXCEPT ![d] = IF armed THEN TRUE ELSE IF granted THEN FALSE ELSE @]

-----------------------------------------------------------------------------
(* Interrupts.  tx_irq and rx_irq are up in the cycle of the status write. *)
Irqs == (IF TxGrant THEN {"txf"} ELSE {}) \cup (IF RxGrant THEN {"rxf"} ELSE {})

Events == Irqs \ irqd

\* mutant: a write wins over an event
SourceLosing(clear) == IF clear = {} THEN src \cup Events ELSE src \ clear

(* Write-one-to-clear; an event of the same cycle wins. *)
Source(clear) == (src \ clear) \cup Events

Cleared == IF Wen("int_source") THEN seen ELSE {}

Interrupts ==
  /\ src' = Source(Cleared)
  /\ irqd' = Irqs
  /\ since' = (since \ Cleared) \cup Events

-----------------------------------------------------------------------------
Init ==
  /\ task \in Tasks
  /\ step = IF task = "registers" THEN "go" ELSE "enable"
  /\ owed = 0 /\ done = 0 /\ left = MaxWrites /\ got = <<>> /\ seen = {}
  /\ phase = "idle" /\ req = None
  /\ regs = [r \in FileRegs |-> FileReset(r)]
  /\ rvalid = {} /\ nbytes = 0 /\ bdq = FALSE
  /\ src = {} /\ irqd = {} /\ since = {}
  /\ bd = [d \in {"rx", "tx"} |-> FALSE]
  /\ hist = <<>> /\ rp = 0 /\ info = <<>> /\ ird = 0
  /\ rxst = "bd" /\ rxlen = 0 /\ rxcnt = 0 /\ rxnv = FALSE /\ rxdata = <<0, 0>>
  /\ txst = "bd" /\ txlen = 0 /\ pre = 0 /\ txcnt = 0
  /\ send = FALSE /\ out = <<>> /\ txrdy = TRUE

Next ==
  /\ Bus
  /\ Registers
  /\ Receive
  /\ Transmit
  /\ IF task = "transmit" THEN Descriptor("tx", Wen("bd"), TxGrant)
                          ELSE Descriptor("rx", Wen("bd"), RxGrant)
  /\ Interrupts

Spec == Init /\ [][Next]_vars

(* The clock runs, the descriptor arbiter grants, the transmitter starts   *)
(* what it is sent and finishes it.  Software owes nothing.                *)
Fairness ==
  /\ WF_vars(Next)
  /\ WF_rxVars(Receive /\ rxst' # rxst)
  /\ WF_txVars(Transmit /\ txst' # txst)
  /\ WF_txVars(Transmit /\ txrdy' # txrdy)

FairSpec == Spec /\ Fairness
-----------------------------------------------------------------------------
(***************************************************************************)
(* Properties.                                                             *)
(***************************************************************************)
Ports == SwRegs \cup CoreRegs \cup NoDmaRegs \cup BdRegs

SwType ==
  /\ task \in Tasks
  /\ step \in {"go", "enable", "arm", "poll", "read", "write", "status"}
  /\ owed \in Nat /\ done \in Nat /\ left \in Nat
  /\ got \in Seq(Nat \X Nat)
  /\ seen \subseteq {"txf", "rxf"}
  /\ phase \in {"idle", "req", "rv"}
  /\ req \in [reg: Ports \cup {"none"}, wr: BOOLEAN, data: Nat]

CoreType ==
  /\ regs \in [FileRegs -> Nat] /\ rvalid \subseteq Ports
  /\ nbytes \in Nat /\ bdq \in BOOLEAN
  /\ src \subseteq {"txf", "rxf"} /\ irqd \subseteq {"txf", "rxf"}
  /\ since \subseteq {"txf", "rxf"}
  /\ bd \in [{"rx", "tx"} -> BOOLEAN]

RxType ==
  /\ hist \in Seq(Nat \X Nat) /\ rp \in Nat
  /\ info \in Seq([start: Nat, len: FrameLens]) /\ ird \in 0..Len(info)
  /\ rxst \in {"bd", "info", "pend", "xfer", "stat"}
  /\ rxlen \in Nat /\ rxcnt \in Nat /\ rxnv \in BOOLEAN
  /\ rxdata \in Nat \X Nat
  /\ rxst = "pend" => ird > 0

TxType ==
  /\ txst \in {"bd", "pre", "xfer", "wait", "stat"}
  /\ txlen \in Nat /\ pre \in Nat /\ txcnt \in Nat
  /\ send \in BOOLEAN /\ out \in Seq(Nat) /\ txrdy \in BOOLEAN

(* Every variable has the values its register or memory can hold. *)
TypeOK == SwType /\ CoreType /\ RxType /\ TxType

(* Bytes of the first f received frames. *)
End(f) == IF f = 0 THEN 0 ELSE info[f].start + info[f].len

(* The promise of RX_NBYTES (iob_eth.py:1458: "Will be zero if no frame    *)
(* has been received. Will reset to zero when cpu completes reading the    *)
(* frame"), as what software gets that relies on it alone: the bytes it    *)
(* reads are those of the frames, each once and in order, and every length *)
(* it is told is that of the next frame it has not read.  A poll one cycle *)
(* after the last byte must not see the old length, and the descriptor     *)
(* must not be found handed back before the frame was read.                *)
FramesWhole == task = "receive" =>
  /\ got = SubSeq(hist, 1, Len(got))
  /\ done + (IF step \in {"read", "status"} THEN 1 ELSE 0) <= Len(info)
  /\ Len(got) = IF step = "read" THEN End(done + 1) - owed
                ELSE IF step = "status" THEN End(done + 1) ELSE End(done)
  /\ step = "read" => owed > 0

(* When send_o is raised, the FIFO holds the preamble and every byte of    *)
(* the frame that software wrote, once and in order, however the bus was   *)
(* stalled by a transmitter still busy or a full FIFO.                     *)
SentWhole == send =>
  out = [i \in 1..PreLen |-> 0] \o [i \in 1..txlen |-> i]

(* An event that comes in the cycle of a write to INT_SOURCE, or after it, *)
(* is still there, whatever the write clears.                              *)
EventKept == since \subseteq src

(* No access hangs the bus: a FRAME_WORD access made as RX_NBYTES and the  *)
(* descriptors allow is served, and every read request is answered.        *)
EveryAccessEnds ==
  /\ phase = "req" /\ ~Ready ~> phase = "req" /\ Ready
  /\ phase = "rv" ~> phase # "rv"
=============================================================================
