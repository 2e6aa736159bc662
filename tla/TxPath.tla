------------------------------- MODULE TxPath -------------------------------
(***************************************************************************)
(* The transmit path of the core: the driver that fills descriptors        *)
(* (ethoc), the transmit half of the Data Transfer block (iob_eth_dt.v),   *)
(* the clock-crossing data FIFO, the send/ready handshake through the      *)
(* synchronisers (iob_eth_cdc), and the MII transmitter (iob_eth_tx.v).    *)
(*                                                                         *)
(* A transmitter action is one byte on the line (two MII clocks).  A byte  *)
(* is named by the frame it belongs to and its index; Pre is a preamble    *)
(* byte or the SFD.  The data FIFO is the history of the bytes written,    *)
(* with a read position.                                                   *)
(*                                                                         *)
(* Two assumptions.  The handshake is over before the frame is: the fall   *)
(* of send reaches the transmitter within Lag bytes of the line, fewer     *)
(* than a frame has (LagAssumption).  And one CPU runs the driver: ethoc   *)
(* does not reclaim descriptors in the middle of ethoc_start_xmit.         *)
(***************************************************************************)
EXTENDS Naturals, Sequences

CONSTANTS
  FrameLens,  \* payload lengths the driver asks for
  MaxFrames,  \* bound: frames submitted in a behaviour
  PreLen,     \* PRE_FRAME_LEN: preamble bytes and SFD
  Depth,      \* capacity of the data FIFO, 2^BUFFER_W
  LenMod,     \* addr and tx_nbytes have log2(LenMod) bits
  MaxBurst,   \* AXI_MAX_BURST_LEN
  RingSizes,  \* values software writes to TX_BD_NUM
  ResetSize,  \* reset value of TX_BD_NUM
  MaxBds,     \* descriptors
  MaxReinit,  \* bound: ring initialisations in a behaviour
  Lag         \* bytes of a frame sent, at most, before the handshake of
              \* send and ready has crossed over and back

ASSUME ConstAssumption ==
  /\ FrameLens \subseteq Nat \ {0}
  /\ MaxFrames \in Nat
  /\ PreLen \in Nat \ {0}
  /\ Depth \in Nat \ {0}
  /\ LenMod \in Nat \ {0}
  /\ \A n \in FrameLens : PreLen + n <= Depth /\ PreLen + n < LenMod
  /\ MaxBurst \in Nat \ {0}
  /\ MaxBds \in Nat \ {0}
  /\ RingSizes \subseteq 1..MaxBds
  /\ ResetSize \in 1..MaxBds
  /\ MaxReinit \in Nat

(* Two clock crossings and two system clocks take less time than the       *)
(* shortest frame (8 + 60 bytes of two MII clocks each in the program).    *)
ASSUME LagAssumption ==
  /\ Lag \in Nat
  /\ \A n \in FrameLens : Lag < PreLen + n

VARIABLES
  st,       \* tx_state: bd = 0,1; ptr = 2,3; pre = 4; ar = 5; rd = 6;
            \*           seen = 7; stat = 8
  bdn,      \* tx_bd_num
  desc,     \* tx_buffer_descriptor
  buf,      \* tx_buffer_ptr: the descriptor whose buffer is being read
  cnt,      \* tx_buffer_byte_counter
  pre,      \* tx_preamble_cnt
  beats,    \* words left in the AXI read burst
  send,     \* send_o
  nbytes,   \* tx_nbytes
  resync,   \* tx_force_resync
  hist,     \* every byte ever written to the data FIFO
  rp,       \* bytes read out of the data FIFO
  rseen,    \* rp as last synchronised into the system clock domain
  sendS,    \* send as last synchronised into the transmitter's domain
  readyS,   \* ready as last synchronised into the system clock domain
  pc,       \* transmitter FSM: idle = 0; pre = 1,2; data = 3,4; fcs = 5-13
  addr,     \* addr: bytes of this frame put on the line
  data,     \* data_i: the byte last read out of the FIFO
  ready,    \* ready_o
  wire,     \* bytes on the line since tx_en_o rose
  out,      \* frames seen on the line: its number if whole, else 0
  num,      \* TX_BD_NUM
  txen,     \* MODER.TXEN
  bds,      \* transmit descriptors: [rd, len, wrap]
  mem,      \* number of the frame each descriptor's buffer holds
  sub,      \* lengths of the frames submitted, in order
  sw,       \* driver: stop, init (in ethoc_init_ring), run, fill (between
            \*         writing a frame and setting its READY bit)
  cur, dty, \* cur_tx, dty_tx
  swi,      \* next descriptor ethoc_init_ring writes
  inits     \* ring initialisations so far

dtVars   == <<st, bdn, desc, buf, cnt, pre, beats, send, nbytes>>
fifoVars == <<hist, rp, rseen>>
cdcVars  == <<sendS, readyS>>
txVars   == <<pc, addr, data, ready, wire, out>>
swVars   == <<num, txen, sub, sw, cur, dty, swi, inits>>

vars == <<dtVars, resync, fifoVars, cdcVars, txVars, bds, mem, swVars>>

Pre == <<0, 0>>

-----------------------------------------------------------------------------
(* The data FIFO. *)
Full == Len(hist) - rseen >= Depth

Push(b) == hist' = Append(hist, b)

(* A read strobe; an empty FIFO ignores it. *)
Pop ==
  IF rp < Len(hist)
    THEN rp' = rp + 1 /\ data' = hist[rp + 1]
    ELSE UNCHANGED <<rp, data>>

-----------------------------------------------------------------------------
(* The Data Transfer block, transmit half. *)

ResyncingAtOnce == resync  \* mutant: not deferred

(* A resync waits for the end of a frame that is being transmitted. *)
Resyncing == resync /\ st \in {"bd", "ptr"}

(* States 0 and 1: poll the descriptor until it is READY and TXEN is set. *)
TxReadBd ==
  /\ st = "bd"
  /\ ~Resyncing
  /\ bds[bdn].rd
  /\ txen
  /\ desc' = bds[bdn]
  /\ st' = "ptr"
  /\ UNCHANGED <<bdn, buf, cnt, pre, beats, send, nbytes, resync, fifoVars,
                 cdcVars, txVars, bds, mem, swVars>>

(* States 2 and 3: sample the buffer pointer. *)
TxReadPtr ==
  /\ st = "ptr"
  /\ ~Resyncing
  /\ buf' = bdn
  /\ cnt' = 0
  /\ pre' = 0
  /\ st' = "pre"
  /\ UNCHANGED <<bdn, desc, beats, send, nbytes, resync, fifoVars, cdcVars,
                 txVars, bds, mem, swVars>>

\* mutant: the transmitter need not be idle
TxPreambleAtOnce ==
  /\ st = "pre"
  /\ IF pre < PreLen
       THEN /\ ~Full
            /\ Push(Pre)
            /\ pre' = pre + 1
            /\ UNCHANGED st
       ELSE st' = "ar" /\ UNCHANGED <<hist, pre>>
  /\ UNCHANGED <<bdn, desc, buf, cnt, beats, send, nbytes, resync, rp, rseen,
                 cdcVars, txVars, bds, mem, swVars>>

(* State 4: once the transmitter is idle, push the preamble and the SFD.   *)
TxPreamble ==
  /\ st = "pre"
  /\ readyS
  /\ IF pre < PreLen
       THEN /\ ~Full
            /\ Push(Pre)
            /\ pre' = pre + 1
            /\ UNCHANGED st
       ELSE st' = "ar" /\ UNCHANGED <<hist, pre>>
  /\ UNCHANGED <<bdn, desc, buf, cnt, beats, send, nbytes, resync, rp, rseen,
                 cdcVars, txVars, bds, mem, swVars>>

(* State 5: issue the next read burst ... *)
TxIssueBurst ==
  /\ st = "ar"
  /\ cnt # desc.len
  /\ beats' = IF MaxBurst < desc.len - cnt THEN MaxBurst ELSE desc.len - cnt
  /\ st' = "rd"
  /\ UNCHANGED <<bdn, desc, buf, cnt, pre, send, nbytes, resync, fifoVars,
                 cdcVars, txVars, bds, mem, swVars>>

\* mutant: one byte too many is asked for
TxSendOneMore ==
  /\ st = "ar"
  /\ cnt = desc.len
  /\ nbytes' = (PreLen + desc.len + 1) % LenMod
  /\ send' = TRUE
  /\ desc' = [desc EXCEPT !.rd = FALSE]
  /\ st' = "seen"
  /\ UNCHANGED <<bdn, buf, cnt, pre, beats, resync, fifoVars, cdcVars, txVars,
                 bds, mem, swVars>>

(* ... or, with the whole frame in the FIFO, call the transmitter. *)
TxSend ==
  /\ st = "ar"
  /\ cnt = desc.len
  /\ nbytes' = (PreLen + desc.len) % LenMod
  /\ send' = TRUE
  /\ desc' = [desc EXCEPT !.rd = FALSE]
  /\ st' = "seen"
  /\ UNCHANGED <<bdn, buf, cnt, pre, beats, resync, fifoVars, cdcVars, txVars,
                 bds, mem, swVars>>

(* State 6: move one byte from memory to the FIFO. *)
TxReadWord ==
  /\ st = "rd"
  /\ ~Full
  /\ Push(<<mem[buf], cnt + 1>>)
  /\ cnt' = cnt + 1
  /\ beats' = beats - 1
  /\ st' = IF beats = 1 THEN "ar" ELSE "rd"
  /\ UNCHANGED <<bdn, desc, buf, pre, send, nbytes, resync, rp, rseen, cdcVars,
                 txVars, bds, mem, swVars>>

\* mutant: send is a pulse
TxSeenAtOnce ==
  /\ st = "seen"
  /\ send' = FALSE
  /\ st' = "stat"
  /\ UNCHANGED <<bdn, desc, buf, cnt, pre, beats, nbytes, resync, fifoVars,
                 cdcVars, txVars, bds, mem, swVars>>

(* State 7: hold send until the transmitter is seen to have left idle. *)
TxSeen ==
  /\ st = "seen"
  /\ ~readyS
  /\ send' = FALSE
  /\ st' = "stat"
  /\ UNCHANGED <<bdn, desc, buf, cnt, pre, beats, nbytes, resync, fifoVars,
                 cdcVars, txVars, bds, mem, swVars>>

NextTxBdNoWrap == bdn + 1  \* mutant: the ring never wraps

(* The ring wraps on the descriptor's WRAP bit or before TX_BD_NUM. *)
NextTxBd == IF desc.wrap \/ bdn = num - 1 THEN 0 ELSE bdn + 1

(* State 8: on the arbiter's grant, write the descriptor back as it was    *)
(* fetched, READY clear, and move on.                                      *)
TxWriteStatus ==
  /\ st = "stat"
  /\ bds' = [bds EXCEPT ![bdn] = desc]
  /\ bdn' = NextTxBd
  /\ st' = "bd"
  /\ UNCHANGED <<desc, buf, cnt, pre, beats, send, nbytes, resync, fifoVars,
                 cdcVars, txVars, mem, swVars>>

(* Software wrote TX_BD_NUM: restart at descriptor 0. *)
TxResync ==
  /\ Resyncing
  /\ bdn' = 0
  /\ st' = "bd"
  /\ resync' = FALSE
  /\ UNCHANGED <<desc, buf, cnt, pre, beats, send, nbytes, fifoVars, cdcVars,
                 txVars, bds, mem, swVars>>

DataTransfer ==
  \/ TxReadBd \/ TxReadPtr \/ TxPreamble \/ TxIssueBurst \/ TxSend
  \/ TxReadWord \/ TxSeen \/ TxWriteStatus \/ TxResync

-----------------------------------------------------------------------------
(* Synchronisers. *)
SyncSend ==
  /\ sendS # send
  /\ sendS' = send
  /\ UNCHANGED <<dtVars, resync, fifoVars, readyS, txVars, bds, mem, swVars>>

SyncReady ==
  /\ readyS # ready
  /\ readyS' = ready
  /\ UNCHANGED <<dtVars, resync, fifoVars, sendS, txVars, bds, mem, swVars>>

SyncRead ==
  /\ rseen # rp
  /\ rseen' = rp
  /\ UNCHANGED <<dtVars, resync, hist, rp, cdcVars, txVars, bds, mem, swVars>>

-----------------------------------------------------------------------------
(* The transmitter.  tx_nbytes is stable from the clock in which send      *)
(* rises until the transmitter is idle again, so it is read directly.      *)

(* The clock: no more than Lag bytes pass while send is still seen high.   *)
InTime == sendS => addr < Lag

(* State 0: a frame is requested; read its first byte. *)
XmStart ==
  /\ pc = "idle"
  /\ sendS
  /\ Pop
  /\ ready' = FALSE
  /\ pc' = "pre"
  /\ UNCHANGED <<dtVars, resync, hist, rseen, cdcVars, addr, wire, out, bds,
                 mem, swVars>>

(* States 1 and 2: one preamble byte. *)
XmPreamble ==
  /\ pc = "pre"
  /\ InTime
  /\ wire' = Append(wire, data)
  /\ addr' = addr + 1
  /\ Pop
  /\ pc' = IF addr + 1 = PreLen THEN "data" ELSE "pre"
  /\ UNCHANGED <<dtVars, resync, hist, rseen, cdcVars, ready, out, bds, mem,
                 swVars>>

(* States 3 and 4: one payload byte; the next is read only if there is one. *)
XmData ==
  /\ pc = "data"
  /\ InTime
  /\ wire' = Append(wire, data)
  /\ addr' = addr + 1
  /\ IF addr + 1 < nbytes
       THEN Pop /\ pc' = "data"
       ELSE pc' = "fcs" /\ UNCHANGED <<rp, data>>
  /\ UNCHANGED <<dtVars, resync, hist, rseen, cdcVars, ready, out, bds, mem,
                 swVars>>

(* What a station sees: the preamble and one whole frame, or garbage.      *)
FrameBytes(f) == [i \in 1..PreLen+sub[f] |->
                    IF i <= PreLen THEN Pre ELSE <<f, i - PreLen>>]
Seen(bytes) ==
  IF \E f \in 1..Len(sub) : bytes = FrameBytes(f)
    THEN CHOOSE f \in 1..Len(sub) : bytes = FrameBytes(f)
    ELSE 0

(* States 5 to 13: the FCS, then idle, whatever send is. *)
XmEnd ==
  /\ pc = "fcs"
  /\ out' = Append(out, Seen(wire))
  /\ wire' = <<>>
  /\ ready' = TRUE
  /\ addr' = 0
  /\ pc' = "idle"
  /\ UNCHANGED <<dtVars, resync, fifoVars, cdcVars, data, bds, mem, swVars>>

Transmitter == XmStart \/ XmPreamble \/ XmData \/ XmEnd

-----------------------------------------------------------------------------
(* The driver. *)

(* The software queue is stopped while the ring is full. *)
RingFullLate == cur - dty > num  \* mutant: off by one
RingFull == cur - dty >= num

(* ethoc_start_xmit: copy the frame, write its descriptor ... *)
SwFill ==
  /\ sw = "run"
  /\ ~RingFull
  /\ Len(sub) < MaxFrames
  /\ \E n \in FrameLens :
       /\ sub' = Append(sub, n)
       /\ bds' = [bds EXCEPT ![cur % num].len = n]
  /\ mem' = [mem EXCEPT ![cur % num] = Len(sub) + 1]
  /\ cur' = cur + 1
  /\ sw' = "fill"
  /\ UNCHANGED <<dtVars, resync, fifoVars, cdcVars, txVars, num, txen, dty, swi,
                 inits>>

(* ... and, in a second write, its READY bit. *)
SwReady ==
  /\ sw = "fill"
  /\ bds' = [bds EXCEPT ![(cur - 1) % num].rd = TRUE]
  /\ sw' = "run"
  /\ UNCHANGED <<dtVars, resync, fifoVars, cdcVars, txVars, mem, num, txen, sub,
                 cur, dty, swi, inits>>

(* ethoc_tx: count a descriptor that is no longer READY as sent.  On the   *)
(* one CPU assumed it does not run inside ethoc_start_xmit.                *)
SwReclaim ==
  /\ sw = "run"
  /\ dty # cur
  /\ ~bds[dty % num].rd
  /\ dty' = dty + 1
  /\ UNCHANGED <<dtVars, resync, fifoVars, cdcVars, txVars, bds, mem, num, txen,
                 sub, sw, cur, swi, inits>>

(* ethoc_disable_rx_and_tx before a ring change. *)
SwStop ==
  /\ sw = "run"
  /\ inits < MaxReinit
  /\ txen' = FALSE
  /\ sw' = "stop"
  /\ UNCHANGED <<dtVars, resync, fifoVars, cdcVars, txVars, bds, mem, num, sub,
                 cur, dty, swi, inits>>

(* ethoc_init_ring: reset the ring pointers, write TX_BD_NUM ... *)
SwSetBdNum ==
  /\ sw = "stop"
  /\ inits < MaxReinit
  /\ num' \in RingSizes
  /\ cur' = 0 /\ dty' = 0 /\ swi' = 0
  /\ resync' = TRUE
  /\ sw' = "init"
  /\ inits' = inits + 1
  /\ UNCHANGED <<dtVars, fifoVars, cdcVars, txVars, bds, mem, txen, sub>>

(* ... write the descriptors one by one, WRAP on the last; then            *)
(* ethoc_enable_rx_and_tx.                                                 *)
SwInitBd ==
  /\ sw = "init"
  /\ bds' = [bds EXCEPT ![swi] = [rd |-> FALSE, len |-> 0,
                                  wrap |-> swi = num - 1]]
  /\ swi' = swi + 1
  /\ IF swi = num - 1
       THEN sw' = "run" /\ txen' = TRUE
       ELSE UNCHANGED <<sw, txen>>
  /\ UNCHANGED <<dtVars, resync, fifoVars, cdcVars, txVars, mem, num, sub, cur,
                 dty, inits>>

Driver ==
  \/ SwFill \/ SwReady \/ SwReclaim \/ SwStop \/ SwSetBdNum \/ SwInitBd

-----------------------------------------------------------------------------
Bd == 0..MaxBds-1
EmptyDesc == [rd |-> FALSE, len |-> 0, wrap |-> FALSE]

Init ==
  /\ st = "bd" /\ bdn = 0 /\ desc = EmptyDesc /\ buf = 0 /\ cnt = 0 /\ pre = 0
  /\ beats = 0 /\ send = FALSE /\ nbytes = 0 /\ resync = FALSE
  /\ hist = <<>> /\ rp = 0 /\ rseen = 0
  /\ sendS = FALSE /\ readyS = FALSE
  /\ pc = "idle" /\ addr = 0 /\ data = Pre /\ ready = TRUE
  /\ wire = <<>> /\ out = <<>>
  /\ num = ResetSize /\ txen = FALSE
  /\ bds = [b \in Bd |-> EmptyDesc] /\ mem = [b \in Bd |-> 0]
  /\ sub = <<>> /\ sw = "stop" /\ cur = 0 /\ dty = 0 /\ swi = 0 /\ inits = 0

Next ==
  DataTransfer \/ SyncSend \/ SyncReady \/ SyncRead \/ Transmitter \/ Driver

Spec == Init /\ [][Next]_vars

(* Clocks run, the arbiter and the AXI slave answer, the driver finishes   *)
(* what it began and reclaims; nobody is obliged to send or to change the  *)
(* ring.                                                                   *)
Fairness ==
  /\ WF_vars(DataTransfer) /\ WF_vars(Transmitter)
  /\ WF_vars(SyncSend) /\ WF_vars(SyncReady) /\ WF_vars(SyncRead)
  /\ WF_vars(SwReady) /\ WF_vars(SwReclaim)
  /\ WF_vars(SwSetBdNum) /\ WF_vars(SwInitBd)

FairSpec == Spec /\ Fairness

-----------------------------------------------------------------------------
(***************************************************************************)
(* Properties.                                                             *)
(***************************************************************************)
Byte == Nat \X Nat
Desc == [rd: BOOLEAN, len: Nat, wrap: BOOLEAN]

(* Every variable has the values its register or memory can hold. *)
TypeOK ==
  /\ st \in {"bd", "ptr", "pre", "ar", "rd", "seen", "stat"}
  /\ bdn \in Bd /\ desc \in Desc /\ buf \in Bd
  /\ cnt \in Nat /\ pre \in 0..PreLen /\ beats \in Nat
  /\ send \in BOOLEAN /\ nbytes \in 0..LenMod-1 /\ resync \in BOOLEAN
  /\ hist \in Seq(Byte) /\ rp \in Nat /\ rseen \in Nat
  /\ sendS \in BOOLEAN /\ readyS \in BOOLEAN
  /\ pc \in {"idle", "pre", "data", "fcs"}
  /\ addr \in Nat /\ data \in Byte /\ ready \in BOOLEAN
  /\ wire \in Seq(Byte) /\ out \in Seq(Nat)
  /\ num \in 1..MaxBds /\ txen \in BOOLEAN
  /\ bds \in [Bd -> Desc] /\ mem \in [Bd -> Nat] /\ sub \in Seq(FrameLens)
  /\ sw \in {"stop", "init", "run", "fill"}
  /\ cur \in Nat /\ dty \in Nat /\ swi \in Nat /\ inits \in Nat

(* Driver and transmit path together put whole frames on the line, in the  *)
(* order in which the stack handed them over, without duplicates.          *)
Channel == INSTANCE FrameChannel
             WITH entered <- [f \in 1..Len(sub) |-> TRUE], out <- out
InOrderOnce == Channel!Spec

(* The transmitter strobes the FIFO without looking at its empty flag: it  *)
(* never does so when it is empty, for every delay of the handshake that   *)
(* ends within a frame.  At idle this says that no send is left over from  *)
(* the frame before, which would start a frame that is not there.          *)
NoUnderrun ==
  /\ pc = "idle" /\ sendS => rp < Len(hist)
  /\ pc = "pre" => rp < Len(hist)
  /\ pc = "data" /\ addr + 1 < nbytes => rp < Len(hist)

(* A new frame is put into an empty FIFO: the frame before it has been     *)
(* read to its last byte and not further (iob_eth_tx.v:114-116).  Like     *)
(* NoUnderrun it needs the handshake to end within a frame.                *)
FrameBoundary == st = "pre" /\ readyS /\ pre = 0 => rp = Len(hist)

(* The driver does not reuse a buffer that is still being fetched: it      *)
(* takes READY as cleared only after the last byte was read.               *)
BufferKept == [][(st \in {"ar", "rd"}) => mem'[buf] = mem[buf]]_vars

(* The status write clears the READY bit of the frame that was sent, and   *)
(* of no other.                                                            *)
StatusOfOwnFrame ==
  [][st = "stat" /\ st' = "bd" => mem[bdn] = hist[Len(hist)][1]]_vars

(* Every frame submitted is sent, and its descriptor reclaimed. *)
AllSent ==
  \A i \in 1..MaxFrames : Len(sub) >= i ~> Len(out) >= i /\ dty >= i

=============================================================================
