------------------------------- MODULE RxPath -------------------------------
(***************************************************************************)
(* The receive path of the core: the MII receiver (iob_eth_rx.v), the two  *)
(* clock-crossing FIFOs behind it (frame bytes, and one info word          *)
(* {crc_err, length} per frame), the receive half of the Data Transfer     *)
(* block (iob_eth_dt.v) that turns info words into frames in memory, the   *)
(* receive buffer descriptors, and the driver that consumes them and       *)
(* re-initialises the ring (ethoc).                                        *)
(*                                                                         *)
(* Time: one receiver action is one byte slot of the line (two MII clocks: *)
(* FSM states 2+3 or 4+5), so the line advances in the very step in which  *)
(* the receiver handles the byte on it.  Everything else interleaves.      *)
(*                                                                         *)
(* Data: a byte is named by the frame it belongs to and its index in it;   *)
(* Junk is any byte that belongs to no frame (preamble, or the stale       *)
(* capture register while rx_dv is low).  The data FIFO is the history of  *)
(* the accepted bytes with a read position, so "which bytes were           *)
(* transferred" can be stated.                                             *)
(***************************************************************************)
EXTENDS Naturals, Sequences, FiniteSets

CONSTANTS
  FrameLens,   \* lengths of line frames: bytes after the SFD, FCS included
  MaxFrames,   \* bound: frames on the line in a behaviour
  DaLen,       \* IOB_ETH_MAC_ADDR_LEN
  Depth,       \* capacity of the data FIFO, 2^BUFFER_W
  InfoDepth,   \* capacity of the info FIFO
  LenMod,      \* addr_o and rx_length have log2(LenMod) bits
  MaxBurst,    \* AXI_MAX_BURST_LEN
  Bases,       \* values software writes to TX_BD_NUM: first receive descriptor
  Lasts,       \* last descriptors of the rings the driver sets up
  ResetBase,   \* reset value of TX_BD_NUM and of rx_bd_num
  LastBd,      \* last descriptor there is: rx_bd_num with all bits set
  MaxReinit    \* bound: ring initialisations in a behaviour

ASSUME ConstAssumption ==
  /\ FrameLens \subseteq Nat \ {0}
  /\ MaxFrames \in Nat
  /\ DaLen \in Nat \ {0}
  /\ Depth \in Nat \ {0}
  /\ InfoDepth \in Nat \ {0}
  /\ LenMod \in Nat /\ LenMod > DaLen + 1
  /\ MaxBurst \in Nat \ {0}
  /\ LastBd \in Nat
  /\ Bases \subseteq 0..LastBd /\ Lasts \subseteq 0..LastBd
  /\ ResetBase \in 0..LastBd
  /\ MaxReinit \in Nat

VARIABLES
  sent,     \* frames put on the line: [n: length, good: FCS correct]
  dv,       \* rx_dv: the line carries a frame
  pos,      \* with dv: 0 on the SFD, i on byte i of frame Len(sent)
  pc,       \* receiver FSM: hunt = 0,1; da = 2,3; pay = 4,5; push = 6
  addr,     \* addr_o: accepted bytes of this frame, LenMod-wide
  crcFrom,  \* bytes before this position are not in the running CRC
  hist,     \* every byte the data FIFO ever accepted
  rp,       \* bytes read out of the data FIFO
  rseen,    \* rp as last synchronised into the receiver's clock domain
  info,     \* every word the info FIFO ever accepted: [start, len, bad]
  ird,      \* words read out of the info FIFO
  pseen,    \* ird as last synchronised into the receiver's domain
  iseen,    \* Len(info) as last synchronised into the Data Transfer's domain
  st,       \* rx_state: bd = 0,1; ptr = 2,3; info = 4; aw = 5; w = 6; stat = 7
  bdn,      \* rx_bd_num
  buf,      \* rx_buffer_ptr: the descriptor whose buffer is being filled
  wrap,     \* rx_buffer_descriptor[13]: WRAP as fetched in state 1
  pend,     \* rx_info_pop_pending
  len,      \* rx_length
  bad,      \* rx_crc
  cnt,      \* rx_buffer_byte_counter
  beats,    \* words left in the AXI write burst
  resync,   \* rx_force_resync
  base,     \* TX_BD_NUM: the first receive descriptor
  last,     \* num_tx + num_rx - 1: the last one
  rxen,     \* MODER.RXEN
  bds,      \* buffer descriptors: [e: EMPTY (ready), wrap, len, bad]
  mem,      \* bytes written to each descriptor's buffer
  sw,       \* driver: stop (RXEN clear), init (in ethoc_init_ring), run
  swcur,    \* driver: absolute index of cur_rx; next descriptor to initialise
  inits,    \* ring initialisations so far
  got       \* numbers of the frames handed to the stack, oldest first

lineVars == <<sent, dv, pos>>
rxVars   == <<pc, addr, crcFrom>>
dtVars   == <<st, bdn, buf, wrap, pend, len, bad, cnt, beats>>
swVars   == <<base, last, rxen, sw, swcur, inits, got>>
fifoVars == <<hist, rp, rseen, info, ird, pseen, iseen>>

vars == <<lineVars, rxVars, fifoVars, dtVars, resync, bds, mem, swVars>>

Bd == 0..LastBd
Junk == <<0, 0>>

-----------------------------------------------------------------------------
(* The line, driven by the PHY: idle for any number of byte slots, or a    *)
(* frame of any allowed length, with a correct FCS or not.                 *)
LineNext ==
  \/ /\ ~dv
     /\ UNCHANGED lineVars
  \/ /\ ~dv
     /\ Len(sent) < MaxFrames
     /\ \E n \in FrameLens, good \in BOOLEAN :
          sent' = Append(sent, [n |-> n, good |-> good])
     /\ dv' = TRUE
     /\ pos' = 0
  \/ /\ dv
     /\ pos < sent[Len(sent)].n
     /\ pos' = pos + 1
     /\ UNCHANGED <<sent, dv>>
  \/ /\ dv
     /\ pos = sent[Len(sent)].n
     /\ dv' = FALSE
     /\ pos' = 0
     /\ UNCHANGED sent

(* data_int: the byte in this slot. *)
LineByte == IF dv /\ pos > 0 THEN <<Len(sent), pos>> ELSE Junk

FrameBytes(f) == [i \in 1..sent[f].n |-> <<f, i>>]

(* The CRC residue is the good one exactly for a whole undamaged frame.    *)
CrcOk(bytes) ==
  \E f \in 1..Len(sent) : sent[f].good /\ bytes = FrameBytes(f)

-----------------------------------------------------------------------------
(* The receiver.  Fullness is judged by the synchronised read positions,   *)
(* which may lag, so a FIFO may look full after it has been drained.       *)
WFull == Len(hist) - rseen >= Depth

InfoWFull == Len(info) - pseen >= InfoDepth

\* mutant: dropped bytes are counted
AcceptByteCountingAll ==
  /\ hist' = IF WFull THEN hist ELSE Append(hist, LineByte)
  /\ addr' = (addr + 1) % LenMod

(* Write the byte in this slot if the data FIFO has room, else drop it.    *)
AcceptByte ==
  IF WFull
    THEN UNCHANGED <<hist, addr>>
    ELSE /\ hist' = Append(hist, LineByte)
         /\ addr' = (addr + 1) % LenMod

(* States 0 and 1: wait for the SFD.  A receiver that starts to listen in  *)
(* the middle of a frame may take a payload byte for it.                   *)
RxHunt ==
  /\ pc = "hunt"
  /\ LineNext
  /\ \/ /\ dv
        /\ pc' = "da"
     \/ /\ ~(dv /\ pos = 0)
        /\ pc' = "hunt"
  /\ addr' = 0
  /\ UNCHANGED <<crcFrom, fifoVars, dtVars, resync, bds, mem, swVars>>

(* States 2 and 3: capture bytes until DaLen of them have been accepted,   *)
(* whether or not the line still carries the frame.                        *)
RxDest ==
  /\ pc = "da"
  /\ LineNext
  /\ AcceptByte
  /\ pc' = IF addr' = DaLen THEN "pay" ELSE "da"
  /\ UNCHANGED <<crcFrom, rp, rseen, info, ird, pseen, iseen, dtVars, resync,
                 bds, mem, swVars>>

(* States 4 and 5: write one byte, then look whether the frame goes on.    *)
RxPayload ==
  /\ pc = "pay"
  /\ LineNext
  /\ AcceptByte
  /\ pc' = IF dv' THEN "pay" ELSE "push"
  /\ UNCHANGED <<crcFrom, rp, rseen, info, ird, pseen, iseen, dtVars, resync,
                 bds, mem, swVars>>

(* State 6 with room in the info FIFO: push the info word, restart.        *)
RxPush ==
  /\ pc = "push"
  /\ ~InfoWFull
  /\ info' = Append(info, [start |-> crcFrom, len |-> addr,
                bad |-> ~CrcOk(SubSeq(hist, crcFrom + 1, Len(hist)))])
  /\ addr' = 0
  /\ crcFrom' = Len(hist)
  /\ pc' = "hunt"
  /\ UNCHANGED <<lineVars, hist, rp, rseen, ird, pseen, iseen, dtVars, resync,
                 bds, mem, swVars>>

(* State 6 without room: the line goes on without the receiver.            *)
RxHold ==
  /\ pc = "push"
  /\ InfoWFull
  /\ LineNext
  /\ UNCHANGED <<rxVars, fifoVars, dtVars, resync, bds, mem, swVars>>

Receiver == RxHunt \/ RxDest \/ RxPayload \/ RxPush \/ RxHold

(* The FIFOs' pointer synchronisers (one per FIFO and direction; the data  *)
(* FIFO's empty flag is read by nobody).                                   *)
SyncRead ==
  /\ rseen # rp
  /\ rseen' = rp
  /\ UNCHANGED <<lineVars, rxVars, hist, rp, info, ird, pseen, iseen, dtVars,
                 resync, bds, mem, swVars>>

SyncInfoRead ==
  /\ pseen # ird
  /\ pseen' = ird
  /\ UNCHANGED <<lineVars, rxVars, hist, rp, rseen, info, ird, iseen, dtVars,
                 resync, bds, mem, swVars>>

SyncInfoWrite ==
  /\ iseen # Len(info)
  /\ iseen' = Len(info)
  /\ UNCHANGED <<lineVars, rxVars, hist, rp, rseen, info, ird, pseen, dtVars,
                 resync, bds, mem, swVars>>

-----------------------------------------------------------------------------
(* The Data Transfer block, receive half.                                  *)
InfoEmptyEarly == ird + 1 >= iseen  \* mutant: off by one
InfoEmpty == ird >= iseen

(* A FIFO read strobe: ignored by an empty FIFO.  Nobody looks at the      *)
(* empty flag of the data FIFO before strobing.                            *)
PopByte == rp' = IF rp < Len(hist) THEN rp + 1 ELSE rp

PopAlways == PopByte  \* mutant: also past the end of the frame

(* Read the next byte, but not past the end of the frame. *)
PopNext == IF cnt + 1 < len THEN PopByte ELSE UNCHANGED rp

(* rx_buffer_diff *)
Diff == (len + LenMod - (cnt % LenMod)) % LenMod

\* mutant: an info word about to be popped does not count
ConsumingLate == st \in {"aw", "w", "stat"}

(* A pending resync may not cut into a frame that is being consumed.       *)
Consuming ==
  \/ st = "info" /\ (pend \/ ~InfoEmpty)
  \/ st \in {"aw", "w", "stat"}

ResyncingAtOnce == resync  \* mutant: not deferred
Resyncing == resync /\ ~Consuming

\* mutant: the EMPTY bit is not looked at
DtReadBdUnchecked ==
  /\ st = "bd"
  /\ ~Resyncing
  /\ rxen
  /\ wrap' = bds[bdn].wrap
  /\ st' = "ptr"
  /\ UNCHANGED <<lineVars, rxVars, fifoVars, bdn, buf, pend, len, bad, cnt,
                 beats, resync, bds, mem, swVars>>

(* States 0 and 1: poll the descriptor until it is EMPTY and RXEN is set.  *)
DtReadBd ==
  /\ st = "bd"
  /\ ~Resyncing
  /\ bds[bdn].e
  /\ rxen
  /\ wrap' = bds[bdn].wrap
  /\ st' = "ptr"
  /\ UNCHANGED <<lineVars, rxVars, fifoVars, bdn, buf, pend, len, bad, cnt,
                 beats, resync, bds, mem, swVars>>

(* States 2 and 3: sample the buffer pointer. *)
DtReadPtr ==
  /\ st = "ptr"
  /\ ~Resyncing
  /\ buf' = bdn
  /\ cnt' = 0
  /\ st' = "info"
  /\ UNCHANGED <<lineVars, rxVars, fifoVars, bdn, wrap, pend, len, bad, beats,
                 resync, bds, mem, swVars>>

(* State 4, first half: strobe the info FIFO. *)
DtPopInfo ==
  /\ st = "info"
  /\ ~pend
  /\ ~InfoEmpty
  /\ ird' = ird + 1
  /\ pend' = TRUE
  /\ UNCHANGED <<lineVars, rxVars, hist, rp, rseen, info, pseen, iseen, st,
                 bdn, buf, wrap, len, bad, cnt, beats, resync, bds, mem,
                 swVars>>

(* State 4, second half: latch the word, prefetch the first byte. *)
DtLatchInfo ==
  /\ st = "info"
  /\ pend
  /\ len' = info[ird].len
  /\ bad' = info[ird].bad
  /\ PopByte
  /\ pend' = FALSE
  /\ st' = "aw"
  /\ UNCHANGED <<lineVars, rxVars, hist, rseen, info, ird, pseen, iseen, bdn,
                 buf, wrap, cnt, beats, resync, bds, mem, swVars>>

(* State 5: issue the next write burst ... *)
DtIssueBurst ==
  /\ st = "aw"
  /\ Diff # 0
  /\ beats' = IF MaxBurst < Diff THEN MaxBurst ELSE Diff
  /\ st' = "w"
  /\ UNCHANGED <<lineVars, rxVars, fifoVars, bdn, buf, wrap, pend, len, bad,
                 cnt, resync, bds, mem, swVars>>

(* ... or find that the frame is complete. *)
DtFrameDone ==
  /\ st = "aw"
  /\ Diff = 0
  /\ st' = "stat"
  /\ UNCHANGED <<lineVars, rxVars, fifoVars, bdn, buf, wrap, pend, len, bad,
                 cnt, beats, resync, bds, mem, swVars>>

(* State 6: write the byte last read out of the FIFO at ptr + counter, and *)
(* read the next one unless the frame ends here.                           *)
DtWriteWord ==
  /\ st = "w"
  /\ mem' = [mem EXCEPT ![buf] = Append(SubSeq(@, 1, cnt), hist[rp])]
  /\ cnt' = cnt + 1
  /\ PopNext
  /\ beats' = beats - 1
  /\ st' = IF beats = 1 THEN "aw" ELSE "w"
  /\ UNCHANGED <<lineVars, rxVars, hist, rseen, info, ird, pseen, iseen, bdn,
                 buf, wrap, pend, len, bad, resync, bds, swVars>>

NextRxBdNoWrap == bdn + 1  \* mutant: the ring never wraps

(* The ring wraps on the descriptor's WRAP bit, or where the memory ends. *)
NextRxBd == IF wrap \/ bdn = LastBd THEN base ELSE bdn + 1

(* State 7: on the arbiter's grant, write the descriptor back with its     *)
(* status and with WRAP as it was fetched, and move on.                    *)
DtWriteStatus ==
  /\ st = "stat"
  /\ bds' = [bds EXCEPT ![bdn] =
                 [e |-> FALSE, wrap |-> wrap, len |-> len, bad |-> bad]]
  /\ bdn' = NextRxBd
  /\ st' = "bd"
  /\ UNCHANGED <<lineVars, rxVars, fifoVars, buf, wrap, pend, len, bad, cnt, beats,
                 resync, mem, swVars>>

(* Software wrote TX_BD_NUM: restart at its value, between frames only. *)
DtResync ==
  /\ Resyncing
  /\ bdn' = base
  /\ st' = "bd"
  /\ resync' = FALSE
  /\ UNCHANGED <<lineVars, rxVars, fifoVars, buf, wrap, pend, len, bad, cnt,
                 beats, bds, mem, swVars>>

DataTransfer ==
  \/ DtReadBd \/ DtReadPtr \/ DtPopInfo \/ DtLatchInfo \/ DtIssueBurst
  \/ DtFrameDone \/ DtWriteWord \/ DtWriteStatus \/ DtResync

-----------------------------------------------------------------------------
(* The driver. *)

(* The frame whose first byte stands first in a descriptor's buffer. *)
FrameIn(b) == IF mem[b] = <<>> THEN 0 ELSE mem[b][1][1]

(* The driver's own way round the ring: cur_rx. *)
NextCurRx == IF swcur = last THEN base ELSE swcur + 1

\* mutant: the descriptor is not given back
SwReceiveKeeping ==
  /\ sw = "run"
  /\ ~bds[swcur].e
  /\ got' = IF bds[swcur].bad THEN got ELSE Append(got, FrameIn(swcur))
  /\ swcur' = NextCurRx
  /\ UNCHANGED <<lineVars, rxVars, fifoVars, dtVars, resync, bds, mem, base,
                 last, rxen, sw, inits>>

(* ethoc_rx: hand the frame of a full descriptor to the stack, give the    *)
(* descriptor back with its WRAP bit as it is, step cur_rx.                *)
SwReceive ==
  /\ sw = "run"
  /\ ~bds[swcur].e
  /\ got' = IF bds[swcur].bad THEN got ELSE Append(got, FrameIn(swcur))
  /\ bds' = [bds EXCEPT ![swcur].e = TRUE, ![swcur].bad = FALSE]
  /\ swcur' = NextCurRx
  /\ UNCHANGED <<lineVars, rxVars, fifoVars, dtVars, resync, mem, base, last,
                 rxen, sw, inits>>

(* ethoc_disable_rx_and_tx before a ring change. *)
SwStop ==
  /\ sw = "run"
  /\ inits < MaxReinit
  /\ rxen' = FALSE
  /\ sw' = "stop"
  /\ UNCHANGED <<lineVars, rxVars, fifoVars, dtVars, resync, bds, mem, base,
                 last, swcur, inits, got>>

(* ethoc_set_ringparam and ethoc_init_ring: choose the ring, write          *)
(* TX_BD_NUM, reset cur_rx ...                                             *)
SwSetBdNum ==
  /\ sw = "stop"
  /\ inits < MaxReinit
  /\ base' \in Bases /\ last' \in Lasts /\ base' <= last'
  /\ swcur' = base'
  /\ resync' = TRUE
  /\ sw' = "init"
  /\ inits' = inits + 1
  /\ UNCHANGED <<lineVars, rxVars, fifoVars, dtVars, bds, mem, rxen, got>>

(* ... initialise the receive descriptors one by one, WRAP on the last;    *)
(* then ethoc_enable_rx_and_tx.                                            *)
SwInitBd ==
  /\ sw = "init"
  /\ bds' = [bds EXCEPT ![swcur] = [e |-> TRUE, wrap |-> swcur = last,
                                    len |-> 0, bad |-> FALSE]]
  /\ swcur' = NextCurRx
  /\ IF swcur = last
       THEN sw' = "run" /\ rxen' = TRUE
       ELSE UNCHANGED <<sw, rxen>>
  /\ UNCHANGED <<lineVars, rxVars, fifoVars, dtVars, resync, mem, base, last,
                 inits, got>>

Driver == SwReceive \/ SwStop \/ SwSetBdNum \/ SwInitBd

-----------------------------------------------------------------------------
Init ==
  /\ sent = <<>> /\ dv = FALSE /\ pos = 0
  /\ pc = "hunt" /\ addr = 0 /\ crcFrom = 0
  /\ hist = <<>> /\ rp = 0 /\ rseen = 0
  /\ info = <<>> /\ ird = 0 /\ pseen = 0 /\ iseen = 0
  /\ st = "bd" /\ bdn = ResetBase /\ buf = 0 /\ wrap = FALSE /\ pend = FALSE
  /\ len = 0 /\ bad = FALSE /\ cnt = 0 /\ beats = 0
  /\ resync = FALSE
  /\ bds = [b \in Bd |-> [e |-> FALSE, wrap |-> FALSE, len |-> 0, bad |-> TRUE]]
  /\ mem = [b \in Bd |-> <<>>]
  /\ base = ResetBase /\ last = LastBd /\ rxen = FALSE
  /\ sw = "stop" /\ swcur = ResetBase /\ inits = 0 /\ got = <<>>

Next ==
  \/ Receiver \/ SyncRead \/ SyncInfoRead \/ SyncInfoWrite
  \/ DataTransfer \/ Driver

Spec == Init /\ [][Next]_vars

(* Clocks run, the arbiter and the AXI slave answer, the PHY's line goes   *)
(* on, the driver polls; nobody is obliged to change the ring.             *)
Fairness ==
  /\ WF_vars(Receiver)
  /\ WF_vars(SyncRead) /\ WF_vars(SyncInfoRead) /\ WF_vars(SyncInfoWrite)
  /\ WF_vars(DataTransfer)
  /\ WF_vars(SwReceive) /\ WF_vars(SwSetBdNum) /\ WF_vars(SwInitBd)

FairSpec == Spec /\ Fairness

-----------------------------------------------------------------------------
(***************************************************************************)
(* Properties.                                                             *)
(***************************************************************************)
Byte == Nat \X Nat

LineType ==
  /\ sent \in Seq([n: FrameLens, good: BOOLEAN])
  /\ dv \in BOOLEAN /\ pos \in Nat

RxType ==
  /\ pc \in {"hunt", "da", "pay", "push"}
  /\ addr \in 0..LenMod-1 /\ crcFrom \in Nat

FifoType ==
  /\ hist \in Seq(Byte) /\ rp \in Nat /\ rseen \in Nat
  /\ info \in Seq([start: Nat, len: 0..LenMod-1, bad: BOOLEAN])
  /\ ird \in Nat /\ pseen \in Nat /\ iseen \in Nat

DtType ==
  /\ st \in {"bd", "ptr", "info", "aw", "w", "stat"}
  /\ bdn \in Bd /\ buf \in Bd /\ wrap \in BOOLEAN /\ pend \in BOOLEAN
  /\ len \in 0..LenMod-1 /\ bad \in BOOLEAN /\ cnt \in Nat /\ beats \in Nat
  /\ resync \in BOOLEAN

Desc == [e: BOOLEAN, wrap: BOOLEAN, len: 0..LenMod-1, bad: BOOLEAN]

RingType ==
  /\ bds \in [Bd -> Desc]
  /\ mem \in [Bd -> Seq(Byte)]
  /\ base \in Bd /\ last \in Bd /\ base <= last /\ rxen \in BOOLEAN
  /\ sw \in {"stop", "init", "run"} /\ swcur \in base..last
  /\ inits \in Nat /\ got \in Seq(Nat)

(* Every variable has the values its register or memory can hold. *)
TypeOK == LineType /\ RxType /\ FifoType /\ DtType /\ RingType

(* Frames short enough for the 11-bit byte counter: no frame, with the     *)
(* destination loop's padding before it and one stale byte after it, wraps *)
(* addr_o.                                                                 *)
LegalFrames == \A n \in FrameLens : n + DaLen + 2 < LenMod

(* Bytes accepted up to and including the i-th finished frame. *)
FrameEnd(i) == IF i = 0 THEN 0 ELSE info[i].start + info[i].len

(* The stored length of every frame is the exact number of bytes the data  *)
(* FIFO accepted for it (iob_eth_rx.v:43-45), whatever was dropped under   *)
(* back-pressure: the info words partition the accepted bytes, in order,   *)
(* and the rest belongs to the frame being received.                       *)
LengthTrue ==
  /\ \A i \in 1..Len(info) : info[i].start = FrameEnd(i - 1)
  /\ crcFrom = FrameEnd(Len(info))
  /\ Len(hist) = crcFrom + addr

(* The Data Transfer block strobes the data FIFO without looking at its    *)
(* empty flag (states 4 and 6): it must never do so when it is empty.      *)
NoUnderflow ==
  /\ st = "info" /\ pend => rp < Len(hist)
  /\ st = "w" /\ cnt + 1 < len => rp < Len(hist)

(* A descriptor handed to software without the CRC flag describes, in its  *)
(* buffer, one whole undamaged line frame, across FIFO overruns, runts,    *)
(* receivers that woke up in mid-frame and ring re-initialisations.        *)
DeliveredWhole ==
  \A b \in Bd : ~bds[b].e /\ ~bds[b].bad =>
    CrcOk(SubSeq(mem[b], 1, bds[b].len))

(* A buffer that was handed to software is not written again before        *)
(* software gives it back (the EMPTY bit), ring re-initialisations         *)
(* included: the owner bit is read once per frame (state 1) and the burst  *)
(* writes come much later (state 6).                                       *)
FullBufferKept == [][\A b \in Bd : ~bds[b].e => mem'[b] = mem[b]]_vars

(* Receive path and driver together are a lossy channel of whole frames in *)
(* line order, without duplicates.                                         *)
Channel == INSTANCE FrameChannel
             WITH entered <- [f \in 1..Len(sent) |-> sent[f].good],
                  out <- got
InOrderOnce == Channel!Spec

-----------------------------------------------------------------------------
(* The inductive invariant behind LengthTrue and NoUnderflow. *)

(* The line's position lies in the frame it carries. *)
LineInv ==
  IF dv THEN Len(sent) > 0 /\ pos <= sent[Len(sent)].n ELSE pos = 0

(* How many bytes the frame being received can have so far. *)
AddrInv ==
  /\ pc = "hunt" => addr = 0
  /\ pc = "da" => addr < DaLen
  /\ pc \in {"pay", "push"} => addr >= DaLen
  /\ pc = "pay" /\ dv => addr <= DaLen + pos + 1
  /\ pc = "pay" /\ ~dv => addr = DaLen

(* Finished frames are non-empty and lie before the current one. *)
FramesInv ==
  \A i \in 1..Len(info) : info[i].len > 0 /\ FrameEnd(i) <= crcFrom

(* Synchronised pointers lag, and no FIFO holds more than its capacity. *)
PointerInv ==
  /\ rseen <= rp /\ rp <= Len(hist) /\ Len(hist) <= rseen + Depth
  /\ pseen <= ird /\ ird <= iseen /\ iseen <= Len(info)
  /\ Len(info) <= pseen + InfoDepth

(* Where the Data Transfer block stands in the byte stream. *)
TransferInv ==
  /\ pend => st = "info"
  /\ pend \/ st \in {"aw", "w", "stat"} => ird > 0
  /\ st \in {"aw", "w", "stat"} =>
       len = info[ird].len /\ bad = info[ird].bad /\ cnt <= len
  /\ st \in {"info", "aw", "w", "stat"} => buf = bdn
  /\ st = "info" => cnt = 0
  /\ st = "w" => beats > 0 /\ beats <= len - cnt
  /\ st = "stat" => cnt = len
  /\ rp = IF pend THEN info[ird].start
          ELSE IF st \in {"aw", "w"} /\ cnt < len
            THEN info[ird].start + cnt + 1
            ELSE FrameEnd(ird)

(* The bytes written so far are in the buffer. *)
BufferInv == st \in {"aw", "w", "stat"} => Len(mem[buf]) >= cnt

(* All of it: the byte stream and the stream of lengths never come apart.  *)
Aligned ==
  /\ TypeOK
  /\ LineInv /\ AddrInv
  /\ LengthTrue /\ FramesInv
  /\ PointerInv /\ TransferInv /\ BufferInv

(* The descriptor the Data Transfer block works on is its own. *)
OwnInv == st # "bd" => bds[bdn].e

-----------------------------------------------------------------------------
(* Liveness. *)

(* Every frame finished is out of the FIFOs and given to software, and the *)
(* receiver waits for the next one.                                        *)
Drained ==
  /\ pc = "hunt"
  /\ ird = Len(info) /\ ~Consuming
  /\ \A b \in base..last : bds[b].e

(* Receiver, Data Transfer block and driver never all wait for each other, *)
(* with every queue at its limit: after the MaxFrames frames of a          *)
(* behaviour at the latest no frame is left waiting, neither in the        *)
(* receiver nor in the FIFOs nor in the ring.                              *)
RxProgress == []<>Drained
=============================================================================
