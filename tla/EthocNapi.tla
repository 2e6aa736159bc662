----------------------------- MODULE EthocNapi -----------------------------
(***************************************************************************)
(* Interrupts: the INT_SOURCE and INT_MASK registers of the core           *)
(* (iob_eth.py), and the driver code that lives from them (ethoc): the     *)
(* interrupt handler, the NAPI poll with its two rings, ethoc_start_xmit   *)
(* with the software queue, and the transmit watchdog.                     *)
(*                                                                         *)
(* A driver action is one access to a register or descriptor, or a piece   *)
(* of code between two of them.  The Data Transfer block is seen through   *)
(* what it does to descriptors: the status write of a received or sent     *)
(* frame, which raises the event in the same clock.                        *)
(***************************************************************************)
EXTENDS Naturals, Sequences, FiniteSets

CONSTANTS
  NumRx,      \* num_rx: receive descriptors
  NumTx,      \* num_tx: transmit descriptors, a power of two
  Budget,     \* the NAPI weight handed to ethoc_poll
  Cpus,       \* the CPUs: on several, handlers and polls interleave
  AllocFails, \* may netdev_alloc_skb_ip_align fail?
  MaxRx,      \* bound: frames received in a behaviour
  MaxTx       \* bound: frames sent in a behaviour

ASSUME ConstAssumption ==
  /\ NumRx \in Nat \ {0}
  /\ NumTx \in Nat \ {0}
  /\ Budget \in Nat \ {0}
  /\ Cpus # {} /\ AllocFails \in BOOLEAN
  /\ MaxRx \in Nat /\ MaxTx \in Nat

VARIABLES
  src,     \* int_source, its bits rx and tx
  mask,    \* int_mask
  rxd,     \* receive descriptors: 0 if EMPTY, else the number of its frame
  txr,     \* READY bits of the transmit descriptors
  rxlog,   \* frames received: is the frame undamaged?
  sent,    \* frames sent
  isr,     \* ethoc_interrupt, run by the irq and by the watchdog timer
  pend,    \* its local variables mask, then pending
  imask,   \* its copy of INT_MASK in ethoc_disable_irq
  sched,   \* NAPI_STATE_SCHED
  missed,  \* NAPI_STATE_MISSED
  listed,  \* is the napi on a poll list?
  on,      \* the CPU whose poll list it is or was on
  pc,      \* where ethoc_poll is, up to napi_complete_done
  tail,    \* for each CPU: where the end of ethoc_poll, ethoc_enable_irq, is
  pmask,   \* its copy of INT_MASK there
  rxWork, txWork,  \* rx_work_done, tx_work_done
  curRx,   \* cur_rx
  cur,     \* cur_tx
  dty,     \* dty_tx
  stopped, \* netif_queue_stopped
  xm,      \* where ethoc_start_xmit is
  out      \* frames handed to the stack

hwVars   == <<rxlog, sent>>
isrVars  == <<isr, pend, imask>>
pollVars == <<pc, rxWork, txWork>>
tailVars == <<tail, pmask>>
napiVars == <<sched, missed, listed, on>>
xmVars   == <<cur, stopped, xm>>
rxVars   == <<curRx, out>>

vars == <<src, mask, rxd, txr, hwVars, isrVars, napiVars, pollVars, tailVars,
          dty, xmVars, rxVars>>

Smp == \E a, b \in Cpus : a # b

Events   == {"rx", "tx"}
Contexts == {"irq", "timer"}

-----------------------------------------------------------------------------
(* The core. *)

(* Status write of a received frame; a descriptor that is not EMPTY makes  *)
(* the Data Transfer block wait.                                           *)
HwReceive ==
  /\ Len(rxlog) < MaxRx
  /\ rxd[Len(rxlog) % NumRx] = 0
  /\ \E good \in BOOLEAN : rxlog' = Append(rxlog, good)
  /\ rxd' = [rxd EXCEPT ![Len(rxlog) % NumRx] = Len(rxlog) + 1]
  /\ src' = src \cup {"rx"}
  /\ UNCHANGED <<mask, txr, sent, isrVars, napiVars, pollVars, tailVars, dty,
                 xmVars, rxVars>>

(* Status write of a sent frame. *)
HwSend ==
  /\ txr[sent % NumTx]
  /\ txr' = [txr EXCEPT ![sent % NumTx] = FALSE]
  /\ sent' = sent + 1
  /\ src' = src \cup {"tx"}
  /\ UNCHANGED <<mask, rxd, rxlog, isrVars, napiVars, pollVars, tailVars, dty,
                 xmVars, rxVars>>

Inta == src \cap mask # {}

AckAll(bits) == src' = {}  \* mutant: a write clears every bit
(* INT_SOURCE is write-one-to-clear. *)
Ack(bits) == src' = src \ bits

-----------------------------------------------------------------------------
(* ethoc_interrupt. *)

(* Entered from the interrupt line, or from ethoc_tx_timeout, which the    *)
(* watchdog calls while the queue is stopped and which looks at the        *)
(* sources, masked or not.  It reads the mask ...                          *)
IsrEnter(c) ==
  /\ isr[c] = "idle"
  /\ c = "irq" => Inta
  /\ c = "timer" => stopped /\ src # {}
  /\ pend' = [pend EXCEPT ![c] = mask]
  /\ isr' = [isr EXCEPT ![c] = "source"]
  /\ UNCHANGED <<src, mask, imask, rxd, txr, hwVars, napiVars, pollVars,
                 tailVars, dty, xmVars, rxVars>>

(* ... and the sources, and returns if nothing unmasked is pending.        *)
IsrReadSource(c) ==
  /\ isr[c] = "source"
  /\ pend' = [pend EXCEPT ![c] = @ \cap src]
  /\ isr' = [isr EXCEPT ![c] = IF pend[c] \cap src = {} THEN "idle" ELSE "ack"]
  /\ UNCHANGED <<src, mask, imask, rxd, txr, hwVars, napiVars, pollVars,
                 tailVars, dty, xmVars, rxVars>>

IsrAck(c) ==
  /\ isr[c] = "ack"
  /\ Ack(pend[c])
  /\ pend' = [pend EXCEPT ![c] = {}]
  /\ isr' = [isr EXCEPT ![c] = "read"]
  /\ UNCHANGED <<mask, imask, rxd, txr, hwVars, napiVars, pollVars, tailVars,
                 dty, xmVars, rxVars>>

(* ethoc_disable_irq: read INT_MASK ... *)
IsrReadMask(c) ==
  /\ isr[c] = "read"
  /\ imask' = [imask EXCEPT ![c] = mask]
  /\ isr' = [isr EXCEPT ![c] = "write"]
  /\ UNCHANGED <<src, mask, pend, rxd, txr, hwVars, napiVars, pollVars,
                 tailVars, dty, xmVars, rxVars>>

(* ... and write it back without the frame events. *)
IsrWriteMask(c) ==
  /\ isr[c] = "write"
  /\ mask' = imask[c] \ Events
  /\ imask' = [imask EXCEPT ![c] = {}]
  /\ isr' = [isr EXCEPT ![c] = "sched"]
  /\ UNCHANGED <<src, pend, rxd, txr, hwVars, napiVars, pollVars, tailVars,
                 dty, xmVars, rxVars>>

(* napi_schedule: once, on the poll list of the CPU that calls it; a second *)
(* call before the poll completes is noted.                                *)
NapiSchedule ==
  IF sched
    THEN missed' = TRUE /\ UNCHANGED <<sched, listed, on>>
    ELSE sched' = TRUE /\ listed' = TRUE /\ on' \in Cpus /\ UNCHANGED missed

IsrSchedule(c) ==
  /\ isr[c] = "sched"
  /\ NapiSchedule
  /\ isr' = [isr EXCEPT ![c] = "idle"]
  /\ UNCHANGED <<src, mask, pend, imask, rxd, txr, hwVars, pollVars, tailVars,
                 dty, xmVars, rxVars>>

NoIsr == \A c \in Contexts : isr[c] = "idle"

NoPoll == pc = "idle" /\ \A k \in Cpus : tail[k] = "none"

(* On one CPU the interrupt waits for ethoc_start_xmit to give its         *)
(* spin_lock_irq back, and the watchdog (a soft interrupt) for everybody.  *)
IsrMayRun(c) ==
  \/ Smp
  \/ c = "irq" /\ xm = "idle"
  \/ c = "timer" /\ isr["irq"] = "idle" /\ NoPoll /\ xm = "idle"

Isr(c) ==
  /\ IsrMayRun(c)
  /\ \/ IsrEnter(c) \/ IsrReadSource(c) \/ IsrAck(c)
     \/ IsrReadMask(c) \/ IsrWriteMask(c) \/ IsrSchedule(c)

-----------------------------------------------------------------------------
(* ethoc_poll. *)

(* The soft interrupt of the CPU calls ethoc_poll; if the last call on this *)
(* CPU has not returned yet, after that.                                   *)
PollStart ==
  /\ pc = "idle"
  /\ listed
  /\ tail[on] = "none"
  /\ pc' = "rx"
  /\ UNCHANGED <<src, mask, rxd, txr, hwVars, isrVars, napiVars, tailVars,
                 rxWork, txWork, dty, xmVars, rxVars>>

RxRead ==
  /\ pc = "rx"
  /\ pc' = IF rxWork = Budget THEN "tx"
           ELSE IF rxd[curRx] = 0 THEN "rxack" ELSE "take"
  /\ UNCHANGED <<src, mask, rxd, txr, hwVars, isrVars, napiVars, tailVars,
                 rxWork, txWork, dty, xmVars, rxVars>>

RxAck ==
  /\ pc = "rxack"
  /\ Ack({"rx"})
  /\ pc' = "rxchk"
  /\ UNCHANGED <<mask, rxd, txr, hwVars, isrVars, napiVars, tailVars, rxWork,
                 txWork, dty, xmVars, rxVars>>

\* mutant: no second look after the acknowledgement
RxRecheckBlind ==
  /\ pc = "rxchk"
  /\ pc' = "tx"
  /\ UNCHANGED <<src, mask, rxd, txr, hwVars, isrVars, napiVars, tailVars,
                 rxWork, txWork, dty, xmVars, rxVars>>

(* A frame may have come between the look and the acknowledgement. *)
RxRecheck ==
  /\ pc = "rxchk"
  /\ pc' = IF rxd[curRx] = 0 THEN "tx" ELSE "take"
  /\ UNCHANGED <<src, mask, rxd, txr, hwVars, isrVars, napiVars, tailVars,
                 rxWork, txWork, dty, xmVars, rxVars>>

(* No memory for an undamaged frame: leave it where it is, end the loop.   *)
RxNoMemory ==
  /\ pc = "take"
  /\ AllocFails
  /\ rxlog[rxd[curRx]]
  /\ pc' = "tx"
  /\ UNCHANGED <<src, mask, rxd, txr, hwVars, isrVars, napiVars, tailVars,
                 rxWork, txWork, dty, xmVars, rxVars>>

NextRxLate == IF curRx = NumRx THEN 0 ELSE curRx + 1  \* mutant: off by one
NextRx == IF curRx + 1 = NumRx THEN 0 ELSE curRx + 1

\* mutant: the descriptor is not given back
RxTakeKeeping ==
  /\ pc = "take"
  /\ out' = IF rxlog[rxd[curRx]] THEN Append(out, rxd[curRx]) ELSE out
  /\ curRx' = NextRx
  /\ rxWork' = rxWork + 1
  /\ pc' = "rx"
  /\ UNCHANGED <<src, mask, rxd, txr, hwVars, isrVars, napiVars, tailVars,
                 txWork, dty, xmVars>>

(* Hand an undamaged frame up, give the descriptor back. *)
RxTake ==
  /\ pc = "take"
  /\ out' = IF rxlog[rxd[curRx]] THEN Append(out, rxd[curRx]) ELSE out
  /\ rxd' = [rxd EXCEPT ![curRx] = 0]
  /\ curRx' = NextRx
  /\ rxWork' = rxWork + 1
  /\ pc' = "rx"
  /\ UNCHANGED <<src, mask, txr, hwVars, isrVars, napiVars, tailVars, txWork,
                 dty, xmVars>>

TxDoneReadyOnly == txr[dty % NumTx]  \* mutant: cur_tx is not looked at
(* Nothing to reclaim: the descriptor is READY, or none is outstanding. *)
TxNothing == txr[dty % NumTx] \/ dty = cur

TxRead ==
  /\ pc = "tx"
  /\ pc' = IF txWork = Budget THEN "half"
           ELSE IF TxNothing THEN "txack" ELSE "reclaim"
  /\ UNCHANGED <<src, mask, rxd, txr, hwVars, isrVars, napiVars, tailVars,
                 rxWork, txWork, dty, xmVars, rxVars>>

TxAck ==
  /\ pc = "txack"
  /\ Ack({"tx"})
  /\ pc' = "txchk"
  /\ UNCHANGED <<mask, rxd, txr, hwVars, isrVars, napiVars, tailVars, rxWork,
                 txWork, dty, xmVars, rxVars>>

\* mutant: no second look after the acknowledgement
TxRecheckBlind ==
  /\ pc = "txchk"
  /\ pc' = "half"
  /\ UNCHANGED <<src, mask, rxd, txr, hwVars, isrVars, napiVars, tailVars,
                 rxWork, txWork, dty, xmVars, rxVars>>

TxRecheck ==
  /\ pc = "txchk"
  /\ pc' = IF TxNothing THEN "half" ELSE "reclaim"
  /\ UNCHANGED <<src, mask, rxd, txr, hwVars, isrVars, napiVars, tailVars,
                 rxWork, txWork, dty, xmVars, rxVars>>

TxReclaim ==
  /\ pc = "reclaim"
  /\ dty' = dty + 1
  /\ txWork' = txWork + 1
  /\ pc' = "tx"
  /\ UNCHANGED <<src, mask, rxd, txr, hwVars, isrVars, napiVars, tailVars,
                 rxWork, xmVars, rxVars>>

(* At most half of the ring is outstanding. *)
HalfFree == cur - dty <= NumTx \div 2

TxHalf ==
  /\ pc = "half"
  /\ pc' = IF HalfFree THEN "wake" ELSE "end"
  /\ UNCHANGED <<src, mask, rxd, txr, hwVars, isrVars, napiVars, rxWork,
                 txWork, tailVars, dty, xmVars, rxVars>>

(* netif_wake_queue, on what was found a moment ago. *)
TxWake ==
  /\ pc = "wake"
  /\ stopped' = FALSE
  /\ pc' = "end"
  /\ UNCHANGED <<src, mask, rxd, txr, hwVars, isrVars, napiVars, rxWork,
                 txWork, tailVars, dty, cur, xm, rxVars>>

PollDone == rxWork < Budget /\ txWork < Budget

(* napi_complete_done: off the list, unless it was scheduled meanwhile;    *)
(* then it stays on the list of this CPU.                                  *)
NapiComplete ==
  /\ sched' = missed
  /\ listed' = missed
  /\ missed' = FALSE
  /\ UNCHANGED on

(* From here on another CPU may start the next poll. *)
PollComplete ==
  /\ pc = "end"
  /\ PollDone
  /\ NapiComplete
  /\ rxWork' = 0 /\ txWork' = 0
  /\ pc' = "idle"
  /\ tail' = [tail EXCEPT ![on] = "read"]
  /\ UNCHANGED <<src, mask, rxd, txr, hwVars, isrVars, pmask, dty, xmVars,
                 rxVars>>

(* Not complete: ethoc_poll returns rx_work_done, and the NAPI core keeps  *)
(* the napi on its list only if that is the whole budget.                  *)
PollReturn ==
  /\ pc = "end"
  /\ ~PollDone
  /\ listed' = (rxWork = Budget)
  /\ rxWork' = 0 /\ txWork' = 0
  /\ pc' = "idle"
  /\ UNCHANGED <<src, mask, rxd, txr, hwVars, isrVars, sched, missed, on,
                 tailVars, dty, xmVars, rxVars>>

(* ethoc_enable_irq: read INT_MASK ... *)
PollReadMask(k) ==
  /\ tail[k] = "read"
  /\ pmask' = [pmask EXCEPT ![k] = mask]
  /\ tail' = [tail EXCEPT ![k] = "write"]
  /\ UNCHANGED <<src, mask, rxd, txr, hwVars, isrVars, napiVars, pollVars, dty,
                 xmVars, rxVars>>

(* ... and write it back with the frame events. *)
PollWriteMask(k) ==
  /\ tail[k] = "write"
  /\ mask' = pmask[k] \cup Events
  /\ pmask' = [pmask EXCEPT ![k] = {}]
  /\ tail' = [tail EXCEPT ![k] = "none"]
  /\ UNCHANGED <<src, rxd, txr, hwVars, isrVars, napiVars, pollVars, dty,
                 xmVars, rxVars>>

(* On one CPU the poll waits for interrupt handlers and ethoc_start_xmit.  *)
Poll ==
  /\ Smp \/ (NoIsr /\ xm = "idle")
  /\ \/ PollStart \/ RxRead \/ RxAck \/ RxRecheck \/ RxNoMemory \/ RxTake
     \/ TxRead \/ TxAck \/ TxRecheck \/ TxReclaim \/ TxHalf \/ TxWake
     \/ PollComplete \/ PollReturn
     \/ \E k \in Cpus : PollReadMask(k) \/ PollWriteMask(k)

-----------------------------------------------------------------------------
(* ethoc_start_xmit, called while the queue is not stopped. *)
XmitEnter ==
  /\ xm = "idle"
  /\ ~stopped
  /\ cur < MaxTx
  /\ cur' = cur + 1
  /\ xm' = "ready"
  /\ UNCHANGED <<src, mask, rxd, txr, hwVars, isrVars, napiVars, pollVars,
                 tailVars, dty, stopped, rxVars>>

XmitReady ==
  /\ xm = "ready"
  /\ txr' = [txr EXCEPT ![(cur - 1) % NumTx] = TRUE]
  /\ xm' = "full"
  /\ UNCHANGED <<src, mask, rxd, hwVars, isrVars, napiVars, pollVars, tailVars,
                 dty, cur, stopped, rxVars>>

RingFull == cur = dty + NumTx

XmitFull ==
  /\ xm = "full"
  /\ xm' = IF RingFull THEN "stop" ELSE "idle"
  /\ UNCHANGED <<src, mask, rxd, txr, hwVars, isrVars, napiVars, pollVars,
                 tailVars, dty, cur, stopped, rxVars>>

(* netif_stop_queue, on what was found a moment ago. *)
XmitStop ==
  /\ xm = "stop"
  /\ stopped' = TRUE
  /\ xm' = "idle"
  /\ UNCHANGED <<src, mask, rxd, txr, hwVars, isrVars, napiVars, pollVars,
                 tailVars, dty, cur, rxVars>>

Xmit ==
  /\ Smp \/ (NoIsr /\ NoPoll)
  /\ XmitEnter \/ XmitReady \/ XmitFull \/ XmitStop

-----------------------------------------------------------------------------
RxBd == 0..NumRx-1
TxBd == 0..NumTx-1

(* After ethoc_open: rings empty, both events enabled. *)
Init ==
  /\ src = {} /\ mask = Events
  /\ rxd = [b \in RxBd |-> 0] /\ txr = [b \in TxBd |-> FALSE]
  /\ rxlog = <<>> /\ sent = 0
  /\ isr = [c \in Contexts |-> "idle"] /\ pend = [c \in Contexts |-> {}]
  /\ imask = [c \in Contexts |-> {}]
  /\ sched = FALSE /\ missed = FALSE /\ listed = FALSE
  /\ on \in Cpus
  /\ pc = "idle" /\ rxWork = 0 /\ txWork = 0
  /\ tail = [k \in Cpus |-> "none"] /\ pmask = [k \in Cpus |-> {}]
  /\ curRx = 0 /\ cur = 0 /\ dty = 0 /\ stopped = FALSE /\ xm = "idle"
  /\ out = <<>>

Next ==
  HwReceive \/ HwSend \/ (\E c \in Contexts : Isr(c)) \/ Poll \/ Xmit

Spec == Init /\ [][Next]_vars

(* A raised interrupt is taken, READY frames leave, and soft interrupts    *)
(* run, also if the watchdog keeps finding masked events (it fires every   *)
(* few seconds); nobody is obliged to send, and the watchdog need not      *)
(* fire.                                                                   *)
Fairness ==
  /\ WF_vars(HwSend) /\ WF_vars(Isr("irq")) /\ SF_vars(Poll)
  /\ WF_vars(xm # "idle" /\ Xmit)
  /\ WF_vars(isr["timer"] # "idle" /\ Isr("timer"))

FairSpec == Spec /\ Fairness

-----------------------------------------------------------------------------
(***************************************************************************)
(* Properties.                                                             *)
(***************************************************************************)

(* Every variable has the values its register or C variable can hold. *)
TypeOK ==
  /\ src \subseteq Events /\ mask \subseteq Events
  /\ rxd \in [RxBd -> Nat] /\ txr \in [TxBd -> BOOLEAN]
  /\ rxlog \in Seq(BOOLEAN) /\ sent \in Nat
  /\ isr \in [Contexts -> {"idle", "source", "ack", "read", "write", "sched"}]
  /\ pend \in [Contexts -> SUBSET Events]
  /\ imask \in [Contexts -> SUBSET Events]
  /\ sched \in BOOLEAN /\ missed \in BOOLEAN /\ listed \in BOOLEAN
  /\ on \in Cpus
  /\ pc \in {"idle", "rx", "rxack", "rxchk", "take", "tx", "txack", "txchk",
             "reclaim", "half", "wake", "end"}
  /\ rxWork \in 0..Budget /\ txWork \in 0..Budget
  /\ tail \in [Cpus -> {"none", "read", "write"}]
  /\ pmask \in [Cpus -> SUBSET Events]
  /\ curRx \in RxBd /\ cur \in Nat /\ dty \in Nat /\ stopped \in BOOLEAN
  /\ xm \in {"idle", "ready", "full", "stop"}
  /\ out \in Seq(Nat)

(* Undamaged frames reach the stack in the order of reception, at most     *)
(* once, whatever the interrupts do in between.                            *)
Channel == INSTANCE FrameChannel WITH entered <- rxlog, out <- out
InOrderOnce == Channel!Spec

(* dty_tx counts frames "actually sent" (ethoc-7.0.6.c:196): ethoc_tx      *)
(* takes a descriptor without READY for a sent one, ethoc_start_xmit moves *)
(* cur_tx before it sets READY.                                            *)
DtySent == dty <= sent

(* And the ring never holds more than it has room for.                     *)
SentIsSent == DtySent /\ sent <= cur /\ cur <= dty + NumTx

(* No wake-up is lost: when driver and NAPI are at rest, the frame events  *)
(* are enabled, and a descriptor that waits for the driver has its event   *)
(* pending (the comments in ethoc_rx and ethoc_tx,                         *)
(* ethoc-7.0.6.c:445-450 and 539-545).                                     *)
AtRest == NoPoll /\ ~sched /\ NoIsr
NoLostReceive == AtRest /\ rxd[curRx] # 0 => "rx" \in src
NoLostSend == AtRest /\ xm = "idle" /\ ~TxNothing => "tx" \in src
EventsEnabled == AtRest => mask = Events

(* The part that holds when a frame may be kept for want of memory and     *)
(* every context runs on a CPU of its own.                                 *)
TransmitAwake == NoLostSend /\ EventsEnabled

NoLostWakeup == NoLostReceive /\ NoLostSend /\ EventsEnabled

(* Every undamaged frame received reaches the stack. *)
EveryFrameDelivered ==
  \A f \in 1..MaxRx :
    Len(rxlog) >= f /\ rxlog[f] ~> \E i \in 1..Len(out) : out[i] = f

(* Every frame submitted is sent and reclaimed. *)
EveryFrameReclaimed == \A f \in 1..MaxTx : cur >= f ~> dty >= f

(* A stopped queue is woken. *)
QueueWoken == []<>~stopped

(* Both: the transmit side never comes to a standstill. *)
TxProgress == EveryFrameReclaimed /\ QueueWoken

=============================================================================
