-------------------------- MODULE EthocNapiProofs --------------------------
(***************************************************************************)
(* For rings of any size, any budget, any number of CPUs and of frames: no *)
(* wake-up is lost, and frames reach the stack once, in order.  On one CPU *)
(* the transmit rings of the driver and of the core agree.                 *)
(*                                                                         *)
(* A wake-up is never in one place: it is in INT_SOURCE until somebody     *)
(* acknowledges it, then in the program counter of a handler on its way to *)
(* napi_schedule, then in the flags of NAPI, then in the fact that the     *)
(* poll has still to look.  SendInv and ReceiveInv say that it is always   *)
(* in one of these places; every action hands it from one to the next.     *)
(***************************************************************************)
EXTENDS EthocNapi, RingArithmetic

(* The inductive invariant. *)

(* A poll that goes on taking frames has not used up its budget. *)
WorkInv ==
  /\ pc \in {"rxack", "rxchk", "take"} => rxWork < Budget
  /\ pc \in {"txack", "txchk", "reclaim"} => txWork < Budget

(* NAPI: who is listed, running or called again is scheduled.  The flag is *)
(* given back before ethoc_enable_irq, the tail of the poll.               *)
SchedInv ==
  /\ pc # "idle" => sched
  /\ listed \/ missed => sched

(* The transmit ring, on any number of CPUs: dty_tx does not overtake      *)
(* cur_tx.                                                                 *)
RingInv ==
  /\ dty <= cur
  /\ xm # "idle" => cur > 0
  /\ pc = "reclaim" => dty < cur

(* On one CPU they are never more than the ring apart: the queue is        *)
(* stopped in time, and woken only while half of the ring is free.         *)
RoomInv ==
  /\ cur <= dty + NumTx
  /\ xm = "idle" /\ ~stopped => cur < dty + NumTx
  /\ pc = "wake" => HalfFree

(* Somebody is on his way to napi_schedule, or was there. *)
WillPoll == missed \/ \E c \in Contexts : isr[c] \in {"read", "write", "sched"}

(* Frame events are masked only if somebody is still to enable them. *)
MaskInv ==
  mask # Events =>
    \/ sched
    \/ \E k \in Cpus : tail[k] # "none"
    \/ \E c \in Contexts : isr[c] = "sched"

(* The oldest descriptor outstanding is sent, but not reclaimed.  (Between *)
(* the increment of cur_tx and the write of READY there is none to see.)   *)
TxPending == ~TxNothing /\ ~(xm = "ready" /\ dty = cur - 1)

(* It has its event pending, or will be looked at: by the poll that was    *)
(* promised, or by the one that runs, as long as it has not decided to end *)
(* (or will not complete, its budget used up).                             *)
SendInv ==
  TxPending =>
    \/ "tx" \in src
    \/ WillPoll
    \/ sched /\ (pc \in {"half", "wake", "end"} => ~PollDone)

(* The same for a frame in the next receive descriptor. *)
ReceiveInv ==
  rxd[curRx] # 0 =>
    \/ "rx" \in src
    \/ WillPoll
    \/ /\ sched
       /\ pc \in {"tx", "txack", "txchk", "reclaim", "half", "wake", "end"} => ~PollDone

(* On one CPU ethoc_start_xmit and ethoc_poll do not interleave. *)
OneAtATime == xm = "idle" \/ NoPoll

(* The descriptors of a frame. *)
RxSlot(f) == Slot(NumRx)[f]
TxSlot(f) == Slot(NumTx)[f]

(* Frames whose READY bit was written. *)
Ready == IF xm = "ready" THEN cur - 1 ELSE cur

(* The transmit descriptors: READY from the oldest frame not sent to the   *)
(* youngest written, not READY in the rest of the ring.                    *)
ReadyInv ==
  /\ dty <= sent /\ sent <= Ready
  /\ pc = "reclaim" => dty < sent
  /\ \A f \in sent..Ready-1 : txr[TxSlot(f)]
  /\ \A f \in Ready..sent+NumTx-1 : ~txr[TxSlot(f)]

(* The receive descriptors when r frames have been taken: the frames that  *)
(* have not, in order, and EMPTY descriptors in the rest of the ring.      *)
Taken(r) ==
  /\ curRx = RxSlot(r)
  /\ Len(rxlog) <= r + NumRx
  /\ \A f \in r..Len(rxlog)-1 : rxd[RxSlot(f)] = f + 1
  /\ \A f \in Len(rxlog)..r+NumRx-1 : rxd[RxSlot(f)] = 0
  /\ \A i \in DOMAIN out : out[i] <= r

RxRingInv ==
  /\ \E r \in 0..Len(rxlog) : Taken(r)
  /\ pc = "take" => rxd[curRx] # 0

-----------------------------------------------------------------------------
(* What the constants are. *)
LEMMA ConstFacts ==
  /\ NumRx \in Nat \ {0} /\ NumTx \in Nat \ {0} /\ Budget \in Nat \ {0}
  /\ Cpus # {} /\ AllocFails \in BOOLEAN
  /\ RxBd = 0..NumRx-1 /\ TxBd = 0..NumTx-1
BY ConstAssumption DEF RxBd, TxBd

(* Frames less than a ring apart have different descriptors, frames a ring *)
(* apart the same; the pointer runs through them in order.                 *)
LEMMA RxSlots ==
  /\ \A a \in Nat : RxSlot(a) \in RxBd
  /\ \A a, b \in Nat : a < b /\ b < a + NumRx => RxSlot(a) # RxSlot(b)
  /\ \A a \in Nat : RxSlot(a + NumRx) = RxSlot(a)
  /\ \A a \in Nat : RxSlot(a + 1) = IF RxSlot(a) + 1 = NumRx THEN 0 ELSE RxSlot(a) + 1
  /\ RxSlot(0) = 0
BY ConstFacts, SlotFacts, Zenon DEF RxSlot

(* A receive slot is the remainder by the size of the ring. *)
LEMMA RxSlotIs ==
  ASSUME NEW a \in Nat
  PROVE  a % NumRx = RxSlot(a)
BY ConstFacts, SlotFacts, Zenon DEF RxSlot

(* The slots of the transmit ring. *)
LEMMA TxSlots ==
  /\ \A a \in Nat : TxSlot(a) \in TxBd
  /\ \A a, b \in Nat : a < b /\ b < a + NumTx => TxSlot(a) # TxSlot(b)
  /\ \A a \in Nat : TxSlot(a + NumTx) = TxSlot(a)
BY ConstFacts, SlotFacts, Zenon DEF TxSlot

(* A transmit slot is the remainder by the size of the ring. *)
LEMMA TxSlotIs ==
  ASSUME NEW a \in Nat
  PROVE  a % NumTx = TxSlot(a)
BY ConstFacts, SlotFacts, Zenon DEF TxSlot

(* Types, and the work counters stay within the budget. *)
LEMMA TypeStep ==
  ASSUME TypeOK, WorkInv, [Next]_vars
  PROVE  TypeOK' /\ WorkInv'
<1> USE DEF hwVars, isrVars, napiVars, pollVars, tailVars, xmVars, rxVars
<1>1. CASE HwReceive
  BY <1>1, ConstFacts, SMTT(40) DEF TypeOK, WorkInv, Events, Contexts, HwReceive
<1>2. CASE HwSend
  BY <1>2, ConstFacts DEF TypeOK, WorkInv, Events, Contexts, HwSend
<1>3. ASSUME NEW c \in Contexts, IsrEnter(c) PROVE TypeOK' /\ WorkInv'
  BY <1>3, ConstFacts DEF TypeOK, WorkInv, Events, Contexts, IsrEnter, Inta
<1>4. ASSUME NEW c \in Contexts, IsrReadSource(c) PROVE TypeOK' /\ WorkInv'
  BY <1>4, ConstFacts DEF TypeOK, WorkInv, Events, Contexts, IsrReadSource
<1>5. ASSUME NEW c \in Contexts, IsrAck(c) PROVE TypeOK' /\ WorkInv'
  BY <1>5, ConstFacts, ZenonT(60) DEF TypeOK, WorkInv, Events, Contexts, IsrAck, Ack
<1>6. ASSUME NEW c \in Contexts, IsrReadMask(c) PROVE TypeOK' /\ WorkInv'
  BY <1>6, ConstFacts DEF TypeOK, WorkInv, Events, Contexts, IsrReadMask
<1>7. ASSUME NEW c \in Contexts, IsrWriteMask(c) PROVE TypeOK' /\ WorkInv'
  BY <1>7, ConstFacts DEF TypeOK, WorkInv, Events, Contexts, IsrWriteMask
<1>8. ASSUME NEW c \in Contexts, IsrSchedule(c) PROVE TypeOK' /\ WorkInv'
  BY <1>8, ConstFacts, ZenonT(60) DEF TypeOK, WorkInv, Events, Contexts, IsrSchedule,
     NapiSchedule
<1>9. CASE PollStart
  BY <1>9, ConstFacts DEF TypeOK, WorkInv, Events, Contexts, PollStart
<1>10. CASE RxRead
  BY <1>10, ConstFacts DEF TypeOK, WorkInv, Events, Contexts, RxRead
<1>11. CASE RxAck
  BY <1>11, ConstFacts DEF TypeOK, WorkInv, Events, Contexts, RxAck, Ack
<1>12. CASE RxRecheck
  BY <1>12, ConstFacts DEF TypeOK, WorkInv, Events, Contexts, RxRecheck
<1>13. CASE RxNoMemory
  BY <1>13, ConstFacts DEF TypeOK, WorkInv, Events, Contexts, RxNoMemory
<1>14. CASE RxTake
  BY <1>14, ConstFacts DEF TypeOK, WorkInv, Events, Contexts, RxTake, NextRx
<1>15. CASE TxRead
  BY <1>15, ConstFacts DEF TypeOK, WorkInv, Events, Contexts, TxRead,
     TxNothing
<1>16. CASE TxAck
  BY <1>16, ConstFacts DEF TypeOK, WorkInv, Events, Contexts, TxAck, Ack
<1>17. CASE TxRecheck
  BY <1>17, ConstFacts DEF TypeOK, WorkInv, Events, Contexts, TxRecheck,
     TxNothing
<1>18. CASE TxReclaim
  BY <1>18, ConstFacts DEF TypeOK, WorkInv, Events, Contexts, TxReclaim
<1>19. CASE TxWake
  BY <1>19, ConstFacts DEF TypeOK, WorkInv, Events, Contexts, TxWake
<1>20. CASE PollComplete
  <2>1. sched' \in BOOLEAN /\ listed' \in BOOLEAN /\ missed' \in BOOLEAN
    BY <1>20, Zenon DEF TypeOK, PollComplete, NapiComplete
  <2>2. rxWork' \in 0..Budget /\ txWork' \in 0..Budget /\ pc' = "idle"
    BY <1>20, ConstFacts DEF PollComplete
  <2>3. on' \in Cpus /\ tail' \in [Cpus -> {"none", "read", "write"}]
    BY <1>20 DEF TypeOK, PollComplete, NapiComplete
  <2> QED BY <1>20, <2>1, <2>2, <2>3 DEF TypeOK, WorkInv, PollComplete
<1>21. CASE PollReturn
  BY <1>21, ConstFacts DEF TypeOK, WorkInv, Events, Contexts, PollReturn,
     PollDone
<1>22. ASSUME NEW k \in Cpus, PollReadMask(k) PROVE TypeOK' /\ WorkInv'
  BY <1>22, ConstFacts DEF TypeOK, WorkInv, Events, Contexts, PollReadMask
<1>23. ASSUME NEW k \in Cpus, PollWriteMask(k) PROVE TypeOK' /\ WorkInv'
  BY <1>23, ConstFacts DEF TypeOK, WorkInv, Events, Contexts, PollWriteMask
<1>24. CASE XmitEnter
  BY <1>24, ConstFacts DEF TypeOK, WorkInv, Events, Contexts, XmitEnter
<1>25. CASE XmitReady
  BY <1>25, ConstFacts DEF TypeOK, WorkInv, Events, Contexts, XmitReady
<1>26. CASE XmitStop
  BY <1>26, ConstFacts DEF TypeOK, WorkInv, Events, Contexts, XmitStop
<1>27. CASE UNCHANGED vars
  BY <1>27, ConstFacts DEF TypeOK, WorkInv, Events, Contexts, vars
<1>28. CASE TxHalf
  BY <1>28, ConstFacts DEF TypeOK, WorkInv, Events, Contexts, TxHalf, HalfFree
<1>29. CASE XmitFull
  BY <1>29, ConstFacts DEF TypeOK, WorkInv, Events, Contexts, XmitFull, RingFull
<1> QED BY <1>1, <1>2, <1>3, <1>4, <1>5, <1>6, <1>7, <1>8, <1>9, <1>10,
           <1>11, <1>12, <1>13, <1>14, <1>15, <1>16, <1>17, <1>18, <1>19,
           <1>20, <1>21, <1>22, <1>23, <1>24, <1>25, <1>26, <1>27, <1>28,
           <1>29 DEF Next, Isr, Poll, Xmit

(* The flags of NAPI. *)
LEMMA SchedStep ==
  ASSUME TypeOK, SchedInv, [Next]_vars
  PROVE  SchedInv'
<1> USE DEF hwVars, isrVars, napiVars, pollVars, tailVars, xmVars, rxVars
<1>1. CASE HwReceive
  BY <1>1 DEF TypeOK, SchedInv, HwReceive
<1>2. CASE HwSend
  BY <1>2 DEF TypeOK, SchedInv, HwSend
<1>3. ASSUME NEW c \in Contexts, IsrEnter(c) PROVE SchedInv'
  BY <1>3 DEF TypeOK, SchedInv, IsrEnter, Inta
<1>4. ASSUME NEW c \in Contexts, IsrReadSource(c) PROVE SchedInv'
  BY <1>4 DEF TypeOK, SchedInv, IsrReadSource
<1>5. ASSUME NEW c \in Contexts, IsrAck(c) PROVE SchedInv'
  BY <1>5 DEF TypeOK, SchedInv, IsrAck, Ack
<1>6. ASSUME NEW c \in Contexts, IsrReadMask(c) PROVE SchedInv'
  BY <1>6 DEF TypeOK, SchedInv, IsrReadMask
<1>7. ASSUME NEW c \in Contexts, IsrWriteMask(c) PROVE SchedInv'
  BY <1>7 DEF TypeOK, SchedInv, IsrWriteMask
<1>8. ASSUME NEW c \in Contexts, IsrSchedule(c) PROVE SchedInv'
  BY <1>8 DEF TypeOK, SchedInv, IsrSchedule, NapiSchedule
<1>9. CASE PollStart
  BY <1>9 DEF TypeOK, SchedInv, PollStart
<1>10. CASE RxRead
  BY <1>10 DEF TypeOK, SchedInv, RxRead
<1>11. CASE RxAck
  BY <1>11 DEF TypeOK, SchedInv, RxAck, Ack
<1>12. CASE RxRecheck
  BY <1>12 DEF TypeOK, SchedInv, RxRecheck
<1>13. CASE RxNoMemory
  BY <1>13 DEF TypeOK, SchedInv, RxNoMemory
<1>14. CASE RxTake
  BY <1>14 DEF TypeOK, SchedInv, RxTake, NextRx
<1>15. CASE TxRead
  BY <1>15 DEF TypeOK, SchedInv, TxRead, TxNothing
<1>16. CASE TxAck
  BY <1>16 DEF TypeOK, SchedInv, TxAck, Ack
<1>17. CASE TxRecheck
  BY <1>17 DEF TypeOK, SchedInv, TxRecheck, TxNothing
<1>18. CASE TxReclaim
  BY <1>18 DEF TypeOK, SchedInv, TxReclaim
<1>19. CASE TxWake
  BY <1>19 DEF TypeOK, SchedInv, TxWake
<1>20. CASE PollComplete
  BY <1>20 DEF TypeOK, SchedInv, PollComplete, NapiComplete, PollDone
<1>21. CASE PollReturn
  BY <1>21 DEF TypeOK, SchedInv, PollReturn, PollDone
<1>22. ASSUME NEW k \in Cpus, PollReadMask(k) PROVE SchedInv'
  BY <1>22 DEF TypeOK, SchedInv, PollReadMask
<1>23. ASSUME NEW k \in Cpus, PollWriteMask(k) PROVE SchedInv'
  BY <1>23 DEF TypeOK, SchedInv, PollWriteMask
<1>24. CASE XmitEnter
  BY <1>24 DEF TypeOK, SchedInv, XmitEnter
<1>25. CASE XmitReady
  BY <1>25 DEF TypeOK, SchedInv, XmitReady
<1>26. CASE XmitStop
  BY <1>26 DEF TypeOK, SchedInv, XmitStop
<1>27. CASE UNCHANGED vars
  BY <1>27 DEF TypeOK, SchedInv, vars
<1>28. CASE TxHalf
  BY <1>28 DEF TypeOK, SchedInv, TxHalf, HalfFree
<1>29. CASE XmitFull
  BY <1>29 DEF TypeOK, SchedInv, XmitFull, RingFull
<1> QED BY <1>1, <1>2, <1>3, <1>4, <1>5, <1>6, <1>7, <1>8, <1>9, <1>10,
           <1>11, <1>12, <1>13, <1>14, <1>15, <1>16, <1>17, <1>18, <1>19,
           <1>20, <1>21, <1>22, <1>23, <1>24, <1>25, <1>26, <1>27, <1>28,
           <1>29 DEF Next, Isr, Poll, Xmit

(* The transmit ring as the driver counts it. *)
LEMMA RingStep ==
  ASSUME TypeOK, RingInv, [Next]_vars
  PROVE  RingInv'
<1> USE DEF hwVars, isrVars, napiVars, pollVars, tailVars, xmVars, rxVars
<1>1. CASE HwReceive
  BY <1>1, ConstFacts DEF TypeOK, RingInv, HwReceive
<1>2. CASE HwSend
  BY <1>2, ConstFacts DEF TypeOK, RingInv, HwSend
<1>3. ASSUME NEW c \in Contexts, IsrEnter(c) PROVE RingInv'
  BY <1>3, ConstFacts DEF TypeOK, RingInv, IsrEnter, Inta
<1>4. ASSUME NEW c \in Contexts, IsrReadSource(c) PROVE RingInv'
  BY <1>4, ConstFacts DEF TypeOK, RingInv, IsrReadSource
<1>5. ASSUME NEW c \in Contexts, IsrAck(c) PROVE RingInv'
  BY <1>5, ConstFacts DEF TypeOK, RingInv, IsrAck, Ack
<1>6. ASSUME NEW c \in Contexts, IsrReadMask(c) PROVE RingInv'
  BY <1>6, ConstFacts DEF TypeOK, RingInv, IsrReadMask
<1>7. ASSUME NEW c \in Contexts, IsrWriteMask(c) PROVE RingInv'
  BY <1>7, ConstFacts DEF TypeOK, RingInv, IsrWriteMask
<1>8. ASSUME NEW c \in Contexts, IsrSchedule(c) PROVE RingInv'
  BY <1>8, ConstFacts DEF TypeOK, RingInv, IsrSchedule, NapiSchedule
<1>9. CASE PollStart
  BY <1>9, ConstFacts DEF TypeOK, RingInv, PollStart
<1>10. CASE RxRead
  BY <1>10, ConstFacts DEF TypeOK, RingInv, RxRead
<1>11. CASE RxAck
  BY <1>11, ConstFacts DEF TypeOK, RingInv, RxAck, Ack
<1>12. CASE RxRecheck
  BY <1>12, ConstFacts DEF TypeOK, RingInv, RxRecheck
<1>13. CASE RxNoMemory
  BY <1>13, ConstFacts DEF TypeOK, RingInv, RxNoMemory
<1>14. CASE RxTake
  BY <1>14, ConstFacts DEF TypeOK, RingInv, RxTake, NextRx
<1>15. CASE TxRead
  BY <1>15, ConstFacts DEF TypeOK, RingInv, TxRead, TxNothing
<1>16. CASE TxAck
  BY <1>16, ConstFacts DEF TypeOK, RingInv, TxAck, Ack
<1>17. CASE TxRecheck
  BY <1>17, ConstFacts DEF TypeOK, RingInv, TxRecheck, TxNothing
<1>18. CASE TxReclaim
  BY <1>18, ConstFacts DEF TypeOK, RingInv, TxReclaim
<1>19. CASE TxWake
  BY <1>19, ConstFacts DEF TypeOK, RingInv, TxWake
<1>20. CASE PollComplete
  BY <1>20, ConstFacts DEF TypeOK, RingInv, PollComplete, NapiComplete,
     PollDone
<1>21. CASE PollReturn
  BY <1>21, ConstFacts DEF TypeOK, RingInv, PollReturn, PollDone
<1>22. ASSUME NEW k \in Cpus, PollReadMask(k) PROVE RingInv'
  BY <1>22, ConstFacts DEF TypeOK, RingInv, PollReadMask
<1>23. ASSUME NEW k \in Cpus, PollWriteMask(k) PROVE RingInv'
  BY <1>23, ConstFacts DEF TypeOK, RingInv, PollWriteMask
<1>24. CASE XmitEnter
  BY <1>24, ConstFacts DEF TypeOK, RingInv, XmitEnter
<1>25. CASE XmitReady
  BY <1>25, ConstFacts DEF TypeOK, RingInv, XmitReady
<1>26. CASE XmitStop
  BY <1>26, ConstFacts DEF TypeOK, RingInv, XmitStop
<1>27. CASE UNCHANGED vars
  BY <1>27, ConstFacts DEF TypeOK, RingInv, vars
<1>28. CASE TxHalf
  BY <1>28, ConstFacts DEF TypeOK, RingInv, TxHalf, HalfFree
<1>29. CASE XmitFull
  BY <1>29, ConstFacts DEF TypeOK, RingInv, XmitFull, RingFull
<1> QED BY <1>1, <1>2, <1>3, <1>4, <1>5, <1>6, <1>7, <1>8, <1>9, <1>10,
           <1>11, <1>12, <1>13, <1>14, <1>15, <1>16, <1>17, <1>18, <1>19,
           <1>20, <1>21, <1>22, <1>23, <1>24, <1>25, <1>26, <1>27, <1>28,
           <1>29 DEF Next, Isr, Poll, Xmit

(* Masked events are enabled by somebody. *)
LEMMA MaskStep ==
  ASSUME TypeOK, SchedInv, MaskInv, [Next]_vars
  PROVE  MaskInv'
<1> USE DEF hwVars, isrVars, napiVars, pollVars, tailVars, xmVars, rxVars
<1>1. CASE HwReceive
  BY <1>1 DEF TypeOK, SchedInv, MaskInv, Events, Contexts, HwReceive
<1>2. CASE HwSend
  BY <1>2 DEF TypeOK, SchedInv, MaskInv, Events, Contexts, HwSend
<1>3. ASSUME NEW c \in Contexts, IsrEnter(c) PROVE MaskInv'
  BY <1>3 DEF TypeOK, SchedInv, MaskInv, Events, Contexts, IsrEnter, Inta
<1>4. ASSUME NEW c \in Contexts, IsrReadSource(c) PROVE MaskInv'
  BY <1>4 DEF TypeOK, SchedInv, MaskInv, Events, Contexts, IsrReadSource
<1>5. ASSUME NEW c \in Contexts, IsrAck(c) PROVE MaskInv'
  BY <1>5 DEF TypeOK, SchedInv, MaskInv, Events, Contexts, IsrAck, Ack
<1>6. ASSUME NEW c \in Contexts, IsrReadMask(c) PROVE MaskInv'
  BY <1>6 DEF TypeOK, SchedInv, MaskInv, Events, Contexts, IsrReadMask
<1>7. ASSUME NEW c \in Contexts, IsrWriteMask(c) PROVE MaskInv'
  BY <1>7 DEF TypeOK, SchedInv, MaskInv, Events, Contexts, IsrWriteMask
<1>8. ASSUME NEW c \in Contexts, IsrSchedule(c) PROVE MaskInv'
  BY <1>8 DEF TypeOK, SchedInv, MaskInv, Events, Contexts, IsrSchedule,
     NapiSchedule
<1>9. CASE PollStart
  BY <1>9 DEF TypeOK, SchedInv, MaskInv, Events, Contexts, PollStart
<1>10. CASE RxRead
  BY <1>10 DEF TypeOK, SchedInv, MaskInv, Events, Contexts, RxRead
<1>11. CASE RxAck
  BY <1>11 DEF TypeOK, SchedInv, MaskInv, Events, Contexts, RxAck, Ack
<1>12. CASE RxRecheck
  BY <1>12 DEF TypeOK, SchedInv, MaskInv, Events, Contexts, RxRecheck
<1>13. CASE RxNoMemory
  BY <1>13 DEF TypeOK, SchedInv, MaskInv, Events, Contexts, RxNoMemory
<1>14. CASE RxTake
  BY <1>14 DEF TypeOK, SchedInv, MaskInv, Events, Contexts, RxTake, NextRx
<1>15. CASE TxRead
  BY <1>15 DEF TypeOK, SchedInv, MaskInv, Events, Contexts, TxRead,
     TxNothing
<1>16. CASE TxAck
  BY <1>16 DEF TypeOK, SchedInv, MaskInv, Events, Contexts, TxAck, Ack
<1>17. CASE TxRecheck
  BY <1>17 DEF TypeOK, SchedInv, MaskInv, Events, Contexts, TxRecheck,
     TxNothing
<1>18. CASE TxReclaim
  BY <1>18 DEF TypeOK, SchedInv, MaskInv, Events, Contexts, TxReclaim
<1>19. CASE TxWake
  BY <1>19 DEF TypeOK, SchedInv, MaskInv, Events, Contexts, TxWake
<1>20. CASE PollComplete
  BY <1>20 DEF TypeOK, SchedInv, MaskInv, Events, Contexts, PollComplete,
     NapiComplete, PollDone
<1>21. CASE PollReturn
  BY <1>21 DEF TypeOK, SchedInv, MaskInv, Events, Contexts, PollReturn,
     PollDone
<1>22. ASSUME NEW k \in Cpus, PollReadMask(k) PROVE MaskInv'
  BY <1>22 DEF TypeOK, SchedInv, MaskInv, Events, Contexts, PollReadMask
<1>23. ASSUME NEW k \in Cpus, PollWriteMask(k) PROVE MaskInv'
  BY <1>23 DEF TypeOK, SchedInv, MaskInv, Events, Contexts, PollWriteMask
<1>24. CASE XmitEnter
  BY <1>24 DEF TypeOK, SchedInv, MaskInv, Events, Contexts, XmitEnter
<1>25. CASE XmitReady
  BY <1>25 DEF TypeOK, SchedInv, MaskInv, Events, Contexts, XmitReady
<1>26. CASE XmitStop
  BY <1>26 DEF TypeOK, SchedInv, MaskInv, Events, Contexts, XmitStop
<1>27. CASE UNCHANGED vars
  BY <1>27 DEF TypeOK, SchedInv, MaskInv, Events, Contexts, vars
<1>28. CASE TxHalf
  BY <1>28 DEF TypeOK, SchedInv, MaskInv, Events, Contexts, TxHalf, HalfFree
<1>29. CASE XmitFull
  BY <1>29 DEF TypeOK, SchedInv, MaskInv, Events, Contexts, XmitFull, RingFull
<1> QED BY <1>1, <1>2, <1>3, <1>4, <1>5, <1>6, <1>7, <1>8, <1>9, <1>10,
           <1>11, <1>12, <1>13, <1>14, <1>15, <1>16, <1>17, <1>18, <1>19,
           <1>20, <1>21, <1>22, <1>23, <1>24, <1>25, <1>26, <1>27, <1>28,
           <1>29 DEF Next, Isr, Poll, Xmit

(* A sent frame is not forgotten. *)
LEMMA SendStep ==
  ASSUME TypeOK, WorkInv, SchedInv, RingInv, SendInv, [Next]_vars
  PROVE  SendInv'
<1> USE DEF hwVars, isrVars, napiVars, pollVars, tailVars, xmVars, rxVars
<1>1. CASE HwReceive
  BY <1>1, ConstFacts DEF TypeOK, WorkInv, SchedInv, RingInv, SendInv,
     TxPending, TxNothing, WillPoll, PollDone, Contexts, HwReceive
<1>2. CASE HwSend
  BY <1>2, ConstFacts DEF TypeOK, WorkInv, SchedInv, RingInv, SendInv,
     TxPending, TxNothing, WillPoll, PollDone, Contexts, HwSend
<1>3. ASSUME NEW c \in Contexts, IsrEnter(c) PROVE SendInv'
  BY <1>3, ConstFacts DEF TypeOK, WorkInv, SchedInv, RingInv, SendInv,
     TxPending, TxNothing, WillPoll, PollDone, Contexts, IsrEnter, Inta
<1>4. ASSUME NEW c \in Contexts, IsrReadSource(c) PROVE SendInv'
  BY <1>4, ConstFacts DEF TypeOK, WorkInv, SchedInv, RingInv, SendInv,
     TxPending, TxNothing, WillPoll, PollDone, Contexts, IsrReadSource
<1>5. ASSUME NEW c \in Contexts, IsrAck(c) PROVE SendInv'
  BY <1>5, ConstFacts DEF TypeOK, WorkInv, SchedInv, RingInv, SendInv,
     TxPending, TxNothing, WillPoll, PollDone, Contexts, IsrAck, Ack
<1>6. ASSUME NEW c \in Contexts, IsrReadMask(c) PROVE SendInv'
  BY <1>6, ConstFacts DEF TypeOK, WorkInv, SchedInv, RingInv, SendInv,
     TxPending, TxNothing, WillPoll, PollDone, Contexts, IsrReadMask
<1>7. ASSUME NEW c \in Contexts, IsrWriteMask(c) PROVE SendInv'
  BY <1>7, ConstFacts DEF TypeOK, WorkInv, SchedInv, RingInv, SendInv,
     TxPending, TxNothing, WillPoll, PollDone, Contexts, IsrWriteMask
<1>8. ASSUME NEW c \in Contexts, IsrSchedule(c) PROVE SendInv'
  BY <1>8, ConstFacts DEF TypeOK, WorkInv, SchedInv, RingInv, SendInv,
     TxPending, TxNothing, WillPoll, PollDone, Contexts, IsrSchedule,
     NapiSchedule
<1>9. CASE PollStart
  BY <1>9, ConstFacts DEF TypeOK, WorkInv, SchedInv, RingInv, SendInv,
     TxPending, TxNothing, WillPoll, PollDone, Contexts, PollStart
<1>10. CASE RxRead
  BY <1>10, ConstFacts DEF TypeOK, WorkInv, SchedInv, RingInv, SendInv,
     TxPending, TxNothing, WillPoll, PollDone, Contexts, RxRead
<1>11. CASE RxAck
  BY <1>11, ConstFacts DEF TypeOK, WorkInv, SchedInv, RingInv, SendInv,
     TxPending, TxNothing, WillPoll, PollDone, Contexts, RxAck, Ack
<1>12. CASE RxRecheck
  BY <1>12, ConstFacts DEF TypeOK, WorkInv, SchedInv, RingInv, SendInv,
     TxPending, TxNothing, WillPoll, PollDone, Contexts, RxRecheck
<1>13. CASE RxNoMemory
  BY <1>13, ConstFacts DEF TypeOK, WorkInv, SchedInv, RingInv, SendInv,
     TxPending, TxNothing, WillPoll, PollDone, Contexts, RxNoMemory
<1>14. CASE RxTake
  BY <1>14, ConstFacts DEF TypeOK, WorkInv, SchedInv, RingInv, SendInv,
     TxPending, TxNothing, WillPoll, PollDone, Contexts, RxTake, NextRx
<1>15. CASE TxRead
  BY <1>15, ConstFacts DEF TypeOK, WorkInv, SchedInv, RingInv, SendInv,
     TxPending, TxNothing, WillPoll, PollDone, Contexts, TxRead
<1>16. CASE TxAck
  BY <1>16, ConstFacts DEF TypeOK, WorkInv, SchedInv, RingInv, SendInv,
     TxPending, TxNothing, WillPoll, PollDone, Contexts, TxAck, Ack
<1>17. CASE TxRecheck
  BY <1>17, ConstFacts DEF TypeOK, WorkInv, SchedInv, RingInv, SendInv,
     TxPending, TxNothing, WillPoll, PollDone, Contexts, TxRecheck
<1>18. CASE TxReclaim
  BY <1>18, ConstFacts DEF TypeOK, WorkInv, SchedInv, RingInv, SendInv,
     TxPending, TxNothing, WillPoll, PollDone, Contexts, TxReclaim
<1>19. CASE TxWake
  BY <1>19, ConstFacts DEF TypeOK, WorkInv, SchedInv, RingInv, SendInv,
     TxPending, TxNothing, WillPoll, PollDone, Contexts, TxWake
<1>20. CASE PollComplete
  BY <1>20, ConstFacts DEF TypeOK, WorkInv, SchedInv, RingInv, SendInv,
     TxPending, TxNothing, WillPoll, PollDone, Contexts, PollComplete,
     NapiComplete
<1>21. CASE PollReturn
  BY <1>21, ConstFacts DEF TypeOK, WorkInv, SchedInv, RingInv, SendInv,
     TxPending, TxNothing, WillPoll, PollDone, Contexts, PollReturn
<1>22. ASSUME NEW k \in Cpus, PollReadMask(k) PROVE SendInv'
  BY <1>22, ConstFacts DEF TypeOK, WorkInv, SchedInv, RingInv, SendInv,
     TxPending, TxNothing, WillPoll, PollDone, Contexts, PollReadMask
<1>23. ASSUME NEW k \in Cpus, PollWriteMask(k) PROVE SendInv'
  BY <1>23, ConstFacts DEF TypeOK, WorkInv, SchedInv, RingInv, SendInv,
     TxPending, TxNothing, WillPoll, PollDone, Contexts, PollWriteMask
<1>24. CASE XmitEnter
  BY <1>24, ConstFacts DEF TypeOK, WorkInv, SchedInv, RingInv, SendInv,
     TxPending, TxNothing, WillPoll, PollDone, Contexts, XmitEnter
<1>25. CASE XmitReady
  <2>1. /\ cur \in Nat \ {0} /\ dty \in Nat /\ NumTx \in Nat \ {0}
        /\ txr \in [TxBd -> BOOLEAN] /\ TxBd = 0..NumTx-1
        /\ cur' = cur /\ dty' = dty
    BY <1>25, ConstFacts DEF TypeOK, RingInv, XmitReady
  <2>2. /\ TxSlot(cur - 1) \in TxBd /\ TxSlot(cur - 1) = (cur - 1) % NumTx
        /\ TxSlot(dty) = dty % NumTx
    <3>1. cur - 1 \in Nat /\ dty \in Nat
      BY <2>1
    <3> QED BY <3>1, TxSlots, TxSlotIs, Zenon
  <2>3. txr' = [txr EXCEPT ![TxSlot(cur - 1)] = TRUE]
    BY <1>25, <2>2 DEF XmitReady
  <2>4. ASSUME TxPending'
        PROVE  TxPending
    <3>1. ~txr'[TxSlot(dty)] /\ dty # cur
      BY <2>1, <2>2, <2>4 DEF TxPending, TxNothing
    <3>2. TxSlot(dty) # TxSlot(cur - 1)
      BY <2>1, <2>2, <2>3, <3>1
    <3>3. ~txr[TxSlot(dty)] /\ dty # cur - 1
      BY <2>3, <3>1, <3>2
    <3> QED BY <2>2, <3>1, <3>3 DEF TxPending, TxNothing
  <2>5. UNCHANGED <<src, sched, missed, isr, pc, rxWork, txWork>>
    BY <1>25 DEF XmitReady
  <2> QED BY <2>4, <2>5 DEF SendInv, WillPoll, PollDone
<1>26. CASE XmitStop
  BY <1>26, ConstFacts DEF TypeOK, WorkInv, SchedInv, RingInv, SendInv,
     TxPending, TxNothing, WillPoll, PollDone, Contexts, XmitStop
<1>27. CASE UNCHANGED vars
  BY <1>27, ConstFacts DEF TypeOK, WorkInv, SchedInv, RingInv, SendInv,
     TxPending, TxNothing, WillPoll, PollDone, Contexts, vars
<1>28. CASE TxHalf
  BY <1>28, ConstFacts DEF TypeOK, WorkInv, SchedInv, RingInv, SendInv,
     TxPending, TxNothing, WillPoll, PollDone, Contexts, TxHalf, HalfFree
<1>29. CASE XmitFull
  BY <1>29, ConstFacts DEF TypeOK, WorkInv, SchedInv, RingInv, SendInv,
     TxPending, TxNothing, WillPoll, PollDone, Contexts, XmitFull, RingFull
<1> QED BY <1>1, <1>2, <1>3, <1>4, <1>5, <1>6, <1>7, <1>8, <1>9, <1>10,
           <1>11, <1>12, <1>13, <1>14, <1>15, <1>16, <1>17, <1>18, <1>19,
           <1>20, <1>21, <1>22, <1>23, <1>24, <1>25, <1>26, <1>27, <1>28,
           <1>29 DEF Next, Isr, Poll, Xmit

(* A received frame is not forgotten, if there is memory for it. *)
LEMMA ReceiveStep ==
  ASSUME AllocFails = FALSE, TypeOK, WorkInv, SchedInv, ReceiveInv, [Next]_vars
  PROVE  ReceiveInv'
<1> USE DEF hwVars, isrVars, napiVars, pollVars, tailVars, xmVars, rxVars
<1>1. CASE HwReceive
  BY <1>1, ConstFacts DEF TypeOK, WorkInv, SchedInv, ReceiveInv, WillPoll,
     PollDone, Contexts, HwReceive
<1>2. CASE HwSend
  BY <1>2, ConstFacts DEF TypeOK, WorkInv, SchedInv, ReceiveInv, WillPoll,
     PollDone, Contexts, HwSend
<1>3. ASSUME NEW c \in Contexts, IsrEnter(c) PROVE ReceiveInv'
  BY <1>3, ConstFacts DEF TypeOK, WorkInv, SchedInv, ReceiveInv, WillPoll,
     PollDone, Contexts, IsrEnter, Inta
<1>4. ASSUME NEW c \in Contexts, IsrReadSource(c) PROVE ReceiveInv'
  BY <1>4, ConstFacts DEF TypeOK, WorkInv, SchedInv, ReceiveInv, WillPoll,
     PollDone, Contexts, IsrReadSource
<1>5. ASSUME NEW c \in Contexts, IsrAck(c) PROVE ReceiveInv'
  BY <1>5, ConstFacts DEF TypeOK, WorkInv, SchedInv, ReceiveInv, WillPoll,
     PollDone, Contexts, IsrAck, Ack
<1>6. ASSUME NEW c \in Contexts, IsrReadMask(c) PROVE ReceiveInv'
  BY <1>6, ConstFacts DEF TypeOK, WorkInv, SchedInv, ReceiveInv, WillPoll,
     PollDone, Contexts, IsrReadMask
<1>7. ASSUME NEW c \in Contexts, IsrWriteMask(c) PROVE ReceiveInv'
  BY <1>7, ConstFacts DEF TypeOK, WorkInv, SchedInv, ReceiveInv, WillPoll,
     PollDone, Contexts, IsrWriteMask
<1>8. ASSUME NEW c \in Contexts, IsrSchedule(c) PROVE ReceiveInv'
  BY <1>8, ConstFacts DEF TypeOK, WorkInv, SchedInv, ReceiveInv, WillPoll,
     PollDone, Contexts, IsrSchedule, NapiSchedule
<1>9. CASE PollStart
  BY <1>9, ConstFacts DEF TypeOK, WorkInv, SchedInv, ReceiveInv, WillPoll,
     PollDone, Contexts, PollStart
<1>10. CASE RxRead
  BY <1>10, ConstFacts DEF TypeOK, WorkInv, SchedInv, ReceiveInv, WillPoll,
     PollDone, Contexts, RxRead
<1>11. CASE RxAck
  BY <1>11, ConstFacts DEF TypeOK, WorkInv, SchedInv, ReceiveInv, WillPoll,
     PollDone, Contexts, RxAck, Ack
<1>12. CASE RxRecheck
  BY <1>12, ConstFacts DEF TypeOK, WorkInv, SchedInv, ReceiveInv, WillPoll,
     PollDone, Contexts, RxRecheck
<1>13. CASE RxNoMemory
  BY <1>13, ConstFacts DEF TypeOK, WorkInv, SchedInv, ReceiveInv, WillPoll,
     PollDone, Contexts, RxNoMemory
<1>14. CASE RxTake
  BY <1>14, ConstFacts DEF TypeOK, WorkInv, SchedInv, ReceiveInv, WillPoll,
     PollDone, Contexts, RxTake, NextRx
<1>15. CASE TxRead
  BY <1>15, ConstFacts DEF TypeOK, WorkInv, SchedInv, ReceiveInv, WillPoll,
     PollDone, Contexts, TxRead, TxNothing
<1>16. CASE TxAck
  BY <1>16, ConstFacts DEF TypeOK, WorkInv, SchedInv, ReceiveInv, WillPoll,
     PollDone, Contexts, TxAck, Ack
<1>17. CASE TxRecheck
  BY <1>17, ConstFacts DEF TypeOK, WorkInv, SchedInv, ReceiveInv, WillPoll,
     PollDone, Contexts, TxRecheck, TxNothing
<1>18. CASE TxReclaim
  BY <1>18, ConstFacts DEF TypeOK, WorkInv, SchedInv, ReceiveInv, WillPoll,
     PollDone, Contexts, TxReclaim
<1>19. CASE TxWake
  BY <1>19, ConstFacts DEF TypeOK, WorkInv, SchedInv, ReceiveInv, WillPoll,
     PollDone, Contexts, TxWake
<1>20. CASE PollComplete
  BY <1>20, ConstFacts DEF TypeOK, WorkInv, SchedInv, ReceiveInv, WillPoll,
     PollDone, Contexts, PollComplete, NapiComplete
<1>21. CASE PollReturn
  BY <1>21, ConstFacts DEF TypeOK, WorkInv, SchedInv, ReceiveInv, WillPoll,
     PollDone, Contexts, PollReturn
<1>22. ASSUME NEW k \in Cpus, PollReadMask(k) PROVE ReceiveInv'
  BY <1>22, ConstFacts DEF TypeOK, WorkInv, SchedInv, ReceiveInv, WillPoll,
     PollDone, Contexts, PollReadMask
<1>23. ASSUME NEW k \in Cpus, PollWriteMask(k) PROVE ReceiveInv'
  BY <1>23, ConstFacts DEF TypeOK, WorkInv, SchedInv, ReceiveInv, WillPoll,
     PollDone, Contexts, PollWriteMask
<1>24. CASE XmitEnter
  BY <1>24, ConstFacts DEF TypeOK, WorkInv, SchedInv, ReceiveInv, WillPoll,
     PollDone, Contexts, XmitEnter
<1>25. CASE XmitReady
  BY <1>25, ConstFacts DEF TypeOK, WorkInv, SchedInv, ReceiveInv, WillPoll,
     PollDone, Contexts, XmitReady
<1>26. CASE XmitStop
  BY <1>26, ConstFacts DEF TypeOK, WorkInv, SchedInv, ReceiveInv, WillPoll,
     PollDone, Contexts, XmitStop
<1>27. CASE UNCHANGED vars
  BY <1>27, ConstFacts DEF TypeOK, WorkInv, SchedInv, ReceiveInv, WillPoll,
     PollDone, Contexts, vars
<1>28. CASE TxHalf
  BY <1>28, ConstFacts DEF TypeOK, WorkInv, SchedInv, ReceiveInv, WillPoll,
     PollDone, Contexts, TxHalf, HalfFree
<1>29. CASE XmitFull
  BY <1>29, ConstFacts DEF TypeOK, WorkInv, SchedInv, ReceiveInv, WillPoll,
     PollDone, Contexts, XmitFull, RingFull
<1> QED BY <1>1, <1>2, <1>3, <1>4, <1>5, <1>6, <1>7, <1>8, <1>9, <1>10,
           <1>11, <1>12, <1>13, <1>14, <1>15, <1>16, <1>17, <1>18, <1>19,
           <1>20, <1>21, <1>22, <1>23, <1>24, <1>25, <1>26, <1>27, <1>28,
           <1>29 DEF Next, Isr, Poll, Xmit

(* One CPU. *)
LEMMA OneStep ==
  ASSUME ~Smp, TypeOK, OneAtATime, [Next]_vars
  PROVE  OneAtATime'
<1> USE DEF hwVars, isrVars, napiVars, pollVars, tailVars, xmVars, rxVars
<1>1. CASE HwReceive
  BY <1>1 DEF OneAtATime, NoPoll, HwReceive
<1>2. CASE HwSend
  BY <1>2 DEF OneAtATime, NoPoll, HwSend
<1>3. ASSUME NEW c \in Contexts, IsrEnter(c) PROVE OneAtATime'
  BY <1>3 DEF OneAtATime, NoPoll, IsrEnter, Inta
<1>4. ASSUME NEW c \in Contexts, IsrReadSource(c) PROVE OneAtATime'
  BY <1>4 DEF OneAtATime, NoPoll, IsrReadSource
<1>5. ASSUME NEW c \in Contexts, IsrAck(c) PROVE OneAtATime'
  BY <1>5 DEF OneAtATime, NoPoll, IsrAck, Ack
<1>6. ASSUME NEW c \in Contexts, IsrReadMask(c) PROVE OneAtATime'
  BY <1>6 DEF OneAtATime, NoPoll, IsrReadMask
<1>7. ASSUME NEW c \in Contexts, IsrWriteMask(c) PROVE OneAtATime'
  BY <1>7 DEF OneAtATime, NoPoll, IsrWriteMask
<1>8. ASSUME NEW c \in Contexts, IsrSchedule(c) PROVE OneAtATime'
  BY <1>8 DEF OneAtATime, NoPoll, IsrSchedule, NapiSchedule
<1>9. CASE PollStart /\ xm = "idle"
  BY <1>9 DEF OneAtATime, PollStart
<1>10. CASE RxRead /\ xm = "idle"
  BY <1>10 DEF OneAtATime, RxRead
<1>11. CASE RxAck /\ xm = "idle"
  BY <1>11 DEF OneAtATime, RxAck, Ack
<1>12. CASE RxRecheck /\ xm = "idle"
  BY <1>12 DEF OneAtATime, RxRecheck
<1>13. CASE RxNoMemory /\ xm = "idle"
  BY <1>13 DEF OneAtATime, RxNoMemory
<1>14. CASE RxTake /\ xm = "idle"
  BY <1>14 DEF OneAtATime, RxTake, NextRx
<1>15. CASE TxRead /\ xm = "idle"
  BY <1>15 DEF OneAtATime, TxRead, TxNothing
<1>16. CASE TxAck /\ xm = "idle"
  BY <1>16 DEF OneAtATime, TxAck, Ack
<1>17. CASE TxRecheck /\ xm = "idle"
  BY <1>17 DEF OneAtATime, TxRecheck, TxNothing
<1>18. CASE TxReclaim /\ xm = "idle"
  BY <1>18 DEF OneAtATime, TxReclaim
<1>19. CASE TxWake /\ xm = "idle"
  BY <1>19 DEF OneAtATime, TxWake
<1>20. CASE PollComplete /\ xm = "idle"
  BY <1>20 DEF OneAtATime, PollComplete, NapiComplete, PollDone
<1>21. CASE PollReturn /\ xm = "idle"
  BY <1>21 DEF OneAtATime, PollReturn, PollDone
<1>22. ASSUME NEW k \in Cpus, PollReadMask(k), xm = "idle" PROVE OneAtATime'
  BY <1>22 DEF OneAtATime, PollReadMask
<1>23. ASSUME NEW k \in Cpus, PollWriteMask(k), xm = "idle" PROVE OneAtATime'
  BY <1>23 DEF OneAtATime, PollWriteMask
<1>24. CASE XmitEnter /\ NoPoll
  BY <1>24 DEF OneAtATime, NoPoll, XmitEnter
<1>25. CASE XmitReady /\ NoPoll
  BY <1>25 DEF OneAtATime, NoPoll, XmitReady
<1>26. CASE XmitStop /\ NoPoll
  BY <1>26 DEF OneAtATime, NoPoll, XmitStop
<1>27. CASE UNCHANGED vars
  BY <1>27 DEF OneAtATime, NoPoll, vars
<1>28. CASE TxHalf /\ xm = "idle"
  BY <1>28 DEF OneAtATime, TxHalf, HalfFree
<1>29. CASE XmitFull /\ NoPoll
  BY <1>29 DEF OneAtATime, NoPoll, XmitFull, RingFull
<1> QED BY <1>1, <1>2, <1>3, <1>4, <1>5, <1>6, <1>7, <1>8, <1>9, <1>10,
           <1>11, <1>12, <1>13, <1>14, <1>15, <1>16, <1>17, <1>18, <1>19,
           <1>20, <1>21, <1>22, <1>23, <1>24, <1>25, <1>26, <1>27, <1>28,
           <1>29 DEF Next, Isr, Poll, Xmit

(* The ring is never overrun on one CPU. *)
LEMMA RoomStep ==
  ASSUME ~Smp, TypeOK, OneAtATime, RingInv, RoomInv, [Next]_vars
  PROVE  RoomInv'
<1> USE DEF hwVars, isrVars, napiVars, pollVars, tailVars, xmVars, rxVars
<1>0. ASSUME UNCHANGED <<cur, dty, stopped, xm>>, pc' = "wake" => pc = "wake"
      PROVE  RoomInv'
  BY <1>0 DEF RoomInv, HalfFree
<1>1. CASE HwReceive
  BY <1>1, <1>0 DEF HwReceive
<1>2. CASE HwSend
  BY <1>2, <1>0 DEF HwSend
<1>3. ASSUME NEW c \in Contexts, IsrEnter(c) PROVE RoomInv'
  BY <1>3, <1>0 DEF IsrEnter
<1>4. ASSUME NEW c \in Contexts, IsrReadSource(c) PROVE RoomInv'
  BY <1>4, <1>0 DEF IsrReadSource
<1>5. ASSUME NEW c \in Contexts, IsrAck(c) PROVE RoomInv'
  BY <1>5, <1>0 DEF IsrAck
<1>6. ASSUME NEW c \in Contexts, IsrReadMask(c) PROVE RoomInv'
  BY <1>6, <1>0 DEF IsrReadMask
<1>7. ASSUME NEW c \in Contexts, IsrWriteMask(c) PROVE RoomInv'
  BY <1>7, <1>0 DEF IsrWriteMask
<1>8. ASSUME NEW c \in Contexts, IsrSchedule(c) PROVE RoomInv'
  BY <1>8, <1>0 DEF IsrSchedule
<1>9. CASE PollStart
  BY <1>9, <1>0 DEF PollStart
<1>10. CASE RxRead
  BY <1>10, <1>0 DEF RxRead
<1>11. CASE RxAck
  BY <1>11, <1>0 DEF RxAck
<1>12. CASE RxRecheck
  BY <1>12, <1>0 DEF RxRecheck
<1>13. CASE RxNoMemory
  BY <1>13, <1>0 DEF RxNoMemory
<1>14. CASE RxTake
  BY <1>14, <1>0 DEF RxTake
<1>15. CASE TxRead
  BY <1>15, <1>0 DEF TxRead
<1>16. CASE TxAck
  BY <1>16, <1>0 DEF TxAck
<1>17. CASE TxRecheck
  BY <1>17, <1>0 DEF TxRecheck
<1>18. CASE TxReclaim
  BY <1>18, ConstFacts DEF TypeOK, RingInv, RoomInv, TxReclaim
<1>19. CASE TxHalf
  BY <1>19 DEF RoomInv, TxHalf, HalfFree
<1>20. CASE TxWake /\ xm = "idle"
  <2>1. cur - dty <= NumTx \div 2 /\ UNCHANGED <<cur, dty>> /\ pc' = "end"
    BY <1>20 DEF RoomInv, TxWake, HalfFree
  <2> QED BY <2>1, ConstFacts DEF TypeOK, RoomInv
<1>21. CASE PollComplete
  BY <1>21, <1>0 DEF PollComplete
<1>22. CASE PollReturn
  BY <1>22, <1>0 DEF PollReturn
<1>23. ASSUME NEW k \in Cpus, PollReadMask(k) PROVE RoomInv'
  BY <1>23, <1>0 DEF PollReadMask
<1>24. ASSUME NEW k \in Cpus, PollWriteMask(k) PROVE RoomInv'
  BY <1>24, <1>0 DEF PollWriteMask
<1>25. CASE XmitEnter /\ NoPoll
  BY <1>25, ConstFacts DEF TypeOK, RoomInv, XmitEnter, NoPoll
<1>26. CASE XmitReady /\ NoPoll
  BY <1>26 DEF RoomInv, XmitReady, NoPoll
<1>27. CASE XmitFull /\ NoPoll
  BY <1>27, ConstFacts DEF TypeOK, RoomInv, XmitFull, RingFull, NoPoll
<1>28. CASE XmitStop /\ NoPoll
  BY <1>28 DEF RoomInv, XmitStop, NoPoll
<1>29. CASE UNCHANGED vars
  BY <1>29, <1>0 DEF vars
<1> QED BY <1>1, <1>2, <1>3, <1>4, <1>5, <1>6, <1>7, <1>8, <1>9, <1>10,
           <1>11, <1>12, <1>13, <1>14, <1>15, <1>16, <1>17, <1>18, <1>19,
           <1>20, <1>21, <1>22, <1>23, <1>24, <1>25, <1>26, <1>27, <1>28,
           <1>29 DEF Next, Isr, Poll, Xmit

(* The frame ethoc_rx takes is the oldest not taken, and its descriptor is *)
(* the one after which the pointer moves on.                               *)
LEMMA TakeFrame ==
  ASSUME TypeOK, RxRingInv, pc = "take", NEW r \in 0..Len(rxlog), Taken(r)
  PROVE  r < Len(rxlog) /\ rxd[curRx] = r + 1
<1>1. Len(rxlog) \in Nat /\ NumRx \in Nat \ {0}
  BY ConstFacts DEF TypeOK
<1>2. rxd[curRx] # 0 /\ curRx = RxSlot(r)
  BY DEF RxRingInv, Taken
<1>3. r < Len(rxlog)
  <2> SUFFICES ASSUME r = Len(rxlog)
               PROVE  FALSE
    BY <1>1
  <2> QED BY <1>1, <1>2 DEF Taken
<1> QED BY <1>1, <1>2, <1>3 DEF Taken

(* ethoc_rx takes the oldest frame, whether or not it hands it on. *)
LEMMA TakeStep ==
  ASSUME TypeOK, RxRingInv, RxTake, NEW r \in 0..Len(rxlog), Taken(r)
  PROVE  Taken(r + 1)' /\ r + 1 \in 0..Len(rxlog')
<1> DEFINE n == Len(rxlog)
<1>1. /\ n \in Nat /\ NumRx \in Nat \ {0} /\ r \in Nat
      /\ rxd \in [RxBd -> Nat] /\ rxlog' = rxlog
      /\ rxd' = [rxd EXCEPT ![curRx] = 0]
  BY ConstFacts DEF TypeOK, RxTake, hwVars
<1>2. pc = "take" /\ r < n /\ rxd[curRx] = r + 1
  BY TakeFrame DEF RxTake
<1>3. curRx = RxSlot(r) /\ n <= r + NumRx /\ \A i \in DOMAIN out : out[i] <= r
  BY DEF Taken
<1>4. curRx' = RxSlot(r + 1)
  BY <1>1, <1>3, RxSlots DEF RxTake, NextRx
<1>5. curRx \in RxBd /\ \A f \in Nat : RxSlot(f) \in RxBd
  BY <1>1, <1>3, RxSlots
<1> HIDE DEF n
<1>6. ASSUME NEW f \in r+1..n-1
      PROVE  RxSlot(f) # curRx
  <2>1. f \in Nat /\ r \in Nat /\ r < f /\ f < r + NumRx
    BY <1>1, <1>3
  <2> QED BY <1>3, <2>1, RxSlots
<1>7. \A f \in r+1..n-1 : rxd'[RxSlot(f)] = f + 1
  BY <1>1, <1>5, <1>6 DEF Taken, n
<1>8. \A f \in n..r+NumRx-1 : rxd'[RxSlot(f)] = 0
  BY <1>1, <1>2, <1>5 DEF Taken, n
<1>9. rxd'[RxSlot(r + NumRx)] = 0
  BY <1>1, <1>3, <1>5, RxSlots
<1>10. \A f \in n..r+NumRx : rxd'[RxSlot(f)] = 0
  BY <1>1, <1>8, <1>9
<1>11. \A i \in DOMAIN out' : out'[i] <= r + 1
  <2>1. out \in Seq(Nat) /\ r + 1 \in Nat
    BY <1>1 DEF TypeOK
  <2>2. out' = out \/ out' = Append(out, r + 1)
    BY <1>2 DEF RxTake
  <2>3. CASE out' = out
    BY <1>1, <1>3, <2>1, <2>3
  <2>4. CASE out' = Append(out, r + 1)
    BY <1>1, <1>3, <2>1, <2>4
  <2> QED BY <2>2, <2>3, <2>4
<1> QED BY <1>1, <1>2, <1>3, <1>4, <1>7, <1>10, <1>11 DEF Taken, n

(* The receive ring. *)
LEMMA RxRingStep ==
  ASSUME TypeOK, RxRingInv, [Next]_vars
  PROVE  RxRingInv'
<1> USE DEF hwVars, isrVars, napiVars, pollVars, tailVars, xmVars, rxVars
<1>1. CASE HwReceive
  <2> DEFINE n == Len(rxlog)
  <2>1. /\ n \in Nat /\ Len(rxlog') = n + 1 /\ NumRx \in Nat \ {0}
        /\ rxd \in [RxBd -> Nat] /\ curRx \in RxBd
        /\ out' = out /\ curRx' = curRx /\ pc' = pc
    BY <1>1, ConstFacts DEF TypeOK, HwReceive
  <2>2. \A f \in Nat : RxSlot(f) \in RxBd
    BY RxSlots
  <2>0. Len(rxlog) % NumRx = RxSlot(n)
    BY <2>1, RxSlotIs, Zenon
  <2>3. rxd[RxSlot(n)] = 0 /\ rxd' = [rxd EXCEPT ![RxSlot(n)] = n + 1]
    BY <1>1, <2>0 DEF HwReceive
  <2>4. PICK r \in 0..n : Taken(r)
    BY DEF RxRingInv
  <2> HIDE DEF n
  <2>5. n < r + NumRx
    <3> SUFFICES ASSUME n = r + NumRx
                 PROVE  FALSE
      BY <2>1, <2>4 DEF Taken, n
    <3>1. RxSlot(n) = RxSlot(r)
      BY <2>1, RxSlots
    <3>2. rxd[RxSlot(r)] = r + 1
      BY <2>1, <2>4 DEF Taken, n
    <3> QED BY <2>3, <3>1, <3>2
  <2>6. ASSUME NEW f \in r..n-1
        PROVE  RxSlot(f) # RxSlot(n)
    <3>1. f \in Nat /\ n \in Nat /\ f < n /\ n < f + NumRx
      BY <2>1, <2>5
    <3> QED BY <3>1, RxSlots
  <2>7. \A f \in n+1..r+NumRx-1 : RxSlot(f) # RxSlot(n)
    BY <2>1, <2>5, RxSlots
  <2>8. \A f \in r..n : rxd'[RxSlot(f)] = f + 1
    <3> TAKE f \in r..n
    <3>1. f \in Nat /\ RxSlot(f) \in RxBd /\ RxSlot(n) \in RxBd
      BY <2>1, <2>2
    <3>2. CASE f = n
      BY <2>1, <2>3, <3>1, <3>2
    <3>3. CASE f # n
      <4>1. f \in r..n-1
        BY <2>1, <3>3
      <4>2. rxd[RxSlot(f)] = f + 1
        BY <2>4, <4>1 DEF Taken, n
      <4> QED BY <2>1, <2>3, <2>6, <3>1, <4>1, <4>2
    <3> QED BY <3>2, <3>3
  <2>9. \A f \in n+1..r+NumRx-1 : rxd'[RxSlot(f)] = 0
    BY <2>1, <2>2, <2>3, <2>4, <2>7 DEF Taken, n
  <2>10. Taken(r)'
    BY <2>1, <2>4, <2>5, <2>8, <2>9 DEF Taken, n
  <2>11. pc' = "take" => rxd'[curRx'] # 0
    BY <2>1, <2>2, <2>3 DEF RxRingInv
  <2> QED BY <2>1, <2>10, <2>11 DEF RxRingInv
<1>2. CASE HwSend
  BY <1>2 DEF TypeOK, RxRingInv, Taken, HwSend
<1>3. ASSUME NEW c \in Contexts, IsrEnter(c) PROVE RxRingInv'
  BY <1>3 DEF TypeOK, RxRingInv, Taken, IsrEnter, Inta
<1>4. ASSUME NEW c \in Contexts, IsrReadSource(c) PROVE RxRingInv'
  BY <1>4 DEF TypeOK, RxRingInv, Taken, IsrReadSource
<1>5. ASSUME NEW c \in Contexts, IsrAck(c) PROVE RxRingInv'
  BY <1>5 DEF TypeOK, RxRingInv, Taken, IsrAck, Ack
<1>6. ASSUME NEW c \in Contexts, IsrReadMask(c) PROVE RxRingInv'
  BY <1>6 DEF TypeOK, RxRingInv, Taken, IsrReadMask
<1>7. ASSUME NEW c \in Contexts, IsrWriteMask(c) PROVE RxRingInv'
  BY <1>7 DEF TypeOK, RxRingInv, Taken, IsrWriteMask
<1>8. ASSUME NEW c \in Contexts, IsrSchedule(c) PROVE RxRingInv'
  BY <1>8 DEF TypeOK, RxRingInv, Taken, IsrSchedule, NapiSchedule
<1>9. CASE PollStart
  BY <1>9 DEF TypeOK, RxRingInv, Taken, PollStart
<1>10. CASE RxRead
  BY <1>10 DEF TypeOK, RxRingInv, Taken, RxRead
<1>11. CASE RxAck
  BY <1>11 DEF TypeOK, RxRingInv, Taken, RxAck, Ack
<1>12. CASE RxRecheck
  BY <1>12 DEF TypeOK, RxRingInv, Taken, RxRecheck
<1>13. CASE RxNoMemory
  BY <1>13 DEF TypeOK, RxRingInv, Taken, RxNoMemory
<1>14. CASE RxTake
  <2>1. PICK r \in 0..Len(rxlog) : Taken(r)
    BY DEF RxRingInv
  <2>2. Taken(r + 1)' /\ r + 1 \in 0..Len(rxlog')
    BY <1>14, <2>1, TakeStep
  <2>3. pc' # "take"
    BY <1>14 DEF RxTake
  <2> QED BY <2>2, <2>3 DEF RxRingInv
<1>15. CASE TxRead
  BY <1>15 DEF TypeOK, RxRingInv, Taken, TxRead, TxNothing
<1>16. CASE TxAck
  BY <1>16 DEF TypeOK, RxRingInv, Taken, TxAck, Ack
<1>17. CASE TxRecheck
  BY <1>17 DEF TypeOK, RxRingInv, Taken, TxRecheck, TxNothing
<1>18. CASE TxReclaim
  BY <1>18 DEF TypeOK, RxRingInv, Taken, TxReclaim
<1>19. CASE TxWake
  BY <1>19 DEF TypeOK, RxRingInv, Taken, TxWake
<1>20. CASE PollComplete
  BY <1>20 DEF TypeOK, RxRingInv, Taken, PollComplete, NapiComplete,
     PollDone
<1>21. CASE PollReturn
  BY <1>21 DEF TypeOK, RxRingInv, Taken, PollReturn, PollDone
<1>22. ASSUME NEW k \in Cpus, PollReadMask(k) PROVE RxRingInv'
  BY <1>22 DEF TypeOK, RxRingInv, Taken, PollReadMask
<1>23. ASSUME NEW k \in Cpus, PollWriteMask(k) PROVE RxRingInv'
  BY <1>23 DEF TypeOK, RxRingInv, Taken, PollWriteMask
<1>24. CASE XmitEnter
  BY <1>24 DEF TypeOK, RxRingInv, Taken, XmitEnter
<1>25. CASE XmitReady
  BY <1>25 DEF TypeOK, RxRingInv, Taken, XmitReady
<1>26. CASE XmitStop
  BY <1>26 DEF TypeOK, RxRingInv, Taken, XmitStop
<1>27. CASE UNCHANGED vars
  BY <1>27 DEF TypeOK, RxRingInv, Taken, vars
<1>28. CASE TxHalf
  BY <1>28 DEF TypeOK, RxRingInv, Taken, TxHalf, HalfFree
<1>29. CASE XmitFull
  BY <1>29 DEF TypeOK, RxRingInv, Taken, XmitFull, RingFull
<1> QED BY <1>1, <1>2, <1>3, <1>4, <1>5, <1>6, <1>7, <1>8, <1>9, <1>10,
           <1>11, <1>12, <1>13, <1>14, <1>15, <1>16, <1>17, <1>18, <1>19,
           <1>20, <1>21, <1>22, <1>23, <1>24, <1>25, <1>26, <1>27, <1>28,
           <1>29 DEF Next, Isr, Poll, Xmit

(* A descriptor that ethoc_tx finds done, with cur_tx not moving, is that *)
(* of a frame that was sent.                                               *)
LEMMA ReclaimSent ==
  ASSUME TypeOK, RingInv, ReadyInv, xm = "idle", ~TxNothing
  PROVE  dty < sent
<1>1. /\ dty \in Nat /\ sent \in Nat /\ cur \in Nat /\ Ready = cur
      /\ dty <= sent /\ sent <= cur
  BY DEF TypeOK, ReadyInv, Ready
<1> SUFFICES ASSUME dty = sent
             PROVE  FALSE
  BY <1>1
<1>0. dty % NumTx = TxSlot(dty)
  BY <1>1, TxSlotIs, Zenon
<1>2. dty # cur /\ ~txr[TxSlot(dty)]
  BY <1>0 DEF TxNothing
<1>3. dty \in sent..Ready-1
  BY <1>1, <1>2
<1> QED BY <1>2, <1>3 DEF ReadyInv

(* The transmit ring of the core. *)
LEMMA ReadyStep ==
  ASSUME ~Smp, TypeOK, RingInv, RoomInv, OneAtATime, ReadyInv, [Next]_vars
  PROVE  ReadyInv'
<1> USE DEF hwVars, isrVars, napiVars, pollVars, tailVars, xmVars, rxVars
<1>1. CASE HwReceive
  BY <1>1, ConstFacts DEF TypeOK, RingInv, OneAtATime, ReadyInv, Ready,
     HwReceive
<1>2. CASE HwSend
  <2>1. /\ sent \in Nat /\ cur \in Nat /\ dty \in Nat /\ NumTx \in Nat \ {0}
        /\ Ready \in Nat /\ cur <= dty + NumTx /\ Ready <= cur
        /\ txr \in [TxBd -> BOOLEAN]
    BY ConstFacts DEF TypeOK, RingInv, RoomInv, Ready
  <2>0. sent % NumTx = TxSlot(sent)
    BY <2>1, TxSlotIs, Zenon
  <2>2. txr[TxSlot(sent)] /\ txr' = [txr EXCEPT ![TxSlot(sent)] = FALSE]
    BY <1>2, <2>0 DEF HwSend
  <2>3. sent' = sent + 1 /\ Ready' = Ready /\ dty' = dty /\ pc' = pc
    BY <1>2 DEF HwSend, Ready
  <2>4. \A f \in Nat : TxSlot(f) \in TxBd
    BY TxSlots
  <2> HIDE DEF Ready
  <2>5. sent < Ready
    <3> SUFFICES ASSUME sent = Ready
                 PROVE  FALSE
      BY <2>1 DEF ReadyInv
    <3> QED BY <2>1, <2>2 DEF ReadyInv
  <2>6. \A f \in sent+1..Ready-1 : TxSlot(f) # TxSlot(sent)
    BY <2>1, TxSlots DEF ReadyInv
  <2>7. \A f \in sent+1..Ready-1 : txr'[TxSlot(f)]
    BY <2>1, <2>2, <2>4, <2>6 DEF ReadyInv
  <2>8. \A f \in Ready..sent+NumTx-1 : ~txr'[TxSlot(f)]
    BY <2>1, <2>2, <2>4 DEF ReadyInv
  <2>9. ~txr'[TxSlot(sent + NumTx)]
    BY <2>1, <2>2, <2>4, TxSlots
  <2>10. \A f \in Ready..sent+NumTx : ~txr'[TxSlot(f)]
    BY <2>1, <2>8, <2>9
  <2> QED BY <2>1, <2>3, <2>5, <2>7, <2>10 DEF ReadyInv
<1>3. ASSUME NEW c \in Contexts, IsrEnter(c) PROVE ReadyInv'
  BY <1>3, ConstFacts DEF TypeOK, RingInv, OneAtATime, ReadyInv, Ready,
     IsrEnter, Inta
<1>4. ASSUME NEW c \in Contexts, IsrReadSource(c) PROVE ReadyInv'
  BY <1>4, ConstFacts DEF TypeOK, RingInv, OneAtATime, ReadyInv, Ready,
     IsrReadSource
<1>5. ASSUME NEW c \in Contexts, IsrAck(c) PROVE ReadyInv'
  BY <1>5, ConstFacts DEF TypeOK, RingInv, OneAtATime, ReadyInv, Ready,
     IsrAck, Ack
<1>6. ASSUME NEW c \in Contexts, IsrReadMask(c) PROVE ReadyInv'
  BY <1>6, ConstFacts DEF TypeOK, RingInv, OneAtATime, ReadyInv, Ready,
     IsrReadMask
<1>7. ASSUME NEW c \in Contexts, IsrWriteMask(c) PROVE ReadyInv'
  BY <1>7, ConstFacts DEF TypeOK, RingInv, OneAtATime, ReadyInv, Ready,
     IsrWriteMask
<1>8. ASSUME NEW c \in Contexts, IsrSchedule(c) PROVE ReadyInv'
  BY <1>8, ConstFacts DEF TypeOK, RingInv, OneAtATime, ReadyInv, Ready,
     IsrSchedule, NapiSchedule
<1>9. CASE PollStart /\ xm = "idle"
  BY <1>9, ConstFacts DEF TypeOK, RingInv, OneAtATime, ReadyInv, Ready,
     PollStart
<1>10. CASE RxRead /\ xm = "idle"
  BY <1>10, ConstFacts DEF TypeOK, RingInv, OneAtATime, ReadyInv, Ready,
     RxRead
<1>11. CASE RxAck /\ xm = "idle"
  BY <1>11, ConstFacts DEF TypeOK, RingInv, OneAtATime, ReadyInv, Ready,
     RxAck, Ack
<1>12. CASE RxRecheck /\ xm = "idle"
  BY <1>12, ConstFacts DEF TypeOK, RingInv, OneAtATime, ReadyInv, Ready,
     RxRecheck
<1>13. CASE RxNoMemory /\ xm = "idle"
  BY <1>13, ConstFacts DEF TypeOK, RingInv, OneAtATime, ReadyInv, Ready,
     RxNoMemory
<1>14. CASE RxTake /\ xm = "idle"
  BY <1>14, ConstFacts DEF TypeOK, RingInv, OneAtATime, ReadyInv, Ready,
     RxTake, NextRx
<1>15. CASE TxRead /\ xm = "idle"
  <2>1. pc' = "reclaim" => dty < sent
    BY <1>15, ReclaimSent DEF TxRead
  <2>2. UNCHANGED <<dty, sent, Ready, txr>>
    BY <1>15 DEF TxRead, Ready
  <2> QED BY <2>1, <2>2 DEF ReadyInv
<1>16. CASE TxAck /\ xm = "idle"
  BY <1>16, ConstFacts DEF TypeOK, RingInv, OneAtATime, ReadyInv, Ready,
     TxAck, Ack
<1>17. CASE TxRecheck /\ xm = "idle"
  <2>1. pc' = "reclaim" => dty < sent
    BY <1>17, ReclaimSent DEF TxRecheck
  <2>2. UNCHANGED <<dty, sent, Ready, txr>>
    BY <1>17 DEF TxRecheck, Ready
  <2> QED BY <2>1, <2>2 DEF ReadyInv
<1>18. CASE TxReclaim /\ xm = "idle"
  BY <1>18, ConstFacts DEF TypeOK, RingInv, OneAtATime, ReadyInv, Ready,
     TxReclaim
<1>19. CASE TxWake /\ xm = "idle"
  BY <1>19, ConstFacts DEF TypeOK, RingInv, OneAtATime, ReadyInv, Ready,
     TxWake
<1>20. CASE PollComplete /\ xm = "idle"
  BY <1>20, ConstFacts DEF TypeOK, RingInv, OneAtATime, ReadyInv, Ready,
     PollComplete, NapiComplete, PollDone
<1>21. CASE PollReturn /\ xm = "idle"
  BY <1>21, ConstFacts DEF TypeOK, RingInv, OneAtATime, ReadyInv, Ready,
     PollReturn, PollDone
<1>22. ASSUME NEW k \in Cpus, PollReadMask(k), xm = "idle" PROVE ReadyInv'
  BY <1>22, ConstFacts DEF TypeOK, RingInv, OneAtATime, ReadyInv, Ready,
     PollReadMask
<1>23. ASSUME NEW k \in Cpus, PollWriteMask(k), xm = "idle" PROVE ReadyInv'
  BY <1>23, ConstFacts DEF TypeOK, RingInv, OneAtATime, ReadyInv, Ready,
     PollWriteMask
<1>24. CASE XmitEnter /\ NoPoll
  BY <1>24, ConstFacts DEF TypeOK, RingInv, OneAtATime, ReadyInv, Ready,
     XmitEnter
<1>25. CASE XmitReady /\ NoPoll
  <2>1. /\ sent \in Nat /\ cur \in Nat /\ dty \in Nat /\ NumTx \in Nat \ {0}
        /\ cur <= dty + NumTx /\ txr \in [TxBd -> BOOLEAN]
    BY ConstFacts DEF TypeOK, RingInv, RoomInv
  <2>2. /\ xm = "ready" /\ cur > 0 /\ xm' = "full" /\ cur' = cur
        /\ UNCHANGED <<sent, dty, pc>>
    BY <1>25 DEF XmitReady, RingInv
  <2>3. Ready = cur - 1 /\ Ready' = cur
    BY <2>2 DEF Ready
  <2>5. cur - 1 \in Nat /\ \A f \in Nat : TxSlot(f) \in TxBd
    BY <2>1, <2>2, TxSlots
  <2>0. (cur - 1) % NumTx = TxSlot(cur - 1)
    BY <2>5, TxSlotIs, Zenon
  <2>4. txr' = [txr EXCEPT ![TxSlot(cur - 1)] = TRUE]
    BY <1>25, <2>0 DEF XmitReady
  <2>6. \A f \in sent..cur-1 : txr'[TxSlot(f)]
    BY <2>1, <2>3, <2>4, <2>5 DEF ReadyInv
  <2>7. \A f \in cur..sent+NumTx-1 : TxSlot(f) # TxSlot(cur - 1)
    BY <2>1, <2>3, <2>5, TxSlots DEF ReadyInv
  <2>8. \A f \in cur..sent+NumTx-1 : ~txr'[TxSlot(f)]
    BY <2>1, <2>3, <2>4, <2>5, <2>7 DEF ReadyInv
  <2> QED BY <2>1, <2>2, <2>3, <2>6, <2>8 DEF ReadyInv
<1>26. CASE XmitStop /\ NoPoll
  BY <1>26, ConstFacts DEF TypeOK, RingInv, OneAtATime, ReadyInv, Ready,
     XmitStop
<1>27. CASE UNCHANGED vars
  BY <1>27, ConstFacts DEF TypeOK, RingInv, OneAtATime, ReadyInv, Ready,
     vars
<1>28. CASE TxHalf /\ xm = "idle"
  BY <1>28, ConstFacts DEF TypeOK, RingInv, OneAtATime, ReadyInv, Ready,
     TxHalf, HalfFree
<1>29. CASE XmitFull /\ NoPoll
  BY <1>29, ConstFacts DEF TypeOK, RingInv, OneAtATime, ReadyInv, Ready,
     XmitFull, RingFull
<1> QED BY <1>1, <1>2, <1>3, <1>4, <1>5, <1>6, <1>7, <1>8, <1>9, <1>10,
           <1>11, <1>12, <1>13, <1>14, <1>15, <1>16, <1>17, <1>18, <1>19,
           <1>20, <1>21, <1>22, <1>23, <1>24, <1>25, <1>26, <1>27, <1>28,
           <1>29 DEF Next, Isr, Poll, Xmit

-----------------------------------------------------------------------------
(* The invariant that holds for every value of the constants. *)
WakeInv ==
  /\ TypeOK /\ WorkInv /\ SchedInv /\ RingInv /\ MaskInv /\ SendInv /\ RxRingInv

(* Nothing is asleep at the start. *)
LEMMA WakeInit ==
  ASSUME Init
  PROVE  WakeInv
<1> USE ConstFacts DEF Init
<1>1. TypeOK
  <2>1. /\ src \subseteq Events /\ mask \subseteq Events
        /\ rxd \in [RxBd -> Nat] /\ txr \in [TxBd -> BOOLEAN]
        /\ rxlog \in Seq(BOOLEAN) /\ sent \in Nat /\ out \in Seq(Nat)
        /\ rxWork \in 0..Budget /\ txWork \in 0..Budget
        /\ curRx \in RxBd /\ cur \in Nat /\ dty \in Nat
    BY DEF Events
  <2>2. /\ isr \in [Contexts -> {"idle", "source", "ack", "read", "write", "sched"}]
        /\ pend \in [Contexts -> SUBSET Events]
        /\ imask \in [Contexts -> SUBSET Events]
        /\ tail \in [Cpus -> {"none", "read", "write"}]
        /\ pmask \in [Cpus -> SUBSET Events]
    BY Zenon
  <2> QED BY <2>1, <2>2 DEF TypeOK
<1>2. WorkInv /\ SchedInv /\ RingInv /\ MaskInv
  BY DEF WorkInv, SchedInv, RingInv, MaskInv
<1>3. SendInv
  BY DEF SendInv, TxPending, TxNothing
<1>4. RxRingInv
  <2>1. Taken(0)
    BY RxSlots DEF Taken
  <2> QED BY <2>1 DEF RxRingInv
<1> QED BY <1>1, <1>2, <1>3, <1>4 DEF WakeInv

(* All parts of WakeInv in every step. *)
LEMMA WakeStep ==
  ASSUME WakeInv, [Next]_vars
  PROVE  WakeInv'
BY TypeStep, SchedStep, RingStep, MaskStep, SendStep, RxRingStep DEF WakeInv

(* ethoc_interrupt, ethoc_poll, ethoc_start_xmit and the core between them *)
(* keep this invariant, at any interleaving of their register accesses.    *)
THEOREM WakeUps == Spec => []WakeInv
<1>1. Init => WakeInv
  BY WakeInit
<1>2. WakeInv /\ [Next]_vars => WakeInv'
  BY WakeStep
<1> QED BY <1>1, <1>2, PTL DEF Spec

(* Registers and C variables keep to their values. *)
THEOREM NapiTypes == Spec => []TypeOK
<1>1. WakeInv => TypeOK
  BY DEF WakeInv
<1> QED BY <1>1, WakeUps, PTL

(* At rest nobody is on his way to NAPI: what waits has its event pending. *)
LEMMA RestingNobody ==
  ASSUME TypeOK, SchedInv, AtRest
  PROVE  ~sched /\ ~WillPoll /\ NoPoll
BY DEF TypeOK, SchedInv, AtRest, NoIsr, WillPoll

(* When driver and NAPI are at rest, the frame events are enabled, and a   *)
(* sent descriptor that waits for ethoc_tx has its event in INT_SOURCE: no *)
(* transmit wake-up is lost, on one CPU or several, with or without memory *)
(* for the frames received.                                                *)
THEOREM TransmitSideAwake == Spec => []TransmitAwake
<1>1. ASSUME WakeInv, AtRest
      PROVE  mask = Events
  <2>1. ~sched /\ NoPoll
    BY <1>1, RestingNobody DEF WakeInv
  <2> QED BY <1>1, <2>1 DEF WakeInv, MaskInv, AtRest, NoIsr, NoPoll
<1>2. ASSUME WakeInv, AtRest, xm = "idle", ~TxNothing
      PROVE  "tx" \in src
  <2>1. ~sched /\ ~WillPoll
    BY <1>2, RestingNobody DEF WakeInv
  <2>2. TxPending
    BY <1>2 DEF TxPending
  <2> QED BY <1>2, <2>1, <2>2 DEF WakeInv, SendInv
<1>3. WakeInv => TransmitAwake
  BY <1>1, <1>2 DEF TransmitAwake, NoLostSend, EventsEnabled
<1> QED BY <1>3, WakeUps, PTL

(* As long as there is memory for them, no receive wake-up is lost either. *)
THEOREM NothingForgotten ==
  ASSUME AllocFails = FALSE
  PROVE  Spec => []NoLostWakeup
<1>1. Init => ReceiveInv
  BY ConstFacts DEF Init, ReceiveInv
<1>2. WakeInv /\ ReceiveInv /\ [Next]_vars => ReceiveInv'
  BY ReceiveStep DEF WakeInv
<1>3. ASSUME WakeInv, ReceiveInv, AtRest, rxd[curRx] # 0
      PROVE  "rx" \in src
  <2>1. ~sched /\ ~WillPoll
    BY <1>3, RestingNobody DEF WakeInv
  <2> QED BY <1>3, <2>1 DEF ReceiveInv
<1>4. WakeInv /\ ReceiveInv /\ TransmitAwake => NoLostWakeup
  BY <1>3 DEF NoLostWakeup, NoLostReceive, TransmitAwake
<1> QED BY <1>1, <1>2, <1>4, WakeUps, TransmitSideAwake, PTL DEF Spec

(* On one CPU dty_tx counts frames that were really sent, cur_tx is never  *)
(* behind the core, and the ring is never overrun.                         *)
THEOREM ReclaimedIsSent ==
  ASSUME ~Smp
  PROVE  Spec => []SentIsSent
<1> DEFINE OneCpuInv == OneAtATime /\ RoomInv /\ ReadyInv
<1>1. ASSUME Init
      PROVE  OneCpuInv
  <2>1. \A f \in Nat : TxSlot(f) \in TxBd
    BY TxSlots
  <2>2. OneAtATime /\ Ready = 0
    BY <1>1 DEF Init, OneAtATime, Ready
  <2>3. RoomInv
    BY <1>1, ConstFacts DEF Init, RoomInv
  <2> QED BY <1>1, <2>1, <2>2, <2>3, ConstFacts DEF Init, ReadyInv
<1>2. ASSUME WakeInv, OneCpuInv, [Next]_vars
      PROVE  OneCpuInv'
  BY <1>2, OneStep, RoomStep, ReadyStep DEF WakeInv
<1>3. ASSUME WakeInv, OneCpuInv
      PROVE  SentIsSent
  BY <1>3, ConstFacts DEF WakeInv, TypeOK, RoomInv, ReadyInv, Ready, SentIsSent, DtySent
<1>4. Init => OneCpuInv
  BY <1>1
<1>5. WakeInv /\ OneCpuInv /\ [Next]_vars => OneCpuInv'
  BY <1>2
<1>6. WakeInv /\ OneCpuInv => SentIsSent
  BY <1>3
<1> HIDE DEF OneCpuInv
<1> QED BY <1>4, <1>5, <1>6, WakeUps, PTL DEF Spec

-----------------------------------------------------------------------------
(* The receive side implements FrameChannel. *)

(* The status write of the core puts a frame into the channel, ethoc_rx    *)
(* takes one out or loses a damaged one; nothing else touches it.          *)
LEMMA ChannelStep ==
  ASSUME TypeOK, RxRingInv, [Next]_vars
  PROVE  [Channel!Next]_(Channel!vars)
<1>1. CASE HwReceive
  <2>1. Channel!Enter
    BY <1>1 DEF HwReceive, rxVars, Channel!Enter
  <2> QED BY <2>1 DEF Channel!Next
<1>2. CASE RxTake
  <2>1. PICK r \in 0..Len(rxlog) : Taken(r)
    BY DEF RxRingInv
  <2>2. r < Len(rxlog) /\ rxd[curRx] = r + 1
    BY <1>2, <2>1, TakeFrame DEF RxTake
  <2>3. CASE ~rxlog[r + 1]
    BY <1>2, <2>2, <2>3 DEF RxTake, hwVars, Channel!vars
  <2>4. CASE rxlog[r + 1]
    <3>1. rxlog \in Seq(BOOLEAN) /\ out \in Seq(Nat)
      BY DEF TypeOK
    <3>2. r + 1 \in DOMAIN rxlog
      BY <2>2, <3>1
    <3>3. \A i \in DOMAIN out : out[i] < r + 1
      <4> TAKE i \in DOMAIN out
      <4>1. out[i] \in Nat /\ out[i] <= r
        BY <2>1, <3>1 DEF Taken
      <4> QED BY <4>1
    <3>4. out' = Append(out, r + 1) /\ rxlog' = rxlog
      BY <1>2, <2>2, <2>4 DEF RxTake, hwVars
    <3>5. Channel!Deliver
      BY <2>4, <3>2, <3>3, <3>4 DEF Channel!Deliver
    <3> QED BY <3>5 DEF Channel!Next
  <2> QED BY <2>3, <2>4
<1>3. CASE HwSend
  BY <1>3 DEF HwSend, hwVars, rxVars, Channel!vars
<1>4. ASSUME NEW c \in Contexts, IsrEnter(c) PROVE UNCHANGED <<rxlog, out>>
  BY <1>4 DEF IsrEnter, hwVars, rxVars
<1>5. ASSUME NEW c \in Contexts, IsrReadSource(c) PROVE UNCHANGED <<rxlog, out>>
  BY <1>5 DEF IsrReadSource, hwVars, rxVars
<1>6. ASSUME NEW c \in Contexts, IsrAck(c) PROVE UNCHANGED <<rxlog, out>>
  BY <1>6 DEF IsrAck, hwVars, rxVars
<1>7. ASSUME NEW c \in Contexts, IsrReadMask(c) PROVE UNCHANGED <<rxlog, out>>
  BY <1>7 DEF IsrReadMask, hwVars, rxVars
<1>8. ASSUME NEW c \in Contexts, IsrWriteMask(c) PROVE UNCHANGED <<rxlog, out>>
  BY <1>8 DEF IsrWriteMask, hwVars, rxVars
<1>9. ASSUME NEW c \in Contexts, IsrSchedule(c) PROVE UNCHANGED <<rxlog, out>>
  BY <1>9 DEF IsrSchedule, hwVars, rxVars
<1>10. CASE PollStart
  BY <1>10 DEF PollStart, hwVars, rxVars, Channel!vars
<1>11. CASE RxRead
  BY <1>11 DEF RxRead, hwVars, rxVars, Channel!vars
<1>12. CASE RxAck
  BY <1>12 DEF RxAck, hwVars, rxVars, Channel!vars
<1>13. CASE RxRecheck
  BY <1>13 DEF RxRecheck, hwVars, rxVars, Channel!vars
<1>14. CASE RxNoMemory
  BY <1>14 DEF RxNoMemory, hwVars, rxVars, Channel!vars
<1>15. CASE TxRead
  BY <1>15 DEF TxRead, hwVars, rxVars, Channel!vars
<1>16. CASE TxAck
  BY <1>16 DEF TxAck, hwVars, rxVars, Channel!vars
<1>17. CASE TxRecheck
  BY <1>17 DEF TxRecheck, hwVars, rxVars, Channel!vars
<1>18. CASE TxReclaim
  BY <1>18 DEF TxReclaim, hwVars, rxVars, Channel!vars
<1>19. CASE TxWake
  BY <1>19 DEF TxWake, hwVars, rxVars, Channel!vars
<1>20. CASE PollComplete
  BY <1>20 DEF PollComplete, hwVars, rxVars, Channel!vars
<1>21. CASE PollReturn
  BY <1>21 DEF PollReturn, hwVars, rxVars, Channel!vars
<1>22. ASSUME NEW k \in Cpus, PollReadMask(k) PROVE UNCHANGED <<rxlog, out>>
  BY <1>22 DEF PollReadMask, hwVars, rxVars, Channel!vars
<1>23. ASSUME NEW k \in Cpus, PollWriteMask(k) PROVE UNCHANGED <<rxlog, out>>
  BY <1>23 DEF PollWriteMask, hwVars, rxVars, Channel!vars
<1>24. CASE XmitEnter
  BY <1>24 DEF XmitEnter, hwVars, rxVars, Channel!vars
<1>25. CASE XmitReady
  BY <1>25 DEF XmitReady, hwVars, rxVars, Channel!vars
<1>26. CASE XmitStop
  BY <1>26 DEF XmitStop, hwVars, rxVars, Channel!vars
<1>27. CASE UNCHANGED vars
  BY <1>27 DEF vars, hwVars, rxVars, Channel!vars
<1>28. CASE TxHalf
  BY <1>28 DEF TxHalf, HalfFree, hwVars, rxVars, Channel!vars
<1>29. CASE XmitFull
  BY <1>29 DEF XmitFull, RingFull, hwVars, rxVars, Channel!vars
<1> QED BY <1>1, <1>2, <1>3, <1>4, <1>5, <1>6, <1>7, <1>8, <1>9, <1>10,
           <1>11, <1>12, <1>13, <1>14, <1>15, <1>16, <1>17, <1>18, <1>19,
           <1>20, <1>21, <1>22, <1>23, <1>24, <1>25, <1>26, <1>27, <1>28,
           <1>29 DEF Next, Isr, Poll, Xmit, Channel!vars

(* Undamaged frames reach the stack in the order of reception, at most     *)
(* once: the driver and the core implement FrameChannel.                   *)
THEOREM ReceiveIsChannel == Spec => InOrderOnce
<1>1. Init => Channel!Init
  BY DEF Init, Channel!Init
<1>2. WakeInv /\ [Next]_vars => [Channel!Next]_(Channel!vars)
  BY ChannelStep DEF WakeInv
<1> QED BY <1>1, <1>2, WakeUps, PTL DEF Spec, InOrderOnce, Channel!Spec

=============================================================================
