# Formal models of iob-eth

TLA+ specifications, TLC runs and TLAPS proofs for the IObundle Ethernet core
(`iob_eth`, a 10/100 MII core with the register layout of the OpenCores ethmac)
and the software that drives it. Paths are relative to the root of the
repository's sources; line numbers are those of the files named.

## 1. The system

| Component | Source | State | Operations |
|---|---|---|---|
| MII receiver | `iob_eth_rx.v` | FSM `pc`, `addr_o`, capture register, CRC | hunt for the SFD, six destination bytes, payload, push `{crc_err, length}` |
| MII transmitter | `iob_eth_tx.v` | FSM `pc`, `addr`, `ready_o` | wait for `send`, preamble, payload, FCS |
| Data Transfer block (DT), receive half | `iob_eth_dt.v` 687-951 | `rx_state`, `rx_bd_num`, pointer, counter, `rx_force_resync` | read descriptor, pop info word, AXI write bursts, status write |
| DT, transmit half | `iob_eth_dt.v` 245-467 | `tx_state`, `tx_bd_num`, copy of the descriptor, counters, `send_o` | read descriptor, preamble, AXI read bursts, send, status write |
| Clock crossing | `iob_eth_cdc.py`, FIFOs in `iob_eth.py` 1602-1709 | synchronised flags and pointers | - |
| Registers and glue | `iob_eth.py` 1205-1543, 1839-2002, `iob_eth_logic.py` | 17 ordinary registers, INT_SOURCE, TX_BD_NUM, registered `rvalid`s, captured RX_NBYTES | bus accesses with ready and rvalid, set by events, write-one-to-clear, FRAME_WORD handshake |
| No-DMA access of the DT | `iob_eth_dt.v` 351-393, 781-853 | byte counters, prefetched byte, `rx_nbytes_valid` | a byte per FRAME_WORD access |
| PHY reset | `iob_eth.py` 738-757, 1545-1576, 1925-1931, `iob_eth_cdc.py` | counter, reset synchronisers, both resets of each FIFO | count down, cross into the MII domains; software polls PHY_RST_VAL |
| Stand-alone interrupt controller | `iob_eth_intc.py` | INT_SOURCE, INT_MASK | not instantiated, not modelled |
| MII management | `iob_eth_mii_management.v` | FSM, `bit_cnt`, shift registers, `start_req` | MDC, MDIO frames |
| PHY of the simulation | `iob_phy_model.v` | register file, its own bit counter | answer MDIO frames |
| Linux driver | `software/linux/ethoc-7.0.6.c` | rings (`cur_tx`, `dty_tx`, `cur_rx`), NAPI state, software queue | interrupt, poll, start_xmit, watchdog, ring set-up, mdio |
| Bare-metal driver | `software/src/iob_eth.c` | one descriptor each way | init, send, receive with time-out, mii, file transfer |
| Host scripts | `scripts/eth*.py` | byte, frame and error counts | synchronise, send and await the echo, receive and echo |
| PC emulation | `iob_eth_swreg_pc_emul.c` | registers over a raw socket | - |

How they interact. A received byte goes line -> receiver -> data FIFO -> DT ->
memory; for each frame one info word goes through a second FIFO beside it. The
DT pops as many bytes as the word says. Both FIFOs cross clock domains, so full
and empty flags lag. Descriptors are shared memory between DT and driver, with
one owner bit each (EMPTY, READY). On the way out the DT copies a frame into a
FIFO, raises `send_o` until it has seen the transmitter leave idle through two
synchronisers, then until it is idle again, then writes the status. Status
writes raise interrupt events; the driver acknowledges them and looks at
descriptors, in an order that decides whether a wake-up is lost. Writing
TX_BD_NUM splits the descriptor table anew and asks both halves of the DT to
restart at the first descriptor - when they are between frames.

What is hard:

- lagging full/empty flags while frames overrun a FIFO in their middle;
- two streams (bytes and lengths) that must never come apart, since nothing
  re-aligns them short of a reset;
- ring re-initialisation at any moment of a transfer;
- the send/ready handshake through synchronisers of unknown delay;
- interrupt, watchdog, soft interrupt and sender sharing registers that are
  changed by read-modify-write, and rings without a common lock;
- MDIO, where two drivers share a wire and one register clears itself;
- register accesses answered a cycle after the request, while the state they
  report changes, and a bus that cannot take back an access;
- FIFOs whose two sides are reset by different signals at different times;
- a transfer protocol without sequence numbers on a line that loses frames.

What makes each component correct: receive path - whole undamaged frames, in
order, at most once, in buffers the core owns, streams aligned, no deadlock;
transmit path - the same towards the line, no under-run, buffers and
descriptors of unsent frames kept; interrupts and NAPI - nothing waits that
nobody was told of; MII management - a register file behind a wire;
registers - no event lost, no access that hangs, whole frames through
FRAME_WORD; reset - both sides of every FIFO agree before the first word; file
transfer - a sender without complaint has delivered the file.

`PROJECT.json` lists every component with what is left out of it, and the
hazards with the properties aimed at them.

## 2. Modules

| Module | Role |
|---|---|
| `FrameChannel` | abstract: a channel that loses frames but never damages, duplicates or reorders them |
| `RxPath` | receiver, FIFOs, DT receive half, descriptors, driver's ring and `ethoc_rx` |
| `MCRxPath` | `RxPath` with legal frames; runs `rx_path`, `rx_reinit` |
| `RxPathProofs` | TLAPS proofs about `RxPath`: the ring initialised any number of times; initialised once, it implements `FrameChannel` |
| `TxPath`, `MCTxPath` | driver's transmit side, DT transmit half, FIFO, handshake, transmitter; runs `tx_*` |
| `TxPathProofs` | TLAPS proofs about `TxPath` |
| `RingArithmetic` | slots of a ring: what the proofs about rings use of `%` |
| `EthocNapi`, `MCEthocNapi` | INT_SOURCE and INT_MASK, `ethoc_interrupt`, `ethoc_poll`, `ethoc_start_xmit`, watchdog; runs `napi_*` |
| `EthocNapiProofs` | TLAPS proofs about `EthocNapi` |
| `PhyPort` | abstract: register reads and writes of a PHY, atomic, one at a time |
| `MiiMgmt`, `MCMiiMgmt` | driver's mdio access, controller, MDIO line, PHY; run `mii_path` |
| `MiiMgmtProofs` | TLAPS proofs about `MiiMgmt` |
| `CsrTable` | the register map: reset values, and who keeps each register |
| `EthCsrs`, `MCEthCsrs` | register bus, registers, glue logic, interrupt source, the DT's states behind FRAME_WORD, per clock cycle; run `core_bus` |
| `EthCsrsProofs` | TLAPS proofs about `EthCsrs` |
| `BringUp`, `MCBringUp` | PHY reset counter, reset synchronisers, the FIFOs' two resets, PHY_RST_VAL; run `bring_up` |
| `BringUpProofs` | TLAPS proofs about `BringUp` |
| `FileTransfer`, `MCFileTransfer` | host scripts and board functions over a lossy line; run `file_transfer` |
| `FileTransferProofs` | TLAPS proofs about `FileTransfer` |

### RxPath

A receiver step is one byte slot of the line (FSM states 2+3 or 4+5; two MII
clocks), in which the line moves too: `RxHunt`, `RxDest`, `RxPayload`,
`RxPush`/`RxHold` are states 0-1, 2-3, 4-5 and 6. A byte is `<<frame, index>>`;
`Junk` is what the capture register holds outside a frame. The data FIFO is
kept as the history `hist` of accepted bytes with a read position `rp`, and
what the receiver sees of it is `rseen <= rp`, moved by `SyncRead` at any time:
that stands for any synchroniser delay. The info FIFO is the same with `info`,
`ird`, `pseen` (towards the receiver) and `iseen` (towards the DT). `DtReadBd`
to `DtWriteStatus` are the `rx_state`s; `DtResync` is the reset of the state
machine at the end of the module, `Consuming` the condition that defers it.
The DT's AXI words are bytes (a beat carries one), bursts are cut by
`MaxBurst`. The driver hands frames up and gives descriptors back (`SwReceive`)
and re-initialises the ring as `ethoc_set_ringparam` does (`SwStop`,
`SwSetBdNum`, one `SwInitBd` per descriptor). `wrap` is the WRAP bit that the DT
latches with the descriptor in state 1, follows in state 7 and writes back with
the status: after a re-initialisation that is a bit of the old ring. `base` and
`last` are the driver's idea of the ring. The CRC is the verdict "the bytes
since the last info word are one whole undamaged frame".

### TxPath

`TxReadBd` to `TxWriteStatus` are `tx_state` 0-8. `send` and `ready` cross
through `SyncSend` and `SyncReady`, at any time, with one limit: `InTime` does
not let the transmitter past the `Lag`-th byte of a frame while it still sees
`send` high. Without that limit a fall of `send` later than the end of the
frame would start another out of an empty FIFO, since state 13 goes to state 0
and state 0 starts on `send_i` without more ado (`iob_eth_tx.v:50` and 91-96).
What has to fit into the frame is `ready` through its two flops, state 7 of the
DT and `send` through its two flops: about four clocks of the system and two of
the line, against two clocks of the line for each of the 8 bytes of preamble
and 60 of payload (`ethoc` pads) before the FCS. Only a `clk_i` some thirty
times slower than the MII clock would break it. The transmitter sends a byte per
step; `wire` is what it put on the line since `tx_en_o` rose and `Seen` what a
station makes of it (the frame's number if it is whole, otherwise 0).
`ethoc_start_xmit` is two steps (`SwFill`, `SwReady`), because the descriptor is
set up before READY; `SwReclaim` (`ethoc_tx`) does not fall between them, which
is one CPU. On several it does (4 in section 5).

### EthocNapi

One step per register or descriptor access, so that hardware events, interrupt
and watchdog fall between any two of them: `RxRead`, `RxAck`, `RxRecheck` are
the look, the acknowledgement and the second look of `ethoc_rx`; `PollReadMask`
and `PollWriteMask` the two halves of `ethoc_enable_irq`, kept per CPU (`tail`):
after `napi_complete_done` another CPU may poll before the first has enabled the
events. `RingFull` and `XmitStop` are the check of the full ring and
`netif_stop_queue`, `HalfFree` and `TxWake` that of the free half and
`netif_wake_queue`: two steps each. `Cpus` are the CPUs. On one, an interrupt
preempts the poll but not `spin_lock_irq`, and soft interrupts do not preempt
each other (`NoPoll`); on several (`Smp`) all of them run side by side. The
NAPI core (`napi_schedule`, `napi_complete_done`, the poll list) is external,
modelled from the driver's use of it: SCHED, MISSED, and "a poll that returns
less than its budget is not called again".

### MiiMgmt

A step of the line is an edge of MDC; the controller's and the PHY's registers
change in the same step, as both are clocked by it. `HwClear` is the self-clear
of MIICOMMAND and the load of MIIRX_DATA at the end of a frame, some system
clocks after the edge. Field widths are constants, so the bit positions (`ST`,
`PHY`, `REG`, `TA`, `DAT`, `END`) are computed from them; with 32, 5, 5, 16
they are those of the code. The PHY's registers start with any contents. Reads
of the driver take MIIRX_DATA when BUSY is clear.

### CsrTable and EthCsrs

The step of `EthCsrs` is one cycle of `clk_i`, and `Next` the conjunction of
what every block does in it: `Bus`, `Registers`, `Receive`, `Transmit`,
`Descriptor`, `Interrupts`. That makes "the cycle after" and "in the same cycle"
expressible, which is where this part can go wrong. Registered outputs are
variables (`rvalid`, `nbytes`, `bdq`, `src`), combinational ones operators
(`Ready`, `RxWordReady`, `Irqs`). The bus is the generated CSR block (a
submodule): one access at a time, `req` until ready, `rv` until rvalid, the next
access at once or later. Software does one of three tasks: reads and writes
ordinary registers and reads the counters and MIISTATUS; receives; transmits;
the last two while it polls and clears INT_SOURCE.
No driver of the repository uses FRAME_WORD, so the model's software keeps to
what the register descriptions say: RX_NBYTES first and then that many bytes,
and a descriptor is armed again only once the core has handed it back. Reads
of FRAME_WORD without a frame, or writes without a descriptor, stall the bus:
that is the code, and the reason why `EveryAccessEnds` is about this software.
`CsrTable` is the register table of `iob_eth.py`; MIICOMMAND and MIIRX_DATA,
which the core changes, belong to `MiiMgmt`.

### BringUp

`arst_i` clears the system side of each FIFO at once; the MII sides are cleared
by `phy_rst` after `iob_reset_sync` (`rs`) and a two-flop synchroniser (`s1`,
`s2`) of their clock. `gap` counts `clk_i` cycles since an MII clock's last
edge; `Rate` bounds it. `ptr` is where the two sides of a FIFO believe to be;
power-up starts the MII sides anywhere, a warm reset (`Assert`) may cut a frame
short. `Enable` is `eth_wait_phy_rst` followed by RXEN and TXEN; the DT moves
words only then, the MII sides whenever they are not in reset.

### FileTransfer

One step per frame sent or received. The two queues `there` and `back` are the
line and what the receivers have buffered; frames are their payloads. The
padding is modelled by what it does: zeros on the host (`FormPacket`), what lies
behind in memory on the board (`Memory`, `Junk`). A time-out fires when nothing
is on its way, or - `MaxEarly` times - although something is. Both directions
and both kinds of size (known, announced) are initial states.

## 3. Runs

| Run | Question | Result |
|---|---|---|
| `rx_path` | Overruns, runts, damaged frames, any synchroniser delay: are only whole frames delivered, in order, at most once; is everything drained and does the receiver always return? | holds |
| `rx_reinit` | TX_BD_NUM rewritten at any moment: do byte and length streams stay aligned, are delivered frames whole, are buffers of software left alone? | holds |
| `tx_path` | One CPU, one initialisation: whole frames in order once, buffers and status kept, everything sent | holds |
| `tx_reinit` | Frame boundaries and under-run with re-initialisation at any moment | holds |
| `tx_stale_status` | Does the status write land on the right descriptor after a re-initialisation? | violated |
| `napi_path` | One CPU: no lost wake-up, everything delivered, reclaimed, woken | holds |
| `napi_smp` | Several CPUs, failing allocations: masks, transmit event, order | holds |
| `napi_stuck` | Liveness with as many transmit descriptors as the budget (128 descriptors) | violated |
| `mii_path` | Is the MDIO interface a register file, free of contention, and does every operation end? | holds |
| `core_bus` | Frames through FRAME_WORD whole, no event lost to a write, no access hangs | holds |
| `bring_up` | Have both MII domains been reset, and does each FIFO count only words written since, once software enables the core, after power-up or a warm reset at any moment, and does the end of the reset swallow nothing? | holds |
| `file_transfer` | Does a transfer without reported errors deliver the file, and does it end? | holds |

Four of the properties are refinements: `InOrderOnce` of `RxPath`, `TxPath`
and `EthocNapi` says that each implements `FrameChannel` (what entered: the
frames of the line, of the stack, of the ring), `ImplementsPhyPort` that
`MiiMgmt` implements `PhyPort`.

Bounds and why they are enough. Frames are 1 to 4 bytes, `DaLen` 2 instead of
6: runts shorter than the destination address, frames that just pass it, and
frames of several bursts (`MaxBurst` 2) occur; nothing in the code depends on
the widths but the wrap of `addr_o`, which `LenMod` sets. `Depth` 4 or 5 is
less than two frames, so FIFOs overrun at every byte of a frame; `InfoDepth` 1
fills with one waiting frame; `rx_path` has a single receive descriptor
(`Bases` and `Lasts` are {0}) and three frames, so that the DT waits for the
driver with the second, the info FIFO full of the third, or the receiver stuck
in the destination loop behind it. `RxProgress` says that such a state does not
last: again and again nothing received is left in the FIFOs and the receiver
is back in its SFD state (`Drained`). In `rx_reinit` the FIFO is deep enough
that a frame waits behind the one in transfer, and the receive ring, of one
descriptor or two, may start and end elsewhere after the second initialisation,
so that a WRAP bit of the old ring, written back by the DT, is in the way of the
new one. Four frames through two descriptors wrap the transmit ring. `Lag` 2
lets `send` fall as late as before the last byte of the shortest frame.
`napi_path` sends three frames each way through one receive and two transmit
descriptors, so both rings fill up and are reused during a poll; `Budget` 3 is
reached by receive work (the poll goes on) and, on one CPU, never by transmit
work, since nothing is sent during a poll. `napi_smp` has two CPUs, which are
interchangeable (symmetry), two frames each way, two receive descriptors and a
transmit ring of one, the smallest `ethtool` allows (`ethoc-7.0.6.c:984`), which
is full after every frame; liveness is not among its properties, because with
several CPUs the ring is refilled during the poll and the defect of `napi_stuck`
is there for any budget: two frames are only too few to show it. `mii_path` has
2-bit PHY addresses, 1-bit register addresses and 2-bit data: three operations
with every order of reads and writes, all register contents, and an address
without PHY. `core_bus` moves three frames of two or three bytes each way and
lets the bus idle, stall or go on at every cycle; its FIFO holds just the
longest frame with preamble. `bring_up` has the shortest reset that satisfies
its assumption (`PHY_RST_CNT` 9 > 4 * `Rate` 2; with 8 `FifosAligned` fails),
two warm resets and FIFOs of arbitrary contents. `file_transfer` has empty-free
files of one to three frames, among them a multiple of the frame size and a last
frame shorter than the minimum, three losses and three early time-outs.
`MaxFrames`, `MaxReinit`, `MaxRx`, `MaxTx`, `MaxOps` bound the behaviours;
because of them deadlock is not checked (`CHECK_DEADLOCK FALSE`): a bounded
system stops.

Fairness. Weak fairness of the hardware's steps: clocks run, the AXI slave
answers and the arbiter of the descriptor memory is round-robin. Of the
software only what it must do once begun: a raised and unmasked interrupt is
taken, a listed NAPI is polled, a ring initialisation is finished, a poll of
BUSY goes on. The poll has strong fairness: the watchdog looks at masked
sources too and may come and go for nothing, but it fires every few seconds and
a raised soft interrupt is run in between. Nobody is obliged to send, to stop,
or to fire the watchdog. In `core_bus` the clock runs, the descriptor arbiter
grants and the transmitter starts and finishes what it is sent; software owes
nothing. In `bring_up` the three clocks run and software keeps polling. In
`file_transfer` both programs run and a time-out comes in the end; the line
need not lose or deliver anything, `TransferEnds` says which losses it
tolerates (`Benign`).

## 4. Proofs

`RxPathProofs` proves, for every value of the constants with frames shorter
than the byte counter (`LegalFrames`; `ConstAssumption` for the rest):

- `AlignedInvariant`: `Spec => []Aligned`. This is the inductive invariant;
  `rx_reinit` checks it too. The property one wants, that every
  info word describes exactly the bytes accepted for its frame (`LengthTrue`)
  and that the FIFO is never strobed empty (`NoUnderflow`), does not stand by
  itself: one needs where the DT is in the byte stream in each state
  (`TransferInv`: between frames `rp` is the end of the last frame popped;
  within one it is the start plus the bytes written plus the one read ahead),
  that frames are not empty (`FramesInv`, from `AddrInv`: at least `DaLen`
  bytes were counted), that the counter does not wrap (`AddrInv` with
  `LineInv` ties it to the line's position, `LegalFrames` then bounds it) and
  that synchronised pointers only lag (`PointerInv`). The proof has one lemma
  per action (`RxHuntStep` ... `DtResyncStep`, `DriverStep`).
- `TypeInvariant`, `LengthInvariant`, `NoUnderflowInvariant` follow from it.
- `OwnInvariant`: from the moment EMPTY was seen until the status write, the
  descriptor stays EMPTY; `FullBufferKeptTheorem`: hence no step writes a
  buffer whose descriptor belongs to software. Neither needs `LegalFrames`
  beyond typing; both cover re-initialisation at any time.
- `DeliveredWholeTheorem` (`Spec => []DeliveredWhole`): a buffer handed to the
  stack holds one whole undamaged frame. `VerdictInv` says that a word without
  the CRC flag stands for such bytes in the stream, `WrittenInv` that the part
  of the buffer written so far is what the stream says. Both need `Aligned`
  (where the bytes of a word are) and `OwnInv` (that the status lands on the
  descriptor whose buffer was written, and the driver does not look earlier).

With one initialisation of the ring (`MaxReinit <= 1`; with two `InOrderOnce` is
false, 12 in section 5) it proves moreover `ReceivePathIsChannel`
(`Spec => InOrderOnce`): the refinement of `FrameChannel`. `DeliveredWhole` says
nothing about order; here two orders have to agree. `StreamInv`: bytes, and with
them words, are accepted in line order, none twice. `OnceInv`: the words lie in
the ring in that order. `Behind(b)` counts the descriptors from `b` to the one
the DT is at, `Waiting` those the driver has not handed up; the descriptor `n`
behind holds the `n`-th last word that became a status (`WaitingInv`,
`ContentInv`), and what was handed up are words before those (`GotInv`).
`ChannelStep` maps each step: a byte of the line that begins a frame to `Enter`,
`SwReceive` of a good frame to `Deliver`, all others to stuttering.

`BringUpProofs` proves, for every length of the PHY reset, every `Rate` with
`PHY_RST_CNT > 4 * Rate` (`RateAssumption`) and any number of warm resets:

- `ResetTypeCorrect`, `AlignedAfterReset` (`Spec => []FifosAligned`) and
  `NothingSwallowedByReset` (`Spec => NothingSwallowed`). The argument is a
  race: the counter against four edges of a slow clock. `Timed` bounds how many
  edges an MII domain has seen by how far the counter has come, `Settled` says
  what its synchronisers hold once enough edges were seen, `Held` that they
  stay so, `Waited` that software enables the core only then. `MiiIdle` and
  `FreshAligned` carry it to the pointers, `Counted` says that a side which was
  reset counts no more words than were written since.

`EthCsrsProofs` proves, for every set of frame lengths, every depth of the FIFO
that holds the longest frame with its preamble (`CsrAssumption`) and any number
of frames and accesses:

- `CsrTypeCorrect`, `FramesReadWhole` (`Spec => []FramesWhole`),
  `FramesSentWhole` (`Spec => []SentWhole`) and `NoEventCleared`.
  The invariant `Inv` says, for each state of software, in which states the DT
  may be and how many bytes are left (`SendWalk`, `RecvWalk`, `RecvCount`), where
  the FIFO's read pointer is in each state of the DT (`StreamInv`), and which
  answers on their way to software are still true (`RecvAnswers`). The last is
  what makes it inductive: an access is answered a cycle after the state it
  reports. A byte taken from the FIFO counts as served but not as read while it
  is pending; in the cycle in which the last one is pending, and only then, the
  DT is in state 5 with nothing left to serve. `BusSends` and `BusReceives` sum
  up what a cycle of the bus does; `SendStep` and `RecvStep` combine that with
  the states of the DT. That the frames lie in the FIFO without gaps (`Ends`)
  carries `End(f) <= Len(hist)` for every frame: monotonicity would need an
  induction.

`TxPathProofs` proves, for every ring, burst length, set of frame lengths, every
FIFO that holds the longest frame with its preamble (`ConstAssumption`), any lag
of the FIFO's flags, any delay of the handshake that ends before the shortest
frame does (`LagAssumption`; section 2 says why it does), a driver on one CPU and
any number of re-initialisations at any moment:

- `TypeCorrect` (`Spec => []TypeOK`: the descriptor pointer, which follows a
  WRAP bit read from memory, never leaves the table), `FifoNeverUnderruns`
  (`Spec => []NoUnderrun`) and `FramesKeptApart` (`Spec => []FrameBoundary`).
  The FIFO has no marks between frames, so both rest on the two sides never
  working on different frames at once. `HandInv` says which states of the
  handshake occur together: from the fall of `send` to the end of the frame the
  DT sees the transmitter busy and waits in state 4. `ClockInv` is what
  `LagAssumption` buys: when the frame has ended, its `send` is no longer seen.
  Given that, `LevelInv` says how many bytes the FIFO holds: all of the frame to
  be sent (`Put`) while the transmitter is idle, the rest of the frame on the
  line while it is not. `FetchInv` counts the bursts. `RingInv` is for `TypeOK`:
  a READY descriptor is one the driver filled, and the last of a full-size ring
  has WRAP set, whichever re-initialisation wrote it. One lemma per action
  (`TxReadBdStep` ... `SwInitBdStep`).

With one initialisation of the ring (`MaxReinit <= 1`; `tx_stale_status` shows
what happens with two) it proves moreover `BufferKeptTheorem`,
`StatusOfOwnFrameTheorem` and `TransmitPathIsChannel`, the refinement of
`FrameChannel`. Frame `k + 1` goes through descriptor `At(k)`. `Done` counts the
statuses written, and `TurnInv` says `dty <= Done <= cur <= dty + num` with the
DT at `At(Done)`: the driver reclaims behind the DT and fills before it.
`SlotsInv` says that the descriptors from `Done` to `cur - 1` hold the frames of
their numbers and that no other is READY; it is why a descriptor that is not
READY may be reclaimed, and why `SwFill` misses the buffer being read. From
there `TextInv` follows the bytes: the FIFO holds the frame of the DT's turn,
the FIFO and the line together the frame on the line. `SeenOwn` concludes that a
station sees that frame and no other. `OrderInv` has one lemma per group of
actions, `TextInv` one per action that moves a byte, and `TextKept` for the
rest.

`EthocNapiProofs` proves, for rings, budgets and numbers of frames of any size,
on one CPU or several unless said otherwise (`ConstAssumption`):

- `NapiTypes`, and `TransmitSideAwake` (`Spec => []TransmitAwake`), whether or
  not allocations fail; `NothingForgotten` (`Spec => []NoLostWakeup`) as long as
  they do not (`AllocFails = FALSE`; 5 in section 5 is what happens otherwise).
  A wake-up is in INT_SOURCE until it is acknowledged, then in the program
  counter of a handler on its way to `napi_schedule`, then in NAPI's flags, then
  in the poll that has still to look. `SendInv` and `ReceiveInv` say that it is
  always in one of these places, `MaskInv` that masked events are somebody's to
  enable, `SchedInv` that who is listed or runs is scheduled.
- `ReclaimedIsSent` (`Spec => []SentIsSent`) on one CPU (`~Smp`; 4 in
  section 5): there `ethoc_start_xmit` and `ethoc_poll` do not interleave, and
  `ReadyInv` ties READY to the positions of core and driver in the ring.
- `ReceiveIsChannel`: the refinement of `FrameChannel`, on any number of CPUs:
  only NAPI's owner moves `cur_rx`. `Taken(r)` says what the ring holds when `r`
  frames have been taken.

`MiiMgmtProofs` proves, for preambles, addresses, registers and counters of any
width that fit (`ConstAssumption`), whenever MIICOMMAND clears itself:

- `InStep` (`Spec => []MiiInv`), and from it `MiiTypes` and `LineDrivenByOne`
  (`Spec => []NoContention`). The PHY has nothing but the line to go by:
  `SyncInv` says that from the second start bit on it counts with the
  controller, `LineInv` which bit the line carries before a rising edge. The two
  drivers of the line turn round with a bit between them.
- `PortImplemented`: the refinement of `PhyPort`, for addresses with the same
  last bit (`EvenAddresses`; the model of the PHY decides before it has that
  bit, 11 in section 5). `AddressInv`, `WriteInv` and `ReadInv` say for each
  position in the frame which part of the address or word is where: on the
  sender's side what is left, on the receiver's what was sent.

`RingArithmetic` has the lemmas on `%` all proofs about rings need; `Slot` keeps
`%` out of their obligations, where the SMT solver would lose itself in it.

`FileTransferProofs` proves, for files of any length, frames of any size
(`ConstAssumption`), and any number of losses, repetitions and early time-outs:

- `HostSendsIntact`: when the host sends without the size first and ends with no
  error counted, the board has ended too and holds the file, whatever its bytes.
- `CleanIsIntact` (`Spec => []CleanMeansIntact`): the same for every sender that
  compares what comes back, on the assumption that no file contains the byte
  `Junk` that stands for what lay in the board's memory before (`NoJunk`; 20 in
  section 5 is why). The files of `file_transfer` satisfy it; for a file of
  `Junk` alone TLC shows that the property does not hold.

Frames carry no number, so the argument counts. `CountInv`: every answer the
receiver gave was taken, lies on the line or was lost. The receiver answers each
item once, so a sender that has taken an answer per item knows that none was
lost, and then the `j`-th answer is the echo of the `j`-th frame stored
(`EchoInv`), which the sender found equal to its `j`-th item (`AckInv`).
`SizeInv` allows for a ping taken for a size of 0: the first echo that follows
differs from its item, so a sender without errors had its size understood.
`TransferInv`, their conjunction, is inductive (one lemma per action). The rest
is about data: byte `p` of the file lies in frame `NumFrames(p)`, and
the frames joined are the file (`FlattenFull`). `FlattenSeq` is a recursive
function, so this needs induction over the number of frames: `SetInduction`
gets it from the library's well-foundedness of `<` on `Nat`, for a set in place
of a predicate.

Only model-checked: the liveness properties (`RxProgress`, `AllSent`,
`EveryFrameDelivered`, `TxProgress`, `OperationEnds`, `EveryAccessEnds`,
`EventuallyUp`, `TransferEnds`), as fairness is out of the provers' reach. That
the invariants of the proofs hold in more than the initial state was checked
with TLC before each was proved.

## 5. Where code and words differ

Found while modelling; 2 and 3 have a run.

1. A frame with as many accepted bytes as the data FIFO has room for makes
   `addr_o` (as wide as the FIFO's address) wrap; the info word then says 0 (or
   a length modulo 2048), bytes are orphaned, and the receiver can stay in the
   destination loop for ever (`iob_eth_rx.v:46` against 67-71). Legal frames are
   shorter; `RxPath` with a frame of `LenMod` bytes shows it.
2. The transmit status write of a frame in flight during a re-initialisation
   overwrites a new frame's descriptor with the old one (`tx_stale_status`;
   `iob_eth_dt.v:428` against 226-229 and 457-459).
3. `ethoc_poll` returns without completing when transmit work alone reaches
   the budget, and NAPI never runs again (`napi_stuck`; `ethoc-7.0.6.c:629`).
   With 128 descriptors ring and weight are both 64. On several CPUs a smaller
   ring does not help.
4. On several CPUs `ethoc_tx` takes a descriptor whose READY bit is yet to be
   set for a sent one (`SentIsSent` with two CPUs; `ethoc-7.0.6.c:911` against
   196). Likewise a ring found full may be free again, and the queue woken,
   before `ethoc_start_xmit` stops it (929-931 against 557); it then stays
   stopped until the next poll. And a ring found half free may be full again,
   and the queue stopped, before `ethoc_tx` wakes it (556-557): the next frame
   overruns it, the second frame when the ring is of one.
5. After a failed allocation the poll completes with the frame waiting and its
   event acknowledged (`NoLostReceive`, `ethoc-7.0.6.c:477`); and the frame
   counted and logged as dropped is delivered by a later poll (474-478).
6. `iob_eth_rx.v:67` says the FSM "never parks on data-FIFO back-pressure"; it
   loops in states 2 and 3 until the DT drains a byte (line 105).
7. `iob_eth.py:1678` says the receiver "never blocks on a full info FIFO"; eight
   short frames fit into the data FIFO while one is drained.
8. RXEN gates the DT only (`iob_eth_dt.v:765`): frames of before the enabling
   are delivered after it.
9. NOPRE (`iob_eth_mii_management.v:140`) is overwritten at line 175: the
   preamble is always sent, `custom.tex` documents the bit.
10. A CLKDIV of 1 stops MDC (`iob_eth_mii_management.v:26`: the difference is
    taken before the comparison, in 32 bits); the divider chosen by
    `eth_init_phy` is truncated, so MDC exceeds the 2.5 MHz of its comment for
    some clocks.
11. `iob_phy_model.v:83` compares `phy_addr` before its last bit is latched, so
    the model also answers at one neighbouring address (line 6: "when PHY_ADDR
    matches"). `mii_path` keeps to addresses that differ in another bit.
12. After a re-initialisation during reception the status of the old frame
    lands in the fresh ring, out of turn, or, when TX_BD_NUM has grown, in a
    transmit descriptor; delivery order then may break. The status brings the
    WRAP bit of the old ring along (`iob_eth_dt.v:892`): the DT may wrap, or
    fail to, where the driver does not, and then waits at a descriptor that the
    driver comes to no more. `InOrderOnce` and `RxProgress` are therefore
    checked with one initialisation, the rest of the receive side with any.
13. File transfer without sequence numbers: a lost answer to a ping leaves a
    second ping on the line, which the receiver takes for the first item, and
    the last frame is then never acknowledged: the host repeats it for ever,
    the board as the sender waits for ever, as it repeats nothing. After
    time-outs that were too short an echo belongs to an earlier copy; the sender
    counts these as errors ("File transmitted with %d errors"), but errors of
    the size are only printed (`ethSendVariableData.py:25`), and
    `eth_send_variable_file` does not look at the echo of the size at all
    (`iob_eth.c:706`): a ping taken for the size goes unnoticed there, which is
    why `CleanMeansIntact` leaves that case out.
14. `SendFile` returns at once for an empty file (`ethSendData.py:28`), after the
    size has been announced; the board computes one frame for size 0 and waits
    for it (`iob_eth.c:598`). Files of the runs are not empty.
15. `RcvFile` writes payloads as they come, padding included; only a wrong byte
    count is reported (`ethRcvData.py:55`).
16. The scripts use `sys.argv[3]` as TIMEOUT (`ethBase.py:59`) and as the file
    name (`ethSendData.py:69`): run as programs, they need a file whose name is
    a number. `eth2file.py` demands exactly three arguments (line 92) and so
    never sees its option `-f`, and passes its filter as a tuple (line 101).
17. `eth_rcv_frame` gives up while its descriptor is armed and frees the buffer
    (`iob_eth.c:522-526`); RXEN is cleared, but a DT past state 1 no longer
    looks at it, and the next frame goes into the freed buffer.
18. The reset relies on MII clocks that run while `phy_rstn_o` is low
    (`RateAssumption`); a PHY that stops them leaves the MII sides of the FIFOs
    as they were. The Linux driver does not look at PHY_RST_VAL.
19. A FRAME_WORD frame longer than the TX FIFO (less the preamble) stalls the
    bus for good: nothing is sent before the last byte is written
    (`CsrAssumption` excludes it).
20. The board compares an echo with as many bytes as it sent, whatever length
    came back (`iob_eth.c:651`, after `eth_rcv_frame` took the frame): behind a
    shorter echo it reads what the buffer held before. Its own frames are padded
    with what lies behind their payload (lines 617 and 644), and a ping taken
    for a size of 0 makes it echo nothing else. If that memory happens to hold
    the bytes of the file, a transfer whose first item was a ping ends without
    errors and without the file (`NoJunk` in `FileTransferProofs` excludes it).

## 6. Not modelled

The values of TX_BD_CNT, RX_BD_CNT and the word counters (progress reports
nobody acts on);
systems that use DMA and FRAME_WORD together; the values of the ordinary
registers, kept by the generated CSR block (but MODER's); the stand-alone
interrupt controller, which the core does not instantiate; in the bare-metal
driver the descriptor handling of `eth_send_frame` and `eth_rcv_frame` (rings of
one, as in `RxPath` and `TxPath` with the same hardware; the late time-out of 17
is seen in `FileTransfer` as a lost frame); time-outs of the mdio functions (MDC
would have to be slower than their patience; a hazard names what would follow);
the PC emulation, which runs the firmware without the core; probe, ethtool and
multicast of the Linux driver; the simulation wrapper and the frame relay
`eth2file.py`; statistics and logging. The AXI bus, the CSR block's bus, the
FIFO library and the synchronisers are submodules, seen from the core's side: in
`BringUp` a FIFO's pointers reach the other side at once. Bytes stand for AXI
words and nibbles.

## 7. Plan

Done: `RxPath` and `TxPath` with `FrameChannel`, `EthocNapi`, `MiiMgmt` with
`PhyPort`, `EthCsrs`, `BringUp` and `FileTransfer`, all with
their proofs. Next, in this order:

1. the order of both paths across a re-initialisation: which frames may come
   out of turn, instead of none (`MaxReinit <= 1`);
2. the bare-metal driver's descriptor (`eth_rcv_frame` that gives up with its
   descriptor armed, 17 above) and its mdio time-outs;
3. ring re-initialisation together with interrupts and NAPI;
4. the CRC against its bit-serial definition, the MDC divider.
