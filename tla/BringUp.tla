------------------------------ MODULE BringUp ------------------------------
(***************************************************************************)
(* Reset of the core (iob_eth.py, iob_eth_cdc.py): the PHY reset counter,  *)
(* the reset synchronisers of the two MII clock domains, the three         *)
(* asynchronous FIFOs whose two sides are reset by different signals, and  *)
(* software that waits for PHY_RST_VAL to fall before it enables RX and TX *)
(* (MODER is reset with both off).                                         *)
(*                                                                         *)
(* arst_i resets the system domain at once.  An MII domain is first        *)
(* released by arst_i (its phy_rst synchroniser is cleared) and is reset   *)
(* some of its own clock edges later, when phy_rst has come through: in    *)
(* between the two sides of a FIFO disagree about what is in it.           *)
(***************************************************************************)
EXTENDS Integers

CONSTANTS
  PHY_RST_CNT,  \* length of the PHY reset, in cycles of clk_i
  Half,         \* the weight of the counter's top bit: 2^20
  Rate,         \* cycles of clk_i between two edges of an MII clock, at most
  MaxResets,    \* bound: resets after the first
  MaxWords      \* bound: words through a FIFO between two resets

ASSUME CounterAssumption ==
  PHY_RST_CNT \in Nat \ {0} /\ Half \in Nat /\ PHY_RST_CNT <= Half

(* The MII clocks run while the PHY is held in reset, and the reset spans  *)
(* four edges of the slower one.                                           *)
ASSUME RateAssumption ==
  Rate \in Nat \ {0} /\ PHY_RST_CNT > 4 * Rate

ASSUME BoundAssumption == MaxResets \in Nat /\ MaxWords \in Nat

VARIABLES
  arst,    \* arst_i
  cnt,     \* phy_reset_counter
  on,      \* software has set RXEN and TXEN
  rs,      \* per MII domain, iob_reset_sync: edges until arst is released
  s1, s2,  \* per MII domain, the two flops of the phy_rst synchroniser
  gap,     \* per MII domain: cycles of clk_i since its last edge
  ptr,     \* per FIFO: words written (w) and read (r), as each side counts
  fresh,   \* history: MII domains reset since the last arst_i
  wrote,   \* history: per FIFO, words written since its write side was reset,
           \* or since the last arst_i if it has not been
  resets   \* resets so far

fifoVars == <<ptr, wrote>>

vars == <<arst, cnt, on, rs, s1, s2, gap, fifoVars, fresh, resets>>

Domains == {"rx", "tx"}

\* The reset of either side of each FIFO: arst_i, or phy_rst of a domain.
TxDataFifo == [w |-> "arst_i", r |-> "tx"]
RxDataFifo == [w |-> "rx", r |-> "arst_i"]
RxInfoFifo == [w |-> "rx", r |-> "arst_i"]

Wiring == [tx_data |-> TxDataFifo, rx_data |-> RxDataFifo, rx_info |-> RxInfoFifo]
Fifos == {"tx_data", "rx_data", "rx_info"}

RstVal == Half + (PHY_RST_CNT - 1)

\* the top bit of the counter: phy_rst, PHY_RST_VAL, ~phy_rstn_o
PhyRst == cnt >= Half

(* Both FIFO pointers that reset k clears are 0 after it. *)
Cleared(k, p) ==
  [f \in Fifos |-> [w |-> IF Wiring[f].w = k THEN 0 ELSE p[f].w,
                    r |-> IF Wiring[f].r = k THEN 0 ELSE p[f].r]]

(* One side of one FIFO, in the domain reset by k, moves a word, or none   *)
(* does.  A FIFO is empty when its two pointers are equal.                 *)
Write(f) ==
  /\ ptr' = [ptr EXCEPT ![f].w = @ + 1]
  /\ wrote' = [wrote EXCEPT ![f] = @ + 1]

Read(f) == ptr' = [ptr EXCEPT ![f].r = @ + 1] /\ UNCHANGED wrote

Move(k) ==
  \/ UNCHANGED fifoVars
  \/ \E f \in Fifos : Wiring[f].w = k /\ ptr[f].w < MaxWords /\ Write(f)
  \/ \E f \in Fifos : Wiring[f].r = k /\ ptr[f].r # ptr[f].w
                        /\ ptr[f].r < MaxWords /\ Read(f)

\* mutants: counting goes on for ever; counting starts when phy_rst is down
CounterFree == cnt' = cnt - 1
CounterInverted == cnt' = IF PhyRst THEN cnt ELSE cnt - 1

(* iob_acc: counts down while phy_rst is up. *)
PhyResetCounter == cnt' = IF PhyRst THEN cnt - 1 ELSE cnt

(* A cycle of clk_i: the Data Transfer block moves words when it is on. *)
SysTick ==
  /\ ~arst
  /\ \A d \in Domains : gap[d] < Rate
  /\ gap' = [d \in Domains |-> gap[d] + 1]
  /\ PhyResetCounter
  /\ IF on THEN Move("arst_i") ELSE UNCHANGED fifoVars
  /\ UNCHANGED <<arst, on, rs, s1, s2, fresh, resets>>

(* iob_reset_sync, at an edge of the domain's clock. *)
ResetSync(d) ==
  rs' = [rs EXCEPT ![d] = IF arst THEN 2 ELSE IF @ > 0 THEN @ - 1 ELSE 0]

\* mutant: phy_rst does not reach the receive domain
PhyRstSyncTx(d) ==
  /\ s1' = [s1 EXCEPT ![d] = d = "tx" /\ rs[d] = 0 /\ PhyRst]
  /\ s2' = [s2 EXCEPT ![d] = rs[d] = 0 /\ s1[d]]

(* iob_sync with phy_rst as input, itself reset by iob_reset_sync. *)
PhyRstSync(d) ==
  /\ s1' = [s1 EXCEPT ![d] = rs[d] = 0 /\ PhyRst]
  /\ s2' = [s2 EXCEPT ![d] = rs[d] = 0 /\ s1[d]]

(* An edge of an MII clock: transmitter or receiver move words, unless     *)
(* they are in reset.                                                      *)
MiiTick(d) ==
  /\ ResetSync(d)
  /\ PhyRstSync(d)
  /\ gap' = [gap EXCEPT ![d] = 0]
  /\ IF s2[d]' THEN /\ ptr' = Cleared(d, ptr)
                    /\ wrote' = [f \in Fifos |-> IF Wiring[f].w = d THEN 0 ELSE wrote[f]]
                    /\ fresh' = fresh \cup {d}
               ELSE Move(d) /\ UNCHANGED fresh
  /\ UNCHANGED <<arst, cnt, on, resets>>

\* mutant: without waiting
EnableAtOnce ==
  /\ ~arst /\ ~on
  /\ on' = TRUE
  /\ UNCHANGED <<arst, cnt, rs, s1, s2, gap, fifoVars, fresh, resets>>

(* eth_wait_phy_rst, eth_init: while (PHY_RST_VAL); then enable. *)
Enable ==
  /\ ~arst /\ ~on
  /\ ~PhyRst
  /\ on' = TRUE
  /\ UNCHANGED <<arst, cnt, rs, s1, s2, gap, fifoVars, fresh, resets>>

(* arst_i rises, at any moment: every flop it resets directly. *)
Assert ==
  /\ ~arst /\ resets < MaxResets
  /\ arst' = TRUE /\ cnt' = RstVal /\ on' = FALSE
  /\ rs' = [d \in Domains |-> 2]
  /\ s1' = [d \in Domains |-> FALSE] /\ s2' = [d \in Domains |-> FALSE]
  /\ ptr' = Cleared("arst_i", ptr) /\ wrote' = [f \in Fifos |-> 0]
  /\ fresh' = {} /\ resets' = resets + 1
  /\ UNCHANGED gap

Release ==
  /\ arst
  /\ arst' = FALSE
  /\ UNCHANGED <<cnt, on, rs, s1, s2, gap, fifoVars, fresh, resets>>

(* Power-up: under arst_i, the MII side of every FIFO holds anything. *)
Init ==
  /\ arst = TRUE /\ cnt = RstVal /\ on = FALSE
  /\ rs = [d \in Domains |-> 2]
  /\ s1 = [d \in Domains |-> FALSE] /\ s2 = [d \in Domains |-> FALSE]
  /\ gap \in [Domains -> 0..Rate]
  /\ \E junk \in [Fifos -> [w: 0..MaxWords, r: 0..MaxWords]] :
       ptr = Cleared("arst_i", junk)
  /\ wrote = [f \in Fifos |-> 0]
  /\ fresh = {} /\ resets = 0

Next ==
  \/ SysTick \/ Enable \/ Assert \/ Release
  \/ \E d \in Domains : MiiTick(d)

Spec == Init /\ [][Next]_vars

(* The clocks run, arst_i is released, software sees PHY_RST_VAL fall. *)
FairSpec ==
  /\ Spec
  /\ WF_vars(SysTick) /\ WF_vars(Release) /\ WF_vars(Enable)
  /\ \A d \in Domains : WF_vars(MiiTick(d))
-----------------------------------------------------------------------------
(***************************************************************************)
(* Properties.                                                             *)
(***************************************************************************)
(* Every variable has the values its register can hold. *)
TypeOK ==
  /\ arst \in BOOLEAN /\ on \in BOOLEAN
  /\ cnt \in 0..RstVal
  /\ rs \in [Domains -> 0..2] /\ gap \in [Domains -> 0..Rate]
  /\ s1 \in [Domains -> BOOLEAN] /\ s2 \in [Domains -> BOOLEAN]
  /\ ptr \in [Fifos -> [w: 0..MaxWords, r: 0..MaxWords]]
  /\ wrote \in [Fifos -> Nat]
  /\ fresh \subseteq Domains /\ resets \in 0..MaxResets

(* From the moment software enables the core, both MII domains have been   *)
(* reset since arst_i, and no FIFO has offered its reader a word that its  *)
(* writer did not write after that reset: whatever a warm reset cut short  *)
(* (and whatever memory and pointers held at power-up), and wherever the   *)
(* MII clocks stood.                                                       *)
FifosAligned ==
  on => /\ fresh = Domains
        /\ \A f \in Fifos : ptr[f].r <= ptr[f].w /\ ptr[f].w <= wrote[f]

(* Once software has enabled the core, no side of a FIFO goes back: the    *)
(* end of the MII reset, which lags PHY_RST_VAL, swallows no word of a     *)
(* frame that the Data Transfer block has already written.                 *)
NothingSwallowed ==
  [][on /\ on' => \A f \in Fifos : ptr'[f].w >= ptr[f].w /\ ptr'[f].r >= ptr[f].r]_vars

(* After the last reset, the core is enabled and both MII domains leave    *)
(* reset for good.                                                         *)
EventuallyUp == <>[](on /\ \A d \in Domains : ~s2[d] /\ rs[d] = 0)
=============================================================================
