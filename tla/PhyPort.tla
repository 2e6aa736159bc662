------------------------------ MODULE PhyPort ------------------------------
(***************************************************************************)
(* What the MII management interface promises to a driver: it may read and *)
(* write the registers of a PHY, one operation at a time, as if they were  *)
(* its own.  Nothing answers at another address: reads return all ones,    *)
(* writes are lost.                                                        *)
(***************************************************************************)
CONSTANTS
  Phys,     \* addresses a driver may use
  PhyAddr,  \* the address at which there is a PHY
  Regs,     \* register addresses
  Data,     \* register contents
  AllOnes   \* what an idle line reads as

VARIABLES
  regs,   \* the registers of the PHY
  req,    \* the operation in progress: a set of at most one
  resp    \* its result once it was carried out: a set of at most one

vars == <<regs, req, resp>>

Op == [kind: {"read", "write"}, phy: Phys, reg: Regs, data: Data]

Init == regs \in [Regs -> Data] /\ req = {} /\ resp = {}

Request ==
  /\ req = {}
  /\ \E o \in Op : req' = {o}
  /\ UNCHANGED <<regs, resp>>

Read ==
  /\ resp = {}
  /\ \E o \in req :
       /\ o.kind = "read"
       /\ resp' = {IF o.phy = PhyAddr THEN regs[o.reg] ELSE AllOnes}
  /\ UNCHANGED <<regs, req>>

Write ==
  /\ resp = {}
  /\ \E o \in req :
       /\ o.kind = "write"
       /\ regs' = IF o.phy = PhyAddr THEN [regs EXCEPT ![o.reg] = o.data]
                                     ELSE regs
       /\ resp' = {o.data}
  /\ UNCHANGED req

Reply == resp # {} /\ req' = {} /\ resp' = {} /\ UNCHANGED regs

Next == Request \/ Read \/ Write \/ Reply

Spec == Init /\ [][Next]_vars
=============================================================================
