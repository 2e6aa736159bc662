----------------------------- MODULE MCMiiMgmt -----------------------------
(***************************************************************************)
(* The MII management interface on small instances: a PHY at address 0,    *)
(* and nothing at an address that differs from it in the first bit         *)
(* (FarPhys) or in the last (NearPhys).                                    *)
(***************************************************************************)
EXTENDS MiiMgmt

PhyZero  == Zeros(PhyBits)
FarPhys  == {PhyZero, [PhyZero EXCEPT ![1] = 1]}
NearPhys == {PhyZero, [PhyZero EXCEPT ![PhyBits] = 1]}
=============================================================================
