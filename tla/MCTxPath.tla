----------------------------- MODULE MCTxPath -----------------------------
(* The transmit path on small instances: the runs tx_* give the constants. *)
EXTENDS TxPath
=============================================================================
