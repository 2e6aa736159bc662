------------------------------ MODULE MCRxPath ------------------------------
(***************************************************************************)
(* Instances of RxPath with frames short enough for the byte counter, as   *)
(* every frame of a network that keeps to the standard's maximum is.       *)
(***************************************************************************)
EXTENDS RxPath

ASSUME LegalFrames
=============================================================================
