---------------------------- MODULE MCEthocNapi ----------------------------
(* Interrupts and NAPI on small instances: the runs napi_* give the        *)
(* constants.                                                              *)
EXTENDS EthocNapi, TLC

(* No CPU differs from another; used by the run without liveness. *)
CpuSymmetry == Permutations(Cpus)
=============================================================================
