----------------------------- MODULE MCEthCsrs -----------------------------
(* The register side on a small instance: the run core_bus. *)
EXTENDS EthCsrs
=============================================================================
