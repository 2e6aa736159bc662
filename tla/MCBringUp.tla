----------------------------- MODULE MCBringUp -----------------------------
(* Reset and enabling on a small instance: the run bring_up. *)
EXTENDS BringUp
=============================================================================
