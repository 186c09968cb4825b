------------------------------ MODULE MCNvmFlash ------------------------------
(* Instances of NvmFlash for TLC. *)
EXTENDS NvmFlash
=============================================================================
