------------------------------ MODULE MCLifecycle ------------------------------
(***************************************************************************)
(* Lifecycle for TLC. A run picks with OpsSets the operations that compete *)
(* in it, one set at a time, and with Faults what may fail; they are       *)
(* strings, as are the program points, so a configuration gives them.      *)
(***************************************************************************)
EXTENDS Lifecycle
=============================================================================
