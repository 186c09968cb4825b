------------------------------- MODULE MCPtp -------------------------------
(* Instances of Ptp for TLC. *)
EXTENDS Ptp

Base == [release |-> "3.4.2", late |-> FALSE, clock |-> TRUE, deltas |-> {}, macs |-> {}, systims |-> {}, resets |-> 0,
         ioctls |-> 1, sending |-> FALSE, sides |-> {"tx"}]

\* All but the 38.4 MHz clock, whose increment does not fit.
MCMacs ==
  {<<"pch2lan", FALSE>>, <<"pch_lpt", TRUE>>, <<"pch_lpt", FALSE>>, <<"pch_spt", TRUE>>,
   <<"pch_spt", FALSE>>, <<"pch_cnp", TRUE>>, <<"82574", FALSE>>}

MCSetups ==
  { \* Transmit stamps, which may come late, with resets and changes of the configuration.
    [Base EXCEPT !.late = TRUE, !.resets = 1, !.ioctls = 2],
    [Base EXCEPT !.release = "3.3.5"],
    \* Receive stamps.
    [Base EXCEPT !.sides = {"rx"}, !.ioctls = 2, !.resets = 1],
    \* The frequency through resets.
    [Base EXCEPT !.sides = {}, !.deltas = {0, 1, 2}, !.resets = 2],
    \* No clock to restore.
    [Base EXCEPT !.clock = FALSE, !.resets = 1],
    \* The clocks, and a SYSTIM of two halves of 16 values.
    [Base EXCEPT !.sides = {}, !.ioctls = 0, !.macs = MCMacs, !.systims = 0..255],
    \* Frames sent while the device is removed.
    [Base EXCEPT !.sending = TRUE] }

\* The clock is slowed down, then the adapter is reset.
MCSlower == {[Base EXCEPT !.sides = {}, !.deltas = {-1}, !.resets = 1]}
=============================================================================
