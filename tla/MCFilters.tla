------------------------------ MODULE MCFilters ------------------------------
(* Instances of Filters for TLC. *)
EXTENDS Filters

CONSTANTS Nvm, Local

Base == [kind |-> "ich", slots |-> 1, uc |-> {}, mc |-> {}, vids |-> {}, modes |-> {},
         ops |-> 2, resets |-> 1, faults |-> 0]

MCSetups ==
  { \* More addresses than entries, and the modes.
    [Base EXCEPT !.uc = {1, 2}, !.modes = {"promisc"}],
    [Base EXCEPT !.uc = {1, 2}, !.slots = 3, !.kind = "82571"],
    [Base EXCEPT !.mc = {1}, !.modes = {"allmulti"}, !.faults = 1],
    \* Entries shared with the management engine.
    [Base EXCEPT !.kind = "pch2", !.uc = {1}, !.faults = 1],
    [Base EXCEPT !.kind = "pch2", !.slots = 2, !.uc = {1, 2}, !.faults = 2, !.resets = 0],
    [Base EXCEPT !.kind = "lpt", !.slots = 3, !.uc = {1, 2}, !.faults = 2, !.resets = 0],
    [Base EXCEPT !.kind = "lpt", !.slots = 2, !.uc = {1}, !.faults = 1],
    [Base EXCEPT !.kind = "lpt", !.slots = 3, !.uc = {1, 2, 3}, !.faults = 2, !.ops = 1],
    \* VLANs, and the engine's VLAN.
    [Base EXCEPT !.kind = "82571", !.vids = {1, 2}, !.faults = 1],
    [Base EXCEPT !.kind = "82574", !.vids = {1}, !.faults = 3, !.modes = {"promisc"}],
    \* The receiver that is stopped and started; addresses the other port resets.
    [Base EXCEPT !.kind = "es2lan", !.faults = 1, !.modes = {"promisc"}],
    [Base EXCEPT !.kind = "82571", !.faults = 1, !.modes = {"promisc"}] }
=============================================================================
