------------------------------- MODULE NvmStore -------------------------------
(***************************************************************************)
(* What the driver's NVM code promises: a store with a write-back cache.   *)
(* Reads see what was written last; an update makes all of it durable at   *)
(* once, or nothing, and is reported as done only if it did; a power loss  *)
(* at any moment loses what was not yet committed and nothing else.        *)
(***************************************************************************)
CONSTANTS Words, Value

VARIABLES
  view,     \* what a read returns
  durable,  \* what a read would return after a power loss
  state     \* "open" for writes, "busy" with an update, "done" with one

vars == <<view, durable, state>>

Init == view \in [Words -> Value] /\ durable = view /\ state = "open"

Write ==
  /\ state = "open"
  /\ view' \in [Words -> Value]
  /\ UNCHANGED <<durable, state>>

Start ==
  /\ state = "open" /\ state' = "busy"
  /\ UNCHANGED <<view, durable>>

Commit ==
  /\ state = "busy"
  /\ durable' = view
  /\ UNCHANGED <<view, state>>

Finish ==
  /\ state = "busy" /\ state' = "done"
  /\ durable = view
  /\ UNCHANGED <<view, durable>>

\* An update that is reported as failed may have been made in full all the same; if
\* not, what was written is left to a later one.
Fail ==
  /\ state = "busy" /\ state' = "open"
  /\ durable' \in {durable, view}
  /\ UNCHANGED view

Return ==
  /\ state = "done" /\ state' = "open"
  /\ UNCHANGED <<view, durable>>

PowerLoss ==
  /\ view' = durable
  /\ state' = "open"
  /\ UNCHANGED durable

Next == Write \/ Start \/ Commit \/ Finish \/ Fail \/ Return \/ PowerLoss

Spec == Init /\ [][Next]_vars
=============================================================================
