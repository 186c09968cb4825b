------------------------------ MODULE RxStream ------------------------------
(***************************************************************************)
(* What the receive path promises the stack: the frames the adapter stores *)
(* come up whole and in the order they arrived; a frame is dropped only    *)
(* when it is damaged or needs more buffers than the driver accepts, and a *)
(* driver that has halted the adapter may drop everything.                 *)
(***************************************************************************)
EXTENDS Naturals, Sequences

CONSTANT Parts   \* the parts of frames: [id, part (which part it is), last, bad]

VARIABLES
  fits,     \* whether a frame of several parts can be delivered
  wire,     \* the parts stored and not let go of, oldest first
  out,      \* the parts of the frame this step delivers, if any
  live      \* the adapter may be storing

vars == <<fits, wire, out, live>>

Init == fits \in BOOLEAN /\ wire = <<>> /\ out = <<>> /\ live = FALSE

Silent == out' = <<>>

\* Whether p comes next: it begins a frame or goes on with the newest one.
Continues(p) ==
  IF wire = <<>> \/ wire[Len(wire)].last
    THEN p.part = 1
    ELSE p.id = wire[Len(wire)].id /\ p.part = wire[Len(wire)].part + 1

Arrive(p) ==
  /\ live /\ Continues(p)
  /\ wire' = Append(wire, p)
  /\ Silent /\ UNCHANGED <<fits, live>>

\* The oldest frame has n parts, all of them stored.
Oldest(n) == wire[n].last /\ \A k \in 1..(n - 1) : ~wire[k].last

LetGo(n) == wire' = SubSeq(wire, n + 1, Len(wire)) /\ UNCHANGED <<fits, live>>

\* The oldest frame goes up the stack.
Deliver(n) ==
  /\ Oldest(n) /\ ~wire[n].bad /\ (n = 1 \/ fits)
  /\ out' = SubSeq(wire, 1, n)
  /\ LetGo(n)

Drop(n) ==
  /\ Oldest(n) /\ (wire[n].bad \/ (n > 1 /\ ~fits))
  /\ Silent
  /\ LetGo(n)

Halt  == live' = FALSE /\ Silent /\ UNCHANGED <<fits, wire>>
Flush == ~live /\ wire' = <<>> /\ Silent /\ UNCHANGED <<fits, live>>
Start == wire = <<>> /\ live' = TRUE /\ Silent /\ UNCHANGED <<fits, wire>>
Other == Silent /\ UNCHANGED <<fits, wire, live>>

Next ==
  \/ \E p \in Parts : Arrive(p)
  \/ \E n \in DOMAIN wire : Deliver(n) \/ Drop(n)
  \/ Halt \/ Flush \/ Start \/ Other

Spec == Init /\ [][Next]_vars
=============================================================================
