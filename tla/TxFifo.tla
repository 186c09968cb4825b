------------------------------- MODULE TxFifo -------------------------------
(***************************************************************************)
(* What the transmit path promises, seen from the stack: frames are taken  *)
(* in order; the one taken last may be given back or dropped before it is  *)
(* queued; the adapter sends them in order; the driver lets go of them in  *)
(* order, each only after it was sent, except that a driver that has       *)
(* halted the adapter may let go of everything.                            *)
(***************************************************************************)
CONSTANT Skbs

VARIABLES
  held,   \* the frames the driver has
  older,  \* for each of them, the ones it took before that one
  done,   \* those that the adapter has sent
  live    \* the adapter may be fetching

vars == <<held, older, done, live>>

Init == held = {} /\ older = [s \in {} |-> {}] /\ done = {} /\ live = TRUE

Take(s) ==
  /\ s \notin held
  /\ held' = held \cup {s}
  /\ older' = [t \in held' |-> IF t = s THEN held ELSE older[t]]
  /\ UNCHANGED <<done, live>>

LetGo(S) ==
  /\ held' = held \ S
  /\ older' = [t \in held' |-> older[t] \ S]
  /\ done' = done \ S

\* The newest frame goes back to the stack, or is dropped.
Refuse(s) ==
  /\ s \in held
  /\ LetGo({s})
  /\ s \notin done /\ older[s] = held'
  /\ UNCHANGED live

Send(s) ==
  /\ live /\ s \in held \ done /\ older[s] \subseteq done
  /\ done' = done \cup {s}
  /\ UNCHANGED <<held, older, live>>

\* Frames that were sent, and none that leaves an older one behind.
Release(S) ==
  /\ LetGo(S)
  /\ S \subseteq done /\ \A s \in S : older[s] \subseteq S
  /\ UNCHANGED live

Halt  == live /\ live' = FALSE /\ UNCHANGED <<held, older, done>>
Flush == ~live /\ LetGo(held) /\ UNCHANGED live
Start == ~live /\ live' = TRUE /\ UNCHANGED <<held, older, done>>

Next ==
  \/ \E s \in Skbs : Take(s) \/ Refuse(s) \/ Send(s)
  \/ \E S \in (SUBSET Skbs) \ {{}} : Release(S)
  \/ Halt \/ Flush \/ Start

Spec == Init /\ [][Next]_vars
=============================================================================
