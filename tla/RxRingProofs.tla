---------------------------- MODULE RxRingProofs ----------------------------
(***************************************************************************)
(* The receive ring, for rings of any size, any budget, any receivers and  *)
(* kinds of interrupt, and any number of failures: its types, its order,   *)
(* that the adapter owns usable buffers, that no frame is left unannounced *)
(* and that it implements the stream of frames of RxStream.                *)
(***************************************************************************)
EXTENDS RxRingStream, SequenceTheorems, TLAPS

Types ==
  /\ next_to_use \in Slots /\ next_to_clean \in Slots /\ ci \in Slots
  /\ rdh \in Slots /\ rdt \in Slots
  /\ desc \in [Slots -> Parts \cup {NoPart}]
  /\ left \in Nat /\ cleaned \in Nat /\ work \in Nat
  /\ moved \in BOOLEAN /\ ims \in BOOLEAN /\ napi \in BOOLEAN

\* Who can be where: a poll runs only under NAPI_STATE_SCHED, which is never set
\* together with the interrupt mask; the ring is set up with neither.
Control ==
  /\ Polling => napi
  /\ napi => ~ims
  /\ rpc \in {"quiesce", "clean", "fill", "up"} => ~ims
  /\ rpc \in {"clean", "fill", "up"} => ~napi
  /\ caller \in {"none", "loop", "last", "configure"}
  /\ caller \in {"loop", "last"} => pc = "clean"
  /\ caller = "configure" => rpc = "fill"
  /\ caller = "last" \/ pc = "complete" => ci = next_to_clean
  /\ caller = "loop" => cleaned = 0
  /\ moved => caller # "none"

\* The room there is for the slots still to be filled and still to be handed back,
\* and for the tail the jumbo receiver writes one short of next_to_use.
Room ==
  /\ moved => Dist(Uncleaned, rdt) < Dist(Uncleaned, next_to_use)
  /\ caller # "none" => Dist(Uncleaned, next_to_use) + left <= Count - 1
  /\ pc = "clean" /\ caller = "none" =>
       Dist(Uncleaned, next_to_use) + cleaned <= Count - 1

Order == Types /\ Control /\ RxOrder /\ Room

-----------------------------------------------------------------------------
(* The arithmetic of the ring.                                             *)

LEMMA Neighbours ==
  ASSUME NEW a \in Slots
  PROVE  NextSlot(a) \in Slots /\ PrevSlot(a) \in Slots /\ NextSlot(a) # a
BY RxAssumption DEF NextSlot, PrevSlot, Slots

\* Every way is shorter than a lap, and tells where it ends.
LEMMA DistRange ==
  ASSUME NEW a \in Slots, NEW b \in Slots
  PROVE  /\ Dist(a, b) \in 0..(Count - 1)
         /\ Dist(a, b) = 0 <=> a = b
         /\ \A c \in Slots : Dist(a, b) = Dist(a, c) => b = c
         /\ Unused(a, b) = Count - 1 - Dist(a, b)
BY RxAssumption DEF Dist, Slots, Unused

\* Moving the far end on or back.
LEMMA DistNext ==
  ASSUME NEW a \in Slots, NEW b \in Slots
  PROVE  /\ Dist(a, b) < Count - 1 => Dist(a, NextSlot(b)) = Dist(a, b) + 1
         /\ Dist(a, b) > 0 => Dist(a, PrevSlot(b)) = Dist(a, b) - 1
BY RxAssumption DEF Dist, NextSlot, PrevSlot, Slots

\* Moving the near end on.
LEMMA DistFromNext ==
  ASSUME NEW a \in Slots, NEW b \in Slots
  PROVE  Dist(NextSlot(a), b) = IF a = b THEN Count - 1 ELSE Dist(a, b) - 1
BY RxAssumption DEF Dist, NextSlot, Slots

LEMMA RegionGrows ==
  ASSUME NEW a \in Slots, NEW b \in Slots, Dist(a, b) < Count - 1
  PROVE  Region(a, NextSlot(b)) = Region(a, b) \cup {b}
<1>1. Dist(a, NextSlot(b)) = Dist(a, b) + 1
  BY DistNext
<1>2. \A i \in Slots : /\ Dist(a, i) \in Nat
                       /\ Dist(a, i) = Dist(a, b) => i = b
  BY DistRange
<1> QED BY <1>1, <1>2 DEF Region

LEMMA RegionShrinks ==
  ASSUME NEW a \in Slots, NEW b \in Slots, a # b
  PROVE  Region(NextSlot(a), b) = Region(a, b) \ {a}
<1>1. \A i \in Slots : Dist(NextSlot(a), i) = IF a = i THEN Count - 1 ELSE Dist(a, i) - 1
  BY DistFromNext
<1>2. \A i \in Slots : Dist(a, i) \in 0..(Count - 1)
  BY DistRange
<1> QED BY <1>1, <1>2, RxAssumption DEF Region

\* A slot is not before the end of a region that begins with it.
LEMMA RegionEnds ==
  ASSUME NEW a \in Slots, NEW b \in Slots
  PROVE  /\ b \notin Region(a, b)
         /\ a \in Region(a, b) <=> a # b
         /\ \A c \in Slots : Dist(a, b) <= Dist(a, c) => Region(a, b) \subseteq Region(a, c)
BY DistRange DEF Region

-----------------------------------------------------------------------------
(* Types and Control.                                                      *)

\* The tail register takes the value written, or keeps the one it has.
LEMMA TailWrites ==
  ASSUME NEW k, UpdateRdt(k)
  PROVE  rdt' = k \/ rdt' = rdt
BY DEF UpdateRdt

LEMMA InitOrder == Init => Order
<1> SUFFICES ASSUME Init PROVE Order
  OBVIOUS
<1>1. 0 \in Slots /\ Dist(0, 0) = 0
  BY RxAssumption DEF Slots, Dist
<1>2. Types
  BY <1>1 DEF Init, Types
<1>3. Control
  BY DEF Init, Control, Polling
<1>4. RxOrder
  <2>1. Region(0, 0) = {}
    BY <1>1, DistRange DEF Region
  <2>2. \A i \in Slots : ~Done(i)
    BY DEF Init, Done
  <2> QED BY <1>1, <2>1, <2>2 DEF Init, RxOrder, Uncleaned, Polling
<1>5. Room
  BY <1>1, RxAssumption DEF Init, Room
<1> QED BY <1>2, <1>3, <1>4, <1>5 DEF Order

LEMMA TypesKept == ASSUME Types, [Next]_vars PROVE Types'
<1> USE Neighbours DEF Types
<1>1. CASE Store
  BY <1>1 DEF Store, chain, poll, alloc, reset
<1>2. CASE EccError
  BY <1>2 DEF EccError, ring, hw, poll, alloc
<1>3. CASE AllocOne
  BY <1>3, TailWrites DEF AllocOne, signal, poll
<1>4. CASE AllocFails
  BY <1>4 DEF AllocFails, hw, signal, poll
<1>5. CASE AllocReturns
  BY <1>5, TailWrites DEF AllocReturns, ring, signal
<1>6. CASE Poll
  BY <1>6 DEF Poll, ring, hw, signal, alloc
<1>7. CASE CleanOne
  BY <1>7 DEF CleanOne, hw, signal
<1>8. CASE CleanReturns
  <2>1. Unused(ci, next_to_use) \in Nat
    BY DistRange, RxAssumption
  <2> QED BY <2>1, <1>8 DEF CleanReturns, hw, signal, poll
<1>9. CASE PollReturns
  <2>1. 0 \in Slots
    BY RxAssumption DEF Slots
  <2> QED BY <2>1, <1>9 DEF PollReturns, ring, hw, alloc, Down
<1>10. CASE Interrupt
  BY <1>10 DEF Interrupt, ring, hw, poll, alloc
<1>11. CASE Watchdog
  BY <1>11 DEF Watchdog, ring, hw, poll, alloc
<1>12. CASE GoDown
  BY <1>12 DEF GoDown, ring, signal, poll, alloc
<1>13. CASE IrqDisable
  BY <1>13 DEF IrqDisable, ring, hw, poll, alloc
<1>14. CASE CleanRing
  <2>1. 0 \in Slots
    BY RxAssumption DEF Slots
  <2> QED BY <2>1, <1>14 DEF CleanRing, poll, alloc
<1>15. CASE Configure
  <2>1. Unused(next_to_clean, next_to_use) \in Nat
    BY DistRange, RxAssumption
  <2> QED BY <2>1, <1>15 DEF Configure, ring, signal, poll
<1>16. CASE GoUp
  BY <1>16 DEF GoUp, ring, hw, poll, alloc
<1>17. CASE UNCHANGED vars
  BY <1>17 DEF vars, ring, hw, signal, poll, alloc
<1> QED
  BY <1>1, <1>2, <1>3, <1>4, <1>5, <1>6, <1>7, <1>8, <1>9, <1>10, <1>11, <1>12,
     <1>13, <1>14, <1>15, <1>16, <1>17 DEF Next, Driver, Alloc, Reset

LEMMA ControlKept == ASSUME Types, Control, [Next]_vars PROVE Control'
<1> USE DEF Control, Polling
<1>1. CASE Store
  BY <1>1 DEF Store, poll, alloc, reset
<1>2. CASE EccError
  BY <1>2 DEF EccError, ring, poll, alloc, reset
<1>3. CASE AllocOne
  BY <1>3 DEF AllocOne, signal, poll
<1>4. CASE AllocFails
  BY <1>4 DEF AllocFails, hw, signal, poll, reset
<1>5. CASE AllocReturns
  BY <1>5 DEF AllocReturns, ring, signal
<1>6. CASE Poll
  BY <1>6 DEF Poll, ring, signal, alloc, reset
<1>7. CASE CleanOne
  BY <1>7 DEF CleanOne, signal, reset
<1>8. CASE CleanReturns
  BY <1>8 DEF CleanReturns, signal, poll, reset
<1>9. CASE PollReturns
  <2>1. /\ pc = "complete" /\ pc' = "idle"
        /\ UNCHANGED <<next_to_clean, caller, left, moved, rpc>>
    BY <1>9 DEF PollReturns, ring, alloc, reset
  <2>2. napi' => napi /\ ims' = ims
    BY <1>9 DEF PollReturns
  <2>3. rpc # "run" /\ ~ims => ~ims'
    BY <1>9 DEF PollReturns, Down
  <2>4. rpc \in {"clean", "fill", "up"} => ~napi'
    BY <2>2
  <2> QED BY <2>1, <2>2, <2>3, <2>4
<1>10. CASE Interrupt
  BY <1>10 DEF Interrupt, ring, poll, alloc
<1>11. CASE Watchdog
  BY <1>11 DEF Watchdog, ring, poll, alloc, reset
<1>12. CASE GoDown
  BY <1>12 DEF GoDown, ring, signal, poll, alloc
<1>13. CASE IrqDisable
  BY <1>13 DEF IrqDisable, ring, poll, alloc
<1>14. CASE CleanRing
  BY <1>14 DEF CleanRing, poll, alloc
<1>15. CASE Configure
  BY <1>15 DEF Configure, ring, signal, poll
<1>16. CASE GoUp
  BY <1>16 DEF GoUp, ring, poll, alloc
<1>17. CASE UNCHANGED vars
  BY <1>17 DEF vars, ring, signal, poll, alloc, reset
<1> QED
  BY <1>1, <1>2, <1>3, <1>4, <1>5, <1>6, <1>7, <1>8, <1>9, <1>10, <1>11, <1>12,
     <1>13, <1>14, <1>15, <1>16, <1>17 DEF Next, Driver, Alloc, Reset

-----------------------------------------------------------------------------
(* The order of the ring.                                                  *)

\* A step that moves none of the ring's indices keeps the order.
LEMMA OrderFrame ==
  ASSUME Order, Uncleaned' = Uncleaned,
         UNCHANGED <<next_to_use, rdh, rdt, desc, moved, caller, left>>,
         pc' = "clean" => cleaned' = 0 \/ (pc = "clean" /\ cleaned' = cleaned)
  PROVE  RxOrder' /\ Room'
<1>1. Uncleaned \in Slots /\ next_to_use \in Slots
  BY DEF Order, Types, Uncleaned
<1>2. Dist(Uncleaned, next_to_use) \in 0..(Count - 1)
  BY <1>1, DistRange
<1>3. RxOrder'
  BY DEF Order, RxOrder, Done
<1>4. pc' = "clean" /\ caller = "none" => Dist(Uncleaned, next_to_use) + cleaned' <= Count - 1
  BY <1>2, RxAssumption DEF Order, Room
<1> QED BY <1>3, <1>4 DEF Order, Room

LEMMA PartsAreParts == NoPart \notin Parts
BY DEF Parts, NoPart

LEMMA StoreOrder == ASSUME Order, Store PROVE RxOrder' /\ Room'
<1> DEFINE U == Uncleaned
<1>1. U \in Slots /\ rdh \in Slots /\ rdt \in Slots /\ next_to_use \in Slots
  BY DEF Order, Types, Uncleaned
<1>2. /\ rdh' = NextSlot(rdh) /\ rdh # rdt /\ U' = U
      /\ UNCHANGED <<next_to_use, rdt, moved, caller, left, pc, cleaned>>
  BY DEF Store, poll, alloc, Uncleaned, Polling
<1>3. PICK p \in Parts : desc' = [desc EXCEPT ![rdh] = p]
  BY DEF Store
<1>4. Dist(U, rdh) < Dist(U, rdt) /\ Dist(U, rdt) <= Count - 1 /\ Dist(U, rdh) \in Nat
      /\ Dist(U, rdt) \in Nat
  BY <1>1, <1>2, DistRange, RxAssumption DEF Order, RxOrder
<1>5. Dist(U, rdh') = Dist(U, rdh) + 1 /\ Region(U, rdh') = Region(U, rdh) \cup {rdh}
  BY <1>1, <1>2, <1>4, DistNext, RegionGrows, RxAssumption
<1>6. \A i \in Slots : Done(i)' <=> Done(i) \/ i = rdh
  BY <1>1, <1>3, PartsAreParts DEF Done, Order, Types
<1>7. RxOrder'
  BY <1>2, <1>4, <1>5, <1>6 DEF Order, RxOrder
<1> QED BY <1>2, <1>7 DEF Order, Room

\* Filling slots and writing the tail.
LEMMA AllocOrder == ASSUME Order, Alloc PROVE RxOrder' /\ Room'
<1> DEFINE U == Uncleaned
<1>1. /\ U \in Slots /\ rdh \in Slots /\ rdt \in Slots /\ next_to_use \in Slots
      /\ Dist(U, next_to_use) \in 0..(Count - 1) /\ Dist(U, rdt) \in Nat
      /\ Dist(U, rdh) \in Nat
  <2>1. U \in Slots /\ rdh \in Slots /\ rdt \in Slots /\ next_to_use \in Slots
    BY DEF Order, Types, Uncleaned
  <2> HIDE DEF U
  <2> QED BY <2>1, DistRange, RxAssumption
<1>2. CASE AllocOne
  <2>1. /\ U' = U /\ next_to_use' = NextSlot(next_to_use)
        /\ UNCHANGED <<rdh, desc, caller, pc, cleaned>>
        /\ caller # "none" /\ left > 0 /\ left' = left - 1
    BY <1>2 DEF AllocOne, poll, signal, Uncleaned, Polling
  <2>2. Dist(U, next_to_use) + left <= Count - 1 /\ left \in Nat
    BY <2>1 DEF Order, Room, Types
  <2>3. Dist(U, next_to_use') = Dist(U, next_to_use) + 1
    BY <1>1, <2>1, <2>2, DistNext, RxAssumption
  <2>4. rdt' = rdt \/ rdt' = next_to_use
    BY <1>2, TailWrites DEF AllocOne
  <2>5. Dist(U, rdt) <= Dist(U, rdt') /\ Dist(U, rdt') <= Dist(U, next_to_use)
    BY <1>1, <2>4 DEF Order, RxOrder
  <2>6. RxOrder'
    BY <1>1, <2>1, <2>3, <2>4, <2>5, RxAssumption DEF Order, RxOrder, Done
  <2> QED BY <1>1, <2>1, <2>2, <2>3, <2>4, <2>5, <2>6, RxAssumption DEF Room
<1>3. CASE AllocFails
  <2>1. /\ U' = U /\ UNCHANGED <<next_to_use, rdh, rdt, desc, caller, pc, cleaned, moved>>
        /\ left' = 0 /\ caller # "none"
    BY <1>3 DEF AllocFails, poll, hw, Uncleaned, Polling
  <2>2. RxOrder'
    BY <2>1 DEF Order, RxOrder, Done
  <2> QED BY <1>1, <2>1, <2>2, RxAssumption DEF Order, Room
<1>4. CASE AllocReturns
  <2>1. /\ U' = U /\ UNCHANGED <<next_to_use, rdh, desc, cleaned>>
        /\ caller' = "none" /\ moved' = FALSE
        /\ pc' = IF caller = "last" THEN "complete" ELSE pc
        /\ caller # "none"
    BY <1>4 DEF AllocReturns, ring, signal, poll, Uncleaned, Polling, Order, Control
  <2>2. rdt' = rdt \/ (moved /\ rdt' = PrevSlot(next_to_use))
    BY <1>4, TailWrites DEF AllocReturns
  <2>3. Dist(U, rdt) <= Dist(U, rdt') /\ Dist(U, rdt') <= Dist(U, next_to_use)
    <3>1. CASE rdt' = rdt
      BY <1>1, <3>1 DEF Order, RxOrder
    <3>2. CASE moved /\ rdt' = PrevSlot(next_to_use)
      <4>1. Dist(U, rdt) < Dist(U, next_to_use)
        BY <3>2 DEF Order, Room
      <4>2. Dist(U, PrevSlot(next_to_use)) = Dist(U, next_to_use) - 1
        BY <1>1, <4>1, DistNext, RxAssumption
      <4> QED BY <1>1, <3>2, <4>1, <4>2, RxAssumption
    <3> QED BY <2>2, <3>1, <3>2
  <2>4. rdt' \in Slots
    BY <1>1, <2>2, Neighbours
  <2>5. Dist(U, rdt') \in Nat
    BY <1>1, <2>4, DistRange
  <2>6. RxOrder'
    BY <1>1, <2>1, <2>3, <2>5 DEF Order, RxOrder, Done
  <2>7. pc' = "clean" => caller = "loop"
    BY <2>1 DEF Order, Control, Polling
  <2>8. pc' = "clean" => cleaned' = 0
    BY <2>1, <2>7 DEF Order, Control
  <2> QED BY <1>1, <2>1, <2>6, <2>8, RxAssumption DEF Room
<1> QED BY <1>2, <1>3, <1>4 DEF Alloc

\* The cleaner takes one slot and has one more to give back.
LEMMA CleanOrder == ASSUME Order, CleanOne PROVE RxOrder' /\ Room'
<1>1. /\ ci \in Slots /\ rdh \in Slots /\ rdt \in Slots /\ next_to_use \in Slots
      /\ desc \in [Slots -> Parts \cup {NoPart}] /\ cleaned \in Nat
  BY DEF Order, Types
<1>2. /\ pc = "clean" /\ caller = "none" /\ Done(ci)
      /\ desc' = [desc EXCEPT ![ci] = NoPart] /\ ci' = NextSlot(ci)
      /\ \/ cleaned' = 0 /\ caller' = "loop" /\ left' = cleaned + 1
         \/ cleaned' = cleaned + 1 /\ UNCHANGED <<caller, left>>
      /\ UNCHANGED <<next_to_use, rdh, rdt, pc, moved>>
  BY DEF CleanOne, hw
<1>3. Uncleaned = ci /\ Uncleaned' = NextSlot(ci)
  BY <1>2 DEF Uncleaned, Polling
<1>4. ~moved
  BY <1>2 DEF Order, Control
<1>5. /\ Dist(ci, rdh) \in Nat /\ Dist(ci, rdt) \in Nat /\ Dist(ci, next_to_use) \in Nat
      /\ \A i \in Slots : Dist(ci, i) = 0 <=> ci = i
  BY <1>1, DistRange
<1>6. ci # rdh
  BY <1>1, <1>2, <1>3, RegionEnds DEF Order, RxOrder
<1>7. ci # rdt /\ ci # next_to_use
  BY <1>1, <1>3, <1>5, <1>6 DEF Order, RxOrder
<1>8. /\ Dist(NextSlot(ci), rdh) = Dist(ci, rdh) - 1
      /\ Dist(NextSlot(ci), rdt) = Dist(ci, rdt) - 1
      /\ Dist(NextSlot(ci), next_to_use) = Dist(ci, next_to_use) - 1
  BY <1>1, <1>6, <1>7, DistFromNext
<1>9. \A i \in Slots : Done(i)' <=> Done(i) /\ i # ci
  BY <1>1, <1>2 DEF Done
<1>10. RxOrder'
  <2>1. Region(NextSlot(ci), rdh) = Region(ci, rdh) \ {ci}
    BY <1>1, <1>6, RegionShrinks
  <2>2. \A i \in Slots : Done(i)' <=> i \in Region(NextSlot(ci), rdh)
    BY <1>3, <1>9, <2>1 DEF Order, RxOrder
  <2>3. Dist(ci, rdh) <= Dist(ci, rdt) /\ Dist(ci, rdt) <= Dist(ci, next_to_use)
    BY <1>3 DEF Order, RxOrder
  <2> QED BY <1>2, <1>3, <1>5, <1>8, <2>2, <2>3 DEF RxOrder
<1>11. Dist(ci, next_to_use) + cleaned <= Count - 1
  BY <1>2, <1>3 DEF Order, Room
<1>12. Dist(NextSlot(ci), next_to_use) + (cleaned + 1) <= Count - 1
  BY <1>1, <1>5, <1>8, <1>11, RxAssumption
<1>13. Room'
  BY <1>2, <1>3, <1>4, <1>12 DEF Room
<1> QED BY <1>10, <1>13

LEMMA ReturnOrder == ASSUME Order, CleanReturns \/ PollReturns \/ Poll PROVE RxOrder' /\ Room'
<1>1. CASE CleanReturns
  <2>1. /\ pc = "clean" /\ caller = "none" /\ caller' = "last"
        /\ left' = Unused(ci, next_to_use)
        /\ UNCHANGED <<next_to_use, rdh, rdt, desc, ci, moved, pc, cleaned>>
    BY <1>1 DEF CleanReturns, hw, poll
  <2>2. Uncleaned = ci /\ Uncleaned' = ci
    BY <2>1 DEF Uncleaned, Polling
  <2>3. RxOrder'
    BY <2>1, <2>2 DEF Order, RxOrder, Done
  <2>4. ci \in Slots /\ next_to_use \in Slots
    BY DEF Order, Types
  <2>5. Dist(ci, next_to_use) \in Nat /\ left' = Count - 1 - Dist(ci, next_to_use)
    BY <2>1, <2>4, DistRange
  <2>6. Dist(ci, next_to_use) + left' <= Count - 1
    BY <2>5, RxAssumption
  <2>7. ~moved
    BY <2>1 DEF Order, Control
  <2>8. Room'
    BY <2>1, <2>2, <2>6, <2>7 DEF Room
  <2> QED BY <2>3, <2>8
<1>2. CASE PollReturns
  <2>1. Uncleaned' = Uncleaned
    BY <1>2 DEF PollReturns, ring, Uncleaned, Polling, Order, Control
  <2> QED BY <1>2, <2>1, OrderFrame DEF PollReturns, ring, hw, alloc
<1>3. CASE Poll
  <2>1. Uncleaned' = Uncleaned
    BY <1>3 DEF Poll, ring, Uncleaned, Polling
  <2> QED BY <1>3, <2>1, OrderFrame DEF Poll, ring, hw, alloc
<1> QED BY <1>1, <1>2, <1>3

\* The reset empties the ring, then sets out to fill it.
LEMMA ResetOrder == ASSUME Order, Reset PROVE RxOrder' /\ Room'
<1>1. CASE GoDown \/ IrqDisable \/ GoUp
  <2>1. /\ Uncleaned' = Uncleaned
        /\ UNCHANGED <<next_to_use, rdh, rdt, desc, moved, caller, left, pc, cleaned>>
    BY <1>1 DEF GoDown, IrqDisable, GoUp, ring, hw, poll, alloc, Uncleaned, Polling
  <2> QED BY <2>1, OrderFrame
<1>2. CASE CleanRing
  <2>1. /\ next_to_use' = 0 /\ next_to_clean' = 0 /\ rdh' = 0 /\ rdt' = 0
        /\ desc' = [i \in Slots |-> NoPart] /\ rpc = "quiesce" /\ ~napi
        /\ UNCHANGED <<caller, moved, pc>>
    BY <1>2 DEF CleanRing, poll, alloc
  <2>2. caller = "none" /\ ~moved /\ pc = "idle"
    BY <2>1 DEF Order, Control, Polling
  <2>3. Uncleaned' = 0
    BY <2>1, <2>2 DEF Uncleaned, Polling
  <2>4. 0 \in Slots /\ Dist(0, 0) = 0
    BY RxAssumption DEF Slots, Dist
  <2>5. Region(0, 0) = {}
    BY <2>4, DistRange DEF Region
  <2>6. \A i \in Slots : ~Done(i)'
    BY <2>1 DEF Done
  <2>7. RxOrder'
    BY <2>1, <2>3, <2>4, <2>5, <2>6 DEF RxOrder
  <2> QED BY <2>1, <2>2, <2>7 DEF Room
<1>3. CASE Configure
  <2>1. /\ rpc = "clean" /\ left' = Unused(next_to_clean, next_to_use)
        /\ UNCHANGED <<next_to_use, next_to_clean, rdh, rdt, desc, ci, moved, pc, cleaned>>
    BY <1>3 DEF Configure, ring, poll
  <2>2. pc = "idle" /\ ~moved
    BY <2>1 DEF Order, Control, Polling
  <2>3. Uncleaned = next_to_clean /\ Uncleaned' = next_to_clean
    BY <2>1, <2>2 DEF Uncleaned, Polling
  <2>4. RxOrder'
    BY <2>1, <2>3 DEF Order, RxOrder, Done
  <2>5. next_to_clean \in Slots /\ next_to_use \in Slots
    BY DEF Order, Types
  <2>6. /\ Dist(next_to_clean, next_to_use) \in Nat
        /\ left' = Count - 1 - Dist(next_to_clean, next_to_use)
    BY <2>1, <2>5, DistRange
  <2>7. Dist(next_to_clean, next_to_use) + left' <= Count - 1
    BY <2>6, RxAssumption
  <2> QED BY <2>1, <2>2, <2>3, <2>4, <2>7 DEF Room
<1> QED BY <1>1, <1>2, <1>3 DEF Reset

LEMMA OrderKept == ASSUME Order, [Next]_vars PROVE Order'
<1>1. Types' /\ Control'
  BY TypesKept, ControlKept DEF Order
<1> SUFFICES RxOrder' /\ Room'
  BY <1>1 DEF Order
<1>2. CASE Store
  BY <1>2, StoreOrder
<1>3. CASE Driver
  BY <1>3, AllocOrder, CleanOrder, ReturnOrder DEF Driver
<1>4. CASE Reset
  BY <1>4, ResetOrder
<1>5. CASE EccError \/ Interrupt \/ Watchdog \/ UNCHANGED vars
  <2>1. /\ Uncleaned' = Uncleaned
        /\ UNCHANGED <<next_to_use, rdh, rdt, desc, moved, caller, left, pc, cleaned>>
    BY <1>5 DEF EccError, Interrupt, Watchdog, vars, ring, hw, poll, alloc, Uncleaned,
                Polling
  <2> QED BY <2>1, OrderFrame
<1> QED BY <1>2, <1>3, <1>4, <1>5 DEF Next

LEMMA AlwaysOrder == Spec => []Order
<1>1. Init => Order
  BY InitOrder
<1>2. Order /\ [Next]_vars => Order'
  BY OrderKept
<1> QED BY <1>1, <1>2, PTL DEF Spec

\* In a ring of any size, whatever the receiver, the budget, the failures and the
\* resets: the cleaner never passes the adapter's head, the head never the tail, the
\* tail never next_to_use, and the cleaner sees as done just what the adapter stored.
THEOREM RingStaysOrdered == Spec => []RxOrder
<1>1. Order => RxOrder
  BY DEF Order
<1> QED BY <1>1, AlwaysOrder, PTL

-----------------------------------------------------------------------------
(* The buffers, where no mapping of a page may fail.                       *)

Buffer == [skb : BOOLEAN, dma : {"none", "ok", "bad"}, page : BOOLEAN,
           pdma : {"none", "ok", "bad"}]

\* What a receiver that keeps a page it finds in a slot relies on.
PageKept(b) ==
  /\ receiver = "jumbo" => b.dma # "bad"
  /\ receiver = "ps" /\ b.page => b.pdma = "ok"

Buffers ==
  /\ receiver \in {"legacy", "ps", "jumbo"}
  /\ buffer_info \in [Slots -> Buffer]
  /\ \A i \in Slots : PageKept(buffer_info[i])
  /\ \A i \in Region(Uncleaned, next_to_use) : Usable(buffer_info[i])

\* A slot that is filled is usable, and one whose allocation failed is no worse.
LEMMA FilledIsUsable ==
  ASSUME receiver \in {"legacy", "ps", "jumbo"}, NEW b \in Buffer, PageKept(b)
  PROVE  Filled(b) \in Buffer /\ PageKept(Filled(b)) /\ Usable(Filled(b))
<1>1. CASE receiver = "legacy"
  BY <1>1 DEF Buffer, PageKept, Filled, Usable
<1>2. CASE receiver = "jumbo"
  BY <1>2 DEF Buffer, PageKept, Filled, Usable
<1>3. CASE receiver = "ps"
  BY <1>3 DEF Buffer, PageKept, Filled, Usable
<1> QED BY <1>1, <1>2, <1>3

LEMMA FailedIsKept ==
  ASSUME MapFails \subseteq {"legacy"}, receiver \in {"legacy", "ps", "jumbo"},
         NEW b \in Buffer, PageKept(b),
         NEW c \in Unallocated(b) \cup (IF receiver \in MapFails THEN Unmapped(b) ELSE {})
  PROVE  c \in Buffer /\ PageKept(c)
<1>1. CASE receiver = "legacy"
  BY <1>1 DEF Buffer, PageKept, Unallocated, Unmapped
<1>2. CASE receiver = "jumbo"
  BY <1>2 DEF Buffer, PageKept, Unallocated
<1>3. CASE receiver = "ps"
  BY <1>3 DEF Buffer, PageKept, Unallocated
<1> QED BY <1>1, <1>2, <1>3

\* What the cleaner leaves of a buffer.
LEMMA CleanedIsKept ==
  ASSUME receiver \in {"legacy", "ps", "jumbo"}, buffer_info \in [Slots -> Buffer],
         ci \in Slots, PageKept(buffer_info[ci]), CleanOne
  PROVE  \E c \in Buffer : /\ buffer_info' = [buffer_info EXCEPT ![ci] = c]
                           /\ PageKept(c)
<1> DEFINE b == Released(buffer_info[ci])
<1>1. /\ b \in Buffer /\ b.dma = "none" /\ PageKept(b)
      /\ \A x \in BOOLEAN : /\ [b EXCEPT !.skb = x] \in Buffer
                            /\ PageKept([b EXCEPT !.skb = x])
      /\ Empty \in Buffer /\ PageKept(Empty)
  BY DEF Released, Buffer, PageKept, Empty
<1>2. \A x, y \in BOOLEAN : [b EXCEPT !.skb = x, !.page = y] \in Buffer
  BY DEF Released, Buffer
<1>3. CASE receiver = "legacy"
  <2>1. CleanLegacy(desc[ci], b)
    BY <1>3 DEF CleanOne
  <2> HIDE DEF b
  <2> QED BY <1>1, <2>1 DEF CleanLegacy
<1>4. CASE receiver = "ps"
  <2>1. CleanPs(desc[ci], b)
    BY <1>4 DEF CleanOne
  <2> HIDE DEF b
  <2> QED BY <1>1, <2>1 DEF CleanPs
<1>5. CASE receiver = "jumbo"
  <2>1. CleanJumbo(desc[ci], b)
    BY <1>5 DEF CleanOne
  <2>2. \A x, y \in BOOLEAN : PageKept([b EXCEPT !.skb = x, !.page = y])
    BY <1>5 DEF Released, Buffer, PageKept
  <2> HIDE DEF b
  <2> QED BY <1>1, <1>2, <2>1, <2>2 DEF CleanJumbo
<1> QED BY <1>3, <1>4, <1>5

\* A step that leaves the buffers and the region alone.
LEMMA BuffersFrame ==
  ASSUME Buffers, UNCHANGED <<receiver, buffer_info, Uncleaned, next_to_use>>
  PROVE  Buffers'
BY DEF Buffers, PageKept, Usable

LEMMA BuffersInit == Init => Buffers
<1> SUFFICES ASSUME Init PROVE Buffers
  OBVIOUS
<1>1. receiver \in {"legacy", "ps", "jumbo"}
  BY RxAssumption DEF Init
<1>2. \A i \in Slots : PageKept(buffer_info[i])
  BY DEF Init, Empty, PageKept
<1>3. Region(Uncleaned, next_to_use) = {}
  BY RxAssumption DEF Init, Uncleaned, Polling, Region, Dist, Slots
<1>4. buffer_info \in [Slots -> Buffer]
  BY DEF Init, Empty, Buffer
<1> QED BY <1>1, <1>2, <1>3, <1>4 DEF Buffers

LEMMA BuffersKept ==
  ASSUME MapFails \subseteq {"legacy"}, Order, Buffers, [Next]_vars
  PROVE  Buffers'
<1> DEFINE U == Uncleaned
<1>1. /\ U \in Slots /\ next_to_use \in Slots /\ ci \in Slots
      /\ buffer_info[next_to_use] \in Buffer /\ PageKept(buffer_info[next_to_use])
  BY DEF Order, Types, Uncleaned, Buffers
<1>2. CASE AllocOne
  <2>1. /\ U' = U /\ next_to_use' = NextSlot(next_to_use) /\ receiver' = receiver
        /\ buffer_info' = [buffer_info EXCEPT ![next_to_use] = Filled(@)]
        /\ caller # "none" /\ left > 0
    BY <1>2 DEF AllocOne, kind, poll, Uncleaned, Polling
  <2>2. Dist(U, next_to_use) < Count - 1
    <3>1. Dist(U, next_to_use) \in Nat
      BY <1>1, DistRange
    <3> QED BY <2>1, <3>1, RxAssumption DEF Order, Types, Room
  <2>3. Region(U, next_to_use') = Region(U, next_to_use) \cup {next_to_use}
    BY <1>1, <2>1, <2>2, RegionGrows
  <2>4. LET f == Filled(buffer_info[next_to_use])
        IN  f \in Buffer /\ PageKept(f) /\ Usable(f)
    BY <1>1, FilledIsUsable DEF Buffers
  <2> QED BY <1>1, <2>1, <2>3, <2>4 DEF Buffers, PageKept, Usable, Region
<1>3. CASE AllocFails
  <2>1. /\ U' = U /\ UNCHANGED <<receiver, next_to_use>>
        /\ \E c \in Unallocated(buffer_info[next_to_use]) \cup
                 (IF receiver \in MapFails THEN Unmapped(buffer_info[next_to_use]) ELSE {}) :
             buffer_info' = [buffer_info EXCEPT ![next_to_use] = c]
    BY <1>3 DEF AllocFails, kind, poll, Uncleaned, Polling
  <2>2. PICK c \in Buffer : /\ buffer_info' = [buffer_info EXCEPT ![next_to_use] = c]
                            /\ PageKept(c)
    BY <1>1, <2>1, FailedIsKept DEF Buffers
  <2>3. next_to_use \notin Region(U, next_to_use)
    BY <1>1, RegionEnds
  <2> QED BY <1>1, <2>1, <2>2, <2>3 DEF Buffers, PageKept, Usable, Region
<1>4. CASE CleanOne
  <2>1. /\ UNCHANGED <<receiver, next_to_use>>
        /\ U = ci /\ U' = NextSlot(ci)
    BY <1>4 DEF CleanOne, kind, Uncleaned, Polling
  <2>2. PICK c \in Buffer : /\ buffer_info' = [buffer_info EXCEPT ![ci] = c]
                            /\ PageKept(c)
    BY <1>1, <1>4, CleanedIsKept DEF Buffers
  <2>3. ci # next_to_use
    <3>1. Done(ci) /\ rdh \in Slots /\ rdt \in Slots
      BY <1>4 DEF CleanOne, Order, Types
    <3>2. ci # rdh
      BY <1>1, <2>1, <3>1, RegionEnds DEF Order, RxOrder
    <3>3. /\ Dist(ci, rdh) \in Nat /\ Dist(ci, rdt) \in Nat /\ Dist(ci, next_to_use) \in Nat
          /\ Dist(ci, rdh) # 0 /\ (ci = next_to_use => Dist(ci, next_to_use) = 0)
      BY <1>1, <3>1, <3>2, DistRange
    <3>4. Dist(ci, rdh) <= Dist(ci, rdt) /\ Dist(ci, rdt) <= Dist(ci, next_to_use)
      BY <2>1 DEF Order, RxOrder
    <3> QED BY <3>3, <3>4
  <2>4. Region(U', next_to_use) = Region(U, next_to_use) \ {ci}
    BY <1>1, <2>1, <2>3, RegionShrinks
  <2> QED BY <1>1, <2>1, <2>2, <2>4 DEF Buffers, PageKept, Usable, Region
<1>5. CASE CleanRing
  <2>1. /\ next_to_use' = 0 /\ next_to_clean' = 0 /\ UNCHANGED <<receiver, pc>>
        /\ buffer_info' = [i \in Slots |-> Empty] /\ ~Polling
    BY <1>5 DEF CleanRing, kind, poll, Order, Control
  <2>2. Region(Uncleaned', next_to_use') = {}
    BY <2>1, RxAssumption DEF Uncleaned, Polling, Region, Dist, Slots
  <2>3. Empty \in Buffer /\ PageKept(Empty)'
    BY DEF Empty, Buffer, PageKept
  <2> QED BY <2>1, <2>2, <2>3 DEF Buffers, PageKept
<1>6. CASE AllocReturns \/ Poll \/ CleanReturns \/ PollReturns
  <2>1. UNCHANGED <<receiver, buffer_info, next_to_use>>
    BY <1>6 DEF AllocReturns, Poll, CleanReturns, PollReturns, kind, ring
  <2>2. U' = U
    <3>1. CASE AllocReturns
      BY <3>1 DEF AllocReturns, ring, Uncleaned, Polling, Order, Control
    <3>2. CASE Poll
      BY <3>2 DEF Poll, ring, Uncleaned, Polling
    <3>3. CASE CleanReturns
      BY <3>3 DEF CleanReturns, poll, Uncleaned, Polling
    <3>4. CASE PollReturns
      BY <3>4 DEF PollReturns, ring, Uncleaned, Polling, Order, Control
    <3> QED BY <1>6, <3>1, <3>2, <3>3, <3>4
  <2> QED BY <2>1, <2>2, BuffersFrame
<1>7. CASE \/ Store \/ EccError \/ Interrupt \/ Watchdog \/ GoDown \/ IrqDisable
           \/ Configure \/ GoUp \/ UNCHANGED vars
  <2>1. UNCHANGED <<receiver, buffer_info, next_to_use, Uncleaned>>
    BY <1>7 DEF Store, EccError, Interrupt, Watchdog, GoDown, IrqDisable, Configure, GoUp,
                vars, kind, ring, poll, Uncleaned, Polling
  <2> QED BY <2>1, BuffersFrame
<1> QED BY <1>2, <1>3, <1>4, <1>5, <1>6, <1>7 DEF Next, Driver, Alloc, Reset

\* Where the pages' mappings do not fail (a failed one of the legacy receiver is made
\* good when the slot is filled again), every slot between the cleaner and the tail
\* has a buffer that is mapped: failed allocations, recycling and resets included.
THEOREM BuffersStayUsable ==
  ASSUME MapFails \subseteq {"legacy"} PROVE Spec => []AdapterOwnsBuffers
<1>1. Init => Order /\ Buffers
  BY InitOrder, BuffersInit
<1>2. Order /\ Buffers /\ [Next]_vars => Order' /\ Buffers'
  BY OrderKept, BuffersKept
<1>3. Order /\ Buffers => AdapterOwnsBuffers
  <2> SUFFICES ASSUME Order, Buffers PROVE AdapterOwnsBuffers
    OBVIOUS
  <2>1. Uncleaned \in Slots /\ rdt \in Slots /\ next_to_use \in Slots
    BY DEF Order, Types, Uncleaned
  <2>2. Region(Uncleaned, rdt) \subseteq Region(Uncleaned, next_to_use)
    BY <2>1, RegionEnds DEF Order, RxOrder
  <2> QED BY <2>2 DEF Buffers, AdapterOwnsBuffers
<1> QED BY <1>1, <1>2, <1>3, PTL DEF Spec

-----------------------------------------------------------------------------
(* Interrupts.                                                             *)

AnyFrame == \E i \in Slots : Done(i) /\ desc[i].last

\* A frame that completes after the poll's last look raises an interrupt while it is
\* masked, and so does one that completes while the device comes up: the cause is
\* still there when the poll, or e1000e_up, unmasks it. It stays masked only for a
\* poll or a reset.
Announced ==
  /\ FrameIsAnnounced
  /\ rpc = "run" => napi \/ ims \/ reset_task
  /\ (caller = "last" \/ pc = "complete") /\ work < Weight /\ AnyFrame => "poll" \in icr
  /\ rpc \in {"clean", "fill", "up"} /\ AnyFrame => "poll" \in icr

\* A step with no new frame that takes no cause away and changes nothing else.
LEMMA AnnouncedFrame ==
  ASSUME Announced, AnyFrame' => AnyFrame \/ "poll" \in icr', icr \subseteq icr',
         reset_task => reset_task',
         UNCHANGED <<ims, napi, rpc, caller, pc, work>>
  PROVE  Announced'
<1>1. FrameIsAnnounced <=> (rpc = "run" /\ AnyFrame => napi \/ (ims /\ icr # {}) \/ reset_task)
  BY DEF FrameIsAnnounced, AnyFrame
<1>2. FrameIsAnnounced' <=>
        (rpc = "run" /\ AnyFrame' => napi \/ (ims /\ icr' # {}) \/ reset_task')
  BY DEF FrameIsAnnounced, AnyFrame
<1>3. ("poll" \in icr => "poll" \in icr') /\ (icr # {} => icr' # {})
  OBVIOUS
<1> HIDE DEF AnyFrame
<1>4. FrameIsAnnounced'
  <2>1. CASE AnyFrame
    <3>1. rpc = "run" => napi \/ (ims /\ icr # {}) \/ reset_task
      BY <1>1, <2>1 DEF Announced
    <3>2. rpc = "run" => napi \/ (ims /\ icr' # {}) \/ reset_task'
      BY <1>3, <3>1, Zenon
    <3> QED BY <1>2, <3>2, Zenon
  <2>2. CASE ~AnyFrame
    <3>1. AnyFrame' => icr' # {}
      BY <2>2
    <3>2. rpc = "run" => napi \/ ims \/ reset_task
      BY DEF Announced
    <3>3. rpc = "run" /\ AnyFrame' => napi \/ (ims /\ icr' # {}) \/ reset_task'
      BY <3>1, <3>2, Zenon
    <3> QED BY <1>2, <3>3, Zenon
  <2> QED BY <2>1, <2>2
<1>5. AnyFrame' => AnyFrame \/ "poll" \in icr'
  OBVIOUS
<1> QED BY <1>3, <1>4, <1>5 DEF Announced

LEMMA AnnouncedInit == Init => Announced
BY DEF Init, Announced, FrameIsAnnounced, AnyFrame, Done

LEMMA AnnouncedKept == ASSUME Order, Announced, [Next]_vars PROVE Announced'
<1>1. Types /\ Control
  BY DEF Order
<1>2. CASE Store
  <2>1. PICK last, bad \in BOOLEAN :
          LET p == [id |-> id, part |-> IF partial = NoPart THEN 1 ELSE partial.part + 1,
                    last |-> last, bad |-> bad]
          IN  /\ desc' = [desc EXCEPT ![rdh] = p]
              /\ icr' = IF last THEN icr \cup {"poll"} ELSE icr
    BY <1>2 DEF Store
  <2>2. AnyFrame' => AnyFrame \/ "poll" \in icr'
    <3>1. CASE last
      BY <2>1, <3>1
    <3>2. CASE ~last
      BY <1>1, <2>1, <3>2 DEF AnyFrame, Done, Types
    <3> QED BY <3>1, <3>2
  <2>3. icr \subseteq icr' /\ UNCHANGED <<ims, napi, rpc, caller, pc, work, reset_task>>
    BY <1>2, <2>1 DEF Store, poll, alloc, reset
  <2> QED BY <2>2, <2>3, AnnouncedFrame
<1>3. CASE EccError \/ Watchdog \/ AllocOne
  <2>1. icr \subseteq icr' /\ UNCHANGED <<ims, napi, rpc, caller, pc, work, desc>>
    BY <1>3 DEF EccError, Watchdog, AllocOne, Kick, ring, signal, poll, alloc, reset
  <2>2. reset_task => reset_task'
    BY <1>3 DEF EccError, Watchdog, AllocOne, UpdateRdt, reset
  <2>3. AnyFrame' => AnyFrame
    BY <2>1 DEF AnyFrame, Done
  <2> QED BY <2>1, <2>2, <2>3, AnnouncedFrame
<1>4. CASE AllocFails \/ UNCHANGED vars
  <2>1. UNCHANGED <<icr, ims, napi, rpc, caller, pc, work, desc, reset_task>>
    BY <1>4 DEF AllocFails, vars, ring, signal, poll, alloc, reset
  <2>2. AnyFrame' => AnyFrame
    BY <2>1 DEF AnyFrame, Done
  <2> QED BY <2>1, <2>2, AnnouncedFrame
<1>5. CASE AllocReturns
  <2>1. /\ UNCHANGED <<icr, ims, napi, work, desc>>
        /\ caller' = "none" /\ caller # "none"
        /\ pc' = IF caller = "last" THEN "complete" ELSE pc
        /\ rpc' = IF caller = "configure" THEN "up" ELSE rpc
        /\ reset_task => reset_task'
    BY <1>5 DEF AllocReturns, UpdateRdt, ring, signal
  <2>2. caller = "configure" => rpc = "fill"
    BY <1>1 DEF Control
  <2>3. AnyFrame' <=> AnyFrame
    BY <2>1 DEF AnyFrame, Done
  <2>4. FrameIsAnnounced'
    BY <2>1, <2>2, <2>3 DEF Announced, FrameIsAnnounced, AnyFrame
  <2> QED BY <2>1, <2>2, <2>3, <2>4 DEF Announced
<1>6. CASE Poll
  <2>1. /\ UNCHANGED <<icr, ims, napi, desc, rpc, caller, reset_task>>
        /\ pc' = "clean" /\ caller # "last"
    BY <1>1, <1>6 DEF Poll, ring, signal, alloc, reset, Control
  <2>2. AnyFrame' <=> AnyFrame
    BY <2>1 DEF AnyFrame, Done
  <2> QED BY <2>1, <2>2 DEF Announced, FrameIsAnnounced, AnyFrame
<1>7. CASE CleanOne
  <2>1. /\ UNCHANGED <<icr, ims, napi, pc, rpc, reset_task>>
        /\ pc = "clean" /\ caller' # "last"
        /\ desc' = [desc EXCEPT ![ci] = NoPart]
    BY <1>7 DEF CleanOne, signal, reset
  <2>2. AnyFrame' => AnyFrame
    BY <1>1, <2>1 DEF AnyFrame, Done, Types
  <2> QED BY <2>1, <2>2 DEF Announced, FrameIsAnnounced, AnyFrame
<1>8. CASE CleanReturns
  <2>1. /\ UNCHANGED <<icr, ims, napi, work, desc, pc, rpc, reset_task>>
        /\ pc = "clean" /\ (~Done(ci) \/ work >= Weight)
    BY <1>8 DEF CleanReturns, signal, poll, reset
  <2>2. AnyFrame' <=> AnyFrame
    BY <2>1 DEF AnyFrame, Done
  <2>3. work < Weight => ~AnyFrame
    <3> SUFFICES ASSUME work < Weight PROVE ~AnyFrame
      OBVIOUS
    <3>1. ci \in Slots /\ rdh \in Slots /\ Uncleaned = ci
      BY <1>1, <2>1 DEF Types, Uncleaned, Polling
    <3>2. ~Done(ci)
      BY <1>1, <2>1, RxAssumption DEF Types
    <3>3. ci = rdh
      BY <3>1, <3>2, RegionEnds DEF Order, RxOrder
    <3>4. Region(ci, rdh) = {}
      <4>1. Dist(ci, rdh) = 0 /\ \A i \in Slots : Dist(ci, i) \in Nat
        BY <3>1, <3>3, DistRange
      <4> QED BY <4>1 DEF Region
    <3> QED BY <3>1, <3>4 DEF Order, RxOrder, AnyFrame
  <2> QED BY <2>1, <2>2, <2>3 DEF Announced, FrameIsAnnounced, AnyFrame
<1>9. CASE PollReturns
  <2>1. /\ UNCHANGED <<icr, desc, caller, rpc, reset_task>>
        /\ pc = "complete" /\ pc' = "idle" /\ caller # "last"
        /\ \/ work < Weight /\ ims' = (ims \/ ~Down)
           \/ UNCHANGED <<ims, napi>>
    BY <1>1, <1>9 DEF PollReturns, Finished, ring, alloc, reset, Control
  <2>2. AnyFrame' <=> AnyFrame
    BY <2>1 DEF AnyFrame, Done
  <2>3. AnyFrame /\ work < Weight => icr # {}
    BY <2>1 DEF Announced
  <2>4. rpc = "run" /\ work < Weight => ims' \/ UNCHANGED <<ims, napi>>
    BY <2>1 DEF Down
  <2>5. FrameIsAnnounced'
    BY <2>1, <2>2, <2>3, <2>4 DEF Announced, FrameIsAnnounced, AnyFrame
  <2>6. (rpc = "run" => napi \/ ims \/ reset_task)'
    <3>1. rpc = "run" => napi \/ ims \/ reset_task
      BY DEF Announced
    <3>2. CASE ims' = (ims \/ ~Down)
      BY <2>1, <3>2 DEF Down
    <3>3. CASE UNCHANGED <<ims, napi>>
      BY <2>1, <3>1, <3>3, Zenon
    <3> QED BY <2>1, <3>2, <3>3
  <2> QED BY <2>1, <2>2, <2>5, <2>6 DEF Announced
<1>10. CASE Interrupt
  <2>1. /\ UNCHANGED <<desc, caller, rpc, pc>> /\ ims
        /\ rpc = "run" => napi' \/ reset_task'
    BY <1>10 DEF Interrupt, ring, poll, alloc, Down
  <2>2. pc = "idle" /\ caller # "last" /\ rpc \notin {"clean", "fill", "up"}
    BY <1>1, <2>1 DEF Control, Polling
  <2> QED BY <2>1, <2>2 DEF Announced, FrameIsAnnounced
<1>11. CASE GoDown \/ IrqDisable
  <2>1. /\ UNCHANGED <<icr, desc, caller, pc, work>>
        /\ rpc' \in {"sleep", "quiesce"}
    BY <1>11 DEF GoDown, IrqDisable, ring, signal, poll, alloc
  <2>2. AnyFrame' <=> AnyFrame
    BY <2>1 DEF AnyFrame, Done
  <2> QED BY <2>1, <2>2 DEF Announced, FrameIsAnnounced
<1>12. CASE CleanRing
  <2>1. ~AnyFrame' /\ rpc' = "clean"
    BY <1>12 DEF CleanRing, AnyFrame, Done
  <2> QED BY <2>1 DEF Announced, FrameIsAnnounced, AnyFrame
<1>13. CASE Configure
  <2>1. /\ UNCHANGED <<icr, desc, pc, work>>
        /\ rpc = "clean" /\ rpc' = "fill" /\ caller' = "configure"
    BY <1>13 DEF Configure, ring, signal, poll
  <2>2. AnyFrame' <=> AnyFrame
    BY <2>1 DEF AnyFrame, Done
  <2> QED BY <2>1, <2>2 DEF Announced, FrameIsAnnounced
<1>14. CASE GoUp
  <2>1. /\ UNCHANGED <<desc, caller, pc, work>> /\ icr \subseteq icr' /\ ims'
        /\ rpc = "up" /\ rpc' = "run"
    BY <1>14 DEF GoUp, ring, poll, alloc
  <2>2. AnyFrame' <=> AnyFrame
    BY <2>1 DEF AnyFrame, Done
  <2>3. AnyFrame => "poll" \in icr'
    BY <2>1 DEF Announced
  <2> QED BY <2>1, <2>2, <2>3 DEF Announced, FrameIsAnnounced, AnyFrame
<1> QED
  BY <1>2, <1>3, <1>4, <1>5, <1>6, <1>7, <1>8, <1>9, <1>10, <1>11, <1>12, <1>13, <1>14
  DEF Next, Driver, Alloc, Reset

\* With any kind of interrupt, any budget and any failures, a complete frame in the
\* ring of a running device has a poll, an interrupt or a reset on its way.
THEOREM NoFrameIsForgotten == Spec => []FrameIsAnnounced
<1>1. Init => Order /\ Announced
  BY InitOrder, AnnouncedInit
<1>2. Order /\ Announced /\ [Next]_vars => Order' /\ Announced'
  BY OrderKept, AnnouncedKept
<1>3. Announced => FrameIsAnnounced
  BY DEF Announced
<1> QED BY <1>1, <1>2, <1>3, PTL DEF Spec

-----------------------------------------------------------------------------
(* The types of the rest of the state.                                     *)

Flags == {discarding, rxen, ims, napi, moved, reset_task, opening} \subseteq BOOLEAN

Modes ==
  /\ \E s \in Setups : receiver = s[1] /\ irq = s[2]
  /\ icr \subseteq {"poll", "ecc"}
  /\ pc \in {"idle", "clean", "complete"}
  /\ caller \in {"none", "loop", "last", "configure"}
  /\ rpc \in {"run", "sleep", "quiesce", "clean", "fill", "up"}

\* The parts of the frames under way, and those a step hands up.
FrameTypes ==
  /\ rx_skb_top \in Seq(Parts) /\ up \in Seq(Parts)
  /\ partial \in Parts \cup {NoPart} /\ id \in 0..(Ids - 1)

\* Nothing is left to allocate when nobody allocates.
Counters ==
  /\ cleaned \in 0..(Write - 1) /\ work \in 0..Weight /\ fails \in 0..MaxFails
  /\ caller = "none" => left = 0

BufferTypes == buffer_info \in [Slots -> Buffer]

RestTypes == Flags /\ Modes /\ FrameTypes /\ Counters /\ BufferTypes

LEMMA Receivers == ASSUME Modes PROVE receiver \in {"legacy", "ps", "jumbo"}
BY RxAssumption DEF Modes

LEMMA FlagsInit == Init => Flags
BY RxAssumption, Zenon DEF Init, Flags

LEMMA FlagsKept == ASSUME Flags, Modes, [Next]_vars PROVE Flags'
<1> USE DEF Flags, kind, ring, chain, hw, signal, poll, alloc, reset
<1>1. CASE Store \/ EccError
  BY <1>1 DEF Store, EccError
<1>2. CASE Alloc
  BY <1>2 DEF Alloc, AllocOne, AllocFails, AllocReturns, UpdateRdt
<1>3. CASE Poll \/ CleanReturns \/ PollReturns
  BY <1>3 DEF Poll, CleanReturns, PollReturns, Down
<1>4. CASE CleanOne
  <2>1. discarding' \in BOOLEAN
    <3>1. CASE receiver = "legacy"
      BY <1>4, <3>1 DEF CleanOne, CleanLegacy
    <3>2. CASE receiver = "ps"
      BY <1>4, <3>2 DEF CleanOne, CleanPs
    <3>3. CASE receiver = "jumbo"
      BY <1>4, <3>3 DEF CleanOne, CleanJumbo
    <3> QED BY <3>1, <3>2, <3>3, Receivers
  <2> QED BY <1>4, <2>1 DEF CleanOne
<1>5. CASE Interrupt \/ Watchdog
  BY <1>5 DEF Interrupt, Watchdog
<1>6. CASE Reset
  BY <1>6 DEF Reset, GoDown, IrqDisable, CleanRing, Configure, GoUp
<1>7. CASE UNCHANGED vars
  BY <1>7 DEF vars
<1> QED BY <1>1, <1>2, <1>3, <1>4, <1>5, <1>6, <1>7 DEF Next, Driver

LEMMA ModesKept == ASSUME Modes, [Next]_vars PROVE Modes'
<1> USE DEF Modes, kind, ring, chain, hw, signal, poll, alloc, reset
<1>1. CASE Store \/ EccError
  BY <1>1 DEF Store, EccError
<1>2. CASE Alloc
  BY <1>2 DEF Alloc, AllocOne, AllocFails, AllocReturns
<1>3. CASE Poll \/ CleanReturns \/ PollReturns \/ CleanOne
  BY <1>3 DEF Poll, CleanReturns, PollReturns, CleanOne
<1>5. CASE Interrupt \/ Watchdog
  BY <1>5 DEF Interrupt, Watchdog, Kick
<1>6. CASE Reset
  BY <1>6 DEF Reset, GoDown, IrqDisable, CleanRing, Configure, GoUp
<1>7. CASE UNCHANGED vars
  BY <1>7 DEF vars
<1> QED BY <1>1, <1>2, <1>3, <1>5, <1>6, <1>7 DEF Next, Driver

\* Whatever the cleaner does with a part, it chains and hands up parts, and leaves a
\* buffer in the slot.
LEMMA CleanedTypes ==
  ASSUME Types, FrameTypes, BufferTypes, Modes, CleanOne
  PROVE  /\ rx_skb_top' \in Seq(Parts) /\ up' \in Seq(Parts)
         /\ buffer_info' \in [Slots -> Buffer]
<1> DEFINE b == Released(buffer_info[ci])
           p == desc[ci]
<1>1. ci \in Slots /\ p \in Parts
  BY DEF CleanOne, Types, Done
<1>2. buffer_info[ci] \in Buffer
  BY <1>1 DEF BufferTypes
<1>3. b \in Buffer /\ Empty \in Buffer
  BY <1>2 DEF Released, Buffer, Empty
<1>4. rx_skb_top \in Seq(Parts) /\ <<p>> \in Seq(Parts) /\ <<>> \in Seq(Parts)
      /\ Append(rx_skb_top, p) \in Seq(Parts)
  BY <1>1 DEF FrameTypes
<1>5. ASSUME NEW x \in Buffer, buffer_info' = [buffer_info EXCEPT ![ci] = x]
      PROVE  buffer_info' \in [Slots -> Buffer]
  BY <1>1, <1>5 DEF BufferTypes
<1>6. CASE receiver = "legacy"
  <2>1. CleanLegacy(p, b)
    BY <1>6 DEF CleanOne
  <2>2. \A c \in BOOLEAN : [b EXCEPT !.skb = c] \in Buffer
    BY <1>3 DEF Buffer
  <2> HIDE DEF b, p
  <2>3. \E x \in Buffer : buffer_info' = [buffer_info EXCEPT ![ci] = x]
    BY <2>1, <2>2, <1>3 DEF CleanLegacy
  <2>4. up' = <<>> \/ up' = <<p>>
    BY <2>1 DEF CleanLegacy, HandsUpNothing
  <2> QED BY <2>1, <2>3, <2>4, <1>4, <1>5 DEF CleanLegacy
<1>7. CASE receiver = "ps"
  <2>1. CleanPs(p, b)
    BY <1>7 DEF CleanOne
  <2>2. [b EXCEPT !.skb = FALSE] \in Buffer
    BY <1>3 DEF Buffer
  <2> HIDE DEF b, p
  <2>3. \E x \in Buffer : buffer_info' = [buffer_info EXCEPT ![ci] = x]
    BY <2>1, <2>2, <1>3 DEF CleanPs
  <2>4. up' = <<>> \/ up' = <<p>>
    BY <2>1 DEF CleanPs, HandsUpNothing
  <2> QED BY <2>1, <2>3, <2>4, <1>4, <1>5 DEF CleanPs
<1>8. CASE receiver = "jumbo"
  <2>1. CleanJumbo(p, b)
    BY <1>8 DEF CleanOne
  <2> DEFINE chained == rx_skb_top # <<>>
  <2>2. \A c \in BOOLEAN : [b EXCEPT !.skb = chained, !.page = c] \in Buffer
    <3>1. chained \in BOOLEAN
      OBVIOUS
    <3> HIDE DEF chained
    <3> QED BY <1>3, <3>1 DEF Buffer
  <2>3. CASE p.bad
    BY <2>1, <2>3, <1>3, <1>4, <1>5 DEF CleanJumbo, ChainAfterError, HandsUpNothing
  <2>4. CASE ~p.bad
    <3>1. \E c \in BOOLEAN :
            buffer_info' = [buffer_info EXCEPT ![ci] = [b EXCEPT !.skb = chained, !.page = c]]
      BY <2>1, <2>4 DEF CleanJumbo
    <3>2. /\ rx_skb_top' = IF p.last THEN <<>> ELSE Append(rx_skb_top, p)
          /\ up' = IF p.last THEN Append(rx_skb_top, p) ELSE <<>>
      BY <2>1, <2>4 DEF CleanJumbo
    <3> HIDE DEF b, p, chained
    <3> QED BY <2>2, <3>1, <3>2, <1>4, <1>5
  <2> QED BY <2>3, <2>4
<1> QED BY <1>6, <1>7, <1>8, Receivers

LEMMA FrameTypesKept ==
  ASSUME Types, FrameTypes, BufferTypes, Modes, [Next]_vars
  PROVE  FrameTypes'
<1> USE RxAssumption DEF FrameTypes, kind, ring, chain, hw, signal, poll, alloc, reset,
        HandsUpNothing
<1>0. \A n \in 0..(Ids - 1) : (n + 1) % Ids \in 0..(Ids - 1)
  OBVIOUS
<1>1. CASE Store
  <2>1. PICK last \in BOOLEAN, bad \in BOOLEAN, p \in Parts :
          /\ partial' = IF last THEN NoPart ELSE p
          /\ id' = IF last THEN (id + 1) % Ids ELSE id
    BY <1>1 DEF Store
  <2> QED BY <1>0, <1>1, <2>1 DEF Store
<1>2. CASE EccError \/ Alloc \/ Poll \/ CleanReturns \/ PollReturns
  <2>1. UNCHANGED <<rx_skb_top, partial, id>> /\ up' = <<>>
    BY <1>2 DEF EccError, Alloc, AllocOne, AllocFails, AllocReturns, Poll, CleanReturns, PollReturns
  <2> QED BY <2>1
<1>3. CASE CleanOne
  BY <1>3, CleanedTypes DEF CleanOne
<1>4. CASE Interrupt \/ Watchdog \/ GoDown \/ IrqDisable \/ Configure \/ GoUp
  <2>1. UNCHANGED <<rx_skb_top, partial, id>> /\ up' = <<>>
    BY <1>4 DEF Interrupt, Watchdog, GoDown, IrqDisable, Configure, GoUp
  <2> QED BY <2>1
<1>5. CASE CleanRing
  BY <1>0, <1>5 DEF CleanRing
<1>6. CASE UNCHANGED vars
  BY <1>6 DEF vars
<1> QED BY <1>1, <1>2, <1>3, <1>4, <1>5, <1>6 DEF Next, Driver, Reset

\* A slot that was filled, or could not be, still holds a buffer.
LEMMA FilledTypes ==
  ASSUME Modes, NEW b \in Buffer
  PROVE  /\ Filled(b) \in Buffer
         /\ \A c \in Unallocated(b) \cup Unmapped(b) : c \in Buffer
<1>1. CASE receiver = "legacy"
  BY <1>1 DEF Buffer, Filled, Unallocated, Unmapped
<1>2. CASE receiver = "jumbo"
  BY <1>2 DEF Buffer, Filled, Unallocated, Unmapped
<1>3. CASE receiver = "ps"
  BY <1>3 DEF Buffer, Filled, Unallocated, Unmapped
<1> QED BY <1>1, <1>2, <1>3, Receivers

LEMMA BufferTypesKept ==
  ASSUME Types, FrameTypes, BufferTypes, Modes, [Next]_vars
  PROVE  BufferTypes'
<1> USE DEF ring
<1>0. buffer_info[next_to_use] \in Buffer
  BY DEF BufferTypes, Types
<1>1. CASE AllocOne
  <2>1. Filled(buffer_info[next_to_use]) \in Buffer
    BY <1>0, FilledTypes
  <2>2. buffer_info' = [buffer_info EXCEPT ![next_to_use] = Filled(buffer_info[next_to_use])]
    BY <1>1 DEF AllocOne
  <2> QED BY <2>1, <2>2 DEF BufferTypes
<1>2. CASE AllocFails
  <2>1. PICK c \in Unallocated(buffer_info[next_to_use]) \cup Unmapped(buffer_info[next_to_use]) :
          buffer_info' = [buffer_info EXCEPT ![next_to_use] = c]
    BY <1>2 DEF AllocFails
  <2>2. c \in Buffer
    BY <1>0, FilledTypes
  <2> QED BY <2>1, <2>2 DEF BufferTypes
<1>3. CASE CleanOne
  BY <1>3, CleanedTypes DEF BufferTypes
<1>4. CASE CleanRing
  <2>1. Empty \in Buffer
    BY DEF Empty, Buffer
  <2> QED BY <1>4, <2>1 DEF CleanRing, BufferTypes
<1>5. CASE \/ Store \/ EccError \/ AllocReturns \/ Poll \/ CleanReturns \/ PollReturns
           \/ Interrupt \/ Watchdog \/ GoDown \/ IrqDisable \/ Configure \/ GoUp
           \/ UNCHANGED vars
  <2>1. buffer_info' = buffer_info
    BY <1>5 DEF Store, EccError, AllocReturns, Poll, CleanReturns, PollReturns, Interrupt,
                Watchdog, GoDown, IrqDisable, Configure, GoUp, vars
  <2> QED BY <2>1 DEF BufferTypes
<1> QED BY <1>1, <1>2, <1>3, <1>4, <1>5 DEF Next, Driver, Alloc, Reset

LEMMA CountersKept ==
  ASSUME Types, Counters, [Next]_vars
  PROVE  Counters'
<1> USE RxAssumption DEF Counters, kind, ring, chain, hw, signal, poll, alloc, reset
<1>0. ASSUME NEW k, UpdateRdt(k)
      PROVE  fails' \in 0..MaxFails
  BY <1>0 DEF UpdateRdt
<1>1. CASE AllocOne
  BY <1>0, <1>1 DEF AllocOne
<1>2. CASE AllocFails
  BY <1>2 DEF AllocFails
<1>3. CASE AllocReturns
  BY <1>0, <1>3 DEF AllocReturns
<1>4. CASE CleanOne
  BY <1>4 DEF CleanOne
<1>5. CASE Store \/ EccError \/ Poll \/ CleanReturns \/ PollReturns
  BY <1>5 DEF Store, EccError, Poll, CleanReturns, PollReturns
<1>6. CASE Interrupt \/ Watchdog \/ Reset
  BY <1>6 DEF Interrupt, Watchdog, Reset, GoDown, IrqDisable, CleanRing, Configure, GoUp
<1>7. CASE UNCHANGED vars
  BY <1>7 DEF vars
<1> QED BY <1>1, <1>2, <1>3, <1>4, <1>5, <1>6, <1>7 DEF Next, Driver, Alloc

LEMMA RestTypesInit == Init => RestTypes
<1> SUFFICES ASSUME Init PROVE RestTypes
  OBVIOUS
<1>1. Modes
  BY DEF Init, Modes
<1>2. FrameTypes /\ Counters
  BY RxAssumption DEF Init, FrameTypes, Counters
<1>3. BufferTypes
  BY DEF Init, BufferTypes, Buffer, Empty
<1> QED BY FlagsInit, <1>1, <1>2, <1>3 DEF RestTypes

LEMMA RestTypesKept == ASSUME Order, RestTypes, [Next]_vars PROVE RestTypes'
BY FlagsKept, ModesKept, FrameTypesKept, CountersKept, BufferTypesKept DEF RestTypes, Order

\* The room there is for the slots still to be filled bounds how many are left to fill.
LEMMA LeftFits == ASSUME Order, Counters PROVE left \in 0..(Count - 1)
<1>1. CASE caller = "none"
  BY <1>1, RxAssumption DEF Counters
<1>2. CASE caller # "none"
  <2>1. Uncleaned \in Slots /\ next_to_use \in Slots /\ left \in Nat
    BY DEF Order, Types, Uncleaned
  <2>2. Dist(Uncleaned, next_to_use) \in Nat
    BY <2>1, DistRange
  <2>3. Dist(Uncleaned, next_to_use) + left <= Count - 1
    BY <1>2 DEF Order, Room
  <2> QED BY <2>1, <2>2, <2>3, RxAssumption
<1> QED BY <1>1, <1>2

\* Every index of the ring stays in it, no more slots are ever left to fill than the ring
\* has to spare, the poll keeps to its budget and only parts of frames are chained and
\* handed up - for any receiver and any failures (e1000_clean_rx_irq, alloc_rx_buf).
THEOREM RxTypeCorrect == Spec => []TypeOK
<1>1. Init => Order /\ RestTypes
  BY InitOrder, RestTypesInit
<1>2. Order /\ RestTypes /\ [Next]_vars => Order' /\ RestTypes'
  BY OrderKept, RestTypesKept
<1>3. Order /\ RestTypes => TypeOK
  <2> SUFFICES ASSUME Order, RestTypes PROVE TypeOK
    OBVIOUS
  <2>1. {next_to_use, next_to_clean, rdh, rdt, ci} \subseteq Slots
    BY DEF Order, Types
  <2>2. desc \in [Slots -> Parts \cup {NoPart}]
    BY DEF Order, Types
  <2>3. left \in 0..(Count - 1)
    BY LeftFits DEF RestTypes
  <2>4. {discarding, rxen, ims, napi, moved, reset_task, opening} \subseteq BOOLEAN
    BY DEF RestTypes, Flags
  <2> QED
    BY <2>1, <2>2, <2>3, <2>4
       DEF TypeOK, RestTypes, Modes, FrameTypes, Counters, BufferTypes, Buffer
<1> QED BY <1>1, <1>2, <1>3, PTL DEF Spec

-----------------------------------------------------------------------------
(* The ring is a stream of frames: RxStream, under the mapping of          *)
(* RxRingStream.                                                           *)

\* Part p can come right after part q.
Follows(p, q) ==
  IF q.last THEN p.part = 1 ELSE p.id = q.id /\ p.part = q.part + 1

\* The parts in the ring follow each other, and the one stored last is the one the
\* adapter is in the middle of, if any.
PartsFollow ==
  \A i \in Region(Uncleaned, rdh) :
     IF NextSlot(i) = rdh THEN partial = IF desc[i].last THEN NoPart ELSE desc[i]
                          ELSE Follows(desc[NextSlot(i)], desc[i])

\* An unfinished frame has the number the adapter is at.
PartialIsNewest == partial # NoPart => ~partial.last /\ partial.id = id

\* What the driver remembers of the parts it has taken: the jumbo receiver has them
\* chained, the others toss the rest of the frame.
Chain == [k \in 1..Taken |-> TakenPart(k)]

TakenAreKnown ==
  IF receiver = "jumbo" THEN rx_skb_top = Chain ELSE discarding <=> Taken > 0

\* A reset stops the adapter before it empties the ring.
HaltedForReset ==
  /\ rpc \in {"sleep", "quiesce", "clean"} => ~rxen
  /\ rpc = "clean" => rdh = Uncleaned /\ partial = NoPart

StreamInv == PartsFollow /\ PartialIsNewest /\ TakenAreKnown /\ HaltedForReset

\* Parts and NoPart alike.
AnyPart == [id : Nat, part : Nat, last : BOOLEAN, bad : BOOLEAN]

StreamTypes == Order /\ Modes /\ FrameTypes /\ Flags

-----------------------------------------------------------------------------
LEMMA FurtherAt ==
  ASSUME NEW a \in Slots, NEW k \in 0..(Count - 1)
  PROVE  /\ Further(a, k) \in Slots
         /\ Dist(a, Further(a, k)) = k
         /\ k + 1 < Count => /\ NextSlot(Further(a, k)) = Further(a, k + 1)
                             /\ Further(NextSlot(a), k) = Further(a, k + 1)
BY RxAssumption DEF Further, Dist, NextSlot, Slots

LEMMA FurtherDist ==
  ASSUME NEW a \in Slots, NEW b \in Slots
  PROVE  Further(a, Dist(a, b)) = b
BY RxAssumption DEF Further, Dist, Slots

\* What the mapping reads, and what it makes of it.
LEMMA WireTypes ==
  ASSUME StreamTypes, PartsFollow, PartialIsNewest
  PROVE  /\ Uncleaned \in Slots /\ rdh \in Slots
         /\ Stored \in 0..(Count - 1) /\ Taken \in Nat /\ TakenId \in Nat
         /\ \A i \in Region(Uncleaned, rdh) : i \in Slots /\ desc[i] \in Parts
         /\ \A k \in 0..(Count - 1) : k < Stored => Further(Uncleaned, k) \in Region(Uncleaned, rdh)
         /\ Parts \subseteq AnyPart /\ NoPart \in AnyPart
         /\ Wire \in Seq(AnyPart) /\ Len(Wire) = Taken + Stored
         /\ \A k \in 1..(Taken + Stored) :
              Wire[k] = IF k <= Taken THEN TakenPart(k) ELSE desc[Further(Uncleaned, k - Taken - 1)]
<1>1. Uncleaned \in Slots /\ rdh \in Slots
  BY DEF StreamTypes, Order, Types, Uncleaned
<1>2. Stored \in 0..(Count - 1)
  BY <1>1, DistRange DEF Stored
<1>3. \A i \in Region(Uncleaned, rdh) : i \in Slots /\ desc[i] \in Parts
  BY DEF StreamTypes, Order, RxOrder, Types, Done, Region
<1>4. \A k \in 0..(Count - 1) : k < Stored => Further(Uncleaned, k) \in Region(Uncleaned, rdh)
  BY <1>1, FurtherAt DEF Stored, Region
<1>5. Parts \subseteq AnyPart /\ NoPart \in AnyPart
  BY RxAssumption DEF Parts, NoPart, AnyPart
<1>6. \A p \in Parts : p.part \in Nat \ {0} /\ p.id \in Nat
  BY RxAssumption DEF Parts
<1>7. Taken \in Nat /\ TakenId \in Nat
  <2>1. CASE Stored > 0
    <3>1. Uncleaned \in Region(Uncleaned, rdh)
      BY <1>1, <2>1, RegionEnds, DistRange DEF Stored
    <3> QED BY <1>3, <1>6, <2>1, <3>1 DEF Taken, TakenId
  <2>2. CASE ~(Stored > 0)
    <3>1. partial \in AnyPart
      BY <1>5 DEF StreamTypes, FrameTypes
    <3> QED BY <2>2, <3>1 DEF Taken, TakenId, AnyPart
  <2> QED BY <2>1, <2>2
<1> DEFINE at(k) == IF k <= Taken THEN TakenPart(k) ELSE desc[Further(Uncleaned, k - Taken - 1)]
           n == Taken + Stored
<1>8. n \in Nat
  BY <1>2, <1>7, RxAssumption
<1>9. \A k \in 1..n : at(k) \in AnyPart
  <2> SUFFICES ASSUME NEW k \in 1..n PROVE at(k) \in AnyPart
    OBVIOUS
  <2>1. CASE k <= Taken
    BY <1>7, <2>1 DEF TakenPart, AnyPart
  <2>2. CASE ~(k <= Taken)
    <3>1. k - Taken - 1 \in 0..(Count - 1) /\ k - Taken - 1 < Stored
      BY <1>2, <1>7, <2>2, RxAssumption
    <3>2. desc[Further(Uncleaned, k - Taken - 1)] \in Parts
      BY <1>3, <1>4, <3>1
    <3> QED BY <1>5, <2>2, <3>2
  <2> QED BY <2>1, <2>2
<1>10. Wire = [k \in 1..n |-> at(k)]
  BY DEF Wire
<1> HIDE DEF at, n
<1>11. Wire \in Seq(AnyPart) /\ Len(Wire) = n
  <2>1. Wire \in [1..n -> AnyPart]
    BY <1>9, <1>10
  <2> QED BY <1>8, <2>1
<1>12. \A k \in 1..n : Wire[k] = at(k)
  BY <1>10
<1> QED BY <1>1, <1>2, <1>3, <1>4, <1>5, <1>7, <1>11, <1>12 DEF at, n

\* A step that moves neither cleaner nor head and stores nothing leaves the stream.
LEMMA WireKept ==
  ASSUME UNCHANGED <<Uncleaned, rdh, desc, partial>>
  PROVE  /\ UNCHANGED <<Wire, Taken, TakenId, Stored>>
         /\ PartsFollow => PartsFollow'
         /\ receiver' = receiver /\ rx_skb_top' = rx_skb_top /\ discarding' = discarding
              => (TakenAreKnown <=> TakenAreKnown')
<1>1. Stored' = Stored
  BY DEF Stored, Dist
<1>2. Taken' = Taken /\ TakenId' = TakenId
  BY <1>1 DEF Taken, TakenId
<1>3. \A k : TakenPart(k)' = TakenPart(k)
  BY <1>2 DEF TakenPart
<1>4. Wire' = Wire
  BY <1>1, <1>2, <1>3 DEF Wire, Further
<1>5. PartsFollow => PartsFollow'
  BY DEF PartsFollow, Region, Dist, Slots, NextSlot, Follows
<1>6. Chain' = Chain
  BY <1>2, <1>3 DEF Chain
<1> QED BY <1>1, <1>2, <1>4, <1>5, <1>6 DEF TakenAreKnown

\* Nothing is left of the stream of an empty ring.
LEMMA NoWire ==
  ASSUME StreamTypes, PartsFollow, PartialIsNewest
  PROVE  /\ Wire = <<>> <=> Taken + Stored = 0
         /\ rdh = Uncleaned /\ partial = NoPart => Wire = <<>> /\ Taken = 0
<1>1. Wire = <<>> <=> Taken + Stored = 0
  BY WireTypes, EmptySeq
<1>2. rdh = Uncleaned => Stored = 0
  BY WireTypes, DistRange DEF Stored
<1> QED BY <1>1, <1>2 DEF Taken, NoPart

LEMMA StreamInit == Init => StreamInv /\ Stream!Init
<1> SUFFICES ASSUME Init PROVE StreamInv /\ Stream!Init
  OBVIOUS
<1>1. Uncleaned = 0 /\ rdh = 0 /\ 0 \in Slots /\ Stored = 0
  BY RxAssumption DEF Init, Uncleaned, Polling, Slots, Stored, Dist
<1>2. Taken = 0 /\ partial = NoPart
  BY <1>1 DEF Init, Taken, NoPart
<1>3. Wire = <<>> /\ Chain = <<>>
  BY <1>1, <1>2 DEF Wire, Chain
<1>4. Region(0, 0) = {}
  BY <1>1, DistRange DEF Region
<1>5. PartsFollow /\ PartialIsNewest
  BY <1>1, <1>2, <1>4 DEF PartsFollow, PartialIsNewest
<1>6. TakenAreKnown
  BY <1>2, <1>3 DEF Init, TakenAreKnown
<1>7. HaltedForReset
  BY <1>1, <1>2 DEF Init, HaltedForReset
<1> QED BY <1>3, <1>5, <1>6, <1>7 DEF StreamInv, Stream!Init, Init

\* A step beside the stream at most halts or starts the adapter.
LEMMA BesideStream ==
  ASSUME StreamTypes, StreamInv,
         UNCHANGED <<Uncleaned, rdh, desc, partial, id, receiver, rx_skb_top, discarding>>,
         up' = <<>>,
         rxen' = rxen \/ rxen' = FALSE \/ (rxen' = TRUE /\ rpc = "clean")
  PROVE  /\ PartsFollow' /\ PartialIsNewest' /\ TakenAreKnown'
         /\ Stream!Next
<1>1. UNCHANGED Wire /\ PartsFollow' /\ TakenAreKnown'
  BY WireKept DEF StreamInv
<1>2. PartialIsNewest'
  BY DEF StreamInv, PartialIsNewest
<1>3. rpc = "clean" => Wire = <<>>
  BY NoWire DEF StreamInv, HaltedForReset
<1> QED BY <1>1, <1>2, <1>3 DEF Stream!Next, Stream!Other, Stream!Halt, Stream!Start, Stream!Silent

LEMMA OtherStream ==
  ASSUME StreamTypes, StreamInv,
         EccError \/ Alloc \/ Poll \/ CleanReturns \/ PollReturns \/ Interrupt \/ Watchdog
           \/ GoDown \/ IrqDisable \/ Configure \/ GoUp
  PROVE  StreamInv' /\ Stream!Next
<1> USE DEF HandsUpNothing, kind, ring, chain, hw, signal, poll, alloc, reset
<1>1. UNCHANGED <<rdh, desc, partial, id, receiver, rx_skb_top, discarding>> /\ up' = <<>>
  BY DEF EccError, Alloc, AllocOne, AllocFails, AllocReturns, Poll, CleanReturns, PollReturns,
         Interrupt, Watchdog, GoDown, IrqDisable, Configure, GoUp
<1>2. Control
  BY DEF StreamTypes, Order
<1>3. Uncleaned' = Uncleaned
  <2>1. CASE EccError \/ AllocOne \/ AllocFails \/ CleanReturns \/ Interrupt \/ Watchdog
             \/ GoDown \/ IrqDisable \/ Configure \/ GoUp
    BY <2>1 DEF EccError, AllocOne, AllocFails, CleanReturns, Interrupt, Watchdog, GoDown,
                IrqDisable, Configure, GoUp, Uncleaned, Polling
  <2>2. CASE AllocReturns
    BY <1>2, <2>2 DEF AllocReturns, Uncleaned, Polling, Control
  <2>3. CASE Poll
    BY <2>3 DEF Poll, Uncleaned, Polling
  <2>4. CASE PollReturns
    BY <1>2, <2>4 DEF PollReturns, Uncleaned, Polling, Control
  <2> QED BY <2>1, <2>2, <2>3, <2>4 DEF Alloc
<1>4. /\ rxen' = rxen \/ rxen' = FALSE \/ (rxen' = TRUE /\ rpc = "clean")
      /\ rpc' \in {"sleep", "quiesce", "clean"} => rxen' = FALSE
  <2>0. rxen \in BOOLEAN /\ (rpc \in {"sleep", "quiesce", "clean"} => ~rxen)
    BY DEF StreamTypes, Flags, StreamInv, HaltedForReset
  <2>1. CASE EccError \/ AllocFails \/ Poll \/ CleanReturns \/ PollReturns \/ Interrupt
             \/ Watchdog
    <3>1. rxen' = rxen /\ rpc' = rpc
      BY <2>1 DEF EccError, AllocFails, Poll, CleanReturns, PollReturns, Interrupt, Watchdog
    <3> QED BY <2>0, <3>1
  <2>2. CASE AllocOne \/ AllocReturns
    <3>1. /\ rxen' = rxen \/ \E fate : rxen' = (rxen /\ fate # "noticed")
          /\ rpc' = rpc \/ rpc' = "up"
      BY <2>2 DEF AllocOne, AllocReturns, UpdateRdt
    <3>2. rxen' = rxen \/ rxen' = FALSE
      BY <2>0, <3>1
    <3> QED BY <2>0, <3>1, <3>2
  <2>3. CASE GoDown \/ IrqDisable \/ Configure \/ GoUp
    BY <2>0, <2>3 DEF GoDown, IrqDisable, Configure, GoUp
  <2> QED BY <2>1, <2>2, <2>3 DEF Alloc
<1>5. HaltedForReset'
  <2>1. rpc' = "clean" => rpc = "clean"
    BY DEF EccError, Alloc, AllocOne, AllocFails, AllocReturns, Poll, CleanReturns, PollReturns,
         Interrupt, Watchdog, GoDown, IrqDisable, Configure, GoUp
  <2> QED BY <1>1, <1>3, <1>4, <2>1 DEF StreamInv, HaltedForReset
<1> QED BY <1>1, <1>3, <1>4, <1>5, BesideStream DEF StreamInv

\* The newest part of the stream is the adapter's unfinished one, or ends its frame.
LEMMA Newest ==
  ASSUME StreamTypes, PartsFollow, PartialIsNewest
  PROVE  /\ Wire = <<>> => partial = NoPart
         /\ Wire # <<>> => LET q == Wire[Taken + Stored]
                           IN  /\ q.last => partial = NoPart
                               /\ ~q.last => partial # NoPart /\ q.id = partial.id
                                                /\ q.part = partial.part
<1>1. partial \in Parts \cup {NoPart} /\ Taken \in Nat /\ Stored \in Nat /\ TakenId \in Nat
  BY WireTypes, RxAssumption DEF StreamTypes, FrameTypes
<1>2. CASE Stored = 0
  <2>1. Taken = partial.part /\ TakenId = partial.id
    BY <1>2 DEF Taken, TakenId
  <2>2. partial.part = 0 <=> partial = NoPart
    BY <1>1, RxAssumption DEF Parts, NoPart
  <2>3. Taken > 0 => Wire[Taken + Stored] = TakenPart(Taken)
    BY <1>1, <1>2, WireTypes
  <2> QED BY <1>1, <1>2, <2>1, <2>2, <2>3, NoWire DEF TakenPart
<1>3. CASE Stored > 0
  <2> DEFINE i == Further(Uncleaned, Stored - 1)
  <2>1. i \in Region(Uncleaned, rdh) /\ i \in Slots /\ Uncleaned \in Slots /\ rdh \in Slots
        /\ Stored - 1 \in 0..(Count - 1) /\ Stored < Count
    BY <1>1, <1>3, WireTypes, RxAssumption
  <2>2. NextSlot(i) = rdh
    BY <1>1, <1>3, <2>1, FurtherAt, FurtherDist DEF Stored
  <2>3. Wire[Taken + Stored] = desc[i]
    BY <1>1, <1>3, WireTypes
  <2>4. desc[i] \in Parts
    BY <2>1, WireTypes
  <2>5. partial = IF desc[i].last THEN NoPart ELSE desc[i]
    BY <2>1, <2>2 DEF PartsFollow
  <2>6. Wire # <<>>
    BY <1>1, <1>3, NoWire
  <2> HIDE DEF i
  <2> QED BY <2>3, <2>4, <2>5, <2>6, PartsAreParts
<1> QED BY <1>1, <1>2, <1>3

LEMMA StoreStream ==
  ASSUME StreamTypes, StreamInv, Store
  PROVE  StreamInv' /\ Stream!Next
<1> DEFINE U == Uncleaned
           N == Taken + Stored
<1>1. PICK last \in BOOLEAN, bad \in BOOLEAN, p \in Parts :
        /\ p = [id |-> id, part |-> IF partial = NoPart THEN 1 ELSE partial.part + 1,
                last |-> last, bad |-> bad]
        /\ desc' = [desc EXCEPT ![rdh] = p]
        /\ partial' = IF last THEN NoPart ELSE p
        /\ id' = IF last THEN (id + 1) % Ids ELSE id
  BY DEF Store
<1>2. p.last = last /\ p.id = id /\ p.part = partial.part + 1 /\ p.part \in Nat
  <2>1. NoPart.part = 0
    BY DEF NoPart
  <2>2. p.part \in Nat
    BY RxAssumption DEF Parts
  <2> QED BY <1>1, <2>1, <2>2
<1>3. /\ rxen /\ rdh # rdt /\ rdh' = NextSlot(rdh) /\ up' = <<>> /\ U' = U
      /\ UNCHANGED <<receiver, rx_skb_top, discarding, rxen, rpc>>
  BY DEF Store, kind, chain, poll, reset, HandsUpNothing, Uncleaned, Polling
<1>4. /\ U \in Slots /\ rdh \in Slots /\ Stored \in 0..(Count - 1) /\ Taken \in Nat
      /\ TakenId \in Nat
      /\ \A i \in Region(U, rdh) : i \in Slots /\ desc[i] \in Parts
      /\ \A k \in 0..(Count - 1) : k < Stored => Further(U, k) \in Region(U, rdh)
      /\ Parts \subseteq AnyPart
      /\ Wire \in Seq(AnyPart) /\ Len(Wire) = N
      /\ \A k \in 1..N : Wire[k] = IF k <= Taken THEN TakenPart(k) ELSE desc[Further(U, k - Taken - 1)]
  BY WireTypes DEF StreamInv
<1>5. Stored < Count - 1
  <2>1. Dist(U, rdh) <= Dist(U, rdt) /\ rdt \in Slots
    BY DEF StreamTypes, Order, RxOrder, Types
  <2>2. Dist(U, rdt) \in 0..(Count - 1) /\ Dist(U, rdh) # Dist(U, rdt)
    BY <1>3, <1>4, <2>1, DistRange
  <2> QED BY <1>4, <2>1, <2>2, RxAssumption DEF Stored
<1>6. Stored' = Stored + 1 /\ Region(U, rdh') = Region(U, rdh) \cup {rdh} /\ rdh \notin Region(U, rdh)
  BY <1>3, <1>4, <1>5, DistNext, RegionGrows, RegionEnds DEF Stored, Dist
<1>7. /\ desc'[rdh] = p
      /\ \A i \in Region(U, rdh) : desc'[i] = desc[i] /\ i # rdh
  BY <1>1, <1>4, <1>6 DEF StreamTypes, Order, Types
<1>8. Further(U, Stored) = rdh
  BY <1>4, FurtherDist DEF Stored
<1>9. Taken' = Taken /\ (Taken > 0 => TakenId' = TakenId)
  <2>1. Taken' = desc'[U].part - 1 /\ TakenId' = desc'[U].id
    BY <1>3, <1>4, <1>6 DEF Taken, TakenId
  <2>2. CASE Stored = 0
    <3>1. U = rdh
      BY <1>4, <2>2, DistRange DEF Stored
    <3>2. Taken = partial.part /\ TakenId = partial.id
      BY <2>2 DEF Taken, TakenId
    <3>3. partial = NoPart => Taken = 0
      BY <3>2 DEF NoPart
    <3>4. partial # NoPart => partial.id = id
      BY DEF StreamInv, PartialIsNewest
    <3> QED BY <1>2, <1>4, <1>7, <2>1, <3>1, <3>2, <3>3, <3>4
  <2>3. CASE Stored > 0
    <3>1. U \in Region(U, rdh)
      BY <1>4, <2>3, DistRange, RegionEnds DEF Stored
    <3> QED BY <1>7, <2>1, <2>3, <3>1 DEF Taken, TakenId
  <2> QED BY <1>4, <2>2, <2>3
<1>10. Wire' = Append(Wire, p)
  <2>1. Append(Wire, p) \in Seq(AnyPart) /\ Len(Append(Wire, p)) = N + 1
        /\ \A k \in 1..N : Append(Wire, p)[k] = Wire[k]
        /\ Append(Wire, p)[N + 1] = p
    BY <1>4, AppendProperties
  <2> DEFINE at(k) == IF k <= Taken THEN TakenPart(k)' ELSE desc'[Further(U, k - Taken - 1)]
  <2>2. Wire' = [k \in 1..(N + 1) |-> at(k)]
    <3>1. Taken' + Stored' = N + 1
      BY <1>4, <1>6, <1>9
    <3>2. Wire' = [k \in 1..(Taken' + Stored') |->
                     IF k <= Taken' THEN TakenPart(k)' ELSE desc'[Further(U, k - Taken' - 1)]]
      BY <1>3 DEF Wire, Further
    <3> QED BY <1>9, <3>1, <3>2
  <2>3. \A k \in 1..(N + 1) : at(k) = Append(Wire, p)[k]
    <3> SUFFICES ASSUME NEW k \in 1..(N + 1) PROVE at(k) = Append(Wire, p)[k]
      OBVIOUS
    <3>1. CASE k <= Taken
      <4>1. TakenPart(k)' = TakenPart(k)
        <5>1. Taken > 0
          BY <1>4, <3>1
        <5>2. TakenId' = TakenId
          BY <1>9, <5>1
        <5> QED BY <5>2 DEF TakenPart
      <4>2. k \in 1..N
        BY <1>4, <3>1
      <4> QED BY <1>4, <2>1, <3>1, <4>1, <4>2
    <3>2. CASE k > Taken /\ k <= N
      <4>1. k \in 1..N /\ ~(k <= Taken) /\ k - Taken - 1 \in 0..(Count - 1) /\ k - Taken - 1 < Stored
        BY <1>4, <3>2, RxAssumption
      <4>2. at(k) = desc[Further(U, k - Taken - 1)]
        BY <1>4, <1>7, <4>1
      <4> QED BY <1>4, <2>1, <4>1, <4>2
    <3>3. CASE k = N + 1
      <4>1. k - Taken - 1 = Stored /\ ~(k <= Taken)
        BY <1>4, <3>3
      <4> QED BY <1>7, <1>8, <2>1, <3>3, <4>1
    <3> QED BY <1>4, <3>1, <3>2, <3>3
  <2> HIDE DEF at
  <2>4. Append(Wire, p) = [k \in 1..(N + 1) |-> Append(Wire, p)[k]]
    BY <2>1, LenProperties
  <2> QED BY <2>2, <2>3, <2>4
<1>11. Stream!Continues(p)
  <2>1. partial # NoPart => p.id = partial.id
    BY <1>2 DEF StreamInv, PartialIsNewest
  <2>2. partial = NoPart => p.part = 1
    BY <1>1
  <2>3. /\ Wire = <<>> => partial = NoPart
        /\ Wire # <<>> /\ Wire[N].last => partial = NoPart
        /\ Wire # <<>> /\ ~Wire[N].last => Wire[N].id = partial.id /\ Wire[N].part = partial.part
                                           /\ partial # NoPart
    BY Newest DEF StreamInv
  <2> QED BY <1>2, <1>4, <2>1, <2>2, <2>3 DEF Stream!Continues
<1>12. PartsFollow'
  <2> SUFFICES ASSUME NEW i \in Region(U, rdh')
               PROVE  IF NextSlot(i) = rdh' THEN partial' = IF desc'[i].last THEN NoPart ELSE desc'[i]
                                            ELSE Follows(desc'[NextSlot(i)], desc'[i])
    <3>1. Region(Uncleaned, rdh)' = Region(U, rdh')
      BY <1>3 DEF Region, Dist, Slots
    <3> QED BY <3>1 DEF PartsFollow, NextSlot, Follows
  <2>1. CASE i = rdh
    BY <1>1, <1>2, <1>3, <1>7, <2>1
  <2>2. CASE i # rdh
    <3>1. i \in Region(U, rdh) /\ i \in Slots /\ NextSlot(i) \in Slots
      BY <1>4, <1>6, <2>2, Neighbours
    <3>2. NextSlot(i) # NextSlot(rdh)
      BY <1>4, <2>2, <3>1 DEF NextSlot, Slots
    <3>3. CASE NextSlot(i) = rdh
      <4>1. partial = IF desc[i].last THEN NoPart ELSE desc[i]
        BY <3>1, <3>3 DEF StreamInv, PartsFollow
      <4>2. desc[i].last => p.part = 1
        BY <1>1, <4>1
      <4>3. ~desc[i].last => p.id = desc[i].id /\ p.part = desc[i].part + 1
        <5>1. ~desc[i].last => partial = desc[i] /\ partial # NoPart
          BY <1>4, <3>1, <4>1, PartsAreParts
        <5> QED BY <1>2, <5>1 DEF StreamInv, PartialIsNewest
      <4> QED BY <1>3, <1>7, <3>1, <3>2, <3>3, <4>2, <4>3 DEF Follows
    <3>4. CASE NextSlot(i) # rdh
      <4>1. Follows(desc[NextSlot(i)], desc[i])
        BY <3>1, <3>4 DEF StreamInv, PartsFollow
      <4>2. desc'[NextSlot(i)] = desc[NextSlot(i)] /\ desc'[i] = desc[i]
        BY <1>1, <1>4, <1>7, <3>1, <3>4 DEF StreamTypes, Order, Types
      <4> QED BY <1>3, <3>2, <4>1, <4>2
    <3> QED BY <3>3, <3>4
  <2> QED BY <2>1, <2>2
<1>13. PartialIsNewest'
  BY <1>1, <1>2 DEF PartialIsNewest
<1>14. TakenAreKnown'
  <2>1. Chain' = Chain
    <3>1. ASSUME NEW k \in 1..Taken PROVE TakenPart(k)' = TakenPart(k)
      <4>1. TakenId' = TakenId
        BY <1>4, <1>9
      <4> QED BY <4>1 DEF TakenPart
    <3>2. Chain' = [k \in 1..Taken |-> TakenPart(k)']
      BY <1>9 DEF Chain
    <3> QED BY <3>1, <3>2 DEF Chain
  <2> QED BY <1>3, <1>9, <2>1 DEF StreamInv, TakenAreKnown
<1>15. HaltedForReset'
  BY <1>3 DEF StreamInv, HaltedForReset
<1>16. Stream!Arrive(p)
  BY <1>3, <1>10, <1>11 DEF Stream!Arrive, Stream!Silent
<1> QED BY <1>12, <1>13, <1>14, <1>15, <1>16 DEF StreamInv, Stream!Next

\* The reset drops the stream.
LEMMA FlushStream ==
  ASSUME StreamTypes, StreamInv, CleanRing
  PROVE  StreamInv' /\ Stream!Next
<1>1. /\ rpc = "quiesce" /\ ~napi /\ UNCHANGED <<receiver, irq, rxen, pc, ci>>
      /\ next_to_clean' = 0 /\ rdh' = 0 /\ partial' = NoPart /\ up' = <<>>
      /\ discarding' = FALSE /\ rx_skb_top' = <<>>
  BY DEF CleanRing, kind, poll, HandsUpNothing
<1>2. pc = "idle"
  BY <1>1 DEF StreamTypes, Order, Control, Polling
<1>3. Uncleaned' = 0 /\ 0 \in Slots
  BY <1>1, <1>2, RxAssumption DEF Uncleaned, Polling, Slots
<1>4. Stored' = 0 /\ Taken' = 0
  <2>1. Stored' = 0
    BY <1>1, <1>3, RxAssumption DEF Stored, Dist
  <2> QED BY <1>1, <2>1 DEF Taken, NoPart
<1>5. Wire' = <<>> /\ Chain' = <<>>
  BY <1>4 DEF Wire, Chain
<1>6. Region(Uncleaned, rdh)' = {}
  <2>1. Region(0, 0) = {}
    BY <1>3, DistRange DEF Region
  <2> QED BY <1>1, <1>3, <2>1 DEF Region, Dist, Slots
<1>7. PartsFollow'
  BY <1>6 DEF PartsFollow
<1>8. PartialIsNewest' /\ TakenAreKnown'
  BY <1>1, <1>4, <1>5 DEF PartialIsNewest, TakenAreKnown
<1>9. ~rxen
  BY <1>1 DEF StreamInv, HaltedForReset
<1>10. HaltedForReset'
  BY <1>1, <1>3, <1>9 DEF HaltedForReset
<1>11. Stream!Flush
  BY <1>1, <1>5, <1>9 DEF Stream!Flush, Stream!Silent
<1> QED BY <1>7, <1>8, <1>10, <1>11 DEF StreamInv, Stream!Next

\* The cleaner takes the part of the stream that is next. If it ends the frame the whole
\* frame leaves the stream; otherwise the stream stays, with one more of its parts taken.
LEMMA CleanMoves ==
  ASSUME StreamTypes, StreamInv, CleanOne
  PROVE  LET p == desc[ci]
             N == Taken + Stored
         IN  /\ p \in Parts /\ Stored \in Nat \ {0}
             /\ p.part = Taken + 1 /\ p.id = TakenId
             /\ Wire[Taken + 1] = p /\ \A k \in 1..Taken : Wire[k] = TakenPart(k)
             /\ Taken' = IF p.last THEN 0 ELSE Taken + 1
             /\ ~p.last => TakenId' = TakenId
             /\ Wire' = IF p.last THEN SubSeq(Wire, Taken + 2, N) ELSE Wire
             /\ PartsFollow'
<1> DEFINE p == desc[ci]
           U == Uncleaned
           N == Taken + Stored
           V == NextSlot(U)
<1>1. /\ U = ci /\ U' = V /\ desc' = [desc EXCEPT ![U] = NoPart] /\ Done(U)
      /\ UNCHANGED <<rdh, partial>>
  BY DEF CleanOne, Uncleaned, Polling, hw
<1>2. /\ U \in Slots /\ rdh \in Slots /\ Stored \in 0..(Count - 1) /\ Taken \in Nat
      /\ TakenId \in Nat
      /\ \A i \in Region(U, rdh) : i \in Slots /\ desc[i] \in Parts
      /\ \A k \in 0..(Count - 1) : k < Stored => Further(U, k) \in Region(U, rdh)
      /\ Parts \subseteq AnyPart
      /\ Wire \in Seq(AnyPart) /\ Len(Wire) = N
      /\ \A k \in 1..N : Wire[k] = IF k <= Taken THEN TakenPart(k) ELSE desc[Further(U, k - Taken - 1)]
  BY WireTypes DEF StreamInv
<1>3. U \in Region(U, rdh) /\ U # rdh /\ V \in Slots /\ V # U
  BY <1>1, <1>2, RegionEnds, Neighbours DEF StreamTypes, Order, RxOrder
<1>4. p \in Parts /\ Stored > 0 /\ p.part \in Nat
  <2>1. p \in Parts /\ Stored # 0
    BY <1>1, <1>2, <1>3, DistRange DEF Stored
  <2> QED BY <1>2, <2>1, RxAssumption DEF Parts
<1>5. p.part = Taken + 1 /\ p.id = TakenId
  BY <1>1, <1>4 DEF Taken, TakenId
<1>6. Stored' = Stored - 1 /\ Region(V, rdh) = Region(U, rdh) \ {U}
  BY <1>1, <1>2, <1>3, DistFromNext, RegionShrinks DEF Stored, Dist
<1>7. \A i \in Slots : i # U => desc'[i] = desc[i]
  BY <1>1 DEF StreamTypes, Order, Types
<1>8. IF V = rdh THEN partial = IF p.last THEN NoPart ELSE p ELSE Follows(desc[V], p)
  BY <1>1, <1>3 DEF StreamInv, PartsFollow
<1>9. /\ Taken' = IF p.last THEN 0 ELSE Taken + 1
      /\ ~p.last => TakenId' = TakenId
  <2>1. CASE V = rdh
    <3>1. Stored' = 0
      BY <1>1, <1>2, <1>3, <2>1, DistRange DEF Stored, Dist
    <3>2. Taken' = partial.part /\ TakenId' = partial.id
      BY <1>1, <3>1 DEF Taken, TakenId
    <3> QED BY <1>5, <1>8, <2>1, <3>2 DEF NoPart
  <2>2. CASE V # rdh
    <3>1. Stored' > 0
      <4>1. Dist(V, rdh) # 0
        BY <1>2, <1>3, <2>2, DistRange
      <4>2. Stored' # 0
        BY <1>1, <4>1 DEF Stored, Dist
      <4> QED BY <1>2, <1>4, <1>6, <4>2
    <3>2. desc'[Uncleaned'] = desc[V]
      BY <1>1, <1>3, <1>7
    <3>3. Taken' = desc[V].part - 1 /\ TakenId' = desc[V].id
      BY <3>1, <3>2 DEF Taken, TakenId
    <3>4. V \in Region(U, rdh)
      BY <1>2, <1>3, <1>6, <2>2, RegionEnds
    <3>5. desc[V] \in Parts /\ desc[V].part \in Nat
      BY <1>2, <3>4, RxAssumption DEF Parts
    <3> QED BY <1>2, <1>5, <1>8, <2>2, <3>3, <3>5 DEF Follows
  <2> QED BY <2>1, <2>2
<1>10. /\ Wire[Taken + 1] = p
       /\ \A k \in 1..Taken : Wire[k] = TakenPart(k)
  <2>1. Taken + 1 \in 1..N /\ ~(Taken + 1 <= Taken) /\ (Taken + 1) - Taken - 1 = 0
    BY <1>2, <1>4
  <2>2. Further(U, 0) = U
    BY <1>2, RxAssumption DEF Further, Slots
  <2>3. \A k \in 1..Taken : k \in 1..N /\ k <= Taken
    BY <1>2
  <2> QED BY <1>1, <1>2, <2>1, <2>2, <2>3
\* A slot the stream goes on with is the same, seen from the cleaner's next one.
<1>11. ASSUME NEW j \in 0..(Count - 1), j + 1 < Stored
       PROVE  desc'[Further(V, j)] = desc[Further(U, j + 1)]
  <2>1. j + 1 < Count /\ j + 1 \in 0..(Count - 1)
    BY <1>2, <1>11, RxAssumption
  <2>2. Further(V, j) = Further(U, j + 1)
    BY <1>2, <2>1, FurtherAt
  <2>3. Further(U, j + 1) \in Slots /\ Dist(U, Further(U, j + 1)) = j + 1
    BY <1>2, <2>1, FurtherAt
  <2>4. Dist(U, U) = 0 /\ j + 1 # 0
    BY <1>2, <2>1, DistRange
  <2>5. Further(U, j + 1) # U
    BY <2>3, <2>4
  <2> QED BY <1>7, <2>2, <2>3, <2>5
<1> DEFINE at(k) == IF k <= Taken' THEN TakenPart(k)' ELSE desc'[Further(V, k - Taken' - 1)]
<1>12. Wire' = [k \in 1..(Taken' + Stored') |-> at(k)]
  BY <1>1 DEF Wire, Further
<1>13. ASSUME p.last PROVE Wire' = SubSeq(Wire, Taken + 2, N)
  <2>1. Taken' + Stored' = Stored - 1 /\ Taken' = 0
    BY <1>6, <1>9, <1>13, <1>2
  <2> DEFINE S == SubSeq(Wire, Taken + 2, N)
  <2>2. S \in Seq(AnyPart) /\ Len(S) = Stored - 1
        /\ \A k \in 1..(Stored - 1) : S[k] = Wire[k + Taken + 1]
    <3>1. \A k \in (Taken + 2)..N : Wire[k] \in AnyPart
      BY <1>2, ElementOfSeq
    <3>2. /\ S \in Seq(AnyPart)
          /\ Len(S) = IF Taken + 2 <= N THEN N - (Taken + 2) + 1 ELSE 0
          /\ \A k \in 1..(N - (Taken + 2) + 1) : S[k] = Wire[(Taken + 2) + k - 1]
      <4>1. Taken + 2 \in Int /\ N \in Int
        BY <1>2
      <4> HIDE DEF N
      <4> QED BY <3>1, <4>1, SubSeqProperties
    <3>3. N - (Taken + 2) + 1 = Stored - 1 /\ (Taken + 2 <= N <=> Stored > 1)
      BY <1>2
    <3>4. \A k \in 1..(Stored - 1) : (Taken + 2) + k - 1 = k + Taken + 1
      BY <1>2
    <3>5. Len(S) = Stored - 1
      BY <1>2, <1>4, <3>2, <3>3
    <3> HIDE DEF S
    <3> QED BY <3>2, <3>3, <3>4, <3>5
  <2>3. ASSUME NEW k \in 1..(Stored - 1) PROVE at(k) = S[k]
    <3>1. /\ k - 1 \in 0..(Count - 1) /\ (k - 1) + 1 < Stored /\ (k - 1) + 1 = k
          /\ ~(k <= 0) /\ k - 0 - 1 = k - 1
      BY <1>2, RxAssumption
    <3>2. at(k) = desc[Further(U, k)]
      BY <1>11, <2>1, <3>1
    <3>3. k + Taken + 1 \in 1..N /\ ~(k + Taken + 1 <= Taken) /\ (k + Taken + 1) - Taken - 1 = k
      BY <1>2
    <3> QED BY <1>2, <2>2, <3>2, <3>3
  <2>4. Wire' = S
    <3>1. S = [k \in 1..(Stored - 1) |-> S[k]]
      BY <2>2, LenProperties
    <3> HIDE DEF at, S
    <3> QED BY <1>12, <2>1, <2>3, <3>1
  <2> QED BY <2>4
<1>14. ASSUME ~p.last PROVE Wire' = Wire
  <2>1. Taken' + Stored' = N /\ Taken' = Taken + 1 /\ TakenId' = TakenId
    BY <1>6, <1>9, <1>14, <1>2
  <2>2. ASSUME NEW k \in 1..N PROVE at(k) = Wire[k]
    <3>1. CASE k <= Taken
      <4>1. k <= Taken + 1 /\ TakenPart(k)' = TakenPart(k)
        BY <1>2, <2>1, <3>1 DEF TakenPart
      <4> QED BY <1>2, <2>1, <3>1, <4>1
    <3>2. CASE k = Taken + 1
      <4>1. p = [id |-> TakenId, part |-> k, last |-> FALSE, bad |-> FALSE]
        BY <1>4, <1>5, <1>14, <3>2 DEF Parts
      <4>2. TakenPart(k)' = p
        BY <2>1, <4>1 DEF TakenPart
      <4>3. k <= Taken'
        BY <1>2, <2>1, <3>2
      <4> QED BY <1>10, <3>2, <4>2, <4>3
    <3>3. CASE k > Taken + 1
      <4> DEFINE j == k - (Taken + 1) - 1
      <4>1. /\ j \in 0..(Count - 1) /\ j + 1 < Stored /\ j + 1 = k - Taken - 1
            /\ ~(k <= Taken + 1) /\ ~(k <= Taken)
        BY <1>2, <3>3, RxAssumption
      <4>2. at(k) = desc'[Further(V, j)]
        BY <2>1, <4>1
      <4> HIDE DEF j
      <4> QED BY <1>2, <1>11, <4>1, <4>2
    <3> QED BY <1>2, <3>1, <3>2, <3>3
  <2>3. Wire = [k \in 1..N |-> Wire[k]]
    BY <1>2, LenProperties
  <2> HIDE DEF at
  <2> QED BY <1>12, <1>14, <2>1, <2>2, <2>3
<1>15. PartsFollow'
  <2> SUFFICES ASSUME NEW i \in Region(V, rdh)
               PROVE  IF NextSlot(i) = rdh THEN partial = IF desc'[i].last THEN NoPart ELSE desc'[i]
                                           ELSE Follows(desc'[NextSlot(i)], desc'[i])
    <3>1. Region(Uncleaned, rdh)' = Region(V, rdh)
      BY <1>1 DEF Region, Dist, Slots
    <3> QED BY <1>1, <3>1 DEF PartsFollow, NextSlot, Follows
  <2>1. i \in Region(U, rdh) /\ i \in Slots /\ i # U /\ NextSlot(i) \in Slots
    BY <1>2, <1>6, Neighbours
  <2>2. Dist(U, i) \in Nat /\ Dist(U, i) < Count - 1
    BY <1>2, <2>1, DistRange, RxAssumption DEF Region
  <2>3. NextSlot(i) # U
    BY <1>2, <2>1, <2>2, DistNext, DistRange
  <2> QED BY <1>7, <2>1, <2>3 DEF StreamInv, PartsFollow
<1> QED BY <1>2, <1>4, <1>5, <1>9, <1>10, <1>13, <1>14, <1>15

LEMMA CleanStream ==
  ASSUME StreamTypes, StreamInv, CleanOne
  PROVE  StreamInv' /\ Stream!Next
<1> DEFINE p == desc[ci]
           N == Taken + Stored
           n == Taken + 1
<1>1. /\ p \in Parts /\ Stored \in Nat \ {0}
      /\ p.part = n /\ p.id = TakenId
      /\ Wire[n] = p /\ \A k \in 1..Taken : Wire[k] = TakenPart(k)
      /\ Taken' = IF p.last THEN 0 ELSE n
      /\ ~p.last => TakenId' = TakenId
      /\ Wire' = IF p.last THEN SubSeq(Wire, n + 1, N) ELSE Wire
      /\ PartsFollow'
  <2>1. Taken + 2 = n + 1
    BY WireTypes DEF StreamInv
  <2> QED BY <2>1, CleanMoves
<1>2. Taken \in Nat /\ Wire \in Seq(AnyPart) /\ Len(Wire) = N /\ Parts \subseteq AnyPart
      /\ TakenId \in Nat
  BY WireTypes DEF StreamInv
<1>3. n \in 1..N /\ n \in DOMAIN Wire
  BY <1>1, <1>2, LenProperties
<1>4. UNCHANGED <<receiver, rxen, rdh, partial, id, rpc, pc, irq>> /\ ci' = NextSlot(ci) /\ pc = "clean"
  BY DEF CleanOne, kind, hw, reset
<1>5. p.bad => p.last
  BY <1>1 DEF Parts
<1>6. p.last \in BOOLEAN /\ p.bad \in BOOLEAN /\ discarding \in BOOLEAN /\ receiver \in {"legacy", "ps", "jumbo"}
  BY <1>1, Receivers DEF Parts, StreamTypes, Flags
<1>7. ASSUME p.last PROVE Stream!Oldest(n)
  <2>1. ASSUME NEW k \in 1..(n - 1) PROVE ~Wire[k].last
    <3>1. k \in 1..Taken
      BY <1>2
    <3>2. Wire[k] = TakenPart(k)
      BY <1>1, <3>1
    <3> QED BY <3>2 DEF TakenPart
  <2> QED BY <1>1, <1>7, <2>1 DEF Stream!Oldest
<1>8. ASSUME p.last
      PROVE  /\ up' = SubSeq(Wire, 1, n) /\ ~p.bad /\ (n = 1 \/ receiver = "jumbo") => Stream!Next
             /\ up' = <<>> /\ (p.bad \/ (n > 1 /\ receiver # "jumbo")) => Stream!Next
  <2>1. Stream!LetGo(n)
    BY <1>1, <1>2, <1>4, <1>8 DEF Stream!LetGo
  <2>2. up' = SubSeq(Wire, 1, n) /\ ~p.bad /\ (n = 1 \/ receiver = "jumbo") => Stream!Deliver(n)
    BY <1>1, <1>7, <1>8, <2>1 DEF Stream!Deliver
  <2>3. up' = <<>> /\ (p.bad \/ (n > 1 /\ receiver # "jumbo")) => Stream!Drop(n)
    BY <1>1, <1>7, <1>8, <2>1 DEF Stream!Drop, Stream!Silent
  <2> QED BY <1>3, <2>2, <2>3 DEF Stream!Next
<1>9. ASSUME ~p.last, up' = <<>> PROVE Stream!Next
  BY <1>1, <1>4, <1>9 DEF Stream!Next, Stream!Other, Stream!Silent
<1>10. Chain \in Seq(AnyPart) /\ Len(Chain) = Taken /\ \A k \in 1..Taken : Chain[k] = Wire[k]
  <2>1. \A k \in 1..Taken : TakenPart(k) \in AnyPart
    BY <1>2 DEF TakenPart, AnyPart
  <2>2. Chain \in [1..Taken -> AnyPart]
    BY <2>1 DEF Chain
  <2>3. \A k \in 1..Taken : Chain[k] = TakenPart(k)
    BY DEF Chain
  <2>4. Chain \in Seq(AnyPart) /\ Len(Chain) = Taken
    BY <1>2, <2>2
  <2> QED BY <1>1, <2>3, <2>4
<1>11. ASSUME receiver = "jumbo" PROVE rx_skb_top' = Chain' /\ Stream!Next
  <2>1. rx_skb_top = Chain
    BY <1>11 DEF StreamInv, TakenAreKnown
  <2>2. /\ UNCHANGED discarding
        /\ p.bad => rx_skb_top' = <<>> /\ up' = <<>>
        /\ ~p.bad => /\ rx_skb_top' = IF p.last THEN <<>> ELSE Append(rx_skb_top, p)
                     /\ up' = IF p.last THEN Append(rx_skb_top, p) ELSE <<>>
    <3>1. CleanJumbo(p, Released(buffer_info[ci]))
      BY <1>11 DEF CleanOne
    <3>2. CASE p.bad
      BY <3>1, <3>2 DEF CleanJumbo, ChainAfterError, HandsUpNothing
    <3>3. CASE ~p.bad
      BY <3>1, <3>3 DEF CleanJumbo
    <3> QED BY <3>1, <3>2, <3>3 DEF CleanJumbo
  <2>3. Append(Chain, p) \in Seq(AnyPart) /\ Len(Append(Chain, p)) = n
        /\ \A k \in 1..n : Append(Chain, p)[k] = Wire[k]
    <3>1. p \in AnyPart
      BY <1>1, <1>2
    <3> HIDE DEF p
    <3>2. /\ Append(Chain, p) \in Seq(AnyPart) /\ Len(Append(Chain, p)) = Taken + 1
          /\ \A k \in 1..Taken : Append(Chain, p)[k] = Chain[k]
          /\ Append(Chain, p)[Taken + 1] = p
      BY <1>10, <3>1, AppendProperties
    <3> QED BY <1>1, <1>2, <1>10, <3>2
  <2>4. Append(Chain, p) = SubSeq(Wire, 1, n)
    <3>1. \A i \in 1..n : Wire[i] \in AnyPart
      BY <1>2, <1>3, ElementOfSeq
    <3>2. n \in Int /\ 1 \in Int
      BY <1>2
    <3> HIDE DEF n, p
    <3>3. /\ SubSeq(Wire, 1, n) \in Seq(AnyPart)
          /\ Len(SubSeq(Wire, 1, n)) = IF 1 <= n THEN n - 1 + 1 ELSE 0
          /\ \A i \in 1..(n - 1 + 1) : SubSeq(Wire, 1, n)[i] = Wire[1 + i - 1]
      BY <3>1, <3>2, SubSeqProperties
    <3>4. n - 1 + 1 = n /\ 1 <= n /\ \A i \in 1..n : 1 + i - 1 = i
      BY <1>3
    <3>5. Len(SubSeq(Wire, 1, n)) = n /\ \A i \in 1..n : SubSeq(Wire, 1, n)[i] = Wire[i]
      BY <3>3, <3>4
    <3> QED BY <2>3, <3>3, <3>5, SeqEqual
  <2>5. CASE p.last
    <3>1. Chain' = <<>>
      BY <1>1, <2>5 DEF Chain
    <3>2. rx_skb_top' = <<>>
      BY <2>2, <2>5
    <3>3. up' = IF p.bad THEN <<>> ELSE SubSeq(Wire, 1, n)
      BY <2>1, <2>2, <2>4, <2>5
    <3> QED BY <1>8, <1>11, <2>5, <3>1, <3>2, <3>3
  <2>6. CASE ~p.last
    <3>1. rx_skb_top' = Append(Chain, p) /\ up' = <<>>
      BY <1>5, <2>1, <2>2, <2>6
    <3>2. ASSUME NEW k \in 1..n PROVE TakenPart(k)' = Wire[k]
      <4>1. TakenPart(k)' = TakenPart(k)
        BY <1>1, <2>6 DEF TakenPart
      <4>2. CASE k = n
        <5>1. p = [id |-> TakenId, part |-> n, last |-> FALSE, bad |-> FALSE]
          BY <1>1, <1>5, <2>6 DEF Parts
        <5> QED BY <1>1, <4>1, <4>2, <5>1 DEF TakenPart
      <4>3. CASE k # n
        <5>1. k \in 1..Taken
          BY <1>2, <4>3
        <5> QED BY <1>1, <4>1, <5>1
      <4> QED BY <4>2, <4>3
    <3>3. Chain' = [k \in 1..n |-> TakenPart(k)']
      BY <1>1, <2>6 DEF Chain
    <3>4. Append(Chain, p) = [k \in 1..n |-> Append(Chain, p)[k]]
      BY <2>3, LenProperties
    <3>5. Chain' = Append(Chain, p)
      BY <2>3, <3>2, <3>3, <3>4
    <3> QED BY <1>9, <2>6, <3>1, <3>5
  <2> QED BY <2>5, <2>6
<1>12. ASSUME receiver # "jumbo" PROVE (discarding' <=> Taken' > 0) /\ Stream!Next
  <2>1. discarding <=> Taken > 0
    BY <1>12 DEF StreamInv, TakenAreKnown
  <2>2. /\ discarding' = (~p.last)
        /\ up' = IF Discards(p) \/ p.bad THEN <<>> ELSE <<p>>
    <3>1. CASE receiver = "legacy"
      <4>1. CleanLegacy(p, Released(buffer_info[ci]))
        BY <3>1 DEF CleanOne
      <4> HIDE DEF p
      <4> QED BY <4>1 DEF CleanLegacy, HandsUpNothing
    <3>2. CASE receiver = "ps"
      <4>1. CleanPs(p, Released(buffer_info[ci]))
        BY <3>2 DEF CleanOne
      <4> HIDE DEF p
      <4> QED BY <4>1 DEF CleanPs, HandsUpNothing
    <3> QED BY <1>6, <1>12, <3>1, <3>2
  <2>3. discarding' <=> Taken' > 0
    <3>1. CASE p.last
      <4>1. discarding' = FALSE /\ Taken' = 0
        BY <1>1, <2>2, <3>1
      <4> QED BY <4>1
    <3>2. CASE ~p.last
      <4>1. discarding' = TRUE /\ Taken' = n /\ n > 0
        <5>1. discarding' = TRUE
          BY <2>2, <3>2
        <5>2. Taken' = n
          BY <1>1, <3>2
        <5> QED BY <1>2, <5>1, <5>2
      <4> HIDE DEF n
      <4> QED BY <4>1
    <3> QED BY <3>1, <3>2
  <2>4. CASE ~p.last
    BY <1>9, <2>2, <2>3, <2>4 DEF Discards
  <2>5. CASE p.last /\ (discarding \/ p.bad)
    <3>1. up' = <<>> /\ (p.bad \/ n > 1)
      BY <1>2, <2>1, <2>2, <2>5 DEF Discards
    <3> QED BY <1>8, <1>12, <2>3, <2>5, <3>1
  <2>6. CASE p.last /\ ~discarding /\ ~p.bad
    <3>1. up' = <<p>> /\ n = 1
      BY <1>2, <2>1, <2>2, <2>6 DEF Discards
    <3>2. SubSeq(Wire, 1, 1) = <<p>>
      <4>1. p \in AnyPart /\ Wire[1] = p
        BY <1>1, <1>2, <3>1
      <4>2. \A i \in 1..1 : Wire[i] \in AnyPart
        BY <4>1
      <4> HIDE DEF p
      <4>3. /\ SubSeq(Wire, 1, 1) \in Seq(AnyPart) /\ Len(SubSeq(Wire, 1, 1)) = 1
            /\ SubSeq(Wire, 1, 1)[1] = p
        BY <4>1, <4>2, SubSeqProperties
      <4>4. <<p>> \in Seq(AnyPart) /\ Len(<<p>>) = 1 /\ <<p>>[1] = p
        BY <4>1
      <4>5. \A i \in 1..1 : SubSeq(Wire, 1, 1)[i] = <<p>>[i]
        BY <4>3, <4>4
      <4> QED BY <4>3, <4>4, <4>5, SeqEqual
    <3> QED BY <1>8, <2>3, <2>6, <3>1, <3>2
  <2> QED BY <1>6, <2>4, <2>5, <2>6
<1>13. TakenAreKnown'
  BY <1>4, <1>11, <1>12 DEF TakenAreKnown
<1>14. PartialIsNewest'
  BY <1>4 DEF StreamInv, PartialIsNewest
<1>15. HaltedForReset'
  <2>1. napi
    BY <1>4 DEF StreamTypes, Order, Control, Polling
  <2>2. rpc # "clean"
    BY <2>1 DEF StreamTypes, Order, Control
  <2> QED BY <1>4, <2>2 DEF StreamInv, HaltedForReset
<1> QED BY <1>1, <1>11, <1>12, <1>13, <1>14, <1>15 DEF StreamInv

\* The ring is the stream of RxStream: whatever budget, failed allocation or mapping,
\* lost tail write or reset comes between, and with any receiver, the stack gets whole
\* frames in the order the adapter stored them and no good frame that fits is dropped.
THEOREM RingIsStream == Spec => ImplementsStream
<1>1. Init => Order /\ RestTypes /\ StreamInv /\ Stream!Init
  BY InitOrder, RestTypesInit, StreamInit
<1>2. Order /\ RestTypes /\ StreamInv /\ [Next]_vars
        => /\ Order' /\ RestTypes' /\ StreamInv'
           /\ [Stream!Next]_Stream!vars
  <2> SUFFICES ASSUME Order, RestTypes, StreamInv, [Next]_vars
               PROVE  /\ Order' /\ RestTypes' /\ StreamInv'
                      /\ [Stream!Next]_Stream!vars
    OBVIOUS
  <2>1. StreamTypes
    BY DEF StreamTypes, RestTypes
  <2>2. CASE Next
    BY <2>1, <2>2, StoreStream, OtherStream, CleanStream, FlushStream, OrderKept, RestTypesKept
       DEF Next, Driver, Reset
  <2>3. CASE UNCHANGED vars
    <3>1. /\ UNCHANGED <<Uncleaned, rdh, desc, partial, id, receiver, rx_skb_top, discarding>>
          /\ UNCHANGED <<up, rxen, rpc>>
      BY <2>3 DEF vars, kind, ring, chain, hw, poll, reset, Uncleaned, Polling
    <3>2. UNCHANGED Wire /\ PartsFollow' /\ TakenAreKnown'
      BY <3>1, WireKept DEF StreamInv
    <3>3. StreamInv'
      BY <3>1, <3>2 DEF StreamInv, PartialIsNewest, HaltedForReset
    <3> QED BY <2>3, <3>1, <3>2, <3>3, OrderKept, RestTypesKept DEF Stream!vars
  <2> QED BY <2>2, <2>3
<1> QED BY <1>1, <1>2, PTL DEF Spec, ImplementsStream, Stream!Spec
=============================================================================
