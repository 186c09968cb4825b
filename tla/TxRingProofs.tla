---------------------------- MODULE TxRingProofs ----------------------------
(* The ring's order and its gap, who owns a frame's buffer, what the       *)
(* adapter reads, the accounts, the tail, and the frame queue the ring     *)
(* implements, for every ring size, every set of frame shapes and every    *)
(* setting of the work-arounds.                                            *)
EXTENDS TxRingFifo, FiniteSetTheorems, TLAPS

\* The room a frame was promised is still there when it is mapped and queued, the
\* adapter's status bits lie between the cleaner and the head, and a frame has at
\* least one descriptor: with RingOrder this is inductive.
DoneBehindHead == \A i \in Slots : desc[i].dd => i \in Region(Uncleaned, tdh)

RoomForFrame ==
  xpc \in {"map", "queue"} =>
     /\ frame.n >= 1
     /\ Unused(next_to_clean, next_to_use) >= Need

FrameFits == xpc = "recheck" => frame.n >= 1

\* A reset clears the ring only when nobody is in it: DOWN keeps the stack out, and
\* with interrupts off no poll starts.
ResetAlone ==
  /\ rpc \in {"stop", "drain", "sync", "quiet", "clean"} => down
  /\ rpc \in {"sync", "quiet", "clean"} => xpc = "idle"
  /\ rpc \in {"quiet", "clean"} => cpc = "idle"

Buffer == [skb : Skbs \cup {NoSkb}, dma : BOOLEAN, watch : Slots, stamp : BOOLEAN]
Frame  == [skb : Skbs \cup {NoSkb}, ctx : {0, 1}, n : 0..Count]

IndexTypes ==
  /\ next_to_use \in Slots /\ next_to_clean \in Slots
  /\ tdh \in Slots /\ tdt \in Slots /\ ci \in Slots /\ ceop \in Slots
  /\ buffer_info \in [Slots -> Buffer]
  /\ desc \in [Slots -> [rs : BOOLEAN, dd : BOOLEAN]]
  /\ frame \in Frame

IInv ==
  /\ IndexTypes
  /\ RingOrder
  /\ DoneBehindHead
  /\ RoomForFrame
  /\ FrameFits
  /\ ResetAlone
  /\ TailKeepsGap

-----------------------------------------------------------------------------
(* The arithmetic of the ring.                                             *)

\* Going forward never leaves the ring.
LEMMA FwdInSlots ==
  ASSUME NEW i \in Slots, NEW k \in 0..Count
  PROVE  Fwd(i, k) \in Slots
BY RingAssumption DEF Fwd, Slots

\* e1000_desc_unused is the ring less the way from next_to_clean to next_to_use,
\* less one slot.
LEMMA UnusedIsDistance ==
  ASSUME NEW c \in Slots, NEW u \in Slots
  PROVE  Unused(c, u) = Count - 1 - Dist(c, u)
BY RingAssumption DEF Unused, Dist, Slots

\* Every way is shorter than a lap.
LEMMA DistRange ==
  ASSUME NEW a \in Slots, NEW b \in Slots
  PROVE  Dist(a, b) \in 0..(Count - 1)
BY RingAssumption DEF Dist, Slots

\* Moving the far end on by k lengthens the way by k while it stays within a lap.
LEMMA DistFwd ==
  ASSUME NEW a \in Slots, NEW b \in Slots, NEW k \in 0..Count,
         Dist(a, b) + k < Count
  PROVE  Dist(a, Fwd(b, k)) = Dist(a, b) + k
BY RingAssumption DEF Dist, Fwd, Slots

\* Moving the near end up to a slot on the way shortens every way beyond it.
LEMMA DistFrom ==
  ASSUME NEW a \in Slots, NEW b \in Slots, NEW c \in Slots,
         Dist(a, b) <= Dist(a, c)
  PROVE  Dist(b, c) = Dist(a, c) - Dist(a, b)
BY RingAssumption DEF Dist, Slots

-----------------------------------------------------------------------------
\* What the code does to a slot leaves it a slot.
LEMMA BufferSteps ==
  ASSUME NEW b \in Buffer, NEW i \in Slots, NEW s \in Skbs \cup {NoSkb}
  PROVE  /\ TouchedCtx(b, i) \in Buffer /\ TouchedData(b, i) \in Buffer
         /\ PutTxbuf(b) \in Buffer
         /\ [b EXCEPT !.skb = s] \in Buffer /\ [b EXCEPT !.watch = i] \in Buffer
         /\ [b EXCEPT !.dma = FALSE] \in Buffer
         /\ [b EXCEPT !.stamp = FALSE] \in Buffer
BY DEF Buffer, TouchedCtx, TouchedData, PutTxbuf

LEMMA InitIInv == Init => IInv
BY RingAssumption
   DEF Init, IInv, IndexTypes, Buffer, Frame, RingOrder, DoneBehindHead, RoomForFrame, FrameFits,
       ResetAlone, TailKeepsGap, FreeBuffer, NoDesc, NoFrame, Dist, Slots, Unused,
       Uncleaned, Region

\* What the invariant reads of the ring, apart from next_to_use.
ringvars == <<next_to_use, next_to_clean, desc, tdh, tdt, ci>>

\* A step that touches neither the indices nor the descriptors keeps the order.
LEMMA OrderFrame ==
  ASSUME RingOrder, DoneBehindHead, TailKeepsGap, UNCHANGED ringvars,
         Uncleaned' = Uncleaned
  PROVE  RingOrder' /\ DoneBehindHead' /\ TailKeepsGap'
BY DEF RingOrder, DoneBehindHead, TailKeepsGap, ringvars, Dist, Region, Unused,
       Slots

-----------------------------------------------------------------------------
(* Each step of the transmitter.                                           *)

LEMMA XmitStepInv == IInv /\ (Stack \/ XmitStep) => IInv'
<1> SUFFICES ASSUME IInv, Stack \/ XmitStep PROVE IInv'
  OBVIOUS
<1> USE DEF IInv
<1>1. ASSUME Stack PROVE IInv'
  <2>1. UNCHANGED <<ringvars, cpc, ceop, buffer_info, rpc, down>>
    BY <1>1 DEF Stack, XmitDrop, XmitStart, ringvars, ring, hw, clean, reset
  <2>2. RingOrder' /\ DoneBehindHead' /\ TailKeepsGap'
    BY <2>1, OrderFrame DEF Uncleaned, ringvars
  <2>3. CASE XmitDrop
    BY <2>1, <2>2, <2>3 DEF XmitDrop, IndexTypes, RoomForFrame, FrameFits,
       ResetAlone, ringvars, Need, NeedFor, Unused, Slots
  <2>4. ASSUME NEW s \in Skbs, NEW sh \in Shapes, XmitStart(s, sh) PROVE IInv'
    <3>1. sh \in {0, 1} \X (1..Count)
      BY RingAssumption
    <3>2. frame' = [skb |-> s, ctx |-> sh[1], n |-> sh[2]]
      BY <2>4 DEF XmitStart
    <3>3. IndexTypes'
      BY <2>1, <3>1, <3>2 DEF IndexTypes, Frame, Buffer, ringvars, Slots
    <3>4. RoomForFrame' /\ FrameFits'
      BY <2>1, <2>4, <3>1, <3>2
         DEF XmitStart, RoomForFrame, FrameFits, Need, NeedFor, ringvars, Unused
    <3>5. ResetAlone'
      BY <2>1, <2>4 DEF XmitStart, ResetAlone
    <3> QED BY <2>2, <3>3, <3>4, <3>5
  <2> QED BY <1>1, <2>3, <2>4 DEF Stack
<1>2. CASE XmitRecheck
  <2>1. UNCHANGED <<ringvars, cpc, ceop, buffer_info, rpc, down>>
    BY <1>2 DEF XmitRecheck, ringvars, ring, hw, clean, reset
  <2>2. RingOrder' /\ DoneBehindHead' /\ TailKeepsGap'
    BY <2>1, OrderFrame DEF Uncleaned, ringvars
  <2>3. NoFrame \in Frame
    BY RingAssumption DEF NoFrame, Frame
  <2>4. IndexTypes'
    BY <1>2, <2>1, <2>3 DEF XmitRecheck, IndexTypes, ringvars, Slots
  <2>5. RoomForFrame' /\ FrameFits' /\ ResetAlone'
    <3>1. next_to_use \in Slots /\ next_to_clean \in Slots /\ frame.n \in 0..Count
          /\ frame.ctx \in {0, 1}
      BY DEF IndexTypes, Frame
    <3>2. Unused(next_to_clean, next_to_use) \in Int /\ Need \in Int
      BY <3>1, RingAssumption DEF Unused, Need, NeedFor, Slots
    <3> QED BY <1>2, <2>1, <3>2
            DEF XmitRecheck, RoomForFrame, FrameFits, ResetAlone, ringvars, Need,
                NeedFor, Unused
  <2> QED BY <2>2, <2>4, <2>5
<1>3. CASE XmitTsoError
  <2>1. UNCHANGED <<ringvars, cpc, ceop, buffer_info, rpc, down>>
    BY <1>3 DEF XmitTsoError, ringvars, ring, hw, clean, reset
  <2>2. NoFrame \in Frame
    BY RingAssumption DEF NoFrame, Frame
  <2> QED BY <1>3, <2>1, <2>2, OrderFrame
          DEF XmitTsoError, IndexTypes, RoomForFrame, FrameFits, ResetAlone,
              ringvars, Uncleaned, Slots
<1>4. CASE XmitMap
  <2>1. UNCHANGED <<ringvars, cpc, ceop, frame, rpc, down>>
    BY <1>4 DEF XmitMap, ringvars, hw, clean, reset
  <2>2. RingOrder' /\ DoneBehindHead' /\ TailKeepsGap'
    BY <2>1, OrderFrame DEF Uncleaned, ringvars
  <2>3. LastSlot \in Slots
    <3>1. frame.ctx \in 0..Count /\ frame.n - 1 \in 0..Count
      BY <1>4, RingAssumption DEF XmitMap, RoomForFrame, IndexTypes, Frame
    <3>2. DataFrom \in Slots
      BY <3>1, FwdInSlots DEF DataFrom, First, IndexTypes
    <3> QED BY <3>1, <3>2, FwdInSlots DEF LastSlot
  <2>4. frame.skb \in Skbs \cup {NoSkb}
    BY DEF IndexTypes, Frame
  <2>5. buffer_info' \in [Slots -> Buffer]
    BY <1>4, <2>3, <2>4, BufferSteps DEF XmitMap, IndexTypes
  <2>6. IndexTypes'
    BY <2>1, <2>5 DEF IndexTypes, ringvars, Slots
  <2>7. RoomForFrame' /\ FrameFits' /\ ResetAlone'
    BY <1>4, <2>1
       DEF XmitMap, RoomForFrame, FrameFits, ResetAlone, ringvars, Need, NeedFor,
           Unused
  <2> QED BY <2>2, <2>6, <2>7
<1>5. ASSUME NEW good \in 0..Count, XmitMapError(good) PROVE IInv'
  <2>1. UNCHANGED <<ringvars, cpc, ceop, rpc, down>>
    BY <1>5 DEF XmitMapError, ringvars, hw, clean, reset
  <2>2. RingOrder' /\ DoneBehindHead' /\ TailKeepsGap'
    BY <2>1, OrderFrame DEF Uncleaned, ringvars
  <2>3. NoFrame \in Frame
    BY RingAssumption DEF NoFrame, Frame
  <2>4. buffer_info' \in [Slots -> Buffer]
    <3>1. \A i \in Slots : buffer_info[i] \in Buffer
      BY DEF IndexTypes
    <3>2. \A b \in Buffer, i \in Slots :
             /\ TouchedCtx(b, i) \in Buffer /\ TouchedData(b, i) \in Buffer
             /\ PutTxbuf(TouchedData(b, i)) \in Buffer
             /\ [TouchedData(b, i) EXCEPT !.dma = FALSE] \in Buffer
             /\ [b EXCEPT !.stamp = FALSE] \in Buffer
      BY BufferSteps
    <3> QED BY <1>5, <3>1, <3>2 DEF XmitMapError
  <2>5. IndexTypes'
    BY <1>5, <2>1, <2>3, <2>4 DEF XmitMapError, IndexTypes, ringvars, Slots
  <2>6. RoomForFrame' /\ FrameFits' /\ ResetAlone'
    BY <1>5, <2>1 DEF XmitMapError, RoomForFrame, FrameFits, ResetAlone
  <2> QED BY <2>2, <2>5, <2>6
<1>6. CASE XmitQueue
  <2> DEFINE k == frame.ctx + frame.n
  <2>1. UNCHANGED <<next_to_clean, tdh, tdt, ci, ceop, cpc, buffer_info, frame,
                    rpc, down>>
    BY <1>6 DEF XmitQueue, hw, clean, reset
  <2>2. k \in 1..Count /\ k + 3 <= Unused(next_to_clean, next_to_use)
    <3>1. frame.ctx \in {0, 1} /\ frame.n \in 1..Count
      BY <1>6 DEF XmitQueue, RoomForFrame, IndexTypes, Frame
    <3> QED BY <1>6, <3>1, UnusedIsDistance, DistRange, RingAssumption
            DEF XmitQueue, RoomForFrame, IndexTypes, Need, NeedFor
  <2> HIDE DEF k
  <2>3. next_to_use' = Fwd(next_to_use, k)
    BY <1>6 DEF XmitQueue, First, k
  <2>4. /\ next_to_use' \in Slots
        /\ Dist(next_to_clean, next_to_use') = Dist(next_to_clean, next_to_use) + k
    <3>1. next_to_use \in Slots /\ next_to_clean \in Slots /\ k \in 0..Count
      BY <2>2, RingAssumption DEF IndexTypes
    <3>2. Dist(next_to_clean, next_to_use) \in 0..(Count - 1)
      BY <3>1, DistRange
    <3>3. Dist(next_to_clean, next_to_use) + k < Count
      BY <2>2, <3>1, <3>2, UnusedIsDistance, RingAssumption
    <3> QED BY <2>3, <3>1, <3>3, FwdInSlots, DistFwd
  <2>5. IndexTypes'
    BY <1>6, <2>1, <2>4 DEF XmitQueue, IndexTypes, Slots, First
  <2>6. RingOrder'
    <3>1. Dist(next_to_clean, next_to_use) <= Dist(next_to_clean, next_to_use')
      BY <2>2, <2>4, DistRange DEF IndexTypes
    <3>2. UNCHANGED <<Uncleaned, Dist(next_to_clean, Uncleaned),
                      Dist(next_to_clean, tdh), Dist(next_to_clean, tdt)>>
      BY <2>1 DEF Uncleaned, Dist
    <3>3. Uncleaned \in Slots
      BY DEF Uncleaned, IndexTypes
    <3> QED BY <2>1, <2>4, <3>1, <3>2, <3>3, DistRange DEF RingOrder, IndexTypes
  <2>7. DoneBehindHead'
    <3>1. \A i \in Slots : desc'[i].dd => desc[i].dd
      BY <1>6 DEF XmitQueue, First
    <3>2. UNCHANGED Region(Uncleaned, tdh)
      BY <2>1 DEF Region, Uncleaned, Dist, Slots
    <3> QED BY <3>1, <3>2 DEF DoneBehindHead
  <2>8. TailKeepsGap'
    <3>1. next_to_use \in Slots /\ next_to_clean \in Slots
      BY DEF IndexTypes
    <3>2. Unused(next_to_clean, next_to_use') = Unused(next_to_clean, next_to_use) - k
      BY <2>2, <2>4, <3>1, UnusedIsDistance, DistRange, RingAssumption
    <3>3. Unused(next_to_clean, next_to_use') >= 2
      BY <2>2, <3>1, <3>2, UnusedIsDistance, DistRange, RingAssumption
    <3> QED BY <2>1, <3>3 DEF TailKeepsGap, Unused
  <2>9. RoomForFrame' /\ FrameFits' /\ ResetAlone'
    BY <1>6, <2>1 DEF XmitQueue, RoomForFrame, FrameFits, ResetAlone
  <2> QED BY <2>5, <2>6, <2>7, <2>8, <2>9
<1>7. CASE XmitRoom \/ XmitReroom
  <2>1. UNCHANGED <<ringvars, cpc, ceop, buffer_info, frame, rpc, down>>
    BY <1>7 DEF XmitRoom, XmitReroom, ringvars, ring, hw, clean, reset
  <2> QED BY <1>7, <2>1, OrderFrame
          DEF XmitRoom, XmitReroom, IndexTypes, RoomForFrame, FrameFits, ResetAlone,
              ringvars, Uncleaned, Slots
<1>8. ASSUME NEW more \in More, XmitTail(more) PROVE IInv'
  <2>1. UNCHANGED <<next_to_use, next_to_clean, desc, buffer_info, tdh, ci, ceop,
                    cpc, rpc, down>>
    BY <1>8 DEF XmitTail, ring, clean
  <2>2. tdt' \in {tdt, next_to_use}
    BY <1>8 DEF XmitTail, UpdateTail
  <2>3. NoFrame \in Frame
    BY RingAssumption DEF NoFrame, Frame
  <2>4. IndexTypes'
    BY <1>8, <2>1, <2>2, <2>3 DEF XmitTail, IndexTypes, Slots
  <2>5. Uncleaned \in Slots /\ Uncleaned' = Uncleaned
    BY <2>1 DEF Uncleaned, IndexTypes
  <2>6. RingOrder'
    <3>1. /\ Dist(next_to_clean, tdh) <= Dist(next_to_clean, next_to_use)
          /\ Dist(next_to_clean, tdh) <= Dist(next_to_clean, tdt)
      BY DistRange DEF RingOrder, IndexTypes
    <3>2. \/ tdt' = tdt \/ tdt' = next_to_use
      BY <2>2
    <3> QED BY <2>1, <2>5, <3>1, <3>2, DistRange DEF RingOrder, Dist, IndexTypes
  <2>9. DoneBehindHead' /\ TailKeepsGap'
    BY <2>1, <2>5 DEF DoneBehindHead, TailKeepsGap, Dist, Region, Unused, Slots
  <2>7. RoomForFrame' /\ FrameFits' /\ ResetAlone'
    BY <1>8, <2>1 DEF XmitTail, RoomForFrame, FrameFits, ResetAlone
  <2> QED BY <2>4, <2>6, <2>7, <2>9
<1> QED BY <1>1, <1>2, <1>3, <1>4, <1>5, <1>6, <1>7, <1>8 DEF XmitStep

-----------------------------------------------------------------------------
(* Each step of the cleaner.                                               *)

LEMMA CleanStepInv == IInv /\ (CleanStart \/ CleanStep) => IInv'
<1> SUFFICES ASSUME IInv, CleanStart \/ CleanStep PROVE IInv'
  OBVIOUS
<1> USE DEF IInv
<1>1. CASE CleanStart
  <2>1. UNCHANGED <<next_to_use, next_to_clean, desc, tdh, tdt, buffer_info, xpc,
                    frame, rpc, down>>
    BY <1>1 DEF CleanStart, ring, hw, xmit, reset
  <2>2. Uncleaned' = Uncleaned /\ ci' = next_to_clean /\ ceop' \in Slots
    BY <1>1 DEF CleanStart, Uncleaned, IndexTypes, Buffer
  <2>3. IndexTypes'
    BY <2>1, <2>2 DEF IndexTypes, Slots
  <2>4. RingOrder' /\ DoneBehindHead' /\ TailKeepsGap'
    BY <2>1, <2>2
       DEF RingOrder, DoneBehindHead, TailKeepsGap, Dist, Region, Unused, Slots
  <2>5. RoomForFrame' /\ FrameFits' /\ ResetAlone'
    BY <1>1, <2>1 DEF CleanStart, PollAllowed, RoomForFrame, FrameFits, ResetAlone,
                      Need, NeedFor, Unused
  <2> QED BY <2>3, <2>4, <2>5
<1>2. CASE CleanFrame
  <2> DEFINE k    == Dist(ci, ceop) + 1
             seg  == {i \in Slots : Dist(ci, i) < k}
             next == Fwd(ci, k)
  <2>1. UNCHANGED <<next_to_use, next_to_clean, tdh, tdt, xpc, frame, rpc, down>>
    BY <1>2 DEF CleanFrame, hw, xmit, reset
  <2>2. /\ cpc = "scan" /\ desc[ceop].dd /\ cpc' \in {"scan", "publish"}
        /\ ci' = next
        /\ ceop' \in {ceop, buffer_info'[next].watch}
        /\ buffer_info' = [i \in Slots |-> IF i \in seg THEN PutTxbuf(buffer_info[i])
                                                       ELSE buffer_info[i]]
        /\ desc' = [i \in Slots |-> IF i \in seg THEN NoDesc ELSE desc[i]]
    BY <1>2 DEF CleanFrame, FrameDone
  <2>3. /\ ci \in Slots /\ ceop \in Slots /\ tdh \in Slots /\ next_to_clean \in Slots
        /\ Uncleaned = ci
        /\ Dist(next_to_clean, ci) <= Dist(next_to_clean, tdh)
    BY <2>2 DEF IndexTypes, Uncleaned, RingOrder
  <2>4. k \in 1..Count /\ k <= Dist(ci, tdh)
    <3>1. Dist(ci, ceop) < Dist(ci, tdh)
      BY <2>2, <2>3 DEF DoneBehindHead, Region
    <3> QED BY <2>3, <3>1, DistRange, RingAssumption
  <2>5. /\ next \in Slots
        /\ Dist(next_to_clean, next) = Dist(next_to_clean, ci) + k
        /\ Dist(ci, next) = k
        /\ Dist(next_to_clean, next) <= Dist(next_to_clean, tdh)
    <3>1. Dist(ci, tdh) = Dist(next_to_clean, tdh) - Dist(next_to_clean, ci)
      BY <2>3, DistFrom
    <3>2. /\ Dist(next_to_clean, ci) \in 0..(Count - 1)
          /\ Dist(next_to_clean, tdh) \in 0..(Count - 1)
          /\ Dist(ci, ci) = 0
      BY <2>3, DistRange DEF Dist, Slots
    <3>3. Dist(next_to_clean, ci) + k < Count /\ Dist(ci, ci) + k < Count
      BY <2>4, <3>1, <3>2, RingAssumption
    <3>4. k \in 0..Count
      BY <2>4, RingAssumption
    <3>5. Dist(next_to_clean, next) = Dist(next_to_clean, ci) + k
      BY <2>3, <3>3, <3>4, DistFwd
    <3>6. Dist(ci, next) = k
      BY <2>3, <2>4, <3>2, <3>3, <3>4, DistFwd
    <3>7. next \in Slots
      BY <2>3, <3>4, FwdInSlots
    <3> QED BY <2>4, <3>1, <3>2, <3>5, <3>6, <3>7
  <2> HIDE DEF next, k
  <2>6. IndexTypes'
    <3>1. buffer_info' \in [Slots -> Buffer]
      <4>1. \A i \in Slots : PutTxbuf(buffer_info[i]) \in Buffer
        BY BufferSteps DEF IndexTypes
      <4> QED BY <2>2, <4>1 DEF IndexTypes
    <3>2. ceop' \in Slots
      BY <2>2, <2>3, <2>5, <3>1 DEF Buffer
    <3>3. desc' \in [Slots -> [rs : BOOLEAN, dd : BOOLEAN]]
      BY <2>2 DEF IndexTypes, NoDesc
    <3> QED BY <2>1, <2>2, <2>5, <3>1, <3>2, <3>3 DEF IndexTypes, Slots
  <2>7. Uncleaned' = next
    BY <2>2 DEF Uncleaned
  <2>8. RingOrder'
    BY <2>1, <2>5, <2>7 DEF RingOrder, Dist
  <2>9. DoneBehindHead'
    <3> SUFFICES ASSUME NEW i \in Slots, desc'[i].dd
                 PROVE  Dist(next, i) < Dist(next, tdh)
      BY <2>1, <2>7 DEF DoneBehindHead, Region, Dist, Slots
    <3>1. i \notin seg /\ desc[i].dd
      BY <2>2 DEF NoDesc
    <3>2. Dist(ci, i) < Dist(ci, tdh) /\ ~(Dist(ci, i) < k)
      BY <2>3, <3>1 DEF DoneBehindHead, Region
    <3>3. Dist(ci, i) \in 0..(Count - 1) /\ Dist(ci, tdh) \in 0..(Count - 1)
      BY <2>3, DistRange
    <3>4. Dist(next, i) = Dist(ci, i) - k /\ Dist(next, tdh) = Dist(ci, tdh) - k
      BY <2>3, <2>4, <2>5, <3>2, <3>3, DistFrom
    <3> QED BY <2>4, <3>2, <3>3, <3>4
  <2>10. TailKeepsGap' /\ RoomForFrame' /\ FrameFits' /\ ResetAlone'
    BY <2>1, <2>2 DEF TailKeepsGap, RoomForFrame, FrameFits, ResetAlone, Need, NeedFor,
                      Unused
  <2> QED BY <2>6, <2>8, <2>9, <2>10
<1>3. CASE CleanScanEnd
  <2>1. UNCHANGED <<ringvars, ceop, buffer_info, xpc, frame, rpc, down>>
    BY <1>3 DEF CleanScanEnd, ringvars, ring, hw, xmit, reset
  <2>2. Uncleaned' = Uncleaned
    BY <1>3, <2>1 DEF CleanScanEnd, Uncleaned, ringvars
  <2>3. RingOrder' /\ DoneBehindHead' /\ TailKeepsGap'
    BY <2>1, <2>2, OrderFrame
  <2> QED BY <1>3, <2>1, <2>3
          DEF CleanScanEnd, IndexTypes, RoomForFrame, FrameFits, ResetAlone, ringvars,
              Need, NeedFor, Unused, Slots
<1>4. CASE CleanPublish
  <2>1. UNCHANGED <<next_to_use, desc, tdh, tdt, ci, buffer_info, xpc, frame, rpc,
                    down>>
    BY <1>4 DEF CleanPublish, hw, xmit, reset
  <2>2. cpc = "publish" /\ next_to_clean' = ci /\ cpc' \in {"wake", "hang"} /\ ceop' = 0
    BY <1>4 DEF CleanPublish
  <2>3. Uncleaned = ci /\ Uncleaned' = ci
    BY <2>2 DEF Uncleaned
  <2>4. \A x \in {tdh, tdt, next_to_use} :
          Dist(ci, x) = Dist(next_to_clean, x) - Dist(next_to_clean, ci)
    <3> TAKE x \in {tdh, tdt, next_to_use}
    <3>1. x \in Slots /\ ci \in Slots /\ next_to_clean \in Slots /\ tdh \in Slots
          /\ tdt \in Slots /\ next_to_use \in Slots
      BY DEF IndexTypes
    <3>2. Dist(next_to_clean, ci) <= Dist(next_to_clean, x)
      BY <2>3, <3>1, DistRange DEF RingOrder
    <3> QED BY <3>1, <3>2, DistFrom
  <2>5. /\ next_to_use \in Slots /\ next_to_clean \in Slots /\ ci \in Slots
        /\ tdh \in Slots /\ tdt \in Slots
    BY DEF IndexTypes
  <2>6. RingOrder'
    <3>1. Dist(ci, ci) = 0
      BY <2>5 DEF Dist, Slots
    <3>2. Dist(ci, tdh) <= Dist(ci, tdt) /\ Dist(ci, tdt) <= Dist(ci, next_to_use)
      BY <2>4, <2>5, DistRange DEF RingOrder
    <3>3. 0 <= Dist(ci, tdh)
      BY <2>5, DistRange
    <3> QED BY <2>1, <2>2, <2>3, <3>1, <3>2, <3>3 DEF RingOrder, Dist
  <2>7. Unused(ci, next_to_use) >= Unused(next_to_clean, next_to_use)
    BY <2>4, <2>5, DistRange, UnusedIsDistance, RingAssumption
  <2>8. Unused(ci, next_to_use) \in Int /\ Unused(next_to_clean, next_to_use) \in Int
    BY <2>5, RingAssumption DEF Unused, Slots
  <2>9. TailKeepsGap'
    BY <2>1, <2>2, <2>7, <2>8 DEF TailKeepsGap, Unused
  <2>10. RoomForFrame'
    <3>1. Need \in Int
      BY RingAssumption DEF Need, NeedFor, IndexTypes, Frame
    <3> QED BY <2>1, <2>2, <2>7, <2>8, <3>1 DEF RoomForFrame, Need, NeedFor, Unused
  <2>11. DoneBehindHead' /\ FrameFits' /\ ResetAlone'
    BY <2>1, <2>2, <2>3 DEF DoneBehindHead, FrameFits, ResetAlone, Region, Dist, Slots
  <2>12. IndexTypes'
    BY <2>1, <2>2, RingAssumption DEF IndexTypes, Slots
  <2> QED BY <2>6, <2>9, <2>10, <2>11, <2>12
<1>5. ASSUME CleanWake \/ CleanWaking \/ \E late \in BOOLEAN : CleanHang(late)
      PROVE  IInv'
  <2>1. /\ UNCHANGED <<next_to_use, next_to_clean, desc, tdh, tdt, ceop, buffer_info,
                       xpc, frame, rpc, down>>
        /\ cpc \in {"wake", "waking", "hang"} /\ cpc' \in {"waking", "hang", "idle"}
        /\ ci' \in {ci, 0}
    BY <1>5 DEF CleanWake, CleanWaking, CleanHang, ring, hw, xmit, clean, reset
  <2>2. Uncleaned' = Uncleaned
    BY <2>1 DEF Uncleaned
  <2>3. ResetAlone'
    BY <1>5, <2>1 DEF ResetAlone
  <2> QED BY <2>1, <2>2, <2>3, RingAssumption
          DEF IndexTypes, RingOrder, DoneBehindHead, RoomForFrame, FrameFits,
              TailKeepsGap, Need, NeedFor, Unused, Dist, Region, Slots
<1> QED BY <1>1, <1>2, <1>3, <1>4, <1>5 DEF CleanStep

-----------------------------------------------------------------------------
(* The adapter, the watchdog and the resets.                               *)

LEMMA OtherStepInv ==
  IInv /\ (HwTransmit \/ (\E link \in BOOLEAN : Watchdog(link)) \/ PrintHang
           \/ TxTimeout \/ ResetStep) => IInv'
<1> SUFFICES ASSUME IInv,
                    HwTransmit \/ (\E link \in BOOLEAN : Watchdog(link)) \/ PrintHang
                      \/ TxTimeout \/ ResetStep
             PROVE  IInv'
  OBVIOUS
<1> USE DEF IInv
<1>1. CASE HwTransmit
  <2>1. UNCHANGED <<next_to_use, next_to_clean, tdt, ci, ceop, cpc, buffer_info, xpc,
                    frame, rpc, down>>
    BY <1>1 DEF HwTransmit, xmit, clean, reset
  <2>2. /\ tdh # tdt /\ tdh' = Fwd(tdh, 1)
        /\ desc' = IF desc[tdh].rs THEN [desc EXCEPT ![tdh].dd = TRUE] ELSE desc
    BY <1>1 DEF HwTransmit
  <2>3. /\ Uncleaned \in Slots /\ tdh \in Slots /\ tdt \in Slots
        /\ next_to_clean \in Slots /\ Uncleaned' = Uncleaned
    BY <2>1 DEF Uncleaned, IndexTypes
  <2>4. Dist(next_to_clean, tdh) < Dist(next_to_clean, tdt)
    BY <2>2, <2>3, RingAssumption DEF RingOrder, Dist, Slots
  <2>5. /\ tdh' \in Slots
        /\ Dist(next_to_clean, tdh') = Dist(next_to_clean, tdh) + 1
    <3>1. Dist(next_to_clean, tdh) + 1 < Count /\ 1 \in 0..Count
      BY <2>3, <2>4, DistRange, RingAssumption
    <3> QED BY <2>2, <2>3, <3>1, DistFwd, FwdInSlots
  <2>6. Dist(Uncleaned, tdh') = Dist(Uncleaned, tdh) + 1
    <3>1. Dist(Uncleaned, tdh) = Dist(next_to_clean, tdh) - Dist(next_to_clean, Uncleaned)
      BY <2>3, DistFrom DEF RingOrder
    <3>2. Dist(Uncleaned, tdh) + 1 < Count /\ 1 \in 0..Count
      BY <2>3, <2>4, <3>1, DistRange, RingAssumption
    <3> QED BY <2>2, <2>3, <3>2, DistFwd
  <2>7. IndexTypes'
    BY <2>1, <2>2, <2>5 DEF IndexTypes, Slots
  <2>8. RingOrder'
    BY <2>1, <2>3, <2>4, <2>5, DistRange DEF RingOrder, Dist
  <2>9. DoneBehindHead'
    <3> SUFFICES ASSUME NEW i \in Slots, desc'[i].dd
                 PROVE  Dist(Uncleaned, i) < Dist(Uncleaned, tdh')
      BY <2>3 DEF DoneBehindHead, Region, Dist, Slots
    <3>1. i = tdh \/ desc[i].dd
      BY <2>2 DEF IndexTypes
    <3>2. i = tdh \/ Dist(Uncleaned, i) < Dist(Uncleaned, tdh)
      BY <3>1 DEF DoneBehindHead, Region
    <3> QED BY <2>3, <2>6, <3>2, DistRange
  <2>10. TailKeepsGap' /\ RoomForFrame' /\ FrameFits' /\ ResetAlone'
    BY <2>1 DEF TailKeepsGap, RoomForFrame, FrameFits, ResetAlone, Need, NeedFor, Unused
  <2> QED BY <2>7, <2>8, <2>9, <2>10
<1>2. CASE (\E link \in BOOLEAN : Watchdog(link)) \/ PrintHang \/ TxTimeout
  <2>1. UNCHANGED <<ringvars, cpc, ceop, buffer_info, xpc, frame, rpc, down>>
    BY <1>2 DEF Watchdog, PrintHang, TxTimeout, ringvars, ring, hw, xmit, clean, reset
  <2>2. RingOrder' /\ DoneBehindHead' /\ TailKeepsGap'
    BY <2>1, OrderFrame DEF Uncleaned, ringvars
  <2> QED BY <2>1, <2>2
          DEF IndexTypes, RoomForFrame, FrameFits, ResetAlone, ringvars, Need, NeedFor,
              Unused, Slots
<1>3. CASE ResetStart \/ ResetStop \/ ResetIrqOff \/ ResetSync \/ ResetUp \/ ResetQueue
  <2>1. UNCHANGED <<ringvars, cpc, ceop, buffer_info, xpc, frame>>
    BY <1>3 DEF ResetStart, ResetStop, ResetIrqOff, ResetSync, ResetUp, ResetQueue,
                ringvars, ring, hw, xmit, clean
  <2>2. RingOrder' /\ DoneBehindHead' /\ TailKeepsGap'
    BY <2>1, OrderFrame DEF Uncleaned, ringvars
  <2>3. ResetAlone'
    BY <1>3, <2>1 DEF ResetStart, ResetStop, ResetIrqOff, ResetSync, ResetUp,
                      ResetQueue, ResetAlone, ringvars, reset
  <2> QED BY <2>1, <2>2, <2>3
          DEF IndexTypes, RoomForFrame, FrameFits, ringvars, Need, NeedFor, Unused, Slots
<1>4. CASE ResetClean
  <2>1. UNCHANGED <<cpc, ci, ceop, xpc, frame, down>>
    BY <1>4 DEF ResetClean, xmit, clean
  <2>2. /\ rpc = "quiet" /\ rpc' = "clean"
        /\ next_to_use' = 0 /\ next_to_clean' = 0 /\ tdh' = 0 /\ tdt' = 0
        /\ buffer_info' = [i \in Slots |-> FreeBuffer]
        /\ desc' = [i \in Slots |-> NoDesc]
    BY <1>4 DEF ResetClean
  <2>3. cpc = "idle" /\ xpc = "idle" /\ down
    BY <2>2 DEF ResetAlone
  <2>4. 0 \in Slots
    BY RingAssumption DEF Slots
  <2>5. IndexTypes'
    BY <2>1, <2>2, <2>4 DEF IndexTypes, Buffer, FreeBuffer, NoDesc, Slots
  <2>6. Uncleaned' = 0
    BY <2>1, <2>2, <2>3 DEF Uncleaned
  <2>7. RingOrder' /\ DoneBehindHead' /\ TailKeepsGap'
    BY <2>2, <2>4, <2>6, RingAssumption
       DEF RingOrder, DoneBehindHead, TailKeepsGap, NoDesc, Dist, Unused, Slots
  <2>8. RoomForFrame' /\ FrameFits' /\ ResetAlone'
    BY <2>1, <2>2, <2>3 DEF RoomForFrame, FrameFits, ResetAlone
  <2> QED BY <2>5, <2>7, <2>8
<1> QED BY <1>1, <1>2, <1>3, <1>4 DEF ResetStep

-----------------------------------------------------------------------------
LEMMA StutterInv == IInv /\ UNCHANGED vars => IInv'
BY DEF IInv, vars, ring, hw, xmit, clean, hang, reset, ghosts, bounds, IndexTypes,
       RingOrder, DoneBehindHead, RoomForFrame, FrameFits, ResetAlone, TailKeepsGap,
       Need, NeedFor, Unused, Uncleaned, Dist, Region, Slots

LEMMA StepInv == IInv /\ [Next]_vars => IInv'
BY XmitStepInv, CleanStepInv, OtherStepInv, StutterInv DEF Next

LEMMA Inductive == Spec => []IInv
<1>1. Init => IInv
  BY InitIInv
<1>2. IInv /\ [Next]_vars => IInv'
  BY StepInv
<1> QED BY <1>1, <1>2, PTL DEF Spec

\* In a ring of any size, with frames of any shape, batches, mapping errors, lost
\* tail writes and resets at any moment, the cleaner never passes the adapter's
\* head, the head never the tail, the tail never next_to_use.
THEOREM RingStaysOrdered == Spec => []RingOrder
<1>1. IInv => RingOrder
  BY DEF IInv
<1> QED BY <1>1, Inductive, PTL

\* The tail never comes within two descriptors of next_to_clean, although the room
\* for a frame is looked up steps before the frame is queued.
THEOREM GapIsKept == Spec => []TailKeepsGap
<1>1. IInv => TailKeepsGap
  BY DEF IInv
<1> QED BY <1>1, Inductive, PTL

-----------------------------------------------------------------------------
(* Who holds which skb.  On top of IInv: the slots between the cleaner and *)
(* next_to_use are cut into frames, each ending in the slot that holds its *)
(* skb and asks for its status.                                            *)

Queued == Region(Uncleaned, next_to_use)

\* An skb sits in the queued slots or, while e1000_xmit_frame fills in the
\* descriptors, in the last slot of its frame.
SkbsInRing == InSlots \subseteq Queued \cup (IF xpc = "queue" THEN {LastSlot} ELSE {})

\* RS is asked for exactly where the skb is.
EndsMarked == \A i \in Queued : desc[i].rs <=> buffer_info[i].skb # NoSkb

\* Every queued slot is part of a frame that ends before next_to_use.
FramesEnd ==
  \A i \in Queued : \E j \in Region(i, next_to_use) :
     desc[j].rs /\ \A k \in Region(i, j) : ~desc[k].rs

\* e1000_xmit_frame has its skb in hand from start to end; once queued it is beyond
\* the tail, where neither the adapter nor the cleaner gets at it.
FrameInHand ==
  /\ xpc \in {"idle", "recheck", "map", "queue", "room", "reroom", "tail"}
  /\ xpc = "idle" <=> frame.skb = NoSkb
  /\ xpc = "queue" => buffer_info[LastSlot].skb = frame.skb
  /\ xpc \in {"room", "reroom", "tail"} =>
       \E j \in Region(tdt, next_to_use) : buffer_info[j].skb = frame.skb

OwnInv == SkbsInRing /\ EndsMarked /\ FramesEnd /\ FrameInHand /\ SkbOwnership

\* Seen from next_to_clean, a region is an interval.
LEMMA RegionAt ==
  ASSUME NEW c \in Slots, NEW a \in Slots, NEW b \in Slots, NEW i \in Slots,
         Dist(c, a) <= Dist(c, b)
  PROVE  i \in Region(a, b) <=> Dist(c, a) <= Dist(c, i) /\ Dist(c, i) < Dist(c, b)
BY RingAssumption DEF Region, Dist, Slots

\* A slot short of b, seen from a, is most of a lap ahead of b.
LEMMA DistBack ==
  ASSUME NEW a \in Slots, NEW b \in Slots, NEW c \in Slots, ~(Dist(a, b) <= Dist(a, c))
  PROVE  Dist(b, c) = Count - Dist(a, b) + Dist(a, c)
BY RingAssumption DEF Dist, Slots

LEMMA QueuedAt ==
  ASSUME IInv
  PROVE  /\ Uncleaned \in Slots /\ Queued \subseteq Slots
         /\ \A i \in Slots : i \in Queued <=>
              /\ Dist(next_to_clean, Uncleaned) <= Dist(next_to_clean, i)
              /\ Dist(next_to_clean, i) < Dist(next_to_clean, next_to_use)
<1>1. /\ next_to_use \in Slots /\ next_to_clean \in Slots /\ Uncleaned \in Slots
      /\ tdh \in Slots /\ tdt \in Slots
  BY DEF IInv, IndexTypes, Uncleaned
<1>2. Dist(next_to_clean, Uncleaned) <= Dist(next_to_clean, next_to_use)
  BY <1>1, DistRange DEF IInv, RingOrder
<1> QED BY <1>1, <1>2, RegionAt DEF Queued, Region

\* The slots of the frame being mapped or queued follow the queued ones.
LEMMA FrameAt ==
  ASSUME IInv, xpc \in {"map", "queue"}
  PROVE  LET k == frame.ctx + frame.n
         IN  /\ k \in 1..Count
             /\ Dist(next_to_clean, next_to_use) + k < Count
             /\ LastSlot \in Slots
             /\ Dist(next_to_clean, LastSlot) = Dist(next_to_clean, next_to_use) + k - 1
             /\ \A i \in Slots : Dist(next_to_use, i) < k <=>
                  /\ Dist(next_to_clean, next_to_use) <= Dist(next_to_clean, i)
                  /\ Dist(next_to_clean, i) < Dist(next_to_clean, next_to_use) + k
             /\ DataFrom \in Slots /\ LastSlot = Fwd(next_to_use, k - 1)
<1> DEFINE k == frame.ctx + frame.n
<1>1. next_to_use \in Slots /\ next_to_clean \in Slots
  BY DEF IInv, IndexTypes
<1>2. frame.ctx \in {0, 1} /\ frame.n \in 1..Count /\ k + 3 <= Unused(next_to_clean, next_to_use)
  BY DEF IInv, IndexTypes, RoomForFrame, Frame, Need, NeedFor
<1>3. k \in 1..Count /\ Dist(next_to_clean, next_to_use) + k < Count
  BY <1>1, <1>2, UnusedIsDistance, DistRange, RingAssumption
<1>4. /\ DataFrom \in Slots /\ DataFrom = Fwd(next_to_use, frame.ctx)
      /\ LastSlot = Fwd(DataFrom, frame.n - 1)
  BY <1>1, <1>2, FwdInSlots, RingAssumption DEF DataFrom, First, LastSlot
<1>5. LastSlot = Fwd(next_to_use, k - 1)
  BY <1>1, <1>2, <1>3, <1>4, RingAssumption DEF Fwd, Slots
<1>6. LastSlot \in Slots /\ Dist(next_to_clean, LastSlot) = Dist(next_to_clean, next_to_use) + k - 1
  <2>1. k - 1 \in 0..Count /\ Dist(next_to_clean, next_to_use) + (k - 1) < Count
    BY <1>1, <1>3, DistRange, RingAssumption
  <2>2. Dist(next_to_clean, LastSlot) = Dist(next_to_clean, next_to_use) + (k - 1)
    BY <1>1, <1>5, <2>1, DistFwd
  <2> QED BY <1>1, <1>3, <1>5, <2>1, <2>2, FwdInSlots, DistRange
<1>7. ASSUME NEW i \in Slots
      PROVE  Dist(next_to_use, i) < k <=>
               /\ Dist(next_to_clean, next_to_use) <= Dist(next_to_clean, i)
               /\ Dist(next_to_clean, i) < Dist(next_to_clean, next_to_use) + k
  BY <1>1, <1>3, RingAssumption DEF Dist, Slots
<1> QED BY <1>3, <1>4, <1>5, <1>6, <1>7

LEMMA InitOwn == Init => OwnInv
BY RingAssumption
   DEF Init, OwnInv, SkbsInRing, EndsMarked, FramesEnd, FrameInHand, SkbOwnership, Queued,
       InSlots, FreeBuffer, NoFrame, Region, Dist, Slots, Uncleaned

\* A step that moves no skb, no RS and no index keeps the frames as they are.
LEMMA FramesKept ==
  ASSUME EndsMarked, FramesEnd,
         UNCHANGED <<next_to_use, Uncleaned>>,
         \A i \in Slots : /\ buffer_info'[i].skb = buffer_info[i].skb
                          /\ desc'[i].rs = desc[i].rs
  PROVE  UNCHANGED <<InSlots, Queued>> /\ EndsMarked' /\ FramesEnd'
<1>1. UNCHANGED <<InSlots, Queued>> /\ Queued \subseteq Slots
  BY DEF InSlots, Queued, Region, Dist, Slots
<1>2. \A a, b : UNCHANGED Region(a, b) /\ Region(a, b) \subseteq Slots
  BY DEF Region, Dist, Slots
<1>3. EndsMarked'
  BY <1>1 DEF EndsMarked
<1>4. FramesEnd'
  <2> SUFFICES ASSUME NEW i \in Queued
               PROVE  \E j \in Region(i, next_to_use) :
                        desc'[j].rs /\ \A k \in Region(i, j) : ~desc'[k].rs
    BY <1>1, <1>2 DEF FramesEnd, Region, Dist, Slots
  <2> QED BY <1>2 DEF FramesEnd
<1> QED BY <1>1, <1>3, <1>4

\* e1000_tx_map moves one skb: the frame's, into its last slot.
LEMMA MapWrites ==
  ASSUME IInv, XmitMap, NEW i \in Slots, LastSlot \in Slots
  PROVE  buffer_info'[i].skb = IF i = LastSlot THEN frame.skb ELSE buffer_info[i].skb
<1> DEFINE k == Dist(First, i)
           b == IF k < frame.ctx THEN TouchedCtx(buffer_info[i], i)
                ELSE IF k < frame.ctx + frame.n THEN TouchedData(buffer_info[i], i)
                ELSE buffer_info[i]
           c == IF i = LastSlot THEN [b EXCEPT !.skb = frame.skb] ELSE b
<1>1. buffer_info[i] \in Buffer /\ frame.skb \in Skbs \cup {NoSkb}
  BY DEF IInv, IndexTypes, Frame
<1>2. b \in Buffer /\ b.skb = buffer_info[i].skb
  BY <1>1 DEF Buffer, TouchedCtx, TouchedData
<1> HIDE DEF b
<1>3. c \in Buffer /\ c.skb = IF i = LastSlot THEN frame.skb ELSE b.skb
  BY <1>1, <1>2 DEF Buffer
<1>4. buffer_info'[i] = IF i = First THEN [c EXCEPT !.watch = LastSlot] ELSE c
  BY DEF XmitMap, b
<1> HIDE DEF c
<1> QED BY <1>2, <1>3, <1>4 DEF Buffer

\* e1000_tx_map puts one more skb into the ring.
LEMMA MapAddsSkb ==
  ASSUME IInv, OwnInv, XmitMap
  PROVE  /\ LastSlot \notin InSlots
         /\ InSlots' = InSlots \cup {LastSlot}
<1>1. xpc = "map" /\ frame.skb # NoSkb
  BY DEF XmitMap, OwnInv, FrameInHand
<1>2. LastSlot \in Slots /\ LastSlot \notin Queued
  <2>1. next_to_clean \in Slots /\ next_to_use \in Slots
    BY DEF IInv, IndexTypes
  <2> QED BY <1>1, <2>1, FrameAt, QueuedAt, DistRange
<1>3. \A i \in Slots : buffer_info'[i].skb = IF i = LastSlot THEN frame.skb ELSE buffer_info[i].skb
  BY <1>2, MapWrites
<1>4. LastSlot \notin InSlots
  BY <1>1, <1>2 DEF OwnInv, SkbsInRing
<1> QED BY <1>1, <1>2, <1>3, <1>4 DEF InSlots

\* A frame that is refused takes no skb out of the ring.
LEMMA MapErrorKeepsSkbs ==
  ASSUME IInv, OwnInv, NEW good \in 0..Count, XmitMapError(good)
  PROVE  \A i \in Slots : buffer_info'[i].skb = buffer_info[i].skb
<1> SUFFICES ASSUME NEW i \in Slots PROVE buffer_info'[i].skb = buffer_info[i].skb
  OBVIOUS
<1>0. next_to_use \in Slots /\ next_to_clean \in Slots /\ frame \in Frame /\ buffer_info[i] \in Buffer
  BY DEF IInv, IndexTypes
<1>1. xpc = "map" /\ good < frame.n
  BY DEF XmitMapError
<1>2. Dist(DataFrom, i) < good => buffer_info[i].skb = NoSkb
  <2> SUFFICES ASSUME Dist(DataFrom, i) < good PROVE i \notin Queued
    BY <1>1 DEF OwnInv, SkbsInRing, InSlots
  <2>1. frame.ctx \in {0, 1} /\ frame.n \in 0..Count
    BY <1>0 DEF Frame
  <2>2. Dist(next_to_use, i) < frame.ctx + frame.n
    <3>1. frame.ctx + frame.n \in 1..Count
      BY <1>1, FrameAt
    <3> QED BY <1>0, <1>1, <2>1, <3>1, RingAssumption DEF DataFrom, First, Fwd, Dist, Slots
  <2>3. Dist(next_to_clean, i) >= Dist(next_to_clean, next_to_use)
    BY <1>0, <1>1, <2>2, FrameAt, DistRange
  <2> QED BY <2>3, <1>0, QueuedAt, DistRange
<1>3. buffer_info'[i].skb = buffer_info[i].skb \/ (Dist(DataFrom, i) < good /\ buffer_info'[i].skb = NoSkb)
  BY <1>0 DEF XmitMapError, Buffer, TouchedCtx, TouchedData, PutTxbuf
<1> QED BY <1>2, <1>3

LEMMA XmitStepOwn ==
  ASSUME IInv, OwnInv, Stack \/ XmitStep
  PROVE  OwnInv'
<1> USE DEF OwnInv
<1>0. /\ next_to_use \in Slots /\ next_to_clean \in Slots /\ tdt \in Slots
      /\ buffer_info \in [Slots -> Buffer] /\ frame \in Frame
      /\ desc \in [Slots -> [rs : BOOLEAN, dd : BOOLEAN]]
  BY DEF IInv, IndexTypes
<1>1. CASE XmitDrop
  <2>1. UNCHANGED <<next_to_use, next_to_clean, buffer_info, desc, tdt, xpc, frame, cpc, ci,
                    owned>>
    BY <1>1 DEF XmitDrop, ring, hw, clean, ghosts
  <2> QED BY <2>1, FramesKept
          DEF Uncleaned, SkbsInRing, FrameInHand, SkbOwnership, InSlots, LastSlot, DataFrom, First,
              Fwd, Region, Dist, Slots
<1>2. ASSUME NEW s \in Skbs, NEW sh \in Shapes, XmitStart(s, sh) PROVE OwnInv'
  <2>1. /\ UNCHANGED <<next_to_use, next_to_clean, buffer_info, desc, tdt, cpc, ci>>
        /\ xpc = "idle" /\ xpc' \in {"map", "recheck"} /\ s \notin owned
        /\ owned' = owned \cup {s} /\ frame'.skb = s
    BY <1>2 DEF XmitStart, ring, hw, clean
  <2>2. UNCHANGED <<InSlots, Queued>> /\ EndsMarked' /\ FramesEnd'
    BY <2>1, FramesKept DEF Uncleaned
  <2>3. s # NoSkb /\ frame.skb = NoSkb
    BY <2>1, RingAssumption DEF FrameInHand
  <2>4. \A i \in InSlots : buffer_info[i].skb \in owned
    BY <2>3 DEF SkbOwnership, InSlots
  <2>5. SkbsInRing' /\ FrameInHand'
    BY <2>1, <2>2, <2>3 DEF SkbsInRing, FrameInHand
  <2>6. SkbOwnership'
    BY <2>1, <2>2, <2>3, <2>4, <2>5 DEF SkbsInRing, SkbOwnership, Queued
  <2> QED BY <2>2, <2>5, <2>6
<1>3. ASSUME XmitRecheck \/ XmitTsoError \/ \E good \in 0..Count : XmitMapError(good)
      PROVE  OwnInv'
  <2>1. /\ UNCHANGED <<next_to_use, next_to_clean, desc, tdt, cpc, ci>>
        /\ xpc \in {"recheck", "map"}
        /\ \/ xpc' = "map" /\ UNCHANGED <<frame, owned>>
           \/ xpc' = "idle" /\ frame' = NoFrame /\ owned' = owned \ {frame.skb}
    BY <1>3 DEF XmitRecheck, XmitTsoError, XmitMapError, ring, hw, clean
  <2>2. \A i \in Slots : buffer_info'[i].skb = buffer_info[i].skb
    <3>1. CASE XmitRecheck \/ XmitTsoError
      BY <3>1 DEF XmitRecheck, XmitTsoError, ring
    <3>2. ASSUME NEW good \in 0..Count, XmitMapError(good)
          PROVE  \A i \in Slots : buffer_info'[i].skb = buffer_info[i].skb
      BY <3>2, MapErrorKeepsSkbs
    <3> QED BY <1>3, <3>1, <3>2
  <2>3. UNCHANGED <<InSlots, Queued>> /\ EndsMarked' /\ FramesEnd'
    BY <2>1, <2>2, FramesKept DEF Uncleaned
  <2>4. InSlots \subseteq Slots /\ \A i \in InSlots : buffer_info'[i].skb = buffer_info[i].skb
    BY <2>2 DEF InSlots
  <2>5. frame.skb # NoSkb /\ NoFrame.skb = NoSkb
    BY <2>1 DEF FrameInHand, NoFrame
  <2>6. SkbsInRing' /\ FrameInHand'
    BY <2>1, <2>3, <2>5 DEF SkbsInRing, FrameInHand
  <2>7. \A i \in InSlots : buffer_info[i].skb # frame.skb /\ buffer_info[i].skb # NoSkb
    BY <2>1 DEF SkbOwnership, InSlots
  <2>8. SkbOwnership'
    BY <2>1, <2>3, <2>4, <2>5, <2>6, <2>7 DEF SkbOwnership, SkbsInRing, Queued
  <2> QED BY <2>3, <2>6, <2>8
<1>4. CASE XmitMap
  <2>1. /\ UNCHANGED <<next_to_use, next_to_clean, desc, tdt, cpc, ci, frame, owned>>
        /\ xpc = "map" /\ xpc' = "queue"
    BY <1>4 DEF XmitMap, hw, clean
  <2>2. UNCHANGED <<Queued, LastSlot>>
    BY <2>1 DEF Queued, Uncleaned, Region, Dist, Slots, LastSlot, DataFrom, First, Fwd
  <2>3. LastSlot \in Slots /\ LastSlot \notin Queued
    BY <1>0, <2>1, FrameAt, QueuedAt, DistRange
  <2>4. ASSUME NEW i \in Slots
        PROVE  buffer_info'[i].skb = IF i = LastSlot THEN frame.skb ELSE buffer_info[i].skb
    BY <1>4, <2>3, MapWrites
  <2>5. /\ buffer_info'[LastSlot].skb = frame.skb
        /\ \A i \in Slots : i # LastSlot => buffer_info'[i].skb = buffer_info[i].skb
    BY <2>3, <2>4
  <2>6. frame.skb # NoSkb /\ LastSlot \notin InSlots
    BY <2>1, <2>3 DEF FrameInHand, SkbsInRing
  <2>7. InSlots' = InSlots \cup {LastSlot}
    BY <2>3, <2>5, <2>6 DEF InSlots
  <2>8. SkbsInRing' /\ FrameInHand'
    BY <2>1, <2>2, <2>5, <2>6, <2>7 DEF SkbsInRing, FrameInHand
  <2>9. EndsMarked' /\ FramesEnd'
    <3>1. \A i \in Queued : buffer_info'[i].skb = buffer_info[i].skb
      BY <2>3, <2>5 DEF Queued, Region
    <3>2. \A a, b : UNCHANGED Region(a, b)
      BY DEF Region, Dist, Slots
    <3> QED BY <2>1, <2>2, <3>1, <3>2 DEF EndsMarked, FramesEnd, Region, Dist, Slots
  <2>10. \A i \in InSlots : /\ i \in Slots /\ i # LastSlot
                            /\ buffer_info'[i].skb = buffer_info[i].skb
                            /\ buffer_info[i].skb # frame.skb
    BY <2>1, <2>5, <2>6 DEF InSlots, SkbOwnership
  <2>11. SkbOwnership'
    <3>1. {buffer_info'[i].skb : i \in InSlots'} = {buffer_info[i].skb : i \in InSlots} \cup {frame.skb}
      BY <2>5, <2>7, <2>10
    <3>2. owned' = ({frame'.skb} \cup {buffer_info'[i].skb : i \in InSlots'}) \ {NoSkb}
      BY <2>1, <3>1 DEF SkbOwnership
    <3>3. \A i, j \in InSlots' : buffer_info'[i].skb = buffer_info'[j].skb => i = j
      BY <2>5, <2>7, <2>10 DEF SkbOwnership
    <3> QED BY <2>1, <2>8, <3>2, <3>3 DEF SkbOwnership, SkbsInRing, Queued
  <2> QED BY <2>8, <2>9, <2>11
<1>5. CASE XmitQueue
  <2> DEFINE k == frame.ctx + frame.n
             at(i) == Dist(next_to_clean, i)
  <2>1. /\ UNCHANGED <<next_to_clean, buffer_info, tdt, tdh, cpc, ci, frame, owned>>
        /\ xpc = "queue" /\ xpc' = "room"
        /\ next_to_use' = Fwd(next_to_use, k)
        /\ desc' = [i \in Slots |-> IF Dist(next_to_use, i) < k
                      THEN [rs |-> i = LastSlot, dd |-> FALSE] ELSE desc[i]]
    BY <1>5 DEF XmitQueue, hw, clean, First
  <2>2. /\ k \in 1..Count /\ at(next_to_use) + k < Count
        /\ LastSlot \in Slots /\ at(LastSlot) = at(next_to_use) + k - 1
        /\ \A i \in Slots : Dist(next_to_use, i) < k <=>
             at(next_to_use) <= at(i) /\ at(i) < at(next_to_use) + k
    BY <2>1, FrameAt
  <2> HIDE DEF k
  <2>3. next_to_use' \in Slots /\ at(next_to_use') = at(next_to_use) + k
    BY <1>0, <2>1, <2>2, FwdInSlots, DistFwd, RingAssumption
  <2>4. \A i \in Slots : at(i) \in 0..(Count - 1)
    BY <1>0, DistRange
  <2>5. /\ Uncleaned' = Uncleaned /\ Uncleaned \in Slots
        /\ at(Uncleaned) <= at(next_to_use) /\ at(Uncleaned) <= at(tdt)
        /\ at(tdt) <= at(next_to_use)
    BY <1>0, <2>1, <2>4, QueuedAt DEF Uncleaned, IInv, RingOrder, IndexTypes
  <2>6. \A i \in Slots : i \in Queued <=> at(Uncleaned) <= at(i) /\ at(i) < at(next_to_use)
    BY QueuedAt
  <2>7. /\ \A i \in Slots : i \in Queued' <=> at(Uncleaned) <= at(i) /\ at(i) < at(next_to_use')
        /\ Queued' \subseteq Slots /\ Queued \subseteq Slots
    <3>1. Queued' = Region(Uncleaned, next_to_use')
      BY <2>5 DEF Queued, Region, Dist, Slots
    <3>2. at(Uncleaned) <= at(next_to_use')
      BY <2>2, <2>3, <2>4, <2>5, <1>0
    <3> QED BY <1>0, <2>3, <2>5, <3>1, <3>2, RegionAt DEF Queued, Region
  <2>8. /\ \A i \in Queued : desc'[i] = desc[i]
        /\ \A i \in Queued' \ Queued : desc'[i].rs <=> i = LastSlot
        /\ Queued \subseteq Queued' /\ LastSlot \in Queued' \ Queued
    <3>1. \A i \in Queued : ~(Dist(next_to_use, i) < k)
      BY <1>0, <2>2, <2>4, <2>6, <2>7
    <3>2. \A i \in Queued' \ Queued : Dist(next_to_use, i) < k
      BY <1>0, <2>2, <2>3, <2>4, <2>5, <2>6, <2>7
    <3>3. Queued \subseteq Queued' /\ LastSlot \in Queued' \ Queued
      BY <1>0, <2>2, <2>3, <2>4, <2>5, <2>6, <2>7
    <3> QED BY <2>1, <2>7, <3>1, <3>2, <3>3
  <2>9. InSlots' = InSlots /\ buffer_info[LastSlot].skb = frame.skb /\ frame.skb # NoSkb
    BY <2>1 DEF InSlots, FrameInHand
  <2>10. SkbsInRing'
    BY <2>1, <2>8, <2>9 DEF SkbsInRing
  <2>11. EndsMarked'
    <3> SUFFICES ASSUME NEW i \in Queued' PROVE desc'[i].rs <=> buffer_info[i].skb # NoSkb
      BY <2>1 DEF EndsMarked
    <3>1. CASE i \in Queued
      BY <2>8, <3>1 DEF EndsMarked
    <3>2. CASE i \notin Queued
      BY <2>1, <2>7, <2>8, <2>9, <3>2 DEF SkbsInRing, InSlots
    <3> QED BY <3>1, <3>2
  <2>12. FramesEnd'
    <3> SUFFICES ASSUME NEW i \in Queued'
                 PROVE  \E j \in Region(i, next_to_use') :
                          desc'[j].rs /\ \A m \in Region(i, j) : ~desc'[m].rs
      BY DEF FramesEnd, Region, Dist, Slots
    <3>1. CASE i \in Queued
      <4>1. PICK j \in Region(i, next_to_use) : desc[j].rs /\ \A m \in Region(i, j) : ~desc[m].rs
        BY <3>1 DEF FramesEnd
      <4>2. i \in Slots /\ j \in Slots /\ at(i) < at(next_to_use) /\ at(i) >= at(Uncleaned)
        BY <2>6, <2>7, <3>1, <4>1 DEF Region
      <4>3. at(i) <= at(j) /\ at(j) < at(next_to_use)
        BY <1>0, <2>4, <4>1, <4>2, RegionAt
      <4>4. j \in Queued /\ j \in Region(i, next_to_use')
        BY <1>0, <2>2, <2>3, <2>4, <2>5, <2>6, <4>2, <4>3, RegionAt
      <4>5. \A m \in Region(i, j) : m \in Queued
        <5> TAKE m \in Region(i, j)
        <5>1. m \in Slots /\ at(i) <= at(m) /\ at(m) < at(j)
          BY <1>0, <4>2, <4>3, RegionAt DEF Region
        <5> QED BY <1>0, <2>4, <2>5, <2>6, <4>2, <4>3, <5>1
      <4> QED BY <2>8, <4>1, <4>4, <4>5
    <3>2. CASE i \notin Queued
      <4>1. i \in Slots /\ at(next_to_use) <= at(i) /\ at(i) < at(next_to_use')
        BY <1>0, <2>4, <2>5, <2>6, <2>7, <3>2
      <4>2. at(i) <= at(LastSlot) /\ at(LastSlot) < at(next_to_use')
        BY <1>0, <2>2, <2>3, <2>4, <4>1
      <4>3. LastSlot \in Region(i, next_to_use')
        BY <1>0, <2>2, <2>3, <2>4, <4>1, <4>2, RegionAt
      <4>4. \A m \in Region(i, LastSlot) : m \in Queued' \ Queued /\ m # LastSlot
        <5> TAKE m \in Region(i, LastSlot)
        <5>1. m \in Slots /\ at(i) <= at(m) /\ at(m) < at(LastSlot)
          BY <1>0, <2>2, <4>1, <4>2, RegionAt DEF Region
        <5> QED BY <1>0, <2>2, <2>3, <2>4, <2>5, <2>6, <2>7, <4>1, <4>2, <5>1
      <4> QED BY <2>8, <4>3, <4>4
    <3> QED BY <3>1, <3>2
  <2>13. FrameInHand'
    <3>1. LastSlot \in Region(tdt, next_to_use')
      BY <1>0, <2>2, <2>3, <2>4, <2>5, RegionAt
    <3> QED BY <2>1, <2>9, <3>1 DEF FrameInHand, Region, Dist, Slots
  <2>14. SkbOwnership'
    BY <2>1, <2>9, <2>10 DEF SkbOwnership, SkbsInRing, Queued
  <2> QED BY <2>10, <2>11, <2>12, <2>13, <2>14
<1>6. ASSUME XmitRoom \/ XmitReroom \/ \E more \in More : XmitTail(more)
      PROVE  OwnInv'
  <2>1. /\ UNCHANGED <<next_to_use, next_to_clean, buffer_info, desc, cpc, ci, owned>>
        /\ xpc \in {"room", "reroom", "tail"}
        /\ \/ xpc' \in {"reroom", "tail"} /\ UNCHANGED <<frame, tdt>>
           \/ xpc' = "idle" /\ frame' = NoFrame
    BY <1>6 DEF XmitRoom, XmitReroom, XmitTail, ring, hw, clean, ghosts
  <2>2. UNCHANGED <<InSlots, Queued>> /\ EndsMarked' /\ FramesEnd'
    BY <2>1, FramesKept DEF Uncleaned
  <2>3. PICK j \in Region(tdt, next_to_use) : buffer_info[j].skb = frame.skb
    BY <2>1 DEF FrameInHand
  <2>4. frame.skb # NoSkb /\ j \in InSlots /\ NoFrame.skb = NoSkb
    BY <2>1, <2>3 DEF FrameInHand, InSlots, Region, NoFrame
  <2>5. FrameInHand'
    BY <2>1, <2>3, <2>4 DEF FrameInHand, Region, Dist, Slots
  <2>6. SkbsInRing' /\ SkbOwnership'
    <3>1. SkbsInRing'
      BY <2>1, <2>2 DEF SkbsInRing
    <3>2. owned = {buffer_info[i].skb : i \in InSlots} \ {NoSkb}
      BY <2>4, <2>3 DEF SkbOwnership
    <3> QED BY <2>1, <2>2, <2>3, <2>4, <3>1, <3>2 DEF SkbsInRing, SkbOwnership, Queued
  <2> QED BY <2>2, <2>5, <2>6
<1> QED BY <1>1, <1>2, <1>3, <1>4, <1>5, <1>6 DEF Stack, XmitStep

\* The slots CleanFrame frees are the queued ones up to the end of the frame, all of
\* them behind the head.
Freed == {i \in Slots : Dist(ci, i) < Dist(ci, ceop) + 1}

LEMMA FreedAt ==
  ASSUME IInv, CleanFrame
  PROVE  LET at(i) == Dist(next_to_clean, i)
         IN  /\ Uncleaned = ci /\ Uncleaned' \in Slots /\ at(Uncleaned') = at(ceop) + 1
             /\ at(ci) <= at(ceop) /\ at(ceop) < at(tdh)
             /\ at(tdh) <= at(tdt) /\ at(tdt) <= at(next_to_use)
             /\ \A i \in Slots : i \in Freed <=> at(ci) <= at(i) /\ at(i) <= at(ceop)
             /\ Queued' = Queued \ Freed
             /\ buffer_info' = [i \in Slots |-> IF i \in Freed THEN PutTxbuf(buffer_info[i])
                                                              ELSE buffer_info[i]]
             /\ desc' = [i \in Slots |-> IF i \in Freed THEN NoDesc ELSE desc[i]]
             /\ owned' = owned \ {buffer_info[i].skb : i \in Freed}
             /\ mapped' = mapped - MappedIn(Freed)
<1> DEFINE k     == Dist(ci, ceop) + 1
           next  == Fwd(ci, k)
           at(i) == Dist(next_to_clean, i)
<1>0. /\ next_to_use \in Slots /\ next_to_clean \in Slots /\ tdt \in Slots /\ tdh \in Slots
      /\ ci \in Slots /\ ceop \in Slots
  BY DEF IInv, IndexTypes
<1>1. /\ UNCHANGED <<next_to_use, next_to_clean>>
      /\ cpc = "scan" /\ cpc' \in {"scan", "publish"} /\ desc[ceop].dd /\ ci' = next
      /\ buffer_info' = [i \in Slots |-> IF i \in Freed THEN PutTxbuf(buffer_info[i])
                                                       ELSE buffer_info[i]]
      /\ desc' = [i \in Slots |-> IF i \in Freed THEN NoDesc ELSE desc[i]]
      /\ owned' = owned \ {buffer_info[i].skb : i \in Freed}
      /\ mapped' = mapped - MappedIn(Freed)
  BY DEF CleanFrame, FrameDone, Freed
<1>2. Uncleaned = ci /\ Uncleaned' = next
  BY <1>1 DEF Uncleaned
<1>3. \A i \in Slots : at(i) \in 0..(Count - 1)
  BY <1>0, DistRange
<1>4. /\ at(ci) <= at(ceop) /\ at(ceop) < at(tdh) /\ at(ci) <= at(tdh)
      /\ at(tdh) <= at(tdt) /\ at(tdt) <= at(next_to_use)
  <2>1. at(ci) <= at(tdh) /\ at(tdh) <= at(tdt) /\ at(tdt) <= at(next_to_use)
    BY <1>2 DEF IInv, RingOrder
  <2>2. ceop \in Region(ci, tdh)
    BY <1>0, <1>1, <1>2 DEF IInv, DoneBehindHead
  <2> QED BY <1>0, <2>1, <2>2, RegionAt
<1>5. k \in 1..Count /\ k = at(ceop) - at(ci) + 1
  <2>1. Dist(ci, ceop) = at(ceop) - at(ci) /\ Dist(ci, ceop) \in 0..(Count - 1)
    BY <1>0, <1>4, DistFrom, DistRange
  <2> QED BY <2>1, RingAssumption
<1>6. Freed = {i \in Slots : Dist(ci, i) < k}
  BY DEF Freed
<1> HIDE DEF k
<1>7. next \in Slots /\ at(next) = at(ceop) + 1
  <2>1. k \in 0..Count /\ at(ci) \in 0..(Count - 1) /\ at(ceop) \in 0..(Count - 1)
        /\ at(tdh) \in 0..(Count - 1)
    BY <1>0, <1>3, <1>5, RingAssumption
  <2>2. at(ci) + k < Count /\ at(ci) + k = at(ceop) + 1
    BY <1>4, <1>5, <2>1, RingAssumption
  <2> QED BY <1>0, <2>1, <2>2, DistFwd, FwdInSlots
<1>8. \A i \in Slots : i \in Freed <=> at(ci) <= at(i) /\ at(i) <= at(ceop)
  <2> TAKE i \in Slots
  <2>1. i \in Freed <=> Dist(ci, i) < k
    BY <1>6
  <2>2. CASE at(ci) <= at(i)
    BY <1>0, <1>3, <1>5, <2>1, <2>2, DistFrom
  <2>3. CASE ~(at(ci) <= at(i))
    <3>1. Dist(ci, i) = Count - at(ci) + at(i)
      BY <1>0, <1>3, <2>3, DistBack
    <3> QED BY <1>0, <1>3, <1>4, <1>5, <2>1, <2>3, <3>1, RingAssumption
  <2> QED BY <2>2, <2>3
<1> HIDE DEF next
<1>9. Queued' = Queued \ Freed
  <2>1. Queued' = Region(next, next_to_use)
    BY <1>1, <1>2 DEF Queued, Region, Dist, Slots
  <2>2. at(next) <= at(next_to_use)
    BY <1>0, <1>3, <1>4, <1>7
  <2>3. \A i \in Slots : i \in Queued' <=> at(next) <= at(i) /\ at(i) < at(next_to_use)
    BY <1>0, <1>7, <2>1, <2>2, RegionAt
  <2>4. \A i \in Slots : i \in Queued <=> at(ci) <= at(i) /\ at(i) < at(next_to_use)
    BY <1>2, QueuedAt
  <2>5. Queued \subseteq Slots /\ Queued' \subseteq Slots
    BY <2>1 DEF Queued, Region
  <2> QED BY <1>0, <1>3, <1>4, <1>7, <1>8, <2>3, <2>4, <2>5
<1> QED BY <1>1, <1>2, <1>4, <1>7, <1>8, <1>9

\* The cleaner frees whole frames behind the head; nothing in flight is among them.
LEMMA CleanStepOwn ==
  ASSUME IInv, OwnInv, CleanStart \/ CleanStep
  PROVE  OwnInv'
<1> USE DEF OwnInv
<1>0. /\ next_to_use \in Slots /\ next_to_clean \in Slots /\ tdt \in Slots /\ tdh \in Slots
      /\ ci \in Slots /\ ceop \in Slots
      /\ buffer_info \in [Slots -> Buffer] /\ frame \in Frame
      /\ desc \in [Slots -> [rs : BOOLEAN, dd : BOOLEAN]]
  BY DEF IInv, IndexTypes
<1>1. ASSUME CleanStart \/ CleanScanEnd \/ CleanPublish \/ CleanWake \/ CleanWaking
             \/ \E late \in BOOLEAN : CleanHang(late)
      PROVE  OwnInv'
  <2>1. /\ UNCHANGED <<next_to_use, buffer_info, desc, tdt, xpc, frame, owned>>
        /\ UNCHANGED Uncleaned
    BY <1>1 DEF CleanStart, CleanScanEnd, CleanPublish, CleanWake, CleanWaking, CleanHang,
                ring, hw, clean, xmit, ghosts, Uncleaned
  <2>2. UNCHANGED <<InSlots, Queued>> /\ EndsMarked' /\ FramesEnd'
    BY <2>1, FramesKept
  <2>3. SkbsInRing' /\ FrameInHand'
    BY <2>1, <2>2
       DEF SkbsInRing, FrameInHand, LastSlot, DataFrom, First, Fwd, Region, Dist, Slots
  <2>4. SkbOwnership'
    BY <2>1, <2>2, <2>3 DEF SkbsInRing, SkbOwnership, Queued
  <2> QED BY <2>2, <2>3, <2>4
<1>2. CASE CleanFrame
  <2> DEFINE at(i) == Dist(next_to_clean, i)
  <2>1. /\ UNCHANGED <<next_to_use, next_to_clean, tdt, xpc, frame, LastSlot>>
    BY <1>2 DEF CleanFrame, xmit, hw, LastSlot, DataFrom, First, Fwd
  <2>2. /\ Uncleaned = ci /\ Uncleaned' \in Slots /\ at(Uncleaned') = at(ceop) + 1
        /\ at(ci) <= at(ceop) /\ at(ceop) < at(tdh)
        /\ at(tdh) <= at(tdt) /\ at(tdt) <= at(next_to_use)
        /\ \A i \in Slots : i \in Freed <=> at(ci) <= at(i) /\ at(i) <= at(ceop)
        /\ Queued' = Queued \ Freed
        /\ buffer_info' = [i \in Slots |-> IF i \in Freed THEN PutTxbuf(buffer_info[i])
                                                         ELSE buffer_info[i]]
        /\ desc' = [i \in Slots |-> IF i \in Freed THEN NoDesc ELSE desc[i]]
        /\ owned' = owned \ {buffer_info[i].skb : i \in Freed}
    BY <1>2, FreedAt
  <2>3. \A i \in Slots : at(i) \in 0..(Count - 1)
    BY <1>0, DistRange
  <2>10. Queued \subseteq Slots /\ Freed \subseteq Slots
    BY DEF Freed, Queued, Region
  <2>11. /\ \A i \in Slots : i \in Freed => buffer_info'[i].skb = NoSkb
         /\ \A i \in Slots : i \notin Freed => buffer_info'[i].skb = buffer_info[i].skb /\ desc'[i] = desc[i]
    BY <1>0, <2>2 DEF PutTxbuf, Buffer
  <2>12. InSlots' = InSlots \ Freed
    BY <2>11 DEF InSlots
  <2>13. xpc = "queue" => LastSlot \in Slots /\ LastSlot \notin Freed
    <3> HAVE xpc = "queue"
    <3>1. LastSlot \in Slots /\ at(LastSlot) >= at(next_to_use)
      BY <1>0, <2>3, FrameAt
    <3> QED BY <1>0, <2>2, <2>3, <3>1
  <2>14. SkbsInRing'
    BY <2>1, <2>2, <2>12, <2>13 DEF SkbsInRing
  <2>15. EndsMarked'
    BY <2>2, <2>10, <2>11 DEF EndsMarked
  <2>16. FramesEnd'
    <3> SUFFICES ASSUME NEW i \in Queued'
                 PROVE  \E j \in Region(i, next_to_use) :
                          desc'[j].rs /\ \A m \in Region(i, j) : ~desc'[m].rs
      BY <2>1 DEF FramesEnd, Region, Dist, Slots
    <3>1. PICK j \in Region(i, next_to_use) : desc[j].rs /\ \A m \in Region(i, j) : ~desc[m].rs
      BY <2>2 DEF FramesEnd
    <3>2. i \in Slots /\ j \in Slots /\ at(ceop) < at(i) /\ at(i) < at(next_to_use)
      BY <1>0, <2>2, <2>3, <2>10, <3>1, QueuedAt DEF Region
    <3>3. at(i) <= at(j) /\ at(j) < at(next_to_use)
      BY <1>0, <2>3, <3>1, <3>2, RegionAt
    <3>4. \A m \in Slots : at(i) <= at(m) => m \notin Freed
      BY <1>0, <2>2, <2>3, <3>2
    <3>5. \A m \in Region(i, j) : m \in Slots /\ at(i) <= at(m)
      BY <1>0, <3>2, <3>3, RegionAt DEF Region
    <3>6. desc'[j].rs
      BY <2>11, <3>1, <3>2, <3>3, <3>4
    <3>7. \A m \in Region(i, j) : ~desc'[m].rs
      BY <2>11, <3>1, <3>4, <3>5
    <3> QED BY <3>1, <3>6, <3>7
  <2>17. FrameInHand'
    <3>1. xpc = "queue" => buffer_info'[LastSlot].skb = frame.skb
      BY <2>11, <2>13 DEF FrameInHand
    <3>2. ASSUME NEW j \in Region(tdt, next_to_use), buffer_info[j].skb = frame.skb
          PROVE  buffer_info'[j].skb = frame.skb
      <4>1. j \in Slots /\ at(tdt) <= at(j)
        BY <1>0, <2>2, RegionAt DEF Region
      <4>2. j \notin Freed
        BY <1>0, <2>2, <2>3, <4>1
      <4> QED BY <2>11, <3>2, <4>1, <4>2
    <3>3. Region(tdt, next_to_use)' = Region(tdt, next_to_use)
      BY <2>1 DEF Region, Dist, Slots
    <3> QED BY <2>1, <3>1, <3>2, <3>3 DEF FrameInHand
  <2>18. SkbOwnership'
    <3>1. \A i \in InSlots' : i \in InSlots /\ buffer_info'[i].skb = buffer_info[i].skb
      BY <2>11, <2>12 DEF InSlots
    <3>2. frame.skb # NoSkb => \A i \in Freed : buffer_info[i].skb # frame.skb
      <4> SUFFICES ASSUME frame.skb # NoSkb, NEW i \in Freed, buffer_info[i].skb = frame.skb
                   PROVE  FALSE
        OBVIOUS
      <4>1. i \in InSlots /\ i \in Slots
        BY <2>10 DEF InSlots
      <4>2. xpc \in {"recheck", "map", "queue", "room", "reroom", "tail"}
        BY DEF FrameInHand
      <4>3. CASE xpc \in {"recheck", "map"}
        BY <4>1, <4>3 DEF SkbOwnership
      <4>4. CASE xpc = "queue"
        <5>1. LastSlot \in InSlots /\ buffer_info[LastSlot].skb = frame.skb
          BY <2>13, <4>4 DEF FrameInHand, InSlots
        <5>2. i = LastSlot
          BY <4>1, <5>1 DEF SkbOwnership
        <5> QED BY <2>13, <4>4, <5>2
      <4>5. CASE xpc \in {"room", "reroom", "tail"}
        <5>1. PICK j \in Region(tdt, next_to_use) : buffer_info[j].skb = frame.skb
          BY <4>5 DEF FrameInHand
        <5>2. j \in InSlots /\ j \in Slots /\ at(tdt) <= at(j)
          BY <1>0, <2>2, <5>1, RegionAt DEF Region, InSlots
        <5>3. i = j
          BY <4>1, <5>1, <5>2 DEF SkbOwnership
        <5> QED BY <1>0, <2>2, <2>3, <5>2, <5>3
      <4> QED BY <4>2, <4>3, <4>4, <4>5
    <3>3. \A i \in InSlots \ Freed : \A j \in Freed : buffer_info[i].skb # buffer_info[j].skb
      BY <2>10 DEF SkbOwnership, InSlots
    <3>4. owned' = ({frame.skb} \cup {buffer_info'[i].skb : i \in InSlots'}) \ {NoSkb}
      <4>1. {buffer_info'[i].skb : i \in InSlots'} = {buffer_info[i].skb : i \in InSlots \ Freed}
        BY <2>12, <3>1
      <4>2. {buffer_info[i].skb : i \in InSlots} = {buffer_info[i].skb : i \in InSlots \ Freed}
               \cup {buffer_info[i].skb : i \in InSlots \cap Freed}
        OBVIOUS
      <4>3. owned = ({frame.skb} \cup {buffer_info[i].skb : i \in InSlots}) \ {NoSkb}
        BY DEF SkbOwnership
      <4>4. owned \ {buffer_info[i].skb : i \in Freed}
              = ({frame.skb} \cup {buffer_info[i].skb : i \in InSlots \ Freed}) \ {NoSkb}
        BY <3>2, <3>3, <4>2, <4>3 DEF InSlots
      <4> QED BY <2>1, <2>2, <4>1, <4>4
    <3>5. \A i, j \in InSlots' : buffer_info'[i].skb = buffer_info'[j].skb => i = j
      BY <3>1 DEF SkbOwnership
    <3>6. xpc' \in {"recheck", "map"} => \A i \in InSlots' : buffer_info'[i].skb # frame'.skb
      BY <2>1, <3>1 DEF SkbOwnership
    <3>7. (InSlots \subseteq Region(Uncleaned, next_to_use) \cup
                       (IF xpc = "queue" THEN {LastSlot} ELSE {}))'
      BY <2>14 DEF SkbsInRing, Queued
    <3> QED BY <2>1, <3>4, <3>5, <3>6, <3>7 DEF SkbOwnership
  <2> QED BY <2>14, <2>15, <2>16, <2>17, <2>18
<1> QED BY <1>1, <1>2 DEF CleanStep

\* The adapter, the watchdog and the resets: only a reset, alone in the ring, lets go
\* of skbs.
LEMMA OtherStepOwn ==
  ASSUME IInv, OwnInv,
         HwTransmit \/ (\E link \in BOOLEAN : Watchdog(link)) \/ PrintHang \/ TxTimeout
           \/ ResetStep
  PROVE  OwnInv'
<1> USE DEF OwnInv
<1>1. ASSUME HwTransmit \/ (\E link \in BOOLEAN : Watchdog(link)) \/ PrintHang \/ TxTimeout
             \/ ResetStart \/ ResetStop \/ ResetIrqOff \/ ResetSync \/ ResetUp \/ ResetQueue
      PROVE  OwnInv'
  <2>1. /\ UNCHANGED <<next_to_use, next_to_clean, buffer_info, tdt, cpc, ci, xpc, frame, owned>>
        /\ desc' = desc \/ (HwTransmit /\ desc' = [desc EXCEPT ![tdh].dd = TRUE])
    BY <1>1 DEF HwTransmit, Watchdog, PrintHang, TxTimeout, ResetStart, ResetStop,
                ResetIrqOff, ResetSync, ResetUp, ResetQueue, ring, hw, clean, xmit, ghosts
  <2>2. \A i \in Slots : desc'[i].rs = desc[i].rs
    BY <2>1 DEF IInv, IndexTypes
  <2>3. UNCHANGED <<InSlots, Queued, Uncleaned>> /\ EndsMarked' /\ FramesEnd'
    BY <2>1, <2>2, FramesKept DEF Uncleaned
  <2>4. SkbsInRing' /\ FrameInHand'
    BY <2>1, <2>3
       DEF SkbsInRing, FrameInHand, LastSlot, DataFrom, First, Fwd, Region, Dist, Slots
  <2>5. SkbOwnership'
    BY <2>1, <2>3, <2>4 DEF SkbsInRing, SkbOwnership, Queued
  <2> QED BY <2>3, <2>4, <2>5
<1>2. CASE ResetClean
  <2>1. /\ UNCHANGED <<xpc, frame, cpc, ci>> /\ xpc = "idle" /\ cpc = "idle"
        /\ next_to_use' = 0 /\ next_to_clean' = 0
        /\ buffer_info' = [i \in Slots |-> FreeBuffer]
        /\ owned' = owned \ {buffer_info[i].skb : i \in Slots}
    BY <1>2 DEF ResetClean, xmit, clean, IInv, ResetAlone
  <2>2. Queued' = {} /\ InSlots' = {}
    BY <2>1 DEF Queued, InSlots, Uncleaned, Region, Dist, Slots, FreeBuffer
  <2>3. owned' = {}
    BY <2>1 DEF SkbOwnership, InSlots, FrameInHand
  <2>4. frame'.skb = NoSkb
    BY <2>1 DEF FrameInHand
  <2> QED BY <2>1, <2>2, <2>3, <2>4
          DEF SkbsInRing, EndsMarked, FramesEnd, FrameInHand, SkbOwnership
<1> QED BY <1>1, <1>2 DEF ResetStep

LEMMA StutterOwn == OwnInv /\ UNCHANGED vars => OwnInv'
<1> SUFFICES ASSUME OwnInv, UNCHANGED vars PROVE OwnInv'
  OBVIOUS
<1>1. UNCHANGED <<next_to_use, next_to_clean, buffer_info, desc, tdt, cpc, ci, xpc, frame, owned>>
  BY DEF vars, ring, hw, clean, xmit, ghosts
<1> QED BY <1>1
        DEF OwnInv, SkbsInRing, EndsMarked, FramesEnd, FrameInHand, SkbOwnership, Queued,
            InSlots, Uncleaned, LastSlot, DataFrom, First, Fwd, Region, Dist, Slots

LEMMA OwnInductive == Spec => [](IInv /\ OwnInv)
<1>1. Init => OwnInv
  BY InitOwn
<1>2. IInv /\ OwnInv /\ [Next]_vars => OwnInv'
  BY XmitStepOwn, CleanStepOwn, OtherStepOwn, StutterOwn DEF Next
<1> QED BY <1>1, <1>2, Inductive, PTL DEF Spec

\* Every skb the driver was given is held in exactly one place until it is sent,
\* refused, dropped or flushed, in every instance of the ring: with frames that fail
\* to be mapped, lost tail writes, and resets at any moment.
THEOREM SkbsHaveOneOwner == Spec => []SkbOwnership
<1>1. OwnInv => SkbOwnership
  BY DEF OwnInv
<1> QED BY <1>1, OwnInductive, PTL

\* Whatever the adapter may still fetch is part of a frame whose skb the driver still
\* holds: no order of the steps of xmit, clean and reset frees a buffer under DMA.
THEOREM NothingFreedUnderDma == Spec => []AdapterReadsLiveFrames
<1>1. IInv /\ OwnInv => AdapterReadsLiveFrames
  <2> SUFFICES ASSUME IInv, OwnInv, NEW i \in Region(tdh, next_to_use)
               PROVE  /\ \E j \in Region(i, next_to_use) : desc[j].rs
                      /\ buffer_info[EndOf(i)].skb \in owned
    BY DEF AdapterReadsLiveFrames
  <2> DEFINE at(x) == Dist(next_to_clean, x)
  <2>1. /\ next_to_use \in Slots /\ next_to_clean \in Slots /\ tdt \in Slots /\ tdh \in Slots
        /\ i \in Slots /\ Uncleaned \in Slots
        /\ at(Uncleaned) <= at(tdh) /\ at(tdh) <= at(tdt) /\ at(tdt) <= at(next_to_use)
    BY DEF IInv, IndexTypes, Region, Uncleaned, RingOrder
  <2>2. \A x \in Slots : at(x) \in 0..(Count - 1)
    BY <2>1, DistRange
  <2>3. at(Uncleaned) <= at(i) /\ at(i) < at(next_to_use)
    <3>1. at(tdh) <= at(next_to_use)
      BY <2>1, <2>2
    <3>2. at(tdh) <= at(i) /\ at(i) < at(next_to_use)
      BY <2>1, <3>1, RegionAt
    <3> QED BY <2>1, <2>2, <3>2
  <2>4. i \in Queued
    BY <2>1, <2>3, QueuedAt
  <2>5. PICK j \in Region(i, next_to_use) : desc[j].rs /\ \A k \in Region(i, j) : ~desc[k].rs
    BY <2>4 DEF OwnInv, FramesEnd
  <2>6. EndOf(i) \in Region(i, next_to_use) /\ desc[EndOf(i)].rs
    BY <2>5 DEF EndOf
  <2>7. EndOf(i) \in Slots
    BY <2>6 DEF Region
  <2>8. at(i) <= at(EndOf(i)) /\ at(EndOf(i)) < at(next_to_use)
    BY <2>1, <2>2, <2>3, <2>6, <2>7, RegionAt
  <2>9. EndOf(i) \in Queued
    BY <2>1, <2>2, <2>3, <2>7, <2>8, QueuedAt
  <2>10. EndOf(i) \in InSlots
    BY <2>6, <2>7, <2>9 DEF OwnInv, EndsMarked, InSlots
  <2> QED BY <2>5, <2>10 DEF OwnInv, SkbOwnership, InSlots
<1> QED BY <1>1, OwnInductive, PTL

-----------------------------------------------------------------------------
(* The types of what the invariants above do not mention.                  *)

Flags == {txen, stopped, down, carrier, batch, detect_tx_hung, tx_hang_recheck,
          print_hang, reset_task}

RestTypes ==
  /\ Flags \subseteq BOOLEAN
  /\ cpc \in {"idle", "scan", "publish", "wake", "waking", "hang"}
  /\ rpc \in {"run", "stop", "drain", "sync", "quiet", "clean", "start"}
  /\ ccount \in Nat /\ cbql \in Nat
  /\ linkLoss \in 0..MaxLinkLoss /\ sent \in Nat
  /\ owned \subseteq Skbs /\ mapped \in Int /\ bql \in Int

LEMMA SlotsFinite == IsFiniteSet(Slots)
BY FS_Interval, RingAssumption DEF Slots

LEMMA MappedInType ==
  ASSUME NEW S \in SUBSET Slots
  PROVE  MappedIn(S) \in Nat
<1>1. IsFiniteSet({i \in S : buffer_info[i].dma})
  BY SlotsFinite, FS_Subset
<1> QED BY <1>1, FS_CardinalityType DEF MappedIn

LEMMA FlagsStep == Flags \subseteq BOOLEAN /\ [Next]_vars => Flags' \subseteq BOOLEAN
<1> SUFFICES ASSUME Flags \subseteq BOOLEAN, [Next]_vars PROVE Flags' \subseteq BOOLEAN
  OBVIOUS
<1> USE DEF Flags, vars, hw, xmit, hang, reset
<1>1. CASE UNCHANGED vars \/ CleanStart \/ CleanStep \/ HwTransmit \/ PrintHang \/ TxTimeout
  BY <1>1 DEF CleanStart, CleanStep, CleanFrame, CleanScanEnd, CleanPublish, CleanWake,
              CleanWaking, CleanHang, HwTransmit, PrintHang, TxTimeout
<1>2. CASE Stack \/ XmitStep
  BY <1>2 DEF Stack, XmitDrop, XmitStart, XmitStep, XmitRecheck, XmitTsoError, XmitMap,
              XmitMapError, XmitQueue, XmitRoom, XmitReroom, XmitTail, UpdateTail, More
<1>3. CASE ResetStep \/ \E link \in BOOLEAN : Watchdog(link)
  BY <1>3 DEF ResetStep, ResetStart, ResetStop, ResetIrqOff, ResetSync, ResetClean, ResetUp,
              ResetQueue, Watchdog
<1> QED BY <1>1, <1>2, <1>3 DEF Next

LEMMA TypesStep ==
  ASSUME IInv, RestTypes, [Next]_vars
  PROVE  RestTypes'
<1> USE DEF RestTypes
<1>0. Flags' \subseteq BOOLEAN
  BY FlagsStep
<1> USE <1>0
<1>1. CASE UNCHANGED vars
  BY <1>1 DEF vars, hw, xmit, clean, hang, reset, ghosts, bounds
<1>2. CASE Stack
  BY <1>2 DEF Stack, XmitDrop, XmitStart, More, hw, clean, hang, reset, ghosts, bounds
<1>3. CASE XmitStep
  <2>1. CASE XmitRecheck \/ XmitQueue \/ XmitRoom \/ XmitReroom
    BY <2>1 DEF XmitRecheck, XmitQueue, XmitRoom, XmitReroom, hw, clean, hang, reset, ghosts,
                bounds
  <2>5. CASE XmitTsoError
    BY <2>5 DEF XmitTsoError, More, hw, clean, hang, reset, bounds
  <2>2. CASE XmitMap
    BY <2>2 DEF XmitMap, IInv, IndexTypes, Frame, hw, clean, hang, reset, bounds
  <2>3. ASSUME NEW good \in 0..Count, XmitMapError(good) PROVE RestTypes'
    BY <2>3 DEF XmitMapError, More, hw, clean, hang, reset, bounds
  <2>4. ASSUME NEW more \in More, XmitTail(more) PROVE RestTypes'
    BY <2>4 DEF XmitTail, UpdateTail, More, clean, hang, ghosts, bounds
  <2> QED BY <1>3, <2>1, <2>2, <2>3, <2>4, <2>5 DEF XmitStep
<1>4. CASE CleanStart
  BY <1>4 DEF CleanStart, ring, hw, xmit, hang, reset, ghosts, bounds
<1>5. CASE CleanStep
  <2>1. CASE CleanFrame
    <3>1. Freed \in SUBSET Slots
      BY DEF Freed
    <3>2. mapped' = mapped - MappedIn(Freed) /\ owned' \subseteq owned
      BY <2>1, FreedAt
    <3>3. Dist(ci, ceop) + 1 \in Nat
      BY DistRange, RingAssumption DEF IInv, IndexTypes
    <3> QED BY <2>1, <3>1, <3>2, <3>3, MappedInType
            DEF CleanFrame, Completes, hw, xmit, hang, reset, bounds
  <2>2. CASE CleanScanEnd \/ CleanPublish \/ CleanWake \/ CleanWaking
    BY <2>2 DEF CleanScanEnd, CleanPublish, CleanWake, CleanWaking, hw, xmit, clean, hang,
                reset, ghosts, bounds
  <2>3. ASSUME NEW late \in BOOLEAN, CleanHang(late) PROVE RestTypes'
    BY <2>3 DEF CleanHang, hw, xmit, reset, ghosts, bounds
  <2> QED BY <1>5, <2>1, <2>2, <2>3 DEF CleanStep
<1>6. CASE HwTransmit \/ PrintHang \/ TxTimeout
  BY <1>6 DEF HwTransmit, PrintHang, TxTimeout, hw, xmit, clean, hang, reset, ghosts, bounds
<1>7. ASSUME NEW link \in BOOLEAN, Watchdog(link) PROVE RestTypes'
  <2>1. linkLoss' \in 0..MaxLinkLoss
    BY <1>7, RingAssumption DEF Watchdog
  <2> QED BY <1>7, <2>1 DEF Watchdog, xmit, clean, ghosts
<1>8. CASE ResetStep
  <2>1. CASE ResetClean
    BY <2>1, MappedInType DEF ResetClean, xmit, clean, hang
  <2>2. CASE ResetStart \/ ResetStop \/ ResetIrqOff \/ ResetSync \/ ResetUp \/ ResetQueue
    BY <2>2 DEF ResetStart, ResetStop, ResetIrqOff, ResetSync, ResetUp, ResetQueue, hw, xmit,
                clean, hang, reset, ghosts, bounds
  <2> QED BY <1>8, <2>1, <2>2 DEF ResetStep
<1> QED BY <1>1, <1>2, <1>3, <1>4, <1>5, <1>6, <1>7, <1>8 DEF Next

LEMMA TypesInductive == Spec => []RestTypes
<1>1. Init => RestTypes
  <2>1. 0 \in 0..MaxLinkLoss /\ {} \subseteq Skbs
    BY RingAssumption
  <2>2. Init => Flags \subseteq BOOLEAN
    BY Zenon DEF Init, Flags
  <2> QED BY <2>1, <2>2 DEF Init, RestTypes
<1>2. IInv /\ RestTypes /\ [Next]_vars => RestTypes'
  BY TypesStep
<1> QED BY <1>1, <1>2, Inductive, PTL DEF Spec

\* Every index stays in the ring and every variable in its type.
THEOREM TypeCorrect == Spec => []TypeOK
<1>1. IInv /\ OwnInv /\ RestTypes => TypeOK
  BY DEF IInv, IndexTypes, OwnInv, FrameInHand, RestTypes, Flags, TypeOK, Buffer, Frame
<1> QED BY <1>1, OwnInductive, TypesInductive, PTL

-----------------------------------------------------------------------------
(* The accounts: DMA mappings and frames reported to the queue limits.     *)

\* netdev_completed_queue is told of no frame before its skb is gone, whatever the
\* cleaner has counted and not reported yet.
BqlInv ==
  /\ bql - cbql >= Cardinality(InSlots) - (IF xpc = "queue" THEN 1 ELSE 0)
  /\ cpc \notin {"scan", "publish"} => cbql = 0

LEMMA InSlotsFinite == IsFiniteSet(InSlots) /\ Cardinality(InSlots) \in Nat
<1>1. InSlots \subseteq Slots
  BY DEF InSlots
<1> QED BY <1>1, SlotsFinite, FS_Subset, FS_CardinalityType

LEMMA SkbsKept ==
  ASSUME \A i \in Slots : buffer_info'[i].skb = buffer_info[i].skb
  PROVE  UNCHANGED InSlots
BY DEF InSlots

LEMMA BqlStep ==
  ASSUME IInv, OwnInv, RestTypes, BqlInv, [Next]_vars
  PROVE  BqlInv'
<1> USE DEF BqlInv
<1>0. bql \in Int /\ cbql \in Nat /\ Cardinality(InSlots) \in Nat /\ IsFiniteSet(InSlots)
  BY InSlotsFinite DEF RestTypes
<1>1. CASE UNCHANGED vars
  <2>1. UNCHANGED <<buffer_info, bql, cbql, cpc, xpc>>
    BY <1>1 DEF vars, ring, xmit, clean, ghosts
  <2> QED BY <2>1 DEF InSlots
<1>2. CASE Stack \/ XmitRecheck \/ XmitTsoError \/ XmitRoom \/ XmitReroom
  <2>1. UNCHANGED <<buffer_info, bql, cbql, cpc>> /\ xpc # "queue" /\ xpc' # "queue"
    BY <1>2 DEF Stack, XmitDrop, XmitStart, XmitRecheck, XmitTsoError, XmitRoom, XmitReroom, ring,
                clean, ghosts
  <2> QED BY <2>1 DEF InSlots
<1>3. CASE XmitMap
  <2>1. UNCHANGED <<bql, cbql, cpc>> /\ xpc = "map" /\ xpc' = "queue"
    BY <1>3 DEF XmitMap, clean
  <2>2. Cardinality(InSlots') = Cardinality(InSlots) + 1
    BY <1>0, <1>3, MapAddsSkb, FS_AddElement
  <2> QED BY <1>0, <2>1, <2>2
<1>4. ASSUME NEW good \in 0..Count, XmitMapError(good) PROVE BqlInv'
  <2>1. UNCHANGED <<bql, cbql, cpc>> /\ xpc = "map" /\ xpc' = "idle"
    BY <1>4 DEF XmitMapError, clean
  <2>2. UNCHANGED InSlots
    BY <1>4, MapErrorKeepsSkbs, SkbsKept
  <2> QED BY <2>1, <2>2
<1>5. CASE XmitQueue
  <2>1. /\ UNCHANGED <<buffer_info, cbql, cpc>> /\ xpc = "queue" /\ xpc' = "room"
        /\ bql' = bql + 1
    BY <1>5 DEF XmitQueue, clean
  <2>2. UNCHANGED InSlots
    BY <2>1 DEF InSlots
  <2> QED BY <1>0, <2>1, <2>2
<1>6. ASSUME NEW more \in More, XmitTail(more) PROVE BqlInv'
  <2>1. UNCHANGED <<buffer_info, bql, cbql, cpc>> /\ xpc # "queue" /\ xpc' # "queue"
    BY <1>6 DEF XmitTail, ring, clean, ghosts
  <2> QED BY <2>1 DEF InSlots
<1>7. CASE CleanFrame
  <2>1. /\ UNCHANGED <<xpc, bql>> /\ cpc = "scan" /\ cpc' \in {"scan", "publish"}
        /\ cbql' = cbql + Completes(ceop)
    BY <1>7 DEF CleanFrame, xmit
  <2>6. \A i \in Slots : /\ i \in Freed => buffer_info'[i].skb = NoSkb
                         /\ i \notin Freed => buffer_info'[i] = buffer_info[i]
    <3>1. buffer_info' = [i \in Slots |-> IF i \in Freed THEN PutTxbuf(buffer_info[i])
                                                         ELSE buffer_info[i]]
      BY <1>7, FreedAt
    <3> QED BY <3>1 DEF PutTxbuf, IInv, IndexTypes, Buffer
  <2>2. InSlots' \subseteq InSlots
    <3>1. \A i \in Slots : buffer_info'[i].skb # NoSkb => buffer_info[i].skb # NoSkb
      BY <2>6
    <3> QED BY <3>1 DEF InSlots
  <2>3. ceop \notin InSlots'
    <3>1. ceop \in Slots /\ Dist(ci, ceop) \in 0..(Count - 1)
      BY DistRange DEF IInv, IndexTypes
    <3>2. ceop \in Freed
      BY <3>1, RingAssumption DEF Freed
    <3>3. buffer_info'[ceop].skb = NoSkb
      BY <2>6, <3>1, <3>2
    <3> QED BY <3>3 DEF InSlots
  <2>4. Cardinality(InSlots') <= Cardinality(InSlots) - Completes(ceop) /\ Cardinality(InSlots') \in Nat
    <3>1. InSlots' \in SUBSET (InSlots \ {ceop})
      BY <2>2, <2>3
    <3>2. /\ IsFiniteSet(InSlots \ {ceop})
          /\ Cardinality(InSlots \ {ceop}) = IF ceop \in InSlots THEN Cardinality(InSlots) - 1
                                                                ELSE Cardinality(InSlots)
      BY <1>0, FS_RemoveElement
    <3>3. /\ Cardinality(InSlots') <= Cardinality(InSlots \ {ceop})
          /\ IsFiniteSet(InSlots')
      BY <3>1, <3>2, FS_Subset
    <3>4. Completes(ceop) = IF ceop \in InSlots THEN 1 ELSE 0
      BY DEF Completes, InSlots, IInv, IndexTypes
    <3>5. Cardinality(InSlots') \in Nat
      BY <3>3, FS_CardinalityType
    <3> QED BY <1>0, <3>2, <3>3, <3>4, <3>5
  <2>5. Completes(ceop) \in 0..1
    BY DEF Completes
  <2> QED BY <1>0, <2>1, <2>4, <2>5
<1>8. ASSUME CleanStart \/ CleanScanEnd \/ CleanPublish \/ CleanWake \/ CleanWaking
             \/ \E late \in BOOLEAN : CleanHang(late)
      PROVE  BqlInv'
  <2>1. UNCHANGED <<buffer_info, xpc>>
    BY <1>8 DEF CleanStart, CleanScanEnd, CleanPublish, CleanWake, CleanWaking, CleanHang,
                ring, xmit
  <2>2. UNCHANGED InSlots
    BY <2>1 DEF InSlots
  <2>3. CASE CleanStart
    BY <1>0, <2>1, <2>2, <2>3 DEF CleanStart, ghosts
  <2>4. CASE CleanPublish
    BY <1>0, <2>1, <2>2, <2>4 DEF CleanPublish
  <2>5. ASSUME CleanScanEnd \/ CleanWake \/ CleanWaking \/ \E late \in BOOLEAN : CleanHang(late)
        PROVE  BqlInv'
    <3>1. /\ UNCHANGED <<bql, cbql>>
          /\ cpc' \notin {"scan", "publish"} => cpc \notin {"scan", "publish"}
      BY <2>5 DEF CleanScanEnd, CleanWake, CleanWaking, CleanHang, ghosts, clean
    <3> QED BY <2>1, <2>2, <3>1
  <2> QED BY <1>8, <2>3, <2>4, <2>5
<1>9. ASSUME HwTransmit \/ (\E link \in BOOLEAN : Watchdog(link)) \/ PrintHang \/ TxTimeout
             \/ ResetStart \/ ResetStop \/ ResetIrqOff \/ ResetSync \/ ResetUp \/ ResetQueue
      PROVE  BqlInv'
  <2>1. UNCHANGED <<buffer_info, bql, cbql, cpc, xpc>>
    BY <1>9 DEF HwTransmit, Watchdog, PrintHang, TxTimeout, ResetStart, ResetStop,
                ResetIrqOff, ResetSync, ResetUp, ResetQueue, ring, clean, xmit, ghosts
  <2> QED BY <2>1 DEF InSlots
<1>10. CASE ResetClean
  <2>1. UNCHANGED <<cpc, xpc, cbql>> /\ cpc = "idle" /\ xpc = "idle" /\ bql' = 0
        /\ buffer_info' = [i \in Slots |-> FreeBuffer]
    BY <1>10 DEF ResetClean, clean, xmit, IInv, ResetAlone
  <2>2. Cardinality(InSlots') = 0
    BY <2>1, FS_EmptySet DEF InSlots, FreeBuffer
  <2> QED BY <2>1, <2>2
<1> QED BY <1>1, <1>2, <1>3, <1>4, <1>5, <1>6, <1>7, <1>8, <1>9, <1>10
        DEF Next, XmitStep, CleanStep, ResetStep

LEMMA BqlInductive == Spec => []BqlInv
<1>1. Init => BqlInv
  <2> SUFFICES ASSUME Init PROVE BqlInv
    OBVIOUS
  <2>1. InSlots = {}
    BY DEF Init, InSlots, FreeBuffer
  <2> QED BY <2>1, FS_EmptySet DEF Init, BqlInv
<1>2. IInv /\ OwnInv /\ RestTypes /\ BqlInv /\ [Next]_vars => BqlInv'
  BY BqlStep
<1> QED BY <1>1, <1>2, OwnInductive, TypesInductive, PTL DEF Spec

\* The data descriptors of a frame are as many as it has pieces.
LEMMA PieceCount ==
  ASSUME NEW a \in Slots, NEW lo \in Nat, NEW n \in Nat, lo + n <= Count
  PROVE  LET P == {i \in Slots : lo <= Dist(a, i) /\ Dist(a, i) < lo + n}
         IN  IsFiniteSet(P) /\ Cardinality(P) = n
<1> DEFINE P == {i \in Slots : lo <= Dist(a, i) /\ Dist(a, i) < lo + n}
           f == [k \in lo..(lo + n - 1) |-> Fwd(a, k)]
<1>1. \A k \in lo..(lo + n - 1) : Fwd(a, k) \in Slots /\ Dist(a, Fwd(a, k)) = k
  BY RingAssumption DEF Fwd, Dist, Slots
<1>2. \A i \in Slots : Dist(a, i) \in Nat /\ Fwd(a, Dist(a, i)) = i
  BY RingAssumption DEF Fwd, Dist, Slots
<1>3. f \in [lo..(lo + n - 1) -> P]
  BY <1>1
<1>4. \A j, k \in lo..(lo + n - 1) : f[j] = f[k] => j = k
  BY <1>1
<1>5. \A i \in P : \E k \in lo..(lo + n - 1) : f[k] = i
  <2> TAKE i \in P
  <2>1. Dist(a, i) \in lo..(lo + n - 1)
    BY <1>2
  <2> QED BY <1>2, <2>1
<1>6. ExistsBijection(lo..(lo + n - 1), P)
  BY <1>3, <1>4, <1>5
     DEF ExistsBijection, Bijection, Injection, Surjection, IsInjective
<1>7. IsFiniteSet(lo..(lo + n - 1)) /\ Cardinality(lo..(lo + n - 1)) = n
  BY FS_Interval
<1> QED BY <1>6, <1>7, FS_Bijection

MappedSlots == {i \in Slots : buffer_info[i].dma}
Taken       == {i \in Slots : Dist(next_to_use, i) < frame.ctx + frame.n}

\* Where no mapping fails every mapping is recorded in a slot still in use.
MapsInv ==
  /\ mapped = Cardinality(MappedSlots)
  /\ MappedSlots \subseteq Queued \cup (IF xpc = "queue" THEN Taken ELSE {})

LEMMA MapWritesDma ==
  ASSUME IInv, XmitMap, NEW i \in Slots, LastSlot \in Slots
  PROVE  buffer_info'[i].dma <=>
           \/ buffer_info[i].dma
           \/ frame.ctx <= Dist(next_to_use, i) /\ Dist(next_to_use, i) < frame.ctx + frame.n
<1> DEFINE k == Dist(First, i)
           b == IF k < frame.ctx THEN TouchedCtx(buffer_info[i], i)
                ELSE IF k < frame.ctx + frame.n THEN TouchedData(buffer_info[i], i)
                ELSE buffer_info[i]
           c == IF i = LastSlot THEN [b EXCEPT !.skb = frame.skb] ELSE b
<1>1. /\ buffer_info[i] \in Buffer /\ frame.skb \in Skbs \cup {NoSkb} /\ k \in Nat
      /\ frame.ctx \in Nat /\ frame.n \in Nat
  BY DistRange DEF IInv, IndexTypes, Frame, First
<1>2. b \in Buffer /\ (b.dma <=> buffer_info[i].dma \/ (frame.ctx <= k /\ k < frame.ctx + frame.n))
  <2>1. CASE k < frame.ctx
    <3>1. b = TouchedCtx(buffer_info[i], i) /\ ~(frame.ctx <= k)
      BY <1>1, <2>1
    <3> QED BY <1>1, <3>1 DEF Buffer, TouchedCtx
  <2>2. CASE ~(k < frame.ctx) /\ k < frame.ctx + frame.n
    <3>1. b = TouchedData(buffer_info[i], i) /\ frame.ctx <= k
      BY <1>1, <2>2
    <3> QED BY <1>1, <2>2, <3>1 DEF Buffer, TouchedData
  <2>3. CASE ~(k < frame.ctx + frame.n)
    <3>1. b = buffer_info[i]
      BY <1>1, <2>3
    <3> QED BY <1>1, <2>3, <3>1
  <2> QED BY <2>1, <2>2, <2>3
<1> HIDE DEF b
<1>3. c \in Buffer /\ c.dma = b.dma
  BY <1>1, <1>2 DEF Buffer
<1>4. buffer_info'[i] = IF i = First THEN [c EXCEPT !.watch = LastSlot] ELSE c
  BY DEF XmitMap, b
<1> HIDE DEF c
<1> QED BY <1>2, <1>3, <1>4 DEF Buffer, First

LEMMA QueueGrows ==
  ASSUME IInv, XmitQueue
  PROVE  Queued' = Queued \cup Taken
<1> DEFINE k == frame.ctx + frame.n
           at(i) == Dist(next_to_clean, i)
<1>0. next_to_use \in Slots /\ next_to_clean \in Slots /\ Uncleaned \in Slots
  BY QueuedAt DEF IInv, IndexTypes
<1>1. /\ next_to_use' = Fwd(next_to_use, k) /\ Uncleaned' = Uncleaned
      /\ k \in 1..Count /\ at(next_to_use) + k < Count
      /\ \A i \in Slots : Dist(next_to_use, i) < k <=>
           at(next_to_use) <= at(i) /\ at(i) < at(next_to_use) + k
  BY FrameAt DEF XmitQueue, First, Uncleaned, clean
<1>2. Taken = {i \in Slots : Dist(next_to_use, i) < k}
  BY DEF Taken
<1> HIDE DEF k
<1>3. next_to_use' \in Slots /\ at(next_to_use') = at(next_to_use) + k
  BY <1>0, <1>1, FwdInSlots, DistFwd, RingAssumption
<1>4. \A i \in Slots : at(i) \in 0..(Count - 1)
  BY <1>0, DistRange
<1>5. at(Uncleaned) <= at(next_to_use)
  BY <1>0, <1>4 DEF IInv, RingOrder, IndexTypes
<1>6. Queued' = Region(Uncleaned, next_to_use') /\ Queued' \subseteq Slots /\ Queued \subseteq Slots
  BY <1>1 DEF Queued, Region, Dist, Slots
<1>7. \A i \in Slots : /\ i \in Queued' <=> at(Uncleaned) <= at(i) /\ at(i) < at(next_to_use')
                       /\ i \in Queued <=> at(Uncleaned) <= at(i) /\ at(i) < at(next_to_use)
  <2>1. at(Uncleaned) <= at(next_to_use')
    BY <1>0, <1>1, <1>3, <1>4, <1>5
  <2> QED BY <1>0, <1>3, <1>6, <2>1, RegionAt, QueuedAt
<1>8. \A i \in Slots : i \in Queued' <=> i \in Queued \/ i \in Taken
  BY <1>0, <1>1, <1>2, <1>3, <1>4, <1>5, <1>7
<1>9. Taken \subseteq Slots
  BY <1>2
<1> QED BY <1>6, <1>8, <1>9

LEMMA MapsStep ==
  ASSUME ~FramesMayFail, IInv, OwnInv, RestTypes, MapsInv, [Next]_vars
  PROVE  MapsInv'
<1> USE DEF MapsInv
<1>0. /\ IsFiniteSet(MappedSlots) /\ Cardinality(MappedSlots) \in Nat /\ mapped \in Int
      /\ MappedSlots \subseteq Slots
  BY SlotsFinite, FS_Subset, FS_CardinalityType DEF MappedSlots, RestTypes
<1>1. ASSUME UNCHANGED <<buffer_info, mapped, next_to_use, Uncleaned>>,
             xpc' = "queue" <=> xpc = "queue", xpc = "queue" => UNCHANGED frame
      PROVE  MapsInv'
  <2>1. UNCHANGED <<MappedSlots, Queued>>
    BY <1>1 DEF MappedSlots, Queued, Region, Dist, Slots
  <2>2. xpc = "queue" => UNCHANGED Taken
    BY <1>1 DEF Taken, Dist, Slots
  <2> QED BY <1>1, <2>1, <2>2
<1>2. CASE UNCHANGED vars
  BY <1>1, <1>2 DEF vars, ring, xmit, clean, ghosts, Uncleaned
<1>3. CASE Stack \/ XmitRecheck \/ XmitRoom \/ XmitReroom \/ \E more \in More : XmitTail(more)
  BY <1>1, <1>3 DEF Stack, XmitDrop, XmitStart, XmitRecheck, XmitRoom, XmitReroom, XmitTail,
                    ring, clean, ghosts, Uncleaned
<1>4. CASE XmitMap
  <2> DEFINE Data == {i \in Slots : /\ frame.ctx <= Dist(next_to_use, i)
                                    /\ Dist(next_to_use, i) < frame.ctx + frame.n}
  <2>1. /\ xpc = "map" /\ xpc' = "queue" /\ mapped' = mapped + frame.n
        /\ UNCHANGED <<next_to_use, Uncleaned, frame>>
    BY <1>4 DEF XmitMap, clean, Uncleaned
  <2>2. UNCHANGED <<Queued, Taken>>
    BY <2>1 DEF Queued, Taken, Region, Dist, Slots
  <2>3. next_to_use \in Slots /\ next_to_clean \in Slots /\ frame.ctx \in Nat /\ frame.n \in Nat
        /\ frame.ctx + frame.n <= Count
    BY <2>1, FrameAt DEF IInv, IndexTypes, Frame
  <2>4. MappedSlots' = MappedSlots \cup Data
    BY <1>4, <2>1, FrameAt, MapWritesDma DEF MappedSlots
  <2>5. Data \subseteq Taken /\ Taken \cap Queued = {}
    <3>1. \A i \in Taken : Dist(next_to_clean, i) >= Dist(next_to_clean, next_to_use)
      BY <2>1, <2>3, FrameAt, DistRange DEF Taken
    <3>2. \A i \in Queued : Dist(next_to_clean, i) < Dist(next_to_clean, next_to_use) /\ i \in Slots
      BY QueuedAt
    <3>3. \A i \in Slots : Dist(next_to_clean, i) \in Nat
      BY <2>3, DistRange
    <3> QED BY <2>3, <3>1, <3>2, <3>3 DEF Taken
  <2>6. MappedSlots \cap Data = {}
    BY <2>1, <2>5
  <2>7. IsFiniteSet(Data) /\ Cardinality(Data) = frame.n
    BY <2>3, PieceCount
  <2> HIDE DEF Data
  <2>8. Cardinality(MappedSlots') = Cardinality(MappedSlots) + frame.n
    <3>1. Cardinality(MappedSlots \cup Data)
            = Cardinality(MappedSlots) + Cardinality(Data) - Cardinality(MappedSlots \cap Data)
      BY <1>0, <2>7, FS_Union
    <3>2. Cardinality(MappedSlots \cap Data) = 0
      BY <2>6, FS_EmptySet
    <3> QED BY <1>0, <2>3, <2>4, <2>7, <3>1, <3>2
  <2> QED BY <2>1, <2>2, <2>4, <2>5, <2>8
<1>5. CASE XmitQueue
  <2>1. xpc = "queue" /\ xpc' = "room" /\ UNCHANGED <<buffer_info, mapped>>
    BY <1>5 DEF XmitQueue
  <2>2. UNCHANGED MappedSlots
    BY <2>1 DEF MappedSlots
  <2> QED BY <1>5, <2>1, <2>2, QueueGrows
<1>6. CASE CleanFrame
  <2>1. UNCHANGED <<xpc, Taken>>
    BY <1>6 DEF CleanFrame, xmit, Taken, Dist, Slots
  <2>2. /\ Queued' = Queued \ Freed /\ mapped' = mapped - MappedIn(Freed)
        /\ buffer_info' = [i \in Slots |-> IF i \in Freed THEN PutTxbuf(buffer_info[i])
                                                         ELSE buffer_info[i]]
    BY <1>6, FreedAt
  <2>3. MappedSlots' = MappedSlots \ Freed
    BY <2>2 DEF MappedSlots, PutTxbuf, IInv, IndexTypes, Buffer
  <2>4. MappedIn(Freed) = Cardinality(MappedSlots \cap Freed)
    <3>1. {i \in Freed : buffer_info[i].dma} = MappedSlots \cap Freed
      BY DEF Freed, MappedSlots
    <3> QED BY <3>1 DEF MappedIn
  <2>5. Cardinality(MappedSlots') = Cardinality(MappedSlots) - Cardinality(MappedSlots \cap Freed)
    BY <1>0, <2>3, FS_Difference
  <2> QED BY <2>1, <2>2, <2>3, <2>4, <2>5
<1>7. CASE CleanStart \/ CleanScanEnd \/ CleanPublish \/ CleanWake \/ CleanWaking
           \/ \E late \in BOOLEAN : CleanHang(late)
  BY <1>1, <1>7 DEF CleanStart, CleanScanEnd, CleanPublish, CleanWake, CleanWaking, CleanHang,
                    ring, xmit, ghosts, Uncleaned
<1>8. CASE HwTransmit \/ (\E link \in BOOLEAN : Watchdog(link)) \/ PrintHang \/ TxTimeout
           \/ ResetStart \/ ResetStop \/ ResetIrqOff \/ ResetSync \/ ResetUp \/ ResetQueue
  BY <1>1, <1>8 DEF HwTransmit, Watchdog, PrintHang, TxTimeout, ResetStart, ResetStop,
                    ResetIrqOff, ResetSync, ResetUp, ResetQueue, ring, clean, xmit, ghosts,
                    Uncleaned
<1>9. CASE ResetClean
  <2>1. /\ xpc' = xpc /\ xpc = "idle" /\ mapped' = mapped - MappedIn(Slots)
        /\ buffer_info' = [i \in Slots |-> FreeBuffer]
    BY <1>9 DEF ResetClean, xmit, IInv, ResetAlone
  <2>2. MappedSlots' = {}
    BY <2>1 DEF MappedSlots, FreeBuffer
  <2>3. MappedIn(Slots) = Cardinality(MappedSlots)
    BY DEF MappedIn, MappedSlots
  <2> QED BY <1>0, <2>1, <2>2, <2>3, FS_EmptySet
<1> QED BY <1>2, <1>3, <1>4, <1>5, <1>6, <1>7, <1>8, <1>9
        DEF Next, XmitStep, CleanStep, ResetStep, XmitTsoError, XmitMapError

\* All accounts of a frame agree at all times: its skb in one place, its mappings
\* recorded where they will be undone, its completion not reported too early.  A
\* mapping refused half-way loses one (XmitMapError), so no frame may fail here.
THEOREM AccountsAgree ==
  ASSUME ~FramesMayFail
  PROVE  Spec => []SkbsAccounted
<1>1. Init => MapsInv
  <2> SUFFICES ASSUME Init PROVE MapsInv
    OBVIOUS
  <2>1. MappedSlots = {}
    BY DEF Init, MappedSlots, FreeBuffer
  <2> QED BY <2>1, FS_EmptySet DEF Init, MapsInv
<1>2. IInv /\ OwnInv /\ RestTypes /\ MapsInv /\ [Next]_vars => MapsInv'
  BY MapsStep
<1>3. IInv /\ OwnInv /\ RestTypes /\ BqlInv /\ MapsInv => SkbsAccounted
  <2> SUFFICES ASSUME IInv, OwnInv, RestTypes, BqlInv, MapsInv PROVE SkbsAccounted
    OBVIOUS
  <2>1. TypeOK
    BY DEF IInv, IndexTypes, OwnInv, FrameInHand, RestTypes, Flags, TypeOK, Buffer, Frame
  <2>2. MappingsBalanced
    BY DEF MapsInv, MappingsBalanced, MappedIn, MappedSlots
  <2>3. BqlCovers
    BY InSlotsFinite DEF BqlInv, BqlCovers, RestTypes
  <2> QED BY <2>1, <2>2, <2>3 DEF OwnInv, SkbsAccounted
<1> QED BY <1>1, <1>2, <1>3, OwnInductive, TypesInductive, BqlInductive, PTL DEF Spec

-----------------------------------------------------------------------------
(* The tail write that ends a batch.                                       *)

\* A tail that lags means a frame on its way to the ring, or, when the stack announces
\* frames, one it still holds or a reset that will clear the ring.
TailInv ==
  /\ rpc \in {"run", "start"} => ~down
  /\ rpc = "clean" => tdt = next_to_use
  /\ XmitMore =>
       (rpc \in {"run", "start"} /\ xpc = "idle" /\ ~batch => tdt = next_to_use)
  /\ ~XmitMore =>
       (xpc \in {"idle", "recheck", "map", "queue"} => tdt = next_to_use)

LEMMA TailStep ==
  ASSUME ~ArbiterWA, ~FramesMayFail \/ ~XmitMore, IInv, TailInv, [Next]_vars
  PROVE  TailInv'
<1> USE DEF TailInv
<1>1. ASSUME UNCHANGED <<rpc, xpc, batch, tdt, next_to_use, down>>
      PROVE  TailInv'
  BY <1>1
<1>2. CASE UNCHANGED vars
  BY <1>1, <1>2 DEF vars, ring, hw, xmit, reset
<1>3. CASE XmitDrop
  <2>1. UNCHANGED <<rpc, xpc, tdt, next_to_use, down>>
    BY <1>3 DEF XmitDrop, ring, hw, reset
  <2>2. down \/ FramesMayFail
    BY <1>3 DEF XmitDrop
  <2> QED BY <2>1, <2>2
<1>4. ASSUME NEW s \in Skbs, NEW sh \in Shapes, XmitStart(s, sh) PROVE TailInv'
  <2>1. UNCHANGED <<rpc, tdt, next_to_use, down>> /\ xpc = "idle" /\ xpc' \in {"map", "recheck"}
        /\ ~down
    BY <1>4 DEF XmitStart, ring, hw, reset
  <2> QED BY <2>1
<1>5. CASE XmitRecheck
  <2>1. UNCHANGED <<rpc, tdt, next_to_use, down>> /\ xpc = "recheck"
        /\ (xpc' = "map" \/ (xpc' = "idle" /\ batch'))
    BY <1>5 DEF XmitRecheck, ring, hw, reset
  <2> QED BY <2>1
<1>6. ASSUME XmitTsoError \/ \E good \in 0..Count : XmitMapError(good)
      PROVE  TailInv'
  <2>1. UNCHANGED <<rpc, tdt, next_to_use, down>> /\ xpc = "map" /\ xpc' = "idle" /\ FramesMayFail
    BY <1>6 DEF XmitTsoError, XmitMapError, ring, hw, reset
  <2> QED BY <2>1
<1>7. CASE XmitMap \/ XmitRoom \/ XmitReroom
  <2>1. UNCHANGED <<rpc, tdt, next_to_use, down>> /\ xpc # "idle"
        /\ \/ xpc = "map" /\ xpc' = "queue"
           \/ xpc' \in {"reroom", "tail"}
    BY <1>7 DEF XmitMap, XmitRoom, XmitReroom, ring, hw, reset
  <2> QED BY <2>1
<1>8. CASE XmitQueue
  <2>1. UNCHANGED <<rpc, tdt, down>> /\ xpc = "queue" /\ xpc' = "room"
    BY <1>8 DEF XmitQueue, hw, reset
  <2> QED BY <2>1 DEF IInv, ResetAlone
<1>9. ASSUME NEW more \in More, XmitTail(more) PROVE TailInv'
  <2>1. UNCHANGED <<rpc, next_to_use, down>> /\ xpc = "tail" /\ xpc' = "idle" /\ batch' = more
    BY <1>9 DEF XmitTail, ring
  <2>2. tdt' = next_to_use \/ (tdt' = tdt /\ more)
    BY <1>9 DEF XmitTail, TailDeferred, UpdateTail
  <2>3. more => XmitMore
    BY DEF More
  <2> QED BY <2>1, <2>2, <2>3 DEF IInv, ResetAlone
<1>10. CASE CleanStart \/ CleanStep \/ HwTransmit \/ PrintHang \/ TxTimeout
            \/ \E link \in BOOLEAN : Watchdog(link)
  BY <1>1, <1>10
     DEF CleanStart, CleanStep, CleanFrame, CleanScanEnd, CleanPublish, CleanWake, CleanWaking,
         CleanHang, HwTransmit, PrintHang, TxTimeout, Watchdog, ring, hw, xmit, reset
<1>11. CASE ResetStart \/ ResetStop \/ ResetIrqOff \/ ResetSync
  <2>1. UNCHANGED <<tdt, next_to_use, xpc, batch>> /\ rpc' \notin {"run", "start", "clean"}
    BY <1>11 DEF ResetStart, ResetStop, ResetIrqOff, ResetSync, ring, hw, xmit
  <2> QED BY <2>1
<1>12. CASE ResetClean
  <2>1. tdt' = 0 /\ next_to_use' = 0 /\ rpc' = "clean"
    BY <1>12 DEF ResetClean
  <2> QED BY <2>1
<1>13. CASE ResetUp \/ ResetQueue
  <2>1. /\ UNCHANGED <<tdt, next_to_use, xpc, batch>>
        /\ \/ rpc = "clean" /\ rpc' = "start" /\ ~down'
           \/ rpc = "start" /\ rpc' = "run" /\ down' = down
    BY <1>13 DEF ResetUp, ResetQueue, ring, hw, xmit
  <2> QED BY <2>1
<1> QED BY <1>2, <1>3, <1>4, <1>5, <1>6, <1>7, <1>8, <1>9, <1>10, <1>11, <1>12, <1>13
        DEF Next, Stack, XmitStep, ResetStep

\* With no frame in the stack's hands nothing waits in the ring for a tail write that
\* nobody will make, through batches, refusals of a full ring and resets, the link lost
\* or not.  The arbiter work-around may lose the write itself, and a frame that fails
\* at the end of a batch leaves the tail to the next one: each is assumed away.
THEOREM LastFrameIsSent ==
  ASSUME ~ArbiterWA, ~FramesMayFail \/ ~XmitMore
  PROVE  Spec => []LastFrameTails
<1>1. Init => TailInv
  BY DEF Init, TailInv
<1>2. IInv /\ TailInv /\ [Next]_vars => TailInv'
  BY TailStep
<1>3. TailInv => LastFrameTails
  BY RingAssumption DEF TailInv, LastFrameTails
<1> QED BY <1>1, <1>2, <1>3, Inductive, PTL DEF Spec

-----------------------------------------------------------------------------
(* The ring is a queue: TxFifo, under the mapping of TxRingFifo.           *)

\* From the moment a reset has stopped the transmitter until the device is up again
\* the adapter fetches nothing.
OffWhenHalted == rpc \in {"drain", "sync", "quiet", "clean"} => ~txen

LEMMA OffStep ==
  ASSUME IInv, OffWhenHalted, [Next]_vars
  PROVE  OffWhenHalted'
<1> USE DEF OffWhenHalted
<1>1. CASE Stack \/ XmitStep
  <2>1. rpc' = rpc /\ (txen' = txen \/ ~txen')
    BY <1>1 DEF Stack, XmitStep, XmitDrop, XmitStart, XmitRecheck, XmitTsoError, XmitMap,
                XmitQueue, XmitRoom, XmitReroom, XmitMapError, XmitTail, UpdateTail, hw, reset
  <2> QED BY <2>1
<1>2. CASE CleanStart \/ CleanStep
  BY <1>2 DEF CleanStart, CleanStep, CleanFrame, CleanScanEnd, CleanPublish, CleanWake,
              CleanWaking, CleanHang, hw, reset
<1>3. ASSUME NEW link \in BOOLEAN, Watchdog(link) PROVE OffWhenHalted'
  <2>1. ~down /\ UNCHANGED rpc
    BY <1>3 DEF Watchdog
  <2> QED BY <2>1 DEF IInv, ResetAlone
<1>4. CASE HwTransmit \/ PrintHang \/ TxTimeout \/ UNCHANGED vars
  BY <1>4 DEF HwTransmit, PrintHang, TxTimeout, vars, hw, reset
<1>5. CASE ResetStep
  BY <1>5 DEF ResetStep, ResetStart, ResetStop, ResetIrqOff, ResetSync, ResetClean, ResetUp,
              ResetQueue, hw
<1> QED BY <1>1, <1>2, <1>3, <1>4, <1>5 DEF Next

\* What the mapping reads.
LEMMA FifoTypes ==
  ASSUME IInv, OwnInv
  PROVE  /\ InSlots \subseteq Slots /\ Uncleaned \in Slots /\ tdh \in Slots
         /\ \A i \in Slots : Dist(Uncleaned, i) \in 0..(Count - 1)
         /\ \A i \in InSlots : buffer_info[i].skb \in owned
         /\ \A i, j \in InSlots : buffer_info[i].skb = buffer_info[j].skb => i = j
         /\ owned = FramesIn(InSlots) \cup ({frame.skb} \ {NoSkb})
         /\ FramesSent \subseteq owned
<1>1. InSlots \subseteq Slots /\ Uncleaned \in Slots /\ tdh \in Slots
  BY DEF InSlots, IInv, IndexTypes, Uncleaned
<1>2. \A i \in Slots : Dist(Uncleaned, i) \in 0..(Count - 1)
  BY <1>1, DistRange
<1>3. owned = FramesIn(InSlots) \cup ({frame.skb} \ {NoSkb})
  BY DEF OwnInv, SkbOwnership, FramesIn, InSlots
<1>4. \A i \in InSlots : buffer_info[i].skb \in owned
  BY <1>3 DEF FramesIn
<1>5. FramesSent \subseteq owned
  BY <1>4 DEF FramesSent, FramesIn
<1> QED BY <1>1, <1>2, <1>3, <1>4, <1>5 DEF OwnInv, SkbOwnership

\* A step that moves no skb and neither the cleaner nor the head leaves the order and
\* what was sent as they are.
LEMMA QueueKept ==
  ASSUME UNCHANGED <<Uncleaned, tdh>>,
         \A i \in Slots : buffer_info'[i].skb = buffer_info[i].skb
  PROVE  /\ UNCHANGED <<InSlots, FramesSent>>
         /\ FramesIn(InSlots)' = FramesIn(InSlots)
         /\ \A t : OlderThan(t)' = OlderThan(t)
<1>1. UNCHANGED InSlots /\ InSlots \subseteq Slots
  BY DEF InSlots, Slots
<1>2. \A i, j : Sooner(i, j)' = Sooner(i, j)
  BY DEF Sooner, Dist
<1>3. \A i \in InSlots : buffer_info'[i].skb = buffer_info[i].skb
  BY <1>1
<1>4. ASSUME NEW t PROVE OlderThan(t)' = OlderThan(t)
  BY <1>1, <1>2, <1>3 DEF OlderThan, FramesIn
<1>5. FramesSent' = FramesSent
  <2>1. \A i : Sooner(i, tdh)' = Sooner(i, tdh)
    BY DEF Sooner, Dist
  <2> QED BY <1>1, <1>3, <2>1 DEF FramesSent, FramesIn
<1> QED BY <1>1, <1>3, <1>4, <1>5 DEF FramesIn

\* The queue's steps, with the mapping written out.
LEMMA FifoStutters ==
  ASSUME UNCHANGED <<Uncleaned, tdh, owned>>,
         \A i \in Slots : buffer_info'[i].skb = buffer_info[i].skb
  PROVE  UNCHANGED <<owned, FramesOlder, FramesSent>>
BY QueueKept DEF FramesOlder

\* Slots beyond the cleaner come in the same order seen from the cleaner.
LEMMA SeenFrom ==
  ASSUME NEW c \in Slots, NEW u \in Slots, NEW a \in Slots, NEW b \in Slots,
         Dist(c, u) <= Dist(c, a), Dist(c, a) <= Dist(c, b)
  PROVE  /\ Dist(u, a) <= Dist(u, b)
         /\ Dist(c, a) < Dist(c, b) => Dist(u, a) < Dist(u, b)
BY RingAssumption DEF Dist, Slots

LEMMA XmitStepFifo ==
  ASSUME IInv, OwnInv, Stack \/ XmitStep
  PROVE  [Fifo!Next]_Fifo!vars
<1>0. /\ UNCHANGED <<Uncleaned, tdh, rpc, FifoLive>>
  BY DEF Stack, XmitStep, XmitDrop, XmitStart, XmitRecheck, XmitTsoError, XmitMap,
         XmitQueue, XmitRoom, XmitReroom, XmitMapError, XmitTail, ring, hw, reset, clean,
         Uncleaned, FifoLive
<1>1. CASE XmitDrop \/ XmitQueue \/ XmitRoom \/ XmitReroom \/ \E more \in More : XmitTail(more)
  <2>1. UNCHANGED <<buffer_info, owned>>
    BY <1>1 DEF XmitDrop, XmitQueue, XmitRoom, XmitReroom, XmitTail, ring, ghosts
  <2> QED BY <1>0, <2>1, FifoStutters DEF Fifo!vars
<1>2. ASSUME NEW s \in Skbs, NEW sh \in Shapes, XmitStart(s, sh) PROVE Fifo!Take(s)
  <2>1. s \notin owned /\ owned' = owned \cup {s} /\ UNCHANGED buffer_info /\ xpc = "idle"
    BY <1>2 DEF XmitStart, ring
  <2>2. /\ UNCHANGED <<InSlots, FramesSent>>
        /\ \A t : OlderThan(t)' = OlderThan(t)
    BY <1>0, <2>1, QueueKept
  <2>3. OlderThan(s) = owned
    <3>1. \A j \in InSlots : buffer_info[j].skb # s
      BY <2>1, FifoTypes
    <3>2. OlderThan(s) = FramesIn(InSlots)
      BY <3>1 DEF OlderThan
    <3>3. frame.skb = NoSkb
      BY <2>1 DEF OwnInv, FrameInHand
    <3> QED BY <3>2, <3>3, FifoTypes
  <2>4. FramesOlder' = [t \in owned' |-> IF t = s THEN owned ELSE FramesOlder[t]]
    BY <2>1, <2>2, <2>3 DEF FramesOlder
  <2> QED BY <1>0, <2>1, <2>2, <2>4 DEF Fifo!Take
<1>3. ASSUME XmitRecheck \/ XmitTsoError \/ \E good \in 0..Count : XmitMapError(good)
      PROVE  (frame.skb \in Skbs /\ Fifo!Refuse(frame.skb)) \/ UNCHANGED Fifo!vars
  <2>1. /\ xpc \in {"recheck", "map"}
        /\ owned' = owned \/ owned' = owned \ {frame.skb}
    BY <1>3 DEF XmitRecheck, XmitTsoError, XmitMapError
  <2>2. \A i \in Slots : buffer_info'[i].skb = buffer_info[i].skb
    BY <1>3, MapErrorKeepsSkbs DEF XmitRecheck, XmitTsoError, ring
  <2>3. /\ UNCHANGED <<InSlots, FramesSent>>
        /\ \A t : OlderThan(t)' = OlderThan(t)
    BY <1>0, <2>2, QueueKept
  <2>4. CASE owned' = owned
    BY <1>0, <2>2, <2>4, FifoStutters DEF Fifo!vars
  <2>5. CASE owned' = owned \ {frame.skb}
    <3>1. frame.skb # NoSkb /\ \A i \in InSlots : buffer_info[i].skb # frame.skb
      BY <2>1 DEF OwnInv, FrameInHand, SkbOwnership
    <3>2. frame.skb \in owned /\ FramesIn(InSlots) = owned \ {frame.skb}
      BY <3>1, FifoTypes DEF FramesIn
    <3>3. OlderThan(frame.skb) = owned'
      <4>1. OlderThan(frame.skb) = FramesIn(InSlots)
        BY <3>1 DEF OlderThan
      <4> QED BY <2>5, <3>2, <4>1
    <3>4. frame.skb \notin FramesSent /\ \A t : frame.skb \notin OlderThan(t)
      BY <3>1 DEF FramesSent, OlderThan, FramesIn
    <3>5. FramesOlder' = [t \in owned' |-> FramesOlder[t] \ {frame.skb}]
      <4>1. \A t : OlderThan(t)' = OlderThan(t) \ {frame.skb}
        BY <2>3, <3>4
      <4> QED BY <2>5, <4>1 DEF FramesOlder
    <3>6. FramesSent' = FramesSent \ {frame.skb}
      BY <2>3, <3>4
    <3>8. frame.skb \in Skbs
      BY <3>1 DEF IInv, IndexTypes, Frame
    <3>7. FramesOlder[frame.skb] = owned'
      BY <3>2, <3>3 DEF FramesOlder
    <3> QED BY <1>0, <2>5, <3>2, <3>4, <3>5, <3>6, <3>7, <3>8 DEF Fifo!Refuse, Fifo!LetGo
  <2> QED BY <2>1, <2>4, <2>5
<1>4. CASE XmitMap
  <2>1. xpc = "map" /\ owned' = owned /\ frame.skb # NoSkb
    BY <1>4 DEF XmitMap, OwnInv, FrameInHand
  <2>2. LastSlot \in Slots /\ LastSlot \notin InSlots /\ InSlots' = InSlots \cup {LastSlot}
    BY <1>4, <2>1, MapAddsSkb, FrameAt
  <2>3. /\ buffer_info'[LastSlot].skb = frame.skb
        /\ \A i \in InSlots : buffer_info'[i].skb = buffer_info[i].skb
    BY <1>4, <2>2, MapWrites, FifoTypes
  <2>4. \A i \in InSlots : Sooner(i, LastSlot) /\ ~Sooner(LastSlot, i)
    <3>1. ASSUME NEW i \in InSlots PROVE Dist(Uncleaned, i) < Dist(Uncleaned, LastSlot)
      <4>1. i \in Queued /\ i \in Slots
        BY <2>1, FifoTypes DEF OwnInv, SkbsInRing
      <4>2. /\ Dist(next_to_clean, Uncleaned) <= Dist(next_to_clean, i)
            /\ Dist(next_to_clean, i) < Dist(next_to_clean, LastSlot)
        BY <2>1, <4>1, QueuedAt, FrameAt, DistRange DEF IInv, IndexTypes
      <4>3. next_to_clean \in Slots /\ Uncleaned \in Slots
        BY QueuedAt DEF IInv, IndexTypes
      <4>4. Dist(next_to_clean, i) <= Dist(next_to_clean, LastSlot)
        BY <2>2, <4>1, <4>2, <4>3, DistRange
      <4> QED BY <2>2, <4>1, <4>2, <4>3, <4>4, SeenFrom
    <3> QED BY <2>2, <3>1, FifoTypes DEF Sooner
  <2>5. ~Sooner(LastSlot, tdh) /\ ~Sooner(LastSlot, LastSlot)
    <3>1. Dist(next_to_clean, tdh) <= Dist(next_to_clean, LastSlot)
      <4>1. frame.ctx + frame.n \in 1..Count
            /\ Dist(next_to_clean, LastSlot) = Dist(next_to_clean, next_to_use) + (frame.ctx + frame.n) - 1
        BY <2>1, FrameAt
      <4>2. next_to_clean \in Slots /\ next_to_use \in Slots /\ tdh \in Slots /\ tdt \in Slots
            /\ Dist(next_to_clean, tdh) <= Dist(next_to_clean, tdt)
            /\ Dist(next_to_clean, tdt) <= Dist(next_to_clean, next_to_use)
        BY DEF IInv, IndexTypes, RingOrder
      <4> QED BY <4>1, <4>2, DistRange
    <3>2. next_to_clean \in Slots /\ Uncleaned \in Slots /\ tdh \in Slots
          /\ Dist(next_to_clean, Uncleaned) <= Dist(next_to_clean, tdh)
      BY QueuedAt DEF IInv, IndexTypes, RingOrder
    <3>3. Dist(Uncleaned, tdh) <= Dist(Uncleaned, LastSlot)
      BY <2>2, <3>1, <3>2, SeenFrom
    <3>4. Dist(Uncleaned, tdh) \in Int /\ Dist(Uncleaned, LastSlot) \in Int
      BY <2>2, <3>2, DistRange
    <3> QED BY <3>3, <3>4 DEF Sooner
  <2>6. \A i, j : Sooner(i, j)' = Sooner(i, j)
    BY <1>0 DEF Sooner, Dist
  <2>7. FramesSent' = FramesSent
    <3>1. \A i : Sooner(i, tdh)' = Sooner(i, tdh)
      BY <1>0 DEF Sooner, Dist
    <3> QED BY <2>2, <2>3, <2>5, <3>1 DEF FramesSent, FramesIn
  <2>8. ASSUME NEW t \in owned PROVE OlderThan(t)' = OlderThan(t)
    <3> DEFINE Ahead == {i \in InSlots : \A j \in InSlots : buffer_info[j].skb = t => Sooner(i, j)}
    <3>1. \A i \in InSlots' : (\A j \in InSlots' : buffer_info'[j].skb = t => Sooner(i, j)) <=> i \in Ahead
      <4>1. CASE t = frame.skb
        <5>1. \A j \in InSlots : buffer_info[j].skb # t
          BY <2>1, <4>1 DEF OwnInv, SkbOwnership
        <5> QED BY <2>2, <2>3, <2>4, <2>5, <4>1, <5>1
      <4>2. CASE t # frame.skb
        <5>1. PICK j \in InSlots : buffer_info[j].skb = t
          BY <4>2, FifoTypes DEF FramesIn
        <5> QED BY <2>2, <2>3, <2>4, <4>2, <5>1
      <4> QED BY <4>1, <4>2
    <3>2. {i \in InSlots' : \A j \in InSlots' : buffer_info'[j].skb = t => Sooner(i, j)} = Ahead
      BY <2>2, <3>1
    <3>3. OlderThan(t)' = {buffer_info'[i].skb : i \in Ahead}
      BY <2>6, <3>2 DEF OlderThan, FramesIn
    <3>4. OlderThan(t) = {buffer_info[i].skb : i \in Ahead}
      BY DEF OlderThan, FramesIn
    <3> QED BY <2>3, <3>3, <3>4
  <2> QED BY <1>0, <2>1, <2>7, <2>8 DEF Fifo!vars, FramesOlder
<1> QED BY <1>1, <1>2, <1>3, <1>4 DEF Stack, XmitStep, Fifo!Next

LEMMA CleanStepFifo ==
  ASSUME IInv, OwnInv, CleanStart \/ CleanStep
  PROVE  [Fifo!Next]_Fifo!vars
<1>0. UNCHANGED <<tdh, rpc, FifoLive, next_to_use>>
  BY DEF CleanStart, CleanStep, CleanFrame, CleanScanEnd, CleanPublish, CleanWake,
         CleanWaking, CleanHang, ring, hw, reset, FifoLive
<1>1. CASE CleanStart \/ CleanScanEnd \/ CleanPublish \/ CleanWake \/ CleanWaking
           \/ \E late \in BOOLEAN : CleanHang(late)
  <2>1. UNCHANGED <<buffer_info, owned, Uncleaned>>
    BY <1>1 DEF CleanStart, CleanScanEnd, CleanPublish, CleanWake, CleanWaking, CleanHang,
                ring, clean, ghosts, Uncleaned
  <2> QED BY <1>0, <2>1, FifoStutters DEF Fifo!vars
<1>2. CASE CleanFrame
  <2> DEFINE at(i) == Dist(next_to_clean, i)
             from(i) == Dist(Uncleaned, i)
             Out == FramesIn(InSlots \cap Freed)
  <2>1. /\ Uncleaned = ci /\ Uncleaned' \in Slots /\ at(Uncleaned') = at(ceop) + 1
        /\ at(ci) <= at(ceop) /\ at(ceop) < at(tdh)
        /\ at(tdh) <= at(tdt) /\ at(tdt) <= at(next_to_use)
        /\ \A i \in Slots : i \in Freed <=> at(ci) <= at(i) /\ at(i) <= at(ceop)
        /\ buffer_info' = [i \in Slots |-> IF i \in Freed THEN PutTxbuf(buffer_info[i])
                                                         ELSE buffer_info[i]]
        /\ owned' = owned \ {buffer_info[i].skb : i \in Freed}
    BY <1>2, FreedAt
  <2>2. /\ next_to_clean \in Slots /\ ci \in Slots /\ ceop \in Slots /\ tdh \in Slots
        /\ buffer_info \in [Slots -> Buffer]
    BY DEF IInv, IndexTypes
  <2>3. \A i \in Slots : at(i) \in 0..(Count - 1) /\ from(i) \in 0..(Count - 1)
    BY <2>1, <2>2, DistRange
  <2>4. /\ InSlots' = InSlots \ Freed
        /\ \A i \in InSlots \ Freed : buffer_info'[i].skb = buffer_info[i].skb
    <3>1. /\ \A i \in Slots : i \in Freed => buffer_info'[i].skb = NoSkb
          /\ \A i \in Slots : i \notin Freed => buffer_info'[i].skb = buffer_info[i].skb
      BY <2>1, <2>2 DEF PutTxbuf, Buffer
    <3> QED BY <3>1 DEF InSlots
  <2>5. from(ceop) = at(ceop) - at(ci) /\ from(ceop) < from(tdh)
    <3>1. from(ceop) = at(ceop) - at(ci) /\ from(tdh) = at(tdh) - at(ci)
      BY <2>1, <2>2, <2>3, DistFrom
    <3> QED BY <2>1, <2>2, <2>3, <3>1
  <2>6. \A i \in Slots : i \in Freed <=> from(i) <= from(ceop)
    BY <2>1, <2>2, <2>3, <2>5, DistRange DEF Freed
  <2>7. \A i \in Slots : i \notin Freed => Dist(Uncleaned', i) = from(i) - from(ceop) - 1
    <3> SUFFICES ASSUME NEW i \in Slots, i \notin Freed
                 PROVE  Dist(Uncleaned', i) = from(i) - from(ceop) - 1
      OBVIOUS
    <3>1. Dist(Uncleaned, Uncleaned') = from(ceop) + 1
      <4>1. Uncleaned \in Slots /\ at(Uncleaned) = at(ci) /\ at(ci) \in Int /\ at(ceop) \in Int
        BY <2>1, <2>2, <2>3
      <4>2. at(Uncleaned) <= at(Uncleaned')
        BY <2>1, <4>1
      <4>3. Dist(Uncleaned, Uncleaned') = at(Uncleaned') - at(Uncleaned)
        BY <2>1, <2>2, <4>1, <4>2, DistFrom
      <4> QED BY <2>1, <2>5, <4>1, <4>3
    <3>2. from(ceop) + 1 <= from(i)
      BY <2>2, <2>3, <2>6
    <3>3. Dist(Uncleaned', i) = Dist(Uncleaned, i) - Dist(Uncleaned, Uncleaned')
      BY <2>1, <2>2, <3>1, <3>2, DistFrom
    <3> QED BY <2>2, <2>3, <3>1, <3>3
  <2>8. \A i, j \in Slots : i \notin Freed /\ j \notin Freed => (Sooner(i, j)' <=> Sooner(i, j))
    <3>1. \A i, j : Sooner(i, j)' <=> Dist(Uncleaned', i) < Dist(Uncleaned', j)
      BY DEF Sooner, Dist
    <3> QED BY <2>2, <2>3, <2>7, <3>1 DEF Sooner
  <2>9. /\ \A i \in InSlots : i \in Slots /\ buffer_info[i].skb \in owned
        /\ \A i, j \in InSlots : buffer_info[i].skb = buffer_info[j].skb => i = j
        /\ owned = FramesIn(InSlots) \cup ({frame.skb} \ {NoSkb})
    BY FifoTypes
  <2>10. owned' = owned \ Out
    <3>1. \A i \in Slots : i \in Freed /\ i \notin InSlots => buffer_info[i].skb = NoSkb
      BY DEF InSlots
    <3>2. NoSkb \notin owned
      BY DEF OwnInv, SkbOwnership
    <3>3. Freed \subseteq Slots
      BY DEF Freed
    <3> QED BY <2>1, <3>1, <3>2, <3>3 DEF FramesIn
  <2>11. ASSUME NEW t \in owned'
         PROVE  OlderThan(t)' = OlderThan(t) \ Out
    <3> DEFINE Ahead == {i \in InSlots : \A j \in InSlots : buffer_info[j].skb = t => Sooner(i, j)}
    <3>1. \A j \in InSlots : buffer_info[j].skb = t => j \notin Freed
      BY <2>10 DEF FramesIn
    <3>2. {i \in InSlots' : \A j \in InSlots' : buffer_info'[j].skb = t => Sooner(i, j)'} = Ahead \ Freed
      BY <2>4, <2>8, <2>9, <3>1
    <3>3. OlderThan(t)' = {buffer_info'[i].skb : i \in Ahead \ Freed}
      BY <3>2 DEF OlderThan, FramesIn
    <3>4. {buffer_info'[i].skb : i \in Ahead \ Freed} = {buffer_info[i].skb : i \in Ahead \ Freed}
      BY <2>4
    <3>5. {buffer_info[i].skb : i \in Ahead \ Freed} = {buffer_info[i].skb : i \in Ahead} \ Out
      BY <2>9 DEF FramesIn
    <3> QED BY <3>3, <3>4, <3>5 DEF OlderThan, FramesIn
  <2>12. FramesSent' = FramesSent \ Out
    <3> DEFINE Passed == {i \in InSlots : Sooner(i, tdh)}
    <3>1. \A i \in InSlots \ Freed : Sooner(i, tdh)' <=> Sooner(i, tdh)
      <4>1. tdh \notin Freed /\ tdh' = tdh
        BY <1>0, <2>2, <2>3, <2>5, <2>6
      <4>2. \A i : Sooner(i, tdh)' <=> Dist(Uncleaned', i) < Dist(Uncleaned', tdh)
        BY <4>1 DEF Sooner, Dist
      <4> QED BY <2>2, <2>3, <2>7, <2>9, <4>1, <4>2 DEF Sooner
    <3>2. {i \in InSlots' : Sooner(i, tdh)'} = Passed \ Freed
      BY <2>4, <3>1
    <3>3. FramesSent' = {buffer_info'[i].skb : i \in Passed \ Freed}
      BY <3>2 DEF FramesSent, FramesIn
    <3>4. {buffer_info'[i].skb : i \in Passed \ Freed} = {buffer_info[i].skb : i \in Passed \ Freed}
      BY <2>4
    <3>5. {buffer_info[i].skb : i \in Passed \ Freed} = {buffer_info[i].skb : i \in Passed} \ Out
      BY <2>9 DEF FramesIn
    <3> QED BY <3>3, <3>4, <3>5 DEF FramesSent, FramesIn
  <2>13. Out \subseteq FramesSent
    <3>1. \A i \in InSlots \cap Freed : Sooner(i, tdh)
      BY <2>2, <2>3, <2>5, <2>6, <2>9 DEF Sooner
    <3> QED BY <3>1 DEF FramesSent, FramesIn
  <2>14. \A s \in Out : s \in owned /\ OlderThan(s) \subseteq Out
    <3> SUFFICES ASSUME NEW j \in InSlots \cap Freed
                 PROVE  buffer_info[j].skb \in owned /\ OlderThan(buffer_info[j].skb) \subseteq Out
      BY DEF FramesIn
    <3>1. ASSUME NEW i \in InSlots, Sooner(i, j) PROVE i \in Freed
      BY <2>2, <2>3, <2>6, <2>9, <3>1 DEF Sooner
    <3> QED BY <2>9, <3>1 DEF OlderThan, FramesIn
  <2>15. FramesOlder' = [t \in owned' |-> FramesOlder[t] \ Out]
    BY <2>10, <2>11 DEF FramesOlder
  <2>16. Fifo!LetGo(Out)
    BY <2>10, <2>12, <2>15 DEF Fifo!LetGo
  <2>17. Fifo!Release(Out)
    BY <1>0, <2>13, <2>14, <2>16 DEF Fifo!Release, FramesOlder
  <2>18. Out = {} => UNCHANGED Fifo!vars
    BY <1>0, <2>10, <2>12, <2>15 DEF Fifo!vars, FramesOlder
  <2>19. Out \subseteq Skbs
    BY <2>9 DEF FramesIn, IInv, IndexTypes, Buffer, InSlots
  <2> QED BY <2>17, <2>18, <2>19 DEF Fifo!Next
<1> QED BY <1>1, <1>2 DEF CleanStep

LEMMA OtherStepFifo ==
  ASSUME IInv, OwnInv, OffWhenHalted,
         HwTransmit \/ (\E link \in BOOLEAN : Watchdog(link)) \/ PrintHang \/ TxTimeout
           \/ ResetStep \/ UNCHANGED vars
  PROVE  [Fifo!Next]_Fifo!vars
<1>1. ASSUME (\E link \in BOOLEAN : Watchdog(link)) \/ PrintHang \/ TxTimeout \/ ResetStart
             \/ ResetStop \/ ResetIrqOff \/ ResetSync \/ ResetUp \/ ResetQueue
             \/ UNCHANGED vars
      PROVE  [Fifo!Next]_Fifo!vars
  <2>1. UNCHANGED <<next_to_use, next_to_clean, buffer_info, tdh, cpc, ci, owned>>
    BY <1>1 DEF Watchdog, PrintHang, TxTimeout, ResetStart, ResetStop,
                ResetIrqOff, ResetSync, ResetUp, ResetQueue, ring, hw, clean, ghosts, vars
  <2>2. UNCHANGED <<owned, FramesOlder, FramesSent>>
    BY <2>1, FifoStutters DEF Uncleaned
  <2>3. \/ UNCHANGED FifoLive
        \/ FifoLive /\ FifoLive' = FALSE
        \/ ~FifoLive /\ FifoLive' = TRUE
    BY DEF FifoLive
  <2> QED BY <2>2, <2>3 DEF Fifo!vars, Fifo!Next, Fifo!Halt, Fifo!Start
<1>2. CASE ResetClean
  <2>1. /\ rpc = "quiet" /\ rpc' = "clean"
        /\ buffer_info' = [i \in Slots |-> FreeBuffer]
        /\ owned' = owned \ {buffer_info[i].skb : i \in Slots}
    BY <1>2 DEF ResetClean
  <2>2. frame.skb = NoSkb
    BY <2>1 DEF IInv, ResetAlone, OwnInv, FrameInHand
  <2>3. owned' = {} /\ owned' = owned \ owned
    BY <2>1, <2>2 DEF OwnInv, SkbOwnership, InSlots
  <2>4. InSlots' = {}
    BY <2>1 DEF InSlots, FreeBuffer
  <2>5. FramesSent' = {} /\ FramesSent' = FramesSent \ owned
    BY <2>4, FifoTypes DEF FramesSent, FramesIn
  <2>6. FramesOlder' = [t \in owned' |-> FramesOlder[t] \ owned]
    BY <2>3 DEF FramesOlder
  <2>7. ~FifoLive /\ FifoLive' = FifoLive
    BY <2>1 DEF FifoLive
  <2> QED BY <2>3, <2>5, <2>6, <2>7 DEF Fifo!Next, Fifo!Flush, Fifo!LetGo
<1>3. CASE HwTransmit
  <2> DEFINE s == buffer_info[tdh].skb
             from(i) == Dist(Uncleaned, i)
  <2>1. /\ UNCHANGED <<buffer_info, owned, rpc, FifoLive, Uncleaned>>
        /\ txen /\ tdh # tdt /\ tdh' = Fwd(tdh, 1)
    BY <1>3 DEF HwTransmit, clean, reset, ghosts, FifoLive, Uncleaned
  <2>2. FifoLive
    BY <2>1 DEF OffWhenHalted, FifoLive
  <2>3. /\ InSlots \subseteq Slots /\ Uncleaned \in Slots /\ tdh \in Slots
        /\ \A i \in Slots : from(i) \in 0..(Count - 1)
        /\ \A i \in InSlots : buffer_info[i].skb \in owned
        /\ \A i, j \in InSlots : buffer_info[i].skb = buffer_info[j].skb => i = j
    BY FifoTypes
  <2>4. Dist(Uncleaned, tdh') = from(tdh) + 1
    <3> DEFINE at(i) == Dist(next_to_clean, i)
    <3>1. /\ next_to_clean \in Slots /\ tdt \in Slots
          /\ at(Uncleaned) <= at(tdh) /\ at(tdh) <= at(tdt)
      BY DEF IInv, IndexTypes, RingOrder
    <3>2. from(tdh) <= from(tdt)
      BY <2>3, <3>1, SeenFrom
    <3>3. from(tdh) # from(tdt)
      BY <2>1, <2>3, <3>1, RingAssumption DEF Dist, Slots
    <3>4. from(tdh) \in 0..(Count - 1) /\ from(tdt) \in 0..(Count - 1)
      BY <2>3, <3>1
    <3>5. 1 \in 0..Count /\ from(tdh) + 1 < Count
      BY <3>2, <3>3, <3>4, RingAssumption
    <3> QED BY <2>1, <2>3, <3>5, DistFwd
  <2>5. \A i \in Slots : Sooner(i, tdh)' <=> Sooner(i, tdh) \/ i = tdh
    <3> SUFFICES ASSUME NEW i \in Slots PROVE Sooner(i, tdh)' <=> Sooner(i, tdh) \/ i = tdh
      OBVIOUS
    <3>1. Sooner(i, tdh)' <=> Dist(Uncleaned, i) < Dist(Uncleaned, tdh')
      BY <2>1 DEF Sooner, Dist
    <3>2. from(i) = from(tdh) => i = tdh
      BY <2>3, RingAssumption DEF Dist, Slots
    <3>3. from(i) \in Int /\ from(tdh) \in Int
      BY <2>3
    <3> HIDE DEF from
    <3>4. Sooner(i, tdh) <=> from(i) < from(tdh)
      BY DEF Sooner, from
    <3>5. Sooner(i, tdh)' <=> from(i) < from(tdh) + 1
      BY <2>4, <3>1 DEF from
    <3> QED BY <3>2, <3>3, <3>4, <3>5
  <2>6. InSlots' = InSlots /\ \A i : buffer_info'[i] = buffer_info[i]
    BY <2>1 DEF InSlots, Slots
  <2>7. FramesSent' = FramesIn({i \in InSlots : Sooner(i, tdh) \/ i = tdh})
    BY <2>3, <2>5, <2>6 DEF FramesSent, FramesIn
  <2>8. UNCHANGED FramesOlder
    <3>1. \A i, j : Sooner(i, j)' = Sooner(i, j)
      BY <2>1 DEF Sooner, Dist
    <3>2. \A t : OlderThan(t)' = OlderThan(t)
      BY <2>6, <3>1 DEF OlderThan, FramesIn
    <3> QED BY <2>1, <3>2 DEF FramesOlder
  <2>9. CASE tdh \in InSlots
    <3>1. s \in owned /\ s \in Skbs
      BY <2>3, <2>9 DEF IInv, IndexTypes, Buffer, InSlots
    <3>2. ~Sooner(tdh, tdh)
      BY <2>3 DEF Sooner
    <3>3. s \notin FramesSent
      BY <2>3, <2>9, <3>2 DEF FramesSent, FramesIn
    <3>4. OlderThan(s) \subseteq FramesSent
      BY <2>9 DEF OlderThan, FramesSent, FramesIn
    <3>5. FramesSent' = FramesSent \cup {s}
      BY <2>7, <2>9 DEF FramesSent, FramesIn
    <3>6. FramesOlder[s] = OlderThan(s)
      BY <3>1 DEF FramesOlder
    <3>7. Fifo!Send(s)
      BY <2>1, <2>2, <2>8, <3>1, <3>3, <3>4, <3>5, <3>6 DEF Fifo!Send
    <3> QED BY <3>1, <3>7 DEF Fifo!Next
  <2>10. CASE tdh \notin InSlots
    <3>1. FramesSent' = FramesSent
      BY <2>7, <2>10 DEF FramesSent, FramesIn
    <3> QED BY <2>1, <2>8, <3>1 DEF Fifo!vars
  <2> QED BY <2>9, <2>10
<1> QED BY <1>1, <1>2, <1>3 DEF ResetStep

\* The ring is the queue of TxFifo: with frames that fail, lost tail writes, a lost link
\* and resets at any moment, frames are sent and let go of in the order they were taken,
\* each only after it was sent unless a reset has stopped the transmitter.
THEOREM RingIsFifo == Spec => ImplementsFifo
<1>1. Init => OffWhenHalted /\ Fifo!Init
  <2> SUFFICES ASSUME Init PROVE OffWhenHalted /\ Fifo!Init
    OBVIOUS
  <2>1. owned = {} /\ FifoLive
    BY DEF Init, FifoLive
  <2>2. InSlots = {}
    BY DEF Init, InSlots, FreeBuffer
  <2>3. FramesSent = {} /\ FramesOlder = [t \in {} |-> {}]
    BY <2>1, <2>2 DEF FramesSent, FramesOlder, FramesIn
  <2> QED BY <2>1, <2>3 DEF Init, OffWhenHalted, Fifo!Init
<1>2. IInv /\ OwnInv /\ OffWhenHalted /\ [Next]_vars
        => OffWhenHalted' /\ [Fifo!Next]_Fifo!vars
  BY OffStep, XmitStepFifo, CleanStepFifo, OtherStepFifo DEF Next
<1> QED BY <1>1, <1>2, OwnInductive, PTL DEF Spec, ImplementsFifo, Fifo!Spec
=============================================================================
