------------------------------ MODULE PtpProofs ------------------------------
(***************************************************************************)
(* What holds of the stamps and the clock for any number of frames,        *)
(* resets, ioctls and frequencies.  The invariant has a part for each      *)
(* concern, and a lemma says of each part that every step keeps it.        *)
(***************************************************************************)
EXTENDS Ptp, SequenceTheorems, TLAPS

Stamps == [frame : Frames \cup {None}, clock : Nat]

\* The types of all variables.
Types ==
  /\ PtpTypeOK
  /\ setup \in PtpSetup
  /\ sent \in Nat /\ skipped \in Nat
  /\ txreg \in Stamps /\ wstamp \in Stamps
  /\ rxn \in Nat /\ rxreg \in Arrivals \cup {None}
  /\ clocks \in [systim : Nat, tc : Nat]
  /\ rconfig \subseteq setup.sides

\* The work item has the frame of the slot until it empties it.
Slots ==
  /\ scheduled => slot # None
  /\ wpc \in {"read", "convert", "clear"} \/ (wpc = "tell" /\ TellsFirst) =>
       slot = wskb /\ ~scheduled

\* Unless the user set the frequency during a reset, ptp_delta is what he asked for, and
\* the reset restores it.
Rates ==
  /\ setup.deltas \subseteq Nat
  /\ asked \in Nat /\ ptpDelta \in Nat /\ rdelta \in Nat
  /\ "freq" \notin crossed =>
       /\ ptpDelta = asked
       /\ rpc = "adjust" => rdelta = ptpDelta
       /\ setup.clock /\ rpc \notin {"freq", "adjust"} => timinca = 100 + asked

\* The same of the packets that get stamps.
Configs ==
  setup.clock /\ "config" \notin crossed =>
    /\ rpc = "up" => enabled = config
    /\ rpc = "config" => rconfig = config

\* Cancelled work stays cancelled.
Quiet ==
  removal # "no" /\ ~setup.sending => slot = None /\ ~scheduled /\ wpc = "idle"

\* The stamp in the register, or in the work item, is that of the frame in the slot, and it
\* was taken on the clock that the timecounter counts on when no reset is under way.
OwnTx ==
  /\ setup.clock /\ rpc \in {"up", "read", "config"} => clocks.tc = clocks.systim
  /\ txreg # NoStamp => txreg.clock = clocks.systim
  /\ slot # None /\ <<"tx", slot>> \notin exempt =>
       /\ txreg # NoStamp => txreg.frame = slot
       /\ \A i \in 1..Len(txq) : txq[i] = slot
  /\ <<"tx", wskb>> \notin exempt =>
       /\ wpc = "read" => txreg # NoStamp
       /\ wpc = "convert" => wstamp.frame = wskb /\ wstamp.clock = clocks.systim
       /\ wpc \in {"clear", "tell"} => wstamp.frame = wskb /\ (setup.clock => wstamp.clock = 1)
  /\ StampIsOwn

\* Frames are in the ring in the order they came; the stamp in the register is that of every
\* frame there that may still claim one.
Arrived == [frame : Arrivals, tst : BOOLEAN]

InOrder(q, n) ==
  \A i \in 1..Len(q) :
    q[i].frame <= n /\ \A j \in 1..Len(q) : i < j => q[i].frame < q[j].frame

OwnRx ==
  /\ InOrder(rxq, rxn)
  /\ \A i \in 1..Len(rxq) : rxq[i].tst /\ <<"rx", rxq[i].frame>> \notin exempt => rxreg = rxq[i].frame
  /\ RxStampIsOwn

\* The frame in the slot has not been told its stamp, in the newer copy.
Untold ==
  /\ slot <= sent /\ wskb <= sent
  /\ \A f \in Frames : f > sent => told[f] = NoStamp
  /\ setup.release = "3.4.2" =>
       /\ slot # None => told[slot] = NoStamp
       /\ wpc = "tell" => wskb # slot
-----------------------------------------------------------------------------
\* The bounds of a setup change, and nothing else of it.
LEMMA SetupBounds ==
  ASSUME NEW s \in PtpSetup, NEW n \in Nat
  PROVE  /\ [s EXCEPT !.ioctls = n] \in PtpSetup /\ [s EXCEPT !.resets = n] \in PtpSetup
         /\ [s EXCEPT !.ioctls = n].sides = s.sides /\ [s EXCEPT !.resets = n].sides = s.sides
BY DEF PtpSetup

\* What a queue has after its head has gone.
LEMMA TailOf ==
  ASSUME NEW S, NEW q \in Seq(S), q # <<>>
  PROVE  /\ Tail(q) \in Seq(S) /\ Head(q) \in S /\ Head(q) = q[1] /\ 1 \in 1..Len(q)
         /\ Len(Tail(q)) = Len(q) - 1
         /\ \A i \in 1..Len(Tail(q)) : i + 1 \in 1..Len(q) /\ Tail(q)[i] = q[i + 1]
BY HeadTailProperties

LEMMA AppendOf ==
  ASSUME NEW S, NEW q \in Seq(S), NEW x \in S
  PROVE  /\ Append(q, x) \in Seq(S) /\ Len(Append(q, x)) = Len(q) + 1
         /\ Append(q, x)[Len(q) + 1] = x
         /\ \A i \in 1..Len(q) : Append(q, x)[i] = q[i] /\ q[i] \in S
BY AppendProperties

\* A queue of arrivals stays in order when one goes up, or a later one comes.
LEMMA AppendInOrder ==
  ASSUME NEW n \in Nat, NEW q \in Seq(Arrived), InOrder(q, n), NEW x \in Arrived, x.frame = n + 1
  PROVE  InOrder(Append(q, x), n + 1)
<1> DEFINE p == Append(q, x)
<1>1. /\ Len(p) = Len(q) + 1 /\ p[Len(q) + 1] = x /\ Len(q) \in Nat
      /\ \A i \in 1..Len(q) : p[i] = q[i] /\ q[i] \in Arrived
  BY AppendOf
<1>2. \A i \in 1..Len(q) : q[i].frame \in Nat
  <2>1. \A a \in Arrived : a.frame \in Nat
    BY PtpAssumption DEF Arrived, Arrivals
  <2> QED
    BY <1>1, <2>1
<1> HIDE DEF p
<1>3. \A i \in 1..Len(p) : i \in 1..Len(q) \/ i = Len(q) + 1
  BY <1>1
<1>4. InOrder(p, n + 1)
  BY <1>1, <1>2, <1>3 DEF InOrder
<1> QED
  BY <1>4 DEF p

LEMMA TailInOrder ==
  ASSUME NEW n \in Nat, NEW q \in Seq(Arrived), InOrder(q, n), q # <<>>
  PROVE  InOrder(Tail(q), n) /\ \A i \in 1..Len(Tail(q)) : Head(q).frame < Tail(q)[i].frame
<1> DEFINE p == Tail(q)
<1>1. /\ Len(p) = Len(q) - 1 /\ Len(q) \in Nat /\ Head(q) = q[1] /\ 1 \in 1..Len(q)
      /\ \A i \in 1..Len(p) : i + 1 \in 1..Len(q) /\ p[i] = q[i + 1]
  BY TailOf
<1> HIDE DEF p
<1>2. InOrder(p, n)
  <2> SUFFICES ASSUME NEW i \in 1..Len(p), NEW j \in 1..Len(p)
               PROVE  p[i].frame <= n /\ (i < j => p[i].frame < p[j].frame)
    BY DEF InOrder
  <2>1. /\ i + 1 \in 1..Len(q) /\ p[i] = q[i + 1] /\ j + 1 \in 1..Len(q) /\ p[j] = q[j + 1]
        /\ i < j => i + 1 < j + 1
    BY <1>1
  <2> QED
    BY <2>1 DEF InOrder
<1>3. \A i \in 1..Len(p) : q[1].frame < p[i].frame
  BY <1>1 DEF InOrder
<1> QED
  BY <1>1, <1>2, <1>3 DEF p

LEMMA TypesKept ==
  ASSUME Types, Slots, [PtpNext]_ptpVars
  PROVE  Types'
<1> USE DEF slotVars, workVars, txVars, rxVars, rateVars, resetVars, configVars, resetFrame
<1> USE DEF Types, PtpTypeOK, Stamps, NoStamp, None, Frames, Arrivals
<1>1. CASE Xmit
  <2>1. CASE SlotFree
    <3>1. sent + 1 \in Frames
      BY <1>1 DEF Xmit
    <3>2. Append(txq, sent + 1) \in Seq(Frames)
      BY <3>1, AppendOf
    <3>3. txq' \in Seq(Frames) /\ slot' \in Frames /\ since' = "fresh" /\ scheduled' = TRUE
      BY <1>1, <2>1, <3>1, <3>2 DEF Xmit
    <3>4. sent' \in Nat /\ skipped' = skipped
      BY <1>1, <2>1 DEF Xmit
    <3> QED
      BY <1>1, <3>3, <3>4 DEF Xmit
  <2>2. CASE ~SlotFree
    BY <1>1, <2>2 DEF Xmit
  <2> QED
    BY <2>1, <2>2
<1>2. CASE HwSend
  <2>1. Head(txq) \in Frames /\ Tail(txq) \in Seq(Frames)
    BY <1>2, TailOf DEF HwSend
  <2>2. txreg' \in Stamps
    BY <1>2, <2>1 DEF HwSend
  <2> QED
    BY <1>2, <2>1, <2>2 DEF HwSend
<1>3. CASE Expire
  BY <1>3 DEF Expire
<1>4. CASE WorkStart
  BY <1>4 DEF WorkStart, GiveUp, Reschedule, Slots
<1>5. CASE ReadStamp
  BY <1>5 DEF ReadStamp, BesideReset
<1>6. CASE Convert
  <2>1. wstamp' \in Stamps
    BY <1>6 DEF Convert
  <2> QED
    BY <1>6, <2>1 DEF Convert
<1>7. CASE ClearSlot
  BY <1>7 DEF ClearSlot, TellsFirst
<1>8. CASE Tell
  BY <1>8 DEF Tell, TellsFirst
<1>9. ASSUME NEW damaged \in BOOLEAN, RxArrive(damaged)
      PROVE  Types'
  <2> DEFINE new == [frame |-> rxn + 1, tst |-> ("rx" \in enabled /\ rxreg = None) /\ ~damaged]
  <2>1. rxn + 1 \in Arrivals /\ rxq' = Append(rxq, new)
    BY <1>9 DEF RxArrive
  <2>2. new \in [frame : Arrivals, tst : BOOLEAN]
    BY <2>1
  <2>3. rxq' \in Seq([frame : Arrivals, tst : BOOLEAN])
    BY <2>1, <2>2, AppendOf
  <2> HIDE DEF new
  <2> QED
    BY <1>9, <2>1, <2>3 DEF RxArrive
<1>10. CASE RxHwtstamp
  <2>1. /\ Head(rxq) \in [frame : Arrivals, tst : BOOLEAN]
        /\ Tail(rxq) \in Seq([frame : Arrivals, tst : BOOLEAN])
    BY <1>10, TailOf DEF RxHwtstamp
  <2>2. rtold' \in [Arrivals -> Arrivals \cup {None}] /\ rxreg' \in Arrivals \cup {None}
    BY <1>10, <2>1 DEF RxHwtstamp, HasStamp
  <2>3. check' \in BOOLEAN
    BY <1>10 DEF RxHwtstamp
  <2> QED
    BY <1>10, <2>1, <2>2, <2>3 DEF RxHwtstamp
<1>11. CASE Watchdog
  <2>1. check' \in BOOLEAN /\ rxreg' \in Arrivals \cup {None}
    BY <1>11 DEF Watchdog, ClearStuck
  <2> QED
    BY <1>11, <2>1 DEF Watchdog
<1>12. ASSUME NEW sides \in SUBSET setup.sides, HwtstampSet(sides)
      PROVE  Types'
  <2>1. setup' \in PtpSetup /\ setup'.sides = setup.sides
    <3>1. setup.ioctls - 1 \in Nat
      BY <1>12 DEF HwtstampSet, PtpSetup
    <3> QED
      BY <1>12, <3>1, SetupBounds DEF HwtstampSet
  <2> QED
    BY <1>12, <2>1 DEF HwtstampSet, ClearStamps
<1>13. ASSUME NEW d \in setup.deltas, UserAdjfreq(d)
      PROVE  Types'
  BY <1>13 DEF UserAdjfreq, Adjfreq, Magnitude, Crossing
<1>14. CASE MacReset
  <2>1. setup' \in PtpSetup /\ setup'.sides = setup.sides
    <3>1. setup.resets - 1 \in Nat
      BY <1>14 DEF MacReset, PtpSetup
    <3> QED
      BY <1>14, <3>1, SetupBounds DEF MacReset
  <2>2. clocks' \in [systim : Nat, tc : Nat]
    BY <1>14 DEF MacReset
  <2> QED
    BY <1>14, <2>1, <2>2 DEF MacReset, ClearStamps
<1>15. CASE ResetFreq
  BY <1>15 DEF ResetFreq
<1>16. CASE ResetAdjust
  BY <1>16 DEF ResetAdjust, Adjfreq, Magnitude
<1>17. CASE ResetNoClock
  BY <1>17 DEF ResetNoClock
<1>18. CASE ResetTime
  BY <1>18 DEF ResetTime
<1>19. CASE ResetReadConfig
  BY <1>19 DEF ResetReadConfig
<1>20. CASE ResetConfig
  BY <1>20 DEF ResetConfig, Restore, ClearStamps, Disturbed
<1>21. CASE RemoveCancel
  BY <1>21 DEF RemoveCancel, CancelWork
<1>22. CASE RemoveDone
  BY <1>22 DEF RemoveDone
<1>23. CASE UNCHANGED ptpVars
  BY <1>23 DEF ptpVars
<1> QED
  BY <1>1, <1>2, <1>3, <1>4, <1>5, <1>6, <1>7, <1>8, <1>9, <1>10, <1>11, <1>12, <1>13, <1>14, <1>15, <1>16, <1>17, <1>18, <1>19, <1>20, <1>21, <1>22, <1>23
     DEF PtpNext, Work, SystimReset

LEMMA SlotsKept ==
  ASSUME Types, Slots, [PtpNext]_ptpVars
  PROVE  Slots'
<1> USE DEF slotVars, workVars, txVars, rxVars, rateVars, resetVars, configVars, resetFrame
<1> USE DEF Slots, TellsFirst, Types, PtpTypeOK, None, Frames
<1>1. CASE Xmit
  BY <1>1 DEF Xmit, SlotFree, LateStamp
<1>2. CASE HwSend
  BY <1>2 DEF HwSend
<1>3. CASE Expire
  BY <1>3 DEF Expire
<1>4. CASE WorkStart
  BY <1>4 DEF WorkStart, GiveUp, Reschedule
<1>5. CASE ReadStamp
  BY <1>5 DEF ReadStamp, BesideReset
<1>6. CASE Convert
  BY <1>6 DEF Convert, TellsFirst, BesideReset
<1>7. CASE ClearSlot
  BY <1>7 DEF ClearSlot, TellsFirst
<1>8. CASE Tell
  BY <1>8 DEF Tell, TellsFirst
<1>9. ASSUME NEW damaged \in BOOLEAN, RxArrive(damaged)
      PROVE  Slots'
  BY <1>9 DEF RxArrive
<1>10. CASE RxHwtstamp
  BY <1>10 DEF RxHwtstamp, HasStamp
<1>11. CASE Watchdog
  BY <1>11 DEF Watchdog, ClearStuck, Disturbed
<1>12. ASSUME NEW sides \in SUBSET setup.sides, HwtstampSet(sides)
      PROVE  Slots'
  BY <1>12 DEF HwtstampSet, ClearStamps, Crossing, Disturbed
<1>13. ASSUME NEW d \in setup.deltas, UserAdjfreq(d)
      PROVE  Slots'
  BY <1>13 DEF UserAdjfreq, Adjfreq, Magnitude, Crossing
<1>14. CASE MacReset
  BY <1>14 DEF MacReset, ClearStamps, Disturbed
<1>15. CASE ResetFreq
  BY <1>15 DEF ResetFreq
<1>16. CASE ResetAdjust
  BY <1>16 DEF ResetAdjust, Adjfreq, Magnitude
<1>17. CASE ResetNoClock
  BY <1>17 DEF ResetNoClock
<1>18. CASE ResetTime
  BY <1>18 DEF ResetTime
<1>19. CASE ResetReadConfig
  BY <1>19 DEF ResetReadConfig
<1>20. CASE ResetConfig
  BY <1>20 DEF ResetConfig, Restore, ClearStamps, Disturbed
<1>21. CASE RemoveCancel
  BY <1>21 DEF RemoveCancel, CancelWork
<1>22. CASE RemoveDone
  BY <1>22 DEF RemoveDone
<1>23. CASE UNCHANGED ptpVars
  BY <1>23 DEF ptpVars
<1> QED
  BY <1>1, <1>2, <1>3, <1>4, <1>5, <1>6, <1>7, <1>8, <1>9, <1>10, <1>11, <1>12, <1>13, <1>14, <1>15, <1>16, <1>17, <1>18, <1>19, <1>20, <1>21, <1>22, <1>23
     DEF PtpNext, Work, SystimReset

LEMMA RatesKept ==
  ASSUME Types, Rates, [PtpNext]_ptpVars
  PROVE  Rates'
<1> USE DEF slotVars, workVars, txVars, rxVars, rateVars, resetVars, configVars, resetFrame
<1> USE DEF Rates, Types, PtpSetup
<1>1. CASE Xmit
  BY <1>1 DEF Xmit, SlotFree, LateStamp
<1>2. CASE HwSend
  BY <1>2 DEF HwSend
<1>3. CASE Expire
  BY <1>3 DEF Expire
<1>4. CASE WorkStart
  BY <1>4 DEF WorkStart, GiveUp, Reschedule
<1>5. CASE ReadStamp
  BY <1>5 DEF ReadStamp, BesideReset
<1>6. CASE Convert
  BY <1>6 DEF Convert, TellsFirst, BesideReset
<1>7. CASE ClearSlot
  BY <1>7 DEF ClearSlot, TellsFirst
<1>8. CASE Tell
  BY <1>8 DEF Tell, TellsFirst
<1>9. ASSUME NEW damaged \in BOOLEAN, RxArrive(damaged)
      PROVE  Rates'
  BY <1>9 DEF RxArrive
<1>10. CASE RxHwtstamp
  BY <1>10 DEF RxHwtstamp, HasStamp
<1>11. CASE Watchdog
  BY <1>11 DEF Watchdog, ClearStuck, Disturbed
<1>12. ASSUME NEW sides \in SUBSET setup.sides, HwtstampSet(sides)
      PROVE  Rates'
  BY <1>12 DEF HwtstampSet, ClearStamps, Crossing, Disturbed
<1>13. ASSUME NEW d \in setup.deltas, UserAdjfreq(d)
      PROVE  Rates'
  BY <1>13 DEF UserAdjfreq, Adjfreq, Magnitude, Crossing
<1>14. CASE MacReset
  BY <1>14 DEF MacReset, ClearStamps, Disturbed
<1>15. CASE ResetFreq
  BY <1>15 DEF ResetFreq
<1>16. CASE ResetAdjust
  BY <1>16 DEF ResetAdjust, Adjfreq, Magnitude
<1>17. CASE ResetNoClock
  BY <1>17 DEF ResetNoClock
<1>18. CASE ResetTime
  BY <1>18 DEF ResetTime
<1>19. CASE ResetReadConfig
  BY <1>19 DEF ResetReadConfig
<1>20. CASE ResetConfig
  BY <1>20 DEF ResetConfig, Restore, ClearStamps, Disturbed
<1>21. CASE RemoveCancel
  BY <1>21 DEF RemoveCancel, CancelWork
<1>22. CASE RemoveDone
  BY <1>22 DEF RemoveDone
<1>23. CASE UNCHANGED ptpVars
  BY <1>23 DEF ptpVars
<1> QED
  BY <1>1, <1>2, <1>3, <1>4, <1>5, <1>6, <1>7, <1>8, <1>9, <1>10, <1>11, <1>12, <1>13, <1>14, <1>15, <1>16, <1>17, <1>18, <1>19, <1>20, <1>21, <1>22, <1>23
     DEF PtpNext, Work, SystimReset

LEMMA ConfigsKept ==
  ASSUME Types, Configs, [PtpNext]_ptpVars
  PROVE  Configs'
<1> USE DEF slotVars, workVars, txVars, rxVars, rateVars, resetVars, configVars, resetFrame
<1> USE DEF Configs, Types, PtpSetup
<1>1. CASE Xmit
  BY <1>1 DEF Xmit, SlotFree, LateStamp
<1>2. CASE HwSend
  BY <1>2 DEF HwSend
<1>3. CASE Expire
  BY <1>3 DEF Expire
<1>4. CASE WorkStart
  BY <1>4 DEF WorkStart, GiveUp, Reschedule
<1>5. CASE ReadStamp
  BY <1>5 DEF ReadStamp, BesideReset
<1>6. CASE Convert
  BY <1>6 DEF Convert, TellsFirst, BesideReset
<1>7. CASE ClearSlot
  BY <1>7 DEF ClearSlot, TellsFirst
<1>8. CASE Tell
  BY <1>8 DEF Tell, TellsFirst
<1>9. ASSUME NEW damaged \in BOOLEAN, RxArrive(damaged)
      PROVE  Configs'
  BY <1>9 DEF RxArrive
<1>10. CASE RxHwtstamp
  BY <1>10 DEF RxHwtstamp, HasStamp
<1>11. CASE Watchdog
  BY <1>11 DEF Watchdog, ClearStuck, Disturbed
<1>12. ASSUME NEW sides \in SUBSET setup.sides, HwtstampSet(sides)
      PROVE  Configs'
  BY <1>12 DEF HwtstampSet, ClearStamps, Crossing, Disturbed
<1>13. ASSUME NEW d \in setup.deltas, UserAdjfreq(d)
      PROVE  Configs'
  BY <1>13 DEF UserAdjfreq, Adjfreq, Magnitude, Crossing
<1>14. CASE MacReset
  BY <1>14 DEF MacReset, ClearStamps, Disturbed
<1>15. CASE ResetFreq
  BY <1>15 DEF ResetFreq
<1>16. CASE ResetAdjust
  BY <1>16 DEF ResetAdjust, Adjfreq, Magnitude
<1>17. CASE ResetNoClock
  BY <1>17 DEF ResetNoClock
<1>18. CASE ResetTime
  BY <1>18 DEF ResetTime
<1>19. CASE ResetReadConfig
  BY <1>19 DEF ResetReadConfig
<1>20. CASE ResetConfig
  BY <1>20 DEF ResetConfig, Restore, ClearStamps, Disturbed
<1>21. CASE RemoveCancel
  BY <1>21 DEF RemoveCancel, CancelWork
<1>22. CASE RemoveDone
  BY <1>22 DEF RemoveDone
<1>23. CASE UNCHANGED ptpVars
  BY <1>23 DEF ptpVars
<1> QED
  BY <1>1, <1>2, <1>3, <1>4, <1>5, <1>6, <1>7, <1>8, <1>9, <1>10, <1>11, <1>12, <1>13, <1>14, <1>15, <1>16, <1>17, <1>18, <1>19, <1>20, <1>21, <1>22, <1>23
     DEF PtpNext, Work, SystimReset

LEMMA QuietKept ==
  ASSUME Types, Slots, Quiet, [PtpNext]_ptpVars
  PROVE  Quiet'
<1> USE DEF slotVars, workVars, txVars, rxVars, rateVars, resetVars, configVars, resetFrame
<1> USE DEF Quiet, Slots, Types, PtpSetup
<1>1. CASE Xmit
  BY <1>1 DEF Xmit, SlotFree, LateStamp
<1>2. CASE HwSend
  BY <1>2 DEF HwSend
<1>3. CASE Expire
  BY <1>3 DEF Expire
<1>4. CASE WorkStart
  BY <1>4 DEF WorkStart, GiveUp, Reschedule
<1>5. CASE ReadStamp
  BY <1>5 DEF ReadStamp, BesideReset
<1>6. CASE Convert
  BY <1>6 DEF Convert, TellsFirst, BesideReset
<1>7. CASE ClearSlot
  BY <1>7 DEF ClearSlot, TellsFirst
<1>8. CASE Tell
  BY <1>8 DEF Tell, TellsFirst
<1>9. ASSUME NEW damaged \in BOOLEAN, RxArrive(damaged)
      PROVE  Quiet'
  BY <1>9 DEF RxArrive
<1>10. CASE RxHwtstamp
  BY <1>10 DEF RxHwtstamp, HasStamp
<1>11. CASE Watchdog
  BY <1>11 DEF Watchdog, ClearStuck, Disturbed
<1>12. ASSUME NEW sides \in SUBSET setup.sides, HwtstampSet(sides)
      PROVE  Quiet'
  BY <1>12 DEF HwtstampSet, ClearStamps, Crossing, Disturbed
<1>13. ASSUME NEW d \in setup.deltas, UserAdjfreq(d)
      PROVE  Quiet'
  BY <1>13 DEF UserAdjfreq, Adjfreq, Magnitude, Crossing
<1>14. CASE MacReset
  BY <1>14 DEF MacReset, ClearStamps, Disturbed
<1>15. CASE ResetFreq
  BY <1>15 DEF ResetFreq
<1>16. CASE ResetAdjust
  BY <1>16 DEF ResetAdjust, Adjfreq, Magnitude
<1>17. CASE ResetNoClock
  BY <1>17 DEF ResetNoClock
<1>18. CASE ResetTime
  BY <1>18 DEF ResetTime
<1>19. CASE ResetReadConfig
  BY <1>19 DEF ResetReadConfig
<1>20. CASE ResetConfig
  BY <1>20 DEF ResetConfig, Restore, ClearStamps, Disturbed
<1>21. CASE RemoveCancel
  BY <1>21 DEF RemoveCancel, CancelWork
<1>22. CASE RemoveDone
  BY <1>22 DEF RemoveDone
<1>23. CASE UNCHANGED ptpVars
  BY <1>23 DEF ptpVars
<1> QED
  BY <1>1, <1>2, <1>3, <1>4, <1>5, <1>6, <1>7, <1>8, <1>9, <1>10, <1>11, <1>12, <1>13, <1>14, <1>15, <1>16, <1>17, <1>18, <1>19, <1>20, <1>21, <1>22, <1>23
     DEF PtpNext, Work, SystimReset

LEMMA OwnTxKept ==
  ASSUME Types, Slots, OwnTx, [PtpNext]_ptpVars
  PROVE  OwnTx'
<1> USE DEF slotVars, workVars, txVars, rxVars, rateVars, resetVars, configVars, resetFrame
<1> USE DEF OwnTx, StampIsOwn, Slots, TellsFirst, Types, PtpTypeOK, Stamps, NoStamp, None, Frames, Arrivals, PtpSetup
<1>1. CASE Xmit
  <2>1. CASE ~SlotFree
    BY <1>1, <2>1 DEF Xmit
  <2>2. CASE SlotFree
    <3>1. /\ slot' = sent + 1 /\ slot' \in Frames /\ txq' = Append(txq, sent + 1)
          /\ exempt \subseteq exempt' /\ (LateStamp => <<"tx", slot'>> \in exempt')
          /\ UNCHANGED <<setup, workVars, txreg, told, resetVars>>
      BY <1>1, <2>2 DEF Xmit
    <3>2. <<"tx", slot'>> \notin exempt' => txreg = NoStamp /\ \A j \in 1..Len(txq') : txq'[j] = slot'
      <4>1. ~LateStamp => txq = <<>> /\ txreg = NoStamp
        BY <2>2 DEF SlotFree, LateStamp
      <4>2. txq = <<>> => \A j \in 1..Len(txq') : txq'[j] = slot'
        BY <3>1
      <4> QED
        BY <3>1, <4>1, <4>2
    <3>3. StampIsOwn'
      BY <3>1
    <3> QED
      BY <3>1, <3>2, <3>3
  <2> QED
    BY <2>1, <2>2
<1>2. CASE HwSend
  BY <1>2 DEF HwSend
<1>3. CASE Expire
  BY <1>3 DEF Expire
<1>4. CASE WorkStart
  BY <1>4 DEF WorkStart, GiveUp, Reschedule
<1>5. CASE ReadStamp
  BY <1>5 DEF ReadStamp, BesideReset
<1>6. CASE Convert
  BY <1>6 DEF Convert, TellsFirst, BesideReset
<1>7. CASE ClearSlot
  BY <1>7 DEF ClearSlot, TellsFirst
<1>8. CASE Tell
  <2>1. wskb \in Frames /\ told' = [told EXCEPT ![wskb] = wstamp] /\ exempt' = exempt
    BY <1>8 DEF Tell
  <2>2. <<"tx", wskb>> \notin exempt => wstamp.frame = wskb /\ (setup.clock => wstamp.clock = 1)
    BY <1>8 DEF Tell
  <2>3. \A f \in Frames : told'[f] = IF f = wskb THEN wstamp ELSE told[f]
    BY <2>1
  <2>4. setup' = setup
    BY <1>8 DEF Tell
  <2>5. StampIsOwn'
    BY <2>1, <2>2, <2>3, <2>4
  <2> QED
    BY <1>8, <2>5 DEF Tell
<1>9. ASSUME NEW damaged \in BOOLEAN, RxArrive(damaged)
      PROVE  OwnTx'
  BY <1>9 DEF RxArrive
<1>10. CASE RxHwtstamp
  BY <1>10 DEF RxHwtstamp, HasStamp
<1>11. CASE Watchdog
  BY <1>11 DEF Watchdog, ClearStuck, Disturbed
<1>12. ASSUME NEW sides \in SUBSET setup.sides, HwtstampSet(sides)
      PROVE  OwnTx'
  BY <1>12 DEF HwtstampSet, ClearStamps, Crossing, Disturbed
<1>13. ASSUME NEW d \in setup.deltas, UserAdjfreq(d)
      PROVE  OwnTx'
  BY <1>13 DEF UserAdjfreq, Adjfreq, Magnitude, Crossing
<1>14. CASE MacReset
  BY <1>14 DEF MacReset, ClearStamps, Disturbed
<1>15. CASE ResetFreq
  BY <1>15 DEF ResetFreq
<1>16. CASE ResetAdjust
  BY <1>16 DEF ResetAdjust, Adjfreq, Magnitude
<1>17. CASE ResetNoClock
  BY <1>17 DEF ResetNoClock
<1>18. CASE ResetTime
  BY <1>18 DEF ResetTime
<1>19. CASE ResetReadConfig
  BY <1>19 DEF ResetReadConfig
<1>20. CASE ResetConfig
  BY <1>20 DEF ResetConfig, Restore, ClearStamps, Disturbed
<1>21. CASE RemoveCancel
  BY <1>21 DEF RemoveCancel, CancelWork
<1>22. CASE RemoveDone
  BY <1>22 DEF RemoveDone
<1>23. CASE UNCHANGED ptpVars
  BY <1>23 DEF ptpVars
<1> QED
  BY <1>1, <1>2, <1>3, <1>4, <1>5, <1>6, <1>7, <1>8, <1>9, <1>10, <1>11, <1>12, <1>13, <1>14, <1>15, <1>16, <1>17, <1>18, <1>19, <1>20, <1>21, <1>22, <1>23
     DEF PtpNext, Work, SystimReset

\* Every frame in the ring that may claim a stamp is disturbed.
LEMMA RxDisturbed ==
  ASSUME Types, NEW i \in 1..Len(rxq), rxq[i].tst
  PROVE  /\ <<"rx", rxq[i].frame>> \in Disturbed
         /\ <<"rx", rxq[i].frame>> \in {d \in Disturbed : d[1] = "rx"}
<1>1. i \in DOMAIN rxq
  BY DEF Types, PtpTypeOK
<1>2. <<"rx", rxq[i].frame>> \in Disturbed
  BY <1>1 DEF Disturbed
<1> QED
  BY <1>2

LEMMA OwnRxKept ==
  ASSUME Types, OwnRx, [PtpNext]_ptpVars
  PROVE  OwnRx'
<1> USE DEF slotVars, workVars, txVars, rxVars, rateVars, resetVars, configVars, resetFrame
<1> USE DEF OwnRx, RxStampIsOwn, Types, PtpTypeOK, None, Arrivals
<1>0. rxq \in Seq(Arrived)
  BY DEF Arrived
<1>1. CASE Xmit
  BY <1>1 DEF Xmit, SlotFree, LateStamp
<1>2. CASE HwSend
  BY <1>2 DEF HwSend
<1>3. CASE Expire
  BY <1>3 DEF Expire
<1>4. CASE WorkStart
  BY <1>4 DEF WorkStart, GiveUp, Reschedule
<1>5. CASE ReadStamp
  BY <1>5 DEF ReadStamp, BesideReset
<1>6. CASE Convert
  BY <1>6 DEF Convert, TellsFirst, BesideReset
<1>7. CASE ClearSlot
  BY <1>7 DEF ClearSlot, TellsFirst
<1>8. CASE Tell
  BY <1>8 DEF Tell, TellsFirst
<1>9. ASSUME NEW damaged \in BOOLEAN, RxArrive(damaged)
      PROVE  OwnRx'
  <2> DEFINE stamped == "rx" \in enabled /\ rxreg = None
             new == [frame |-> rxn + 1, tst |-> stamped /\ ~damaged]
  <2>1. /\ rxq' = Append(rxq, new) /\ new \in Arrived /\ new.frame = rxn + 1
        /\ rxreg' = IF stamped THEN rxn + 1 ELSE rxreg
        /\ rxn' = rxn + 1 /\ UNCHANGED <<rtold, exempt>>
    BY <1>9 DEF RxArrive, Arrived
  <2>2. (new.tst => rxreg' = new.frame) /\ (rxreg # None => rxreg' = rxreg)
    BY <2>1
  <2> HIDE DEF new, stamped
  <2>3. InOrder(rxq', rxn')
    BY <1>0, <2>1, AppendInOrder
  <2>4. /\ \A k \in 1..Len(rxq') : k \in 1..Len(rxq) \/ k = Len(rxq) + 1
        /\ rxq'[Len(rxq) + 1] = new /\ \A k \in 1..Len(rxq) : rxq'[k] = rxq[k] /\ rxq[k] \in Arrived
    BY <1>0, <2>1, AppendOf
  <2>5. \A k \in 1..Len(rxq) : rxq[k].tst /\ <<"rx", rxq[k].frame>> \notin exempt => rxreg' = rxq[k].frame
    <3>1. \A k \in 1..Len(rxq) : rxq[k].frame # None
      BY <2>4 DEF Arrived
    <3> QED
      BY <2>2, <3>1
  <2>6. \A k \in 1..Len(rxq') : rxq'[k].tst /\ <<"rx", rxq'[k].frame>> \notin exempt' => rxreg' = rxq'[k].frame
    BY <2>1, <2>2, <2>4, <2>5
  <2>7. RxStampIsOwn'
    BY <2>1
  <2> QED
    BY <2>3, <2>6, <2>7
<1>10. CASE RxHwtstamp
  <2> DEFINE h == Head(rxq)
  <2>1. rxq # <<>> /\ rxq' = Tail(rxq) /\ rxn' = rxn
    BY <1>10 DEF RxHwtstamp
  <2>2. /\ h \in Arrived /\ h = rxq[1] /\ 1 \in 1..Len(rxq)
        /\ \A k \in 1..Len(rxq') : k + 1 \in 1..Len(rxq) /\ rxq'[k] = rxq[k + 1]
    BY <1>0, <2>1, TailOf
  <2>3. InOrder(rxq', rxn') /\ \A k \in 1..Len(rxq') : h.frame < rxq'[k].frame
    BY <1>0, <2>1, TailInOrder
  <2> HIDE DEF h
  <2>4. CASE ~HasStamp(h)
    <3>1. UNCHANGED <<rtold, rxreg, check, exempt>>
      BY <1>10, <2>4 DEF RxHwtstamp, h
    <3>2. RxStampIsOwn'
      BY <3>1
    <3>3. \A k \in 1..Len(rxq') : rxq'[k].tst /\ <<"rx", rxq'[k].frame>> \notin exempt' => rxreg' = rxq'[k].frame
      <4> SUFFICES ASSUME NEW k \in 1..Len(rxq')
                   PROVE  rxq'[k].tst /\ <<"rx", rxq'[k].frame>> \notin exempt' => rxreg' = rxq'[k].frame
        OBVIOUS
      <4>1. k + 1 \in 1..Len(rxq) /\ rxq'[k] = rxq[k + 1]
        BY <2>2
      <4>2. rxq[k + 1].tst /\ <<"rx", rxq[k + 1].frame>> \notin exempt => rxreg = rxq[k + 1].frame
        BY <4>1
      <4> QED
        BY <3>1, <4>1, <4>2
    <3> QED
      BY <2>3, <3>2, <3>3
  <2>5. CASE HasStamp(h)
    <3>1. /\ h.tst /\ rxreg # None /\ rxreg' = None
          /\ rtold' = [rtold EXCEPT ![h.frame] = rxreg]
          /\ exempt' = IF rxreg = h.frame THEN exempt ELSE exempt \cup {<<"rx", rxreg>>}
      BY <1>10, <2>5 DEF RxHwtstamp, HasStamp, h
    <3>2. <<"rx", h.frame>> \notin exempt => rxreg = h.frame
      BY <2>2, <3>1
    <3>3. \A k \in 1..Len(rxq') : rxq'[k].tst => <<"rx", rxq'[k].frame>> \in exempt'
      <4> SUFFICES ASSUME NEW k \in 1..Len(rxq'), rxq'[k].tst, <<"rx", rxq'[k].frame>> \notin exempt'
                   PROVE  FALSE
        OBVIOUS
      <4>1. k + 1 \in 1..Len(rxq) /\ rxq'[k] = rxq[k + 1]
        BY <2>2
      <4>2. <<"rx", rxq[k + 1].frame>> \notin exempt
        BY <3>1, <4>1
      <4>3. rxreg = rxq'[k].frame
        BY <4>1, <4>2
      <4>4. rxreg # h.frame
        <5>1. h.frame \in Int /\ h.frame < rxq'[k].frame
          BY <2>2, <2>3 DEF Arrived
        <5> QED
          BY <4>3, <5>1
      <4> QED
        BY <3>1, <4>3, <4>4
    <3>4. RxStampIsOwn'
      BY <2>2, <3>1, <3>2 DEF Arrived
    <3> QED
      BY <2>3, <3>3, <3>4
  <2> QED
    BY <2>4, <2>5
<1>11. CASE Watchdog
  <2>1. CASE UNCHANGED <<rxreg, exempt>>
    BY <1>11, <2>1 DEF Watchdog
  <2>2. CASE exempt' = exempt \cup {d \in Disturbed : d[1] = "rx"}
    <3>1. \A i \in 1..Len(rxq) : rxq[i].tst => <<"rx", rxq[i].frame>> \in exempt'
      BY <2>2, RxDisturbed
    <3> QED
      BY <1>11, <2>2, <3>1 DEF Watchdog
  <2> QED
    BY <1>11, <2>1, <2>2 DEF Watchdog
<1>12. ASSUME NEW sides \in SUBSET setup.sides, HwtstampSet(sides)
      PROVE  OwnRx'
  <2>1. \A i \in 1..Len(rxq) : rxq[i].tst => <<"rx", rxq[i].frame>> \in exempt'
    BY <1>12, RxDisturbed DEF HwtstampSet, ClearStamps
  <2> QED
    BY <1>12, <2>1 DEF HwtstampSet, ClearStamps
<1>13. ASSUME NEW d \in setup.deltas, UserAdjfreq(d)
      PROVE  OwnRx'
  BY <1>13 DEF UserAdjfreq, Adjfreq, Magnitude, Crossing
<1>14. CASE MacReset
  BY <1>14 DEF MacReset, ClearStamps, InOrder
<1>15. CASE ResetFreq
  BY <1>15 DEF ResetFreq
<1>16. CASE ResetAdjust
  BY <1>16 DEF ResetAdjust, Adjfreq, Magnitude
<1>17. CASE ResetNoClock
  BY <1>17 DEF ResetNoClock
<1>18. CASE ResetTime
  BY <1>18 DEF ResetTime
<1>19. CASE ResetReadConfig
  BY <1>19 DEF ResetReadConfig
<1>20. CASE ResetConfig
  <2>1. \A i \in 1..Len(rxq) : rxq[i].tst => <<"rx", rxq[i].frame>> \in exempt'
    BY <1>20, RxDisturbed DEF ResetConfig, ClearStamps
  <2> QED
    BY <1>20, <2>1 DEF ResetConfig, ClearStamps
<1>21. CASE RemoveCancel
  BY <1>21 DEF RemoveCancel, CancelWork
<1>22. CASE RemoveDone
  BY <1>22 DEF RemoveDone, InOrder
<1>23. CASE UNCHANGED ptpVars
  BY <1>23 DEF ptpVars
<1> QED
  BY <1>1, <1>2, <1>3, <1>4, <1>5, <1>6, <1>7, <1>8, <1>9, <1>10, <1>11, <1>12, <1>13, <1>14, <1>15, <1>16, <1>17, <1>18, <1>19, <1>20, <1>21, <1>22, <1>23
     DEF PtpNext, Work, SystimReset

LEMMA UntoldKept ==
  ASSUME Types, Slots, Untold, [PtpNext]_ptpVars
  PROVE  Untold'
<1> USE DEF slotVars, workVars, txVars, rxVars, rateVars, resetVars, configVars, resetFrame
<1> USE DEF Untold, Slots, TellsFirst, Types, PtpTypeOK, Stamps, NoStamp, None, Frames, Arrivals, PtpSetup
<1>1. CASE Xmit
  BY <1>1, SMTT(20) DEF Xmit, SlotFree, LateStamp
<1>2. CASE HwSend
  BY <1>2 DEF HwSend
<1>3. CASE Expire
  BY <1>3 DEF Expire
<1>4. CASE WorkStart
  BY <1>4 DEF WorkStart, GiveUp, Reschedule
<1>5. CASE ReadStamp
  BY <1>5 DEF ReadStamp, BesideReset
<1>6. CASE Convert
  BY <1>6 DEF Convert, TellsFirst, BesideReset
<1>7. CASE ClearSlot
  BY <1>7 DEF ClearSlot, TellsFirst
<1>8. CASE Tell
  BY <1>8 DEF Tell, TellsFirst
<1>9. ASSUME NEW damaged \in BOOLEAN, RxArrive(damaged)
      PROVE  Untold'
  BY <1>9 DEF RxArrive
<1>10. CASE RxHwtstamp
  BY <1>10 DEF RxHwtstamp, HasStamp
<1>11. CASE Watchdog
  BY <1>11 DEF Watchdog, ClearStuck, Disturbed
<1>12. ASSUME NEW sides \in SUBSET setup.sides, HwtstampSet(sides)
      PROVE  Untold'
  BY <1>12 DEF HwtstampSet, ClearStamps, Crossing, Disturbed
<1>13. ASSUME NEW d \in setup.deltas, UserAdjfreq(d)
      PROVE  Untold'
  BY <1>13 DEF UserAdjfreq, Adjfreq, Magnitude, Crossing
<1>14. CASE MacReset
  BY <1>14 DEF MacReset, ClearStamps, Disturbed
<1>15. CASE ResetFreq
  BY <1>15 DEF ResetFreq
<1>16. CASE ResetAdjust
  BY <1>16 DEF ResetAdjust, Adjfreq, Magnitude
<1>17. CASE ResetNoClock
  BY <1>17 DEF ResetNoClock
<1>18. CASE ResetTime
  BY <1>18 DEF ResetTime
<1>19. CASE ResetReadConfig
  BY <1>19 DEF ResetReadConfig
<1>20. CASE ResetConfig
  BY <1>20 DEF ResetConfig, Restore, ClearStamps, Disturbed
<1>21. CASE RemoveCancel
  BY <1>21 DEF RemoveCancel, CancelWork
<1>22. CASE RemoveDone
  BY <1>22 DEF RemoveDone
<1>23. CASE UNCHANGED ptpVars
  BY <1>23 DEF ptpVars
<1> QED
  BY <1>1, <1>2, <1>3, <1>4, <1>5, <1>6, <1>7, <1>8, <1>9, <1>10, <1>11, <1>12, <1>13, <1>14, <1>15, <1>16, <1>17, <1>18, <1>19, <1>20, <1>21, <1>22, <1>23
     DEF PtpNext, Work, SystimReset

-----------------------------------------------------------------------------
IInv == Types /\ Slots /\ Configs /\ Quiet /\ OwnTx /\ OwnRx /\ Untold

LEMMA InitIInv ==
  ASSUME PtpInit
  PROVE  IInv
<1> USE DEF PtpInit, NoStamp, None, Frames, Arrivals
<1>1. setup \in PtpSetup
  BY PtpAssumption
<1>2. told \in [Frames -> Stamps] /\ rtold \in [Arrivals -> Arrivals \cup {None}]
  BY DEF Stamps
<1>3. txreg \in Stamps /\ wstamp \in Stamps /\ clocks \in [systim : Nat, tc : Nat]
  BY DEF Stamps
<1>4. txq \in Seq(Frames) /\ rxq \in Seq([frame : Arrivals, tst : BOOLEAN])
  OBVIOUS
<1>5. PtpTypeOK
  BY <1>2, <1>4 DEF PtpTypeOK, Stamps
<1>6. Types
  BY <1>1, <1>3, <1>5 DEF Types
<1>7. Slots /\ Configs /\ Quiet
  BY DEF Slots, Configs, Quiet, TellsFirst
<1>8. OwnTx /\ OwnRx
  BY DEF OwnTx, StampIsOwn, OwnRx, InOrder, RxStampIsOwn
<1>9. Untold
  BY DEF Untold
<1> QED
  BY <1>8, <1>9, <1>6, <1>7 DEF IInv

LEMMA NextIInv ==
  ASSUME IInv, [PtpNext]_ptpVars
  PROVE  IInv'
BY TypesKept, SlotsKept, ConfigsKept, QuietKept, OwnTxKept, OwnRxKept, UntoldKept DEF IInv

\* The types of the state.
THEOREM PtpIsTyped == PtpSpec => []PtpTypeOK
<1>1. IInv => PtpTypeOK
  BY DEF IInv, Types
<1> QED
  BY <1>1, InitIInv, NextIInv, PTL DEF PtpSpec

\* Whatever the interleaving of the transmit path, the work item, time-outs, resets,
\* ioctls and removal, a frame that the ghost does not exempt gets its own stamp on its
\* own clock (e1000e_tx_hwtstamp_work).
THEOREM StampsAreOwn == PtpSpec => []StampIsOwn
<1>1. IInv => StampIsOwn
  BY DEF IInv, OwnTx
<1> QED
  BY <1>1, InitIInv, NextIInv, PTL DEF PtpSpec

\* The same of received frames (e1000e_rx_hwtstamp).
THEOREM RxStampsAreOwn == PtpSpec => []RxStampIsOwn
<1>1. IInv => RxStampIsOwn
  BY DEF IInv, OwnRx
<1> QED
  BY <1>1, InitIInv, NextIInv, PTL DEF PtpSpec

\* After any number of resets those packets get stamps that the user chose last
\* (e1000e_systim_reset).
THEOREM ConfigIsKept == PtpSpec => []ConfigKept
<1>1. IInv => ConfigKept
  BY DEF IInv, Configs, ConfigKept
<1> QED
  BY <1>1, InitIInv, NextIInv, PTL DEF PtpSpec

\* A removed device has no work and no frame left (e1000_remove).
THEOREM RemovedStaysQuiet == PtpSpec => []RemovedIsQuiet
<1>1. IInv => RemovedIsQuiet
  BY DEF IInv, Quiet, RemovedIsQuiet
<1> QED
  BY <1>1, InitIInv, NextIInv, PTL DEF PtpSpec

\* In the newer copy no frame goes without its stamp because of one whose stamp the stack
\* has got already (e1000_xmit_frame).
THEOREM SlotIsFreeInTime == PtpSpec => SkipsWhileOutstanding
<1>1. ASSUME IInv, [PtpNext]_ptpVars
      PROVE  skipped' > skipped /\ setup.release = "3.4.2" => slot # None /\ told[slot] = NoStamp
  <2>1. CASE Xmit
    BY <1>1, <2>1 DEF Xmit, SlotFree, IInv, Types, Untold
  <2>2. CASE ~Xmit
    <3>1. skipped' = skipped
      BY <1>1, <2>2 DEF PtpNext, Work, SystimReset, HwSend, Expire, WorkStart, ReadStamp, Convert, ClearSlot, Tell,
         RxArrive, RxHwtstamp, Watchdog, HwtstampSet, UserAdjfreq, MacReset, ResetFreq, ResetAdjust, ResetNoClock,
         ResetTime, ResetReadConfig, ResetConfig, RemoveCancel, RemoveDone, txVars, ptpVars, resetFrame
    <3> QED
      BY <1>1, <3>1 DEF IInv, Types
  <2> QED
    BY <2>1, <2>2
<1> QED
  BY <1>1, InitIInv, NextIInv, PTL DEF PtpSpec, SkipsWhileOutstanding

\* However often the adapter is reset, its clock runs at the rate last asked for
\* (e1000e_phc_adjfreq, e1000e_systim_reset), if nobody ever slows it down.
THEOREM FrequencyIsKept ==
  ASSUME \A s \in PtpSetups : s.deltas \subseteq Nat
  PROVE  PtpSpec => []FrequencyKept
<1>1. PtpInit => IInv /\ Rates
  <2>1. PtpInit => Rates
    BY DEF PtpInit, Rates
  <2> QED
    BY <2>1, InitIInv
<1>2. IInv /\ Rates /\ [PtpNext]_ptpVars => (IInv /\ Rates)'
  BY NextIInv, RatesKept DEF IInv
<1>3. Rates => FrequencyKept
  BY DEF Rates, FrequencyKept
<1> QED
  BY <1>1, <1>2, <1>3, PTL DEF PtpSpec

\* A few increments carry from the low half of SYSTIM into the high one at most once.
LEMMA HalvesCarryOnce ==
  ASSUME NEW systim \in Nat, NEW n \in 0..12
  PROVE  LET low(x) == (systim + x) % 16
             high(x) == ((systim + x) \div 16) % 16
         IN  /\ IF (systim % 16) + n < 16
                THEN low(n) = (systim % 16) + n /\ high(n) = (systim \div 16) % 16
                ELSE low(n) = (systim % 16) + n - 16 /\ high(n) = ((systim \div 16) + 1) % 16
             /\ (systim + n) % 256 = low(n) + 16 * high(n)
<1> DEFINE q == systim \div 16
           c == systim % 16
<1>1. q \in Nat /\ c \in 0..15 /\ systim = 16 * q + c
  OBVIOUS
<1> HIDE DEF q, c
<1>2. IF c + n < 16 THEN (systim + n) % 16 = c + n /\ (systim + n) \div 16 = q
      ELSE (systim + n) % 16 = c + n - 16 /\ (systim + n) \div 16 = q + 1
  BY <1>1
<1>3. (systim + n) % 256 = ((systim + n) % 16) + 16 * (((systim + n) \div 16) % 16)
  <2> DEFINE s == systim + n
             r == s \div 16
             d == s % 16
             g == r \div 16
             h == r % 16
  <2>1. s \in Nat
    BY <1>1
  <2>2. r \in Nat /\ d \in 0..15 /\ s = 16 * r + d
    BY <2>1
  <2> HIDE DEF s, r, d
  <2>3. g \in Nat /\ h \in 0..15 /\ r = 16 * g + h
    BY <2>2
  <2> HIDE DEF g, h
  <2>4. s = 256 * g + (16 * h + d) /\ 16 * h + d \in 0..255
    BY <2>2, <2>3
  <2>5. s % 256 = 16 * h + d
    BY <2>3, <2>4
  <2> QED
    BY <2>2, <2>3, <2>5 DEF s, r, d, h
<1> QED
  BY <1>2, <1>3 DEF q, c

\* A read of the two halves, however they move in between, is a value SYSTIM had.
LEMMA ReadIsTrue ==
  ASSUME NEW systim \in Nat, NEW inc \in 1..3, NEW gap \in 0..2, NEW late1 \in 0..1,
         NEW late2 \in 0..1
  PROVE  CyclecounterRead(systim, 3, 16, 0, inc * late1, inc * (late1 + gap),
                          inc * (late1 + gap + late2)) \in
           {(systim + inc * n) % 256 : n \in 0..(late1 + gap + late2)}
<1> DEFINE low(x) == (systim + x) % 16
           high(x) == ((systim + x) \div 16) % 16
           j == inc * late1
           k == inc * (late1 + gap)
           l == inc * (late1 + gap + late2)
           c == systim % 16
           q == systim \div 16
<1>1. j \in 0..3 /\ k \in 0..9 /\ l \in 0..12 /\ j <= k /\ k <= l /\ l <= k + 3
  <2>1. inc \in {1, 2, 3} /\ late1 \in {0, 1} /\ late2 \in {0, 1} /\ gap \in {0, 1, 2}
    OBVIOUS
  <2> QED
    BY <2>1
<1>2. \A n \in 0..12 :
        /\ IF c + n < 16 THEN low(n) = c + n /\ high(n) = q % 16
           ELSE low(n) = c + n - 16 /\ high(n) = (q + 1) % 16
        /\ (systim + n) % 256 = low(n) + 16 * high(n)
  BY HalvesCarryOnce
<1>3. c \in 0..15 /\ q \in Nat
  OBVIOUS
<1>4. CyclecounterRead(systim, 3, 16, 0, j, k, l) =
        IF low(0) >= 12 /\ low(0) > low(k) THEN low(k) + 16 * high(l) ELSE low(0) + 16 * high(j)
  BY DEF CyclecounterRead
<1>5. ASSUME NEW n \in {0, late1 + gap}
      PROVE  (systim + inc * n) % 256 \in
               {(systim + inc * m) % 256 : m \in 0..(late1 + gap + late2)}
  <2>1. n \in 0..(late1 + gap + late2)
    OBVIOUS
  <2> QED
    BY <2>1, Zenon
<1>6. k = inc * (late1 + gap) /\ inc * 0 = 0
  OBVIOUS
<1> HIDE DEF j, k, l, low, high, c, q
<1>7. CASE low(0) >= 12 /\ low(0) > low(k)
  <2>1. c + k >= 16 /\ c + l >= 16
    <3>1. low(0) = c
      BY <1>2, <1>3
    <3>2. IF c + k < 16 THEN low(k) = c + k ELSE low(k) = c + k - 16
      BY <1>1, <1>2
    <3>3. ~(c + k < 16)
      BY <1>1, <1>3, <1>7, <3>1, <3>2
    <3> QED
      BY <1>1, <1>3, <3>3
  <2>2. high(l) = high(k)
    BY <1>1, <1>2, <1>3, <2>1
  <2>3. (systim + k) % 256 = low(k) + 16 * high(l)
    BY <1>1, <1>2, <2>2
  <2> QED
    BY <1>4, <1>5, <1>6, <1>7, <2>3 DEF j, l, k
<1>8. CASE ~(low(0) >= 12 /\ low(0) > low(k))
  <2>1. c + j < 16 /\ c + 0 < 16
    <3>1. low(0) = c
      BY <1>2, <1>3
    <3>2. IF c + k < 16 THEN low(k) = c + k ELSE low(k) = c + k - 16
      BY <1>1, <1>2
    <3> QED
      BY <1>1, <1>3, <1>8, <3>1, <3>2
  <2>2. high(j) = high(0)
    BY <1>1, <1>2, <1>3, <2>1
  <2>3. (systim + 0) % 256 = low(0) + 16 * high(j)
    BY <1>1, <1>2, <2>2
  <2> QED
    BY <1>4, <1>5, <1>6, <1>8, <2>3 DEF j, l, k
<1> QED
  BY <1>7, <1>8

\* Whatever SYSTIM has when a read of its halves begins, the result is a value it had while
\* it was read (netdev.c:4878-4911).
THEOREM SystimIsReadTrue == PtpSpec => []SystimReadsTrue
<1>1. IInv => SystimReadsTrue
  <2> SUFFICES ASSUME setup \in PtpSetup PROVE SystimReadsTrue
    BY DEF IInv, Types
  <2>1. setup.systims \subseteq Nat
    BY DEF PtpSetup
  <2> QED
    BY <2>1, ReadIsTrue DEF SystimReadsTrue
<1> QED
  BY <1>1, InitIInv, NextIInv, PTL DEF PtpSpec

\* All that is promised of stamps, together (e1000e_tx_hwtstamp_work, e1000e_rx_hwtstamp,
\* e1000_remove).
THEOREM StampsStaySound == PtpSpec => []StampsSound
BY PtpIsTyped, StampsAreOwn, RxStampsAreOwn, RemovedStaysQuiet, PTL DEF StampsSound

\* All that is promised of settings (e1000e_systim_reset): the rate is kept where nobody
\* slows the clock down.
THEOREM SettingsStayKept ==
  ASSUME \A s \in PtpSetups : s.deltas \subseteq Nat
  PROVE  PtpSpec => []SettingsKept
BY FrequencyIsKept, ConfigIsKept, PTL DEF SettingsKept

\* An increment of v, in units of which u are a nanosecond, fits TIMINCA's 24 bits however
\* the frequency is changed by at most m thousandths.
Fits(v, u, m) ==
  \A d \in -999..600 : d <= m /\ d > -1000 => v * (1000 + d) <= (TimincaSize \div u) * 1000

\* SYSTIM, counting in units of which cc are a nanosecond, is read in time.
InTime(cc, m) == 240 * (1000 + m) <= 1000 * (((TimincaSize \div cc) * Shift19) \div 57221)

\* Which clock an adapter may have, and the largest change of its frequency.
Has(mac, syscfi, clock, m) == BaseClock(mac, syscfi) = clock /\ MaxAdj(mac, syscfi) = m

\* What is to be shown of an adapter's clock.
ClockFits(mac, syscfi) ==
  /\ Fits(BaseClock(mac, syscfi).value, BaseClock(mac, syscfi).unit, MaxAdj(mac, syscfi))
  /\ InTime(BaseClock(mac, syscfi).cc, MaxAdj(mac, syscfi))

\* The largest increment each clock is adjusted to fits TIMINCA's 24 bits, and SYSTIM is
\* read before it has gone half way round: of all clocks but the 38.4 MHz one.
LEMMA ClocksFit ==
  ASSUME NEW mac \in MacTypes, NEW syscfi \in BOOLEAN, ~(mac = "pch_cnp" /\ syscfi = FALSE),
         BaseClock(mac, syscfi) # NoClock
  PROVE  ClockFits(mac, syscfi)
<1>1. \/ Has(mac, syscfi, Clock96, 24) \/ Has(mac, syscfi, Clock25, 600)
      \/ Has(mac, syscfi, Clock24, 24)
  <2>1. CASE syscfi = TRUE
    BY <2>1 DEF Has, BaseClock, MaxAdj, MacTypes
  <2>2. CASE syscfi = FALSE
    BY <2>2 DEF Has, BaseClock, MaxAdj, MacTypes
  <2> QED
    BY <2>1, <2>2, Zenon
<1>2. CASE Has(mac, syscfi, Clock96, 24)
  <2>1. Clock96.value = 125 /\ Clock96.unit = Shift17 /\ Clock96.cc = Shift19
    BY SMT DEF Clock96
  <2>2. Fits(125, Shift17, 24) /\ InTime(Shift19, 24)
    BY SMT DEF Fits, InTime, Shift17, Shift19, TimincaSize
  <2> QED
    BY <1>2, <2>1, <2>2, SMT DEF ClockFits, Has
<1>3. CASE Has(mac, syscfi, Clock25, 600)
  <2>1. Clock25.value = 40 /\ Clock25.unit = Shift18 /\ Clock25.cc = Shift18
    BY SMT DEF Clock25
  <2>2. Fits(40, Shift18, 600) /\ InTime(Shift18, 600)
    BY SMT DEF Fits, InTime, Shift18, Shift19, TimincaSize
  <2> QED
    BY <1>3, <2>1, <2>2, SMT DEF ClockFits, Has
<1>4. CASE Has(mac, syscfi, Clock24, 24)
  <2>1. Clock24.value = 125 /\ Clock24.unit = Shift14 /\ Clock24.cc = Shift14
    BY SMT DEF Clock24
  <2>2. Fits(125, Shift14, 24) /\ InTime(Shift14, 24)
    BY SMT DEF Fits, InTime, Shift14, Shift19, TimincaSize
  <2> QED
    BY <1>4, <2>1, <2>2, SMT DEF ClockFits, Has
<1> QED
  BY <1>1, <1>2, <1>3, <1>4, Zenon

\* The adapters a run looks at have no 38.4 MHz clock.
NoClock38 == <<"pch_cnp", FALSE>> \notin setup.macs

\* The clock is true: its increment fits however it is adjusted, it is read before it has gone
\* round (e1000.h:442-451), and reads of its halves are of one value (netdev.c:4878-4911):
\* for adapters without the 38.4 MHz clock, whose increment does not fit (e1000.h:417-419).
THEOREM ClockStaysTrue ==
  ASSUME \A s \in PtpSetups : <<"pch_cnp", FALSE>> \notin s.macs
  PROVE  PtpSpec => []ClockTrue
<1>1. PtpInit => NoClock38
  BY DEF PtpInit, NoClock38
<1>2. IInv /\ NoClock38 /\ [PtpNext]_ptpVars => NoClock38'
  <2> SUFFICES ASSUME IInv, NoClock38, [PtpNext]_ptpVars
               PROVE  setup'.macs = setup.macs
    BY DEF NoClock38
  <2>1. setup \in PtpSetup
    BY DEF IInv, Types
  <2>2. ASSUME NEW sides \in SUBSET setup.sides, HwtstampSet(sides)
        PROVE  setup'.macs = setup.macs
    BY <2>1, <2>2 DEF HwtstampSet, PtpSetup
  <2>3. CASE MacReset
    BY <2>1, <2>3 DEF MacReset, PtpSetup
  <2>4. CASE ~MacReset /\ ~(\E sides \in SUBSET setup.sides : HwtstampSet(sides))
    <3>1. UNCHANGED setup
      BY <2>4 DEF PtpNext, Work, SystimReset, ptpVars, resetFrame, Xmit, HwSend, Expire,
                  WorkStart, ReadStamp, Convert, ClearSlot, Tell, RxArrive, RxHwtstamp,
                  Watchdog, UserAdjfreq, ResetFreq, ResetAdjust, ResetNoClock, ResetTime,
                  ResetReadConfig, ResetConfig, RemoveCancel, RemoveDone
    <3> QED
      BY <3>1
  <2> QED
    BY <2>2, <2>3, <2>4
<1>3. IInv /\ NoClock38 => RateFits /\ ReadsInTime
  <2> SUFFICES ASSUME IInv, NoClock38
               PROVE  RateFits /\ ReadsInTime
    OBVIOUS
  <2>1. setup.macs \subseteq MacTypes \X BOOLEAN
    BY DEF IInv, Types, PtpSetup
  <2>2. ASSUME NEW m \in setup.macs, BaseClock(m[1], m[2]) # NoClock
        PROVE  ClockFits(m[1], m[2])
    <3>1. m[1] \in MacTypes /\ m[2] \in BOOLEAN /\ m = <<m[1], m[2]>>
      BY <2>1
    <3>2. ~(m[1] = "pch_cnp" /\ m[2] = FALSE)
      BY <3>1 DEF NoClock38
    <3> QED
      BY <2>2, <3>1, <3>2, ClocksFit
  <2>3. RateFits
    <3>1. ASSUME NEW m \in setup.macs, BaseClock(m[1], m[2]) # NoClock
          PROVE  Fits(BaseClock(m[1], m[2]).value, BaseClock(m[1], m[2]).unit,
                      MaxAdj(m[1], m[2]))
      BY <2>2, <3>1 DEF ClockFits
    <3> QED
      BY <3>1, Zenon DEF RateFits, Fits, Adjustable
  <2>4. ReadsInTime
    BY <2>2, SMT DEF ReadsInTime, ClockFits, InTime
  <2> QED
    BY <2>3, <2>4
<1> QED
  BY <1>1, <1>2, <1>3, InitIInv, NextIInv, SystimIsReadTrue, PTL DEF PtpSpec, ClockTrue
=============================================================================
