-------------------------------- MODULE Ptp --------------------------------
(***************************************************************************)
(* Hardware time stamps and the PTP clock.  The adapter keeps one transmit *)
(* and one receive stamp.  A frame that wants a stamp takes the slot       *)
(* tx_hwtstamp_skb, and a work item polls for its stamp; a receive stamp   *)
(* is read when the frame that has it is cleaned, and by the watchdog when *)
(* it is stuck.  A reset stops the clock and then restores what the user   *)
(* had set: the frequency, the time, the packets that get stamps.          *)
(***************************************************************************)
EXTENDS Integers, Sequences, SequencesExt

CONSTANTS
  PtpSetups,   \* what a run looks at: records as in PtpSetup
  FrameCount,  \* frames that want a stamp, sent in order
  ArrivalCount \* frames received, in order

MacTypes == {"pch2lan", "pch_lpt", "pch_spt", "pch_cnp", "82574"}

PtpSetup ==
  [release : {"3.3.5", "3.4.2"},  \* the copy of the driver
   late : BOOLEAN,                \* a stamp may come after tx_timeout_factor seconds
   clock : BOOLEAN,               \* e1000e_get_base_timinca knows the clock
   deltas : SUBSET Int,           \* frequencies the user asks for
   macs : SUBSET (MacTypes \X BOOLEAN), \* <<mac type, TSYNCRXCTL_SYSCFI>>
   systims : SUBSET Nat,          \* values of SYSTIM when a read of it begins
   resets : Nat, ioctls : Nat,    \* bounds
   sending : BOOLEAN,             \* the stack sends while the driver is removed
   sides : SUBSET {"tx", "rx"}]   \* the stamps that are used

ASSUME PtpAssumption ==
  /\ PtpSetups \subseteq PtpSetup
  /\ FrameCount \in Nat /\ ArrivalCount \in Nat

VARIABLES
  setup,
  slot, since, scheduled,   \* tx_hwtstamp_skb, "fresh" or "late", tx_hwtstamp_work
  wpc, wskb, wstamp,        \* the work item
  sent, txq, txreg,         \* marked frames sent, in the ring, TXSTMP if valid
  told, skipped,            \* stamps the stack got; frames that got no slot
  rxn, rxq, rxreg, check,   \* arrivals, in the ring, RXSTMP if valid, CHECK_RX_HWTSTAMP
  rtold,
  config, enabled,          \* hwtstamp_config; what is on in the adapter
  timinca, ptpDelta, asked, \* 100 + the rate in use, or None; adapter->ptp_delta; what the user asked for
  rpc, rdelta, rconfig,     \* a reset, ptp_delta and hwtstamp_config as it read them
  clocks,                   \* which clock SYSTIM counts on, and the timecounter is for
  removal,                  \* "no", "cancelled", "gone"
  exempt, crossed           \* ghosts, see StampIsOwn and FrequencyKept

slotVars == <<slot, since, scheduled>>
workVars == <<wpc, wskb, wstamp>>
txVars == <<sent, txq, txreg, told, skipped>>
rxVars == <<rxn, rxq, rxreg, check, rtold>>
rateVars == <<timinca, ptpDelta, asked>>
resetVars == <<rpc, rdelta, rconfig, clocks>>
configVars == <<config, enabled>>
ptpVars == <<setup, slotVars, workVars, txVars, rxVars, rateVars, resetVars, configVars,
             removal, exempt, crossed>>

None == 0
Frames == 1..FrameCount
Arrivals == 1..ArrivalCount

\* A stamp: the frame it is for, and the clock it was taken on.
NoStamp == [frame |-> None, clock |-> 0]
-----------------------------------------------------------------------------
(* The increment of SYSTIM for each clock: nanoseconds, the unit that is   *)
(* one of them, clock ticks per increment, the unit of the cyclecounter,   *)
(* and the largest change of the frequency, in thousandths.                *)

\* 1 << 14 and 1 << 17 to 1 << 19; the 24 bits of TIMINCA's increment.
Shift14 == 16384
Shift17 == 131072
Shift18 == 262144
Shift19 == 524288
TimincaSize == 16777216

Clock96 == [value |-> 125, unit |-> Shift17, period |-> 3, cc |-> Shift19]
Clock25 == [value |-> 40, unit |-> Shift18, period |-> 1, cc |-> Shift18]
Clock24 == [value |-> 125, unit |-> Shift14, period |-> 3, cc |-> Shift14]
Clock38 == [value |-> 26, unit |-> Shift19, period |-> 1, cc |-> Shift19]
NoClock == [value |-> 0, unit |-> 1, period |-> 0, cc |-> 1]

BadBaseClock(mac, syscfi) ==
  CASE mac = "pch2lan" -> Clock96
    [] mac = "pch_lpt" -> IF syscfi THEN Clock96 ELSE Clock25
    [] mac = "pch_spt" -> IF syscfi THEN Clock24 ELSE NoClock
    [] mac = "pch_cnp" -> IF syscfi THEN Clock24 ELSE Clock38
    [] mac = "82574" -> Clock38

BaseClock(mac, syscfi) ==
  CASE mac = "pch2lan" -> Clock96
    [] mac = "pch_lpt" -> IF syscfi THEN Clock96 ELSE Clock25
    [] mac = "pch_spt" -> IF syscfi THEN Clock24 ELSE NoClock
    [] mac = "pch_cnp" -> IF syscfi THEN Clock24 ELSE Clock38
    [] mac = "82574" -> Clock25

BadMaxAdj(mac, syscfi) == 600

MaxAdj(mac, syscfi) == IF mac = "pch2lan" \/ (mac # "82574" /\ syscfi) THEN 24 ELSE 600

\* e1000e_phc_adjfreq refuses more than max_adj and less than minus everything.
Adjustable(mac, syscfi, d) == d <= MaxAdj(mac, syscfi) /\ d > -1000

\* SYSTIM in two halves of W values each, the low one read i increments, the high one j, the
\* low one again k and the high one l increments after the start.
BadCyclecounterRead(systim, mask, W, i, j, k, l) ==
  LET low(n) == (systim + n) % W
      high(n) == ((systim + n) \div W) % W
  IN  IF low(i) >= W - 1 - mask /\ low(i) > low(k)
      THEN low(i) + W * high(l)
      ELSE low(i) + W * high(j)

CyclecounterRead(systim, mask, W, i, j, k, l) ==
  LET low(n) == (systim + n) % W
      high(n) == ((systim + n) \div W) % W
  IN  IF low(i) >= W - 1 - mask /\ low(i) > low(k)
      THEN low(k) + W * high(l)
      ELSE low(i) + W * high(j)

-----------------------------------------------------------------------------
PtpInit ==
  /\ setup \in PtpSetups
  /\ slot = None /\ since = "fresh" /\ scheduled = FALSE
  /\ wpc = "idle" /\ wskb = None /\ wstamp = NoStamp
  /\ sent = 0 /\ txq = <<>> /\ txreg = NoStamp /\ told = [f \in Frames |-> NoStamp] /\ skipped = 0
  /\ rxn = 0 /\ rxq = <<>> /\ rxreg = None /\ check = FALSE /\ rtold = [r \in Arrivals |-> None]
  /\ config = {} /\ enabled = {}
  /\ timinca = None /\ ptpDelta = 0 /\ asked = 0
  /\ rpc = "freq" /\ rdelta = 0 /\ rconfig = {} /\ clocks = [systim |-> 1, tc |-> 0]
  /\ removal = "no" /\ exempt = {} /\ crossed = {}

\* The frames of the ring, or of the work item, whose stamps are lost when the registers
\* are read by somebody else.
Disturbed ==
  (IF wpc \in {"read", "convert"} THEN {<<"tx", wskb>>} ELSE {}) \cup
  {<<"rx", rxq[i].frame>> : i \in {j \in DOMAIN rxq : rxq[j].tst}}

\* The stamp of a frame that was given up for lost may still come.
LateStamp == slot = None /\ (txq # <<>> \/ txreg # NoStamp)

\* e1000_xmit_frame with a frame that wants a stamp.
BadSlotFree == slot = None \/ wpc = "idle"

SlotFree == slot = None

Xmit ==
  /\ "tx" \in setup.sides /\ sent + 1 \in Frames /\ rpc = "up"
  /\ removal = "no" \/ (removal = "cancelled" /\ setup.sending)
  /\ sent' = sent + 1
  /\ IF SlotFree
     THEN /\ slot' = sent + 1 /\ since' = "fresh" /\ scheduled' = TRUE
          /\ txq' = Append(txq, sent + 1)
          /\ exempt' = IF LateStamp THEN exempt \cup {<<"tx", sent + 1>>} ELSE exempt
          /\ skipped' = skipped
     ELSE skipped' = skipped + 1 /\ UNCHANGED <<slotVars, txq, exempt>>
  /\ UNCHANGED <<setup, workVars, txreg, told, rxVars, configVars, rateVars, resetVars, removal, crossed>>

\* The adapter sends the frame, and keeps its stamp if the last one has been read.
HwSend ==
  /\ txq # <<>> /\ txq' = Tail(txq)
  /\ txreg' = IF "tx" \in enabled /\ txreg = NoStamp
              THEN [frame |-> Head(txq), clock |-> clocks.systim] ELSE txreg
  /\ UNCHANGED <<setup, slotVars, workVars, sent, told, skipped, rxVars, configVars, rateVars,
                 resetVars, removal, exempt, crossed>>

\* tx_timeout_factor seconds go by.
Expire ==
  /\ slot # None /\ since = "fresh"
  /\ setup.late \/ ~(slot \in Range(txq) \/ txreg.frame = slot)
  /\ since' = "late"
  /\ UNCHANGED <<setup, slot, scheduled, workVars, txVars, rxVars, configVars, rateVars, resetVars,
                 removal, exempt, crossed>>

\* e1000e_tx_hwtstamp_work: no stamp and no time left.
GiveUp == slot' = None /\ scheduled' = FALSE

BadReschedule == scheduled' = FALSE /\ slot' = slot

Reschedule == scheduled' = TRUE /\ slot' = slot

WorkStart ==
  /\ scheduled /\ wpc = "idle"
  /\ IF txreg # NoStamp
     THEN wpc' = "read" /\ wskb' = slot /\ scheduled' = FALSE /\ UNCHANGED <<slot, wstamp>>
     ELSE IF since = "late" THEN GiveUp /\ UNCHANGED workVars
     ELSE Reschedule /\ UNCHANGED workVars
  /\ UNCHANGED <<setup, since, txVars, rxVars, configVars, rateVars, resetVars, removal, exempt, crossed>>

\* Ghost: a step of the work beside a reset.
BesideReset == IF rpc = "up" THEN exempt ELSE exempt \cup {<<"tx", wskb>>}

\* TXSTMPL and TXSTMPH; the latter makes room for the next stamp.
ReadStamp ==
  /\ wpc = "read" /\ wpc' = "convert"
  /\ wstamp' = txreg /\ txreg' = NoStamp /\ exempt' = BesideReset
  /\ UNCHANGED <<setup, slotVars, wskb, sent, txq, told, skipped, rxVars, configVars, rateVars,
                 resetVars, removal, crossed>>

\* The newer copy empties the slot before it tells the stack, the older one after that.
BadTellsFirst == TRUE

TellsFirst == setup.release = "3.3.5"

\* e1000e_systim_to_hwtstamp, with the timecounter as it is now.
Convert ==
  /\ wpc = "convert" /\ wpc' = IF TellsFirst THEN "tell" ELSE "clear"
  /\ wstamp' = [wstamp EXCEPT !.clock = IF @ = clocks.tc THEN 1 ELSE 0]
  /\ exempt' = BesideReset
  /\ UNCHANGED <<setup, slotVars, wskb, txVars, rxVars, configVars, rateVars, resetVars, removal, crossed>>

ClearSlot ==
  /\ wpc = "clear" /\ wpc' = IF TellsFirst THEN "idle" ELSE "tell"
  /\ slot' = None
  /\ UNCHANGED <<setup, since, scheduled, wskb, wstamp, txVars, rxVars, configVars, rateVars, resetVars,
                 removal, exempt, crossed>>

\* skb_tstamp_tx, and the skb is freed.
Tell ==
  /\ wpc = "tell" /\ wpc' = IF TellsFirst THEN "clear" ELSE "idle"
  /\ told' = [told EXCEPT ![wskb] = wstamp]
  /\ UNCHANGED <<setup, slotVars, wskb, wstamp, sent, txq, txreg, skipped, rxVars, configVars, rateVars,
                 resetVars, removal, exempt, crossed>>

Work == WorkStart \/ ReadStamp \/ Convert \/ ClearSlot \/ Tell
-----------------------------------------------------------------------------
(* Receive stamps.                                                         *)

\* A frame comes that passes the filter; only one at a time gets a stamp.  A frame with an
\* error gets one too, and its descriptor does not say so.
RxArrive(damaged) ==
  /\ "rx" \in setup.sides /\ rxn + 1 \in Arrivals /\ rpc = "up" /\ removal = "no"
  /\ rxn' = rxn + 1
  /\ LET stamped == "rx" \in enabled /\ rxreg = None
     IN  /\ rxreg' = IF stamped THEN rxn + 1 ELSE rxreg
         /\ rxq' = Append(rxq, [frame |-> rxn + 1, tst |-> stamped /\ ~damaged])
  /\ UNCHANGED <<setup, slotVars, workVars, txVars, check, rtold, configVars, rateVars, resetVars,
                 removal, exempt, crossed>>

BadHasStamp(status) == rxreg # None

HasStamp(status) == status.tst /\ rxreg # None

\* e1000e_rx_hwtstamp, when the poll cleans the frame.
RxHwtstamp ==
  /\ rxq # <<>> /\ rxq' = Tail(rxq)
  /\ IF HasStamp(Head(rxq))
     THEN /\ rtold' = [rtold EXCEPT ![Head(rxq).frame] = rxreg] /\ rxreg' = None /\ check' = FALSE
          /\ exempt' = IF rxreg = Head(rxq).frame THEN exempt ELSE exempt \cup {<<"rx", rxreg>>}
     ELSE UNCHANGED <<rtold, rxreg, check, exempt>>
  /\ UNCHANGED <<setup, slotVars, workVars, txVars, rxn, configVars, rateVars, resetVars, removal,
                 crossed>>

\* The watchdog reads a stamp that has been there since its last turn; nobody tells it that
\* the stamp is the same one.
BadClearStuck == check' = FALSE /\ rxreg' = rxreg

ClearStuck == check' = check /\ rxreg' = None

Watchdog ==
  /\ "rx" \in config /\ rpc = "up" /\ removal = "no"
  /\ IF check /\ rxreg # None
     THEN ClearStuck /\ exempt' = exempt \cup {d \in Disturbed : d[1] = "rx"}
     ELSE check' = TRUE /\ UNCHANGED <<rxreg, exempt>>
  /\ UNCHANGED <<setup, slotVars, workVars, txVars, rxn, rxq, rtold, configVars, rateVars, resetVars,
                 removal, crossed>>
-----------------------------------------------------------------------------
(* The user's settings, and resets.                                        *)

\* The end of e1000e_config_hwtstamp: the stamps kept are read to be rid of them.
ClearStamps ==
  /\ txreg' = NoStamp /\ rxreg' = None
  /\ exempt' = exempt \cup Disturbed

\* During a reset what the user sets may be overwritten with what the reset has read.
Crossing(what) == crossed' = IF rpc = "up" THEN crossed \ {what} ELSE crossed \cup {what}

\* SIOCSHWTSTAMP.
HwtstampSet(sides) ==
  /\ setup.ioctls > 0 /\ removal = "no"
  /\ setup' = [setup EXCEPT !.ioctls = @ - 1]
  /\ config' = sides /\ enabled' = sides /\ ClearStamps /\ Crossing("config")
  /\ UNCHANGED <<slotVars, workVars, sent, txq, told, skipped, rxn, rxq, check, rtold, rateVars,
                 resetVars, removal>>

\* e1000e_phc_adjfreq: the rate is set with its sign and kept without it.
Magnitude(d) == IF d < 0 THEN -d ELSE d

BadAdjfreq(d) == timinca' = 100 + d /\ ptpDelta' = ptpDelta

Adjfreq(d) == timinca' = 100 + d /\ ptpDelta' = Magnitude(d)

UserAdjfreq(d) ==
  /\ setup.clock /\ removal = "no" /\ d # asked
  /\ Adjfreq(d) /\ asked' = d /\ Crossing("freq")
  /\ UNCHANGED <<setup, slotVars, workVars, txVars, rxVars, configVars, resetVars, removal, exempt>>

\* The adapter is reset: its clock, its stamps and its rings start again.
MacReset ==
  /\ rpc = "up" /\ setup.resets > 0 /\ removal = "no"
  /\ setup' = [setup EXCEPT !.resets = @ - 1]
  /\ rpc' = "freq" /\ enabled' = {} /\ timinca' = None
  /\ ClearStamps /\ txq' = <<>> /\ rxq' = <<>>
  /\ clocks' = [clocks EXCEPT !.systim = @ + 1]
  /\ UNCHANGED <<slotVars, workVars, sent, told, skipped, rxn, check, rtold, config, ptpDelta, asked,
                 rdelta, rconfig, removal, crossed>>

resetFrame == <<setup, slotVars, workVars, txVars, rxVars, removal, exempt, crossed>>

\* e1000e_systim_reset reads ptp_delta, and sets the frequency under systim_lock.
ResetFreq ==
  /\ rpc = "freq" /\ rdelta' = ptpDelta /\ rpc' = "adjust"
  /\ UNCHANGED <<resetFrame, rconfig, clocks, configVars, rateVars>>

ResetAdjust ==
  /\ rpc = "adjust" /\ setup.clock
  /\ Adjfreq(rdelta) /\ rpc' = "time"
  /\ UNCHANGED <<resetFrame, asked, rdelta, rconfig, clocks, configVars>>

\* Without a clock nothing of the rest is done.
ResetNoClock ==
  /\ rpc = "adjust" /\ ~setup.clock
  /\ rpc' = "up"
  /\ UNCHANGED <<resetFrame, rateVars, rdelta, rconfig, clocks, configVars>>

ResetTime ==
  /\ rpc = "time" /\ rpc' = "read"
  /\ clocks' = [clocks EXCEPT !.tc = clocks.systim]
  /\ UNCHANGED <<resetFrame, rdelta, rconfig, configVars, rateVars>>

\* e1000e_config_hwtstamp takes what to enable from hwtstamp_config, then writes it.
ResetReadConfig ==
  /\ rpc = "read" /\ rconfig' = config /\ rpc' = "config"
  /\ UNCHANGED <<resetFrame, rdelta, clocks, configVars, rateVars>>

BadRestore == enabled' = enabled

Restore == enabled' = rconfig

ResetConfig ==
  /\ rpc = "config" /\ rpc' = "up"
  /\ Restore /\ ClearStamps
  /\ UNCHANGED <<setup, slotVars, workVars, sent, txq, told, skipped, rxn, rxq, check, rtold,
                 config, rateVars, rdelta, rconfig, clocks, removal, crossed>>

SystimReset == ResetFreq \/ ResetAdjust \/ ResetNoClock \/ ResetTime \/ ResetReadConfig \/ ResetConfig

\* e1000_remove: the work is cancelled when it does not run, and the slot emptied.
BadCancelWork == scheduled' = scheduled /\ slot' = None

CancelWork == scheduled' = FALSE /\ slot' = None

RemoveCancel ==
  /\ removal = "no" /\ rpc = "up" /\ wpc = "idle" /\ removal' = "cancelled"
  /\ CancelWork
  /\ UNCHANGED <<setup, since, workVars, txVars, rxVars, configVars, rateVars, resetVars, exempt, crossed>>

\* unregister_netdev closes the device, and its memory is freed.
RemoveDone ==
  /\ removal = "cancelled" /\ removal' = "gone"
  /\ txq' = <<>> /\ rxq' = <<>>
  /\ UNCHANGED <<setup, slotVars, workVars, sent, txreg, told, skipped, rxn, rxreg, check, rtold,
                 configVars, rateVars, resetVars, exempt, crossed>>

PtpNext ==
  \/ Xmit \/ HwSend \/ Expire \/ Work
  \/ \E damaged \in BOOLEAN : RxArrive(damaged)
  \/ RxHwtstamp \/ Watchdog
  \/ \E sides \in SUBSET setup.sides : HwtstampSet(sides)
  \/ \E d \in setup.deltas : UserAdjfreq(d)
  \/ MacReset \/ SystimReset
  \/ RemoveCancel \/ RemoveDone

PtpSpec == PtpInit /\ [][PtpNext]_ptpVars

\* Work that is scheduled runs, resets end, time passes, frames are sent and polled for, and
\* the watchdog comes round.
PtpFairness ==
  /\ WF_ptpVars(Work) /\ WF_ptpVars(SystimReset)
  /\ WF_ptpVars(Expire) /\ WF_ptpVars(HwSend) /\ WF_ptpVars(RxHwtstamp) /\ WF_ptpVars(Watchdog)

FairPtpSpec == PtpSpec /\ PtpFairness
-----------------------------------------------------------------------------
(* Properties of the clock's arithmetic.                                   *)

\* The increment fits TIMINCA's 24 bits, whatever frequency the user may ask for
\* (e1000.h:417-419).
RateFits ==
  \A m \in setup.macs : LET c == BaseClock(m[1], m[2]) IN
    c # NoClock => \A d \in -999..600 : Adjustable(m[1], m[2], d) =>
      c.value * (1000 + d) <= (TimincaSize \div c.unit) * 1000

\* SYSTIM is read every four hours, before it goes half way round (e1000.h:442-451): what is
\* more than half way on is taken for the past.  A minute has 57221 times 2^20 ns;
\* SYSTIM's 63 lower bits have 2^43 times 2^20 of the cyclecounter's units.
ReadsInTime ==
  \A m \in setup.macs : LET c == BaseClock(m[1], m[2]) IN
    c # NoClock => 240 * (1000 + MaxAdj(m[1], m[2])) <= 1000 * (((TimincaSize \div c.cc) * Shift19) \div 57221)

\* e1000e_cyclecounter_read returns a value SYSTIM had while it was read (netdev.c:4885-4890):
\* if SYSTIMH is latched no later than an increment after SYSTIML is read.
SystimReadsTrue ==
  \A systim \in setup.systims, inc \in 1..3, gap \in 0..2, late1, late2 \in 0..1 :
    LET i == 0  j == inc * late1  k == inc * (late1 + gap)  l == inc * (late1 + gap + late2)
    IN  CyclecounterRead(systim, 3, 16, i, j, k, l) \in
          {(systim + inc * n) % 256 : n \in 0..(late1 + gap + late2)}

\* The clock can be set, followed and read (e1000.h:417-451, netdev.c:4878-4911).
ClockTrue == RateFits /\ ReadsInTime /\ SystimReadsTrue
-----------------------------------------------------------------------------
(* Properties of the stamps and settings.                                  *)

PtpTypeOK ==
  /\ slot \in Frames \cup {None} /\ since \in {"fresh", "late"} /\ scheduled \in BOOLEAN
  /\ wpc \in {"idle", "read", "convert", "clear", "tell"} /\ wskb \in Frames \cup {None}
  /\ wpc # "idle" => wskb # None
  /\ txq \in Seq(Frames) /\ told \in [Frames -> [frame : Frames \cup {None}, clock : Nat]]
  /\ rxq \in Seq([frame : Arrivals, tst : BOOLEAN]) /\ check \in BOOLEAN
  /\ rtold \in [Arrivals -> Arrivals \cup {None}]
  /\ config \subseteq setup.sides /\ enabled \subseteq setup.sides
  /\ rpc \in {"up", "freq", "adjust", "time", "read", "config"}
  /\ removal \in {"no", "cancelled", "gone"}

\* The stack is told the stamp of the frame it is told about, on the clock it was taken on
\* (netdev.c:1265-1267): unless the frame before was given up for lost and its stamp was still
\* to come, or a reset or an ioctl emptied the registers under the work.
StampIsOwn ==
  \A f \in Frames :
    told[f] # NoStamp /\ <<"tx", f>> \notin exempt => 
      told[f].frame = f /\ (setup.clock => told[f].clock = 1)

\* A receive stamp belongs to the frame it goes up with (netdev.c:536-541): unless the
\* register was emptied, by the watchdog or by an ioctl, with that frame still in the ring, or its
\* own stamp has gone to such a frame.
RxStampIsOwn ==
  \A r \in Arrivals : rtold[r] # None /\ <<"rx", r>> \notin exempt => rtold[r] = r

\* A frame goes without a stamp only when the one before it still waits for its own: a stack
\* that has got one stamp can ask for the next (the newer copy only).
SkipsWhileOutstanding ==
  [][skipped' > skipped /\ setup.release = "3.4.2" =>
       slot # None /\ told[slot] = NoStamp]_ptpVars

\* After a reset the clock runs at the rate last asked for (netdev.c:4397): if nobody asked
\* for one during the reset.
FrequencyKept ==
  rpc = "up" /\ setup.clock /\ "freq" \notin crossed => timinca = 100 + asked

\* After a reset those packets get stamps that the user chose.
ConfigKept ==
  rpc = "up" /\ setup.clock /\ "config" \notin crossed => enabled = config

\* When the device is gone so is everything that would touch it: if the stack sent no frame
\* that wants a stamp after the work was cancelled.
RemovedIsQuiet ==
  removal = "gone" /\ ~setup.sending => slot = None /\ ~scheduled /\ wpc = "idle"

\* Nobody is told a stamp of another frame, or of a device that is gone.
StampsSound == PtpTypeOK /\ StampIsOwn /\ RxStampIsOwn /\ RemovedIsQuiet

\* A reset keeps what the user set: the rate, and which packets get stamps.
SettingsKept == FrequencyKept /\ ConfigKept

\* A frame holds the slot for a limited time only.
SlotFreed == slot # None ~> slot = None \/ removal = "gone"

\* A receive stamp that no frame comes for does not stop the stamps that
\* the user asked for.
RxUnstuck == rxreg # None /\ "rx" \in config ~> rxreg = None \/ removal # "no"

\* Who asks for stamps gets them: neither the slot nor the receive register stays taken.
StampsServed == SkipsWhileOutstanding /\ SlotFreed /\ RxUnstuck
=============================================================================
