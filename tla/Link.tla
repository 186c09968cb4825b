-------------------------------- MODULE Link --------------------------------
(***************************************************************************)
(* The link: what the watchdog learns of it and tells the stack, the       *)
(* interrupt that reports its changes, and the flow control that is        *)
(* negotiated on it.  On copper the PHY negotiates and the driver reads    *)
(* the outcome from it, step by step, while the wire may change, the user  *)
(* may set flow control and a reset may run.  On fiber and serdes the MAC  *)
(* negotiates, and the driver forces the link for a partner that does not. *)
(***************************************************************************)
EXTENDS Naturals

CONSTANTS LinkSetups  \* what a run looks at: records as in LinkSetup

\* fc_none, fc_rx_pause, fc_tx_pause and fc_full; the two pause bits of an advertisement.
Modes == SUBSET {"rx", "tx"}
PauseBits == SUBSET {"pause", "asm"}
Partners == [pause : PauseBits, full : BOOLEAN]

LinkSetup ==
  [media : {"copper", "fiber", "serdes", "serdes82571"},
   ich : BOOLEAN,             \* check_for_copper_link of ich8lan.c, not of mac.c
   default : Modes,           \* the mode e1000_fc_default stands for
   modes : SUBSET Modes,      \* modes the user sets without autonegotiation
   partners : SUBSET Partners, \* who may be at the other end of a copper wire
   changes : Nat, sets : Nat, errs : Nat, noises : Nat] \* bounds

ASSUME LinkAssumption == LinkSetups \subseteq LinkSetup

VARIABLES
  setup,
  up, partner,             \* copper: BMSR_LSTATUS and BMSR_ANEGCOMPLETE, MII_LPA and STATUS_FD
  wire, done, noise,       \* fiber and serdes: the other end; negotiated with it; RXCW_IV
  lsc, gls,                \* the interrupt is pending; get_link_status
  wpc, status, active,     \* the watchdog, what it read, what e1000e_has_link returned
  carrier, txen,           \* netif_carrier_ok, TCTL_EN
  requested, current, adv, \* fc.requested_mode, fc.current_mode, MII_ADVERTISE
  fce, watermarks,         \* CTRL_RFCE and CTRL_TFCE; FCRTH is not zero
  spc,                     \* a reset or an ethtool call, which exclude each other
  serdes,                  \* CTRL_SLU, TXCW_ANE, autoneg_failed, serdes_has_link, serdes_link_state
  news, lost, erred, imposed, beside, dirty \* ghosts, see the properties

wireVars == <<up, partner, wire, done, noise>>
flagVars == <<lsc, gls>>
watchVars == <<wpc, status, active>>
stackVars == <<carrier, txen>>
modeVars == <<requested, current, adv>>
macVars == <<fce, watermarks>>
ghosts == <<news, lost, erred, imposed, beside, dirty>>
linkVars == <<setup, wireVars, flagVars, watchVars, stackVars, modeVars, macVars, spc, serdes, ghosts>>

Copper == setup.media = "copper"

\* __E1000_DOWN: interrupts are masked and the watchdog does not start.
Down == spc \in {"reset", "advertise", "watermarks"}
-----------------------------------------------------------------------------
(* Flow control as it is advertised and resolved.                          *)

\* e1000_phy_setup_autoneg: receiving only cannot be advertised.
Advertise(mode) == IF mode = {} THEN {} ELSE IF mode = {"tx"} THEN {"asm"} ELSE {"pause", "asm"}

BadResolve(a, lp, wanted) ==
  CASE "pause" \in a /\ "pause" \in lp.pause -> IF wanted = {"rx", "tx"} THEN wanted ELSE {"rx"}
    [] a = {"asm"} /\ "asm" \in lp.pause -> {"tx"}
    [] a = {"pause", "asm"} /\ lp.pause = {"asm"} -> {"rx"}
    [] OTHER -> {}

LaxResolve(a, lp, wanted) ==
  IF ~lp.full THEN {} ELSE
  CASE "pause" \in a /\ "pause" \in lp.pause -> {"rx", "tx"}
    [] a = {"asm"} /\ lp.pause = {"pause", "asm"} -> {"tx"}
    [] a = {"pause", "asm"} /\ lp.pause = {"asm"} -> {"rx"}
    [] OTHER -> {}

\* e1000e_config_fc_after_link_up.
Resolve(a, lp, wanted) ==
  IF ~lp.full THEN {} ELSE
  CASE "pause" \in a /\ "pause" \in lp.pause -> IF wanted = {"rx", "tx"} THEN wanted ELSE {"rx"}
    [] a = {"asm"} /\ lp.pause = {"pause", "asm"} -> {"tx"}
    [] a = {"pause", "asm"} /\ lp.pause = {"asm"} -> {"rx"}
    [] OTHER -> {}

-----------------------------------------------------------------------------
LinkInit ==
  /\ setup \in LinkSetups
  /\ up = FALSE /\ partner = [pause |-> {}, full |-> FALSE]
  /\ wire = "none" /\ done = FALSE /\ noise = FALSE
  /\ lsc = TRUE /\ gls = TRUE
  /\ wpc = "idle" /\ status = [link |-> FALSE] /\ active = FALSE /\ carrier = FALSE /\ txen = FALSE
  /\ requested = setup.default /\ current = setup.default /\ adv = Advertise(setup.default)
  /\ fce = {} /\ watermarks = ("tx" \in setup.default) /\ spc = "idle"
  /\ serdes = [slu |-> FALSE, ane |-> TRUE, failed |-> FALSE, has |-> FALSE, state |-> "down"]
  /\ news = FALSE /\ lost = FALSE /\ erred = FALSE /\ imposed = FALSE /\ beside = FALSE /\ dirty = FALSE

driver == <<watchVars, stackVars, modeVars, macVars, spc, serdes, ghosts>>

\* The PHY has negotiated with somebody, or the wire is pulled; the MAC raises LSC.
WireUp(p) ==
  /\ Copper /\ ~up /\ spc # "advertise"
  /\ up' = TRUE /\ partner' = p /\ lsc' = TRUE
  /\ UNCHANGED <<setup, wire, done, noise, gls, driver>>

WireDown ==
  /\ Copper /\ up /\ setup.changes > 0
  /\ setup' = [setup EXCEPT !.changes = @ - 1]
  /\ up' = FALSE /\ lsc' = TRUE
  /\ UNCHANGED <<partner, wire, done, noise, gls, driver>>

\* Nobody, one who sends idles, or one who negotiates.
WireChange(w) ==
  /\ ~Copper /\ wire # w /\ setup.changes > 0
  /\ setup' = [setup EXCEPT !.changes = @ - 1]
  /\ wire' = w /\ done' = FALSE /\ noise' = FALSE /\ lsc' = TRUE
  /\ UNCHANGED <<up, partner, gls, driver>>

Negotiated ==
  /\ ~Copper /\ wire = "an" /\ serdes.ane /\ ~done
  /\ done' = TRUE /\ lsc' = TRUE
  /\ UNCHANGED <<setup, up, partner, wire, noise, gls, driver>>

Noise ==
  /\ ~Copper /\ wire # "none" /\ (noise \/ setup.noises > 0)
  /\ noise' = ~noise /\ setup' = [setup EXCEPT !.noises = IF noise THEN @ ELSE @ - 1]
  /\ UNCHANGED <<up, partner, wire, done, flagVars, driver>>

\* The handlers of e1000_intr, e1000_intr_msi and e1000_msix_other.
LscInterrupt ==
  /\ lsc /\ ~Down
  /\ lsc' = FALSE /\ gls' = TRUE /\ news' = TRUE /\ lost' = FALSE
  /\ UNCHANGED <<setup, wireVars, watchVars, stackVars, modeVars, macVars, spc, serdes,
                 erred, imposed, beside, dirty>>
-----------------------------------------------------------------------------
(* The watchdog, on copper: e1000e_check_for_copper_link and its like.     *)

quiet == <<setup, wireVars, lsc, spc>>

Leads(here, there) == wpc = here /\ wpc' = there

WatchdogStart ==
  /\ wpc = "idle" /\ ~Down
  /\ wpc' = IF ~Copper THEN "sample" ELSE IF gls THEN "bmsr" ELSE "return"
  /\ UNCHANGED <<quiet, gls, status, active, stackVars, modeVars, macVars, serdes, ghosts>>

ReadBmsr ==
  /\ Leads("bmsr", IF setup.ich THEN "early" ELSE IF up THEN "clear" ELSE "return")
  /\ status' = [link |-> up] /\ news' = FALSE
  /\ UNCHANGED <<quiet, gls, active, stackVars, modeVars, macVars, serdes, lost, erred, imposed, beside, dirty>>

\* What ich8lan.c does to the PHY with or without a link.
BadEarlyWorkarounds ==
  /\ Leads("early", "clear")
  /\ UNCHANGED <<quiet, gls, status, active, stackVars, modeVars, macVars, serdes, ghosts>>

EarlyWorkarounds ==
  /\ Leads("early", IF status.link THEN "clear" ELSE "return")
  /\ UNCHANGED <<quiet, gls, status, active, stackVars, modeVars, macVars, serdes, ghosts>>

\* An interrupt since the status was read is forgotten with it.
ClearLinkStatus ==
  /\ Leads("clear", "late")
  /\ gls' = FALSE /\ lost' = news /\ erred' = FALSE
  /\ UNCHANGED <<quiet, status, active, stackVars, modeVars, macVars, serdes, news, imposed, beside, dirty>>

\* Workarounds, and EEE, after link up.
LateWorkarounds ==
  /\ Leads("late", "force")
  /\ UNCHANGED <<quiet, gls, status, active, stackVars, modeVars, macVars, serdes, ghosts>>

\* e1000e_force_mac_fc.
ForceMacFc == fce' = current

ForceCurrent ==
  /\ Leads("force", "aneg") /\ ForceMacFc
  /\ UNCHANGED <<quiet, gls, status, active, stackVars, modeVars, watermarks, serdes, ghosts>>

ReadAneg ==
  /\ Leads("aneg", IF up THEN "ability" ELSE "return")
  /\ UNCHANGED <<quiet, gls, status, active, stackVars, modeVars, macVars, serdes, ghosts>>

ResolveFc ==
  /\ Leads("ability", "apply")
  /\ current' = Resolve(adv, partner, requested)
  /\ UNCHANGED <<quiet, gls, status, active, stackVars, requested, adv, macVars, serdes, ghosts>>

ApplyFc ==
  /\ Leads("apply", "return") /\ ForceMacFc
  /\ UNCHANGED <<quiet, gls, status, active, stackVars, modeVars, watermarks, serdes, ghosts>>

\* The PHY does not answer: before the status is cleared, or after that.
PhyFails ==
  /\ setup.errs > 0 /\ wpc \in {"bmsr", "early", "late", "aneg", "ability"}
  /\ setup' = [setup EXCEPT !.errs = @ - 1]
  /\ wpc' = "return" /\ erred' = (wpc \in {"late", "aneg", "ability"})
  /\ UNCHANGED <<wireVars, lsc, spc, gls, status, active, stackVars, modeVars, macVars, serdes, news, lost, imposed, beside, dirty>>
-----------------------------------------------------------------------------
(* The watchdog, on fiber and serdes.                                      *)

\* STATUS_LU and RXCW.  A forced link is up on serdes, and on fiber with a signal.
LinkUp == (serdes.slu \/ (serdes.ane /\ done)) /\ (setup.media = "fiber" => wire # "none")

Received == [link |-> LinkUp, slu |-> serdes.slu, c |-> wire = "an", sync |-> wire # "none", iv |-> noise]

Sample ==
  /\ Leads("sample", "act") /\ status' = Received
  /\ UNCHANGED <<quiet, gls, active, stackVars, modeVars, macVars, serdes, ghosts>>

ForceLink(s) == [s EXCEPT !.ane = FALSE, !.slu = TRUE]

BadUnforceLink(s) == [s EXCEPT !.slu = FALSE]

UnforceLink(s) == [s EXCEPT !.ane = TRUE, !.slu = FALSE]

\* e1000e_check_for_fiber_link, and the start of e1000e_check_for_serdes_link: the partner is
\* given one turn of the watchdog to negotiate.
ForceOrNegotiate(s, r) ==
  IF ~r.link /\ ~r.c /\ (setup.media = "fiber" => r.sync)
  THEN IF s.failed THEN ForceLink(s) ELSE [s EXCEPT !.failed = TRUE]
  ELSE IF r.slu /\ r.c THEN [UnforceLink(s) EXCEPT !.has = TRUE] ELSE s

\* The end of e1000e_check_for_serdes_link, which reads STATUS and RXCW again.
BadHasLink(s, r) == [s EXCEPT !.has = r.link]

HasLink(s, r) ==
  [s EXCEPT !.has =
     IF s.ane THEN r.link /\ r.sync /\ ~r.iv
     ELSE IF ~r.sync THEN FALSE ELSE IF r.iv THEN @ ELSE TRUE]

Move(s, state, has) == [s EXCEPT !.state = state, !.has = has]

\* e1000_check_for_serdes_link_82571: with a clean signal, ...
BadInSync(s, r) ==
  CASE s.state = "complete" -> IF r.link THEN [s EXCEPT !.has = TRUE] ELSE Move(s, "progress", FALSE)
    [] s.state = "forced" -> IF r.c THEN Move(s, "progress", FALSE) ELSE [s EXCEPT !.has = TRUE]
    [] s.state = "progress" /\ r.c -> IF r.link THEN Move(s, "complete", TRUE) ELSE [s EXCEPT !.state = "down"]
    [] s.state = "progress" /\ ~r.c -> Move(ForceLink(s), "forced", TRUE)
    [] s.state = "down" -> Move(UnforceLink(s), "progress", FALSE)

InSync(s, r) ==
  CASE s.state = "complete" -> IF r.link THEN [s EXCEPT !.has = TRUE] ELSE Move(s, "progress", FALSE)
    [] s.state = "forced" -> IF r.c THEN Move(UnforceLink(s), "progress", FALSE) ELSE [s EXCEPT !.has = TRUE]
    [] s.state = "progress" /\ r.c -> IF r.link THEN Move(s, "complete", TRUE) ELSE [s EXCEPT !.state = "down"]
    [] s.state = "progress" /\ ~r.c -> Move(ForceLink(s), "forced", TRUE)
    [] s.state = "down" -> Move(UnforceLink(s), "progress", FALSE)

\* ... without one, and with invalid codes: those are forgiven a partner that negotiates, and
\* one that does not if they are gone when RXCW is read again.
Serdes82571(s, r) ==
  IF ~r.sync THEN {Move(s, "down", FALSE)}
  ELSE IF ~r.iv THEN {InSync(s, r)}
  ELSE {Move([s EXCEPT !.ane = TRUE], "progress", FALSE)} \cup
       (IF r.c THEN {} ELSE {Move(s, "down", FALSE)})

\* e1000e_check_for_serdes_link returns early for a partner that gets its turn; what it
\* does not read again when the link has just been forced it has read at its start.
Check(s, r) ==
  IF setup.media = "serdes82571" THEN Serdes82571(s, r)
  ELSE {ForceOrNegotiate(s, r)}

Rechecked(s, t) == setup.media = "serdes" /\ s.failed = t.failed /\ (s.slu \/ ~t.slu)

Act ==
  /\ wpc = "act"
  /\ serdes' \in Check(serdes, status)
  /\ wpc' = IF Rechecked(serdes, serdes') THEN "recheck" ELSE "return"
  /\ done' = (done /\ serdes'.ane)
  /\ dirty' = (serdes'.slu /\ serdes'.ane)
  /\ UNCHANGED <<setup, up, partner, wire, noise, lsc, spc, gls, status, active, stackVars, modeVars, macVars, news, lost, erred, imposed, beside>>

Recheck ==
  /\ Leads("recheck", "return") /\ serdes' = HasLink(serdes, Received)
  /\ UNCHANGED <<quiet, gls, status, active, stackVars, modeVars, macVars, ghosts>>
-----------------------------------------------------------------------------
(* What the watchdog makes of it.                                          *)

\* The rest of e1000e_has_link.
Return ==
  /\ Leads("return", "carrier")
  /\ active' = (CASE Copper -> ~gls [] setup.media = "fiber" -> LinkUp [] OTHER -> serdes.has)
  /\ UNCHANGED <<quiet, gls, status, stackVars, modeVars, macVars, serdes, ghosts>>

BadEnable == txen' = txen

Enable == txen' = TRUE

CarrierOn ==
  /\ Leads("carrier", "idle") /\ active /\ ~carrier
  /\ carrier' = TRUE /\ Enable
  /\ UNCHANGED <<quiet, gls, status, active, modeVars, macVars, serdes, ghosts>>

CarrierOff ==
  /\ Leads("carrier", "idle") /\ ~active /\ carrier
  /\ carrier' = FALSE
  /\ UNCHANGED <<quiet, gls, status, active, txen, modeVars, macVars, serdes, ghosts>>

CarrierStays ==
  /\ Leads("carrier", "idle") /\ active = carrier
  /\ UNCHANGED <<quiet, gls, status, active, stackVars, modeVars, macVars, serdes, ghosts>>

CheckCopper ==
  ReadBmsr \/ EarlyWorkarounds \/ ClearLinkStatus \/ LateWorkarounds \/ ForceCurrent
  \/ ReadAneg \/ ResolveFc \/ ApplyFc

WatchdogStep ==
  WatchdogStart \/ CheckCopper \/ Sample \/ Act \/ Recheck
  \/ Return \/ CarrierOn \/ CarrierOff \/ CarrierStays
-----------------------------------------------------------------------------
(* Resets, and flow control set by the user.                               *)

\* e1000_set_pauseparam without autonegotiation: the mode, then the registers.
SetPause(mode) ==
  /\ Copper /\ spc = "idle" /\ setup.sets > 0
  /\ setup' = [setup EXCEPT !.sets = @ - 1]
  /\ requested' = mode /\ current' = mode /\ imposed' = TRUE /\ spc' = "apply"
  /\ UNCHANGED <<wireVars, flagVars, watchVars, stackVars, adv, macVars, serdes, news, lost, erred, beside, dirty>>

BadSetWatermarks == watermarks' = ("tx" \in adv)

SetWatermarks == watermarks' = ("tx" \in current)

ApplyPause ==
  /\ spc = "apply" /\ spc' = "idle"
  /\ ForceMacFc /\ SetWatermarks
  /\ UNCHANGED <<setup, wireVars, flagVars, watchVars, stackVars, modeVars, serdes, ghosts>>

\* e1000e_down, for a reset with the mode as it was asked for last or, after
\* e1000_set_pauseparam with autonegotiation, the default.  The work item of the watchdog is
\* not waited for.
BringDown(mode) ==
  /\ Copper /\ spc = "idle" /\ setup.sets > 0
  /\ setup' = [setup EXCEPT !.sets = @ - 1]
  /\ requested' = mode /\ beside' = (wpc # "idle")
  /\ carrier' = FALSE /\ txen' = FALSE /\ spc' = "reset"
  /\ UNCHANGED <<wireVars, flagVars, watchVars, current, adv, macVars, serdes, news, lost, erred, imposed, dirty>>

BadRestoreMode == current' = current

RestoreMode == current' = requested

\* e1000e_reset: the MAC and the PHY start again.
ResetAdapter ==
  /\ spc = "reset" /\ spc' = "advertise"
  /\ RestoreMode /\ imposed' = FALSE
  /\ fce' = {} /\ txen' = FALSE /\ up' = FALSE
  /\ UNCHANGED <<setup, partner, wire, done, noise, flagVars, watchVars, carrier, requested, adv,
                 watermarks, serdes, news, lost, erred, beside, dirty>>

\* e1000_copper_link_autoneg: negotiation starts again, and takes longer than
\* e1000e_setup_copper_link waits.
AdvertiseAgain ==
  /\ spc = "advertise" /\ spc' = "watermarks"
  /\ adv' = Advertise(current) /\ gls' = TRUE
  /\ UNCHANGED <<setup, wireVars, lsc, watchVars, stackVars, requested, current, macVars, serdes, ghosts>>

\* The end of e1000e_setup_link, and of e1000e_up.
ResetDone ==
  /\ spc = "watermarks" /\ spc' = "idle"
  /\ SetWatermarks /\ lsc' = TRUE
  /\ UNCHANGED <<setup, wireVars, gls, watchVars, stackVars, modeVars, fce, serdes, ghosts>>

\* e1000e_setup_fiber_serdes_link, which waits for negotiation for 500 ms and else checks for a
\* link as the watchdog does, with its turn used up.
Polled(s, came) ==
  LET fresh == [s EXCEPT !.slu = FALSE, !.ane = TRUE, !.state = "down", !.failed = FALSE]
      r == [link |-> FALSE, slu |-> FALSE, c |-> wire = "an", sync |-> wire # "none", iv |-> noise]
  IN  IF came \/ (setup.media = "fiber" /\ wire = "none") THEN {fresh}
      ELSE {[t EXCEPT !.failed = FALSE] : t \in Check([fresh EXCEPT !.failed = TRUE], r)}

SetupSerdes(came) ==
  /\ ~Copper /\ setup.sets > 0 /\ (came => wire = "an")
  /\ setup' = [setup EXCEPT !.sets = @ - 1]
  /\ serdes' \in Polled(serdes, came) /\ done' = came
  /\ carrier' = FALSE /\ txen' = FALSE /\ lsc' = TRUE /\ dirty' = FALSE
  /\ beside' = (wpc # "idle")
  /\ UNCHANGED <<up, partner, wire, noise, gls, watchVars, modeVars, macVars, spc, news, lost, erred, imposed>>

User ==
  \/ \E m \in setup.modes : SetPause(m)
  \/ \E m \in {requested, setup.default} : BringDown(m)
  \/ \E came \in BOOLEAN : SetupSerdes(came)

UserStep == ApplyPause \/ ResetAdapter \/ AdvertiseAgain \/ ResetDone

World ==
  \/ \E p \in setup.partners : WireUp(p)
  \/ WireDown \/ Noise
  \/ \E w \in {"none", "idles", "an"} : WireChange(w)

LinkNext == World \/ Negotiated \/ LscInterrupt \/ WatchdogStep \/ PhyFails \/ User \/ UserStep

LinkSpec == LinkInit /\ [][LinkNext]_linkVars

\* Interrupts are taken, the watchdog comes round every two seconds, calls go on, and who can
\* negotiate does.
LinkFairness ==
  /\ WF_linkVars(LscInterrupt) /\ WF_linkVars(WatchdogStep) /\ WF_linkVars(UserStep)
  /\ WF_linkVars(Negotiated) /\ WF_linkVars(noise /\ Noise)

FairLinkSpec == LinkSpec /\ LinkFairness
-----------------------------------------------------------------------------
(* Properties.                                                             *)

LinkTypeOK ==
  /\ up \in BOOLEAN /\ partner \in Partners /\ wire \in {"none", "idles", "an"}
  /\ done \in BOOLEAN /\ noise \in BOOLEAN /\ lsc \in BOOLEAN /\ gls \in BOOLEAN
  /\ wpc \in {"idle", "bmsr", "early", "clear", "late", "force", "aneg", "ability", "apply",
              "sample", "act", "recheck", "return", "carrier"}
  /\ active \in BOOLEAN /\ carrier \in BOOLEAN /\ txen \in BOOLEAN
  /\ requested \in Modes /\ current \in Modes /\ adv \in PauseBits /\ fce \in Modes
  /\ watermarks \in BOOLEAN /\ spc \in {"idle", "apply", "reset", "advertise", "watermarks"}
  /\ serdes \in [slu : BOOLEAN, ane : BOOLEAN, failed : BOOLEAN, has : BOOLEAN,
                 state : {"down", "progress", "complete", "forced"}]
  /\ done => serdes.ane

\* The rest state in which what was found out about the link stands.
Settled == wpc = "idle" /\ spc = "idle" /\ ~gls /\ ~lsc

\* A copper link that is lost is known to be, or about to be, by get_link_status or an
\* interrupt (mac.c:402-405, netdev.c:5687-5690): unless the interrupt came after the status
\* was read and was cleared with it.
LinkLossKnown == Copper /\ ~up => gls \/ lsc \/ lost \/ Down

\* The link partner, resolving by the same rule, honours the pause frames the adapter sends, and
\* sends none the adapter does not honour (mac.c:1063-1082): when the PHY could be read and
\* the modes were advertised as they are wanted.
PauseAgrees ==
  Copper /\ Settled /\ carrier /\ up /\ ~erred /\ ~imposed =>
    LET theirs == IF partner.full
                  THEN Resolve(partner.pause, [pause |-> adv, full |-> TRUE],
                               IF "pause" \in partner.pause THEN {"rx", "tx"} ELSE {"tx"})
                  ELSE {}
    IN  /\ "tx" \in fce => "rx" \in theirs
        /\ "tx" \in theirs /\ "tx" \in requested => "rx" \in fce

\* Pause frames are sent and honoured only as the user wants it (mac.c:1097-1103), through any
\* partner: as long as what he wants has been advertised.
FcAsAsked == Copper /\ spc = "idle" /\ ~imposed /\ ~beside => fce \subseteq requested

\* Who may send pause frames has a threshold at which to send them (mac.c:909-914).
WatermarksSet == Copper /\ spc = "idle" /\ ~imposed /\ ~beside => ("tx" \in fce => watermarks)

\* What is advertised is what was asked for, however often partners that cannot do it came and
\* went: e1000e_reset starts from requested_mode (mac.c:687-690).
AdvertisedAsAsked == Copper /\ ~imposed /\ ~beside /\ spc = "idle" => adv = Advertise(requested)

\* A carrier means that the transmitter is on (netdev.c:5898-5903), unless a reset ran beside
\* the watchdog.
CarrierTransmits == carrier /\ ~beside => txen

\* "autoneg_complete (the link successfully autonegotiated)" (82571.c:1500): unless invalid codes
\* made the driver negotiate without ceasing to force the link.
CompleteIsNegotiated ==
  setup.media = "serdes82571" /\ serdes.state = "complete" /\ ~dirty => serdes.ane /\ ~serdes.slu

\* Flow control is what the user and the partner agreed on, in the PHY and in the MAC.
FlowControlRight == FcAsAsked /\ PauseAgrees /\ WatermarksSet /\ AdvertisedAsAsked

\* The driver's notion of the link is not wrong without a sign of it under way.
LinkKnown == LinkTypeOK /\ LinkLossKnown /\ CarrierTransmits /\ CompleteIsNegotiated

\* When the wire is left alone, the stack is told in the end whether there is a link.
CarrierSettles ==
  <>[](IF Copper THEN lost \/ carrier = up ELSE carrier = (wire # "none"))

\* When the wire is left alone, a partner that negotiates is negotiated with.
Negotiates == <>[](~Copper /\ wire = "an" => dirty \/ (serdes.ane /\ ~serdes.slu))

\* The link comes to rest: the carrier, and what was negotiated.
LinkSettles == CarrierSettles /\ Negotiates
=============================================================================
