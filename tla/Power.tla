------------------------------- MODULE Power -------------------------------
(***************************************************************************)
(* Suspend and resume of a PCH adapter, seen from the MAC and the PHY:     *)
(* what wakes the system, Ultra Low Power mode (ULP), and the interconnect *)
(* between MAC and PHY, which is either PCIe or, forced, SMBus.  The wire, *)
(* the management engine (ME) and the platform act at any time, and an     *)
(* access to the PHY may fail.  What the threads of the driver do to the   *)
(* rest of the device meanwhile is in Lifecycle.                           *)
(***************************************************************************)
EXTENDS Naturals

CONSTANTS
  Adapters,  \* records as in Adapter
  Wols,      \* what the user may ask to be woken by
  MaxFaults  \* bound on what fails

Adapter == [me : BOOLEAN,       \* FWSM_FW_VALID
            ulp : BOOLEAN,      \* a part enable_ulp and disable_ulp act on
            phyWake : BOOLEAN,  \* FLAG2_HAS_PHY_WAKEUP
            open : BOOLEAN]     \* netif_running

\* E1000_WUFC_EX stands for MC and BC too.
Wakes == {"EX", "MAG", "LNKC"}

ASSUME PowerAssumption ==
  Adapters \subseteq Adapter /\ Wols \subseteq SUBSET Wakes /\ MaxFaults \in Nat

VARIABLES
  adapter, wol,
  wire, link,      \* the cable has a partner; STATUS_LU
  carrier, sched,  \* netif_carrier_ok; pm_schedule_suspend is pending
  mac, phy,        \* registers, see PowerTypeOK
  me,              \* H2ME and FWSM, and whether the ME is entering ULP
  blocked,         \* the ME blocks resets of the PHY
  ulpState,        \* ulp_state
  pc, target,      \* how far a suspend or resume is, and of which kind
  wufc, linkWas,   \* its local variable; whether STATUS_LU was set when it was computed
  faults,          \* how often something has failed
  ill              \* ghost: what has gone wrong since the last resume began

wireVars == <<wire, link>>
idleVars == <<carrier, sched>>
powerVars == <<adapter, wol, wireVars, idleVars, mac, phy, me, blocked, ulpState, pc, target,
               wufc, linkWas, faults, ill>>
-----------------------------------------------------------------------------
(* The interconnect and the PHY.                                           *)

\* A register of the PHY can be read and written.
Reach(m, p) == m.smb = p.smb /\ ~p.ulp

\* A reset leaves a PHY configured to "reset to SMBus" in SMBus mode; its configuration
\* survives if it is sticky and may survive otherwise.
PhyReset(p) ==
  LET left(c) == {[p EXCEPT !.smb = s, !.conf = c, !.down = FALSE] :
                    s \in (IF p.conf = "none" THEN {p.smb, FALSE} ELSE {TRUE})}
  IN left(p.conf) \cup (IF p.conf = "inband" THEN left("none") ELSE {})

\* e1000_toggle_lanphypc_pch_lpt: the PHY loses power and gets it back.
Toggle(p) ==
  LET left(c) == {[p EXCEPT !.smb = s, !.conf = c, !.down = FALSE, !.ulp = FALSE] :
                    s \in (IF p.conf = "none" THEN {FALSE} ELSE BOOLEAN)}
  IN left(p.conf) \cup (IF p.conf = "inband" THEN left("none") ELSE {})

BadClearHost(m, p) == p

\* e1000_post_phy_reset_ich8lan: the write is lost if the PHY does not answer.
ClearHost(m, p) == IF Reach(m, p) THEN [p EXCEPT !.host = FALSE] ELSE p

\* e1000_phy_hw_reset_ich8lan, which a blocked reset skips.
PhyHwReset(m, p) ==
  IF blocked THEN {p} ELSE {ClearHost(m, q) : q \in PhyReset(p)}

\* e1000_power_down_phy_copper_ich8lan: not if the ME is using the PHY.
PowerDown(m, p) ==
  IF adapter.me \/ blocked \/ ~Reach(m, p) THEN p ELSE [p EXCEPT !.down = TRUE]

\* e1000_power_up_phy_copper.
PowerUp(m, p) == IF Reach(m, p) THEN [p EXCEPT !.down = FALSE] ELSE p

\* The end of e1000_phy_is_accessible_pchlan: "only unforce SMBus if ME is not active".
Unforce(m, p) ==
  IF adapter.me THEN <<m, p>> ELSE <<[m EXCEPT !.smb = FALSE], [p EXCEPT !.smb = FALSE]>>

\* phy.ops.acquire, or an access after it, may fail while something is left to fail.
Tries == IF faults < MaxFaults THEN BOOLEAN ELSE {TRUE}
Count(ok) == faults' = faults + (IF ok THEN 0 ELSE 1)
-----------------------------------------------------------------------------
PowerInit ==
  /\ adapter \in Adapters /\ wol \in Wols
  /\ wire \in BOOLEAN /\ link = FALSE /\ carrier = FALSE /\ sched = FALSE
  /\ mac = [smb |-> FALSE, perst |-> FALSE, wufc |-> {}, pme |-> FALSE, dma |-> TRUE]
  /\ phy = [smb |-> FALSE, conf |-> "none", wolHost |-> FALSE, ulp |-> FALSE, down |-> ~adapter.open /\ ~adapter.me,
            host |-> FALSE, wufc |-> {}, rar |-> FALSE, proxy |-> FALSE]
  /\ me = [ulp |-> FALSE, enforce |-> FALSE, done |-> FALSE, busy |-> FALSE]
  /\ blocked = FALSE /\ ulpState = (IF adapter.ulp THEN "off" ELSE "unknown")
  /\ pc = "run" /\ target = "sx" /\ wufc = {} /\ linkWas = FALSE /\ faults = 0 /\ ill = {}

-----------------------------------------------------------------------------
(* What happens to the device by itself.                                   *)

driver == <<adapter, wol, idleVars, mac, ulpState, target, wufc, linkWas, faults, ill>>

WireChange ==
  /\ wire' = ~wire
  /\ link' = (link /\ ~wire)
  /\ UNCHANGED <<driver, phy, me, blocked, pc>>

\* There is no link through a PHY that is powered down or in ULP, or over SMBus.
Linkable == wire /\ ~phy.down /\ ~phy.ulp /\ ~phy.smb /\ ~mac.smb

LinkChange ==
  /\ link # Linkable
  /\ link' = Linkable
  /\ UNCHANGED <<wire, driver, phy, me, blocked, pc>>

MeBlocks ==
  /\ adapter.me /\ blocked' = ~blocked
  /\ UNCHANGED <<wireVars, driver, phy, me, pc>>

\* The ME does what H2ME asks, when it comes to it.
MeStarts ==
  /\ adapter.me /\ me.enforce /\ me.ulp /\ ~me.done /\ ~me.busy
  /\ me' = [me EXCEPT !.busy = TRUE]
  /\ UNCHANGED <<wireVars, driver, phy, blocked, pc>>

MeEnters ==
  /\ me.busy
  /\ me' = [me EXCEPT !.busy = FALSE, !.done = TRUE]
  /\ phy' = [phy EXCEPT !.ulp = TRUE]
  /\ UNCHANGED <<wireVars, driver, blocked, pc>>

MeLeaves ==
  /\ adapter.me /\ me.enforce /\ ~me.ulp /\ me.done
  /\ me' = [me EXCEPT !.done = FALSE]
  /\ phy' = [phy EXCEPT !.ulp = FALSE]
  /\ UNCHANGED <<wireVars, driver, blocked, pc>>

\* PERST# while the system sleeps: it releases SMBus mode where that is not disabled.
Perst ==
  /\ pc = "asleep" /\ target = "sx"
  /\ mac' = [mac EXCEPT !.smb = @ /\ mac.perst]
  /\ phy' = [phy EXCEPT !.smb = @ /\ phy.conf # "none"]
  /\ UNCHANGED <<wireVars, adapter, wol, idleVars, ulpState, target, wufc, linkWas, faults, ill, me, blocked, pc>>

\* A link comes up at a device that is armed for that.
Woken ==
  /\ wire /\ "LNKC" \in mac.wufc /\ mac.pme
  /\ adapter.phyWake => "LNKC" \in phy.wufc /\ phy.host
  /\ phy.ulp /\ ~adapter.me => phy.conf = "inband" \/ phy.wolHost

-----------------------------------------------------------------------------
(* Running.                                                                *)

hard == <<adapter, wireVars, me, blocked, faults>>

SetWol(w) ==
  /\ pc = "run" /\ wol # w /\ wol' = w
  /\ UNCHANGED <<hard, idleVars, mac, phy, ulpState, pc, target, wufc, linkWas, ill>>

\* e1000_set_mac, dev_set_rx_mode: the receive addresses change.
SetMac ==
  /\ pc = "run" /\ phy.rar /\ phy' = [phy EXCEPT !.rar = FALSE]
  /\ UNCHANGED <<hard, wol, idleVars, mac, ulpState, pc, target, wufc, linkWas, ill>>

\* A link that comes up cancels the suspend that is scheduled; one that is lost schedules one.
Watchdog ==
  /\ pc = "run" /\ adapter.open /\ (carrier # link \/ (link /\ sched))
  /\ carrier' = link
  /\ sched' = ~link
  /\ UNCHANGED <<hard, wol, mac, phy, ulpState, pc, target, wufc, linkWas, ill>>

\* e1000e_pm_runtime_idle.
RuntimeIdle ==
  /\ pc = "run" /\ ~link /\ ~sched /\ sched' = TRUE
  /\ UNCHANGED <<hard, wol, carrier, mac, phy, ulpState, pc, target, wufc, linkWas, ill>>

\* e1000e_pm_runtime_suspend takes the interface down without a reset.
RuntimeSuspend ==
  /\ pc = "run" /\ sched
  /\ pc' = "status" /\ target' = "runtime" /\ sched' = FALSE /\ carrier' = FALSE
  /\ UNCHANGED <<hard, wol, mac, phy, ulpState, wufc, linkWas, ill>>

\* e1000e_pm_freeze stops DMA as well.
Suspend ==
  /\ pc = "run"
  /\ pc' = "status" /\ target' = "sx" /\ sched' = FALSE /\ carrier' = FALSE
  /\ mac' = [mac EXCEPT !.dma = FALSE]
  /\ UNCHANGED <<hard, wol, phy, ulpState, wufc, linkWas, ill>>

\* e1000e_reset, from any path that runs while the device is up.
ResetTask ==
  /\ pc = "run"
  /\ mac' = [mac EXCEPT !.dma = TRUE, !.pme = FALSE]
  /\ \E p \in PhyHwReset(mac, phy) : phy' = IF adapter.open THEN p ELSE PowerDown(mac, p)
  /\ UNCHANGED <<hard, wol, idleVars, ulpState, pc, target, wufc, linkWas, ill>>

-----------------------------------------------------------------------------
(* __e1000_shutdown, one action for each stretch that ends where the PHY   *)
(* is released.                                                            *)

suspending == <<adapter, wol, wireVars, idleVars, me, blocked, target>>

BadGiveUp ==
  /\ pc' = "run"
  /\ ill' = (IF target = "sx" THEN ill \cup {"thawed"} ELSE ill)

\* e1000e_pm_suspend gives the system suspend up with e1000e_pm_thaw alone, without a
\* reset; e1000e_pm_runtime_suspend resumes.
GiveUp ==
  /\ pc' = (IF target = "sx" THEN "run" ELSE "init")
  /\ ill' = (IF target = "sx" THEN ill \cup {"thawed"} ELSE ill)

\* A link that is up is not to wake the system when it changes.
ReadStatus ==
  /\ pc = "status"
  /\ linkWas' = link
  /\ wufc' = (IF target = "runtime" THEN {"LNKC"} ELSE wol) \ (IF link THEN {"LNKC"} ELSE {})
  /\ pc' = (IF wufc' = {} THEN "disarm" ELSE "prepare")
  /\ UNCHANGED <<suspending, mac, phy, ulpState, faults, ill>>

Disarm ==
  /\ pc = "disarm"
  /\ mac' = [mac EXCEPT !.wufc = {}, !.pme = FALSE]
  /\ phy' = PowerDown(mac, phy)
  /\ pc' = "ulp"
  /\ UNCHANGED <<suspending, ulpState, wufc, linkWas, faults, ill>>

\* e1000e_power_up_phy and e1000_suspend_workarounds_ich8lan, whose errors are ignored.
Prepare ==
  /\ pc = "prepare"
  /\ \E ok \in Tries :
       LET p == IF target = "sx" /\ ok THEN PowerUp(mac, phy) ELSE phy
       IN phy' = [p EXCEPT !.proxy = @ \/ (ok /\ Reach(mac, p) /\ ~adapter.me)] /\ Count(ok)
  /\ pc' = (IF adapter.phyWake THEN "copy" ELSE "arm")
  /\ UNCHANGED <<suspending, mac, ulpState, wufc, linkWas, ill>>

\* e1000_copy_rx_addrs_to_phy_ich8lan, whose errors are ignored too.
CopyRxAddrs ==
  /\ pc = "copy"
  /\ \E ok \in Tries :
       /\ phy' = [phy EXCEPT !.rar = @ \/ (ok /\ Reach(mac, phy))]
       /\ ill' = (IF ok /\ Reach(mac, phy) THEN ill ELSE ill \cup {"uncopied"})
       /\ Count(ok)
  /\ pc' = "arm"
  /\ UNCHANGED <<suspending, mac, ulpState, wufc, linkWas>>

ArmMac ==
  /\ pc = "arm" /\ ~adapter.phyWake
  /\ mac' = [mac EXCEPT !.wufc = wufc, !.pme = TRUE]
  /\ pc' = "ulp"
  /\ UNCHANGED <<suspending, phy, ulpState, wufc, linkWas, faults, ill>>

BadArmPhy ==
  /\ pc = "arm" /\ adapter.phyWake
  /\ \E ok \in Tries :
       /\ Count(ok)
       /\ IF ok /\ Reach(mac, phy)
            THEN /\ mac' = [mac EXCEPT !.wufc = wufc, !.pme = TRUE]
                 /\ phy' = [phy EXCEPT !.wufc = @ \cup wufc, !.host = TRUE]
                 /\ pc' = "ulp" /\ ill' = ill
            ELSE GiveUp /\ UNCHANGED <<mac, phy>>
  /\ UNCHANGED <<suspending, ulpState, wufc, linkWas>>

\* e1000_init_phy_wakeup: fails before it has written anything, or when it sets the host
\* wakeup bit at the end.
ArmPhy ==
  /\ pc = "arm" /\ adapter.phyWake
  /\ \/ \E ok \in Tries :
          /\ Count(ok)
          /\ IF ok /\ Reach(mac, phy)
               THEN /\ mac' = [mac EXCEPT !.wufc = wufc, !.pme = TRUE]
                    /\ phy' = [phy EXCEPT !.wufc = wufc, !.host = TRUE]
                    /\ pc' = "ulp" /\ ill' = ill
               ELSE GiveUp /\ UNCHANGED <<mac, phy>>
     \/ /\ faults < MaxFaults /\ Reach(mac, phy) /\ Count(FALSE)
        /\ mac' = [mac EXCEPT !.wufc = wufc, !.pme = TRUE]
        /\ phy' = [phy EXCEPT !.wufc = wufc, !.host = FALSE]
        /\ GiveUp
  /\ UNCHANGED <<suspending, ulpState, wufc, linkWas>>

BadWantsUlp == adapter.ulp /\ ulpState # "on"

\* ULP does not support wake from unicast, multicast or broadcast.
WantsUlp == adapter.ulp /\ "EX" \notin wufc /\ ulpState # "on"

NoUlp ==
  /\ pc = "ulp" /\ ~WantsUlp
  /\ pc' = "release"
  /\ UNCHANGED <<suspending, mac, phy, ulpState, wufc, linkWas, faults, ill>>

AskMe ==
  /\ pc = "ulp" /\ WantsUlp /\ adapter.me
  /\ me' = [me EXCEPT !.ulp = TRUE, !.enforce = TRUE]
  /\ ulpState' = "on" /\ pc' = "release"
  /\ UNCHANGED <<adapter, wol, wireVars, idleVars, blocked, target, mac, phy, wufc, linkWas, faults, ill>>

\* A runtime suspend waits for the cable to be disconnected, for five seconds, and gives
\* up if the link is back.
CableGone ==
  /\ pc = "ulp" /\ WantsUlp /\ ~adapter.me
  /\ IF target = "runtime" /\ link THEN GiveUp ELSE pc' = "force" /\ ill' = ill
  /\ UNCHANGED <<suspending, mac, phy, ulpState, wufc, linkWas, faults>>

BadUlpConfig(p) ==
  [p EXCEPT !.smb = TRUE, !.ulp = TRUE, !.conf = "sticky",
            !.wolHost = (target = "sx" /\ "LNKC" \in mac.wufc)]

\* The configuration of ULP in the PHY, which then starts it.
UlpConfig(p) ==
  [p EXCEPT !.smb = TRUE, !.ulp = TRUE,
            !.conf = IF target = "sx" THEN "sticky" ELSE "inband",
            !.wolHost = (target = "sx" /\ "LNKC" \in mac.wufc)]

\* e1000_enable_ulp_lpt_lp without an ME: the PHY is forced to SMBus mode, then the MAC,
\* and a later error leaves both there.
ForceUlp ==
  /\ pc = "force"
  /\ \/ \E ok \in Tries :
          /\ Count(ok)
          /\ IF ok /\ Reach(mac, phy)
               THEN /\ mac' = [mac EXCEPT !.smb = TRUE, !.perst = TRUE]
                    /\ phy' = UlpConfig(phy)
                    /\ ulpState' = "on" /\ pc' = "release" /\ ill' = ill
               ELSE GiveUp /\ UNCHANGED <<mac, phy, ulpState>>
     \/ /\ faults < MaxFaults /\ Reach(mac, phy) /\ Count(FALSE)
        /\ mac' = [mac EXCEPT !.smb = TRUE] /\ phy' = [phy EXCEPT !.smb = TRUE]
        /\ GiveUp /\ ulpState' = ulpState
  /\ UNCHANGED <<suspending, wufc, linkWas>>

\* LPI in Sx and the hardware control of Lifecycle; then the device is in D3.
Release ==
  /\ pc = "release" /\ pc' = "asleep"
  /\ UNCHANGED <<suspending, mac, phy, ulpState, wufc, linkWas, faults, ill>>

-----------------------------------------------------------------------------
(* __e1000_resume.                                                         *)

resuming == <<adapter, wol, wireVars, idleVars, blocked, target, wufc, linkWas>>

\* The user, the system or the PM core wants the device.
Request ==
  /\ pc = "asleep" /\ pc' = "init"
  /\ UNCHANGED <<resuming, mac, phy, me, ulpState, faults, ill>>

\* The wake-up the device is armed for; the PHY leaves ULP for it.
LinkWakes ==
  /\ pc = "asleep" /\ Woken
  /\ pc' = "init" /\ phy' = [phy EXCEPT !.ulp = @ /\ adapter.me]
  /\ UNCHANGED <<resuming, mac, me, ulpState, faults, ill>>

\* "It is not possible to be certain of the current state of ULP."
InitPhy ==
  /\ pc = "init"
  /\ ulpState' = "unknown" /\ ill' = {}
  /\ IF adapter.ulp /\ adapter.me
       THEN me' = [me EXCEPT !.ulp = FALSE, !.enforce = TRUE] /\ pc' = "poll"
       ELSE me' = me /\ pc' = (IF adapter.ulp THEN "exit" ELSE "access")
  /\ UNCHANGED <<resuming, mac, phy, faults>>

BadMeAnswered ==
  /\ pc = "poll"
  /\ me' = [me EXCEPT !.enforce = FALSE]
  /\ ulpState' = "off" /\ pc' = "access"
  /\ ill' = (IF me.busy THEN ill \cup {"raced"} ELSE ill)
  /\ UNCHANGED <<resuming, mac, phy, faults>>

\* ULP_CFG_DONE is clear.
MeAnswered ==
  /\ pc = "poll" /\ ~me.done
  /\ me' = [me EXCEPT !.enforce = FALSE]
  /\ ulpState' = "off" /\ pc' = "access"
  /\ ill' = (IF me.busy THEN ill \cup {"raced"} ELSE ill)
  /\ UNCHANGED <<resuming, mac, phy, faults>>

\* It has not become clear in 300 milliseconds.
MeSilent ==
  /\ pc = "poll" /\ me.done /\ faults < MaxFaults /\ Count(FALSE)
  /\ pc' = "access" /\ ill' = ill \cup {"silent"}
  /\ UNCHANGED <<resuming, mac, phy, me, ulpState>>

BadExits(p, ok, done) ==
  LET m == IF ok /\ Reach(mac, p) THEN mac ELSE [mac EXCEPT !.smb = TRUE]
  IN IF ~Reach(m, p) THEN [mac |-> m, phy |-> p, off |-> FALSE]
     ELSE [mac |-> [m EXCEPT !.smb = FALSE], phy |-> [p EXCEPT !.smb = FALSE], off |-> done]

\* What e1000_disable_ulp_lpt_lp(hw, true) makes of a PHY that has come back from the
\* toggle: [mac, phy, off] before the PHY is reset.  A first read that fails has the MAC
\* forced to SMBus mode.
Exits(p, ok, done) ==
  LET m == IF ok /\ Reach(mac, p) THEN mac ELSE [mac EXCEPT !.smb = TRUE]
  IN IF ~Reach(m, p) THEN [mac |-> m, phy |-> p, off |-> FALSE]
     ELSE IF ~done THEN [mac |-> [m EXCEPT !.smb = FALSE], phy |-> [p EXCEPT !.smb = FALSE], off |-> FALSE]
     ELSE [mac |-> [m EXCEPT !.smb = FALSE, !.perst = FALSE],
           phy |-> [p EXCEPT !.smb = FALSE, !.conf = "none", !.wolHost = FALSE], off |-> TRUE]

ExitUlp ==
  /\ pc = "exit"
  /\ \/ \E ok, done \in Tries, p \in Toggle(phy) :
          LET x == Exits(p, ok, done)
          IN /\ (ok \/ done) /\ Count(ok /\ done)
             /\ mac' = x.mac /\ phy' \in PhyHwReset(x.mac, x.phy)
             /\ ulpState' = (IF x.off THEN "off" ELSE ulpState)
             /\ ill' = (IF x.off THEN ill ELSE ill \cup {"ulp"})
     \/ /\ faults < MaxFaults /\ Count(FALSE) /\ UNCHANGED <<mac, phy, ulpState>>
        /\ ill' = ill \cup {"ulp"}
  /\ pc' = "access"
  /\ UNCHANGED <<resuming, me>>

\* How e1000_init_phy_workarounds_pchlan gets at the PHY, as [mac, phy, ok]: as it is,
\* with the MAC forced to SMBus mode, after power-cycling the PHY, with the MAC released.
Accesses ==
  LET found(m, p) == LET u == Unforce(m, p) IN [mac |-> u[1], phy |-> u[2], ok |-> TRUE]
      forced == [mac EXCEPT !.smb = TRUE]
      freed == [mac EXCEPT !.smb = FALSE]
  IN IF Reach(mac, phy) THEN {found(mac, phy)}
     ELSE IF Reach(forced, phy) THEN {found(forced, phy)}
     ELSE IF blocked THEN {[mac |-> forced, phy |-> phy, ok |-> FALSE]}
     ELSE {IF Reach(forced, p) THEN found(forced, p)
           ELSE IF Reach(freed, p) THEN found(freed, p)
           ELSE [mac |-> freed, phy |-> p, ok |-> FALSE] : p \in Toggle(phy)}

\* The PHY is then reset; it may be refused, which is an error only after a reset.
AccessPhy ==
  /\ pc = "access"
  /\ \/ \E x \in Accesses :
          /\ mac' = x.mac
          /\ IF x.ok /\ ~blocked THEN phy' \in PhyReset(x.phy) ELSE phy' = x.phy
          /\ pc' = (IF x.ok THEN "irst" ELSE "reset")
          /\ faults' = faults
          /\ ill' = (IF x.ok THEN ill ELSE ill \cup {"access"})
     \/ /\ faults < MaxFaults /\ Count(FALSE) /\ UNCHANGED <<mac, phy>>
        /\ pc' = "reset" /\ ill' = ill \cup {"access"}
  /\ UNCHANGED <<resuming, me, ulpState>>

BadClearProxy ==
  /\ pc = "irst"
  /\ UNCHANGED <<phy, ill, faults>>
  /\ pc' = "reset"
  /\ UNCHANGED <<resuming, mac, me, ulpState>>

\* The end of e1000_resume_workarounds_pchlan.
ClearProxy ==
  /\ pc = "irst"
  /\ \E ok \in Tries :
       /\ phy' = [phy EXCEPT !.proxy = @ /\ ~(ok /\ Reach(mac, phy) /\ ~adapter.me)]
       /\ ill' = (IF ok THEN ill ELSE ill \cup {"access"})
       /\ Count(ok)
  /\ pc' = "reset"
  /\ UNCHANGED <<resuming, mac, me, ulpState>>

\* e1000e_power_up_phy and e1000e_reset, then e1000e_pm_thaw or e1000e_up.
ResetAndUp ==
  /\ pc = "reset"
  /\ mac' = [mac EXCEPT !.dma = TRUE, !.pme = FALSE]
  /\ \E p \in PhyHwReset(mac, PowerUp(mac, phy)) :
       phy' = IF adapter.open THEN p ELSE PowerDown(mac, p)
  /\ ill' = (IF blocked THEN ill \cup {"blocked"} ELSE ill)
  /\ pc' = "run"
  /\ UNCHANGED <<resuming, me, ulpState, faults>>

-----------------------------------------------------------------------------
PowerNext ==
  \/ WireChange \/ LinkChange \/ MeBlocks \/ MeStarts \/ MeEnters \/ MeLeaves \/ Perst
  \/ \E w \in Wols : SetWol(w)
  \/ SetMac \/ Watchdog \/ RuntimeIdle \/ RuntimeSuspend \/ Suspend \/ ResetTask
  \/ ReadStatus \/ Disarm \/ Prepare \/ CopyRxAddrs \/ ArmMac \/ ArmPhy
  \/ NoUlp \/ AskMe \/ CableGone \/ ForceUlp \/ Release
  \/ Request \/ LinkWakes \/ InitPhy \/ MeAnswered \/ MeSilent \/ ExitUlp \/ AccessPhy
  \/ ClearProxy \/ ResetAndUp

PowerSpec == PowerInit /\ [][PowerNext]_powerVars

\* The adapter raises PME and the PM core resumes the device for it.
FairPowerSpec == PowerSpec /\ WF_powerVars(LinkWakes)

-----------------------------------------------------------------------------
(* Correctness.                                                            *)

\* What the suspend under way, or ended, is to leave the device armed for: link changes
\* for a runtime suspend, what the user asked for otherwise, and no link change if there
\* was a link (__e1000_shutdown).
Asked == (IF target = "runtime" THEN {"LNKC"} ELSE wol) \ (IF linkWas THEN {"LNKC"} ELSE {})

\* Registers and locals have their types; ULP is configured by software only for a part
\* that has it and no ME (enable_ulp and disable_ulp).
PowerTypeOK ==
  /\ adapter \in Adapters /\ wol \in Wols
  /\ wire \in BOOLEAN /\ link \in BOOLEAN /\ carrier \in BOOLEAN /\ sched \in BOOLEAN
  /\ mac \in [smb : BOOLEAN, perst : BOOLEAN, wufc : SUBSET Wakes, pme : BOOLEAN, dma : BOOLEAN]
  /\ phy \in [smb : BOOLEAN, conf : {"none", "sticky", "inband"}, wolHost : BOOLEAN, ulp : BOOLEAN,
              down : BOOLEAN, host : BOOLEAN, wufc : SUBSET Wakes, rar : BOOLEAN, proxy : BOOLEAN]
  /\ me \in [ulp : BOOLEAN, enforce : BOOLEAN, done : BOOLEAN, busy : BOOLEAN]
  /\ blocked \in BOOLEAN /\ ulpState \in {"unknown", "off", "on"}
  /\ pc \in {"run", "status", "disarm", "prepare", "copy", "arm", "ulp", "force", "release", "asleep",
             "init", "poll", "exit", "access", "irst", "reset"}
  /\ target \in {"runtime", "sx"} /\ wufc \in SUBSET Wakes /\ linkWas \in BOOLEAN
  /\ faults \in 0..MaxFaults
  /\ ill \subseteq {"thawed", "uncopied", "ulp", "access", "blocked", "raced", "silent"}
  /\ phy.smb \/ mac.perst \/ phy.conf # "none" => adapter.ulp /\ ~adapter.me

\* A device that has come back is at work: MAC and PHY are connected by PCIe and the PHY
\* is out of ULP, it is powered and the MAC masters the bus - unless the exit from ULP or
\* the access to the PHY failed on the way, or the suspend was given up without a resume.
DeviceWorks ==
  pc = "run" /\ ill \cap {"thawed", "ulp", "access"} = {} =>
    /\ ~mac.smb /\ ~phy.smb
    /\ phy.ulp => "raced" \in ill
    /\ mac.dma
    /\ adapter.open => ~phy.down

Troubled == ill \cap {"thawed", "ulp", "access", "raced"} # {}

\* No wake-up survives a resume: neither the host wakeup bit, which stalls the receiver of
\* an 82578 when the ME has set its own, nor the proxy, nor PME.
AwakeIsDisarmed ==
  pc = "run" /\ ~Troubled /\ "blocked" \notin ill =>
    ~phy.host /\ ~phy.proxy /\ ~mac.pme

\* A device that sleeps is armed, in the MAC and in the PHY, for exactly what it was asked
\* to wake for, whatever an earlier suspend left; the PHY filters by the receive addresses
\* of now unless they could not be copied.
WakeAsAsked ==
  pc = "asleep" =>
    /\ mac.wufc = Asked /\ mac.pme = (Asked # {})
    /\ adapter.phyWake /\ Asked # {} =>
         phy.wufc = Asked /\ phy.host /\ (phy.rar \/ "uncopied" \in ill)
    /\ Asked = {} /\ ~Troubled /\ "blocked" \notin ill => ~phy.host

\* "ULP does not support wake from unicast, multicast or broadcast" (__e1000_shutdown): a
\* PHY that is to wake for those is not in ULP, unless the resume before could not reach it
\* there and left it.
UlpCanWake ==
  pc = "asleep" /\ "EX" \in Asked /\ ill \cap {"raced", "access"} = {} => ~phy.ulp

\* ULP is off when the driver holds it for off: neither entered, nor configured to be
\* entered by the next reset of the PHY.
UlpStateTrue ==
  ulpState = "off" /\ "raced" \notin ill =>
    ~phy.ulp /\ ~me.done /\ phy.conf = "none" /\ ~phy.wolHost

\* Suspended, the device is armed as it was asked to be, ULP and PHY alike.
ArmedRight == WakeAsAsked /\ UlpCanWake

\* Awake, it works, nothing is left armed, and the driver knows whether ULP is on.
AwakeRight == PowerTypeOK /\ DeviceWorks /\ AwakeIsDisarmed /\ UlpStateTrue

\* "Runtime suspend should only enable wakeup for link changes" (__e1000_shutdown), and a
\* system that is to wake for them: a cable that stays connected wakes the device up.
CableWakes == (pc = "asleep" /\ wire /\ "LNKC" \in Asked) ~> (pc # "asleep" \/ ~wire)
=============================================================================
