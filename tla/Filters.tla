------------------------------- MODULE Filters -------------------------------
(***************************************************************************)
(* What the adapter receives: the receive addresses, the multicast table,  *)
(* the VLAN table and RCTL.  The stack changes its lists, flags, VLANs and *)
(* address while a reset wipes and rewrites the registers from them, the   *)
(* watchdog repairs some of them and the management engine takes others;   *)
(* no lock is common to these, and RCTL is read, changed and written back. *)
(***************************************************************************)
EXTENDS Naturals, FiniteSets

CONSTANTS
  FilterSetups,  \* what a run looks at: records as in FilterSetup
  Stations,      \* addresses of the adapter itself
  Permanent,     \* the one of them in the NVM
  MeAddr,        \* what the management engine puts into an entry it takes
  NoAddr,        \* an entry without E1000_RAH_AV
  NoVid          \* E1000_MNG_VLAN_NONE

\* The register sets of ich8lan.c (RAR, SHRA of the 82579, SHRA of the I217) and of the others.
Kinds == {"ich", "pch2", "lpt", "82571", "82574", "es2lan"}

FilterSetup ==
  [kind : Kinds,
   slots : Nat,                  \* entries besides RAR[0]
   uc : SUBSET Nat, mc : SUBSET Nat, vids : SUBSET Nat, \* what the stack may ask for
   modes : SUBSET {"promisc", "allmulti"},
   ops : Nat, resets : Nat,      \* bounds: calls of the stack, resets,
   faults : Nat]                 \* acts of firmware, other port, allocator or interrupt

ASSUME FilterAssumption ==
  /\ FilterSetups \subseteq FilterSetup
  /\ \A s \in FilterSetups : IsFiniteSet(s.uc) /\ (s.kind = "82571" => s.slots > 0)
  /\ Permanent \in Stations
  /\ \A a \in Stations \cup {MeAddr, NoAddr} : a \notin Nat
  /\ NoVid \notin Nat
  /\ MeAddr \notin Stations \cup {NoAddr} /\ NoAddr \notin Stations

VARIABLES
  setup,
  uc, mc, flags, vlans, addr,  \* the net_device: lists, flags, VLANs, and hw->mac.addr
  rctl, rar, mta, vfta,        \* registers
  locked,                      \* entries the management engine has taken
  active, cookie, mngVid,      \* active_vlans, mng_cookie, mng_vlan_id
  pc, loc,                     \* of the two threads: the stack and a reset
  wpc, restart,                \* the watchdog, FLAG_RESTART_NOW
  stale, lost, taken, managed, torn \* ghosts, see the properties

Threads == {"stack", "reset"}

netVars == <<uc, mc, flags, vlans, addr>>
regVars == <<rctl, rar, mta, vfta>>
vlanVars == <<active, cookie, mngVid>>
ghosts == <<stale, lost, taken, managed, torn>>
vars == <<setup, netVars, regVars, locked, vlanVars, pc, loc, wpc, restart, ghosts>>

Entries == 0..setup.slots
HasVlanFilter == setup.kind \in {"82571", "82574", "es2lan"}  \* FLAG_HAS_HW_VLAN_FILTER
HasLaa == setup.kind = "82571"                                \* FLAG_RESET_OVERWRITES_LAA
Awake == pc["reset"] # "asleep"
Up == pc["reset"] = "idle"                                    \* not __E1000_DOWN
AtRest == Up /\ pc["stack"] = "idle"

Goto(t, here, there) == pc[t] = here /\ pc' = [pc EXCEPT ![t] = there]
Spend(what) == setup[what] > 0 /\ setup' = [setup EXCEPT ![what] = @ - 1]

Off == [en |-> FALSE, upe |-> FALSE, mpe |-> FALSE, vfe |-> FALSE]
AllOnes == [en |-> TRUE, upe |-> TRUE, mpe |-> TRUE, vfe |-> TRUE]
-----------------------------------------------------------------------------
(* RCTL is read into a local by one thread and written back later: a write *)
(* of another in between is undone.  A register of a sleeping adapter      *)
(* reads as all ones and cannot be written.                                *)

ReadRctl == IF Awake THEN rctl ELSE AllOnes

\* A write by a thread or, with t = "other", by the watchdog or an interrupt.
WriteRctl(t, value) ==
  /\ rctl' = IF Awake THEN value ELSE rctl
  /\ stale' = (stale \cup Threads) \ {t}

\* What goes missing when t writes back what it read before the last write: the receiver's
\* enable bit, a mode the other thread needed, or a mode the stack has changed since.
Undone(t) ==
  LET mine == loc[t].rctl
      dropped == \E m \in {"upe", "mpe"} : rctl[m] /\ ~mine[m] IN
  IF ~Awake \/ t \notin stale THEN {}
  ELSE (IF t = "stack" /\ mine.en # rctl.en THEN {"en"} ELSE {})
       \cup (IF t = "reset" \/ dropped THEN {"modes"} ELSE {})

\* The n-th of the addresses, from 1.
Nth(s, n) == CHOOSE a \in s : Cardinality({b \in s : b < a}) = n - 1

\* rar_get_count less RAR[0] and, on the 82571, the entry that holds the LAA.
Available ==
  CASE HasLaa -> setup.slots - 1
    [] setup.kind = "lpt" -> Cardinality((1..setup.slots) \ locked)
    [] OTHER -> setup.slots

\* The management engine keeps the entries above the ones it leaves, the 82579's any.
Locks ==
  IF setup.kind = "pch2" THEN SUBSET (1..setup.slots)
  ELSE IF setup.kind = "lpt" THEN {{}, 1..setup.slots} \cup {(k + 1)..setup.slots : k \in 2..setup.slots}
  ELSE {{}}

\* e1000e_init_rx_addrs, with the LAA's entry left alone on the 82571.
InitRxAddrs(a) ==
  [i \in Entries |-> CASE i = 0 -> a
                       [] i \in locked -> rar[i]
                       [] HasLaa /\ i = setup.slots -> rar[i]
                       [] OTHER -> NoAddr]
-----------------------------------------------------------------------------
FilterInit ==
  /\ setup \in FilterSetups
  /\ uc = {} /\ mc = {} /\ flags = {} /\ vlans = {} /\ addr = Permanent
  /\ rctl = [Off EXCEPT !.en = TRUE]
  /\ rar = [i \in Entries |-> IF i = 0 \/ (HasLaa /\ i = setup.slots) THEN Permanent ELSE NoAddr]
  /\ mta = {} /\ vfta = (IF HasVlanFilter THEN {0} ELSE {}) /\ locked = {}
  /\ active = {0} /\ cookie = NoVid /\ mngVid = NoVid
  /\ pc = [t \in Threads |-> "idle"]
  /\ loc = [t \in Threads |-> [rctl |-> Off, avail |-> 0, vid |-> NoVid, addr |-> Permanent]]
  /\ wpc = "idle" /\ restart = FALSE
  /\ stale = {} /\ lost = {} /\ taken = FALSE /\ managed = {} /\ torn = FALSE
-----------------------------------------------------------------------------
(* e1000e_set_rx_mode, which the stack calls and a reset does.             *)

keptByRxMode == <<setup, netVars, locked, cookie, wpc, restart, managed, torn>>

\* The affected bits are cleared in the local; promiscuous mode sets both.
ReadModes(t) ==
  LET promisc == "promisc" \in flags IN
  /\ Goto(t, "rxmode", IF promisc THEN "vfe" ELSE "mta")
  /\ loc' = [loc EXCEPT ![t].rctl = [ReadRctl EXCEPT !.upe = promisc, !.mpe = promisc]]
  /\ stale' = stale \ {t}
  /\ UNCHANGED <<keptByRxMode, regVars, active, mngVid, lost, taken>>

\* e1000e_write_mc_addr_list: the whole table, unless all multicast is wanted.
WriteMta(t) ==
  /\ Goto(t, "mta", "vfe")
  /\ mta' = IF "allmulti" \in flags \/ ~Awake THEN mta ELSE mc
  /\ loc' = [loc EXCEPT ![t].rctl.mpe = "allmulti" \in flags]
  /\ UNCHANGED <<keptByRxMode, rctl, rar, vfta, active, mngVid, stale, lost, taken>>

\* There is no memory for the packed list: the table stays as it was.
MtaNoMemory(t) ==
  /\ Goto(t, "mta", "vfe") /\ "allmulti" \notin flags /\ mc # {}
  /\ Spend("faults")
  /\ loc' = [loc EXCEPT ![t].rctl.mpe = TRUE]
  /\ UNCHANGED <<netVars, regVars, locked, vlanVars, wpc, restart, ghosts>>

\* e1000_vlan_rx_kill_vid on the table; a managed VLAN stays, its control is given up.
KilledIn(table, v) == IF cookie = v /\ mngVid = v THEN table ELSE table \ {v}

\* e1000e_vlan_filter_enable and _disable, in the register and not in the local.
FilterVlans(t) ==
  LET promisc == loc[t].rctl.upe IN
  /\ Goto(t, "vfe", IF promisc THEN "write" ELSE "count")
  /\ IF HasVlanFilter
     THEN /\ rctl' = IF Awake THEN [rctl EXCEPT !.vfe = ~promisc] ELSE rctl
          /\ stale' = stale \cup (Threads \ {t})
          /\ IF promisc
             THEN /\ vfta' = IF Awake THEN KilledIn(vfta, mngVid) ELSE vfta
                  /\ active' = KilledIn(active, mngVid)
                  /\ mngVid' = NoVid
             ELSE UNCHANGED <<vfta, active, mngVid>>
     ELSE UNCHANGED <<rctl, stale, vfta, active, mngVid>>
  /\ UNCHANGED <<keptByRxMode, rar, mta, loc, lost, taken>>

\* e1000e_write_uc_addr_list: too many addresses are not written at all.
Count(t) ==
  LET many == Cardinality(uc) > Available IN
  /\ Goto(t, "count", IF many THEN "write" ELSE "entries")
  /\ loc' = [loc EXCEPT ![t].rctl.upe = many, ![t].avail = Available]
  /\ taken' = (taken /\ ~many)
  /\ UNCHANGED <<keptByRxMode, regVars, active, mngVid, stale, lost>>

\* The first n addresses from entry avail downwards.
Programmed(avail, n) ==
  [i \in Entries |-> IF i \in (avail - n + 1)..avail THEN Nth(uc, avail - i + 1) ELSE rar[i]]

\* The loop ends early if the list has grown since it was counted, and the rest goes unheard.
Room(avail) == IF Cardinality(uc) < avail THEN Cardinality(uc) ELSE avail
CutShort(avail) == IF Cardinality(uc) > avail THEN {"list"} ELSE {}

BadZeroed(avail) ==
  [i \in Entries |-> IF i \in 2..(avail - Room(avail)) /\ setup.kind # "pch2" THEN NoAddr
                     ELSE Programmed(avail, Room(avail))[i]]

\* The rest is cleared through RAR, where the 82579 has the engine's entries, not SHRA.
Zeroed(avail) ==
  [i \in Entries |-> IF i \in 1..(avail - Room(avail)) /\ setup.kind # "pch2" THEN NoAddr
                     ELSE Programmed(avail, Room(avail))[i]]

WriteEntries(t) ==
  LET avail == loc[t].avail IN
  /\ Goto(t, "entries", "write")
  /\ ((avail - Room(avail) + 1)..avail) \cap locked = {}
  /\ rar' = IF Awake THEN Zeroed(avail) ELSE rar
  /\ taken' = FALSE /\ lost' = (lost \ {"list"}) \cup CutShort(avail)
  /\ UNCHANGED <<keptByRxMode, rctl, mta, vfta, active, mngVid, loc, stale>>

BadEntriesFail(t, n) ==
  /\ Goto(t, "entries", "write")
  /\ n < Room(loc[t].avail) /\ ((loc[t].avail - n + 1)..loc[t].avail) \cap locked = {}
  /\ IF loc[t].avail - n \in locked THEN UNCHANGED setup
     ELSE setup.kind \in {"pch2", "lpt"} /\ Spend("faults")
  /\ rar' = IF Awake THEN Programmed(loc[t].avail, n) ELSE rar
  /\ taken' = FALSE
  /\ UNCHANGED <<netVars, locked, cookie, wpc, restart, managed, torn,
                 rctl, mta, vfta, active, mngVid, loc, stale, lost>>

\* rar_set fails after n addresses: the entry is locked or SWFLAG was not to be had.
EntriesFail(t, n) ==
  /\ Goto(t, "entries", "write")
  /\ n < Room(loc[t].avail) /\ ((loc[t].avail - n + 1)..loc[t].avail) \cap locked = {}
  /\ IF loc[t].avail - n \in locked THEN UNCHANGED setup
     ELSE setup.kind \in {"pch2", "lpt"} /\ Spend("faults")
  /\ rar' = IF Awake THEN Programmed(loc[t].avail, n) ELSE rar
  /\ loc' = [loc EXCEPT ![t].rctl.upe = TRUE]
  /\ taken' = FALSE
  /\ UNCHANGED <<netVars, locked, cookie, wpc, restart, managed, torn,
                 rctl, mta, vfta, active, mngVid, stale, lost>>

\* The stack computes the modes anew, but writes back what it read of the rest.
WriteModes(t) ==
  /\ Goto(t, "write", IF t = "stack" THEN "idle" ELSE "restore")
  /\ WriteRctl(t, loc[t].rctl)
  /\ lost' = (lost \ {"modes"}) \cup Undone(t)
  /\ UNCHANGED <<keptByRxMode, rar, mta, vfta, active, mngVid, loc, taken>>

SetRxMode(t) ==
  \/ ReadModes(t) \/ WriteMta(t) \/ MtaNoMemory(t) \/ FilterVlans(t) \/ Count(t)
  \/ WriteEntries(t) \/ (\E n \in 0..setup.slots : EntriesFail(t, n)) \/ WriteModes(t)
-----------------------------------------------------------------------------
(* The stack: one call at a time.                                          *)

keptByStack == <<locked, cookie, mngVid, wpc, restart, stale, lost, taken, managed, torn>>

\* The lists and flags are the stack's own; a sleeping adapter is left alone.
ChangeRx(newUc, newMc, newFlags) ==
  /\ <<newUc, newMc, newFlags>> # <<uc, mc, flags>>
  /\ Spend("ops") /\ Goto("stack", "idle", IF Awake THEN "rxmode" ELSE "idle")
  /\ uc' = newUc /\ mc' = newMc /\ flags' = newFlags
  /\ UNCHANGED <<vlans, addr, regVars, active, loc, keptByStack>>

\* e1000_vlan_rx_add_vid: first the table, then active_vlans.
AddVid(v) ==
  LET known == cookie = v /\ mngVid = v IN
  /\ v \notin vlans /\ vlans' = vlans \cup {v}
  /\ Spend("ops") /\ Goto("stack", "idle", IF known THEN "idle" ELSE "addactive")
  /\ vfta' = IF HasVlanFilter /\ Awake /\ ~known THEN vfta \cup {v} ELSE vfta
  /\ loc' = [loc EXCEPT !["stack"].vid = v]
  /\ UNCHANGED <<uc, mc, flags, addr, rctl, rar, mta, active, keptByStack>>

KillVid(v) ==
  /\ v \in vlans /\ vlans' = vlans \ {v}
  /\ Spend("ops")
  /\ Goto("stack", "idle", IF cookie = v /\ mngVid = v THEN "idle" ELSE "killactive")
  /\ vfta' = IF HasVlanFilter /\ Awake THEN KilledIn(vfta, v) ELSE vfta
  /\ loc' = [loc EXCEPT !["stack"].vid = v]
  /\ UNCHANGED <<uc, mc, flags, addr, rctl, rar, mta, active, keptByStack>>

SetActive ==
  /\ pc["stack"] \in {"addactive", "killactive"} /\ pc' = [pc EXCEPT !["stack"] = "idle"]
  /\ active' = IF pc["stack"] = "addactive" THEN active \cup {loc["stack"].vid}
               ELSE active \ {loc["stack"].vid}
  /\ UNCHANGED <<setup, netVars, regVars, loc, keptByStack>>

\* e1000_set_mac: hw->mac.addr, then RAR[0], then the LAA's entry.
SetMac(a) ==
  /\ a # addr /\ addr' = a
  /\ Spend("ops") /\ Goto("stack", "idle", "mac")
  /\ UNCHANGED <<uc, mc, flags, vlans, regVars, active, loc, keptByStack>>

WriteStation ==
  /\ Goto("stack", "mac", IF HasLaa THEN "laa" ELSE "idle")
  /\ rar' = IF Awake THEN [rar EXCEPT ![0] = addr] ELSE rar
  /\ lost' = lost \ {"mac"}
  /\ UNCHANGED <<setup, netVars, rctl, mta, vfta, active, loc, locked, cookie, mngVid,
                 wpc, restart, stale, taken, managed, torn>>

BadWriteLaa ==
  /\ Goto("stack", "laa", "idle")
  /\ UNCHANGED <<setup, netVars, regVars, active, loc, keptByStack>>

WriteLaa ==
  /\ Goto("stack", "laa", "idle")
  /\ rar' = IF Awake THEN [rar EXCEPT ![setup.slots] = addr] ELSE rar
  /\ UNCHANGED <<setup, netVars, rctl, mta, vfta, active, loc, keptByStack>>

Stack ==
  \/ \E u \in SUBSET setup.uc, m \in SUBSET setup.mc, f \in SUBSET setup.modes : ChangeRx(u, m, f)
  \/ \E v \in setup.vids : AddVid(v) \/ KillVid(v)
  \/ \E a \in Stations : SetMac(a)
  \/ SetActive \/ WriteStation \/ WriteLaa
-----------------------------------------------------------------------------
(* A reset: e1000e_down, e1000e_reset and e1000_configure.                 *)

keptByReset == <<netVars, locked, cookie, wpc, managed>>

\* FLAG2_NO_DISABLE_RX: the 82574 goes on receiving until it is reset.
StopReceiver ==
  IF setup.kind = "82574" THEN rctl' = rctl /\ stale' = stale \ {"reset"}
  ELSE WriteRctl("reset", [rctl EXCEPT !.en = FALSE])

Down ==
  /\ Goto("reset", "idle", "hwreset") /\ StopReceiver
  /\ Spend("resets")
  /\ UNCHANGED <<keptByReset, rar, mta, vfta, active, mngVid, loc, restart, lost, taken, torn>>

\* e1000_reset_task, for which the watchdog asked.
ResetTask ==
  /\ wpc = "resettask" /\ wpc' = "idle"
  /\ IF Up THEN Goto("reset", "idle", "hwreset") /\ StopReceiver ELSE UNCHANGED <<pc, rctl, stale>>
  /\ UNCHANGED <<setup, netVars, locked, cookie, managed, rar, mta, vfta, active, mngVid, loc,
                 restart, lost, taken, torn>>

BadHwReset ==
  /\ Goto("reset", "hwreset", IF HasLaa THEN "laa" ELSE "readaddr")
  /\ WriteRctl("reset", rctl)
  /\ mta' = {}
  /\ rar' = [i \in Entries |-> IF i = 0 THEN Permanent ELSE IF i \in locked THEN rar[i] ELSE NoAddr]
  /\ lost' = lost \ {"en"}
  /\ UNCHANGED <<setup, keptByReset, vfta, active, mngVid, loc, restart, taken, torn>>

\* reset_hw: RCTL is cleared, then the device resets.
HwReset ==
  /\ Goto("reset", "hwreset", IF HasLaa THEN "laa" ELSE "readaddr")
  /\ WriteRctl("reset", Off)
  /\ mta' = {}
  /\ rar' = [i \in Entries |-> IF i = 0 THEN Permanent ELSE IF i \in locked THEN rar[i] ELSE NoAddr]
  /\ lost' = lost \ {"en"}
  /\ UNCHANGED <<setup, keptByReset, vfta, active, mngVid, loc, restart, taken, torn>>

\* e1000e_set_laa_state_82571, at the end of reset_hw.
SetLaaState ==
  /\ Goto("reset", "laa", "readaddr")
  /\ rar' = [rar EXCEPT ![setup.slots] = addr]
  /\ UNCHANGED <<setup, keptByReset, rctl, mta, vfta, active, mngVid, loc, restart, ghosts>>

\* e1000e_init_rx_addrs puts the address together before it writes it.
ReadAddr ==
  /\ Goto("reset", "readaddr", "init")
  /\ loc' = [loc EXCEPT !["reset"].addr = addr]
  /\ UNCHANGED <<setup, keptByReset, regVars, active, mngVid, restart, ghosts>>

BadCleared(table) == IF ~HasVlanFilter THEN table ELSE {}

\* clear_vfta keeps a managed VLAN on the 82573 and 82574.
Cleared(table) ==
  IF ~HasVlanFilter THEN table
  ELSE IF setup.kind = "82574" /\ cookie # NoVid THEN {cookie} ELSE {}

InitHw ==
  LET a == loc["reset"].addr IN
  /\ Goto("reset", "init", "manage")
  /\ rar' = InitRxAddrs(a) /\ mta' = {} /\ vfta' = Cleared(vfta)
  /\ lost' = IF a # addr /\ pc["stack"] # "mac" THEN lost \cup {"mac"} ELSE lost \ {"mac"}
  /\ UNCHANGED <<setup, keptByReset, rctl, active, mngVid, loc, restart, stale, taken, torn>>

\* e1000_update_mng_vlan, of the cookie c that was read last.
UpdateMng(c) ==
  LET known == c = mngVid
      added == IF c = NoVid \/ known THEN {} ELSE {c}
      killed == IF mngVid # c THEN {mngVid} ELSE {} IN
  /\ mngVid' = IF c = NoVid THEN mngVid ELSE c
  /\ active' = (active \cup added) \ killed
  /\ vfta' = IF HasVlanFilter /\ Awake THEN (vfta \cup added) \ killed ELSE vfta

\* A VLAN that the cookie names no longer is killed but stays in mng_vlan_id, and when the
\* cookie names it again it passes for programmed (netdev.c:3160).
Mislaid(c) ==
  IF c = mngVid THEN lost ELSE IF c = NoVid THEN lost \cup {"vlan"} ELSE lost \ {"vlan"}

ManageVlan ==
  /\ Goto("reset", "manage", "rings") /\ UpdateMng(cookie)
  /\ lost' = Mislaid(cookie)
  /\ UNCHANGED <<setup, keptByReset, rctl, rar, mta, loc, restart, stale, taken, torn>>

\* The rings are cleaned; then the adapter comes up again or is put to sleep.
CleanRings ==
  /\ pc["reset"] = "rings" /\ pc' = [pc EXCEPT !["reset"] = "rxmode"]
  /\ UNCHANGED <<setup, keptByReset, regVars, active, mngVid, loc, restart, ghosts>>

Sleep ==
  /\ Goto("reset", "rings", "asleep")
  /\ UNCHANGED <<setup, keptByReset, regVars, active, mngVid, loc, restart, ghosts>>

Wake ==
  /\ Goto("reset", "asleep", "hwreset")
  /\ UNCHANGED <<setup, keptByReset, regVars, active, mngVid, loc, restart, ghosts>>

BadRestoreVlan ==
  /\ Goto("reset", "restore", "setup")
  /\ vfta' = IF HasVlanFilter THEN vfta \cup {0} ELSE vfta
  /\ active' = active \cup {0}
  /\ torn' = (pc["stack"] = "addactive")
  /\ UNCHANGED <<setup, keptByReset, rctl, rar, mta, mngVid, loc, restart, stale, lost, taken>>

\* e1000_restore_vlan; a managed VLAN counts as programmed already.
RestoreVlan ==
  LET known == IF cookie = mngVid THEN {cookie} ELSE {} IN
  /\ Goto("reset", "restore", "setup")
  /\ vfta' = IF HasVlanFilter THEN vfta \cup ((active \cup {0}) \ known) ELSE vfta
  /\ active' = active \cup ({0} \ known)
  /\ torn' = (pc["stack"] = "addactive")
  /\ UNCHANGED <<setup, keptByReset, rctl, rar, mta, mngVid, loc, restart, stale, lost, taken>>

\* e1000_setup_rctl.
SetupRctl ==
  /\ Goto("reset", "setup", "readrctl")
  /\ WriteRctl("reset", [rctl EXCEPT !.en = TRUE]) /\ restart' = FALSE
  /\ lost' = lost \ {"en"}
  /\ UNCHANGED <<setup, keptByReset, rar, mta, vfta, active, mngVid, loc, taken, torn>>

\* e1000_configure_rx: the receiver is stopped while its ring is set up.
ReadRctlAgain ==
  /\ Goto("reset", "readrctl", "enable") /\ StopReceiver
  /\ loc' = [loc EXCEPT !["reset"].rctl = rctl]
  /\ UNCHANGED <<setup, keptByReset, rar, mta, vfta, active, mngVid, restart, lost, taken, torn>>

BadEnable ==
  /\ Goto("reset", "enable", "idle") /\ UNCHANGED <<rctl, stale>>
  /\ lost' = lost
  /\ UNCHANGED <<setup, keptByReset, rar, mta, vfta, active, mngVid, loc, restart, taken, torn>>

Enable ==
  /\ Goto("reset", "enable", "idle") /\ WriteRctl("reset", loc["reset"].rctl)
  /\ lost' = (IF loc["reset"].rctl.en THEN lost \ {"en"} ELSE lost \cup {"en"}) \cup Undone("reset")
  /\ UNCHANGED <<setup, keptByReset, rar, mta, vfta, active, mngVid, loc, restart, taken, torn>>

Reset ==
  \/ HwReset \/ SetLaaState \/ ReadAddr \/ InitHw \/ ManageVlan \/ CleanRings
  \/ RestoreVlan \/ SetupRctl \/ ReadRctlAgain \/ Enable
-----------------------------------------------------------------------------
(* The watchdog, whose work a reset does not wait for.                     *)

keptByWatchdog == <<netVars, locked, pc, loc, taken, torn, mta>>

WatchdogStart ==
  /\ wpc = "idle" /\ Up /\ wpc' = "busy"
  /\ UNCHANGED <<setup, keptByWatchdog, rctl, rar, vfta, vlanVars, restart, stale, lost, managed>>

BadRepairLaa(missing) == rar' = rar /\ lost' = missing

\* With the LAA in use, RAR[0] is written at every turn.
RepairLaa(missing) ==
  IF HasLaa /\ Awake THEN rar' = [rar EXCEPT ![0] = addr] /\ lost' = missing \ {"mac"}
  ELSE rar' = rar /\ lost' = missing

BadEnableReceives ==
  /\ wpc = "busy" /\ wpc' = "idle" /\ restart' = FALSE
  /\ RepairLaa(lost)
  /\ UNCHANGED <<setup, keptByWatchdog, rctl, vfta, vlanVars, stale, managed>>

\* There is a link: e1000e_enable_receives, and the LAA.
EnableReceives ==
  /\ wpc = "busy" /\ wpc' = "idle"
  /\ IF restart
     THEN /\ WriteRctl("other", [rctl EXCEPT !.en = TRUE]) /\ restart' = FALSE
          /\ lost' = (IF Up THEN lost ELSE lost \cup {"en"}) /\ rar' = rar
     ELSE UNCHANGED <<rctl, stale, restart>> /\ RepairLaa(lost)
  /\ UNCHANGED <<setup, keptByWatchdog, vfta, vlanVars, managed>>

\* There is none, or a new one: the cookie is read, and a reset asked for if one is due.
ReadCookie(c) ==
  /\ wpc = "busy" /\ wpc' = IF restart THEN "resettask" ELSE "idle"
  /\ IF c = cookie THEN UNCHANGED setup ELSE Spend("faults")
  /\ cookie' = c /\ managed' = managed \cup ({c} \ {NoVid})
  /\ IF mngVid # c THEN UpdateMng(c) ELSE UNCHANGED <<mngVid, active, vfta>>
  /\ IF restart THEN rar' = rar /\ lost' = Mislaid(c) ELSE RepairLaa(Mislaid(c))
  /\ UNCHANGED <<keptByWatchdog, rctl, restart, stale>>

Cookies == setup.vids \cup {NoVid}
Watchdog == EnableReceives \/ \E c \in Cookies : ReadCookie(c)
-----------------------------------------------------------------------------
(* What happens to the adapter from elsewhere.                             *)

\* The other port resets and the NVM's address is loaded into RAR[0] again.
OtherPortResets ==
  /\ HasLaa /\ Awake /\ Spend("faults")
  /\ rar' = [rar EXCEPT ![0] = Permanent]
  /\ UNCHANGED <<netVars, rctl, mta, vfta, locked, vlanVars, pc, loc, wpc, restart, ghosts>>

\* The engine takes or leaves entries.
MeTakes(entries) ==
  /\ entries # locked /\ Spend("faults")
  /\ locked' = entries
  /\ rar' = [i \in Entries |-> IF i \in entries \ locked THEN MeAddr ELSE rar[i]]
  /\ taken' = (taken \/ \E i \in entries \ locked : rar[i] \in uc)
  /\ UNCHANGED <<netVars, rctl, mta, vfta, vlanVars, pc, loc, wpc, restart, stale, lost, managed, torn>>

\* The 80003ES2LAN's link changes: the interrupt stops the receiver for the watchdog to start.
LinkInterrupt ==
  /\ setup.kind = "es2lan" /\ Up /\ Spend("faults")
  /\ WriteRctl("other", [rctl EXCEPT !.en = FALSE]) /\ restart' = TRUE
  /\ UNCHANGED <<netVars, rar, mta, vfta, locked, vlanVars, pc, loc, wpc, lost, taken, managed, torn>>

Environment ==
  OtherPortResets \/ LinkInterrupt \/ \E entries \in Locks : MeTakes(entries)
-----------------------------------------------------------------------------
FilterNext ==
  \/ (\E t \in Threads : SetRxMode(t)) \/ Stack
  \/ Down \/ Reset \/ Sleep \/ Wake \/ ResetTask
  \/ WatchdogStart \/ Watchdog \/ Environment

FilterSpec == FilterInit /\ [][FilterNext]_vars

\* A call and a reset that have begun go on; the watchdog is armed while the adapter is up.
FilterFairness ==
  /\ \A t \in Threads : WF_vars(SetRxMode(t))
  /\ WF_vars(SetActive \/ WriteStation \/ WriteLaa)
  /\ WF_vars(Reset) /\ WF_vars(ResetTask)
  /\ WF_vars(WatchdogStart) /\ WF_vars(Watchdog)

FairFilterSpec == FilterSpec /\ FilterFairness
-----------------------------------------------------------------------------
(* Properties.  The ghosts name what the code gives away: lost, what a     *)
(* write of RCTL or of an address undid, a list cut short because the      *)
(* entries had been counted before it grew, and a VLAN of the engine that  *)
(* was killed and kept in mng_vlan_id; taken, an entry the engine took     *)
(* after it was written; managed, the VLANs that were the engine's; torn,  *)
(* a VLAN restored from active_vlans while it was being added.             *)

Inside(entries) == {rar[i] : i \in entries}

FiltersTypeOK ==
  /\ setup \in FilterSetup
  /\ uc \subseteq setup.uc /\ mc \subseteq setup.mc /\ flags \subseteq setup.modes
  /\ vlans \subseteq setup.vids /\ addr \in Stations
  /\ rctl \in [DOMAIN Off -> BOOLEAN]
  /\ rar \in [Entries -> Stations \cup setup.uc \cup {MeAddr, NoAddr}]
  /\ mta \subseteq setup.mc /\ vfta \subseteq setup.vids \cup {0} /\ locked \subseteq 1..setup.slots
  /\ active \subseteq setup.vids \cup {0} /\ cookie \in Cookies /\ mngVid \in Cookies
  /\ DOMAIN pc = Threads /\ DOMAIN loc = Threads
  /\ wpc \in {"idle", "busy", "resettask"} /\ restart \in BOOLEAN
  /\ stale \subseteq Threads /\ lost \subseteq {"en", "modes", "mac", "list", "vlan"}
  /\ taken \in BOOLEAN /\ managed \subseteq setup.vids /\ torn \in BOOLEAN

\* Once calls and resets are over, what the stack asked for last is received: by an entry
\* or the table, or because a mode was set when they could not take it (netdev.c:3841).
AddressesHeard ==
  AtRest /\ "modes" \notin lost =>
    /\ rctl.upe \/ taken \/ "list" \in lost \/ uc \subseteq Inside(Entries)
    /\ rctl.mpe \/ mc \subseteq mta
    /\ "promisc" \in flags => rctl.upe /\ rctl.mpe
    /\ "allmulti" \in flags => rctl.mpe

\* And no more than that: no address that was removed stays in an entry or in the table, and
\* no mode outlasts its reason.  The 82579's entries are not cleared (netdev.c:3822).
NothingElseHeard ==
  AtRest /\ lost \cap {"modes", "mac"} = {} =>
    /\ rctl.upe \/ setup.kind = "pch2" \/ Inside(Entries) \subseteq uc \cup {addr, Permanent, MeAddr, NoAddr}
    /\ rctl.mpe \/ mta \subseteq mc
    /\ rctl.upe /\ setup.kind \notin {"pch2", "lpt"} =>
         "promisc" \in flags \/ Cardinality(uc) > Available

\* The adapter's own address is in RAR[0], or where resets of the other port do not reach
\* it, whatever interleaved with the reset that wiped them (netdev.c:5310).
StationHeard ==
  Up /\ pc["stack"] \notin {"mac", "laa"} /\ "mac" \notin lost =>
    addr \in Inside(IF HasLaa THEN {0, setup.slots} ELSE {0})

\* Nothing is received from the reset of the device until the receiver is set up: its
\* ring is cleaned and built anew in between (netdev.c:4762, netdev.c:4799).
ReceiverOff ==
  pc["reset"] \notin {"idle", "hwreset", "readrctl", "enable", "asleep"} /\ "en" \notin lost => ~rctl.en

\* An adapter that is up receives, but for the 80003ES2LAN between a change of the link
\* and the watchdog's turn (netdev.c:3712, netdev.c:5723).
ReceiverOn == AtRest /\ "en" \notin lost => rctl.en \/ restart

\* The VLANs of the stack are in active_vlans and in the table, through every reset that
\* clears it (netdev.c:3211).
VlansRestored ==
  AtRest /\ ~torn => \A v \in vlans \ managed : v \in active /\ (HasVlanFilter => v \in vfta)

\* The engine's VLAN stays in the 82574's table through every reset (82571.c:1284).
MngVlanHeard ==
  setup.kind = "82574" /\ AtRest /\ mngVid # NoVid /\ mngVid = cookie /\ "vlan" \notin lost =>
    mngVid \in vfta

\* At rest the filters are what stack and engine asked for: addresses, modes and VLANs.
FiltersRight == FiltersTypeOK /\ AddressesHeard /\ NothingElseHeard /\ VlansRestored /\ MngVlanHeard

\* The receiver is off and on when it has to be, and hears its own address.
ReceiverRight == ReceiverOff /\ ReceiverOn /\ StationHeard

\* The 82571's address returns to RAR[0] after the last reset of the other port (netdev.c:6019).
StationSettles == <>[](HasLaa /\ AtRest => rar[0] = addr)

\* The receiver that an interrupt stopped is started again (netdev.c:5723).
ReceiverSettles == <>[](AtRest /\ "en" \notin lost => rctl.en)

\* Receiver and address settle after the last reset of either port.
FiltersSettle == StationSettles /\ ReceiverSettles
=============================================================================
