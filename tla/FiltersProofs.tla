--------------------------- MODULE FiltersProofs ---------------------------
(***************************************************************************)
(* Proofs about Filters.  First the receiver: it is off while a reset      *)
(* rebuilds what it needs and on once the adapter is up, and the adapter's *)
(* own address is received.  Then the filters: at rest, entries, table,    *)
(* modes and VLANs are what stack and engine asked for, whatever stack,    *)
(* watchdog, engine and other port did in between.                         *)
(***************************************************************************)
EXTENDS Filters, FiniteSetTheorems, TLAPS

Rctl == [en : BOOLEAN, upe : BOOLEAN, mpe : BOOLEAN, vfe : BOOLEAN]
Locals == [rctl : Rctl, avail : Int, vid : Nat \cup {NoVid}, addr : Stations]

\* What the first proofs need to know of types.
SetupTyped == setup \in FilterSetup /\ (HasLaa => setup.slots > 0) /\ IsFiniteSet(setup.uc)

StateTyped ==
  /\ IsFiniteSet(uc) /\ addr \in Stations /\ rctl \in Rctl
  /\ DOMAIN rar = Entries /\ locked \subseteq 1..setup.slots
  /\ DOMAIN pc = Threads /\ loc \in [Threads -> Locals]

Typed == SetupTyped /\ StateTyped

\* A call of set_rx_mode has read RCTL and not written it yet.
Holding == {"mta", "vfe", "count", "entries", "write"}

\* Where a reset may find the receiver on, or has it on again.
Running == {"idle", "hwreset", "readrctl", "enable", "asleep"}

\* The stack holds the receiver's bit as it is, or will find out that it is stale; the reset
\* holds a bit that is off.  The last conjunct is ReceiverOn without its pause.
ReceiverInv ==
  /\ pc["stack"] \in Holding /\ "stack" \notin stale /\ pc["reset"] \notin {"asleep", "hwreset"} =>
       loc["stack"].rctl.en = rctl.en
  /\ pc["reset"] \in Holding /\ "en" \notin lost => ~loc["reset"].rctl.en
  /\ pc["reset"] \notin Running /\ "en" \notin lost => ~rctl.en
  /\ pc["reset"] = "idle" /\ "en" \notin lost => rctl.en \/ restart

\* Where the reset has not yet written the adapter's address again.
Wiped == {"asleep", "hwreset", "laa"} \cup (IF HasLaa THEN {} ELSE {"readaddr", "init"})

\* The entry that nothing but the driver writes holds the address, or the stack is about to
\* write it; without an LAA a reset may have written the address of before.
StationInv ==
  /\ HasLaa /\ pc["reset"] \notin Wiped =>
       rar[setup.slots] = addr \/ pc["stack"] \in {"mac", "laa"}
  /\ ~HasLaa /\ pc["reset"] \notin Wiped =>
       rar[0] = addr \/ pc["stack"] = "mac" \/ "mac" \in lost
  /\ pc["stack"] = "laa" => HasLaa
  /\ \A t \in Threads : pc[t] = "entries" =>
       loc[t].avail \in 0..(IF HasLaa THEN setup.slots - 1 ELSE setup.slots)

\* A bound that is spent changes nothing else of what a run looks at.
LEMMA SpendKeeps ==
  ASSUME setup \in FilterSetup, NEW what \in {"ops", "resets", "faults"}, Spend(what)
  PROVE  /\ setup' \in FilterSetup /\ setup'.kind = setup.kind
         /\ setup'.slots = setup.slots /\ setup'.uc = setup.uc /\ setup'.mc = setup.mc
         /\ setup'.vids = setup.vids /\ setup'.modes = setup.modes
BY DEF Spend, FilterSetup

\* So nothing changes the kind of the adapter and its entries.
LEMMA SetupKept ==
  ASSUME Typed, [FilterNext]_vars
  PROVE  /\ setup' \in FilterSetup /\ setup'.kind = setup.kind
         /\ setup'.slots = setup.slots /\ setup'.uc = setup.uc /\ setup'.mc = setup.mc
         /\ setup'.vids = setup.vids /\ setup'.modes = setup.modes
<1> USE DEF Typed, SetupTyped
<1>1. setup' = setup \/ \E what \in {"ops", "resets", "faults"} : Spend(what)
  <2>1. ASSUME NEW t \in Threads, SetRxMode(t) PROVE setup' = setup \/ Spend("faults")
    BY <2>1 DEF SetRxMode, ReadModes, WriteMta, MtaNoMemory, FilterVlans, Count, WriteEntries,
      EntriesFail, WriteModes, keptByRxMode
  <2>2. CASE Stack
    BY <2>2 DEF Stack, ChangeRx, AddVid, KillVid, SetMac, SetActive, WriteStation, WriteLaa
  <2>3. CASE Down \/ Reset \/ Sleep \/ Wake \/ ResetTask
    BY <2>3 DEF Down, Reset, HwReset, SetLaaState, ReadAddr, InitHw, ManageVlan, CleanRings,
      RestoreVlan, SetupRctl, ReadRctlAgain, Enable, Sleep, Wake, ResetTask
  <2>4. CASE WatchdogStart \/ Watchdog \/ Environment
    BY <2>4 DEF WatchdogStart, Watchdog, EnableReceives, ReadCookie, Environment,
      OtherPortResets, MeTakes, LinkInterrupt
  <2>5. CASE UNCHANGED vars
    BY <2>5 DEF vars
  <2> QED
    BY <2>1, <2>2, <2>3, <2>4, <2>5 DEF FilterNext
<1> QED
  BY <1>1, SpendKeeps

\* Counting the entries gives a number of them.
LEMMA AvailableType ==
  ASSUME Typed
  PROVE  Available \in 0..(IF HasLaa THEN setup.slots - 1 ELSE setup.slots)
<1> USE DEF Typed, SetupTyped, StateTyped, FilterSetup, HasLaa
<1>1. IsFiniteSet(1..setup.slots) /\ Cardinality(1..setup.slots) = setup.slots
  BY FS_Interval
<1> DEFINE free == (1..setup.slots) \ locked
<1>2. free \in SUBSET (1..setup.slots)
  OBVIOUS
<1> HIDE DEF free
<1>3. IsFiniteSet(free) /\ Cardinality(free) <= Cardinality(1..setup.slots)
  BY <1>1, <1>2, FS_Subset
<1>4. Cardinality(free) \in 0..setup.slots
  BY <1>1, <1>3, FS_CardinalityType
<1>5. Available = CASE HasLaa -> setup.slots - 1
                    [] setup.kind = "lpt" -> Cardinality(free)
                    [] OTHER -> setup.slots
  BY DEF Available, free
<1> QED
  BY <1>4, <1>5

\* Programming entries leaves RAR[0] and those above avail alone.
LEMMA ProgrammedKeeps ==
  ASSUME Typed, NEW avail \in 0..setup.slots, NEW n \in 0..avail,
         NEW i \in Entries, i = 0 \/ i > avail
  PROVE  Programmed(avail, n)[i] = rar[i] /\ DOMAIN Programmed(avail, n) = Entries
BY DEF Programmed, Typed, SetupTyped, StateTyped, FilterSetup, Entries

\* As many addresses are written as there are entries for.
LEMMA RoomType ==
  ASSUME Typed, NEW avail \in 0..setup.slots
  PROVE  Room(avail) \in 0..avail
BY FS_CardinalityType DEF Room, Typed, SetupTyped, StateTyped, FilterSetup

\* Nor does clearing the rest touch those.
LEMMA ZeroedKeeps ==
  ASSUME Typed, NEW avail \in 0..setup.slots, NEW i \in Entries, i = 0 \/ i > avail
  PROVE  Zeroed(avail)[i] = rar[i] /\ DOMAIN Zeroed(avail) = Entries
BY ProgrammedKeeps, RoomType DEF Zeroed, Typed, SetupTyped, StateTyped, FilterSetup, Entries

\* Nor does it change which entries there are.
LEMMA EntriesKept ==
  ASSUME Typed, [FilterNext]_vars
  PROVE  /\ SetupTyped' /\ Entries' = Entries /\ HasLaa' = HasLaa
         /\ setup'.slots = setup.slots /\ setup'.uc = setup.uc
BY SetupKept DEF Typed, SetupTyped, Entries, HasLaa

\* The types are kept.
LEMMA TypedKept ==
  ASSUME Typed, [FilterNext]_vars
  PROVE  Typed'
<1> SUFFICES StateTyped'
  BY EntriesKept DEF Typed
<1>0. Entries' = Entries /\ setup'.slots = setup.slots
  BY EntriesKept
<1> USE DEF Typed, StateTyped, Goto
<1>1. ASSUME NEW t \in Threads, ReadModes(t) PROVE StateTyped'
  <2>1. UNCHANGED <<uc, addr, rctl, rar, locked>> /\ DOMAIN pc' = Threads
    BY <1>1 DEF ReadModes, keptByRxMode, netVars, regVars
  <2>2. CASE "promisc" \in flags
    <3>1. ("promisc" \in flags) = TRUE
      BY <2>2
    <3>2. loc' = [loc EXCEPT ![t].rctl = [ReadRctl EXCEPT !.upe = TRUE, !.mpe = TRUE]]
      BY <1>1, <3>1 DEF ReadModes
    <3>3. loc' \in [Threads -> Locals]
      BY <3>2, <1>1, ZenonT(30) DEF Threads, Rctl, Locals, ReadRctl, AllOnes
    <3> QED
      BY <1>0, <2>1, <3>3
  <2>3. CASE ~("promisc" \in flags)
    <3>1. ("promisc" \in flags) = FALSE
      BY <2>3
    <3>2. loc' = [loc EXCEPT ![t].rctl = [ReadRctl EXCEPT !.upe = FALSE, !.mpe = FALSE]]
      BY <1>1, <3>1 DEF ReadModes
    <3>3. loc' \in [Threads -> Locals]
      BY <3>2, <1>1, ZenonT(30) DEF Threads, Rctl, Locals, ReadRctl, AllOnes
    <3> QED
      BY <1>0, <2>1, <3>3
  <2> QED
    BY <2>2, <2>3
<1>2. ASSUME NEW t \in Threads, WriteMta(t) PROVE StateTyped'
  <2>1. UNCHANGED <<uc, addr, rctl, rar, locked>> /\ DOMAIN pc' = Threads
    BY <1>2 DEF WriteMta, keptByRxMode, netVars
  <2>2. CASE "allmulti" \in flags
    <3>1. ("allmulti" \in flags) = TRUE
      BY <2>2
    <3>2. loc' = [loc EXCEPT ![t].rctl.mpe = TRUE]
      BY <1>2, <3>1 DEF WriteMta
    <3>3. loc' \in [Threads -> Locals]
      BY <3>2, <1>2, ZenonT(30) DEF Threads, Rctl, Locals
    <3> QED
      BY <1>0, <2>1, <3>3
  <2>3. CASE ~("allmulti" \in flags)
    <3>1. ("allmulti" \in flags) = FALSE
      BY <2>3
    <3>2. loc' = [loc EXCEPT ![t].rctl.mpe = FALSE]
      BY <1>2, <3>1 DEF WriteMta
    <3>3. loc' \in [Threads -> Locals]
      BY <3>2, <1>2, ZenonT(30) DEF Threads, Rctl, Locals
    <3> QED
      BY <1>0, <2>1, <3>3
  <2> QED
    BY <2>2, <2>3
<1>3. ASSUME NEW t \in Threads, MtaNoMemory(t) PROVE StateTyped'
  BY <1>3, <1>0 DEF MtaNoMemory, netVars, regVars, vlanVars, ghosts, Threads, Rctl, Locals
<1>4. ASSUME NEW t \in Threads, FilterVlans(t) PROVE StateTyped'
  BY <1>4, <1>0 DEF FilterVlans, keptByRxMode, netVars, Threads, Rctl, Locals, KilledIn
<1>5. ASSUME NEW t \in Threads, Count(t) PROVE StateTyped'
  <2>0. Available \in Int
    <3>1. Available \in 0..(IF HasLaa THEN setup.slots - 1 ELSE setup.slots)
      BY AvailableType
    <3> QED
      BY <3>1 DEF SetupTyped, FilterSetup, HasLaa
  <2>1. UNCHANGED <<uc, addr, rctl, rar, locked>> /\ DOMAIN pc' = Threads
    BY <1>5 DEF Count, keptByRxMode, netVars, regVars
  <2>2. CASE Cardinality(uc) > Available
    <3>1. (Cardinality(uc) > Available) = TRUE
      BY <2>2
    <3>2. loc' = [loc EXCEPT ![t].rctl.upe = TRUE, ![t].avail = Available]
      BY <1>5, <3>1 DEF Count
    <3>3. loc' \in [Threads -> Locals]
      BY <3>2, <2>0, ZenonT(30) DEF Threads, Rctl, Locals
    <3> QED
      BY <1>0, <2>1, <3>3
  <2>3. CASE ~(Cardinality(uc) > Available)
    <3>1. (Cardinality(uc) > Available) = FALSE
      BY <2>3
    <3>2. loc' = [loc EXCEPT ![t].rctl.upe = FALSE, ![t].avail = Available]
      BY <1>5, <3>1 DEF Count
    <3>3. loc' \in [Threads -> Locals]
      BY <3>2, <2>0, ZenonT(30) DEF Threads, Rctl, Locals
    <3> QED
      BY <1>0, <2>1, <3>3
  <2> QED
    BY <2>2, <2>3
<1>6. ASSUME NEW t \in Threads, WriteEntries(t) PROVE StateTyped'
  BY <1>6, <1>0 DEF WriteEntries, keptByRxMode, netVars, Threads, Rctl, Locals, Zeroed
<1>7. ASSUME NEW t \in Threads, NEW n \in 0..setup.slots, EntriesFail(t, n) PROVE StateTyped'
  <2>1. DOMAIN rar' = Entries /\ UNCHANGED <<uc, addr, rctl, locked>>
    BY <1>7, <1>0 DEF EntriesFail, netVars, Programmed
  <2>2. loc' = [loc EXCEPT ![t].rctl.upe = TRUE] /\ DOMAIN pc' = Threads
    BY <1>7 DEF EntriesFail
  <2>3. loc' \in [Threads -> Locals]
    BY <2>2, ZenonT(30) DEF Threads, Rctl, Locals
  <2> QED
    BY <2>1, <2>2, <2>3, <1>0
<1>8. ASSUME NEW t \in Threads, WriteModes(t) PROVE StateTyped'
  BY <1>8, <1>0 DEF WriteModes, keptByRxMode, netVars, WriteRctl, Threads, Rctl, Locals
<1>9. ASSUME NEW u \in SUBSET setup.uc, NEW m \in SUBSET setup.mc, NEW f \in SUBSET setup.modes,
       ChangeRx(u, m, f)
  PROVE StateTyped'
  BY <1>9, <1>0, FS_Subset DEF ChangeRx, regVars, keptByStack, Threads, Rctl, Locals, SetupTyped
<1>10. ASSUME NEW v \in setup.vids, AddVid(v) PROVE StateTyped'
  BY <1>10, <1>0 DEF AddVid, keptByStack, Threads, Rctl, Locals, SetupTyped, FilterSetup
<1>11. ASSUME NEW v \in setup.vids, KillVid(v) PROVE StateTyped'
  BY <1>11, <1>0 DEF KillVid, keptByStack, Threads, Rctl, Locals, SetupTyped, FilterSetup
<1>12. ASSUME NEW a \in Stations, SetMac(a) PROVE StateTyped'
  BY <1>12, <1>0 DEF SetMac, regVars, keptByStack, Threads, Rctl, Locals
<1>13. ASSUME NEW c \in Cookies, ReadCookie(c) PROVE StateTyped'
  BY <1>13, <1>0 DEF ReadCookie, keptByWatchdog, netVars, UpdateMng, RepairLaa, Threads, Rctl,
    Locals
<1>14. ASSUME NEW e \in Locks, MeTakes(e) PROVE StateTyped'
  BY <1>14, <1>0 DEF MeTakes, netVars, vlanVars, Threads, Rctl, Locals, Locks, SetupTyped,
    FilterSetup
<1>15. CASE SetActive
  BY <1>15, <1>0 DEF SetActive, netVars, regVars, keptByStack, Threads, Rctl, Locals
<1>16. CASE WriteStation
  BY <1>16, <1>0 DEF WriteStation, netVars, Threads, Rctl, Locals
<1>17. CASE WriteLaa
  BY <1>17, <1>0 DEF WriteLaa, netVars, keptByStack, Threads, Rctl, Locals
<1>18. CASE Down
  BY <1>18, <1>0 DEF Down, keptByReset, netVars, StopReceiver, WriteRctl, Threads, Rctl, Locals
<1>19. CASE HwReset
  BY <1>19, <1>0 DEF HwReset, keptByReset, netVars, WriteRctl, Off, Threads, Rctl, Locals
<1>20. CASE SetLaaState
  BY <1>20, <1>0 DEF SetLaaState, keptByReset, netVars, ghosts, Threads, Rctl, Locals
<1>21. CASE ReadAddr
  BY <1>21, <1>0 DEF ReadAddr, keptByReset, netVars, regVars, ghosts, Threads, Rctl, Locals
<1>22. CASE InitHw
  BY <1>22, <1>0 DEF InitHw, keptByReset, netVars, Threads, Rctl, Locals, InitRxAddrs
<1>23. CASE ManageVlan
  BY <1>23, <1>0 DEF ManageVlan, keptByReset, netVars, UpdateMng, Threads, Rctl, Locals
<1>24. CASE CleanRings
  BY <1>24, <1>0 DEF CleanRings, keptByReset, netVars, regVars, ghosts, Threads, Rctl, Locals
<1>25. CASE RestoreVlan
  BY <1>25, <1>0 DEF RestoreVlan, keptByReset, netVars, Threads, Rctl, Locals
<1>26. CASE SetupRctl
  BY <1>26, <1>0 DEF SetupRctl, keptByReset, netVars, WriteRctl, Threads, Rctl, Locals
<1>27. CASE ReadRctlAgain
  BY <1>27, <1>0 DEF ReadRctlAgain, keptByReset, netVars, StopReceiver, WriteRctl, Threads,
    Rctl, Locals
<1>28. CASE Enable
  BY <1>28, <1>0 DEF Enable, keptByReset, netVars, WriteRctl, Threads, Rctl, Locals
<1>29. CASE Sleep
  BY <1>29, <1>0 DEF Sleep, keptByReset, netVars, regVars, ghosts, Threads, Rctl, Locals
<1>30. CASE Wake
  BY <1>30, <1>0 DEF Wake, keptByReset, netVars, regVars, ghosts, Threads, Rctl, Locals
<1>31. CASE ResetTask
  BY <1>31, <1>0 DEF ResetTask, netVars, StopReceiver, WriteRctl, Threads, Rctl, Locals
<1>32. CASE WatchdogStart
  BY <1>32, <1>0 DEF WatchdogStart, keptByWatchdog, netVars, vlanVars, Threads, Rctl, Locals
<1>33. CASE EnableReceives
  BY <1>33, <1>0 DEF EnableReceives, keptByWatchdog, netVars, vlanVars, WriteRctl, RepairLaa,
    Threads, Rctl, Locals
<1>34. CASE OtherPortResets
  BY <1>34, <1>0 DEF OtherPortResets, netVars, vlanVars, ghosts, Threads, Rctl, Locals
<1>35. CASE LinkInterrupt
  BY <1>35, <1>0 DEF LinkInterrupt, netVars, vlanVars, WriteRctl, Threads, Rctl, Locals
<1>36. CASE UNCHANGED vars
  BY <1>36, <1>0 DEF vars, netVars, regVars, vlanVars, ghosts, Threads, Rctl, Locals
<1> QED
  BY <1>1, <1>2, <1>3, <1>4, <1>5, <1>6, <1>7, <1>8, <1>9, <1>10, <1>11, <1>12, <1>13, <1>14,
    <1>15, <1>16, <1>17, <1>18, <1>19, <1>20, <1>21, <1>22, <1>23, <1>24, <1>25, <1>26, <1>27,
    <1>28, <1>29, <1>30, <1>31, <1>32, <1>33, <1>34, <1>35, <1>36
  DEF FilterNext, SetRxMode, Stack, Reset, Watchdog, Environment

\* The receiver's bit is as the inductive invariant has it.
LEMMA ReceiverKept ==
  ASSUME Typed, ReceiverInv, [FilterNext]_vars
  PROVE  ReceiverInv'
<1>0. DOMAIN pc = Threads
  BY DEF Typed, StateTyped
<1> USE DEF ReceiverInv, Holding, Running, Threads, Goto
<1>1. ASSUME NEW t \in Threads, ReadModes(t) PROVE ReceiverInv'
  <2>1. /\ UNCHANGED <<rctl, lost, restart>> /\ pc[t] = "rxmode" /\ stale' = stale \ {t}
        /\ pc'[t] \in {"vfe", "mta"} /\ \A x \in Threads \ {t} : pc'[x] = pc[x]
    BY <1>1, <1>0 DEF ReadModes, keptByRxMode, netVars, regVars
  <2>2. /\ loc'[t].rctl.en = ReadRctl.en /\ \A x \in Threads \ {t} : loc'[x] = loc[x]
    <3>1. loc \in [Threads -> Locals]
      BY DEF Typed, StateTyped
    <3>2. ReadRctl \in Rctl
      BY DEF ReadRctl, AllOnes, Rctl, Typed, StateTyped
    <3>3. PICK v \in [en : {ReadRctl.en}, upe : {"promisc" \in flags},
                    mpe : {"promisc" \in flags}, vfe : {ReadRctl.vfe}] :
            loc' = [loc EXCEPT ![t].rctl = v]
      BY <1>1, <3>2 DEF ReadModes, Rctl
    <3> QED
      BY <3>1, <3>3 DEF Locals
  <2> QED
    BY <2>1, <2>2 DEF ReadRctl, Awake
<1>2. ASSUME NEW t \in Threads, WriteMta(t) PROVE ReceiverInv'
  BY <1>2, <1>0 DEF WriteMta, keptByRxMode, netVars, Typed, StateTyped, Rctl, Locals
<1>3. ASSUME NEW t \in Threads, MtaNoMemory(t) PROVE ReceiverInv'
  BY <1>3, <1>0 DEF MtaNoMemory, netVars, regVars, vlanVars, ghosts, Typed, StateTyped, Rctl,
    Locals
<1>4. ASSUME NEW t \in Threads, FilterVlans(t) PROVE ReceiverInv'
  BY <1>4, <1>0 DEF FilterVlans, keptByRxMode, netVars, Typed, StateTyped, Rctl, Locals, Awake
<1>5. ASSUME NEW t \in Threads, Count(t) PROVE ReceiverInv'
  BY <1>5, <1>0 DEF Count, keptByRxMode, netVars, regVars, Typed, StateTyped, Rctl, Locals
<1>6. ASSUME NEW t \in Threads, WriteEntries(t) PROVE ReceiverInv'
  BY <1>6, <1>0 DEF WriteEntries, keptByRxMode, netVars, Typed, StateTyped, Rctl, Locals
<1>7. ASSUME NEW t \in Threads, NEW n \in 0..setup.slots, EntriesFail(t, n) PROVE ReceiverInv'
  BY <1>7, <1>0 DEF EntriesFail, netVars, Typed, StateTyped, Rctl, Locals
<1>8. ASSUME NEW t \in Threads, WriteModes(t) PROVE ReceiverInv'
  BY <1>8, <1>0 DEF WriteModes, keptByRxMode, netVars, WriteRctl, Typed, StateTyped, Rctl,
    Locals, Undone, Awake
<1>9. ASSUME NEW u \in SUBSET setup.uc, NEW m \in SUBSET setup.mc, NEW f \in SUBSET setup.modes,
       ChangeRx(u, m, f)
  PROVE ReceiverInv'
  BY <1>9, <1>0 DEF ChangeRx, regVars, keptByStack, Typed, StateTyped, Rctl, Locals
<1>10. ASSUME NEW v \in setup.vids, AddVid(v) PROVE ReceiverInv'
  BY <1>10, <1>0 DEF AddVid, keptByStack, Typed, StateTyped, Rctl, Locals
<1>11. ASSUME NEW v \in setup.vids, KillVid(v) PROVE ReceiverInv'
  BY <1>11, <1>0 DEF KillVid, keptByStack, Typed, StateTyped, Rctl, Locals
<1>12. ASSUME NEW a \in Stations, SetMac(a) PROVE ReceiverInv'
  BY <1>12, <1>0 DEF SetMac, regVars, keptByStack, Typed, StateTyped, Rctl, Locals
<1>13. ASSUME NEW c \in Cookies, ReadCookie(c) PROVE ReceiverInv'
  BY <1>13, <1>0 DEF ReadCookie, keptByWatchdog, netVars, UpdateMng, Mislaid, RepairLaa,
    Typed, StateTyped, Rctl, Locals
<1>14. ASSUME NEW e \in Locks, MeTakes(e) PROVE ReceiverInv'
  BY <1>14, <1>0 DEF MeTakes, netVars, vlanVars, Typed, StateTyped, Rctl, Locals
<1>15. CASE SetActive
  BY <1>15, <1>0 DEF SetActive, netVars, regVars, keptByStack, Typed, StateTyped, Rctl, Locals
<1>16. CASE WriteStation
  BY <1>16, <1>0 DEF WriteStation, netVars, Typed, StateTyped, Rctl, Locals
<1>17. CASE WriteLaa
  BY <1>17, <1>0 DEF WriteLaa, netVars, keptByStack, Typed, StateTyped, Rctl, Locals
<1>18. CASE Down
  BY <1>18, <1>0 DEF Down, keptByReset, netVars, StopReceiver, WriteRctl, Typed, StateTyped,
    Rctl, Locals, Awake
<1>19. CASE HwReset
  BY <1>19, <1>0 DEF HwReset, keptByReset, netVars, WriteRctl, Off, Typed, StateTyped, Rctl,
    Locals, Awake
<1>20. CASE SetLaaState
  BY <1>20, <1>0 DEF SetLaaState, keptByReset, netVars, ghosts, Typed, StateTyped, Rctl, Locals
<1>21. CASE ReadAddr
  BY <1>21, <1>0 DEF ReadAddr, keptByReset, netVars, regVars, ghosts, Typed, StateTyped, Rctl,
    Locals
<1>22. CASE InitHw
  BY <1>22, <1>0 DEF InitHw, keptByReset, netVars, Typed, StateTyped, Rctl, Locals
<1>23. CASE ManageVlan
  BY <1>23, <1>0 DEF ManageVlan, keptByReset, netVars, UpdateMng, Mislaid, Typed, StateTyped,
    Rctl, Locals
<1>24. CASE CleanRings
  BY <1>24, <1>0 DEF CleanRings, keptByReset, netVars, regVars, ghosts, Typed, StateTyped,
    Rctl, Locals
<1>25. CASE RestoreVlan
  BY <1>25, <1>0 DEF RestoreVlan, keptByReset, netVars, Typed, StateTyped, Rctl, Locals
<1>26. CASE SetupRctl
  BY <1>26, <1>0 DEF SetupRctl, keptByReset, netVars, WriteRctl, Typed, StateTyped, Rctl,
    Locals, Awake
<1>27. CASE ReadRctlAgain
  BY <1>27, <1>0 DEF ReadRctlAgain, keptByReset, netVars, StopReceiver, WriteRctl, Typed,
    StateTyped, Rctl, Locals, Awake
<1>28. CASE Enable
  BY <1>28, <1>0 DEF Enable, keptByReset, netVars, WriteRctl, Typed, StateTyped, Rctl, Locals,
    Awake
<1>29. CASE Sleep
  BY <1>29, <1>0 DEF Sleep, keptByReset, netVars, regVars, ghosts, Typed, StateTyped, Rctl,
    Locals
<1>30. CASE Wake
  BY <1>30, <1>0 DEF Wake, keptByReset, netVars, regVars, ghosts, Typed, StateTyped, Rctl,
    Locals
<1>31. CASE ResetTask
  BY <1>31, <1>0 DEF ResetTask, netVars, StopReceiver, WriteRctl, Typed, StateTyped, Rctl,
    Locals, Awake, Up
<1>32. CASE WatchdogStart
  BY <1>32, <1>0 DEF WatchdogStart, keptByWatchdog, netVars, vlanVars, Typed, StateTyped,
    Rctl, Locals
<1>33. CASE EnableReceives
  BY <1>33, <1>0 DEF EnableReceives, keptByWatchdog, netVars, vlanVars, WriteRctl, RepairLaa,
    Typed, StateTyped, Rctl, Locals, Awake, Up
<1>34. CASE OtherPortResets
  BY <1>34, <1>0 DEF OtherPortResets, netVars, vlanVars, ghosts, Typed, StateTyped, Rctl, Locals
<1>35. CASE LinkInterrupt
  BY <1>35, <1>0 DEF LinkInterrupt, netVars, vlanVars, WriteRctl, Typed, StateTyped, Rctl,
    Locals, Awake, Up
<1>36. CASE UNCHANGED vars
  BY <1>36, <1>0 DEF vars, netVars, regVars, vlanVars, ghosts, Typed, StateTyped, Rctl, Locals
<1> QED
  BY <1>1, <1>2, <1>3, <1>4, <1>5, <1>6, <1>7, <1>8, <1>9, <1>10, <1>11, <1>12, <1>13, <1>14,
    <1>15, <1>16, <1>17, <1>18, <1>19, <1>20, <1>21, <1>22, <1>23, <1>24, <1>25, <1>26, <1>27,
    <1>28, <1>29, <1>30, <1>31, <1>32, <1>33, <1>34, <1>35, <1>36
  DEF FilterNext, SetRxMode, Stack, Reset, Watchdog, Environment

\* The adapter's address is as the inductive invariant has it.
LEMMA StationKept ==
  ASSUME Typed, StationInv, [FilterNext]_vars
  PROVE  StationInv'
<1>0. /\ DOMAIN pc = Threads /\ Entries' = Entries /\ HasLaa' = HasLaa
      /\ setup'.slots = setup.slots /\ (HasLaa => setup.slots > 0)
  BY EntriesKept DEF Typed, StateTyped, SetupTyped
<1> USE DEF StationInv, Wiped, Threads, Goto
<1>1. ASSUME NEW t \in Threads, ReadModes(t) PROVE StationInv'
  BY <1>1, <1>0 DEF ReadModes, keptByRxMode, netVars, regVars, ReadRctl, AllOnes, Off, Typed,
    StateTyped, Locals, SetupTyped, FilterSetup, Entries
<1>2. ASSUME NEW t \in Threads, WriteMta(t) PROVE StationInv'
  BY <1>2, <1>0 DEF WriteMta, keptByRxMode, netVars, Typed, StateTyped, Locals, SetupTyped,
    FilterSetup, Entries
<1>3. ASSUME NEW t \in Threads, MtaNoMemory(t) PROVE StationInv'
  BY <1>3, <1>0 DEF MtaNoMemory, netVars, regVars, vlanVars, ghosts, Typed, StateTyped,
    Locals, SetupTyped, FilterSetup, Entries
<1>4. ASSUME NEW t \in Threads, FilterVlans(t) PROVE StationInv'
  BY <1>4, <1>0 DEF FilterVlans, keptByRxMode, netVars, Typed, StateTyped, Locals, SetupTyped,
    FilterSetup, Entries
<1>5. ASSUME NEW t \in Threads, Count(t) PROVE StationInv'
  BY <1>5, <1>0, AvailableType DEF Count, keptByRxMode, netVars, regVars, Typed, StateTyped,
    Locals, SetupTyped, FilterSetup, Entries
<1>6. ASSUME NEW t \in Threads, WriteEntries(t) PROVE StationInv'
  BY <1>6, <1>0, ZeroedKeeps DEF WriteEntries, keptByRxMode, netVars, Typed, StateTyped,
    Locals, SetupTyped, FilterSetup, Entries
<1>7. ASSUME NEW t \in Threads, NEW n \in 0..setup.slots, EntriesFail(t, n) PROVE StationInv'
  <2> DEFINE avail == loc[t].avail
  <2>1. avail \in 0..(IF HasLaa THEN setup.slots - 1 ELSE setup.slots)
    BY <1>7 DEF EntriesFail
  <2>2. avail \in 0..setup.slots /\ setup.slots \in Nat
    BY <2>1, <1>0 DEF Typed, SetupTyped, FilterSetup
  <2>3. Room(avail) \in 0..avail
    BY <2>2, RoomType
  <2>4. n \in 0..avail
    BY <2>2, <2>3, <1>7 DEF EntriesFail
  <2>5. \A i \in Entries : i = 0 \/ i > avail => Programmed(avail, n)[i] = rar[i]
    BY <2>2, <2>4, ProgrammedKeeps
  <2>6. rar'[0] = rar[0] /\ (HasLaa => rar'[setup.slots] = rar[setup.slots])
    BY <2>1, <2>2, <2>5, <1>7 DEF EntriesFail, Entries
  <2>7. /\ UNCHANGED <<addr, lost>> /\ pc[t] = "entries" /\ pc'[t] = "write"
        /\ \A x \in Threads \ {t} : pc'[x] = pc[x] /\ loc'[x] = loc[x]
    BY <1>7, <1>0 DEF EntriesFail, netVars, Typed, StateTyped
  <2> QED
    BY <1>0, <2>6, <2>7
<1>8. ASSUME NEW t \in Threads, WriteModes(t) PROVE StationInv'
  BY <1>8, <1>0 DEF WriteModes, keptByRxMode, netVars, WriteRctl, Typed, StateTyped, Locals,
    SetupTyped, FilterSetup, Entries, Undone
<1>9. ASSUME NEW u \in SUBSET setup.uc, NEW m \in SUBSET setup.mc, NEW f \in SUBSET setup.modes,
       ChangeRx(u, m, f)
  PROVE StationInv'
  BY <1>9, <1>0 DEF ChangeRx, regVars, keptByStack, Typed, StateTyped, Locals, SetupTyped,
    FilterSetup, Entries
<1>10. ASSUME NEW v \in setup.vids, AddVid(v) PROVE StationInv'
  BY <1>10, <1>0 DEF AddVid, keptByStack, Typed, StateTyped, Locals, SetupTyped, FilterSetup,
    Entries
<1>11. ASSUME NEW v \in setup.vids, KillVid(v) PROVE StationInv'
  BY <1>11, <1>0 DEF KillVid, keptByStack, Typed, StateTyped, Locals, SetupTyped, FilterSetup,
    Entries
<1>12. ASSUME NEW a \in Stations, SetMac(a) PROVE StationInv'
  BY <1>12, <1>0 DEF SetMac, regVars, keptByStack, Typed, StateTyped, Locals, SetupTyped,
    FilterSetup, Entries
<1>13. ASSUME NEW c \in Cookies, ReadCookie(c) PROVE StationInv'
  BY <1>13, <1>0 DEF ReadCookie, keptByWatchdog, netVars, UpdateMng, Mislaid, RepairLaa,
    Typed, StateTyped, Locals, SetupTyped, FilterSetup, Entries
<1>14. ASSUME NEW e \in Locks, MeTakes(e) PROVE StationInv'
  BY <1>14, <1>0 DEF MeTakes, netVars, vlanVars, Typed, StateTyped, Locals, SetupTyped,
    FilterSetup, Entries, Locks, HasLaa
<1>15. CASE SetActive
  BY <1>15, <1>0 DEF SetActive, netVars, regVars, keptByStack, Typed, StateTyped, Locals,
    SetupTyped, FilterSetup, Entries
<1>16. CASE WriteStation
  BY <1>16, <1>0 DEF WriteStation, netVars, Typed, StateTyped, Locals, SetupTyped,
    FilterSetup, Entries, Awake
<1>17. CASE WriteLaa
  BY <1>17, <1>0 DEF WriteLaa, netVars, keptByStack, Typed, StateTyped, Locals, SetupTyped,
    FilterSetup, Entries, Awake
<1>18. CASE Down
  BY <1>18, <1>0 DEF Down, keptByReset, netVars, StopReceiver, WriteRctl, Typed, StateTyped,
    Locals, SetupTyped, FilterSetup, Entries
<1>19. CASE HwReset
  BY <1>19, <1>0 DEF HwReset, keptByReset, netVars, WriteRctl, Off, Typed, StateTyped, Locals,
    SetupTyped, FilterSetup, Entries
<1>20. CASE SetLaaState
  BY <1>20, <1>0 DEF SetLaaState, keptByReset, netVars, ghosts, Typed, StateTyped, Locals,
    SetupTyped, FilterSetup, Entries
<1>21. CASE ReadAddr
  BY <1>21, <1>0 DEF ReadAddr, keptByReset, netVars, regVars, ghosts, Typed, StateTyped,
    Locals, SetupTyped, FilterSetup, Entries
<1>22. CASE InitHw
  BY <1>22, <1>0 DEF InitHw, keptByReset, netVars, Typed, StateTyped, Locals, SetupTyped,
    FilterSetup, Entries, InitRxAddrs
<1>23. CASE ManageVlan
  BY <1>23, <1>0 DEF ManageVlan, keptByReset, netVars, UpdateMng, Mislaid, Typed, StateTyped,
    Locals, SetupTyped, FilterSetup, Entries
<1>24. CASE CleanRings
  BY <1>24, <1>0 DEF CleanRings, keptByReset, netVars, regVars, ghosts, Typed, StateTyped,
    Locals, SetupTyped, FilterSetup, Entries
<1>25. CASE RestoreVlan
  BY <1>25, <1>0 DEF RestoreVlan, keptByReset, netVars, Typed, StateTyped, Locals, SetupTyped,
    FilterSetup, Entries
<1>26. CASE SetupRctl
  BY <1>26, <1>0 DEF SetupRctl, keptByReset, netVars, WriteRctl, Typed, StateTyped, Locals,
    SetupTyped, FilterSetup, Entries
<1>27. CASE ReadRctlAgain
  BY <1>27, <1>0 DEF ReadRctlAgain, keptByReset, netVars, StopReceiver, WriteRctl, Typed,
    StateTyped, Locals, SetupTyped, FilterSetup, Entries
<1>28. CASE Enable
  BY <1>28, <1>0 DEF Enable, keptByReset, netVars, WriteRctl, Typed, StateTyped, Locals,
    SetupTyped, FilterSetup, Entries
<1>29. CASE Sleep
  BY <1>29, <1>0 DEF Sleep, keptByReset, netVars, regVars, ghosts, Typed, StateTyped, Locals,
    SetupTyped, FilterSetup, Entries
<1>30. CASE Wake
  BY <1>30, <1>0 DEF Wake, keptByReset, netVars, regVars, ghosts, Typed, StateTyped, Locals,
    SetupTyped, FilterSetup, Entries
<1>31. CASE ResetTask
  BY <1>31, <1>0 DEF ResetTask, netVars, StopReceiver, WriteRctl, Typed, StateTyped, Locals,
    SetupTyped, FilterSetup, Entries
<1>32. CASE WatchdogStart
  BY <1>32, <1>0 DEF WatchdogStart, keptByWatchdog, netVars, vlanVars, Typed, StateTyped,
    Locals, SetupTyped, FilterSetup, Entries
<1>33. CASE EnableReceives
  BY <1>33, <1>0 DEF EnableReceives, keptByWatchdog, netVars, vlanVars, WriteRctl, RepairLaa,
    Typed, StateTyped, Locals, SetupTyped, FilterSetup, Entries
<1>34. CASE OtherPortResets
  BY <1>34, <1>0 DEF OtherPortResets, netVars, vlanVars, ghosts, Typed, StateTyped, Locals,
    SetupTyped, FilterSetup, Entries
<1>35. CASE LinkInterrupt
  BY <1>35, <1>0 DEF LinkInterrupt, netVars, vlanVars, WriteRctl, Typed, StateTyped, Locals,
    SetupTyped, FilterSetup, Entries
<1>36. CASE UNCHANGED vars
  BY <1>36, <1>0 DEF vars, netVars, regVars, vlanVars, ghosts, Typed, StateTyped, Locals,
    SetupTyped, FilterSetup, Entries
<1> QED
  BY <1>1, <1>2, <1>3, <1>4, <1>5, <1>6, <1>7, <1>8, <1>9, <1>10, <1>11, <1>12, <1>13, <1>14,
    <1>15, <1>16, <1>17, <1>18, <1>19, <1>20, <1>21, <1>22, <1>23, <1>24, <1>25, <1>26, <1>27,
    <1>28, <1>29, <1>30, <1>31, <1>32, <1>33, <1>34, <1>35, <1>36
  DEF FilterNext, SetRxMode, Stack, Reset, Watchdog, Environment

FiltersInv == Typed /\ ReceiverInv /\ StationInv

\* An adapter that is up has its address and its receiver on.
LEMMA FiltersInvInit ==
  ASSUME FilterInit
  PROVE  FiltersInv
<1> USE FilterAssumption DEF FilterInit, Threads, HasLaa, Entries
<1>1. SetupTyped
  BY DEF SetupTyped
<1>2. StateTyped
  <2>1. Off \in Rctl /\ rctl \in Rctl
    BY DEF Off, Rctl
  <2>2. loc \in [Threads -> Locals]
    BY <2>1 DEF Locals
  <2>3. DOMAIN rar = Entries /\ addr \in Stations /\ locked \subseteq 1..setup.slots
    OBVIOUS
  <2> QED
    BY <2>1, <2>2, <2>3, FS_EmptySet DEF StateTyped
<1>3. ReceiverInv
  BY DEF ReceiverInv, Holding, Running, Off
<1>4. setup.slots \in Nat
  BY DEF FilterSetup
<1>5. StationInv
  BY <1>4 DEF StationInv, Wiped
<1> QED
  BY <1>1, <1>2, <1>3, <1>5 DEF FiltersInv, Typed

\* The inductive invariant of the three theorems.
LEMMA FiltersInvAlways == FilterSpec => []FiltersInv
<1>1. FilterInit => FiltersInv
  BY FiltersInvInit
<1>2. FiltersInv /\ [FilterNext]_vars => FiltersInv'
  BY TypedKept, ReceiverKept, StationKept DEF FiltersInv
<1> QED
  BY <1>1, <1>2, PTL DEF FilterSpec

\* From the device's reset until the receiver is set up nothing turns it on, but for a
\* write that the ghost lost records (netdev.c:4762, netdev.c:3841).
THEOREM ReceiverStaysOff == FilterSpec => []ReceiverOff
<1>1. FiltersInv => ReceiverOff
  BY DEF FiltersInv, ReceiverInv, Running, ReceiverOff
<1> QED
  BY <1>1, FiltersInvAlways, PTL

\* An adapter at rest has its receiver on or will have the watchdog start it, whichever
\* calls of the stack were under way in the reset (netdev.c:3712).
THEOREM ReceiverIsOn == FilterSpec => []ReceiverOn
<1>1. FiltersInv => ReceiverOn
  BY DEF FiltersInv, ReceiverInv, ReceiverOn, AtRest, Up
<1> QED
  BY <1>1, FiltersInvAlways, PTL

\* The adapter's own address is in an entry that it receives by, for any number of
\* entries, lists of addresses, resets and acts of engine and other port (netdev.c:5310).
THEOREM StationIsHeard == FilterSpec => []StationHeard
<1>1. FiltersInv => StationHeard
  BY DEF FiltersInv, StationInv, Wiped, StationHeard, Up, Inside, Typed, SetupTyped,
    FilterSetup, Entries
<1> QED
  BY <1>1, FiltersInvAlways, PTL

\* The receiver is off through the whole of a reset, comes on after it, and hears the
\* adapter's own address (e1000e_set_rx_mode, e1000_set_mac, e1000_configure_rx).
THEOREM ReceiverStaysRight == FilterSpec => []ReceiverRight
BY ReceiverStaysOff, ReceiverIsOn, StationIsHeard, PTL DEF ReceiverRight
-----------------------------------------------------------------------------
(* The lists in order, the types, and what the entries hold.               *)

\* The addresses in order: each has a number, and each number up to the last an address.
LEMMA Numbered ==
  ASSUME NEW S \in SUBSET Nat, IsFiniteSet(S)
  PROVE  /\ \A n \in 1..Cardinality(S) : Nth(S, n) \in S
         /\ \A a \in S : \E n \in 1..Cardinality(S) : Nth(S, n) = a
<1> DEFINE below(a) == {b \in S : b < a}
           f == [a \in S |-> Cardinality(below(a)) + 1]
<1>1. \A a \in S : IsFiniteSet(below(a)) /\ Cardinality(below(a)) \in Nat
  BY FS_Subset, FS_CardinalityType
<1>2. \A a \in S : Cardinality(below(a)) < Cardinality(S)
  <2> TAKE a \in S
  <2>1. below(a) \in SUBSET (S \ {a})
    OBVIOUS
  <2>2. IsFiniteSet(S \ {a}) /\ Cardinality(S \ {a}) = Cardinality(S) - 1
    BY FS_RemoveElement
  <2> HIDE DEF below
  <2>3. Cardinality(below(a)) <= Cardinality(S \ {a})
    BY <2>1, <2>2, FS_Subset
  <2> QED
    BY <1>1, <2>2, <2>3, FS_CardinalityType
<1>3. \A a, b \in S : a < b => Cardinality(below(a)) < Cardinality(below(b))
  <2> SUFFICES ASSUME NEW a \in S, NEW b \in S, a < b
               PROVE  Cardinality(below(a)) < Cardinality(below(b))
    OBVIOUS
  <2>1. below(a) \in SUBSET (below(b) \ {a}) /\ a \in below(b)
    <3>1. a \in Nat /\ b \in Nat
      OBVIOUS
    <3>2. \A c \in below(a) : c \in S /\ c \in Nat /\ c < b /\ c # a
      BY <3>1
    <3> QED
      BY <3>2
  <2> HIDE DEF below
  <2>2. IsFiniteSet(below(b) \ {a}) /\ Cardinality(below(b) \ {a}) = Cardinality(below(b)) - 1
    BY <1>1, <2>1, FS_RemoveElement
  <2>3. Cardinality(below(a)) <= Cardinality(below(b) \ {a})
    BY <2>1, <2>2, FS_Subset
  <2> QED
    BY <1>1, <2>2, <2>3
<1> HIDE DEF below
<1>4. f \in Injection(S, 1..Cardinality(S))
  <2>1. f \in [S -> 1..Cardinality(S)]
    BY <1>1, <1>2, FS_CardinalityType
  <2>2. \A a, b \in S : f[a] = f[b] => a = b
    <3> SUFFICES ASSUME NEW a \in S, NEW b \in S, f[a] = f[b] PROVE a = b
      OBVIOUS
    <3>1. Cardinality(below(a)) = Cardinality(below(b))
      BY <1>1
    <3> QED
      BY <1>1, <1>3, <3>1
  <2> QED
    BY <2>1, <2>2 DEF Injection, IsInjective
<1>5. f \in Surjection(S, 1..Cardinality(S))
  <2>1. IsFiniteSet(1..Cardinality(S)) /\ Cardinality(1..Cardinality(S)) = Cardinality(S)
    BY FS_Interval, FS_CardinalityType
  <2> QED
    BY <1>4, <2>1, FS_Injection
<1>6. \A n \in 1..Cardinality(S) : \E a \in S : Cardinality(below(a)) = n - 1
  <2> SUFFICES ASSUME NEW n \in 1..Cardinality(S)
               PROVE  \E a \in S : Cardinality(below(a)) = n - 1
    OBVIOUS
  <2>1. PICK a \in S : f[a] = n
    BY <1>5 DEF Surjection
  <2>2. Cardinality(below(a)) + 1 = n
    BY <2>1
  <2> QED
    BY <1>1, <2>2
<1>7. \A n \in 1..Cardinality(S) : Nth(S, n) \in S /\ Cardinality(below(Nth(S, n))) = n - 1
  BY <1>6 DEF Nth, below
<1>8. ASSUME NEW a \in S
      PROVE  \E n \in 1..Cardinality(S) : Nth(S, n) = a
  <2> DEFINE n == Cardinality(below(a)) + 1
  <2>1. n \in 1..Cardinality(S) /\ Cardinality(below(a)) = n - 1
    BY <1>1, <1>2, FS_CardinalityType
  <2>2. Nth(S, n) \in S /\ Cardinality(below(Nth(S, n))) = n - 1
    BY <1>7, <2>1
  <2>3. Nth(S, n) = a
    <3> DEFINE m == Nth(S, n)
    <3>1. m \in S /\ Cardinality(below(m)) = Cardinality(below(a))
      BY <2>1, <2>2
    <3> HIDE DEF m, n
    <3>2. ~(m < a) /\ ~(a < m)
      BY <1>1, <1>3, <3>1
    <3>3. m \in Nat /\ a \in Nat
      BY <3>1
    <3>4. m = a
      BY <3>2, <3>3
    <3> QED
      BY <3>4 DEF m
  <2> QED
    BY <2>1, <2>3
<1> QED
  BY <1>7, <1>8

\* The rest of the types, and that a VLAN that is added or killed is one of the stack's.
RestTyped ==
  /\ uc \subseteq setup.uc /\ mc \subseteq setup.mc /\ flags \subseteq setup.modes
  /\ vlans \subseteq setup.vids /\ mta \subseteq setup.mc
  /\ vfta \subseteq setup.vids \cup {0} /\ active \subseteq setup.vids \cup {0}
  /\ cookie \in Cookies /\ mngVid \in Cookies
  /\ wpc \in {"idle", "busy", "resettask"} /\ restart \in BOOLEAN
  /\ stale \subseteq Threads /\ lost \subseteq {"en", "modes", "mac", "list", "vlan"}
  /\ taken \in BOOLEAN /\ managed \subseteq setup.vids /\ torn \in BOOLEAN
  /\ pc["stack"] \in {"addactive", "killactive"} => loc["stack"].vid \in setup.vids
  /\ pc["reset"] = "laa" => HasLaa

\* They are kept, too.
LEMMA RestTypedKept ==
  ASSUME Typed, RestTyped, [FilterNext]_vars
  PROVE  RestTyped'
<1>0. /\ DOMAIN pc = Threads /\ loc \in [Threads -> Locals]
      /\ UNCHANGED <<Cookies, HasLaa, setup.uc, setup.mc, setup.vids, setup.modes>>
      /\ Cookies = setup.vids \cup {NoVid}
  BY SetupKept, EntriesKept DEF Typed, StateTyped, Cookies
<1> USE DEF RestTyped, Threads, Goto
<1>1. ASSUME NEW t \in Threads, ReadModes(t) PROVE RestTyped'
  BY <1>1, <1>0 DEF ReadModes, keptByRxMode, netVars, regVars, Locals
<1>2. ASSUME NEW t \in Threads, WriteMta(t) PROVE RestTyped'
  BY <1>2, <1>0 DEF WriteMta, keptByRxMode, netVars, Locals
<1>3. ASSUME NEW t \in Threads, MtaNoMemory(t) PROVE RestTyped'
  BY <1>3, <1>0 DEF MtaNoMemory, netVars, regVars, vlanVars, ghosts, Locals
<1>4. ASSUME NEW t \in Threads, FilterVlans(t) PROVE RestTyped'
  BY <1>4, <1>0 DEF FilterVlans, keptByRxMode, netVars, Locals, KilledIn
<1>5. ASSUME NEW t \in Threads, Count(t) PROVE RestTyped'
  BY <1>5, <1>0 DEF Count, keptByRxMode, netVars, regVars, Locals
<1>6. ASSUME NEW t \in Threads, WriteEntries(t) PROVE RestTyped'
  BY <1>6, <1>0 DEF WriteEntries, keptByRxMode, netVars, Locals, CutShort
<1>7. ASSUME NEW t \in Threads, NEW n \in 0..setup.slots, EntriesFail(t, n) PROVE RestTyped'
  BY <1>7, <1>0 DEF EntriesFail, netVars, Locals
<1>8. ASSUME NEW t \in Threads, WriteModes(t) PROVE RestTyped'
  BY <1>8, <1>0 DEF WriteModes, keptByRxMode, netVars, WriteRctl, Locals, Undone
<1>9. ASSUME NEW u \in SUBSET setup.uc, NEW m \in SUBSET setup.mc, NEW f \in SUBSET setup.modes,
       ChangeRx(u, m, f)
  PROVE RestTyped'
  BY <1>9, <1>0 DEF ChangeRx, regVars, keptByStack
<1>10. ASSUME NEW v \in setup.vids, AddVid(v) PROVE RestTyped'
  BY <1>10, <1>0 DEF AddVid, keptByStack, Locals
<1>11. ASSUME NEW v \in setup.vids, KillVid(v) PROVE RestTyped'
  BY <1>11, <1>0 DEF KillVid, keptByStack, KilledIn, Locals
<1>12. ASSUME NEW a \in Stations, SetMac(a) PROVE RestTyped'
  BY <1>12, <1>0 DEF SetMac, regVars, keptByStack
<1>13. ASSUME NEW c \in Cookies, ReadCookie(c) PROVE RestTyped'
  BY <1>13, <1>0 DEF ReadCookie, keptByWatchdog, netVars, UpdateMng, Mislaid, RepairLaa
<1>14. ASSUME NEW e \in Locks, MeTakes(e) PROVE RestTyped'
  BY <1>14, <1>0 DEF MeTakes, netVars, vlanVars
<1>15. CASE SetActive
  BY <1>15, <1>0 DEF SetActive, netVars, regVars, keptByStack
<1>16. CASE WriteStation
  BY <1>16, <1>0 DEF WriteStation, netVars
<1>17. CASE WriteLaa
  BY <1>17, <1>0 DEF WriteLaa, netVars, keptByStack
<1>18. CASE Down
  BY <1>18, <1>0 DEF Down, keptByReset, netVars, StopReceiver, WriteRctl
<1>19. CASE HwReset
  BY <1>19, <1>0 DEF HwReset, keptByReset, netVars, WriteRctl
<1>20. CASE SetLaaState
  BY <1>20, <1>0 DEF SetLaaState, keptByReset, netVars, ghosts
<1>21. CASE ReadAddr
  BY <1>21, <1>0 DEF ReadAddr, keptByReset, netVars, regVars, ghosts
<1>22. CASE InitHw
  BY <1>22, <1>0 DEF InitHw, keptByReset, netVars, Cleared
<1>23. CASE ManageVlan
  BY <1>23, <1>0 DEF ManageVlan, keptByReset, netVars, UpdateMng, Mislaid
<1>24. CASE CleanRings
  BY <1>24, <1>0 DEF CleanRings, keptByReset, netVars, regVars, ghosts
<1>25. CASE RestoreVlan
  BY <1>25, <1>0 DEF RestoreVlan, keptByReset, netVars
<1>26. CASE SetupRctl
  BY <1>26, <1>0 DEF SetupRctl, keptByReset, netVars, WriteRctl
<1>27. CASE ReadRctlAgain
  BY <1>27, <1>0 DEF ReadRctlAgain, keptByReset, netVars, StopReceiver, WriteRctl
<1>28. CASE Enable
  BY <1>28, <1>0 DEF Enable, keptByReset, netVars, WriteRctl, Undone
<1>29. CASE Sleep
  BY <1>29, <1>0 DEF Sleep, keptByReset, netVars, regVars, ghosts
<1>30. CASE Wake
  BY <1>30, <1>0 DEF Wake, keptByReset, netVars, regVars, ghosts
<1>31. CASE ResetTask
  BY <1>31, <1>0 DEF ResetTask, netVars, StopReceiver, WriteRctl
<1>32. CASE WatchdogStart
  BY <1>32, <1>0 DEF WatchdogStart, keptByWatchdog, netVars, vlanVars
<1>33. CASE EnableReceives
  BY <1>33, <1>0 DEF EnableReceives, keptByWatchdog, netVars, vlanVars, WriteRctl, RepairLaa
<1>34. CASE OtherPortResets
  BY <1>34, <1>0 DEF OtherPortResets, netVars, vlanVars, ghosts
<1>35. CASE LinkInterrupt
  BY <1>35, <1>0 DEF LinkInterrupt, netVars, vlanVars, WriteRctl
<1>36. CASE UNCHANGED vars
  BY <1>36, <1>0 DEF vars, netVars, regVars, vlanVars, ghosts
<1> QED
  BY <1>1, <1>2, <1>3, <1>4, <1>5, <1>6, <1>7, <1>8, <1>9, <1>10, <1>11, <1>12, <1>13, <1>14,
    <1>15, <1>16, <1>17, <1>18, <1>19, <1>20, <1>21, <1>22, <1>23, <1>24, <1>25, <1>26, <1>27,
    <1>28, <1>29, <1>30, <1>31, <1>32, <1>33, <1>34, <1>35, <1>36
  DEF FilterNext, SetRxMode, Stack, Reset, Watchdog, Environment

\* The lists are numbers, unlike every other address.
LEMMA ListsAreNumbers ==
  ASSUME Typed, RestTyped
  PROVE  uc \in SUBSET Nat /\ IsFiniteSet(uc) /\ Cardinality(uc) \in Nat
BY FS_CardinalityType DEF Typed, SetupTyped, StateTyped, RestTyped, FilterSetup

\* Programming n entries puts addresses of the list into them and leaves the others alone.
LEMMA ProgrammedAt ==
  ASSUME Typed, RestTyped, NEW avail \in 0..setup.slots, NEW n \in 0..Room(avail)
  PROVE  /\ DOMAIN Programmed(avail, n) = Entries
         /\ \A i \in Entries : IF i \in (avail - n + 1)..avail THEN Programmed(avail, n)[i] \in uc
                               ELSE Programmed(avail, n)[i] = rar[i]
<1>1. uc \in SUBSET Nat /\ IsFiniteSet(uc) /\ Cardinality(uc) \in Nat
  BY ListsAreNumbers
<1>2. setup.slots \in Nat
  BY DEF Typed, SetupTyped, FilterSetup
<1>3. n \in Nat /\ n <= Cardinality(uc) /\ n <= avail
  BY <1>1, <1>2 DEF Room
<1>4. \A i \in (avail - n + 1)..avail : avail - i + 1 \in 1..Cardinality(uc)
  BY <1>1, <1>2, <1>3
<1>5. \A i \in (avail - n + 1)..avail : Nth(uc, avail - i + 1) \in uc
  BY <1>1, <1>4, Numbered
<1> QED
  BY <1>5 DEF Programmed

\* Writing a list that there is room for leaves it, and nothing else, in the entries up to
\* avail; the 82579's others stay.
LEMMA ZeroedAt ==
  ASSUME Typed, RestTyped, NEW avail \in 0..setup.slots
  PROVE  /\ DOMAIN Zeroed(avail) = Entries
         /\ \A i \in Entries : i = 0 \/ i > avail => Zeroed(avail)[i] = rar[i]
         /\ \A i \in 1..avail : \/ Zeroed(avail)[i] \in uc \cup {NoAddr}
                                \/ setup.kind = "pch2" /\ Zeroed(avail)[i] = rar[i]
         /\ \A i \in Entries : \/ i \in (avail - Room(avail) + 1)..avail
                               \/ Zeroed(avail)[i] \in {rar[i], NoAddr}
         /\ Cardinality(uc) <= avail => \A a \in uc : \E i \in Entries : Zeroed(avail)[i] = a
<1>1. uc \in SUBSET Nat /\ IsFiniteSet(uc) /\ Cardinality(uc) \in Nat
  BY ListsAreNumbers
<1>2. setup.slots \in Nat /\ avail \in Nat /\ avail <= setup.slots /\ Entries = 0..setup.slots
  BY DEF Typed, SetupTyped, FilterSetup, Entries
<1> DEFINE n == Room(avail)
<1>3. n \in 0..avail /\ n <= Cardinality(uc) /\ (Cardinality(uc) <= avail => n = Cardinality(uc))
  BY <1>1, <1>2 DEF Room
<1>4. \A i \in Entries : IF i \in (avail - n + 1)..avail THEN Programmed(avail, n)[i] \in uc
                         ELSE Programmed(avail, n)[i] = rar[i]
  BY <1>2, <1>3, ProgrammedAt
<1>5. Zeroed(avail) = [i \in Entries |-> IF i \in 1..(avail - n) /\ setup.kind # "pch2" THEN NoAddr
                                         ELSE Programmed(avail, n)[i]]
  BY DEF Zeroed
<1> HIDE DEF n
<1>6. ASSUME Cardinality(uc) <= avail, NEW a \in uc
      PROVE  \E i \in Entries : Zeroed(avail)[i] = a
  <2>1. PICK k \in 1..Cardinality(uc) : Nth(uc, k) = a
    BY <1>1, Numbered
  <2> DEFINE i == avail - k + 1
  <2>2. /\ i \in Entries /\ i \in (avail - n + 1)..avail
        /\ i \notin 1..(avail - n) /\ avail - i + 1 = k
    BY <1>1, <1>2, <1>3, <1>6, <2>1
  <2>3. Programmed(avail, n)[i] = a
    BY <2>1, <2>2 DEF Programmed
  <2> QED
    BY <1>5, <2>2, <2>3
<1>7. \A i \in Entries : i = 0 \/ i > avail => Zeroed(avail)[i] = rar[i]
  BY <1>2, <1>3, <1>4, <1>5
<1>8. \A i \in 1..avail : \/ Zeroed(avail)[i] \in uc \cup {NoAddr}
                          \/ setup.kind = "pch2" /\ Zeroed(avail)[i] = rar[i]
  BY <1>2, <1>3, <1>4, <1>5
<1>9. \A i \in Entries : \/ i \in (avail - n + 1)..avail
                         \/ Zeroed(avail)[i] \in {rar[i], NoAddr}
  BY <1>2, <1>3, <1>4, <1>5
<1> QED
  BY <1>5, <1>6, <1>7, <1>8, <1>9 DEF n

\* What each entry may hold; an entry of the I217 that the engine has taken is not the list's.
RarInv ==
  /\ \A i \in Entries : rar[i] \in Stations \cup setup.uc \cup {MeAddr, NoAddr}
  /\ rar[0] \in Stations /\ (HasLaa => rar[setup.slots] \in Stations \cup {NoAddr})
  /\ setup.kind \notin {"pch2", "lpt"} => locked = {}
  /\ setup.kind = "lpt" =>
       \A i \in locked : rar[i] \in {MeAddr, NoAddr} /\ i..setup.slots \subseteq locked

\* Entries that calls of set_rx_mode write: those up to avail, and only with the list.
LEMMA RarKept ==
  ASSUME Typed, RestTyped, StationInv, RarInv, [FilterNext]_vars
  PROVE  RarInv'
<1>0. /\ DOMAIN pc = Threads /\ loc \in [Threads -> Locals] /\ addr \in Stations
      /\ DOMAIN rar = Entries /\ locked \subseteq 1..setup.slots /\ Permanent \in Stations
      /\ UNCHANGED <<Entries, HasLaa, setup.kind, setup.uc, setup.slots>>
      /\ (HasLaa => setup.kind = "82571") /\ setup.slots \in Nat /\ Entries = 0..setup.slots
      /\ (HasLaa => setup.slots > 0)
  BY SetupKept, EntriesKept, FilterAssumption
  DEF Typed, StateTyped, SetupTyped, HasLaa, FilterSetup, Entries
<1>a. ASSUME UNCHANGED <<rar, locked>> PROVE RarInv'
  BY <1>a, <1>0 DEF RarInv
<1>b. ASSUME UNCHANGED locked, NEW a \in Stations,
             rar' = [rar EXCEPT ![0] = a] \/ (HasLaa /\ rar' = [rar EXCEPT ![setup.slots] = a])
      PROVE  RarInv'
  BY <1>b, <1>0 DEF RarInv
<1> USE DEF Goto, Threads
<1>1. ASSUME NEW t \in Threads, ReadModes(t) \/ WriteMta(t) \/ MtaNoMemory(t) \/ FilterVlans(t)
               \/ Count(t) \/ WriteModes(t) PROVE RarInv'
  BY <1>1, <1>a DEF ReadModes, WriteMta, MtaNoMemory, FilterVlans, Count, WriteModes, keptByRxMode,
    regVars
<1>2. ASSUME NEW t \in Threads, WriteEntries(t) PROVE RarInv'
  <2> DEFINE avail == loc[t].avail
  <2>1. avail \in 0..(IF HasLaa THEN setup.slots - 1 ELSE setup.slots)
    BY <1>2 DEF WriteEntries, StationInv
  <2>2. avail \in 0..setup.slots
    BY <2>1, <1>0
  <2>3. locked' = locked /\ ((avail - Room(avail) + 1)..avail) \cap locked = {}
    BY <1>2 DEF WriteEntries, keptByRxMode
  <2>4. rar' = Zeroed(avail) \/ rar' = rar
    BY <1>2 DEF WriteEntries
  <2> HIDE DEF avail
  <2>5. CASE rar' = Zeroed(avail)
    <3>1. \A i \in Entries : rar'[i] = rar[i] \/ (i \in 1..avail /\ rar'[i] \in uc \cup {NoAddr})
      BY <2>2, <2>5, <1>0, ZeroedAt
    <3>2. \A i \in locked : rar'[i] \in {rar[i], NoAddr}
      BY <2>2, <2>3, <2>5, <1>0, ZeroedAt
    <3>3. uc \subseteq setup.uc
      BY DEF RestTyped
    <3> QED
      BY <2>1, <2>3, <3>1, <3>2, <3>3, <1>0 DEF RarInv
  <2> QED
    BY <2>3, <2>4, <2>5, <1>a
<1>3. ASSUME NEW t \in Threads, NEW n \in 0..setup.slots, EntriesFail(t, n) PROVE RarInv'
  <2> DEFINE avail == loc[t].avail
  <2>1. avail \in 0..(IF HasLaa THEN setup.slots - 1 ELSE setup.slots)
    BY <1>3 DEF EntriesFail, StationInv
  <2>2. avail \in 0..setup.slots /\ Room(avail) \in 0..avail
    BY <2>1, <1>0, RoomType
  <2>3. /\ locked' = locked /\ ((avail - n + 1)..avail) \cap locked = {}
        /\ n \in 0..Room(avail)
    BY <1>3, <1>0, <2>2 DEF EntriesFail
  <2>4. rar' = Programmed(avail, n) \/ rar' = rar
    BY <1>3 DEF EntriesFail
  <2> HIDE DEF avail
  <2>5. CASE rar' = Programmed(avail, n)
    <3>1. \A i \in Entries : rar'[i] = rar[i] \/ (i \in (avail - n + 1)..avail /\ rar'[i] \in uc)
      BY <2>2, <2>3, <2>5, <1>0, ProgrammedAt
    <3>2. \A i \in locked : rar'[i] = rar[i]
      BY <2>3, <3>1, <1>0
    <3>3. uc \subseteq setup.uc
      BY DEF RestTyped
    <3>4. rar'[0] = rar[0] /\ (HasLaa => rar'[setup.slots] = rar[setup.slots])
      BY <2>1, <2>2, <2>3, <3>1, <1>0
    <3> QED
      BY <2>3, <3>1, <3>2, <3>3, <3>4, <1>0 DEF RarInv
  <2> QED
    BY <2>3, <2>4, <2>5, <1>a
<1>4. CASE Stack
  <2>1. CASE UNCHANGED <<rar, locked>>
    BY <2>1, <1>a
  <2>2. CASE WriteStation
    BY <2>2, <1>0, <1>a, <1>b DEF WriteStation
  <2>3. CASE WriteLaa
    BY <2>3, <1>0, <1>a, <1>b DEF WriteLaa, StationInv, keptByStack
  <2> QED
    BY <1>4, <2>1, <2>2, <2>3
    DEF Stack, ChangeRx, AddVid, KillVid, SetMac, SetActive, regVars, keptByStack
<1>5. CASE HwReset
  <2>1. UNCHANGED locked
        /\ rar' = [i \in Entries |-> IF i = 0 THEN Permanent
                                     ELSE IF i \in locked THEN rar[i] ELSE NoAddr]
    BY <1>5 DEF HwReset, keptByReset
  <2>2. /\ rar'[0] = Permanent /\ DOMAIN rar' = Entries
        /\ \A i \in locked : rar'[i] = rar[i]
        /\ \A i \in Entries : rar'[i] \in {Permanent, rar[i], NoAddr}
    <3>1. 0 \in Entries /\ \A i \in locked : i \in Entries /\ i # 0
      BY <1>0
    <3> QED
      BY <2>1, <3>1
  <2>3. HasLaa => rar'[setup.slots] \in Stations \cup {NoAddr}
    BY <2>2, <1>0 DEF RarInv
  <2> QED
    BY <2>1, <2>2, <2>3, <1>0 DEF RarInv
<1>6. CASE SetLaaState
  BY <1>6, <1>0, <1>b DEF SetLaaState, keptByReset, RestTyped
<1>7. CASE InitHw
  <2>1. loc["reset"].addr \in Stations
    BY <1>0 DEF Locals
  <2> QED
    BY <1>7, <1>0, <2>1 DEF InitHw, InitRxAddrs, keptByReset, RarInv
<1>8. CASE Down \/ Sleep \/ Wake \/ ResetTask \/ ReadAddr \/ ManageVlan \/ CleanRings
             \/ RestoreVlan \/ SetupRctl \/ ReadRctlAgain \/ Enable
  BY <1>8, <1>a DEF Down, Sleep, Wake, ResetTask, ReadAddr, ManageVlan, CleanRings, RestoreVlan,
    SetupRctl, ReadRctlAgain, Enable, keptByReset, regVars
<1>9. CASE WatchdogStart \/ Watchdog
  BY <1>9, <1>0, <1>a, <1>b DEF WatchdogStart, Watchdog, EnableReceives, ReadCookie, RepairLaa,
    keptByWatchdog
<1>10. CASE OtherPortResets \/ LinkInterrupt
  BY <1>10, <1>0, <1>a, <1>b DEF OtherPortResets, LinkInterrupt
<1>11. ASSUME NEW e \in Locks, MeTakes(e) PROVE RarInv'
  <2>1. locked' = e /\ e # locked
        /\ rar' = [i \in Entries |-> IF i \in e \ locked THEN MeAddr ELSE rar[i]]
    BY <1>11 DEF MeTakes
  <2>2. CASE setup.kind = "pch2"
    <3>1. e \subseteq 1..setup.slots
      BY <2>2 DEF Locks
    <3> QED
      BY <2>1, <2>2, <3>1, <1>0 DEF RarInv
  <2>3. CASE setup.kind = "lpt"
    <3>1. e \subseteq 1..setup.slots /\ \A i \in e : i..setup.slots \subseteq e
      <4>1. e = {} \/ e = 1..setup.slots \/ \E k \in 2..setup.slots : e = (k + 1)..setup.slots
        BY <2>3 DEF Locks
      <4>2. PICK k \in Nat : e = {} \/ e = (k + 1)..setup.slots
        BY <4>1, <1>0
      <4> QED
        BY <4>2, <1>0
    <3>2. ~HasLaa
      BY <2>3, <1>0
    <3>3. \A i \in Entries : rar'[i] = rar[i] \/ (i \in e \ locked /\ rar'[i] = MeAddr)
      BY <2>1, <1>0
    <3>4. rar'[0] = rar[0]
      BY <3>1, <3>3, <1>0
    <3>5. \A i \in e : rar'[i] \in {MeAddr, NoAddr}
      <4>1. \A i \in e : i \in Entries
        BY <3>1, <1>0
      <4>2. \A i \in e : IF i \in locked THEN rar'[i] = rar[i] ELSE rar'[i] = MeAddr
        BY <2>1, <4>1
      <4> QED
        BY <2>3, <4>2 DEF RarInv
    <3>6. /\ setup'.kind = "lpt" /\ HasLaa' = FALSE /\ locked' = e /\ Entries' = Entries
          /\ setup'.slots = setup.slots /\ setup'.uc = setup.uc
      BY <2>1, <2>3, <3>2, <1>0
    <3>7. rar'[0] \in Stations
          /\ \A i \in Entries : rar'[i] \in Stations \cup setup.uc \cup {MeAddr, NoAddr}
      BY <3>3, <3>4 DEF RarInv
    <3> QED
      BY <3>1, <3>5, <3>6, <3>7 DEF RarInv
  <2>4. CASE setup.kind \notin {"pch2", "lpt"}
    BY <2>1, <2>4 DEF Locks, RarInv
  <2> QED
    BY <2>2, <2>3, <2>4
<1>12. CASE UNCHANGED vars
  BY <1>12, <1>a DEF vars, regVars
<1> QED
  BY <1>1, <1>2, <1>3, <1>4, <1>5, <1>6, <1>7, <1>8, <1>9, <1>10, <1>11, <1>12
  DEF FilterNext, SetRxMode, Reset, Environment
-----------------------------------------------------------------------------
(* Calls of set_rx_mode: what each has computed, and what two at once make *)
(* good for each other.                                                    *)

\* A call of the stack, before and after it has written the list.
Listing == {"rxmode", "mta", "vfe", "count", "entries"}
Calling == Listing \cup {"write"}

\* A call that is past the multicast table, and a reset that is past its call.
PostMta == {"vfe", "count", "entries", "write"}
Rewritten == {"restore", "setup", "readrctl", "enable", "idle"}

\* The entries that hold lists, what they may hold, and what the list's addresses need.
Middle == IF HasLaa THEN 1..(setup.slots - 1) ELSE 1..setup.slots
Ours(a) == a \in uc \cup {MeAddr, NoAddr}
Clean == setup.kind = "pch2" \/ \A i \in Middle : Ours(rar[i])
Heard == taken \/ "list" \in lost \/ uc \subseteq Inside(Entries)
Many == Cardinality(uc) > Available

\* The modes in r are what the flags ask for, and the unicast one has its reason.
Asked(r) ==
  /\ "promisc" \in flags => r.upe /\ r.mpe
  /\ "allmulti" \in flags => r.mpe
Due(r) == r.upe /\ setup.kind \notin {"pch2", "lpt"} => "promisc" \in flags \/ Many
Good(r) == Asked(r) /\ Due(r) /\ (r.upe \/ (Heard /\ Clean)) /\ (r.mpe \/ mta = mc)

\* What t's call knows of the flags, at each of its steps, and of the entries it leaves alone.
FlagsRead(t) ==
  LET mine == loc[t].rctl IN
  /\ pc[t] = "mta" => "promisc" \notin flags /\ ~mine.upe
  /\ pc[t] = "vfe" => Asked(mine) /\ (mine.upe <=> "promisc" \in flags)
  /\ pc[t] \in {"count", "entries"} => "promisc" \notin flags /\ Asked(mine)
  /\ pc[t] = "entries" => ~mine.upe
  /\ pc[t] = "write" => Asked(mine) /\ Due(mine)

Above(t) ==
  pc[t] = "entries" /\ setup.kind # "pch2" =>
    \A i \in Middle : i > loc[t].avail => Ours(rar[i])

\* The stack's call, whatever a reset does: its lists and flags cannot change meanwhile.
StackInv ==
  /\ FlagsRead("stack") /\ Above("stack")
  /\ pc["stack"] = "write" /\ pc["reset"] \notin {"asleep", "hwreset"} =>
       loc["stack"].rctl.upe \/ Clean

\* The reset's call, unless the stack has called since it began.
ResetInv ==
  pc["stack"] \notin Calling /\ "reset" \notin stale =>
    /\ FlagsRead("reset") /\ Above("reset")
    /\ pc["reset"] \in PostMta => loc["reset"].rctl.mpe \/ mta = mc
    /\ pc["reset"] = "write" => loc["reset"].rctl.upe \/ (Heard /\ Clean)

\* What the stack's call has found so far it still finds.
Undisturbed ==
  /\ pc["stack"] \in PostMta => loc["stack"].rctl.mpe \/ mta = mc
  /\ pc["stack"] = "write" => loc["stack"].rctl.upe \/ Heard

\* Two calls at once: what the reset's undoes of the stack's, a mode of the reset's makes good,
\* and when the stack writes over that mode it is recorded.
MeetInv ==
  /\ pc["reset"] \in PostMta =>
       /\ pc["stack"] \in PostMta => loc["stack"].rctl.mpe \/ loc["reset"].rctl.mpe \/ mta = mc
       /\ pc["stack"] = "write" /\ pc["reset"] = "write" =>
            loc["stack"].rctl.upe \/ loc["reset"].rctl.upe \/ Heard
  /\ pc["reset"] \in Rewritten =>
       /\ pc["stack"] \in PostMta => \/ loc["stack"].rctl.mpe \/ mta = mc
                                     \/ "stack" \in stale /\ rctl.mpe
       /\ pc["stack"] = "write" => \/ loc["stack"].rctl.upe \/ Heard
                                   \/ "stack" \in stale /\ rctl.upe
  /\ pc["reset"] = "enable" =>
       \/ loc["reset"].rctl.upe = rctl.upe /\ loc["reset"].rctl.mpe = rctl.mpe
       \/ "reset" \in stale /\ Undisturbed

\* And the register itself, once no call is under way.
ModesInv ==
  pc["reset"] \in Rewritten /\ pc["stack"] \notin Calling /\ "modes" \notin lost => Good(rctl)

CallsInv == StackInv /\ ResetInv /\ MeetInv /\ ModesInv

\* The prover sees of the lists only what these say.
Known == Typed /\ RestTyped /\ StationInv /\ RarInv

\* Entries that were not counted are the engine's.
LEMMA UncountedAreOurs ==
  ASSUME Typed, RarInv, setup.kind # "pch2", NEW i \in Middle, i > Available
  PROVE  Ours(rar[i])
<1> USE DEF Typed, SetupTyped, StateTyped, FilterSetup, HasLaa
<1>1. setup.kind = "lpt"
  BY DEF Available, Middle
<1>2. Available = Cardinality((1..setup.slots) \ locked)
  BY <1>1 DEF Available
<1>3. ASSUME i \notin locked PROVE FALSE
  <2>1. i \in 1..setup.slots /\ setup.slots \in Nat /\ i \in Nat
    BY <1>1 DEF Middle
  <2>2. (1..i) \in SUBSET ((1..setup.slots) \ locked)
    <3>1. \A j \in 1..i : j \in 1..setup.slots
      BY <2>1
    <3>2. \A j \in locked : j..setup.slots \subseteq locked
      BY <1>1 DEF RarInv
    <3>3. \A j \in 1..i : j \notin locked
      BY <1>3, <2>1, <3>1, <3>2
    <3> QED
      BY <3>1, <3>3
  <2>3. IsFiniteSet((1..setup.slots) \ locked)
    <3>1. IsFiniteSet(1..setup.slots)
      BY <2>1, FS_Interval
    <3> QED
      BY <3>1, FS_Difference
  <2>4. Cardinality(1..i) = i
    BY <2>1, FS_Interval
  <2>5. Cardinality(1..i) <= Cardinality((1..setup.slots) \ locked)
    BY <2>2, <2>3, FS_Subset
  <2>6. Cardinality((1..setup.slots) \ locked) \in Nat
    BY <2>3, FS_CardinalityType
  <2> QED
    BY <1>2, <2>1, <2>4, <2>5, <2>6
<1> QED
  BY <1>1, <1>3 DEF RarInv, Ours

\* Adapters with entries of their own always have the same number of them.
LEMMA ManyKept ==
  ASSUME Typed, [FilterNext]_vars, uc' = uc, setup.kind \notin {"pch2", "lpt"}
  PROVE  Many' = Many
BY SetupKept, EntriesKept DEF Many, Available

\* The driver's own address is not in the list: writing it disturbs nothing of the list.
LEMMA ListUndisturbed ==
  ASSUME Known, [FilterNext]_vars, uc' = uc, taken => taken',
         "list" \in lost => "list" \in lost', NEW a \in Stations,
         \/ rar' = rar
         \/ rar' = [rar EXCEPT ![0] = a]
         \/ HasLaa /\ rar' = [rar EXCEPT ![setup.slots] = a]
  PROVE  /\ Heard => Heard'
         /\ Clean => Clean'
         /\ \A i \in Middle : rar'[i] = rar[i]
         /\ Middle' = Middle /\ \A b : Ours(b)' = Ours(b)
<1>1. /\ DOMAIN rar = Entries /\ Entries = 0..setup.slots /\ setup.slots \in Nat
      /\ (HasLaa => setup.slots > 0)
      /\ UNCHANGED <<Entries, HasLaa, setup.kind, setup.uc, setup.slots>>
  BY SetupKept, EntriesKept DEF Known, Typed, StateTyped, SetupTyped, FilterSetup, Entries
<1>2. \A i \in Middle : rar'[i] = rar[i]
  BY <1>1 DEF Middle
<1>3. Middle' = Middle /\ \A b : Ours(b)' = Ours(b)
  BY <1>1 DEF Middle, Ours
<1>4. Clean => Clean'
  BY <1>1, <1>2 DEF Clean, Ours, Middle
<1>5. \A i \in Entries : rar'[i] # rar[i] => rar[i] \notin uc
  <2>1. \A b \in Stations \cup {NoAddr} : b \notin uc
    BY FilterAssumption, ListsAreNumbers DEF Known
  <2>2. rar[0] \notin uc /\ (HasLaa => rar[setup.slots] \notin uc)
    BY <2>1 DEF Known, RarInv
  <2> QED
    BY <1>1, <2>2
<1>6. Heard => Heard'
  BY <1>1, <1>5 DEF Heard, Inside
<1> QED
  BY <1>2, <1>3, <1>4, <1>6
-----------------------------------------------------------------------------
(* Steps that are no part of a call.                                       *)

\* A step that is no part of a call or of a reset: it leaves lists, flags and modes alone.
Quiet ==
  /\ UNCHANGED <<uc, mc, flags, mta>>
  /\ pc'["reset"] = pc["reset"]
  /\ pc'["stack"] = pc["stack"] \/ (pc["stack"] \notin Calling /\ pc'["stack"] \notin Calling)
  /\ \A t \in Threads : loc'[t].rctl = loc[t].rctl /\ loc'[t].avail = loc[t].avail
  /\ rctl'.upe = rctl.upe /\ rctl'.mpe = rctl.mpe
  /\ stale \subseteq stale' /\ ("modes" \in lost => "modes" \in lost')
  /\ Heard => Heard'
  /\ Clean => Clean'
  /\ Middle' = Middle /\ \A i \in Middle : Ours(rar[i]) => Ours(rar[i])'

\* So it cannot disturb what the calls know.
LEMMA QuietKeeps ==
  ASSUME Known, CallsInv, [FilterNext]_vars, Quiet
  PROVE  CallsInv'
<1>1. /\ setup'.kind = setup.kind
      /\ setup.kind \notin {"pch2", "lpt"} => Many' = Many
  BY SetupKept, ManyKept DEF Known, Quiet
<1>2. ASSUME NEW t \in Threads PROVE Above(t) /\ pc'[t] = pc[t] => Above(t)'
  BY <1>1, <1>2 DEF Above, Quiet
<1>3. ASSUME NEW t \in Threads PROVE FlagsRead(t) /\ pc'[t] = pc[t] => FlagsRead(t)'
  BY <1>1, <1>3 DEF FlagsRead, Quiet, Asked, Due
<1>4. StackInv'
  <2>1. CASE pc'["stack"] = pc["stack"]
    BY <1>2, <1>3, <2>1 DEF StackInv, CallsInv, Quiet, Threads
  <2>2. CASE pc'["stack"] \notin Calling
    BY <2>2 DEF StackInv, FlagsRead, Above, Calling, Listing
  <2> QED
    BY <2>1, <2>2 DEF Quiet
<1>5. ResetInv'
  BY <1>2, <1>3 DEF ResetInv, CallsInv, Quiet, Threads
<1>6. MeetInv'
  BY DEF MeetInv, Undisturbed, CallsInv, Quiet, Threads, Calling, Listing, PostMta
<1>7. ModesInv'
  BY <1>1 DEF ModesInv, CallsInv, Quiet, Good, Asked, Due
<1> QED
  BY <1>4, <1>5, <1>6, <1>7 DEF CallsInv

\* A step of a reset before its call of set_rx_mode: the registers are not relied on.
Early == {"asleep", "hwreset", "laa", "readaddr", "init", "manage", "rings", "rxmode"}

EarlyStep ==
  /\ pc'["reset"] \in Early /\ pc'["stack"] = pc["stack"] /\ pc["reset"] \in Early \cup {"idle"}
  /\ UNCHANGED <<uc, mc, flags>> /\ loc'["stack"] = loc["stack"]
  /\ Middle' = Middle /\ \A i \in Middle : Ours(rar[i]) => Ours(rar[i])'
  /\ \/ pc["reset"] \notin {"asleep", "hwreset"}
     \/ pc'["reset"] \in {"asleep", "hwreset"}
     \/ Clean'

\* Of what the stack's call knows it disturbs nothing but the table, which is written again.
LEMMA EarlyKeeps ==
  ASSUME Known, CallsInv, [FilterNext]_vars, EarlyStep
  PROVE  CallsInv'
<1>1. /\ setup'.kind = setup.kind
      /\ setup.kind \notin {"pch2", "lpt"} => Many' = Many
  BY SetupKept, ManyKept DEF Known, EarlyStep
<1>2. FlagsRead("stack")' /\ Above("stack")'
  BY <1>1 DEF CallsInv, StackInv, FlagsRead, Above, Asked, Due, EarlyStep
<1>3. Clean => Clean'
  BY <1>1 DEF Clean, EarlyStep
<1>4. StackInv'
  BY <1>2, <1>3 DEF CallsInv, StackInv, EarlyStep
<1>5. ResetInv' /\ MeetInv' /\ ModesInv'
  BY DEF EarlyStep, Early, ResetInv, MeetInv, ModesInv, PostMta, Rewritten, FlagsRead, Above
<1> QED
  BY <1>4, <1>5 DEF CallsInv

\* The driver's own entries are written with its addresses.
LEMMA QuietSteps ==
  ASSUME Known, [FilterNext]_vars,
         \/ \E v \in setup.vids : AddVid(v) \/ KillVid(v)
         \/ \E a \in Stations : SetMac(a)
         \/ SetActive \/ WriteStation \/ WriteLaa
         \/ WatchdogStart \/ EnableReceives \/ (\E c \in Cookies : ReadCookie(c))
         \/ OtherPortResets \/ LinkInterrupt \/ (ResetTask /\ ~Up) \/ UNCHANGED vars
  PROVE  Quiet
<1>0. /\ DOMAIN pc = Threads /\ loc \in [Threads -> Locals] /\ addr \in Stations /\ rctl \in Rctl
      /\ Permanent \in Stations /\ stale \subseteq Threads
  BY FilterAssumption DEF Known, Typed, StateTyped, RestTyped
<1>a. ASSUME UNCHANGED <<uc, mc, flags, mta, taken>>, pc'["reset"] = pc["reset"],
             pc'["stack"] = pc["stack"]
               \/ (pc["stack"] \notin Calling /\ pc'["stack"] \notin Calling),
             \A t \in Threads : loc'[t].rctl = loc[t].rctl /\ loc'[t].avail = loc[t].avail,
             rctl'.upe = rctl.upe, rctl'.mpe = rctl.mpe, stale \subseteq stale',
             \A w \in {"modes", "list"} : w \in lost => w \in lost',
             NEW a \in Stations,
             \/ rar' = rar
             \/ rar' = [rar EXCEPT ![0] = a]
             \/ HasLaa /\ rar' = [rar EXCEPT ![setup.slots] = a]
      PROVE  Quiet
  <2>1. /\ Heard => Heard'
        /\ Clean => Clean'
        /\ \A i \in Middle : rar'[i] = rar[i]
        /\ Middle' = Middle /\ \A b : Ours(b)' = Ours(b)
    BY <1>a, ListUndisturbed
  <2>2. \A i \in Middle : Ours(rar[i]) => Ours(rar[i])'
    BY <1>a, <2>1 DEF Ours
  <2> QED
    BY <1>a, <2>1, <2>2 DEF Quiet
<1> USE DEF Goto, Threads, Calling, Listing
<1>1. ASSUME NEW v \in setup.vids, AddVid(v) PROVE Quiet
  BY <1>1, <1>0, <1>a DEF AddVid, keptByStack, Locals
<1>2. ASSUME NEW v \in setup.vids, KillVid(v) PROVE Quiet
  BY <1>2, <1>0, <1>a DEF KillVid, keptByStack, Locals
<1>3. ASSUME NEW a \in Stations, SetMac(a) PROVE Quiet
  BY <1>3, <1>0, <1>a DEF SetMac, keptByStack, regVars
<1>4. CASE SetActive
  BY <1>4, <1>0, <1>a DEF SetActive, keptByStack, netVars, regVars
<1>5. CASE WriteStation
  BY <1>5, <1>0, <1>a DEF WriteStation, netVars
<1>6. CASE WriteLaa
  BY <1>6, <1>0, <1>a DEF WriteLaa, keptByStack, netVars, Known, StationInv
<1>7. CASE WatchdogStart
  BY <1>7, <1>0, <1>a DEF WatchdogStart, keptByWatchdog, netVars
<1>8. CASE EnableReceives
  BY <1>8, <1>0, <1>a DEF EnableReceives, keptByWatchdog, netVars, WriteRctl, RepairLaa, Rctl
<1>9. ASSUME NEW c \in Cookies, ReadCookie(c) PROVE Quiet
  BY <1>9, <1>0, <1>a DEF ReadCookie, keptByWatchdog, netVars, RepairLaa, Mislaid
<1>10. CASE OtherPortResets
  BY <1>10, <1>0, <1>a DEF OtherPortResets, netVars, ghosts
<1>11. CASE LinkInterrupt
  BY <1>11, <1>0, <1>a DEF LinkInterrupt, netVars, WriteRctl, Rctl
<1>13. CASE ResetTask /\ ~Up
  BY <1>13, <1>0, <1>a DEF ResetTask, netVars, Up
<1>12. CASE UNCHANGED vars
  BY <1>12, <1>0, <1>a DEF vars, netVars, regVars, ghosts
<1> QED
  BY <1>1, <1>2, <1>3, <1>4, <1>5, <1>6, <1>7, <1>8, <1>9, <1>10, <1>11, <1>12, <1>13

\* What the engine takes of the list the ghost taken records.
LEMMA MeTakesQuiet ==
  ASSUME Known, [FilterNext]_vars, NEW e \in Locks, MeTakes(e)
  PROVE  Quiet
<1>1. /\ DOMAIN rar = Entries /\ Entries = 0..setup.slots /\ setup.slots \in Nat
      /\ UNCHANGED <<Entries, HasLaa, setup.kind, setup.slots>> /\ (HasLaa => setup.slots > 0)
  BY SetupKept, EntriesKept DEF Known, Typed, StateTyped, SetupTyped, FilterSetup, Entries
<1>2. /\ rar' = [i \in Entries |-> IF i \in e \ locked THEN MeAddr ELSE rar[i]]
      /\ taken' = (taken \/ \E i \in e \ locked : rar[i] \in uc)
      /\ UNCHANGED <<uc, mc, flags, mta, pc, loc, rctl, stale, lost>>
  BY DEF MeTakes, netVars
<1>3. Heard => Heard'
  <2>1. ASSUME uc \subseteq Inside(Entries), ~taken' PROVE uc \subseteq Inside(Entries)'
    <3> SUFFICES ASSUME NEW a \in uc PROVE \E i \in Entries : rar'[i] = a
      BY <1>1, <1>2 DEF Inside
    <3>1. PICK i \in Entries : rar[i] = a
      BY <2>1 DEF Inside
    <3>2. i \notin e \ locked
      BY <1>2, <2>1, <3>1
    <3> QED
      BY <1>2, <3>1, <3>2
  <2>2. taken => taken'
    BY <1>2
  <2> QED
    BY <1>2, <2>1, <2>2 DEF Heard
<1>4. Middle' = Middle /\ Middle \subseteq Entries
  BY <1>1 DEF Middle
<1>5. \A i \in Entries : rar'[i] \in {rar[i], MeAddr}
  BY <1>2
<1>6. \A i \in Middle : Ours(rar[i]) => Ours(rar[i])'
  BY <1>2, <1>4, <1>5 DEF Ours
<1>7. Clean => Clean'
  BY <1>1, <1>4, <1>6 DEF Clean
<1> QED
  BY <1>2, <1>3, <1>4, <1>6, <1>7 DEF Quiet

\* A reset wipes what the entries held.
LEMMA EarlySteps ==
  ASSUME Known, [FilterNext]_vars,
         \/ Down \/ HwReset \/ SetLaaState \/ ReadAddr \/ InitHw \/ ManageVlan \/ CleanRings
         \/ Sleep \/ Wake \/ (ResetTask /\ Up)
  PROVE  EarlyStep
<1>0. /\ DOMAIN pc = Threads /\ loc \in [Threads -> Locals] /\ DOMAIN rar = Entries
      /\ Entries = 0..setup.slots /\ setup.slots \in Nat
      /\ UNCHANGED <<Entries, HasLaa, setup.kind, setup.slots>> /\ (HasLaa => setup.slots > 0)
      /\ addr \in Stations
  BY SetupKept, EntriesKept DEF Known, Typed, StateTyped, SetupTyped, FilterSetup, Entries
<1>1. Middle' = Middle /\ Middle \subseteq Entries \ {0} /\ (HasLaa => setup.slots \notin Middle)
  BY <1>0 DEF Middle
<1>a. ASSUME UNCHANGED <<uc, mc, flags>>,
             rar' = rar \/ (HasLaa /\ rar' = [rar EXCEPT ![setup.slots] = addr])
      PROVE  \A i \in Middle : Ours(rar[i]) => Ours(rar[i])'
  BY <1>0, <1>1, <1>a DEF Ours
<1> USE DEF Goto, Threads, Early
<1>2. CASE Down
  BY <1>2, <1>0, <1>1, <1>a DEF Down, keptByReset, netVars, EarlyStep
<1>3. CASE HwReset
  <2>1. /\ rar' = [i \in Entries |-> IF i = 0 THEN Permanent
                                     ELSE IF i \in locked THEN rar[i] ELSE NoAddr]
        /\ UNCHANGED <<uc, mc, flags>>
    BY <1>3 DEF HwReset, keptByReset, netVars
  <2>2. \A i \in Middle : IF i \in locked THEN rar'[i] = rar[i] ELSE rar'[i] = NoAddr
    BY <2>1, <1>1
  <2>3. setup.kind # "pch2" => \A i \in locked : Ours(rar[i])
    BY DEF Known, RarInv, Ours
  <2>4. \A i \in Middle : Ours(rar[i]) => Ours(rar[i])'
    BY <2>1, <2>2 DEF Ours
  <2>5. Clean'
    BY <2>1, <2>2, <2>3, <1>0, <1>1 DEF Clean, Ours
  <2> QED
    BY <1>3, <1>0, <1>1, <2>4, <2>5 DEF HwReset, keptByReset, netVars, EarlyStep
<1>4. CASE SetLaaState
  BY <1>4, <1>0, <1>1, <1>a DEF SetLaaState, keptByReset, netVars, EarlyStep, Known, RestTyped
<1>5. CASE ReadAddr
  BY <1>5, <1>0, <1>1, <1>a DEF ReadAddr, keptByReset, netVars, regVars, EarlyStep
<1>6. CASE InitHw
  <2>1. rar' = InitRxAddrs(loc["reset"].addr) /\ UNCHANGED <<uc, mc, flags>>
    BY <1>6 DEF InitHw, keptByReset, netVars
  <2>2. \A i \in Middle : rar'[i] \in {rar[i], NoAddr}
    BY <2>1, <1>1, <1>0 DEF InitRxAddrs
  <2>3. \A i \in Middle : Ours(rar[i]) => Ours(rar[i])'
    BY <2>1, <2>2 DEF Ours
  <2> QED
    BY <1>6, <1>0, <1>1, <2>3 DEF InitHw, keptByReset, netVars, EarlyStep
<1>7. CASE ManageVlan
  BY <1>7, <1>0, <1>1, <1>a DEF ManageVlan, keptByReset, netVars, EarlyStep
<1>8. CASE CleanRings
  BY <1>8, <1>0, <1>1, <1>a DEF CleanRings, keptByReset, netVars, regVars, EarlyStep
<1>9. CASE Sleep
  BY <1>9, <1>0, <1>1, <1>a DEF Sleep, keptByReset, netVars, regVars, EarlyStep
<1>10. CASE Wake
  BY <1>10, <1>0, <1>1, <1>a DEF Wake, keptByReset, netVars, regVars, EarlyStep
<1>11. CASE ResetTask /\ Up
  BY <1>11, <1>0, <1>1, <1>a DEF ResetTask, netVars, EarlyStep, Up
<1> QED
  BY <1>2, <1>3, <1>4, <1>5, <1>6, <1>7, <1>8, <1>9, <1>10, <1>11
-----------------------------------------------------------------------------
(* The steps of a call.                                                    *)

\* What a thread knows stays right while another moves and the list stays as it is.
LEMMA OtherKept ==
  ASSUME Known, [FilterNext]_vars, NEW o \in Threads, pc'[o] = pc[o], loc'[o] = loc[o],
         UNCHANGED <<uc, flags>>, \A i \in Middle : Ours(rar[i]) => Ours(rar[i])'
  PROVE  /\ FlagsRead(o) => FlagsRead(o)'
         /\ Above(o) => Above(o)'
         /\ Clean => Clean'
<1>1. /\ UNCHANGED <<setup.kind, setup.slots, HasLaa, Middle>>
      /\ setup.kind \notin {"pch2", "lpt"} => Many' = Many
  BY SetupKept, EntriesKept, ManyKept DEF Known, Middle
<1> QED
  BY <1>1 DEF FlagsRead, Above, Clean, Asked, Due

\* A step of the stack's call before its last.
StackCalls ==
  /\ UNCHANGED <<uc, mc, flags>> /\ pc'["reset"] = pc["reset"] /\ loc'["reset"] = loc["reset"]
  /\ pc["stack"] \in Calling /\ pc'["stack"] \in Calling
  /\ rctl'.upe = rctl.upe /\ rctl'.mpe = rctl.mpe /\ ("reset" \in stale => "reset" \in stale')

\* It needs only to keep what the stack knows and what the two calls have found.
LEMMA StackCallKeeps ==
  ASSUME StackCalls, StackInv', MeetInv'
  PROVE  CallsInv'
BY DEF CallsInv, StackCalls, ResetInv, ModesInv

\* A step of the reset's call before its last.
ResetCalls ==
  /\ UNCHANGED <<uc, mc, flags>> /\ pc'["stack"] = pc["stack"] /\ loc'["stack"] = loc["stack"]
  /\ pc["reset"] \in {"rxmode", "mta", "vfe", "count", "entries"}
  /\ pc'["reset"] \in {"mta", "vfe", "count", "entries", "write"}
  /\ "stack" \in stale => "stack" \in stale'
  /\ \A i \in Middle : Ours(rar[i]) => Ours(rar[i])'

\* A step of the reset's call needs its own part and what the two calls know of each other.
LEMMA ResetCallKeeps ==
  ASSUME Known, CallsInv, [FilterNext]_vars, ResetCalls, ResetInv', MeetInv'
  PROVE  CallsInv'
<1>1. /\ FlagsRead("stack") => FlagsRead("stack")'
      /\ Above("stack") => Above("stack")'
      /\ Clean => Clean'
  BY OtherKept DEF ResetCalls, Threads
<1>2. StackInv'
  BY <1>1 DEF CallsInv, StackInv, ResetCalls
<1>3. ModesInv'
  BY DEF ModesInv, ResetCalls, Rewritten
<1> QED
  BY <1>2, <1>3 DEF CallsInv

\* With the entries and the list as they were, what they say stays.
LEMMA ListSame ==
  ASSUME Known, [FilterNext]_vars, UNCHANGED <<uc, rar>>
  PROVE  /\ \A i \in Middle : Ours(rar[i]) => Ours(rar[i])'
         /\ Clean' = Clean
         /\ UNCHANGED <<taken, lost>> => Heard' = Heard
<1>1. /\ UNCHANGED <<setup.kind, setup.slots, HasLaa, Middle, Entries>>
  BY SetupKept, EntriesKept DEF Known, Middle
<1> QED
  BY <1>1 DEF Clean, Ours, Heard, Inside

\* A call begins: it takes the modes from the flags.
LEMMA ReadModesKeeps ==
  ASSUME Known, CallsInv, [FilterNext]_vars, NEW t \in Threads, ReadModes(t)
  PROVE  CallsInv'
<1>0. DOMAIN pc = Threads /\ loc \in [Threads -> Locals]
  BY DEF Known, Typed, StateTyped
<1>1. /\ pc[t] = "rxmode" /\ pc'[t] = (IF "promisc" \in flags THEN "vfe" ELSE "mta")
      /\ UNCHANGED <<uc, mc, flags, rctl, rar, mta, lost, taken>> /\ stale' = stale \ {t}
      /\ \A o \in Threads \ {t} : pc'[o] = pc[o] /\ loc'[o] = loc[o]
  BY <1>0 DEF ReadModes, Goto, keptByRxMode, netVars, regVars
<1>2. IF "promisc" \in flags THEN loc'[t].rctl.upe /\ loc'[t].rctl.mpe ELSE ~loc'[t].rctl.upe
  <2>1. ReadRctl \in Rctl
    BY DEF ReadRctl, AllOnes, Rctl, Known, Typed, StateTyped
  <2>2. ASSUME "promisc" \in flags
        PROVE  loc' = [loc EXCEPT ![t].rctl = [ReadRctl EXCEPT !.upe = TRUE, !.mpe = TRUE]]
    <3>1. ("promisc" \in flags) = TRUE
      BY <2>2
    <3> QED
      BY <3>1 DEF ReadModes
  <2>4. ASSUME "promisc" \notin flags
        PROVE  loc' = [loc EXCEPT ![t].rctl = [ReadRctl EXCEPT !.upe = FALSE, !.mpe = FALSE]]
    <3>1. ("promisc" \in flags) = FALSE
      BY <2>4
    <3> QED
      BY <3>1 DEF ReadModes
  <2>5. "promisc" \notin flags => \E v : ~v.upe /\ loc' = [loc EXCEPT ![t].rctl = v]
    BY <2>1, <2>4 DEF Rctl
  <2>3. "promisc" \in flags => \E v : v.upe /\ v.mpe /\ loc' = [loc EXCEPT ![t].rctl = v]
    BY <2>1, <2>2 DEF Rctl
  <2> QED
    BY <1>0, <2>3, <2>5 DEF Locals
<1>3. /\ \A i \in Middle : Ours(rar[i]) => Ours(rar[i])'
      /\ Clean' = Clean /\ Heard' = Heard
  BY <1>1, ListSame
<1>4. FlagsRead(t)' /\ Above(t)'
  BY <1>1, <1>2 DEF FlagsRead, Above, Asked
<1>5. CASE t = "stack"
  <2>1. StackCalls
    BY <1>1, <1>5 DEF StackCalls, Calling, Listing, Threads
  <2>2. StackInv'
    BY <1>1, <1>4, <1>5 DEF StackInv
  <2>3. MeetInv'
    BY <1>1, <1>2, <1>3, <1>5 DEF CallsInv, MeetInv, Undisturbed, Threads, PostMta
  <2> QED
    BY <2>1, <2>2, <2>3, StackCallKeeps
<1>6. CASE t = "reset"
  <2>1. ResetCalls
    BY <1>1, <1>3, <1>6 DEF ResetCalls, Threads
  <2>2. ResetInv'
    BY <1>1, <1>2, <1>4, <1>6 DEF ResetInv, PostMta
  <2>3. MeetInv'
    BY <1>1, <1>2, <1>6 DEF MeetInv, Rewritten, PostMta
  <2> QED
    BY <2>1, <2>2, <2>3, ResetCallKeeps
<1> QED
  BY <1>5, <1>6 DEF Threads

\* The table is written, or all multicast is let in.
LEMMA WriteMtaKeeps ==
  ASSUME Known, CallsInv, [FilterNext]_vars, NEW t \in Threads, WriteMta(t) \/ MtaNoMemory(t)
  PROVE  CallsInv'
<1>0. DOMAIN pc = Threads /\ loc \in [Threads -> Locals]
  BY DEF Known, Typed, StateTyped
<1>1. /\ pc[t] = "mta" /\ pc'[t] = "vfe"
      /\ UNCHANGED <<uc, mc, flags, rctl, rar, stale, lost, taken>>
      /\ \A o \in Threads \ {t} : pc'[o] = pc[o] /\ loc'[o] = loc[o]
      /\ loc'[t].rctl.upe = loc[t].rctl.upe
      /\ "allmulti" \in flags => loc'[t].rctl.mpe
      /\ mta' = mta \/ mta' = mc
  <2>1. CASE MtaNoMemory(t)
    BY <2>1, <1>0 DEF MtaNoMemory, Goto, netVars, regVars, ghosts, Locals, Rctl
  <2>2. CASE WriteMta(t)
    <3>1. PICK v \in BOOLEAN : /\ loc' = [loc EXCEPT ![t].rctl.mpe = v]
                             /\ "allmulti" \in flags => v
      BY <2>2 DEF WriteMta
    <3> QED
      BY <2>2, <3>1, <1>0 DEF WriteMta, Goto, keptByRxMode, netVars, Locals, Rctl
  <2> QED
    BY <2>1, <2>2
<1>2. Awake => loc'[t].rctl.mpe \/ mta' = mc
  <2>1. CASE MtaNoMemory(t)
    BY <2>1, <1>0 DEF MtaNoMemory, Locals, Rctl
  <2>2. CASE WriteMta(t)
    BY <2>2, <1>1, <1>0 DEF WriteMta
  <2> QED
    BY <2>1, <2>2
<1>3. /\ \A i \in Middle : Ours(rar[i]) => Ours(rar[i])'
      /\ Clean' = Clean /\ Heard' = Heard
  BY <1>1, ListSame
<1>4. (FlagsRead(t) => FlagsRead(t)') /\ Above(t)'
  BY <1>1 DEF FlagsRead, Above, Asked
<1>5. CASE t = "stack"
  <2>1. StackCalls
    BY <1>1, <1>5 DEF StackCalls, Calling, Listing, Threads
  <2>2. StackInv'
    BY <1>1, <1>4, <1>5 DEF StackInv, CallsInv
  <2>3. MeetInv'
    BY <1>1, <1>2, <1>3, <1>5
    DEF CallsInv, MeetInv, Undisturbed, Threads, PostMta, Rewritten, Awake
  <2> QED
    BY <2>1, <2>2, <2>3, StackCallKeeps
<1>6. CASE t = "reset"
  <2>1. ResetCalls
    BY <1>1, <1>3, <1>6 DEF ResetCalls, Threads
  <2>2. ResetInv'
    BY <1>1, <1>2, <1>4, <1>6 DEF ResetInv, PostMta, CallsInv, Awake, Threads
  <2>3. MeetInv'
    BY <1>1, <1>2, <1>6 DEF MeetInv, Rewritten, PostMta, Awake
  <2> QED
    BY <2>1, <2>2, <2>3, ResetCallKeeps
<1> QED
  BY <1>5, <1>6 DEF Threads

\* The VLAN filter is one bit of the register and no mode.
LEMMA FilterVlansKeeps ==
  ASSUME Known, CallsInv, [FilterNext]_vars, NEW t \in Threads, FilterVlans(t)
  PROVE  CallsInv'
<1>0. DOMAIN pc = Threads /\ rctl \in Rctl
  BY DEF Known, Typed, StateTyped
<1>1. /\ pc[t] = "vfe" /\ pc'[t] = (IF loc[t].rctl.upe THEN "write" ELSE "count")
      /\ UNCHANGED <<uc, mc, flags, rar, mta, loc, lost, taken>>
      /\ rctl'.upe = rctl.upe /\ rctl'.mpe = rctl.mpe /\ stale \subseteq stale'
      /\ \A o \in Threads \ {t} : pc'[o] = pc[o]
  BY <1>0 DEF FilterVlans, Goto, keptByRxMode, netVars, Rctl
<1>2. /\ \A i \in Middle : Ours(rar[i]) => Ours(rar[i])'
      /\ Clean' = Clean /\ Heard' = Heard
  BY <1>1, ListSame
<1>3. (FlagsRead(t) => FlagsRead(t)') /\ Above(t)'
  BY <1>1 DEF FlagsRead, Above, Asked, Due
<1>4. CASE t = "stack"
  <2>1. StackCalls
    BY <1>1, <1>4 DEF StackCalls, Calling, Listing, Threads
  <2>2. StackInv'
    BY <1>1, <1>3, <1>4 DEF StackInv, CallsInv
  <2>3. MeetInv'
    BY <1>1, <1>2, <1>4 DEF CallsInv, MeetInv, Undisturbed, Threads, PostMta
  <2> QED
    BY <2>1, <2>2, <2>3, StackCallKeeps
<1>5. CASE t = "reset"
  <2>1. ResetCalls
    BY <1>1, <1>2, <1>5 DEF ResetCalls, Threads
  <2>2. ResetInv'
    BY <1>1, <1>3, <1>5 DEF ResetInv, PostMta, CallsInv, Threads
  <2>3. MeetInv'
    BY <1>1, <1>5 DEF MeetInv, CallsInv, Rewritten, PostMta, Threads
  <2> QED
    BY <2>1, <2>2, <2>3, ResetCallKeeps
<1> QED
  BY <1>4, <1>5 DEF Threads

\* The entries are counted, or there are too many addresses for them.
LEMMA CountKeeps ==
  ASSUME Known, CallsInv, [FilterNext]_vars, NEW t \in Threads, Count(t)
  PROVE  CallsInv'
<1>0. DOMAIN pc = Threads /\ loc \in [Threads -> Locals]
  BY DEF Known, Typed, StateTyped
<1>1. /\ pc[t] = "count" /\ pc'[t] = (IF Many THEN "write" ELSE "entries")
      /\ UNCHANGED <<uc, mc, flags, rctl, rar, mta, lost, stale>>
      /\ ~Many /\ taken => taken'
      /\ \A o \in Threads \ {t} : pc'[o] = pc[o] /\ loc'[o] = loc[o]
  BY <1>0 DEF Count, Goto, keptByRxMode, netVars, regVars, Many
<1>2. /\ loc'[t].rctl.mpe = loc[t].rctl.mpe /\ loc'[t].avail = Available
      /\ IF Many THEN loc'[t].rctl.upe ELSE ~loc'[t].rctl.upe
  <2>1. CASE Many
    <3>1. (Cardinality(uc) > Available) = TRUE
      BY <2>1 DEF Many
    <3>2. loc' = [loc EXCEPT ![t].rctl.upe = TRUE, ![t].avail = Available]
      BY <3>1 DEF Count
    <3> QED
      BY <2>1, <3>2, <1>0 DEF Locals, Rctl
  <2>2. CASE ~Many
    <3>1. (Cardinality(uc) > Available) = FALSE
      BY <2>2 DEF Many
    <3>2. loc' = [loc EXCEPT ![t].rctl.upe = FALSE, ![t].avail = Available]
      BY <3>1 DEF Count
    <3> QED
      BY <2>2, <3>2, <1>0 DEF Locals, Rctl
  <2> QED
    BY <2>1, <2>2
<1>3. /\ \A i \in Middle : Ours(rar[i]) => Ours(rar[i])'
      /\ Clean' = Clean /\ (~Many => (Heard => Heard'))
  <2>1. UNCHANGED Entries
    BY EntriesKept DEF Known
  <2> QED
    BY <1>1, <2>1, ListSame DEF Heard, Inside
<1>4. (FlagsRead(t) => FlagsRead(t)') /\ Above(t)'
  <2>1. Above(t)'
    <3>1. ASSUME setup.kind # "pch2", NEW i \in Middle, i > Available PROVE Ours(rar[i])'
      BY <1>3, <3>1, UncountedAreOurs DEF Known
    <3>2. UNCHANGED <<setup.kind, Middle>>
      BY SetupKept, EntriesKept DEF Known, Middle
    <3> QED
      BY <1>2, <3>1, <3>2 DEF Above
  <2>2. setup.kind \notin {"pch2", "lpt"} => Many' = Many
    BY <1>1, ManyKept DEF Known
  <2>3. setup'.kind = setup.kind
    BY SetupKept DEF Known
  <2> QED
    BY <1>1, <1>2, <2>1, <2>2, <2>3 DEF FlagsRead, Asked, Due
<1>5. CASE t = "stack"
  <2>1. StackCalls
    BY <1>1, <1>5 DEF StackCalls, Calling, Listing, Threads
  <2>2. StackInv'
    BY <1>1, <1>2, <1>4, <1>5 DEF StackInv, CallsInv
  <2>3. MeetInv'
    BY <1>1, <1>2, <1>3, <1>5 DEF CallsInv, MeetInv, Undisturbed, Threads, PostMta
  <2> QED
    BY <2>1, <2>2, <2>3, StackCallKeeps
<1>6. CASE t = "reset"
  <2>1. ResetCalls
    BY <1>1, <1>3, <1>6 DEF ResetCalls, Threads
  <2>2. ResetInv'
    BY <1>1, <1>2, <1>4, <1>6 DEF ResetInv, PostMta, CallsInv, Threads
  <2>3. MeetInv'
    BY <1>1, <1>2, <1>3, <1>6 DEF MeetInv, CallsInv, Rewritten, PostMta, Threads
  <2> QED
    BY <2>1, <2>2, <2>3, ResetCallKeeps
<1> QED
  BY <1>5, <1>6 DEF Threads

\* The list is written and all of it heard, unless it had grown; if an entry fails, the
\* unicast mode is set instead.
LEMMA EntriesKeep ==
  ASSUME Known, CallsInv, [FilterNext]_vars, NEW t \in Threads,
         WriteEntries(t) \/ \E n \in 0..setup.slots : EntriesFail(t, n)
  PROVE  CallsInv'
<1> DEFINE avail == loc[t].avail
<1>0. /\ DOMAIN pc = Threads /\ loc \in [Threads -> Locals] /\ setup.slots \in Nat
      /\ UNCHANGED <<setup.kind, setup.slots, HasLaa, Middle, Entries>>
      /\ Entries = 0..setup.slots
  BY SetupKept, EntriesKept
  DEF Known, Typed, StateTyped, SetupTyped, FilterSetup, Middle, Entries
<1>1. /\ pc[t] = "entries" /\ pc'[t] = "write"
      /\ UNCHANGED <<uc, mc, flags, rctl, mta, stale>>
      /\ loc'[t].rctl.mpe = loc[t].rctl.mpe
      /\ \A o \in Threads \ {t} : pc'[o] = pc[o] /\ loc'[o] = loc[o]
  <2>1. CASE WriteEntries(t)
    BY <2>1, <1>0 DEF WriteEntries, Goto, keptByRxMode, netVars
  <2>2. CASE \E n \in 0..setup.slots : EntriesFail(t, n)
    BY <2>2, <1>0 DEF EntriesFail, Goto, netVars, Locals, Rctl
  <2> QED
    BY <2>1, <2>2
<1>2. avail \in 0..setup.slots /\ avail \in Nat
  <2>1. avail \in 0..(IF HasLaa THEN setup.slots - 1 ELSE setup.slots)
    BY <1>1 DEF Known, StationInv
  <2> QED
    BY <2>1, <1>0
<1> HIDE DEF avail
<1>3. \A i \in Entries : rar'[i] = rar[i] \/ rar'[i] \in uc \cup {NoAddr}
  <2>1. CASE WriteEntries(t)
    <3>1. rar' = rar \/ rar' = Zeroed(avail)
      BY <2>1 DEF WriteEntries, avail
    <3> QED
      BY <3>1, <1>0, <1>2, ZeroedAt DEF Known
  <2>2. ASSUME NEW n \in 0..setup.slots, EntriesFail(t, n)
        PROVE  \A i \in Entries : rar'[i] = rar[i] \/ rar'[i] \in uc \cup {NoAddr}
    <3>1. rar' = rar \/ rar' = Programmed(avail, n)
      BY <2>2 DEF EntriesFail, avail
    <3>2. n \in 0..Room(avail)
      BY <2>2, <1>0, <1>2, RoomType DEF EntriesFail, avail, Known
    <3> QED
      BY <3>1, <3>2, <1>2, ProgrammedAt DEF Known
  <2> QED
    BY <2>1, <2>2
<1>4. \A i \in Middle : Ours(rar[i]) => Ours(rar[i])'
  BY <1>0, <1>1, <1>3 DEF Middle, Ours
<1>5. Clean => Clean'
  BY <1>0, <1>4 DEF Clean
<1>6. ASSUME ~loc'[t].rctl.upe, Awake
      PROVE  /\ Heard' /\ (Above(t) => Clean')
             /\ loc'[t].rctl.upe = loc[t].rctl.upe
  <2>1. WriteEntries(t)
    BY <1>0, <1>6 DEF EntriesFail, Locals, Rctl
  <2>2. rar' = Zeroed(avail) /\ loc' = loc /\ lost' = (lost \ {"list"}) \cup CutShort(avail)
    BY <2>1, <1>6 DEF WriteEntries, avail
  <2>3. Heard'
    <3>1. CASE Cardinality(uc) > avail
      BY <2>2, <3>1 DEF CutShort, Heard
    <3>2. CASE Cardinality(uc) <= avail
      <4>1. \A a \in uc : \E i \in Entries : rar'[i] = a
        BY <1>2, <2>2, <3>2, ZeroedAt DEF Known
      <4> QED
        BY <4>1, <1>0, <1>1 DEF Heard, Inside
    <3> QED
      BY <1>2, <3>1, <3>2, ListsAreNumbers DEF Known
  <2>4. Above(t) => Clean'
    <3>1. ASSUME setup.kind # "pch2", Above(t), NEW i \in Middle PROVE Ours(rar[i])'
      <4>1. i \in Entries /\ i \in Nat /\ i # 0
        BY <1>0 DEF Middle
      <4>2. CASE i <= avail
        BY <1>1, <1>2, <2>2, <3>1, <4>1, <4>2, ZeroedAt DEF Known, Ours
      <4>3. CASE i > avail
        BY <1>1, <1>2, <2>2, <3>1, <4>1, <4>3, ZeroedAt DEF Known, Ours, Above, avail
      <4> QED
        BY <1>2, <4>1, <4>2, <4>3
    <3> QED
      BY <1>0, <3>1 DEF Clean
  <2> QED
    BY <2>2, <2>3, <2>4
<1>7. (FlagsRead(t) => FlagsRead(t)') /\ Above(t)'
  <2>1. loc'[t].rctl.upe \/ loc'[t].rctl.upe = loc[t].rctl.upe
    BY <1>0 DEF WriteEntries, EntriesFail, Locals, Rctl
  <2>2. setup.kind \notin {"pch2", "lpt"} => loc' = loc
    BY DEF WriteEntries, EntriesFail, Known, RarInv
  <2>3. setup.kind \notin {"pch2", "lpt"} => Many' = Many
    BY <1>1, ManyKept DEF Known
  <2> QED
    BY <1>0, <1>1, <2>1, <2>2, <2>3 DEF FlagsRead, Asked, Due, Above
<1>8. CASE t = "stack"
  <2>1. StackCalls
    BY <1>1, <1>8 DEF StackCalls, Calling, Listing, Threads
  <2>2. StackInv'
    BY <1>1, <1>5, <1>6, <1>7, <1>8 DEF StackInv, CallsInv, Threads, Awake
  <2>3. MeetInv'
    BY <1>1, <1>6, <1>8
    DEF CallsInv, MeetInv, Undisturbed, Threads, PostMta, Rewritten, Awake
  <2> QED
    BY <2>1, <2>2, <2>3, StackCallKeeps
<1>9. CASE t = "reset"
  <2>0. Awake
    BY <1>1, <1>9 DEF Awake
  <2>1. ResetCalls
    BY <1>1, <1>4, <1>9 DEF ResetCalls, Threads
  <2>2. ResetInv'
    BY <1>1, <1>6, <1>7, <1>9, <2>0 DEF ResetInv, PostMta, CallsInv, Threads
  <2>3. MeetInv'
    BY <1>1, <1>6, <1>9, <2>0 DEF MeetInv, CallsInv, Rewritten, PostMta, Threads
  <2> QED
    BY <2>1, <2>2, <2>3, ResetCallKeeps
<1> QED
  BY <1>8, <1>9 DEF Threads

\* What modes are asked for, and why, does not change with the registers.
LEMMA GoodKept ==
  ASSUME Known, [FilterNext]_vars, UNCHANGED <<uc, mc, flags, rar, mta, taken>>,
         "list" \in lost' <=> "list" \in lost
  PROVE  /\ \A i \in Middle : Ours(rar[i]) => Ours(rar[i])'
         /\ Clean' = Clean /\ (Heard' <=> Heard) /\ setup'.kind = setup.kind
         /\ setup.kind \notin {"pch2", "lpt"} => Many' = Many
<1>1. UNCHANGED <<setup.kind, setup.slots, HasLaa, Middle, Entries>>
  BY SetupKept, EntriesKept DEF Known, Middle
<1>2. Heard' <=> Heard
  BY <1>1 DEF Heard, Inside
<1> QED
  BY <1>1, <1>2, ListSame, ManyKept DEF Known

\* The modes are written: the stack's last step makes a reset's call stale, and the other way
\* round.
LEMMA WriteModesKeeps ==
  ASSUME Known, CallsInv, [FilterNext]_vars, NEW t \in Threads, WriteModes(t)
  PROVE  CallsInv'
<1>0. DOMAIN pc = Threads /\ loc \in [Threads -> Locals]
  BY DEF Known, Typed, StateTyped
<1>1. /\ pc[t] = "write" /\ pc'[t] = (IF t = "stack" THEN "idle" ELSE "restore")
      /\ UNCHANGED <<uc, mc, flags, rar, mta, taken, loc>>
      /\ rctl' = (IF Awake THEN loc[t].rctl ELSE rctl) /\ stale' = (stale \cup Threads) \ {t}
      /\ lost' = (lost \ {"modes"}) \cup Undone(t)
      /\ \A o \in Threads \ {t} : pc'[o] = pc[o]
  BY <1>0 DEF WriteModes, WriteRctl, Goto, keptByRxMode, netVars
<1>2. "list" \in lost' <=> "list" \in lost
  BY <1>1 DEF Undone
<1>3. /\ \A i \in Middle : Ours(rar[i]) => Ours(rar[i])'
      /\ Clean' = Clean /\ (Heard' <=> Heard) /\ setup'.kind = setup.kind
      /\ setup.kind \notin {"pch2", "lpt"} => Many' = Many
  BY <1>1, <1>2, GoodKept
<1>4. ASSUME NEW r PROVE Good(r) => Good(r)'
  BY <1>1, <1>3 DEF Good, Asked, Due
<1>5. CASE t = "stack"
  <2>1. StackInv'
    BY <1>1, <1>5 DEF StackInv, FlagsRead, Above
  <2>2. ResetInv'
    BY <1>1, <1>5 DEF ResetInv, Threads
  <2>3. MeetInv'
    BY <1>1, <1>5 DEF MeetInv, Undisturbed, PostMta, Threads
  <2>4. ModesInv'
    <3> SUFFICES ASSUME pc["reset"] \in Rewritten, "modes" \notin lost'
                 PROVE  Good(rctl)'
      BY <1>1, <1>5 DEF ModesInv, Threads
    <3>1. Awake /\ rctl' = loc["stack"].rctl
      BY <1>1, <1>5 DEF Awake, Rewritten
    <3>2. ~("stack" \in stale /\ \E m \in {"upe", "mpe"} : rctl[m] /\ ~loc["stack"].rctl[m])
      BY <1>1, <1>5, <3>1 DEF Undone
    <3>3. Good(loc["stack"].rctl)
      BY <1>1, <1>5, <3>2
      DEF CallsInv, StackInv, MeetInv, FlagsRead, Good, Rewritten, PostMta
    <3>4. Good(loc["stack"].rctl)'
      BY <1>1, <1>4, <3>3
    <3> QED
      BY <1>1, <3>1, <3>4
  <2> QED
    BY <2>1, <2>2, <2>3, <2>4 DEF CallsInv
<1>6. CASE t = "reset"
  <2>1. StackInv'
    <3>1. /\ FlagsRead("stack") => FlagsRead("stack")'
          /\ Above("stack") => Above("stack")'
      BY <1>1, <1>3, <1>6, OtherKept DEF Threads
    <3> QED
      BY <1>1, <1>3, <1>6, <3>1 DEF CallsInv, StackInv, Threads
  <2>2. ResetInv'
    BY <1>1, <1>6 DEF ResetInv, FlagsRead, Above, PostMta
  <2>3. MeetInv'
    BY <1>1, <1>3, <1>6 DEF CallsInv, MeetInv, PostMta, Threads, Awake
  <2>4. ModesInv'
    <3> SUFFICES ASSUME pc["stack"] \notin Calling, "modes" \notin lost'
                 PROVE  Good(rctl)'
      BY <1>1, <1>6 DEF ModesInv, Threads
    <3>1. Awake /\ rctl' = loc["reset"].rctl
      BY <1>1, <1>6 DEF Awake
    <3>2. "reset" \notin stale
      BY <1>1, <1>6, <3>1 DEF Undone, Threads
    <3>3. Good(loc["reset"].rctl)
      BY <1>1, <1>6, <3>2 DEF CallsInv, ResetInv, FlagsRead, Good, PostMta
    <3>4. Good(loc["reset"].rctl)'
      BY <1>1, <1>4, <3>3
    <3> QED
      BY <1>1, <3>1, <3>4
  <2> QED
    BY <2>1, <2>2, <2>3, <2>4 DEF CallsInv
<1> QED
  BY <1>5, <1>6 DEF Threads

\* The stack calls, or finds the adapter asleep.
LEMMA ChangeRxKeeps ==
  ASSUME Known, CallsInv, [FilterNext]_vars, NEW u, NEW m, NEW f, ChangeRx(u, m, f)
  PROVE  CallsInv'
<1>1. /\ pc["stack"] = "idle" /\ pc'["stack"] = (IF Awake THEN "rxmode" ELSE "idle")
      /\ pc'["reset"] = pc["reset"] /\ UNCHANGED <<rctl, loc, stale>>
  BY DEF ChangeRx, Goto, Threads, regVars, keptByStack, Known, Typed, StateTyped
<1>2. StackInv'
  BY <1>1 DEF StackInv, FlagsRead, Above
<1>3. ResetInv'
  BY <1>1 DEF ResetInv, Calling, Listing, Awake, FlagsRead, Above, PostMta
<1>4. MeetInv'
  BY <1>1 DEF CallsInv, MeetInv, PostMta, Undisturbed
<1>5. ModesInv'
  BY <1>1 DEF ModesInv, Calling, Listing, Awake, Rewritten
<1> QED
  BY <1>2, <1>3, <1>4, <1>5 DEF CallsInv

\* The rest of a reset leaves the modes alone, or writes back what it has read.
LEMMA LateKeeps ==
  ASSUME Known, CallsInv, [FilterNext]_vars, RestoreVlan \/ SetupRctl \/ ReadRctlAgain \/ Enable
  PROVE  CallsInv'
<1>0. DOMAIN pc = Threads /\ loc \in [Threads -> Locals] /\ rctl \in Rctl
  BY DEF Known, Typed, StateTyped
<1>1. /\ pc["reset"] \in {"restore", "setup", "readrctl", "enable"}
      /\ pc'["reset"] \in {"setup", "readrctl", "enable", "idle"}
      /\ pc'["stack"] = pc["stack"] /\ loc'["stack"] = loc["stack"]
      /\ UNCHANGED <<uc, mc, flags, rar, mta, taken>>
      /\ "list" \in lost' <=> "list" \in lost
      /\ "stack" \in stale => "stack" \in stale'
  BY <1>0 DEF RestoreVlan, SetupRctl, ReadRctlAgain, Enable, Goto, keptByReset, netVars, Threads,
    StopReceiver, WriteRctl, Undone
<1>2. /\ \A i \in Middle : Ours(rar[i]) => Ours(rar[i])'
      /\ Clean' = Clean /\ (Heard' <=> Heard) /\ setup'.kind = setup.kind
      /\ setup.kind \notin {"pch2", "lpt"} => Many' = Many
  BY <1>1, GoodKept
<1>3. StackInv'
  <2>1. /\ FlagsRead("stack") => FlagsRead("stack")'
        /\ Above("stack") => Above("stack")'
    BY <1>1, <1>2, OtherKept DEF Threads
  <2> QED
    BY <1>1, <1>2, <2>1 DEF CallsInv, StackInv
<1>4. ResetInv'
  BY <1>1 DEF ResetInv, FlagsRead, Above, PostMta
<1>5. CASE RestoreVlan \/ SetupRctl \/ ReadRctlAgain
  <2>1. /\ rctl'.upe = rctl.upe /\ rctl'.mpe = rctl.mpe /\ ("modes" \in lost => "modes" \in lost')
    BY <1>5, <1>0 DEF RestoreVlan, SetupRctl, ReadRctlAgain, StopReceiver, WriteRctl, Rctl
  <2>2. pc'["reset"] = "enable" =>
          loc'["reset"].rctl.upe = rctl'.upe /\ loc'["reset"].rctl.mpe = rctl'.mpe
    BY <1>5, <1>0 DEF RestoreVlan, SetupRctl, ReadRctlAgain, StopReceiver, WriteRctl, Rctl, Goto,
      Threads, Locals
  <2>3. MeetInv'
    BY <1>1, <1>2, <2>1, <2>2 DEF CallsInv, MeetInv, PostMta, Rewritten
  <2>4. ModesInv'
    BY <1>1, <1>2, <2>1 DEF CallsInv, ModesInv, Rewritten, Good, Asked, Due
  <2> QED
    BY <1>3, <1>4, <2>3, <2>4 DEF CallsInv
<1>6. CASE Enable
  <2>1. /\ pc["reset"] = "enable" /\ pc'["reset"] = "idle" /\ rctl' = loc["reset"].rctl
        /\ "stack" \in stale'
        /\ ("modes" \in lost \/ "reset" \in stale => "modes" \in lost')
    BY <1>6, <1>0 DEF Enable, Goto, WriteRctl, Awake, Undone, Threads
  <2>2. MeetInv'
    BY <1>1, <1>2, <2>1 DEF CallsInv, MeetInv, PostMta, Rewritten, Undisturbed
  <2>3. ModesInv'
    BY <1>1, <1>2, <2>1 DEF CallsInv, ModesInv, MeetInv, Rewritten, Good, Asked, Due
  <2> QED
    BY <1>3, <1>4, <2>2, <2>3 DEF CallsInv
<1> QED
  BY <1>5, <1>6

\* Calls of the stack and of a reset, in whatever order their steps come.
LEMMA CallsKept ==
  ASSUME Known, CallsInv, [FilterNext]_vars
  PROVE  CallsInv'
<1>1. ASSUME NEW t \in Threads, SetRxMode(t) PROVE CallsInv'
  BY <1>1, ReadModesKeeps, WriteMtaKeeps, FilterVlansKeeps, CountKeeps, EntriesKeep,
    WriteModesKeeps DEF SetRxMode
<1>2. CASE Stack
  BY <1>2, ChangeRxKeeps, QuietSteps, QuietKeeps DEF Stack
<1>3. CASE Down \/ HwReset \/ SetLaaState \/ ReadAddr \/ InitHw \/ ManageVlan \/ CleanRings
             \/ Sleep \/ Wake \/ ResetTask
  BY <1>3, EarlySteps, EarlyKeeps, QuietSteps, QuietKeeps
<1>4. CASE RestoreVlan \/ SetupRctl \/ ReadRctlAgain \/ Enable
  BY <1>4, LateKeeps
<1>5. CASE WatchdogStart \/ Watchdog \/ OtherPortResets \/ LinkInterrupt \/ UNCHANGED vars
  BY <1>5, QuietSteps, QuietKeeps DEF Watchdog
<1>6. ASSUME NEW e \in Locks, MeTakes(e) PROVE CallsInv'
  BY <1>6, MeTakesQuiet, QuietKeeps
<1> QED
  BY <1>1, <1>2, <1>3, <1>4, <1>5, <1>6 DEF FilterNext, Reset, Environment
-----------------------------------------------------------------------------
(* The entries of the own address, the VLANs, and the theorems.            *)

\* The entries of the driver's own address hold it, the NVM's or nothing, unless the stack is
\* about to write it or the address of before was put back.
StationClean ==
  pc["reset"] \notin {"asleep", "hwreset"} =>
    /\ rar[0] \in {addr, Permanent} \/ pc["stack"] = "mac" \/ "mac" \in lost
    /\ HasLaa => rar[setup.slots] \in {addr, NoAddr} \/ pc["stack"] \in {"mac", "laa"}

\* Whoever writes the address, nobody leaves another one behind.
LEMMA StationCleanKept ==
  ASSUME Known, StationClean, [FilterNext]_vars
  PROVE  StationClean'
<1>0. /\ DOMAIN pc = Threads /\ loc \in [Threads -> Locals] /\ DOMAIN rar = Entries
      /\ UNCHANGED <<Entries, HasLaa, setup.kind, setup.slots>>
      /\ setup.slots \in Nat /\ Entries = 0..setup.slots /\ (HasLaa => setup.slots > 0)
      /\ (HasLaa => setup.kind = "82571")
  BY SetupKept, EntriesKept
  DEF Known, Typed, StateTyped, SetupTyped, HasLaa, FilterSetup, Entries
<1>a. ASSUME UNCHANGED addr, UNCHANGED <<rar[0], rar[setup.slots]>>,
             pc'["stack"] = pc["stack"] \/ pc["stack"] \notin {"mac", "laa"},
             "mac" \in lost => "mac" \in lost',
             pc["reset"] \in {"asleep", "hwreset"} => pc'["reset"] \in {"asleep", "hwreset"}
      PROVE  StationClean'
  BY <1>a, <1>0 DEF StationClean
<1>b. ASSUME UNCHANGED <<addr, rar>>,
             pc'["stack"] = pc["stack"] \/ pc["stack"] \notin {"mac", "laa"},
             "mac" \in lost => "mac" \in lost',
             pc["reset"] \in {"asleep", "hwreset"} => pc'["reset"] \in {"asleep", "hwreset"}
      PROVE  StationClean'
  BY <1>a, <1>b, <1>0
<1> USE DEF Goto, Threads
<1>1. ASSUME NEW t \in Threads, ReadModes(t) \/ WriteMta(t) \/ MtaNoMemory(t) \/ FilterVlans(t)
               \/ Count(t) \/ WriteModes(t) PROVE StationClean'
  BY <1>1, <1>b, <1>0 DEF ReadModes, WriteMta, MtaNoMemory, FilterVlans, Count, WriteModes,
    keptByRxMode, netVars, regVars, ghosts, Undone
<1>2. ASSUME NEW t \in Threads, WriteEntries(t) PROVE StationClean'
  <2> DEFINE avail == loc[t].avail
  <2>1. avail \in 0..(IF HasLaa THEN setup.slots - 1 ELSE setup.slots)
    BY <1>2 DEF WriteEntries, StationInv, Known
  <2>2. avail \in 0..setup.slots /\ (HasLaa => setup.slots > avail)
    BY <2>1, <1>0
  <2>3. rar' = Zeroed(avail) \/ rar' = rar
    BY <1>2 DEF WriteEntries
  <2>4. /\ UNCHANGED addr /\ ("mac" \in lost => "mac" \in lost') /\ pc[t] = "entries"
        /\ pc' = [pc EXCEPT ![t] = "write"]
    BY <1>2 DEF WriteEntries, keptByRxMode, netVars
  <2> HIDE DEF avail
  <2>5. rar'[0] = rar[0] /\ (HasLaa => rar'[setup.slots] = rar[setup.slots])
    BY <2>2, <2>3, <1>0, ZeroedAt DEF Known
  <2> QED
    BY <2>4, <2>5, <1>0 DEF StationClean
<1>3. ASSUME NEW t \in Threads, NEW n \in 0..setup.slots, EntriesFail(t, n) PROVE StationClean'
  <2> DEFINE avail == loc[t].avail
  <2>1. avail \in 0..(IF HasLaa THEN setup.slots - 1 ELSE setup.slots)
    BY <1>3 DEF EntriesFail, StationInv, Known
  <2>2. avail \in 0..setup.slots /\ Room(avail) \in 0..avail /\ (HasLaa => setup.slots > avail)
    BY <2>1, <1>0, RoomType DEF Known
  <2>3. /\ n \in 0..avail /\ (rar' = Programmed(avail, n) \/ rar' = rar)
        /\ UNCHANGED <<addr, lost>> /\ pc[t] = "entries" /\ pc' = [pc EXCEPT ![t] = "write"]
    BY <1>3, <1>0, <2>2 DEF EntriesFail, netVars
  <2> HIDE DEF avail
  <2>5. rar'[0] = rar[0] /\ (HasLaa => rar'[setup.slots] = rar[setup.slots])
    BY <2>2, <2>3, <1>0, ProgrammedKeeps DEF Known
  <2> QED
    BY <2>3, <2>5, <1>0 DEF StationClean
<1>4. ASSUME NEW u, NEW m, NEW f, ChangeRx(u, m, f) PROVE StationClean'
  BY <1>4, <1>0, <1>b DEF ChangeRx, regVars, keptByStack
<1>5. ASSUME NEW v, AddVid(v) \/ KillVid(v) PROVE StationClean'
  BY <1>5, <1>0, <1>b DEF AddVid, KillVid, keptByStack
<1>6. ASSUME NEW a \in Stations, SetMac(a) PROVE StationClean'
  BY <1>6, <1>0 DEF SetMac, StationClean
<1>7. CASE SetActive
  BY <1>7, <1>0, <1>b DEF SetActive, regVars, netVars, keptByStack
<1>8. CASE WriteStation
  BY <1>8, <1>0 DEF WriteStation, StationClean, netVars, Awake
<1>9. CASE WriteLaa
  <2>1. /\ HasLaa /\ pc["stack"] = "laa" /\ pc'["reset"] = pc["reset"] /\ UNCHANGED <<addr, lost>>
        /\ rar' = IF Awake THEN [rar EXCEPT ![setup.slots] = addr] ELSE rar
    BY <1>9, <1>0 DEF WriteLaa, netVars, keptByStack, Known, StationInv
  <2>2. pc["reset"] \notin {"asleep", "hwreset"} =>
          rar'[0] = rar[0] /\ rar'[setup.slots] = addr
    BY <2>1, <1>0 DEF Awake
  <2> QED
    BY <2>1, <2>2, <1>0 DEF StationClean
<1>10. CASE HwReset
  <2>1. locked = {} \/ ~HasLaa
    BY <1>0 DEF Known, RarInv
  <2>2. rar' = [i \in Entries |-> IF i = 0 THEN Permanent
                                  ELSE IF i \in locked THEN rar[i] ELSE NoAddr]
    BY <1>10 DEF HwReset
  <2>3. rar'[0] = Permanent /\ (HasLaa => rar'[setup.slots] = NoAddr)
    BY <2>1, <2>2, <1>0
  <2> QED
    BY <1>0, <2>3 DEF StationClean
<1>11. CASE SetLaaState
  BY <1>11, <1>0 DEF SetLaaState, StationClean, keptByReset, netVars, ghosts, Known, RestTyped
<1>12. CASE InitHw
  <2>1. /\ rar' = InitRxAddrs(loc["reset"].addr) /\ UNCHANGED addr /\ pc["reset"] = "init"
        /\ pc'["stack"] = pc["stack"]
        /\ loc["reset"].addr = addr \/ "mac" \in lost' \/ pc["stack"] = "mac"
    BY <1>12, <1>0 DEF InitHw, keptByReset, netVars
  <2>0. 0 \notin locked
    BY DEF Known, Typed, StateTyped
  <2>2. /\ rar'[0] = loc["reset"].addr
        /\ HasLaa => rar'[setup.slots] = rar[setup.slots]
    BY <2>0, <2>1, <1>0 DEF InitRxAddrs
  <2>3. HasLaa => rar[setup.slots] \in {addr, NoAddr} \/ pc["stack"] \in {"mac", "laa"}
    BY <2>1 DEF StationClean
  <2> QED
    BY <2>1, <2>2, <2>3, <1>0 DEF StationClean
<1>13. CASE Down \/ Sleep \/ Wake \/ ResetTask \/ ReadAddr \/ ManageVlan \/ CleanRings
             \/ RestoreVlan \/ SetupRctl \/ ReadRctlAgain \/ Enable
  BY <1>13, <1>0, <1>b DEF Down, Sleep, Wake, ResetTask, ReadAddr, ManageVlan, CleanRings,
    RestoreVlan, SetupRctl, ReadRctlAgain, Enable, keptByReset, netVars, regVars, ghosts, Mislaid,
    Undone
<1>14. ASSUME WatchdogStart \/ EnableReceives \/ \E c \in Cookies : ReadCookie(c)
       PROVE  StationClean'
  <2>1. /\ UNCHANGED <<addr, pc>> /\ ("mac" \in lost => "mac" \in lost' \/ rar'[0] = addr)
        /\ rar' = rar \/ (HasLaa /\ rar' = [rar EXCEPT ![0] = addr])
    BY <1>14, <1>0 DEF WatchdogStart, EnableReceives, ReadCookie, RepairLaa, Mislaid,
      keptByWatchdog, netVars
  <2> QED
    BY <2>1, <1>0 DEF StationClean
<1>15. CASE OtherPortResets
  BY <1>15, <1>0 DEF OtherPortResets, StationClean, netVars, ghosts
<1>16. CASE LinkInterrupt
  BY <1>16, <1>b DEF LinkInterrupt, netVars
<1>17. ASSUME NEW e \in Locks, MeTakes(e) PROVE StationClean'
  <2>1. /\ rar' = [i \in Entries |-> IF i \in e \ locked THEN MeAddr ELSE rar[i]]
        /\ UNCHANGED <<addr, pc, lost>>
    BY <1>17 DEF MeTakes, netVars
  <2>2. 0 \notin e /\ (HasLaa => e = {})
    BY <1>0 DEF Locks
  <2> QED
    BY <2>1, <2>2, <1>0 DEF StationClean
<1>18. CASE UNCHANGED vars
  BY <1>18, <1>b DEF vars, netVars, regVars, ghosts
<1> QED
  BY <1>1, <1>2, <1>3, <1>4, <1>5, <1>6, <1>7, <1>8, <1>9, <1>10, <1>11, <1>12, <1>13, <1>14,
    <1>15, <1>16, <1>17, <1>18
  DEF FilterNext, SetRxMode, Stack, Reset, Watchdog, Environment

\* A VLAN of the stack's is in active_vlans, or the stack is about to put it there, and it is
\* in the table once a reset has restored it.
VlanInv ==
  /\ cookie \in managed \cup {NoVid} /\ mngVid \in managed \cup {NoVid}
  /\ pc["stack"] = "killactive" => loc["stack"].vid \notin vlans
  /\ \A v \in vlans \ managed : v \in active \/ (pc["stack"] = "addactive" /\ loc["stack"].vid = v)
  /\ HasVlanFilter /\ pc["reset"] \in {"setup", "readrctl", "enable", "idle"} /\ ~torn =>
       vlans \ managed \subseteq vfta

\* What the engine gives up or takes over was never the stack's.
LEMMA VlanKept ==
  ASSUME Known, VlanInv, [FilterNext]_vars
  PROVE  VlanInv'
<1>0. /\ DOMAIN pc = Threads /\ loc \in [Threads -> Locals]
      /\ HasVlanFilter' = HasVlanFilter
      /\ \A v \in setup.vids : v # NoVid
      /\ vlans \subseteq setup.vids
      /\ pc["stack"] \in {"addactive", "killactive"} => loc["stack"].vid \in setup.vids
  BY SetupKept, FilterAssumption
  DEF Known, Typed, StateTyped, SetupTyped, HasVlanFilter, FilterSetup, RestTyped
<1>a. ASSUME UNCHANGED <<vlans, active, vfta, cookie, mngVid, managed>>,
             loc'["stack"].vid = loc["stack"].vid,
             \/ pc'["stack"] = pc["stack"]
             \/ /\ pc["stack"] \notin {"addactive", "killactive"}
                /\ pc'["stack"] \notin {"addactive", "killactive"},
             torn' = torn,
             \/ pc'["reset"] \notin {"setup", "readrctl", "enable", "idle"}
             \/ pc["reset"] \in {"setup", "readrctl", "enable", "idle"}
      PROVE  VlanInv'
  BY <1>a, <1>0 DEF VlanInv
<1> USE DEF Goto, Threads
<1>1. ASSUME NEW t \in Threads, ReadModes(t) \/ WriteMta(t) \/ MtaNoMemory(t)
               \/ Count(t) \/ WriteModes(t) PROVE VlanInv'
  BY <1>1, <1>a, <1>0 DEF ReadModes, WriteMta, MtaNoMemory, Count, WriteModes,
    keptByRxMode, netVars, regVars, vlanVars, ghosts, Locals
<1>2. ASSUME NEW t \in Threads, WriteEntries(t) PROVE VlanInv'
  BY <1>2, <1>a, <1>0 DEF WriteEntries, keptByRxMode, netVars
<1>3. ASSUME NEW t \in Threads, NEW n \in 0..setup.slots, EntriesFail(t, n) PROVE VlanInv'
  BY <1>3, <1>a, <1>0 DEF EntriesFail, netVars, Locals
<1>19. ASSUME NEW t \in Threads, FilterVlans(t) PROVE VlanInv'
  <2>1. /\ pc[t] = "vfe" /\ pc' = [pc EXCEPT ![t] = IF loc[t].rctl.upe THEN "write" ELSE "count"]
        /\ UNCHANGED <<vlans, cookie, managed, loc, torn>>
        /\ mngVid' \in {mngVid, NoVid}
    BY <1>19 DEF FilterVlans, keptByRxMode, netVars
  <2>2. active \ {mngVid} \subseteq active' /\ vfta \ {mngVid} \subseteq vfta'
    BY <1>19 DEF FilterVlans, KilledIn
  <2> QED
    BY <2>1, <2>2, <1>0 DEF VlanInv
<1>4. ASSUME NEW u, NEW m, NEW f, ChangeRx(u, m, f) PROVE VlanInv'
  BY <1>4, <1>0, <1>a DEF ChangeRx, regVars, keptByStack
<1>5. ASSUME NEW v \in setup.vids, AddVid(v) PROVE VlanInv'
  BY <1>5, <1>0 DEF AddVid, keptByStack, VlanInv, Locals, Awake
<1>20. ASSUME NEW v \in setup.vids, KillVid(v) PROVE VlanInv'
  BY <1>20, <1>0 DEF KillVid, keptByStack, KilledIn, VlanInv, Locals, Awake
<1>6. ASSUME NEW a \in Stations, SetMac(a) PROVE VlanInv'
  BY <1>6, <1>0, <1>a DEF SetMac, regVars, keptByStack
<1>7. CASE SetActive
  BY <1>7, <1>0 DEF SetActive, regVars, netVars, keptByStack, VlanInv
<1>8. CASE WriteStation
  BY <1>8, <1>0, <1>a DEF WriteStation, netVars
<1>9. CASE WriteLaa
  BY <1>9, <1>0, <1>a DEF WriteLaa, netVars, keptByStack
<1>10. CASE HwReset \/ SetLaaState \/ InitHw
  BY <1>10, <1>0 DEF HwReset, SetLaaState, InitHw, VlanInv, keptByReset, netVars, ghosts
<1>11. CASE ManageVlan
  <2>1. /\ pc["reset"] = "manage" /\ pc' = [pc EXCEPT !["reset"] = "rings"]
        /\ UNCHANGED <<vlans, cookie, managed, loc, torn>>
        /\ mngVid' \in {mngVid, cookie} /\ active \ {mngVid} \subseteq active'
    BY <1>11 DEF ManageVlan, UpdateMng, keptByReset, netVars
  <2> QED
    BY <2>1, <1>0 DEF VlanInv
<1>12. CASE RestoreVlan
  <2>1. /\ pc["reset"] = "restore" /\ pc' = [pc EXCEPT !["reset"] = "setup"]
        /\ UNCHANGED <<vlans, cookie, managed, mngVid, loc>> /\ torn' = (pc["stack"] = "addactive")
        /\ active \subseteq active' /\ (HasVlanFilter => active \ {cookie} \subseteq vfta')
    BY <1>12 DEF RestoreVlan, keptByReset, netVars
  <2> QED
    BY <2>1, <1>0 DEF VlanInv
<1>13. CASE Down \/ Sleep \/ Wake \/ ResetTask \/ ReadAddr \/ CleanRings
             \/ SetupRctl \/ ReadRctlAgain \/ Enable
  BY <1>13, <1>0, <1>a DEF Down, Sleep, Wake, ResetTask, ReadAddr, CleanRings,
    SetupRctl, ReadRctlAgain, Enable, keptByReset, netVars, regVars, ghosts, Locals
<1>14. CASE WatchdogStart \/ EnableReceives
  BY <1>14, <1>0, <1>a DEF WatchdogStart, EnableReceives, keptByWatchdog, netVars, vlanVars
<1>21. ASSUME NEW c \in Cookies, ReadCookie(c) PROVE VlanInv'
  <2>1. /\ UNCHANGED <<vlans, pc, loc, torn>> /\ cookie' = c
        /\ managed' = managed \cup ({c} \ {NoVid}) /\ mngVid' \in {mngVid, c}
        /\ active \ {mngVid} \subseteq active'
        /\ pc["reset"] # "asleep" => vfta \ {mngVid} \subseteq vfta'
    BY <1>21 DEF ReadCookie, UpdateMng, keptByWatchdog, netVars, Awake
  <2> QED
    BY <2>1, <1>0 DEF VlanInv
<1>15. CASE OtherPortResets
  BY <1>15, <1>0, <1>a DEF OtherPortResets, netVars, ghosts, vlanVars
<1>16. CASE LinkInterrupt
  BY <1>16, <1>a DEF LinkInterrupt, netVars, vlanVars
<1>17. ASSUME NEW e \in Locks, MeTakes(e) PROVE VlanInv'
  BY <1>17, <1>a DEF MeTakes, netVars, vlanVars
<1>18. CASE UNCHANGED vars
  BY <1>18, <1>a DEF vars, netVars, regVars, vlanVars, ghosts
<1> QED
  BY <1>1, <1>2, <1>3, <1>4, <1>5, <1>6, <1>7, <1>8, <1>9, <1>10, <1>11, <1>12, <1>13, <1>14,
    <1>15, <1>16, <1>17, <1>18, <1>19, <1>20, <1>21
  DEF FilterNext, SetRxMode, Stack, Reset, Watchdog, Environment

\* The engine's VLAN: the one that counts as programmed is the cookie's, or was mislaid, and
\* from the clearing of the 82574's table on it is in there.
MngInv ==
  /\ mngVid = NoVid \/ mngVid = cookie \/ "vlan" \in lost
  /\ /\ setup.kind = "82574" /\ pc["reset"] \notin {"asleep", "hwreset", "readaddr", "init"}
     /\ cookie # NoVid /\ mngVid = cookie /\ "vlan" \notin lost
     => cookie \in vfta

\* Nobody else removes it.
LEMMA MngKept ==
  ASSUME Known, MngInv, [FilterNext]_vars
  PROVE  MngInv'
<1>0. /\ DOMAIN pc = Threads /\ setup'.kind = setup.kind
      /\ setup.kind = "82574" => HasVlanFilter /\ ~HasLaa
      /\ pc["reset"] = "laa" => HasLaa
  BY SetupKept DEF Known, Typed, StateTyped, HasVlanFilter, HasLaa, RestTyped
<1>a. ASSUME UNCHANGED <<vfta, cookie, mngVid>>, "vlan" \in lost <=> "vlan" \in lost',
             \/ pc'["reset"] \in {"asleep", "hwreset", "readaddr", "init"}
             \/ pc["reset"] \notin {"asleep", "hwreset", "readaddr", "init"}
      PROVE  MngInv'
  BY <1>a, <1>0 DEF MngInv
<1> USE DEF Goto, Threads
<1>1. ASSUME NEW t \in Threads, ReadModes(t) \/ WriteMta(t) \/ MtaNoMemory(t)
               \/ Count(t) \/ WriteModes(t) PROVE MngInv'
  BY <1>1, <1>a, <1>0 DEF ReadModes, WriteMta, MtaNoMemory, Count, WriteModes,
    keptByRxMode, netVars, regVars, vlanVars, ghosts, Undone
<1>2. ASSUME NEW t \in Threads, WriteEntries(t) PROVE MngInv'
  BY <1>2, <1>a, <1>0 DEF WriteEntries, keptByRxMode, CutShort
<1>3. ASSUME NEW t \in Threads, NEW n \in 0..setup.slots, EntriesFail(t, n) PROVE MngInv'
  BY <1>3, <1>a, <1>0 DEF EntriesFail
<1>4. ASSUME NEW t \in Threads, FilterVlans(t) PROVE MngInv'
  <2>1. /\ UNCHANGED <<cookie, lost>> /\ pc[t] = "vfe" /\ pc'[t] \in {"write", "count"}
        /\ \A o \in Threads \ {t} : pc'[o] = pc[o]
        /\ mngVid' = NoVid \/ UNCHANGED <<mngVid, vfta>>
    BY <1>4, <1>0 DEF FilterVlans, keptByRxMode
  <2> QED
    BY <2>1, <1>0 DEF MngInv
<1>5. ASSUME NEW u, NEW m, NEW f, ChangeRx(u, m, f) PROVE MngInv'
  BY <1>5, <1>0, <1>a DEF ChangeRx, regVars, keptByStack
<1>6. ASSUME NEW v \in setup.vids, AddVid(v) \/ KillVid(v) PROVE MngInv'
  BY <1>6, <1>0 DEF AddVid, KillVid, keptByStack, KilledIn, MngInv
<1>7. ASSUME NEW a \in Stations, SetMac(a) PROVE MngInv'
  BY <1>7, <1>0, <1>a DEF SetMac, regVars, keptByStack
<1>8. CASE SetActive \/ WriteStation \/ WriteLaa
  BY <1>8, <1>0, <1>a DEF SetActive, WriteStation, WriteLaa, regVars, keptByStack
<1>9. CASE HwReset \/ SetLaaState
  BY <1>9, <1>0 DEF HwReset, SetLaaState, keptByReset, ghosts, MngInv
<1>10. CASE InitHw
  BY <1>10, <1>0 DEF InitHw, keptByReset, Cleared, MngInv
<1>11. CASE ManageVlan
  BY <1>11, <1>0 DEF ManageVlan, UpdateMng, Mislaid, keptByReset, MngInv, Awake
<1>12. CASE RestoreVlan
  BY <1>12, <1>0 DEF RestoreVlan, keptByReset, MngInv
<1>13. CASE Down \/ Sleep \/ Wake \/ ResetTask \/ ReadAddr \/ CleanRings
             \/ SetupRctl \/ ReadRctlAgain \/ Enable
  BY <1>13, <1>0, <1>a DEF Down, Sleep, Wake, ResetTask, ReadAddr, CleanRings,
    SetupRctl, ReadRctlAgain, Enable, keptByReset, regVars, ghosts, Undone
<1>14. CASE WatchdogStart \/ EnableReceives
  BY <1>14, <1>0, <1>a DEF WatchdogStart, EnableReceives, RepairLaa, keptByWatchdog, vlanVars
<1>15. ASSUME NEW c \in Cookies, ReadCookie(c) PROVE MngInv'
  BY <1>15, <1>0 DEF ReadCookie, UpdateMng, Mislaid, RepairLaa, keptByWatchdog, MngInv, Awake
<1>16. CASE OtherPortResets \/ LinkInterrupt
  BY <1>16, <1>0, <1>a DEF OtherPortResets, LinkInterrupt, ghosts, vlanVars
<1>17. ASSUME NEW e \in Locks, MeTakes(e) PROVE MngInv'
  BY <1>17, <1>a DEF MeTakes, vlanVars
<1>18. CASE UNCHANGED vars
  BY <1>18, <1>a DEF vars, regVars, vlanVars, ghosts
<1> QED
  BY <1>1, <1>2, <1>3, <1>4, <1>5, <1>6, <1>7, <1>8, <1>9, <1>10, <1>11, <1>12, <1>13, <1>14,
    <1>15, <1>16, <1>17, <1>18
  DEF FilterNext, SetRxMode, Stack, Reset, Watchdog, Environment

\* The entries are a function, whoever writes them.
RarFunction == rar = [i \in Entries |-> rar[i]]

\* Every write of an entry leaves them one.
LEMMA RarFunctionKept ==
  ASSUME Typed, RarFunction, [FilterNext]_vars
  PROVE  RarFunction'
<1>0. Entries' = Entries /\ DOMAIN rar = Entries
  BY EntriesKept DEF Typed, StateTyped
<1> USE DEF RarFunction
<1>1. CASE rar' = rar
  BY <1>0, <1>1
<1>2. ASSUME NEW k, NEW a, rar' = [rar EXCEPT ![k] = a] PROVE RarFunction'
  BY <1>0, <1>2
<1>3. ASSUME NEW t \in Threads, SetRxMode(t) PROVE RarFunction'
  BY <1>0, <1>1, <1>3 DEF SetRxMode, ReadModes, WriteMta, MtaNoMemory, FilterVlans, Count,
    WriteEntries, EntriesFail, WriteModes, keptByRxMode, regVars, Zeroed, Programmed
<1>4. CASE Stack
  BY <1>1, <1>2, <1>4 DEF Stack, ChangeRx, AddVid, KillVid, SetMac, SetActive, WriteStation,
    WriteLaa, regVars
<1>5. CASE HwReset \/ InitHw
  BY <1>0, <1>5 DEF HwReset, InitHw, InitRxAddrs
<1>6. CASE SetLaaState \/ ReadAddr \/ ManageVlan \/ CleanRings \/ RestoreVlan \/ SetupRctl
             \/ ReadRctlAgain \/ Enable \/ Down \/ Sleep \/ Wake \/ ResetTask
  BY <1>1, <1>2, <1>6 DEF SetLaaState, ReadAddr, ManageVlan, CleanRings, RestoreVlan, SetupRctl,
    ReadRctlAgain, Enable, Down, Sleep, Wake, ResetTask, regVars
<1>7. CASE WatchdogStart \/ Watchdog \/ OtherPortResets \/ LinkInterrupt \/ UNCHANGED vars
  BY <1>1, <1>2, <1>7 DEF WatchdogStart, Watchdog, EnableReceives, ReadCookie, RepairLaa,
    OtherPortResets, LinkInterrupt, vars, regVars
<1>8. ASSUME NEW e \in Locks, MeTakes(e) PROVE RarFunction'
  BY <1>0, <1>8 DEF MeTakes
<1> QED
  BY <1>3, <1>4, <1>5, <1>6, <1>7, <1>8 DEF FilterNext, Reset, Environment

\* All that the calls, the addresses and the VLANs need.
ListsInv == Known /\ RarFunction /\ CallsInv /\ StationClean /\ VlanInv /\ MngInv

\* An adapter that comes up has empty lists and its own address.
LEMMA ListsInvInit ==
  ASSUME FilterInit
  PROVE  ListsInv
<1>0. /\ Typed /\ StationInv
      /\ setup \in FilterSetup /\ (HasLaa => setup.slots > 0) /\ setup.slots \in Nat
      /\ Entries = 0..setup.slots
  BY FiltersInvInit DEF FiltersInv, Typed, SetupTyped, FilterSetup, Entries
<1>1. /\ pc["stack"] = "idle" /\ pc["reset"] = "idle" /\ rar[0] = Permanent /\ addr = Permanent
      /\ \A i \in Entries :
           rar[i] = IF i = 0 \/ (HasLaa /\ i = setup.slots) THEN Permanent ELSE NoAddr
      /\ rar = [i \in Entries |->
                  IF i = 0 \/ (HasLaa /\ i = setup.slots) THEN Permanent ELSE NoAddr]
      /\ uc = {} /\ mc = {} /\ mta = {} /\ flags = {} /\ locked = {} /\ vlans = {} /\ lost = {}
      /\ Permanent \in Stations
  BY <1>0, FilterAssumption DEF FilterInit, Threads
<1>2. RestTyped
  BY <1>0, <1>1 DEF FilterInit, RestTyped, Cookies, HasVlanFilter
<1>3. RarInv
  BY <1>0, <1>1 DEF RarInv
<1>4. RarFunction
  BY <1>1 DEF RarFunction
<1>5. StackInv /\ ResetInv /\ MeetInv
  BY <1>1 DEF StackInv, ResetInv, MeetInv, FlagsRead, Above, PostMta
<1>6. ModesInv
  <2>1. Clean
    BY <1>0, <1>1 DEF Clean, Ours, Middle
  <2>2. Heard
    BY <1>1 DEF Heard
  <2>3. Asked(rctl) /\ Due(rctl)
    BY <1>1 DEF FilterInit, Asked, Due, Off
  <2> QED
    BY <1>1, <2>1, <2>2, <2>3 DEF ModesInv, Good
<1>7. StationClean
  BY <1>0, <1>1 DEF StationClean
<1>8. VlanInv /\ MngInv
  BY <1>1 DEF FilterInit, VlanInv, MngInv
<1> QED
  BY <1>0, <1>2, <1>3, <1>4, <1>5, <1>6, <1>7, <1>8 DEF ListsInv, Known, CallsInv

\* The inductive invariant of the theorems below.
LEMMA ListsInvAlways == FilterSpec => []ListsInv
<1>1. FilterInit => ListsInv
  BY ListsInvInit
<1>2. ListsInv /\ [FilterNext]_vars => ListsInv'
  BY TypedKept, RestTypedKept, StationKept, RarKept, RarFunctionKept, CallsKept,
    StationCleanKept, VlanKept, MngKept DEF ListsInv, Known
<1> QED
  BY <1>1, <1>2, PTL DEF FilterSpec

\* The variables keep their types: entries hold addresses of the adapter, of the list, of the
\* engine or nothing, and the VLANs are the stack's or the engine's.
THEOREM FiltersStayTyped == FilterSpec => []FiltersTypeOK
<1>1. ListsInv => FiltersTypeOK
  <2> SUFFICES ASSUME ListsInv PROVE FiltersTypeOK
    OBVIOUS
  <2>1. Typed /\ RestTyped /\ RarInv /\ RarFunction
    BY DEF ListsInv, Known
  <2>2. rctl \in [DOMAIN Off -> BOOLEAN]
    BY <2>1 DEF Typed, StateTyped, Rctl, Off
  <2>3. rar \in [Entries -> Stations \cup setup.uc \cup {MeAddr, NoAddr}]
    BY <2>1 DEF RarFunction, RarInv
  <2>4. setup \in FilterSetup /\ addr \in Stations /\ locked \subseteq 1..setup.slots
        /\ DOMAIN pc = Threads /\ DOMAIN loc = Threads
    BY <2>1 DEF Typed, SetupTyped, StateTyped
  <2> QED
    BY <2>1, <2>2, <2>3, <2>4 DEF FiltersTypeOK, RestTyped
<1> QED
  BY <1>1, ListsInvAlways, PTL

\* Whichever calls of the stack met whichever resets, the addresses that the stack asked for
\* last are received, by an entry, by the table or by a mode (netdev.c:3841).
THEOREM AddressesAreHeard == FilterSpec => []AddressesHeard
<1>1. ListsInv => AddressesHeard
  BY DEF ListsInv, CallsInv, ModesInv, Rewritten, Calling, Listing, Good, Asked, Heard,
    AddressesHeard, AtRest, Up
<1> QED
  BY <1>1, ListsInvAlways, PTL

\* And no others: what was taken off a list is in no entry and in no table, and no mode
\* outlasts its reason (netdev.c:3822).
THEOREM NothingElseIsHeard == FilterSpec => []NothingElseHeard
<1>1. ListsInv => NothingElseHeard
  <2> SUFFICES ASSUME ListsInv, AtRest, "modes" \notin lost, "mac" \notin lost
               PROVE  /\ \/ rctl.upe \/ setup.kind = "pch2"
                         \/ Inside(Entries) \subseteq uc \cup {addr, Permanent, MeAddr, NoAddr}
                      /\ rctl.mpe \/ mta \subseteq mc
                      /\ rctl.upe /\ setup.kind \notin {"pch2", "lpt"} =>
                           "promisc" \in flags \/ Cardinality(uc) > Available
    BY DEF NothingElseHeard
  <2>1. Good(rctl)
    BY DEF ListsInv, CallsInv, ModesInv, Rewritten, Calling, Listing, AtRest, Up
  <2>2. /\ rar[0] \in {addr, Permanent}
        /\ HasLaa => rar[setup.slots] \in {addr, NoAddr}
    BY DEF ListsInv, StationClean, AtRest, Up
  <2>3. ASSUME ~rctl.upe, setup.kind # "pch2"
        PROVE  Inside(Entries) \subseteq uc \cup {addr, Permanent, MeAddr, NoAddr}
    <3>1. \A i \in Middle : rar[i] \in uc \cup {MeAddr, NoAddr}
      BY <2>1, <2>3 DEF Good, Clean, Ours
    <3>2. \A i \in Entries : i = 0 \/ (HasLaa /\ i = setup.slots) \/ i \in Middle
      BY DEF ListsInv, Known, Typed, SetupTyped, FilterSetup, Entries, Middle
    <3> QED
      BY <2>2, <3>1, <3>2 DEF Inside
  <2> QED
    BY <2>1, <2>3 DEF Good, Due, Many
<1> QED
  BY <1>1, ListsInvAlways, PTL

\* The stack's VLANs survive every reset, in active_vlans and in the table (netdev.c:3211).
THEOREM VlansAreRestored == FilterSpec => []VlansRestored
<1>1. ListsInv => VlansRestored
  BY DEF ListsInv, VlanInv, VlansRestored, AtRest, Up
<1> QED
  BY <1>1, ListsInvAlways, PTL

\* So does the engine's VLAN in the 82574's table (82571.c:1284).
THEOREM MngVlanIsHeard == FilterSpec => []MngVlanHeard
<1>1. ListsInv => MngVlanHeard
  BY DEF ListsInv, MngInv, MngVlanHeard, AtRest, Up
<1> QED
  BY <1>1, ListsInvAlways, PTL

\* At rest the filters are what stack and engine asked for, whatever interleaved before
\* (e1000e_set_rx_mode, e1000_restore_vlan, e1000_update_mng_vlan).
THEOREM FiltersStayRight == FilterSpec => []FiltersRight
BY FiltersStayTyped, AddressesAreHeard, NothingElseIsHeard, VlansAreRestored, MngVlanIsHeard,
  PTL DEF FiltersRight
=============================================================================
