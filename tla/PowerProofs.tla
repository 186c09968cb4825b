---------------------------- MODULE PowerProofs ----------------------------
(***************************************************************************)
(* Proofs about Power, for every set of adapters, every choice of wake-ups *)
(* and any number of faults: what sleeps is armed as it was asked to be,   *)
(* and what has come back works, with nothing left armed.                  *)
(***************************************************************************)
EXTENDS Power, TLAPS

\* The registers of MAC, PHY and ME.
MacRegs == [smb : BOOLEAN, perst : BOOLEAN, wufc : SUBSET Wakes, pme : BOOLEAN, dma : BOOLEAN]
PhyRegs == [smb : BOOLEAN, conf : {"none", "sticky", "inband"}, wolHost : BOOLEAN, ulp : BOOLEAN,
            down : BOOLEAN, host : BOOLEAN, wufc : SUBSET Wakes, rar : BOOLEAN, proxy : BOOLEAN]
MeRegs == [ulp : BOOLEAN, enforce : BOOLEAN, done : BOOLEAN, busy : BOOLEAN]

\* Part of the suspend, by what is still to be decided or has been.
Arming == {"disarm", "prepare", "copy", "arm", "ulp", "force", "release", "asleep"}
Armed == {"ulp", "force", "release", "asleep"}

\* ULP, forced SMBus mode and the ME's asynchronous answer stay with the parts that have
\* them.
PartsInv ==
  /\ pc \in {"force", "exit"} => adapter.ulp /\ ~adapter.me
  /\ pc = "force" => "EX" \notin wufc
  /\ pc = "poll" => adapter.ulp /\ adapter.me
  /\ me.ulp \/ me.busy \/ me.done \/ "raced" \in ill => adapter.ulp /\ adapter.me
  /\ phy.ulp => adapter.ulp /\ (adapter.me => me.done)
  /\ phy.wolHost => phy.conf = "sticky"
  /\ adapter.me => ~phy.down /\ ~phy.proxy
  /\ pc = "copy" => adapter.phyWake

\* The ME is asked to enter ULP only while the device sleeps, and what it has begun it has
\* not done yet: unless it raced the resume, it ends that before the driver holds ULP for
\* off.
MeInv ==
  /\ me.ulp => pc \in {"release", "asleep", "init"} /\ ulpState = "on" /\ "EX" \notin wufc
  /\ me.busy => ~me.done
  /\ me.busy /\ "raced" \notin ill =>
       /\ pc \in {"release", "asleep", "init", "poll"} /\ ulpState # "off"
       /\ pc \in {"release", "asleep"} => "EX" \notin wufc

\* A PHY in ULP belongs to a device that is suspended, or on its way back to a point where
\* it is out of ULP.
UlpInv ==
  phy.ulp /\ "raced" \notin ill /\ "access" \notin ill =>
    /\ pc \in {"release", "asleep", "init", "poll", "exit", "access"}
    /\ pc \in {"release", "asleep"} => "EX" \notin wufc

\* Nothing has failed that leaves the interconnect in doubt.
Intact == "thawed" \notin ill /\ "ulp" \notin ill /\ "access" \notin ill

\* So does a PHY configured to go back to SMBus mode, and the mode itself.
SmbInv ==
  /\ phy.conf # "none" /\ "ulp" \notin ill => pc \in {"release", "asleep", "init", "exit"}
  /\ (mac.smb \/ phy.smb) /\ Intact =>
       pc \in {"release", "asleep", "init", "poll", "exit", "access"}

\* What a resume has undone when the device runs, and the next suspend finds undone.
AwakeInv ==
  /\ pc = "run" /\ "thawed" \notin ill => mac.dma /\ ~mac.pme
  /\ pc = "run" /\ Intact /\ adapter.open => ~phy.down
  /\ pc \in {"reset", "run"} /\ Intact /\ "raced" \notin ill => ~phy.proxy
  /\ Intact /\ "raced" \notin ill /\ "blocked" \notin ill
       /\ (pc \in {"run", "status", "disarm"} \/ (pc \in Armed /\ wufc = {})) => ~phy.host

\* What a suspend has decided to arm, and has armed.
ArmInv ==
  /\ pc \in Arming => wufc = Asked
  /\ pc = "disarm" => wufc = {}
  /\ pc \in {"prepare", "copy", "arm"} => wufc # {}
  /\ pc = "arm" /\ adapter.phyWake => phy.rar \/ "uncopied" \in ill
  /\ pc \in Armed =>
       /\ mac.wufc = wufc /\ mac.pme = (wufc # {})
       /\ adapter.phyWake /\ wufc # {} =>
            phy.wufc = wufc /\ phy.host /\ (phy.rar \/ "uncopied" \in ill)

IInv ==
  PowerTypeOK /\ PartsInv /\ MeInv /\ UlpInv /\ UlpStateTrue /\ SmbInv /\ AwakeInv /\ ArmInv
-----------------------------------------------------------------------------
(* What the helpers leave of the registers.                                *)

\* A reset of the PHY can only lose SMBus mode and the configuration for it, never gain
\* them, and leaves what is armed.
LEMMA ResetAt ==
  ASSUME NEW p \in PhyRegs, NEW q \in PhyReset(p)
  PROVE  /\ q \in PhyRegs /\ q.ulp = p.ulp /\ q.wolHost = p.wolHost /\ ~q.down
         /\ q.host = p.host /\ q.wufc = p.wufc /\ q.rar = p.rar /\ q.proxy = p.proxy
         /\ q.conf = p.conf \/ (p.conf = "inband" /\ q.conf = "none")
         /\ p.conf = "none" /\ q.smb => p.smb
<1> DEFINE S == IF p.conf = "none" THEN {p.smb, FALSE} ELSE {TRUE}
           left(c) == {[p EXCEPT !.smb = s, !.conf = c, !.down = FALSE] : s \in S}
<1>1. q \in left(p.conf) \/ (p.conf = "inband" /\ q \in left("none"))
  BY DEF PhyReset
<1>2. \A s \in S : s \in BOOLEAN /\ (p.conf = "none" /\ s => p.smb)
  BY DEF PhyRegs
<1> HIDE DEF S
<1>3. PICK s \in S, c \in {p.conf, "none"} :
        /\ q = [p EXCEPT !.smb = s, !.conf = c, !.down = FALSE]
        /\ c = p.conf \/ (p.conf = "inband" /\ c = "none")
  BY <1>1
<1> QED
  BY <1>2, <1>3 DEF PhyRegs

\* Power-cycling it also ends ULP.
LEMMA ToggleAt ==
  ASSUME NEW p \in PhyRegs, NEW q \in Toggle(p)
  PROVE  /\ q \in PhyRegs /\ ~q.ulp /\ q.wolHost = p.wolHost /\ ~q.down
         /\ q.host = p.host /\ q.wufc = p.wufc /\ q.rar = p.rar /\ q.proxy = p.proxy
         /\ q.conf = p.conf \/ (p.conf = "inband" /\ q.conf = "none")
         /\ p.conf = "none" => ~q.smb
<1> DEFINE S == IF p.conf = "none" THEN {FALSE} ELSE BOOLEAN
           left(c) == {[p EXCEPT !.smb = s, !.conf = c, !.down = FALSE, !.ulp = FALSE] : s \in S}
<1>1. q \in left(p.conf) \/ (p.conf = "inband" /\ q \in left("none"))
  BY DEF Toggle
<1>2. \A s \in S : s \in BOOLEAN /\ (p.conf = "none" => ~s)
  OBVIOUS
<1> HIDE DEF S
<1>3. PICK s \in S, c \in {p.conf, "none"} :
        /\ q = [p EXCEPT !.smb = s, !.conf = c, !.down = FALSE, !.ulp = FALSE]
        /\ c = p.conf \/ (p.conf = "inband" /\ c = "none")
  BY <1>1
<1> QED
  BY <1>2, <1>3 DEF PhyRegs

\* A reset of the PHY by the driver clears the host wakeup bit as well, if the PHY answers
\* and no reset is blocked.
LEMMA HwResetAt ==
  ASSUME NEW m \in MacRegs, NEW p \in PhyRegs, NEW q \in PhyHwReset(m, p)
  PROVE  /\ q \in PhyRegs /\ q.ulp = p.ulp /\ q.wolHost = p.wolHost /\ (q.down => p.down)
         /\ q.wufc = p.wufc /\ q.rar = p.rar /\ q.proxy = p.proxy
         /\ q.conf = p.conf \/ (p.conf = "inband" /\ q.conf = "none")
         /\ p.conf = "none" /\ q.smb => p.smb
         /\ q.host => p.host
         /\ ~blocked /\ ~m.smb /\ ~p.smb /\ p.conf = "none" /\ ~p.ulp => ~q.host
<1>1. CASE blocked
  BY <1>1 DEF PhyHwReset, PhyRegs
<1>2. CASE ~blocked
  <2>1. PICK r \in PhyReset(p) : q = ClearHost(m, r)
    BY <1>2 DEF PhyHwReset
  <2>2. /\ r \in PhyRegs /\ r.ulp = p.ulp /\ r.wolHost = p.wolHost /\ ~r.down
        /\ r.host = p.host /\ r.wufc = p.wufc /\ r.rar = p.rar /\ r.proxy = p.proxy
        /\ r.conf = p.conf \/ (p.conf = "inband" /\ r.conf = "none")
        /\ p.conf = "none" /\ r.smb => p.smb
    BY <2>1, ResetAt
  <2>3. CASE Reach(m, r)
    <3>1. q = [r EXCEPT !.host = FALSE]
      BY <2>1, <2>3 DEF ClearHost
    <3> QED
      BY <2>2, <3>1 DEF PhyRegs
  <2>4. CASE ~Reach(m, r)
    <3>1. q = r
      BY <2>1, <2>4 DEF ClearHost
    <3>2. ~(~m.smb /\ ~p.smb /\ p.conf = "none" /\ ~p.ulp)
      BY <2>2, <2>4 DEF Reach, PhyRegs, MacRegs
    <3> QED
      BY <2>2, <3>1, <3>2 DEF PhyRegs
  <2> QED
    BY <2>3, <2>4
<1> QED
  BY <1>1, <1>2

\* The power bit of the PHY is all that is written to power it down or up.
LEMMA PowerAt ==
  ASSUME NEW m \in MacRegs, NEW p \in PhyRegs, NEW q,
         q = PowerDown(m, p) \/ q = PowerUp(m, p)
  PROVE  /\ q \in PhyRegs /\ q.smb = p.smb /\ q.conf = p.conf /\ q.wolHost = p.wolHost
         /\ q.ulp = p.ulp /\ q.host = p.host /\ q.wufc = p.wufc /\ q.rar = p.rar
         /\ q.proxy = p.proxy
         /\ adapter.me /\ q.down => p.down
         /\ q = PowerUp(m, p) /\ q.down => p.down
         /\ q = PowerUp(m, p) /\ ~m.smb /\ ~p.smb /\ ~p.ulp => ~q.down
<1>1. q = p \/ (q = [p EXCEPT !.down = TRUE] /\ ~adapter.me) \/ q = [p EXCEPT !.down = FALSE]
  BY DEF PowerDown, PowerUp
<1>2. q = PowerUp(m, p) => q = p \/ q = [p EXCEPT !.down = FALSE]
  BY DEF PowerUp
<1>3. q = PowerUp(m, p) /\ ~m.smb /\ ~p.smb /\ ~p.ulp => q = [p EXCEPT !.down = FALSE]
  BY DEF PowerUp, Reach, MacRegs, PhyRegs
<1> QED
  BY <1>1, <1>2, <1>3 DEF PhyRegs

IsExit(x, p) == \E ok, done \in BOOLEAN : x = Exits(p, ok, done)

\* The exit from ULP, where it is complete, leaves both ends of the interconnect with PCIe
\* and nothing configured.
LEMMA ExitsAt ==
  ASSUME mac \in MacRegs, NEW p \in PhyRegs, NEW x, IsExit(x, p)
  PROVE  /\ x.mac \in MacRegs /\ x.mac.wufc = mac.wufc /\ x.mac.pme = mac.pme
         /\ x.mac.dma = mac.dma /\ (x.mac.perst => mac.perst)
         /\ x.phy \in PhyRegs /\ x.phy.ulp = p.ulp /\ x.phy.down = p.down
         /\ x.phy.host = p.host /\ x.phy.wufc = p.wufc /\ x.phy.rar = p.rar
         /\ x.phy.proxy = p.proxy /\ (x.phy.smb => p.smb)
         /\ (x.phy.conf = p.conf /\ x.phy.wolHost = p.wolHost)
              \/ (x.phy.conf = "none" /\ ~x.phy.wolHost)
         /\ x.off \in BOOLEAN
         /\ x.off => ~x.mac.smb /\ ~x.phy.smb /\ x.phy.conf = "none" /\ ~x.phy.wolHost
<1>0. PICK ok \in BOOLEAN, done \in BOOLEAN : x = Exits(p, ok, done)
  BY DEF IsExit
<1> DEFINE m == IF ok /\ Reach(mac, p) THEN mac ELSE [mac EXCEPT !.smb = TRUE]
<1>1. /\ m \in MacRegs /\ m.wufc = mac.wufc /\ m.pme = mac.pme /\ m.dma = mac.dma
      /\ m.perst = mac.perst
  BY DEF MacRegs
<1>2. \/ x = [mac |-> m, phy |-> p, off |-> FALSE]
      \/ x = [mac |-> [m EXCEPT !.smb = FALSE], phy |-> [p EXCEPT !.smb = FALSE], off |-> FALSE]
      \/ x = [mac |-> [m EXCEPT !.smb = FALSE, !.perst = FALSE],
              phy |-> [p EXCEPT !.smb = FALSE, !.conf = "none", !.wolHost = FALSE], off |-> TRUE]
  BY <1>0 DEF Exits
<1> HIDE DEF m
<1>3. CASE x = [mac |-> m, phy |-> p, off |-> FALSE]
  BY <1>1, <1>3
<1>4. CASE x = [mac |-> [m EXCEPT !.smb = FALSE], phy |-> [p EXCEPT !.smb = FALSE], off |-> FALSE]
  <2>1. x.mac = [m EXCEPT !.smb = FALSE] /\ x.phy = [p EXCEPT !.smb = FALSE] /\ x.off = FALSE
    BY <1>4
  <2> QED
    BY <1>1, <2>1 DEF MacRegs, PhyRegs
<1>5. CASE x = [mac |-> [m EXCEPT !.smb = FALSE, !.perst = FALSE],
                phy |-> [p EXCEPT !.smb = FALSE, !.conf = "none", !.wolHost = FALSE], off |-> TRUE]
  <2>1. /\ x.mac = [m EXCEPT !.smb = FALSE, !.perst = FALSE] /\ x.off = TRUE
        /\ x.phy = [p EXCEPT !.smb = FALSE, !.conf = "none", !.wolHost = FALSE]
    BY <1>5
  <2> QED
    BY <1>1, <2>1 DEF MacRegs, PhyRegs
<1> QED
  BY <1>2, <1>3, <1>4, <1>5

\* Where the resume gets at the PHY, both ends of the interconnect agree and the PHY is out
\* of ULP; without an ME they agree on PCIe.
LEMMA AccessesAt ==
  ASSUME mac \in MacRegs, phy \in PhyRegs, NEW x \in Accesses
  PROVE  /\ x.mac \in MacRegs /\ x.mac.wufc = mac.wufc /\ x.mac.pme = mac.pme
         /\ x.mac.dma = mac.dma /\ x.mac.perst = mac.perst
         /\ x.phy \in PhyRegs /\ (x.phy.ulp => phy.ulp) /\ (x.phy.down => phy.down)
         /\ x.phy.host = phy.host /\ x.phy.wufc = phy.wufc /\ x.phy.rar = phy.rar
         /\ x.phy.proxy = phy.proxy /\ x.phy.wolHost = phy.wolHost
         /\ x.phy.conf = phy.conf \/ (phy.conf = "inband" /\ x.phy.conf = "none")
         /\ phy.conf = "none" /\ x.phy.smb => phy.smb
         /\ x.ok \in BOOLEAN
         /\ x.ok => ~x.phy.ulp /\ x.mac.smb = x.phy.smb
         /\ x.ok /\ ~adapter.me => ~x.phy.smb
<1> DEFINE P(p) ==
             /\ p \in PhyRegs /\ (p.ulp => phy.ulp) /\ (p.down => phy.down)
             /\ p.host = phy.host /\ p.wufc = phy.wufc /\ p.rar = phy.rar
             /\ p.proxy = phy.proxy /\ p.wolHost = phy.wolHost
             /\ p.conf = phy.conf \/ (phy.conf = "inband" /\ p.conf = "none")
             /\ phy.conf = "none" /\ p.smb => phy.smb
           M(m) == /\ m \in MacRegs /\ m.wufc = mac.wufc /\ m.pme = mac.pme
                   /\ m.dma = mac.dma /\ m.perst = mac.perst
           found(m, p) == LET u == Unforce(m, p) IN [mac |-> u[1], phy |-> u[2], ok |-> TRUE]
           forced == [mac EXCEPT !.smb = TRUE]
           freed == [mac EXCEPT !.smb = FALSE]
<1>1. M(mac) /\ M(forced) /\ M(freed) /\ P(phy)
  BY DEF MacRegs
<1>2. ASSUME NEW p \in Toggle(phy)
      PROVE  P(p)
  BY <1>2, ToggleAt
<1>3. \/ x.ok = FALSE /\ \E m \in {forced, freed}, p \in Toggle(phy) \cup {phy} :
           x = [mac |-> m, phy |-> p, ok |-> FALSE]
      \/ \E m \in {mac, forced, freed}, p \in Toggle(phy) \cup {phy} :
           Reach(m, p) /\ x = found(m, p)
  <2>1. CASE Reach(mac, phy)
    BY <2>1 DEF Accesses
  <2>2. CASE ~Reach(mac, phy) /\ Reach(forced, phy)
    BY <2>2 DEF Accesses
  <2>3. CASE ~Reach(mac, phy) /\ ~Reach(forced, phy) /\ blocked
    BY <2>3 DEF Accesses
  <2>4. CASE ~Reach(mac, phy) /\ ~Reach(forced, phy) /\ ~blocked
    <3>1. PICK p \in Toggle(phy) :
            x = IF Reach(forced, p) THEN found(forced, p)
                ELSE IF Reach(freed, p) THEN found(freed, p)
                ELSE [mac |-> freed, phy |-> p, ok |-> FALSE]
      BY <2>4 DEF Accesses
    <3> QED
      BY <3>1
  <2> QED
    BY <2>1, <2>2, <2>3, <2>4
<1> HIDE DEF forced, freed
<1>4. ASSUME NEW m \in {forced, freed}, NEW p \in Toggle(phy) \cup {phy},
             x = [mac |-> m, phy |-> p, ok |-> FALSE]
      PROVE  M(x.mac) /\ P(x.phy) /\ ~x.ok /\ x.ok \in BOOLEAN
  <2> HIDE DEF M, P
  <2> QED
    BY <1>1, <1>2, <1>4
<1>5. ASSUME NEW m \in {mac, forced, freed}, NEW p \in Toggle(phy) \cup {phy},
             Reach(m, p), x = found(m, p)
      PROVE  /\ M(x.mac) /\ P(x.phy) /\ x.ok \in BOOLEAN
             /\ ~x.phy.ulp /\ x.mac.smb = x.phy.smb /\ (~adapter.me => ~x.phy.smb)
  <2>1. M(m) /\ P(p)
    BY <1>1, <1>2
  <2>2. CASE adapter.me
    <3>1. x = [mac |-> m, phy |-> p, ok |-> TRUE]
      BY <1>5, <2>2 DEF Unforce
    <3> QED
      BY <1>5, <2>1, <2>2, <3>1 DEF Reach
  <2>3. CASE ~adapter.me
    <3>1. x = [mac |-> [m EXCEPT !.smb = FALSE], phy |-> [p EXCEPT !.smb = FALSE], ok |-> TRUE]
      BY <1>5, <2>3 DEF Unforce
    <3>2. x.mac = [m EXCEPT !.smb = FALSE] /\ x.phy = [p EXCEPT !.smb = FALSE] /\ x.ok = TRUE
      BY <3>1
    <3>3. M(x.mac) /\ x.mac.smb = FALSE
      BY <2>1, <3>2 DEF MacRegs
    <3>4. P(x.phy) /\ x.phy.smb = FALSE /\ x.phy.ulp = p.ulp
      BY <2>1, <3>2, ZenonT(30) DEF PhyRegs
    <3> HIDE DEF M, P
    <3> QED
      BY <1>5, <3>2, <3>3, <3>4 DEF Reach
  <2> QED
    BY <2>2, <2>3
<1> QED
  BY <1>3, <1>4, <1>5
-----------------------------------------------------------------------------
(* Types.                                                                  *)

Regs == mac \in MacRegs /\ phy \in PhyRegs /\ me \in MeRegs
Flags == {wire, link, carrier, sched, blocked, linkWas} \subseteq BOOLEAN
Locals ==
  /\ adapter \in Adapters /\ wol \in Wols /\ ulpState \in {"unknown", "off", "on"}
  /\ pc \in {"run", "status", "disarm", "prepare", "copy", "arm", "ulp", "force", "release", "asleep",
             "init", "poll", "exit", "access", "irst", "reset"}
  /\ target \in {"runtime", "sx"} /\ wufc \in SUBSET Wakes /\ faults \in 0..MaxFaults
  /\ ill \subseteq {"thawed", "uncopied", "ulp", "access", "blocked", "raced", "silent"}
SmbParts == phy.smb \/ mac.perst \/ phy.conf # "none" => adapter.ulp /\ ~adapter.me

\* The types, in the four parts the provers can handle.
LEMMA TypesAre == PowerTypeOK <=> Regs /\ Flags /\ Locals /\ SmbParts
<1>1. Flags <=> /\ wire \in BOOLEAN /\ link \in BOOLEAN /\ carrier \in BOOLEAN
                /\ sched \in BOOLEAN /\ blocked \in BOOLEAN /\ linkWas \in BOOLEAN
  BY Zenon DEF Flags
<1> QED
  BY <1>1, Zenon DEF PowerTypeOK, Regs, Locals, SmbParts, MacRegs, PhyRegs, MeRegs

\* The same after a step.
LEMMA TypesAreNext == PowerTypeOK' <=> Regs' /\ Flags' /\ Locals' /\ SmbParts'
<1>1. Flags' <=> /\ wire' \in BOOLEAN /\ link' \in BOOLEAN /\ carrier' \in BOOLEAN
                 /\ sched' \in BOOLEAN /\ blocked' \in BOOLEAN /\ linkWas' \in BOOLEAN
  BY Zenon DEF Flags
<1> QED
  BY <1>1, Zenon DEF PowerTypeOK, Regs, Locals, SmbParts, MacRegs, PhyRegs, MeRegs

\* The flags stay flags.
LEMMA FlagsStep ==
  ASSUME Flags, Regs, PowerNext
  PROVE  Flags'
<1> USE DEF Flags, idleVars, wireVars, driver, hard, suspending, resuming
<1>1. ASSUME WireChange \/ LinkChange \/ MeBlocks \/ MeStarts \/ MeEnters \/ MeLeaves \/ Perst
      PROVE  Flags'
  BY <1>1 DEF WireChange, LinkChange, MeBlocks, MeStarts, MeEnters, MeLeaves, Perst, Linkable
<1>2. ASSUME \/ \E w \in Wols : SetWol(w)
             \/ SetMac \/ Watchdog \/ RuntimeIdle \/ RuntimeSuspend \/ Suspend \/ ResetTask
      PROVE  Flags'
  BY <1>2 DEF SetWol, SetMac, Watchdog, RuntimeIdle, RuntimeSuspend, Suspend, ResetTask
<1>3. ASSUME ReadStatus \/ Disarm \/ Prepare \/ CopyRxAddrs \/ ArmMac \/ ArmPhy \/ NoUlp \/ AskMe
      PROVE  Flags'
  BY <1>3 DEF ReadStatus, Disarm, Prepare, CopyRxAddrs, ArmMac, ArmPhy, NoUlp, AskMe
<1>4. ASSUME CableGone \/ ForceUlp \/ Release \/ Request \/ LinkWakes \/ InitPhy
      PROVE  Flags'
  BY <1>4 DEF CableGone, ForceUlp, Release, Request, LinkWakes, InitPhy
<1>5. ASSUME MeAnswered \/ MeSilent \/ ExitUlp \/ AccessPhy \/ ClearProxy \/ ResetAndUp
      PROVE  Flags'
  BY <1>5 DEF MeAnswered, MeSilent, ExitUlp, AccessPhy, ClearProxy, ResetAndUp
<1> QED
  BY <1>1, <1>2, <1>3, <1>4, <1>5 DEF PowerNext

\* Something may fail only while there are faults left.
LEMMA FaultsAt ==
  ASSUME faults \in 0..MaxFaults, NEW ok, ok \in Tries \/ faults < MaxFaults, Count(ok)
  PROVE  faults' \in 0..MaxFaults
<1>1. ok \/ faults < MaxFaults
  BY DEF Tries
<1>2. faults' = faults \/ (faults' = faults + 1 /\ faults < MaxFaults)
  BY <1>1 DEF Count
<1> QED
  BY <1>2, PowerAssumption

\* So do the program counter and what else the driver keeps.
LEMMA LocalsStep ==
  ASSUME Locals, PowerNext
  PROVE  Locals'
<1> USE PowerAssumption DEF Locals, idleVars, wireVars, driver, hard, suspending, resuming
<1>1. ASSUME WireChange \/ LinkChange \/ MeBlocks \/ MeStarts \/ MeEnters \/ MeLeaves \/ Perst
      PROVE  Locals'
  BY <1>1 DEF WireChange, LinkChange, MeBlocks, MeStarts, MeEnters, MeLeaves, Perst
<1>2. ASSUME \/ \E w \in Wols : SetWol(w)
             \/ SetMac \/ Watchdog \/ RuntimeIdle \/ RuntimeSuspend \/ Suspend \/ ResetTask
      PROVE  Locals'
  BY <1>2 DEF SetWol, SetMac, Watchdog, RuntimeIdle, RuntimeSuspend, Suspend, ResetTask
<1>3. ASSUME Disarm \/ ArmMac \/ NoUlp \/ AskMe
      PROVE  Locals'
  BY <1>3 DEF Disarm, ArmMac, NoUlp, AskMe
<1>4. ASSUME ReadStatus
      PROVE  Locals'
  <2>1. wufc' \in SUBSET Wakes
    BY <1>4 DEF ReadStatus, Wakes
  <2>2. pc' \in {"disarm", "prepare"}
    BY <1>4 DEF ReadStatus
  <2> QED
    BY <1>4, <2>1, <2>2 DEF ReadStatus
<1>5. ASSUME Prepare \/ CopyRxAddrs \/ ArmPhy \/ ForceUlp \/ MeSilent \/ ExitUlp \/ AccessPhy \/ ClearProxy
      PROVE  faults' \in 0..MaxFaults
  <2> USE DEF Tries
  <2>1. CASE Prepare
    BY <2>1, FaultsAt DEF Prepare
  <2>2. CASE CopyRxAddrs
    BY <2>2, FaultsAt DEF CopyRxAddrs
  <2>3. CASE ArmPhy
    BY <2>3, FaultsAt DEF ArmPhy
  <2>4. CASE ForceUlp
    BY <2>4, FaultsAt DEF ForceUlp
  <2>5. CASE MeSilent
    BY <2>5, FaultsAt DEF MeSilent
  <2>6. CASE ExitUlp
    BY <2>6, FaultsAt DEF ExitUlp
  <2>7. CASE AccessPhy
    BY <2>7, FaultsAt DEF AccessPhy
  <2>8. CASE ClearProxy
    BY <2>8, FaultsAt DEF ClearProxy
  <2> QED
    BY <1>5, <2>1, <2>2, <2>3, <2>4, <2>5, <2>6, <2>7, <2>8
<1>8. ASSUME GiveUp
      PROVE  pc' \in {"run", "init"} /\ (ill' = ill \/ ill' = ill \cup {"thawed"})
  BY <1>8 DEF GiveUp
<1>9. ASSUME Prepare \/ CopyRxAddrs
      PROVE  Locals'
  BY <1>9, <1>5 DEF Prepare, CopyRxAddrs
<1>10. ASSUME ArmPhy
      PROVE  Locals'
  BY <1>10, <1>5, <1>8 DEF ArmPhy
<1>11. ASSUME CableGone
      PROVE  Locals'
  BY <1>11, <1>8 DEF CableGone
<1>12. ASSUME ForceUlp
      PROVE  Locals'
  BY <1>12, <1>5, <1>8 DEF ForceUlp
<1>6. ASSUME Release \/ Request \/ LinkWakes \/ InitPhy \/ MeAnswered \/ ResetAndUp
      PROVE  Locals'
  BY <1>6 DEF Release, Request, LinkWakes, InitPhy, MeAnswered, ResetAndUp
<1>7. ASSUME MeSilent \/ ExitUlp \/ AccessPhy \/ ClearProxy
      PROVE  Locals'
  BY <1>5, <1>7 DEF MeSilent, ExitUlp, AccessPhy, ClearProxy
<1> QED
  BY <1>1, <1>2, <1>3, <1>4, <1>6, <1>7, <1>9, <1>10, <1>11, <1>12 DEF PowerNext
-----------------------------------------------------------------------------
(* What the actions that use the helpers leave of the registers.           *)

\* The reset of a running device, by field.
LEMMA ResetTaskAt ==
  ASSUME Regs, ResetTask
  PROVE  /\ Regs' /\ UNCHANGED <<hard, wol, idleVars, ulpState, pc, target, wufc, linkWas, ill>>
         /\ mac' = [mac EXCEPT !.dma = TRUE, !.pme = FALSE] /\ pc = "run"
         /\ phy'.ulp = phy.ulp /\ phy'.wolHost = phy.wolHost
         /\ phy'.wufc = phy.wufc /\ phy'.rar = phy.rar /\ phy'.proxy = phy.proxy
         /\ phy'.conf = phy.conf \/ (phy.conf = "inband" /\ phy'.conf = "none")
         /\ phy.conf = "none" /\ phy'.smb => phy.smb
         /\ phy'.host => phy.host
         /\ adapter.me \/ adapter.open => (phy'.down => phy.down)
<1>1. PICK p \in PhyHwReset(mac, phy) : phy' = IF adapter.open THEN p ELSE PowerDown(mac, p)
  BY DEF ResetTask
<1>2. mac \in MacRegs /\ phy \in PhyRegs /\ me' = me /\ me \in MeRegs
  BY DEF Regs, ResetTask, hard
<1>3. mac' = [mac EXCEPT !.dma = TRUE, !.pme = FALSE]
  BY DEF ResetTask
<1>4. mac' \in MacRegs
  BY <1>2, <1>3 DEF MacRegs
<1>5. CASE adapter.open
  BY <1>1, <1>2, <1>3, <1>4, <1>5, HwResetAt DEF Regs, ResetTask
<1>6. CASE ~adapter.open
  BY <1>1, <1>2, <1>3, <1>4, <1>6, HwResetAt, PowerAt DEF Regs, ResetTask
<1> QED
  BY <1>5, <1>6

\* The reset at the end of a resume, by field.
LEMMA ResetAndUpAt ==
  ASSUME Regs, ResetAndUp
  PROVE  /\ Regs' /\ UNCHANGED <<resuming, me, ulpState, faults>>
         /\ mac' = [mac EXCEPT !.dma = TRUE, !.pme = FALSE] /\ pc = "reset" /\ pc' = "run"
         /\ ill' = (IF blocked THEN ill \cup {"blocked"} ELSE ill)
         /\ phy'.ulp = phy.ulp /\ phy'.wolHost = phy.wolHost
         /\ phy'.wufc = phy.wufc /\ phy'.rar = phy.rar /\ phy'.proxy = phy.proxy
         /\ phy'.conf = phy.conf \/ (phy.conf = "inband" /\ phy'.conf = "none")
         /\ phy.conf = "none" /\ phy'.smb => phy.smb
         /\ ~blocked /\ ~mac.smb /\ ~phy.smb /\ phy.conf = "none" /\ ~phy.ulp => ~phy'.host
         /\ adapter.me => (phy'.down => phy.down)
         /\ adapter.open /\ ~mac.smb /\ ~phy.smb /\ ~phy.ulp => ~phy'.down
<1> DEFINE u == PowerUp(mac, phy)
<1>1. PICK p \in PhyHwReset(mac, u) : phy' = IF adapter.open THEN p ELSE PowerDown(mac, p)
  BY DEF ResetAndUp
<1>2. mac \in MacRegs /\ phy \in PhyRegs /\ me' = me /\ me \in MeRegs
  BY DEF Regs, ResetAndUp
<1>3. mac' = [mac EXCEPT !.dma = TRUE, !.pme = FALSE]
  BY DEF ResetAndUp
<1>4. mac' \in MacRegs
  BY <1>2, <1>3 DEF MacRegs
<1>5. /\ u \in PhyRegs /\ u.smb = phy.smb /\ u.conf = phy.conf /\ u.wolHost = phy.wolHost
      /\ u.ulp = phy.ulp /\ u.host = phy.host /\ u.wufc = phy.wufc /\ u.rar = phy.rar
      /\ u.proxy = phy.proxy /\ (u.down => phy.down)
      /\ ~mac.smb /\ ~phy.smb /\ ~phy.ulp => ~u.down
  BY <1>2, PowerAt
<1> HIDE DEF u
<1>6. /\ p \in PhyRegs /\ p.ulp = u.ulp /\ p.wolHost = u.wolHost /\ (p.down => u.down)
      /\ p.wufc = u.wufc /\ p.rar = u.rar /\ p.proxy = u.proxy
      /\ p.conf = u.conf \/ (u.conf = "inband" /\ p.conf = "none")
      /\ u.conf = "none" /\ p.smb => u.smb
      /\ p.host => u.host
      /\ ~blocked /\ ~mac.smb /\ ~u.smb /\ u.conf = "none" /\ ~u.ulp => ~p.host
  BY <1>1, <1>2, <1>5, HwResetAt
<1>7. UNCHANGED <<resuming, me, ulpState, faults>> /\ pc = "reset" /\ pc' = "run"
      /\ ill' = (IF blocked THEN ill \cup {"blocked"} ELSE ill)
  BY DEF ResetAndUp
<1>8. CASE adapter.open
  <2>1. phy' = p
    BY <1>1, <1>8
  <2> QED
    BY <1>2, <1>3, <1>4, <1>5, <1>6, <1>7, <2>1 DEF Regs
<1>9. CASE ~adapter.open
  <2> DEFINE d == PowerDown(mac, p)
  <2>1. phy' = d
    BY <1>1, <1>9
  <2>2. /\ d \in PhyRegs /\ d.smb = p.smb /\ d.conf = p.conf /\ d.wolHost = p.wolHost
        /\ d.ulp = p.ulp /\ d.host = p.host /\ d.wufc = p.wufc /\ d.rar = p.rar
        /\ d.proxy = p.proxy /\ (adapter.me /\ d.down => p.down)
    BY <1>2, <1>6, PowerAt
  <2> HIDE DEF d
  <2> QED
    BY <1>2, <1>3, <1>4, <1>5, <1>6, <1>7, <1>9, <2>1, <2>2 DEF Regs
<1> QED
  BY <1>8, <1>9

\* Leaving ULP without the ME, by field.
LEMMA ExitUlpAt ==
  ASSUME Regs, ExitUlp
  PROVE  /\ Regs' /\ UNCHANGED <<resuming, me>> /\ pc = "exit" /\ pc' = "access"
         /\ phy'.ulp => phy.ulp
         /\ phy'.conf \in {phy.conf, "none"}
         /\ phy'.wolHost => phy.wolHost /\ (phy'.conf = phy.conf \/ phy.conf = "inband")
         /\ \/ ulpState' = "off" /\ ill' = ill /\ ~phy'.ulp /\ phy'.conf = "none" /\ ~phy'.wolHost
            \/ ulpState' = ulpState /\ ill' = ill \cup {"ulp"}
<1> DEFINE failed == UNCHANGED <<mac, phy, ulpState>> /\ ill' = ill \cup {"ulp"}
           ended(x) ==
             /\ mac' = x.mac /\ phy' \in PhyHwReset(x.mac, x.phy)
             /\ ulpState' = (IF x.off THEN "off" ELSE ulpState)
             /\ ill' = (IF x.off THEN ill ELSE ill \cup {"ulp"})
<1>1. mac \in MacRegs /\ phy \in PhyRegs /\ me' = me /\ me \in MeRegs
  BY DEF Regs, ExitUlp
<1>2. UNCHANGED <<resuming, me>> /\ pc = "exit" /\ pc' = "access"
  BY DEF ExitUlp
<1>3. failed \/ \E p, x : p \in Toggle(phy) /\ IsExit(x, p) /\ ended(x)
  <2>1. Tries \subseteq BOOLEAN
    BY DEF Tries
  <2>2. failed \/ \E ok, done \in Tries, p \in Toggle(phy) : ended(Exits(p, ok, done))
    BY DEF ExitUlp
  <2> HIDE DEF failed, ended
  <2> QED
    BY <2>1, <2>2 DEF IsExit
<1>4. CASE failed
  BY <1>1, <1>2, <1>4 DEF Regs
<1>5. CASE \E p, x : p \in Toggle(phy) /\ IsExit(x, p) /\ ended(x)
  <2>1. PICK p, x : p \in Toggle(phy) /\ IsExit(x, p) /\ ended(x)
    BY <1>5
  <2>2. /\ p \in PhyRegs /\ ~p.ulp /\ p.wolHost = phy.wolHost
        /\ p.conf = phy.conf \/ (phy.conf = "inband" /\ p.conf = "none")
    BY <1>1, <2>1, ToggleAt
  <2>3. /\ x.mac \in MacRegs /\ x.phy \in PhyRegs /\ x.phy.ulp = p.ulp
        /\ (x.phy.conf = p.conf /\ x.phy.wolHost = p.wolHost)
             \/ (x.phy.conf = "none" /\ ~x.phy.wolHost)
        /\ x.off \in BOOLEAN
        /\ x.off => ~x.phy.smb /\ x.phy.conf = "none" /\ ~x.phy.wolHost
    BY <1>1, <2>1, <2>2, ExitsAt
  <2>4. ended(x)
    BY <2>1
  <2>5. /\ phy' \in PhyRegs /\ phy'.ulp = x.phy.ulp /\ phy'.wolHost = x.phy.wolHost
        /\ phy'.conf = x.phy.conf \/ (x.phy.conf = "inband" /\ phy'.conf = "none")
    BY <2>3, <2>4, HwResetAt
  <2>6. CASE x.off
    BY <1>1, <1>2, <2>2, <2>3, <2>4, <2>5, <2>6 DEF Regs
  <2>7. CASE ~x.off
    BY <1>1, <1>2, <2>2, <2>3, <2>4, <2>5, <2>7 DEF Regs
  <2> QED
    BY <2>6, <2>7
<1> QED
  BY <1>3, <1>4, <1>5

\* The tries to reach the PHY after a resume, by field.
LEMMA AccessPhyAt ==
  ASSUME Regs, AccessPhy
  PROVE  /\ Regs' /\ UNCHANGED <<resuming, me, ulpState>> /\ pc = "access"
         /\ mac'.perst = mac.perst /\ phy'.proxy = phy.proxy /\ phy'.wolHost = phy.wolHost
         /\ phy'.ulp => phy.ulp
         /\ phy'.down => phy.down
         /\ phy'.conf = phy.conf \/ (phy.conf = "inband" /\ phy'.conf = "none")
         /\ phy.conf = "none" /\ phy'.smb => phy.smb
         /\ \/ /\ pc' = "irst" /\ ill' = ill /\ ~phy'.ulp
               /\ phy.conf = "none" /\ (~adapter.me \/ ~phy.smb) => ~mac'.smb /\ ~phy'.smb
            \/ pc' = "reset" /\ ill' = ill \cup {"access"}
<1> DEFINE failed == UNCHANGED <<mac, phy>> /\ pc' = "reset" /\ ill' = ill \cup {"access"}
           ended(x) ==
             /\ mac' = x.mac
             /\ IF x.ok /\ ~blocked THEN phy' \in PhyReset(x.phy) ELSE phy' = x.phy
             /\ pc' = (IF x.ok THEN "irst" ELSE "reset")
             /\ ill' = (IF x.ok THEN ill ELSE ill \cup {"access"})
<1>1. mac \in MacRegs /\ phy \in PhyRegs /\ me' = me /\ me \in MeRegs
  BY DEF Regs, AccessPhy
<1>2. UNCHANGED <<resuming, me, ulpState>> /\ pc = "access"
  BY DEF AccessPhy
<1>3. failed \/ \E x \in Accesses : ended(x)
  BY DEF AccessPhy
<1>4. CASE failed
  BY <1>1, <1>2, <1>4 DEF Regs
<1>5. CASE \E x \in Accesses : ended(x)
  <2>1. PICK x \in Accesses : ended(x)
    BY <1>5
  <2>2. /\ x.mac \in MacRegs /\ x.mac.perst = mac.perst
        /\ x.phy \in PhyRegs /\ (x.phy.ulp => phy.ulp) /\ (x.phy.down => phy.down)
        /\ x.phy.proxy = phy.proxy /\ x.phy.wolHost = phy.wolHost
        /\ x.phy.conf = phy.conf \/ (phy.conf = "inband" /\ x.phy.conf = "none")
        /\ phy.conf = "none" /\ x.phy.smb => phy.smb
        /\ x.ok \in BOOLEAN
        /\ x.ok => ~x.phy.ulp /\ x.mac.smb = x.phy.smb
        /\ x.ok /\ ~adapter.me => ~x.phy.smb
    BY <1>1, AccessesAt
  <2>3. /\ phy' \in PhyRegs /\ phy'.ulp = x.phy.ulp /\ phy'.wolHost = x.phy.wolHost
        /\ phy'.down => x.phy.down
        /\ phy'.proxy = x.phy.proxy
        /\ phy'.conf = x.phy.conf \/ (x.phy.conf = "inband" /\ phy'.conf = "none")
        /\ x.phy.conf = "none" /\ phy'.smb => x.phy.smb
    BY <2>1, <2>2, ResetAt
  <2>4. CASE x.ok
    <3>1. /\ pc' = "irst" /\ ill' = ill /\ ~phy'.ulp /\ mac' = x.mac
          /\ phy.conf = "none" /\ (~adapter.me \/ ~phy.smb) => ~x.phy.smb /\ ~mac'.smb /\ ~phy'.smb
      BY <2>1, <2>2, <2>3, <2>4
    <3> QED
      BY <1>1, <1>2, <2>2, <2>3, <3>1 DEF Regs
  <2>5. CASE ~x.ok
    BY <1>1, <1>2, <2>1, <2>2, <2>3, <2>5 DEF Regs
  <2> QED
    BY <2>4, <2>5
<1> QED
  BY <1>3, <1>4, <1>5

\* PowerDown, PowerUp and the two ways of arming, by field.
LEMMA DisarmAt ==
  ASSUME Regs, Disarm
  PROVE  /\ Regs' /\ UNCHANGED <<suspending, ulpState, wufc, linkWas, faults, ill>>
         /\ mac' = [mac EXCEPT !.wufc = {}, !.pme = FALSE] /\ pc = "disarm" /\ pc' = "ulp"
         /\ phy'.smb = phy.smb /\ phy'.conf = phy.conf /\ phy'.wolHost = phy.wolHost
         /\ phy'.ulp = phy.ulp /\ phy'.host = phy.host /\ phy'.proxy = phy.proxy
         /\ adapter.me /\ phy'.down => phy.down
<1>1. mac \in MacRegs /\ phy \in PhyRegs /\ me' = me /\ me \in MeRegs
  BY DEF Regs, Disarm, suspending
<1>2. mac' = [mac EXCEPT !.wufc = {}, !.pme = FALSE] /\ mac' \in MacRegs
  BY <1>1 DEF Disarm, MacRegs
<1> QED
  BY <1>1, <1>2, PowerAt DEF Regs, Disarm

\* What a suspend does before it arms anything.
LEMMA PrepareAt ==
  ASSUME Regs, Prepare
  PROVE  /\ Regs' /\ UNCHANGED <<suspending, mac, ulpState, wufc, linkWas, ill>>
         /\ pc = "prepare" /\ pc' = (IF adapter.phyWake THEN "copy" ELSE "arm")
         /\ phy'.smb = phy.smb /\ phy'.conf = phy.conf /\ phy'.wolHost = phy.wolHost
         /\ phy'.ulp = phy.ulp /\ (phy'.down => phy.down)
         /\ adapter.me => phy'.proxy = phy.proxy
<1>1. mac \in MacRegs /\ phy \in PhyRegs /\ me' = me /\ me \in MeRegs
  BY DEF Regs, Prepare, suspending
<1>2. PICK ok \in Tries :
        LET p == IF target = "sx" /\ ok THEN PowerUp(mac, phy) ELSE phy
        IN phy' = [p EXCEPT !.proxy = @ \/ (ok /\ Reach(mac, p) /\ ~adapter.me)]
  BY DEF Prepare
<1> DEFINE p == IF target = "sx" /\ ok THEN PowerUp(mac, phy) ELSE phy
<1>3. /\ p \in PhyRegs /\ p.smb = phy.smb /\ p.conf = phy.conf /\ p.wolHost = phy.wolHost
      /\ p.ulp = phy.ulp /\ p.proxy = phy.proxy /\ (p.down => phy.down)
  BY <1>1, PowerAt
<1>4. phy' = [p EXCEPT !.proxy = @ \/ (ok /\ Reach(mac, p) /\ ~adapter.me)]
  BY <1>2
<1> HIDE DEF p
<1>5. phy' \in PhyRegs /\ (adapter.me => phy'.proxy = p.proxy)
      /\ phy'.smb = p.smb /\ phy'.conf = p.conf /\ phy'.wolHost = p.wolHost
      /\ phy'.ulp = p.ulp /\ phy'.down = p.down
  BY <1>3, <1>4 DEF PhyRegs
<1> QED
  BY <1>1, <1>3, <1>5 DEF Regs, Prepare

\* Entering ULP without the ME, by field.
LEMMA ForceUlpAt ==
  ASSUME Regs, ForceUlp
  PROVE  /\ Regs' /\ UNCHANGED <<suspending, wufc, linkWas>> /\ pc = "force"
         /\ mac'.wufc = mac.wufc /\ mac'.pme = mac.pme
         /\ phy'.host = phy.host /\ phy'.wufc = phy.wufc /\ phy'.rar = phy.rar
         /\ phy'.proxy = phy.proxy /\ phy'.down = phy.down
         /\ \/ /\ ulpState' = "on" /\ pc' = "release" /\ ill' = ill
               /\ phy'.wolHost => phy'.conf = "sticky"
            \/ /\ ulpState' = ulpState /\ GiveUp
               /\ phy'.ulp = phy.ulp /\ phy'.conf = phy.conf /\ phy'.wolHost = phy.wolHost
<1>1. mac \in MacRegs /\ phy \in PhyRegs /\ me' = me /\ me \in MeRegs
  BY DEF Regs, ForceUlp, suspending
<1>2. UNCHANGED <<suspending, wufc, linkWas>> /\ pc = "force"
  BY DEF ForceUlp
<1>3. CASE /\ mac' = [mac EXCEPT !.smb = TRUE, !.perst = TRUE] /\ phy' = UlpConfig(phy)
           /\ ulpState' = "on" /\ pc' = "release" /\ ill' = ill
  <2> DEFINE c == IF target = "sx" THEN "sticky" ELSE "inband"
             h == target = "sx" /\ "LNKC" \in mac.wufc
  <2>1. phy' = [phy EXCEPT !.smb = TRUE, !.ulp = TRUE, !.conf = c, !.wolHost = h]
    BY <1>3 DEF UlpConfig
  <2>2. c \in {"sticky", "inband"} /\ h \in BOOLEAN /\ (h => c = "sticky")
    OBVIOUS
  <2> HIDE DEF c, h
  <2>3. phy' \in PhyRegs /\ phy'.wolHost = h /\ phy'.conf = c
        /\ phy'.host = phy.host /\ phy'.wufc = phy.wufc /\ phy'.rar = phy.rar
        /\ phy'.proxy = phy.proxy /\ phy'.down = phy.down
    BY <1>1, <2>1, <2>2 DEF PhyRegs
  <2>4. mac' \in MacRegs /\ mac'.wufc = mac.wufc /\ mac'.pme = mac.pme
    BY <1>1, <1>3 DEF MacRegs
  <2> QED
    BY <1>1, <1>2, <1>3, <2>2, <2>3, <2>4 DEF Regs
<1>4. CASE GiveUp /\ UNCHANGED <<mac, phy, ulpState>>
  BY <1>1, <1>2, <1>4 DEF Regs
<1>5. CASE /\ mac' = [mac EXCEPT !.smb = TRUE] /\ phy' = [phy EXCEPT !.smb = TRUE]
           /\ GiveUp /\ ulpState' = ulpState
  <2>1. mac' \in MacRegs /\ mac'.wufc = mac.wufc /\ mac'.pme = mac.pme
    BY <1>1, <1>5 DEF MacRegs
  <2>2. /\ phy' \in PhyRegs /\ phy'.host = phy.host /\ phy'.wufc = phy.wufc
        /\ phy'.rar = phy.rar /\ phy'.proxy = phy.proxy /\ phy'.down = phy.down
        /\ phy'.ulp = phy.ulp /\ phy'.conf = phy.conf /\ phy'.wolHost = phy.wolHost
    BY <1>1, <1>5 DEF PhyRegs
  <2> QED
    BY <1>1, <1>2, <1>5, <2>1, <2>2 DEF Regs
<1> QED
  BY <1>3, <1>4, <1>5 DEF ForceUlp

\* The registers keep their types, and only parts that have ULP and no ME are ever
\* configured for SMBus mode.
LEMMA RegsStep ==
  ASSUME Regs, SmbParts, PartsInv, Locals, PowerNext
  PROVE  Regs' /\ SmbParts'
<1> USE DEF Regs, SmbParts, idleVars, wireVars, driver, hard, suspending, resuming
<1>1. ASSUME WireChange \/ LinkChange \/ MeBlocks \/ MeStarts
      PROVE  Regs' /\ SmbParts'
  BY <1>1 DEF WireChange, LinkChange, MeBlocks, MeStarts, MeRegs
<1>2. ASSUME MeEnters \/ MeLeaves
      PROVE  Regs' /\ SmbParts'
  BY <1>2 DEF MeEnters, MeLeaves, MeRegs, PhyRegs
<1>3. ASSUME Perst
      PROVE  Regs' /\ SmbParts'
  BY <1>3 DEF Perst, MacRegs, PhyRegs
<1>4. ASSUME \/ \E w \in Wols : SetWol(w)
             \/ SetMac \/ Watchdog \/ RuntimeIdle \/ RuntimeSuspend
      PROVE  Regs' /\ SmbParts'
  BY <1>4 DEF SetWol, SetMac, Watchdog, RuntimeIdle, RuntimeSuspend, PhyRegs
<1>5. ASSUME Suspend \/ ReadStatus \/ ArmMac \/ NoUlp \/ Release \/ Request
      PROVE  Regs' /\ SmbParts'
  BY <1>5 DEF Suspend, ReadStatus, ArmMac, NoUlp, Release, Request, MacRegs, Locals
<1>6. ASSUME ResetTask PROVE Regs' /\ SmbParts'
  BY <1>6, ResetTaskAt DEF MacRegs
<1>7. ASSUME Disarm PROVE Regs' /\ SmbParts'
  BY <1>7, DisarmAt DEF MacRegs
<1>8. ASSUME Prepare PROVE Regs' /\ SmbParts'
  BY <1>8, PrepareAt
<1>9. ASSUME CopyRxAddrs PROVE Regs' /\ SmbParts'
  BY <1>9 DEF CopyRxAddrs, PhyRegs
<1>10. ASSUME ArmPhy PROVE Regs' /\ SmbParts'
  BY <1>10, ZenonT(30) DEF ArmPhy, MacRegs, PhyRegs, Locals
<1>11. ASSUME AskMe \/ CableGone \/ LinkWakes \/ InitPhy \/ MeAnswered \/ MeSilent \/ ClearProxy
       PROVE  Regs' /\ SmbParts'
  BY <1>11 DEF AskMe, CableGone, LinkWakes, InitPhy, MeAnswered, MeSilent, ClearProxy, PhyRegs, MeRegs
<1>12. ASSUME ForceUlp PROVE Regs' /\ SmbParts'
  BY <1>12, ForceUlpAt DEF PartsInv
<1>13. ASSUME ExitUlp PROVE Regs' /\ SmbParts'
  BY <1>13, ExitUlpAt DEF PartsInv
<1>14. ASSUME AccessPhy PROVE Regs' /\ SmbParts'
  BY <1>14, AccessPhyAt
<1>15. ASSUME ResetAndUp PROVE Regs' /\ SmbParts'
  BY <1>15, ResetAndUpAt DEF MacRegs
<1> QED
  BY <1>1, <1>2, <1>3, <1>4, <1>5, <1>6, <1>7, <1>8, <1>9, <1>10, <1>11, <1>12, <1>13, <1>14, <1>15
     DEF PowerNext
-----------------------------------------------------------------------------
(* The invariant.                                                          *)

\* PartsInv is kept.
LEMMA PartsStep ==
  ASSUME Regs, Locals, SmbParts, PartsInv, MeInv, PowerNext
  PROVE  PartsInv'
<1> USE DEF PartsInv, MeInv, SmbParts, Regs, MacRegs, PhyRegs, MeRegs, idleVars, wireVars, driver, hard, suspending, resuming
<1>1. ASSUME WireChange \/ LinkChange \/ MeBlocks \/ Perst
       PROVE  PartsInv'
  BY <1>1 DEF WireChange, LinkChange, MeBlocks, Perst
<1>2. ASSUME MeStarts \/ MeEnters \/ MeLeaves
       PROVE  PartsInv'
  BY <1>2 DEF MeStarts, MeEnters, MeLeaves
<1>3. ASSUME \/ \E w \in Wols : SetWol(w)
             \/ SetMac \/ Watchdog \/ RuntimeIdle \/ RuntimeSuspend \/ Suspend
       PROVE  PartsInv'
  BY <1>3 DEF SetWol, SetMac, Watchdog, RuntimeIdle, RuntimeSuspend, Suspend
<1>4. ASSUME ResetTask
       PROVE  PartsInv'
  BY <1>4, ResetTaskAt
<1>5. ASSUME ReadStatus \/ CopyRxAddrs \/ ArmMac \/ NoUlp \/ Release
       PROVE  PartsInv'
  BY <1>5 DEF ReadStatus, CopyRxAddrs, ArmMac, NoUlp, Release
<1>6. ASSUME Disarm
       PROVE  PartsInv'
  BY <1>6, DisarmAt
<1>7. ASSUME Prepare
       PROVE  PartsInv'
  BY <1>7, PrepareAt
<1>8. ASSUME ArmPhy
       PROVE  PartsInv'
  BY <1>8 DEF ArmPhy, GiveUp
<1>9. ASSUME CableGone
       PROVE  PartsInv'
  BY <1>9 DEF CableGone, GiveUp, WantsUlp
<1>10. ASSUME AskMe
        PROVE  PartsInv'
  BY <1>10 DEF AskMe, WantsUlp
<1>11. ASSUME ForceUlp
        PROVE  PartsInv'
  BY <1>11, ForceUlpAt DEF GiveUp
<1>12. ASSUME Request \/ LinkWakes \/ InitPhy
        PROVE  PartsInv'
  BY <1>12 DEF Request, LinkWakes, InitPhy
<1>13. ASSUME MeAnswered \/ MeSilent \/ ClearProxy
        PROVE  PartsInv'
  BY <1>13 DEF MeAnswered, MeSilent, ClearProxy
<1>14. ASSUME ExitUlp
        PROVE  PartsInv'
  BY <1>14, ExitUlpAt
<1>15. ASSUME AccessPhy
        PROVE  PartsInv'
  BY <1>15, AccessPhyAt
<1>16. ASSUME ResetAndUp
        PROVE  PartsInv'
  BY <1>16, ResetAndUpAt
<1> QED
  BY <1>1, <1>2, <1>3, <1>4, <1>5, <1>6, <1>7, <1>8, <1>9, <1>10, <1>11, <1>12, <1>13, <1>14, <1>15, <1>16
     DEF PowerNext

\* MeInv is kept.
LEMMA MeStep ==
  ASSUME Regs, Locals, PartsInv, MeInv, ArmInv, PowerNext
  PROVE  MeInv'
<1> USE DEF PartsInv, MeInv, ArmInv, Arming, Regs, MacRegs, PhyRegs, MeRegs, idleVars, wireVars, driver, hard, suspending, resuming
<1>1. ASSUME WireChange \/ LinkChange \/ MeBlocks \/ Perst
       PROVE  MeInv'
  BY <1>1 DEF WireChange, LinkChange, MeBlocks, Perst
<1>2. ASSUME MeStarts \/ MeEnters \/ MeLeaves
       PROVE  MeInv'
  BY <1>2 DEF MeStarts, MeEnters, MeLeaves
<1>3. ASSUME \/ \E w \in Wols : SetWol(w)
             \/ SetMac \/ Watchdog \/ RuntimeIdle \/ RuntimeSuspend \/ Suspend
       PROVE  MeInv'
  BY <1>3 DEF SetWol, SetMac, Watchdog, RuntimeIdle, RuntimeSuspend, Suspend
<1>4. ASSUME ResetTask
       PROVE  MeInv'
  BY <1>4, ResetTaskAt
<1>5. ASSUME ReadStatus \/ CopyRxAddrs \/ ArmMac \/ NoUlp \/ Release
       PROVE  MeInv'
  BY <1>5 DEF ReadStatus, CopyRxAddrs, ArmMac, NoUlp, Release
<1>6. ASSUME Disarm
       PROVE  MeInv'
  BY <1>6, DisarmAt
<1>7. ASSUME Prepare
       PROVE  MeInv'
  BY <1>7, PrepareAt
<1>8. ASSUME ArmPhy
       PROVE  MeInv'
  BY <1>8 DEF ArmPhy, GiveUp
<1>9. ASSUME CableGone
       PROVE  MeInv'
  BY <1>9 DEF CableGone, GiveUp, WantsUlp
<1>10. ASSUME AskMe
        PROVE  MeInv'
  BY <1>10 DEF AskMe, WantsUlp
<1>11. ASSUME ForceUlp
        PROVE  MeInv'
  BY <1>11, ForceUlpAt DEF GiveUp
<1>12. ASSUME Request \/ LinkWakes \/ InitPhy
        PROVE  MeInv'
  BY <1>12 DEF Request, LinkWakes, InitPhy
<1>13. ASSUME MeAnswered \/ MeSilent \/ ClearProxy
        PROVE  MeInv'
  BY <1>13 DEF MeAnswered, MeSilent, ClearProxy
<1>14. ASSUME ExitUlp
        PROVE  MeInv'
  BY <1>14, ExitUlpAt
<1>15. ASSUME AccessPhy
        PROVE  MeInv'
  BY <1>15, AccessPhyAt
<1>16. ASSUME ResetAndUp
        PROVE  MeInv'
  BY <1>16, ResetAndUpAt
<1> QED
  BY <1>1, <1>2, <1>3, <1>4, <1>5, <1>6, <1>7, <1>8, <1>9, <1>10, <1>11, <1>12, <1>13, <1>14, <1>15, <1>16
     DEF PowerNext

\* UlpInv is kept: a PHY is put into ULP only on the way to sleep.
LEMMA UlpStep ==
  ASSUME Regs, Locals, PartsInv, MeInv, UlpInv, PowerNext
  PROVE  UlpInv'
<1> USE DEF PartsInv, MeInv, UlpInv, Regs, MacRegs, PhyRegs, MeRegs, idleVars, wireVars, driver, hard, suspending, resuming
<1>1. ASSUME WireChange \/ LinkChange \/ MeBlocks \/ Perst
       PROVE  UlpInv'
  BY <1>1 DEF WireChange, LinkChange, MeBlocks, Perst
<1>2. ASSUME MeStarts \/ MeEnters \/ MeLeaves
       PROVE  UlpInv'
  BY <1>2 DEF MeStarts, MeEnters, MeLeaves
<1>3. ASSUME \/ \E w \in Wols : SetWol(w)
             \/ SetMac \/ Watchdog \/ RuntimeIdle \/ RuntimeSuspend \/ Suspend
       PROVE  UlpInv'
  BY <1>3 DEF SetWol, SetMac, Watchdog, RuntimeIdle, RuntimeSuspend, Suspend
<1>4. ASSUME ResetTask
       PROVE  UlpInv'
  BY <1>4, ResetTaskAt
<1>5. ASSUME ReadStatus \/ CopyRxAddrs \/ ArmMac \/ NoUlp \/ Release
       PROVE  UlpInv'
  BY <1>5 DEF ReadStatus, CopyRxAddrs, ArmMac, NoUlp, Release
<1>6. ASSUME Disarm
       PROVE  UlpInv'
  BY <1>6, DisarmAt
<1>7. ASSUME Prepare
       PROVE  UlpInv'
  BY <1>7, PrepareAt
<1>8. ASSUME ArmPhy
       PROVE  UlpInv'
  BY <1>8 DEF ArmPhy, GiveUp
<1>9. ASSUME CableGone
       PROVE  UlpInv'
  BY <1>9 DEF CableGone, GiveUp, WantsUlp
<1>10. ASSUME AskMe
        PROVE  UlpInv'
  BY <1>10 DEF AskMe, WantsUlp
<1>11. ASSUME ForceUlp
        PROVE  UlpInv'
  BY <1>11, ForceUlpAt DEF GiveUp
<1>12. ASSUME Request \/ LinkWakes \/ InitPhy
        PROVE  UlpInv'
  BY <1>12 DEF Request, LinkWakes, InitPhy
<1>13. ASSUME MeAnswered \/ MeSilent \/ ClearProxy
        PROVE  UlpInv'
  BY <1>13 DEF MeAnswered, MeSilent, ClearProxy
<1>14. ASSUME ExitUlp
        PROVE  UlpInv'
  BY <1>14, ExitUlpAt
<1>15. ASSUME AccessPhy
        PROVE  UlpInv'
  BY <1>15, AccessPhyAt
<1>16. ASSUME ResetAndUp
        PROVE  UlpInv'
  BY <1>16, ResetAndUpAt
<1> QED
  BY <1>1, <1>2, <1>3, <1>4, <1>5, <1>6, <1>7, <1>8, <1>9, <1>10, <1>11, <1>12, <1>13, <1>14, <1>15, <1>16
     DEF PowerNext

\* What the driver holds of ULP stays true.
LEMMA UlpStateStep ==
  ASSUME Regs, Locals, SmbParts, PartsInv, MeInv, UlpStateTrue, PowerNext
  PROVE  UlpStateTrue'
<1> USE DEF SmbParts, PartsInv, MeInv, UlpStateTrue, Regs, MacRegs, PhyRegs, MeRegs, idleVars, wireVars, driver, hard, suspending, resuming
<1>1. ASSUME WireChange \/ LinkChange \/ MeBlocks \/ Perst
       PROVE  UlpStateTrue'
  BY <1>1 DEF WireChange, LinkChange, MeBlocks, Perst
<1>2. ASSUME MeStarts \/ MeEnters \/ MeLeaves
       PROVE  UlpStateTrue'
  BY <1>2 DEF MeStarts, MeEnters, MeLeaves
<1>3. ASSUME \/ \E w \in Wols : SetWol(w)
             \/ SetMac \/ Watchdog \/ RuntimeIdle \/ RuntimeSuspend \/ Suspend
       PROVE  UlpStateTrue'
  BY <1>3 DEF SetWol, SetMac, Watchdog, RuntimeIdle, RuntimeSuspend, Suspend
<1>4. ASSUME ResetTask
       PROVE  UlpStateTrue'
  BY <1>4, ResetTaskAt
<1>5. ASSUME ReadStatus \/ CopyRxAddrs \/ ArmMac \/ NoUlp \/ Release
       PROVE  UlpStateTrue'
  BY <1>5 DEF ReadStatus, CopyRxAddrs, ArmMac, NoUlp, Release
<1>6. ASSUME Disarm
       PROVE  UlpStateTrue'
  BY <1>6, DisarmAt
<1>7. ASSUME Prepare
       PROVE  UlpStateTrue'
  BY <1>7, PrepareAt
<1>8. ASSUME ArmPhy
       PROVE  UlpStateTrue'
  <2>1. /\ UNCHANGED <<me, ulpState>> /\ phy'.ulp = phy.ulp /\ phy'.conf = phy.conf
        /\ phy'.wolHost = phy.wolHost
    BY <1>8 DEF ArmPhy
  <2>2. ill \subseteq ill'
    BY <1>8 DEF ArmPhy, GiveUp
  <2>3. "raced" \in ill => "raced" \in ill'
    BY <2>2
  <2> QED
    BY <2>1, <1>8 DEF ArmPhy, GiveUp
<1>9. ASSUME CableGone
       PROVE  UlpStateTrue'
  BY <1>9 DEF CableGone, GiveUp, WantsUlp
<1>10. ASSUME AskMe
        PROVE  UlpStateTrue'
  BY <1>10 DEF AskMe, WantsUlp
<1>11. ASSUME ForceUlp
        PROVE  UlpStateTrue'
  BY <1>11, ForceUlpAt DEF GiveUp
<1>12. ASSUME Request \/ LinkWakes \/ InitPhy
        PROVE  UlpStateTrue'
  BY <1>12 DEF Request, LinkWakes, InitPhy
<1>13. ASSUME MeAnswered \/ MeSilent \/ ClearProxy
        PROVE  UlpStateTrue'
  BY <1>13 DEF MeAnswered, MeSilent, ClearProxy
<1>14. ASSUME ExitUlp
        PROVE  UlpStateTrue'
  BY <1>14, ExitUlpAt
<1>15. ASSUME AccessPhy
        PROVE  UlpStateTrue'
  BY <1>15, AccessPhyAt
<1>16. ASSUME ResetAndUp
        PROVE  UlpStateTrue'
  BY <1>16, ResetAndUpAt
<1> QED
  BY <1>1, <1>2, <1>3, <1>4, <1>5, <1>6, <1>7, <1>8, <1>9, <1>10, <1>11, <1>12, <1>13, <1>14, <1>15, <1>16
     DEF PowerNext

\* SmbInv is kept.
LEMMA SmbStep ==
  ASSUME Regs, Locals, SmbParts, PartsInv, MeInv, UlpInv, SmbInv, PowerNext
  PROVE  SmbInv'
<1> USE DEF SmbParts, PartsInv, MeInv, UlpInv, SmbInv, Intact, Regs, MacRegs, PhyRegs, MeRegs, idleVars, wireVars, driver, hard, suspending, resuming
<1>1. ASSUME WireChange \/ LinkChange \/ MeBlocks \/ Perst
       PROVE  SmbInv'
  BY <1>1 DEF WireChange, LinkChange, MeBlocks, Perst
<1>2. ASSUME MeStarts \/ MeEnters \/ MeLeaves
       PROVE  SmbInv'
  BY <1>2 DEF MeStarts, MeEnters, MeLeaves
<1>3. ASSUME \/ \E w \in Wols : SetWol(w)
             \/ SetMac \/ Watchdog \/ RuntimeIdle \/ RuntimeSuspend \/ Suspend
       PROVE  SmbInv'
  BY <1>3 DEF SetWol, SetMac, Watchdog, RuntimeIdle, RuntimeSuspend, Suspend
<1>4. ASSUME ResetTask
       PROVE  SmbInv'
  BY <1>4, ResetTaskAt
<1>5. ASSUME ReadStatus \/ CopyRxAddrs \/ ArmMac \/ NoUlp \/ Release
       PROVE  SmbInv'
  BY <1>5 DEF ReadStatus, CopyRxAddrs, ArmMac, NoUlp, Release
<1>6. ASSUME Disarm
       PROVE  SmbInv'
  BY <1>6, DisarmAt
<1>7. ASSUME Prepare
       PROVE  SmbInv'
  BY <1>7, PrepareAt
<1>8. ASSUME ArmPhy
       PROVE  SmbInv'
  BY <1>8 DEF ArmPhy, GiveUp
<1>9. ASSUME CableGone
       PROVE  SmbInv'
  BY <1>9 DEF CableGone, GiveUp, WantsUlp
<1>10. ASSUME AskMe
        PROVE  SmbInv'
  BY <1>10 DEF AskMe, WantsUlp
<1>11. ASSUME ForceUlp
        PROVE  SmbInv'
  BY <1>11, ForceUlpAt DEF GiveUp
<1>12. ASSUME Request \/ LinkWakes \/ InitPhy
        PROVE  SmbInv'
  BY <1>12 DEF Request, LinkWakes, InitPhy
<1>13. ASSUME MeAnswered \/ MeSilent \/ ClearProxy
        PROVE  SmbInv'
  BY <1>13 DEF MeAnswered, MeSilent, ClearProxy
<1>14. ASSUME ExitUlp
        PROVE  SmbInv'
  BY <1>14, ExitUlpAt
<1>15. ASSUME AccessPhy
        PROVE  SmbInv'
  BY <1>15, AccessPhyAt
<1>16. ASSUME ResetAndUp
        PROVE  SmbInv'
  BY <1>16, ResetAndUpAt
<1> QED
  BY <1>1, <1>2, <1>3, <1>4, <1>5, <1>6, <1>7, <1>8, <1>9, <1>10, <1>11, <1>12, <1>13, <1>14, <1>15, <1>16
     DEF PowerNext

\* AwakeInv is kept: a resume undoes what the suspend did.
LEMMA AwakeStep ==
  ASSUME Regs, Locals, PartsInv, UlpInv, SmbInv, ArmInv, AwakeInv, PowerNext
  PROVE  AwakeInv'
<1> USE DEF PartsInv, UlpInv, SmbInv, ArmInv, AwakeInv, Intact, Armed, Regs, MacRegs, PhyRegs, MeRegs, idleVars, wireVars, driver, hard, suspending, resuming
<1>1. ASSUME WireChange \/ LinkChange \/ MeBlocks \/ Perst
       PROVE  AwakeInv'
  BY <1>1 DEF WireChange, LinkChange, MeBlocks, Perst
<1>2. ASSUME MeStarts \/ MeEnters \/ MeLeaves
       PROVE  AwakeInv'
  BY <1>2 DEF MeStarts, MeEnters, MeLeaves
<1>3. ASSUME \/ \E w \in Wols : SetWol(w)
             \/ SetMac \/ Watchdog \/ RuntimeIdle \/ RuntimeSuspend \/ Suspend
       PROVE  AwakeInv'
  BY <1>3 DEF SetWol, SetMac, Watchdog, RuntimeIdle, RuntimeSuspend, Suspend
<1>4. ASSUME ResetTask
       PROVE  AwakeInv'
  BY <1>4, ResetTaskAt, ZenonT(30)
<1>5. ASSUME ReadStatus \/ CopyRxAddrs \/ ArmMac \/ NoUlp \/ Release
       PROVE  AwakeInv'
  BY <1>5 DEF ReadStatus, CopyRxAddrs, ArmMac, NoUlp, Release
<1>6. ASSUME Disarm
       PROVE  AwakeInv'
  BY <1>6, DisarmAt
<1>7. ASSUME Prepare
       PROVE  AwakeInv'
  BY <1>7, PrepareAt
<1>8. ASSUME ArmPhy
       PROVE  AwakeInv'
  BY <1>8 DEF ArmPhy, GiveUp
<1>9. ASSUME CableGone
       PROVE  AwakeInv'
  BY <1>9 DEF CableGone, GiveUp, WantsUlp
<1>10. ASSUME AskMe
        PROVE  AwakeInv'
  BY <1>10 DEF AskMe, WantsUlp
<1>11. ASSUME ForceUlp
        PROVE  AwakeInv'
  BY <1>11, ForceUlpAt DEF GiveUp
<1>12. ASSUME Request \/ LinkWakes \/ InitPhy
        PROVE  AwakeInv'
  BY <1>12 DEF Request, LinkWakes, InitPhy
<1>13. ASSUME MeAnswered \/ MeSilent PROVE  AwakeInv'
  BY <1>13 DEF MeAnswered, MeSilent
<1>17. ASSUME ClearProxy PROVE  AwakeInv'
  <2>1. PICK ok \in Tries :
          /\ phy' = [phy EXCEPT !.proxy = @ /\ ~(ok /\ Reach(mac, phy) /\ ~adapter.me)]
          /\ ill' = (IF ok THEN ill ELSE ill \cup {"access"})
    BY <1>17 DEF ClearProxy
  <2>2. /\ phy' \in PhyRegs
        /\ ok /\ Reach(mac, phy) /\ ~adapter.me => ~phy'.proxy
        /\ ~phy.proxy => ~phy'.proxy
    BY <2>1
  <2>3. Intact' /\ "raced" \notin ill' => ok /\ Intact /\ "raced" \notin ill
    BY <2>1
  <2>4. pc = "irst" /\ pc' = "reset"
    BY <1>17 DEF ClearProxy
  <2>5. Intact /\ "raced" \notin ill => Reach(mac, phy)
    BY <2>4 DEF Reach
  <2>6. Intact' /\ "raced" \notin ill' => ~phy'.proxy
    BY <2>2, <2>3, <2>5
  <2> QED
    BY <2>4, <2>6
<1>14. ASSUME ExitUlp
        PROVE  AwakeInv'
  BY <1>14, ExitUlpAt
<1>15. ASSUME AccessPhy
        PROVE  AwakeInv'
  BY <1>15, AccessPhyAt
<1>16. ASSUME ResetAndUp
        PROVE  AwakeInv'
  BY <1>16, ResetAndUpAt
<1> QED
  BY <1>1, <1>2, <1>3, <1>4, <1>5, <1>6, <1>7, <1>8, <1>9, <1>10, <1>11, <1>12, <1>13, <1>14, <1>15, <1>16, <1>17
     DEF PowerNext

\* ArmInv is kept: what was decided is what is written.
LEMMA ArmStep ==
  ASSUME Regs, Locals, PartsInv, ArmInv, PowerNext
  PROVE  ArmInv'
<1> USE DEF PartsInv, ArmInv, Arming, Armed, Asked, Regs, MacRegs, PhyRegs, MeRegs, idleVars, wireVars, driver, hard, suspending, resuming
<1>1. ASSUME WireChange \/ LinkChange \/ MeBlocks \/ Perst
       PROVE  ArmInv'
  BY <1>1 DEF WireChange, LinkChange, MeBlocks, Perst
<1>2. ASSUME MeStarts \/ MeEnters \/ MeLeaves
       PROVE  ArmInv'
  BY <1>2 DEF MeStarts, MeEnters, MeLeaves
<1>3. ASSUME \/ \E w \in Wols : SetWol(w)
             \/ SetMac \/ Watchdog \/ RuntimeIdle \/ RuntimeSuspend \/ Suspend
       PROVE  ArmInv'
  BY <1>3 DEF SetWol, SetMac, Watchdog, RuntimeIdle, RuntimeSuspend, Suspend
<1>4. ASSUME ResetTask
       PROVE  ArmInv'
  BY <1>4, ResetTaskAt
<1>5. ASSUME ReadStatus PROVE  ArmInv'
  <2>1. UNCHANGED <<wol, target>> /\ linkWas' = link
    BY <1>5 DEF ReadStatus
  <2>2. wufc' = (IF target = "runtime" THEN {"LNKC"} ELSE wol) \ (IF link THEN {"LNKC"} ELSE {})
    BY <1>5 DEF ReadStatus
  <2>3. wufc' = Asked'
    BY <2>1, <2>2
  <2>4. pc' = (IF wufc' = {} THEN "disarm" ELSE "prepare")
    BY <1>5 DEF ReadStatus
  <2> QED
    BY <2>3, <2>4
<1>17. ASSUME CopyRxAddrs PROVE  ArmInv'
  <2>1. PICK ok \in Tries :
          /\ phy' = [phy EXCEPT !.rar = @ \/ (ok /\ Reach(mac, phy))]
          /\ ill' = (IF ok /\ Reach(mac, phy) THEN ill ELSE ill \cup {"uncopied"})
    BY <1>17 DEF CopyRxAddrs
  <2>2. CASE ok /\ Reach(mac, phy)
    <3>1. phy'.rar
      BY <2>1, <2>2
    <3> QED
      BY <1>17, <3>1 DEF CopyRxAddrs
  <2>3. CASE ~(ok /\ Reach(mac, phy))
    <3>1. "uncopied" \in ill'
      BY <2>1, <2>3
    <3> QED
      BY <1>17, <3>1 DEF CopyRxAddrs
  <2> QED
    BY <2>2, <2>3
<1>18. ASSUME ArmMac PROVE  ArmInv'
  BY <1>18 DEF ArmMac
<1>19. ASSUME NoUlp \/ Release PROVE  ArmInv'
  BY <1>19 DEF NoUlp, Release
<1>6. ASSUME Disarm
       PROVE  ArmInv'
  BY <1>6, DisarmAt
<1>7. ASSUME Prepare
       PROVE  ArmInv'
  BY <1>7, PrepareAt
<1>8. ASSUME ArmPhy
       PROVE  ArmInv'
  BY <1>8 DEF ArmPhy, GiveUp
<1>9. ASSUME CableGone
       PROVE  ArmInv'
  BY <1>9 DEF CableGone, GiveUp, WantsUlp
<1>10. ASSUME AskMe
        PROVE  ArmInv'
  BY <1>10 DEF AskMe, WantsUlp
<1>11. ASSUME ForceUlp
        PROVE  ArmInv'
  BY <1>11, ForceUlpAt DEF GiveUp
<1>12. ASSUME Request \/ LinkWakes \/ InitPhy
        PROVE  ArmInv'
  BY <1>12 DEF Request, LinkWakes, InitPhy
<1>13. ASSUME MeAnswered \/ MeSilent \/ ClearProxy
        PROVE  ArmInv'
  BY <1>13 DEF MeAnswered, MeSilent, ClearProxy
<1>14. ASSUME ExitUlp
        PROVE  ArmInv'
  BY <1>14, ExitUlpAt
<1>15. ASSUME AccessPhy
        PROVE  ArmInv'
  BY <1>15, AccessPhyAt
<1>16. ASSUME ResetAndUp
        PROVE  ArmInv'
  BY <1>16, ResetAndUpAt
<1> QED
  BY <1>1, <1>2, <1>3, <1>4, <1>5, <1>6, <1>7, <1>8, <1>9, <1>10, <1>11, <1>12, <1>13, <1>14, <1>15, <1>16,
     <1>17, <1>18, <1>19
     DEF PowerNext
-----------------------------------------------------------------------------
(* The theorems.                                                           *)

\* Probing leaves a device that satisfies it.
LEMMA IInvInit == PowerInit => IInv
<1> SUFFICES ASSUME PowerInit
             PROVE  IInv
  OBVIOUS
<1> USE DEF PowerInit
<1>1. Regs
  <2>1. adapter \in Adapter
    BY PowerAssumption
  <2>2. (~adapter.open /\ ~adapter.me) \in BOOLEAN
    OBVIOUS
  <2> QED
    BY <2>2 DEF Regs, MacRegs, PhyRegs, MeRegs
<1>2. Flags
  BY Zenon DEF Flags
<1>3. Locals
  BY PowerAssumption DEF Locals
<1>4. SmbParts /\ PartsInv
  BY DEF SmbParts, PartsInv
<1>5. PowerTypeOK
  BY <1>1, <1>2, <1>3, <1>4, TypesAre
<1>6. MeInv /\ UlpInv /\ UlpStateTrue
  BY DEF MeInv, UlpInv, UlpStateTrue
<1>7. SmbInv /\ AwakeInv /\ ArmInv
  BY DEF SmbInv, AwakeInv, ArmInv, Arming, Armed
<1> QED
  BY <1>5, <1>4, <1>6, <1>7 DEF IInv

\* Every step keeps it.
LEMMA IInvNext == IInv /\ [PowerNext]_powerVars => IInv'
<1>1. ASSUME IInv, PowerNext
      PROVE  IInv'
  <2>1. Regs /\ Flags /\ Locals /\ SmbParts
    BY <1>1, TypesAre DEF IInv
  <2>2. Regs' /\ Flags' /\ Locals' /\ SmbParts'
    BY <1>1, <2>1, RegsStep, FlagsStep, LocalsStep DEF IInv
  <2>3. PowerTypeOK'
    BY <2>2, TypesAreNext
  <2>4. PartsInv' /\ MeInv' /\ UlpInv' /\ UlpStateTrue'
    BY <1>1, <2>1, PartsStep, MeStep, UlpStep, UlpStateStep DEF IInv
  <2>5. SmbInv' /\ AwakeInv' /\ ArmInv'
    BY <1>1, <2>1, SmbStep, AwakeStep, ArmStep DEF IInv
  <2> QED
    BY <2>3, <2>4, <2>5 DEF IInv
<1>2. ASSUME IInv, UNCHANGED powerVars
      PROVE  IInv'
  <2> USE <1>2 DEF powerVars, wireVars, idleVars
  <2>1. PowerTypeOK'
    BY DEF IInv, PowerTypeOK
  <2>2. PartsInv' /\ MeInv' /\ UlpInv' /\ UlpStateTrue'
    BY DEF IInv, PartsInv, MeInv, UlpInv, UlpStateTrue
  <2>3. SmbInv' /\ AwakeInv' /\ ArmInv'
    BY DEF IInv, SmbInv, AwakeInv, ArmInv, Intact, Asked
  <2> QED
    BY <2>1, <2>2, <2>3 DEF IInv
<1> QED
  BY <1>1, <1>2

\* The inductive invariant of suspend and resume (__e1000_shutdown, __e1000_resume).
THEOREM PowerInductive == PowerSpec => []IInv
<1> QED
  BY IInvInit, IInvNext, PTL DEF PowerSpec

\* A device that has come back from a suspend works and has nothing armed, and the driver
\* does not take ULP for off while the PHY is in it - for any adapter, whatever failed on
\* the way within the exceptions the property names (__e1000_resume, e1000_reset_hw_ich8lan).
THEOREM ResumedDeviceWorks == PowerSpec => []AwakeRight
<1>1. IInv => AwakeRight
  <2> SUFFICES ASSUME IInv
               PROVE  AwakeRight
    OBVIOUS
  <2>1. ill \cap {"thawed", "ulp", "access"} = {} => Intact
    BY DEF Intact
  <2>2. ~Troubled => Intact /\ "raced" \notin ill
    BY DEF Intact, Troubled
  <2>3. DeviceWorks
    <3> SUFFICES ASSUME pc = "run", Intact
                 PROVE  /\ ~mac.smb /\ ~phy.smb
                        /\ phy.ulp => "raced" \in ill
                        /\ mac.dma
                        /\ adapter.open => ~phy.down
      BY <2>1 DEF DeviceWorks
    <3>1. ~mac.smb /\ ~phy.smb
      BY DEF IInv, SmbInv
    <3>2. phy.ulp => "raced" \in ill
      BY DEF IInv, UlpInv, Intact
    <3>3. mac.dma /\ (adapter.open => ~phy.down)
      BY DEF IInv, AwakeInv, Intact
    <3> QED
      BY <3>1, <3>2, <3>3
  <2>4. AwakeIsDisarmed
    BY <2>2 DEF AwakeIsDisarmed, IInv, AwakeInv, Intact
  <2> QED
    BY <2>3, <2>4 DEF AwakeRight, IInv
<1> QED
  BY <1>1, PowerInductive, PTL

\* A device that sleeps is armed for exactly what it was asked to wake for, in the MAC and
\* in the PHY, and its PHY is not in ULP if that could not wake it (__e1000_shutdown).
THEOREM ArmedAsAsked == PowerSpec => []ArmedRight
<1>1. IInv => ArmedRight
  <2> SUFFICES ASSUME IInv, pc = "asleep"
               PROVE  ArmedRight
    BY DEF ArmedRight, WakeAsAsked, UlpCanWake
  <2>1. wufc = Asked
    BY DEF IInv, ArmInv, Arming
  <2>2. ~Troubled => Intact /\ "raced" \notin ill
    BY DEF Intact, Troubled
  <2>3. WakeAsAsked
    BY <2>1, <2>2 DEF WakeAsAsked, IInv, ArmInv, AwakeInv, Armed
  <2>4. UlpCanWake
    BY <2>1 DEF UlpCanWake, IInv, UlpInv
  <2> QED
    BY <2>3, <2>4 DEF ArmedRight
<1> QED
  BY <1>1, PowerInductive, PTL
=============================================================================
