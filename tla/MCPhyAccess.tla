---------------------------- MODULE MCPhyAccess ----------------------------
(* The adapters TLC looks at: each with its PHY and what its threads call. *)
EXTENDS PhyDiscipline, TLC

CONSTANTS First, Second

Adapter(lock, first, second) == [family |-> lock, calls |-> (First :> first @@ Second :> second)]

\* Two threads, of accesses that take the lock first.
PchStats == Adapter("ich", {"stats", "emi"}, {"rars"})
PchModify == Adapter("ich", {"modify", "kmrn"}, {"stats", "kmrn"})
\* One thread, of long sequences, of accesses that store phy.addr first, or that go on without the lock.
PchSingle == Adapter("ich", {"wake", "page0", "flow", "wakeup", "debug", "accessible"}, {})
PchForced == Adapter("ich", {"powerdown", "inaccessible", "reset"}, {})
PchGate == Adapter("ich", {"low"}, {"gate"})
BmPages == Adapter("ich", {"bmOne", "bmHigh"}, {"bmWakeup"})
BmAddrs == Adapter("ich", {"bmLow"}, {"bmCtrl"})
IchIgp == Adapter("ich", {"igpLow"}, {"igpHigh"})
Bm82574 == Adapter("82574", {"bm2Low", "bm2High"}, {"bm2High", "bm2Wakeup"})
Igp82571 == Adapter("82571", {"igpLow", "igpHigh"}, {"igpHigh", "m88"})
Gg80003 == Adapter("80003", {"gg0"}, {"gg1", "ggKmrn"})
Ports80003 == Adapter("80003", {"gg0"}, {"other"})

\* Two threads of accesses that store phy.addr first.
MCUnlocked == {Adapter("ich", {"low"}, {"flow"})}

MCSetups == {PchStats, PchModify, PchSingle, PchForced, PchGate, BmPages, BmAddrs, IchIgp, Bm82574, Igp82571,
             Gg80003, Ports80003}

\* The functions that touch phy.addr under the lock only: any threads may call any of them.
Sheltered ==
  {"modify", "emi", "kmrn", "stats", "rars", "wake", "accessible", "gate", "reset", "bmLow", "bmOne", "bmHigh",
   "bmCtrl", "bmWakeup", "bm2Low", "bm2High", "bm2Wakeup"}

ASSUME ShelteredTogether == \A c \in Sheltered : SelfAimed(c) /\ ~Loose(c)

\* What the theorem about all threads asks of the adapters is true of all but the two ports of
\* an 80003ES2LAN, which the model gives one PHY, and tells MCUnlocked apart.
ASSUME SetupsOrderly ==
  /\ \A s \in MCSetups \ {Ports80003} : Orderly(s.family, s.calls)
  /\ \A s \in MCUnlocked \cup {Ports80003} : ~Orderly(s.family, s.calls)
=============================================================================
