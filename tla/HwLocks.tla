------------------------------ MODULE HwLocks ------------------------------
(***************************************************************************)
(* The locks that keep the driver's threads, the other port's driver and   *)
(* the firmware off the PHY, the Kumeran interface and the NVM at once.    *)
(* There are four, one for each family of adapters:                        *)
(*   "ich"    a bit of adapter->state, then SWFLAG of EXTCNF_CTRL, which   *)
(*            the hardware grants when the firmware does not have it;      *)
(*   "82574"  a mutex, then MDIO_SW_OWNERSHIP of EXTCNF_CTRL;              *)
(*   "82571"  SMBI of SWSM, which a read sets, then SWESMBI, which latches *)
(*            when the firmware does not have it;                          *)
(*   "80003"  the same two bits around SW_FW_SYNC, which has one bit for   *)
(*            each resource and side.                                      *)
(* Every wait may time out.  The ghost forced records the ways in which    *)
(* some code went on without the lock, or changed it without having it.    *)
(***************************************************************************)
EXTENDS FiniteSets

CONSTANTS
  Threads, NoThread,  \* threads that use the locks, of either port's driver
  LockFamilies,       \* the families a run looks at
  Masks,              \* the resources SW_FW_SYNC has bits for
  FwActive            \* whether there is firmware that uses the PHY

ASSUME NoThreadAssumption == NoThread \notin Threads
ASSUME FamilyAssumption == LockFamilies \subseteq {"ich", "82574", "82571", "80003"}
ASSUME FwAssumption == FwActive \in BOOLEAN

VARIABLES
  family,   \* the adapter's lock family
  pc,       \* where each thread is in an acquire or a release
  mask,     \* the resource it is for
  busy,     \* who holds ACCESS_SHARED_RESOURCE, or swflag_mutex
  flag,     \* SWFLAG or MDIO_SW_OWNERSHIP: "clear", "asked" or "held"
  smbi,     \* SWSM.SMBI
  swesmbi,  \* SWSM.SWESMBI
  sync,     \* SW_FW_SYNC: the <<resource, side>> marked as in use
  seen,     \* SW_FW_SYNC as a thread read it before it writes it back
  seenFlag, \* whether SWFLAG was set when a thread read EXTCNF_CTRL to write it back
  fw,       \* the firmware has the semaphore
  forced    \* "smbi", "gate", "reset", "reacquire": see above

lockVars == <<family, pc, mask, busy, flag, smbi, swesmbi, sync, seen, seenFlag, fw, forced>>

SemPcs == {"smbi", "latch", "look", "put", "fail"}
GivePcs == {"gsmbi", "glatch", "glook", "gput"}
LockPcs == {"out", "in", "failed", "poll", "ask", "drop", "undo", "leave", "gate"} \cup SemPcs \cup GivePcs

LockTypeOK ==
  /\ family \in LockFamilies
  /\ pc \in [Threads -> LockPcs]
  /\ mask \in [Threads -> Masks]
  /\ busy \in Threads \cup {NoThread}
  /\ flag \in {"clear", "asked", "held"}
  /\ smbi \in BOOLEAN /\ swesmbi \in BOOLEAN /\ fw \in BOOLEAN
  /\ sync \subseteq Masks \X {"sw", "fw"}
  /\ seen \in [Threads -> SUBSET (Masks \X {"sw", "fw"})]
  /\ seenFlag \in [Threads -> BOOLEAN]
  /\ forced \subseteq {"smbi", "gate", "reset", "reacquire"}

\* The probe clears SMBI that a boot agent may have left.
LockInit ==
  /\ family \in LockFamilies
  /\ pc = [t \in Threads |-> "out"]
  /\ mask \in [Threads -> Masks]
  /\ busy = NoThread
  /\ flag = "clear"
  /\ smbi = FALSE /\ swesmbi = FALSE /\ fw = FALSE
  /\ sync = {}
  /\ seen = [t \in Threads |-> {}] /\ seenFlag = [t \in Threads |-> FALSE]
  /\ forced = {}
-----------------------------------------------------------------------------
Goto(t, l) == pc' = [pc EXCEPT ![t] = l]

\* The resource the next acquire is for: PHY0, PHY1, CSR or EEPROM.
Want(t, m) ==
  /\ pc[t] = "out"
  /\ mask' = [mask EXCEPT ![t] = m]
  /\ UNCHANGED <<family, pc, busy, flag, smbi, swesmbi, sync, seen, seenFlag, fw, forced>>

(* The software flag of the ICH and PCH adapters. *)

\* A thread that finds the bit taken does not wait: its access fails.
TestAndSet(t) ==
  /\ family = "ich" /\ pc[t] = "out"
  /\ IF busy = NoThread THEN busy' = t /\ Goto(t, "poll") ELSE busy' = busy /\ Goto(t, "failed")
  /\ UNCHANGED <<family, mask, flag, smbi, swesmbi, sync, seen, seenFlag, fw, forced>>

AskFlag(t) ==
  /\ family = "ich" /\ pc[t] = "poll" /\ flag = "clear"
  /\ flag' = "asked" /\ Goto(t, "ask")
  /\ UNCHANGED <<family, mask, busy, smbi, swesmbi, sync, seen, seenFlag, fw, forced>>

\* Some other software has the flag all the time.
PollTimesOut(t) ==
  /\ family = "ich" /\ pc[t] = "poll" /\ flag # "clear"
  /\ Goto(t, "undo")
  /\ UNCHANGED <<family, mask, busy, flag, smbi, swesmbi, sync, seen, seenFlag, fw, forced>>

SeeFlag(t) ==
  /\ family = "ich" /\ pc[t] = "ask" /\ flag = "held"
  /\ Goto(t, "in")
  /\ UNCHANGED <<family, mask, busy, flag, smbi, swesmbi, sync, seen, seenFlag, fw, forced>>

(* MDIO ownership of the 82574. *)
LockMutex(t) ==
  /\ family = "82574" /\ pc[t] = "out" /\ busy = NoThread
  /\ busy' = t /\ Goto(t, "ask")
  /\ UNCHANGED <<family, mask, flag, smbi, swesmbi, sync, seen, seenFlag, fw, forced>>

\* The bit is written again each time, and latches unless the firmware has it.
Own(t) ==
  /\ family = "82574" /\ pc[t] = "ask" /\ ~fw
  /\ flag' = "held" /\ Goto(t, "in")
  /\ UNCHANGED <<family, mask, busy, smbi, swesmbi, sync, seen, seenFlag, fw, forced>>

(* Both. *)

AskTimesOut(t) ==
  /\ pc[t] = "ask" /\ flag # "held" /\ (family = "82574" => fw)
  /\ Goto(t, "drop")
  /\ UNCHANGED <<family, mask, busy, flag, smbi, swesmbi, sync, seen, seenFlag, fw, forced>>

BadDrop(t) ==
  /\ pc[t] = "drop"
  /\ Goto(t, "undo")
  /\ UNCHANGED <<family, mask, busy, flag, smbi, swesmbi, sync, seen, seenFlag, fw, forced>>

\* The request is taken back, or the hardware would grant it later.
Drop(t) ==
  /\ pc[t] = "drop"
  /\ flag' = "clear" /\ Goto(t, "undo")
  /\ UNCHANGED <<family, mask, busy, smbi, swesmbi, sync, seen, seenFlag, fw, forced>>

BadUndo(t) ==
  /\ pc[t] = "undo"
  /\ Goto(t, "failed")
  /\ UNCHANGED <<family, mask, busy, flag, smbi, swesmbi, sync, seen, seenFlag, fw, forced>>

\* An acquire that fails gives back the bit, or the mutex.
Undo(t) ==
  /\ pc[t] = "undo"
  /\ busy' = NoThread /\ Goto(t, "failed")
  /\ UNCHANGED <<family, mask, flag, smbi, swesmbi, sync, seen, seenFlag, fw, forced>>

ClearFlag(t) ==
  /\ family \in {"ich", "82574"} /\ pc[t] = "in"
  /\ flag' = "clear" /\ Goto(t, "leave")
  /\ UNCHANGED <<family, mask, busy, smbi, swesmbi, sync, seen, seenFlag, fw, forced>>

Leave(t) ==
  /\ pc[t] = "leave"
  /\ busy' = NoThread /\ Goto(t, "out")
  /\ UNCHANGED <<family, mask, flag, smbi, swesmbi, sync, seen, seenFlag, fw, forced>>
-----------------------------------------------------------------------------
(* The semaphore of the 82571, and of the 80003ES2LAN around SW_FW_SYNC. *)

Ask(t) ==
  /\ family \in {"82571", "80003"} /\ pc[t] = "out"
  /\ Goto(t, "smbi")
  /\ UNCHANGED <<family, mask, busy, flag, smbi, swesmbi, sync, seen, seenFlag, fw, forced>>

Giving(t) == pc[t] \in GivePcs

ReadSmbi(t) ==
  /\ pc[t] \in {"smbi", "gsmbi"} /\ ~smbi
  /\ smbi' = TRUE /\ Goto(t, IF Giving(t) THEN "glatch" ELSE "latch")
  /\ UNCHANGED <<family, mask, busy, flag, swesmbi, sync, seen, seenFlag, fw, forced>>

\* The generic code gives up; the release of the 80003ES2LAN tries again, for ever.
SmbiTimesOut(t) ==
  /\ family = "80003" /\ pc[t] = "smbi" /\ smbi
  /\ Goto(t, "failed")
  /\ UNCHANGED <<family, mask, busy, flag, smbi, swesmbi, sync, seen, seenFlag, fw, forced>>

\* The 82571 code counts the time-out and goes on, for the sake of old drivers.
SmbiForced(t) ==
  /\ family = "82571" /\ pc[t] = "smbi" /\ smbi
  /\ forced' = forced \cup {"smbi"} /\ Goto(t, "latch")
  /\ UNCHANGED <<family, mask, busy, flag, smbi, swesmbi, sync, seen, seenFlag, fw>>

Latch(t) ==
  /\ pc[t] \in {"latch", "glatch"} /\ ~fw
  /\ swesmbi' = TRUE
  /\ Goto(t, CASE family = "82571" -> "in" [] Giving(t) -> "glook" [] OTHER -> "look")
  /\ UNCHANGED <<family, mask, busy, flag, smbi, sync, seen, seenFlag, fw, forced>>

\* Both bits go, whoever set them.
PutSemaphore == smbi' = FALSE /\ swesmbi' = FALSE

LatchTimesOut(t) ==
  /\ pc[t] \in {"latch", "glatch"} /\ fw
  /\ PutSemaphore
  /\ Goto(t, IF Giving(t) THEN "gsmbi" ELSE "failed")
  /\ UNCHANGED <<family, mask, busy, flag, sync, seen, seenFlag, fw, forced>>

ReleaseSemaphore(t) ==
  /\ family = "82571" /\ pc[t] = "in"
  /\ PutSemaphore /\ Goto(t, "out")
  /\ UNCHANGED <<family, mask, busy, flag, sync, seen, seenFlag, fw, forced>>

\* A local variable, dead after its use.
Forget(t) == seen' = [seen EXCEPT ![t] = {}]

BadFreeIn(r, m) == <<m, "fw">> \notin r

FreeIn(r, m) == <<m, "sw">> \notin r /\ <<m, "fw">> \notin r

Look(t) ==
  /\ pc[t] \in {"look", "glook"}
  /\ seen' = [seen EXCEPT ![t] = sync]
  /\ Goto(t, IF Giving(t) THEN "gput" ELSE IF FreeIn(sync, mask[t]) THEN "put" ELSE "fail")
  /\ UNCHANGED <<family, mask, busy, flag, smbi, swesmbi, sync, seenFlag, fw, forced>>

\* Somebody has the resource: the semaphore is put and taken again, up to 50 times.
PutBack(t, next) ==
  /\ pc[t] = "fail"
  /\ PutSemaphore
  /\ Goto(t, next) /\ Forget(t)
  /\ UNCHANGED <<family, mask, busy, flag, sync, seenFlag, fw, forced>>

InUse(t) == PutBack(t, "smbi")
Exhausted(t) == PutBack(t, "failed")

Claim(t) ==
  /\ pc[t] = "put"
  /\ sync' = seen[t] \cup {<<mask[t], "sw">>}
  /\ PutSemaphore /\ Goto(t, "in") /\ Forget(t)
  /\ UNCHANGED <<family, mask, busy, flag, seenFlag, fw, forced>>

Give(t) ==
  /\ family = "80003" /\ pc[t] = "in"
  /\ Goto(t, "gsmbi")
  /\ UNCHANGED <<family, mask, busy, flag, smbi, swesmbi, sync, seen, seenFlag, fw, forced>>

Disclaim(t) ==
  /\ pc[t] = "gput"
  /\ sync' = seen[t] \ {<<mask[t], "sw">>}
  /\ PutSemaphore /\ Goto(t, "out") /\ Forget(t)
  /\ UNCHANGED <<family, mask, busy, flag, seenFlag, fw, forced>>
-----------------------------------------------------------------------------
(* Code that goes on without the lock. *)

\* gate_hw_phy_config writes back EXTCNF_CTRL as it read it, with SWFLAG.
GateRead(t) ==
  /\ family = "ich" /\ pc[t] = "out"
  /\ seenFlag' = [seenFlag EXCEPT ![t] = (flag # "clear")] /\ Goto(t, "gate")
  /\ UNCHANGED <<family, mask, busy, flag, smbi, swesmbi, sync, seen, fw, forced>>

GateWrite(t) ==
  /\ pc[t] = "gate"
  /\ flag' = IF ~seenFlag[t] THEN "clear" ELSE IF flag = "clear" THEN "asked" ELSE flag
  /\ forced' = IF flag' = flag THEN forced ELSE forced \cup {"gate"}
  /\ Goto(t, "out")
  /\ UNCHANGED <<family, mask, busy, smbi, swesmbi, sync, seen, seenFlag, fw>>

\* The MAC is reset with the lock or without, and the reset clears the flag; the 82574
\* then releases what it took, the others only the bit of adapter->state.
ResetMac(t) ==
  /\ family \in {"ich", "82574"} /\ pc[t] \in {"in", "failed"}
  /\ flag' = "clear"
  /\ busy' = IF pc[t] = "in" THEN NoThread ELSE busy
  /\ forced' = IF busy' = NoThread THEN forced ELSE forced \cup {"reset"}
  /\ Goto(t, "out")
  /\ UNCHANGED <<family, mask, smbi, swesmbi, sync, seen, seenFlag, fw>>

\* The second acquire of phy_is_accessible is not checked, and the access goes on.
GoOn(t) ==
  /\ pc[t] = "failed"
  /\ forced' = forced \cup {"reacquire"} /\ Goto(t, "in")
  /\ UNCHANGED <<family, mask, busy, flag, smbi, swesmbi, sync, seen, seenFlag, fw>>
-----------------------------------------------------------------------------
(* The hardware and the firmware. *)

HwGrant ==
  /\ family = "ich" /\ flag = "asked" /\ ~fw
  /\ flag' = "held"
  /\ UNCHANGED <<family, pc, mask, busy, smbi, swesmbi, sync, seen, seenFlag, fw, forced>>

FwTake ==
  /\ FwActive /\ ~fw /\ flag # "held" /\ ~swesmbi
  /\ fw' = TRUE
  /\ UNCHANGED <<family, pc, mask, busy, flag, smbi, swesmbi, sync, seen, seenFlag, forced>>

FwMark(m) ==
  /\ family = "80003" /\ fw
  /\ IF <<m, "fw">> \in sync THEN sync' = sync \ {<<m, "fw">>}
     ELSE <<m, "sw">> \notin sync /\ sync' = sync \cup {<<m, "fw">>}
  /\ UNCHANGED <<family, pc, mask, busy, flag, smbi, swesmbi, seen, seenFlag, fw, forced>>

FwRelease ==
  /\ fw
  /\ fw' = FALSE
  /\ UNCHANGED <<family, pc, mask, busy, flag, smbi, swesmbi, sync, seen, seenFlag, forced>>
-----------------------------------------------------------------------------
Take(t) == TestAndSet(t) \/ LockMutex(t) \/ Ask(t)

Taking(t) ==
  \/ AskFlag(t) \/ PollTimesOut(t) \/ SeeFlag(t) \/ Own(t) \/ AskTimesOut(t) \/ Drop(t) \/ Undo(t)
  \/ ReadSmbi(t) \/ SmbiTimesOut(t) \/ SmbiForced(t) \/ Latch(t) \/ LatchTimesOut(t)
  \/ Look(t) \/ InUse(t) \/ Exhausted(t) \/ Claim(t)

Release(t) == ClearFlag(t) \/ ReleaseSemaphore(t) \/ Give(t)

Releasing(t) == Leave(t) \/ Disclaim(t)

Environment == HwGrant \/ FwTake \/ (\E m \in Masks : FwMark(m)) \/ FwRelease

\* A caller whose acquire failed returns.
Fail(t) ==
  /\ pc[t] = "failed" /\ Goto(t, "out")
  /\ UNCHANGED <<family, mask, busy, flag, smbi, swesmbi, sync, seen, seenFlag, fw, forced>>

LockNext ==
  \/ \E t \in Threads :
       \/ (\E m \in Masks : Want(t, m))
       \/ Take(t) \/ Taking(t) \/ Release(t) \/ Releasing(t) \/ Fail(t)
       \/ GateRead(t) \/ GateWrite(t) \/ ResetMac(t) \/ GoOn(t)
  \/ Environment

LockSpec == LockInit /\ [][LockNext]_lockVars
-----------------------------------------------------------------------------
(* What the locks promise. *)

Inside(t) == pc[t] \in {"in", "gsmbi", "glatch", "glook", "gput"}
SameResource(t, u) == family = "80003" => mask[t] = mask[u]
FwInside(m) == IF family = "80003" THEN <<m, "fw">> \in sync ELSE fw

\* Two threads are never inside at once, nor a thread and the firmware, for one
\* resource, unless some code went on without the lock.
Exclusive ==
  forced = {} =>
    \A t \in Threads : Inside(t) =>
      /\ ~FwInside(mask[t])
      /\ \A u \in Threads \ {t} : Inside(u) => ~SameResource(t, u)

\* Whatever fails or times out, when no thread uses the lock none of its bits is
\* left set, for the next thread or the firmware to wait for.
NothingLeaks ==
  forced = {} /\ (\A t \in Threads : pc[t] \in {"out", "failed", "gate"}) =>
    /\ busy = NoThread /\ flag = "clear" /\ ~smbi /\ ~swesmbi
    /\ \A m \in Masks : <<m, "sw">> \notin sync

\* A lock works: it excludes, and it does not leak.
LocksSafe == Exclusive /\ NothingLeaks
=============================================================================
