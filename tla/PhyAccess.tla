----------------------------- MODULE PhyAccess -----------------------------
(***************************************************************************)
(* PHY register access under the locks of HwLocks.  A function of the PHY  *)
(* code is the sequence of accesses it makes; a thread runs one sequence   *)
(* at a time, an access at a time, against what the threads share: the PHY *)
(* address in hw->phy, the page selected in the PHY, the address written   *)
(* to an indirect port, and 769.17, which opens the wakeup registers.      *)
(***************************************************************************)
EXTENDS HwLocks, Sequences, Integers, FiniteSetsExt

CONSTANTS
  Setups,      \* the adapters and calls a run looks at: [family, calls]
  MdicErrors   \* how many MDIC accesses may fail

ASSUME PhyAssumption == MdicErrors \in Nat /\ {"phy0", "phy1", "csr"} \subseteq Masks

VARIABLES
  calls,    \* the functions each thread calls
  todo,     \* the accesses left of the one it is in
  phyAddr,  \* hw->phy.addr
  page,     \* the page the registers of each PHY address are on
  latch,    \* who wrote the address of an indirect port last
  wuc,      \* 769.17: a subset of {"enable", "host", "me"}
  saved,    \* 769.17 as a thread read it
  owed,     \* ghost: 769.17 as it has to be when nobody accesses the wakeup page
  broken,   \* ghost: an access failed that had opened the wakeup page
  errors    \* MDIC failures so far

phyVars == <<calls, todo, phyAddr, page, latch, wuc, saved, owed, broken, errors>>
vars == <<lockVars, phyVars>>

AnyPage == -1
Fw == "firmware"
Ports == {"debug", "emi", "wakeup", "kmrn"}
-----------------------------------------------------------------------------
(* Accesses, and the functions made of them. *)

\* addr and page are those the code means to access.
Step(do, addr, pg, kind, arg) ==
  [do |-> do, addr |-> addr, page |-> pg, kind |-> kind, arg |-> arg, depth |-> 0]

Local(kind, arg) == <<Step("local", AnyPage, AnyPage, kind, arg)>>
Aim(a) == Local("aim", a)
Mdic(a, p, kind, arg) == <<Step("mdic", a, p, kind, arg)>>
Csr(kind) == <<Step("csr", AnyPage, AnyPage, kind, "kmrn")>>
Acquire == <<Step("acquire", AnyPage, AnyPage, "", AnyPage)>>
Released == <<Step("release", AnyPage, AnyPage, "", AnyPage)>>

\* An error in s ends s, and what comes after it goes on.
Ignored(s) ==
  [i \in 1..Len(s) |-> [s[i] EXCEPT !.depth = @ + 1]] \o Local("end", AnyPage)

Guarded(s) == Acquire \o s \o Released

\* A page register is at address 1 (the BM PHY has another at 2); as is the page of the
\* addresses it selects, back what phy.addr is put to afterwards.
Select(a, p, as, back) == Mdic(a, AnyPage, "select", [page |-> p, as |-> as, back |-> back])
SelectPage(p, back) == Aim(1) \o Select(1, p, {1, 2}, back)

SetPage(p) == SelectPage(p, 1)

ReadM88 == Guarded(Mdic(1, AnyPage, "io", AnyPage))

Igp(p, high) ==
  Guarded((IF high THEN Select(1, p, {1, 2}, 1) ELSE <<>>) \o
          Mdic(1, IF high THEN p ELSE AnyPage, "io", AnyPage))

\* The address of a Kumeran register goes into the register its data is read from.
Kmrn == Csr("port") \o Csr("data")

EnableWakeup ==
  Aim(1) \o SetPage(769) \o Mdic(1, 769, "save", AnyPage) \o Mdic(1, 769, "open", AnyPage) \o SetPage(800)

DisableWakeup == SetPage(769) \o Mdic(1, 769, "close", AnyPage)

Opcodes == Mdic(1, 800, "port", "wakeup") \o Mdic(1, 800, "data", "wakeup")

WakeupReg(pageSet) == IF pageSet THEN Opcodes ELSE EnableWakeup \o Opcodes \o DisableWakeup

DebugReg == Aim(2) \o Mdic(2, AnyPage, "port", "debug") \o Mdic(2, AnyPage, "data", "debug")

HvAddr(p) == IF p >= 768 THEN 1 ELSE 2

\* Registers above 15 have pages; page 768 is written as 0.
HvBody(p, high, pageSet, kind, arg) ==
  CASE p = 800 -> WakeupReg(pageSet)
    [] p \in 1..767 -> DebugReg
    [] OTHER ->
         LET q == IF p = 768 /\ ~pageSet THEN 0 ELSE p
         IN  (IF high /\ ~pageSet THEN SelectPage(q, HvAddr(p)) ELSE <<>>) \o
             Mdic(HvAddr(p), IF high THEN q ELSE AnyPage, kind, arg)

\* phy.addr is stored before the lock is taken.
Hv(p, high) == Aim(HvAddr(p)) \o Guarded(HvBody(p, high, FALSE, "io", AnyPage))
HvLocked(p, high) == Aim(HvAddr(p)) \o HvBody(p, high, FALSE, "io", AnyPage)
HvPage(p) == Aim(HvAddr(p)) \o HvBody(p, TRUE, TRUE, "io", AnyPage)

\* The 82578 wants a debug register written before its PHY is powered down.
HvPowerDown == Aim(2) \o Guarded(DebugReg \o Mdic(2, AnyPage, "io", AnyPage))

\* one: register 25 of page 0, or register 31.
BmAddr(p, one) == IF p >= 768 \/ one THEN 1 ELSE 2

Bm(p, high, one) ==
  LET a == BmAddr(p, one)
  IN  Guarded(IF p = 800 THEN WakeupReg(FALSE)
              ELSE Aim(a) \o (IF high THEN Select(a, p, {a}, a) ELSE <<>>) \o
                   Mdic(a, IF high THEN p ELSE AnyPage, "io", AnyPage))

Bm2(p, high) ==
  Guarded(IF p = 800 THEN WakeupReg(FALSE)
          ELSE Aim(1) \o (IF high THEN Select(1, p, {1}, 1) ELSE <<>>) \o
               Mdic(1, IF high THEN p ELSE AnyPage, "io", AnyPage))

\* The 80003ES2LAN reads the page back: the MDIC may be ready too early.
Gg(port, p) ==
  Local("want", port) \o
  Guarded(Select(1, p, {1, 2}, 1) \o Mdic(1, p, "io", AnyPage) \o Mdic(1, p, "io", AnyPage))

GgKmrn == Local("want", "csr") \o Guarded(Kmrn)

\* The extended management registers: an address and a data register on page 0.
EmiReg ==
  Aim(2) \o HvBody(0, TRUE, FALSE, "port", "emi") \o Aim(2) \o HvBody(0, TRUE, FALSE, "data", "emi")

\* Pairs of counters on one page, which is selected only if it is not yet.
UpdateStats ==
  Guarded(Aim(1) \o Mdic(1, AnyPage, "check", 778) \o SetPage(778) \o
          Ignored(HvPage(778)) \o Ignored(HvPage(778)))

CopyRxAddrs ==
  Guarded(EnableWakeup \o Ignored(HvPage(800)) \o Ignored(HvPage(800)) \o Ignored(DisableWakeup))

InitPhyWakeup ==
  Ignored(CopyRxAddrs) \o
  Guarded(EnableWakeup \o Ignored(HvPage(800)) \o Ignored(HvPage(800)) \o
          Local("arm", AnyPage) \o DisableWakeup)

SlowMode == Hv(769, TRUE) \o Hv(769, TRUE)

\* The PHY answers, and SMBus mode is unforced; or it does not, and slow mode is tried.
PhyAccessible ==
  Guarded(Ignored(HvLocked(0, FALSE)) \o Ignored(HvLocked(769, TRUE)) \o Ignored(HvLocked(769, TRUE)))

PhyInaccessible ==
  Acquire \o Ignored(HvLocked(0, FALSE)) \o Released \o
  Ignored(SlowMode \o Hv(0, FALSE)) \o
  <<Step("acquire", AnyPage, AnyPage, "reacquire", AnyPage)>> \o Released

GateHwPhyConfig == Local("gate", AnyPage)

ResetHw == <<Step("acquire", AnyPage, AnyPage, "reset", AnyPage)>> \o Local("reset", AnyPage)

Program ==
  [low |-> Hv(0, FALSE), page0 |-> Hv(0, TRUE), flow |-> Hv(768, TRUE),
   wakeup |-> Hv(800, TRUE), debug |-> Hv(1, TRUE), powerdown |-> HvPowerDown,
   modify |-> Guarded(HvLocked(770, TRUE) \o HvLocked(770, TRUE)),
   emi |-> Guarded(EmiReg), kmrn |-> Guarded(Kmrn),
   stats |-> UpdateStats, rars |-> CopyRxAddrs, wake |-> InitPhyWakeup,
   accessible |-> PhyAccessible, inaccessible |-> PhyInaccessible,
   gate |-> GateHwPhyConfig, reset |-> ResetHw,
   m88 |-> ReadM88, igpLow |-> Igp(0, FALSE), igpHigh |-> Igp(1, TRUE),
   bmLow |-> Bm(0, FALSE, FALSE), bmOne |-> Bm(0, TRUE, TRUE), bmHigh |-> Bm(1, TRUE, FALSE),
   bmCtrl |-> Bm(769, TRUE, FALSE), bmWakeup |-> Bm(800, TRUE, FALSE),
   bm2Low |-> Bm2(0, FALSE), bm2High |-> Bm2(1, TRUE), bm2Wakeup |-> Bm2(800, TRUE),
   gg0 |-> Gg("phy0", 0), gg1 |-> Gg("phy0", 1), other |-> Gg("phy1", 0), ggKmrn |-> GgKmrn]
-----------------------------------------------------------------------------
PhyInit ==
  \E s \in Setups :
    /\ LockInit /\ family = s.family
    /\ mask = [t \in Threads |-> CHOOSE m \in Masks : TRUE]
    /\ calls = s.calls
    /\ todo = [t \in Threads |-> <<>>]
    /\ phyAddr = 1
    /\ page = [a \in {1, 2} |-> 0]
    /\ latch = [x \in Ports |-> NoThread]
    /\ wuc = {} /\ owed = {}
    /\ saved = [t \in Threads |-> {}]
    /\ broken = FALSE
    /\ errors = 0

Next1(t) == Head(todo[t])

\* Where an Ignored block ends there is nothing to do.
Strip(s) ==
  LET real == {i \in DOMAIN s : s[i].kind # "end"}
  IN  IF real = {} THEN <<>> ELSE SubSeq(s, Min(real), Len(s))

Go(t, rest) == todo' = [todo EXCEPT ![t] = Strip(rest)]
Advance(t) == Go(t, Tail(todo[t]))

\* An error leaves the block it is in, releasing the lock on the way if it is held.
AfterError(s, d, held) ==
  LET outer == {i \in DOMAIN s : s[i].depth < d}
      n == IF outer = {} THEN Len(s) ELSE Min(outer) - 1
      gives == {i \in 1..n : s[i].do = "release"}
  IN  (IF held /\ gives # {} THEN <<s[Min(gives)]>> ELSE <<>>) \o SubSeq(s, n + 1, Len(s))

Begin(t) ==
  /\ todo[t] = <<>> /\ pc[t] = "out"
  /\ \E c \in calls[t] : Go(t, Program[c])
  /\ UNCHANGED <<lockVars, calls, phyAddr, page, latch, wuc, saved, owed, broken, errors>>

At(t, do) == todo[t] # <<>> /\ Next1(t).do = do
Does(t, kind) == At(t, "local") /\ Next1(t).kind = kind

AimPhy(t) ==
  /\ Does(t, "aim")
  /\ phyAddr' = Next1(t).arg
  /\ Advance(t)
  /\ UNCHANGED <<lockVars, calls, page, latch, wuc, saved, owed, broken, errors>>

WantMask(t) ==
  /\ Does(t, "want")
  /\ \E m \in Masks : m = Next1(t).arg /\ Want(t, m)
  /\ Advance(t)
  /\ UNCHANGED <<calls, phyAddr, page, latch, wuc, saved, owed, broken, errors>>

\* The firmware's and the host's wakeup are armed with the write that closes the page.
Arm(t) ==
  /\ Does(t, "arm")
  /\ saved' = [saved EXCEPT ![t] = @ \cup {"enable", "host"}]
  /\ owed' = owed \cup {"enable", "host"}
  /\ Advance(t)
  /\ UNCHANGED <<lockVars, calls, phyAddr, page, latch, wuc, broken, errors>>

TakeLock(t) ==
  /\ At(t, "acquire") /\ Take(t)
  /\ UNCHANGED phyVars

LockStep(t) ==
  /\ Taking(t) \/ Releasing(t)
  /\ UNCHANGED phyVars

Acquired(t) ==
  /\ At(t, "acquire") /\ pc[t] = "in"
  /\ Advance(t)
  /\ UNCHANGED <<lockVars, calls, phyAddr, page, latch, wuc, saved, owed, broken, errors>>

AcquireFailed(t) ==
  /\ At(t, "acquire") /\ pc[t] = "failed"
  /\ CASE Next1(t).kind = "reset" -> Advance(t) /\ UNCHANGED lockVars
       [] Next1(t).kind = "reacquire" -> GoOn(t) /\ Advance(t)
       [] OTHER -> Fail(t) /\ Go(t, AfterError(Tail(todo[t]), Next1(t).depth, FALSE))
  /\ UNCHANGED <<calls, phyAddr, page, latch, wuc, saved, owed, broken, errors>>

ReleaseLock(t) ==
  /\ At(t, "release") /\ Release(t)
  /\ Advance(t)
  /\ UNCHANGED <<calls, phyAddr, page, latch, wuc, saved, owed, broken, errors>>

Gate(t) ==
  /\ Does(t, "gate")
  /\ \/ GateRead(t) /\ UNCHANGED todo
     \/ GateWrite(t) /\ Advance(t)
  /\ UNCHANGED <<calls, phyAddr, page, latch, wuc, saved, owed, broken, errors>>

\* The PHY is reset with the MAC unless the firmware forbids it.
Reset(t) ==
  /\ Does(t, "reset") /\ ResetMac(t)
  /\ Advance(t)
  /\ \/ UNCHANGED <<page, latch, wuc, owed>>
     \/ page' = [a \in {1, 2} |-> 0] /\ latch' = [x \in Ports |-> NoThread] /\ wuc' = {} /\ owed' = {}
  /\ UNCHANGED <<calls, phyAddr, saved, broken, errors>>

\* Kumeran registers are registers of the MAC: the access cannot fail.
AccessCsr(t) ==
  /\ At(t, "csr") /\ pc[t] = "in"
  /\ latch' = IF Next1(t).kind = "port" THEN [latch EXCEPT !.kmrn = t] ELSE latch
  /\ Advance(t)
  /\ UNCHANGED <<lockVars, calls, phyAddr, page, wuc, saved, owed, broken, errors>>
-----------------------------------------------------------------------------
(* MDIC. *)

\* The access gets where the code means it to.
Aimed(t, x) ==
  /\ x.do = "mdic" => x.addr = phyAddr /\ (x.page # AnyPage => page[x.addr] = x.page)
  /\ x.page = 800 => "enable" \in wuc
  /\ x.kind = "data" => latch[x.arg] = t

\* 769.17 as the wakeup page is closed.
BadRestored(t) == wuc \ {"enable"}

Restored(t) == saved[t]

\* What the access x does, if it gets there.
Effect(t, x) ==
  /\ page' = IF x.kind = "select" THEN [a \in {1, 2} |-> IF a \in x.arg.as THEN x.arg.page ELSE page[a]]
             ELSE page
  /\ latch' = IF x.kind = "port" THEN [latch EXCEPT ![x.arg] = t] ELSE latch
  /\ wuc' = CASE x.kind = "open" -> (saved[t] \ {"me", "host"}) \cup {"enable"}
              [] x.kind = "close" -> Restored(t)
              [] OTHER -> wuc

NoEffect == UNCHANGED <<page, latch, wuc>>

\* Selecting a page sets phy.addr to 1; who selected it sets it back.
BadBackAddr(x) == IF x.kind = "select" THEN 1 ELSE phyAddr

BackAddr(x) == IF x.kind = "select" THEN x.arg.back ELSE phyAddr

AccessPhy(t) ==
  /\ At(t, "mdic") /\ pc[t] = "in"
  /\ LET x == Next1(t)
     IN  /\ IF Aimed(t, x) THEN Effect(t, x) ELSE NoEffect
         /\ phyAddr' = BackAddr(x)
         /\ saved' = CASE x.kind = "save" -> [saved EXCEPT ![t] = wuc]
                     [] x.kind = "close" -> [saved EXCEPT ![t] = {}]
                     [] OTHER -> saved
         /\ Go(t, IF x.kind = "check" /\ page[1] = x.arg
                    THEN SubSeq(todo[t], Len(SetPage(778)) + 2, Len(todo[t]))
                    ELSE Tail(todo[t]))
  /\ UNCHANGED <<lockVars, calls, owed, broken, errors>>

Closes(s) == Cardinality({i \in DOMAIN s : s[i].kind = "close"})

\* Not ready in time, an error bit, or another register's answer; a write may have got
\* there all the same.
MdicError(t) ==
  /\ At(t, "mdic") /\ pc[t] = "in" /\ errors < MdicErrors
  /\ LET x == Next1(t)
         rest == AfterError(Tail(todo[t]), x.depth, TRUE)
     IN  /\ (IF Aimed(t, x) THEN Effect(t, x) ELSE NoEffect) \/ NoEffect
         /\ phyAddr' = BackAddr(x)
         /\ Go(t, rest)
         /\ broken' = (broken \/ (wuc' # owed /\ Closes(rest) < Closes(todo[t])))
  /\ errors' = errors + 1
  /\ UNCHANGED <<lockVars, calls, saved, owed>>

\* The firmware uses the PHY too, while it has the semaphore, and arms its own wakeup.
FwTouch ==
  /\ fw /\ family \in {"ich", "82574", "82571"}
  /\ page' = [a \in {1, 2} |-> 801]
  /\ latch' = [x \in Ports |-> NoThread]
  /\ wuc' \in {wuc, wuc \cup {"me"}} /\ owed' = IF wuc' = wuc THEN owed ELSE owed \cup {"me"}
  /\ UNCHANGED <<lockVars, calls, todo, phyAddr, saved, broken, errors>>
-----------------------------------------------------------------------------
Access(t) ==
  \/ Begin(t) \/ AimPhy(t) \/ WantMask(t) \/ Arm(t)
  \/ TakeLock(t) \/ LockStep(t) \/ Acquired(t) \/ AcquireFailed(t) \/ ReleaseLock(t)
  \/ Gate(t) \/ Reset(t) \/ AccessCsr(t) \/ AccessPhy(t) \/ MdicError(t)

PhyNext ==
  \/ \E t \in Threads : Access(t)
  \/ Environment /\ UNCHANGED phyVars
  \/ FwTouch

PhySpec == PhyInit /\ [][PhyNext]_vars
-----------------------------------------------------------------------------
PhyTypeOK ==
  /\ LockTypeOK
  /\ phyAddr \in {1, 2}
  /\ page \in [{1, 2} -> 0..801]
  /\ latch \in [Ports -> Threads \cup {NoThread}]
  /\ {wuc, owed} \subseteq SUBSET {"enable", "host", "me"}
  /\ saved \in [Threads -> SUBSET {"enable", "host", "me"}]
  /\ broken \in BOOLEAN /\ errors \in 0..MdicErrors

\* Every access of a thread that has the lock gets to the PHY address, page, wakeup page
\* or port that the code means, whatever the other threads and the firmware did before.
AccessesAimed ==
  forced = {} =>
    \A t \in Threads :
      (At(t, "mdic") \/ At(t, "csr")) /\ pc[t] = "in" => broken \/ Aimed(t, Next1(t))

\* When no thread has the lock, 769.17 is as the last to set it on purpose left it: the
\* wakeup page is closed, and the wakeup of firmware and host is as they armed it.
WucRestored ==
  forced = {} /\ ~broken /\ (\A t \in Threads : ~Inside(t)) => wuc = owed

\* Accesses reach what they mean, and leave the wakeup page as they found it.
AccessesRight == PhyTypeOK /\ AccessesAimed /\ WucRestored

\* Every call returns, however its waits and its accesses fail.
Calling(t) == todo[t] # <<>> \/ pc[t] # "out"
CallsReturn == \A t \in Threads : Calling(t) ~> ~Calling(t)

\* The steps of a thread that others may disable again and again: the mutex is handed on in
\* turn, and a resource that is in use each time is given up in the end.
Served(t) ==
  \/ LockMutex(t) /\ TakeLock(t)
  \/ Exhausted(t) /\ LockStep(t)

\* The release of the 80003ES2LAN tries for ever: it needs SMBI to be seen clear some time,
\* and the firmware not to outlast its wait again and again.
PhyFairness ==
  /\ \A t \in Threads :
       /\ WF_vars(Calling(t) /\ Access(t))
       /\ SF_vars(Served(t))
       /\ SF_vars(Giving(t) /\ ReadSmbi(t) /\ LockStep(t))
       /\ <>[][~(Giving(t) /\ LatchTimesOut(t))]_vars
  /\ WF_vars(FwRelease /\ UNCHANGED phyVars)

FairPhySpec == PhySpec /\ PhyFairness
=============================================================================
