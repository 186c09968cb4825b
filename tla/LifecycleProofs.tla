---------------------------- MODULE LifecycleProofs ----------------------------
(***************************************************************************)
(* Three results about the adapter's lifecycle.                            *)
(*                                                                         *)
(* 1. For every choice of operations and faults, resets exclude each other *)
(* as long as no ethtool call is refused halfway ("badset", the one path   *)
(* that clears a bit it has not set).                                      *)
(*                                                                         *)
(* That the bit is set while somebody resets is not inductive: a thread    *)
(* that has not claimed the bit must not come to a place where it counts   *)
(* as resetting, nor to the one where the bit is cleared. Route says which *)
(* operations come to which program points.                                *)
(*                                                                         *)
(* 2. For every choice of operations, a device in use is up (OpenMeansUp), *)
(* unless an interrupt or an open fails where nobody looks at the error.   *)
(* Each thing that is missing is excused by a thread that is on its way to *)
(* provide it (DownExcused, RxExcused, MaskExcused, OwnInv).               *)
(*                                                                         *)
(* 3. For the settings named Tame, one thread at a time is at work on the  *)
(* device, and at each of its program points the device is in the state At *)
(* gives; with nobody at work it is at Rest. Hence StateIsTrue and         *)
(* ResourcesOwned.                                                         *)
(***************************************************************************)
EXTENDS Lifecycle, TLAPS

OpNames == RtnlOps \cup PciOps \cup {"none", "reset", "thaw", "rresume", "ioresume"}

UserResets == {"reinit", "mtu", "rings"}

\* An operation o may be at program point l.
Route(l, o) ==
  /\ l \in {"claim", "release"} => o \in UserResets \cup {"reset"}
  /\ l = "branch" => o \in UserResets
  /\ l \in {"get", "awaken"} => o \in UserResets \cup {"open", "close", "test"}
  /\ l = "wait" => o \in {"close", "test", "remove", "freeze", "rsuspend"}
  /\ l = "test" => o \in {"reset", "close", "test", "remove"}
  /\ l \in {"down", "sync", "timers", "clean"} =>
       o \in UserResets \cup {"reset", "close", "test", "remove", "freeze",
                              "rsuspend", "error"}
  /\ l = "freeirq" => o \in {"close", "test", "remove", "freeze"}
  /\ l \in {"napioff", "free"} => o \in {"close", "test", "remove"}
  /\ l = "selftest" => o = "test"
  /\ l \in {"cancel", "cancelwd", "unregister"} => o = "remove"

\* Resetting, of a program point and an operation.
InReset(l, o) ==
  /\ o \in UserResets \cup {"reset"}
  /\ l \notin {"idle", "claim", "test"}
  /\ o = "reinit" => l \notin {"get", "awaken"}

Inv ==
  /\ pc \in [Actors -> Labels] /\ op \in [Actors -> OpNames]
  /\ \A a \in Actors : Route(pc[a], op[a])
  /\ \A a \in Actors : InReset(pc[a], op[a]) => resetting
  /\ \A a, b \in Actors : InReset(pc[a], op[a]) /\ InReset(pc[b], op[b]) => a = b

\* A step of actor a alone that neither claims nor releases.
Moves(a) ==
  /\ pc' \in [Actors -> Labels] /\ op' \in [Actors -> OpNames]
  /\ \A b \in Actors \ {a} : pc'[b] = pc[b] /\ op'[b] = op[b]
  /\ Route(pc'[a], op'[a])
  /\ InReset(pc'[a], op'[a]) => InReset(pc[a], op[a])
  /\ resetting' = resetting

-----------------------------------------------------------------------------
\* A thread's move that touches nothing of the bit keeps Inv.
LEMMA MoveKeepsInv ==
  ASSUME Inv, NEW a \in Actors, Moves(a)
  PROVE  Inv'
BY DEF Inv, Moves

\* Going to another program point within the same operation.
LEMMA GoMoves ==
  ASSUME Inv, NEW a \in Actors, NEW l \in Labels, Go(a, l), resetting' = resetting,
         Route(l, op[a]), InReset(l, op[a]) => InReset(pc[a], op[a])
  PROVE  Moves(a)
BY DEF Inv, Moves, Go

\* Beginning an operation.
LEMMA RunMoves ==
  ASSUME Inv, NEW a \in Actors, NEW o \in OpNames, NEW l \in Labels, Run(a, o, l),
         resetting' = resetting, Route(l, o), ~InReset(l, o)
  PROVE  Moves(a)
BY DEF Inv, Moves, Run

\* Ending an operation.
LEMMA DoneMoves ==
  ASSUME Inv, NEW a \in Actors, Done(a), resetting' = resetting
  PROVE  Moves(a)
<1>1. "none" \in OpNames /\ "idle" \in Labels
  BY DEF OpNames, Labels
<1>2. Route("idle", "none") /\ ~InReset("idle", "none")
  BY DEF Route, InReset
<1> QED
  BY <1>1, <1>2, RunMoves DEF Done

-----------------------------------------------------------------------------
\* The steps every thread has in common.
LEMMA SharedSteps ==
  ASSUME Inv, NEW a \in Actors, Step(a), ~Claim(a), ~Release(a)
  PROVE  Moves(a)
<1> USE DEF Route, InReset, UserResets
<1>0. Route(pc[a], op[a])
  BY DEF Inv
<1>1. CASE Wait(a)
  BY <1>0, <1>1, GoMoves DEF Wait, bits, Labels
<1>2. CASE TestDown(a)
  <2>1. CASE op[a] = "reset" /\ down
    BY <1>2, <2>1, DoneMoves DEF TestDown, bits
  <2>2. CASE op[a] = "reset" /\ ~down
    BY <1>0, <1>2, <2>2, GoMoves DEF TestDown, bits, Labels
  <2>3. CASE op[a] # "reset"
    BY <1>0, <1>2, <2>3, GoMoves DEF TestDown, bits, Labels
  <2> QED
    BY <2>1, <2>2, <2>3
<1>3. CASE Down(a)
  BY <1>0, <1>3, GoMoves DEF Down, Labels
<1>4. CASE Sync(a)
  BY <1>0, <1>4, GoMoves DEF Sync, bits, Labels
<1>5. CASE DelTimers(a)
  BY <1>0, <1>5, GoMoves DEF DelTimers, bits, Labels
<1>6. CASE CleanRings(a)
  <2>1. AfterDown(op[a]) \in {"config", "swap", "freeirq", "sleep", "broken"}
    BY <1>0, <1>6 DEF CleanRings, AfterDown
  <2>2. AfterDown(op[a]) = "freeirq" => op[a] \in {"close", "test", "remove", "freeze"}
    BY <1>0, <1>6 DEF CleanRings, AfterDown
  <2> QED
    BY <1>0, <1>6, <2>1, <2>2, GoMoves DEF CleanRings, bits, Labels
<1>7. CASE Config(a)
  BY <1>0, <1>7, GoMoves DEF Config, bits, Labels
<1>8. CASE ClearDown(a)
  BY <1>0, <1>8, GoMoves DEF ClearDown, Labels
<1>9. CASE Unmask(a)
  <2>1. CASE op[a] \in {"reinit", "mtu", "rings", "reset"}
    BY <1>0, <1>9, <2>1, GoMoves DEF Unmask, bits, Labels
  <2>2. CASE op[a] \notin {"reinit", "mtu", "rings", "reset"}
    BY <1>9, <2>2, DoneMoves DEF Unmask, bits
  <2> QED
    BY <2>1, <2>2
<1>10. CASE Request(a)
  BY <1>0, <1>10, GoMoves DEF Request, bits, Labels
<1>11. CASE RequestFails(a)
  <2>1. CASE a = "pci"
    BY <1>11, <2>1, DoneMoves DEF RequestFails, bits
  <2>2. CASE a # "pci"
    BY <1>0, <1>11, <2>2, GoMoves DEF RequestFails, bits, Labels
  <2> QED
    BY <2>1, <2>2
<1>12. CASE FreeIrq(a)
  BY <1>0, <1>12, GoMoves DEF FreeIrq, bits, Labels
<1>13. CASE NapiOff(a)
  BY <1>0, <1>13, GoMoves DEF NapiOff, bits, Labels
<1>14. CASE Free(a)
  <2>1. CASE op[a] = "close"
    BY <1>14, <2>1, DoneMoves DEF Free, bits
  <2>2. CASE op[a] \in {"test", "remove"}
    BY <1>0, <1>14, <2>2, GoMoves DEF Free, bits, Labels
  <2> QED
    BY <1>0, <1>14, <2>1, <2>2 DEF Free
<1> QED
  BY <1>1, <1>2, <1>3, <1>4, <1>5, <1>6, <1>7, <1>8, <1>9, <1>10, <1>11, <1>12,
     <1>13, <1>14 DEF Step

\* The steps of a user's call.
LEMMA RtnlSteps ==
  ASSUME Inv, Rtnl
  PROVE  Moves("rtnl")
<1> DEFINE a == "rtnl"
<1> USE DEF Route, InReset, UserResets
<1>0. a \in Actors /\ Route(pc[a], op[a])
  BY DEF Inv, Actors
<1>1. CASE Get
  BY <1>0, <1>1, GoMoves DEF Get, bits, Labels
<1>2. CASE NoMemory
  BY <1>0, <1>2, GoMoves DEF NoMemory, bits, Labels
<1>3. CASE Awaken
  <2>1. op[a] \in UserResets \cup {"open", "close", "test"}
    BY <1>0, <1>3 DEF Awaken
  <2>2. /\ op[a] = "open" => AfterGet(op[a]) = "alloc"
        /\ op[a] = "close" => AfterGet(op[a]) = "test"
        /\ op[a] = "reinit" => AfterGet(op[a]) = "claim"
        /\ op[a] = "test" => AfterGet(op[a]) = "selftest"
        /\ op[a] \in {"mtu", "rings"} => AfterGet(op[a]) = "branch"
    BY DEF AfterGet
  <2>3. AfterGet(op[a]) \in Labels
    BY <2>1, <2>2 DEF Labels
  <2> QED
    BY <1>0, <1>3, <2>1, <2>2, <2>3, GoMoves DEF Awaken, bits
<1>4. CASE Branch
  BY <1>0, <1>4, GoMoves DEF Branch, bits, Labels
<1>5. CASE SelfTest
  <2>1. CASE running
    BY <1>0, <1>5, <2>1, GoMoves DEF SelfTest, Labels
  <2>2. CASE ~running
    BY <1>0, <1>5, <2>2, DoneMoves DEF SelfTest
  <2> QED
    BY <2>1, <2>2
<1>6. CASE Swap
  BY <1>0, <1>6, GoMoves DEF Swap, bits, Labels
<1>7. CASE NapiOn
  BY <1>0, <1>7, GoMoves DEF NapiOn, bits, Labels
<1>8. CASE Alloc
  BY <1>0, <1>8, GoMoves DEF Alloc, bits, Labels
<1>9. CASE AllocFails
  BY <1>0, <1>9, DoneMoves DEF AllocFails, bits
<1>10. CASE Backout
  BY <1>0, <1>10, GoMoves DEF Backout, bits, Labels
<1>11. CASE BackedOut
  BY <1>0, <1>11, DoneMoves DEF BackedOut, bits
<1>12. CASE Tests
  BY <1>0, <1>12, GoMoves DEF Tests, Labels
<1> QED
  BY <1>1, <1>2, <1>3, <1>4, <1>5, <1>6, <1>7, <1>8, <1>9, <1>10, <1>11, <1>12
     DEF Rtnl

\* The steps of the PCI core's calls.
LEMMA PciSteps ==
  ASSUME Inv, Pci
  PROVE  Moves("pci")
<1> DEFINE a == "pci"
<1> USE DEF Route, InReset, UserResets
<1>0. a \in Actors /\ Route(pc[a], op[a])
  BY DEF Inv, Actors
<1>1. CASE Broken
  BY <1>0, <1>1, DoneMoves DEF Broken, bits
<1>2. CASE Sleep
  BY <1>0, <1>2, DoneMoves DEF Sleep, bits
<1>3. CASE SleepFails
  <2>1. CASE Done(a)
    BY <1>0, <1>3, <2>1, DoneMoves DEF SleepFails, bits
  <2>2. CASE Run(a, "rresume", "config")
    BY <1>0, <1>3, <2>2, RunMoves DEF SleepFails, bits, Labels, OpNames
  <2>3. CASE Run(a, "thaw", "request")
    BY <1>0, <1>3, <2>3, RunMoves DEF SleepFails, bits, Labels, OpNames
  <2> QED
    BY <1>3, <2>1, <2>2, <2>3 DEF SleepFails
<1>4. CASE CancelReset
  BY <1>0, <1>4, GoMoves DEF CancelReset, bits, Labels
<1>5. CASE CancelWatchdog
  BY <1>0, <1>5, GoMoves DEF CancelWatchdog, Labels
<1>6. CASE Unregister
  BY <1>0, <1>6, GoMoves DEF Unregister, bits, Labels
<1>7. CASE Gone
  BY <1>0, <1>7, DoneMoves DEF Gone, bits
<1> QED
  BY <1>1, <1>2, <1>3, <1>4, <1>5, <1>6, <1>7 DEF Pci

\* How calls, suspends, resumes, recoveries, removals and reset_task begin.
LEMMA Beginnings ==
  ASSUME Inv, "badset" \notin ops,
         \/ \E o \in ops \cap RtnlOps : Begin(o)
         \/ PciBegin \/ Wake \/ SlotResetFails \/ ResetTask
  PROVE  Inv'
<1> USE DEF Route, InReset, UserResets
<1>0. /\ "rtnl" \in Actors /\ "pci" \in Actors /\ "reset" \in Actors
  BY DEF Actors
<1>1. ASSUME UNCHANGED <<pc, op, resetting>>
      PROVE  Inv'
  BY <1>1 DEF Inv
<1>2. ASSUME NEW o \in ops \cap RtnlOps, Begin(o)
      PROVE  Inv'
  <2>1. o \in OpNames /\ o # "badset"
    BY <1>2 DEF OpNames
  <2>2. FirstLabel(o) \in Labels
    BY DEF FirstLabel, Labels
  <2>3. Route(FirstLabel(o), o) /\ ~InReset(FirstLabel(o), o)
    BY <1>2, <2>1 DEF FirstLabel, RtnlOps
  <2> QED
    BY <1>0, <1>2, <2>1, <2>2, <2>3, RunMoves, MoveKeepsInv DEF Begin, bits
<1>3. CASE Freeze
  <2>1. \E l \in {"wait", "sleep"} : Run("pci", "freeze", l)
    BY <1>3 DEF Freeze
  <2> QED
    BY <1>0, <1>3, <2>1, RunMoves, MoveKeepsInv DEF Freeze, bits, OpNames, PciOps, Labels
<1>4. CASE RuntimeSuspend
  <2>1. \E l \in {"wait", "sleep"} : Run("pci", "rsuspend", l)
    BY <1>4 DEF RuntimeSuspend
  <2> QED
    BY <1>0, <1>4, <2>1, RunMoves, MoveKeepsInv
       DEF RuntimeSuspend, bits, OpNames, PciOps, Labels
<1>5. ASSUME NEW permanent \in BOOLEAN, ErrorDetected(permanent)
      PROVE  Inv'
  <2>1. CASE Run("pci", "error", "down")
    BY <1>0, <1>5, <2>1, RunMoves, MoveKeepsInv
       DEF ErrorDetected, bits, OpNames, PciOps, Labels
  <2> QED
    BY <1>1, <1>5, <2>1 DEF ErrorDetected, bits
<1>6. CASE Remove
  BY <1>0, <1>6, RunMoves, MoveKeepsInv DEF Remove, OpNames, PciOps, Labels
<1>7. CASE Wake
  <2>1. WakeOp[phase] \in {"thaw", "rresume", "ioresume"}
    BY <1>7 DEF Wake, WakeOp
  <2>2. CASE \E l \in {"request", "config"} : Run("pci", WakeOp[phase], l)
    BY <1>0, <1>7, <2>1, <2>2, RunMoves, MoveKeepsInv DEF Wake, bits, OpNames, Labels
  <2> QED
    BY <1>1, <1>7, <2>2 DEF Wake, bits
<1>8. CASE SlotResetFails
  BY <1>1, <1>8 DEF SlotResetFails, bits
<1>9. CASE ResetTask
  BY <1>0, <1>9, RunMoves, MoveKeepsInv DEF ResetTask, bits, OpNames, Labels
<1> QED
  BY <1>2, <1>3, <1>4, <1>5, <1>6, <1>7, <1>8, <1>9 DEF PciBegin

\* Taking the bit: nobody was resetting.
LEMMA ClaimKeepsInv ==
  ASSUME Inv, NEW a \in Actors, Claim(a)
  PROVE  Inv'
<1> USE DEF Route, InReset, UserResets
<1>1. Route(pc[a], op[a]) /\ pc[a] = "claim" /\ ~resetting /\ resetting'
  BY DEF Inv, Claim, CanClaim
<1>2. \A b \in Actors : ~InReset(pc[b], op[b])
  BY <1>1 DEF Inv
<1>3. PICK l \in {"down", "branch", "get"} :
        /\ Go(a, l)
        /\ l = "branch" => op[a] \in UserResets
        /\ l = "get" => op[a] \in {"mtu", "rings"}
  BY <1>1 DEF Claim
<1>4. /\ pc' \in [Actors -> Labels] /\ op' = op
      /\ pc'[a] = l /\ \A b \in Actors \ {a} : pc'[b] = pc[b]
  BY <1>3 DEF Go, Inv, Labels
<1>5. Route(pc'[a], op'[a])
  BY <1>1, <1>3, <1>4
<1> QED
  BY <1>1, <1>2, <1>4, <1>5 DEF Inv

\* Clearing it: who clears it held it, and nobody else is resetting.
LEMMA ReleaseKeepsInv ==
  ASSUME Inv, NEW a \in Actors, Release(a)
  PROVE  Inv'
<1>1. InReset(pc[a], op[a])
  BY DEF Inv, Release, Route, InReset, UserResets
<1>2. \A b \in Actors \ {a} : ~InReset(pc[b], op[b])
  BY <1>1 DEF Inv
<1>3. /\ pc' = [pc EXCEPT ![a] = "idle"]
      /\ op' = [op EXCEPT ![a] = "none"]
  BY DEF Release, Done, Run
<1>4. "idle" \in Labels /\ "none" \in OpNames /\ Route("idle", "none")
  BY DEF Labels, OpNames, Route
<1>5. ~InReset("idle", "none")
  BY DEF InReset
<1> QED
  BY <1>2, <1>3, <1>4, <1>5 DEF Inv

\* Inv holds at the start.
LEMMA InitInv ==
  ASSUME Init
  PROVE  Inv
BY DEF Init, Inv, Labels, OpNames, Route, InReset

\* Every step keeps Inv: its moves are legal, its claims and releases are the owner's.
LEMMA NextInv ==
  ASSUME Inv, "badset" \notin ops, [Next]_vars
  PROVE  Inv'
<1>1. ASSUME UNCHANGED <<pc, op, resetting>>
      PROVE  Inv'
  BY <1>1 DEF Inv
<1>2. ASSUME NEW a \in Actors, Step(a)
      PROVE  Inv'
  BY <1>2, ClaimKeepsInv, ReleaseKeepsInv, SharedSteps, MoveKeepsInv
<1>3. CASE Rtnl \/ Pci
  BY <1>3, RtnlSteps, PciSteps, MoveKeepsInv DEF Actors
<1>4. CASE LinkInterrupt \/ CallReset \/ PollStart \/ PollEnd \/ TimerFires
  BY <1>1, <1>4 DEF LinkInterrupt, CallReset, PollStart, PollEnd, TimerFires, bits
<1>5. CASE Watchdog
  BY <1>1, <1>5 DEF Watchdog, WatchdogStart, WatchdogTest, WatchdogArm, WatchdogLook, bits
<1>6. CASE UNCHANGED vars
  BY <1>1, <1>6 DEF vars, bits
<1> QED
  BY <1>2, <1>3, <1>4, <1>5, <1>6, Beginnings DEF Next

\* What is tried does not change.
LEMMA NextKeepsOps ==
  ASSUME [Next]_vars
  PROVE  ops' = ops
<1>1. ASSUME NEW a \in Actors, Step(a)
      PROVE  ops' = ops
  BY <1>1 DEF Step, Claim, Wait, TestDown, Down, Sync, DelTimers, CleanRings, Config,
              ClearDown, Unmask, Release, Request, RequestFails, FreeIrq, NapiOff, Free,
              power
<1>2. CASE Rtnl
  BY <1>2 DEF Rtnl, Get, NoMemory, Awaken, Branch, SelfTest, Swap, NapiOn, Alloc,
              AllocFails, Backout, BackedOut, Tests, power
<1>3. CASE Pci
  BY <1>3 DEF Pci, Broken, Sleep, SleepFails, CancelReset, CancelWatchdog, Unregister,
              Gone, power
<1>4. CASE PciBegin \/ Wake \/ SlotResetFails \/ ResetTask \/ \E o \in RtnlOps : Begin(o)
  BY <1>4 DEF PciBegin, Freeze, RuntimeSuspend, ErrorDetected, Remove, Wake,
              SlotResetFails, ResetTask, Begin, power
<1>5. CASE LinkInterrupt \/ CallReset \/ PollStart \/ PollEnd \/ TimerFires \/ Watchdog
  BY <1>5 DEF LinkInterrupt, CallReset, PollStart, PollEnd, TimerFires, Watchdog,
              WatchdogStart, WatchdogTest, WatchdogArm, WatchdogLook, power
<1>6. CASE UNCHANGED vars
  BY <1>6 DEF vars, power
<1> QED
  BY <1>1, <1>2, <1>3, <1>4, <1>5, <1>6 DEF Next

\* Whatever the interleaving, and with suspends, PCI errors, removal and every fault in
\* play, two threads are never inside a reset at once (the loops on test_and_set_bit),
\* if no ethtool call is refused between e1000_set_settings' two ends.
THEOREM ResetsStayExclusive ==
  ASSUME \A tried \in OpsSets : "badset" \notin tried
  PROVE  Spec => []ResetsExclusive
<1> DEFINE Accepted == "badset" \notin ops
<1>1. Inv => ResetsExclusive
  BY DEF Inv, ResetsExclusive, Resetting, InReset, UserResets
<1>2. Init => Inv /\ Accepted
  BY InitInv DEF Init
<1>3. Inv /\ Accepted /\ [Next]_vars => (Inv /\ Accepted)'
  BY NextInv, NextKeepsOps
<1> QED
  BY <1>1, <1>2, <1>3, PTL DEF Spec
-----------------------------------------------------------------------------
(* Where every thread can be, whatever is tried.                           *)

\* The program points of e1000e_down, and those of e1000e_up.
Downs == {"down", "sync", "timers", "clean"}
Ups == {"config", "clear", "unmask"}

\* The operations of each thread, and an operation's program points.
OpsOf(a) ==
  CASE a = "rtnl"  -> RtnlOps \cup {"none"}
    [] a = "reset" -> {"reset", "none"}
    [] a = "pci"   -> PciOps \cup {"thaw", "rresume", "ioresume", "none"}

Place(l, o) ==
  /\ o = "none" <=> l = "idle"
  /\ o = "open" => l \in {"get", "awaken", "alloc", "request", "napion", "backout",
                          "undone"} \cup Ups
  /\ o = "close" => l \in {"wait", "get", "awaken", "test", "freeirq", "napioff",
                           "free"} \cup Downs
  /\ o \in UserResets =>
       l \in {"get", "awaken", "claim", "branch", "release"} \cup Downs \cup Ups
               \cup (IF o = "rings" THEN {"swap"} ELSE {})
  /\ o = "badset" => l \in {"get", "awaken", "release"}
  /\ o = "test" => l \in {"get", "awaken", "selftest", "wait", "test", "freeirq", "napioff",
                          "free", "tests", "alloc", "request", "napion", "backout",
                          "undone"} \cup Downs \cup Ups
  /\ o = "reset" => l \in {"test", "claim", "release"} \cup Downs \cup Ups
  /\ o = "freeze" => l \in {"wait", "freeirq", "sleep"} \cup Downs
  /\ o = "rsuspend" => l \in {"wait", "sleep"} \cup Downs
  /\ o = "error" => l \in {"broken"} \cup Downs
  /\ o = "thaw" => l \in {"request"} \cup Ups
  /\ o \in {"rresume", "ioresume"} => l \in Ups
  /\ o = "remove" => l \in {"cancel", "cancelwd", "unregister", "wait", "test", "freeirq",
                            "napioff", "free", "gone"} \cup Downs

PlaceInv ==
  /\ pc \in [Actors -> Labels] /\ op \in [Actors -> OpNames]
  /\ \A a \in Actors : op[a] \in OpsOf(a) /\ Place(pc[a], op[a])

\* Going on within an operation.
LEMMA GoPlace ==
  ASSUME PlaceInv, NEW a \in Actors, NEW l \in Labels, Go(a, l), Place(l, op[a])
  PROVE  PlaceInv'
BY DEF PlaceInv, Go

\* Beginning or ending one.
LEMMA RunPlace ==
  ASSUME PlaceInv, NEW a \in Actors, NEW o \in OpNames, NEW l \in Labels, Run(a, o, l),
         o \in OpsOf(a), Place(l, o)
  PROVE  PlaceInv'
BY DEF PlaceInv, Run

\* A finished operation leaves its thread idle.
LEMMA DonePlace ==
  ASSUME PlaceInv, NEW a \in Actors, Done(a)
  PROVE  PlaceInv'
<1>1. "none" \in OpNames /\ "idle" \in Labels /\ "none" \in OpsOf(a)
  BY DEF OpNames, Labels, OpsOf, Actors
<1>2. Place("idle", "none")
  BY DEF Place, UserResets
<1> QED
  BY <1>1, <1>2, RunPlace DEF Done

\* The steps every thread has in common.
LEMMA SharedPlaces ==
  ASSUME PlaceInv, NEW a \in Actors, Step(a)
  PROVE  PlaceInv'
<1>0. Place(pc[a], op[a]) /\ op[a] \in OpNames /\ op[a] \in OpsOf(a)
  BY DEF PlaceInv
<1> USE DEF Labels, Place, Downs, Ups, UserResets, OpNames, OpsOf, Actors, RtnlOps, PciOps
<1>1. CASE Claim(a)
  BY <1>0, <1>1, GoPlace, DonePlace DEF Claim
<1>2. CASE Wait(a)
  BY <1>0, <1>2, GoPlace, DonePlace DEF Wait
<1>3. CASE TestDown(a)
  BY <1>0, <1>3, GoPlace, DonePlace DEF TestDown
<1>4. CASE Down(a)
  BY <1>0, <1>4, GoPlace, DonePlace DEF Down
<1>5. CASE Sync(a)
  BY <1>0, <1>5, GoPlace, DonePlace DEF Sync
<1>6. CASE DelTimers(a)
  BY <1>0, <1>6, GoPlace, DonePlace DEF DelTimers
<1>7. CASE CleanRings(a)
  BY <1>0, <1>7, GoPlace, DonePlace DEF CleanRings, AfterDown
<1>8. CASE Config(a)
  BY <1>0, <1>8, GoPlace, DonePlace DEF Config
<1>9. CASE ClearDown(a)
  BY <1>0, <1>9, GoPlace, DonePlace DEF ClearDown
<1>10. CASE Unmask(a)
  BY <1>0, <1>10, GoPlace, DonePlace DEF Unmask
<1>11. CASE Release(a)
  BY <1>0, <1>11, GoPlace, DonePlace DEF Release
<1>12. CASE Request(a)
  BY <1>0, <1>12, GoPlace, DonePlace DEF Request
<1>13. CASE RequestFails(a)
  <2>1. CASE a = "pci"
    BY <1>0, <1>13, <2>1, DonePlace DEF RequestFails
  <2>2. CASE a # "pci"
    <3>1. OpenFault("irq") /\ Go(a, "backout") /\ pc[a] = "request"
      BY <1>13, <2>2 DEF RequestFails
    <3>2. op["rtnl"] \in {"open", "test"}
      BY <3>1 DEF OpenFault
    <3>3. a = "rtnl"
      BY <1>0, <2>2, <3>1 DEF Actors, OpsOf, Place, Downs, Ups, UserResets
    <3> QED
      BY <1>0, <3>1, <3>2, <3>3, GoPlace
  <2> QED
    BY <2>1, <2>2
<1>14. CASE FreeIrq(a)
  BY <1>0, <1>14, GoPlace, DonePlace DEF FreeIrq
<1>15. CASE NapiOff(a)
  BY <1>0, <1>15, GoPlace, DonePlace DEF NapiOff
<1>16. CASE Free(a)
  BY <1>0, <1>16, GoPlace, DonePlace DEF Free
<1> QED
  BY <1>1, <1>2, <1>3, <1>4, <1>5, <1>6, <1>7, <1>8, <1>9, <1>10, <1>11, <1>12, <1>13,
     <1>14, <1>15, <1>16 DEF Step

\* The steps of a user's call and of the PCI core's.
LEMMA OwnPlaces ==
  ASSUME PlaceInv, Rtnl \/ Pci
  PROVE  PlaceInv'
<1>0. /\ "rtnl" \in Actors /\ "pci" \in Actors
      /\ \A a \in Actors : Place(pc[a], op[a]) /\ op[a] \in OpNames /\ op[a] \in OpsOf(a)
  BY DEF PlaceInv, Actors
<1> USE DEF Labels, Place, Downs, Ups, UserResets, OpNames, OpsOf, RtnlOps, PciOps
<1>1. CASE Get
  BY <1>0, <1>1, GoPlace, DonePlace, RunPlace DEF Get
<1>2. CASE NoMemory
  BY <1>0, <1>2, GoPlace, DonePlace, RunPlace DEF NoMemory
<1>3. CASE Awaken
  BY <1>0, <1>3, GoPlace, DonePlace, RunPlace DEF Awaken, AfterGet
<1>4. CASE Branch
  BY <1>0, <1>4, GoPlace, DonePlace, RunPlace DEF Branch
<1>5. CASE SelfTest
  BY <1>0, <1>5, GoPlace, DonePlace, RunPlace DEF SelfTest
<1>6. CASE Swap
  BY <1>0, <1>6, GoPlace, DonePlace, RunPlace DEF Swap
<1>7. CASE NapiOn
  BY <1>0, <1>7, GoPlace, DonePlace, RunPlace DEF NapiOn
<1>8. CASE Alloc
  BY <1>0, <1>8, GoPlace, DonePlace, RunPlace DEF Alloc
<1>9. CASE AllocFails
  BY <1>0, <1>9, GoPlace, DonePlace, RunPlace DEF AllocFails
<1>10. CASE Backout
  BY <1>0, <1>10, GoPlace, DonePlace, RunPlace DEF Backout
<1>11. CASE BackedOut
  BY <1>0, <1>11, GoPlace, DonePlace, RunPlace DEF BackedOut
<1>12. CASE Tests
  BY <1>0, <1>12, GoPlace, DonePlace, RunPlace DEF Tests
<1>13. CASE Broken
  BY <1>0, <1>13, GoPlace, DonePlace, RunPlace DEF Broken
<1>14. CASE Sleep
  BY <1>0, <1>14, GoPlace, DonePlace, RunPlace DEF Sleep
<1>15. CASE SleepFails
  BY <1>0, <1>15, GoPlace, DonePlace, RunPlace DEF SleepFails
<1>16. CASE CancelReset
  BY <1>0, <1>16, GoPlace, DonePlace, RunPlace DEF CancelReset
<1>17. CASE CancelWatchdog
  BY <1>0, <1>17, GoPlace, DonePlace, RunPlace DEF CancelWatchdog
<1>18. CASE Unregister
  BY <1>0, <1>18, GoPlace, DonePlace, RunPlace DEF Unregister
<1>19. CASE Gone
  BY <1>0, <1>19, GoPlace, DonePlace, RunPlace DEF Gone
<1> QED
  BY <1>1, <1>2, <1>3, <1>4, <1>5, <1>6, <1>7, <1>8, <1>9, <1>10, <1>11, <1>12, <1>13,
     <1>14, <1>15, <1>16, <1>17, <1>18, <1>19 DEF Rtnl, Pci

\* The beginnings of operations.
LEMMA FirstPlaces ==
  ASSUME PlaceInv,
         \/ \E o \in ops \cap RtnlOps : Begin(o)
         \/ PciBegin \/ Wake \/ SlotResetFails \/ ResetTask
  PROVE  PlaceInv'
<1>0. /\ "rtnl" \in Actors /\ "pci" \in Actors /\ "reset" \in Actors
      /\ RtnlOps \subseteq OpNames /\ PciOps \subseteq OpNames
  BY DEF Actors, OpNames
<1>1. ASSUME NEW o \in ops \cap RtnlOps, Begin(o)
      PROVE  PlaceInv'
  <2>1. FirstLabel(o) \in Labels /\ Place(FirstLabel(o), o) /\ o \in OpsOf("rtnl")
    BY DEF RtnlOps, FirstLabel, Labels, Place, Downs, Ups, UserResets, OpsOf
  <2> QED
    BY <1>0, <1>1, <2>1, RunPlace DEF Begin
<1>2. CASE Freeze \/ RuntimeSuspend \/ Remove
  BY <1>0, <1>2, RunPlace
     DEF Freeze, RuntimeSuspend, Remove, Labels, Place, Downs, Ups, UserResets, OpsOf,
         PciOps, OpNames
<1>3. ASSUME NEW permanent \in BOOLEAN, ErrorDetected(permanent)
      PROVE  PlaceInv'
  <2>1. CASE Run("pci", "error", "down")
    BY <1>0, <2>1, RunPlace
       DEF Labels, Place, Downs, Ups, UserResets, OpsOf, PciOps, OpNames
  <2>2. CASE UNCHANGED <<pc, op>>
    BY <2>2 DEF PlaceInv
  <2> QED
    BY <1>3, <2>1, <2>2 DEF ErrorDetected
<1>4. CASE Wake
  <2>1. ASSUME NEW o \in {"thaw", "rresume", "ioresume"}, NEW l \in {"request", "config"},
               Run("pci", o, l), l = "request" => o = "thaw"
        PROVE  PlaceInv'
    BY <1>0, <2>1, RunPlace
       DEF Labels, Place, Downs, Ups, UserResets, OpsOf, PciOps, OpNames
  <2>2. CASE UNCHANGED <<pc, op>>
    BY <2>2 DEF PlaceInv
  <2> QED
    BY <1>4, <2>1, <2>2 DEF Wake, WakeOp
<1>5. CASE SlotResetFails
  BY <1>5 DEF SlotResetFails, PlaceInv
<1>6. CASE ResetTask
  BY <1>0, <1>6, RunPlace
     DEF ResetTask, Labels, Place, Downs, Ups, UserResets, OpsOf, OpNames
<1> QED
  BY <1>1, <1>2, <1>3, <1>4, <1>5, <1>6 DEF PciBegin

\* At the start all are idle.
LEMMA PlaceInit ==
  ASSUME Init
  PROVE  PlaceInv
BY DEF Init, PlaceInv, Labels, OpNames, OpsOf, Actors, Place, Downs, Ups, UserResets

\* Steps of the interrupt, the polls, the timer and the watchdog move none of the three.
LEMMA PlaceNext ==
  ASSUME PlaceInv, [Next]_vars
  PROVE  PlaceInv'
<1>1. ASSUME UNCHANGED <<pc, op>>
      PROVE  PlaceInv'
  BY <1>1 DEF PlaceInv
<1>2. CASE LinkInterrupt \/ CallReset \/ PollStart \/ PollEnd \/ TimerFires \/ Watchdog
  BY <1>1, <1>2 DEF LinkInterrupt, CallReset, PollStart, PollEnd, TimerFires, Watchdog,
     WatchdogStart, WatchdogTest, WatchdogArm, WatchdogLook
<1>3. CASE UNCHANGED vars
  BY <1>1, <1>3 DEF vars
<1> QED
  BY <1>2, <1>3, FirstPlaces, SharedPlaces, OwnPlaces DEF Next

-----------------------------------------------------------------------------
(* A device in use is up: whoever takes it down while it is running brings *)
(* it up again, or has made sure that it need not be.                      *)

\* What the PCI core and a user's call know of each other, and of the net core's view.
PmInv ==
  /\ phase = "runtime" \/ op["pci"] \in {"rsuspend", "rresume"} =>
       \/ pc["rtnl"] \in {"idle", "get", "awaken", "release"}
       \/ pc["rtnl"] = "claim" /\ op["rtnl"] \in {"mtu", "rings"}
       \/ pc["rtnl"] = "wait" /\ op["rtnl"] = "close"
       \/ pc["rtnl"] = "branch" /\ op["rtnl"] = "rings" /\ ~running
  /\ phase = "system" \/ op["pci"] \in {"freeze", "thaw"} => pc["rtnl"] = "idle"
  /\ phase = "system" => op["pci"] \in {"none", "thaw"}
  /\ op["pci"] \in {"freeze", "error"} => ~present
  /\ op["rtnl"] = "close" => ~running
  /\ op["rtnl"] = "open" => running
  /\ ~registered => ~running
  /\ op["pci"] = "remove" /\ pc["pci"] \notin {"cancel", "cancelwd", "unregister"} =>
       ~registered

\* A thread at l in operation o is on its way to bringing the device up, or to a place
\* where it need not be up.
Commits(l, o) ==
  \/ o = "open"
  \/ o = "test" /\ l \notin {"get", "awaken", "selftest", "wait", "test"}
  \/ /\ o \in UserResets \/ o \in {"reset", "thaw", "rresume", "ioresume"}
     /\ l \in Downs \/ l \in Ups \/ l \in {"request", "swap"}
  \/ o = "rsuspend" /\ l # "wait"

\* It has still to clear DOWN; to post buffers and enable receives.
ToClear(l, o) == Commits(l, o) /\ l \notin {"napion", "unmask"}
ToConfig(l, o) ==
  Commits(l, o) /\ l \notin {"clear", "napion", "unmask"} /\ (l = "request" => o = "thaw")

\* The net core, or a resume path, expects the device to be up.
Due ==
  running /\ \/ phase = "awake" /\ present
             \/ op["pci"] \in {"thaw", "rresume", "ioresume"}

DownExcused ==
  Due /\ down /\ (pc["pci"] \in {"cancel", "cancelwd"} => wasdown) =>
    
    \/ ToClear(pc["rtnl"], op["rtnl"])
    \/ ToClear(pc["reset"], op["reset"])
    \/ ToClear(pc["pci"], op["pci"])
RxExcused ==
  Due /\ ~(rxon /\ posted) =>
    \/ ToConfig(pc["rtnl"], op["rtnl"])
    \/ ToConfig(pc["reset"], op["reset"])
    \/ ToConfig(pc["pci"], op["pci"])
MaskExcused ==
  Due /\ ~ims =>
    \/ Commits(pc["rtnl"], op["rtnl"])
    \/ Commits(pc["reset"], op["reset"])
    \/ Commits(pc["pci"], op["pci"])

\* e1000e_open is under way and has not yet come past the points given.
Opening(l, o, points) ==
  \/ o = "open" /\ l \in {"get", "awaken", "backout", "undone"}
  \/ o \in {"open", "test"} /\ l \in {"tests", "alloc"} \cup points

OwnInv ==
  /\ op["rtnl"] = "test" => pc["rtnl"] \notin {"backout", "undone"}
  /\ running /\ ~rings => Opening(pc["rtnl"], op["rtnl"], {})
  /\ running /\ napi = "off" =>
       Opening(pc["rtnl"], op["rtnl"], {"free", "config", "request", "clear", "napion"})
  /\ running /\ ~irq =>
       \/ Opening(pc["rtnl"], op["rtnl"], {"napioff", "free", "config", "request"})
       \/ op["pci"] = "freeze"
       \/ phase = "system" /\ op["pci"] = "none"
       \/ op["pci"] = "thaw" /\ pc["pci"] = "request"

\* Suspends and calls keep out of each other's way; a device being closed or removed is no
\* longer running.
LEMMA PmNext ==
  ASSUME PlaceInv, PmInv, Next
  PROVE  PmInv'
<1> USE DEF Run, RtnlOps, bits, core, mem, hw, intr, wd, power, PlaceInv, OpsOf, Actors,
        Place, Downs, Ups, UserResets, PmInv, PciOps, HoldsPm, Go, Done
<1>1. ASSUME NEW o \in ops \cap RtnlOps, Begin(o)
      PROVE  PmInv'
  BY <1>1 DEF Begin, Entry, FirstLabel
<1>2. ASSUME NEW permanent \in BOOLEAN, ErrorDetected(permanent)
      PROVE  PmInv'
  BY <1>2 DEF ErrorDetected
<1>3. CASE Freeze \/ RuntimeSuspend \/ Remove
  BY <1>3 DEF Freeze, RuntimeSuspend, IffUp, Remove
<1>4. CASE Wake
  BY <1>4 DEF Wake, WakeOp, IffUp
<1>5. CASE SlotResetFails \/ ResetTask
  BY <1>5 DEF SlotResetFails, ResetTask
<1>6. ASSUME NEW a \in Actors, Step(a)
      PROVE  PmInv'
  <2>1. CASE Claim(a) \/ Wait(a) \/ TestDown(a)
    BY <2>1 DEF Claim, CanClaim, Wait, TestDown
  <2>2. CASE Down(a) \/ Sync(a) \/ DelTimers(a) \/ CleanRings(a)
    BY <2>2 DEF Down, Sync, SyncDone, DelTimers, CleanRings, AfterDown, HardReset
  <2>3. CASE Config(a)
    BY <2>3 DEF Config
  <2>4. CASE ClearDown(a)
    BY <2>4 DEF ClearDown
  <2>5. CASE Unmask(a)
    <3>1. op[a] \in UserResets \cup {"open", "test", "reset", "thaw", "rresume", "ioresume"}
      BY <2>5 DEF Unmask
    <3>2. CASE a = "rtnl"
      BY <2>5, <3>1, <3>2, ZenonT(30) DEF Unmask
    <3>3. CASE a = "reset"
      BY <2>5, <3>1, <3>3, ZenonT(30) DEF Unmask
    <3>4. CASE a = "pci"
      BY <2>5, <3>1, <3>4, ZenonT(30) DEF Unmask
    <3> QED
      BY <3>2, <3>3, <3>4
  <2>6. CASE Release(a) \/ Request(a) \/ RequestFails(a)
    BY <2>6 DEF Release, Request, RequestFails, OpenFault
  <2>7. CASE FreeIrq(a)
    BY <2>7 DEF FreeIrq
  <2>8. CASE NapiOff(a)
    BY <2>8 DEF NapiOff, SyncDone
  <2>9. CASE Free(a)
    <3>1. \/ a = "rtnl" /\ op[a] \in {"close", "test"}
          \/ a = "pci" /\ op[a] = "remove"
      BY <2>9 DEF Free
    <3>2. CASE a = "rtnl" /\ op[a] = "close"
      BY <2>9, <3>2 DEF Free
    <3>3. CASE a = "rtnl" /\ op[a] = "test"
      BY <2>9, <3>3 DEF Free
    <3>4. CASE a = "pci"
      BY <2>9, <3>1, <3>4 DEF Free
    <3> QED
      BY <3>1, <3>2, <3>3, <3>4
  <2> QED
    BY <1>6, <2>1, <2>2, <2>3, <2>4, <2>5, <2>6, <2>7, <2>8, <2>9 DEF Step
<1>7. CASE Get \/ NoMemory \/ Awaken
  BY <1>7 DEF Get, NoMemory, Awaken, AfterGet
<1>8. CASE Branch \/ SelfTest \/ Swap \/ NapiOn
  BY <1>8 DEF Branch, HardReset, SelfTest, Swap, NapiOn
<1>9. CASE Alloc
  BY <1>9 DEF Alloc, HardReset
<1>10. CASE AllocFails
  BY <1>10 DEF AllocFails, HardReset, OpenFault
<1>11. CASE Backout
  BY <1>11 DEF Backout
<1>12. CASE BackedOut
  BY <1>12 DEF BackedOut, HardReset
<1>13. CASE Tests
  BY <1>13 DEF Tests, HardReset
<1>14. CASE Broken \/ Sleep \/ SleepFails
  BY <1>14 DEF Broken, Sleep, SleepFails, HardReset, IffUp
<1>15. CASE CancelReset \/ CancelWatchdog \/ Unregister \/ Gone
  BY <1>15 DEF CancelReset, CancelWatchdog, Unregister, Gone
<1>16. CASE LinkInterrupt \/ CallReset \/ PollStart \/ PollEnd \/ TimerFires \/ Watchdog
  BY <1>16
     DEF LinkInterrupt, CallReset, PollStart, PollEnd, TimerFires, Watchdog, WatchdogStart,
         WatchdogTest, WatchdogArm, WatchdogLook
<1> QED
  BY <1>1, <1>2, <1>3, <1>4, <1>5, <1>6, <1>7, <1>8, <1>9, <1>10, <1>11, <1>12, <1>13,
     <1>14, <1>15, <1>16
     DEF Next, PciBegin, Rtnl, Pci

\* Rings, NAPI and the interrupt.
LEMMA OwnNext ==
  ASSUME PlaceInv, PmInv, "reopen" \notin Faults, "thaw" \notin Faults,
         OwnInv, Next
  PROVE  OwnInv'
<1> USE DEF Run, RtnlOps, bits, core, mem, hw, intr, wd, power, PlaceInv, OpsOf, Actors,
        Place, Downs, Ups, UserResets, PmInv, PciOps, OwnInv, Opening, OpenFault, Go, Done
<1>1. ASSUME NEW o \in ops \cap RtnlOps, Begin(o)
      PROVE  OwnInv'
  BY <1>1 DEF Begin, Entry, FirstLabel
<1>2. ASSUME NEW permanent \in BOOLEAN, ErrorDetected(permanent)
      PROVE  OwnInv'
  BY <1>2 DEF ErrorDetected
<1>3. CASE Freeze \/ RuntimeSuspend \/ Remove
  BY <1>3 DEF Freeze, RuntimeSuspend, HoldsPm, IffUp, Remove
<1>4. CASE Wake
  BY <1>4 DEF Wake, WakeOp, IffUp
<1>5. CASE SlotResetFails \/ ResetTask
  BY <1>5 DEF SlotResetFails, ResetTask
<1>6. ASSUME NEW a \in Actors, Step(a)
      PROVE  OwnInv'
  <2>1. CASE Claim(a) \/ Wait(a) \/ TestDown(a)
    BY <2>1 DEF Claim, CanClaim, Wait, TestDown
  <2>2. CASE Down(a) \/ Sync(a) \/ DelTimers(a) \/ CleanRings(a)
    BY <2>2 DEF Down, Sync, SyncDone, DelTimers, CleanRings, AfterDown, HardReset
  <2>3. CASE Config(a)
    BY <2>3 DEF Config
  <2>4. CASE ClearDown(a)
    BY <2>4 DEF ClearDown
  <2>5. CASE Unmask(a)
    BY <2>5 DEF Unmask
  <2>6. CASE Release(a)
    BY <2>6 DEF Release
  <2>7. CASE Request(a)
    BY <2>7 DEF Request
  <2>8. CASE RequestFails(a)
    BY <2>8 DEF RequestFails
  <2>9. CASE FreeIrq(a)
    BY <2>9 DEF FreeIrq
  <2>10. CASE NapiOff(a)
    BY <2>10 DEF NapiOff, SyncDone
  <2>11. CASE Free(a)
    <3>1. \/ a = "rtnl" /\ op[a] \in {"close", "test"}
          \/ a = "pci" /\ op[a] = "remove"
      BY <2>11 DEF Free
    <3>2. CASE a = "rtnl" /\ op[a] = "close"
      BY <2>11, <3>2 DEF Free
    <3>3. CASE a = "rtnl" /\ op[a] = "test"
      BY <2>11, <3>3 DEF Free
    <3>4. CASE a = "pci"
      BY <2>11, <3>1, <3>4 DEF Free
    <3> QED
      BY <3>1, <3>2, <3>3, <3>4
  <2> QED
    BY <1>6, <2>1, <2>2, <2>3, <2>4, <2>5, <2>6, <2>7, <2>8, <2>9, <2>10, <2>11 DEF Step
<1>7. CASE Get \/ NoMemory \/ Awaken
  BY <1>7 DEF Get, NoMemory, Awaken, AfterGet
<1>8. CASE Branch \/ SelfTest \/ Swap \/ NapiOn
  BY <1>8 DEF Branch, HardReset, SelfTest, Swap, NapiOn
<1>9. CASE Alloc
  BY <1>9 DEF Alloc, HardReset
<1>10. CASE AllocFails
  BY <1>10 DEF AllocFails, HardReset
<1>11. CASE Backout
  BY <1>11 DEF Backout
<1>12. CASE BackedOut
  BY <1>12 DEF BackedOut, HardReset
<1>13. CASE Tests
  BY <1>13 DEF Tests, HardReset
<1>14. CASE Broken \/ Sleep \/ SleepFails
  BY <1>14 DEF Broken, Sleep, SleepFails, HardReset, IffUp
<1>15. CASE CancelReset \/ CancelWatchdog \/ Unregister \/ Gone
  BY <1>15 DEF CancelReset, CancelWatchdog, Unregister, Gone
<1>16. CASE LinkInterrupt \/ CallReset \/ PollStart \/ PollEnd \/ TimerFires \/ Watchdog
  BY <1>16
     DEF LinkInterrupt, CallReset, PollStart, PollEnd, TimerFires, Watchdog, WatchdogStart,
         WatchdogTest, WatchdogArm, WatchdogLook
<1> QED
  BY <1>1, <1>2, <1>3, <1>4, <1>5, <1>6, <1>7, <1>8, <1>9, <1>10, <1>11, <1>12, <1>13,
     <1>14, <1>15, <1>16
     DEF Next, PciBegin, Rtnl, Pci

\* Interrupts, polls, the timer and the watchdog task change none of what follows.
LEMMA EnvQuiet ==
  ASSUME LinkInterrupt \/ CallReset \/ PollStart \/ PollEnd \/ TimerFires \/ Watchdog
  PROVE  UNCHANGED <<pc, op, down, rxon, posted, ims, phase, present, running, wasdown>>
BY DEF LinkInterrupt, CallReset, PollStart, PollEnd, TimerFires, Watchdog,
       WatchdogStart, WatchdogTest, WatchdogArm, WatchdogLook, bits, core, mem, hw,
       power

\* DOWN.
LEMMA DownNext ==
  ASSUME PlaceInv, PmInv, "reopen" \notin Faults, "thaw" \notin Faults,
         OwnInv, DownExcused, Next
  PROVE  DownExcused'
<1>0. CASE LinkInterrupt \/ CallReset \/ PollStart \/ PollEnd \/ TimerFires \/ Watchdog
  BY <1>0, EnvQuiet DEF DownExcused, Due
<1> USE DEF Run, PlaceInv, Actors, bits, core, hw, mem, power, intr, wd, OpsOf, Place,
        Downs, Ups, UserResets, PmInv, PciOps, RtnlOps, DownExcused, Due, Commits,
        ToClear, OwnInv, Go, Done
<1>1. ASSUME NEW o \in ops \cap RtnlOps, Begin(o)
      PROVE  DownExcused'
  <2>1. pc["rtnl"] = "idle" /\ op["rtnl"] = "none"
    BY <1>1 DEF Begin
  <2>2. pc'["rtnl"] = FirstLabel(o) /\ op'["rtnl"] = o
    BY <1>1 DEF Begin
  <2>3. UNCHANGED <<pc["reset"], op["reset"], pc["pci"], op["pci"], down, rxon, posted, ims,
                    phase, present, wasdown>>
    BY <1>1 DEF Begin
  <2>4. CASE o = "open"
    BY <2>2, <2>4 DEF FirstLabel
  <2>5. CASE o # "open"
    <3>1. Due' => Due
      <4>1. running' => running
        BY <1>1, <2>5 DEF Begin
      <4> QED
        BY <2>3, <4>1
    <3>2. ~ToClear(pc["rtnl"], op["rtnl"])
      BY <2>1
    <3> QED
      BY <2>3, <3>1, <3>2
  <2> QED
    BY <2>4, <2>5
<1>2. ASSUME NEW permanent \in BOOLEAN, ErrorDetected(permanent)
      PROVE  DownExcused'
  BY <1>2 DEF ErrorDetected
<1>3. CASE Freeze
  BY <1>3 DEF Freeze
<1>4. CASE RuntimeSuspend
  BY <1>4 DEF RuntimeSuspend, HoldsPm, IffUp
<1>5. CASE Remove
  BY <1>5 DEF Remove
<1>6. CASE Wake
  BY <1>6 DEF Wake, WakeOp, IffUp
<1>7. CASE SlotResetFails
  BY <1>7 DEF SlotResetFails
<1>8. CASE ResetTask
  BY <1>8 DEF ResetTask
<1>9. ASSUME NEW a \in Actors, Step(a)
      PROVE  DownExcused'
  <2>1. CASE Claim(a)
    BY <2>1 DEF Claim, CanClaim
  <2>2. CASE Wait(a)
    BY <2>2 DEF Wait, CanClaim
  <2>3. CASE TestDown(a)
    BY <2>3 DEF TestDown
  <2>4. CASE Down(a)
    BY <2>4 DEF Down
  <2>5. CASE Sync(a)
    BY <2>5 DEF Sync, SyncDone
  <2>6. CASE DelTimers(a)
    BY <2>6 DEF DelTimers
  <2>7. CASE CleanRings(a)
    BY <2>7 DEF CleanRings, AfterDown, HardReset
  <2>8. CASE Config(a)
    BY <2>8 DEF Config
  <2>9. CASE ClearDown(a)
    BY <2>9 DEF ClearDown
  <2>10. CASE Unmask(a)
    <3>1. ~ToClear(pc[a], op[a])
      BY <2>10 DEF Unmask
    <3>2. UNCHANGED <<down, rxon, posted, running, wasdown>>
      BY <2>10 DEF Unmask
    <3>3. \A b \in Actors \ {a} : pc'[b] = pc[b] /\ op'[b] = op[b]
      BY <2>10 DEF Unmask
    <3>4. a = "pci" => op[a] \in {"thaw", "rresume", "ioresume"}
      BY <2>10 DEF Unmask
    <3>5. a # "pci" => op[a] \notin {"thaw", "rresume", "ioresume"}
      OBVIOUS
    <3>6. Due' => Due
      <4>1. CASE a = "pci"
        BY <2>10, <3>2, <3>4, <4>1 DEF Unmask
      <4>2. CASE a # "pci"
        <5>1. phase' = phase /\ (present' => present) /\ op'["pci"] = op["pci"]
          BY <2>10, <3>2, <3>3, <3>5, <4>2 DEF Unmask
        <5> QED
          BY <3>2, <5>1
      <4> QED
        BY <4>1, <4>2
    <3>7. pc'["pci"] \in {"cancel", "cancelwd"} <=> pc["pci"] \in {"cancel", "cancelwd"}
      BY <2>10, <3>3 DEF Unmask
    <3> QED
      BY <3>1, <3>2, <3>3, <3>6, <3>7
  <2>11. CASE Release(a)
    BY <2>11 DEF Release
  <2>12. CASE Request(a)
    BY <2>12 DEF Request
  <2>13. CASE RequestFails(a)
    BY <2>13 DEF RequestFails, OpenFault
  <2>14. CASE FreeIrq(a)
    BY <2>14 DEF FreeIrq
  <2>15. CASE NapiOff(a)
    BY <2>15 DEF NapiOff, SyncDone
  <2>16. CASE Free(a)
    <3>1. a \in {"rtnl", "pci"} /\ op[a] \in {"close", "test", "remove"}
      BY <2>16 DEF Free
    <3>2. op[a] \in {"close", "remove"} => ~running
      BY <2>16, <3>1 DEF Free
    <3>3. CASE op[a] = "test"
      <4>1. a = "rtnl" /\ pc' = [pc EXCEPT ![a] = "tests"] /\ op' = op
        BY <2>16, <3>1, <3>3 DEF Free
      <4> QED
        BY <4>1, <3>3
    <3>4. CASE op[a] # "test"
      <4>1. ~running'
        BY <2>16, <3>1, <3>2, <3>4 DEF Free
      <4> QED
        BY <4>1
    <3> QED
      BY <3>3, <3>4
  <2> QED
    BY <1>9, <2>1, <2>2, <2>3, <2>4, <2>5, <2>6, <2>7, <2>8, <2>9, <2>10, <2>11, <2>12,
       <2>13, <2>14, <2>15, <2>16
       DEF Step
<1>10. CASE Get
  BY <1>10 DEF Get
<1>11. CASE NoMemory
  BY <1>11 DEF NoMemory
<1>12. CASE Awaken
  BY <1>12 DEF Awaken, AfterGet
<1>13. CASE Branch
  BY <1>13 DEF Branch, HardReset
<1>14. CASE SelfTest
  BY <1>14 DEF SelfTest
<1>15. CASE Swap
  BY <1>15 DEF Swap
<1>16. CASE NapiOn
  BY <1>16 DEF NapiOn
<1>17. CASE Alloc
  BY <1>17 DEF Alloc, HardReset
<1>18. CASE AllocFails
  BY <1>18 DEF AllocFails, HardReset, OpenFault
<1>19. CASE Backout
  BY <1>19 DEF Backout
<1>20. CASE BackedOut
  BY <1>20 DEF BackedOut, HardReset
<1>21. CASE Tests
  BY <1>21 DEF Tests, HardReset
<1>22. CASE Broken
  BY <1>22 DEF Broken
<1>23. CASE Sleep
  BY <1>23 DEF Sleep
<1>24. CASE SleepFails
  BY <1>24 DEF SleepFails, HardReset, IffUp
<1>25. CASE CancelReset
  BY <1>25 DEF CancelReset
<1>26. CASE CancelWatchdog
  BY <1>26 DEF CancelWatchdog
<1>27. CASE Unregister
  BY <1>27 DEF Unregister
<1>28. CASE Gone
  BY <1>28 DEF Gone
<1> QED
  BY <1>0, <1>1, <1>2, <1>3, <1>4, <1>5, <1>6, <1>7, <1>8, <1>9, <1>10, <1>11, <1>12, <1>13,
     <1>14, <1>15, <1>16, <1>17, <1>18, <1>19, <1>20, <1>21, <1>22, <1>23, <1>24, <1>25,
     <1>26, <1>27, <1>28
     DEF Next, PciBegin, Rtnl, Pci

\* Buffers and receives.
LEMMA RxNext ==
  ASSUME PlaceInv, PmInv, "reopen" \notin Faults, "thaw" \notin Faults,
         OwnInv, RxExcused, Next
  PROVE  RxExcused'
<1>0. CASE LinkInterrupt \/ CallReset \/ PollStart \/ PollEnd \/ TimerFires \/ Watchdog
  BY <1>0, EnvQuiet DEF RxExcused, Due
<1> USE DEF Run, PlaceInv, Actors, bits, core, hw, mem, power, intr, wd, OpsOf, Place,
        Downs, Ups, UserResets, PmInv, PciOps, RtnlOps, RxExcused, Due, Commits, ToConfig,
        OwnInv, Go, Done
<1>1. ASSUME NEW o \in ops \cap RtnlOps, Begin(o)
      PROVE  RxExcused'
  <2>1. pc["rtnl"] = "idle" /\ op["rtnl"] = "none"
    BY <1>1 DEF Begin
  <2>2. pc'["rtnl"] = FirstLabel(o) /\ op'["rtnl"] = o
    BY <1>1 DEF Begin
  <2>3. UNCHANGED <<pc["reset"], op["reset"], pc["pci"], op["pci"], down, rxon, posted, ims,
                    phase, present, wasdown>>
    BY <1>1 DEF Begin
  <2>4. CASE o = "open"
    BY <2>2, <2>4 DEF FirstLabel
  <2>5. CASE o # "open"
    <3>1. Due' => Due
      <4>1. running' => running
        BY <1>1, <2>5 DEF Begin
      <4> QED
        BY <2>3, <4>1
    <3>2. ~ToConfig(pc["rtnl"], op["rtnl"])
      BY <2>1
    <3> QED
      BY <2>3, <3>1, <3>2
  <2> QED
    BY <2>4, <2>5
<1>2. ASSUME NEW permanent \in BOOLEAN, ErrorDetected(permanent)
      PROVE  RxExcused'
  BY <1>2 DEF ErrorDetected
<1>3. CASE Freeze
  BY <1>3 DEF Freeze
<1>4. CASE RuntimeSuspend
  BY <1>4 DEF RuntimeSuspend, HoldsPm, IffUp
<1>5. CASE Remove
  BY <1>5 DEF Remove
<1>6. CASE Wake
  BY <1>6 DEF Wake, WakeOp, IffUp
<1>7. CASE SlotResetFails
  BY <1>7 DEF SlotResetFails
<1>8. CASE ResetTask
  BY <1>8 DEF ResetTask
<1>9. ASSUME NEW a \in Actors, Step(a)
      PROVE  RxExcused'
  <2>1. CASE Claim(a)
    BY <2>1 DEF Claim, CanClaim
  <2>2. CASE Wait(a)
    BY <2>2 DEF Wait, CanClaim
  <2>3. CASE TestDown(a)
    BY <2>3 DEF TestDown
  <2>4. CASE Down(a)
    BY <2>4 DEF Down
  <2>5. CASE Sync(a)
    BY <2>5 DEF Sync, SyncDone
  <2>6. CASE DelTimers(a)
    BY <2>6 DEF DelTimers
  <2>7. CASE CleanRings(a)
    BY <2>7 DEF CleanRings, AfterDown, HardReset
  <2>8. CASE Config(a)
    BY <2>8 DEF Config
  <2>9. CASE ClearDown(a)
    BY <2>9 DEF ClearDown
  <2>10. CASE Unmask(a)
    <3>1. ~ToConfig(pc[a], op[a])
      BY <2>10 DEF Unmask
    <3>2. UNCHANGED <<down, rxon, posted, running, wasdown>>
      BY <2>10 DEF Unmask
    <3>3. \A b \in Actors \ {a} : pc'[b] = pc[b] /\ op'[b] = op[b]
      BY <2>10 DEF Unmask
    <3>4. a = "pci" => op[a] \in {"thaw", "rresume", "ioresume"}
      BY <2>10 DEF Unmask
    <3>5. a # "pci" => op[a] \notin {"thaw", "rresume", "ioresume"}
      OBVIOUS
    <3>6. Due' => Due
      <4>1. CASE a = "pci"
        BY <2>10, <3>2, <3>4, <4>1 DEF Unmask
      <4>2. CASE a # "pci"
        <5>1. phase' = phase /\ (present' => present) /\ op'["pci"] = op["pci"]
          BY <2>10, <3>2, <3>3, <3>5, <4>2 DEF Unmask
        <5> QED
          BY <3>2, <5>1
      <4> QED
        BY <4>1, <4>2
    <3>7. pc'["pci"] \in {"cancel", "cancelwd"} <=> pc["pci"] \in {"cancel", "cancelwd"}
      BY <2>10, <3>3 DEF Unmask
    <3> QED
      BY <3>1, <3>2, <3>3, <3>6, <3>7
  <2>11. CASE Release(a)
    BY <2>11 DEF Release
  <2>12. CASE Request(a)
    BY <2>12 DEF Request
  <2>13. CASE RequestFails(a)
    BY <2>13 DEF RequestFails, OpenFault
  <2>14. CASE FreeIrq(a)
    BY <2>14 DEF FreeIrq
  <2>15. CASE NapiOff(a)
    BY <2>15 DEF NapiOff, SyncDone
  <2>16. CASE Free(a)
    <3>1. a \in {"rtnl", "pci"} /\ op[a] \in {"close", "test", "remove"}
      BY <2>16 DEF Free
    <3>2. op[a] \in {"close", "remove"} => ~running
      BY <2>16, <3>1 DEF Free
    <3>3. CASE op[a] = "test"
      <4>1. a = "rtnl" /\ pc' = [pc EXCEPT ![a] = "tests"] /\ op' = op
        BY <2>16, <3>1, <3>3 DEF Free
      <4> QED
        BY <4>1, <3>3
    <3>4. CASE op[a] # "test"
      <4>1. ~running'
        BY <2>16, <3>1, <3>2, <3>4 DEF Free
      <4> QED
        BY <4>1
    <3> QED
      BY <3>3, <3>4
  <2> QED
    BY <1>9, <2>1, <2>2, <2>3, <2>4, <2>5, <2>6, <2>7, <2>8, <2>9, <2>10, <2>11, <2>12,
       <2>13, <2>14, <2>15, <2>16
       DEF Step
<1>10. CASE Get
  BY <1>10 DEF Get
<1>11. CASE NoMemory
  BY <1>11 DEF NoMemory
<1>12. CASE Awaken
  BY <1>12 DEF Awaken, AfterGet
<1>13. CASE Branch
  BY <1>13 DEF Branch, HardReset
<1>14. CASE SelfTest
  BY <1>14 DEF SelfTest
<1>15. CASE Swap
  BY <1>15 DEF Swap
<1>16. CASE NapiOn
  BY <1>16 DEF NapiOn
<1>17. CASE Alloc
  BY <1>17 DEF Alloc, HardReset
<1>18. CASE AllocFails
  BY <1>18 DEF AllocFails, HardReset, OpenFault
<1>19. CASE Backout
  BY <1>19 DEF Backout
<1>20. CASE BackedOut
  BY <1>20 DEF BackedOut, HardReset
<1>21. CASE Tests
  BY <1>21 DEF Tests, HardReset
<1>22. CASE Broken
  BY <1>22 DEF Broken
<1>23. CASE Sleep
  BY <1>23 DEF Sleep
<1>24. CASE SleepFails
  BY <1>24 DEF SleepFails, HardReset, IffUp
<1>25. CASE CancelReset
  BY <1>25 DEF CancelReset
<1>26. CASE CancelWatchdog
  BY <1>26 DEF CancelWatchdog
<1>27. CASE Unregister
  BY <1>27 DEF Unregister
<1>28. CASE Gone
  BY <1>28 DEF Gone
<1> QED
  BY <1>0, <1>1, <1>2, <1>3, <1>4, <1>5, <1>6, <1>7, <1>8, <1>9, <1>10, <1>11, <1>12, <1>13,
     <1>14, <1>15, <1>16, <1>17, <1>18, <1>19, <1>20, <1>21, <1>22, <1>23, <1>24, <1>25,
     <1>26, <1>27, <1>28
     DEF Next, PciBegin, Rtnl, Pci

\* Interrupts.
LEMMA MaskNext ==
  ASSUME PlaceInv, PmInv, "reopen" \notin Faults, "thaw" \notin Faults,
         OwnInv, MaskExcused, Next
  PROVE  MaskExcused'
<1>0. CASE LinkInterrupt \/ CallReset \/ PollStart \/ PollEnd \/ TimerFires \/ Watchdog
  BY <1>0, EnvQuiet DEF MaskExcused, Due
<1> USE DEF Run, PlaceInv, Actors, bits, core, hw, mem, power, intr, wd, OpsOf, Place,
        Downs, Ups, UserResets, PmInv, PciOps, RtnlOps, MaskExcused, Due, Commits, OwnInv,
        Go, Done
<1>1. ASSUME NEW o \in ops \cap RtnlOps, Begin(o)
      PROVE  MaskExcused'
  <2>1. pc["rtnl"] = "idle" /\ op["rtnl"] = "none"
    BY <1>1 DEF Begin
  <2>2. pc'["rtnl"] = FirstLabel(o) /\ op'["rtnl"] = o
    BY <1>1 DEF Begin
  <2>3. UNCHANGED <<pc["reset"], op["reset"], pc["pci"], op["pci"], down, rxon, posted, ims,
                    phase, present, wasdown>>
    BY <1>1 DEF Begin
  <2>4. CASE o = "open"
    BY <2>2, <2>4 DEF FirstLabel
  <2>5. CASE o # "open"
    <3>1. Due' => Due
      <4>1. running' => running
        BY <1>1, <2>5 DEF Begin
      <4> QED
        BY <2>3, <4>1
    <3>2. ~Commits(pc["rtnl"], op["rtnl"])
      BY <2>1
    <3> QED
      BY <2>3, <3>1, <3>2
  <2> QED
    BY <2>4, <2>5
<1>2. ASSUME NEW permanent \in BOOLEAN, ErrorDetected(permanent)
      PROVE  MaskExcused'
  BY <1>2 DEF ErrorDetected
<1>3. CASE Freeze
  BY <1>3 DEF Freeze
<1>4. CASE RuntimeSuspend
  BY <1>4 DEF RuntimeSuspend, HoldsPm, IffUp
<1>5. CASE Remove
  BY <1>5 DEF Remove
<1>6. CASE Wake
  BY <1>6 DEF Wake, WakeOp, IffUp
<1>7. CASE SlotResetFails
  BY <1>7 DEF SlotResetFails
<1>8. CASE ResetTask
  BY <1>8 DEF ResetTask
<1>9. ASSUME NEW a \in Actors, Step(a)
      PROVE  MaskExcused'
  <2>1. CASE Claim(a)
    BY <2>1 DEF Claim, CanClaim
  <2>2. CASE Wait(a)
    BY <2>2 DEF Wait, CanClaim
  <2>3. CASE TestDown(a)
    BY <2>3 DEF TestDown
  <2>4. CASE Down(a)
    BY <2>4 DEF Down
  <2>5. CASE Sync(a)
    BY <2>5 DEF Sync, SyncDone
  <2>6. CASE DelTimers(a)
    BY <2>6 DEF DelTimers
  <2>7. CASE CleanRings(a)
    BY <2>7 DEF CleanRings, AfterDown, HardReset
  <2>8. CASE Config(a)
    BY <2>8 DEF Config
  <2>9. CASE ClearDown(a)
    BY <2>9 DEF ClearDown
  <2>10. CASE Unmask(a)
    BY <2>10 DEF Unmask
  <2>11. CASE Release(a)
    BY <2>11 DEF Release
  <2>12. CASE Request(a)
    BY <2>12 DEF Request
  <2>13. CASE RequestFails(a)
    BY <2>13 DEF RequestFails, OpenFault
  <2>14. CASE FreeIrq(a)
    BY <2>14 DEF FreeIrq
  <2>15. CASE NapiOff(a)
    BY <2>15 DEF NapiOff, SyncDone
  <2>16. CASE Free(a)
    <3>1. a \in {"rtnl", "pci"} /\ op[a] \in {"close", "test", "remove"}
      BY <2>16 DEF Free
    <3>2. op[a] \in {"close", "remove"} => ~running
      BY <2>16, <3>1 DEF Free
    <3>3. CASE op[a] = "test"
      <4>1. a = "rtnl" /\ pc' = [pc EXCEPT ![a] = "tests"] /\ op' = op
        BY <2>16, <3>1, <3>3 DEF Free
      <4> QED
        BY <4>1, <3>3
    <3>4. CASE op[a] # "test"
      <4>1. ~running'
        BY <2>16, <3>1, <3>2, <3>4 DEF Free
      <4> QED
        BY <4>1
    <3> QED
      BY <3>3, <3>4
  <2> QED
    BY <1>9, <2>1, <2>2, <2>3, <2>4, <2>5, <2>6, <2>7, <2>8, <2>9, <2>10, <2>11, <2>12,
       <2>13, <2>14, <2>15, <2>16
       DEF Step
<1>10. CASE Get
  BY <1>10 DEF Get
<1>11. CASE NoMemory
  BY <1>11 DEF NoMemory
<1>12. CASE Awaken
  BY <1>12 DEF Awaken, AfterGet
<1>13. CASE Branch
  BY <1>13 DEF Branch, HardReset
<1>14. CASE SelfTest
  BY <1>14 DEF SelfTest
<1>15. CASE Swap
  BY <1>15 DEF Swap
<1>16. CASE NapiOn
  BY <1>16 DEF NapiOn
<1>17. CASE Alloc
  BY <1>17 DEF Alloc, HardReset
<1>18. CASE AllocFails
  BY <1>18 DEF AllocFails, HardReset, OpenFault
<1>19. CASE Backout
  BY <1>19 DEF Backout
<1>20. CASE BackedOut
  BY <1>20 DEF BackedOut, HardReset
<1>21. CASE Tests
  BY <1>21 DEF Tests, HardReset
<1>22. CASE Broken
  BY <1>22 DEF Broken
<1>23. CASE Sleep
  BY <1>23 DEF Sleep
<1>24. CASE SleepFails
  BY <1>24 DEF SleepFails, HardReset, IffUp
<1>25. CASE CancelReset
  BY <1>25 DEF CancelReset
<1>26. CASE CancelWatchdog
  BY <1>26 DEF CancelWatchdog
<1>27. CASE Unregister
  BY <1>27 DEF Unregister
<1>28. CASE Gone
  BY <1>28 DEF Gone
<1> QED
  BY <1>0, <1>1, <1>2, <1>3, <1>4, <1>5, <1>6, <1>7, <1>8, <1>9, <1>10, <1>11, <1>12, <1>13,
     <1>14, <1>15, <1>16, <1>17, <1>18, <1>19, <1>20, <1>21, <1>22, <1>23, <1>24, <1>25,
     <1>26, <1>27, <1>28
     DEF Next, PciBegin, Rtnl, Pci

UpInv == PlaceInv /\ PmInv /\ OwnInv /\ DownExcused /\ RxExcused /\ MaskExcused

\* The parts of UpInv hold at the start,
LEMMA UpInit ==
  ASSUME Init
  PROVE  UpInv
<1>1. PlaceInv
  BY PlaceInit
<1>2. PmInv /\ OwnInv /\ DownExcused /\ RxExcused /\ MaskExcused
  BY DEF Init, Actors, PmInv, OwnInv, DownExcused, RxExcused, MaskExcused, Due
<1> QED
  BY <1>1, <1>2 DEF UpInv

\* every step keeps them,
LEMMA UpStep ==
  ASSUME UpInv, "reopen" \notin Faults, "thaw" \notin Faults, [Next]_vars
  PROVE  UpInv'
<1>1. CASE Next
  BY <1>1, PlaceNext, PmNext, OwnNext, DownNext, RxNext, MaskNext DEF UpInv
<1>2. CASE UNCHANGED vars
  BY <1>2
     DEF UpInv, vars, bits, core, mem, hw, intr, power, PlaceInv, PmInv, OwnInv,
         DownExcused, RxExcused, MaskExcused, Due
<1> QED
  BY <1>1, <1>2

\* and together they say that an open device is up.
LEMMA UpSuffices ==
  ASSUME UpInv
  PROVE  OpenIsUp
<1> SUFFICES ASSUME running, phase = "awake", present, \A a \in Actors : op[a] = "none"
             PROVE  ~down /\ rings /\ posted /\ irq /\ ims /\ rxon /\ napi # "off"
  BY DEF OpenIsUp
<1>1. /\ op["rtnl"] = "none" /\ op["reset"] = "none" /\ op["pci"] = "none"
      /\ pc["rtnl"] = "idle" /\ pc["reset"] = "idle" /\ pc["pci"] = "idle"
  BY DEF UpInv, PlaceInv, Place, Actors
<1>2. ~Commits("idle", "none")
  BY DEF Commits, UserResets
<1>3. rings /\ irq /\ napi # "off"
  BY <1>1 DEF UpInv, OwnInv, Opening
<1>4. Due
  BY DEF Due
<1>5. ~down /\ rxon /\ posted /\ ims
  BY <1>1, <1>2, <1>4
     DEF UpInv, DownExcused, RxExcused, MaskExcused, ToClear, ToConfig
<1> QED
  BY <1>3, <1>5

\* Whatever is tried, in any order and with every interleaving of users' calls, resets,
\* suspends, bus errors and removal, a device in use with no operation under way is up:
\* not down, with rings, buffers, the interrupt handler and NAPI, and receiving. Two
\* failures are left out: of the e1000e_open that ends a self-test (e1000_diag_test
\* ignores it), and of the interrupt request of a thaw (e1000e_pm_thaw returns the error
\* with the device left down).
THEOREM OpenMeansUp ==
  ASSUME "reopen" \notin Faults, "thaw" \notin Faults
  PROVE  Spec => []OpenIsUp
<1>1. Init => UpInv
  BY UpInit
<1>2. UpInv /\ [Next]_vars => UpInv'
  BY UpStep
<1>3. UpInv => OpenIsUp
  BY UpSuffices
<1> QED
  BY <1>1, <1>2, <1>3, PTL DEF Spec

-----------------------------------------------------------------------------
(* What the device is outwardly is what it is inside, and resources have   *)
(* one owner: for the sets of operations in which this is so at all.       *)

\* Users' calls with suspends of either kind, or users' resets with reset_task. Errors,
\* removal, and reset_task beside close, self-test and suspend are left out: with each of
\* them the code leaves the device in other states.
Tame(tried) ==
  \/ tried \cap {"timeout", "error", "remove"} = {}
  \/ tried \subseteq {"open", "reinit", "mtu", "rings", "timeout"}

TameSettings ==
  /\ \A tried \in OpsSets : Tame(tried)
  /\ Faults \subseteq {"alloc", "sleep"}

\* The program points at which the device is neither at rest nor left alone.
Sect == {"down", "sync", "timers", "clean", "config", "clear", "unmask", "swap", "napion",
         "alloc", "request", "freeirq", "napioff", "free", "tests", "sleep"}

Shut == down /\ ~rings /\ ~posted /\ ~irq /\ ~rxon /\ ~ims /\ napi = "off"
Up == ~down /\ rings /\ posted /\ irq /\ rxon /\ ims /\ napi # "off"
Halted == down /\ rings /\ ~posted /\ ~ims /\ napi = "idle"

\* With nobody at work: closed, in use, or put to sleep (a system suspend gives the
\* interrupt back).
Rest ==
  IF ~IffUp THEN Shut
  ELSE IF phase = "awake" THEN Up
  ELSE Halted /\ (irq <=> phase = "runtime") /\ ~rxon

\* With somebody at work, at l in operation o.
At(l, o) ==
  /\ l = "down" => Up
  /\ l \in {"sync", "timers", "clean"} =>
       /\ down /\ rings /\ posted /\ irq /\ ~ims /\ napi # "off"
       /\ rxon => NoDisableRx
  /\ l \in {"timers", "clean"} => napi = "idle"
  /\ l = "swap" => Halted /\ irq /\ ~rxon
  /\ l = "config" =>
       IF o \in {"open", "test"}
         THEN down /\ rings /\ ~posted /\ ~ims /\ ~irq /\ ~rxon /\ napi = "off"
         ELSE Halted /\ irq
  /\ l = "request" =>
       IF o = "thaw"
         THEN Halted /\ ~irq
         ELSE down /\ rings /\ posted /\ ~ims /\ ~irq /\ rxon /\ napi = "off"
  /\ l \in {"clear", "napion", "unmask"} => rings /\ posted /\ rxon /\ irq /\ ~ims
  /\ l = "clear" => down /\ napi = (IF o \in {"open", "test"} THEN "off" ELSE "idle")
  /\ l = "napion" => ~down /\ napi = "off"
  /\ l = "unmask" => ~down /\ napi = "idle"
  /\ l = "freeirq" => Halted /\ irq
  /\ l = "napioff" => Halted /\ ~irq
  /\ l = "free" => down /\ rings /\ ~posted /\ ~irq /\ ~rxon /\ ~ims /\ napi = "off"
  /\ l \in {"tests", "alloc"} => Shut
  /\ l = "sleep" => IF IffUp THEN Halted /\ (irq <=> o = "rsuspend") ELSE Shut

RxInv == rxon => \/ rings /\ posted
                 \/ NoDisableRx /\ op["pci"] # "none"

\* At most one thread is at work, on a device that is up as far as users know, or is
\* being opened or put to sleep.
LevelInv ==
  /\ RxInv
  /\ (\A a \in Actors : pc[a] \notin Sect) => Rest
  /\ \A a \in Actors : pc[a] \in Sect =>
       /\ At(pc[a], op[a])
       /\ op[a] # "open" /\ pc[a] # "sleep" => IffUp
       /\ \A b \in Actors \ {a} : pc[b] \notin Sect

\* The PCI core suspends and resumes, no more.
PciTame ==
  /\ op["pci"] \in {"none", "freeze", "rsuspend", "thaw", "rresume"}
  /\ phase \in {"awake", "system", "runtime"}
  /\ op["pci"] \in {"freeze", "rsuspend"} => phase = "awake"

\* Where resets are asked for, users open the device and reset it, no more.
BusyTame ==
  "timeout" \in ops =>
    /\ op["pci"] = "none" /\ phase = "awake"
    /\ op["rtnl"] \in {"none", "open", "reinit", "mtu", "rings"}

\* While anything runs or may be asked for in the background, the device is in use.
StaysUp ==
  carrier \/ ims \/ timer \/ works # {} \/ wpc # "idle" \/ pc["reset"] # "idle" => IffUp

\* What happens in none of these behaviours, and what a reset asked for means.
TameInv ==
  /\ PciTame /\ BusyTame
  /\ pc["pci"] = "wait" => IffUp
  /\ pc["rtnl"] \notin {"backout", "undone"}
  /\ "timeout" \notin ops => pc["reset"] = "idle" /\ "reset" \notin works
  /\ "timeout" \in ops => StaysUp

\* A self-test that closes the device is marked as one.
TestMarked ==
  /\ op["rtnl"] = "test"
  /\ \/ pc["rtnl"] \in Downs
     \/ pc["rtnl"] \in {"wait", "test", "freeirq", "napioff", "free", "tests"}
  => testing

\* A self-test runs on a device that is open.
TestsOpen == op["rtnl"] = "test" /\ pc["rtnl"] \notin {"get", "awaken", "selftest"} => running

\* The firmware has been told; a self-test runs on an open device.
DrvInv ==
  /\ ~HasAMT /\ (phase = "awake" \/ op["pci"] # "none") => drv
  /\ IffUp /\ (phase = "awake" \/ op["pci"] # "none") => drv
  /\ op["rtnl"] = "open" /\ pc["rtnl"] \notin {"get", "awaken", "alloc"} => drv
  /\ TestsOpen
  /\ TestMarked

\* Everything an action's proof may use.
Ctx ==
  /\ PlaceInv /\ PmInv /\ TameInv /\ LevelInv /\ DrvInv
  /\ Tame(ops) /\ Faults \subseteq {"alloc", "sleep"}
  /\ "badset" \notin ops => Inv

\* A step of a alone, to program point l in operation o.
LEMMA GoesTo ==
  ASSUME PlaceInv, NEW a \in Actors, NEW l, Go(a, l)
  PROVE  /\ pc'[a] = l /\ op' = op
         /\ \A b \in Actors \ {a} : pc'[b] = pc[b] /\ op'[b] = op[b]
BY DEF Go, PlaceInv

\* A step of a alone, into a new operation.
LEMMA RunsTo ==
  ASSUME PlaceInv, NEW a \in Actors, NEW o, NEW l, Run(a, o, l)
  PROVE  /\ pc'[a] = l /\ op'[a] = o
         /\ \A b \in Actors \ {a} : pc'[b] = pc[b] /\ op'[b] = op[b]
BY DEF Run, PlaceInv

\* A step of a alone that ends its operation.
LEMMA DoneTo ==
  ASSUME PlaceInv, NEW a \in Actors, Done(a)
  PROVE  /\ pc'[a] = "idle" /\ op'[a] = "none"
         /\ \A b \in Actors \ {a} : pc'[b] = pc[b] /\ op'[b] = op[b]
BY RunsTo DEF Done

\* The one at work.
LEMMA LevelAt ==
  ASSUME LevelInv, NEW a \in Actors, pc[a] \in Sect
  PROVE  /\ At(pc[a], op[a])
         /\ op[a] # "open" /\ pc[a] # "sleep" => IffUp
         /\ \A b \in Actors \ {a} : pc[b] \notin Sect
BY DEF LevelInv

\* Afterwards a is at work,
LEMMA LevelIn ==
  ASSUME NEW a \in Actors, pc'[a] \in Sect, \A b \in Actors \ {a} : pc'[b] \notin Sect,
         At(pc[a], op[a])', op'[a] # "open" /\ pc'[a] # "sleep" => IffUp', RxInv'
  PROVE  LevelInv'
BY DEF LevelInv

\* or nobody is,
LEMMA LevelOut ==
  ASSUME \A b \in Actors : pc'[b] \notin Sect, Rest', RxInv'
  PROVE  LevelInv'
BY DEF LevelInv

\* or a has taken a step outside and the device stays as it is.
LEMMA LevelSame ==
  ASSUME LevelInv, PlaceInv, NEW a \in Actors, pc[a] \notin Sect, pc'[a] \notin Sect,
         \A b \in Actors \ {a} : pc'[b] = pc[b] /\ op'[b] = op[b],
         UNCHANGED <<down, rings, posted, rxon, ims, irq, napi, phase>>,
         IffUp' <=> IffUp, op["pci"] # "none" => op'["pci"] # "none"
  PROVE  LevelInv'
<1>1. RxInv'
  BY DEF LevelInv, RxInv
<1>2. Rest' <=> Rest
  BY DEF Rest, Shut, Up, Halted
<1>3. \A b \in Actors : pc'[b] \in Sect => pc[b] \in Sect /\ b # a
  OBVIOUS
<1>4. (\A b \in Actors : pc'[b] \notin Sect) => Rest'
  <2> SUFFICES ASSUME \A b \in Actors : pc'[b] \notin Sect PROVE Rest'
    OBVIOUS
  <2>1. \A b \in Actors : pc[b] \notin Sect
    OBVIOUS
  <2> QED
    BY <1>2, <2>1 DEF LevelInv
<1>5. ASSUME NEW b \in Actors, pc'[b] \in Sect
      PROVE  /\ At(pc[b], op[b])'
             /\ op'[b] # "open" /\ pc'[b] # "sleep" => IffUp'
             /\ \A d \in Actors \ {b} : pc'[d] \notin Sect
  <2>1. pc[b] \in Sect /\ b # a /\ pc'[b] = pc[b] /\ op'[b] = op[b]
    BY <1>5, <1>3
  <2>2. At(pc[b], op[b])'
    BY <2>1, LevelAt DEF At, Shut, Up, Halted
  <2>3. op'[b] # "open" /\ pc'[b] # "sleep" => IffUp'
    BY <2>1, LevelAt
  <2>4. \A d \in Actors \ {b} : pc'[d] \notin Sect
    BY <2>1, LevelAt
  <2> QED
    BY <2>2, <2>3, <2>4
<1> QED
  BY <1>1, <1>4, <1>5 DEF LevelInv

\* While the PCI core is at it, or the device asleep, nobody else is at work.
LEMMA PciAlone ==
  ASSUME Ctx, op["pci"] # "none" \/ phase # "awake"
  PROVE  pc["rtnl"] \notin Sect /\ pc["reset"] \notin Sect
<1>1. "timeout" \notin ops
  BY DEF Ctx, TameInv, PciTame, StaysUp, BusyTame
<1>2. pc["reset"] = "idle"
  BY <1>1 DEF Ctx, TameInv, PciTame, StaysUp, BusyTame
<1>3. CASE phase = "runtime" \/ op["pci"] \in {"rsuspend", "rresume"}
  BY <1>2, <1>3 DEF Ctx, PmInv, Sect
<1>4. CASE phase = "system" \/ op["pci"] \in {"freeze", "thaw"}
  BY <1>2, <1>4 DEF Ctx, PmInv, Sect
<1> QED
  BY <1>3, <1>4 DEF Ctx, TameInv, PciTame, StaysUp, BusyTame

\* A user's call that has come to where it may take the device down, or is about to open
\* it, is alone.
LEMMA RtnlAlone ==
  ASSUME Ctx,
         \/ pc["rtnl"] \in {"test", "selftest"}
         \/ pc["rtnl"] = "branch" /\ (running \/ op["rtnl"] # "rings")
         \/ pc["rtnl"] = "awaken" /\ op["rtnl"] = "open" /\ phase # "runtime"
              /\ op["pci"] \notin {"rsuspend", "rresume"}
  PROVE  /\ pc["pci"] \notin Sect /\ pc["reset"] \notin Sect
         /\ phase = "awake" /\ op["pci"] = "none"
<1>1. /\ Place(pc["rtnl"], op["rtnl"]) /\ Place(pc["reset"], op["reset"])
      /\ Place(pc["pci"], op["pci"]) /\ op["reset"] \in OpsOf("reset")
  BY DEF Ctx, PlaceInv, Actors
<1>2. phase # "runtime" /\ op["pci"] \notin {"rsuspend", "rresume"}
  BY DEF Ctx, PmInv
<1>3. phase # "system" /\ op["pci"] \notin {"freeze", "thaw"}
  BY DEF Ctx, PmInv
<1>4. phase = "awake" /\ op["pci"] = "none"
  BY <1>2, <1>3 DEF Ctx, TameInv, PciTame, StaysUp, BusyTame
<1>5. pc["pci"] \notin Sect
  BY <1>1, <1>4 DEF Place, Sect
<1>6. pc["reset"] \notin Sect
  <2>1. CASE "timeout" \notin ops
    BY <2>1 DEF Ctx, TameInv, PciTame, StaysUp, BusyTame, Sect
  <2>2. CASE "timeout" \in ops
    <3>1. "badset" \notin ops
      BY <2>2 DEF Ctx, Tame
    <3>2. op["rtnl"] \in {"none", "open", "reinit", "mtu", "rings"}
      BY <2>2 DEF Ctx, TameInv, PciTame, StaysUp, BusyTame
    <3>3. CASE op["rtnl"] = "open"
      <4>1. ~IffUp
        BY <3>3 DEF IffUp
      <4> QED
        BY <2>2, <4>1 DEF Ctx, TameInv, PciTame, StaysUp, BusyTame, Sect
    <3>4. CASE op["rtnl"] # "open"
      <4>1. op["rtnl"] \in UserResets /\ pc["rtnl"] = "branch"
        BY <1>1, <3>2, <3>4 DEF Place, UserResets, Downs, Ups
      <4>2. InReset(pc["rtnl"], op["rtnl"])
        BY <4>1 DEF InReset
      <4>3. ~InReset(pc["reset"], op["reset"])
        BY <3>1, <4>2 DEF Ctx, Inv, Actors
      <4> QED
        BY <1>1, <4>3 DEF InReset, OpsOf, Place, Sect, RtnlOps
    <3> QED
      BY <3>3, <3>4
  <2> QED
    BY <2>1, <2>2
<1> QED
  BY <1>4, <1>5, <1>6

\* So is reset_task when it has claimed the bit, and a user knows the device as up.
LEMMA ResetAlone ==
  ASSUME Ctx, pc["reset"] = "claim", ~resetting
  PROVE  /\ pc["pci"] \notin Sect /\ pc["rtnl"] \notin Sect
         /\ phase = "awake" /\ op["pci"] = "none"
         /\ IffUp
<1>1. "timeout" \in ops
  BY DEF Ctx, TameInv, PciTame, StaysUp, BusyTame
<1>2. "badset" \notin ops
  BY <1>1 DEF Ctx, Tame
<1>3. op["pci"] = "none" /\ phase = "awake" /\ IffUp
  BY <1>1 DEF Ctx, TameInv, PciTame, StaysUp, BusyTame
<1>4. pc["pci"] \notin Sect
  BY <1>3 DEF Ctx, PlaceInv, Place, Actors, Sect
<1>5. pc["rtnl"] \notin Sect
  <2>1. Place(pc["rtnl"], op["rtnl"]) /\ ~InReset(pc["rtnl"], op["rtnl"])
    BY <1>2 DEF Ctx, PlaceInv, Inv, Actors
  <2>2. op["rtnl"] \in {"none", "reinit", "mtu", "rings"}
    BY <1>1, <1>3 DEF Ctx, TameInv, PciTame, StaysUp, BusyTame, IffUp
  <2>3. CASE op["rtnl"] = "none"
    BY <2>1, <2>3 DEF Place, Sect
  <2>4. CASE op["rtnl"] # "none"
    BY <2>1, <2>2, <2>4 DEF InReset, UserResets, Sect
  <2> QED
    BY <2>3, <2>4
<1> QED
  BY <1>3, <1>4, <1>5

\* The steps at work.
LEMMA LevelWork ==
  ASSUME Ctx, NEW a \in Actors, pc[a] \in Sect, Step(a)
  PROVE  LevelInv'
<1> DEFINE Rem == \A b \in Actors \ {a} : pc'[b] = pc[b] /\ op'[b] = op[b]
<1>0. /\ PlaceInv /\ LevelInv /\ Place(pc[a], op[a]) /\ op[a] \in OpsOf(a)
      /\ \A b \in Actors \ {a} : pc[b] \notin Sect
      /\ At(pc[a], op[a]) /\ (op[a] # "open" /\ pc[a] # "sleep" => IffUp)
  BY LevelAt DEF Ctx, PlaceInv
<1>1. /\ op[a] \notin {"error", "ioresume", "remove"}
      /\ (a = "pci" <=> op[a] \in {"freeze", "rsuspend", "thaw", "rresume"})
  BY <1>0
     DEF Ctx, TameInv, PciTame, StaysUp, BusyTame, OpsOf, Actors, RtnlOps, PciOps, Place,
         Sect
<1>2. op[a] \in {"freeze", "rsuspend", "thaw", "rresume"} => op["pci"] # "none"
  BY <1>1
<1>3. CASE Down(a)
  <2>1. pc[a] = "down" /\ Go(a, "sync")
    BY <1>3 DEF Down
  <2>2. pc'[a] = ("sync") /\ op' = op /\ Rem
    BY <1>0, <2>1, GoesTo
  <2>3. At(pc[a], op[a])'
    BY <1>0, <1>1, <1>3, <2>1, <2>2
       DEF Down, At, Shut, Up, Halted, bits, core, mem, hw, intr, power
  <2>4. op'[a] # "open" /\ pc'[a] # "sleep" => IffUp'
    BY <1>0, <1>1, <1>3, <2>1, <2>2 DEF Down, IffUp, core, Actors
  <2>5. RxInv'
    BY <1>0, <1>1, <1>2, <1>3, <2>1, <2>2 DEF Down, RxInv, LevelInv, At, Up, Halted, mem, hw
  <2> QED
    BY <1>0, <2>1, <2>2, <2>3, <2>4, <2>5, LevelIn DEF Sect
<1>4. CASE Sync(a)
  <2>1. pc[a] = "sync" /\ Go(a, "timers")
    BY <1>4 DEF Sync
  <2>2. pc'[a] = ("timers") /\ op' = op /\ Rem
    BY <1>0, <2>1, GoesTo
  <2>3. At(pc[a], op[a])'
    BY <1>0, <1>1, <1>4, <2>1, <2>2
       DEF Sync, At, Shut, Up, Halted, bits, core, mem, hw, intr, power, SyncDone
  <2>4. op'[a] # "open" /\ pc'[a] # "sleep" => IffUp'
    BY <1>0, <1>1, <1>4, <2>1, <2>2 DEF Sync, IffUp, core, Actors, SyncDone
  <2>5. RxInv'
    BY <1>0, <1>1, <1>2, <1>4, <2>1, <2>2
       DEF Sync, RxInv, LevelInv, At, Up, Halted, mem, hw, SyncDone
  <2> QED
    BY <1>0, <2>1, <2>2, <2>3, <2>4, <2>5, LevelIn DEF Sect, SyncDone
<1>5. CASE DelTimers(a)
  <2>1. pc[a] = "timers" /\ Go(a, "clean")
    BY <1>5 DEF DelTimers
  <2>2. pc'[a] = ("clean") /\ op' = op /\ Rem
    BY <1>0, <2>1, GoesTo
  <2>3. At(pc[a], op[a])'
    BY <1>0, <1>1, <1>5, <2>1, <2>2
       DEF DelTimers, At, Shut, Up, Halted, bits, core, mem, hw, intr, power
  <2>4. op'[a] # "open" /\ pc'[a] # "sleep" => IffUp'
    BY <1>0, <1>1, <1>5, <2>1, <2>2 DEF DelTimers, IffUp, core, Actors
  <2>5. RxInv'
    BY <1>0, <1>1, <1>2, <1>5, <2>1, <2>2
       DEF DelTimers, RxInv, LevelInv, At, Up, Halted, mem, hw
  <2> QED
    BY <1>0, <2>1, <2>2, <2>3, <2>4, <2>5, LevelIn DEF Sect
<1>6. CASE CleanRings(a)
  <2>1. pc[a] = "clean" /\ Go(a, AfterDown(op[a]))
    BY <1>6 DEF CleanRings
  <2>2. pc'[a] = AfterDown(op[a]) /\ op' = op /\ Rem
    BY <1>0, <2>1, GoesTo
  <2>3. op[a] \in {"reinit", "mtu", "reset", "rings", "close", "test", "freeze", "rsuspend"}
    BY <1>0, <1>1, <2>1 DEF Place, OpsOf, RtnlOps, PciOps, Ups, Actors
  <2>4. /\ UNCHANGED <<down, rings, irq, napi, phase, running>> /\ ~posted' /\ ~ims' /\ IffUp'
        /\ op[a] \notin {"freeze", "rsuspend"} => ~rxon'
        /\ op[a] \in {"freeze", "rsuspend"} => rxon' = rxon
    BY <1>0, <2>1, <2>2, <2>3, <1>6
       DEF CleanRings, HardReset, IffUp, At, bits, core, hw, intr, power
  <2>5. Halted' /\ irq'
    BY <1>0, <2>1, <2>4 DEF At, Halted
  <2>6. RxInv'
    BY <1>0, <1>2, <2>1, <2>2, <2>3, <2>4 DEF At, RxInv
  <2>7. At(pc[a], op[a])'
    BY <2>2, <2>3, <2>4, <2>5 DEF At, AfterDown, Halted
  <2>8. pc'[a] \in Sect
    BY <2>2, <2>3 DEF AfterDown, Sect
  <2> QED
    BY <1>0, <2>2, <2>4, <2>6, <2>7, <2>8, LevelIn
<1>7. CASE Config(a)
  <2>1. pc[a] = "config" /\ Go(a, IF op[a] \in {"open", "test"} THEN "request" ELSE "clear")
    BY <1>7 DEF Config
  <2>2. pc'[a] = (IF op[a] \in {"open", "test"} THEN "request" ELSE "clear") /\ op' = op /\ Rem
    BY <1>0, <2>1, GoesTo
  <2>3. At(pc[a], op[a])'
    BY <1>0, <1>1, <1>7, <2>1, <2>2
       DEF Config, At, Shut, Up, Halted, bits, core, mem, hw, intr, power, Place,
           UserResets, Downs, Ups
  <2>4. op'[a] # "open" /\ pc'[a] # "sleep" => IffUp'
    BY <1>0, <1>1, <1>7, <2>1, <2>2
       DEF Config, IffUp, core, Actors, Place, UserResets, Downs, Ups
  <2>5. RxInv'
    BY <1>0, <1>1, <1>2, <1>7, <2>1, <2>2
       DEF Config, RxInv, LevelInv, At, Up, Halted, mem, hw, Place, UserResets, Downs, Ups
  <2> QED
    BY <1>0, <2>1, <2>2, <2>3, <2>4, <2>5, LevelIn DEF Sect, Place, UserResets, Downs, Ups
<1>8. CASE ClearDown(a)
  <2>1. pc[a] = "clear" /\ Go(a, IF op[a] \in {"open", "test"} THEN "napion" ELSE "unmask")
    BY <1>8 DEF ClearDown
  <2>2. pc'[a] = (IF op[a] \in {"open", "test"} THEN "napion" ELSE "unmask") /\ op' = op /\ Rem
    BY <1>0, <2>1, GoesTo
  <2>3. At(pc[a], op[a])'
    BY <1>0, <1>1, <1>8, <2>1, <2>2
       DEF ClearDown, At, Shut, Up, Halted, bits, core, mem, hw, intr, power
  <2>4. op'[a] # "open" /\ pc'[a] # "sleep" => IffUp'
    BY <1>0, <1>1, <1>8, <2>1, <2>2 DEF ClearDown, IffUp, core, Actors
  <2>5. RxInv'
    BY <1>0, <1>1, <1>2, <1>8, <2>1, <2>2
       DEF ClearDown, RxInv, LevelInv, At, Up, Halted, mem, hw
  <2> QED
    BY <1>0, <2>1, <2>2, <2>3, <2>4, <2>5, LevelIn DEF Sect
<1>9. CASE Request(a)
  <2>1. pc[a] = "request" /\ Go(a, IF a = "pci" THEN "config" ELSE "clear")
    BY <1>9 DEF Request
  <2>2. pc'[a] = (IF a = "pci" THEN "config" ELSE "clear") /\ op' = op /\ Rem
    BY <1>0, <2>1, GoesTo
  <2>3. (a = "pci" => op[a] = "thaw") /\ (a # "pci" => op[a] \in {"open", "test"})
    BY <1>0, <1>1, <2>1 DEF Place, UserResets, Downs, Ups, OpsOf, RtnlOps, Actors
  <2>4. UNCHANGED <<down, rings, posted, rxon, ims, napi, running>> /\ irq'
    BY <1>9 DEF Request, bits, core, mem, hw
  <2>5. At(pc[a], op[a])'
    <3>1. CASE a = "pci"
      BY <1>0, <2>1, <2>2, <2>3, <2>4, <3>1 DEF At, Halted
    <3>2. CASE a # "pci"
      BY <1>0, <2>1, <2>2, <2>3, <2>4, <3>2 DEF At
    <3> QED
      BY <3>1, <3>2
  <2>6. op'[a] # "open" /\ pc'[a] # "sleep" => IffUp'
    BY <1>0, <2>1, <2>2, <2>4 DEF IffUp
  <2>7. RxInv'
    BY <1>0, <2>2, <2>4 DEF RxInv, LevelInv
  <2> QED
    BY <1>0, <2>2, <2>5, <2>6, <2>7, LevelIn DEF Sect
<1>10. CASE RequestFails(a)
  BY <1>0, <1>1, <1>10 DEF RequestFails, OpenFault, Ctx
<1>11. CASE FreeIrq(a)
  <2>1. pc[a] = "freeirq" /\ Go(a, IF op[a] = "freeze" THEN "sleep" ELSE "napioff")
    BY <1>11 DEF FreeIrq
  <2>2. pc'[a] = (IF op[a] = "freeze" THEN "sleep" ELSE "napioff") /\ op' = op /\ Rem
    BY <1>0, <2>1, GoesTo
  <2>3. At(pc[a], op[a])'
    BY <1>0, <1>1, <1>11, <2>1, <2>2
       DEF FreeIrq, At, Shut, Up, Halted, bits, core, mem, hw, intr, power, IffUp
  <2>4. op'[a] # "open" /\ pc'[a] # "sleep" => IffUp'
    BY <1>0, <1>1, <1>11, <2>1, <2>2 DEF FreeIrq, IffUp, core, Actors, IffUp
  <2>5. RxInv'
    BY <1>0, <1>1, <1>2, <1>11, <2>1, <2>2
       DEF FreeIrq, RxInv, LevelInv, At, Up, Halted, mem, hw, IffUp
  <2> QED
    BY <1>0, <2>1, <2>2, <2>3, <2>4, <2>5, LevelIn DEF Sect, IffUp
<1>12. CASE NapiOff(a)
  <2>1. pc[a] = "napioff" /\ Go(a, "free")
    BY <1>12 DEF NapiOff
  <2>2. pc'[a] = "free" /\ op' = op /\ Rem
    BY <1>0, <2>1, GoesTo
  <2>3. a = "rtnl" /\ op["pci"] = "none"
    <3>1. a = "rtnl"
      BY <1>0, <1>1, <2>1 DEF Place, UserResets, Downs, Ups, OpsOf, Actors
    <3> QED
      BY <2>1, <3>1, PciAlone DEF Sect
  <2>4. ~rxon /\ Halted /\ ~irq
    BY <1>0, <2>1, <2>3 DEF At, LevelInv, RxInv, Halted
  <2>5. At(pc[a], op[a])' /\ RxInv'
    BY <2>2, <2>4, <1>12 DEF NapiOff, At, Halted, RxInv, bits, mem, hw
  <2>6. op'[a] # "open" => IffUp'
    BY <1>0, <1>12, <2>1, <2>2 DEF NapiOff, IffUp, core
  <2> QED
    BY <1>0, <2>2, <2>5, <2>6, LevelIn DEF Sect
<1>13. CASE Free(a)
  <2>1. pc[a] = "free" /\ a = "rtnl" /\ op[a] \in {"close", "test"}
    <3>1. pc[a] = "free"
      BY <1>13 DEF Free
    <3> QED
      BY <1>0, <1>1, <3>1 DEF Place, UserResets, Downs, Ups, OpsOf, PciOps, RtnlOps, Actors
  <2>2. Shut' /\ RxInv'
    BY <1>0, <1>13, <2>1 DEF Free, At, Shut, RxInv, bits, intr
  <2>3. CASE op[a] = "close"
    <3>1. pc'[a] = "idle" /\ op'[a] = "none" /\ Rem
      BY <1>0, <1>13, <2>3, DoneTo DEF Free
    <3>2. ~IffUp'
      BY <1>13, <2>1, <2>3, <3>1 DEF Free, IffUp, core, Ctx, PmInv
    <3> QED
      BY <1>0, <2>2, <3>1, <3>2, LevelOut DEF Rest, Sect
  <2>4. CASE op[a] = "test"
    <3>1. Go(a, "tests")
      BY <1>13, <2>4 DEF Free
    <3>2. pc'[a] = "tests" /\ op' = op /\ Rem
      BY <1>0, <3>1, GoesTo
    <3>3. IffUp'
      BY <1>0, <1>13, <2>1, <2>4, <3>2 DEF Free, IffUp, core
    <3>4. At(pc[a], op[a])'
      BY <2>2, <3>2 DEF At, Shut
    <3> QED
      BY <1>0, <2>2, <3>2, <3>3, <3>4, LevelIn DEF Sect
  <2> QED
    BY <2>1, <2>3, <2>4
<1>14. CASE Unmask(a)
  <2>1. /\ pc[a] = "unmask" /\ ims' = TRUE
        /\ UNCHANGED <<down, rings, posted, rxon, irq, napi, running>>
    BY <1>14 DEF Unmask, bits, mem, intr
  <2>2. Up' /\ RxInv'
    BY <1>0, <2>1 DEF At, Up, RxInv
  <2>3. pc'[a] \in {"idle", "release"} /\ (op'[a] = op[a] \/ op'[a] = "none") /\ Rem
    <3>1. CASE Go(a, "release")
      BY <1>0, <3>1, GoesTo
    <3>2. CASE Done(a)
      BY <1>0, <3>2, DoneTo
    <3> QED
      BY <1>14, <3>1, <3>2 DEF Unmask
  <2>4. op[a] = "open" => a = "rtnl" /\ op'[a] = "none" /\ running
    <3>1. op[a] = "open" => a = "rtnl" /\ running
      BY <1>0, <1>1 DEF OpsOf, Actors, Ctx, PmInv
    <3>2. op[a] = "open" => Done(a)
      BY <1>14 DEF Unmask
    <3> QED
      BY <1>0, <3>1, <3>2, DoneTo
  <2>5. op["rtnl"] = "close" => a # "rtnl"
    BY <1>0, <2>1 DEF Place, Downs
  <2>6. IffUp'
    <3>1. CASE op[a] = "open"
      BY <2>1, <2>4, <3>1 DEF IffUp
    <3>2. CASE op[a] # "open"
      <4>1. IffUp
        BY <1>0, <2>1, <3>2
      <4>2. CASE a = "rtnl"
        BY <2>1, <2>3, <2>5, <3>2, <4>1, <4>2 DEF IffUp
      <4>3. CASE a # "rtnl"
        BY <2>1, <2>3, <4>1, <4>3 DEF IffUp, Actors
      <4> QED
        BY <4>2, <4>3
    <3> QED
      BY <3>1, <3>2
  <2>7. phase' = "awake"
    <3>1. CASE a = "pci"
      BY <1>14, <3>1 DEF Unmask
    <3>2. CASE a # "pci"
      <4>1. phase = "awake" \/ pc[a] \notin Sect
        BY <3>2, PciAlone DEF Actors
      <4> QED
        BY <1>14, <2>1, <3>2, <4>1 DEF Unmask, Sect
    <3> QED
      BY <3>1, <3>2
  <2> QED
    BY <1>0, <2>2, <2>3, <2>6, <2>7, LevelOut DEF Rest, Sect
<1>15. CASE Claim(a)
  BY <1>15 DEF Claim, Sect
<1>16. CASE Wait(a)
  BY <1>16 DEF Wait, Sect
<1>17. CASE TestDown(a)
  BY <1>17 DEF TestDown, Sect
<1>18. CASE Release(a)
  BY <1>18 DEF Release, Sect
<1> QED
  BY <1>3, <1>4, <1>5, <1>6, <1>7, <1>8, <1>9, <1>10, <1>11, <1>12, <1>13, <1>14, <1>15,
     <1>16, <1>17, <1>18
     DEF Step

\* Nobody at work takes a step that leaves the device alone,
LEMMA LevelGo ==
  ASSUME Ctx, NEW a \in Actors, pc[a] \notin Sect, NEW l \in Labels, l \notin Sect, Go(a, l),
         UNCHANGED <<down, rings, posted, rxon, ims, irq, napi, phase, running>>
  PROVE  LevelInv'
<1>1. PlaceInv /\ LevelInv
  BY DEF Ctx
<1>2. pc'[a] = l /\ op' = op /\ \A b \in Actors \ {a} : pc'[b] = pc[b] /\ op'[b] = op[b]
  BY <1>1, GoesTo
<1>3. IffUp' <=> IffUp
  BY <1>2 DEF IffUp
<1> QED
  BY <1>1, <1>2, <1>3, LevelSame

\* or ends its operation.
LEMMA LevelDone ==
  ASSUME Ctx, NEW a \in Actors, pc[a] \notin Sect, Done(a), a # "pci",
         op[a] \notin {"open", "close"},
         UNCHANGED <<down, rings, posted, rxon, ims, irq, napi, phase, running>>
  PROVE  LevelInv'
<1>1. PlaceInv /\ LevelInv
  BY DEF Ctx
<1>2. /\ pc'[a] = "idle" /\ op'[a] = "none"
      /\ \A b \in Actors \ {a} : pc'[b] = pc[b] /\ op'[b] = op[b]
  BY <1>1, DoneTo
<1>3. IffUp' <=> IffUp
  BY <1>2 DEF IffUp, Actors
<1>4. op'["pci"] = op["pci"]
  BY <1>2 DEF Actors
<1> QED
  BY <1>1, <1>2, <1>3, <1>4, LevelSame DEF Sect

\* The steps of nobody at work: they begin it, or leave the device alone.
LEMMA LevelOutside ==
  ASSUME Ctx, NEW a \in Actors, pc[a] \notin Sect, Step(a)
  PROVE  LevelInv'
<1>0. /\ PlaceInv /\ LevelInv /\ Place(pc[a], op[a]) /\ op[a] \in OpsOf(a)
  BY DEF Ctx, PlaceInv
<1>1. /\ op[a] \notin {"error", "ioresume", "remove"}
      /\ a = "pci" /\ pc[a] = "wait" => op[a] \in {"freeze", "rsuspend"}
  BY <1>0
     DEF Ctx, TameInv, PciTame, StaysUp, BusyTame, OpsOf, Actors, RtnlOps, PciOps, Place,
         Ups
<1>2. ASSUME UNCHANGED <<bits, core, mem, hw, intr, carrier, wd, power>>,
             op[a] \in {"close", "test", "reset", "freeze", "rsuspend"},
             \A b \in Actors \ {a} : pc[b] \notin Sect, phase = "awake", IffUp,
             Go(a, "down")
      PROVE  LevelInv'
  <2>1. pc'[a] = "down" /\ op' = op /\ \A b \in Actors \ {a} : pc'[b] = pc[b] /\ op'[b] = op[b]
    BY <1>0, <1>2, GoesTo
  <2>2. Up
    BY <1>0, <1>2 DEF LevelInv, Rest
  <2>3. At(pc[a], op[a])' /\ RxInv'
    BY <1>2, <2>1, <2>2 DEF At, Up, RxInv, bits, mem, hw, intr
  <2>4. IffUp'
    BY <1>2, <2>1 DEF IffUp, core
  <2> QED
    BY <1>2, <2>1, <2>3, <2>4, LevelIn DEF Sect
<1>5. CASE Claim(a)
  <2>1. pc[a] = "claim" /\ ~resetting /\ op[a] \in {"reset", "reinit", "mtu", "rings"}
    BY <1>0, <1>5
       DEF Claim, CanClaim, Place, UserResets, Downs, Ups, OpsOf, RtnlOps, PciOps, Actors
  <2>2. UNCHANGED <<down, testing, core, mem, hw, intr, carrier, wd, power>>
    BY <1>5 DEF Claim
  <2>3. CASE op[a] # "reset"
    <3>1. Go(a, "branch") \/ Go(a, "get")
      BY <1>5, <2>1, <2>3 DEF Claim
    <3> QED
      BY <1>0, LevelGo, <2>2, <3>1 DEF core, mem, hw, intr, power, Labels, Sect
  <2>4. CASE op[a] = "reset"
    <3>1. a = "reset" /\ Go(a, "down")
      BY <1>0, <1>5, <2>4 DEF Claim, OpsOf, RtnlOps, PciOps, Actors
    <3>2. \A b \in Actors \ {a} : pc[b] \notin Sect
      BY <2>1, <3>1, ResetAlone DEF Actors
    <3>3. Up /\ IffUp
      BY <1>0, <2>1, <3>1, <3>2, ResetAlone DEF LevelInv, Rest
    <3>4. /\ pc'[a] = "down" /\ op' = op
          /\ \A b \in Actors \ {a} : pc'[b] = pc[b] /\ op'[b] = op[b]
      BY <1>0, <3>1, GoesTo
    <3>5. At(pc[a], op[a])' /\ RxInv'
      BY <2>2, <3>3, <3>4 DEF At, Up, RxInv, mem, hw, intr
    <3>6. IffUp'
      BY <2>2, <3>3, <3>4 DEF IffUp, core
    <3> QED
      BY <3>2, <3>4, <3>5, <3>6, LevelIn DEF Sect
  <2> QED
    BY <2>3, <2>4
<1>6. CASE Wait(a)
  <2>1. /\ pc[a] = "wait" /\ op[a] \in {"close", "test", "freeze", "rsuspend"}
        /\ UNCHANGED <<bits, core, mem, hw, intr, carrier, wd, power>>
    BY <1>0, <1>1, <1>6
       DEF Wait, Place, UserResets, Downs, Ups, OpsOf, RtnlOps, PciOps, Actors
  <2>2. CASE op[a] \in {"close", "test"}
    <3>1. Go(a, "get") \/ Go(a, "test")
      BY <1>6, <2>2 DEF Wait
    <3> QED
      BY <1>0, LevelGo, <2>1, <3>1 DEF bits, core, mem, hw, intr, power, Labels, Sect
  <2>3. CASE op[a] \in {"freeze", "rsuspend"}
    <3>1. a = "pci" /\ Go(a, "down")
      BY <1>0, <1>6, <2>3 DEF Wait, OpsOf, RtnlOps, Actors
    <3>2. \A b \in Actors \ {a} : pc[b] \notin Sect
      BY <2>3, <3>1, PciAlone DEF Actors
    <3>3. phase = "awake" /\ IffUp
      BY <2>1, <2>3, <3>1 DEF Ctx, TameInv, PciTame, StaysUp, BusyTame
    <3> QED
      BY <1>2, <2>1, <3>1, <3>2, <3>3
  <2> QED
    BY <2>1, <2>2, <2>3
<1>7. CASE TestDown(a)
  <2>1. /\ pc[a] = "test" /\ op[a] \in {"reset", "close", "test"}
        /\ UNCHANGED <<bits, core, mem, hw, intr, carrier, wd, power>>
    BY <1>0, <1>1, <1>7
       DEF TestDown, Place, UserResets, Downs, Ups, OpsOf, RtnlOps, PciOps, Actors
  <2>2. CASE op[a] = "reset"
    <3>1. Done(a) \/ Go(a, "claim")
      BY <1>7, <2>2 DEF TestDown
    <3>2. a # "pci"
      BY <1>0, <2>2 DEF OpsOf, PciOps
    <3> QED
      BY <1>0, LevelGo, LevelDone, <2>1, <2>2, <3>1, <3>2
         DEF bits, core, mem, hw, intr, power, Labels, Sect
  <2>3. CASE op[a] # "reset"
    <3>1. a = "rtnl"
      BY <1>0, <2>1, <2>3 DEF OpsOf, PciOps, Actors
    <3>2. (\A b \in Actors \ {a} : pc[b] \notin Sect) /\ phase = "awake" /\ op["pci"] = "none"
      BY <2>1, <3>1, RtnlAlone DEF Actors
    <3>3. IffUp
      BY <2>1, <2>3, <3>1 DEF IffUp, Ctx, DrvInv, TestsOpen, TestMarked
    <3>4. ~down
      BY <1>0, <3>2, <3>3 DEF LevelInv, Rest, Up
    <3>5. Go(a, "down")
      BY <1>7, <2>3, <3>4 DEF TestDown
    <3> QED
      BY <1>2, <2>1, <3>2, <3>3, <3>5
  <2> QED
    BY <2>2, <2>3
<1>8. CASE Release(a)
  <2>1. a # "pci" /\ op[a] \notin {"open", "close"}
    BY <1>0, <1>8 DEF Release, Place, UserResets, Downs, Ups, OpsOf, PciOps
  <2> QED
    BY LevelDone, <1>8, <2>1 DEF Release, core, mem, hw, intr, power
<1> QED
  BY <1>5, <1>6, <1>7, <1>8
     DEF Step, Down, Sync, DelTimers, CleanRings, Config, ClearDown, Unmask, Request,
         RequestFails, FreeIrq, NapiOff, Free, Sect

\* The steps only a user's call takes.
LEMMA LevelRtnl ==
  ASSUME Ctx, Rtnl
  PROVE  LevelInv'
<1> DEFINE Rem == \A b \in Actors \ {"rtnl"} : pc'[b] = pc[b] /\ op'[b] = op[b]
<1> DEFINE Others == \A b \in Actors \ {"rtnl"} : pc[b] \notin Sect
<1>0. /\ PlaceInv /\ LevelInv /\ "rtnl" \in Actors
      /\ Place(pc["rtnl"], op["rtnl"]) /\ op["rtnl"] \in RtnlOps \cup {"none"}
      /\ Faults \cap {"reopen", "irq"} = {}
  BY DEF Ctx, PlaceInv, OpsOf, Actors
<1>1. ASSUME pc["rtnl"] \in Sect
      PROVE  /\ At(pc["rtnl"], op["rtnl"]) /\ Others /\ (op["rtnl"] # "open" => IffUp)
             /\ op["pci"] = "none" /\ phase = "awake"
  BY <1>0, <1>1, LevelAt, PciAlone DEF Place, Sect, Downs, Ups, UserResets, RtnlOps
<1>2. CASE Get \/ NoMemory
  BY <1>0, <1>2, LevelGo DEF Get, NoMemory, Labels, Sect, bits, core, mem, hw, intr, power
<1>3. CASE Awaken
  <2>1. pc["rtnl"] = "awaken" /\ op["rtnl"] \in RtnlOps
    BY <1>0, <1>3 DEF Awaken, Place
  <2>2. CASE op["rtnl"] # "open"
    <3>1. AfterGet(op["rtnl"]) \in Labels /\ AfterGet(op["rtnl"]) \notin Sect
      BY <2>1, <2>2 DEF AfterGet, RtnlOps, Labels, Sect
    <3> QED
      BY <1>0, <1>3, <2>1, <3>1, LevelGo DEF Awaken, Sect, bits, core, mem, hw, intr, power
  <2>3. CASE op["rtnl"] = "open"
    <3>1. Others
      BY <1>3, <2>1, <2>3, RtnlAlone DEF Awaken, Actors
    <3>2. Shut
      BY <1>0, <2>1, <2>3, <3>1 DEF LevelInv, Rest, IffUp, Sect
    <3>3. Go("rtnl", "alloc")
      BY <1>3, <2>3 DEF Awaken, AfterGet
    <3>4. pc'["rtnl"] = "alloc" /\ op' = op /\ Rem
      BY <1>0, <3>3, GoesTo
    <3>5. At(pc["rtnl"], op["rtnl"])' /\ RxInv'
      BY <1>3, <3>2, <3>4 DEF Awaken, At, Shut, RxInv, bits, mem, hw, intr
    <3> QED
      BY <1>0, <2>3, <3>1, <3>4, <3>5, LevelIn DEF Sect
  <2> QED
    BY <2>2, <2>3
<1>4. CASE Branch
  <2>1. pc["rtnl"] = "branch" /\ op["rtnl"] \in UserResets
    BY <1>0, <1>4 DEF Branch, Place, Downs, Ups, UserResets, RtnlOps
  <2>2. CASE running
    <3>1. Others /\ phase = "awake"
      BY <2>1, <2>2, RtnlAlone DEF Actors
    <3>2. Up
      BY <1>0, <2>1, <2>2, <3>1 DEF LevelInv, Rest, IffUp, Sect, UserResets
    <3>3. Go("rtnl", "down") /\ UNCHANGED <<bits, core, mem, hw, intr>>
      BY <1>4, <2>2 DEF Branch
    <3>4. pc'["rtnl"] = "down" /\ op' = op /\ Rem
      BY <1>0, <3>3, GoesTo
    <3>5. At(pc["rtnl"], op["rtnl"])' /\ RxInv'
      BY <3>2, <3>3, <3>4 DEF At, Up, RxInv, bits, mem, hw, intr
    <3>6. IffUp'
      BY <2>1, <2>2, <3>3, <3>4 DEF IffUp, UserResets, core
    <3> QED
      BY <1>0, <3>1, <3>4, <3>5, <3>6, LevelIn DEF Sect
  <2>3. CASE ~running /\ op["rtnl"] = "rings"
    BY <1>0, <1>4, <2>1, <2>3, LevelGo
       DEF Branch, Labels, Sect, bits, core, mem, intr, hw, power
  <2>4. CASE ~running /\ op["rtnl"] # "rings"
    <3>1. Others
      BY <2>1, <2>4, RtnlAlone DEF Actors
    <3>2. Shut
      BY <1>0, <2>1, <2>4, <3>1 DEF LevelInv, Rest, IffUp, Sect, UserResets
    <3>3. Go("rtnl", "release") /\ HardReset /\ UNCHANGED <<bits, core, mem, intr>>
      BY <1>4, <2>4 DEF Branch
    <3>4. pc'["rtnl"] = "release" /\ op' = op /\ Rem
      BY <1>0, <3>3, GoesTo
    <3>5. Shut' /\ RxInv'
      BY <3>2, <3>3 DEF Shut, HardReset, RxInv, bits, mem, intr
    <3>6. ~IffUp'
      BY <2>1, <2>4, <3>3, <3>4 DEF IffUp, UserResets, core
    <3> QED
      BY <1>0, <3>1, <3>4, <3>5, <3>6, LevelOut DEF Sect, Rest
  <2> QED
    BY <2>2, <2>3, <2>4
<1>5. CASE SelfTest
  <2>1. pc["rtnl"] = "selftest" /\ op["rtnl"] = "test"
    BY <1>0, <1>5 DEF SelfTest, Place, Downs, Ups, UserResets, RtnlOps
  <2>2. CASE running
    BY <1>0, <1>5, <2>1, <2>2, LevelGo
       DEF SelfTest, Labels, Sect, core, mem, intr, hw, power
  <2>3. CASE ~running
    <3>1. Others
      BY <2>1, RtnlAlone DEF Actors
    <3>2. Shut
      BY <1>0, <2>1, <2>3, <3>1 DEF LevelInv, Rest, IffUp, Sect
    <3>3. Done("rtnl") /\ ~rxon' /\ ~ims' /\ UNCHANGED <<down, core, mem, intr>>
      BY <1>5, <2>3 DEF SelfTest
    <3>4. pc'["rtnl"] = "idle" /\ op'["rtnl"] = "none" /\ Rem
      BY <1>0, <3>3, DoneTo
    <3>5. Shut' /\ RxInv'
      BY <3>2, <3>3 DEF Shut, RxInv, mem, intr
    <3>6. ~IffUp'
      BY <2>3, <3>3, <3>4 DEF IffUp, core
    <3> QED
      BY <1>0, <3>1, <3>4, <3>5, <3>6, LevelOut DEF Sect, Rest
  <2> QED
    BY <2>2, <2>3
<1>6. CASE Swap
  <2>1. pc["rtnl"] = "swap" /\ op["rtnl"] = "rings" /\ Go("rtnl", "config")
        /\ UNCHANGED <<bits, core, mem, hw, intr>>
    BY <1>0, <1>6 DEF Swap, Place, Downs, Ups, UserResets, RtnlOps
  <2>2. pc'["rtnl"] = "config" /\ op' = op /\ Rem
    BY <1>0, <2>1, GoesTo
  <2>3. At(pc["rtnl"], op["rtnl"]) /\ Others /\ IffUp
    BY <1>1, <2>1 DEF Sect
  <2>4. At(pc["rtnl"], op["rtnl"])' /\ RxInv' /\ IffUp'
    BY <2>1, <2>2, <2>3 DEF At, Halted, RxInv, IffUp, bits, core, mem, hw, intr
  <2> QED
    BY <1>0, <2>2, <2>3, <2>4, LevelIn DEF Sect
<1>7. CASE NapiOn
  <2>1. pc["rtnl"] = "napion" /\ Go("rtnl", "unmask") /\ napi' = "idle"
        /\ UNCHANGED <<bits, core, mem, hw, irq>>
    BY <1>7 DEF NapiOn
  <2>2. pc'["rtnl"] = "unmask" /\ op' = op /\ Rem
    BY <1>0, <2>1, GoesTo
  <2>3. At(pc["rtnl"], op["rtnl"]) /\ Others /\ (op["rtnl"] # "open" => IffUp)
    BY <1>1, <2>1 DEF Sect
  <2>4. At(pc["rtnl"], op["rtnl"])' /\ RxInv'
    BY <2>1, <2>2, <2>3 DEF At, RxInv, bits, mem, hw
  <2>5. op'["rtnl"] # "open" => IffUp'
    BY <2>1, <2>2, <2>3 DEF IffUp, core
  <2> QED
    BY <1>0, <2>2, <2>3, <2>4, <2>5, LevelIn DEF Sect
<1>8. CASE Alloc
  <2>1. pc["rtnl"] = "alloc" /\ op["rtnl"] \in {"open", "test"} /\ Go("rtnl", "config")
        /\ rings' /\ UNCHANGED <<bits, core, posted, intr>> /\ (HardReset \/ UNCHANGED hw)
    BY <1>0, <1>8 DEF Alloc, Place, Downs, Ups, UserResets, RtnlOps
  <2>2. pc'["rtnl"] = "config" /\ op' = op /\ Rem
    BY <1>0, <2>1, GoesTo
  <2>3. At(pc["rtnl"], op["rtnl"]) /\ Others /\ (op["rtnl"] # "open" => IffUp)
    BY <1>1, <2>1 DEF Sect
  <2>4. Shut /\ ~rxon' /\ ~ims'
    BY <2>1, <2>3 DEF At, Shut, HardReset, hw
  <2>5. At(pc["rtnl"], op["rtnl"])' /\ RxInv'
    BY <2>1, <2>2, <2>4 DEF At, Shut, RxInv, bits, intr
  <2>6. op'["rtnl"] # "open" => IffUp'
    BY <2>1, <2>2, <2>3 DEF IffUp, core
  <2> QED
    BY <1>0, <2>2, <2>3, <2>5, <2>6, LevelIn DEF Sect
<1>9. CASE AllocFails
  <2>1. pc["rtnl"] = "alloc" /\ op["rtnl"] = "open" /\ Done("rtnl") /\ HardReset
        /\ ~running' /\ UNCHANGED <<bits, mem, intr>>
    BY <1>0, <1>9 DEF AllocFails, OpenFault
  <2>2. pc'["rtnl"] = "idle" /\ op'["rtnl"] = "none" /\ Rem
    BY <1>0, <2>1, DoneTo
  <2>3. Shut /\ Others
    BY <1>1, <2>1 DEF At, Sect
  <2>4. Shut' /\ RxInv'
    BY <2>1, <2>3 DEF Shut, HardReset, RxInv, bits, mem, intr
  <2>5. ~IffUp'
    BY <2>1, <2>2 DEF IffUp
  <2> QED
    BY <1>0, <2>2, <2>3, <2>4, <2>5, LevelOut DEF Sect, Rest
<1>10. CASE Backout \/ BackedOut
  BY <1>10 DEF Backout, BackedOut, Ctx, TameInv, PciTame, StaysUp, BusyTame
<1>11. CASE Tests
  <2>1. pc["rtnl"] = "tests" /\ Go("rtnl", "alloc") /\ HardReset
        /\ UNCHANGED <<down, core, mem, intr>>
    BY <1>11 DEF Tests
  <2>2. pc'["rtnl"] = "alloc" /\ op' = op /\ Rem
    BY <1>0, <2>1, GoesTo
  <2>3. Shut /\ Others /\ (op["rtnl"] # "open" => IffUp)
    BY <1>1, <2>1 DEF At, Sect
  <2>4. At(pc["rtnl"], op["rtnl"])' /\ RxInv'
    BY <2>1, <2>2, <2>3 DEF At, Shut, HardReset, RxInv, mem, intr
  <2>5. op'["rtnl"] # "open" => IffUp'
    BY <2>1, <2>2, <2>3 DEF IffUp, core
  <2> QED
    BY <1>0, <2>2, <2>3, <2>4, <2>5, LevelIn DEF Sect
<1> QED
  BY <1>2, <1>3, <1>4, <1>5, <1>6, <1>7, <1>8, <1>9, <1>10, <1>11 DEF Rtnl

\* The PCI core's own steps: putting to sleep, or failing to.
LEMMA LevelPci ==
  ASSUME Ctx, Pci
  PROVE  LevelInv'
<1> DEFINE Rem == \A b \in Actors \ {"pci"} : pc'[b] = pc[b] /\ op'[b] = op[b]
<1> DEFINE Others == \A b \in Actors \ {"pci"} : pc[b] \notin Sect
<1>0. /\ PlaceInv /\ LevelInv /\ "pci" \in Actors /\ Place(pc["pci"], op["pci"])
      /\ op["pci"] \in {"none", "freeze", "rsuspend", "thaw", "rresume"}
  BY DEF Ctx, PlaceInv, Actors, TameInv, PciTame, StaysUp, BusyTame
<1>1. CASE Broken \/ CancelReset \/ CancelWatchdog \/ Unregister \/ Gone
  BY <1>0, <1>1
     DEF Broken, CancelReset, CancelWatchdog, Unregister, Gone, Place, Downs, Ups
<1>2. ASSUME pc["pci"] = "sleep"
      PROVE  /\ op["pci"] \in {"freeze", "rsuspend"} /\ phase = "awake" /\ Others
             /\ IF IffUp THEN Halted /\ (irq <=> op["pci"] = "rsuspend") ELSE Shut
  <2>1. op["pci"] \in {"freeze", "rsuspend"}
    BY <1>0, <1>2 DEF Place, Downs, Ups
  <2>2. At(pc["pci"], op["pci"]) /\ Others
    BY <1>0, <1>2, LevelAt DEF Sect
  <2>3. IF IffUp THEN Halted /\ (irq <=> op["pci"] = "rsuspend") ELSE Shut
    BY <1>2, <2>2 DEF At
  <2> QED
    BY <2>1, <2>2, <2>3 DEF Ctx, TameInv, PciTame, StaysUp, BusyTame
<1>3. CASE Sleep
  <2>1. /\ pc["pci"] = "sleep" /\ Done("pci") /\ ~rxon'
        /\ UNCHANGED <<bits, core, mem, ims, intr>>
        /\ phase' = (IF op["pci"] = "freeze" THEN "system" ELSE "runtime")
    BY <1>3 DEF Sleep
  <2>2. pc'["pci"] = "idle" /\ op'["pci"] = "none" /\ Rem
    BY <1>0, <2>1, DoneTo
  <2>3. IffUp' <=> IffUp
    BY <2>1, <2>2 DEF IffUp, core, Actors
  <2>4. Rest'
    <3>1. CASE IffUp
      BY <1>2, <2>1, <2>3, <3>1 DEF Rest, Halted, bits, mem, intr
    <3>2. CASE ~IffUp
      BY <1>2, <2>1, <2>3, <3>2 DEF Rest, Shut, bits, mem, intr
    <3> QED
      BY <3>1, <3>2
  <2>5. RxInv'
    BY <2>1 DEF RxInv
  <2> QED
    BY <1>2, <2>1, <2>2, <2>4, <2>5, LevelOut DEF Sect
<1>4. CASE SleepFails
  <2>1. pc["pci"] = "sleep" /\ UNCHANGED <<bits, running, mem, intr, phase>>
    BY <1>4 DEF SleepFails, power
  <2>2. CASE op["pci"] = "rsuspend" /\ IffUp
    <3>1. Run("pci", "rresume", "config") /\ HardReset
      BY <1>4, <2>2 DEF SleepFails
    <3>2. pc'["pci"] = "config" /\ op'["pci"] = "rresume" /\ Rem
      BY <1>0, <3>1, RunsTo
    <3>3. At(pc["pci"], op["pci"])' /\ RxInv'
      BY <1>2, <2>1, <2>2, <3>1, <3>2 DEF At, HardReset, Halted, RxInv, bits, mem, intr
    <3>4. IffUp'
      BY <2>1, <2>2, <3>2 DEF IffUp, Actors
    <3> QED
      BY <1>0, <1>2, <2>1, <3>2, <3>3, <3>4, LevelIn DEF Sect
  <2>3. CASE op["pci"] = "rsuspend" /\ ~IffUp
    <3>1. Done("pci") /\ HardReset
      BY <1>4, <2>3 DEF SleepFails
    <3>2. pc'["pci"] = "idle" /\ op'["pci"] = "none" /\ Rem
      BY <1>0, <3>1, DoneTo
    <3>3. Shut' /\ RxInv'
      BY <1>2, <2>1, <2>3, <3>1 DEF Shut, HardReset, RxInv, bits, mem, intr
    <3>4. ~IffUp'
      BY <2>1, <2>3, <3>2 DEF IffUp, Actors
    <3> QED
      BY <1>2, <2>1, <3>2, <3>3, <3>4, LevelOut DEF Sect, Rest
  <2>4. CASE op["pci"] = "freeze"
    <3>1. op["rtnl"] = "none"
      BY <2>4 DEF Ctx, PmInv, PlaceInv, Place, Actors
    <3>2. IffUp <=> running
      BY <3>1 DEF IffUp
    <3>3. CASE running
      <4>1. Run("pci", "thaw", "request") /\ UNCHANGED hw
        BY <1>4, <2>4, <3>3 DEF SleepFails
      <4>2. pc'["pci"] = "request" /\ op'["pci"] = "thaw" /\ Rem
        BY <1>0, <4>1, RunsTo
      <4>3. At(pc["pci"], op["pci"])' /\ RxInv'
        BY <1>0, <1>2, <2>1, <2>4, <3>2, <3>3, <4>1, <4>2
           DEF At, Halted, RxInv, LevelInv, bits, mem, hw, intr
      <4>4. IffUp'
        BY <2>1, <3>1, <3>3, <4>2 DEF IffUp, Actors
      <4> QED
        BY <1>0, <1>2, <2>1, <4>2, <4>3, <4>4, LevelIn DEF Sect
    <3>4. CASE ~running
      <4>1. Done("pci") /\ UNCHANGED hw
        BY <1>4, <2>4, <3>4 DEF SleepFails
      <4>2. pc'["pci"] = "idle" /\ op'["pci"] = "none" /\ Rem
        BY <1>0, <4>1, DoneTo
      <4>3. Shut' /\ RxInv'
        BY <1>2, <2>1, <3>2, <3>4, <4>1 DEF Shut, RxInv, bits, mem, hw, intr
      <4>4. ~IffUp'
        BY <2>1, <3>1, <3>4, <4>2 DEF IffUp, Actors
      <4> QED
        BY <1>2, <2>1, <4>2, <4>3, <4>4, LevelOut DEF Sect, Rest
    <3> QED
      BY <3>3, <3>4
  <2> QED
    BY <1>2, <2>1, <2>2, <2>3, <2>4
<1> QED
  BY <1>1, <1>3, <1>4 DEF Pci

\* Operations begin.
LEMMA LevelBegin ==
  ASSUME Ctx,
         \/ \E o \in ops \cap RtnlOps : Begin(o)
         \/ PciBegin \/ Wake \/ SlotResetFails \/ ResetTask
  PROVE  LevelInv'
<1> DEFINE Rem(a) == \A b \in Actors \ {a} : pc'[b] = pc[b] /\ op'[b] = op[b]
<1>0. /\ PlaceInv /\ LevelInv /\ Actors = {"rtnl", "reset", "pci"}
      /\ \A a \in Actors : Place(pc[a], op[a])
      /\ phase \in {"awake", "system", "runtime"}
  BY DEF Ctx, PlaceInv, TameInv, PciTame, StaysUp, BusyTame, Actors
<1>1. ASSUME NEW o \in ops \cap RtnlOps, Begin(o)
      PROVE  LevelInv'
  <2>1. pc["rtnl"] = "idle" /\ Run("rtnl", o, FirstLabel(o)) /\ Entry(o)
        /\ UNCHANGED <<bits, mem, hw, intr, power>>
        /\ running' = (o = "open" \/ (running /\ o # "close"))
    BY <1>1 DEF Begin
  <2>2. op["rtnl"] = "none"
    BY <1>0, <2>1 DEF Place
  <2>3. pc'["rtnl"] = FirstLabel(o) /\ op'["rtnl"] = o /\ Rem("rtnl")
    BY <1>0, <2>1, RunsTo
  <2>4. FirstLabel(o) \notin Sect
    BY DEF FirstLabel, Sect
  <2>5. IffUp' <=> IffUp
    BY <2>1, <2>2, <2>3 DEF IffUp, Entry
  <2> QED
    BY <1>0, <2>1, <2>3, <2>4, <2>5, LevelSame DEF Sect, bits, mem, hw, intr, power
<1>2. ASSUME NEW o \in {"freeze", "rsuspend"}, o \in ops, NEW l \in {"wait", "sleep"},
             Run("pci", o, l), pc["pci"] = "idle", phase = "awake", pc["rtnl"] \notin Sect,
             UNCHANGED <<bits, running, mem, hw, intr, power>>, IffUp <=> l = "wait"
      PROVE  LevelInv'
  <2>1. pc'["pci"] = l /\ op'["pci"] = o /\ Rem("pci")
    BY <1>0, <1>2, RunsTo
  <2>2. "timeout" \notin ops
    BY <1>2 DEF Ctx, Tame
  <2>3. \A a \in Actors : pc[a] \notin Sect
    BY <1>0, <1>2, <2>2 DEF Ctx, TameInv, PciTame, StaysUp, BusyTame, Sect
  <2>4. IffUp' <=> IffUp
    BY <1>0, <1>2, <2>1 DEF IffUp
  <2>5. CASE l = "wait"
    BY <1>0, <1>2, <2>1, <2>3, <2>4, <2>5, LevelSame DEF Sect, bits, mem, hw, intr, power
  <2>6. CASE l = "sleep"
    <3>1. Shut
      BY <1>0, <1>2, <2>3, <2>6 DEF LevelInv, Rest
    <3>2. At(pc["pci"], op["pci"])' /\ RxInv'
      BY <1>2, <2>1, <2>4, <2>6, <3>1 DEF At, Shut, RxInv, bits, mem, hw, intr
    <3> QED
      BY <1>0, <2>1, <2>3, <2>6, <3>2, LevelIn DEF Sect
  <2> QED
    BY <2>5, <2>6
<1>3. ASSUME "freeze" \in ops, Freeze
      PROVE  LevelInv'
  <2>1. op["rtnl"] = "none"
    BY <1>0, <1>3 DEF Freeze, Place
  <2>2. IffUp <=> running
    BY <2>1 DEF IffUp
  <2> QED
    BY <1>2, <1>3, <2>2 DEF Freeze, Sect
<1>4. ASSUME "rsuspend" \in ops, RuntimeSuspend
      PROVE  LevelInv'
  <2>1. op["rtnl"] = "none" \/ pc["rtnl"] \in {"get", "claim", "wait"}
    BY <1>4 DEF RuntimeSuspend, HoldsPm
  <2>2. pc["rtnl"] \notin Sect
    BY <1>0, <2>1 DEF Place, Sect
  <2> QED
    BY <1>2, <1>4, <2>2 DEF RuntimeSuspend, core
<1>5. "error" \notin ops /\ "remove" \notin ops /\ ~SlotResetFails
  BY <1>0 DEF Ctx, Tame, SlotResetFails
<1>6. CASE Wake
  <2>1. /\ pc["pci"] = "idle" /\ phase \in {"system", "runtime"} /\ ~rxon' /\ ~ims'
        /\ UNCHANGED <<bits, running, mem, intr>>
    BY <1>0, <1>6 DEF Wake, WakeOp
  <2>2. \A a \in Actors : pc[a] \notin Sect
    BY <1>0, <2>1, PciAlone DEF Sect
  <2>3. Rest /\ op["pci"] = "none"
    BY <1>0, <2>1, <2>2 DEF LevelInv, Place
  <2>4. (IF phase = "runtime" THEN IffUp ELSE running) <=> IffUp
    <3>1. phase = "system" => op["rtnl"] = "none"
      BY <1>0 DEF Ctx, PmInv, Place
    <3> QED
      BY <2>1, <3>1 DEF IffUp
  <2>5. CASE IffUp
    <3>1. Run("pci", WakeOp[phase], IF phase = "system" THEN "request" ELSE "config")
      BY <1>6, <2>4, <2>5 DEF Wake
    <3>2. pc'["pci"] = (IF phase = "system" THEN "request" ELSE "config")
          /\ op'["pci"] = WakeOp[phase] /\ Rem("pci")
      BY <1>0, <3>1, RunsTo
    <3>3. WakeOp[phase] = IF phase = "system" THEN "thaw" ELSE "rresume"
      BY <2>1 DEF WakeOp
    <3>4. Halted' /\ (irq' <=> phase = "runtime")
      BY <2>1, <2>3, <2>5 DEF Rest, Halted, bits, mem, intr
    <3>5. At(pc["pci"], op["pci"])' /\ RxInv'
      BY <2>1, <3>2, <3>3, <3>4 DEF At, RxInv
    <3>6. IffUp'
      BY <1>0, <2>1, <2>5, <3>2 DEF IffUp
    <3> QED
      BY <1>0, <2>2, <3>2, <3>5, <3>6, LevelIn DEF Sect
  <2>6. CASE ~IffUp
    <3>1. UNCHANGED <<pc, op>>
      BY <1>6, <2>4, <2>6 DEF Wake
    <3>2. Shut' /\ RxInv'
      BY <2>1, <2>3, <2>6 DEF Rest, Shut, RxInv, bits, mem, intr
    <3>3. ~IffUp'
      BY <2>1, <2>6, <3>1 DEF IffUp
    <3> QED
      BY <2>2, <3>1, <3>2, <3>3, LevelOut DEF Rest
  <2> QED
    BY <2>5, <2>6
<1>7. CASE ResetTask
  <2>1. pc["reset"] = "idle" /\ Run("reset", "reset", "test")
        /\ UNCHANGED <<bits, core, mem, hw, intr, power>>
    BY <1>7 DEF ResetTask
  <2>2. pc'["reset"] = "test" /\ op'["reset"] = "reset" /\ Rem("reset")
    BY <1>0, <2>1, RunsTo
  <2>3. IffUp' <=> IffUp
    BY <1>0, <2>1, <2>2 DEF IffUp, core
  <2> QED
    BY <1>0, <2>1, <2>2, <2>3, LevelSame DEF Sect, bits, mem, hw, intr, power
<1> QED
  BY <1>1, <1>3, <1>4, <1>5, <1>6, <1>7 DEF PciBegin

\* A poll comes and goes only where interrupts are on.
LEMMA LevelEnv ==
  ASSUME Ctx, LinkInterrupt \/ CallReset \/ PollStart \/ PollEnd \/ TimerFires \/ Watchdog
  PROVE  LevelInv'
<1>0. LevelInv
  BY DEF Ctx
<1>1. /\ UNCHANGED <<down, rings, posted, rxon, ims, irq, phase, running, pc, op>>
      /\ \/ napi' = napi
         \/ napi = "idle" /\ ims /\ napi' = "polling"
         \/ napi = "polling" /\ napi' = "idle"
  BY DEF LinkInterrupt, CallReset, PollStart, PollEnd, TimerFires, Watchdog, WatchdogStart,
         WatchdogTest, WatchdogArm, WatchdogLook, bits, core, mem, hw, intr, power
<1>2. IffUp' <=> IffUp
  BY <1>1 DEF IffUp
<1>3. (Shut => Shut') /\ (Up => Up') /\ (Halted => Halted')
  BY <1>1 DEF Shut, Up, Halted
<1>4. Rest => Rest'
  BY <1>1, <1>2, <1>3 DEF Rest
<1>5. ASSUME NEW a \in Actors, At(pc[a], op[a])
      PROVE  At(pc[a], op[a])'
  BY <1>1, <1>2, <1>3, <1>5 DEF At
<1>6. RxInv'
  BY <1>0, <1>1 DEF LevelInv, RxInv
<1> QED
  BY <1>0, <1>1, <1>2, <1>4, <1>5, <1>6 DEF LevelInv

\* All steps keep LevelInv.
LEMMA LevelNext ==
  ASSUME Ctx, Next
  PROVE  LevelInv'
BY LevelWork, LevelOutside, LevelRtnl, LevelPci, LevelBegin, LevelEnv DEF Next

\* What the PCI core does.
LEMMA TamePci ==
  ASSUME Ctx, Next
  PROVE  PciTame'
<1> USE DEF Run, RtnlOps, bits, core, mem, hw, intr, wd, power, Ctx, PlaceInv, OpsOf,
        Actors, Place, Downs, Ups, UserResets, TameInv, PciTame, StaysUp, BusyTame,
        PciOps, Tame, Go, Done
<1>1. ASSUME NEW o \in ops \cap RtnlOps, Begin(o)
      PROVE  PciTame'
  BY <1>1 DEF Begin, Entry, FirstLabel
<1>2. ASSUME "error" \in ops, NEW permanent \in BOOLEAN, ErrorDetected(permanent)
      PROVE  PciTame'
  BY <1>2 DEF ErrorDetected
<1>3. CASE ("freeze" \in ops /\ Freeze) \/ ("rsuspend" \in ops /\ RuntimeSuspend)
  BY <1>3 DEF Freeze, RuntimeSuspend, HoldsPm, IffUp
<1>4. CASE ("remove" \in ops /\ Remove)
  BY <1>4 DEF Remove
<1>5. CASE Wake
  BY <1>5 DEF Wake, WakeOp, IffUp
<1>6. CASE SlotResetFails \/ ResetTask
  BY <1>6 DEF SlotResetFails, ResetTask
<1>7. ASSUME NEW a \in Actors, Step(a)
      PROVE  PciTame'
  <2>1. CASE Claim(a) \/ Wait(a) \/ TestDown(a)
    BY <2>1 DEF Claim, CanClaim, Wait, TestDown
  <2>2. CASE Down(a) \/ Sync(a) \/ DelTimers(a) \/ CleanRings(a)
    BY <2>2 DEF Down, Sync, SyncDone, DelTimers, CleanRings, AfterDown, HardReset
  <2>3. CASE Config(a) \/ ClearDown(a)
    BY <2>3 DEF Config, ClearDown
  <2>4. CASE Unmask(a)
    BY <2>4 DEF Unmask
  <2>5. CASE Release(a) \/ Request(a) \/ RequestFails(a)
    BY <2>5 DEF Release, Request, RequestFails, OpenFault
  <2>6. CASE FreeIrq(a) \/ NapiOff(a)
    BY <2>6 DEF FreeIrq, NapiOff, SyncDone
  <2>7. CASE Free(a)
    BY <2>7 DEF Free
  <2> QED
    BY <1>7, <2>1, <2>2, <2>3, <2>4, <2>5, <2>6, <2>7 DEF Step
<1>8. CASE Get \/ NoMemory \/ Awaken
  BY <1>8 DEF Get, NoMemory, Awaken, AfterGet
<1>9. CASE Branch \/ SelfTest \/ Swap \/ NapiOn
  BY <1>9 DEF Branch, HardReset, SelfTest, Swap, NapiOn
<1>10. CASE Alloc \/ AllocFails
  BY <1>10 DEF Alloc, HardReset, AllocFails, OpenFault
<1>11. CASE Backout \/ BackedOut \/ Tests
  BY <1>11 DEF Backout, BackedOut, HardReset, Tests
<1>12. CASE Broken \/ Sleep \/ SleepFails
  BY <1>12 DEF Broken, Sleep, SleepFails, HardReset, IffUp
<1>13. CASE CancelReset \/ CancelWatchdog \/ Unregister \/ Gone
  BY <1>13 DEF CancelReset, CancelWatchdog, Unregister, Gone
<1>14. CASE LinkInterrupt \/ CallReset \/ PollStart \/ PollEnd \/ TimerFires \/ Watchdog
  BY <1>14
     DEF LinkInterrupt, CallReset, PollStart, PollEnd, TimerFires, Watchdog, WatchdogStart,
         WatchdogTest, WatchdogArm, WatchdogLook
<1> QED
  BY <1>1, <1>2, <1>3, <1>4, <1>5, <1>6, <1>7, <1>8, <1>9, <1>10, <1>11, <1>12, <1>13, <1>14
     DEF Next, PciBegin, Rtnl, Pci

\* Nobody closes a device that waits to be put to sleep.
LEMMA TameWait ==
  ASSUME Ctx, Next
  PROVE  (pc["pci"] = "wait" => IffUp)'
<1> USE DEF Run, RtnlOps, bits, core, mem, hw, intr, wd, power, Ctx, PlaceInv, OpsOf,
        Actors, Place, Downs, Ups, UserResets, TameInv, PciTame, StaysUp, BusyTame,
        PciOps, IffUp, Go, Done
<1>1. ASSUME NEW o \in ops \cap RtnlOps, Begin(o)
      PROVE  (pc["pci"] = "wait" => IffUp)'
  BY <1>1 DEF Begin, Entry, FirstLabel
<1>2. ASSUME NEW permanent \in BOOLEAN, ErrorDetected(permanent)
      PROVE  (pc["pci"] = "wait" => IffUp)'
  BY <1>2 DEF ErrorDetected
<1>3. CASE Freeze \/ RuntimeSuspend
  BY <1>3 DEF Freeze, RuntimeSuspend, HoldsPm
<1>4. CASE Remove
  BY <1>4 DEF Remove
<1>5. CASE Wake
  BY <1>5 DEF Wake, WakeOp
<1>6. CASE SlotResetFails \/ ResetTask
  BY <1>6 DEF SlotResetFails, ResetTask
<1>7. ASSUME NEW a \in Actors, Step(a)
      PROVE  (pc["pci"] = "wait" => IffUp)'
  <2>1. CASE Claim(a) \/ Wait(a) \/ TestDown(a)
    BY <2>1 DEF Claim, CanClaim, Wait, TestDown
  <2>2. CASE Down(a) \/ Sync(a) \/ DelTimers(a) \/ CleanRings(a)
    BY <2>2 DEF Down, Sync, SyncDone, DelTimers, CleanRings, AfterDown, HardReset
  <2>3. CASE Config(a) \/ ClearDown(a)
    BY <2>3 DEF Config, ClearDown
  <2>4. CASE Unmask(a)
    BY <2>4 DEF Unmask
  <2>5. CASE Release(a) \/ Request(a) \/ RequestFails(a)
    BY <2>5 DEF Release, Request, RequestFails, OpenFault
  <2>6. CASE FreeIrq(a) \/ NapiOff(a)
    BY <2>6 DEF FreeIrq, NapiOff, SyncDone
  <2>7. CASE Free(a)
    BY <2>7, PciAlone DEF Free, Sect
  <2> QED
    BY <1>7, <2>1, <2>2, <2>3, <2>4, <2>5, <2>6, <2>7 DEF Step
<1>8. CASE Get \/ NoMemory \/ Awaken
  BY <1>8 DEF Get, NoMemory, Awaken, AfterGet
<1>9. CASE Branch \/ SelfTest \/ Swap \/ NapiOn
  BY <1>9 DEF Branch, HardReset, SelfTest, Swap, NapiOn
<1>10. CASE Alloc \/ AllocFails
  BY <1>10 DEF Alloc, HardReset, AllocFails, OpenFault
<1>11. CASE Backout \/ BackedOut \/ Tests
  BY <1>11 DEF Backout, BackedOut, HardReset, Tests
<1>12. CASE Broken \/ Sleep \/ SleepFails
  BY <1>12 DEF Broken, Sleep, SleepFails, HardReset
<1>13. CASE CancelReset \/ CancelWatchdog \/ Unregister \/ Gone
  BY <1>13 DEF CancelReset, CancelWatchdog, Unregister, Gone
<1>14. CASE LinkInterrupt \/ CallReset \/ PollStart \/ PollEnd \/ TimerFires \/ Watchdog
  BY <1>14
     DEF LinkInterrupt, CallReset, PollStart, PollEnd, TimerFires, Watchdog, WatchdogStart,
         WatchdogTest, WatchdogArm, WatchdogLook
<1> QED
  BY <1>1, <1>2, <1>3, <1>4, <1>5, <1>6, <1>7, <1>8, <1>9, <1>10, <1>11, <1>12, <1>13, <1>14
     DEF Next, PciBegin, Rtnl, Pci

\* Every interrupt asked for is had.
LEMMA TameOpen ==
  ASSUME Ctx, Next
  PROVE  (pc["rtnl"] \notin {"backout", "undone"})'
<1> USE DEF Run, RtnlOps, bits, core, mem, hw, intr, wd, power, Ctx, PlaceInv, OpsOf,
        Actors, Place, Downs, Ups, UserResets, TameInv, PciTame, StaysUp, BusyTame,
        PciOps, Go, Done
<1>1. ASSUME NEW o \in ops \cap RtnlOps, Begin(o)
      PROVE  (pc["rtnl"] \notin {"backout", "undone"})'
  BY <1>1 DEF Begin, Entry, FirstLabel
<1>2. ASSUME NEW permanent \in BOOLEAN, ErrorDetected(permanent)
      PROVE  (pc["rtnl"] \notin {"backout", "undone"})'
  BY <1>2 DEF ErrorDetected
<1>3. CASE Freeze \/ RuntimeSuspend \/ Remove \/ Wake \/ SlotResetFails \/ ResetTask
  BY <1>3
     DEF Freeze, RuntimeSuspend, HoldsPm, IffUp, Remove, Wake, WakeOp, SlotResetFails,
         ResetTask
<1>4. ASSUME NEW a \in Actors, Step(a)
      PROVE  (pc["rtnl"] \notin {"backout", "undone"})'
  <2>1. CASE Claim(a) \/ Wait(a) \/ TestDown(a)
    BY <2>1 DEF Claim, CanClaim, Wait, TestDown
  <2>2. CASE Down(a) \/ Sync(a) \/ DelTimers(a) \/ CleanRings(a)
    BY <2>2 DEF Down, Sync, SyncDone, DelTimers, CleanRings, AfterDown, HardReset
  <2>3. CASE Config(a) \/ ClearDown(a)
    BY <2>3 DEF Config, ClearDown
  <2>4. CASE Unmask(a)
    BY <2>4 DEF Unmask
  <2>5. CASE Release(a) \/ Request(a) \/ RequestFails(a)
    BY <2>5 DEF Release, Request, RequestFails, OpenFault
  <2>6. CASE FreeIrq(a) \/ NapiOff(a)
    BY <2>6 DEF FreeIrq, NapiOff, SyncDone
  <2>7. CASE Free(a)
    BY <2>7 DEF Free
  <2> QED
    BY <1>4, <2>1, <2>2, <2>3, <2>4, <2>5, <2>6, <2>7 DEF Step
<1>5. CASE Get \/ NoMemory \/ Awaken \/ Branch \/ SelfTest \/ Swap \/ NapiOn
           \/ Alloc \/ AllocFails \/ Backout \/ BackedOut \/ Tests
  BY <1>5
     DEF Get, NoMemory, Awaken, AfterGet, Branch, HardReset, SelfTest, Swap, NapiOn, Alloc,
         AllocFails, OpenFault, Backout, BackedOut, Tests
<1>6. CASE Broken \/ Sleep \/ SleepFails \/ CancelReset \/ CancelWatchdog
           \/ Unregister \/ Gone
  BY <1>6
     DEF Broken, Sleep, SleepFails, HardReset, IffUp, CancelReset, CancelWatchdog,
         Unregister, Gone
<1>7. CASE LinkInterrupt \/ CallReset \/ PollStart \/ PollEnd \/ TimerFires \/ Watchdog
  BY <1>7
     DEF LinkInterrupt, CallReset, PollStart, PollEnd, TimerFires, Watchdog, WatchdogStart,
         WatchdogTest, WatchdogArm, WatchdogLook
<1> QED
  BY <1>1, <1>2, <1>3, <1>4, <1>5, <1>6, <1>7 DEF Next, PciBegin, Rtnl, Pci

\* Nobody asks for a reset.
LEMMA TameQuiet ==
  ASSUME Ctx, Next
  PROVE  ("timeout" \notin ops => pc["reset"] = "idle" /\ "reset" \notin works)'
<1> USE DEF Run, RtnlOps, bits, core, mem, hw, intr, wd, power, Ctx, PlaceInv, OpsOf,
        Actors, Place, Downs, Ups, UserResets, TameInv, PciTame, StaysUp, BusyTame,
        PciOps, Go, Done
<1>1. ASSUME NEW o \in ops \cap RtnlOps, Begin(o)
      PROVE  ("timeout" \notin ops => pc["reset"] = "idle" /\ "reset" \notin works)'
  BY <1>1 DEF Begin, Entry, FirstLabel
<1>2. ASSUME NEW permanent \in BOOLEAN, ErrorDetected(permanent)
      PROVE  ("timeout" \notin ops => pc["reset"] = "idle" /\ "reset" \notin works)'
  BY <1>2 DEF ErrorDetected
<1>3. CASE Freeze \/ RuntimeSuspend \/ Remove \/ Wake \/ SlotResetFails \/ ResetTask
  BY <1>3
     DEF Freeze, RuntimeSuspend, HoldsPm, IffUp, Remove, Wake, WakeOp, SlotResetFails,
         ResetTask
<1>4. ASSUME NEW a \in Actors, Step(a)
      PROVE  ("timeout" \notin ops => pc["reset"] = "idle" /\ "reset" \notin works)'
  <2>1. CASE Claim(a) \/ Wait(a) \/ TestDown(a)
    BY <2>1 DEF Claim, CanClaim, Wait, TestDown
  <2>2. CASE Down(a) \/ Sync(a) \/ DelTimers(a) \/ CleanRings(a)
    BY <2>2 DEF Down, Sync, SyncDone, DelTimers, CleanRings, AfterDown, HardReset
  <2>3. CASE Config(a) \/ ClearDown(a)
    BY <2>3 DEF Config, ClearDown
  <2>4. CASE Unmask(a)
    BY <2>4 DEF Unmask
  <2>5. CASE Release(a) \/ Request(a) \/ RequestFails(a)
    BY <2>5 DEF Release, Request, RequestFails, OpenFault
  <2>6. CASE FreeIrq(a) \/ NapiOff(a)
    BY <2>6 DEF FreeIrq, NapiOff, SyncDone
  <2>7. CASE Free(a)
    BY <2>7 DEF Free
  <2> QED
    BY <1>4, <2>1, <2>2, <2>3, <2>4, <2>5, <2>6, <2>7 DEF Step
<1>5. CASE Get \/ NoMemory \/ Awaken \/ Branch \/ SelfTest \/ Swap \/ NapiOn
           \/ Alloc \/ AllocFails \/ Backout \/ BackedOut \/ Tests
  BY <1>5
     DEF Get, NoMemory, Awaken, AfterGet, Branch, HardReset, SelfTest, Swap, NapiOn, Alloc,
         AllocFails, OpenFault, Backout, BackedOut, Tests
<1>6. CASE Broken \/ Sleep \/ SleepFails \/ CancelReset \/ CancelWatchdog
           \/ Unregister \/ Gone
  BY <1>6
     DEF Broken, Sleep, SleepFails, HardReset, IffUp, CancelReset, CancelWatchdog,
         Unregister, Gone
<1>7. CASE LinkInterrupt \/ CallReset \/ PollStart \/ PollEnd \/ TimerFires \/ Watchdog
  BY <1>7
     DEF LinkInterrupt, CallReset, PollStart, PollEnd, TimerFires, Watchdog, WatchdogStart,
         WatchdogTest, WatchdogArm, WatchdogLook
<1> QED
  BY <1>1, <1>2, <1>3, <1>4, <1>5, <1>6, <1>7 DEF Next, PciBegin, Rtnl, Pci

\* No suspends beside resets.
LEMMA TameBusy ==
  ASSUME Ctx, Next
  PROVE  BusyTame'
<1> USE DEF Run, RtnlOps, bits, core, mem, hw, intr, wd, power, Ctx, PlaceInv, OpsOf,
        Actors, Place, Downs, Ups, UserResets, TameInv, PciTame, StaysUp, BusyTame,
        PciOps, Tame, Go, Done
<1>1. ASSUME NEW o \in ops \cap RtnlOps, Begin(o)
      PROVE  BusyTame'
  BY <1>1 DEF Begin, Entry, FirstLabel
<1>2. ASSUME "error" \in ops, NEW permanent \in BOOLEAN, ErrorDetected(permanent)
      PROVE  BusyTame'
  BY <1>2 DEF ErrorDetected
<1>3. CASE ("freeze" \in ops /\ Freeze) \/ ("rsuspend" \in ops /\ RuntimeSuspend)
           \/ ("remove" \in ops /\ Remove) \/ Wake \/ SlotResetFails \/ ResetTask
  BY <1>3
     DEF Freeze, RuntimeSuspend, HoldsPm, IffUp, Remove, Wake, WakeOp, SlotResetFails,
         ResetTask
<1>4. ASSUME NEW a \in Actors, Step(a)
      PROVE  BusyTame'
  <2>1. CASE Claim(a) \/ Wait(a) \/ TestDown(a)
    BY <2>1 DEF Claim, CanClaim, Wait, TestDown
  <2>2. CASE Down(a) \/ Sync(a) \/ DelTimers(a) \/ CleanRings(a)
    BY <2>2 DEF Down, Sync, SyncDone, DelTimers, CleanRings, AfterDown, HardReset
  <2>3. CASE Config(a) \/ ClearDown(a)
    BY <2>3 DEF Config, ClearDown
  <2>4. CASE Unmask(a)
    BY <2>4 DEF Unmask
  <2>5. CASE Release(a) \/ Request(a) \/ RequestFails(a)
    BY <2>5 DEF Release, Request, RequestFails, OpenFault
  <2>6. CASE FreeIrq(a) \/ NapiOff(a)
    BY <2>6 DEF FreeIrq, NapiOff, SyncDone
  <2>7. CASE Free(a)
    BY <2>7 DEF Free
  <2> QED
    BY <1>4, <2>1, <2>2, <2>3, <2>4, <2>5, <2>6, <2>7 DEF Step
<1>5. CASE Get \/ NoMemory \/ Awaken \/ Branch \/ SelfTest \/ Swap \/ NapiOn
           \/ Alloc \/ AllocFails \/ Backout \/ BackedOut \/ Tests
  BY <1>5
     DEF Get, NoMemory, Awaken, AfterGet, Branch, HardReset, SelfTest, Swap, NapiOn, Alloc,
         AllocFails, OpenFault, Backout, BackedOut, Tests
<1>6. CASE Broken \/ Sleep \/ SleepFails \/ CancelReset \/ CancelWatchdog
           \/ Unregister \/ Gone
  BY <1>6
     DEF Broken, Sleep, SleepFails, HardReset, IffUp, CancelReset, CancelWatchdog,
         Unregister, Gone
<1>7. CASE LinkInterrupt \/ CallReset \/ PollStart \/ PollEnd \/ TimerFires \/ Watchdog
  BY <1>7
     DEF LinkInterrupt, CallReset, PollStart, PollEnd, TimerFires, Watchdog, WatchdogStart,
         WatchdogTest, WatchdogArm, WatchdogLook
<1> QED
  BY <1>1, <1>2, <1>3, <1>4, <1>5, <1>6, <1>7 DEF Next, PciBegin, Rtnl, Pci

\* Where resets are asked for, a device that is up stays in use,
LEMMA TameStaysUp ==
  ASSUME Ctx, "timeout" \in ops, IffUp, Next
  PROVE  IffUp'
<1> USE DEF Run, RtnlOps, bits, core, mem, hw, intr, wd, power, Ctx, PlaceInv, OpsOf,
        Actors, Place, Downs, Ups, UserResets, TameInv, PciTame, StaysUp, BusyTame,
        PciOps, IffUp, PmInv, Go, Done
<1>1. ASSUME NEW o \in ops \cap RtnlOps, Begin(o)
      PROVE  IffUp'
  BY <1>1 DEF Begin, Entry, FirstLabel
<1>2. ASSUME "error" \in ops, NEW permanent \in BOOLEAN, ErrorDetected(permanent)
      PROVE  IffUp'
  BY <1>2 DEF ErrorDetected
<1>3. CASE ("freeze" \in ops /\ Freeze) \/ ("rsuspend" \in ops /\ RuntimeSuspend)
  BY <1>3 DEF Freeze, RuntimeSuspend, HoldsPm
<1>4. CASE ("remove" \in ops /\ Remove)
  BY <1>4 DEF Remove
<1>5. CASE Wake
  BY <1>5 DEF Wake, WakeOp
<1>6. CASE SlotResetFails \/ ResetTask
  BY <1>6 DEF SlotResetFails, ResetTask
<1>7. ASSUME NEW a \in Actors, Step(a)
      PROVE  IffUp'
  <2>1. CASE Claim(a) \/ Wait(a) \/ TestDown(a)
    BY <2>1 DEF Claim, CanClaim, Wait, TestDown
  <2>2. CASE Down(a) \/ Sync(a) \/ DelTimers(a) \/ CleanRings(a)
    BY <2>2 DEF Down, Sync, SyncDone, DelTimers, CleanRings, AfterDown, HardReset
  <2>3. CASE Config(a) \/ ClearDown(a)
    BY <2>3 DEF Config, ClearDown
  <2>4. CASE Unmask(a)
    BY <2>4 DEF Unmask
  <2>5. CASE Release(a) \/ Request(a) \/ RequestFails(a)
    BY <2>5 DEF Release, Request, RequestFails, OpenFault
  <2>6. CASE FreeIrq(a) \/ NapiOff(a)
    BY <2>6 DEF FreeIrq, NapiOff, SyncDone
  <2>7. CASE Free(a)
    BY <2>7 DEF Free
  <2> QED
    BY <1>7, <2>1, <2>2, <2>3, <2>4, <2>5, <2>6, <2>7 DEF Step
<1>8. CASE Get \/ NoMemory \/ Awaken
  BY <1>8 DEF Get, NoMemory, Awaken, AfterGet
<1>9. CASE Branch \/ SelfTest \/ Swap \/ NapiOn
  BY <1>9 DEF Branch, HardReset, SelfTest, Swap, NapiOn
<1>10. CASE Alloc \/ AllocFails
  BY <1>10 DEF Alloc, HardReset, AllocFails, OpenFault
<1>11. CASE Backout \/ BackedOut \/ Tests
  BY <1>11 DEF Backout, BackedOut, HardReset, Tests
<1>12. CASE Broken \/ Sleep \/ SleepFails
  BY <1>12 DEF Broken, Sleep, SleepFails, HardReset
<1>13. CASE CancelReset \/ CancelWatchdog \/ Unregister \/ Gone
  BY <1>13 DEF CancelReset, CancelWatchdog, Unregister, Gone
<1>14. CASE LinkInterrupt \/ CallReset \/ PollStart \/ PollEnd \/ TimerFires \/ Watchdog
  BY <1>14
     DEF LinkInterrupt, CallReset, PollStart, PollEnd, TimerFires, Watchdog, WatchdogStart,
         WatchdogTest, WatchdogArm, WatchdogLook
<1> QED
  BY <1>1, <1>2, <1>3, <1>4, <1>5, <1>6, <1>7, <1>8, <1>9, <1>10, <1>11, <1>12, <1>13, <1>14
     DEF Next, PciBegin, Rtnl, Pci

\* and one that is not gives nobody a reason to ask.
LEMMA TameDead ==
  ASSUME Ctx, "timeout" \in ops, ~IffUp, Next
  PROVE  StaysUp'
<1> USE DEF Run, RtnlOps, bits, core, mem, hw, intr, wd, power, Ctx, PlaceInv, OpsOf,
        Actors, Place, Downs, Ups, UserResets, TameInv, PciTame, StaysUp, BusyTame,
        PciOps, IffUp, PmInv
<1>1. ASSUME NEW o \in ops \cap RtnlOps, Begin(o)
      PROVE  StaysUp'
  BY <1>1 DEF Begin, Entry, FirstLabel
<1>2. ASSUME "error" \in ops, NEW permanent \in BOOLEAN, ErrorDetected(permanent)
      PROVE  StaysUp'
  BY <1>2 DEF ErrorDetected
<1>3. CASE ("freeze" \in ops /\ Freeze) \/ ("rsuspend" \in ops /\ RuntimeSuspend)
  BY <1>3 DEF Freeze, RuntimeSuspend, HoldsPm
<1>4. CASE ("remove" \in ops /\ Remove)
  BY <1>4 DEF Remove
<1>5. CASE Wake
  BY <1>5 DEF Wake, WakeOp
<1>6. CASE SlotResetFails \/ ResetTask
  BY <1>6 DEF SlotResetFails, ResetTask
<1>7. ASSUME NEW a \in Actors, Step(a)
      PROVE  StaysUp'
  <2>1. CASE Claim(a) \/ Wait(a) \/ TestDown(a)
    BY <2>1 DEF Claim, CanClaim, Wait, TestDown, Go, Done
  <2>2. CASE Down(a) \/ Sync(a) \/ DelTimers(a) \/ CleanRings(a)
    BY <2>2 DEF Down, Sync, SyncDone, DelTimers, CleanRings, AfterDown, HardReset, Go, Done
  <2>3. CASE Config(a) \/ ClearDown(a)
    BY <2>3 DEF Config, ClearDown, Go, Done
  <2>4. CASE Unmask(a)
    <3>1. pc[a] = "unmask"
      BY <2>4 DEF Unmask
    <3>2. a = "rtnl" /\ op[a] = "open"
      BY <3>1, LevelAt DEF Sect
    <3>3. running /\ pc["reset"] = "idle" /\ Done(a) /\ running' = running
      BY <2>4, <3>2 DEF Unmask
    <3>4. op'[a] = "none"
      BY <3>3, DoneTo
    <3> QED
      BY <3>2, <3>3, <3>4
  <2>5. CASE Release(a) \/ Request(a) \/ RequestFails(a)
    BY <2>5 DEF Release, Request, RequestFails, OpenFault, Go, Done
  <2>6. CASE FreeIrq(a) \/ NapiOff(a)
    BY <2>6 DEF FreeIrq, NapiOff, SyncDone, Go, Done
  <2>7. CASE Free(a)
    BY <2>7 DEF Free, Go, Done
  <2> QED
    BY <1>7, <2>1, <2>2, <2>3, <2>4, <2>5, <2>6, <2>7 DEF Step
<1>8. CASE Get \/ NoMemory \/ Awaken
  BY <1>8 DEF Get, NoMemory, Awaken, AfterGet, Go, Done
<1>9. CASE Branch \/ SelfTest \/ Swap \/ NapiOn
  BY <1>9 DEF Branch, HardReset, SelfTest, Swap, NapiOn, Go, Done
<1>10. CASE Alloc \/ AllocFails
  BY <1>10 DEF Alloc, HardReset, AllocFails, OpenFault, Go, Done
<1>11. CASE Backout \/ BackedOut \/ Tests
  BY <1>11 DEF Backout, BackedOut, HardReset, Tests, Go, Done
<1>12. CASE Broken \/ Sleep \/ SleepFails
  BY <1>12 DEF Broken, Sleep, SleepFails, HardReset, Go, Done
<1>13. CASE CancelReset \/ CancelWatchdog \/ Unregister \/ Gone
  BY <1>13 DEF CancelReset, CancelWatchdog, Unregister, Gone, Go, Done
<1>14. CASE LinkInterrupt \/ CallReset \/ PollStart \/ PollEnd \/ TimerFires \/ Watchdog
  BY <1>14
     DEF LinkInterrupt, CallReset, PollStart, PollEnd, TimerFires, Watchdog, WatchdogStart,
         WatchdogTest, WatchdogArm, WatchdogLook
<1> QED
  BY <1>1, <1>2, <1>3, <1>4, <1>5, <1>6, <1>7, <1>8, <1>9, <1>10, <1>11, <1>12, <1>13, <1>14
     DEF Next, PciBegin, Rtnl, Pci

\* A self-test goes on on a running device only.
LEMMA DrvTest ==
  ASSUME Ctx, Next
  PROVE  TestsOpen'
<1> USE DEF Run, RtnlOps, bits, core, mem, hw, intr, wd, power, Ctx, PlaceInv, OpsOf,
        Actors, Place, Downs, Ups, UserResets, TameInv, PciTame, StaysUp, BusyTame,
        PciOps, DrvInv, TestsOpen, TestMarked, OpenFault, PmInv, Go, Done
<1>1. ASSUME NEW o \in ops \cap RtnlOps, Begin(o)
      PROVE  TestsOpen'
  BY <1>1 DEF Begin, Entry, FirstLabel
<1>2. ASSUME NEW permanent \in BOOLEAN, ErrorDetected(permanent)
      PROVE  TestsOpen'
  BY <1>2 DEF ErrorDetected
<1>3. CASE Freeze \/ RuntimeSuspend
  BY <1>3 DEF Freeze, RuntimeSuspend, HoldsPm, IffUp
<1>4. CASE Remove
  BY <1>4 DEF Remove
<1>5. CASE Wake
  BY <1>5 DEF Wake, WakeOp, IffUp
<1>6. CASE SlotResetFails \/ ResetTask
  BY <1>6 DEF SlotResetFails, ResetTask
<1>7. ASSUME NEW a \in Actors, Step(a)
      PROVE  TestsOpen'
  <2>1. CASE Claim(a) \/ Wait(a) \/ TestDown(a)
    BY <2>1 DEF Claim, CanClaim, Wait, TestDown
  <2>2. CASE Down(a) \/ Sync(a) \/ DelTimers(a) \/ CleanRings(a)
    BY <2>2 DEF Down, Sync, SyncDone, DelTimers, CleanRings, AfterDown, HardReset
  <2>3. CASE Config(a) \/ ClearDown(a)
    BY <2>3 DEF Config, ClearDown
  <2>4. CASE Unmask(a)
    BY <2>4 DEF Unmask
  <2>5. CASE Release(a) \/ Request(a) \/ RequestFails(a)
    BY <2>5 DEF Release, Request, RequestFails
  <2>6. CASE FreeIrq(a) \/ NapiOff(a)
    BY <2>6 DEF FreeIrq, NapiOff, SyncDone
  <2>7. CASE Free(a)
    BY <2>7 DEF Free
  <2> QED
    BY <1>7, <2>1, <2>2, <2>3, <2>4, <2>5, <2>6, <2>7 DEF Step
<1>8. CASE Get \/ NoMemory \/ Awaken
  BY <1>8 DEF Get, NoMemory, Awaken, AfterGet
<1>9. CASE Branch \/ SelfTest \/ Swap \/ NapiOn
  BY <1>9 DEF Branch, HardReset, SelfTest, Swap, NapiOn
<1>10. CASE Alloc \/ AllocFails
  BY <1>10 DEF Alloc, HardReset, AllocFails
<1>11. CASE Backout \/ BackedOut \/ Tests
  BY <1>11 DEF Backout, BackedOut, HardReset, Tests
<1>12. CASE Broken \/ Sleep \/ SleepFails
  BY <1>12 DEF Broken, Sleep, SleepFails, HardReset, IffUp
<1>13. CASE CancelReset \/ CancelWatchdog \/ Unregister \/ Gone
  BY <1>13 DEF CancelReset, CancelWatchdog, Unregister, Gone
<1>14. CASE LinkInterrupt \/ CallReset \/ PollStart \/ PollEnd \/ TimerFires \/ Watchdog
  BY <1>14
     DEF LinkInterrupt, CallReset, PollStart, PollEnd, TimerFires, Watchdog, WatchdogStart,
         WatchdogTest, WatchdogArm, WatchdogLook
<1> QED
  BY <1>1, <1>2, <1>3, <1>4, <1>5, <1>6, <1>7, <1>8, <1>9, <1>10, <1>11, <1>12, <1>13, <1>14
     DEF Next, PciBegin, Rtnl, Pci

\* It is marked as one while it closes the device.
LEMMA DrvTesting ==
  ASSUME Ctx, Next
  PROVE  TestMarked'
<1> USE DEF Run, RtnlOps, bits, core, mem, hw, intr, wd, power, Ctx, PlaceInv, OpsOf,
        Actors, Place, Downs, Ups, UserResets, TameInv, PciTame, StaysUp, BusyTame,
        PciOps, DrvInv, TestsOpen, TestMarked, Go, Done
<1>1. ASSUME NEW o \in ops \cap RtnlOps, Begin(o)
      PROVE  TestMarked'
  BY <1>1 DEF Begin, Entry, FirstLabel
<1>2. ASSUME NEW permanent \in BOOLEAN, ErrorDetected(permanent)
      PROVE  TestMarked'
  BY <1>2 DEF ErrorDetected
<1>3. CASE Freeze \/ RuntimeSuspend
  BY <1>3 DEF Freeze, RuntimeSuspend, HoldsPm, IffUp
<1>4. CASE Remove
  BY <1>4 DEF Remove
<1>5. CASE Wake
  BY <1>5 DEF Wake, WakeOp, IffUp
<1>6. CASE SlotResetFails \/ ResetTask
  BY <1>6 DEF SlotResetFails, ResetTask
<1>7. ASSUME NEW a \in Actors, Step(a)
      PROVE  TestMarked'
  <2>1. CASE Claim(a) \/ Wait(a) \/ TestDown(a)
    BY <2>1 DEF Claim, CanClaim, Wait, TestDown
  <2>2. CASE Down(a) \/ Sync(a) \/ DelTimers(a) \/ CleanRings(a)
    BY <2>2 DEF Down, Sync, SyncDone, DelTimers, CleanRings, AfterDown, HardReset
  <2>3. CASE Config(a) \/ ClearDown(a)
    BY <2>3 DEF Config, ClearDown
  <2>4. CASE Unmask(a)
    BY <2>4 DEF Unmask
  <2>5. CASE Release(a) \/ Request(a) \/ RequestFails(a)
    BY <2>5 DEF Release, Request, RequestFails, OpenFault
  <2>6. CASE FreeIrq(a) \/ NapiOff(a)
    BY <2>6 DEF FreeIrq, NapiOff, SyncDone
  <2>7. CASE Free(a)
    BY <2>7 DEF Free
  <2> QED
    BY <1>7, <2>1, <2>2, <2>3, <2>4, <2>5, <2>6, <2>7 DEF Step
<1>8. CASE Get \/ NoMemory \/ Awaken
  BY <1>8 DEF Get, NoMemory, Awaken, AfterGet
<1>9. CASE Branch \/ SelfTest \/ Swap \/ NapiOn
  BY <1>9 DEF Branch, HardReset, SelfTest, Swap, NapiOn
<1>10. CASE Alloc \/ AllocFails
  BY <1>10 DEF Alloc, HardReset, AllocFails, OpenFault
<1>11. CASE Backout \/ BackedOut \/ Tests
  BY <1>11 DEF Backout, BackedOut, HardReset, Tests
<1>12. CASE Broken \/ Sleep \/ SleepFails
  BY <1>12 DEF Broken, Sleep, SleepFails, HardReset, IffUp
<1>13. CASE CancelReset \/ CancelWatchdog \/ Unregister \/ Gone
  BY <1>13 DEF CancelReset, CancelWatchdog, Unregister, Gone
<1>14. CASE LinkInterrupt \/ CallReset \/ PollStart \/ PollEnd \/ TimerFires \/ Watchdog
  BY <1>14
     DEF LinkInterrupt, CallReset, PollStart, PollEnd, TimerFires, Watchdog, WatchdogStart,
         WatchdogTest, WatchdogArm, WatchdogLook
<1> QED
  BY <1>1, <1>2, <1>3, <1>4, <1>5, <1>6, <1>7, <1>8, <1>9, <1>10, <1>11, <1>12, <1>13, <1>14
     DEF Next, PciBegin, Rtnl, Pci

\* Without AMT the firmware is told unless the device is asleep,
LEMMA DrvNoAmt ==
  ASSUME Ctx, ~HasAMT, Next
  PROVE  ((phase = "awake" \/ op["pci"] # "none") => drv)'
<1> USE DEF Run, RtnlOps, bits, core, mem, hw, intr, wd, power, Ctx, PlaceInv, OpsOf,
        Actors, Place, Downs, Ups, UserResets, TameInv, PciTame, StaysUp, BusyTame,
        PciOps, DrvInv, TestsOpen, TestMarked, PmInv, Go, Done
<1>1. ASSUME NEW o \in ops \cap RtnlOps, Begin(o)
      PROVE  ((phase = "awake" \/ op["pci"] # "none") => drv)'
  BY <1>1 DEF Begin, Entry, FirstLabel
<1>2. ASSUME NEW permanent \in BOOLEAN, ErrorDetected(permanent)
      PROVE  ((phase = "awake" \/ op["pci"] # "none") => drv)'
  BY <1>2 DEF ErrorDetected
<1>3. CASE Freeze \/ RuntimeSuspend
  BY <1>3 DEF Freeze, RuntimeSuspend, HoldsPm, IffUp
<1>4. CASE Remove
  BY <1>4 DEF Remove
<1>5. CASE Wake
  BY <1>5 DEF Wake, WakeOp, IffUp
<1>6. CASE SlotResetFails \/ ResetTask
  BY <1>6 DEF SlotResetFails, ResetTask
<1>7. ASSUME NEW a \in Actors, Step(a)
      PROVE  ((phase = "awake" \/ op["pci"] # "none") => drv)'
  <2>1. CASE Claim(a) \/ Wait(a) \/ TestDown(a)
    BY <2>1 DEF Claim, CanClaim, Wait, TestDown
  <2>2. CASE Down(a) \/ Sync(a) \/ DelTimers(a) \/ CleanRings(a)
    BY <2>2 DEF Down, Sync, SyncDone, DelTimers, CleanRings, AfterDown, HardReset
  <2>3. CASE Config(a) \/ ClearDown(a)
    BY <2>3 DEF Config, ClearDown
  <2>4. CASE Unmask(a)
    BY <2>4 DEF Unmask
  <2>5. CASE Release(a) \/ Request(a) \/ RequestFails(a)
    BY <2>5 DEF Release, Request, RequestFails, OpenFault
  <2>6. CASE FreeIrq(a) \/ NapiOff(a)
    BY <2>6 DEF FreeIrq, NapiOff, SyncDone
  <2>7. CASE Free(a)
    BY <2>7 DEF Free
  <2> QED
    BY <1>7, <2>1, <2>2, <2>3, <2>4, <2>5, <2>6, <2>7 DEF Step
<1>8. CASE Get \/ NoMemory \/ Awaken
  BY <1>8 DEF Get, NoMemory, Awaken, AfterGet
<1>9. CASE Branch \/ SelfTest \/ Swap \/ NapiOn
  BY <1>9 DEF Branch, HardReset, SelfTest, Swap, NapiOn
<1>10. CASE Alloc \/ AllocFails
  BY <1>10 DEF Alloc, HardReset, AllocFails, OpenFault
<1>11. CASE Backout \/ BackedOut \/ Tests
  BY <1>11 DEF Backout, BackedOut, HardReset, Tests
<1>12. CASE Broken \/ Sleep \/ SleepFails
  BY <1>12 DEF Broken, Sleep, SleepFails, HardReset, IffUp
<1>13. CASE CancelReset \/ CancelWatchdog \/ Unregister \/ Gone
  BY <1>13 DEF CancelReset, CancelWatchdog, Unregister, Gone
<1>14. CASE LinkInterrupt \/ CallReset \/ PollStart \/ PollEnd \/ TimerFires \/ Watchdog
  BY <1>14
     DEF LinkInterrupt, CallReset, PollStart, PollEnd, TimerFires, Watchdog, WatchdogStart,
         WatchdogTest, WatchdogArm, WatchdogLook
<1> QED
  BY <1>1, <1>2, <1>3, <1>4, <1>5, <1>6, <1>7, <1>8, <1>9, <1>10, <1>11, <1>12, <1>13, <1>14
     DEF Next, PciBegin, Rtnl, Pci

\* with it from the first steps of e1000e_open on,
LEMMA DrvOpening ==
  ASSUME Ctx, Next
  PROVE  (op["rtnl"] = "open" /\ pc["rtnl"] \notin {"get", "awaken", "alloc"} => drv)'
<1> USE DEF Run, RtnlOps, bits, core, mem, hw, intr, wd, power, Ctx, PlaceInv, OpsOf,
        Actors, Place, Downs, Ups, UserResets, TameInv, PciTame, StaysUp, BusyTame,
        PciOps, DrvInv, TestsOpen, TestMarked, PmInv, Go, Done
<1>1. ASSUME NEW o \in ops \cap RtnlOps, Begin(o)
      PROVE  (op["rtnl"] = "open" /\ pc["rtnl"] \notin {"get", "awaken", "alloc"} => drv)'
  BY <1>1 DEF Begin, Entry, FirstLabel
<1>2. ASSUME NEW permanent \in BOOLEAN, ErrorDetected(permanent)
      PROVE  (op["rtnl"] = "open" /\ pc["rtnl"] \notin {"get", "awaken", "alloc"} => drv)'
  BY <1>2 DEF ErrorDetected
<1>3. CASE Freeze \/ RuntimeSuspend
  BY <1>3 DEF Freeze, RuntimeSuspend, HoldsPm, IffUp
<1>4. CASE Remove
  BY <1>4 DEF Remove
<1>5. CASE Wake
  BY <1>5 DEF Wake, WakeOp, IffUp
<1>6. CASE SlotResetFails \/ ResetTask
  BY <1>6 DEF SlotResetFails, ResetTask
<1>7. ASSUME NEW a \in Actors, Step(a)
      PROVE  (op["rtnl"] = "open" /\ pc["rtnl"] \notin {"get", "awaken", "alloc"} => drv)'
  <2>1. CASE Claim(a) \/ Wait(a) \/ TestDown(a)
    BY <2>1 DEF Claim, CanClaim, Wait, TestDown
  <2>2. CASE Down(a)
    BY <2>2 DEF Down
  <2>3. CASE Sync(a)
    BY <2>3 DEF Sync, SyncDone
  <2>4. CASE DelTimers(a)
    BY <2>4 DEF DelTimers
  <2>5. CASE CleanRings(a)
    BY <2>5 DEF CleanRings, AfterDown, HardReset
  <2>6. CASE Config(a) \/ ClearDown(a)
    BY <2>6 DEF Config, ClearDown
  <2>7. CASE Unmask(a)
    BY <2>7 DEF Unmask
  <2>8. CASE Release(a) \/ Request(a) \/ RequestFails(a)
    BY <2>8 DEF Release, Request, RequestFails, OpenFault
  <2>9. CASE FreeIrq(a) \/ NapiOff(a)
    BY <2>9 DEF FreeIrq, NapiOff, SyncDone
  <2>10. CASE Free(a)
    <3>1. a = "rtnl" /\ op[a] \in {"close", "test"} /\ pc[a] = "free"
      <4>1. pc[a] = "free"
        BY <2>10 DEF Free
      <4> QED
        BY <4>1
    <3>2. op'["rtnl"] # "open"
      <4>1. CASE Done(a)
        BY <3>1, <4>1, DoneTo
      <4>2. CASE Go(a, "tests")
        BY <3>1, <4>2, GoesTo
      <4> QED
        BY <2>10, <3>1, <4>1, <4>2 DEF Free
    <3> QED
      BY <3>2
  <2> QED
    BY <1>7, <2>1, <2>2, <2>3, <2>4, <2>5, <2>6, <2>7, <2>8, <2>9, <2>10 DEF Step
<1>8. CASE Get \/ NoMemory \/ Awaken
  BY <1>8 DEF Get, NoMemory, Awaken, AfterGet
<1>9. CASE Branch \/ SelfTest \/ Swap \/ NapiOn
  BY <1>9 DEF Branch, HardReset, SelfTest, Swap, NapiOn
<1>10. CASE Alloc \/ AllocFails
  BY <1>10 DEF Alloc, HardReset, AllocFails, OpenFault
<1>11. CASE Backout \/ BackedOut \/ Tests
  BY <1>11 DEF Backout, BackedOut, HardReset, Tests
<1>12. CASE Broken \/ Sleep \/ SleepFails
  BY <1>12 DEF Broken, Sleep, SleepFails, HardReset, IffUp
<1>13. CASE CancelReset \/ CancelWatchdog \/ Unregister \/ Gone
  BY <1>13 DEF CancelReset, CancelWatchdog, Unregister, Gone
<1>14. CASE LinkInterrupt \/ CallReset \/ PollStart \/ PollEnd \/ TimerFires \/ Watchdog
  BY <1>14
     DEF LinkInterrupt, CallReset, PollStart, PollEnd, TimerFires, Watchdog, WatchdogStart,
         WatchdogTest, WatchdogArm, WatchdogLook
<1> QED
  BY <1>1, <1>2, <1>3, <1>4, <1>5, <1>6, <1>7, <1>8, <1>9, <1>10, <1>11, <1>12, <1>13, <1>14
     DEF Next, PciBegin, Rtnl, Pci

\* until it is closed.
LEMMA DrvTold ==
  ASSUME Ctx, Next
  PROVE  (IffUp /\ (phase = "awake" \/ op["pci"] # "none") => drv)'
<1> USE DEF Run, RtnlOps, bits, core, mem, hw, intr, wd, power, Ctx, PlaceInv, OpsOf,
        Actors, Place, Downs, Ups, UserResets, TameInv, PciTame, StaysUp, BusyTame,
        PciOps, DrvInv, TestsOpen, TestMarked, PmInv, IffUp, Go, Done
<1>1. ASSUME NEW o \in ops \cap RtnlOps, Begin(o)
      PROVE  (IffUp /\ (phase = "awake" \/ op["pci"] # "none") => drv)'
  BY <1>1 DEF Begin, Entry, FirstLabel
<1>2. ASSUME NEW permanent \in BOOLEAN, ErrorDetected(permanent)
      PROVE  (IffUp /\ (phase = "awake" \/ op["pci"] # "none") => drv)'
  BY <1>2 DEF ErrorDetected
<1>3. CASE Freeze \/ RuntimeSuspend
  BY <1>3 DEF Freeze, RuntimeSuspend, HoldsPm
<1>4. CASE Remove
  BY <1>4 DEF Remove
<1>5. CASE Wake
  BY <1>5 DEF Wake, WakeOp
<1>6. CASE SlotResetFails \/ ResetTask
  BY <1>6 DEF SlotResetFails, ResetTask
<1>7. ASSUME NEW a \in Actors, Step(a)
      PROVE  (IffUp /\ (phase = "awake" \/ op["pci"] # "none") => drv)'
  <2>1. CASE Claim(a) \/ Wait(a) \/ TestDown(a)
    BY <2>1 DEF Claim, CanClaim, Wait, TestDown
  <2>2. CASE Down(a) \/ Sync(a) \/ DelTimers(a) \/ CleanRings(a)
    BY <2>2 DEF Down, Sync, SyncDone, DelTimers, CleanRings, AfterDown, HardReset
  <2>3. CASE Config(a) \/ ClearDown(a)
    BY <2>3 DEF Config, ClearDown
  <2>4. CASE Unmask(a)
    BY <2>4 DEF Unmask
  <2>5. CASE Release(a) \/ Request(a) \/ RequestFails(a)
    BY <2>5 DEF Release, Request, RequestFails, OpenFault
  <2>6. CASE FreeIrq(a) \/ NapiOff(a)
    BY <2>6 DEF FreeIrq, NapiOff, SyncDone
  <2>7. CASE Free(a)
    BY <2>7 DEF Free
  <2> QED
    BY <1>7, <2>1, <2>2, <2>3, <2>4, <2>5, <2>6, <2>7 DEF Step
<1>8. CASE Get \/ NoMemory \/ Awaken
  BY <1>8 DEF Get, NoMemory, Awaken, AfterGet
<1>9. CASE Branch \/ SelfTest \/ Swap \/ NapiOn
  BY <1>9 DEF Branch, HardReset, SelfTest, Swap, NapiOn
<1>10. CASE Alloc \/ AllocFails
  BY <1>10 DEF Alloc, HardReset, AllocFails, OpenFault
<1>11. CASE Backout \/ BackedOut \/ Tests
  BY <1>11 DEF Backout, BackedOut, HardReset, Tests
<1>12. CASE Broken \/ Sleep \/ SleepFails
  BY <1>12 DEF Broken, Sleep, SleepFails, HardReset
<1>13. CASE CancelReset \/ CancelWatchdog \/ Unregister \/ Gone
  BY <1>13 DEF CancelReset, CancelWatchdog, Unregister, Gone
<1>14. CASE LinkInterrupt \/ CallReset \/ PollStart \/ PollEnd \/ TimerFires \/ Watchdog
  BY <1>14
     DEF LinkInterrupt, CallReset, PollStart, PollEnd, TimerFires, Watchdog, WatchdogStart,
         WatchdogTest, WatchdogArm, WatchdogLook
<1> QED
  BY <1>1, <1>2, <1>3, <1>4, <1>5, <1>6, <1>7, <1>8, <1>9, <1>10, <1>11, <1>12, <1>13, <1>14
     DEF Next, PciBegin, Rtnl, Pci

\* Flags are TRUE or FALSE; the rest of the state is among its values.
Flags ==
  {down, resetting, testing, running, present, registered, rings, posted, rxon, ims, irq,
   drv, carrier, timer, wasdown} \subseteq BOOLEAN

Values ==
  /\ napi \in {"off", "idle", "polling"}
  /\ works \subseteq {"watchdog", "reset"}
  /\ wpc \in {"idle", "look", "arm", "set"}
  /\ phase \in {"awake", "system", "runtime", "error", "dead", "gone"}

\* They are all of the type invariant that the places of the threads do not say.
LEMMA TypesSuffice ==
  ASSUME Flags, Values, PlaceInv
  PROVE  TypeOK
<1>1. pc \in [Actors -> Labels] /\ op \in [Actors -> OpNames]
  BY DEF PlaceInv
<1> QED
  BY <1>1, Zenon DEF TypeOK, Flags, Values, OpNames

\* Every step keeps them so.
LEMMA FlagsNext ==
  ASSUME Flags, HasAMT \in BOOLEAN, NoDisableRx \in BOOLEAN, Next
  PROVE  Flags'
<1> USE DEF Run, bits, core, mem, hw, intr, wd, power, Flags, Go, Done
<1>1. ASSUME NEW o \in ops \cap RtnlOps, Begin(o)
      PROVE  Flags'
  BY <1>1 DEF Begin, Entry, FirstLabel, RtnlOps
<1>2. ASSUME NEW permanent \in BOOLEAN, ErrorDetected(permanent)
      PROVE  Flags'
  BY <1>2 DEF ErrorDetected
<1>3. CASE Freeze
  BY <1>3 DEF Freeze
<1>4. CASE RuntimeSuspend
  BY <1>4 DEF RuntimeSuspend, HoldsPm, IffUp
<1>5. CASE Remove
  BY <1>5 DEF Remove
<1>6. CASE Wake
  <2>1. UNCHANGED <<down, resetting, testing, running, registered, rings, posted, irq,
                    carrier, timer, wasdown>>
    BY <1>6 DEF Wake
  <2>2. /\ rxon' \in BOOLEAN
        /\ ims' \in BOOLEAN
        /\ drv' \in BOOLEAN
        /\ present' = present \/ present' \in BOOLEAN
    BY <1>6, Zenon DEF Wake
  <2> QED
    BY <2>1, <2>2
<1>7. CASE SlotResetFails
  BY <1>7 DEF SlotResetFails
<1>8. CASE ResetTask
  BY <1>8 DEF ResetTask
<1>9. ASSUME NEW a \in Actors, Step(a)
      PROVE  Flags'
  <2>1. CASE Claim(a) \/ Wait(a) \/ TestDown(a)
    BY <2>1 DEF Claim, CanClaim, Wait, TestDown
  <2>2. CASE Down(a) \/ Sync(a) \/ DelTimers(a) \/ CleanRings(a)
    BY <2>2 DEF Down, Sync, SyncDone, DelTimers, CleanRings, AfterDown, HardReset
  <2>3. CASE Config(a) \/ ClearDown(a)
    BY <2>3 DEF Config, ClearDown
  <2>4. CASE Unmask(a)
    BY <2>4 DEF Unmask
  <2>5. CASE Release(a) \/ Request(a) \/ RequestFails(a)
    BY <2>5 DEF Release, Request, RequestFails, OpenFault
  <2>6. CASE FreeIrq(a) \/ NapiOff(a)
    BY <2>6 DEF FreeIrq, NapiOff, SyncDone
  <2>7. CASE Free(a)
    <3>1. UNCHANGED <<down, resetting, testing, running, present, registered, rxon, ims,
                      irq, carrier, timer, wasdown>>
      BY <2>7 DEF Free
    <3>2. /\ rings' \in BOOLEAN
          /\ posted' \in BOOLEAN
          /\ drv' \in BOOLEAN
      BY <2>7, Zenon DEF Free
    <3> QED
      BY <3>1, <3>2
  <2> QED
    BY <1>9, <2>1, <2>2, <2>3, <2>4, <2>5, <2>6, <2>7 DEF Step
<1>10. CASE Get
  BY <1>10 DEF Get
<1>11. CASE NoMemory
  BY <1>11 DEF NoMemory
<1>12. CASE Awaken
  BY <1>12 DEF Awaken, AfterGet
<1>13. CASE Branch
  <2>1. UNCHANGED <<down, resetting, testing, running, present, registered, rings, posted, irq,
                    carrier, timer, wasdown>>
    BY <1>13 DEF Branch
  <2>2. /\ rxon' = rxon \/ rxon' \in BOOLEAN
        /\ ims' = ims \/ ims' \in BOOLEAN
        /\ drv' = drv \/ drv' \in BOOLEAN
    BY <1>13, Zenon DEF Branch, HardReset
  <2> QED
    BY <2>1, <2>2
<1>14. CASE SelfTest
  <2>1. UNCHANGED <<down, resetting, running, present, registered, rings, posted, irq,
                    carrier, timer, wasdown>>
    BY <1>14 DEF SelfTest
  <2>2. /\ testing' = testing \/ testing' \in BOOLEAN
        /\ rxon' = rxon \/ rxon' \in BOOLEAN
        /\ ims' = ims \/ ims' \in BOOLEAN
        /\ drv' = drv \/ drv' \in BOOLEAN
    BY <1>14, Zenon DEF SelfTest
  <2> QED
    BY <2>1, <2>2
<1>15. CASE Swap
  BY <1>15 DEF Swap
<1>16. CASE NapiOn
  BY <1>16 DEF NapiOn
<1>17. CASE Alloc
  BY <1>17 DEF Alloc, HardReset
<1>18. CASE AllocFails
  BY <1>18 DEF AllocFails, HardReset, OpenFault
<1>19. CASE Backout
  BY <1>19 DEF Backout
<1>20. CASE BackedOut
  BY <1>20 DEF BackedOut, HardReset
<1>21. CASE Tests
  <2>1. UNCHANGED <<down, resetting, running, present, registered, rings, posted, irq,
                    carrier, timer, wasdown>>
    BY <1>21 DEF Tests, HardReset
  <2>2. /\ testing' \in BOOLEAN
        /\ rxon' \in BOOLEAN
        /\ ims' \in BOOLEAN
        /\ drv' \in BOOLEAN
    BY <1>21, Zenon DEF Tests, HardReset
  <2> QED
    BY <2>1, <2>2
<1>22. CASE Broken
  BY <1>22 DEF Broken
<1>23. CASE Sleep
  BY <1>23 DEF Sleep
<1>24. CASE SleepFails
  <2>1. UNCHANGED <<down, resetting, testing, running, registered, rings, posted, irq,
                    carrier, timer, wasdown>>
    BY <1>24 DEF SleepFails, HardReset
  <2>2. /\ rxon' = rxon \/ rxon' \in BOOLEAN
        /\ ims' = ims \/ ims' \in BOOLEAN
        /\ drv' = drv \/ drv' \in BOOLEAN
        /\ present' \in BOOLEAN
    BY <1>24, Zenon DEF SleepFails, HardReset
  <2> QED
    BY <2>1, <2>2
<1>25. CASE CancelReset
  BY <1>25 DEF CancelReset
<1>26. CASE CancelWatchdog
  BY <1>26 DEF CancelWatchdog
<1>27. CASE Unregister
  BY <1>27 DEF Unregister
<1>28. CASE Gone
  BY <1>28 DEF Gone
<1>29. CASE LinkInterrupt \/ CallReset \/ PollStart \/ PollEnd \/ TimerFires \/ Watchdog
  <2>1. /\ UNCHANGED <<down, resetting, testing, running, present, registered, rings, posted,
                       rxon, ims, irq, drv, wasdown>>
        /\ carrier' = carrier \/ carrier' \in BOOLEAN
        /\ timer' = timer \/ timer' \in BOOLEAN
    BY <1>29
       DEF LinkInterrupt, CallReset, PollStart, PollEnd, TimerFires, Watchdog,
           WatchdogStart, WatchdogTest, WatchdogArm, WatchdogLook
  <2> QED
    BY <2>1
<1> QED
  BY <1>1, <1>2, <1>3, <1>4, <1>5, <1>6, <1>7, <1>8, <1>9, <1>10, <1>11, <1>12, <1>13,
     <1>14, <1>15, <1>16, <1>17, <1>18, <1>19, <1>20, <1>21, <1>22, <1>23, <1>24, <1>25,
     <1>26, <1>27, <1>28, <1>29
     DEF Next, PciBegin, Rtnl, Pci

\* Likewise.
LEMMA ValuesNext ==
  ASSUME Values, Next
  PROVE  Values'
<1> USE DEF Run, bits, core, mem, hw, intr, wd, power, Values, Go, Done
<1>1. ASSUME NEW o \in ops \cap RtnlOps, Begin(o)
      PROVE  Values'
  BY <1>1 DEF Begin, Entry, FirstLabel, RtnlOps
<1>2. ASSUME NEW permanent \in BOOLEAN, ErrorDetected(permanent)
      PROVE  Values'
  BY <1>2 DEF ErrorDetected
<1>3. CASE Freeze
  BY <1>3 DEF Freeze
<1>4. CASE RuntimeSuspend
  BY <1>4 DEF RuntimeSuspend, HoldsPm, IffUp
<1>5. CASE Remove
  BY <1>5 DEF Remove
<1>6. CASE Wake
  BY <1>6 DEF Wake, WakeOp, IffUp
<1>7. CASE SlotResetFails
  BY <1>7 DEF SlotResetFails
<1>8. CASE ResetTask
  BY <1>8 DEF ResetTask
<1>9. ASSUME NEW a \in Actors, Step(a)
      PROVE  Values'
  <2>1. CASE Claim(a) \/ Wait(a) \/ TestDown(a)
    BY <2>1 DEF Claim, CanClaim, Wait, TestDown
  <2>2. CASE Down(a) \/ Sync(a) \/ DelTimers(a) \/ CleanRings(a)
    BY <2>2 DEF Down, Sync, SyncDone, DelTimers, CleanRings, AfterDown, HardReset
  <2>3. CASE Config(a) \/ ClearDown(a)
    BY <2>3 DEF Config, ClearDown
  <2>4. CASE Unmask(a)
    BY <2>4 DEF Unmask
  <2>5. CASE Release(a) \/ Request(a) \/ RequestFails(a)
    BY <2>5 DEF Release, Request, RequestFails, OpenFault
  <2>6. CASE FreeIrq(a) \/ NapiOff(a)
    BY <2>6 DEF FreeIrq, NapiOff, SyncDone
  <2>7. CASE Free(a)
    BY <2>7 DEF Free
  <2> QED
    BY <1>9, <2>1, <2>2, <2>3, <2>4, <2>5, <2>6, <2>7 DEF Step
<1>10. CASE Get
  BY <1>10 DEF Get
<1>11. CASE NoMemory
  BY <1>11 DEF NoMemory
<1>12. CASE Awaken
  BY <1>12 DEF Awaken, AfterGet
<1>13. CASE Branch
  BY <1>13 DEF Branch, HardReset
<1>14. CASE SelfTest
  BY <1>14 DEF SelfTest
<1>15. CASE Swap
  BY <1>15 DEF Swap
<1>16. CASE NapiOn
  BY <1>16 DEF NapiOn
<1>17. CASE Alloc
  BY <1>17 DEF Alloc, HardReset
<1>18. CASE AllocFails
  BY <1>18 DEF AllocFails, HardReset, OpenFault
<1>19. CASE Backout
  BY <1>19 DEF Backout
<1>20. CASE BackedOut
  BY <1>20 DEF BackedOut, HardReset
<1>21. CASE Tests
  BY <1>21 DEF Tests, HardReset
<1>22. CASE Broken
  BY <1>22 DEF Broken
<1>23. CASE Sleep
  BY <1>23 DEF Sleep
<1>24. CASE SleepFails
  BY <1>24 DEF SleepFails, HardReset, IffUp
<1>25. CASE CancelReset
  BY <1>25 DEF CancelReset
<1>26. CASE CancelWatchdog
  BY <1>26 DEF CancelWatchdog
<1>27. CASE Unregister
  BY <1>27 DEF Unregister
<1>28. CASE Gone
  BY <1>28 DEF Gone
<1>29. CASE LinkInterrupt \/ CallReset \/ PollStart \/ PollEnd \/ TimerFires \/ Watchdog
  BY <1>29
     DEF LinkInterrupt, CallReset, PollStart, PollEnd, TimerFires, Watchdog, WatchdogStart,
         WatchdogTest, WatchdogArm, WatchdogLook
<1> QED
  BY <1>1, <1>2, <1>3, <1>4, <1>5, <1>6, <1>7, <1>8, <1>9, <1>10, <1>11, <1>12, <1>13,
     <1>14, <1>15, <1>16, <1>17, <1>18, <1>19, <1>20, <1>21, <1>22, <1>23, <1>24, <1>25,
     <1>26, <1>27, <1>28, <1>29
     DEF Next, PciBegin, Rtnl, Pci

\* The whole invariant holds at the start,
LEMMA CtxInit ==
  ASSUME Init, TameSettings
  PROVE  Ctx /\ Flags /\ Values
<1>1. PlaceInv /\ Inv
  BY PlaceInit, InitInv
<1>2. PmInv
  BY DEF Init, PmInv, Actors
<1>3. op["rtnl"] = "none" /\ ~running
  BY DEF Init, Actors
<1>4. ~IffUp
  BY <1>3 DEF IffUp
<1>5. TameInv /\ DrvInv
  BY <1>3, <1>4
     DEF Init, TameInv, PciTame, StaysUp, BusyTame, DrvInv, TestsOpen, TestMarked, Actors
<1>6. Tame(ops) /\ Faults \subseteq {"alloc", "sleep"}
  BY DEF Init, TameSettings
<1>7. Rest /\ RxInv /\ \A a \in Actors : pc[a] \notin Sect
  BY <1>4 DEF Init, Rest, Shut, RxInv, Sect
<1>8. LevelInv
  BY <1>7 DEF LevelInv
<1>9. Flags /\ Values
  BY DEF Init, Flags, Values
<1> QED
  BY <1>1, <1>2, <1>5, <1>6, <1>8, <1>9 DEF Ctx

\* every step keeps it,
LEMMA CtxStep ==
  ASSUME Ctx, Next
  PROVE  Ctx'
<1>1. PlaceInv /\ PmInv /\ ops' = ops
  BY NextKeepsOps DEF Ctx
<1>2. PlaceInv' /\ PmInv' /\ LevelInv'
  BY <1>1, PlaceNext, PmNext, LevelNext
<1>3. PciTame' /\ BusyTame'
  BY TamePci, TameBusy
<1>4. (pc["pci"] = "wait" => IffUp)'
  BY TameWait
<1>5. pc'["rtnl"] \notin {"backout", "undone"}
  BY TameOpen
<1>6. "timeout" \notin ops => pc'["reset"] = "idle" /\ "reset" \notin works'
  BY <1>1, TameQuiet
<1>8. "timeout" \in ops => StaysUp'
  BY TameStaysUp, TameDead DEF StaysUp
<1>9. TameInv'
  BY <1>1, <1>3, <1>4, <1>5, <1>6, <1>8 DEF TameInv
<1>10. DrvInv'
  BY DrvTest, DrvTesting, DrvNoAmt, DrvOpening, DrvTold DEF DrvInv
<1>11. "badset" \notin ops' => Inv'
  BY <1>1, NextInv DEF Ctx
<1> QED
  BY <1>1, <1>2, <1>9, <1>10, <1>11 DEF Ctx

\* and it is about the variables alone.
LEMMA CtxStutter ==
  ASSUME Ctx, UNCHANGED vars
  PROVE  Ctx'
<1>0. UNCHANGED <<down, resetting, testing, running, present, registered, rings, posted, rxon,
                  ims, irq, napi, drv, carrier, timer, works, wpc, phase, wasdown, ops, pc, op>>
  BY DEF vars, bits, core, mem, hw, intr, wd, power
<1>1. IffUp' <=> IffUp
  BY <1>0 DEF IffUp
<1>2. PlaceInv' /\ PmInv' /\ TameInv' /\ DrvInv'
  BY <1>0, <1>1
     DEF Ctx, PlaceInv, PmInv, TameInv, PciTame, StaysUp, BusyTame, DrvInv, TestsOpen,
         TestMarked
<1>3. (Rest' <=> Rest) /\ (RxInv' <=> RxInv)
  BY <1>0, <1>1 DEF Rest, Shut, Up, Halted, RxInv
<1>4. ASSUME NEW a \in Actors, At(pc[a], op[a])
      PROVE  At(pc[a], op[a])'
  BY <1>0, <1>1, <1>4 DEF At, Shut, Up, Halted
<1>5. LevelInv'
  BY <1>0, <1>1, <1>3, <1>4 DEF Ctx, LevelInv
<1>6. "badset" \notin ops' => Inv'
  BY <1>0 DEF Ctx, Inv
<1> QED
  BY <1>0, <1>2, <1>5, <1>6 DEF Ctx

TrueInv == Ctx /\ Flags /\ Values

\* So it holds throughout.
LEMMA TrueAlways ==
  ASSUME TameSettings
  PROVE  Spec => []TrueInv
<1>1. Init => TrueInv
  BY CtxInit DEF TrueInv
<1>2. ASSUME TrueInv, Next
      PROVE  TrueInv'
  BY <1>2, CtxStep, FlagsNext, ValuesNext, LifecycleAssumption
     DEF TrueInv, LifecycleAssumption
<1>3. ASSUME TrueInv, UNCHANGED vars
      PROVE  TrueInv'
  <2>1. Flags' /\ Values'
    BY <1>3 DEF TrueInv, Flags, Values, vars, bits, core, mem, hw, intr, wd, power
  <2> QED
    BY <1>3, <2>1, CtxStutter DEF TrueInv
<1> QED
  BY <1>1, <1>2, <1>3, PTL DEF Spec

\* Nobody is at work on a device that is closed with no call under way.
LEMMA ShutWhenClosed ==
  ASSUME Ctx, ~running, op["rtnl"] = "none"
  PROVE  Shut
<1>1. ~IffUp
  BY DEF IffUp
<1>2. ASSUME NEW a \in Actors, pc[a] \in Sect
      PROVE  Shut
  <2>1. At(pc[a], op[a]) /\ (op[a] = "open" \/ pc[a] = "sleep")
    BY <1>1, <1>2, LevelAt DEF Ctx
  <2>2. op[a] # "open"
    BY DEF Ctx, PlaceInv, OpsOf, Actors, PciOps
  <2> QED
    BY <1>1, <2>1, <2>2 DEF At
<1>3. CASE \A a \in Actors : pc[a] \notin Sect
  BY <1>1, <1>3 DEF Ctx, LevelInv, Rest
<1> QED
  BY <1>2, <1>3

\* Nobody is at work on a device that is asleep with no suspend or resume under way.
LEMMA RestWhenAsleep ==
  ASSUME Ctx, phase \in {"system", "runtime"}, op["pci"] = "none"
  PROVE  down /\ ~rxon /\ ~ims
<1>1. pc["rtnl"] \notin Sect /\ pc["reset"] \notin Sect
  BY PciAlone
<1>2. pc["pci"] \notin Sect
  BY DEF Ctx, PlaceInv, Place, Actors, Sect
<1>3. Rest
  BY <1>1, <1>2 DEF Ctx, LevelInv, Actors
<1> QED
  BY <1>3 DEF Rest, Shut, Halted

\* For these settings: a device that is closed is down and silent and has no resources, one
\* that is asleep is quiet, and of one in use the firmware has been told (e1000e_close,
\* e1000e_pm_freeze, e1000_probe say so), with every interleaving of suspends, resumes,
\* users' calls and failures to allocate or to fall asleep, or of resets from either side.
THEOREM StateStaysTrue ==
  ASSUME TameSettings
  PROVE  Spec => []StateIsTrue
<1>1. ASSUME TrueInv
      PROVE  StateIsTrue
  <2>0. Ctx
    BY <1>1 DEF TrueInv
  <2>1. TypeOK
    BY <1>1, TypesSuffice DEF TrueInv, Ctx
  <2>2. ClosedIsQuiet
    BY <2>0, ShutWhenClosed DEF ClosedIsQuiet, Shut
  <2>3. AsleepIsQuiet
    BY <2>0, RestWhenAsleep DEF AsleepIsQuiet
  <2>4. DriverInControl
    <3> SUFFICES ASSUME running, phase = "awake", \A a \in Actors : op[a] = "none"
                 PROVE  drv
      BY DEF DriverInControl
    <3>1. IffUp
      BY DEF IffUp, Actors
    <3> QED
      BY <2>0, <3>1 DEF Ctx, DrvInv
  <2> QED
    BY <2>1, <2>2, <2>3, <2>4 DEF StateIsTrue
<1> QED
  BY <1>1, TrueAlways, PTL

\* For the same settings: no thread, no poll and no DMA uses rings or buffers that have
\* been freed, whoever frees or replaces them is alone, and NAPI and the interrupt are taken
\* and given back in pairs (e1000e_down, e1000e_close, e1000_set_ringparam).
THEOREM ResourcesStayOwned ==
  ASSUME TameSettings
  PROVE  Spec => []ResourcesOwned
<1>1. ASSUME TrueInv
      PROVE  ResourcesOwned
  <2>0. Ctx /\ LevelInv
    BY <1>1 DEF TrueInv, Ctx
  <2>1. ASSUME NEW a \in Actors, pc[a] \in Sect
        PROVE  At(pc[a], op[a]) /\ \A b \in Actors \ {a} : pc[b] \notin Sect
    BY <2>0, <2>1, LevelAt
  <2>2. \A a \in Actors : pc[a] \in {"clean", "swap", "config", "clear", "unmask"} => rings
    BY <2>1 DEF Sect, At, Halted
  <2>3. napi = "polling" => rings
    <3>1. CASE \A a \in Actors : pc[a] \notin Sect
      BY <2>0, <3>1 DEF LevelInv, Rest, Shut, Up, Halted
    <3>2. ASSUME NEW a \in Actors, pc[a] \in Sect
          PROVE  napi = "polling" => rings
      <4>1. At(pc[a], op[a])
        BY <2>1, <3>2
      <4> QED
        BY <3>2, <4>1 DEF Sect, At, Shut, Up, Halted
    <3> QED
      BY <3>1, <3>2
  <2>4. rxon => \/ rings /\ posted
                \/ NoDisableRx /\ op["pci"] # "none"
    BY <2>0 DEF LevelInv, RxInv
  <2>5. RingsHandledAlone
    <3> SUFFICES ASSUME NEW a \in Actors, pc[a] \in {"clean", "swap"}
                 PROVE  /\ napi # "polling"
                        /\ \A b \in Actors \ {a} :
                             pc[b] \notin {"clean", "swap", "config", "free"}
      BY DEF RingsHandledAlone
    <3>1. At(pc[a], op[a]) /\ \A b \in Actors \ {a} : pc[b] \notin Sect
      BY <2>1 DEF Sect
    <3>2. napi = "idle"
      BY <3>1 DEF At, Halted
    <3> QED
      BY <3>1, <3>2 DEF Sect
  <2>6. NapiAndIrqPaired
    <3> SUFFICES ASSUME NEW a \in Actors
                 PROVE  /\ pc[a] = "napioff" => napi # "off"
                        /\ pc[a] = "napion"  => napi = "off"
                        /\ pc[a] = "request" => ~irq
                        /\ pc[a] = "freeirq" => irq
      BY DEF NapiAndIrqPaired
    <3> QED
      BY <2>1 DEF Sect, At, Halted
  <2> QED
    BY <2>2, <2>3, <2>4, <2>5, <2>6 DEF ResourcesOwned, RingUsersHaveRings
<1> QED
  BY <1>1, TrueAlways, PTL

=============================================================================
