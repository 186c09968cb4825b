------------------------------- MODULE Lifecycle -------------------------------
(***************************************************************************)
(* The life of an e1000e device between probe and removal (netdev.c,       *)
(* ethtool.c): who opens, closes, resets, suspends and removes it, and in  *)
(* which steps. Four threads run the same pieces of code on the same       *)
(* adapter and share no lock:                                              *)
(*   "rtnl"   a user's call, one at a time under rtnl_lock,                *)
(*   "reset"  the work item reset_task,                                    *)
(*   "pci"    the PCI core: suspend, resume, error recovery, remove,       *)
(*   the work item watchdog_task with its timer.                           *)
(* They meet in the bits __E1000_DOWN, __E1000_RESETTING, __E1000_TESTING. *)
(***************************************************************************)
EXTENDS Naturals, FiniteSets

CONSTANTS
  OpsSets, \* what is tried together in one behaviour, one of these sets of operations:
           \*   see RtnlOps, PciOps and "timeout"
  Faults,  \* what may fail: "alloc" and "irq" in e1000e_open, "reopen" the same at
           \*   the end of a self-test, "thaw" and "sleep" in suspend and resume
  HasAMT,  \* FLAG_HAS_AMT
  NoDisableRx  \* FLAG2_NO_DISABLE_RX (82574, 82583): only a reset stops receives

RtnlOps == {"open", "close", "reinit", "mtu", "rings", "badset", "test"}
PciOps  == {"freeze", "rsuspend", "error", "remove"}

ASSUME LifecycleAssumption ==
  /\ OpsSets \subseteq SUBSET (RtnlOps \cup PciOps \cup {"timeout"})
  /\ Faults \subseteq {"alloc", "irq", "reopen", "thaw", "sleep"}
  /\ HasAMT \in BOOLEAN /\ NoDisableRx \in BOOLEAN

Actors == {"rtnl", "reset", "pci"}

VARIABLES
  down, resetting, testing,      \* adapter->state
  running, present, registered,  \* the net core's view of the device
  rings,     \* descriptor rings and buffer_info are allocated
  posted,    \* receive buffers are in the ring
  rxon,      \* the adapter may write received frames to memory
  ims,       \* interrupts are not masked
  irq,       \* the interrupt handler is registered
  napi,      \* "off", "idle" or "polling"
  drv,       \* DRV_LOAD: the firmware is told that the driver is in control
  carrier,
  timer,     \* watchdog_timer is pending
  works,     \* work items queued: "watchdog", "reset"
  wpc,       \* watchdog_task: program point
  phase,     \* "awake", "system" or "runtime" suspended, "error", "dead", "gone"
  pc, op,    \* per actor: program point and the operation it is part of
  wasdown,   \* e1000_remove's local copy of DOWN
  ops        \* what is tried in this behaviour

bits  == <<down, resetting, testing>>
core  == <<running, present, registered>>
mem   == <<rings, posted>>
hw    == <<rxon, ims, drv>>
intr  == <<irq, napi>>
wd    == <<timer, works, wpc>>
power == <<phase, wasdown, ops>>
vars  == <<bits, core, mem, hw, intr, carrier, wd, power, pc, op>>

Go(a, l)  == pc' = [pc EXCEPT ![a] = l] /\ UNCHANGED op
Run(a, o, l) == pc' = [pc EXCEPT ![a] = l] /\ op' = [op EXCEPT ![a] = o]
Done(a)   == Run(a, "none", "idle")

\* As e1000_probe leaves things: e1000_sw_init set DOWN, and e1000e_reset or
\* e1000e_get_hw_control told the firmware.
Init ==
  /\ down = TRUE /\ resetting = FALSE /\ testing = FALSE
  /\ running = FALSE /\ present = TRUE /\ registered = TRUE
  /\ rings = FALSE /\ posted = FALSE
  /\ rxon = FALSE /\ ims = FALSE /\ drv = TRUE
  /\ irq = FALSE /\ napi = "off"
  /\ carrier = FALSE /\ timer = FALSE /\ works = {} /\ wpc = "idle"
  /\ phase = "awake" /\ wasdown = FALSE
  /\ ops \in OpsSets
  /\ pc = [a \in Actors |-> "idle"] /\ op = [a \in Actors |-> "none"]

\* e1000e_reset: the hardware stops, masks its interrupts and forgets; with AMT the
\* firmware is told again that the driver is in control.
HardReset == rxon' = FALSE /\ ims' = FALSE /\ drv' = (drv \/ HasAMT)

-----------------------------------------------------------------------------
(* Entry points.                                                           *)

\* A call under rtnl_lock. User space is frozen during a system suspend; all but
\* e1000e_close need a device that is not detached; the net core marks the device
\* running before e1000e_open and not running before e1000e_close.
Entry(o) ==
  CASE o = "open"  -> ~running /\ present
    [] o = "close" -> running
    [] OTHER       -> present

FirstLabel(o) ==
  CASE o \in {"mtu", "rings"} -> "claim"
    [] o = "close"            -> "wait"
    [] OTHER                  -> "get"

Begin(o) ==
  /\ pc["rtnl"] = "idle" /\ registered /\ phase # "system"
  /\ op["pci"] \notin {"freeze", "thaw"}
  /\ Entry(o)
  /\ running' = (o = "open" \/ (running /\ o # "close"))
  /\ Run("rtnl", o, FirstLabel(o))
  /\ UNCHANGED <<bits, present, registered, mem, hw, intr, carrier, wd, power>>

\* e1000_reset_task begins.
ResetTask ==
  /\ pc["reset"] = "idle" /\ "reset" \in works
  /\ works' = works \ {"reset"}
  /\ Run("reset", "reset", "test")
  /\ UNCHANGED <<bits, core, mem, hw, intr, carrier, timer, wpc, power>>

\* e1000e_pm_freeze, with user space frozen.
Freeze ==
  /\ pc["pci"] = "idle" /\ phase = "awake" /\ pc["rtnl"] = "idle"
  /\ present' = FALSE
  /\ Run("pci", "freeze", IF running THEN "wait" ELSE "sleep")
  /\ UNCHANGED <<bits, running, registered, mem, hw, intr, carrier, wd, power>>

\* IFF_UP is set after e1000e_open and cleared after e1000e_close.
IffUp == (running /\ op["rtnl"] # "open") \/ op["rtnl"] = "close"

BadHoldsPm == FALSE

\* A call that has reached pm_runtime_get_sync keeps the device from suspending.
HoldsPm ==
  /\ op["rtnl"] # "none" /\ pc["rtnl"] # "get"
  /\ ~(op["rtnl"] \in {"mtu", "rings"} /\ pc["rtnl"] = "claim")
  /\ ~(op["rtnl"] = "close" /\ pc["rtnl"] = "wait")

BadRuntimeSuspend ==
  /\ pc["pci"] = "idle" /\ phase = "awake" /\ ~HoldsPm /\ (IffUp => ~carrier)
  /\ Run("pci", "rsuspend", "sleep")
  /\ UNCHANGED <<bits, core, mem, hw, intr, carrier, wd, power>>

\* e1000e_pm_runtime_suspend, some time after the link went down.
RuntimeSuspend ==
  /\ pc["pci"] = "idle" /\ phase = "awake" /\ ~HoldsPm /\ (IffUp => ~carrier)
  /\ Run("pci", "rsuspend", IF IffUp THEN "wait" ELSE "sleep")
  /\ UNCHANGED <<bits, core, mem, hw, intr, carrier, wd, power>>

\* e1000_io_error_detected: either the device is taken down, or, after a permanent
\* failure, left as it is for removal. Here nobody waits for RESETTING.
ErrorDetected(permanent) ==
  /\ pc["pci"] = "idle" /\ phase = "awake"
  /\ present' = FALSE
  /\ IF ~permanent /\ running
       THEN Run("pci", "error", "down") /\ UNCHANGED phase
       ELSE phase' = (IF permanent THEN "dead" ELSE "error") /\ UNCHANGED <<pc, op>>
  /\ UNCHANGED <<bits, running, registered, mem, hw, intr, carrier, wd, wasdown, ops>>

\* Waking up: __e1000_resume or e1000_io_slot_reset resets the adapter; then
\* e1000e_pm_thaw, e1000e_pm_runtime_resume or e1000_io_resume. With no interface to
\* bring up the device is only attached again.
WakeOp == [system |-> "thaw", runtime |-> "rresume", error |-> "ioresume"]

Wake ==
  /\ pc["pci"] = "idle" /\ phase \in DOMAIN WakeOp
  /\ rxon' = FALSE /\ ims' = FALSE
  /\ drv' = TRUE
  /\ IF (IF phase = "runtime" THEN IffUp ELSE running)
       THEN /\ Run("pci", WakeOp[phase],
                   IF phase = "system" THEN "request" ELSE "config")
            /\ UNCHANGED <<phase, present>>
       ELSE phase' = "awake" /\ present' = TRUE /\ UNCHANGED <<pc, op>>
  /\ UNCHANGED <<bits, running, registered, mem, intr, carrier, wd, wasdown, ops>>

\* e1000_io_slot_reset cannot enable the device: it stays disconnected.
SlotResetFails ==
  /\ pc["pci"] = "idle" /\ phase = "error"
  /\ phase' = "dead"
  /\ UNCHANGED <<bits, core, mem, hw, intr, carrier, wd, wasdown, ops, pc, op>>

\* e1000_remove begins: DOWN is set for the time being, the timer deleted. A
\* suspended device is resumed before it is removed.
Remove ==
  /\ pc["pci"] = "idle" /\ phase \in {"awake", "error", "dead"}
  /\ wasdown' = down /\ down' = TRUE /\ timer' = FALSE
  /\ Run("pci", "remove", "cancel")
  /\ UNCHANGED <<resetting, testing, core, mem, hw, intr, carrier, works, wpc, phase, ops>>

-----------------------------------------------------------------------------
(* The steps that lead into an operation.                                  *)

\* What an operation does once the device is awake.
AfterGet(o) ==
  CASE o = "open"           -> "alloc"
    [] o = "close"          -> "test"
    [] o = "reinit"         -> "claim"
    [] o = "badset"         -> "release"
    [] o = "test"           -> "selftest"
    [] o \in {"mtu", "rings"} -> "branch"

\* pm_runtime_get_sync: from here on no suspend starts; one under way is waited for,
\* and the device resumed.
Get ==
  /\ pc["rtnl"] = "get"
  /\ Go("rtnl", "awaken")
  /\ UNCHANGED <<bits, core, mem, hw, intr, carrier, wd, power>>

\* e1000_set_ringparam finds no memory for its copies of the ring structures.
NoMemory ==
  /\ pc["rtnl"] = "get" /\ op["rtnl"] = "rings" /\ "alloc" \in Faults
  /\ Go("rtnl", "release")
  /\ UNCHANGED <<bits, core, mem, hw, intr, carrier, wd, power>>

Awaken ==
  /\ pc["rtnl"] = "awaken"
  /\ phase # "runtime" /\ op["pci"] \notin {"rsuspend", "rresume"}
  /\ Go("rtnl", AfterGet(op["rtnl"]))
  /\ UNCHANGED <<bits, core, mem, hw, intr, carrier, wd, power>>

BadCanClaim == TRUE

\* Nobody else is resetting: test_and_set_bit(__E1000_RESETTING) succeeds.
CanClaim == ~resetting

Claim(a) ==
  /\ pc[a] = "claim" /\ CanClaim
  /\ resetting' = TRUE
  /\ Go(a, CASE op[a] = "reset"          -> "down"
             [] op[a] = "reinit"         -> "branch"
             [] op[a] \in {"mtu", "rings"} -> IF op[a] = "rings" /\ ~running
                                            THEN "branch" ELSE "get")
  /\ UNCHANGED <<down, testing, core, mem, hw, intr, carrier, wd, power>>

\* netif_running? If not, a reset will do (and e1000_set_ringparam only notes the
\* new sizes).
Branch ==
  /\ pc["rtnl"] = "branch"
  /\ IF running
       THEN Go("rtnl", "down") /\ UNCHANGED hw
       ELSE /\ Go("rtnl", "release")
            /\ IF op["rtnl"] = "rings" THEN UNCHANGED hw ELSE HardReset
  /\ UNCHANGED <<bits, core, mem, intr, carrier, wd, power>>

\* The wait for RESETTING at the head of e1000e_close and of the suspend paths.
\* Here it has no end; the code gives up after E1000_CHECK_RESET_COUNT turns.
Wait(a) ==
  /\ pc[a] = "wait" /\ CanClaim
  /\ Go(a, CASE op[a] = "close"                -> "get"
             [] op[a] \in {"test", "remove"}   -> "test"
             [] op[a] \in {"freeze", "rsuspend"} -> "down")
  /\ UNCHANGED <<bits, core, mem, hw, intr, carrier, wd, power>>

\* "Don't run the task if already down"; and e1000e_close, which takes down and
\* releases the interrupt only if the device is not down.
TestDown(a) ==
  /\ pc[a] = "test"
  /\ IF op[a] = "reset"
       THEN IF down THEN Done(a) ELSE Go(a, "claim")
       ELSE Go(a, IF down THEN "napioff" ELSE "down")
  /\ UNCHANGED <<bits, core, mem, hw, intr, carrier, wd, power>>

BadSelfTest ==
  /\ pc["rtnl"] = "selftest"
  /\ testing' = running
  /\ IF running THEN Go("rtnl", "tests") ELSE Done("rtnl")
  /\ UNCHANGED <<down, resetting, core, mem, hw, intr, carrier, wd, power>>

\* e1000_diag_test: offline, on a running device, it calls e1000e_close and later
\* e1000e_open; the net core still has the device running. Otherwise it resets.
SelfTest ==
  /\ pc["rtnl"] = "selftest"
  /\ \/ /\ running
        /\ testing' = TRUE
        /\ Go("rtnl", "wait")
        /\ UNCHANGED hw
     \/ /\ ~running
        /\ rxon' = FALSE /\ ims' = FALSE /\ drv' = (drv /\ ~HasAMT)
        /\ Done("rtnl")
        /\ UNCHANGED testing
  /\ UNCHANGED <<down, resetting, core, mem, intr, carrier, wd, power>>

-----------------------------------------------------------------------------
(* e1000e_down.                                                            *)

\* DOWN, carrier off, receiver off, queue stopped, and after a sleep interrupts
\* masked; a handler or poll that saw DOWN clear has ended by then.
Down(a) ==
  /\ pc[a] = "down"
  /\ down' = TRUE
  /\ carrier' = FALSE
  /\ rxon' = (rxon /\ NoDisableRx) /\ ims' = FALSE
  /\ Go(a, "sync")
  /\ UNCHANGED <<resetting, testing, core, mem, drv, intr, wd, power>>

BadSyncDone == TRUE

\* napi_synchronize returns: no poll is under way, and NAPI is not disabled (that
\* looks the same as a poll that never ends).
SyncDone == napi = "idle"

Sync(a) ==
  /\ pc[a] = "sync" /\ SyncDone
  /\ Go(a, "timers")
  /\ UNCHANGED <<bits, core, mem, hw, intr, carrier, wd, power>>

DelTimers(a) ==
  /\ pc[a] = "timers"
  /\ timer' = FALSE
  /\ Go(a, "clean")
  /\ UNCHANGED <<bits, core, mem, hw, intr, carrier, works, wpc, power>>

\* The suspend paths leave the hardware alone; so does a bus that is offline. Then
\* the buffers in both rings are freed.
AfterDown(o) ==
  CASE o \in {"reinit", "mtu", "reset"}            -> "config"
    [] o = "rings"                                 -> "swap"
    [] o \in {"close", "test", "remove", "freeze"} -> "freeirq"
    [] o = "rsuspend"                              -> "sleep"
    [] o = "error"                                 -> "broken"

BadCleanRings(a) ==
  /\ pc[a] = "clean"
  /\ posted' = FALSE
  /\ Go(a, AfterDown(op[a]))
  /\ UNCHANGED <<bits, core, rings, hw, intr, carrier, wd, power>>

CleanRings(a) ==
  /\ pc[a] = "clean"
  /\ IF op[a] \in {"freeze", "rsuspend", "error"} THEN UNCHANGED hw ELSE HardReset
  /\ posted' = FALSE
  /\ Go(a, AfterDown(op[a]))
  /\ UNCHANGED <<bits, core, rings, intr, carrier, wd, power>>

\* e1000_set_ringparam: new rings take the place of the old ones, or, if they cannot
\* be had, do not.
Swap ==
  /\ pc["rtnl"] = "swap"
  /\ Go("rtnl", "config")
  /\ UNCHANGED <<bits, core, mem, hw, intr, carrier, wd, power>>

\* e1000_io_error_detected returns.
Broken ==
  /\ pc["pci"] = "broken"
  /\ phase' = "error"
  /\ Done("pci")
  /\ UNCHANGED <<bits, core, mem, hw, intr, carrier, wd, wasdown, ops>>

-----------------------------------------------------------------------------
(* e1000e_up, and the middle of e1000e_open.                               *)

Config(a) ==
  /\ pc[a] = "config"
  /\ rxon' = TRUE /\ posted' = TRUE
  /\ Go(a, IF op[a] \in {"open", "test"} THEN "request" ELSE "clear")
  /\ UNCHANGED <<bits, core, rings, ims, drv, intr, carrier, wd, power>>

ClearDown(a) ==
  /\ pc[a] = "clear"
  /\ down' = FALSE
  /\ Go(a, IF op[a] \in {"open", "test"} THEN "napion" ELSE "unmask")
  /\ UNCHANGED <<resetting, testing, core, mem, hw, intr, carrier, wd, power>>

BadNapiOn ==
  /\ pc["rtnl"] = "napion"
  /\ Go("rtnl", "unmask")
  /\ UNCHANGED <<bits, core, mem, hw, intr, carrier, wd, power>>

NapiOn ==
  /\ pc["rtnl"] = "napion"
  /\ napi' = "idle"
  /\ Go("rtnl", "unmask")
  /\ UNCHANGED <<bits, core, mem, hw, irq, carrier, wd, power>>

BadUnmask(a) ==
  /\ pc[a] = "unmask"
  /\ phase' = (IF a = "pci" THEN "awake" ELSE phase)
  /\ present' = (present \/ op[a] \in {"thaw", "ioresume"})
  /\ IF op[a] \in {"reinit", "mtu", "rings", "reset"} THEN Go(a, "release") ELSE Done(a)
  /\ UNCHANGED <<bits, running, registered, mem, hw, intr, carrier, wd, wasdown, ops>>

\* Interrupts on (the link status interrupt asked for at the end starts the
\* watchdog); a resume path then attaches the device.
Unmask(a) ==
  /\ pc[a] = "unmask"
  /\ ims' = TRUE
  /\ phase' = (IF a = "pci" THEN "awake" ELSE phase)
  /\ present' = (present \/ op[a] \in {"thaw", "ioresume"})
  /\ IF op[a] \in {"reinit", "mtu", "rings", "reset"} THEN Go(a, "release") ELSE Done(a)
  /\ UNCHANGED <<bits, running, registered, mem, rxon, drv, intr, carrier, wd, wasdown, ops>>

BadRelease(a) ==
  /\ pc[a] = "release"
  /\ resetting' = (resetting /\ op[a] = "reset")
  /\ Done(a)
  /\ UNCHANGED <<down, testing, core, mem, hw, intr, carrier, wd, power>>

\* RESETTING is cleared, whoever set it.
Release(a) ==
  /\ pc[a] = "release"
  /\ resetting' = FALSE
  /\ Done(a)
  /\ UNCHANGED <<down, testing, core, mem, hw, intr, carrier, wd, power>>

-----------------------------------------------------------------------------
(* e1000e_open.                                                            *)

OpenFault(f) ==
  \/ op["rtnl"] = "open" /\ f \in Faults
  \/ op["rtnl"] = "test" /\ "reopen" \in Faults

\* Rings are allocated and, with AMT, the adapter taken from the firmware and reset;
\* or there is no memory: reset, and the net core forgets that the device is running
\* (but e1000_diag_test ignores the failure).
Alloc ==
  /\ pc["rtnl"] = "alloc"
  /\ rings' = TRUE
  /\ IF HasAMT THEN HardReset ELSE UNCHANGED hw
  /\ carrier' = FALSE
  /\ Go("rtnl", "config")
  /\ UNCHANGED <<bits, core, posted, intr, wd, power>>

AllocFails ==
  /\ pc["rtnl"] = "alloc" /\ OpenFault("alloc")
  /\ HardReset
  /\ carrier' = FALSE
  /\ running' = (running /\ op["rtnl"] # "open")
  /\ Done("rtnl")
  /\ UNCHANGED <<bits, present, registered, mem, intr, wd, power>>

\* e1000_request_irq, by e1000e_open or by e1000e_pm_thaw.
Request(a) ==
  /\ pc[a] = "request"
  /\ irq' = TRUE
  /\ Go(a, IF a = "pci" THEN "config" ELSE "clear")
  /\ UNCHANGED <<bits, core, mem, hw, napi, carrier, wd, power>>

RequestFails(a) ==
  /\ pc[a] = "request"
  /\ IF a = "pci"
       THEN "thaw" \in Faults /\ phase' = "awake" /\ Done(a)
       ELSE OpenFault("irq") /\ Go(a, "backout") /\ UNCHANGED phase
  /\ UNCHANGED <<bits, core, mem, hw, intr, carrier, wd, wasdown, ops>>

\* e1000e_open undoes what it did: control back to the firmware, rings freed, and
\* only then a reset.
Backout ==
  /\ pc["rtnl"] = "backout"
  /\ drv' = FALSE /\ rings' = FALSE /\ posted' = FALSE
  /\ Go("rtnl", "undone")
  /\ UNCHANGED <<bits, core, rxon, ims, intr, carrier, wd, power>>

BackedOut ==
  /\ pc["rtnl"] = "undone"
  /\ HardReset
  /\ running' = (running /\ op["rtnl"] # "open")
  /\ Done("rtnl")
  /\ UNCHANGED <<bits, present, registered, mem, intr, carrier, wd, power>>

-----------------------------------------------------------------------------
(* The rest of e1000e_close, and of the suspend paths.                     *)

BadFreeIrq(a) ==
  /\ pc[a] = "freeirq"
  /\ Go(a, IF op[a] = "freeze" THEN "sleep" ELSE "napioff")
  /\ UNCHANGED <<bits, core, mem, hw, intr, carrier, wd, power>>

FreeIrq(a) ==
  /\ pc[a] = "freeirq"
  /\ irq' = FALSE
  /\ Go(a, IF op[a] = "freeze" THEN "sleep" ELSE "napioff")
  /\ UNCHANGED <<bits, core, mem, hw, napi, carrier, wd, power>>

\* napi_disable waits for a poll, and for ever if NAPI is disabled already.
NapiOff(a) ==
  /\ pc[a] = "napioff" /\ SyncDone
  /\ napi' = "off"
  /\ Go(a, "free")
  /\ UNCHANGED <<bits, core, mem, hw, irq, carrier, wd, power>>

BadFree(a) ==
  /\ pc[a] = "free"
  /\ rings' = FALSE /\ posted' = FALSE
  /\ drv' = (drv /\ testing)
  /\ CASE op[a] = "close"  -> Done(a)
       [] op[a] = "test"   -> Go(a, "tests")
       [] op[a] = "remove" -> Go(a, "gone")
  /\ UNCHANGED <<bits, core, rxon, ims, intr, carrier, wd, power>>

\* Rings freed; with AMT the firmware is told that the interface is closed, but not
\* in a self-test.
Free(a) ==
  /\ pc[a] = "free"
  /\ rings' = FALSE /\ posted' = FALSE
  /\ drv' = (drv /\ (HasAMT => testing))
  /\ CASE op[a] = "close"  -> Done(a)
       [] op[a] = "test"   -> Go(a, "tests")
       [] op[a] = "remove" -> Go(a, "gone")
  /\ UNCHANGED <<bits, core, rxon, ims, intr, carrier, wd, power>>

\* The tests of e1000_diag_test, with its resets; then the device is opened again.
Tests ==
  /\ pc["rtnl"] = "tests"
  /\ HardReset
  /\ testing' = FALSE
  /\ Go("rtnl", "alloc")
  /\ UNCHANGED <<down, resetting, core, mem, intr, carrier, wd, power>>

\* __e1000_shutdown: control to the firmware, bus mastering off. If it fails the
\* device is brought back: a runtime suspend resumes, a system suspend thaws.
Sleep ==
  /\ pc["pci"] = "sleep"
  /\ drv' = FALSE /\ rxon' = FALSE
  /\ phase' = (IF op["pci"] = "freeze" THEN "system" ELSE "runtime")
  /\ Done("pci")
  /\ UNCHANGED <<bits, core, mem, ims, intr, carrier, wd, wasdown, ops>>

SleepFails ==
  /\ pc["pci"] = "sleep" /\ "sleep" \in Faults
  /\ IF op["pci"] = "rsuspend"
       THEN HardReset /\ IF IffUp THEN Run("pci", "rresume", "config") ELSE Done("pci")
       ELSE /\ UNCHANGED hw
            /\ IF running THEN Run("pci", "thaw", "request") ELSE Done("pci")
  /\ present' = (present \/ (op["pci"] = "freeze" /\ ~running))
  /\ UNCHANGED <<bits, running, registered, mem, intr, carrier, wd, power>>

-----------------------------------------------------------------------------
(* e1000_remove.                                                           *)

\* cancel_work_sync(&reset_task): off the queue, and not running.
CancelReset ==
  /\ pc["pci"] = "cancel" /\ pc["reset"] = "idle"
  /\ works' = works \ {"reset"}
  /\ Go("pci", "cancelwd")
  /\ UNCHANGED <<bits, core, mem, hw, intr, carrier, timer, wpc, power>>

\* cancel_work_sync(&watchdog_task); then DOWN is put back as it was, not to lie to
\* e1000e_close.
CancelWatchdog ==
  /\ pc["pci"] = "cancelwd" /\ wpc = "idle"
  /\ works' = works \ {"watchdog"}
  /\ down' = (down /\ wasdown)
  /\ Go("pci", "unregister")
  /\ UNCHANGED <<resetting, testing, core, mem, hw, intr, carrier, timer, wpc, power>>

\* unregister_netdev takes rtnl_lock and closes a running device.
Unregister ==
  /\ pc["pci"] = "unregister" /\ pc["rtnl"] = "idle"
  /\ registered' = FALSE /\ running' = FALSE
  /\ Go("pci", IF running THEN "wait" ELSE "gone")
  /\ UNCHANGED <<bits, present, mem, hw, intr, carrier, wd, power>>

\* e1000e_release_hw_control and free_netdev: the adapter structure is gone.
Gone ==
  /\ pc["pci"] = "gone"
  /\ phase' = "gone" /\ drv' = FALSE
  /\ Done("pci")
  /\ UNCHANGED <<bits, core, mem, rxon, ims, intr, carrier, wd, wasdown, ops>>

-----------------------------------------------------------------------------
(* Interrupts, polls, timers, the watchdog task.                           *)

\* A link status change: the watchdog is called for, unless the device is going down.
LinkInterrupt ==
  /\ irq /\ ims
  /\ timer' = (timer \/ ~down)
  /\ UNCHANGED <<bits, core, mem, hw, intr, carrier, works, wpc, power, pc, op>>

\* An uncorrectable ECC error, or a hung queue found by dev_watchdog, calls for a
\* reset.
CallReset ==
  /\ "timeout" \in ops /\ "reset" \notin works
  /\ (irq /\ ims) \/ (running /\ present /\ carrier)
  /\ works' = works \cup {"reset"}
  /\ UNCHANGED <<bits, core, mem, hw, intr, carrier, timer, wpc, power, pc, op>>

PollStart ==
  /\ irq /\ ims /\ napi = "idle"
  /\ napi' = "polling"
  /\ UNCHANGED <<bits, core, mem, hw, irq, carrier, wd, power, pc, op>>

PollEnd ==
  /\ napi = "polling"
  /\ napi' = "idle"
  /\ UNCHANGED <<bits, core, mem, hw, irq, carrier, wd, power, pc, op>>

TimerFires ==
  /\ timer
  /\ timer' = FALSE
  /\ works' = works \cup {"watchdog"}
  /\ UNCHANGED <<bits, core, mem, hw, intr, carrier, wpc, power, pc, op>>

WatchdogStart ==
  /\ "watchdog" \in works /\ wpc = "idle"
  /\ works' = works \ {"watchdog"}
  /\ wpc' = (IF down THEN "idle" ELSE "look")
  /\ UNCHANGED <<bits, core, mem, hw, intr, carrier, timer, power, pc, op>>

\* e1000e_has_link sleeps; what follows trusts the test of DOWN made before it. A
\* link lost with frames in the ring calls for a reset.
WatchdogLook(link) ==
  /\ wpc = "look"
  /\ carrier' = link
  /\ \/ wpc' = "arm" /\ UNCHANGED works
     \/ /\ ~link /\ "timeout" \in ops
        /\ works' = works \cup {"reset"} /\ wpc' = "idle"
  /\ UNCHANGED <<bits, core, mem, hw, intr, timer, power, pc, op>>

\* The timer is set again unless the device is down: a test, then the setting.
WatchdogTest ==
  /\ wpc = "arm"
  /\ wpc' = (IF down THEN "idle" ELSE "set")
  /\ UNCHANGED <<bits, core, mem, hw, intr, carrier, timer, works, power, pc, op>>

WatchdogArm ==
  /\ wpc = "set"
  /\ timer' = TRUE
  /\ wpc' = "idle"
  /\ UNCHANGED <<bits, core, mem, hw, intr, carrier, works, power, pc, op>>

-----------------------------------------------------------------------------
Rtnl ==
  \/ Get \/ NoMemory \/ Awaken \/ Branch \/ SelfTest \/ Swap \/ NapiOn
  \/ Alloc \/ AllocFails \/ Backout \/ BackedOut \/ Tests

Pci ==
  \/ Broken \/ Sleep \/ SleepFails
  \/ CancelReset \/ CancelWatchdog \/ Unregister \/ Gone

Step(a) ==
  \/ Claim(a) \/ Wait(a) \/ TestDown(a)
  \/ Down(a) \/ Sync(a) \/ DelTimers(a) \/ CleanRings(a)
  \/ Config(a) \/ ClearDown(a) \/ Unmask(a) \/ Release(a)
  \/ Request(a) \/ RequestFails(a) \/ FreeIrq(a) \/ NapiOff(a) \/ Free(a)

PciBegin ==
  \/ "freeze" \in ops /\ Freeze
  \/ "rsuspend" \in ops /\ RuntimeSuspend
  \/ "error" \in ops /\ \E permanent \in BOOLEAN : ErrorDetected(permanent)
  \/ "remove" \in ops /\ Remove

Watchdog ==
  \/ WatchdogStart \/ WatchdogTest \/ WatchdogArm
  \/ \E link \in BOOLEAN : WatchdogLook(link)

Next ==
  \/ \E o \in ops \cap RtnlOps : Begin(o)
  \/ PciBegin \/ Wake \/ SlotResetFails \/ ResetTask
  \/ \E a \in Actors : Step(a)
  \/ Rtnl \/ Pci
  \/ LinkInterrupt \/ CallReset \/ PollStart \/ PollEnd \/ TimerFires \/ Watchdog

Spec == Init /\ [][Next]_vars

\* A thread that can take its next step does; polls end; queued work runs; a device
\* that sleeps or failed is woken again.
Fairness ==
  /\ \A a \in Actors : WF_vars(Step(a))
  /\ WF_vars(Rtnl) /\ WF_vars(Pci)
  /\ WF_vars(PollEnd) /\ WF_vars(ResetTask) /\ WF_vars(Wake)

FairSpec == Spec /\ Fairness

-----------------------------------------------------------------------------
(* Properties.                                                             *)

Labels == {"idle", "get", "awaken", "claim", "branch", "wait", "test", "selftest",
           "down", "sync", "timers", "clean", "swap", "broken", "config", "clear",
           "napion", "unmask", "release", "alloc", "request", "backout", "undone",
           "freeirq", "napioff", "free", "tests", "sleep", "cancel", "cancelwd",
           "unregister", "gone"}

TypeOK ==
  /\ {down, resetting, testing, running, present, registered, rings, posted, rxon,
      ims, irq, drv, carrier, timer, wasdown} \subseteq BOOLEAN
  /\ napi \in {"off", "idle", "polling"}
  /\ works \subseteq {"watchdog", "reset"}
  /\ wpc \in {"idle", "look", "arm", "set"}
  /\ phase \in {"awake", "system", "runtime", "error", "dead", "gone"}
  /\ pc \in [Actors -> Labels]
  /\ op \in [Actors -> RtnlOps \cup PciOps \cup
                       {"none", "reset", "thaw", "rresume", "ioresume"}]

\* Between its test_and_set of __E1000_RESETTING and its clear_bit, an actor is inside
\* a reset.
Resetting(a) ==
  /\ op[a] \in {"reinit", "mtu", "rings", "reset"}
  /\ pc[a] \notin {"idle", "claim", "test"}
  /\ op[a] = "reinit" => pc[a] \notin {"get", "awaken"}

\* Resets exclude each other, whether a user, the watchdog or an error asks for them
\* (the loops on test_and_set_bit, e.g. in e1000e_reinit_locked).
ResetsExclusive ==
  \A a, b \in Actors : Resetting(a) /\ Resetting(b) => a = b

\* No thread, no poll and no DMA touches rings or buffers that have been freed; but an
\* adapter whose receives only a reset stops goes on receiving while a suspend, which
\* makes none, frees the buffers and until it is over or undone (e1000e_down).
RingUsersHaveRings ==
  /\ \A a \in Actors : pc[a] \in {"clean", "swap", "config", "clear", "unmask"} => rings
  /\ napi = "polling" => rings
  /\ rxon => \/ rings /\ posted
             \/ NoDisableRx /\ op["pci"] # "none"

\* While one thread frees the buffers of the rings or replaces the rings, nobody else
\* does and no poll runs.
RingsHandledAlone ==
  \A a \in Actors : pc[a] \in {"clean", "swap"} =>
     /\ napi # "polling"
     /\ \A b \in Actors \ {a} : pc[b] \notin {"clean", "swap", "config", "free"}

\* "The hardware ... needs to be disabled.  A global MAC reset is issued to stop the
\* hardware, and all transmit and receive resources are freed" (e1000e_close): a
\* device that the net core has closed is down, silent and without resources.
ClosedIsQuiet ==
  ~running /\ op["rtnl"] = "none" /\ op["pci"] # "remove" =>
     down /\ ~rings /\ ~irq /\ ~rxon /\ ~ims /\ napi = "off"

\* "Quiesce the device" (e1000e_pm_freeze): nothing wakes the device up while it is
\* asleep.
AsleepIsQuiet ==
  phase \in {"system", "runtime"} /\ op["pci"] = "none" => down /\ ~rxon /\ ~ims

\* A device in use, with no operation under way, is up in every respect.
OpenIsUp ==
  running /\ phase = "awake" /\ present /\ (\A a \in Actors : op[a] = "none") =>
     ~down /\ rings /\ posted /\ irq /\ ims /\ rxon /\ napi # "off"

\* "If the controller has AMT, do not set DRV_LOAD until the interface is up.  For all
\* other cases, let the f/w know that the h/w is now under the control of the driver"
\* (e1000_probe): a driver that uses the device has said so to the firmware.
DriverInControl ==
  running /\ phase = "awake" /\ present /\ (\A a \in Actors : op[a] = "none") => drv

\* e1000e_close "is not allowed to fail": NAPI is not disabled twice, which would
\* wait for ever, nor is an interrupt asked for twice.
NapiAndIrqPaired ==
  \A a \in Actors :
     /\ pc[a] = "napioff" => napi # "off"
     /\ pc[a] = "napion"  => napi = "off"
     /\ pc[a] = "request" => ~irq
     /\ pc[a] = "freeirq" => irq

\* Every call returns: no wait, least of all napi_disable, lasts for ever. (Where
\* reset_task competes for __E1000_RESETTING a call may starve: SomeoneFinishes.)
CallsReturn ==
  "timeout" \notin ops /\ op["rtnl"] # "none" ~> op["rtnl"] = "none"

\* Threads that contend for __E1000_RESETTING may starve each other (they poll it),
\* but never block all of them: some operation keeps coming to its end.
SomeoneFinishes ==
  \/ []<>(\A a \in Actors : op[a] = "none")
  \/ []<><<\E a \in Actors : op[a] # "none" /\ op'[a] = "none">>_vars

\* What the device is outwardly is what it is inside: closed or asleep it is quiet, and in
\* use the firmware has been told so.
StateIsTrue == TypeOK /\ ClosedIsQuiet /\ AsleepIsQuiet /\ DriverInControl

\* Rings, interrupt and NAPI are there for those who use them, one thread at a time, and
\* are taken and given back in pairs.
ResourcesOwned == RingUsersHaveRings /\ RingsHandledAlone /\ NapiAndIrqPaired

\* Calls end: each where nobody competes, some of them where reset_task does.
CallsEnd == CallsReturn /\ SomeoneFinishes

-----------------------------------------------------------------------------
(* What the code says of itself and does not keep to. Each comes with the  *)
(* operations of a set in OpsSets, beyond "open", with which TLC finds the *)
(* counterexample (without faults and with both flags FALSE unless given). *)

\* "The timers may be rescheduled, so explicitly disable them from being rescheduled"
\* (e1000_remove): no timer and no work outlives the adapter.
\* Violated with remove.
NothingOutlivesRemove ==
  phase = "gone" => ~timer /\ works = {} /\ wpc = "idle" /\ pc["reset"] = "idle"

\* "Signal that we're down so the interrupt handler does not reschedule our watchdog
\* timer" (e1000e_down): once the timers have been deleted none runs while down.
\* Violated with close.
DownStopsWatchdog ==
  down /\ (\A a \in Actors : pc[a] \notin {"sync", "timers"}) => ~timer

\* "For AMT version ... this means that the network i/f is open" (DRV_LOAD).
\* Violated at once with HasAMT.
AmtMeansOpen ==
  HasAMT /\ (\A a \in Actors : op[a] = "none") /\ phase = "awake" => (drv => running)

\* WARN_ON(test_bit(__E1000_RESETTING)) after the wait in e1000e_pm_runtime_suspend: a
\* suspend and a call do not wait for each other. Violated with mtu, rsuspend.
NoCrossWait ==
  ~(/\ pc["rtnl"] = "awaken" /\ Resetting("rtnl")
    /\ pc["pci"] = "wait" /\ op["pci"] = "rsuspend")
=============================================================================
