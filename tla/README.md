# A verification project for the e1000e driver

This repository is a collection of notes, scripts and installation recipes. Its one
substantial program is Intel's e1000e Ethernet driver for Linux, kept twice:
`I219-V-driver-no-checksum/e1000e-3.4.2.1` (patched so that an adapter with a bad NVM
checksum still loads) and `z270-ubuntu-network-driver/PRO1000/LINUX/e1000e-3.3.5.3`. The
two differ little; this project models the newer, patched one. Paths below are relative
to `I219-V-driver-no-checksum/e1000e-3.4.2.1/src/`; `netdev.c:1326` is a line there.

Contents: 1 inventory, 2 plan, 3 the modules and how they correspond to the code, 4 runs
and bounds, 5 fairness, 6 proofs, 7 where the code and its comments disagree, 8 what is
only model-checked and what is not modelled.

To check a run: `tlc -config <cfg> <module>` with the pairs of section 4; to check the
proofs: `tlapm TxRingProofs.tla`, and the same for the other `...Proofs` modules.

## 1. Inventory

| Part | State | Operations | Interacts with |
|---|---|---|---|
| Transmit ring (`netdev.c`) | `next_to_use`, `next_to_clean`, `buffer_info[]`, descriptors, TDH/TDT, queue-stopped bit | `e1000_xmit_frame`, `e1000_clean_tx_irq`, `e1000_print_hw_hang`, `e1000_clean_tx_ring` | stack (per-queue lock), NAPI, adapter DMA, watchdog, reset |
| Receive ring (`netdev.c`) | the same for reception, `rx_skb_top` | `e1000_alloc_rx_buffers*`, `e1000_clean_*rx_irq*` | NAPI, adapter DMA, reset |
| Interrupts and NAPI (`netdev.c`) | IMS, ICR, NAPI state | `e1000_intr*`, `e1000_msix_*`, `e1000e_poll`, irq enable and disable | adapter, NAPI |
| Life cycle (`netdev.c`, `ethtool.c`) | `adapter->state` bits DOWN, RESETTING, TESTING; timers; work items; carrier | open, close, up, down, reinit, `reset_task`, watchdog, suspend and resume, error recovery, probe, remove | rtnl, work queue, timers, PCI core |
| NVM on ICH and PCH (`ich8lan.c`, `nvm.c`, `ethtool.c`) | two flash banks, shadow RAM, EECD | read, write, update checksum, validate | flash controller, `nvm_mutex` |
| Hardware and firmware locks (`ich8lan.c`, `82571.c`, `80003es2lan.c`) | EXTCNF_CTRL.SWFLAG, SWSM, SW_FW_SYNC, `swflag_mutex` | acquire, release | management engine, other PCI functions |
| PHY access (`phy.c`, `ich8lan.c`, `80003es2lan.c`) | `hw->phy.addr`, the page the PHY is on, 769.17, addresses written to indirect ports | read and write of ordinary, paged, wakeup, Kumeran, EMI and debug registers | the locks above, firmware |
| PTP and hardware time stamps (`ptp.c`, `netdev.c`) | SYSTIM, `tx_hwtstamp_skb`, TXSTMP, RXSTMP, `ptp_delta`, `hwtstamp_config` | transmit, `e1000e_tx_hwtstamp_work`, ioctl, adjtime, adjfreq, reset | adapter, work queue, watchdog |
| Link and flow control (`mac.c`, `phy.c`, `82571.c`) | `get_link_status`, carrier, MII registers, serdes state, `hw->fc` | check_for_link, `e1000e_config_fc_after_link_up`, serdes machine | link partner |
| Filters (`netdev.c`, `mac.c`, `ich8lan.c`, `82571.c`) | RAR or SHRA, MTA, VFTA, RCTL, `active_vlans`, `mng_vlan_id` | set_rx_mode, VLAN add and kill, set_mac, reset | stack, management engine, watchdog, the other port |
| Interrupt moderation (`netdev.c`) | `itr`, `tx_itr`, `rx_itr`, `total_*` | `e1000_set_itr`, `e1000_update_itr` | NAPI, handlers |
| Power: ULP, wake on LAN, EEE, K1 (`ich8lan.c`, `netdev.c`) | WUC, WUFC, ULP_CONFIG1, CTRL_EXT, `ulp_state` | suspend, resume, link change | management engine, PM core |
| Manageability (`manage.c`) | host interface buffer | `e1000e_mng_write_dhcp_info` | firmware |
| ethtool (`ethtool.c`) | ring sizes, EEPROM, TESTING | set_ringparam, set_eeprom, self-test | life cycle, NVM |
| Parameters (`param.c`) | module options | `e1000e_check_options` | probe |

Everything else in the repository (installation scripts, Jenkins and Docker recipes,
editor settings, spreadsheet macros, prose) is linear or third-party and is listed in
`PROJECT.json` with the reason why it is not modelled.

What is hard to test here, and what each part must guarantee:

- **The transmit ring is shared without a lock** by the CPU that sends, the CPU that
  cleans and the adapter. It is correct if no buffer is freed under DMA, no skb is leaked
  or freed twice, a full ring is not mistaken for an empty one, no stop of the queue
  misses its wake-up, and frames leave in order.
- **The receive ring** hands buffers back in the middle of a poll, and a poll ends by
  turning interrupts on while frames keep coming. It is correct if the adapter only ever
  stores to usable buffers, no frame is left without a poll or an interrupt to find it,
  an adapter that ran dry gets buffers again, and the stack sees whole frames in order.
- **The life cycle** is driven by rtnl, a timer, work items and the PCI core, which hold
  no common lock and meet in three bits. It is correct if resets exclude each other,
  nobody uses freed rings, closed and asleep mean quiet, and no call waits for ever.
- **The NVM** may lose its power between two steps of a commit, and others read meanwhile.
  It is correct if an update happens whole or not at all.
- **The semaphores** are shared with firmware the driver cannot see, and every wait for them
  may time out. They are correct if holders exclude each other and nothing stays set.
- **A PHY register** is reached through an address, a page and an indirect port that are
  state of the PHY or of `hw`, shared by all who access it. Access is correct if each gets
  where it means to, and the wakeup page is closed again after a failure.
- **Time stamps** come late or never, in one register for all frames, while the watchdog
  clears it and a reset restarts the clock. They are correct if a stamp belongs to the
  frame it is given to and the user's frequency and configuration survive a reset.
- **The link** changes between any two of the watchdog's reads of it. It is handled right if a
  loss is never forgotten, both ends agree on pause frames, and the stack learns of it.
- **Sleep** goes through a PHY that may not answer and an engine that works on its own. It is
  correct if what was asked for wakes the device, nothing else, and it works afterwards.
- **The filters** are rewritten by a reset while the stack changes them, and RCTL is read,
  changed and written back by four parties without a lock. They are correct if the adapter
  receives what was asked for last, and nothing while the ring is rebuilt.

`PROJECT.json` lists the hazards one by one, at their lines.

## 2. Plan

In order of importance; a letter is done when its modules are written, checked and, where
it says so, proved about.

| | Modules | Content | State |
|---|---|---|---|
| A | `TxRing`, `TxFifo`, `TxRingFifo`, `MCTxRing`, `TxRingProofs` | transmit ring, implements a frame queue; the refinement, order, gap, ownership of frames, DMA, accounts and last frame's tail proved | done |
| B | `Lifecycle`, `MCLifecycle`, `LifecycleProofs` | who opens, closes, resets, suspends, removes; exclusion of resets proved, that an open device is up, and, for settings without errors, states and resources | done |
| C | `NvmFlash`, `NvmStore`, `MCNvmFlash`, `NvmFlashProofs` | two-bank NVM update, implements an atomic store; the refinement and the durable checksum proved | done |
| D | `RxRing`, `RxStream`, `RxRingStream`, `MCRxRing`, `RxRingProofs` | receive ring, poll and interrupts, implements a stream of frames; the refinement, types, order, ownership and announcement proved | done |
| E | `HwLocks`, `PhyAccess`, `PhyDiscipline`, `MCPhyAccess`, `PhyProofs` | four families of locks and the PHY accesses made under them; exclusion, absence of leaks and that accesses reach what they mean proved | done |
| F | `Ptp`, `MCPtp`, `PtpProofs` | time stamps, frequency, the clocks' arithmetic; ownership of stamps, what a reset restores and the clocks proved | done |
| G | `Link`, `MCLink`, `PhyProofs` | carrier, autonegotiation, flow control, the serdes machines; that a lost link is known and flow control is as asked and negotiated proved | done |
| H | `Filters`, `MCFilters`, `FiltersProofs` | what is received, with and without the management engine; receiver off and on, the station address, and at rest the lists, modes and VLANs, proved | done |
| J | `Power`, `MCPower`, `PowerProofs` | suspend and resume, wake-up, ULP; all its invariants proved | done |
| I | interrupt moderation | `e1000_update_itr`, `e1000_set_itr` | not modelled (section 8) |
| K | manageability | the host interface | not modelled (section 8) |

Composition: `TxRing` and `RxRing` each contain the part of the life cycle that reaches
them (`e1000e_down`, `e1000e_up`); `Lifecycle` abstracts the rings to "allocated", "filled"
and "in use". Composing them in one module would multiply three state spaces for
interactions that are already in each. `PhyAccess` extends `HwLocks`: a step of an access is
a step of the locks or leaves them alone, which is proved (`AccessImplementsLocks`).
`Filters` contains the part of a reset that rewrites the registers, `Ptp` the part that
restores the clock, `Link` the part that advertises again.

Abstract specifications: a frame queue (`TxFifo`), a frame stream (`RxStream`), an atomic
store (`NvmStore`); `HwLocks` is what `PhyAccess` implements.

## 3. The modules and how they correspond to the code

`PROJECT.json` gives the lines of every definition ("map"). Definitions whose names begin
with `Bad` are mistakes that the properties catch ("mutants"); nothing else uses them.

### TxRing: the transmit ring

Four parties, one action for each access to something they share without a lock:

- `e1000_xmit_frame`, one at a time under the queue's lock. `xpc` says where it is:
  `XmitStart` and `XmitDrop` enter it (`e1000_maybe_stop_tx`'s first look at the room),
  "recheck" is the second look after `netif_stop_queue` and the barrier, "map" is
  `e1000_tx_map` (with `XmitMapError`: `dma_error`), "queue" is `e1000_tx_queue`, "room" and
  "reroom" are the stop for the next frame and its second look, "tail" is the tail write
  that `xmit_more` puts off. `batch` remembers that the stack has promised another frame.
- `e1000_clean_tx_irq`, from NAPI. `cpc`: "scan" is the loop with its local `i`, `eop` and
  `count`, "publish" the store to `next_to_clean` with `netdev_completed_queue`, "wake" and
  "waking" the two halves of the wake condition, "hang" the hang check.
- the adapter (`HwTransmit`): from TDH to TDT, writing DD where RS was asked for.
- the watchdog, `e1000_print_hw_hang`, `e1000_tx_timeout` and the reset. `rpc` goes through
  `e1000e_down` ("stop", "drain", "sync", "quiet"), `e1000_clean_tx_ring` ("clean") and
  `e1000e_up` ("start").

`buffer_info[i].next_to_watch` keeps its stale value as in the code, because the cleaner
reads it of an empty ring. `owned`, `mapped` and `bql` are ghosts: what the driver was
given, what is DMA-mapped, what the stack believes in flight. Frame contents, offloads and
the layout of descriptors are left out; a frame is an skb, whether it takes a context
descriptor, and how many data descriptors.

`TxFifo` is the promise: frames are sent and released in the order taken, each released
only after it was sent unless the adapter is halted. It says so without sequences: of each
frame held it keeps the frames before it, and it keeps which were sent. `TxRingFifo` maps the
ring to it: a frame is before another when its slot comes sooner after the cleaner's, and
it was sent when the adapter's head has passed that slot.

### Lifecycle: opening, closing, resetting, sleeping, removing

`pc[a]` and `op[a]` are the program point and the operation of three actors: "rtnl" (user
calls, serialised by `rtnl_lock`), "reset" (`reset_task`) and "pci" (the PCI core). The
watchdog task has `wpc`. The same steps (`Claim`, `Wait`, `Down`, `Sync`, `DelTimers`,
`CleanRings`, `Config`, `ClearDown`, `Unmask`, `Release`, ...) are shared by the
operations as the functions are in the code, with the operation deciding where a step
leads. Operations: open, close, reinit (any call of `e1000e_reinit_locked` under rtnl),
mtu, rings, badset (a refused `e1000_set_settings`), test (the ethtool self-test); freeze
and thaw, runtime suspend and resume, error detection, slot reset and resume, remove; and
timeout, by which the stack or the watchdog queues `reset_task`. `OpsSets` says which of them
are tried together; a behaviour keeps to one of these sets.

Steps are cut at the tests and stores of `__E1000_DOWN`, `__E1000_RESETTING` and
`__E1000_TESTING`, at sleeping calls, and at the two halves of timer and work deletion. The
rings are allocated or not (`rings`), filled or not (`posted`); the adapter may write to
memory or not (`rxon`).

### NvmFlash: the NVM of ICH and PCH

Two banks of `W` words and the shadow RAM. The updating thread runs `e1000_set_eeprom` or
the probe's validation (`SetEeprom`, `Validate`), then
`e1000_update_nvm_checksum_ich8lan`/`_spt`: `UpdateChecksum` (the generic part), `AcquireNvm`
(with the bank detection), `EraseCycle` per sector and attempt, `CopyWords` per word or
dword, `MarkValid`, `InvalidateOld`, `ClearShadow`, `Reload`. Each has a failing
counterpart. A second thread reads (`ReadWant`, `ReadAcquire`, `ReadFetch`, `ReadRelease`)
under `nvm_mutex`. `PowerLoss` may come at any time and is followed by a new probe. Flash
bits only go from one to zero except by erasing (`And`). Of each word the two bits are kept
that hold the signature in word `Sig`; sums are taken modulo 4.

`NvmStore` is the promise: `view` is what reads return, `durable` what they would return
after a power loss; an update makes `durable` equal to `view` in one step or not at all.

### RxRing: the receive ring, the poll, the interrupts

`receiver` selects which of three pairs of functions runs: "legacy"
(`e1000_clean_rx_irq`, `e1000_alloc_rx_buffers`), "ps" (`..._ps`) and "jumbo"
(`e1000_clean_jumbo_rx_irq`, `e1000_alloc_jumbo_rx_buffers`); `irq` which handlers. The
cleaner is `Poll`, `CleanOne` (a turn of the loop), `CleanReturns`, `PollReturns`; the
allocator, called from three places (`caller`), is `AllocOne`, `AllocFails`, `AllocReturns`.
`Interrupt` is the handlers, `Watchdog` the software interrupt, and `GoDown`, `IrqDisable`,
`CleanRing`, `Configure`, `GoUp` the reset. `buffer_info[i]` keeps what decides whether the
adapter can use a slot: an skb, a mapping ("none", "ok" or "bad", the error value that
`dma_map_*` returned), a page, its mapping. `icr` holds "poll" for every cause that starts
a poll. The adapter stores a frame part by part and numbers frames modulo `Ids`.

`RxStream` is the promise: frames go up whole and in order, and only damaged frames, or
those too long for the receiver, are dropped. Its state is the sequence of parts on their way.
`RxRingStream` maps the ring to it: the parts the cleaner has already taken of a frame, which
are chained or tossed and in no slot any more, followed by the slots up to the head.

### HwLocks and PhyAccess: the semaphores and what they guard

`HwLocks` has the four families of locks in one state machine, `family` chosen in `Init`:
`e1000_acquire_swflag_ich8lan` (the bit `__E1000_ACCESS_SHARED_RESOURCE`, then a wait for
SWFLAG to be clear, then for it to be granted), `e1000_get_hw_semaphore_82574`,
`e1000_get_hw_semaphore_82571` (SMBI, then SWESMBI) and `e1000_acquire_swfw_sync_80003es2lan`
with SW_FW_SYNC. Each read or write of a shared register is a step, each wait has a step
for its time-out (`LatchTimesOut` and its like), `fw` is the firmware. `forced` records the
four places where the code goes on without a lock it did not get.

`PhyAccess` extends it. A function of the PHY code is the sequence of accesses it makes
(`SelectPage`, the paged, wakeup, Kumeran, EMI and debug registers of each PHY), built from
`Step` records; `Access` takes one at a time. A failed access ends the sequence except where
the code ignores the error (`depth`). What an access does depends on `phyAddr`, `page`,
`latch` and `wuc` as they are at that moment, which `Aimed` compares with what the code
means.

`PhyDiscipline` says what each of these functions keeps by itself. `Remains` is all that may be
left of it at any of its steps, the ways out of an error included; `Held`, `Addrs`, `Pages`,
`Latches`, `Opened` and `Closing` say what of the lock and the PHY that rest needs; and `Locked`,
`AimsFirst`, `SelectsFirst`, `LatchesFirst`, `OpensFirst`, `ClosesAfter` that it needs only what
the steps before provide, and under the lock. `Orderly` says which functions may then be called
side by side: threads that never change `hw->phy.addr`, or of which one that stores it before
it has the lock is alone with it, and, where the lock has parts (SW_FW_SYNC), threads that
take the same part or need different things of the PHY. What the module assumes of the
functions are statements without variables or constants, which TLC evaluates for every
function in full.

### Ptp: time stamps and the clock

The transmit path takes `slot` (`tx_hwtstamp_skb`) and schedules the work item, whose steps
`WorkStart`, `ReadStamp`, `Convert`, `ClearSlot`, `Tell` follow `e1000e_tx_hwtstamp_work` in the
order of the copy of the driver that `setup.release` names: the older one tells the stack
before it empties the slot. `RxHwtstamp` is the receive side, `Watchdog` what clears a stamp
that is stuck, `UserAdjfreq` and `HwtstampSet` the user's calls, `ResetFreq` to `ResetConfig` the
steps of `e1000e_systim_reset` in a reset, `RemoveCancel` and `RemoveDone` the removal. The
clocks (`BaseClock`, `MaxAdj`) and `CyclecounterRead` are operators; SYSTIM is two halves of 16
values there.

### Link: carrier, negotiation, flow control

On copper the watchdog's turn is a walk through `wpc`: the read of BMSR ("bmsr"), the clearing
of `get_link_status` before or after it, as `mac.c` or `ich8lan.c` has it ("early", "clear",
"late"), the reads of the two advertisements, the write of the modes, the carrier. In between the wire changes
(`up`, `partner`), the link interrupt comes, an ethtool call sets flow control and a reset
advertises again (`spc`). On fiber and serdes the three `check_for_link` functions are single
steps over what the MAC reports (`serdes`, `done`, `noise`).

### Power: suspend, wake-up, ULP

`pc` goes through `__e1000_shutdown` ("status" to "release"), sleep, and the resume ("init" to
"reset"). `mac` and `phy` are the registers that decide what wakes the device and how the two
are connected; `Reach` says when the PHY answers, `PhyReset` and `Toggle` what resets and a loss
of power leave of it. The ME configures ULP when asked, or not; any access may fail once; the
platform asserts PERST#; the user changes what is to wake the system and the address.

### Filters: what the adapter receives

Two threads: the stack's calls, one at a time, and a reset; both run `e1000e_set_rx_mode`,
whose read of RCTL (`ReadModes`), tables (`WriteMta`, `FilterVlans`, `Count`, `WriteEntries`) and write
(`WriteModes`) are steps. A reset goes through `e1000e_down`, `reset_hw`, `init_hw` (`HwReset` to
`InitHw`), the engine's VLAN, and `e1000_configure` (`RestoreVlan`, `SetupRctl`, `ReadRctlAgain`,
`Enable`), possibly with a sleep in between. The watchdog, the link interrupt of the 80003,
the other port of an 82571 and the management engine act at any time. `setup.kind` selects the
register set: RAR, the SHRA of the 82579 or of the I217, with or without a VLAN table. An
entry is an address, a multicast address stands for its bit of the hash table.

## 4. Runs and bounds

Related invariants of a module are checked as one, a conjunction of named parts, and proved
one by one or together: `SkbsAccounted` (`TypeOK`, `SkbOwnership`, `MappingsBalanced`,
`BqlCovers`), `TransmitProceeds` (`QueueRestarts`, `FramesReleased`); `StateIsTrue` (`TypeOK`,
`ClosedIsQuiet`, `AsleepIsQuiet`, `DriverInControl`), `ResourcesOwned` (`RingUsersHaveRings`,
`RingsHandledAlone`, `NapiAndIrqPaired`), `CallsEnd` (`CallsReturn`, `SomeoneFinishes`);
`ImageDurable` (`TypeOK`, `ChecksumDurable`); `LocksSafe` (`Exclusive`, `NothingLeaks`),
`AccessesRight` (`PhyTypeOK`, `AccessesAimed`, `WucRestored`); `LinkKnown`, `FlowControlRight`
and `LinkSettles` in `Link`; `AwakeRight` and `ArmedRight` in `Power`; `StampsSound`, `SettingsKept`,
`ClockTrue` and `StampsServed` in `Ptp`; `FiltersRight`, `ReceiverRight` and `FiltersSettle` in
`Filters`. Each part but the types has a mutant of its own, under which the conjunction fails.

| Run | `tlc -config ... ...` | Shows |
|---|---|---|
| `tx_safety` | `TxRing_safety.cfg MCTxRing` | types, ring order, no buffer freed under DMA, skb ownership, the two-descriptor gap, BQL never too low, mappings balanced, no frame without a tail write, refinement of `TxFifo`; with batches, resets and a lost link at any moment |
| `tx_faults` | `TxRing_faults.cfg MCTxRing` | skb ownership with malformed frames, mapping errors, lost tail writes, false hang reports, timeouts |
| `tx_wakeup` | `TxRing_wakeup.cfg MCTxRing` | a stopped queue is started again and every frame is released, without the stack's watchdog |
| `life_user` | `Lifecycle_user.cfg MCLifecycle` | closed is quiet, asleep is quiet, NAPI and interrupt paired, firmware informed, every call returns; resets exclude each other, rings are handled by one thread at a time, nobody uses freed rings, somebody always finishes |
| `life_recovery` | `Lifecycle_recovery.cfg MCLifecycle` | a device that comes back after errors, failed opens, with removal, comes back whole |
| `nvm_update` | `NvmFlash_update.cfg MCNvmFlash` | a valid bank at every moment, the checksum committed with the data, reads current, refinement of `NvmStore`, readers proceed; through failures and power loss |
| `rx_poll` | `RxRing_poll.cfg MCRxRing` | ring order, usable buffers, no frame unannounced, refinement of `RxStream`, an adapter without buffers gets some |
| `phy_access` | `PhyAccess_phy.cfg MCPhyAccess` | holders of a lock exclude each other, no lock is left behind, accesses reach what they mean, the wakeup page is closed, every call returns |
| `ptp` | `Ptp_ptp.cfg MCPtp` | stamps belong to their frames, settings survive resets, removal is quiet, the slot is freed, a stuck stamp cleared, the clocks' arithmetic |
| `link` | `Link_link.cfg MCLink` | a lost link is never forgotten, both ends agree on pause frames, the user's modes are advertised again, the stack learns of the link, a partner that negotiates is negotiated with |
| `power` | `Power_power.cfg MCPower` | armed for what was asked and nothing else, ULP off when it is held for off, a device that works after every resume, a cable that wakes |
| `filters` | `Filters_filters.cfg MCFilters` | addresses, modes and VLANs asked for last are received, nothing else is, nothing while the ring is rebuilt, and an adapter that is up receives |

Bounds, and why they are enough:

- **TxRing.** `Count` 7 (safety) lets two of the larger frames and the two-descriptor gap fit
  and a third not, so that the ring wraps at every offset and the queue stops; `StopNeed`
  and `WakeThreshold` 5 keep the code's relation (both above the room of one frame, below
  the ring). Two skbs suffice to see one freed for another; `MaxFrames` 4 between two
  resets goes round the ring more than once. `MaxLinkLoss` 1: a second loss finds the ring
  as the first does. 506 149 states; faults (`Count` 8, frames of three descriptors)
  405 268; wake-up (`Count` 6) 34 180.
- **Lifecycle.** No counters. A run names the operations that compete; each may be repeated
  for ever, and every set that the code can get wrong on its own is in a run or in the
  table of section 7. 19 436 and 124 030 states.
- **NvmFlash.** Four words: one of data, the "calculated" bit, the signature, the checksum.
  Two bits a word tell erased, signed, cleared and half-written apart. `Repeat` 2 is one
  retry. 1 453 358 states.
- **RxRing.** `Count` 5 and `Write` 2, so that the batch does not divide the ring (real
  counts are multiples of 8, batches of 16), budget 2, frames of up to 2 parts, one
  failure of any kind: after it every later step sees a degraded ring, and a second would
  find what the first does. `Ids` 2 tells neighbouring frames apart. 484 803 states.
- **PhyAccess.** Two threads with the firmware: what they share is a handful of registers, and
  a third thread finds them as the second does (exclusion is proved for any number). Twelve
  combinations of adapter and calls, so that every function of the map runs against one
  that disturbs it; one failed access.
- **Ptp.** Three frames and three arrivals: one whose stamp is late, one that gets it, one after.
  Up to two resets and two ioctls. Each concern has a setup of its own, in one run.
- **Link.** All eight partners, all four defaults and modes; two changes of the wire beside a turn
  of the watchdog, four on fiber, where a turn is a step; two errors, two bursts of noise.
- **Power.** Five parts (with and without ME, ULP, wake-up in the PHY), what wakes the system in
  three combinations, one failure: a second (2.6 times the states) finds a device already
  excepted. Suspends repeat for ever. 1.9 million states.
- **Filters.** Up to three entries besides RAR[0] and three addresses, so that they fit, do not
  fit, and are cut off by the engine; up to two calls and one reset with up to three faults (what
  it takes to mislay the engine's VLAN) in each of twelve setups, one for each pair of concerns
  that meet. 945 843 states.

Runs with `CHECK_DEADLOCK FALSE` are those in which the system may really stop: TxRing's
bounds on frames exhaust the stack, a removed or dead device, or one without its faults to
come, does nothing any more, and in `Ptp`, `Link`, `Power` and `Filters` the bounds on what the
user and the outside do come to an end.

## 5. Fairness

- **TxRing** (`Fairness`): weak fairness of each handler once entered, of the stack holding a
  frame it announced with `xmit_more` or got back as busy, of polls (the watchdog raises an
  interrupt every two seconds), of the adapter, of the watchdog seeing a link, of queued
  work. None of new frames, of link losses or of `dev_watchdog`: the wake-up is shown not to
  depend on it (`TimeoutSpec` adds it, for other constants).
- **Lifecycle**: weak fairness of each actor's steps, of the end of a poll, of queued work and
  of the wake-up of a suspended device. None of operations beginning. Waits for
  `__E1000_RESETTING` poll a bit, so a thread may miss every moment in which it is clear:
  hence `SomeoneFinishes` (no global stall) in the run where resets compete, and
  `CallsReturn` (each call returns) only where they do not.
- **NvmFlash**: weak fairness of the updating thread, strong fairness of the reader's steps:
  `nvm_mutex` is a sleeping mutex handed over in turn, so a reader is not overtaken for
  ever.
- **RxRing**: weak fairness of the poll with its allocator, of the handlers, of the watchdog
  and of the reset. None of the adapter: frames need not come.

- **PhyAccess** (`PhyFairness`): weak fairness of a thread's next access, strong fairness of
  getting the mutex or the bit, which are handed over in turn, and of a resource that is
  given up each time. The release of the 80003 tries for ever, and returns only if it sees SMBI clear some time and the
  firmware does not outlast its wait again and again; the firmware gives a semaphore back.
- **Ptp** (`PtpFairness`): work that is scheduled runs, resets end, the adapter sends, the poll
  comes, the watchdog comes round, time passes.
- **Link** (`LinkFairness`): interrupts are taken, the watchdog comes round every two seconds,
  calls end, who can negotiate does, noise ends or goes on but is seen.
- **Power**: only that the adapter raises PME for a link change it is armed for and that the
  PM core then resumes the device (`LinkWakes`).
- **Filters** (`FilterFairness`): a call and a reset that have begun go on, the watchdog is armed
  while the device is up. None of calls, resets or faults.

## 6. Proofs

Proved with TLAPS for every value of the constants allowed by the `ASSUME`s.

| Module | Theorem | Under |
|---|---|---|
| `TxRingProofs` | `RingStaysOrdered`: `Spec => []RingOrder` | nothing more |
| | `GapIsKept`: `Spec => []TailKeepsGap` | nothing more |
| | `SkbsHaveOneOwner`: `Spec => []SkbOwnership`, `NothingFreedUnderDma`: `Spec => []AdapterReadsLiveFrames`, `TypeCorrect`: `Spec => []TypeOK` | nothing more |
| | `RingIsFifo`: `Spec => ImplementsFifo` | nothing more |
| | `LastFrameIsSent`: `Spec => []LastFrameTails` | no arbiter work-around, which may lose the write itself; no failing frames in announced batches |
| | `AccountsAgree`: `Spec => []SkbsAccounted` | no mapping fails in the middle of a frame (`FramesMayFail` is FALSE) |
| `RxRingProofs` | `RingStaysOrdered`: `Spec => []RxOrder` | nothing more |
| | `BuffersStayUsable`: `Spec => []AdapterOwnsBuffers` | only the legacy receiver's mappings fail |
| | `NoFrameIsForgotten`: `Spec => []FrameIsAnnounced` | nothing more |
| | `RxTypeCorrect`: `Spec => []TypeOK` | nothing more |
| | `RingIsStream`: `Spec => ImplementsStream` | nothing more |
| `LifecycleProofs` | `ResetsStayExclusive`: `Spec => []ResetsExclusive` | no refused `e1000_set_settings` in any of `OpsSets` |
| | `OpenMeansUp`: `Spec => []OpenIsUp` | neither the open that ends a self-test nor the interrupt request of a thaw fails |
| | `StateStaysTrue`: `Spec => []StateIsTrue`, `ResourcesStayOwned`: `Spec => []ResourcesOwned` | `TameSettings` |
| `NvmFlashProofs` | `UpdateIsAtomic`: `Spec => ImplementsStore` | `Plain` |
| | `BankStaysValid`: `Spec => []SomeBankValid` | `Plain` |
| | `ReadersSeeCurrentBank`: `Spec => []ReadsAreCurrent` | `Plain` |
| | `ImageStaysSummed`: `Spec => []ImageDurable` | `Plain`, and no user writes the signature word |
| `PowerProofs` | `PowerInductive`: `PowerSpec => []IInv`; from it `ResumedDeviceWorks`: `PowerSpec => []AwakeRight`, `ArmedAsAsked`: `PowerSpec => []ArmedRight` | nothing more |
| `PhyProofs` | `LocksExclude`: `LockSpec => []Exclusive`, `LocksDoNotLeak`: `LockSpec => []NothingLeaks`; together `LocksAreSafe`: `LockSpec => []LocksSafe` | nothing more; both speak of `forced = {}` |
| | `AccessImplementsLocks`: `PhySpec => LockSpec`, `AccessesExclude`: `PhySpec => []Exclusive`, `AccessesAreSafe`: `PhySpec => []LocksSafe` | nothing more |
| | `AccessesAreTyped`: `PhySpec => []PhyTypeOK` | nothing more |
| | `AccessesStayRight`: `PhySpec /\ Orderly(family, calls) => []AccessesRight` | the discipline of each function, which TLC evaluates (`PhyDiscipline`) |
| | `LinkInductive`: `LinkSpec => []LinkInv`; from it `LinkStaysKnown`: `LinkSpec => []LinkKnown`, `FlowControlStaysRight`: `LinkSpec => []FlowControlRight` | nothing more |
| `PtpProofs` | `StampsAreOwn`, `RxStampsAreOwn`, `SlotIsFreeInTime`, `ConfigIsKept`, `RemovedStaysQuiet`; `StampsStaySound`: `PtpSpec => []StampsSound`; `SystimIsReadTrue`: `PtpSpec => []SystimReadsTrue` | nothing more |
| | `FrequencyIsKept`: `PtpSpec => []FrequencyKept`, `SettingsStayKept`: `PtpSpec => []SettingsKept` | nobody slows the clock down |
| | `ClockStaysTrue`: `PtpSpec => []ClockTrue` | no 38.4 MHz clock among the adapters |
| `FiltersProofs` | `ReceiverStaysOff`: `FilterSpec => []ReceiverOff`, `ReceiverIsOn`: `FilterSpec => []ReceiverOn`, `StationIsHeard`: `FilterSpec => []StationHeard`; together `ReceiverStaysRight`: `FilterSpec => []ReceiverRight` | nothing more |
| | `FiltersStayTyped`, `AddressesAreHeard`, `NothingElseIsHeard`, `VlansAreRestored`, `MngVlanIsHeard`; together `FiltersStayRight`: `FilterSpec => []FiltersRight` | nothing more |

The conditions are the ones without which TLC finds a counterexample (section 7): `Plain`
is one hardware sector per bank, no erasure refused until the retries run out, no failing
read of a signature, and not ICH8/ICH9; `TameSettings` is described below.

- **TxRing.** The order alone is not inductive: the cleaner follows `next_to_watch`, which may
  be stale. The invariant `IInv` adds that a done descriptor lies behind the head
  (`DoneBehindHead`), that a frame being mapped fits in the room looked up earlier
  (`RoomForFrame`, `FrameFits`, the room having only grown since), and that the reset works
  alone (`ResetAlone`). The gap is a conjunct of it. `OwnInv` cuts the stretch from the
  cleaner to `next_to_use` into frames: each ends in the one slot that holds its skb and asks
  for its status, and the frame in the stack's hands is beyond the tail. From this an skb has
  one owner, and what the adapter may still fetch ends in an skb the driver holds. `BqlInv`
  and `MapsInv` count: the skbs in the ring against what the queue limits were told, the
  mappings against the slots that record one. `TailInv` says who will still write the tail
  when it lags. The refinement rests on `OwnInv`: slots and frames match one to one, so the
  frames before another are found by distance from the cleaner, and each action moves one of
  the three ends of the queue (`XmitStepFifo`, `CleanStepFifo`, `OtherStepFifo`). Of the adapter
  it needs that a reset that has halted it keeps it halted (`OffWhenHalted`).
- **RxRing.** `Order` is the order, who can be where (`Control`: a poll only under
  NAPI_STATE_SCHED, which excludes unmasked interrupts, and never during the reset's work
  on the ring), and the room for what is still to be filled (`Room`): the slots cleaned
  but not yet given back plus those in use are never the whole ring. `Buffers` adds that
  every slot up to `next_to_use`, not just up to the tail, is usable. `Announced` adds that a
  frame found in the ring after the poll's last look, or while the device comes up, has
  left its cause in ICR, and that interrupts of a running device are masked only for a
  poll or a reset. The lemmas on `Dist` and `Region` (growing and shrinking a stretch of
  the ring at either end) carry the arithmetic. `RestTypes` adds to `Order` what the types
  need of the poll's counters and the frame being put together. For the refinement
  `StreamInv` says that the parts in the ring follow each other up to the one the adapter is
  in the middle of, and what the driver remembers of the parts taken before: the jumbo
  receiver's chain is just those parts, and `FLAG2_IS_DISCARDING` says whether there are any.
  Storing then appends a part, a turn of the cleaner takes none away or the whole of the
  oldest frame (`CleanMoves`), and `e1000_clean_rx_ring` empties a stream that is halted.
- **Lifecycle.** `Inv` says which operations can reach which program points (`Route`) and that
  whoever is between `test_and_set_bit` and `clear_bit` finds the bit set, and is alone.

  For `OpenMeansUp` nothing is assumed of who competes with whom. A device in use from which
  something is missing must have a thread that is about to provide it: `DownExcused`,
  `RxExcused` and `MaskExcused` say so of the DOWN bit, of receiving and of the interrupt mask,
  `OwnInv` of rings, NAPI and the interrupt. The excuse is where a thread stands (`Commits`,
  `ToClear`, `ToConfig`), so every step is either on such a thread's way or leaves it there.
  `PlaceInv` (which operation may be at which point, `Place`) and `PmInv` (what the PCI core has
  under way in which phase) hold in all settings.

  `StateIsTrue` and `ResourcesOwned` do not hold for every set of operations: section 7 gives
  the counterexamples with a bus error, a removal, or `reset_task` beside a close, a self-test
  or a suspend. `Tame` names the others: users' calls of all kinds with suspends and resumes,
  or openings and users' resets with `reset_task`. There, `LevelInv` says, one thread at a time
  is at work on the device; at each of its program points it is in the state `At` gives, and
  with nobody at work at `Rest`: shut, up, or halted for a sleep. `TameInv` says what happens in
  none of these behaviours and that a reset is asked for only of a device in use, `DrvInv`
  when the firmware has been told. `Ctx` is all of it, and inductive.
- **NvmFlash.** `IInv` follows the update (`Progress`): until the new signature is there the
  other bank holds the first words of the new image and the rest erased, and from then on
  either bank would do. The refinement maps every step to one of `NvmStore` or a stutter.
  `LoopInv` bounds the counters for the types. `SumInv` says that every bank that would be
  found adds up, and so does the image an update is about to write; the model adds
  two-bit words by counting those with either bit set, and `SumCompletes` that the word
  `e1000e_update_nvm_checksum_generic` computes completes such a sum is a fact of cardinalities.
- **HwLocks.** `FlagInv`, `SemInv` and `SyncInv` say for each family which bit stands for which
  thread, at every program point, and that whoever writes SW_FW_SYNC back has read it
  since the firmware could change it. Exclusion of accesses follows from the refinement.
- **PhyAccess.** That an access reaches what it means is a matter of one thread's steps and of what
  others may do between them. The first part is about concrete sequences, and assumed: it is
  `PhyDiscipline`, evaluated in full. The second is proved. `PhyInv` says that what is left of
  a thread's function is one of its `Remains` and agrees with the thread's program point
  (`LeftInv`, `PcInv`), and that, as long as no code has gone on without a lock and no error has
  broken a sequence, whatever this rest needs is so: address, page, latched port, open wakeup
  page (`NeedsInv`), 769.17 and what was saved of it (`WucInv`). A thread's own step keeps its
  needs by the discipline (`OwnMet`), another's because either the two exclude each other
  (`Excluded`, from the locks' invariant) or what it touches is not needed (`OthersMet`,
  `AccessApart`). `Orderly` leaves out two sets of threads the code has: those of section 7 that
  store `hw->phy.addr` outside the lock beside others (`MCUnlocked`), and both ports of an
  80003ES2LAN (`Ports80003`), which take different parts of SW_FW_SYNC for two PHYs where the
  model has one. TLC checks the latter like the rest.
- **Ptp.** A part of the invariant for each concern, `OwnTx`, `OwnRx`, `Rates`, `Configs`, `Quiet`,
  `Untold`, each kept by every step given the types. `OwnTx` says that stamp register, ring and
  work item all stand for the frame in the slot, and on which clock; `OwnRx` that frames lie
  in the ring in their order and the register is of each that may still claim it. That the two
  halves of SYSTIM are read consistently is a matter of carries (`HalvesCarryOnce`), at the
  widths and waits `SystimReadsTrue` states, from any value of SYSTIM. Increments and intervals
  are a matter of four clocks, none of which ever changes (`ClocksFit`).
- **Link.** `LossInv` says, at every program point of the watchdog's turn on copper, which trace a
  change of the wire has left: `get_link_status`, a cause in ICR, a status still to be looked
  at, or the driver being down. `ResetInv` keeps a reset alone and the carrier off, unless it ran
  beside the watchdog (`beside`). `AskedInv` says what became of the modes last asked for, at each
  point of a reset or an ethtool call, `ResolvedInv` what the watchdog has read of the two
  advertisements and what the MAC was told; that both ends then agree (`EndsAgree`) is a fact of
  the table of pause bits. `SerdesInv` says in which states the serdes machine negotiates.
- **Power.** `IInv` gives every thing a suspend may leave in MAC, PHY and engine - a PHY in ULP
  (`UlpInv`), forced SMBus mode (`SmbInv`), the engine's asynchronous answer (`MeInv`), wake-up
  registers (`ArmInv`) - the program points of suspend and resume at which it may be there.
  `AwakeInv` says what a resume has undone by the time the device runs, which is what the next
  suspend relies on. Each part is weakened by exactly the failures the property excuses.
- **Filters.** `ReceiverInv` says what each thread's local copy of RCTL knows of the receiver's bit:
  the stack holds it as it is or will find its copy stale, the reset holds it off. `StationInv`
  says where the address is between the steps of a reset and of `e1000_set_mac`, and that no
  list reaches the 82571's last entry. For what is received at rest, `CallsInv` follows the two
  calls of `e1000e_set_rx_mode` that can be under way: what the stack's has found so far
  (`StackInv`; its lists cannot change meanwhile), what a reset's has, unless the stack has called
  since (`ResetInv`), and, when both are under way, that what one undoes of the other's a mode
  makes good, or the ghost will name it (`MeetInv`). `ModesInv` is what then holds of RCTL,
  entries and table. `RarInv` says what each entry may hold, `StationClean` the same of the
  driver's own; `VlanInv` that what the engine takes or gives up was never the stack's, `MngInv`
  where the engine's VLAN is. Most steps are of two kinds that disturb no call, those that leave
  lists and modes alone (`Quiet`) and those of a reset before its call (`EarlyStep`). That the
  n-th address of a list exists and is one of its own (`Numbered`) is a fact of cardinalities.

Only model-checked: everything under fairness (`QueueRestarts`, `FramesReleased`, `CallsReturn`,
`SomeoneFinishes`, `ReadersProceed`, `BuffersReturn`, `SlotFreed`, `RxUnstuck`, `CarrierSettles`,
`Negotiates`, `CableWakes`, `StationSettles`, `ReceiverSettles`), which is beyond the prover. What
is computed over a function's sequence of accesses would need induction over data: it is
evaluated, as the assumptions of `PhyDiscipline`. Where the code violates an invariant in some
settings, the theorem names those in which it holds, and section 7 gives the others.

## 7. Where the code and its comments disagree

All of these are seen by changing constants of the configurations in section 4, or by taking
an exception out of a property, and TLC then finds the sequence of steps. Properties are
named by their parts; put the part in the configuration where it stands in a conjunction. In `Lifecycle`, with
"open" and those given as the set in `OpsSets`:

| Operations and other constants | Property violated | Where |
|---|---|---|
| timeout, close | `ClosedIsQuiet`: `reset_task` tests DOWN, a close runs, the reset goes on with freed rings, though "all transmit and receive resources are freed" (`netdev.c:5229`) | `netdev.c:6643-6646` |
| remove | `NothingOutlivesRemove`: the timer is deleted before the work that arms it is cancelled, though "explicitly disable them from being rescheduled" (`netdev.c:8498`) | `netdev.c:8503` |
| freeze, timeout | `AsleepIsQuiet` | `netdev.c:6646` against 7081 |
| close, error | `ClosedIsQuiet` (the interrupt is not freed) | `netdev.c:5248` |
| error | `RingUsersHaveRings`, `RingsHandledAlone` | `netdev.c:7752` |
| close | `DownStopsWatchdog` | `netdev.c:6039` against 4754 |
| reinit, badset, timeout | `ResetsExclusive` (a refused setting clears RESETTING, held by another) | `ethtool.c:379` |
| mtu, rsuspend | `NoCrossWait` | `netdev.c:6779` against the WARN_ON at 7553 |
| close, test, `Faults` reopen | `NapiAndIrqPaired` | `ethtool.c:2029` |
| `Faults` irq | `DriverInControl`, `RingUsersHaveRings` | `netdev.c:5210-5212` |
| `HasAMT` | `AmtMeansOpen` | `netdev.c:4590` against 8429 |
| freeze, `NoDisableRx` | `RingUsersHaveRings` | `netdev.c:4765-4767` |
| freeze, `Faults` thaw | `NapiAndIrqPaired` | resume goes on after a failed request of the interrupt |

In the other modules:

| Constants | Property violated | Where |
|---|---|---|
| `TxRing_safety.cfg` with `Count` 8, `WakeThreshold` 6, `StopNeed` 4, `Shapes <- MCLarge`, `FramesMayFail`, `MaxFrames` 5 | `FlushFindsTailAtUse`: a batch's last frame is dropped without a tail write, against the `BUG_ON` of `netdev.c:4291` | `netdev.c:6445` and the other returns of `e1000_xmit_frame` |
| `TxRing_faults.cfg` | `MappingsBalanced`: an error in the middle of a frame leaves its first buffer mapped | `netdev.c:6269` |
| `TxRing`, a `StopNeed` below the need of the largest of `Shapes`, as in the code | `SpaceForNextSend`: room for MAX_SKB_FRAGS + 2 is kept, and a frame may need more | `netdev.c:6590` |
| `TxRing_wakeup.cfg` with `XmitMore`, `Count` 7, `WakeThreshold` and `StopNeed` 5 and `MCShapes` | `QueueRestarts`, `FramesReleased`: the next frame of a batch is refused, the frames before it have no tail write, and nothing is left for the cleaner to wake the queue for; only `dev_watchdog` helps (both hold under `TimeoutSpec`) | `netdev.c:6512`, 6596 |
| `NvmFlash`, `Sectors` 4 | `EraseCoversBank`: a sector's offset is added to an address that already moved, and again at each retry, though the comment says "bank * 4096 + n * 256" (`ich8lan.c:4409`) | `ich8lan.c:4474` |
| `NvmFlash`, `Faults` stuck | `EraseCoversBank`: retries used up count as success | `ich8lan.c:4491-4494` |
| `NvmFlash`, `Faults` detect | `SomeBankValid`, `ImplementsStore`: a failed read of the signature is taken for bank 0 | `ich8lan.c:3791`, 3958 |
| `NvmFlash`, `Macs` ich9 | `ReadsAreCurrent`, `ImplementsStore`: `nvm_mutex` is released before EECD is reloaded | `ich8lan.c:4060` against 4066 |
| `NvmFlash`, `UserWords` past the checksum | `SetEepromFlushes` | `ethtool.c:779-786` |
| `NvmFlash`, `UserWords` with `Sig` | `ChecksumDurable` | `ethtool.c:779` |
| `RxRing`, `MapFails` jumbo or ps | `AdapterOwnsBuffers`: a failed mapping's error value is taken for a mapping the next time | `netdev.c:934`, 812 |
| `RxRing`, `MeLosses` lost | `BuffersReturn`: nothing is read back when the wait for the ME timed out | `netdev.c:664` |
| `RxRing`, `Opens` | `BuffersReturn`: a reset asked for while the device opens is ignored | `netdev.c:669`, 6643 |
| `PhyAccess`, `Setups <- MCUnlocked` | `AccessesAimed`: `hw->phy.addr` is stored before the lock is taken; "Acquires semaphore, if necessary, then reads the PHY register" (`phy.c:2734`) | `phy.c:2744` |
| `Ptp`, `PtpSetups <- MCSlower` | `FrequencyKept`: a negative `delta` is stored as its magnitude, and the next reset ("restore the previous ptp frequency delta") speeds the clock up | `ptp.c:63` against `netdev.c:4397` |
| `Ptp`, `MCMacs` with `<<"pch_cnp", FALSE>>` (38.4 MHz) | `RateFits`, `ReadsInTime` | `e1000.h:417-419` |
| `Ptp`, `sending` without the exception in `RemovedIsQuiet` | a frame sent between `cancel_work_sync` and `unregister_netdev` starts the work again | `netdev.c:8517-8525` |

Exceptions that a property makes for what the code does (ghost variables record them):

| Where | What happens | Property, exception |
|---|---|---|
| `netdev.c:1293`, 1265 | a stamp that comes after its time-out is given to the next frame; one that a reset or an ioctl clears leaves its frame without | `StampIsOwn`, `exempt` |
| `netdev.c:6028`, 536 | the watchdog clears a stamp whose frame is still in the ring, and a later frame's is then taken for it | `RxStampIsOwn`, `exempt` |
| `netdev.c:4396-4414` | a setting the user makes during a reset is lost; without a clock (SPT without SYSCFI) neither time nor configuration is restored | `FrequencyKept`, `ConfigKept`, `crossed` |
| `mac.c:421`, `ich8lan.c:1582` | an interrupt between the reading of the status and `get_link_status = false` is lost, against `mac.c:402-405` | `LinkLossKnown`, `CarrierSettles`, `lost` |
| `mac.c:1040` | a PHY that does not answer after the flag is cleared leaves the flow control of the partner before | `PauseAgrees`, `erred` |
| `ethtool.c:434` | flow control set with autonegotiation off is forced into the MAC and not advertised | `AdvertisedAsAsked` and the others, `imposed` |
| `netdev.c:4754` | `e1000e_down` does not wait for the watchdog's work, which goes on beside the reset | `FcAsAsked`, `CarrierTransmits`, `beside` |
| `82571.c:1637`, 1500 | invalid codes restart negotiation with CTRL_SLU on | `CompleteIsNegotiated`, `dirty` |
| `netdev.c:7110`, 7099 | a runtime suspend with the link back after the idle check ends asleep with nothing armed | `WakeAsAsked`, `linkWas` |
| `netdev.c:7469-7470` | a failed system suspend is undone only by a thaw; in the older copy (7458-7465) not even so | `DeviceWorks`, `ill` |
| `ich8lan.c:288`, `netdev.c:6978` | failures of `disable_ulp` and of `copy_rx_addrs` are ignored; after the first, the next suspend still takes the PHY for out of ULP | `DeviceWorks`, `WakeAsAsked`, `UlpCanWake`, `ill` |
| `ich8lan.c:1279` | ULP_CFG_DONE clear is taken for "undone" when the engine has not begun yet | `UlpStateTrue`, `ill` |
| `netdev.c:7156` | a suspend that wakes for nothing leaves the PHY's wake-up registers, which a blocked reset leaves set | `WakeAsAsked`, `ill` |
| `netdev.c:3851`, 5723 | RCTL is read, changed and written back by four parties without a lock, and changes are lost | most of `Filters`, `lost` |
| `netdev.c:3803` against 3781 | a reset, which does not take the stack's address lock, counts the entries before it writes the list; a list that grows in between is cut short with no mode set | `AddressesHeard`, `lost` |
| `netdev.c:3160-3164` | when the cookie names no VLAN any more the old one is killed, but kept in `mng_vlan_id`; when the cookie names it again, it passes for programmed and stays out of the table | `MngVlanHeard`, `lost` |
| `mac.c:120`, `netdev.c:5322-5336` | `init_rx_addrs` and `e1000_set_mac` race; a reset of the other port in the middle of `set_mac` wipes RAR[0] | `StationHeard`, `lost` |
| `netdev.c:3157-3161` | a change of the engine's VLAN kills the old one although the host registered it | `VlansRestored`, `managed` |
| `netdev.c:3061`, 3015 | promiscuous mode with the engine's VLAN in the cookie, or the host killing that VLAN, gives the hardware's control back while the device is up | `VlansRestored`, `torn` |

Found while modelling and without a property:

- VFE never takes effect: `e1000e_set_rx_mode` reads RCTL into a local before it calls
  `e1000e_vlan_filter_enable` or `_disable`, and overwrites what they wrote
  (`netdev.c:3851`, 3895; comments at 3074 and 3861). Only an overlap of calls can leave it on.
- On the 82579 the loop that zeroes RAR (`netdev.c:3822-3825`) writes RAR[1..4], which are the
  engine's (`ich8lan.c:1863`), and leaves stale addresses in SHRA.
- `e1000_rar_set_pch2lan` and `_pch_lpt` take `swflag_mutex`, which sleeps, under the stack's
  address spinlock.
- The 82571's VFTA loses the engine's VLAN at a reset, because `e1000_vlan_rx_add_vid` returns
  early for it (`netdev.c:2950-2953`).
- The comment of `e1000e_check_for_copper_link` (`mac.c:440-444`) speaks of a configuration the
  code does not make; generic serdes reports a lost link only at the watchdog's third turn;
  the comment of `ich8lan.c:1249` describes a call of `e1000_disable_ulp_lpt_lp` that nobody makes.

This copy of the driver also removes the checksum's validation (`nvm.c:547-550` returns
success at once), which its comment still describes; `Validate` models the code as it is.

## 8. Abstractions, and what is not modelled

Assumptions the models make of what surrounds the code:

- The sleep in `e1000e_down` outlasts a transmission under way and a poll that has read DOWN
  clear but not yet unmasked interrupts (`netdev.c:2921`). No poll starts after
  `e1000_irq_disable`.
- Waits for `__E1000_RESETTING` go on until it is clear; their 50 rounds never run out.
- The power fails between two flash cycles, not in the middle of one; a two-byte program
  cycle, and a sector's erasure, happen whole; the retries of a program cycle are one
  failure, which may have had its effect. `e1000_set_eeprom` runs under rtnl, so its
  checksum loop, which nobody can disturb, is one step.
- The transmit side of a poll is, to `RxRing`, a choice whether it wants another round.
- SYSTIMH is latched at most one increment after SYSTIML is read; an autonegotiation takes
  longer to restart than the wait of `e1000e_phy_has_link_generic` for a status.
- The stack makes one call of the filters at a time; the reads and writes of one register next to
  one another in a function are one step, except for RCTL; a cookie without STATUS_VLAN carries
  no VLAN number; a multicast address stands for its hash bit.

Left out of the modules: offload contexts and frame contents, byte and packet counters,
VLAN tags, the runt and `pskb_may_pull` paths of reception, RXALL,
FLAG_RX_NEEDS_RESTART on the receive side, and the receive ring on adapters that cannot
disable it (their part is in `Lifecycle`); the PHY-information timer, the downshift and
hang-print tasks in `Lifecycle`, the MSI self-test, and the partial failure of
`e1000_request_msix` (`netdev.c:2352`).

Of the partly modelled components `PROJECT.json` ("components") says which operations are
missing; most are paths of probing and of families of adapters that only program other
registers. The LPI control at suspend (`netdev.c:7182-7200`), which gives `hw->phy` back even
if it could not be acquired, is one of them.

Not modelled:

- Interrupt moderation: what a lost or doubled count of packets changes is the interrupt rate
  of the next interval, and nothing else reads it.
- The manageability host interface: a command written by the transmit path alone, under the
  queue's lock, when the firmware has asked to see DHCP frames.
- Register access and PHY programming tables (sequences of writes whose effect is in hardware
  this project does not know), parameter parsing, kernel-compatibility code (`kcompat*`).
- The older copy of the driver (e1000e 3.3.5.3), which differs from the newer in few lines. Where
  one of them matters the model has both (the order of the time stamp work, `Ptp`) or
  section 7 says so; mapping its lines a second time would show nothing.
- Everything in the repository that is not the driver.

Liveness, sums over data and recursion stay with TLC, as section 6 says.
