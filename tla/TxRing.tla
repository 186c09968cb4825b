------------------------------- MODULE TxRing -------------------------------
(***************************************************************************)
(* The transmit path of e1000e (netdev.c): the descriptor ring shared by   *)
(*   - e1000_xmit_frame, called by the stack under the queue's lock,       *)
(*   - e1000_clean_tx_irq, called from NAPI on another CPU,                *)
(*   - the adapter, which fetches from head to tail and reports status,    *)
(*   - the watchdog, the hang check and the reset task.                    *)
(* The cleaner and the transmitter share no lock: they meet only in        *)
(* next_to_use, next_to_clean, buffer_info[i].next_to_watch and the        *)
(* queue's stopped bit, so each access to one of those is a step.          *)
(***************************************************************************)
EXTENDS Integers, FiniteSets

CONSTANTS
  Count,          \* ring->count, the number of descriptors
  WakeThreshold,  \* TX_WAKE_THRESHOLD
  StopNeed,       \* the room e1000_xmit_frame wants left for the next frame
  Shapes,         \* shapes <<ctx, n>> of the frames the stack submits: context
                  \*   descriptors (0 or 1) and data descriptors (1 or more)
  Skbs,           \* socket buffers
  NoSkb,          \* a NULL skb pointer
  FramesMayFail,  \* whether a frame may be malformed or fail to be DMA-mapped
  ArbiterWA,      \* FLAG2_PCIM2PCI_ARBITER_WA: the ME may lose a tail write
  DmaBurst,       \* FLAG2_DMA_BURST
  XmitMore,       \* whether the stack ever sets skb->xmit_more
  RxNeedsRestart, \* FLAG_RX_NEEDS_RESTART: a lost link always asks for a reset
  SlowFrames,     \* whether a frame may stay in the ring past tx_timeout_factor
  MaxLinkLoss,    \* bound: how often the link may go down
  MaxFrames       \* bound: frames queued between two resets

ASSUME RingAssumption ==
  /\ Count \in Nat /\ Count >= 4
  /\ WakeThreshold \in 1..(Count - 1)
  /\ StopNeed \in 1..(Count - 1)
  /\ Shapes \subseteq {0, 1} \X (1..Count)
  /\ \A sh \in Shapes : sh[1] + sh[2] + 3 < Count
  /\ NoSkb \notin Skbs
  /\ {FramesMayFail, XmitMore, RxNeedsRestart, ArbiterWA, DmaBurst, SlowFrames} \subseteq BOOLEAN
  /\ MaxLinkLoss \in Nat /\ MaxFrames \in Nat

VARIABLES
  next_to_use, next_to_clean,
  buffer_info,     \* per slot: skb, dma mapped, next_to_watch, time_stamp set
  desc,            \* per slot: RS requested, DD reported by the adapter
  tdh, tdt, txen,  \* TDH, TDT and TCTL.EN
  stopped,         \* the queue's __QUEUE_STATE_DRV_XOFF
  down,            \* __E1000_DOWN
  carrier,         \* netif_carrier_ok
  xpc, frame,      \* e1000_xmit_frame: program point and frame
  batch,           \* the stack holds a frame it announced, or got back as busy
  cpc, ci, ceop, ccount, cbql, \* e1000_clean_tx_irq: program point and locals
  detect_tx_hung, tx_hang_recheck, print_hang, \* hang detection
  rpc, reset_task, \* e1000e_reinit_locked: program point; reset_task pending
  owned,           \* skbs handed to the driver and not yet freed or returned
  mapped,          \* DMA mappings made and not undone
  bql,             \* netdev_sent_queue minus netdev_completed_queue, in frames
  linkLoss, sent   \* link losses so far; frames queued since the last reset

ring   == <<next_to_use, next_to_clean, buffer_info, desc>>
hw     == <<tdh, tdt, txen>>
xmit   == <<xpc, frame, batch>>
clean  == <<cpc, ci, ceop, ccount, cbql>>
hang   == <<detect_tx_hung, tx_hang_recheck, print_hang>>
reset  == <<rpc, reset_task>>
ghosts == <<owned, mapped, bql>>
bounds == <<linkLoss, sent>>
vars   == <<ring, hw, stopped, down, carrier, xmit, clean, hang, reset,
            ghosts, bounds>>

Slots == 0..(Count - 1)

\* Definitions named Bad... are mutated forms of the definition they precede: the
\* mistakes that the properties at the end would catch. Nothing else uses them.

\* The slot k places after slot i (the code's "i++; if (i == count) i = 0").
Fwd(i, k) == IF i + k >= Count THEN i + k - Count ELSE i + k

\* How many places slot b is after slot a, going forward.
Dist(a, b) == IF b >= a THEN b - a ELSE b - a + Count

\* The slots from a on to the one before b.
Region(a, b) == {i \in Slots : Dist(a, i) < Dist(a, b)}

\* e1000_desc_unused
Unused(clean_idx, use_idx) ==
  IF clean_idx > use_idx THEN clean_idx - use_idx - 1
                         ELSE Count + clean_idx - use_idx - 1

NoDesc     == [rs |-> FALSE, dd |-> FALSE]
FreeBuffer == [skb |-> NoSkb, dma |-> FALSE, watch |-> 0, stamp |-> FALSE]
NoFrame    == [skb |-> NoSkb, ctx |-> 0, n |-> 0]

BadPutTxbuf(b) == [b EXCEPT !.dma = FALSE, !.stamp = FALSE]
BadUnmap(b)    == [b EXCEPT !.skb = NoSkb, !.stamp = FALSE]

\* e1000_put_txbuf: unmap, free the skb, clear the time stamp; the stale
\* next_to_watch stays.
PutTxbuf(b) == [b EXCEPT !.skb = NoSkb, !.dma = FALSE, !.stamp = FALSE]

\* The DMA mappings that freeing a set of slots undoes.
MappedIn(S) == Cardinality({i \in S : buffer_info[i].dma})

Init ==
  /\ next_to_use = 0 /\ next_to_clean = 0
  /\ buffer_info = [i \in Slots |-> FreeBuffer]
  /\ desc = [i \in Slots |-> NoDesc]
  /\ tdh = 0 /\ tdt = 0 /\ txen = FALSE
  /\ stopped = FALSE /\ down = FALSE /\ carrier = FALSE
  /\ xpc = "idle" /\ frame = NoFrame /\ batch = FALSE
  /\ cpc = "idle" /\ ci = 0 /\ ceop = 0 /\ ccount = 0 /\ cbql = 0
  /\ detect_tx_hung = FALSE /\ tx_hang_recheck = FALSE /\ print_hang = FALSE
  /\ rpc = "run" /\ reset_task = FALSE
  /\ owned = {} /\ mapped = 0 /\ bql = 0
  /\ linkLoss = 0 /\ sent = 0

-----------------------------------------------------------------------------
(* Writing the tail register. Where the arbiter work-around is needed the  *)
(* ME may lose the write: one that reads back wrong disables the           *)
(* transmitter and schedules a reset, but nothing is read back when the    *)
(* wait for the ME has timed out.                                          *)
UpdateTail(i) ==
  \/ /\ tdt' = i
     /\ UNCHANGED <<txen, reset_task>>
  \/ /\ ArbiterWA
     /\ \/ txen' = FALSE /\ reset_task' = TRUE
        \/ UNCHANGED <<txen, reset_task>>
     /\ UNCHANGED tdt

-----------------------------------------------------------------------------
(* e1000_xmit_frame.  The stack calls it only while the queue is awake.    *)

BadNeedFor(sh) == sh[1] + sh[2]

\* count + 2, where count always has one descriptor to spare.
NeedFor(sh) == sh[1] + sh[2] + 3
Need        == NeedFor(<<frame.ctx, frame.n>>)

\* Whether the stack announces another frame (it has one at hand then).
More ==
  IF XmitMore /\ sent < MaxFrames /\ owned # Skbs THEN BOOLEAN ELSE {FALSE}

\* A frame that meets a device going down, or is malformed, is freed at once;
\* the tail is not written even if it ends a batch.
XmitDrop ==
  /\ xpc = "idle" /\ ~stopped /\ (down \/ FramesMayFail)
  /\ batch' \in More
  /\ UNCHANGED <<ring, hw, stopped, down, carrier, xpc, frame, clean, hang,
                 reset, ghosts, bounds>>

\* The DOWN check and the first look at the room in e1000_maybe_stop_tx.
XmitStart(s, sh) ==
  /\ xpc = "idle" /\ ~stopped /\ ~down /\ s \notin owned /\ sent < MaxFrames
  /\ frame' = [skb |-> s, ctx |-> sh[1], n |-> sh[2]]
  /\ owned' = owned \cup {s}
  /\ IF Unused(next_to_clean, next_to_use) >= NeedFor(sh)
       THEN xpc' = "map" /\ UNCHANGED stopped
       ELSE xpc' = "recheck" /\ stopped' = TRUE
  /\ UNCHANGED <<ring, hw, down, carrier, batch, clean, hang, reset, mapped,
                 bql, bounds>>

\* __e1000_maybe_stop_tx after the barrier: still no room, the frame goes back
\* to the stack with NETDEV_TX_BUSY and will be sent again; or a reprieve.
XmitRecheck ==
  /\ xpc = "recheck"
  /\ IF Unused(next_to_clean, next_to_use) < Need
       THEN /\ xpc' = "idle" /\ frame' = NoFrame /\ batch' = TRUE
            /\ owned' = owned \ {frame.skb}
            /\ UNCHANGED stopped
       ELSE /\ xpc' = "map" /\ stopped' = FALSE
            /\ UNCHANGED <<frame, batch, owned>>
  /\ UNCHANGED <<ring, hw, down, carrier, clean, hang, reset, mapped, bql,
                 bounds>>

\* The slots a frame takes: the context descriptor, then the data.
First    == next_to_use
DataFrom == Fwd(First, frame.ctx)
LastSlot == Fwd(DataFrom, frame.n - 1)

\* A slot written by e1000_tso or e1000_tx_csum (no mapping) or by e1000_tx_map.
TouchedCtx(b, i)  == [b EXCEPT !.stamp = TRUE, !.watch = i]
TouchedData(b, i) == [b EXCEPT !.stamp = TRUE, !.watch = i, !.dma = TRUE]

\* e1000_tso / e1000_tx_csum and e1000_tx_map, every mapping accepted.
XmitMap ==
  /\ xpc = "map"
  /\ buffer_info' =
       [i \in Slots |->
          LET k == Dist(First, i)
              b == IF k < frame.ctx THEN TouchedCtx(buffer_info[i], i)
                   ELSE IF k < frame.ctx + frame.n
                     THEN TouchedData(buffer_info[i], i)
                     ELSE buffer_info[i]
              c == IF i = LastSlot THEN [b EXCEPT !.skb = frame.skb] ELSE b
          IN  IF i = First THEN [c EXCEPT !.watch = LastSlot] ELSE c]
  /\ mapped' = mapped + frame.n
  /\ xpc' = "queue"
  /\ UNCHANGED <<next_to_use, next_to_clean, desc, hw, stopped, down, carrier,
                 frame, batch, clean, hang, reset, owned, bql, bounds>>

\* e1000_tso refuses the frame (its header cannot be copied): dropped as well.
XmitTsoError ==
  /\ FramesMayFail /\ xpc = "map" /\ frame.ctx = 1
  /\ owned' = owned \ {frame.skb}
  /\ batch' \in More
  /\ xpc' = "idle" /\ frame' = NoFrame
  /\ UNCHANGED <<ring, hw, stopped, down, carrier, clean, hang, reset, mapped,
                 bql, bounds>>

\* Bound: with more mappings than this outstanding no further one is refused (every
\* refusal may leave one behind for good).
MaxMapped == Count

\* e1000_tx_map, the mapping of data slot number good + 1 refused: the error path
\* undoes the mappings before it but stops one short of the first ("if (count)
\* count--"); the frame is dropped and next_to_use goes back.
XmitMapError(good) ==
  /\ FramesMayFail /\ xpc = "map" /\ good < frame.n /\ mapped <= MaxMapped
  /\ buffer_info' =
       [i \in Slots |->
          LET k == Dist(DataFrom, i)
              b == IF Dist(First, i) < frame.ctx THEN TouchedCtx(buffer_info[i], i)
                   ELSE IF k = 0 /\ good > 0 THEN TouchedData(buffer_info[i], i)
                   ELSE IF k < good
                     THEN PutTxbuf(TouchedData(buffer_info[i], i))
                   ELSE IF k = good
                     THEN [TouchedData(buffer_info[i], i) EXCEPT !.dma = FALSE]
                   ELSE buffer_info[i]
          IN  IF i = First THEN [b EXCEPT !.stamp = FALSE] ELSE b]
  /\ mapped' = mapped + (IF good > 0 THEN 1 ELSE 0)
  /\ owned' = owned \ {frame.skb}
  /\ batch' \in More
  /\ xpc' = "idle" /\ frame' = NoFrame
  /\ UNCHANGED <<next_to_use, next_to_clean, desc, hw, stopped, down, carrier,
                 clean, hang, reset, bql, bounds>>

\* netdev_sent_queue and e1000_tx_queue: fill the descriptors, then publish
\* next_to_use; RS is asked for on the last descriptor only.
XmitQueue ==
  /\ xpc = "queue"
  /\ desc' = [i \in Slots |->
               IF Dist(First, i) < frame.ctx + frame.n
                 THEN [rs |-> i = LastSlot, dd |-> FALSE] ELSE desc[i]]
  /\ next_to_use' = Fwd(First, frame.ctx + frame.n)
  /\ bql' = bql + 1
  /\ sent' = sent + 1
  /\ xpc' = "room"
  /\ UNCHANGED <<next_to_clean, buffer_info, hw, stopped, down, carrier, frame,
                 batch, clean, hang, reset, owned, mapped, linkLoss>>

\* "Make sure there is space in the ring for the next send": the second call of
\* e1000_maybe_stop_tx, and its look again after the barrier.
XmitRoom ==
  /\ xpc = "room"
  /\ IF Unused(next_to_clean, next_to_use) >= StopNeed
       THEN xpc' = "tail" /\ UNCHANGED stopped
       ELSE xpc' = "reroom" /\ stopped' = TRUE
  /\ UNCHANGED <<ring, hw, down, carrier, frame, batch, clean, hang, reset,
                 ghosts, bounds>>

XmitReroom ==
  /\ xpc = "reroom"
  /\ IF Unused(next_to_clean, next_to_use) < StopNeed
       THEN UNCHANGED stopped
       ELSE stopped' = FALSE
  /\ xpc' = "tail"
  /\ UNCHANGED <<ring, hw, down, carrier, frame, batch, clean, hang, reset,
                 ghosts, bounds>>

BadTailDeferred(more) == more \/ ~stopped

\* The tail is left for later if the stack announced another frame (xmit_more)
\* and the queue is awake.
TailDeferred(more) == more /\ ~stopped

XmitTail(more) ==
  /\ xpc = "tail"
  /\ IF TailDeferred(more)
       THEN UNCHANGED <<tdt, txen, reset_task>>
       ELSE UpdateTail(next_to_use)
  /\ batch' = more
  /\ xpc' = "idle" /\ frame' = NoFrame
  /\ UNCHANGED <<ring, tdh, stopped, down, carrier, clean, hang, rpc, ghosts,
                 bounds>>

XmitStep ==
  \/ XmitRecheck \/ XmitTsoError \/ XmitMap \/ XmitQueue \/ XmitRoom \/ XmitReroom
  \/ \E good \in 0..Count : XmitMapError(good)
  \/ \E more \in More : XmitTail(more)

-----------------------------------------------------------------------------
(* e1000_clean_tx_irq, from a poll that interrupts may start at any time   *)
(* until e1000e_down has disabled them and waited for NAPI.                *)

PollAllowed == rpc \notin {"sync", "quiet", "clean"}

\* With nothing to clean next_to_watch is what an earlier frame left there, or
\* the slot itself while e1000_tx_map is filling it.
CleanStart ==
  /\ cpc = "idle" /\ PollAllowed
  /\ ci' = next_to_clean
  /\ \/ ceop' = buffer_info[next_to_clean].watch
     \/ xpc = "map" /\ next_to_clean = next_to_use /\ ceop' = next_to_clean
  /\ ccount' = 0 /\ cbql' = 0
  /\ cpc' = "scan"
  /\ UNCHANGED <<ring, hw, stopped, down, carrier, xmit, hang, reset, ghosts,
                 bounds>>

BadFrameDone(e) == desc[e].rs

\* The adapter has reported the descriptor in which the frame ends.
FrameDone(e) == desc[e].dd

BadCompletes(e) == Dist(ci, e) + 1

\* What the frame that ends in slot e adds to pkts_compl.
Completes(e) == IF buffer_info[e].skb # NoSkb THEN 1 ELSE 0

\* One turn of the loop: the frame that ends in slot ceop is done; free its
\* buffers, clear its status (RS stays but is not read again), and look at the next
\* frame unless the local index has caught up with next_to_use.
CleanFrame ==
  LET k    == Dist(ci, ceop) + 1
      seg  == {i \in Slots : Dist(ci, i) < k}
      next == Fwd(ci, k)
  IN
  /\ cpc = "scan" /\ FrameDone(ceop) /\ ccount < Count
  /\ buffer_info' = [i \in Slots |-> IF i \in seg THEN PutTxbuf(buffer_info[i])
                                                 ELSE buffer_info[i]]
  /\ desc' = [i \in Slots |-> IF i \in seg THEN NoDesc ELSE desc[i]]
  /\ owned' = owned \ {buffer_info[i].skb : i \in seg}
  /\ mapped' = mapped - MappedIn(seg)
  /\ cbql' = cbql + Completes(ceop)
  /\ ci' = next /\ ccount' = ccount + k
  /\ IF next = next_to_use
       THEN cpc' = "publish" /\ UNCHANGED ceop
       ELSE ceop' = buffer_info'[next].watch /\ UNCHANGED cpc
  /\ UNCHANGED <<next_to_use, next_to_clean, hw, stopped, down, carrier, xmit,
                 hang, reset, bql, bounds>>

CleanScanEnd ==
  /\ cpc = "scan" /\ (~FrameDone(ceop) \/ ccount >= Count)
  /\ cpc' = "publish"
  /\ UNCHANGED <<ring, hw, stopped, down, carrier, xmit, ci, ceop, ccount, cbql,
                 hang, reset, ghosts, bounds>>

BadWakeRoom == Unused(next_to_clean, next_to_use) >= WakeThreshold

\* Room enough to wake the queue, next_to_clean being the cleaner's index by now.
WakeRoom == Unused(ci, next_to_use) >= WakeThreshold

\* next_to_clean is published only now; netdev_completed_queue; then the first
\* half of the wake condition.
CleanPublish ==
  /\ cpc = "publish"
  /\ next_to_clean' = ci
  /\ bql' = bql - cbql
  /\ cpc' = IF ccount > 0 /\ carrier /\ WakeRoom
              THEN "wake" ELSE "hang"
  /\ ceop' = 0 /\ ccount' = 0 /\ cbql' = 0   \* not read again
  /\ UNCHANGED <<next_to_use, buffer_info, desc, hw, stopped, down, carrier,
                 xmit, ci, hang, reset, owned, mapped, bounds>>

\* After the barrier: is the queue stopped, and the device not going down?
CleanWake ==
  /\ cpc = "wake"
  /\ cpc' = IF stopped /\ ~down THEN "waking" ELSE "hang"
  /\ UNCHANGED <<ring, hw, stopped, down, carrier, xmit, ci, ceop, ccount, cbql,
                 hang, reset, ghosts, bounds>>

\* netif_wake_queue; the answer to the DOWN test may be stale by now.
CleanWaking ==
  /\ cpc = "waking"
  /\ stopped' = FALSE
  /\ cpc' = "hang"
  /\ UNCHANGED <<ring, hw, down, carrier, xmit, ci, ceop, ccount, cbql, hang,
                 reset, ghosts, bounds>>

\* The hang check asked for by the watchdog looks at the slot it stopped at.
CleanHang(late) ==
  /\ cpc = "hang" /\ (late => SlowFrames /\ detect_tx_hung /\ buffer_info[ci].stamp)
  /\ detect_tx_hung' = FALSE
  /\ IF late
       THEN print_hang' = TRUE /\ UNCHANGED tx_hang_recheck
       ELSE /\ tx_hang_recheck' = (tx_hang_recheck /\ ~detect_tx_hung)
            /\ UNCHANGED print_hang
  /\ cpc' = "idle" /\ ci' = 0
  /\ UNCHANGED <<ring, hw, stopped, down, carrier, xmit, ceop, ccount, cbql,
                 reset, ghosts, bounds>>

CleanStep ==
  \/ CleanFrame \/ CleanScanEnd \/ CleanPublish \/ CleanWake \/ CleanWaking
  \/ \E late \in BOOLEAN : CleanHang(late)

-----------------------------------------------------------------------------
(* The adapter: fetches the descriptor at the head and, if RS was asked    *)
(* for, writes DD back.  External.                                         *)
HwTransmit ==
  /\ txen /\ carrier /\ tdh # tdt
  /\ desc' = IF desc[tdh].rs THEN [desc EXCEPT ![tdh].dd = TRUE] ELSE desc
  /\ tdh' = Fwd(tdh, 1)
  /\ UNCHANGED <<next_to_use, next_to_clean, buffer_info, tdt, txen, stopped,
                 down, carrier, xmit, clean, hang, reset, ghosts, bounds>>

-----------------------------------------------------------------------------
(* What the watchdog task, the print_hang task and dev_watchdog do here.   *)

\* e1000_watchdog_task as far as transmission goes: a link that came up enables
\* the transmitter, a link that went down with frames queued asks for a reset.
Watchdog(link) ==
  /\ ~down
  /\ carrier /\ ~link => linkLoss < MaxLinkLoss
  /\ linkLoss' = linkLoss + (IF carrier /\ ~link THEN 1 ELSE 0)
  /\ carrier' = link
  /\ txen' = (txen \/ (link /\ ~carrier))
  /\ IF \/ ~link /\ Unused(next_to_clean, next_to_use) + 1 < Count
        \/ RxNeedsRestart /\ carrier /\ ~link
       THEN reset_task' = TRUE /\ UNCHANGED detect_tx_hung
       ELSE detect_tx_hung' = TRUE /\ UNCHANGED reset_task
  /\ UNCHANGED <<ring, tdh, tdt, stopped, down, xmit, clean, tx_hang_recheck,
                 print_hang, rpc, ghosts, sent>>

\* e1000_print_hw_hang: with DMA_BURST the first suspicion only flushes and asks
\* again; a head short of the tail then stops the queue.
PrintHang ==
  /\ print_hang
  /\ print_hang' = FALSE
  /\ IF down THEN UNCHANGED <<tx_hang_recheck, stopped>>
     ELSE IF ~tx_hang_recheck /\ DmaBurst
       THEN tx_hang_recheck' = TRUE /\ UNCHANGED stopped
       ELSE /\ tx_hang_recheck' = FALSE
            /\ stopped' = (stopped \/ tdh # tdt)
  /\ UNCHANGED <<ring, hw, down, carrier, xmit, clean, detect_tx_hung, reset,
                 ghosts, bounds>>

\* dev_watchdog finds the queue stopped for too long: e1000_tx_timeout.
TxTimeout ==
  /\ stopped /\ carrier /\ ~reset_task
  /\ reset_task' = TRUE
  /\ UNCHANGED <<ring, hw, stopped, down, carrier, xmit, clean, hang, rpc,
                 ghosts, bounds>>

-----------------------------------------------------------------------------
(* e1000_reset_task: e1000e_down, e1000_clean_tx_ring and e1000e_up.       *)

ResetStart ==
  /\ rpc = "run" /\ reset_task
  /\ reset_task' = FALSE
  /\ down' = TRUE
  /\ rpc' = "stop"
  /\ UNCHANGED <<ring, hw, stopped, carrier, xmit, clean, hang, ghosts, bounds>>

ResetStop ==
  /\ rpc = "stop"
  /\ carrier' = FALSE /\ stopped' = TRUE /\ txen' = FALSE
  /\ rpc' = "drain"
  /\ UNCHANGED <<ring, tdh, tdt, down, xmit, clean, hang, reset_task, ghosts,
                 bounds>>

\* usleep_range lets a transmission under way finish; then e1000_irq_disable:
\* no poll starts any more.
ResetIrqOff ==
  /\ rpc = "drain" /\ xpc = "idle"
  /\ rpc' = "sync"
  /\ UNCHANGED <<ring, hw, stopped, down, carrier, xmit, clean, hang, reset_task,
                 ghosts, bounds>>

\* napi_synchronize waits for the poll under way.
ResetSync ==
  /\ rpc = "sync" /\ cpc = "idle"
  /\ rpc' = "quiet"
  /\ UNCHANGED <<ring, hw, stopped, down, carrier, xmit, clean, hang, reset_task,
                 ghosts, bounds>>

\* e1000e_reset and e1000_clean_tx_ring: every slot freed, everything zeroed (the
\* tail is already 0 after the hardware reset, so its write reads back right).
ResetClean ==
  /\ rpc = "quiet"
  /\ buffer_info' = [i \in Slots |-> FreeBuffer]
  /\ desc' = [i \in Slots |-> NoDesc]
  /\ owned' = owned \ {buffer_info[i].skb : i \in Slots}
  /\ mapped' = mapped - MappedIn(Slots)
  /\ bql' = 0 /\ sent' = 0
  /\ next_to_use' = 0 /\ next_to_clean' = 0
  /\ tdh' = 0 /\ tdt' = 0
  /\ rpc' = "clean"
  /\ UNCHANGED <<txen, stopped, down, carrier, xmit, clean, hang, reset_task,
                 linkLoss>>

\* e1000e_up: DOWN is cleared and interrupts come back before the queue starts.
ResetUp ==
  /\ rpc = "clean"
  /\ down' = FALSE
  /\ rpc' = "start"
  /\ UNCHANGED <<ring, hw, stopped, carrier, xmit, clean, hang, reset_task,
                 ghosts, bounds>>

\* ... and then netif_start_queue.
ResetQueue ==
  /\ rpc = "start"
  /\ stopped' = FALSE
  /\ rpc' = "run"
  /\ UNCHANGED <<ring, hw, down, carrier, xmit, clean, hang, reset_task, ghosts,
                 bounds>>

ResetStep == ResetStart \/ ResetStop \/ ResetIrqOff \/ ResetSync \/ ResetClean \/ ResetUp
             \/ ResetQueue

-----------------------------------------------------------------------------
Stack == XmitDrop \/ \E s \in Skbs, sh \in Shapes : XmitStart(s, sh)

Next ==
  \/ Stack \/ XmitStep
  \/ CleanStart \/ CleanStep
  \/ HwTransmit
  \/ \E link \in BOOLEAN : Watchdog(link)
  \/ PrintHang \/ TxTimeout \/ ResetStep

\* A handler once entered runs on; polls keep coming (the watchdog raises one
\* every two seconds); the adapter transmits; work that is queued runs.  A frame
\* the stack holds is sent when the queue is awake.  Nothing else obliges the stack
\* to send or the link to fail.
Fairness ==
  /\ WF_vars(XmitStep) /\ WF_vars(batch /\ Stack)
  /\ WF_vars(CleanStart) /\ WF_vars(CleanStep)
  /\ WF_vars(HwTransmit) /\ WF_vars(Watchdog(TRUE))
  /\ WF_vars(PrintHang) /\ WF_vars(ResetStep)

Spec     == Init /\ [][Next]_vars
FairSpec == Spec /\ Fairness

\* The stack's own watchdog reports a queue that stays stopped, too.
TimeoutSpec == FairSpec /\ WF_vars(TxTimeout)

-----------------------------------------------------------------------------
(* Properties.                                                             *)

\* Every variable stays in its type; in particular every index stays inside the
\* ring, whatever wraps.
TypeOK ==
  /\ {next_to_use, next_to_clean, tdh, tdt, ci, ceop} \subseteq Slots
  /\ buffer_info \in [Slots -> [skb : Skbs \cup {NoSkb}, dma : BOOLEAN,
                                watch : Slots, stamp : BOOLEAN]]
  /\ desc \in [Slots -> [rs : BOOLEAN, dd : BOOLEAN]]
  /\ {txen, stopped, down, carrier, batch, detect_tx_hung, tx_hang_recheck,
      print_hang, reset_task} \subseteq BOOLEAN
  /\ xpc \in {"idle", "recheck", "map", "queue", "room", "reroom", "tail"}
  /\ cpc \in {"idle", "scan", "publish", "wake", "waking", "hang"}
  /\ rpc \in {"run", "stop", "drain", "sync", "quiet", "clean", "start"}
  /\ frame \in [skb : Skbs \cup {NoSkb}, ctx : {0, 1}, n : 0..Count]
  /\ ccount \in Nat /\ cbql \in Nat
  /\ linkLoss \in 0..MaxLinkLoss /\ sent \in Nat
  /\ owned \subseteq Skbs /\ mapped \in Int /\ bql \in Int

\* The first slot that the cleaner has not freed.
Uncleaned == IF cpc \in {"scan", "publish"} THEN ci ELSE next_to_clean

\* Around the ring come, in this order: what is published as clean, what the
\* cleaner has freed, the adapter's head, its tail, and what the stack has queued.
\* The cleaner reads next_to_watch and DD with no lock, and what it reads of an
\* empty ring may be left from frames long gone: it must not pass the head even so.
RingOrder ==
  LET at(i) == Dist(next_to_clean, i)
  IN  /\ at(Uncleaned) <= at(tdh)
      /\ at(tdh) <= at(tdt)
      /\ at(tdt) <= at(next_to_use)

\* The slot in which the frame that holds slot i ends.
EndOf(i) == CHOOSE j \in Region(i, next_to_use) :
              desc[j].rs /\ \A k \in Region(i, j) : ~desc[k].rs

\* Whatever the adapter may still fetch belongs to a frame whose skb has not been
\* freed: no interleaving of xmit, clean and reset frees a buffer under DMA.
AdapterReadsLiveFrames ==
  \A i \in Region(tdh, next_to_use) :
     /\ \E j \in Region(i, next_to_use) : desc[j].rs
     /\ buffer_info[EndOf(i)].skb \in owned

\* The slots that hold an skb.
InSlots == {i \in Slots : buffer_info[i].skb # NoSkb}

\* Every skb the driver was given is in exactly one place, in e1000_xmit_frame's
\* hands or in one slot between the cleaner and next_to_use: none is leaked, none
\* freed twice, whether it was sent, refused, dropped or flushed by a reset.
SkbOwnership ==
  /\ owned = ({frame.skb} \cup {buffer_info[i].skb : i \in InSlots}) \ {NoSkb}
  /\ \A i, j \in InSlots : buffer_info[i].skb = buffer_info[j].skb => i = j
  /\ xpc \in {"recheck", "map"} =>
       \A i \in InSlots : buffer_info[i].skb # frame.skb
  /\ InSlots \subseteq Region(Uncleaned, next_to_use) \cup
                       (IF xpc = "queue" THEN {LastSlot} ELSE {})

\* "2 desc gap to keep tail from touching head" (netdev.c, e1000_xmit_frame): with
\* the room looked up before next_to_clean moves, and wakes decided on old counts.
TailKeepsGap == Unused(next_to_clean, next_to_use) >= 2

\* netdev_completed_queue never reports more frames than netdev_sent_queue did:
\* what the stack believes in flight is at least what the ring holds.
BqlCovers ==
  cpc = "idle" =>
    bql >= Cardinality(InSlots) - (IF xpc = "queue" THEN 1 ELSE 0)

\* Every DMA mapping not yet undone is recorded in the slot that will undo it
\* ("Free all transmit software resources", e1000e_free_tx_resources).
MappingsBalanced == mapped = MappedIn(Slots)

\* All the accounts of a frame agree, whatever becomes of it: its skb in one place, its
\* mappings recorded, its bytes reported (e1000_put_txbuf, e1000_clean_tx_irq).
SkbsAccounted == TypeOK /\ SkbOwnership /\ MappingsBalanced /\ BqlCovers

\* When the stack has no frame in hand, nothing waits in the ring for a tail write
\* that nobody will make (while the link stays up, see FlushFindsTailAtUse).
LastFrameTails ==
  linkLoss = 0 /\ xpc = "idle" /\ ~batch /\ rpc = "run" => tdt = next_to_use

\* "Make sure there is space in the ring for the next send" (netdev.c,
\* e1000_xmit_frame): a queue left awake has room for any frame the stack sends.
SpaceForNextSend ==
  xpc = "tail" /\ ~stopped =>
     \A sh \in Shapes : Unused(next_to_clean, next_to_use) >= NeedFor(sh)

\* e1000_flush_tx_ring, reached from e1000e_reset: BUG_ON(tdt != next_to_use).
\* (While the stack is between two frames of a batch the tail may lag.)
FlushFindsTailAtUse == rpc = "quiet" /\ ~batch => tdt = next_to_use

\* A stopped queue is started again: the stop in e1000_xmit_frame and the wake in
\* e1000_clean_tx_irq cannot miss each other.
QueueRestarts == stopped ~> ~stopped

\* The driver lets go of every skb it takes: sent, refused, dropped or flushed.
FramesReleased == \A s \in Skbs : s \in owned ~> s \notin owned

\* So the transmitter keeps going: the queue restarts, and what was queued leaves.
TransmitProceeds == QueueRestarts /\ FramesReleased
=============================================================================
