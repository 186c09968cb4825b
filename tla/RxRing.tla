------------------------------- MODULE RxRing -------------------------------
(***************************************************************************)
(* The receive path of e1000e (netdev.c): the descriptor ring shared by    *)
(*   - the adapter, which stores frames from head to tail,                 *)
(*   - e1000e_poll, which cleans what was stored and gives buffers back,   *)
(*   - the interrupt handlers, which start the poll,                       *)
(*   - the watchdog, which raises an interrupt of its own,                 *)
(*   - the reset, which stops all of them and empties the ring.            *)
(* One module covers the three ways to receive: a buffer a frame           *)
(* ("legacy": e1000_clean_rx_irq, e1000_alloc_rx_buffers), packet split    *)
(* ("ps": header and pages) and jumbo (frames chained from pages), and the *)
(* three kinds of interrupt.                                               *)
(***************************************************************************)
EXTENDS Integers, Sequences

CONSTANTS
  Count,      \* ring->count
  Write,      \* E1000_RX_BUFFER_WRITE: give buffers back by that many
  Weight,     \* the budget of a poll
  Setups,     \* pairs of a receiver ("legacy", "ps", "jumbo") and a kind of interrupt
              \*   ("intx", "msi", "msix")
  MapFails,   \* the receivers whose DMA mappings may fail
  MeLosses,   \* with FLAG2_PCIM2PCI_ARBITER_WA the ME may lose a tail write, and the
              \*   driver read that back ("noticed") or not ("lost")
  Opens,      \* whether the device first comes up by an open, or by the reset task
  EccErrors,  \* whether the adapter may report an uncorrectable ECC error
  MaxParts,   \* bound: descriptors a frame takes
  MaxFails,   \* bound: failed allocations, mappings and tail writes
  Ids         \* bound: frames are numbered modulo Ids

ASSUME RxAssumption ==
  /\ Count \in Nat /\ Count >= 2
  /\ Write \in 1..Count
  /\ Weight \in Nat \ {0}
  /\ Setups \subseteq {"legacy", "ps", "jumbo"} \X {"intx", "msi", "msix"}
  /\ MapFails \subseteq {"legacy", "ps", "jumbo"}
  /\ MeLosses \subseteq {"noticed", "lost"}
  /\ {Opens, EccErrors} \subseteq BOOLEAN
  /\ MaxParts \in Nat \ {0} /\ Ids \in Nat \ {0} /\ MaxFails \in Nat

VARIABLES
  receiver, irq,               \* adapter->clean_rx and alloc_rx_buf; interrupt mode
  next_to_use, next_to_clean,
  buffer_info,                 \* per slot: skb, dma, page, pdma (a ps page's mapping)
  desc,                        \* per slot: what the adapter wrote back
  discarding, rx_skb_top,      \* FLAG2_IS_DISCARDING; the parts chained so far
  rdh, rdt, rxen,              \* RDH, RDT and RCTL.EN
  partial, id,                 \* the part stored last of an unfinished frame; next number
  icr, ims,                    \* causes raised ("poll": any that starts the poll;
                               \*   "ecc"); receive interrupts unmasked
  napi,                        \* NAPI_STATE_SCHED
  pc, ci, cleaned, work,       \* e1000e_poll: program point and locals
  caller, left, moved,         \* alloc_rx_buf: who called it and its locals
  rpc, reset_task,             \* e1000e_reinit_locked: program point; task pending
  opening,                     \* it is not the reset task that brings the device up
  up,                          \* the parts of the frame this step hands to the stack
  fails                        \* failures so far

kind   == <<receiver, irq>>
ring   == <<next_to_use, next_to_clean, buffer_info, desc>>
chain  == <<discarding, rx_skb_top>>
hw     == <<rdh, rdt, rxen, partial, id>>
signal == <<icr, ims, napi>>
poll   == <<pc, ci, cleaned, work>>
alloc  == <<caller, left, moved>>
reset  == <<rpc, reset_task, opening>>
vars   == <<kind, ring, chain, hw, signal, poll, alloc, reset, up, fails>>

Slots == 0..(Count - 1)

\* Definitions named Bad... are mutated forms of the definition they precede: the
\* mistakes that the properties at the end would catch. Nothing else uses them.

BadNextSlot(i) == IF i + 1 > Count THEN 0 ELSE i + 1

\* "i++; if (i == rx_ring->count) i = 0;"
NextSlot(i) == IF i + 1 = Count THEN 0 ELSE i + 1

PrevSlot(i) == IF i = 0 THEN Count - 1 ELSE i - 1

\* How many places slot b is after slot a, going forward.
Dist(a, b) == IF b >= a THEN b - a ELSE b - a + Count

\* The slots from a on to the one before b.
Region(a, b) == {i \in Slots : Dist(a, i) < Dist(a, b)}

BadUnused(clean_idx, use_idx) ==
  IF clean_idx > use_idx THEN clean_idx - use_idx ELSE Count + clean_idx - use_idx - 1

\* e1000_desc_unused
Unused(clean_idx, use_idx) ==
  IF clean_idx > use_idx THEN clean_idx - use_idx - 1
                         ELSE Count + clean_idx - use_idx - 1

\* A part of a frame: the descriptor that holds it says whether it is the last
\* (E1000_RXD_STAT_EOP) and then whether the frame is damaged.
Parts == {p \in [id : 0..(Ids - 1), part : 1..MaxParts, last : BOOLEAN, bad : BOOLEAN] :
            (p.bad => p.last) /\ (p.part = MaxParts => p.last)}
NoPart  == [id |-> 0, part |-> 0, last |-> TRUE, bad |-> FALSE]
Done(i) == desc[i] # NoPart

Empty == [skb |-> FALSE, dma |-> "none", page |-> FALSE, pdma |-> "none"]

HandsUpNothing == up' = <<>>

Down    == rpc # "run"   \* __E1000_DOWN
Polling == pc # "idle"

\* The rings are set up and empty: e1000e_open or the reset task configures the adapter.
Init ==
  /\ \E s \in Setups : receiver = s[1] /\ irq = s[2]
  /\ next_to_use = 0 /\ next_to_clean = 0
  /\ buffer_info = [i \in Slots |-> Empty]
  /\ desc = [i \in Slots |-> NoPart]
  /\ discarding = FALSE /\ rx_skb_top = <<>>
  /\ rdh = 0 /\ rdt = 0 /\ rxen = FALSE
  /\ partial = NoPart /\ id = 0
  /\ icr = {} /\ ims = FALSE /\ napi = FALSE
  /\ pc = "idle" /\ ci = 0 /\ cleaned = 0 /\ work = 0
  /\ caller = "none" /\ left = 0 /\ moved = FALSE
  /\ rpc = "clean" /\ reset_task = FALSE /\ opening = Opens
  /\ up = <<>> /\ fails = 0

-----------------------------------------------------------------------------
(* The adapter stores a frame part by part into the descriptors it was     *)
(* given; a complete frame raises the receive interrupt.                   *)
Store ==
  /\ rxen /\ rdh # rdt
  /\ \E last, bad \in BOOLEAN :
       LET k == IF partial = NoPart THEN 1 ELSE partial.part + 1
           p == [id |-> id, part |-> k, last |-> last, bad |-> bad]
       IN  /\ p \in Parts
           /\ desc' = [desc EXCEPT ![rdh] = p]
           /\ partial' = IF last THEN NoPart ELSE p
           /\ id' = IF last THEN (id + 1) % Ids ELSE id
           /\ icr' = IF last THEN icr \cup {"poll"} ELSE icr
  /\ rdh' = NextSlot(rdh)
  /\ UNCHANGED <<kind, next_to_use, next_to_clean, buffer_info, chain, rdt,
                 rxen, ims, napi, poll, alloc, reset, fails>>
  /\ HandsUpNothing

EccError ==
  /\ EccErrors /\ irq # "msix"
  /\ icr' = icr \cup {"ecc"}
  /\ UNCHANGED <<kind, ring, chain, hw, ims, napi, poll, alloc, reset, fails>>
  /\ HandsUpNothing

-----------------------------------------------------------------------------
(* alloc_rx_buf.                                                           *)

\* The buffer of a slot once it was filled. The jumbo and the ps receiver take the
\* mapping of a page they find in the slot as it is.
Filled(b) ==
  CASE receiver = "legacy" -> [b EXCEPT !.skb = TRUE, !.dma = "ok"]
    [] receiver = "jumbo"  -> [b EXCEPT !.skb = TRUE, !.page = TRUE,
                                        !.dma = IF @ = "none" THEN "ok" ELSE @]
    [] receiver = "ps"     -> [b EXCEPT !.skb = TRUE, !.dma = "ok", !.page = TRUE,
                                        !.pdma = IF b.page THEN @ ELSE "ok"]

\* What a failed allocation leaves.
Unallocated(b) ==
  CASE receiver = "legacy" -> {x \in {b} : ~b.skb}
    [] receiver = "jumbo"  -> {x \in {b} : ~b.skb}
                              \cup {x \in {[b EXCEPT !.skb = TRUE]} : ~b.page}
    [] receiver = "ps"     -> {x \in {b} : ~b.page} \cup
                              {[b EXCEPT !.page = TRUE, !.pdma = IF b.page THEN @ ELSE "ok"]}

\* What a failed mapping leaves: the error stays where the mapping would be.
Unmapped(b) ==
  CASE receiver = "legacy" -> {[b EXCEPT !.skb = TRUE, !.dma = "bad"]}
    [] receiver = "jumbo"  -> {x \in {[b EXCEPT !.skb = TRUE, !.page = TRUE, !.dma = "bad"]} :
                                 b.dma = "none"}
    [] receiver = "ps"     -> {x \in {[b EXCEPT !.page = TRUE, !.pdma = "bad"]} : ~b.page}
                              \cup {[b EXCEPT !.page = TRUE, !.dma = "bad",
                                              !.pdma = IF b.page THEN @ ELSE "ok"]}

\* Writing the tail register. Where the arbiter work-around is needed the ME may lose
\* the write: one that reads back wrong stops the receiver and schedules a reset, but
\* nothing is read back when the wait for the ME has timed out.
UpdateRdt(i) ==
  \E fate \in {"written"} \cup {l \in MeLosses : fails < MaxFails} :
    /\ rdt' = IF fate = "written" THEN i ELSE rdt
    /\ rxen' = (rxen /\ fate # "noticed")
    /\ reset_task' = (reset_task \/ fate = "noticed")
    /\ fails' = IF fate = "written" THEN fails ELSE fails + 1

\* One turn of the loop: fill the slot at next_to_use; the legacy and the ps receiver
\* then write the tail at every Write-th slot, with the slot just filled still theirs.
AllocOne ==
  /\ caller # "none" /\ left > 0
  /\ buffer_info' = [buffer_info EXCEPT ![next_to_use] = Filled(@)]
  /\ next_to_use' = NextSlot(next_to_use)
  /\ left' = left - 1 /\ moved' = TRUE
  /\ IF receiver # "jumbo" /\ next_to_use % Write = 0
       THEN UpdateRdt(next_to_use)
       ELSE UNCHANGED <<rdt, rxen, reset_task, fails>>
  /\ UNCHANGED <<kind, next_to_clean, desc, chain, rdh, partial, id, signal,
                 poll, caller, rpc, opening>>
  /\ HandsUpNothing

\* An allocation or a mapping fails: the loop ends.
AllocFails ==
  /\ caller # "none" /\ left > 0 /\ fails < MaxFails
  /\ \E b \in Unallocated(buffer_info[next_to_use])
              \cup (IF receiver \in MapFails THEN Unmapped(buffer_info[next_to_use]) ELSE {}) :
       buffer_info' = [buffer_info EXCEPT ![next_to_use] = b]
  /\ left' = 0 /\ fails' = fails + 1
  /\ UNCHANGED <<kind, next_to_use, next_to_clean, desc, chain, hw, signal,
                 poll, caller, moved, reset>>
  /\ HandsUpNothing

\* The loop is over: the jumbo receiver now writes the tail, one short of next_to_use.
AllocReturns ==
  /\ caller # "none" /\ left = 0
  /\ IF receiver = "jumbo" /\ moved THEN UpdateRdt(PrevSlot(next_to_use))
                                    ELSE UNCHANGED <<rdt, rxen, reset_task, fails>>
  /\ caller' = "none" /\ moved' = FALSE
  /\ pc' = IF caller = "last" THEN "complete" ELSE pc
  /\ rpc' = IF caller = "configure" THEN "up" ELSE rpc
  /\ UNCHANGED <<kind, ring, chain, rdh, partial, id, signal, ci, cleaned, work,
                 left, opening>>
  /\ HandsUpNothing

Alloc == AllocOne \/ AllocFails \/ AllocReturns

-----------------------------------------------------------------------------
(* e1000e_poll and clean_rx.                                               *)

\* NAPI runs the poll (which cleans the transmit ring first, see TxRing).
Poll ==
  /\ napi /\ pc = "idle"
  /\ pc' = "clean" /\ ci' = next_to_clean /\ cleaned' = 0 /\ work' = 0
  /\ UNCHANGED <<kind, ring, chain, hw, signal, alloc, reset, fails>>
  /\ HandsUpNothing

BadReleased(b) == [b EXCEPT !.dma = "bad"]

\* The mapping of a cleaned buffer is undone.
Released(b) == [b EXCEPT !.dma = "none"]

BadDiscards(p) == ~p.last

\* In the receivers of one buffer a frame: the descriptors of a frame of several are
\* tossed, up to and including the one that ends it.
Discards(p) == ~p.last \/ discarding

\* e1000_clean_rx_irq: a frame is handed up in its own buffer, or copied when it is
\* short (copybreak); any other buffer is used again.
CleanLegacy(p, b) ==
  /\ UNCHANGED rx_skb_top
  /\ discarding' = (~p.last)
  /\ IF Discards(p) \/ p.bad
       THEN buffer_info' = [buffer_info EXCEPT ![ci] = b] /\ HandsUpNothing
       ELSE /\ \E copied \in BOOLEAN :
                 buffer_info' = [buffer_info EXCEPT ![ci] = [b EXCEPT !.skb = copied]]
            /\ up' = <<p>>

\* e1000_clean_rx_irq_ps: the header's skb goes up or is freed, the page goes with it
\* unless it was copied, or holds nothing.
CleanPs(p, b) ==
  /\ UNCHANGED rx_skb_top
  /\ discarding' = (~p.last)
  /\ IF Discards(p) \/ p.bad
       THEN buffer_info' = [buffer_info EXCEPT ![ci] = [b EXCEPT !.skb = FALSE]]
            /\ HandsUpNothing
       ELSE /\ \E kept \in BOOLEAN :
                 buffer_info' = [buffer_info EXCEPT ![ci] =
                   IF kept THEN [b EXCEPT !.skb = FALSE] ELSE Empty]
            /\ up' = <<p>>

BadChainAfterError(top) == top

\* A damaged frame takes its chain along.
ChainAfterError(top) == <<>>

\* e1000_clean_jumbo_rx_irq: parts are chained to the skb of the first; a frame of one
\* part may be copied into its skb, and its page used again; otherwise the page goes
\* into the frame's skb (e1000_consume_page). A frame too short for pskb_may_pull is
\* one the adapter reports as damaged.
CleanJumbo(p, b) ==
  /\ UNCHANGED discarding
  /\ IF p.bad
       THEN /\ buffer_info' = [buffer_info EXCEPT ![ci] = b]
            /\ rx_skb_top' = ChainAfterError(rx_skb_top)
            /\ HandsUpNothing
       ELSE /\ \E copied \in {c \in BOOLEAN : c => p.last /\ rx_skb_top = <<>>} :
                 buffer_info' = [buffer_info EXCEPT ![ci] =
                   [b EXCEPT !.skb = rx_skb_top # <<>>, !.page = copied]]
            /\ rx_skb_top' = IF p.last THEN <<>> ELSE Append(rx_skb_top, p)
            /\ up' = IF p.last THEN Append(rx_skb_top, p) ELSE <<>>

\* One turn of the cleaning loop; "status_error &= ~0xFF" keeps the descriptor from
\* being taken again before it is reused.
CleanOne ==
  /\ pc = "clean" /\ caller = "none"
  /\ Done(ci) /\ work < Weight
  /\ work' = work + 1
  /\ LET b == Released(buffer_info[ci])
         p == desc[ci]
     IN  CASE receiver = "legacy" -> CleanLegacy(p, b)
           [] receiver = "ps"     -> CleanPs(p, b)
           [] receiver = "jumbo"  -> CleanJumbo(p, b)
  /\ desc' = [desc EXCEPT ![ci] = NoPart]
  /\ ci' = NextSlot(ci)
  /\ IF cleaned + 1 >= Write
       THEN cleaned' = 0 /\ caller' = "loop" /\ left' = cleaned + 1
       ELSE cleaned' = cleaned + 1 /\ UNCHANGED <<caller, left>>
  /\ UNCHANGED <<kind, next_to_use, next_to_clean, hw, signal, pc, moved, reset, fails>>

\* The loop is over: publish next_to_clean and give back every buffer there is room for.
CleanReturns ==
  /\ pc = "clean" /\ caller = "none"
  /\ ~Done(ci) \/ work >= Weight
  /\ next_to_clean' = ci
  /\ left' = Unused(ci, next_to_use)
  /\ caller' = "last"
  /\ UNCHANGED <<kind, next_to_use, buffer_info, desc, chain, hw, signal, poll,
                 moved, reset, fails>>
  /\ HandsUpNothing

BadFinished(w) == w <= Weight

\* "work_done < weight"
Finished(w) == w < Weight

\* The poll ends: with the budget not used up NAPI is done and the interrupt comes back
\* on; otherwise, or when the transmit ring was not wholly cleaned, it runs again.
\* The transmitter of a device going down is stopped and leaves no such work.
PollReturns ==
  /\ pc = "complete"
  /\ \/ /\ Finished(work)
        /\ napi' = FALSE
        /\ ims' = (ims \/ ~Down)
     \/ /\ ~Finished(work) \/ (irq # "msix" /\ ~Down)
        /\ UNCHANGED <<napi, ims>>
  /\ pc' = "idle" /\ ci' = 0 /\ cleaned' = 0 /\ work' = 0
  /\ UNCHANGED <<kind, ring, chain, hw, icr, alloc, reset, fails>>
  /\ HandsUpNothing

-----------------------------------------------------------------------------
(* The interrupt handlers: reading ICR (or the MSI-X vector's auto-clear)  *)
(* takes the causes and masks them. e1000_intr ignores a device going      *)
(* down; an ECC error is left to the reset.                                *)
Interrupt ==
  /\ ims /\ icr # {}
  /\ icr' = {} /\ ims' = FALSE
  /\ IF irq = "intx" /\ Down
       THEN UNCHANGED <<napi, reset_task>>
       ELSE IF "ecc" \in icr
              THEN reset_task' = TRUE /\ UNCHANGED napi
              ELSE napi' = TRUE /\ UNCHANGED reset_task
  /\ UNCHANGED <<kind, ring, chain, hw, poll, alloc, rpc, opening, fails>>
  /\ HandsUpNothing

BadKick(causes) == causes

\* "Cause software interrupt to ensure Rx ring is cleaned"
Kick(causes) == causes \cup {"poll"}

Watchdog ==
  /\ ~Down
  /\ icr' = Kick(icr)
  /\ UNCHANGED <<kind, ring, chain, hw, ims, napi, poll, alloc, reset, fails>>
  /\ HandsUpNothing

-----------------------------------------------------------------------------
(* e1000_reset_task: e1000e_down and e1000e_up.  e1000e_down sleeps after  *)
(* it has stopped the adapter, so a store under way and a poll that saw    *)
(* DOWN clear are over when it masks the interrupt.                        *)
GoDown ==
  /\ rpc = "run" /\ reset_task
  /\ rpc' = "sleep" /\ reset_task' = FALSE
  /\ rxen' = FALSE
  /\ UNCHANGED <<kind, ring, chain, rdh, rdt, partial, id, signal, poll, alloc,
                 opening, fails>>
  /\ HandsUpNothing

\* e1000_irq_disable
IrqDisable ==
  /\ rpc = "sleep"
  /\ rpc' = "quiesce" /\ ims' = FALSE
  /\ UNCHANGED <<kind, ring, chain, hw, icr, napi, poll, alloc, reset_task,
                 opening, fails>>
  /\ HandsUpNothing

\* napi_synchronize, e1000e_reset (which clears the registers, so that the ring's own
\* writes of head and tail change nothing) and e1000_clean_rx_ring.
CleanRing ==
  /\ rpc = "quiesce" /\ ~napi
  /\ rpc' = "clean"
  /\ next_to_use' = 0 /\ next_to_clean' = 0
  /\ buffer_info' = [i \in Slots |-> Empty]
  /\ desc' = [i \in Slots |-> NoPart]
  /\ discarding' = FALSE /\ rx_skb_top' = <<>>
  /\ rdh' = 0 /\ rdt' = 0 /\ icr' = {}
  /\ partial' = NoPart /\ id' = IF partial = NoPart THEN id ELSE (id + 1) % Ids
  /\ UNCHANGED <<kind, rxen, ims, napi, poll, alloc, reset_task, opening, fails>>
  /\ HandsUpNothing

\* e1000_configure enables the receiver, then fills the ring.
Configure ==
  /\ rpc = "clean"
  /\ rpc' = "fill" /\ rxen' = TRUE
  /\ caller' = "configure" /\ left' = Unused(next_to_clean, next_to_use)
  /\ UNCHANGED <<kind, ring, chain, rdh, rdt, partial, id, signal, poll, moved,
                 reset_task, opening, fails>>
  /\ HandsUpNothing

\* DOWN is cleared, interrupts come on and one is raised (e1000e_trigger_lsc), which
\* with MSI-X is another vector's. A reset asked for while the device was opening may
\* have been ignored, DOWN being set, when its task ran.
GoUp ==
  /\ rpc = "up"
  /\ \E ignored \in {x \in BOOLEAN : x => opening} : reset_task' = (reset_task /\ ~ignored)
  /\ opening' = FALSE
  /\ rpc' = "run" /\ ims' = TRUE
  /\ icr' = IF irq = "msix" THEN icr ELSE icr \cup {"poll"}
  /\ UNCHANGED <<kind, ring, chain, hw, napi, poll, alloc, fails>>
  /\ HandsUpNothing

-----------------------------------------------------------------------------
Driver == Alloc \/ Poll \/ CleanOne \/ CleanReturns \/ PollReturns
Reset  == GoDown \/ IrqDisable \/ CleanRing \/ Configure \/ GoUp

Next == Store \/ EccError \/ Driver \/ Interrupt \/ Watchdog \/ Reset

Spec == Init /\ [][Next]_vars

\* A softirq, a handler, a work item and a running timer all get to run; nothing is
\* assumed of the adapter, and at most MaxFails things fail.
FairSpec ==
  /\ Spec
  /\ WF_vars(Driver) /\ WF_vars(Interrupt) /\ WF_vars(Watchdog) /\ WF_vars(Reset)
-----------------------------------------------------------------------------
(* Properties. *)

TypeOK ==
  /\ \E s \in Setups : receiver = s[1] /\ irq = s[2]
  /\ {next_to_use, next_to_clean, rdh, rdt, ci} \subseteq Slots
  /\ buffer_info \in [Slots -> [skb : BOOLEAN, dma : {"none", "ok", "bad"},
                                page : BOOLEAN, pdma : {"none", "ok", "bad"}]]
  /\ desc \in [Slots -> Parts \cup {NoPart}]
  /\ {discarding, rxen, ims, napi, moved, reset_task, opening} \subseteq BOOLEAN
  /\ rx_skb_top \in Seq(Parts) /\ up \in Seq(Parts)
  /\ partial \in Parts \cup {NoPart} /\ id \in 0..(Ids - 1)
  /\ icr \subseteq {"poll", "ecc"}
  /\ pc \in {"idle", "clean", "complete"}
  /\ cleaned \in 0..(Write - 1) /\ work \in 0..Weight
  /\ caller \in {"none", "loop", "last", "configure"} /\ left \in 0..(Count - 1)
  /\ rpc \in {"run", "sleep", "quiesce", "clean", "fill", "up"}
  /\ fails \in 0..MaxFails

\* The slot the cleaner is at.
Uncleaned == IF Polling THEN ci ELSE next_to_clean

\* The ring stays in order: the cleaner, the adapter's head, its tail and next_to_use
\* follow each other, and just the descriptors the head has passed are done.
\* e1000_clean_rx_irq publishes next_to_clean only when its loop is over, while
\* alloc_rx_buf hands out slots in the middle of it.
RxOrder ==
  /\ Dist(Uncleaned, rdh) <= Dist(Uncleaned, rdt)
  /\ Dist(Uncleaned, rdt) <= Dist(Uncleaned, next_to_use)
  /\ \A i \in Slots : Done(i) <=> i \in Region(Uncleaned, rdh)

\* A slot the adapter can store to and the cleaner can take from.
Usable(b) ==
  /\ b.skb /\ b.dma = "ok"
  /\ receiver # "legacy" => b.page
  /\ receiver = "ps" => b.pdma = "ok"

\* The adapter only stores to buffers that are mapped and the driver's, and whatever
\* it stored is still there when the cleaner comes to it: alloc_rx_buf, the cleaner's
\* recycling and the tail write together decide that.
AdapterOwnsBuffers ==
  \A i \in Region(Uncleaned, rdt) : Usable(buffer_info[i])

\* No interrupt is lost between e1000e_poll and the handlers: a complete frame in the
\* ring of a running device has a poll on its way, or an interrupt that will start
\* one, or a reset.
FrameIsAnnounced ==
  rpc = "run" /\ (\E i \in Slots : Done(i) /\ desc[i].last)
    => napi \/ (ims /\ icr # {}) \/ reset_task

\* An adapter that ran out of buffers, because none could be allocated, gets some
\* again: only the watchdog's software interrupt can see to that.
BuffersReturn == (rpc = "run" /\ rdh = rdt) ~> (rdh # rdt \/ Down)
=============================================================================
