----------------------------- MODULE TxRingFifo -----------------------------
(* The descriptor ring of TxRing implements the frame queue of TxFifo.     *)
EXTENDS TxRing

\* The slots' order in the ring, and the frames that end in some of them.
Sooner(i, j) == Dist(Uncleaned, i) < Dist(Uncleaned, j)
FramesIn(S)  == {buffer_info[i].skb : i \in S}

\* The frames in the ring ahead of the frame s: all of them, when s is still on its way
\* through e1000_xmit_frame.
OlderThan(s) ==
  FramesIn({i \in InSlots : \A j \in InSlots : buffer_info[j].skb = s => Sooner(i, j)})

FramesOlder == [s \in owned |-> OlderThan(s)]

\* The frames that the adapter's head has passed.
FramesSent == FramesIn({i \in InSlots : Sooner(i, tdh)})

\* A reset has not stopped the transmitter, or it has brought the device up again.
FifoLive == rpc \notin {"drain", "sync", "quiet", "clean"}

Fifo == INSTANCE TxFifo WITH
          held <- owned, older <- FramesOlder, done <- FramesSent, live <- FifoLive

\* Frames are sent and let go of in the order they were taken, each let go of only
\* after it was sent, unless a reset has halted the adapter: this is what lets
\* e1000_clean_tx_irq free by position, and what the stack relies on.
ImplementsFifo == Fifo!Spec
=============================================================================
