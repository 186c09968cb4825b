----------------------------- MODULE MCTxRing -----------------------------
(* Instances of TxRing for TLC. *)
EXTENDS TxRingFifo, TLC

\* Frames of one or two data descriptors, the larger with a context descriptor.
MCShapes == {<<0, 1>>, <<1, 1>>}

\* Frames of one descriptor.
MCSmall == {<<0, 1>>}

\* MAX_SKB_FRAGS = 1: a head and a fragment, with a context descriptor.
MCLarge == {<<0, 1>>, <<1, 2>>}

\* Frames of a context and two data descriptors.
MCFaulty == {<<1, 2>>}

MCSymmetry == Permutations(Skbs)
=============================================================================
