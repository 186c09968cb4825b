---------------------------- MODULE RxRingStream ----------------------------
(* The receive ring of RxRing implements the stream of frames of RxStream. *)
EXTENDS RxRing

\* The slot k places after slot i.
Further(i, k) == IF i + k >= Count THEN i + k - Count ELSE i + k

Stored == Dist(Uncleaned, rdh)

\* The frame whose next part the cleaner will come to: how many of its parts the
\* cleaner has taken before. Those are in no slot any more, whether they were chained
\* or tossed, but a part that does not end its frame is told by its number.
Taken   == IF Stored > 0 THEN desc[Uncleaned].part - 1 ELSE partial.part
TakenId == IF Stored > 0 THEN desc[Uncleaned].id ELSE partial.id

TakenPart(k) == [id |-> TakenId, part |-> k, last |-> FALSE, bad |-> FALSE]

\* The parts stored and not let go of, oldest first.
Wire ==
  [k \in 1..(Taken + Stored) |->
     IF k <= Taken THEN TakenPart(k) ELSE desc[Further(Uncleaned, k - Taken - 1)]]

Stream == INSTANCE RxStream WITH
            fits <- receiver = "jumbo", wire <- Wire, out <- up, live <- rxen

\* The stack gets whole frames in the order the adapter stored them, and no good frame
\* that fits its buffers is dropped, whatever budget, failure or reset comes between.
ImplementsStream == Stream!Spec
=============================================================================
