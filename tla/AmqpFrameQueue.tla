--------------------------- MODULE AmqpFrameQueue ---------------------------
(***************************************************************************)
(* What a frame extractor promises for one direction of a connection       *)
(* (spec section 4.3, and the chunking round-trip of section 8): it takes  *)
(* the frames the peer wrote in the order it wrote them, whatever the      *)
(* chunking of the bytes, and emits each one with the fields written,      *)
(* except those it drops.  input is the sequence of frames written, out    *)
(* the sequence emitted, lost the number of frames dropped so far.  A      *)
(* frame is never emitted twice, out of order, or after a later one.       *)
(***************************************************************************)
EXTENDS SequencesExt, FiniteSets, Naturals

VARIABLES input, out, lost

\* The frames of input taken so far, emitted or dropped.
Taken == Len(out) + lost

Init == out = <<>> /\ lost = 0

\* One step takes the next frames of the input, up to the n-th, and emits
\* them in order, except those in drop.
Emit ==
  /\ input' = input
  /\ \E n \in (Taken + 1) .. Len(input) :
       \E drop \in SUBSET ((Taken + 1) .. n) :
         LET kept == SetToSortSeq(((Taken + 1) .. n) \ drop, <)
         IN  /\ out' = out \o [i \in DOMAIN kept |-> input[kept[i]]]
             /\ lost' = lost + Cardinality(drop)

Spec == Init /\ [][Emit]_<<input, out, lost>>

=============================================================================
