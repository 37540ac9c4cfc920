------------------------------ MODULE MCReview ------------------------------
(***************************************************************************)
(* Review, and its mapping to Ledger, on small instances.                  *)
(***************************************************************************)
EXTENDS ReviewLedger

\* Two slices that touch, so that an overlap of one byte would be seen.
TouchingSlices == {[start |-> 0, end |-> 1], [start |-> 2, end |-> 3]}
\* With a zero-length match between them.
MixedSlices == TouchingSlices \cup {[start |-> 2, end |-> 1]}

\* Files read to the end; and a first one that becomes shorter, a second one whose
\* fourth byte is 0xFF.
WholeCopies == [file \in FileName |-> [edition \in 0..MaxEdition |-> 4]]
ShortCopies == <<[edition \in 0..1 |-> 4 - 2 * edition], [edition \in 0..1 |-> 3]>>

=============================================================================
