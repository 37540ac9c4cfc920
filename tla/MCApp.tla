------------------------------- MODULE MCApp -------------------------------
(* The event loop on small instances. *)
EXTENDS App

TouchingSlices == {[start |-> 0, end |-> 1], [start |-> 2, end |-> 3]}
\* Files read to the end; and a first one that shrinks when it changes, a second
\* one whose fourth byte is 0xFF.
WholeCopies == [file \in FileName |-> [edition \in 0..MaxEdition |-> 4]]
Copies == <<[edition \in 0..1 |-> IF edition = 0 THEN 4 ELSE 1], [edition \in 0..1 |-> 3]>>

\* No handler tells one replacement text from another.
TextSymmetry == Permutations(Text)

=============================================================================
