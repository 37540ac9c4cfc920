----------------------------- MODULE MCFileEdit -----------------------------
(* Constants of the runs of FileEdit. *)
EXTENDS FileEdit

\* Nothing, and a text that ends one line and begins the next.
Texts == {<< >>, <<"newline", "a">>}
\* Matches can only be removed.
NoText == {<< >>}
=============================================================================
