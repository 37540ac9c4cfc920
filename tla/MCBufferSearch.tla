--------------------------- MODULE MCBufferSearch ---------------------------
(* Bytes 0 and 1 are the capitals of 3 and 4, 5 is outside ASCII; UCHAR_MAX is
   5, so that expressions of one and two bytes are too short for the hash and
   those of five too long. *)
EXTENDS BufferSearch

Strings(S, most) == UNION {[1..n -> S] : n \in 1..most}

MCQuery == Strings({3, 4}, 4) \cup Strings({0, 3}, 3)
             \cup {<<3, 5, 3>>, <<3, 2, 3>>, <<3, 4, 3, 3, 4>>, <<2, 2, 2>>}

\* The last ones are long enough for two samples of a query of four bytes.
MCBuffer == Strings({0, 3, 4}, 5) \cup [1..7 -> {3, 4}]
              \cup Strings({3, 5}, 4) \cup Strings({2, 3}, 4)
              \cup {<<3, 4, 4, 3, 3>> \o s : s \in [1..4 -> {3, 4}]}

MCSubject == {<<3>>, <<3, 3>>, <<3, 3, 3>>}
=============================================================================
