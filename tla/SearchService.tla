--------------------------- MODULE SearchService ---------------------------
(***************************************************************************)
(* What ag_search promises its caller: one search at a time; each is       *)
(* answered, with every file that has a match, once, in any order.  When   *)
(* its threads could not be created libag is lost, and from then on        *)
(* answers nothing.                                                        *)
(***************************************************************************)
EXTENDS Integers, Sequences, FiniteSets, Functions

CONSTANT File

VARIABLES
  usable,   \* whether libag can search
  phase,    \* "idle" or "busy"
  asked,    \* the files the search should report
  answer    \* the files the last search reported

vars == <<usable, phase, asked, answer>>

OnceEach(S) == {s \in [1..Cardinality(S) -> S] : IsInjective(s)}

Init == usable = TRUE /\ phase = "idle" /\ asked = {} /\ answer = << >>

Ask ==
  /\ usable
  /\ phase = "idle"
  /\ phase' = "busy"
  /\ asked' \in SUBSET File
  /\ UNCHANGED <<usable, answer>>

Answer ==
  /\ phase = "busy"
  /\ phase' = "idle"
  /\ answer' \in OnceEach(asked)
  /\ UNCHANGED <<usable, asked>>

Lose ==
  /\ usable
  /\ phase = "idle"
  /\ usable' = FALSE
  /\ UNCHANGED <<phase, asked, answer>>

Refuse ==
  /\ ~usable
  /\ answer' = << >>
  /\ UNCHANGED <<usable, phase, asked>>

Next == Ask \/ Answer \/ Lose \/ Refuse

Spec == Init /\ [][Next]_vars /\ WF_vars(Answer)
=============================================================================
