------------------------------- MODULE Ledger -------------------------------
(***************************************************************************)
(* What a review promises its user, without menus, gauges, files in memory *)
(* or queues: a search finds matches; each is open until it is decided, a  *)
(* decision carries the replacement text of the moment, can be taken back, *)
(* and a commit writes, to each file it manages to open, exactly the       *)
(* accepted decisions on that file, and reports the files it has written   *)
(* and those it could not open.  The program may end at any moment: in the *)
(* middle of a commit, too, which then has written some of the files.      *)
(***************************************************************************)
EXTENDS Naturals

CONSTANTS FileName, Slice, Text

VARIABLES
  found,      \* the matches of the current search, as <<file, slice>>
  decision,   \* the matches decided, each with [accepted, text]
  written,    \* by file, the edits the last commit applied to it, until the next search
  reported,   \* what the last commit says of the files, until the next search
  over        \* the program has ended

vars == <<found, decision, written, reported, over>>

Open == found \ DOMAIN decision
FileOf(match) == match[1]
AcceptedIn(file) == {m \in DOMAIN decision : FileOf(m) = file /\ decision[m].accepted}
EditsOf(file) == {[slice |-> m[2], text |-> decision[m].text] : m \in AcceptedIn(file)}
FilesToWrite == {FileOf(m) : m \in {x \in DOMAIN decision : decision[x].accepted}}
NoReport == [success_files |-> {}, error_files |-> {}]

Init ==
  /\ found = {} /\ decision = << >>
  /\ written = << >> /\ reported = NoReport
  /\ over = FALSE

\* A search, or leaving the results: every earlier decision is dropped.
Search ==
  /\ ~over
  /\ found' \in SUBSET (FileName \X Slice)
  /\ decision' = << >>
  /\ written' = << >> /\ reported' = NoReport
  /\ UNCHANGED over

\* Some open matches of one file are decided, all in the same way.
Decide(file, accepted, text) ==
  /\ ~over
  /\ \E matches \in SUBSET {m \in Open : FileOf(m) = file} :
       decision' = [m \in DOMAIN decision \cup matches |->
                      IF m \in matches THEN [accepted |-> accepted, text |-> text]
                                       ELSE decision[m]]
  /\ UNCHANGED <<found, written, reported, over>>

\* One decision is taken back: its match is open again.
Revoke(match) ==
  /\ ~over
  /\ decision' = [m \in DOMAIN decision \ {match} |-> decision[m]]
  /\ UNCHANGED <<found, written, reported, over>>

\* opened are the files that could be opened for writing.
Write(opened) ==
  /\ ~over
  /\ written' = [file \in opened |-> EditsOf(file)]
  /\ UNCHANGED <<found, decision>>
Commit(opened) ==
  /\ Write(opened)
  /\ reported' = [success_files |-> opened, error_files |-> FilesToWrite \ opened]
  /\ UNCHANGED over

\* The program ends in the middle of a commit, ...
BreakOff(opened) == Write(opened) /\ over' = TRUE /\ UNCHANGED reported
\* ... or elsewhere.
End == over' = TRUE /\ UNCHANGED <<found, decision, written, reported>>

Next ==
  \/ Search
  \/ \E file \in FileName, accepted \in BOOLEAN, text \in Text : Decide(file, accepted, text)
  \/ \E match \in DOMAIN decision : Revoke(match)
  \/ \E opened \in SUBSET FilesToWrite : Commit(opened) \/ BreakOff(opened)
  \/ End

Spec == Init /\ [][Next]_vars
=============================================================================
