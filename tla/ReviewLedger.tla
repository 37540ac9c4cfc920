---------------------------- MODULE ReviewLedger ----------------------------
(***************************************************************************)
(* The mapping under which Review implements Ledger.  A match is its file  *)
(* and its slice; what was found is what is decided or pending; a decision *)
(* is what the diff of the match says.                                     *)
(***************************************************************************)
EXTENDS Review

MatchOf(diff) == <<diff.file_name, diff.byte_slice>>
WayOf(diff) == [accepted |-> diff.accepted, text |-> diff.replacement_text]

DecidedMatches(history) == {MatchOf(history[i]) : i \in DOMAIN history}
PendingMatches(lists) ==
  UNION {{<<file, lists[file][k]>> : k \in DOMAIN lists[file]} : file \in DOMAIN lists}

DiffOf(history, match) == history[CHOOSE i \in DOMAIN history : MatchOf(history[i]) = match]
DecisionOf(history) == [m \in DecidedMatches(history) |-> WayOf(DiffOf(history, m))]

EditsWritten(commit) == [file \in DOMAIN commit |-> commit[file].edits]

TheLedger == INSTANCE Ledger WITH
  found <- DecidedMatches(diffs) \cup PendingMatches(file_to_matches),
  decision <- DecisionOf(diffs),
  written <- EditsWritten(written),
  reported <- [success_files |-> commit_state.success_files,
               error_files |-> commit_state.error_files],
  over <- status # "running"

\* The handlers, menus and queues of the program keep the promise of Ledger:
\* no step but a search changes what was found, a decision keeps the text it
\* was made with, taking one back frees that match alone, what a commit writes
\* is what was accepted, and what it reports is what it wrote.
ImplementsLedger == TheLedger!Spec

=============================================================================
