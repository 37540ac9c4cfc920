------------------------------ MODULE FileEdit ------------------------------
(***************************************************************************)
(* One file from its search to its commit, byte by byte.  The file is      *)
(* searched, read into memory when a match of it is first shown, its       *)
(* matches are shown with their replacement, decided and taken back, and   *)
(* the accepted ones committed, as often as the user likes, from the copy  *)
(* in memory.  Another search starts over from what is on disk.            *)
(*                                                                         *)
(* Which match is shown next is Review's business: here any may be.        *)
(***************************************************************************)
EXTENDS FileText

CONSTANTS
  Alphabet,       \* the bytes of the files
  MaxLength,      \* of a file that is searched
  MaxMatches,     \* a search reports
  MinSize,        \* of a match: 0 for a regex, 1 for a literal
  Replacement     \* texts the user may type

ASSUME FileEditAssumption ==
  /\ Alphabet \subseteq Byte
  /\ MaxLength \in Nat /\ MaxLength + 1 < WordModulus
  /\ MaxMatches \in Nat /\ MinSize \in 0..1
  /\ \A text \in Replacement : text \in Seq(Alphabet)

VARIABLES
  disk,           \* the file
  file_manager,   \* the copy in memory
  pending,        \* slices not decided
  diffs,          \* the history
  viewer,         \* what is shown: a slice, its text, prev_lines, new_lines
  status,
  searched,       \* history: the file as it was searched
  committed       \* history: the diffs the last commit accepted

vars == <<disk, file_manager, pending, diffs, viewer, status, searched, committed>>

NotRead == [copy |-> "none"]
Nothing == [slice |-> "nothing"]

-----------------------------------------------------------------------------
(* What search_buf reports: matches without overlap; after one of length zero
   the search goes on one byte later. *)
Slices(text) == {Match(from, n) : from \in 0..Len(text), n \in MinSize..Len(text)}
Within(text, slice) == slice.start + SizeOf(slice) <= Len(text)
Apart(s, t) == s.start < t.start => s.start + SizeOf(s) <= t.start

MatchSets(text) ==
  {matches \in SUBSET {s \in Slices(text) : Within(text, s)} :
     /\ matches # {} /\ Cardinality(matches) <= MaxMatches
     /\ \A s, t \in matches : Apart(s, t) /\ (s.start = t.start => s = t)}

Running == status = "running"
Stop(how) ==
  /\ status' = how
  /\ UNCHANGED <<disk, pending, diffs, viewer, searched, committed>>

-----------------------------------------------------------------------------
(* populate_file_viewer_state. *)

Copy == IF file_manager = NotRead THEN read_file_into_file_manager(disk) ELSE file_manager

\* Mutant: the slice of the copy is also that of the replaced text.
ReplacementSliceKept(slice, replacement_text) == slice
\* The end is the byte after the replacement.
ReplacementSlice(slice, replacement_text) ==
  [start |-> slice.start, end |-> slice.start + Len(replacement_text)]

Shown(slice, replacement_text) ==
  [slice |-> slice, replacement_text |-> replacement_text,
   prev_lines |-> get_lines_spanning_byte_slice(Copy, slice),
   new_lines |-> get_lines_spanning_byte_slice(
                   replace_text_in_file(Copy, slice, replacement_text),
                   ReplacementSlice(slice, replacement_text))]

PopulateThrows(slice) == IllFormed(slice) \/ ReplaceThrows(Copy, slice)
Populate(slice, replacement_text) ==
  /\ Running
  /\ file_manager' = Copy
  /\ IF PopulateThrows(slice)
     THEN Stop("threw")
     ELSE /\ viewer' = Shown(slice, replacement_text)
          /\ UNCHANGED <<disk, pending, diffs, status, searched, committed>>

ShowMatch == \E slice \in pending, text \in Replacement : Populate(slice, text)
ShowDiff == \E diff \in diffs : Populate(diff.slice, diff.replacement_text)

-----------------------------------------------------------------------------
(* add_current_change_to_diff_history; without a copy it throws, too (Review). *)

FirstLine(slice) == get_lines_spanning_byte_slice(file_manager, slice)[1]
DecideThrows(slice) ==
  IllFormed(slice) \/ get_lines_spanning_byte_slice(file_manager, slice) = << >>

Decide ==
  /\ Running
  /\ file_manager # NotRead
  /\ \E slice \in pending :
       IF DecideThrows(slice)
       THEN Stop("threw") /\ UNCHANGED file_manager
       ELSE /\ pending' = pending \ {slice}
            /\ \E accepted \in BOOLEAN, text \in Replacement :
                 diffs' = diffs \cup
                   {[accepted |-> accepted, slice |-> slice, replacement_text |-> text,
                     start_line_no |-> FirstLine(slice).lineno,
                     start_column |-> FirstLine(slice).start_column]}
            /\ UNCHANGED <<disk, file_manager, viewer, status, searched, committed>>

DeleteDiff ==
  /\ Running
  /\ \E diff \in diffs :
       /\ diffs' = diffs \ {diff}
       /\ pending' = pending \cup {diff.slice}
  /\ UNCHANGED <<disk, file_manager, viewer, status, searched, committed>>

-----------------------------------------------------------------------------
(* commit_diffs_to_disk and write_file_to_disk. *)

Accepted == {diff \in diffs : diff.accepted}

\* The file is open for writing: an undefined conversion may end the program
\* before anything is written.
WriteFile(text) ==
  \/ disk' = Printed(text) /\ UNCHANGED status
  \/ UndefinedFormat(text) /\ disk' = << >> /\ status' = "crashed"

\* Mutant: the copy in memory follows the file.
CommitRereads ==
  /\ Running
  /\ Accepted # {}
  /\ ~SpliceThrows(file_manager.contents, Accepted)
  /\ WriteFile(Spliced(file_manager.contents, Accepted))
  /\ committed' = Accepted
  /\ file_manager' = FileManager(Spliced(file_manager.contents, Accepted))
  /\ UNCHANGED <<pending, diffs, viewer, searched>>
\* Without an accepted diff it writes nothing.
Commit ==
  /\ Running
  /\ Accepted # {}
  /\ ~SpliceThrows(file_manager.contents, Accepted)
  /\ WriteFile(Spliced(file_manager.contents, Accepted))
  /\ committed' = Accepted
  /\ UNCHANGED <<file_manager, pending, diffs, viewer, searched>>

CommitThrows ==
  /\ Running
  /\ Accepted # {}
  /\ SpliceThrows(file_manager.contents, Accepted)
  /\ Stop("threw")
  /\ UNCHANGED file_manager

Search ==
  /\ Running
  /\ Len(disk) <= MaxLength
  /\ pending' \in MatchSets(disk)
  /\ file_manager' = NotRead
  /\ diffs' = {} /\ viewer' = Nothing
  /\ searched' = disk /\ committed' = {}
  /\ UNCHANGED <<disk, status>>

Ended == ~Running /\ UNCHANGED vars

-----------------------------------------------------------------------------
Init ==
  /\ disk \in BoundedSeq(Alphabet, MaxLength)
  /\ pending \in MatchSets(disk)
  /\ file_manager = NotRead
  /\ diffs = {} /\ viewer = Nothing
  /\ status = "running"
  /\ searched = disk /\ committed = {}

Next ==
  \/ ShowMatch \/ ShowDiff \/ Decide \/ DeleteDiff
  \/ Commit \/ CommitThrows \/ Search \/ Ended

Spec == Init /\ [][Next]_vars

-----------------------------------------------------------------------------
(* Properties. *)

(* The reference: what line a byte is on, and what a line holds, its newline
   included. *)
LineOf(contents, at) ==
  Cardinality({i \in 1..at : i <= Len(contents) /\ contents[i] = "newline"})
LineHolds(contents, lineno) ==
  LET at == {i \in DOMAIN contents : LineOf(contents, i - 1) = lineno}
  IN SubSeq(contents, Min(at), Max(at))
Bytes(slice) == slice.start..(slice.start + SizeOf(slice) - 1)
Linenos(lines) == {lines[i].lineno : i \in DOMAIN lines}
\* A text that fprintf prints as it is.
Plain(text) == \A i \in DOMAIN text : text[i] \in {"a", "newline", "0xFF"}
\* What fgetc gives of a text before it seems to have ended.
BeforeEOF(text) ==
  SubSeq(text, 1, Cardinality({i \in DOMAIN text : \A j \in 1..i : text[j] # "0xFF"}))
Terminated(contents, lineno) == lineno < LineOf(contents, Len(contents))

\* The lines shown for a match within the copy are those its bytes are on, in
\* order, and each that ends with a newline is shown whole.
PrevLinesAreOfMatch ==
  viewer # Nothing /\ SizeOf(viewer.slice) > 0 /\ Within(file_manager.contents, viewer.slice) =>
    LET contents == file_manager.contents
        lines == viewer.prev_lines
    IN /\ Linenos(lines) = {LineOf(contents, at) : at \in Bytes(viewer.slice)}
       /\ \A i \in DOMAIN lines :
            /\ lines[i].lineno = lines[1].lineno + i - 1
            /\ Terminated(contents, lines[i].lineno) =>
                 Append(lines[i].content, "newline") = LineHolds(contents, lines[i].lineno)

\* The lines shown for its replacement hold every byte of the new text, and
\* no line but theirs and those next to them.
NewLinesHoldReplacement ==
  viewer # Nothing =>
    LET contents ==
          replace_text_in_file(file_manager, viewer.slice, viewer.replacement_text).contents
        on(bytes) == {LineOf(contents, at) : at \in bytes \cap 0..(Len(contents) - 1)}
        from == viewer.slice.start
        to == viewer.slice.start + Len(viewer.replacement_text)
    IN /\ on(from..(to - 1)) \subseteq Linenos(viewer.new_lines)
       /\ Linenos(viewer.new_lines) \subseteq on((from - 1)..to)

\* The line and the column kept for the history lead to the first byte of
\* the match, whatever has been shown, decided and committed since.
HistoryPointsAtMatch ==
  \A diff \in {d \in diffs : Within(file_manager.contents, d.slice)} :
    /\ diff.start_line_no = LineOf(file_manager.contents, diff.slice.start)
    /\ file_manager.line_start_byte_indices[diff.start_line_no + 1] + diff.start_column
         = diff.slice.start

(* The reference: each byte stays, unless an accepted diff covers it; the
   text of a diff stands before the byte its slice starts with. *)
Inserted(edits, at) == FlattenSeq(SetToSeq({d.replacement_text : d \in {e \in edits : e.slice.start = at}}))
Edited(text, edits) ==
  FlattenSeq([i \in 1..(Len(text) + 1) |->
    Inserted(edits, i - 1) \o
      IF i > Len(text) \/ \E d \in edits : i - 1 \in Bytes(d.slice) THEN << >> ELSE <<text[i]>>])

\* components.cpp:771 says that only accepted diffs are committed: after any
\* number of commits the file is the one searched with the diffs that the last
\* commit accepted, and with nothing else changed.
OnlyAcceptedIsWritten == Running => disk = Edited(searched, committed)

\* What is lost otherwise: a commit drops the first byte 0xFF of the file and all
\* that follows, and may change what fprintf takes for a conversion or the end.
\* Of a file and texts without percent sign and NUL it changes nothing else.
CommitIsExact ==
  Plain(BeforeEOF(searched)) /\ (\A diff \in committed : Plain(diff.replacement_text)) =>
    (Running => disk = IF committed = {} THEN searched
                                         ELSE Edited(BeforeEOF(searched), committed))

\* What a commit hands to fprintf is what the previews have shown: the accepted
\* matches replaced one at a time, from the last to the first.  Nothing else
\* writes the file, and a commit that throws leaves it alone.
PreviewedLastToFirst ==
  FoldRight(LAMBDA diff, replaced :
              replace_text_in_file(replaced, diff.slice, diff.replacement_text),
            Sorted(Accepted), file_manager).contents
CommitIsPreviews ==
  [][disk' # disk \/ (committed' # committed /\ committed' # {}) =>
       \/ disk' = Printed(PreviewedLastToFirst)
       \/ UndefinedFormat(PreviewedLastToFirst) /\ status' = "crashed"]_vars
=============================================================================
