------------------------------ MODULE FileText ------------------------------
(***************************************************************************)
(* The bytes of a file in memory and on disk: utils.cpp from the reading   *)
(* of a file to the replacement of a byte slice, and the loop of           *)
(* commit_diffs_to_disk that splices the accepted diffs.                   *)
(*                                                                         *)
(* A text is a sequence of bytes, each of a kind the code tells apart: an  *)
(* ordinary one, a newline, a percent sign, NUL, 0xFF.  Indices are those  *)
(* of the code: the first byte and the first line have number 0.  A byte   *)
(* slice ends with its last byte; U64 wraps at WordModulus.                *)
(***************************************************************************)
EXTENDS Integers, Sequences, FiniteSets, SequencesExt

CONSTANT WordModulus    \* larger than any text

ASSUME WordModulusAssumption == WordModulus \in Nat \ {0, 1}

Byte == {"a", "newline", "percent", "nul", "0xFF"}
\* What an undefined conversion prints in its place.
Garbage == "garbage"

Substr(text, from, n) == SubSeq(text, from + 1, from + n)
Match(from, n) == [start |-> from, end |-> (from + n - 1) % WordModulus]

\* std::lower_bound and std::upper_bound as an index of a sorted vector.
LowerBound(sorted, value) == Cardinality({i \in DOMAIN sorted : sorted[i] < value})
UpperBound(sorted, value) == Cardinality({i \in DOMAIN sorted : sorted[i] <= value})

-----------------------------------------------------------------------------
(* A FileManager: the contents and where its lines start. *)

\* Mutant: no line start before the first newline.
LineStartsAfterNewline(contents) ==
  FoldLeftDomain(LAMBDA starts, i :
                   IF contents[i] = "newline" THEN Append(starts, i) ELSE starts,
                 << >>, contents)
get_line_start_byte_indices_for_file(contents) ==
  FoldLeftDomain(LAMBDA starts, i :
                   IF i = 1 \/ contents[i - 1] = "newline" THEN Append(starts, i - 1) ELSE starts,
                 << >>, contents)

FileManager(contents) ==
  [contents |-> contents,
   line_start_byte_indices |-> get_line_start_byte_indices_for_file(contents)]

\* The result of fgetc is kept in a Char: the byte 0xFF is taken for EOF.
read_file_into_file_manager(text) ==
  LET eof == SelectInSeq(text, LAMBDA byte : byte = "0xFF")
  IN FileManager(IF eof = 0 THEN text ELSE SubSeq(text, 1, eof - 1))

-----------------------------------------------------------------------------
(* The lines that a byte slice spans. *)

IllFormed(slice) == slice.start > slice.end

\* Mutant: a start at the start of a line is taken for the line before.
StartLineBefore(file_manager, slice) ==
  LowerBound(file_manager.line_start_byte_indices, slice.start) - 1
\* -1 for a file without lines; it becomes the largest U32.
StartLine(file_manager, slice) ==
  LET starts == file_manager.line_start_byte_indices
      after == LowerBound(starts, slice.start)
  IN IF after >= Len(starts) \/ slice.start < starts[after + 1] THEN after - 1 ELSE after

EndLine(file_manager, slice) ==
  LET after == UpperBound(file_manager.line_start_byte_indices, slice.end)
  IN IF after > 0 THEN after - 1 ELSE 0

\* The end of a line is that of its newline, which is not part of it; the
\* last byte of the last line is left out whatever it is.
FileLine(file_manager, slice, lineno) ==
  LET starts == file_manager.line_start_byte_indices
      start_byte == starts[lineno + 1]
      end_byte == IF lineno = Len(starts) - 1
                  THEN Len(file_manager.contents) - 1
                  ELSE starts[lineno + 2] - 1
  IN [content |-> Substr(file_manager.contents, start_byte, end_byte - start_byte),
      lineno |-> lineno,
      start_column |-> (IF lineno = StartLine(file_manager, slice)
                        THEN slice.start - start_byte ELSE -1) % WordModulus]

get_lines_spanning_byte_slice(file_manager, slice) ==
  LET first == StartLine(file_manager, slice)
      last == EndLine(file_manager, slice)
  IN IF first = -1 THEN << >>
     ELSE [i \in 1..(last - first + 1) |-> FileLine(file_manager, slice, first + i - 1)]

-----------------------------------------------------------------------------
(* Replacing: the preview of one match, and the splice of a commit. *)

\* The number of bytes from start to end; 0 for a zero-length match.
SizeOf(slice) == (slice.end - slice.start + 1) % WordModulus

\* std::string::replace throws out_of_range.
ReplaceThrows(file_manager, slice) == slice.start > Len(file_manager.contents)
replace_text_in_file(file_manager, slice, replacement_text) ==
  LET contents == file_manager.contents
  IN FileManager(Substr(contents, 0, slice.start) \o replacement_text
                   \o SubSeq(contents, slice.start + SizeOf(slice) + 1, Len(contents)))

\* The diffs of a set by the start of their slices.
Sorted(diffs) ==
  CHOOSE sorted \in [1..Cardinality(diffs) -> diffs] :
    \A i, j \in DOMAIN sorted : i < j => sorted[i].slice.start < sorted[j].slice.start

\* Mutant: the cursor skips the length of the replacement.
SpliceDiffByText(contents, spliced, diff) ==
  [text |-> spliced.text
              \o Substr(contents, spliced.cursor, diff.slice.start - spliced.cursor)
              \o diff.replacement_text,
   cursor |-> diff.slice.start + Len(diff.replacement_text)]
SpliceDiff(contents, spliced, diff) ==
  [text |-> spliced.text
              \o Substr(contents, spliced.cursor, diff.slice.start - spliced.cursor)
              \o diff.replacement_text,
   cursor |-> diff.slice.start + SizeOf(diff.slice)]

\* A slice that reaches beyond the contents puts the cursor behind their end,
\* and the last append throws length_error.
SpliceThrows(contents, diffs) ==
  \E diff \in diffs : diff.slice.start + SizeOf(diff.slice) > Len(contents)
Spliced(contents, diffs) ==
  LET last == FoldLeft(LAMBDA spliced, diff : SpliceDiff(contents, spliced, diff),
                       [text |-> << >>, cursor |-> 0], Sorted(diffs))
  IN last.text \o SubSeq(contents, last.cursor + 1, Len(contents))

-----------------------------------------------------------------------------
(* fprintf with the contents as its format: it ends at a NUL, prints one
   percent sign for two, and has no arguments for any other conversion. *)

Format(contents) ==
  LET nul == SelectInSeq(contents, LAMBDA byte : byte = "nul")
  IN IF nul = 0 THEN contents ELSE SubSeq(contents, 1, nul - 1)

\* printed.percent: a percent sign waits for its conversion.
Conversion(printed, byte) ==
  CASE ~printed.percent /\ byte # "percent" -> [printed EXCEPT !.text = Append(@, byte)]
    [] ~printed.percent /\ byte = "percent" -> [printed EXCEPT !.percent = TRUE]
    [] printed.percent ->
         [text |-> Append(printed.text, IF byte = "percent" THEN byte ELSE Garbage),
          percent |-> FALSE]

Printed(contents) ==
  LET all == FoldLeft(Conversion, [text |-> << >>, percent |-> FALSE], Format(contents))
  IN IF all.percent THEN Append(all.text, Garbage) ELSE all.text

UndefinedFormat(contents) == Contains(Printed(contents), Garbage)
=============================================================================
