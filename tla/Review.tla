------------------------------- MODULE Review -------------------------------
(***************************************************************************)
(* The review state of tabdeeli (struct AppState) and the handlers that    *)
(* change it: search, decide one match, decide a whole file, decide every  *)
(* file, take a decision back, commit, and the three renderers that write  *)
(* to the state.  Each handler runs to completion on the one UI thread; in *)
(* this module they run in any order, whatever has the keyboard focus.     *)
(* Module App adds the event loop and the focus that order them.           *)
(*                                                                         *)
(* A match is its byte slice.  The contents of a file are abstracted to an *)
(* edition number, and of an edition the model knows how many bytes come   *)
(* into memory.  Indices are the 0-based ones of the code.                 *)
(***************************************************************************)
EXTENDS Integers, Sequences, FiniteSets, SequencesExt

CONSTANTS
  FileName,     \* files a search may report; numbers, ordered as std::map orders its keys
  Slice,        \* byte slices a match may have
  Text,         \* replacement texts the user may type
  OutsideFiles, \* files another program may write meanwhile
  MaxMatches,   \* bound: matches of one file
  MaxFound,     \* bound: matches of one search
  MaxEdition,   \* bound: times a file's contents may change
  MaxQueue,     \* bound: actions that may be queued
  CopyLength    \* of each edition of a file, the bytes a read keeps: all, or
                \* those before the first byte 0xFF, which is taken for EOF

ASSUME ReviewAssumption ==
  /\ FileName \subseteq Nat
  /\ IsFiniteSet(FileName)
  /\ Slice \subseteq [start : Nat, end : Nat]
  /\ Text # {}
  /\ OutsideFiles \subseteq FileName
  /\ MaxMatches \in Nat
  /\ MaxFound \in Nat
  /\ MaxEdition \in Nat
  /\ MaxQueue \in Nat
  /\ CopyLength \in [FileName -> [0..MaxEdition -> Nat]]

VARIABLES
  \* FilePickerState
  file_names, file_to_matches, file_to_num_matches_found,
  selected_file_index, file_managers,
  \* FileViewerState
  file_viewer,
  \* HistoryViewerState
  diffs, diffs_as_displayed, selected_diff,
  \* BottomBarState
  num_matches_found, num_matches_processed, replacement_text,
  \* Searcher, FileCommitState
  searcher, commit_state,
  \* the actions queue, and the Event::Custom posted and not yet received
  actions_queue, posted,
  \* where the for loop of accept_all_changes_in_all_files stands
  sweeping,
  \* how the program stands, and the files on disk
  status, disk,
  \* history variables: the editions the last search read, and what the
  \* commit whose table is shown handed to write_file_to_disk
  searched, written

pickerVars == <<file_names, file_to_matches, file_to_num_matches_found,
                selected_file_index, file_managers>>
historyVars == <<diffs, diffs_as_displayed, selected_diff>>
gaugeVars == <<num_matches_found, num_matches_processed>>
queueVars == <<actions_queue, posted>>
diskVars == <<disk, searched, written>>
vars == <<pickerVars, file_viewer, historyVars, gaugeVars, replacement_text,
          searcher, commit_state, queueVars, sweeping,
          status, diskVars>>

NotSweeping == -1
NoLines == {}
MatchMode == "FILE_MATCH_VIEWER"
HistoryMode == "HISTORY_DIFF_VIEWER"

NoCommit == [success_files |-> {}, error_files |-> {},
             showing_committed_files_modal |-> FALSE]

-----------------------------------------------------------------------------
(* What a search may report. *)

\* libag reports the matches of one file in order and without overlap.
MatchList ==
  {s \in UNION {[1..n -> Slice] : n \in 1..MaxMatches} :
     \A i, j \in DOMAIN s : i < j => s[i].start < s[j].start /\ s[i].end < s[j].start}

\* functional::keys of a std::map: each file once, in order.
NameList ==
  {s \in UNION {[1..n -> FileName] : n \in 0..Cardinality(FileName)} :
     \A i, j \in DOMAIN s : i < j => s[i] < s[j]}

\* The end of a slice is inclusive: that of a zero-length match lies before
\* its start, and get_line_indices_spanning_byte_slice throws on it.  (At byte
\* 0 it wraps: module FileEdit.)
WellFormed(slice) == slice.start <= slice.end

-----------------------------------------------------------------------------
(* Queries of object_utils.cpp. *)

files_have_been_loaded == DOMAIN file_to_matches # {}
AllMatchesProcessed(file) == file_to_matches[file] = <<>>
history_has_diffs == diffs # <<>>
is_current_diff_valid == history_has_diffs /\ selected_diff < Len(diffs)

\* CatchEvent hands an event to a handler only when no modal is open, and a
\* handler starts only when the one before has returned.
Running == status = "running" /\ sweeping = NotSweeping
Handling == Running /\ ~commit_state.showing_committed_files_modal

\* An exception leaves the handler, Loop and main: the program is over and
\* its state with it.
Stop(how) ==
  /\ status' = how
  /\ UNCHANGED <<pickerVars, file_viewer, historyVars, gaugeVars, replacement_text,
                 searcher, commit_state, queueVars, sweeping, diskVars>>

\* Mutant: the event posted twice.
PushAndPostTwice(action) ==
  /\ actions_queue' = Append(actions_queue, action)
  /\ posted' = posted + 2
\* Push onto actions_queue and post the Event::Custom that will pop it.
QueueHasRoom == Len(actions_queue) < MaxQueue
Push(action) ==
  /\ actions_queue' = Append(actions_queue, action)
  /\ posted' = posted + 1

-----------------------------------------------------------------------------
(* Files in memory.  A file is read when one of its matches is first shown *)
(* and kept until the next search.                                         *)

IsLoaded(index) == index \in DOMAIN file_managers
CopyOf(index) ==
  IF IsLoaded(index)
  THEN file_managers[index]
  ELSE [file_name |-> file_names[index + 1], edition |-> disk[file_names[index + 1]]]
Load(index) ==
  file_managers' = [i \in DOMAIN file_managers \cup {index} |-> CopyOf(i)]
LengthOf(index) == CopyLength[CopyOf(index).file_name][CopyOf(index).edition]

\* Showing a slice throws when its lines are asked for and it is ill-formed,
\* or in contents.replace, when it starts behind the copy.
CanShow(index, slice) == WellFormed(slice) /\ slice.start <= LengthOf(index)
\* Deciding a match takes the first of its lines; an empty copy has none, any
\* other has at least its last line.
HasFirstLine(index, slice) == WellFormed(slice) /\ LengthOf(index) > 0
\* Splicing a slice needs all its bytes: with fewer the last append throws.
CanSplice(index, slice) == slice.end < LengthOf(index)

\* An index file_names.at accepts.  A click may select another: see module App.
IsListed(index) == index < Len(file_names)

\* populate_file_viewer_state finds a slice to show.
HasSliceToShow(mode, index) ==
  /\ IsListed(index)
  /\ \/ mode = MatchMode /\ ~AllMatchesProcessed(file_names[index + 1])
     \/ mode = HistoryMode /\ history_has_diffs
\* Mutant: the last match of the file in place of the first.
SliceToShowLast(mode, index) ==
  IF mode = MatchMode THEN Last(file_to_matches[file_names[index + 1]])
                      ELSE diffs[selected_diff + 1].byte_slice
SliceToShow(mode, index) ==
  IF mode = MatchMode THEN Head(file_to_matches[file_names[index + 1]])
                      ELSE diffs[selected_diff + 1].byte_slice
TextToShow(mode) ==
  IF mode = MatchMode THEN replacement_text ELSE diffs[selected_diff + 1].replacement_text

\* populate_file_viewer_state, when it returns.
PopulateFileViewer(mode, index) ==
  \/ /\ HasSliceToShow(mode, index)
     /\ CanShow(index, SliceToShow(mode, index))
     /\ Load(index)
     /\ file_viewer' = [mode |-> mode,
                        shown |-> {[file |-> file_names[index + 1],
                                    slice |-> SliceToShow(mode, index),
                                    text |-> TextToShow(mode)]}]
  \/ /\ ~HasSliceToShow(mode, index)
     /\ file_names # <<>> => IsListed(index)
     /\ file_viewer' = [mode |-> mode,
                        shown |-> IF file_names # <<>> /\ mode = MatchMode
                                    THEN NoLines ELSE file_viewer.shown]
     /\ UNCHANGED file_managers

\* ... and when it does not: there is no such file, the slice cannot be cut
\* out, or the file has become unreadable since the search (the assertion on
\* fopen).
PopulateStops(mode, index) ==
  \/ /\ HasSliceToShow(mode, index)
     /\ \/ ~CanShow(index, SliceToShow(mode, index)) /\ Stop("threw")
        \/ ~IsLoaded(index) /\ Stop("aborted")
  \/ file_names # <<>> /\ ~IsListed(index) /\ Stop("threw")

-----------------------------------------------------------------------------
(* Search. *)

\* Mutant: the files of the search before stay in memory.
ResetKeepsFiles ==
  /\ selected_file_index' = 0
  /\ UNCHANGED file_managers
  /\ file_viewer' = [file_viewer EXCEPT !.shown = NoLines]
  /\ num_matches_processed' = 0
  /\ diffs' = << >> /\ diffs_as_displayed' = << >> /\ selected_diff' = 0
  /\ commit_state' = NoCommit /\ written' = << >>
\* Mutant: the selected file of the search before stays selected.
ResetKeepsSelection ==
  /\ selected_file_index' = selected_file_index
  /\ file_managers' = << >>
  /\ file_viewer' = [file_viewer EXCEPT !.shown = NoLines]
  /\ num_matches_processed' = 0
  /\ diffs' = << >> /\ diffs_as_displayed' = << >> /\ selected_diff' = 0
  /\ commit_state' = NoCommit /\ written' = << >>

\* reset_state_before_search, but for the fields a search then fills.
ResetBeforeSearch ==
  /\ selected_file_index' = 0
  /\ file_managers' = << >>
  /\ file_viewer' = [file_viewer EXCEPT !.shown = NoLines]
  /\ num_matches_processed' = 0
  /\ diffs' = << >>
  /\ diffs_as_displayed' = << >>
  /\ selected_diff' = 0
  /\ commit_state' = NoCommit
  /\ written' = << >>

\* The matches a search reports, counted.
TotalFound(names, lists) ==
  Cardinality({m \in Range(names) \X (1..MaxMatches) : m[2] \in DOMAIN lists[m[1]]})

\* populate_file_picker_state: the fields the results of libag fill.
FillFilePicker(names, lists) ==
  /\ file_names' = names
  /\ file_to_matches' = lists
  /\ file_to_num_matches_found' = [i \in DOMAIN names |-> Len(lists[names[i]])]
  /\ num_matches_found' = TotalFound(names, lists)

\* The search button, with a valid expression.
Search ==
  /\ Handling
  /\ QueueHasRoom
  /\ \E names \in NameList : \E lists \in [Range(names) -> MatchList] :
       /\ TotalFound(names, lists) <= MaxFound
       /\ ResetBeforeSearch
       /\ FillFilePicker(names, lists)
       /\ searcher' = IF names = << >> THEN "NO_RESULTS_FOUND" ELSE "RESULTS_FOUND"
  /\ searched' = disk
  /\ Push("FocusFilePicker")
  /\ UNCHANGED <<replacement_text, sweeping, status, disk>>

\* The search button, with an expression pcre rejects.
SearchInvalidRegex ==
  /\ Handling
  /\ ResetBeforeSearch
  /\ FillFilePicker(<< >>, << >>)
  /\ searcher' = "INVALID_REGEX"
  /\ UNCHANGED <<replacement_text, queueVars, sweeping, status, disk, searched>>

-----------------------------------------------------------------------------
(* Decide. *)

Pending(index) == file_to_matches[file_names[index + 1]]

\* A TextDiff, and its line in the history menu.
Decision(accepted, index, slice) ==
  [accepted |-> accepted, byte_slice |-> slice, file_name |-> file_names[index + 1],
   file_index |-> index, replacement_text |-> replacement_text]
DisplayItem(diff) ==
  [file_name |-> diff.file_name, accepted |-> diff.accepted, start |-> diff.byte_slice.start]

\* Mutant: the gauge advances once, whatever n.
DecideFirstGaugeOnce(n, accepted, index) ==
  LET decided == [k \in 1..n |-> Decision(accepted, index, Pending(index)[k])] IN
  /\ file_to_matches' = [file_to_matches EXCEPT
                           ![file_names[index + 1]] = SubSeq(@, n + 1, Len(@))]
  /\ diffs' = diffs \o decided
  /\ diffs_as_displayed' = diffs_as_displayed \o [k \in 1..n |-> DisplayItem(decided[k])]
  /\ num_matches_processed' = num_matches_processed + 1
\* n rounds of add_current_change_to_diff_history on one file: pop the first
\* match, append the diff and its menu line, advance the gauge.
DecideFirst(n, accepted, index) ==
  LET decided == [k \in 1..n |-> Decision(accepted, index, Pending(index)[k])] IN
  /\ file_to_matches' = [file_to_matches EXCEPT
                           ![file_names[index + 1]] = SubSeq(@, n + 1, Len(@))]
  /\ diffs' = diffs \o decided
  /\ diffs_as_displayed' = diffs_as_displayed \o [k \in 1..n |-> DisplayItem(decided[k])]
  /\ num_matches_processed' = num_matches_processed + n

\* Mutant: a missing file is not noticed.
CanDecideUnread(n, index) == \A k \in 1..n : HasFirstLine(index, Pending(index)[k])
\* One round needs the file in memory (the optional is dereferenced
\* unchecked) and the first line of the match.
CanDecide(n, index) ==
  IsLoaded(index) /\ \A k \in 1..n : HasFirstLine(index, Pending(index)[k])
DecideThrows(n, index) ==
  /\ IsLoaded(index) => \E k \in 1..n : ~HasFirstLine(index, Pending(index)[k])
  /\ Stop("threw")

decideFrame == <<file_names, file_to_num_matches_found, selected_diff, num_matches_found,
                 replacement_text, searcher, commit_state, status,
                 diskVars>>

\* Keys y and n.
AddCurrentChange(accepted) ==
  LET index == selected_file_index IN
  /\ Handling
  /\ files_have_been_loaded
  /\ IsListed(index) => Pending(index) # << >>
  /\ \/ /\ CanDecide(1, index)
        /\ DecideFirst(1, accepted, index)
        /\ UNCHANGED <<decideFrame, selected_file_index, file_managers, file_viewer,
                       queueVars, sweeping>>
     \/ DecideThrows(1, index)

\* Key o: the file is not read first.
RejectAllInFile ==
  LET index == selected_file_index
      n == Len(Pending(index)) IN
  /\ Handling
  /\ files_have_been_loaded
  /\ IsListed(index) => n > 0
  /\ \/ /\ CanDecide(n, index)
        /\ DecideFirst(n, FALSE, index)
        /\ UNCHANGED <<decideFrame, selected_file_index, file_managers, file_viewer,
                       queueVars, sweeping>>
     \/ DecideThrows(n, index)

\* accept_all_changes_in_file: the viewer is populated, which reads the file,
\* then every pending match of the file is accepted.
AcceptFile(index) ==
  LET n == Len(Pending(index)) IN
  /\ PopulateFileViewer(MatchMode, index)
  /\ \A k \in 1..n : HasFirstLine(index, Pending(index)[k])
  /\ DecideFirst(n, TRUE, index)
AcceptFileStops(index) ==
  \/ PopulateStops(MatchMode, index)
  \/ /\ IsListed(index)
     /\ \E k \in 1..Len(Pending(index)) : ~HasFirstLine(index, Pending(index)[k])
     /\ Stop("threw")

\* Key s.
AcceptAllInFile ==
  /\ Handling
  /\ files_have_been_loaded
  /\ \/ /\ AcceptFile(selected_file_index)
        /\ UNCHANGED <<decideFrame, selected_file_index, queueVars, sweeping>>
     \/ AcceptFileStops(selected_file_index)

\* Mutant: the loop starts at the second file.
AcceptAllSkipsFirst ==
  /\ Handling
  /\ QueueHasRoom
  /\ num_matches_found # 0
  /\ files_have_been_loaded
  /\ sweeping' = 1
  /\ UNCHANGED <<decideFrame, file_to_matches, selected_file_index, file_managers,
                 file_viewer, diffs, diffs_as_displayed, num_matches_processed, queueVars>>
\* The accept-all button.  Its for loop is one step to start it, one step per
\* file and one to leave it; nothing else runs in between (Handling).
AcceptAllInAllFiles ==
  /\ Handling
  /\ QueueHasRoom
  /\ num_matches_found # 0
  /\ files_have_been_loaded
  /\ sweeping' = 0
  /\ UNCHANGED <<decideFrame, file_to_matches, selected_file_index, file_managers,
                 file_viewer, diffs, diffs_as_displayed, num_matches_processed, queueVars>>

\* Mutant: the loop does not advance.
SweepFileAgain ==
  /\ status = "running"
  /\ sweeping \in 0..(Len(file_names) - 1)
  /\ selected_file_index' = sweeping
  /\ AcceptFile(sweeping)
  /\ UNCHANGED <<decideFrame, queueVars, sweeping>>

SweepFile ==
  /\ status = "running"
  /\ sweeping \in 0..(Len(file_names) - 1)
  /\ \/ /\ selected_file_index' = sweeping
        /\ AcceptFile(sweeping)
        /\ sweeping' = sweeping + 1
        /\ UNCHANGED <<decideFrame, queueVars>>
     \/ AcceptFileStops(sweeping)

SweepDone ==
  /\ status = "running"
  /\ sweeping = Len(file_names)
  /\ sweeping' = NotSweeping
  /\ Push("NoOp")
  /\ UNCHANGED <<decideFrame, file_to_matches, selected_file_index, file_managers,
                 file_viewer, diffs, diffs_as_displayed, num_matches_processed>>

\* Mutant: no lower bound on the index.
ClampedToLast(index, count) == IF index < count THEN index ELSE count - 1
\* The bounds put on the selection of a menu that has count lines.
ClampedTo(index, count) == IF index < count THEN index ELSE IF count = 0 THEN 0 ELSE count - 1
\* Mutant: the match does not go back.
DeleteDiffLosesMatch ==
  LET diff == diffs[selected_diff + 1] IN
  /\ Handling
  /\ is_current_diff_valid
  /\ UNCHANGED file_to_matches
  /\ diffs' = RemoveAt(diffs, selected_diff + 1)
  /\ diffs_as_displayed' = RemoveAt(diffs_as_displayed, selected_diff + 1)
  /\ num_matches_processed' = num_matches_processed - 1
  /\ selected_diff' = ClampedTo(selected_diff, Len(diffs_as_displayed) - 1)
  /\ UNCHANGED <<file_names, file_to_num_matches_found, selected_file_index, file_managers,
                 file_viewer, num_matches_found, replacement_text, searcher, commit_state,
                 queueVars, sweeping, status, diskVars>>
\* Mutant: another line leaves the menu.
DeleteDiffFirstLine ==
  LET diff == diffs[selected_diff + 1] IN
  /\ Handling
  /\ is_current_diff_valid
  /\ file_to_matches' = [file_to_matches EXCEPT ![diff.file_name] = Append(@, diff.byte_slice)]
  /\ diffs' = RemoveAt(diffs, selected_diff + 1)
  /\ diffs_as_displayed' = Tail(diffs_as_displayed)
  /\ num_matches_processed' = num_matches_processed - 1
  /\ selected_diff' = ClampedTo(selected_diff, Len(diffs_as_displayed) - 1)
  /\ UNCHANGED <<file_names, file_to_num_matches_found, selected_file_index, file_managers,
                 file_viewer, num_matches_found, replacement_text, searcher, commit_state,
                 queueVars, sweeping, status, diskVars>>

\* Key d: the match of the selected diff goes back, behind the others of its
\* file.  The viewer is left as it is.
DeleteDiff ==
  LET diff == diffs[selected_diff + 1] IN
  /\ Handling
  /\ is_current_diff_valid
  /\ file_to_matches' = [file_to_matches EXCEPT ![diff.file_name] = Append(@, diff.byte_slice)]
  /\ diffs' = RemoveAt(diffs, selected_diff + 1)
  /\ diffs_as_displayed' = RemoveAt(diffs_as_displayed, selected_diff + 1)
  /\ num_matches_processed' = num_matches_processed - 1
  /\ selected_diff' = ClampedTo(selected_diff, Len(diffs_as_displayed) - 1)
  /\ UNCHANGED <<file_names, file_to_num_matches_found, selected_file_index, file_managers,
                 file_viewer, num_matches_found, replacement_text, searcher, commit_state,
                 queueVars, sweeping, status, diskVars>>

-----------------------------------------------------------------------------
(* Commit. *)

AcceptedDiffs == {i \in DOMAIN diffs : diffs[i].accepted}
FilesToWrite == {diffs[i].file_name : i \in AcceptedDiffs}
DiffsOf(file) == {i \in AcceptedDiffs : diffs[i].file_name = file}
IndexOf(file) == diffs[CHOOSE i \in DiffsOf(file) : TRUE].file_index
EditsOf(file) == {[slice |-> diffs[i].byte_slice, text |-> diffs[i].replacement_text] :
                    i \in DiffsOf(file)}

\* A file is written under the name its copy was read from.  (file_managers.at
\* would throw on a file not in memory: invariant DiffsCommittable.)
Target(file) == CopyOf(IndexOf(file)).file_name
CannotSplice == {file \in FilesToWrite : \E i \in DiffsOf(file) :
                                         ~CanSplice(diffs[i].file_index, diffs[i].byte_slice)}
\* The files of opened are written from their copies in memory.
WriteFiles(opened) ==
  LET names == {Target(file) : file \in opened} IN
  /\ \A name \in names : disk[name] < MaxEdition
  /\ disk' = [name \in FileName |-> IF name \in names THEN disk[name] + 1 ELSE disk[name]]
  /\ written' = [name \in names |->
                   LET file == CHOOSE f \in opened : Target(f) = name IN
                   [edition |-> CopyOf(IndexOf(file)).edition, edits |-> EditsOf(file)]]

\* Mutant: what could not be opened is reported as written.
CommitReportsAll ==
  /\ Handling
  /\ CannotSplice = {}
  /\ \E opened \in SUBSET FilesToWrite :
       /\ WriteFiles(opened)
       /\ commit_state' = [success_files |-> {Target(file) : file \in FilesToWrite},
                           error_files |-> {},
                           showing_committed_files_modal |-> TRUE]
  /\ UNCHANGED <<pickerVars, file_viewer, historyVars, gaugeVars, replacement_text, searcher,
                 queueVars, sweeping, status, searched>>
\* The commit button: each file with an accepted diff is spliced and written;
\* fopen may fail for any of them.
Commit ==
  /\ Handling
  /\ CannotSplice = {}
  /\ \E opened \in SUBSET FilesToWrite :
       /\ WriteFiles(opened)
       /\ commit_state' = [success_files |-> {Target(file) : file \in opened},
                           error_files |-> {Target(file) : file \in FilesToWrite \ opened},
                           showing_committed_files_modal |-> TRUE]
  /\ UNCHANGED <<pickerVars, file_viewer, historyVars, gaugeVars, replacement_text, searcher,
                 queueVars, sweeping, status, searched>>

\* The files come in the order of their names; when one cannot be spliced the
\* program ends and those before it have been written.
CommitThrows ==
  /\ Handling
  /\ \E broken \in CannotSplice :
       /\ \A other \in CannotSplice : broken <= other
       /\ \E opened \in SUBSET {file \in FilesToWrite : file < broken} : WriteFiles(opened)
  /\ status' = "threw"
  /\ UNCHANGED <<pickerVars, file_viewer, historyVars, gaugeVars, replacement_text, searcher,
                 commit_state, queueVars, sweeping, searched>>

\* Escape while the table of committed files is shown.
DismissCommit ==
  /\ Running
  /\ commit_state.showing_committed_files_modal
  /\ ResetBeforeSearch
  /\ FillFilePicker(<< >>, << >>)
  /\ searcher' = "NO_SEARCH_EXECUTED"
  /\ UNCHANGED <<replacement_text, queueVars, sweeping, status, disk, searched>>

-----------------------------------------------------------------------------
(* Renderers that write to the state, the event that pops the actions      *)
(* queue, and the small handlers.  Renderers run under a modal too.        *)

\* FilePicker's renderer, when the files menu has the focus.
RenderFilePicker ==
  /\ Running
  /\ \/ /\ PopulateFileViewer(MatchMode, selected_file_index)
        /\ UNCHANGED <<decideFrame, file_to_matches, selected_file_index, diffs,
                       diffs_as_displayed, num_matches_processed, queueVars, sweeping>>
     \/ PopulateStops(MatchMode, selected_file_index)

\* HistoryViewer's renderer, when the history menu has the focus: the file of
\* the selected diff becomes the selected file, and an action is queued.
RenderHistory ==
  LET index == diffs[selected_diff + 1].file_index IN
  /\ Running
  /\ history_has_diffs
  /\ QueueHasRoom
  /\ \/ /\ is_current_diff_valid
        /\ selected_file_index' = index
        /\ PopulateFileViewer(HistoryMode, index)
        /\ Push("NoOp")
        /\ UNCHANGED <<decideFrame, file_to_matches, diffs, diffs_as_displayed,
                       num_matches_processed, sweeping>>
     \/ is_current_diff_valid /\ PopulateStops(HistoryMode, index)
     \/ ~is_current_diff_valid /\ Stop("threw")

RenderEmptyHistory ==
  /\ Running
  /\ ~history_has_diffs
  /\ PopulateFileViewer(HistoryMode, selected_file_index)
  /\ UNCHANGED <<decideFrame, file_to_matches, selected_file_index, diffs,
                 diffs_as_displayed, num_matches_processed, queueVars, sweeping>>

\* BottomBar's renderer, when the search input has the focus.
RenderSearchInput ==
  /\ Running
  /\ searcher = "INVALID_REGEX"
  /\ searcher' = "NO_SEARCH_EXECUTED"
  /\ UNCHANGED <<pickerVars, file_viewer, historyVars, gaugeVars, replacement_text,
                 commit_state, queueVars, sweeping, status, diskVars>>

\* Event::Custom is received.  Under a modal or with a text input focused it
\* goes no further; otherwise it pops the front of the queue.
customFrame == <<pickerVars, file_viewer, historyVars, gaugeVars, replacement_text, searcher,
                 commit_state, sweeping, status, diskVars>>
SwallowCustom ==
  /\ Running
  /\ posted > 0
  /\ posted' = posted - 1
  /\ UNCHANGED <<customFrame, actions_queue>>
PopAction ==
  /\ Handling
  /\ posted > 0
  /\ posted' = posted - 1
  /\ actions_queue' = SubSeq(actions_queue, 2, Len(actions_queue))
  /\ UNCHANGED customFrame

\* Up and down in a menu of count lines, with an arrow key or the wheel; Tab
\* goes round.
StepsFrom(index, count) ==
  {ClampedTo(index + 1, count), ClampedTo(IF index = 0 THEN 0 ELSE index - 1, count)}
MovesFrom(index, count) ==
  StepsFrom(index, count)
    \cup IF count = 0 THEN {} ELSE {(index + 1) % count, (index + count - 1) % count}

SelectFile(i) ==
  /\ Handling
  /\ selected_file_index' = i
  /\ UNCHANGED <<file_names, file_to_matches, file_to_num_matches_found, file_managers,
                 file_viewer, historyVars, gaugeVars, replacement_text, searcher,
                 commit_state, queueVars, sweeping, status, diskVars>>

SelectDiff(i) ==
  /\ Handling
  /\ selected_diff' = i
  /\ UNCHANGED <<pickerVars, file_viewer, diffs, diffs_as_displayed, gaugeVars,
                 replacement_text, searcher, commit_state, queueVars,
                 sweeping, status, diskVars>>

MoveInFiles ==
  \E i \in MovesFrom(selected_file_index, Len(file_names)) : SelectFile(i)
MoveInHistory ==
  \E i \in MovesFrom(selected_diff, Len(diffs_as_displayed)) : SelectDiff(i)

\* A click on a line, when the menu drawn last has the lines of the list
\* (module App has the other clicks).
ClickInFiles == \E i \in 0..(Len(file_names) - 1) : SelectFile(i)
ClickInHistory == \E i \in 0..(Len(diffs_as_displayed) - 1) : SelectDiff(i)

EditReplacement ==
  /\ Handling
  /\ replacement_text' \in Text
  /\ UNCHANGED <<pickerVars, file_viewer, historyVars, gaugeVars, searcher, commit_state,
                 queueVars, sweeping, status, diskVars>>

\* Another program writes a file.
EditOutside(file) ==
  /\ status = "running"
  /\ disk[file] < MaxEdition
  /\ disk' = [disk EXCEPT ![file] = @ + 1]
  /\ UNCHANGED <<pickerVars, file_viewer, historyVars, gaugeVars, replacement_text, searcher,
                 commit_state, queueVars, sweeping, status, searched, written>>

Exited == status # "running" /\ UNCHANGED vars

-----------------------------------------------------------------------------
Init ==
  /\ file_names = << >> /\ file_to_matches = << >> /\ file_to_num_matches_found = << >>
  /\ selected_file_index = 0 /\ file_managers = << >>
  /\ file_viewer = [mode |-> MatchMode, shown |-> NoLines]
  /\ diffs = << >> /\ diffs_as_displayed = << >> /\ selected_diff = 0
  /\ num_matches_found = 0 /\ num_matches_processed = 0
  /\ replacement_text \in Text
  /\ searcher = "NO_SEARCH_EXECUTED" /\ commit_state = NoCommit
  /\ actions_queue = << >> /\ posted = 0
  /\ sweeping = NotSweeping /\ status = "running"
  /\ disk = [file \in FileName |-> 0] /\ searched = disk /\ written = << >>

Next ==
  \/ Search \/ SearchInvalidRegex
  \/ \E accepted \in BOOLEAN : AddCurrentChange(accepted)
  \/ RejectAllInFile \/ AcceptAllInFile
  \/ AcceptAllInAllFiles \/ SweepFile \/ SweepDone
  \/ DeleteDiff
  \/ Commit \/ CommitThrows \/ DismissCommit
  \/ RenderFilePicker \/ RenderHistory \/ RenderEmptyHistory \/ RenderSearchInput
  \/ SwallowCustom \/ PopAction
  \/ MoveInFiles \/ MoveInHistory \/ ClickInFiles \/ ClickInHistory \/ EditReplacement
  \/ \E file \in OutsideFiles : EditOutside(file)
  \/ Exited

Spec == Init /\ [][Next]_vars

-----------------------------------------------------------------------------
(* Invariants. *)

TextDiff == [accepted : BOOLEAN, byte_slice : Slice, file_name : FileName,
             file_index : Nat, replacement_text : Text]
Item == [file_name : FileName, accepted : BOOLEAN, start : Nat]

\* The shape of every variable, and that the tables of the file picker cover
\* the same files.
TypeOK ==
  /\ file_names \in Seq(FileName)
  /\ file_to_matches \in [Range(file_names) -> Seq(Slice)]
  /\ file_to_num_matches_found \in Seq(Nat)
  /\ Len(file_to_num_matches_found) = Len(file_names)
  /\ selected_file_index \in Nat
  /\ DOMAIN file_managers \subseteq Nat
  /\ file_managers \in [DOMAIN file_managers -> [file_name : FileName, edition : 0..MaxEdition]]
  /\ file_viewer \in [mode : {MatchMode, HistoryMode},
                      shown : SUBSET [file : FileName, slice : Slice, text : Text]]
  /\ diffs \in Seq(TextDiff)
  /\ diffs_as_displayed \in Seq(Item)
  /\ selected_diff \in Nat
  /\ num_matches_found \in Nat
  /\ num_matches_processed \in Nat
  /\ replacement_text \in Text
  /\ searcher \in {"NO_SEARCH_EXECUTED", "INVALID_REGEX", "NO_RESULTS_FOUND", "RESULTS_FOUND"}
  /\ commit_state \in [success_files : SUBSET FileName, error_files : SUBSET FileName,
                       showing_committed_files_modal : BOOLEAN]
  /\ actions_queue \in Seq({"FocusFilePicker", "NoOp"})
  /\ posted \in Nat
  /\ sweeping \in Nat \cup {NotSweeping}
  /\ status \in {"running", "quit", "threw", "aborted"}
  /\ disk \in [FileName -> 0..MaxEdition]
  /\ searched \in [FileName -> 0..MaxEdition]

\* Every diff can be committed: the file it is to be applied to is in memory,
\* under the index the diff carries, and that index names the diff's file.
\* file_managers.at and file_to_matches.at rely on it.
DiffsCommittable ==
  \A i \in DOMAIN diffs :
    /\ IsLoaded(diffs[i].file_index)
    /\ diffs[i].file_index < Len(file_names)
    /\ file_names[diffs[i].file_index + 1] = diffs[i].file_name

\* The selections index their lists, so that no renderer throws out_of_range;
\* files in memory have an index of the list, and so has the accept-all loop.
SelectionInRange ==
  /\ \/ selected_file_index < Len(file_names)
     \/ file_names = << >> /\ selected_file_index = 0
  /\ \/ selected_diff < Len(diffs)
     \/ diffs = << >> /\ selected_diff = 0
  /\ \A i \in DOMAIN file_managers : i < Len(file_names)
  /\ sweeping # NotSweeping => file_names # << >> /\ sweeping <= Len(file_names)

\* No match is lost and none is decided twice: the slices pending for a file
\* and those decided are distinct and do not overlap (what the unused
\* verify_byte_slices would assert before a commit), and they add up to what
\* the search found there (what get_num_matches_processed_for_curr_file asserts).
\* Of a zero-length slice it must be said that it overlaps itself.
DecidedIn(file) == {i \in DOMAIN diffs : diffs[i].file_name = file}
Overlap(s, t) == s = t \/ ~(s.end < t.start \/ t.end < s.start)
EveryMatchOnce ==
  \A n \in DOMAIN file_names :
    LET file == file_names[n]
        pending == file_to_matches[file] IN
    /\ \A i, j \in DOMAIN pending : i # j => ~Overlap(pending[i], pending[j])
    /\ \A i, j \in DecidedIn(file) : i # j => ~Overlap(diffs[i].byte_slice, diffs[j].byte_slice)
    /\ \A i \in DOMAIN pending, j \in DecidedIn(file) : ~Overlap(pending[i], diffs[j].byte_slice)
    /\ Len(pending) + Cardinality(DecidedIn(file)) = file_to_num_matches_found[n]

\* The gauge of the bottom bar: the processed matches are the history.
GaugeIsHistory == num_matches_processed = Len(diffs)

\* What the history menu shows is the history: the line the user deletes is
\* that of the diff deleted.
HistoryAsDisplayed ==
  diffs_as_displayed = [i \in DOMAIN diffs |-> DisplayItem(diffs[i])]

\* Every Event::Custom posted finds an action to pop: actions_queue.front()
\* is never called on an empty queue.
QueueCoversPosted == posted <= Len(actions_queue)

\* When the accept-all button's handler returns, no match of any file is left
\* undecided.
AcceptAllDecidesAll ==
  [][sweeping # NotSweeping /\ sweeping' = NotSweeping =>
       \A file \in DOMAIN file_to_matches : file_to_matches'[file] = << >>]_vars

\* No file is shown or committed from a copy older than the search that
\* found its matches, nor from another file's: the copies, which are kept by
\* index, do not outlive a search, which gives the indices to other files.
FreshFiles ==
  /\ \A file \in FileName : searched[file] <= disk[file]
  /\ \A i \in DOMAIN file_managers :
       i < Len(file_names) =>
         /\ file_managers[i].file_name = file_names[i + 1]
         /\ searched[file_names[i + 1]] <= file_managers[i].edition

=============================================================================
