-------------------------------- MODULE App --------------------------------
(***************************************************************************)
(* The event loop around Review: keys, mouse events and Event::Custom wait *)
(* in one FIFO; the loop handles them one at a time and draws only when    *)
(* none is waiting; CatchEvent (function App) decides by the open modal    *)
(* and the focused component what an event does.  Each step of the loop is *)
(* one step of Review or leaves its state alone, but for a click on a line *)
(* that is on the screen and no longer in the list.                        *)
(*                                                                         *)
(* The loop, the FIFO and the containers that move the focus belong to     *)
(* FTXUI, which is not in the repository: they are modelled as the code    *)
(* uses them.  A key or mouse event waits as a mere token, "key": which it *)
(* was is chosen when it is handled, which allows everything the user may  *)
(* have typed and every place the mouse may have been.                     *)
(***************************************************************************)
EXTENDS Review

CONSTANTS
  MaxTyped,   \* bound: keys that may wait
  Paced       \* TRUE: the user types one key at a time, after the screen is drawn

ASSUME AppAssumption == MaxTyped \in Nat /\ Paced \in BOOLEAN

VARIABLES
  focus,               \* the component that has the keyboard
  events,              \* what waits: "key" and "custom"
  drawing,             \* "no": not drawn since the last event; "now"; "done"
  showing_help_modal,
  boxes                \* of each menu: how many lines the last drawing gave a box

appVars == <<vars, focus, events, drawing, showing_help_modal, boxes>>

Inputs == {"search_text", "replacement_text", "search_directory"}
Buttons == {"accept_all", "search", "commit", "quit"}
Component == Inputs \cup Buttons \cup {"top_bar", "files", "history"}

Keys == {i \in DOMAIN events : events[i] = "key"}
Customs(n) == [i \in 1..n |-> "custom"]

\* The guards of the first two branches of CatchEvent.
ModalShown == showing_help_modal \/ commit_state.showing_committed_files_modal
TextInputFocused == focus \in {"search_text", "replacement_text"}

\* A step of the loop takes the first event; what its handler posts goes to
\* the end.
LoopRuns == Running /\ drawing # "now"
Take(event) ==
  /\ LoopRuns
  /\ events # << >>
  /\ Head(events) = event
  /\ drawing' = "no"
  /\ UNCHANGED boxes
TakeKey == Take("key")
PostCustoms == events' = Tail(events) \o Customs(posted' - posted)

-----------------------------------------------------------------------------
(* The user. *)

Type ==
  /\ status = "running"
  /\ Cardinality(Keys) < MaxTyped
  /\ Paced => drawing = "done" /\ Keys = {}
  /\ events' = Append(events, "key")
  /\ UNCHANGED <<vars, focus, drawing, showing_help_modal, boxes>>

-----------------------------------------------------------------------------
(* Keys under a modal: all but Escape are swallowed. *)

EscapeModal ==
  /\ TakeKey
  /\ ModalShown
  /\ showing_help_modal' = FALSE
  /\ \/ commit_state.showing_committed_files_modal /\ DismissCommit
     \/ ~commit_state.showing_committed_files_modal /\ UNCHANGED vars
  /\ UNCHANGED focus
  /\ PostCustoms

\* A key nothing reacts to, under a modal or not.
IgnoredKey ==
  /\ TakeKey
  /\ UNCHANGED <<vars, focus, showing_help_modal>>
  /\ PostCustoms

(* Keys in a text input.  The search directory is not among the inputs the
   second branch of CatchEvent lets characters through to. *)

EscapeInput ==
  /\ TakeKey
  /\ ~ModalShown /\ TextInputFocused
  /\ focus' = "search"
  /\ UNCHANGED <<vars, showing_help_modal>>
  /\ PostCustoms

TypeReplacement ==
  /\ TakeKey
  /\ ~ModalShown /\ focus = "replacement_text"
  /\ EditReplacement
  /\ UNCHANGED <<focus, showing_help_modal>>
  /\ PostCustoms

(* Shortcuts: A S C Q R F H, and P or ?. *)

ShortcutTarget == Buttons \cup {"search_text", "files", "history"}
Shortcut ==
  /\ TakeKey
  /\ ~ModalShown /\ ~TextInputFocused
  /\ focus' \in ShortcutTarget
  /\ UNCHANGED <<vars, showing_help_modal>>
  /\ PostCustoms

ShowHelp ==
  /\ TakeKey
  /\ ~ModalShown /\ ~TextInputFocused
  /\ showing_help_modal' = TRUE
  /\ UNCHANGED <<vars, focus>>
  /\ PostCustoms

(* y, n, s and o in the files menu, d in the history menu. *)

FilesKey ==
  /\ TakeKey
  /\ ~ModalShown /\ focus = "files"
  /\ \/ \E accepted \in BOOLEAN : AddCurrentChange(accepted)
     \/ AcceptAllInFile
     \/ RejectAllInFile
  /\ UNCHANGED <<focus, showing_help_modal>>
  /\ PostCustoms

HistoryKey ==
  /\ TakeKey
  /\ ~ModalShown /\ focus = "history"
  /\ DeleteDiff
  /\ UNCHANGED <<focus, showing_help_modal>>
  /\ PostCustoms

(* Enter on the focused button, or a click on any: the button clicked takes *)
(* the focus first.                                                         *)

PressButton ==
  /\ TakeKey
  /\ ~ModalShown
  /\ \/ focus' = "search" /\ (Search \/ SearchInvalidRegex)
     \/ focus' = "accept_all" /\ AcceptAllInAllFiles
     \/ focus' = "commit" /\ (Commit \/ CommitThrows)
     \/ focus' = "quit" /\ Stop("quit")
  /\ UNCHANGED showing_help_modal
  /\ PostCustoms

(* Arrows and Tab: a menu moves its selection; the containers move the      *)
(* focus, to a component that can be focused from the keyboard.  The        *)
(* history menu keeps every such key, and never gets the focus this way.    *)

MoveSelection ==
  /\ TakeKey
  /\ ~ModalShown
  /\ \/ focus = "files" /\ MoveInFiles
     \/ focus = "history" /\ MoveInHistory
  /\ UNCHANGED <<focus, showing_help_modal>>
  /\ PostCustoms

Reachable == Inputs \cup Buttons \cup (IF file_names = << >> THEN {} ELSE {"files"})
MoveFocus ==
  /\ TakeKey
  /\ ~ModalShown /\ focus # "history"
  /\ focus' \in Reachable
  /\ UNCHANGED <<vars, showing_help_modal>>
  /\ PostCustoms

(* The mouse.  Without a modal its events reach every component, whichever  *)
(* has the focus; the component under the pointer takes the focus, pressed  *)
(* or not.  A menu looks for the pointer in the boxes of its last drawing.  *)

PointAt ==
  /\ TakeKey
  /\ ~ModalShown
  /\ focus' \in Inputs \cup Buttons \cup {menu \in DOMAIN boxes : boxes[menu] > 0}
  /\ UNCHANGED <<vars, showing_help_modal>>
  /\ PostCustoms

ClickLine ==
  /\ TakeKey
  /\ ~ModalShown
  /\ \/ focus' = "files" /\ \E i \in 0..(boxes.files - 1) : SelectFile(i)
     \/ focus' = "history" /\ \E i \in 0..(boxes.history - 1) : SelectDiff(i)
  /\ UNCHANGED showing_help_modal
  /\ PostCustoms

Wheel ==
  /\ TakeKey
  /\ ~ModalShown
  /\ \/ \E i \in StepsFrom(selected_file_index, Len(file_names)) : SelectFile(i)
     \/ \E i \in StepsFrom(selected_diff, Len(diffs_as_displayed)) : SelectDiff(i)
  /\ UNCHANGED <<focus, showing_help_modal>>
  /\ PostCustoms

HandleKey ==
  \/ PointAt \/ ClickLine \/ Wheel
  \/ EscapeModal \/ IgnoredKey \/ EscapeInput \/ TypeReplacement
  \/ Shortcut \/ ShowHelp \/ FilesKey \/ HistoryKey
  \/ PressButton \/ MoveSelection \/ MoveFocus

-----------------------------------------------------------------------------
(* Event::Custom, by the order of CatchEvent's branches. *)

HandleCustom ==
  /\ Take("custom")
  /\ \/ /\ ModalShown \/ TextInputFocused
        /\ SwallowCustom
        /\ UNCHANGED focus
     \/ /\ ~ModalShown /\ ~TextInputFocused
        /\ PopAction
        /\ focus' = IF Head(actions_queue) = "FocusFilePicker" THEN "files" ELSE focus
  /\ UNCHANGED showing_help_modal
  /\ events' = Tail(events)

(* The rest of a pressed accept-all button. *)

\* Mutant: the event is not posted.
ContinueSweepSilently ==
  /\ SweepFile \/ SweepDone
  /\ UNCHANGED <<events, focus, drawing, showing_help_modal, boxes>>

ContinueSweep ==
  /\ SweepFile \/ SweepDone
  /\ events' = events \o Customs(posted' - posted)
  /\ UNCHANGED <<focus, drawing, showing_help_modal, boxes>>

(* Drawing: begun when nothing waits; a key may come in meanwhile.  Only the
   renderer of the focused component writes to the state. *)

BeginDraw ==
  /\ LoopRuns
  /\ events = << >> /\ drawing = "no"
  /\ focus = "history" => QueueHasRoom
  /\ drawing' = "now"
  /\ UNCHANGED <<vars, focus, events, showing_help_modal, boxes>>

RenderFocused ==
  \/ focus = "files" /\ RenderFilePicker
  \/ focus = "history" /\ (RenderHistory \/ RenderEmptyHistory)
  \/ focus = "search_text" /\ RenderSearchInput
  \/ /\ focus \notin {"files", "history"}
     /\ focus = "search_text" => searcher # "INVALID_REGEX"
     /\ UNCHANGED vars

\* The file viewer is drawn whatever has the focus, and looks the selected
\* file up in the list.
DrawWith(lines) ==
  /\ Running
  /\ drawing = "now"
  /\ IF file_names # << >> /\ ~IsListed(selected_file_index) THEN Stop("threw")
                                                            ELSE RenderFocused
  /\ drawing' = "done"
  /\ boxes' = lines
  /\ events' = events \o Customs(posted' - posted)
  /\ UNCHANGED <<focus, showing_help_modal>>

\* Mutant: the boxes of lines that are gone stay.
EndDrawKeepsBoxes ==
  DrawWith([files |-> IF boxes.files > Len(file_names) THEN boxes.files ELSE Len(file_names),
            history |-> Len(diffs_as_displayed)])
EndDraw == DrawWith([files |-> Len(file_names), history |-> Len(diffs_as_displayed)])

WriteOutside ==
  /\ \E file \in OutsideFiles : EditOutside(file)
  /\ UNCHANGED <<focus, events, drawing, showing_help_modal, boxes>>

-----------------------------------------------------------------------------
AppInit ==
  /\ Init
  /\ focus = "top_bar" /\ events = << >> /\ drawing = "no" /\ showing_help_modal = FALSE
  /\ boxes = [files |-> 0, history |-> 0]

Loop == HandleKey \/ HandleCustom \/ ContinueSweep \/ BeginDraw \/ EndDraw
AppNext == Type \/ Loop \/ WriteOutside

AppSpec == AppInit /\ [][AppNext]_appVars

\* The loop runs on a thread of its own and never waits while it has
\* something to do.
FairAppSpec == AppSpec /\ WF_appVars(Loop)

-----------------------------------------------------------------------------
\* The shape of the loop's own variables; the Event::Custom that wait are
\* those Review counts as posted.
AppTypeOK ==
  /\ focus \in Component
  /\ events \in Seq({"key", "custom"})
  /\ drawing \in {"no", "now", "done"}
  /\ showing_help_modal \in BOOLEAN
  /\ boxes \in [{"files", "history"} -> Nat]
  /\ Len(events) - Cardinality(Keys) = posted

\* A user who waits for the screen never makes a handler throw: whatever the
\* order of keys and clicks, the file a decision needs has been read by the
\* time the decision is taken, and the line clicked is one of its list.  What
\* throws is a match that is not whole in the copy of its file: of length zero,
\* or reaching behind the copy, because the file changed after the search or has
\* a byte 0xFF before the end of the match.
MatchesOf(file) ==
  Range(file_to_matches[file]) \cup {diffs[i].byte_slice : i \in DecidedIn(file)}
IsWhole(index, slice) == WellFormed(slice) /\ slice.end < LengthOf(index)
NeverThrows ==
  status = "threw" =>
    \E n \in DOMAIN file_names : \E slice \in MatchesOf(file_names[n]) : ~IsWhole(n - 1, slice)

\* ... and decides what the screen shows: the first match that a key in the
\* files menu decides is the one in the file viewer, and the text it is
\* decided with is the one shown.  This needs a queue without leftovers: an
\* Event::Custom swallowed by CatchEvent leaves its action behind, and a
\* FocusFilePicker left behind moves the focus under a user who looks at the
\* history.
NoLeftovers == Len(actions_queue) = posted
DecidesWhatIsShown ==
  [][NoLeftovers /\ Len(diffs') > Len(diffs) =>
       LET diff == diffs'[Len(diffs) + 1] IN
       [file |-> diff.file_name, slice |-> diff.byte_slice, text |-> diff.replacement_text]
         \in file_viewer'.shown]_appVars

\* A key that waits is handled, unless the program is over: no handler loops
\* for ever, and the actions that renderers post do not starve the keyboard.
KeysAreHandled == (Keys # {}) ~> (Keys = {} \/ status # "running")

=============================================================================
