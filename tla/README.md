# tabdeeli, specified and checked

tabdeeli is a terminal program for interactive search and replace.  It searches
a directory for a regular expression with libag (the silver searcher as a
library), lets its user accept or reject each match, file by file or all at
once, take decisions back, and commit the accepted ones to disk.  This directory
holds TLA+ modules of the program's logic, TLC configurations that check them
on small instances, and proofs that TLAPS checks for every instance.

## The system

| part | code | state | operations |
|---|---|---|---|
| review state and handlers | `src/src/components.cpp` 24-346, `object_utils.cpp`, `state.hpp` | `AppState`: the files with their pending matches (`file_to_matches`), the files in memory (`file_managers`), the history of decisions and its menu lines, the gauge, the selections, the viewer, the committed-files table | search, y, n, s, o, accept all, d, commit, dismissal, three renderers that write state |
| event loop and dispatch | `components.cpp` 731-940, `main.cpp` | the focus, the events waiting, `actions_queue`, the help modal | `CatchEvent` sends an event to a modal, a text input, a shortcut, a handler, a component, or pops an action |
| commit | `utils.hpp` 164-218, `utils.cpp` 118-129 | the files on disk | groups accepted diffs by file, splices them into the copy in memory, writes it |
| lines of a file | `utils.cpp` 76-251 | `FileManager`: contents and line starts | read, index, cut the lines of a byte slice, replace |
| searcher | `searcher.cpp` | `Searcher`: state, results, count | start and finish libag, check an expression, search |
| libag session and workers | `external_libs/libag/libag.c`, `ag_src/search.c` | options, skip tables, worker threads, work queue, per-thread results | init, search, workers, barriers, finish |
| libag's matching | `ag_src/search.c` 24-250, `ag_src/util.c` 70-241, `libag.c` 258-321 | skip tables, hash of pairs, offset, matches | prepare a literal, scan a buffer with Boyer-Moore, the hash or pcre |
| libag's walk | `ag_src/search.c` 489-716, `ag_src/ignore.c`, `ag_src/scandir.c` | active calls with their `struct ignores`, the table against loops | read ignore files, list a directory, queue a file, search a subdirectory |
| menus, inputs, buttons | `flexible_menu.cpp`, `flexible_input.cpp`, `styled_button.cpp` | selection, boxes of the last frame, cursor | keys and mouse |
| drawing, containers copy, JSON dump, vendored headers | `flexible_paragraph.cpp`, `colors.hpp`, `flexible_container.cpp`, `metaprogramming.cpp`, `external_libs/*` | none of the program's | not modelled |

**How they interact.**  All handlers and renderers run on one thread, that of
ftxui's `ScreenInteractive::Loop`: it takes one event at a time from a queue,
hands it to `CatchEvent`, and draws the screen when no event waits.  Keys and
mouse events are put in the queue by a second thread, so any number may wait.  Handlers talk to
each other through `AppState` alone; a handler or renderer may push an action
on `actions_queue` and post an `Event::Custom`, whose arrival pops the front
of that queue.  The search runs inside the search button's handler and blocks
it; libag's four workers are the only other threads that touch data.

**What is hard.**  Drawing writes state: a file is read into memory because it
was drawn, and the history's renderer changes the selected file.  So the order
of keys and drawings matters, and with keys typed ahead they come apart.  The
events that pop actions carry nothing and may be swallowed.  Five handlers move
matches between four structures in separate statements.  Files change on disk
between search, showing and commit, and a commit of several files fails per
file.  A click is matched against the boxes of the last drawing.  In libag,
global state outlives each search and threads meet at barriers; the disk changes
under its walk; its string search skips over what it takes not to match.

**What makes each part correct.**  Review: no match is lost or decided twice,
every index is one of its list, each diff names a file in memory, gauge and
menu agree with the history, accept-all leaves nothing undecided, and together
they implement the ledger below.  Loop: a handler is only given what it can
handle, the user decides what the screen shows, keys are not starved.  Commit:
the bytes written are those of the copy with the accepted edits.  Lines: the
lines shown are those of the slice.  libag: every file handed to the workers is
searched once before the results are joined, and each allocation is freed once;
the walk lists every file that no pattern above it excludes, once; a buffer
yields its leftmost matches in order.

## Modules

`Review` models `AppState` and every handler that changes it.  Names are
those of the code: a variable is a field (`selected_file_index`, `diffs`,
`num_matches_processed`), an action a handler (`DeleteDiff` for
`delete_diff_from_history`, `AddCurrentChange` for
`add_current_change_to_diff_history`).  A handler is one step, for nothing
interrupts it; accept-all is one step per file (`sweeping` is its loop
variable), with no other handler in between.  Data is abstracted as follows.

* A match is its byte slice; a search reports any `MatchList` for any set of
  files (in order, without overlap, as libag reports them).
* A file's contents are an edition number, increased by each write.  A file in
  memory is a name and the edition read, under an index of the file list.  How many bytes
  of an edition come into memory is `CopyLength`: all, or those before the
  first byte 0xFF, at which `read_file_into_file_manager` stops.  `searched` and
  `written` are history variables: the editions the search read, and what a
  commit handed to `write_file_to_disk`.
* The viewer shows the set of (file, slice, text) it displays: one, or none.
* Showing a match throws when its end lies before its start or it starts behind
  the copy (`CanShow`), deciding it when it has no first line (`HasFirstLine`),
  splicing it when the copy does not have all of it (`CanSplice`).
  Then, and when the unchecked optional of a file not in memory is
  dereferenced, the exception ends the program (`Stop("threw")`); a file that
  cannot be opened fails an assertion (`Stop("aborted")`).
* A commit takes the files in the order of their names.  It writes each under the
  name in its copy, or fails to open it; when a splice throws, the
  files before it have been written (`CommitThrows`).
* An action is queued only while `actions_queue` has fewer than `MaxQueue`
  entries, and a file is written while its edition is below `MaxEdition`:
  bounds of the model, not of the code.

Fields nothing reads (`replacement_file_managers`, `preamble`, `postamble`,
`top_bar_state`), widths and colours are left out.  A search with an empty
expression does nothing and is no action.

`App` extends `Review` by the event loop: `events` is the FIFO, `focus` the
focused component, `drawing` where the loop stands.  Each of its steps is a step of
`Review` or leaves its state alone, and what the step posts goes to the end of
`events`.  The order of the branches of `CatchEvent` is the order of the
guards `ModalShown` and `TextInputFocused`.  `boxes` says how many lines of each
menu have a box from the last drawing; `ClickLine` selects a line among these
(`SelectFile`, `SelectDiff`), `Wheel` one among those of the list, `PointAt`
moves the focus under the pointer.  An index without a line is thus possible,
and each handler and renderer that calls `at()` with it throws (`IsListed`).
The event that waits is a token, `"key"`: which key it is, or where the mouse
was, is chosen when it is handled.  With `Paced` the user presses a key or a
button of the mouse only when the screen has been drawn; without, up to
`MaxTyped` events wait.  External, and modelled as the code uses it: ftxui's loop (events in order,
drawing when none waits), its containers (`MoveFocus` goes to any component
that can be focused from the keyboard), `TakeFocus`.

`Ledger` is the abstract specification: matches found, decisions on them with
the text they carry, what the last commit wrote and what it reports; search,
decide, revoke, commit, and an end at any moment, in the middle of a commit, too
(`BreakOff`).
`ReviewLedger` maps `Review` to it: `found` is what is pending or decided,
`decision` the history as a function of matches, `written` the edits handed
over, `reported` the two sets of files of `commit_state`.  `MCReview` and `MCApp` hold the constants of the runs.

`FileText` models the bytes: reading a file into a `FileManager`, its line
index, the lines of a byte slice, the replacement of a slice, the splice of a
commit, and `fprintf` with the contents as its format.  A text is a sequence of
kinds of bytes (ordinary, newline, percent sign, NUL, 0xFF); indices are those
of the code, and the end of a slice wraps at `WordModulus` as a `U64` does.
Each operator is a function of the code, under its name, and keeps its
corrections by one.  `FileEdit` puts them to use on one file: it is searched,
read when first shown (`Populate` for `populate_file_viewer_state`), decided,
taken back, committed any number of times from the copy in memory, and searched
again.  Exceptions end the program (`Stop("threw")`); an undefined conversion
prints something (`Garbage`) or ends the program with the file open and empty.

`WorkerPool` models libag's threads.  The main thread's `pc` follows
`ag_init_config`, `ag_search` and `ag_finish`, each worker's stands for its
place in `search_file_worker`; queue, flags and per-thread lists have the
names of the code.  What happens under `work_queue_mtx` is one step.
A barrier is a step that takes all who have arrived (`NumWorkers + 1`)
further.  A waiting thread may wake without a signal.  `pthread_create` may
fail: then `ag_stop_workers` joins a thread that does not exist, which is
undefined (`JoinUncreated` may lose the program, or leave `workers` set and the
library unusable).  The walking thread searches a path itself when it turns out to
be a file (`SearchHere`), while the workers search theirs.  A file is a value, and
whether it has a match is chosen by the search.  `SearchService` is the abstract specification: a search is asked
for, and answered with each matching file once; it may be lost when threads
cannot be created, and then refuses.

`DirWalk` models the thread that fills that queue.  The recursion of
`search_dir` is `stack`, a sequence of frames with path, key in `symhash`,
`struct ignores` and the entries not yet taken; `at` is the place in the
function.  The parent pointers of the ignores, which skip directories without
patterns (`is_empty`, `Parents`), are the set of calls they reach.  A path is
the sequence of the names below the search directory.  What `path_ignore_search`
compares is a path with or without its leading slash (`temp`), which depends on
how the search directory is written: `./` (the default of `main.cpp`), by a
relative name, or absolute.  A pattern is its kind, the paths it matches and
whether it ends with a slash: `fnmatch`, the parsing of a line and the binary
search over sorted patterns are data, the binary search being membership.  The
disk is a tree of inodes, so that a directory may be found below itself.
Another program may remove an entry or put a file in place of a directory
between any two system calls.  Left out: names of which one is a prefix of
another (the code compares paths byte by byte), a directory entry without
`d_type`, failed allocations, the options that libag leaves off.

`BufferSearch` models what happens to one buffer.  `alpha_skip`, `find_skip`
and `FillCell` are the tables `setup_search` prepares, with the case folding
that `CASE_SMART` chooses; a loop that overwrites an entry is the last of its
rounds that writes it.  `boyer_moore_strnstr` makes one alignment per step,
`hash_strnstr` one sample, `SearchRegex` one call of `pcre_exec`, which is
external: `spans` says for each position whether and how far the regex matches
there, and any assignment is tried.  Indices are those of the code, from the
start of the buffer.  `x86` chooses the platform: elsewhere only Boyer-Moore is
used.  The hash has one cell per pair of bytes, as in the code.

`AgSession` models the searches of one run over libag's globals: check of an
expression, destruction and construction of the `Searcher`, search.  An
expression is a literal, a regex that compiles or one that does not; a pointer
is null, dangling, or the expression its memory was filled from.  A second free
is recorded in `freed_twice`; it aborts the program or passes unnoticed.
Options that do not change between searches, and the leak of compiled
expressions, are left out.

`ReviewProofs`, `FileEditProofs`, `AppProofs`, `WorkerPoolProofs`,
`AgSessionProofs`, `BufferSearchProofs` and `DirWalkProofs` hold the theorems,
`FoldLemmas` the lemmas about folds that several of them share.

## Runs

| run | instance | asks |
|---|---|---|
| `review` | 2 files, slices [0,1] and [2,3], at most 3 matches, one text | `TypeOK`, `DiffsCommittable`, `SelectionInRange`, `EveryMatchOnce`, `GaugeIsHistory`, `HistoryAsDisplayed`, `QueueCoversPosted`, `AcceptAllDecidesAll` |
| `review_ledger` | 2 files, one changed by another program, slices [0,1] and [2,3] with a zero-length one between, at most 2 matches, 2 texts | `FreshFiles`, `ImplementsLedger` |
| `app_paced` | 2 files, one changed by another program, at most 2 matches, 2 interchangeable texts, a user who waits for the screen | `AppTypeOK`, `NeverThrows`, `DecidesWhatIsShown` |
| `app_type_ahead` | 1 file with up to two matches, keys and clicks at any time | `KeysAreHandled`, under fairness |
| `file_edit` | every file of up to 3 bytes of all kinds, every set of up to 2 matches, of length zero, too, 2 texts | `PrevLinesAreOfMatch`, `NewLinesHoldReplacement`, `HistoryPointsAtMatch`, `CommitIsExact`, `CommitIsPreviews` |
| `file_edit_format` | ordinary bytes and percent signs | `OnlyAcceptedIsWritten`, violated |
| `worker_pool` | 3 workers, 3 files, creation may fail | `TypeOK`, `QuietWhileJoining`, `EachFileOnce`, `ImplementsService` and `StopEnds` under fairness |
| `buffer_search` | expressions of 1 to 5 bytes over 6 bytes with capitals and a byte outside ASCII, buffers of up to 9 bytes, any regex over up to 3 bytes, both platforms | `TypeOK`, `LeftmostInOrder`, `NothingMissed`, `ReadsInBuffer`, `ScanEnds` under fairness |
| `dir_walk` | 4 directories and 3 files, a loop, a link, a pipe and a hidden entry, 144 sets of ignore files, 3 forms of the search directory, depth limit 2, one change by another program | `TypeOK`, `LoopTable`, `NothingIgnoredIsTaken`, `ListedAreVisible`, `NothingMissed`, `AnchoredPatternsApply`, `WalkEnds` under fairness |
| `ag_session` | 2 literals, 2 regexes, one broken | `SearchesItsExpression`, `OptionsFreedOnce`, `ResultsAreOfExpression`, `GoodNotRefused` |
| `ag_session_check` | the same | `BrokenIsReported`, violated |
| `ag_session_skip` | the same | `SearchesAsOneLikes`, violated |

Two files are enough for a decision to hit the wrong file, a selection to move
and a commit to fail in part; three matches for a file with two and a file with
one, so that order within a file and the last match of a file both matter; the
slices touch, so an error of one byte would overlap.  Two texts tell the text
shown from the text committed.  A queue of two (`review`, `app_paced`) is enough for an
event to be swallowed, its action left and another pushed behind it.  Copies have
four bytes, which hold both slices; in `review_ledger` and `app_paced` the first
file loses bytes when another program writes it, and of the second only three
come into memory, for its fourth is 0xFF.

Three bytes hold a line's end in the middle, at the start and at the end,
two matches that touch with a byte beside them, and three lines.
`OnlyAcceptedIsWritten` is the promise of the help text; `CommitIsExact` says
what becomes of it: a commit drops the first byte 0xFF of the file and what follows, and
where neither the file nor the texts put into it have percent signs or NULs, nothing else.  Three workers
let one wait, one work and one stand at a barrier; three files let a worker take
a second one while another is in hand and one is queued.
Two expressions of a kind show one that is left over from the other.
One file is enough for `app_type_ahead`: a second decision empties it, and its
line in the history is gone while its box is still on the screen.

In `buffer_search` `UCHAR_MAX` is 5 (`CharCount` 6), so that expressions of one
and two bytes are too short for the hash and those of five too long, and every
length between takes it; buffers of nine bytes hold two samples of an
expression of four bytes, a tail, and two matches that touch or overlap;
self-similar expressions (`aab`, `aaa`, `abaab`) are those on which a skip table
is easily wrong.  In `dir_walk` the directory `src/lib/src` lies one level below
the limit, `src/up` is the search directory again, and the search directory has
the name of one below it (`lib`), which is where a path compared from the wrong
place would match; the pattern files combine each kind of pattern with an empty
or a merely inverted one above or below it.

`CHECK_DEADLOCK FALSE` in the two `App` runs: when the history has the focus
and the queue is at its bound, the model stops where the program would queue
further.  In the `Review` runs every ended program repeats its last state
(`Exited`), and deadlock is checked.

**What the runs taught.**  `NeverThrows` needs the paced user and excuses only a
match that is not whole in the copy of its file.  There are three ways to one:
the expression matched nothing at all (length zero), the file became shorter
after the search, or it has a byte 0xFF before the end of the match, which cuts the
copy of a file that nobody changed (`contents.replace` then throws while the
match is drawn, or `append` while it is committed).  With keys typed ahead, an arrow and a `y` handled before the next drawing decide in a file that
was never read, and `file_manager_opt.value()` throws.  `DecidesWhatIsShown`
needs its premise that no action is left over: an `Event::Custom` swallowed
under the help modal leaves a `FocusFilePicker` behind, which a later event
pops while the user looks at the history.  With the help modal open over the
history each drawing leaves one more action; the queue grows until the modal is
closed, and then it does not shrink.  A click ahead of the drawing, on a line
whose diff was just deleted, selects an index that is no longer there, and the
next renderer throws `out_of_range`.  `AnchoredPatternsApply` holds in the form
it is stated: with the default search directory `./`, patterns with a path, or
anchored with a slash, of an ignore file below the top exclude nothing, because
`abs_path` has no leading slash and `path_start` has one; with a relative name
none do, because `path_start` keeps the name of the search directory.  The
manual (`external_libs/libag/doc/man1/ag.1.md` 231) knows no such difference.
An expression `.` is answered with one match that spans the whole file
(`SearchDot`).  `PrevLinesAreOfMatch` asks for whole lines
only of those that end with a newline: the last byte of a file without a final
newline is not shown.  A byte 0xFF ends the copy in memory, because `fgetc`'s
result is kept in a `Char`, and a commit writes the copy (`CommitIsExact`).
When a worker cannot be created, `workers_len` counts it
all the same, and `ag_stop_workers` joins a thread that does not exist.

**Where the code and its documents disagree.**  Three runs expect a violation,
each of a sentence of the repository.
`file_edit_format`: `write_file_to_disk` gives the contents to `fprintf` as its
format, so `%%` loses a sign in every file committed, although the help says
that only accepted diffs are committed.
`ag_session_check`: after a literal expression was searched, `opts.literal` stays
set, and the check of a broken expression passes; the search then finds nothing.
`ag_session_skip`: after a literal search, a regex search frees
`find_skip_lookup` again, although one may search as often as one likes.

**Fairness.**  `KeysAreHandled` needs weak fairness of the loop as a
whole.  The loop's thread never waits while an event is there or a frame is
due; nothing is assumed of the user or of other programs, and nothing of single
handlers.  `FairSpec` of `WorkerPool` assumes weak fairness of each worker and
of the main thread once it has been told to start, search or stop: a thread
that can run is scheduled in the end.  It is not assumed that anyone searches
or stops.  `FairSpec` of `DirWalk` and of `BufferSearch` assume that the thread
that walks or scans goes on: it holds no lock while it does, and waits for
nobody.  That another buffer comes, or that the disk stops changing, is not
assumed.

## Proofs

`ReviewProofs` proves, for every set of files, slices and texts and every bound,
`Spec => []Inv` for `TypeOK`, `DiffsCommittable`, `SelectionInRange`,
`GaugeIsHistory`, `HistoryAsDisplayed`, `QueueCoversPosted` and `FreshFiles`,
and the action property `AcceptAllDecidesAll`.  The assumption is
`ReviewAssumption`: the files are finitely many numbers, slices have natural
bounds, there is at least one text, copies have a length.

None of these is inductive alone.  `IInv` is their conjunction, but for the
selections: the diffs must name loaded files (`DiffsCommittable`) for the element
read to have its type; the gauge must count the history for its decrement to stay
a natural number; the menu must mirror the history for its deletion and its bound
to be those of the diffs; the lists are no longer than the list of files
(`ListsInRange`).  There is one lemma per action.
Handlers that decide share `DecideFacts` and `DecisionKeeps`, those that show a
file `PopulateFacts`, those that start over `StartOver`.

`IInv` is proved inductive for more than `Next`: for `LoopStep`, which adds clicks
on lines that are no longer listed, the end of the program at any moment, and
drawing that throws.  So it holds of `App` as well, where such clicks exist.
`SelectionInRange` does not survive them; it is proved on top of `IInv` for `Next`
(`NextSelected`), in which every click is on a line of its list.  For
`AcceptAllDecidesAll` the invariant `SweptEmpty` says the files before the
loop's index are empty; a round empties the one at the index
(`AcceptFileEmpties`) and no other handler runs.

It also proves `EveryMatchOnce` on top of `IInv`, which supplies
that an index names a file and that the diff deleted is one of the history.  The
invariant is taken apart by file: `OnceIn` relates one file's pending matches,
the history and the count of the search.  Lemmas about sequences say what
happens to it when a search reports a list (`OnceAtSearch`), when the first n
matches move behind the history (`OnceDecided`: the indices decided are those of
before and n new ones) and when a diff leaves the middle of the history
(`OnceDeleted`: a bijection shows that the indices decided are as many as before
but one), each with its counterpart for the files the step is not about.

It then proves that every step of `Review` maps to a step of `Ledger` or to
none.  The ledger's `decision` is a function of matches and the history a
sequence: because every match is decided once, the history names no match twice
(`Distinct`), so appending to it extends the function (`DecideDecision`) and
deleting from it takes one match out (`RevokeDecision`).  What is found stays the
same because the pending matches lose what the history gains (`RestPending`) and
the other way round (`AppendPending`).  A commit's edits are those of the
accepted part of the function, file by file; it reports the files it wrote because
each is written under the name of its own copy (`TargetIsFile`).  That two matches never start at
one place, even empty ones, is part of `EveryMatchOnce`, which the proof needs before and after
each step.

`AppProofs` proves that each step of the event loop is a `LoopStep` of `Review` or
leaves its state alone (`AppStepIsLoopStep`), and with it everything above for the
whole program: `AppTypeOK`, the invariants of the handlers, `EveryMatchOnce`,
`AcceptAllDecidesAll`, the refinement of `Ledger`.  `AppTypeOK` counts: as many
`Event::Custom` wait as were posted; lemmas say what a key, a post and a pop do
to the counts (`KeyComesIn`, `CustomsComeIn`, `EventTaken`).
Three theorems are about a user who waits for the screen (hypothesis `Paced`, the
constant of `MCAppPaced.cfg`): `SelectionInRange`, `NeverThrows` and
`DecidesWhatIsShown`.  Their invariant `PacedInv` says what the last drawing left
for the key that waits: at most one key waits and nothing behind it (`Orderly`),
the boxes are those of the lists as they are (`BoxesAgree`), the file selected in
the picker, or that of the selected diff, is in memory (`FileIsRead`,
`FileOfDiff`), no leftover changes the focus
under the key (`NoOpWaits`, `FocusMoved`), and the viewer holds the first match
of the selected file with the text typed (`FirstIsShown`).  For `NeverThrows`
each step that throws leads to a match that is not whole: one pending or one
decided, in the copy of its own file (`BrokenMatch`, `DiffSlice`); a commit that throws
leaves that copy in memory, whatever it wrote before (`SpliceThrows`).  Without `Paced` each of
the three is false, as said under "What the runs taught".  `PacedInv` was
checked by TLC on the constants of `MCAppPaced.cfg` before they were proved.

`FileEditProofs` proves the five properties of `file_edit` for every alphabet of
bytes, every length of file, every number of matches and all texts, with
`MinSize` zero or one.  What it assumes is `FileEditAssumption`: a file is shorter
than `WordModulus`, so that only the end of an empty match at byte 0 wraps.  None of
the properties is inductive: they speak of what the viewer and the history show
now, but the copy that was shown was read before commits wrote the disk.  The
invariant `FileInv` ties both to the search: the copy is that of the file as it was
searched (`CopyKept`), matches lie within that file and apart (`MatchesKept`), and
each diff and what is shown were made from the copy by handlers that did not
throw (`DiffsMade`, `ViewerMade`).  The rest is about the operators of `FileText`:

- Lines.  The fold over the bytes that collects line starts keeps one start per
  newline (`StartsFold`); so the binary searches, with their three corrections,
  find the line of the first and the last byte (`StartLineIs`, `EndLineIs`), and the lines
  between are those of the match (`PrevLines`), of a replacement (`NewLines`) and of
  the history's column (`FirstLineIs`).
- The order of a splice.  Finitely many diffs that are apart can be sorted, in one
  way only (`OrderExists`, `SortedFacts`), and the cursor after each is behind the end of its slice
  (`SpliceFold`).
- Splice and preview.  The splice goes from the first diff to the last, the
  previews from the last to the first.  What the previews down to diff k leave of
  the contents is unchanged before that diff (`PreviewsLeave`), so the splice of the
  first k, followed by what the previews of the others leave behind its cursor, is
  the same text for every k (`SplicedOrPreviewed`); at both ends this is
  `SplicedAsPreviewed`.
- Splice and edit.  `Edited` says for each byte whether it is dropped and what is put before
  it.  Byte by byte, the parts so far are what the splice has, with the bytes
  from its cursor on (`OnePartMore`, `SplicedIsEdited`).
- Reading gives what comes before the first 0xFF (`ReadIsBeforeEOF`), and printing leaves a
  plain text as it is (`PlainIsPrinted`).  `CommitIsExact` follows with itself as
  invariant: a commit always starts from the copy, never from what the last one wrote.

`FoldLemmas` is about the operators that the community modules define by a
recursive function: `FlattenSeq`, `FoldLeft`, and the largest element of a set of
numbers.  Such a function is a `CHOOSE`, so each proof first shows that a
function with its equation exists.  The library's induction theorems take an
operator as a parameter, which none of the provers can instantiate; instead,
where a set of numbers is not empty it has a smallest element (`NatMin`), and
the smallest counterexample is refuted (`InductionUpTo`).

`WorkerPoolProofs` proves `TypeOK`, `QuietWhileJoining` and `EachFileOnce`
for any number of workers and any finite set of files.  Its invariant says where
the threads can be at each `pc` of the main thread (`FlagsFollowMain`,
`WorkersFollowMain`: between the barriers no worker is at the queue), that
nothing of a search is left outside one (`NothingOutsideSearch`), and that queue,
hands and lists never hold a file twice nor share one (`QueueApart`,
`HandsApart`, `ResultsApart`) while none with a match is lost (`NothingLost`).
`EachFileOnce` alone is not inductive: that a worker puts a file into its list
once needs that no other place holds it.  `PoolServes` proves that each step of
the pool is a step of `SearchService` or none.  The join makes one list of those
of the threads; as these hold every file with a match, and each once
(`FlattenSeqHolds`), the list answers the search as the service promises.

`AgSessionProofs` proves type correctness and the four properties of `ag_session` for any
expressions.  Its invariant says which options are alive at each step of the
handler (`OptionsAlive`: between handlers nothing is dangling but the skip table)
and what the handler's verdict and results stand for (`HandlerInOrder`).

`BufferSearchProofs` proves the four invariants of `buffer_search` for every
alphabet, expression and buffer.  Two of its facts carry the weight.  Of the skip
tables: whenever bytes differ at place `i`, an occurrence that starts further on
but before the skipped alignment would need the suffix behind `i` to reappear,
and then `SuffixWrites` or `last_prefix` would have made the skip smaller.  Of
the hash: every pair of the expression is in a cell that its probe reaches
before a free one (the table only grows, so a cell that was passed stays full),
and every window of `f_len` bytes covers a sample.  The invariant says that the
matches reported are the leftmost so far and that nothing matches between the
last one and the place looked at.

`DirWalkProofs` proves `TypeOK`, `LoopTable` and `NothingIgnoredIsTaken` for
every disk, all patterns, any depth and any number of changes by another
program.  The invariant (`StackInv`) says that a call below the top waits at its
entries for the call above, that a call which has not entered holds no key, and
that every call the parent pointers leave out has no pattern that could exclude
(`SkippedAreEmpty`): with it the chain that `filename_filter` follows is as good
as the whole stack (`EmptyExcludesNothing`).

It also proves what the walk lists: `ListedAreVisible`, `NothingMissed` and
`AnchoredPatternsApply`.  These compare the calls with the disk as the walk found
it, so a second invariant (`OrderInv`) says what a call knows about that disk
although another program has changed it since: a directory found now is the one
found then (`DirectoryWasThere`), an entry that waits is the one of then or a file
put in its place, and the ignores of every call are those of its path.  The third
(`ListInv`) divides the paths: one that should be listed, and that nobody
changed, is listed already or still to come (`AllToCome`), which is what lies
below an entry that waits or below a directory not yet read; what is listed is
not to come again (`ListedIsPast`).  There is one lemma per action: reading a
directory hands its path on to its entries (`ListDirectoryLists`), an entry to a
call (`SubdirectoryLists`), a loop and the limit of depth drop nothing that
should be listed.  When the stack is empty nothing is to come.  The walk of an
anchored pattern needs no more than that a queued path and the directories above
it were let through (`QueuedNotExcluded`), and that a pattern names no path of
length zero.

Model-checked only: liveness (`KeysAreHandled`, `StopEnds`, `WalkEnds`,
`ScanEnds` and the fair part of `ImplementsService`) and whatever rests on
`ENABLED`, which are out of the prover's reach, and that no run deadlocks.

## Not modelled

Drawing, layout, colours and wording, the JSON dump, the copy of ftxui's
containers that nothing constructs, and the vendored headers hold none of the
program's state.  Of libag, decompression, printing and the command line are
left out: tabdeeli does not reach them.  The test for binary files, `fnmatch` and
pcre are data that the models leave open.  The cursor inside a text input decides
where the next character goes and nothing else.  Writes that fail half way,
files of 4 GiB (line starts are `U32`) and failed allocations are not modelled.
The vendored headers are the bulk of the lines and hold no logic of the program.

## Plan

1. `Review`, `Ledger`, `App`, `ReviewProofs`: done.
2. `FileText`, `FileEdit`: done.
3. `WorkerPool`, `SearchService`, `WorkerPoolProofs`: done.
4. `AgSession`, `AgSessionProofs`: done.
5. The mouse in `App`, `BufferSearch`, `DirWalk` and their proofs: done.
6. `Input`: the cursor of a text input; the search directory's input, whose
   keys are shortcuts unless it is one of those `CatchEvent` excepts.
7. The proofs about `Ledger` and `App`: done.
8. The safety part of the refinement of `SearchService`; what the walk lists: done.
9. `FileEditProofs`, what is shown and what a commit writes: done.
