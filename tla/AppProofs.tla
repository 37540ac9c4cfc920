------------------------------ MODULE AppProofs ------------------------------
(***************************************************************************)
(* Proofs about the whole program.  Whatever the user types, clicks and    *)
(* types ahead, a step of the loop is one of Review or leaves its state    *)
(* alone, so what is proved of the handlers in any order holds of the      *)
(* program (AppStepIsLoopStep).  A user who waits for the screen has more: *)
(* PacedInv says what the last drawing left for the key that waits.        *)
(***************************************************************************)
EXTENDS App, ReviewProofs

-----------------------------------------------------------------------------
(* A step of the loop, as Review sees it.                                  *)

\* The posts of a handler: one at most, and none taken.
Posts == posted' \in {posted, posted + 1}

LEMMA HandlersPost ==
  ASSUME \/ Search \/ SearchInvalidRegex \/ AcceptAllInAllFiles \/ Commit \/ CommitThrows
         \/ DismissCommit \/ \E accepted \in BOOLEAN : AddCurrentChange(accepted)
         \/ RejectAllInFile \/ AcceptAllInFile \/ DeleteDiff
         \/ SweepFile \/ SweepDone \/ EditReplacement
         \/ RenderFilePicker \/ RenderHistory \/ RenderEmptyHistory \/ RenderSearchInput
         \/ (\E i \in Nat : SelectFile(i) \/ SelectDiff(i))
         \/ Stop("quit") \/ Stop("threw") \/ UNCHANGED vars
  PROVE  Posts
<1>1. CASE Search \/ SearchInvalidRegex \/ AcceptAllInAllFiles \/ Commit \/ CommitThrows
           \/ DismissCommit
  BY <1>1 DEF Search, SearchInvalidRegex, AcceptAllInAllFiles, Commit, CommitThrows,
              DismissCommit, Push, queueVars, Posts
<1>2. CASE \/ \E accepted \in BOOLEAN : AddCurrentChange(accepted)
           \/ RejectAllInFile \/ AcceptAllInFile \/ DeleteDiff
  BY <1>2 DEF AddCurrentChange, RejectAllInFile, AcceptAllInFile, DeleteDiff, DecideThrows,
              AcceptFileStops, PopulateStops, Stop, queueVars, Posts
<1>3. CASE SweepFile \/ SweepDone \/ EditReplacement
  BY <1>3 DEF SweepFile, SweepDone, EditReplacement, AcceptFileStops, PopulateStops, Stop, Push,
              queueVars, Posts
<1>4. CASE RenderFilePicker \/ RenderHistory \/ RenderEmptyHistory \/ RenderSearchInput
  BY <1>4 DEF RenderFilePicker, RenderHistory, RenderEmptyHistory, RenderSearchInput,
              PopulateStops, Stop, Push, queueVars, Posts
<1>5. CASE \/ \E i \in Nat : SelectFile(i) \/ SelectDiff(i)
           \/ Stop("quit") \/ Stop("threw") \/ UNCHANGED vars
  BY <1>5 DEF SelectFile, SelectDiff, Stop, vars, queueVars, Posts
<1>. QED
  BY <1>1, <1>2, <1>3, <1>4, <1>5

\* The kinds of step of the loop.  The moves of a menu are selections of a line.
Selects == \E i \in Nat : SelectFile(i) \/ SelectDiff(i)

LEMMA StepsAreLines ==
  ASSUME NEW count \in Nat, NEW index \in Nat
  PROVE  StepsFrom(index, count) \subseteq Nat
BY DEF StepsFrom, ClampedTo

BoxesOK == boxes \in [{"files", "history"} -> Nat]

LEMMA MenuKeysSelect ==
  ASSUME IInv, BoxesOK, ClickLine \/ Wheel \/ MoveSelection
  PROVE  Selects
<1>1. CASE ClickLine
  <2>1. boxes.files \in Nat /\ boxes.history \in Nat
    BY DEF BoxesOK
  <2>. QED
    BY <1>1, <2>1 DEF ClickLine, Selects
<1>2. CASE Wheel
  <2>1. /\ Len(file_names) \in Nat /\ selected_file_index \in Nat
        /\ Len(diffs_as_displayed) \in Nat /\ selected_diff \in Nat
    BY LenProperties, LinesOfHistory DEF IInv, TypeOK
  <2>2. /\ StepsFrom(selected_file_index, Len(file_names)) \subseteq Nat
        /\ StepsFrom(selected_diff, Len(diffs_as_displayed)) \subseteq Nat
    BY <2>1, StepsAreLines
  <2>. QED
    BY <1>2, <2>2 DEF Wheel, Selects
<1>3. CASE MoveSelection
  BY <1>3, MenusSelect DEF MoveSelection, Selects
<1>. QED
  BY <1>1, <1>2, <1>3

\* What a key does to Review.
KeyHandler ==
  \/ Search \/ SearchInvalidRegex \/ AcceptAllInAllFiles \/ Commit \/ CommitThrows
  \/ DismissCommit
  \/ \E accepted \in BOOLEAN : AddCurrentChange(accepted)
  \/ RejectAllInFile \/ AcceptAllInFile \/ DeleteDiff \/ EditReplacement
  \/ Selects \/ Stop("quit") \/ UNCHANGED vars

LEMMA KeyStep ==
  ASSUME IInv, BoxesOK, HandleKey
  PROVE  KeyHandler /\ TakeKey /\ PostCustoms
<1>1. CASE ClickLine \/ Wheel \/ MoveSelection
  <2>1. Selects
    BY <1>1, MenuKeysSelect
  <2>. QED
    BY <1>1, <2>1 DEF ClickLine, Wheel, MoveSelection, KeyHandler
<1>2. CASE \/ PointAt \/ IgnoredKey \/ EscapeInput \/ Shortcut \/ ShowHelp \/ MoveFocus
  BY <1>2 DEF PointAt, IgnoredKey, EscapeInput, Shortcut, ShowHelp, MoveFocus, KeyHandler
<1>3. CASE EscapeModal
  BY <1>3 DEF EscapeModal, KeyHandler
<1>4. CASE TypeReplacement
  BY <1>4 DEF TypeReplacement, KeyHandler
<1>5. CASE FilesKey
  BY <1>5 DEF FilesKey, KeyHandler
<1>6. CASE HistoryKey
  BY <1>6 DEF HistoryKey, KeyHandler
<1>7. CASE PressButton
  BY <1>7 DEF PressButton, KeyHandler
<1>. QED
  BY <1>1, <1>2, <1>3, <1>4, <1>5, <1>6, <1>7 DEF HandleKey

LEMMA KeyLoopStep ==
  ASSUME KeyHandler
  PROVE  [LoopStep]_vars /\ Posts
<1>1. [LoopStep]_vars
  BY DEF KeyHandler, LoopStep, Next, Selects
<1>2. Posts
  BY HandlersPost DEF KeyHandler, Selects
<1>. QED
  BY <1>1, <1>2

\* A drawing runs one renderer, or none, or throws.
Renders ==
  \/ RenderFilePicker \/ RenderHistory \/ RenderEmptyHistory \/ RenderSearchInput
  \/ Stop("threw") \/ UNCHANGED vars

LEMMA DrawStep ==
  ASSUME EndDraw
  PROVE  Renders /\ [LoopStep]_vars /\ Posts
<1>1. Renders
  BY DEF EndDraw, DrawWith, RenderFocused, Renders
<1>2. [LoopStep]_vars
  BY <1>1 DEF Renders, LoopStep, Next
<1>3. Posts
  BY <1>1, HandlersPost DEF Renders
<1>. QED
  BY <1>1, <1>2, <1>3

\* Whatever waits and has been drawn, a step of the program is one that the
\* proofs about Review are made for.
LEMMA AppStepIsLoopStep ==
  ASSUME IInv, BoxesOK, [AppNext]_appVars
  PROVE  [LoopStep]_vars
<1>1. CASE Type \/ BeginDraw \/ UNCHANGED appVars
  BY <1>1 DEF Type, BeginDraw, appVars
<1>2. CASE HandleKey
  BY <1>2, KeyStep, KeyLoopStep
<1>3. CASE HandleCustom
  BY <1>3 DEF HandleCustom, LoopStep, Next
<1>4. CASE ContinueSweep
  BY <1>4 DEF ContinueSweep, LoopStep, Next
<1>5. CASE EndDraw
  BY <1>5, DrawStep
<1>6. CASE WriteOutside
  BY <1>6 DEF WriteOutside, LoopStep, Next
<1>. QED
  BY <1>1, <1>2, <1>3, <1>4, <1>5, <1>6 DEF AppNext, Loop

-----------------------------------------------------------------------------
(* The events that wait.  All but the keys are Event::Custom.              *)

Event == {"key", "custom"}
KeysIn(queue) == {i \in DOMAIN queue : queue[i] = "key"}

LEMMA KeysFinite ==
  ASSUME NEW queue \in Seq(Event)
  PROVE  /\ IsFiniteSet(KeysIn(queue))
         /\ Cardinality(KeysIn(queue)) \in Nat
         /\ KeysIn(queue) \subseteq 1..Len(queue)
         /\ Len(queue) \in Nat
<1>1. Len(queue) \in Nat /\ DOMAIN queue = 1..Len(queue)
  BY LenProperties
<1>2. KeysIn(queue) \subseteq 1..Len(queue)
  BY <1>1 DEF KeysIn
<1>3. IsFiniteSet(1..Len(queue))
  BY <1>1, FS_Interval
<1>4. IsFiniteSet(KeysIn(queue))
  BY <1>2, <1>3, FS_Subset
<1>. QED
  BY <1>1, <1>2, <1>4, FS_CardinalityType

\* A key comes in at the end.
LEMMA KeyComesIn ==
  ASSUME NEW queue \in Seq(Event)
  PROVE  /\ Append(queue, "key") \in Seq(Event)
         /\ Len(Append(queue, "key")) = Len(queue) + 1
         /\ Cardinality(KeysIn(Append(queue, "key"))) = Cardinality(KeysIn(queue)) + 1
<1>. DEFINE longer == Append(queue, "key")
<1>1. /\ longer \in Seq(Event) /\ Len(longer) = Len(queue) + 1
      /\ \A i \in 1..Len(queue) : longer[i] = queue[i]
      /\ longer[Len(queue) + 1] = "key"
  BY AppendProperties DEF Event
<1>2. /\ Len(queue) \in Nat /\ DOMAIN queue = 1..Len(queue)
      /\ DOMAIN longer = 1..(Len(queue) + 1)
  BY <1>1, LenProperties
<1>. HIDE DEF longer
<1>3. KeysIn(longer) = KeysIn(queue) \cup {Len(queue) + 1}
  BY <1>1, <1>2 DEF KeysIn
<1>4. Len(queue) + 1 \notin KeysIn(queue)
  BY <1>2 DEF KeysIn
<1>5. Cardinality(KeysIn(longer)) = Cardinality(KeysIn(queue)) + 1
  BY <1>3, <1>4, KeysFinite, FS_AddElement
<1>. QED
  BY <1>1, <1>5 DEF longer

\* Posting adds no key.
LEMMA CustomsComeIn ==
  ASSUME NEW queue \in Seq(Event), NEW n \in Nat
  PROVE  /\ queue \o Customs(n) \in Seq(Event)
         /\ Len(queue \o Customs(n)) = Len(queue) + n
         /\ KeysIn(queue \o Customs(n)) = KeysIn(queue)
<1>. DEFINE more == Customs(n)
            longer == queue \o more
<1>1. more \in Seq(Event)
  BY SeqOfLen DEF Customs, Event
<1>2. /\ Len(more) = n /\ \A i \in 1..n : more[i] = "custom"
  BY DEF Customs
<1>. HIDE DEF more
<1>3. /\ longer \in Seq(Event) /\ Len(longer) = Len(queue) + n
      /\ \A i \in 1..(Len(queue) + n) :
           longer[i] = IF i <= Len(queue) THEN queue[i] ELSE more[i - Len(queue)]
  BY <1>1, <1>2, ConcatProperties
<1>4. /\ Len(queue) \in Nat /\ DOMAIN queue = 1..Len(queue)
      /\ DOMAIN longer = 1..(Len(queue) + n)
  BY <1>3, LenProperties
<1>. HIDE DEF longer
<1>5. \A i \in 1..Len(queue) : longer[i] = queue[i]
  BY <1>3, <1>4
<1>6. ASSUME NEW i \in 1..(Len(queue) + n), ~(i <= Len(queue))
      PROVE  longer[i] = "custom"
  <2>1. i - Len(queue) \in 1..n
    BY <1>4, <1>6
  <2>. QED
    BY <1>2, <1>3, <1>6, <2>1
<1>7. KeysIn(longer) = KeysIn(queue)
  BY <1>4, <1>5, <1>6 DEF KeysIn
<1>. QED
  BY <1>3, <1>7 DEF longer, more

\* The loop takes the first event.
LEMMA EventTaken ==
  ASSUME NEW queue \in Seq(Event), queue # << >>
  PROVE  /\ Tail(queue) \in Seq(Event)
         /\ Len(Tail(queue)) = Len(queue) - 1
         /\ Cardinality(KeysIn(Tail(queue))) =
              IF Head(queue) = "key" THEN Cardinality(KeysIn(queue)) - 1
                                     ELSE Cardinality(KeysIn(queue))
<1>. DEFINE rest == Tail(queue)
            later == KeysIn(queue) \ {1}
            moved == [i \in later |-> i - 1]
<1>1. /\ rest \in Seq(Event) /\ Len(rest) = Len(queue) - 1
      /\ \A i \in 1..Len(rest) : rest[i] = queue[i + 1]
  BY HeadTailProperties
<1>2. /\ Len(queue) \in Nat \ {0} /\ DOMAIN queue = 1..Len(queue)
      /\ DOMAIN rest = 1..(Len(queue) - 1)
  BY <1>1, LenProperties, EmptySeq
<1>. HIDE DEF rest
<1>3. IsFiniteSet(later) /\ Cardinality(later) = IF 1 \in KeysIn(queue)
                                                   THEN Cardinality(KeysIn(queue)) - 1
                                                   ELSE Cardinality(KeysIn(queue))
  BY KeysFinite, FS_RemoveElement
<1>4. 1 \in KeysIn(queue) <=> Head(queue) = "key"
  <2>1. Head(queue) = queue[1]
    OBVIOUS
  <2>. QED
    BY <1>2, <2>1 DEF KeysIn
<1>5. \A i \in later : i \in 2..Len(queue) /\ i - 1 \in KeysIn(rest)
  BY <1>1, <1>2 DEF KeysIn
<1>6. \A k \in KeysIn(rest) : k + 1 \in later /\ k = (k + 1) - 1
  BY <1>1, <1>2 DEF KeysIn
<1>7. moved \in Bijection(later, KeysIn(rest))
  <2>1. moved \in [later -> KeysIn(rest)]
    BY <1>5
  <2>2. \A i, j \in later : moved[i] = moved[j] => i = j
    BY <1>5
  <2>3. \A k \in KeysIn(rest) : moved[k + 1] = k
    BY <1>6
  <2>. HIDE DEF moved, later
  <2>4. \A k \in KeysIn(rest) : \E i \in later : moved[i] = k
    BY <1>6, <2>3
  <2>. QED
    BY <2>1, <2>2, <2>4 DEF Bijection, Injection, IsInjective, Surjection
<1>8. Cardinality(KeysIn(rest)) = Cardinality(later)
  BY <1>3, <1>7, FS_Bijection DEF ExistsBijection
<1>. QED
  BY <1>1, <1>3, <1>4, <1>8 DEF rest

-----------------------------------------------------------------------------
(* The whole program, whatever is typed ahead.                             *)

AppInv == IInv /\ AppTypeOK

\* A step that takes a key and posts, one that takes a custom, and one that
\* posts.
LEMMA EventsStay ==
  ASSUME AppTypeOK, IInv,
         \/ TakeKey /\ PostCustoms /\ Posts
         \/ Take("custom") /\ events' = Tail(events) /\ posted' = posted - 1
         \/ events' = events \o Customs(posted' - posted) /\ Posts
         \/ events' = Append(events, "key") /\ posted' = posted
         \/ UNCHANGED <<events, posted>>
  PROVE  /\ events' \in Seq(Event)
         /\ Len(events') - Cardinality(KeysIn(events')) = posted'
<1>1. /\ events \in Seq(Event) /\ posted \in Nat
      /\ Len(events) - Cardinality(KeysIn(events)) = posted
      /\ Len(events) \in Nat /\ Cardinality(KeysIn(events)) \in Nat
  BY KeysFinite DEF AppTypeOK, IInv, TypeOK, Event, Keys, KeysIn
<1>2. ASSUME Posts PROVE posted' - posted \in Nat /\ posted' = posted + (posted' - posted)
  <2>1. posted' = posted \/ posted' = posted + 1
    BY <1>2 DEF Posts
  <2>2. posted \in Nat
    BY <1>1
  <2>3. CASE posted' = posted
    BY <2>2, <2>3
  <2>4. CASE posted' = posted + 1
    BY <2>2, <2>4
  <2>. QED
    BY <2>1, <2>3, <2>4
<1>3. CASE TakeKey /\ PostCustoms /\ Posts
  <2>1. events # << >> /\ Head(events) = "key"
    BY <1>3 DEF TakeKey, Take
  <2>2. /\ Tail(events) \in Seq(Event) /\ Len(Tail(events)) = Len(events) - 1
        /\ Cardinality(KeysIn(Tail(events))) = Cardinality(KeysIn(events)) - 1
    BY <1>1, <2>1, EventTaken
  <2>3. events' = Tail(events) \o Customs(posted' - posted)
    BY <1>3 DEF PostCustoms
  <2>4. /\ events' \in Seq(Event) /\ Len(events') = Len(Tail(events)) + (posted' - posted)
        /\ KeysIn(events') = KeysIn(Tail(events))
    BY <1>2, <1>3, <2>2, <2>3, CustomsComeIn
  <2>. QED
    BY <1>1, <1>2, <1>3, <2>2, <2>4
<1>4. CASE Take("custom") /\ events' = Tail(events) /\ posted' = posted - 1
  <2>1. events # << >> /\ Head(events) = "custom"
    BY <1>4 DEF Take
  <2>2. /\ Tail(events) \in Seq(Event) /\ Len(Tail(events)) = Len(events) - 1
        /\ Cardinality(KeysIn(Tail(events))) = Cardinality(KeysIn(events))
    BY <1>1, <2>1, EventTaken
  <2>3. events' = Tail(events) /\ posted' = posted - 1
    BY <1>4
  <2>4. Len(events') = Len(events) - 1
    BY <2>2, <2>3
  <2>5. Cardinality(KeysIn(events')) = Cardinality(KeysIn(events))
    BY <2>2, <2>3
  <2>6. Len(events') - Cardinality(KeysIn(events')) = posted'
    BY <1>1, <2>3, <2>4, <2>5
  <2>. QED
    BY <2>2, <2>3, <2>6
<1>5. CASE events' = events \o Customs(posted' - posted) /\ Posts
  <2>1. /\ events' \in Seq(Event) /\ Len(events') = Len(events) + (posted' - posted)
        /\ KeysIn(events') = KeysIn(events)
    BY <1>1, <1>2, <1>5, CustomsComeIn
  <2>. QED
    BY <1>1, <1>2, <1>5, <2>1
<1>6. CASE events' = Append(events, "key") /\ posted' = posted
  <2>1. /\ events' \in Seq(Event) /\ Len(events') = Len(events) + 1
        /\ Cardinality(KeysIn(events')) = Cardinality(KeysIn(events)) + 1
    BY <1>1, <1>6, KeyComesIn
  <2>. QED
    BY <1>1, <1>6, <2>1
<1>7. CASE UNCHANGED <<events, posted>>
  BY <1>1, <1>7
<1>. QED
  BY <1>3, <1>4, <1>5, <1>6, <1>7

\* The other variables of the loop.
LEMMA FocusStays ==
  ASSUME AppInv, [AppNext]_appVars
  PROVE  focus' \in Component /\ showing_help_modal' \in BOOLEAN
<1>1. focus \in Component /\ showing_help_modal \in BOOLEAN
  BY DEF AppInv, AppTypeOK
<1>2. CASE Type \/ BeginDraw \/ ContinueSweep \/ EndDraw \/ WriteOutside \/ UNCHANGED appVars
  BY <1>1, <1>2 DEF Type, BeginDraw, ContinueSweep, EndDraw, DrawWith, WriteOutside, appVars
<1>3. CASE HandleCustom
  BY <1>1, <1>3 DEF HandleCustom, Component
<1>4. CASE PointAt
  <2>1. focus' \in Inputs \cup Buttons \cup DOMAIN boxes /\ showing_help_modal' = showing_help_modal
    BY <1>4 DEF PointAt
  <2>2. DOMAIN boxes = {"files", "history"}
    BY DEF AppInv, AppTypeOK
  <2>. QED
    BY <1>1, <2>1, <2>2 DEF Component
<1>5. CASE MoveFocus
  BY <1>1, <1>5 DEF MoveFocus, Reachable, Component
<1>6. CASE Shortcut
  BY <1>1, <1>6 DEF Shortcut, ShortcutTarget, Component, Inputs
<1>7. CASE ClickLine \/ Wheel \/ EscapeModal \/ IgnoredKey \/ EscapeInput \/ TypeReplacement
           \/ ShowHelp \/ FilesKey \/ HistoryKey \/ MoveSelection
  BY <1>1, <1>7 DEF ClickLine, Wheel, EscapeModal, IgnoredKey, EscapeInput, TypeReplacement,
                    ShowHelp, FilesKey, HistoryKey, MoveSelection, Component, Buttons
<1>8. CASE PressButton
  BY <1>1, <1>8 DEF PressButton, Component, Buttons
<1>. QED
  BY <1>2, <1>3, <1>4, <1>5, <1>6, <1>7, <1>8 DEF AppNext, Loop, HandleKey

LEMMA DrawingStays ==
  ASSUME AppInv, [AppNext]_appVars
  PROVE  drawing' \in {"no", "now", "done"} /\ BoxesOK'
<1>1. drawing \in {"no", "now", "done"} /\ BoxesOK /\ IInv
  BY DEF AppInv, AppTypeOK, BoxesOK
<1>2. CASE Type \/ BeginDraw \/ ContinueSweep \/ WriteOutside \/ UNCHANGED appVars
  BY <1>1, <1>2 DEF Type, BeginDraw, ContinueSweep, WriteOutside, appVars, BoxesOK
<1>3. CASE HandleCustom \/ HandleKey
  <2>1. \E event : Take(event)
    BY <1>1, <1>3, KeyStep DEF HandleCustom, TakeKey
  <2>. QED
    BY <1>1, <2>1 DEF Take, BoxesOK
<1>4. CASE EndDraw
  <2>1. drawing' = "done" /\ boxes' = [files |-> Len(file_names), history |-> Len(diffs_as_displayed)]
    BY <1>4 DEF EndDraw, DrawWith
  <2>2. Len(file_names) \in Nat /\ Len(diffs_as_displayed) \in Nat
    BY <1>1, LenProperties, LinesOfHistory DEF IInv, TypeOK
  <2>. QED
    BY <2>1, <2>2 DEF BoxesOK
<1>. QED
  BY <1>2, <1>3, <1>4 DEF AppNext, Loop

\* Which of the cases of EventsStay a step is.
LEMMA EventSteps ==
  ASSUME AppInv, [AppNext]_appVars
  PROVE  \/ TakeKey /\ PostCustoms /\ Posts
         \/ Take("custom") /\ events' = Tail(events) /\ posted' = posted - 1
         \/ events' = events \o Customs(posted' - posted) /\ Posts
         \/ events' = Append(events, "key") /\ posted' = posted
         \/ UNCHANGED <<events, posted>>
<1>1. IInv /\ BoxesOK
  BY DEF AppInv, AppTypeOK, BoxesOK
<1>2. CASE Type
  BY <1>2 DEF Type, vars, queueVars
<1>3. CASE HandleKey
  BY <1>1, <1>3, KeyStep, KeyLoopStep
<1>4. CASE HandleCustom
  BY <1>4 DEF HandleCustom, SwallowCustom, PopAction
<1>5. CASE ContinueSweep
  BY <1>5, HandlersPost DEF ContinueSweep
<1>6. CASE BeginDraw \/ UNCHANGED appVars
  BY <1>6 DEF BeginDraw, appVars, vars, queueVars
<1>7. CASE EndDraw
  BY <1>7, DrawStep DEF EndDraw, DrawWith
<1>8. CASE WriteOutside
  BY <1>8 DEF WriteOutside, EditOutside, queueVars
<1>. QED
  BY <1>2, <1>3, <1>4, <1>5, <1>6, <1>7, <1>8 DEF AppNext, Loop

LEMMA AppStepKeeps == AppInv /\ [AppNext]_appVars => AppInv' /\ [LoopStep]_vars
<1>. SUFFICES ASSUME AppInv, [AppNext]_appVars PROVE AppInv' /\ [LoopStep]_vars
  OBVIOUS
<1>1. IInv /\ AppTypeOK /\ BoxesOK
  BY DEF AppInv, AppTypeOK, BoxesOK
<1>2. [LoopStep]_vars
  BY <1>1, AppStepIsLoopStep
<1>3. IInv'
  BY <1>1, <1>2, LoopStepIInv
<1>4. events' \in Seq(Event) /\ Len(events') - Cardinality(KeysIn(events')) = posted'
  BY <1>1, EventSteps, EventsStay
<1>5. AppTypeOK'
  BY <1>4, FocusStays, DrawingStays DEF AppTypeOK, BoxesOK, Event, Keys, KeysIn
<1>. QED
  BY <1>2, <1>3, <1>5 DEF AppInv

LEMMA InitAppInv == AppInit => AppInv
<1>. SUFFICES ASSUME AppInit PROVE AppInv
  OBVIOUS
<1>1. events = << >> /\ posted = 0
  BY DEF AppInit, Init
<1>2. Keys = {} /\ Len(events) = 0 /\ events \in Seq({"key", "custom"})
  BY <1>1 DEF Keys
<1>3. Cardinality(Keys) = 0
  BY <1>2, FS_EmptySet
<1>4. Len(events) - Cardinality(Keys) = posted
  BY <1>1, <1>2, <1>3
<1>5. focus \in Component /\ boxes \in [{"files", "history"} -> Nat]
  BY DEF AppInit, Component
<1>6. AppTypeOK
  BY <1>2, <1>4, <1>5 DEF AppInit, AppTypeOK
<1>. QED
  BY <1>6, InitIInv DEF AppInit, AppInv

-----------------------------------------------------------------------------
\* The loop and the handlers stay in order together: every Event::Custom that
\* waits is one Review has posted, none is lost and none comes from nowhere.
THEOREM AppInvariant == AppSpec => []AppInv
BY InitAppInv, AppStepKeeps, PTL DEF AppSpec

\* The variables of the loop keep their shape, and the Event::Custom that wait
\* are as many as were posted.
THEOREM AppTypeCorrect == AppSpec => []AppTypeOK
BY AppInvariant, PTL DEF AppInv

\* What Review promises of its handlers in any order holds of the program,
\* clicks on lines that are gone included: every diff can be committed, the
\* gauge and the menu are the history, the queue covers the posted events, no
\* file outlives its search.
THEOREM AppKeepsReview ==
  AppSpec => [](/\ TypeOK
                /\ DiffsCommittable
                /\ GaugeIsHistory
                /\ HistoryAsDisplayed
                /\ QueueCoversPosted
                /\ FreshFiles)
BY AppInvariant, PTL DEF AppInv, IInv

\* In the whole program no match is lost and none is decided twice.
THEOREM AppMatchesStayOnce == AppSpec => []EveryMatchOnce
<1>1. AppInit => EveryMatchOnce
  BY DEF AppInit, Init, EveryMatchOnce
<1>2. AppInv /\ EveryMatchOnce /\ [AppNext]_appVars => EveryMatchOnce'
  BY AppStepKeeps, StepMatchOnce DEF AppInv
<1>. QED
  BY <1>1, <1>2, AppInvariant, PTL DEF AppSpec

\* The accept-all button keeps its promise under the loop: what is typed while
\* it runs waits.
THEOREM AppAcceptAllCompletes == AppSpec => AcceptAllDecidesAll
<1>1. AppInit => SweptEmpty
  BY DEF AppInit, Init, SweptEmpty
<1>2. AppInv /\ SweptEmpty /\ [AppNext]_appVars => SweptEmpty' /\ [DecidesAll]_vars
  BY AppStepKeeps, StepSweptEmpty, StepDecidesAll DEF AppInv
<1>. QED
  BY <1>1, <1>2, AppInvariant, PTL DEF AppSpec, AcceptAllDecidesAll, DecidesAll

\* The program implements Ledger: whatever is typed, clicked, typed ahead or
\* drawn late, what was found and decided changes by a search, a decision, a
\* revocation or a commit.
THEOREM AppImplementsLedger == AppSpec => ImplementsLedger
<1>1. AppInit => TheLedger!Init
  BY InitRefines DEF AppInit
<1>2. AppInv /\ EveryMatchOnce /\ EveryMatchOnce' /\ [AppNext]_appVars
        => [TheLedger!Next]_TheLedger!vars
  BY AppStepKeeps, StepRefines DEF AppInv
<1>. QED
  BY <1>1, <1>2, AppInvariant, AppMatchesStayOnce, PTL
     DEF AppSpec, ImplementsLedger, TheLedger!Spec

-----------------------------------------------------------------------------
(* A user who waits for the screen.  The key that waits was typed when the *)
(* screen was drawn; nothing but the action that a drawing of the history  *)
(* posted comes before it.                                                 *)

\* Nothing has changed the lists since the last drawing.
Drawn == drawing = "done" \/ Keys # {}
HasPending == file_names # << >> /\ Pending(selected_file_index) # << >>
CustomFirst == events # << >> /\ Head(events) = "custom"

\* One key waits at most; none while the screen is drawn or the accept-all loop
\* runs.
Orderly ==
  /\ events \in {<< >>, <<"key">>, <<"custom">>, <<"custom", "key">>}
  /\ drawing = "now" => events = << >>
  /\ events = <<"custom", "key">> => drawing = "done"
  /\ sweeping # NotSweeping => events = << >> /\ drawing = "no"
BoxesAgree ==
  Drawn => boxes = [files |-> Len(file_names), history |-> Len(diffs_as_displayed)]
\* The file a key in the files menu decides has been read.
FileIsRead == Drawn /\ focus = "files" /\ HasPending => IsLoaded(selected_file_index)
\* The history menu shows the file of its diff.
FileOfDiff ==
  Drawn /\ focus = "history" /\ history_has_diffs
    => selected_file_index = diffs[selected_diff + 1].file_index
\* Only a drawing of the history has posted what waits before a key.
NoOpWaits ==
  drawing = "done" /\ CustomFirst
    => /\ focus = "history" /\ history_has_diffs
       /\ actions_queue # << >> /\ actions_queue[Len(actions_queue)] = "NoOp"
\* The files menu is drawn with the first pending match of its file ...
FirstIsShown ==
  drawing = "done" /\ focus = "files" /\ HasPending
    => file_viewer.shown = {[file |-> file_names[selected_file_index + 1],
                             slice |-> Head(Pending(selected_file_index)),
                             text |-> replacement_text]}
\* ... unless a leftover moved the focus there under a key that waits.
FocusMoved == drawing = "no" /\ focus = "files" /\ Keys # {} => ~NoLeftovers

PacedParts ==
  /\ Orderly /\ BoxesAgree /\ FileIsRead /\ FileOfDiff
  /\ NoOpWaits /\ FirstIsShown /\ FocusMoved
PacedInv == status = "running" => PacedParts

LEMMA KeysThatWait ==
  /\ events = << >> => Keys = {}
  /\ events = <<"key">> => Keys # {}
  /\ events = <<"custom">> => Keys = {}
  /\ events = <<"custom", "key">> => Keys # {}
<1>1. events = << >> => Keys = {}
  BY DEF Keys
<1>2. ASSUME events = <<"key">> PROVE Keys # {}
  <2>1. 1 \in Keys
    BY <1>2 DEF Keys
  <2>. QED
    BY <2>1
<1>3. events = <<"custom">> => Keys = {}
  BY DEF Keys
<1>4. ASSUME events = <<"custom", "key">> PROVE Keys # {}
  <2>1. 2 \in Keys
    BY <1>4 DEF Keys
  <2>. QED
    BY <2>1
<1>. QED
  BY <1>1, <1>2, <1>3, <1>4

\* The customs one handler posts.
LEMMA PostedCustoms ==
  ASSUME posted \in Nat, Posts
  PROVE  /\ Customs(posted' - posted) \in {<< >>, <<"custom">>}
         /\ posted' = posted => Customs(posted' - posted) = << >>
<1>1. Customs(0) = << >> /\ Customs(1) = <<"custom">>
  BY DEF Customs
<1>2. CASE posted' = posted
  BY <1>1, <1>2
<1>3. CASE posted' = posted + 1
  <2>1. posted' - posted = 1 /\ posted' # posted
    BY <1>3
  <2>. QED
    BY <1>1, <2>1
<1>. QED
  BY <1>2, <1>3 DEF Posts

\* A key is taken when it is the only event.
LEMMA TakenKey ==
  ASSUME PacedInv, TakeKey
  PROVE  /\ status = "running" /\ PacedParts /\ events = <<"key">> /\ Drawn
         /\ sweeping = NotSweeping /\ drawing # "now"
<1>1. status = "running" /\ sweeping = NotSweeping /\ drawing # "now"
  BY DEF TakeKey, Take, LoopRuns, Running
<1>2. PacedParts
  BY <1>1 DEF PacedInv
<1>3. events # << >> /\ Head(events) = "key"
  BY DEF TakeKey, Take
<1>4. events = <<"key">>
  BY <1>2, <1>3 DEF PacedParts, Orderly
<1>. QED
  BY <1>1, <1>2, <1>4, KeysThatWait DEF Drawn

\* The loop starts when the button's handler posts nothing.
LEMMA KeySweeps ==
  ASSUME KeyHandler, sweeping = NotSweeping
  PROVE  sweeping' = NotSweeping \/ posted' = posted
<1>1. CASE Search \/ SearchInvalidRegex \/ AcceptAllInAllFiles \/ Commit \/ CommitThrows
           \/ DismissCommit
  BY <1>1 DEF Search, SearchInvalidRegex, AcceptAllInAllFiles, Commit, CommitThrows,
              DismissCommit, queueVars
<1>2. CASE \/ \E accepted \in BOOLEAN : AddCurrentChange(accepted)
           \/ RejectAllInFile \/ AcceptAllInFile \/ DeleteDiff \/ EditReplacement
  BY <1>2 DEF AddCurrentChange, RejectAllInFile, AcceptAllInFile, DeleteDiff, DecideThrows,
              EditReplacement, AcceptFileStops, PopulateStops, Stop, queueVars
<1>3. CASE Selects \/ Stop("quit") \/ UNCHANGED vars
  BY <1>3 DEF Selects, SelectFile, SelectDiff, Stop, vars, queueVars
<1>. QED
  BY <1>1, <1>2, <1>3 DEF KeyHandler

\* After a key nothing waits and nothing is drawn.
LEMMA QuietPaced ==
  ASSUME events' \in {<< >>, <<"custom">>}, drawing' \in {"no", "now"},
         drawing' = "now" => events' = << >>,
         sweeping' # NotSweeping => events' = << >> /\ drawing' = "no"
  PROVE  PacedInv'
<1>1. Keys' = {}
  <2>1. events' = << >> => Keys' = {}
    BY DEF Keys
  <2>2. events' = <<"custom">> => Keys' = {}
    BY DEF Keys
  <2>. QED
    BY <2>1, <2>2
<1>2. ~Drawn' /\ drawing' # "done"
  BY <1>1 DEF Drawn
<1>3. Orderly'
  BY DEF Orderly
<1>. QED
  BY <1>1, <1>2, <1>3 DEF PacedInv, PacedParts, BoxesAgree, FileIsRead, FileOfDiff, NoOpWaits,
                          FirstIsShown, FocusMoved

LEMMA KeyKeepsPaced == ASSUME AppInv, PacedInv, HandleKey PROVE PacedInv'
<1>1. KeyHandler /\ TakeKey /\ PostCustoms /\ Posts /\ posted \in Nat
  BY KeyStep, KeyLoopStep DEF AppInv, AppTypeOK, BoxesOK, IInv, TypeOK
<1>2. events = <<"key">> /\ sweeping = NotSweeping /\ drawing' = "no"
  BY <1>1, TakenKey DEF TakeKey, Take
<1>3. events' = Customs(posted' - posted)
  <2>1. Tail(events) = << >>
    BY <1>2
  <2>2. << >> \in Seq(Event) /\ <<"custom">> \in Seq(Event)
    BY DEF Event
  <2>3. Customs(posted' - posted) \in Seq(Event)
    BY <1>1, <2>2, PostedCustoms
  <2>. QED
    BY <1>1, <2>1, <2>3, ConcatEmptySeq DEF PostCustoms
<1>4. sweeping' = NotSweeping \/ posted' = posted
  BY <1>1, <1>2, KeySweeps
<1>. QED
  BY <1>1, <1>2, <1>3, <1>4, PostedCustoms, QuietPaced

LEMMA KeyBehind == Append(<<"custom">>, "key") = <<"custom", "key">>
<1>. DEFINE a == Append(<<"custom">>, "key")
            b == <<"custom", "key">>
<1>1. <<"custom">> \in Seq(Event) /\ "key" \in Event /\ Len(<<"custom">>) = 1
  BY DEF Event
<1>2. a \in Seq(Event) /\ Len(a) = 2 /\ a[1] = "custom" /\ a[2] = "key"
  BY <1>1, AppendProperties
<1>3. b \in Seq(Event)
  BY DEF Event
<1>4. Len(b) = 2 /\ b[1] = "custom" /\ b[2] = "key"
  OBVIOUS
<1>. HIDE DEF a, b
<1>5. \A i \in 1..2 : a[i] = b[i]
  BY <1>2, <1>4
<1>6. a = b
  BY <1>2, <1>3, <1>4, <1>5, SeqEqual
<1>. QED
  BY <1>6 DEF a, b

\* A key is typed on what was drawn.
LEMMA TypeKeepsPaced == ASSUME Paced, AppInv, PacedInv, Type PROVE PacedInv'
<1>1. /\ status = "running" /\ drawing = "done" /\ Keys = {}
      /\ events' = Append(events, "key")
      /\ UNCHANGED <<vars, focus, drawing, boxes>>
  BY DEF Type
<1>2. PacedParts
  BY <1>1 DEF PacedInv
<1>3. events = << >> \/ events = <<"custom">>
  BY <1>1, <1>2, KeysThatWait DEF PacedParts, Orderly
<1>4. /\ events = << >> => events' = <<"key">>
      /\ events = <<"custom">> => events' = <<"custom", "key">>
  <2>1. Append(<< >>, "key") = <<"key">>
    OBVIOUS
  <2>. QED
    BY <1>1, <2>1, KeyBehind
<1>5. UNCHANGED <<file_names, file_to_matches, selected_file_index, file_managers, file_viewer,
                  diffs, diffs_as_displayed, selected_diff, replacement_text, actions_queue,
                  posted, sweeping, status>>
  BY <1>1 DEF vars, pickerVars, historyVars, queueVars
<1>6. Drawn
  BY <1>1 DEF Drawn
<1>7. Orderly'
  BY <1>1, <1>2, <1>3, <1>4, <1>5 DEF PacedParts, Orderly
<1>8. CustomFirst' => CustomFirst
  BY <1>3, <1>4 DEF CustomFirst
<1>9. BoxesAgree' /\ FileIsRead' /\ FileOfDiff'
  BY <1>1, <1>2, <1>5, <1>6 DEF PacedParts, BoxesAgree, FileIsRead, FileOfDiff, HasPending, Pending,
                                IsLoaded, history_has_diffs
<1>10. NoOpWaits'
  BY <1>1, <1>2, <1>5, <1>8 DEF PacedParts, NoOpWaits, history_has_diffs
<1>11. FirstIsShown' /\ FocusMoved'
  BY <1>1, <1>2, <1>5 DEF PacedParts, FirstIsShown, HasPending, Pending, FocusMoved
<1>. QED
  BY <1>7, <1>9, <1>10, <1>11 DEF PacedInv, PacedParts

\* The action that a drawing of the history queued is popped, or another one is.
LEMMA CustomKeepsPaced ==
  ASSUME AppInv, SelectionInRange, PacedInv, HandleCustom
  PROVE  PacedInv'
<1>1. /\ status = "running" /\ sweeping = NotSweeping
      /\ events # << >> /\ Head(events) = "custom" /\ events' = Tail(events)
      /\ drawing' = "no" /\ UNCHANGED boxes
  BY DEF HandleCustom, Take, LoopRuns, Running
<1>2. PacedParts /\ CustomFirst
  BY <1>1 DEF PacedInv, CustomFirst
<1>3. events = <<"custom">> \/ events = <<"custom", "key">>
  BY <1>1, <1>2 DEF PacedParts, Orderly
<1>4. UNCHANGED <<file_names, file_to_matches, selected_file_index, file_managers, file_viewer,
                  diffs, diffs_as_displayed, selected_diff, replacement_text, sweeping, status>>
  BY DEF HandleCustom, SwallowCustom, PopAction, customFrame, pickerVars, historyVars
<1>5. CASE events = <<"custom">>
  <2>1. events' = << >>
    BY <1>1, <1>5
  <2>. QED
    BY <1>1, <1>4, <2>1, QuietPaced
<1>6. CASE events = <<"custom", "key">>
  <2>1. events' = <<"key">>
    BY <1>1, <1>6
  <2>2. drawing = "done" /\ Drawn
    BY <1>2, <1>6 DEF PacedParts, Orderly, Drawn
  <2>3. /\ focus = "history" /\ history_has_diffs
        /\ actions_queue # << >> /\ actions_queue[Len(actions_queue)] = "NoOp"
        /\ selected_file_index = diffs[selected_diff + 1].file_index
    BY <1>2, <2>2 DEF PacedParts, NoOpWaits, FileOfDiff
  <2>4. Orderly'
    <3>1. drawing' # "now" /\ sweeping' = NotSweeping
      BY <1>1, <1>4
    <3>2. events' # <<"custom", "key">>
      <4>1. Len(<<"key">>) = 1 /\ Len(<<"custom", "key">>) = 2
        OBVIOUS
      <4>. QED
        BY <2>1, <4>1
    <3>. QED
      BY <2>1, <3>1, <3>2 DEF Orderly
  <2>5. BoxesAgree'
    BY <1>1, <1>2, <1>4, <2>2 DEF PacedParts, BoxesAgree
  <2>6. FileIsRead'
    <3>1. diffs # << >> /\ diffs \in Seq(TextDiff) /\ selected_diff \in Nat
          /\ selected_diff < Len(diffs)
      BY <2>3 DEF history_has_diffs, AppInv, IInv, TypeOK, SelectionInRange
    <3>2. selected_diff + 1 \in DOMAIN diffs
      BY <3>1, LenProperties
    <3>3. IsLoaded(selected_file_index)
      BY <2>3, <3>2 DEF AppInv, IInv, DiffsCommittable
    <3>. QED
      BY <1>4, <3>3 DEF FileIsRead, IsLoaded
  <2>7. FileOfDiff'
    BY <1>4, <2>3 DEF FileOfDiff
  <2>8. NoOpWaits' /\ FirstIsShown'
    BY <1>1 DEF NoOpWaits, FirstIsShown
  <2>9. FocusMoved'
    <3>. SUFFICES ASSUME focus' = "files", NoLeftovers' PROVE FALSE
      BY DEF FocusMoved
    <3>1. PopAction /\ Head(actions_queue) = "FocusFilePicker"
      BY <2>3 DEF HandleCustom
    <3>2. /\ actions_queue \in Seq({"FocusFilePicker", "NoOp"}) /\ Len(actions_queue) \in Nat \ {0}
          /\ posted \in Nat
      BY <2>3, EmptySeq DEF AppInv, IInv, TypeOK
    <3>3. actions_queue' = Tail(actions_queue) /\ posted' = posted - 1
      BY <2>3, <3>1, <3>2, TailIsSubSeq DEF PopAction
    <3>4. Len(Tail(actions_queue)) = Len(actions_queue) - 1
      BY <2>3, <3>2, HeadTailProperties
    <3>5. posted = 1
      <4>1. Len(events) - Cardinality(Keys) = posted
        BY DEF AppInv, AppTypeOK
      <4>2. Keys = {2}
        BY <1>6 DEF Keys
      <4>3. Cardinality(Keys) = 1
        BY <4>2, FS_Singleton
      <4>4. Len(events) = 2
        BY <1>6
      <4>. QED
        BY <4>1, <4>3, <4>4
    <3>6. Len(actions_queue) = 1
      BY <3>2, <3>3, <3>4, <3>5 DEF NoLeftovers
    <3>7. Head(actions_queue) = actions_queue[Len(actions_queue)]
      BY <3>6
    <3>. QED
      BY <2>3, <3>1, <3>7
  <2>. QED
    BY <2>4, <2>5, <2>6, <2>7, <2>8, <2>9 DEF PacedInv, PacedParts
<1>. QED
  BY <1>3, <1>5, <1>6

\* The loop of accept-all posts when it is left.
LEMMA SweepKeepsPaced == ASSUME AppInv, PacedInv, ContinueSweep PROVE PacedInv'
<1>. SUFFICES ASSUME status' = "running" PROVE PacedInv'
  BY DEF PacedInv
<1>1. status = "running"
  BY DEF ContinueSweep, SweepFile, SweepDone
<1>2. /\ events' = events \o Customs(posted' - posted) /\ UNCHANGED drawing
      /\ Posts /\ posted \in Nat
  BY HandlersPost DEF ContinueSweep, AppInv, IInv, TypeOK
<1>3. sweeping # NotSweeping
  <2>1. Len(file_names) \in Nat
    BY LenProperties DEF AppInv, IInv, TypeOK
  <2>2. NotSweeping = -1
    BY DEF NotSweeping
  <2>3. CASE SweepFile
    <3>1. sweeping \in 0..(Len(file_names) - 1)
      BY <2>3 DEF SweepFile
    <3>. QED
      BY <2>1, <2>2, <3>1
  <2>4. CASE SweepDone
    <3>1. sweeping = Len(file_names)
      BY <2>4 DEF SweepDone
    <3>. QED
      BY <2>1, <2>2, <3>1
  <2>. QED
    BY <2>3, <2>4 DEF ContinueSweep
<1>4. events = << >> /\ drawing = "no"
  BY <1>1, <1>3 DEF PacedInv, PacedParts, Orderly
<1>5. events' = Customs(posted' - posted)
  <2>1. << >> \in Seq(Event) /\ <<"custom">> \in Seq(Event)
    BY DEF Event
  <2>2. Customs(posted' - posted) \in Seq(Event)
    BY <1>2, <2>1, PostedCustoms
  <2>. QED
    BY <1>2, <1>4, <2>2, ConcatEmptySeq
<1>6. sweeping' = NotSweeping \/ posted' = posted
  <2>1. CASE SweepFile
    BY <2>1, <1>1 DEF SweepFile, AcceptFileStops, PopulateStops, Stop, queueVars
  <2>2. CASE SweepDone
    BY <2>2 DEF SweepDone
  <2>. QED
    BY <2>1, <2>2 DEF ContinueSweep
<1>. QED
  BY <1>2, <1>4, <1>5, <1>6, PostedCustoms, QuietPaced

LEMMA BeginKeepsPaced == ASSUME PacedInv, BeginDraw PROVE PacedInv'
<1>1. /\ events' = << >> /\ drawing' = "now" /\ sweeping' = NotSweeping
  BY DEF BeginDraw, LoopRuns, Running, vars
<1>. QED
  BY <1>1, QuietPaced

\* Another program writes a file; nothing that was drawn changes.
LEMMA SamePaced ==
  ASSUME PacedInv,
         UNCHANGED <<file_names, file_to_matches, selected_file_index, file_managers, file_viewer,
                     diffs, diffs_as_displayed, selected_diff, replacement_text, actions_queue,
                     posted, sweeping, status, focus, events, drawing, boxes>>
  PROVE  PacedInv'
<1>. SUFFICES ASSUME PacedParts PROVE PacedParts'
  BY DEF PacedInv
<1>1. Keys' = Keys /\ Drawn' = Drawn
  BY DEF Keys, Drawn
<1>2. Orderly' /\ BoxesAgree' /\ FileIsRead' /\ FileOfDiff'
  BY <1>1 DEF PacedParts, Orderly, BoxesAgree, FileIsRead, FileOfDiff, HasPending, Pending,
              IsLoaded, history_has_diffs
<1>3. NoOpWaits' /\ FirstIsShown' /\ FocusMoved'
  BY <1>1 DEF PacedParts, NoOpWaits, CustomFirst, FirstIsShown, HasPending, Pending, FocusMoved,
              NoLeftovers, history_has_diffs
<1>. QED
  BY <1>2, <1>3 DEF PacedParts

\* What every renderer leaves alone, and what its not throwing means.
LEMMA RenderedFocus ==
  ASSUME EndDraw, status' = "running"
  PROVE  /\ UNCHANGED <<file_names, file_to_matches, diffs, diffs_as_displayed, selected_diff,
                        replacement_text, sweeping>>
         /\ \/ /\ focus = "files"
               /\ PopulateFileViewer(MatchMode, selected_file_index)
               /\ UNCHANGED <<selected_file_index, posted>>
            \/ /\ focus = "history" /\ history_has_diffs
               /\ selected_file_index' = diffs[selected_diff + 1].file_index
               /\ Push("NoOp")
            \/ focus = "history" /\ ~history_has_diffs /\ posted' = posted
            \/ focus \notin {"files", "history"} /\ posted' = posted
<1>1. RenderFocused
  BY DEF EndDraw, DrawWith, Stop
<1>2. CASE focus = "files" /\ RenderFilePicker
  BY <1>2 DEF RenderFilePicker, PopulateStops, Stop, decideFrame, queueVars
<1>3. CASE focus = "history" /\ (RenderHistory \/ RenderEmptyHistory)
  BY <1>3 DEF RenderHistory, RenderEmptyHistory, PopulateStops, Stop, decideFrame, queueVars
<1>4. CASE focus = "search_text" /\ RenderSearchInput
  BY <1>4 DEF RenderSearchInput, pickerVars, historyVars, queueVars
<1>5. CASE focus \notin {"files", "history"} /\ UNCHANGED vars
  BY <1>5 DEF vars, pickerVars, historyVars, queueVars
<1>. QED
  BY <1>1, <1>2, <1>3, <1>4, <1>5 DEF RenderFocused

\* A drawing makes the screen ready for the key that will be typed.
LEMMA DrawKeepsPaced ==
  ASSUME AppInv, SelectionInRange, PacedInv, EndDraw
  PROVE  PacedInv'
<1>. SUFFICES ASSUME status' = "running" PROVE PacedInv'
  BY DEF PacedInv
<1>1. /\ status = "running" /\ sweeping = NotSweeping
      /\ drawing = "now" /\ drawing' = "done"
      /\ boxes' = [files |-> Len(file_names), history |-> Len(diffs_as_displayed)]
      /\ events' = events \o Customs(posted' - posted)
      /\ UNCHANGED focus
  BY DEF EndDraw, DrawWith, Running
<1>2. /\ UNCHANGED <<file_names, file_to_matches, diffs, diffs_as_displayed, selected_diff,
                     replacement_text, sweeping>>
  BY RenderedFocus
<1>3. Posts /\ posted \in Nat
  BY DrawStep DEF AppInv, IInv, TypeOK
<1>4. events = << >>
  BY <1>1 DEF PacedInv, PacedParts, Orderly
<1>5. events' = Customs(posted' - posted)
  <2>1. << >> \in Seq(Event) /\ <<"custom">> \in Seq(Event)
    BY DEF Event
  <2>2. Customs(posted' - posted) \in Seq(Event)
    BY <1>3, <2>1, PostedCustoms
  <2>. QED
    BY <1>1, <1>4, <2>2, ConcatEmptySeq
<1>6. Orderly'
  <2>1. events' \in {<< >>, <<"custom">>}
    BY <1>3, <1>5, PostedCustoms
  <2>2. drawing' # "now" /\ sweeping' = NotSweeping
    BY <1>1, <1>2
  <2>. QED
    BY <1>1, <2>1, <2>2 DEF Orderly
<1>7. BoxesAgree'
  BY <1>1, <1>2 DEF BoxesAgree
<1>8. FileIsRead' /\ FirstIsShown'
  <2>. SUFFICES ASSUME focus = "files", HasPending'
                PROVE  /\ IsLoaded(selected_file_index)'
                       /\ file_viewer'.shown = {[file |-> file_names[selected_file_index + 1],
                                                 slice |-> Head(Pending(selected_file_index)),
                                                 text |-> replacement_text]'}
    BY <1>1 DEF FileIsRead, FirstIsShown
  <2>1. /\ PopulateFileViewer(MatchMode, selected_file_index)
        /\ UNCHANGED selected_file_index
    BY RenderedFocus
  <2>2. HasPending
    BY <1>2, <2>1 DEF HasPending, Pending
  <2>3. HasSliceToShow(MatchMode, selected_file_index)
    BY <2>2 DEF HasPending, HasSliceToShow, IsListed, SelectionInRange, AllMatchesProcessed, Pending
  <2>4. /\ Load(selected_file_index)
        /\ file_viewer'.shown = {[file |-> file_names[selected_file_index + 1],
                                  slice |-> SliceToShow(MatchMode, selected_file_index),
                                  text |-> TextToShow(MatchMode)]}
    BY <2>1, <2>3 DEF PopulateFileViewer
  <2>5. /\ SliceToShow(MatchMode, selected_file_index) = Head(Pending(selected_file_index))
        /\ TextToShow(MatchMode) = replacement_text
    BY DEF SliceToShow, TextToShow, Pending
  <2>6. IsLoaded(selected_file_index)'
    BY <2>1, <2>4 DEF Load, IsLoaded
  <2>. QED
    BY <1>2, <2>1, <2>4, <2>5, <2>6 DEF Pending
<1>9. FileOfDiff'
  BY <1>1, <1>2, RenderedFocus DEF FileOfDiff, history_has_diffs
<1>10. NoOpWaits'
  <2>1. CASE focus = "history" /\ history_has_diffs /\ Push("NoOp")
    <3>1. actions_queue \in Seq({"FocusFilePicker", "NoOp"})
      BY DEF AppInv, IInv, TypeOK
    <3>2. actions_queue' = Append(actions_queue, "NoOp")
      BY <2>1 DEF Push
    <3>3. actions_queue' # << >> /\ actions_queue'[Len(actions_queue')] = "NoOp"
      BY <3>1, <3>2, AppendProperties
    <3>. QED
      BY <1>1, <1>2, <2>1, <3>3 DEF NoOpWaits, history_has_diffs
  <2>2. CASE posted' = posted
    <3>1. events' = << >>
      BY <1>3, <1>5, <2>2, PostedCustoms
    <3>. QED
      BY <3>1 DEF NoOpWaits, CustomFirst
  <2>. QED
    BY <2>1, <2>2, RenderedFocus
<1>11. FocusMoved'
  BY <1>1 DEF FocusMoved
<1>. QED
  BY <1>6, <1>7, <1>8, <1>9, <1>10, <1>11 DEF PacedInv, PacedParts

\* On the screen that was drawn, every click is on a line of its list.
LEMMA PacedStepIsNext ==
  ASSUME AppInv, PacedInv, [AppNext]_appVars
  PROVE  [Next]_vars \/ Stop("quit") \/ Stop("threw")
<1>1. CASE Type \/ BeginDraw \/ UNCHANGED appVars
  BY <1>1 DEF Type, BeginDraw, appVars
<1>2. CASE HandleCustom
  BY <1>2 DEF HandleCustom, Next
<1>3. CASE ContinueSweep
  BY <1>3 DEF ContinueSweep, Next
<1>4. CASE EndDraw
  BY <1>4, DrawStep DEF Renders, Next
<1>5. CASE WriteOutside
  BY <1>5 DEF WriteOutside, Next
<1>6. CASE ClickLine
  <2>1. BoxesAgree /\ Drawn
    BY <1>6, TakenKey DEF ClickLine, PacedParts
  <2>2. boxes.files = Len(file_names) /\ boxes.history = Len(diffs_as_displayed)
    BY <2>1 DEF BoxesAgree
  <2>. QED
    BY <1>6, <2>2 DEF ClickLine, ClickInFiles, ClickInHistory, Next
<1>7. CASE Wheel
  BY <1>7 DEF Wheel, MovesFrom, MoveInFiles, MoveInHistory, Next
<1>8. CASE MoveSelection
  BY <1>8 DEF MoveSelection, Next
<1>9. CASE PointAt \/ IgnoredKey \/ EscapeInput \/ Shortcut \/ ShowHelp \/ MoveFocus
  BY <1>9 DEF PointAt, IgnoredKey, EscapeInput, Shortcut, ShowHelp, MoveFocus
<1>10. CASE EscapeModal \/ TypeReplacement \/ FilesKey \/ HistoryKey
  BY <1>10 DEF EscapeModal, TypeReplacement, FilesKey, HistoryKey, Next
<1>11. CASE PressButton
  BY <1>11 DEF PressButton, Next
<1>. QED
  BY <1>1, <1>2, <1>3, <1>4, <1>5, <1>6, <1>7, <1>8, <1>9, <1>10, <1>11
     DEF AppNext, Loop, HandleKey

LEMMA PacedKeepsSelection ==
  ASSUME AppInv, PacedInv, SelectionInRange, [AppNext]_appVars
  PROVE  SelectionInRange'
<1>1. CASE [Next]_vars
  BY <1>1, NextSelected DEF AppInv
<1>2. CASE Stop("quit") \/ Stop("threw")
  BY <1>2 DEF Stop, SelectionInRange, pickerVars, historyVars
<1>. QED
  BY <1>1, <1>2, PacedStepIsNext

PacedAppInv == AppInv /\ SelectionInRange /\ PacedInv

LEMMA PacedStepKeeps == ASSUME Paced PROVE PacedAppInv /\ [AppNext]_appVars => PacedAppInv'
<1>. SUFFICES ASSUME PacedAppInv, [AppNext]_appVars PROVE PacedAppInv'
  OBVIOUS
<1>1. AppInv /\ SelectionInRange /\ PacedInv
  BY DEF PacedAppInv
<1>2. AppInv' /\ SelectionInRange'
  BY <1>1, AppStepKeeps, PacedKeepsSelection
<1>3. CASE Type \/ HandleKey \/ HandleCustom
  BY <1>1, <1>2, <1>3, TypeKeepsPaced, KeyKeepsPaced, CustomKeepsPaced DEF PacedAppInv
<1>4. CASE ContinueSweep \/ BeginDraw \/ EndDraw
  BY <1>1, <1>2, <1>4, SweepKeepsPaced, BeginKeepsPaced, DrawKeepsPaced DEF PacedAppInv
<1>5. CASE WriteOutside \/ UNCHANGED appVars
  <2>1. UNCHANGED <<file_names, file_to_matches, selected_file_index, file_managers, file_viewer,
                    diffs, diffs_as_displayed, selected_diff, replacement_text, actions_queue,
                    posted, sweeping, status, focus, events, drawing, boxes>>
    BY <1>5 DEF WriteOutside, EditOutside, appVars, vars, pickerVars, historyVars, queueVars
  <2>. QED
    BY <1>1, <1>2, <2>1, SamePaced DEF PacedAppInv
<1>. QED
  BY <1>3, <1>4, <1>5 DEF AppNext, Loop

LEMMA InitPacedAppInv == AppInit => PacedAppInv
<1>. SUFFICES ASSUME AppInit PROVE PacedAppInv
  OBVIOUS
<1>1. SelectionInRange
  BY DEF AppInit, Init, SelectionInRange
<1>2. PacedInv
  <2>1. Keys = {} /\ drawing = "no" /\ events = << >> /\ sweeping = NotSweeping
    BY KeysThatWait DEF AppInit, Init
  <2>2. events # <<"custom", "key">>
    <3>1. Len(<<"custom", "key">>) = 2 /\ Len(events) = 0
      BY <2>1
    <3>. QED
      BY <3>1
  <2>3. ~Drawn
    BY <2>1 DEF Drawn
  <2>. QED
    BY <2>1, <2>2, <2>3 DEF PacedInv, PacedParts, Orderly, BoxesAgree, FileIsRead, FileOfDiff,
                            NoOpWaits, FirstIsShown, FocusMoved
<1>. QED
  BY <1>1, <1>2, InitAppInv DEF PacedAppInv

\* A user who waits for the screen keeps both selections inside their lists.
THEOREM PacedSelectionInRange == ASSUME Paced PROVE AppSpec => []SelectionInRange
<1>1. AppSpec => []PacedAppInv
  BY InitPacedAppInv, PacedStepKeeps, PTL DEF AppSpec
<1>. QED
  BY <1>1, PTL DEF PacedAppInv

-----------------------------------------------------------------------------
(* What throws under a user who waits is a match that is not whole.        *)

NotWhole ==
  \E n \in DOMAIN file_names : \E slice \in MatchesOf(file_names[n]) : ~IsWhole(n - 1, slice)

LEMMA BrokenMatch ==
  ASSUME IInv, NEW index \in Nat, IsListed(index), NEW slice,
         slice \in MatchesOf(file_names[index + 1]), ~IsWhole(index, slice)
  PROVE  NotWhole
<1>1. index + 1 \in DOMAIN file_names
  <2>1. Len(file_names) \in Nat /\ DOMAIN file_names = 1..Len(file_names)
    BY LenProperties DEF IInv, TypeOK
  <2>. QED
    BY <2>1 DEF IsListed
<1>2. PICK n \in DOMAIN file_names : n = index + 1
  BY <1>1
<1>3. n - 1 = index
  BY <1>2
<1>4. slice \in MatchesOf(file_names[n]) /\ ~IsWhole(n - 1, slice)
  BY <1>2, <1>3
<1>. QED
  BY <1>4 DEF NotWhole

LEMMA LengthIsNat ==
  ASSUME IInv, NEW index \in Nat, IsListed(index)
  PROVE  LengthOf(index) \in Nat
<1>1. CopyOf(index).file_name \in FileName /\ CopyOf(index).edition \in 0..MaxEdition
  <2>1. CASE IsLoaded(index)
    BY <2>1 DEF CopyOf, IsLoaded, IInv, TypeOK
  <2>2. CASE ~IsLoaded(index)
    <3>1. file_names[index + 1] \in FileName
      BY FileAt DEF IInv, IsListed
    <3>. QED
      BY <2>2, <3>1 DEF CopyOf, IInv, TypeOK
  <2>. QED
    BY <2>1, <2>2
<1>. QED
  BY <1>1, ReviewAssumption DEF LengthOf

\* What cannot be shown, decided or spliced is not whole.
LEMMA NeedsWhole ==
  ASSUME IInv, NEW index \in Nat, IsListed(index), NEW slice \in Slice
  PROVE  IsWhole(index, slice)
           => CanShow(index, slice) /\ HasFirstLine(index, slice) /\ CanSplice(index, slice)
<1>1. slice.start \in Nat /\ slice.end \in Nat /\ LengthOf(index) \in Nat
  BY ReviewAssumption, LengthIsNat
<1>. HIDE DEF LengthOf
<1>. QED
  BY <1>1 DEF IsWhole, WellFormed, CanShow, HasFirstLine, CanSplice

LEMMA PendingSlice ==
  ASSUME IInv, NEW index \in Nat, IsListed(index), NEW k \in 1..Len(Pending(index))
  PROVE  Pending(index)[k] \in Slice /\ Pending(index)[k] \in MatchesOf(file_names[index + 1])
<1>1. Pending(index) \in Seq(Slice)
  BY FileAt DEF IInv, IsListed
<1>2. Pending(index)[k] \in Slice /\ k \in DOMAIN Pending(index)
  BY <1>1, ElementOfSeq, LenProperties
<1>. QED
  BY <1>2 DEF Pending, MatchesOf, Range

\* The slice of a diff is one of its file.
LEMMA DiffSlice ==
  ASSUME IInv, NEW i \in DOMAIN diffs
  PROVE  /\ diffs[i].file_index \in Nat /\ IsListed(diffs[i].file_index)
         /\ IsLoaded(diffs[i].file_index)
         /\ diffs[i].byte_slice \in Slice
         /\ diffs[i].byte_slice \in MatchesOf(file_names[diffs[i].file_index + 1])
<1>1. diffs[i] \in TextDiff
  BY LenProperties, ElementOfSeq DEF IInv, TypeOK
<1>2. /\ IsLoaded(diffs[i].file_index) /\ IsListed(diffs[i].file_index)
      /\ file_names[diffs[i].file_index + 1] = diffs[i].file_name
  BY DEF IInv, DiffsCommittable, IsListed
<1>3. i \in DecidedIn(file_names[diffs[i].file_index + 1])
  BY <1>2 DEF DecidedIn
<1>. QED
  BY <1>1, <1>2, <1>3 DEF TextDiff, MatchesOf

LEMMA PopulateThrows ==
  ASSUME IInv, NEW mode, NEW index \in Nat,
         file_names # << >> => IsListed(index),
         mode # MatchMode => /\ is_current_diff_valid
                             /\ index = diffs[selected_diff + 1].file_index,
         PopulateStops(mode, index), status' = "threw"
  PROVE  NotWhole
<1>1. HasSliceToShow(mode, index) /\ ~CanShow(index, SliceToShow(mode, index))
  BY DEF PopulateStops, Stop
<1>2. IsListed(index)
  BY <1>1 DEF HasSliceToShow
<1>3. /\ SliceToShow(mode, index) \in Slice
      /\ SliceToShow(mode, index) \in MatchesOf(file_names[index + 1])
  <2>1. CASE mode = MatchMode
    <3>1. Pending(index) # << >>
      BY <1>1, <2>1 DEF HasSliceToShow, AllMatchesProcessed, Pending, MatchMode, HistoryMode
    <3>2. Pending(index) \in Seq(Slice)
      BY <1>2, FileAt DEF IInv, IsListed
    <3>3. 1 \in 1..Len(Pending(index)) /\ Head(Pending(index)) = Pending(index)[1]
      BY <3>1, <3>2, EmptySeq, LenProperties
    <3>. QED
      BY <1>2, <2>1, <3>3, PendingSlice DEF SliceToShow, Pending
  <2>2. CASE mode # MatchMode
    <3>1. selected_diff + 1 \in DOMAIN diffs
      BY <2>2, LenProperties DEF is_current_diff_valid, IInv, TypeOK
    <3>. QED
      BY <2>2, <3>1, DiffSlice DEF SliceToShow
  <2>. QED
    BY <2>1, <2>2
<1>. QED
  BY <1>1, <1>2, <1>3, NeedsWhole, BrokenMatch

LEMMA PendingThrows ==
  ASSUME IInv, NEW index \in Nat, IsListed(index), NEW k \in 1..Len(Pending(index)),
         ~HasFirstLine(index, Pending(index)[k])
  PROVE  NotWhole
BY PendingSlice, NeedsWhole, BrokenMatch

LEMMA AcceptThrows ==
  ASSUME IInv, NEW index \in Nat, file_names # << >> => IsListed(index),
         AcceptFileStops(index), status' = "threw"
  PROVE  NotWhole
<1>1. CASE PopulateStops(MatchMode, index)
  BY <1>1, PopulateThrows
<1>2. CASE /\ IsListed(index)
           /\ \E k \in 1..Len(Pending(index)) : ~HasFirstLine(index, Pending(index)[k])
  BY <1>2, PendingThrows
<1>. QED
  BY <1>1, <1>2 DEF AcceptFileStops

LEMMA DecisionThrows ==
  ASSUME IInv, NEW index \in Nat, IsListed(index), IsLoaded(index),
         NEW n \in 0..Len(Pending(index)), DecideThrows(n, index)
  PROVE  NotWhole
<1>1. PICK k \in 1..n : ~HasFirstLine(index, Pending(index)[k])
  BY DEF DecideThrows
<1>2. k \in 1..Len(Pending(index))
  BY <1>1, FileAt DEF IInv, IsListed
<1>. QED
  BY <1>1, <1>2, PendingThrows

\* The files before the broken one are written; its copy stays what it was.
LEMMA SpliceThrows == ASSUME IInv, CommitThrows PROVE NotWhole'
<1>1. PICK broken \in CannotSplice : TRUE
  BY DEF CommitThrows
<1>2. PICK i \in DOMAIN diffs : ~CanSplice(diffs[i].file_index, diffs[i].byte_slice)
  BY <1>1 DEF CannotSplice, DiffsOf, AcceptedDiffs
<1>3. PICK index \in Nat : index = diffs[i].file_index
  BY DiffSlice
<1>4. PICK slice \in Slice : slice = diffs[i].byte_slice
  BY DiffSlice
<1>5. IsListed(index) /\ IsLoaded(index) /\ slice \in MatchesOf(file_names[index + 1])
  BY <1>3, <1>4, DiffSlice
<1>6. ~IsWhole(index, slice)
  BY <1>2, <1>3, <1>4, <1>5, NeedsWhole
<1>7. UNCHANGED <<file_names, file_to_matches, file_managers, diffs>>
  BY DEF CommitThrows, pickerVars, historyVars
<1>8. IInv'
  BY CommitThrowsKeeps
<1>9. ~IsWhole(index, slice)'
  BY <1>5, <1>6, <1>7 DEF IsWhole, WellFormed, LengthOf, CopyOf, IsLoaded
<1>10. /\ IsListed(index)'
       /\ slice \in MatchesOf(file_names[index + 1])'
  BY <1>5, <1>7 DEF IsListed, MatchesOf, DecidedIn
<1>11. PICK n \in DOMAIN file_names : n = index + 1
  <2>1. Len(file_names) \in Nat /\ DOMAIN file_names = 1..Len(file_names)
    BY LenProperties DEF IInv, TypeOK
  <2>. QED
    BY <1>5, <2>1 DEF IsListed
<1>12. n - 1 = index
  BY <1>11
<1>. QED
  BY <1>7, <1>9, <1>10, <1>11, <1>12 DEF NotWhole

\* The key decides a file that has been read.
LEMMA FilesKeyReady ==
  ASSUME IInv, SelectionInRange, PacedInv, FilesKey, files_have_been_loaded,
         Pending(selected_file_index) # << >>
  PROVE  IsListed(selected_file_index) /\ IsLoaded(selected_file_index)
<1>1. /\ Drawn /\ focus = "files" /\ PacedParts
  BY TakenKey DEF FilesKey
<1>2. file_names # << >>
  BY LoadedHasFiles
<1>. QED
  BY <1>1, <1>2 DEF PacedParts, FileIsRead, HasPending, IsListed, SelectionInRange

LEMMA FilesKeyThrows ==
  ASSUME IInv, SelectionInRange, PacedInv, FilesKey,
         status = "running", status' = "threw"
  PROVE  NotWhole
<1>. DEFINE index == selected_file_index
<1>1. index \in Nat
  BY DEF IInv, TypeOK
<1>2. ASSUME files_have_been_loaded PROVE IsListed(index)
  BY <1>2, LoadedHasFiles DEF IsListed, SelectionInRange
<1>3. IsListed(index) => Pending(index) \in Seq(Slice) /\ Len(Pending(index)) \in Nat
  BY <1>1, FileAt DEF IInv, IsListed
<1>4. CASE \E accepted \in BOOLEAN : AddCurrentChange(accepted)
  <2>1. /\ files_have_been_loaded /\ Pending(index) # << >> /\ DecideThrows(1, index)
    BY <1>2, <1>4 DEF AddCurrentChange, decideFrame
  <2>2. IsListed(index) /\ IsLoaded(index)
    BY <2>1, FilesKeyReady
  <2>3. 1 \in 0..Len(Pending(index))
    BY <1>3, <2>1, <2>2, EmptySeq
  <2>. QED
    BY <1>1, <2>1, <2>2, <2>3, DecisionThrows
<1>5. CASE RejectAllInFile
  <2>1. /\ files_have_been_loaded /\ Len(Pending(index)) > 0
        /\ DecideThrows(Len(Pending(index)), index)
    BY <1>2, <1>5 DEF RejectAllInFile, decideFrame
  <2>2. Pending(index) # << >>
    BY <2>1
  <2>3. IsListed(index) /\ IsLoaded(index)
    BY <2>1, <2>2, FilesKeyReady
  <2>4. Len(Pending(index)) \in 0..Len(Pending(index))
    BY <1>3, <2>3
  <2>. QED
    BY <1>1, <2>1, <2>3, <2>4, DecisionThrows
<1>6. CASE AcceptAllInFile
  <2>1. AcceptFileStops(index) /\ IsListed(index)
    BY <1>2, <1>6 DEF AcceptAllInFile, decideFrame
  <2>. QED
    BY <1>1, <2>1, AcceptThrows
<1>. QED
  BY <1>4, <1>5, <1>6 DEF FilesKey

\* No other key throws, but the commit.
LEMMA OtherKeysReturn ==
  ASSUME IInv, BoxesOK, HandleKey, ~FilesKey, ~CommitThrows, status = "running"
  PROVE  status' # "threw"
<1>1. CASE ClickLine \/ Wheel \/ MoveSelection
  BY <1>1, MenuKeysSelect DEF Selects, SelectFile, SelectDiff
<1>2. CASE PointAt \/ IgnoredKey \/ EscapeInput \/ Shortcut \/ ShowHelp \/ MoveFocus
  BY <1>2 DEF PointAt, IgnoredKey, EscapeInput, Shortcut, ShowHelp, MoveFocus, vars
<1>3. CASE EscapeModal \/ TypeReplacement \/ HistoryKey
  BY <1>3 DEF EscapeModal, TypeReplacement, HistoryKey, DismissCommit, EditReplacement, DeleteDiff,
              vars
<1>4. CASE PressButton
  BY <1>4 DEF PressButton, Search, SearchInvalidRegex, AcceptAllInAllFiles, Commit, Stop,
              decideFrame
<1>. QED
  BY <1>1, <1>2, <1>3, <1>4 DEF HandleKey

LEMMA SweepThrows ==
  ASSUME IInv, ContinueSweep, status = "running", status' = "threw"
  PROVE  NotWhole
<1>1. SweepFile /\ AcceptFileStops(sweeping)
  BY DEF ContinueSweep, SweepFile, SweepDone, decideFrame
<1>2. sweeping \in Nat /\ IsListed(sweeping)
  <2>1. Len(file_names) \in Nat /\ sweeping \in 0..(Len(file_names) - 1)
    BY <1>1, LenProperties DEF SweepFile, IInv, TypeOK
  <2>. QED
    BY <2>1 DEF IsListed
<1>. QED
  BY <1>1, <1>2, AcceptThrows

LEMMA DrawThrows ==
  ASSUME IInv, SelectionInRange, EndDraw,
         status = "running", status' = "threw"
  PROVE  NotWhole
<1>1. selected_file_index \in Nat /\ (file_names # << >> => IsListed(selected_file_index))
  BY DEF IInv, TypeOK, SelectionInRange, IsListed
<1>2. RenderFocused
  BY <1>1 DEF EndDraw, DrawWith
<1>3. CASE RenderFilePicker
  <2>1. PopulateStops(MatchMode, selected_file_index)
    BY <1>3 DEF RenderFilePicker, decideFrame
  <2>. QED
    BY <1>1, <2>1, PopulateThrows
<1>4. CASE RenderHistory
  <2>. DEFINE index == diffs[selected_diff + 1].file_index
  <2>1. is_current_diff_valid
    BY <1>4 DEF RenderHistory, SelectionInRange, is_current_diff_valid, history_has_diffs
  <2>2. PopulateStops(HistoryMode, index)
    BY <1>4, <2>1 DEF RenderHistory, decideFrame
  <2>3. selected_diff + 1 \in DOMAIN diffs
    BY <2>1, LenProperties DEF is_current_diff_valid, IInv, TypeOK
  <2>4. IsListed(index) /\ index \in Nat
    BY <2>3 DEF IInv, TypeOK, DiffsCommittable, IsLoaded, IsListed
  <2>. QED
    BY <2>1, <2>2, <2>4, PopulateThrows
<1>5. CASE RenderEmptyHistory \/ RenderSearchInput \/ UNCHANGED vars
  BY <1>5 DEF RenderEmptyHistory, RenderSearchInput, decideFrame, vars
<1>. QED
  BY <1>2, <1>3, <1>4, <1>5 DEF RenderFocused

\* A step that throws leaves the rest as it was, but for the commit.
LEMMA ThrowingStep ==
  ASSUME AppInv, AppNext, status' = "threw", ~CommitThrows
  PROVE  /\ status = "running"
         /\ UNCHANGED <<file_names, file_to_matches, file_managers, diffs, disk>>
<1>1. IInv /\ BoxesOK
  BY DEF AppInv, AppTypeOK, BoxesOK
<1>2. CASE Type \/ HandleCustom \/ BeginDraw
  BY <1>2 DEF Type, HandleCustom, SwallowCustom, PopAction, Handling, BeginDraw, LoopRuns,
              Running, vars, customFrame
<1>3. CASE HandleKey
  <2>1. status = "running"
    BY <1>1, <1>3, KeyStep DEF TakeKey, Take, LoopRuns, Running
  <2>2. FilesKey
    BY <1>1, <1>3, <2>1, OtherKeysReturn
  <2>3. UNCHANGED <<file_names, file_to_matches, file_managers, diffs, disk>>
    BY <2>1, <2>2 DEF FilesKey, AddCurrentChange, RejectAllInFile, AcceptAllInFile, DecideThrows,
                      AcceptFileStops, PopulateStops, Stop, decideFrame, pickerVars, historyVars,
                      diskVars
  <2>. QED
    BY <2>1, <2>3
<1>4. CASE ContinueSweep
  <2>1. status = "running"
    BY <1>4 DEF ContinueSweep, SweepFile, SweepDone
  <2>. QED
    BY <1>4, <2>1 DEF ContinueSweep, SweepFile, SweepDone, AcceptFileStops, PopulateStops, Stop,
                      decideFrame, pickerVars, historyVars, diskVars
<1>5. CASE EndDraw
  <2>1. status = "running"
    BY <1>5 DEF EndDraw, DrawWith, Running
  <2>. QED
    BY <1>5, <2>1, DrawStep
       DEF Renders, RenderFilePicker, RenderHistory, RenderEmptyHistory, RenderSearchInput,
           PopulateStops, Stop, decideFrame, pickerVars, historyVars, diskVars, vars
<1>6. CASE WriteOutside
  BY <1>6 DEF WriteOutside, EditOutside
<1>. QED
  BY <1>2, <1>3, <1>4, <1>5, <1>6 DEF AppNext, Loop

LEMMA SameNotWhole ==
  ASSUME UNCHANGED <<file_names, file_to_matches, file_managers, diffs, disk>>
  PROVE  NotWhole => NotWhole'
BY DEF NotWhole, MatchesOf, DecidedIn, IsWhole, WellFormed, LengthOf, CopyOf, IsLoaded

LEMMA StepNeverThrows == PacedAppInv /\ NeverThrows /\ [AppNext]_appVars => NeverThrows'
<1>. SUFFICES ASSUME PacedAppInv, NeverThrows, [AppNext]_appVars, status' = "threw"
              PROVE  NotWhole'
  BY DEF NeverThrows, NotWhole
<1>1. /\ AppInv /\ IInv /\ BoxesOK /\ SelectionInRange /\ PacedInv
  BY DEF PacedAppInv, AppInv, AppTypeOK, BoxesOK
<1>2. CASE UNCHANGED appVars
  <2>1. /\ status = "threw"
        /\ UNCHANGED <<file_names, file_to_matches, file_managers, diffs, disk>>
    BY <1>2 DEF appVars, vars, pickerVars, historyVars, diskVars
  <2>2. NotWhole
    BY <2>1 DEF NeverThrows, NotWhole
  <2>. QED
    BY <2>1, <2>2, SameNotWhole
<1>3. CASE CommitThrows
  BY <1>1, <1>3, SpliceThrows
<1>4. CASE AppNext /\ ~CommitThrows
  <2>1. /\ status = "running"
        /\ UNCHANGED <<file_names, file_to_matches, file_managers, diffs, disk>>
    BY <1>1, <1>4, ThrowingStep
  <2>2. ~(Type \/ HandleCustom \/ BeginDraw \/ WriteOutside)
    BY <2>1 DEF Type, HandleCustom, SwallowCustom, PopAction, BeginDraw, WriteOutside, EditOutside,
                vars, customFrame
  <2>3. NotWhole
    BY <1>1, <1>4, <2>1, <2>2, OtherKeysReturn, FilesKeyThrows, SweepThrows, DrawThrows
       DEF AppNext, Loop
  <2>. QED
    BY <2>1, <2>3, SameNotWhole
<1>. QED
  BY <1>2, <1>3, <1>4

\* A user who waits for the screen makes a handler or a renderer throw only by a
\* match that is not whole in the copy of its file: one of length zero, or one
\* that reaches behind the copy, because the file changed after the search or has
\* a byte 0xFF before the end of the match.  No order of keys and clicks does.
THEOREM PacedNeverThrows == ASSUME Paced PROVE AppSpec => []NeverThrows
<1>1. AppInit => NeverThrows
  BY DEF AppInit, Init, NeverThrows
<1>. QED
  BY <1>1, InitPacedAppInv, PacedStepKeeps, StepNeverThrows, PTL DEF AppSpec

-----------------------------------------------------------------------------
(* The first match that a key decides is the one on the screen.            *)

ShownAs(file, slice, text) == [file |-> file, slice |-> slice, text |-> text]
\* The match a step decides first, as the file viewer shows it.
DecidedShown ==
  LET diff == diffs'[Len(diffs) + 1] IN
  ShownAs(diff.file_name, diff.byte_slice, diff.replacement_text) \in file_viewer'.shown
MoreDiffs == Len(diffs') > Len(diffs)

\* What the first round of a decision appends.
LEMMA FirstDecided ==
  ASSUME IInv, NEW index \in Nat, index < Len(file_names), NEW accepted,
         NEW n \in 0..Len(Pending(index)), DecideFirst(n, accepted, index), MoreDiffs
  PROVE  /\ Pending(index) # << >>
         /\ diffs'[Len(diffs) + 1] = Decision(accepted, index, Head(Pending(index)))
<1>. DEFINE decided == [k \in 1..n |-> Decision(accepted, index, Pending(index)[k])]
<1>1. /\ diffs \in Seq(TextDiff) /\ Len(diffs) \in Nat
      /\ Pending(index) \in Seq(Slice) /\ Len(Pending(index)) \in Nat
  BY FileAt, LenProperties DEF IInv, TypeOK
<1>2. n \in Nat /\ n <= Len(Pending(index))
  BY <1>1
<1>3. diffs' = diffs \o decided
  BY DEF DecideFirst
<1>4. decided \in Seq(Range(decided)) /\ Len(decided) = n
  <2>1. decided \in [1..n -> Range(decided)]
    BY DEF Range
  <2>. HIDE DEF decided
  <2>. QED
    BY <1>2, <2>1, SeqOfLen
<1>5. n > 0 => decided[1] = Decision(accepted, index, Pending(index)[1])
  BY <1>2
<1>. HIDE DEF decided
<1>. DEFINE S == TextDiff \cup Range(decided)
<1>6. diffs \in Seq(S) /\ decided \in Seq(S)
  BY <1>1, <1>4, SeqMonotonic
<1>. HIDE DEF S
<1>7. /\ Len(diffs') = Len(diffs) + n
      /\ \A i \in 1..(Len(diffs) + n) :
           diffs'[i] = IF i <= Len(diffs) THEN diffs[i] ELSE decided[i - Len(diffs)]
  BY <1>3, <1>4, <1>6, ConcatProperties
<1>8. n > 0
  BY <1>1, <1>2, <1>7 DEF MoreDiffs
<1>9. diffs'[Len(diffs) + 1] = decided[1]
  <2>1. /\ Len(diffs) + 1 \in 1..(Len(diffs) + n) /\ ~(Len(diffs) + 1 <= Len(diffs))
        /\ (Len(diffs) + 1) - Len(diffs) = 1
    BY <1>1, <1>2, <1>8
  <2>. QED
    BY <1>7, <2>1
<1>10. Pending(index) # << >> /\ Head(Pending(index)) = Pending(index)[1]
  BY <1>1, <1>2, <1>8, EmptySeq
<1>. QED
  BY <1>5, <1>8, <1>9, <1>10

\* A decision on a file that was just shown.
LEMMA AcceptedShown ==
  ASSUME IInv, NEW index \in Nat, IsListed(index), AcceptFile(index), MoreDiffs
  PROVE  DecidedShown
<1>. DEFINE n == Len(Pending(index))
<1>1. n \in Nat /\ n \in 0..Len(Pending(index)) /\ index < Len(file_names)
  BY FileAt DEF IInv, IsListed
<1>2. DecideFirst(n, TRUE, index) /\ PopulateFileViewer(MatchMode, index)
  BY DEF AcceptFile
<1>. HIDE DEF n
<1>3. /\ Pending(index) # << >>
      /\ diffs'[Len(diffs) + 1] = Decision(TRUE, index, Head(Pending(index)))
  BY <1>1, <1>2, FirstDecided
<1>4. HasSliceToShow(MatchMode, index)
  BY <1>3 DEF HasSliceToShow, AllMatchesProcessed, Pending
<1>5. /\ SliceToShow(MatchMode, index) = Head(Pending(index))
      /\ TextToShow(MatchMode) = replacement_text
  BY DEF SliceToShow, TextToShow, Pending
<1>6. file_viewer'.shown = {[file |-> file_names[index + 1],
                             slice |-> Head(Pending(index)),
                             text |-> replacement_text]}
  BY <1>2, <1>4, <1>5 DEF PopulateFileViewer
<1>. QED
  BY <1>3, <1>6 DEF DecidedShown, ShownAs, Decision

\* A decision on the file that was shown when the key was typed.
LEMMA KeyDecidesShown ==
  ASSUME AppInv, SelectionInRange, PacedInv, FilesKey, NoLeftovers, MoreDiffs
  PROVE  DecidedShown
<1>. DEFINE index == selected_file_index
<1>1. IInv /\ index \in Nat /\ drawing \in {"no", "now", "done"}
  BY DEF AppInv, AppTypeOK, IInv, TypeOK
<1>2. Drawn /\ focus = "files" /\ PacedParts /\ events = <<"key">> /\ drawing # "now"
  BY TakenKey DEF FilesKey
<1>3. Len(diffs) \in Nat
  BY <1>1, LenProperties DEF IInv, TypeOK
<1>4. ASSUME NEW accepted, NEW n \in 0..Len(Pending(index)), IsListed(index),
             DecideFirst(n, accepted, index), UNCHANGED file_viewer
      PROVE  DecidedShown
  <2>1. /\ Pending(index) # << >>
        /\ diffs'[Len(diffs) + 1] = Decision(accepted, index, Head(Pending(index)))
    BY <1>1, <1>4, FirstDecided DEF IsListed
  <2>2. HasPending
    <3>1. file_names # << >>
      BY <1>1, <1>4, EmptySeq DEF IsListed
    <3>. QED
      BY <2>1, <3>1 DEF HasPending
  <2>3. drawing = "done"
    <3>1. drawing # "no"
      BY <1>2, KeysThatWait DEF PacedParts, FocusMoved
    <3>. QED
      BY <1>1, <1>2, <3>1
  <2>4. file_viewer.shown = {[file |-> file_names[index + 1],
                              slice |-> Head(Pending(index)),
                              text |-> replacement_text]}
    BY <1>2, <2>2, <2>3 DEF PacedParts, FirstIsShown
  <2>. QED
    BY <1>4, <2>1, <2>4 DEF DecidedShown, ShownAs, Decision
<1>5. ~UNCHANGED diffs
  BY <1>3 DEF MoreDiffs
<1>6. CASE \E accepted \in BOOLEAN : AddCurrentChange(accepted)
  <2>1. PICK accepted \in BOOLEAN : AddCurrentChange(accepted)
    BY <1>6
  <2>2. /\ CanDecide(1, index) /\ DecideFirst(1, accepted, index) /\ UNCHANGED file_viewer
    BY <1>5, <2>1 DEF AddCurrentChange, DecideThrows, Stop, historyVars
  <2>3. IsListed(index)
    BY <1>1, <2>2, InMemoryIsListed DEF IsListed
  <2>4. Pending(index) # << >> /\ Pending(index) \in Seq(Slice)
    BY <1>1, <2>1, <2>3, FileAt DEF AddCurrentChange, IInv, IsListed
  <2>5. 1 \in 0..Len(Pending(index))
    BY <2>4, EmptySeq
  <2>. QED
    BY <1>4, <2>2, <2>3, <2>5
<1>7. CASE RejectAllInFile
  <2>. DEFINE n == Len(Pending(index))
  <2>1. CanDecide(n, index) /\ DecideFirst(n, FALSE, index) /\ UNCHANGED file_viewer
    BY <1>5, <1>7 DEF RejectAllInFile, DecideThrows, Stop, historyVars
  <2>2. IsListed(index)
    BY <1>1, <2>1, InMemoryIsListed DEF IsListed
  <2>3. n \in 0..Len(Pending(index))
    BY <1>1, <2>2, FileAt DEF IInv, IsListed
  <2>. QED
    BY <1>4, <2>1, <2>2, <2>3
<1>8. CASE AcceptAllInFile
  <2>1. files_have_been_loaded /\ AcceptFile(index)
    BY <1>5, <1>8 DEF AcceptAllInFile, AcceptFileStops, PopulateStops, Stop, historyVars
  <2>2. IsListed(index)
    BY <1>1, <2>1, LoadedHasFiles DEF IsListed, SelectionInRange
  <2>. QED
    BY <1>1, <2>1, <2>2, AcceptedShown
<1>. QED
  BY <1>6, <1>7, <1>8 DEF FilesKey

\* No other key decides a match.
LEMMA OtherKeysDecideNothing ==
  ASSUME IInv, BoxesOK, HandleKey, ~FilesKey
  PROVE  ~MoreDiffs
<1>1. diffs \in Seq(TextDiff) /\ Len(diffs) \in Nat /\ Len(<< >>) = 0
  BY LenProperties DEF IInv, TypeOK
<1>2. CASE UNCHANGED diffs
  BY <1>1, <1>2 DEF MoreDiffs
<1>3. CASE diffs' = << >>
  BY <1>1, <1>3 DEF MoreDiffs
<1>4. CASE HistoryKey
  <2>1. diffs' = RemoveAt(diffs, selected_diff + 1) /\ selected_diff + 1 \in 1..Len(diffs)
    BY <1>1, <1>4 DEF HistoryKey, DeleteDiff, is_current_diff_valid, IInv, TypeOK
  <2>2. Len(diffs') = Len(diffs) - 1
    BY <1>1, <2>1, RemoveAtFacts
  <2>. QED
    BY <1>1, <2>2 DEF MoreDiffs
<1>5. CASE ClickLine \/ Wheel \/ MoveSelection
  <2>1. UNCHANGED diffs
    BY <1>5, MenuKeysSelect DEF Selects, SelectFile, SelectDiff, historyVars
  <2>. QED
    BY <1>2, <2>1
<1>6. CASE PointAt \/ IgnoredKey \/ EscapeInput \/ Shortcut \/ ShowHelp \/ MoveFocus
           \/ TypeReplacement
  <2>1. UNCHANGED diffs
    BY <1>6 DEF PointAt, IgnoredKey, EscapeInput, Shortcut, ShowHelp, MoveFocus, TypeReplacement,
                EditReplacement, vars, historyVars
  <2>. QED
    BY <1>2, <2>1
<1>7. CASE EscapeModal \/ PressButton
  <2>1. UNCHANGED diffs \/ diffs' = << >>
    BY <1>7 DEF EscapeModal, DismissCommit, PressButton, Search, SearchInvalidRegex,
                AcceptAllInAllFiles, Commit, CommitThrows, Stop, ResetBeforeSearch, vars, historyVars
  <2>. QED
    BY <1>2, <1>3, <2>1
<1>. QED
  BY <1>4, <1>5, <1>6, <1>7 DEF HandleKey

LEMMA StepDecidesShown ==
  PacedAppInv /\ [AppNext]_appVars => [NoLeftovers /\ MoreDiffs => DecidedShown]_appVars
<1>. SUFFICES ASSUME PacedAppInv, AppNext, NoLeftovers, MoreDiffs PROVE DecidedShown
  OBVIOUS
<1>1. AppInv /\ IInv /\ BoxesOK /\ SelectionInRange /\ PacedInv
  BY DEF PacedAppInv, AppInv, AppTypeOK, BoxesOK
<1>2. Len(diffs) \in Nat
  BY <1>1, LenProperties DEF IInv, TypeOK
<1>3. ~UNCHANGED diffs
  BY <1>2 DEF MoreDiffs
<1>4. CASE HandleKey
  BY <1>1, <1>4, OtherKeysDecideNothing, KeyDecidesShown
<1>5. CASE ContinueSweep
  <2>1. SweepFile /\ AcceptFile(sweeping)
    BY <1>3, <1>5 DEF ContinueSweep, SweepFile, SweepDone, AcceptFileStops, PopulateStops, Stop,
                      historyVars
  <2>2. sweeping \in Nat /\ IsListed(sweeping)
    <3>1. Len(file_names) \in Nat /\ sweeping \in 0..(Len(file_names) - 1)
      BY <1>1, <2>1, LenProperties DEF SweepFile, IInv, TypeOK
    <3>. QED
      BY <3>1 DEF IsListed
  <2>. QED
    BY <1>1, <2>1, <2>2, AcceptedShown
<1>6. CASE Type \/ HandleCustom \/ BeginDraw \/ WriteOutside
  BY <1>3, <1>6 DEF Type, HandleCustom, SwallowCustom, PopAction, BeginDraw, WriteOutside,
                    EditOutside, customFrame, vars, historyVars
<1>7. CASE EndDraw
  BY <1>3, <1>7, DrawStep
     DEF Renders, RenderFilePicker, RenderHistory, RenderEmptyHistory, RenderSearchInput,
         PopulateStops, Stop, vars, historyVars
<1>. QED
  BY <1>4, <1>5, <1>6, <1>7 DEF AppNext, Loop

\* A user who waits for the screen decides what it shows: as long as no action
\* is left over in the queue, the first match that a key decides is the one in
\* the file viewer, with the text shown there.
THEOREM PacedDecidesShown == ASSUME Paced PROVE AppSpec => DecidesWhatIsShown
<1>1. [NoLeftovers /\ MoreDiffs => DecidedShown]_appVars
        => [NoLeftovers /\ Len(diffs') > Len(diffs) =>
              LET diff == diffs'[Len(diffs) + 1] IN
              [file |-> diff.file_name, slice |-> diff.byte_slice, text |-> diff.replacement_text]
                \in file_viewer'.shown]_appVars
  BY DEF MoreDiffs, DecidedShown, ShownAs
<1>. QED
  BY <1>1, InitPacedAppInv, PacedStepKeeps, StepDecidesShown, PTL DEF AppSpec, DecidesWhatIsShown

=============================================================================
