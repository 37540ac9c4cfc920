---------------------------- MODULE ReviewProofs ----------------------------
(***************************************************************************)
(* Proofs about Review, for every set of files, slices and texts and every *)
(* value of the bounds: first its invariants and action properties, then   *)
(* that it loses no match and decides none twice (EveryMatchOnce) and,     *)
(* from that, that it implements Ledger.  EveryMatchOnce is split into     *)
(* what it says of one file, OnceIn, a relation between two sequences;     *)
(* what a handler does to them, and to a history and the decisions it      *)
(* records, is a lemma about sequences, and a step of Review only says     *)
(* which lemma applies.                                                    *)
(***************************************************************************)
EXTENDS ReviewLedger, SequenceTheorems, FiniteSetTheorems, TLAPS

-----------------------------------------------------------------------------
(* Lemmas about sequences. *)

\* What RemoveAt leaves.
LEMMA RemoveAtFacts ==
  ASSUME NEW S, NEW s \in Seq(S), NEW i \in 1..Len(s)
  PROVE  /\ RemoveAt(s, i) \in Seq(S)
         /\ Len(RemoveAt(s, i)) = Len(s) - 1
         /\ \A j \in 1..(Len(s) - 1) : RemoveAt(s, i)[j] = IF j < i THEN s[j] ELSE s[j + 1]
<1>. DEFINE front == SubSeq(s, 1, i - 1)
            back == SubSeq(s, i + 1, Len(s))
<1>1. Len(s) \in Nat
  BY LenProperties
<1>2. /\ front \in Seq(S)
      /\ Len(front) = i - 1
      /\ \A j \in 1..(i - 1) : front[j] = s[j]
  BY SubSeqProperties, ElementOfSeq, LenProperties
<1>3. /\ back \in Seq(S)
      /\ Len(back) = Len(s) - i
      /\ \A j \in 1..(Len(s) - i) : back[j] = s[i + j]
  BY SubSeqProperties, ElementOfSeq, LenProperties
<1>4. RemoveAt(s, i) = front \o back
  BY DEF RemoveAt
<1>. HIDE DEF front, back
<1>5. /\ front \o back \in Seq(S)
      /\ Len(front \o back) = Len(front) + Len(back)
      /\ \A j \in 1..(Len(front) + Len(back)) :
           (front \o back)[j] = IF j <= Len(front) THEN front[j] ELSE back[j - Len(front)]
  BY <1>2, <1>3, ConcatProperties
<1>6. ASSUME NEW j \in 1..(Len(s) - 1)
      PROVE  (front \o back)[j] = IF j < i THEN s[j] ELSE s[j + 1]
  <2>1. CASE j < i
    BY <2>1, <1>1, <1>2, <1>3, <1>5
  <2>2. CASE ~(j < i)
    <3>1. (front \o back)[j] = back[j - (i - 1)]
      BY <2>2, <1>1, <1>2, <1>3, <1>5
    <3>2. j - (i - 1) \in 1..(Len(s) - i) /\ i + (j - (i - 1)) = j + 1
      BY <2>2, <1>1
    <3>. QED
      BY <2>2, <3>1, <3>2, <1>3
  <2>. QED
    BY <2>1, <2>2
<1>. QED
  BY <1>1, <1>2, <1>3, <1>4, <1>5, <1>6

\* The range of a sequence holds its elements and nothing else.
LEMMA SeqRange ==
  ASSUME NEW S, NEW s \in Seq(S)
  PROVE  /\ Range(s) \subseteq S
         /\ \A i \in 1..Len(s) : s[i] \in Range(s)
         /\ (Range(s) = {}) <=> (s = << >>)
<1>1. DOMAIN s = 1..Len(s) /\ Len(s) \in Nat
  BY LenProperties
<1>2. Range(s) = {s[i] : i \in 1..Len(s)}
  BY <1>1 DEF Range
<1>3. s = << >> <=> Len(s) = 0
  BY EmptySeq
<1>4. \A i \in 1..Len(s) : s[i] \in S
  BY ElementOfSeq
<1>6. \A i \in 1..Len(s) : s[i] \in Range(s)
  BY <1>2
<1>7. (Range(s) = {}) <=> (s = << >>)
  <2>1. CASE Len(s) = 0
    BY <2>1, <1>2, <1>3
  <2>2. CASE Len(s) # 0
    <3>1. s[1] \in Range(s)
      BY <2>2, <1>1, <1>6
    <3>. QED
      BY <3>1, <2>2, <1>3
  <2>. QED
    BY <2>1, <2>2
<1>. QED
  BY <1>2, <1>4, <1>6, <1>7

\* The counts of bounded match lists are finite.
LEMMA TotalFoundIsNat ==
  ASSUME NEW names, Range(names) \subseteq FileName, NEW lists
  PROVE  TotalFound(names, lists) \in Nat
<1>. DEFINE counted == {m \in Range(names) \X (1..MaxMatches) : m[2] \in DOMAIN lists[m[1]]}
<1>1. IsFiniteSet(FileName) /\ IsFiniteSet(1..MaxMatches)
  BY FS_Interval, ReviewAssumption
<1>2. IsFiniteSet(FileName \X (1..MaxMatches))
  BY <1>1, FS_Product
<1>3. counted \subseteq FileName \X (1..MaxMatches)
  OBVIOUS
<1>4. IsFiniteSet(counted)
  BY <1>2, <1>3, FS_Subset
<1>. QED
  BY <1>4, FS_CardinalityType DEF TotalFound

-----------------------------------------------------------------------------
(* The inductive invariant: TypeOK is not inductive alone.  That an index  *)
(* the handlers use is one of the list (ListsInRange, DiffsCommittable)    *)
(* makes the element they read one of its type, that the gauge counts the  *)
(* history keeps it from going below zero.  That the selections are in     *)
(* their lists is not part of it: a click on a stale line breaks it and    *)
(* nothing of this, so that all of it holds in module App too.             *)

ListsInRange ==
  /\ \A i \in DOMAIN file_managers : i < Len(file_names)
  /\ sweeping # NotSweeping => file_names # << >> /\ sweeping <= Len(file_names)

IInv ==
  /\ TypeOK
  /\ ListsInRange
  /\ DiffsCommittable
  /\ GaugeIsHistory
  /\ HistoryAsDisplayed
  /\ QueueCoversPosted
  /\ FreshFiles

\* An index of the list names a file, and its pending matches are slices.
LEMMA FileAt ==
  ASSUME TypeOK, NEW index \in Nat, index < Len(file_names)
  PROVE  /\ file_names[index + 1] \in FileName
         /\ file_names[index + 1] \in Range(file_names)
         /\ Pending(index) \in Seq(Slice)
         /\ Len(Pending(index)) \in Nat
<1>1. index + 1 \in 1..Len(file_names)
  <2>1. file_names \in Seq(FileName)
    BY DEF TypeOK
  <2>2. Len(file_names) \in Nat
    BY <2>1, LenProperties
  <2>. QED
    BY <2>2
<1>2. file_names[index + 1] \in FileName /\ file_names[index + 1] \in Range(file_names)
  BY <1>1, SeqRange, ElementOfSeq DEF TypeOK
<1>. QED
  BY <1>2, LenProperties DEF TypeOK, Pending

\* What the files in memory satisfy, as one predicate on a map of managers.
ManagersOK(managers) ==
  /\ DOMAIN managers \subseteq Nat
  /\ managers \in [DOMAIN managers -> [file_name : FileName, edition : 0..MaxEdition]]
  /\ \A i \in DOMAIN managers :
       /\ i < Len(file_names)
       /\ managers[i].file_name = file_names[i + 1]
       /\ searched[file_names[i + 1]] <= managers[i].edition

\* Reading a file keeps the files in memory in order.
LEMMA LoadFacts ==
  ASSUME IInv, NEW index \in Nat, index < Len(file_names), Load(index)
  PROVE  ManagersOK(file_managers') /\ DOMAIN file_managers' = DOMAIN file_managers \cup {index}
<1>1. \A i \in DOMAIN file_managers \cup {index} : i \in Nat /\ i < Len(file_names)
  BY DEF IInv, TypeOK, ListsInRange
<1>2. ASSUME NEW i \in DOMAIN file_managers \cup {index}
      PROVE  /\ CopyOf(i) \in [file_name : FileName, edition : 0..MaxEdition]
             /\ CopyOf(i).file_name = file_names[i + 1]
             /\ searched[file_names[i + 1]] <= CopyOf(i).edition
  <2>1. CASE i \in DOMAIN file_managers
    BY <2>1, <1>1 DEF CopyOf, IsLoaded, IInv, TypeOK, FreshFiles
  <2>2. CASE i \notin DOMAIN file_managers
    <3>1. file_names[index + 1] \in FileName /\ i = index
      BY <2>2, FileAt DEF IInv
    <3>2. CopyOf(i) = [file_name |-> file_names[i + 1], edition |-> disk[file_names[i + 1]]]
      BY <2>2 DEF CopyOf, IsLoaded
    <3>3. disk[file_names[i + 1]] \in 0..MaxEdition /\ searched[file_names[i + 1]] <= disk[file_names[i + 1]]
      BY <3>1 DEF IInv, TypeOK, FreshFiles
    <3>. QED
      BY <3>1, <3>2, <3>3
  <2>. QED
    BY <2>1, <2>2
<1>. QED
  BY <1>1, <1>2 DEF Load, ManagersOK

\* The files in memory are in order before every step.
LEMMA ManagersOKBefore == ASSUME IInv PROVE ManagersOK(file_managers)
BY DEF IInv, TypeOK, ListsInRange, FreshFiles, ManagersOK

ViewerType == [mode : {MatchMode, HistoryMode},
               shown : SUBSET [file : FileName, slice : Slice, text : Text]]

\* populate_file_viewer_state shows what it should and loses no file.
LEMMA PopulateFacts ==
  ASSUME IInv, NEW mode \in {MatchMode, HistoryMode}, NEW index \in Nat,
         mode = HistoryMode /\ diffs # << >> => selected_diff < Len(diffs),
         PopulateFileViewer(mode, index)
  PROVE  /\ file_viewer' \in ViewerType
         /\ ManagersOK(file_managers')
         /\ DOMAIN file_managers \subseteq DOMAIN file_managers'
         /\ HasSliceToShow(mode, index) => index \in DOMAIN file_managers'
<1>1. CASE HasSliceToShow(mode, index)
  <2>1. file_names # << >> /\ index < Len(file_names)
    BY <1>1, EmptySeq DEF HasSliceToShow, IsListed
  <2>2. SliceToShow(mode, index) \in Slice /\ TextToShow(mode) \in Text
    <3>1. CASE mode = MatchMode
      <4>1. Pending(index) \in Seq(Slice) /\ Pending(index) # << >>
        BY <1>1, <2>1, <3>1, FileAt
           DEF HasSliceToShow, AllMatchesProcessed, Pending, MatchMode, HistoryMode, IInv
      <4>. QED
        BY <3>1, <4>1, HeadTailProperties DEF SliceToShow, TextToShow, Pending, IInv, TypeOK
    <3>2. CASE mode # MatchMode
      <4>1. diffs # << >>
        BY <1>1, <3>2 DEF HasSliceToShow, history_has_diffs
      <4>2. diffs[selected_diff + 1] \in TextDiff
        <5>1. selected_diff + 1 \in 1..Len(diffs)
          BY <3>2, <4>1, LenProperties DEF IInv, TypeOK
        <5>. QED
          BY <5>1, ElementOfSeq DEF IInv, TypeOK
      <4>. QED
        BY <3>2, <4>2 DEF SliceToShow, TextToShow, TextDiff
    <3>. QED
      BY <3>1, <3>2
  <2>3. Load(index) /\ file_viewer' = [mode |-> mode,
                        shown |-> {[file |-> file_names[index + 1],
                                    slice |-> SliceToShow(mode, index),
                                    text |-> TextToShow(mode)]}]
    BY <1>1 DEF PopulateFileViewer
  <2>4. file_names[index + 1] \in FileName
    BY <2>1, FileAt DEF IInv
  <2>5. file_viewer' \in ViewerType
    BY <2>2, <2>3, <2>4 DEF ViewerType
  <2>6. ManagersOK(file_managers') /\ DOMAIN file_managers' = DOMAIN file_managers \cup {index}
    BY <2>1, <2>3, LoadFacts
  <2>. QED
    BY <2>5, <2>6
<1>2. CASE ~HasSliceToShow(mode, index)
  <2>1. file_viewer' \in ViewerType
    BY <1>2 DEF PopulateFileViewer, ViewerType, IInv, TypeOK, NoLines
  <2>2. file_managers' = file_managers
    BY <1>2 DEF PopulateFileViewer
  <2>. QED
    BY <1>2, <2>1, <2>2, ManagersOKBefore
<1>. QED
  BY <1>1, <1>2

-----------------------------------------------------------------------------
(* Deciding the first n matches of a file. *)

\* A map over 1..n is a sequence of length n.
LEMMA SeqOfLen ==
  ASSUME NEW S, NEW n \in Nat, NEW f \in [1..n -> S]
  PROVE  f \in Seq(S) /\ Len(f) = n
BY SMT

\* The history grows by n diffs of that file, the menu and the gauge with it.
LEMMA DecideFacts ==
  ASSUME IInv, NEW index \in Nat, index < Len(file_names), NEW accepted \in BOOLEAN,
         NEW n \in 0..Len(Pending(index)), DecideFirst(n, accepted, index)
  PROVE  /\ file_to_matches' \in [Range(file_names) -> Seq(Slice)]
         /\ diffs' \in Seq(TextDiff)
         /\ diffs_as_displayed' \in Seq(Item)
         /\ num_matches_processed' \in Nat
         /\ Len(diffs') >= Len(diffs)
         /\ \A i \in DOMAIN diffs' :
              \/ i \in DOMAIN diffs /\ diffs'[i] = diffs[i]
              \/ /\ n > 0
                 /\ diffs'[i].file_index = index
                 /\ diffs'[i].file_name = file_names[index + 1]
         /\ GaugeIsHistory'
         /\ HistoryAsDisplayed'
<1>. DEFINE decided == [k \in 1..n |-> Decision(accepted, index, Pending(index)[k])]
            items == [k \in 1..n |-> DisplayItem(decided[k])]
<1>1. /\ Pending(index) \in Seq(Slice) /\ Len(Pending(index)) \in Nat
      /\ file_names[index + 1] \in FileName
      /\ file_names[index + 1] \in Range(file_names)
      /\ n \in Nat /\ n <= Len(Pending(index))
  BY FileAt DEF IInv
<1>2. \A k \in 1..n : Pending(index)[k] \in Slice
  BY <1>1, ElementOfSeq
<1>3. decided \in [1..n -> TextDiff]
  BY <1>1, <1>2 DEF Decision, TextDiff, IInv, TypeOK
<1>4. items \in [1..n -> Item]
  <2>1. \A k \in 1..n : decided[k] \in TextDiff
    BY <1>3
  <2>2. ASSUME NEW d \in TextDiff PROVE DisplayItem(d) \in Item
    BY ReviewAssumption DEF DisplayItem, TextDiff, Item
  <2>. QED
    BY <2>1, <2>2
<1>5. /\ decided \in Seq(TextDiff) /\ Len(decided) = n
      /\ items \in Seq(Item) /\ Len(items) = n
  BY <1>1, <1>3, <1>4, SeqOfLen
<1>6. /\ diffs \in Seq(TextDiff) /\ diffs_as_displayed \in Seq(Item)
      /\ Len(diffs) \in Nat /\ DOMAIN diffs = 1..Len(diffs)
      /\ Len(diffs_as_displayed) = Len(diffs)
      /\ \A i \in 1..Len(diffs) : diffs_as_displayed[i] = DisplayItem(diffs[i])
  <2>1. diffs \in Seq(TextDiff) /\ diffs_as_displayed \in Seq(Item)
    BY DEF IInv, TypeOK
  <2>2. Len(diffs) \in Nat /\ DOMAIN diffs = 1..Len(diffs)
    BY <2>1, LenProperties
  <2>3. diffs_as_displayed = [i \in 1..Len(diffs) |-> DisplayItem(diffs[i])]
    BY <2>2 DEF IInv, HistoryAsDisplayed
  <2>4. Len(diffs_as_displayed) = Len(diffs)
    BY <2>1, <2>2, <2>3, LenProperties
  <2>. QED
    BY <2>1, <2>2, <2>3, <2>4
<1>7. /\ diffs' = diffs \o decided
      /\ diffs_as_displayed' = diffs_as_displayed \o items
      /\ num_matches_processed' = num_matches_processed + n
      /\ file_to_matches' = [file_to_matches EXCEPT
            ![file_names[index + 1]] = SubSeq(@, n + 1, Len(@))]
  BY DEF DecideFirst
<1>9. \A k \in 1..n : /\ decided[k].file_index = index
                      /\ decided[k].file_name = file_names[index + 1]
                      /\ items[k] = DisplayItem(decided[k])
  BY DEF Decision
<1>. HIDE DEF decided, items
<1>10. /\ diffs' \in Seq(TextDiff) /\ Len(diffs') = Len(diffs) + n
       /\ DOMAIN diffs' = 1..(Len(diffs) + n)
       /\ \A i \in 1..(Len(diffs) + n) :
            diffs'[i] = IF i <= Len(diffs) THEN diffs[i] ELSE decided[i - Len(diffs)]
  <2>1. /\ diffs \o decided \in Seq(TextDiff) /\ Len(diffs \o decided) = Len(diffs) + n
        /\ \A i \in 1..(Len(diffs) + n) :
            (diffs \o decided)[i] = IF i <= Len(diffs) THEN diffs[i] ELSE decided[i - Len(diffs)]
    BY <1>5, <1>6, ConcatProperties
  <2>2. DOMAIN (diffs \o decided) = 1..(Len(diffs) + n)
    BY <2>1, LenProperties
  <2>. QED
    BY <2>1, <2>2, <1>7
<1>11. /\ diffs_as_displayed' \in Seq(Item) /\ Len(diffs_as_displayed') = Len(diffs) + n
       /\ \A i \in 1..(Len(diffs) + n) :
            diffs_as_displayed'[i] = IF i <= Len(diffs) THEN diffs_as_displayed[i]
                                                        ELSE items[i - Len(diffs)]
  <2>. DEFINE shown == diffs_as_displayed
  <2>1. shown \in Seq(Item) /\ Len(shown) = Len(diffs)
    BY <1>6
  <2>. HIDE DEF shown
  <2>2. /\ shown \o items \in Seq(Item)
        /\ Len(shown \o items) = Len(shown) + Len(items)
        /\ \A i \in 1..(Len(shown) + Len(items)) :
            (shown \o items)[i] = IF i <= Len(shown) THEN shown[i] ELSE items[i - Len(shown)]
    BY <1>5, <2>1, ConcatProperties
  <2>. QED
    BY <1>5, <1>7, <2>1, <2>2 DEF shown
<1>12. file_to_matches' \in [Range(file_names) -> Seq(Slice)]
  <2>1. SubSeq(Pending(index), n + 1, Len(Pending(index))) \in Seq(Slice)
    BY <1>1, SubSeqProperties, ElementOfSeq
  <2>. QED
    BY <2>1, <1>1, <1>7 DEF Pending, IInv, TypeOK
<1>13. \A i \in DOMAIN diffs' :
         \/ i \in DOMAIN diffs /\ diffs'[i] = diffs[i]
         \/ /\ n > 0
            /\ diffs'[i].file_index = index
            /\ diffs'[i].file_name = file_names[index + 1]
  <2>. SUFFICES ASSUME NEW i \in 1..(Len(diffs) + n), ~(i <= Len(diffs))
                PROVE  /\ n > 0
                       /\ diffs'[i].file_index = index
                       /\ diffs'[i].file_name = file_names[index + 1]
    BY <1>6, <1>10, <1>1
  <2>1. i - Len(diffs) \in 1..n /\ n > 0
    BY <1>1, <1>6
  <2>2. diffs'[i] = decided[i - Len(diffs)]
    BY <1>10
  <2>. QED
    BY <2>1, <2>2, <1>9
<1>14. GaugeIsHistory' /\ num_matches_processed' \in Nat
  <2>1. num_matches_processed = Len(diffs)
    BY DEF IInv, GaugeIsHistory
  <2>2. num_matches_processed' = Len(diffs')
    BY <2>1, <1>7, <1>10
  <2>. QED
    BY <2>2, <1>1, <1>6, <1>10 DEF GaugeIsHistory
<1>15. HistoryAsDisplayed'
  <2>1. ASSUME NEW i \in 1..(Len(diffs) + n)
        PROVE  diffs_as_displayed'[i] = DisplayItem(diffs'[i])
    <3>1. CASE i <= Len(diffs)
      BY <3>1, <1>6, <1>10, <1>11
    <3>2. CASE ~(i <= Len(diffs))
      <4>1. i - Len(diffs) \in 1..n
        BY <3>2, <1>1, <1>6
      <4>. QED
        BY <3>2, <4>1, <1>9, <1>10, <1>11
    <3>. QED
      BY <3>1, <3>2
  <2>2. diffs_as_displayed' \in [1..(Len(diffs) + n) -> Item]
    BY <1>11, LenProperties
  <2>. QED
    BY <2>1, <2>2, <1>10 DEF HistoryAsDisplayed
<1>16. Len(diffs') >= Len(diffs)
  BY <1>1, <1>6, <1>10
<1>. QED
  BY <1>10, <1>11, <1>12, <1>13, <1>14, <1>15, <1>16

-----------------------------------------------------------------------------
(* Every step keeps the inductive invariant: one lemma per action.         *)

\* A program that stops keeps its state to the end.
LEMMA StopKeeps ==
  ASSUME IInv, NEW how \in {"quit", "threw", "aborted"}, Stop(how)
  PROVE  IInv'
BY DEF IInv, TypeOK, ListsInRange, DiffsCommittable, GaugeIsHistory, HistoryAsDisplayed,
       QueueCoversPosted, FreshFiles, IsLoaded, Stop, pickerVars, historyVars, gaugeVars,
       queueVars, diskVars

\* A step of no variable.
LEMMA StutterKeeps == ASSUME IInv, UNCHANGED vars PROVE IInv'
BY DEF IInv, TypeOK, ListsInRange, DiffsCommittable, GaugeIsHistory, HistoryAsDisplayed,
       QueueCoversPosted, FreshFiles, IsLoaded, vars, pickerVars, historyVars, gaugeVars,
       queueVars, diskVars

\* An action is pushed with its event.
LEMMA PushFacts ==
  ASSUME IInv, NEW action \in {"FocusFilePicker", "NoOp"}, Push(action)
  PROVE  /\ actions_queue' \in Seq({"FocusFilePicker", "NoOp"})
         /\ posted' \in Nat
         /\ QueueCoversPosted'
<1>1. actions_queue \in Seq({"FocusFilePicker", "NoOp"}) /\ posted \in Nat
  BY DEF IInv, TypeOK
<1>2. /\ Append(actions_queue, action) \in Seq({"FocusFilePicker", "NoOp"})
      /\ Len(Append(actions_queue, action)) = Len(actions_queue) + 1
      /\ Len(actions_queue) \in Nat
  BY <1>1, AppendProperties, LenProperties
<1>. QED
  BY <1>1, <1>2 DEF Push, IInv, QueueCoversPosted

\* A search, and the commit's dismissal, start over with the files they list.
LEMMA StartOver ==
  ASSUME IInv, NEW names \in Seq(FileName), NEW lists \in [Range(names) -> Seq(Slice)],
         ResetBeforeSearch, FillFilePicker(names, lists),
         searcher' \in {"NO_SEARCH_EXECUTED", "INVALID_REGEX", "NO_RESULTS_FOUND", "RESULTS_FOUND"},
         UNCHANGED <<replacement_text, sweeping, status, disk>>,
         sweeping = NotSweeping,
         searched' \in {searched, disk},
         actions_queue' \in Seq({"FocusFilePicker", "NoOp"}), posted' \in Nat, QueueCoversPosted'
  PROVE  IInv'
<1>1. Len(names) \in Nat /\ DOMAIN names = 1..Len(names)
  BY LenProperties
<1>2. Range(names) \subseteq FileName
  BY SeqRange
<1>3. /\ file_to_num_matches_found' \in Seq(Nat)
      /\ Len(file_to_num_matches_found') = Len(names)
  <2>. DEFINE counts == [i \in 1..Len(names) |-> Len(lists[names[i]])]
  <2>1. counts \in [1..Len(names) -> Nat]
    <3>1. ASSUME NEW i \in 1..Len(names) PROVE Len(lists[names[i]]) \in Nat
      <4>1. lists[names[i]] \in Seq(Slice)
        BY SeqRange
      <4>. QED
        BY <4>1, LenProperties
    <3>. QED
      BY <3>1
  <2>2. file_to_num_matches_found' = counts
    BY <1>1 DEF FillFilePicker
  <2>. QED
    BY <1>1, <2>1, <2>2, SeqOfLen
<1>4. num_matches_found' \in Nat
  BY <1>2, TotalFoundIsNat DEF FillFilePicker
<1>5. file_names' = names /\ file_to_matches' = lists
  BY DEF FillFilePicker
<1>6. /\ selected_file_index' = 0 /\ file_managers' = << >> /\ num_matches_processed' = 0
      /\ diffs' = << >> /\ diffs_as_displayed' = << >> /\ selected_diff' = 0
      /\ commit_state' = NoCommit
      /\ file_viewer' = [file_viewer EXCEPT !.shown = NoLines]
  BY DEF ResetBeforeSearch
<1>8. Len(<< >>) = 0 /\ DOMAIN << >> = {}
  OBVIOUS
<1>9. DOMAIN file_managers' = {} /\ DOMAIN diffs' = {} /\ Len(diffs') = 0
  BY <1>6, <1>8
<1>10. TypeOK'
  <2>1. file_viewer' \in ViewerType
    BY <1>6 DEF IInv, TypeOK, ViewerType, NoLines
  <2>2. commit_state' \in [success_files : SUBSET FileName, error_files : SUBSET FileName,
                           showing_committed_files_modal : BOOLEAN]
    BY <1>6 DEF NoCommit
  <2>3. file_managers' \in [DOMAIN file_managers' -> [file_name : FileName, edition : 0..MaxEdition]]
    BY <1>6, <1>9
  <2>4. diffs' \in Seq(TextDiff) /\ diffs_as_displayed' \in Seq(Item)
    BY <1>6
  <2>5. searched' \in [FileName -> 0..MaxEdition]
    BY DEF IInv, TypeOK
  <2>. QED
    BY <1>3, <1>4, <1>5, <1>6, <1>9, <2>1, <2>2, <2>3, <2>4, <2>5
       DEF IInv, TypeOK, ViewerType
<1>11. ListsInRange'
  BY <1>5, <1>9 DEF ListsInRange
<1>12. DiffsCommittable' /\ GaugeIsHistory' /\ HistoryAsDisplayed'
  BY <1>6, <1>9 DEF DiffsCommittable, GaugeIsHistory, HistoryAsDisplayed
<1>13. FreshFiles'
  BY <1>9 DEF FreshFiles, IInv, TypeOK
<1>. QED
  BY <1>10, <1>11, <1>12, <1>13 DEF IInv

LEMMA SearchKeeps == ASSUME IInv, Search PROVE IInv'
<1>1. PICK names \in NameList : \E lists \in [Range(names) -> MatchList] :
        /\ ResetBeforeSearch
        /\ FillFilePicker(names, lists)
        /\ searcher' = IF names = << >> THEN "NO_RESULTS_FOUND" ELSE "RESULTS_FOUND"
  BY DEF Search
<1>2. PICK lists \in [Range(names) -> MatchList] :
        /\ ResetBeforeSearch
        /\ FillFilePicker(names, lists)
        /\ searcher' = IF names = << >> THEN "NO_RESULTS_FOUND" ELSE "RESULTS_FOUND"
  BY <1>1
<1>3. names \in Seq(FileName)
  <2>1. PICK n \in 0..Cardinality(FileName) : names \in [1..n -> FileName]
    BY DEF NameList
  <2>. QED
    BY <2>1, SeqOfLen
<1>4. lists \in [Range(names) -> Seq(Slice)]
  <2>1. ASSUME NEW list \in MatchList PROVE list \in Seq(Slice)
    <3>1. PICK n \in 1..MaxMatches : list \in [1..n -> Slice]
      BY DEF MatchList
    <3>. QED
      BY <3>1, SeqOfLen
  <2>. QED
    BY <2>1
<1>5. Push("FocusFilePicker") /\ searched' = disk /\ sweeping = NotSweeping
      /\ UNCHANGED <<replacement_text, sweeping, status, disk>>
  BY DEF Search, Handling, Running
<1>6. /\ actions_queue' \in Seq({"FocusFilePicker", "NoOp"})
      /\ posted' \in Nat
      /\ QueueCoversPosted'
  BY <1>5, PushFacts
<1>. QED
  BY <1>2, <1>3, <1>4, <1>5, <1>6, StartOver

\* A reset that finds nothing and queues nothing.
LEMMA EmptyStartOver ==
  ASSUME IInv, ResetBeforeSearch, FillFilePicker(<< >>, << >>), sweeping = NotSweeping,
         searcher' \in {"NO_SEARCH_EXECUTED", "INVALID_REGEX"},
         UNCHANGED <<replacement_text, queueVars, sweeping, status, disk, searched>>
  PROVE  IInv'
<1>1. << >> \in Seq(FileName) /\ << >> \in [Range(<< >>) -> Seq(Slice)]
  BY DEF Range
<1>2. /\ actions_queue' \in Seq({"FocusFilePicker", "NoOp"})
      /\ posted' \in Nat
      /\ QueueCoversPosted'
      /\ UNCHANGED <<replacement_text, sweeping, status, disk>>
      /\ searched' \in {searched, disk}
  BY DEF IInv, TypeOK, QueueCoversPosted, queueVars
<1>. QED
  BY <1>1, <1>2, StartOver

LEMMA SearchInvalidRegexKeeps == ASSUME IInv, SearchInvalidRegex PROVE IInv'
BY EmptyStartOver DEF SearchInvalidRegex, Handling, Running

LEMMA DismissCommitKeeps == ASSUME IInv, DismissCommit PROVE IInv'
BY EmptyStartOver DEF DismissCommit, Running

\* What a step must still show that changes nothing a search or a commit sets.
LEMMA ReviewKeeps ==
  ASSUME IInv,
         UNCHANGED <<file_names, file_to_num_matches_found, num_matches_found,
                     replacement_text, searcher, commit_state, status, disk, searched>>,
         file_to_matches' \in [Range(file_names) -> Seq(Slice)],
         selected_file_index' \in Nat,
         ManagersOK(file_managers'),
         file_viewer' \in ViewerType,
         diffs' \in Seq(TextDiff), diffs_as_displayed' \in Seq(Item),
         num_matches_processed' \in Nat,
         selected_diff' \in Nat,
         DiffsCommittable', GaugeIsHistory', HistoryAsDisplayed',
         actions_queue' \in Seq({"FocusFilePicker", "NoOp"}), posted' \in Nat, QueueCoversPosted',
         \/ sweeping' = sweeping
         \/ sweeping' = NotSweeping
         \/ sweeping' \in Nat /\ sweeping' <= Len(file_names) /\ file_names # << >>
  PROVE  IInv'
<1>1. sweeping' \in Nat \cup {NotSweeping}
  BY DEF IInv, TypeOK
<1>2. TypeOK'
  BY <1>1 DEF IInv, TypeOK, ManagersOK, ViewerType
<1>3. ListsInRange'
  BY DEF IInv, ListsInRange, ManagersOK
<1>4. FreshFiles'
  BY DEF IInv, FreshFiles, ManagersOK
<1>. QED
  BY <1>2, <1>3, <1>4 DEF IInv

\* The diffs stay committable when files are read and diffs are appended.
LEMMA CommittableStays ==
  ASSUME IInv, file_names' = file_names, DOMAIN file_managers \subseteq DOMAIN file_managers',
         NEW index \in Nat, index < Len(file_names),
         \A i \in DOMAIN diffs' :
              \/ i \in DOMAIN diffs /\ diffs'[i] = diffs[i]
              \/ /\ index \in DOMAIN file_managers'
                 /\ diffs'[i].file_index = index
                 /\ diffs'[i].file_name = file_names[index + 1]
  PROVE  DiffsCommittable'
BY DEF IInv, DiffsCommittable, IsLoaded

\* Deciding the first n matches of a file in memory keeps the invariant.
LEMMA DecisionKeeps ==
  ASSUME IInv, NEW index \in Nat, index < Len(file_names), NEW accepted \in BOOLEAN,
         NEW n \in 0..Len(Pending(index)), DecideFirst(n, accepted, index),
         UNCHANGED decideFrame,
         selected_file_index' \in {selected_file_index, index},
         ManagersOK(file_managers'),
         DOMAIN file_managers \subseteq DOMAIN file_managers',
         n > 0 => index \in DOMAIN file_managers',
         file_viewer' \in ViewerType,
         UNCHANGED queueVars,
         \/ sweeping' = sweeping
         \/ sweeping' \in Nat /\ sweeping' <= Len(file_names) /\ file_names # << >>
  PROVE  IInv'
<1>1. /\ file_to_matches' \in [Range(file_names) -> Seq(Slice)]
      /\ diffs' \in Seq(TextDiff)
      /\ diffs_as_displayed' \in Seq(Item)
      /\ num_matches_processed' \in Nat
      /\ Len(diffs') >= Len(diffs)
      /\ \A i \in DOMAIN diffs' :
           \/ i \in DOMAIN diffs /\ diffs'[i] = diffs[i]
           \/ /\ n > 0
              /\ diffs'[i].file_index = index
              /\ diffs'[i].file_name = file_names[index + 1]
      /\ GaugeIsHistory'
      /\ HistoryAsDisplayed'
  BY DecideFacts
<1>2. UNCHANGED <<file_names, file_to_num_matches_found, num_matches_found, selected_diff,
                  replacement_text, searcher, commit_state, status, disk, searched>>
  BY DEF decideFrame, diskVars
<1>3. DiffsCommittable'
  BY <1>1, <1>2, CommittableStays
<1>4. selected_diff' \in Nat
  BY <1>2 DEF IInv, TypeOK
<1>5. /\ actions_queue' \in Seq({"FocusFilePicker", "NoOp"})
      /\ posted' \in Nat
      /\ QueueCoversPosted'
  BY DEF IInv, TypeOK, QueueCoversPosted, queueVars
<1>6. selected_file_index' \in Nat
  BY DEF IInv, TypeOK
<1>. QED
  BY <1>1, <1>2, <1>3, <1>4, <1>5, <1>6, ReviewKeeps

\* A file in memory is one of the list; the viewer shows one that is.
LEMMA InMemoryIsListed ==
  ASSUME IInv, NEW index \in Nat, NEW n, CanDecide(n, index)
  PROVE  index < Len(file_names)
BY DEF CanDecide, IsLoaded, IInv, ListsInRange

LEMMA ShownIsListed ==
  ASSUME NEW index, NEW mode, PopulateFileViewer(mode, index)
  PROVE  file_names = << >> \/ index < Len(file_names)
BY DEF PopulateFileViewer, HasSliceToShow, IsListed

\* Once a search has reported files, the list has some.
LEMMA LoadedHasFiles == ASSUME IInv, files_have_been_loaded PROVE file_names # << >>
<1>1. DOMAIN file_to_matches = Range(file_names) /\ file_names \in Seq(FileName)
  BY DEF IInv, TypeOK
<1>. QED
  BY <1>1, SeqRange DEF files_have_been_loaded

LEMMA AddCurrentChangeKeeps ==
  ASSUME IInv, NEW accepted \in BOOLEAN, AddCurrentChange(accepted) PROVE IInv'
<1>. DEFINE index == selected_file_index
<1>1. CASE DecideThrows(1, index)
  BY <1>1, StopKeeps DEF DecideThrows
<1>2. CASE /\ CanDecide(1, index)
           /\ DecideFirst(1, accepted, index)
           /\ UNCHANGED <<decideFrame, selected_file_index, file_managers, file_viewer,
                          queueVars, sweeping>>
  <2>1. index \in Nat /\ index < Len(file_names) /\ Pending(index) # << >>
    BY <1>2, InMemoryIsListed DEF AddCurrentChange, IsListed, IInv, TypeOK
  <2>2. 1 \in 0..Len(Pending(index))
    <3>1. Pending(index) \in Seq(Slice) /\ Len(Pending(index)) \in Nat
      BY <2>1, FileAt DEF IInv
    <3>. QED
      BY <2>1, <3>1, EmptySeq
  <2>3. index \in DOMAIN file_managers
    BY <1>2 DEF CanDecide, IsLoaded
  <2>4. ManagersOK(file_managers') /\ file_viewer' \in ViewerType
    BY <1>2, ManagersOKBefore DEF ManagersOK, decideFrame, diskVars, IInv, TypeOK, ViewerType
  <2>. QED
    BY <1>2, <2>1, <2>2, <2>3, <2>4, DecisionKeeps
<1>. QED
  BY <1>1, <1>2 DEF AddCurrentChange

LEMMA RejectAllInFileKeeps == ASSUME IInv, RejectAllInFile PROVE IInv'
<1>. DEFINE index == selected_file_index
            n == Len(Pending(index))
<1>1. CASE DecideThrows(n, index)
  BY <1>1, StopKeeps DEF DecideThrows
<1>2. CASE /\ CanDecide(n, index)
           /\ DecideFirst(n, FALSE, index)
           /\ UNCHANGED <<decideFrame, selected_file_index, file_managers, file_viewer,
                          queueVars, sweeping>>
  <2>1. index \in Nat /\ index < Len(file_names)
    BY <1>2, InMemoryIsListed DEF IInv, TypeOK
  <2>2. n \in 0..n
    BY <2>1, FileAt DEF IInv
  <2>3. index \in DOMAIN file_managers
    BY <1>2 DEF CanDecide, IsLoaded
  <2>4. ManagersOK(file_managers') /\ file_viewer' \in ViewerType
    BY <1>2, ManagersOKBefore DEF ManagersOK, decideFrame, diskVars, IInv, TypeOK, ViewerType
  <2>. QED
    BY <1>2, <2>1, <2>2, <2>3, <2>4, DecisionKeeps
<1>. QED
  BY <1>1, <1>2 DEF RejectAllInFile

LEMMA AcceptFileStopsKeeps ==
  ASSUME IInv, NEW index \in Nat, AcceptFileStops(index) PROVE IInv'
BY StopKeeps DEF AcceptFileStops, PopulateStops

\* accept_all_changes_in_file, alone or as a round of the accept-all loop.
LEMMA AcceptFileKeeps ==
  ASSUME IInv, NEW index \in Nat, index < Len(file_names), file_names # << >>,
         AcceptFile(index),
         UNCHANGED <<decideFrame, queueVars>>,
         selected_file_index' \in {selected_file_index, index},
         \/ sweeping' = sweeping
         \/ sweeping' \in Nat /\ sweeping' <= Len(file_names) /\ file_names # << >>
  PROVE  IInv'
<1>. DEFINE n == Len(Pending(index))
<1>1. n \in Nat /\ n \in 0..n /\ Pending(index) \in Seq(Slice)
  BY FileAt DEF IInv
<1>2. PopulateFileViewer(MatchMode, index) /\ DecideFirst(n, TRUE, index)
  BY DEF AcceptFile
<1>3. /\ file_viewer' \in ViewerType
      /\ ManagersOK(file_managers')
      /\ DOMAIN file_managers \subseteq DOMAIN file_managers'
      /\ HasSliceToShow(MatchMode, index) => index \in DOMAIN file_managers'
  <2>1. MatchMode # HistoryMode
    BY DEF MatchMode, HistoryMode
  <2>. QED
    BY <1>2, <2>1, PopulateFacts
<1>4. n > 0 => HasSliceToShow(MatchMode, index)
  BY <1>1, EmptySeq DEF HasSliceToShow, IsListed, AllMatchesProcessed, Pending
<1>. QED
  BY <1>1, <1>2, <1>3, <1>4, DecisionKeeps

LEMMA AcceptAllInFileKeeps == ASSUME IInv, AcceptAllInFile PROVE IInv'
<1>1. file_names # << >> /\ selected_file_index \in Nat
  BY LoadedHasFiles DEF AcceptAllInFile, IInv, TypeOK
<1>2. AcceptFile(selected_file_index) => selected_file_index < Len(file_names)
  BY <1>1, ShownIsListed DEF AcceptFile
<1>. QED
  BY <1>1, <1>2, AcceptFileKeeps, AcceptFileStopsKeeps DEF AcceptAllInFile

LEMMA SweepFileKeeps == ASSUME IInv, SweepFile PROVE IInv'
<1>1. Len(file_names) \in Nat /\ sweeping \in 0..(Len(file_names) - 1)
  BY LenProperties DEF SweepFile, IInv, TypeOK
<1>2. sweeping \in Nat /\ sweeping < Len(file_names) /\ file_names # << >>
      /\ sweeping + 1 \in Nat /\ sweeping + 1 <= Len(file_names)
  BY <1>1, EmptySeq
<1>. QED
  BY <1>2, AcceptFileKeeps, AcceptFileStopsKeeps DEF SweepFile

\* What a step leaves of the review state is still of its type.
LEMMA ReviewBefore ==
  ASSUME IInv
  PROVE  /\ file_to_matches \in [Range(file_names) -> Seq(Slice)]
         /\ selected_file_index \in Nat
         /\ ManagersOK(file_managers)
         /\ file_viewer \in ViewerType
         /\ diffs \in Seq(TextDiff) /\ diffs_as_displayed \in Seq(Item)
         /\ num_matches_processed \in Nat
         /\ selected_diff \in Nat
         /\ actions_queue \in Seq({"FocusFilePicker", "NoOp"}) /\ posted \in Nat
BY ManagersOKBefore DEF IInv, TypeOK, ViewerType

LEMMA AcceptAllInAllFilesKeeps == ASSUME IInv, AcceptAllInAllFiles PROVE IInv'
<1>1. UNCHANGED <<file_names, file_to_matches, file_to_num_matches_found, selected_file_index,
                  file_managers, file_viewer, diffs, diffs_as_displayed, selected_diff,
                  num_matches_found, num_matches_processed, replacement_text, searcher,
                  commit_state, actions_queue, posted, status, disk, searched>>
  BY DEF AcceptAllInAllFiles, decideFrame, queueVars, diskVars
<1>2. sweeping' \in Nat /\ sweeping' <= Len(file_names) /\ file_names # << >>
  BY LoadedHasFiles, LenProperties DEF AcceptAllInAllFiles, IInv, TypeOK
<1>3. /\ DiffsCommittable' /\ GaugeIsHistory' /\ HistoryAsDisplayed' /\ QueueCoversPosted'
      /\ ManagersOK(file_managers')
  BY <1>1, ReviewBefore
     DEF IInv, DiffsCommittable, IsLoaded, GaugeIsHistory, HistoryAsDisplayed, QueueCoversPosted
<1>. QED
  BY <1>1, <1>2, <1>3, ReviewBefore, ReviewKeeps

LEMMA SweepDoneKeeps == ASSUME IInv, SweepDone PROVE IInv'
<1>1. UNCHANGED <<file_names, file_to_matches, file_to_num_matches_found, selected_file_index,
                  file_managers, file_viewer, diffs, diffs_as_displayed, selected_diff,
                  num_matches_found, num_matches_processed, replacement_text, searcher,
                  commit_state, status, disk, searched>>
  BY DEF SweepDone, decideFrame, diskVars
<1>2. sweeping' = NotSweeping
  BY DEF SweepDone
<1>3. /\ actions_queue' \in Seq({"FocusFilePicker", "NoOp"})
      /\ posted' \in Nat
      /\ QueueCoversPosted'
  BY PushFacts DEF SweepDone
<1>4. /\ DiffsCommittable' /\ GaugeIsHistory' /\ HistoryAsDisplayed'
      /\ ManagersOK(file_managers')
  BY <1>1, ReviewBefore DEF IInv, DiffsCommittable, IsLoaded, GaugeIsHistory, HistoryAsDisplayed
<1>. QED
  BY <1>1, <1>2, <1>3, <1>4, ReviewBefore, ReviewKeeps

LEMMA DeleteDiffKeeps == ASSUME IInv, DeleteDiff PROVE IInv'
<1>. DEFINE at == selected_diff + 1
            diff == diffs[at]
<1>1. UNCHANGED <<file_names, file_to_num_matches_found, num_matches_found, replacement_text,
                  searcher, commit_state, status, disk, searched, selected_file_index,
                  file_managers, file_viewer, actions_queue, posted, sweeping>>
  BY DEF DeleteDiff, queueVars, diskVars
<1>2. /\ diffs \in Seq(TextDiff) /\ diffs_as_displayed \in Seq(Item)
      /\ Len(diffs) \in Nat /\ DOMAIN diffs = 1..Len(diffs)
      /\ Len(diffs_as_displayed) = Len(diffs)
      /\ \A i \in 1..Len(diffs) : diffs_as_displayed[i] = DisplayItem(diffs[i])
  <2>1. diffs \in Seq(TextDiff) /\ diffs_as_displayed \in Seq(Item)
    BY DEF IInv, TypeOK
  <2>2. Len(diffs) \in Nat /\ DOMAIN diffs = 1..Len(diffs)
    BY <2>1, LenProperties
  <2>3. diffs_as_displayed = [i \in 1..Len(diffs) |-> DisplayItem(diffs[i])]
    BY <2>2 DEF IInv, HistoryAsDisplayed
  <2>4. Len(diffs_as_displayed) = Len(diffs)
    BY <2>1, <2>2, <2>3, LenProperties
  <2>. QED
    BY <2>1, <2>2, <2>3, <2>4
<1>3. at \in 1..Len(diffs) /\ selected_diff \in Nat
  BY <1>2 DEF DeleteDiff, is_current_diff_valid, IInv, TypeOK
<1>4. /\ diffs' \in Seq(TextDiff) /\ Len(diffs') = Len(diffs) - 1
      /\ \A j \in 1..(Len(diffs) - 1) : diffs'[j] = IF j < at THEN diffs[j] ELSE diffs[j + 1]
  BY <1>2, <1>3, RemoveAtFacts DEF DeleteDiff
<1>5. /\ diffs_as_displayed' \in Seq(Item) /\ Len(diffs_as_displayed') = Len(diffs) - 1
      /\ \A j \in 1..(Len(diffs) - 1) :
           diffs_as_displayed'[j] = IF j < at THEN diffs_as_displayed[j]
                                              ELSE diffs_as_displayed[j + 1]
  <2>. DEFINE shown == diffs_as_displayed
  <2>1. shown \in Seq(Item) /\ Len(shown) = Len(diffs) /\ at \in 1..Len(shown)
    BY <1>2, <1>3
  <2>. HIDE DEF shown
  <2>2. /\ RemoveAt(shown, at) \in Seq(Item)
        /\ Len(RemoveAt(shown, at)) = Len(shown) - 1
        /\ \A j \in 1..(Len(shown) - 1) :
             RemoveAt(shown, at)[j] = IF j < at THEN shown[j] ELSE shown[j + 1]
    BY <2>1, RemoveAtFacts
  <2>. QED
    BY <2>1, <2>2 DEF DeleteDiff, shown
<1>6. DOMAIN diffs' = 1..(Len(diffs) - 1) /\ DOMAIN diffs_as_displayed' = 1..(Len(diffs) - 1)
  BY <1>4, <1>5, LenProperties
<1>7. diff \in TextDiff
  BY <1>2, <1>3, ElementOfSeq
<1>8. diff.file_name \in Range(file_names)
  <2>1. /\ diff.file_index \in Nat /\ diff.file_index < Len(file_names)
        /\ file_names[diff.file_index + 1] = diff.file_name
    BY <1>2, <1>3, <1>7 DEF IInv, DiffsCommittable, TextDiff
  <2>. QED
    BY <2>1, FileAt DEF IInv
<1>9. file_to_matches' \in [Range(file_names) -> Seq(Slice)]
  <2>1. file_to_matches[diff.file_name] \in Seq(Slice) /\ diff.byte_slice \in Slice
    BY <1>7, <1>8 DEF IInv, TypeOK, TextDiff
  <2>2. Append(file_to_matches[diff.file_name], diff.byte_slice) \in Seq(Slice)
    BY <2>1, AppendProperties
  <2>3. file_to_matches' = [file_to_matches EXCEPT ![diff.file_name] = Append(@, diff.byte_slice)]
    BY DEF DeleteDiff
  <2>. QED
    BY <2>2, <2>3 DEF IInv, TypeOK
<1>10. num_matches_processed' \in Nat /\ GaugeIsHistory'
  <2>1. num_matches_processed = Len(diffs)
    BY DEF IInv, GaugeIsHistory
  <2>2. num_matches_processed' = Len(diffs') /\ Len(diffs') \in Nat
    BY <2>1, <1>2, <1>3, <1>4 DEF DeleteDiff
  <2>. QED
    BY <2>2 DEF GaugeIsHistory
<1>11. selected_diff' \in Nat
  BY <1>2, <1>3 DEF DeleteDiff, ClampedTo
<1>12. HistoryAsDisplayed'
  <2>1. ASSUME NEW j \in 1..(Len(diffs) - 1)
        PROVE  diffs_as_displayed'[j] = DisplayItem(diffs'[j])
    BY <1>2, <1>4, <1>5
  <2>2. diffs_as_displayed' \in [1..(Len(diffs) - 1) -> Item]
    BY <1>5, <1>6, LenProperties
  <2>. QED
    BY <2>1, <2>2, <1>6 DEF HistoryAsDisplayed
<1>13. DiffsCommittable'
  <2>1. ASSUME NEW i \in DOMAIN diffs' PROVE \E j \in DOMAIN diffs : diffs'[i] = diffs[j]
    <3>1. i \in 1..(Len(diffs) - 1)
      BY <1>6
    <3>2. i \in DOMAIN diffs /\ i + 1 \in DOMAIN diffs
      BY <1>2, <3>1
    <3>3. diffs'[i] = diffs[i] \/ diffs'[i] = diffs[i + 1]
      BY <1>4, <3>1
    <3>. QED
      BY <3>2, <3>3
  <2>. QED
    BY <2>1, <1>1 DEF IInv, DiffsCommittable, IsLoaded
<1>14. QueueCoversPosted' /\ ManagersOK(file_managers')
  BY <1>1, ReviewBefore DEF IInv, QueueCoversPosted
<1>. QED
  BY <1>1, <1>4, <1>5, <1>9, <1>10, <1>11, <1>12, <1>13, <1>14, ReviewBefore, ReviewKeeps

\* The copy a file is spliced from is its own.
LEMMA TargetIsFile ==
  ASSUME IInv, NEW file \in FilesToWrite
  PROVE  file \in FileName /\ Target(file) = file
<1>1. PICK i \in AcceptedDiffs : diffs[i].file_name = file
  BY DEF FilesToWrite
<1>2. i \in DiffsOf(file)
  BY <1>1 DEF DiffsOf
<1>3. PICK j \in DiffsOf(file) : j = CHOOSE k \in DiffsOf(file) : TRUE
  BY <1>2
<1>4. /\ j \in DOMAIN diffs /\ diffs[j].file_name = file
      /\ IndexOf(file) = diffs[j].file_index
  BY <1>3 DEF DiffsOf, AcceptedDiffs, IndexOf
<1>5. diffs[j] \in TextDiff
  <2>1. diffs \in Seq(TextDiff) /\ DOMAIN diffs = 1..Len(diffs)
    BY LenProperties DEF IInv, TypeOK
  <2>. QED
    BY <1>4, <2>1, ElementOfSeq
<1>6. PICK index \in Nat : index = diffs[j].file_index
  BY <1>5 DEF TextDiff
<1>7. /\ index \in DOMAIN file_managers /\ index < Len(file_names)
      /\ file_names[index + 1] = file
  BY <1>4, <1>6 DEF IInv, DiffsCommittable, IsLoaded
<1>8. file_managers[index].file_name = file
  BY <1>7 DEF IInv, FreshFiles
<1>. QED
  BY <1>4, <1>5, <1>6, <1>7, <1>8 DEF Target, CopyOf, IsLoaded, TextDiff

\* Writing files makes newer editions of them.
LEMMA WriteFilesKeeps ==
  ASSUME IInv, NEW opened, WriteFiles(opened),
         commit_state' \in [success_files : SUBSET FileName, error_files : SUBSET FileName,
                            showing_committed_files_modal : BOOLEAN],
         status' \in {"running", "quit", "threw", "aborted"},
         UNCHANGED <<pickerVars, file_viewer, historyVars, gaugeVars, replacement_text, searcher,
                     queueVars, sweeping, searched>>
  PROVE  IInv'
<1>1. PICK names : /\ \A name \in names : disk[name] < MaxEdition
                   /\ disk' = [name \in FileName |->
                                 IF name \in names THEN disk[name] + 1 ELSE disk[name]]
  BY DEF WriteFiles
<1>2. /\ disk' \in [FileName -> 0..MaxEdition]
      /\ \A file \in FileName : disk[file] <= disk'[file]
  <2>1. disk \in [FileName -> 0..MaxEdition] /\ MaxEdition \in Nat
    BY ReviewAssumption DEF IInv, TypeOK
  <2>2. ASSUME NEW file \in FileName
        PROVE  disk'[file] \in 0..MaxEdition /\ disk[file] <= disk'[file]
    BY <1>1, <2>1
  <2>. QED
    BY <1>1, <2>2
<1>3. UNCHANGED <<file_names, file_to_matches, file_to_num_matches_found, selected_file_index,
                  file_managers, file_viewer, diffs, diffs_as_displayed, selected_diff,
                  num_matches_found, num_matches_processed, replacement_text, searcher,
                  actions_queue, posted, sweeping, searched>>
  BY DEF pickerVars, historyVars, gaugeVars, queueVars
<1>4. TypeOK'
  BY <1>2, <1>3 DEF IInv, TypeOK
<1>5. FreshFiles'
  BY <1>2, <1>3 DEF IInv, TypeOK, FreshFiles
<1>. QED
  BY <1>3, <1>4, <1>5 DEF IInv, ListsInRange, DiffsCommittable, IsLoaded, GaugeIsHistory,
                          HistoryAsDisplayed, QueueCoversPosted

\* Commit writes the disk and the table.
LEMMA CommitKeeps == ASSUME IInv, Commit PROVE IInv'
<1>1. PICK opened \in SUBSET FilesToWrite :
        /\ WriteFiles(opened)
        /\ commit_state' = [success_files |-> {Target(file) : file \in opened},
                            error_files |-> {Target(file) : file \in FilesToWrite \ opened},
                            showing_committed_files_modal |-> TRUE]
  BY DEF Commit
<1>2. commit_state' \in [success_files : SUBSET FileName, error_files : SUBSET FileName,
                         showing_committed_files_modal : BOOLEAN]
  BY <1>1, TargetIsFile
<1>. QED
  BY <1>1, <1>2, WriteFilesKeeps DEF Commit, IInv, TypeOK

\* When it throws, the files before have been written.
LEMMA CommitThrowsKeeps == ASSUME IInv, CommitThrows PROVE IInv'
<1>1. PICK opened : WriteFiles(opened)
  BY DEF CommitThrows
<1>. QED
  BY <1>1, WriteFilesKeeps DEF CommitThrows, IInv, TypeOK

\* Another program's write makes a newer edition too.
LEMMA EditOutsideKeeps == ASSUME IInv, NEW file \in OutsideFiles, EditOutside(file) PROVE IInv'
<1>1. UNCHANGED <<file_names, file_to_matches, file_to_num_matches_found, selected_file_index,
                  file_managers, file_viewer, diffs, diffs_as_displayed, selected_diff,
                  num_matches_found, num_matches_processed, replacement_text, searcher,
                  commit_state, actions_queue, posted, sweeping, status, searched>>
  BY DEF EditOutside, pickerVars, historyVars, gaugeVars, queueVars
<1>2. /\ disk' \in [FileName -> 0..MaxEdition]
      /\ \A f \in FileName : disk[f] <= disk'[f]
  <2>1. disk \in [FileName -> 0..MaxEdition] /\ MaxEdition \in Nat
    BY ReviewAssumption DEF IInv, TypeOK
  <2>2. disk[file] < MaxEdition /\ disk' = [disk EXCEPT ![file] = @ + 1]
    BY DEF EditOutside
  <2>3. ASSUME NEW f \in FileName
        PROVE  disk'[f] \in 0..MaxEdition /\ disk[f] <= disk'[f]
    <3>1. disk[f] \in 0..MaxEdition
      BY <2>1
    <3>2. disk'[f] = disk[f] \/ (disk'[f] = disk[f] + 1 /\ disk[f] < MaxEdition)
      BY <2>1, <2>2
    <3>. QED
      BY <2>1, <3>1, <3>2
  <2>. QED
    BY <2>1, <2>2, <2>3
<1>3. TypeOK'
  BY <1>1, <1>2 DEF IInv, TypeOK
<1>4. FreshFiles'
  BY <1>1, <1>2 DEF IInv, TypeOK, FreshFiles
<1>. QED
  BY <1>1, <1>3, <1>4 DEF IInv, ListsInRange, DiffsCommittable, IsLoaded, GaugeIsHistory,
                          HistoryAsDisplayed, QueueCoversPosted

\* A renderer that shows a file: it selects it, reads it, may queue an action.
LEMMA ShownFileKeeps ==
  ASSUME IInv, NEW mode \in {MatchMode, HistoryMode}, NEW index \in Nat,
         mode = HistoryMode /\ diffs # << >> => selected_diff < Len(diffs),
         PopulateFileViewer(mode, index),
         selected_file_index' = index,
         UNCHANGED <<decideFrame, file_to_matches, diffs, diffs_as_displayed,
                     num_matches_processed, sweeping>>,
         actions_queue' \in Seq({"FocusFilePicker", "NoOp"}), posted' \in Nat, QueueCoversPosted'
  PROVE  IInv'
<1>1. /\ file_viewer' \in ViewerType
      /\ ManagersOK(file_managers')
      /\ DOMAIN file_managers \subseteq DOMAIN file_managers'
  BY PopulateFacts
<1>2. UNCHANGED <<file_names, file_to_num_matches_found, num_matches_found, selected_diff,
                  replacement_text, searcher, commit_state, status, disk, searched>>
  BY DEF decideFrame, diskVars
<1>3. DiffsCommittable' /\ GaugeIsHistory' /\ HistoryAsDisplayed'
  BY <1>1, <1>2 DEF IInv, DiffsCommittable, IsLoaded, GaugeIsHistory, HistoryAsDisplayed
<1>. QED
  BY <1>1, <1>2, <1>3, ReviewBefore, ReviewKeeps

\* What the queue satisfies when a step leaves it alone.
LEMMA QueueBefore ==
  ASSUME IInv, UNCHANGED queueVars
  PROVE  /\ actions_queue' \in Seq({"FocusFilePicker", "NoOp"})
         /\ posted' \in Nat
         /\ QueueCoversPosted'
BY DEF IInv, TypeOK, QueueCoversPosted, queueVars

LEMMA RenderFilePickerKeeps == ASSUME IInv, RenderFilePicker PROVE IInv'
<1>1. selected_file_index \in Nat /\ MatchMode # HistoryMode
  BY DEF IInv, TypeOK, MatchMode, HistoryMode
<1>. QED
  BY <1>1, ShownFileKeeps, QueueBefore, StopKeeps DEF RenderFilePicker, PopulateStops

LEMMA RenderEmptyHistoryKeeps == ASSUME IInv, RenderEmptyHistory PROVE IInv'
<1>1. selected_file_index \in Nat /\ diffs = << >>
  BY DEF IInv, TypeOK, RenderEmptyHistory, history_has_diffs
<1>. QED
  BY <1>1, ShownFileKeeps, QueueBefore DEF RenderEmptyHistory

LEMMA RenderHistoryKeeps == ASSUME IInv, RenderHistory PROVE IInv'
<1>. DEFINE index == diffs[selected_diff + 1].file_index
<1>1. CASE ~is_current_diff_valid \/ PopulateStops(HistoryMode, index)
  BY <1>1, StopKeeps DEF RenderHistory, PopulateStops
<1>2. CASE is_current_diff_valid
  <2>1. /\ diffs \in Seq(TextDiff) /\ selected_diff < Len(diffs)
        /\ selected_diff + 1 \in 1..Len(diffs)
    BY <1>2, LenProperties DEF IInv, TypeOK, is_current_diff_valid
  <2>2. index \in Nat
    <3>1. diffs[selected_diff + 1] \in TextDiff
      BY <2>1, ElementOfSeq
    <3>. QED
      BY <3>1 DEF TextDiff
  <2>. QED
    BY <1>1, <1>2, <2>1, <2>2, ShownFileKeeps, PushFacts DEF RenderHistory
<1>. QED
  BY <1>1, <1>2 DEF RenderHistory

LEMMA PopActionKeeps == ASSUME IInv, PopAction PROVE IInv'
<1>1. actions_queue \in Seq({"FocusFilePicker", "NoOp"}) /\ Len(actions_queue) \in Nat
      /\ posted \in Nat /\ posted > 0 /\ posted <= Len(actions_queue) /\ posted' = posted - 1
  BY LenProperties DEF IInv, TypeOK, QueueCoversPosted, PopAction
<1>2. /\ actions_queue' \in Seq({"FocusFilePicker", "NoOp"})
      /\ Len(actions_queue') = Len(actions_queue) - 1
  <2>. DEFINE Action == {"FocusFilePicker", "NoOp"}
              last == Len(actions_queue)
              rest == SubSeq(actions_queue, 2, last)
  <2>1. last \in Int /\ last >= 1 /\ \A i \in 1..last : actions_queue[i] \in Action
    BY <1>1, ElementOfSeq
  <2>. HIDE DEF Action, last
  <2>2. \A i \in 2..last : actions_queue[i] \in Action
    BY <2>1
  <2>3. rest \in Seq(Action) /\ Len(rest) = IF 2 <= last THEN last - 2 + 1 ELSE 0
    BY <2>1, <2>2, SubSeqProperties
  <2>. HIDE DEF rest
  <2>4. Len(rest) = last - 1
    BY <2>1, <2>3
  <2>5. rest \in Seq({"FocusFilePicker", "NoOp"})
    BY <2>3 DEF Action
  <2>. QED
    BY <2>4, <2>5 DEF PopAction, last, rest
<1>3. UNCHANGED <<file_names, file_to_matches, file_to_num_matches_found, selected_file_index,
                  file_managers, file_viewer, diffs, diffs_as_displayed, selected_diff,
                  num_matches_found, num_matches_processed, replacement_text, searcher,
                  commit_state, sweeping, status, disk, searched>>
  BY DEF PopAction, customFrame, pickerVars, historyVars, gaugeVars, diskVars
<1>4. posted' \in Nat /\ QueueCoversPosted'
  BY <1>1, <1>2 DEF QueueCoversPosted
<1>5. DiffsCommittable' /\ GaugeIsHistory' /\ HistoryAsDisplayed' /\ ManagersOK(file_managers')
  BY <1>3, ReviewBefore DEF IInv, DiffsCommittable, IsLoaded, GaugeIsHistory, HistoryAsDisplayed
<1>. QED
  BY <1>2, <1>3, <1>4, <1>5, ReviewBefore, ReviewKeeps

LEMMA SwallowCustomKeeps == ASSUME IInv, SwallowCustom PROVE IInv'
<1>1. UNCHANGED <<file_names, file_to_matches, file_to_num_matches_found, selected_file_index,
                  file_managers, file_viewer, diffs, diffs_as_displayed, selected_diff,
                  num_matches_found, num_matches_processed, replacement_text, searcher,
                  commit_state, sweeping, status, disk, searched>>
  BY DEF SwallowCustom, customFrame, pickerVars, historyVars, gaugeVars, diskVars
<1>2. /\ actions_queue' \in Seq({"FocusFilePicker", "NoOp"}) /\ posted' \in Nat
      /\ QueueCoversPosted'
  <2>1. actions_queue \in Seq({"FocusFilePicker", "NoOp"}) /\ posted \in Nat
        /\ posted <= Len(actions_queue)
    BY DEF IInv, TypeOK, QueueCoversPosted
  <2>2. Len(actions_queue) \in Nat
    BY <2>1, LenProperties
  <2>3. actions_queue' = actions_queue /\ posted > 0 /\ posted' = posted - 1
    BY DEF SwallowCustom
  <2>. QED
    BY <2>1, <2>2, <2>3 DEF QueueCoversPosted
<1>3. DiffsCommittable' /\ GaugeIsHistory' /\ HistoryAsDisplayed' /\ ManagersOK(file_managers')
  BY <1>1, ReviewBefore DEF IInv, DiffsCommittable, IsLoaded, GaugeIsHistory, HistoryAsDisplayed
<1>. QED
  BY <1>1, <1>2, <1>3, ReviewBefore, ReviewKeeps

\* A menu selects a line, whichever.
LEMMA SelectFileKeeps == ASSUME IInv, NEW i \in Nat, SelectFile(i) PROVE IInv'
BY DEF SelectFile, IInv, TypeOK, ListsInRange, DiffsCommittable, GaugeIsHistory,
       HistoryAsDisplayed, QueueCoversPosted, FreshFiles, IsLoaded, historyVars, gaugeVars,
       queueVars, diskVars

LEMMA SelectDiffKeeps == ASSUME IInv, NEW i \in Nat, SelectDiff(i) PROVE IInv'
BY DEF SelectDiff, IInv, TypeOK, ListsInRange, DiffsCommittable, GaugeIsHistory,
       HistoryAsDisplayed, QueueCoversPosted, FreshFiles, IsLoaded, pickerVars, gaugeVars,
       queueVars, diskVars

\* Moving in a menu of count lines stays in it.
LEMMA MovesFacts ==
  ASSUME NEW count \in Nat, NEW index \in Nat, NEW to \in MovesFrom(index, count)
  PROVE  to \in Nat /\ (index < count \/ count = 0 => to < count \/ (count = 0 /\ to = 0))
<1>1. CASE count = 0
  BY <1>1 DEF MovesFrom, StepsFrom, ClampedTo
<1>2. CASE count # 0
  <2>1. \A a \in Nat : a % count \in 0..(count - 1)
    BY <1>2
  <2>2. index + count - 1 \in Nat
    BY <1>2
  <2>. QED
    BY <1>2, <2>1, <2>2 DEF MovesFrom, StepsFrom, ClampedTo
<1>. QED
  BY <1>1, <1>2

\* The menu has a line for each diff.
LEMMA LinesOfHistory == ASSUME IInv PROVE Len(diffs_as_displayed) = Len(diffs) /\ Len(diffs) \in Nat
<1>1. diffs \in Seq(TextDiff) /\ diffs_as_displayed \in Seq(Item)
  BY DEF IInv, TypeOK
<1>2. Len(diffs) \in Nat /\ DOMAIN diffs = 1..Len(diffs)
  BY <1>1, LenProperties
<1>3. diffs_as_displayed = [i \in 1..Len(diffs) |-> DisplayItem(diffs[i])]
  BY <1>2 DEF IInv, HistoryAsDisplayed
<1>. QED
  BY <1>1, <1>2, <1>3, LenProperties

\* A key, the wheel or a click in a menu selects some line.
LEMMA MenusSelect ==
  ASSUME IInv, MoveInFiles \/ ClickInFiles \/ MoveInHistory \/ ClickInHistory
  PROVE  \E i \in Nat : SelectFile(i) \/ SelectDiff(i)
<1>1. /\ Len(file_names) \in Nat /\ selected_file_index \in Nat
      /\ Len(diffs_as_displayed) \in Nat /\ selected_diff \in Nat
  BY LenProperties, LinesOfHistory DEF IInv, TypeOK
<1>2. CASE MoveInFiles
  BY <1>1, <1>2, MovesFacts DEF MoveInFiles
<1>3. CASE MoveInHistory
  BY <1>1, <1>3, MovesFacts DEF MoveInHistory
<1>4. CASE ClickInFiles
  BY <1>1, <1>4 DEF ClickInFiles
<1>5. CASE ClickInHistory
  BY <1>1, <1>5 DEF ClickInHistory
<1>. QED
  BY <1>2, <1>3, <1>4, <1>5

LEMMA EditReplacementKeeps == ASSUME IInv, EditReplacement PROVE IInv'
BY DEF EditReplacement, IInv, TypeOK, ListsInRange, DiffsCommittable, GaugeIsHistory,
       HistoryAsDisplayed, QueueCoversPosted, FreshFiles, IsLoaded, pickerVars, historyVars,
       gaugeVars, queueVars, diskVars

LEMMA RenderSearchInputKeeps == ASSUME IInv, RenderSearchInput PROVE IInv'
BY DEF RenderSearchInput, IInv, TypeOK, ListsInRange, DiffsCommittable, GaugeIsHistory,
       HistoryAsDisplayed, QueueCoversPosted, FreshFiles, IsLoaded, pickerVars, historyVars,
       gaugeVars, queueVars, diskVars

-----------------------------------------------------------------------------
(* The theorems.                                                           *)

\* The state before the first search is in order.
LEMMA InitIInv == Init => IInv
<1>. SUFFICES ASSUME Init PROVE IInv
  OBVIOUS
<1>1. TypeOK
  <2>1. file_to_matches \in [Range(file_names) -> Seq(Slice)]
    BY DEF Init, Range
  <2>2. commit_state \in [success_files : SUBSET FileName, error_files : SUBSET FileName,
                          showing_committed_files_modal : BOOLEAN]
    BY DEF Init, NoCommit
  <2>. QED
    BY <2>1, <2>2, ReviewAssumption DEF Init, TypeOK, NoLines
<1>2. ListsInRange /\ DiffsCommittable /\ GaugeIsHistory /\ QueueCoversPosted
  BY DEF Init, ListsInRange, DiffsCommittable, GaugeIsHistory, QueueCoversPosted
<1>3. HistoryAsDisplayed
  BY DEF Init, HistoryAsDisplayed
<1>4. FreshFiles
  BY DEF Init, FreshFiles
<1>. QED
  BY <1>1, <1>2, <1>3, <1>4 DEF IInv

\* What the event loop of module App may do: a step of Review, a click on a
\* line a menu drew before its list changed, the quit button, or a drawing that
\* throws.
LoopStep ==
  \/ Next
  \/ \E i \in Nat : SelectFile(i) \/ SelectDiff(i)
  \/ Stop("quit") \/ Stop("threw")

\* Every step keeps the invariant.
LEMMA LoopStepIInv == IInv /\ [LoopStep]_vars => IInv'
<1>. SUFFICES ASSUME IInv, [LoopStep]_vars PROVE IInv'
  OBVIOUS
<1>1. CASE Search \/ SearchInvalidRegex \/ DismissCommit \/ Commit \/ CommitThrows
  BY <1>1, SearchKeeps, SearchInvalidRegexKeeps, DismissCommitKeeps, CommitKeeps, CommitThrowsKeeps
<1>2. ASSUME NEW accepted \in BOOLEAN, AddCurrentChange(accepted) PROVE IInv'
  BY <1>2, AddCurrentChangeKeeps
<1>3. CASE RejectAllInFile \/ AcceptAllInFile
  BY <1>3, RejectAllInFileKeeps, AcceptAllInFileKeeps
<1>4. CASE AcceptAllInAllFiles \/ SweepFile \/ SweepDone
  BY <1>4, AcceptAllInAllFilesKeeps, SweepFileKeeps, SweepDoneKeeps
<1>5. CASE DeleteDiff
  BY <1>5, DeleteDiffKeeps
<1>6. CASE RenderFilePicker \/ RenderHistory \/ RenderEmptyHistory \/ RenderSearchInput
  BY <1>6, RenderFilePickerKeeps, RenderHistoryKeeps, RenderEmptyHistoryKeeps,
     RenderSearchInputKeeps
<1>7. CASE SwallowCustom \/ PopAction
  BY <1>7, SwallowCustomKeeps, PopActionKeeps
<1>8. ASSUME NEW i \in Nat, SelectFile(i) \/ SelectDiff(i) PROVE IInv'
  BY <1>8, SelectFileKeeps, SelectDiffKeeps
<1>9. CASE MoveInFiles \/ ClickInFiles \/ MoveInHistory \/ ClickInHistory
  BY <1>8, <1>9, MenusSelect
<1>10. CASE EditReplacement
  BY <1>10, EditReplacementKeeps
<1>11. ASSUME NEW file \in OutsideFiles, EditOutside(file) PROVE IInv'
  BY <1>11, EditOutsideKeeps
<1>12. CASE Stop("quit") \/ Stop("threw")
  BY <1>12, StopKeeps
<1>13. CASE Exited \/ UNCHANGED vars
  BY <1>13, StutterKeeps DEF Exited
<1>. QED
  BY <1>1, <1>2, <1>3, <1>4, <1>5, <1>6, <1>7, <1>8, <1>9, <1>10, <1>11, <1>12, <1>13
     DEF Next, LoopStep

LEMMA NextIsLoopStep == [Next]_vars => [LoopStep]_vars
BY DEF LoopStep

\* What a step can do to the matches: start over, decide the first ones of one
\* file, take a decision back, commit, or leave them alone.
matchVars == <<file_names, file_to_matches, file_to_num_matches_found, diffs, written, commit_state>>
MatchesStay == UNCHANGED matchVars /\ status' \in {status, "quit", "threw", "aborted"}

StartsOver ==
  /\ status = "running" /\ UNCHANGED status
  /\ \E names \in Seq(FileName) : \E lists \in [Range(names) -> MatchList] :
       ResetBeforeSearch /\ FillFilePicker(names, lists)
Decides ==
  /\ status = "running"
  /\ \E index \in Nat : /\ index < Len(file_names)
                        /\ \E accepted \in BOOLEAN, n \in 0..Len(Pending(index)) :
                             DecideFirst(n, accepted, index)
  /\ UNCHANGED <<file_names, file_to_num_matches_found, selected_diff, replacement_text, written,
                 commit_state, status>>

LEMMA SearchStartsOver ==
  ASSUME Search \/ SearchInvalidRegex \/ DismissCommit
  PROVE  StartsOver
<1>1. CASE Search
  <2>1. PICK names \in NameList : \E lists \in [Range(names) -> MatchList] :
          ResetBeforeSearch /\ FillFilePicker(names, lists)
    BY <1>1 DEF Search
  <2>2. names \in Seq(FileName)
    <3>1. PICK n \in 0..Cardinality(FileName) : names \in [1..n -> FileName]
      BY DEF NameList
    <3>2. n \in Nat
      BY <3>1
    <3>. QED
      BY <3>1, <3>2, SeqOfLen
  <2>3. status = "running" /\ UNCHANGED status
    BY <1>1 DEF Search, Handling, Running
  <2>. QED
    BY <2>1, <2>2, <2>3 DEF StartsOver
<1>2. CASE SearchInvalidRegex \/ DismissCommit
  <2>1. << >> \in Seq(FileName) /\ << >> \in [Range(<< >>) -> MatchList]
    BY DEF Range
  <2>2. FillFilePicker(<< >>, << >>) /\ ResetBeforeSearch
    BY <1>2 DEF SearchInvalidRegex, DismissCommit
  <2>3. status = "running" /\ UNCHANGED status
    BY <1>2 DEF SearchInvalidRegex, DismissCommit, Handling, Running
  <2>. QED
    BY <2>1, <2>2, <2>3 DEF StartsOver
<1>. QED
  BY <1>1, <1>2

LEMMA MatchSteps ==
  ASSUME IInv, [LoopStep]_vars
  PROVE  StartsOver \/ Decides \/ DeleteDiff \/ Commit \/ CommitThrows \/ MatchesStay
<1>. DEFINE Goal == StartsOver \/ Decides \/ DeleteDiff \/ Commit \/ CommitThrows \/ MatchesStay
<1>. SUFFICES Goal
  OBVIOUS
<1>1. CASE Search \/ SearchInvalidRegex \/ DismissCommit
  BY <1>1, SearchStartsOver
<1>3. ASSUME NEW accepted \in BOOLEAN, AddCurrentChange(accepted) PROVE Goal
  <2>. DEFINE index == selected_file_index
  <2>1. CASE DecideThrows(1, index)
    BY <2>1 DEF DecideThrows, Stop, pickerVars, historyVars, diskVars, matchVars, MatchesStay
  <2>2. CASE ~DecideThrows(1, index)
    <3>0. CanDecide(1, index) /\ DecideFirst(1, accepted, index) /\ UNCHANGED decideFrame
      BY <1>3, <2>2 DEF AddCurrentChange
    <3>1. index \in Nat /\ index < Len(file_names) /\ Pending(index) # << >>
      BY <1>3, <3>0, InMemoryIsListed DEF AddCurrentChange, IsListed, IInv, TypeOK
    <3>2. 1 \in 0..Len(Pending(index))
      <4>1. Pending(index) \in Seq(Slice) /\ Len(Pending(index)) \in Nat
        BY <3>1, FileAt DEF IInv
      <4>. QED
        BY <3>1, <4>1, EmptySeq
    <3>. QED
      BY <1>3, <3>0, <3>1, <3>2 DEF AddCurrentChange, Handling, Running, Decides, decideFrame, diskVars
  <2>. QED
    BY <2>1, <2>2
<1>4. CASE RejectAllInFile
  <2>. DEFINE index == selected_file_index
              n == Len(Pending(index))
  <2>1. CASE DecideThrows(n, index)
    BY <2>1 DEF DecideThrows, Stop, pickerVars, historyVars, diskVars, matchVars, MatchesStay
  <2>2. CASE ~DecideThrows(n, index)
    <3>0. CanDecide(n, index) /\ DecideFirst(n, FALSE, index) /\ UNCHANGED decideFrame
      BY <1>4, <2>2 DEF RejectAllInFile
    <3>1. index \in Nat /\ index < Len(file_names)
      BY <3>0, InMemoryIsListed DEF IInv, TypeOK
    <3>2. n \in 0..n
      BY <3>1, FileAt DEF IInv
    <3>. QED
      BY <1>4, <3>0, <3>1, <3>2 DEF RejectAllInFile, Handling, Running, Decides, decideFrame, diskVars
  <2>. QED
    BY <2>1, <2>2
<1>5. ASSUME NEW index \in Nat, index < Len(file_names), AcceptFile(index), UNCHANGED decideFrame,
             status = "running"
      PROVE  Decides
  <2>1. Len(Pending(index)) \in 0..Len(Pending(index))
    BY <1>5, FileAt DEF IInv
  <2>. QED
    BY <1>5, <2>1 DEF AcceptFile, Decides, decideFrame, diskVars
<1>6. ASSUME NEW index \in Nat, AcceptFileStops(index) PROVE MatchesStay
  BY <1>6 DEF AcceptFileStops, PopulateStops, Stop, pickerVars, historyVars, diskVars, matchVars, MatchesStay
<1>7. CASE AcceptAllInFile
  <2>1. file_names # << >> /\ selected_file_index \in Nat
    BY <1>7, LoadedHasFiles DEF AcceptAllInFile, IInv, TypeOK
  <2>2. AcceptFile(selected_file_index) => selected_file_index < Len(file_names)
    BY <2>1, ShownIsListed DEF AcceptFile
  <2>. QED
    BY <1>5, <1>6, <1>7, <2>1, <2>2 DEF AcceptAllInFile, Handling, Running
<1>8. CASE SweepFile
  <2>1. Len(file_names) \in Nat /\ sweeping \in 0..(Len(file_names) - 1)
    BY <1>8, LenProperties DEF SweepFile, IInv, TypeOK
  <2>2. sweeping \in Nat /\ sweeping < Len(file_names)
    BY <2>1
  <2>. QED
    BY <1>5, <1>6, <1>8, <2>2 DEF SweepFile
<1>10. CASE AcceptAllInAllFiles \/ SweepDone
  BY <1>10 DEF AcceptAllInAllFiles, SweepDone, decideFrame, diskVars, matchVars, MatchesStay
<1>12. CASE RenderFilePicker \/ RenderHistory \/ RenderEmptyHistory \/ RenderSearchInput
  BY <1>12 DEF RenderFilePicker, RenderHistory, RenderEmptyHistory, RenderSearchInput,
     PopulateStops, Stop, decideFrame, pickerVars, historyVars, diskVars, matchVars, MatchesStay
<1>13. CASE SwallowCustom \/ PopAction
  BY <1>13 DEF SwallowCustom, PopAction, customFrame, pickerVars, historyVars, diskVars, matchVars, MatchesStay
<1>14. ASSUME NEW i \in Nat, SelectFile(i) \/ SelectDiff(i) PROVE Goal
  BY <1>14 DEF SelectFile, SelectDiff, pickerVars, historyVars, diskVars, matchVars, MatchesStay
<1>9. CASE MoveInFiles \/ ClickInFiles \/ MoveInHistory \/ ClickInHistory
  BY <1>9, <1>14, MenusSelect
<1>11. CASE EditReplacement \/ Stop("quit") \/ Stop("threw")
  BY <1>11 DEF EditReplacement, Stop, pickerVars, historyVars, diskVars, matchVars, MatchesStay
<1>15. CASE \E file \in OutsideFiles : EditOutside(file)
  BY <1>15 DEF EditOutside, pickerVars, historyVars, matchVars, MatchesStay
<1>16. CASE Exited \/ UNCHANGED vars
  BY <1>16 DEF Exited, vars, pickerVars, historyVars, diskVars, matchVars, MatchesStay
<1>. HIDE DEF Goal
<1>17. CASE DeleteDiff \/ Commit \/ CommitThrows
  BY <1>17 DEF Goal
<1>. QED
  BY <1>1, <1>3, <1>4, <1>7, <1>8, <1>9, <1>10, <1>11, <1>12, <1>13, <1>14, <1>15, <1>16, <1>17
     DEF Next, LoopStep

-----------------------------------------------------------------------------
(* The selections.  Each is left alone, put on a line of its list by a     *)
(* menu, or set by a handler that changes the list.                        *)

FileSelected ==
  \/ selected_file_index < Len(file_names)
  \/ file_names = << >> /\ selected_file_index = 0
DiffSelected ==
  \/ selected_diff < Len(diffs)
  \/ diffs = << >> /\ selected_diff = 0

LEMMA SelectionParts == IInv => (SelectionInRange <=> FileSelected /\ DiffSelected)
BY DEF SelectionInRange, IInv, ListsInRange, FileSelected, DiffSelected

\* A search that reports files selects the first.
LEMMA StartOverSelected == ASSUME StartsOver PROVE FileSelected' /\ DiffSelected'
<1>1. PICK names \in Seq(FileName) : file_names' = names
  BY DEF StartsOver, FillFilePicker
<1>2. names = << >> \/ Len(names) > 0
  BY LenProperties, EmptySeq
<1>3. selected_file_index' = 0 /\ diffs' = << >> /\ selected_diff' = 0
  BY DEF StartsOver, ResetBeforeSearch
<1>. QED
  BY <1>1, <1>2, <1>3 DEF FileSelected, DiffSelected

LEMMA NextFileSelected ==
  ASSUME IInv, FileSelected, [Next]_vars, ~StartsOver
  PROVE  FileSelected'
<1>. DEFINE Stays == UNCHANGED <<file_names, selected_file_index>>
            Listed == file_names' = file_names /\ selected_file_index' < Len(file_names)
<1>1. Stays => FileSelected'
  BY DEF FileSelected
<1>2. Listed => FileSelected'
  BY DEF FileSelected
<1>3. Len(file_names) \in Nat /\ (file_names = << >> <=> Len(file_names) = 0)
      /\ selected_file_index \in Nat
  BY LenProperties, EmptySeq DEF IInv, TypeOK
<1>4. CASE StartsOver \/ (\E accepted \in BOOLEAN : AddCurrentChange(accepted)) \/ RejectAllInFile
  BY <1>1, <1>4 DEF AddCurrentChange, RejectAllInFile, DecideThrows, Stop, decideFrame, pickerVars
<1>5. CASE AcceptAllInFile \/ AcceptAllInAllFiles \/ SweepDone \/ DeleteDiff
  BY <1>1, <1>5 DEF AcceptAllInFile, AcceptFileStops, PopulateStops, AcceptAllInAllFiles,
     SweepDone, DeleteDiff, Stop, decideFrame, pickerVars
<1>6. CASE SweepFile
  <2>1. CASE AcceptFileStops(sweeping)
    BY <1>1, <2>1 DEF AcceptFileStops, PopulateStops, Stop, pickerVars
  <2>2. CASE selected_file_index' = sweeping /\ UNCHANGED decideFrame
    BY <1>2, <1>3, <1>6, <2>2 DEF SweepFile, decideFrame
  <2>. QED
    BY <1>6, <2>1, <2>2 DEF SweepFile
<1>7. CASE RenderHistory
  <2>. DEFINE index == diffs[selected_diff + 1].file_index
  <2>1. CASE PopulateStops(HistoryMode, index) \/ Stop("threw")
    BY <1>1, <2>1 DEF PopulateStops, Stop, pickerVars
  <2>2. CASE is_current_diff_valid /\ selected_file_index' = index /\ UNCHANGED decideFrame
    <3>1. selected_diff + 1 \in DOMAIN diffs
      BY <2>2, LenProperties DEF is_current_diff_valid, IInv, TypeOK
    <3>2. Listed
      BY <2>2, <3>1 DEF decideFrame, IInv, DiffsCommittable
    <3>. QED
      BY <1>2, <3>2
  <2>. QED
    BY <1>7, <2>1, <2>2 DEF RenderHistory
<1>8. CASE RenderFilePicker \/ RenderEmptyHistory \/ RenderSearchInput
  BY <1>1, <1>8 DEF RenderFilePicker, RenderEmptyHistory, RenderSearchInput, PopulateStops,
     Stop, decideFrame, pickerVars
<1>9. CASE Commit \/ CommitThrows \/ SwallowCustom \/ PopAction \/ EditReplacement
           \/ (\E file \in OutsideFiles : EditOutside(file)) \/ Exited \/ UNCHANGED vars
  BY <1>1, <1>9 DEF Commit, CommitThrows, SwallowCustom, PopAction, EditReplacement, EditOutside, Exited, vars,
     customFrame, pickerVars
<1>10. CASE MoveInHistory \/ ClickInHistory
  BY <1>1, <1>10 DEF MoveInHistory, ClickInHistory, SelectDiff, pickerVars
<1>11. CASE MoveInFiles
  <2>1. PICK i \in MovesFrom(selected_file_index, Len(file_names)) : SelectFile(i)
    BY <1>11 DEF MoveInFiles
  <2>2. i \in Nat /\ (i < Len(file_names) \/ (Len(file_names) = 0 /\ i = 0))
    BY <1>3, MovesFacts DEF FileSelected
  <2>. QED
    BY <1>3, <2>1, <2>2 DEF SelectFile, FileSelected
<1>12. CASE ClickInFiles
  BY <1>2, <1>3, <1>12 DEF ClickInFiles, SelectFile
<1>13. Search \/ SearchInvalidRegex \/ DismissCommit => StartsOver
  BY SearchStartsOver
<1>. QED
  BY <1>4, <1>5, <1>6, <1>7, <1>8, <1>9, <1>10, <1>11, <1>12, <1>13 DEF Next

\* Only a search, the deletion of a diff and the history menu set its selection.
LEMMA NextSelectedDiff ==
  ASSUME [Next]_vars, ~StartsOver, ~DeleteDiff, ~MoveInHistory, ~ClickInHistory
  PROVE  selected_diff' = selected_diff
<1>1. CASE (\E accepted \in BOOLEAN : AddCurrentChange(accepted)) \/ RejectAllInFile
           \/ AcceptAllInFile \/ AcceptAllInAllFiles \/ SweepFile \/ SweepDone
  BY <1>1 DEF AddCurrentChange, RejectAllInFile, AcceptAllInFile, AcceptAllInAllFiles, SweepFile,
     SweepDone, DecideThrows, AcceptFileStops, PopulateStops, Stop, decideFrame, historyVars
<1>2. CASE RenderFilePicker \/ RenderHistory \/ RenderEmptyHistory \/ RenderSearchInput
  BY <1>2 DEF RenderFilePicker, RenderHistory, RenderEmptyHistory, RenderSearchInput,
     PopulateStops, Stop, decideFrame, historyVars
<1>3. CASE Commit \/ CommitThrows \/ SwallowCustom \/ PopAction
           \/ MoveInFiles \/ ClickInFiles \/ EditReplacement
           \/ (\E file \in OutsideFiles : EditOutside(file)) \/ Exited \/ UNCHANGED vars
  BY <1>3 DEF Commit, CommitThrows, SwallowCustom, PopAction, MoveInFiles, ClickInFiles, SelectFile,
     EditReplacement, EditOutside, Exited, vars, customFrame, historyVars
<1>. QED
  BY <1>1, <1>2, <1>3, SearchStartsOver DEF Next

LEMMA NextDiffSelected ==
  ASSUME IInv, DiffSelected, [Next]_vars, ~StartsOver
  PROVE  DiffSelected'
<1>1. /\ diffs \in Seq(TextDiff) /\ Len(diffs) \in Nat /\ selected_diff \in Nat
      /\ (diffs = << >> <=> Len(diffs) = 0)
  BY LenProperties, EmptySeq DEF IInv, TypeOK
<1>2. UNCHANGED <<diffs, selected_diff>> => DiffSelected'
  BY DEF DiffSelected
<1>3. CASE Decides
  <2>1. Len(diffs') >= Len(diffs) /\ selected_diff' = selected_diff /\ diffs' \in Seq(TextDiff)
    BY <1>3, DecideFacts DEF Decides
  <2>2. Len(diffs') \in Nat /\ (diffs' = << >> <=> Len(diffs') = 0)
    BY <2>1, LenProperties, EmptySeq
  <2>. QED
    BY <1>1, <2>1, <2>2 DEF DiffSelected
<1>4. CASE DeleteDiff
  <2>1. selected_diff + 1 \in 1..Len(diffs)
    BY <1>1, <1>4 DEF DeleteDiff, is_current_diff_valid
  <2>2. diffs' \in Seq(TextDiff) /\ Len(diffs') = Len(diffs) - 1
    BY <1>1, <1>4, <2>1, RemoveAtFacts DEF DeleteDiff
  <2>3. selected_diff' = ClampedTo(selected_diff, Len(diffs) - 1)
    BY <1>4, LinesOfHistory DEF DeleteDiff
  <2>4. diffs' = << >> <=> Len(diffs') = 0
    BY <2>2, EmptySeq
  <2>. QED
    BY <1>1, <2>1, <2>2, <2>3, <2>4 DEF DiffSelected, ClampedTo
<1>5. CASE Commit \/ CommitThrows
  BY <1>2, <1>5 DEF Commit, CommitThrows, historyVars
<1>6. CASE MatchesStay
  <2>1. CASE MoveInHistory
    <3>1. PICK i \in MovesFrom(selected_diff, Len(diffs)) : SelectDiff(i)
      BY <2>1, LinesOfHistory DEF MoveInHistory
    <3>2. i \in Nat /\ (i < Len(diffs) \/ (Len(diffs) = 0 /\ i = 0))
      BY <1>1, MovesFacts DEF DiffSelected
    <3>. QED
      BY <1>1, <3>1, <3>2 DEF SelectDiff, DiffSelected
  <2>2. CASE ClickInHistory
    BY <1>1, <2>2, LinesOfHistory DEF ClickInHistory, SelectDiff, DiffSelected
  <2>3. CASE ~MoveInHistory /\ ~ClickInHistory
    <3>1. CASE DeleteDiff
      BY <1>4, <3>1
    <3>2. CASE ~DeleteDiff
      <4>1. selected_diff' = selected_diff
        BY <2>3, <3>2, NextSelectedDiff
      <4>. QED
        BY <1>2, <1>6, <4>1 DEF MatchesStay, matchVars
    <3>. QED
      BY <3>1, <3>2
  <2>. QED
    BY <2>1, <2>2, <2>3
<1>. QED
  BY <1>3, <1>4, <1>5, <1>6, MatchSteps, NextIsLoopStep

LEMMA NextSelected == IInv /\ SelectionInRange /\ [Next]_vars => SelectionInRange'
<1>. SUFFICES ASSUME IInv, SelectionInRange, [Next]_vars PROVE SelectionInRange'
  OBVIOUS
<1>1. FileSelected /\ DiffSelected
  BY SelectionParts
<1>2. FileSelected' /\ DiffSelected'
  BY <1>1, StartOverSelected, NextFileSelected, NextDiffSelected
<1>3. IInv'
  BY LoopStepIInv, NextIsLoopStep
<1>. QED
  BY <1>2, <1>3 DEF SelectionInRange, IInv, ListsInRange, FileSelected, DiffSelected

\* The inductive invariant holds of every behaviour of the handlers, for any
\* files, matches, texts and bounds.
THEOREM ReviewInvariant == Spec => []IInv
BY InitIInv, LoopStepIInv, NextIsLoopStep, PTL DEF Spec

\* Every variable keeps its shape: no handler makes an index negative, puts a
\* file outside the tables of the picker, or lets those tables disagree.
THEOREM TypeCorrect == Spec => []TypeOK
BY ReviewInvariant, PTL DEF IInv

\* file_managers.at, in the commit, and file_to_matches.at, in the deletion of
\* a diff, never throw: each diff names a file that is in the list and in memory.
THEOREM DiffsStayCommittable == Spec => []DiffsCommittable
BY ReviewInvariant, PTL DEF IInv

\* The selected file and the selected diff are always ones of their lists.
THEOREM SelectionStaysInRange == Spec => []SelectionInRange
<1>1. Init => SelectionInRange
  BY DEF Init, SelectionInRange
<1>. QED
  BY <1>1, NextSelected, ReviewInvariant, PTL DEF Spec

\* The gauge counts the history whatever is decided, taken back or searched.
THEOREM GaugeStaysHistory == Spec => []GaugeIsHistory
BY ReviewInvariant, PTL DEF IInv

\* The menu of the history and the history stay one list.
THEOREM HistoryStaysDisplayed == Spec => []HistoryAsDisplayed
BY ReviewInvariant, PTL DEF IInv

\* actions_queue.front() is called on a queue that holds an action.
THEOREM QueueStaysCovered == Spec => []QueueCoversPosted
BY ReviewInvariant, PTL DEF IInv

\* No copy of a file in memory is older than the search whose matches it shows.
THEOREM FilesStayFresh == Spec => []FreshFiles
BY ReviewInvariant, PTL DEF IInv

-----------------------------------------------------------------------------
(* The accept-all loop.  While it runs no other handler does, so the files *)
(* before the one it stands at stay without a pending match.               *)

SweptEmpty ==
  sweeping # NotSweeping =>
    \A i \in 1..sweeping : file_to_matches[file_names[i]] = << >>

\* One round of the loop empties the file it stands at and no other changes.
LEMMA AcceptFileEmpties ==
  ASSUME IInv, NEW index \in Nat, index < Len(file_names), AcceptFile(index)
  PROVE  /\ file_to_matches'[file_names[index + 1]] = << >>
         /\ \A file \in DOMAIN file_to_matches :
              file # file_names[index + 1] => file_to_matches'[file] = file_to_matches[file]
         /\ DOMAIN file_to_matches' = DOMAIN file_to_matches
<1>. DEFINE name == file_names[index + 1]
            n == Len(Pending(index))
<1>1. /\ Pending(index) \in Seq(Slice) /\ n \in Nat
      /\ name \in DOMAIN file_to_matches
      /\ file_to_matches[name] = Pending(index)
  BY FileAt DEF IInv, TypeOK, Pending
<1>2. file_to_matches' = [file_to_matches EXCEPT ![name] = SubSeq(@, n + 1, Len(@))]
  BY DEF AcceptFile, DecideFirst
<1>3. SubSeq(Pending(index), n + 1, n) = << >>
  <2>. HIDE DEF n
  <2>. QED
    BY <1>1, SubSeqEmpty
<1>4. file_to_matches'[name] = SubSeq(Pending(index), n + 1, n)
  BY <1>1, <1>2
<1>. QED
  BY <1>2, <1>3, <1>4

LEMMA StepSweptEmpty == IInv /\ SweptEmpty /\ [LoopStep]_vars => SweptEmpty'
<1>. SUFFICES ASSUME IInv, SweptEmpty, [LoopStep]_vars, sweeping' # NotSweeping
              PROVE  \A i \in 1..sweeping' : file_to_matches'[file_names'[i]] = << >>
  BY DEF SweptEmpty
<1>1. CASE SweepFile
  <2>1. CASE AcceptFileStops(sweeping)
    <3>1. UNCHANGED <<file_names, file_to_matches, sweeping>>
      BY <2>1 DEF AcceptFileStops, PopulateStops, Stop, pickerVars
    <3>. QED
      BY <3>1 DEF SweptEmpty
  <2>2. CASE AcceptFile(sweeping) /\ sweeping' = sweeping + 1 /\ UNCHANGED decideFrame
    <3>1. /\ sweeping \in Nat /\ sweeping < Len(file_names) /\ sweeping # NotSweeping
          /\ Len(file_names) \in Nat
          /\ DOMAIN file_to_matches = Range(file_names)
          /\ file_names \in Seq(FileName)
          /\ file_names' = file_names
      <4>1. /\ file_names \in Seq(FileName) /\ DOMAIN file_to_matches = Range(file_names)
            /\ file_names' = file_names
        BY <2>2 DEF IInv, TypeOK, decideFrame
      <4>2. Len(file_names) \in Nat
        BY <4>1, LenProperties
      <4>3. sweeping \in 0..(Len(file_names) - 1)
        BY <1>1 DEF SweepFile
      <4>. QED
        BY <4>1, <4>2, <4>3 DEF NotSweeping
    <3>2. /\ file_to_matches'[file_names[sweeping + 1]] = << >>
          /\ \A file \in DOMAIN file_to_matches :
               file # file_names[sweeping + 1] => file_to_matches'[file] = file_to_matches[file]
      BY <2>2, <3>1, AcceptFileEmpties
    <3>3. ASSUME NEW i \in 1..(sweeping + 1)
          PROVE  file_to_matches'[file_names[i]] = << >>
      <4>1. file_names[i] \in DOMAIN file_to_matches
        BY <3>1, SeqRange
      <4>2. CASE file_names[i] = file_names[sweeping + 1]
        BY <3>2, <4>2
      <4>3. CASE file_names[i] # file_names[sweeping + 1]
        <5>1. i \in 1..sweeping
          BY <3>1, <4>3
        <5>. QED
          BY <3>1, <3>2, <4>1, <4>3, <5>1 DEF SweptEmpty
      <4>. QED
        BY <4>2, <4>3
    <3>. QED
      BY <2>2, <3>1, <3>3
  <2>. QED
    BY <1>1, <2>1, <2>2 DEF SweepFile
<1>2. CASE AcceptAllInAllFiles
  BY <1>2 DEF AcceptAllInAllFiles
<1>3. CASE SweepDone
  BY <1>3 DEF SweepDone
<1>4. CASE /\ UNCHANGED <<file_names, file_to_matches, sweeping>>
  BY <1>4 DEF SweptEmpty
<1>5. CASE Running /\ UNCHANGED sweeping
  BY <1>5 DEF Running
<1>6. SweepFile \/ SweepDone \/ AcceptAllInAllFiles
      \/ UNCHANGED <<file_names, file_to_matches, sweeping>>
      \/ (Running /\ UNCHANGED sweeping)
  <2>1. CASE Search \/ SearchInvalidRegex \/ DismissCommit \/ Commit \/ CommitThrows
    BY <2>1 DEF Search, SearchInvalidRegex, DismissCommit, Commit, CommitThrows, Handling
  <2>2. CASE DeleteDiff \/ RejectAllInFile \/ AcceptAllInFile
             \/ (\E accepted \in BOOLEAN : AddCurrentChange(accepted))
    BY <2>2 DEF DeleteDiff, RejectAllInFile, AcceptAllInFile, AddCurrentChange, Handling,
                DecideThrows, AcceptFileStops, PopulateStops, Stop
  <2>3. CASE RenderFilePicker \/ RenderHistory \/ RenderEmptyHistory \/ RenderSearchInput
    BY <2>3 DEF RenderFilePicker, RenderHistory, RenderEmptyHistory, RenderSearchInput,
                PopulateStops, Stop
  <2>4. CASE SwallowCustom \/ PopAction \/ MoveInFiles \/ ClickInFiles \/ MoveInHistory
             \/ ClickInHistory \/ EditReplacement
    BY <2>4 DEF SwallowCustom, PopAction, MoveInFiles, ClickInFiles, SelectFile, MoveInHistory,
                ClickInHistory, SelectDiff, EditReplacement, Handling, customFrame
  <2>5. CASE \E file \in OutsideFiles : EditOutside(file)
    BY <2>5 DEF EditOutside, pickerVars
  <2>6. CASE Exited \/ UNCHANGED vars \/ Stop("quit") \/ Stop("threw")
    BY <2>6 DEF Exited, Stop, vars, pickerVars
  <2>7. CASE \E i \in Nat : SelectFile(i) \/ SelectDiff(i)
    BY <2>7 DEF SelectFile, SelectDiff, Handling
  <2>. QED
    BY <2>1, <2>2, <2>3, <2>4, <2>5, <2>6, <2>7 DEF Next, LoopStep
<1>. QED
  BY <1>1, <1>2, <1>3, <1>4, <1>5, <1>6

\* When the loop is left, the files it has emptied are all there are.
DecidesAll ==
  sweeping # NotSweeping /\ sweeping' = NotSweeping =>
    \A file \in DOMAIN file_to_matches : file_to_matches'[file] = << >>
LEMMA StepDecidesAll == IInv /\ SweptEmpty /\ [LoopStep]_vars => [DecidesAll]_vars
<1>. SUFFICES ASSUME IInv, SweptEmpty, LoopStep, sweeping # NotSweeping, sweeping' = NotSweeping
              PROVE  \A file \in DOMAIN file_to_matches : file_to_matches'[file] = << >>
  BY DEF DecidesAll
<1>1. SweepDone
  <2>1. ~Running
    BY DEF Running
  <2>2. ~SweepFile
    BY DEF SweepFile, AcceptFileStops, PopulateStops, Stop, NotSweeping, IInv, TypeOK
  <2>3. \A file \in OutsideFiles : ~EditOutside(file)
    BY DEF EditOutside
  <2>4. ~Exited /\ ~Stop("quit") /\ ~Stop("threw")
    BY DEF Exited, Stop, vars
  <2>5. \A i : ~SelectFile(i) /\ ~SelectDiff(i)
    BY <2>1 DEF SelectFile, SelectDiff, Handling
  <2>. QED
    BY <2>1, <2>2, <2>3, <2>4, <2>5
       DEF Next, LoopStep, Search, SearchInvalidRegex, AddCurrentChange, RejectAllInFile,
           AcceptAllInFile, AcceptAllInAllFiles, DeleteDiff, Commit, CommitThrows, DismissCommit,
           RenderFilePicker, RenderHistory, RenderEmptyHistory, RenderSearchInput,
           SwallowCustom, PopAction, MoveInFiles, ClickInFiles, MoveInHistory,
           ClickInHistory, EditReplacement, Handling
<1>2. sweeping = Len(file_names) /\ file_to_matches' = file_to_matches
  BY <1>1 DEF SweepDone
<1>3. DOMAIN file_to_matches = Range(file_names) /\ DOMAIN file_names = 1..Len(file_names)
  BY LenProperties DEF IInv, TypeOK
<1>. QED
  BY <1>2, <1>3 DEF SweptEmpty, Range

\* What the accept-all button promises: when its handler returns, no file has
\* an undecided match, whichever of them were pending when it started.
THEOREM AcceptAllCompletes == Spec => AcceptAllDecidesAll
<1>1. Init => SweptEmpty
  BY DEF Init, SweptEmpty
<1>. QED
  BY <1>1, StepSweptEmpty, StepDecidesAll, NextIsLoopStep, ReviewInvariant, PTL
     DEF Spec, AcceptAllDecidesAll, DecidesAll

-----------------------------------------------------------------------------
(* One file: its pending matches, and those a history decides.             *)

Decided(history, file) == {i \in DOMAIN history : history[i].file_name = file}

OnceIn(pending, history, file, found) ==
  /\ \A i, j \in DOMAIN pending : i # j => ~Overlap(pending[i], pending[j])
  /\ \A i, j \in Decided(history, file) :
       i # j => ~Overlap(history[i].byte_slice, history[j].byte_slice)
  /\ \A i \in DOMAIN pending, j \in Decided(history, file) :
       ~Overlap(pending[i], history[j].byte_slice)
  /\ Len(pending) + Cardinality(Decided(history, file)) = found

\* Two slices overlap whichever is named first.
LEMMA OverlapSym == ASSUME NEW s, NEW t, ~Overlap(s, t) PROVE ~Overlap(t, s)
BY DEF Overlap

\* The decided matches of a file are finitely many.
LEMMA DecidedFinite ==
  ASSUME NEW history \in Seq(TextDiff), NEW file
  PROVE  IsFiniteSet(Decided(history, file)) /\ Cardinality(Decided(history, file)) \in Nat
<1>1. Len(history) \in Nat /\ DOMAIN history = 1..Len(history)
  BY LenProperties
<1>2. IsFiniteSet(1..Len(history))
  BY <1>1, FS_Interval
<1>3. Decided(history, file) \subseteq 1..Len(history)
  BY <1>1 DEF Decided
<1>4. IsFiniteSet(Decided(history, file))
  BY <1>2, <1>3, FS_Subset
<1>. QED
  BY <1>4, FS_CardinalityType

\* What a search reports is in order.
LEMMA OnceAtSearch ==
  ASSUME NEW list \in MatchList, NEW file
  PROVE  OnceIn(list, << >>, file, Len(list))
<1>1. list \in Seq(Slice)
  <2>1. PICK n \in 1..MaxMatches : list \in [1..n -> Slice]
    BY DEF MatchList
  <2>. QED
    BY <2>1, SeqOfLen
<1>2. DOMAIN list = 1..Len(list) /\ Len(list) \in Nat
  BY <1>1, LenProperties
<1>3. ASSUME NEW i \in DOMAIN list, NEW j \in DOMAIN list, i # j
      PROVE  ~Overlap(list[i], list[j])
  <2>1. list[i].start \in Nat /\ list[j].start \in Nat
    <3>1. list[i] \in Slice /\ list[j] \in Slice
      BY <1>1, <1>2, ElementOfSeq
    <3>. QED
      BY <3>1, ReviewAssumption
  <2>2. CASE i < j
    <3>1. list[i].start < list[j].start /\ list[i].end < list[j].start
      BY <2>2 DEF MatchList
    <3>2. list[i] # list[j]
      BY <2>1, <3>1
    <3>. QED
      BY <3>1, <3>2 DEF Overlap
  <2>3. CASE j < i
    <3>1. list[j].start < list[i].start /\ list[j].end < list[i].start
      BY <2>3 DEF MatchList
    <3>2. list[i] # list[j]
      BY <2>1, <3>1
    <3>. QED
      BY <3>1, <3>2 DEF Overlap
  <2>. QED
    BY <1>2, <1>3, <2>2, <2>3
<1>4. Decided(<< >>, file) = {} /\ Cardinality({}) = 0
  BY FS_EmptySet DEF Decided
<1>5. Len(list) + Cardinality(Decided(<< >>, file)) = Len(list)
  <2>. DEFINE count == Cardinality(Decided(<< >>, file))
  <2>1. count = 0
    BY <1>4, Zenon
  <2>. HIDE DEF count
  <2>2. Len(list) + count = Len(list)
    BY <1>2, <2>1
  <2>. QED
    BY <2>2 DEF count
<1>. QED
  BY <1>3, <1>4, <1>5, Zenon DEF OnceIn

-----------------------------------------------------------------------------
(* Deciding: diffs are appended to the history.                            *)

\* What is left of a sequence without its first n elements.
LEMMA RestFacts ==
  ASSUME NEW S, NEW s \in Seq(S), NEW n \in 0..Len(s)
  PROVE  /\ SubSeq(s, n + 1, Len(s)) \in Seq(S)
         /\ Len(SubSeq(s, n + 1, Len(s))) = Len(s) - n
         /\ \A i \in 1..(Len(s) - n) : SubSeq(s, n + 1, Len(s))[i] = s[n + i]
<1>. DEFINE from == n + 1
            to == Len(s)
            rest == SubSeq(s, from, to)
<1>1. to \in Nat /\ n \in Nat /\ n <= to /\ from = n + 1 /\ from \in Nat
  BY LenProperties
<1>2. \A i \in 1..to : s[i] \in S
  BY ElementOfSeq
<1>. HIDE DEF from, to
<1>3. \A i \in from..to : s[i] \in S
  BY <1>1, <1>2
<1>4. /\ rest \in Seq(S)
      /\ Len(rest) = IF from <= to THEN to - from + 1 ELSE 0
      /\ \A i \in 1..(to - from + 1) : rest[i] = s[from + i - 1]
  BY <1>1, <1>3, SubSeqProperties
<1>. HIDE DEF rest
<1>5. Len(rest) = to - n
  BY <1>1, <1>4
<1>6. ASSUME NEW i \in 1..(to - n) PROVE rest[i] = s[n + i]
  <2>1. i \in 1..(to - from + 1) /\ from + i - 1 = n + i
    BY <1>1
  <2>. QED
    BY <1>4, <2>1
<1>. QED
  BY <1>4, <1>5, <1>6 DEF from, to, rest

\* The history with diffs behind it.
LEMMA LongerHistory ==
  ASSUME NEW history \in Seq(TextDiff), NEW more \in Seq(TextDiff)
  PROVE  /\ Len(history) \in Nat /\ Len(more) \in Nat
         /\ DOMAIN history = 1..Len(history)
         /\ history \o more \in Seq(TextDiff)
         /\ DOMAIN (history \o more) = 1..(Len(history) + Len(more))
         /\ \A i \in 1..Len(history) : (history \o more)[i] = history[i]
         /\ \A k \in 1..Len(more) : (history \o more)[Len(history) + k] = more[k]
<1>1. /\ Len(history) \in Nat /\ Len(more) \in Nat
      /\ DOMAIN history = 1..Len(history)
  BY LenProperties
<1>2. /\ history \o more \in Seq(TextDiff)
      /\ Len(history \o more) = Len(history) + Len(more)
      /\ \A i \in 1..(Len(history) + Len(more)) :
           (history \o more)[i] = IF i <= Len(history) THEN history[i]
                                                       ELSE more[i - Len(history)]
  BY ConcatProperties
<1>3. DOMAIN (history \o more) = 1..(Len(history) + Len(more))
  BY <1>2, LenProperties
<1>4. ASSUME NEW i \in 1..Len(history) PROVE (history \o more)[i] = history[i]
  BY <1>1, <1>2
<1>5. ASSUME NEW k \in 1..Len(more) PROVE (history \o more)[Len(history) + k] = more[k]
  <2>1. Len(history) + k \in 1..(Len(history) + Len(more)) /\ ~(Len(history) + k <= Len(history))
        /\ (Len(history) + k) - Len(history) = k
    BY <1>1
  <2>. QED
    BY <2>1, <1>2
<1>. QED
  BY <1>1, <1>2, <1>3, <1>4, <1>5

\* The file the diffs are of: its first matches move into the history.
LEMMA OnceDecided ==
  ASSUME NEW pending \in Seq(Slice), NEW history \in Seq(TextDiff), NEW file, NEW found,
         NEW n \in 0..Len(pending), NEW more \in Seq(TextDiff), Len(more) = n,
         \A k \in 1..n : more[k].byte_slice = pending[k] /\ more[k].file_name = file,
         OnceIn(pending, history, file, found)
  PROVE  OnceIn(SubSeq(pending, n + 1, Len(pending)), history \o more, file, found)
<1>. DEFINE rest == SubSeq(pending, n + 1, Len(pending))
            longer == history \o more
            L == Len(history)
<1>1. Len(pending) \in Nat /\ DOMAIN pending = 1..Len(pending) /\ n \in Nat /\ n <= Len(pending)
  BY LenProperties
<1>2. /\ rest \in Seq(Slice) /\ Len(rest) = Len(pending) - n
      /\ \A i \in 1..(Len(pending) - n) : rest[i] = pending[n + i]
  BY RestFacts
<1>3. DOMAIN rest = 1..(Len(pending) - n)
  BY <1>2, LenProperties
<1>4. /\ L \in Nat /\ DOMAIN history = 1..L
      /\ DOMAIN longer = 1..(L + n)
      /\ \A i \in 1..L : longer[i] = history[i]
      /\ \A k \in 1..n : longer[L + k] = more[k]
  BY LongerHistory
<1>. HIDE DEF rest, longer, L
<1>5. ASSUME NEW i \in Decided(longer, file)
      PROVE  \/ i \in Decided(history, file) /\ longer[i] = history[i] /\ i <= L
             \/ \E k \in 1..n : i = L + k /\ longer[i].byte_slice = pending[k]
  <2>1. i \in 1..(L + n) /\ longer[i].file_name = file
    BY <1>4 DEF Decided
  <2>2. CASE i <= L
    BY <1>4, <2>1, <2>2 DEF Decided
  <2>3. CASE ~(i <= L)
    <3>1. PICK k \in 1..n : i = L + k
      <4>1. i - L \in 1..n /\ i = L + (i - L)
        BY <1>1, <1>4, <2>1, <2>3
      <4>. QED
        BY <4>1
    <3>2. longer[i] = more[k]
      BY <1>4, <3>1
    <3>3. longer[i].byte_slice = pending[k]
      BY <3>2
    <3>. QED
      BY <3>1, <3>3
  <2>. QED
    BY <2>2, <2>3
<1>6. Decided(longer, file) = Decided(history, file) \cup (L + 1)..(L + n)
  <2>1. ASSUME NEW i \in Decided(history, file) PROVE i \in Decided(longer, file)
    BY <1>1, <1>4 DEF Decided
  <2>2. ASSUME NEW i \in (L + 1)..(L + n) PROVE i \in Decided(longer, file)
    <3>1. i - L \in 1..n /\ i = L + (i - L) /\ i \in 1..(L + n)
      BY <1>1, <1>4
    <3>2. longer[i] = more[i - L]
      BY <1>4, <3>1
    <3>. QED
      BY <1>4, <3>1, <3>2 DEF Decided
  <2>3. ASSUME NEW i \in Decided(longer, file)
        PROVE  i \in Decided(history, file) \cup (L + 1)..(L + n)
    BY <1>1, <1>4, <1>5
  <2>. QED
    BY <2>1, <2>2, <2>3
<1>7. Cardinality(Decided(longer, file)) = Cardinality(Decided(history, file)) + n
  <2>1. IsFiniteSet(Decided(history, file)) /\ Cardinality(Decided(history, file)) \in Nat
    BY DecidedFinite
  <2>2. IsFiniteSet((L + 1)..(L + n)) /\ Cardinality((L + 1)..(L + n)) = n
    <3>1. L + 1 \in Int /\ L + n \in Int
      BY <1>1, <1>4
    <3>2. /\ IsFiniteSet((L + 1)..(L + n))
          /\ Cardinality((L + 1)..(L + n)) =
               IF L + 1 > L + n THEN 0 ELSE (L + n) - (L + 1) + 1
      BY <3>1, FS_Interval
    <3>3. CASE n = 0
      <4>1. L + 1 > L + n
        BY <1>4, <3>3
      <4>. QED
        BY <3>2, <3>3, <4>1
    <3>4. CASE n # 0
      <4>1. ~(L + 1 > L + n) /\ (L + n) - (L + 1) + 1 = n
        BY <1>1, <1>4, <3>4
      <4>. QED
        BY <3>2, <4>1
    <3>. QED
      BY <3>3, <3>4
  <2>3. Decided(history, file) \cap ((L + 1)..(L + n)) = {}
    <3>1. \A i \in Decided(history, file) : i \in 1..L
      BY <1>4 DEF Decided
    <3>. QED
      BY <1>1, <1>4, <3>1
  <2>4. Cardinality(Decided(history, file) \cup ((L + 1)..(L + n)))
          = Cardinality(Decided(history, file)) + Cardinality((L + 1)..(L + n))
            - Cardinality(Decided(history, file) \cap ((L + 1)..(L + n)))
    BY <2>1, <2>2, FS_Union
  <2>5. Cardinality({}) = 0
    BY FS_EmptySet
  <2>. DEFINE before == Cardinality(Decided(history, file))
  <2>6. Cardinality(Decided(longer, file)) = before + n - 0
    BY <1>6, <2>2, <2>3, <2>4, <2>5
  <2>7. before \in Nat
    BY <2>1
  <2>. HIDE DEF before
  <2>8. before + n - 0 = before + n
    BY <1>1, <2>7
  <2>. QED
    BY <2>6, <2>8 DEF before
<1>8. ASSUME NEW i \in DOMAIN rest, NEW j \in DOMAIN rest, i # j
      PROVE  ~Overlap(rest[i], rest[j])
  <2>1. n + i \in DOMAIN pending /\ n + j \in DOMAIN pending /\ n + i # n + j
    BY <1>1, <1>3, <1>8
  <2>2. rest[i] = pending[n + i] /\ rest[j] = pending[n + j]
    BY <1>2, <1>3
  <2>. QED
    BY <2>1, <2>2 DEF OnceIn
<1>9. ASSUME NEW i \in DOMAIN rest, NEW j \in Decided(longer, file)
      PROVE  ~Overlap(rest[i], longer[j].byte_slice)
  <2>1. n + i \in DOMAIN pending /\ rest[i] = pending[n + i]
    BY <1>1, <1>2, <1>3
  <2>2. CASE j \in Decided(history, file) /\ longer[j] = history[j]
    BY <2>1, <2>2 DEF OnceIn
  <2>3. ASSUME NEW k \in 1..n, longer[j].byte_slice = pending[k]
        PROVE  ~Overlap(rest[i], longer[j].byte_slice)
    <3>1. k \in DOMAIN pending /\ n + i # k
      BY <1>1, <1>3
    <3>. QED
      BY <2>1, <2>3, <3>1 DEF OnceIn
  <2>. QED
    BY <1>5, <2>2, <2>3
<1>10. ASSUME NEW i \in Decided(longer, file), NEW j \in Decided(longer, file), i # j
       PROVE  ~Overlap(longer[i].byte_slice, longer[j].byte_slice)
  <2>1. \A k \in 1..n : k \in DOMAIN pending
    BY <1>1
  <2>2. CASE i \in Decided(history, file) /\ longer[i] = history[i]
    <3>1. CASE j \in Decided(history, file) /\ longer[j] = history[j]
      BY <1>10, <2>2, <3>1 DEF OnceIn
    <3>2. ASSUME NEW k \in 1..n, longer[j].byte_slice = pending[k]
          PROVE  ~Overlap(longer[i].byte_slice, longer[j].byte_slice)
      <4>1. ~Overlap(pending[k], history[i].byte_slice)
        BY <2>1, <2>2 DEF OnceIn
      <4>. QED
        BY <2>2, <3>2, <4>1, OverlapSym
    <3>. QED
      BY <1>5, <3>1, <3>2
  <2>3. ASSUME NEW k \in 1..n, i = L + k, longer[i].byte_slice = pending[k]
        PROVE  ~Overlap(longer[i].byte_slice, longer[j].byte_slice)
    <3>1. CASE j \in Decided(history, file) /\ longer[j] = history[j]
      BY <2>1, <2>3, <3>1 DEF OnceIn
    <3>2. ASSUME NEW m \in 1..n, j = L + m, longer[j].byte_slice = pending[m]
          PROVE  ~Overlap(longer[i].byte_slice, longer[j].byte_slice)
      <4>1. k # m
        BY <1>10, <2>3, <3>2
      <4>. QED
        BY <2>1, <2>3, <3>2, <4>1 DEF OnceIn
    <3>. QED
      BY <1>5, <3>1, <3>2
  <2>. QED
    BY <1>5, <2>2, <2>3
<1>11. Len(rest) + Cardinality(Decided(longer, file)) = found
  <2>1. Len(pending) + Cardinality(Decided(history, file)) = found
    BY DEF OnceIn
  <2>2. Cardinality(Decided(history, file)) \in Nat
    BY DecidedFinite
  <2>. QED
    BY <1>1, <1>2, <1>7, <2>1, <2>2
<1>12. OnceIn(rest, longer, file, found)
  BY <1>8, <1>9, <1>10, <1>11 DEF OnceIn
<1>. QED
  BY <1>12 DEF rest, longer

\* Any other file: nothing of it changes.
LEMMA OnceOtherDecided ==
  ASSUME NEW pending \in Seq(Slice), NEW history \in Seq(TextDiff), NEW file, NEW found,
         NEW more \in Seq(TextDiff), \A k \in 1..Len(more) : more[k].file_name # file,
         OnceIn(pending, history, file, found)
  PROVE  OnceIn(pending, history \o more, file, found)
<1>. DEFINE longer == history \o more
            L == Len(history)
            n == Len(more)
<1>1. /\ L \in Nat /\ n \in Nat /\ DOMAIN history = 1..L
      /\ DOMAIN longer = 1..(L + n)
      /\ \A i \in 1..L : longer[i] = history[i]
      /\ \A k \in 1..n : longer[L + k] = more[k]
  BY LongerHistory
<1>. HIDE DEF longer, L
<1>2. ASSUME NEW i \in Decided(longer, file) PROVE i \in Decided(history, file)
  <2>1. i \in 1..(L + n) /\ longer[i].file_name = file
    BY <1>1 DEF Decided
  <2>2. i <= L
    <3>1. SUFFICES ASSUME ~(i <= L) PROVE FALSE
      OBVIOUS
    <3>2. i - L \in 1..n /\ i = L + (i - L)
      BY <1>1, <2>1, <3>1
    <3>3. longer[i] = more[i - L]
      BY <1>1, <3>2
    <3>. QED
      BY <2>1, <3>2, <3>3
  <2>. QED
    BY <1>1, <2>1, <2>2 DEF Decided
<1>3. \A i \in Decided(history, file) : i \in Decided(longer, file) /\ longer[i] = history[i]
  BY <1>1 DEF Decided
<1>4. Decided(longer, file) = Decided(history, file)
  BY <1>2, <1>3
<1>5. OnceIn(pending, longer, file, found)
  BY <1>3, <1>4 DEF OnceIn
<1>. QED
  BY <1>5 DEF longer

-----------------------------------------------------------------------------
(* Deleting a diff: the ones behind it move up.                            *)

\* Where the diffs of the shorter history were before.
LEMMA ShorterHistory ==
  ASSUME NEW history \in Seq(TextDiff), NEW at \in 1..Len(history), NEW file
  PROVE  \E was \in Bijection(Decided(RemoveAt(history, at), file),
                              Decided(history, file) \ {at}) :
           \A i \in Decided(RemoveAt(history, at), file) :
             RemoveAt(history, at)[i] = history[was[i]]
<1>. DEFINE shorter == RemoveAt(history, at)
            L == Len(history)
            from == Decided(shorter, file)
            to == Decided(history, file) \ {at}
            was == [i \in from |-> IF i < at THEN i ELSE i + 1]
<1>1. /\ L \in Nat /\ DOMAIN history = 1..L /\ at \in 1..L
      /\ shorter \in Seq(TextDiff) /\ Len(shorter) = L - 1
      /\ \A j \in 1..(L - 1) : shorter[j] = IF j < at THEN history[j] ELSE history[j + 1]
  BY RemoveAtFacts, LenProperties
<1>2. DOMAIN shorter = 1..(L - 1)
  BY <1>1, LenProperties
<1>. HIDE DEF shorter, L
<1>3. from \subseteq 1..(L - 1)
  BY <1>2 DEF Decided
<1>4. ASSUME NEW i \in from
      PROVE  /\ was[i] = (IF i < at THEN i ELSE i + 1)
             /\ was[i] \in to
             /\ shorter[i] = history[was[i]]
  <2>1. i \in 1..(L - 1) /\ was[i] = (IF i < at THEN i ELSE i + 1)
    BY <1>3
  <2>2. shorter[i] = history[was[i]]
    BY <1>1, <2>1
  <2>3. was[i] \in 1..L /\ was[i] # at
    BY <1>1, <2>1
  <2>4. history[was[i]].file_name = file
    BY <2>2 DEF Decided
  <2>. QED
    BY <1>1, <2>1, <2>2, <2>3, <2>4 DEF Decided
<1>5. was \in [from -> to]
  BY <1>4
<1>. HIDE DEF was
<1>6. ASSUME NEW i \in from, NEW j \in from, was[i] = was[j] PROVE i = j
  <2>1. i \in 1..(L - 1) /\ j \in 1..(L - 1)
    BY <1>3
  <2>2. was[i] = (IF i < at THEN i ELSE i + 1) /\ was[j] = (IF j < at THEN j ELSE j + 1)
    BY <1>4
  <2>3. (IF i < at THEN i ELSE i + 1) = (IF j < at THEN j ELSE j + 1)
    BY <1>6, <2>2
  <2>. QED
    BY <1>1, <2>1, <2>3
<1>7. ASSUME NEW t \in to PROVE \E i \in from : was[i] = t
  <2>1. t \in 1..L /\ t # at /\ history[t].file_name = file
    BY <1>1 DEF Decided
  <2>2. CASE t < at
    <3>1. t \in 1..(L - 1)
      BY <1>1, <2>1, <2>2
    <3>2. t \in from
      BY <1>1, <1>2, <2>1, <2>2, <3>1 DEF Decided
    <3>. QED
      BY <1>4, <2>2, <3>2
  <2>3. CASE ~(t < at)
    <3>1. t - 1 \in 1..(L - 1) /\ ~(t - 1 < at) /\ (t - 1) + 1 = t
      BY <1>1, <2>1, <2>3
    <3>2. shorter[t - 1] = history[t]
      BY <1>1, <3>1
    <3>3. t - 1 \in from
      BY <1>2, <2>1, <3>1, <3>2 DEF Decided
    <3>4. was[t - 1] = t
      BY <1>4, <3>1, <3>3
    <3>. QED
      BY <3>3, <3>4
  <2>. QED
    BY <2>2, <2>3
<1>8. DOMAIN was = from
  BY <1>5
<1>. HIDE DEF from, to
<1>9. was \in Bijection(from, to)
  BY <1>5, <1>6, <1>7, <1>8 DEF Bijection, Injection, Surjection, IsInjective
<1>. QED
  BY <1>4, <1>9 DEF from, to, shorter

\* What a bijection of ShorterHistory gives.
LEMMA ShorterFacts ==
  ASSUME NEW history \in Seq(TextDiff), NEW at \in 1..Len(history), NEW file,
         NEW was \in Bijection(Decided(RemoveAt(history, at), file),
                               Decided(history, file) \ {at})
  PROVE  /\ \A i \in Decided(RemoveAt(history, at), file) :
              was[i] \in Decided(history, file) /\ was[i] # at
         /\ \A i, j \in Decided(RemoveAt(history, at), file) : i # j => was[i] # was[j]
         /\ Cardinality(Decided(RemoveAt(history, at), file)) =
              IF at \in Decided(history, file) THEN Cardinality(Decided(history, file)) - 1
                                               ELSE Cardinality(Decided(history, file))
<1>. DEFINE from == Decided(RemoveAt(history, at), file)
            all == Decided(history, file)
<1>1. RemoveAt(history, at) \in Seq(TextDiff)
  BY RemoveAtFacts
<1>2. IsFiniteSet(from) /\ IsFiniteSet(all)
  BY <1>1, DecidedFinite
<1>. HIDE DEF from, all
<1>3. was \in Bijection(from, all \ {at})
  BY DEF from, all
<1>4. /\ \A i \in from : was[i] \in all /\ was[i] # at
      /\ \A i, j \in from : i # j => was[i] # was[j]
  BY <1>3 DEF Bijection, Injection, IsInjective
<1>5. Cardinality(all \ {at}) = Cardinality(from)
  BY <1>2, <1>3, FS_Bijection DEF ExistsBijection
<1>6. Cardinality(all \ {at}) = IF at \in all THEN Cardinality(all) - 1 ELSE Cardinality(all)
  BY <1>2, FS_RemoveElement
<1>. QED
  BY <1>4, <1>5, <1>6 DEF from, all

\* The file the diff is of: its match goes back.
LEMMA OnceDeleted ==
  ASSUME NEW pending \in Seq(Slice), NEW history \in Seq(TextDiff), NEW file, NEW found,
         NEW at \in Decided(history, file), OnceIn(pending, history, file, found)
  PROVE  OnceIn(Append(pending, history[at].byte_slice), RemoveAt(history, at), file, found)
<1>. DEFINE slice == history[at].byte_slice
            more == Append(pending, slice)
            shorter == RemoveAt(history, at)
            n == Len(pending)
<1>1. at \in 1..Len(history) /\ slice \in Slice
  <2>1. at \in 1..Len(history)
    BY LenProperties DEF Decided
  <2>2. history[at] \in TextDiff
    BY <2>1, ElementOfSeq
  <2>. QED
    BY <2>1, <2>2 DEF TextDiff
<1>2. PICK was \in Bijection(Decided(shorter, file), Decided(history, file) \ {at}) :
        \A i \in Decided(shorter, file) : shorter[i] = history[was[i]]
  BY <1>1, ShorterHistory
<1>3. /\ \A i \in Decided(shorter, file) : was[i] \in Decided(history, file) /\ was[i] # at
      /\ \A i, j \in Decided(shorter, file) : i # j => was[i] # was[j]
      /\ Cardinality(Decided(shorter, file)) = Cardinality(Decided(history, file)) - 1
  BY <1>1, <1>2, ShorterFacts
<1>4. /\ n \in Nat /\ DOMAIN pending = 1..n
      /\ more \in Seq(Slice) /\ Len(more) = n + 1
      /\ \A i \in 1..n : more[i] = pending[i]
      /\ more[n + 1] = slice
  BY <1>1, AppendProperties, LenProperties
<1>5. DOMAIN more = 1..(n + 1)
  BY <1>4, LenProperties
<1>. HIDE DEF more, shorter, slice, n
<1>6. ASSUME NEW i \in DOMAIN more
      PROVE  \/ i \in DOMAIN pending /\ more[i] = pending[i]
             \/ i = n + 1 /\ more[i] = slice
  BY <1>4, <1>5
<1>7. ASSUME NEW i \in DOMAIN more, NEW j \in DOMAIN more, i # j
      PROVE  ~Overlap(more[i], more[j])
  <2>1. \A k \in DOMAIN pending : ~Overlap(pending[k], slice) /\ ~Overlap(slice, pending[k])
    BY OverlapSym DEF OnceIn, slice
  <2>. QED
    BY <1>6, <1>7, <2>1 DEF OnceIn
<1>8. ASSUME NEW i \in Decided(shorter, file), NEW j \in Decided(shorter, file), i # j
      PROVE  ~Overlap(shorter[i].byte_slice, shorter[j].byte_slice)
  BY <1>2, <1>3, <1>8 DEF OnceIn
<1>9. ASSUME NEW i \in DOMAIN more, NEW j \in Decided(shorter, file)
      PROVE  ~Overlap(more[i], shorter[j].byte_slice)
  <2>1. /\ was[j] \in Decided(history, file) /\ was[j] # at
        /\ shorter[j].byte_slice = history[was[j]].byte_slice
    BY <1>2, <1>3
  <2>2. ~Overlap(slice, history[was[j]].byte_slice)
    BY <2>1 DEF OnceIn, slice
  <2>. QED
    BY <1>6, <2>1, <2>2 DEF OnceIn
<1>10. Len(more) + Cardinality(Decided(shorter, file)) = found
  <2>1. Len(pending) + Cardinality(Decided(history, file)) = found
    BY DEF OnceIn
  <2>2. Cardinality(Decided(history, file)) \in Nat
    BY DecidedFinite
  <2>. DEFINE before == Cardinality(Decided(history, file))
              after == Cardinality(Decided(shorter, file))
  <2>3. n + before = found /\ before \in Nat /\ after = before - 1
    BY <1>3, <2>1, <2>2 DEF n
  <2>. HIDE DEF before, after
  <2>4. Len(more) + after = found
    BY <1>4, <2>3
  <2>. QED
    BY <2>4 DEF after
<1>11. OnceIn(more, shorter, file, found)
  BY <1>7, <1>8, <1>9, <1>10 DEF OnceIn
<1>. QED
  BY <1>11 DEF more, shorter, slice

\* Any other file: its diffs move, and are the same.
LEMMA OnceOtherDeleted ==
  ASSUME NEW pending \in Seq(Slice), NEW history \in Seq(TextDiff), NEW file, NEW found,
         NEW at \in 1..Len(history), history[at].file_name # file,
         OnceIn(pending, history, file, found)
  PROVE  OnceIn(pending, RemoveAt(history, at), file, found)
<1>. DEFINE shorter == RemoveAt(history, at)
<1>1. at \notin Decided(history, file)
  BY DEF Decided
<1>2. PICK was \in Bijection(Decided(shorter, file), Decided(history, file) \ {at}) :
        \A i \in Decided(shorter, file) : shorter[i] = history[was[i]]
  BY ShorterHistory
<1>3. /\ \A i \in Decided(shorter, file) : was[i] \in Decided(history, file)
      /\ \A i, j \in Decided(shorter, file) : i # j => was[i] # was[j]
      /\ Cardinality(Decided(shorter, file)) = Cardinality(Decided(history, file))
  BY <1>1, <1>2, ShorterFacts
<1>. HIDE DEF shorter
<1>4. \A i, j \in Decided(shorter, file) :
        i # j => ~Overlap(shorter[i].byte_slice, shorter[j].byte_slice)
  BY <1>2, <1>3 DEF OnceIn
<1>5. \A i \in DOMAIN pending, j \in Decided(shorter, file) :
        ~Overlap(pending[i], shorter[j].byte_slice)
  BY <1>2, <1>3 DEF OnceIn
<1>6. OnceIn(pending, shorter, file, found)
  BY <1>3, <1>4, <1>5 DEF OnceIn
<1>. QED
  BY <1>6 DEF shorter

-----------------------------------------------------------------------------
(* The steps of Review.                                                    *)

\* The invariant, file by file, before a step and after it.
LEMMA ByFile ==
  EveryMatchOnce <=>
    \A n \in DOMAIN file_names :
      OnceIn(file_to_matches[file_names[n]], diffs, file_names[n], file_to_num_matches_found[n])
BY DEF EveryMatchOnce, OnceIn, Decided, DecidedIn

LEMMA ByFileAfter ==
  EveryMatchOnce' <=>
    \A n \in DOMAIN file_names' :
      OnceIn(file_to_matches'[file_names'[n]], diffs', file_names'[n],
             file_to_num_matches_found'[n])
BY DEF EveryMatchOnce, OnceIn, Decided, DecidedIn

\* Each line of the file picker names a file that has a list of matches.
LEMMA NamedFile ==
  ASSUME IInv, NEW n \in DOMAIN file_names
  PROVE  /\ file_names[n] \in DOMAIN file_to_matches
         /\ file_to_matches[file_names[n]] \in Seq(Slice)
<1>1. n \in 1..Len(file_names) /\ file_names \in Seq(FileName)
  BY LenProperties DEF IInv, TypeOK
<1>2. file_names[n] \in Range(file_names)
  BY <1>1, SeqRange
<1>. QED
  BY <1>2 DEF IInv, TypeOK

\* A search, and the commit's dismissal, start over with an empty history.
LEMMA StartOverOnce ==
  ASSUME NEW names \in Seq(FileName), NEW lists \in [Range(names) -> MatchList],
         FillFilePicker(names, lists), diffs' = << >>
  PROVE  EveryMatchOnce'
<1>1. /\ file_names' = names /\ file_to_matches' = lists
      /\ file_to_num_matches_found' = [i \in DOMAIN names |-> Len(lists[names[i]])]
  BY DEF FillFilePicker
<1>2. ASSUME NEW n \in DOMAIN names
      PROVE  OnceIn(lists[names[n]], << >>, names[n], Len(lists[names[n]]))
  <2>1. n \in 1..Len(names)
    BY LenProperties
  <2>2. lists[names[n]] \in MatchList
    BY <2>1, SeqRange
  <2>. QED
    BY <2>2, OnceAtSearch
<1>. QED
  BY <1>1, <1>2, ByFileAfter

\* Deciding the first matches of a file, one, some or all of them.
LEMMA DecideOnce ==
  ASSUME IInv, EveryMatchOnce, NEW index \in Nat, index < Len(file_names),
         NEW accepted \in BOOLEAN, NEW n \in 0..Len(Pending(index)),
         DecideFirst(n, accepted, index),
         UNCHANGED <<file_names, file_to_num_matches_found>>
  PROVE  EveryMatchOnce'
<1>. DEFINE name == file_names[index + 1]
            pending == Pending(index)
            more == [k \in 1..n |-> Decision(accepted, index, pending[k])]
<1>1. /\ name \in DOMAIN file_to_matches /\ name \in FileName
      /\ pending = file_to_matches[name]
      /\ pending \in Seq(Slice) /\ Len(pending) \in Nat
      /\ n \in Nat /\ n <= Len(pending)
  <2>1. /\ name \in FileName /\ name \in Range(file_names)
        /\ Pending(index) \in Seq(Slice) /\ Len(Pending(index)) \in Nat
    BY FileAt DEF IInv
  <2>2. name \in DOMAIN file_to_matches
    BY <2>1 DEF IInv, TypeOK
  <2>3. n \in Nat /\ n <= Len(Pending(index))
    BY <2>1
  <2>. QED
    BY <2>1, <2>2, <2>3 DEF Pending
<1>2. \A k \in 1..n : pending[k] \in Slice
  BY <1>1, ElementOfSeq
<1>3. more \in [1..n -> TextDiff]
  BY <1>1, <1>2 DEF Decision, TextDiff, IInv, TypeOK
<1>4. more \in Seq(TextDiff) /\ Len(more) = n
  BY <1>1, <1>3, SeqOfLen
<1>5. \A k \in 1..n : more[k].byte_slice = pending[k] /\ more[k].file_name = name
  BY DEF Decision
<1>6. /\ diffs' = diffs \o more
      /\ file_to_matches' = [file_to_matches EXCEPT ![name] = SubSeq(@, n + 1, Len(@))]
  BY DEF DecideFirst
<1>7. diffs \in Seq(TextDiff)
  BY DEF IInv, TypeOK
<1>. HIDE DEF more, name, pending
<1>9. n \in 0..Len(pending)
  BY <1>1
<1>8. ASSUME NEW m \in DOMAIN file_names
      PROVE  OnceIn(file_to_matches'[file_names[m]], diffs \o more, file_names[m],
                    file_to_num_matches_found[m])
  <2>1. /\ OnceIn(file_to_matches[file_names[m]], diffs, file_names[m],
                  file_to_num_matches_found[m])
        /\ file_names[m] \in DOMAIN file_to_matches
        /\ file_to_matches[file_names[m]] \in Seq(Slice)
    BY ByFile, NamedFile
  <2>2. CASE file_names[m] = name
    <3>1. file_to_matches'[file_names[m]] = SubSeq(pending, n + 1, Len(pending))
      BY <1>1, <1>6, <2>2
    <3>2. OnceIn(pending, diffs, name, file_to_num_matches_found[m])
      BY <1>1, <2>1, <2>2
    <3>3. OnceIn(SubSeq(pending, n + 1, Len(pending)), diffs \o more, name,
                 file_to_num_matches_found[m])
      BY <1>1, <1>4, <1>5, <1>7, <1>9, <3>2, OnceDecided, Zenon
    <3>. QED
      BY <2>2, <3>1, <3>3
  <2>3. CASE file_names[m] # name
    <3>1. file_to_matches'[file_names[m]] = file_to_matches[file_names[m]]
      BY <1>6, <2>1, <2>3
    <3>2. \A k \in 1..Len(more) : more[k].file_name # file_names[m]
      BY <1>4, <1>5, <2>3
    <3>3. OnceIn(file_to_matches[file_names[m]], diffs \o more, file_names[m],
                 file_to_num_matches_found[m])
      BY <1>4, <1>7, <2>1, <3>2, OnceOtherDecided
    <3>. QED
      BY <3>1, <3>3
  <2>. QED
    BY <2>2, <2>3
<1>. QED
  BY <1>6, <1>8, ByFileAfter

\* Taking a decision back.
LEMMA DeleteOnce ==
  ASSUME IInv, EveryMatchOnce, DeleteDiff
  PROVE  EveryMatchOnce'
<1>. DEFINE at == selected_diff + 1
            name == diffs[at].file_name
            slice == diffs[at].byte_slice
<1>1. /\ UNCHANGED <<file_names, file_to_num_matches_found>>
      /\ diffs' = RemoveAt(diffs, at)
      /\ file_to_matches' = [file_to_matches EXCEPT ![name] = Append(@, slice)]
  BY DEF DeleteDiff
<1>2. diffs \in Seq(TextDiff) /\ Len(diffs) \in Nat /\ DOMAIN diffs = 1..Len(diffs)
  BY LenProperties DEF IInv, TypeOK
<1>3. at \in 1..Len(diffs)
  BY <1>2 DEF DeleteDiff, is_current_diff_valid, IInv, TypeOK
<1>. HIDE DEF at
<1>4. at \in Decided(diffs, name)
  BY <1>2, <1>3 DEF Decided
<1>. HIDE DEF name, slice
<1>5. ASSUME NEW m \in DOMAIN file_names
      PROVE  OnceIn(file_to_matches'[file_names[m]], RemoveAt(diffs, at), file_names[m],
                    file_to_num_matches_found[m])
  <2>1. /\ OnceIn(file_to_matches[file_names[m]], diffs, file_names[m],
                  file_to_num_matches_found[m])
        /\ file_names[m] \in DOMAIN file_to_matches
        /\ file_to_matches[file_names[m]] \in Seq(Slice)
    BY ByFile, NamedFile
  <2>2. CASE file_names[m] = name
    <3>1. file_to_matches'[file_names[m]] = Append(file_to_matches[file_names[m]], slice)
      BY <1>1, <2>1, <2>2
    <3>2. OnceIn(Append(file_to_matches[file_names[m]], slice), RemoveAt(diffs, at),
                 file_names[m], file_to_num_matches_found[m])
      BY <1>2, <1>4, <2>1, <2>2, OnceDeleted DEF slice
    <3>. QED
      BY <3>1, <3>2
  <2>3. CASE file_names[m] # name
    <3>1. file_to_matches'[file_names[m]] = file_to_matches[file_names[m]]
      BY <1>1, <2>1, <2>3
    <3>2. OnceIn(file_to_matches[file_names[m]], RemoveAt(diffs, at), file_names[m],
                 file_to_num_matches_found[m])
      BY <1>2, <1>3, <2>1, <2>3, OnceOtherDeleted DEF name
    <3>. QED
      BY <3>1, <3>2
  <2>. QED
    BY <2>2, <2>3
<1>. QED
  BY <1>1, <1>5, ByFileAfter

\* A step that changes neither the picker's tables nor the history.
LEMMA SameOnce ==
  ASSUME EveryMatchOnce,
         UNCHANGED <<file_names, file_to_matches, file_to_num_matches_found, diffs>>
  PROVE  EveryMatchOnce'
BY ByFile, ByFileAfter

\* Every step keeps the invariant.
LEMMA StepMatchOnce == IInv /\ EveryMatchOnce /\ [LoopStep]_vars => EveryMatchOnce'
<1>. SUFFICES ASSUME IInv, EveryMatchOnce, [LoopStep]_vars PROVE EveryMatchOnce'
  OBVIOUS
<1>1. CASE StartsOver
  BY <1>1, StartOverOnce DEF StartsOver, ResetBeforeSearch
<1>2. CASE Decides
  BY <1>2, DecideOnce DEF Decides
<1>3. CASE DeleteDiff
  BY <1>3, DeleteOnce
<1>4. CASE Commit \/ CommitThrows
  BY <1>4, SameOnce DEF Commit, CommitThrows, pickerVars, historyVars
<1>5. CASE MatchesStay
  BY <1>5, SameOnce DEF MatchesStay, matchVars
<1>. QED
  BY <1>1, <1>2, <1>3, <1>4, <1>5, MatchSteps

-----------------------------------------------------------------------------
\* No match is lost and none is decided twice, whatever is searched, decided,
\* decided in bulk, taken back and committed, in whatever order: for each file
\* the pending and the decided slices do not overlap and add up to what the
\* search found, which get_num_matches_processed_for_curr_file asserts.
THEOREM MatchesStayOnce == Spec => []EveryMatchOnce
<1>1. Init => EveryMatchOnce
  BY DEF Init, EveryMatchOnce
<1>. QED
  BY <1>1, StepMatchOnce, NextIsLoopStep, ReviewInvariant, PTL DEF Spec

-----------------------------------------------------------------------------
(* Histories, and the decisions they record.                               *)

\* No match is decided by two diffs.
Distinct(history) ==
  \A i, j \in DOMAIN history : MatchOf(history[i]) = MatchOf(history[j]) => i = j

\* The decision on a match is what its diff says.
LEMMA DecisionAt ==
  ASSUME NEW history, Distinct(history), NEW i \in DOMAIN history
  PROVE  /\ MatchOf(history[i]) \in DOMAIN DecisionOf(history)
         /\ DecisionOf(history)[MatchOf(history[i])] = WayOf(history[i])
<1>. DEFINE m == MatchOf(history[i])
            at == CHOOSE j \in DOMAIN history : MatchOf(history[j]) = m
<1>1. m \in DecidedMatches(history)
  BY DEF DecidedMatches
<1>2. at \in DOMAIN history /\ MatchOf(history[at]) = m
  OBVIOUS
<1>3. at = i
  BY <1>2 DEF Distinct
<1>4. DecisionOf(history)[m] = WayOf(DiffOf(history, m))
  BY <1>1 DEF DecisionOf
<1>5. DiffOf(history, m) = history[i]
  BY <1>3 DEF DiffOf
<1>. QED
  BY <1>1, <1>4, <1>5 DEF DecisionOf

\* What a user's step does to the decisions and to the lists of matches.
WithDecided(history, more, way) ==
  [m \in DecidedMatches(history) \cup DecidedMatches(more) |->
     IF m \in DecidedMatches(more) THEN way ELSE DecisionOf(history)[m]]
WithoutFirst(lists, name, n) == [lists EXCEPT ![name] = SubSeq(@, n + 1, Len(@))]
WithBack(lists, name, slice) == [lists EXCEPT ![name] = Append(@, slice)]

\* Diffs behind the history decide their matches and leave the others.
LEMMA DecideDecision ==
  ASSUME NEW history \in Seq(TextDiff), NEW more \in Seq(TextDiff),
         Distinct(history \o more), NEW way,
         \A k \in 1..Len(more) : WayOf(more[k]) = way
  PROVE  /\ DecidedMatches(history \o more) = DecidedMatches(history) \cup DecidedMatches(more)
         /\ DecidedMatches(history) \cap DecidedMatches(more) = {}
         /\ DecisionOf(history \o more) = WithDecided(history, more, way)
<1>. DEFINE longer == history \o more
            L == Len(history)
            n == Len(more)
            old == DecidedMatches(history)
            new == DecidedMatches(more)
<1>1. /\ L \in Nat /\ n \in Nat /\ DOMAIN history = 1..L /\ DOMAIN more = 1..n
      /\ DOMAIN longer = 1..(L + n)
      /\ \A i \in 1..L : longer[i] = history[i]
      /\ \A k \in 1..n : longer[L + k] = more[k]
  BY LongerHistory, LenProperties
<1>2. Distinct(longer)
  OBVIOUS
<1>. HIDE DEF longer, L, n
<1>3. ASSUME NEW i \in 1..(L + n)
      PROVE  i \in 1..L \/ \E k \in 1..n : i = L + k
  <2>1. CASE ~(i <= L)
    <3>1. i - L \in 1..n /\ i = L + (i - L)
      BY <1>1, <2>1
    <3>. QED
      BY <3>1
  <2>2. CASE i <= L
    BY <1>1, <2>2
  <2>. QED
    BY <2>1, <2>2
<1>4. ASSUME NEW m \in old
      PROVE  \E i \in 1..L : i \in DOMAIN longer /\ m = MatchOf(longer[i]) /\ longer[i] = history[i]
  <2>1. PICK i \in 1..L : m = MatchOf(history[i])
    BY <1>1 DEF DecidedMatches
  <2>2. i \in 1..(L + n)
    BY <1>1
  <2>. QED
    BY <1>1, <2>1, <2>2
<1>5. ASSUME NEW m \in new
      PROVE  \E k \in 1..n : L + k \in DOMAIN longer /\ m = MatchOf(longer[L + k])
                             /\ longer[L + k] = more[k]
  <2>1. PICK k \in 1..n : m = MatchOf(more[k])
    BY <1>1 DEF DecidedMatches
  <2>2. L + k \in 1..(L + n)
    BY <1>1
  <2>. QED
    BY <1>1, <2>1, <2>2
<1>6. DecidedMatches(longer) = old \cup new
  <2>1. ASSUME NEW m \in DecidedMatches(longer) PROVE m \in old \cup new
    <3>1. PICK i \in 1..(L + n) : m = MatchOf(longer[i])
      BY <1>1 DEF DecidedMatches
    <3>2. CASE i \in 1..L
      BY <1>1, <3>1, <3>2 DEF DecidedMatches
    <3>3. ASSUME NEW k \in 1..n, i = L + k PROVE m \in new
      BY <1>1, <3>1, <3>3 DEF DecidedMatches
    <3>. QED
      BY <1>3, <3>2, <3>3
  <2>2. ASSUME NEW m \in old \cup new PROVE m \in DecidedMatches(longer)
    BY <1>4, <1>5 DEF DecidedMatches
  <2>. QED
    BY <2>1, <2>2
<1>7. old \cap new = {}
  <2>. SUFFICES ASSUME NEW m, m \in old, m \in new PROVE FALSE
    OBVIOUS
  <2>1. PICK i \in 1..L : i \in DOMAIN longer /\ m = MatchOf(longer[i])
    BY <1>4
  <2>2. PICK k \in 1..n : L + k \in DOMAIN longer /\ m = MatchOf(longer[L + k])
    BY <1>5
  <2>3. i = L + k
    BY <1>2, <2>1, <2>2 DEF Distinct
  <2>. QED
    BY <1>1, <2>3
<1>. HIDE DEF old, new
<1>8. DecisionOf(longer) = [m \in old \cup new |-> IF m \in new THEN way
                                                           ELSE DecisionOf(history)[m]]
  <2>. DEFINE before == DecisionOf(history)
  <2>2. Distinct(history)
    <3>1. DOMAIN history \subseteq DOMAIN longer
      BY <1>1
    <3>. QED
      BY <1>1, <1>2, <3>1 DEF Distinct
  <2>3. ASSUME NEW m \in old \cup new
        PROVE  DecisionOf(longer)[m] = IF m \in new THEN way ELSE before[m]
    <3>1. CASE m \in new
      <4>1. PICK k \in 1..n : L + k \in DOMAIN longer /\ m = MatchOf(longer[L + k])
                             /\ longer[L + k] = more[k]
        BY <1>5, <3>1 DEF new
      <4>2. WayOf(longer[L + k]) = way
        BY <4>1 DEF n
      <4>. QED
        BY <1>2, <3>1, <4>1, <4>2, DecisionAt
    <3>2. CASE m \in old
      <4>1. PICK i \in 1..L : i \in DOMAIN longer /\ m = MatchOf(longer[i]) /\ longer[i] = history[i]
        BY <1>4, <3>2 DEF old
      <4>2. DecisionOf(longer)[m] = WayOf(history[i])
        BY <1>2, <4>1, DecisionAt
      <4>3. before[m] = WayOf(history[i])
        BY <1>1, <2>2, <4>1, DecisionAt
      <4>4. m \notin new
        BY <1>7, <3>2
      <4>. QED
        BY <4>2, <4>3, <4>4
    <3>. QED
      BY <3>1, <3>2
  <2>4. DecisionOf(longer) = [m \in old \cup new |-> DecisionOf(longer)[m]]
    BY <1>6 DEF DecisionOf, old, new
  <2>. QED
    BY <2>3, <2>4
<1>. QED
  BY <1>6, <1>7, <1>8 DEF longer, old, new, WithDecided

\* The diff removed frees its match and no other.
LEMMA RevokeDecision ==
  ASSUME NEW history \in Seq(TextDiff), Distinct(history), NEW at \in 1..Len(history)
  PROVE  /\ DecidedMatches(RemoveAt(history, at)) =
              DecidedMatches(history) \ {MatchOf(history[at])}
         /\ DecisionOf(RemoveAt(history, at)) =
              [m \in DecidedMatches(history) \ {MatchOf(history[at])} |-> DecisionOf(history)[m]]
<1>. DEFINE shorter == RemoveAt(history, at)
            L == Len(history)
            freed == MatchOf(history[at])
            left == DecidedMatches(history) \ {freed}
<1>1. /\ L \in Nat /\ DOMAIN history = 1..L /\ at \in 1..L
      /\ shorter \in Seq(TextDiff) /\ Len(shorter) = L - 1
      /\ \A j \in 1..(L - 1) : shorter[j] = IF j < at THEN history[j] ELSE history[j + 1]
  BY RemoveAtFacts, LenProperties
<1>2. DOMAIN shorter = 1..(L - 1)
  BY <1>1, LenProperties
<1>. HIDE DEF shorter, L
<1>3. ASSUME NEW i \in 1..(L - 1)
      PROVE  \E j \in 1..L : /\ j # at /\ shorter[i] = history[j]
                             /\ j = IF i < at THEN i ELSE i + 1
  BY <1>1
<1>4. ASSUME NEW j \in 1..L, j # at
      PROVE  \E i \in 1..(L - 1) : shorter[i] = history[j]
  <2>1. CASE j < at
    <3>1. j \in 1..(L - 1)
      BY <1>1, <2>1
    <3>. QED
      BY <1>1, <2>1, <3>1
  <2>2. CASE ~(j < at)
    <3>1. j - 1 \in 1..(L - 1) /\ ~(j - 1 < at) /\ (j - 1) + 1 = j
      BY <1>1, <1>4, <2>2
    <3>2. shorter[j - 1] = history[j]
      BY <1>1, <3>1
    <3>. QED
      BY <3>1, <3>2
  <2>. QED
    BY <2>1, <2>2
<1>5. DecidedMatches(shorter) = left
  <2>1. ASSUME NEW m \in DecidedMatches(shorter) PROVE m \in left
    <3>1. PICK i \in 1..(L - 1) : m = MatchOf(shorter[i])
      BY <1>2 DEF DecidedMatches
    <3>2. PICK j \in 1..L : j # at /\ shorter[i] = history[j]
      BY <1>3
    <3>3. MatchOf(history[j]) # freed
      BY <1>1, <3>2 DEF Distinct
    <3>. QED
      BY <1>1, <3>1, <3>2, <3>3 DEF DecidedMatches
  <2>2. ASSUME NEW m \in left PROVE m \in DecidedMatches(shorter)
    <3>1. PICK j \in 1..L : m = MatchOf(history[j]) /\ j # at
      BY <1>1 DEF DecidedMatches
    <3>2. PICK i \in 1..(L - 1) : shorter[i] = history[j]
      BY <1>4, <3>1
    <3>. QED
      BY <1>2, <3>1, <3>2 DEF DecidedMatches
  <2>. QED
    BY <2>1, <2>2
<1>6. Distinct(shorter)
  <2>. SUFFICES ASSUME NEW i \in 1..(L - 1), NEW j \in 1..(L - 1),
                       MatchOf(shorter[i]) = MatchOf(shorter[j])
                PROVE  i = j
    BY <1>2 DEF Distinct
  <2>1. PICK k \in 1..L : /\ shorter[i] = history[k]
                          /\ k = IF i < at THEN i ELSE i + 1
    BY <1>3
  <2>2. PICK n \in 1..L : /\ shorter[j] = history[n]
                          /\ n = IF j < at THEN j ELSE j + 1
    BY <1>3
  <2>3. k = n
    BY <1>1, <2>1, <2>2 DEF Distinct
  <2>. QED
    BY <1>1, <2>1, <2>2, <2>3
<1>7. ASSUME NEW m \in left PROVE DecisionOf(shorter)[m] = DecisionOf(history)[m]
  <2>1. PICK i \in 1..(L - 1) : m = MatchOf(shorter[i])
    BY <1>2, <1>5 DEF DecidedMatches
  <2>2. PICK j \in 1..L : shorter[i] = history[j]
    BY <1>3
  <2>3. DecisionOf(shorter)[m] = WayOf(shorter[i])
    BY <1>2, <1>6, <2>1, DecisionAt
  <2>4. DecisionOf(history)[m] = WayOf(history[j])
    BY <1>1, <2>1, <2>2, DecisionAt
  <2>. QED
    BY <2>2, <2>3, <2>4
<1>8. DecisionOf(shorter) = [m \in left |-> DecisionOf(shorter)[m]]
  BY <1>5 DEF DecisionOf
<1>. HIDE DEF left
<1>9. DecisionOf(shorter) = [m \in left |-> DecisionOf(history)[m]]
  BY <1>7, <1>8
<1>. QED
  BY <1>5, <1>9 DEF shorter, left

\* A history none of whose slices overlap another of its file is distinct.
LEMMA OnceDistinct ==
  ASSUME NEW history \in Seq(TextDiff), NEW names,
         \A i \in DOMAIN history : \E n \in DOMAIN names : history[i].file_name = names[n],
         \A n \in DOMAIN names : \A i, j \in Decided(history, names[n]) :
           i # j => ~Overlap(history[i].byte_slice, history[j].byte_slice)
  PROVE  Distinct(history)
<1>. SUFFICES ASSUME NEW i \in DOMAIN history, NEW j \in DOMAIN history, i # j,
                     history[i].file_name = history[j].file_name,
                     history[i].byte_slice = history[j].byte_slice
              PROVE  FALSE
  BY DEF Distinct, MatchOf
<1>1. PICK n \in DOMAIN names : history[i].file_name = names[n]
  OBVIOUS
<1>2. i \in Decided(history, names[n]) /\ j \in Decided(history, names[n])
  BY <1>1 DEF Decided
<1>. QED
  BY <1>2 DEF Overlap

-----------------------------------------------------------------------------
(* The steps of Review, as steps of Ledger.                                *)

\* The file of every diff is one of the list.
LEMMA DiffsNamed ==
  ASSUME IInv, NEW i \in DOMAIN diffs
  PROVE  \E n \in DOMAIN file_names : n = diffs[i].file_index + 1 /\ diffs[i].file_name = file_names[n]
<1>1. diffs[i].file_index \in Nat /\ file_names \in Seq(FileName)
  <2>1. i \in 1..Len(diffs) /\ diffs \in Seq(TextDiff)
    BY LenProperties DEF IInv, TypeOK
  <2>2. diffs[i] \in TextDiff
    BY <2>1, ElementOfSeq
  <2>. QED
    BY <2>2 DEF TextDiff, IInv, TypeOK
<1>2. DOMAIN file_names = 1..Len(file_names) /\ Len(file_names) \in Nat
  BY <1>1, LenProperties
<1>3. diffs[i].file_index + 1 \in DOMAIN file_names
  BY <1>1, <1>2 DEF IInv, DiffsCommittable
<1>. QED
  BY <1>3 DEF IInv, DiffsCommittable

LEMMA HistoryDistinct == ASSUME IInv, EveryMatchOnce PROVE Distinct(diffs)
<1>1. diffs \in Seq(TextDiff)
  BY DEF IInv, TypeOK
<1>2. \A i \in DOMAIN diffs : \E n \in DOMAIN file_names : diffs[i].file_name = file_names[n]
  BY DiffsNamed
<1>3. \A n \in DOMAIN file_names : \A i, j \in Decided(diffs, file_names[n]) :
        i # j => ~Overlap(diffs[i].byte_slice, diffs[j].byte_slice)
  BY ByFile DEF OnceIn
<1>. QED
  BY <1>1, <1>2, <1>3, OnceDistinct

\* A list of matches holds slices.
LEMMA MatchListSlices ==
  ASSUME NEW list \in MatchList, NEW k \in DOMAIN list
  PROVE  list[k] \in Slice
BY DEF MatchList

\* A search drops every decision.
LEMMA StartRefines == ASSUME StartsOver PROVE TheLedger!Search
<1>1. PICK names \in Seq(FileName) : \E lists \in [Range(names) -> MatchList] :
        ResetBeforeSearch /\ FillFilePicker(names, lists)
  BY DEF StartsOver
<1>2. PICK lists \in [Range(names) -> MatchList] : ResetBeforeSearch /\ FillFilePicker(names, lists)
  BY <1>1
<1>3. /\ diffs' = << >> /\ file_to_matches' = lists /\ written' = << >>
      /\ commit_state' = NoCommit
      /\ status = "running" /\ status' = "running"
  BY <1>2 DEF StartsOver, ResetBeforeSearch, FillFilePicker
<1>4. DecidedMatches(<< >>) = {} /\ DecisionOf(<< >>) = << >> /\ EditsWritten(<< >>) = << >>
  BY DEF DecidedMatches, DecisionOf, EditsWritten
<1>5. PendingMatches(lists) \subseteq FileName \X Slice
  <2>. SUFFICES ASSUME NEW file \in Range(names), NEW k \in DOMAIN lists[file]
                PROVE  <<file, lists[file][k]>> \in FileName \X Slice
    BY DEF PendingMatches
  <2>1. file \in FileName
    BY SeqRange
  <2>2. lists[file][k] \in Slice
    BY MatchListSlices
  <2>. QED
    BY <2>1, <2>2
<1>. QED
  BY <1>3, <1>4, <1>5 DEF TheLedger!Search, TheLedger!NoReport, NoCommit

\* Nothing Ledger speaks of changes, but that the program may end.
LEMMA SameRefines ==
  ASSUME UNCHANGED <<diffs, file_to_matches, written, commit_state>>,
         status' \in {status, "quit", "threw", "aborted"}
  PROVE  [TheLedger!Next]_TheLedger!vars
<1>1. CASE status' = status
  BY <1>1 DEF TheLedger!vars
<1>2. CASE status' # "running"
  BY <1>2 DEF TheLedger!Next, TheLedger!End
<1>. QED
  BY <1>1, <1>2

\* Each slice of a list is a pending match.
LEMMA IsPending ==
  ASSUME NEW lists, NEW file \in DOMAIN lists, NEW k \in DOMAIN lists[file]
  PROVE  <<file, lists[file][k]>> \in PendingMatches(lists)
BY DEF PendingMatches

\* The first matches of a file leave its list, and no other match does.
LEMMA RestPending ==
  ASSUME NEW lists, NEW name \in DOMAIN lists, lists[name] \in Seq(Slice), NEW n \in 0..Len(lists[name]),
         NEW more \in Seq(TextDiff), Len(more) = n,
         \A k \in 1..n : more[k].byte_slice = lists[name][k] /\ more[k].file_name = name
  PROVE  PendingMatches(lists) =
           PendingMatches(WithoutFirst(lists, name, n)) \cup DecidedMatches(more)
<1>. DEFINE D == DOMAIN lists
            list == lists[name]
            rest == SubSeq(list, n + 1, Len(list))
            after == [lists EXCEPT ![name] = SubSeq(@, n + 1, Len(@))]
            L == Len(list)
<1>1. /\ list \in Seq(Slice) /\ L \in Nat /\ DOMAIN list = 1..L
      /\ n \in Nat /\ n <= L /\ DOMAIN more = 1..n
  BY LenProperties
<1>2. /\ rest \in Seq(Slice) /\ Len(rest) = L - n
      /\ \A i \in 1..(L - n) : rest[i] = list[n + i]
  BY <1>1, RestFacts
<1>3. DOMAIN rest = 1..(L - n)
  BY <1>2, LenProperties
<1>4. /\ DOMAIN after = D /\ after[name] = rest
      /\ \A file \in D : file # name => after[file] = lists[file]
  OBVIOUS
<1>5. \A k \in 1..n : MatchOf(more[k]) = <<name, list[k]>>
  BY DEF MatchOf
<1>. HIDE DEF list, rest, after, L
<1>6. ASSUME NEW m \in PendingMatches(lists)
      PROVE  m \in PendingMatches(after) \cup DecidedMatches(more)
  <2>1. PICK file \in D : \E k \in DOMAIN lists[file] : m = <<file, lists[file][k]>>
    BY DEF PendingMatches
  <2>2. PICK k \in DOMAIN lists[file] : m = <<file, lists[file][k]>>
    BY <2>1
  <2>3. CASE file # name
    BY <1>4, <2>2, <2>3 DEF PendingMatches
  <2>4. CASE file = name
    <3>1. k \in 1..L /\ m = <<name, list[k]>>
      BY <1>1, <2>2, <2>4 DEF list
    <3>2. CASE k <= n
      <4>1. k \in 1..n
        BY <1>1, <3>1, <3>2
      <4>. QED
        BY <1>1, <1>5, <3>1, <4>1 DEF DecidedMatches
    <3>3. CASE ~(k <= n)
      <4>1. k - n \in 1..(L - n) /\ n + (k - n) = k
        BY <1>1, <3>1, <3>3
      <4>2. rest[k - n] = list[k]
        BY <1>2, <4>1
      <4>3. <<name, after[name][k - n]>> \in PendingMatches(after)
        BY <1>3, <1>4, <4>1, IsPending
      <4>. QED
        BY <1>4, <3>1, <4>2, <4>3
    <3>. QED
      BY <3>2, <3>3
  <2>. QED
    BY <2>3, <2>4
<1>7. ASSUME NEW m \in PendingMatches(after) PROVE m \in PendingMatches(lists)
  <2>1. PICK file \in D : \E k \in DOMAIN after[file] : m = <<file, after[file][k]>>
    BY <1>4 DEF PendingMatches
  <2>2. PICK k \in DOMAIN after[file] : m = <<file, after[file][k]>>
    BY <2>1
  <2>3. CASE file # name
    BY <1>4, <2>2, <2>3 DEF PendingMatches
  <2>4. CASE file = name
    <3>1. k \in 1..(L - n) /\ m = <<name, rest[k]>>
      BY <1>3, <1>4, <2>2, <2>4
    <3>2. n + k \in 1..L /\ rest[k] = list[n + k]
      BY <1>1, <1>2, <3>1
    <3>. QED
      BY <1>1, <3>1, <3>2 DEF PendingMatches, list
  <2>. QED
    BY <2>3, <2>4
<1>8. ASSUME NEW m \in DecidedMatches(more) PROVE m \in PendingMatches(lists)
  <2>1. PICK k \in 1..n : m = <<name, list[k]>>
    BY <1>1, <1>5 DEF DecidedMatches
  <2>2. k \in DOMAIN list
    BY <1>1
  <2>. QED
    BY <2>1, <2>2 DEF PendingMatches, list
<1>9. PendingMatches(lists) = PendingMatches(after) \cup DecidedMatches(more)
  BY <1>6, <1>7, <1>8
<1>. QED
  BY <1>9 DEF after, WithoutFirst

\* A match that goes back to its file is pending.
LEMMA AppendPending ==
  ASSUME NEW lists, NEW name \in DOMAIN lists, lists[name] \in Seq(Slice), NEW slice \in Slice
  PROVE  PendingMatches(WithBack(lists, name, slice)) = PendingMatches(lists) \cup {<<name, slice>>}
<1>. DEFINE D == DOMAIN lists
            list == lists[name]
            more == Append(list, slice)
            after == [lists EXCEPT ![name] = Append(@, slice)]
            L == Len(list)
<1>1. /\ list \in Seq(Slice) /\ L \in Nat /\ DOMAIN list = 1..L
      /\ more \in Seq(Slice) /\ Len(more) = L + 1
      /\ \A i \in 1..L : more[i] = list[i]
      /\ more[L + 1] = slice
  BY AppendProperties, LenProperties
<1>2. DOMAIN more = 1..(L + 1)
  BY <1>1, LenProperties
<1>3. /\ DOMAIN after = D /\ after[name] = more
      /\ \A file \in D : file # name => after[file] = lists[file]
  OBVIOUS
<1>. HIDE DEF more, after, L
<1>4. ASSUME NEW m \in PendingMatches(after)
      PROVE  m \in PendingMatches(lists) \cup {<<name, slice>>}
  <2>1. PICK file \in D : \E k \in DOMAIN after[file] : m = <<file, after[file][k]>>
    BY <1>3 DEF PendingMatches
  <2>2. PICK k \in DOMAIN after[file] : m = <<file, after[file][k]>>
    BY <2>1
  <2>3. CASE file # name
    BY <1>3, <2>2, <2>3 DEF PendingMatches
  <2>4. CASE file = name
    <3>1. k \in 1..(L + 1) /\ m = <<name, more[k]>>
      BY <1>2, <1>3, <2>2, <2>4
    <3>2. CASE k = L + 1
      BY <1>1, <3>1, <3>2
    <3>3. CASE k # L + 1
      <4>1. k \in 1..L
        BY <1>1, <3>1, <3>3
      <4>. QED
        BY <1>1, <3>1, <4>1 DEF PendingMatches
    <3>. QED
      BY <3>2, <3>3
  <2>. QED
    BY <2>3, <2>4
<1>5. ASSUME NEW m \in PendingMatches(lists) PROVE m \in PendingMatches(after)
  <2>1. PICK file \in D : \E k \in DOMAIN lists[file] : m = <<file, lists[file][k]>>
    BY DEF PendingMatches
  <2>2. PICK k \in DOMAIN lists[file] : m = <<file, lists[file][k]>>
    BY <2>1
  <2>3. CASE file # name
    BY <1>3, <2>2, <2>3 DEF PendingMatches
  <2>4. CASE file = name
    <3>1. k \in 1..L /\ k \in 1..(L + 1)
      BY <1>1, <2>2, <2>4
    <3>2. more[k] = lists[file][k]
      BY <1>1, <2>4, <3>1
    <3>3. <<name, after[name][k]>> \in PendingMatches(after)
      BY <1>2, <1>3, <3>1, IsPending
    <3>. QED
      BY <1>3, <2>2, <2>4, <3>2, <3>3
  <2>. QED
    BY <2>3, <2>4
<1>6. <<name, slice>> \in PendingMatches(after)
  <2>1. L + 1 \in DOMAIN after[name] /\ after[name][L + 1] = slice
    BY <1>1, <1>2, <1>3
  <2>. QED
    BY <1>3, <2>1 DEF PendingMatches
<1>7. PendingMatches(after) = PendingMatches(lists) \cup {<<name, slice>>}
  BY <1>4, <1>5, <1>6
<1>. QED
  BY <1>7 DEF after, WithBack

\* Deciding the first matches of a file: they were open, and each decision has
\* the text of the moment.
LEMMA DecideRefines ==
  ASSUME IInv, EveryMatchOnce, EveryMatchOnce', NEW index \in Nat, index < Len(file_names),
         NEW accepted \in BOOLEAN, NEW n \in 0..Len(Pending(index)),
         DecideFirst(n, accepted, index),
         UNCHANGED <<file_names, file_to_num_matches_found, written, commit_state, status>>,
         status = "running"
  PROVE  TheLedger!Decide(file_names[index + 1], accepted, replacement_text)
<1>. DEFINE name == file_names[index + 1]
            pending == Pending(index)
            more == [k \in 1..n |-> Decision(accepted, index, pending[k])]
            way == [accepted |-> accepted, text |-> replacement_text]
<1>1. /\ name \in DOMAIN file_to_matches
      /\ pending = file_to_matches[name]
      /\ pending \in Seq(Slice) /\ Len(pending) \in Nat /\ DOMAIN pending = 1..Len(pending)
      /\ n \in Nat /\ n <= Len(pending)
  <2>1. /\ name \in Range(file_names) /\ name \in FileName
        /\ Pending(index) \in Seq(Slice) /\ Len(Pending(index)) \in Nat
    BY FileAt DEF IInv
  <2>2. name \in DOMAIN file_to_matches
    BY <2>1 DEF IInv, TypeOK
  <2>3. n \in Nat /\ n <= Len(Pending(index))
    BY <2>1
  <2>. QED
    BY <2>1, <2>2, <2>3, LenProperties DEF Pending
<1>2. /\ more \in Seq(TextDiff) /\ Len(more) = n /\ DOMAIN more = 1..n
      /\ \A k \in 1..n : more[k].byte_slice = pending[k] /\ more[k].file_name = name
      /\ \A k \in 1..n : WayOf(more[k]) = way
  <2>1. \A k \in 1..n : pending[k] \in Slice
    BY <1>1, ElementOfSeq
  <2>2. name \in FileName
    BY FileAt DEF IInv
  <2>3. more \in [1..n -> TextDiff]
    BY <1>1, <2>1, <2>2 DEF Decision, TextDiff, IInv, TypeOK
  <2>4. more \in Seq(TextDiff) /\ Len(more) = n
    BY <1>1, <2>3, SeqOfLen
  <2>5. \A k \in 1..n : WayOf(more[k]) = way
    BY DEF Decision, WayOf
  <2>. QED
    BY <2>3, <2>4, <2>5 DEF Decision
<1>3. /\ diffs' = diffs \o more
      /\ file_to_matches' = [file_to_matches EXCEPT ![name] = SubSeq(@, n + 1, Len(@))]
  BY DEF DecideFirst
<1>4. diffs \in Seq(TextDiff)
  BY DEF IInv, TypeOK
<1>. HIDE DEF more, name, pending, way
<1>5. /\ diffs \o more \in Seq(TextDiff) /\ Len(diffs) \in Nat /\ DOMAIN diffs = 1..Len(diffs)
      /\ DOMAIN (diffs \o more) = 1..(Len(diffs) + n)
      /\ \A i \in 1..Len(diffs) : (diffs \o more)[i] = diffs[i]
      /\ \A k \in 1..n : (diffs \o more)[Len(diffs) + k] = more[k]
  BY <1>2, <1>4, LongerHistory
<1>6. name = file_names[index + 1] /\ index + 1 \in DOMAIN file_names
  <2>1. DOMAIN file_names = 1..Len(file_names) /\ Len(file_names) \in Nat
    BY LenProperties DEF IInv, TypeOK
  <2>. QED
    BY <2>1 DEF name
<1>7. Distinct(diffs \o more)
  <2>1. ASSUME NEW i \in DOMAIN (diffs \o more)
        PROVE  \E m \in DOMAIN file_names : (diffs \o more)[i].file_name = file_names[m]
    <3>1. CASE i <= Len(diffs)
      <4>1. i \in DOMAIN diffs /\ (diffs \o more)[i] = diffs[i]
        BY <1>5, <3>1
      <4>. QED
        BY <4>1, DiffsNamed
    <3>2. CASE ~(i <= Len(diffs))
      <4>1. i - Len(diffs) \in 1..n /\ i = Len(diffs) + (i - Len(diffs))
        BY <1>1, <1>5, <3>2
      <4>2. (diffs \o more)[i] = more[i - Len(diffs)]
        BY <1>5, <4>1
      <4>. QED
        BY <1>2, <1>6, <4>1, <4>2
    <3>. QED
      BY <3>1, <3>2
  <2>2. \A m \in DOMAIN file_names :
          OnceIn(file_to_matches'[file_names[m]], diffs \o more, file_names[m],
                 file_to_num_matches_found[m])
    BY <1>3, ByFileAfter
  <2>3. \A m \in DOMAIN file_names : \A i, j \in Decided(diffs \o more, file_names[m]) :
          i # j => ~Overlap((diffs \o more)[i].byte_slice, (diffs \o more)[j].byte_slice)
    BY <2>2 DEF OnceIn
  <2>. QED
    BY <1>5, <2>1, <2>3, OnceDistinct
<1>8. /\ DecidedMatches(diffs \o more) = DecidedMatches(diffs) \cup DecidedMatches(more)
      /\ DecidedMatches(diffs) \cap DecidedMatches(more) = {}
      /\ DecisionOf(diffs \o more) = WithDecided(diffs, more, way)
  <2>1. \A k \in 1..Len(more) : WayOf(more[k]) = way
    BY <1>2
  <2>. QED
    BY <1>2, <1>4, <1>7, <2>1, DecideDecision, Zenon
<1>9. PendingMatches(file_to_matches) = PendingMatches(file_to_matches') \cup DecidedMatches(more)
  <2>1. file_to_matches[name] \in Seq(Slice)
    BY <1>1
  <2>2. n \in 0..Len(file_to_matches[name])
    BY <1>1
  <2>3. \A k \in 1..n : /\ more[k].byte_slice = file_to_matches[name][k]
                        /\ more[k].file_name = name
    BY <1>1, <1>2
  <2>4. PendingMatches(file_to_matches) =
          PendingMatches(WithoutFirst(file_to_matches, name, n)) \cup DecidedMatches(more)
    BY <1>1, <1>2, <2>1, <2>2, <2>3, RestPending, SMT
  <2>. QED
    BY <1>3, <2>4 DEF WithoutFirst
<1>10. DecidedMatches(more) \subseteq {m \in TheLedger!Open : TheLedger!FileOf(m) = name}
  <2>. SUFFICES ASSUME NEW m \in DecidedMatches(more)
                PROVE  m \in TheLedger!Open /\ TheLedger!FileOf(m) = name
    OBVIOUS
  <2>1. PICK k \in 1..n : m = MatchOf(more[k])
    BY <1>2 DEF DecidedMatches
  <2>2. TheLedger!FileOf(m) = name
    BY <1>2, <2>1 DEF TheLedger!FileOf, MatchOf
  <2>3. m \notin DOMAIN DecisionOf(diffs)
    BY <1>8 DEF DecisionOf
  <2>. QED
    BY <1>9, <2>2, <2>3 DEF TheLedger!Open
<1>11. DOMAIN DecisionOf(diffs) = DecidedMatches(diffs)
  BY DEF DecisionOf
<1>12. UNCHANGED <<DecidedMatches(diffs) \cup PendingMatches(file_to_matches),
                   EditsWritten(written)>>
  BY <1>3, <1>8, <1>9
<1>. QED
  BY <1>3, <1>8, <1>10, <1>11, <1>12 DEF TheLedger!Decide, WithDecided, way, name

\* Taking a decision back.
LEMMA DeleteRefines ==
  ASSUME IInv, EveryMatchOnce, DeleteDiff
  PROVE  \E match \in DOMAIN DecisionOf(diffs) : TheLedger!Revoke(match)
<1>. DEFINE at == selected_diff + 1
            name == diffs[at].file_name
            slice == diffs[at].byte_slice
            freed == MatchOf(diffs[at])
<1>1. /\ diffs' = RemoveAt(diffs, at)
      /\ file_to_matches' = [file_to_matches EXCEPT ![name] = Append(@, slice)]
      /\ UNCHANGED <<written, commit_state, status>> /\ status = "running"
  BY DEF DeleteDiff, diskVars, Handling, Running
<1>2. diffs \in Seq(TextDiff) /\ Len(diffs) \in Nat /\ DOMAIN diffs = 1..Len(diffs)
  BY LenProperties DEF IInv, TypeOK
<1>3. at \in 1..Len(diffs)
  BY <1>2 DEF DeleteDiff, is_current_diff_valid, IInv, TypeOK
<1>. HIDE DEF at
<1>4. slice \in Slice /\ name \in DOMAIN file_to_matches
  <2>1. diffs[at] \in TextDiff
    BY <1>2, <1>3, ElementOfSeq
  <2>2. PICK m \in DOMAIN file_names : name = file_names[m]
    BY <1>2, <1>3, DiffsNamed
  <2>. QED
    BY <2>1, <2>2, NamedFile DEF TextDiff
<1>5. freed = <<name, slice>>
  BY DEF MatchOf
<1>6. freed \in DecidedMatches(diffs)
  BY <1>2, <1>3 DEF DecidedMatches
<1>. HIDE DEF name, slice
<1>7. /\ DecidedMatches(diffs') = DecidedMatches(diffs) \ {freed}
      /\ DecisionOf(diffs') = [m \in DecidedMatches(diffs) \ {freed} |-> DecisionOf(diffs)[m]]
  BY <1>1, <1>2, <1>3, HistoryDistinct, RevokeDecision
<1>8. PendingMatches(file_to_matches') = PendingMatches(file_to_matches) \cup {freed}
  <2>1. file_to_matches[name] \in Seq(Slice)
    BY <1>4 DEF IInv, TypeOK
  <2>2. PendingMatches(WithBack(file_to_matches, name, slice))
          = PendingMatches(file_to_matches) \cup {<<name, slice>>}
    BY <1>4, <2>1, AppendPending, Zenon
  <2>. QED
    BY <1>1, <1>5, <2>2 DEF WithBack
<1>. HIDE DEF freed
<1>9. DOMAIN DecisionOf(diffs) = DecidedMatches(diffs)
  BY DEF DecisionOf
<1>10. UNCHANGED <<DecidedMatches(diffs) \cup PendingMatches(file_to_matches),
                   EditsWritten(written)>>
  BY <1>1, <1>6, <1>7, <1>8
<1>11. TheLedger!Revoke(freed)
  BY <1>1, <1>7, <1>9, <1>10 DEF TheLedger!Revoke
<1>. QED
  BY <1>6, <1>9, <1>11

\* A commit hands to each file it opens what was accepted there.
LEMMA WriteRefines ==
  ASSUME IInv, EveryMatchOnce, NEW opened \in SUBSET FilesToWrite, WriteFiles(opened),
         status = "running", UNCHANGED <<diffs, file_to_matches>>
  PROVE  FilesToWrite = TheLedger!FilesToWrite /\ TheLedger!Write(opened)
<1>1. \A file \in opened : Target(file) = file
  BY TargetIsFile
<1>2. {Target(file) : file \in opened} = opened
  BY <1>1
<1>3. Distinct(diffs)
  BY HistoryDistinct
<1>4. ASSUME NEW i \in DOMAIN diffs
      PROVE  /\ MatchOf(diffs[i]) \in DOMAIN DecisionOf(diffs)
             /\ TheLedger!FileOf(MatchOf(diffs[i])) = diffs[i].file_name
             /\ MatchOf(diffs[i])[2] = diffs[i].byte_slice
             /\ DecisionOf(diffs)[MatchOf(diffs[i])].accepted = diffs[i].accepted
             /\ DecisionOf(diffs)[MatchOf(diffs[i])].text = diffs[i].replacement_text
  <2>1. /\ MatchOf(diffs[i]) \in DOMAIN DecisionOf(diffs)
        /\ DecisionOf(diffs)[MatchOf(diffs[i])] = WayOf(diffs[i])
    BY <1>3, DecisionAt
  <2>2. MatchOf(diffs[i]) = <<diffs[i].file_name, diffs[i].byte_slice>>
    BY DEF MatchOf
  <2>. QED
    BY <2>1, <2>2 DEF WayOf, TheLedger!FileOf
<1>5. ASSUME NEW m \in DOMAIN DecisionOf(diffs)
      PROVE  \E i \in DOMAIN diffs : m = MatchOf(diffs[i])
  BY DEF DecisionOf, DecidedMatches
<1>6. FilesToWrite = TheLedger!FilesToWrite
  <2>1. FilesToWrite \subseteq TheLedger!FilesToWrite
    BY <1>4 DEF FilesToWrite, AcceptedDiffs, TheLedger!FilesToWrite
  <2>2. ASSUME NEW file \in TheLedger!FilesToWrite PROVE file \in FilesToWrite
    <3>1. PICK m \in DOMAIN DecisionOf(diffs) : DecisionOf(diffs)[m].accepted /\ TheLedger!FileOf(m) = file
      BY DEF TheLedger!FilesToWrite
    <3>2. PICK i \in DOMAIN diffs : m = MatchOf(diffs[i])
      BY <1>5
    <3>. QED
      BY <1>4, <3>1, <3>2 DEF FilesToWrite, AcceptedDiffs
  <2>. QED
    BY <2>1, <2>2
<1>7. ASSUME NEW file PROVE EditsOf(file) = TheLedger!EditsOf(file)
  <2>1. ASSUME NEW edit \in EditsOf(file) PROVE edit \in TheLedger!EditsOf(file)
    <3>1. PICK i \in DiffsOf(file) :
            edit = [slice |-> diffs[i].byte_slice, text |-> diffs[i].replacement_text]
      BY DEF EditsOf
    <3>2. i \in DOMAIN diffs /\ diffs[i].accepted /\ diffs[i].file_name = file
      BY DEF DiffsOf, AcceptedDiffs
    <3>3. MatchOf(diffs[i]) \in TheLedger!AcceptedIn(file)
      BY <1>4, <3>2 DEF TheLedger!AcceptedIn
    <3>. QED
      BY <1>4, <3>1, <3>2, <3>3 DEF TheLedger!EditsOf
  <2>2. ASSUME NEW edit \in TheLedger!EditsOf(file) PROVE edit \in EditsOf(file)
    <3>1. PICK m \in TheLedger!AcceptedIn(file) :
            edit = [slice |-> m[2], text |-> DecisionOf(diffs)[m].text]
      BY DEF TheLedger!EditsOf
    <3>2. /\ m \in DOMAIN DecisionOf(diffs)
          /\ TheLedger!FileOf(m) = file /\ DecisionOf(diffs)[m].accepted
      BY DEF TheLedger!AcceptedIn
    <3>3. PICK i \in DOMAIN diffs : m = MatchOf(diffs[i])
      BY <1>5, <3>2
    <3>4. i \in DiffsOf(file)
      BY <1>4, <3>2, <3>3 DEF DiffsOf, AcceptedDiffs
    <3>. QED
      BY <1>4, <3>1, <3>3, <3>4 DEF EditsOf
  <2>. QED
    BY <2>1, <2>2
<1>8. EditsWritten(written') = [file \in opened |-> TheLedger!EditsOf(file)]
  <2>. DEFINE source(name) == CHOOSE f \in opened : Target(f) = name
  <2>1. \A name \in opened : source(name) = name
    BY <1>1
  <2>2. written' = [name \in opened |-> [edition |-> CopyOf(IndexOf(source(name))).edition,
                                        edits |-> EditsOf(source(name))]]
    BY <1>2 DEF WriteFiles
  <2>. HIDE DEF source
  <2>3. written' = [name \in opened |-> [edition |-> CopyOf(IndexOf(name)).edition,
                                        edits |-> EditsOf(name)]]
    BY <2>1, <2>2
  <2>. QED
    BY <2>3, <1>7 DEF EditsWritten
<1>9. TheLedger!Write(opened)
  BY <1>8 DEF TheLedger!Write
<1>. QED
  BY <1>6, <1>9

\* What it reports is what it wrote, and what it could not open.
LEMMA CommitRefines ==
  ASSUME IInv, EveryMatchOnce, Commit
  PROVE  \E opened \in SUBSET TheLedger!FilesToWrite : TheLedger!Commit(opened)
<1>1. PICK opened \in SUBSET FilesToWrite :
        /\ WriteFiles(opened)
        /\ commit_state' = [success_files |-> {Target(file) : file \in opened},
                            error_files |-> {Target(file) : file \in FilesToWrite \ opened},
                            showing_committed_files_modal |-> TRUE]
  BY DEF Commit
<1>2. UNCHANGED <<diffs, file_to_matches, status>> /\ status = "running"
  BY DEF Commit, pickerVars, historyVars, Handling, Running
<1>3. FilesToWrite = TheLedger!FilesToWrite /\ TheLedger!Write(opened)
  BY <1>1, <1>2, WriteRefines
<1>4. /\ {Target(file) : file \in opened} = opened
      /\ {Target(file) : file \in FilesToWrite \ opened} = FilesToWrite \ opened
  BY TargetIsFile
<1>5. /\ commit_state'.success_files = opened
      /\ commit_state'.error_files = TheLedger!FilesToWrite \ opened
  BY <1>1, <1>3, <1>4
<1>6. TheLedger!Commit(opened)
  BY <1>2, <1>3, <1>5 DEF TheLedger!Commit
<1>. QED
  BY <1>3, <1>6

\* A commit that throws has written some files, and reports nothing.
LEMMA ThrowRefines ==
  ASSUME IInv, EveryMatchOnce, CommitThrows
  PROVE  \E opened \in SUBSET TheLedger!FilesToWrite : TheLedger!BreakOff(opened)
<1>1. PICK opened \in SUBSET FilesToWrite : WriteFiles(opened)
  BY DEF CommitThrows
<1>2. UNCHANGED <<diffs, file_to_matches, commit_state>> /\ status = "running" /\ status' = "threw"
  BY DEF CommitThrows, pickerVars, historyVars, Handling, Running
<1>3. FilesToWrite = TheLedger!FilesToWrite /\ TheLedger!Write(opened)
  BY <1>1, <1>2, WriteRefines
<1>4. TheLedger!BreakOff(opened)
  BY <1>2, <1>3 DEF TheLedger!BreakOff
<1>. QED
  BY <1>3, <1>4

-----------------------------------------------------------------------------
\* Every step of a handler, a renderer or another program, in whichever order
\* the event loop calls them.
LEMMA StepRefines ==
  IInv /\ EveryMatchOnce /\ EveryMatchOnce' /\ [LoopStep]_vars
    => [TheLedger!Next]_TheLedger!vars
<1>. SUFFICES ASSUME IInv, EveryMatchOnce, EveryMatchOnce', [LoopStep]_vars
              PROVE  [TheLedger!Next]_TheLedger!vars
  OBVIOUS
<1>1. CASE StartsOver
  BY <1>1, StartRefines DEF TheLedger!Next
<1>2. CASE Decides
  <2>1. PICK index \in Nat : /\ index < Len(file_names)
                             /\ \E accepted \in BOOLEAN, n \in 0..Len(Pending(index)) :
                                  DecideFirst(n, accepted, index)
    BY <1>2 DEF Decides
  <2>2. PICK accepted \in BOOLEAN, n \in 0..Len(Pending(index)) :
          DecideFirst(n, accepted, index)
    BY <2>1
  <2>3. TheLedger!Decide(file_names[index + 1], accepted, replacement_text)
    BY <1>2, <2>1, <2>2, DecideRefines DEF Decides
  <2>4. file_names[index + 1] \in FileName /\ replacement_text \in Text
    BY <2>1, FileAt DEF IInv, TypeOK
  <2>. QED
    BY <2>3, <2>4 DEF TheLedger!Next
<1>3. CASE DeleteDiff
  BY <1>3, DeleteRefines DEF TheLedger!Next
<1>4. CASE Commit
  BY <1>4, CommitRefines DEF TheLedger!Next
<1>5. CASE CommitThrows
  BY <1>5, ThrowRefines DEF TheLedger!Next
<1>6. CASE MatchesStay
  BY <1>6, SameRefines DEF MatchesStay, matchVars
<1>. QED
  BY <1>1, <1>2, <1>3, <1>4, <1>5, <1>6, MatchSteps

LEMMA InitRefines == Init => TheLedger!Init
<1>. SUFFICES ASSUME Init PROVE TheLedger!Init
  OBVIOUS
<1>1. /\ diffs = << >> /\ file_to_matches = << >> /\ written = << >>
      /\ commit_state = NoCommit /\ status = "running"
  BY DEF Init
<1>2. /\ DecidedMatches(<< >>) = {} /\ PendingMatches(<< >>) = {}
      /\ DecisionOf(<< >>) = << >> /\ EditsWritten(<< >>) = << >>
  BY DEF DecidedMatches, PendingMatches, DecisionOf, EditsWritten
<1>. QED
  BY <1>1, <1>2 DEF TheLedger!Init, TheLedger!NoReport, NoCommit

\* Review keeps the promise of Ledger: every step of a handler, a renderer or
\* another program is one search, one decision, one revocation, one commit, or
\* nothing that the user was promised.
THEOREM ReviewImplementsLedger == Spec => ImplementsLedger
<1>. QED
  BY InitRefines, StepRefines, NextIsLoopStep, ReviewInvariant, MatchesStayOnce, PTL
     DEF Spec, ImplementsLedger, TheLedger!Spec

=============================================================================
