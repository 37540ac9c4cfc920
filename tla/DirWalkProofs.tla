---------------------------- MODULE DirWalkProofs ----------------------------
(***************************************************************************)
(* Proofs about DirWalk, for every disk, every set of ignore files, every  *)
(* limit of depth and any number of changes by another program.            *)
(***************************************************************************)
EXTENDS DirWalk, FoldLemmas, SequenceTheorems, TLAPS

\* The directories whose ignores the parent pointers leave out have patterns that exclude
\* nothing by themselves (ignore.c:62-66).
SkippedAreEmpty ==
  \A i \in 1..Len(stack) : \A j \in 1..(i - 1) :
    j \notin stack[i].parents => is_empty(stack[j].ig.patterns)

\* A call that has not looked into symhash has put nothing there.
EnteringHasNoKey == \A i \in 1..Len(stack) : stack[i].at = "enter" => stack[i].key = NoKey

StackInv ==
  CallsNest /\ LoopTable /\ NothingIgnoredIsTaken /\ SkippedAreEmpty /\ EnteringHasNoKey
IInv == TypeOK /\ StackInv

-----------------------------------------------------------------------------
(* The operators. *)

\* A directory with "!" patterns only excludes nothing: they only guard the other patterns
\* of the same directory (ignore.c:43-45, 244-259).
LEMMA EmptyExcludesNothing ==
  ASSUME NEW ig, is_empty(ig.patterns), NEW f, NEW dir, NEW n, NEW node
  PROVE  ~Excludes(ig, f, dir, n, node)
<1>1. ASSUME NEW kind, kind # "invert_regex", NEW path, NEW slash
      PROVE  ~Matches(ig.patterns, kind, path, slash)
  BY <1>1 DEF is_empty, Matches
<1>2. ASSUME NEW path, NEW slash
      PROVE  ~NamePartMatches(ig.patterns, path, slash)
  BY DEF is_empty, NamePartMatches
<1>3. ASSUME NEW t, NEW slash
      PROVE  ~path_ignore_search(ig, t, n, slash)
  BY <1>1, <1>2 DEF path_ignore_search
<1>. QED
  BY <1>1, <1>3 DEF Excludes

LEMMA TopFacts ==
  ASSUME CallsNest, stack # << >>
  PROVE  /\ Len(stack) \in Nat /\ Len(stack) >= 1
         /\ Top \in FrameType /\ Top = stack[Len(stack)]
         /\ \A i \in 1..Len(stack) : stack[i] \in FrameType
         /\ Len(Top.path) = Len(stack) - 1
         /\ Top.parents \subseteq 1..(Len(stack) - 1)
<1>1. stack \in Seq(FrameType)
  BY DEF CallsNest
<1>2. Len(stack) \in Nat /\ Len(stack) >= 1
  BY <1>1
<1>3. \A i \in 1..Len(stack) : stack[i] \in FrameType
  BY <1>1
<1>. QED
  BY <1>2, <1>3 DEF CallsNest, Top

LEMMA SetTopFacts ==
  ASSUME CallsNest, stack # << >>, NEW frame \in FrameType
  PROVE  /\ SetTop(frame) \in Seq(FrameType)
         /\ Len(SetTop(frame)) = Len(stack)
         /\ SetTop(frame)[Len(stack)] = frame
         /\ \A i \in 1..(Len(stack) - 1) : SetTop(frame)[i] = stack[i]
<1>1. stack \in Seq(FrameType)
  BY DEF CallsNest
<1>2. Len(stack) \in Nat /\ Len(stack) >= 1
  BY <1>1
<1>. QED
  BY <1>1, <1>2 DEF SetTop

LEMMA FrontFacts ==
  ASSUME CallsNest, stack # << >>
  PROVE  /\ Front(stack) \in Seq(FrameType)
         /\ Len(Front(stack)) = Len(stack) - 1
         /\ \A i \in 1..(Len(stack) - 1) : Front(stack)[i] = stack[i]
<1>1. stack \in Seq(FrameType)
  BY DEF CallsNest
<1>2. Len(stack) \in Nat /\ Len(stack) >= 1
  BY <1>1
<1>3. \A i \in 1..(Len(stack) - 1) : stack[i] \in FrameType
  BY <1>1, <1>2
<1>. DEFINE m == Len(stack) - 1
            front == SubSeq(stack, 1, m)
<1>4. m \in Int /\ m >= 0 /\ \A i \in 1..m : stack[i] \in FrameType
  BY <1>2, <1>3
<1>5. /\ front \in Seq(FrameType)
      /\ Len(front) = IF 1 <= m THEN m - 1 + 1 ELSE 0
      /\ \A i \in 1..(m - 1 + 1) : front[i] = stack[1 + i - 1]
  <2>. HIDE DEF m
  <2>. QED
    BY <1>4, SubSeqProperties
<1>6. Front(stack) = front
  BY DEF Front
<1>7. Len(front) = m /\ \A i \in 1..m : front[i] = stack[i]
  <2>. HIDE DEF m, front
  <2>. QED
    BY <1>4, <1>5
<1>. QED
  BY <1>5, <1>6, <1>7

-----------------------------------------------------------------------------
(* What an action may do to the stack. *)

\* A step of the call on top that reads nothing new.
LEMMA TopGoesOn ==
  ASSUME StackInv, stack # << >>, NEW frame \in FrameType,
         frame.path = Top.path, frame.parents = Top.parents, frame.ig = Top.ig,
         frame.key = Top.key, frame.rest \subseteq Top.rest,
         frame.at # "enter", frame.at # "entries" => frame.rest = {},
         stack' = SetTop(frame), symhash' = symhash, form' = form
  PROVE  StackInv'
<1>. DEFINE n == Len(stack)
<1>0. CallsNest
  BY DEF StackInv
<1>1. /\ n \in Nat /\ n >= 1 /\ Top \in FrameType /\ Top = stack[n]
      /\ stack' \in Seq(FrameType) /\ Len(stack') = n /\ stack'[n] = frame
      /\ \A i \in 1..(n - 1) : stack'[i] = stack[i]
  BY <1>0, TopFacts, SetTopFacts
<1>2. \A i \in 1..n :
        /\ stack'[i].path = stack[i].path /\ stack'[i].parents = stack[i].parents
        /\ stack'[i].ig = stack[i].ig /\ stack'[i].key = stack[i].key
        /\ stack'[i].rest \subseteq stack[i].rest
        /\ stack'[i].at # "entries" => stack'[i].rest = {}
  <2>. TAKE i \in 1..n
  <2>0. stack[i].at # "entries" => stack[i].rest = {}
    BY <1>0 DEF CallsNest
  <2>1. CASE i = n
    BY <2>1, <1>1
  <2>2. CASE i # n
    <3>1. i \in 1..(n - 1)
      BY <1>1, <2>2
    <3>. QED
      BY <1>1, <2>0, <3>1
  <2>. QED
    BY <2>1, <2>2
<1>3. CallsNest'
  <2>1. stack' \in Seq(FrameType) /\ Len(stack') <= MaxSearchDepth + 1
    BY <1>0, <1>1 DEF CallsNest
  <2>2. \A i \in 1..Len(stack') :
          /\ Len(stack'[i].path) = i - 1
          /\ stack'[i].parents \subseteq 1..(i - 1)
          /\ stack'[i].at # "entries" => stack'[i].rest = {}
    <3>. SUFFICES ASSUME NEW i \in 1..n
                  PROVE  /\ Len(stack'[i].path) = i - 1
                         /\ stack'[i].parents \subseteq 1..(i - 1)
                         /\ stack'[i].at # "entries" => stack'[i].rest = {}
      BY <1>1
    <3>1. Len(stack[i].path) = i - 1 /\ stack[i].parents \subseteq 1..(i - 1)
      BY <1>0 DEF CallsNest
    <3>. QED
      BY <1>2, <3>1
  <2>3. ASSUME NEW i \in 1..(n - 1)
        PROVE  stack'[i].at = "entries" /\ Front(stack'[i + 1].path) = stack'[i].path
    <3>1. stack'[i] = stack[i] /\ i \in 1..n /\ i + 1 \in 1..n
      BY <1>1
    <3>2. stack'[i + 1].path = stack[i + 1].path
      BY <1>2, <3>1
    <3>3. stack[i].at = "entries" /\ Front(stack[i + 1].path) = stack[i].path
      BY <1>0 DEF CallsNest
    <3>. QED
      BY <3>1, <3>2, <3>3
  <2>. QED
    BY <1>1, <2>1, <2>2, <2>3 DEF CallsNest
<1>4. LoopTable'
  BY <1>1, <1>2 DEF StackInv, LoopTable
<1>5. NothingIgnoredIsTaken'
  BY <1>1, <1>2 DEF StackInv, NothingIgnoredIsTaken
<1>6. SkippedAreEmpty'
  BY <1>1, <1>2 DEF StackInv, SkippedAreEmpty
<1>7. EnteringHasNoKey'
  <2>. SUFFICES ASSUME NEW i \in 1..n, stack'[i].at = "enter"
                PROVE  stack'[i].key = NoKey
    BY <1>1 DEF EnteringHasNoKey
  <2>1. i \in 1..(n - 1)
    BY <1>1
  <2>. QED
    BY <1>1, <2>1 DEF StackInv, EnteringHasNoKey
<1>. QED
  BY <1>3, <1>4, <1>5, <1>6, <1>7 DEF StackInv

\* A return that takes its own key out of symhash, or has none.
LEMMA TopReturns ==
  ASSUME StackInv, stack # << >>,
         stack' = Front(stack), symhash' = symhash \ {Top.key}, form' = form
  PROVE  StackInv'
<1>. DEFINE n == Len(stack)
<1>0. CallsNest
  BY DEF StackInv
<1>1. /\ n \in Nat /\ n >= 1 /\ Top = stack[n]
      /\ stack' \in Seq(FrameType) /\ Len(stack') = n - 1
      /\ \A i \in 1..(n - 1) : stack'[i] = stack[i]
  BY <1>0, TopFacts, FrontFacts
<1>3. CallsNest'
  <2>1. stack' \in Seq(FrameType) /\ Len(stack') <= MaxSearchDepth + 1
    BY <1>0, <1>1, DirWalkAssumption DEF CallsNest
  <2>2. \A i \in 1..Len(stack') :
          /\ Len(stack'[i].path) = i - 1
          /\ stack'[i].parents \subseteq 1..(i - 1)
          /\ stack'[i].at # "entries" => stack'[i].rest = {}
    <3>. SUFFICES ASSUME NEW i \in 1..(n - 1)
                  PROVE  /\ Len(stack'[i].path) = i - 1
                         /\ stack'[i].parents \subseteq 1..(i - 1)
                         /\ stack'[i].at # "entries" => stack'[i].rest = {}
      BY <1>1
    <3>1. i \in 1..n /\ stack'[i] = stack[i]
      BY <1>1
    <3>. QED
      BY <1>0, <3>1 DEF CallsNest
  <2>3. ASSUME NEW i \in 1..(Len(stack') - 1)
        PROVE  stack'[i].at = "entries" /\ Front(stack'[i + 1].path) = stack'[i].path
    <3>1. stack'[i] = stack[i] /\ stack'[i + 1] = stack[i + 1] /\ i \in 1..(n - 1)
      BY <1>1
    <3>3. stack[i].at = "entries" /\ Front(stack[i + 1].path) = stack[i].path
      BY <1>0, <3>1 DEF CallsNest
    <3>. QED
      BY <3>1, <3>3
  <2>. QED
    BY <2>1, <2>2, <2>3 DEF CallsNest
<1>4. LoopTable'
  BY <1>1 DEF StackInv, LoopTable
<1>5. NothingIgnoredIsTaken'
  BY <1>1 DEF StackInv, NothingIgnoredIsTaken
<1>6. SkippedAreEmpty'
  BY <1>1 DEF StackInv, SkippedAreEmpty
<1>7. EnteringHasNoKey'
  BY <1>1 DEF StackInv, EnteringHasNoKey
<1>. QED
  BY <1>3, <1>4, <1>5, <1>6, <1>7 DEF StackInv

-----------------------------------------------------------------------------
(* The actions (search.c:487-716). *)

LEMMA EnterKeeps ==
  ASSUME TypeOK, StackInv, Enter
  PROVE  StackInv'
<1>. DEFINE n == Len(stack)
<1>1. stack # << >> /\ Top.at = "enter" /\ form' = form
  BY DEF Enter, AtTop, inputVars
<1>2. PICK key \in Inode \ symhash :
        /\ symhash' = symhash \union {key}
        /\ stack' = SetTop([Top EXCEPT !.at = "list", !.key = key])
  BY DEF Enter
<1>3. CallsNest
  BY DEF StackInv
<1>4. n \in Nat /\ n >= 1 /\ Top \in FrameType /\ Top = stack[n] /\ Top.key = NoKey
  <2>1. n \in Nat /\ n >= 1 /\ Top \in FrameType /\ Top = stack[n]
    BY <1>1, <1>3, TopFacts
  <2>. QED
    BY <1>1, <2>1 DEF StackInv, EnteringHasNoKey
<1>. DEFINE frame == [Top EXCEPT !.at = "list", !.key = key]
<1>5. /\ frame \in FrameType /\ frame.key = key /\ frame.at = "list"
      /\ frame.path = Top.path /\ frame.parents = Top.parents /\ frame.ig = Top.ig
      /\ frame.rest = Top.rest
  BY <1>4 DEF FrameType
<1>6. /\ stack' \in Seq(FrameType) /\ Len(stack') = n /\ stack'[n] = frame
      /\ \A i \in 1..(n - 1) : stack'[i] = stack[i]
  BY <1>1, <1>2, <1>3, <1>5, SetTopFacts
<1>7. \A i \in 1..n :
        /\ stack'[i].path = stack[i].path /\ stack'[i].parents = stack[i].parents
        /\ stack'[i].ig = stack[i].ig /\ stack'[i].rest = stack[i].rest
  <2>. HIDE DEF frame
  <2>. TAKE i \in 1..n
  <2>1. CASE i = n
    BY <2>1, <1>4, <1>5, <1>6
  <2>2. CASE i # n
    <3>1. i \in 1..(n - 1)
      BY <1>4, <2>2
    <3>. QED
      BY <1>6, <3>1
  <2>. QED
    BY <2>1, <2>2
<1>. HIDE DEF frame
<1>8. CallsNest'
  <2>1. Top.rest = {}
    BY <1>1, <1>3, <1>4 DEF CallsNest
  <2>2. Len(stack') <= MaxSearchDepth + 1
    BY <1>3, <1>6 DEF CallsNest
  <2>3. ASSUME NEW i \in 1..n
        PROVE  /\ Len(stack'[i].path) = i - 1
               /\ stack'[i].parents \subseteq 1..(i - 1)
    BY <1>3, <1>7 DEF CallsNest
  <2>4. ASSUME NEW i \in 1..n
        PROVE  stack'[i].at # "entries" => stack'[i].rest = {}
    <3>1. CASE i = n
      BY <1>5, <1>6, <2>1, <3>1
    <3>2. CASE i # n
      <4>1. i \in 1..(n - 1)
        BY <1>4, <3>2
      <4>. QED
        BY <1>3, <1>6, <4>1 DEF CallsNest
    <3>. QED
      BY <3>1, <3>2
  <2>5. ASSUME NEW i \in 1..(n - 1)
        PROVE  stack'[i].at = "entries" /\ Front(stack'[i + 1].path) = stack'[i].path
    <3>1. stack'[i] = stack[i] /\ i \in 1..n /\ i + 1 \in 1..n
      BY <1>4, <1>6
    <3>2. stack'[i + 1].path = stack[i + 1].path
      BY <1>7, <3>1
    <3>3. stack[i].at = "entries" /\ Front(stack[i + 1].path) = stack[i].path
      BY <1>3 DEF CallsNest
    <3>. QED
      BY <3>1, <3>2, <3>3
  <2>. QED
    BY <1>6, <2>2, <2>3, <2>4, <2>5 DEF CallsNest
<1>9. LoopTable'
  <2>1. key # NoKey /\ key \notin symhash
    BY DirWalkAssumption DEF NoKey, Node
  <2>2. {stack'[i].key : i \in 1..n} = {stack[i].key : i \in 1..(n - 1)} \union {key}
    BY <1>4, <1>5, <1>6
  <2>3. {stack[i].key : i \in 1..n} = {stack[i].key : i \in 1..(n - 1)} \union {NoKey}
    BY <1>4
  <2>4. symhash' = {stack'[i].key : i \in 1..n} \ {NoKey}
    BY <1>2, <2>1, <2>2, <2>3 DEF StackInv, LoopTable
  <2>5. ASSUME NEW i \in 1..n, NEW j \in 1..n, i # j, stack'[i].key = stack'[j].key
        PROVE  stack'[i].key = NoKey
    <3>1. \A l \in 1..(n - 1) : stack[l].key # key
      BY <2>1, <1>4 DEF StackInv, LoopTable
    <3>2. i \in 1..(n - 1) /\ j \in 1..(n - 1)
      BY <1>4, <1>5, <1>6, <2>5, <3>1
    <3>. QED
      BY <1>4, <1>6, <2>5, <3>2 DEF StackInv, LoopTable
  <2>. QED
    BY <1>6, <2>4, <2>5 DEF LoopTable
<1>10. NothingIgnoredIsTaken' /\ SkippedAreEmpty'
  <2>1. NothingIgnoredIsTaken'
    BY <1>1, <1>4, <1>6, <1>7 DEF StackInv, NothingIgnoredIsTaken
  <2>2. SkippedAreEmpty'
    BY <1>4, <1>6, <1>7 DEF StackInv, SkippedAreEmpty
  <2>. QED
    BY <2>1, <2>2
<1>11. EnteringHasNoKey'
  <2>. SUFFICES ASSUME NEW i \in 1..n, stack'[i].at = "enter"
                PROVE  stack'[i].key = NoKey
    BY <1>6 DEF EnteringHasNoKey
  <2>1. i \in 1..(n - 1)
    BY <1>4, <1>5, <1>6
  <2>. QED
    BY <1>4, <1>6, <2>1 DEF StackInv, EnteringHasNoKey
<1>. QED
  BY <1>8, <1>9, <1>10, <1>11 DEF StackInv

LEMMA ListDirectoryKeeps ==
  ASSUME TypeOK, StackInv, ListDirectory
  PROVE  StackInv'
<1>. DEFINE n == Len(stack)
<1>1. stack # << >> /\ Top.at = "list" /\ form' = form /\ symhash' = symhash
  BY DEF ListDirectory, AtTop, inputVars
<1>2. PICK dir \in Dir :
        LET ig == [Top.ig EXCEPT !.patterns = patterns[dir]]
            igs == {ig} \union IgnoresAbove
            entries == {[name |-> nm, node |-> tree[dir][nm]] : nm \in DOMAIN tree[dir]}
        IN stack' = SetTop([Top EXCEPT !.at = "entries", !.ig = ig,
             !.rest = {e \in entries : filename_filter(igs, Top.path, e.name, e.node)}])
  BY DEF ListDirectory, ag_scandir
<1>. DEFINE ig == [Top.ig EXCEPT !.patterns = patterns[dir]]
            igs == {ig} \union IgnoresAbove
            entries == {[name |-> nm, node |-> tree[dir][nm]] : nm \in DOMAIN tree[dir]}
            rest == {e \in entries : filename_filter(igs, Top.path, e.name, e.node)}
            frame == [Top EXCEPT !.at = "entries", !.ig = ig, !.rest = rest]
<1>3. CallsNest
  BY DEF StackInv
<1>4. n \in Nat /\ n >= 1 /\ Top \in FrameType /\ Top = stack[n]
      /\ Top.parents \subseteq 1..(n - 1)
  BY <1>1, <1>3, TopFacts
<1>5. ig \in [patterns : SUBSET Pattern, abs_path : Path]
  <2>1. Top.ig \in [patterns : SUBSET Pattern, abs_path : Path]
    BY <1>4 DEF FrameType
  <2>2. patterns[dir] \in SUBSET Pattern
    BY DEF TypeOK
  <2>. QED
    BY <2>1, <2>2
<1>6. rest \subseteq [name : Name, node : Inode]
  <2>. SUFFICES ASSUME NEW e \in rest
                PROVE  e \in [name : Name, node : Inode]
    OBVIOUS
  <2>1. PICK nm \in DOMAIN tree[dir] : e = [name |-> nm, node |-> tree[dir][nm]]
    OBVIOUS
  <2>2. tree[dir] \in UNION {[S -> Node] : S \in SUBSET Name}
    BY DEF TypeOK, Tree
  <2>3. nm \in Name /\ tree[dir][nm] \in Node
    BY <2>2
  <2>4. e.node \notin {Symlink, Pipe}
    BY DEF filename_filter
  <2>. QED
    BY <2>1, <2>3, <2>4 DEF Node
<1>7. /\ frame \in FrameType /\ frame.at = "entries" /\ frame.key = Top.key
      /\ frame.path = Top.path /\ frame.parents = Top.parents /\ frame.ig = ig
      /\ frame.rest = rest
  <2>. HIDE DEF ig, rest
  <2>. QED
    BY <1>4, <1>5, <1>6 DEF FrameType
<1>8. /\ stack' \in Seq(FrameType) /\ Len(stack') = n /\ stack'[n] = frame
      /\ \A i \in 1..(n - 1) : stack'[i] = stack[i]
  <2>1. stack' = SetTop(frame)
    BY <1>2
  <2>. HIDE DEF frame
  <2>. QED
    BY <1>1, <1>3, <1>7, <2>1, SetTopFacts
<1>9. ASSUME NEW e \in rest, NEW j \in 1..n
      PROVE  ~Excludes(stack'[j].ig, form, Top.path, e.name, e.node)
  <2>1. \A g \in igs : ~Excludes(g, form, Top.path, e.name, e.node)
    BY DEF filename_filter
  <2>2. CASE j = n
    <3>. HIDE DEF ig, frame, rest
    <3>. QED
      BY <1>7, <1>8, <2>1, <2>2
  <2>3. CASE j # n
    <3>1. j \in 1..(n - 1) /\ stack'[j] = stack[j]
      BY <1>4, <1>8, <2>3
    <3>2. CASE j \in Top.parents
      <4>1. stack[j].ig \in igs
        BY <3>2 DEF IgnoresAbove
      <4>. QED
        BY <2>1, <3>1, <4>1
    <3>3. CASE j \notin Top.parents
      <4>1. is_empty(stack[j].ig.patterns)
        BY <1>4, <3>1, <3>3 DEF StackInv, SkippedAreEmpty
      <4>. QED
        BY <3>1, <4>1, EmptyExcludesNothing
    <3>. QED
      BY <3>2, <3>3
  <2>. QED
    BY <2>2, <2>3
<1>. HIDE DEF frame, rest, ig
<1>10. \A i \in 1..n :
        /\ stack'[i].path = stack[i].path /\ stack'[i].parents = stack[i].parents
        /\ stack'[i].key = stack[i].key
  <2>. TAKE i \in 1..n
  <2>1. CASE i = n
    BY <2>1, <1>4, <1>7, <1>8
  <2>2. CASE i # n
    <3>1. i \in 1..(n - 1)
      BY <1>4, <2>2
    <3>. QED
      BY <1>8, <3>1
  <2>. QED
    BY <2>1, <2>2
<1>11. CallsNest'
  <2>2. Len(stack') <= MaxSearchDepth + 1
    BY <1>3, <1>8 DEF CallsNest
  <2>3. ASSUME NEW i \in 1..n
        PROVE  /\ Len(stack'[i].path) = i - 1
               /\ stack'[i].parents \subseteq 1..(i - 1)
    BY <1>3, <1>10 DEF CallsNest
  <2>4. ASSUME NEW i \in 1..n
        PROVE  stack'[i].at # "entries" => stack'[i].rest = {}
    <3>1. CASE i = n
      BY <1>7, <1>8, <3>1
    <3>2. CASE i # n
      <4>1. i \in 1..(n - 1)
        BY <1>4, <3>2
      <4>. QED
        BY <1>3, <1>8, <4>1 DEF CallsNest
    <3>. QED
      BY <3>1, <3>2
  <2>5. ASSUME NEW i \in 1..(n - 1)
        PROVE  stack'[i].at = "entries" /\ Front(stack'[i + 1].path) = stack'[i].path
    <3>1. stack'[i] = stack[i] /\ i \in 1..n /\ i + 1 \in 1..n
      BY <1>4, <1>8
    <3>2. stack'[i + 1].path = stack[i + 1].path
      BY <1>10, <3>1
    <3>3. stack[i].at = "entries" /\ Front(stack[i + 1].path) = stack[i].path
      BY <1>3 DEF CallsNest
    <3>. QED
      BY <3>1, <3>2, <3>3
  <2>. QED
    BY <1>8, <2>2, <2>3, <2>4, <2>5 DEF CallsNest
<1>12. LoopTable'
  BY <1>1, <1>8, <1>10 DEF StackInv, LoopTable
<1>13. NothingIgnoredIsTaken'
  <2>. SUFFICES ASSUME NEW i \in 1..n, NEW e \in stack'[i].rest, NEW j \in 1..i
                PROVE  ~Excludes(stack'[j].ig, form, stack'[i].path, e.name, e.node)
    BY <1>1, <1>8 DEF NothingIgnoredIsTaken
  <2>1. CASE i = n
    <3>1. e \in rest /\ stack'[i].path = Top.path /\ j \in 1..n
      BY <2>1, <1>4, <1>7, <1>8
    <3>. QED
      BY <1>9, <3>1
  <2>2. CASE i # n
    <3>1. i \in 1..(n - 1) /\ j \in 1..(n - 1)
      BY <1>4, <2>2
    <3>. QED
      BY <1>4, <1>8, <3>1 DEF StackInv, NothingIgnoredIsTaken
  <2>. QED
    BY <2>1, <2>2
<1>14. SkippedAreEmpty'
  <2>. SUFFICES ASSUME NEW i \in 1..n, NEW j \in 1..(i - 1), j \notin stack'[i].parents
                PROVE  is_empty(stack'[j].ig.patterns)
    BY <1>8 DEF SkippedAreEmpty
  <2>1. j \in 1..(n - 1) /\ stack'[j] = stack[j] /\ stack'[i].parents = stack[i].parents
    BY <1>4, <1>8, <1>10
  <2>. QED
    BY <2>1 DEF StackInv, SkippedAreEmpty
<1>15. EnteringHasNoKey'
  <2>. SUFFICES ASSUME NEW i \in 1..n, stack'[i].at = "enter"
                PROVE  stack'[i].key = NoKey
    BY <1>8 DEF EnteringHasNoKey
  <2>1. i \in 1..(n - 1)
    BY <1>4, <1>7, <1>8
  <2>. QED
    BY <1>4, <1>8, <2>1 DEF StackInv, EnteringHasNoKey
<1>. QED
  BY <1>11, <1>12, <1>13, <1>14, <1>15 DEF StackInv

\* The ignores of a new call: those its parent reaches, and the parent's own unless empty.
LEMMA SearchSubdirectoryKeeps ==
  ASSUME TypeOK, StackInv, SearchSubdirectory
  PROVE  StackInv'
<1>. DEFINE n == Len(stack)
<1>1. stack # << >> /\ Top.at = "entries" /\ form' = form /\ symhash' = symhash
  BY DEF SearchSubdirectory, AtTop, inputVars
<1>2. PICK e \in Top.rest :
        /\ MaySearchDeeper
        /\ LET path == Append(Top.path, e.name)
           IN stack' = Append(SetTop(Without(e)), Frame(path, init_ignore(path), Parents))
  BY DEF SearchSubdirectory
<1>. DEFINE path == Append(Top.path, e.name)
            low == SetTop(Without(e))
            new == Frame(path, init_ignore(path), Parents)
<1>3. CallsNest
  BY DEF StackInv
<1>4. n \in Nat /\ n >= 1 /\ Top \in FrameType /\ Top = stack[n]
      /\ Len(Top.path) = n - 1 /\ Top.parents \subseteq 1..(n - 1)
  BY <1>1, <1>3, TopFacts
<1>5. Top.path \in Path /\ e.name \in Name /\ Top.ig.abs_path \in Path
  BY <1>4 DEF FrameType
<1>6. path \in Path /\ Len(path) = n /\ Last(path) = e.name /\ Front(path) = Top.path
  <2>1. path \in Path /\ Len(path) = n /\ path[n] = e.name
    BY <1>4, <1>5 DEF Path
  <2>2. Front(path) = Top.path
    <3>1. Len(Top.path) = n - 1 /\ Top.path \in Seq(Name)
      BY <1>4, <1>5 DEF Path
    <3>2. SubSeq(path, 1, n - 1) = Top.path
      BY <1>4, <1>5, <3>1
    <3>. QED
      BY <2>1, <3>2 DEF Front
  <2>. QED
    BY <2>1, <2>2 DEF Last
<1>7. new \in FrameType /\ new.at = "enter" /\ new.key = NoKey /\ new.path = path
      /\ new.parents = Parents /\ new.rest = {} /\ Parents \subseteq 1..n
  <2>1. init_ignore(path) \in [patterns : SUBSET Pattern, abs_path : Path]
    BY <1>5, <1>6 DEF init_ignore, Path
  <2>2. Parents \subseteq 1..n /\ Parents \in SUBSET Nat
    BY <1>4 DEF Parents
  <2>. HIDE DEF path
  <2>. QED
    BY <1>6, <2>1, <2>2 DEF Frame, FrameType
<1>8. Without(e) \in FrameType /\ Without(e).path = Top.path
      /\ Without(e).parents = Top.parents /\ Without(e).ig = Top.ig
      /\ Without(e).key = Top.key /\ Without(e).rest \subseteq Top.rest
      /\ Without(e).at = "entries"
  BY <1>1, <1>4 DEF Without, FrameType
<1>9. /\ low \in Seq(FrameType) /\ Len(low) = n /\ low[n] = Without(e)
      /\ \A i \in 1..(n - 1) : low[i] = stack[i]
  BY <1>1, <1>3, <1>8, SetTopFacts
<1>10. /\ stack' \in Seq(FrameType) /\ Len(stack') = n + 1 /\ stack'[n + 1] = new
       /\ stack'[n] = Without(e)
       /\ \A i \in 1..(n - 1) : stack'[i] = stack[i]
  <2>1. stack' = Append(low, new)
    BY <1>2
  <2>. HIDE DEF low, new
  <2>. QED
    BY <1>4, <1>7, <1>9, <2>1
<1>. HIDE DEF low, new, path
<1>11. \A i \in 1..n :
        /\ stack'[i].path = stack[i].path /\ stack'[i].parents = stack[i].parents
        /\ stack'[i].ig = stack[i].ig /\ stack'[i].key = stack[i].key
        /\ stack'[i].rest \subseteq stack[i].rest /\ stack'[i].at = "entries"
  <2>. TAKE i \in 1..n
  <2>1. CASE i = n
    BY <2>1, <1>4, <1>8, <1>10
  <2>2. CASE i # n
    <3>1. i \in 1..(n - 1)
      BY <1>4, <2>2
    <3>. QED
      BY <1>3, <1>10, <3>1 DEF CallsNest
  <2>. QED
    BY <2>1, <2>2
<1>12. CallsNest'
  <2>1. Len(stack') <= MaxSearchDepth + 1
    BY <1>2, <1>4, <1>10, DirWalkAssumption DEF MaySearchDeeper
  <2>2. ASSUME NEW i \in 1..(n + 1)
        PROVE  /\ Len(stack'[i].path) = i - 1
               /\ stack'[i].parents \subseteq 1..(i - 1)
               /\ stack'[i].at # "entries" => stack'[i].rest = {}
    <3>1. CASE i = n + 1
      <4>1. stack'[i] = new /\ i - 1 = n
        BY <1>4, <1>10, <3>1
      <4>. QED
        BY <1>6, <1>7, <4>1
    <3>2. CASE i # n + 1
      <4>1. i \in 1..n
        BY <1>4, <3>2
      <4>2. Len(stack[i].path) = i - 1 /\ stack[i].parents \subseteq 1..(i - 1)
        BY <1>3, <4>1 DEF CallsNest
      <4>. QED
        BY <1>11, <4>1, <4>2
    <3>. QED
      BY <3>1, <3>2
  <2>3. ASSUME NEW i \in 1..n
        PROVE  stack'[i].at = "entries" /\ Front(stack'[i + 1].path) = stack'[i].path
    <3>1. stack'[i].at = "entries" /\ stack'[i].path = stack[i].path
      BY <1>11
    <3>2. CASE i = n
      BY <1>4, <1>6, <1>7, <1>10, <3>1, <3>2
    <3>3. CASE i # n
      <4>1. i \in 1..(n - 1) /\ i + 1 \in 1..n
        BY <1>4, <3>3
      <4>2. Front(stack[i + 1].path) = stack[i].path
        BY <1>3, <4>1 DEF CallsNest
      <4>3. stack'[i + 1].path = stack[i + 1].path
        BY <1>11, <4>1
      <4>. QED
        BY <3>1, <4>2, <4>3
    <3>. QED
      BY <3>2, <3>3
  <2>. QED
    BY <1>4, <1>10, <2>1, <2>2, <2>3 DEF CallsNest
<1>13. LoopTable'
  <2>1. {stack'[i].key : i \in 1..(n + 1)} = {stack[i].key : i \in 1..n} \union {NoKey}
    BY <1>4, <1>7, <1>10, <1>11
  <2>2. ASSUME NEW i \in 1..(n + 1), NEW j \in 1..(n + 1), i # j, stack'[i].key = stack'[j].key
        PROVE  stack'[i].key = NoKey
    <3>1. CASE i = n + 1 \/ j = n + 1
      BY <1>7, <1>10, <2>2, <3>1
    <3>2. CASE ~(i = n + 1 \/ j = n + 1)
      <4>1. i \in 1..n /\ j \in 1..n
        BY <1>4, <3>2
      <4>. QED
        BY <1>11, <2>2, <4>1 DEF StackInv, LoopTable
    <3>. QED
      BY <3>1, <3>2
  <2>. QED
    BY <1>1, <1>10, <2>1, <2>2 DEF StackInv, LoopTable
<1>14. NothingIgnoredIsTaken'
  <2>. SUFFICES ASSUME NEW i \in 1..(n + 1), NEW x \in stack'[i].rest, NEW j \in 1..i
                PROVE  ~Excludes(stack'[j].ig, form, stack'[i].path, x.name, x.node)
    BY <1>1, <1>10 DEF NothingIgnoredIsTaken
  <2>1. i # n + 1
    BY <1>7, <1>10
  <2>2. i \in 1..n /\ j \in 1..n
    BY <1>4, <2>1
  <2>3. /\ stack'[j].ig = stack[j].ig /\ stack'[i].path = stack[i].path
        /\ x \in stack[i].rest
    BY <1>11, <2>2
  <2>. QED
    BY <2>2, <2>3 DEF StackInv, NothingIgnoredIsTaken
<1>15. SkippedAreEmpty'
  <2>. SUFFICES ASSUME NEW i \in 1..(n + 1), NEW j \in 1..(i - 1), j \notin stack'[i].parents
                PROVE  is_empty(stack'[j].ig.patterns)
    BY <1>10 DEF SkippedAreEmpty
  <2>1. j \in 1..n /\ stack'[j].ig = stack[j].ig
    BY <1>4, <1>11
  <2>2. CASE i = n + 1
    <3>1. j \notin Parents
      BY <1>7, <1>10, <2>2
    <3>2. CASE j = n
      BY <1>4, <2>1, <3>1, <3>2 DEF Parents
    <3>3. CASE j # n
      <4>1. j \in 1..(n - 1) /\ j \notin Top.parents
        BY <1>4, <2>1, <3>1, <3>3 DEF Parents
      <4>. QED
        BY <1>4, <2>1, <4>1 DEF StackInv, SkippedAreEmpty
    <3>. QED
      BY <3>2, <3>3
  <2>3. CASE i # n + 1
    <3>1. i \in 1..n /\ stack'[i].parents = stack[i].parents
      BY <1>4, <1>11, <2>3
    <3>. QED
      BY <2>1, <3>1 DEF StackInv, SkippedAreEmpty
  <2>. QED
    BY <2>2, <2>3
<1>16. EnteringHasNoKey'
  <2>. SUFFICES ASSUME NEW i \in 1..(n + 1), stack'[i].at = "enter"
                PROVE  stack'[i].key = NoKey
    BY <1>10 DEF EnteringHasNoKey
  <2>1. i = n + 1
    BY <1>4, <1>11
  <2>. QED
    BY <1>7, <1>10, <2>1
<1>. QED
  BY <1>12, <1>13, <1>14, <1>15, <1>16 DEF StackInv

\* The other steps of the walk.
LEMMA WalkKeepsStack ==
  ASSUME TypeOK, StackInv, Walk
  PROVE  StackInv'
<1>1. stack # << >> => Top \in FrameType
  BY TopFacts DEF StackInv
<1>. DEFINE unread == [Top EXCEPT !.at = "list"]
            read == [Top EXCEPT !.at = "entries"]
<1>2. stack # << >> =>
        /\ unread \in FrameType /\ unread.at = "list"
        /\ read \in FrameType /\ read.at = "entries"
        /\ \A f \in {unread, read} :
             /\ f.path = Top.path /\ f.parents = Top.parents /\ f.ig = Top.ig
             /\ f.key = Top.key /\ f.rest = Top.rest
  BY <1>1 DEF FrameType
<1>3. stack # << >> => \A e \in Top.rest :
        /\ Without(e) \in FrameType /\ Without(e).at = Top.at
        /\ Without(e).path = Top.path /\ Without(e).parents = Top.parents
        /\ Without(e).ig = Top.ig /\ Without(e).key = Top.key
        /\ Without(e).rest \subseteq Top.rest
  BY <1>1 DEF FrameType, Without
<1>4. stack # << >> /\ Top.at # "entries" => Top.rest = {}
  BY TopFacts DEF StackInv, CallsNest
<1>. HIDE DEF unread, read
<1>5. CASE EnterFails
  <2>1. stack # << >> /\ Top.at = "enter" /\ stack' = SetTop(unread)
        /\ symhash' = symhash /\ form' = form
    BY <1>5 DEF EnterFails, AtTop, inputVars, unread
  <2>. QED
    BY <1>2, <1>4, <2>1, TopGoesOn
<1>6. CASE Enter
  BY <1>6, EnterKeeps
<1>7. CASE EnterLoop
  <2>1. stack # << >> /\ Top.at = "enter" /\ stack' = Front(stack)
        /\ symhash' = symhash /\ form' = form
    BY <1>7 DEF EnterLoop, AtTop, inputVars
  <2>2. Top.key = NoKey
    BY <2>1, TopFacts DEF StackInv, EnteringHasNoKey
  <2>3. symhash' = symhash \ {Top.key}
    BY <2>1, <2>2, DirWalkAssumption DEF TypeOK, NoKey, Node
  <2>. QED
    BY <2>1, <2>3, TopReturns
<1>8. CASE ListDirectory
  BY <1>8, ListDirectoryKeeps
<1>9. CASE SearchItself \/ ListFails
  <2>1. stack # << >> /\ Top.at = "list" /\ stack' = SetTop(read)
        /\ symhash' = symhash /\ form' = form
    BY <1>9 DEF SearchItself, ListFails, AtTop, inputVars, read
  <2>. QED
    BY <1>2, <1>4, <2>1, TopGoesOn
<1>10. CASE QueueFile \/ SkipDeep
  <2>1. stack # << >> /\ Top.at = "entries" /\ symhash' = symhash /\ form' = form
    BY <1>10 DEF QueueFile, SkipDeep, AtTop, inputVars
  <2>2. PICK e \in Top.rest : stack' = SetTop(Without(e))
    BY <1>10 DEF QueueFile, SkipDeep
  <2>. QED
    BY <1>3, <2>1, <2>2, TopGoesOn
<1>11. CASE SearchSubdirectory
  BY <1>11, SearchSubdirectoryKeeps
<1>12. CASE Leave
  BY <1>12, TopReturns DEF Leave, AtTop, inputVars
<1>. QED
  BY <1>5, <1>6, <1>7, <1>8, <1>9, <1>10, <1>11, <1>12 DEF Walk

\* The variables that are not the stack.
LEMMA WalkKeepsTypes ==
  ASSUME TypeOK, StackInv', Walk
  PROVE  TypeOK'
<1>1. UNCHANGED <<diskVars, inputVars>>
  BY DEF Walk, EnterFails, Enter, EnterLoop, ListDirectory, SearchItself, ListFails,
         QueueFile, SearchSubdirectory, SkipDeep, Leave
<1>2. symhash' \subseteq Inode
  BY DEF TypeOK, Walk, EnterFails, Enter, EnterLoop, ListDirectory, SearchItself, ListFails,
         QueueFile, SearchSubdirectory, SkipDeep, Leave
<1>3. stack # << >> => Top.path \in Path /\ \A e \in Top.rest : e.name \in Name
  BY TopFacts DEF TypeOK, FrameType
<1>4. work_queue' \in Seq(Path) /\ searched' \subseteq Path
  <2>1. CASE QueueFile
    <3>1. stack # << >> /\ searched' = searched
      BY <2>1 DEF QueueFile, AtTop
    <3>2. PICK e \in Top.rest : work_queue' = Append(work_queue, Append(Top.path, e.name))
      BY <2>1 DEF QueueFile
    <3>3. Append(Top.path, e.name) \in Path
      BY <1>3, <3>1 DEF Path
    <3>. QED
      BY <3>1, <3>2, <3>3 DEF TypeOK
  <2>2. CASE SearchItself
    BY <1>3, <2>2 DEF SearchItself, AtTop, TypeOK
  <2>3. CASE ~QueueFile /\ ~SearchItself
    <3>1. work_queue' = work_queue /\ searched' = searched
      BY <2>3 DEF Walk, EnterFails, Enter, EnterLoop, ListDirectory, ListFails,
                  SearchSubdirectory, SkipDeep, Leave
    <3>. QED
      BY <3>1 DEF TypeOK
  <2>. QED
    BY <2>1, <2>2, <2>3
<1>. QED
  BY <1>1, <1>2, <1>4 DEF TypeOK, StackInv, diskVars, inputVars

LEMMA ChangesKeep ==
  ASSUME IInv, RemoveEntry \/ ReplaceDirectory
  PROVE  IInv'
<1>1. PICK d \in Dir, n \in Name :
        /\ MayChange(d, n)
        /\ \/ tree' = [tree EXCEPT ![d] = [m \in DOMAIN tree[d] \ {n} |-> tree[d][m]]]
           \/ tree' = [tree EXCEPT ![d][n] = NewFile]
  BY DEF RemoveEntry, ReplaceDirectory
<1>2. n \in DOMAIN tree[d] /\ changed' = changed \union {<<d, n>>}
      /\ UNCHANGED <<root, inputVars, stack, symhash, work_queue, searched>>
  BY <1>1 DEF MayChange
<1>3. tree \in Tree /\ tree[d] \in UNION {[S -> Node] : S \in SUBSET Name}
  BY DEF IInv, TypeOK, Tree
<1>4. PICK S \in SUBSET Name : tree[d] \in [S -> Node]
  BY <1>3
<1>5. [m \in DOMAIN tree[d] \ {n} |-> tree[d][m]] \in UNION {[T -> Node] : T \in SUBSET Name}
  <2>1. [m \in DOMAIN tree[d] \ {n} |-> tree[d][m]] \in [S \ {n} -> Node]
    BY <1>4
  <2>. QED
    BY <2>1
<1>6. [tree[d] EXCEPT ![n] = NewFile] \in UNION {[T -> Node] : T \in SUBSET Name}
  <2>1. NewFile \in Node
    BY DirWalkAssumption DEF Node, Inode
  <2>2. [tree[d] EXCEPT ![n] = NewFile] \in [S -> Node]
    BY <1>4, <2>1
  <2>. QED
    BY <2>2
<1>7. tree' \in Tree
  <2>. DEFINE Directories == UNION {[T -> Node] : T \in SUBSET Name}
  <2>1. \A x : x \in Directories => [tree EXCEPT ![d] = x] \in [Dir -> Directories]
    <3>1. tree \in [Dir -> Directories]
      BY <1>3 DEF Tree
    <3>. HIDE DEF Directories
    <3>. QED
      BY <3>1
  <2>2. [tree EXCEPT ![d][n] = NewFile] = [tree EXCEPT ![d] = [tree[d] EXCEPT ![n] = NewFile]]
    OBVIOUS
  <2>3. [m \in DOMAIN tree[d] \ {n} |-> tree[d][m]] \in Directories
        /\ [tree[d] EXCEPT ![n] = NewFile] \in Directories
    BY <1>5, <1>6
  <2>4. Tree = [Dir -> Directories]
    BY DEF Tree
  <2>. HIDE DEF Directories
  <2>. QED
    BY <1>1, <2>1, <2>2, <2>3, <2>4
<1>8. StackInv'
  BY <1>2 DEF IInv, StackInv, inputVars, CallsNest, LoopTable, NothingIgnoredIsTaken,
              SkippedAreEmpty, EnteringHasNoKey
<1>9. changed' \subseteq Dir \X Name
  BY <1>2 DEF IInv, TypeOK
<1>. QED
  BY <1>2, <1>7, <1>8, <1>9 DEF IInv, TypeOK, StackInv, inputVars

LEMMA InitHolds ==
  ASSUME Init
  PROVE  IInv
<1>. DEFINE frame == Frame(<< >>, NoIgnores, {})
<1>1. PICK disk \in Disks : root = disk.root /\ tree = disk.tree /\ before = disk.tree
  BY DEF Init
<1>2. root \in Inode \union {Absent} /\ tree \in Tree /\ before \in Tree
  BY <1>1, DirWalkAssumption
<1>3. patterns \in [Dir -> SUBSET Pattern] /\ form \in {"dot", "named", "absolute"}
  BY DirWalkAssumption DEF Init
<1>4. frame \in FrameType /\ frame.at = "enter" /\ frame.key = NoKey /\ frame.rest = {}
      /\ frame.path = << >> /\ frame.parents = {}
  BY DEF Frame, FrameType, NoIgnores, Path
<1>5. stack = <<frame>> /\ symhash = {} /\ work_queue = << >> /\ searched = {} /\ changed = {}
  BY DEF Init
<1>. HIDE DEF frame
<1>6. stack \in Seq(FrameType) /\ Len(stack) = 1 /\ stack[1] = frame
  BY <1>4, <1>5
<1>7. CallsNest
  BY <1>4, <1>6, DirWalkAssumption DEF CallsNest
<1>8. LoopTable /\ NothingIgnoredIsTaken /\ SkippedAreEmpty /\ EnteringHasNoKey
  BY <1>4, <1>5, <1>6 DEF LoopTable, NothingIgnoredIsTaken, SkippedAreEmpty, EnteringHasNoKey
<1>. QED
  BY <1>2, <1>3, <1>5, <1>7, <1>8 DEF IInv, StackInv, TypeOK

-----------------------------------------------------------------------------
(* The theorems. *)

\* The inductive invariant holds of every behaviour of the walk.
THEOREM WalkInvariant == Spec => []IInv
<1>1. IInv /\ [Next]_vars => IInv'
  <2>. SUFFICES ASSUME IInv, [Next]_vars
                PROVE  IInv'
    OBVIOUS
  <2>1. CASE Walk
    BY <2>1, WalkKeepsStack, WalkKeepsTypes DEF IInv
  <2>2. CASE RemoveEntry \/ ReplaceDirectory
    BY <2>2, ChangesKeep
  <2>3. CASE UNCHANGED vars
    BY <2>3 DEF IInv, TypeOK, StackInv, CallsNest, LoopTable, NothingIgnoredIsTaken,
                SkippedAreEmpty, EnteringHasNoKey, vars, diskVars, inputVars
  <2>. QED
    BY <2>1, <2>2, <2>3 DEF Next, Finished
<1>. QED
  BY <1>1, InitHolds, PTL DEF Spec

\* The state keeps its shape: the calls never nest deeper than the limit, and each has the
\* path of an entry of the call below (search.c:547-716).
THEOREM WalkTypeCorrect == Spec => []TypeOK
BY WalkInvariant, PTL DEF IInv

\* symhash is exactly the directories being searched, whatever loops the directories form
\* and whatever fails or changes (search.c:487-540).
THEOREM LoopTableIsStack == Spec => []LoopTable
BY WalkInvariant, PTL DEF IInv, StackInv

\* Following only the parents that are not empty excludes as much as following all of them:
\* nothing ignored by any directory above is taken up (ignore.c:62-66, 345-373).
THEOREM NoIgnoredEntryTaken == Spec => []NothingIgnoredIsTaken
BY WalkInvariant, PTL DEF IInv, StackInv

-----------------------------------------------------------------------------
(* Paths. *)

LEMMA PathLength ==
  ASSUME NEW p \in Path
  PROVE  Len(p) \in Nat /\ \A i \in 1..Len(p) : p[i] \in Name
BY LenProperties, ElementOfSeq DEF Path

LEMMA SamePath ==
  ASSUME NEW p \in Path, NEW q \in Path, Len(p) = Len(q), \A i \in 1..Len(p) : p[i] = q[i]
  PROVE  p = q
BY SeqEqual DEF Path

\* The directories above a path, itself included.
LEMMA AboveFacts ==
  ASSUME NEW p \in Path, NEW k \in 0..Len(p)
  PROVE  /\ Above(p, k) \in Path /\ Len(Above(p, k)) = k
         /\ \A i \in 1..k : Above(p, k)[i] = p[i]
<1>1. Len(p) \in Nat /\ k \in Int /\ k >= 0 /\ \A i \in 1..k : p[i] \in Name
  BY PathLength
<1>2. /\ SubSeq(p, 1, k) \in Seq(Name)
      /\ Len(SubSeq(p, 1, k)) = IF 1 <= k THEN k - 1 + 1 ELSE 0
      /\ \A i \in 1..(k - 1 + 1) : SubSeq(p, 1, k)[i] = p[1 + i - 1]
  BY <1>1, SubSeqProperties
<1>3. Len(SubSeq(p, 1, k)) = k
  BY <1>1, <1>2
<1>4. \A i \in 1..k : i \in 1..(k - 1 + 1) /\ 1 + i - 1 = i
  BY <1>1
<1>5. \A i \in 1..k : SubSeq(p, 1, k)[i] = p[i]
  BY <1>2, <1>4
<1>. QED
  BY <1>2, <1>3, <1>5 DEF Above, Path

LEMMA AboveAll ==
  ASSUME NEW p \in Path
  PROVE  Above(p, Len(p)) = p /\ Above(p, 0) = << >>
<1>1. Len(p) \in Nat /\ 0 \in 0..Len(p) /\ Len(p) \in 0..Len(p)
  BY PathLength
<1>2. Above(p, Len(p)) = p
  BY <1>1, AboveFacts, SamePath
<1>3. Above(p, 0) \in Path /\ Len(Above(p, 0)) = 0
  BY <1>1, AboveFacts
<1>. QED
  BY <1>2, <1>3, EmptySeq DEF Path

LEMMA AboveAbove ==
  ASSUME NEW p \in Path, NEW k \in 0..Len(p), NEW j \in 0..k
  PROVE  Above(Above(p, k), j) = Above(p, j)
<1>1. Len(p) \in Nat /\ j \in 0..Len(p) /\ \A i \in 1..j : i \in 1..k
  BY PathLength
<1>2. Above(p, k) \in Path /\ Len(Above(p, k)) = k /\ \A i \in 1..k : Above(p, k)[i] = p[i]
  BY AboveFacts
<1>3. /\ Above(p, j) \in Path /\ Len(Above(p, j)) = j
      /\ \A i \in 1..j : Above(p, j)[i] = p[i]
  BY <1>1, AboveFacts
<1>. DEFINE q == Above(p, k)
<1>4. /\ Above(q, j) \in Path /\ Len(Above(q, j)) = j
      /\ \A i \in 1..j : Above(q, j)[i] = q[i]
  <2>1. q \in Path /\ j \in 0..Len(q)
    BY <1>2
  <2>. HIDE DEF q
  <2>. QED
    BY <2>1, AboveFacts
<1>. QED
  BY <1>1, <1>2, <1>3, <1>4, SamePath

\* The entry n of directory p.
LEMMA EntryPath ==
  ASSUME NEW p \in Path, NEW n \in Name
  PROVE  LET q == Append(p, n) IN
         /\ q \in Path /\ q # << >> /\ Len(q) = Len(p) + 1
         /\ Last(q) = n /\ q[Len(q)] = n /\ Front(q) = p
         /\ \A k \in 0..Len(p) : Above(q, k) = Above(p, k)
<1>. DEFINE q == Append(p, n)
<1>1. /\ q \in Path /\ q # << >> /\ Len(q) = Len(p) + 1 /\ q[Len(p) + 1] = n
      /\ \A i \in 1..Len(p) : q[i] = p[i]
  BY AppendProperties DEF Path
<1>2. Len(p) \in Nat
  BY PathLength
<1>. HIDE DEF q
<1>3. ASSUME NEW k \in 0..Len(p) PROVE Above(q, k) = Above(p, k)
  <2>1. k \in 0..Len(q) /\ \A i \in 1..k : i \in 1..Len(p)
    BY <1>1, <1>2
  <2>. QED
    BY <1>1, <2>1, AboveFacts, SamePath
<1>4. Front(q) = p
  <2>1. Front(q) = Above(q, Len(p))
    BY <1>1, <1>2 DEF Front, Above
  <2>2. Len(p) \in 0..Len(p)
    BY <1>2
  <2>. QED
    BY <1>3, <2>1, <2>2, AboveAll
<1>. QED
  BY <1>1, <1>2, <1>3, <1>4 DEF Last, q

LEMMA PathEntry ==
  ASSUME NEW p \in Path, p # << >>
  PROVE  /\ Len(p) \in Nat \ {0} /\ Front(p) = Above(p, Len(p) - 1)
         /\ Last(p) = p[Len(p)] /\ Last(p) \in Name
<1>1. Len(p) \in Nat \ {0}
  BY EmptySeq DEF Path
<1>. QED
  BY <1>1, PathLength DEF Front, Last, Above

LEMMA PrefixIsAbove ==
  ASSUME NEW p \in Path, NEW q \in Path
  PROVE  IsPrefix(p, q) <=> Len(p) <= Len(q) /\ Above(q, Len(p)) = p
BY AboveAll DEF IsPrefix, Above

\* What lies below an entry lies below the directory.
LEMMA PrefixOfEntry ==
  ASSUME NEW p \in Path, NEW n \in Name, NEW q \in Path
  PROVE  IsPrefix(Append(p, n), q) <=> Len(p) < Len(q) /\ IsPrefix(p, q) /\ q[Len(p) + 1] = n
<1>. DEFINE e == Append(p, n)
<1>1. /\ e \in Path /\ Len(e) = Len(p) + 1 /\ e[Len(e)] = n
      /\ Above(e, Len(p)) = Above(p, Len(p)) /\ Len(p) \in Nat /\ Len(q) \in Nat
  BY EntryPath, PathLength
<1>2. Above(p, Len(p)) = p
  BY AboveAll
<1>. HIDE DEF e
<1>3. ASSUME IsPrefix(e, q) PROVE Len(p) < Len(q) /\ IsPrefix(p, q) /\ q[Len(p) + 1] = n
  <2>1. Len(e) <= Len(q) /\ Above(q, Len(e)) = e
    BY <1>1, <1>3, PrefixIsAbove
  <2>2. Len(e) \in 0..Len(q) /\ Len(p) \in 0..Len(e) /\ Len(p) + 1 \in 1..Len(e)
    BY <1>1, <2>1
  <2>3. Above(q, Len(p)) = p
    BY <1>1, <1>2, <2>1, <2>2, AboveAbove
  <2>4. q[Len(p) + 1] = n
    BY <1>1, <2>1, <2>2, AboveFacts
  <2>. QED
    BY <1>1, <2>1, <2>3, <2>4, PrefixIsAbove
<1>4. ASSUME Len(p) < Len(q), IsPrefix(p, q), q[Len(p) + 1] = n PROVE IsPrefix(e, q)
  <2>1. Above(q, Len(p)) = p
    BY <1>4, PrefixIsAbove
  <2>2. Len(e) \in 0..Len(q) /\ Len(e) <= Len(q)
    BY <1>1, <1>4
  <2>3. \A i \in 1..Len(e) : e[i] = q[i]
    <3>. SUFFICES ASSUME NEW i \in 1..Len(e) PROVE e[i] = q[i]
      OBVIOUS
    <3>1. CASE i = Len(e)
      BY <1>1, <1>4, <3>1
    <3>2. CASE i # Len(e)
      <4>1. i \in 1..Len(p) /\ Len(p) \in 0..Len(e) /\ Len(p) \in 0..Len(q)
        BY <1>1, <1>4, <3>2
      <4>2. Above(e, Len(p)) = p /\ Above(e, Len(p))[i] = e[i] /\ Above(q, Len(p))[i] = q[i]
        BY <1>1, <1>2, <4>1, AboveFacts
      <4>. QED
        BY <2>1, <4>2
    <3>. QED
      BY <3>1, <3>2
  <2>4. Above(q, Len(e)) = e
    <3>1. Above(q, Len(e)) \in Path /\ Len(Above(q, Len(e))) = Len(e)
          /\ \A i \in 1..Len(e) : Above(q, Len(e))[i] = q[i]
      BY <2>2, AboveFacts
    <3>. QED
      BY <1>1, <2>3, <3>1, SamePath
  <2>. QED
    BY <1>1, <2>2, <2>4, PrefixIsAbove
<1>. QED
  BY <1>3, <1>4 DEF e

-----------------------------------------------------------------------------
(* What a path leads to. *)

Step(t, p) == [x \in (1..Len(p)) \X (Node \union {Absent}) |-> Entry(t, x[2], p[x[1]])]

LEMMA EntryIsNode ==
  ASSUME NEW t \in Tree, NEW node, NEW n
  PROVE  Entry(t, node, n) \in Node \union {Absent}
<1>1. CASE node \in Dir /\ n \in DOMAIN t[node]
  <2>1. t[node] \in UNION {[S -> Node] : S \in SUBSET Name}
    BY <1>1 DEF Tree
  <2>2. PICK S \in SUBSET Name : t[node] \in [S -> Node]
    BY <2>1
  <2>. QED
    BY <1>1, <2>2 DEF Entry
<1>2. CASE ~(node \in Dir /\ n \in DOMAIN t[node])
  BY <1>2 DEF Entry
<1>. QED
  BY <1>1, <1>2

\* f holds what the names of p lead to, one after the other.
Resolves(f, r, t, p) == Folds(f, Len(p), Node \union {Absent}, r, Step(t, p))

\* FoldLeft goes entry by entry.
LEMMA LookupFolds ==
  ASSUME NEW r \in Node \union {Absent}, NEW t \in Tree, NEW p \in Path
  PROVE  \E f : Resolves(f, r, t, p) /\ Lookup(r, t, p) = f[1..Len(p)]
<1>. DEFINE m == Len(p)
            V == Node \union {Absent}
            F(g) == [s \in SUBSET DOMAIN p |->
                       IF s = {} THEN r
                       ELSE Entry(t, g[s \ {Max(s)}], p[Max(s)])]
            f == CHOOSE g : g = F(g)
<1>1. m \in Nat /\ DOMAIN p = 1..m
  BY LenProperties DEF Path
<1>2. \A s \in SUBSET (1..m) : s # {} => Max(s) \in 1..m /\ s \ {Max(s)} \in SUBSET (1..m)
  <2>. SUFFICES ASSUME NEW s \in SUBSET (1..m), s # {}
                PROVE  Max(s) \in 1..m /\ s \ {Max(s)} \in SUBSET (1..m)
    OBVIOUS
  <2>1. s \subseteq 0..m
    BY <1>1
  <2>2. Max(s) \in s
    BY <1>1, <2>1, MaxProperties
  <2>. QED
    BY <2>2
<1>3. Step(t, p) \in [(1..m) \X V -> V]
  BY EntryIsNode DEF Step
<1>4. \E g : g = F(g)
  <2>1. PICK g : Folds(g, m, V, r, Step(t, p))
    <3>. HIDE DEF m, V
    <3>. QED
      BY <1>1, <1>3, FoldExists DEF V
  <2>2. g \in [SUBSET (1..m) -> V]
    BY <2>1 DEF Folds
  <2>3. ASSUME NEW s \in SUBSET (1..m)
        PROVE  g[s] = IF s = {} THEN r ELSE Entry(t, g[s \ {Max(s)}], p[Max(s)])
    <3>1. g[s] = IF s = {} THEN r ELSE Step(t, p)[<<Max(s), g[s \ {Max(s)}]>>]
      BY <2>1 DEF Folds
    <3>2. CASE s # {}
      <4>1. <<Max(s), g[s \ {Max(s)}]>> \in (1..m) \X V
        BY <1>2, <2>2, <3>2
      <4>2. Step(t, p)[<<Max(s), g[s \ {Max(s)}]>>] = Entry(t, g[s \ {Max(s)}], p[Max(s)])
        BY <4>1 DEF Step
      <4>. QED
        BY <3>1, <3>2, <4>2
    <3>. QED
      BY <3>1, <3>2
  <2>4. g = F(g)
    <3>1. DOMAIN F(g) = SUBSET (1..m) /\ F(g) = [s \in SUBSET (1..m) |-> F(g)[s]]
      BY <1>1
    <3>2. \A s \in SUBSET (1..m) : F(g)[s] = g[s]
      BY <1>1, <2>3
    <3>. HIDE DEF F
    <3>. QED
      BY <2>2, <3>1, <3>2
  <2>. QED
    BY <2>4
<1>5. f = F(f)
  <2>. HIDE DEF F
  <2>. QED
    BY <1>4
<1>6. ASSUME NEW s \in SUBSET (1..m)
      PROVE  f[s] = IF s = {} THEN r ELSE Entry(t, f[s \ {Max(s)}], p[Max(s)])
  <2>1. F(f)[s] = IF s = {} THEN r ELSE Entry(t, f[s \ {Max(s)}], p[Max(s)])
    <3>. HIDE DEF f
    <3>. QED
      BY <1>1
  <2>. HIDE DEF f, F
  <2>. QED
    BY <1>5, <2>1
<1>7. \A s \in SUBSET (1..m) : f[s] \in V
  <2>. HIDE DEF f
  <2>. QED
    BY <1>6, EntryIsNode
<1>8. f \in [SUBSET (1..m) -> V]
  <2>1. F(f) = [s \in SUBSET (1..m) |-> F(f)[s]]
    BY <1>1
  <2>. HIDE DEF f, F
  <2>. QED
    BY <1>5, <1>7, <2>1
<1>9. Folds(f, m, V, r, Step(t, p))
  <2>1. ASSUME NEW s \in SUBSET (1..m)
        PROVE  f[s] = IF s = {} THEN r ELSE Step(t, p)[<<Max(s), f[s \ {Max(s)}]>>]
    <3>1. CASE s # {}
      <4>1. <<Max(s), f[s \ {Max(s)}]>> \in (1..m) \X V
        <5>. HIDE DEF f
        <5>. QED
          BY <1>2, <1>7, <3>1
      <4>2. Step(t, p)[<<Max(s), f[s \ {Max(s)}]>>] = Entry(t, f[s \ {Max(s)}], p[Max(s)])
        <5>. HIDE DEF f
        <5>. QED
          BY <4>1 DEF Step
      <4>. HIDE DEF f
      <4>. QED
        BY <1>6, <3>1, <4>2
    <3>. HIDE DEF f
    <3>. QED
      BY <1>6, <3>1
  <2>. HIDE DEF f
  <2>. QED
    BY <1>8, <2>1 DEF Folds
<1>10. Lookup(r, t, p) = f[1..m]
  BY <1>1 DEF Lookup, FoldLeft, MapThenFoldSet
<1>. HIDE DEF f
<1>. QED
  BY <1>9, <1>10 DEF Resolves

SameUpTo(p, q, k) == k <= Len(q) /\ \A i \in 1..k : p[i] = q[i]

\* The fold over a path begins as the fold over a path above it.
LEMMA SameFold ==
  ASSUME NEW r, NEW t, NEW p \in Path, NEW q \in Path,
         NEW f, Resolves(f, r, t, p), NEW g, Resolves(g, r, t, q),
         NEW k \in 0..Len(p), SameUpTo(p, q, k)
  PROVE  f[1..k] = g[1..k]
<1>. DEFINE V == Node \union {Absent}
            T == {j \in 0..k : f[1..j] = g[1..j]}
<1>1. /\ Len(p) \in Nat /\ Len(q) \in Nat /\ k \in Nat
      /\ k <= Len(q) /\ \A i \in 1..k : p[i] = q[i]
  BY PathLength DEF SameUpTo
<1>2. /\ f[1..0] = r
      /\ \A j \in 1..Len(p) : f[1..j] = Step(t, p)[<<j, f[1..(j - 1)]>>] /\ f[1..(j - 1)] \in V
  BY <1>1, FoldSteps DEF Resolves
<1>3. /\ g[1..0] = r
      /\ \A j \in 1..Len(q) : g[1..j] = Step(t, q)[<<j, g[1..(j - 1)]>>] /\ g[1..(j - 1)] \in V
  BY <1>1, FoldSteps DEF Resolves
<1>4. 0 \in T
  BY <1>1, <1>2, <1>3
<1>5. ASSUME NEW j \in 0..k, j \in T, j < k PROVE j + 1 \in T
  <2>1. j + 1 \in 1..Len(p) /\ j + 1 \in 1..Len(q) /\ j + 1 \in 0..k /\ j + 1 \in 1..k
        /\ (j + 1) - 1 = j
    BY <1>1, <1>5
  <2>2. f[1..(j + 1)] = Step(t, p)[<<j + 1, f[1..j]>>] /\ f[1..j] \in V
    BY <1>2, <2>1
  <2>3. g[1..(j + 1)] = Step(t, q)[<<j + 1, g[1..j]>>] /\ g[1..j] \in V
    BY <1>3, <2>1
  <2>4. f[1..j] = g[1..j]
    BY <1>5
  <2>5. Step(t, p)[<<j + 1, f[1..j]>>] = Entry(t, f[1..j], p[j + 1])
    BY <2>1, <2>2 DEF Step
  <2>6. Step(t, q)[<<j + 1, g[1..j]>>] = Entry(t, g[1..j], q[j + 1])
    BY <2>1, <2>3 DEF Step
  <2>7. p[j + 1] = q[j + 1]
    BY <1>1, <2>1
  <2>. QED
    BY <2>1, <2>2, <2>3, <2>4, <2>5, <2>6, <2>7
<1>6. 0..k \subseteq T
  <2>. HIDE DEF T
  <2>. QED
    BY <1>1, <1>4, <1>5, InductionUpTo
<1>. QED
  BY <1>1, <1>6

\* Lookup resolves a path name by name.
LEMMA LookupFacts ==
  ASSUME NEW r \in Node \union {Absent}, NEW t \in Tree, NEW p \in Path
  PROVE  /\ Lookup(r, t, << >>) = r
         /\ Lookup(r, t, p) \in Node \union {Absent}
         /\ \A k \in 1..Len(p) :
              Lookup(r, t, Above(p, k)) = Entry(t, Lookup(r, t, Above(p, k - 1)), p[k])
<1>. DEFINE V == Node \union {Absent}
<1>1. PICK f : Resolves(f, r, t, p) /\ Lookup(r, t, p) = f[1..Len(p)]
  BY LookupFolds
<1>2. Len(p) \in Nat /\ f \in [SUBSET (1..Len(p)) -> V]
  BY <1>1, PathLength DEF Resolves, Folds
<1>3. /\ f[1..0] = r
      /\ \A j \in 1..Len(p) : f[1..j] = Step(t, p)[<<j, f[1..(j - 1)]>>] /\ f[1..(j - 1)] \in V
  BY <1>1, <1>2, FoldSteps DEF Resolves
<1>4. ASSUME NEW k \in 0..Len(p) PROVE Lookup(r, t, Above(p, k)) = f[1..k]
  <2>1. PICK q : q = Above(p, k)
    OBVIOUS
  <2>2. q \in Path /\ Len(q) = k /\ SameUpTo(p, q, k)
    BY <1>2, <2>1, AboveFacts DEF SameUpTo
  <2>3. PICK g : Resolves(g, r, t, q) /\ Lookup(r, t, q) = g[1..Len(q)]
    BY <2>2, LookupFolds
  <2>4. Resolves(f, r, t, p)
    BY <1>1
  <2>. HIDE DEF V
  <2>5. f[1..k] = g[1..k]
    BY <2>2, <2>3, <2>4, SameFold
  <2>. QED
    BY <2>1, <2>2, <2>3, <2>5
<1>5. ASSUME NEW k \in 1..Len(p)
      PROVE  Lookup(r, t, Above(p, k)) = Entry(t, Lookup(r, t, Above(p, k - 1)), p[k])
  <2>1. k \in 0..Len(p) /\ k - 1 \in 0..Len(p)
    BY <1>2
  <2>2. Lookup(r, t, Above(p, k)) = f[1..k] /\ Lookup(r, t, Above(p, k - 1)) = f[1..(k - 1)]
    BY <1>4, <2>1
  <2>3. f[1..k] = Step(t, p)[<<k, f[1..(k - 1)]>>] /\ <<k, f[1..(k - 1)]>> \in (1..Len(p)) \X V
    BY <1>3
  <2>. HIDE DEF V
  <2>. QED
    BY <2>2, <2>3 DEF Step, V
<1>6. Lookup(r, t, << >>) = r
  <2>1. 0 \in 0..Len(p) /\ Above(p, 0) = << >>
    BY <1>2, AboveAll
  <2>. QED
    BY <1>3, <1>4, <2>1
<1>7. Lookup(r, t, p) \in V
  <2>1. 1..Len(p) \in SUBSET (1..Len(p))
    OBVIOUS
  <2>. HIDE DEF V
  <2>. QED
    BY <1>1, <1>2, <2>1
<1>. QED
  BY <1>5, <1>6, <1>7

\* t is u after another program has been there.
Loses(t, u) ==
  \A d \in Dir :
    /\ DOMAIN t[d] \subseteq DOMAIN u[d]
    /\ \A n \in DOMAIN t[d] : t[d][n] # u[d][n] => t[d][n] = NewFile

\* A directory found afterwards was there before, and is the same.
LEMMA DirectoryWasThere ==
  ASSUME NEW r \in Node \union {Absent}, NEW t \in Tree, NEW u \in Tree, Loses(t, u),
         NEW p \in Path, Lookup(r, t, p) \in Dir
  PROVE  Lookup(r, u, p) = Lookup(r, t, p)
<1>. DEFINE T == {k \in 0..Len(p) : Lookup(r, t, Above(p, k)) \in Dir =>
                    Lookup(r, u, Above(p, k)) = Lookup(r, t, Above(p, k))}
<1>1. Len(p) \in Nat
  BY PathLength
<1>2. 0 \in T
  BY <1>1, AboveAll, LookupFacts
<1>3. ASSUME NEW k \in 0..Len(p), k \in T, k < Len(p) PROVE k + 1 \in T
  <2>1. k + 1 \in 1..Len(p) /\ (k + 1) - 1 = k /\ k + 1 \in 0..Len(p)
    BY <1>1, <1>3
  <2>. DEFINE nt == Lookup(r, t, Above(p, k))
              nu == Lookup(r, u, Above(p, k))
              n == p[k + 1]
  <2>2. /\ Lookup(r, t, Above(p, k + 1)) = Entry(t, nt, n)
        /\ Lookup(r, u, Above(p, k + 1)) = Entry(u, nu, n)
    BY <2>1, LookupFacts
  <2>3. nt \in Dir => nu = nt
    BY <1>3
  <2>. HIDE DEF nt, nu, n
  <2>4. ASSUME Entry(t, nt, n) \in Dir PROVE Entry(u, nu, n) = Entry(t, nt, n)
    <3>1. Absent \notin Dir /\ NewFile \notin Dir
      BY DirWalkAssumption DEF Node, Inode
    <3>2. nt \in Dir /\ n \in DOMAIN t[nt] /\ Entry(t, nt, n) = t[nt][n]
      BY <2>4, <3>1 DEF Entry
    <3>3. n \in DOMAIN u[nt] /\ t[nt][n] = u[nt][n]
      BY <2>4, <3>1, <3>2 DEF Loses
    <3>. QED
      BY <2>3, <3>2, <3>3 DEF Entry
  <2>. QED
    BY <2>1, <2>2, <2>4
<1>4. Len(p) \in T
  <2>1. 0..Len(p) \subseteq T
    <3>. HIDE DEF T
    <3>. QED
      BY <1>1, <1>2, <1>3, InductionUpTo
  <2>. QED
    BY <1>1, <2>1
<1>. QED
  BY <1>4, AboveAll

-----------------------------------------------------------------------------
(* The disk, and what the walk should find on it. *)

\* Another program only removes entries and puts NewFile in their place.
DiskOnlyLoses ==
  /\ Loses(tree, before)
  /\ \A d \in Dir : \A n \in DOMAIN before[d] :
       <<d, n>> \notin changed => n \in DOMAIN tree[d] /\ tree[d][n] = before[d][n]

\* What holds of the inputs holds after a step that leaves them alone.
LEMMA InputsStay ==
  ASSUME UNCHANGED <<root, inputVars>>, changed \subseteq changed'
  PROVE  /\ \A p : Found(p)' = Found(p)
         /\ \A p : Allowed(p)' <=> Allowed(p)
         /\ \A p : Visible(p)' <=> Visible(p)
         /\ \A p : Replaced(p) => Replaced(p)'
         /\ \A p : WasChanged(p) => WasChanged(p)'
         /\ \A p : IgnoresAt(p)' = IgnoresAt(p)
<1>0. root' = root /\ before' = before /\ patterns' = patterns /\ form' = form
  BY DEF inputVars
<1>1. \A p : Found(p)' = Found(p)
  BY <1>0 DEF Found
<1>2. \A p : Allowed(p)' <=> Allowed(p)
  BY <1>0 DEF Found, Allowed, IgnoresAt
<1>3. \A p : PassesTwice(p)' <=> PassesTwice(p)
  BY <1>0 DEF Found, PassesTwice
<1>4. \A p : Reached(p)' <=> Reached(p)
  BY <1>2, <1>3 DEF Reached
<1>5. \A p : Visible(p)' <=> Visible(p)
  BY <1>1, <1>4 DEF Visible
<1>6. \A p : Replaced(p) => Replaced(p)'
  BY <1>1, <1>4 DEF Replaced
<1>7. \A p : WasChanged(p) => WasChanged(p)'
  BY <1>0 DEF Found, WasChanged
<1>8. \A p : IgnoresAt(p)' = IgnoresAt(p)
  BY <1>0, <1>1 DEF IgnoresAt
<1>. QED
  BY <1>1, <1>2, <1>5, <1>6, <1>7, <1>8

\* Found and Resolve go entry by entry.
LEMMA FoundFacts ==
  ASSUME TypeOK, NEW p \in Path
  PROVE  /\ Found(<< >>) = root /\ Resolve(<< >>) = root
         /\ Found(p) \in Node \union {Absent} /\ Resolve(p) \in Node \union {Absent}
         /\ \A k \in 1..Len(p) :
              /\ Found(Above(p, k)) = Entry(before, Found(Above(p, k - 1)), p[k])
              /\ Resolve(Above(p, k)) = Entry(tree, Resolve(Above(p, k - 1)), p[k])
<1>1. root \in Node \union {Absent} /\ tree \in Tree /\ before \in Tree
  BY DEF TypeOK, Node
<1>. QED
  BY <1>1, LookupFacts DEF Found, Resolve

LEMMA EntryFacts ==
  ASSUME TypeOK, NEW p \in Path, NEW n \in Name
  PROVE  /\ Found(Append(p, n)) = Entry(before, Found(p), n)
         /\ Resolve(Append(p, n)) = Entry(tree, Resolve(p), n)
<1>. DEFINE q == Append(p, n)
<1>1. /\ q \in Path /\ Len(q) = Len(p) + 1 /\ q[Len(q)] = n
      /\ Above(q, Len(p)) = Above(p, Len(p)) /\ Len(p) \in Nat
  BY EntryPath, PathLength
<1>2. Above(p, Len(p)) = p
  BY AboveAll
<1>. HIDE DEF q
<1>3. Above(q, Len(q)) = q
  BY <1>1, AboveAll
<1>4. Len(q) \in 1..Len(q) /\ Len(q) - 1 = Len(p)
  BY <1>1
<1>5. /\ Found(Above(q, Len(q))) = Entry(before, Found(Above(q, Len(q) - 1)), q[Len(q)])
      /\ Resolve(Above(q, Len(q))) = Entry(tree, Resolve(Above(q, Len(q) - 1)), q[Len(q)])
  BY <1>1, <1>4, FoundFacts
<1>. QED
  BY <1>1, <1>2, <1>3, <1>4, <1>5 DEF q

\* A directory the walk finds is the one it should find.
LEMMA DirectoryIsFound ==
  ASSUME TypeOK, DiskOnlyLoses, NEW p \in Path, Resolve(p) \in Dir
  PROVE  Found(p) = Resolve(p)
<1>1. root \in Node \union {Absent} /\ tree \in Tree /\ before \in Tree
  BY DEF TypeOK, Node
<1>. QED
  BY <1>1, DirectoryWasThere DEF DiskOnlyLoses, Found, Resolve

\* A path that nobody changed leads where it should; above its end there are directories.
LEMMA UnchangedResolves ==
  ASSUME TypeOK, DiskOnlyLoses, NEW p \in Path, Allowed(p), ~WasChanged(p),
         NEW k \in 0..Len(p)
  PROVE  /\ Resolve(Above(p, k)) = Found(Above(p, k))
         /\ k < Len(p) => Found(Above(p, k)) \in Dir
<1>1. Len(p) \in Nat
  BY PathLength
<1>2. ASSUME NEW j \in 0..Len(p), j < Len(p)
      PROVE  /\ Found(Above(p, j)) \in Dir
             /\ p[j + 1] \in DOMAIN before[Found(Above(p, j))]
             /\ Found(Above(p, j + 1)) = before[Found(Above(p, j))][p[j + 1]]
  <2>1. j + 1 \in 1..Len(p) /\ (j + 1) - 1 = j
    BY <1>1, <1>2
  <2>2. Found(Above(p, j + 1)) = Entry(before, Found(Above(p, j)), p[j + 1])
    BY <2>1, FoundFacts
  <2>3. Found(Above(p, j + 1)) \in Inode
    BY <2>1 DEF Allowed
  <2>4. Absent \notin Inode
    BY DirWalkAssumption DEF Node
  <2>. QED
    BY <2>2, <2>3, <2>4 DEF Entry
<1>. DEFINE T == {j \in 0..Len(p) : Resolve(Above(p, j)) = Found(Above(p, j))}
<1>3. 0 \in T
  BY <1>1, AboveAll, FoundFacts
<1>4. ASSUME NEW j \in 0..Len(p), j \in T, j < Len(p) PROVE j + 1 \in T
  <2>1. j + 1 \in 1..Len(p) /\ (j + 1) - 1 = j /\ j + 1 \in 0..Len(p)
    BY <1>1, <1>4
  <2>2. Resolve(Above(p, j + 1)) = Entry(tree, Resolve(Above(p, j)), p[j + 1])
    BY <2>1, FoundFacts
  <2>3. Resolve(Above(p, j)) = Found(Above(p, j))
    BY <1>4
  <2>4. <<Found(Above(p, j)), p[j + 1]>> \notin changed
    BY <2>1 DEF WasChanged
  <2>. HIDE DEF T
  <2>5. /\ Found(Above(p, j)) \in Dir
        /\ p[j + 1] \in DOMAIN before[Found(Above(p, j))]
        /\ Found(Above(p, j + 1)) = before[Found(Above(p, j))][p[j + 1]]
    BY <1>2, <1>4
  <2>6. p[j + 1] \in DOMAIN tree[Found(Above(p, j))]
        /\ tree[Found(Above(p, j))][p[j + 1]] = before[Found(Above(p, j))][p[j + 1]]
    BY <2>4, <2>5 DEF DiskOnlyLoses
  <2>7. Resolve(Above(p, j + 1)) = Found(Above(p, j + 1))
    BY <2>2, <2>3, <2>5, <2>6 DEF Entry
  <2>. QED
    BY <2>1, <2>7 DEF T
<1>5. 0..Len(p) \subseteq T
  <2>. HIDE DEF T
  <2>. QED
    BY <1>1, <1>3, <1>4, InductionUpTo
<1>. QED
  BY <1>2, <1>5

-----------------------------------------------------------------------------
(* The calls, against the disk as the walk found it.                       *)

\* The directory of a call was listed if another call waits for an entry or one is to come.
HasRead(i) == i < Len(stack) \/ stack[i].rest # {}
DirectoryRead(i) ==
  /\ Found(stack[i].path) \in Dir
  /\ stack[i].key = Found(stack[i].path)
  /\ stack[i].ig.patterns = patterns[Found(stack[i].path)]

\* An entry that was listed is the one the walk found, or a file put in its place.
EntryOf(e, dir) ==
  /\ e.name \in DOMAIN before[dir] \ Dotted
  /\ e.node # before[dir][e.name] => e.node \in File /\ <<dir, e.name>> \in changed

CallInOrder(i) ==
  /\ stack[i].ig.abs_path = stack[i].path
  /\ \A j \in 1..i : Above(stack[i].path, j - 1) = stack[j].path
  /\ HasRead(i) => DirectoryRead(i)
  /\ \A e \in stack[i].rest :
       /\ EntryOf(e, Found(stack[i].path))
       /\ \A f \in stack[i].rest : e.name = f.name => e = f
  /\ Allowed(stack[i].path) /\ (i > 1 => Found(stack[i].path) \in Dir)

\* The entry for which a call waits is not taken up again.
NextIsTaken(i) ==
  i < Len(stack) => \A e \in stack[i].rest : e.name # Last(stack[i + 1].path)

CallsInOrder == \A i \in 1..Len(stack) : CallInOrder(i) /\ NextIsTaken(i)

\* Where check_symloop_enter and scandir see a directory they see the same one.
KeyOfDirectory ==
  AtTop("list") /\ Resolve(Top.path) \in Dir => Top.key = Resolve(Top.path)

OrderInv == DiskOnlyLoses /\ CallsInOrder /\ KeyOfDirectory

\* A call that a step leaves alone, but for entries taken up.
LEMMA CallKept ==
  ASSUME UNCHANGED <<root, inputVars>>, changed \subseteq changed',
         NEW i \in 1..Len(stack), CallInOrder(i),
         \A j \in 1..i : stack'[j].path = stack[j].path,
         stack'[i].ig = stack[i].ig, stack'[i].rest \subseteq stack[i].rest,
         HasRead(i)' => HasRead(i) /\ stack'[i].key = stack[i].key
  PROVE  CallInOrder(i)'
<1>1. stack'[i].path = stack[i].path /\ before' = before /\ patterns' = patterns
  BY DEF inputVars
<1>2. Found(stack[i].path)' = Found(stack[i].path)
      /\ (Allowed(stack[i].path)' <=> Allowed(stack[i].path))
  BY <1>1, InputsStay
<1>3. (stack[i].ig.abs_path = stack[i].path)'
      /\ (\A j \in 1..i : Above(stack[i].path, j - 1) = stack[j].path)'
  BY <1>1 DEF CallInOrder
<1>4. HasRead(i)' => DirectoryRead(i)'
  BY <1>1, <1>2 DEF CallInOrder, DirectoryRead
<1>5. (\A e \in stack[i].rest :
         /\ EntryOf(e, Found(stack[i].path))
         /\ \A f \in stack[i].rest : e.name = f.name => e = f)'
  BY <1>1, <1>2 DEF CallInOrder, EntryOf
<1>6. (Allowed(stack[i].path) /\ (i > 1 => Found(stack[i].path) \in Dir))'
  BY <1>2 DEF CallInOrder
<1>. QED
  BY <1>3, <1>4, <1>5, <1>6 DEF CallInOrder

\* A step of the call on top that reads nothing new.
LEMMA GoesOnInOrder ==
  ASSUME TypeOK, StackInv, OrderInv, stack # << >>, NEW frame \in FrameType,
         frame.path = Top.path, frame.ig = Top.ig, frame.rest \subseteq Top.rest,
         frame.key = Top.key \/ Top.rest = {},
         stack' = SetTop(frame), UNCHANGED <<diskVars, inputVars>>
  PROVE  CallsInOrder'
<1>. DEFINE n == Len(stack)
<1>1. /\ n \in Nat /\ n >= 1 /\ Top = stack[n]
      /\ Len(stack') = n /\ stack'[n] = frame
      /\ \A i \in 1..(n - 1) : stack'[i] = stack[i]
  BY TopFacts, SetTopFacts DEF StackInv
<1>2. UNCHANGED <<root, inputVars>> /\ changed \subseteq changed'
  BY DEF diskVars
<1>3. \A i \in 1..n : i # n => i \in 1..(n - 1) /\ i + 1 \in 1..n
  BY <1>1
<1>4. \A i \in 1..n :
        /\ stack'[i].path = stack[i].path /\ stack'[i].ig = stack[i].ig
        /\ stack'[i].rest \subseteq stack[i].rest
        /\ HasRead(i)' => HasRead(i) /\ stack'[i].key = stack[i].key
  <2>. TAKE i \in 1..n
  <2>1. CASE i = n
    BY <1>1, <2>1 DEF HasRead
  <2>2. CASE i # n
    BY <1>1, <1>3, <2>2 DEF HasRead
  <2>. QED
    BY <2>1, <2>2
<1>5. ASSUME NEW i \in 1..n PROVE CallInOrder(i)'
  <2>1. CallInOrder(i) /\ \A j \in 1..i : j \in 1..n
    BY <1>1 DEF OrderInv, CallsInOrder
  <2>. QED
    BY <1>2, <1>4, <2>1, CallKept
<1>6. ASSUME NEW i \in 1..n PROVE NextIsTaken(i)'
  BY <1>1, <1>3, <1>4 DEF OrderInv, CallsInOrder, NextIsTaken
<1>. QED
  BY <1>1, <1>5, <1>6 DEF CallsInOrder

\* A return.
LEMMA ReturnsInOrder ==
  ASSUME TypeOK, StackInv, OrderInv, stack # << >>,
         stack' = Front(stack), UNCHANGED <<diskVars, inputVars>>
  PROVE  CallsInOrder'
<1>. DEFINE n == Len(stack)
<1>1. /\ n \in Nat /\ n >= 1 /\ Len(stack') = n - 1
      /\ \A i \in 1..(n - 1) : stack'[i] = stack[i]
  BY TopFacts, FrontFacts DEF StackInv
<1>2. UNCHANGED <<root, inputVars>> /\ changed \subseteq changed'
  BY DEF diskVars
<1>3. \A i \in 1..(n - 1) : i \in 1..n /\ i < n
  BY <1>1
<1>5. ASSUME NEW i \in 1..(n - 1) PROVE CallInOrder(i)'
  <2>1. CallInOrder(i) /\ i \in 1..n /\ \A j \in 1..i : j \in 1..(n - 1)
    BY <1>1, <1>3 DEF OrderInv, CallsInOrder
  <2>2. HasRead(i) /\ stack'[i] = stack[i] /\ \A j \in 1..i : stack'[j] = stack[j]
    BY <1>1, <1>3, <2>1 DEF HasRead
  <2>. QED
    BY <1>2, <2>1, <2>2, CallKept
<1>6. ASSUME NEW i \in 1..(n - 1) PROVE NextIsTaken(i)'
  <2>1. i < n - 1 => i + 1 \in 1..(n - 1)
    BY <1>1
  <2>2. NextIsTaken(i)
    BY <1>3 DEF OrderInv, CallsInOrder
  <2>. QED
    BY <1>1, <1>3, <2>1, <2>2 DEF NextIsTaken
<1>. QED
  BY <1>1, <1>5, <1>6 DEF CallsInOrder

\* The struct ignores of a call that has read its directory is what the disk had there.
LEMMA IgnoresOfCall ==
  ASSUME TypeOK, StackInv, OrderInv, NEW i \in 1..Len(stack), HasRead(i)
  PROVE  stack[i].ig = IgnoresAt(stack[i].path)
<1>1. stack[i] \in FrameType
  BY ElementOfSeq DEF StackInv, CallsNest
<1>2. stack[i].ig \in [patterns : SUBSET Pattern, abs_path : Path]
  BY <1>1 DEF FrameType
<1>3. stack[i].ig = [patterns |-> stack[i].ig.patterns, abs_path |-> stack[i].ig.abs_path]
  BY <1>2
<1>4. stack[i].ig.abs_path = stack[i].path
      /\ stack[i].ig.patterns = patterns[Found(stack[i].path)]
  BY DEF OrderInv, CallsInOrder, CallInOrder, DirectoryRead
<1>. QED
  BY <1>3, <1>4 DEF IgnoresAt

\* An entry to come is excluded by no directory above it, as the walk found them; if it is
\* what the walk found there it is allowed.
LEMMA EntryToCome ==
  ASSUME TypeOK, StackInv, OrderInv, stack # << >>, NEW e \in Top.rest
  PROVE  LET q == Append(Top.path, e.name)
             dir == Found(Top.path)
         IN /\ Top.path \in Path /\ e.name \in Name /\ e.node \in Inode
            /\ Len(Top.path) = Len(stack) - 1
            /\ dir \in Dir /\ EntryOf(e, dir) /\ Found(q) = before[dir][e.name]
            /\ Allowed(Top.path)
            /\ \A j \in 0..Len(Top.path) :
                 /\ Found(Above(q, j)) \in Dir
                 /\ ~Excludes(IgnoresAt(Above(q, j)), form, Top.path, e.name, e.node)
            /\ e.node = Found(q) => Allowed(q)
<1>. DEFINE n == Len(stack)
            p == Top.path
            q == Append(p, e.name)
            dir == Found(p)
<1>1. /\ n \in Nat /\ n >= 1 /\ n \in 1..n /\ Top = stack[n] /\ Top \in FrameType
      /\ Len(p) = n - 1 /\ n <= MaxSearchDepth + 1
  BY TopFacts DEF StackInv, CallsNest
<1>2. p \in Path /\ e.name \in Name /\ e.node \in Inode
  BY <1>1 DEF FrameType
<1>3. /\ q \in Path /\ Len(q) = n /\ Last(q) = e.name /\ q[Len(q)] = e.name
      /\ \A k \in 0..Len(p) : Above(q, k) = Above(p, k)
  BY <1>1, <1>2, EntryPath
<1>4. /\ Found(q) = Entry(before, dir, e.name)
  BY <1>2, EntryFacts
<1>5. \A i \in 1..n : CallInOrder(i) /\ HasRead(i)
  BY <1>1 DEF OrderInv, CallsInOrder, HasRead
<1>6. dir \in Dir /\ EntryOf(e, dir) /\ Allowed(p)
  BY <1>1, <1>5 DEF CallInOrder, DirectoryRead
<1>7. Found(q) = before[dir][e.name]
  BY <1>4, <1>6 DEF Entry, EntryOf
<1>. HIDE DEF p, q, dir, n
<1>8. ASSUME NEW j \in 0..Len(p)
      PROVE  /\ Found(Above(q, j)) \in Dir
             /\ ~Excludes(IgnoresAt(Above(q, j)), form, p, e.name, e.node)
  <2>1. j + 1 \in 1..n /\ (j + 1) - 1 = j
    BY <1>1
  <2>2. Above(q, j) = stack[j + 1].path
    <3>1. Above(stack[n].path, (j + 1) - 1) = stack[j + 1].path
      BY <1>1, <1>5, <2>1 DEF CallInOrder
    <3>. QED
      BY <1>1, <1>3, <2>1, <3>1 DEF p
  <2>3. Found(stack[j + 1].path) \in Dir /\ stack[j + 1].ig = IgnoresAt(stack[j + 1].path)
    <3>1. CallInOrder(j + 1) /\ HasRead(j + 1) /\ j + 1 \in 1..Len(stack)
      BY <1>5, <2>1 DEF n
    <3>2. Found(stack[j + 1].path) \in Dir
      BY <3>1 DEF CallInOrder, DirectoryRead
    <3>. QED
      BY <3>1, <3>2, IgnoresOfCall
  <2>4. ~Excludes(stack[j + 1].ig, form, p, e.name, e.node)
    BY <1>1, <2>1 DEF StackInv, NothingIgnoredIsTaken, n, p
  <2>. QED
    BY <2>2, <2>3, <2>4
<1>9. ASSUME e.node = Found(q) PROVE Allowed(q)
  <2>. SUFFICES ASSUME NEW k \in 1..Len(q)
                PROVE  /\ Found(Above(q, k)) \in Inode
                       /\ q[k] \notin Dotted
                       /\ \A j \in 0..(k - 1) :
                            ~Excludes(IgnoresAt(Above(q, j)), form, Above(q, k - 1), q[k],
                                      Found(Above(q, k)))
    BY <1>1, <1>3 DEF Allowed
  <2>1. CASE k = Len(q)
    <3>1. Above(q, k) = q /\ Above(q, k - 1) = p /\ k - 1 = Len(p) /\ q[k] = e.name
      <4>1. k - 1 = Len(p) /\ Len(p) \in 0..Len(p)
        BY <1>1, <1>3, <2>1
      <4>. QED
        BY <1>2, <1>3, <2>1, <4>1, AboveAll
    <3>. QED
      BY <1>2, <1>6, <1>8, <1>9, <3>1 DEF EntryOf
  <2>2. CASE k # Len(q)
    <3>1. k \in 1..Len(p) /\ k \in 0..Len(p) /\ k - 1 \in 0..Len(p) /\ k \in 0..Len(q)
          /\ k \in 1..k /\ \A j \in 0..(k - 1) : j \in 0..Len(p)
      BY <1>1, <1>3, <2>2
    <3>2. Above(q, k) = Above(p, k) /\ Above(q, k - 1) = Above(p, k - 1)
          /\ \A j \in 0..(k - 1) : Above(q, j) = Above(p, j)
      BY <1>3, <3>1
    <3>3. q[k] = p[k]
      <4>1. Above(q, k)[k] = q[k] /\ Above(p, k)[k] = p[k]
        BY <1>2, <1>3, <3>1, AboveFacts
      <4>. QED
        BY <3>2, <4>1
    <3>4. /\ Found(Above(p, k)) \in Inode
          /\ p[k] \notin Dotted
          /\ \A j \in 0..(k - 1) :
               ~Excludes(IgnoresAt(Above(p, j)), form, Above(p, k - 1), p[k], Found(Above(p, k)))
      BY <1>6, <3>1 DEF Allowed
    <3>. QED
      BY <3>2, <3>3, <3>4
  <2>. QED
    BY <2>1, <2>2
<1>. QED
  BY <1>1, <1>2, <1>6, <1>7, <1>8, <1>9 DEF p, q, dir, n

\* What a directory holds now it held when the walk began, or it is a file put there.
LEMMA EntriesOfTree ==
  ASSUME TypeOK, DiskOnlyLoses, NEW dir \in Dir, NEW n \in DOMAIN tree[dir], n \notin Dotted
  PROVE  EntryOf([name |-> n, node |-> tree[dir][n]], dir)
<1>1. n \in DOMAIN before[dir] /\ (tree[dir][n] # before[dir][n] => tree[dir][n] = NewFile)
  BY DEF DiskOnlyLoses, Loses
<1>2. tree[dir][n] # before[dir][n] => <<dir, n>> \in changed
  BY <1>1 DEF DiskOnlyLoses
<1>. QED
  BY <1>1, <1>2, DirWalkAssumption DEF EntryOf

LEMMA ListDirectoryInOrder ==
  ASSUME TypeOK, StackInv, OrderInv, ListDirectory
  PROVE  CallsInOrder'
<1>0. PICK n : n = Len(stack)
  OBVIOUS
<1>1. AtTop("list") /\ stack # << >> /\ UNCHANGED <<diskVars, inputVars>>
  BY DEF ListDirectory, AtTop
<1>2. PICK dir \in Dir :
        /\ dir = Resolve(Top.path)
        /\ LET ig == [Top.ig EXCEPT !.patterns = patterns[dir]]
           IN stack' = SetTop([Top EXCEPT !.at = "entries", !.ig = ig,
                        !.rest = ag_scandir(dir, Top.path, {ig} \union IgnoresAbove)])
  BY DEF ListDirectory
<1>. DEFINE ig == [Top.ig EXCEPT !.patterns = patterns[dir]]
            rest == ag_scandir(dir, Top.path, {ig} \union IgnoresAbove)
            frame == [Top EXCEPT !.at = "entries", !.ig = ig, !.rest = rest]
<1>3. /\ n = Len(stack) /\ n \in Nat /\ n >= 1 /\ n \in 1..n /\ Top \in FrameType /\ Top = stack[n]
      /\ Top.path \in Path
  BY <1>0, <1>1, TopFacts DEF StackInv, FrameType
<1>4. /\ frame.path = Top.path /\ frame.key = Top.key /\ frame.ig = ig /\ frame.rest = rest
      /\ ig.abs_path = Top.ig.abs_path /\ ig.patterns = patterns[dir]
  <2>1. Top.ig \in [patterns : SUBSET Pattern, abs_path : Path]
    BY <1>3 DEF FrameType
  <2>2. ig.abs_path = Top.ig.abs_path /\ ig.patterns = patterns[dir]
    BY <2>1
  <2>. HIDE DEF ig, rest
  <2>. QED
    BY <1>3, <2>2 DEF FrameType
<1>5. Len(stack') = n /\ stack'[n] = frame /\ \A i \in 1..(n - 1) : stack'[i] = stack[i]
  <2>1. stack \in Seq(FrameType) /\ stack' = [stack EXCEPT ![n] = frame]
    BY <1>2, <1>3 DEF StackInv, CallsNest, SetTop
  <2>. HIDE DEF frame
  <2>. QED
    BY <1>3, <2>1
<1>6. ASSUME NEW e \in rest PROVE EntryOf(e, dir) /\ e.name \in DOMAIN tree[dir]
                                  /\ e = [name |-> e.name, node |-> tree[dir][e.name]]
  <2>1. PICK nm \in DOMAIN tree[dir] : e = [name |-> nm, node |-> tree[dir][nm]]
    BY DEF ag_scandir
  <2>2. nm \notin Dotted
    BY <2>1 DEF ag_scandir, filename_filter
  <2>. QED
    BY <2>1, <2>2, EntriesOfTree DEF OrderInv
<1>7. UNCHANGED <<root, inputVars>> /\ changed \subseteq changed' /\ before' = before
      /\ patterns' = patterns
  BY <1>1 DEF diskVars, inputVars
<1>8. Found(Top.path) = dir /\ Top.key = dir
  BY <1>1, <1>2, <1>3, DirectoryIsFound DEF OrderInv, KeyOfDirectory
<1>. HIDE DEF frame, rest, ig
<1>9. \A i \in 1..n :
        /\ stack'[i].path = stack[i].path
        /\ i # n => i \in 1..(n - 1) /\ i + 1 \in 1..n
  BY <1>3, <1>4, <1>5
<1>10. CallInOrder(n)'
  <2>0. CallInOrder(n) /\ stack'[n].path = Top.path /\ stack'[n].ig = ig
        /\ stack'[n].rest = rest /\ stack'[n].key = dir
    BY <1>3, <1>4, <1>5, <1>8 DEF OrderInv, CallsInOrder
  <2>1. Found(stack[n].path)' = dir /\ (Allowed(stack[n].path)' <=> Allowed(stack[n].path))
    BY <1>3, <1>7, <1>8, <2>0, InputsStay
  <2>2. (stack[n].ig.abs_path = stack[n].path)'
    BY <1>3, <1>4, <2>0 DEF CallInOrder
  <2>3. (\A j \in 1..n : Above(stack[n].path, j - 1) = stack[j].path)'
    BY <1>3, <1>9, <2>0 DEF CallInOrder
  <2>4. DirectoryRead(n)'
    BY <1>4, <1>7, <2>0, <2>1 DEF DirectoryRead
  <2>5. \A e \in rest : EntryOf(e, dir)'
    BY <1>6, <1>7 DEF EntryOf
  <2>6. \A e, f \in rest : e.name = f.name => e = f
    BY <1>6
  <2>7. (\A e \in stack[n].rest :
           /\ EntryOf(e, Found(stack[n].path))
           /\ \A f \in stack[n].rest : e.name = f.name => e = f)'
    BY <2>0, <2>1, <2>5, <2>6
  <2>8. (Allowed(stack[n].path) /\ (n > 1 => Found(stack[n].path) \in Dir))'
    BY <1>3, <1>8, <2>0, <2>1 DEF CallInOrder
  <2>. QED
    BY <2>2, <2>3, <2>4, <2>7, <2>8 DEF CallInOrder
<1>11. ASSUME NEW i \in 1..n PROVE CallInOrder(i)'
  <2>1. CASE i # n
    <3>1. CallInOrder(i) /\ HasRead(i) /\ stack'[i] = stack[i] /\ \A j \in 1..i : j \in 1..n
      BY <1>3, <1>5, <1>9, <2>1 DEF OrderInv, CallsInOrder, HasRead
    <3>. QED
      BY <1>3, <1>7, <1>9, <3>1, CallKept
  <2>. QED
    BY <1>10, <2>1
<1>12. ASSUME NEW i \in 1..n PROVE NextIsTaken(i)'
  BY <1>3, <1>5, <1>9 DEF OrderInv, CallsInOrder, NextIsTaken
<1>. QED
  BY <1>5, <1>11, <1>12 DEF CallsInOrder

LEMMA SubdirectoryInOrder ==
  ASSUME TypeOK, StackInv, OrderInv, SearchSubdirectory
  PROVE  CallsInOrder'
<1>0. PICK n : n = Len(stack)
  OBVIOUS
<1>1. AtTop("entries") /\ stack # << >> /\ UNCHANGED <<diskVars, inputVars>>
  BY DEF SearchSubdirectory, AtTop
<1>2. PICK e \in Top.rest :
        /\ e.node \in Dir
        /\ LET path == Append(Top.path, e.name)
           IN stack' = Append(SetTop(Without(e)), Frame(path, init_ignore(path), Parents))
  BY DEF SearchSubdirectory
<1>. DEFINE path == Append(Top.path, e.name)
            new == Frame(path, init_ignore(path), Parents)
            dir == Found(Top.path)
<1>3. /\ n = Len(stack) /\ n \in Nat /\ n >= 1 /\ n \in 1..n /\ Top \in FrameType /\ Top = stack[n]
      /\ Len(Top.path) = n - 1
  BY <1>0, <1>1, TopFacts DEF StackInv
<1>4. /\ Top.path \in Path /\ e.name \in Name /\ dir \in Dir /\ EntryOf(e, dir)
      /\ Found(path) = before[dir][e.name] /\ (e.node = Found(path) => Allowed(path))
  BY <1>1, EntryToCome
<1>5. /\ path \in Path /\ path # << >> /\ Len(path) = n /\ Last(path) = e.name
      /\ \A k \in 0..Len(Top.path) : Above(path, k) = Above(Top.path, k)
  BY <1>3, <1>4, EntryPath
<1>6. Found(path) \in Dir /\ Allowed(path)
  BY <1>2, <1>4, DirWalkAssumption DEF EntryOf
<1>7. /\ new.path = path /\ new.rest = {}
      /\ new.ig.abs_path = path
  <2>1. new.path = path /\ new.rest = {} /\ new.ig = init_ignore(path)
    BY DEF Frame
  <2>2. Top.ig.abs_path = Top.path
    BY <1>3 DEF OrderInv, CallsInOrder, CallInOrder
  <2>3. init_ignore(path).abs_path = Append(Top.ig.abs_path, Last(path))
    <3>. HIDE DEF path
    <3>. QED
      BY <1>5 DEF init_ignore
  <2>. QED
    BY <1>5, <2>1, <2>2, <2>3
<1>8. /\ Without(e).path = Top.path /\ Without(e).ig = Top.ig /\ Without(e).key = Top.key
      /\ Without(e).rest = Top.rest \ {e}
  BY <1>3 DEF Without, FrameType
<1>. HIDE DEF path, new
<1>9. /\ Len(stack') = n + 1 /\ stack'[n + 1] = new /\ stack'[n] = Without(e)
      /\ \A i \in 1..(n - 1) : stack'[i] = stack[i]
  <2>. DEFINE low == SetTop(Without(e))
  <2>1. /\ low \in Seq(FrameType) /\ Len(low) = n /\ low[n] = Without(e)
        /\ \A i \in 1..(n - 1) : low[i] = stack[i]
    <3>1. Without(e) \in FrameType
      BY <1>3 DEF Without, FrameType
    <3>. QED
      BY <1>0, <1>1, <3>1, SetTopFacts DEF StackInv
  <2>2. stack' = Append(low, new)
    BY <1>2 DEF path, new
  <2>. HIDE DEF low
  <2>. QED
    BY <1>3, <2>1, <2>2
<1>10. UNCHANGED <<root, inputVars>> /\ changed \subseteq changed'
  BY <1>1 DEF diskVars
<1>11. \A i \in 1..n :
        /\ stack'[i].path = stack[i].path /\ stack'[i].ig = stack[i].ig
        /\ stack'[i].rest \subseteq stack[i].rest /\ stack'[i].key = stack[i].key
        /\ HasRead(i)
        /\ i # n => i \in 1..(n - 1) /\ i + 1 \in 1..n
  <2>. TAKE i \in 1..n
  <2>1. CASE i = n
    BY <1>0, <1>3, <1>8, <1>9, <2>1 DEF HasRead
  <2>2. CASE i # n
    <3>1. i \in 1..(n - 1) /\ i + 1 \in 1..n /\ i < n
      BY <1>3, <2>2
    <3>. QED
      BY <1>0, <1>9, <3>1 DEF HasRead
  <2>. QED
    BY <2>1, <2>2
<1>12. ASSUME NEW i \in 1..n PROVE CallInOrder(i)'
  <2>1. CallInOrder(i) /\ i <= n + 1 /\ \A j \in 1..i : j \in 1..n
    BY <1>3 DEF OrderInv, CallsInOrder
  <2>. QED
    BY <1>3, <1>10, <1>11, <2>1, CallKept
<1>13. CallInOrder(n + 1)'
  <2>1. (stack[n + 1].ig.abs_path = stack[n + 1].path)'
    BY <1>7, <1>9
  <2>2. ASSUME NEW j \in 1..(n + 1) PROVE (Above(stack[n + 1].path, j - 1) = stack[j].path)'
    <3>1. CASE j = n + 1
      BY <1>3, <1>5, <1>7, <1>9, <3>1, AboveAll
    <3>2. CASE j # n + 1
      <4>1. j \in 1..n /\ j - 1 \in 0..Len(Top.path)
        BY <1>3, <3>2
      <4>2. Above(stack[n].path, j - 1) = stack[j].path
        BY <1>3, <4>1 DEF OrderInv, CallsInOrder, CallInOrder
      <4>. QED
        BY <1>3, <1>5, <1>7, <1>9, <1>11, <4>1, <4>2
    <3>. QED
      BY <3>1, <3>2
  <2>3. ~HasRead(n + 1)' /\ stack'[n + 1].rest = {}
    BY <1>3, <1>7, <1>9 DEF HasRead
  <2>4. (Allowed(stack[n + 1].path) /\ Found(stack[n + 1].path) \in Dir)'
    BY <1>6, <1>7, <1>9, <1>10, InputsStay
  <2>. QED
    BY <1>9, <2>1, <2>2, <2>3, <2>4 DEF CallInOrder
<1>14. ASSUME NEW i \in 1..n PROVE NextIsTaken(i)'
  <2>1. CASE i = n
    <3>1. \A f \in Top.rest \ {e} : f.name # e.name
      BY <1>3 DEF OrderInv, CallsInOrder, CallInOrder
    <3>. QED
      BY <1>5, <1>7, <1>8, <1>9, <2>1, <3>1 DEF NextIsTaken
  <2>2. CASE i # n
    <3>1. NextIsTaken(i) /\ i < n /\ i \in 1..(n - 1) /\ i + 1 \in 1..n
      BY <1>3, <1>11, <2>2 DEF OrderInv, CallsInOrder
    <3>. QED
      BY <1>3, <1>9, <1>11, <3>1 DEF NextIsTaken
  <2>. QED
    BY <2>1, <2>2
<1>15. NextIsTaken(n + 1)'
  BY <1>3, <1>9 DEF NextIsTaken
<1>16. \A i \in 1..(n + 1) : i \in 1..n \/ i = n + 1
  BY <1>3
<1>. QED
  BY <1>9, <1>12, <1>13, <1>14, <1>15, <1>16 DEF CallsInOrder

LEMMA ChangesInOrder ==
  ASSUME TypeOK, TypeOK', StackInv, OrderInv, RemoveEntry \/ ReplaceDirectory
  PROVE  OrderInv'
<1>1. PICK d \in Dir, n \in Name :
        /\ MayChange(d, n)
        /\ \/ tree' = [tree EXCEPT ![d] = [m \in DOMAIN tree[d] \ {n} |-> tree[d][m]]]
           \/ tree' = [tree EXCEPT ![d][n] = NewFile]
  BY DEF RemoveEntry, ReplaceDirectory
<1>2. /\ n \in DOMAIN tree[d] /\ changed' = changed \union {<<d, n>>}
      /\ UNCHANGED <<root, inputVars, stack>> /\ before' = before
  BY <1>1 DEF MayChange, inputVars
<1>3. tree \in Tree /\ tree[d] \in UNION {[S -> Node] : S \in SUBSET Name}
  BY DEF TypeOK, Tree
<1>4. \A c \in Dir : c # d => tree'[c] = tree[c]
  BY <1>1, <1>3 DEF Tree
<1>5. /\ DOMAIN tree'[d] \subseteq DOMAIN tree[d]
      /\ \A m \in DOMAIN tree'[d] : m # n => tree'[d][m] = tree[d][m]
      /\ \A m \in DOMAIN tree[d] : m # n => m \in DOMAIN tree'[d]
      /\ n \in DOMAIN tree'[d] => tree'[d][n] = NewFile
  <2>1. tree \in [Dir -> UNION {[S -> Node] : S \in SUBSET Name}]
    BY <1>3 DEF Tree
  <2>2. CASE tree' = [tree EXCEPT ![d] = [m \in DOMAIN tree[d] \ {n} |-> tree[d][m]]]
    <3>1. tree'[d] = [m \in DOMAIN tree[d] \ {n} |-> tree[d][m]]
      BY <2>1, <2>2
    <3>. QED
      BY <3>1
  <2>3. CASE tree' = [tree EXCEPT ![d][n] = NewFile]
    <3>1. tree'[d] = [tree[d] EXCEPT ![n] = NewFile]
      BY <2>1, <2>3
    <3>2. PICK S \in SUBSET Name : tree[d] \in [S -> Node]
      BY <1>3
    <3>. QED
      BY <1>2, <3>1, <3>2
  <2>. QED
    BY <1>1, <2>2, <2>3
<1>6. Loses(tree', tree)
  BY <1>4, <1>5 DEF Loses
<1>7. DiskOnlyLoses'
  <2>1. Loses(tree', before)
    <3>. SUFFICES ASSUME NEW c \in Dir
                  PROVE  /\ DOMAIN tree'[c] \subseteq DOMAIN before[c]
                         /\ \A m \in DOMAIN tree'[c] :
                              tree'[c][m] # before[c][m] => tree'[c][m] = NewFile
      BY DEF Loses
    <3>1. /\ DOMAIN tree[c] \subseteq DOMAIN before[c]
          /\ \A m \in DOMAIN tree[c] : tree[c][m] # before[c][m] => tree[c][m] = NewFile
      BY DEF OrderInv, DiskOnlyLoses, Loses
    <3>2. /\ DOMAIN tree'[c] \subseteq DOMAIN tree[c]
          /\ \A m \in DOMAIN tree'[c] : tree'[c][m] # tree[c][m] => tree'[c][m] = NewFile
      BY <1>6 DEF Loses
    <3>. QED
      BY <3>1, <3>2
  <2>2. ASSUME NEW c \in Dir, NEW m \in DOMAIN before[c], <<c, m>> \notin changed'
        PROVE  m \in DOMAIN tree'[c] /\ tree'[c][m] = before[c][m]
    <3>1. <<c, m>> \notin changed /\ ~(c = d /\ m = n)
      BY <1>2, <2>2
    <3>2. m \in DOMAIN tree[c] /\ tree[c][m] = before[c][m]
      BY <3>1 DEF OrderInv, DiskOnlyLoses
    <3>. QED
      BY <1>4, <1>5, <3>1, <3>2
  <2>. QED
    BY <1>2, <2>1, <2>2 DEF DiskOnlyLoses
<1>8. CallsInOrder'
  <2>1. ASSUME NEW i \in 1..Len(stack) PROVE CallInOrder(i)'
    <3>1. CallInOrder(i) /\ (HasRead(i)' => HasRead(i)) /\ stack' = stack
      BY <1>2 DEF OrderInv, CallsInOrder, HasRead
    <3>. QED
      BY <1>2, <3>1, CallKept
  <2>. QED
    BY <1>2, <2>1 DEF OrderInv, CallsInOrder, NextIsTaken
<1>9. KeyOfDirectory'
  <2>. SUFFICES ASSUME AtTop("list"), Resolve(Top.path)' \in Dir
                PROVE  Top.key = Resolve(Top.path)'
    BY <1>2 DEF KeyOfDirectory, AtTop, Top
  <2>1. Top.path \in Path /\ Top.path' = Top.path
    BY <1>2, TopFacts DEF AtTop, StackInv, FrameType, Top
  <2>2. root \in Node \union {Absent} /\ tree \in Tree /\ tree' \in Tree /\ root' = root
    BY <1>2 DEF TypeOK, Node
  <2>3. Lookup(root, tree', Top.path) \in Dir
    BY <2>1, <2>2 DEF Resolve
  <2>4. Lookup(root, tree, Top.path) = Lookup(root, tree', Top.path)
    BY <1>6, <2>1, <2>2, <2>3, DirectoryWasThere
  <2>5. Resolve(Top.path) \in Dir /\ Resolve(Top.path)' = Resolve(Top.path)
    BY <2>1, <2>2, <2>3, <2>4 DEF Resolve
  <2>. QED
    BY <2>5 DEF OrderInv, KeyOfDirectory
<1>. QED
  BY <1>7, <1>8, <1>9 DEF OrderInv

LEMMA WalkInOrder ==
  ASSUME TypeOK, StackInv, StackInv', OrderInv, Walk
  PROVE  OrderInv'
<1>0. UNCHANGED <<diskVars, inputVars>> /\ stack # << >>
  BY DEF Walk, EnterFails, Enter, EnterLoop, ListDirectory, SearchItself, ListFails,
         QueueFile, SearchSubdirectory, SkipDeep, Leave, AtTop
<1>1. /\ Top \in FrameType /\ Top = stack[Len(stack)] /\ Len(stack) \in Nat
      /\ Len(stack) >= 1 /\ (Top.at # "entries" => Top.rest = {})
  BY <1>0, TopFacts DEF StackInv, CallsNest
<1>2. DiskOnlyLoses'
  BY <1>0 DEF OrderInv, DiskOnlyLoses, diskVars, inputVars
<1>. DEFINE unread == [Top EXCEPT !.at = "list"]
            read == [Top EXCEPT !.at = "entries"]
            entered(key) == [Top EXCEPT !.at = "list", !.key = key]
<1>3. /\ \A f \in {unread, read} :
           f \in FrameType /\ f.path = Top.path /\ f.ig = Top.ig /\ f.rest = Top.rest
           /\ f.key = Top.key
      /\ \A e \in Top.rest : /\ Without(e) \in FrameType
                             /\ Without(e).path = Top.path /\ Without(e).ig = Top.ig
                             /\ Without(e).key = Top.key /\ Without(e).rest \subseteq Top.rest
                             /\ Without(e).at = Top.at
      /\ \A key \in Inode : /\ entered(key) \in FrameType
                            /\ entered(key).path = Top.path /\ entered(key).ig = Top.ig
                            /\ entered(key).rest = Top.rest /\ entered(key).key = key
      /\ unread.at = "list" /\ read.at = "entries"
  <2>1. /\ unread \in FrameType /\ unread.path = Top.path /\ unread.ig = Top.ig
        /\ unread.rest = Top.rest /\ unread.key = Top.key /\ unread.at = "list"
    BY <1>1 DEF FrameType
  <2>2. /\ read \in FrameType /\ read.path = Top.path /\ read.ig = Top.ig
        /\ read.rest = Top.rest /\ read.key = Top.key /\ read.at = "entries"
    BY <1>1 DEF FrameType
  <2>3. \A e \in Top.rest :
          /\ Without(e) \in FrameType
          /\ Without(e).path = Top.path /\ Without(e).ig = Top.ig
          /\ Without(e).key = Top.key /\ Without(e).rest \subseteq Top.rest
          /\ Without(e).at = Top.at
    BY <1>1 DEF FrameType, Without
  <2>4. \A key \in Inode :
          /\ entered(key) \in FrameType
          /\ entered(key).path = Top.path /\ entered(key).ig = Top.ig
          /\ entered(key).rest = Top.rest /\ entered(key).key = key
    BY <1>1 DEF FrameType
  <2>. HIDE DEF unread, read, entered
  <2>. QED
    BY <2>1, <2>2, <2>3, <2>4
<1>4. \A f \in FrameType : stack' = SetTop(f) => Top' = f /\ stack' # << >>
  <2>. SUFFICES ASSUME NEW f \in FrameType, stack' = SetTop(f)
                PROVE  Top' = f /\ stack' # << >>
    OBVIOUS
  <2>1. Len(SetTop(f)) = Len(stack) /\ SetTop(f)[Len(stack)] = f
    BY <1>0, SetTopFacts DEF StackInv
  <2>. QED
    BY <1>1, <2>1 DEF Top
<1>5. ASSUME NEW p \in Path PROVE Resolve(p)' = Resolve(p)
  BY <1>0 DEF Resolve, diskVars
<1>. HIDE DEF unread, read, entered
<1>6. CASE EnterFails
  <2>1. Top.at = "enter" /\ Resolve(Top.path) = Absent /\ stack' = SetTop(unread)
    BY <1>6 DEF EnterFails, AtTop, unread
  <2>2. CallsInOrder'
    BY <1>0, <1>3, <2>1, GoesOnInOrder
  <2>3. Top' = unread /\ Resolve(Top'.path) = Absent
    BY <1>3, <1>4, <2>1
  <2>4. Resolve(Top.path)' \notin Dir
    BY <1>0, <2>3, DirWalkAssumption DEF Resolve, diskVars, Node, Inode
  <2>. QED
    BY <1>2, <2>2, <2>4 DEF OrderInv, KeyOfDirectory
<1>7. CASE Enter
  <2>1. PICK key \in Inode : key = Resolve(Top.path) /\ stack' = SetTop(entered(key))
    BY <1>7 DEF Enter, entered
  <2>2. Top.at = "enter"
    BY <1>7 DEF Enter, AtTop
  <2>3. CallsInOrder'
    BY <1>0, <1>1, <1>3, <2>1, <2>2, GoesOnInOrder
  <2>4. Top' = entered(key) /\ Top'.key = Resolve(Top'.path)
    BY <1>3, <1>4, <2>1
  <2>5. Top'.key = Resolve(Top.path)'
    BY <1>0, <2>4 DEF Resolve, diskVars
  <2>. QED
    BY <1>2, <2>3, <2>5 DEF OrderInv, KeyOfDirectory
<1>8. CASE EnterLoop \/ Leave
  <2>1. stack' = Front(stack)
    BY <1>8 DEF EnterLoop, Leave
  <2>2. CallsInOrder'
    BY <1>0, <2>1, ReturnsInOrder
  <2>3. ~AtTop("list")'
    <3>. SUFFICES ASSUME stack' # << >> PROVE Top'.at # "list"
      BY DEF AtTop
    <3>. DEFINE m == Len(stack) - 1
    <3>1. Len(stack') = m /\ \A i \in 1..m : stack'[i] = stack[i]
      BY <1>0, <2>1, FrontFacts DEF StackInv
    <3>2. m \in 1..m
      <4>1. stack' \in Seq(FrameType)
        BY DEF StackInv, CallsNest
      <4>2. m # 0
        BY <3>1, <4>1, EmptySeq
      <4>3. m \in Nat
        BY <1>1
      <4>. HIDE DEF m
      <4>. QED
        BY <4>2, <4>3
    <3>3. stack[m].at = "entries"
      BY <3>2 DEF StackInv, CallsNest
    <3>4. Top' = stack[m]
      BY <3>1, <3>2 DEF Top
    <3>. QED
      BY <3>3, <3>4
  <2>. QED
    BY <1>2, <2>2, <2>3 DEF OrderInv, KeyOfDirectory
<1>9. CASE ListDirectory
  <2>1. CallsInOrder'
    BY <1>9, ListDirectoryInOrder
  <2>2. ~AtTop("list")'
    <3>1. PICK f : stack' = SetTop(f) /\ f.at = "entries"
      <4>1. PICK ig, rest : stack' = SetTop([Top EXCEPT !.at = "entries", !.ig = ig, !.rest = rest])
        BY <1>9 DEF ListDirectory
      <4>2. [Top EXCEPT !.at = "entries", !.ig = ig, !.rest = rest].at = "entries"
        BY <1>1 DEF FrameType
      <4>. QED
        BY <4>1, <4>2
    <3>2. /\ stack \in Seq(FrameType) /\ Len(stack) \in 1..Len(stack)
          /\ stack' = [stack EXCEPT ![Len(stack)] = f]
      BY <1>1, <3>1 DEF StackInv, CallsNest, SetTop
    <3>3. Len(stack') = Len(stack) /\ stack'[Len(stack)] = f
      BY <1>1, <3>2
    <3>4. Top' = f
      BY <3>3 DEF Top
    <3>. QED
      BY <3>1, <3>4 DEF AtTop
  <2>. QED
    BY <1>2, <2>1, <2>2 DEF OrderInv, KeyOfDirectory
<1>10. CASE SearchItself \/ ListFails \/ QueueFile \/ SkipDeep
  <2>1. \E f \in FrameType :
          /\ stack' = SetTop(f) /\ f.at = "entries"
          /\ f.path = Top.path /\ f.ig = Top.ig /\ f.rest \subseteq Top.rest /\ f.key = Top.key
    <3>1. CASE SearchItself \/ ListFails
      <4>1. stack' = SetTop(read)
        BY <3>1 DEF SearchItself, ListFails, read
      <4>. QED
        BY <1>3, <4>1
    <3>2. CASE QueueFile \/ SkipDeep
      <4>1. PICK e \in Top.rest : stack' = SetTop(Without(e))
        BY <3>2 DEF QueueFile, SkipDeep
      <4>2. Top.at = "entries"
        BY <3>2 DEF QueueFile, SkipDeep, AtTop
      <4>. QED
        BY <1>3, <4>1, <4>2
    <3>. QED
      BY <1>10, <3>1, <3>2
  <2>2. CallsInOrder'
    BY <1>0, <2>1, GoesOnInOrder
  <2>3. ~AtTop("list")'
    BY <1>4, <2>1 DEF AtTop
  <2>. QED
    BY <1>2, <2>2, <2>3 DEF OrderInv, KeyOfDirectory
<1>11. CASE SearchSubdirectory
  <2>1. CallsInOrder'
    BY <1>11, SubdirectoryInOrder
  <2>2. Top'.at = "enter"
    <3>1. PICK f, g : stack' = Append(SetTop(g), f) /\ f.at = "enter" /\ g \in FrameType
      BY <1>3, <1>11 DEF SearchSubdirectory, Frame
    <3>2. SetTop(g) \in Seq(FrameType)
      BY <1>0, <3>1, SetTopFacts DEF StackInv
    <3>3. Len(stack') = Len(SetTop(g)) + 1 /\ stack'[Len(SetTop(g)) + 1] = f
      <4>. DEFINE low == SetTop(g)
      <4>. HIDE DEF low
      <4>1. low \in Seq(FrameType) /\ stack' = Append(low, f)
        BY <3>1, <3>2 DEF low
      <4>2. Len(stack') = Len(low) + 1 /\ stack'[Len(low) + 1] = f
        BY <4>1
      <4>. QED
        BY <4>2 DEF low
    <3>. QED
      BY <3>1, <3>3 DEF Top
  <2>. QED
    BY <1>2, <2>1, <2>2 DEF OrderInv, KeyOfDirectory, AtTop
<1>. QED
  BY <1>6, <1>7, <1>8, <1>9, <1>10, <1>11 DEF Walk

LEMMA InitInOrder ==
  ASSUME Init
  PROVE  OrderInv
<1>1. TypeOK /\ StackInv
  BY InitHolds DEF IInv
<1>. DEFINE frame == Frame(<< >>, NoIgnores, {})
<1>2. frame.path = << >> /\ frame.ig.abs_path = << >> /\ frame.rest = {} /\ frame.at = "enter"
  BY DEF Frame, NoIgnores
<1>3. stack = <<frame>> /\ tree = before
  BY DEF Init
<1>. HIDE DEF frame
<1>4. Len(stack) = 1 /\ stack[1] = frame
  BY <1>3
<1>5. << >> \in Path /\ Len(<< >>) = 0
  BY EmptySeq DEF Path
<1>6. CallInOrder(1)
  <2>1. \A j \in 1..1 : j - 1 = 0 /\ j = 1
    OBVIOUS
  <2>2. Above(<< >>, 0) = << >>
    BY <1>5, AboveAll
  <2>3. Allowed(<< >>)
    BY <1>5, DirWalkAssumption DEF Allowed
  <2>. QED
    BY <1>2, <1>4, <2>1, <2>2, <2>3 DEF CallInOrder, HasRead
<1>7. CallsInOrder
  <2>1. \A j \in 1..1 : j = 1
    OBVIOUS
  <2>. QED
    BY <1>4, <1>6, <2>1 DEF CallsInOrder, NextIsTaken
<1>8. KeyOfDirectory
  BY <1>2, <1>3, <1>4 DEF KeyOfDirectory, AtTop, Top
<1>9. DiskOnlyLoses
  BY <1>3 DEF DiskOnlyLoses, Loses
<1>. QED
  BY <1>7, <1>8, <1>9 DEF OrderInv

-----------------------------------------------------------------------------
(* What is still to come, and what was listed.                             *)

\* What lies below an entry that waits, or below a directory that was not listed yet.
ToComeIn(frame, p) ==
  \/ \E e \in frame.rest : IsPrefix(Append(frame.path, e.name), p)
  \/ frame.at # "entries" /\ IsPrefix(frame.path, p)
ToComeBelow(p) == \E i \in 1..(Len(stack) - 1) : ToComeIn(stack[i], p)
ToCome(p) == \E i \in 1..Len(stack) : ToComeIn(stack[i], p)

\* No call comes back to what was listed.
ListedIsPast == \A p \in Listed : ~ToCome(p)

\* No pattern excludes what was queued, nor the directories above it.
QueuedNotExcluded ==
  \A i \in 1..Len(work_queue) : LET p == work_queue[i] IN
    /\ p # << >> /\ Allowed(Front(p))
    /\ \A j \in 0..(Len(p) - 1) :
         /\ Found(Above(p, j)) \in Dir
         /\ ~Excludes(IgnoresAt(Above(p, j)), form, Front(p), Last(p), NewFile)

\* Every file that should be listed is, or will be.
AllToCome == \A p \in Path : Visible(p) /\ ~WasChanged(p) => p \in Listed \/ ToCome(p)

ListInv == ListedAreVisible /\ ListedIsPast /\ QueuedNotExcluded /\ AllToCome

\* Two calls never search one directory.
LEMMA CallsDiffer ==
  ASSUME StackInv, OrderInv, NEW i \in 1..Len(stack), NEW j \in 1..Len(stack), i # j,
         HasRead(i), HasRead(j)
  PROVE  Found(stack[i].path) # Found(stack[j].path)
<1>1. /\ Found(stack[i].path) \in Dir /\ stack[i].key = Found(stack[i].path)
      /\ stack[j].key = Found(stack[j].path)
  BY DEF OrderInv, CallsInOrder, CallInOrder, DirectoryRead
<1>2. stack[i].key # NoKey
  BY <1>1, DirWalkAssumption DEF NoKey, Node, Inode
<1>. QED
  BY <1>1, <1>2 DEF StackInv, LoopTable

LEMMA CallNotTwice ==
  ASSUME StackInv, OrderInv, NEW i \in 1..Len(stack), HasRead(i)
  PROVE  ~PassesTwice(stack[i].path) /\ Reached(stack[i].path)
<1>. DEFINE p == stack[i].path
<1>1. Len(p) = i - 1 /\ CallInOrder(i) /\ Len(stack) \in Nat
  BY DEF StackInv, CallsNest, OrderInv, CallsInOrder
<1>2. ASSUME NEW j \in 0..Len(p), NEW k \in 0..Len(p), j < k
      PROVE  Found(Above(p, j)) # Found(Above(p, k))
  <2>1. j + 1 \in 1..i /\ k + 1 \in 1..i /\ (j + 1) - 1 = j /\ (k + 1) - 1 = k /\ j + 1 # k + 1
    BY <1>1, <1>2
  <2>2. Above(p, j) = stack[j + 1].path /\ Above(p, k) = stack[k + 1].path
    BY <1>1, <2>1 DEF CallInOrder
  <2>3. j + 1 \in 1..Len(stack) /\ k + 1 \in 1..Len(stack) /\ HasRead(j + 1) /\ HasRead(k + 1)
    BY <1>1, <2>1 DEF HasRead
  <2>. QED
    BY <2>1, <2>2, <2>3, CallsDiffer
<1>3. ~PassesTwice(p)
  BY <1>2 DEF PassesTwice
<1>. QED
  BY <1>1, <1>3 DEF CallInOrder, Reached

\* What lies below the directory of the call on top waits in no call below.
LEMMA NotBelow ==
  ASSUME TypeOK, StackInv, OrderInv, stack # << >>, NEW p \in Path, IsPrefix(Top.path, p)
  PROVE  ~ToComeBelow(p)
<1>. DEFINE n == Len(stack)
<1>1. /\ n \in Nat /\ n >= 1 /\ n \in 1..n /\ Top = stack[n]
      /\ Top.path \in Path /\ Len(Top.path) = n - 1
  BY TopFacts DEF StackInv, FrameType
<1>2. Len(Top.path) <= Len(p) /\ Above(p, n - 1) = Top.path
  BY <1>1, PrefixIsAbove
<1>. SUFFICES ASSUME NEW i \in 1..(n - 1), ToComeIn(stack[i], p) PROVE FALSE
  BY DEF ToComeBelow
<1>3. /\ i \in 1..n /\ i + 1 \in 1..n /\ i < n /\ (i + 1) - 1 = i /\ i \in 0..(n - 1)
      /\ i \in 1..i /\ n - 1 \in 0..Len(p) /\ i - 1 \in Nat
  BY <1>1, <1>2, PathLength
<1>4. stack[i].at = "entries" /\ stack[i] \in FrameType /\ stack[i].path \in Path
      /\ Len(stack[i].path) = i - 1
  BY <1>1, <1>3, TopFacts DEF StackInv, CallsNest, FrameType
<1>5. PICK e \in stack[i].rest : IsPrefix(Append(stack[i].path, e.name), p)
  BY <1>4 DEF ToComeIn
<1>6. e.name \in Name
  BY <1>4 DEF FrameType
<1>7. p[i] = e.name
  <2>1. p[Len(stack[i].path) + 1] = e.name
    BY <1>4, <1>5, <1>6, PrefixOfEntry
  <2>2. Len(stack[i].path) + 1 = i
    BY <1>3, <1>4
  <2>. QED
    BY <2>1, <2>2
<1>8. stack[i + 1].path = Above(p, i)
  <2>1. Above(Top.path, i) = stack[i + 1].path
    <3>1. CallInOrder(n)
      BY <1>1 DEF OrderInv, CallsInOrder
    <3>. QED
      BY <1>1, <1>3, <3>1 DEF CallInOrder
  <2>2. Above(Above(p, n - 1), i) = Above(p, i)
    BY <1>3, AboveAbove
  <2>. QED
    BY <1>2, <2>1, <2>2
<1>9. Last(stack[i + 1].path) = p[i]
  <2>1. Len(Above(p, i)) = i /\ Above(p, i)[i] = p[i]
    <3>1. i \in 0..Len(p)
      BY <1>1, <1>2, <1>3, PathLength
    <3>. QED
      BY <1>3, <3>1, AboveFacts
  <2>. QED
    BY <1>8, <2>1 DEF Last
<1>. QED
  BY <1>3, <1>5, <1>7, <1>9 DEF OrderInv, CallsInOrder, NextIsTaken

\* What is to come, by the calls below and the one on top.
LEMMA ToComeParts ==
  ASSUME CallsNest, stack # << >>
  PROVE  \A p : ToCome(p) <=> ToComeBelow(p) \/ ToComeIn(Top, p)
<1>1. Len(stack) \in Nat /\ Len(stack) >= 1 /\ Top = stack[Len(stack)]
  BY TopFacts
<1>2. \A i \in 1..Len(stack) : i \in 1..(Len(stack) - 1) \/ i = Len(stack)
  BY <1>1
<1>3. Len(stack) \in 1..Len(stack) /\ \A i \in 1..(Len(stack) - 1) : i \in 1..Len(stack)
  BY <1>1
<1>. QED
  BY <1>1, <1>2, <1>3 DEF ToCome, ToComeBelow

LEMMA SetTopComes ==
  ASSUME CallsNest, stack # << >>, NEW frame \in FrameType, stack' = SetTop(frame)
  PROVE  \A p : ToCome(p)' <=> ToComeBelow(p) \/ ToComeIn(frame, p)
<1>. DEFINE n == Len(stack)
<1>1. /\ n \in Nat /\ n >= 1 /\ Len(stack') = n /\ stack'[n] = frame
      /\ \A i \in 1..(n - 1) : stack'[i] = stack[i]
  BY TopFacts, SetTopFacts
<1>2. n \in 1..n /\ \A i \in 1..n : i \in 1..(n - 1) \/ i = n
  BY <1>1
<1>3. \A i \in 1..(n - 1) : i \in 1..n
  BY <1>1
<1>. QED
  BY <1>1, <1>2, <1>3 DEF ToCome, ToComeBelow

LEMMA FrontComes ==
  ASSUME CallsNest, stack # << >>, stack' = Front(stack)
  PROVE  \A p : ToCome(p)' <=> ToComeBelow(p)
BY FrontFacts DEF ToCome, ToComeBelow

-----------------------------------------------------------------------------
(* The lists, action by action.                                            *)

\* A step that lists nothing and leaves no more to come than there was, but for nothing
\* that should be listed.
LEMMA NothingListed ==
  ASSUME ListInv, UNCHANGED <<root, inputVars, work_queue, searched>>, changed \subseteq changed',
         \A p \in Path : ToCome(p)' => ToCome(p),
         \A p \in Path : Visible(p) /\ ~WasChanged(p) /\ ToCome(p) => ToCome(p)',
         Listed \subseteq Path
  PROVE  ListInv'
<1>1. ListedAreVisible'
  BY InputsStay DEF ListInv, ListedAreVisible
<1>2. Listed' = Listed
  BY DEF Listed
<1>3. ListedIsPast'
  BY <1>2 DEF ListInv, ListedIsPast
<1>4. QueuedNotExcluded'
  <2>1. form' = form
    BY DEF inputVars
  <2>. QED
    BY <2>1, InputsStay DEF ListInv, QueuedNotExcluded
<1>5. AllToCome'
  <2>. SUFFICES ASSUME NEW p \in Path, Visible(p)', ~WasChanged(p)'
                PROVE  p \in Listed' \/ ToCome(p)'
    BY DEF AllToCome
  <2>1. Visible(p) /\ ~WasChanged(p)
    BY InputsStay
  <2>. QED
    BY <1>2, <2>1 DEF ListInv, AllToCome
<1>. QED
  BY <1>1, <1>3, <1>4, <1>5 DEF ListInv

LEMMA ListedArePaths ==
  ASSUME TypeOK
  PROVE  Listed \subseteq Path
BY RangeOfSeq DEF TypeOK, Listed

\* What should be listed below the directory of the call on top.
LEMMA BelowTop ==
  ASSUME TypeOK, StackInv, OrderInv, stack # << >>,
         NEW p \in Path, Visible(p), ~WasChanged(p), IsPrefix(Top.path, p)
  PROVE  /\ Resolve(Top.path) = Found(Top.path)
         /\ Len(Top.path) = Len(stack) - 1 /\ Len(stack) - 1 <= Len(p)
         /\ Above(p, Len(stack) - 1) = Top.path
         /\ p = Top.path \/ (Found(Top.path) \in Dir /\ Len(stack) \in 1..Len(p))
<1>. DEFINE n == Len(stack)
<1>1. n \in Nat /\ n >= 1 /\ Top.path \in Path /\ Len(Top.path) = n - 1
  BY TopFacts DEF StackInv, FrameType
<1>2. Len(p) \in Nat /\ n - 1 <= Len(p) /\ Above(p, n - 1) = Top.path
  BY <1>1, PrefixIsAbove, PathLength
<1>3. n - 1 \in 0..Len(p)
  BY <1>1, <1>2
<1>4. /\ Resolve(Above(p, n - 1)) = Found(Above(p, n - 1))
      /\ n - 1 < Len(p) => Found(Above(p, n - 1)) \in Dir
  BY <1>3, UnchangedResolves DEF Visible, Reached, OrderInv
<1>5. n - 1 = Len(p) => p = Top.path
  BY <1>2, AboveAll
<1>. QED
  BY <1>1, <1>2, <1>4, <1>5

LEMMA EnterLists ==
  ASSUME TypeOK, StackInv, OrderInv, ListInv, EnterFails \/ Enter
  PROVE  ListInv'
<1>1. /\ stack # << >> /\ Top.at = "enter"
      /\ UNCHANGED <<root, inputVars, work_queue, searched>> /\ changed \subseteq changed'
  BY DEF EnterFails, Enter, AtTop, diskVars
<1>2. Top \in FrameType /\ CallsNest
  BY <1>1, TopFacts DEF StackInv
<1>3. PICK f \in FrameType :
        stack' = SetTop(f) /\ f.at = "list" /\ f.path = Top.path /\ f.rest = Top.rest
  <2>1. CASE EnterFails
    <3>1. stack' = SetTop([Top EXCEPT !.at = "list"])
      BY <2>1 DEF EnterFails
    <3>. QED
      BY <1>2, <3>1 DEF FrameType
  <2>2. CASE Enter
    <3>1. PICK key \in Inode : stack' = SetTop([Top EXCEPT !.at = "list", !.key = key])
      BY <2>2 DEF Enter
    <3>. DEFINE f == [Top EXCEPT !.at = "list", !.key = key]
    <3>2. f \in FrameType /\ f.at = "list" /\ f.path = Top.path /\ f.rest = Top.rest
      BY <1>2 DEF FrameType
    <3>. HIDE DEF f
    <3>. QED
      BY <3>1, <3>2 DEF f
  <2>. QED
    BY <2>1, <2>2
<1>4. \A p : ToComeIn(f, p) <=> ToComeIn(Top, p)
  BY <1>1, <1>3 DEF ToComeIn
<1>5. \A p : ToCome(p)' <=> ToCome(p)
  BY <1>1, <1>2, <1>3, <1>4, SetTopComes, ToComeParts
<1>. QED
  BY <1>1, <1>5, NothingListed, ListedArePaths

\* A directory found again above itself hides nothing that should be listed.
LEMMA EnterLoopLists ==
  ASSUME TypeOK, StackInv, OrderInv, ListInv, EnterLoop
  PROVE  ListInv'
<1>. DEFINE n == Len(stack)
<1>1. /\ stack # << >> /\ Top.at = "enter" /\ Resolve(Top.path) \in symhash
      /\ stack' = Front(stack)
      /\ UNCHANGED <<root, inputVars, work_queue, searched>> /\ changed \subseteq changed'
  BY DEF EnterLoop, AtTop, diskVars
<1>2. /\ n \in Nat /\ n >= 1 /\ n \in 1..n /\ Top = stack[n] /\ Top \in FrameType /\ CallsNest
      /\ Top.rest = {} /\ Top.key = NoKey
  <2>1. /\ n \in Nat /\ n >= 1 /\ n \in 1..n /\ Top = stack[n] /\ Top \in FrameType /\ CallsNest
    BY <1>1, TopFacts DEF StackInv
  <2>2. Top.rest = {}
    BY <1>1, <2>1 DEF CallsNest
  <2>3. Top.key = NoKey
    BY <1>1, <2>1 DEF StackInv, EnteringHasNoKey
  <2>. QED
    BY <2>1, <2>2, <2>3
<1>3. \A p : (ToCome(p)' <=> ToComeBelow(p)) /\ (ToCome(p) <=> ToComeBelow(p) \/ ToComeIn(Top, p))
  BY <1>1, <1>2, FrontComes, ToComeParts
<1>4. ASSUME NEW p \in Path, Visible(p), ~WasChanged(p), ToComeIn(Top, p) PROVE FALSE
  <2>1. IsPrefix(Top.path, p)
    BY <1>2, <1>4 DEF ToComeIn
  <2>2. /\ Found(Top.path) \in symhash
        /\ n - 1 <= Len(p) /\ Above(p, n - 1) = Top.path
    BY <1>1, <1>4, <2>1, BelowTop
  <2>3. PICK i \in 1..n : stack[i].key = Found(Top.path) /\ stack[i].key # NoKey
    BY <2>2 DEF StackInv, LoopTable
  <2>4. i # n
    BY <1>2, <2>3
  <2>5. i \in 1..(n - 1) /\ HasRead(i) /\ i - 1 \in 0..(n - 1) /\ i - 1 < n - 1
        /\ n - 1 \in 0..Len(p) /\ i - 1 \in 0..Len(p)
    BY <1>2, <2>2, <2>4, PathLength DEF HasRead
  <2>6. Found(stack[i].path) = Found(Top.path)
    BY <2>3, <2>5 DEF OrderInv, CallsInOrder, CallInOrder, DirectoryRead
  <2>7. Above(p, i - 1) = stack[i].path
    <3>1. CallInOrder(n)
      BY <1>2 DEF OrderInv, CallsInOrder
    <3>2. Above(Top.path, i - 1) = stack[i].path
      BY <1>2, <3>1 DEF CallInOrder
    <3>3. Above(Above(p, n - 1), i - 1) = Above(p, i - 1)
      BY <2>5, AboveAbove
    <3>. QED
      BY <2>2, <3>2, <3>3
  <2>8. PassesTwice(p)
    BY <2>2, <2>5, <2>6, <2>7 DEF PassesTwice
  <2>. QED
    BY <1>4, <2>8 DEF Visible, Reached
<1>. QED
  BY <1>1, <1>3, <1>4, NothingListed, ListedArePaths

LEMMA LeaveLists ==
  ASSUME TypeOK, StackInv, OrderInv, ListInv, Leave
  PROVE  ListInv'
<1>1. /\ stack # << >> /\ Top.at = "entries" /\ Top.rest = {}
      /\ stack' = Front(stack)
      /\ UNCHANGED <<root, inputVars, work_queue, searched>> /\ changed \subseteq changed'
  BY DEF Leave, AtTop, diskVars
<1>2. CallsNest
  BY DEF StackInv
<1>3. \A p : ~ToComeIn(Top, p)
  BY <1>1 DEF ToComeIn
<1>4. \A p : ToCome(p)' <=> ToCome(p)
  BY <1>1, <1>2, <1>3, FrontComes, ToComeParts
<1>. QED
  BY <1>1, <1>4, NothingListed, ListedArePaths

LEMMA ListFailsLists ==
  ASSUME TypeOK, StackInv, OrderInv, ListInv, ListFails
  PROVE  ListInv'
<1>1. /\ stack # << >> /\ Top.at = "list" /\ Resolve(Top.path) = Absent
      /\ stack' = SetTop([Top EXCEPT !.at = "entries"])
      /\ UNCHANGED <<root, inputVars, work_queue, searched>> /\ changed \subseteq changed'
  BY DEF ListFails, AtTop, diskVars
<1>2. Top \in FrameType /\ Top.rest = {} /\ CallsNest
  BY <1>1, TopFacts DEF StackInv, CallsNest
<1>3. PICK f \in FrameType : stack' = SetTop(f) /\ f.at = "entries" /\ f.rest = {}
  BY <1>1, <1>2 DEF FrameType
<1>4. \A p : ~ToComeIn(f, p)
  BY <1>3 DEF ToComeIn
<1>5. \A p : (ToCome(p)' <=> ToComeBelow(p)) /\ (ToCome(p) <=> ToComeBelow(p) \/ ToComeIn(Top, p))
  BY <1>1, <1>2, <1>3, <1>4, SetTopComes, ToComeParts
<1>6. ASSUME NEW p \in Path, Visible(p), ~WasChanged(p), ToComeIn(Top, p) PROVE FALSE
  <2>1. IsPrefix(Top.path, p)
    BY <1>2, <1>6 DEF ToComeIn
  <2>2. Found(Top.path) = Absent /\ (p = Top.path \/ Found(Top.path) \in Dir)
    BY <1>1, <1>6, <2>1, BelowTop
  <2>3. Found(p) \in File
    BY <1>6 DEF Visible
  <2>. QED
    BY <2>2, <2>3, DirWalkAssumption DEF Node, Inode
<1>. QED
  BY <1>1, <1>5, <1>6, NothingListed, ListedArePaths

\* scandir reports every entry that leads to a file that should be listed.
LEMMA ListDirectoryLists ==
  ASSUME TypeOK, StackInv, OrderInv, ListInv, ListDirectory
  PROVE  ListInv'
<1>1. /\ stack # << >> /\ Top.at = "list"
      /\ UNCHANGED <<root, inputVars, work_queue, searched>> /\ changed \subseteq changed'
  BY DEF ListDirectory, AtTop, diskVars
<1>2. PICK n : n = Len(stack) /\ n \in Nat /\ n >= 1 /\ n \in 1..n /\ Top = stack[n]
               /\ Top \in FrameType /\ CallsNest /\ Top.path \in Path /\ Len(Top.path) = n - 1
               /\ Top.parents \subseteq 1..(n - 1)
  BY <1>1, TopFacts DEF StackInv, FrameType
<1>3. PICK dir \in Dir :
        /\ dir = Resolve(Top.path)
        /\ LET ig == [Top.ig EXCEPT !.patterns = patterns[dir]]
           IN stack' = SetTop([Top EXCEPT !.at = "entries", !.ig = ig,
                        !.rest = ag_scandir(dir, Top.path, {ig} \union IgnoresAbove)])
  BY DEF ListDirectory
<1>. DEFINE ig == [Top.ig EXCEPT !.patterns = patterns[dir]]
            igs == {ig} \union IgnoresAbove
            entries == {[name |-> nm, node |-> tree[dir][nm]] : nm \in DOMAIN tree[dir]}
            rest == ag_scandir(dir, Top.path, igs)
            frame == [Top EXCEPT !.at = "entries", !.ig = ig, !.rest = rest]
<1>4. frame.path = Top.path /\ frame.at = "entries" /\ frame.rest = rest
  <2>. HIDE DEF ig, rest
  <2>. QED
    BY <1>2 DEF FrameType
<1>5. Len(stack') = n /\ stack'[n] = frame /\ \A i \in 1..(n - 1) : stack'[i] = stack[i]
  <2>1. stack \in Seq(FrameType) /\ stack' = [stack EXCEPT ![n] = frame]
    BY <1>2, <1>3 DEF CallsNest, SetTop
  <2>. HIDE DEF frame
  <2>. QED
    BY <1>2, <2>1
<1>. HIDE DEF frame
<1>6. \A p : ToCome(p)' <=> ToComeBelow(p) \/ \E e \in rest : IsPrefix(Append(Top.path, e.name), p)
  <2>1. \A p : ToComeIn(frame, p) <=> \E e \in rest : IsPrefix(Append(Top.path, e.name), p)
    <3>. HIDE DEF rest
    <3>. QED
      BY <1>4 DEF ToComeIn
  <2>2. \A i \in 1..n : i \in 1..(n - 1) \/ i = n
    BY <1>2
  <2>3. \A i \in 1..(n - 1) : i \in 1..n
    BY <1>2
  <2>. HIDE DEF rest
  <2>. QED
    BY <1>2, <1>5, <2>1, <2>2, <2>3 DEF ToCome, ToComeBelow
<1>7. \A p : ToCome(p) <=> ToComeBelow(p) \/ ToComeIn(Top, p)
  BY <1>1, <1>2, ToComeParts
<1>8. ASSUME NEW p \in Path, ToCome(p)' PROVE ToCome(p)
  <2>1. CASE ToComeBelow(p)
    BY <1>7, <2>1
  <2>2. CASE \E e \in rest : IsPrefix(Append(Top.path, e.name), p)
    <3>1. PICK e \in rest : IsPrefix(Append(Top.path, e.name), p)
      BY <2>2
    <3>2. e.name \in Name
      <4>1. PICK nm \in DOMAIN tree[dir] : e.name = nm
        BY DEF ag_scandir
      <4>2. tree[dir] \in UNION {[S -> Node] : S \in SUBSET Name}
        BY DEF TypeOK, Tree
      <4>. QED
        BY <4>1, <4>2
    <3>3. IsPrefix(Top.path, p)
      BY <1>2, <3>1, <3>2, PrefixOfEntry
    <3>. QED
      BY <1>1, <1>7, <3>3 DEF ToComeIn
  <2>. QED
    BY <1>6, <1>8, <2>1, <2>2
<1>9. ASSUME NEW p \in Path, Visible(p), ~WasChanged(p), ToComeIn(Top, p)
      PROVE  \E e \in rest : IsPrefix(Append(Top.path, e.name), p)
  <2>0. Top.rest = {}
    BY <1>1, <1>2 DEF CallsNest
  <2>1. IsPrefix(Top.path, p)
    BY <1>9, <2>0 DEF ToComeIn
  <2>2. /\ Found(Top.path) = dir /\ Above(p, n - 1) = Top.path /\ n \in 1..Len(p)
        /\ Len(p) \in Nat
    <3>1. Found(p) \notin Dir
      BY <1>9, DirWalkAssumption DEF Visible
    <3>2. /\ Found(Top.path) = dir /\ Above(p, n - 1) = Top.path
          /\ p = Top.path \/ n \in 1..Len(p)
      BY <1>1, <1>2, <1>3, <1>9, <2>1, BelowTop
    <3>. QED
      BY <3>1, <3>2, PathLength
  <2>. DEFINE nm == p[n]
  <2>3. n \in 0..Len(p) /\ n - 1 \in 0..(n - 1) /\ \A j \in 1..(n - 1) : j - 1 \in 0..(n - 1)
    BY <1>2, <2>2
  <2>4. /\ Found(Above(p, n)) \in Inode /\ nm \notin Dotted
        /\ \A j \in 0..(n - 1) :
             ~Excludes(IgnoresAt(Above(p, j)), form, Top.path, nm, Found(Above(p, n)))
    BY <1>9, <2>2 DEF Visible, Reached, Allowed
  <2>5. /\ nm \in DOMAIN before[dir] /\ Found(Above(p, n)) = before[dir][nm]
    <3>1. Found(Above(p, n)) = Entry(before, Found(Above(p, n - 1)), nm)
      BY <2>2, FoundFacts
    <3>. QED
      BY <2>2, <2>4, <3>1, DirWalkAssumption DEF Entry, Node
  <2>6. <<dir, nm>> \notin changed
    BY <1>9, <2>2 DEF WasChanged
  <2>7. nm \in DOMAIN tree[dir] /\ tree[dir][nm] = Found(Above(p, n))
    BY <2>5, <2>6 DEF OrderInv, DiskOnlyLoses
  <2>8. ASSUME NEW x \in igs
        PROVE  ~Excludes(x, form, Top.path, nm, tree[dir][nm])
    <3>1. CASE x = ig
      <4>1. Top.ig \in [patterns : SUBSET Pattern, abs_path : Path] /\ Top.ig.abs_path = Top.path
        BY <1>2 DEF FrameType, OrderInv, CallsInOrder, CallInOrder
      <4>2. ig = [patterns |-> patterns[dir], abs_path |-> Top.path]
        BY <4>1
      <4>3. ig = IgnoresAt(Top.path)
        <5>. HIDE DEF ig
        <5>. QED
          BY <2>2, <4>2 DEF IgnoresAt
      <4>. HIDE DEF ig
      <4>. QED
        BY <2>2, <2>3, <2>4, <2>7, <3>1, <4>3
    <3>2. CASE x \in IgnoresAbove
      <4>1. PICK i \in Top.parents : x = stack[i].ig
        BY <3>2 DEF IgnoresAbove
      <4>2. /\ i \in 1..(n - 1) /\ i \in 1..n /\ i \in 1..Len(stack) /\ HasRead(i)
            /\ i - 1 \in 0..(n - 1)
        BY <1>2, <4>1 DEF HasRead
      <4>3. x = IgnoresAt(stack[i].path)
        BY <4>1, <4>2, IgnoresOfCall
      <4>4. stack[i].path = Above(p, i - 1)
        <5>1. CallInOrder(n)
          BY <1>2 DEF OrderInv, CallsInOrder
        <5>2. Above(Top.path, i - 1) = stack[i].path
          BY <1>2, <4>2, <5>1 DEF CallInOrder
        <5>3. Above(Above(p, n - 1), i - 1) = Above(p, i - 1)
          <6>1. n - 1 \in 0..Len(p)
            BY <1>2, <2>2
          <6>. QED
            BY <4>2, <6>1, AboveAbove
        <5>. QED
          BY <2>2, <5>2, <5>3
      <4>. QED
        BY <2>4, <2>7, <4>2, <4>3, <4>4
    <3>. QED
      BY <3>1, <3>2
  <2>. DEFINE e == [name |-> nm, node |-> tree[dir][nm]]
  <2>9. e \in rest
    <3>1. e \in entries
      BY <2>7
    <3>2. tree[dir][nm] \notin {Symlink, Pipe}
      BY <2>4, <2>7, DirWalkAssumption
    <3>3. e.name = nm /\ e.node = tree[dir][nm]
      OBVIOUS
    <3>4. filename_filter(igs, Top.path, e.name, e.node)
      <4>. HIDE DEF nm, igs, e
      <4>. QED
        BY <2>4, <2>8, <3>2, <3>3 DEF filename_filter
    <3>. HIDE DEF e, nm, igs
    <3>. QED
      BY <3>1, <3>4 DEF ag_scandir
  <2>10. IsPrefix(Append(Top.path, nm), p)
    <3>1. nm \in Name
      BY <2>2, PathLength
    <3>2. Len(Top.path) < Len(p) /\ p[Len(Top.path) + 1] = nm
      BY <1>2, <2>2
    <3>. HIDE DEF nm
    <3>. QED
      BY <1>2, <2>1, <3>1, <3>2, PrefixOfEntry
  <2>. HIDE DEF rest
  <2>. QED
    BY <2>9, <2>10
<1>10. ASSUME NEW p \in Path, Visible(p), ~WasChanged(p), ToCome(p) PROVE ToCome(p)'
  <2>. HIDE DEF rest
  <2>. QED
    BY <1>6, <1>7, <1>9, <1>10
<1>. QED
  BY <1>1, <1>8, <1>10, NothingListed, ListedArePaths

\* An entry too deep hides no file that should be listed.
LEMMA SkipDeepLists ==
  ASSUME TypeOK, StackInv, OrderInv, ListInv, SkipDeep
  PROVE  ListInv'
<1>1. /\ stack # << >> /\ Top.at = "entries" /\ ~MaySearchDeeper
      /\ UNCHANGED <<root, inputVars, work_queue, searched>> /\ changed \subseteq changed'
  BY DEF SkipDeep, AtTop, diskVars
<1>2. Top \in FrameType /\ CallsNest /\ Len(Top.path) = Len(stack) - 1
  BY <1>1, TopFacts DEF StackInv
<1>3. PICK e \in Top.rest : e.node \in Dir /\ stack' = SetTop(Without(e))
  BY DEF SkipDeep
<1>4. /\ Without(e) \in FrameType /\ Without(e).at = "entries"
      /\ Without(e).path = Top.path /\ Without(e).rest = Top.rest \ {e}
  BY <1>1, <1>2 DEF FrameType, Without
<1>5. \A p : (ToCome(p)' <=> ToComeBelow(p) \/ ToComeIn(Without(e), p))
             /\ (ToCome(p) <=> ToComeBelow(p) \/ ToComeIn(Top, p))
  BY <1>1, <1>2, <1>3, <1>4, SetTopComes, ToComeParts
<1>6. \A p : /\ ToComeIn(Without(e), p) => ToComeIn(Top, p)
             /\ ToComeIn(Top, p) => ToComeIn(Without(e), p) \/ IsPrefix(Append(Top.path, e.name), p)
  BY <1>1, <1>4 DEF ToComeIn
<1>7. ASSUME NEW p \in Path, Visible(p), IsPrefix(Append(Top.path, e.name), p) PROVE FALSE
  <2>. DEFINE q == Append(Top.path, e.name)
  <2>1. /\ Top.path \in Path /\ e.name \in Name
        /\ EntryOf(e, Found(Top.path)) /\ Found(q) = before[Found(Top.path)][e.name]
    BY <1>1, EntryToCome
  <2>2. Found(q) \in Dir
    BY <1>3, <2>1, DirWalkAssumption DEF EntryOf
  <2>3. q \in Path /\ Len(q) = Len(Top.path) + 1 /\ Len(Top.path) \in Nat /\ Len(p) \in Nat
    BY <2>1, EntryPath, PathLength
  <2>. HIDE DEF q
  <2>4. Len(q) <= Len(p) /\ Above(p, Len(q)) = q
    BY <1>7, <2>3, PrefixIsAbove DEF q
  <2>5. Len(p) <= MaxSearchDepth + 1 /\ Found(p) \in File
    BY <1>7 DEF Visible, Reached, Allowed
  <2>6. Len(p) = Len(q)
    BY <1>1, <2>3, <2>4, <2>5, DirWalkAssumption DEF MaySearchDeeper
  <2>7. p = q
    BY <2>4, <2>6, AboveAll
  <2>. QED
    BY <2>2, <2>5, <2>7, DirWalkAssumption
<1>8. \A p \in Path : Visible(p) /\ ToCome(p) => ToCome(p)'
  BY <1>5, <1>6, <1>7
<1>9. \A p \in Path : ToCome(p)' => ToCome(p)
  BY <1>5, <1>6
<1>. QED
  BY <1>1, <1>8, <1>9, NothingListed, ListedArePaths

\* What waits in a call, with and without an entry.
LEMMA TakenUp ==
  ASSUME TypeOK, StackInv, AtTop("entries"), NEW e \in Top.rest
  PROVE  /\ Without(e) \in FrameType /\ Without(e).at = "entries"
         /\ Without(e).path = Top.path /\ Without(e).rest = Top.rest \ {e}
         /\ \A p : ToComeIn(Top, p) <=>
                     ToComeIn(Without(e), p) \/ IsPrefix(Append(Top.path, e.name), p)
<1>1. stack # << >> /\ Top.at = "entries"
  BY DEF AtTop
<1>2. Top \in FrameType
  BY <1>1, TopFacts DEF StackInv
<1>3. /\ Without(e) \in FrameType /\ Without(e).at = "entries"
      /\ Without(e).path = Top.path /\ Without(e).rest = Top.rest \ {e}
  BY <1>1, <1>2 DEF FrameType, Without
<1>. QED
  BY <1>1, <1>3 DEF ToComeIn

\* A call for a subdirectory takes over what lies below it.
LEMMA SubdirectoryLists ==
  ASSUME TypeOK, StackInv, OrderInv, ListInv, SearchSubdirectory
  PROVE  ListInv'
<1>1. /\ stack # << >> /\ AtTop("entries")
      /\ UNCHANGED <<root, inputVars, work_queue, searched>> /\ changed \subseteq changed'
  BY DEF SearchSubdirectory, AtTop, diskVars
<1>2. PICK e \in Top.rest :
        LET path == Append(Top.path, e.name)
        IN stack' = Append(SetTop(Without(e)), Frame(path, init_ignore(path), Parents))
  BY DEF SearchSubdirectory
<1>. DEFINE path == Append(Top.path, e.name)
            new == Frame(path, init_ignore(path), Parents)
<1>3. \A p : ToComeIn(new, p) <=> IsPrefix(path, p)
  <2>1. new.path = path /\ new.rest = {} /\ new.at = "enter"
    BY DEF Frame
  <2>. HIDE DEF new
  <2>. QED
    BY <2>1 DEF ToComeIn
<1>4. CallsNest /\ Without(e) \in FrameType
      /\ \A p : ToComeIn(Top, p) <=> ToComeIn(Without(e), p) \/ IsPrefix(path, p)
  BY <1>1, TakenUp DEF StackInv
<1>5. PICK n : n = Len(stack) /\ n \in Nat /\ n >= 1
  BY <1>1, <1>4, TopFacts
<1>. HIDE DEF new
<1>6. /\ Len(stack') = n + 1 /\ stack'[n + 1] = new /\ stack'[n] = Without(e)
      /\ \A i \in 1..(n - 1) : stack'[i] = stack[i]
  <2>. DEFINE low == SetTop(Without(e))
  <2>1. /\ low \in Seq(FrameType) /\ Len(low) = n /\ low[n] = Without(e)
        /\ \A i \in 1..(n - 1) : low[i] = stack[i]
    BY <1>1, <1>4, <1>5, SetTopFacts
  <2>2. stack' = Append(low, new)
    BY <1>2 DEF new
  <2>. HIDE DEF low
  <2>. QED
    BY <1>5, <2>1, <2>2
<1>7. \A p : ToCome(p)' <=> ToComeBelow(p) \/ ToComeIn(Without(e), p) \/ ToComeIn(new, p)
  <2>1. \A i \in 1..(n + 1) : i \in 1..(n - 1) \/ i = n \/ i = n + 1
    BY <1>5
  <2>2. n \in 1..(n + 1) /\ n + 1 \in 1..(n + 1) /\ \A i \in 1..(n - 1) : i \in 1..(n + 1)
    BY <1>5
  <2>3. \A i \in 1..(n - 1) : stack'[i] = stack[i]
    BY <1>6
  <2>. QED
    BY <1>5, <1>6, <2>1, <2>2, <2>3 DEF ToCome, ToComeBelow
<1>8. \A p : ToCome(p) <=> ToComeBelow(p) \/ ToComeIn(Top, p)
  BY <1>1, <1>4, ToComeParts
<1>9. \A p : ToCome(p)' <=> ToCome(p)
  BY <1>3, <1>4, <1>7, <1>8
<1>. QED
  BY <1>1, <1>9, NothingListed, ListedArePaths

\* Another program lists nothing.
LEMMA ChangesList ==
  ASSUME TypeOK, ListInv, RemoveEntry \/ ReplaceDirectory
  PROVE  ListInv'
<1>1. UNCHANGED <<root, inputVars, stack, work_queue, searched>> /\ changed \subseteq changed'
  BY DEF RemoveEntry, ReplaceDirectory, MayChange
<1>2. \A p : ToCome(p)' <=> ToCome(p)
  BY <1>1 DEF ToCome
<1>. QED
  BY <1>1, <1>2, NothingListed, ListedArePaths

LEMMA InitLists ==
  ASSUME Init
  PROVE  ListInv
<1>. DEFINE frame == Frame(<< >>, NoIgnores, {})
<1>1. frame.path = << >> /\ frame.at = "enter"
  BY DEF Frame
<1>2. stack = <<frame>> /\ work_queue = << >> /\ searched = {}
  BY DEF Init
<1>. HIDE DEF frame
<1>3. Len(stack) = 1 /\ stack[1] = frame /\ Len(work_queue) = 0 /\ 1..0 = {}
  BY <1>2
<1>4. Listed = {}
  BY <1>2, <1>3 DEF Listed, Range
<1>5. \A p \in Path : ToCome(p)
  <2>. TAKE p \in Path
  <2>1. << >> \in Path /\ Len(<< >>) = 0 /\ Len(p) \in Nat
    BY EmptySeq, PathLength DEF Path
  <2>2. Above(p, Len(<< >>)) = << >>
    BY <2>1, AboveAll
  <2>3. IsPrefix(<< >>, p)
    BY <2>1, <2>2, PrefixIsAbove
  <2>4. 1 \in 1..1
    OBVIOUS
  <2>. QED
    BY <1>1, <1>3, <2>3, <2>4 DEF ToCome, ToComeIn
<1>6. ListedAreVisible
  BY <1>2, <1>3 DEF ListedAreVisible
<1>. QED
  BY <1>3, <1>4, <1>5, <1>6 DEF ListInv, ListedIsPast, QueuedNotExcluded, AllToCome

\* What the walking thread searches itself: the search directory, or a file in the place of
\* the directory that its caller has seen.
LEMMA SearchedIsVisible ==
  ASSUME TypeOK, StackInv, OrderInv, stack # << >>, Resolve(Top.path) \in File
  PROVE  \/ Top.path = << >> /\ Visible(Top.path)
         \/ Allowed(Top.path) /\ Replaced(Top.path)
<1>1. PICK n : n = Len(stack) /\ n \in Nat /\ n >= 1 /\ n \in 1..n /\ Top = stack[n]
               /\ Top.path \in Path /\ Len(Top.path) = n - 1 /\ CallInOrder(n)
  BY TopFacts DEF StackInv, FrameType, OrderInv, CallsInOrder
<1>2. PICK p : p = Top.path
  OBVIOUS
<1>3. /\ p \in Path /\ Len(p) = n - 1 /\ Allowed(p) /\ (n > 1 => Found(p) \in Dir)
      /\ Resolve(p) \in File
  BY <1>1, <1>2 DEF CallInOrder
<1>4. CASE n = 1
  <2>1. p = << >> /\ Len(p) = 0
    BY <1>3, <1>4, EmptySeq DEF Path
  <2>2. Found(p) = Resolve(p)
    BY <1>3, <2>1, FoundFacts
  <2>3. ~PassesTwice(p)
    BY <2>1 DEF PassesTwice
  <2>. QED
    BY <1>2, <1>3, <2>1, <2>2, <2>3 DEF Visible, Reached
<1>5. CASE n # 1
  <2>1. n - 1 \in 1..(Len(stack) - 1) /\ (n - 1) + 1 = n /\ n > 1 /\ n - 1 \in 1..Len(stack)
        /\ n - 1 < Len(stack) /\ p # << >>
    <3>1. p # << >>
      BY <1>1, <1>3, <1>5, EmptySeq DEF Path
    <3>. QED
      BY <1>1, <1>5, <3>1
  <2>2. Front(p) = stack[n - 1].path
    BY <1>1, <1>2, <2>1 DEF StackInv, CallsNest
  <2>3. Reached(Front(p)) /\ Found(Front(p)) \in Dir
    <3>1. HasRead(n - 1)
      BY <2>1 DEF HasRead
    <3>2. CallInOrder(n - 1)
      BY <2>1 DEF OrderInv, CallsInOrder
    <3>. QED
      BY <2>1, <2>2, <3>1, <3>2, CallNotTwice DEF CallInOrder, DirectoryRead
  <2>. DEFINE f == Front(p)
              l == Last(p)
  <2>4. /\ Found(p) = Entry(before, Found(f), l) /\ Resolve(p) = Entry(tree, Resolve(f), l)
        /\ f \in Path
    <3>1. Len(p) \in 1..Len(p) /\ f = Above(p, Len(p) - 1) /\ l = p[Len(p)]
          /\ Len(p) - 1 \in 0..Len(p)
      BY <1>3, <2>1, PathEntry
    <3>2. Above(p, Len(p)) = p /\ f \in Path
      BY <1>3, <3>1, AboveAll, AboveFacts
    <3>. HIDE DEF f, l
    <3>. QED
      BY <1>3, <3>1, <3>2, FoundFacts
  <2>. HIDE DEF f, l
  <2>5. Resolve(f) \in Dir /\ l \in DOMAIN tree[Resolve(f)]
        /\ Resolve(p) = tree[Resolve(f)][l]
    BY <1>3, <2>4, DirWalkAssumption DEF Entry, Node, Inode
  <2>6. Found(f) = Resolve(f)
    BY <2>4, <2>5, DirectoryIsFound DEF OrderInv
  <2>7. l \in DOMAIN before[Found(f)]
    BY <2>5, <2>6 DEF OrderInv, DiskOnlyLoses, Loses
  <2>8. Found(p) = before[Found(f)][l]
    BY <2>4, <2>5, <2>6, <2>7 DEF Entry
  <2>9. <<Found(f), l>> \in changed
    <3>. SUFFICES ASSUME <<Found(f), l>> \notin changed PROVE FALSE
      OBVIOUS
    <3>1. tree[Found(f)][l] = before[Found(f)][l]
      BY <2>5, <2>6, <2>7 DEF OrderInv, DiskOnlyLoses
    <3>. QED
      BY <1>3, <2>1, <2>5, <2>6, <2>8, <3>1, DirWalkAssumption
  <2>. QED
    BY <1>2, <1>3, <2>1, <2>3, <2>9 DEF Replaced, f, l
<1>. QED
  BY <1>4, <1>5

LEMMA SearchItselfLists ==
  ASSUME TypeOK, StackInv, OrderInv, ListInv, SearchItself
  PROVE  ListInv'
<1>1. /\ stack # << >> /\ Top.at = "list" /\ Resolve(Top.path) \in File
      /\ searched' = searched \union {Top.path} /\ work_queue' = work_queue
      /\ stack' = SetTop([Top EXCEPT !.at = "entries"])
      /\ UNCHANGED <<root, inputVars>> /\ changed' = changed
  BY DEF SearchItself, AtTop, diskVars
<1>2. Top \in FrameType /\ Top.rest = {} /\ CallsNest /\ Top.path \in Path
  <2>1. Top \in FrameType /\ Top.rest = {} /\ CallsNest
    BY <1>1, TopFacts DEF StackInv, CallsNest
  <2>. QED
    BY <2>1 DEF FrameType
<1>3. PICK f \in FrameType : stack' = SetTop(f) /\ f.at = "entries" /\ f.rest = {}
  BY <1>1, <1>2 DEF FrameType
<1>4. \A p : ~ToComeIn(f, p)
  BY <1>3 DEF ToComeIn
<1>5. \A p : (ToCome(p)' <=> ToComeBelow(p)) /\ (ToCome(p) <=> ToComeBelow(p) \/ ToComeIn(Top, p))
  BY <1>1, <1>2, <1>3, <1>4, SetTopComes, ToComeParts
<1>6. IsPrefix(Top.path, Top.path)
  BY <1>2, AboveAll, PrefixIsAbove, PathLength
<1>7. Top.path \notin Listed
  <2>1. ToCome(Top.path)
    BY <1>1, <1>5, <1>6 DEF ToComeIn
  <2>. QED
    BY <2>1 DEF ListInv, ListedIsPast
<1>8. Listed' = Listed \union {Top.path}
  BY <1>1 DEF Listed
<1>9. UNCHANGED <<root, inputVars>> /\ changed \subseteq changed'
  BY <1>1
<1>10. ListedAreVisible'
  <2>1. ASSUME NEW i \in 1..Len(work_queue)
        PROVE  /\ Visible(work_queue[i])' \/ Replaced(work_queue[i])'
               /\ work_queue[i] \notin searched'
               /\ \A j \in 1..(i - 1) : work_queue[i] # work_queue[j]
    <3>1. /\ Visible(work_queue[i]) \/ Replaced(work_queue[i])
          /\ work_queue[i] \notin searched
          /\ \A j \in 1..(i - 1) : work_queue[i] # work_queue[j]
      BY DEF ListInv, ListedAreVisible
    <3>2. work_queue[i] # Top.path
      BY <1>7 DEF Listed, Range, TypeOK
    <3>. QED
      BY <1>1, <1>9, <3>1, <3>2, InputsStay
  <2>2. ASSUME NEW path \in searched'
        PROVE  (path = << >> /\ Visible(path)') \/ (Allowed(path)' /\ Replaced(path)')
    <3>1. (path = << >> /\ Visible(path)) \/ (Allowed(path) /\ Replaced(path))
      BY <1>1, SearchedIsVisible DEF ListInv, ListedAreVisible
    <3>. QED
      BY <1>9, <3>1, InputsStay
  <2>. QED
    BY <1>1, <2>1, <2>2 DEF ListedAreVisible
<1>11. ListedIsPast'
  <2>. SUFFICES ASSUME NEW p \in Listed' PROVE ~ToCome(p)'
    BY DEF ListedIsPast
  <2>1. CASE p \in Listed
    BY <1>5, <2>1 DEF ListInv, ListedIsPast
  <2>2. CASE p = Top.path
    BY <1>1, <1>2, <1>5, <1>6, <2>2, NotBelow
  <2>. QED
    BY <1>8, <2>1, <2>2
<1>12. QueuedNotExcluded'
  <2>1. form' = form
    BY <1>1 DEF inputVars
  <2>. QED
    BY <1>1, <1>9, <2>1, InputsStay DEF ListInv, QueuedNotExcluded
<1>13. AllToCome'
  <2>. SUFFICES ASSUME NEW p \in Path, Visible(p)', ~WasChanged(p)'
                PROVE  p \in Listed' \/ ToCome(p)'
    BY DEF AllToCome
  <2>1. Visible(p) /\ ~WasChanged(p)
    BY <1>9, InputsStay
  <2>2. CASE ToComeIn(Top, p)
    <3>1. IsPrefix(Top.path, p)
      BY <1>2, <2>2 DEF ToComeIn
    <3>2. p = Top.path
      BY <1>1, <2>1, <3>1, BelowTop, DirWalkAssumption
    <3>. QED
      BY <1>8, <3>2
  <2>3. CASE ~ToComeIn(Top, p)
    BY <1>5, <1>8, <2>1, <2>3 DEF ListInv, AllToCome
  <2>. QED
    BY <2>2, <2>3
<1>. QED
  BY <1>10, <1>11, <1>12, <1>13 DEF ListInv

\* A pattern that leaves out no file leaves out no other.
LEMMA SameForFiles ==
  ASSUME NEW node, node \notin Dir, NEW ig, NEW f, NEW dir, NEW n
  PROVE  Excludes(ig, f, dir, n, node) <=> Excludes(ig, f, dir, n, NewFile)
BY DirWalkAssumption DEF Excludes

\* What is queued: a file the walk could see, or one that has taken its place.
LEMMA QueuedIsVisible ==
  ASSUME TypeOK, StackInv, OrderInv, stack # << >>, NEW e \in Top.rest, e.node \notin Dir
  PROVE  LET q == Append(Top.path, e.name) IN
         /\ q \in Path /\ (Visible(q) \/ Replaced(q))
         /\ q # << >> /\ Allowed(Front(q))
         /\ \A j \in 0..(Len(q) - 1) :
              /\ Found(Above(q, j)) \in Dir
              /\ ~Excludes(IgnoresAt(Above(q, j)), form, Front(q), Last(q), NewFile)
<1>1. PICK n : n = Len(stack) /\ n \in Nat /\ n >= 1 /\ n \in 1..Len(stack) /\ Top = stack[n]
  BY TopFacts DEF StackInv
<1>2. PICK p : p = Top.path
  OBVIOUS
<1>3. PICK q : q = Append(p, e.name)
  OBVIOUS
<1>4. /\ p \in Path /\ e.name \in Name /\ e.node \in Inode /\ Len(p) = n - 1
      /\ Found(p) \in Dir /\ EntryOf(e, Found(p)) /\ Found(q) = before[Found(p)][e.name]
      /\ Allowed(p)
      /\ \A j \in 0..Len(p) :
           /\ Found(Above(q, j)) \in Dir
           /\ ~Excludes(IgnoresAt(Above(q, j)), form, p, e.name, e.node)
      /\ e.node = Found(q) => Allowed(q)
  BY <1>1, <1>2, <1>3, EntryToCome
<1>5. /\ q \in Path /\ q # << >> /\ Len(q) = n /\ Last(q) = e.name /\ Front(q) = p
      /\ \A k \in 0..Len(p) : Above(q, k) = Above(p, k)
  BY <1>1, <1>3, <1>4, EntryPath
<1>6. Reached(p) /\ ~PassesTwice(p)
  <2>1. HasRead(n)
    BY <1>1 DEF HasRead
  <2>. QED
    BY <1>1, <1>2, <2>1, CallNotTwice
<1>7. CASE e.node = Found(q)
  <2>1. Allowed(q) /\ Found(q) \in File
    BY <1>4, <1>7 DEF Inode
  <2>2. ASSUME NEW j \in 0..Len(q), NEW k \in 0..Len(q), j < k
        PROVE  Found(Above(q, j)) # Found(Above(q, k))
    <3>1. j \in 0..Len(p)
      BY <1>1, <1>4, <1>5, <2>2
    <3>2. CASE k = Len(q)
      BY <1>4, <1>5, <2>1, <3>1, <3>2, AboveAll, DirWalkAssumption
    <3>3. CASE k # Len(q)
      <4>1. k \in 0..Len(p)
        BY <1>1, <1>4, <1>5, <3>3
      <4>. QED
        BY <1>5, <1>6, <2>2, <3>1, <4>1 DEF PassesTwice
    <3>. QED
      BY <3>2, <3>3
  <2>3. ~PassesTwice(q)
    BY <2>2 DEF PassesTwice
  <2>4. Visible(q)
    BY <2>1, <2>3 DEF Visible, Reached
  <2>. HIDE DEF Visible, Replaced
  <2>5. Visible(q) \/ Replaced(q)
    BY <2>4
  <2>6. \A j \in 0..(Len(q) - 1) : j \in 0..Len(p)
    BY <1>4, <1>5
  <2>. QED
    BY <1>2, <1>3, <1>4, <1>5, <2>5, <2>6, SameForFiles
<1>8. CASE e.node # Found(q)
  <2>1. <<Found(p), e.name>> \in changed
    BY <1>4, <1>8 DEF EntryOf
  <2>2. Replaced(q)
    BY <1>5, <1>6, <2>1 DEF Replaced
  <2>6. \A j \in 0..(Len(q) - 1) : j \in 0..Len(p)
    BY <1>4, <1>5
  <2>. QED
    BY <1>2, <1>3, <1>4, <1>5, <2>2, <2>6, SameForFiles
<1>. QED
  BY <1>7, <1>8

LEMMA QueueFileLists ==
  ASSUME TypeOK, StackInv, OrderInv, ListInv, QueueFile
  PROVE  ListInv'
<1>1. /\ stack # << >> /\ AtTop("entries")
      /\ searched' = searched /\ UNCHANGED <<root, inputVars>> /\ changed' = changed
  BY DEF QueueFile, AtTop, diskVars
<1>2. PICK e \in Top.rest :
        /\ e.node \notin Dir
        /\ work_queue' = Append(work_queue, Append(Top.path, e.name))
        /\ stack' = SetTop(Without(e))
  BY DEF QueueFile
<1>3. PICK q : q = Append(Top.path, e.name)
  OBVIOUS
<1>4. PICK m : m = Len(work_queue)
  OBVIOUS
<1>5. /\ m = Len(work_queue) /\ m \in Nat /\ Len(work_queue') = m + 1 /\ work_queue'[m + 1] = q
      /\ \A i \in 1..m : work_queue'[i] = work_queue[i]
  <2>1. work_queue \in Seq(Path)
    BY DEF TypeOK
  <2>2. q \in Path
    BY <1>1, <1>2, <1>3, QueuedIsVisible
  <2>. QED
    BY <1>2, <1>3, <1>4, <2>1, <2>2, AppendProperties, LenProperties
<1>6. /\ Without(e) \in FrameType /\ CallsNest /\ Without(e).at = "entries"
      /\ Without(e).path = Top.path /\ Without(e).rest = Top.rest \ {e}
      /\ \A p : ToComeIn(Top, p) <=> ToComeIn(Without(e), p) \/ IsPrefix(q, p)
  BY <1>1, <1>3, TakenUp DEF StackInv
<1>7. \A p : /\ ToCome(p)' <=> ToComeBelow(p) \/ ToComeIn(Without(e), p)
             /\ ToCome(p) <=> ToComeBelow(p) \/ ToComeIn(Top, p)
  BY <1>1, <1>2, <1>6, SetTopComes, ToComeParts
<1>8. /\ Top.path \in Path /\ e.name \in Name /\ e.node \in Inode
      /\ Found(Top.path) \in Dir /\ EntryOf(e, Found(Top.path))
      /\ Found(q) = before[Found(Top.path)][e.name]
  BY <1>1, <1>3, EntryToCome
<1>9. /\ q \in Path /\ (Visible(q) \/ Replaced(q))
      /\ q # << >> /\ Allowed(Front(q))
      /\ \A j \in 0..(Len(q) - 1) :
           /\ Found(Above(q, j)) \in Dir
           /\ ~Excludes(IgnoresAt(Above(q, j)), form, Front(q), Last(q), NewFile)
  BY <1>1, <1>2, <1>3, QueuedIsVisible
<1>10. IsPrefix(q, q) /\ IsPrefix(Top.path, q) /\ Len(Top.path) < Len(q)
       /\ q[Len(Top.path) + 1] = e.name
  <2>1. IsPrefix(q, q)
    BY <1>9, AboveAll, PrefixIsAbove, PathLength
  <2>. QED
    BY <1>3, <1>8, <1>9, <2>1, PrefixOfEntry
<1>11. q \notin Listed
  <2>1. ToCome(q)
    BY <1>6, <1>7, <1>10
  <2>. QED
    BY <2>1 DEF ListInv, ListedIsPast
<1>12. ~ToCome(q)'
  <2>1. ~ToComeBelow(q)
    BY <1>1, <1>9, <1>10, NotBelow
  <2>2. ASSUME NEW f \in Top.rest \ {e}, IsPrefix(Append(Top.path, f.name), q) PROVE FALSE
    <3>1. Top \in FrameType /\ Top = stack[Len(stack)] /\ Len(stack) \in 1..Len(stack)
      BY <1>1, TopFacts DEF StackInv
    <3>2. f.name \in Name
      BY <3>1 DEF FrameType
    <3>3. f.name = e.name
      BY <1>8, <1>9, <1>10, <2>2, <3>2, PrefixOfEntry
    <3>. QED
      BY <3>1, <3>3 DEF OrderInv, CallsInOrder, CallInOrder
  <2>3. ~ToComeIn(Without(e), q)
    BY <1>6, <2>2 DEF ToComeIn
  <2>. QED
    BY <1>7, <2>1, <2>3
<1>13. Listed' = Listed \union {q}
  <2>1. DOMAIN work_queue = 1..m /\ DOMAIN work_queue' = 1..(m + 1)
    <3>1. work_queue \in Seq(Path) /\ work_queue' \in Seq(Path)
      BY <1>2, <1>3, <1>9, AppendProperties DEF TypeOK
    <3>. QED
      BY <1>5, <3>1, LenProperties
  <2>2. 1..(m + 1) = (1..m) \union {m + 1}
    BY <1>5
  <2>3. Range(work_queue') = Range(work_queue) \union {q}
    BY <1>5, <2>1, <2>2 DEF Range
  <2>. QED
    BY <1>1, <2>3 DEF Listed
<1>14. UNCHANGED <<root, inputVars>> /\ changed \subseteq changed'
  BY <1>1
<1>15. \A i \in 1..(m + 1) : i \in 1..m \/ i = m + 1
  BY <1>5
<1>16. ListedAreVisible'
  <2>1. ASSUME NEW i \in 1..m
        PROVE  /\ Visible(work_queue[i])' \/ Replaced(work_queue[i])'
               /\ work_queue[i] \notin searched
               /\ \A j \in 1..(i - 1) : work_queue[i] # work_queue[j]
    <3>1. /\ Visible(work_queue[i]) \/ Replaced(work_queue[i])
          /\ work_queue[i] \notin searched
          /\ \A j \in 1..(i - 1) : work_queue[i] # work_queue[j]
      BY <1>5 DEF ListInv, ListedAreVisible
    <3>2. work_queue'[i] = work_queue[i] /\ \A j \in 1..(i - 1) : work_queue'[j] = work_queue[j]
      <4>1. \A j \in 1..(i - 1) : j \in 1..m
        BY <1>5
      <4>. QED
        BY <1>5, <4>1
    <3>. QED
      BY <1>14, <3>1, <3>2, InputsStay
  <2>2. /\ Visible(q)' \/ Replaced(q)'
        /\ q \notin searched
        /\ \A j \in 1..m : q # work_queue[j]
    <3>1. Visible(q)' \/ Replaced(q)'
      BY <1>9, <1>14, InputsStay
    <3>2. \A j \in 1..m : work_queue[j] \in Range(work_queue)
      <4>1. DOMAIN work_queue = 1..m
        BY <1>5, LenProperties DEF TypeOK
      <4>. QED
        BY <4>1 DEF Range
    <3>. QED
      BY <1>11, <3>1, <3>2 DEF Listed
  <2>3. ASSUME NEW i \in 1..(m + 1), NEW p, p = work_queue'[i]
        PROVE  /\ Visible(p)' \/ Replaced(p)'
               /\ p \notin searched
               /\ \A j \in 1..(i - 1) : p # work_queue'[j]
    <3>1. CASE i \in 1..m
      <4>1. work_queue'[i] = work_queue[i] /\ \A j \in 1..(i - 1) : work_queue'[j] = work_queue[j]
        <5>1. \A j \in 1..(i - 1) : j \in 1..m
          BY <1>5, <3>1
        <5>. QED
          BY <1>5, <3>1, <5>1
      <4>. QED
        BY <2>1, <2>3, <3>1, <4>1
    <3>2. CASE i = m + 1
      <4>1. i - 1 = m
        BY <1>5, <3>2
      <4>. QED
        BY <1>5, <2>2, <2>3, <3>2, <4>1
    <3>. QED
      BY <1>15, <3>1, <3>2
  <2>4. ASSUME NEW path \in searched
        PROVE  (path = << >> /\ Visible(path)') \/ (Allowed(path)' /\ Replaced(path)')
    <3>1. (path = << >> /\ Visible(path)) \/ (Allowed(path) /\ Replaced(path))
      BY DEF ListInv, ListedAreVisible
    <3>. QED
      BY <1>14, <3>1, InputsStay
  <2>. QED
    BY <1>1, <1>5, <2>3, <2>4 DEF ListedAreVisible
<1>17. ListedIsPast'
  <2>. SUFFICES ASSUME NEW p \in Listed' PROVE ~ToCome(p)'
    BY DEF ListedIsPast
  <2>1. CASE p \in Listed
    BY <1>6, <1>7, <2>1 DEF ListInv, ListedIsPast
  <2>2. CASE p = q
    BY <1>12, <2>2
  <2>. QED
    BY <1>13, <2>1, <2>2
<1>18. QueuedNotExcluded'
  <2>1. form' = form
    BY <1>1 DEF inputVars
  <2>2. ASSUME NEW i \in 1..(m + 1), NEW p, p = work_queue'[i]
        PROVE  /\ p # << >> /\ Allowed(Front(p))'
               /\ \A j \in 0..(Len(p) - 1) :
                    /\ Found(Above(p, j))' \in Dir
                    /\ ~Excludes(IgnoresAt(Above(p, j))', form', Front(p), Last(p), NewFile)
    <3>1. CASE i \in 1..m
      BY <1>5, <1>14, <2>1, <2>2, <3>1, InputsStay DEF ListInv, QueuedNotExcluded
    <3>2. CASE i = m + 1
      BY <1>5, <1>9, <1>14, <2>1, <2>2, <3>2, InputsStay
    <3>. QED
      BY <1>15, <3>1, <3>2
  <2>. QED
    BY <1>5, <2>2 DEF QueuedNotExcluded
<1>19. AllToCome'
  <2>. SUFFICES ASSUME NEW p \in Path, Visible(p)', ~WasChanged(p)'
                PROVE  p \in Listed' \/ ToCome(p)'
    BY DEF AllToCome
  <2>1. Visible(p) /\ ~WasChanged(p)
    BY <1>14, InputsStay
  <2>2. CASE IsPrefix(q, p)
    <3>. SUFFICES ASSUME p # q PROVE FALSE
      BY <1>13
    <3>1. Len(q) \in Nat /\ Len(p) \in Nat /\ Len(q) <= Len(p) /\ Above(p, Len(q)) = q
      BY <1>9, <2>2, PrefixIsAbove, PathLength
    <3>2. Len(q) # Len(p)
      BY <3>1, AboveAll
    <3>3. Len(q) \in 0..Len(p) /\ Len(q) < Len(p)
      BY <3>1, <3>2
    <3>4. Found(q) \in Dir
      BY <2>1, <3>1, <3>3, UnchangedResolves DEF OrderInv, Visible, Reached
    <3>5. <<Found(Top.path), e.name>> \in changed
      BY <1>2, <1>8, <3>4 DEF EntryOf
    <3>6. /\ Len(Top.path) + 1 \in 1..Len(p) /\ p[Len(Top.path) + 1] = e.name
          /\ Above(p, (Len(Top.path) + 1) - 1) = Top.path
      <4>1. Len(Top.path) < Len(p) /\ IsPrefix(Top.path, p) /\ p[Len(Top.path) + 1] = e.name
        BY <1>3, <1>8, <2>2, PrefixOfEntry
      <4>2. Len(Top.path) \in Nat /\ Above(p, Len(Top.path)) = Top.path
        BY <1>8, <4>1, PrefixIsAbove, PathLength
      <4>. QED
        BY <3>1, <4>1, <4>2
    <3>. QED
      BY <2>1, <3>5, <3>6 DEF WasChanged
  <2>3. CASE ~IsPrefix(q, p)
    BY <1>6, <1>7, <1>13, <2>1, <2>3 DEF ListInv, AllToCome
  <2>. QED
    BY <2>2, <2>3
<1>. QED
  BY <1>16, <1>17, <1>18, <1>19 DEF ListInv

\* Every step of the walk, and of another program.
LEMMA NextLists ==
  ASSUME IInv, OrderInv, ListInv, [Next]_vars
  PROVE  ListInv'
<1>. USE DEF IInv
<1>1. CASE Walk
  BY <1>1, EnterLists, EnterLoopLists, ListDirectoryLists, SearchItselfLists, ListFailsLists,
     QueueFileLists, SubdirectoryLists, SkipDeepLists, LeaveLists DEF Walk
<1>2. CASE RemoveEntry \/ ReplaceDirectory
  BY <1>2, ChangesList
<1>3. CASE UNCHANGED vars
  <2>1. UNCHANGED <<root, inputVars, stack, work_queue, searched>> /\ changed \subseteq changed'
    BY <1>3 DEF vars, diskVars
  <2>2. \A p : ToCome(p)' <=> ToCome(p)
    BY <2>1 DEF ToCome
  <2>. QED
    BY <2>1, <2>2, NothingListed, ListedArePaths
<1>. QED
  BY <1>1, <1>2, <1>3 DEF Next, Finished

\* The calls stay in order, from the disk as the walk found it.
THEOREM OrderInvariant == Spec => []OrderInv
<1>1. IInv /\ IInv' /\ OrderInv /\ [Next]_vars => OrderInv'
  <2>. SUFFICES ASSUME IInv, IInv', OrderInv, [Next]_vars
                PROVE  OrderInv'
    OBVIOUS
  <2>1. CASE Walk
    BY <2>1, WalkInOrder DEF IInv
  <2>2. CASE RemoveEntry \/ ReplaceDirectory
    BY <2>2, ChangesInOrder DEF IInv
  <2>3. CASE UNCHANGED vars
    BY <2>3 DEF OrderInv, DiskOnlyLoses, CallsInOrder, KeyOfDirectory, vars, diskVars, inputVars,
                CallInOrder, HasRead, DirectoryRead, EntryOf, NextIsTaken, Found, Allowed,
                IgnoresAt, AtTop, Top, Resolve
  <2>. QED
    BY <2>1, <2>2, <2>3 DEF Next, Finished
<1>. QED
  BY <1>1, InitInOrder, WalkInvariant, PTL DEF Spec

\* What was listed and what is still to come, together, are all that should be listed.
THEOREM ListInvariant == Spec => []ListInv
BY NextLists, InitLists, OrderInvariant, WalkInvariant, PTL DEF Spec

\* Whatever loops the directories form and whatever another program does, search_dir hands a
\* path over once, and only one of a file that it could see there.
THEOREM ListedStayVisible == Spec => []ListedAreVisible
BY ListInvariant, PTL DEF ListInv

\* A walk that has ended has listed every file that no ignore file excludes and that nobody
\* has moved away.
THEOREM NoFileMissed == Spec => []NothingMissed
<1>1. ListInv => NothingMissed
  <2>. SUFFICES ASSUME ListInv, stack = << >>, NEW p \in Paths, Visible(p), ~WasChanged(p)
                PROVE  p \in Listed
    BY DEF NothingMissed
  <2>1. p \in Path
    <3>1. CASE p = << >>
      BY <3>1, EmptySeq DEF Path
    <3>2. CASE p # << >>
      <4>1. PICK k \in 1..(MaxSearchDepth + 1) : p \in [1..k -> Name]
        BY <3>2 DEF Paths
      <4>. QED
        BY <4>1, DirWalkAssumption DEF Path
    <3>. QED
      BY <3>1, <3>2
  <2>2. ~ToCome(p)
    BY EmptySeq DEF ToCome
  <2>. QED
    BY <2>1, <2>2 DEF ListInv, AllToCome
<1>. QED
  BY <1>1, ListInvariant, PTL

-----------------------------------------------------------------------------
(* Anchored patterns. *)

\* A pattern with a slash in front leaves out the path that it names below its directory.
LEMMA AnchoredExcludes ==
  ASSUME NEW q \in Path, NEW k \in 0..(Len(q) - 1), NEW f, f = "absolute" \/ (f = "dot" /\ k = 0),
         NEW ig, ig.abs_path = Above(q, k), NEW p \in ig.patterns, p.kind = "slash_name",
         SubSeq(q, k + 1, Len(q)) \in p.paths,
         p.slash \in BOOLEAN, NEW node, p.slash => node \in Dir
  PROVE  Excludes(ig, f, Front(q), Last(q), node)
<1>1. Len(q) \in Nat /\ k \in 0..Len(q) /\ k \in Nat /\ k < Len(q)
  BY PathLength
<1>2. q # << >> /\ Len(q) \in Nat \ {0} /\ Front(q) = Above(q, Len(q) - 1) /\ Last(q) = q[Len(q)]
      /\ Last(q) \in Name
  <2>1. q # << >>
    BY <1>1, EmptySeq DEF Path
  <2>. QED
    BY <2>1, PathEntry
<1>3. /\ Front(q) \in Path /\ Len(Front(q)) = Len(q) - 1
      /\ \A i \in 1..(Len(q) - 1) : Front(q)[i] = q[i]
  <2>1. PICK m : m = Len(q) - 1
    OBVIOUS
  <2>2. m \in 0..Len(q) /\ Front(q) = Above(q, m)
    BY <1>1, <1>2, <2>1
  <2>. QED
    BY <2>1, <2>2, AboveFacts
<1>4. Front(q) \o <<Last(q)>> = q
  <2>. DEFINE d == Front(q)
              n == Last(q)
  <2>1. Append(d, n) = q
    <3>. HIDE DEF d, n
    <3>1. d \in Path /\ n \in Name /\ Len(d) = Len(q) - 1 /\ n = q[Len(q)]
          /\ \A i \in 1..(Len(q) - 1) : d[i] = q[i]
      BY <1>2, <1>3 DEF d, n
    <3>2. Append(d, n) \in Path /\ Len(Append(d, n)) = Len(d) + 1
          /\ Append(d, n)[Len(d) + 1] = n /\ \A i \in 1..Len(d) : Append(d, n)[i] = d[i]
      BY <3>1, AppendProperties DEF Path
    <3>3. Len(Append(d, n)) = Len(q) /\ \A i \in 1..Len(q) : i \in 1..(Len(q) - 1) \/ i = Len(q)
      BY <1>1, <3>1, <3>2
    <3>4. \A i \in 1..Len(q) : Append(d, n)[i] = q[i]
      BY <1>1, <3>1, <3>2, <3>3
    <3>. QED
      BY <3>2, <3>3, <3>4, SamePath
  <2>2. d \o <<n>> = Append(d, n)
    <3>. HIDE DEF d, n
    <3>. QED
      BY <1>2, <1>3, AppendIsConcat DEF Path, d, n
  <2>. QED
    BY <2>1, <2>2
<1>. DEFINE t == temp(f, Front(q), Last(q))
<1>5. t.names = q /\ (t.slash <=> f = "dot" \/ (f = "absolute" /\ Front(q) = << >>))
  <2>1. f # "named"
    OBVIOUS
  <2>2. << >> \o Front(q) = Front(q)
    BY <1>3, ConcatEmptySeq DEF Path
  <2>. QED
    BY <1>4, <2>1, <2>2 DEF temp
<1>6. ig.abs_path \in Path /\ Len(ig.abs_path) = k
  BY <1>1, AboveFacts
<1>7. IsUnder(ig.abs_path, t)
  <2>1. CASE k = 0
    BY <2>1, AboveAll DEF IsUnder
  <2>2. CASE k # 0
    <3>1. f = "absolute" /\ Len(Front(q)) # 0
      BY <1>1, <1>3, <2>2
    <3>2. Front(q) # << >>
      BY <3>1
    <3>3. ~t.slash
      BY <1>5, <3>1, <3>2
    <3>4. IsPrefix(ig.abs_path, q)
      BY <1>1, <1>6, PrefixIsAbove
    <3>. HIDE DEF t
    <3>. QED
      BY <1>5, <3>3, <3>4 DEF IsUnder
  <2>. QED
    BY <2>1, <2>2
<1>. HIDE DEF t
<1>8. SlashFilename(ig.abs_path, t) \in p.paths
  BY <1>5, <1>6 DEF SlashFilename
<1>9. path_ignore_search(ig, t, Last(q), p.slash)
  BY <1>7, <1>8 DEF path_ignore_search, Matches
<1>. QED
  BY <1>9 DEF Excludes, t

\* A part of a path, name by name.
LEMMA PartOfPath ==
  ASSUME NEW p \in Path, NEW k \in Nat, NEW m \in 1..Len(p), k < m
  PROVE  /\ SubSeq(p, k + 1, m) \in Path
         /\ Len(SubSeq(p, k + 1, m)) = m - k
         /\ \A j \in 1..(m - k) : SubSeq(p, k + 1, m)[j] = p[k + j]
<1>1. /\ Len(p) \in Nat /\ k + 1 \in Int /\ m \in Int /\ k + 1 <= m
      /\ \A i \in (k + 1)..m : p[i] \in Name
  BY PathLength
<1>2. /\ SubSeq(p, k + 1, m) \in Seq(Name)
      /\ Len(SubSeq(p, k + 1, m)) = IF k + 1 <= m THEN m - (k + 1) + 1 ELSE 0
      /\ \A i \in 1..(m - (k + 1) + 1) : SubSeq(p, k + 1, m)[i] = p[(k + 1) + i - 1]
  BY <1>1, SubSeqProperties
<1>3. m - (k + 1) + 1 = m - k /\ \A i \in 1..(m - k) : (k + 1) + i - 1 = k + i
  BY <1>1
<1>. QED
  BY <1>1, <1>2, <1>3 DEF Path

\* Nothing that a pattern with a slash in front names is queued, nor what lies below it.
THEOREM AnchoredApply == Spec => []AnchoredPatternsApply
<1>1. TypeOK /\ ListInv => AnchoredPatternsApply
  <2>. SUFFICES ASSUME TypeOK, ListInv,
                       NEW path \in Range(work_queue), NEW k \in 0..(Len(path) - 1),
                       form = "absolute" \/ (form = "dot" /\ k = 0),
                       NEW p \in patterns[Found(Above(path, k))], p.kind = "slash_name",
                       NEW part \in p.paths, Len(part) + k <= Len(path),
                       SubSeq(path, k + 1, k + Len(part)) = part,
                       p.slash => Len(part) + k < Len(path)
                PROVE  FALSE
    BY DEF AnchoredPatternsApply
  <2>1. path \in Path
    BY RangeOfSeq DEF TypeOK
  <2>2. PICK i \in 1..Len(work_queue) : path = work_queue[i]
    BY LenProperties DEF Range, TypeOK
  <2>3. /\ path # << >> /\ Allowed(Front(path))
        /\ \A j \in 0..(Len(path) - 1) :
             /\ Found(Above(path, j)) \in Dir
             /\ ~Excludes(IgnoresAt(Above(path, j)), form, Front(path), Last(path), NewFile)
    BY <2>2 DEF ListInv, QueuedNotExcluded
  <2>4. Len(path) \in Nat \ {0} /\ k \in 0..Len(path) /\ k \in Nat /\ k < Len(path)
        /\ Front(path) = Above(path, Len(path) - 1)
    BY <2>1, <2>3, PathEntry
  <2>5. p \in Pattern /\ p.slash \in BOOLEAN /\ part \in Path \ {<< >>}
    <3>1. patterns[Found(Above(path, k))] \in SUBSET Pattern
      BY <2>3 DEF TypeOK
    <3>. QED
      BY <3>1 DEF Pattern
  <2>6. Len(part) \in Nat \ {0}
    BY <2>5, PathEntry
  <2>. DEFINE ig == IgnoresAt(Above(path, k))
              m == k + Len(part)
  <2>7. ig.abs_path = Above(path, k) /\ p \in ig.patterns
    BY DEF IgnoresAt
  <2>. HIDE DEF ig
  <2>8. m \in 1..Len(path) /\ k < m /\ m \in Nat
    BY <2>4, <2>6
  <2>. HIDE DEF m
  <2>9. CASE m = Len(path)
    <3>1. ~p.slash
      BY <2>4, <2>6, <2>9 DEF m
    <3>2. SubSeq(path, k + 1, Len(path)) \in p.paths
      BY <2>9 DEF m
    <3>3. Excludes(ig, form, Front(path), Last(path), NewFile)
      BY <2>1, <2>5, <2>7, <3>1, <3>2, AnchoredExcludes
    <3>. QED
      BY <2>3, <3>3 DEF ig
  <2>10. CASE m # Len(path)
    <3>1. PICK q : q = Above(path, m)
      OBVIOUS
    <3>2. m \in 0..Len(path) /\ m \in 1..(Len(path) - 1) /\ m \in 0..(Len(path) - 1)
          /\ k \in 0..m /\ m - 1 \in 0..m /\ m \in 0..m /\ k \in 0..(m - 1) /\ m \in 1..m
      BY <2>4, <2>8, <2>10
    <3>3. q \in Path /\ Len(q) = m /\ Above(q, k) = Above(path, k) /\ q # << >>
      <4>1. q \in Path /\ Len(q) = m /\ Above(q, k) = Above(path, k)
        BY <2>1, <3>1, <3>2, AboveFacts, AboveAbove
      <4>. QED
        BY <2>8, <4>1
    <3>4. SubSeq(q, k + 1, m) = part
      <4>1. SubSeq(q, k + 1, m) = SubSeq(path, k + 1, m)
        <5>1. \A j \in 1..m : q[j] = path[j]
          BY <2>1, <3>1, <3>2, AboveFacts
        <5>2. /\ SubSeq(q, k + 1, m) \in Path
              /\ Len(SubSeq(q, k + 1, m)) = m - k
              /\ \A j \in 1..(m - k) : SubSeq(q, k + 1, m)[j] = q[k + j]
          BY <2>4, <2>8, <3>3, PartOfPath
        <5>3. /\ SubSeq(path, k + 1, m) \in Path
              /\ Len(SubSeq(path, k + 1, m)) = m - k
              /\ \A j \in 1..(m - k) : SubSeq(path, k + 1, m)[j] = path[k + j]
          BY <2>1, <2>4, <2>8, PartOfPath
        <5>4. \A j \in 1..(m - k) : k + j \in 1..m
          BY <2>4, <2>8
        <5>5. PICK a, b : a = SubSeq(q, k + 1, m) /\ b = SubSeq(path, k + 1, m)
          OBVIOUS
        <5>6. /\ a \in Path /\ b \in Path /\ Len(a) = m - k /\ Len(b) = m - k
              /\ \A j \in 1..(m - k) : a[j] = b[j]
          BY <5>1, <5>2, <5>3, <5>4, <5>5
        <5>. QED
          BY <5>5, <5>6, SamePath
      <4>. QED
        BY <4>1 DEF m
    <3>5. Front(q) = Above(path, m - 1) /\ Last(q) = path[m]
      <4>1. Front(q) = Above(q, m - 1) /\ Last(q) = q[m]
        BY <3>3, PathEntry
      <4>2. Above(q, m - 1) = Above(path, m - 1) /\ q[m] = path[m]
        BY <2>1, <3>1, <3>2, AboveAbove, AboveFacts
      <4>. QED
        BY <4>1, <4>2
    <3>6. Found(q) \in Dir
      BY <2>3, <3>1, <3>2
    <3>7. Excludes(ig, form, Front(q), Last(q), Found(q))
      BY <2>5, <2>7, <3>2, <3>3, <3>4, <3>6, AnchoredExcludes
    <3>8. ~Excludes(ig, form, Above(path, m - 1), path[m], Found(q))
      <4>1. PICK d : d = Front(path)
        OBVIOUS
      <4>2. /\ d \in Path /\ Len(d) = Len(path) - 1 /\ Allowed(d)
            /\ \A j \in 0..(Len(path) - 1) : Above(d, j) = Above(path, j)
            /\ \A j \in 1..(Len(path) - 1) : d[j] = path[j]
        <5>1. Len(path) - 1 \in 0..Len(path)
          BY <2>4
        <5>. QED
          BY <2>1, <2>3, <2>4, <4>1, <5>1, AboveFacts, AboveAbove
      <4>3. ~Excludes(IgnoresAt(Above(d, k)), form, Above(d, m - 1), d[m], Found(Above(d, m)))
        BY <3>2, <4>2 DEF Allowed
      <4>4. k \in 0..(Len(path) - 1) /\ m - 1 \in 0..(Len(path) - 1)
        BY <2>4, <3>2
      <4>. QED
        BY <3>1, <3>2, <4>2, <4>3, <4>4 DEF ig
    <3>. QED
      BY <3>5, <3>7, <3>8
  <2>. QED
    BY <2>9, <2>10
<1>. QED
  BY <1>1, ListInvariant, WalkTypeCorrect, PTL
=============================================================================
