--------------------------- MODULE FileEditProofs ---------------------------
(***************************************************************************)
(* Proofs about FileEdit and the operators of FileText: what the lines of  *)
(* a slice are, that the splice of a commit is what the previews show and  *)
(* is the edit byte by byte, and that the invariants hold of every file,   *)
(* every set of matches and every text the user may type.                  *)
(***************************************************************************)
EXTENDS FileEdit, FoldLemmas, FiniteSetTheorems

\* A byte of a file, with what an undefined conversion may have put there.
Char == Byte \cup {Garbage}

-----------------------------------------------------------------------------
(* The line of a byte. *)

Newlines(contents, at) == {i \in 1..at : i <= Len(contents) /\ contents[i] = "newline"}

\* The number of newlines before a byte is a natural number.
LEMMA NewlinesFinite ==
  ASSUME NEW contents, NEW at \in Int
  PROVE  /\ IsFiniteSet(Newlines(contents, at))
         /\ LineOf(contents, at) \in Nat
         /\ LineOf(contents, at) = Cardinality(Newlines(contents, at))
<1>1. IsFiniteSet(1..at)
  BY FS_Interval
<1>2. IsFiniteSet(Newlines(contents, at))
  BY <1>1, FS_Subset DEF Newlines
<1>3. LineOf(contents, at) = Cardinality(Newlines(contents, at))
  BY DEF LineOf, Newlines
<1>. QED
  BY <1>2, <1>3, FS_CardinalityType

\* One byte further the number grows by one, after a newline, or stays.
LEMMA LineOfStep ==
  ASSUME NEW contents, NEW at \in Nat, NEW l, l = LineOf(contents, at)
  PROVE  /\ l \in Nat
         /\ at + 1 <= Len(contents) /\ contents[at + 1] = "newline" =>
              LineOf(contents, at + 1) = l + 1
         /\ ~(at + 1 <= Len(contents) /\ contents[at + 1] = "newline") =>
              LineOf(contents, at + 1) = l
<1>. DEFINE A == Newlines(contents, at)
            B == Newlines(contents, at + 1)
            ends == at + 1 <= Len(contents) /\ contents[at + 1] = "newline"
<1>1. /\ IsFiniteSet(A) /\ l \in Nat /\ l = Cardinality(A)
      /\ LineOf(contents, at + 1) = Cardinality(B)
  BY NewlinesFinite
<1>2. 1..(at + 1) = (1..at) \cup {at + 1} /\ at + 1 \notin 1..at
  OBVIOUS
<1>3. ends => B = A \cup {at + 1}
  BY <1>2 DEF Newlines
<1>4. ~ends => B = A
  BY <1>2 DEF Newlines
<1>5. at + 1 \notin A
  BY <1>2 DEF Newlines
<1>6. Cardinality(A \cup {at + 1}) = Cardinality(A) + 1
  <2>. HIDE DEF A
  <2>. QED
    BY <1>1, <1>5, FS_AddElement
<1>. HIDE DEF A, B
<1>. QED
  BY <1>1, <1>3, <1>4, <1>6

\* The first byte is on line 0.
LEMMA LineOfZero ==
  ASSUME NEW contents
  PROVE  LineOf(contents, 0) = 0
<1>1. {i \in 1..0 : i <= Len(contents) /\ contents[i] = "newline"} = {}
  OBVIOUS
<1>. QED
  BY <1>1, FS_EmptySet DEF LineOf

\* Lines are numbered in the order of their bytes.
LEMMA LineOfMonotone ==
  ASSUME NEW contents, NEW a \in Nat, NEW b \in Nat, a <= b
  PROVE  LineOf(contents, a) <= LineOf(contents, b)
<1>. DEFINE T == {i \in a..b : LineOf(contents, a) <= LineOf(contents, i)}
<1>1. \A i \in Nat : LineOf(contents, i) \in Nat
  BY LineOfStep
<1>2. a \in T
  BY <1>1
<1>3. ASSUME NEW k \in a..b, k \in T, k < b PROVE k + 1 \in T
  <2>1. k \in Nat /\ k + 1 \in a..b /\ k + 1 \in Nat
    BY <1>3
  <2>2. LineOf(contents, k + 1) = LineOf(contents, k)
        \/ LineOf(contents, k + 1) = LineOf(contents, k) + 1
    BY <2>1, LineOfStep
  <2>3. /\ LineOf(contents, k) \in Nat /\ LineOf(contents, k + 1) \in Nat
        /\ LineOf(contents, a) \in Nat
    BY <2>1, <1>1
  <2>4. LineOf(contents, a) <= LineOf(contents, k)
    BY <1>3
  <2>. QED
    BY <2>1, <2>2, <2>3, <2>4
<1>4. a..b \subseteq T
  <2>. HIDE DEF T
  <2>. QED
    BY <1>2, <1>3, InductionUpTo
<1>. QED
  BY <1>4

-----------------------------------------------------------------------------
(* The index of line starts. *)

\* Append, for a vector of byte indices.
LEMMA Appended ==
  ASSUME NEW s \in Seq(Nat), NEW e \in Nat, NEW t, t = Append(s, e)
  PROVE  /\ t \in Seq(Nat)
         /\ Len(t) = Len(s) + 1
         /\ \A i \in 1..Len(s) : t[i] = s[i]
         /\ t[Len(s) + 1] = e
BY AppendProperties, ZenonT(30)

\* One byte of it: the start of a line is kept.
NextStarts(contents, starts, i) ==
  IF i = 1 \/ contents[i - 1] = "newline" THEN Append(starts, i - 1) ELSE starts

\* What is kept of the first k bytes.
StartsUpTo(contents, starts, k) ==
  /\ starts \in Seq(Nat)
  /\ k = 0 => starts = << >>
  /\ k > 0 =>
       /\ Len(starts) = LineOf(contents, k - 1) + 1
       /\ starts[1] = 0
       /\ \A j \in 1..Len(starts) :
            /\ starts[j] \in 0..(k - 1)
            /\ LineOf(contents, starts[j]) = j - 1
       /\ \A b \in 0..(k - 1) : starts[LineOf(contents, b) + 1] <= b

\* One byte of get_line_start_byte_indices_for_file keeps what StartsUpTo says.
LEMMA StartsStep ==
  ASSUME NEW contents \in Seq(Char), NEW k \in 0..(Len(contents) - 1),
         NEW starts, StartsUpTo(contents, starts, k),
         NEW next, next = NextStarts(contents, starts, k + 1)
  PROVE  StartsUpTo(contents, next, k + 1)
<1>1. Len(contents) \in Nat /\ k \in Nat /\ starts \in Seq(Nat) /\ Len(starts) \in Nat
      /\ (k + 1) - 1 = k /\ k + 1 > 0 /\ k + 1 # 0
  BY LenProperties DEF StartsUpTo
<1>. SUFFICES ASSUME NEW n, n = k + 1, n - 1 = k, n > 0, n # 0
              PROVE  StartsUpTo(contents, next, n)
  BY <1>1
<1>2. \A i \in Nat : LineOf(contents, i) \in Nat
  BY LineOfStep
<1>3. CASE k = 0
  <2>0. next = Append(starts, 0)
    BY <1>1, <1>3 DEF NextStarts
  <2>1. starts = << >>
    BY <1>3 DEF StartsUpTo
  <2>2. << >> \in Seq(Nat) /\ Len(<< >>) = 0 /\ 0 \in Nat
    BY EmptySeq
  <2>3. next \in Seq(Nat) /\ Len(next) = 1 /\ next[1] = 0
    <3>1. next \in Seq(Nat) /\ Len(next) = Len(starts) + 1 /\ next[Len(starts) + 1] = 0
      BY <1>1, <2>0, Appended
    <3>2. Len(starts) = 0
      BY <2>1, <2>2
    <3>. QED
      BY <3>1, <3>2
  <2>4. LineOf(contents, 0) = 0
    BY LineOfZero
  <2>5. \A j \in 1..Len(next) : next[j] \in 0..(n - 1) /\ LineOf(contents, next[j]) = j - 1
    BY <1>3, <2>3, <2>4
  <2>6. \A b \in 0..(n - 1) : next[LineOf(contents, b) + 1] <= b
    BY <1>3, <2>3, <2>4
  <2>. QED
    BY <1>3, <2>3, <2>4, <2>5, <2>6 DEF StartsUpTo
<1>4. CASE k > 0
  <2>. DEFINE ends == contents[k] = "newline"
  <2>1. PICK l : l = LineOf(contents, k - 1)
    OBVIOUS
  <2>2. /\ l \in Nat /\ Len(starts) = l + 1 /\ starts[1] = 0
        /\ \A j \in 1..Len(starts) :
             starts[j] \in 0..(k - 1) /\ LineOf(contents, starts[j]) = j - 1
        /\ \A b \in 0..(k - 1) : starts[LineOf(contents, b) + 1] <= b
    BY <1>1, <1>2, <1>4, <2>1 DEF StartsUpTo
  <2>3. k - 1 \in Nat /\ (k - 1) + 1 = k /\ k <= Len(contents)
    BY <1>1, <1>4
  <2>4. (ends => LineOf(contents, k) = l + 1) /\ (~ends => LineOf(contents, k) = l)
    BY <2>1, <2>3, LineOfStep
  <2>5. next = IF ends THEN Append(starts, k) ELSE starts
    BY <1>1, <1>4 DEF NextStarts
  <2>6. CASE ends
    <3>1. next = Append(starts, k)
      BY <2>5, <2>6
    <3>2. /\ next \in Seq(Nat) /\ Len(next) = l + 2 /\ next[l + 2] = k
          /\ \A j \in 1..(l + 1) : next[j] = starts[j]
      <4>1. /\ next \in Seq(Nat) /\ Len(next) = Len(starts) + 1 /\ next[Len(starts) + 1] = k
            /\ \A j \in 1..Len(starts) : next[j] = starts[j]
        BY <1>1, <3>1, Appended
      <4>2. Len(starts) = l + 1 /\ (l + 1) + 1 = l + 2
        BY <2>2
      <4>. QED
        BY <4>1, <4>2
    <3>3. LineOf(contents, k) = l + 1
      BY <2>4, <2>6
    <3>4. next[1] = 0
      BY <2>2, <3>2
    <3>5. ASSUME NEW j \in 1..Len(next)
          PROVE  next[j] \in 0..k /\ LineOf(contents, next[j]) = j - 1
      <4>1. CASE j = l + 2
        BY <4>1, <3>2, <3>3, <2>2, <1>1
      <4>2. CASE j \in 1..(l + 1)
        <5>1. next[j] = starts[j] /\ starts[j] \in 0..(k - 1) /\ LineOf(contents, starts[j]) = j - 1
          BY <2>2, <3>2, <4>2
        <5>. QED
          BY <5>1, <1>1
      <4>. QED
        BY <3>2, <2>2, <4>1, <4>2
    <3>6. ASSUME NEW b \in 0..k PROVE next[LineOf(contents, b) + 1] <= b
      <4>1. CASE b = k
        BY <4>1, <3>2, <3>3, <2>2, <1>1
      <4>2. CASE b \in 0..(k - 1)
        <5>1. b \in Nat /\ b <= k - 1
          BY <4>2, <1>1
        <5>2. LineOf(contents, b) \in Nat /\ LineOf(contents, b) <= l
          BY <1>2, <2>1, <2>3, <5>1, LineOfMonotone
        <5>3. LineOf(contents, b) + 1 \in 1..(l + 1)
          BY <5>2, <2>2
        <5>4. starts[LineOf(contents, b) + 1] <= b
          BY <2>2, <4>2
        <5>. QED
          BY <5>3, <5>4, <3>2
      <4>. QED
        BY <4>1, <4>2, <1>1
    <3>. QED
      BY <1>1, <2>2, <3>2, <3>3, <3>4, <3>5, <3>6 DEF StartsUpTo
  <2>7. CASE ~ends
    <3>1. next = starts /\ LineOf(contents, k) = l
      BY <2>4, <2>5, <2>7
    <3>2. ASSUME NEW j \in 1..Len(starts)
          PROVE  starts[j] \in 0..k /\ LineOf(contents, starts[j]) = j - 1
      <4>1. starts[j] \in 0..(k - 1) /\ LineOf(contents, starts[j]) = j - 1
        BY <2>2
      <4>. QED
        BY <4>1, <1>1
    <3>3. ASSUME NEW b \in 0..k PROVE starts[LineOf(contents, b) + 1] <= b
      <4>1. CASE b = k
        <5>1. starts[LineOf(contents, k - 1) + 1] <= k - 1
          BY <2>2, <2>3
        <5>2. starts[l + 1] \in 0..(k - 1)
          BY <2>2
        <5>. QED
          BY <4>1, <3>1, <5>1, <5>2, <2>1, <1>1
      <4>2. CASE b \in 0..(k - 1)
        BY <2>2, <4>2
      <4>. QED
        BY <4>1, <4>2, <1>1
    <3>. QED
      BY <1>1, <2>2, <3>1, <3>2, <3>3 DEF StartsUpTo
  <2>. QED
    BY <2>6, <2>7
<1>. QED
  BY <1>1, <1>3, <1>4

\* The fold of get_line_start_byte_indices_for_file, byte by byte.
LEMMA StartsFold ==
  ASSUME NEW contents \in Seq(Char)
  PROVE  StartsUpTo(contents, get_line_start_byte_indices_for_file(contents), Len(contents))
<1>. DEFINE m == Len(contents)
            V == Seq(Nat)
            step == [x \in (1..m) \X V |-> NextStarts(contents, x[2], x[1])]
            F(g) == [s \in SUBSET DOMAIN [i \in DOMAIN contents |-> i] |->
                       IF s = {} THEN << >>
                       ELSE NextStarts(contents, g[s \ {Max(s)}], [i \in DOMAIN contents |-> i][Max(s)])]
            f == CHOOSE g : g = F(g)
<1>1. m \in Nat /\ DOMAIN contents = 1..m /\ DOMAIN [i \in DOMAIN contents |-> i] = 1..m
  BY LenProperties
<1>2. \A s \in SUBSET (1..m) : s # {} => Max(s) \in 1..m /\ s \ {Max(s)} \in SUBSET (1..m)
  <2>. SUFFICES ASSUME NEW s \in SUBSET (1..m), s # {}
                PROVE  Max(s) \in 1..m /\ s \ {Max(s)} \in SUBSET (1..m)
    OBVIOUS
  <2>1. s \subseteq 0..m
    BY <1>1
  <2>2. Max(s) \in s
    BY <1>1, <2>1, MaxProperties
  <2>. QED
    BY <2>2
<1>3. step \in [(1..m) \X V -> V] /\ << >> \in V
  <2>1. << >> \in V
    BY EmptySeq
  <2>2. ASSUME NEW x \in (1..m) \X V PROVE NextStarts(contents, x[2], x[1]) \in V
    <3>1. x[2] \in Seq(Nat) /\ x[1] - 1 \in Nat
      BY <1>1
    <3>2. Append(x[2], x[1] - 1) \in Seq(Nat)
      BY <3>1, Appended
    <3>. QED
      BY <3>1, <3>2 DEF NextStarts
  <2>. QED
    BY <2>1, <2>2
<1>4. \E g : g = F(g)
  <2>1. PICK g : Folds(g, m, V, << >>, step)
    <3>. HIDE DEF m, V, step
    <3>. QED
      BY <1>1, <1>3, FoldExists
  <2>2. g \in [SUBSET (1..m) -> V]
    BY <2>1 DEF Folds
  <2>3. ASSUME NEW s \in SUBSET (1..m)
        PROVE  g[s] = IF s = {} THEN << >>
                      ELSE NextStarts(contents, g[s \ {Max(s)}], [i \in DOMAIN contents |-> i][Max(s)])
    <3>1. g[s] = IF s = {} THEN << >> ELSE step[<<Max(s), g[s \ {Max(s)}]>>]
      <4>. HIDE DEF step, V
      <4>. QED
        BY <2>1 DEF Folds
    <3>2. CASE s # {}
      <4>1. PICK x : x = <<Max(s), g[s \ {Max(s)}]>>
        OBVIOUS
      <4>2. x \in (1..m) \X V /\ x[1] = Max(s) /\ x[2] = g[s \ {Max(s)}]
        BY <1>2, <2>2, <3>2, <4>1
      <4>3. step[x] = NextStarts(contents, x[2], x[1])
        BY <4>2
      <4>4. [i \in DOMAIN contents |-> i][Max(s)] = Max(s)
        BY <1>1, <1>2, <3>2
      <4>. HIDE DEF step
      <4>. QED
        BY <3>1, <3>2, <4>1, <4>2, <4>3, <4>4
    <3>. QED
      BY <3>1, <3>2
  <2>4. g = F(g)
    <3>1. DOMAIN F(g) = SUBSET (1..m) /\ F(g) = [s \in SUBSET (1..m) |-> F(g)[s]]
      BY <1>1
    <3>2. \A s \in SUBSET (1..m) : F(g)[s] = g[s]
      BY <1>1, <2>3
    <3>. HIDE DEF F
    <3>. QED
      BY <2>2, <3>1, <3>2
  <2>. QED
    BY <2>4
<1>5. f = F(f)
  <2>. HIDE DEF F
  <2>. QED
    BY <1>4
<1>6. ASSUME NEW s \in SUBSET (1..m)
      PROVE  f[s] = IF s = {} THEN << >>
                    ELSE NextStarts(contents, f[s \ {Max(s)}], Max(s))
  <2>1. F(f)[s] = IF s = {} THEN << >>
                  ELSE NextStarts(contents, f[s \ {Max(s)}], [i \in DOMAIN contents |-> i][Max(s)])
    <3>. HIDE DEF f
    <3>. QED
      BY <1>1
  <2>2. s # {} => [i \in DOMAIN contents |-> i][Max(s)] = Max(s)
    BY <1>1, <1>2
  <2>. HIDE DEF f, F
  <2>. QED
    BY <1>5, <2>1, <2>2
<1>7. get_line_start_byte_indices_for_file(contents) = f[1..m]
  BY <1>1 DEF get_line_start_byte_indices_for_file, FoldLeftDomain, FoldLeft, MapThenFoldSet, NextStarts
<1>. DEFINE T == {k \in 0..m : StartsUpTo(contents, f[1..k], k)}
<1>. HIDE DEF f
<1>8. 0 \in T
  <2>1. 1..0 = {} /\ {} \in SUBSET (1..m) /\ 0 \in 0..m
    BY <1>1
  <2>2. f[1..0] = << >>
    BY <1>6, <2>1
  <2>3. StartsUpTo(contents, << >>, 0)
    BY EmptySeq DEF StartsUpTo
  <2>. QED
    BY <2>1, <2>2, <2>3
<1>9. ASSUME NEW k \in 0..m, k \in T, k < m PROVE k + 1 \in T
  <2>1. k + 1 \in 1..m /\ k \in 0..(m - 1) /\ k + 1 \in Nat /\ k + 1 \in 0..m
    BY <1>1, <1>9
  <2>2. 1..(k + 1) \in SUBSET (1..m) /\ 1..(k + 1) # {} /\ (1..(k + 1)) \ {k + 1} = 1..k
    BY <2>1
  <2>3. Max(1..(k + 1)) = k + 1
    <3>1. PICK up : up = 1..(k + 1)
      OBVIOUS
    <3>2. up \subseteq 0..(k + 1) /\ up # {} /\ k + 1 \in up
      BY <2>1, <3>1
    <3>3. Max(up) \in up /\ Max(up) >= k + 1
      BY <2>1, <3>2, MaxProperties
    <3>. QED
      BY <2>1, <3>1, <3>3
  <2>4. f[1..(k + 1)] = NextStarts(contents, f[1..k], k + 1)
    BY <1>6, <2>2, <2>3
  <2>. HIDE DEF m
  <2>5. StartsUpTo(contents, f[1..(k + 1)], k + 1)
    BY <1>9, <2>1, <2>4, StartsStep DEF m
  <2>. QED
    BY <2>1, <2>5
<1>10. 0..m \subseteq T
  <2>. HIDE DEF T, m
  <2>. QED
    BY <1>1, <1>8, <1>9, InductionUpTo
<1>11. m \in T
  <2>1. m \in 0..m
    BY <1>1
  <2>. QED
    BY <1>10, <2>1
<1>. QED
  BY <1>7, <1>11

StartsOf(contents) == get_line_start_byte_indices_for_file(contents)

\* The line of a byte, or of the last one where there is none.
LineAt(contents, at) ==
  LineOf(contents, IF at < Len(contents) THEN at ELSE Len(contents) - 1)

\* A line starts at or before a byte when it is no later than the byte's.
LEMMA StartsFacts ==
  ASSUME NEW contents \in Seq(Char), NEW m, m = Len(contents), m > 0,
         NEW starts, starts = StartsOf(contents)
  PROVE  /\ m \in Nat
         /\ starts \in Seq(Nat)
         /\ Len(starts) = LineOf(contents, m - 1) + 1
         /\ \A k \in 1..Len(starts) :
              starts[k] \in 0..(m - 1) /\ LineOf(contents, starts[k]) = k - 1
         /\ \A k \in 1..Len(starts), b \in 0..(m - 1) :
              starts[k] <= b <=> k <= LineOf(contents, b) + 1
<1>1. m \in Nat
  BY LenProperties
<1>2. StartsUpTo(contents, starts, m)
  BY StartsFold DEF StartsOf
<1>3. /\ starts \in Seq(Nat)
      /\ Len(starts) = LineOf(contents, m - 1) + 1
      /\ \A k \in 1..Len(starts) :
           starts[k] \in 0..(m - 1) /\ LineOf(contents, starts[k]) = k - 1
      /\ \A b \in 0..(m - 1) : starts[LineOf(contents, b) + 1] <= b
  BY <1>2 DEF StartsUpTo
<1>4. \A i \in Nat : LineOf(contents, i) \in Nat
  BY LineOfStep
<1>5. ASSUME NEW k \in 1..Len(starts), NEW b \in 0..(m - 1)
      PROVE  starts[k] <= b <=> k <= LineOf(contents, b) + 1
  <2>1. PICK l : l = LineOf(contents, b)
    OBVIOUS
  <2>2. b \in Nat /\ b <= m - 1 /\ m - 1 \in Nat /\ l \in Nat
    BY <1>1, <1>4, <2>1
  <2>3. l <= LineOf(contents, m - 1) /\ LineOf(contents, m - 1) \in Nat
    BY <1>4, <2>1, <2>2, LineOfMonotone
  <2>4. l + 1 \in 1..Len(starts)
    BY <1>3, <2>2, <2>3
  <2>5. PICK p : p = starts[k]
    OBVIOUS
  <2>6. p \in Nat /\ p <= m - 1 /\ LineOf(contents, p) = k - 1 /\ k \in Nat
    BY <1>1, <1>3, <2>5
  <2>7. PICK q : q = starts[l + 1]
    OBVIOUS
  <2>8. q \in Nat /\ q <= b /\ LineOf(contents, q) = (l + 1) - 1
    BY <1>1, <1>3, <2>1, <2>4, <2>7
  <2>9. p <= b => k - 1 <= l
    BY <2>1, <2>2, <2>6, LineOfMonotone
  <2>10. q <= p => (l + 1) - 1 <= k - 1
    BY <2>6, <2>8, LineOfMonotone
  <2>11. k = l + 1 => p = q
    BY <2>5, <2>7
  <2>. QED
    BY <2>1, <2>2, <2>5, <2>6, <2>8, <2>9, <2>10, <2>11
<1>. QED
  BY <1>1, <1>3, <1>5

\* An empty file has no line.
LEMMA NoStarts ==
  ASSUME NEW contents \in Seq(Char), Len(contents) = 0
  PROVE  StartsOf(contents) = << >>
BY StartsFold DEF StartsUpTo, StartsOf

\* The line of a byte is one of the file; behind the end it is the last.
LEMMA LineAtFacts ==
  ASSUME NEW contents \in Seq(Char), Len(contents) > 0, NEW at \in Nat
  PROVE  /\ LineAt(contents, at) \in Nat
         /\ LineAt(contents, at) <= LineOf(contents, Len(contents) - 1)
         /\ at < Len(contents) => LineAt(contents, at) = LineOf(contents, at)
         /\ at >= Len(contents) => LineAt(contents, at) = LineOf(contents, Len(contents) - 1)
<1>1. Len(contents) \in Nat /\ Len(contents) - 1 \in Nat
  <2>1. Len(contents) \in Nat
    BY LenProperties
  <2>. QED
    BY <2>1
<1>2. LineOf(contents, at) \in Nat /\ LineOf(contents, Len(contents) - 1) \in Nat
  BY <1>1, LineOfStep
<1>3. at < Len(contents) => LineOf(contents, at) <= LineOf(contents, Len(contents) - 1)
  BY <1>1, LineOfMonotone
<1>. QED
  BY <1>1, <1>2, <1>3 DEF LineAt

\* upper_bound of a byte in the line starts: the number of the next line.
LEMMA UpperBoundOfStarts ==
  ASSUME NEW contents \in Seq(Char), Len(contents) > 0, NEW at \in Nat
  PROVE  UpperBound(StartsOf(contents), at) = LineAt(contents, at) + 1
<1>. DEFINE starts == StartsOf(contents)
            m == Len(contents)
            l == LineAt(contents, at)
            last == LineOf(contents, m - 1)
            before == {i \in DOMAIN starts : starts[i] <= at}
<1>1. /\ m \in Nat /\ m > 0 /\ starts \in Seq(Nat) /\ Len(starts) = last + 1
      /\ \A k \in 1..Len(starts) : starts[k] \in 0..(m - 1)
      /\ \A k \in 1..Len(starts), b \in 0..(m - 1) :
           starts[k] <= b <=> k <= LineOf(contents, b) + 1
  <2>. HIDE DEF starts, m
  <2>. QED
    BY StartsFacts DEF starts, m, last
<1>2. DOMAIN starts = 1..(last + 1)
  <2>. HIDE DEF starts, last
  <2>. QED
    BY <1>1, LenProperties
<1>3. /\ l \in Nat /\ last \in Nat /\ l <= last
      /\ at < m => l = LineOf(contents, at)
      /\ at >= m => l = last
  <2>1. m - 1 \in Nat
    <3>. HIDE DEF m, starts
    <3>. QED
      BY <1>1
  <2>2. last \in Nat
    BY <2>1, LineOfStep
  <2>. HIDE DEF l
  <2>. QED
    BY <2>2, LineAtFacts DEF l
<1>. HIDE DEF starts, m, l, last
<1>4. before = 1..(l + 1)
  <2>1. ASSUME NEW k \in 1..(last + 1) PROVE starts[k] <= at <=> k <= l + 1
    <3>1. k \in 1..Len(starts)
      BY <1>1
    <3>2. CASE at < m
      <4>1. at \in 0..(m - 1)
        BY <1>1, <3>2
      <4>. QED
        BY <1>1, <1>3, <3>1, <3>2, <4>1
    <3>3. CASE at >= m
      <4>1. starts[k] \in 0..(m - 1)
        BY <1>1, <3>1
      <4>. QED
        BY <1>1, <1>3, <3>3, <4>1
    <3>. QED
      BY <1>1, <3>2, <3>3
  <2>2. before = {k \in 1..(last + 1) : k <= l + 1}
    BY <1>2, <2>1
  <2>. HIDE DEF before
  <2>. QED
    BY <1>3, <2>2
<1>5. Cardinality(1..(l + 1)) = l + 1
  BY <1>3, FS_Interval
<1>. QED
  BY <1>4, <1>5 DEF UpperBound, starts, l

\* lower_bound: the number of the line of the byte before, and one.
LEMMA LowerBoundOfStarts ==
  ASSUME NEW contents \in Seq(Char), Len(contents) > 0, NEW at \in Nat
  PROVE  LowerBound(StartsOf(contents), at) =
           IF at = 0 THEN 0 ELSE LineAt(contents, at - 1) + 1
<1>1. PICK starts : starts = StartsOf(contents)
  OBVIOUS
<1>2. starts \in Seq(Nat)
  BY <1>1, StartsFacts
<1>3. DOMAIN starts = 1..Len(starts) /\ \A i \in DOMAIN starts : starts[i] \in Nat
  BY <1>2, LenProperties
<1>4. CASE at = 0
  <2>1. {i \in DOMAIN starts : starts[i] < 0} = {}
    BY <1>3
  <2>. QED
    BY <1>1, <1>4, <2>1, FS_EmptySet DEF LowerBound
<1>5. CASE at # 0
  <2>1. at - 1 \in Nat
    BY <1>5
  <2>2. {i \in DOMAIN starts : starts[i] < at} = {i \in DOMAIN starts : starts[i] <= at - 1}
    BY <1>3
  <2>3. LowerBound(starts, at) = UpperBound(starts, at - 1)
    BY <2>2 DEF LowerBound, UpperBound
  <2>. QED
    BY <1>1, <1>5, <2>1, <2>3, UpperBoundOfStarts
<1>. QED
  BY <1>4, <1>5

\* The first line of a slice is that of its first byte, ...
LEMMA StartLineIs ==
  ASSUME NEW contents \in Seq(Char), Len(contents) > 0, NEW slice, slice.start \in Nat
  PROVE  StartLine(FileManager(contents), slice) = LineAt(contents, slice.start)
<1>. DEFINE starts == StartsOf(contents)
            a == slice.start
            m == Len(contents)
            after == LowerBound(starts, a)
<1>1. FileManager(contents).line_start_byte_indices = starts
  BY DEF FileManager, StartsOf
<1>2. StartLine(FileManager(contents), slice) =
        IF after >= Len(starts) \/ a < starts[after + 1] THEN after - 1 ELSE after
  BY <1>1 DEF StartLine
<1>3. after = IF a = 0 THEN 0 ELSE LineAt(contents, a - 1) + 1
  BY LowerBoundOfStarts
<1>4. /\ m \in Nat /\ m > 0 /\ starts \in Seq(Nat) /\ Len(starts) = LineOf(contents, m - 1) + 1
      /\ \A k \in 1..Len(starts) : starts[k] \in 0..(m - 1)
      /\ \A k \in 1..Len(starts), b \in 0..(m - 1) :
           starts[k] <= b <=> k <= LineOf(contents, b) + 1
  <2>. HIDE DEF starts, m
  <2>. QED
    BY StartsFacts DEF starts, m
<1>5. \A i \in Nat : LineOf(contents, i) \in Nat
  BY LineOfStep
<1>. HIDE DEF after, starts
<1>6. CASE a = 0
  <2>1. after = 0 /\ LineOf(contents, 0) = 0 /\ m - 1 \in Nat
    BY <1>3, <1>4, <1>6, LineOfZero
  <2>2. LineAt(contents, a) = 0
    BY <1>4, <1>6, <2>1, LineAtFacts
  <2>3. LineOf(contents, m - 1) \in Nat
    BY <1>5, <2>1
  <2>4. Len(starts) >= 1 /\ 1 \in 1..Len(starts)
    BY <1>4, <2>3
  <2>5. starts[1] \in 0..(m - 1)
    BY <1>4, <2>4
  <2>. QED
    BY <1>2, <1>4, <1>6, <2>1, <2>2, <2>3, <2>4, <2>5
<1>7. CASE a > 0 /\ a < m
  <2>1. PICK l : l = LineOf(contents, a - 1)
    OBVIOUS
  <2>2. a - 1 \in Nat /\ (a - 1) + 1 = a /\ a - 1 < m /\ a <= Len(contents) /\ l \in Nat
    <3>1. a \in Nat
      OBVIOUS
    <3>. HIDE DEF a
    <3>2. a - 1 \in Nat /\ (a - 1) + 1 = a /\ a - 1 < m /\ a <= Len(contents)
      BY <1>4, <1>7, <3>1
    <3>3. l \in Nat
      BY <1>5, <2>1, <3>2
    <3>. QED
      BY <3>2, <3>3
  <2>3. after = l + 1
    <3>1. LineAt(contents, a - 1) = l
      BY <2>1, <2>2, LineAtFacts
    <3>. QED
      BY <1>3, <1>7, <3>1
  <2>4. LineAt(contents, a) = LineOf(contents, a)
    BY <1>7, LineAtFacts
  <2>5. PICK k : k = LineOf(contents, a)
    OBVIOUS
  <2>6. (contents[a] = "newline" => k = l + 1) /\ (contents[a] # "newline" => k = l)
    BY <2>1, <2>2, <2>5, LineOfStep
  <2>7. k <= LineOf(contents, m - 1) /\ LineOf(contents, m - 1) \in Nat /\ a \in 0..(m - 1) /\ k \in Nat
    <3>1. m - 1 \in Nat /\ a <= m - 1
      BY <1>4, <1>7
    <3>. QED
      BY <1>5, <1>7, <2>5, <3>1, LineOfMonotone, SMTT(20)
  <2>8. \A j \in 1..Len(starts) : starts[j] <= a <=> j <= k + 1
    BY <1>4, <2>5, <2>7
  <2>9. \A j \in 1..Len(starts) : starts[j] \in Nat
    BY <1>4
  <2>10. CASE k = l + 1
    <3>1. after + 1 \in 1..Len(starts) /\ ~(after >= Len(starts))
      BY <1>4, <2>2, <2>3, <2>7, <2>10
    <3>2. starts[after + 1] <= a /\ starts[after + 1] \in Nat
      BY <2>2, <2>3, <2>8, <2>9, <2>10, <3>1
    <3>3. ~(a < starts[after + 1])
      BY <3>2
    <3>. QED
      BY <1>2, <2>3, <2>4, <2>5, <2>10, <3>1, <3>3
  <2>11. CASE k = l
    <3>1. ASSUME ~(after >= Len(starts)) PROVE a < starts[after + 1]
      <4>1. after + 1 \in 1..Len(starts)
        BY <1>4, <2>2, <2>3, <2>7, <3>1
      <4>2. ~(starts[after + 1] <= a) /\ starts[after + 1] \in Nat
        BY <2>2, <2>3, <2>8, <2>9, <2>11, <4>1
      <4>. QED
        BY <4>2
    <3>2. after - 1 = l
      BY <2>2, <2>3
    <3>. QED
      BY <1>2, <2>4, <2>5, <2>11, <3>1, <3>2
  <2>. QED
    BY <2>6, <2>10, <2>11
<1>8. CASE a >= m
  <2>1. a - 1 \in Nat /\ m - 1 \in Nat
    BY <1>4, <1>8
  <2>2. LineAt(contents, a) = LineOf(contents, m - 1)
    BY <1>8, LineAtFacts
  <2>3. LineAt(contents, a - 1) = LineOf(contents, m - 1)
    BY <1>4, <1>8, <2>1 DEF LineAt
  <2>4. LineOf(contents, m - 1) \in Nat
    BY <1>5, <2>1
  <2>5. after = LineOf(contents, m - 1) + 1 /\ after >= Len(starts)
    BY <1>3, <1>4, <1>8, <2>3, <2>4
  <2>. QED
    BY <1>2, <2>2, <2>4, <2>5
<1>. QED
  BY <1>4, <1>6, <1>7, <1>8

\* ... the last one that of its last byte.
LEMMA EndLineIs ==
  ASSUME NEW contents \in Seq(Char), Len(contents) > 0, NEW slice, slice.end \in Nat
  PROVE  EndLine(FileManager(contents), slice) = LineAt(contents, slice.end)
<1>1. FileManager(contents).line_start_byte_indices = StartsOf(contents)
  BY DEF FileManager, StartsOf
<1>2. UpperBound(StartsOf(contents), slice.end) = LineAt(contents, slice.end) + 1
  BY UpperBoundOfStarts
<1>3. LineAt(contents, slice.end) \in Nat
  BY LineAtFacts
<1>. QED
  BY <1>1, <1>2, <1>3 DEF EndLine

\* The lines of a slice are those from the line of its start to that of its end.
LEMMA LinesOfSlice ==
  ASSUME NEW contents \in Seq(Char), Len(contents) > 0,
         NEW slice, slice.start \in Nat, slice.end \in Nat,
         NEW first, first = LineAt(contents, slice.start),
         NEW last, last = LineAt(contents, slice.end)
  PROVE  get_lines_spanning_byte_slice(FileManager(contents), slice) =
           [i \in 1..(last - first + 1) |-> FileLine(FileManager(contents), slice, first + i - 1)]
<1>1. first \in Nat /\ first # -1
  <2>1. first \in Nat
    BY LineAtFacts
  <2>. QED
    BY <2>1
<1>2. StartLine(FileManager(contents), slice) = first
  BY StartLineIs
<1>3. EndLine(FileManager(contents), slice) = last
  BY EndLineIs
<1>. QED
  BY <1>1, <1>2, <1>3 DEF get_lines_spanning_byte_slice

\* There is none in an empty file.
LEMMA NoLines ==
  ASSUME NEW contents \in Seq(Char), Len(contents) = 0,
         NEW slice, slice.start \in Nat
  PROVE  get_lines_spanning_byte_slice(FileManager(contents), slice) = << >>
<1>1. FileManager(contents).line_start_byte_indices = << >>
  BY NoStarts DEF FileManager, StartsOf
<1>2. {i \in DOMAIN << >> : << >>[i] < slice.start} = {}
  OBVIOUS
<1>3. LowerBound(<< >>, slice.start) = 0
  BY <1>2, FS_EmptySet DEF LowerBound
<1>4. Len(<< >>) = 0
  OBVIOUS
<1>5. StartLine(FileManager(contents), slice) = -1
  BY <1>1, <1>3, <1>4 DEF StartLine
<1>. QED
  BY <1>5 DEF get_lines_spanning_byte_slice

\* Their numbers.
LEMMA LinenosAre ==
  ASSUME NEW contents \in Seq(Char), Len(contents) > 0,
         NEW slice, slice.start \in Nat, slice.end \in Nat
  PROVE  Linenos(get_lines_spanning_byte_slice(FileManager(contents), slice)) =
           LineAt(contents, slice.start)..LineAt(contents, slice.end)
<1>. DEFINE first == LineAt(contents, slice.start)
            last == LineAt(contents, slice.end)
            line(i) == FileLine(FileManager(contents), slice, first + i - 1)
<1>1. first \in Nat /\ last \in Nat
  BY LineAtFacts
<1>2. get_lines_spanning_byte_slice(FileManager(contents), slice)
        = [i \in 1..(last - first + 1) |-> line(i)]
  BY LinesOfSlice
<1>3. \A i : line(i).lineno = first + i - 1
  BY DEF FileLine
<1>. HIDE DEF line, first, last
<1>4. Linenos([i \in 1..(last - first + 1) |-> line(i)])
        = {first + i - 1 : i \in 1..(last - first + 1)}
  BY <1>3 DEF Linenos
<1>5. \A k \in first..last : k - first + 1 \in 1..(last - first + 1) /\ first + (k - first + 1) - 1 = k
  BY <1>1
<1>6. {first + i - 1 : i \in 1..(last - first + 1)} = first..last
  <2>1. \A i \in 1..(last - first + 1) : first + i - 1 \in first..last
    BY <1>1
  <2>. QED
    BY <1>5, <2>1
<1>. QED
  BY <1>2, <1>4, <1>6 DEF first, last

\* No line is skipped between two bytes.
LEMMA LinesBetween ==
  ASSUME NEW contents \in Seq(Char), NEW m, m = Len(contents), m > 0,
         NEW x \in 0..(m - 1), NEW y \in x..(m - 1)
  PROVE  LineOf(contents, x)..LineOf(contents, y) = {LineOf(contents, b) : b \in x..y}
<1>1. PICK starts : starts = StartsOf(contents)
  OBVIOUS
<1>2. /\ m \in Nat /\ starts \in Seq(Nat) /\ Len(starts) = LineOf(contents, m - 1) + 1
      /\ \A k \in 1..Len(starts) :
           starts[k] \in 0..(m - 1) /\ LineOf(contents, starts[k]) = k - 1
      /\ \A k \in 1..Len(starts), b \in 0..(m - 1) :
           starts[k] <= b <=> k <= LineOf(contents, b) + 1
  BY <1>1, StartsFacts
<1>3. \A i \in Nat : LineOf(contents, i) \in Nat
  BY LineOfStep
<1>4. x \in Nat /\ y \in Nat /\ m - 1 \in Nat /\ x <= y /\ y <= m - 1 /\ y \in 0..(m - 1)
  BY <1>2
<1>5. ASSUME NEW b \in x..y
      PROVE  LineOf(contents, b) \in LineOf(contents, x)..LineOf(contents, y)
  <2>1. b \in Nat /\ x <= b /\ b <= y
    BY <1>4
  <2>2. LineOf(contents, x) <= LineOf(contents, b) /\ LineOf(contents, b) <= LineOf(contents, y)
    BY <1>4, <2>1, LineOfMonotone
  <2>. QED
    BY <1>3, <1>4, <2>1, <2>2
<1>6. ASSUME NEW k \in LineOf(contents, x)..LineOf(contents, y)
      PROVE  \E b \in x..y : LineOf(contents, b) = k
  <2>1. CASE k = LineOf(contents, x)
    BY <1>4, <2>1
  <2>2. CASE k # LineOf(contents, x)
    <3>1. PICK p, q, r : p = LineOf(contents, x) /\ q = LineOf(contents, y) /\ r = LineOf(contents, m - 1)
      OBVIOUS
    <3>2. p \in Nat /\ q \in Nat /\ r \in Nat /\ q <= r
      BY <1>3, <1>4, <3>1, LineOfMonotone
    <3>3. k \in p..q /\ k # p
      BY <2>2, <3>1
    <3>4. k + 1 \in 1..Len(starts) /\ k + 1 <= q + 1 /\ ~(k + 1 <= p + 1) /\ (k + 1) - 1 = k
      <4>1. Len(starts) = r + 1
        BY <1>2, <3>1
      <4>2. k \in Nat /\ k <= q /\ p < k
        BY <3>2, <3>3
      <4>3. k + 1 \in 1..(r + 1)
        BY <3>2, <4>2
      <4>4. k + 1 <= q + 1 /\ ~(k + 1 <= p + 1) /\ (k + 1) - 1 = k
        BY <3>2, <4>2
      <4>. QED
        BY <4>1, <4>3, <4>4
    <3>5. starts[k + 1] <= y /\ ~(starts[k + 1] <= x) /\ LineOf(contents, starts[k + 1]) = k
      BY <1>2, <1>4, <3>1, <3>4
    <3>6. starts[k + 1] \in x..y
      BY <1>2, <1>4, <3>4, <3>5
    <3>. QED
      BY <3>5, <3>6
  <2>. QED
    BY <2>1, <2>2
<1>7. {LineOf(contents, b) : b \in x..y} \subseteq LineOf(contents, x)..LineOf(contents, y)
  BY <1>5
<1>8. LineOf(contents, x)..LineOf(contents, y) \subseteq {LineOf(contents, b) : b \in x..y}
  BY <1>6
<1>. QED
  BY <1>7, <1>8

\* Smallest and largest number of an interval.
LEMMA MinMaxOfInterval ==
  ASSUME NEW a \in Nat, NEW b \in Nat, a <= b, NEW T, T = a..b
  PROVE  Min(T) = a /\ Max(T) = b
<1>1. T \subseteq Nat /\ T \subseteq 0..b /\ T # {} /\ a \in T /\ b \in T
  BY SMTT(20)
<1>2. Min(T) \in T /\ Min(T) <= a
  BY <1>1, MinProperties
<1>3. Max(T) \in T /\ Max(T) >= b
  BY <1>1, MaxProperties
<1>. QED
  BY <1>2, <1>3

\* A line that ends with a newline is shown without it, and whole.
LEMMA WholeLine ==
  ASSUME NEW contents \in Seq(Char), NEW m, m = Len(contents), m > 0,
         NEW slice, NEW k \in Nat, k <= LineOf(contents, m - 1), Terminated(contents, k)
  PROVE  Append(FileLine(FileManager(contents), slice, k).content, "newline")
           = LineHolds(contents, k)
<1>1. PICK starts : starts = StartsOf(contents)
  OBVIOUS
<1>2. /\ m \in Nat /\ starts \in Seq(Nat) /\ Len(starts) = LineOf(contents, m - 1) + 1
      /\ \A j \in 1..Len(starts) :
           starts[j] \in 0..(m - 1) /\ LineOf(contents, starts[j]) = j - 1
      /\ \A j \in 1..Len(starts), b \in 0..(m - 1) :
           starts[j] <= b <=> j <= LineOf(contents, b) + 1
  BY <1>1, StartsFacts
<1>3. \A i \in Nat : LineOf(contents, i) \in Nat
  BY LineOfStep
<1>4. PICK last : last = LineOf(contents, m - 1)
  OBVIOUS
<1>5. m - 1 \in Nat /\ last \in Nat /\ k <= last /\ Len(starts) = last + 1
  BY <1>2, <1>3, <1>4
<1>6. PICK p : p = starts[k + 1]
  OBVIOUS
<1>7. k + 1 \in 1..Len(starts)
  BY <1>5
<1>8. p \in 0..(m - 1) /\ LineOf(contents, p) = k
  BY <1>2, <1>6, <1>7
<1>9. PICK e : e = IF k = Len(starts) - 1 THEN m - 1 ELSE starts[k + 2] - 1
  OBVIOUS
<1>10. FileLine(FileManager(contents), slice, k).content = SubSeq(contents, p + 1, p + (e - p))
  BY <1>1, <1>6, <1>9 DEF FileLine, FileManager, StartsOf, Substr
<1>11. /\ e \in p..(m - 1)
       /\ contents[e + 1] = "newline"
       /\ \A b \in 0..(m - 1) : LineOf(contents, b) = k <=> b \in p..e
  <2>1. CASE k = last
    <3>1. e = m - 1
      BY <1>5, <1>9, <2>1
    <3>2. contents[m] = "newline"
      <4>1. k < LineOf(contents, m)
        BY DEF Terminated
      <4>2. (m - 1) + 1 = m
        BY <1>2
      <4>3. LineOf(contents, m) # last
        BY <1>5, <2>1, <4>1
      <4>. QED
        BY <1>4, <1>5, <4>2, <4>3, LineOfStep
    <3>3. ASSUME NEW b \in 0..(m - 1) PROVE LineOf(contents, b) = k <=> b \in p..(m - 1)
      <4>1. b \in Nat /\ b <= m - 1
        BY <1>2
      <4>2. LineOf(contents, b) \in Nat /\ LineOf(contents, b) <= last
        BY <1>3, <1>4, <1>5, <4>1, LineOfMonotone
      <4>3. p <= b <=> k + 1 <= LineOf(contents, b) + 1
        BY <1>2, <1>6, <1>7
      <4>. QED
        BY <1>5, <1>8, <2>1, <4>1, <4>2, <4>3
    <3>4. e \in p..(m - 1) /\ e + 1 = m
      BY <1>2, <1>5, <1>8, <3>1
    <3>. QED
      BY <3>1, <3>2, <3>3, <3>4
  <2>2. CASE k < last
    <3>1. PICK q : q = starts[k + 2]
      OBVIOUS
    <3>2. k + 2 \in 1..Len(starts) /\ (k + 2) - 1 = k + 1
      BY <1>5, <2>2
    <3>3. q \in 0..(m - 1) /\ LineOf(contents, q) = k + 1
      BY <1>2, <3>1, <3>2
    <3>4. e = q - 1
      BY <1>5, <1>9, <2>2, <3>1
    <3>5. ~(q <= p)
      <4>1. q <= p <=> k + 2 <= LineOf(contents, p) + 1
        BY <1>2, <1>8, <3>1, <3>2
      <4>. QED
        BY <1>8, <4>1
    <3>6. e \in p..(m - 1) /\ e \in Nat /\ e + 1 = q /\ q <= m /\ e \in 0..(m - 1)
      BY <1>2, <1>8, <3>3, <3>4, <3>5
    <3>7. contents[q] = "newline"
      <4>1. q <= e <=> k + 2 <= LineOf(contents, e) + 1
        BY <1>2, <3>1, <3>2, <3>6
      <4>2. LineOf(contents, e) \in Nat
        BY <1>3, <3>6
      <4>3. LineOf(contents, e) # k + 1
        BY <3>6, <4>1, <4>2
      <4>. QED
        BY <3>3, <3>6, <4>3, LineOfStep
    <3>8. ASSUME NEW b \in 0..(m - 1) PROVE LineOf(contents, b) = k <=> b \in p..e
      <4>0. b \in Nat
        BY <1>2
      <4>1. b \in Nat /\ LineOf(contents, b) \in Nat
        BY <1>3, <4>0
      <4>2. p <= b <=> k + 1 <= LineOf(contents, b) + 1
        BY <1>2, <1>6, <1>7
      <4>3. q <= b <=> k + 2 <= LineOf(contents, b) + 1
        BY <1>2, <3>1, <3>2
      <4>. QED
        BY <1>8, <3>3, <3>4, <4>1, <4>2, <4>3
    <3>. QED
      BY <3>6, <3>7, <3>8
  <2>. QED
    BY <1>5, <2>1, <2>2
<1>12. /\ p \in Nat /\ e \in Nat /\ p <= e /\ p + (e - p) = e
       /\ p + 1 \in 1..m /\ e + 1 \in (p + 1)..m /\ (e + 1) - 1 = e
       /\ p + 1 \in Nat /\ e + 1 \in Nat /\ p + 1 <= e + 1
  BY <1>2, <1>8, <1>11
<1>13. PICK T : T = {i \in DOMAIN contents : LineOf(contents, i - 1) = k}
  OBVIOUS
<1>14. T = (p + 1)..(e + 1)
  <2>1. DOMAIN contents = 1..m
    BY LenProperties
  <2>2. ASSUME NEW i \in 1..m PROVE LineOf(contents, i - 1) = k <=> i \in (p + 1)..(e + 1)
    <3>1. i - 1 \in 0..(m - 1)
      BY <1>2
    <3>2. i - 1 \in p..e <=> i \in (p + 1)..(e + 1)
      BY <1>2, <1>12
    <3>. QED
      BY <1>11, <3>1, <3>2
  <2>3. (p + 1)..(e + 1) \subseteq 1..m
    BY <1>2, <1>12
  <2>. QED
    BY <1>13, <2>1, <2>2, <2>3
<1>15. Min(T) = p + 1 /\ Max(T) = e + 1
  BY <1>12, <1>14, MinMaxOfInterval
<1>16. LineHolds(contents, k) = SubSeq(contents, p + 1, e + 1)
  BY <1>13, <1>15 DEF LineHolds
<1>17. SubSeq(contents, p + 1, e + 1) = SubSeq(contents, p + 1, e) \o <<contents[e + 1]>>
  BY <1>12, SubSeqRecursiveSecond
<1>18. PICK text : text = SubSeq(contents, p + 1, e)
  OBVIOUS
<1>19. text \in Seq(Char)
  <2>1. \A i \in (p + 1)..e : contents[i] \in Char
    <3>1. \A i \in (p + 1)..e : i \in 1..Len(contents)
      BY <1>2, <1>12
    <3>. QED
      BY <3>1, ElementOfSeq
  <2>2. p + 1 \in Int /\ e \in Int
    BY <1>12
  <2>. QED
    BY <1>18, <2>1, <2>2, SubSeqProperties
<1>20. Append(text, "newline") = text \o <<"newline">>
  BY <1>19, AppendIsConcat DEF Char, Byte
<1>. QED
  BY <1>10, <1>11, <1>12, <1>16, <1>17, <1>18, <1>20

\* The lines of a match: those its bytes are on, in order, and whole.
LEMMA PrevLines ==
  ASSUME NEW contents \in Seq(Char), NEW m, m = Len(contents), NEW slice,
         slice.start \in Nat, slice.end \in Nat, SizeOf(slice) \in Nat \ {0},
         slice.end = slice.start + SizeOf(slice) - 1, Within(contents, slice),
         NEW lines, lines = get_lines_spanning_byte_slice(FileManager(contents), slice)
  PROVE  /\ Linenos(lines) = {LineOf(contents, at) : at \in Bytes(slice)}
         /\ \A i \in DOMAIN lines :
              /\ lines[i].lineno = lines[1].lineno + i - 1
              /\ Terminated(contents, lines[i].lineno) =>
                   Append(lines[i].content, "newline") = LineHolds(contents, lines[i].lineno)
<1>1. PICK a, b : a = slice.start /\ b = slice.end
  OBVIOUS
<1>2. m \in Nat /\ m > 0 /\ a \in 0..(m - 1) /\ b \in a..(m - 1) /\ Bytes(slice) = a..b
      /\ a \in Nat /\ b \in Nat /\ a < m /\ b < m /\ m - 1 \in Nat
  <2>1. m \in Nat
    BY LenProperties
  <2>2. PICK n : n = SizeOf(slice)
    OBVIOUS
  <2>3. n \in Nat \ {0} /\ b = a + n - 1 /\ a + n <= m /\ a \in Nat /\ b \in Nat
    BY <1>1, <2>2 DEF Within
  <2>4. Bytes(slice) = a..b
    BY <1>1, <2>2, <2>3 DEF Bytes
  <2>. QED
    BY <2>1, <2>3, <2>4
<1>3. PICK first, last : first = LineAt(contents, a) /\ last = LineAt(contents, b)
  OBVIOUS
<1>4. /\ first = LineOf(contents, a) /\ last = LineOf(contents, b)
      /\ first \in Nat /\ last \in Nat /\ last <= LineOf(contents, m - 1)
  BY <1>2, <1>3, LineAtFacts
<1>5. Linenos(lines) = first..last
  BY <1>1, <1>2, <1>3, LinenosAre
<1>6. first..last = {LineOf(contents, at) : at \in a..b}
  <2>1. a \in 0..(m - 1) /\ b \in a..(m - 1)
    BY <1>2
  <2>2. LineOf(contents, a)..LineOf(contents, b) = {LineOf(contents, at) : at \in a..b}
    BY <1>2, <2>1, LinesBetween
  <2>. QED
    BY <1>4, <2>2
<1>7. lines = [i \in 1..(last - first + 1) |-> FileLine(FileManager(contents), slice, first + i - 1)]
  BY <1>1, <1>2, <1>3, LinesOfSlice
<1>8. LineOf(contents, m - 1) \in Nat
  BY <1>2, LineOfStep
<1>9. ASSUME NEW i \in DOMAIN lines
      PROVE  /\ lines[i].lineno = lines[1].lineno + i - 1
             /\ Terminated(contents, lines[i].lineno) =>
                  Append(lines[i].content, "newline") = LineHolds(contents, lines[i].lineno)
  <2>1. i \in 1..(last - first + 1) /\ 1 \in 1..(last - first + 1)
    BY <1>4, <1>7
  <2>2. PICK k : k = first + i - 1
    OBVIOUS
  <2>3. lines[i] = FileLine(FileManager(contents), slice, k)
    BY <1>7, <2>1, <2>2
  <2>4. lines[1] = FileLine(FileManager(contents), slice, first + 1 - 1)
    BY <1>7, <2>1
  <2>5. lines[i].lineno = k /\ lines[1].lineno = first + 1 - 1
    BY <2>3, <2>4 DEF FileLine
  <2>6. k \in Nat /\ k <= last /\ k <= LineOf(contents, m - 1)
    <3>0. first \in Nat /\ last \in Nat /\ i \in 1..(last - first + 1)
      BY <1>4, <2>1
    <3>1. k \in Nat /\ k <= last
      BY <2>2, <3>0
    <3>. QED
      BY <1>4, <1>8, <3>1
  <2>7. Terminated(contents, k) =>
          Append(FileLine(FileManager(contents), slice, k).content, "newline")
            = LineHolds(contents, k)
    BY <1>2, <2>6, WholeLine
  <2>8. k = (first + 1 - 1) + i - 1
    BY <1>4, <2>1, <2>2
  <2>. QED
    BY <2>3, <2>5, <2>7, <2>8
<1>. QED
  BY <1>2, <1>5, <1>6, <1>9

\* A piece of a text.
LEMMA Cut ==
  ASSUME NEW S, NEW s \in Seq(S), NEW a \in Nat, NEW b \in Int, b <= Len(s),
         NEW t, t = SubSeq(s, a + 1, b)
  PROVE  /\ t \in Seq(S)
         /\ Len(t) = IF a < b THEN b - a ELSE 0
         /\ \A i \in 1..(b - a) : t[i] = s[a + i]
<1>1. Len(s) \in Nat /\ a + 1 \in Int
  BY LenProperties
<1>2. \A i \in (a + 1)..b : s[i] \in S
  <2>1. \A i \in (a + 1)..b : i \in 1..Len(s)
    BY <1>1
  <2>. QED
    BY <2>1, ElementOfSeq
<1>3. /\ t \in Seq(S)
      /\ Len(t) = IF a + 1 <= b THEN b - (a + 1) + 1 ELSE 0
      /\ \A i \in 1..(b - (a + 1) + 1) : t[i] = s[(a + 1) + i - 1]
  BY <1>1, <1>2, SubSeqProperties
<1>4. b - (a + 1) + 1 = b - a /\ (a + 1 <= b <=> a < b)
  BY <1>1
<1>5. \A i \in 1..(b - a) : (a + 1) + i - 1 = a + i
  BY <1>1
<1>. QED
  BY <1>3, <1>4, <1>5

\* The contents after a replacement.
ReplacedText(contents, slice, text) ==
  SubSeq(contents, 1, slice.start) \o text
    \o SubSeq(contents, slice.start + SizeOf(slice) + 1, Len(contents))

\* replace_text_in_file, without the record it returns.
LEMMA ReplaceIs ==
  ASSUME NEW file, NEW slice, slice.start \in Nat, NEW text
  PROVE  /\ replace_text_in_file(file, slice, text)
              = FileManager(ReplacedText(file.contents, slice, text))
         /\ replace_text_in_file(file, slice, text).contents
              = ReplacedText(file.contents, slice, text)
<1>1. 0 + 1 = 1 /\ 0 + slice.start = slice.start
  OBVIOUS
<1>2. Substr(file.contents, 0, slice.start) = SubSeq(file.contents, 1, slice.start)
  BY <1>1 DEF Substr
<1>3. replace_text_in_file(file, slice, text)
        = FileManager(ReplacedText(file.contents, slice, text))
  BY <1>2 DEF replace_text_in_file, ReplacedText
<1>. QED
  BY <1>3 DEF FileManager

\* A replacement leaves what is before it, and is followed by its text.
LEMMA ReplacedFacts ==
  ASSUME NEW S, NEW contents \in Seq(S), NEW slice, slice.start \in Nat, SizeOf(slice) \in Nat,
         slice.start <= Len(contents), NEW text \in Seq(S)
  PROVE  /\ ReplacedText(contents, slice, text) \in Seq(S)
         /\ Len(ReplacedText(contents, slice, text)) \in Nat
         /\ Len(ReplacedText(contents, slice, text)) >= slice.start + Len(text)
         /\ \A i \in 1..slice.start : ReplacedText(contents, slice, text)[i] = contents[i]
<1>1. PICK a, b, m : a = slice.start /\ b = SizeOf(slice) /\ m = Len(contents)
  OBVIOUS
<1>2. PICK front : front = SubSeq(contents, 1, a)
  OBVIOUS
<1>3. PICK back : back = SubSeq(contents, a + b + 1, m)
  OBVIOUS
<1>4. a \in Nat /\ b \in Nat /\ m \in Nat /\ a <= m /\ Len(text) \in Nat /\ a + b \in Nat
      /\ 0 + 1 = 1 /\ a - 0 = a
  BY <1>1, LenProperties
<1>5. front \in Seq(S) /\ Len(front) = a /\ \A i \in 1..a : front[i] = contents[i]
  <2>1. /\ front \in Seq(S) /\ Len(front) = (IF 0 < a THEN a - 0 ELSE 0)
        /\ \A i \in 1..(a - 0) : front[i] = contents[0 + i]
    BY <1>1, <1>2, <1>4, Cut
  <2>2. \A i \in 1..a : 0 + i = i
    BY <1>4
  <2>. QED
    BY <1>4, <2>1, <2>2
<1>6. back \in Seq(S)
  BY <1>1, <1>3, <1>4, Cut
<1>7. Len(back) \in Nat
  BY <1>6, LenProperties
<1>8. PICK mid : mid = front \o text
  OBVIOUS
<1>9. /\ mid \in Seq(S) /\ Len(mid) = a + Len(text)
      /\ \A i \in 1..(a + Len(text)) : mid[i] = IF i <= a THEN front[i] ELSE text[i - a]
  BY <1>5, <1>8, ConcatProperties
<1>10. PICK all : all = mid \o back
  OBVIOUS
<1>11. /\ all \in Seq(S) /\ Len(all) = Len(mid) + Len(back)
       /\ \A i \in 1..(Len(mid) + Len(back)) :
            all[i] = IF i <= Len(mid) THEN mid[i] ELSE back[i - Len(mid)]
  BY <1>6, <1>9, <1>10, ConcatProperties
<1>12. all = ReplacedText(contents, slice, text)
  BY <1>1, <1>2, <1>3, <1>8, <1>10 DEF ReplacedText
<1>13. Len(all) = a + Len(text) + Len(back)
  BY <1>9, <1>11
<1>14. ASSUME NEW i \in 1..a PROVE all[i] = contents[i]
  <2>1. i \in 1..(a + Len(text)) /\ i <= a /\ i <= a + Len(text)
        /\ i \in 1..((a + Len(text)) + Len(back))
    BY <1>4, <1>7
  <2>2. all[i] = mid[i]
    BY <1>9, <1>11, <2>1
  <2>3. mid[i] = front[i]
    BY <1>9, <2>1
  <2>. QED
    BY <1>5, <2>2, <2>3
<1>. QED
  BY <1>1, <1>4, <1>7, <1>11, <1>12, <1>13, <1>14

\* The lines of a replacement: those of its bytes, and at most those next to them.
LEMMA NewLines ==
  ASSUME NEW contents \in Seq(Char), NEW m, m = Len(contents),
         NEW from \in Nat, NEW to \in Nat, from <= to, to <= m,
         NEW lines,
         lines = get_lines_spanning_byte_slice(FileManager(contents), [start |-> from, end |-> to])
  PROVE  /\ {LineOf(contents, at) : at \in (from..(to - 1)) \cap 0..(m - 1)} \subseteq Linenos(lines)
         /\ Linenos(lines) \subseteq
              {LineOf(contents, at) : at \in ((from - 1)..to) \cap 0..(m - 1)}
<1>1. m \in Nat
  BY LenProperties
<1>2. CASE m = 0
  <2>1. lines = << >>
    <3>1. [start |-> from, end |-> to].start \in Nat
      OBVIOUS
    <3>. QED
      BY <1>2, <3>1, NoLines
  <2>2. Linenos(lines) = {}
    BY <2>1 DEF Linenos
  <2>3. 0..(m - 1) = {}
    BY <1>2
  <2>. QED
    BY <2>2, <2>3
<1>3. CASE m > 0
  <2>1. PICK slice : slice = [start |-> from, end |-> to]
    OBVIOUS
  <2>2. slice.start = from /\ slice.end = to
    BY <2>1
  <2>3. PICK x : x = IF from < m THEN from ELSE m - 1
    OBVIOUS
  <2>4. PICK y : y = IF to < m THEN to ELSE m - 1
    OBVIOUS
  <2>5. /\ x \in 0..(m - 1) /\ y \in x..(m - 1) /\ y \in 0..(m - 1)
        /\ from - 1 <= x /\ y <= to /\ m - 1 \in Nat
    BY <1>1, <1>3, <2>3, <2>4
  <2>6. LineAt(contents, from) = LineOf(contents, x) /\ LineAt(contents, to) = LineOf(contents, y)
    BY <2>3, <2>4 DEF LineAt
  <2>7. Linenos(lines) = LineAt(contents, from)..LineAt(contents, to)
    BY <1>3, <2>1, <2>2, LinenosAre
  <2>8. Linenos(lines) = {LineOf(contents, at) : at \in x..y}
    BY <1>3, <2>5, <2>6, <2>7, LinesBetween
  <2>9. (from..(to - 1)) \cap 0..(m - 1) \subseteq x..y
    BY <1>1, <1>3, <2>3, <2>4
  <2>10. x..y \subseteq ((from - 1)..to) \cap 0..(m - 1)
    BY <1>1, <2>5
  <2>. QED
    BY <2>8, <2>9, <2>10
<1>. QED
  BY <1>1, <1>2, <1>3

\* The first line of a slice that starts at a byte of the contents, and the
\* column of the byte.
LEMMA FirstLineIs ==
  ASSUME NEW contents \in Seq(Char), Len(contents) > 0, Len(contents) < WordModulus,
         NEW slice, slice.start \in Nat, slice.start < Len(contents),
         slice.end \in Nat, ~IllFormed(slice),
         NEW line, line = get_lines_spanning_byte_slice(FileManager(contents), slice)[1]
  PROVE  /\ line.lineno = LineOf(contents, slice.start)
         /\ StartsOf(contents)[line.lineno + 1] + line.start_column = slice.start
<1>1. PICK a, b, m : a = slice.start /\ b = slice.end /\ m = Len(contents)
  OBVIOUS
<1>2. a \in Nat /\ b \in Nat /\ a <= b /\ m \in Nat /\ a < m /\ m > 0
      /\ a \in 0..(m - 1) /\ a < WordModulus
  <2>1. Len(contents) \in Nat
    BY LenProperties
  <2>2. a \in Nat /\ b \in Nat /\ ~(a > b) /\ m \in Nat /\ a < m /\ m > 0 /\ m < WordModulus
        /\ WordModulus \in Nat
    BY <1>1, <2>1, WordModulusAssumption DEF IllFormed
  <2>. QED
    BY <2>2
<1>3. PICK first, last : first = LineAt(contents, a) /\ last = LineAt(contents, b)
  OBVIOUS
<1>4. first \in Nat /\ last \in Nat /\ first = LineOf(contents, a)
      /\ first <= LineOf(contents, m - 1)
  BY <1>1, <1>2, <1>3, LineAtFacts
<1>5. first <= last
  <2>1. CASE b < m
    <3>1. last = LineOf(contents, b)
      BY <1>1, <1>2, <1>3, <2>1, LineAtFacts
    <3>. QED
      BY <1>2, <1>4, <3>1, LineOfMonotone
  <2>2. CASE b >= m
    <3>1. last = LineOf(contents, m - 1)
      BY <1>1, <1>2, <1>3, <2>2, LineAtFacts
    <3>. QED
      BY <1>4, <3>1
  <2>. QED
    BY <1>2, <2>1, <2>2
<1>6. line = FileLine(FileManager(contents), slice, first + 1 - 1)
  <2>1. 1 \in 1..(last - first + 1)
    BY <1>4, <1>5
  <2>2. get_lines_spanning_byte_slice(FileManager(contents), slice)
          = [i \in 1..(last - first + 1) |-> FileLine(FileManager(contents), slice, first + i - 1)]
    BY <1>1, <1>2, <1>3, LinesOfSlice
  <2>. QED
    BY <2>1, <2>2
<1>7. first + 1 - 1 = first
  BY <1>4
<1>8. PICK p : p = StartsOf(contents)[first + 1]
  OBVIOUS
<1>9. p \in 0..(m - 1) /\ p <= a
  <2>1. PICK starts : starts = StartsOf(contents)
    OBVIOUS
  <2>2. /\ Len(starts) = LineOf(contents, m - 1) + 1
        /\ \A k \in 1..Len(starts) : starts[k] \in 0..(m - 1)
        /\ \A k \in 1..Len(starts), at \in 0..(m - 1) :
             starts[k] <= at <=> k <= LineOf(contents, at) + 1
    BY <1>1, <1>2, <2>1, StartsFacts
  <2>3. LineOf(contents, m - 1) \in Nat
    <3>1. m - 1 \in Nat
      BY <1>2
    <3>. QED
      BY <3>1, LineOfStep
  <2>4. first + 1 \in 1..Len(starts)
    BY <1>4, <2>2, <2>3
  <2>5. starts[first + 1] \in 0..(m - 1)
    BY <2>2, <2>4
  <2>6. starts[first + 1] <= a
    BY <1>2, <1>4, <2>2, <2>4
  <2>. QED
    BY <1>8, <2>1, <2>5, <2>6
<1>10. StartLine(FileManager(contents), slice) = first
  BY <1>1, <1>2, <1>3, StartLineIs
<1>11. line.lineno = first /\ line.start_column = (a - p) % WordModulus
  BY <1>1, <1>6, <1>7, <1>8, <1>10 DEF FileLine, FileManager, StartsOf
<1>12. (a - p) % WordModulus = a - p
  <2>1. PICK w : w = WordModulus
    OBVIOUS
  <2>2. w \in Nat \ {0} /\ a - p \in 0..(w - 1) /\ a - p \in Int
    BY <1>2, <1>9, <2>1, WordModulusAssumption
  <2>3. (a - p) % w = a - p
    BY <2>2
  <2>. QED
    BY <2>1, <2>3
<1>13. p + (a - p) = a
  BY <1>2, <1>9
<1>. QED
  BY <1>1, <1>4, <1>8, <1>11, <1>12, <1>13

-----------------------------------------------------------------------------
(* The accepted diffs in order. *)

\* Diffs whose slices lie in a text of a length, apart from each other.
EditsIn(edits, length) ==
  /\ IsFiniteSet(edits)
  /\ \A d \in edits :
       /\ d.slice.start \in Nat /\ SizeOf(d.slice) \in Nat
       /\ d.slice.start + SizeOf(d.slice) <= length
  /\ \A d, e \in edits :
       /\ d.slice.start < e.slice.start => d.slice.start + SizeOf(d.slice) <= e.slice.start
       /\ d.slice.start = e.slice.start => d = e

InOrder(q, edits) ==
  /\ q \in [1..Cardinality(edits) -> edits]
  /\ \A i, j \in DOMAIN q : i < j => q[i].slice.start < q[j].slice.start

\* Some of the diffs are as well apart as all of them.
LEMMA FewerEdits ==
  ASSUME NEW length, NEW edits, EditsIn(edits, length), NEW some, some \subseteq edits
  PROVE  EditsIn(some, length)
<1>1. IsFiniteSet(some)
  BY FS_Subset DEF EditsIn
<1>. QED
  BY <1>1 DEF EditsIn

\* The last diff is put behind the others in order.
LEMMA OneMoreInOrder ==
  ASSUME NEW length \in Nat, NEW edits, EditsIn(edits, length), edits # {},
         \A some \in SUBSET edits :
           Cardinality(some) = Cardinality(edits) - 1 => \E q : InOrder(q, some)
  PROVE  \E q : InOrder(q, edits)
<1>1. IsFiniteSet(edits) /\ Cardinality(edits) \in Nat
  BY FS_CardinalityType DEF EditsIn
<1>2. \A d \in edits : d.slice.start \in 0..length
  BY DEF EditsIn
<1>3. PICK last \in edits : \A d \in edits : d.slice.start <= last.slice.start
  <2>1. PICK starts : starts = {d.slice.start : d \in edits}
    OBVIOUS
  <2>2. starts \subseteq 0..length /\ starts # {}
    BY <1>2, <2>1
  <2>3. Max(starts) \in starts /\ \A s \in starts : Max(starts) >= s
    BY <2>2, MaxProperties
  <2>4. PICK d \in edits : d.slice.start = Max(starts)
    BY <2>1, <2>3
  <2>5. \A e \in edits : e.slice.start <= d.slice.start
    <3>1. \A e \in edits : e.slice.start \in starts
      BY <2>1
    <3>2. \A e \in edits : e.slice.start \in Nat
      BY <1>2
    <3>. QED
      BY <2>3, <2>4, <3>1, <3>2
  <2>. QED
    BY <2>5
<1>4. PICK n : n = Cardinality(edits)
  OBVIOUS
<1>5. PICK rest : rest = edits \ {last}
  OBVIOUS
<1>6. Cardinality(rest) = n - 1 /\ n \in Nat /\ n # 0
  <2>1. Cardinality(edits) # 0
    BY <1>1, FS_EmptySet
  <2>2. Cardinality(edits \ {last}) = Cardinality(edits) - 1
    BY <1>1, FS_RemoveElement
  <2>. QED
    BY <1>1, <1>4, <1>5, <2>1, <2>2
<1>7. PICK p : InOrder(p, rest)
  BY <1>4, <1>5, <1>6
<1>8. /\ p \in [1..(n - 1) -> rest]
      /\ \A i, j \in 1..(n - 1) : i < j => p[i].slice.start < p[j].slice.start
  BY <1>6, <1>7 DEF InOrder
<1>. DEFINE q == [i \in 1..n |-> IF i = n THEN last ELSE p[i]]
<1>9. ASSUME NEW i \in 1..n PROVE i = n \/ i \in 1..(n - 1)
  BY <1>6
<1>10. q \in [1..n -> edits]
  BY <1>5, <1>8, <1>9
<1>11. ASSUME NEW i \in 1..n, NEW j \in 1..n, i < j
       PROVE  q[i].slice.start < q[j].slice.start
  <2>1. i \in 1..(n - 1) /\ i # n
    BY <1>6, <1>11
  <2>2. q[i] = p[i] /\ p[i] \in rest
    BY <1>8, <2>1
  <2>3. CASE j = n
    <3>1. q[j] = last
      BY <2>3
    <3>2. p[i] \in edits /\ p[i] # last
      BY <1>5, <2>2
    <3>3. p[i].slice.start <= last.slice.start /\ p[i].slice.start # last.slice.start
      BY <1>3, <3>2 DEF EditsIn
    <3>4. p[i].slice.start \in Nat /\ last.slice.start \in Nat
      BY <1>2, <3>2
    <3>. QED
      BY <2>2, <3>1, <3>3, <3>4
  <2>4. CASE j \in 1..(n - 1)
    <3>1. j # n
      BY <1>6, <2>4
    <3>2. q[j] = p[j]
      BY <3>1
    <3>. QED
      BY <1>8, <1>11, <2>1, <2>2, <2>4, <3>2
  <2>. QED
    BY <1>9, <2>3, <2>4
<1>12. InOrder(q, edits)
  <2>1. DOMAIN q = 1..n
    OBVIOUS
  <2>. HIDE DEF q
  <2>. QED
    BY <1>4, <1>10, <1>11, <2>1 DEF InOrder
<1>. QED
  BY <1>12

\* The diffs can be sorted.
LEMMA OrderExists ==
  ASSUME NEW length \in Nat, NEW edits, EditsIn(edits, length)
  PROVE  \E q : InOrder(q, edits)
<1>. DEFINE n == Cardinality(edits)
            T == {k \in 0..n : \A some \in SUBSET edits :
                    Cardinality(some) = k => \E q : InOrder(q, some)}
<1>1. IsFiniteSet(edits) /\ n \in Nat
  BY FS_CardinalityType DEF EditsIn
<1>2. 0 \in T
  <2>1. ASSUME NEW some \in SUBSET edits, Cardinality(some) = 0
        PROVE  \E q : InOrder(q, some)
    <3>1. IsFiniteSet(some)
      BY <1>1, FS_Subset
    <3>2. some = {}
      BY <2>1, <3>1, FS_EmptySet
    <3>3. PICK q : q = [i \in 1..0 |-> i]
      OBVIOUS
    <3>4. q \in [1..0 -> {}] /\ DOMAIN q = 1..0 /\ \A i, j \in DOMAIN q : FALSE
      BY <3>3
    <3>5. InOrder(q, some)
      BY <2>1, <3>2, <3>4 DEF InOrder
    <3>. QED
      BY <3>5
  <2>2. 0 \in 0..n
    BY <1>1
  <2>. QED
    BY <2>1, <2>2
<1>3. ASSUME NEW k \in 0..n, k \in T, k < n PROVE k + 1 \in T
  <2>1. k + 1 \in 0..n /\ (k + 1) - 1 = k /\ k + 1 # 0
    BY <1>1, <1>3
  <2>2. ASSUME NEW some \in SUBSET edits, Cardinality(some) = k + 1
        PROVE  \E q : InOrder(q, some)
    <3>1. EditsIn(some, length)
      BY FewerEdits
    <3>2. some # {}
      BY <2>1, <2>2, FS_EmptySet
    <3>3. \A fewer \in SUBSET some :
            Cardinality(fewer) = Cardinality(some) - 1 => \E q : InOrder(q, fewer)
      BY <1>3, <2>1, <2>2
    <3>. QED
      BY <3>1, <3>2, <3>3, OneMoreInOrder
  <2>. QED
    BY <2>1, <2>2
<1>4. 0..n \subseteq T
  <2>. HIDE DEF T, n
  <2>. QED
    BY <1>1, <1>2, <1>3, InductionUpTo
<1>5. n \in T
  <2>1. n \in 0..n
    BY <1>1
  <2>. QED
    BY <1>4, <2>1
<1>. QED
  BY <1>5

\* Sorted lists every diff, a slice behind the end of the one before it.
LEMMA SortedFacts ==
  ASSUME NEW length \in Nat, NEW edits, EditsIn(edits, length),
         NEW q, q = Sorted(edits), NEW n, n = Cardinality(edits)
  PROVE  /\ n \in Nat
         /\ q \in [1..n -> edits] /\ q \in Seq(edits) /\ Len(q) = n
         /\ \A i, j \in 1..n : i < j =>
              /\ q[i].slice.start < q[j].slice.start
              /\ q[i].slice.start + SizeOf(q[i].slice) <= q[j].slice.start
         /\ \A d \in edits : \E i \in 1..n : q[i] = d
<1>1. IsFiniteSet(edits) /\ n \in Nat
  BY FS_CardinalityType DEF EditsIn
<1>2. InOrder(q, edits)
  <2>1. \E p \in [1..Cardinality(edits) -> edits] :
          \A i, j \in DOMAIN p : i < j => p[i].slice.start < p[j].slice.start
    BY OrderExists DEF InOrder
  <2>. QED
    BY <2>1 DEF InOrder, Sorted
<1>3. q \in [1..n -> edits] /\ DOMAIN q = 1..n
  BY <1>2 DEF InOrder
<1>4. q \in Seq(edits) /\ Len(q) = n
  BY <1>1, <1>3
<1>5. ASSUME NEW i \in 1..n, NEW j \in 1..n, i < j
      PROVE  /\ q[i].slice.start < q[j].slice.start
             /\ q[i].slice.start + SizeOf(q[i].slice) <= q[j].slice.start
  <2>1. q[i] \in edits /\ q[j] \in edits
    BY <1>3
  <2>2. q[i].slice.start < q[j].slice.start
    BY <1>2, <1>3, <1>5 DEF InOrder
  <2>. QED
    BY <2>1, <2>2 DEF EditsIn
<1>6. \A d \in edits : \E i \in 1..n : q[i] = d
  <2>1. ASSUME NEW i \in 1..n, NEW j \in 1..n, q[i] = q[j] PROVE i = j
    <3>1. q[i].slice.start \in Nat /\ q[i].slice.start = q[j].slice.start
      BY <1>3, <2>1 DEF EditsIn
    <3>2. ~(q[i].slice.start < q[j].slice.start) /\ ~(q[j].slice.start < q[i].slice.start)
      BY <3>1
    <3>3. ~(i < j) /\ ~(j < i)
      BY <1>5, <3>2
    <3>. QED
      BY <1>1, <3>3
  <2>2. q \in Injection(1..n, edits)
    BY <1>3, <2>1 DEF Injection, IsInjective
  <2>3. IsFiniteSet(1..n) /\ Cardinality(1..n) = n
    BY <1>1, FS_Interval
  <2>4. q \in Surjection(1..n, edits)
    BY <1>1, <2>2, <2>3, FS_Injection
  <2>. QED
    BY <2>4 DEF Surjection
<1>. QED
  BY <1>1, <1>3, <1>4, <1>5, <1>6

-----------------------------------------------------------------------------
(* The splice of a commit, diff by diff. *)

\* The n diffs of edits, in the order of q, with texts over S like contents.
EditsOf(edits, q, n, contents, m, S) ==
  /\ contents \in Seq(S) /\ m = Len(contents)
  /\ EditsIn(edits, m)
  /\ \A d \in edits : d.replacement_text \in Seq(S)
  /\ q = Sorted(edits) /\ n = Cardinality(edits)

\* What EditsOf says of each diff, in the order of the splice.
LEMMA EditsFacts ==
  ASSUME NEW S, NEW contents, NEW m, NEW edits, NEW q, NEW n,
         EditsOf(edits, q, n, contents, m, S)
  PROVE  /\ contents \in Seq(S) /\ m \in Nat /\ m = Len(contents) /\ n \in Nat
         /\ q \in [1..n -> edits] /\ DOMAIN q = 1..n
         /\ \A k \in 1..n :
              /\ q[k] \in edits
              /\ q[k].slice.start \in Nat /\ SizeOf(q[k].slice) \in Nat
              /\ q[k].slice.start + SizeOf(q[k].slice) <= m /\ q[k].slice.start <= m
              /\ q[k].replacement_text \in Seq(S)
         /\ \A i, j \in 1..n : i < j =>
              /\ q[i].slice.start < q[j].slice.start
              /\ q[i].slice.start + SizeOf(q[i].slice) <= q[j].slice.start
         /\ \A d \in edits : \E i \in 1..n : q[i] = d
<1>1. /\ contents \in Seq(S) /\ m = Len(contents) /\ EditsIn(edits, m)
      /\ \A d \in edits : d.replacement_text \in Seq(S)
      /\ q = Sorted(edits) /\ n = Cardinality(edits)
  BY DEF EditsOf
<1>2. m \in Nat
  BY <1>1, LenProperties
<1>3. /\ n \in Nat /\ q \in [1..n -> edits]
      /\ \A i, j \in 1..n : i < j =>
           /\ q[i].slice.start < q[j].slice.start
           /\ q[i].slice.start + SizeOf(q[i].slice) <= q[j].slice.start
      /\ \A d \in edits : \E i \in 1..n : q[i] = d
  BY <1>1, <1>2, SortedFacts, SMTT(20)
<1>4. ASSUME NEW k \in 1..n
      PROVE  /\ q[k] \in edits
             /\ q[k].slice.start \in Nat /\ SizeOf(q[k].slice) \in Nat
             /\ q[k].slice.start + SizeOf(q[k].slice) <= m /\ q[k].slice.start <= m
             /\ q[k].replacement_text \in Seq(S)
  <2>1. q[k] \in edits
    BY <1>3
  <2>2. /\ q[k].slice.start \in Nat /\ SizeOf(q[k].slice) \in Nat
        /\ q[k].slice.start + SizeOf(q[k].slice) <= m
    BY <1>1, <2>1 DEF EditsIn
  <2>3. q[k].replacement_text \in Seq(S)
    BY <1>1, <2>1
  <2>. QED
    BY <1>2, <2>1, <2>2, <2>3
<1>5. DOMAIN q = 1..n
  BY <1>3
<1>. QED
  BY <1>1, <1>2, <1>3, <1>4, <1>5

\* An equation that the provers need not look into.
AreEqual(x, y) == x = y

\* h holds what is spliced after each diff.
Splices(h, contents, q, n, S) ==
  /\ h[0] = [text |-> << >>, cursor |-> 0]
  /\ \A k \in 1..n : h[k] = SpliceDiff(contents, h[k - 1], q[k])
  /\ \A k \in 0..n : h[k].text \in Seq(S) /\ h[k].cursor \in Nat

IsSpliceStep(next, spliced, diff, contents, m, S) ==
  /\ contents \in Seq(S) /\ m = Len(contents)
  /\ diff.slice.start \in Nat /\ SizeOf(diff.slice) \in Nat /\ diff.slice.start <= m
  /\ diff.replacement_text \in Seq(S)
  /\ spliced.text \in Seq(S) /\ spliced.cursor \in Nat
  /\ next = SpliceDiff(contents, spliced, diff)

\* SpliceDiff copies what is before the diff, and its text; the cursor is behind it.
LEMMA SpliceStep ==
  ASSUME NEW S, NEW contents, NEW m, NEW diff, NEW spliced, NEW next,
         IsSpliceStep(next, spliced, diff, contents, m, S)
  PROVE  /\ next \in [text : Seq(S), cursor : Nat]
         /\ AreEqual(next.text,
                     (spliced.text \o SubSeq(contents, spliced.cursor + 1, diff.slice.start))
                       \o diff.replacement_text)
         /\ next.cursor = diff.slice.start + SizeOf(diff.slice)
<1>1. PICK a, b, c, old, new :
        /\ a = diff.slice.start /\ b = SizeOf(diff.slice) /\ c = spliced.cursor
        /\ old = spliced.text /\ new = diff.replacement_text
  OBVIOUS
<1>2. a \in Nat /\ b \in Nat /\ a <= Len(contents) /\ new \in Seq(S) /\ contents \in Seq(S)
      /\ c \in Nat /\ old \in Seq(S)
  BY <1>1 DEF IsSpliceStep
<1>3. c + (a - c) = a /\ a + b \in Nat
  BY <1>2
<1>4. PICK piece : piece = SubSeq(contents, c + 1, a)
  OBVIOUS
<1>5. piece \in Seq(S)
  BY <1>2, <1>4, Cut
<1>6. Substr(contents, c, a - c) = piece
  BY <1>3, <1>4 DEF Substr
<1>7. next = [text |-> (old \o piece) \o new, cursor |-> a + b]
  BY <1>1, <1>6 DEF IsSpliceStep, SpliceDiff
<1>8. old \o piece \in Seq(S)
  BY <1>2, <1>5, ConcatProperties
<1>9. (old \o piece) \o new \in Seq(S)
  BY <1>2, <1>8, ConcatProperties
<1>10. PICK t, u : t = (old \o piece) \o new /\ u = a + b
  OBVIOUS
<1>11. next = [text |-> t, cursor |-> u] /\ t \in Seq(S) /\ u \in Nat
  BY <1>3, <1>7, <1>9, <1>10
<1>12. next \in [text : Seq(S), cursor : Nat] /\ next.text = t /\ next.cursor = u
  BY <1>11
<1>. QED
  BY <1>1, <1>4, <1>10, <1>12 DEF AreEqual

\* The fold of commit_diffs_to_disk.
LEMMA SpliceFold ==
  ASSUME NEW S, NEW contents, NEW m, NEW edits, NEW q, NEW n,
         EditsOf(edits, q, n, contents, m, S)
  PROVE  \E h : /\ Splices(h, contents, q, n, S)
                /\ AreEqual(Spliced(contents, edits),
                            h[n].text \o SubSeq(contents, h[n].cursor + 1, m))
<1>. DEFINE V == [text : Seq(S), cursor : Nat]
            base == [text |-> << >>, cursor |-> 0]
            step == [x \in (1..n) \X V |-> SpliceDiff(contents, x[2], q[x[1]])]
            F(g) == [s \in SUBSET DOMAIN q |->
                       IF s = {} THEN base
                       ELSE SpliceDiff(contents, g[s \ {Max(s)}], q[Max(s)])]
            f == CHOOSE g : g = F(g)
<1>1. n \in Nat /\ DOMAIN q = 1..n /\ q \in [1..n -> edits] /\ m \in Nat /\ m = Len(contents)
      /\ q = Sorted(edits)
  BY EditsFacts DEF EditsOf
<1>0. ASSUME NEW k \in 1..n, NEW y \in V
      PROVE  SpliceDiff(contents, y, q[k]) \in V
  <2>1. y.text \in Seq(S) /\ y.cursor \in Nat
    OBVIOUS
  <2>2. /\ contents \in Seq(S) /\ m = Len(contents)
        /\ q[k].slice.start \in Nat /\ SizeOf(q[k].slice) \in Nat /\ q[k].slice.start <= m
        /\ q[k].replacement_text \in Seq(S)
    <3>. HIDE DEF V, F, base, step, f
    <3>. QED
      BY EditsFacts
  <2>. HIDE DEF base, step, F, f
  <2>3. IsSpliceStep(SpliceDiff(contents, y, q[k]), y, q[k], contents, m, S)
    BY <2>1, <2>2 DEF IsSpliceStep
  <2>. QED
    BY <2>3, SpliceStep
<1>2. \A s \in SUBSET (1..n) : s # {} => Max(s) \in 1..n /\ s \ {Max(s)} \in SUBSET (1..n)
  <2>. SUFFICES ASSUME NEW s \in SUBSET (1..n), s # {}
                PROVE  Max(s) \in 1..n /\ s \ {Max(s)} \in SUBSET (1..n)
    OBVIOUS
  <2>1. s \subseteq 0..n
    BY <1>1
  <2>2. Max(s) \in s
    BY <1>1, <2>1, MaxProperties
  <2>. QED
    BY <2>2
<1>3. step \in [(1..n) \X V -> V] /\ base \in V
  <2>1. base \in V
    <3>1. << >> \in Seq(S)
      BY EmptySeq
    <3>. QED
      BY <3>1
  <2>2. ASSUME NEW x \in (1..n) \X V PROVE SpliceDiff(contents, x[2], q[x[1]]) \in V
    <3>1. x[2] \in V /\ x[1] \in 1..n
      OBVIOUS
    <3>. HIDE DEF V
    <3>. QED
      BY <1>0, <3>1
  <2>. QED
    BY <2>1, <2>2
<1>4. \E g : g = F(g)
  <2>1. PICK g : Folds(g, n, V, base, step)
    <3>. HIDE DEF V, step, base
    <3>. QED
      BY <1>1, <1>3, FoldExists
  <2>2. g \in [SUBSET (1..n) -> V]
    BY <2>1 DEF Folds
  <2>3. ASSUME NEW s \in SUBSET (1..n)
        PROVE  g[s] = IF s = {} THEN base
                      ELSE SpliceDiff(contents, g[s \ {Max(s)}], q[Max(s)])
    <3>1. g[s] = IF s = {} THEN base ELSE step[<<Max(s), g[s \ {Max(s)}]>>]
      <4>. HIDE DEF step, V, base
      <4>. QED
        BY <2>1 DEF Folds
    <3>2. CASE s # {}
      <4>1. PICK x : x = <<Max(s), g[s \ {Max(s)}]>>
        OBVIOUS
      <4>. HIDE DEF V
      <4>2. x \in (1..n) \X V /\ x[1] = Max(s) /\ x[2] = g[s \ {Max(s)}]
        BY <1>2, <2>2, <3>2, <4>1
      <4>3. step[x] = SpliceDiff(contents, x[2], q[x[1]])
        BY <4>2
      <4>. HIDE DEF step, base
      <4>. QED
        BY <3>1, <3>2, <4>1, <4>2, <4>3
    <3>. QED
      BY <3>1, <3>2
  <2>4. g = F(g)
    <3>. HIDE DEF base, V
    <3>1. DOMAIN F(g) = SUBSET (1..n) /\ F(g) = [s \in SUBSET (1..n) |-> F(g)[s]]
      BY <1>1
    <3>2. \A s \in SUBSET (1..n) : F(g)[s] = g[s]
      BY <1>1, <2>3
    <3>. HIDE DEF F
    <3>. QED
      BY <2>2, <3>1, <3>2
  <2>. QED
    BY <2>4
<1>5. f = F(f)
  <2>. HIDE DEF F
  <2>. QED
    BY <1>4
<1>6. ASSUME NEW s \in SUBSET (1..n)
      PROVE  f[s] = IF s = {} THEN base
                    ELSE SpliceDiff(contents, f[s \ {Max(s)}], q[Max(s)])
  <2>. HIDE DEF base
  <2>1. F(f)[s] = IF s = {} THEN base
                  ELSE SpliceDiff(contents, f[s \ {Max(s)}], q[Max(s)])
    <3>. HIDE DEF f
    <3>. QED
      BY <1>1
  <2>. HIDE DEF f, F
  <2>. QED
    BY <1>5, <2>1
<1>7. Spliced(contents, edits) = f[1..n].text \o SubSeq(contents, f[1..n].cursor + 1, m)
  BY <1>1 DEF Spliced, FoldLeft, MapThenFoldSet
<1>. HIDE DEF f, F
<1>. DEFINE h == [k \in 0..n |-> f[1..k]]
            T == {k \in 0..n : f[1..k] \in V}
<1>8. f[1..0] = base
  <2>1. 1..0 = {} /\ {} \in SUBSET (1..n)
    OBVIOUS
  <2>. HIDE DEF base
  <2>. QED
    BY <1>6, <2>1
<1>9. ASSUME NEW k \in 1..n
      PROVE  f[1..k] = SpliceDiff(contents, f[1..(k - 1)], q[k])
  <2>1. 1..k \in SUBSET (1..n) /\ 1..k # {} /\ (1..k) \ {k} = 1..(k - 1) /\ k \in Nat
    BY <1>1
  <2>2. Max(1..k) = k
    <3>1. 1 <= k
      BY <1>1
    <3>. QED
      BY <2>1, <3>1, MinMaxOfInterval
  <2>. HIDE DEF base
  <2>. QED
    BY <1>6, <2>1, <2>2
<1>10. 0..n \subseteq T
  <2>1. 0 \in T
    <3>1. 0 \in 0..n
      BY <1>1
    <3>. HIDE DEF V, base, step
    <3>. QED
      BY <1>3, <1>8, <3>1
  <2>2. ASSUME NEW k \in 0..n, k \in T, k < n PROVE k + 1 \in T
    <3>1. k + 1 \in 1..n /\ (k + 1) - 1 = k /\ k + 1 \in 0..n
      BY <1>1, <2>2
    <3>2. f[1..k] \in V
      BY <2>2
    <3>. HIDE DEF V
    <3>3. SpliceDiff(contents, f[1..k], q[k + 1]) \in V
      BY <1>0, <3>1, <3>2
    <3>4. f[1..(k + 1)] \in V
      BY <1>9, <3>1, <3>3
    <3>. QED
      BY <3>1, <3>4
  <2>. HIDE DEF T
  <2>. QED
    BY <1>1, <2>1, <2>2, InductionUpTo
<1>11. Splices(h, contents, q, n, S)
  <2>1. h[0] = base
    BY <1>1, <1>8
  <2>2. ASSUME NEW k \in 1..n PROVE h[k] = SpliceDiff(contents, h[k - 1], q[k])
    <3>1. k \in 0..n /\ k - 1 \in 0..n
      BY <1>1
    <3>2. h[k] = f[1..k] /\ h[k - 1] = f[1..(k - 1)]
      BY <3>1
    <3>. HIDE DEF h
    <3>. QED
      BY <1>9, <3>2
  <2>3. ASSUME NEW k \in 0..n PROVE h[k].text \in Seq(S) /\ h[k].cursor \in Nat
    <3>1. h[k] \in V
      BY <1>10
    <3>. HIDE DEF h
    <3>. QED
      BY <3>1
  <2>. HIDE DEF h
  <2>. QED
    BY <2>1, <2>2, <2>3 DEF Splices
<1>12. h[n] = f[1..n]
  <2>1. n \in 0..n
    BY <1>1
  <2>. QED
    BY <2>1
<1>. HIDE DEF h
<1>. QED
  BY <1>7, <1>11, <1>12 DEF AreEqual

-----------------------------------------------------------------------------
(* The previews, from the last diff to the first. *)

Preview(file, diff) == replace_text_in_file(file, diff.slice, diff.replacement_text)

\* What the fold from the right computes, for each set of diffs from the mth.
IsPreviewing(g, m, n, q, file) ==
  g = [s \in SUBSET (m..n) |->
         IF s = {} THEN file ELSE Preview(g[s \ {Min(s)}], q[Min(s)])]

\* The fold from the mth diff on gives the one from the diff before it.
LEMMA OneMorePreview ==
  ASSUME NEW n \in Nat, NEW q, NEW file, NEW k \in 1..n, NEW f, IsPreviewing(f, k + 1, n, q, file)
  PROVE  \E g : IsPreviewing(g, k, n, q, file)
<1>. DEFINE g == [s \in SUBSET (k..n) |->
                    IF k \notin s THEN f[s] ELSE Preview(f[s \ {k}], q[k])]
<1>1. k \in Nat /\ k <= n
  OBVIOUS
<1>2. f = [s \in SUBSET ((k + 1)..n) |->
             IF s = {} THEN file ELSE Preview(f[s \ {Min(s)}], q[Min(s)])]
  BY DEF IsPreviewing
<1>3. ASSUME NEW s \in SUBSET (k..n)
      PROVE  g[s] = IF s = {} THEN file ELSE Preview(g[s \ {Min(s)}], q[Min(s)])
  <2>0. s \subseteq Nat
    BY <1>1
  <2>1. CASE k \notin s
    <3>1. s \in SUBSET ((k + 1)..n) /\ g[s] = f[s]
      BY <1>1, <2>1
    <3>2. k \notin s \ {Min(s)} /\ s \ {Min(s)} \in SUBSET (k..n)
      BY <2>1
    <3>3. g[s \ {Min(s)}] = f[s \ {Min(s)}]
      BY <3>2
    <3>. HIDE DEF g
    <3>4. f[s] = IF s = {} THEN file ELSE Preview(f[s \ {Min(s)}], q[Min(s)])
      BY <1>2, <3>1
    <3>. QED
      BY <3>1, <3>3, <3>4
  <2>2. CASE k \in s
    <3>1. Min(s) = k
      <4>1. Min(s) \in s /\ Min(s) <= k
        BY <2>0, <2>2, MinProperties
      <4>2. Min(s) \in k..n
        BY <4>1
      <4>. QED
        BY <1>1, <4>1, <4>2
    <3>2. k \notin s \ {k} /\ s \ {k} \in SUBSET (k..n)
      OBVIOUS
    <3>3. g[s \ {k}] = f[s \ {k}] /\ g[s] = Preview(f[s \ {k}], q[k])
      BY <2>2, <3>2
    <3>. HIDE DEF g
    <3>. QED
      BY <2>2, <3>1, <3>3
  <2>. QED
    BY <2>1, <2>2
<1>4. g = [s \in SUBSET (k..n) |->
             IF s = {} THEN file ELSE Preview(g[s \ {Min(s)}], q[Min(s)])]
  <2>1. g = [s \in SUBSET (k..n) |-> g[s]]
    OBVIOUS
  <2>. HIDE DEF g
  <2>. QED
    BY <1>3, <2>1
<1>. HIDE DEF g
<1>. QED
  BY <1>4 DEF IsPreviewing

\* The recursion of FoldRight has a solution.
LEMMA PreviewingExists ==
  ASSUME NEW n \in Nat, NEW q, NEW file
  PROVE  \E g : IsPreviewing(g, 1, n, q, file)
<1>. DEFINE T == {j \in 0..n : \E g : IsPreviewing(g, (n + 1) - j, n, q, file)}
<1>1. 0 \in T
  <2>1. (n + 1) - 0 = n + 1 /\ 0 \in 0..n /\ (n + 1)..n = {}
    OBVIOUS
  <2>2. PICK g : g = [s \in SUBSET {} |-> file]
    OBVIOUS
  <2>3. \A s \in SUBSET {} : s = {}
    OBVIOUS
  <2>4. g = [s \in SUBSET {} |-> IF s = {} THEN file ELSE Preview(g[s \ {Min(s)}], q[Min(s)])]
    BY <2>2, <2>3
  <2>5. IsPreviewing(g, n + 1, n, q, file)
    BY <2>1, <2>4 DEF IsPreviewing
  <2>. QED
    BY <2>1, <2>5
<1>2. ASSUME NEW j \in 0..n, j \in T, j < n PROVE j + 1 \in T
  <2>1. PICK k : k = (n + 1) - (j + 1)
    OBVIOUS
  <2>2. k \in 1..n /\ k + 1 = (n + 1) - j /\ j + 1 \in 0..n
    BY <1>2, <2>1
  <2>3. \E f : IsPreviewing(f, k + 1, n, q, file)
    BY <1>2, <2>2
  <2>4. \E g : IsPreviewing(g, k, n, q, file)
    BY <2>2, <2>3, OneMorePreview
  <2>. QED
    BY <2>1, <2>2, <2>4
<1>3. 0..n \subseteq T
  <2>. HIDE DEF T
  <2>. QED
    BY <1>1, <1>2, InductionUpTo
<1>4. n \in T /\ (n + 1) - n = 1
  BY <1>3
<1>. QED
  BY <1>4

\* h holds what is shown when the diffs from the kth on are replaced.
Previews(h, q, n, file) ==
  /\ h[n + 1] = file
  /\ \A k \in 1..n : h[k] = Preview(h[k + 1], q[k])

\* The previews, as a sequence of files.
LEMMA PreviewFold ==
  ASSUME NEW n \in Nat, NEW q, DOMAIN q = 1..n, NEW file
  PROVE  \E h : /\ Previews(h, q, n, file)
                /\ FoldRight(LAMBDA diff, replaced :
                               replace_text_in_file(replaced, diff.slice, diff.replacement_text),
                             q, file) = h[1]
<1>. DEFINE F(g) == [s \in SUBSET (1..n) |->
                       IF s = {} THEN file ELSE Preview(g[s \ {Min(s)}], q[Min(s)])]
            f == CHOOSE g : g = F(g)
            h == [k \in 1..(n + 1) |-> f[k..n]]
<1>1. f = F(f)
  <2>1. \E g : g = F(g)
    <3>1. PICK g : IsPreviewing(g, 1, n, q, file)
      BY PreviewingExists
    <3>2. g = F(g)
      BY <3>1 DEF IsPreviewing
    <3>. HIDE DEF F
    <3>. QED
      BY <3>2
  <2>. HIDE DEF F
  <2>. QED
    BY <2>1
<1>2. ASSUME NEW s \in SUBSET (1..n)
      PROVE  f[s] = IF s = {} THEN file ELSE Preview(f[s \ {Min(s)}], q[Min(s)])
  <2>1. F(f)[s] = IF s = {} THEN file ELSE Preview(f[s \ {Min(s)}], q[Min(s)])
    <3>. HIDE DEF f
    <3>. QED
      OBVIOUS
  <2>. HIDE DEF f, F
  <2>. QED
    BY <1>1, <2>1
<1>3. FoldRight(LAMBDA diff, replaced :
                  replace_text_in_file(replaced, diff.slice, diff.replacement_text),
                q, file) = f[1..n]
  BY DEF FoldRight, MapThenFoldSet, Preview
<1>. HIDE DEF f, F
<1>4. h[n + 1] = file
  <2>1. n + 1 \in 1..(n + 1) /\ (n + 1)..n = {} /\ {} \in SUBSET (1..n)
    OBVIOUS
  <2>. QED
    BY <1>2, <2>1
<1>5. ASSUME NEW k \in 1..n PROVE h[k] = Preview(h[k + 1], q[k])
  <2>1. /\ k \in 1..(n + 1) /\ k + 1 \in 1..(n + 1) /\ k \in Nat /\ k <= n
        /\ k..n \in SUBSET (1..n) /\ k..n # {} /\ (k..n) \ {k} = (k + 1)..n
    OBVIOUS
  <2>2. h[k] = f[k..n] /\ h[k + 1] = f[(k + 1)..n]
    BY <2>1
  <2>3. Min(k..n) = k
    BY <2>1, MinMaxOfInterval
  <2>. HIDE DEF h
  <2>. QED
    BY <1>2, <2>1, <2>2, <2>3
<1>6. h[1] = f[1..n]
  <2>1. 1 \in 1..(n + 1)
    OBVIOUS
  <2>. QED
    BY <2>1
<1>. HIDE DEF h
<1>7. Previews(h, q, n, file)
  BY <1>4, <1>5 DEF Previews
<1>. QED
  BY <1>3, <1>6, <1>7

-----------------------------------------------------------------------------
(* The splice gives what the previews give. *)

\* What is behind the first bytes of a text.
Behind(text, n) == SubSeq(text, n + 1, Len(text))

\* What is behind some bytes of a text is a text.
LEMMA BehindIsText ==
  ASSUME NEW S, NEW text \in Seq(S), NEW n \in Nat
  PROVE  Behind(text, n) \in Seq(S)
<1>1. Len(text) \in Int /\ Len(text) <= Len(text)
  BY LenProperties
<1>. QED
  BY <1>1, Cut DEF Behind

\* What is behind the first of two texts joined.
LEMMA DropFront ==
  ASSUME NEW S, NEW p \in Seq(S), NEW r \in Seq(S)
  PROVE  Behind(p \o r, Len(p)) = r
<1>1. PICK l, k, y : l = Len(p) /\ k = Len(r) /\ y = p \o r
  OBVIOUS
<1>2. l \in Nat /\ k \in Nat /\ l + k \in Nat /\ l + k \in Int /\ l + k <= l + k
      /\ (l + k) - l = k
  BY <1>1, LenProperties
<1>3. /\ y \in Seq(S) /\ Len(y) = l + k
      /\ \A i \in 1..(l + k) : y[i] = IF i <= l THEN p[i] ELSE r[i - l]
  BY <1>1, ConcatProperties
<1>4. PICK z : z = SubSeq(y, l + 1, l + k)
  OBVIOUS
<1>5. /\ z \in Seq(S)
      /\ Len(z) = IF l < l + k THEN (l + k) - l ELSE 0
      /\ \A i \in 1..((l + k) - l) : z[i] = y[l + i]
  BY <1>2, <1>3, <1>4, Cut
<1>6. Len(z) = k
  BY <1>2, <1>5
<1>7. ASSUME NEW i \in 1..k PROVE z[i] = r[i]
  <2>1. l + i \in 1..(l + k) /\ ~(l + i <= l) /\ (l + i) - l = i
    BY <1>2
  <2>2. z[i] = y[l + i]
    BY <1>2, <1>5
  <2>. QED
    BY <1>3, <2>1, <2>2
<1>8. z = r
  BY <1>1, <1>5, <1>6, <1>7, SeqEqual
<1>. QED
  BY <1>1, <1>3, <1>4, <1>8 DEF Behind

AreTexts(p, q, r, s, S) == p \in Seq(S) /\ q \in Seq(S) /\ r \in Seq(S) /\ s \in Seq(S)

\* Four texts joined from the left and from the right are the same.
LEMMA JoinedFour ==
  ASSUME NEW S, NEW p, NEW q, NEW r, NEW s, AreTexts(p, q, r, s, S)
  PROVE  /\ (q \o r) \o s \in Seq(S)
         /\ AreEqual(((p \o q) \o r) \o s, p \o ((q \o r) \o s))
<1>0. p \in Seq(S) /\ q \in Seq(S) /\ r \in Seq(S) /\ s \in Seq(S)
  BY DEF AreTexts
<1>1. q \o r \in Seq(S)
  BY <1>0, ConcatProperties
<1>2. (q \o r) \o s \in Seq(S)
  BY <1>0, <1>1, ConcatProperties
<1>3. (p \o q) \o r = p \o (q \o r)
  BY <1>0, ConcatAssociative
<1>4. (p \o (q \o r)) \o s = p \o ((q \o r) \o s)
  BY <1>0, <1>1, ConcatAssociative, SMTT(20)
<1>. QED
  BY <1>2, <1>3, <1>4 DEF AreEqual

\* The replacement of a slice in x, of the bytes behind a cursor before it.
IsReplacement(x, slice, text, cursor, S) ==
  /\ x \in Seq(S) /\ text \in Seq(S)
  /\ slice.start \in Nat /\ SizeOf(slice) \in Nat /\ slice.start <= Len(x)
  /\ cursor \in Nat /\ cursor <= slice.start

\* What a replacement leaves of the text from a byte at or before it.
LEMMA CutOfReplaced ==
  ASSUME NEW S, NEW x, NEW slice, NEW text, NEW cursor,
         IsReplacement(x, slice, text, cursor, S)
  PROVE  AreEqual(Behind(ReplacedText(x, slice, text), cursor),
                  (SubSeq(x, cursor + 1, slice.start) \o text)
                    \o Behind(x, slice.start + SizeOf(slice)))
<1>0. PICK a, d : a = slice.start /\ d = slice.start + SizeOf(slice)
  OBVIOUS
<1>1. PICK front, piece, back :
        /\ front = SubSeq(x, 1, cursor)
        /\ piece = SubSeq(x, cursor + 1, a)
        /\ back = Behind(x, d)
  OBVIOUS
<1>2. /\ x \in Seq(S) /\ text \in Seq(S) /\ a \in Nat /\ d \in Nat /\ cursor \in Nat
      /\ a <= Len(x) /\ cursor <= a
  BY <1>0 DEF IsReplacement
<1>3. Len(x) \in Nat /\ cursor <= Len(x) /\ 0 + 1 = 1 /\ a \in Int /\ cursor \in Int
      /\ cursor - 0 = cursor
  BY <1>2, LenProperties
<1>4. front \in Seq(S) /\ Len(front) = cursor
  <2>1. /\ front \in Seq(S)
        /\ Len(front) = IF 0 < cursor THEN cursor - 0 ELSE 0
    BY <1>1, <1>2, <1>3, Cut
  <2>. QED
    BY <1>2, <1>3, <2>1
<1>5. piece \in Seq(S)
  BY <1>1, <1>2, <1>3, Cut
<1>6. back \in Seq(S)
  BY <1>1, <1>2, BehindIsText
<1>7. SubSeq(x, 1, a) = front \o piece
  <2>1. 1 \in 1..(Len(x) + 1) /\ cursor \in (1 - 1)..Len(x) /\ a \in cursor..Len(x)
    BY <1>2, <1>3
  <2>2. SubSeq(x, 1, cursor) \o SubSeq(x, cursor + 1, a) = SubSeq(x, 1, a)
    BY <1>2, <2>1, ConcatAdjacentSubSeq
  <2>. QED
    BY <1>1, <2>2
<1>8. PICK rest : rest = (piece \o text) \o back
  OBVIOUS
<1>9. rest \in Seq(S) /\ ((front \o piece) \o text) \o back = front \o rest
  <2>1. AreTexts(front, piece, text, back, S)
    BY <1>2, <1>4, <1>5, <1>6 DEF AreTexts
  <2>2. /\ (piece \o text) \o back \in Seq(S)
        /\ AreEqual(((front \o piece) \o text) \o back, front \o ((piece \o text) \o back))
    BY <2>1, JoinedFour
  <2>. QED
    BY <1>8, <2>2 DEF AreEqual
<1>10. ReplacedText(x, slice, text) = front \o rest
  <2>1. ReplacedText(x, slice, text) = (SubSeq(x, 1, a) \o text) \o back
    BY <1>0, <1>1 DEF ReplacedText, Behind
  <2>. QED
    BY <1>7, <1>9, <2>1
<1>11. Behind(front \o rest, Len(front)) = rest
  BY <1>4, <1>9, DropFront
<1>. QED
  BY <1>0, <1>1, <1>4, <1>8, <1>10, <1>11 DEF AreEqual

\* What a replacement leaves of the text before it.
LEMMA ReplacedKeeps ==
  ASSUME NEW S, NEW x, NEW slice, NEW text, NEW cursor,
         IsReplacement(x, slice, text, cursor, S),
         NEW y, AreEqual(y, ReplacedText(x, slice, text))
  PROVE  /\ y \in Seq(S) /\ Len(y) \in Nat /\ Len(y) >= slice.start + Len(text)
         /\ \A i \in 1..slice.start : y[i] = x[i]
<1>1. /\ x \in Seq(S) /\ text \in Seq(S)
      /\ slice.start \in Nat /\ SizeOf(slice) \in Nat /\ slice.start <= Len(x)
  BY DEF IsReplacement
<1>2. y = ReplacedText(x, slice, text)
  BY DEF AreEqual
<1>. QED
  BY <1>1, <1>2, ReplacedFacts

\* x starts with the first b bytes of c.
StartsAs(x, c, b, S) ==
  /\ x \in Seq(S) /\ c \in Seq(S) /\ b \in Nat /\ b <= Len(x) /\ b <= Len(c)
  /\ \A i \in 1..b : x[i] = c[i]

\* A slice of the bytes that two texts share is the same in both.
LEMMA SameCut ==
  ASSUME NEW S, NEW c, NEW b, NEW x, StartsAs(x, c, b, S),
         NEW a \in Nat, a <= b, NEW cursor \in Nat
  PROVE  AreEqual(SubSeq(x, cursor + 1, a), SubSeq(c, cursor + 1, a))
<1>1. /\ x \in Seq(S) /\ c \in Seq(S) /\ b \in Nat
      /\ b <= Len(x) /\ b <= Len(c) /\ a \in Int
  BY DEF StartsAs
<1>0. a <= Len(x) /\ a <= Len(c)
  <2>1. Len(x) \in Nat /\ Len(c) \in Nat
    BY <1>1, LenProperties
  <2>. QED
    BY <1>1, <2>1
<1>2. PICK p, q : p = SubSeq(x, cursor + 1, a) /\ q = SubSeq(c, cursor + 1, a)
  OBVIOUS
<1>3. PICK l : l = IF cursor < a THEN a - cursor ELSE 0
  OBVIOUS
<1>4. p \in Seq(S) /\ Len(p) = l /\ \A i \in 1..(a - cursor) : p[i] = x[cursor + i]
  BY <1>0, <1>1, <1>2, <1>3, Cut
<1>5. q \in Seq(S) /\ Len(q) = l /\ \A i \in 1..(a - cursor) : q[i] = c[cursor + i]
  BY <1>0, <1>1, <1>2, <1>3, Cut
<1>6. ASSUME NEW i \in 1..l PROVE p[i] = q[i]
  <2>1. i \in 1..(a - cursor) /\ cursor + i \in 1..b
    BY <1>1, <1>3
  <2>2. x[cursor + i] = c[cursor + i]
    BY <2>1 DEF StartsAs
  <2>. QED
    BY <1>4, <1>5, <2>1, <2>2
<1>7. p = q
  BY <1>4, <1>5, <1>6, SeqEqual
<1>. QED
  BY <1>2, <1>7 DEF AreEqual

\* Where the part that no replacement from the kth on has reached ends.
Reached(q, n, m, k) == IF k = n + 1 THEN m ELSE q[k].slice.start

\* What the previews from the last diff to the kth leave of the contents.
LEMMA PreviewsLeave ==
  ASSUME NEW S, NEW contents, NEW m, NEW edits, NEW q, NEW n,
         EditsOf(edits, q, n, contents, m, S),
         NEW file, file.contents = contents, NEW p, Previews(p, q, n, file)
  PROVE  /\ \A k \in 1..n :
              p[k].contents = ReplacedText(p[k + 1].contents, q[k].slice, q[k].replacement_text)
         /\ \A k \in 1..n : q[k].slice.start <= Reached(q, n, m, k + 1)
         /\ \A k \in 1..(n + 1) : StartsAs(p[k].contents, contents, Reached(q, n, m, k), S)
<1>1. n \in Nat /\ m \in Nat /\ contents \in Seq(S) /\ m = Len(contents)
  BY EditsFacts
<1>2. ASSUME NEW k \in 1..n
      PROVE  /\ q[k].slice.start \in Nat /\ SizeOf(q[k].slice) \in Nat
             /\ q[k].slice.start + SizeOf(q[k].slice) <= m /\ q[k].slice.start <= m
             /\ q[k].replacement_text \in Seq(S)
  BY EditsFacts
<1>3. ASSUME NEW k \in 1..n
      PROVE  p[k].contents =
               ReplacedText(p[k + 1].contents, q[k].slice, q[k].replacement_text)
  <2>1. p[k] = replace_text_in_file(p[k + 1], q[k].slice, q[k].replacement_text)
    BY DEF Previews, Preview
  <2>. QED
    BY <1>2, <2>1, ReplaceIs
<1>4. ASSUME NEW k \in 1..(n + 1) PROVE Reached(q, n, m, k) \in Nat
  BY <1>1, <1>2 DEF Reached
<1>5. ASSUME NEW k \in 1..n
      PROVE  /\ Reached(q, n, m, k) = q[k].slice.start
             /\ q[k].slice.start <= Reached(q, n, m, k + 1)
  <2>1. k # n + 1
    BY <1>1
  <2>2. CASE k = n
    BY <1>1, <1>2, <2>1, <2>2 DEF Reached
  <2>3. CASE k # n
    <3>1. k + 1 \in 1..n /\ k + 1 # n + 1 /\ k < k + 1
      BY <1>1, <2>3
    <3>2. q[k].slice.start < q[k + 1].slice.start
      BY <3>1, EditsFacts
    <3>3. q[k].slice.start \in Nat /\ q[k + 1].slice.start \in Nat
      BY <1>2, <3>1
    <3>. QED
      BY <2>1, <3>1, <3>2, <3>3 DEF Reached
  <2>. QED
    BY <2>2, <2>3
<1>. DEFINE T == {j \in 0..n :
                    StartsAs(p[(n + 1) - j].contents, contents, Reached(q, n, m, (n + 1) - j), S)}
<1>6. 0 \in T
  <2>1. (n + 1) - 0 = n + 1 /\ 0 \in 0..n
    BY <1>1
  <2>2. p[n + 1].contents = contents /\ Reached(q, n, m, n + 1) = m
    BY DEF Previews, Reached
  <2>3. StartsAs(contents, contents, m, S)
    BY <1>1 DEF StartsAs
  <2>. QED
    BY <2>1, <2>2, <2>3
<1>7. ASSUME NEW j \in 0..n, j \in T, j < n PROVE j + 1 \in T
  <2>1. PICK k : k = n - j
    OBVIOUS
  <2>2. k \in 1..n /\ (n + 1) - j = k + 1 /\ (n + 1) - (j + 1) = k /\ j + 1 \in 0..n
        /\ k + 1 \in 1..(n + 1)
    BY <1>1, <1>7, <2>1
  <2>3. PICK x, y, a, b, text :
          /\ x = p[k + 1].contents /\ y = p[k].contents /\ a = q[k].slice.start
          /\ b = Reached(q, n, m, k + 1) /\ text = q[k].replacement_text
    OBVIOUS
  <2>4. StartsAs(x, contents, b, S)
    BY <1>7, <2>2, <2>3
  <2>. HIDE DEF T
  <2>5. /\ x \in Seq(S) /\ b \in Nat /\ b <= Len(x) /\ b <= Len(contents)
        /\ \A i \in 1..b : x[i] = contents[i]
    BY <2>4 DEF StartsAs
  <2>6. a \in Nat /\ a <= b /\ text \in Seq(S)
    BY <1>2, <1>5, <2>2, <2>3
  <2>7. Len(x) \in Nat /\ Len(text) \in Nat
    BY <2>5, <2>6, LenProperties
  <2>8. a <= Len(x) /\ a <= Len(contents)
    BY <1>1, <2>5, <2>6, <2>7
  <2>9. /\ y \in Seq(S) /\ Len(y) \in Nat /\ Len(y) >= a + Len(text)
        /\ \A i \in 1..a : y[i] = x[i]
    <3>1. AreEqual(y, ReplacedText(x, q[k].slice, text))
      BY <1>3, <2>2, <2>3 DEF AreEqual
    <3>2. IsReplacement(x, q[k].slice, text, 0, S)
      <4>1. q[k].slice.start \in Nat /\ SizeOf(q[k].slice) \in Nat /\ q[k].slice.start <= Len(x)
        BY <1>2, <2>2, <2>3, <2>8
      <4>2. 0 \in Nat /\ 0 <= q[k].slice.start
        BY <4>1
      <4>. QED
        BY <2>5, <2>6, <4>1, <4>2 DEF IsReplacement
    <3>3. /\ y \in Seq(S) /\ Len(y) \in Nat /\ Len(y) >= q[k].slice.start + Len(text)
          /\ \A i \in 1..q[k].slice.start : y[i] = x[i]
      BY <3>1, <3>2, ReplacedKeeps
    <3>. QED
      BY <2>3, <3>3
  <2>10. a <= Len(y)
    BY <2>6, <2>7, <2>9
  <2>11. \A i \in 1..a : y[i] = contents[i]
    <3>1. \A i \in 1..a : i \in 1..b
      BY <2>5, <2>6
    <3>. QED
      BY <2>5, <2>9, <3>1
  <2>12. StartsAs(y, contents, a, S)
    BY <1>1, <2>6, <2>8, <2>9, <2>10, <2>11 DEF StartsAs
  <2>13. StartsAs(p[(n + 1) - (j + 1)].contents, contents, Reached(q, n, m, (n + 1) - (j + 1)), S)
    BY <1>5, <2>2, <2>3, <2>12
  <2>. QED
    BY <2>2, <2>13 DEF T
<1>8. 0..n \subseteq T
  <2>. HIDE DEF T
  <2>. QED
    BY <1>1, <1>6, <1>7, InductionUpTo
<1>9. ASSUME NEW k \in 1..(n + 1)
      PROVE  StartsAs(p[k].contents, contents, Reached(q, n, m, k), S)
  <2>1. PICK j : j = (n + 1) - k
    OBVIOUS
  <2>2. j \in 0..n /\ (n + 1) - j = k
    BY <1>1, <2>1
  <2>3. j \in T
    BY <1>8, <2>2
  <2>. QED
    BY <2>2, <2>3
<1>. QED
  BY <1>3, <1>5, <1>9

\* The splice stands where the diff before ends, or at the first byte.
LEMMA CursorBefore ==
  ASSUME NEW S, NEW contents, NEW m, NEW edits, NEW q, NEW n,
         EditsOf(edits, q, n, contents, m, S), NEW h, Splices(h, contents, q, n, S),
         NEW k \in 1..n
  PROVE  /\ IsSpliceStep(h[k], h[k - 1], q[k], contents, m, S)
         /\ h[k - 1].cursor <= q[k].slice.start
<1>1. n \in Nat /\ contents \in Seq(S) /\ m = Len(contents) /\ m \in Nat
  BY EditsFacts
<1>2. \A i \in 1..n :
        /\ q[i].slice.start \in Nat /\ SizeOf(q[i].slice) \in Nat /\ q[i].slice.start <= m
        /\ q[i].replacement_text \in Seq(S)
  BY EditsFacts
<1>3. ASSUME NEW i \in 1..n PROVE IsSpliceStep(h[i], h[i - 1], q[i], contents, m, S)
  <2>1. i - 1 \in 0..n
    BY <1>1
  <2>2. h[i - 1].text \in Seq(S) /\ h[i - 1].cursor \in Nat
        /\ h[i] = SpliceDiff(contents, h[i - 1], q[i])
    BY <2>1 DEF Splices
  <2>. QED
    BY <1>1, <1>2, <2>2 DEF IsSpliceStep
<1>4. h[k - 1].cursor <= q[k].slice.start
  <2>1. CASE k = 1
    <3>1. k - 1 = 0
      BY <2>1
    <3>2. h[0].cursor = 0
      BY DEF Splices
    <3>. QED
      BY <1>2, <3>1, <3>2
  <2>2. CASE k # 1
    <3>1. PICK j : j = k - 1
      OBVIOUS
    <3>2. j \in 1..n /\ j < k
      BY <1>1, <2>2, <3>1
    <3>3. h[j].cursor = q[j].slice.start + SizeOf(q[j].slice)
      BY <1>3, <3>2, SpliceStep
    <3>4. q[j].slice.start + SizeOf(q[j].slice) <= q[k].slice.start
      BY <3>2, EditsFacts
    <3>. QED
      BY <3>1, <3>3, <3>4
  <2>. QED
    BY <2>1, <2>2
<1>. QED
  BY <1>3, <1>4

\* What is spliced of the first k diffs, followed by what is behind the cursor in
\* the preview of the others, is the preview of all.
LEMMA SplicedOrPreviewed ==
  ASSUME NEW S, NEW contents, NEW m, NEW edits, NEW q, NEW n,
         EditsOf(edits, q, n, contents, m, S), NEW h, Splices(h, contents, q, n, S),
         NEW file, file.contents = contents, NEW p, Previews(p, q, n, file)
  PROVE  \A k \in 0..n :
           AreEqual(h[k].text \o Behind(p[k + 1].contents, h[k].cursor), p[1].contents)
<1>1. n \in Nat /\ contents \in Seq(S) /\ m = Len(contents) /\ m \in Nat
  BY EditsFacts
<1>2. \A k \in 1..(n + 1) : StartsAs(p[k].contents, contents, Reached(q, n, m, k), S)
  BY PreviewsLeave
<1>. DEFINE T == {k \in 0..n :
              AreEqual(h[k].text \o Behind(p[k + 1].contents, h[k].cursor), p[1].contents)}
<1>3. 0 \in T
  <2>1. h[0].text = << >> /\ h[0].cursor = 0 /\ 0 \in 0..n /\ 0 + 1 = 1 /\ 1 \in 1..(n + 1)
    BY <1>1 DEF Splices
  <2>2. PICK x : x = p[1].contents
    OBVIOUS
  <2>3. x \in Seq(S)
    BY <1>2, <2>1, <2>2 DEF StartsAs
  <2>4. Behind(x, 0) = x
    <3>1. SubSeq(x, 1, Len(x)) = x
      BY <2>3, SubSeqFull
    <3>. QED
      BY <2>1, <3>1 DEF Behind
  <2>5. << >> \o x = x
    BY <2>3, ConcatEmptySeq
  <2>6. AreEqual(h[0].text \o Behind(p[0 + 1].contents, h[0].cursor), p[1].contents)
    BY <2>1, <2>2, <2>4, <2>5 DEF AreEqual
  <2>. QED
    BY <2>1, <2>6
<1>4. ASSUME NEW j \in 0..n, j \in T, j < n PROVE j + 1 \in T
  <2>1. PICK k : k = j + 1
    OBVIOUS
  <2>2. k \in 1..n /\ k - 1 = j /\ k \in 0..n /\ k + 1 \in 1..(n + 1)
    BY <1>1, <1>4, <2>1
  <2>3. PICK x, y, a, d, text, t, c :
          /\ x = p[k + 1].contents /\ y = p[k].contents
          /\ a = q[k].slice.start /\ d = q[k].slice.start + SizeOf(q[k].slice)
          /\ text = q[k].replacement_text
          /\ t = h[j].text /\ c = h[j].cursor
    OBVIOUS
  <2>4. IsSpliceStep(h[k], h[j], q[k], contents, m, S) /\ c <= a
    BY <2>2, <2>3, CursorBefore
  <2>5. /\ t \in Seq(S) /\ c \in Nat /\ a \in Nat /\ SizeOf(q[k].slice) \in Nat
        /\ text \in Seq(S)
    BY <2>3, <2>4 DEF IsSpliceStep
  <2>6. PICK piece : piece = SubSeq(contents, c + 1, a)
    OBVIOUS
  <2>7. h[k].cursor = d /\ AreEqual(h[k].text, (t \o piece) \o text)
    <3>1. /\ h[k].cursor = q[k].slice.start + SizeOf(q[k].slice)
          /\ AreEqual(h[k].text, (h[j].text \o SubSeq(contents, h[j].cursor + 1, q[k].slice.start))
                                   \o q[k].replacement_text)
      BY <2>4, SpliceStep
    <3>. QED
      BY <2>3, <2>6, <3>1
  <2>8. StartsAs(x, contents, Reached(q, n, m, k + 1), S) /\ a <= Reached(q, n, m, k + 1)
    BY <2>2, <2>3, PreviewsLeave
  <2>9. AreEqual(SubSeq(x, c + 1, a), piece)
    <3>1. AreEqual(SubSeq(x, c + 1, a), SubSeq(contents, c + 1, a))
      BY <2>5, <2>8, SameCut
    <3>. QED
      BY <2>6, <3>1
  <2>10. x \in Seq(S) /\ a <= Len(x)
    <3>1. PICK b : b = Reached(q, n, m, k + 1)
      OBVIOUS
    <3>2. x \in Seq(S) /\ b \in Nat /\ b <= Len(x) /\ a <= b
      BY <2>8, <3>1 DEF StartsAs
    <3>3. Len(x) \in Nat
      BY <3>2, LenProperties
    <3>. QED
      BY <2>5, <3>2, <3>3
  <2>11. IsReplacement(x, q[k].slice, text, c, S)
    BY <2>3, <2>4, <2>5, <2>10 DEF IsReplacement
  <2>12. PICK rest : rest = Behind(x, d)
    OBVIOUS
  <2>13. AreEqual(Behind(y, c), (piece \o text) \o rest)
    <3>1. y = ReplacedText(x, q[k].slice, text)
      BY <2>2, <2>3, PreviewsLeave
    <3>2. AreEqual(Behind(ReplacedText(x, q[k].slice, text), c),
                   (SubSeq(x, c + 1, q[k].slice.start) \o text)
                     \o Behind(x, q[k].slice.start + SizeOf(q[k].slice)))
      BY <2>11, CutOfReplaced
    <3>3. AreEqual(Behind(y, c), (SubSeq(x, c + 1, a) \o text) \o rest)
      BY <2>3, <2>12, <3>1, <3>2
    <3>. QED
      BY <2>9, <3>3 DEF AreEqual
  <2>14. AreTexts(t, piece, text, rest, S)
    <3>1. piece \in Seq(S)
      <4>1. a <= Len(contents) /\ a \in Int
        BY <1>1, <2>3, <2>4 DEF IsSpliceStep
      <4>. QED
        BY <1>1, <2>5, <2>6, <4>1, Cut
    <3>2. rest \in Seq(S)
      <4>1. d \in Nat
        BY <2>3, <2>5
      <4>. QED
        BY <2>10, <2>12, <4>1, BehindIsText
    <3>. QED
      BY <2>5, <3>1, <3>2 DEF AreTexts
  <2>15. AreEqual(((t \o piece) \o text) \o rest, t \o ((piece \o text) \o rest))
    BY <2>14, JoinedFour
  <2>16. AreEqual(t \o Behind(y, c), p[1].contents)
    BY <1>4, <2>1, <2>2, <2>3
  <2>. HIDE DEF T
  <2>17. AreEqual(h[k].text \o Behind(x, d), p[1].contents)
    BY <2>7, <2>12, <2>13, <2>15, <2>16, Zenon DEF AreEqual
  <2>18. AreEqual(h[k].text \o Behind(p[k + 1].contents, h[k].cursor), p[1].contents)
    BY <2>3, <2>7, <2>17
  <2>. QED
    BY <2>1, <2>2, <2>18 DEF T
<1>5. 0..n \subseteq T
  <2>. HIDE DEF T
  <2>. QED
    BY <1>1, <1>3, <1>4, InductionUpTo
<1>. QED
  BY <1>5

\* What is shown when the diffs of q are replaced, from the last to the first.
PreviewedText(q, file) ==
  FoldRight(LAMBDA diff, replaced :
              replace_text_in_file(replaced, diff.slice, diff.replacement_text),
            q, file).contents

\* The splice of a commit, and the accepted diffs previewed from the last to
\* the first, give the same text.
LEMMA SplicedAsPreviewed ==
  ASSUME NEW S, NEW contents, NEW m, NEW edits, NEW q, NEW n,
         EditsOf(edits, q, n, contents, m, S),
         NEW file, AreEqual(file.contents, contents)
  PROVE  AreEqual(Spliced(contents, edits), PreviewedText(q, file))
<1>0. file.contents = contents
  BY DEF AreEqual
<1>1. n \in Nat /\ DOMAIN q = 1..n /\ m = Len(contents)
  BY EditsFacts
<1>2. PICK h : /\ Splices(h, contents, q, n, S)
               /\ AreEqual(Spliced(contents, edits),
                           h[n].text \o SubSeq(contents, h[n].cursor + 1, m))
  BY SpliceFold
<1>3. PICK p : /\ Previews(p, q, n, file)
               /\ FoldRight(LAMBDA diff, replaced :
                              replace_text_in_file(replaced, diff.slice, diff.replacement_text),
                            q, file) = p[1]
  BY <1>1, PreviewFold
<1>4. AreEqual(h[n].text \o Behind(p[n + 1].contents, h[n].cursor), p[1].contents)
  <2>1. n \in 0..n
    BY <1>1
  <2>. QED
    BY <1>0, <1>2, <1>3, <2>1, SplicedOrPreviewed
<1>5. p[n + 1].contents = contents
  BY <1>0, <1>3 DEF Previews
<1>6. PreviewedText(q, file) = p[1].contents
  BY <1>3 DEF PreviewedText
<1>. QED
  BY <1>1, <1>2, <1>4, <1>5, <1>6 DEF AreEqual, Behind

-----------------------------------------------------------------------------
(* The splice is the edit, byte by byte. *)

\* Where no diff starts nothing is inserted.
LEMMA NothingFlattened ==
  ASSUME NEW edits, NEW at, \A d \in edits : d.slice.start # at
  PROVE  AreEqual(Inserted(edits, at), << >>)
<1>1. {d.replacement_text : d \in {e \in edits : e.slice.start = at}} = {}
  OBVIOUS
<1>2. PICK z : z = SetToSeq({})
  OBVIOUS
<1>3. z \in [1..0 -> {}]
  <2>1. Cardinality({}) = 0
    BY FS_EmptySet
  <2>2. PICK y : y = [i \in 1..0 |-> i]
    OBVIOUS
  <2>3. y \in [1..0 -> {}] /\ IsInjective(y)
    BY <2>2 DEF IsInjective
  <2>. QED
    BY <1>2, <2>1, <2>3 DEF SetToSeq
<1>4. z = << >> /\ Len(z) = 0
  BY <1>3
<1>5. FlattenSeq(z) = z
  BY <1>4 DEF FlattenSeq
<1>. QED
  BY <1>1, <1>2, <1>4, <1>5 DEF Inserted, AreEqual

\* Where one diff starts its text is inserted.
LEMMA OneFlattened ==
  ASSUME NEW edits, NEW at, NEW diff \in edits, diff.slice.start = at,
         \A d \in edits : d.slice.start = at => d = diff
  PROVE  AreEqual(Inserted(edits, at), diff.replacement_text)
<1>0. PICK r : r = diff.replacement_text
  OBVIOUS
<1>1. {d.replacement_text : d \in {e \in edits : e.slice.start = at}} = {r}
  BY <1>0
<1>2. PICK z : z = SetToSeq({r})
  OBVIOUS
<1>3. z \in [1..1 -> {r}]
  <2>1. Cardinality({r}) = 1
    BY FS_Singleton
  <2>2. PICK y : y = [i \in 1..1 |-> r]
    OBVIOUS
  <2>3. y \in [1..1 -> {r}] /\ IsInjective(y)
    BY <2>2 DEF IsInjective
  <2>. QED
    BY <1>2, <2>1, <2>3 DEF SetToSeq
<1>4. PICK f : IsFlattening(f, 1, z) /\ FlattenSeq(z) = f[1]
  <2>1. PICK l, s : l = 1 /\ s = {r}
    OBVIOUS
  <2>2. l \in Nat \ {0} /\ z \in [1..l -> s]
    BY <1>3, <2>1
  <2>3. \E f : IsFlattening(f, l, z) /\ FlattenSeq(z) = f[l]
    BY <2>2, FlattenSeqIs
  <2>. QED
    BY <2>1, <2>3
<1>5. f[1] = z[1] /\ z[1] = r
  BY <1>3, <1>4 DEF IsFlattening
<1>. QED
  BY <1>0, <1>1, <1>2, <1>4, <1>5 DEF Inserted, AreEqual

\* One byte more behind a cursor.
LEMMA OneByteMore ==
  ASSUME NEW S, NEW c \in Seq(S), NEW i \in Nat, i < Len(c), NEW cursor \in Nat
  PROVE  AreEqual(SubSeq(c, cursor + 1, i + 1),
                  SubSeq(c, cursor + 1, i) \o (IF cursor > i THEN << >> ELSE <<c[i + 1]>>))
<1>0. Len(c) \in Nat /\ i + 1 \in Int /\ i \in Int /\ i + 1 <= Len(c) /\ i <= Len(c)
      /\ i + 1 \in 1..Len(c) /\ i + 1 \in Nat
  BY LenProperties
<1>1. PICK s, t, l : /\ s = SubSeq(c, cursor + 1, i) /\ t = SubSeq(c, cursor + 1, i + 1)
                     /\ l = IF cursor < i THEN i - cursor ELSE 0
  OBVIOUS
<1>2. s \in Seq(S) /\ Len(s) = l /\ \A j \in 1..(i - cursor) : s[j] = c[cursor + j]
  BY <1>0, <1>1, Cut
<1>3. /\ t \in Seq(S)
      /\ Len(t) = IF cursor < i + 1 THEN (i + 1) - cursor ELSE 0
      /\ \A j \in 1..((i + 1) - cursor) : t[j] = c[cursor + j]
  BY <1>0, <1>1, Cut
<1>4. CASE cursor > i
  <2>1. Len(t) = 0 /\ Len(s) = 0
    BY <1>0, <1>1, <1>2, <1>3, <1>4
  <2>2. t = << >> /\ s = << >>
    BY <1>2, <1>3, <2>1, EmptySeq
  <2>3. << >> \o << >> = << >>
    OBVIOUS
  <2>. QED
    BY <1>1, <1>4, <2>2, <2>3 DEF AreEqual
<1>5. CASE ~(cursor > i)
  <2>1. PICK b, one, u : b = c[i + 1] /\ one = <<b>> /\ u = s \o one
    OBVIOUS
  <2>2. b \in S
    BY <1>0, <2>1, ElementOfSeq
  <2>3. one \in Seq(S) /\ Len(one) = 1 /\ one[1] = b
    BY <2>1, <2>2
  <2>4. l \in Nat /\ l = i - cursor /\ l + 1 = (i + 1) - cursor
    BY <1>1, <1>5
  <2>5. /\ u \in Seq(S) /\ Len(u) = l + 1
        /\ \A j \in 1..(l + 1) : u[j] = IF j <= l THEN s[j] ELSE one[j - l]
    BY <1>2, <2>1, <2>3, ConcatProperties, SMTT(20)
  <2>6. Len(t) = l + 1
    BY <1>3, <1>5, <2>4
  <2>7. ASSUME NEW j \in 1..(l + 1) PROVE t[j] = u[j]
    <3>1. t[j] = c[cursor + j]
      BY <1>3, <2>4
    <3>2. CASE j <= l
      BY <1>2, <2>4, <2>5, <3>1, <3>2
    <3>3. CASE ~(j <= l)
      <4>1. j = l + 1 /\ j - l = 1 /\ cursor + j = i + 1
        BY <2>4, <3>3
      <4>2. u[j] = one[j - l]
        BY <2>5, <3>3
      <4>. QED
        BY <2>1, <2>3, <3>1, <4>1, <4>2
    <3>. QED
      BY <3>2, <3>3
  <2>8. t = u
    BY <1>3, <2>4, <2>5, <2>6, <2>7, SeqEqual
  <2>. QED
    BY <1>1, <1>5, <2>1, <2>8 DEF AreEqual
<1>. QED
  BY <1>4, <1>5

\* The diffs of edits are spliced into contents.
IsSplicing(h, edits, q, n, contents, m, S) ==
  EditsOf(edits, q, n, contents, m, S) /\ Splices(h, contents, q, n, S)

\* The first k diffs are those that start before a byte.
FirstBefore(q, n, k, at) == \A j \in 1..n : q[j].slice.start < at <=> j <= k

Covered(edits, at) == \E d \in edits : at \in Bytes(d.slice)

\* A byte is covered when the cursor is behind it.
LEMMA CoveredByLast ==
  ASSUME NEW S, NEW contents, NEW m, NEW edits, NEW q, NEW n, NEW h,
         IsSplicing(h, edits, q, n, contents, m, S),
         NEW i \in Nat, NEW k \in 0..n, FirstBefore(q, n, k, i + 1)
  PROVE  Covered(edits, i) <=> h[k].cursor > i
<1>1. n \in Nat
  BY EditsFacts DEF IsSplicing
<1>2. ASSUME NEW j \in 1..n
      PROVE  /\ q[j] \in edits /\ q[j].slice.start \in Nat /\ SizeOf(q[j].slice) \in Nat
             /\ h[j].cursor = q[j].slice.start + SizeOf(q[j].slice)
  <2>1. q[j] \in edits /\ q[j].slice.start \in Nat /\ SizeOf(q[j].slice) \in Nat
    BY EditsFacts DEF IsSplicing
  <2>2. IsSpliceStep(h[j], h[j - 1], q[j], contents, m, S)
    BY CursorBefore DEF IsSplicing
  <2>3. h[j].cursor = q[j].slice.start + SizeOf(q[j].slice)
    BY <2>2, SpliceStep
  <2>. QED
    BY <2>1, <2>3
<1>3. ASSUME NEW d \in edits, i \in Bytes(d.slice) PROVE h[k].cursor > i
  <2>1. PICK j \in 1..n : q[j] = d
    BY EditsFacts DEF IsSplicing
  <2>2. PICK a, b : a = q[j].slice.start /\ b = SizeOf(q[j].slice)
    OBVIOUS
  <2>3. a \in Nat /\ b \in Nat /\ a <= i /\ i <= a + b - 1
    BY <1>2, <1>3, <2>1, <2>2 DEF Bytes
  <2>4. a < i + 1 /\ i < a + b
    BY <2>3
  <2>5. j <= k
    BY <2>2, <2>4 DEF FirstBefore
  <2>6. j = k
    <3>. SUFFICES ASSUME j # k PROVE FALSE
      OBVIOUS
    <3>1. k \in 1..n /\ j < k
      BY <1>1, <2>5
    <3>2. a + b <= q[k].slice.start
      BY <2>2, <3>1, EditsFacts DEF IsSplicing
    <3>3. q[k].slice.start < i + 1
      <4>1. k <= k
        BY <3>1
      <4>. QED
        BY <3>1, <4>1 DEF FirstBefore
    <3>4. q[k].slice.start \in Nat
      BY <1>2, <3>1
    <3>. QED
      BY <2>3, <2>4, <3>2, <3>3, <3>4
  <2>7. h[j].cursor = a + b
    BY <1>2, <2>2
  <2>. QED
    BY <2>3, <2>4, <2>6, <2>7
<1>4. ASSUME h[k].cursor > i PROVE \E d \in edits : i \in Bytes(d.slice)
  <2>1. k # 0
    <3>1. h[0].cursor = 0
      BY DEF IsSplicing, Splices
    <3>. QED
      BY <1>4, <3>1
  <2>2. k \in 1..n /\ k <= k
    BY <1>1, <2>1
  <2>3. q[k].slice.start < i + 1
    BY <2>2 DEF FirstBefore
  <2>4. PICK a, b : a = q[k].slice.start /\ b = SizeOf(q[k].slice)
    OBVIOUS
  <2>5. a \in Nat /\ b \in Nat /\ a < i + 1 /\ a + b > i /\ q[k] \in edits
    BY <1>2, <1>4, <2>2, <2>3, <2>4
  <2>6. i \in a..(a + b - 1)
    BY <2>5
  <2>7. i \in Bytes(q[k].slice)
    BY <2>4, <2>6 DEF Bytes
  <2>. QED
    BY <2>5, <2>7
<1>. QED
  BY <1>3, <1>4 DEF Covered

\* What is spliced when the bytes before i are dealt with ...
SplicedTo(h, k, c, i) == h[k].text \o SubSeq(c, h[k].cursor + 1, i)

\* ... and the diff that starts there, if there is one.
LEMMA DiffAtByte ==
  ASSUME NEW S, NEW contents, NEW m, NEW edits, NEW q, NEW n, NEW h,
         IsSplicing(h, edits, q, n, contents, m, S),
         NEW i \in 0..m, NEW k \in 0..n, FirstBefore(q, n, k, i)
  PROVE  \E next \in 0..n :
           /\ FirstBefore(q, n, next, i + 1)
           /\ AreEqual(SplicedTo(h, next, contents, i),
                       SplicedTo(h, k, contents, i) \o Inserted(edits, i))
<1>1. n \in Nat /\ m \in Nat /\ contents \in Seq(S) /\ m = Len(contents) /\ EditsIn(edits, m)
  BY EditsFacts DEF IsSplicing, EditsOf
<1>2. ASSUME NEW j \in 1..n
      PROVE  /\ q[j] \in edits /\ q[j].slice.start \in Nat /\ SizeOf(q[j].slice) \in Nat
             /\ q[j].replacement_text \in Seq(S)
  BY EditsFacts DEF IsSplicing
<1>3. /\ h[k].text \in Seq(S) /\ h[k].cursor \in Nat
  BY DEF IsSplicing, Splices
<1>4. PICK old : old = SplicedTo(h, k, contents, i)
  OBVIOUS
<1>5. old \in Seq(S)
  <2>1. SubSeq(contents, h[k].cursor + 1, i) \in Seq(S)
    <3>1. i \in Int /\ i <= Len(contents)
      BY <1>1
    <3>. QED
      BY <1>1, <1>3, <3>1, Cut
  <2>. QED
    BY <1>3, <1>4, <2>1, ConcatProperties DEF SplicedTo
<1>6. CASE \E d \in edits : d.slice.start = i
  <2>1. PICK d \in edits : d.slice.start = i
    BY <1>6
  <2>2. PICK j \in 1..n : q[j] = d
    BY EditsFacts DEF IsSplicing
  <2>3. ~(q[j].slice.start < i)
    BY <1>2, <2>1, <2>2
  <2>4. ~(j <= k)
    BY <2>3 DEF FirstBefore
  <2>5. \A l \in 1..n : l < j => q[l].slice.start < i
    BY <2>1, <2>2, EditsFacts DEF IsSplicing
  <2>6. k = j - 1
    <3>1. j - 1 \in 0..n /\ (j - 1) + 1 = j /\ k <= j - 1
      BY <1>1, <2>4
    <3>2. CASE j = 1
      BY <3>1, <3>2
    <3>3. CASE j # 1
      <4>1. j - 1 \in 1..n /\ j - 1 < j
        BY <3>1, <3>3
      <4>2. j - 1 <= k
        BY <2>5, <4>1 DEF FirstBefore
      <4>. QED
        BY <1>1, <3>1, <4>2
    <3>. QED
      BY <3>2, <3>3
  <2>7. FirstBefore(q, n, j, i + 1)
    <3>1. ASSUME NEW l \in 1..n PROVE q[l].slice.start < i + 1 <=> l <= j
      <4>1. CASE l < j
        <5>1. q[l].slice.start < i /\ q[l].slice.start \in Nat
          BY <1>2, <2>5, <4>1
        <5>. QED
          BY <1>1, <4>1, <5>1
      <4>2. CASE l = j
        <5>1. q[l].slice.start = i
          BY <2>1, <2>2, <4>2
        <5>. QED
          BY <1>1, <4>2, <5>1
      <4>3. CASE j < l
        <5>1. i < q[l].slice.start /\ q[l].slice.start \in Nat
          BY <1>2, <2>1, <2>2, <4>3, EditsFacts DEF IsSplicing
        <5>. QED
          BY <1>1, <4>3, <5>1
      <4>. QED
        BY <1>1, <4>1, <4>2, <4>3
    <3>. QED
      BY <3>1 DEF FirstBefore
  <2>8. AreEqual(Inserted(edits, i), q[j].replacement_text)
    <3>1. \A e \in edits : e.slice.start = i => e = d
      BY <1>1, <2>1 DEF EditsIn
    <3>. QED
      BY <2>1, <2>2, <3>1, OneFlattened
  <2>9. IsSpliceStep(h[j], h[k], q[j], contents, m, S)
    BY <2>6, CursorBefore DEF IsSplicing
  <2>10. /\ AreEqual(h[j].text,
                     (h[k].text \o SubSeq(contents, h[k].cursor + 1, q[j].slice.start))
                       \o q[j].replacement_text)
         /\ h[j].cursor = q[j].slice.start + SizeOf(q[j].slice)
    BY <2>9, SpliceStep
  <2>11. AreEqual(h[j].text, old \o q[j].replacement_text)
    BY <1>4, <2>1, <2>2, <2>10 DEF SplicedTo
  <2>12. SubSeq(contents, h[j].cursor + 1, i) = << >>
    <3>1. PICK s, c : s = SubSeq(contents, c + 1, i) /\ c = h[j].cursor
      OBVIOUS
    <3>2. c \in Nat /\ i <= c
      BY <1>2, <2>1, <2>2, <2>10, <3>1
    <3>3. i \in Int /\ i <= Len(contents) /\ ~(c < i)
      BY <1>1, <3>2
    <3>4. s \in Seq(S) /\ Len(s) = IF c < i THEN i - c ELSE 0
      BY <1>1, <3>1, <3>2, <3>3, Cut, SMTT(20)
    <3>5. s = << >>
      BY <3>3, <3>4, EmptySeq
    <3>. QED
      BY <3>1, <3>5
  <2>13. AreEqual(h[j].text \o << >>, h[j].text)
    <3>1. h[j].text \in Seq(S)
      BY DEF IsSplicing, Splices
    <3>. QED
      BY <3>1, ConcatEmptySeq DEF AreEqual
  <2>14. AreEqual(SplicedTo(h, j, contents, i), old \o Inserted(edits, i))
    BY <2>8, <2>11, <2>12, <2>13 DEF AreEqual, SplicedTo
  <2>15. j \in 0..n
    BY <1>1
  <2>. QED
    BY <1>4, <2>7, <2>14, <2>15
<1>7. CASE \A d \in edits : d.slice.start # i
  <2>1. FirstBefore(q, n, k, i + 1)
    <3>1. ASSUME NEW j \in 1..n PROVE q[j].slice.start < i + 1 <=> q[j].slice.start < i
      <4>1. q[j].slice.start \in Nat /\ q[j].slice.start # i
        BY <1>2, <1>7
      <4>. QED
        BY <1>1, <4>1
    <3>. QED
      BY <3>1 DEF FirstBefore
  <2>2. AreEqual(Inserted(edits, i), << >>)
    BY <1>7, NothingFlattened
  <2>3. old \o << >> = old
    BY <1>5, ConcatEmptySeq
  <2>4. AreEqual(SplicedTo(h, k, contents, i), old \o Inserted(edits, i))
    BY <1>4, <2>2, <2>3 DEF AreEqual
  <2>. QED
    BY <1>4, <2>1, <2>4
<1>. QED
  BY <1>6, <1>7

\* The edited text as a sequence of parts: for each byte what is inserted
\* before it, and the byte unless it is covered; and what is appended.
Part(contents, edits, i) ==
  Inserted(edits, i - 1) \o
    IF i > Len(contents) \/ \E d \in edits : i - 1 \in Bytes(d.slice) THEN << >> ELSE <<contents[i]>>

\* The parts before byte i are what is spliced.
LEMMA OnePartMore ==
  ASSUME NEW S, NEW contents, NEW m, NEW edits, NEW q, NEW n, NEW h,
         IsSplicing(h, edits, q, n, contents, m, S),
         NEW i \in 0..m, NEW k \in 0..n, FirstBefore(q, n, k, i),
         NEW old, AreEqual(old, SplicedTo(h, k, contents, i))
  PROVE  /\ Part(contents, edits, i + 1) \in Seq(S)
         /\ \E next \in 0..n :
              /\ FirstBefore(q, n, next, i + 1)
              /\ AreEqual(old \o Part(contents, edits, i + 1),
                          SplicedTo(h, next, contents, IF i = m THEN m ELSE i + 1))
<1>1. n \in Nat /\ m \in Nat /\ contents \in Seq(S) /\ m = Len(contents) /\ i \in Nat /\ i \in Int
  BY EditsFacts DEF IsSplicing
<1>2. PICK next \in 0..n :
        /\ FirstBefore(q, n, next, i + 1)
        /\ AreEqual(SplicedTo(h, next, contents, i),
                    SplicedTo(h, k, contents, i) \o Inserted(edits, i))
  BY DiffAtByte
<1>3. PICK text, c, piece, ins, own :
        /\ text = h[next].text /\ c = h[next].cursor
        /\ piece = SubSeq(contents, c + 1, i)
        /\ ins = Inserted(edits, i)
        /\ own = IF i = m \/ c > i THEN << >> ELSE <<contents[i + 1]>>
  OBVIOUS
<1>4. text \in Seq(S) /\ c \in Nat
  BY <1>3 DEF IsSplicing, Splices
<1>5. own \in Seq(S)
  <2>1. CASE i = m \/ c > i
    BY <1>3, <2>1, EmptySeq
  <2>2. CASE ~(i = m \/ c > i)
    <3>1. i + 1 \in 1..Len(contents)
      BY <1>1, <2>2
    <3>2. PICK b : b = contents[i + 1]
      OBVIOUS
    <3>3. b \in S
      BY <1>1, <3>1, <3>2, ElementOfSeq
    <3>. QED
      BY <1>3, <2>2, <3>2, <3>3
  <2>. QED
    BY <2>1, <2>2
<1>6. piece \in Seq(S)
  <2>1. i <= Len(contents)
    BY <1>1
  <2>. QED
    BY <1>1, <1>3, <1>4, <2>1, Cut
<1>7. ins \in Seq(S)
  <2>1. CASE \E d \in edits : d.slice.start = i
    <3>1. PICK d \in edits : d.slice.start = i
      BY <2>1
    <3>2. EditsIn(edits, m) /\ d.replacement_text \in Seq(S)
      BY DEF IsSplicing, EditsOf
    <3>3. \A e \in edits : e.slice.start = i => e = d
      BY <3>1, <3>2 DEF EditsIn
    <3>4. AreEqual(Inserted(edits, i), d.replacement_text)
      BY <3>1, <3>3, OneFlattened
    <3>. QED
      BY <1>3, <3>2, <3>4 DEF AreEqual
  <2>2. CASE \A d \in edits : d.slice.start # i
    <3>1. AreEqual(Inserted(edits, i), << >>)
      BY <2>2, NothingFlattened
    <3>2. << >> \in Seq(S)
      BY EmptySeq
    <3>. QED
      BY <1>3, <3>1, <3>2 DEF AreEqual
  <2>. QED
    BY <2>1, <2>2
<1>8. AreEqual(Part(contents, edits, i + 1), ins \o own)
  <2>1. (i + 1) - 1 = i /\ (i + 1 > m <=> i = m)
    BY <1>1
  <2>2. (\E d \in edits : i \in Bytes(d.slice)) <=> c > i
    <3>1. Covered(edits, i) <=> h[next].cursor > i
      BY <1>1, <1>2, CoveredByLast
    <3>. QED
      BY <1>3, <3>1 DEF Covered
  <2>. QED
    BY <1>1, <1>3, <2>1, <2>2 DEF Part, AreEqual
<1>9. Part(contents, edits, i + 1) \in Seq(S)
  <2>1. ins \o own \in Seq(S)
    BY <1>5, <1>7, ConcatProperties
  <2>. QED
    BY <1>8, <2>1 DEF AreEqual
<1>10. old \in Seq(S)
  <2>1. h[k].text \in Seq(S) /\ h[k].cursor \in Nat
    BY DEF IsSplicing, Splices
  <2>2. i <= Len(contents)
    BY <1>1
  <2>3. SubSeq(contents, h[k].cursor + 1, i) \in Seq(S)
    BY <1>1, <2>1, <2>2, Cut
  <2>4. h[k].text \o SubSeq(contents, h[k].cursor + 1, i) \in Seq(S)
    BY <2>1, <2>3, ConcatProperties
  <2>. QED
    BY <2>4 DEF AreEqual, SplicedTo
<1>11. AreEqual(old \o ins, text \o piece)
  BY <1>2, <1>3 DEF AreEqual, SplicedTo
<1>12. AreEqual(old \o (ins \o own), (text \o piece) \o own)
  <2>1. old \o (ins \o own) = (old \o ins) \o own
    BY <1>5, <1>7, <1>10, ConcatAssociative, SMTT(20)
  <2>. QED
    BY <1>11, <2>1 DEF AreEqual
<1>13. AreEqual((text \o piece) \o own, text \o (piece \o own))
  BY <1>4, <1>5, <1>6, ConcatAssociative DEF AreEqual
<1>14. AreEqual(piece \o own, SubSeq(contents, c + 1, IF i = m THEN m ELSE i + 1))
  <2>1. CASE i = m
    <3>1. own = << >>
      BY <1>3, <2>1
    <3>2. piece \o << >> = piece
      BY <1>6, ConcatEmptySeq
    <3>. QED
      BY <1>3, <2>1, <3>1, <3>2 DEF AreEqual
  <2>2. CASE i # m
    <3>1. i < Len(contents)
      BY <1>1, <2>2
    <3>2. AreEqual(SubSeq(contents, c + 1, i + 1),
                   SubSeq(contents, c + 1, i) \o
                     (IF c > i THEN << >> ELSE <<contents[i + 1]>>))
      BY <1>1, <1>4, <3>1, OneByteMore
    <3>. QED
      BY <1>3, <2>2, <3>2 DEF AreEqual
  <2>. QED
    BY <2>1, <2>2
<1>15. AreEqual(old \o Part(contents, edits, i + 1),
                SplicedTo(h, next, contents, IF i = m THEN m ELSE i + 1))
  <2>1. PICK e : e = IF i = m THEN m ELSE i + 1
    OBVIOUS
  <2>2. AreEqual(old \o Part(contents, edits, i + 1), text \o SubSeq(contents, c + 1, e))
    BY <1>8, <1>12, <1>13, <1>14, <2>1 DEF AreEqual
  <2>. QED
    BY <1>3, <2>1, <2>2 DEF SplicedTo
<1>. QED
  BY <1>2, <1>9, <1>15

\* What a commit writes is the file with each accepted diff in its place, and
\* with nothing else changed.
LEMMA SplicedIsEdited ==
  ASSUME NEW S, NEW contents, NEW m, NEW edits, NEW q, NEW n,
         EditsOf(edits, q, n, contents, m, S)
  PROVE  AreEqual(Edited(contents, edits), Spliced(contents, edits))
<1>1. n \in Nat /\ m \in Nat /\ contents \in Seq(S) /\ m = Len(contents)
  BY EditsFacts
<1>2. PICK h : /\ Splices(h, contents, q, n, S)
               /\ AreEqual(Spliced(contents, edits),
                           h[n].text \o SubSeq(contents, h[n].cursor + 1, m))
  BY SpliceFold
<1>3. IsSplicing(h, edits, q, n, contents, m, S)
  BY <1>2 DEF IsSplicing
<1>4. ASSUME NEW j \in 1..n PROVE q[j].slice.start \in Nat /\ q[j].slice.start <= m
  BY EditsFacts
<1>5. PICK w, parts : w = m + 1 /\ parts = [i \in 1..w |-> Part(contents, edits, i)]
  OBVIOUS
<1>6. AreEqual(Edited(contents, edits), FlattenSeq(parts))
  BY <1>1, <1>5 DEF Edited, Part, AreEqual
\* Before the first byte nothing is spliced.
<1>7. FirstBefore(q, n, 0, 0) /\ AreEqual(<< >>, SplicedTo(h, 0, contents, 0))
  <2>1. h[0].text = << >> /\ h[0].cursor = 0
    BY <1>2 DEF Splices
  <2>2. SubSeq(contents, 0 + 1, 0) = << >>
    <3>1. PICK s, z : s = SubSeq(contents, z + 1, z) /\ z = 0
      OBVIOUS
    <3>2. z \in Nat /\ z \in Int /\ z <= Len(contents) /\ ~(z < z)
      BY <1>1, <3>1
    <3>3. s \in Seq(S) /\ Len(s) = IF z < z THEN z - z ELSE 0
      BY <1>1, <3>1, <3>2, Cut
    <3>4. s = << >>
      BY <3>2, <3>3, EmptySeq
    <3>. QED
      BY <3>1, <3>4
  <2>3. << >> \o << >> = << >>
    OBVIOUS
  <2>4. FirstBefore(q, n, 0, 0)
    <3>1. ASSUME NEW j \in 1..n PROVE ~(q[j].slice.start < 0) /\ ~(j <= 0)
      BY <1>4
    <3>. QED
      BY <3>1 DEF FirstBefore
  <2>. QED
    BY <2>1, <2>2, <2>3, <2>4 DEF AreEqual, SplicedTo
<1>8. PICK f : IsFlattening(f, w, parts) /\ FlattenSeq(parts) = f[w]
  <2>1. PICK all : all = {Part(contents, edits, i) : i \in 1..w}
    OBVIOUS
  <2>2. w \in Nat \ {0} /\ parts \in [1..w -> all]
    BY <1>1, <1>5, <2>1
  <2>. QED
    BY <2>2, FlattenSeqIs
<1>9. /\ f[1] = Part(contents, edits, 1)
      /\ \A i \in 1..w : i # 1 => f[i] = f[i - 1] \o Part(contents, edits, i)
  <2>1. f = [i \in 1..w |-> IF i = 1 THEN parts[i] ELSE f[i - 1] \o parts[i]]
    BY <1>8 DEF IsFlattening
  <2>2. ASSUME NEW i \in 1..w PROVE parts[i] = Part(contents, edits, i)
    BY <1>5
  <2>3. 1 \in 1..w
    BY <1>1, <1>5
  <2>. QED
    BY <2>1, <2>2, <2>3
<1>. DEFINE T == {i \in 1..w : \E k \in 0..n :
                    /\ FirstBefore(q, n, k, i)
                    /\ AreEqual(f[i], SplicedTo(h, k, contents, IF i = w THEN m ELSE i))}
<1>10. 1 \in T
  <2>0. 0 \in 0..m /\ 0 \in 0..n /\ 0 + 1 = 1 /\ 1 \in 1..w /\ (0 = m <=> 1 = w)
    BY <1>1, <1>5
  <2>1. /\ Part(contents, edits, 0 + 1) \in Seq(S)
        /\ \E next \in 0..n :
             /\ FirstBefore(q, n, next, 0 + 1)
             /\ AreEqual(<< >> \o Part(contents, edits, 0 + 1),
                         SplicedTo(h, next, contents, IF 0 = m THEN m ELSE 0 + 1))
    BY <1>3, <1>7, <2>0, OnePartMore
  <2>2. << >> \o Part(contents, edits, 1) = f[1]
    <3>1. PICK p : p = Part(contents, edits, 1)
      OBVIOUS
    <3>2. p \in Seq(S)
      BY <2>0, <2>1, <3>1
    <3>3. << >> \o p = p
      BY <3>2, ConcatEmptySeq
    <3>. QED
      BY <1>9, <3>1, <3>3
  <2>. QED
    BY <2>0, <2>1, <2>2
<1>11. ASSUME NEW i \in 1..w, i \in T, i < w PROVE i + 1 \in T
  <2>1. i \in 0..m /\ i # w /\ i + 1 \in 1..w /\ i + 1 # 1 /\ (i + 1) - 1 = i
        /\ (i = m <=> i + 1 = w)
    BY <1>1, <1>5, <1>11
  <2>2. PICK k \in 0..n : FirstBefore(q, n, k, i) /\ AreEqual(f[i], SplicedTo(h, k, contents, i))
    BY <1>11, <2>1
  <2>. HIDE DEF T
  <2>3. \E next \in 0..n :
          /\ FirstBefore(q, n, next, i + 1)
          /\ AreEqual(f[i] \o Part(contents, edits, i + 1),
                      SplicedTo(h, next, contents, IF i = m THEN m ELSE i + 1))
    BY <1>3, <2>1, <2>2, OnePartMore
  <2>4. f[i + 1] = f[i] \o Part(contents, edits, i + 1)
    BY <1>9, <2>1
  <2>. QED
    BY <2>1, <2>3, <2>4 DEF T
<1>12. w \in T
  <2>1. w \in Nat /\ 1 \in Nat /\ w \in 1..w
    BY <1>1, <1>5
  <2>. HIDE DEF T
  <2>2. 1..w \subseteq T
    BY <1>10, <1>11, <2>1, InductionUpTo
  <2>. QED
    BY <2>1, <2>2
<1>13. PICK k \in 0..n : FirstBefore(q, n, k, w) /\ AreEqual(f[w], SplicedTo(h, k, contents, m))
  BY <1>12
<1>14. k = n
  <2>1. CASE n = 0
    BY <1>1, <2>1
  <2>2. CASE n # 0
    <3>1. n \in 1..n
      BY <1>1, <2>2
    <3>2. q[n].slice.start < w
      BY <1>1, <1>4, <1>5, <3>1
    <3>3. n <= k
      BY <1>13, <3>1, <3>2 DEF FirstBefore
    <3>. QED
      BY <1>1, <3>3
  <2>. QED
    BY <2>1, <2>2
<1>. QED
  BY <1>2, <1>6, <1>8, <1>13, <1>14 DEF AreEqual, SplicedTo

-----------------------------------------------------------------------------
(* Files that are printed as they are. *)

PlainByte == {"a", "newline", "0xFF"}

\* A plain text holds none of the bytes that fprintf takes for something else.
LEMMA PlainText ==
  ASSUME NEW text, Plain(text), NEW S, text \in Seq(S)
  PROVE  text \in Seq(PlainByte)
<1>1. DOMAIN text = 1..Len(text) /\ Len(text) \in Nat /\ text = [i \in 1..Len(text) |-> text[i]]
  BY LenProperties
<1>2. \A i \in 1..Len(text) : text[i] \in PlainByte
  BY <1>1 DEF Plain, PlainByte
<1>3. PICK n : n = Len(text)
  OBVIOUS
<1>4. text \in [1..n -> PlainByte] /\ n \in Nat
  BY <1>1, <1>2, <1>3
<1>. QED
  BY <1>4

\* A plain text has no NUL that would end it.
LEMMA PlainIsFormat ==
  ASSUME NEW text \in Seq(PlainByte)
  PROVE  Format(text) = text
<1>1. \A i \in 1..Len(text) : text[i] # "nul"
  BY ElementOfSeq DEF PlainByte
<1>2. SelectInSeq(text, LAMBDA byte : byte = "nul") = 0
  BY <1>1 DEF SelectInSeq
<1>. QED
  BY <1>2 DEF Format

Converted(text, k) == [text |-> SubSeq(text, 1, k), percent |-> FALSE]

\* fprintf prints one more byte of it as it is.
LEMMA OneConverted ==
  ASSUME NEW text \in Seq(PlainByte), NEW k \in Nat, k < Len(text)
  PROVE  Conversion(Converted(text, k), text[k + 1]) = Converted(text, k + 1)
<1>1. PICK s, t, b : s = SubSeq(text, 1, k) /\ t = SubSeq(text, 1, k + 1) /\ b = text[k + 1]
  OBVIOUS
<1>2. b \in PlainByte
  <2>1. k + 1 \in 1..Len(text)
    BY LenProperties
  <2>. QED
    BY <1>1, <2>1, ElementOfSeq
<1>3. b # "percent"
  BY <1>2 DEF PlainByte
<1>4. t = Append(s, b)
  <2>1. 0 \in Nat /\ 0 + 1 = 1 /\ ~(0 > k)
    OBVIOUS
  <2>2. AreEqual(SubSeq(text, 0 + 1, k + 1),
                 SubSeq(text, 0 + 1, k) \o (IF 0 > k THEN << >> ELSE <<text[k + 1]>>))
    BY <2>1, OneByteMore
  <2>3. t = s \o <<b>>
    BY <1>1, <2>1, <2>2 DEF AreEqual
  <2>4. s \in Seq(PlainByte)
    <3>1. k \in Int /\ k <= Len(text)
      BY LenProperties
    <3>. QED
      BY <1>1, <2>1, <3>1, Cut
  <2>5. Append(s, b) = s \o <<b>>
    BY <1>2, <2>4, AppendIsConcat
  <2>. QED
    BY <2>3, <2>5
<1>5. PICK x : x = [text |-> s, percent |-> FALSE]
  OBVIOUS
<1>6. ~x.percent /\ x.text = s
  BY <1>5
<1>7. Conversion(x, b) = [x EXCEPT !.text = Append(x.text, b)]
  BY <1>3, <1>6 DEF Conversion
<1>8. Conversion(x, b) = [text |-> t, percent |-> FALSE]
  BY <1>4, <1>5, <1>6, <1>7
<1>. QED
  BY <1>1, <1>5, <1>8 DEF Converted

Conversions == [text : Seq(Char), percent : BOOLEAN]

\* A conversion prints a byte, or garbage, and waits for another or does not.
LEMMA ConversionStays ==
  ASSUME NEW x \in Conversions, NEW byte \in Char
  PROVE  Conversion(x, byte) \in Conversions
<1>1. PICK t, p : t = x.text /\ p = x.percent
  OBVIOUS
<1>2. t \in Seq(Char) /\ p \in BOOLEAN /\ x = [text |-> t, percent |-> p]
  BY <1>1 DEF Conversions
<1>3. Append(t, byte) \in Seq(Char) /\ Append(t, Garbage) \in Seq(Char)
  <2>1. Garbage \in Char
    BY DEF Char
  <2>. QED
    BY <1>2, <2>1, AppendProperties
<1>4. PICK a, g : a = Append(t, byte) /\ g = Append(t, Garbage)
  OBVIOUS
<1>5. CASE ~p /\ byte # "percent"
  <2>1. Conversion(x, byte) = [x EXCEPT !.text = Append(x.text, byte)]
    BY <1>1, <1>5 DEF Conversion
  <2>2. Conversion(x, byte) = [text |-> a, percent |-> p]
    BY <1>2, <1>4, <2>1
  <2>. QED
    BY <1>2, <1>3, <1>4, <2>2, SMTT(20) DEF Conversions
<1>6. CASE ~p /\ byte = "percent"
  <2>1. Conversion(x, byte) = [x EXCEPT !.percent = TRUE]
    BY <1>1, <1>6 DEF Conversion
  <2>2. PICK u \in BOOLEAN : u = TRUE
    OBVIOUS
  <2>3. Conversion(x, byte) = [x EXCEPT !.percent = u]
    BY <2>1, <2>2, Zenon
  <2>4. Conversion(x, byte) = [text |-> t, percent |-> u]
    BY <1>2, <2>3
  <2>. QED
    BY <1>2, <2>4 DEF Conversions
<1>7. CASE p
  <2>1. Conversion(x, byte) =
          [text |-> Append(x.text, IF byte = "percent" THEN byte ELSE Garbage), percent |-> FALSE]
    BY <1>1, <1>7 DEF Conversion
  <2>2. CASE byte = "percent"
    <3>1. Conversion(x, byte) = [text |-> a, percent |-> FALSE]
      BY <1>1, <1>4, <2>1, <2>2
    <3>. QED
      BY <1>3, <1>4, <3>1 DEF Conversions
  <2>3. CASE byte # "percent"
    <3>1. Conversion(x, byte) = [text |-> g, percent |-> FALSE]
      BY <1>1, <1>4, <2>1, <2>3
    <3>. QED
      BY <1>3, <1>4, <3>1 DEF Conversions
  <2>. QED
    BY <2>2, <2>3
<1>. QED
  BY <1>2, <1>5, <1>6, <1>7

\* What is printed of the first k bytes.
Prints(h, text, n) ==
  /\ h[0] = [text |-> << >>, percent |-> FALSE]
  /\ \A k \in 1..n : h[k] = Conversion(h[k - 1], text[k])
  /\ \A k \in 0..n : h[k] \in Conversions

\* The fold of Printed.
LEMMA PrintFold ==
  ASSUME NEW text \in Seq(Char), NEW n, n = Len(text)
  PROVE  \E h : /\ Prints(h, text, n)
                /\ AreEqual(FoldLeft(Conversion, [text |-> << >>, percent |-> FALSE], text), h[n])
<1>. DEFINE base == [text |-> << >>, percent |-> FALSE]
            step == [x \in (1..n) \X Conversions |-> Conversion(x[2], text[x[1]])]
            F(g) == [s \in SUBSET DOMAIN text |->
                       IF s = {} THEN base ELSE Conversion(g[s \ {Max(s)}], text[Max(s)])]
            f == CHOOSE g : g = F(g)
            h == [k \in 0..n |-> f[1..k]]
<1>1. n \in Nat /\ DOMAIN text = 1..n
  BY LenProperties
<1>2. \A s \in SUBSET (1..n) : s # {} => Max(s) \in 1..n /\ s \ {Max(s)} \in SUBSET (1..n)
  <2>. SUFFICES ASSUME NEW s \in SUBSET (1..n), s # {}
                PROVE  Max(s) \in 1..n /\ s \ {Max(s)} \in SUBSET (1..n)
    OBVIOUS
  <2>1. s \subseteq 0..n
    BY <1>1
  <2>2. Max(s) \in s
    BY <1>1, <2>1, MaxProperties
  <2>. QED
    BY <2>2
<1>3. step \in [(1..n) \X Conversions -> Conversions] /\ base \in Conversions
  <2>1. base \in Conversions
    <3>1. << >> \in Seq(Char)
      BY EmptySeq
    <3>. QED
      BY <3>1 DEF Conversions
  <2>2. ASSUME NEW k \in 1..n PROVE text[k] \in Char
    BY ElementOfSeq
  <2>3. ASSUME NEW x \in (1..n) \X Conversions
        PROVE  Conversion(x[2], text[x[1]]) \in Conversions
    <3>1. x[2] \in Conversions /\ x[1] \in 1..n
      OBVIOUS
    <3>. QED
      BY <2>2, <3>1, ConversionStays
  <2>. QED
    BY <2>1, <2>3
<1>4. \E g : g = F(g)
  <2>1. PICK g : Folds(g, n, Conversions, base, step)
    <3>. HIDE DEF step, base
    <3>. QED
      BY <1>1, <1>3, FoldExists
  <2>2. g \in [SUBSET (1..n) -> Conversions]
    BY <2>1 DEF Folds
  <2>3. ASSUME NEW s \in SUBSET (1..n)
        PROVE  g[s] = IF s = {} THEN base ELSE Conversion(g[s \ {Max(s)}], text[Max(s)])
    <3>1. g[s] = IF s = {} THEN base ELSE step[<<Max(s), g[s \ {Max(s)}]>>]
      <4>. HIDE DEF step, base
      <4>. QED
        BY <2>1 DEF Folds
    <3>2. CASE s # {}
      <4>1. PICK x : x = <<Max(s), g[s \ {Max(s)}]>>
        OBVIOUS
      <4>2. x \in (1..n) \X Conversions /\ x[1] = Max(s) /\ x[2] = g[s \ {Max(s)}]
        BY <1>2, <2>2, <3>2, <4>1
      <4>3. step[x] = Conversion(x[2], text[x[1]])
        BY <4>2
      <4>. HIDE DEF step, base
      <4>. QED
        BY <3>1, <3>2, <4>1, <4>2, <4>3
    <3>. QED
      BY <3>1, <3>2
  <2>4. g = F(g)
    <3>. HIDE DEF base
    <3>1. DOMAIN F(g) = SUBSET (1..n) /\ F(g) = [s \in SUBSET (1..n) |-> F(g)[s]]
      BY <1>1
    <3>2. \A s \in SUBSET (1..n) : F(g)[s] = g[s]
      BY <1>1, <2>3
    <3>. HIDE DEF F
    <3>. QED
      BY <2>2, <3>1, <3>2
  <2>. QED
    BY <2>4
<1>5. f = F(f)
  <2>. HIDE DEF F
  <2>. QED
    BY <1>4
<1>6. ASSUME NEW s \in SUBSET (1..n)
      PROVE  f[s] = IF s = {} THEN base ELSE Conversion(f[s \ {Max(s)}], text[Max(s)])
  <2>. HIDE DEF base
  <2>1. F(f)[s] = IF s = {} THEN base ELSE Conversion(f[s \ {Max(s)}], text[Max(s)])
    <3>. HIDE DEF f
    <3>. QED
      BY <1>1
  <2>. HIDE DEF f, F
  <2>. QED
    BY <1>5, <2>1
<1>7. FoldLeft(Conversion, base, text) = f[1..n]
  BY <1>1 DEF FoldLeft, MapThenFoldSet
<1>. HIDE DEF f, F
<1>. DEFINE T == {k \in 0..n : f[1..k] \in Conversions}
<1>8. f[1..0] = base
  <2>1. 1..0 = {} /\ {} \in SUBSET (1..n)
    OBVIOUS
  <2>. HIDE DEF base
  <2>. QED
    BY <1>6, <2>1
<1>9. ASSUME NEW k \in 1..n PROVE f[1..k] = Conversion(f[1..(k - 1)], text[k])
  <2>1. 1..k \in SUBSET (1..n) /\ 1..k # {} /\ (1..k) \ {k} = 1..(k - 1) /\ k \in Nat
    <3>. HIDE DEF h, T
    <3>1. n \in Nat /\ k \in Nat /\ 1 <= k /\ k <= n
      BY <1>1
    <3>2. k \in 1..k
      BY <3>1
    <3>3. (1..k) \ {k} = 1..(k - 1)
      BY <3>1
    <3>4. 1..k \subseteq 1..n
      BY <3>1
    <3>5. PICK r : r = 1..k
      OBVIOUS
    <3>6. r # {} /\ r \in SUBSET (1..n) /\ r \ {k} = 1..(k - 1)
      BY <3>2, <3>3, <3>4, <3>5
    <3>. QED
      BY <3>1, <3>5, <3>6
  <2>2. Max(1..k) = k
    <3>1. 1 <= k
      BY <1>1
    <3>. QED
      BY <2>1, <3>1, MinMaxOfInterval
  <2>. HIDE DEF base
  <2>. QED
    BY <1>6, <2>1, <2>2
<1>10. 0..n \subseteq T
  <2>1. 0 \in T
    <3>1. 0 \in 0..n
      BY <1>1
    <3>. HIDE DEF base
    <3>. QED
      BY <1>3, <1>8, <3>1
  <2>2. ASSUME NEW k \in 0..n, k \in T, k < n PROVE k + 1 \in T
    <3>1. k + 1 \in 1..n /\ (k + 1) - 1 = k /\ k + 1 \in 0..n
      BY <1>1, <2>2
    <3>2. f[1..k] \in Conversions /\ text[k + 1] \in Char
      BY <2>2, <3>1, ElementOfSeq
    <3>3. f[1..(k + 1)] \in Conversions
      BY <1>9, <3>1, <3>2, ConversionStays
    <3>. QED
      BY <3>1, <3>3
  <2>. HIDE DEF T
  <2>. QED
    BY <1>1, <2>1, <2>2, InductionUpTo
<1>11. Prints(h, text, n)
  <2>1. h[0] = base
    BY <1>1, <1>8
  <2>2. ASSUME NEW k \in 1..n PROVE h[k] = Conversion(h[k - 1], text[k])
    <3>1. k \in 0..n /\ k - 1 \in 0..n
      BY <1>1
    <3>2. h[k] = f[1..k] /\ h[k - 1] = f[1..(k - 1)]
      BY <3>1
    <3>. HIDE DEF h
    <3>. QED
      BY <1>9, <3>2
  <2>3. ASSUME NEW k \in 0..n PROVE h[k] \in Conversions
    BY <1>10
  <2>. HIDE DEF h
  <2>. QED
    BY <2>1, <2>2, <2>3 DEF Prints
<1>12. h[n] = f[1..n]
  <2>1. n \in 0..n
    BY <1>1
  <2>. QED
    BY <2>1
<1>. HIDE DEF h
<1>. QED
  BY <1>7, <1>11, <1>12 DEF AreEqual

\* A plain text is printed as it is.
LEMMA PlainIsPrinted ==
  ASSUME NEW text \in Seq(PlainByte)
  PROVE  Printed(text) = text
<1>1. PICK n : n = Len(text)
  OBVIOUS
<1>2. text \in Seq(Char) /\ n \in Nat
  <2>1. \A i \in 1..n : text[i] \in Char
    BY <1>1, ElementOfSeq DEF PlainByte, Char, Byte
  <2>2. n \in Nat /\ text \in [1..n -> PlainByte]
    BY <1>1, LenProperties
  <2>3. text \in [1..n -> Char]
    BY <2>1, <2>2
  <2>. QED
    BY <2>2, <2>3
<1>3. PICK h : /\ Prints(h, text, n)
               /\ AreEqual(FoldLeft(Conversion, [text |-> << >>, percent |-> FALSE], text), h[n])
  BY <1>1, <1>2, PrintFold
<1>. DEFINE T == {k \in 0..n : h[k] = Converted(text, k)}
<1>4. 0 \in T
  <2>1. PICK z : z = 0
    OBVIOUS
  <2>2. SubSeq(text, 1, z) = << >>
    <3>1. z \in Int /\ 1 \in Int /\ z < 1
      BY <2>1
    <3>. QED
      BY <3>1, SubSeqEmpty
  <2>3. h[0] = Converted(text, 0)
    BY <1>3, <2>1, <2>2 DEF Converted, Prints
  <2>. QED
    BY <1>2, <2>3
<1>5. ASSUME NEW k \in 0..n, k \in T, k < n PROVE k + 1 \in T
  <2>1. k + 1 \in 1..n /\ (k + 1) - 1 = k /\ k + 1 \in 0..n /\ k \in Nat /\ k < Len(text)
    BY <1>1, <1>2, <1>5
  <2>2. h[k + 1] = Conversion(h[k], text[k + 1])
    BY <1>3, <2>1 DEF Prints
  <2>3. h[k] = Converted(text, k)
    BY <1>5
  <2>4. h[k + 1] = Converted(text, k + 1)
    BY <2>1, <2>2, <2>3, OneConverted
  <2>. QED
    BY <2>1, <2>4
<1>6. h[n] = Converted(text, n)
  <2>1. 0..n \subseteq T
    <3>. HIDE DEF T
    <3>. QED
      BY <1>2, <1>4, <1>5, InductionUpTo
  <2>2. n \in T
    BY <1>2, <2>1
  <2>. QED
    BY <2>2
<1>7. SubSeq(text, 1, n) = text
  BY <1>1, SubSeqFull
<1>8. PICK all : all = FoldLeft(Conversion, [text |-> << >>, percent |-> FALSE], Format(text))
  OBVIOUS
<1>9. all = [text |-> text, percent |-> FALSE]
  <2>1. all = Converted(text, n)
    BY <1>3, <1>6, <1>8, PlainIsFormat DEF AreEqual
  <2>. QED
    BY <1>7, <2>1 DEF Converted
<1>10. Printed(text) = IF all.percent THEN Append(all.text, Garbage) ELSE all.text
  BY <1>8 DEF Printed
<1>. QED
  BY <1>9, <1>10

\* The bytes before one of a text.
LEMMA BytesBefore ==
  ASSUME NEW text \in Seq(Char), NEW T, T \subseteq 1..Len(text), T # {}
  PROVE  /\ SubSeq(text, 1, Min(T) - 1) \in Seq(Char)
         /\ Len(SubSeq(text, 1, Min(T) - 1)) <= Len(text)
<1>1. Len(text) \in Nat
  BY LenProperties
<1>2. T \subseteq Nat
  BY <1>1
<1>3. Min(T) \in T
  BY <1>2, MinProperties
<1>4. PICK b, s, z : b = Min(T) - 1 /\ s = SubSeq(text, z + 1, b) /\ z = 0
  OBVIOUS
<1>5. b \in Int /\ b <= Len(text) /\ z \in Nat /\ z + 1 = 1
  <2>1. PICK m, l : m = Min(T) /\ l = Len(text)
    OBVIOUS
  <2>2. m \in 1..l /\ l \in Nat
    BY <1>1, <1>3, <2>1
  <2>3. b = m - 1 /\ z = 0
    BY <1>4, <2>1
  <2>4. b \in Int /\ b <= l
    BY <2>2, <2>3
  <2>. QED
    BY <2>1, <2>3, <2>4
<1>6. s \in Seq(Char) /\ Len(s) = IF z < b THEN b - z ELSE 0
  BY <1>4, <1>5, Cut
<1>7. Len(s) <= Len(text)
  BY <1>1, <1>4, <1>5, <1>6
<1>. QED
  BY <1>4, <1>5, <1>6, <1>7

\* The copy of a file in memory is the text of one no longer than the file.
LEMMA ReadIsText ==
  ASSUME NEW text \in Seq(Char)
  PROVE  \E contents \in Seq(Char) :
           /\ read_file_into_file_manager(text) = FileManager(contents)
           /\ Len(contents) <= Len(text)
<1>1. PICK T : T = {i \in 1..Len(text) : text[i] = "0xFF"}
  OBVIOUS
<1>2. PICK eof : eof = IF T # {} THEN Min(T) ELSE 0
  OBVIOUS
<1>3. read_file_into_file_manager(text) =
        FileManager(IF eof = 0 THEN text ELSE SubSeq(text, 1, eof - 1))
  BY <1>1, <1>2 DEF read_file_into_file_manager, SelectInSeq
<1>4. Len(text) \in Nat
  BY LenProperties
<1>5. CASE eof = 0
  BY <1>3, <1>4, <1>5
<1>6. CASE eof # 0
  <2>1. T \subseteq 1..Len(text) /\ T # {} /\ eof = Min(T)
    BY <1>1, <1>2, <1>6
  <2>2. /\ SubSeq(text, 1, eof - 1) \in Seq(Char)
        /\ Len(SubSeq(text, 1, eof - 1)) <= Len(text)
    BY <2>1, BytesBefore
  <2>3. read_file_into_file_manager(text) = FileManager(SubSeq(text, 1, eof - 1))
    BY <1>3, <1>6
  <2>. QED
    BY <2>2, <2>3
<1>. QED
  BY <1>5, <1>6

\* The copy holds what comes before the first byte that is taken for the end.
LEMMA ReadIsBeforeEOF ==
  ASSUME NEW text \in Seq(Char)
  PROVE  read_file_into_file_manager(text) = FileManager(BeforeEOF(text))
<1>1. PICK T : T = {i \in 1..Len(text) : text[i] = "0xFF"}
  OBVIOUS
<1>2. PICK eof : eof = IF T # {} THEN Min(T) ELSE 0
  OBVIOUS
<1>3. read_file_into_file_manager(text) =
        FileManager(IF eof = 0 THEN text ELSE SubSeq(text, 1, eof - 1))
  BY <1>1, <1>2 DEF read_file_into_file_manager, SelectInSeq
<1>4. Len(text) \in Nat /\ DOMAIN text = 1..Len(text) /\ T \subseteq Nat
  <2>1. Len(text) \in Nat /\ DOMAIN text = 1..Len(text)
    BY LenProperties
  <2>. QED
    BY <1>1, <2>1
<1>5. PICK B : B = {i \in DOMAIN text : \A j \in 1..i : text[j] # "0xFF"}
  OBVIOUS
<1>6. CASE T = {}
  <2>1. B = 1..Len(text)
    BY <1>1, <1>4, <1>5, <1>6
  <2>2. Cardinality(B) = Len(text)
    <3>1. Cardinality(1..Len(text)) = IF 1 > Len(text) THEN 0 ELSE Len(text) - 1 + 1
      BY <1>4, FS_Interval
    <3>. QED
      BY <1>4, <2>1, <3>1
  <2>3. SubSeq(text, 1, Len(text)) = text
    BY SubSeqFull
  <2>4. eof = 0
    BY <1>2, <1>6
  <2>. QED
    BY <1>3, <1>5, <2>2, <2>3, <2>4 DEF BeforeEOF
<1>7. CASE T # {}
  <2>1. eof \in T /\ \A i \in T : eof <= i
    BY <1>2, <1>4, <1>7, MinProperties
  <2>2. PICK n \in Nat : eof = n + 1
    <3>1. eof \in 1..Len(text)
      BY <1>1, <2>1
    <3>2. eof - 1 \in Nat /\ eof = (eof - 1) + 1
      BY <1>4, <3>1
    <3>. QED
      BY <3>2
  <2>3. n + 1 <= Len(text) /\ text[n + 1] = "0xFF"
    BY <1>1, <1>4, <2>1, <2>2
  <2>4. ASSUME NEW i \in 1..Len(text) PROVE i \in B <=> i <= n
    <3>1. CASE i <= n
      <4>1. ASSUME NEW j \in 1..i PROVE text[j] # "0xFF"
        <5>1. j \in 1..Len(text) /\ ~(n + 1 <= j)
          BY <1>4, <2>2, <2>3, <3>1
        <5>. QED
          BY <1>1, <2>1, <2>2, <5>1
      <4>. QED
        BY <1>4, <1>5, <3>1, <4>1
    <3>2. CASE ~(i <= n)
      <4>1. n + 1 \in 1..i
        BY <1>4, <2>2, <3>2
      <4>. QED
        BY <1>5, <2>3, <3>2, <4>1
    <3>. QED
      BY <3>1, <3>2
  <2>5. B = 1..n
    <3>1. B \subseteq 1..Len(text) /\ 1..n \subseteq 1..Len(text)
      BY <1>4, <1>5, <2>2, <2>3
    <3>2. ASSUME NEW i PROVE i \in B <=> i \in 1..n
      <4>1. i \in B => i \in 1..n
        BY <1>4, <2>2, <2>4, <3>1
      <4>2. i \in 1..n => i \in B
        BY <2>2, <2>4, <3>1
      <4>. QED
        BY <4>1, <4>2
    <3>. QED
      BY <3>2
  <2>6. Cardinality(B) = n
    <3>1. Cardinality(1..n) = IF 1 > n THEN 0 ELSE n - 1 + 1
      BY <2>2, FS_Interval
    <3>. QED
      BY <2>2, <2>5, <3>1
  <2>7. eof # 0 /\ eof - 1 = n
    BY <2>2
  <2>. QED
    BY <1>3, <1>5, <2>6, <2>7 DEF BeforeEOF
<1>. QED
  BY <1>6, <1>7

\* What is printed is a text, with the garbage of undefined conversions.
LEMMA PrintedIsText ==
  ASSUME NEW text \in Seq(Char)
  PROVE  Printed(text) \in Seq(Char)
<1>1. PICK T, nul : /\ T = {i \in 1..Len(text) : text[i] = "nul"}
                    /\ nul = IF T # {} THEN Min(T) ELSE 0
  OBVIOUS
<1>2. PICK format : format = IF nul = 0 THEN text ELSE SubSeq(text, 1, nul - 1)
  OBVIOUS
<1>3. format = Format(text)
  BY <1>1, <1>2 DEF Format, SelectInSeq
<1>4. format \in Seq(Char)
  <2>1. CASE nul # 0
    <3>1. T \subseteq 1..Len(text) /\ T # {} /\ nul = Min(T)
      BY <1>1, <2>1
    <3>2. SubSeq(text, 1, nul - 1) \in Seq(Char)
      BY <3>1, BytesBefore
    <3>. QED
      BY <1>2, <2>1, <3>2
  <2>. QED
    BY <1>2, <2>1
<1>5. PICK n : n = Len(format)
  OBVIOUS
<1>6. PICK h : /\ Prints(h, format, n)
               /\ AreEqual(FoldLeft(Conversion, [text |-> << >>, percent |-> FALSE], format), h[n])
  BY <1>4, <1>5, PrintFold
<1>7. h[n] \in Conversions
  <2>1. n \in 0..n
    <3>1. n \in Nat
      BY <1>4, <1>5, LenProperties
    <3>. QED
      BY <3>1
  <2>. QED
    BY <1>6, <2>1 DEF Prints
<1>8. PICK all : all = h[n]
  OBVIOUS
<1>9. Printed(text) = IF all.percent THEN Append(all.text, Garbage) ELSE all.text
  BY <1>3, <1>6, <1>8 DEF Printed, AreEqual
<1>10. PICK t : t = all.text
  OBVIOUS
<1>11. t \in Seq(Char)
  BY <1>7, <1>8, <1>10 DEF Conversions
<1>12. Append(t, Garbage) \in Seq(Char)
  <2>1. Garbage \in Char
    BY DEF Char
  <2>. QED
    BY <1>11, <2>1, AppendProperties
<1>. QED
  BY <1>9, <1>10, <1>11, <1>12

\* What is spliced is a text.
LEMMA SplicedIsText ==
  ASSUME NEW S, NEW contents, NEW m, NEW edits, NEW q, NEW n,
         EditsOf(edits, q, n, contents, m, S)
  PROVE  Spliced(contents, edits) \in Seq(S)
<1>1. n \in Nat /\ m \in Nat /\ contents \in Seq(S) /\ m = Len(contents)
  BY EditsFacts
<1>2. PICK h : /\ Splices(h, contents, q, n, S)
               /\ AreEqual(Spliced(contents, edits),
                           h[n].text \o SubSeq(contents, h[n].cursor + 1, m))
  BY SpliceFold
<1>3. PICK t, r, c : t = h[n].text /\ c = h[n].cursor /\ r = SubSeq(contents, c + 1, m)
  OBVIOUS
<1>4. t \in Seq(S) /\ c \in Nat
  <2>1. n \in 0..n
    BY <1>1
  <2>. QED
    BY <1>2, <1>3, <2>1 DEF Splices
<1>5. r \in Seq(S)
  <2>1. m \in Int /\ m <= Len(contents)
    BY <1>1
  <2>. QED
    BY <1>1, <1>3, <1>4, <2>1, Cut
<1>6. t \o r \in Seq(S)
  BY <1>4, <1>5, ConcatProperties
<1>. QED
  BY <1>2, <1>3, <1>6 DEF AreEqual

-----------------------------------------------------------------------------
(* The slices that a search reports. *)

\* Arithmetic of U64, on the numbers that a slice of a file needs.
LEMMA WrapsOnce ==
  ASSUME NEW w \in Nat \ {0}, NEW x \in Int
  PROVE  /\ x \in 0..(w - 1) => x % w = x
         /\ x \in (-w)..(-1) => x % w = x + w
         /\ x \in w..(2 * w - 1) => x % w = x - w
OBVIOUS

\* The number of bytes of a match is the one it was made of.
LEMMA SizeOfMatch ==
  ASSUME NEW w \in Nat \ {0}, NEW from \in Nat, NEW n \in Nat, from + 1 < w, n + 1 < w,
         NEW end, end = (from + n - 1) % w
  PROVE  (end - from + 1) % w = n
<1>1. CASE from + n - 1 < 0
  <2>1. from = 0 /\ n = 0
    BY <1>1
  <2>2. -1 \in (-w)..(-1) /\ -1 \in Int
    OBVIOUS
  <2>3. end = w - 1
    <3>1. (-1) % w = (-1) + w
      BY <2>2, WrapsOnce
    <3>. QED
      BY <2>1, <3>1
  <2>4. end - from + 1 = w /\ w \in w..(2 * w - 1) /\ w \in Int
    BY <2>1, <2>3
  <2>5. w % w = w - w
    BY <2>4, WrapsOnce
  <2>. QED
    BY <2>1, <2>4, <2>5
<1>2. CASE from + n - 1 \in 0..(w - 1)
  <2>1. end = from + n - 1
    BY <1>2, WrapsOnce
  <2>2. end - from + 1 = n /\ n \in 0..(w - 1) /\ n \in Int
    BY <2>1
  <2>. QED
    BY <2>2, WrapsOnce
<1>3. CASE from + n - 1 >= w
  <2>1. from + n - 1 \in w..(2 * w - 1) /\ from + n - 1 \in Int
    BY <1>3
  <2>2. end = from + n - 1 - w
    BY <2>1, WrapsOnce
  <2>3. end - from + 1 = n - w /\ n - w \in (-w)..(-1) /\ n - w \in Int
    BY <2>2
  <2>4. (n - w) % w = (n - w) + w
    BY <2>3, WrapsOnce
  <2>. QED
    BY <2>3, <2>4
<1>. QED
  BY <1>1, <1>2, <1>3

\* A slice that a search reports, with its bytes within the file.
LEMMA SliceFacts ==
  ASSUME NEW text, NEW m, m = Len(text), m \in 0..MaxLength,
         NEW s, s \in Slices(text), Within(text, s)
  PROVE  /\ s.start \in Nat /\ s.end \in Nat /\ SizeOf(s) \in Nat
         /\ s.start + SizeOf(s) <= m
         /\ SizeOf(s) > 0 => s.end = s.start + SizeOf(s) - 1
         /\ SizeOf(s) = 0 /\ s.start > 0 => IllFormed(s)
<1>1. PICK w : w = WordModulus
  OBVIOUS
<1>2. w \in Nat \ {0} /\ MaxLength \in Nat /\ MaxLength + 1 < w /\ MinSize \in 0..1
  BY <1>1, WordModulusAssumption, FileEditAssumption
<1>3. PICK from \in 0..m, n \in MinSize..m : s = Match(from, n)
  BY DEF Slices
<1>4. from \in Nat /\ n \in Nat /\ from + 1 < w /\ n + 1 < w /\ from <= m /\ n <= m
  BY <1>2, <1>3
<1>5. PICK end : end = (from + n - 1) % w
  OBVIOUS
<1>6. s.start = from /\ s.end = end
  BY <1>1, <1>3, <1>5 DEF Match
<1>7. SizeOf(s) = n
  <2>1. (end - from + 1) % w = n
    BY <1>2, <1>4, <1>5, SizeOfMatch
  <2>. QED
    BY <1>1, <1>6, <2>1 DEF SizeOf
<1>8. from + n <= m
  BY <1>6, <1>7 DEF Within
<1>9. end \in Nat
  BY <1>2, <1>4, <1>5
<1>10. ASSUME n > 0 PROVE end = from + n - 1
  <2>1. from + n - 1 \in 0..(w - 1) /\ from + n - 1 \in Int
    BY <1>2, <1>4, <1>8, <1>10
  <2>. QED
    BY <1>2, <1>5, <2>1, WrapsOnce
<1>11. ASSUME n = 0, from > 0 PROVE from > end
  <2>1. from + n - 1 \in 0..(w - 1) /\ from + n - 1 \in Int /\ from + n - 1 = from - 1
    BY <1>2, <1>4, <1>11
  <2>2. end = from - 1
    BY <1>2, <1>5, <2>1, WrapsOnce
  <2>. QED
    BY <1>4, <2>2
<1>. QED
  BY <1>4, <1>6, <1>7, <1>8, <1>9, <1>10, <1>11 DEF IllFormed

-----------------------------------------------------------------------------
(* The inductive invariant. *)

\* The matches of the last search: without overlap, and no two alike.
MatchesOf(text, matches) ==
  /\ \A s \in matches : s \in Slices(text) /\ Within(text, s)
  /\ \A s, t \in matches : Apart(s, t) /\ (s.start = t.start => s = t)

\* A match is pending or in the history, and in the history once.
MatchesKept ==
  /\ MatchesOf(searched, pending \cup {d.slice : d \in diffs})
  /\ IsFiniteSet(diffs)
  /\ \A d \in diffs : d.slice \notin pending
  /\ \A d, e \in diffs : d.slice = e.slice => d = e

\* The copy in memory is that of the file as it was searched.
CopyKept ==
  /\ disk \in Seq(Char) /\ searched \in Seq(Char) /\ Len(searched) <= MaxLength
  /\ file_manager = NotRead =>
       disk = searched /\ diffs = {} /\ viewer = Nothing /\ committed = {}
  /\ file_manager # NotRead => file_manager = read_file_into_file_manager(searched)

DiffsMade ==
  \A d \in diffs :
    /\ d.replacement_text \in Replacement
    /\ ~DecideThrows(d.slice)
    /\ d.start_line_no = FirstLine(d.slice).lineno
    /\ d.start_column = FirstLine(d.slice).start_column

ViewerMade ==
  viewer # Nothing =>
    \E slice \in pending \cup {d.slice : d \in diffs}, text \in Replacement :
      ~PopulateThrows(slice) /\ viewer = Shown(slice, text)

FileInv == MatchesKept /\ CopyKept /\ DiffsMade /\ ViewerMade

\* A copy that has been read is not taken for one that has not.
LEMMA FileManagerIsRead ==
  ASSUME NEW contents
  PROVE  FileManager(contents) # NotRead
<1>1. "copy" \notin DOMAIN FileManager(contents) /\ "copy" \in DOMAIN NotRead
  BY DEF FileManager, NotRead
<1>. QED
  BY <1>1

\* What a search reports is within the file and does not overlap.
LEMMA MatchSetsFacts ==
  ASSUME NEW text, NEW matches \in MatchSets(text)
  PROVE  MatchesOf(text, matches)
BY DEF MatchSets, MatchesOf

\* It holds of a file that has been searched, ...
LEMMA InitFileInv ==
  ASSUME Init
  PROVE  FileInv
<1>1. disk \in Seq(Char) /\ Len(disk) <= MaxLength
  <2>1. PICK m \in 0..MaxLength : disk \in [1..m -> Alphabet]
    BY DEF Init, BoundedSeq, SeqOf
  <2>2. disk \in [1..m -> Char] /\ m \in Nat
    BY <2>1, FileEditAssumption DEF Char
  <2>3. disk \in Seq(Char) /\ Len(disk) = m
    BY <2>2
  <2>. QED
    BY <2>1, <2>3, FileEditAssumption
<1>2. MatchesOf(disk, pending)
  BY MatchSetsFacts DEF Init
<1>3. IsFiniteSet({})
  BY FS_EmptySet
<1>4. MatchesKept
  <2>1. diffs = {} /\ searched = disk
    BY DEF Init
  <2>2. pending \cup {d.slice : d \in diffs} = pending
    BY <2>1
  <2>. QED
    BY <1>2, <1>3, <2>1, <2>2 DEF MatchesKept
<1>. QED
  BY <1>1, <1>4 DEF Init, FileInv, CopyKept, DiffsMade, ViewerMade

\* The copy that is shown is that of the file as it was searched.
LEMMA CopyIs ==
  ASSUME CopyKept
  PROVE  /\ Copy = read_file_into_file_manager(searched)
         /\ Copy # NotRead
         /\ file_manager # NotRead => Copy = file_manager
         /\ \E contents \in Seq(Char) :
              Copy = FileManager(contents) /\ Len(contents) <= Len(searched)
<1>1. Copy = read_file_into_file_manager(searched)
  BY DEF CopyKept, Copy
<1>2. PICK contents \in Seq(Char) :
        /\ read_file_into_file_manager(searched) = FileManager(contents)
        /\ Len(contents) <= Len(searched)
  BY ReadIsText DEF CopyKept
<1>3. Copy # NotRead
  BY <1>1, <1>2, FileManagerIsRead
<1>. QED
  BY <1>1, <1>2, <1>3 DEF Copy

\* ... when a handler throws, ...
LEMMA StopFileInv ==
  ASSUME FileInv, NEW how, Stop(how), file_manager' \in {file_manager, Copy}
  PROVE  FileInv'
<1>. USE DEF FileInv, Stop
<1>1. /\ Copy = read_file_into_file_manager(searched) /\ Copy # NotRead
      /\ file_manager # NotRead => Copy = file_manager
  BY CopyIs
<1>2. MatchesKept'
  BY DEF MatchesKept
<1>3. CopyKept'
  <2>1. CASE file_manager' = Copy
    BY <1>1, <2>1 DEF CopyKept
  <2>2. CASE file_manager' = file_manager
    BY <2>2 DEF CopyKept
  <2>. QED
    BY <2>1, <2>2
<1>4. DiffsMade'
  <2>1. CASE file_manager' = file_manager
    BY <2>1 DEF DiffsMade, DecideThrows, FirstLine
  <2>2. CASE file_manager = NotRead
    BY <2>2 DEF DiffsMade, CopyKept
  <2>. QED
    BY <1>1, <2>1, <2>2
<1>5. ViewerMade'
  <2>1. Copy' = Copy
    BY <1>1 DEF Copy
  <2>. QED
    BY <2>1 DEF ViewerMade, PopulateThrows, Shown
<1>. QED
  BY <1>2, <1>3, <1>4, <1>5

\* ... when a match or a diff is shown, ...
LEMMA PopulateFileInv ==
  ASSUME FileInv, NEW slice \in pending \cup {d.slice : d \in diffs},
         NEW text \in Replacement, Populate(slice, text)
  PROVE  FileInv'
<1>1. /\ Copy = read_file_into_file_manager(searched) /\ Copy # NotRead
      /\ file_manager # NotRead => Copy = file_manager
  BY CopyIs DEF FileInv
<1>2. CASE PopulateThrows(slice)
  BY <1>2, StopFileInv DEF Populate
<1>3. CASE ~PopulateThrows(slice)
  <2>1. /\ file_manager' = Copy /\ viewer' = Shown(slice, text)
        /\ UNCHANGED <<disk, pending, diffs, status, searched, committed>>
    BY <1>3 DEF Populate
  <2>2. MatchesKept'
    BY <2>1 DEF FileInv, MatchesKept
  <2>3. CopyKept'
    BY <1>1, <2>1 DEF FileInv, CopyKept
  <2>4. DiffsMade'
    <3>1. CASE file_manager' = file_manager
      BY <2>1, <3>1 DEF FileInv, DiffsMade, DecideThrows, FirstLine
    <3>2. CASE file_manager = NotRead
      BY <2>1, <3>2 DEF FileInv, DiffsMade, CopyKept
    <3>. QED
      BY <1>1, <2>1, <3>1, <3>2
  <2>5. ViewerMade'
    <3>1. Copy' = Copy
      BY <1>1, <2>1 DEF Copy
    <3>2. (Shown(slice, text))' = Shown(slice, text)
      BY <3>1 DEF Shown
    <3>3. (PopulateThrows(slice))' = PopulateThrows(slice)
      BY <3>1 DEF PopulateThrows
    <3>. QED
      BY <1>3, <2>1, <3>2, <3>3 DEF ViewerMade
  <2>. QED
    BY <2>2, <2>3, <2>4, <2>5 DEF FileInv
<1>. QED
  BY <1>2, <1>3

\* ... when a match is decided, ...
LEMMA DecideFileInv ==
  ASSUME FileInv, Decide
  PROVE  FileInv'
<1>1. PICK slice \in pending :
        IF DecideThrows(slice)
        THEN Stop("threw") /\ UNCHANGED file_manager
        ELSE /\ pending' = pending \ {slice}
             /\ \E accepted \in BOOLEAN, text \in Replacement :
                  diffs' = diffs \cup
                    {[accepted |-> accepted, slice |-> slice, replacement_text |-> text,
                      start_line_no |-> FirstLine(slice).lineno,
                      start_column |-> FirstLine(slice).start_column]}
             /\ UNCHANGED <<disk, file_manager, viewer, status, searched, committed>>
  BY DEF Decide
<1>2. CASE DecideThrows(slice)
  BY <1>1, <1>2, StopFileInv
<1>3. CASE ~DecideThrows(slice)
  <2>1. /\ pending' = pending \ {slice}
        /\ UNCHANGED <<disk, file_manager, viewer, status, searched, committed>>
    BY <1>1, <1>3
  <2>2. PICK accepted \in BOOLEAN, text \in Replacement :
          diffs' = diffs \cup
            {[accepted |-> accepted, slice |-> slice, replacement_text |-> text,
              start_line_no |-> FirstLine(slice).lineno,
              start_column |-> FirstLine(slice).start_column]}
    BY <1>1, <1>3
  <2>3. PICK new :
          /\ diffs' = diffs \cup {new}
          /\ new.slice = slice /\ new.replacement_text = text
          /\ new.start_line_no = FirstLine(slice).lineno
          /\ new.start_column = FirstLine(slice).start_column
    <3>1. PICK no, column : no = FirstLine(slice).lineno /\ column = FirstLine(slice).start_column
      OBVIOUS
    <3>2. PICK new : new = [accepted |-> accepted, slice |-> slice, replacement_text |-> text,
                            start_line_no |-> no, start_column |-> column]
      OBVIOUS
    <3>3. diffs' = diffs \cup {new}
      BY <2>2, <3>1, <3>2
    <3>4. /\ new.slice = slice /\ new.replacement_text = text
          /\ new.start_line_no = no /\ new.start_column = column
      BY <3>2
    <3>. QED
      BY <3>1, <3>3, <3>4
  <2>4. pending' \cup {d.slice : d \in diffs'} = pending \cup {d.slice : d \in diffs}
    BY <2>1, <2>3
  <2>5. MatchesKept'
    <3>1. IsFiniteSet(diffs')
      BY <2>3, FS_AddElement DEF FileInv, MatchesKept
    <3>2. MatchesOf(searched', pending' \cup {d.slice : d \in diffs'})
      BY <2>1, <2>4 DEF FileInv, MatchesKept
    <3>3. \A d \in diffs' : d.slice \notin pending'
      BY <2>1, <2>3 DEF FileInv, MatchesKept
    <3>4. \A d, e \in diffs' : d.slice = e.slice => d = e
      BY <2>3 DEF FileInv, MatchesKept
    <3>. QED
      BY <3>1, <3>2, <3>3, <3>4 DEF MatchesKept
  <2>6. CopyKept'
    <3>1. file_manager # NotRead
      BY DEF Decide
    <3>. QED
      BY <2>1, <3>1 DEF FileInv, CopyKept
  <2>7. DiffsMade'
    <3>1. \A d \in diffs' : d \in diffs \/ d = new
      BY <2>3
    <3>2. /\ \A s : (DecideThrows(s))' = DecideThrows(s)
          /\ \A s : (FirstLine(s))' = FirstLine(s)
      BY <2>1 DEF DecideThrows, FirstLine
    <3>. QED
      BY <1>3, <2>3, <3>1, <3>2 DEF FileInv, DiffsMade
  <2>8. ViewerMade'
    <3>1. Copy' = Copy
      BY <2>1 DEF Copy
    <3>. QED
      BY <2>1, <2>4, <3>1 DEF FileInv, ViewerMade, Shown, PopulateThrows
  <2>. QED
    BY <2>5, <2>6, <2>7, <2>8 DEF FileInv
<1>. QED
  BY <1>2, <1>3

\* ... when a decision is taken back, ...
LEMMA DeleteDiffFileInv ==
  ASSUME FileInv, DeleteDiff
  PROVE  FileInv'
<1>1. PICK diff \in diffs :
        /\ diffs' = diffs \ {diff}
        /\ pending' = pending \cup {diff.slice}
  BY DEF DeleteDiff
<1>2. UNCHANGED <<disk, file_manager, viewer, status, searched, committed>>
  BY DEF DeleteDiff
<1>3. pending' \cup {d.slice : d \in diffs'} = pending \cup {d.slice : d \in diffs}
  BY <1>1
<1>4. MatchesKept'
  <2>1. IsFiniteSet(diffs')
    BY <1>1, FS_Subset DEF FileInv, MatchesKept
  <2>2. MatchesOf(searched', pending' \cup {d.slice : d \in diffs'})
    BY <1>2, <1>3 DEF FileInv, MatchesKept
  <2>3. \A d \in diffs' : d.slice \notin pending'
    BY <1>1 DEF FileInv, MatchesKept
  <2>4. \A d, e \in diffs' : d.slice = e.slice => d = e
    BY <1>1 DEF FileInv, MatchesKept
  <2>. QED
    BY <2>1, <2>2, <2>3, <2>4 DEF MatchesKept
<1>5. CopyKept'
  BY <1>1, <1>2 DEF FileInv, CopyKept
<1>6. DiffsMade'
  BY <1>1, <1>2 DEF FileInv, DiffsMade, DecideThrows, FirstLine
<1>7. ViewerMade'
  <2>1. Copy' = Copy
    BY <1>2 DEF Copy
  <2>. QED
    BY <1>2, <1>3, <2>1 DEF FileInv, ViewerMade, Shown, PopulateThrows
<1>. QED
  BY <1>4, <1>5, <1>6, <1>7 DEF FileInv

\* The texts that are typed are texts.
LEMMA ReplacementIsText ==
  ASSUME NEW text \in Replacement
  PROVE  text \in Seq(Char)
<1>1. PICK n : n = Len(text)
  OBVIOUS
<1>2. text \in Seq(Alphabet) /\ n \in Nat
  BY <1>1, FileEditAssumption, LenProperties
<1>3. text \in [1..n -> Alphabet]
  BY <1>1, <1>2, LenProperties
<1>4. text \in [1..n -> Char]
  BY <1>3, FileEditAssumption DEF Char
<1>. QED
  BY <1>2, <1>4

\* What a commit splices.
LEMMA AcceptedEdits ==
  ASSUME FileInv, ~SpliceThrows(file_manager.contents, Accepted), Accepted # {},
         NEW contents, AreEqual(contents, file_manager.contents)
  PROVE  /\ file_manager # NotRead
         /\ contents \in Seq(Char)
         /\ EditsOf(Accepted, Sorted(Accepted), Cardinality(Accepted), contents, Len(contents), Char)
<1>1. file_manager # NotRead
  BY DEF FileInv, CopyKept, Accepted
<1>2. contents \in Seq(Char)
  <2>1. PICK c \in Seq(Char) : file_manager = FileManager(c)
    BY <1>1, CopyIs DEF FileInv
  <2>2. file_manager.contents = c
    BY <2>1 DEF FileManager
  <2>. QED
    BY <2>2 DEF AreEqual
<1>3. PICK m : m = Len(searched)
  OBVIOUS
<1>4. m \in 0..MaxLength
  BY <1>3, LenProperties, FileEditAssumption DEF FileInv, CopyKept
<1>5. ASSUME NEW d \in Accepted
      PROVE  /\ d.slice.start \in Nat /\ SizeOf(d.slice) \in Nat
             /\ d.slice.start + SizeOf(d.slice) <= Len(contents)
             /\ d.replacement_text \in Seq(Char)
  <2>1. d \in diffs
    BY DEF Accepted
  <2>2. d.slice \in Slices(searched) /\ Within(searched, d.slice)
    BY <2>1 DEF FileInv, MatchesKept, MatchesOf
  <2>3. d.slice.start \in Nat /\ SizeOf(d.slice) \in Nat
    BY <1>3, <1>4, <2>2, SliceFacts
  <2>4. ~(d.slice.start + SizeOf(d.slice) > Len(contents))
    BY DEF SpliceThrows, AreEqual
  <2>5. Len(contents) \in Nat
    BY <1>2, LenProperties
  <2>6. d.replacement_text \in Seq(Char)
    BY <2>1, ReplacementIsText DEF FileInv, DiffsMade
  <2>. QED
    BY <2>3, <2>4, <2>5, <2>6
<1>6. ASSUME NEW d \in Accepted, NEW e \in Accepted
      PROVE  /\ d.slice.start < e.slice.start => d.slice.start + SizeOf(d.slice) <= e.slice.start
             /\ d.slice.start = e.slice.start => d = e
  <2>1. d \in diffs /\ e \in diffs
    BY DEF Accepted
  <2>2. Apart(d.slice, e.slice) /\ (d.slice.start = e.slice.start => d.slice = e.slice)
    BY <2>1 DEF FileInv, MatchesKept, MatchesOf
  <2>3. d.slice = e.slice => d = e
    BY <2>1 DEF FileInv, MatchesKept
  <2>. QED
    BY <2>2, <2>3 DEF Apart
<1>7. IsFiniteSet(Accepted)
  <2>1. Accepted \subseteq diffs /\ IsFiniteSet(diffs)
    BY DEF Accepted, FileInv, MatchesKept
  <2>. QED
    BY <2>1, FS_Subset
<1>8. EditsIn(Accepted, Len(contents))
  BY <1>5, <1>6, <1>7 DEF EditsIn
<1>. QED
  BY <1>1, <1>2, <1>5, <1>8 DEF EditsOf

\* ... when the accepted diffs are committed, ...
LEMMA CommitFileInv ==
  ASSUME FileInv, Commit
  PROVE  FileInv'
<1>1. /\ Accepted # {} /\ ~SpliceThrows(file_manager.contents, Accepted)
      /\ WriteFile(Spliced(file_manager.contents, Accepted))
      /\ UNCHANGED <<file_manager, pending, diffs, viewer, searched>>
  BY DEF Commit
<1>2. PICK contents : AreEqual(contents, file_manager.contents)
  BY DEF AreEqual
<1>3. /\ file_manager # NotRead
      /\ EditsOf(Accepted, Sorted(Accepted), Cardinality(Accepted), contents, Len(contents), Char)
  BY <1>1, <1>2, AcceptedEdits
<1>4. disk' \in Seq(Char)
  <2>1. Spliced(contents, Accepted) \in Seq(Char)
    BY <1>3, SplicedIsText
  <2>2. Printed(Spliced(contents, Accepted)) \in Seq(Char)
    BY <2>1, PrintedIsText
  <2>3. << >> \in Seq(Char)
    BY EmptySeq
  <2>. QED
    BY <1>1, <1>2, <2>2, <2>3 DEF WriteFile, AreEqual
<1>5. MatchesKept'
  BY <1>1 DEF FileInv, MatchesKept
<1>6. CopyKept'
  BY <1>1, <1>3, <1>4 DEF FileInv, CopyKept
<1>7. DiffsMade'
  BY <1>1 DEF FileInv, DiffsMade, DecideThrows, FirstLine
<1>8. ViewerMade'
  <2>1. Copy' = Copy
    BY <1>1, <1>3 DEF Copy
  <2>. QED
    BY <1>1, <2>1 DEF FileInv, ViewerMade, Shown, PopulateThrows
<1>. QED
  BY <1>5, <1>6, <1>7, <1>8 DEF FileInv

\* ... and when the file is searched again.
LEMMA SearchFileInv ==
  ASSUME FileInv, Search
  PROVE  FileInv'
<1>1. /\ Len(disk) <= MaxLength /\ pending' \in MatchSets(disk) /\ file_manager' = NotRead
      /\ diffs' = {} /\ viewer' = Nothing /\ searched' = disk /\ committed' = {}
      /\ disk' = disk
  BY DEF Search
<1>2. MatchesKept'
  <2>1. MatchesOf(disk, pending')
    BY <1>1, MatchSetsFacts
  <2>2. pending' \cup {d.slice : d \in diffs'} = pending'
    BY <1>1
  <2>3. IsFiniteSet({})
    BY FS_EmptySet
  <2>. QED
    BY <1>1, <2>1, <2>2, <2>3 DEF MatchesKept
<1>3. CopyKept'
  BY <1>1 DEF FileInv, CopyKept
<1>4. DiffsMade' /\ ViewerMade'
  BY <1>1 DEF DiffsMade, ViewerMade
<1>. QED
  BY <1>2, <1>3, <1>4 DEF FileInv

\* Every step keeps the invariant.
LEMMA NextFileInv ==
  ASSUME FileInv, [Next]_vars
  PROVE  FileInv'
<1>1. CASE ShowMatch
  <2>1. PICK slice \in pending, text \in Replacement : Populate(slice, text)
    BY <1>1 DEF ShowMatch
  <2>. QED
    BY <2>1, PopulateFileInv
<1>2. CASE ShowDiff
  <2>1. PICK diff \in diffs : Populate(diff.slice, diff.replacement_text)
    BY <1>2 DEF ShowDiff
  <2>2. diff.slice \in pending \cup {d.slice : d \in diffs} /\ diff.replacement_text \in Replacement
    BY DEF FileInv, DiffsMade
  <2>. QED
    BY <2>1, <2>2, PopulateFileInv
<1>3. CASE Decide
  BY <1>3, DecideFileInv
<1>4. CASE DeleteDiff
  BY <1>4, DeleteDiffFileInv
<1>5. CASE Commit
  BY <1>5, CommitFileInv
<1>6. CASE CommitThrows
  BY <1>6, StopFileInv DEF CommitThrows
<1>7. CASE Search
  BY <1>7, SearchFileInv
<1>8. CASE UNCHANGED vars
  <2>1. Copy' = Copy
    BY <1>8 DEF Copy, vars
  <2>. QED
    BY <1>8, <2>1 DEF FileInv, MatchesKept, CopyKept, DiffsMade, ViewerMade, DecideThrows,
         FirstLine, Shown, PopulateThrows, vars
<1>. QED
  BY <1>1, <1>2, <1>3, <1>4, <1>5, <1>6, <1>7, <1>8 DEF Next, Ended

\* The matches, the copy in memory, the history and what is shown always belong to
\* one search of the file.
THEOREM FileInvariant == Spec => []FileInv
<1>1. Init => FileInv
  BY InitFileInv
<1>2. FileInv /\ [Next]_vars => FileInv'
  BY NextFileInv
<1>. QED
  BY <1>1, <1>2, PTL DEF Spec

-----------------------------------------------------------------------------
(* The properties. *)

\* What is known of a match and of the copy it is shown from.
LEMMA MatchFacts ==
  ASSUME FileInv, NEW slice \in pending \cup {d.slice : d \in diffs}
  PROVE  /\ slice.start \in Nat /\ slice.end \in Nat /\ SizeOf(slice) \in Nat
         /\ SizeOf(slice) > 0 => slice.end = slice.start + SizeOf(slice) - 1
         /\ SizeOf(slice) = 0 /\ slice.start > 0 => IllFormed(slice)
<1>1. PICK m : m = Len(searched)
  OBVIOUS
<1>2. m \in 0..MaxLength
  BY <1>1, LenProperties, FileEditAssumption DEF FileInv, CopyKept
<1>3. slice \in Slices(searched) /\ Within(searched, slice)
  BY DEF FileInv, MatchesKept, MatchesOf
<1>. QED
  BY <1>1, <1>2, <1>3, SliceFacts

\* The line and the column of a diff lead to its first byte.
LEMMA HistoryHolds ==
  ASSUME FileInv
  PROVE  HistoryPointsAtMatch
<1>. SUFFICES ASSUME NEW diff \in diffs, Within(file_manager.contents, diff.slice)
              PROVE  /\ diff.start_line_no = LineOf(file_manager.contents, diff.slice.start)
                     /\ file_manager.line_start_byte_indices[diff.start_line_no + 1]
                          + diff.start_column = diff.slice.start
  BY DEF HistoryPointsAtMatch
<1>1. file_manager # NotRead
  BY DEF FileInv, CopyKept
<1>2. PICK c \in Seq(Char) : file_manager = FileManager(c) /\ Len(c) <= Len(searched)
  BY <1>1, CopyIs DEF FileInv
<1>3. file_manager.contents = c /\ file_manager.line_start_byte_indices = StartsOf(c)
  BY <1>2 DEF FileManager, StartsOf
<1>4. PICK slice : slice = diff.slice
  OBVIOUS
<1>5. PICK a, b, m : a = slice.start /\ b = SizeOf(slice) /\ m = Len(c)
  OBVIOUS
<1>6. /\ a \in Nat /\ slice.end \in Nat /\ b \in Nat
      /\ b = 0 /\ a > 0 => IllFormed(slice)
  BY <1>4, <1>5, MatchFacts
<1>7. /\ ~IllFormed(slice)
      /\ get_lines_spanning_byte_slice(file_manager, slice) # << >>
      /\ diff.start_line_no = FirstLine(slice).lineno
      /\ diff.start_column = FirstLine(slice).start_column
  BY <1>4 DEF FileInv, DiffsMade, DecideThrows
<1>8. a + b <= m /\ m \in Nat
  BY <1>2, <1>3, <1>4, <1>5, LenProperties DEF Within
<1>9. m # 0
  <2>1. ASSUME Len(c) = 0 PROVE FALSE
    <3>1. slice.start \in Nat
      BY <1>5, <1>6
    <3>2. get_lines_spanning_byte_slice(FileManager(c), slice) = << >>
      BY <1>2, <2>1, <3>1, NoLines
    <3>. QED
      BY <1>2, <1>7, <3>2
  <2>. QED
    BY <1>5, <2>1
<1>10. m > 0 /\ a < m
  BY <1>6, <1>7, <1>8, <1>9
<1>11. m < WordModulus
  <2>1. Len(searched) \in Nat /\ Len(searched) <= MaxLength
    BY LenProperties DEF FileInv, CopyKept
  <2>. QED
    BY <1>2, <1>5, <1>8, <2>1, FileEditAssumption, WordModulusAssumption
<1>12. PICK line : line = get_lines_spanning_byte_slice(FileManager(c), slice)[1]
  OBVIOUS
<1>13. /\ line.lineno = LineOf(c, a)
       /\ StartsOf(c)[line.lineno + 1] + line.start_column = a
  <2>1. /\ Len(c) > 0 /\ Len(c) < WordModulus /\ slice.start \in Nat
        /\ slice.start < Len(c) /\ slice.end \in Nat
    BY <1>5, <1>6, <1>10, <1>11
  <2>2. /\ line.lineno = LineOf(c, slice.start)
        /\ StartsOf(c)[line.lineno + 1] + line.start_column = slice.start
    BY <1>2, <1>7, <1>12, <2>1, FirstLineIs
  <2>. QED
    BY <1>5, <2>2
<1>14. FirstLine(slice) = line
  BY <1>2, <1>12 DEF FirstLine
<1>. QED
  BY <1>3, <1>4, <1>5, <1>7, <1>13, <1>14

\* What is shown is made from the copy of the file.
LEMMA ShownFacts ==
  ASSUME FileInv, viewer # Nothing
  PROVE  \E c \in Seq(Char), text \in Seq(Char), slice \in pending \cup {d.slice : d \in diffs} :
           /\ file_manager = FileManager(c)
           /\ viewer.slice = slice /\ viewer.replacement_text = text
           /\ ~IllFormed(slice) /\ slice.start <= Len(c)
           /\ viewer.prev_lines = get_lines_spanning_byte_slice(file_manager, slice)
           /\ viewer.new_lines = get_lines_spanning_byte_slice(
                                   replace_text_in_file(file_manager, slice, text),
                                   ReplacementSlice(slice, text))
<1>1. file_manager # NotRead
  BY DEF FileInv, CopyKept
<1>2. PICK c \in Seq(Char) : file_manager = FileManager(c)
  BY <1>1, CopyIs DEF FileInv
<1>3. Copy = file_manager
  BY <1>1, CopyIs DEF FileInv
<1>4. PICK slice \in pending \cup {d.slice : d \in diffs}, text \in Replacement :
        ~PopulateThrows(slice) /\ viewer = Shown(slice, text)
  BY DEF FileInv, ViewerMade
<1>5. text \in Seq(Char)
  BY ReplacementIsText
<1>6. ~IllFormed(slice) /\ ~(slice.start > Len(c))
  BY <1>2, <1>3, <1>4 DEF PopulateThrows, ReplaceThrows, FileManager
<1>7. slice.start <= Len(c)
  <2>1. slice.start \in Nat
    BY MatchFacts
  <2>2. Len(c) \in Nat
    BY LenProperties
  <2>. QED
    BY <1>6, <2>1, <2>2
<1>8. /\ viewer.slice = slice /\ viewer.replacement_text = text
      /\ viewer.prev_lines = get_lines_spanning_byte_slice(file_manager, slice)
      /\ viewer.new_lines = get_lines_spanning_byte_slice(
                              replace_text_in_file(file_manager, slice, text),
                              ReplacementSlice(slice, text))
  BY <1>3, <1>4 DEF Shown
<1>. QED
  BY <1>2, <1>5, <1>6, <1>7, <1>8

\* What is shown of a match is its lines.
LEMMA PrevLinesHold ==
  ASSUME FileInv
  PROVE  PrevLinesAreOfMatch
<1>. SUFFICES ASSUME viewer # Nothing, SizeOf(viewer.slice) > 0,
                     Within(file_manager.contents, viewer.slice)
              PROVE  LET contents == file_manager.contents
                         lines == viewer.prev_lines
                     IN /\ Linenos(lines) = {LineOf(contents, at) : at \in Bytes(viewer.slice)}
                        /\ \A i \in DOMAIN lines :
                             /\ lines[i].lineno = lines[1].lineno + i - 1
                             /\ Terminated(contents, lines[i].lineno) =>
                                  Append(lines[i].content, "newline")
                                    = LineHolds(contents, lines[i].lineno)
  BY DEF PrevLinesAreOfMatch
<1>1. PICK c \in Seq(Char), slice \in pending \cup {d.slice : d \in diffs} :
        /\ file_manager = FileManager(c) /\ viewer.slice = slice
        /\ viewer.prev_lines = get_lines_spanning_byte_slice(file_manager, slice)
  BY ShownFacts
<1>2. file_manager.contents = c
  BY <1>1 DEF FileManager
<1>3. /\ slice.start \in Nat /\ slice.end \in Nat /\ SizeOf(slice) \in Nat \ {0}
      /\ slice.end = slice.start + SizeOf(slice) - 1
  BY <1>1, MatchFacts
<1>4. PICK lines, m : /\ lines = get_lines_spanning_byte_slice(FileManager(c), slice)
                      /\ m = Len(c)
  OBVIOUS
<1>5. Within(c, slice)
  BY <1>1, <1>2
<1>6. /\ Linenos(lines) = {LineOf(c, at) : at \in Bytes(slice)}
      /\ \A i \in DOMAIN lines :
           /\ lines[i].lineno = lines[1].lineno + i - 1
           /\ Terminated(c, lines[i].lineno) =>
                Append(lines[i].content, "newline") = LineHolds(c, lines[i].lineno)
  BY <1>1, <1>3, <1>4, <1>5, PrevLines
<1>. QED
  BY <1>1, <1>2, <1>4, <1>6

\* What is shown of a replacement is its lines.
LEMMA NewLinesHold ==
  ASSUME FileInv
  PROVE  NewLinesHoldReplacement
<1>. SUFFICES ASSUME viewer # Nothing
              PROVE  LET contents ==
                           replace_text_in_file(file_manager, viewer.slice,
                                                viewer.replacement_text).contents
                         on(bytes) == {LineOf(contents, at) : at \in bytes \cap 0..(Len(contents) - 1)}
                         from == viewer.slice.start
                         to == viewer.slice.start + Len(viewer.replacement_text)
                     IN /\ on(from..(to - 1)) \subseteq Linenos(viewer.new_lines)
                        /\ Linenos(viewer.new_lines) \subseteq on((from - 1)..to)
  BY DEF NewLinesHoldReplacement
<1>1. PICK c \in Seq(Char), text \in Seq(Char), slice \in pending \cup {d.slice : d \in diffs} :
        /\ file_manager = FileManager(c)
        /\ viewer.slice = slice /\ viewer.replacement_text = text
        /\ slice.start <= Len(c)
        /\ viewer.new_lines = get_lines_spanning_byte_slice(
                                replace_text_in_file(file_manager, slice, text),
                                ReplacementSlice(slice, text))
  BY ShownFacts
<1>2. file_manager.contents = c
  BY <1>1 DEF FileManager
<1>3. slice.start \in Nat /\ SizeOf(slice) \in Nat
  BY MatchFacts
<1>4. PICK y, from, to, m :
        /\ y = ReplacedText(c, slice, text)
        /\ from = slice.start /\ to = slice.start + Len(text) /\ m = Len(y)
  OBVIOUS
<1>5. /\ replace_text_in_file(file_manager, slice, text) = FileManager(y)
      /\ replace_text_in_file(file_manager, slice, text).contents = y
  BY <1>2, <1>3, <1>4, ReplaceIs
<1>6. IsReplacement(c, slice, text, 0, Char)
  <2>1. 0 \in Nat /\ 0 <= slice.start
    BY <1>3
  <2>. QED
    BY <1>1, <1>3, <2>1 DEF IsReplacement
<1>7. y \in Seq(Char) /\ Len(y) \in Nat /\ Len(y) >= slice.start + Len(text)
  <2>1. AreEqual(y, ReplacedText(c, slice, text))
    BY <1>4 DEF AreEqual
  <2>. QED
    BY <1>6, <2>1, ReplacedKeeps
<1>8. from \in Nat /\ to \in Nat /\ from <= to /\ to <= m
  <2>1. Len(text) \in Nat
    BY LenProperties
  <2>. QED
    BY <1>3, <1>4, <1>7, <2>1
<1>9. PICK lines : lines = get_lines_spanning_byte_slice(FileManager(y), [start |-> from, end |-> to])
  OBVIOUS
<1>10. viewer.new_lines = lines
  BY <1>1, <1>4, <1>5, <1>9 DEF ReplacementSlice
<1>11. /\ {LineOf(y, at) : at \in (from..(to - 1)) \cap 0..(m - 1)} \subseteq Linenos(lines)
       /\ Linenos(lines) \subseteq {LineOf(y, at) : at \in ((from - 1)..to) \cap 0..(m - 1)}
  BY <1>4, <1>7, <1>8, <1>9, NewLines
<1>. QED
  BY <1>1, <1>4, <1>5, <1>10, <1>11

\* What a commit splices is what the previews show.
LEMMA CommitIs ==
  ASSUME FileInv, Commit
  PROVE  Spliced(file_manager.contents, Accepted) = PreviewedLastToFirst
<1>1. PICK contents : AreEqual(contents, file_manager.contents)
  BY DEF AreEqual
<1>2. EditsOf(Accepted, Sorted(Accepted), Cardinality(Accepted), contents, Len(contents), Char)
  BY <1>1, AcceptedEdits DEF Commit
<1>3. PICK file : file = file_manager
  OBVIOUS
<1>4. AreEqual(file.contents, contents)
  BY <1>1, <1>3 DEF AreEqual
<1>5. AreEqual(Spliced(contents, Accepted), PreviewedText(Sorted(Accepted), file))
  BY <1>2, <1>4, SplicedAsPreviewed
<1>. QED
  BY <1>3, <1>4, <1>5 DEF PreviewedLastToFirst, PreviewedText, AreEqual

\* After a commit of plain texts the file is the edited one.
LEMMA CommitExact ==
  ASSUME FileInv, Commit, Plain(BeforeEOF(searched)),
         \A diff \in Accepted : Plain(diff.replacement_text), Running'
  PROVE  disk' = Edited(BeforeEOF(searched), Accepted)
<1>1. /\ Accepted # {} /\ ~SpliceThrows(file_manager.contents, Accepted)
      /\ disk' = Printed(Spliced(file_manager.contents, Accepted))
  BY DEF Commit, WriteFile, Running
<1>3. PICK contents : AreEqual(contents, file_manager.contents)
  BY DEF AreEqual
<1>4. /\ file_manager # NotRead
      /\ EditsOf(Accepted, Sorted(Accepted), Cardinality(Accepted), contents, Len(contents), Char)
  BY <1>1, <1>3, AcceptedEdits
<1>2. contents \in Seq(Char) /\ contents = BeforeEOF(searched)
  <2>1. file_manager = FileManager(BeforeEOF(searched))
    BY <1>4, ReadIsBeforeEOF DEF FileInv, CopyKept
  <2>2. contents = BeforeEOF(searched)
    BY <1>3, <2>1 DEF FileManager, AreEqual
  <2>. QED
    BY <1>4, <2>2 DEF EditsOf
<1>5. contents \in Seq(PlainByte)
  BY <1>2, PlainText
<1>6. PICK q, n, m : q = Sorted(Accepted) /\ n = Cardinality(Accepted) /\ m = Len(contents)
  OBVIOUS
<1>7. EditsOf(Accepted, q, n, contents, m, PlainByte)
  <2>1. EditsIn(Accepted, m) /\ \A d \in Accepted : d.replacement_text \in Seq(Char)
    BY <1>4, <1>6 DEF EditsOf
  <2>2. ASSUME NEW d \in Accepted PROVE d.replacement_text \in Seq(PlainByte)
    BY <2>1, PlainText
  <2>. QED
    BY <1>5, <1>6, <2>1, <2>2 DEF EditsOf
<1>8. Spliced(contents, Accepted) \in Seq(PlainByte)
  BY <1>7, SplicedIsText
<1>9. AreEqual(Edited(contents, Accepted), Spliced(contents, Accepted))
  BY <1>7, SplicedIsEdited
<1>10. Printed(Spliced(contents, Accepted)) = Spliced(contents, Accepted)
  BY <1>8, PlainIsPrinted
<1>. QED
  BY <1>1, <1>2, <1>3, <1>9, <1>10 DEF AreEqual

\* Every step keeps the file exact.
LEMMA ExactStays ==
  ASSUME FileInv, CommitIsExact, [Next]_vars
  PROVE  CommitIsExact'
<1>1. CASE UNCHANGED <<disk, searched, committed>> /\ (Running' => Running)
  BY <1>1 DEF CommitIsExact
<1>2. CASE Commit
  <2>1. committed' = Accepted /\ searched' = searched /\ committed' # {}
    BY <1>2 DEF Commit
  <2>. QED
    BY <1>2, <2>1, CommitExact DEF CommitIsExact
<1>3. CASE Search
  BY <1>3 DEF Search, CommitIsExact
<1>4. ASSUME NEW slice, NEW text, Populate(slice, text)
      PROVE  UNCHANGED <<disk, searched, committed>> /\ (Running' => Running)
  BY <1>4 DEF Populate, Stop, Running
<1>5. CASE ShowMatch
  BY <1>1, <1>4, <1>5 DEF ShowMatch
<1>6. CASE ShowDiff
  BY <1>1, <1>4, <1>6 DEF ShowDiff
<1>7. CASE Decide
  BY <1>1, <1>7 DEF Decide, Stop, Running
<1>8. CASE DeleteDiff
  BY <1>1, <1>8 DEF DeleteDiff, Running
<1>9. CASE CommitThrows
  BY <1>1, <1>9 DEF CommitThrows, Stop, Running
<1>10. CASE UNCHANGED vars
  BY <1>1, <1>10 DEF vars, Running
<1>. QED
  BY <1>2, <1>3, <1>5, <1>6, <1>7, <1>8, <1>9, <1>10 DEF Next, Ended

\* add_current_change_to_diff_history keeps a line and a column that lead to the
\* match, for every file, every set of matches and any number of commits.
THEOREM HistoryLeadsToMatch == Spec => []HistoryPointsAtMatch
BY FileInvariant, HistoryHolds, PTL

\* get_lines_spanning_byte_slice finds exactly the lines of a match, and shows each
\* that ends with a newline whole.
THEOREM MatchIsShown == Spec => []PrevLinesAreOfMatch
BY FileInvariant, PrevLinesHold, PTL

\* The lines shown for a replacement hold all of it, and no line but those next to
\* it, wherever the match ends and however many lines the new text has.
THEOREM ReplacementIsShown == Spec => []NewLinesHoldReplacement
BY FileInvariant, NewLinesHold, PTL

\* A file is after any number of commits the one that was searched, with the
\* accepted diffs in place, less the first byte 0xFF and all that follows; nothing
\* else is changed, if neither the file nor a text has a percent sign or a NUL.
THEOREM CommitExactly == Spec => []CommitIsExact
<1>1. Init => FileInv /\ CommitIsExact
  BY InitFileInv DEF Init, CommitIsExact
<1>2. (FileInv /\ CommitIsExact) /\ [Next]_vars => (FileInv /\ CommitIsExact)'
  BY NextFileInv, ExactStays
<1>. QED
  BY <1>1, <1>2, PTL DEF Spec

\* One step of CommitIsPreviews.
CommitPreviewed ==
  disk' # disk \/ (committed' # committed /\ committed' # {}) =>
    \/ disk' = Printed(PreviewedLastToFirst)
    \/ UndefinedFormat(PreviewedLastToFirst) /\ status' = "crashed"

\* Every step that writes the file writes what the previews show.
LEMMA StepIsPreviewed ==
  ASSUME FileInv, [Next]_vars
  PROVE  CommitPreviewed
<1>1. CASE Commit
  <2>1. WriteFile(PreviewedLastToFirst)
    BY <1>1, CommitIs DEF Commit
  <2>. QED
    BY <2>1 DEF WriteFile, CommitPreviewed
<1>2. CASE ~Commit
  <2>1. disk' = disk /\ (committed' = committed \/ committed' = {})
    BY <1>2 DEF Next, ShowMatch, ShowDiff, Populate, Stop, Decide, DeleteDiff, CommitThrows,
         Search, Ended, vars
  <2>. QED
    BY <2>1 DEF CommitPreviewed
<1>. QED
  BY <1>1, <1>2

\* What commit_diffs_to_disk hands to fprintf, splicing from the first diff to the
\* last, is what replace_text_in_file gives from the last to the first.
THEOREM CommitsArePreviews == Spec => CommitIsPreviews
<1>1. FileInv /\ [Next]_vars => [CommitPreviewed]_vars
  BY StepIsPreviewed
<1>2. [][CommitPreviewed]_vars => CommitIsPreviews
  BY PTL DEF CommitIsPreviews, CommitPreviewed
<1>. QED
  BY <1>1, <1>2, FileInvariant, PTL DEF Spec
=============================================================================
