------------------------- MODULE BufferSearchProofs -------------------------
(***************************************************************************)
(* Proofs about BufferSearch, for every alphabet, query, and buffer: the   *)
(* matches reported are all those a search from left to right finds, by    *)
(* whichever algorithm, and no byte outside the buffer is read.            *)
(***************************************************************************)
EXTENDS BufferSearch, FoldLemmas, SequenceTheorems, TLAPS

-----------------------------------------------------------------------------
(* The query and the skip tables. *)

\* A query has bytes, and none in upper case when case does not matter.
LEMMA FindFacts ==
  ASSUME query \in Query
  PROVE  /\ f_len \in Nat \ {0}
         /\ \A k \in 0..(f_len - 1) :
              Find(k) \in Char /\ (CaseInsensitive => Find(k) \notin Upper)
<1>1. query \in Seq(Char) /\ query # << >>
  BY BufferSearchAssumption
<1>2. Len(query) \in Nat /\ Len(query) # 0
  BY <1>1, EmptySeq, LenProperties
<1>3. \A k \in 0..(Len(query) - 1) : k + 1 \in DOMAIN query /\ query[k + 1] \in Char
  BY <1>1, <1>2, LenProperties, ElementOfSeq
<1>4. CaseInsensitive => \A k \in DOMAIN query : query[k] \notin Upper
  BY DEF CaseInsensitive, is_lowercase
<1> QED
  BY <1>2, <1>3, <1>4 DEF f_len, Find, find

\* A byte that is a byte of the query but for case is one of its two cases.
LEMMA FoldCases ==
  ASSUME NEW c \in Char, NEW f \in Char, Fold(c) = f
  PROVE  \/ c = f
         \/ CaseInsensitive /\ f - CaseGap \in Upper /\ c = f - CaseGap
BY BufferSearchAssumption DEF Fold, tolower, Char

\* The skip by the byte read never passes a place that byte has in the query.
LEMMA AlphaSkipFacts ==
  ASSUME query \in Query, NEW c \in Char
  PROVE  /\ alpha_skip(c) \in 1..f_len
         /\ \A k \in 0..(f_len - 2) : Fold(c) = Find(k) => alpha_skip(c) <= f_len - 1 - k
<1> DEFINE places == {k \in 0..(f_len - 2) :
                        \/ c = Find(k)
                        \/ CaseInsensitive /\ c \in {tolower(Find(k)), toupper(Find(k))}}
<1>1. /\ f_len \in Nat \ {0}
      /\ \A k \in 0..(f_len - 1) : Find(k) \in Char
  BY FindFacts
<1>2. alpha_skip(c) = IF places = {} THEN f_len ELSE f_len - 1 - Max(places)
  BY DEF alpha_skip
<1>3. ASSUME NEW k \in 0..(f_len - 2), Fold(c) = Find(k)
      PROVE  k \in places
  <2>1. Find(k) \in Char
    BY <1>1
  <2>2. \/ c = Find(k)
        \/ CaseInsensitive /\ Find(k) - CaseGap \in Upper /\ c = Find(k) - CaseGap
    BY <1>3, <2>1, FoldCases
  <2> QED BY <2>2 DEF toupper
<1>4. CASE places = {}
  BY <1>1, <1>2, <1>3, <1>4
<1>5. CASE places # {}
  <2>1. f_len - 2 \in Nat
    BY <1>1, <1>5
  <2>2. places \subseteq 0..(f_len - 2)
    OBVIOUS
  <2> HIDE DEF places
  <2>3. Max(places) \in places /\ \A y \in places : Max(places) >= y
    BY <1>5, <2>1, <2>2, MaxProperties
  <2>4. Max(places) \in 0..(f_len - 2)
    BY <2>2, <2>3
  <2>5. alpha_skip(c) = f_len - 1 - Max(places)
    BY <1>2, <1>5
  <2> QED BY <1>1, <1>3, <2>1, <2>3, <2>4, <2>5
<1> QED BY <1>4, <1>5

\* suffix_len counts equal bytes, up to the first difference.
LEMMA SuffixLenFacts ==
  ASSUME query \in Query, NEW p \in 0..(f_len - 1)
  PROVE  /\ suffix_len(p) \in 0..p
         /\ \A n \in 0..p :
              (/\ \A r \in 0..(n - 1) : Find(p - r) = Find(f_len - 1 - r)
               /\ Find(p - n) # Find(f_len - 1 - n)) => (suffix_len(p) = n)
<1> DEFINE S == {r \in 0..p : r = p \/ Find(p - r) # Find(f_len - 1 - r)}
<1>1. f_len \in Nat \ {0}
  BY FindFacts
<1>2. S \subseteq Nat /\ S # {}
  <2>1. p \in S
    BY <1>1
  <2> QED BY <2>1
<1>3. suffix_len(p) = Min(S)
  BY DEF suffix_len
<1>4. Min(S) \in S /\ \A y \in S : Min(S) <= y
  <2> HIDE DEF S
  <2> QED BY <1>2, MinProperties
<1>5. ASSUME NEW n \in 0..p,
             \A r \in 0..(n - 1) : Find(p - r) = Find(f_len - 1 - r),
             Find(p - n) # Find(f_len - 1 - n)
      PROVE  suffix_len(p) = n
  <2>1. n \in S
    BY <1>5
  <2>2. \A r \in 0..(n - 1) : r \notin S
    BY <1>5
  <2>3. Min(S) <= n /\ Min(S) \in 0..p
    BY <2>1, <1>4
  <2>4. Min(S) \notin 0..(n - 1)
    BY <2>2, <1>4
  <2> HIDE DEF S
  <2> QED BY <2>3, <2>4, <1>3
<1> QED BY <1>3, <1>4, <1>5

\* The skip for a mismatch at place i is forward and never passes a shift by t
\* that agrees with the bytes already compared: with all those the shifted
\* query still covers when t > i, and with those behind i when t <= i, where
\* it must also differ at i.
LEMMA FindSkipFacts ==
  ASSUME query \in Query, NEW i \in 0..(f_len - 1)
  PROVE  /\ find_skip(i) \in Nat
         /\ f_len - i <= find_skip(i)
         /\ find_skip(i) <= f_len + f_len - 1 - i
         /\ \A t \in (i + 1)..f_len :
              is_prefix(t) => find_skip(i) <= t + f_len - 1 - i
         /\ \A t \in 1..i :
              (/\ \A k \in (i + 1)..(f_len - 1) : Find(k) = Find(k - t)
               /\ Find(i - t) # Find(i)) => find_skip(i) <= t + f_len - 1 - i
<1> DEFINE P == {p \in (i + 1)..f_len : is_prefix(p)}
<1>1. f_len \in Nat \ {0}
  BY FindFacts
<1>2. SuffixWrites(i) \subseteq 0..(f_len - 2)
  <2>1. ASSUME NEW p \in SuffixWrites(i)
        PROVE  p \in 0..(f_len - 2)
    <3>1. /\ p \in 0..(f_len - 1)
          /\ f_len - 1 - suffix_len(p) = i /\ Find(p - suffix_len(p)) # Find(i)
      BY DEF SuffixWrites
    <3>2. suffix_len(p) \in 0..p
      BY <3>1, SuffixLenFacts
    <3>3. ASSUME p = f_len - 1
          PROVE  FALSE
      <4>1. p - suffix_len(p) = i
        BY <1>1, <3>1, <3>2, <3>3
      <4> QED BY <3>1, <4>1
    <3> QED BY <1>1, <3>1, <3>3
  <2> QED BY <2>1
<1>3. CASE SuffixWrites(i) = {}
  <2>1. f_len \in P
    BY <1>1 DEF is_prefix
  <2>2. P \subseteq Nat /\ P # {}
    BY <1>1, <2>1
  <2>3. Min(P) \in P /\ \A y \in P : Min(P) <= y
    <3> HIDE DEF P
    <3> QED BY <2>2, MinProperties
  <2>4. last_prefix(i + 1) = Min(P)
    BY DEF last_prefix
  <2>5. find_skip(i) = Min(P) + f_len - (i + 1)
    BY <1>3, <2>4 DEF find_skip
  <2>6. Min(P) \in (i + 1)..f_len /\ \A t \in (i + 1)..f_len : is_prefix(t) => Min(P) <= t
    BY <2>3
  <2>7. ASSUME NEW t \in 1..i,
               \A k \in (i + 1)..(f_len - 1) : Find(k) = Find(k - t),
               Find(i - t) # Find(i)
        PROVE  f_len - 1 - t \in SuffixWrites(i)
    <3>1. f_len - 1 - t \in 0..(f_len - 1) /\ f_len - 1 - i \in 0..(f_len - 1 - t)
      BY <1>1
    <3>2. ASSUME NEW r \in 0..(f_len - 1 - i - 1)
          PROVE  Find(f_len - 1 - t - r) = Find(f_len - 1 - r)
      <4>1. f_len - 1 - r \in (i + 1)..(f_len - 1)
        BY <1>1
      <4>2. f_len - 1 - t - r = (f_len - 1 - r) - t
        BY <1>1
      <4> QED BY <4>1, <4>2, <2>7
    <3>3. /\ f_len - 1 - t - (f_len - 1 - i) = i - t
          /\ f_len - 1 - (f_len - 1 - i) = i
      BY <1>1
    <3>4. suffix_len(f_len - 1 - t) = f_len - 1 - i
      BY <3>1, <3>2, <3>3, <2>7, SuffixLenFacts
    <3> QED BY <3>1, <3>3, <3>4, <2>7 DEF SuffixWrites
  <2> HIDE DEF P
  <2> QED BY <1>1, <1>3, <2>5, <2>6, <2>7
<1>4. CASE SuffixWrites(i) # {}
  <2>1. f_len - 2 \in Nat
    BY <1>1, <1>2, <1>4
  <2>2. /\ Max(SuffixWrites(i)) \in SuffixWrites(i)
        /\ \A y \in SuffixWrites(i) : Max(SuffixWrites(i)) >= y
    BY <1>2, <1>4, <2>1, MaxProperties
  <2>3. find_skip(i) = f_len - 1 - Max(SuffixWrites(i)) + (f_len - 1 - i)
    BY <1>4 DEF find_skip
  <2>4. Max(SuffixWrites(i)) \in 0..(f_len - 2)
    BY <1>2, <2>2
  <2>5. f_len - 1 - i <= Max(SuffixWrites(i))
    <3>1. /\ Max(SuffixWrites(i)) \in 0..(f_len - 1)
          /\ f_len - 1 - suffix_len(Max(SuffixWrites(i))) = i
      BY <2>2 DEF SuffixWrites
    <3>2. suffix_len(Max(SuffixWrites(i))) \in 0..Max(SuffixWrites(i))
      BY <3>1, SuffixLenFacts
    <3> QED BY <1>1, <3>1, <3>2
  <2>6. ASSUME NEW t \in 1..i,
               \A k \in (i + 1)..(f_len - 1) : Find(k) = Find(k - t),
               Find(i - t) # Find(i)
        PROVE  f_len - 1 - t <= Max(SuffixWrites(i))
    <3>1. f_len - 1 - t \in 0..(f_len - 1) /\ f_len - 1 - i \in 0..(f_len - 1 - t)
      BY <1>1
    <3>2. ASSUME NEW r \in 0..(f_len - 1 - i - 1)
          PROVE  Find(f_len - 1 - t - r) = Find(f_len - 1 - r)
      <4>1. f_len - 1 - r \in (i + 1)..(f_len - 1)
        BY <1>1
      <4>2. f_len - 1 - t - r = (f_len - 1 - r) - t
        BY <1>1
      <4> QED BY <4>1, <4>2, <2>6
    <3>3. /\ f_len - 1 - t - (f_len - 1 - i) = i - t
          /\ f_len - 1 - (f_len - 1 - i) = i
      BY <1>1
    <3>4. suffix_len(f_len - 1 - t) = f_len - 1 - i
      BY <3>1, <3>2, <3>3, <2>6, SuffixLenFacts
    <3>5. f_len - 1 - t \in SuffixWrites(i)
      BY <3>1, <3>3, <3>4, <2>6 DEF SuffixWrites
    <3> QED BY <2>2, <3>5
  <2> QED BY <1>1, <2>3, <2>4, <2>5, <2>6
<1> QED BY <1>3, <1>4

\* What a byte of the buffer is when it is compared with a byte of the query.
LEMMA OccursAt ==
  ASSUME NEW p \in Int, NEW k \in 0..(f_len - 1), Occurs(p)
  PROVE  Fold(Byte(p + k)) = Find(k)
BY DEF Occurs

\* No occurrence starts between this alignment and the next one, and the next
\* one lies further on.
LEMMA SkipSound ==
  ASSUME query \in Query, buf \in Seq(Char), NEW pos \in (f_len - 1)..(buf_len - 1),
         Mismatches(pos) # {}
  PROVE  LET next == Skipped(pos, Max(Mismatches(pos))) IN
         /\ next \in Nat /\ next > pos
         /\ \A q \in (pos - (f_len - 1))..(next - f_len) : ~Occurs(q)
<1> DEFINE i == Max(Mismatches(pos))
           a == pos - (f_len - 1)
           c == Byte(a + i)
           next == Skipped(pos, i)
<1>1. f_len \in Nat \ {0} /\ f_len - 1 \in Nat /\ buf_len \in Nat
  BY FindFacts, LenProperties DEF buf_len
<1>2. /\ i \in Mismatches(pos) /\ \A k \in Mismatches(pos) : i >= k
      /\ i \in 0..(f_len - 1)
  <2>1. Mismatches(pos) \subseteq 0..(f_len - 1)
    BY DEF Mismatches
  <2>2. i \in Mismatches(pos) /\ \A k \in Mismatches(pos) : i >= k
    BY <1>1, <2>1, MaxProperties
  <2> QED BY <2>1, <2>2
<1> HIDE DEF i
<1>3. \A k \in 0..(f_len - 1) : pos - (f_len - 1 - k) = a + k
  BY <1>1
<1>4. Fold(c) # Find(i)
  <2>1. Fold(Byte(pos - (f_len - 1 - i))) # Find(i)
    BY <1>2 DEF Mismatches
  <2> QED BY <1>2, <1>3, <2>1
<1>5. \A k \in (i + 1)..(f_len - 1) : Fold(Byte(a + k)) = Find(k)
  <2> TAKE k \in (i + 1)..(f_len - 1)
  <2>1. k \in 0..(f_len - 1) /\ k \notin Mismatches(pos)
    BY <1>1, <1>2
  <2>2. Fold(Byte(pos - (f_len - 1 - k))) = Find(k)
    BY <2>1 DEF Mismatches
  <2> QED BY <1>3, <2>1, <2>2
<1>6. c \in Char
  <2>1. a + i + 1 \in 1..Len(buf)
    BY <1>1, <1>2 DEF buf_len
  <2> QED BY <2>1, ElementOfSeq, LenProperties DEF Byte
<1>7. alpha_skip(c) \in 1..f_len
  BY <1>6, AlphaSkipFacts
<1>8. find_skip(i) \in Nat /\ f_len - i <= find_skip(i) /\ find_skip(i) <= f_len + f_len - 1 - i
  BY <1>2, FindSkipFacts
<1>9. next = a + i + Max({alpha_skip(c), find_skip(i)})
  BY <1>2, <1>3 DEF Skipped
<1>10. /\ next = a + i + alpha_skip(c) \/ next = a + i + find_skip(i)
       /\ next >= a + i + find_skip(i)
       /\ next \in Int
  <2> HIDE DEF c
  <2>1. /\ Max({alpha_skip(c), find_skip(i)}) \in {alpha_skip(c), find_skip(i)}
        /\ Max({alpha_skip(c), find_skip(i)}) >= find_skip(i)
    BY <1>7, <1>8, MaxOfTwo
  <2> HIDE DEF next
  <2> QED BY <1>1, <1>2, <1>7, <1>8, <1>9, <2>1
<1>11. ASSUME NEW q \in a..(next - f_len), Occurs(q)
       PROVE  FALSE
  <2> DEFINE t == q - a
  <2>1. q \in Int /\ t \in Nat /\ q = a + t
    BY <1>1, <1>10
  <2>2. \A k \in 0..(f_len - 1) : Fold(Byte(q + k)) = Find(k)
    BY <1>11, <2>1, OccursAt
  <2>3. t # 0
    <3>1. ASSUME t = 0
          PROVE  FALSE
      <4>1. q + i = a + i
        BY <1>1, <1>2, <2>1, <3>1
      <4> QED BY <1>2, <1>4, <2>2, <4>1
    <3> QED BY <3>1
  <2>4. \A k \in 0..(f_len - 1) : k >= t => (k - t \in 0..(f_len - 1) /\ q + (k - t) = a + k)
    BY <1>1, <2>1
  <2>5. \A k \in (i + 1)..(f_len - 1) : k >= t => Find(k) = Find(k - t)
    <3> TAKE k \in (i + 1)..(f_len - 1)
    <3> HAVE k >= t
    <3>1. k \in 0..(f_len - 1)
      BY <1>2
    <3>2. Fold(Byte(a + k)) = Find(k - t)
      BY <2>2, <2>4, <3>1
    <3> QED BY <1>5, <3>2
  <2>6. t <= i => Fold(c) = Find(i - t)
    <3> HAVE t <= i
    <3>1. i - t \in 0..(f_len - 1) /\ q + (i - t) = a + i
      BY <1>2, <2>4
    <3> QED BY <2>2, <3>1
  <2> HIDE DEF t
  <2>7. next = a + i + alpha_skip(c) => FALSE
    <3> HAVE next = a + i + alpha_skip(c)
    <3>1. t + f_len <= i + alpha_skip(c)
      BY <1>1, <1>2, <1>7, <2>1
    <3>2. t <= i
      BY <1>1, <1>2, <1>7, <2>1, <3>1
    <3>3. i - t \in 0..(f_len - 2)
      BY <1>1, <1>2, <2>1, <2>3, <3>2
    <3>4. alpha_skip(c) <= f_len - 1 - (i - t)
      BY <1>6, <2>6, <3>2, <3>3, AlphaSkipFacts
    <3> QED BY <1>1, <1>2, <1>7, <2>1, <3>1, <3>4
  <2>8. next = a + i + find_skip(i) => FALSE
    <3> HAVE next = a + i + find_skip(i)
    <3>1. t + f_len <= i + find_skip(i)
      BY <1>1, <1>2, <1>8, <2>1
    <3>2. CASE t <= i
      <4>1. t \in 1..i
        BY <1>2, <2>1, <2>3, <3>2
      <4>2. \A k \in (i + 1)..(f_len - 1) : Find(k) = Find(k - t)
        BY <1>2, <2>1, <2>5, <3>2
      <4>3. Find(i - t) # Find(i)
        BY <1>4, <2>6, <3>2
      <4>4. find_skip(i) <= t + f_len - 1 - i
        BY <1>2, <4>1, <4>2, <4>3, FindSkipFacts
      <4> QED BY <1>1, <1>2, <1>8, <2>1, <3>1, <4>4
    <3>3. CASE t > i
      <4>1. t \in (i + 1)..f_len
        BY <1>1, <1>2, <1>8, <2>1, <3>1, <3>3
      <4>2. is_prefix(t)
        <5> SUFFICES ASSUME NEW k \in 0..(f_len - t - 1)
                     PROVE  Find(k) = Find(k + t)
          BY DEF is_prefix
        <5>1. PICK m \in (i + 1)..(f_len - 1) : m = k + t /\ m >= t /\ m - t = k
          BY <1>1, <1>2, <2>1, <4>1
        <5>2. Find(m) = Find(m - t)
          BY <2>5, <5>1
        <5> QED BY <5>1, <5>2
      <4>3. find_skip(i) <= t + f_len - 1 - i
        BY <1>2, <4>1, <4>2, FindSkipFacts
      <4> QED BY <1>1, <1>2, <1>8, <2>1, <3>1, <4>3
    <3> QED BY <1>2, <2>1, <3>2, <3>3
  <2> QED BY <1>10, <2>7, <2>8
<1>12. next \in Nat /\ next > pos
  <2> HIDE DEF next, c
  <2> QED BY <1>1, <1>2, <1>8, <1>10
<1> QED BY <1>11, <1>12 DEF i

-----------------------------------------------------------------------------
(* The hash of pairs. *)

\* Pair i has been filled in with capitalisation caps_set.
Filled(i, caps_set) ==
  i > filling.i \/ (i = filling.i /\ caps_set < filling.caps_set)

\* The pairs are filled in from the last to the first, so that every cell
\* holds a pair not before the one that is next; and each pair filled in is
\* found from its word over cells of pairs not before it.  Only queries that
\* are not too long for the hash have cells that hold their pair.
TableInv ==
  (kind = "literal" /\ f_len < CharCount - 1) =>
    /\ \A h \in 0..(H_SIZE - 1) :
         h_table[h] # 0 => h_table[h] \in (filling.i + 1)..(f_len - 1)
    /\ \A i \in 0..(f_len - 2), caps_set \in 0..LastCapsSet :
         Filled(i, caps_set) =>
           \E d \in 0..(H_SIZE - 1) :
             /\ h_table[Cell(PairWord(i, caps_set), d)] = i + 1
             /\ \A e \in 0..(d - 1) : h_table[Cell(PairWord(i, caps_set), e)] >= i + 1

LEMMA HSizeFacts ==
  /\ H_SIZE \in Nat \ {0}
  /\ \A word \in Nat, d \in Nat : Cell(word, d) \in 0..(H_SIZE - 1)
<1>1. CharCount \in Nat \ {0} /\ H_SIZE = CharCount * CharCount
  BY BufferSearchAssumption DEF H_SIZE
<1>2. H_SIZE \in Nat \ {0}
  BY <1>1
<1>3. ASSUME NEW word \in Nat, NEW d \in Nat
      PROVE  Cell(word, d) \in 0..(H_SIZE - 1)
  <2>1. word + d \in Nat
    OBVIOUS
  <2>2. ASSUME NEW n \in Nat, NEW m \in Nat \ {0}
        PROVE  n % m \in 0..(m - 1)
    BY <2>2
  <2> QED BY <1>2, <2>1, <2>2 DEF Cell
<1> QED BY <1>2, <1>3

\* A byte's capital is a byte, and words are numbers.
LEMMA WordFacts ==
  /\ \A c \in Char : Capital(c) \in Char
  /\ \A c \in Char, d \in Char : Word(c, d) \in Nat
<1>1. CharCount \in Nat \ {0} /\ CaseGap \in 1..(CharCount - 1)
  BY BufferSearchAssumption
<1>2. ASSUME NEW n \in Int, NEW m \in Nat \ {0}
      PROVE  n % m \in 0..(m - 1)
  BY <1>2
<1>3. ASSUME NEW c \in Char
      PROVE  Capital(c) \in Char
  <2>1. c - CaseGap \in Int
    BY <1>1 DEF Char
  <2> QED BY <1>1, <1>2, <2>1 DEF Capital, Char
<1>4. ASSUME NEW c \in Char, NEW d \in Char
      PROVE  Word(c, d) \in Nat
  <2>1. CharCount * d \in Nat /\ c \in Nat
    BY <1>1 DEF Char
  <2> QED BY <2>1 DEF Word
<1> QED BY <1>3, <1>4

\* Two neighbouring bytes that are those of pair i but for case are the word
\* of the pair in one of the capitalisations filled in.
LEMMA WordOfPair ==
  ASSUME query \in Query, NEW i \in 0..(f_len - 2),
         NEW b \in Char, NEW c \in Char, Fold(b) = Find(i), Fold(c) = Find(i + 1)
  PROVE  \E caps_set \in 0..LastCapsSet : PairWord(i, caps_set) = Word(b, c)
<1>1. f_len \in Nat \ {0} /\ \A k \in 0..(f_len - 1) : Find(k) \in Char
  BY FindFacts
<1>2. i \in 0..(f_len - 1) /\ i + 1 \in 0..(f_len - 1)
  BY <1>1
<1>3. Find(i) \in Char /\ Find(i + 1) \in Char
  BY <1>1, <1>2
<1>4. ASSUME NEW x \in Char, NEW f \in Char, Fold(x) = f
      PROVE  x = f \/ (CaseInsensitive /\ x = Capital(f))
  <2>1. \/ x = f
        \/ CaseInsensitive /\ f - CaseGap \in Upper /\ x = f - CaseGap
    BY <1>4, FoldCases
  <2>2. CharCount \in Nat \ {0} /\ CaseGap \in 1..(CharCount - 1)
    BY BufferSearchAssumption
  <2>3. ASSUME x = f - CaseGap
        PROVE  x = Capital(f)
    <3>1. \A n \in 0..(CharCount - 1) : n % CharCount = n
      BY <2>2
    <3> QED BY <2>3, <3>1 DEF Capital, Char
  <2> QED BY <2>1, <2>3
<1>5. /\ b = Find(i) \/ (CaseInsensitive /\ b = Capital(Find(i)))
      /\ c = Find(i + 1) \/ (CaseInsensitive /\ c = Capital(Find(i + 1)))
  BY <1>3, <1>4
<1>6. /\ 0 % 2 = 0 /\ 1 % 2 = 1 /\ 2 % 2 = 0 /\ 3 % 2 = 1
      /\ 0 \div 2 = 0 /\ 1 \div 2 = 0 /\ 2 \div 2 = 1 /\ 3 \div 2 = 1
  OBVIOUS
<1>7. /\ PairWord(i, 0) = Word(Find(i), Find(i + 1))
      /\ PairWord(i, 1) = Word(Capital(Find(i)), Find(i + 1))
      /\ PairWord(i, 2) = Word(Find(i), Capital(Find(i + 1)))
      /\ PairWord(i, 3) = Word(Capital(Find(i)), Capital(Find(i + 1)))
  BY <1>6 DEF PairWord
<1>8. 0 \in 0..LastCapsSet /\ (CaseInsensitive => (0..3) \subseteq 0..LastCapsSet)
  BY DEF LastCapsSet
<1>9. CASE b = Find(i) /\ c = Find(i + 1)
  BY <1>7, <1>8, <1>9
<1>10. CASE CaseInsensitive
  <2>1. 0 \in 0..LastCapsSet /\ 1 \in 0..LastCapsSet /\ 2 \in 0..LastCapsSet /\ 3 \in 0..LastCapsSet
    BY <1>8, <1>10
  <2> QED BY <1>5, <1>7, <2>1
<1> QED BY <1>5, <1>9, <1>10

\* The cells tried for a pair of the query lie in the table.
LEMMA PairWordFacts ==
  ASSUME query \in Query, NEW i \in 0..(f_len - 2), NEW caps_set \in 0..3
  PROVE  /\ PairWord(i, caps_set) \in Nat
         /\ \A d \in Nat : Cell(PairWord(i, caps_set), d) \in 0..(H_SIZE - 1)
<1>1. f_len \in Nat \ {0} /\ \A k \in 0..(f_len - 1) : Find(k) \in Char
  BY FindFacts
<1>2. Find(i) \in Char /\ Find(i + 1) \in Char
  <2>1. i \in 0..(f_len - 1) /\ i + 1 \in 0..(f_len - 1)
    BY <1>1
  <2> QED BY <1>1, <2>1
<1>3. Capital(Find(i)) \in Char /\ Capital(Find(i + 1)) \in Char
  BY <1>2, WordFacts
<1>4. PairWord(i, caps_set) \in Nat
  BY <1>2, <1>3, WordFacts DEF PairWord
<1> QED BY <1>4, HSizeFacts

\* The cells of a full table tried for a sample put forward only starts that
\* the sample stands for, and if an occurrence starts at one of them, the first
\* hit of the chain is there or further left.
LEMMA HashFinds ==
  ASSUME kind = "literal", query \in Query, buf \in Seq(Char), buf_offset \in Nat,
         h_table \in [0..(H_SIZE - 1) -> Char],
         filling.i \in Int, filling.i < 0, TableInv, UsesHash,
         at \in Nat, buf_offset + f_len - 2 <= at, SampleFits
  PROVE  /\ \A d \in Probes(at) : Candidate(at, d) \in (at - Step + 1)..at
         /\ Hits(at) # {} => Min(Hits(at)) \in Hits(at)
         /\ \A p \in (at - Step + 1)..at :
              Occurs(p) => Hits(at) # {} /\ Candidate(at, Min(Hits(at))) <= p
<1>1. f_len \in Nat \ {0} /\ f_len >= 3 /\ f_len < CharCount - 1 /\ buf_len \in Nat
  BY FindFacts, LenProperties DEF UsesHash, buf_len
<1>2. at + f_len <= buf_len
  BY DEF SampleFits
<1>3. \A k \in 0..(buf_len - 1) : Byte(k) \in Char
  <2> TAKE k \in 0..(buf_len - 1)
  <2>1. k + 1 \in 1..Len(buf)
    BY <1>1 DEF buf_len
  <2> QED BY <2>1, ElementOfSeq DEF Byte
<1>4. Byte(at) \in Char /\ Byte(at + 1) \in Char
  BY <1>1, <1>2, <1>3
<1> DEFINE w == Word(Byte(at), Byte(at + 1))
<1>5. w \in Nat
  BY <1>4, WordFacts
<1>6. \A d \in Nat : Cell(w, d) \in 0..(H_SIZE - 1) /\ Probe(at, d) = h_table[Cell(w, d)]
  BY <1>5, HSizeFacts DEF Probe
<1> HIDE DEF w
<1>7. ASSUME NEW d \in Probes(at)
      PROVE  Probe(at, d) \in 1..(f_len - 1)
  <2>1. d \in 0..(H_SIZE - 1) /\ Probe(at, d) # 0
    <3>1. d \in 0..(H_SIZE - 1) /\ \A e \in 0..d : Probe(at, e) # 0
      BY DEF Probes
    <3> QED BY <3>1, HSizeFacts
  <2>2. d \in Nat
    BY <2>1, HSizeFacts
  <2>3. Probe(at, d) \in Char
    BY <1>6, <2>2
  <2>4. Probe(at, d) \in (filling.i + 1)..(f_len - 1)
    BY <1>1, <1>6, <2>1, <2>2 DEF TableInv
  <2> QED BY <1>1, <2>1, <2>3, <2>4 DEF Char
<1>8. \A d \in Probes(at) : Candidate(at, d) \in (at - Step + 1)..at
  BY <1>1, <1>7 DEF Candidate, Step
<1>9. Hits(at) \subseteq Nat /\ Hits(at) \subseteq Probes(at)
  <2>1. Hits(at) \subseteq Probes(at)
    BY DEF Hits
  <2>2. Probes(at) \subseteq 0..(H_SIZE - 1)
    BY DEF Probes
  <2>3. 0..(H_SIZE - 1) \subseteq Nat
    BY HSizeFacts
  <2> QED BY <2>1, <2>2, <2>3
<1>10. Hits(at) # {} => (Min(Hits(at)) \in Hits(at) /\ \A y \in Hits(at) : Min(Hits(at)) <= y)
  BY <1>9, MinProperties
<1>11. ASSUME NEW p \in (at - Step + 1)..at, Occurs(p)
       PROVE  Hits(at) # {} /\ Candidate(at, Min(Hits(at))) <= p
  <2> DEFINE i == at - p
  <2>1. i \in 0..(f_len - 2) /\ p \in Int /\ at = p + i /\ at + 1 = p + (i + 1)
    BY <1>1 DEF Step
  <2>2. i \in 0..(f_len - 1) /\ i + 1 \in 0..(f_len - 1)
    BY <1>1, <2>1
  <2> HIDE DEF i
  <2>3. Fold(Byte(at)) = Find(i) /\ Fold(Byte(at + 1)) = Find(i + 1)
    <3>1. Fold(Byte(p + i)) = Find(i) /\ Fold(Byte(p + (i + 1))) = Find(i + 1)
      BY <1>11, <2>1, <2>2, OccursAt
    <3> QED BY <2>1, <3>1
  <2>4. PICK caps_set \in 0..LastCapsSet : PairWord(i, caps_set) = w
    BY <1>4, <2>1, <2>3, WordOfPair DEF w
  <2>5. Filled(i, caps_set)
    BY <2>1 DEF Filled
  <2>6. PICK d \in 0..(H_SIZE - 1) :
          /\ h_table[Cell(w, d)] = i + 1
          /\ \A e \in 0..(d - 1) : h_table[Cell(w, e)] >= i + 1
    BY <1>1, <2>1, <2>4, <2>5 DEF TableInv
  <2>7. d \in Nat
    BY HSizeFacts
  <2>8. Probe(at, d) = i + 1 /\ \A e \in 0..(d - 1) : Probe(at, e) >= i + 1
    <3>1. \A e \in 0..(d - 1) : e \in Nat
      BY <2>7
    <3> QED BY <1>6, <2>6, <2>7, <3>1
  <2>9. \A e \in 0..d : Probe(at, e) # 0
    <3> TAKE e \in 0..d
    <3>1. e = d \/ e \in 0..(d - 1)
      BY <2>7
    <3>2. Probe(at, e) = i + 1 \/ Probe(at, e) >= i + 1
      BY <2>8, <3>1
    <3>3. e \in Nat
      BY <2>7
    <3>4. Probe(at, e) \in Int
      BY <1>6, <3>3, BufferSearchAssumption DEF Char
    <3> QED BY <2>1, <3>2, <3>4
  <2>10. d \in Hits(at)
    <3>1. Candidate(at, d) = p
      BY <2>1, <2>8 DEF Candidate
    <3> QED BY <1>11, <2>9, <3>1 DEF Hits, Probes
  <2>11. Min(Hits(at)) \in Probes(at) /\ Min(Hits(at)) <= d
    BY <1>9, <1>10, <2>10
  <2>12. Min(Hits(at)) \in Nat
    BY <1>9, <1>10, <2>10
  <2>13. Probe(at, Min(Hits(at))) >= i + 1
    <3>1. Min(Hits(at)) = d \/ Min(Hits(at)) \in 0..(d - 1)
      BY <2>7, <2>11, <2>12
    <3>2. i + 1 >= i + 1
      BY <2>1
    <3> QED BY <2>8, <3>1, <3>2
  <2>14. Probe(at, Min(Hits(at))) \in 1..(f_len - 1)
    BY <1>7, <2>11
  <2>15. Candidate(at, Min(Hits(at))) <= p
    BY <1>1, <2>1, <2>13, <2>14 DEF Candidate
  <2> QED BY <2>10, <2>15
<1> QED BY <1>8, <1>10, <1>11

-----------------------------------------------------------------------------
(* The inductive invariant. *)

\* A regex match ends no earlier than it starts.
SpansForward ==
  (kind # "literal" /\ buf # << >>) =>
    \A p \in 0..buf_len : spans[p] = NoMatch \/ p <= spans[p]

\* The table is complete once a buffer is read.
TableComplete == pc # "setup" => filling.i < 0

\* What is known at each point of a scan: the matches so far are the first
\* ones, the rest of the buffer is open, and nothing starts in the part of it
\* that the algorithm has left behind.
ScanInv ==
  /\ pc \in {"align", "sample", "tail"} => kind = "literal"
  /\ (pc \in {"scan", "align", "sample", "tail", "done"} /\ kind # "dot") =>
      /\ buf # << >>
      /\ LeftmostInOrder
      /\ Open(Len(matches) + 1) = buf_offset..buf_len
      /\ pc = "align" =>
           /\ buf_offset + f_len - 1 <= at
           /\ \A p \in buf_offset..(at - f_len) : ~Occurs(p)
      /\ pc = "sample" =>
           /\ UsesHash
           /\ buf_offset + f_len - 2 <= at
           /\ \A p \in buf_offset..(at - Step) : ~Occurs(p)
      /\ pc = "tail" =>
           /\ buf_offset <= at
           /\ \A p \in buf_offset..(at - 1) : ~Occurs(p)
      /\ pc = "done" =>
           \A p \in buf_offset..(buf_len - 1) : ~StartsMatch(p)

\* Before a scan there are no matches.
Idle == pc \in {"setup", "ready"} => matches = << >> /\ buf = << >> /\ buf_offset = 0

IInv == TypeOK /\ SpansForward /\ TableInv /\ TableComplete /\ ScanInv /\ Idle

LEMMA InitInv == Init => IInv
<1> SUFFICES ASSUME Init PROVE IInv
  OBVIOUS
<1>1. /\ f_len \in Nat
      /\ IF kind = "literal" THEN query \in Query ELSE query = << >>
  <2>1. CASE kind = "literal"
    BY <2>1, FindFacts DEF Init
  <2>2. CASE kind # "literal"
    BY <2>2, EmptySeq, LenProperties DEF Init, f_len
  <2> QED BY <2>1, <2>2
<1>2. buf_len = 0
  BY DEF Init, buf_len
<1>3. TypeOK
  <2>1. 0 \in Char
    BY BufferSearchAssumption DEF Char
  <2>2. filling \in [i : -2..(f_len - 2), caps_set : 0..3]
    BY <1>1 DEF Init, f_len
  <2>3. h_table \in [0..(H_SIZE - 1) -> Char]
    BY <2>1 DEF Init
  <2> QED BY <1>1, <1>2, <2>2, <2>3 DEF Init, TypeOK
<1>4. TableInv
  <2>1. ASSUME NEW i \in 0..(f_len - 2), NEW caps_set \in 0..LastCapsSet
        PROVE  ~Filled(i, caps_set)
    <3>1. filling.i = f_len - 2 /\ filling.caps_set = 0
      BY DEF Init, f_len
    <3>2. LastCapsSet \in Nat
      BY DEF LastCapsSet
    <3> QED BY <1>1, <3>1, <3>2 DEF Filled
  <2>2. \A h \in 0..(H_SIZE - 1) : h_table[h] = 0
    BY DEF Init
  <2> QED BY <2>1, <2>2 DEF TableInv
<1> QED
  BY <1>3, <1>4 DEF Init, IInv, SpansForward, TableComplete, ScanInv, Idle

\* A cell is filled without breaking the chains of those before it.
LEMMA FillCellKeepsTable ==
  ASSUME TypeOK, TableInv, FillCell
  PROVE  TableInv' /\ TypeOK'
<1>1. /\ f_len \in Nat
      /\ filling.i \in 0..(f_len - 2) /\ filling.caps_set \in 0..3
      /\ kind = "literal" /\ query \in Query
  <2>1. filling.i \in 0..(f_len - 2) /\ filling.caps_set \in 0..3
    BY DEF FillCell, TypeOK
  <2>2. kind = "literal"
    <3>1. ASSUME kind # "literal"
          PROVE  f_len = 0
      BY <3>1 DEF TypeOK, f_len
    <3> QED BY <2>1, <3>1
  <2>3. query \in Query
    BY <2>2 DEF TypeOK
  <2> QED BY <2>1, <2>2, <2>3, FindFacts
<1> DEFINE i0 == filling.i
           word == PairWord(filling.i, filling.caps_set)
<1>2. PICK d0 \in 0..(H_SIZE - 1) :
        /\ IsFreeCell(word, d0)
        /\ h_table' = [h_table EXCEPT ![Cell(word, d0)] = (i0 + 1) % CharCount]
  BY DEF FillCell
<1>3. /\ UNCHANGED <<queryVars, pc, bufVars, buf_offset, matches, at>>
      /\ filling' = NextPair(filling)
  BY DEF FillCell
<1>4. H_SIZE \in Nat \ {0} /\ \A d \in 0..(H_SIZE - 1) : d \in Nat
  BY HSizeFacts
<1>5. /\ Cell(word, d0) \in 0..(H_SIZE - 1) /\ h_table[Cell(word, d0)] = 0
      /\ \A e \in 0..(d0 - 1) : h_table[Cell(word, e)] # 0
  BY <1>1, <1>2, <1>4, PairWordFacts DEF IsFreeCell
<1>6. h_table \in [0..(H_SIZE - 1) -> Char] /\ CharCount \in Nat \ {0}
  BY BufferSearchAssumption DEF TypeOK
<1>7. (i0 + 1) % CharCount \in Char
  <2>1. ASSUME NEW n \in Nat, NEW m \in Nat \ {0}
        PROVE  n % m \in 0..(m - 1)
    BY <2>1
  <2>2. i0 + 1 \in Nat
    BY <1>1
  <2> HIDE DEF i0
  <2> QED BY <1>6, <2>1, <2>2 DEF Char
<1>8. f_len' = f_len /\ H_SIZE' = H_SIZE /\ LastCapsSet' = LastCapsSet
      /\ \A i, c : PairWord(i, c)' = PairWord(i, c)
      /\ \A v, d : Cell(v, d)' = Cell(v, d)
  BY <1>3 DEF queryVars, f_len, H_SIZE, LastCapsSet, CaseInsensitive, PairWord, Find, find, Cell
<1>9. LastCapsSet \in {0, 3}
  BY DEF LastCapsSet
<1>10. /\ filling' \in [i : -2..(f_len - 2), caps_set : 0..3]
       /\ \/ /\ filling.caps_set < LastCapsSet
             /\ filling'.i = i0 /\ filling'.caps_set = filling.caps_set + 1
          \/ /\ filling.caps_set >= LastCapsSet
             /\ filling'.i = i0 - 1 /\ filling'.caps_set = 0
  <2>1. filling \in [i : -2..(f_len - 2), caps_set : 0..3]
    BY DEF TypeOK
  <2>2. CASE filling.caps_set < LastCapsSet
    <3>1. filling' = [filling EXCEPT !.caps_set = @ + 1]
      BY <1>3, <2>2 DEF NextPair
    <3> QED BY <1>1, <1>9, <2>1, <2>2, <3>1
  <2>3. CASE ~(filling.caps_set < LastCapsSet)
    <3>1. filling' = [i |-> filling.i - 1, caps_set |-> 0]
      BY <1>3, <2>3 DEF NextPair
    <3> QED BY <1>1, <1>9, <2>1, <2>3, <3>1
  <2> QED BY <2>2, <2>3
<1>11. TypeOK'
  <2>1. h_table' \in [0..(H_SIZE - 1) -> Char]
    BY <1>2, <1>6, <1>7
  <2> QED BY <1>3, <1>8, <1>10, <2>1
          DEF TypeOK, queryVars, bufVars, buf_len
<1>12. ASSUME f_len < CharCount - 1
       PROVE  TableInv'
  <2>1. (i0 + 1) % CharCount = i0 + 1
    <3>1. i0 + 1 \in 0..(CharCount - 1)
      BY <1>1, <1>6, <1>12
    <3>2. \A n \in 0..(CharCount - 1) : n % CharCount = n
      BY <1>6
    <3> QED BY <3>1, <3>2
  <2>2. /\ \A h \in 0..(H_SIZE - 1) :
             h_table[h] # 0 => h_table[h] \in (i0 + 1)..(f_len - 1)
        /\ \A i \in 0..(f_len - 2), caps_set \in 0..LastCapsSet :
             Filled(i, caps_set) =>
               \E d \in 0..(H_SIZE - 1) :
                 /\ h_table[Cell(PairWord(i, caps_set), d)] = i + 1
                 /\ \A e \in 0..(d - 1) : h_table[Cell(PairWord(i, caps_set), e)] >= i + 1
    BY <1>1, <1>12 DEF TableInv
  <2>3. \A h \in 0..(H_SIZE - 1) :
          h_table'[h] = IF h = Cell(word, d0) THEN i0 + 1 ELSE h_table[h]
    BY <1>2, <1>6, <2>1
  <2>4. ASSUME NEW h \in 0..(H_SIZE - 1), h_table'[h] # 0
        PROVE  h_table'[h] \in (filling'.i + 1)..(f_len - 1)
    <3>1. h_table'[h] \in (i0 + 1)..(f_len - 1)
      <4>1. CASE h = Cell(word, d0)
        BY <1>1, <2>3, <4>1
      <4>2. CASE h # Cell(word, d0)
        BY <2>2, <2>3, <2>4, <4>2
      <4> QED BY <4>1, <4>2
    <3> QED BY <1>1, <1>10, <3>1
  <2>5. ASSUME NEW i \in 0..(f_len - 2), NEW caps_set \in 0..LastCapsSet,
               Filled(i, caps_set)'
        PROVE  \E d \in 0..(H_SIZE - 1) :
                 /\ h_table'[Cell(PairWord(i, caps_set), d)] = i + 1
                 /\ \A e \in 0..(d - 1) : h_table'[Cell(PairWord(i, caps_set), e)] >= i + 1
    <3>1. caps_set \in 0..3 /\ i \in Nat
      BY <1>1, <1>9
    <3>2. \A d \in Nat : Cell(PairWord(i, caps_set), d) \in 0..(H_SIZE - 1)
      BY <1>1, <3>1, PairWordFacts
    <3>3. Filled(i, caps_set) \/ (i = i0 /\ caps_set = filling.caps_set)
      BY <1>1, <1>9, <1>10, <2>5, <3>1 DEF Filled
    <3>4. CASE Filled(i, caps_set)
      <4>1. PICK d \in 0..(H_SIZE - 1) :
              /\ h_table[Cell(PairWord(i, caps_set), d)] = i + 1
              /\ \A e \in 0..(d - 1) : h_table[Cell(PairWord(i, caps_set), e)] >= i + 1
        BY <2>2, <3>4
      <4>2. d \in Nat /\ \A e \in 0..(d - 1) : e \in Nat
        BY <1>4
      <4>3. \A h \in 0..(H_SIZE - 1) : h_table[h] # 0 => h_table'[h] = h_table[h]
        BY <1>5, <2>3
      <4>4. h_table'[Cell(PairWord(i, caps_set), d)] = i + 1
        BY <3>1, <3>2, <4>1, <4>2, <4>3
      <4>5. ASSUME NEW e \in 0..(d - 1)
            PROVE  h_table'[Cell(PairWord(i, caps_set), e)] >= i + 1
        <5>1. /\ h_table[Cell(PairWord(i, caps_set), e)] >= i + 1
              /\ Cell(PairWord(i, caps_set), e) \in 0..(H_SIZE - 1)
          BY <3>2, <4>1, <4>2
        <5>2. h_table[Cell(PairWord(i, caps_set), e)] # 0
          BY <3>1, <5>1
        <5> QED BY <4>3, <5>1, <5>2
      <4> QED BY <4>4, <4>5
    <3>5. CASE i = i0 /\ caps_set = filling.caps_set
      <4>1. d0 \in Nat /\ \A e \in 0..(d0 - 1) : e \in Nat
        BY <1>4
      <4>2. PairWord(i, caps_set) = word
        BY <3>5
      <4>3. h_table'[Cell(word, d0)] = i + 1
        BY <1>5, <2>3, <3>5
      <4>4. ASSUME NEW e \in 0..(d0 - 1)
            PROVE  h_table'[Cell(word, e)] >= i + 1
        <5>1. h_table[Cell(word, e)] # 0 /\ Cell(word, e) \in 0..(H_SIZE - 1)
          BY <1>5, <3>2, <4>1, <4>2
        <5>2. h_table'[Cell(word, e)] = h_table[Cell(word, e)]
          BY <1>5, <2>3, <5>1
        <5>3. h_table[Cell(word, e)] \in (i0 + 1)..(f_len - 1)
          BY <2>2, <5>1
        <5> QED BY <1>1, <3>5, <5>2, <5>3
      <4> HIDE DEF word
      <4> QED BY <4>2, <4>3, <4>4
    <3> QED BY <3>3, <3>4, <3>5
  <2> QED BY <1>8, <2>4, <2>5 DEF TableInv
<1>13. ASSUME ~(f_len < CharCount - 1)
       PROVE  TableInv'
  BY <1>8, <1>13 DEF TableInv
<1> QED BY <1>11, <1>12, <1>13

\* What is an occurrence depends on the query and the buffer alone.
LEMMA SameMatches ==
  ASSUME UNCHANGED <<queryVars, bufVars>>
  PROVE  /\ f_len' = f_len /\ buf_len' = buf_len
         /\ \A p : Occurs(p)' <=> Occurs(p)
         /\ \A p : StartsMatch(p)' <=> StartsMatch(p)
         /\ \A p : EndOfMatch(p)' = EndOfMatch(p)
BY DEF queryVars, bufVars, f_len, buf_len, Occurs, StartsMatch, EndOfMatch, Byte, Find, find,
       Fold, CaseInsensitive

\* Open and LeftmostInOrder of any matches ms in the present buffer.
OpenOf(ms, k) ==
  IF k = 1 THEN 0..buf_len ELSE (ms[k - 1].end..buf_len) \ {ms[k - 1].start}

InOrder(ms) ==
  \A k \in DOMAIN ms :
    /\ ms[k].start \in OpenOf(ms, k) /\ StartsMatch(ms[k].start)
    /\ ms[k].end = EndOfMatch(ms[k].start)
    /\ \A p \in OpenOf(ms, k) : p < ms[k].start => ~StartsMatch(p)

LEMMA OrderNow ==
  ASSUME kind # "dot"
  PROVE  /\ LeftmostInOrder <=> InOrder(matches)
         /\ Open(Len(matches) + 1) = OpenOf(matches, Len(matches) + 1)
BY DEF LeftmostInOrder, InOrder, Open, OpenOf

LEMMA OrderNext ==
  ASSUME UNCHANGED <<queryVars, bufVars>>, kind # "dot"
  PROVE  /\ LeftmostInOrder' <=> InOrder(matches')
         /\ Open(Len(matches) + 1)' = OpenOf(matches', Len(matches') + 1)
BY DEF LeftmostInOrder, InOrder, Open, OpenOf, queryVars, bufVars, f_len, buf_len, Occurs,
       StartsMatch, EndOfMatch, Byte, Find, find, Fold, CaseInsensitive

\* The parts of the invariant that a step of the scan does not touch.
LEMMA ScanFrame ==
  ASSUME IInv, UNCHANGED <<queryVars, tableVars, bufVars>>, pc # "setup"
  PROVE  SpansForward' /\ TableInv' /\ TableComplete'
<1>1. SpansForward'
  BY DEF IInv, SpansForward, queryVars, bufVars, buf_len
<1>2. TableInv'
  BY DEF IInv, TableInv, queryVars, tableVars, f_len, find, Find, LastCapsSet, CaseInsensitive,
         Filled, PairWord, Cell, H_SIZE
<1>3. TableComplete'
  BY DEF IInv, TableComplete, tableVars
<1> QED BY <1>1, <1>2, <1>3

\* With a match appended, the open part begins behind it.
LEMMA FoundKeepsOrder ==
  ASSUME IInv, pc \in {"scan", "align", "sample", "tail"}, kind # "dot",
         UNCHANGED <<queryVars, tableVars, bufVars>>,
         NEW start \in buf_offset..buf_len, NEW end \in start..buf_len,
         StartsMatch(start), end = EndOfMatch(start),
         \A p \in buf_offset..(start - 1) : ~StartsMatch(p),
         Found(start, end)
  PROVE  IInv'
<1>1. /\ matches' = Append(matches, [start |-> start, end |-> end])
      /\ buf_offset' = Resume(start, end)
      /\ pc' = "scan" /\ at' = at
  BY DEF Found
<1>2. TypeOK /\ ScanInv
  BY DEF IInv
<1>3. matches \in Seq([start : 0..buf_len, end : 0..buf_len]) /\ buf_offset \in Nat
  BY <1>2 DEF TypeOK
<1>4. buf_len \in Nat /\ Len(matches) \in Nat
  BY <1>2, <1>3, LenProperties DEF TypeOK, buf_len
<1>5. [start |-> start, end |-> end] \in [start : 0..buf_len, end : 0..buf_len]
  BY <1>3, <1>4
<1>6. /\ matches' \in Seq([start : 0..buf_len, end : 0..buf_len])
      /\ Len(matches') = Len(matches) + 1
      /\ \A k \in 1..Len(matches) : matches'[k] = matches[k]
      /\ matches'[Len(matches) + 1] = [start |-> start, end |-> end]
  BY <1>1, <1>3, <1>5, AppendProperties
<1>7. f_len' = f_len /\ buf_len' = buf_len
  BY SameMatches
<1>8. buf_offset' = IF start = end THEN end + 1 ELSE end
  BY <1>1 DEF Resume
<1>9. buf_offset' \in 0..(buf_len + 1)
  BY <1>3, <1>4, <1>8
<1>10. TypeOK'
  BY <1>1, <1>2, <1>6, <1>7, <1>9 DEF TypeOK, queryVars, tableVars, bufVars, H_SIZE
<1>11. /\ buf # << >> /\ InOrder(matches)
       /\ OpenOf(matches, Len(matches) + 1) = buf_offset..buf_len
  BY <1>2, OrderNow DEF ScanInv
<1>12. \A k \in 1..(Len(matches) + 1) : OpenOf(matches', k) = OpenOf(matches, k)
  <2> TAKE k \in 1..(Len(matches) + 1)
  <2>1. CASE k = 1
    BY <2>1 DEF OpenOf
  <2>2. CASE k # 1
    <3>1. k - 1 \in 1..Len(matches)
      BY <1>4, <2>2
    <3>2. matches'[k - 1] = matches[k - 1]
      BY <1>6, <3>1
    <3> QED BY <2>2, <3>2 DEF OpenOf
  <2> QED BY <2>1, <2>2
<1>13. InOrder(matches')
  <2> SUFFICES ASSUME NEW k \in DOMAIN matches'
               PROVE  /\ matches'[k].start \in OpenOf(matches', k)
                      /\ StartsMatch(matches'[k].start)
                      /\ matches'[k].end = EndOfMatch(matches'[k].start)
                      /\ \A p \in OpenOf(matches', k) :
                           p < matches'[k].start => ~StartsMatch(p)
    BY DEF InOrder
  <2>1. k \in 1..(Len(matches) + 1)
    BY <1>6, LenProperties
  <2>2. OpenOf(matches', k) = OpenOf(matches, k)
    BY <1>12, <2>1
  <2>3. CASE k \in 1..Len(matches)
    <3>1. k \in DOMAIN matches /\ matches'[k] = matches[k]
      BY <1>3, <1>6, <2>3, LenProperties
    <3> QED BY <1>11, <2>2, <3>1 DEF InOrder
  <2>4. CASE k = Len(matches) + 1
    <3>1. matches'[k].start = start /\ matches'[k].end = end
      BY <1>6, <2>4
    <3>2. OpenOf(matches, k) = buf_offset..buf_len
      BY <1>11, <2>4
    <3>3. \A p \in OpenOf(matches, k) : p < start => p \in buf_offset..(start - 1)
      BY <1>3, <1>4, <3>2
    <3> QED BY <2>2, <3>1, <3>2, <3>3
  <2> QED BY <1>4, <2>1, <2>3, <2>4
<1>14. OpenOf(matches', Len(matches') + 1) = buf_offset'..buf_len'
  <2>1. Len(matches') + 1 # 1 /\ Len(matches') + 1 - 1 = Len(matches) + 1
    BY <1>4, <1>6
  <2>2. matches'[Len(matches') + 1 - 1] = [start |-> start, end |-> end]
    BY <1>6, <2>1
  <2>3. OpenOf(matches', Len(matches') + 1) = (end..buf_len) \ {start}
    BY <2>1, <2>2 DEF OpenOf
  <2>4. (end..buf_len) \ {start} = buf_offset'..buf_len
    BY <1>3, <1>4, <1>8
  <2> QED BY <1>7, <2>3, <2>4
<1>15. ScanInv' /\ Idle'
  <2>1. buf' # << >>
    BY <1>11 DEF bufVars
  <2>2. LeftmostInOrder' /\ Open(Len(matches) + 1)' = (buf_offset..buf_len)'
    BY <1>13, <1>14, OrderNext
  <2> QED BY <1>1, <2>1, <2>2 DEF ScanInv, Idle
<1> QED BY <1>10, <1>15, ScanFrame DEF IInv

\* When nothing is open any more, the buffer is done.
LEMMA NotFoundKeeps ==
  ASSUME IInv, pc \in {"scan", "align", "sample", "tail"}, kind # "dot",
         UNCHANGED <<queryVars, tableVars, bufVars>>,
         \A p \in buf_offset..(buf_len - 1) : ~StartsMatch(p),
         NotFound
  PROVE  IInv'
<1>1. pc' = "done" /\ UNCHANGED <<buf_offset, matches, at>>
  BY DEF NotFound
<1>2. /\ f_len' = f_len /\ buf_len' = buf_len
      /\ \A p : StartsMatch(p)' <=> StartsMatch(p)
      /\ \A p : EndOfMatch(p)' = EndOfMatch(p)
  BY SameMatches
<1>3. LeftmostInOrder' /\ Open(Len(matches) + 1)' = (buf_offset..buf_len)'
  <2>1. InOrder(matches) /\ OpenOf(matches, Len(matches) + 1) = buf_offset..buf_len
    BY OrderNow DEF IInv, ScanInv
  <2> QED BY <1>1, <1>2, <2>1, OrderNext
<1>4. TypeOK'
  BY <1>1, <1>2 DEF IInv, TypeOK, queryVars, tableVars, bufVars, H_SIZE
<1>5. buf' # << >>
  BY DEF IInv, ScanInv, bufVars
<1>6. ScanInv' /\ Idle'
  BY <1>1, <1>2, <1>3, <1>5 DEF ScanInv, Idle
<1> QED BY <1>4, <1>6, ScanFrame DEF IInv

\* A step inside the search for a literal keeps the invariant when what it
\* leaves behind holds no occurrence.
LEMMA AdvanceKeeps ==
  ASSUME IInv, pc \in {"scan", "align", "sample", "tail"}, kind = "literal",
         UNCHANGED <<queryVars, tableVars, bufVars, buf_offset, matches>>,
         pc' \in {"align", "sample", "tail"}, at' \in Nat,
         pc' = "align" =>
           /\ buf_offset + f_len - 1 <= at'
           /\ \A p \in buf_offset..(at' - f_len) : ~Occurs(p),
         pc' = "sample" =>
           /\ UsesHash
           /\ buf_offset + f_len - 2 <= at'
           /\ \A p \in buf_offset..(at' - Step) : ~Occurs(p),
         pc' = "tail" =>
           /\ buf_offset <= at'
           /\ \A p \in buf_offset..(at' - 1) : ~Occurs(p)
  PROVE  IInv'
<1>1. /\ f_len' = f_len /\ buf_len' = buf_len
      /\ \A p : Occurs(p)' <=> Occurs(p)
      /\ \A p : StartsMatch(p)' <=> StartsMatch(p)
      /\ \A p : EndOfMatch(p)' = EndOfMatch(p)
  BY SameMatches
<1>2. LeftmostInOrder' /\ Open(Len(matches) + 1)' = (buf_offset..buf_len)'
  <2>1. InOrder(matches) /\ OpenOf(matches, Len(matches) + 1) = buf_offset..buf_len
    BY OrderNow DEF IInv, ScanInv
  <2> QED BY <1>1, <2>1, OrderNext
<1>3. TypeOK'
  BY <1>1 DEF IInv, TypeOK, queryVars, tableVars, bufVars, H_SIZE
<1>4. buf' # << >>
  BY DEF IInv, ScanInv, bufVars
<1>5. UsesHash' = UsesHash /\ Step' = Step /\ kind' = "literal"
  BY <1>1 DEF UsesHash, Step, queryVars
<1>6. ScanInv' /\ Idle'
  BY <1>1, <1>2, <1>4, <1>5 DEF ScanInv, Idle
<1> QED BY <1>3, <1>6, ScanFrame DEF IInv

-----------------------------------------------------------------------------
(* Every step keeps the invariant. *)

LEMMA FillCellKeeps ==
  ASSUME IInv, FillCell
  PROVE  IInv'
<1>1. TypeOK' /\ TableInv'
  BY FillCellKeepsTable DEF IInv
<1>2. pc = "setup" /\ UNCHANGED <<queryVars, pc, bufVars, buf_offset, matches, at>>
  BY DEF FillCell
<1>3. SpansForward'
  BY <1>2 DEF IInv, SpansForward, queryVars, bufVars, buf_len
<1> QED BY <1>1, <1>2, <1>3 DEF IInv, TableComplete, ScanInv, Idle, bufVars

LEMMA SetupDoneKeeps ==
  ASSUME IInv, SetupDone
  PROVE  IInv'
<1>1. /\ pc = "setup" /\ pc' = "ready" /\ filling.i < 0
      /\ UNCHANGED <<queryVars, tableVars, bufVars, buf_offset, matches, at>>
  BY DEF SetupDone
<1>2. TypeOK'
  BY <1>1 DEF IInv, TypeOK, queryVars, tableVars, bufVars, buf_len, f_len, H_SIZE
<1>3. SpansForward'
  BY <1>1 DEF IInv, SpansForward, queryVars, bufVars, buf_len
<1>4. TableInv'
  BY <1>1 DEF IInv, TableInv, queryVars, tableVars, f_len, find, Find, LastCapsSet,
         CaseInsensitive, Filled, PairWord, Cell, H_SIZE
<1> QED BY <1>1, <1>2, <1>3, <1>4
        DEF IInv, TableComplete, ScanInv, Idle, bufVars, tableVars

LEMMA ReadBufferKeeps ==
  ASSUME IInv, ReadBuffer
  PROVE  IInv'
<1>1. /\ pc = "ready" /\ pc' = "scan"
      /\ UNCHANGED <<queryVars, tableVars, buf_offset, matches, at>>
      /\ kind = "literal" => buf' \in Buffer
      /\ kind # "literal" =>
           /\ buf' \in Subject
           /\ spans' \in [0..Len(buf') -> {NoMatch} \cup 0..Len(buf')]
           /\ \A p \in 0..Len(buf') : spans'[p] = NoMatch \/ p <= spans'[p]
  BY DEF ReadBuffer
<1>2. matches = << >> /\ buf_offset = 0
  BY <1>1 DEF IInv, Idle
<1>3. buf' \in Seq(Char) /\ buf' # << >>
  BY <1>1, BufferSearchAssumption
<1>4. buf_len' = Len(buf') /\ Len(buf') \in Nat /\ f_len' = f_len /\ kind' = kind
  BY <1>1, <1>3, LenProperties DEF buf_len, queryVars, f_len
<1>5. TypeOK'
  <2>1. \/ kind = "literal"
        \/ spans' \in [0..buf_len' -> -1..buf_len']
    <3>1. ASSUME kind # "literal"
          PROVE  spans' \in [0..buf_len' -> -1..buf_len']
      <4>1. {NoMatch} \cup 0..Len(buf') \subseteq -1..Len(buf')
        BY <1>4 DEF NoMatch
      <4>2. spans' \in [0..Len(buf') -> {NoMatch} \cup 0..Len(buf')]
        BY <1>1, <3>1
      <4> QED BY <1>4, <4>1, <4>2
    <3> QED BY <3>1
  <2>2. matches' \in Seq([start : 0..buf_len', end : 0..buf_len'])
    BY <1>1, <1>2, EmptySeq
  <2> QED BY <1>1, <1>2, <1>3, <1>4, <2>1, <2>2
          DEF IInv, TypeOK, queryVars, tableVars, H_SIZE
<1>6. SpansForward'
  BY <1>1, <1>4 DEF SpansForward, NoMatch
<1>7. TableInv' /\ TableComplete'
  BY <1>1 DEF IInv, TableComplete, TableInv, queryVars, tableVars, f_len, find, Find,
         LastCapsSet, CaseInsensitive, Filled, PairWord, Cell, H_SIZE
<1>8. ScanInv' /\ Idle'
  <2>1. Len(matches') = 0 /\ DOMAIN matches' = {}
    BY <1>1, <1>2
  <2>2. Open(Len(matches) + 1)' = (buf_offset..buf_len)'
    BY <1>1, <1>2, <2>1 DEF Open
  <2>3. LeftmostInOrder'
    BY <2>1 DEF LeftmostInOrder
  <2> QED BY <1>1, <1>3, <2>2, <2>3 DEF ScanInv, Idle
<1> QED BY <1>5, <1>6, <1>7, <1>8 DEF IInv

LEMMA SearchDotKeeps ==
  ASSUME IInv, SearchDot, UNCHANGED <<queryVars, tableVars, bufVars>>
  PROVE  IInv'
<1>1. /\ pc = "scan" /\ pc' = "done" /\ kind = "dot" /\ kind' = "dot"
      /\ matches' = << [start |-> 0, end |-> buf_len] >>
      /\ UNCHANGED <<buf_offset, at>>
  BY DEF SearchDot, queryVars
<1>2. f_len' = f_len /\ buf_len' = buf_len
  BY SameMatches
<1>3. buf_len \in Nat
  BY LenProperties DEF IInv, TypeOK, buf_len
<1>4. matches' \in Seq([start : 0..buf_len, end : 0..buf_len])
  <2>1. [start |-> 0, end |-> buf_len] \in [start : 0..buf_len, end : 0..buf_len]
    BY <1>3
  <2> QED BY <1>1, <2>1
<1>5. TypeOK'
  BY <1>1, <1>2, <1>4 DEF IInv, TypeOK, queryVars, tableVars, bufVars, H_SIZE
<1>6. ScanInv' /\ Idle'
  BY <1>1 DEF ScanInv, Idle
<1> QED BY <1>1, <1>5, <1>6, ScanFrame DEF IInv

LEMMA SearchRegexKeeps ==
  ASSUME IInv, SearchRegex, UNCHANGED <<queryVars, tableVars, bufVars>>
  PROVE  IInv'
<1> DEFINE starts == {p \in buf_offset..buf_len : spans[p] # NoMatch}
<1>1. /\ pc = "scan" /\ kind = "regex"
      /\ IF buf_offset < buf_len /\ starts # {}
         THEN Found(Min(starts), spans[Min(starts)])
         ELSE NotFound
  BY DEF SearchRegex
<1>2. /\ buf # << >> /\ buf_len \in Nat /\ buf_offset \in Nat
      /\ spans \in [0..buf_len -> -1..buf_len]
  BY <1>1, LenProperties DEF IInv, ScanInv, TypeOK, buf_len
<1>3. CASE buf_offset < buf_len /\ starts # {}
  <2>1. starts \subseteq Nat
    BY <1>2
  <2>2. Min(starts) \in starts /\ \A y \in starts : Min(starts) <= y
    <3> HIDE DEF starts
    <3> QED BY <1>3, <2>1, MinProperties
  <2> DEFINE start == Min(starts)
             end == spans[start]
  <2>3. start \in buf_offset..buf_len /\ spans[start] # NoMatch
    BY <2>2
  <2>4. \A p \in buf_offset..(start - 1) : spans[p] = NoMatch
    <3> TAKE p \in buf_offset..(start - 1)
    <3>1. p \in buf_offset..buf_len /\ ~(start <= p)
      BY <1>2, <2>3
    <3> QED BY <2>2, <3>1
  <2> HIDE DEF starts, start
  <2>5. start \in 0..buf_len
    BY <1>2, <2>3
  <2>6. end \in start..buf_len
    <3>1. end \in -1..buf_len
      BY <1>2, <2>5
    <3>2. start <= end
      BY <1>1, <1>2, <2>3, <2>5 DEF IInv, SpansForward
    <3> QED BY <2>5, <3>1, <3>2
  <2>7. StartsMatch(start) /\ end = EndOfMatch(start)
    BY <1>1, <2>3 DEF StartsMatch, EndOfMatch
  <2>8. \A p \in buf_offset..(start - 1) : ~StartsMatch(p)
    BY <1>1, <2>4 DEF StartsMatch
  <2>9. Found(start, end)
    BY <1>1, <1>3 DEF start
  <2> HIDE DEF end
  <2> QED BY <1>1, <2>3, <2>6, <2>7, <2>8, <2>9, FoundKeepsOrder
<1>4. CASE ~(buf_offset < buf_len /\ starts # {})
  <2>1. \A p \in buf_offset..(buf_len - 1) : ~StartsMatch(p)
    <3> TAKE p \in buf_offset..(buf_len - 1)
    <3>1. buf_offset < buf_len /\ p \in buf_offset..buf_len
      BY <1>2
    <3> QED BY <1>1, <1>4, <3>1 DEF StartsMatch
  <2> QED BY <1>1, <1>4, <2>1, NotFoundKeeps
<1> QED BY <1>3, <1>4

\* What the steps of a literal search rely on.
LEMMA LiteralFacts ==
  ASSUME IInv, kind = "literal"
  PROVE  /\ query \in Query /\ buf \in Seq(Char)
         /\ f_len \in Nat \ {0} /\ buf_len \in Nat
         /\ buf_offset \in Nat /\ at \in Nat
         /\ \A p : StartsMatch(p) <=> Occurs(p)
         /\ \A p : EndOfMatch(p) = p + f_len
         /\ \A p \in Int : Occurs(p) => p + f_len <= buf_len
<1>1. /\ query \in Query /\ buf \in Seq(Char) /\ at \in Nat
      /\ buf_len \in Nat /\ buf_offset \in Nat
  BY LenProperties DEF IInv, TypeOK, buf_len
<1> QED BY <1>1, FindFacts DEF StartsMatch, EndOfMatch, Occurs

LEMMA SearchLiteralKeeps ==
  ASSUME IInv, SearchLiteral, UNCHANGED <<queryVars, tableVars, bufVars>>
  PROVE  IInv'
<1>1. pc = "scan" /\ kind = "literal"
  BY DEF SearchLiteral
<1>2. /\ f_len \in Nat \ {0} /\ buf_len \in Nat /\ buf_offset \in Nat
      /\ \A p : StartsMatch(p) <=> Occurs(p)
      /\ \A p \in Int : Occurs(p) => p + f_len <= buf_len
  BY <1>1, LiteralFacts
<1>3. CASE /\ pc' = "align" /\ at' = buf_offset + f_len - 1
           /\ UNCHANGED <<buf_offset, matches>>
  <2>1. at' \in Nat /\ \A p \in buf_offset..(at' - f_len) : ~Occurs(p)
    BY <1>2, <1>3
  <2> QED BY <1>1, <1>2, <1>3, <2>1, AdvanceKeeps
<1>4. CASE /\ UsesHash
           /\ pc' = "sample" /\ at' = FirstSample
           /\ UNCHANGED <<buf_offset, matches>>
  <2>1. f_len >= 3
    BY <1>4 DEF UsesHash
  <2>2. /\ at' \in Nat /\ buf_offset + f_len - 2 <= at'
        /\ \A p \in buf_offset..(at' - Step) : ~Occurs(p)
    BY <1>2, <1>4, <2>1 DEF FirstSample, Step
  <2> QED BY <1>1, <1>4, <2>2, AdvanceKeeps
<1>5. CASE /\ \/ buf_offset >= buf_len
              \/ UsesHash /\ buf_offset + f_len > buf_len
           /\ NotFound
  <2>1. \A p \in buf_offset..(buf_len - 1) : ~StartsMatch(p)
    <3> TAKE p \in buf_offset..(buf_len - 1)
    <3>1. p \in Int /\ p + f_len > buf_len
      BY <1>2, <1>5
    <3> QED BY <1>2, <3>1
  <2> QED BY <1>1, <1>5, <2>1, NotFoundKeeps
<1> QED BY <1>3, <1>4, <1>5 DEF SearchLiteral

LEMMA BoyerMooreKeeps ==
  ASSUME IInv, boyer_moore_strnstr, UNCHANGED <<queryVars, tableVars, bufVars>>
  PROVE  IInv'
<1>1. pc = "align" /\ kind = "literal"
  BY DEF boyer_moore_strnstr, IInv, ScanInv
<1>2. /\ query \in Query /\ buf \in Seq(Char)
      /\ f_len \in Nat \ {0} /\ buf_len \in Nat /\ buf_offset \in Nat /\ at \in Nat
      /\ \A p : StartsMatch(p) <=> Occurs(p)
      /\ \A p : EndOfMatch(p) = p + f_len
      /\ \A p \in Int : Occurs(p) => p + f_len <= buf_len
  BY <1>1, LiteralFacts
<1>3. /\ buf_offset + f_len - 1 <= at
      /\ \A p \in buf_offset..(at - f_len) : ~Occurs(p)
  BY <1>1 DEF IInv, ScanInv
<1>4. CASE at >= buf_len /\ NotFound
  <2>1. \A p \in buf_offset..(buf_len - 1) : ~StartsMatch(p)
    <3> TAKE p \in buf_offset..(buf_len - 1)
    <3>1. p \in Int /\ (p \in buf_offset..(at - f_len) \/ p + f_len > buf_len)
      BY <1>2, <1>4
    <3> QED BY <1>2, <1>3, <3>1
  <2> QED BY <1>1, <1>4, <2>1, NotFoundKeeps
<1>5. CASE at < buf_len /\ Mismatches(at) = {} /\ Found(at - (f_len - 1), at + 1)
  <2> DEFINE start == at - (f_len - 1)
  <2>1. start \in buf_offset..buf_len /\ at + 1 \in start..buf_len /\ at + 1 = start + f_len
    BY <1>2, <1>3, <1>5
  <2>2. Occurs(start)
    <3>1. \A k \in 0..(f_len - 1) : at - (f_len - 1 - k) = start + k
      BY <1>2
    <3>2. \A k \in 0..(f_len - 1) : Fold(Byte(start + k)) = Find(k)
      <4> TAKE k \in 0..(f_len - 1)
      <4>1. Fold(Byte(at - (f_len - 1 - k))) = Find(k)
        BY <1>5 DEF Mismatches
      <4> QED BY <3>1, <4>1
    <3>3. 0 <= start /\ start + f_len <= buf_len
      BY <1>2, <2>1
    <3> HIDE DEF start
    <3> QED BY <3>2, <3>3 DEF Occurs
  <2>3. \A p \in buf_offset..(start - 1) : ~StartsMatch(p)
    <3> TAKE p \in buf_offset..(start - 1)
    <3>1. p \in buf_offset..(at - f_len)
      BY <1>2
    <3> QED BY <1>2, <1>3, <3>1
  <2>4. StartsMatch(start) /\ at + 1 = EndOfMatch(start)
    BY <1>2, <2>1, <2>2
  <2>5. Found(start, at + 1)
    BY <1>5
  <2> HIDE DEF start
  <2> QED BY <1>1, <2>1, <2>3, <2>4, <2>5, FoundKeepsOrder
<1>6. CASE /\ at < buf_len /\ Mismatches(at) # {}
           /\ at' = Skipped(at, Max(Mismatches(at)))
           /\ UNCHANGED <<pc, buf_offset, matches>>
  <2>1. at \in (f_len - 1)..(buf_len - 1)
    BY <1>2, <1>3, <1>6
  <2>2. /\ at' \in Nat /\ at' > at
        /\ \A q \in (at - (f_len - 1))..(at' - f_len) : ~Occurs(q)
    BY <1>2, <1>6, <2>1, SkipSound
  <2>3. \A p \in buf_offset..(at' - f_len) : ~Occurs(p)
    <3>1. PICK n \in Nat : n = at'
      BY <2>2
    <3> SUFFICES ASSUME NEW p \in buf_offset..(n - f_len) PROVE ~Occurs(p)
      BY <3>1
    <3>2. p \in buf_offset..(at - f_len) \/ p \in (at - (f_len - 1))..(n - f_len)
      BY <1>2
    <3> QED BY <1>3, <2>2, <3>1, <3>2
  <2>4. pc' = "align" /\ buf_offset + f_len - 1 <= at'
    BY <1>1, <1>2, <1>3, <1>6, <2>2
  <2> QED BY <1>1, <1>6, <2>2, <2>3, <2>4, AdvanceKeeps
<1> QED BY <1>4, <1>5, <1>6 DEF boyer_moore_strnstr

LEMMA HashKeeps ==
  ASSUME IInv, hash_strnstr, UNCHANGED <<queryVars, tableVars, bufVars>>
  PROVE  IInv'
<1>1. pc \in {"sample", "tail"} /\ kind = "literal"
  <2>1. pc \in {"sample", "tail"}
    BY DEF hash_strnstr
  <2> QED BY <2>1 DEF IInv, ScanInv
<1>2. /\ query \in Query /\ buf \in Seq(Char)
      /\ f_len \in Nat \ {0} /\ buf_len \in Nat /\ buf_offset \in Nat /\ at \in Nat
      /\ \A p : StartsMatch(p) <=> Occurs(p)
      /\ \A p : EndOfMatch(p) = p + f_len
      /\ \A p \in Int : Occurs(p) => p + f_len <= buf_len
  BY <1>1, LiteralFacts
<1>3. pc = "sample" =>
        /\ UsesHash /\ f_len >= 3
        /\ buf_offset + f_len - 2 <= at
        /\ \A p \in buf_offset..(at - Step) : ~Occurs(p)
  BY <1>1 DEF IInv, ScanInv, UsesHash
<1>4. pc = "tail" => buf_offset <= at /\ \A p \in buf_offset..(at - 1) : ~Occurs(p)
  BY <1>1 DEF IInv, ScanInv
<1>5. CASE pc = "sample" /\ SampleFits
  <2>1. /\ \A d \in Probes(at) : Candidate(at, d) \in (at - Step + 1)..at
        /\ Hits(at) # {} => Min(Hits(at)) \in Hits(at)
        /\ \A p \in (at - Step + 1)..at :
             Occurs(p) => Hits(at) # {} /\ Candidate(at, Min(Hits(at))) <= p
    <3>1. filling.i \in Int /\ filling.i < 0 /\ h_table \in [0..(H_SIZE - 1) -> Char] /\ TableInv
      BY <1>5 DEF IInv, TypeOK, TableComplete
    <3> QED BY <1>1, <1>2, <1>3, <1>5, <3>1, HashFinds
  <2>2. CASE Hits(at) # {}
    <3> DEFINE R == Candidate(at, Min(Hits(at)))
    <3>1. Found(R, R + f_len)
      BY <1>5, <2>2 DEF hash_strnstr
    <3>2. Occurs(R) /\ R \in (at - Step + 1)..at
      BY <2>1, <2>2 DEF Hits
    <3>3. \A p \in (at - Step + 1)..at : Occurs(p) => R <= p
      BY <2>1
    <3> HIDE DEF R
    <3>4. R \in Int /\ R + f_len <= buf_len
      BY <1>2, <3>2 DEF Step
    <3>5. R \in buf_offset..buf_len /\ R + f_len \in R..buf_len
      BY <1>2, <1>3, <1>5, <3>2, <3>4 DEF Step
    <3>6. \A p \in buf_offset..(R - 1) : ~StartsMatch(p)
      <4> TAKE p \in buf_offset..(R - 1)
      <4>1. p \in buf_offset..(at - Step) \/ (p \in (at - Step + 1)..at /\ ~(R <= p))
        BY <1>2, <3>2, <3>4 DEF Step
      <4> QED BY <1>2, <1>3, <1>5, <3>3, <4>1
    <3> QED BY <1>1, <1>2, <3>1, <3>2, <3>5, <3>6, FoundKeepsOrder
  <2>3. CASE Hits(at) = {}
    <3>1. at' = at + Step /\ pc' = "sample" /\ UNCHANGED <<buf_offset, matches>>
      BY <1>5, <2>3 DEF hash_strnstr
    <3>2. \A p \in buf_offset..(at' - Step) : ~Occurs(p)
      <4> TAKE p \in buf_offset..(at' - Step)
      <4>1. p \in buf_offset..(at - Step) \/ p \in (at - Step + 1)..at
        BY <1>2, <3>1 DEF Step
      <4> QED BY <1>3, <1>5, <2>1, <2>3, <4>1
    <3>3. at' \in Nat /\ buf_offset + f_len - 2 <= at'
      BY <1>2, <1>3, <1>5, <3>1 DEF Step
    <3> QED BY <1>1, <1>3, <1>5, <3>1, <3>2, <3>3, AdvanceKeeps
  <2> QED BY <2>2, <2>3
<1>6. CASE pc = "sample" /\ ~SampleFits
  <2>1. pc' = "tail" /\ at' = at - Step + 1 /\ UNCHANGED <<buf_offset, matches>>
    BY <1>6 DEF hash_strnstr
  <2>2. at' \in Nat /\ buf_offset <= at' /\ at' - 1 = at - Step
    BY <1>2, <1>3, <1>6, <2>1 DEF Step
  <2> QED BY <1>1, <1>3, <1>6, <2>1, <2>2, AdvanceKeeps
<1>7. CASE pc = "tail" /\ at + f_len <= buf_len
  <2>1. CASE Occurs(at)
    <3>1. Found(at, at + f_len)
      BY <1>2, <1>7, <2>1 DEF hash_strnstr
    <3>2. at \in buf_offset..buf_len /\ at + f_len \in at..buf_len
      BY <1>2, <1>4, <1>7
    <3> QED BY <1>1, <1>2, <1>4, <1>7, <2>1, <3>1, <3>2, FoundKeepsOrder
  <2>2. CASE ~Occurs(at)
    <3>1. at' = at + 1 /\ pc' = "tail" /\ UNCHANGED <<buf_offset, matches>>
      BY <1>2, <1>7, <2>2 DEF hash_strnstr
    <3>2. \A p \in buf_offset..(at' - 1) : ~Occurs(p)
      <4> TAKE p \in buf_offset..(at' - 1)
      <4>1. p \in buf_offset..(at - 1) \/ p = at
        BY <1>2, <3>1
      <4> QED BY <1>4, <1>7, <2>2, <4>1
    <3>3. at' \in Nat /\ buf_offset <= at'
      BY <1>2, <1>4, <1>7, <3>1
    <3> QED BY <1>1, <3>1, <3>2, <3>3, AdvanceKeeps
  <2> QED BY <2>1, <2>2
<1>8. CASE pc = "tail" /\ at + f_len > buf_len
  <2>1. NotFound
    BY <1>2, <1>8 DEF hash_strnstr
  <2>2. \A p \in buf_offset..(buf_len - 1) : ~StartsMatch(p)
    <3> TAKE p \in buf_offset..(buf_len - 1)
    <3>1. p \in Int /\ (p \in buf_offset..(at - 1) \/ p + f_len > buf_len)
      BY <1>2, <1>8
    <3> QED BY <1>2, <1>4, <1>8, <3>1
  <2> QED BY <1>1, <2>1, <2>2, NotFoundKeeps
<1> QED BY <1>5, <1>6, <1>7, <1>8 DEF hash_strnstr

LEMMA ReleaseBufferKeeps ==
  ASSUME IInv, ReleaseBuffer
  PROVE  IInv'
<1>1. /\ pc = "done" /\ pc' = "ready" /\ buf' = << >> /\ spans' = << >>
      /\ buf_offset' = 0 /\ matches' = << >> /\ at' = 0
      /\ UNCHANGED <<queryVars, tableVars>>
  BY DEF ReleaseBuffer
<1>2. buf_len' = 0 /\ f_len' = f_len
  BY <1>1 DEF buf_len, f_len, queryVars
<1>3. TypeOK'
  BY <1>1, <1>2 DEF IInv, TypeOK, queryVars, tableVars, H_SIZE
<1>4. TableInv' /\ TableComplete'
  BY <1>1 DEF IInv, TableComplete, TableInv, queryVars, tableVars, f_len, find, Find,
         LastCapsSet, CaseInsensitive, Filled, PairWord, Cell, H_SIZE
<1> QED BY <1>1, <1>3, <1>4 DEF IInv, SpansForward, ScanInv, Idle

\* The invariant is inductive.
LEMMA NextInv == IInv /\ [Next]_vars => IInv'
<1> SUFFICES ASSUME IInv, [Next]_vars PROVE IInv'
  OBVIOUS
<1>1. CASE FillCell
  BY <1>1, FillCellKeeps
<1>2. CASE SetupDone
  BY <1>2, SetupDoneKeeps
<1>3. CASE ReadBuffer
  BY <1>3, ReadBufferKeeps
<1>4. CASE Search
  <2>1. UNCHANGED <<queryVars, tableVars, bufVars>>
    BY <1>4 DEF Search
  <2>2. CASE SearchDot
    BY <2>1, <2>2, SearchDotKeeps
  <2>3. CASE SearchRegex
    BY <2>1, <2>3, SearchRegexKeeps
  <2>4. CASE SearchLiteral
    BY <2>1, <2>4, SearchLiteralKeeps
  <2>5. CASE boyer_moore_strnstr
    BY <2>1, <2>5, BoyerMooreKeeps
  <2>6. CASE hash_strnstr
    BY <2>1, <2>6, HashKeeps
  <2> QED BY <1>4, <2>2, <2>3, <2>4, <2>5, <2>6 DEF Search
<1>5. CASE ReleaseBuffer
  BY <1>5, ReleaseBufferKeeps
<1>6. CASE UNCHANGED vars
  <2>1. /\ UNCHANGED <<queryVars, tableVars, pc, bufVars, buf_offset, matches, at>>
    BY <1>6 DEF vars
  <2>2. /\ f_len' = f_len /\ buf_len' = buf_len
        /\ \A p : Occurs(p)' <=> Occurs(p)
        /\ \A p : StartsMatch(p)' <=> StartsMatch(p)
    BY <2>1, SameMatches
  <2>3. TypeOK'
    BY <2>1, <2>2 DEF IInv, TypeOK, queryVars, tableVars, bufVars, H_SIZE
  <2>4. SpansForward'
    BY <2>1, <2>2 DEF IInv, SpansForward, queryVars, bufVars
  <2>5. TableInv' /\ TableComplete'
    BY <2>1 DEF IInv, TableComplete, TableInv, queryVars, tableVars, f_len, find, Find,
           LastCapsSet, CaseInsensitive, Filled, PairWord, Cell, H_SIZE
  <2>6. ScanInv'
    <3>1. kind # "dot" =>
            /\ LeftmostInOrder' <=> LeftmostInOrder
            /\ Open(Len(matches) + 1)' = Open(Len(matches) + 1)
      BY <2>1, OrderNow, OrderNext
    <3>2. UsesHash' = UsesHash /\ Step' = Step /\ kind' = kind /\ buf' = buf
      BY <2>1, <2>2 DEF UsesHash, Step, queryVars, bufVars
    <3> QED BY <2>1, <2>2, <3>1, <3>2 DEF IInv, ScanInv
  <2>7. Idle'
    BY <2>1 DEF IInv, Idle, bufVars
  <2> QED BY <2>3, <2>4, <2>5, <2>6, <2>7 DEF IInv
<1> QED
  BY <1>1, <1>2, <1>3, <1>4, <1>5, <1>6 DEF Next

THEOREM SearchInvariant == Spec => []IInv
<1>1. Init => IInv
  BY InitInv
<1>2. IInv /\ [Next]_vars => IInv'
  BY NextInv
<1> QED BY <1>1, <1>2, PTL DEF Spec

-----------------------------------------------------------------------------
(* The properties. *)

\* The variables keep their types, for every alphabet, query and buffer.
THEOREM TypeCorrect == Spec => []TypeOK
<1>1. IInv => TypeOK
  BY DEF IInv
<1> QED BY <1>1, SearchInvariant, PTL

\* The matches reported are the leftmost ones, one behind the other, whether
\* Boyer-Moore, the hash or pcre found them.
THEOREM MatchesAreLeftmost == Spec => []LeftmostInOrder
<1>1. IInv => LeftmostInOrder
  <2> SUFFICES ASSUME IInv PROVE LeftmostInOrder
    OBVIOUS
  <2>1. CASE kind = "dot"
    BY <2>1 DEF LeftmostInOrder
  <2>2. CASE pc \in {"setup", "ready"}
    <3>1. DOMAIN matches = {}
      BY <2>2 DEF IInv, Idle
    <3> QED BY <3>1 DEF LeftmostInOrder
  <2>3. CASE pc \in {"scan", "align", "sample", "tail", "done"} /\ kind # "dot"
    BY <2>3 DEF IInv, ScanInv
  <2> QED BY <2>1, <2>2, <2>3 DEF IInv, TypeOK
<1> QED BY <1>1, SearchInvariant, PTL

\* A buffer that is done holds no further match.
THEOREM NoMatchMissed == Spec => []NothingMissed
<1>1. IInv => NothingMissed
  <2> SUFFICES ASSUME IInv, kind # "dot", pc = "done",
                      NEW p \in Open(Len(matches) + 1), p < buf_len
               PROVE  ~StartsMatch(p)
    BY DEF NothingMissed
  <2>1. /\ Open(Len(matches) + 1) = buf_offset..buf_len
        /\ \A q \in buf_offset..(buf_len - 1) : ~StartsMatch(q)
    BY DEF IInv, ScanInv
  <2>2. buf_offset \in Int /\ buf_len \in Nat
    BY LenProperties DEF IInv, TypeOK, buf_len
  <2>3. p \in buf_offset..(buf_len - 1)
    BY <2>1, <2>2
  <2> QED BY <2>1, <2>3
<1> QED BY <1>1, SearchInvariant, PTL

\* No byte outside the part of the buffer that is searched is read.
THEOREM ReadsAreInBuffer == Spec => []ReadsInBuffer
<1>1. IInv => ReadsInBuffer
  <2> SUFFICES ASSUME IInv PROVE ReadsInBuffer
    OBVIOUS
  <2>1. ASSUME pc = "align"
        PROVE  buf_offset <= at - (f_len - 1)
    <3>1. kind = "literal" /\ buf_offset + f_len - 1 <= at
      BY <2>1 DEF IInv, ScanInv
    <3> QED BY <3>1, LiteralFacts
  <2>2. ASSUME pc = "sample", SampleFits, NEW d \in Probes(at)
        PROVE  Candidate(at, d) \in buf_offset..(buf_len - f_len)
    <3>1. /\ kind = "literal" /\ UsesHash /\ buf_offset + f_len - 2 <= at
          /\ filling.i \in Int /\ filling.i < 0 /\ TableInv
          /\ h_table \in [0..(H_SIZE - 1) -> Char]
      BY <2>2 DEF IInv, ScanInv, TypeOK, TableComplete
    <3>2. /\ query \in Query /\ buf \in Seq(Char)
          /\ f_len \in Nat \ {0} /\ buf_len \in Nat /\ buf_offset \in Nat /\ at \in Nat
      BY <3>1, LiteralFacts
    <3>3. Candidate(at, d) \in (at - Step + 1)..at
      BY <2>2, <3>1, <3>2, HashFinds
    <3> QED BY <2>2, <3>1, <3>2, <3>3 DEF Step, SampleFits
  <2>3. ASSUME pc = "tail"
        PROVE  buf_offset <= at
    BY <2>3 DEF IInv, ScanInv
  <2> QED BY <2>1, <2>2, <2>3 DEF ReadsInBuffer
<1> QED BY <1>1, SearchInvariant, PTL

=============================================================================
