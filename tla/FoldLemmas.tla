----------------------------- MODULE FoldLemmas -----------------------------
(***************************************************************************)
(* Lemmas about data that the models build by recursion: folds over a      *)
(* sequence, and sequences joined.  A recursive function is defined by a   *)
(* CHOOSE; that there is one is proved here by induction, and induction is *)
(* the search for a smallest counterexample.                               *)
(***************************************************************************)
EXTENDS SequencesExt, WellFoundedInduction, SequenceTheorems, TLAPS

-----------------------------------------------------------------------------
(* Smallest and largest elements, induction. *)

\* Every non-empty set of natural numbers has a smallest element.
LEMMA NatMin ==
  ASSUME NEW T, T \subseteq Nat, T # {}
  PROVE  \E x \in T : \A y \in T : x <= y
<1>1. IsWellFoundedOn(OpToRel(<, Nat), Nat)
  BY NatLessThanWellFounded
<1>2. PICK x \in T : \A y \in T : ~ (<<y, x>> \in OpToRel(<, Nat))
  BY <1>1, WFMin
<1>3. \A y \in T : ~(y < x)
  BY <1>2 DEF OpToRel
<1> QED
  BY <1>3

\* Min returns it.
LEMMA MinProperties ==
  ASSUME NEW T, T \subseteq Nat, T # {}
  PROVE  Min(T) \in T /\ \A y \in T : Min(T) <= y
BY NatMin DEF Min

\* Max returns the largest element of a non-empty set of numbers up to n.
LEMMA MaxProperties ==
  ASSUME NEW n \in Nat, NEW T, T \subseteq 0..n, T # {}
  PROVE  Max(T) \in T /\ \A y \in T : Max(T) >= y
<1> DEFINE R == {m \in 0..n : n - m \in T}
<1>1. R \subseteq Nat /\ R # {}
  <2>1. PICK t \in T : TRUE
    OBVIOUS
  <2>2. t \in 0..n /\ n - t \in 0..n /\ n - (n - t) = t
    OBVIOUS
  <2>3. n - t \in R
    BY <2>2
  <2> QED BY <2>3
<1>2. PICK x \in R : \A y \in R : x <= y
  BY <1>1, NatMin
<1>3. n - x \in T /\ x \in 0..n
  BY <1>2
<1>4. ASSUME NEW y \in T PROVE n - x >= y
  <2>1. y \in 0..n /\ n - y \in 0..n /\ n - (n - y) = y
    OBVIOUS
  <2>2. n - y \in R
    BY <2>1
  <2>3. x <= n - y
    BY <2>2, <1>2
  <2> HIDE DEF R
  <2> QED BY <2>1, <2>3, <1>3
<1> HIDE DEF R
<1> QED
  BY <1>3, <1>4 DEF Max

\* The larger of two numbers.
LEMMA MaxOfTwo ==
  ASSUME NEW a \in Nat, NEW b \in Nat
  PROVE  /\ Max({a, b}) \in {a, b}
         /\ Max({a, b}) >= a /\ Max({a, b}) >= b
<1>1. CASE a >= b
  BY <1>1 DEF Max
<1>2. CASE b >= a
  BY <1>2 DEF Max
<1> QED BY <1>1, <1>2

\* A set with a that holds the successor of each of its members holds all up to n.
LEMMA InductionUpTo ==
  ASSUME NEW a \in Nat, NEW n \in Nat, NEW T, a \in T,
         \A k \in a..n : k \in T /\ k < n => k + 1 \in T
  PROVE  a..n \subseteq T
<1>. DEFINE Out == {k \in a..n : k \notin T}
<1>. SUFFICES ASSUME Out # {} PROVE FALSE
  OBVIOUS
<1>1. PICK k \in Out : \A j \in Out : k <= j
  <2>1. Out \subseteq Nat
    OBVIOUS
  <2>. QED
    BY <2>1, NatMin
<1>2. k \in a..n /\ k \notin T /\ k # a
  BY <1>1
<1>3. k - 1 \in a..n /\ k - 1 < n /\ (k - 1) + 1 = k /\ k - 1 < k
  BY <1>2
<1>4. k - 1 \in T
  BY <1>1, <1>3
<1>. QED
  BY <1>2, <1>3, <1>4

-----------------------------------------------------------------------------
(* FlattenSeq. *)

\* What FlattenSeq computes for the first m sequences, for each m.
IsFlattening(f, n, parts) ==
  f = [i \in 1..n |-> IF i = 1 THEN parts[i] ELSE f[i - 1] \o parts[i]]

LEMMA FlatteningExists ==
  ASSUME NEW n \in Nat \ {0}, NEW parts
  PROVE  \E f : IsFlattening(f, n, parts)
<1>. DEFINE T == {m \in 1..n : \E f : IsFlattening(f, m, parts)}
<1>1. 1 \in T
  <2>1. IsFlattening([i \in 1..1 |-> parts[i]], 1, parts)
    BY DEF IsFlattening
  <2>. QED
    BY <2>1
<1>2. ASSUME NEW m \in 1..n, m \in T, m < n PROVE m + 1 \in T
  <2>1. PICK f : IsFlattening(f, m, parts)
    BY <1>2
  <2>. DEFINE g == [i \in 1..(m + 1) |-> IF i <= m THEN f[i] ELSE f[m] \o parts[i]]
  <2>2. f = [i \in 1..m |-> IF i = 1 THEN parts[i] ELSE f[i - 1] \o parts[i]]
    BY <2>1 DEF IsFlattening
  <2>3. ASSUME NEW i \in 1..(m + 1)
        PROVE  g[i] = IF i = 1 THEN parts[i] ELSE g[i - 1] \o parts[i]
    <3>1. CASE i = 1
      <4>1. g[1] = f[1] /\ f[1] = parts[1]
        BY <2>2
      <4>. QED
        BY <3>1, <4>1
    <3>2. CASE i # 1 /\ i <= m
      <4>1. i \in 1..m /\ i - 1 \in 1..m
        BY <3>2
      <4>2. g[i] = f[i] /\ g[i - 1] = f[i - 1]
        BY <3>2, <4>1
      <4>3. f[i] = f[i - 1] \o parts[i]
        BY <2>2, <3>2, <4>1
      <4>. HIDE DEF g
      <4>. QED
        BY <3>2, <4>2, <4>3
    <3>3. CASE i = m + 1
      <4>1. i # 1 /\ ~(i <= m) /\ i - 1 = m /\ m \in 1..(m + 1)
        BY <3>3
      <4>2. g[i] = f[m] \o parts[i]
        BY <4>1, Zenon
      <4>3. g[m] = f[m]
        BY <4>1
      <4>. HIDE DEF g
      <4>. QED
        BY <4>1, <4>2, <4>3
    <3>. QED
      BY <3>1, <3>2, <3>3
  <2>4. IsFlattening(g, m + 1, parts)
    <3>. DEFINE h == [i \in 1..(m + 1) |-> IF i = 1 THEN parts[i] ELSE g[i - 1] \o parts[i]]
    <3>1. \A i \in 1..(m + 1) : g[i] = h[i]
      <4>. HIDE DEF g
      <4>. QED
        BY <2>3
    <3>2. g = [i \in 1..(m + 1) |-> g[i]] /\ h = [i \in 1..(m + 1) |-> h[i]]
      OBVIOUS
    <3>3. g = h
      <4>. HIDE DEF g, h
      <4>. QED
        BY <3>1, <3>2
    <3>. QED
      BY <3>3 DEF IsFlattening
  <2>5. m + 1 \in 1..n
    BY <1>2
  <2>. QED
    BY <2>4, <2>5
<1>3. 1..n \subseteq T
  <2>. HIDE DEF T
  <2>. QED
    BY <1>1, <1>2, InductionUpTo
<1>. QED
  BY <1>3

LEMMA FlattenSeqIs ==
  ASSUME NEW n \in Nat \ {0}, NEW S, NEW parts \in [1..n -> S]
  PROVE  \E f : IsFlattening(f, n, parts) /\ FlattenSeq(parts) = f[n]
<1>1. Len(parts) = n
  BY LenProperties
<1>. DEFINE f == CHOOSE g : g = [i \in 1..n |-> IF i = 1 THEN parts[i] ELSE g[i - 1] \o parts[i]]
<1>2. IsFlattening(f, n, parts)
  BY FlatteningExists DEF IsFlattening
<1>3. FlattenSeq(parts) = f[n]
  BY <1>1 DEF FlattenSeq
<1>. QED
  BY <1>2, <1>3

\* What is joined holds the elements of the parts, and nothing else; ...
Holds(whole, parts, m) ==
  /\ \A k \in 1..Len(whole) : \E i \in 1..m : \E j \in 1..Len(parts[i]) : whole[k] = parts[i][j]
  /\ \A i \in 1..m : \A j \in 1..Len(parts[i]) : \E k \in 1..Len(whole) : whole[k] = parts[i][j]
\* ... and each once, if the parts share none and repeat none.
PartsApart(parts, m) ==
  \A i, u \in 1..m : \A j \in 1..Len(parts[i]) : \A k \in 1..Len(parts[u]) :
    parts[i][j] = parts[u][k] => i = u /\ j = k
NoneTwice(whole) == \A k, l \in 1..Len(whole) : whole[k] = whole[l] => k = l

LEMMA JoinOne ==
  ASSUME NEW S, NEW n \in Nat, NEW parts \in [1..n -> Seq(S)], NEW m \in 1..n, m < n,
         NEW whole \in Seq(S), Holds(whole, parts, m)
  PROVE  LET longer == whole \o parts[m + 1] IN
         /\ longer \in Seq(S)
         /\ Holds(longer, parts, m + 1)
         /\ PartsApart(parts, n) /\ NoneTwice(whole) => NoneTwice(longer)
<1>. DEFINE part == parts[m + 1]
            longer == whole \o part
<1>1. m + 1 \in 1..n /\ part \in Seq(S) /\ \A i \in 1..(m + 1) : i \in 1..n
  OBVIOUS
<1>2. Len(whole) \in Nat /\ Len(part) \in Nat
  BY <1>1, LenProperties
<1>3. /\ longer \in Seq(S)
      /\ Len(longer) = Len(whole) + Len(part)
      /\ \A k \in 1..(Len(whole) + Len(part)) :
           longer[k] = IF k <= Len(whole) THEN whole[k] ELSE part[k - Len(whole)]
  <2>. HIDE DEF part
  <2>. QED
    BY <1>1, ConcatProperties
<1>4. \A k \in 1..Len(longer) :
        \/ k \in 1..Len(whole) /\ longer[k] = whole[k]
        \/ k - Len(whole) \in 1..Len(part) /\ longer[k] = part[k - Len(whole)]
  <2>. HIDE DEF longer, part
  <2>. QED
    BY <1>2, <1>3
<1>5. \A k \in 1..Len(whole) : k \in 1..Len(longer) /\ longer[k] = whole[k]
  <2>. HIDE DEF longer, part
  <2>. QED
    BY <1>2, <1>3
<1>6. \A j \in 1..Len(part) :
        Len(whole) + j \in 1..Len(longer) /\ longer[Len(whole) + j] = part[j]
  <2>. HIDE DEF longer, part
  <2>. QED
    BY <1>2, <1>3
<1>7. \A i \in 1..(m + 1) : i \in 1..m \/ i = m + 1
  OBVIOUS
<1>8. m + 1 \in 1..(m + 1) /\ \A i \in 1..m : i \in 1..(m + 1)
  OBVIOUS
<1>. HIDE DEF longer
<1>9. Holds(longer, parts, m + 1)
  <2>1. ASSUME NEW k \in 1..Len(longer)
        PROVE  \E i \in 1..(m + 1) : \E j \in 1..Len(parts[i]) : longer[k] = parts[i][j]
    <3>1. CASE k \in 1..Len(whole) /\ longer[k] = whole[k]
      BY <3>1, <1>8 DEF Holds
    <3>2. CASE k - Len(whole) \in 1..Len(part) /\ longer[k] = part[k - Len(whole)]
      BY <3>2, <1>8
    <3>. QED
      BY <3>1, <3>2, <1>4
  <2>2. ASSUME NEW i \in 1..(m + 1), NEW j \in 1..Len(parts[i])
        PROVE  \E k \in 1..Len(longer) : longer[k] = parts[i][j]
    <3>1. CASE i \in 1..m
      BY <3>1, <1>5 DEF Holds
    <3>2. CASE i = m + 1
      BY <3>2, <1>6
    <3>. QED
      BY <3>1, <3>2, <1>7
  <2>. QED
    BY <2>1, <2>2 DEF Holds
<1>10. ASSUME PartsApart(parts, n), NoneTwice(whole), NEW k \in 1..Len(longer),
              NEW l \in 1..Len(longer), longer[k] = longer[l]
       PROVE  k = l
  <2>1. ASSUME NEW g \in 1..Len(whole), NEW j \in 1..Len(part) PROVE whole[g] # part[j]
    <3>1. PICK i \in 1..m : \E h \in 1..Len(parts[i]) : whole[g] = parts[i][h]
      BY DEF Holds
    <3>2. i # m + 1 /\ i \in 1..n
      OBVIOUS
    <3>. QED
      BY <1>1, <1>10, <3>1, <3>2 DEF PartsApart
  <2>2. CASE k \in 1..Len(whole) /\ longer[k] = whole[k]
    <3>1. l \in 1..Len(whole) /\ longer[l] = whole[l]
      BY <1>4, <1>10, <2>1, <2>2
    <3>. QED
      BY <1>10, <2>2, <3>1 DEF NoneTwice
  <2>3. CASE k - Len(whole) \in 1..Len(part) /\ longer[k] = part[k - Len(whole)]
    <3>1. l - Len(whole) \in 1..Len(part) /\ longer[l] = part[l - Len(whole)]
      BY <1>4, <1>10, <2>1, <2>3
    <3>3. \A g, h \in 1..Len(part) : part[g] = part[h] => g = h
      BY <1>1, <1>10 DEF PartsApart
    <3>2. k - Len(whole) = l - Len(whole)
      BY <1>10, <2>3, <3>1, <3>3
    <3>. HIDE DEF part
    <3>. QED
      BY <1>2, <3>2
  <2>. QED
    BY <1>4, <2>2, <2>3
<1>. QED
  BY <1>3, <1>9, <1>10 DEF NoneTwice, longer

Joined(whole, parts, m, n, S) ==
  /\ whole \in Seq(S)
  /\ Holds(whole, parts, m)
  /\ PartsApart(parts, n) => NoneTwice(whole)

LEMMA FlattenSeqHolds ==
  ASSUME NEW S, NEW n \in Nat \ {0}, NEW parts \in [1..n -> Seq(S)]
  PROVE  /\ FlattenSeq(parts) \in Seq(S)
         /\ Holds(FlattenSeq(parts), parts, n)
         /\ PartsApart(parts, n) => NoneTwice(FlattenSeq(parts))
<1>1. PICK f : IsFlattening(f, n, parts) /\ FlattenSeq(parts) = f[n]
  BY FlattenSeqIs
<1>2. f = [i \in 1..n |-> IF i = 1 THEN parts[i] ELSE f[i - 1] \o parts[i]]
  BY <1>1 DEF IsFlattening
<1>. DEFINE T == {m \in 1..n : Joined(f[m], parts, m, n, S)}
<1>3. 1 \in T
  <2>1. f[1] = parts[1] /\ parts[1] \in Seq(S) /\ 1 \in 1..n
    BY <1>2
  <2>2. \A i \in 1..1 : i = 1
    OBVIOUS
  <2>3. Holds(parts[1], parts, 1)
    BY <2>2 DEF Holds
  <2>4. PartsApart(parts, n) => NoneTwice(parts[1])
    BY <2>1 DEF PartsApart, NoneTwice
  <2>. QED
    BY <2>1, <2>3, <2>4 DEF Joined
<1>4. ASSUME NEW m \in 1..n, m \in T, m < n PROVE m + 1 \in T
  <2>1. m + 1 \in 1..n /\ m + 1 # 1 /\ (m + 1) - 1 = m
    BY <1>4
  <2>2. f[m + 1] = f[m] \o parts[m + 1]
    BY <1>2, <2>1
  <2>3. f[m] \in Seq(S) /\ Holds(f[m], parts, m) /\ (PartsApart(parts, n) => NoneTwice(f[m]))
    BY <1>4 DEF Joined
  <2>4. Joined(f[m + 1], parts, m + 1, n, S)
    <3>. HIDE DEF T
    <3>. QED
      BY <1>4, <2>2, <2>3, JoinOne DEF Joined
  <2>. QED
    BY <2>1, <2>4
<1>5. n \in T
  <2>1. 1..n \subseteq T
    <3>. HIDE DEF T
    <3>. QED
      BY <1>3, <1>4, InductionUpTo
  <2>. QED
    BY <2>1
<1>. QED
  BY <1>1, <1>5 DEF Joined

-----------------------------------------------------------------------------
(* FoldLeft: the recursion goes over the sets of indices and takes the     *)
(* largest out.  V holds the values, step gives the next one.              *)

Folds(f, n, V, base, step) ==
  /\ f \in [SUBSET (1..n) -> V]
  /\ \A s \in SUBSET (1..n) :
       f[s] = IF s = {} THEN base ELSE step[<<Max(s), f[s \ {Max(s)}]>>]

LEMMA FoldExists ==
  ASSUME NEW n \in Nat, NEW V, NEW base \in V, NEW step \in [(1..n) \X V -> V]
  PROVE  \E f : Folds(f, n, V, base, step)
<1>. DEFINE T == {m \in 0..n : \E f : Folds(f, m, V, base, step)}
<1>1. 0 \in T
  <2>. DEFINE f == [s \in SUBSET (1..0) |-> base]
  <2>1. \A s \in SUBSET (1..0) : s = {}
    OBVIOUS
  <2>2. Folds(f, 0, V, base, step)
    BY <2>1 DEF Folds
  <2>. QED
    BY <2>2
<1>2. ASSUME NEW m \in 0..n, m \in T, m < n PROVE m + 1 \in T
  <2>1. PICK f : Folds(f, m, V, base, step)
    BY <1>2
  <2>. DEFINE k == m + 1
              g == [s \in SUBSET (1..k) |->
                      IF k \notin s THEN f[s] ELSE step[<<k, f[s \ {k}]>>]]
  <2>2. /\ k \in 1..n /\ k \in Nat /\ k \notin 1..m
        /\ \A s \in SUBSET (1..k) : s \ {k} \in SUBSET (1..m) /\ (k \notin s => s = s \ {k})
        /\ 1..m \subseteq 1..k
    <3>. HIDE DEF g, T
    <3>1. k \in 1..n /\ k \in Nat /\ k \notin 1..m /\ 1..m \subseteq 1..k
      BY <1>2
    <3>2. \A i \in 1..k : i # k => i \in 1..m
      OBVIOUS
    <3>. HIDE DEF k
    <3>. QED
      BY <3>1, <3>2
  <2>. HIDE DEF k
  <2>3. \A s \in SUBSET (1..m) : f[s] \in V
    BY <2>1 DEF Folds
  <2>4. ASSUME NEW s \in SUBSET (1..k) PROVE g[s] \in V
    <3>1. CASE k \notin s
      BY <2>2, <2>3, <3>1
    <3>2. CASE k \in s
      <4>1. f[s \ {k}] \in V /\ <<k, f[s \ {k}]>> \in (1..n) \X V
        BY <2>2, <2>3
      <4>. QED
        BY <3>2, <4>1
    <3>. QED
      BY <3>1, <3>2
  <2>5. ASSUME NEW s \in SUBSET (1..k)
        PROVE  g[s] = IF s = {} THEN base ELSE step[<<Max(s), g[s \ {Max(s)}]>>]
    <3>1. CASE k \notin s
      <4>1. s \in SUBSET (1..m) /\ g[s] = f[s]
        BY <2>2, <3>1
      <4>2. k \notin s \ {Max(s)} /\ s \ {Max(s)} \in SUBSET (1..k)
        BY <3>1
      <4>3. g[s \ {Max(s)}] = f[s \ {Max(s)}]
        BY <4>2
      <4>. HIDE DEF g
      <4>. QED
        BY <2>1, <4>1, <4>3 DEF Folds
    <3>2. CASE k \in s
      <4>1. Max(s) = k
        <5>1. s \subseteq 0..k /\ s # {}
          BY <3>2
        <5>2. Max(s) \in s /\ Max(s) >= k
          BY <2>2, <3>2, <5>1, MaxProperties
        <5>3. Max(s) \in 1..k
          BY <5>2
        <5>. QED
          BY <2>2, <5>2, <5>3
      <4>2. k \notin s \ {k} /\ s \ {k} \in SUBSET (1..k)
        OBVIOUS
      <4>3. g[s \ {k}] = f[s \ {k}] /\ g[s] = step[<<k, f[s \ {k}]>>]
        BY <3>2, <4>2
      <4>. HIDE DEF g
      <4>. QED
        BY <3>2, <4>1, <4>3
    <3>. QED
      BY <3>1, <3>2
  <2>6. Folds(g, k, V, base, step)
    <3>1. g \in [SUBSET (1..k) -> V]
      BY <2>4
    <3>. HIDE DEF g
    <3>. QED
      BY <2>5, <3>1 DEF Folds
  <2>7. m + 1 \in 0..n
    BY <1>2
  <2>. QED
    BY <2>6, <2>7 DEF k
<1>3. 0..n \subseteq T
  <2>. HIDE DEF T
  <2>. QED
    BY <1>1, <1>2, InductionUpTo
<1>. QED
  BY <1>3

\* What it gives for the first indices.
LEMMA FoldSteps ==
  ASSUME NEW n \in Nat, NEW V, NEW base, NEW step, NEW f, Folds(f, n, V, base, step)
  PROVE  /\ f[{}] = base
         /\ f[1..0] = base
         /\ \A k \in 1..n : /\ f[1..k] = step[<<k, f[1..(k - 1)]>>]
                            /\ f[1..(k - 1)] \in V
<1>1. f[{}] = base /\ 1..0 = {}
  <2>1. {} \in SUBSET (1..n) /\ 1..0 = {}
    OBVIOUS
  <2>. QED
    BY <2>1 DEF Folds
<1>2. ASSUME NEW k \in 1..n
      PROVE  f[1..k] = step[<<k, f[1..(k - 1)]>>] /\ f[1..(k - 1)] \in V
  <2>1. 1..k \in SUBSET (1..n) /\ 1..k # {} /\ 1..k \subseteq 0..k /\ k \in Nat
    OBVIOUS
  <2>2. Max(1..k) \in 1..k /\ Max(1..k) >= k
    <3>1. Max(1..k) \in 1..k /\ \A y \in 1..k : Max(1..k) >= y
      <4>. DEFINE up == 1..k
      <4>1. up \subseteq 0..k /\ up # {}
        BY <2>1
      <4>. HIDE DEF up
      <4>2. Max(up) \in up /\ \A y \in up : Max(up) >= y
        BY <2>1, <4>1, MaxProperties
      <4>. QED
        BY <4>2 DEF up
    <3>. QED
      BY <3>1
  <2>3. Max(1..k) = k
    BY <2>2
  <2>4. (1..k) \ {k} = 1..(k - 1) /\ 1..(k - 1) \in SUBSET (1..n)
    OBVIOUS
  <2>. QED
    BY <2>1, <2>3, <2>4 DEF Folds
<1>. QED
  BY <1>1, <1>2
=============================================================================
