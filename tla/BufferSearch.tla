---------------------------- MODULE BufferSearch ----------------------------
(***************************************************************************)
(* How libag finds the matches of one expression in the buffer of a file:  *)
(* setup_search prepares a literal expression once, search_buf goes        *)
(* through each buffer with Boyer-Moore, with a hash of all pairs of       *)
(* neighbouring bytes, or with pcre_exec, from one match to the next.      *)
(*                                                                         *)
(* Indices are those of the code, from 0, and count from the start of the  *)
(* buffer where the code counts from match_ptr.  One step is one alignment *)
(* of Boyer-Moore, one sample of the hash, one call of pcre_exec, one cell *)
(* filled.  libag leaves word_regexp, invert_match, max_matches_per_file   *)
(* and search_stream off and multiline on, so their branches are left out; *)
(* a buffer that is_binary takes for binary is not searched.               *)
(***************************************************************************)
EXTENDS Integers, Sequences, FiniteSetsExt

CONSTANTS
  CharCount,   \* number of bytes, 256 in the code
  Upper,       \* the bytes isupper knows
  NonAscii,    \* the bytes isascii does not know
  CaseGap,     \* 'a' - 'A'
  Query,       \* expressions without regex characters
  Buffer,      \* contents searched for them
  Subject      \* contents searched with a regex, which may match anywhere

Char == 0..(CharCount - 1)

ASSUME BufferSearchAssumption ==
  /\ CharCount \in Nat \ {0, 1, 2} /\ CaseGap \in 1..(CharCount - 1)
  /\ Upper \subseteq Char /\ NonAscii \subseteq Char
  /\ \A c \in Upper : c + CaseGap \in Char \ Upper
  /\ Query \subseteq Seq(Char) \ {<< >>}
  /\ Buffer \subseteq Seq(Char) \ {<< >>}
  /\ Subject \subseteq Seq(Char) \ {<< >>}

VARIABLES
  x86,          \* the platform: only x86 has hash_strnstr
  kind,         \* "literal", "regex", or "dot" for the expression "."
  query,        \* the expression of a literal search
  h_table,      \* hash cells: 0, or one more than the position of a pair
  filling,      \* the pair and the capitalisation to fill in next
  pc,           \* "setup"; "ready" for a buffer; "scan" for the next match and
                \* inside it "align", or "sample" and then "tail"; "done"
  buf,
  spans,        \* regex: where a match from each position would end
  buf_offset, matches,
  at            \* pos of boyer_moore_strnstr, s_i of hash_strnstr

queryVars == <<x86, kind, query>>
tableVars == <<h_table, filling>>
bufVars == <<buf, spans>>
vars == <<queryVars, tableVars, pc, bufVars, buf_offset, matches, at>>

NoMatch == -1
buf_len == Len(buf)
Byte(k) == buf[k + 1]

-----------------------------------------------------------------------------
(* Case.  setup_search turns CASE_SMART into one of the other two. *)

tolower(c) == IF c \in Upper THEN c + CaseGap ELSE c
toupper(c) == IF c - CaseGap \in Upper THEN c - CaseGap ELSE c

is_lowercase(s) == \A k \in DOMAIN s : s[k] \notin Upper \cup NonAscii
CaseInsensitive == is_lowercase(query)

Fold(c) == IF CaseInsensitive THEN tolower(c) ELSE c

\* opts.query as the search routines see it; a query without upper-case
\* letters is its own lower case.
find == query
f_len == Len(query)
Find(k) == find[k + 1]

\* An occurrence of the query.
Occurs(p) ==
  /\ 0 <= p /\ p + f_len <= buf_len
  /\ \A k \in 0..(f_len - 1) : Fold(Byte(p + k)) = Find(k)

-----------------------------------------------------------------------------
(* The skip tables of Boyer-Moore.  A loop that overwrites an entry is the
   last of its rounds that writes it. *)

alpha_skip(c) ==
  LET places == {k \in 0..(f_len - 2) :
                   \/ c = Find(k)
                   \/ CaseInsensitive /\ c \in {tolower(Find(k)), toupper(Find(k))}}
  IN IF places = {} THEN f_len ELSE f_len - 1 - Max(places)

is_prefix(p) == \A k \in 0..(f_len - p - 1) : Find(k) = Find(k + p)

suffix_len(p) == Min({r \in 0..p : r = p \/ Find(p - r) # Find(f_len - 1 - r)})

last_prefix(i) == Min({p \in i..f_len : is_prefix(p)})

\* Where the second loop of generate_find_skip writes entry k.
SuffixWrites(k) ==
  {p \in 0..(f_len - 1) : /\ f_len - 1 - suffix_len(p) = k
                          /\ Find(p - suffix_len(p)) # Find(k)}
\* Mutant: the second loop keeps the first value it writes.
find_skip_first(k) ==
  IF SuffixWrites(k) = {}
  THEN last_prefix(k + 1) + f_len - (k + 1)
  ELSE f_len - 1 - Min(SuffixWrites(k)) + (f_len - 1 - k)
find_skip(k) ==
  IF SuffixWrites(k) = {}
  THEN last_prefix(k + 1) + f_len - (k + 1)
  ELSE f_len - 1 - Max(SuffixWrites(k)) + (f_len - 1 - k)

-----------------------------------------------------------------------------
(* The hash of pairs: generate_hash.  A pair is a 16-bit word, and there are
   as many cells as words. *)

H_SIZE == CharCount * CharCount
Word(c, d) == c + CharCount * d
Cell(word, d) == (word + d) % H_SIZE     \* the d-th cell tried for a word

\* Bit k of caps_set capitalises byte k, letter or not.
Capital(c) == (c - CaseGap) % CharCount
PairWord(i, caps_set) ==
  Word(IF caps_set % 2 = 1 THEN Capital(Find(i)) ELSE Find(i),
       IF caps_set \div 2 = 1 THEN Capital(Find(i + 1)) ELSE Find(i + 1))

LastCapsSet == IF CaseInsensitive THEN 3 ELSE 0

\* Every capitalisation of a pair, then the pair before it.
NextPair(f) == IF f.caps_set < LastCapsSet
               THEN [f EXCEPT !.caps_set = @ + 1]
               ELSE [i |-> f.i - 1, caps_set |-> 0]

IsFreeCell(word, d) ==
  /\ h_table[Cell(word, d)] = 0
  /\ \A e \in 0..(d - 1) : h_table[Cell(word, e)] # 0

\* A table without a free cell would be searched for ever.
FillCell ==
  /\ pc = "setup"
  /\ filling.i >= 0
  /\ LET word == PairWord(filling.i, filling.caps_set)
     IN \E d \in 0..(H_SIZE - 1) :
          /\ IsFreeCell(word, d)
          /\ h_table' = [h_table EXCEPT ![Cell(word, d)] = (filling.i + 1) % CharCount]
  /\ filling' = NextPair(filling)
  /\ UNCHANGED <<queryVars, pc, bufVars, buf_offset, matches, at>>

SetupDone ==
  /\ pc = "setup"
  /\ filling.i < 0
  /\ pc' = "ready"
  /\ UNCHANGED <<queryVars, tableVars, bufVars, buf_offset, matches, at>>

-----------------------------------------------------------------------------
(* search_buf. *)

\* The contents of a file; for a regex also what it matches there: pcre_exec
\* returns the leftmost match from an offset on, however it was reached.
ReadBuffer ==
  /\ pc = "ready"
  /\ IF kind = "literal"
     THEN buf' \in Buffer /\ spans' = << >>
     ELSE /\ buf' \in Subject
          /\ spans' \in [0..Len(buf') -> {NoMatch} \cup 0..Len(buf')]
          /\ \A p \in 0..Len(buf') : spans'[p] = NoMatch \/ p <= spans'[p]
  /\ pc' = "scan"
  /\ UNCHANGED <<queryVars, tableVars, buf_offset, matches, at>>

UsesHash == x86 /\ f_len >= 3 /\ f_len < CharCount - 1

\* Mutant: one byte less, where a sample may also start.
StepShort == f_len - 3
\* Mutant: one byte more.
StepLong == f_len
Step == f_len - 1

\* Mutant: the first sample where the match may start.
FirstSampleAtOffset == buf_offset
FirstSample == buf_offset + f_len - 2

\* Mutant: an empty match moves the offset by two.
ResumeTwoFurther(start, end) == IF start = end THEN end + 2 ELSE end
\* A match of no bytes moves the offset one byte further.
Resume(start, end) == IF start = end THEN end + 1 ELSE end

Found(start, end) ==
  /\ matches' = Append(matches, [start |-> start, end |-> end])
  /\ buf_offset' = Resume(start, end)
  /\ pc' = "scan"
  /\ UNCHANGED at

NotFound ==
  /\ pc' = "done"
  /\ UNCHANGED <<buf_offset, matches, at>>

\* The expression "." is taken to match the buffer as a whole.
SearchDot ==
  /\ pc = "scan" /\ kind = "dot"
  /\ matches' = << [start |-> 0, end |-> buf_len] >>
  /\ pc' = "done"
  /\ UNCHANGED <<buf_offset, at>>

SearchRegex ==
  /\ pc = "scan" /\ kind = "regex"
  /\ LET starts == {p \in buf_offset..buf_len : spans[p] # NoMatch}
     IN IF buf_offset < buf_len /\ starts # {}
        THEN Found(Min(starts), spans[Min(starts)])
        ELSE NotFound

SearchLiteral ==
  /\ pc = "scan" /\ kind = "literal"
  /\ \/ /\ buf_offset < buf_len /\ ~UsesHash
        /\ pc' = "align" /\ at' = buf_offset + f_len - 1
        /\ UNCHANGED <<buf_offset, matches>>
     \/ /\ buf_offset + f_len <= buf_len /\ UsesHash
        /\ pc' = "sample" /\ at' = FirstSample
        /\ UNCHANGED <<buf_offset, matches>>
     \/ /\ buf_offset >= buf_len \/ (UsesHash /\ buf_offset + f_len > buf_len)
        /\ NotFound

\* The places of the query that differ when its last byte is aligned with pos.
Mismatches(pos) ==
  {i \in 0..(f_len - 1) : Fold(Byte(pos - (f_len - 1 - i))) # Find(i)}

\* From the place i of the mismatch.
Skipped(pos, i) ==
  LET p == pos - (f_len - 1 - i)
  IN p + Max({alpha_skip(Byte(p)), find_skip(i)})

boyer_moore_strnstr ==
  /\ pc = "align"
  /\ \/ /\ at >= buf_len
        /\ NotFound
     \/ /\ at < buf_len /\ Mismatches(at) = {}
        /\ Found(at - (f_len - 1), at + 1)
     \/ /\ at < buf_len /\ Mismatches(at) # {}
        /\ at' = Skipped(at, Max(Mismatches(at)))
        /\ UNCHANGED <<pc, buf_offset, matches>>

\* The d-th cell tried for the pair of bytes at s_i, up to the first free one,
\* and the start it puts forward.
Probe(s_i, d) == h_table[Cell(Word(Byte(s_i), Byte(s_i + 1)), d)]
Probes(s_i) == {d \in 0..(H_SIZE - 1) : \A e \in 0..d : Probe(s_i, e) # 0}
Candidate(s_i, d) == s_i - (Probe(s_i, d) - 1)
Hits(s_i) == {d \in Probes(s_i) : Occurs(Candidate(s_i, d))}

SampleFits == at + f_len <= buf_len

hash_strnstr ==
  \/ /\ pc = "sample" /\ SampleFits
     /\ IF Hits(at) # {}
        THEN LET R == Candidate(at, Min(Hits(at))) IN Found(R, R + f_len)
        ELSE at' = at + Step /\ UNCHANGED <<pc, buf_offset, matches>>
  \/ /\ pc = "sample" /\ ~SampleFits
     /\ pc' = "tail"
     /\ at' = at - Step + 1
     /\ UNCHANGED <<buf_offset, matches>>
  \/ /\ pc = "tail" /\ at + f_len <= buf_len
     /\ IF Occurs(at)
        THEN Found(at, at + f_len)
        ELSE at' = at + 1 /\ UNCHANGED <<pc, buf_offset, matches>>
  \/ /\ pc = "tail" /\ at + f_len > buf_len
     /\ NotFound

Search ==
  /\ SearchDot \/ SearchRegex \/ SearchLiteral \/ boyer_moore_strnstr \/ hash_strnstr
  /\ UNCHANGED <<queryVars, tableVars, bufVars>>

\* The matches are handed over and freed, and the buffer is unmapped.
ReleaseBuffer ==
  /\ pc = "done" /\ pc' = "ready"
  /\ buf' = << >> /\ spans' = << >>
  /\ buf_offset' = 0 /\ matches' = << >> /\ at' = 0
  /\ UNCHANGED <<queryVars, tableVars>>

Init ==
  /\ x86 \in BOOLEAN
  /\ \/ kind = "literal" /\ query \in Query
     \/ kind \in {"regex", "dot"} /\ query = << >>
  /\ h_table = [h \in 0..(H_SIZE - 1) |-> 0]
  /\ filling = [i |-> Len(query) - 2, caps_set |-> 0]
  /\ pc = "setup"
  /\ buf = << >> /\ spans = << >>
  /\ buf_offset = 0 /\ matches = << >> /\ at = 0

Next == FillCell \/ SetupDone \/ ReadBuffer \/ Search \/ ReleaseBuffer

Spec == Init /\ [][Next]_vars

\* The thread that sets up or scans goes on; whether another file comes is
\* not for it to say.
FairSpec == Spec /\ WF_vars(FillCell \/ SetupDone \/ Search \/ ReleaseBuffer)

-----------------------------------------------------------------------------
(* Properties *)

TypeOK ==
  /\ x86 \in BOOLEAN /\ kind \in {"literal", "regex", "dot"}
  /\ IF kind = "literal" THEN query \in Query ELSE query = << >>
  /\ h_table \in [0..(H_SIZE - 1) -> Char]
  /\ filling \in [i : -2..(f_len - 2), caps_set : 0..3]
  /\ pc \in {"setup", "ready", "scan", "align", "sample", "tail", "done"}
  /\ buf \in Seq(Char)
  /\ kind = "literal" \/ buf = << >> \/ spans \in [0..buf_len -> -1..buf_len]
  /\ buf_offset \in 0..(buf_len + 1)
  /\ matches \in Seq([start : 0..buf_len, end : 0..buf_len])
  /\ at \in Nat

\* What a match is, whatever the algorithm.
StartsMatch(p) == IF kind = "literal" THEN Occurs(p) ELSE spans[p] # NoMatch
EndOfMatch(p) == IF kind = "literal" THEN p + f_len ELSE spans[p]

\* Where the k-th match may start: behind the one before it, and not where
\* that one starts when it has no bytes.
Open(k) ==
  IF k = 1 THEN 0..buf_len
  ELSE (matches[k - 1].end..buf_len) \ {matches[k - 1].start}

\* The matches reported are matches of the expression, in order and without
\* overlap, and each is the first that starts behind the one before it,
\* whether the skips of Boyer-Moore, the hash or pcre found it.
LeftmostInOrder ==
  kind # "dot" =>
    \A k \in DOMAIN matches :
      LET m == matches[k] IN
      /\ m.start \in Open(k) /\ StartsMatch(m.start) /\ m.end = EndOfMatch(m.start)
      /\ \A p \in Open(k) : p < m.start => ~StartsMatch(p)

\* When a buffer is done, nothing behind the last match matches.
NothingMissed ==
  (kind # "dot" /\ pc = "done") =>
    \A p \in Open(Len(matches) + 1) : p < buf_len => ~StartsMatch(p)

\* Every byte read lies in the part of the buffer that is searched:
\* Boyer-Moore reads backwards from pos, and a cell of the hash, also one
\* filled for another pair, leads back from s_i by what it holds.
ReadsInBuffer ==
  /\ (pc = "align" /\ at < buf_len) => buf_offset <= at - (f_len - 1)
  /\ (pc = "sample" /\ SampleFits) =>
       \A d \in Probes(at) : Candidate(at, d) \in buf_offset..(buf_len - f_len)
  /\ pc = "tail" => buf_offset <= at

\* A search goes on to the end of the buffer, and its preparation ends: every
\* skip is forward, an empty match is left behind and a free cell is found.
ScanEnds == (pc # "ready") ~> (pc = "ready")

=============================================================================
