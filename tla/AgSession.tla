------------------------------ MODULE AgSession ------------------------------
(***************************************************************************)
(* The searches of one run of tabdeeli over the global state of libag.     *)
(* The search button checks the expression (is_regex_invalid), replaces    *)
(* the Searcher (whose destructor and constructor finish and start libag)  *)
(* and, if the expression passed, searches.  Each call works on globals    *)
(* that the calls before have left: options, the compiled expression, the  *)
(* skip table of the literal search.                                       *)
(*                                                                         *)
(* A pointer is Null, Dangling (freed, not cleared), or the expression its *)
(* memory was filled from.                                                 *)
(***************************************************************************)
EXTENDS Integers

CONSTANTS
  Literal,      \* expressions without a regex character (is_regex)
  Regex,        \* expressions with one that compile
  Broken,       \* expressions with one that do not
  Null, Dangling

Expression == Literal \cup Regex \cup Broken

ASSUME AgSessionAssumption ==
  /\ Literal \cap Regex = {} /\ Literal \cap Broken = {} /\ Regex \cap Broken = {}
  /\ Null \notin Expression /\ Dangling \notin Expression /\ Null # Dangling

VARIABLES
  step,               \* where the search button's handler stands
  expression,         \* search_text
  verdict,            \* what ag_is_regex_valid returned
  searcher_state, results,                \* the Searcher
  has_ag_init, opts, find_skip_lookup,    \* libag's globals
  status,             \* whether the program runs
  used,               \* history: how the last search looked, and for what
  freed_twice         \* history: what was freed when it was dangling

vars == <<step, expression, verdict, searcher_state, results,
          has_ag_init, opts, find_skip_lookup, status, used, freed_twice>>

Pointer == Expression \cup {Null, Dangling}
FreshOptions == [literal |-> FALSE, query |-> Null, re |-> Null, re_extra |-> Null]
NotUsed == [as |-> "nothing", pattern |-> Null]

-----------------------------------------------------------------------------
(* setup_search and compile_study: what they leave and return for e.  The
   option literal is set and never cleared here; pcre_study may find
   nothing useful. *)

SetupOutcomes(e) ==
  IF opts.literal \/ e \in Literal
  THEN {[literal |-> TRUE, re |-> opts.re, re_extra |-> opts.re_extra, skip |-> e, rv |-> 0]}
  ELSE IF e \in Broken
  THEN {[literal |-> FALSE, re |-> Null, re_extra |-> opts.re_extra,
         skip |-> find_skip_lookup, rv |-> -2]}
  ELSE {[literal |-> FALSE, re |-> e, re_extra |-> extra, skip |-> find_skip_lookup,
         rv |-> IF extra = Null THEN -1 ELSE 0] : extra \in {Null, e}}

\* What a free of these pointers (name |-> pointer) does a second time.
Twice(frees) == {name \in DOMAIN frees : frees[name] = Dangling}

\* A second free aborts the program or corrupts the heap unnoticed.
Frees(names) ==
  /\ freed_twice' = freed_twice \cup names
  /\ status' \in IF names = {} THEN {status} ELSE {"running", "aborted"}

-----------------------------------------------------------------------------
(* searcher::is_regex_invalid and ag_is_regex_valid.  Without libag the
   expression counts as valid. *)

Check ==
  /\ status = "running" /\ step = "ready"
  /\ expression' \in Expression
  /\ \/ /\ ~has_ag_init
        /\ verdict' = -1
        /\ UNCHANGED <<opts, find_skip_lookup, freed_twice, status>>
     \/ /\ has_ag_init
        /\ \E out \in SetupOutcomes(expression') :
             /\ opts' = [literal |-> out.literal, query |-> expression',
                         re |-> out.re, re_extra |-> out.re_extra]
             /\ find_skip_lookup' = out.skip
             /\ verdict' = out.rv
        /\ Frees(Twice([query |-> opts.query]))
  /\ step' = "checked"
  /\ UNCHANGED <<searcher_state, results, has_ag_init, used>>

\* Mutant: every code but 0 counts as invalid.
IsRegexInvalidOrFails == verdict # 0
IsRegexInvalid == verdict = -2

(* reset_state_before_search: delete Searcher, new Searcher. *)

\* Mutant: ag_finish leaves has_ag_init set.
FinishedInName(ag) ==
  [init |-> ag.init,
   opts |-> [p \in {"query", "re", "re_extra"} |->
               IF ag.opts[p] = Null THEN Null ELSE Dangling],
   twice |-> ag.twice \cup Twice([p \in {"query", "re", "re_extra"} |-> ag.opts[p]])]
\* ag_finish: cleanup_options frees the options, and leaves them as they are
\* for init_options to clear.
Finished(ag) ==
  [init |-> FALSE,
   opts |-> [p \in {"query", "re", "re_extra"} |->
               IF ag.opts[p] = Null THEN Null ELSE Dangling],
   twice |-> ag.twice \cup Twice([p \in {"query", "re", "re_extra"} |-> ag.opts[p]])]

Ag == [init |-> has_ag_init, opts |-> opts, twice |-> {}]
\* The destructor finishes libag only if it has results,
Deleted == IF results # Null THEN Finished(Ag) ELSE Ag
\* and ag_init_config if it is still started.
Restarted == IF Deleted.init THEN Finished(Deleted) ELSE Deleted

\* Mutant: the Searcher deleted and not replaced.
DropSearcher == results' = IF results = Null THEN Null ELSE Dangling
\* The new Searcher has no results.
NewSearcher == results' = Null

\* Mutant: options set without memset.
InitOptionsKeepsLiteral == opts' = [FreshOptions EXCEPT !.literal = opts.literal]
init_options == opts' = FreshOptions

\* The worker threads may fail to start; then the next start may fail too.
Reset ==
  /\ status = "running" /\ step = "checked"
  /\ NewSearcher
  /\ Frees(Restarted.twice)
  /\ init_options
  /\ has_ag_init' \in BOOLEAN
  /\ \/ IsRegexInvalid /\ step' = "ready" /\ searcher_state' = "INVALID_REGEX"
     \/ ~IsRegexInvalid /\ step' = "fresh" /\ searcher_state' = "NO_SEARCH_EXECUTED"
  /\ used' = NotUsed
  /\ UNCHANGED <<expression, verdict, find_skip_lookup>>

(* searcher::execute_search and ag_search. *)

SearchRefused ==
  /\ ~has_ag_init
  /\ results' = Null
  /\ searcher_state' = "NO_RESULTS_FOUND"
  /\ UNCHANGED <<opts, find_skip_lookup, used, freed_twice, status>>

\* pcre_exec without a compiled expression finds nothing.
Pattern(out) == IF out.literal THEN expression ELSE out.re
SearchFiles ==
  /\ has_ag_init
  /\ \E out \in SetupOutcomes(expression) :
       /\ used' = [as |-> IF out.literal THEN "literal" ELSE "regex", pattern |-> Pattern(out)]
       /\ results' \in {Null, Pattern(out)}
       /\ find_skip_lookup' = IF out.skip = Null THEN Null ELSE Dangling
       /\ opts' = [literal |-> out.literal, query |-> Null, re |-> out.re, re_extra |-> out.re_extra]
       /\ Frees(Twice([query |-> opts.query, find_skip_lookup |-> out.skip]))
  /\ searcher_state' = IF results' = Null THEN "NO_RESULTS_FOUND" ELSE "RESULTS_FOUND"

Search ==
  /\ status = "running" /\ step = "fresh"
  /\ SearchRefused \/ SearchFiles
  /\ step' = "ready"
  /\ UNCHANGED <<expression, verdict, has_ag_init>>

\* The renderer of the bottom bar, when the expression is edited.
RenderSearchInput ==
  /\ status = "running" /\ step = "ready"
  /\ searcher_state = "INVALID_REGEX"
  /\ searcher_state' = "NO_SEARCH_EXECUTED"
  /\ UNCHANGED <<step, expression, verdict, results, has_ag_init, opts,
                 find_skip_lookup, status, used, freed_twice>>

Aborted == status = "aborted" /\ UNCHANGED vars

-----------------------------------------------------------------------------
\* The Searcher of main.
Init ==
  /\ step = "ready"
  /\ expression \in Expression /\ verdict = 0
  /\ searcher_state = "NO_SEARCH_EXECUTED" /\ results = Null
  /\ has_ag_init \in BOOLEAN
  /\ opts = FreshOptions /\ find_skip_lookup = Null
  /\ status = "running" /\ used = NotUsed /\ freed_twice = {}

Next == Check \/ Reset \/ Search \/ RenderSearchInput \/ Aborted

Spec == Init /\ [][Next]_vars

-----------------------------------------------------------------------------
(* Properties. *)

\* Every variable has its type.
TypeOK ==
  /\ step \in {"ready", "checked", "fresh"}
  /\ expression \in Expression /\ verdict \in {0, -1, -2}
  /\ searcher_state \in {"NO_SEARCH_EXECUTED", "INVALID_REGEX", "NO_RESULTS_FOUND", "RESULTS_FOUND"}
  /\ results \in Expression \cup {Null}
  /\ has_ag_init \in BOOLEAN
  /\ opts \in [literal : BOOLEAN, query : Pointer, re : Pointer, re_extra : Pointer]
  /\ find_skip_lookup \in Pointer
  /\ status \in {"running", "aborted"}
  /\ used \in [as : {"nothing", "literal", "regex"}, pattern : Pointer]
  /\ freed_twice \subseteq {"query", "re", "re_extra", "find_skip_lookup"}

\* A search looks for its own expression, as a literal exactly when it has no
\* regex character, whatever was checked or searched before.
SearchesItsExpression ==
  step = "ready" /\ used # NotUsed =>
    /\ used.as = "literal" <=> expression \in Literal
    /\ used.pattern = IF expression \in Broken THEN Null ELSE expression

\* The options and the compiled expression, passed from check to destructor
\* to constructor to search, are never freed a second time.
OptionsFreedOnce == freed_twice \cap {"query", "re", "re_extra"} = {}

\* A Searcher with results belongs to a started libag, which its destructor
\* finishes; results shown are those of the expression searched.
ResultsAreOfExpression ==
  results # Null => /\ has_ag_init /\ searcher_state = "RESULTS_FOUND"
                    /\ step = "ready" => results = expression

\* No expression that compiles is reported invalid, although pcre_study may
\* fail and libag may not be started.
GoodNotRefused ==
  step = "ready" /\ searcher_state = "INVALID_REGEX" => expression \in Broken

\* libag.c:927 says ag_is_regex_valid checks whether the expression is valid:
\* when libag is started it tells of a broken one.
BrokenIsReported ==
  step = "checked" /\ has_ag_init /\ expression \in Broken => IsRegexInvalid

\* libag's README.md:27 allows as many searches as one likes: none frees the
\* skip table of another.
SearchesAsOneLikes == "find_skip_lookup" \notin freed_twice
=============================================================================
