--------------------------- MODULE AgSessionProofs ---------------------------
(***************************************************************************)
(* Proofs about AgSession, for every set of expressions.                   *)
(***************************************************************************)
EXTENDS AgSession, TLAPS

\* None of the options points to memory already freed.
OptionsAlive == opts.query # Dangling /\ opts.re # Dangling /\ opts.re_extra # Dangling

\* A search starts from fresh options; only broken expressions get -2.
HandlerInOrder ==
  /\ step = "fresh" => opts = FreshOptions /\ used = NotUsed
  /\ step = "checked" /\ verdict = -2 => expression \in Broken

IInv ==
  /\ TypeOK /\ OptionsAlive /\ HandlerInOrder
  /\ SearchesItsExpression /\ OptionsFreedOnce
  /\ ResultsAreOfExpression /\ GoodNotRefused

\* What setup_search leaves is alive, and a -2 tells of a broken expression
\* (libag.c:258-321).
LEMMA SetupFacts ==
  ASSUME TypeOK, OptionsAlive, NEW e \in Expression, NEW out \in SetupOutcomes(e)
  PROVE  /\ out.literal \in BOOLEAN
         /\ out.re \in Expression \cup {Null} /\ out.re_extra \in Expression \cup {Null}
         /\ out.skip \in Pointer
         /\ out.rv \in {0, -1, -2}
         /\ out.rv = -2 => e \in Broken
         /\ ~opts.literal =>
              /\ out.literal <=> e \in Literal
              /\ ~out.literal => out.re = IF e \in Broken THEN Null ELSE e
<1>. USE AgSessionAssumption DEF TypeOK, OptionsAlive, Pointer, Expression
<1>1. opts.re \in Expression \cup {Null} /\ opts.re_extra \in Expression \cup {Null}
  OBVIOUS
<1>2. CASE opts.literal \/ e \in Literal
  <2>1. out = [literal |-> TRUE, re |-> opts.re, re_extra |-> opts.re_extra, skip |-> e, rv |-> 0]
    BY <1>2 DEF SetupOutcomes
  <2>. QED
    BY <2>1, <1>1, <1>2
<1>3. CASE ~(opts.literal \/ e \in Literal) /\ e \in Broken
  <2>1. out = [literal |-> FALSE, re |-> Null, re_extra |-> opts.re_extra,
               skip |-> find_skip_lookup, rv |-> -2]
    BY <1>3 DEF SetupOutcomes
  <2>. QED
    BY <2>1, <1>1, <1>3
<1>4. CASE ~(opts.literal \/ e \in Literal) /\ e \notin Broken
  <2>1. PICK extra \in {Null, e} :
          out = [literal |-> FALSE, re |-> e, re_extra |-> extra, skip |-> find_skip_lookup,
                 rv |-> IF extra = Null THEN -1 ELSE 0]
    BY <1>4 DEF SetupOutcomes
  <2>. QED
    BY <2>1, <1>4
<1>. QED
  BY <1>2, <1>3, <1>4

\* Deleting one Searcher and making another frees nothing twice
\* (searcher.cpp:9-29, libag.c:495-496).
LEMMA RestartFreesOnce ==
  ASSUME TypeOK, OptionsAlive, ResultsAreOfExpression
  PROVE  Restarted.twice = {}
<1>1. Twice([p \in {"query", "re", "re_extra"} |-> opts[p]]) = {}
  BY DEF Twice, TypeOK, OptionsAlive
<1>2. Finished(Ag).twice = {} /\ Finished(Ag).init = FALSE
  BY <1>1 DEF Finished, Ag
<1>3. CASE results # Null
  BY <1>2, <1>3 DEF Deleted, Restarted
<1>4. CASE results = Null
  <2>1. Deleted = Ag
    BY <1>4 DEF Deleted
  <2>2. Ag.twice = {}
    BY DEF Ag
  <2>. QED
    BY <1>2, <2>1, <2>2 DEF Restarted
<1>. QED
  BY <1>3, <1>4

LEMMA CheckKeeps == ASSUME IInv, Check PROVE IInv'
<1>. USE AgSessionAssumption
<1>1. CASE ~has_ag_init
  <2>1. UNCHANGED <<opts, find_skip_lookup, freed_twice, status, searcher_state, results, has_ag_init, used>>
    BY <1>1 DEF Check
  <2>2. step' = "checked" /\ verdict' = -1 /\ expression' \in Expression
    BY <1>1 DEF Check
  <2>. QED
    BY <2>1, <2>2 DEF IInv, TypeOK, OptionsAlive, HandlerInOrder, SearchesItsExpression,
                      OptionsFreedOnce, ResultsAreOfExpression, GoodNotRefused
<1>2. CASE has_ag_init
  <2>1. PICK out \in SetupOutcomes(expression') :
          /\ opts' = [literal |-> out.literal, query |-> expression',
                      re |-> out.re, re_extra |-> out.re_extra]
          /\ find_skip_lookup' = out.skip
          /\ verdict' = out.rv
    BY <1>2 DEF Check
  <2>2. step' = "checked" /\ expression' \in Expression
        /\ UNCHANGED <<searcher_state, results, has_ag_init, used>>
    BY DEF Check
  <2>3. freed_twice' = freed_twice /\ status' \in {"running", "aborted"}
    <3>1. Twice([query |-> opts.query]) = {}
      BY DEF Twice, IInv, OptionsAlive
    <3>. QED
      BY <1>2, <3>1 DEF Check, Frees, IInv, TypeOK
  <2>4. /\ out.literal \in BOOLEAN
        /\ out.re \in Expression \cup {Null} /\ out.re_extra \in Expression \cup {Null}
        /\ out.skip \in Pointer
        /\ out.rv \in {0, -1, -2}
        /\ out.rv = -2 => expression' \in Broken
    BY <2>1, <2>2, SetupFacts DEF IInv
  <2>5. TypeOK' /\ OptionsAlive'
    BY <2>1, <2>2, <2>3, <2>4 DEF IInv, TypeOK, OptionsAlive, Pointer
  <2>. QED
    BY <2>1, <2>2, <2>3, <2>4, <2>5
       DEF IInv, HandlerInOrder, SearchesItsExpression,
           OptionsFreedOnce, ResultsAreOfExpression, GoodNotRefused
<1>. QED
  BY <1>1, <1>2

LEMMA ResetKeeps == ASSUME IInv, Reset PROVE IInv'
<1>. USE AgSessionAssumption
<1>1. freed_twice' = freed_twice /\ status' \in {"running", "aborted"}
  <2>1. Restarted.twice = {}
    BY RestartFreesOnce DEF IInv
  <2>. QED
    BY <2>1 DEF Reset, Frees, IInv, TypeOK
<1>2. /\ step = "checked" /\ results' = Null /\ opts' = FreshOptions
      /\ has_ag_init' \in BOOLEAN /\ used' = NotUsed
      /\ UNCHANGED <<expression, verdict, find_skip_lookup>>
      /\ \/ verdict = -2 /\ step' = "ready" /\ searcher_state' = "INVALID_REGEX"
         \/ verdict # -2 /\ step' = "fresh" /\ searcher_state' = "NO_SEARCH_EXECUTED"
  BY DEF Reset, NewSearcher, init_options, IsRegexInvalid
<1>3. TypeOK' /\ OptionsAlive'
  BY <1>1, <1>2 DEF IInv, TypeOK, OptionsAlive, FreshOptions, NotUsed, Pointer
<1>. QED
  BY <1>1, <1>2, <1>3
     DEF IInv, HandlerInOrder, SearchesItsExpression,
         OptionsFreedOnce, ResultsAreOfExpression, GoodNotRefused

LEMMA SearchKeeps == ASSUME IInv, Search PROVE IInv'
<1>. USE AgSessionAssumption
<1>1. CASE SearchRefused
  <2>1. /\ UNCHANGED <<opts, find_skip_lookup, used, freed_twice, status, expression, verdict, has_ag_init>>
        /\ results' = Null /\ searcher_state' = "NO_RESULTS_FOUND" /\ step = "fresh" /\ step' = "ready"
    BY <1>1 DEF Search, SearchRefused
  <2>2. TypeOK' /\ OptionsAlive'
    BY <2>1 DEF IInv, TypeOK, OptionsAlive
  <2>3. SearchesItsExpression'
    BY <2>1 DEF IInv, HandlerInOrder, SearchesItsExpression
  <2>. QED
    BY <2>1, <2>2, <2>3 DEF IInv, HandlerInOrder, OptionsFreedOnce, ResultsAreOfExpression, GoodNotRefused
<1>2. CASE SearchFiles
  <2>1. /\ step = "fresh" /\ step' = "ready" /\ has_ag_init
        /\ UNCHANGED <<expression, verdict, has_ag_init>>
        /\ searcher_state' = IF results' = Null THEN "NO_RESULTS_FOUND" ELSE "RESULTS_FOUND"
    BY <1>2 DEF Search, SearchFiles
  <2>2. PICK out \in SetupOutcomes(expression) :
          /\ used' = [as |-> IF out.literal THEN "literal" ELSE "regex", pattern |-> Pattern(out)]
          /\ results' \in {Null, Pattern(out)}
          /\ find_skip_lookup' = IF out.skip = Null THEN Null ELSE Dangling
          /\ opts' = [literal |-> out.literal, query |-> Null, re |-> out.re, re_extra |-> out.re_extra]
          /\ Frees(Twice([query |-> opts.query, find_skip_lookup |-> out.skip]))
    BY <1>2 DEF SearchFiles
  <2>3. /\ expression \in Expression /\ opts = FreshOptions
    BY <2>1 DEF IInv, TypeOK, HandlerInOrder
  <2>4. /\ out.literal \in BOOLEAN
        /\ out.re \in Expression \cup {Null} /\ out.re_extra \in Expression \cup {Null}
        /\ out.skip \in Pointer
        /\ out.literal <=> expression \in Literal
        /\ ~out.literal => out.re = IF expression \in Broken THEN Null ELSE expression
    BY <2>3, SetupFacts DEF IInv, FreshOptions
  <2>5. Pattern(out) = IF expression \in Broken THEN Null ELSE expression
    BY <2>4 DEF Pattern
  <2>6. freed_twice' \subseteq freed_twice \cup {"find_skip_lookup"} /\ status' \in {"running", "aborted"}
    <3>. DEFINE frees == Twice([query |-> opts.query, find_skip_lookup |-> out.skip])
    <3>1. frees \subseteq {"find_skip_lookup"}
      BY DEF Twice, IInv, OptionsAlive
    <3>2. freed_twice' = freed_twice \cup frees
      BY <2>2 DEF Frees
    <3>3. status' \in {"running", "aborted"}
      BY <2>2 DEF Frees, IInv, TypeOK
    <3>. QED
      BY <3>1, <3>2, <3>3
  <2>7. TypeOK' /\ OptionsAlive'
    BY <2>1, <2>2, <2>3, <2>4, <2>5, <2>6 DEF IInv, TypeOK, OptionsAlive, Pointer
  <2>8. SearchesItsExpression' /\ ResultsAreOfExpression'
    BY <2>1, <2>2, <2>3, <2>4, <2>5 DEF SearchesItsExpression, ResultsAreOfExpression
  <2>9. HandlerInOrder' /\ GoodNotRefused' /\ OptionsFreedOnce'
    BY <2>1, <2>6 DEF IInv, HandlerInOrder, GoodNotRefused, OptionsFreedOnce
  <2>. QED
    BY <2>7, <2>8, <2>9 DEF IInv
<1>. QED
  BY <1>1, <1>2 DEF Search

\* The inductive invariant holds of every sequence of checks, restarts and
\* searches (components.cpp:386-404).
THEOREM SessionInvariant == Spec => []IInv
<1>1. Init => IInv
  BY AgSessionAssumption
     DEF Init, IInv, TypeOK, OptionsAlive, HandlerInOrder, SearchesItsExpression, OptionsFreedOnce,
         ResultsAreOfExpression, GoodNotRefused, FreshOptions, NotUsed, Pointer
<1>2. IInv /\ [Next]_vars => IInv'
  <2>. SUFFICES ASSUME IInv, [Next]_vars PROVE IInv'
    OBVIOUS
  <2>1. CASE RenderSearchInput
    BY <2>1 DEF RenderSearchInput, IInv, TypeOK, OptionsAlive, HandlerInOrder, SearchesItsExpression,
                OptionsFreedOnce, ResultsAreOfExpression, GoodNotRefused
  <2>2. CASE UNCHANGED vars
    BY <2>2 DEF vars, IInv, TypeOK, OptionsAlive, HandlerInOrder, SearchesItsExpression,
                OptionsFreedOnce, ResultsAreOfExpression, GoodNotRefused
  <2>. QED
    BY <2>1, <2>2, CheckKeeps, ResetKeeps, SearchKeeps DEF Next, Aborted
<1>. QED
  BY <1>1, <1>2, PTL DEF Spec

\* The types are kept by every call into libag (libag.c:706-956).
THEOREM SessionTypeCorrect == Spec => []TypeOK
<1>1. IInv => TypeOK
  BY DEF IInv
<1>. QED
  BY <1>1, SessionInvariant, PTL

\* A search looks for its own expression in its own way: the second reset
\* of the search button's handler does what its comment says
\* (components.cpp:398-400).
THEOREM SearchesStayTheirOwn == Spec => []SearchesItsExpression
<1>1. IInv => SearchesItsExpression
  BY DEF IInv
<1>. QED
  BY <1>1, SessionInvariant, PTL

\* Query and compiled expression are freed once by whichever of check,
\* search and ag_finish comes first (options.c:174-187).
THEOREM OptionsStayFreedOnce == Spec => []OptionsFreedOnce
<1>1. IInv => OptionsFreedOnce
  BY DEF IInv
<1>. QED
  BY <1>1, SessionInvariant, PTL

\* The results a Searcher owns are those of the expression searched
\* (searcher.cpp:20-29, 40-57).
THEOREM ResultsStayOwned == Spec => []ResultsAreOfExpression
<1>1. IInv => ResultsAreOfExpression
  BY DEF IInv
<1>. QED
  BY <1>1, SessionInvariant, PTL

\* An expression that compiles is never reported invalid (searcher.cpp:34-38).
THEOREM GoodStaysAccepted == Spec => []GoodNotRefused
<1>1. IInv => GoodNotRefused
  BY DEF IInv
<1>. QED
  BY <1>1, SessionInvariant, PTL
=============================================================================
