------------------------------ MODULE MCDirWalk ------------------------------
(* A search directory top with src below it, src/lib below that and one more
   directory too deep for the limit; src/up is top again. *)
EXTENDS DirWalk, TLC

CONSTANTS top, src, lib, deep, f1, f2, f3

MCDir == {top, src, lib, deep}
MCFile == {f1, f2, f3, NewFile}
MCName == {"src", "lib", "out", "up", ".git"}

MCTree ==
  (top :> [n \in {"src", "out", ".git"} |-> IF n = "src" THEN src ELSE f1])
  @@ (src :> ("lib" :> lib @@ "out" :> f2 @@ "up" :> top))
  @@ (lib :> ("src" :> deep @@ "out" :> f3 @@ "up" :> Symlink @@ "lib" :> Pipe))
  @@ (deep :> ("out" :> f1))
MCDisks == {[root |-> r, tree |-> MCTree] : r \in {top, f1, Absent}}

P(kind, paths, slash) == [kind |-> kind, paths |-> paths, slash |-> slash]
Out == P("name", {<<"out">>}, FALSE)
SlashOut == P("slash_name", {<<"out">>}, FALSE)
LibOut == P("name", {<<"lib", "out">>}, FALSE)
LibDirectory == P("name", {<<"lib">>}, TRUE)
AnyOut == P("regex", {<<"out">>, <<"up">>}, FALSE)
NotOut == P("invert_regex", {<<"out">>}, FALSE)
ExtensionOut == P("extension", {<<"out">>}, FALSE)
TopPatterns == {{}, {LibOut}, {SlashOut, NotOut}, {LibDirectory}, {P("slash_name", {<<"src", "out">>}, FALSE)},
                {P("slash_regex", {<<"src", "lib">>}, FALSE)}}
SrcPatterns == {{}, {NotOut}, {SlashOut}, {P("slash_name", {<<"lib", "out">>}, FALSE)}, {NotOut, AnyOut},
                {AnyOut}}
LibPatterns == {{}, {SlashOut}, {Out}, {ExtensionOut, NotOut}}
MCPatternFiles ==
  {(top :> t) @@ (src :> s) @@ (lib :> l) @@ (deep :> {}) :
     t \in TopPatterns, s \in SrcPatterns, l \in LibPatterns}
==============================================================================
