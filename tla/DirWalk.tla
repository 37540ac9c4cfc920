------------------------------ MODULE DirWalk ------------------------------
(***************************************************************************)
(* The walk of libag through the search directory: search_dir calls itself *)
(* for each subdirectory, reads the ignore files it meets, leaves out what *)
(* a pattern of a directory above excludes, and hands the other files to   *)
(* the work queue (module WorkerPool has the threads that take them).      *)
(*                                                                         *)
(* The calls are a stack of frames, each with the struct ignores of its    *)
(* directory.  A path is the sequence of the names below the search        *)
(* directory.  Directories and files are known by their inode, so that one *)
(* may be found again below itself (a bind mount).  What is hidden or a    *)
(* link, what a pattern matches and how a path is printed are data of the  *)
(* model: a pattern is the set of paths it matches.  While the walk runs,  *)
(* another program may remove entries or put a file in place of a          *)
(* directory: each system call resolves its path anew.                     *)
(***************************************************************************)
EXTENDS Integers, FiniteSets, SequencesExt

CONSTANTS
  Dir, File,            \* inodes; NewFile is one that another program makes
  NewFile,
  Absent, Symlink, Pipe,
  Name,                 \* names of entries, none a prefix of another
  Dotted,               \* those that begin with a dot
  Base,                 \* the name of the search directory itself
  Disks,                \* what the search may find: [root, tree]
  PatternFiles,         \* contents of the ignore files: [Dir -> sets of patterns]
  Forms,                \* how the search directory is written
  MaxSearchDepth,       \* opts.max_search_depth
  MaxChanges            \* bound: changes by another program during a walk

Kind == {"extension", "name", "slash_name", "regex", "invert_regex", "slash_regex"}
Path == Seq(Name)
\* A pattern matches entries below its directory, never that directory itself.
Pattern == [kind : Kind, paths : SUBSET (Path \ {<< >>}), slash : BOOLEAN]
Inode == Dir \union File
Node == Inode \union {Symlink, Pipe}
Tree == [Dir -> UNION {[S -> Node] : S \in SUBSET Name}]
NoKey == Absent   \* the dirkey_t of a stat() that failed

ASSUME DirWalkAssumption ==
  /\ NewFile \in File /\ Dir \intersect File = {}
  /\ Absent \notin Node /\ Symlink # Pipe /\ {Symlink, Pipe} \intersect Inode = {}
  /\ Dotted \subseteq Name /\ Base \in Name
  /\ Disks \subseteq [root : Inode \union {Absent}, tree : Tree]
  /\ PatternFiles \subseteq [Dir -> SUBSET Pattern]
  /\ Forms \subseteq {"dot", "named", "absolute"}
  /\ MaxSearchDepth \in Nat /\ MaxChanges \in Nat

VARIABLES
  root, tree,    \* the disk
  before,        \* the tree when the walk began
  patterns,      \* what the ignore files of each directory hold
  form,          \* how the user wrote the search directory
  stack,         \* the active calls of search_dir, the last one on top
  symhash,       \* inodes of the directories being searched
  work_queue,    \* the paths handed to the workers, in order
  searched,      \* the paths the walking thread searched itself
  changed        \* entries another program has changed

diskVars == <<root, tree, changed>>
inputVars == <<before, patterns, form>>
vars == <<diskVars, inputVars, stack, symhash, work_queue, searched>>

Top == stack[Len(stack)]
AtTop(step) == stack # << >> /\ Top.at = step
SetTop(frame) == [stack EXCEPT ![Len(stack)] = frame]

\* What a path leads to.
Entry(t, node, n) == IF node \in Dir /\ n \in DOMAIN t[node] THEN t[node][n] ELSE Absent
Lookup(r, t, path) == FoldLeft(LAMBDA node, n : Entry(t, node, n), r, path)
Resolve(path) == Lookup(root, tree, path)

-----------------------------------------------------------------------------
(* The patterns. *)

\* Mutant: a directory with anchored patterns only counts as empty.
IsEmptyForgets(ps) == \A p \in ps : p.kind \in {"invert_regex", "slash_name"}
\* invert_regexes_len is not part of the sum.
is_empty(ps) == \A p \in ps : p.kind = "invert_regex"

(* What path_ignore_search compares: path_start, which depends on how the
   search directory is written, and the name. *)
temp(f, dir, n) ==
  [slash |-> f = "dot" \/ (f = "absolute" /\ dir = << >>),
   names |-> (IF f = "named" THEN <<Base>> ELSE << >>) \o dir \o <<n>>]

\* strncmp(temp, ig->abs_path, ig->abs_path_len) == 0
IsUnder(abs_path, t) == abs_path = << >> \/ (~t.slash /\ IsPrefix(abs_path, t.names))
SlashFilename(abs_path, t) == SubSeq(t.names, Len(abs_path) + 1, Len(t.names))

Matches(ps, kind, path, slash) ==
  \E p \in ps : p.kind = kind /\ p.slash = slash /\ path \in p.paths

(* The loop of strstr: it looks at the first occurrence only, and after a
   pattern that ends with a slash the path must end. *)
OccursAt(part, slash, path, pathSlash, i) ==
  /\ i + Len(part) - 1 <= Len(path)
  /\ SubSeq(path, i, i + Len(part) - 1) = part
  /\ slash => (i + Len(part) - 1 < Len(path) \/ pathSlash)
NamePartMatches(ps, path, slash) ==
  \E p \in {q \in ps : q.kind = "name"} : \E part \in p.paths : \E i \in 1..Len(path) :
    /\ OccursAt(part, p.slash, path, slash, i)
    /\ \A j \in 1..(i - 1) : ~OccursAt(part, p.slash, path, slash, j)
    /\ p.slash => i + Len(part) - 1 = Len(path)

path_ignore_search(ig, t, n, slash) ==
  \/ Matches(ig.patterns, "name", <<n>>, slash)
  \/ /\ IsUnder(ig.abs_path, t)
     /\ LET path == SlashFilename(ig.abs_path, t)
        IN \/ \E kind \in {"name", "slash_name", "slash_regex"} :
                Matches(ig.patterns, kind, path, slash)
           \/ NamePartMatches(ig.patterns, path, slash)
  \/ /\ ~Matches(ig.patterns, "invert_regex", <<n>>, slash)
     /\ Matches(ig.patterns, "regex", <<n>>, slash)

\* Whether the patterns of one directory leave out entry n of directory dir.
Excludes(ig, f, dir, n, node) ==
  \/ Matches(ig.patterns, "extension", <<n>>, FALSE)
  \/ path_ignore_search(ig, temp(f, dir, n), n, FALSE)
  \/ node \in Dir /\ path_ignore_search(ig, temp(f, dir, n), n, TRUE)

\* igs: the ignores from the directory's own to the last parent.
filename_filter(igs, dir, n, node) ==
  /\ n \notin Dotted
  /\ node \notin {Symlink, Pipe}
  /\ \A ig \in igs : ~Excludes(ig, form, dir, n, node)

-----------------------------------------------------------------------------
(* struct ignores: parents holds the calls whose ignores are reached by the
   parent pointers, the skipped ones left out. *)

NoIgnores == [patterns |-> {}, abs_path |-> << >>]

\* Mutant: the path of the directory is its name.
init_ignore_by_name(path) ==
  [patterns |-> {}, abs_path |-> IF path = << >> THEN << >> ELSE <<Last(path)>>]
init_ignore(path) ==
  [patterns |-> {},
   abs_path |-> IF path = << >> THEN << >> ELSE Append(Top.ig.abs_path, Last(path))]

Parents ==
  IF is_empty(Top.ig.patterns) THEN Top.parents ELSE Top.parents \union {Len(stack)}

IgnoresAbove == {stack[i].ig : i \in Top.parents}

Frame(path, ig, parents) ==
  [at |-> "enter", path |-> path, key |-> NoKey, ig |-> ig, parents |-> parents,
   rest |-> {}]

(* search_dir *)

\* check_symloop_enter
EnterFails ==
  /\ AtTop("enter")
  /\ Resolve(Top.path) = Absent
  /\ stack' = SetTop([Top EXCEPT !.at = "list"])
  /\ UNCHANGED <<diskVars, inputVars, symhash, work_queue, searched>>

\* Mutant: without the look into symhash.
EnterAnyway ==
  /\ AtTop("enter")
  /\ \E key \in Inode :
       /\ key = Resolve(Top.path)
       /\ symhash' = symhash \union {key}
       /\ stack' = SetTop([Top EXCEPT !.at = "list", !.key = key])
  /\ UNCHANGED <<diskVars, inputVars, work_queue, searched>>
Enter ==
  /\ AtTop("enter")
  /\ \E key \in Inode \ symhash :
       /\ key = Resolve(Top.path)
       /\ symhash' = symhash \union {key}
       /\ stack' = SetTop([Top EXCEPT !.at = "list", !.key = key])
  /\ UNCHANGED <<diskVars, inputVars, work_queue, searched>>

\* Mutant: a loop leaves as every other return does.
EnterLoopLeaves ==
  /\ AtTop("enter")
  /\ Resolve(Top.path) \in symhash
  /\ symhash' = symhash \ {Resolve(Top.path)}
  /\ stack' = Front(stack)
  /\ UNCHANGED <<diskVars, inputVars, work_queue, searched>>
\* SYMLOOP_LOOP
EnterLoop ==
  /\ AtTop("enter")
  /\ Resolve(Top.path) \in symhash
  /\ stack' = Front(stack)
  /\ UNCHANGED <<diskVars, inputVars, symhash, work_queue, searched>>

(* The patterns of the directory, then its entries. *)

ag_scandir(dir, path, igs) ==
  {e \in {[name |-> n, node |-> tree[dir][n]] : n \in DOMAIN tree[dir]} :
     filename_filter(igs, path, e.name, e.node)}

ListDirectory ==
  /\ AtTop("list")
  /\ \E dir \in Dir :
       /\ dir = Resolve(Top.path)
       /\ LET ig == [Top.ig EXCEPT !.patterns = patterns[dir]]
          IN stack' = SetTop([Top EXCEPT !.at = "entries", !.ig = ig,
                       !.rest = ag_scandir(dir, Top.path, {ig} \union IgnoresAbove)])
  /\ UNCHANGED <<diskVars, inputVars, symhash, work_queue, searched>>

\* ENOTDIR: the walking thread searches it.
SearchItself ==
  /\ AtTop("list")
  /\ Resolve(Top.path) \in File
  /\ searched' = searched \union {Top.path}
  /\ stack' = SetTop([Top EXCEPT !.at = "entries"])
  /\ UNCHANGED <<diskVars, inputVars, symhash, work_queue>>

ListFails ==
  /\ AtTop("list")
  /\ Resolve(Top.path) = Absent
  /\ stack' = SetTop([Top EXCEPT !.at = "entries"])
  /\ UNCHANGED <<diskVars, inputVars, symhash, work_queue, searched>>

Without(e) == [Top EXCEPT !.rest = @ \ {e}]

QueueFile ==
  /\ AtTop("entries")
  /\ \E e \in Top.rest :
       /\ e.node \notin Dir
       /\ work_queue' = Append(work_queue, Append(Top.path, e.name))
       /\ stack' = SetTop(Without(e))
  /\ UNCHANGED <<diskVars, inputVars, symhash, searched>>

\* Mutant: one level less.
MaySearchDeeperLess == Len(Top.path) + 1 < MaxSearchDepth
\* Mutant: one level more.
MaySearchDeeperMore == Len(Top.path) <= MaxSearchDepth
MaySearchDeeper == Len(Top.path) < MaxSearchDepth

SearchSubdirectory ==
  /\ AtTop("entries")
  /\ \E e \in Top.rest :
       /\ e.node \in Dir
       /\ MaySearchDeeper
       /\ LET path == Append(Top.path, e.name)
          IN stack' = Append(SetTop(Without(e)), Frame(path, init_ignore(path), Parents))
  /\ UNCHANGED <<diskVars, inputVars, symhash, work_queue, searched>>

\* Mutant: the entry is taken up again.
SkipDeepAgain ==
  /\ AtTop("entries")
  /\ ~MaySearchDeeper
  /\ \E e \in Top.rest : e.node \in Dir
  /\ work_queue' = work_queue
  /\ stack' = SetTop(Top)
  /\ UNCHANGED <<diskVars, inputVars, symhash, searched>>
SkipDeep ==
  /\ AtTop("entries")
  /\ ~MaySearchDeeper
  /\ \E e \in Top.rest : e.node \in Dir /\ stack' = SetTop(Without(e))
  /\ UNCHANGED <<diskVars, inputVars, symhash, work_queue, searched>>

\* check_symloop_leave
Leave ==
  /\ AtTop("entries")
  /\ Top.rest = {}
  /\ symhash' = symhash \ {Top.key}
  /\ stack' = Front(stack)
  /\ UNCHANGED <<diskVars, inputVars, work_queue, searched>>

-----------------------------------------------------------------------------
(* Another program. *)

MayChange(d, n) ==
  /\ stack # << >>
  /\ Cardinality(changed) < MaxChanges
  /\ n \in DOMAIN tree[d]
  /\ changed' = changed \union {<<d, n>>}
  /\ UNCHANGED <<root, inputVars, stack, symhash, work_queue, searched>>

RemoveEntry ==
  \E d \in Dir, n \in Name :
    /\ MayChange(d, n)
    /\ tree' = [tree EXCEPT ![d] = [m \in DOMAIN tree[d] \ {n} |-> tree[d][m]]]

ReplaceDirectory ==
  \E d \in Dir, n \in Name :
    /\ MayChange(d, n)
    /\ tree[d][n] \in Dir
    /\ tree' = [tree EXCEPT ![d][n] = NewFile]

Init ==
  /\ \E disk \in Disks :
       /\ root = disk.root /\ tree = disk.tree /\ before = disk.tree
  /\ patterns \in PatternFiles
  /\ form \in Forms
  /\ stack = <<Frame(<< >>, NoIgnores, {})>>
  /\ symhash = {} /\ work_queue = << >> /\ searched = {} /\ changed = {}

Walk ==
  \/ EnterFails \/ Enter \/ EnterLoop
  \/ ListDirectory \/ SearchItself \/ ListFails
  \/ QueueFile \/ SearchSubdirectory \/ SkipDeep
  \/ Leave

Finished == stack = << >> /\ UNCHANGED vars

Next == Walk \/ RemoveEntry \/ ReplaceDirectory \/ Finished

Spec == Init /\ [][Next]_vars
\* The walk is a loop of one thread, which the workers never make wait.
FairSpec == Spec /\ WF_vars(Walk)

-----------------------------------------------------------------------------
FrameType ==
  [at : {"enter", "list", "entries"}, path : Path, key : Inode \union {NoKey},
   ig : [patterns : SUBSET Pattern, abs_path : Path], parents : SUBSET Nat,
   rest : SUBSET [name : Name, node : Inode]]

CallsNest ==
  /\ stack \in Seq(FrameType) /\ Len(stack) <= MaxSearchDepth + 1
  /\ \A i \in 1..Len(stack) :
       /\ Len(stack[i].path) = i - 1
       /\ stack[i].parents \subseteq 1..(i - 1)
       /\ stack[i].at # "entries" => stack[i].rest = {}
  /\ \A i \in 1..(Len(stack) - 1) :
       stack[i].at = "entries" /\ Front(stack[i + 1].path) = stack[i].path

\* The shape of the state.  The calls never nest deeper than the limit of depth, each for
\* an entry of the one below; an entry waits in a call only while its directory is read.
TypeOK ==
  /\ root \in Inode \union {Absent} /\ tree \in Tree /\ before \in Tree
  /\ patterns \in [Dir -> SUBSET Pattern] /\ form \in {"dot", "named", "absolute"}
  /\ CallsNest
  /\ symhash \subseteq Inode
  /\ work_queue \in Seq(Path) /\ searched \subseteq Path
  /\ changed \subseteq Dir \X Name

\* symhash holds the directories being searched and no other, each once: a return through a
\* loop, or after an error, takes out what its own call has put in.
LoopTable ==
  /\ symhash = {stack[i].key : i \in 1..Len(stack)} \ {NoKey}
  /\ \A i, j \in 1..Len(stack) : i # j /\ stack[i].key = stack[j].key => stack[i].key = NoKey

\* No entry that is about to be taken up is excluded by the ignore files of any directory
\* above it, although filename_filter follows parent pointers that leave some of them out.
NothingIgnoredIsTaken ==
  \A i \in 1..Len(stack) : \A e \in stack[i].rest : \A j \in 1..i :
    ~Excludes(stack[j].ig, form, stack[i].path, e.name, e.node)

(* What a search should list, from the disk as the walk found it. *)
Found(path) == Lookup(root, before, path)
Above(path, k) == SubSeq(path, 1, k)
IgnoresAt(path) == [patterns |-> patterns[Found(path)], abs_path |-> path]
Allowed(path) ==
  /\ Len(path) <= MaxSearchDepth + 1
  /\ \A k \in 1..Len(path) :
       /\ Found(Above(path, k)) \in Inode
       /\ path[k] \notin Dotted
       /\ \A j \in 0..(k - 1) :
            ~Excludes(IgnoresAt(Above(path, j)), form, Above(path, k - 1), path[k],
                      Found(Above(path, k)))
PassesTwice(path) ==
  \E j, k \in 0..Len(path) : j < k /\ Found(Above(path, j)) = Found(Above(path, k))
Reached(path) == Allowed(path) /\ ~PassesTwice(path)
Visible(path) == Reached(path) /\ Found(path) \in File
WasChanged(path) == \E k \in 1..Len(path) : <<Found(Above(path, k - 1)), path[k]>> \in changed
Replaced(path) ==
  path # << >> /\ Reached(Front(path)) /\ <<Found(Front(path)), Last(path)>> \in changed

\* Every path is handed over once, and only one of a file that the walk could see there: no
\* pattern above excludes it, it is not too deep and does not pass a directory twice; or it
\* has replaced a directory meanwhile.  The walking thread searches by itself nothing but
\* such a file or the search directory.
ListedAreVisible ==
  /\ \A i \in 1..Len(work_queue) :
       /\ Visible(work_queue[i]) \/ Replaced(work_queue[i])
       /\ work_queue[i] \notin searched
       /\ \A j \in 1..(i - 1) : work_queue[i] # work_queue[j]
  /\ \A path \in searched :
       \/ path = << >> /\ Visible(path)
       \/ Allowed(path) /\ Replaced(path)

\* When the walk is over every such file is listed, but for those that another program
\* has moved away meanwhile.
Paths == {<< >>} \union UNION {[1..k -> Name] : k \in 1..(MaxSearchDepth + 1)}
Listed == Range(work_queue) \union searched
NothingMissed ==
  stack = << >> => \A path \in Paths : Visible(path) /\ ~WasChanged(path) => path \in Listed

\* A pattern that begins with a slash leaves out the path it names below its own directory
\* when the search directory is written absolute, at any level; in "./" only those at the top
\* do, because abs_path and path_start then differ by a slash.
AnchoredPatternsApply ==
  \A path \in Range(work_queue) : \A k \in 0..(Len(path) - 1) :
    (form = "absolute" \/ (form = "dot" /\ k = 0)) =>
      \A p \in patterns[Found(Above(path, k))] : p.kind = "slash_name" =>
        \A part \in p.paths :
          ~(Len(part) + k <= Len(path) /\ SubSeq(path, k + 1, k + Len(part)) = part
            /\ (p.slash => Len(part) + k < Len(path)))

\* The walk ends, whatever loops the directories form and whatever another program does.
WalkEnds == <>(stack = << >>)
=============================================================================
