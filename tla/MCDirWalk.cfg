SPECIFICATION FairSpec
CONSTANTS
  top = top  src = src  lib = lib  deep = deep
  f1 = f1  f2 = f2  f3 = f3  NewFile = NewFile
  Absent = Absent  Symlink = Symlink  Pipe = Pipe
  Dir <- MCDir
  File <- MCFile
  Name <- MCName
  Dotted = {".git"}
  Base = "lib"
  Disks <- MCDisks
  PatternFiles <- MCPatternFiles
  Forms = {"dot", "named", "absolute"}
  MaxSearchDepth = 2
  MaxChanges = 1
INVARIANTS TypeOK LoopTable NothingIgnoredIsTaken ListedAreVisible NothingMissed AnchoredPatternsApply
PROPERTY WalkEnds
