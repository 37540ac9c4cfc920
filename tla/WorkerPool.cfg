CONSTANTS
  NumWorkers = 3
  File = {f1, f2, f3}
  NoFile = NoFile
  CreationMayFail = TRUE
SPECIFICATION FairSpec
INVARIANTS TypeOK QuietWhileJoining EachFileOnce
PROPERTIES ImplementsService StopEnds
