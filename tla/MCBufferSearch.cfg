CONSTANTS
  CharCount = 6
  CaseGap = 3
  Upper = {0, 1}
  NonAscii = {5}
  Query <- MCQuery
  Buffer <- MCBuffer
  Subject <- MCSubject
SPECIFICATION FairSpec
INVARIANTS TypeOK LeftmostInOrder NothingMissed ReadsInBuffer
PROPERTIES ScanEnds
