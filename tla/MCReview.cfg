SPECIFICATION Spec
CONSTANTS
  FileName = {1, 2}
  Slice <- TouchingSlices
  Text = {"a"}
  OutsideFiles = {}
  CopyLength <- WholeCopies
  MaxMatches = 2
  MaxFound = 3
  MaxEdition = 1
  MaxQueue = 2
INVARIANTS
  TypeOK
  DiffsCommittable
  SelectionInRange
  EveryMatchOnce
  GaugeIsHistory
  HistoryAsDisplayed
  QueueCoversPosted
PROPERTY
  AcceptAllDecidesAll
