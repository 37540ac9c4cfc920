SPECIFICATION FairAppSpec
CONSTANTS
  FileName = {1}
  Slice <- TouchingSlices
  Text = {"a"}
  OutsideFiles = {}
  CopyLength <- WholeCopies
  MaxMatches = 2
  MaxFound = 2
  MaxEdition = 1
  MaxQueue = 1
  MaxTyped = 1
  Paced = FALSE
CHECK_DEADLOCK FALSE
PROPERTY
  KeysAreHandled
