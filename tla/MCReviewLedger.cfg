SPECIFICATION Spec
CONSTANTS
  FileName = {1, 2}
  Slice <- MixedSlices
  Text = {"a", "b"}
  OutsideFiles = {1}
  CopyLength <- ShortCopies
  MaxMatches = 2
  MaxFound = 2
  MaxEdition = 1
  MaxQueue = 1
INVARIANT
  FreshFiles
PROPERTY
  ImplementsLedger
