SPECIFICATION AppSpec
CONSTANTS
  FileName = {1, 2}
  Slice <- TouchingSlices
  Text = {a, b}
  OutsideFiles = {1}
  CopyLength <- Copies
  MaxMatches = 2
  MaxFound = 2
  MaxEdition = 1
  MaxQueue = 2
  MaxTyped = 1
  Paced = TRUE
SYMMETRY TextSymmetry
CHECK_DEADLOCK FALSE
INVARIANTS
  AppTypeOK
  NeverThrows
PROPERTY
  DecidesWhatIsShown
