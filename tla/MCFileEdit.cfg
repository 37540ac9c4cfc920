CONSTANTS
  WordModulus = 16
  Alphabet = {"a", "newline", "percent", "nul", "0xFF"}
  MaxLength = 3
  MaxMatches = 2
  MinSize = 0
  Replacement <- Texts
SPECIFICATION Spec
INVARIANTS PrevLinesAreOfMatch NewLinesHoldReplacement HistoryPointsAtMatch CommitIsExact
PROPERTY CommitIsPreviews
