CONSTANTS
  WordModulus = 16
  Alphabet = {"a", "percent"}
  MaxLength = 3
  MaxMatches = 1
  MinSize = 1
  Replacement <- NoText
SPECIFICATION Spec
INVARIANT OnlyAcceptedIsWritten
