SPECIFICATION Spec
CONSTANTS
  Alphabet = {"(", ")", "'", " ", "a", "1", "."}
  MaxText = 7
  MaxLevels = 14
INVARIANTS ReadsInsideQuoted ReadsFirst PrintsWhatItReads
CHECK_DEADLOCK FALSE
