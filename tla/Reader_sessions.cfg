SPECIFICATION FairSpec
CONSTANTS
  Chars = {" ", "(", ")", "'", "a", ">"}
  Sessions <- MCSessions
  Interrupts = TRUE
INVARIANTS InOrder
PROPERTIES NoLongerThanNeeded SessionEnds
CHECK_DEADLOCK FALSE
