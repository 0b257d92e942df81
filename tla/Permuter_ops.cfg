SPECIFICATION FairSpec
CONSTANTS
  N = 4
  MaxInt = 2147483647
  MaxKey = 4
  MaxIndex = 24
  MaxResets = 1
INVARIANTS TypeOK NoRepeat Complete Unranks
PROPERTY Ends
CHECK_DEADLOCK FALSE
