SPECIFICATION Spec
CONSTANTS
  MaxObj = 6
  MaxTree = 2
  MaxDepth = 1
  Builtins = 1
  LocalSet = TRUE
INVARIANTS
  NoFault
CHECK_DEADLOCK FALSE
