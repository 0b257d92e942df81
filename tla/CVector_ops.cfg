SPECIFICATION FairSpec
CONSTANTS
  MaxElems = 5
  CapacityHint = 1
  Default = 2
  MidInsert = FALSE
INVARIANTS
  TypeOK
  NoFault
  NothingForgotten
  HeldOnce
PROPERTIES
  ImplementsList
  FilterReturns
CHECK_DEADLOCK FALSE
