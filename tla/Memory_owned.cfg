SPECIFICATION FairSpec
CONSTANTS
  MaxObj = 6
  MaxTree = 2
  MaxDepth = 1
  Builtins = 1
  LocalSet = FALSE
INVARIANTS
  TypeOK
  NoFault
  ReadsOnlyOverwritten
  EnvOwned
  NothingLost
  RecordedOnce
  MarkStaysInEnv
  AllFreed
PROPERTIES
  KeepsLifetimes
  CollectionEnds
CHECK_DEADLOCK FALSE
