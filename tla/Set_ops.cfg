SPECIFICATION Spec
CONSTANTS
  NElements = 10
  MaxHeight = 5
  Data <- MCData
  KeyOf <- MCKeyOf
INVARIANTS Balanced AnswersRight
PROPERTY ImplementsSet
CHECK_DEADLOCK FALSE
