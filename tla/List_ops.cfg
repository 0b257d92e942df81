SPECIFICATION Spec
CONSTANT MaxElems = 5
INVARIANT Linked
PROPERTY ImplementsDeque
CHECK_DEADLOCK FALSE
