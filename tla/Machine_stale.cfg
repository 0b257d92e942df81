SPECIFICATION Spec
CONSTANTS
  MaxInt = 7
  MaxWhole = 16777216
  Programs <- StalePrograms
  Primitives <- MCPrimitives
INVARIANT ResultIntact
