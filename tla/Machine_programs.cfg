SPECIFICATION Spec
CONSTANTS
  MaxInt = 7
  MaxWhole = 16777216
  Programs <- MCPrograms
  Primitives <- MCPrimitives
INVARIANTS TypeOK NoFault Faithful OnlyEnvironment FloatsAgree
