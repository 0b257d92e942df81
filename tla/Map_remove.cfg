SPECIFICATION Spec
CONSTANTS
  Capacity = 4
  a = a
  b = b
  c = c
  d = d
  Keys = {a, b, c, d}
  Values = {v1, v2}
  Hash <- MCHash
INVARIANT AlwaysFindable
CHECK_DEADLOCK FALSE
