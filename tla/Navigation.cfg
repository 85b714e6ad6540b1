\* Jobs that end in any order, or fail; safety.
CONSTANTS
  a = a
  b = b
  c = c
  Places = {a, b, c}
  MAX_NODES = 4
  CanFail = TRUE
  MaxLoads = 3
SPECIFICATION Spec
SYMMETRY Symmetry
INVARIANTS
  TypeOK
  HistoryShape
  ShowsCurrent
CHECK_DEADLOCK FALSE
