\* One place at a time; refinement of Browsing.
CONSTANTS
  a = a
  b = b
  c = c
  Places = {a, b, c}
  MAX_NODES = 4
  CanFail = FALSE
  MaxLoads = 1
SPECIFICATION Spec
PROPERTIES
  BrowsingSpec
CHECK_DEADLOCK FALSE
