\* Two programs, one with an icon file, every failure.
CONSTANTS
  i1 = i1
  i2 = i2
  i3 = i3
  Icons = {i1, i2}
  Own = {i1}
  NULL = NULL
  Failures = {"nonode", "nothread", "unreadable", "refused"}
  MaxClicks = 2
  CanQuit = TRUE
SPECIFICATION Spec
INVARIANTS
  TypeOK
  MemoryKept
  NothingOverlooked
PROPERTIES
  RemovalCompletes
  IconAppears
CHECK_DEADLOCK FALSE
