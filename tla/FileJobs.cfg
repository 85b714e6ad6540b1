CONSTANTS
  Files = {"a", "b", "f", "di", "fi"}
  Dirs = {"d", "s"}
  NULL = NULL
  Selected <- MCSelected
  Inside <- MCInside
  IconOf <- MCIconOf
  Jobs <- MCJobs
  Sources <- MCSources
  Targets <- MCTargets
  Protected <- MCProtected
  Faults = {"read", "open", "write", "delete", "rename", "mkdir", "lock", "scan", "protection", "window"}
  CanAbort = TRUE
  MaxRetries = 1
SPECIFICATION Spec
INVARIANTS
  TypeOK
  NothingLost
  Complete
PROPERTIES
  RefusedStays
  CancelStops
CHECK_DEADLOCK TRUE
