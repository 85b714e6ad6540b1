CONSTANTS
  Files = {"a", "b", "f", "di", "fi"}
  Dirs = {"d", "s"}
  NULL = NULL
  Selected <- MCSelected
  Inside <- MCInside
  IconOf <- MCIconOf
  Jobs <- DeletesOnly
  Sources <- MCSources
  Targets <- MCTargets
  Protected <- MCProtected
  Faults = {}
  CanAbort = TRUE
  MaxRetries = 0
SPECIFICATION Spec
PROPERTIES
  AbortStops
CHECK_DEADLOCK TRUE
