\* Every job is reported, every abort answered, and quitting ends the threads.
CONSTANTS
  o1 = o1
  o2 = o2
  a1 = a1
  a2 = a2
  Objs = {o1, o2}
  Actions = {a1}
  NULL = NULL
  All = All
  Garbage = Garbage
  THREAD_MIN = 1
  THREAD_MAX = 1
  LowMemory = FALSE
  MaxJobs = 2
  MaxAborts = 2
  MaxPrompts = 1
  MaxReclaims = 0
  CanQuit = TRUE
SPECIFICATION Spec
PROPERTIES
  JobsReported
  AbortsAnswered
  QuitEnds
CHECK_DEADLOCK FALSE
