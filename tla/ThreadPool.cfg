\* Jobs, aborts, prompts, reclaiming, quitting and failures together.
CONSTANTS
  o1 = o1
  o2 = o2
  a1 = a1
  a2 = a2
  Objs = {o1}
  Actions = {a1}
  NULL = NULL
  All = All
  Garbage = Garbage
  THREAD_MIN = 1
  THREAD_MAX = 2
  LowMemory = TRUE
  MaxJobs = 2
  MaxAborts = 1
  MaxPrompts = 0
  MaxReclaims = 1
  CanQuit = TRUE
SPECIFICATION Spec
INVARIANTS
  TypeOK
  IdleHasNoJob
  NodesLive
CHECK_DEADLOCK FALSE
