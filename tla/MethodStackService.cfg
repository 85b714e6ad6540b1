\* One thread with three calls, nested dispatch, methods that take up to two
\* steps: the refinement of CallService, and everybody is served.
CONSTANTS
  t1 = t1
  t2 = t2
  o1 = o1
  Threads = {t1}
  Aliens = {}
  Main = main
  Objs = {o1, app}
  App = app
  NULL = NULL
  LowMemory = FALSE
  Prompts = FALSE
  MaxCalls = 3
  MaxActs = 2
  MaxDepth = 8
SPECIFICATION Spec
PROPERTIES
  ServiceSpec
CHECK_DEADLOCK FALSE
