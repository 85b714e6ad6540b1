\* A thread of the pool that asks the user, and a task of another program whose
\* allocations may fail; safety.
CONSTANTS
  t1 = t1
  t2 = t2
  o1 = o1
  Threads = {t1, t2}
  Aliens = {t2}
  Main = main
  Objs = {o1, app}
  App = app
  NULL = NULL
  LowMemory = TRUE
  Prompts = TRUE
  MaxCalls = 2
  MaxActs = 1
  MaxDepth = 6
SPECIFICATION Spec
INVARIANTS
  TypeOK
  InOrder
  OneReplyPerCall
  RefBalance
  NoWakeupLost
CHECK_DEADLOCK FALSE
