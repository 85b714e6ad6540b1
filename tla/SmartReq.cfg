CONSTANTS
  t1 = t1
  t2 = t2
  Threads <- MCThreads
  Replaces <- MCReplaces
  Main = Main
  NULL = NULL
  Failures = {"create", "memory", "action", "open"}
  MainEarly = FALSE
  MaxAsks = 2
  MaxPresses = 2
SPECIFICATION Spec
INVARIANTS
  TypeOK
  EachTracked
  AnswersShown
  ExaminesShown
PROPERTIES
  EachAnswered
CHECK_DEADLOCK FALSE
