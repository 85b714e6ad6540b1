\* A thread of Ambient and another program start a program and ask, with
\* every failure of a file, a lock, memory and a process, and the user quits.
CONSTANTS
  s1 = s1
  s2 = s2
  c1 = c1
  c2 = c2
  Threads = {s1}
  Clients = {c1}
  Names = {"path"}
  Icons <- AnyIcons
  Failures = {"memory", "lock", "process"}
  NULL = NULL
  Garbage = Garbage
  MaxStarts = 1
  MaxArgs = 1
  CanQuit = TRUE
SPECIFICATION Spec
INVARIANTS
  TypeOK
  LocksOnce
  OneOwner
PROPERTIES
  PropsAnswered
CHECK_DEADLOCK FALSE
