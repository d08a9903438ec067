SPECIFICATION FairSpec
CONSTANTS
  a = a
  b = b
  t1 = t1
  t2 = t2
  k1 = k1
  k2 = k2
  None = None
  Callers <- TwoCallers
  Tasks <- TwoTasks
  Contexts <- TwoContexts
  Limits = {"timed", "untimed", "negative"}
  Stuck = {t1}
INVARIANTS
  CapturesReleased
  IdleHandover
PROPERTIES
  NeverStartsLate
  ImplementsService
  Answered
  RetiredWorkersLeave
CHECK_DEADLOCK FALSE
