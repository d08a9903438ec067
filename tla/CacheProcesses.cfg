SPECIFICATION Spec
CONSTANTS
  r1 = r1
  r2 = r2
  p = p
  q = q
  Requests <- TwoRequests
  Procs <- TwoProcs
  ProcOf <- Apart
  NumRoots = 2
  TimeoutLimit = 3
  Fallback = TRUE
  LeftOvers = TRUE
  MaxFaults <- OneFault
  MaxCrashes = 1
INVARIANTS
  PublishedComplete
  TimedOutIsLeftAlone
  QuietPublication
  NoLeak
  FaultlessSuccess
PROPERTIES
  PublishedStable
  ImplementsStore
CHECK_DEADLOCK FALSE
