SPECIFICATION Spec
CONSTANTS
  r1 = r1
  r2 = r2
  p = p
  q = q
  Requests <- OneRequest
  Procs <- OneProc
  ProcOf <- Alone
  NumRoots = 2
  TimeoutLimit = 3
  Fallback = TRUE
  LeftOvers = FALSE
  MaxFaults <- ThreeFaults
  MaxCrashes = 0
INVARIANTS
  NoRemovalUnderWriter
CHECK_DEADLOCK FALSE
