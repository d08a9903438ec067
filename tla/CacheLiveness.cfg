SPECIFICATION FairSpec
CONSTANTS
  r1 = r1
  r2 = r2
  p = p
  q = q
  Requests <- OneRequest
  Procs <- OneProc
  ProcOf <- Alone
  NumRoots = 2
  TimeoutLimit = 1
  Fallback = TRUE
  LeftOvers = FALSE
  MaxFaults <- TwentyFaults
  MaxCrashes = 0
PROPERTIES
  DisabledRootIsSkipped
  RequestsEnd
CHECK_DEADLOCK FALSE
