SPECIFICATION FairSpec
CONSTANTS
  c1 = c1
  c2 = c2
  None = None
  Calls <- TwoCalls
  Daemons <- OneCall
  Timeouts = {"limited", "none", "negative"}
  Fds = {1, 2, 3, 4}
  Pids = {1, 2}
  PipeSize = 1
  MaxFaults = 1
INVARIANTS
  OutputComplete
  DescriptorsOwned
PROPERTIES
  KillsOwnShell
  CallsEnd
CHECK_DEADLOCK FALSE
