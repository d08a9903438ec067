SPECIFICATION FairSpec
CONSTANTS
  k1 = k1
  k2 = k2
  k3 = k3
  None = None
  Keys <- ThreeKeys
  NumWorkers = 3
INVARIANTS
  Drained
  VerdictRight
  ProgressAddsUp
PROPERTIES
  ImplementsBatch
  Finishes
  JobsRun
CHECK_DEADLOCK FALSE
