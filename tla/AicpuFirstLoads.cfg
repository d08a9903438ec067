SPECIFICATION Spec
CONSTANTS
  t1 = t1
  t2 = t2
  k1 = k1
  k2 = k2
  b1 = b1
  b2 = b2
  c1 = c1
  None = None
  Cache = Cache
  Threads <- TwoThreads
  Kernels <- TwoKernels
  Boots <- TwoBoots
  Calls <- OneCall
  Exclusive = FALSE
  MaxFailures = 0
CHECK_DEADLOCK FALSE
INVARIANTS
  OneBootstrap
