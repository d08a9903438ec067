SPECIFICATION Spec
CONSTANTS
  t1 = t1
  t2 = t2
  l1 = l1
  l2 = l2
  l3 = l3
  None = None
  Cache = Cache
  Threads <- TwoThreads
  Libraries <- ThreeLibraries
  Defaults <- DefaultOptions
  Overrides <- LaunchOptions
  DefaultSmem = 1
  DeviceSmem = 3
  Portable = 1
  SerialLaunches = FALSE
  MaxLaunches = 4
SYMMETRY Symmetry
INVARIANTS
  LaunchAdmitted
CHECK_DEADLOCK FALSE
