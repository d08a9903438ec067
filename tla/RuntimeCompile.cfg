SPECIFICATION Spec
CONSTANTS
  t1 = t1
  t2 = t2
  g1 = g1
  g2 = g2
  s1 = s1
  s2 = s2
  h1 = h1
  Unset = Unset
  Threads <- TwoThreads
  Tags <- TwoTags
  Sources <- TwoSources
  Spilling <- Spills
  Defaults <- DefaultOptions
  Overrides <- CallOptions
  Hooks <- OneHook
  MaxVersion = 2
  MaxEdits = 2
  MaxCalls = 3
SYMMETRY Symmetry
INVARIANTS
  HitIsFresh
  NoDuplicates
PROPERTIES
  CachedKernelStable
CHECK_DEADLOCK FALSE
