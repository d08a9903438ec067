SPECIFICATION FairSpec
CONSTANTS
  f = f
  g = g
  h = h
  BadLine = BadLine
  NoFile = NoFile
  Files <- ThreeFiles
  NumDirs = 2
  Contents <- Texts
  Sources <- Kernels
  MaxRequests = 3
  MaxEdits = 1
INVARIANTS
  AnswersMatchTree
  CacheSound
PROPERTIES
  RequestsEnd
CHECK_DEADLOCK FALSE
