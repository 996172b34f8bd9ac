SPECIFICATION Spec
CONSTANTS
  Disks <- FewDisks
  SectorSize = 6
  ProbeSize = 8
  HeapSize = 28
  NodeSize = 2
  Requests = {2}
  Word = 36
  Room = 20
  Starts = {0}
  LongIds <- MCLongIds
  StaleRoots <- MCStaleRoots
  Garbage <- NoGarbage
  ProbePath <- MCProbePath
  ListPath <- MCListPath
  KernelPath <- MCKernelPath
  NULL = NULL
  Junk = Junk
INVARIANTS SuccessMeansLoaded
CHECK_DEADLOCK FALSE
