SPECIFICATION FairSpec
CONSTANTS
  Disks <- MCDisks
  SectorSize = 6
  ProbeSize = 8
  HeapSize = 28
  NodeSize = 2
  Requests = {2}
  Word = 36
  Room = 20
  Starts <- MCStarts
  LongIds <- MCLongIds
  StaleRoots <- MCStaleRoots
  Garbage <- MCGarbage
  ProbePath <- MCProbePath
  ListPath <- MCListPath
  KernelPath <- MCKernelPath
  NULL = NULL
  Junk = Junk
INVARIANTS TypeOK LoadKernelCorrect ListShowsDirectory ScanStaysInDirectory AcceptedKernelIsRecorded
           NodesIntact
PROPERTIES Terminates
CHECK_DEADLOCK FALSE
