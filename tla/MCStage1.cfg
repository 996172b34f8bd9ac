SPECIFICATION FairSpec
CONSTANTS
  Half = 16
  Full = 128
  SectorSize = 4
  Para = 4
  Seg0 = 1
  Off0 = 0
  Disks <- MCDisks
  OldDirs <- OldRoot
  EdxHighs = {0, 1}
INVARIANTS TypeOK Stage2Intact LoadIsContiguous
PROPERTIES Terminates
CHECK_DEADLOCK FALSE
