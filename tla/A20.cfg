SPECIFICATION FairSpec
CONSTANTS
  Rest <- MCRest
  AD = AD
  AE = AE
  D0 = D0
  D1 = D1
  NoByte = NoByte
INVARIANTS TypeOK KeyboardAndGateReady
PROPERTIES OnlyA20Changes Terminates
CHECK_DEADLOCK FALSE
