SPECIFICATION Spec
CONSTANTS
  Rest <- MCRest
  AD = AD
  AE = AE
  D0 = D0
  D1 = D1
  NoByte = NoByte
INVARIANT SavedIsOutputPort
CHECK_DEADLOCK FALSE
