SPECIFICATION FairSpec
\* A lost command ends in the state Lost, which nothing leaves.
CHECK_DEADLOCK FALSE
CONSTANTS
  Lbas = {l1, l2}
  NoLba = NoLba
  Junk = Junk
  Units = 3
  IsAtapi = TRUE
  BlockSizes = {1, 2, 3}
INVARIANTS TypeOK PortAgreement
PROPERTIES CommandToQuietDrive CleanReturnHasSector Implements EveryReadReturns
