SPECIFICATION FairSpec
CONSTANTS
  Media = {1, 2}
  Good = 2
INVARIANTS TypeOK FoundIsUsable FirstUsableWins
PROPERTY Terminates
CHECK_DEADLOCK FALSE
