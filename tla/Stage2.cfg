SPECIFICATION BootFairSpec
CONSTANTS
  Values = {v1, v2, v3}
  Stale = Stale
  Bioses <- MCBioses
INVARIANTS BootTypeOK HandoffComplete ModeMatchesCode ModeHandedOver
PROPERTIES Terminates
CHECK_DEADLOCK FALSE
