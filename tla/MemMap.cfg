SPECIFICATION MapSpec
CONSTANTS
  Tables <- MCTables
  Cleared = 2
  Slots = 4
INVARIANTS MapTypeOK MapComplete
CHECK_DEADLOCK FALSE
