SPECIFICATION Spec
CONSTANTS
  Values = {v1, v2, v3}
  Stale = Stale
INVARIANT NoInterruptInProtectedMode
CHECK_DEADLOCK FALSE
